SPECIFICATION NNSpec
PROPERTY
  StoppingEnds
