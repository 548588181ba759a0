SPECIFICATION NNSpec
INVARIANT
  NothingLoadedTwice
