------------------------------ MODULE MCSample ------------------------------
(* Three parts of samples/video/src/main.c on their instances: the nn        *)
(* commands, the recordings, and the restarts of a thread over its queues.   *)
(* They share no variable, so one run explores them side by side: part names *)
(* the one that runs, the variables of the others keep their initial values. *)
EXTENDS LiveNN, Recording, VideoRestart

VARIABLE part

vars == <<part, nnVars, recVars, restartVars>>

Init ==
  /\ part \in {"nn", "recording", "restart"}
  /\ NNInit /\ RecInit /\ RestartInit

OnlyNN        == part = "nn" /\ UNCHANGED <<part, recVars, restartVars>>
OnlyRecording == part = "recording" /\ UNCHANGED <<part, nnVars, restartVars>>
OnlyRestart   == part = "restart" /\ UNCHANGED <<part, nnVars, recVars>>

Next ==
  \/ OnlyNN /\ NNNext
  \/ OnlyRecording /\ RecNext
  \/ OnlyRestart /\ RestartNext

\* the fairness of each specification, for the one that runs
Fairness ==
  /\ WF_nnVars(OnlyNN /\ ThreadNext) /\ WF_nnVars(OnlyNN /\ CommandStep)
  /\ \A c \in Channels : WF_recVars(OnlyRecording /\ ThreadStep(c))
  /\ WF_restartVars(OnlyRestart /\ Thread)

Spec == Init /\ [][Next]_vars /\ Fairness
=============================================================================
