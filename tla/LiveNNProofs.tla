--------------------------- MODULE LiveNNProofs ---------------------------
(***************************************************************************)
(* Safety of the nn commands (samples/video/src/main.c): whatever the      *)
(* shell and the thread of video_3 interleave, the status word is backed   *)
(* by what is loaded.                                                      *)
(***************************************************************************)
EXTENDS LiveNN, TLAPS

Nothing    == ~npu /\ ~flash /\ ~model
Everything == npu /\ flash /\ model

\* What the thread holds where it stands.
HeldWhereItStands ==
  /\ nnPc = "dead" => Nothing
  /\ nnPc \in {"flash", "load", "query"} => npu
  /\ nnPc \in {"load", "query"} => flash
  /\ nnPc = "query" => model
  /\ nnPc = "infer" => Everything
  /\ nnPc \in {"undoNpu", "unloadNpu", "exitNpu"} => ~flash /\ ~model

\* Why something can be left behind: an initialisation that finds something
\* loaded is that of a second start, and so is the rest of it.
LeftWhereItStands ==
  /\ nnPc \in {"init", "flash"} /\ (flash \/ model) => doubled
  /\ nnPc = "load" /\ model => doubled
  /\ left # {} => doubled \/ refused

\* What the status can be where the thread stands.
StatusWhereItStands ==
  /\ nnStatus = "RUNNING" => nnPc \in {"loop", "wait", "infer", "exit", "exitNpu"}
  /\ nnStatus = "STARTING" => nnPc \in {"init", "flash", "load", "query", "undo", "undoNpu"}
  /\ nnStatus \in {"STOPPED", "ERROR"} =>
       nnPc \in {"dead", "setup", "loop", "wait", "exit", "exitNpu"}

\* What the status promises, and what a command in progress relies on: the
\* thread of a channel that was closed on entry stays dead until the command
\* is over, and an error or a stop is only overwritten by the command itself.
StatusPromises ==
  /\ nnStatus \in {"STOPPED", "ERROR"} => Nothing
  /\ nnStatus = "RUNNING" => Everything \/ nnPc = "exitNpu"

CommandRelies ==
  /\ videoStatus = "CLOSE" <=> nnPc = "dead"
  /\ nnShell # "idle" /\ seen = "CLOSE" => nnPc = "dead"
  /\ nnShell = "launch" => nnPc = "dead"
  /\ nnShell = "stopClosed" => nnStatus \in {"STOPPED", "ERROR"} \/ nnPc = "dead"

NNInv == NNTypeOK /\ HeldWhereItStands /\ LeftWhereItStands /\ StatusWhereItStands
         /\ StatusPromises /\ CommandRelies
-----------------------------------------------------------------------------
LEMMA InitNNInv == NNInit => NNInv
  BY DEF NNInit, NNInv, NNTypeOK, NNStatus, HeldWhereItStands, LeftWhereItStands,
         StatusWhereItStands,
         StatusPromises, CommandRelies, Nothing, Everything

\* The commands change the status and start the thread.
LEMMA CommandsKeep == NNInv /\ (NNCommand \/ CommandStep) => NNInv'
<1> SUFFICES ASSUME NNInv, NNCommand \/ CommandStep PROVE NNInv'
  OBVIOUS
<1> USE DEF NNInv, NNTypeOK, NNStatus, HeldWhereItStands, LeftWhereItStands, StatusWhereItStands,
            StatusPromises, CommandRelies, Nothing, Everything, resources, nnPast
<1>1. CASE CmdVideoStart
  BY <1>1 DEF CmdVideoStart, LaunchThread
<1>2. CASE CmdVideoStop
  BY <1>2 DEF CmdVideoStop
<1>3. ASSUME NEW what \in {"start", "stop"}, CmdNN(what) PROVE NNInv'
  BY <1>3 DEF CmdNN
<1>4. ASSUME NEW i \in 1..4, StartCheck(i) PROVE NNInv'
  <2>1. nnShell' \in {"idle", "start2", "start3", "start4", "startWrite"} /\ nnShell # "idle"
    BY <1>4 DEF StartCheck, StartChecks
  <2> QED  BY <1>4, <2>1 DEF StartCheck
<1>5. CASE StartWrite
  BY <1>5 DEF StartWrite
<1>6. CASE StartLaunch
  BY <1>6 DEF StartLaunch, LaunchThread
<1>7. CASE StopCheck
  BY <1>7 DEF StopCheck
<1>8. CASE StopCheckError
  BY <1>8 DEF StopCheckError
<1>9. CASE StopClosed
  BY <1>9 DEF StopClosed
<1>10. CASE StopWrite
  BY <1>10 DEF StopWrite
<1> QED  BY <1>1, <1>2, <1>3, <1>4, <1>5, <1>6, <1>7, <1>8, <1>9,
               <1>10 DEF NNCommand, CommandStep

\* Whatever the thread does is of the right kind.
LEMMA ThreadTypes == NNTypeOK /\ ThreadNext => NNTypeOK'
<1> SUFFICES ASSUME NNTypeOK, ThreadNext PROVE NNTypeOK'
  OBVIOUS
<1>1. left' \subseteq {"npu", "flash", "model"}
  <2> left \subseteq {"npu", "flash", "model"}
    BY DEF NNTypeOK
  <2>1. CASE InitNpu
    BY <2>1 DEF InitNpu
  <2>2. CASE LoadFlash
    BY <2>2 DEF LoadFlash
  <2>3. CASE LoadModel
    BY <2>3 DEF LoadModel
  <2>4. CASE Releases
    BY <2>4 DEF Releases, ReleaseModel
  <2>5. ASSUME NEW fails \in BOOLEAN, ReleaseNpu(fails)
        PROVE  left' \subseteq {"npu", "flash", "model"}
    BY <2>5 DEF ReleaseNpu
  <2>6. CASE left' = left
    BY <2>6
  <2> QED  BY <2>1, <2>2, <2>3, <2>4, <2>5, <2>6 DEF ThreadNext, resources, Setup, ObeyStop,
                ServiceNothing, ServiceStart, ServiceStop, QueryFails, QuerySucceeds, InitFailed,
                Unloaded, ExitThread, FrameArrives, FrameTimesOut, Inferred
<1>2. /\ npu' \in BOOLEAN /\ flash' \in BOOLEAN /\ model' \in BOOLEAN
      /\ nnRet' \in BOOLEAN /\ doubled' \in BOOLEAN /\ refused' \in BOOLEAN
  BY DEF NNTypeOK, ThreadNext, resources, nnPast, Setup, ObeyStop, ServiceNothing, ServiceStart,
         ServiceStop, InitNpu, LoadFlash, LoadModel, QueryFails, QuerySucceeds, Releases,
         ReleaseModel, InitFailed, Unloaded, ExitThread, ReleaseNpu, FrameArrives, FrameTimesOut,
         Inferred
<1>3. nnStatus' \in NNStatus /\ videoStatus' \in {"CLOSE", "STARTING", "OPEN"}
  BY DEF NNTypeOK, NNStatus, ThreadNext, Setup, ObeyStop, ServiceNothing, ServiceStart,
         ServiceStop, InitNpu, LoadFlash, LoadModel, QueryFails, QuerySucceeds, Releases,
         ReleaseModel, InitFailed, Unloaded, ExitThread, StatusAfter, FrameArrives,
         FrameTimesOut, Inferred
<1>4. UNCHANGED <<stopRequested, nnShell, seen>>
  BY DEF ThreadNext, Setup, ObeyStop, ServiceNothing, ServiceStart,
         ServiceStop, InitNpu, LoadFlash, LoadModel, QueryFails, QuerySucceeds, Releases,
         ReleaseModel, InitFailed, Unloaded, ExitThread, FrameArrives, FrameTimesOut, Inferred
<1>5. nnPc' \in {"dead", "setup", "loop", "init", "flash", "load", "query", "wait", "infer",
                 "undo", "undoNpu", "unload", "unloadNpu", "exit", "exitNpu"}
  BY DEF ThreadNext, Moves, Setup, ObeyStop, ServiceNothing, ServiceStart,
         ServiceStop, InitNpu, LoadFlash, LoadModel, QueryFails, QuerySucceeds, Releases,
         ReleaseModel, InitFailed, Unloaded, ExitThread, FrameArrives, FrameTimesOut, Inferred
<1> QED  BY <1>1, <1>2, <1>3, <1>4, <1>5 DEF NNTypeOK

\* The thread changes what is loaded, and its own place with it.
LEMMA ThreadKeeps == NNInv /\ ThreadNext => NNInv'
<1> SUFFICES ASSUME NNInv, ThreadNext PROVE NNInv'
  OBVIOUS
<1>0. NNTypeOK'
  BY ThreadTypes DEF NNInv
<1> USE <1>0 DEF NNInv, HeldWhereItStands, LeftWhereItStands, StatusWhereItStands,
            StatusPromises, CommandRelies, Nothing, Everything, resources, nnPast, Moves
<1>1. CASE Setup
  BY <1>1 DEF Setup
<1>2. CASE ObeyStop
  BY <1>2 DEF ObeyStop
<1>3. CASE ServiceNothing
  BY <1>3 DEF ServiceNothing
<1>4. CASE ServiceStart
  BY <1>4 DEF ServiceStart
<1>5. CASE ServiceStop
  BY <1>5 DEF ServiceStop
<1>6. CASE InitNpu
  <2>1. CASE Moves("init", "flash") /\ npu' = TRUE /\ left' = left \ {"npu"}
    BY <1>6, <2>1 DEF InitNpu
  <2>2. CASE Moves("init", "undo") /\ UNCHANGED <<npu, left>>
    BY <1>6, <2>2 DEF InitNpu
  <2> QED  BY <1>6, <2>1, <2>2 DEF InitNpu
<1>7. CASE LoadFlash
  <2>1. CASE Moves("flash", "load") /\ flash' = TRUE
    BY <1>7, <2>1 DEF LoadFlash
  <2>2. CASE Moves("flash", "undo") /\ flash' = FALSE
    BY <1>7, <2>2 DEF LoadFlash
  <2> QED  BY <1>7, <2>1, <2>2 DEF LoadFlash
<1>8. CASE LoadModel
  <2>1. CASE Moves("load", "query") /\ model' = TRUE
    BY <1>8, <2>1 DEF LoadModel
  <2>2. CASE Moves("load", "undo") /\ model' = FALSE /\ UNCHANGED refused
    BY <1>8, <2>2 DEF LoadModel
  <2>3. CASE Moves("load", "undo") /\ model' = FALSE /\ refused' = TRUE
    BY <1>8, <2>3 DEF LoadModel
  <2> QED  BY <1>8, <2>1, <2>2, <2>3 DEF LoadModel
<1>9. CASE QueryFails
  BY <1>9 DEF QueryFails
<1>10. CASE QuerySucceeds
  BY <1>10 DEF QuerySucceeds
<1>11. CASE Releases
  <2>1. CASE ReleaseModel("undo", "undoNpu")
    BY <2>1 DEF ReleaseModel
  <2>2. CASE ReleaseModel("unload", "unloadNpu")
    BY <2>2 DEF ReleaseModel
  <2>3. CASE ReleaseModel("exit", "exitNpu")
    BY <2>3 DEF ReleaseModel
  <2> QED  BY <1>11, <2>1, <2>2, <2>3 DEF Releases
<1>12. ASSUME NEW fails \in BOOLEAN, ReleaseNpu(fails),
              InitFailed(fails) \/ Unloaded(fails) \/ ExitThread(fails)
       PROVE  NNInv'
  <2>1. Nothing'
    BY <1>12 DEF ReleaseNpu, InitFailed, Unloaded, ExitThread
  <2>2. left' # {} => doubled' \/ refused'
    BY <1>12 DEF ReleaseNpu
  <2>3. CASE InitFailed(fails)
    BY <2>1, <2>2, <2>3 DEF InitFailed
  <2>4. CASE Unloaded(fails)
    BY <2>1, <2>2, <2>4 DEF Unloaded, StatusAfter
  <2>5. CASE ExitThread(fails)
    BY <2>1, <2>2, <2>5 DEF ExitThread, StatusAfter
  <2> QED  BY <1>12, <2>3, <2>4, <2>5
<1>13. CASE FrameArrives
  BY <1>13 DEF FrameArrives
<1>14. CASE FrameTimesOut
  BY <1>14 DEF FrameTimesOut
<1>15. CASE Inferred
  BY <1>15 DEF Inferred
<1> QED  BY <1>1, <1>2, <1>3, <1>4, <1>5, <1>6, <1>7, <1>8, <1>9, <1>10, <1>11, <1>12, <1>13,
            <1>14, <1>15 DEF ThreadNext, InitFailed, Unloaded, ExitThread

LEMMA NNStep == NNInv /\ [NNNext]_nnVars => NNInv'
<1> SUFFICES ASSUME NNInv, [NNNext]_nnVars PROVE NNInv'
  OBVIOUS
<1>1. CASE NNNext
  BY <1>1, CommandsKeep, ThreadKeeps DEF NNNext
<1>2. CASE UNCHANGED nnVars
  BY <1>2 DEF nnVars, resources, nnPast, NNInv, NNTypeOK, HeldWhereItStands, LeftWhereItStands,
              StatusWhereItStands, StatusPromises, CommandRelies, Nothing, Everything
<1> QED  BY <1>1, <1>2

LEMMA AlwaysNNInv == NNSpec => []NNInv
<1>1. NNInit => NNInv
  BY InitNNInv
<1>2. NNInv /\ [NNNext]_nnVars => NNInv'
  BY NNStep
<1> QED  BY <1>1, <1>2, PTL DEF NNSpec
-----------------------------------------------------------------------------
\* The status, the two flags and the places of thread and command are what
\* the code can make of them (app_live_nn_context, cmd_video_nn).
THEOREM NNTypeCorrect == NNSpec => []NNTypeOK
<1>1. NNInv => NNTypeOK
  BY DEF NNInv
<1> QED  BY <1>1, AlwaysNNInv, PTL

\* A frame is handed to the NPU only with NPU, flash image and model in place,
\* although commands write the status at any moment (video_nn_process).
THEOREM InferencesHaveModel == NNSpec => []InferenceHasModel
<1>1. NNInv => InferenceHasModel
  BY DEF NNInv, HeldWhereItStands, Everything, InferenceHasModel
<1> QED  BY <1>1, AlwaysNNInv, PTL

\* STOPPED, ERROR and a dead thread hold nothing: every failure path of
\* video_nn_initialize and EXIT of video_task releases all three; and whatever
\* is left behind was left by a start over a loaded model or by a refusal of
\* the runtime (video_nn_release, ameba_npu_load).
THEOREM IdleIsEmpty == NNSpec => []IdleHoldsNothing
<1>1. NNInv => IdleHoldsNothing
  BY DEF NNInv, HeldWhereItStands, LeftWhereItStands, StatusPromises, Nothing,
         IdleHoldsNothing, Alive
<1> QED  BY <1>1, AlwaysNNInv, PTL

\* RUNNING is said only while a thread serves a loaded model, or is between
\* the last release of EXIT and the write of the status after it: the thread
\* takes the word back before it ends, and no command writes it.
THEOREM RunningHasServer == NNSpec => []RunningIsServed
<1>1. NNInv => RunningIsServed
  BY DEF NNInv, StatusWhereItStands, StatusPromises, Everything, RunningIsServed, Alive
<1> QED  BY <1>1, AlwaysNNInv, PTL
-----------------------------------------------------------------------------
\* A start that has passed its four comparisons will not overwrite a stop:
\* only a command can ask for one, and the shell runs one at a time.
NoStopPending == nnShell = "startWrite" => nnStatus # "STOP_REQUESTED"

\* The thread never asks for a stop.
LEMMA ThreadAsksNoStop ==
  ThreadNext => nnShell' = nnShell /\ (nnStatus # "STOP_REQUESTED" => nnStatus' # "STOP_REQUESTED")
BY DEF ThreadNext, Setup, ObeyStop, ServiceNothing, ServiceStart, ServiceStop, InitNpu, LoadFlash,
       LoadModel, QueryFails, QuerySucceeds, Releases, ReleaseModel, InitFailed, Unloaded,
       FrameArrives, FrameTimesOut, Inferred, ExitThread, StatusAfter

LEMMA NoStopPendingKept == NoStopPending /\ [NNNext]_nnVars => NoStopPending'
<1> SUFFICES ASSUME NoStopPending, [NNNext]_nnVars PROVE NoStopPending'
  OBVIOUS
<1> USE DEF NoStopPending
<1>1. CASE ThreadNext
  BY <1>1, ThreadAsksNoStop
<1>2. ASSUME NEW i \in 1..4, StartCheck(i) PROVE NoStopPending'
  <2>1. CASE i = 4
    BY <1>2, <2>1 DEF StartCheck, StartChecks, Refusals
  <2>2. CASE i \in 1..3
    BY <1>2, <2>2 DEF StartCheck, StartChecks, Refusals
  <2> QED  BY <2>1, <2>2
<1>3. CASE StartWrite \/ StartLaunch \/ StopCheck \/ StopCheckError \/ StopClosed \/ StopWrite
  BY <1>3 DEF StartWrite, StartLaunch, StopCheck, StopCheckError, StopClosed, StopWrite
<1>4. CASE NNCommand
  BY <1>4 DEF NNCommand, CmdVideoStart, CmdVideoStop, CmdNN
<1>5. CASE UNCHANGED nnVars
  BY <1>5 DEF nnVars
<1> QED  BY <1>1, <1>2, <1>3, <1>4, <1>5 DEF NNNext, CommandStep

LEMMA AlwaysNoStopPending == NNSpec => []NoStopPending
<1>1. NNInit => NoStopPending
  BY DEF NNInit, NoStopPending
<1> QED  BY <1>1, NoStopPendingKept, PTL DEF NNSpec

\* A stop request stands until it is served: nothing but a release of all that
\* is held ends it.  No start, no second stop and no step of an initialisation
\* that is under way writes over it, although nothing locks nn->status.
StopServed ==
  [][nnStatus = "STOP_REQUESTED" /\ nnStatus' # "STOP_REQUESTED"
       => nnStatus' \in {"STOPPED", "ERROR"} /\ ~npu' /\ ~flash' /\ ~model']_nnVars

\* However thread and shell interleave, a stop that was accepted is never lost:
\* the part of StopUnloads that does not rest on fairness.
THEOREM StopIsNeverLost == NNSpec => StopServed
<1>1. NNInv /\ NoStopPending /\ [NNNext]_nnVars
        => [nnStatus = "STOP_REQUESTED" /\ nnStatus' # "STOP_REQUESTED"
              => nnStatus' \in {"STOPPED", "ERROR"} /\ ~npu' /\ ~flash' /\ ~model']_nnVars
  <2> SUFFICES ASSUME NNInv, NoStopPending, NNNext,
                      nnStatus = "STOP_REQUESTED", nnStatus' # "STOP_REQUESTED"
               PROVE  nnStatus' \in {"STOPPED", "ERROR"} /\ ~npu' /\ ~flash' /\ ~model'
    OBVIOUS
  <2>1. CASE ThreadNext
    BY <2>1 DEF ThreadNext, Setup, ObeyStop, ServiceNothing, ServiceStart, ServiceStop, InitNpu,
                LoadFlash, LoadModel, QueryFails, QuerySucceeds, Releases, ReleaseModel, InitFailed,
                Unloaded, FrameArrives, FrameTimesOut, Inferred, ExitThread, ReleaseNpu,
                StatusAfter, NNInv, HeldWhereItStands, Moves
  <2>2. CASE StartWrite
    BY <2>2 DEF StartWrite, NoStopPending
  <2>3. CASE StopClosed
    BY <2>3 DEF StopClosed, resources, NNInv, CommandRelies, HeldWhereItStands, Nothing
  <2>4. ASSUME \/ StartLaunch \/ StopCheck \/ StopCheckError \/ StopWrite \/ NNCommand
               \/ \E i \in 1..4 : StartCheck(i)
        PROVE  FALSE
    BY <2>4 DEF StartLaunch, StopCheck, StopCheckError, StopWrite, NNCommand, CmdVideoStart,
                CmdVideoStop, CmdNN, StartCheck
  <2> QED  BY <2>1, <2>2, <2>3, <2>4 DEF NNNext, CommandStep
<1> QED  BY <1>1, AlwaysNNInv, AlwaysNoStopPending, PTL DEF NNSpec, StopServed

\* A model that runs is taken away only from a thread that ends.
RunsUntilExit == [][nnStatus = "RUNNING" /\ ~model' => nnPc \in {"exit", "exitNpu"}]_nnVars

\* No command that is refused, and no failing call, unloads a model whose
\* status is RUNNING (video_nn_release and its three callers).
THEOREM RunningModelStays == NNSpec => RunsUntilExit
<1>1. NNInv /\ [NNNext]_nnVars
        => [nnStatus = "RUNNING" /\ ~model' => nnPc \in {"exit", "exitNpu"}]_nnVars
  <2> SUFFICES ASSUME NNInv, NNNext, nnStatus = "RUNNING", ~model'
               PROVE  nnPc \in {"exit", "exitNpu"}
    OBVIOUS
  <2>1. nnPc = "exitNpu" \/ (model /\ nnPc \in {"loop", "wait", "infer", "exit"})
    BY DEF NNInv, StatusPromises, StatusWhereItStands, Everything
  <2>2. CASE ThreadNext
    BY <2>1, <2>2 DEF ThreadNext, Moves, resources, Setup, ObeyStop, ServiceNothing, ServiceStart,
                      ServiceStop, InitNpu, LoadFlash, LoadModel, QueryFails, QuerySucceeds,
                      Releases, ReleaseModel, InitFailed, Unloaded, FrameArrives,
                      FrameTimesOut, Inferred, ExitThread, ReleaseNpu
  <2>3. CASE CommandStep \/ NNCommand
    BY <2>1, <2>3 DEF CommandStep, NNCommand, resources, StartCheck, StartWrite, StartLaunch,
                      LaunchThread, StopCheck, StopCheckError, StopClosed, StopWrite,
                      CmdVideoStart, CmdVideoStop, CmdNN
  <2> QED  BY <2>2, <2>3 DEF NNNext
<1> QED  BY <1>1, AlwaysNNInv, PTL DEF NNSpec, RunsUntilExit
=============================================================================
