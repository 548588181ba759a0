------------------------------- MODULE LiveNN -------------------------------
(***************************************************************************)
(* Live object detection on video_3 (samples/video/src/main.c): the status *)
(* word shared by the shell commands `video nn start|stop' and the thread  *)
(* of the channel, which alone loads and unloads the model.                *)
(*                                                                         *)
(* The thread (priority 5) outranks the shell: it may preempt a command    *)
(* between any two accesses, while the shell runs only where the thread    *)
(* blocks (in NPU and flash calls and while it waits for a frame).  So a   *)
(* command takes several steps, and a stretch of the thread without a      *)
(* blocking call takes one.                                                *)
(*                                                                         *)
(* What a flag or a handle of the context names is told from what exists:  *)
(* a load zeroes the handle it is given, and a release clears the flags    *)
(* whatever the runtime answers, so that objects can be left behind.       *)
(***************************************************************************)
EXTENDS Naturals

VARIABLES
  nnStatus,      \* nn->status
  npu,           \* npu_initialized
  flash,         \* flash_model names an image
  model,         \* model_loaded, and nn->model names a network; model_loaded may
                 \* outlive the network, whose unload does nothing then
  left,          \* what exists and no flag or handle names any more
  nnRet,         \* ret of video_nn_release: a call of it has failed
  videoStatus,   \* vthread[3].video_status
  stopRequested, \* vthread[3].stop_requested
  nnPc,          \* where the thread is
  nnShell,       \* where the command is
  seen,          \* video_status as the command read it on entry
  doubled,       \* history: a start was served with something loaded
  refused        \* history: the runtime refused to release something

resources == <<npu, flash, model, left>>
nnPast == <<nnRet, doubled, refused>>
nnVars == <<nnStatus, resources, nnPast, videoStatus, stopRequested, nnPc, nnShell, seen>>

NNStatus == {"STOPPED", "START_REQUESTED", "STARTING", "RUNNING", "STOP_REQUESTED", "ERROR"}

NNTypeOK ==
  /\ nnStatus \in NNStatus
  /\ npu \in BOOLEAN /\ flash \in BOOLEAN /\ model \in BOOLEAN
  /\ left \subseteq {"npu", "flash", "model"}
  /\ nnRet \in BOOLEAN /\ doubled \in BOOLEAN /\ refused \in BOOLEAN
  /\ videoStatus \in {"CLOSE", "STARTING", "OPEN"}
  /\ stopRequested \in BOOLEAN
  /\ nnPc \in {"dead", "setup", "loop", "init", "flash", "load", "query", "wait", "infer",
               "undo", "undoNpu", "unload", "unloadNpu", "exit", "exitNpu"}
  /\ nnShell \in {"idle", "start", "start2", "start3", "start4", "startWrite",
                  "launch", "stop", "stopError", "stopClosed", "stopWrite"}
  /\ seen \in {"CLOSE", "STARTING", "OPEN"}

NNInit ==
  /\ nnStatus = "STOPPED"
  /\ npu = FALSE /\ flash = FALSE /\ model = FALSE /\ left = {}
  /\ nnRet = FALSE /\ doubled = FALSE /\ refused = FALSE
  /\ videoStatus = "CLOSE" /\ stopRequested = FALSE
  /\ nnPc = "dead" /\ nnShell = "idle" /\ seen = "CLOSE"
-----------------------------------------------------------------------------
(***************************************************************************)
(* The shell: one command at a time.                                       *)
(***************************************************************************)

\* video_thread_init("video_3")
LaunchThread ==
  /\ stopRequested' = FALSE
  /\ videoStatus' = "STARTING"
  /\ nnPc' = "setup"

\* cmd_video_start / cmd_video_stop on video_3.
CmdVideoStart ==
  /\ nnShell = "idle" /\ videoStatus = "CLOSE"
  /\ LaunchThread
  /\ UNCHANGED <<nnStatus, resources, nnPast, nnShell, seen>>

CmdVideoStop ==
  /\ nnShell = "idle" /\ videoStatus # "CLOSE"
  /\ stopRequested' = TRUE
  /\ UNCHANGED <<nnStatus, resources, nnPast, videoStatus, nnPc, nnShell, seen>>

\* cmd_video_nn reads video_status before anything else.
CmdNN(what) ==
  /\ nnShell = "idle"
  /\ seen' = videoStatus
  /\ nnShell' = what
  /\ UNCHANGED <<nnStatus, resources, nnPast, videoStatus, stopRequested, nnPc>>

\* nn start is refused while running, starting or stopping.  status is
\* volatile: each of the four comparisons reads it anew, so a thread that moves
\* on in between lets a start through and loads the model a second time.
Refusals    == <<"RUNNING", "START_REQUESTED", "STARTING", "STOP_REQUESTED">>
StartChecks == <<"start", "start2", "start3", "start4", "startWrite">>

StartCheck(i) ==
  /\ nnShell = StartChecks[i]
  /\ nnShell' = IF nnStatus = Refusals[i] THEN "idle" ELSE StartChecks[i + 1]
  /\ UNCHANGED <<nnStatus, resources, nnPast, videoStatus, stopRequested, nnPc, seen>>

StartWrite ==
  /\ nnShell = "startWrite"
  /\ nnStatus' = "START_REQUESTED"
  /\ nnShell' = IF seen = "CLOSE" THEN "launch" ELSE "idle"
  /\ UNCHANGED <<resources, nnPast, videoStatus, stopRequested, nnPc, seen>>

StartLaunch ==
  /\ nnShell = "launch"
  /\ LaunchThread
  /\ nnShell' = "idle"
  /\ UNCHANGED <<nnStatus, resources, nnPast, seen>>

\* nn stop: nothing to do when stopped; an error is cleared.
StopCheck ==
  /\ nnShell = "stop"
  /\ nnShell' = IF nnStatus = "STOPPED" THEN "idle" ELSE "stopError"
  /\ UNCHANGED <<nnStatus, resources, nnPast, videoStatus, stopRequested, nnPc, seen>>

StopCheckError ==
  /\ nnShell = "stopError"
  /\ nnShell' = IF nnStatus = "ERROR" \/ seen = "CLOSE" THEN "stopClosed" ELSE "stopWrite"
  /\ UNCHANGED <<nnStatus, resources, nnPast, videoStatus, stopRequested, nnPc, seen>>

StopClosed ==
  /\ nnShell = "stopClosed"
  /\ nnStatus' = "STOPPED"
  /\ nnShell' = "idle"
  /\ UNCHANGED <<resources, nnPast, videoStatus, stopRequested, nnPc, seen>>

StopWrite ==
  /\ nnShell = "stopWrite"
  /\ nnStatus' = "STOP_REQUESTED"
  /\ nnShell' = "idle"
  /\ UNCHANGED <<resources, nnPast, videoStatus, stopRequested, nnPc, seen>>
-----------------------------------------------------------------------------
(***************************************************************************)
(* The thread.                                                             *)
(***************************************************************************)
Moves(from, to) == nnPc = from /\ nnPc' = to

\* From the start of video_task to its loop, or to EXIT if a call fails.
Setup ==
  /\ \/ Moves("setup", "loop") /\ videoStatus' = "OPEN"
     \/ Moves("setup", "exit") /\ UNCHANGED videoStatus
  /\ UNCHANGED <<nnStatus, resources, nnPast, stopRequested, nnShell, seen>>

\* The head of the loop: the stop flag, then video_nn_service_requests.
ObeyStop ==
  /\ Moves("loop", "exit") /\ stopRequested
  /\ UNCHANGED <<nnStatus, resources, nnPast, videoStatus, stopRequested, nnShell, seen>>

ServiceNothing ==
  /\ Moves("loop", "wait") /\ ~stopRequested
  /\ nnStatus \notin {"START_REQUESTED", "STOP_REQUESTED"}
  /\ UNCHANGED <<nnStatus, resources, nnPast, videoStatus, stopRequested, nnShell, seen>>

ServiceStart ==
  /\ Moves("loop", "init") /\ ~stopRequested
  /\ nnStatus = "START_REQUESTED"
  /\ nnStatus' = "STARTING"
  /\ doubled' = (doubled \/ npu \/ flash \/ model)
  /\ UNCHANGED <<resources, nnRet, refused, videoStatus, stopRequested, nnShell, seen>>

ServiceStop ==
  /\ Moves("loop", "unload") /\ ~stopRequested
  /\ nnStatus = "STOP_REQUESTED"
  /\ UNCHANGED <<nnStatus, resources, nnPast, videoStatus, stopRequested, nnShell, seen>>

\* video_nn_initialize, call by call; each may fail.  The two loads zero their
\* handle first; a load of the model that fails unloads what it has made, which
\* the runtime may refuse.
InitNpu ==
  /\ \/ Moves("init", "flash") /\ npu' = TRUE /\ left' = left \ {"npu"}
     \/ Moves("init", "undo") /\ UNCHANGED <<npu, left>>
  /\ UNCHANGED <<nnStatus, flash, model, nnPast, videoStatus, stopRequested, nnShell, seen>>

LoadFlash ==
  /\ \/ Moves("flash", "load") /\ flash' = TRUE
     \/ Moves("flash", "undo") /\ flash' = FALSE
  /\ left' = IF flash THEN left \cup {"flash"} ELSE left
  /\ UNCHANGED <<nnStatus, npu, model, nnPast, videoStatus, stopRequested, nnShell, seen>>

LoadModel ==
  LET before == IF model THEN left \cup {"model"} ELSE left IN
  /\ \/ Moves("load", "query") /\ model' = TRUE /\ left' = before /\ UNCHANGED refused
     \/ Moves("load", "undo") /\ model' = FALSE /\ left' = before /\ UNCHANGED refused
     \/ Moves("load", "undo") /\ model' = FALSE /\ left' = before \cup {"model"} /\ refused' = TRUE
  /\ UNCHANGED <<nnStatus, npu, flash, nnRet, doubled, videoStatus, stopRequested, nnShell, seen>>

\* The model's inputs and outputs are not the expected ones.
QueryFails ==
  /\ Moves("query", "undo")
  /\ UNCHANGED <<nnStatus, resources, nnPast, videoStatus, stopRequested, nnShell, seen>>

\* Mutant of QuerySucceeds: the stop that came in the meantime is overlooked.
QueryOverlooksStop ==
  /\ Moves("query", "wait")
  /\ nnStatus' = "RUNNING"
  /\ UNCHANGED <<resources, nnPast, videoStatus, stopRequested, nnShell, seen>>

\* Initialised.  A stop that came in the meantime is served first.
QuerySucceeds ==
  /\ IF nnStatus = "STOP_REQUESTED"
     THEN Moves("query", "unload") /\ UNCHANGED nnStatus
     ELSE Moves("query", "wait") /\ nnStatus' = "RUNNING"
  /\ UNCHANGED <<resources, nnPast, videoStatus, stopRequested, nnShell, seen>>

\* Mutant of ReleaseModel: the flash image is forgotten.
ReleaseModelOnly(why, next) ==
  /\ Moves(why, next)
  /\ nnRet' = FALSE /\ model' = FALSE
  /\ UNCHANGED <<nnStatus, npu, flash, left, doubled, refused,
                 videoStatus, stopRequested, nnShell, seen>>

\* video_nn_release from one of its three callers: the unloading of the model,
\* with the image that is freed after it; then the NPU.  The flags are cleared
\* whatever the calls answer.
ReleaseModel(why, next) ==
  /\ Moves(why, next)
  /\ \/ nnRet' = FALSE /\ UNCHANGED <<left, refused>>
     \/ model /\ nnRet' = TRUE /\ left' = left \cup {"model"} /\ refused' = TRUE
  /\ model' = FALSE /\ flash' = FALSE
  /\ UNCHANGED <<nnStatus, npu, doubled, videoStatus, stopRequested, nnShell, seen>>

ReleaseNpu(fails) ==
  /\ fails => npu
  /\ npu' = FALSE
  /\ left' = IF fails THEN left \cup {"npu"} ELSE left
  /\ refused' = (refused \/ fails)
  /\ UNCHANGED <<flash, model, nnRet, doubled>>

StatusAfter(fails) == IF nnRet \/ fails THEN "ERROR" ELSE "STOPPED"

Releases == \/ ReleaseModel("undo", "undoNpu")
            \/ ReleaseModel("unload", "unloadNpu")
            \/ ReleaseModel("exit", "exitNpu")

\* Mutant of InitFailed: the status is left alone.
InitFailedSilently(fails) ==
  /\ Moves("undoNpu", "wait")
  /\ ReleaseNpu(fails)
  /\ UNCHANGED <<nnStatus, videoStatus, stopRequested, nnShell, seen>>

\* What the release of a failed initialisation answers is not looked at.
InitFailed(fails) ==
  /\ Moves("undoNpu", "wait")
  /\ ReleaseNpu(fails)
  /\ nnStatus' = IF nnStatus = "STOP_REQUESTED" THEN "STOPPED" ELSE "ERROR"
  /\ UNCHANGED <<videoStatus, stopRequested, nnShell, seen>>

Unloaded(fails) ==
  /\ Moves("unloadNpu", "wait")
  /\ ReleaseNpu(fails)
  /\ nnStatus' = StatusAfter(fails)
  /\ UNCHANGED <<videoStatus, stopRequested, nnShell, seen>>

\* Mutant of FrameArrives: the frame is processed whatever the status is.
FrameAlwaysInferred ==
  /\ Moves("wait", "infer")
  /\ UNCHANGED <<nnStatus, resources, nnPast, videoStatus, stopRequested, nnShell, seen>>

\* video_dequeue, then video_nn_process.
FrameArrives ==
  /\ Moves("wait", IF nnStatus = "RUNNING" THEN "infer" ELSE "loop")
  /\ UNCHANGED <<nnStatus, resources, nnPast, videoStatus, stopRequested, nnShell, seen>>

FrameTimesOut ==
  /\ Moves("wait", "exit")
  /\ UNCHANGED <<nnStatus, resources, nnPast, videoStatus, stopRequested, nnShell, seen>>

Inferred ==
  /\ Moves("infer", "loop")
  /\ UNCHANGED <<nnStatus, resources, nnPast, videoStatus, stopRequested, nnShell, seen>>

\* Mutant of ExitThread: the status is not written.
ExitSilent(fails) ==
  /\ Moves("exitNpu", "dead")
  /\ ReleaseNpu(fails)
  /\ videoStatus' = "CLOSE"
  /\ UNCHANGED <<nnStatus, stopRequested, nnShell, seen>>

\* EXIT: the stream has been stopped and the model released; the status and then
\* video_status say so.
ExitThread(fails) ==
  /\ Moves("exitNpu", "dead")
  /\ ReleaseNpu(fails)
  /\ nnStatus' = StatusAfter(fails)
  /\ videoStatus' = "CLOSE"
  /\ UNCHANGED <<stopRequested, nnShell, seen>>
-----------------------------------------------------------------------------
ThreadNext ==
  \/ Setup \/ ObeyStop \/ ServiceNothing \/ ServiceStart \/ ServiceStop
  \/ InitNpu \/ LoadFlash \/ LoadModel \/ QueryFails \/ QuerySucceeds
  \/ Releases
  \/ \E fails \in BOOLEAN : InitFailed(fails) \/ Unloaded(fails) \/ ExitThread(fails)
  \/ FrameArrives \/ FrameTimesOut \/ Inferred

CommandStep ==
  \/ \E i \in 1..4 : StartCheck(i)
  \/ StartWrite \/ StartLaunch
  \/ StopCheck \/ StopCheckError \/ StopClosed \/ StopWrite

NNCommand == CmdVideoStart \/ CmdVideoStop \/ \E what \in {"start", "stop"} : CmdNN(what)

NNNext == ThreadNext \/ CommandStep \/ NNCommand

\* The thread's waits have timeouts and a command that began goes on; whether
\* another command is typed is up to the user.
NNSpec == NNInit /\ [][NNNext]_nnVars /\ WF_nnVars(ThreadNext) /\ WF_nnVars(CommandStep)
-----------------------------------------------------------------------------
Alive == nnPc # "dead"

\* A frame is processed only with the whole chain loaded: no command, however
\* it is interleaved, takes the model away or lets a frame in too early.
InferenceHasModel == nnPc = "infer" => npu /\ flash /\ model

\* Whenever the status says STOPPED or ERROR, or the thread is gone, no flag and
\* no handle holds anything; and nothing is left behind them, unless a start was
\* served over a loaded model or the runtime refused a release: no failure path
\* leaks the NPU, the flash image or the model.
IdleHoldsNothing ==
  /\ (nnStatus \in {"STOPPED", "ERROR"} \/ ~Alive) => ~npu /\ ~flash /\ ~model
  /\ left # {} => doubled \/ refused

\* RUNNING is only said of a loaded model that a thread is serving; apart from
\* the end of that thread, which says so until all of it is released.
RunningIsServed ==
  nnStatus = "RUNNING" => Alive /\ ((npu /\ flash /\ model) \/ nnPc = "exitNpu")

\* "Live YOLO is already running or starting": nothing is loaded over a model
\* that is loaded, so that its flash image is left behind.
NothingLoadedTwice == "flash" \notin left

\* A stop that is requested while the thread lives unloads everything.
StopUnloads == Alive /\ nnStatus = "STOP_REQUESTED" ~> ~npu /\ ~flash /\ ~model

\* A start that is requested while the thread lives is decided.
StartDecided ==
  Alive /\ nnStatus = "START_REQUESTED"
    ~> nnStatus \in {"RUNNING", "STOPPED", "ERROR", "STOP_REQUESTED"}

\* "Live YOLO is stopping; retry after status is STOPPED": a pending stop is
\* over one day, or the user types another command.
StoppingEnds == nnStatus = "STOP_REQUESTED" ~> nnStatus # "STOP_REQUESTED"
=============================================================================
