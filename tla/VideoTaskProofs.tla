--------------------------- MODULE VideoTaskProofs ---------------------------
(***************************************************************************)
(* Proofs about VideoTask, for any number of buffers and slots: a          *)
(* streaming thread keeps the contract that VideoChannelProofs assumes of  *)
(* a client, so the theorems proved there hold of the program: the two     *)
(* proofs are composed here.                                               *)
(***************************************************************************)
EXTENDS VideoTask, VideoChannelProofs, FiniteSetTheorems

\* The driver whatever its client does: VideoChannel without the contract.
AnyClient == \/ StreamStart \/ StreamStartFails \/ StreamStop
             \/ Dequeue \/ DequeueAgain
             \/ \E t \in Formats : SetFmt(t)
             \/ \E b \in Buffers : ClearSize(b) \/ EnqueueRelease(b)

AnyNext == Callback \/ AnyClient \/ DriverStep \/ Control

\* The callback fills a buffer, with a frame of whatever length.
Delivers(f, kind) == Deliver(f, kind) \/ DeliverEmpty(f, kind)

\* What the thread holds: the buffers it has not enqueued yet and the one it
\* has dequeued.
Handful == {"frame", "enqueue", "clear", "reput"}

HeldView == held = (next..NumBufs) \cup (IF pc \in Handful THEN {vbuf} ELSE {})

\* Up to the start of the stream nothing has come from the engine.
BeforeStream ==
  /\ pc \in {"none", "setup", "fill", "start"} =>
       /\ ~streaming /\ drained /\ ~broken /\ video_status # "OPEN"
       /\ fifoOut = <<>> /\ \A b \in Buffers : carries[b] = NoFrame
  /\ pc \in {"none", "setup"} => next = 1
  /\ pc \notin {"none", "setup", "fill", "exit", "dead"} => next = NumBufs + 1

\* While it streams, and while it takes back what the stop has flushed.
InStream ==
  /\ pc \in {"loop", "wait", "frame", "enqueue", "stop"} => streaming /\ video_status = "OPEN"
  /\ pc \in {"frame", "enqueue"} => vbuf \in current
  /\ pc \in {"stop", "requeue", "clear", "reput"} => ending
  /\ pc \in {"requeue", "clear", "reput"} => ~streaming /\ ~drained
  /\ pc = "reput" => carries[vbuf] = NoFrame
  /\ pc # "abandon"

\* How it ends: EXIT finds the stream running exactly when the status is OPEN.
AtTheEnd ==
  /\ pc \in {"exit", "dead"} => op = "idle"
  /\ pc = "exit" => /\ video_status = "OPEN" <=> streaming
                    /\ ~streaming => ~broken /\ fifoOut = <<>>
                    /\ streaming => next = NumBufs + 1
  /\ pc = "dead" => ~streaming /\ (broken \/ fifoOut = <<>>)

ThreadView == HeldView /\ BeforeStream /\ InStream /\ AtTheEnd

DriverView == TypeOK /\ (op = "idle" => inHand = NoBuf) /\ (op = "enqueuing" => inHand \in Buffers)

TaskInv == /\ TaskTypeOK /\ DriverView
           /\ ~IsSnapshotChannel => ChannelInv /\ ThreadView
-----------------------------------------------------------------------------
\* Types, which need no contract.
LEMMA HeadIsBuffer ==
  ASSUME NEW s \in Seq(Buffers), s # <<>>
  PROVE  Head(s) \in Buffers /\ Tail(s) \in Seq(Buffers)
  OBVIOUS

LEMMA AnyTypes == DriverView /\ [AnyNext]_vars => DriverView'
<1> SUFFICES ASSUME DriverView, [AnyNext]_vars PROVE DriverView'
  OBVIOUS
<1> USE ChannelAssumption DEF DriverView
<1>1. ASSUME NEW f \in Frames, NEW kind \in Kinds, Delivers(f, kind) PROVE DriverView'
  <2>0. PICK content \in Frames \cup {NoFrame} : FillOldest(f, kind, content)
    BY <1>1 DEF Delivers, Deliver, DeliverEmpty
  <2>1. Head(fifoIn) \in Buffers /\ Tail(fifoIn) \in Seq(Buffers)
    BY <2>0, HeadIsBuffer DEF FillOldest, TypeOK
  <2>2. owed' \in [Frames -> Int] /\ carries' \in [Buffers -> Frames \cup {NoFrame}]
    BY <2>0 DEF FillOldest, TypeOK
  <2>3. fifoOut' \in Seq(Buffers) /\ fifoIn' \in Seq(Buffers)
    BY <2>0, <2>1 DEF FillOldest, TypeOK
  <2>4. forcei' \in BOOLEAN /\ unsized' \in SUBSET Frames
    BY <1>1, <2>0 DEF Delivers, Deliver, DeliverEmpty, FillOldest, TypeOK
  <2> QED  BY <2>0, <2>2, <2>3, <2>4 DEF FillOldest, EngineHas, TypeOK, client, format
<1>2. CASE FlushGet
  <2>1. inHand' \in Buffers /\ fifoIn' \in Seq(Buffers)
    BY <1>2, HeadIsBuffer DEF FlushGet, TypeOK
  <2> QED  BY <1>2, <2>1 DEF FlushGet, TypeOK, client, format, hal, force
<1>3. CASE FlushPut
  <2>1. fifoOut' \in Seq(Buffers)
    BY <1>3 DEF FlushPut, TypeOK
  <2> QED  BY <1>3, <2>1 DEF FlushPut, TypeOK, client, format, hal, force
<1>4. CASE Dequeue
  <2>1. Head(fifoOut) \in Buffers /\ fifoOut' \in Seq(Buffers)
    BY <1>4, HeadIsBuffer DEF Dequeue, TypeOK
  <2>2. held' \in SUBSET Buffers /\ current' \in SUBSET Buffers
    BY <1>4, <2>1 DEF Dequeue, TypeOK
  <2> QED  BY <1>4, <2>1, <2>2 DEF Dequeue, TypeOK, hal, force, format
<1>5. ASSUME NEW b \in Buffers, EnqueueRelease(b) PROVE DriverView'
  <2>1. owed' \in [Frames -> Int]
    BY <1>5 DEF EnqueueRelease, TypeOK
  <2> QED  BY <1>5, <2>1 DEF EnqueueRelease, TypeOK, force, format
<1>6. CASE EnqueuePut
  <2>1. fifoIn' \in Seq(Buffers)
    BY <1>6 DEF EnqueuePut, TypeOK
  <2> QED  BY <1>6, <2>1 DEF EnqueuePut, TypeOK, client, format, hal, force
<1>7. CASE StreamStop
  <2>1. CASE CloseSucceeds
    <3>1. owed' = [f \in Frames |-> 0] /\ open' = FALSE /\ broken' = broken /\ unsized' = {}
      BY <2>1 DEF CloseSucceeds
    <3>2. owed' \in [Frames -> Int]
      BY <3>1
    <3> QED  BY <1>7, <3>1, <3>2 DEF StreamStop, TypeOK, force, format
  <2>2. CASE CloseFails
    BY <1>7, <2>2 DEF StreamStop, CloseFails, TypeOK, force, format
  <2> QED  BY <1>7, <2>1, <2>2 DEF StreamStop
<1>8. ASSUME NEW b \in Buffers, ClearSize(b) PROVE DriverView'
  BY <1>8 DEF ClearSize, TypeOK, hal, force, format, client
<1>9. ASSUME NEW f \in Frames, NEW kind \in Kinds,
             DropUntilKey(f, kind) \/ DropNoBuffer(f, kind)
      PROVE  DriverView'
  BY <1>9 DEF DropUntilKey, DropNoBuffer, EngineHas, TypeOK, force, format, client, queues
<1>10. ASSUME \/ StreamStart \/ StreamStartFails \/ DequeueAgain \/ FlushEnd
              \/ EncOverflow \/ ForceRequest \/ ForceFlag \/ Snapshot \/ UNCHANGED vars
              \/ (\E t \in Formats : SetFmt(t))
       PROVE  DriverView'
  <2> USE <1>10 DEF StreamStart, StreamStartFails, DequeueAgain, FlushEnd, EncOverflow,
                    ForceRequest, ForceFlag, Snapshot, SetFmt, vars, hal, force, format,
                    client, queues
  <2>1. TypeOK'
    <3>1. keyDue' \in BOOLEAN
      BY DEF TypeOK
    <3> QED  BY <3>1 DEF TypeOK
  <2> QED  BY <2>1
<1> QED
  BY <1>1, <1>2, <1>3, <1>4, <1>5, <1>6, <1>7, <1>8, <1>9, <1>10
     DEF AnyNext, AnyClient, Delivers, Callback, DriverStep, Control

\* The thread calls nothing but the driver, with buffers of its own.
LEMMA ThreadUsesDriver == DriverView /\ TaskTypeOK /\ [TaskNext]_allVars => [AnyNext]_vars
<1> SUFFICES ASSUME DriverView, TaskTypeOK, [TaskNext]_allVars PROVE [AnyNext]_vars
  OBVIOUS
<1> USE TaskAssumption DEF AnyNext, AnyClient
<1>1. CASE Setup
  <2>1. ChannelFormats \subseteq Formats
    BY DEF ChannelFormats
  <2> QED  BY <1>1, <2>1 DEF Setup
<1>2. CASE Fill
  <2>1. next \in Buffers
    BY <1>2 DEF Fill, TaskTypeOK
  <2> QED  BY <1>2, <2>1 DEF Fill
<1>3. CASE GiveBack \/ RequeuePut
  <2>1. EnqueueRelease(vbuf) /\ vbuf \in Buffers
    BY <1>3 DEF GiveBack, RequeuePut, EnqueueRelease, DriverView, TypeOK
  <2> QED  BY <2>1
<1>4. CASE RequeueClear
  <2>1. ClearSize(vbuf) /\ vbuf \in Buffers
    BY <1>4 DEF RequeueClear, ClearSize, DriverView, TypeOK
  <2> QED  BY <2>1
<1>5. CASE StartOnce \/ OpenForSnapshot \/ GetFrame \/ StreamTimesOut \/ AbandonSnapshot
           \/ Stop \/ RequeueGet \/ RequeueEnd
  BY <1>5 DEF StartOnce, OpenForSnapshot, GetFrame, StreamTimesOut, AbandonSnapshot,
              Stop, RequeueGet, RequeueEnd
<1>6. CASE Filled \/ ObeyStop \/ StreamOn \/ SnapshotTimesOut \/ UseFrame \/ Exit
           \/ CmdStart \/ CmdStop \/ CmdRecord \/ UNCHANGED allVars
  BY <1>6 DEF Filled, ObeyStop, StreamOn, SnapshotTimesOut, UseFrame, Exit,
              CmdStart, CmdStop, CmdRecord, allVars
<1>7. CASE Callback \/ DriverStep \/ Control
  BY <1>7
<1> QED  BY <1>1, <1>2, <1>3, <1>4, <1>5, <1>6, <1>7
         DEF TaskNext, ThreadStep, Shell, Engine

LEMMA TaskTypes == DriverView /\ TaskTypeOK /\ [TaskNext]_allVars => TaskTypeOK' /\ DriverView'
<1> SUFFICES ASSUME DriverView, TaskTypeOK, [TaskNext]_allVars PROVE TaskTypeOK' /\ DriverView'
  OBVIOUS
<1>1. DriverView' /\ TypeOK'
  BY ThreadUsesDriver, AnyTypes DEF DriverView
<1>2. CASE GetFrame \/ RequeueGet
  <2>1. vbuf' \in Buffers
    BY <1>2, HeadIsBuffer DEF GetFrame, RequeueGet, Dequeue, DriverView, TypeOK
  <2> QED  BY <1>1, <1>2, <2>1 DEF GetFrame, RequeueGet, Goto, Places, TaskTypeOK
<1>3. CASE Fill \/ Filled
  BY <1>1, <1>3, TaskAssumption DEF Fill, Filled, Goto, Places, TaskTypeOK
<1>4. CASE CmdStart \/ CmdStop \/ CmdRecord \/ Setup \/ StartOnce \/ ObeyStop \/ StreamOn
           \/ OpenForSnapshot \/ StreamTimesOut \/ SnapshotTimesOut \/ AbandonSnapshot
           \/ UseFrame \/ GiveBack
  BY <1>1, <1>4
     DEF CmdStart, CmdStop, CmdRecord, Setup, StartOnce, ObeyStop, StreamOn, OpenForSnapshot,
         StreamTimesOut, SnapshotTimesOut, AbandonSnapshot, UseFrame, GiveBack, Goto,
         Places, TaskTypeOK
<1>5. CASE Stop \/ RequeueClear \/ RequeuePut \/ RequeueEnd \/ Exit
           \/ UNCHANGED taskVars
  BY <1>1, <1>5
     DEF Stop, RequeueClear, RequeuePut, RequeueEnd, Exit, Goto, Places, TaskTypeOK, taskVars
<1> QED  BY <1>2, <1>3, <1>4, <1>5 DEF TaskNext, ThreadStep, Shell, Engine, allVars
-----------------------------------------------------------------------------
\* The contract, step by step.
LEMMA ThreadKeepsContract ==
  TaskInv /\ ~IsSnapshotChannel /\ [TaskNext]_allVars => [Next]_vars
<1> SUFFICES ASSUME TaskInv, ~IsSnapshotChannel, [TaskNext]_allVars PROVE [Next]_vars
  OBVIOUS
<1> USE TaskAssumption DEF TaskInv, ThreadView, Next, Client, At
<1>0. PlacesInv /\ TypeOK
  BY DEF ChannelInv, PlacesInv
<1>1. CASE Setup
  <2>1. ChannelFormats \subseteq Formats
    BY DEF ChannelFormats
  <2>2. MaySetFmt
    BY <1>1 DEF Setup, BeforeStream, MaySetFmt
  <2> QED  BY <1>1, <2>1, <2>2 DEF Setup
<1>2. CASE Fill
  <2>1. next \in Buffers
    BY <1>2 DEF Fill, TaskTypeOK
  <2>2. MayEnqueue(next)
    BY <1>2, <2>1 DEF Fill, BeforeStream, MayEnqueue
  <2> QED  BY <1>2, <2>1, <2>2 DEF Fill
<1>3. CASE StartOnce
  BY <1>3 DEF StartOnce, BeforeStream, MayStart
<1>4. CASE GetFrame
  BY <1>4 DEF GetFrame, InStream, MayDequeue
<1>5. CASE GiveBack
  <2>1. EnqueueRelease(vbuf) /\ vbuf \in Buffers /\ MayEnqueue(vbuf)
    BY <1>5, <1>0 DEF GiveBack, InStream, EnqueueRelease, MayEnqueue, TypeOK
  <2> QED  BY <2>1
<1>6. CASE RequeuePut
  <2>1. EnqueueRelease(vbuf) /\ vbuf \in Buffers /\ MayEnqueue(vbuf)
    BY <1>6, <1>0 DEF RequeuePut, InStream, EnqueueRelease, MayEnqueue, TypeOK
  <2> QED  BY <2>1
<1>7. CASE Stop
  BY <1>7 DEF Stop, InStream, MayStop
<1>8. CASE RequeueGet
  BY <1>8 DEF RequeueGet, InStream, MayDequeue
<1>9. CASE RequeueClear
  <2>1. ClearSize(vbuf) /\ vbuf \in Buffers /\ MayClear(vbuf)
    BY <1>9, <1>0 DEF RequeueClear, InStream, ClearSize, MayClear, PlacesInv, ClientView, TypeOK
  <2> QED  BY <2>1
<1>10. CASE StreamTimesOut \/ RequeueEnd
  BY <1>10 DEF StreamTimesOut, RequeueEnd
<1>11. CASE AbandonSnapshot \/ OpenForSnapshot
  BY <1>11 DEF AbandonSnapshot, OpenForSnapshot, InStream
<1>12. CASE Filled \/ ObeyStop \/ StreamOn \/ SnapshotTimesOut \/ UseFrame \/ Exit
            \/ CmdStart \/ CmdStop \/ CmdRecord \/ UNCHANGED allVars
  BY <1>12 DEF Filled, ObeyStop, StreamOn, SnapshotTimesOut, UseFrame, Exit,
               CmdStart, CmdStop, CmdRecord, allVars
<1>13. CASE Callback \/ DriverStep \/ Control
  BY <1>13
<1> QED  BY <1>1, <1>2, <1>3, <1>4, <1>5, <1>6, <1>7, <1>8, <1>9, <1>10, <1>11, <1>12, <1>13
         DEF TaskNext, ThreadStep, Shell, Engine

\* What the engine and the driver do beside the thread: nothing comes out of a
\* closed channel, and no buffer that the client holds is written.
LEMMA BesideTheThread ==
  ASSUME ChannelInv, Callback \/ DriverStep \/ Control
  PROVE  /\ UNCHANGED <<held, streaming, drained, broken, current>>
         /\ op = "idle" => op' = "idle"
         /\ ~open => carries' = carries
         /\ ~open /\ op # "flushing" => fifoOut' = fifoOut
         /\ \A b \in held : carries'[b] = carries[b]
<1> USE DEF ChannelInv, PlacesInv
<1>1. ASSUME NEW f \in Frames, NEW kind \in Kinds, Delivers(f, kind)
      PROVE  /\ open /\ UNCHANGED <<held, streaming, drained, broken, current, op>>
             /\ \A b \in held : carries'[b] = carries[b]
  <2>1. Head(fifoIn) \in RangeOf(fifoIn)
    <3>1. 1 \in DOMAIN fifoIn /\ Head(fifoIn) = fifoIn[1]
      BY <1>1 DEF Delivers, Deliver, DeliverEmpty, FillOldest, TypeOK
    <3> QED  BY <3>1 DEF RangeOf
  <2>2. Head(fifoIn) \notin held
    BY <2>1 DEF BuffersConserved
  <2> QED  BY <1>1, <2>2 DEF Delivers, Deliver, DeliverEmpty, FillOldest, EngineHas, client, TypeOK
<1>2. ASSUME NEW f \in Frames, NEW kind \in Kinds,
             DropUntilKey(f, kind) \/ DropNoBuffer(f, kind)
      PROVE  UNCHANGED <<held, streaming, drained, broken, current, op, carries, fifoOut>>
  BY <1>2 DEF DropUntilKey, DropNoBuffer, client, queues
<1>3. CASE EncOverflow \/ Control
  BY <1>3 DEF EncOverflow, Control, ForceRequest, ForceFlag, Snapshot, client, queues
<1>4. CASE DriverStep
  BY <1>4 DEF DriverStep, FlushGet, FlushPut, FlushEnd, EnqueuePut, client
<1> QED  BY <1>1, <1>2, <1>3, <1>4 DEF Delivers, Callback

\* What the thread knows of its buffers and of the stream.
LEMMA ViewStep ==
  ASSUME TaskInv, ~IsSnapshotChannel, TaskNext, TaskTypeOK', ChannelInv'
  PROVE  ThreadView'
<1> USE TaskAssumption DEF TaskInv, ThreadView, HeldView, BeforeStream, InStream, AtTheEnd, Handful, At, Goto
<1>0. /\ TypeOK /\ ClientView /\ EngineView /\ next \in 1..(NumBufs + 1)
      /\ held \subseteq Buffers /\ current \subseteq held
  BY DEF ChannelInv, PlacesInv, FramesInv, TypeOK, TaskTypeOK, ClientView
<1>1. CASE (Callback \/ DriverStep \/ Control) /\ UNCHANGED taskVars
  <2>1. /\ UNCHANGED <<held, streaming, drained, broken, current>>
        /\ op = "idle" => op' = "idle"
        /\ ~open => carries' = carries
        /\ ~open /\ op # "flushing" => fifoOut' = fifoOut
        /\ \A b \in held : carries'[b] = carries[b]
    BY <1>1, BesideTheThread
  <2>2. HeldView'
    BY <1>1, <2>1 DEF taskVars
  <2>3. BeforeStream'
    BY <1>0, <1>1, <2>1 DEF taskVars, EngineView, ClientView
  <2>4. InStream'
    BY <1>1, <2>1 DEF taskVars
  <2>5. AtTheEnd'
    BY <1>0, <1>1, <2>1 DEF taskVars, EngineView
  <2> QED  BY <2>2, <2>3, <2>4, <2>5
<1>2. CASE CmdStart
  BY <1>0, <1>2 DEF CmdStart, vars, client, format, queues
<1>3. CASE CmdStop
  BY <1>0, <1>3 DEF CmdStop, vars
<1>4. CASE CmdRecord
  BY <1>0, <1>4 DEF CmdRecord, vars
<1>5. CASE Setup
  <2>1. /\ pc = "setup" /\ op = "idle" /\ pc' \in {"fill", "exit"}
        /\ UNCHANGED <<queues, streaming, drained, broken, current>>
        /\ UNCHANGED <<chan, video_status, stopRequested, record, next, vbuf, ending>>
    BY <1>5 DEF Setup, SetFmt, queues, vars
  <2> QED  BY <1>0, <2>1 DEF queues
<1>6. CASE Fill
  BY <1>0, <1>6 DEF Fill, EnqueueRelease
<1>7. CASE Filled
  BY <1>0, <1>7 DEF Filled, vars
<1>8. CASE StartOnce
  <2>1. CASE StreamStart /\ pc' = "loop" /\ video_status' = "OPEN"
    BY <1>0, <1>8, <2>1 DEF StartOnce, StreamStart, queues
  <2>2. CASE StreamStartFails /\ pc' = "exit" /\ UNCHANGED video_status
    BY <1>0, <1>8, <2>2 DEF StartOnce, StreamStartFails, client, queues
  <2> QED  BY <1>8, <2>1, <2>2 DEF StartOnce
<1>9. CASE ObeyStop
  BY <1>0, <1>9 DEF ObeyStop, vars
<1>10. CASE StreamOn
  BY <1>0, <1>10 DEF StreamOn, vars
<1>11. CASE OpenForSnapshot
  BY <1>0, <1>11 DEF OpenForSnapshot
<1>12. CASE GetFrame
  BY <1>0, <1>12 DEF GetFrame, Dequeue
<1>13. CASE StreamTimesOut
  BY <1>0, <1>13 DEF StreamTimesOut, DequeueAgain, queues
<1>14. CASE SnapshotTimesOut
  BY <1>0, <1>14 DEF SnapshotTimesOut, vars
<1>15. CASE AbandonSnapshot
  BY <1>0, <1>15 DEF AbandonSnapshot
<1>16. CASE UseFrame
  BY <1>0, <1>16 DEF UseFrame, vars
<1>17. CASE GiveBack
  BY <1>0, <1>17 DEF GiveBack, EnqueueRelease
<1>18. CASE Stop
  BY <1>0, <1>18 DEF Stop, StreamStop
<1>19. CASE RequeueGet
  BY <1>0, <1>19 DEF RequeueGet, Dequeue
<1>20. CASE RequeueClear
  <2>1. carries'[vbuf] = NoFrame
    BY <1>0, <1>20 DEF RequeueClear, ClearSize, TypeOK
  <2> QED  BY <1>0, <1>20, <2>1 DEF RequeueClear, ClearSize, client
<1>21. CASE RequeuePut
  BY <1>0, <1>21 DEF RequeuePut, EnqueueRelease
<1>22. CASE RequeueEnd
  BY <1>0, <1>22 DEF RequeueEnd, DequeueAgain, queues
<1>23. CASE Exit
  BY <1>0, <1>23 DEF Exit, vars
<1> QED  BY <1>1, <1>2, <1>3, <1>4, <1>5, <1>6, <1>7, <1>8, <1>9, <1>10, <1>11, <1>12,
          <1>13, <1>14, <1>15, <1>16, <1>17, <1>18, <1>19, <1>20, <1>21, <1>22, <1>23
         DEF TaskNext, ThreadStep, Shell, Engine
-----------------------------------------------------------------------------
LEMMA InitTaskInv == TaskInit => TaskInv
<1> SUFFICES ASSUME TaskInit PROVE TaskInv
  OBVIOUS
<1>1. ChannelInv /\ TypeOK
  BY InitChannelInv DEF TaskInit, ChannelInv, PlacesInv
<1>2. TaskTypeOK
  <2>1. next \in 1..(NumBufs + 1)
    BY TaskAssumption DEF TaskInit
  <2> QED  BY <1>1, <2>1 DEF TaskInit, TaskTypeOK, Places
<1>3. DriverView
  BY <1>1 DEF TaskInit, Init, DriverView
<1>4. ThreadView
  BY TaskAssumption DEF TaskInit, Init, ThreadView, HeldView, BeforeStream, InStream,
                        AtTheEnd, Handful
<1> QED  BY <1>1, <1>2, <1>3, <1>4 DEF TaskInv

\* A thread owns the same kind of channel all its life.
LEMMA KindStays == [TaskNext]_allVars => UNCHANGED chan
<1>1. TaskNext => UNCHANGED chan
  BY DEF TaskNext, ThreadStep, Shell, Engine, taskVars, Setup, Fill, Filled, StartOnce, ObeyStop,
         StreamOn, OpenForSnapshot, GetFrame, StreamTimesOut, SnapshotTimesOut, AbandonSnapshot,
         UseFrame, GiveBack, Stop, RequeueGet, RequeueClear, RequeuePut, RequeueEnd, Exit,
         CmdStart, CmdStop, CmdRecord
<1> QED  BY <1>1 DEF allVars, taskVars

LEMMA TaskInvStep == TaskInv /\ [TaskNext]_allVars => TaskInv'
<1> SUFFICES ASSUME TaskInv, [TaskNext]_allVars PROVE TaskInv'
  OBVIOUS
<1>1. TaskTypeOK' /\ DriverView'
  BY TaskTypes DEF TaskInv
<1>2. ASSUME ~IsSnapshotChannel' PROVE ChannelInv' /\ ThreadView'
  <2>1. ~IsSnapshotChannel
    BY <1>2, KindStays DEF IsSnapshotChannel
  <2>2. ChannelInv'
    BY <2>1, ThreadKeepsContract, PlacesStep, FramesStep DEF TaskInv, ChannelInv
  <2>3. CASE TaskNext
    BY <1>1, <2>1, <2>2, <2>3, ViewStep
  <2>4. CASE UNCHANGED allVars
    BY <2>1, <2>2, <2>4 DEF allVars, vars, taskVars, TaskInv, ThreadView, HeldView, BeforeStream,
                      InStream, AtTheEnd, Handful
  <2> QED  BY <2>2, <2>3, <2>4
<1> QED  BY <1>1, <1>2 DEF TaskInv

LEMMA AlwaysTaskInv == TaskSafety => []TaskInv
<1>1. TaskInit => TaskInv
  BY InitTaskInv
<1>2. TaskInv /\ [TaskNext]_allVars => TaskInv'
  BY TaskInvStep
<1> QED  BY <1>1, <1>2, PTL DEF TaskSafety
-----------------------------------------------------------------------------
\* The variables of video_task and of its channel keep their types, for both
\* kinds of channel and any number of buffers.
THEOREM TaskTypeCorrect == TaskSafety => []TaskTypeOK
<1>1. TaskInv => TaskTypeOK
  BY DEF TaskInv
<1> QED  BY <1>1, AlwaysTaskInv, PTL

\* A streaming thread uses the driver only as VideoChannel allows: from its
\* start, through every stop, timeout and failing call, to its EXIT.
THEOREM ThreadIsContractual == TaskSafety => KeepsContract
<1>1. TaskInit => Init
  BY DEF TaskInit
<1>2. TaskInv /\ [TaskNext]_allVars => [IsSnapshotChannel \/ Next]_vars
  BY ThreadKeepsContract
<1> QED  BY <1>1, <1>2, AlwaysTaskInv, PTL DEF TaskSafety, KeepsContract

\* So what is proved of the driver under its contract holds of the driver
\* under this thread, with no assumption about a client left.
ChannelIsSafe == BuffersConserved /\ NoDoubleRelease /\ FramesPrivate /\ NoFrameLeaked

THEOREM StreamIsSafe == TaskSafety => [](~IsSnapshotChannel => ChannelIsSafe)
<1>1. TaskInv => (~IsSnapshotChannel => ChannelIsSafe)
  BY DEF TaskInv, ChannelInv, PlacesInv, FramesInv, ChannelIsSafe
<1> QED  BY <1>1, AlwaysTaskInv, PTL

\* A streaming thread that is gone has left every buffer with the driver and,
\* if the close did not fail, every slot with the engine (EXIT of video_task).
THEOREM DeadThreadIsTidy == TaskSafety => []DeadIsTidy
<1>1. TaskInv => DeadIsTidy
  <2> SUFFICES ASSUME TaskInv, pc = "dead", next > NumBufs, ~IsSnapshotChannel
               PROVE  /\ held = {}
                      /\ broken \/ (~open /\ RangeOf(fifoIn) = Buffers
                                          /\ \A f \in Frames : owed[f] = 0)
    BY DEF DeadIsTidy
  <2> USE TaskAssumption DEF TaskInv, ThreadView, ChannelInv, PlacesInv, FramesInv
  <2>1. held = {}
    BY DEF HeldView, Handful, TaskTypeOK
  <2>2. op = "idle" /\ inHand = NoBuf /\ ~streaming
    BY DEF AtTheEnd, ClientView
  <2>3. ASSUME ~broken
        PROVE  ~open /\ RangeOf(fifoIn) = Buffers /\ \A f \in Frames : owed[f] = 0
    <3>1. ~open /\ \A f \in Frames : owed[f] = 0
      BY <2>2, <2>3 DEF EngineView, NoFrameLeaked
    <3>2. RangeOf(fifoOut) = {}
      BY <2>3 DEF AtTheEnd, RangeOf
    <3>3. Buffers \subseteq RangeOf(fifoIn)
      BY <2>1, <2>2, <3>2, ChannelAssumption DEF BuffersConserved
    <3>4. RangeOf(fifoIn) \subseteq Buffers
      BY DEF TypeOK, RangeOf
    <3> QED  BY <3>1, <3>3, <3>4
  <2> QED  BY <2>1, <2>3
<1> QED  BY <1>1, AlwaysTaskInv, PTL

\* A streaming thread and the driver together implement FrameLoan.
THEOREM StreamImplementsLoan ==
  TaskSafety /\ []~IsSnapshotChannel => ImplementsFrameLoan
<1>1. TaskInit => Init
  BY DEF TaskInit
<1>2. TaskInv /\ ~IsSnapshotChannel /\ [TaskNext]_allVars => [Next]_vars
  BY ThreadKeepsContract
<1> QED  BY <1>1, <1>2, AlwaysTaskInv, ChannelImplementsLoan, PTL DEF TaskSafety, ChannelSpec
-----------------------------------------------------------------------------
(***************************************************************************)
(* Both kinds of threads.  A snapshot thread breaks the contract (it does  *)
(* not take back what a timed out snapshot has flushed), but the queues    *)
(* need no contract: only that nothing is enqueued that is not held.       *)
(***************************************************************************)

\* Past the filling loop, and whenever the status says OPEN, it is through.
FillView ==
  /\ pc \notin {"none", "setup", "fill", "exit", "dead"} => next = NumBufs + 1
  /\ video_status = "OPEN" => next = NumBufs + 1

HandsInv == TaskTypeOK /\ DriverView /\ BuffersConserved /\ HeldView /\ FillView

\* Whatever calls its client makes, the driver keeps each buffer in one place.
LEMMA AnyPlaces == DriverView /\ BuffersConserved /\ [AnyNext]_vars => BuffersConserved'
<1> SUFFICES ASSUME DriverView, BuffersConserved, [AnyNext]_vars PROVE BuffersConserved'
  OBVIOUS
<1> USE ChannelAssumption DEF DriverView, BuffersConserved
<1>0. fifoIn \in Seq(Buffers) /\ fifoOut \in Seq(Buffers)
  BY DEF TypeOK
<1>1. ASSUME NEW f \in Frames, NEW kind \in Kinds, Delivers(f, kind) PROVE BuffersConserved'
  <2> DEFINE b == Head(fifoIn)
  <2>1. /\ b \in Buffers /\ Distinct(Tail(fifoIn)) /\ b \notin RangeOf(Tail(fifoIn))
        /\ RangeOf(fifoIn) = RangeOf(Tail(fifoIn)) \cup {b}
    BY <1>0, <1>1, HeadTailDistinct DEF Delivers, Deliver, DeliverEmpty, FillOldest
  <2>2. Distinct(Append(fifoOut, b)) /\ RangeOf(Append(fifoOut, b)) = RangeOf(fifoOut) \cup {b}
    BY <1>0, <2>1, AppendDistinct
  <2> HIDE DEF b
  <2>3. fifoIn' = Tail(fifoIn) /\ fifoOut' = Append(fifoOut, b) /\ UNCHANGED <<held, inHand>>
    BY <1>1 DEF Delivers, Deliver, DeliverEmpty, FillOldest, b
  <2> QED  BY <2>1, <2>2, <2>3
<1>2. CASE FlushGet
  <2> DEFINE b == Head(fifoIn)
  <2>1. /\ b \in Buffers /\ Distinct(Tail(fifoIn)) /\ b \notin RangeOf(Tail(fifoIn))
        /\ RangeOf(fifoIn) = RangeOf(Tail(fifoIn)) \cup {b}
    BY <1>0, <1>2, HeadTailDistinct DEF FlushGet
  <2> HIDE DEF b
  <2>2. fifoIn' = Tail(fifoIn) /\ inHand' = b /\ inHand = NoBuf /\ UNCHANGED <<fifoOut, held>>
    BY <1>2 DEF FlushGet, b
  <2> QED  BY <2>1, <2>2
<1>3. CASE FlushPut
  <2>1. inHand \in Buffers
    BY <1>3 DEF FlushPut, TypeOK
  <2>2. Distinct(fifoOut') /\ RangeOf(fifoOut') = RangeOf(fifoOut) \cup {inHand}
    BY <1>0, <1>3, <2>1, AppendDistinct DEF FlushPut
  <2>3. NoBuf \notin held \cup RangeOf(fifoIn) \cup RangeOf(fifoOut) \cup {inHand}
    BY <1>0, <2>1 DEF TypeOK, RangeOf
  <2> QED  BY <1>3, <2>1, <2>2, <2>3 DEF FlushPut
<1>4. CASE Dequeue
  <2> DEFINE b == Head(fifoOut)
  <2>1. /\ b \in Buffers /\ Distinct(Tail(fifoOut)) /\ b \notin RangeOf(Tail(fifoOut))
        /\ RangeOf(fifoOut) = RangeOf(Tail(fifoOut)) \cup {b}
    BY <1>0, <1>4, HeadTailDistinct DEF Dequeue
  <2> HIDE DEF b
  <2>2. fifoOut' = Tail(fifoOut) /\ held' = held \cup {b} /\ UNCHANGED <<fifoIn, inHand>>
    BY <1>4 DEF Dequeue, b
  <2> QED  BY <2>1, <2>2
<1>5. ASSUME NEW b \in Buffers, EnqueueRelease(b) PROVE BuffersConserved'
  BY <1>5 DEF EnqueueRelease
<1>6. CASE EnqueuePut
  <2>1. inHand \in Buffers
    BY <1>6 DEF EnqueuePut
  <2>2. Distinct(fifoIn') /\ RangeOf(fifoIn') = RangeOf(fifoIn) \cup {inHand}
    BY <1>0, <1>6, <2>1, AppendDistinct DEF EnqueuePut
  <2>3. NoBuf \notin held \cup RangeOf(fifoIn) \cup RangeOf(fifoOut) \cup {inHand}
    BY <1>0, <2>1 DEF TypeOK, RangeOf
  <2> QED  BY <1>6, <2>1, <2>2, <2>3 DEF EnqueuePut
<1>7. ASSUME \/ StreamStart \/ StreamStartFails \/ StreamStop \/ DequeueAgain \/ FlushEnd
             \/ EncOverflow \/ ForceRequest \/ ForceFlag \/ Snapshot \/ UNCHANGED vars
             \/ (\E t \in Formats : SetFmt(t)) \/ (\E b \in Buffers : ClearSize(b))
             \/ (\E f \in Frames, kind \in Kinds : DropUntilKey(f, kind) \/ DropNoBuffer(f, kind))
      PROVE  BuffersConserved'
  <2>1. UNCHANGED <<fifoIn, fifoOut, held, inHand>>
    BY <1>7 DEF StreamStart, StreamStartFails, StreamStop, DequeueAgain, FlushEnd, EncOverflow,
                ForceRequest, ForceFlag, Snapshot, SetFmt, ClearSize, DropUntilKey,
                DropNoBuffer, vars, queues
  <2> QED  BY <2>1
<1> QED
  BY <1>1, <1>2, <1>3, <1>4, <1>5, <1>6, <1>7
     DEF AnyNext, AnyClient, Delivers, Callback, DriverStep, Control

LEMMA HandsInit == TaskInit => HandsInv
<1>1. TaskInit => TaskInv /\ BuffersConserved
  BY InitTaskInv, InitChannelInv DEF TaskInit, ChannelInv, PlacesInv
<1>2. TaskInit => HeldView /\ FillView
  BY TaskAssumption DEF TaskInit, Init, HeldView, FillView, Handful
<1> QED  BY <1>1, <1>2 DEF HandsInv, TaskInv

\* What the thread holds, step by step.
LEMMA HandsStep == HandsInv /\ [TaskNext]_allVars => HandsInv'
<1> SUFFICES ASSUME HandsInv, [TaskNext]_allVars PROVE HandsInv'
  OBVIOUS
<1>0. TaskTypeOK' /\ DriverView' /\ BuffersConserved'
  BY TaskTypes, ThreadUsesDriver, AnyPlaces DEF HandsInv
<1> SUFFICES HeldView' /\ FillView'
  BY <1>0 DEF HandsInv
<1> USE TaskAssumption DEF HandsInv, HeldView, FillView, Handful, At, Goto
<1>1. /\ next \in 1..(NumBufs + 1) /\ held \subseteq Buffers /\ NumBufs \in Nat
      /\ held \cap RangeOf(fifoOut) = {}
  BY DEF TypeOK, TaskTypeOK, DriverView, BuffersConserved
<1>2. ASSUME UNCHANGED <<held, next>>, pc \in Handful <=> pc' \in Handful,
             pc \in Handful => vbuf' = vbuf,
             pc' \in {"none", "setup", "fill", "exit", "dead"}
               \/ pc \notin {"none", "setup", "fill", "exit", "dead"}
               \/ next = NumBufs + 1,
             video_status' = "OPEN" => video_status = "OPEN" \/ next = NumBufs + 1
      PROVE  HeldView' /\ FillView'
  BY <1>2
<1>3. CASE Fill
  BY <1>1, <1>3 DEF Fill, EnqueueRelease
<1>4. CASE GetFrame \/ RequeueGet
  <2>1. next = NumBufs + 1 /\ held = {} /\ next' = next
    BY <1>4 DEF GetFrame, RequeueGet
  <2>2. held' = {vbuf'} /\ pc' \in Handful
    BY <1>4, <2>1 DEF GetFrame, RequeueGet, Dequeue
  <2> QED  BY <2>1, <2>2
<1>5. CASE GiveBack \/ RequeuePut
  <2>1. next = NumBufs + 1 /\ held = {vbuf} /\ next' = next
    BY <1>5 DEF GiveBack, RequeuePut
  <2>2. held' = {} /\ pc' \in {"loop", "stop", "requeue"}
    BY <1>5, <2>1 DEF GiveBack, RequeuePut, EnqueueRelease
  <2> QED  BY <2>1, <2>2
<1>6. CASE UseFrame \/ RequeueClear
  BY <1>2, <1>6 DEF UseFrame, RequeueClear, ClearSize, vars
<1>7. CASE CmdStart \/ CmdStop \/ CmdRecord \/ Setup \/ Filled \/ StartOnce \/ ObeyStop
           \/ StreamOn \/ OpenForSnapshot
  BY <1>1, <1>2, <1>7
     DEF CmdStart, CmdStop, CmdRecord, Setup, SetFmt, Filled, StartOnce, StreamStart,
         StreamStartFails, ObeyStop, StreamOn, OpenForSnapshot, queues, vars
<1>8. CASE StreamTimesOut \/ SnapshotTimesOut \/ AbandonSnapshot \/ Stop \/ RequeueEnd \/ Exit
  BY <1>1, <1>2, <1>8
     DEF StreamTimesOut, DequeueAgain, SnapshotTimesOut, AbandonSnapshot, Stop, StreamStop,
         RequeueEnd, Exit, queues, vars
<1>9. CASE (Callback \/ DriverStep \/ Control) /\ UNCHANGED taskVars
  <2>1. held' = held
    BY <1>9 DEF Callback, DriverStep, Control, Deliver, DeliverEmpty, FillOldest, DropUntilKey, DropNoBuffer, EncOverflow,
                FlushGet, FlushPut, FlushEnd, EnqueuePut, ForceRequest, ForceFlag, Snapshot,
                queues
  <2> QED  BY <1>2, <1>9, <2>1 DEF taskVars
<1>10. CASE UNCHANGED allVars
  BY <1>2, <1>10 DEF allVars, vars, taskVars
<1> QED
  BY <1>3, <1>4, <1>5, <1>6, <1>7, <1>8, <1>9, <1>10 DEF TaskNext, ThreadStep, Shell, Engine

\* A thread of either kind never loses a buffer and never puts one on two
\* queues, over timeouts, failed closes and flushes that race a late frame;
\* what it holds is what it has not enqueued yet and the one it has dequeued.
THEOREM NoThreadLosesBuffers == TaskSafety => [](BuffersConserved /\ HeldView)
<1>1. HandsInv => BuffersConserved /\ HeldView
  BY DEF HandsInv
<1> QED  BY <1>1, HandsInit, HandsStep, PTL DEF TaskSafety

\* A thread that sleeps or waits for a frame has given every buffer back: the
\* picture of an abandoned snapshot is on fifo_out, not lost with its thread.
NothingKept ==
  pc \in {"loop", "wait", "abandon"} /\ op = "idle" =>
    held = {} /\ RangeOf(fifoIn) \cup RangeOf(fifoOut) = Buffers

THEOREM WaitingThreadKeepsNothing == TaskSafety => []NothingKept
<1>1. HandsInv => NothingKept
  <2> SUFFICES ASSUME HandsInv, pc \in {"loop", "wait", "abandon"}, op = "idle"
               PROVE  held = {} /\ RangeOf(fifoIn) \cup RangeOf(fifoOut) = Buffers
    BY DEF NothingKept
  <2>1. held = {}
    BY TaskAssumption DEF HandsInv, HeldView, FillView, Handful
  <2>2. inHand = NoBuf /\ RangeOf(fifoIn) \subseteq Buffers /\ RangeOf(fifoOut) \subseteq Buffers
    BY DEF HandsInv, DriverView, TypeOK, RangeOf
  <2> QED  BY <2>1, <2>2, ChannelAssumption DEF HandsInv, BuffersConserved
<1> QED  BY <1>1, HandsInit, HandsStep, PTL DEF TaskSafety
-----------------------------------------------------------------------------
(***************************************************************************)
(* video_stop_and_requeue ends, even on a channel that could not be closed.*)
(***************************************************************************)

\* What the loop is about to enqueue has been cleared, and stays cleared.
ClearView == pc = "reput" => vbuf \in held /\ carries[vbuf] = NoFrame

LEMMA ClearKept == HandsInv /\ ClearView /\ [TaskNext]_allVars => ClearView'
<1> SUFFICES ASSUME HandsInv, ClearView, [TaskNext]_allVars, pc' = "reput"
             PROVE  vbuf' \in held' /\ carries'[vbuf'] = NoFrame
  BY DEF ClearView
<1>0. vbuf' = vbuf /\ (RequeueClear \/ pc = "reput")
  BY DEF TaskNext, ThreadStep, Shell, Engine, taskVars, allVars, Setup, Fill, Filled, StartOnce,
         ObeyStop, StreamOn, OpenForSnapshot, GetFrame, StreamTimesOut, SnapshotTimesOut,
         AbandonSnapshot, UseFrame, GiveBack, Stop, RequeueGet, RequeueClear, RequeuePut,
         RequeueEnd, Exit, CmdStart, CmdStop, CmdRecord, Goto
<1>1. CASE RequeueClear
  BY <1>0, <1>1 DEF RequeueClear, ClearSize, HandsInv, DriverView, TypeOK
<1>2. ASSUME pc = "reput", NEW f \in Frames, NEW kind \in Kinds, Delivers(f, kind)
      PROVE  vbuf' \in held' /\ carries'[vbuf'] = NoFrame
  <2>1. Head(fifoIn) # vbuf
    <3>1. Head(fifoIn) \in RangeOf(fifoIn)
      BY <1>2, HeadTailDistinct DEF Delivers, Deliver, DeliverEmpty, FillOldest, HandsInv, DriverView, TypeOK, BuffersConserved
    <3> QED  BY <1>2, <3>1 DEF HandsInv, BuffersConserved, ClearView
  <2> QED  BY <1>0, <1>2, <2>1 DEF Delivers, Deliver, DeliverEmpty, FillOldest, ClearView, HandsInv, DriverView, TypeOK
<1>3. ASSUME pc = "reput", NEW f \in Frames, NEW kind \in Kinds,
             DropUntilKey(f, kind) \/ DropNoBuffer(f, kind)
      PROVE  vbuf' \in held' /\ carries'[vbuf'] = NoFrame
  BY <1>0, <1>3 DEF DropUntilKey, DropNoBuffer, ClearView, queues
<1>4. CASE pc = "reput" /\ (EncOverflow \/ DriverStep \/ Control)
  BY <1>0, <1>4 DEF EncOverflow, DriverStep, FlushGet, FlushPut, FlushEnd, EnqueuePut, Control,
                    ForceRequest, ForceFlag, Snapshot, ClearView, queues
<1>5. CASE pc = "reput" /\ (CmdStop \/ CmdRecord \/ UNCHANGED allVars)
  BY <1>0, <1>5 DEF CmdStop, CmdRecord, allVars, vars, ClearView
<1>6. ASSUME pc = "reput", ThreadStep, ~DriverStep PROVE FALSE
  BY <1>6 DEF ThreadStep, Setup, Fill, Filled, StartOnce, ObeyStop, StreamOn, OpenForSnapshot,
         GetFrame, StreamTimesOut, SnapshotTimesOut, AbandonSnapshot, UseFrame, GiveBack, Stop,
         RequeueGet, RequeueClear, RequeuePut, RequeueEnd, Exit, At, Goto
<1> QED
  BY <1>0, <1>1, <1>2, <1>3, <1>4, <1>5, <1>6
     DEF TaskNext, Shell, Engine, Delivers, Callback, CmdStart

\* The slots that the engine may still fill.
SlotsLeft == {f \in Frames : owed[f] = 0}

\* What is left of the loop of video_stop_and_requeue: the buffers on fifo_out
\* and, if the close has failed, the slots with which the engine may still fill
\* others behind the thread's back.
RequeueLeft == Len(fifoOut) + Cardinality(SlotsLeft)

Requeueing == pc \in {"requeue", "clear", "reput"} /\ op # "flushing"

\* Each turn of the loop shortens it, although the engine of a channel that
\* could not be closed goes on to deliver into the buffers just requeued: those
\* frames are lent for good, as their sizes are cleared, so the slots run out.
RequeueShortens ==
  [][Requeueing /\ Requeueing' =>
       RequeueLeft' =< RequeueLeft
         /\ (pc = "requeue" /\ pc' = "clear" => RequeueLeft' < RequeueLeft)]_allVars

\* A turn takes a buffer off fifo_out; a delivery exchanges a slot for one; no
\* other step in the loop changes either.
LEMMA RequeueMoves ==
  ASSUME HandsInv, ClearView, TaskNext, Requeueing, Requeueing'
  PROVE  \/ RequeueGet
         \/ \E f \in Frames, kind \in Kinds : Delivers(f, kind) /\ pc' = pc
         \/ fifoOut' = fifoOut /\ owed' = owed /\ ~(pc = "requeue" /\ pc' = "clear")
<1> USE DEF Requeueing, At, Goto
<1>1. CASE RequeueClear
  BY <1>1 DEF RequeueClear, ClearSize, hal
<1>2. CASE RequeuePut
  BY <1>2 DEF RequeuePut, EnqueueRelease, ClearView
<1>3. CASE CmdStop \/ CmdRecord
  BY <1>3 DEF CmdStop, CmdRecord, vars
<1>4. CASE (EncOverflow \/ DriverStep \/ Control) /\ UNCHANGED taskVars
  BY <1>4 DEF EncOverflow, DriverStep, FlushGet, FlushPut, FlushEnd, EnqueuePut, Control,
              ForceRequest, ForceFlag, Snapshot, queues, hal, taskVars
<1>5. ASSUME NEW f \in Frames, NEW kind \in Kinds, UNCHANGED taskVars,
             DropUntilKey(f, kind) \/ DropNoBuffer(f, kind)
      PROVE  fifoOut' = fifoOut /\ owed' = owed /\ pc' = pc
  BY <1>5 DEF DropUntilKey, DropNoBuffer, queues, taskVars
<1>6. ASSUME \/ Setup \/ Fill \/ Filled \/ StartOnce \/ ObeyStop \/ StreamOn
             \/ OpenForSnapshot \/ GetFrame \/ StreamTimesOut \/ SnapshotTimesOut
             \/ AbandonSnapshot \/ UseFrame \/ GiveBack \/ Stop \/ RequeueEnd \/ Exit
      PROVE  FALSE
  BY <1>6 DEF Setup, Fill, Filled, StartOnce, ObeyStop, StreamOn, OpenForSnapshot, GetFrame,
              StreamTimesOut, SnapshotTimesOut, AbandonSnapshot, UseFrame, GiveBack, Stop,
              RequeueEnd, Exit
<1>7. ~CmdStart
  BY DEF CmdStart
<1>8. ASSUME NEW f \in Frames, NEW kind \in Kinds, Delivers(f, kind), UNCHANGED taskVars
      PROVE  pc' = pc
  BY <1>8 DEF taskVars
<1> QED
  BY <1>1, <1>2, <1>3, <1>4, <1>5, <1>6, <1>7, <1>8
     DEF TaskNext, ThreadStep, Shell, Engine, Delivers, Callback

\* So EXIT is left after finitely many turns whatever the engine does, for any
\* number of buffers and of slots: a failed video_close does not keep the thread
\* in video_stop_and_requeue.
THEOREM RequeueGetsShorter == ASSUME IsFiniteSet(Frames) PROVE TaskSafety => RequeueShortens
<1> DEFINE Shorter == RequeueLeft' =< RequeueLeft
                      /\ (pc = "requeue" /\ pc' = "clear" => RequeueLeft' < RequeueLeft)
<1>1. ASSUME HandsInv, HandsInv', ClearView, TaskNext, Requeueing, Requeueing'
      PROVE  Shorter
  <2>1. /\ IsFiniteSet(SlotsLeft) /\ Cardinality(SlotsLeft) \in Nat
        /\ fifoOut \in Seq(Buffers) /\ Len(fifoOut) \in Nat
    <3>1. SlotsLeft \subseteq Frames
      BY DEF SlotsLeft
    <3> QED  BY <1>1, <3>1, FS_Subset, FS_CardinalityType DEF HandsInv, DriverView, TypeOK
  <2>2. CASE RequeueGet
    <3>1. fifoOut # <<>> /\ fifoOut' = Tail(fifoOut) /\ owed' = owed
      BY <2>2 DEF RequeueGet, Dequeue, hal
    <3>2. Len(fifoOut') = Len(fifoOut) - 1
      BY <2>1, <3>1
    <3>3. Cardinality(SlotsLeft)' = Cardinality(SlotsLeft)
      BY <3>1 DEF SlotsLeft
    <3> QED  BY <2>1, <3>2, <3>3 DEF RequeueLeft
  <2>3. ASSUME NEW f \in Frames, NEW kind \in Kinds, Delivers(f, kind), pc' = pc PROVE Shorter
    <3>1. owed[f] = 0 /\ owed' = [owed EXCEPT ![f] = @ + 1] /\ owed \in [Frames -> Int]
      BY <1>1, <2>3 DEF Delivers, Deliver, DeliverEmpty, FillOldest, EngineHas, HandsInv, DriverView, TypeOK
    <3>2. f \in SlotsLeft /\ SlotsLeft' = SlotsLeft \ {f}
      BY <3>1 DEF SlotsLeft
    <3>3. Cardinality(SlotsLeft)' = Cardinality(SlotsLeft) - 1
      BY <2>1, <3>2, FS_RemoveElement
    <3>4. Head(fifoIn) \in Buffers /\ fifoOut' = Append(fifoOut, Head(fifoIn))
      BY <1>1, <2>3, HeadIsBuffer DEF Delivers, Deliver, DeliverEmpty, FillOldest, HandsInv, DriverView, TypeOK
    <3>5. Len(fifoOut') = Len(fifoOut) + 1
      BY <2>1, <3>4
    <3> QED  BY <2>1, <2>3, <3>3, <3>5 DEF RequeueLeft
  <2>4. CASE fifoOut' = fifoOut /\ owed' = owed /\ ~(pc = "requeue" /\ pc' = "clear")
    <3>1. RequeueLeft' = RequeueLeft
      BY <2>4 DEF RequeueLeft, SlotsLeft
    <3> QED  BY <2>1, <2>4, <3>1 DEF RequeueLeft
  <2> QED  BY <1>1, <2>2, <2>3, <2>4, RequeueMoves
<1>2. HandsInv /\ HandsInv' /\ ClearView /\ [TaskNext]_allVars
        => [Requeueing /\ Requeueing' => Shorter]_allVars
  BY <1>1
<1>3. TaskInit => ClearView
  BY DEF TaskInit, ClearView
<1> QED  BY <1>2, <1>3, HandsInit, HandsStep, ClearKept, PTL DEF TaskSafety, RequeueShortens
=============================================================================
