------------------------------ MODULE VideoTask ------------------------------
(***************************************************************************)
(* One life of the thread video_task of samples/video/src/main.c, the      *)
(* owner of a video channel, with the shell commands that start it, stop   *)
(* it and ask for a snapshot.  The thread calls the operations of          *)
(* VideoChannel; the callback and the control path of VideoChannel run     *)
(* between its steps.                                                      *)
(*                                                                         *)
(* video_0 takes JPEG snapshots: it is closed between them and opened for  *)
(* one frame.  video_1 to video_3 stream: opened once, dequeued until a    *)
(* stop is requested or no frame arrives in time.                          *)
(***************************************************************************)
EXTENDS VideoChannel

CONSTANT NumBufs   \* ARRAY_SIZE(buffers), 16 in the code

ASSUME TaskAssumption ==
  NumBufs \in Nat \ {0} /\ Buffers = 1..NumBufs /\ "JPEG" \in Formats

VARIABLES
  chan,           \* which kind of channel the thread owns; never changes
  pc,             \* where the thread is; an operation of the driver must
                  \* have returned (op = "idle") before it goes on
  video_status,   \* vthread[i].video_status
  stopRequested,  \* vthread[i].stop_requested
  record,         \* record_pending && sdcard_init && video_record_channel = i
  next,           \* i of the loop that enqueues buffers[i]
  vbuf,           \* the buffer last dequeued
  ending          \* the running stop_and_requeue is the one after EXIT

taskVars == <<chan, pc, video_status, stopRequested, record, next, vbuf, ending>>
allVars  == <<vars, taskVars>>

IsSnapshotChannel == chan = "video_0"

\* VIDEO_CHx_FORMAT, or the format the channel already has (video_2).
ChannelFormats == IF IsSnapshotChannel THEN {"JPEG"} ELSE Formats \ {"JPEG"}

Places == {"none", "setup", "fill", "start", "loop", "wait", "frame",
           "abandon", "enqueue", "stop", "requeue", "clear", "reput", "exit", "dead"}

TaskTypeOK ==
  /\ TypeOK
  /\ chan \in {"video_0", "video_1"}
  /\ pc \in Places
  /\ video_status \in {"CLOSE", "STARTING", "OPEN"}
  /\ stopRequested \in BOOLEAN
  /\ record \in BOOLEAN
  /\ next \in 1..(NumBufs + 1)
  /\ vbuf \in Buffers \cup {NoBuf}
  /\ ending \in BOOLEAN

TaskInit ==
  /\ Init
  /\ chan \in {"video_0", "video_1"}
  /\ pc = "none" /\ video_status = "CLOSE"
  /\ stopRequested = FALSE /\ record = FALSE
  /\ next = 1 /\ vbuf = NoBuf /\ ending = FALSE

At(l) == pc = l /\ op = "idle"
Goto(l) == pc' = l
-----------------------------------------------------------------------------
(***************************************************************************)
(* Shell commands.                                                         *)
(***************************************************************************)

\* cmd_video_start with video_status = VIDEO_CLOSE: video_thread_init.  A
\* second life of the thread is not modelled here.
CmdStart ==
  /\ pc = "none" /\ video_status = "CLOSE"
  /\ stopRequested' = FALSE
  /\ video_status' = "STARTING"
  /\ Goto("setup")
  /\ UNCHANGED <<vars, chan, record, next, vbuf, ending>>

\* cmd_video_stop only raises a flag.
CmdStop ==
  /\ video_status # "CLOSE"
  /\ stopRequested' = TRUE
  /\ UNCHANGED <<vars, chan, pc, video_status, record, next, vbuf, ending>>

\* cmd_video_record_init for this channel: refused unless the channel runs and
\* no recording is pending (the SD card answers).
CmdRecord ==
  /\ IsSnapshotChannel
  /\ video_status = "OPEN" /\ ~record
  /\ record' = TRUE
  /\ UNCHANGED <<vars, chan, pc, video_status, stopRequested, next, vbuf, ending>>
-----------------------------------------------------------------------------
(***************************************************************************)
(* The thread.                                                             *)
(***************************************************************************)

\* Device lookup, format and frame rate: any of them may fail.
Setup ==
  /\ At("setup")
  /\ \/ (\E t \in ChannelFormats : SetFmt(t)) /\ (Goto("fill") \/ Goto("exit"))
     \/ Goto("exit") /\ UNCHANGED vars
  /\ UNCHANGED <<chan, video_status, stopRequested, record, next, vbuf, ending>>

\* for (i ...) video_enqueue(video, &buffers[i])
Fill ==
  /\ At("fill") /\ next <= NumBufs
  /\ EnqueueRelease(next)
  /\ next' = next + 1
  /\ UNCHANGED <<chan, pc, video_status, stopRequested, record, vbuf, ending>>

\* The queue is full: the stream is started now, or by the first snapshot.
Filled ==
  /\ At("fill") /\ next > NumBufs
  /\ IF IsSnapshotChannel
     THEN Goto("loop") /\ video_status' = "OPEN"
     ELSE Goto("start") /\ UNCHANGED video_status
  /\ UNCHANGED <<vars, chan, stopRequested, record, next, vbuf, ending>>

StartOnce ==
  /\ At("start")
  /\ \/ StreamStart /\ Goto("loop") /\ video_status' = "OPEN"
     \/ StreamStartFails /\ Goto("exit") /\ UNCHANGED video_status
  /\ UNCHANGED <<chan, stopRequested, record, next, vbuf, ending>>

\* The head of the loop.
ObeyStop ==
  /\ At("loop") /\ stopRequested
  /\ Goto("exit")
  /\ UNCHANGED <<vars, chan, video_status, stopRequested, record, next, vbuf, ending>>

StreamOn ==
  /\ At("loop") /\ ~stopRequested /\ ~IsSnapshotChannel
  /\ Goto("wait")
  /\ UNCHANGED <<vars, chan, video_status, stopRequested, record, next, vbuf, ending>>

\* Mutant of OpenForSnapshot: the request survives a failed start.
OpenForSnapshotAgain ==
  /\ At("loop") /\ IsSnapshotChannel /\ record
  /\ ~stopRequested
  /\ (StreamStart /\ Goto("wait")) \/ (StreamStartFails /\ Goto("loop"))
  /\ UNCHANGED <<chan, record, video_status, stopRequested, next, vbuf, ending>>

\* A requested snapshot opens the channel; without one the thread sleeps.
OpenForSnapshot ==
  /\ At("loop") /\ IsSnapshotChannel /\ record
  /\ ~stopRequested
  /\ \/ StreamStart /\ Goto("wait") /\ UNCHANGED record
     \/ StreamStartFails /\ Goto("loop") /\ record' = FALSE
  /\ UNCHANGED <<chan, video_status, stopRequested, next, vbuf, ending>>

GetFrame ==
  /\ At("wait")
  /\ Dequeue
  /\ vbuf' = Head(fifoOut)
  /\ Goto("frame")
  /\ UNCHANGED <<chan, video_status, stopRequested, record, next, ending>>

\* No frame within 500 ms: the thread gives up.
StreamTimesOut ==
  /\ At("wait") /\ ~IsSnapshotChannel
  /\ DequeueAgain
  /\ Goto("exit")
  /\ UNCHANGED <<chan, video_status, stopRequested, record, next, vbuf, ending>>

\* No snapshot within 2000 ms: -EAGAIN first, then video_stream_stop, with
\* room for a late frame in between.  Nothing is requeued.
SnapshotTimesOut ==
  /\ At("wait") /\ IsSnapshotChannel
  /\ fifoOut = <<>>
  /\ Goto("abandon")
  /\ UNCHANGED <<vars, chan, video_status, stopRequested, record, next, vbuf, ending>>

AbandonSnapshot ==
  /\ At("abandon")
  /\ StreamStop
  /\ record' = FALSE
  /\ Goto("loop")
  /\ UNCHANGED <<chan, video_status, stopRequested, next, vbuf, ending>>

\* The frame is read: shown, analysed, and written to the card if a snapshot
\* is pending, which that ends.
UseFrame ==
  /\ At("frame")
  /\ record' = FALSE
  /\ Goto("enqueue")
  /\ UNCHANGED <<vars, chan, video_status, stopRequested, next, vbuf, ending>>

GiveBack ==
  /\ At("enqueue")
  /\ EnqueueRelease(vbuf)
  /\ Goto(IF IsSnapshotChannel THEN "stop" ELSE "loop")
  /\ UNCHANGED <<chan, video_status, stopRequested, record, next, vbuf, ending>>

\* video_stop_and_requeue: stop, then clear and enqueue what was flushed.
Stop ==
  /\ At("stop")
  /\ StreamStop
  /\ Goto("requeue")
  /\ UNCHANGED <<chan, video_status, stopRequested, record, next, vbuf, ending>>

RequeueGet ==
  /\ At("requeue")
  /\ Dequeue
  /\ vbuf' = Head(fifoOut)
  /\ Goto("clear")
  /\ UNCHANGED <<chan, video_status, stopRequested, record, next, ending>>

\* Mutant of RequeueClear: vbuf->size is left alone.
RequeueNoClear ==
  /\ At("clear")
  /\ Goto("reput")
  /\ UNCHANGED <<vars, chan, video_status, stopRequested, record, next, vbuf, ending>>

RequeueClear ==
  /\ At("clear")
  /\ ClearSize(vbuf)
  /\ Goto("reput")
  /\ UNCHANGED <<chan, video_status, stopRequested, record, next, vbuf, ending>>

RequeuePut ==
  /\ At("reput")
  /\ EnqueueRelease(vbuf)
  /\ Goto("requeue")
  /\ UNCHANGED <<chan, video_status, stopRequested, record, next, vbuf, ending>>

RequeueEnd ==
  /\ At("requeue")
  /\ DequeueAgain
  /\ IF ending THEN Goto("dead") /\ video_status' = "CLOSE"
               ELSE Goto("loop") /\ UNCHANGED video_status
  /\ UNCHANGED <<chan, stopRequested, record, next, vbuf, ending>>

\* Mutant of Exit: the thread ends without stopping the stream.
ExitOpen ==
  /\ At("exit")
  /\ Goto("dead") /\ video_status' = "CLOSE"
  /\ UNCHANGED <<vars, chan, stopRequested, record, next, vbuf, ending>>

\* EXIT: the stream is stopped if it was opened for good.
Exit ==
  /\ At("exit")
  /\ IF video_status = "OPEN" /\ ~IsSnapshotChannel
     THEN Goto("stop") /\ ending' = TRUE /\ UNCHANGED video_status
     ELSE Goto("dead") /\ video_status' = "CLOSE" /\ UNCHANGED ending
  /\ UNCHANGED <<vars, chan, stopRequested, record, next, vbuf>>

ThreadStep ==
  \/ Setup \/ Fill \/ Filled \/ StartOnce
  \/ ObeyStop \/ StreamOn \/ OpenForSnapshot
  \/ GetFrame \/ StreamTimesOut \/ SnapshotTimesOut \/ AbandonSnapshot
  \/ UseFrame \/ GiveBack \/ Stop
  \/ RequeueGet \/ RequeueClear \/ RequeuePut \/ RequeueEnd \/ Exit
  \/ DriverStep /\ UNCHANGED taskVars

Shell  == CmdStart \/ CmdStop \/ CmdRecord \/ (Control /\ UNCHANGED taskVars)
Engine == Callback /\ UNCHANGED taskVars

TaskNext == ThreadStep \/ Shell \/ Engine

TaskSafety == TaskInit /\ [][TaskNext]_allVars

\* The thread (priority 5) outranks the shell and is never blocked for good:
\* each of its waits has a timeout.  With a positive GOP the engine produces
\* key frames again and again as long as it has a free slot.
KeyFrame == \E f \in Frames : \/ DropNoBuffer(f, "key")
                              \/ Deliver(f, "key") \/ DeliverEmpty(f, "key")

TaskSpec == /\ TaskSafety
            /\ WF_allVars(ThreadStep)
            /\ WF_allVars(ForceFlag /\ UNCHANGED taskVars)
            /\ SF_allVars(KeyFrame /\ UNCHANGED taskVars)
-----------------------------------------------------------------------------
\* A streaming thread keeps the contract of the driver: it sets the format,
\* starts, stops, dequeues, clears and enqueues only as VideoChannel allows, on
\* every path.
KeepsContract == Init /\ [][IsSnapshotChannel \/ Next]_vars

\* A stop request ends the thread, whatever it is doing, and with it the
\* stream: the channel is not left open behind a dead thread.
StopEndsThread == stopRequested ~> (pc = "dead" /\ ~streaming)

\* When a streaming thread is gone the driver holds every buffer and, unless
\* the close failed, the engine every slot.
DeadIsTidy ==
  pc = "dead" /\ next > NumBufs /\ ~IsSnapshotChannel =>
     /\ held = {}
     /\ broken \/ (~open /\ RangeOf(fifoIn) = Buffers /\ \A f \in Frames : owed[f] = 0)

\* The channel is open for a snapshot: the request has been taken.
Taken == IsSnapshotChannel /\ pc \in {"wait", "frame", "abandon"}

\* A snapshot request is answered, by a picture, a timeout or a failed start, as
\* long as no stop is requested; and once the thread has taken it, a stop comes
\* too late to leave it pending.  (A stop that the thread obeys first does: the
\* thread ends with record_pending and sdcard_init set.)
RecordAnswered ==
  /\ record ~> (~record \/ stopRequested)
  /\ Taken ~> ~record

\* A forced key frame does not silence the channel for ever (unless a close that
\* failed has left every slot lent).
ForceEnds == forcei ~> (~forcei \/ ~open \/ codec # "H26x" \/ broken)
=============================================================================
