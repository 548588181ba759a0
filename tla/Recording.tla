----------------------------- MODULE Recording ------------------------------
(***************************************************************************)
(* Recording to the SD card in samples/video/src/main.c: one card, one     *)
(* write buffer and the words record_pending, sdcard_init and              *)
(* video_record_channel, shared by the threads of all channels and by the  *)
(* shell command that starts a recording.                                  *)
(*                                                                         *)
(* The threads (priority 5) preempt the command anywhere, and each other   *)
(* where the file system blocks.  What the channels do besides recording   *)
(* is in VideoTask.                                                        *)
(***************************************************************************)
EXTENDS Naturals

CONSTANTS
  Shots,       \* channels that record a single frame (NV12, JPEG, RGB24)
  OnDemand,    \* video_0, which has no frames but those it is asked for
  Streams,     \* channels that record RECORD_FRAME_LEN frames (H.264, H.265)
  NoChannel,
  FrameLen     \* RECORD_FRAME_LEN

Channels == Shots \cup Streams

ASSUME RecordingAssumption ==
  /\ Shots \cap Streams = {}
  /\ OnDemand \in Shots
  /\ NoChannel \notin Channels
  /\ FrameLen \in Nat \ {0, 1}

VARIABLES
  status,       \* vthread[c].video_status
  pc,           \* where the thread of each channel is
  recording,    \* `recording' of each thread: record_file is open
  count,        \* record_count of each thread
  pending,      \* record_pending
  mounted,      \* sdcard_init
  channel,      \* video_record_channel
  card,         \* is the file system mounted
  buffered,     \* whose data is in video_buffer; video_sd_buf_pos = 0 if none
  shell,        \* where the record command is
  target        \* its target_channel

recVars == <<status, pc, recording, count, pending, mounted, channel, card,
             buffered, shell, target>>

Places == {"none", "loop", "frame", "shot", "open", "write", "unmount", "unmounted", "exit"}

RecTypeOK ==
  /\ status \in [Channels -> {"CLOSE", "OPEN"}]
  /\ pc \in [Channels -> Places]
  /\ recording \in [Channels -> BOOLEAN]
  /\ count \in [Channels -> 0 .. FrameLen]
  /\ pending \in BOOLEAN /\ mounted \in BOOLEAN /\ card \in BOOLEAN
  /\ channel \in Channels
  /\ buffered \in Channels \cup {NoChannel}
  /\ shell \in {"idle", "busy", "mount", "pend"}
  /\ target \in Channels

RecInit ==
  /\ status = [c \in Channels |-> "CLOSE"]
  /\ pc = [c \in Channels |-> "none"]
  /\ recording = [c \in Channels |-> FALSE]
  /\ count = [c \in Channels |-> 0]
  /\ pending = FALSE /\ mounted = FALSE /\ card = FALSE
  /\ channel = OnDemand
  /\ buffered = NoChannel
  /\ shell = "idle" /\ target = OnDemand

threads == <<status, pc, recording, count>>
sdcard  == <<mounted, card>>
command == <<shell, target>>

Goto(c, l) == pc' = [pc EXCEPT ![c] = l]
Asked(c)   == pending /\ mounted /\ channel = c
-----------------------------------------------------------------------------
(***************************************************************************)
(* cmd_video_record_init.                                                  *)
(***************************************************************************)

\* The target, named or not, must run.
RecordTarget ==
  /\ shell = "idle"
  /\ \E c \in Channels : status[c] = "OPEN" /\ target' = c
  /\ shell' = "busy"
  /\ UNCHANGED <<threads, pending, sdcard, channel, buffered>>

\* Mutant of RecordBusy: a card that is still mounted does not refuse.
RecordBusyPending ==
  /\ shell = "busy"
  /\ IF pending
     THEN shell' = "idle" /\ UNCHANGED channel
     ELSE shell' = "mount" /\ channel' = target
  /\ UNCHANGED <<threads, pending, sdcard, buffered, target>>

\* "already recording/pending, only one channel can record at a time"
RecordBusy ==
  /\ shell = "busy"
  /\ IF pending \/ mounted
     THEN shell' = "idle" /\ UNCHANGED channel
     ELSE shell' = "mount" /\ channel' = target
  /\ UNCHANGED <<threads, pending, sdcard, buffered, target>>

\* video_sd_card_init; the command ignores its result.
RecordMount ==
  /\ shell = "mount"
  /\ \/ mounted' = TRUE /\ card' = TRUE
     \/ UNCHANGED sdcard
  /\ shell' = "pend"
  /\ UNCHANGED <<threads, pending, channel, buffered, target>>

RecordPend ==
  /\ shell = "pend"
  /\ pending' = TRUE
  /\ shell' = "idle"
  /\ UNCHANGED <<threads, sdcard, channel, buffered, target>>

Command == RecordTarget \/ RecordBusy \/ RecordMount \/ RecordPend
-----------------------------------------------------------------------------
(***************************************************************************)
(* The thread of channel c.                                                *)
(***************************************************************************)
TaskStart(c) ==
  /\ pc[c] = "none" /\ status[c] = "CLOSE"
  /\ status' = [status EXCEPT ![c] = "OPEN"]
  /\ recording' = [recording EXCEPT ![c] = FALSE]
  /\ count' = [count EXCEPT ![c] = 0]
  /\ Goto(c, "loop")
  /\ UNCHANGED <<pending, sdcard, channel, buffered, command>>

\* A frame was dequeued.
Frame(c) ==
  /\ pc[c] = "loop"
  /\ c = OnDemand => Asked(c)
  /\ Goto(c, "frame")
  /\ UNCHANGED <<status, recording, count, pending, sdcard, channel, buffered, command>>

\* video_0: video_stream_start fails or the snapshot times out.
ShotFails(c) ==
  /\ pc[c] = "loop" /\ c = OnDemand /\ Asked(c)
  /\ pending' = FALSE
  /\ UNCHANGED <<threads, sdcard, channel, buffered, command>>

Trigger(c) ==
  /\ pc[c] = "frame"
  /\ Goto(c, IF ~Asked(c) THEN "write" ELSE IF c \in Shots THEN "shot" ELSE "open")
  /\ UNCHANGED <<status, recording, count, pending, sdcard, channel, buffered, command>>

\* The snapshot is written and its file closed, or could not be opened.
Shot(c) ==
  /\ pc[c] = "shot"
  /\ pending' = FALSE
  /\ Goto(c, "unmount")
  /\ UNCHANGED <<status, recording, count, sdcard, channel, buffered, command>>

\* video_sd_write: the frame goes into video_buffer, which may run over into
\* the file and end up empty.
IntoBuffer(c) == buffered' \in {c, NoChannel}

\* Mutant of OpenFile: a failed fs_open leaves the request pending.
OpenFilePending(c) ==
  /\ pc[c] = "open"
  /\ \/ /\ recording' = [recording EXCEPT ![c] = TRUE]
        /\ count' = [count EXCEPT ![c] = 1]
        /\ pending' = FALSE
        /\ IntoBuffer(c)
        /\ Goto(c, "write")
     \/ Goto(c, "unmount") /\ UNCHANGED <<recording, count, pending, buffered>>
  /\ UNCHANGED <<status, sdcard, channel, command>>

OpenFile(c) ==
  /\ pc[c] = "open"
  /\ pending' = FALSE
  /\ \/ /\ recording' = [recording EXCEPT ![c] = TRUE]
        /\ count' = [count EXCEPT ![c] = 1]
        /\ IntoBuffer(c)
        /\ Goto(c, "write")
     \/ Goto(c, "unmount") /\ UNCHANGED <<recording, count, buffered>>
  /\ UNCHANGED <<status, sdcard, channel, command>>

\* Mutant of Write: record_count is not incremented.
WriteUncounted(c) ==
  /\ pc[c] = "write"
  /\ IF recording[c] THEN IntoBuffer(c) ELSE UNCHANGED buffered
  /\ Goto(c, "loop")
  /\ UNCHANGED <<status, recording, count, pending, sdcard, channel, command>>

\* `if (recording)': also in the iteration that opened the file, so the first
\* frame is written twice.  The last frame closes the file.
Write(c) ==
  /\ pc[c] = "write"
  /\ IF ~recording[c]
     THEN Goto(c, "loop") /\ UNCHANGED <<recording, count, buffered>>
     ELSE /\ count' = [count EXCEPT ![c] = @ + 1]
          /\ IF count'[c] < FrameLen
             THEN IntoBuffer(c) /\ Goto(c, "loop") /\ UNCHANGED recording
             ELSE /\ buffered' = NoChannel
                  /\ recording' = [recording EXCEPT ![c] = FALSE]
                  /\ Goto(c, "unmount")
  /\ UNCHANGED <<status, pending, sdcard, channel, command>>

\* fs_unmount and DISK_IOCTL_CTRL_DEINIT, then sdcard_init = 0.
Unmount(c) ==
  /\ pc[c] = "unmount"
  /\ card' = FALSE
  /\ Goto(c, "unmounted")
  /\ UNCHANGED <<status, recording, count, pending, mounted, channel, buffered, command>>

Unmounted(c) ==
  /\ pc[c] = "unmounted"
  /\ mounted' = FALSE
  /\ Goto(c, "loop")
  /\ UNCHANGED <<status, recording, count, pending, card, channel, buffered, command>>

\* A stop request, or no frame in time.
TaskExit(c) ==
  /\ pc[c] = "loop"
  /\ Goto(c, "exit")
  /\ UNCHANGED <<status, recording, count, pending, sdcard, channel, buffered, command>>

\* Mutant of TaskEnd: the file is closed without video_sd_flush_buf.
TaskEndUnflushed(c) ==
  /\ pc[c] = "exit"
  /\ recording' = [recording EXCEPT ![c] = FALSE]
  /\ status' = [status EXCEPT ![c] = "CLOSE"]
  /\ Goto(c, "none")
  /\ UNCHANGED <<count, pending, sdcard, channel, buffered, command>>

\* EXIT flushes and closes an open file.  It does not unmount the card.
TaskEnd(c) ==
  /\ pc[c] = "exit"
  /\ buffered' = IF recording[c] THEN NoChannel ELSE buffered
  /\ recording' = [recording EXCEPT ![c] = FALSE]
  /\ status' = [status EXCEPT ![c] = "CLOSE"]
  /\ Goto(c, "none")
  /\ UNCHANGED <<count, pending, sdcard, channel, command>>

ThreadStep(c) ==
  \/ Frame(c) \/ ShotFails(c) \/ Trigger(c) \/ Shot(c) \/ OpenFile(c)
  \/ Write(c) \/ Unmount(c) \/ Unmounted(c) \/ TaskEnd(c)

RecNext ==
  \/ Command
  \/ \E c \in Channels : ThreadStep(c) \/ TaskStart(c) \/ TaskExit(c)

\* Frames keep arriving on a channel that is not stopped, and every wait of a
\* thread has a timeout.  Whether anybody types a command is left open.
RecSpec ==
  /\ RecInit /\ [][RecNext]_recVars
  /\ \A c \in Channels : WF_recVars(ThreadStep(c))
-----------------------------------------------------------------------------
AtWork(c) == recording[c] \/ pc[c] \in {"shot", "open", "unmount", "unmounted"}

\* The threads and the command agree on one recorder: at most one channel
\* works on the card, and none while another is asked to.
OneRecorder ==
  /\ \A c, d \in Channels : AtWork(c) /\ AtWork(d) => c = d
  /\ \A c \in Channels : recording[c] => ~pending

\* A file is open only on a mounted card, and the command mounts the card only
\* when it is not mounted and no thread is still unmounting it: record_pending,
\* sdcard_init and the channels' flags are one protocol without a lock.
FileNeedsCard ==
  \A c \in Channels : recording[c] \/ pc[c] \in {"shot", "open"} => card /\ mounted

MountsOnce ==
  shell = "mount" => ~card /\ \A c \in Channels : pc[c] \notin {"unmount", "unmounted"}

\* The card is mounted for as long as it is written, and mounted once.
CardInOrder == FileNeedsCard /\ MountsOnce

\* What is in the shared write buffer belongs to the file that is open: no
\* recording starts with the rest of another, or ends without its own.
BufferBelongs == buffered # NoChannel => recording[buffered]

\* A recording ends, by its length or with its thread.
RecordingEnds == \A c \in Channels : recording[c] ~> ~recording[c]

\* A request on a mounted card to a channel that runs is taken up.
RequestTaken ==
  \A c \in Channels : Asked(c) /\ status[c] = "OPEN" ~> ~pending \/ status[c] = "CLOSE"

\* "already recording/pending, only one channel can record at a time": a
\* command is refused only if some channel is asked to record or records.
RefusedMeansBusy ==
  [][shell = "busy" /\ shell' = "idle"
       => pending \/ \E c \in Channels : AtWork(c)]_recVars

=============================================================================
