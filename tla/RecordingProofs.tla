--------------------------- MODULE RecordingProofs ---------------------------
(***************************************************************************)
(* Proofs about Recording, for any number of channels: the shared words    *)
(* keep the recorders and the shell apart, although neither takes a lock.  *)
(***************************************************************************)
EXTENDS Recording, Integers, TLAPS

\* sdcard_init is the lock of the card: held from before the mount until
\* after the unmount, by the command or by the one channel at work.
CardView ==
  /\ card => mounted
  /\ mounted => card \/ \E c \in Channels : pc[c] = "unmounted"
  /\ \A c \in Channels : AtWork(c) => mounted
  /\ \A c \in Channels : pc[c] = "unmounted" => ~card
  /\ \A c \in Channels : recording[c] \/ pc[c] \in {"shot", "open"} => card

\* While the command goes ahead nothing is asked for and nobody is at work.
ShellView ==
  /\ shell \in {"mount", "pend"} => ~pending /\ \A c \in Channels : ~AtWork(c)
  /\ shell = "mount" => ~mounted

\* One channel is at work, and it is the one asked as long as the request
\* stands.
WorkView ==
  /\ \A c, d \in Channels : AtWork(c) /\ AtWork(d) => c = d
  /\ \A c \in Channels : pending /\ AtWork(c) => channel = c /\ pc[c] \in {"shot", "open"}

\* A file is open only in a thread that runs, and never in one that serves a
\* request or has finished one; it still lacks a frame.
FileView ==
  \A c \in Channels : recording[c] =>
    ~pending /\ pc[c] \in {"loop", "frame", "write", "exit"} /\ count[c] < FrameLen

RecInv == RecTypeOK /\ CardView /\ ShellView /\ WorkView /\ FileView /\ BufferBelongs
-----------------------------------------------------------------------------
LEMMA InitRecInv == RecInit => RecInv
<1> SUFFICES ASSUME RecInit PROVE RecInv
  OBVIOUS
<1> USE RecordingAssumption DEF RecInit
<1>1. OnDemand \in Channels
  BY DEF Channels
<1>2. RecTypeOK
  <2>1. count \in [Channels -> 0 .. FrameLen]
    OBVIOUS
  <2>2. status \in [Channels -> {"CLOSE", "OPEN"}] /\ pc \in [Channels -> Places]
    BY DEF Places
  <2>3. recording \in [Channels -> BOOLEAN]
    OBVIOUS
  <2> QED  BY <1>1, <2>1, <2>2, <2>3 DEF RecTypeOK
<1>3. \A c \in Channels : ~AtWork(c) /\ ~recording[c] /\ pc[c] = "none"
  BY DEF AtWork
<1>4. CardView /\ ShellView /\ WorkView /\ FileView /\ BufferBelongs
  BY <1>3 DEF CardView, ShellView, WorkView, FileView, BufferBelongs
<1> QED  BY <1>2, <1>4 DEF RecInv

\* Each step of the command and of each thread keeps the invariant.
LEMMA RecStep == RecInv /\ [RecNext]_recVars => RecInv'
<1> SUFFICES ASSUME RecInv, [RecNext]_recVars PROVE RecInv'
  OBVIOUS
<1> USE RecordingAssumption
<1> USE DEF RecInv, RecTypeOK, CardView, ShellView, WorkView, FileView, BufferBelongs,
            AtWork, threads, sdcard, command, Goto, Asked, Places
<1>1. CASE RecordTarget
  BY <1>1 DEF RecordTarget
<1>2. CASE RecordBusy
  BY <1>2 DEF RecordBusy
<1>3. CASE RecordMount
  <2>1. RecTypeOK'
    BY <1>3 DEF RecordMount
  <2>2. shell' = "pend" /\ UNCHANGED <<status, pc, recording, count, pending, channel, buffered>>
    BY <1>3 DEF RecordMount
  <2>3. \/ mounted' = TRUE /\ card' = TRUE
        \/ mounted' = FALSE /\ card' = FALSE
    BY <1>3 DEF RecordMount
  <2>4. \A c \in Channels : pc'[c] \notin {"shot", "open", "unmount", "unmounted"} /\ ~recording'[c]
    BY <1>3, <2>2 DEF RecordMount
  <2>5. CardView' /\ ShellView'
    BY <1>3, <2>2, <2>3, <2>4 DEF RecordMount
  <2>6. WorkView' /\ FileView' /\ BufferBelongs'
    BY <2>2, <2>4
  <2> QED  BY <2>1, <2>5, <2>6
<1>4. CASE RecordPend
  BY <1>4 DEF RecordPend
<1>5. ASSUME NEW c \in Channels, TaskStart(c) PROVE RecInv'
  <2>1. RecTypeOK'
    BY <1>5 DEF TaskStart
  <2>2. CardView' /\ ShellView'
    BY <1>5 DEF TaskStart
  <2>3. WorkView' /\ FileView' /\ BufferBelongs'
    BY <1>5 DEF TaskStart
  <2> QED  BY <2>1, <2>2, <2>3
<1>6. ASSUME NEW c \in Channels, Frame(c) PROVE RecInv'
  BY <1>6 DEF Frame
<1>7. ASSUME NEW c \in Channels, ShotFails(c) PROVE RecInv'
  BY <1>7 DEF ShotFails
<1>8. ASSUME NEW c \in Channels, Trigger(c) PROVE RecInv'
  <2>1. CASE ~Asked(c)
    BY <1>8, <2>1 DEF Trigger
  <2>2. CASE Asked(c)
    <3>1. pc' = [pc EXCEPT ![c] = "shot"] \/ pc' = [pc EXCEPT ![c] = "open"]
      BY <1>8, <2>2 DEF Trigger
    <3>2. \A d \in Channels : ~AtWork(d)
      BY <1>8, <2>2 DEF Trigger
    <3>3. shell \notin {"mount", "pend"} /\ mounted /\ card
      BY <2>2, <1>8 DEF Trigger
    <3>4. UNCHANGED <<status, recording, count, pending, mounted, card, channel, buffered,
                      shell, target>>
      BY <1>8 DEF Trigger
    <3>5. RecTypeOK'
      BY <3>1, <3>4
    <3>6. CardView' /\ ShellView'
      BY <3>1, <3>2, <3>3, <3>4
    <3>7. WorkView' /\ FileView' /\ BufferBelongs'
      BY <2>2, <3>1, <3>2, <3>4
    <3> QED  BY <3>5, <3>6, <3>7
  <2> QED  BY <2>1, <2>2
<1>9. ASSUME NEW c \in Channels, Shot(c) PROVE RecInv'
  BY <1>9 DEF Shot
<1>10. ASSUME NEW c \in Channels, OpenFile(c) PROVE RecInv'
  <2>1. RecTypeOK'
    <3>1. recording' \in [Channels -> BOOLEAN]
      BY <1>10 DEF OpenFile
    <3>2. count' = [count EXCEPT ![c] = 1] \/ count' = count
      BY <1>10 DEF OpenFile
    <3>3. count' \in [Channels -> 0 .. FrameLen]
      BY <3>2
    <3>4. pc' \in [Channels -> Places] /\ buffered' \in Channels \cup {NoChannel}
      BY <1>10 DEF OpenFile, IntoBuffer
    <3>5. pending' = FALSE /\ UNCHANGED <<status, mounted, card, channel, shell, target>>
      BY <1>10 DEF OpenFile
    <3> QED  BY <3>1, <3>4, <3>5, <3>3
  <2>2. CardView' /\ ShellView'
    BY <1>10 DEF OpenFile, IntoBuffer
  <2>3. WorkView' /\ FileView' /\ BufferBelongs'
    BY <1>10 DEF OpenFile, IntoBuffer
  <2> QED  BY <2>1, <2>2, <2>3
<1>11. ASSUME NEW c \in Channels, Write(c) PROVE RecInv'
  <2>1. RecTypeOK'
    <3>1. CASE ~recording[c]
      <4>1. pc' \in [Channels -> Places]
        BY <1>11, <3>1 DEF Write
      <4>2. UNCHANGED <<recording, count, buffered, status, pending, mounted, card,
                        channel, shell, target>>
        BY <1>11, <3>1 DEF Write
      <4> QED  BY <4>1, <4>2
    <3>2. CASE recording[c]
      <4>1. count[c] + 1 \in 0 .. FrameLen
        BY <3>2
      <4>2. count' \in [Channels -> 0 .. FrameLen]
        BY <1>11, <3>2, <4>1 DEF Write
      <4>3. recording' \in [Channels -> BOOLEAN] /\ pc' \in [Channels -> Places]
        BY <1>11, <3>2 DEF Write
      <4>4. buffered' \in Channels \cup {NoChannel}
        BY <1>11, <3>2 DEF Write, IntoBuffer
      <4> QED  BY <1>11, <4>2, <4>3, <4>4 DEF Write
    <3> QED  BY <3>1, <3>2
  <2>2. CardView' /\ ShellView'
    BY <1>11 DEF Write, IntoBuffer
  <2>3. WorkView' /\ FileView' /\ BufferBelongs'
    BY <1>11 DEF Write, IntoBuffer
  <2> QED  BY <2>1, <2>2, <2>3
<1>12. ASSUME NEW c \in Channels, Unmount(c) PROVE RecInv'
  BY <1>12 DEF Unmount
<1>13. ASSUME NEW c \in Channels, Unmounted(c) PROVE RecInv'
  BY <1>13 DEF Unmounted
<1>14. ASSUME NEW c \in Channels, TaskExit(c) PROVE RecInv'
  BY <1>14 DEF TaskExit
<1>15. ASSUME NEW c \in Channels, TaskEnd(c) PROVE RecInv'
  <2>1. RecTypeOK'
    BY <1>15 DEF TaskEnd
  <2>2. CardView' /\ ShellView'
    BY <1>15 DEF TaskEnd
  <2>3. WorkView' /\ FileView' /\ BufferBelongs'
    BY <1>15 DEF TaskEnd
  <2> QED  BY <2>1, <2>2, <2>3
<1>16. CASE UNCHANGED recVars
  BY <1>16 DEF recVars
<1> QED
  BY <1>1, <1>2, <1>3, <1>4, <1>5, <1>6, <1>7, <1>8, <1>9, <1>10, <1>11, <1>12,
     <1>13, <1>14, <1>15, <1>16 DEF RecNext, Command, ThreadStep

LEMMA RecInvariant == RecSpec => []RecInv
  BY InitRecInv, RecStep, PTL DEF RecSpec
-----------------------------------------------------------------------------
\* The words shared by the threads and the shell keep their types, and no
\* file gets more than RECORD_FRAME_LEN frames.
THEOREM RecTypeCorrect == RecSpec => []RecTypeOK
<1>1. RecInv => RecTypeOK
  BY DEF RecInv
<1> QED  BY <1>1, RecInvariant, PTL

\* Without a lock around record_pending and sdcard_init, one channel at most
\* works on the card, and none is asked to while another records.
THEOREM OneRecorderAtATime == RecSpec => []OneRecorder
<1>1. RecInv => OneRecorder
  BY DEF RecInv, WorkView, FileView, OneRecorder
<1> QED  BY <1>1, RecInvariant, PTL

\* A file is open only while its file system is mounted, and
\* cmd_video_record_init never mounts a card that is mounted or that a thread
\* is still unmounting.
THEOREM CardIsInOrder == RecSpec => []CardInOrder
<1>1. RecInv => FileNeedsCard
  BY DEF RecInv, CardView, AtWork, FileNeedsCard
<1>2. RecInv => MountsOnce
  BY DEF RecInv, CardView, ShellView, AtWork, MountsOnce
<1>3. RecInv => CardInOrder
  BY <1>1, <1>2 DEF CardInOrder
<1> QED  BY <1>3, RecInvariant, PTL

\* The shared write buffer never carries the rest of one recording into the
\* file of another.
THEOREM BuffersBelong == RecSpec => []BufferBelongs
<1>1. RecInv => BufferBelongs
  BY DEF RecInv
<1> QED  BY <1>1, RecInvariant, PTL
-----------------------------------------------------------------------------
\* What is left of the recording of channel c, in steps of its thread.
StepsLeft(c) ==
  3 * (FrameLen - count[c]) + CASE pc[c] = "loop"  -> 3
                                [] pc[c] = "frame" -> 2
                                [] pc[c] = "write" -> 1
                                [] OTHER -> 0

\* A recording only ever gets shorter: no request, no other channel and no
\* second start of a thread sends it back, and each step of its own shortens it.
RecordingShortens ==
  [][\A c \in Channels : recording[c] /\ recording'[c] =>
       StepsLeft(c)' =< StepsLeft(c)
         /\ (pc'[c] # pc[c] => StepsLeft(c)' < StepsLeft(c))]_recVars

\* An open recording is left alone by the command and by the other threads; its
\* own thread takes the next frame, finds no request, writes, or ends.
LEMMA RecordingMoves ==
  ASSUME RecInv, RecNext, NEW c \in Channels, recording[c], recording'[c]
  PROVE  \/ pc'[c] = pc[c] /\ count'[c] = count[c]
         \/ pc[c] = "loop" /\ pc'[c] \in {"frame", "exit"} /\ count'[c] = count[c]
         \/ pc[c] = "frame" /\ pc'[c] = "write" /\ count'[c] = count[c]
         \/ pc[c] = "write" /\ pc'[c] = "loop" /\ count'[c] = count[c] + 1
<1> USE DEF RecTypeOK, Goto
<1>0. RecTypeOK /\ ~pending /\ pc[c] \in {"loop", "frame", "write", "exit"}
  BY DEF RecInv, FileView
<1>1. CASE Command
  BY <1>0, <1>1 DEF Command, RecordTarget, RecordBusy, RecordMount, RecordPend, threads
<1>2. ASSUME NEW d \in Channels \ {c}, ThreadStep(d) \/ TaskStart(d) \/ TaskExit(d)
      PROVE  pc'[c] = pc[c] /\ count'[c] = count[c]
  <2>1. CASE Frame(d) \/ ShotFails(d) \/ Trigger(d) \/ Shot(d) \/ OpenFile(d)
    BY <1>0, <2>1 DEF Frame, ShotFails, Trigger, Shot, OpenFile, threads
  <2>2. CASE Write(d) \/ Unmount(d) \/ Unmounted(d) \/ TaskEnd(d) \/ TaskStart(d) \/ TaskExit(d)
    BY <1>0, <2>2 DEF Write, Unmount, Unmounted, TaskEnd, TaskStart, TaskExit
  <2> QED  BY <1>2, <2>1, <2>2 DEF ThreadStep
<1>3. CASE Frame(c) \/ TaskExit(c) \/ Trigger(c)
  BY <1>0, <1>3 DEF Frame, TaskExit, Trigger, Asked
<1>4. CASE Write(c)
  BY <1>0, <1>4 DEF Write
<1>5. CASE ShotFails(c) \/ Shot(c) \/ OpenFile(c) \/ Unmount(c) \/ Unmounted(c) \/ TaskEnd(c)
           \/ TaskStart(c)
  BY <1>0, <1>5 DEF ShotFails, Shot, OpenFile, Unmount, Unmounted, TaskEnd, TaskStart, Asked
<1> QED  BY <1>1, <1>2, <1>3, <1>4, <1>5 DEF RecNext, ThreadStep

\* So a recording is over after at most three steps of its thread for each of
\* the RECORD_FRAME_LEN frames: what RecordingEnds needs besides fairness.
THEOREM RecordingsGetShorter == RecSpec => RecordingShortens
<1> DEFINE Shorter(c) == StepsLeft(c)' =< StepsLeft(c)
                         /\ (pc'[c] # pc[c] => StepsLeft(c)' < StepsLeft(c))
<1>1. ASSUME RecInv, RecNext, NEW c \in Channels, recording[c], recording'[c]
      PROVE  Shorter(c)
  <2>1. FrameLen \in Int /\ count[c] \in Int
    BY <1>1, RecordingAssumption DEF RecInv, RecTypeOK
  <2>2. CASE pc'[c] = pc[c] /\ count'[c] = count[c]
    BY <2>1, <2>2 DEF StepsLeft
  <2>3. CASE pc[c] = "loop" /\ pc'[c] \in {"frame", "exit"} /\ count'[c] = count[c]
    BY <2>1, <2>3 DEF StepsLeft
  <2>4. CASE pc[c] = "frame" /\ pc'[c] = "write" /\ count'[c] = count[c]
    BY <2>1, <2>4 DEF StepsLeft
  <2>5. CASE pc[c] = "write" /\ pc'[c] = "loop" /\ count'[c] = count[c] + 1
    BY <2>1, <2>5 DEF StepsLeft
  <2> QED  BY <1>1, <2>2, <2>3, <2>4, <2>5, RecordingMoves
<1>2. RecInv /\ [RecNext]_recVars
        => [\A c \in Channels : recording[c] /\ recording'[c] => Shorter(c)]_recVars
  BY <1>1
<1> QED  BY <1>2, RecInvariant, PTL DEF RecSpec, RecordingShortens
=============================================================================
