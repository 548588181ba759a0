---------------------------- MODULE VideoRestart ----------------------------
(***************************************************************************)
(* The video_buffers of video_task across several lives of the thread      *)
(* (samples/video/src/main.c), down to the links of the kernel queues.     *)
(*                                                                         *)
(* The buffers are an array on the stack of the thread.  A k_fifo links    *)
(* its items through their first word, so the queues of the driver run     *)
(* through that array, and stay there when the thread has ended.  The next *)
(* life of the thread has the same stack: it zeroes the same array and     *)
(* puts every element on fifo_in again, while fifo_in still has its old    *)
(* head and tail; and if the last close has failed, the engine goes on     *)
(* delivering meanwhile.                                                   *)
(*                                                                         *)
(* The channel is one that streams (video_1 to video_3).                   *)
(***************************************************************************)
EXTENDS Naturals, FiniteSets

CONSTANTS
  NumBufs,    \* ARRAY_SIZE(buffers)
  Slots,      \* the engine's output slots
  Lives       \* bound: how often the thread is started

\* 16 buffers; a single one would be linked to itself by every second life.
ASSUME RestartAssumption ==
  NumBufs \in Nat \ {0, 1} /\ Slots \in Nat /\ Lives \in Nat

VARIABLES
  link,         \* the first word of each buffer; 0 is NULL
  head, tail,   \* of fifo_in and fifo_out
  place,        \* where the thread is
  i,            \* of the loop that enqueues buffers[i]
  vbuf,         \* the buffer in the hands of the thread, 0 if there is none
  life,
  running,      \* the engine runs the channel
  slots,        \* its slots that are not lent for good
  knotted,      \* history: a life began with buffers[0] as the tail of fifo_in
  chased        \* history: a life began with the engine still running

listVars    == <<link, head, tail>>
engineVars  == <<running, slots>>
pastVars    == <<knotted, chased>>
restartVars == <<listVars, place, i, vbuf, life, engineVars, pastVars>>

Bufs   == 1 .. NumBufs
Queues == {"in", "out"}

RestartTypeOK ==
  /\ link \in [Bufs -> Bufs \cup {0}]
  /\ head \in [Queues -> Bufs \cup {0}] /\ tail \in [Queues -> Bufs \cup {0}]
  /\ place \in {"none", "fill", "run", "use", "flush", "cancel", "requeue", "clear"}
  /\ i \in 1 .. NumBufs + 1
  /\ vbuf \in Bufs \cup {0}
  /\ life \in 0 .. Lives
  /\ running \in BOOLEAN /\ slots \in 0 .. Slots
  /\ knotted \in BOOLEAN /\ chased \in BOOLEAN

RestartInit ==
  /\ link = [b \in Bufs |-> 0]
  /\ head = [q \in Queues |-> 0] /\ tail = [q \in Queues |-> 0]
  /\ place = "none" /\ i = 1 /\ vbuf = 0 /\ life = 0
  /\ running = FALSE /\ slots = Slots
  /\ knotted = FALSE /\ chased = FALSE
-----------------------------------------------------------------------------
(***************************************************************************)
(* k_fifo_put and k_fifo_get on a singly linked list.  A put clears the    *)
(* link of its item and inserts it after the tail: at the front if there   *)
(* is no tail, as the new tail if the tail has no successor, and otherwise *)
(* between the two, where the tail stays what it was.                      *)
(***************************************************************************)
TailIsLast(q, b) == tail[q] = b \/ link[tail[q]] = 0

\* Mutant of PutLink: the link of the item keeps its value.
PutLinkDangling(q, b) ==
  IF tail[q] = 0 THEN link ELSE [link EXCEPT ![tail[q]] = b]

PutLink(q, b) ==
  IF tail[q] = 0 THEN [link EXCEPT ![b] = head[q]]
  ELSE IF TailIsLast(q, b) THEN [[link EXCEPT ![b] = 0] EXCEPT ![tail[q]] = b]
  ELSE [link EXCEPT ![b] = link[tail[q]], ![tail[q]] = b]

PutHead(q, b) == IF tail[q] = 0 THEN [head EXCEPT ![q] = b] ELSE head

PutTail(q, b) ==
  IF tail[q] = 0 \/ TailIsLast(q, b) THEN [tail EXCEPT ![q] = b] ELSE tail

Put(q, b) == link' = PutLink(q, b) /\ head' = PutHead(q, b) /\ tail' = PutTail(q, b)

\* The tail goes along with the head once it is taken.
Get(q) ==
  /\ head[q] # 0
  /\ head' = [head EXCEPT ![q] = link[head[q]]]
  /\ tail' = IF tail[q] = head[q] THEN [tail EXCEPT ![q] = link[head[q]]] ELSE tail
  /\ UNCHANGED link

\* Get from one queue and put on the other in one step.
Move(from, to) ==
  LET b == head[from] IN
  /\ b # 0
  /\ link' = PutLink(to, b)
  /\ head' = [PutHead(to, b) EXCEPT ![from] = link[b]]
  /\ tail' = [PutTail(to, b) EXCEPT ![from] = IF @ = b THEN link[b] ELSE @]
-----------------------------------------------------------------------------
\* video_output_cb with a frame and a buffer for it.  Outside the stream nobody
\* gives the slot back: the size of the buffer is cleared before it is enqueued.
Deliver ==
  /\ running /\ slots > 0
  /\ Move("in", "out")
  /\ slots' = IF place \in {"run", "use"} THEN slots ELSE slots - 1
  /\ UNCHANGED <<place, i, vbuf, life, running, pastVars>>

\* cmd_video_start on a closed channel; the new thread zeroes its buffers.
Start ==
  /\ place = "none" /\ life < Lives
  /\ link' = [b \in Bufs |-> 0]
  /\ i' = 1 /\ life' = life + 1
  /\ place' = "fill"
  /\ knotted' = (knotted \/ tail["in"] = 1)
  /\ chased' = (chased \/ running)
  /\ UNCHANGED <<head, tail, vbuf, engineVars>>

Fill ==
  /\ place = "fill" /\ i <= NumBufs
  /\ Put("in", i)
  /\ i' = i + 1
  /\ UNCHANGED <<place, vbuf, life, engineVars, pastVars>>

\* video_stream_start; when it fails the thread ends at once.
StartStream ==
  /\ place = "fill" /\ i > NumBufs
  /\ \/ place' = "run" /\ running' = TRUE
     \/ place' = "none" /\ UNCHANGED running
  /\ UNCHANGED <<listVars, i, vbuf, life, slots, pastVars>>

\* The thread takes a buffer off a queue, or puts the one it has on a queue, and
\* goes to another place.
TakeFrom(q, from, to) ==
  /\ place = from /\ place' = to
  /\ Get(q)
  /\ vbuf' = head[q]
  /\ UNCHANGED <<i, life, engineVars, pastVars>>

GiveTo(q, from, to) ==
  /\ place = from /\ place' = to
  /\ Put(q, vbuf)
  /\ vbuf' = 0
  /\ UNCHANGED <<i, life, engineVars, pastVars>>

Dequeue == TakeFrom("out", "run", "use")

\* Mutant of Enqueue: the thread goes on with a buffer it has given back.
EnqueueAgain ==
  /\ place = "use"
  /\ Put("in", vbuf)
  /\ place' \in {"use", "run"} /\ vbuf' = IF place' = "use" THEN vbuf ELSE 0
  /\ UNCHANGED <<i, life, engineVars, pastVars>>

Enqueue == GiveTo("in", "use", "run")

\* A stop request or a timeout: EXIT, video_stop_and_requeue.  video_close takes
\* every slot back or fails and leaves the engine running.
Stop ==
  /\ place = "run"
  /\ place' = "flush"
  /\ \/ running' = FALSE /\ slots' = Slots
     \/ UNCHANGED engineVars
  /\ UNCHANGED <<listVars, i, vbuf, life, pastVars>>

\* video_flush(dev, TRUE)
FlushGet == TakeFrom("in", "flush", "cancel")
FlushPut == GiveTo("out", "cancel", "flush")

\* video_requeue_flushed_buffers
RequeueGet == TakeFrom("out", "requeue", "clear")
RequeuePut == GiveTo("in", "clear", "requeue")

LoopEnds(q, from, to) ==
  /\ place = from /\ head[q] = 0
  /\ place' = to
  /\ UNCHANGED <<listVars, i, vbuf, life, engineVars, pastVars>>

FlushEnd   == LoopEnds("in", "flush", "requeue")
RequeueEnd == LoopEnds("out", "requeue", "none")

Thread == \/ Fill \/ StartStream \/ Dequeue \/ Enqueue \/ Stop
          \/ FlushGet \/ FlushPut \/ FlushEnd
          \/ RequeueGet \/ RequeuePut \/ RequeueEnd

RestartNext == Start \/ Thread \/ Deliver

\* The thread goes on: each of its waits has a timeout.
RestartFairness == WF_restartVars(Thread)

RestartSpec == RestartInit /\ [][RestartNext]_restartVars /\ RestartFairness
-----------------------------------------------------------------------------
\* What a walk from the head of a queue meets: the least set of buffers that
\* holds the head and, with a buffer, the one it is linked to.
Closed(S) == \A b \in S : link[b] # 0 => link[b] \in S

Linked(q) ==
  {b \in Bufs : \A S \in SUBSET Bufs :
                  (head[q] # 0 => head[q] \in S) /\ Closed(S) => b \in S}

\* The buffers that anyone can still get at.
Pool == Linked("in") \cup Linked("out") \cup ({vbuf} \ {0})

\* Walking a queue ends: outside the refill no link leads back, and the last
\* link is the tail's.
ListsEnd ==
  \A q \in Queues :
    /\ tail[q] # 0 <=> head[q] # 0
    /\ head[q] # 0 => tail[q] \in Linked(q) /\ link[tail[q]] = 0

\* No buffer is on both queues, or on a queue and in the thread's hands.
OneOwner ==
  /\ Linked("in") \cap Linked("out") = {}
  /\ vbuf \notin Linked("in") \cup Linked("out")

\* What restarts leave of the buffers is an end of the array, never nothing:
\* the loop over buffers[] relinks them in order, so that the old head leads to
\* all that come after it.
PoolIsTail == life > 0 => \E b \in Bufs : Pool = b .. NumBufs

\* Each life has begun with the engine closed and a tail other than buffers[0].
Untangled == ~knotted /\ ~chased

\* As long as that is so, restarting the thread over its own live queues leaves
\* two lists of buffers.
QueuesSound ==
  /\ RestartTypeOK
  /\ Untangled /\ place # "fill" => ListsEnd /\ OneOwner /\ PoolIsTail

\* In such a life flushing and requeuing end, although the engine of a channel
\* that could not be closed still delivers between any two steps of theirs:
\* neither loop chases its own tail.
StopEnds == place = "flush" /\ Untangled ~> place = "none"

\* "Always try to recover buffers": video_stream_stop returns, and the requeue
\* is reached, in whatever order the lives before have left the queue.
RecoveryIsReached == place = "flush" /\ ~running /\ ~chased ~> place = "requeue"
=============================================================================
