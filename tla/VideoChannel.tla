---------------------------- MODULE VideoChannel ----------------------------
(***************************************************************************)
(* One channel of drivers/video/video_amebapro2.c: the two kernel queues   *)
(* fifo_in and fifo_out, the callback the video engine (VOE) runs for each *)
(* finished frame, the enqueue, dequeue, flush and stream operations of    *)
(* the owning thread, and the forced key frame of the control path.        *)
(*                                                                         *)
(* A frame is lent by the engine to the driver in the callback and must be *)
(* given back exactly once (video_encbuf_release, video_ispbuf_release).   *)
(* The driver keeps no list of lent frames: the only record is the         *)
(* `size' and `buffer' of the video_buffer that carries the frame, and     *)
(* enqueue releases whatever a non-zero size says.  It never clears size,  *)
(* and gives nothing back for a frame of length 0.                         *)
(*                                                                         *)
(* streaming, drained and current state the contract of the client, in     *)
(* terms of what the client itself knows.                                  *)
(***************************************************************************)
EXTENDS Integers, Sequences

CONSTANTS
  Buffers,       \* the video_buffer objects the client owns
  Frames,        \* the engine's output slots
  NoBuf,         \* no buffer
  NoFrame,       \* vbuf->size = 0
  Formats        \* the kinds of format the client may set

ASSUME ChannelAssumption ==
  /\ NoBuf \notin Buffers
  /\ NoFrame \notin Frames
  /\ Formats \subseteq {"H26x", "JPEG", "RAW"}

VARIABLES
  fifoIn,     \* empty buffers, waiting for a frame
  fifoOut,    \* buffers the client may dequeue
  carries,    \* the frame in each vbuf's size and buffer fields, stale or not
  held,       \* buffers in the hands of the client
  inHand,     \* the buffer an enqueue or a flush holds between its two steps
  op,         \* what the owning thread is doing inside the driver
  open,       \* the engine runs the channel
  owed,       \* lendings minus releases of each slot
  unsized,    \* history: slots lent with length 0, until the channel closes
  armed,      \* one-shot JPEG mode: a capture is triggered
  keyDue,     \* the engine was asked for a key frame
  forcei,     \* ch_forcei[ch]: drop everything up to a key frame
  ctrl,       \* the thread inside set_ctrl(FORCE_IFRAME), under ctrl_lock
  codec,      \* what the engine was opened for
  type,       \* data->params.type
  broken,     \* client: a video_stream_stop has reported an error
  streaming,  \* client: video_stream_start succeeded, no stop since
  drained,    \* client: a dequeue answered -EAGAIN since the last stop
  current     \* client: buffers dequeued from the stream that still runs

hal     == <<open, owed, unsized, armed, keyDue>>
force   == <<forcei, ctrl>>
format  == <<codec, type>>
client  == <<format, broken, streaming, drained, current>>
queues  == <<fifoIn, fifoOut, carries, held, inHand, op>>
vars    == <<fifoIn, fifoOut, carries, held, inHand, op, open, owed,
             unsized, armed, keyDue, forcei, ctrl, codec, type, broken, streaming, drained, current>>

RangeOf(s) == {s[i] : i \in DOMAIN s}

TypeOK ==
  /\ fifoIn \in Seq(Buffers)
  /\ fifoOut \in Seq(Buffers)
  /\ carries \in [Buffers -> Frames \cup {NoFrame}]
  /\ held \in SUBSET Buffers
  /\ inHand \in Buffers \cup {NoBuf}
  /\ op \in {"idle", "enqueuing", "flushing"}
  /\ open \in BOOLEAN
  /\ owed \in [Frames -> Int]
  /\ unsized \in SUBSET Frames
  /\ armed \in BOOLEAN
  /\ keyDue \in BOOLEAN
  /\ forcei \in BOOLEAN
  /\ ctrl \in {"idle", "flag"}
  /\ codec \in Formats /\ type \in Formats
  /\ broken \in BOOLEAN
  /\ streaming \in BOOLEAN
  /\ drained \in BOOLEAN
  /\ current \in SUBSET Buffers

\* video_amebapro2_channel_init: both queues empty; every buffer is the
\* client's, zeroed.
Init ==
  /\ fifoIn = <<>> /\ fifoOut = <<>>
  /\ carries = [b \in Buffers |-> NoFrame]
  /\ held = Buffers
  /\ inHand = NoBuf
  /\ op = "idle"
  /\ open = FALSE
  /\ owed = [f \in Frames |-> 0] /\ unsized = {}
  /\ armed = FALSE /\ keyDue = FALSE
  /\ forcei = FALSE /\ ctrl = "idle"
  /\ type \in Formats /\ codec = type
  /\ broken = FALSE
  /\ streaming = FALSE /\ drained = TRUE
  /\ current = {}
-----------------------------------------------------------------------------
(***************************************************************************)
(* video_output_cb.  It runs to completion between two steps of a thread.  *)
(***************************************************************************)

\* The engine finishes a frame in a slot it has not lent.  After a key frame
\* request the next H.264/HEVC frame is a key frame; a one-shot JPEG channel
\* produces one frame per trigger.
EngineHas(f, kind) ==
  /\ open
  /\ owed[f] = 0
  /\ codec = "JPEG" => armed
  /\ keyDue => kind = "key"
  /\ armed' = FALSE
  /\ keyDue' = FALSE
  /\ open' = open

\* handle_forced_key_frame_check says FALSE: still waiting for a key frame.
MustDrop(kind) == forcei /\ codec = "H26x" /\ kind # "key"

\* A frame that is not the awaited key frame (a delta frame or a damaged
\* stream) is given back inside the callback.
DropUntilKey(f, kind) ==
  /\ EngineHas(f, kind)
  /\ MustDrop(kind)
  /\ UNCHANGED <<owed, unsized, force, client, queues>>

\* Mutant of DropNoBuffer: the frame is dropped but not given back.
DropNoBufferKept(f, kind) ==
  /\ EngineHas(f, kind) /\ ~MustDrop(kind) /\ fifoIn = <<>>
  /\ forcei' = (forcei /\ codec # "H26x")
  /\ owed' = [owed EXCEPT ![f] = @ + 1]
  /\ UNCHANGED <<unsized, ctrl, client, queues>>

\* The check passed (and cleared ch_forcei on a key frame) but fifo_in is
\* empty: the frame is given back inside the callback.
DropNoBuffer(f, kind) ==
  /\ EngineHas(f, kind)
  /\ ~MustDrop(kind)
  /\ fifoIn = <<>>
  /\ forcei' = (forcei /\ codec # "H26x")
  /\ UNCHANGED <<owed, unsized, ctrl, client, queues>>

\* Mutants of Deliver: the buffer stays on fifo_in (peek for get); the frame
\* is given back although a buffer carries it; ch_forcei is not reset.
DeliverPeek(f, kind) ==
  /\ EngineHas(f, kind) /\ ~MustDrop(kind) /\ fifoIn # <<>>
  /\ forcei' = (forcei /\ codec # "H26x")
  /\ owed' = [owed EXCEPT ![f] = @ + 1]
  /\ carries' = [carries EXCEPT ![Head(fifoIn)] = f]
  /\ fifoOut' = Append(fifoOut, Head(fifoIn))
  /\ UNCHANGED <<unsized, ctrl, client, fifoIn, held, inHand, op>>

DeliverReleased(f, kind) ==
  /\ EngineHas(f, kind) /\ ~MustDrop(kind) /\ fifoIn # <<>>
  /\ forcei' = (forcei /\ codec # "H26x")
  /\ carries' = [carries EXCEPT ![Head(fifoIn)] = f]
  /\ fifoIn' = Tail(fifoIn)
  /\ fifoOut' = Append(fifoOut, Head(fifoIn))
  /\ UNCHANGED <<owed, unsized, ctrl, client, held, inHand, op>>

DeliverForceKept(f, kind) ==
  /\ EngineHas(f, kind) /\ ~MustDrop(kind) /\ fifoIn # <<>>
  /\ owed' = [owed EXCEPT ![f] = @ + 1]
  /\ carries' = [carries EXCEPT ![Head(fifoIn)] = f]
  /\ fifoIn' = Tail(fifoIn)
  /\ fifoOut' = Append(fifoOut, Head(fifoIn))
  /\ UNCHANGED <<unsized, force, client, held, inHand, op>>

\* A frame goes into the oldest empty buffer and on to fifo_out; `content' is
\* what the buffer's size then says of it.
FillOldest(f, kind, content) ==
  /\ EngineHas(f, kind)
  /\ ~MustDrop(kind)
  /\ fifoIn # <<>>
  /\ forcei' = (forcei /\ codec # "H26x")
  /\ owed' = [owed EXCEPT ![f] = @ + 1]
  /\ carries' = [carries EXCEPT ![Head(fifoIn)] = content]
  /\ fifoIn' = Tail(fifoIn)
  /\ fifoOut' = Append(fifoOut, Head(fifoIn))
  /\ UNCHANGED <<ctrl, client, held, inHand, op>>

Deliver(f, kind) == FillOldest(f, kind, f) /\ UNCHANGED unsized

\* jpg_len or enc_len is 0: the slot is lent all the same, but the size that
\* should give it back later is 0.  A raw frame has the size of its geometry.
DeliverEmpty(f, kind) ==
  /\ codec # "RAW"
  /\ FillOldest(f, kind, NoFrame)
  /\ unsized' = unsized \cup {f}

\* VOE_ENC_BUF_OVERFLOW / VOE_ENC_QUEUE_OVERFLOW: every slot is lent.  The
\* engine discards its backlog and is asked for a key frame; ch_forcei is
\* not set.
EncOverflow ==
  /\ open /\ codec = "H26x"
  /\ \A f \in Frames : owed[f] # 0
  /\ keyDue' = TRUE
  /\ UNCHANGED <<open, owed, unsized, armed, force, client, queues>>
-----------------------------------------------------------------------------
(***************************************************************************)
(* set_stream, and video_stream_stop of the video API around it.           *)
(***************************************************************************)

\* video_open succeeds.  A JPEG channel is put in one-shot mode.
StreamStart ==
  /\ op = "idle"
  /\ open' = TRUE
  /\ codec' = type
  /\ armed' = (type = "JPEG")
  /\ streaming' = TRUE
  /\ UNCHANGED <<owed, unsized, keyDue, force, type, broken, drained, current, queues>>

\* video_open fails; the one-shot trigger is issued all the same.
StreamStartFails ==
  /\ op = "idle"
  /\ armed' = (type = "JPEG")
  /\ UNCHANGED <<open, owed, unsized, keyDue, force, client, queues>>

\* video_close gives every slot back to the engine, or fails and changes
\* nothing; video_flush(dev, TRUE) follows in both cases, and the client gets
\* the error.
CloseSucceeds ==
  /\ open' = FALSE
  /\ owed' = [f \in Frames |-> 0] /\ unsized' = {}
  /\ UNCHANGED broken

CloseFails == broken' = TRUE /\ UNCHANGED <<open, owed, unsized>>

StreamStop ==
  /\ op = "idle"
  /\ CloseSucceeds \/ CloseFails
  /\ op' = "flushing"
  /\ streaming' = FALSE
  /\ drained' = FALSE
  /\ current' = {}
  /\ UNCHANGED <<armed, keyDue, force, format, fifoIn, fifoOut, carries, held, inHand>>

\* The loop of video_amebapro2_flush(cancel): k_fifo_get, then k_fifo_put.
FlushGet ==
  /\ op = "flushing" /\ inHand = NoBuf /\ fifoIn # <<>>
  /\ inHand' = Head(fifoIn)
  /\ fifoIn' = Tail(fifoIn)
  /\ UNCHANGED <<fifoOut, carries, held, op, hal, force, client>>

FlushPut ==
  /\ op = "flushing" /\ inHand # NoBuf
  /\ fifoOut' = Append(fifoOut, inHand)
  /\ inHand' = NoBuf
  /\ UNCHANGED <<fifoIn, carries, held, op, hal, force, client>>

FlushEnd ==
  /\ op = "flushing" /\ inHand = NoBuf /\ fifoIn = <<>>
  /\ op' = "idle"
  /\ UNCHANGED <<fifoIn, fifoOut, carries, held, inHand, hal, force, client>>
-----------------------------------------------------------------------------
\* video_amebapro2_dequeue: the oldest finished buffer, or -EAGAIN when there
\* is none before the timeout.
Dequeue ==
  /\ op = "idle"
  /\ fifoOut # <<>>
  /\ fifoOut' = Tail(fifoOut)
  /\ held' = held \cup {Head(fifoOut)}
  /\ current' = IF streaming THEN current \cup {Head(fifoOut)} ELSE current
  /\ UNCHANGED <<fifoIn, carries, inHand, op, hal, force, format, broken, streaming, drained>>

DequeueAgain ==
  /\ op = "idle"
  /\ fifoOut = <<>>
  /\ drained' = TRUE
  /\ UNCHANGED <<format, broken, streaming, current, hal, force, queues>>

\* The client zeroes vbuf->size.
ClearSize(b) ==
  /\ op = "idle" /\ b \in held
  /\ carries' = [carries EXCEPT ![b] = NoFrame]
  /\ UNCHANGED <<fifoIn, fifoOut, held, inHand, op, hal, force, client>>

\* video_amebapro2_enqueue, first half: size # 0 releases the frame, in the way
\* of the format that is set now.  Told another codec than the frame's, the
\* engine does not take the slot back.
EnqueueRelease(b) ==
  /\ op = "idle" /\ b \in held
  /\ owed' = IF carries[b] # NoFrame /\ type = codec
             THEN [owed EXCEPT ![carries[b]] = @ - 1] ELSE owed
  /\ held' = held \ {b}
  /\ current' = current \ {b}
  /\ inHand' = b
  /\ op' = "enqueuing"
  /\ UNCHANGED <<fifoIn, fifoOut, carries, open, unsized, armed, keyDue, force, format,
                 broken, streaming, drained>>

\* Second half: k_fifo_put(&data->fifo_in).  size keeps its value.
EnqueuePut ==
  /\ op = "enqueuing"
  /\ fifoIn' = Append(fifoIn, inHand)
  /\ inHand' = NoBuf
  /\ op' = "idle"
  /\ UNCHANGED <<fifoOut, carries, held, hal, force, client>>
-----------------------------------------------------------------------------
\* video_amebapro2_set_fmt: only the format the next open and the next
\* enqueue use; an unsupported one changes nothing.
SetFmt(t) ==
  /\ op = "idle"
  /\ type' = t
  /\ UNCHANGED <<codec, broken, streaming, drained, current, hal, force, queues>>
-----------------------------------------------------------------------------
\* video_amebapro2_set_ctrl: FORCE_IFRAME asks the engine first and sets
\* ch_forcei after; the callback may run in between.
ForceRequest ==
  /\ ctrl = "idle"
  /\ keyDue' = (keyDue \/ (open /\ codec = "H26x"))
  /\ ctrl' = "flag"
  /\ UNCHANGED <<open, owed, unsized, armed, forcei, client, queues>>

ForceFlag ==
  /\ ctrl = "flag"
  /\ forcei' = TRUE
  /\ ctrl' = "idle"
  /\ UNCHANGED <<hal, client, queues>>

\* VIDEO_CID_VENDOR_SNAPSHOT: trigger one more one-shot capture, whatever the
\* codec.
Snapshot ==
  /\ ctrl = "idle" /\ open
  /\ armed' = TRUE
  /\ UNCHANGED <<open, owed, unsized, keyDue, force, client, queues>>
-----------------------------------------------------------------------------
Kinds == {"key", "delta", "damaged"}

Callback == \/ EncOverflow
            \/ \E f \in Frames, kind \in Kinds : \/ DropUntilKey(f, kind)
                                                 \/ DropNoBuffer(f, kind)
                                                 \/ Deliver(f, kind)
                                                 \/ DeliverEmpty(f, kind)

\* The contract of the client.  It starts a stream only after it has dequeued
\* everything the last stop flushed, stops only what it started, dequeues
\* after a stop until -EAGAIN and no further, clears the size of the buffers of
\* a stopped stream, and of no others, before it enqueues them, and sets the
\* format only while no stream runs and every stop has succeeded.
MayStart      == ~streaming /\ drained
MayStop       == streaming
MayDequeue    == streaming \/ ~drained
MaySetFmtAnytime == TRUE          \* mutant: the format is set under a stream
MaySetFmt     == ~streaming /\ ~broken
MayClear(b)   == b \notin current
MayEnqueueStale(b) == b \in held  \* mutant: a cancelled buffer keeps its size
MayEnqueue(b) == b \in current \/ carries[b] = NoFrame

Client == \/ MayStart /\ StreamStart
          \/ MayStart /\ StreamStartFails
          \/ MayStop /\ StreamStop
          \/ MayDequeue /\ Dequeue
          \/ DequeueAgain
          \/ MaySetFmt /\ \E t \in Formats : SetFmt(t)
          \/ \E b \in Buffers : \/ MayClear(b) /\ ClearSize(b)
                                \/ MayEnqueue(b) /\ EnqueueRelease(b)

DriverStep == FlushGet \/ FlushPut \/ FlushEnd \/ EnqueuePut

Control == ForceRequest \/ ForceFlag \/ Snapshot

Next == Callback \/ Client \/ DriverStep \/ Control

ChannelSpec == Init /\ [][Next]_vars
-----------------------------------------------------------------------------
\* Buffers whose size and buffer fields are to be believed: those the client
\* dequeued from the running stream, and those on fifo_out once nothing
\* flushed is left there.
Live == current \cup (IF streaming \/ drained THEN RangeOf(fifoOut) ELSE {})

Distinct(s) == \A i, j \in DOMAIN s : s[i] = s[j] => i = j

\* Every buffer is in exactly one place: neither a flush running against the
\* callback nor an enqueue may lose a buffer or link it twice.
BuffersConserved ==
  /\ Distinct(fifoIn) /\ Distinct(fifoOut)
  /\ RangeOf(fifoIn) \cap RangeOf(fifoOut) = {}
  /\ held \cap (RangeOf(fifoIn) \cup RangeOf(fifoOut)) = {}
  /\ inHand \notin held \cup RangeOf(fifoIn) \cup RangeOf(fifoOut)
  /\ Buffers \subseteq held \cup RangeOf(fifoIn) \cup RangeOf(fifoOut) \cup {inHand}

\* No slot is released more often than it was lent, over any number of
\* stops, restarts and reuses of buffers whose size was never cleared.
NoDoubleRelease == \A f \in Frames : owed[f] \in {0, 1}

\* While the client may still read a frame, the engine has not got the slot
\* back, and no other believed buffer points to it.  A believed buffer without
\* a frame is the work of a frame of length 0.
FramesPrivate ==
  \A b \in Live :
     IF carries[b] = NoFrame
     THEN unsized # {}
     ELSE owed[carries[b]] = 1 /\ \A c \in Live : carries[c] = carries[b] => c = b

\* As long as no close has failed, and over every change of the format, a slot
\* stays lent without a buffer through which it will be released only if its
\* frame had length 0; and a closed channel has lent nothing, so the stop that
\* follows every snapshot takes back even those.
NoFrameLeaked ==
  /\ ~broken =>
       \A f \in Frames : owed[f] = 1 => f \in unsized \/ \E b \in Live : carries[b] = f
  /\ ~open => unsized = {} /\ \A f \in Frames : owed[f] = 0
-----------------------------------------------------------------------------
\* How the driver implements FrameLoan.  A buffer the driver holds in the
\* middle of an enqueue or a flush counts as queued.
WhereNow == [b \in Buffers |->
               IF b \in held THEN "app"
               ELSE IF b \in RangeOf(fifoOut) THEN "done" ELSE "queued"]

\* A frame is on loan to the believed buffer that carries it, as long as the
\* engine agrees that it is lent.
LoanNow == [f \in Frames |->
              IF owed[f] = 1 /\ \E b \in Live : carries[b] = f
              THEN CHOOSE b \in Live : carries[b] = f ELSE NoBuf]

Loan == INSTANCE FrameLoan WITH where <- WhereNow, loan <- LoanNow

\* The driver and a client that keeps the contract implement FrameLoan: no
\* release ends another buffer's loan, no frame has two borrowers, and only
\* the client's enqueue or the end of the stream ends a loan.
ImplementsFrameLoan == Loan!LoanSpec
=============================================================================
