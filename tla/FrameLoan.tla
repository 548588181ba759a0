------------------------------ MODULE FrameLoan ------------------------------
(***************************************************************************)
(* What a video channel promises its client, without queues: a buffer      *)
(* cycles between the client, the driver and the finished ones, and a      *)
(* frame of the engine is on loan to at most one buffer, from the moment   *)
(* the buffer is filled until the client gives the buffer back or the      *)
(* engine recalls every loan because the stream is closed.                 *)
(***************************************************************************)
CONSTANTS Buffers, Frames, NoBuf

VARIABLES where, loan

Nobody == [f \in Frames |-> NoBuf]

Move(b, from, to) ==
  /\ where[b] = from
  /\ where' = [where EXCEPT ![b] = to]

LoanInit ==
  /\ where = [b \in Buffers |-> "app"]
  /\ loan = Nobody

\* An empty buffer receives a frame nobody else has.
Fill(b, f) ==
  /\ Move(b, "queued", "done")
  /\ loan[f] = NoBuf
  /\ loan' = [loan EXCEPT ![f] = b]

\* The client takes a finished buffer, with its frame if it has one.
Take(b) == Move(b, "done", "app") /\ UNCHANGED loan

\* The client gives a buffer back: its loans end, nobody else's do.
Give(b) ==
  /\ Move(b, "app", "queued")
  /\ loan' = [f \in Frames |-> IF loan[f] = b THEN NoBuf ELSE loan[f]]

\* A flush finishes an empty buffer.
Cancel(b) == Move(b, "queued", "done") /\ UNCHANGED loan

\* The stream is closed: every frame is the engine's again.
Recall == loan' = Nobody /\ UNCHANGED where

LoanNext ==
  \/ Recall
  \/ \E b \in Buffers : Take(b) \/ Give(b) \/ Cancel(b) \/ \E f \in Frames : Fill(b, f)

LoanSpec == LoanInit /\ [][LoanNext]_<<where, loan>>
=============================================================================
