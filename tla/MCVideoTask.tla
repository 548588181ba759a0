----------------------------- MODULE MCVideoTask -----------------------------
(***************************************************************************)
(* Bounded instances of VideoTask: three buffers instead of sixteen and    *)
(* two engine slots, so that fifo_in can run empty while frames arrive.    *)
(* Both kinds of channel are initial states of one run: chan = "video_0"   *)
(* takes snapshots, "video_1" streams.                                     *)
(***************************************************************************)
EXTENDS VideoTask
=============================================================================
