--------------------------- MODULE MCVideoChannel ---------------------------
(***************************************************************************)
(* Bounded instance of VideoChannel: three buffers and two engine slots,   *)
(* so that fifo_in runs empty, every slot can be lent (overflow), a        *)
(* cancelled buffer with a stale size meets a slot that is lent again, and *)
(* the client can hold one frame while the callback fills another; and two *)
(* kinds of format, so that a channel is opened as one and closed as       *)
(* another.                                                                *)
(***************************************************************************)
EXTENDS VideoChannel
=============================================================================
