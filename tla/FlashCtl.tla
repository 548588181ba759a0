----------------------------- MODULE FlashCtl -------------------------------
(* The flash driver's semaphore, drivers/flash/flash_amebapro2.c: callers in *)
(* threads, which wait for it, and callers in an interrupt, which do not     *)
(* (FLASH_SEM_TIMEOUT) and go on whatever k_sem_take returned.               *)
(*                                                                           *)
(* External: the semaphore has one unit at most; an erase outside the page   *)
(* layout makes flash_get_page_info_by_offs fail.                            *)
EXTENDS Integers

CONSTANTS
  FlashClients,  \* the threads that read, write and erase
  FlashIsrs      \* bound: calls made from an interrupt

ASSUME FlashAssumption == FlashIsrs \in Nat

VARIABLES
  flashSem,      \* the count of data->sem
  flashPc,       \* per thread: idle, waiting for sem, or in the HAL
  flashOp,       \* per thread: its call
  flashIsrs,     \* calls made from an interrupt so far
  flashForced,   \* history: an interrupt entered the HAL beside its holder
  flashLeaked    \* history: an erase returned without giving the semaphore

flashVars == <<flashSem, flashPc, flashOp, flashIsrs, flashForced, flashLeaked>>

FlashTypeOK ==
  /\ flashSem \in {0, 1}
  /\ flashPc \in [FlashClients -> {"idle", "take", "hal"}]
  /\ flashOp \in [FlashClients -> {"read", "write", "erase"}]
  /\ flashIsrs \in 0..FlashIsrs
  /\ flashForced \in BOOLEAN /\ flashLeaked \in BOOLEAN

FlashInit ==
  /\ flashSem = 1
  /\ flashPc = [c \in FlashClients |-> "idle"]
  /\ flashOp = [c \in FlashClients |-> "read"]
  /\ flashIsrs = 0 /\ flashForced = FALSE /\ flashLeaked = FALSE

FlashCall(c, op) ==
  /\ flashPc[c] = "idle"
  /\ flashPc' = [flashPc EXCEPT ![c] = "take"]
  /\ flashOp' = [flashOp EXCEPT ![c] = op]
  /\ UNCHANGED <<flashSem, flashIsrs, flashForced, flashLeaked>>

\* Mutant of FlashTake: threads do not wait either.
FlashTakeNoWait(c) ==
  /\ flashPc[c] = "take"
  /\ flashSem' = 0
  /\ flashPc' = [flashPc EXCEPT ![c] = "hal"]
  /\ UNCHANGED <<flashOp, flashIsrs, flashForced, flashLeaked>>

FlashTake(c) ==
  /\ flashPc[c] = "take" /\ flashSem = 1
  /\ flashSem' = 0
  /\ flashPc' = [flashPc EXCEPT ![c] = "hal"]
  /\ UNCHANGED <<flashOp, flashIsrs, flashForced, flashLeaked>>

\* Mutant of FlashGive: a write keeps the semaphore.
FlashGiveUnlessWrite(c) ==
  /\ flashPc[c] = "hal"
  /\ flashSem' = IF flashOp[c] = "write" THEN flashSem ELSE 1
  /\ flashPc' = [flashPc EXCEPT ![c] = "idle"]
  /\ UNCHANGED <<flashOp, flashIsrs, flashForced, flashLeaked>>

FlashGive(c) ==
  /\ flashPc[c] = "hal"
  /\ flashSem' = 1
  /\ flashPc' = [flashPc EXCEPT ![c] = "idle"]
  /\ UNCHANGED <<flashOp, flashIsrs, flashForced, flashLeaked>>

\* flash_ameba_erase of an offset with no page: it returns between the take
\* and the give
FlashBadErase(c) ==
  /\ flashPc[c] = "hal" /\ flashOp[c] = "erase"
  /\ flashPc' = [flashPc EXCEPT ![c] = "idle"]
  /\ flashLeaked' = TRUE
  /\ UNCHANGED <<flashSem, flashOp, flashIsrs, flashForced>>

\* the same read or write from an interrupt, which nothing interrupts here
FlashFromIsr ==
  /\ flashIsrs < FlashIsrs
  /\ flashIsrs' = flashIsrs + 1
  /\ flashSem' = 1
  /\ flashForced' = (flashForced \/ flashSem = 0)
  /\ UNCHANGED <<flashPc, flashOp, flashLeaked>>

FlashStep(c) == FlashTake(c) \/ FlashGive(c)

FlashNext ==
  \/ FlashFromIsr
  \/ \E c \in FlashClients :
       \/ FlashStep(c) \/ FlashBadErase(c)
       \/ \E op \in {"read", "write", "erase"} : FlashCall(c, op)

FlashSpec ==
  FlashInit /\ [][FlashNext]_flashVars /\ \A c \in FlashClients : SF_flashVars(FlashStep(c))

-----------------------------------------------------------------------------
(* One thread at a time drives the flash controller, and while one does the  *)
(* semaphore is down; as long as no interrupt has entered beside the holder. *)
(* A leaked semaphore never lets two in.                                     *)
FlashOneAtATime ==
  ~flashForced =>
    \A c, d \in FlashClients :
      flashPc[c] = "hal" => flashSem = 0 /\ (flashPc[d] = "hal" => c = d)

(* A call returns, unless an erase outside the layout has kept the semaphore:*)
(* the one path of the driver that does not give it back.                    *)
FlashCallsReturn ==
  \A c \in FlashClients : flashPc[c] # "idle" ~> (flashPc[c] = "idle" \/ flashLeaked)

=============================================================================
