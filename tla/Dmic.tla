-------------------------------- MODULE Dmic --------------------------------
(***************************************************************************)
(* drivers/audio/dmic_amebapro2.c: the microphone's DMA pages, the receive *)
(* interrupt that queues them, and the thread that configures, triggers    *)
(* and reads the device.                                                   *)
(*                                                                         *)
(* The interrupt handler runs to completion between two steps of the       *)
(* thread.  A read takes one step per access to what the handler shares:   *)
(* in particular `rx_queue.count--' is a load and a store.                 *)
(*                                                                         *)
(* The HAL is outside the repository.  It is taken to fill the pages in    *)
(* ring order, to stand still when every page is out, to return the page   *)
(* that has been out for longest on hal_audio_sport_rx_page_recv, and to   *)
(* leave the pages as they are when the DMA is stopped and started.        *)
(***************************************************************************)
EXTENDS Integers, Sequences

CONSTANTS
  NumPages,    \* AUDIO_DMA_PAGE_NUM
  DropNum,     \* AUDIO_DROP_NUM
  NumBlocks,   \* blocks of the client's memory slab
  NoPage

ASSUME DmicAssumption ==
  /\ NumPages \in Nat \ {0}
  /\ DropNum \in Nat
  /\ NumBlocks \in Nat \ {0}
  /\ NoPage \notin 0 .. NumPages - 1

VARIABLES
  state,       \* data->state
  drop_count,
  pages, write_idx, read_idx, count,   \* data->rx_queue
  rx_sem,      \* count of data->rx_sem
  oldest, out, \* HAL: the pages out are oldest, oldest + 1, ... (out of them)
  reader,      \* where dmic_amebapro2_read is
  loaded,      \* count as the decrement loaded it, 0 once it is stored
  dma_page,    \* the page the read works on
  free, lent,  \* blocks in the slab, and blocks the client has not freed yet
  queued       \* the pages queued and not read since the start, oldest first

queue    == <<pages, write_idx, read_idx, count, queued>>
hal      == <<oldest, out>>
readVars == <<reader, loaded, dma_page>>
dmicVars == <<state, drop_count, queue, rx_sem, hal, readVars, free, lent>>

Page == 0 .. NumPages - 1
PagesOut == {(oldest + i) % NumPages : i \in 0 .. out - 1}

DmicTypeOK ==
  /\ state \in {"INITIALIZED", "CONFIGURED", "ACTIVE", "PAUSED"}
  /\ drop_count \in 0 .. DropNum
  /\ pages \in [Page -> Page \cup {NoPage}]
  /\ write_idx \in Page /\ read_idx \in Page
  /\ count \in 0 .. NumPages
  /\ rx_sem \in 0 .. NumPages
  /\ oldest \in Page /\ out \in 0 .. NumPages
  /\ reader \in {"idle", "wait", "check", "fetch", "load", "store", "copy", "return"}
  /\ loaded \in 0 .. NumPages
  /\ dma_page \in Page \cup {NoPage}
  /\ free \in 0 .. NumBlocks /\ lent \in 0 .. NumBlocks
  /\ queued \in Seq(Page)

\* dmic_amebapro2_init
DmicInit ==
  /\ state = "INITIALIZED"
  /\ drop_count = 0
  /\ pages = [p \in Page |-> NoPage]
  /\ write_idx = 0 /\ read_idx = 0 /\ count = 0
  /\ rx_sem = 0
  /\ oldest = 0 /\ out = 0
  /\ reader = "idle" /\ loaded = 0 /\ dma_page = NoPage
  /\ free = NumBlocks /\ lent = 0
  /\ queued = <<>>

Next1(i) == (i + 1) % NumPages

\* hal_audio_sport_rx_page_recv when `n' pages are out.
PageRecv(n) == oldest' = Next1(oldest) /\ out' = n - 1
-----------------------------------------------------------------------------
(***************************************************************************)
(* dmic_rx_callback: the DMA has filled the next page.                     *)
(***************************************************************************)
Filled == (oldest + out) % NumPages
DmaRuns == state = "ACTIVE" /\ out < NumPages

RxDrop ==
  /\ DmaRuns /\ drop_count > 0
  /\ drop_count' = drop_count - 1
  /\ PageRecv(out + 1)
  /\ UNCHANGED <<state, queue, rx_sem, readVars, free, lent>>

\* The page is queued.  The handler's other branch, for a full queue, is never
\* taken: see NeverFull.
RxQueue ==
  /\ DmaRuns /\ drop_count = 0 /\ count < NumPages
  /\ pages' = [pages EXCEPT ![write_idx] = Filled]
  /\ write_idx' = Next1(write_idx)
  /\ count' = count + 1
  /\ queued' = Append(queued, Filled)
  /\ rx_sem' = IF rx_sem < NumPages THEN rx_sem + 1 ELSE rx_sem
  /\ out' = out + 1
  /\ UNCHANGED <<state, drop_count, read_idx, oldest, readVars, free, lent>>
-----------------------------------------------------------------------------
(***************************************************************************)
(* The thread.                                                             *)
(***************************************************************************)
ResetQueue ==
  /\ write_idx' = 0 /\ read_idx' = 0 /\ count' = 0
  /\ queued' = <<>>
  /\ UNCHANGED pages

\* dmic_amebapro2_configure: a fresh buffer, all of it with the DMA (which
\* raises an interrupt for the first page without being given it).  An
\* invalid request or a failed allocation changes nothing.
Configure ==
  /\ reader = "idle"
  /\ state \in {"INITIALIZED", "CONFIGURED"}
  /\ ResetQueue
  /\ oldest' = 0 /\ out' = 0
  /\ state' = "CONFIGURED"
  /\ UNCHANGED <<drop_count, rx_sem, readVars, free, lent>>

TriggerStart ==
  /\ reader = "idle"
  /\ state \in {"CONFIGURED", "PAUSED"}
  /\ drop_count' = DropNum
  /\ state' = "ACTIVE"
  /\ UNCHANGED <<queue, rx_sem, hal, readVars, free, lent>>

\* Mutants of TriggerStop: the semaphore, or read_idx, keeps its value.
TriggerStopSem(next_state) ==
  /\ reader = "idle" /\ state = "ACTIVE"
  /\ ResetQueue
  /\ state' = next_state
  /\ UNCHANGED <<drop_count, rx_sem, hal, readVars, free, lent>>

TriggerStopIndex(next_state) ==
  /\ reader = "idle" /\ state = "ACTIVE"
  /\ write_idx' = 0 /\ count' = 0 /\ queued' = <<>> /\ rx_sem' = 0
  /\ state' = next_state
  /\ UNCHANGED <<drop_count, pages, read_idx, hal, readVars, free, lent>>

\* STOP and PAUSE.  The pages in the queue are not given back to the DMA.
TriggerStop(next_state) ==
  /\ reader = "idle" /\ state = "ACTIVE"
  /\ ResetQueue
  /\ rx_sem' = 0
  /\ state' = next_state
  /\ UNCHANGED <<drop_count, hal, readVars, free, lent>>

\* dmic_amebapro2_read.  An empty slab answers -ENOMEM and changes nothing.
ReadBegin ==
  /\ reader = "idle" /\ state = "ACTIVE" /\ free > 0
  /\ free' = free - 1
  /\ reader' = "wait"
  /\ UNCHANGED <<state, drop_count, queue, rx_sem, hal, loaded, dma_page, lent>>

ReadSem ==
  /\ reader = "wait" /\ rx_sem > 0
  /\ rx_sem' = rx_sem - 1
  /\ reader' = "check"
  /\ UNCHANGED <<state, drop_count, queue, hal, loaded, dma_page, free, lent>>

\* Mutant of ReadTimeout: the block is not freed.
ReadTimeoutLeak ==
  /\ reader = "wait" /\ rx_sem = 0
  /\ reader' = "idle"
  /\ UNCHANGED <<state, drop_count, queue, rx_sem, hal, loaded, dma_page, free, lent>>

ReadTimeout ==
  /\ reader = "wait" /\ rx_sem = 0
  /\ free' = free + 1
  /\ reader' = "idle"
  /\ UNCHANGED <<state, drop_count, queue, rx_sem, hal, loaded, dma_page, lent>>

\* "RX queue empty (should not happen)"
ReadEmpty ==
  /\ reader = "check" /\ count = 0
  /\ free' = free + 1
  /\ reader' = "idle"
  /\ UNCHANGED <<state, drop_count, queue, rx_sem, hal, loaded, dma_page, lent>>

ReadCheck ==
  /\ reader = "check" /\ count > 0
  /\ reader' = "fetch"
  /\ UNCHANGED <<state, drop_count, queue, rx_sem, hal, loaded, dma_page, free, lent>>

ReadFetch ==
  /\ reader = "fetch"
  /\ dma_page' = pages[read_idx]
  /\ read_idx' = Next1(read_idx)
  /\ queued' = Tail(queued)
  /\ reader' = "load"
  /\ UNCHANGED <<state, drop_count, pages, write_idx, count, rx_sem, hal, loaded, free, lent>>

ReadLoad ==
  /\ reader = "load"
  /\ loaded' = count
  /\ reader' = "store"
  /\ UNCHANGED <<state, drop_count, queue, rx_sem, hal, dma_page, free, lent>>

\* Mutants of ReadStore: the page is given back before it is copied; the
\* count is not decremented.
ReadStoreReturn ==
  /\ reader = "store"
  /\ count' = loaded - 1
  /\ PageRecv(out)
  /\ reader' = "copy"
  /\ UNCHANGED <<state, drop_count, pages, write_idx, read_idx, queued, rx_sem,
                 loaded, dma_page, free, lent>>

ReadStoreKept ==
  /\ reader = "store"
  /\ reader' = "copy"
  /\ UNCHANGED <<state, drop_count, queue, rx_sem, hal, loaded, dma_page, free, lent>>

ReadStore ==
  /\ reader = "store"
  /\ count' = loaded - 1
  /\ loaded' = 0
  /\ reader' = "copy"
  /\ UNCHANGED <<state, drop_count, pages, write_idx, read_idx, queued, rx_sem, hal,
                 dma_page, free, lent>>

\* memcpy: the page must stand still until it is done.
ReadCopy ==
  /\ reader = "copy"
  /\ reader' = "return"
  /\ UNCHANGED <<state, drop_count, queue, rx_sem, hal, loaded, dma_page, free, lent>>

ReadReturn ==
  /\ reader = "return"
  /\ PageRecv(out)
  /\ lent' = lent + 1
  /\ dma_page' = NoPage
  /\ reader' = "idle"
  /\ UNCHANGED <<state, drop_count, queue, rx_sem, loaded, free>>

\* The client frees a block (k_mem_slab_free in the samples).
FreeBlock ==
  /\ lent > 0
  /\ lent' = lent - 1
  /\ free' = free + 1
  /\ UNCHANGED <<state, drop_count, queue, rx_sem, hal, readVars>>

Read == \/ ReadBegin \/ ReadSem \/ ReadTimeout \/ ReadEmpty \/ ReadCheck \/ ReadFetch
        \/ ReadLoad \/ ReadStore \/ ReadCopy \/ ReadReturn

Trigger == TriggerStart \/ \E s \in {"CONFIGURED", "PAUSED"} : TriggerStop(s)

DmicNext == RxDrop \/ RxQueue \/ Configure \/ Trigger \/ Read \/ FreeBlock

DmicSpec == DmicInit /\ [][DmicNext]_dmicVars
-----------------------------------------------------------------------------
\* The pages reach the reader in the order the DMA filled them: the entry at
\* read_idx is the oldest page queued since the start, although the interrupt
\* may fall between the load and the store of count--.
FifoOrder ==
  reader = "fetch" => queued # <<>> /\ pages[read_idx] = Head(queued)

\* The lost update goes one way only: count never promises a page that is not
\* queued, so a read that passes the check finds one.
CountIsBacked ==
  IF reader = "store" THEN loaded - 1 <= Len(queued) /\ count - 1 <= Len(queued)
  ELSE count <= Len(queued) + (IF reader = "load" THEN 1 ELSE 0)

\* The handler always finds room in the queue, so the branch that gives a new
\* page back at once, ahead of the pages already queued, is never taken.
NeverFull == DmaRuns => count < NumPages

\* While a page is queued or copied the DMA does not own it, even when pages
\* of an earlier session are still out.
PagesStandStill ==
  /\ \A i \in DOMAIN queued : queued[i] \in PagesOut
  /\ reader \in {"load", "store", "copy"} => dma_page \in PagesOut

\* A start begins with nothing of the session before it: no count, no entry
\* and no semaphore unit is left while the first pages are dropped.
StartsFresh ==
  state # "ACTIVE" \/ drop_count > 0 => rx_sem = 0 /\ count = 0 /\ queued = <<>>

\* No way out of a read leaks a block of the slab.
BlocksConserved ==
  free + lent + (IF reader = "idle" THEN 0 ELSE 1) = NumBlocks

\* "RX queue empty (should not happen)": a read that took the semaphore finds
\* a page in the queue.
QueueNotEmpty == reader = "check" => count > 0
=============================================================================
