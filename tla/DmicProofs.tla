------------------------------ MODULE DmicProofs ------------------------------
(***************************************************************************)
(* Proofs about Dmic: types, the queue's count, its room and its order,    *)
(* the state a start finds, the pages a read may touch and the blocks of   *)
(* the slab, for any number of pages and blocks.                           *)
(***************************************************************************)
EXTENDS Dmic, TLAPS

Holding == reader \in {"load", "store", "copy", "return"}

\* A read runs in a session, and is past the semaphore only when the first
\* pages of the session have been dropped.
ReaderView ==
  /\ reader # "idle" => state = "ACTIVE"
  /\ reader \notin {"idle", "wait"} => drop_count = 0

\* What the check of count has established is still true when it is used.
CountView ==
  /\ reader \in {"fetch", "load"} => count > 0
  /\ reader = "store" => loaded > 0

\* The pages queued, and the one in the hands of a read, are out.
PagesView ==
  /\ Len(queued) <= out
  /\ Holding => Len(queued) + 1 <= out

DmicInv ==
  /\ DmicTypeOK /\ StartsFresh /\ BlocksConserved
  /\ ReaderView /\ CountView /\ CountIsBacked /\ PagesView
-----------------------------------------------------------------------------
LEMMA NextIsPage == \A i \in Page : Next1(i) \in Page
  BY DmicAssumption DEF Next1, Page

LEMMA FilledIsPage == \A i \in Page, n \in 0 .. NumPages : (i + n) % NumPages \in Page
  BY DmicAssumption DEF Page

\* The handler finds room: count is at most what is queued, one more while a
\* read holds a page it has not counted off, and both are out.
LEMMA RoomForPage == DmicInv /\ DmaRuns => count < NumPages /\ Len(queued) < NumPages
  BY DmicAssumption
     DEF DmicInv, DmicTypeOK, DmaRuns, CountIsBacked, PagesView, Holding, CountView

LEMMA InitDmicInv == DmicInit => DmicInv
  BY DmicAssumption
     DEF DmicInit, DmicInv, DmicTypeOK, StartsFresh, BlocksConserved, ReaderView,
         CountView, CountIsBacked, PagesView, Holding, Page

\* Each step of the interrupt handler, of the thread and of the client keeps
\* the invariant.
LEMMA DmicStep == DmicInv /\ [DmicNext]_dmicVars => DmicInv'
<1> SUFFICES ASSUME DmicInv, [DmicNext]_dmicVars PROVE DmicInv'
  OBVIOUS
<1> USE DmicAssumption
<1> USE DEF DmicInv, DmicTypeOK, StartsFresh, BlocksConserved, ReaderView, CountView,
            CountIsBacked, PagesView, Holding
\* The interrupt handler.
<1>1. CASE RxDrop
  <2>1. oldest' \in Page /\ out' = out
    BY <1>1, NextIsPage DEF RxDrop, PageRecv
  <2> QED  BY <1>1, <2>1 DEF RxDrop, DmaRuns, queue, readVars
<1>2. CASE RxQueue
  <2>1. Filled \in Page /\ write_idx' \in Page
    BY <1>2, NextIsPage, FilledIsPage DEF RxQueue, Filled
  <2>2. pages' \in [Page -> Page \cup {NoPage}] /\ queued' \in Seq(Page)
    BY <1>2, <2>1 DEF RxQueue
  <2>3. Len(queued') = Len(queued) + 1 /\ count < NumPages /\ out < NumPages
    BY <1>2, <2>1, RoomForPage DEF RxQueue, DmaRuns
  <2>4. DmicTypeOK'
    BY <1>2, <2>1, <2>2, <2>3 DEF RxQueue, readVars
  <2>5. StartsFresh' /\ BlocksConserved'
    BY <1>2 DEF RxQueue, DmaRuns, readVars
  <2>6. ReaderView' /\ CountView' /\ PagesView'
    BY <1>2, <2>3 DEF RxQueue, readVars
  <2>7. CountIsBacked'
    BY <1>2, <2>3 DEF RxQueue, readVars
  <2> QED  BY <2>4, <2>5, <2>6, <2>7
\* Configuration and triggers: no read runs.
<1>3. CASE Configure
  BY <1>3 DEF Configure, ResetQueue, readVars, Page
<1>4. CASE TriggerStart
  BY <1>4 DEF TriggerStart, queue, hal, readVars
<1>5. ASSUME NEW s \in {"CONFIGURED", "PAUSED"}, TriggerStop(s) PROVE DmicInv'
  BY <1>5 DEF TriggerStop, ResetQueue, hal, readVars, Page
\* A read, up to the check.
<1>6. CASE ReadBegin
  BY <1>6 DEF ReadBegin, queue, hal
<1>7. CASE ReadSem
  BY <1>7 DEF ReadSem, queue, hal
<1>8. CASE ReadTimeout
  BY <1>8 DEF ReadTimeout, queue, hal
<1>9. CASE ReadEmpty
  BY <1>9 DEF ReadEmpty, queue, hal
<1>10. CASE ReadCheck
  BY <1>10 DEF ReadCheck, queue, hal
\* From here on the read has a page.
<1>11. CASE ReadFetch
  <2>1. queued # <<>> /\ Len(queued) > 0
    BY <1>11 DEF ReadFetch
  <2>2. queued' \in Seq(Page) /\ Len(queued') = Len(queued) - 1
    BY <1>11, <2>1 DEF ReadFetch
  <2>3. read_idx' \in Page /\ dma_page' \in Page \cup {NoPage}
    BY <1>11, NextIsPage DEF ReadFetch
  <2> QED  BY <1>11, <2>2, <2>3 DEF ReadFetch, hal
<1>12. CASE ReadLoad
  BY <1>12 DEF ReadLoad, queue, hal
<1>13. CASE ReadStore
  BY <1>13 DEF ReadStore, hal
<1>14. CASE ReadCopy
  BY <1>14 DEF ReadCopy, queue, hal
<1>15. CASE ReadReturn
  <2>1. oldest' \in Page /\ out' = out - 1 /\ out > 0
    BY <1>15, NextIsPage DEF ReadReturn, PageRecv
  <2> QED  BY <1>15, <2>1 DEF ReadReturn, queue
<1>16. CASE FreeBlock
  BY <1>16 DEF FreeBlock, queue, hal, readVars
<1>17. CASE UNCHANGED dmicVars
  BY <1>17 DEF dmicVars, queue, hal, readVars
<1> QED
  BY <1>1, <1>2, <1>3, <1>4, <1>5, <1>6, <1>7, <1>8, <1>9, <1>10, <1>11, <1>12,
     <1>13, <1>14, <1>15, <1>16, <1>17 DEF DmicNext, Trigger, Read

LEMMA DmicInvariant == DmicSpec => []DmicInv
  BY InitDmicInv, DmicStep, PTL DEF DmicSpec
-----------------------------------------------------------------------------
\* The state of dmic_amebapro2.c keeps its types: indices stay in the queue,
\* and no page is given back to the DMA that is not out.
THEOREM DmicTypeCorrect == DmicSpec => []DmicTypeOK
<1>1. DmicInv => DmicTypeOK
  BY DEF DmicInv
<1> QED  BY <1>1, DmicInvariant, PTL

\* Whatever updates of the interrupt handler a read overwrites, count never
\* promises a page that is not queued.
THEOREM CountsAreBacked == DmicSpec => []CountIsBacked
<1>1. DmicInv => CountIsBacked
  BY DEF DmicInv
<1> QED  BY <1>1, DmicInvariant, PTL

\* The interrupt handler always finds room for its page, so its branch for a
\* full queue is dead code.
THEOREM QueueIsNeverFull == DmicSpec => []NeverFull
<1>1. DmicInv => NeverFull
  BY RoomForPage DEF NeverFull
<1> QED  BY <1>1, DmicInvariant, PTL

\* STOP and PAUSE leave nothing in the queue and no unit in the semaphore for
\* the next session to find.
THEOREM SessionsStartFresh == DmicSpec => []StartsFresh
<1>1. DmicInv => StartsFresh
  BY DEF DmicInv
<1> QED  BY <1>1, DmicInvariant, PTL

\* Every block of the slab is free, lent or held by the running read: no way
\* out of dmic_amebapro2_read leaks one.
THEOREM BlocksAreConserved == DmicSpec => []BlocksConserved
<1>1. DmicInv => BlocksConserved
  BY DEF DmicInv
<1> QED  BY <1>1, DmicInvariant, PTL
-----------------------------------------------------------------------------
(***************************************************************************)
(* The two rings.                                                          *)
(***************************************************************************)
\* k places on from i, for k up to a whole turn.
RingAt(i, k) == IF i + k < NumPages THEN i + k ELSE i + k - NumPages

\* The entries between the two indices are the pages queued, in order.
RingView ==
  /\ Len(queued) <= NumPages
  /\ write_idx = RingAt(read_idx, Len(queued))
  /\ \A k \in 0 .. Len(queued) - 1 : pages[RingAt(read_idx, k)] = queued[k + 1]

\* The pages queued are the last of those that are out, and the page of a read
\* comes right before them; what is older is left over from an earlier session.
OutView ==
  /\ \A k \in 1 .. Len(queued) : queued[k] = RingAt(oldest, out - Len(queued) + k - 1)
  /\ reader \in {"load", "store", "copy"} => dma_page = RingAt(oldest, out - Len(queued) - 1)

RingInv == DmicInv /\ RingView /\ OutView

LEMMA RingModulo ==
  \A i \in Page, k \in 0 .. NumPages : (i + k) % NumPages = RingAt(i, k)
<1> SUFFICES ASSUME NEW i \in Page, NEW k \in 0 .. NumPages
             PROVE  (i + k) % NumPages = RingAt(i, k)
  OBVIOUS
<1>1. NumPages \in Nat /\ NumPages > 0 /\ i \in Nat /\ k \in Nat /\ i < NumPages /\ k <= NumPages
  BY DmicAssumption DEF Page
<1>2. CASE i + k < NumPages
  BY <1>1, <1>2 DEF RingAt
<1>3. CASE i + k >= NumPages
  BY <1>1, <1>3 DEF RingAt
<1> QED  BY <1>1, <1>2, <1>3

LEMMA RingFacts ==
  ASSUME NEW i \in Page
  PROVE  /\ Next1(i) = RingAt(i, 1)
         /\ \A k \in 0 .. NumPages : RingAt(i, k) \in Page
         /\ RingAt(i, 0) = i
         /\ \A k \in 0 .. NumPages - 1 : RingAt(RingAt(i, 1), k) = RingAt(i, k + 1)
         /\ \A k \in 0 .. NumPages - 1 : Next1(RingAt(i, k)) = RingAt(i, k + 1)
         /\ \A j, k \in 0 .. NumPages - 1 : RingAt(i, j) = RingAt(i, k) => j = k
<1>1. NumPages \in Nat /\ NumPages > 0 /\ i \in Nat /\ i < NumPages /\ 1 \in 0 .. NumPages
  BY DmicAssumption DEF Page
<1>2. /\ \A k \in 0 .. NumPages : RingAt(i, k) \in Page
      /\ RingAt(i, 0) = i
      /\ \A k \in 0 .. NumPages - 1 : RingAt(RingAt(i, 1), k) = RingAt(i, k + 1)
      /\ \A k \in 0 .. NumPages - 1 : RingAt(RingAt(i, k), 1) = RingAt(i, k + 1)
      /\ \A j, k \in 0 .. NumPages - 1 : RingAt(i, j) = RingAt(i, k) => j = k
  BY <1>1 DEF RingAt, Page
<1>3. \A j \in Page : Next1(j) = RingAt(j, 1)
  BY <1>1, RingModulo DEF Next1
<1>4. \A k \in 0 .. NumPages - 1 : k \in 0 .. NumPages
  BY <1>1
<1> QED  BY <1>2, <1>3, <1>4

LEMMA InitRingInv == DmicInit => RingInv
<1> SUFFICES ASSUME DmicInit PROVE RingInv
  OBVIOUS
<1>1. 0 \in Page /\ Len(queued) = 0
  BY DmicAssumption DEF DmicInit, Page
<1>2. RingAt(0, 0) = 0
  BY <1>1, RingFacts
<1> QED  BY <1>1, <1>2, InitDmicInv, DmicAssumption DEF DmicInit, RingInv, RingView, OutView

\* The steps that touch a ring are those of the handler, the fetch and the
\* return; a stop and a configuration empty the queue.
LEMMA RingStep == RingInv /\ [DmicNext]_dmicVars => RingInv'
<1> SUFFICES ASSUME RingInv, [DmicNext]_dmicVars PROVE RingView' /\ OutView'
  BY DmicStep DEF RingInv
<1>0. /\ DmicInv /\ DmicTypeOK /\ RingView /\ OutView /\ PagesView /\ StartsFresh /\ ReaderView
      /\ DmicTypeOK' /\ PagesView'
      /\ NumPages \in Nat /\ NumPages > 0
  BY DmicStep, DmicAssumption DEF RingInv, DmicInv
<1>00. /\ Len(queued) \in Nat /\ out \in 0 .. NumPages /\ oldest \in Page
       /\ read_idx \in Page /\ write_idx \in Page /\ queued \in Seq(Page)
       /\ Len(queued) <= out
  BY <1>0 DEF DmicTypeOK, PagesView
<1>1. CASE RxDrop
  <2>1. queued = <<>> /\ reader \in {"idle", "wait"}
    BY <1>0, <1>1 DEF RxDrop, DmaRuns, StartsFresh, ReaderView, DmicTypeOK
  <2>2. UNCHANGED <<queue, reader>>
    BY <1>1 DEF RxDrop, readVars
  <2> QED  BY <1>0, <2>1, <2>2 DEF RingView, OutView, queue
<1>2. CASE RxQueue
  <2>0. PICK len \in Nat : len = Len(queued) /\ len < NumPages /\ len <= out /\ out < NumPages
    BY <1>0, <1>00, <1>2, RoomForPage DEF RxQueue, DmaRuns
  <2>1. /\ Filled = RingAt(oldest, out) /\ Filled \in Page
        /\ queued' = Append(queued, Filled) /\ Len(queued') = len + 1
        /\ \A k \in 1 .. len : queued'[k] = queued[k]
        /\ queued'[len + 1] = Filled
    <3>1. Filled = RingAt(oldest, out) /\ Filled \in Page
      BY <1>00, RingModulo, RingFacts DEF Filled
    <3> QED  BY <1>00, <1>2, <2>0, <3>1 DEF RxQueue
  <2>2. /\ out' = out + 1 /\ UNCHANGED <<read_idx, oldest, reader, dma_page>>
        /\ pages' = [pages EXCEPT ![write_idx] = Filled]
        /\ write_idx' = Next1(write_idx)
        /\ pages \in [Page -> Page \cup {NoPage}]
    BY <1>0, <1>2 DEF RxQueue, readVars, DmicTypeOK
  <2>3. /\ write_idx = RingAt(read_idx, len)
        /\ \A k \in 0 .. len - 1 : pages[RingAt(read_idx, k)] = queued[k + 1]
    BY <1>0, <2>0 DEF RingView
  <2>4. \A k \in 0 .. len : k \in 0 .. NumPages - 1 /\ (k = len \/ k \in 0 .. len - 1)
    BY <1>0, <1>00, <2>0
  <2>5. write_idx' = RingAt(read_idx', len + 1)
    BY <1>00, <2>0, <2>2, <2>3, <2>4, RingFacts
  <2>6. \A k \in 0 .. len : pages'[RingAt(read_idx, k)] = queued'[k + 1]
    <3> SUFFICES ASSUME NEW k \in 0 .. len PROVE pages'[RingAt(read_idx, k)] = queued'[k + 1]
      OBVIOUS
    <3>1. CASE k = len
      BY <1>00, <2>1, <2>2, <2>3, <3>1
    <3>2. CASE k \in 0 .. len - 1
      <4>1. RingAt(read_idx, k) # write_idx /\ RingAt(read_idx, k) \in Page
        <5>1. len \in 0 .. NumPages - 1 /\ k # len /\ k \in 0 .. NumPages
          BY <1>0, <1>00, <2>0, <3>2
        <5> QED  BY <1>00, <2>3, <2>4, <5>1, RingFacts
      <4>2. k + 1 \in 1 .. len
        BY <2>0, <3>2
      <4> QED  BY <2>1, <2>2, <2>3, <3>2, <4>1, <4>2
    <3> QED  BY <2>4, <3>1, <3>2
  <2>7. RingView'
    <3>1. Len(queued') - 1 = len /\ Len(queued') <= NumPages
      BY <1>0, <1>00, <2>0, <2>1
    <3> QED  BY <2>1, <2>2, <2>5, <2>6, <3>1 DEF RingView
  <2>8. OutView'
    <3>1. ASSUME NEW k \in 1 .. len + 1
          PROVE  queued'[k] = RingAt(oldest, (out + 1) - (len + 1) + k - 1)
      <4>1. CASE k = len + 1
        <5>1. (out + 1) - (len + 1) + k - 1 = out
          BY <1>00, <2>0, <4>1
        <5> QED  BY <2>1, <4>1, <5>1
      <4>2. CASE k \in 1 .. len
        <5>1. (out + 1) - (len + 1) + k - 1 = out - len + k - 1
          BY <1>00, <2>0, <4>2
        <5> QED  BY <1>0, <2>0, <2>1, <4>2, <5>1 DEF OutView
      <4> QED  BY <2>0, <4>1, <4>2
    <3>2. (out + 1) - (len + 1) - 1 = out - len - 1
      BY <1>00, <2>0
    <3> QED  BY <1>0, <2>0, <2>1, <2>2, <3>1, <3>2 DEF OutView
  <2> QED  BY <2>7, <2>8
<1>3. CASE Configure \/ \E s \in {"CONFIGURED", "PAUSED"} : TriggerStop(s)
  <2>1. /\ queued' = <<>> /\ write_idx' = 0 /\ read_idx' = 0 /\ reader' = "idle"
    BY <1>3 DEF Configure, TriggerStop, ResetQueue, readVars
  <2>2. 0 \in Page /\ Len(queued') = 0
    BY <1>0, <2>1 DEF Page
  <2>3. RingAt(0, 0) = 0
    BY <2>2, RingFacts
  <2> QED  BY <1>0, <2>1, <2>2, <2>3 DEF RingView, OutView
<1>4. ASSUME UNCHANGED <<pages, write_idx, read_idx, queued, oldest, out, dma_page>>,
             reader' \in {"load", "store", "copy"} => reader \in {"load", "store", "copy"}
      PROVE  RingView' /\ OutView'
  BY <1>0, <1>4 DEF RingView, OutView
<1>5. CASE TriggerStart \/ ReadBegin \/ ReadSem \/ ReadTimeout \/ ReadEmpty \/ ReadCheck
           \/ ReadLoad \/ ReadStore \/ ReadCopy \/ FreeBlock
  BY <1>4, <1>5 DEF TriggerStart, ReadBegin, ReadSem, ReadTimeout, ReadEmpty, ReadCheck,
                    ReadLoad, ReadStore, ReadCopy, FreeBlock, queue, hal, readVars
<1>6. CASE ReadFetch
  <2>0. PICK len \in Nat : len = Len(queued) /\ len > 0 /\ len <= NumPages /\ len <= out
    BY <1>0, <1>00, <1>6 DEF ReadFetch, DmicInv, CountIsBacked, CountView, DmicTypeOK, RingView
  <2>1. /\ queued' = Tail(queued) /\ Len(queued') = len - 1
        /\ \A k \in 1 .. len - 1 : queued'[k] = queued[k + 1]
        /\ read_idx' = RingAt(read_idx, 1)
        /\ dma_page' = pages[read_idx]
        /\ UNCHANGED <<pages, write_idx, oldest, out>>
    <3>1. queued # <<>>
      BY <2>0
    <3>2. Len(Tail(queued)) = len - 1 /\ \A k \in 1 .. len - 1 : Tail(queued)[k] = queued[k + 1]
      BY <1>00, <2>0, <3>1
    <3> QED  BY <1>00, <1>6, <3>2, RingFacts DEF ReadFetch, hal
  <2>2. /\ write_idx = RingAt(read_idx, len)
        /\ \A k \in 0 .. len - 1 : pages[RingAt(read_idx, k)] = queued[k + 1]
        /\ \A k \in 1 .. len : queued[k] = RingAt(oldest, out - len + k - 1)
    BY <1>0, <2>0 DEF RingView, OutView
  <2>3. \A k \in 0 .. len - 1 : RingAt(read_idx', k) = RingAt(read_idx, k + 1)
    <3>1. \A k \in 0 .. len - 1 : k \in 0 .. NumPages - 1
      BY <1>0, <1>00, <2>0
    <3> QED  BY <1>00, <2>1, <3>1, RingFacts
  <2>4. dma_page' = queued[1]
    <3>1. 0 \in 0 .. len - 1 /\ RingAt(read_idx, 0) = read_idx
      BY <1>00, <2>0, RingFacts
    <3> QED  BY <2>1, <2>2, <3>1
  <2>5. RingView'
    <3>1. write_idx' = RingAt(read_idx', len - 1)
      <4>1. len - 1 \in 0 .. len - 1 /\ (len - 1) + 1 = len
        BY <2>0
      <4> QED  BY <2>1, <2>2, <2>3, <4>1
    <3>2. ASSUME NEW k \in 0 .. (len - 1) - 1
          PROVE  pages'[RingAt(read_idx', k)] = queued'[k + 1]
      <4>1. k \in 0 .. len - 1 /\ k + 1 \in 0 .. len - 1 /\ k + 1 \in 1 .. len - 1
        BY <2>0
      <4> QED  BY <2>1, <2>2, <2>3, <4>1
    <3> QED  BY <1>0, <1>00, <2>0, <2>1, <3>1, <3>2 DEF RingView
  <2>6. OutView'
    <3>1. ASSUME NEW k \in 1 .. len - 1
          PROVE  queued'[k] = RingAt(oldest, out - (len - 1) + k - 1)
      <4>1. k + 1 \in 1 .. len /\ out - len + (k + 1) - 1 = out - (len - 1) + k - 1
        BY <1>00, <2>0
      <4> QED  BY <2>1, <2>2, <4>1
    <3>2. dma_page' = RingAt(oldest, out - (len - 1) - 1)
      <4>1. 1 \in 1 .. len /\ out - len + 1 - 1 = out - (len - 1) - 1
        BY <1>00, <2>0
      <4> QED  BY <2>2, <2>4, <4>1
    <3> QED  BY <2>1, <3>1, <3>2 DEF OutView
  <2> QED  BY <2>5, <2>6
<1>7. CASE ReadReturn
  <2>1. /\ UNCHANGED <<pages, write_idx, read_idx, queued>>
        /\ oldest' = RingAt(oldest, 1) /\ out' = out - 1 /\ reader' = "idle"
    BY <1>00, <1>7, RingFacts DEF ReadReturn, PageRecv, queue
  <2>2. Len(queued) + 1 <= out
    BY <1>0, <1>7 DEF ReadReturn, PagesView, Holding
  <2>3. ASSUME NEW k \in 1 .. Len(queued)
        PROVE  queued[k] = RingAt(oldest', (out - 1) - Len(queued) + k - 1)
    <3>1. /\ (out - 1) - Len(queued) + k - 1 \in 0 .. NumPages - 1
          /\ ((out - 1) - Len(queued) + k - 1) + 1 = out - Len(queued) + k - 1
      BY <1>0, <1>00, <2>2
    <3>2. queued[k] = RingAt(oldest, out - Len(queued) + k - 1)
      BY <1>0 DEF OutView
    <3> QED  BY <1>00, <2>1, <3>1, <3>2, RingFacts
  <2> QED  BY <1>0, <2>1, <2>3 DEF RingView, OutView
<1>8. CASE UNCHANGED dmicVars
  BY <1>4, <1>8 DEF dmicVars, queue, hal, readVars
<1> QED
  BY <1>1, <1>2, <1>3, <1>5, <1>6, <1>7, <1>8 DEF DmicNext, Trigger, Read

LEMMA RingInvariant == DmicSpec => []RingInv
  BY InitRingInv, RingStep, PTL DEF DmicSpec

\* A read gets the pages in the order in which the DMA filled them, for any
\* number of pages: pausing, dropping and reading late reorder nothing.
THEOREM PagesInOrder == DmicSpec => []FifoOrder
<1>1. RingInv => FifoOrder
  <2> SUFFICES ASSUME RingInv, reader = "fetch"
               PROVE  queued # <<>> /\ pages[read_idx] = Head(queued)
    BY DEF FifoOrder
  <2>1. Len(queued) > 0 /\ read_idx \in Page /\ queued \in Seq(Page)
    BY DEF RingInv, DmicInv, CountIsBacked, CountView, DmicTypeOK
  <2>2. 0 \in 0 .. Len(queued) - 1 /\ RingAt(read_idx, 0) = read_idx
    BY <2>1, RingFacts
  <2>3. pages[RingAt(read_idx, 0)] = queued[0 + 1]
    BY <2>2 DEF RingInv, RingView
  <2> QED  BY <2>1, <2>2, <2>3
<1> QED  BY <1>1, RingInvariant, PTL

\* The DMA owns no page that is queued or being copied, although a stop leaves
\* pages out that nobody gives back.
THEOREM PagesAreStill == DmicSpec => []PagesStandStill
<1>1. RingInv => PagesStandStill
  <2> SUFFICES ASSUME RingInv PROVE PagesStandStill
    OBVIOUS
  <2>1. /\ oldest \in Page /\ out \in 0 .. NumPages /\ NumPages \in Nat /\ Len(queued) \in Nat
        /\ Len(queued) <= out /\ OutView /\ queued \in Seq(Page)
        /\ reader \in {"load", "store", "copy"} => Len(queued) + 1 <= out
    BY DmicAssumption DEF RingInv, DmicInv, DmicTypeOK, PagesView, Holding
  <2>2. \A k \in 0 .. out - 1 : RingAt(oldest, k) \in PagesOut
    <3>1. \A k \in 0 .. out - 1 : k \in 0 .. NumPages
      BY <2>1
    <3>2. \A k \in 0 .. out - 1 : RingAt(oldest, k) = (oldest + k) % NumPages
      BY <2>1, <3>1, RingModulo
    <3> QED  BY <3>2 DEF PagesOut
  <2>3. ASSUME NEW k \in 1 .. Len(queued) PROVE queued[k] \in PagesOut
    <3>1. out - Len(queued) + k - 1 \in 0 .. out - 1
      BY <2>1
    <3> QED  BY <2>1, <2>2, <3>1 DEF OutView
  <2>4. reader \in {"load", "store", "copy"} => dma_page \in PagesOut
    <3> SUFFICES ASSUME reader \in {"load", "store", "copy"} PROVE dma_page \in PagesOut
      OBVIOUS
    <3>1. out - Len(queued) - 1 \in 0 .. out - 1
      BY <2>1
    <3> QED  BY <2>1, <2>2, <3>1 DEF OutView
  <2>5. DOMAIN queued = 1 .. Len(queued)
    BY <2>1
  <2> QED  BY <2>3, <2>4, <2>5 DEF PagesStandStill
<1> QED  BY <1>1, RingInvariant, PTL
=============================================================================
