----------------------------- MODULE DriverProofs -----------------------------
(***************************************************************************)
(* Safety of the drivers that MCDrivers runs: the SD card driver's mutex,  *)
(* semaphore and answers, for any number of callers                        *)
(* (drivers/disk/sdmmc_amebapro2.c); the GPIO driver's table of pins, for  *)
(* any pins; the flash driver's semaphore, for any number of threads.      *)
(***************************************************************************)
EXTENDS SdDisk, GpioIrq, FlashCtl, FiniteSetTheorems, TLAPS

\* The mutex: its owner is the one call inside, and nobody waits for a mutex
\* that is free.
MutexHeld ==
  \A c \in SdClients : /\ sdClient[c].pc \in SdInside <=> sdOwner = c
                       /\ At(c, "blocked") => sdOwner # SdNobody

\* Where a call stands says what it does and how often it has tried.
CallProgress ==
  \A c \in SdClients :
    LET client == sdClient[c] IN
    /\ client.pc \in {"blocked", "ioctl", "check", "first"} => client.tries = 0
    /\ At(c, "again") => client.tries = 1
    /\ At(c, "wait") => client.tries \in 1..2
    /\ client.pc \in {"first", "wait", "again"} => client.op \in {"read", "write"}
    /\ At(c, "mark") => client.op = "init"
    /\ At(c, "first") => sdCard \/ client.pulled

\* A transfer that is running, or has ended and is not yet looked at, has its
\* caller waiting inside the mutex.
XferIsWaitedFor == sdXfer # "none" => sdOwner \in SdClients /\ At(sdOwner, "wait")

\* Until a wait gives up, sd_sema counts the event of that transfer only.
SemaBelongs ==
  ~sdLate => /\ sdOrphans = 0
             /\ sdSema = 1 => sdXfer \in {"done", "failed"}

\* Between hal_sdhost_init_card and the write of the status the card is ready,
\* or an event has come that the write will hide.
MarkIsEarned ==
  \A c \in SdClients : At(c, "mark") => sdReady \/ sdIrq \/ sdRaced

SdInv ==
  /\ SdTypeOK /\ MutexHeld /\ CallProgress /\ XferIsWaitedFor /\ SemaBelongs
  /\ MarkIsEarned /\ SdSuccessIsReal /\ SdOkMeansReady
-----------------------------------------------------------------------------
LEMMA FreeIsProgress == SdFree \in SdProgress
  BY DEF SdFree, SdProgress, SdInside, SdOps

LEMMA InitSdInv == SdInit => SdInv
<1> SUFFICES ASSUME SdInit PROVE SdInv
  OBVIOUS
<1>1. \A c \in SdClients : sdClient[c] = SdFree
  BY DEF SdInit
<1>2. SdTypeOK
  <2>1. sdClient \in [SdClients -> SdProgress]
    BY FreeIsProgress DEF SdInit
  <2>2. sdOrphans \in 0..SdMaxOrphans
    BY SdAssumption DEF SdInit
  <2>3. sdStatus \in {"OK", "UNINIT", "NOMEDIA"}
    BY DEF SdInit
  <2> QED  BY <2>1, <2>2, <2>3 DEF SdInit, SdTypeOK
<1>3. \A c \in SdClients : /\ sdClient[c].pc = "idle" /\ sdClient[c].tries = 0
                            /\ sdOwner # c
  BY <1>1, SdAssumption DEF SdInit, SdFree
<1>4. MutexHeld /\ CallProgress /\ SdSuccessIsReal /\ MarkIsEarned
  BY <1>3 DEF At, MutexHeld, CallProgress, SdSuccessIsReal, MarkIsEarned, SdInside
<1>5. XferIsWaitedFor /\ SemaBelongs /\ SdOkMeansReady
  BY DEF SdInit, XferIsWaitedFor, SemaBelongs, SdOkMeansReady
<1> QED  BY <1>2, <1>4, <1>5 DEF SdInv

\* Types.  What a step writes into a call's record is again such a record.
SdPlaces == SdInside \cup {"idle", "ioctl", "blocked"}

LEMMA RecordsStay ==
  ASSUME sdClient \in [SdClients -> SdProgress], NEW c \in SdClients, NEW pc \in SdPlaces
  PROVE  /\ Goto(c, pc) => sdClient' \in [SdClients -> SdProgress]
         /\ \A ret \in {"0", "EIO", "ENODEV"} :
              Finish(c, ret) => sdClient' \in [SdClients -> SdProgress]
         /\ \A r \in SdProgress : sdClient' = [sdClient EXCEPT ![c] = r]
                                  => sdClient' \in [SdClients -> SdProgress]
         /\ \A r \in SdProgress : [r EXCEPT !.pc = pc] \in SdProgress
<1>1. ASSUME Goto(c, pc) PROVE sdClient' \in [SdClients -> SdProgress]
  BY <1>1 DEF Goto, SdProgress, SdPlaces
<1>2. ASSUME NEW ret \in {"0", "EIO", "ENODEV"}, Finish(c, ret)
      PROVE  sdClient' \in [SdClients -> SdProgress]
  BY <1>2 DEF Finish, SdProgress, SdInside
<1>3. \A r \in SdProgress : [r EXCEPT !.pc = pc] \in SdProgress
  BY DEF SdProgress, SdPlaces
<1> QED  BY <1>1, <1>2, <1>3

LEMMA EventTypes ==
  SdTypeOK /\ (SdPull \/ SdInsert \/ SdSlotIsr \/ SdDoneEvent \/ SdOrphanEvent) => SdTypeOK'
<1> SUFFICES ASSUME SdTypeOK, SdPull \/ SdInsert \/ SdSlotIsr \/ SdDoneEvent \/ SdOrphanEvent
             PROVE  SdTypeOK'
  OBVIOUS
<1> USE DEF SdTypeOK, sdSlot, sdHal
<1>1. CASE SdPull
  <2>1. \A r \in SdProgress, b \in BOOLEAN : [r EXCEPT !.pulled = b] \in SdProgress
    BY DEF SdProgress
  <2>2. sdClient' \in [SdClients -> SdProgress]
    <3>1. ASSUME NEW c \in SdClients
          PROVE  [sdClient[c] EXCEPT !.pulled = sdClient[c].pc \in SdInside] \in SdProgress
      <4>1. (sdClient[c].pc \in SdInside) \in BOOLEAN
        OBVIOUS
      <4> QED  BY <2>1, <4>1
    <3> QED  BY <1>1, <3>1 DEF SdPull
  <2> QED  BY <1>1, <2>2 DEF SdPull
<1>2. CASE SdInsert
  BY <1>2 DEF SdInsert
<1>3. CASE SdSlotIsr
  BY <1>3 DEF SdSlotIsr
<1>4. CASE SdDoneEvent
  BY <1>4 DEF SdDoneEvent
<1>5. CASE SdOrphanEvent
  BY <1>5, SdAssumption DEF SdOrphanEvent
<1> QED  BY <1>1, <1>2, <1>3, <1>4, <1>5

LEMMA CallTypes ==
  ASSUME SdTypeOK, CallProgress, NEW c \in SdClients,
         SdIoctlDeinit(c) \/ SdStep(c) \/ \E op \in SdOps : SdCall(c, op)
  PROVE  SdTypeOK'
<1> USE SdAssumption DEF SdTypeOK, sdSlot, sdHal
<1>0. /\ SdInside \subseteq SdPlaces /\ {"idle", "ioctl", "blocked"} \subseteq SdPlaces
      /\ {"check", "first", "wait", "again", "mark", "unlock"} \subseteq SdPlaces
  BY DEF SdPlaces, SdInside
<1>a. ASSUME Conclude(c) PROVE sdClient' \in [SdClients -> SdProgress]
  <2>1. CASE sdXfer = "done"
    BY <1>a, <2>1 DEF Conclude, SdProgress, SdInside
  <2> QED  BY <1>0, <1>a, <2>1, RecordsStay DEF Conclude
<1>b. ASSUME Transfer(c), sdClient[c].tries \in 0..1 PROVE sdClient' \in [SdClients -> SdProgress]
  BY <1>b DEF Transfer, SdProgress, SdInside
<1>c. ASSUME NEW r \in SdProgress, EnterMutex(c, r) PROVE sdClient' \in [SdClients -> SdProgress]
  BY <1>0, <1>c, RecordsStay DEF EnterMutex
<1>d. \A op \in SdOps : [SdFree EXCEPT !.op = op] \in SdProgress
  <2>1. \A r \in SdProgress, op \in SdOps : [r EXCEPT !.op = op] \in SdProgress
    BY DEF SdProgress
  <2> QED  BY <2>1, FreeIsProgress
<1>1. CASE SdIoctlDeinit(c)
  <2>1. [SdFree EXCEPT !.pc = "ioctl", !.op = "deinit"] \in SdProgress
    BY FreeIsProgress DEF SdProgress, SdOps
  <2>2. sdClient' \in [SdClients -> SdProgress]
    BY <1>1, <2>1 DEF SdIoctlDeinit
  <2> QED  BY <1>1, <2>2 DEF SdIoctlDeinit
<1>2. CASE SdWoken(c)
  BY <1>2, <1>a DEF SdWoken, Abandon
<1>3. CASE SdTimeout(c)
  BY <1>3, <1>a DEF SdTimeout, Abandon
<1>4. CASE SdLockDeinit(c)
  <2>1. sdClient' \in [SdClients -> SdProgress]
    BY <1>4, <1>c DEF SdLockDeinit
  <2> QED  BY <1>4, <2>1 DEF SdLockDeinit, EnterMutex
<1>5. CASE SdCheck(c)
  <2>1. sdClient' \in [SdClients -> SdProgress]
    BY <1>5, <1>0, RecordsStay DEF SdCheck
  <2> QED  BY <1>5, <2>1 DEF SdCheck
<1>6. CASE SdFirst(c)
  <2>1. sdClient[c].tries \in 0..1
    BY <1>6 DEF SdFirst, CallProgress, At
  <2>2. sdClient' \in [SdClients -> SdProgress]
    BY <1>6, <2>1, <1>b, RecordsStay, <1>0 DEF SdFirst
  <2> QED  BY <1>6, <2>2 DEF SdFirst, Transfer
<1>7. CASE SdAgain(c)
  <2>1. sdClient[c].tries \in 0..1
    BY <1>7 DEF SdAgain, CallProgress, At
  <2>2. sdClient' \in [SdClients -> SdProgress]
    BY <1>7, <2>1, <1>b, RecordsStay, <1>0 DEF SdAgain
  <2> QED  BY <1>7, <2>2 DEF SdAgain, Transfer
<1>8. CASE SdInitCard(c)
  <2>1. sdClient' \in [SdClients -> SdProgress]
    BY <1>8, <1>0, RecordsStay DEF SdInitCard
  <2> QED  BY <1>8, <2>1 DEF SdInitCard
<1>9. CASE SdMark(c)
  <2>1. sdClient' \in [SdClients -> SdProgress]
    BY <1>9, <1>0, RecordsStay DEF SdMark
  <2> QED  BY <1>9, <2>1 DEF SdMark
<1>10. CASE SdDeinit(c)
  <2>1. sdClient' \in [SdClients -> SdProgress]
    BY <1>10, <1>0, RecordsStay DEF SdDeinit
  <2>2. sdOrphans' \in 0..SdMaxOrphans
    BY <1>10 DEF SdDeinit
  <2>3. sdReady' \in BOOLEAN /\ sdRaced' \in BOOLEAN /\ sdXfer' \in {"none", "running", "done", "failed"}
    BY <1>10 DEF SdDeinit
  <2> QED  BY <1>10, <2>1, <2>2, <2>3 DEF SdDeinit
<1>11. CASE SdUnlock(c)
  <2>1. \A d \in SdClients : [sdClient EXCEPT ![c] = SdFree, ![d].pc = "check"]
                              \in [SdClients -> SdProgress]
    BY FreeIsProgress, RecordsStay, <1>0
  <2>2. sdClient' \in [SdClients -> SdProgress]
    BY <1>11, <2>1, FreeIsProgress DEF SdUnlock
  <2> QED  BY <1>11, <2>2 DEF SdUnlock
<1>12. ASSUME NEW op \in SdOps, SdCall(c, op) PROVE SdTypeOK'
  <2>1. sdClient' \in [SdClients -> SdProgress]
    BY <1>12, <1>c, <1>d DEF SdCall
  <2> QED  BY <1>12, <2>1 DEF SdCall, EnterMutex
<1> QED  BY <1>1, <1>2, <1>3, <1>4, <1>5, <1>6, <1>7, <1>8, <1>9, <1>10, <1>11, <1>12
         DEF SdStep
-----------------------------------------------------------------------------
\* The slot, its interrupts and the done events.
LEMMA EventsKeep ==
  SdInv /\ (SdPull \/ SdInsert \/ SdSlotIsr \/ SdDoneEvent \/ SdOrphanEvent) => SdInv'
<1> SUFFICES ASSUME SdInv, SdPull \/ SdInsert \/ SdSlotIsr \/ SdDoneEvent \/ SdOrphanEvent
             PROVE  SdInv'
  OBVIOUS
<1>0. SdTypeOK'
  BY EventTypes DEF SdInv
<1> USE SdAssumption
<1> USE DEF SdInv, SdTypeOK, MutexHeld, CallProgress, XferIsWaitedFor, SemaBelongs,
            MarkIsEarned, SdSuccessIsReal, SdOkMeansReady, At, SdInside, SdNobody, SdProgress,
            sdSlot, sdHal
<1>1. CASE SdPull
  <2>1. ASSUME NEW c \in SdClients
        PROVE  /\ sdClient'[c].pc = sdClient[c].pc /\ sdClient'[c].op = sdClient[c].op
               /\ sdClient'[c].tries = sdClient[c].tries
               /\ sdClient'[c].ret = sdClient[c].ret
               /\ sdClient'[c].moved = sdClient[c].moved
               /\ sdClient'[c].pulled = (sdClient[c].pc \in SdInside)
    <3>1. sdClient'[c] = [sdClient[c] EXCEPT !.pulled = sdClient[c].pc \in SdInside]
      BY <1>1 DEF SdPull
    <3>2. sdClient[c] \in SdProgress
      OBVIOUS
    <3> HIDE DEF SdInside, SdInv
    <3> QED  BY <3>1, <3>2
  <2>2. MutexHeld'
    BY <1>0, <1>1, <2>1 DEF SdPull
  <2>3. CallProgress'
    BY <1>0, <1>1, <2>1 DEF SdPull
  <2>4. XferIsWaitedFor'
    BY <1>0, <1>1, <2>1 DEF SdPull
  <2>5. SemaBelongs'
    BY <1>0, <1>1, <2>1 DEF SdPull
  <2>6. MarkIsEarned'
    BY <1>0, <1>1, <2>1 DEF SdPull
  <2>7. SdSuccessIsReal'
    BY <1>0, <1>1, <2>1 DEF SdPull
  <2>8. SdOkMeansReady'
    BY <1>0, <1>1, <2>1 DEF SdPull
  <2> QED  BY <1>0, <2>2, <2>3, <2>4, <2>5, <2>6, <2>7, <2>8
<1>2. CASE SdInsert
  BY <1>0, <1>2 DEF SdInsert
<1>3. CASE SdSlotIsr
  BY <1>0, <1>3 DEF SdSlotIsr
<1>4. CASE SdDoneEvent
  BY <1>0, <1>4 DEF SdDoneEvent
<1>5. CASE SdOrphanEvent
  BY <1>0, <1>5 DEF SdOrphanEvent
<1> QED  BY <1>1, <1>2, <1>3, <1>4, <1>5

\* One step of one call.
LEMMA CallsKeep ==
  ASSUME SdInv, NEW c \in SdClients,
         SdIoctlDeinit(c) \/ SdStep(c) \/ \E op \in SdOps : SdCall(c, op)
  PROVE  SdInv'
<1>0. SdTypeOK'
  BY CallTypes DEF SdInv
<1> USE SdAssumption
<1> USE DEF SdInv, SdTypeOK, MutexHeld, CallProgress, XferIsWaitedFor, SemaBelongs,
            MarkIsEarned, SdSuccessIsReal, SdOkMeansReady, At, SdInside, SdNobody, SdProgress,
            sdSlot, sdHal
<1>1. CASE SdIoctlDeinit(c)
  <2>1. MutexHeld'
    BY <1>0, <1>1 DEF SdIoctlDeinit, SdFree
  <2>2. CallProgress'
    BY <1>0, <1>1 DEF SdIoctlDeinit, SdFree
  <2>3. XferIsWaitedFor'
    BY <1>0, <1>1 DEF SdIoctlDeinit, SdFree
  <2>4. SemaBelongs'
    BY <1>0, <1>1 DEF SdIoctlDeinit, SdFree
  <2>5. MarkIsEarned'
    BY <1>0, <1>1 DEF SdIoctlDeinit, SdFree
  <2>6. SdSuccessIsReal'
    BY <1>0, <1>1 DEF SdIoctlDeinit, SdFree
  <2>7. SdOkMeansReady'
    BY <1>0, <1>1 DEF SdIoctlDeinit, SdFree
  <2> QED  BY <1>0, <2>1, <2>2, <2>3, <2>4, <2>5, <2>6, <2>7
<1>2. CASE SdWoken(c)
  BY <1>0, <1>2 DEF SdWoken, Conclude, Abandon, Goto, Finish
<1>3. CASE SdTimeout(c)
  BY <1>0, <1>3 DEF SdTimeout, Conclude, Abandon, Goto, Finish
<1>4. CASE SdLockDeinit(c)
  BY <1>0, <1>4 DEF SdLockDeinit, EnterMutex
<1>5. CASE SdCheck(c)
  BY <1>0, <1>5 DEF SdCheck, Goto, Finish
<1>6. CASE SdFirst(c)
  BY <1>0, <1>6 DEF SdFirst, Transfer, Finish
<1>7. CASE SdAgain(c)
  BY <1>0, <1>7 DEF SdAgain, Transfer, Finish
<1>8. CASE SdInitCard(c)
  <2>1. MutexHeld'
    BY <1>0, <1>8 DEF SdInitCard, Goto, Finish
  <2>2. CallProgress'
    BY <1>0, <1>8 DEF SdInitCard, Goto, Finish
  <2>3. XferIsWaitedFor'
    BY <1>0, <1>8 DEF SdInitCard, Goto, Finish
  <2>4. SemaBelongs'
    BY <1>0, <1>8 DEF SdInitCard, Goto, Finish
  <2>5. MarkIsEarned'
    BY <1>0, <1>8 DEF SdInitCard, Goto, Finish
  <2>6. SdSuccessIsReal'
    BY <1>0, <1>8 DEF SdInitCard, Goto, Finish
  <2>7. SdOkMeansReady'
    BY <1>0, <1>8 DEF SdInitCard, Goto, Finish
  <2> QED  BY <1>0, <2>1, <2>2, <2>3, <2>4, <2>5, <2>6, <2>7
<1>9. CASE SdMark(c)
  <2>1. MutexHeld'
    BY <1>0, <1>9 DEF SdMark, Finish
  <2>2. CallProgress'
    BY <1>0, <1>9 DEF SdMark, Finish
  <2>3. XferIsWaitedFor'
    BY <1>0, <1>9 DEF SdMark, Finish
  <2>4. SemaBelongs'
    BY <1>0, <1>9 DEF SdMark, Finish
  <2>5. MarkIsEarned'
    BY <1>0, <1>9 DEF SdMark, Finish
  <2>6. SdSuccessIsReal'
    BY <1>0, <1>9 DEF SdMark, Finish
  <2>7. SdOkMeansReady'
    BY <1>0, <1>9 DEF SdMark, Finish
  <2> QED  BY <1>0, <2>1, <2>2, <2>3, <2>4, <2>5, <2>6, <2>7
<1>10. CASE SdDeinit(c)
  <2>1. MutexHeld'
    BY <1>0, <1>10 DEF SdDeinit, Finish
  <2>2. CallProgress'
    BY <1>0, <1>10 DEF SdDeinit, Finish
  <2>3. XferIsWaitedFor'
    BY <1>0, <1>10 DEF SdDeinit, Finish
  <2>4. SemaBelongs'
    BY <1>0, <1>10 DEF SdDeinit, Finish
  <2>5. MarkIsEarned'
    BY <1>0, <1>10 DEF SdDeinit, Finish
  <2>6. SdSuccessIsReal'
    BY <1>0, <1>10 DEF SdDeinit, Finish
  <2>7. SdOkMeansReady'
    BY <1>0, <1>10 DEF SdDeinit, Finish
  <2> QED  BY <1>0, <2>1, <2>2, <2>3, <2>4, <2>5, <2>6, <2>7
<1>11. CASE SdUnlock(c)
  <2>1. CASE \A d \in SdClients : ~At(d, "blocked")
    BY <1>0, <1>11, <2>1 DEF SdUnlock, SdFree
  <2>2. ASSUME NEW d \in SdClients, At(d, "blocked"), sdOwner' = d,
               sdClient' = [sdClient EXCEPT ![c] = SdFree, ![d].pc = "check"]
        PROVE  SdInv'
    <3>1. c # d /\ sdOwner = c
      BY <1>11, <2>2 DEF SdUnlock
    <3>2. sdClient'[d] = [sdClient[d] EXCEPT !.pc = "check"] /\ sdClient'[c] = SdFree
      BY <2>2, <3>1
    <3>3. \A e \in SdClients \ {c, d} : sdClient'[e] = sdClient[e]
      BY <2>2
    <3>4. MutexHeld'
      BY <1>0, <1>11, <2>2, <3>1, <3>2, <3>3 DEF SdUnlock, SdFree, SdProgress
    <3>5. CallProgress'
      BY <1>0, <1>11, <2>2, <3>1, <3>2, <3>3 DEF SdUnlock, SdFree, SdProgress
    <3>6. XferIsWaitedFor'
      BY <1>0, <1>11, <2>2, <3>1, <3>2, <3>3 DEF SdUnlock, SdFree, SdProgress
    <3>7. SemaBelongs'
      BY <1>0, <1>11, <2>2, <3>1, <3>2, <3>3 DEF SdUnlock, SdFree, SdProgress
    <3>8. MarkIsEarned'
      BY <1>0, <1>11, <2>2, <3>1, <3>2, <3>3 DEF SdUnlock, SdFree, SdProgress
    <3>9. SdSuccessIsReal'
      BY <1>0, <1>11, <2>2, <3>1, <3>2, <3>3 DEF SdUnlock, SdFree, SdProgress
    <3>10. SdOkMeansReady'
      BY <1>0, <1>11, <2>2, <3>1, <3>2, <3>3 DEF SdUnlock, SdFree, SdProgress
    <3> QED  BY <1>0, <3>4, <3>5, <3>6, <3>7, <3>8, <3>9, <3>10
  <2> QED  BY <1>11, <2>1, <2>2 DEF SdUnlock
<1>12. ASSUME NEW op \in SdOps, SdCall(c, op) PROVE SdInv'
  <2>1. /\ sdClient[c].pc = "idle" /\ sdClient'[c].tries = 0
        /\ \/ sdOwner = SdNobody /\ sdOwner' = c /\ sdClient'[c].pc = "check"
           \/ sdOwner # SdNobody /\ sdOwner' = sdOwner /\ sdClient'[c].pc = "blocked"
    <3>1. \A r \in SdProgress : /\ [r EXCEPT !.op = op] \in SdProgress
                                /\ [r EXCEPT !.op = op].tries = r.tries
      OBVIOUS
    <3>2. SdFree \in SdProgress /\ SdFree.tries = 0
      BY FreeIsProgress DEF SdFree
    <3>3. PICK r \in SdProgress : r.tries = 0 /\ EnterMutex(c, r)
      BY <1>12, <3>1, <3>2 DEF SdCall
    <3>4. sdClient[c].pc = "idle"
      BY <1>12 DEF SdCall
    <3>5. CASE sdOwner = SdNobody
      BY <3>3, <3>4, <3>5 DEF EnterMutex
    <3>6. CASE sdOwner # SdNobody
      BY <3>3, <3>4, <3>6 DEF EnterMutex
    <3> QED  BY <3>5, <3>6
  <2>2. \A d \in SdClients \ {c} : sdClient'[d] = sdClient[d]
    BY <1>12 DEF SdCall, EnterMutex
  <2>3. MutexHeld'
    BY <1>0, <1>12, <2>1, <2>2 DEF SdCall
  <2>4. CallProgress'
    BY <1>0, <1>12, <2>1, <2>2 DEF SdCall
  <2>5. XferIsWaitedFor'
    BY <1>0, <1>12, <2>1, <2>2 DEF SdCall
  <2>6. SemaBelongs'
    BY <1>0, <1>12, <2>1, <2>2 DEF SdCall
  <2>7. MarkIsEarned'
    BY <1>0, <1>12, <2>1, <2>2 DEF SdCall
  <2>8. SdSuccessIsReal'
    BY <1>0, <1>12, <2>1, <2>2 DEF SdCall
  <2>9. SdOkMeansReady'
    BY <1>0, <1>12, <2>1, <2>2 DEF SdCall
  <2> QED  BY <1>0, <2>3, <2>4, <2>5, <2>6, <2>7, <2>8, <2>9
<1> QED  BY <1>1, <1>2, <1>3, <1>4, <1>5, <1>6, <1>7, <1>8, <1>9, <1>10, <1>11, <1>12
         DEF SdStep

LEMMA SdInvStep == SdInv /\ [SdNext]_sdVars => SdInv'
<1> SUFFICES ASSUME SdInv, [SdNext]_sdVars PROVE SdInv'
  OBVIOUS
<1>1. CASE SdNext
  BY <1>1, EventsKeep, CallsKeep DEF SdNext
<1>2. CASE UNCHANGED sdVars
  BY <1>2 DEF SdInv, SdTypeOK, MutexHeld, CallProgress, XferIsWaitedFor, SemaBelongs,
              MarkIsEarned, SdSuccessIsReal, SdOkMeansReady, At, sdVars
<1> QED  BY <1>1, <1>2

LEMMA AlwaysSdInv == SdSpec => []SdInv
<1>1. SdInit => SdInv
  BY InitSdInv
<1>2. SdInv /\ [SdNext]_sdVars => SdInv'
  BY SdInvStep
<1> QED  BY <1>1, <1>2, PTL DEF SdSpec
-----------------------------------------------------------------------------
\* The driver's words keep their types: sd_sema never exceeds one unit and a
\* call tries at most twice (amebapro2_sdmmc_access_read, _write).
THEOREM SdTypeCorrect == SdSpec => []SdTypeOK
<1>1. SdInv => SdTypeOK
  BY DEF SdInv
<1> QED  BY <1>1, AlwaysSdInv, PTL

\* sd_mutex: of any number of callers one at most is inside a read, a write,
\* an initialisation or a de-initialisation.
THEOREM SdOneInside ==
  SdSpec => [](\A c, d \in SdClients :
                 sdClient[c].pc \in SdInside /\ sdClient[d].pc \in SdInside => c = d)
<1>1. SdInv => \A c, d \in SdClients :
                 sdClient[c].pc \in SdInside /\ sdClient[d].pc \in SdInside => c = d
  BY DEF SdInv, MutexHeld
<1> QED  BY <1>1, AlwaysSdInv, PTL

\* No caller is woken by the transfer of another, until some wait has given
\* up (sdio_done_event, sdio_task_wait).
THEOREM SdWokenByOwnTransfer == SdSpec => []SdNoEarlyWake
<1>1. SdInv => SdNoEarlyWake
  BY DEF SdInv, SemaBelongs, XferIsWaitedFor, SdNoEarlyWake
<1> QED  BY <1>1, AlwaysSdInv, PTL

\* An answer of 0 to a read or a write means that the sectors were moved, or
\* that a read's card was pulled under it; late done events change nothing.
THEOREM SdSuccessesAreReal == SdSpec => []SdSuccessIsReal
<1>1. SdInv => SdSuccessIsReal
  BY DEF SdInv
<1> QED  BY <1>1, AlwaysSdInv, PTL

\* The status OK is backed by an initialised card, up to the two races of the
\* events and of the ioctl that write it without the mutex.
THEOREM SdOkIsReady == SdSpec => []SdOkMeansReady
<1>1. SdInv => SdOkMeansReady
  BY DEF SdInv
<1> QED  BY <1>1, AlwaysSdInv, PTL
-----------------------------------------------------------------------------
\* A caller that waits for sd_mutex waits for another that is inside, and that
\* is therefore not waiting for the mutex itself: no two calls wait for each
\* other, and the mutex is never taken behind a caller that has gone.
SdBlockedIsServed ==
  \A c \in SdClients : At(c, "blocked") =>
    \E d \in SdClients \ {c} : sdOwner = d /\ sdClient[d].pc \in SdInside

\* For any number of callers of the disk, sd_mutex has an owner that goes on.
THEOREM SdBlockedAreServed == SdSpec => []SdBlockedIsServed
<1>1. SdInv => SdBlockedIsServed
  <2> SUFFICES ASSUME SdInv, NEW c \in SdClients, At(c, "blocked")
               PROVE  \E d \in SdClients \ {c} : sdOwner = d /\ sdClient[d].pc \in SdInside
    BY DEF SdBlockedIsServed
  <2>1. sdOwner \in SdClients
    BY DEF SdInv, SdTypeOK, MutexHeld
  <2>2. sdClient[sdOwner].pc \in SdInside /\ sdClient[c].pc \notin SdInside
    BY <2>1 DEF SdInv, MutexHeld, At, SdInside
  <2> QED  BY <2>1, <2>2
<1> QED  BY <1>1, AlwaysSdInv, PTL

\* How many steps of a call are left where it stands.
StepsFrom(pc, tries) ==
  CASE pc = "idle"    -> 0
    [] pc = "unlock"  -> 1
    [] pc = "mark"    -> 2
    [] pc = "wait"    -> IF tries = 1 THEN 4 ELSE 2
    [] pc = "again"   -> 3
    [] pc = "first"   -> 5
    [] pc = "check"   -> 6
    [] pc = "blocked" -> 7
    [] pc = "ioctl"   -> 8

SdLeft(c) == StepsFrom(sdClient[c].pc, sdClient[c].tries)

\* A call only ever gets shorter: no step of the card, of an interrupt, of the
\* hardware or of another caller sends it back, and each step of its own, or
\* the hand-over of the mutex, shortens it (eight steps at most).
SdCallsShorten ==
  [][\A c \in SdClients :
       ~At(c, "idle") => SdLeft(c)' =< SdLeft(c)
                         /\ (sdClient'[c].pc # sdClient[c].pc => SdLeft(c)' < SdLeft(c))]_sdVars

LEMMA LeftStays ==
  ASSUME SdTypeOK, NEW c \in SdClients,
         sdClient'[c].pc = sdClient[c].pc, sdClient'[c].tries = sdClient[c].tries
  PROVE  SdLeft(c)' =< SdLeft(c)
<1>1. SdLeft(c)' = SdLeft(c)
  BY DEF SdLeft
<1>2. SdLeft(c) \in Int
  BY DEF SdLeft, StepsFrom, SdTypeOK, SdProgress, SdInside
<1> QED  BY <1>1, <1>2

\* A caller's step leaves the others where they are, unless it hands one of
\* them the mutex.
LEMMA OthersStay ==
  ASSUME SdTypeOK, NEW c \in SdClients, NEW d \in SdClients \ {c},
         SdIoctlDeinit(d) \/ SdStep(d) \/ \E op \in SdOps : SdCall(d, op)
  PROVE  \/ sdClient'[c] = sdClient[c]
         \/ At(c, "blocked") /\ sdClient'[c].pc = "check"
<1> USE DEF SdTypeOK
<1>1. CASE SdUnlock(d)
  BY <1>1 DEF SdUnlock, At, SdProgress
<1>2. CASE SdIoctlDeinit(d) \/ SdLockDeinit(d) \/ \E op \in SdOps : SdCall(d, op)
  BY <1>2 DEF SdIoctlDeinit, SdLockDeinit, SdCall, EnterMutex
<1>3. CASE SdWoken(d) \/ SdTimeout(d)
  BY <1>3 DEF SdWoken, SdTimeout, Conclude, Goto, Finish
<1>4. CASE SdFirst(d) \/ SdAgain(d)
  BY <1>4 DEF SdFirst, SdAgain, Transfer, Finish
<1>5. CASE SdCheck(d) \/ SdInitCard(d) \/ SdMark(d) \/ SdDeinit(d)
  BY <1>5 DEF SdCheck, SdInitCard, SdMark, SdDeinit, Goto, Finish
<1> QED  BY <1>1, <1>2, <1>3, <1>4, <1>5 DEF SdStep

\* A caller's own step brings it nearer to its end.
LEMMA OwnStepShortens ==
  ASSUME SdInv, NEW c \in SdClients, SdStep(c)
  PROVE  SdLeft(c)' < SdLeft(c)
<1> USE DEF SdInv, SdTypeOK, SdProgress, SdLeft, StepsFrom, At
<1>1. CASE SdWoken(c) \/ SdTimeout(c)
  <2>1. At(c, "wait") /\ sdClient[c].tries \in 1..2
    BY <1>1 DEF SdWoken, SdTimeout, CallProgress
  <2>2. IF sdClient[c].tries = 1 THEN sdClient'[c].pc \in {"unlock", "again"}
                                 ELSE sdClient'[c].pc = "unlock"
    BY <1>1 DEF SdWoken, SdTimeout, Conclude, Goto, Finish
  <2> QED  BY <2>1, <2>2
<1>2. CASE SdFirst(c) \/ SdAgain(c)
  <2>1. \/ At(c, "first") /\ sdClient[c].tries = 0
        \/ At(c, "again") /\ sdClient[c].tries = 1
    BY <1>2 DEF SdFirst, SdAgain, CallProgress
  <2>2. \/ sdClient'[c].pc = "unlock"
        \/ sdClient'[c].pc = "wait" /\ sdClient'[c].tries = sdClient[c].tries + 1
        \/ sdClient'[c].pc = "again" /\ sdClient[c].tries = 0
    BY <1>2, <2>1 DEF SdFirst, SdAgain, Transfer, Finish
  <2> QED  BY <2>1, <2>2
<1>3. CASE SdCheck(c) \/ SdInitCard(c) \/ SdMark(c) \/ SdDeinit(c)
  <2>1. \/ At(c, "check") /\ sdClient'[c].pc \in {"first", "mark", "unlock"}
        \/ At(c, "mark") /\ sdClient'[c].pc = "unlock"
    BY <1>3 DEF SdCheck, SdInitCard, SdMark, SdDeinit, Goto, Finish
  <2> QED  BY <2>1
<1>4. CASE SdLockDeinit(c)
  <2>1. At(c, "ioctl") /\ sdClient'[c].pc \in {"check", "blocked"}
    BY <1>4 DEF SdLockDeinit, EnterMutex
  <2> QED  BY <2>1
<1>5. CASE SdUnlock(c)
  <2>1. At(c, "unlock") /\ sdClient'[c].pc = "idle"
    BY <1>5 DEF SdUnlock, SdFree
  <2> QED  BY <2>1
<1> QED  BY <1>1, <1>2, <1>3, <1>4, <1>5 DEF SdStep

\* So every call returns if its caller goes on, whatever the card does: what
\* SdCallsReturn needs besides fairness, for any number of callers.
THEOREM SdCallsGetShorter == SdSpec => SdCallsShorten
<1> DEFINE Shorter(c) == SdLeft(c)' =< SdLeft(c)
                         /\ (sdClient'[c].pc # sdClient[c].pc => SdLeft(c)' < SdLeft(c))
<1>1. ASSUME SdInv, SdNext, NEW c \in SdClients, ~At(c, "idle") PROVE Shorter(c)
  <2>1. CASE SdPull \/ SdInsert \/ SdSlotIsr \/ SdDoneEvent \/ SdOrphanEvent
    <3>1. sdClient'[c].pc = sdClient[c].pc /\ sdClient'[c].tries = sdClient[c].tries
      BY <1>1, <2>1 DEF SdPull, SdInsert, SdSlotIsr, SdDoneEvent, SdOrphanEvent, SdInv,
                        SdTypeOK, SdProgress
    <3> QED  BY <1>1, <3>1, LeftStays DEF SdInv
  <2>2. ASSUME NEW d \in SdClients \ {c},
               SdIoctlDeinit(d) \/ SdStep(d) \/ \E op \in SdOps : SdCall(d, op)
        PROVE  Shorter(c)
    <3>1. CASE sdClient'[c] = sdClient[c]
      BY <1>1, <3>1, LeftStays DEF SdInv
    <3>2. CASE At(c, "blocked") /\ sdClient'[c].pc = "check"
      BY <3>2 DEF SdLeft, StepsFrom, At
    <3> QED  BY <1>1, <2>2, <3>1, <3>2, OthersStay DEF SdInv
  <2>3. CASE SdStep(c)
    <3>1. SdLeft(c)' < SdLeft(c)
      BY <1>1, <2>3, OwnStepShortens
    <3>2. SdLeft(c) \in Int /\ SdLeft(c)' \in Int
      BY <1>1, SdInvStep DEF SdInv, SdLeft, StepsFrom, SdTypeOK, SdProgress, SdInside
    <3> QED  BY <3>1, <3>2
  <2>4. CASE SdIoctlDeinit(c) \/ \E op \in SdOps : SdCall(c, op)
    BY <1>1, <2>4 DEF SdIoctlDeinit, SdCall
  <2> QED  BY <1>1, <2>1, <2>2, <2>3, <2>4 DEF SdNext
<1>2. SdInv /\ [SdNext]_sdVars
        => [\A c \in SdClients : ~At(c, "idle") => Shorter(c)]_sdVars
  BY <1>1
<1> QED  BY <1>2, AlwaysSdInv, PTL DEF SdSpec, SdCallsShorten
-----------------------------------------------------------------------------
GpioTypes ==
  /\ gpioTable \in Seq(GpioPins)
  /\ gpioNumbers \in [Controllers -> Seq(GpioPins)]
  /\ gpioArmed \subseteq GpioPins
  /\ gpioStatus \in [Controllers -> SUBSET Nat]

\* The table, read by counting a controller's slots, and the HAL's numbering
\* of that controller's pins are the same list.
SameOrder ==
  \A k \in Controllers :
    /\ Len(gpioNumbers[k]) = Before(k, Len(gpioTable) + 1)
    /\ \A i \in 1..Len(gpioTable) :
         Serves(k, gpioTable[i]) =>
           /\ Before(k, i) + 1 \in 1..Len(gpioNumbers[k])
           /\ gpioNumbers[k][Before(k, i) + 1] = gpioTable[i]
    /\ \A n \in 1..Len(gpioNumbers[k]) :
         \E i \in 1..Len(gpioTable) : Serves(k, gpioTable[i]) /\ Before(k, i) + 1 = n

\* Only interrupts that have a number are raised.
StatusNumbered ==
  \A k \in Controllers : \A n \in gpioStatus[k] : n + 1 \in 1..Len(gpioNumbers[k])

GpioInv == GpioTypes /\ SameOrder /\ StatusNumbered /\ GpioFiresItsCause
-----------------------------------------------------------------------------
\* Counting slots.
CountedIn(k, table, i) == {j \in 1..i - 1 : Serves(k, table[j])}

LEMMA CountIsNat ==
  ASSUME NEW k, NEW table, NEW i \in Nat
  PROVE  IsFiniteSet(CountedIn(k, table, i)) /\ Cardinality(CountedIn(k, table, i)) \in Nat
<1>1. IsFiniteSet(1..i - 1)
  BY FS_Interval
<1>2. CountedIn(k, table, i) \subseteq 1..i - 1
  BY DEF CountedIn
<1> QED  BY <1>1, <1>2, FS_Subset, FS_CardinalityType

\* A new slot changes no count before it, and is counted after it once if the
\* controller serves it.
LEMMA CountAfterAppend ==
  ASSUME NEW k, NEW table \in Seq(GpioPins), NEW pin \in GpioPins
  PROVE  /\ \A i \in 1..Len(table) + 1 :
              CountedIn(k, Append(table, pin), i) = CountedIn(k, table, i)
         /\ Cardinality(CountedIn(k, Append(table, pin), Len(table) + 2))
              = Cardinality(CountedIn(k, table, Len(table) + 1)) + IF Serves(k, pin) THEN 1 ELSE 0
<1> DEFINE longer == Append(table, pin)
           last == Len(table) + 1
           counted == CountedIn(k, table, last)
<1>1. /\ Len(table) \in Nat /\ longer[last] = pin
      /\ \A j \in 1..Len(table) : longer[j] = table[j]
  OBVIOUS
<1>0. Len(table) + 2 = last + 1 /\ Len(table) + 1 = last
  BY <1>1
<1>2. \A i \in 1..last : CountedIn(k, longer, i) = CountedIn(k, table, i)
  <2> SUFFICES ASSUME NEW i \in 1..last PROVE CountedIn(k, longer, i) = CountedIn(k, table, i)
    OBVIOUS
  <2>1. \A j \in 1..i - 1 : longer[j] = table[j]
    BY <1>1
  <2> QED  BY <2>1 DEF CountedIn
<1>3. /\ \A j \in 1..last : j \in CountedIn(k, longer, last + 1) <=> Serves(k, longer[j])
      /\ \A j \in CountedIn(k, longer, last + 1) : j \in 1..last
      /\ \A j \in 1..Len(table) : j \in counted <=> Serves(k, table[j])
      /\ \A j \in counted : j \in 1..Len(table)
  BY <1>1 DEF CountedIn
<1>4. IsFiniteSet(counted) /\ Cardinality(counted) \in Nat /\ last \notin counted
  BY <1>1, <1>3, CountIsNat
<1>5. CASE Serves(k, pin)
  <2>1. CountedIn(k, longer, last + 1) = counted \cup {last}
    <3> HIDE DEF counted, longer
    <3> QED  BY <1>1, <1>3, <1>5
  <2>2. Cardinality(counted \cup {last}) = Cardinality(counted) + 1
    BY <1>4, FS_AddElement
  <2> QED  BY <1>0, <1>2, <1>5, <2>1, <2>2
<1>6. CASE ~Serves(k, pin)
  <2>1. CountedIn(k, longer, last + 1) = counted
    <3>1. last \notin CountedIn(k, longer, last + 1) /\ \A j \in 1..last : j # last => j \in 1..Len(table)
      BY <1>1, <1>3, <1>6
    <3>2. \A j \in 1..Len(table) : j \in 1..last /\ Serves(k, longer[j]) = Serves(k, table[j])
      BY <1>1
    <3> HIDE DEF counted, longer, last
    <3> QED  BY <1>3, <3>1, <3>2
  <2> QED  BY <1>0, <1>2, <1>4, <1>6, <2>1
<1> QED  BY <1>5, <1>6, <1>2

\* The same, in the words of the module.
LEMMA CountedBefore ==
  ASSUME NEW k, NEW i \in Nat
  PROVE  /\ Before(k, i) = Cardinality(CountedIn(k, gpioTable, i))
         /\ Before(k, i) \in Nat
<1>1. Before(k, i) = Cardinality(CountedIn(k, gpioTable, i))
  BY DEF Before, CountedIn
<1> QED  BY <1>1, CountIsNat

LEMMA BeforeAfterAppend ==
  ASSUME NEW k, gpioTable \in Seq(GpioPins), NEW pin \in GpioPins,
         gpioTable' = Append(gpioTable, pin)
  PROVE  /\ \A i \in 1..Len(gpioTable) + 1 : Before(k, i)' = Before(k, i) /\ Before(k, i) \in Nat
         /\ \A i : i = Len(gpioTable) + 2 =>
              Before(k, i)' = Before(k, Len(gpioTable) + 1) + IF Serves(k, pin) THEN 1 ELSE 0
<1>1. \A i : /\ Before(k, i) = Cardinality(CountedIn(k, gpioTable, i))
             /\ Before(k, i)' = Cardinality(CountedIn(k, gpioTable', i))
  BY DEF Before, CountedIn
<1>2. /\ \A i \in 1..Len(gpioTable) + 1 : i \in Nat
      /\ Len(gpioTable) + 1 \in 1..Len(gpioTable) + 1
  OBVIOUS
<1>3. \A i \in 1..Len(gpioTable) + 1 : Before(k, i) \in Nat
  BY <1>2, CountedBefore
<1>4. /\ \A i \in 1..Len(gpioTable) + 1 :
           CountedIn(k, Append(gpioTable, pin), i) = CountedIn(k, gpioTable, i)
      /\ Cardinality(CountedIn(k, Append(gpioTable, pin), Len(gpioTable) + 2))
           = Cardinality(CountedIn(k, gpioTable, Len(gpioTable) + 1)) + IF Serves(k, pin) THEN 1 ELSE 0
  BY CountAfterAppend
<1> QED  BY ONLY <1>1, <1>2, <1>3, <1>4, gpioTable' = Append(gpioTable, pin)
-----------------------------------------------------------------------------
LEMMA GpioInitially == GpioInit => GpioInv
<1> SUFFICES ASSUME GpioInit PROVE GpioInv
  OBVIOUS
<1> USE DEF GpioInit
<1>1. GpioTypes
  BY DEF GpioTypes
<1>2. SameOrder
  <2> SUFFICES ASSUME NEW k \in Controllers PROVE Before(k, 1) = 0
    BY DEF SameOrder
  <2>1. {j \in 1..1 - 1 : Serves(k, gpioTable[j])} = {}
    OBVIOUS
  <2> QED  BY <2>1, FS_EmptySet DEF Before
<1>3. StatusNumbered /\ GpioFiresItsCause
  BY DEF StatusNumbered, GpioFiresItsCause
<1> QED  BY <1>1, <1>2, <1>3 DEF GpioInv

\* A pin has the HAL's number exactly when it has a slot.
LEMMA NumberedIffTabled ==
  ASSUME GpioTypes, SameOrder, NEW k \in Controllers, NEW pin, Serves(k, pin)
  PROVE  pin \in ToSet(gpioTable) <=> pin \in ToSet(gpioNumbers[k])
<1>1. /\ ToSet(gpioTable) = {gpioTable[i] : i \in 1..Len(gpioTable)}
      /\ ToSet(gpioNumbers[k]) = {gpioNumbers[k][i] : i \in 1..Len(gpioNumbers[k])}
  BY DEF ToSet, GpioTypes
<1>2. ASSUME pin \in ToSet(gpioTable) PROVE pin \in ToSet(gpioNumbers[k])
  BY <1>1, <1>2 DEF SameOrder
<1>3. ASSUME pin \in ToSet(gpioNumbers[k]) PROVE pin \in ToSet(gpioTable)
  <2>1. PICK n \in 1..Len(gpioNumbers[k]) : pin = gpioNumbers[k][n]
    BY <1>1, <1>3
  <2>2. PICK i \in 1..Len(gpioTable) : Serves(k, gpioTable[i]) /\ Before(k, i) + 1 = n
    BY DEF SameOrder
  <2>3. gpioTable[i] = pin
    BY <2>1, <2>2 DEF SameOrder
  <2> QED  BY <1>1, <2>3
<1> QED  BY <1>2, <1>3

\* Looking a configured pin up again, and giving a new one its slot and number.
LEMMA ConfigureKeepsOrder ==
  ASSUME GpioInv, NEW pin \in GpioPins, NEW valid \in BOOLEAN, GpioConfigure(pin, valid)
  PROVE  /\ gpioTable' \in Seq(GpioPins)
         /\ gpioNumbers' \in [Controllers -> Seq(GpioPins)]
         /\ SameOrder'
         /\ \A k \in Controllers : Len(gpioNumbers[k]) <= Len(gpioNumbers'[k])
<1> USE DEF GpioInv
<1>0. /\ gpioTable \in Seq(GpioPins) /\ gpioNumbers \in [Controllers -> Seq(GpioPins)]
      /\ gpioTable' = Tabled(pin)
      /\ gpioNumbers' = [k \in Controllers |->
                           IF Serves(k, pin) THEN Numbered(k, pin) ELSE gpioNumbers[k]]
  BY DEF GpioTypes, GpioConfigure
<1>1. CASE pin \in ToSet(gpioTable)
  <2>1. gpioTable' = gpioTable
    BY <1>0, <1>1 DEF Tabled
  <2>2. \A k \in Controllers : gpioNumbers'[k] = gpioNumbers[k]
    BY <1>0, <1>1, NumberedIffTabled DEF Numbered
  <2>3. gpioNumbers' = gpioNumbers
    BY <1>0, <2>2
  <2>4. \A k \in Controllers : \A i : Before(k, i)' = Before(k, i)
    BY <2>1 DEF Before
  <2>5. \A k \in Controllers : Before(k, Len(gpioTable) + 1)' = Before(k, Len(gpioTable) + 1)
    BY <2>1 DEF Before
  <2>6. SameOrder'
    BY <2>1, <2>3, <2>4, <2>5 DEF SameOrder
  <2> QED  BY <1>0, <2>1, <2>3, <2>6, \A k \in Controllers : Len(gpioNumbers[k]) \in Nat
<1>2. CASE pin \notin ToSet(gpioTable)
  <2>1. gpioTable' = Append(gpioTable, pin)
    BY <1>0, <1>2 DEF Tabled
  <2>2. \A k \in Controllers :
          gpioNumbers'[k] = IF Serves(k, pin) THEN Append(gpioNumbers[k], pin) ELSE gpioNumbers[k]
    BY <1>0, <1>2, NumberedIffTabled DEF Numbered
  <2>3. /\ gpioTable' \in Seq(GpioPins) /\ gpioNumbers' \in [Controllers -> Seq(GpioPins)]
        /\ \A k \in Controllers : Len(gpioNumbers[k]) <= Len(gpioNumbers'[k])
    <3>1. ASSUME NEW k \in Controllers
          PROVE  /\ gpioNumbers'[k] \in Seq(GpioPins)
                 /\ Len(gpioNumbers[k]) <= Len(gpioNumbers'[k])
      <4>1. gpioNumbers[k] \in Seq(GpioPins) /\ Len(gpioNumbers[k]) \in Nat
        BY <1>0
      <4>2. /\ Append(gpioNumbers[k], pin) \in Seq(GpioPins)
            /\ Len(Append(gpioNumbers[k], pin)) = Len(gpioNumbers[k]) + 1
        BY <4>1
      <4>3. gpioNumbers'[k] = gpioNumbers[k] \/ gpioNumbers'[k] = Append(gpioNumbers[k], pin)
        BY <2>2
      <4> QED  BY <4>1, <4>2, <4>3
    <3> QED  BY <1>0, <2>1, <3>1
  <2>4. ASSUME NEW k \in Controllers
        PROVE /\ Len(gpioNumbers'[k]) = Before(k, Len(gpioTable) + 1)'
              /\ \A i \in 1..Len(gpioTable') :
                   Serves(k, gpioTable'[i]) =>
                     /\ Before(k, i)' + 1 \in 1..Len(gpioNumbers'[k])
                     /\ gpioNumbers'[k][Before(k, i)' + 1] = gpioTable'[i]
              /\ \A n \in 1..Len(gpioNumbers'[k]) :
                   \E i \in 1..Len(gpioTable') :
                     Serves(k, gpioTable'[i]) /\ Before(k, i)' + 1 = n
    <3>0. PICK len \in Nat : len = Len(gpioTable)
      BY <1>0
    <3> DEFINE last == len + 1
    <3>1. /\ len \in Nat /\ Len(gpioTable') = last /\ gpioTable'[last] = pin
          /\ \A i \in 1..len : gpioTable'[i] = gpioTable[i]
      BY <1>0, <2>1, <3>0
    <3>2. /\ \A i \in 1..last : Before(k, i)' = Before(k, i) /\ Before(k, i) \in Nat
          /\ Before(k, last + 1)' = Before(k, last) + IF Serves(k, pin) THEN 1 ELSE 0
      <4>1. last + 1 = Len(gpioTable) + 2 /\ last = Len(gpioTable) + 1
        BY <3>0, <3>1
      <4>2. /\ \A i \in 1..Len(gpioTable) + 1 : Before(k, i)' = Before(k, i) /\ Before(k, i) \in Nat
            /\ \A i : i = Len(gpioTable) + 2 =>
                 Before(k, i)' = Before(k, Len(gpioTable) + 1) + IF Serves(k, pin) THEN 1 ELSE 0
        BY <1>0, <2>1, BeforeAfterAppend
      <4> HIDE DEF last
      <4> QED  BY <4>1, <4>2
    <3>3. /\ Len(gpioNumbers[k]) = Before(k, last)
          /\ \A i \in 1..len : Serves(k, gpioTable[i]) =>
               /\ Before(k, i) + 1 \in 1..Len(gpioNumbers[k])
               /\ gpioNumbers[k][Before(k, i) + 1] = gpioTable[i]
          /\ \A n \in 1..Len(gpioNumbers[k]) :
               \E i \in 1..len : Serves(k, gpioTable[i]) /\ Before(k, i) + 1 = n
      <4>1. last = Len(gpioTable) + 1
        BY <3>0
      <4> HIDE DEF last
      <4> QED  BY <3>0, <4>1 DEF SameOrder
    <3>4. /\ gpioNumbers[k] \in Seq(GpioPins) /\ Len(gpioNumbers[k]) \in Nat
      BY <1>0
    <3>5. CASE Serves(k, pin)
      <4>1. /\ Len(gpioNumbers'[k]) = Len(gpioNumbers[k]) + 1
            /\ gpioNumbers'[k][Len(gpioNumbers[k]) + 1] = pin
            /\ \A n \in 1..Len(gpioNumbers[k]) : gpioNumbers'[k][n] = gpioNumbers[k][n]
        <5>1. gpioNumbers'[k] = Append(gpioNumbers[k], pin)
          BY <2>2, <3>5
        <5> QED  BY <3>4, <5>1
      <4>2. /\ \A i \in 1..last : i = last \/ i \in 1..len
            /\ last \in 1..last /\ \A i \in 1..len : i \in 1..last
        BY <3>1
      <4>3. /\ \A n \in 1..Len(gpioNumbers'[k]) :
                 n = Len(gpioNumbers[k]) + 1 \/ n \in 1..Len(gpioNumbers[k])
            /\ Len(gpioNumbers[k]) + 1 \in 1..Len(gpioNumbers'[k])
            /\ \A n \in 1..Len(gpioNumbers[k]) : n \in 1..Len(gpioNumbers'[k])
        BY <3>4, <4>1
      <4>4. Len(gpioNumbers'[k]) = Before(k, Len(gpioTable) + 1)'
        BY <3>1, <3>2, <3>3, <3>5, <4>1
      <4>5. ASSUME NEW i \in 1..last, Serves(k, gpioTable'[i])
            PROVE  /\ Before(k, i)' + 1 \in 1..Len(gpioNumbers'[k])
                   /\ gpioNumbers'[k][Before(k, i)' + 1] = gpioTable'[i]
        <5>1. CASE i = last
          BY <3>1, <3>2, <3>3, <4>1, <4>2, <4>3, <5>1
        <5>2. CASE i \in 1..len
          BY <3>1, <3>2, <3>3, <4>1, <4>2, <4>3, <4>5, <5>2
        <5> QED  BY <4>2, <5>1, <5>2
      <4>6. ASSUME NEW n \in 1..Len(gpioNumbers'[k])
            PROVE  \E i \in 1..last : Serves(k, gpioTable'[i]) /\ Before(k, i)' + 1 = n
        <5>1. CASE n = Len(gpioNumbers[k]) + 1
          BY <3>1, <3>2, <3>3, <3>5, <4>2, <5>1
        <5>2. CASE n \in 1..Len(gpioNumbers[k])
          BY <3>1, <3>2, <3>3, <4>2, <5>2
        <5> QED  BY <4>3, <5>1, <5>2
      <4> QED  BY <3>1, <4>4, <4>5, <4>6
    <3>6. CASE ~Serves(k, pin)
      <4>1. gpioNumbers'[k] = gpioNumbers[k]
        BY <2>2, <3>6
      <4>2. /\ \A i \in 1..last : i = last \/ i \in 1..len
            /\ \A i \in 1..len : i \in 1..last
            /\ last \in 1..last
        BY <3>1
      <4>3. Before(k, last + 1)' = Before(k, last)
        BY <3>2, <3>6, <4>2
      <4>4. \A i \in 1..last : Serves(k, gpioTable'[i]) => i \in 1..len
        BY <3>1, <3>6, <4>2
      <4>5. \A i \in 1..len : gpioTable'[i] = gpioTable[i] /\ Before(k, i)' = Before(k, i)
        BY <3>1, <3>2, <4>2
      <4>6. Before(k, Len(gpioTable) + 1)' = Before(k, last + 1)'
        BY <3>1
      <4> HIDE DEF last
      <4> QED  BY <3>1, <3>3, <4>1, <4>2, <4>3, <4>4, <4>5, <4>6
    <3> QED  BY <3>5, <3>6
  <2>5. SameOrder'
    BY <2>4 DEF SameOrder
  <2> QED  BY <2>3, <2>5
<1> QED  BY <1>1, <1>2

\* With the table and the numbers as they were, the order stays.
LEMMA OrderStands ==
  ASSUME SameOrder, UNCHANGED <<gpioTable, gpioNumbers>>
  PROVE  SameOrder'
<1>1. /\ \A k \in Controllers : \A i : Before(k, i)' = Before(k, i)
      /\ \A k \in Controllers :
           Before(k, Len(gpioTable) + 1)' = Before(k, Len(gpioTable) + 1)
  BY DEF Before
<1> QED  BY <1>1 DEF SameOrder

\* The highest number raised is a pin's, and counting finds that pin's slot.
LEMMA DecodedIsRaised ==
  ASSUME GpioInv, NEW k \in Controllers, NEW high \in gpioStatus[k]
  PROVE  gpioTable[Decoded(k, high)] = gpioNumbers[k][high + 1]
<1> DEFINE hits == {i \in 1..Len(gpioTable) : Serves(k, gpioTable[i]) /\ Before(k, i) = high}
<1>1. high \in Nat /\ high + 1 \in 1..Len(gpioNumbers[k])
  BY DEF GpioInv, GpioTypes, StatusNumbered
<1>2. PICK i \in 1..Len(gpioTable) : Serves(k, gpioTable[i]) /\ Before(k, i) + 1 = high + 1
  BY <1>1 DEF GpioInv, SameOrder
<1>3. \A j \in 1..Len(gpioTable) : Before(k, j) \in Nat
  BY CountedBefore DEF GpioInv, GpioTypes
<1>4. i \in hits
  BY <1>1, <1>2, <1>3
<1>5. Decoded(k, high) \in hits
  <2>1. (CHOOSE j \in hits : TRUE) \in hits
    BY <1>4
  <2> QED  BY <1>4, <2>1 DEF Decoded
<1>6. \A j \in hits : gpioTable[j] = gpioNumbers[k][high + 1]
  BY DEF GpioInv, SameOrder
<1> QED  BY <1>5, <1>6

LEMMA GpioPreserved == GpioInv /\ [GpioNext]_gpioVars => GpioInv'
<1> SUFFICES ASSUME GpioInv, [GpioNext]_gpioVars PROVE GpioInv'
  OBVIOUS
<1>0. GpioTypes /\ SameOrder /\ StatusNumbered /\ GpioFiresItsCause
  BY DEF GpioInv
<1>1. ASSUME NEW pin \in GpioPins, NEW valid \in BOOLEAN, GpioConfigure(pin, valid)
      PROVE  GpioInv'
  <2>1. /\ gpioTable' \in Seq(GpioPins)
        /\ gpioNumbers' \in [Controllers -> Seq(GpioPins)]
        /\ SameOrder'
        /\ \A k \in Controllers : Len(gpioNumbers[k]) <= Len(gpioNumbers'[k])
    BY <1>1, ConfigureKeepsOrder
  <2>2. gpioArmed' \subseteq GpioPins /\ UNCHANGED <<gpioStatus, gpioFired, gpioCause>>
    BY <1>0, <1>1 DEF GpioConfigure, GpioTypes
  <2>3. StatusNumbered'
    <3>1. \A k \in Controllers : Len(gpioNumbers[k]) \in Nat /\ Len(gpioNumbers'[k]) \in Nat
      BY <1>0, <2>1 DEF GpioTypes
    <3>2. \A k \in Controllers : 1..Len(gpioNumbers[k]) \subseteq 1..Len(gpioNumbers'[k])
      BY <2>1, <3>1
    <3> QED  BY <1>0, <2>2, <3>2 DEF StatusNumbered
  <2>4. GpioFiresItsCause'
    BY <1>0, <2>2 DEF GpioFiresItsCause
  <2> QED  BY <1>0, <2>1, <2>2, <2>3, <2>4 DEF GpioInv, GpioTypes
<1>2. ASSUME NEW k \in Controllers, NEW n \in 1..PinUse, GpioRaise(k, n)
      PROVE  GpioInv'
  <2>1. /\ gpioStatus' = [gpioStatus EXCEPT ![k] = @ \cup {n - 1}]
        /\ UNCHANGED <<gpioTable, gpioNumbers, gpioArmed, gpioFired, gpioCause>>
        /\ n \in 1..Len(gpioNumbers[k]) /\ n - 1 \in Nat
    BY <1>2 DEF GpioRaise
  <2>2. GpioTypes'
    BY <1>0, <2>1 DEF GpioTypes
  <2>3. SameOrder'
    BY <1>0, <2>1, OrderStands
  <2>4. StatusNumbered'
    BY <1>0, <2>1 DEF StatusNumbered, GpioTypes
  <2> QED  BY <1>0, <2>1, <2>2, <2>3, <2>4 DEF GpioInv, GpioFiresItsCause
<1>3. ASSUME NEW k \in Controllers, GpioIsr(k)
      PROVE  GpioInv'
  <2>1. PICK high \in gpioStatus[k] : gpioFired' = {gpioTable[Decoded(k, high)]}
    BY <1>3 DEF GpioIsr
  <2>2. /\ gpioCause' = {gpioNumbers[k][n + 1] : n \in gpioStatus[k]}
        /\ gpioStatus' = [gpioStatus EXCEPT ![k] = {}]
        /\ UNCHANGED <<gpioTable, gpioNumbers, gpioArmed>>
    BY <1>3 DEF GpioIsr
  <2>3. GpioTypes'
    BY <1>0, <2>2 DEF GpioTypes
  <2>4. SameOrder'
    BY <1>0, <2>2, OrderStands
  <2>5. StatusNumbered'
    BY <1>0, <2>2 DEF StatusNumbered, GpioTypes
  <2>6. GpioFiresItsCause'
    BY <2>1, <2>2, DecodedIsRaised DEF GpioFiresItsCause
  <2> QED  BY <2>3, <2>4, <2>5, <2>6 DEF GpioInv
<1>4. CASE UNCHANGED gpioVars
  <2>1. UNCHANGED <<gpioTable, gpioNumbers>>
    BY <1>4 DEF gpioVars
  <2>2. SameOrder'
    BY <1>0, <2>1, OrderStands
  <2> QED  BY <1>0, <1>4, <2>2
           DEF GpioInv, GpioTypes, StatusNumbered, GpioFiresItsCause, gpioVars
<1> QED  BY <1>1, <1>2, <1>3, <1>4 DEF GpioNext

\* Whatever pins are configured and whenever they interrupt, a routine fires
\* the callbacks of a pin whose interrupt it has cleared: the slots of the
\* shared table, counted per controller, are the HAL's numbers.
THEOREM CallbacksMatchInterrupts == GpioSpec => []GpioFiresItsCause
<1>1. GpioInv => GpioFiresItsCause
  BY DEF GpioInv
<1> QED  BY GpioInitially, GpioPreserved, <1>1, PTL DEF GpioSpec
-----------------------------------------------------------------------------
\* Nothing raises the semaphore under a thread in the HAL but an interrupt that
\* did not wait.
FlashInv ==
  /\ flashSem \in {0, 1}
  /\ flashPc \in [FlashClients -> {"idle", "take", "hal"}]
  /\ flashForced \in BOOLEAN
  /\ FlashOneAtATime

LEMMA FlashInitially == FlashInit => FlashInv
BY DEF FlashInit, FlashInv, FlashOneAtATime

LEMMA FlashPreserved == FlashInv /\ [FlashNext]_flashVars => FlashInv'
<1> SUFFICES ASSUME FlashInv, [FlashNext]_flashVars PROVE FlashInv'
  OBVIOUS
<1> USE DEF FlashInv, FlashOneAtATime
<1>1. CASE FlashFromIsr
  BY <1>1 DEF FlashFromIsr
<1>2. ASSUME NEW c \in FlashClients, NEW op, FlashCall(c, op) PROVE FlashInv'
  BY <1>2 DEF FlashCall
<1>3. ASSUME NEW c \in FlashClients, FlashTake(c) PROVE FlashInv'
  BY <1>3 DEF FlashTake
<1>4. ASSUME NEW c \in FlashClients, FlashGive(c) PROVE FlashInv'
  BY <1>4 DEF FlashGive
<1>5. ASSUME NEW c \in FlashClients, FlashBadErase(c) PROVE FlashInv'
  BY <1>5 DEF FlashBadErase
<1>6. CASE UNCHANGED flashVars
  BY <1>6 DEF flashVars
<1> QED  BY <1>1, <1>2, <1>3, <1>4, <1>5, <1>6 DEF FlashNext, FlashStep

\* One thread at a time is in the flash HAL, for any number of threads and with
\* any number of leaked semaphores, until an interrupt enters beside one.
THEOREM FlashIsExclusive == FlashSpec => []FlashOneAtATime
<1>1. FlashInv => FlashOneAtATime
  BY DEF FlashInv
<1> QED  BY FlashInitially, FlashPreserved, <1>1, PTL DEF FlashSpec

\* Whenever the semaphore is down somebody will give it, or an erase outside
\* the layout has kept it: that path is the only one on which it gets lost,
\* whatever the interrupts do.
FlashSemIsHeld ==
  flashSem = 0 => flashLeaked \/ \E c \in FlashClients : flashPc[c] = "hal"

\* A thread that waits for the flash waits for one that drives it, for any
\* number of threads: what FlashCallsReturn needs besides fairness.
THEOREM FlashSemHasHolder == FlashSpec => []FlashSemIsHeld
<1> USE DEF FlashSemIsHeld, FlashInv
<1>1. FlashInit => FlashSemIsHeld
  BY DEF FlashInit
<1>2. FlashInv /\ FlashSemIsHeld /\ [FlashNext]_flashVars => FlashSemIsHeld'
  <2> SUFFICES ASSUME FlashInv, FlashSemIsHeld, [FlashNext]_flashVars PROVE FlashSemIsHeld'
    OBVIOUS
  <2>1. CASE FlashFromIsr
    BY <2>1 DEF FlashFromIsr
  <2>2. ASSUME NEW c \in FlashClients, NEW op, FlashCall(c, op) PROVE FlashSemIsHeld'
    BY <2>2 DEF FlashCall
  <2>3. ASSUME NEW c \in FlashClients, FlashTake(c) PROVE FlashSemIsHeld'
    BY <2>3 DEF FlashTake
  <2>4. ASSUME NEW c \in FlashClients, FlashGive(c) \/ FlashBadErase(c) PROVE FlashSemIsHeld'
    BY <2>4 DEF FlashGive, FlashBadErase
  <2>5. CASE UNCHANGED flashVars
    BY <2>5 DEF flashVars
  <2> QED  BY <2>1, <2>2, <2>3, <2>4, <2>5 DEF FlashNext, FlashStep
<1> QED  BY <1>1, <1>2, FlashInitially, FlashPreserved, PTL DEF FlashSpec
-----------------------------------------------------------------------------
(***************************************************************************)
(* Types, by the invariants above where they are needed.                   *)
(***************************************************************************)

LEMMA FlashTypeKept == FlashTypeOK /\ [FlashNext]_flashVars => FlashTypeOK'
<1> SUFFICES ASSUME FlashTypeOK, [FlashNext]_flashVars PROVE FlashTypeOK'
  OBVIOUS
<1> USE DEF FlashTypeOK
<1>1. CASE FlashFromIsr
  BY <1>1, FlashAssumption DEF FlashFromIsr
<1>2. ASSUME NEW c \in FlashClients, NEW op \in {"read", "write", "erase"}, FlashCall(c, op)
      PROVE  FlashTypeOK'
  BY <1>2 DEF FlashCall
<1>3. ASSUME NEW c \in FlashClients, FlashStep(c) \/ FlashBadErase(c) PROVE FlashTypeOK'
  BY <1>3 DEF FlashStep, FlashTake, FlashGive, FlashBadErase
<1>4. CASE UNCHANGED flashVars
  BY <1>4 DEF flashVars
<1> QED  BY <1>1, <1>2, <1>3, <1>4 DEF FlashNext

\* The flash driver's variables keep their types, for any callers.
THEOREM FlashTypeCorrect == FlashSpec => []FlashTypeOK
<1>1. FlashInit => FlashTypeOK
  <2>1. 0 \in 0..FlashIsrs
    BY FlashAssumption
  <2> QED  BY <2>1 DEF FlashInit, FlashTypeOK
<1> QED  BY FlashTypeKept, <1>1, PTL DEF FlashSpec

LEMMA UpToIsFinite == ASSUME NEW n \in Nat PROVE IsFiniteSet(1..n) /\ Cardinality(1..n) = n
BY FS_Interval

\* A table never outgrows its slots, so no controller has more numbers.
LEMMA NumbersFit ==
  ASSUME GpioInv, Len(gpioTable) <= PinUse, NEW k \in Controllers
  PROVE  \A n \in gpioStatus[k] : n \in 0..PinUse - 1
<1>1. Len(gpioTable) \in Nat /\ Len(gpioNumbers[k]) \in Nat
  BY DEF GpioInv, GpioTypes
<1>2. Before(k, Len(gpioTable) + 1) <= Len(gpioTable)
  <2> DEFINE counted == CountedIn(k, gpioTable, Len(gpioTable) + 1)
  <2>1. counted \subseteq 1..Len(gpioTable)
    BY <1>1 DEF CountedIn
  <2>2. IsFiniteSet(1..Len(gpioTable)) /\ Cardinality(1..Len(gpioTable)) = Len(gpioTable)
    BY <1>1, UpToIsFinite
  <2>3. Before(k, Len(gpioTable) + 1) = Cardinality(counted)
    BY <1>1, CountedBefore
  <2> HIDE DEF counted
  <2> QED  BY <2>1, <2>2, <2>3, FS_Subset
<1>3. Len(gpioNumbers[k]) <= PinUse
  BY <1>1, <1>2, GpioAssumption DEF GpioInv, SameOrder
<1>4. \A n \in gpioStatus[k] : n \in Nat /\ n + 1 \in 1..Len(gpioNumbers[k])
  BY DEF GpioInv, GpioTypes, StatusNumbered
<1> QED  BY <1>1, <1>3, <1>4, GpioAssumption

GpioSets ==
  Len(gpioTable) <= PinUse /\ gpioFired \subseteq GpioPins /\ gpioCause \subseteq GpioPins

LEMMA GpioSetsKept == GpioInv /\ GpioSets /\ [GpioNext]_gpioVars => GpioSets'
<1> SUFFICES ASSUME GpioInv, GpioSets, [GpioNext]_gpioVars PROVE GpioSets'
  OBVIOUS
<1>1. ASSUME NEW pin \in GpioPins, NEW valid \in BOOLEAN, GpioConfigure(pin, valid)
      PROVE  GpioSets'
  BY <1>1 DEF GpioConfigure, GpioSets
<1>2. ASSUME NEW k \in Controllers, NEW n \in 1..PinUse, GpioRaise(k, n) PROVE GpioSets'
  BY <1>2 DEF GpioRaise, GpioSets
<1>3. ASSUME NEW k \in Controllers, GpioIsr(k) PROVE GpioSets'
  <2>1. /\ gpioCause' = {gpioNumbers[k][n + 1] : n \in gpioStatus[k]}
        /\ gpioTable' = gpioTable
    BY <1>3 DEF GpioIsr
  <2>2. \A n \in gpioStatus[k] : gpioNumbers[k][n + 1] \in GpioPins
    <3>1. gpioNumbers[k] \in Seq(GpioPins)
      BY DEF GpioInv, GpioTypes
    <3>2. \A n \in gpioStatus[k] : n + 1 \in 1..Len(gpioNumbers[k])
      BY DEF GpioInv, StatusNumbered
    <3> QED  BY <3>1, <3>2
  <2>3. gpioFired' \subseteq gpioCause'
    BY <1>3, GpioPreserved DEF GpioInv, GpioFiresItsCause, GpioNext
  <2> QED  BY <2>1, <2>2, <2>3 DEF GpioSets
<1>4. CASE UNCHANGED gpioVars
  BY <1>4 DEF gpioVars, GpioSets
<1> QED  BY <1>1, <1>2, <1>3, <1>4 DEF GpioNext

\* The table of pins, the numbers and the status words keep their types and
\* their bounds, for any pins and any size of the table.
THEOREM GpioTypeCorrect == GpioSpec => []GpioTypeOK
<1>1. GpioInit => GpioSets
  BY GpioAssumption DEF GpioInit, GpioSets
<1>2. GpioInv /\ GpioSets => GpioTypeOK
  BY NumbersFit DEF GpioInv, GpioSets, GpioTypes, GpioTypeOK
<1> QED  BY GpioInitially, GpioPreserved, GpioSetsKept, <1>1, <1>2, PTL DEF GpioSpec
=============================================================================
