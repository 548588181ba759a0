------------------------------- MODULE SdDisk -------------------------------
(* The SD card disk driver, drivers/disk/sdmmc_amebapro2.c: its callers (the *)
(* file system's threads), the card being pulled and inserted, the insert    *)
(* and remove interrupts, the HAL's transfer with its done interrupt and the *)
(* semaphore the HAL waits on.                                               *)
(*                                                                           *)
(* External, from how the driver uses it: hal_sdhost_* (a transfer fails at  *)
(* once, or runs, waits through the yield hook and reports what the          *)
(* hardware said by then), k_mutex (unlock hands the mutex to a waiter) and  *)
(* k_sem with its limit of one unit.                                         *)
EXTENDS Integers, FiniteSets

CONSTANTS
  SdClients,    \* the threads that call the driver
  SdMaxOrphans  \* bound: timed-out transfers whose done event may still come

SdNobody == "nobody"

ASSUME SdAssumption == SdNobody \notin SdClients /\ SdMaxOrphans \in Nat

SdOps == {"read", "write", "init", "deinit"}
SdInside == {"check", "first", "wait", "again", "mark", "unlock"}

VARIABLES
  sdCard,     \* card_exist: there is a card in the slot
  sdReady,    \* the card in the slot has been initialised since it got power
  sdIrq,      \* an insert or remove interrupt is pending
  sdStatus,   \* param->status
  sdOwner,    \* the owner of sd_mutex
  sdSema,     \* the count of sd_sema
  sdXfer,     \* the HAL's transfer: none, running, done or failed
  sdOrphans,  \* abandoned transfers whose done event is still to come
  sdClient,   \* per caller: where it is, what it does, what it will answer
  sdLate,     \* history: some wait has given up
  sdRaced     \* history: the status was written over a newer event

sdVars == <<sdCard, sdReady, sdIrq, sdStatus, sdOwner, sdSema, sdXfer,
            sdOrphans, sdClient, sdLate, sdRaced>>
sdSlot == <<sdCard, sdReady, sdIrq>>
sdHal  == <<sdSema, sdXfer, sdOrphans, sdLate>>

SdFree == [pc |-> "idle", op |-> "read", tries |-> 0, ret |-> "0",
           moved |-> FALSE, pulled |-> FALSE]

SdProgress == [pc : SdInside \cup {"idle", "ioctl", "blocked"}, op : SdOps,
               tries : 0..2, ret : {"0", "EIO", "ENODEV"},
               moved : BOOLEAN, pulled : BOOLEAN]

SdTypeOK ==
  /\ sdCard \in BOOLEAN /\ sdReady \in BOOLEAN /\ sdIrq \in BOOLEAN
  /\ sdStatus \in {"OK", "UNINIT", "NOMEDIA"}
  /\ sdOwner \in SdClients \cup {SdNobody}
  /\ sdSema \in {0, 1}
  /\ sdXfer \in {"none", "running", "done", "failed"}
  /\ sdOrphans \in 0..SdMaxOrphans
  /\ sdClient \in [SdClients -> SdProgress]
  /\ sdLate \in BOOLEAN /\ sdRaced \in BOOLEAN

SdInit ==
  /\ sdCard \in BOOLEAN
  /\ sdReady = FALSE /\ sdIrq = FALSE
  /\ sdStatus = IF sdCard THEN "UNINIT" ELSE "NOMEDIA"
  /\ sdOwner = SdNobody
  /\ sdSema = 0 /\ sdXfer = "none" /\ sdOrphans = 0
  /\ sdClient = [c \in SdClients |-> SdFree]
  /\ sdLate = FALSE /\ sdRaced = FALSE

At(c, pc) == sdClient[c].pc = pc
Goto(c, pc) == sdClient' = [sdClient EXCEPT ![c].pc = pc]
Finish(c, ret) == sdClient' = [sdClient EXCEPT ![c].pc = "unlock", ![c].ret = ret]

-----------------------------------------------------------------------------
(* The slot and its interrupts: the callbacks read card_exist and write the  *)
(* status without sd_mutex.                                                  *)

SdPull ==
  /\ sdCard
  /\ sdCard' = FALSE /\ sdReady' = FALSE /\ sdIrq' = TRUE
  /\ sdClient' = [c \in SdClients |->
                   [sdClient[c] EXCEPT !.pulled = sdClient[c].pc \in SdInside]]
  /\ UNCHANGED <<sdStatus, sdOwner, sdHal, sdRaced>>

SdInsert ==
  /\ ~sdCard
  /\ sdCard' = TRUE /\ sdIrq' = TRUE
  /\ UNCHANGED <<sdReady, sdStatus, sdOwner, sdHal, sdClient, sdRaced>>

\* Mutant of SdSlotIsr: an event is dropped while a call is in progress.
SdSlotIsrWhenFree ==
  /\ sdIrq
  /\ sdIrq' = FALSE
  /\ sdStatus' = IF sdOwner # SdNobody THEN sdStatus
                 ELSE IF sdCard THEN "UNINIT" ELSE "NOMEDIA"
  /\ UNCHANGED <<sdCard, sdReady, sdOwner, sdHal, sdClient, sdRaced>>

SdSlotIsr ==
  /\ sdIrq
  /\ sdIrq' = FALSE
  /\ sdStatus' = IF sdCard THEN "UNINIT" ELSE "NOMEDIA"
  /\ sdRaced' = (sdRaced \/ \E c \in SdClients : At(c, "mark"))
  /\ UNCHANGED <<sdCard, sdReady, sdOwner, sdHal, sdClient>>

-----------------------------------------------------------------------------
(* The HAL's transfer.  The done event gives sd_sema, whoever waits on it.   *)

SdDoneEvent ==
  /\ sdXfer = "running"
  /\ sdXfer' \in IF sdReady THEN {"done", "failed"} ELSE {"failed"}
  /\ sdSema' = 1
  /\ UNCHANGED <<sdSlot, sdStatus, sdOwner, sdOrphans, sdClient, sdLate, sdRaced>>

SdOrphanEvent ==
  /\ sdOrphans > 0
  /\ sdOrphans' = sdOrphans - 1
  /\ sdSema' = 1
  /\ UNCHANGED <<sdSlot, sdStatus, sdOwner, sdXfer, sdClient, sdLate, sdRaced>>

\* hal_sdhost_read_data or hal_sdhost_write_data up to its wait; it may also
\* fail at once
Transfer(c) ==
  LET t == sdClient[c].tries + 1 IN
  \/ /\ sdXfer' = "running"
     /\ sdClient' = [sdClient EXCEPT ![c].pc = "wait", ![c].tries = t]
  \/ /\ sdXfer' = "none"
     /\ sdClient' = [sdClient EXCEPT ![c].tries = t,
          ![c].pc = IF t = 1 THEN "again" ELSE "unlock",
          ![c].ret = IF t = 1 THEN @ ELSE "EIO"]

\* Mutant of Conclude: the second attempt's result is not looked at.
ConcludeTrusting(c) ==
  IF sdXfer = "done"
  THEN sdClient' = [sdClient EXCEPT ![c].pc = "unlock", ![c].ret = "0",
                                    ![c].moved = TRUE]
  ELSE IF sdClient[c].tries = 1 THEN Goto(c, "again") ELSE Finish(c, "0")

\* the rest of the HAL call and the driver's look at its result
Conclude(c) ==
  IF sdXfer = "done"
  THEN sdClient' = [sdClient EXCEPT ![c].pc = "unlock", ![c].ret = "0",
                                    ![c].moved = TRUE]
  ELSE IF sdClient[c].tries = 1 THEN Goto(c, "again") ELSE Finish(c, "EIO")

\* a transfer the HAL stops waiting for may still end
Abandon ==
  /\ sdXfer' = "none"
  /\ sdOrphans' = IF sdXfer = "running" /\ sdOrphans < SdMaxOrphans
                  THEN sdOrphans + 1 ELSE sdOrphans

SdWoken(c) ==
  /\ At(c, "wait") /\ sdSema = 1
  /\ sdSema' = 0
  /\ Conclude(c) /\ Abandon
  /\ UNCHANGED <<sdSlot, sdStatus, sdOwner, sdLate, sdRaced>>

SdTimeout(c) ==
  /\ At(c, "wait") /\ sdSema = 0
  /\ sdLate' = TRUE
  /\ Conclude(c) /\ Abandon
  /\ UNCHANGED <<sdSlot, sdStatus, sdOwner, sdSema, sdRaced>>

-----------------------------------------------------------------------------
(* The callers.  DISK_IOCTL_CTRL_DEINIT writes the status before the mutex.  *)

\* Mutant of EnterMutex: the calls do not exclude one another.
EnterMutexOpen(c, client) ==
  /\ sdOwner' = c
  /\ sdClient' = [sdClient EXCEPT ![c] = [client EXCEPT !.pc = "check"]]

EnterMutex(c, client) ==
  IF sdOwner = SdNobody
  THEN /\ sdOwner' = c
       /\ sdClient' = [sdClient EXCEPT ![c] = [client EXCEPT !.pc = "check"]]
  ELSE /\ sdOwner' = sdOwner
       /\ sdClient' = [sdClient EXCEPT ![c] = [client EXCEPT !.pc = "blocked"]]

SdCall(c, op) ==
  /\ At(c, "idle") /\ op # "deinit"
  /\ EnterMutex(c, [SdFree EXCEPT !.op = op])
  /\ UNCHANGED <<sdSlot, sdStatus, sdHal, sdRaced>>

SdIoctlDeinit(c) ==
  /\ At(c, "idle")
  /\ sdStatus' = "UNINIT"
  /\ sdClient' = [sdClient EXCEPT ![c] = [SdFree EXCEPT !.pc = "ioctl", !.op = "deinit"]]
  /\ UNCHANGED <<sdSlot, sdOwner, sdHal, sdRaced>>

SdLockDeinit(c) ==
  /\ At(c, "ioctl")
  /\ EnterMutex(c, sdClient[c])
  /\ UNCHANGED <<sdSlot, sdStatus, sdHal, sdRaced>>

\* Mutant of SdCheck: the early return does not go through EXIT.
SdCheckReturns(c) ==
  /\ At(c, "check") /\ sdClient[c].op \in {"read", "write"}
  /\ \/ ~sdCard /\ Goto(c, "idle")
     \/ sdCard /\ Finish(c, "EIO")
     \/ sdCard /\ Goto(c, "first")
  /\ UNCHANGED <<sdSlot, sdStatus, sdOwner, sdHal, sdRaced>>

\* read and write: no card; a misaligned read without memory, or a write of
\* more than 65535 sectors; or go on, as a misaligned write does even without
\* memory for its copy
SdCheck(c) ==
  /\ At(c, "check") /\ sdClient[c].op \in {"read", "write"}
  /\ \/ ~sdCard /\ Finish(c, "EIO")
     \/ sdCard /\ Finish(c, "EIO")
     \/ sdCard /\ Goto(c, "first")
  /\ UNCHANGED <<sdSlot, sdStatus, sdOwner, sdHal, sdRaced>>

\* read looks at the slot again and skips the transfer of a missing card
SdFirst(c) ==
  /\ At(c, "first")
  /\ IF sdClient[c].op = "read" /\ ~sdCard
     THEN Finish(c, "0") /\ UNCHANGED sdXfer
     ELSE Transfer(c)
  /\ UNCHANGED <<sdSlot, sdStatus, sdOwner, sdSema, sdOrphans, sdLate, sdRaced>>

SdAgain(c) ==
  /\ At(c, "again")
  /\ IF sdCard THEN Transfer(c) ELSE Finish(c, "EIO") /\ UNCHANGED sdXfer
  /\ UNCHANGED <<sdSlot, sdStatus, sdOwner, sdSema, sdOrphans, sdLate, sdRaced>>

\* amebapro2_sdmmc_init up to the end of hal_sdhost_init_card
SdInitCard(c) ==
  /\ At(c, "check") /\ sdClient[c].op = "init"
  /\ \/ sdStatus = "OK" /\ Finish(c, "0") /\ UNCHANGED sdReady
     \/ sdStatus # "OK" /\ ~sdCard /\ Finish(c, "ENODEV") /\ UNCHANGED sdReady
     \/ sdStatus # "OK" /\ sdCard /\ Finish(c, "EIO") /\ sdReady' = FALSE
     \/ sdStatus # "OK" /\ sdCard /\ Goto(c, "mark") /\ sdReady' = TRUE
  /\ UNCHANGED <<sdCard, sdIrq, sdStatus, sdOwner, sdHal, sdRaced>>

SdMark(c) ==
  /\ At(c, "mark")
  /\ sdStatus' = "OK"
  /\ Finish(c, "0")
  /\ UNCHANGED <<sdSlot, sdOwner, sdHal, sdRaced>>

\* amebapro2_sdmmc_deinit: the status was UNINIT a moment ago, so the host is
\* only taken down, and the card's power cut, when an init came in between
SdDeinit(c) ==
  /\ At(c, "check") /\ sdClient[c].op = "deinit"
  /\ Finish(c, "0")
  /\ IF sdStatus = "OK"
     THEN /\ sdReady' = FALSE /\ sdXfer' = "none" /\ sdOrphans' = 0
          /\ sdRaced' = TRUE
     ELSE UNCHANGED <<sdReady, sdXfer, sdOrphans, sdRaced>>
  /\ UNCHANGED <<sdCard, sdIrq, sdStatus, sdOwner, sdSema, sdLate>>

SdUnlock(c) ==
  LET waiting == {d \in SdClients : At(d, "blocked")} IN
  /\ At(c, "unlock")
  /\ IF waiting = {}
     THEN sdOwner' = SdNobody /\ sdClient' = [sdClient EXCEPT ![c] = SdFree]
     ELSE \E d \in waiting :
            /\ sdOwner' = d
            /\ sdClient' = [sdClient EXCEPT ![c] = SdFree, ![d].pc = "check"]
  /\ UNCHANGED <<sdSlot, sdStatus, sdHal, sdRaced>>

SdStep(c) ==
  \/ SdWoken(c) \/ SdTimeout(c) \/ SdLockDeinit(c) \/ SdCheck(c) \/ SdFirst(c)
  \/ SdAgain(c) \/ SdInitCard(c) \/ SdMark(c) \/ SdDeinit(c) \/ SdUnlock(c)

SdNext ==
  \/ SdPull \/ SdInsert \/ SdSlotIsr \/ SdDoneEvent \/ SdOrphanEvent
  \/ \E c \in SdClients : SdIoctlDeinit(c) \/ SdStep(c) \/ \E op \in SdOps : SdCall(c, op)

SdSpec == SdInit /\ [][SdNext]_sdVars /\ \A c \in SdClients : WF_sdVars(SdStep(c))

-----------------------------------------------------------------------------
(* As long as no wait has given up, the unit in sd_sema is the done event of *)
(* the transfer its owner waits for: nobody is woken by another call's       *)
(* transfer (sdio_done_event, sdio_task_wait and the mutex together).        *)
SdNoEarlyWake ==
  ~sdLate => /\ sdOrphans = 0
             /\ sdSema = 1 => /\ sdXfer \in {"done", "failed"}
                              /\ \E c \in SdClients : At(c, "wait") /\ sdOwner = c

(* A read or a write that answers 0 has moved its sectors, or is a read      *)
(* whose card was pulled during the call: the driver then skips the transfer *)
(* and still answers 0 (amebapro2_sdmmc_access_read, _write).  Late done     *)
(* events of earlier transfers do not make a call succeed.                   *)
SdSuccessIsReal ==
  \A c \in SdClients :
    LET client == sdClient[c] IN
    At(c, "unlock") /\ client.op \in {"read", "write"} /\ client.ret = "0"
      => client.moved \/ (client.op = "read" /\ client.pulled)

(* DISK_STATUS_OK, on which the next init relies to do nothing, means a card *)
(* that has been initialised; except while an interrupt is pending, after an *)
(* interrupt that fell between hal_sdhost_init_card and the write of the     *)
(* status, and after a de-initialisation that overlapped an initialisation.  *)
SdOkMeansReady == sdStatus = "OK" /\ ~sdIrq /\ ~sdRaced => sdReady

(* Every call returns, whatever the card does and whether or not the done    *)
(* event comes: the wait gives up after SD_TIMEOUT and every path unlocks.   *)
SdCallsReturn == \A c \in SdClients : ~At(c, "idle") ~> At(c, "idle")

=============================================================================
