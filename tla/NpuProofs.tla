------------------------------ MODULE NpuProofs ------------------------------
(***************************************************************************)
(* Safety of the NPU's sample, loader and post-processing: what the handle *)
(* and the runtime hold at each step of a run, for any number of inputs,   *)
(* outputs and runs; the loader's arithmetic, for any width of a word; the *)
(* suppression of overlapping detections, for any candidates.              *)
(***************************************************************************)
EXTENDS NpuSample, NpuLoader, Detection, FiniteSetTheorems, TLAPS

Quiet   == {"dead", "init", "flash", "network", "free", "deinit", "clear", "ending"}
Running == {"prepare", "outputs", "inputs", "run", "map", "unmap"}

\* Who may be where while the flag is up, and what each part of a run holds.
FlagView ==
  /\ nsPc \notin {"ending", "dead"} => nsRunning /\ nsShell = "idle"
  /\ nsShell = "join" => nsRunning
  /\ nsPc \in {"dead", "init", "clear", "ending"} => nsStuck \/ ~nsUp
  /\ nsPc \in {"dead", "init", "flash", "deinit", "clear", "ending"} => ~nsFlash
  /\ nsPc \in {"init", "flash", "network", "counts", "buffers", "prepare", "outputs", "inputs"}
       => nsRuns = 0
  /\ nsPc = "run" => nsRuns < Runs

\* The buffers of the handle, and with them what the runtime still holds.
Covered ==
  /\ npuHandle.buffers \subseteq Wanted
  /\ npuExcuses # {} \/ (nnBuffers = npuHandle.buffers /\ nnMapped \subseteq npuHandle.buffers)

Empty == nnSet = {} /\ (npuExcuses # {} \/ (nnBuffers = {} /\ nnMapped = {}))

HandleView ==
  /\ nsPc \in Quiet => npuHandle = Zeroed /\ Empty /\ (npuExcuses # {} \/ NothingHeld)
  /\ nsPc \in {"counts", "buffers"} => npuHandle.buffers = {} /\ Empty
  /\ nsPc \in {"buffers", "unload"} \cup Running => npuHandle.ins <= MaxIo /\ npuHandle.outs <= MaxIo
  /\ nsPc = "fail" /\ (npuHandle.ins > MaxIo \/ npuHandle.outs > MaxIo) => npuHandle.buffers = {}
  /\ nsPc \in Running => npuHandle.buffers = Wanted
  /\ nsPc \in Running \cup {"fail", "unload"} => Covered
  /\ nsPc \in Running \ {"unmap"} => npuExcuses # {} \/ nnMapped = {}
  /\ nsPc \in Running \ {"prepare"} => npuHandle.prepared /\ nnPrepared
  /\ nsPc \in {"prepare", "outputs"} => nnSet = {}
  /\ nsPc = "inputs" => nnSet = Outs(npuHandle.outs)
  /\ nsPc = "run" => nnSet = Wanted

NsInv == NsTypeOK /\ FlagView /\ HandleView
-----------------------------------------------------------------------------
\* The slots of smaller counts are among those of larger ones.
LEMMA SlotFacts ==
  /\ \A n : Ins(n) \subseteq Ins(n) /\ Outs(n) \subseteq Outs(n)
  /\ \A n, m \in Nat : n <= m => Ins(n) \subseteq Ins(m) /\ Outs(n) \subseteq Outs(m)
  /\ \A n \in Nat : \A s \in Ins(n) : s[1] = "in" /\ s[2] <= n
  /\ \A n \in Nat : \A s \in Outs(n) : s[1] = "out" /\ s[2] <= n
BY DEF Ins, Outs

LEMMA WantedFits ==
  ASSUME NpuTypeOK, npuHandle.ins <= MaxIo, npuHandle.outs <= MaxIo
  PROVE  Wanted \subseteq Slots
<1>1. npuHandle.ins \in Nat /\ npuHandle.outs \in Nat /\ MaxIo \in Nat
  BY NpuAssumption DEF NpuTypeOK
<1> QED  BY <1>1, SlotFacts DEF Wanted, Slots

LEMMA NsInitially == NsInit => NsInv
<1> SUFFICES ASSUME NsInit PROVE NsInv
  OBVIOUS
<1>1. Zeroed \in [network : BOOLEAN, prepared : BOOLEAN, ins : 0..MaxCount,
                  outs : 0..MaxCount, buffers : SUBSET Slots]
  BY NpuAssumption DEF Zeroed
<1>2. NsTypeOK
  <2>1. NpuTypeOK
    BY <1>1 DEF NsInit, NpuInit, NpuTypeOK
  <2>2. 0 \in 0..Runs
    BY NsAssumption
  <2> QED  BY <2>1, <2>2 DEF NsInit, NsTypeOK
<1>3. FlagView
  BY DEF NsInit, FlagView
<1>4. HandleView
  BY DEF NsInit, NpuInit, HandleView, Quiet, Running, Empty, NothingHeld
<1> QED  BY <1>2, <1>3, <1>4 DEF NsInv

\* The flag, the command and what the thread has up, step by step.
LEMMA FlagKept == ASSUME NsInv, [NsNext]_nsVars PROVE FlagView'
<1>0. FlagView /\ NsTypeOK /\ 0 < Runs /\ nsRuns \in Nat /\ Runs \in Nat
  BY NsAssumption DEF NsInv, NsTypeOK
<1> USE DEF FlagView
<1>1. ASSUME NEW model \in {"face", "yolo"}, NsCommand(model) PROVE FlagView'
  BY <1>0, <1>1 DEF NsCommand
<1>2. CASE NsCreate
  BY <1>0, <1>2 DEF NsCreate
<1>3. CASE NsThread
  <2>1. CASE NsInitNpu \/ NsLoadFlash \/ NsFree \/ NsDeinit \/ NsClear \/ NsRun
    BY <1>0, <2>1 DEF NsInitNpu, NsLoadFlash, NsFree, NsDeinit, NsClear, NsRun, nsRest
  <2>2. CASE NsNetwork \/ NsCounts \/ NsBuffers \/ NsPrepare \/ NsOutputs \/ NsLoadFails
    BY <1>0, <2>2
    DEF NsNetwork, NsCounts, NsBuffers, NsPrepare, NsOutputs, NsLoadFails, Thread, nsRest
  <2>3. CASE NsInputs \/ NsMap \/ NsUnmap \/ NsUnload \/ NsDies
    BY <1>0, <2>3 DEF NsInputs, NsMap, NsUnmap, NsUnload, NsDies, Thread, nsRest
  <2> QED  BY <1>3, <2>1, <2>2, <2>3 DEF NsThread
<1>4. CASE UNCHANGED nsVars
  BY <1>0, <1>4 DEF nsVars
<1> QED  BY <1>1, <1>2, <1>3, <1>4 DEF NsNext

\* The driver's calls keep to the handle's slots, each at the step that makes it.
LEMMA NsTypesKept == ASSUME NsInv, [NsNext]_nsVars PROVE NsTypeOK'
<1>0. NsTypeOK /\ NpuTypeOK /\ HandleView /\ FlagView
  BY DEF NsInv, NsTypeOK
<1>1. ASSUME NEW model \in {"face", "yolo"}, NsCommand(model) PROVE NsTypeOK'
  BY <1>0, <1>1 DEF NsCommand, NsTypeOK, NpuTypeOK, npuVars
<1>2. CASE NsCreate
  BY <1>0, <1>2, NsAssumption DEF NsCreate, NsTypeOK, NpuTypeOK, npuVars
<1>3. CASE NsInitNpu \/ NsLoadFlash \/ NsFree \/ NsDeinit \/ NsClear \/ NsDies \/ NsPrepare
  <2>1. CASE NsPrepare
    BY <1>0, <2>1 DEF NsPrepare, PrepareNetwork, Thread, nsRest, NsTypeOK, NpuTypeOK, npuVars
  <2>2. CASE NsInitNpu \/ NsLoadFlash \/ NsFree \/ NsDeinit \/ NsClear \/ NsDies
    BY <1>0, <2>2 DEF NsInitNpu, NsLoadFlash, NsFree, NsDeinit, NsClear, NsDies, Thread,
                      nsRest, NsTypeOK, NpuTypeOK, npuVars
  <2> QED  BY <1>3, <2>1, <2>2
<1>4. CASE NsRun
  <2>1. nsRuns' \in 0..Runs
    BY <1>0, <1>4, NsAssumption DEF NsRun, NsTypeOK, FlagView
  <2> QED  BY <1>0, <1>4, <2>1 DEF NsRun, nsRest, NsTypeOK, NpuTypeOK, npuVars
<1>5. CASE NsNetwork \/ NsCounts
  <2>1. MaxIo \in Nat /\ MaxCount \in Nat /\ MaxCount > MaxIo
    BY NpuAssumption
  <2>2. /\ npuHandle' \in [network : BOOLEAN, prepared : BOOLEAN, ins : 0..MaxCount,
                           outs : 0..MaxCount, buffers : SUBSET Slots]
        /\ nnNetwork' \in BOOLEAN
        /\ UNCHANGED <<nnPrepared, nnBuffers, nnSet, nnMapped, npuExcuses>>
    <3>1. CASE NsNetwork
      <4>1. CASE CreateNetwork
        <5>1. npuHandle' = [network |-> TRUE, prepared |-> FALSE, ins |-> 0, outs |-> 0, buffers |-> {}]
          BY <4>1 DEF CreateNetwork, Zeroed
        <5>2. 0 \in 0..MaxCount
          BY <2>1
        <5>3. npuHandle' \in [network : BOOLEAN, prepared : BOOLEAN, ins : 0..MaxCount,
                              outs : 0..MaxCount, buffers : SUBSET Slots]
          BY <5>1, <5>2
        <5>4. /\ nnNetwork' \in BOOLEAN
              /\ UNCHANGED <<nnPrepared, nnBuffers, nnSet, nnMapped, npuExcuses>>
          BY <4>1 DEF CreateNetwork
        <5> QED  BY <5>3, <5>4
      <4>2. CASE UNCHANGED npuVars
        BY <1>0, <4>2 DEF NpuTypeOK, npuVars
      <4> QED  BY <3>1, <4>1, <4>2 DEF NsNetwork
    <3>2. CASE NsCounts
      <4>1. PICK ins \in 0..MaxCount, outs \in 0..MaxCount : QueryCounts(ins, outs)
        <5>1. \A n \in 0..MaxIo : n \in 0..MaxCount
          BY <2>1
        <5> QED  BY <3>2, <5>1 DEF NsCounts
      <4> QED  BY <1>0, <4>1 DEF QueryCounts, NpuTypeOK
    <3> QED  BY <1>5, <3>1, <3>2
  <2> QED  BY <1>0, <1>5, <2>2
           DEF NsNetwork, NsCounts, Thread, nsRest, NsTypeOK, NpuTypeOK
<1>6. CASE NsBuffers
  <2>1. PICK made \in LoopPrefixes(Wanted) : CreateBuffers(made)
    BY <1>6 DEF NsBuffers, CreateBuffers
  <2>2. made \subseteq Slots
    BY <1>0, <1>6, <2>1, WantedFits DEF NsBuffers, Thread, HandleView, LoopPrefixes
  <2> QED  BY <1>0, <1>6, <2>1, <2>2
           DEF NsBuffers, CreateBuffers, Thread, nsRest, NsTypeOK, NpuTypeOK
<1>7. CASE NsOutputs \/ NsInputs \/ NsMap \/ NsUnmap
  <2>1. /\ UNCHANGED <<npuHandle, nnNetwork, nnPrepared, nnBuffers, npuExcuses>>
        /\ nsPc' \in {"inputs", "fail", "run", "unload", "unmap"}
        /\ UNCHANGED <<nsRest, nsRuns, nsUp, nsFlash>>
    BY <1>7 DEF NsOutputs, NsInputs, NsMap, NsUnmap, Thread, Bind, SetInputs, MapOutputs,
                UnmapOutputs, npuVars
  <2>2. nnSet' \subseteq Slots /\ nnMapped' \subseteq Slots
    <3>0. /\ npuHandle.ins \in Nat /\ npuHandle.outs \in Nat /\ MaxIo \in Nat
          /\ npuHandle.ins <= MaxIo /\ npuHandle.outs <= MaxIo
          /\ nnSet \subseteq Slots /\ nnMapped \subseteq Slots
          /\ OutputsUsed \in Nat /\ OutputsUsed <= MaxIo
      BY <1>0, <1>7, NpuAssumption, NsAssumption
      DEF NsOutputs, NsInputs, NsMap, NsUnmap, Thread, HandleView, Running, NpuTypeOK, OutputsUsed
    <3>1. CASE NsOutputs
      BY <3>0, <3>1, SlotFacts DEF NsOutputs, Bind, Slots, npuVars
    <3>2. CASE NsInputs
      BY <3>0, <3>2, SlotFacts DEF NsInputs, SetInputs, LoopPrefixes, Slots, npuVars
    <3>3. CASE NsMap
      BY <3>0, <3>3, SlotFacts DEF NsMap, MapOutputs, Slots, npuVars
    <3>4. CASE NsUnmap
      BY <3>0, <3>4 DEF NsUnmap, UnmapOutputs
    <3> QED  BY <1>7, <3>1, <3>2, <3>3, <3>4
  <2> QED  BY <1>0, <2>1, <2>2 DEF NsTypeOK, NpuTypeOK, nsRest
<1>8. CASE NsLoadFails \/ NsUnload
  <2>1. PICK refused \in BOOLEAN : Unload(refused)
    BY <1>8 DEF NsLoadFails, NsUnload
  <2>2. /\ npuHandle' = Zeroed /\ nnSet' = {}
        /\ nnNetwork' \in BOOLEAN /\ nnPrepared' \in BOOLEAN /\ npuExcuses' \subseteq {"refused", "astray"}
        /\ nnBuffers' \subseteq Slots /\ nnMapped' \subseteq Slots
    BY <1>0, <2>1 DEF Unload, NpuTypeOK, PastTheArrays
  <2>3. Zeroed \in [network : BOOLEAN, prepared : BOOLEAN, ins : 0..MaxCount,
                    outs : 0..MaxCount, buffers : SUBSET Slots]
    BY NpuAssumption DEF Zeroed
  <2> QED  BY <1>0, <1>8, <2>2, <2>3
           DEF NsLoadFails, NsUnload, Thread, nsRest, NsTypeOK, NpuTypeOK
<1>9. CASE UNCHANGED nsVars
  BY <1>0, <1>9 DEF nsVars, npuVars, NsTypeOK, NpuTypeOK
<1> QED  BY <1>1, <1>2, <1>3, <1>4, <1>5, <1>6, <1>7, <1>8, <1>9 DEF NsNext, NsThread

\* An unload gives back every buffer the handle counts.
LEMMA UnloadReleases ==
  ASSUME NpuTypeOK, Covered, NEW refused \in BOOLEAN, Unload(refused)
  PROVE  npuHandle' = Zeroed /\ Empty' /\ (npuExcuses # {} \/ NothingHeld)'
<1> DEFINE gone == {s \in npuHandle.buffers :
                      s[2] <= IF s[1] = "in" THEN npuHandle.ins ELSE npuHandle.outs}
<1>1. gone = npuHandle.buffers
  <2>1. npuHandle.ins \in Nat /\ npuHandle.outs \in Nat
    BY NpuAssumption DEF NpuTypeOK
  <2>2. \A s \in Wanted : s[2] <= IF s[1] = "in" THEN npuHandle.ins ELSE npuHandle.outs
    BY <2>1, SlotFacts DEF Wanted
  <2> QED  BY <2>2 DEF Covered
<1>2. PICK kept \in {refused, refused \/ PastTheArrays} :
        /\ npuHandle' = Zeroed /\ nnSet' = {}
        /\ nnBuffers' = IF kept THEN nnBuffers ELSE nnBuffers \ npuHandle.buffers
        /\ nnMapped' = nnMapped \ npuHandle.buffers
        /\ npuExcuses' = npuExcuses \cup (IF refused THEN {"refused"} ELSE {})
                                     \cup (IF PastTheArrays THEN {"astray"} ELSE {})
        /\ nnNetwork' = (kept /\ nnNetwork) /\ nnPrepared' = (kept /\ nnPrepared)
  BY <1>1 DEF Unload
<1>3. CASE npuExcuses # {} \/ refused \/ PastTheArrays
  <2>1. npuExcuses' # {}
    BY <1>2, <1>3
  <2> QED  BY <1>2, <2>1 DEF Empty
<1>4. CASE npuExcuses = {} /\ ~refused /\ ~PastTheArrays
  <2>1. nnBuffers' = {} /\ nnMapped' = {} /\ ~nnNetwork' /\ ~nnPrepared'
    BY <1>2, <1>4 DEF Covered
  <2> QED  BY <1>2, <2>1 DEF Empty, NothingHeld
<1> QED  BY <1>3, <1>4

\* What the handle and the runtime hold, step by step.
LEMMA HandleKept == ASSUME NsInv, [NsNext]_nsVars PROVE HandleView'
<1>0. NsTypeOK /\ NpuTypeOK /\ HandleView
  BY DEF NsInv, NsTypeOK
<1>f. npuHandle.ins <= MaxIo /\ npuHandle.outs <= MaxIo
        => ~(npuHandle.ins > MaxIo) /\ ~(npuHandle.outs > MaxIo)
  BY <1>0, NpuAssumption DEF NpuTypeOK
<1> USE DEF HandleView, Quiet, Running
\* steps that leave the handle and the runtime alone
<1>1. ASSUME UNCHANGED npuVars, nsPc \in Quiet, nsPc' \in Quiet PROVE HandleView'
  BY <1>0, <1>1 DEF npuVars, Empty, NothingHeld
<1>2. ASSUME UNCHANGED npuVars,
             \/ nsPc' = nsPc
             \/ nsPc \in Running /\ nsPc' \in {"fail", "unload"}
             \/ nsPc = "run" /\ nsPc' = "map"
      PROVE  HandleView'
  BY <1>0, <1>f, <1>2 DEF npuVars, Empty, NothingHeld, Covered, Wanted
<1>3. ASSUME NEW model \in {"face", "yolo"}, NsCommand(model) PROVE HandleView'
  BY <1>2, <1>3 DEF NsCommand
<1>4. CASE NsCreate \/ NsInitNpu \/ NsLoadFlash \/ NsFree \/ NsDeinit \/ NsClear \/ NsDies
  BY <1>1, <1>4 DEF NsCreate, NsInitNpu, NsLoadFlash, NsFree, NsDeinit, NsClear, NsDies, Thread,
                    npuVars
<1>5. CASE NsRun
  BY <1>2, <1>5 DEF NsRun
<1>6. CASE NsNetwork
  <2>1. CASE nsPc' = "free"
    BY <1>1, <1>6, <2>1 DEF NsNetwork, Thread
  <2>2. CASE nsPc' = "counts"
    <3>1. npuHandle'.buffers = {} /\ UNCHANGED <<nnBuffers, nnSet, nnMapped, npuExcuses>>
      BY <1>6, <2>2 DEF NsNetwork, Thread, CreateNetwork, Zeroed
    <3> QED  BY <1>0, <1>6, <2>2, <3>1 DEF NsNetwork, Thread, Empty
  <2> QED  BY <1>6, <2>1, <2>2 DEF NsNetwork, Thread
<1>7. CASE NsCounts
  <2>1. PICK ins \in Nat, outs \in Nat :
          /\ QueryCounts(ins, outs)
          /\ nsPc = "counts"
          /\ nsPc' = "fail" \/ (nsPc' = "buffers" /\ ins <= MaxIo /\ outs <= MaxIo)
    BY <1>7, NpuAssumption DEF NsCounts, Thread
  <2>2. /\ npuHandle'.ins = ins /\ npuHandle'.outs = outs
        /\ npuHandle'.buffers = npuHandle.buffers
        /\ UNCHANGED <<nnBuffers, nnSet, nnMapped, npuExcuses>>
    BY <1>0, <2>1 DEF QueryCounts, NpuTypeOK
  <2> QED  BY <1>0, <2>1, <2>2 DEF Empty, Covered
<1>8. CASE NsBuffers
  <2>1. PICK made \in LoopPrefixes(Wanted) :
          /\ CreateBuffers(made)
          /\ nsPc = "buffers"
          /\ nsPc' = "fail" \/ (nsPc' = "prepare" /\ made = Wanted)
    BY <1>8 DEF NsBuffers, CreateBuffers, Thread
  <2>2. /\ npuHandle'.ins = npuHandle.ins /\ npuHandle'.outs = npuHandle.outs
        /\ npuHandle'.buffers = made /\ nnBuffers' = nnBuffers \cup made
        /\ UNCHANGED <<nnSet, nnMapped, npuExcuses>>
    BY <1>0, <2>1 DEF CreateBuffers, NpuTypeOK
  <2>3. Wanted' = Wanted /\ made \subseteq Wanted
    BY <2>2 DEF Wanted, LoopPrefixes
  <2> QED  BY <1>0, <1>f, <2>1, <2>2, <2>3 DEF Empty, Covered
<1>9. CASE NsPrepare
  <2>1. CASE nsPc' = "fail"
    BY <1>2, <1>9, <2>1 DEF NsPrepare, Thread
  <2>2. CASE nsPc' = "outputs"
    <3>1. /\ npuHandle'.ins = npuHandle.ins /\ npuHandle'.outs = npuHandle.outs
          /\ npuHandle'.buffers = npuHandle.buffers /\ npuHandle'.prepared /\ nnPrepared'
          /\ UNCHANGED <<nnBuffers, nnSet, nnMapped, npuExcuses>>
      BY <1>0, <1>9, <2>2 DEF NsPrepare, PrepareNetwork, Thread, NpuTypeOK
    <3>2. Wanted' = Wanted
      BY <3>1 DEF Wanted
    <3> QED  BY <1>0, <1>9, <2>2, <3>1, <3>2 DEF NsPrepare, Thread, Covered
  <2> QED  BY <1>9, <2>1, <2>2 DEF NsPrepare, Thread
<1>10. ASSUME UNCHANGED npuHandle PROVE Wanted' = Wanted
  BY <1>10 DEF Wanted
<1>11. CASE NsOutputs
  <2>1. /\ UNCHANGED <<npuHandle, nnPrepared, nnBuffers, nnMapped, npuExcuses>>
        /\ nsPc = "outputs"
        /\ nsPc' = "fail" \/ (nsPc' = "inputs" /\ nnSet' = nnSet \cup Outs(npuHandle.outs))
    BY <1>11 DEF NsOutputs, Bind, Thread
  <2> QED  BY <1>0, <1>f, <1>10, <2>1 DEF Covered
<1>12. CASE NsInputs
  <2>1. CASE nsPc' = "unload" /\ UNCHANGED npuVars
    BY <1>2, <1>12, <2>1 DEF NsInputs, Thread
  <2>2. CASE nsPc' = "run" /\ SetInputs(Ins(npuHandle.ins), {})
    <3>1. /\ UNCHANGED <<npuHandle, nnPrepared, nnBuffers, nnMapped, npuExcuses>>
          /\ nnSet' = nnSet \cup Ins(npuHandle.ins) /\ nsPc = "inputs"
      BY <1>12, <2>2 DEF NsInputs, SetInputs, Thread
    <3>2. nnSet' = Wanted
      BY <1>0, <3>1 DEF Wanted
    <3> QED  BY <1>0, <1>10, <2>2, <3>1, <3>2 DEF Covered
  <2>3. CASE /\ nsPc' = "unload"
             /\ \E slots, stuck \in SUBSET Ins(npuHandle.ins) : SetInputs(slots, stuck)
    <3>1. /\ UNCHANGED <<npuHandle, nnPrepared, nnBuffers, npuExcuses>> /\ nsPc = "inputs"
          /\ nnMapped' \subseteq nnMapped \cup Wanted
      BY <1>12, <2>3 DEF NsInputs, SetInputs, Thread, Wanted
    <3> QED  BY <1>0, <1>10, <2>3, <3>1 DEF Covered
  <2>4. \A slots, stuck :
          SetInputs(slots, stuck) => stuck \subseteq Ins(npuHandle.ins) /\ slots \subseteq Ins(npuHandle.ins)
    BY DEF SetInputs, LoopPrefixes
  <2> QED  BY <1>12, <2>1, <2>2, <2>3, <2>4 DEF NsInputs, Thread
<1>13. CASE NsMap
  <2>1. CASE nsPc' = "unload"
    BY <1>2, <1>13, <2>1 DEF NsMap, Thread
  <2>2. CASE nsPc' = "unmap"
    <3>1. PICK n \in 0..OutputsUsed : MapOutputs(Outs(n)) /\ OutputsUsed <= npuHandle.outs
      BY <1>0, <1>13, <2>2, NsAssumption DEF NsMap, Thread, OutputsUsed, NpuTypeOK
    <3>2. Outs(n) \subseteq Wanted
      <4>1. n \in Nat /\ npuHandle.outs \in Nat /\ n <= npuHandle.outs
        BY <1>0, <3>1, NsAssumption, NpuAssumption DEF NpuTypeOK, OutputsUsed
      <4> QED  BY <4>1, SlotFacts DEF Wanted
    <3>3. /\ UNCHANGED <<npuHandle, nnPrepared, nnBuffers, nnSet, npuExcuses>> /\ nsPc = "map"
          /\ nnMapped' = nnMapped \cup Outs(n)
      BY <1>13, <3>1 DEF NsMap, MapOutputs, Thread
    <3> QED  BY <1>0, <1>10, <2>2, <3>2, <3>3 DEF Covered
  <2> QED  BY <1>13, <2>1, <2>2 DEF NsMap, Thread
<1>14. CASE NsUnmap
  <2>1. /\ UNCHANGED <<npuHandle, nnPrepared, nnBuffers, nnSet, npuExcuses>>
        /\ nnMapped' \subseteq nnMapped /\ nsPc = "unmap" /\ nsPc' = "unload"
    BY <1>14 DEF NsUnmap, UnmapOutputs, Thread
  <2> QED  BY <1>0, <1>10, <2>1 DEF Covered
<1>15. CASE NsLoadFails \/ NsUnload
  <2>1. PICK refused \in BOOLEAN : Unload(refused)
    BY <1>15 DEF NsLoadFails, NsUnload
  <2>2. Covered /\ nsPc' = "free"
    BY <1>0, <1>15 DEF NsLoadFails, NsUnload, Thread
  <2> QED  BY <1>0, <2>1, <2>2, UnloadReleases
<1>16. CASE UNCHANGED nsVars
  BY <1>2, <1>16 DEF nsVars
<1> QED  BY <1>3, <1>4, <1>5, <1>6, <1>7, <1>8, <1>9, <1>11, <1>12, <1>13, <1>14, <1>15, <1>16
         DEF NsNext, NsThread

LEMMA NsPreserved == NsInv /\ [NsNext]_nsVars => NsInv'
BY NsTypesKept, FlagKept, HandleKept DEF NsInv

LEMMA NsInvariant == NsSpec => []NsInv
BY NsInitially, NsPreserved, PTL DEF NsSpec

\* Every variable of the sample and of its handle keeps its range.
THEOREM NsTypeCorrect == NsSpec => []NsTypeOK
<1>1. NsInv => NsTypeOK
  BY DEF NsInv
<1> QED  BY NsInvariant, <1>1, PTL

\* Wherever a load or a run fails, for any number of slots and any counts up to
\* any bound past the arrays: nothing is left behind the zeroed handle, unless the
\* runtime has refused a release or the counts have led past the arrays.
THEOREM FailureLeavesNothing == NsSpec => []NpuFailureLeavesNothing
<1>1. NsInv => NpuFailureLeavesNothing
  BY DEF NsInv, HandleView, NpuFailureLeavesNothing, Quiet
<1> QED  BY NsInvariant, <1>1, PTL

\* A release only goes astray in a load that fails on its counts, before it has
\* created a buffer: what may stay behind then is the network alone.  No release
\* of a model that was loaded does.
AstrayOnlyByCounts ==
  [][~("astray" \in npuExcuses) /\ ("astray" \in npuExcuses)' =>
       /\ nsPc = "fail" /\ npuHandle.buffers = {}
       /\ npuHandle.ins > MaxIo \/ npuHandle.outs > MaxIo]_nsVars

THEOREM OnlyCountsLeadAstray == NsSpec => AstrayOnlyByCounts
<1> DEFINE Led ==
      ~("astray" \in npuExcuses) /\ ("astray" \in npuExcuses)' =>
        /\ nsPc = "fail" /\ npuHandle.buffers = {}
        /\ npuHandle.ins > MaxIo \/ npuHandle.outs > MaxIo
<1>1. NsInv /\ [NsNext]_nsVars => [Led]_nsVars
  <2> SUFFICES ASSUME NsInv, NsNext, ~("astray" \in npuExcuses), ("astray" \in npuExcuses)'
               PROVE  /\ nsPc = "fail" /\ npuHandle.buffers = {}
                      /\ npuHandle.ins > MaxIo \/ npuHandle.outs > MaxIo
    OBVIOUS
  <2>1. npuExcuses' # npuExcuses
    OBVIOUS
  <2>2. (NsLoadFails \/ NsUnload) /\ \E refused \in BOOLEAN : Unload(refused)
    <3>1. CASE \E model \in {"face", "yolo"} : NsCommand(model)
      BY <2>1, <3>1 DEF NsCommand, npuVars
    <3>2. CASE NsCreate \/ NsInitNpu \/ NsLoadFlash \/ NsRun \/ NsFree \/ NsDeinit \/ NsClear \/ NsDies
      BY <2>1, <3>2
      DEF NsCreate, NsInitNpu, NsLoadFlash, NsRun, NsFree, NsDeinit, NsClear, NsDies, npuVars
    <3>3. CASE NsNetwork \/ NsCounts \/ NsBuffers \/ NsPrepare \/ NsOutputs
      BY <2>1, <3>3 DEF NsNetwork, NsCounts, NsBuffers, NsPrepare, NsOutputs, CreateNetwork,
                        QueryCounts, CreateBuffers, PrepareNetwork, Bind, npuVars
    <3>4. CASE NsInputs \/ NsMap \/ NsUnmap
      BY <2>1, <3>4 DEF NsInputs, NsMap, NsUnmap, SetInputs, MapOutputs, UnmapOutputs, npuVars
    <3>5. CASE NsLoadFails \/ NsUnload
      BY <3>5 DEF NsLoadFails, NsUnload
    <3> QED  BY <3>1, <3>2, <3>3, <3>4, <3>5 DEF NsNext, NsThread
  <2>3. PastTheArrays
    <3>1. ~PastTheArrays => ~("astray" \in npuExcuses)'
      BY <2>2 DEF Unload
    <3> QED  BY <3>1
  <2>4. npuHandle.ins > MaxIo \/ npuHandle.outs > MaxIo
    BY <2>3, NpuAssumption DEF PastTheArrays, NsInv, NsTypeOK, NpuTypeOK
  <2>5. nsPc \in {"fail", "unload"}
    BY <2>2 DEF NsLoadFails, NsUnload, Thread
  <2>6. nsPc = "unload" => npuHandle.ins <= MaxIo /\ npuHandle.outs <= MaxIo
    BY DEF NsInv, HandleView
  <2>7. npuHandle.ins \in Nat /\ npuHandle.outs \in Nat /\ MaxIo \in Nat
    BY NpuAssumption DEF NsInv, NsTypeOK, NpuTypeOK
  <2> QED  BY <2>4, <2>5, <2>6, <2>7 DEF NsInv, HandleView
<1> HIDE DEF Led
<1>2. NsSpec => [][Led]_nsVars
  BY <1>1, NsInvariant, PTL DEF NsSpec
<1> QED  BY <1>2 DEF Led, AstrayOnlyByCounts

\* The network only runs with all its slots bound and none of them mapped.
THEOREM InferenceIsReady == NsSpec => []NpuRunsReady
<1>1. NsInv => NpuRunsReady
  BY DEF NsInv, HandleView, NpuRunsReady, Running, Covered
<1> QED  BY NsInvariant, <1>1, PTL

\* A run has left the NPU, the flash image and the handle before the next one
\* can have the thread object.
THEOREM RunsTakeTurns == NsSpec => []NsRunsTakeTurns
<1>1. NsInv => NsRunsTakeTurns
  <2> SUFFICES ASSUME NsInv, ~nsRunning \/ nsShell = "join"
               PROVE  /\ nsPc \in {"ending", "dead"} /\ (nsStuck \/ ~nsUp)
                      /\ ~nsFlash /\ npuHandle = Zeroed
    BY DEF NsRunsTakeTurns
  <2>1. nsPc \in {"ending", "dead"}
    BY DEF NsInv, FlagView
  <2> QED  BY <2>1 DEF NsInv, FlagView, HandleView, Quiet
<1> QED  BY NsInvariant, <1>1, PTL
-----------------------------------------------------------------------------
\* What is left of a run of the sample, in steps of its thread.
NsLeft ==
  CASE nsPc = "dead"    -> 0
    [] nsPc = "ending"  -> 1
    [] nsPc = "clear"   -> 2
    [] nsPc = "deinit"  -> 3
    [] nsPc = "free"    -> 4
    [] nsPc \in {"unload", "fail"} -> 5
    [] nsPc = "unmap"   -> 6
    [] nsPc = "map"     -> 7
    [] nsPc = "run"     -> 8 + (Runs - nsRuns)
    [] nsPc = "inputs"  -> 9 + Runs
    [] nsPc = "outputs" -> 10 + Runs
    [] nsPc = "prepare" -> 11 + Runs
    [] nsPc = "buffers" -> 12 + Runs
    [] nsPc = "counts"  -> 13 + Runs
    [] nsPc = "network" -> 14 + Runs
    [] nsPc = "flash"   -> 15 + Runs
    [] nsPc = "init"    -> 16 + Runs

\* A run only ever gets shorter: no command restarts a thread that has not
\* ended, no failure sends it back, and each of its steps shortens it.
NsRunShortens ==
  [][nsPc # "dead" => NsLeft' =< NsLeft
                      /\ (nsPc' # nsPc \/ nsRuns' # nsRuns => NsLeft' < NsLeft)]_nsVars

LEMMA NsThreadShortens ==
  ASSUME NsInv, NsThread
  PROVE  NsLeft' < NsLeft
<1>0. nsRuns \in Nat /\ Runs \in Nat /\ (nsPc = "run" => nsRuns < Runs)
      /\ (nsPc = "inputs" => nsRuns = 0)
  BY NsAssumption DEF NsInv, NsTypeOK, FlagView
<1> USE DEF NsLeft, Thread
<1>1. CASE NsInitNpu \/ NsLoadFlash \/ NsNetwork
  BY <1>0, <1>1 DEF NsInitNpu, NsLoadFlash, NsNetwork
<1>2. CASE NsCounts \/ NsBuffers \/ NsPrepare
  BY <1>0, <1>2 DEF NsCounts, NsBuffers, NsPrepare
<1>3. CASE NsOutputs \/ NsLoadFails
  BY <1>0, <1>3 DEF NsOutputs, NsLoadFails
<1>4. CASE NsInputs
  BY <1>0, <1>4 DEF NsInputs
<1>5. CASE NsRun
  BY <1>0, <1>5 DEF NsRun
<1>6. CASE NsMap \/ NsUnmap \/ NsUnload \/ NsFree
  BY <1>0, <1>6 DEF NsMap, NsUnmap, NsUnload, NsFree
<1>7. CASE NsDeinit \/ NsClear \/ NsDies
  BY <1>0, <1>7 DEF NsDeinit, NsClear, NsDies
<1> QED  BY <1>1, <1>2, <1>3, <1>4, <1>5, <1>6, <1>7 DEF NsThread

\* So a run that was accepted is over after at most its calls and
\* NPU_SAMPLE_INFERENCE_RUNS inferences, whatever fails on the way: what
\* NsRunEnds needs besides fairness.
THEOREM NsRunsGetShorter == NsSpec => NsRunShortens
<1> DEFINE Shorter == NsLeft' =< NsLeft
                      /\ (nsPc' # nsPc \/ nsRuns' # nsRuns => NsLeft' < NsLeft)
<1>1. ASSUME NsInv, NsInv', NsNext, nsPc # "dead" PROVE Shorter
  <2>0. NsLeft \in Int /\ NsLeft' \in Int
    BY <1>1, NsAssumption DEF NsInv, NsTypeOK, NsLeft
  <2>1. CASE NsThread
    BY <1>1, <2>0, <2>1, NsThreadShortens
  <2>2. ASSUME NEW model \in {"face", "yolo"}, NsCommand(model) PROVE Shorter
    <3>1. nsPc' = nsPc /\ nsRuns' = nsRuns
      BY <2>2 DEF NsCommand
    <3>2. NsLeft' = NsLeft
      BY <3>1 DEF NsLeft
    <3> QED  BY <2>0, <3>1, <3>2
  <2>3. CASE NsCreate
    BY <1>1, <2>3 DEF NsCreate
  <2> QED  BY <1>1, <2>1, <2>2, <2>3 DEF NsNext
<1>2. NsInv /\ NsInv' /\ [NsNext]_nsVars => [nsPc # "dead" => Shorter]_nsVars
  BY <1>1
<1> QED  BY <1>2, NsInvariant, PTL DEF NsSpec, NsRunShortens
-----------------------------------------------------------------------------
\* The model loader.  While it runs, the struct is zeroed; once it looks for
\* the file, the content is known to end within the partition.
LdInv ==
  /\ LdTypeOK
  /\ ldPc # "idle" => ldModel = Unloaded
  /\ ldPc = "file" => ldImage <= Minus(ldLength, Headers)
  /\ LdCopyIsTheFile

LEMMA ModIsBelow == ASSUME NEW n \in Nat \ {0}, NEW x \in Int PROVE x % n \in 0..n - 1
OBVIOUS

LEMMA ModOfSmall == ASSUME NEW n \in Nat \ {0}, NEW x \in 0..n - 1 PROVE x % n = x
OBVIOUS

LEMMA ModIsNoMore == ASSUME NEW n \in Nat \ {0}, NEW x \in Nat PROVE x % n <= x
OBVIOUS

\* What is left when the remainder is taken away is a multiple.
LEMMA MultipleLeft == ASSUME NEW n \in Nat \ {0}, NEW x \in Nat PROVE (x - (x % n)) % n = 0
<1>1. x \div n \in Int
  OBVIOUS
<1>2. x - (x % n) = n * (x \div n)
  OBVIOUS
<1>3. \A q \in Int : (n * q) % n = 0
  OBVIOUS
<1> QED  BY <1>1, <1>2, <1>3

LEMMA WordFacts ==
  /\ \A a, b \in Words : Plus(a, b) \in Words /\ Minus(a, b) \in Words
  /\ \A a, b \in Words : b <= a => Minus(a, b) = a - b
  /\ \A a, b \in Words : a + b < Word => Plus(a, b) = a + b
  /\ Headers \in Words /\ Align - 1 \in Words
<1>1. ASSUME NEW a \in Words, NEW b \in Words
      PROVE  /\ Plus(a, b) \in Words /\ Minus(a, b) \in Words
             /\ b <= a => Minus(a, b) = a - b
             /\ a + b < Word => Plus(a, b) = a + b
  <2>1. Word \in Nat \ {0} /\ a + b \in Int /\ a - b \in Int
    BY LoaderAssumption DEF Words
  <2>2. b <= a => a - b \in 0..Word - 1
    BY LoaderAssumption DEF Words
  <2>3. a + b < Word => a + b \in 0..Word - 1
    BY LoaderAssumption DEF Words
  <2> QED  BY <2>1, <2>2, <2>3, ModIsBelow, ModOfSmall DEF Plus, Minus, Words
<1>2. Headers \in Words /\ Align - 1 \in Words
  BY LoaderAssumption DEF Words
<1> QED  BY <1>1, <1>2

\* Rounding up gives a word again; without a wrap it is a multiple of Align,
\* and less than Align away.
LEMMA RoundedUpFacts ==
  ASSUME NEW a \in Words
  PROVE  /\ RoundedUp(a) \in Words
         /\ RoundedUp(a) % Align = 0
         /\ a + Align - 1 < Word => a <= RoundedUp(a) /\ RoundedUp(a) <= a + Align - 1
<1> DEFINE up == Plus(a, Align - 1)
<1>1. up \in Words /\ up \in Nat
  BY WordFacts DEF Words
<1>2. up % Align \in 0..Align - 1 /\ up % Align <= up /\ (up - (up % Align)) % Align = 0
  BY <1>1, LoaderAssumption, ModIsBelow, ModIsNoMore, MultipleLeft
<1>3. RoundedUp(a) = up - (up % Align)
  BY DEF RoundedUp
<1>4. a + Align - 1 < Word => up = a + Align - 1
  BY WordFacts, LoaderAssumption DEF Words
<1> HIDE DEF up
<1> QED  BY <1>1, <1>2, <1>3, <1>4, LoaderAssumption DEF Words

LEMMA LdInitially == LdInit => LdInv
<1> SUFFICES ASSUME LdInit PROVE LdInv
  OBVIOUS
<1>1. 0 \in Words
  BY LoaderAssumption DEF Words
<1> QED  BY <1>1 DEF LdInit, LdInv, LdTypeOK, LdCopyIsTheFile, NoFile, NoBlock, Unloaded

\* The range check leaves a file that ends within the partition, and a size
\* for malloc that does not wrap.
LEMMA FileFits ==
  ASSUME LdInv, ldPc = "file", NEW offset \in Words, NEW length \in Words,
         InContent([offset |-> offset, length |-> length]), Headers <= ldLength
  PROVE  /\ length > 0
         /\ Headers + offset + length <= ldLength
         /\ Plus(length, Align - 1) = length + Align - 1
<1>1. ldLength \in Words /\ ldImage \in Words
  BY DEF LdInv, LdTypeOK
<1>2. ldImage <= ldLength - Headers
  BY <1>1, WordFacts DEF LdInv
<1>3. length # 0 /\ offset <= ldImage /\ length <= Minus(ldImage, offset)
  BY DEF InContent
<1>4. length <= ldImage - offset
  BY <1>1, <1>3, WordFacts
<1>5. Headers + offset + length <= ldLength /\ length > 0
  BY <1>1, <1>2, <1>3, <1>4, LoaderAssumption DEF Words
<1>6. length + (Align - 1) < Word
  BY <1>1, <1>5, LoaderAssumption DEF Words
<1>7. Plus(length, Align - 1) = length + (Align - 1)
  BY <1>6, WordFacts
<1> QED  BY <1>5, <1>7, LoaderAssumption DEF Words

LEMMA LdPreserved == LdInv /\ [LdNext]_ldVars => LdInv'
<1> SUFFICES ASSUME LdInv, [LdNext]_ldVars PROVE LdInv'
  OBVIOUS
<1>0. 0 \in Words
  BY LoaderAssumption DEF Words
<1>1. CASE LdLoad
  BY <1>0, <1>1 DEF LdInv, LdLoad, LdTypeOK, LdCopyIsTheFile, NoFile, NoBlock, Unloaded
<1>2. CASE LdPartition
  BY <1>2 DEF LdInv, LdPartition, LdTypeOK, LdCopyIsTheFile
<1>3. CASE LdImage
  <2>1. ldImage' \in Words
    BY <1>3, LoaderAssumption DEF LdImage, LdInv, LdTypeOK, Words
  <2>2. ldPc' \in {"idle", "file"} /\ ldModel' = Unloaded
    BY <1>3 DEF LdImage, LdInv
  <2>3. ldPc' = "file" => ldImage' <= Minus(ldLength', Headers)
    <3>1. CASE ldPc' = "idle" /\ UNCHANGED ldImage
      BY <3>1
    <3>2. CASE ldPc' = IF ldImage' > Minus(ldLength, Headers) THEN "idle" ELSE "file"
      <4>1. Minus(ldLength, Headers) \in Words /\ ldLength' = ldLength
        BY <1>3, WordFacts DEF LdImage, LdInv, LdTypeOK
      <4> QED  BY <2>1, <3>2, <4>1 DEF Words
    <3> QED  BY <1>3, <3>1, <3>2 DEF LdImage
  <2> QED  BY <1>3, <2>1, <2>2, <2>3 DEF LdInv, LdImage, LdTypeOK, LdCopyIsTheFile
<1>4. CASE LdFile
  <2>1. ldPc = "file" /\ ldPc' = "idle" /\ ldLength' = ldLength /\ ldImage' = ldImage
    BY <1>4 DEF LdFile
  <2>2. CASE UNCHANGED <<ldFile, ldBlock, ldModel>>
    BY <2>1, <2>2 DEF LdInv, LdTypeOK, LdCopyIsTheFile
  <2>3. ASSUME NEW offset \in Words, NEW length \in Words,
               InContent([offset |-> offset, length |-> length]),
               ldFile' = [offset |-> offset, length |-> length],
               NEW at \in 1..Word - Plus(length, Align - 1), at < Word,
               ldBlock' = [at |-> at, size |-> Plus(length, Align - 1)],
               ldModel' = [alloc |-> at, data |-> RoundedUp(at), size |-> length]
        PROVE  LdInv'
    <3>1. Plus(length, Align - 1) \in Words /\ at \in Words
      BY <2>3, WordFacts, LoaderAssumption DEF Words
    <3>2. LdTypeOK'
      BY <2>1, <2>3, <3>1, RoundedUpFacts DEF LdInv, LdTypeOK
    <3>3. ASSUME ldLength >= Headers
          PROVE  /\ Headers + offset + length <= ldLength /\ length > 0
                 /\ RoundedUp(at) % Align = 0
                 /\ at <= RoundedUp(at)
                 /\ RoundedUp(at) + length <= at + Plus(length, Align - 1)
      <4>0. ldLength \in Words /\ Headers <= ldLength
        BY <3>3, LoaderAssumption DEF LdInv, LdTypeOK, Words
      <4>1. /\ length > 0 /\ Headers + offset + length <= ldLength
            /\ Plus(length, Align - 1) = length + Align - 1
        BY <2>1, <2>3, <4>0, FileFits
      <4>2. at + Align - 1 < Word
        BY <2>3, <3>1, <4>1, LoaderAssumption DEF Words
      <4>3. /\ RoundedUp(at) % Align = 0 /\ RoundedUp(at) \in Words
            /\ at <= RoundedUp(at) /\ RoundedUp(at) <= at + Align - 1
        BY <3>1, <4>2, RoundedUpFacts
      <4> QED  BY <3>1, <4>1, <4>3, LoaderAssumption DEF Words
    <3>4. LdCopyIsTheFile'
      BY <2>1, <2>3, <3>3 DEF LdCopyIsTheFile
    <3> QED  BY <2>1, <3>2, <3>4 DEF LdInv
  <2>4. ASSUME NEW offset \in Words, NEW length \in Words,
               InContent([offset |-> offset, length |-> length]),
               ldFile' = [offset |-> offset, length |-> length], LdCopy(ldFile')
        PROVE  LdInv'
    BY <2>3, <2>4 DEF LdCopy
  <2> QED  BY <1>4, <2>2, <2>4 DEF LdFile
<1>5. CASE LdUnload
  BY <1>0, <1>5 DEF LdInv, LdUnload, LdTypeOK, LdCopyIsTheFile, Unloaded
<1>6. CASE UNCHANGED ldVars
  BY <1>6 DEF ldVars, LdInv, LdTypeOK, LdCopyIsTheFile
<1> QED  BY <1>1, <1>2, <1>3, <1>4, <1>5, <1>6 DEF LdNext

\* For words of any width: a model that was loaded is a whole file of its
\* partition in an aligned place within its block, provided that the partition
\* has room for the two headers and these are not smaller than the padding.
THEOREM LoadedModelIsWhole == LdSpec => []LdCopyIsTheFile
<1>1. LdInv => LdCopyIsTheFile
  BY DEF LdInv
<1> QED  BY LdInitially, LdPreserved, <1>1, PTL DEF LdSpec
\* The loader's variables hold words of the given width.
THEOREM LoaderTypeCorrect == LdSpec => []LdTypeOK
<1>1. LdInv => LdTypeOK
  BY DEF LdInv
<1> QED  BY LdInitially, LdPreserved, <1>1, PTL DEF LdSpec

-----------------------------------------------------------------------------
Box == [class : 1..DetClasses, score : DetScores, invalid : BOOLEAN]

DetTypes ==
  /\ detBoxes \in Seq(Box)
  /\ detSeen \in Nat
  /\ detClass \in Nat /\ detTurn \in Nat \ {0}
  /\ Len(detOrder) \in Nat

\* Overlapping is symmetric.
NearView == \A a, b : <<a, b>> \in detNear => <<b, a>> \in detNear

\* A candidate that is not in the array found it full.
ToldView == Len(detBoxes) = detSeen \/ detFull = TRUE

\* The order lists the boxes of the class once each, by falling score.
OrderView ==
  /\ \A j \in 1..Len(detOrder) :
       detOrder[j] \in DOMAIN detBoxes /\ detBoxes[detOrder[j]].class = detClass
  /\ \A i \in DOMAIN detBoxes :
       detBoxes[i].class = detClass => \E j \in 1..Len(detOrder) : detOrder[j] = i
  /\ \A i, j \in 1..Len(detOrder) :
       i < j => /\ detOrder[i] # detOrder[j]
                /\ detBoxes[detOrder[i]].score >= detBoxes[detOrder[j]].score

\* So far exactly those are suppressed that a valid one before them overlaps.
TurnView ==
  \A j \in 1..Len(detOrder) :
    detBoxes[detOrder[j]].invalid <=>
      \E i \in 1..Len(detOrder) :
        /\ i < j /\ i < detTurn
        /\ ~detBoxes[detOrder[i]].invalid /\ <<detOrder[i], detOrder[j]>> \in detNear

\* Whether box i of these has been decided as the reference decides it.
Rivalled(boxes, i) ==
  \E k \in DOMAIN boxes :
    /\ k # i /\ ~boxes[k].invalid /\ <<k, i>> \in detNear
    /\ boxes[k].class = boxes[i].class /\ boxes[k].score >= boxes[i].score

\* Earlier classes are decided, later ones untouched.
ClassView ==
  \A i \in DOMAIN detBoxes :
    /\ detBoxes[i].class < detClass => (detBoxes[i].invalid <=> Rivalled(detBoxes, i))
    /\ detBoxes[i].class > detClass => ~detBoxes[i].invalid

DetInv ==
  DetTypes /\ NearView /\ ToldView /\ OrderView /\ TurnView /\ ClassView

LEMMA BoxFacts ==
  ASSUME NEW boxes \in Seq(Box), NEW i \in DOMAIN boxes
  PROVE  /\ boxes[i] \in Box
         /\ boxes[i].class \in Nat /\ boxes[i].class > 0 /\ boxes[i].class <= DetClasses
<1>1. boxes[i] \in Box
  OBVIOUS
<1>2. boxes[i].class \in 1..DetClasses
  BY <1>1 DEF Box
<1> QED  BY <1>1, <1>2, DetAssumption

LEMMA DetInitially == DetInit => DetInv
<1> SUFFICES ASSUME DetInit PROVE DetInv
  OBVIOUS
<1>1. NearView
  <2>1. PICK half \in SUBSET ((1..MaxCandidates) \X (1..MaxCandidates)) :
          detNear = half \cup {<<p[2], p[1]>> : p \in half}
    BY DEF DetInit
  <2>2. \A p \in half : p = <<p[1], p[2]>>
    OBVIOUS
  <2>3. ASSUME NEW a, NEW b, <<a, b>> \in detNear PROVE <<b, a>> \in detNear
    <3>1. CASE <<a, b>> \in half
      BY <2>1, <3>1
    <3>2. CASE \E p \in half : <<a, b>> = <<p[2], p[1]>>
      BY <2>1, <2>2, <3>2
    <3> QED  BY <2>1, <2>3, <3>1, <3>2
  <2> QED  BY <2>3 DEF NearView
<1>2. detBoxes = <<>> /\ detOrder = <<>> /\ detSeen = 0 /\ detClass = 0 /\ detTurn = 1
  BY DEF DetInit
<1>3. Len(detBoxes) = 0 /\ Len(detOrder) = 0 /\ DOMAIN detBoxes = {} /\ detBoxes \in Seq(Box)
  BY <1>2
<1>4. DetTypes /\ ToldView
  BY <1>2, <1>3 DEF DetInit, DetTypes, ToldView
<1> QED  BY <1>1, <1>2, <1>3, <1>4 DEF DetInv, OrderView, TurnView, ClassView

\* A class gone through is decided as the reference decides it: a rival later
\* in the order has the same score, and its own overlap has suppressed it.
LEMMA ClassDecided ==
  ASSUME DetInv, detTurn > Len(detOrder),
         NEW i \in DOMAIN detBoxes, detBoxes[i].class = detClass
  PROVE  detBoxes[i].invalid <=> Rivalled(detBoxes, i)
<1> USE DEF DetInv, DetTypes
<1>1. PICK j \in 1..Len(detOrder) : detOrder[j] = i
  BY DEF OrderView
<1>2. ASSUME detBoxes[i].invalid PROVE Rivalled(detBoxes, i)
  <2>1. PICK m \in 1..Len(detOrder) :
          /\ m < j /\ ~detBoxes[detOrder[m]].invalid /\ <<detOrder[m], i>> \in detNear
    BY <1>1, <1>2 DEF TurnView
  <2>2. /\ detOrder[m] \in DOMAIN detBoxes /\ detOrder[m] # i
        /\ detBoxes[detOrder[m]].class = detBoxes[i].class
        /\ detBoxes[detOrder[m]].score >= detBoxes[i].score
    BY <1>1, <2>1 DEF OrderView
  <2> QED  BY <2>1, <2>2 DEF Rivalled
<1>3. ASSUME Rivalled(detBoxes, i), ~detBoxes[i].invalid PROVE FALSE
  <2>1. PICK k \in DOMAIN detBoxes :
          /\ k # i /\ ~detBoxes[k].invalid /\ <<k, i>> \in detNear
          /\ detBoxes[k].class = detBoxes[i].class
    BY <1>3 DEF Rivalled
  <2>2. PICK m \in 1..Len(detOrder) : detOrder[m] = k
    BY <2>1 DEF OrderView
  <2>3. <<i, k>> \in detNear
    BY <2>1 DEF NearView
  <2>4. j \in Nat /\ m \in Nat /\ j < detTurn /\ m < detTurn /\ (m < j \/ j < m)
    BY <1>1, <2>1, <2>2
  <2>5. CASE m < j
    BY <1>1, <1>3, <2>1, <2>2, <2>4, <2>5 DEF TurnView
  <2>6. CASE j < m
    BY <1>1, <1>3, <2>1, <2>2, <2>3, <2>4, <2>6 DEF TurnView
  <2> QED  BY <2>4, <2>5, <2>6
<1> QED  BY <1>2, <1>3

\* What qsort leaves is a list of all the boxes of the class.
LEMMA SortedLists ==
  ASSUME detBoxes \in Seq(Box), NEW class \in Nat, NEW s \in Sorted(class)
  PROVE  /\ Len(s) \in Nat
         /\ \A j \in 1..Len(s) : s[j] \in DOMAIN detBoxes /\ detBoxes[s[j]].class = class
         /\ \A i \in DOMAIN detBoxes :
              detBoxes[i].class = class => \E j \in 1..Len(s) : s[j] = i
         /\ \A i, j \in 1..Len(s) :
              i < j => s[i] # s[j] /\ detBoxes[s[i]].score >= detBoxes[s[j]].score
<1> DEFINE mine == {i \in 1..Len(detBoxes) : detBoxes[i].class = class}
<1>1. IsFiniteSet(mine) /\ Cardinality(mine) \in Nat
  <2>1. IsFiniteSet(1..Len(detBoxes))
    BY FS_Interval
  <2>2. mine \subseteq 1..Len(detBoxes)
    OBVIOUS
  <2> HIDE DEF mine
  <2> QED  BY <2>1, <2>2, FS_Subset, FS_CardinalityType
<1>2. PICK n \in Nat : n = Cardinality(mine)
  BY <1>1
<1>3. /\ s \in [1..n -> mine]
      /\ \A i, j \in 1..n :
           i < j => s[i] # s[j] /\ detBoxes[s[i]].score >= detBoxes[s[j]].score
  <2>1. s \in [1..n -> mine]
    BY <1>2 DEF Sorted
  <2>2. DOMAIN s = 1..n
    BY <2>1
  <2> QED  BY <2>1, <2>2 DEF Sorted
<1>4. Len(s) = n
  <2>1. s \in Seq(mine)
    <3> HIDE DEF mine
    <3> QED  BY <1>3
  <2> QED  BY <1>3, <2>1
<1>5. \A i \in mine : \E j \in 1..n : s[j] = i
  <2>1. \A i, j \in 1..n : s[i] = s[j] => i = j
    <3> SUFFICES ASSUME NEW i \in 1..n, NEW j \in 1..n, s[i] = s[j], i # j PROVE FALSE
      OBVIOUS
    <3>1. i < j \/ j < i
      OBVIOUS
    <3> QED  BY <1>3, <3>1
  <2>2. s \in Injection(1..n, mine)
    BY <1>3, <2>1 DEF Injection, IsInjective
  <2>3. Cardinality(1..n) = Cardinality(mine)
    BY <1>2, FS_Interval
  <2>4. s \in Surjection(1..n, mine)
    <3> HIDE DEF mine
    <3> QED  BY <1>1, <2>2, <2>3, FS_Injection
  <2> QED  BY <2>4 DEF Surjection
<1>6. DOMAIN detBoxes = 1..Len(detBoxes)
  OBVIOUS
<1> QED  BY <1>3, <1>4, <1>5, <1>6

LEMMA DetPreserved == DetInv /\ [DetNext]_detVars => DetInv'
<1> SUFFICES ASSUME DetInv, [DetNext]_detVars PROVE DetInv'
  OBVIOUS
<1>0. /\ DetTypes /\ NearView /\ ToldView /\ OrderView /\ TurnView /\ ClassView
      /\ detBoxes \in Seq(Box) /\ DOMAIN detBoxes = 1..Len(detBoxes) /\ Len(detBoxes) \in Nat
      /\ detClass \in Nat /\ detTurn \in Nat /\ detTurn > 0 /\ Len(detOrder) \in Nat
  BY DEF DetInv, DetTypes
<1>00. \A i \in DOMAIN detBoxes :
         detBoxes[i] \in Box /\ detBoxes[i].class \in Nat /\ detBoxes[i].class > 0
  BY <1>0, BoxFacts
\* decoding: no class is being gone through
<1>1. ASSUME NEW class \in 1..DetClasses, NEW score \in DetScores, DetAdd(class, score)
      PROVE  DetInv'
  <2>1. \A i \in DOMAIN detBoxes : detBoxes[i].class # 0 /\ ~detBoxes[i].invalid
    BY <1>0, <1>00, <1>1 DEF DetAdd, ClassView
  <2>2. Len(detOrder) = 0
    <3>1. \A j \in 1..Len(detOrder) : FALSE
      BY <1>0, <1>1, <2>1 DEF DetAdd, OrderView
    <3> QED  BY <1>0, <3>1
  <2>3. CASE Len(detBoxes) >= MaxCandidates
    <3>1. UNCHANGED <<detBoxes, detOrder, detClass, detTurn, detNear>> /\ detFull' = TRUE
          /\ detSeen' = detSeen + 1
      BY <1>1, <2>3 DEF DetAdd
    <3>2. OrderView' /\ TurnView' /\ ClassView'
      BY <1>0, <3>1 DEF OrderView, TurnView, ClassView, Rivalled
    <3>3. NearView'
      BY <1>0, <3>1 DEF NearView
    <3>4. DetTypes'
      BY <1>0, <3>1 DEF DetTypes
    <3>5. ToldView'
      BY <3>1 DEF ToldView
    <3> QED  BY <3>2, <3>3, <3>4, <3>5 DEF DetInv
  <2>4. CASE ~(Len(detBoxes) >= MaxCandidates)
    <3> DEFINE new == [class |-> class, score |-> score, invalid |-> FALSE]
    <3>1. /\ detBoxes' = Append(detBoxes, new) /\ detClass = 0 /\ new \in Box
          /\ detSeen' = detSeen + 1
          /\ UNCHANGED <<detFull, detOrder, detClass, detTurn, detNear>>
      BY <1>1, <2>4 DEF DetAdd, Box
    <3>2. /\ detBoxes' \in Seq(Box) /\ Len(detBoxes') = Len(detBoxes) + 1
          /\ \A i \in DOMAIN detBoxes' : detBoxes'[i] = new \/ (i \in DOMAIN detBoxes /\ detBoxes'[i] = detBoxes[i])
      <4> HIDE DEF new
      <4> QED  BY <1>0, <3>1
    <3>3. \A i \in DOMAIN detBoxes' : detBoxes'[i].class \in Nat /\ detBoxes'[i].class > 0
                                      /\ ~detBoxes'[i].invalid
      <4>1. new.class \in Nat /\ new.class > 0 /\ ~new.invalid
        OBVIOUS
      <4>2. \A i \in DOMAIN detBoxes : detBoxes[i].class \in Nat /\ detBoxes[i].class > 0
        BY <1>00
      <4> HIDE DEF new
      <4> QED  BY <2>1, <3>2, <4>1, <4>2
    <3>4. DetTypes' /\ NearView' /\ ToldView'
      <4>1. NearView'
        BY <1>0, <3>1 DEF NearView
      <4>2. detSeen \in Nat
        BY <1>0 DEF DetTypes
      <4>3. ToldView'
        BY <1>0, <3>1, <3>2, <4>2 DEF ToldView
      <4>4. DetTypes'
        BY <1>0, <3>1, <3>2, <4>2 DEF DetTypes
      <4> QED  BY <4>1, <4>3, <4>4
    <3>5. OrderView' /\ TurnView' /\ ClassView'
      BY <2>2, <3>1, <3>3 DEF OrderView, TurnView, ClassView
    <3> QED  BY <3>4, <3>5 DEF DetInv
  <2> QED  BY <2>3, <2>4
\* the next class: the one gone through is decided
<1>2. CASE DetNextClass
  <2>1. /\ detTurn > Len(detOrder) /\ detClass' = detClass + 1 /\ detTurn' = 1
        /\ detOrder' \in Sorted(detClass + 1)
        /\ UNCHANGED <<detNear, detBoxes, detFull, detSeen>>
    BY <1>2 DEF DetNextClass
  <2>2. OrderView' /\ DetTypes'
    <3>1. detClass + 1 \in Nat
      BY <1>0
    <3>2. /\ Len(detOrder') \in Nat
          /\ \A j \in 1..Len(detOrder') :
               detOrder'[j] \in DOMAIN detBoxes /\ detBoxes[detOrder'[j]].class = detClass + 1
          /\ \A i \in DOMAIN detBoxes :
               detBoxes[i].class = detClass + 1 => \E j \in 1..Len(detOrder') : detOrder'[j] = i
          /\ \A i, j \in 1..Len(detOrder') :
               i < j => /\ detOrder'[i] # detOrder'[j]
                        /\ detBoxes[detOrder'[i]].score >= detBoxes[detOrder'[j]].score
      BY <1>0, <2>1, <3>1, SortedLists
    <3>3. OrderView'
      BY <2>1, <3>2 DEF OrderView
    <3>4. DetTypes'
      BY <1>0, <2>1, <3>1, <3>2 DEF DetTypes
    <3> QED  BY <3>3, <3>4
  <2>3. TurnView'
    <3>1. \A j \in 1..Len(detOrder') :
            detOrder'[j] \in DOMAIN detBoxes /\ detBoxes[detOrder'[j]].class = detClass + 1
      BY <2>1, <2>2 DEF OrderView
    <3>2. \A j \in 1..Len(detOrder') : ~detBoxes[detOrder'[j]].invalid
      BY <1>0, <3>1 DEF ClassView
    <3>3. \A i \in 1..Len(detOrder') : ~(i < 1)
      OBVIOUS
    <3> QED  BY <2>1, <3>2, <3>3 DEF TurnView
  <2>4. ClassView'
    <3> SUFFICES ASSUME NEW i \in DOMAIN detBoxes
                 PROVE  /\ detBoxes[i].class < detClass + 1 =>
                             (detBoxes[i].invalid <=> Rivalled(detBoxes, i))
                        /\ detBoxes[i].class > detClass + 1 => ~detBoxes[i].invalid
      BY <2>1 DEF ClassView, Rivalled
    <3>1. detBoxes[i].class \in Nat /\ detClass \in Nat
      BY <1>0, <1>00
    <3>2. CASE detBoxes[i].class = detClass
      BY <2>1, <3>1, <3>2, ClassDecided
    <3> QED  BY <1>0, <3>1, <3>2 DEF ClassView
  <2>5. NearView' /\ ToldView'
    BY <1>0, <2>1 DEF NearView, ToldView
  <2> QED  BY <2>2, <2>3, <2>4, <2>5 DEF DetInv
\* one turn: only later boxes of the same class change
<1>3. CASE DetSuppress
  <2> DEFINE a == detOrder[detTurn]
  <2>1. /\ detTurn \in 1..Len(detOrder) /\ detTurn' = detTurn + 1
        /\ UNCHANGED <<detNear, detFull, detSeen, detClass, detOrder>>
    BY <1>0, <1>3 DEF DetSuppress, DetTypes
  <2>2. PICK hit :
          /\ \A i : i \in hit <=> \E j \in 1..Len(detOrder) :
               j > detTurn /\ i = detOrder[j] /\ <<a, i>> \in detNear
          /\ detBoxes' = IF detBoxes[a].invalid THEN detBoxes
                         ELSE [i \in DOMAIN detBoxes |->
                                 [detBoxes[i] EXCEPT !.invalid = @ \/ i \in hit]]
    <3> DEFINE h == {detOrder[j] : j \in {j \in detTurn + 1..Len(detOrder) :
                                     <<a, detOrder[j]>> \in detNear}}
    <3>1. \A j : j \in detTurn + 1..Len(detOrder) <=> j \in 1..Len(detOrder) /\ j > detTurn
      BY <1>0, <2>1
    <3>2. \A i : i \in h <=> \E j \in 1..Len(detOrder) :
               j > detTurn /\ i = detOrder[j] /\ <<a, i>> \in detNear
      BY <3>1
    <3>3. detBoxes' = IF detBoxes[a].invalid THEN detBoxes
                      ELSE [i \in DOMAIN detBoxes |->
                              [detBoxes[i] EXCEPT !.invalid = @ \/ i \in h]]
      BY <1>3 DEF DetSuppress
    <3> HIDE DEF h
    <3> QED  BY <3>2, <3>3
  <2> HIDE DEF a
  <2>3. \A i \in DOMAIN detBoxes :
          /\ detBoxes[i] \in Box
          /\ detBoxes'[i] \in Box
          /\ detBoxes'[i].class = detBoxes[i].class /\ detBoxes'[i].score = detBoxes[i].score
          /\ detBoxes'[i].invalid <=>
               detBoxes[i].invalid \/ (~detBoxes[a].invalid /\ i \in hit)
    <3> SUFFICES ASSUME NEW i \in DOMAIN detBoxes
                 PROVE  /\ detBoxes[i] \in Box
                        /\ detBoxes'[i] \in Box
                        /\ detBoxes'[i].class = detBoxes[i].class
                        /\ detBoxes'[i].score = detBoxes[i].score
                        /\ detBoxes'[i].invalid <=>
                             detBoxes[i].invalid \/ (~detBoxes[a].invalid /\ i \in hit)
      OBVIOUS
    <3>1. detBoxes[i] \in Box
      BY <1>00
    <3>2. CASE detBoxes[a].invalid
      BY <2>2, <3>1, <3>2
    <3>3. CASE ~detBoxes[a].invalid
      <4>1. detBoxes'[i] = [detBoxes[i] EXCEPT !.invalid = detBoxes[i].invalid \/ i \in hit]
        BY <2>2, <3>3
      <4> QED  BY <3>1, <3>3, <4>1 DEF Box
    <3> QED  BY <3>2, <3>3
  <2>4. detBoxes' \in Seq(Box) /\ DOMAIN detBoxes' = DOMAIN detBoxes /\ Len(detBoxes') = Len(detBoxes)
    <3>1. detBoxes' \in [1..Len(detBoxes) -> Box]
      BY <1>0, <2>2, <2>3
    <3> QED  BY <1>0, <3>1
  <2>5. DetTypes' /\ NearView' /\ ToldView'
    <3>1. NearView'
      BY <1>0, <2>1 DEF NearView
    <3>2. ToldView'
      BY <1>0, <2>1, <2>4 DEF ToldView
    <3>3. DetTypes'
      BY <1>0, <2>1, <2>4 DEF DetTypes
    <3> QED  BY <3>1, <3>2, <3>3
  <2>6. OrderView'
    BY <1>0, <2>1, <2>3, <2>4 DEF OrderView
  <2>7. \A i \in DOMAIN detBoxes :
          detBoxes[i].class # detClass => detBoxes'[i].invalid = detBoxes[i].invalid
    <3>1. \A i \in hit : detBoxes[i].class = detClass
      <4> SUFFICES ASSUME NEW i \in hit PROVE detBoxes[i].class = detClass
        OBVIOUS
      <4>1. PICK j \in 1..Len(detOrder) : i = detOrder[j]
        BY <2>2
      <4> QED  BY <1>0, <4>1 DEF OrderView
    <3> QED  BY <2>3, <3>1 DEF Box
  <2>8. ClassView'
    <3> SUFFICES ASSUME NEW i \in DOMAIN detBoxes
                 PROVE  /\ detBoxes[i].class < detClass =>
                             (detBoxes'[i].invalid <=> Rivalled(detBoxes, i)')
                        /\ detBoxes[i].class > detClass => ~detBoxes'[i].invalid
      BY <2>1, <2>3, <2>4 DEF ClassView, Rivalled
    <3>1. detBoxes[i].class \in Nat /\ detClass \in Nat
      BY <1>0, <1>00
    <3>2. ASSUME detBoxes[i].class # detClass
          PROVE  Rivalled(detBoxes, i)' <=> Rivalled(detBoxes, i)
      BY <2>1, <2>3, <2>4, <2>7, <3>2 DEF Rivalled
    <3> QED  BY <1>0, <2>7, <3>1, <3>2 DEF ClassView
  <2>9. \A j \in 1..Len(detOrder) :
          /\ detOrder[j] \in DOMAIN detBoxes
          /\ detOrder[j] \in hit <=> j > detTurn /\ <<a, detOrder[j]>> \in detNear
    <3> SUFFICES ASSUME NEW j \in 1..Len(detOrder)
                 PROVE  /\ detOrder[j] \in DOMAIN detBoxes
                        /\ detOrder[j] \in hit <=> j > detTurn /\ <<a, detOrder[j]>> \in detNear
      OBVIOUS
    <3>1. \A k \in 1..Len(detOrder) : detOrder[k] = detOrder[j] => k = j
      <4> SUFFICES ASSUME NEW k \in 1..Len(detOrder), detOrder[k] = detOrder[j], k # j PROVE FALSE
        OBVIOUS
      <4>1. k < j \/ j < k
        OBVIOUS
      <4> QED  BY <1>0, <4>1 DEF OrderView
    <3> QED  BY <1>0, <2>2, <3>1 DEF OrderView
  <2>10. TurnView'
    <3>1. \A j \in 1..Len(detOrder) :
            detBoxes'[detOrder[j]].invalid <=>
              \/ detBoxes[detOrder[j]].invalid
              \/ ~detBoxes[a].invalid /\ j > detTurn /\ <<a, detOrder[j]>> \in detNear
      BY <2>3, <2>9
    <3>2. ASSUME NEW j \in 1..Len(detOrder)
          PROVE  detBoxes'[detOrder[j]].invalid <=>
                   \E i \in 1..Len(detOrder) :
                     /\ i < j /\ i < detTurn + 1
                     /\ ~detBoxes'[detOrder[i]].invalid /\ <<detOrder[i], detOrder[j]>> \in detNear
      <4>1. \A i \in 1..Len(detOrder) : i < detTurn + 1 <=> i < detTurn \/ i = detTurn
        BY <2>1
      <4>2. \A i \in 1..Len(detOrder) : i < detTurn + 1 =>
              (detBoxes'[detOrder[i]].invalid <=> detBoxes[detOrder[i]].invalid)
        <5>1. \A i \in 1..Len(detOrder) : i < detTurn + 1 => ~(i > detTurn)
          BY <2>1
        <5> QED  BY <3>1, <5>1
      <4>3. detBoxes[detOrder[j]].invalid <=>
              \E i \in 1..Len(detOrder) :
                /\ i < j /\ i < detTurn
                /\ ~detBoxes[detOrder[i]].invalid /\ <<detOrder[i], detOrder[j]>> \in detNear
        BY <1>0 DEF TurnView
      <4>4. j > detTurn <=> detTurn < j
        BY <2>1
      <4> QED  BY <2>1, <3>1, <4>1, <4>2, <4>3, <4>4 DEF a
    <3> QED  BY <2>1, <3>2 DEF TurnView
  <2> QED  BY <2>5, <2>6, <2>8, <2>10 DEF DetInv
<1>4. CASE UNCHANGED detVars
  BY <1>0, <1>4
  DEF detVars, DetInv, DetTypes, NearView, ToldView, OrderView, TurnView, ClassView, Rivalled
<1> QED  BY <1>1, <1>2, <1>3, <1>4 DEF DetNext

\* For any boxes, classes and overlaps: what is reported is what the reference
\* for the suppression reports, and a candidate without room is told of.
THEOREM SuppressionIsRight == DetSpec => []DetReportsTheBest
<1>1. DetInv => DetReportsTheBest
  <2> SUFFICES ASSUME DetInv, detClass > DetClasses
               PROVE  /\ \A i \in DOMAIN detBoxes : i \in Reported <=> Rivals(i) = {}
                      /\ Len(detBoxes) = detSeen \/ detFull
    BY DEF DetReportsTheBest
  <2>1. ASSUME NEW i \in DOMAIN detBoxes PROVE i \in Reported <=> Rivals(i) = {}
    <3>1. detBoxes[i].class < detClass
      <4>1. detBoxes \in Seq(Box) /\ detClass \in Nat
        BY DEF DetInv, DetTypes
      <4>2. detBoxes[i].class \in Nat /\ detBoxes[i].class <= DetClasses
        BY <2>1, <4>1, BoxFacts
      <4> QED  BY <4>1, <4>2, DetAssumption
    <3>2. detBoxes[i].invalid <=> Rivalled(detBoxes, i)
      BY <3>1 DEF DetInv, ClassView
    <3>3. Rivalled(detBoxes, i) <=> Rivals(i) # {}
      BY DEF Rivalled, Rivals, Reported
    <3> QED  BY <3>2, <3>3 DEF Reported
  <2> QED  BY <2>1 DEF DetInv, ToldView
<1> QED  BY DetInitially, DetPreserved, <1>1, PTL DEF DetSpec
-----------------------------------------------------------------------------
LEMMA UpToIsFinite == ASSUME NEW n \in Nat PROVE IsFiniteSet(1..n) /\ Cardinality(1..n) = n
BY FS_Interval

\* No class has more boxes than there are.
DetFits == DetTypeOK /\ Len(detOrder) <= Len(detBoxes)

LEMMA DetFitsInitially == DetInit => DetFits
<1> SUFFICES ASSUME DetInit PROVE DetFits
  OBVIOUS
<1>1. detNear \subseteq (1..MaxCandidates) \X (1..MaxCandidates)
  BY DEF DetInit
<1>2. detBoxes = <<>> /\ detOrder = <<>> /\ detSeen = 0 /\ detClass = 0 /\ detTurn = 1
      /\ detFull = FALSE
  BY DEF DetInit
<1>3. /\ Len(detBoxes) = 0 /\ Len(detOrder) = 0 /\ detOrder \in Seq(1..Len(detBoxes))
      /\ detBoxes \in Seq([class : 1..DetClasses, score : DetScores, invalid : BOOLEAN])
  BY <1>2
<1>4. Len(detBoxes) <= MaxCandidates /\ 0 \in 0..DetSeen /\ 0 \in 0..DetClasses + 1
      /\ 1 \in 1..MaxCandidates + 1
  BY <1>3, DetAssumption
<1>5. detSeen \in 0..DetSeen /\ detClass \in 0..DetClasses + 1 /\ detTurn \in 1..MaxCandidates + 1
      /\ detFull \in BOOLEAN
  BY <1>2, <1>4
<1>6. Len(detOrder) <= Len(detBoxes)
  BY <1>3
<1> QED  BY ONLY <1>1, <1>3, <1>4, <1>5, <1>6 DEF DetFits, DetTypeOK

LEMMA OrderFits ==
  ASSUME DetTypeOK, NEW class, NEW s \in Sorted(class)
  PROVE  s \in Seq(1..Len(detBoxes)) /\ Len(s) <= Len(detBoxes)
<1> DEFINE mine == {i \in 1..Len(detBoxes) : detBoxes[i].class = class}
<1>1. mine \subseteq 1..Len(detBoxes) /\ Len(detBoxes) \in Nat
  BY DEF DetTypeOK
<1>2. IsFiniteSet(1..Len(detBoxes)) /\ Cardinality(1..Len(detBoxes)) = Len(detBoxes)
  BY <1>1, UpToIsFinite
<1>3. s \in [1..Cardinality(mine) -> mine]
  BY DEF Sorted
<1> HIDE DEF mine
<1>4. Cardinality(mine) \in Nat /\ Cardinality(mine) <= Len(detBoxes)
  BY <1>1, <1>2, FS_Subset, FS_CardinalityType
<1>5. PICK n \in Nat : n = Cardinality(mine)
  BY <1>4
<1>6. s \in [1..n -> 1..Len(detBoxes)] /\ n <= Len(detBoxes)
  BY <1>1, <1>3, <1>4, <1>5
<1>7. s \in Seq(1..Len(detBoxes)) /\ Len(s) = n
  BY <1>5, <1>6
<1> QED  BY <1>6, <1>7

LEMMA DetFitsKept == DetFits /\ [DetNext]_detVars => DetFits'
<1> SUFFICES ASSUME DetFits, [DetNext]_detVars PROVE DetFits'
  OBVIOUS
<1>0. DetTypeOK /\ detBoxes \in Seq(Box) /\ Len(detBoxes) \in Nat /\ Len(detOrder) \in Nat
      /\ Len(detOrder) <= Len(detBoxes) /\ Len(detBoxes) <= MaxCandidates
  BY DEF DetFits, DetTypeOK, Box
<1>1. ASSUME NEW class \in 1..DetClasses, NEW score \in DetScores, DetAdd(class, score)
      PROVE  DetFits'
  <2>1. /\ detSeen' \in 0..DetSeen /\ detFull' \in BOOLEAN
        /\ UNCHANGED <<detNear, detClass, detOrder, detTurn>>
    <3>1. detSeen \in 0..DetSeen /\ detSeen < DetSeen /\ detSeen' = detSeen + 1
      BY <1>0, <1>1 DEF DetAdd, DetTypeOK
    <3>2. detFull' \in BOOLEAN /\ UNCHANGED <<detNear, detClass, detOrder, detTurn>>
      BY <1>0, <1>1 DEF DetAdd, DetTypeOK
    <3> QED  BY <3>1, <3>2, DetAssumption
  <2>2. /\ detBoxes' \in Seq(Box) /\ Len(detBoxes') \in Nat
        /\ Len(detBoxes') <= MaxCandidates /\ Len(detBoxes) <= Len(detBoxes')
    <3>1. [class |-> class, score |-> score, invalid |-> FALSE] \in Box
      BY DEF Box
    <3> QED  BY <1>0, <1>1, <3>1, DetAssumption DEF DetAdd
  <2>3. detOrder \in Seq(1..Len(detBoxes'))
    <3>1. 1..Len(detBoxes) \subseteq 1..Len(detBoxes')
      BY <1>0, <2>2
    <3>2. detOrder \in [1..Len(detOrder) -> 1..Len(detBoxes)]
      BY DEF DetFits, DetTypeOK
    <3>3. detOrder \in [1..Len(detOrder) -> 1..Len(detBoxes')]
      BY <3>1, <3>2
    <3> QED  BY <1>0, <3>3
  <2> QED  BY <1>0, <2>1, <2>2, <2>3 DEF DetFits, DetTypeOK, Box
<1>2. CASE DetNextClass
  <2>1. /\ detClass' \in 0..DetClasses + 1 /\ detTurn' = 1
        /\ detOrder' \in Sorted(detClass + 1)
        /\ UNCHANGED <<detNear, detBoxes, detFull, detSeen>>
    BY <1>0, <1>2, DetAssumption DEF DetNextClass, DetTypeOK
  <2>2. detOrder' \in Seq(1..Len(detBoxes)) /\ Len(detOrder') <= Len(detBoxes)
    BY <1>0, <2>1, OrderFits
  <2> QED  BY <1>0, <2>1, <2>2, DetAssumption DEF DetFits, DetTypeOK
<1>3. CASE DetSuppress
  <2>1. /\ detTurn' \in 1..MaxCandidates + 1
        /\ UNCHANGED <<detNear, detFull, detSeen, detClass, detOrder>>
    <3>1. detTurn \in 1..MaxCandidates + 1 /\ detTurn <= Len(detOrder) /\ detTurn' = detTurn + 1
      BY <1>0, <1>3 DEF DetSuppress, DetTypeOK
    <3>2. UNCHANGED <<detNear, detFull, detSeen, detClass, detOrder>>
      BY <1>3 DEF DetSuppress
    <3> QED  BY <1>0, <3>1, <3>2, DetAssumption
  <2>2. detBoxes' \in Seq(Box) /\ Len(detBoxes') = Len(detBoxes)
    <3>1. \A i \in DOMAIN detBoxes : \A b \in BOOLEAN :
            [detBoxes[i] EXCEPT !.invalid = b] \in Box
      <4>1. \A r \in Box : \A b \in BOOLEAN : [r EXCEPT !.invalid = b] \in Box
        BY DEF Box
      <4> QED  BY <1>0, <4>1
    <3>2. \/ detBoxes' = detBoxes
          \/ \E hit : detBoxes' = [i \in DOMAIN detBoxes |->
                                     [detBoxes[i] EXCEPT !.invalid = @ \/ i \in hit]]
      BY <1>3 DEF DetSuppress
    <3>3. ASSUME NEW hit, detBoxes' = [i \in DOMAIN detBoxes |->
                                         [detBoxes[i] EXCEPT !.invalid = @ \/ i \in hit]]
          PROVE  detBoxes' \in [1..Len(detBoxes) -> Box]
      <4>1. \A i \in DOMAIN detBoxes : (detBoxes[i].invalid \/ i \in hit) \in BOOLEAN
        OBVIOUS
      <4>2. DOMAIN detBoxes = 1..Len(detBoxes)
        BY <1>0
      <4> QED  BY <3>1, <3>3, <4>1, <4>2
    <3>4. ASSUME detBoxes' \in [1..Len(detBoxes) -> Box]
          PROVE  detBoxes' \in Seq(Box) /\ Len(detBoxes') = Len(detBoxes)
      BY <1>0, <3>4
    <3> QED  BY <1>0, <3>2, <3>3, <3>4
  <2> QED  BY <1>0, <2>1, <2>2 DEF DetFits, DetTypeOK, Box
<1>4. CASE UNCHANGED detVars
  BY <1>0, <1>4 DEF detVars, DetFits, DetTypeOK
<1> QED  BY <1>1, <1>2, <1>3, <1>4 DEF DetNext

\* The candidates, the order and the turn keep their types and their bounds,
\* for any boxes: no index leaves the array.
THEOREM DetTypeCorrect == DetSpec => []DetTypeOK
<1>1. DetFits => DetTypeOK
  BY DEF DetFits
<1> QED  BY DetFitsInitially, DetFitsKept, <1>1, PTL DEF DetSpec
=============================================================================
