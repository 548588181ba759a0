------------------------------ MODULE NpuModel ------------------------------
(* The NPU driver's model handle, drivers/misc/ameba_npu/ameba_npu.c: what   *)
(* each call does to the handle and to the objects of the NN runtime behind  *)
(* it.  Every runtime call may fail at every point.                          *)
(*                                                                           *)
(* External, from how the driver uses it: the NN_* runtime, whose objects    *)
(* live until they are destroyed, and whose network runs after it was        *)
(* prepared and its inputs and outputs were set.                             *)
EXTENDS Integers, FiniteSets

CONSTANTS
  MaxIo,    \* AMEBA_NPU_MAX_IO, the slots for inputs and for outputs
  MaxCount  \* bound: what a network may claim to have of either, past every array

ASSUME NpuAssumption == MaxIo \in Nat \ {0} /\ MaxCount \in Nat /\ MaxCount > 2 * MaxIo

Ins(n)  == {<<"in", i>>  : i \in 1..n}
Outs(n) == {<<"out", i>> : i \in 1..n}
Slots   == Ins(MaxIo) \cup Outs(MaxIo)

VARIABLES
  npuHandle,   \* struct ameba_npu
  nnNetwork,   \* runtime: the network exists
  nnPrepared,  \* runtime: it is prepared
  nnBuffers,   \* runtime: the slots whose buffer exists
  nnSet,       \* runtime: the slots bound to the network
  nnMapped,    \* runtime: the slots whose buffer is mapped
  npuExcuses   \* history: "refused", the runtime refused a release; "astray", it
               \* was told to destroy something that is no buffer

npuVars == <<npuHandle, nnNetwork, nnPrepared, nnBuffers, nnSet, nnMapped, npuExcuses>>

Zeroed == [network |-> FALSE, prepared |-> FALSE, ins |-> 0, outs |-> 0, buffers |-> {}]

NpuTypeOK ==
  /\ npuHandle \in [network : BOOLEAN, prepared : BOOLEAN, ins : 0..MaxCount,
                    outs : 0..MaxCount, buffers : SUBSET Slots]
  /\ nnNetwork \in BOOLEAN /\ nnPrepared \in BOOLEAN
  /\ nnBuffers \subseteq Slots /\ nnSet \subseteq Slots /\ nnMapped \subseteq Slots
  /\ npuExcuses \subseteq {"refused", "astray"}

NpuInit ==
  /\ npuHandle = Zeroed
  /\ nnNetwork = FALSE /\ nnPrepared = FALSE
  /\ nnBuffers = {} /\ nnSet = {} /\ nnMapped = {}
  /\ npuExcuses = {}

\* the beginnings of a loop over 1..n that a failure may cut short
LoopPrefixes(S) == {T \in SUBSET S : \A a \in T, b \in S : b[1] = a[1] /\ b[2] < a[2] => b \in T}

\* the handle is zeroed and the network created
CreateNetwork ==
  /\ npuHandle' = [Zeroed EXCEPT !.network = TRUE]
  /\ nnNetwork' = TRUE
  /\ UNCHANGED <<nnPrepared, nnBuffers, nnSet, nnMapped, npuExcuses>>

\* the counts go into the handle before they are compared with the arrays
QueryCounts(ins, outs) ==
  /\ npuHandle' = [npuHandle EXCEPT !.ins = ins, !.outs = outs]
  /\ UNCHANGED <<nnNetwork, nnPrepared, nnBuffers, nnSet, nnMapped, npuExcuses>>

Wanted == Ins(npuHandle.ins) \cup Outs(npuHandle.outs)

\* the inputs' buffers, then the outputs', up to the one that fails
CreateBuffers(made) ==
  /\ made \in LoopPrefixes(Wanted)
  /\ made \cap Outs(MaxIo) # {} => Ins(npuHandle.ins) \subseteq made
  /\ npuHandle' = [npuHandle EXCEPT !.buffers = made]
  /\ nnBuffers' = nnBuffers \cup made
  /\ UNCHANGED <<nnNetwork, nnPrepared, nnSet, nnMapped, npuExcuses>>

PrepareNetwork ==
  /\ npuHandle' = [npuHandle EXCEPT !.prepared = TRUE]
  /\ nnPrepared' = TRUE
  /\ UNCHANGED <<nnNetwork, nnBuffers, nnSet, nnMapped, npuExcuses>>

Bind(slots) ==
  /\ nnSet' = nnSet \cup slots
  /\ UNCHANGED <<npuHandle, nnNetwork, nnPrepared, nnBuffers, nnMapped, npuExcuses>>

\* ameba_npu_unload.  destroy_buffers goes through as many slots as the counts
\* say: behind the inputs lie the outputs, still NULL, behind the outputs
\* input_count and then output_count, which are taken for buffers unless they are 0
PastTheArrays ==
  \/ npuHandle.ins > 2 * MaxIo
  \/ npuHandle.outs > MaxIo /\ npuHandle.ins > 0
  \/ npuHandle.outs > MaxIo + 1

\* kept: what the runtime has of the network stays; it may when it refuses, and
\* there is no saying what it does with something that is no buffer
Unload(refused) ==
  LET gone == {s \in npuHandle.buffers :
                 s[2] <= IF s[1] = "in" THEN npuHandle.ins ELSE npuHandle.outs} IN
  \E kept \in {refused, refused \/ PastTheArrays} :
    /\ npuHandle' = Zeroed
    /\ nnNetwork' = (kept /\ nnNetwork)
    /\ nnPrepared' = (kept /\ nnPrepared)
    /\ nnBuffers' = IF kept THEN nnBuffers ELSE nnBuffers \ gone
    /\ nnSet' = {}
    /\ nnMapped' = nnMapped \ gone
    /\ npuExcuses' = npuExcuses \cup (IF refused THEN {"refused"} ELSE {})
                                 \cup (IF PastTheArrays THEN {"astray"} ELSE {})

\* set_input: map, copy, unmap, flush, bind; stuck: the unmapping failed
SetInputs(slots, stuck) ==
  /\ slots \in LoopPrefixes(Ins(npuHandle.ins))
  /\ stuck \subseteq Ins(npuHandle.ins) \ slots
  /\ nnSet' = nnSet \cup slots
  /\ nnMapped' = nnMapped \cup stuck
  /\ UNCHANGED <<npuHandle, nnNetwork, nnPrepared, nnBuffers, npuExcuses>>

MapOutputs(slots) ==
  /\ nnMapped' = nnMapped \cup slots
  /\ UNCHANGED <<npuHandle, nnNetwork, nnPrepared, nnBuffers, nnSet, npuExcuses>>

UnmapOutputs(slots) ==
  /\ nnMapped' = nnMapped \ slots
  /\ UNCHANGED <<npuHandle, nnNetwork, nnPrepared, nnBuffers, nnSet, npuExcuses>>

NothingHeld == ~nnNetwork /\ ~nnPrepared /\ nnBuffers = {} /\ nnMapped = {}

=============================================================================
