----------------------------- MODULE NpuSample ------------------------------
(* The NPU sample, samples/npu/src/main.c, on the handle of NpuModel: the    *)
(* shell command `npu run', the flag npu_sample_running, and the one thread  *)
(* object that each run is created on again.                                 *)
EXTENDS NpuModel

CONSTANTS
  ScrfdOutputs,  \* SCRFD_OUTPUT_COUNT
  YoloOutputs,   \* YOLOV4_TINY_OUTPUT_COUNT
  Runs           \* NPU_SAMPLE_INFERENCE_RUNS

ASSUME NsAssumption == ScrfdOutputs \in 1..MaxIo /\ YoloOutputs \in 1..MaxIo /\ Runs \in Nat \ {0}

VARIABLES
  nsPc,       \* where the thread is; "ending": the flag is down, it still runs
  nsShell,    \* where the command is
  nsRunning,  \* npu_sample_running
  nsModel,    \* config->type
  nsRuns,     \* inferences done
  nsUp,       \* the NPU is initialised
  nsFlash,    \* flash_model.alloc
  nsStuck     \* history: a deinitialisation has failed

nsVars == <<nsPc, nsShell, nsRunning, nsModel, nsRuns, nsUp, nsFlash, nsStuck, npuVars>>
nsRest == <<nsShell, nsRunning, nsModel, nsStuck>>

NsTypeOK ==
  /\ NpuTypeOK
  /\ nsPc \in {"dead", "init", "flash", "network", "counts", "buffers", "prepare",
               "outputs", "fail", "inputs", "run", "map", "unmap", "unload",
               "free", "deinit", "clear", "ending"}
  /\ nsShell \in {"idle", "join"} /\ nsRunning \in BOOLEAN
  /\ nsModel \in {"face", "yolo"} /\ nsRuns \in 0..Runs
  /\ nsUp \in BOOLEAN /\ nsFlash \in BOOLEAN /\ nsStuck \in BOOLEAN

NsInit ==
  /\ NpuInit
  /\ nsPc = "dead" /\ nsShell = "idle" /\ nsRunning = FALSE
  /\ nsModel = "face" /\ nsRuns = 0 /\ nsUp = FALSE /\ nsFlash = FALSE
  /\ nsStuck = FALSE

-----------------------------------------------------------------------------
(* cmd_npu_run: the flag by compare-and-swap, the join with the thread of    *)
(* the last run, the new thread.                                             *)

NsCommand(model) ==
  /\ nsShell = "idle" /\ ~nsRunning
  /\ nsRunning' = TRUE
  /\ nsModel' = model
  /\ nsShell' = "join"
  /\ UNCHANGED <<nsPc, nsRuns, nsUp, nsFlash, nsStuck, npuVars>>

NsCreate ==
  /\ nsShell = "join" /\ nsPc = "dead"
  /\ nsShell' = "idle"
  /\ nsPc' = "init" /\ nsRuns' = 0
  /\ UNCHANGED <<nsRunning, nsModel, nsUp, nsFlash, nsStuck, npuVars>>

-----------------------------------------------------------------------------
(* npu_sample_task and npu_sample_run.                                       *)

Thread(from, to) == nsPc = from /\ nsPc' = to /\ UNCHANGED <<nsRest, nsRuns, nsUp, nsFlash>>

\* it may be up from a run whose deinitialisation failed
NsInitNpu ==
  /\ nsPc = "init"
  /\ \E ok \in BOOLEAN : nsUp' = (ok \/ nsUp) /\ nsPc' = IF ok THEN "flash" ELSE "clear"
  /\ UNCHANGED <<nsRest, nsRuns, nsFlash, npuVars>>

\* Mutant of NsLoadFlash: its failure returns without the deinitialisation.
NsLoadFlashReturns ==
  /\ nsPc = "flash"
  /\ \E ok \in BOOLEAN : nsFlash' = ok /\ nsPc' = IF ok THEN "network" ELSE "clear"
  /\ UNCHANGED <<nsRest, nsRuns, nsUp, npuVars>>

NsLoadFlash ==
  /\ nsPc = "flash"
  /\ \E ok \in BOOLEAN : nsFlash' = ok /\ nsPc' = IF ok THEN "network" ELSE "deinit"
  /\ UNCHANGED <<nsRest, nsRuns, nsUp, npuVars>>

\* ameba_npu_load, call by call
NsNetwork ==
  \/ Thread("network", "counts") /\ CreateNetwork
  \/ Thread("network", "free") /\ UNCHANGED npuVars

NsCounts ==
  \/ Thread("counts", "buffers")
     /\ \E ins, outs \in 0..MaxIo : QueryCounts(ins, outs)
  \/ Thread("counts", "fail")
     /\ \E ins, outs \in 0..MaxCount :
          /\ outs = 0 \/ ~(ins <= MaxIo /\ outs <= MaxIo)
          /\ QueryCounts(ins, outs)

\* Mutant of NsBuffers: a buffer that fails returns without the unload.
NsBuffersReturn ==
  \/ Thread("buffers", "prepare") /\ CreateBuffers(Wanted)
  \/ Thread("buffers", "free")
     /\ \E made \in LoopPrefixes(Wanted) \ {Wanted} : CreateBuffers(made)

NsBuffers ==
  \/ Thread("buffers", "prepare") /\ CreateBuffers(Wanted)
  \/ Thread("buffers", "fail")
     /\ \E made \in LoopPrefixes(Wanted) \ {Wanted} : CreateBuffers(made)

NsPrepare ==
  \/ Thread("prepare", "outputs") /\ PrepareNetwork
  \/ Thread("prepare", "fail") /\ UNCHANGED npuVars

NsOutputs ==
  \/ Thread("outputs", "inputs") /\ Bind(Outs(npuHandle.outs))
  \/ Thread("outputs", "fail")
     /\ \E n \in 0..npuHandle.outs - 1 : Bind(Outs(n))

NsLoadFails == Thread("fail", "free") /\ \E refused \in BOOLEAN : Unload(refused)

\* Mutant of NsInputs: the result of the last input is not looked at.
NsInputsUnchecked ==
  \/ Thread("inputs", "run") /\ npuHandle.ins > 0 /\ SetInputs(Ins(npuHandle.ins), {})
  \/ Thread("inputs", "run")
     /\ npuHandle.ins > 0
     /\ SetInputs(Ins(npuHandle.ins - 1), {<<"in", npuHandle.ins>>})

\* set_sample_inputs: the first input gets the image, the others zeroes
NsInputs ==
  \/ Thread("inputs", "run") /\ npuHandle.ins > 0 /\ SetInputs(Ins(npuHandle.ins), {})
  \/ Thread("inputs", "unload")
     /\ \E n \in 0..npuHandle.ins - 1 :
          SetInputs(Ins(n), {}) \/ SetInputs(Ins(n), {<<"in", n + 1>>})
  \/ Thread("inputs", "unload") /\ UNCHANGED npuVars

NsRun ==
  /\ nsPc = "run"
  /\ \/ nsRuns' = nsRuns + 1 /\ nsPc' = IF nsRuns' < Runs THEN "run" ELSE "map"
     \/ nsPc' = "unload" /\ UNCHANGED nsRuns
  /\ UNCHANGED <<nsRest, nsUp, nsFlash, npuVars>>

\* run_postprocess: SCRFD takes the first outputs, YOLO insists on its number
OutputsUsed == IF nsModel = "face" THEN ScrfdOutputs ELSE YoloOutputs

NsMap ==
  LET suits == IF nsModel = "face" THEN npuHandle.outs >= OutputsUsed
                                   ELSE npuHandle.outs = OutputsUsed IN
  \/ Thread("map", "unload") /\ ~suits /\ UNCHANGED npuVars
  \/ Thread("map", "unmap") /\ suits /\ \E n \in 0..OutputsUsed : MapOutputs(Outs(n))

\* the unmapping of each of the mapped outputs may fail
NsUnmap ==
  Thread("unmap", "unload") /\ \E done \in SUBSET (nnMapped \cap Outs(MaxIo)) : UnmapOutputs(done)

NsUnload == Thread("unload", "free") /\ \E refused \in BOOLEAN : Unload(refused)

NsFree ==
  /\ nsPc = "free" /\ nsPc' = "deinit"
  /\ nsFlash' = FALSE
  /\ UNCHANGED <<nsRest, nsRuns, nsUp, npuVars>>

\* Mutant of NsDeinit: the flag comes down first.
NsDeinitAfterFlag ==
  /\ nsPc = "deinit" /\ nsPc' = "clear"
  /\ nsRunning' = FALSE
  /\ UNCHANGED <<nsShell, nsModel, nsRuns, nsUp, nsFlash, nsStuck, npuVars>>

\* its failure becomes the result of the run, which ends all the same
NsDeinit ==
  /\ nsPc = "deinit" /\ nsPc' = "clear"
  /\ \/ nsUp' = FALSE /\ UNCHANGED nsStuck
     \/ nsStuck' = TRUE /\ UNCHANGED nsUp
  /\ UNCHANGED <<nsShell, nsRunning, nsModel, nsRuns, nsFlash, npuVars>>

NsClear ==
  /\ nsPc = "clear" /\ nsPc' = "ending"
  /\ nsRunning' = FALSE
  /\ UNCHANGED <<nsShell, nsModel, nsRuns, nsUp, nsFlash, nsStuck, npuVars>>

NsDies == Thread("ending", "dead") /\ UNCHANGED npuVars

NsThread ==
  \/ NsInitNpu \/ NsLoadFlash \/ NsNetwork \/ NsCounts \/ NsBuffers \/ NsPrepare
  \/ NsOutputs \/ NsLoadFails \/ NsInputs \/ NsRun \/ NsMap \/ NsUnmap
  \/ NsUnload \/ NsFree \/ NsDeinit \/ NsClear \/ NsDies

NsNext == NsThread \/ NsCreate \/ \E model \in {"face", "yolo"} : NsCommand(model)

NsSpec == NsInit /\ [][NsNext]_nsVars /\ WF_nsVars(NsThread) /\ WF_nsVars(NsCreate)

-----------------------------------------------------------------------------
(* Wherever the load or the run failed, whatever counts the network claimed, *)
(* and after an unload: the handle is zeroed and the runtime holds nothing   *)
(* once the thread goes on to free the flash image; unless the runtime       *)
(* refused a release, or the counts have led the driver past its arrays.     *)
NpuFailureLeavesNothing ==
  nsPc \in {"free", "deinit", "clear", "ending", "dead"} =>
    npuHandle = Zeroed /\ (npuExcuses # {} \/ NothingHeld)

(* "On failure the handle is left zeroed and all partially allocated         *)
(* resources are released" (ameba_npu.h), as long as the runtime refuses no  *)
(* release: the counts that the driver finds too large, and has already      *)
(* stored, are those that the release goes by.                               *)
NpuFailureReleases ==
  nsPc \in {"free", "deinit", "clear", "ending", "dead"} =>
    npuHandle = Zeroed /\ ("refused" \in npuExcuses \/ NothingHeld)

(* Inference runs on a prepared network all of whose inputs and outputs are  *)
(* bound to live buffers, and "must not be started while the buffer is       *)
(* mapped" (ameba_npu.h): no failed map, unmap or binding is passed over.    *)
NpuRunsReady ==
  nsPc = "run" =>
    /\ npuHandle.prepared /\ nnPrepared /\ nnSet = Wanted
    /\ npuExcuses # {} \/ (nnMapped = {} /\ nnBuffers = Wanted)

(* Runs take turns: when the flag is down, and when a command that raised it *)
(* waits for the thread of the last run, that run is over.  Its thread makes *)
(* no further call and has left the NPU, the flash image and the handle      *)
(* released, although it still runs on the stack the next one will get       *)
(* (atomic_clear against atomic_cas and k_thread_join).  The NPU stays up    *)
(* only after a deinitialisation that failed.                                *)
NsRunsTakeTurns ==
  ~nsRunning \/ nsShell = "join" =>
    /\ nsPc \in {"ending", "dead"} /\ (nsStuck \/ ~nsUp)
    /\ ~nsFlash /\ npuHandle = Zeroed

(* A run that was accepted ends: the flag comes down, the flash image is     *)
(* freed and the NPU deinitialised, unless that is what fails.               *)
NsRunEnds == nsRunning ~> (~nsRunning /\ (nsStuck \/ ~nsUp) /\ ~nsFlash)

=============================================================================
