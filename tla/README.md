# Ameba Pro2 Zephyr platform: TLA+ models

This directory holds TLA+ models of the drivers and samples in `src/`, the TLC
configurations that check them on small instances, and theorems that TLAPS
proves for every value of the constants. `PROJECT.json` is the index: which
definition models which lines (`map`), what each run checks (`runs`), which
mistake in the code each property would catch (`mutants`), what is hard to test
in this code (`hazards`), where the code and its own documentation disagree
(`findings`), and what is proved (`theorems`).

Paths below are relative to `src/`. `main.c` without a directory is
`samples/video/src/main.c`.

## 1. The system

The repository is a Zephyr platform for Realtek's Ameba Pro2 camera SoC: device
drivers over a binary HAL, and samples that are the only applications of those
drivers. The HAL (video engine VOE, audio SPORT DMA, NPU runtime, SD host) is not
in the repository; where a model needs it, it is taken from how the drivers use
it, and such definitions are marked `external` in the map.

Most of the drivers are thin. The logic of the system is in the video pipeline
and in its sample (four channel threads, a shell, an SD recorder and a neural
network, all sharing plain words without locks), in the microphone driver
(interrupt against reader), in the SD card driver (events and timeouts against
callers) and in the NPU driver with its sample, loader and post-processing.

### Inventory

| Component | State it keeps | Operations | What it touches |
|---|---|---|---|
| Video channel driver `drivers/video/video_amebapro2.c` | per channel: `fifo_in`, `fifo_out`, `ch_forcei`, the lent frame in each buffer's `size` and `buffer` | enqueue, dequeue, flush, set_stream, set_ctrl, engine callback | VOE calls back in its own context; clients hold buffers |
| Channel threads `main.c` `video_task` | `video_status`, `stop_requested`, the buffer array on its stack | start, stop, snapshot, stream loop, exit | driver, shell, recorder, nn |
| Live object detection `main.c` `video_nn_*` | `status`, `npu_initialized`, flash image, `model_loaded` | nn start, nn stop, service, release | shell writes the status the thread of video_3 acts on |
| SD recording `main.c` `video_sd_*`, record paths | `record_pending`, `sdcard_init`, `video_record_channel`, `video_buffer`, one file | record command, snapshot, stream recording, unmount | all four threads and the shell share these words |
| Microphone `drivers/audio/dmic_amebapro2.c` | state, `rx_queue`, `rx_sem`, `drop_count`, DMA pages | configure, trigger, read, receive interrupt | interrupt and reader share `rx_queue` |
| SD card disk `drivers/disk/sdmmc_amebapro2.c` | status, `sd_sema`, mutex | init, read, write, ioctl, insert and remove events | several callers, slot interrupts, the HAL's done event |
| NPU driver `drivers/misc/ameba_npu/ameba_npu.c` | model handle, I/O buffers | init, load, unload, set_input, run, map and unmap outputs | caller owns the handle, the NN runtime the objects behind it |
| NPU sample `samples/npu/src/main.c` | `npu_sample_running`, one thread object | npu run, a run from init to deinit | NPU driver, loader, post-processing |
| NPU model loader `ameba_npu_model_loader.c` | `struct npu_flash_model` of its caller | load through partition, image and file record; unload | flash, heap |
| Post-processing `ameba_npu_*_postprocess.c` | candidate arrays | decode, sort, suppress | the mapped outputs |
| Flash `drivers/flash/flash_amebapro2.c` | one semaphore | read, write, erase | callers in threads and in interrupts |
| GPIO `drivers/gpio/gpio_amebapro2.c` | one pin table for three controllers | configure, three interrupt routines | callbacks, the HAL's numbering |
| SPI `drivers/spi/spi_amebapro2.c` | callback words | transceive, asynchronous too | HAL callback |
| Video controller, I2C, UART, ADC, PWM, entropy, pinctrl, SoC, other samples | nothing with a protocol | | |

What makes the important ones hard, and what correct means for each:

* **Video channel.** The engine lends the driver an output slot with every
  frame and must get it back exactly once. The driver keeps no list of lent
  slots: `enqueue` releases whatever a non-zero `size` says and never clears it,
  and the callback runs between any two steps. Correct: no buffer is lost or
  linked twice; no slot is released twice, reused while the client reads it, or
  leaked.
* **Channel threads.** A stop, a timeout or a failing call may come anywhere.
  Correct: the thread keeps the driver's contract, ends, and leaves nothing
  lent; a snapshot request is answered unless a stop comes first.
* **Live detection.** Commands read a status and act on it later, and the thread
  outranks the shell. Correct: frames are inferred only on a loaded model,
  nothing is named or left behind once stopped, every request is decided.
* **Recording.** Five threads, three words, no lock. Correct: one recorder at a
  time, files only on a mounted card, no data in the wrong file, every recording
  ends.
* **Microphone.** `count--` races with the interrupt, stops leave pages and
  semaphore units behind. Correct: pages in order and standing still while read,
  nothing of an old session in a new one, no block lost.
* **SD card disk.** Late done events, a card pulled at any moment, status words
  written by interrupts without the mutex. Correct: nobody is woken by another
  call's transfer, success means that sectors moved, OK means an initialised
  card, every call returns.
* **NPU driver and sample.** Every runtime call can fail after others succeeded.
  Correct: a failure leaves nothing behind, whatever counts a network claims;
  inference runs on a complete model,
  runs take turns and end.
* **Loader.** 32-bit sums of numbers read from flash. Correct: what is loaded is a
  whole file, in a block that holds it.
* **Post-processing.** Correct: the sorted, in-place suppression reports what its
  definition says, whatever the order of equal scores.
* **Flash, GPIO.** A semaphore not given on an error path, callers that do not
  wait; a pin found by counting slots. Correct: one caller at a time, and the
  callbacks of the pin that interrupted.

## 2. Modules

| Module | Models | Used by |
|---|---|---|
| `FrameLoan` | abstract: what a channel promises | refined by `VideoChannel` |
| `VideoChannel` | one channel of the driver, and the client's contract | `MCVideoChannel`, `VideoTask` |
| `VideoTask` | one life of the thread that owns a channel, composed with `VideoChannel` | `MCVideoTask` |
| `VideoRestart` | the links of the kernel queues over several lives of the thread | `MCSample` |
| `LiveNN` | the nn commands and the thread of video_3 | `MCSample` |
| `Recording` | the record command and the recorders of all channels | `MCSample` |
| `Dmic` | the microphone driver | |
| `SdDisk` | the SD card disk driver | `MCDrivers` |
| `GpioIrq` | the interrupts of the GPIO driver | `MCDrivers` |
| `FlashCtl` | the semaphore of the flash driver | `MCDrivers` |
| `NpuModel` | the model handle of the NPU driver and the runtime behind it | `NpuSample` |
| `NpuSample` | the NPU sample, composed with `NpuModel` | `MCDrivers` |
| `NpuLoader` | the model loader | `MCDrivers` |
| `Detection` | collecting and suppressing candidates | `MCDrivers` |
| `MCVideoChannel`, `MCVideoTask`, `MCSample`, `MCDrivers` | the bounded instances | |
| `VideoChannelProofs`, `VideoTaskProofs`, `VideoRestartProofs`, `RecordingProofs`, `LiveNNProofs`, `DmicProofs` | theorems about the module of that name | |
| `DriverProofs` | theorems about `SdDisk`, `GpioIrq`, `FlashCtl` | |
| `NpuProofs` | theorems about `NpuSample`, `NpuLoader`, `Detection` | |

### VideoChannel

`fifoIn`, `fifoOut` are the driver's queues; `carries[b]` is the frame that
`size` and `buffer` of buffer `b` speak of, stale or not. `held` are the buffers
of the client, `inHand` the one an enqueue or a flush has taken and not yet put
down, `op` where the owning thread is inside the driver. `open`, `owed`, `armed`
and `keyDue` are the engine's: `owed[f]` counts lendings minus releases of slot
`f`, so a double release is the value -1 and a lending of a lent slot is 2.

`Callback` is `video_output_cb`: a frame is dropped because a key frame is
awaited (`DropUntilKey`) or because `fifo_in` is empty (`DropNoBuffer`), or goes
on, with the length the engine gives (`Deliver`) or with the length 0 that `main.c:859`
reckons with (`DeliverEmpty`); `EncOverflow` is the overflow branch. It is one step, since it
runs to completion in the engine's context. `enqueue` is two steps (release, put)
and the flush two per buffer (get, put), so that the callback falls between them.
`ForceRequest`/`ForceFlag` are the two steps of `set_ctrl(FORCE_IFRAME)`.

`SetFmt` changes `type`, the format that the next open uses and that every
enqueue releases by, while `codec` is what the engine was opened for. A release
under another format than the frame's is refused by the engine, and the slot
stays lent. A frame of length 0 is lent like any other, but its buffer carries nothing
that a later enqueue would release: `unsized` records those slots, which only the end
of the stream takes back. `NoFrameLeaked` says that nothing else leaks, and that a
closed channel has lent nothing, so that a snapshot of length 0 costs no slot.
`broken` records that a stop has reported an error: the channel then
stays open in the engine, and no client may rely on the slots coming back.

The driver trusts its client. `streaming`, `drained` and `current` record what
the client knows, and `MayStart` ... `MayEnqueue` state the contract that makes
the driver correct: start only after the last flush was dequeued to the end,
clear the size of the buffers of a stopped stream and of no others, set the format
only while nothing streams. The contract
is not written down in the code. `VideoTask` shows that the streaming threads
keep it (`KeepsContract`), and that the snapshot thread does not.

### FrameLoan and the refinement

`FrameLoan` has no queues. A buffer is with the client (`app`), with the driver
(`queued`) or `done`, and each frame is on loan to at most one buffer, until the
client gives that buffer back or the stream is closed. The mapping is `WhereNow`
and `LoanNow`: a buffer between the two halves of an enqueue or a flush counts as
queued, and a frame is on loan to the buffer that carries it if that buffer is
`Live`, that is, if its size is to be believed. `ImplementsFrameLoan` says that a
release never ends another buffer's loan, which is exactly what a stale size
would do.

### VideoTask

`pc` walks through `video_task`: setup, enqueue of all buffers, start, the loop,
and EXIT. The thread proceeds only when the driver's operation has returned
(`At`). `chan` says which kind of channel it owns: `video_0` takes JPEG snapshots
and opens the channel for one frame each, `video_1` stands for video_1 to video_3,
which stream (`IsSnapshotChannel`). Both are initial states of the same run.
`record` stands for the three
words of a pending snapshot on this channel (`Recording` has them apart). A
timeout of the snapshot takes two steps, `SnapshotTimesOut` and
`AbandonSnapshot`, as a frame may arrive in between. Reading frames (display,
motion detection, encryption tests) changes nothing the threads share and is the
single step `UseFrame`.

`RecordAnswered` says what becomes of a snapshot request: it is answered or a stop is
requested; and once the thread has opened the channel for it (`Taken`), it is answered
whatever is requested. A stop that the thread obeys before it takes the request leaves
`record_pending` and `sdcard_init` set (`main.c:785-801`).

### VideoRestart

A `k_fifo` links its items through their first word, and the buffers are an array
on the stack of a thread that may end and start again at the same address. Here
`link` is that word, `head` and `tail` are those of the two queues, and `Start`
zeroes the array as the new thread does, while the driver's queues still run
through it. `PutLink`, `PutHead` and `PutTail` are what `k_fifo_put` makes of the three:
it clears the link of its item and inserts the item after the tail, so that the tail
moves only if it had no successor. On sound lists that appends; on a list whose links
were cleared and rebuilt under it, it need not. A delivery is a single step, since the
interleavings of a move are the subject of `VideoChannel`; the flush and the requeue
are a get and a put, and as a close may fail (`Stop`), the engine delivers between
them, and into the next life.

`Linked(q)` is what a walk from the head of a
queue meets, the least set that holds the head and is closed under `link`, so that
it is defined of cyclic queues too. `QueuesSound` says that outside the refill the
walks end at the tails, meet no buffer twice, and between them meet exactly an end
of the array (`PoolIsTail`): a restart loses a beginning of it and nothing else. Two
histories name where that fails: `knotted`, a life began with `buffers[0]` as the tail
of `fifo_in` (it is then linked to itself and the others are inserted behind it), and
`chased`, a life began with the engine still delivering. The properties speak of lives
that are `Untangled`; the run `restart_stop` shows what becomes of a knotted one.

### LiveNN

`nnStatus`, `videoStatus` and `stopRequested` are the words of the code; `nnShell` is
where a command is and `seen` the `video_status` it read on entry. The shell runs
only where the thread blocks, and the thread may preempt a command between any
two accesses. So commands take one step per access (`StartCheck` is the refusal
of a second start, which compares the volatile status four times) and the thread
one step per stretch without a blocking call. Every NPU and flash call may fail.

`npu`, `flash` and `model` are what the context names: a flag that is set, a handle that
is not zero. `left` is what exists and has no name any more, because a load has zeroed
the handle of what was loaded, or because the flag was cleared although the release was
refused. The release takes a step for the model, with the image that is freed after it
(`ReleaseModel`), and a step for the NPU, with the status that its caller writes
(`InitFailed`, `Unloaded`, `ExitThread`): a command may come between them, and in EXIT
the status still says `RUNNING` there. `doubled` and `refused` are histories of the two
reasons for which something is left.

### Recording

`pending`, `mounted` and `channel` are `record_pending`, `sdcard_init` and
`video_record_channel`; `card` is the mount itself, `buffered` whose data is in
`video_buffer`. Channels come in three kinds: `OnDemand` (video_0, frames only on
request), other `Shots` (one frame per request), `Streams` (`RECORD_FRAME_LEN`
frames). The command is split at every access the threads may get between, the
threads where the file system blocks.

### Dmic

`pages`, `write_idx`, `read_idx`, `count` are `rx_queue`, `rx_sem` the count of the
semaphore. `oldest` and `out` are the HAL's: the pages are out in ring order. A
read takes one step per access to what the interrupt shares; `count--` is a load
and a store (`ReadLoad`, `ReadStore`). `queued` is a ghost: the pages queued since
the start and not read. The branch of the handler for a full queue is not an
action because it is never taken, which `NeverFull` states and
`QueueIsNeverFull` proves. `FreeBlock` is the client of the audio sample.

### SdDisk

`sdClient[c]` is where caller `c` is, what it does and what it will answer;
`sdOwner` is the mutex, handed over by an unlock. The slot (`sdCard`, `sdIrq`)
changes at any time, and its interrupt (`SdSlotIsr`) writes `sdStatus` without the
mutex. A transfer runs until `SdDoneEvent` gives `sdSema`; a wait ends with that
unit (`SdWoken`) or gives up (`SdTimeout`), and the transfer it abandons may still
give a unit later (`SdOrphanEvent`). `SdIoctlDeinit` writes the status before the
mutex is taken, as the ioctl does. `moved` and `pulled` are histories of the call,
`sdLate` and `sdRaced` of the driver: they say which of the races the properties
name have happened.

### GpioIrq, FlashCtl

`gpioTable` is the table the three controllers share, `gpioNumbers` the HAL's
numbering of each controller's pins; `Decoded` counts slots as the routines do.
`GpioConfigure` takes its slot before it looks at the trigger, so a refused or
disabled pin has one too.

`FlashCtl` has the semaphore and who is in the HAL. `FlashFromIsr` does not wait
and gives a unit nobody took; `FlashBadErase` returns between the take and the
give.

### NpuModel, NpuSample

`npuHandle` is `struct ameba_npu`, the `nn*` variables are the objects of the NN
runtime, which live until they are destroyed. `NpuModel` has one operator per
part of `ameba_npu_load`, `_unload`, `_set_input`, `_map_output` and
`_unmap_output`; a loop that fails leaves a beginning of it done (`LoopPrefixes`).
`NpuSample` puts them in the order of a run, with a failure after every call, and
adds the command: a compare-and-swap of `npu_sample_running`, then the join with
the thread of the last run. The flag comes down in `NsClear` while the thread
still runs (`ending`). An NPU whose deinitialisation failed stays up (`nsStuck`).

The counts a network claims go up to `MaxCount`, past everything that lies behind the
arrays of the handle: they are stored before they are compared, and `Unload` goes by
them. `PastTheArrays` says when `destroy_buffers` comes to `input_count` or
`output_count` and takes it for a buffer; what the runtime then does is a free choice.
`npuExcuses` records this (`astray`) and the other thing the driver cannot repair, a
release the runtime refused (`refused`). `NpuFailureLeavesNothing` allows for both;
`NpuFailureReleases`, the promise of the header, only for the second, and is violated.

### NpuLoader

One load is `LdLoad`, `LdPartition`, `LdImage`, `LdFile`; what the tables in flash
hold is chosen as it is read, and which record a search ends at with it.
Numbers are words of `Word` values, and `Plus`, `Minus` wrap as the C does.

### Detection

`detBoxes` is the array of candidates, in which the cells of the tensors arrive in
any order; `detNear` says which slots overlap too much, any symmetric relation.
`Sorted` leaves boxes of equal score in any order, as `qsort` may. `DetSuppress` is
one turn of the outer loop. The property compares the result with a definition
that mentions no order. `do_nms` of SCRFD is the case of one class.

### MCDrivers, MCSample

The six models above share no state, so a product of them would say nothing more
than each alone. `dut` names the one that runs; the others stay as they are. The
run is the union of the six state spaces, each under its own fairness. `MCSample` does
the same for `LiveNN`, `Recording` and `VideoRestart` (`part`).

## 3. Runs

Every property of a passing run has a mutant in `PROJECT.json`: a plausible bug in
the modelled code that makes TLC report it.

| Run | Bounds | Shows |
|---|---|---|
| `channel` | 3 buffers, 2 slots, 2 kinds of format | the driver under any client that keeps the contract, over changes of format and failing closes: buffers conserved, slots released once, private, leaked only by frames of length 0, `FrameLoan` implemented |
| `task` | 3 buffers, 2 slots, both kinds of channel | the streaming thread keeps the contract and leaves nothing lent; either thread obeys a stop; requests are answered or a stop comes first; a forced key frame does not silence the channel |
| `task_late_frame` | the same | **violation** of `NoDoubleRelease` |
| `drivers` | see below | disk, GPIO, flash, NPU sample, loader and suppression, side by side |
| `sample` | see below | nn commands, recordings and restarts, side by side |
| `live_nn_stopping` | none: the model is finite | **violation** of `StoppingEnds` |
| `live_nn_second` | none | **violation** of `NothingLoadedTwice` |
| `recording_refused` | 3 channels, one of each kind, 3 frames | **violation** of `RefusedMeansBusy` |
| `dmic` | 4 pages (as in the code), 2 dropped, 2 blocks | order, standing still, backed counts, room, fresh sessions, blocks |
| `dmic_empty` | the same | **violation** of `QueueNotEmpty` |
| `restart_stop` | 3 buffers, 2 slots, 2 lives | **violation** of `RecoveryIsReached` |
| `npu_leftover` | 2 inputs and outputs, counts up to 6 | **violation** of `NpuFailureReleases` |

The bounds of `drivers`: 2 callers of the disk and 1 orphaned event; 4 pins on
three controllers and 3 slots; 3 threads and 2 interrupts at the flash; 2 inputs
and 2 outputs, of which SCRFD takes 2 and YOLO 1, counts up to 6, and 2 inferences; words of 16
values, headers of 3, an alignment of 4; 2 classes, 2 scores, 3 slots for 4
candidates.

The bounds of `sample`: none for the nn commands, whose model is finite; 3 channels,
one of each kind, and recordings of 3 frames; 3 buffers, 2 slots and 3 lives.

Why the bounds are enough:

* *3 buffers, 2 slots.* With more buffers than slots, `fifo_in` can be empty or not
  when a frame comes, every slot can be lent (overflow), a cancelled buffer can
  carry a stale size while its slot is lent again through another, and the client
  can hold one frame while the callback fills another. All of it needs no third
  slot, and the theorems cover every number.
* *3 channels.* The kinds differ, channels of one kind are alike, and every property
  speaks of at most two channels and the command. With `FrameLen = 3` a recording
  has a first, a middle and a last frame; the theorems cover every length above 1.
* *4 pages, 2 dropped, 2 blocks.* The pages are the real number. Two drops are a
  first and a last one; the second block lets a read run while one is lent.
* *3 buffers, 2 slots, 3 lives.* A queue with a head, a tail and an element between
  them; a close that fails with no slot, one or both lent; two restarts, since the
  second starts from queues the first has already cut. The theorems cover every number.
* *The drivers.* Two callers and one orphan are enough for an event to meet a
  transfer that is not its own; with one slot fewer than pins the table fills up and a
  configuration is refused;
  of two inputs and outputs either can fail with one done before it, and counts up to 6
  reach past both arrays and both counts behind them, from either side; in words
  of 16 every sum and difference of the loader can wrap;
  three boxes make a chain in which the first suppresses the second and the second
  would have suppressed the third, and the fourth finds the array full. The safety
  of each of them is proved for all values of its constants.

The `violation` runs each check one property, taken from a comment or message of
the code; section 6 has them. `CHECK_DEADLOCK FALSE` is set where the system may
really stop: in the `VideoTask` runs the thread ends (`dead`), in `sample` and
`restart_stop` the last of the `Lives`; in `drivers` the suppression ends, and every
caller of the flash waits for ever once the semaphore has leaked. All other models can
always take a step.

### Fairness

* `VideoTask`: weak fairness of the thread. Each wait has a timeout (500 ms, 2000
  ms, a sleep) that fires whether or not frames come, and the thread outranks the
  shell. Weak fairness of `ForceFlag`: a control call that began continues. Strong
  fairness of key frames, for `ForceEnds` only: with a positive GOP the encoder
  produces key frames again and again while it has a free slot, and it has one
  repeatedly but not continuously. Nothing is assumed of the user.
* `LiveNN`: weak fairness of the thread, and of a command that began. Whether a
  command is typed is left open, so no property relies on a rescuing `nn stop`.
* `Recording`: weak fairness of each thread's steps, not of the command, of
  `TaskStart` or of `TaskExit`. Frames keep arriving on a channel that is not
  stopped; when they do not, the wait times out and `TaskExit` ends the thread.
* `VideoRestart`: weak fairness of the thread, whose waits have timeouts and whose loops
  wait for nothing. Nothing is assumed of the engine, and nobody has to restart it.
* `SdDisk`: weak fairness of each caller's steps. The mutex is handed to a waiter and
  the wait has its 1000 ms timeout; nothing is assumed of the card or its events.
* `FlashCtl`: strong fairness of each caller's take and give, as the kernel gives the
  semaphore to the one that has waited longest among threads of one priority.
* `NpuSample`: weak fairness of the thread and of a command that waits in its join.
  The NN runtime answers every call.
* `MCSample` and `MCDrivers` take over the fairness of each part for the part that runs.
* `VideoChannel`, `Dmic`, `GpioIrq`, `NpuLoader` and `Detection` state safety only.

### Assumptions about the HAL

* The video engine fills a slot only while it has not lent it, produces one JPEG
  frame per trigger, answers a key frame request with a key frame as its next
  frame, and takes back every slot in `video_close` if that succeeds. The length it
  gives of an encoded frame may be 0.
* A release that names another codec than the channel was opened with does not take
  the slot back.
* `video_encbuf_release` is told a length; the model takes it to release the slot
  that the buffer carries.
* `k_fifo_put` is `sys_sflist_insert` after the tail, which takes the new item for the
  tail only if the old one has no successor (`PutLink`, `PutTail`).
* The audio DMA fills pages in ring order, stands still when all are out, gets
  back the page that has been out for longest, and keeps the pages as they are
  over a stop.
* The SD host gives its done event at most once per transfer, perhaps after the wait
  for it has given up; a card that is not initialised moves no sector.
* `hal_gpio_irq_init` numbers the pins of a controller in the order of their first
  initialisation.
* The objects of the NN runtime live until they are destroyed; a call that fails has
  changed nothing, and a destruction that is refused leaves the object. Told to destroy
  what is no buffer, the runtime may do either.
* `malloc` returns a block that lies within the address space.
* Kernel queues and semaphores behave as Zephyr documents them; the scheduler is
  preemptive by priority.

## 4. Proofs

All proofs are by an inductive invariant: it holds initially, each step keeps it
(one proof step per action), it implies the property. The only assumptions are
those named in the modules (`ChannelAssumption`, `TaskAssumption`,
`RestartAssumption`, `RecordingAssumption`, `DmicAssumption`, `SdAssumption`, `GpioAssumption`,
`FlashAssumption`, `NpuAssumption`, `NsAssumption`, `LoaderAssumption`,
`DetAssumption`), which say that the constants have the right kind and, for the
loader, that the headers are not shorter than the padding of an aligned block. The
array of `VideoRestart` has more than one buffer (the code's has 16): a single one
would be linked to itself by the second life. TLC evaluates each of them on a
passing run. One theorem has a hypothesis of its own: `RequeueGetsShorter` takes the
engine's slots to be finitely many.

**`VideoChannelProofs`**, for any buffers, slots and kinds of format, across changes
of format, and whether or not a close may fail. Neither `BuffersConserved` nor
`NoDoubleRelease` is inductive alone. `PlacesInv` adds `ClientView`, what
`streaming`, `drained` and `current` say of the queues and of `op`: without it an
enqueue could put down a buffer nobody holds. `FramesInv` adds `EngineView`: a
closed channel has lent nothing, and one whose close cannot fail is open only while
its client streams. The heart of the argument is `FramesPrivate`: `Live` buffers
carry distinct lent frames, so the release of one cannot be that of another, and
buffers that are not `Live` are never released because the contract makes the client
clear them. Two lemmas about queues without repetitions (taking the head,
appending) carry the sequence reasoning. `ChannelImplementsLoan` then maps every
action to an action of `FrameLoan` or to a stutter, using that `LoanNow` picks the
only `Live` borrower.

**`VideoTaskProofs`** removes the client from those theorems. `TaskInv` says of a
streaming thread where it stands: what it holds follows from `next` and `pc`
(`HeldView`), and each stretch of its code finds the driver as `BeforeStream`,
`InStream` or `AtTheEnd` describe. From these follows the driver's contract at every
call (`ThreadIsContractual`), so every step of the thread is a step `ChannelInv`
is known to survive, and the driver's four safety properties and the refinement hold
of driver and thread together with nothing assumed of a client (`StreamIsSafe`,
`StreamImplementsLoan`). The snapshot thread is exempt from these: it breaks the
contract, which is the first item of section 6.

It is not exempt from what concerns buffers. `HandsInv` needs no contract: what a thread of either
kind holds follows from its place (`HeldView`), and no step of the driver moves
anything else, so no thread loses a buffer (`NoThreadLosesBuffers`), and one that
waits has them all queued (`WaitingThreadKeepsNothing`). `RequeueGetsShorter` is about the loop at
EXIT, which empties `fifo_out` while a channel whose close failed still fills it.
Each turn shortens the queue or costs the engine a slot for good, because the loop
clears the size of what it requeues; so the turns are bounded by buffers and slots.

**`VideoRestartProofs`**, for any number of buffers and of lives. The links alone
are no invariant one can carry along, so `ListView` names the order of each queue
as a sequence that `head`, `tail` and `link` agree with (`IsList`), and the moves
become operations on sequences (`PutOnList`, `GetFromList`, `MoveOnLists`). That the
walk along the links meets the elements of the sequence (`LinkedIsTheList`) is an
induction over an interval of numbers, which the prover cannot take from the
library; `IntervalInduction` gets it by counting: a set closed under predecessors,
without 1, would map one to one into itself less its largest number. `FillView` is the
hard place, the loop that relinks the array under the old head: at its end the links
run through the whole array, and the queue is what follows that head (`FilledIsList`).
It also says why the tail is last at each put of that loop, unless `buffers[0]` was the
tail: everything here holds of `Untangled` lives, and `StaysUntangled` hands that
condition back from the next state to this one.
From this come `QueuesStaySound`, `PoolNeverGrows` (what one life has lost no later
life finds again) and `FlushAndRequeueShorten`: each turn of either loop leaves fewer
buffers to move or fewer slots to deliver from, the engine of a channel that could not
be closed working against it.

**`RecordingProofs`**, for any number of channels and any recording length above
one. The claim is mutual exclusion without a lock. `CardView` says that
`sdcard_init` is the lock: it is set from before the card is used until after it is
unmounted. `ShellView` says that a command which has passed the busy check has
the card to itself until it sets `record_pending`; this is needed because the check
and the writes are separate steps. `WorkView` hands the card from the request to
the one thread it names, and `FileView` ties an open file to its place in the loop.
`RecordingsGetShorter` bounds a recording by three steps of its thread a frame.

**`LiveNNProofs`**. `NNInv` ties the resources to the thread's place
(`HeldWhereItStands`), what can be left behind too (`LeftWhereItStands`), the
status to it (`StatusWhereItStands`, `StatusPromises`),
and says what a command may rely on between reading `video_status` and writing
the status (`CommandRelies`). The last is what makes `RunningIsServed` hold although
the thread may preempt the command between the two. `StopIsNeverLost` needs one fact
more, `NoStopPending`: a start that has passed its check finds no stop request when
it writes, since only the shell, which is busy with that start, would have written
one. `RunningModelStays` is the other direction: no refused command and no failing
call takes a running model away; only EXIT does.

**`DmicProofs`**, for any number of pages, drops and blocks. `QueueIsNeverFull` is
the interesting one: `count` is bounded by the pages queued, plus one that a read
holds and has not counted off (`CountIsBacked`), all of those are out (`PagesView`),
and the DMA is about to fill one that is not. The lost update of `count--` is in
the model; it only ever makes `count` too small. For the order (`PagesInOrder`,
`PagesAreStill`) `RingView` says that the queued pages are the ring from
`read_idx` on, and `OutView` that the pages out are the ring from `oldest` on and
end with them; `RingAt` is one conditional subtraction, so that the proof needs no
arithmetic modulo a variable.

**`DriverProofs`**. For the disk, with any number of callers: `MutexHeld` and `CallProgress` say
which caller is inside and how far. `XferIsWaitedFor`: a running transfer is that
of the owner, who waits for it. `SemaBelongs`: a unit in the semaphore is the
owner's unless an abandoned transfer has given one (`sdLate`). `MarkIsEarned`: the
mark of initialisation is on the status only over an initialised card, unless
an interrupt and a caller have written the status at once (`sdRaced`).

For the GPIO driver, the number that the routine finds by
counting slots of its controller is the number the HAL gave the pin, because both
count configurations in the same order (`SameOrder`). For the flash, the claim is
inductive as it stands, over the errors that leak a unit and until an interrupt has
entered beside a thread (`flashForced`).

Nobody waits for a caller that has gone: a blocked caller of the disk waits for one
that is inside (`SdBlockedAreServed`), and a flash semaphore that is down has a
holder in the HAL unless the erase of a bad offset has leaked it (`FlashSemHasHolder`).

**`NpuProofs`**. For the suppression,
`DetInv` says of the prefix the outer loop has passed that it is decided as the
order-free definition decides it (`TurnView`, `ClassView`); that no candidate falls
between two classes is an injection of finite sets. For the loader, `LdInv`
bounds the content once its length has been checked, and `LdCopyIsTheFile` follows
without a sum or difference that wraps, for partitions with room for their headers.
For the sample, with any number of inputs, outputs and inferences, `HandleView`
says what the handle and the runtime hold at each place of a run and that the two
agree whatever call has failed, unless `npuExcuses` says why not, and `FlagView` that the flag is
up or the thread has passed its last use of what it shares. `OnlyCountsLeadAstray`
bounds the one excuse that is the driver's own: `destroy_buffers` leaves the arrays only
in the unload of a load whose counts were refused.

**Progress.** Liveness is out of the prover's reach, but the measure behind it is
not: a number or a set that no step of anyone makes larger and every step of the
process in question makes smaller. These theorems are that half of a liveness
property, for all values of the constants; the other half, that the process goes on,
is its fairness, and TLC checks the two together.

| Measure proved | Liveness checked |
|---|---|
| `SdCallsGetShorter` (at most 8 steps to the return) | `SdCallsReturn` |
| `NsRunsGetShorter` | `NsRunEnds` |
| `RecordingsGetShorter` | `RecordingEnds` |
| `FlushAndRequeueShorten` | `StopEnds` |
| `RequeueGetsShorter` (the one loop of EXIT that the engine works against) | `StopEndsThread` |

Only model-checked:

* liveness, everywhere (the prover has no rules for fairness);
* the frames of the snapshot thread. That it releases each slot once is false
  (section 6); every other property of that thread the runs check is either proved for
  both kinds (`BuffersConserved`) or liveness.

## 5. What is not modelled

Of the drivers and samples with models: the tables of formats and frame intervals of
the video driver, the control values passed through to the engine, and its signals;
motion detection, encryption tests and statistics of the video sample, which read
frames and change nothing shared; the codec part of the audio sample; the decoding of
tensors and the overlap of two boxes (floating point; the overlap is any symmetric
relation); the contents of flash sectors; the loops of the loader's searches (any
record may be the one they end at).

Whole components, and why:

* *SPI.* Callback, user data and device are three words set before the bus is idle
  (`spi_amebapro2.c:176`). With one caller nothing is concurrent; with two, whatever
  one would state of it (each callback is called once) is false, and nothing in the
  repository says which of the two is meant.
* *I2C.* A transfer spins on a flag that the HAL's callback sets
  (`i2c_amebapro2.c:176`); whether it is called after a failed send is outside the
  repository.
* *UART, ADC, PWM, entropy, pinctrl, video controller, SoC, other samples.* They hand
  values to the HAL or run straight through; no state, no protocol.
* *The input images* of `samples/npu` are arrays of pixels, two C files of about
  89,000 lines together: nine tenths of the lines of the repository. There is
  nothing to model in them, so the share of all lines that `map` covers stays at a
  few percent however much of the code is modelled. Of the other 9,400
  lines it covers about 3,000.

Data is abstracted throughout: a frame is its slot, a file is whose data it holds, a
model is what of it is loaded.

## 6. What the models found

Each of these has a run whose counterexample is the story.

* **Late snapshot frame** (`task_late_frame`, `main.c:815`). On a timeout the thread
  stops the stream without requeuing. A frame delivered just before the stop stays
  on `fifo_out` with its size, meets the next snapshot as if it were new, and is
  released again although `video_close` gave its slot back.
* **Stop that nobody serves** (`live_nn_stopping`, `main.c:1134`). `nn stop` writes
  `STOP_REQUESTED` after the thread it was meant for has ended. Every `nn start` is
  refused from then on; a second `nn stop` repairs it.
* **Queue empty (should not happen)** (`dmic_empty`, `dmic_amebapro2.c:488`). The
  interrupt between load and store of `count--` is lost, and a read that has a
  semaphore unit fails although a page is queued.
* **Second start** (`live_nn_second`, `main.c:1092`). `nn start` compares the volatile
  status four times. When the thread moves from `STARTING` to `RUNNING` between the
  comparisons with these two, the start is let through, the model is loaded over the
  loaded one, and the flash image and the network of the first have no name any more.
  `IdleHoldsNothing` says that nothing else but a refused release leaves anything.
* **Knotted queue** (`restart_stop`, `main.c:763`). A restarted thread links its
  buffers into queues that still hold them. If `buffers[0]` is the tail, as after one
  recycled frame, it is linked to itself and the others are inserted behind it; the flush
  of the next stop then goes round for ever, although the close has succeeded, and the
  recovery of the buffers is not reached.
* **Counts that were refused** (`npu_leftover`, `ameba_npu.c:359`). `ameba_npu_load`
  stores the counts of a network before it finds them too large, and its clean-up goes
  by them. With outputs beyond the array and an input, or inputs beyond both arrays, a
  count is handed to `NN_DestroyBuffer`.
* **Busy for ever** (`recording_refused`, `main.c:816`). A snapshot that times out, or a
  thread that ends while it records, leaves `sdcard_init` set, and every record
  command is refused.

Noted while modelling, and without a comment or test that says otherwise:

* a frame of length 0 (`main.c:859`) is lent and never released by
  `video_amebapro2_enqueue` (`video_amebapro2.c:329`): its slot is lost until the channel
  closes (`unsized`). After a snapshot that is at once, on a stream at its end;
* a stop that the thread of `video_0` obeys before it takes a snapshot request leaves
  `record_pending` and `sdcard_init` set (`main.c:785-801`), and every later record
  command refused, as in `recording_refused`;
* the buffers that come before the old head of `fifo_in` are lost at a restart, and no
  later restart brings them back (`PoolIsTail`, `PoolNeverGrows`);
* in EXIT the status says `RUNNING` until all is released (`main.c:946-951`), so that
  `nn status` may report a model that is already gone: `RunningIsServed` allows for it;
* a deinitialisation of the NPU that fails leaves it up while the flag says otherwise
  (`main.c:394-403`, and `main.c:369` of the NPU sample, `nsStuck`);
* the first frame of a recording is written twice (`main.c:893` and `912`);
* the result of the card initialisation is ignored (`main.c:1268`), which leaves a
  request nobody takes;
* a misaligned write does not look whether it got memory for its copy
  (`sdmmc_amebapro2.c:310-313`); the model goes on as if it had;
* a late done event leaves a unit for the next wait of the SD driver
  (`sdmmc_amebapro2.c:76`), which then ends before its own transfer: `SdNoEarlyWake` is
  stated up to the first wait that gives up (`sdLate`). `SdSuccessIsReal` needs no such
  condition: a call woken early retries or fails;
* a read whose card is pulled during the call skips the transfer and answers 0
  (`sdmmc_amebapro2.c:241`), which `SdSuccessIsReal` allows for;
* a bad offset makes `flash_ameba_erase` return without giving the semaphore
  (`flash_amebapro2.c:105` and `110`), after which every caller waits for ever (`FlashBadErase`);
* the loop of `flash_ameba_erase` counts bytes and erases the first sector each time
  (`flash_amebapro2.c:115-117`); the model has no sectors;
* `partition->length - NPU_FLASH_MANIFEST_SIZE - NPU_FLASH_IMAGE_HEADER_SIZE` wraps for
  a partition shorter than its headers (`ameba_npu_model_loader.c:182`), so that a
  content longer than the partition is accepted; `LdCopyIsTheFile` excludes such a
  partition, which the layout of the flash is trusted not to have.

## 7. Plan

What would add most next, in this order:

1. `LiveNN` over `NpuModel`, so that what a second start leaves behind is the objects of
   the runtime one by one.
2. Sectors in `FlashCtl`: which are erased, which are read or written meanwhile.
3. The searches of the loader as functions over small tables, against a definition
   of the record they should find.
4. The asynchronous SPI transfer, once the repository says whether callers exclude one
   another.
