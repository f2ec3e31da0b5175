# NovaSDR in TLA+

A verification project for the Rust backend of NovaSDR (`src/crates`): TLA+
modules of the server's concurrent core, TLC runs that check them on small
instances, and TLAPS proofs of the properties that matter most for every value
of the constants. Every definition is translated from the source;
`PROJECT.json` names the lines each one stands for.

    tlc -workers 2 -config MCDspRunner.cfg DspRunner     # one run
    tlapm ServerFilesProofs.tla                          # one proof module

## 1. The system

NovaSDR turns the samples of one or more SDR receivers into per-listener audio
and waterfall streams over WebSockets. A receiver has up to three OS threads
(reader, DSP loop, waterfall worker); the connections are tokio tasks. They
meet in `AppState` (`state.rs`): `DashMap`s of clients, a `Mutex` for each
client's parameters and pipeline, and bounded channels.

| Component | State it keeps | Operations | Meets whom, and how |
|---|---|---|---|
| **Admission** (`state.rs`, `upgrade()` of `ws/*.rs`) | `ws_ip_counts`, one `WsIpGuard` per connection | acquire or refuse (429), class limit, registration, two-step release in `Drop` | all upgrades share one map |
| **DSP threads** (`dsp_runner.rs`) | sample buffers in `free`/`filled`, spectrum buffers in `free`/`work`, `half_a`, `half_b`, `frame_num` | read, overlap, FFT, hand over or skip a waterfall frame, return buffers | four bounded channels |
| **Waterfall clients** (`ws/waterfall.rs`, `send_waterfall`) | `waterfall_clients[level]` of each receiver, `params`, queue (8), out channel (8) | connect, window, switch, leave; iterate and send | shard locks, the `params` mutex, two channels per client |
| **Audio clients** (`ws/audio.rs`, `send_audio`) | `audio_clients`, `signal_changes`, `params`, `pipeline`, queue (128), out channel (8) | connect, window, demodulation, switch, leave; iterate, process and send | shard locks, two mutexes, two channels per client |
| **Audio pipeline** (`ws/audio.rs`) | squelch counters, accumulator and offset, packet being gathered | squelch decision, gate, cut samples into blocks, pack blocks | called under the `pipeline` mutex |
| **Chat** (`ws/chat.rs`, `state.rs`) | `chat_clients`, history (20) under a tokio mutex, `chat_history.json`, rate counters | join, history, rate limit, append and persist, broadcast, evict, leave | map, mutex, file, one queue (64) per client |
| **Events feed** (`ws/events.rs`, `start_events_task`) | `event_clients`, `signal_changes`, bit counters | snapshot, tick, broadcast, evict | reads what the audio handlers write |
| **Server files** (`config.rs`, `overlays.rs`, `main.rs`, watchers of `state.rs`, `setup.rs`) | `config.json` and the migration's `config.tmp`, `receivers.json`, three overlays on disk and in memory | load, migrate in place, check, create what is missing, watch; wizard: read, ask, save one file after the other | server, wizard and operator share only the disk |
| **FFT engine** (`dsp/fft.rs`, `dsp/clfft.rs`, `dsp/vkfft.rs`) | half-frames, `complex_frame`, GPU buffers, command buffer, fence or queue | construct, window, transform, quantize the levels, fall back to the CPU, drop | called by the DSP thread; the worker owns a quantizer of its own; devices work on their own |
| **Demodulation** (`dsp/demod.rs`, `agc.rs`, `dc_blocker.rs`) | filter state, AGC look-ahead | sample processing | inside the pipeline |
| **Input** (`input.rs`, `input/soapysdr.rs`) | device stream, remaining samples | open, read, time out, stop | called by the reader |
| **Registration, update check** (`registration.rs`, `update_check.rs`) | attempts, back-off | post, retry, sleep | external services, shutdown flag |
| CLI, logging, banner, benchmark, codecs, wire types, `ws_probe` | none shared | - | - |

What is hard here, and what makes each part correct:

* **Admission** must never leak a slot (an address would be locked out until
  the restart) and never refuse without cause. Its release looks at a counter
  under one lock and removes it under another.
* **DSP threads** recycle a fixed number of buffers. A buffer lost on one of
  the many drop paths stops the receiver for ever; one returned twice blocks a
  `send`. The overlap of half-frames must survive the channels, the waterfall
  must not hold up the audio.
* **Waterfall and audio clients** are changed by their handler while a DSP
  thread iterates over the same maps. Map, parameters, pipeline and the
  settings that were sent have to agree again after each command; locks are
  taken in different orders by different actors.
* **The pipeline** cuts frames into blocks of another size and drains its
  accumulator only now and then; the squelch discards part of it.
* **Chat** has clients that join between two messages, several posters, an
  eviction of slow clients, and a file that is overwritten in place.
* **The events feed** tells two accounts of the same listeners, the maps and
  `signal_changes`, each copied shard by shard while the handlers go on; what
  arrives last must still be the truth.
* **The server files** are rewritten in several steps by two processes that do
  not know of each other, either of which may end between any two.
* **The FFT engine** keeps its buffers, its command buffer and its fence from
  frame to frame. A call may fail anywhere; the CPU then starts again on what
  the device has left, and memory that is not coherent shows the host an old
  frame unless it is invalidated.

## 2. The modules

### WsAdmission (core; proved in WsAdmissionProofs)

`wsIpCounts` is `ws_ip_counts` (0: no entry), `pc` the progress of each
connection through `upgrade()`, `handle()` and `Drop`, `registered` the client
maps whose size is compared with a class limit. Each action is one critical
section of a shard: `Acquire` and `RefuseAddress` are the two outcomes of
`try_acquire_ws_ip`; `RefuseClass` and `Admit` the comparison with
`limits.audio/waterfall/events`; `ReleaseOne`, `ReleaseLast`, `ReleaseRemove`
the branches of `release_ws_ip`, whose `get_mut` and `remove` are separate
steps. `Evict`, `MoveOut`, `MoveIn`, `FailMove` are how clients leave a map
without leaving the server. Chat has no class limit and its map is not read.

### DspRunner, FrameStream (proved in ReceiverProofs)

Reader, DSP thread and worker with their program counters. `free` and `wfFree`
are numbers of buffers, `filled` and `work` sequences of half-frame and frame
numbers. The initial states cover all four combinations of the optional
threads. Every `try_send`/`send`/`recv`, every drop branch and every error exit
is a step or a disjunct of one. `FrameStream` is the abstract promise: halves
1, 2, 3, ... where each frame overlaps the one before it by one half;
`ImplementsStream` is the refinement.

### WaterfallHub and AudioHub (proved in WaterfallHubProofs and AudioHubProofs)

The two registries, each with three kinds of actors per client (handler, send
task, DSP thread of each receiver). Steps lie between two points where an actor
may have to wait for another. Locks released within a step are guards of it;
those held across steps are predicates over the program counters
(`ReadLocked`: an iterating DSP thread holds a shard; `ParamsLocked`;
`PipelineLocked`: from `process()` to the last `try_send`). A frame is
abstracted to (receiver, level it claims, level it was cut from), a packet to
(receiver of its spectrum, pipeline that made it), a window to its level, or to
"default" and "chosen".

### AudioPipeline (proved in AudioPipelineProofs)

One call of `process()`: `FrameGated` or `FrameHeard`, then one `EncodeBlock`
per iteration of the packing loop, ended by `Finish` or `BlockFails`. Samples
are numbers in the order they are demodulated, so that loss, repetition and
stale samples show. A frame's squelch features are reduced to the comparisons
`update()` makes. `due`, `gateAt`, `failed`, `wasOpen` and `recent` are history
variables that no action's guard depends on, `failed` excepted: it counts the
calls that failed since one last encoded a block and succeeded, and `MaxFailures`
bounds it. (A call whose frame is too short for a block succeeds without
encoding anything and drains nothing: it does not end the count.)

### ChatRoom (proved in ChatRoomProofs)

Handlers, the mutex of the history (`locked`, with the file write inside the
critical section), the broadcast shard by shard, the removal of full clients
afterwards, send tasks, and `Restart` at any moment: inside a write it leaves
the old file, a torn one or the new one. A torn file is read as an empty
history, as `load_chat_history` does. `seen` and `evicted` are history
variables.

### EventsFeed (proved in EventsFeedProofs)

Audio handlers reduced to what they do to `audio_clients` (`inMap`), `params`
(`tune`) and `signal_changes` (`signals`), one step per critical section, in
the order of `AudioHub`; a subscriber's handler (`Subscribe` into the map first,
`Snapshot` shard by shard, `Greet`) and its send task (`Deliver`); the events
task (`Wake`, `CheckChanges`, `CopyChanges`, `SendTick`, `SweepDead`).
`NoChanges` is a message without `signal_changes`. `absent` is a history
variable: who has been away all the time since a copy began.

### FftEngine, VulkanFft, OpenclFft, WaterfallPyramid (proved in ReceiverProofs)

`WaterfallPyramid` is the pure part: where the levels start, which bins each
entry of a level sums up, with which `power_offset` it is scaled. `VulkanFft`
and `OpenclFft` are the two devices: their objects, what each call does to
command buffer, fence, queue and buffers, and what the device does by itself.
A method of the code is a *script*, the sequence of its calls; `FftEngine` runs
the scripts of construction, `execute()` and `Drop` call by call (`GpuStep`), lets
any of them fail (`GpuFails`) and goes where the code goes then: to the CPU
path, to a frame without a waterfall, to an error. A buffer's content is
(first half-frame, second half-frame, how far it has been processed), so a
stale, unwindowed or twice transformed buffer shows. `machine` is the engine of
the DSP thread or the quantizer of the worker, `acc` the accelerator.

`vkLive` and `clLive` are the objects that exist, `Needs` and `ClNeeds` what each
was made from. `Construct` makes them in the order of `new`, the Vulkan ones from
an `ash::Entry` that is a local of `new` and is dropped when it returns, with a
value (`LeaveNew`) or without (`AcquireFails`; nothing else is released then, the
handles of `ash` have no destructor). The OpenCL wrappers do release themselves
when `new` fails; the plan, a bare handle, does not (`ClAcquireFails`). A Drop is
the script of the `drop` method, in OpenCL followed by the fields in the order
of their declaration: the handle of the context goes first, the context itself
with the last object attached to it (`ClRelease`). A worker whose quantizer could
not be made goes on without one, and nothing drops what was left of it.

`FftEngineInvariant` has the definitions of the inductive invariants of the
engine, and nothing that models code. Lengths, starts and the levels themselves
are recursive functions of the level, as the code's loops compute them;
`BandOf`, the bins an entry has to be about, is the reference they are compared
with.

### ServerFiles (proved in ServerFilesProofs)

`config`, `tmp`, `receivers` and `overlay` are the disk; a file is absent, whole
or partial, and a partial file knows who is writing it, so that a writer whose
file was renamed away changes nothing any more. Server actions follow
`main()` up to the watchers (`ParseConfig`, the four steps of
`write_json_atomic`, `CheckReceivers`, `CreateOverlay`, `FillOverlay`,
`LoadOverlays`, `Watch`); wizard actions follow `setup.rs` (`StartSetup`,
`EnsureOverlay`, `AskBands`, `Choose`, `WriteOverlay`, `SaveConfig`,
`SaveReceivers`); `Stop` and `Abort` end either at any point. A draft is any
pair of documents the prompts can lead to. `saved` and `overwrote` are history
variables.

### Composition

`DspRunner` produces the frames that `AudioHub` and `WaterfallHub` send, and
calls `FftEngine` for each; `AudioHub` calls `AudioPipeline` under its lock and
tells `EventsFeed` what it announces and withdraws. The modules meet at these
calls: what one module leaves open (`AudioHub`: any packet or none;
`DspRunner`: a frame number; `FftEngine`: a pair of half-frames) another one
settles. `EventsFeed` repeats the announcing part of `AudioHub`'s handler,
`FftEngine` composes three modules, `DspRunner` implements `FrameStream`.

## 3. The runs

| Run | Question | Bounds, and why they are enough |
|---|---|---|
| `ws_admission` | no leaked slot, no dead client in a map, no unjustified refusal, no ghost lock-out | 3 sockets of one address with limit 2 (a release can race with a release and with an upgrade at once), 1 of another, 3 classes so that the class refusal, eviction and failed moves happen; the safety part is proved for all constants |
| `ws_address_limit` | **violated**: an address exceeds `ws_per_ip` | the same instance |
| `dsp_runner` | buffers conserved, no blocking send, stream refinement, order, progress without the worker | pools of 3 (`half_a`, `half_b` and one to circulate: the smallest that runs), 2 jobs, every 2nd frame, 8 reads: every drop branch that is not dead code fires |
| `waterfall_hub` | maps, parameters, settings and frames agree | 2 interchangeable clients in one shard (with separate shards the iteration never meets a held lock of the other), receivers with 2 levels and with 1, queues of 1, so that they are full at once |
| `waterfall_deadlock` | **violated**: `send_waterfall` and a window command wait for each other | the same instance |
| `audio_hub` | map, parameters, pipeline and other users agree; nothing stale after a switch; no lock cycle | 1 client, 2 running receivers (two DSP threads compete for it) and one that cannot be built, queues of 2. Clients share nothing but shard locks held by DSP threads, which `waterfall_hub` covers with two |
| `audio_pipeline` | samples intact, accumulator bounded, packets within the threshold, squelch | frames of 3 and blocks of 2 samples, so that blocks straddle frames and the drain happens; sizes 1 and 2 with threshold 3, so that packets hold 1 to 3 blocks; 2 soft and 3 weak frames decide; 6 frames, 2 failures before a call encodes again; proved for all constants |
| `chat_room` | nobody misses a message; file and history agree; posting ends | 2 clients in 2 shards, each also a poster; queue, history and window of 1, so that each overflows; 2 messages, so that posters overlap and the history drops one |
| `chat_panic` | **violated**: a client in the map without a handler | the same instance |
| `events_feed` | no ghost in a copy; what subscribers were told converges to the truth; they hear something again and again | 2 listeners and 2 receivers (4 shards, so that every copy can be overtaken on both sides), 1 subscriber (subscribers share nothing but the broadcast), queue of 1, so that it fills, every 2nd tick instead of every 10th, 3 steps begun by listeners: a connection, a switch and a departure, or two listeners meeting. 603 154 states |
| `fft_engine` | spectrum and waterfall are of this frame on every path; calls in valid states; objects in order; every frame returns | 8 bins and 3 levels (two halvings, of which the second reads what the first wrote), 2 frames, so that the second meets what the first and its failures left; engine and worker, three accelerators, real and complex input, coherent memory and not; the safety part is proved for all constants |
| `server_files` | what a finished wizard saved loads; a torn `config.json` has a whole copy; overlays are hot-reloaded | 2 receiver ids (a list can have none, one or two, and the active one may be missing), 1 overlay, as the three share nothing; any number of starts, stops, setups and edits. 204 910 states |

The code's own numbers are larger (queues 128, 8 and 64; out channels 8; 512
sample buffers; 8 spectrum buffers and 4 jobs; history 20; 20 messages in 10 s;
8 violations; 3 soft and 10 weak frames; 700 bytes). Nothing in the actions
depends on their size except through "full", "empty" and "reached", and the
instances reach all three. For the safety properties the proofs of section 4
remove the bounds.

Deadlock is checked except in `dsp_runner`, where the threads end with the
input, and in the two runs of the waterfall, which really stops: that is the
finding of `waterfall_deadlock`.

Where a run has no `TypeOK` of its own, the type invariant is the first conjunct
of one of its invariants (`RegistryMatchesHandler`, `OneReceiverPerClient`,
`StreamIntact`, `FileIsHistory`, `ObjectsInOrder`, `NoGhost`,
`CompletedSetupLoads`).

**Fairness.** Only where a liveness property needs it. `WsAdmission`: a `Drop`
and an `upgrade()` that have begun run to their end (they wait for nothing but
a shard lock held for a few instructions); nothing is assumed of peers.
`DspRunner`: the OS runs the reader and the DSP thread, and an input delivers
or fails; the worker gets none, so `StreamFlows` also says that the audio path
does not depend on it. `ChatRoom`: handlers that can run are polled (`WF`), and
the tokio mutex queues its waiters in order, hence `SF` for `AppendMessage`.
`EventsFeed`: a handler finishes what it began (`Proceed`; it waits for shard
locks only), the events task sleeps a second at a time and has no way to end,
and a subscriber that stays reads what it is sent. `FftEngine`: the thread that
runs `execute()` keeps running, a call that can return does so, with success or
an error, and a device works off what was submitted to it; `EveryFrameReturns`
then says that no wait is for work that was never submitted. `ServerFiles`:
the watchers wake every minute; nothing is assumed of wizard and operator.

**What the models assume of their surroundings.** `wait_for_fences` without a
time-out fails only when the device is lost. The host's view of memory that is
not coherent is the oldest one it can be: what it last wrote or invalidated. A
kernel that reads what another one writes meanwhile gets garbage, and so does
the device when the host changes a buffer under a queued write. A fence and an
invalidate make what a device wrote visible to the host; the barrier to the host
stage that the Vulkan specification asks for besides is not in the model, nor in
the code. OpenCL objects keep the context they were made in, releasing a queue
waits for nothing, and clFFT's setup is never torn down. `otherusers` is
positive (otherwise no listener is told to anybody). One server and one wizard
run at a time, and the configuration has no disabled receivers, which the
loader passes over.

**Properties per run.** Each property of a passing run comes with a mutant in
`PROJECT.json`: an operator of the module, marked "Wrong variant", that changes
the named definition like a plausible bug and makes the property fail.

## 4. What is proved

`WsAdmissionProofs`, for all finite sets of sockets, any addresses, classes and
limits. The inductive invariant is
`Admission == TypeOK /\ CountCovered /\ CountWithinLimit`. `CountCovered` is
what carries it: the map may count *too few* guards (that is the race of the
finding), never too many. Acquiring adds one to both sides; the two-step
release either lowers both, or sets the count to 0, which anything covers.

* `TypeCorrect`, `NoSlotLeaks`, `CountsBounded`: its three parts. `CountsBounded`
  (the map never counts more than the limit) is proved and has no run.
* `RefusalsJustified`: the action property. A refusal sees `Limit` in the map,
  and `CountCovered` makes that many guards exist.
* `SingleSlotExact`: for `ws_per_ip` of at most 1, `AddressLimitHolds` *is* an
  invariant: then the count is exact, since the socket between its `get_mut`
  and its `remove` is the only holder. So the finding needs a limit of 2 or
  more.

`ReceiverProofs` has three parts: the threads, the engine up to the spectrum, and
the waterfall. `DspRunner`, for all pool depths, channel capacities, frame skips
and lengths of the input. The inductive invariant is `IInv`: types, `Modes` (which
channels are unused without a thread), the two pool equations, `Contiguous`
(taken, then queued, then in the reader's hand: consecutive numbers) and
`Ordered` (jobs increase from what was sent to `frameNum`).

* `SamplePoolConserved`, `SpectrumPoolConserved`: each buffer is in one place.
* `SendsFindRoom` follows from the two by counting: the sender itself holds a
  buffer, so the channel cannot be full. The reader's "dropping buffers" branch
  is therefore dead code.
* `FramesInOrder` from `Ordered`, `StreamImplemented` (the refinement) from
  `Contiguous`.

`FftEngine`, in the same module, for every FFT size, number of levels and number
of frames, for engine and worker, the three accelerators and both kinds of
memory, with a failure of any call in any frame. The inductive invariant
`EngineInv` (`FftEngineInvariant`) rests on one idea: **what is left of a script
is a path**. A *stage* is how far the use of command buffer and fence is (`Uses`),
and how far the samples are on their way (`Contents`: raw, in the host's view of
the buffer, in the device's, windowed there, owed by the commands recorded, n
commands queued, ...). `Leads` says from which stage to which a call may go, and
`InScript` that from a stage whose claims hold (`UseState`, `ContentState`) the
rest of the script leads call by call to the stage where the spectrum is there. So
no induction along scripts is needed: `ScriptPath` builds the path of every script
`execute()` starts with from those of its parts (`PathConcat`), each successful
call takes the first step off it (`PathStep`) and establishes the claims of the
next stage, a failed one starts the path of the handler (`HandlerOK`: which
handler may be set at which stage), and a step of a device keeps the claims of
every stage. The claims the code's correctness hangs on are

* `Owed`: the commands that are left in the command buffer make the spectrum of
  what is in the device's buffer, and no kernel reads what another one wrote
  without a barrier between;
* `InQueue`: the OpenCL queue holds, in order and behind what a failed attempt
  may have left, the commands of this frame that are not done; behind those come
  only ones that quantize. A write in the queue carries the content it was
  enqueued with, so that a buffer changed too early shows as garbage;
* `OutOfScript`: between frames nothing runs on a Vulkan device, and nothing of a
  complex frame is left in an OpenCL queue. Kernels that quantize a real frame may
  be (one that fails ends the waterfall before its blocking read): they are one
  kind of the older commands in `InQueue`, the other is what a GPU error leaves to
  the CPU path's own use of the device;
* `WindowLoaded`: the window is on the device before the first frame;
* `Closed`, `Acquiring`, `Complete`, `Releasing`, `Objects`: what is left of a
  constructor finds what it needs among what exists and what it makes before
  (`Buildable`), and makes nothing Drop would forget; what is left of a Drop
  takes nothing away before what needs it (`Removable`), except that the handle of
  the OpenCL context goes before the objects that keep the context. Both are
  lemmas about the scripts (`FftBuildable`, `QuantizerBuildable`, `ClBuildable`,
  `DropOrder`) that the steps of the two devices then carry on.

The theorems are

* `SpectrumIsOfThisFrame` from `OutOfScript`, which the last stage of a path
  establishes.
* `EveryCallIsValid`: the stages of use are those in which the next call is
  defined (`NextCallIsValid`), and while no call of a frame failed the queue has
  no write whose buffer has changed (`WritesInFlight`).
* `ObjectsReleasedInOrder`, for the objects of both back ends, from `Closed`,
  `Objects` and, for the queue a Drop finds, `OutOfScript`. Its two exceptions are
  what the code does (section 5): the entry, and the plan of an OpenCL
  constructor that failed.
* `EngineInvariant`: the invariant itself.
* `CpuPyramid`, about the algorithm alone: for every positive number of bins and
  every base index, what `quantize_and_downsample_cpu` returns covers its bands on
  every level, also where a length is odd or a level is empty. It is an induction
  over the levels. The library's induction theorems have an operator as a
  parameter, but `WFMin` (a non-empty set of naturals has a least element) has
  none, and gives induction over a *set* of naturals (`Induction`). With it the
  recursive functions are shown to exist (`LengthsExist`, `StartsExist`,
  `WidthsExist`, `CpuPowersExist`, `CpuBytesExist`), a band is the union of two of
  the level before (`BandHalves`), and no two levels overlap (`LevelOrder`).
* `WaterfallIsOfThisFrame`, from a second invariant, `WaterfallInv` and
  `QueueTargets`, which is inductive only together with `EngineInv`: it takes from
  there that what the pyramid reads is this frame's spectrum. It has the form of
  the first one: what is left of the script is a path (`FallPath`) from where the
  waterfall of the frame is (`Falls`: nobody asked for one, still due, to be
  uploaded, k kernels queued, recorded, made, visible to the host) to how
  `execute()` may end, and `FallState` says what holds at each place.
  - `VkMade`: a pending command buffer has made a prefix of the pyramid, the
    other commands are left in it, and between two levels there is a barrier.
  - `ClMade`: of the kernels of the frame a prefix is done and the others are in
    the queue in order, behind what a failed frame left there. Those older
    commands may write powers and bytes too, but all of them come before the
    first kernel of this frame.
  - `MadeUpTo`: what is before a position of the buffer is right. Each
    kernel moves that position to the end of its level and needs the level before
    it (`LevelMade`, `ClKernelMade`); what lies behind may be of any frame.
  - `QueueTargets`: commands that carry samples leave powers and bytes alone.
    Without it the invariant is not inductive: a write left by a failed frame
    could fall on a level that is already made.

  The exception in the property stays as the code has it: real input on OpenCL
  whose kernels fail is sent without a waterfall.

`ServerFilesProofs`, for any set of receiver ids. The inductive invariant is
`IInv`: the types of each process and of the disk, `Copying` (while the
migration writes `config.tmp`, `config.json` is whole; from the copy on,
`config.tmp` is the migrated configuration; only the copy leaves `config.json`
partial), `Drafted` (a wizard's draft always names one of its own receivers as
the active one) and `Saved` (what was saved is on the disk unless `overwrote`).
The types alone are not inductive: that a writer has a document to write comes
from `Copying` and `Drafted`.

* `TypeCorrect`, `TornConfigHasCopy` (from `Copying`), `SetupLoads` (from
  `Saved`).

`WaterfallHubProofs`, for all clients, receivers, shards, levels and queue
capacities. The inductive invariant `IInv` has, beside the types: `Placed` (by
where its handler is, a client is in the one map the handler will look in, or in
none), `LevelsFit` (a level is one of the receiver it is used on), `Fresh` (what
a connection leaves for the next), `SettingsFirst` (the last settings sent or
queued are those of the receiver the client is on its way to), `FramesFollow`
(with no settings left in the queue, the frames queued are of the receiver shown)
and `Held` (the clients of a shard stay in the map while `send_waterfall` is in
it, and the frame it has in its hand is for that map).

* `RegistryFollowsHandler` from `Placed`; `SettingsOfReceiver` from
  `SettingsFirst`.
* `SettingsBeforeFrames`: the receiver settings are queued before the client
  enters the new map, and the send task prefers settings to frames, hence
  `FramesFollow`.
* `LevelOfFrame`, and the action property `NoFrameAfterRemoval`, from `Held`: a
  handler cannot remove a client from a shard between the look at its level and
  the `try_send`.

`AudioHubProofs`, for all clients, receivers, shards and queue capacities. `IInv`
has the types, `Placed`, `Tuned` (parameters and pipeline follow a switch one
after the other), `SignalsFollow` (what `signal_changes` tells, by where the
handler is), `Held` and `PacketsClean` (outside the middle of a switch, a client
with no settings queued has only packets of its receiver and pipeline).

* `OneReceiver` from `Placed` and `Tuned`; `WindowAnnounced` from
  `SignalsFollow`; `OnlyCleanPackets` from `PacketsClean`.
* `OneThread` from `Placed` and `Held`: a thread works on clients of a shard it
  has locked, they cannot leave the map meanwhile, and are in one map only.
* `NoDeadlockOfLocks` from `Held` and `OneThread`: a thread that waits for the
  parameters of a client does not hold its pipeline, and no other does.

`AudioPipelineProofs`, for all frame, block and packet sizes, thresholds and hit
counts. `IInv` has the types, `Numbered` (the accumulator holds consecutive
samples, of which the first unread one is due), `Undrained` and `Unread` (how much
it holds), `GatheredInCall` and `GatheringOn` (when the packet being gathered is
empty), `SmallGathered`, `Counted` (each squelch counter is the length of the row
of frames that ends the history) and four parts of the properties.

* `NoSampleSkipped`: `StreamIntact`, whole. Blocks are cut where `Numbered` says,
  so each starts where the one before it ended.
* `AccumulatorBounded` from `Undrained` and `Unread`. Neither is inductive while
  failures are counted "in a row": with frames shorter than a block, a call may
  succeed between two failures without encoding, and leaves what they left.
  Hence the meaning of `failed`.
* `GateDiscards` from `Numbered` (everything left was made after the gate), and
  `DecidedByRows` from `Counted`.

`ChatRoomProofs`, for all clients, shards and capacities. `IInv` has the types,
`Numbered` (only appended messages are kept or queued), `Locking` (who writes the
file holds the mutex; file and history agree when nobody does and the last write
succeeded), `Handlers` and `Knows`.

* `NothingMissed` from `Knows`: a client that is served and was not found slow
  knows the announced messages of the history, *and of those being announced the
  ones whose round has passed its shard*. It holds because a client enters the map
  before it reads the history: a message appended before that is in what it
  reads, a later one finds it in its shard.
* `HistoryOnDisk` from `Locking`.

`EventsFeedProofs`, for all listeners, receivers, subscribers and shard orders.
`IInv` has the types, `Placed` (a listener is in the map of one receiver, its
signals are those of the receiver it has not withdrawn from yet, and gone when it
is away), `StillAway` (whoever counts as absent from a copy is away), `Snapshots`
and `Ticks` (no copy shows them).

* `NobodyHaunts`: a row copied is in a map or in `signal_changes` at that moment,
  and by `Placed` whoever is there is not away.

`WsAdmissionProofs` also has `NoDeadClientCounted` (an entry of a client map comes
with the command loop and goes with it).

**Assumptions.** Only the named `ASSUME`s of the modules: finite sockets,
types of the constants, positive depths and capacities, at least one shard, at
least one level, an even FFT size of 8 or more, and
that the marks for "absent", "none", "nobody" and "no changes" are none of the
values they are told apart from.

**Only model-checked.** Liveness (`NoGhostLockout`, `StreamFlows`, `PostingEnds`,
`ViewConverges`, `PeriodicUpdates`, `HotReload`, `EveryFrameReturns`), since
fairness needs `ENABLED`. Every safety property of a passing run has a theorem;
the three violations are counterexamples and have nothing to prove.
Induction over data structures and `RECURSIVE` operators are outside what the
installed provers do. (The levels of a waterfall are numbers, and the code's loop
over them is a recursive function here, hence `CpuPyramid`.) `Size`, the sum of a
packet's blocks, is never expanded in a proof: the code compares it with the
threshold before it sends, and that is what the proof uses.

## 5. Findings

1. **`ws_address_limit`** (`state.rs`, `release_ws_ip`): the `remove` of one
   release can erase a slot taken after its `get_mut`; the address is then
   served more sockets than `ws_per_ip`.
2. **`waterfall_deadlock`** (`ws/waterfall.rs`, `apply_command`): `params` is
   held while the maps are written; `send_waterfall` holds a shard of a map
   while it locks `params`. Both wait for ever.
3. **`chat_panic`** (`ws/chat.rs`): `String::truncate` inside a character
   panics and leaves the client in the map.

Noticed while modelling, without a run of their own:

* The class limits are compared before the client is registered, so several
  upgrades can take the last place; a client in the middle of a move counts
  nowhere.
* `docs/STATE.md` calls the audio parameters atomics that are read without a
  lock; they are behind a `Mutex`.
* After an error of the DSP thread the reader waits in `recv` for ever, since it
  owns a sender of that channel itself.
* A switch to another receiver keeps mute, squelch and AGC parameters, a
  re-selection of the same receiver resets them.
* A failed switch of a waterfall client leaves `params.level` of the new
  receiver with the map of the old one; the clean-up may index out of range
  (`LeaveRemove` models the panic; the client is in no map by then).
* A chat client with a full queue is removed from the map but its socket stays
  open; it can go on posting and hears nothing more. So it is with a subscriber
  of `/events`.
* On a switch an audio client enters the new receiver's map (`ws/audio.rs:566`)
  before that receiver's settings are queued, so packets can precede them;
  `docs/PROTOCOL.md:27` expects settings first. The waterfall does it in that
  order (`FrameMatchesSettings` holds there).
* The packing loop closes the packet gathered so far whenever the next block
  would make it larger than 700 bytes, even if nothing has been gathered
  (`ws/audio.rs:1187`): a first block above 700 bytes produces a packet of no
  blocks ahead of itself.
* The departure of the last listener is not told to `/events` until somebody
  listens again (`dsp_runner.rs:712`); `ViewConverges` excepts it.
* After a GPU error the fallback is the CPU path of `execute_complex`, whose
  transform is still the device's (`process`), so that path can fail again and
  then ends the DSP thread. The OpenCL one overwrites the host buffer of a write
  that may still be queued (`CallsAreValid` excepts frames that failed).
* The OpenCL kernels scale the levels above 0 one `power_offset` (6 dB) brighter
  than the CPU and the Vulkan kernels (`clfft.rs:576`, `fft.rs:470`).
* Both Vulkan constructors drop their `ash::Entry` when they return, and the
  instance and the device are used and destroyed after it (`vkfft.rs:123`,
  `:680`). `ash` asks that nothing loaded through an entry is called after the
  entry, which unloads the loader, is dropped. Here the executable itself is linked
  with `libvulkan` (`crates/novasdr-core/build.rs:254`), which keeps it loaded.
  `ObjectsInOrder` excepts the entry.
* A Vulkan constructor that fails leaks all it had made but the entry. An OpenCL
  one that fails after it created the plan leaks the plan alone, whose context and
  queue are released (`clfft.rs:219-250`); `ObjectsInOrder` excepts this plan.
* When a call of a frame failed and the engine is dropped, a write from
  `complex_frame` or a transform of the plan may still be in the OpenCL queue, and
  nothing waits for it (`clfft.rs:857`); without a failure only kernels that
  quantize can be (`ObjectsInOrder`).
* The wizard's menu entries "Markers: clear", "Bands: reset" and "Bands: start
  empty" lead to the editor, because the branches before theirs ask whether the
  choice starts with "Markers" or "Bands" (`setup.rs:453`).
* The wizard saves two receivers that read stdin; the loader refuses them.
* A crash between the wizard's two writes leaves files that do not load
  together; a migration can replace a configuration that was saved after it had
  read the old one (`CompletedSetupLoads` excepts it).
* `write_json_atomic` ends in a copy; when it is cut short `config.json` is
  unreadable and only `config.tmp` is whole (`TornHasCopy`).
* A crash inside `write_json_if_missing` leaves a partial overlay that no later
  start repairs and that ends the wizard's editor (`HotReload` excepts it).

## 6. Not modelled

Numbers: the transforms, the demodulators, AGC, DC blocker and sample
conversion are floating point, and the models follow which samples and bins a
result is made of, never its value. Foreign code: VkFFT, clFFT, shader
compilers, zstd, FLAC and Opus. Pure functions of parsed documents:
`runtime_from_input`, wire types, wording filter. No shared state with a running
server: CLI, logging, banner, benchmark, `ws_probe`. Single sequential loops
with an external partner: input drivers, registration, update check; the
shutdown flag, which only they and a log level look at. Of the modelled parts:
which level a window leads to (any is allowed), the content of packets, the
overlap buffers of a muted client, bit counters, the wizard's prompts, and the
poisoning of mutexes.

## 7. Plan

Done, in this order: admission and its proofs; DSP threads, their refinement
and proofs; the two hubs; the pipeline; chat; the FFT engine on its three kinds
of devices; the events feed; the server's files with the wizard, and their
proofs; the proofs of the hubs, the pipeline, chat, the events feed and the FFT
engine. Next:

1. A `Registry` specification that both hubs implement (a client is in one place
   at a time and told where), and its refinement proved from `Placed`.
2. `RuntimeConfig`: `runtime_from_input` as operators over small inputs, and the
   choice of a level in `apply_command`, so that `WaterfallHub` takes its levels
   from it.
3. `InputStream`: `SampleReader`'s partial reads and the SoapySDR reader's
   time-out and stop handling; registration with back-off and shutdown.
