----------------------------- MODULE VulkanFft -----------------------------
(***************************************************************************)
(* The Vulkan back end (vkfft.rs): VkfftComplexFft, the transform of the   *)
(* DSP thread, and VkfftWaterfallQuantizer, the halvings of the waterfall  *)
(* worker.  Each owns an instance, a device, one command buffer, one fence *)
(* and the mapped buffers below, which its kernels and the host share.     *)
(*                                                                         *)
(* A method is a script: the sequence of the Vulkan calls it makes.  The   *)
(* effect of one call on the objects is an operator of this module; which  *)
(* script runs, and what a failed call leads to, is for FftEngine to say.  *)
(* The device works on a submitted command buffer on its own (DeviceStep). *)
(***************************************************************************)
EXTENDS WaterfallPyramid

VARIABLES
  vkLive,     \* the Vulkan objects that exist
  coherent,   \* is_coherent of the memory the device offers
  lost,       \* the device is lost: nothing can be submitted any more
  fence,      \* "unsignaled" or "signaled"
  cmd,        \* state of the command buffer
  rec,        \* commands recorded in it, or still to run when it is pending
  dirty,      \* buffers the running commands wrote since their last barrier
  host, dev   \* the mapped buffers as the host sees them, as the device does

vkObjects == <<vkLive, coherent, lost>>
vkWork == <<fence, cmd, rec, dirty, host, dev>>
vkVars == <<vkObjects, vkWork>>

Buffers == {"fft", "window", "power", "quant"}
CmdStates == {"none", "initial", "recording", "executable", "pending", "invalid"}

\* What has to exist as long as an object does.  "entry" is the ash::Entry
\* that owns the loader library and is a local of both constructors.
Needs(o) ==
  CASE o = "entry" -> {}
    [] o = "instance" -> {"entry"}
    [] o = "device" -> {"instance"}
    [] o = "command_buffer" -> {"device", "command_pool"}
    [] o = "desc_set" -> {"device", "desc_pool"}
    [] o = "plan" -> {"device", "command_pool", "fence", "fft"}
    [] OTHER -> {"device"}

\* select_physical_device takes any device with a compute queue, or fails.
DeviceSteps == <<"entry", "instance", "device">>
Common == DeviceSteps \o <<"command_pool", "command_buffer", "fence", "fft", "window", "power", "quant">>
Descriptors == <<"set_layout", "desc_pool", "desc_set", "pipeline_layout">>

\* create_compute_pipelines and create_compute_pipelines_quantizer: all
\* modules are compiled first and freed when the pipelines exist.
Pipelines == <<"shaders", "pipeline_window", "pipeline_power", "pipeline_half", "free_shaders">>
PipelinesQuantizer == <<"shaders", "pipeline_power", "pipeline_half", "free_shaders">>

\* VkfftComplexFft::new and VkfftWaterfallQuantizer::new, in their order.
ConstructFft == Common \o <<"upload_window">> \o Descriptors \o Pipelines \o <<"plan">>
ConstructQuantizer == Common \o Descriptors \o PipelinesQuantizer

\* Their Drop.
DropFft ==
  <<"plan", "idle", "pipeline_half", "pipeline_power", "pipeline_window", "pipeline_layout",
    "desc_pool", "set_layout", "quant", "power", "window", "fft", "fence", "command_buffer",
    "command_pool", "device", "instance">>
DropQuantizer ==
  <<"idle", "pipeline_half", "pipeline_power", "pipeline_layout", "desc_pool", "set_layout",
    "quant", "power", "window", "fft", "command_buffer", "command_pool", "fence", "device",
    "instance">>
-----------------------------------------------------------------------------
(* Objects *)

\* No object yet; the memory the device will offer is coherent or not.
VkInit ==
  /\ vkLive = {} /\ coherent \in BOOLEAN /\ lost = FALSE
  /\ fence = "unsignaled" /\ cmd = "none" /\ rec = <<>> /\ dirty = {}
  /\ host = [fft |-> Garbage, window |-> "unset",
             power |-> BlankPower(FftSize), quant |-> BlankBytes(FftSize)]
  /\ dev = host

HostWrites(b, v) ==
  /\ host' = [host EXCEPT ![b] = v]
  /\ dev' = IF coherent THEN [dev EXCEPT ![b] = v] ELSE dev

\* upload_window: copy, then flush_mapped.
UploadWindow ==
  /\ host' = [host EXCEPT !.window = "hann"]
  /\ dev' = [dev EXCEPT !.window = "hann"]
  /\ UNCHANGED <<vkObjects, fence, cmd, rec, dirty>>

\* One step of a constructor succeeds.
Acquire(o) ==
  IF o = "upload_window" THEN UploadWindow
  ELSE /\ vkLive' = IF o = "free_shaders" THEN vkLive \ {"shaders"} ELSE vkLive \cup {o}
       /\ cmd' = IF o = "command_buffer" THEN "initial" ELSE cmd
       /\ UNCHANGED <<coherent, lost, fence, rec, dirty, host, dev>>

\* It fails: what was acquired before stays, no Drop runs for a value that
\* does not exist yet, but for the entry, which goes when new returns.
\* create_mapped_buffer and create_compute_pipelines take several steps of
\* their own and may leave a part behind.
AcquireFails(o) ==
  /\ o # "free_shaders"
  /\ \E part \in SUBSET ({o} \cap (Buffers \cup {"shaders"})) : vkLive' = (vkLive \cup part) \ {"entry"}
  /\ UNCHANGED <<coherent, lost, vkWork>>

\* new returns the finished value: the entry is dropped.
LeaveNew == vkLive' = vkLive \ {"entry"} /\ UNCHANGED <<coherent, lost, vkWork>>

\* One step of Drop.  Destroying a pool frees what was allocated from it.
Destroy(o) ==
  /\ vkLive' = vkLive \ (IF o = "desc_pool" THEN {o, "desc_set"} ELSE {o})
  /\ cmd' = IF o = "command_buffer" THEN "none" ELSE cmd
  /\ UNCHANGED <<coherent, lost, fence, rec, dirty, host, dev>>
-----------------------------------------------------------------------------
(* Scripts *)

WindowCmd == [op |-> "window"]
TransformCmd == [op |-> "transform"]
PowerCmd(n, base) == [op |-> "power", n |-> n, base |-> base]
HalfCmd(n, l) == [op |-> "half", src |-> LevelStart(n, l - 1), dst |-> LevelStart(n, l),
                  len |-> LevelLen(n, l), drop |-> DropCpu(l)]
Barrier(b) == [op |-> "barrier", buf |-> b]

\* reset_fences, reset_command_buffer, begin_command_buffer ...
Begin == << <<"reset_fences">>, <<"reset_cmd">>, <<"begin">> >>
\* Wrong variants: the work is submitted and not waited for, or the fence is
\* waited for and nothing was submitted.
RunNoWait == << <<"end">>, <<"submit">> >>
RunNoSubmit == << <<"end">>, <<"wait">> >>
\* ... end_command_buffer, queue_submit, wait_for_fences.
Run == << <<"end">>, <<"submit">>, <<"wait">> >>

\* The kernel that makes level l.
LevelCmd(n, base, l) == IF l = 0 THEN PowerCmd(n, base) ELSE HalfCmd(n, l)

\* Wrong variant: no barrier between a level and the halving that reads it.
PyramidNoBarriers(n, base) == [i \in 1 .. Levels |-> LevelCmd(n, base, i - 1)]

\* The kernels of the levels, each followed by barriers on both buffers.
PyramidCmds(n, base) ==
  [i \in 1 .. 3 * Levels |->
     CASE i % 3 = 1 -> LevelCmd(n, base, i \div 3)
       [] i % 3 = 2 -> Barrier("power")
       [] i % 3 = 0 -> Barrier("quant")]

VkUpload == << <<"copy_in">>, <<"flush", "fft">> >>

\* window_and_process_inplace
VkWindowAndProcess ==
  VkUpload \o Begin
    \o << <<"record", <<WindowCmd, Barrier("fft")>> >>, <<"append">> >> \o Run

\* quantize_and_downsample of VkfftComplexFft
VkQuantize(n, base) ==
  Begin \o << <<"record", PyramidCmds(n, base)>> >> \o Run
    \o << <<"invalidate", "power">>, <<"invalidate", "quant">>, <<"read_quant">> >>

\* quantize_and_downsample of VkfftWaterfallQuantizer: uploads the spectrum
\* first, never reads the powers.
VkQuantizeSpectrum(n, base) ==
  VkUpload \o Begin \o << <<"record", PyramidCmds(n, base)>> >> \o Run
    \o << <<"invalidate", "quant">>, <<"read_quant">> >>

\* max_power (and the check of its result) and read_fft_output
VkMaxPower == << <<"invalidate", "power">>, <<"max_power">> >>
VkReadOutput == << <<"invalidate", "fft">>, <<"read_fft">> >>

\* process_inplace
VkProcessInplace ==
  VkUpload \o Begin \o << <<"append">> >> \o Run \o VkReadOutput
-----------------------------------------------------------------------------
(* Calls *)

\* The effect of a call that succeeds; `input` is what copy_in copies.
CopyIn(input) == HostWrites("fft", input) /\ UNCHANGED <<vkObjects, fence, cmd, rec, dirty>>

\* flush_mapped and invalidate_mapped, which do nothing on coherent memory.
Flush(b) ==
  /\ dev' = IF coherent THEN dev ELSE [dev EXCEPT ![b] = host[b]]
  /\ UNCHANGED <<vkObjects, fence, cmd, rec, dirty, host>>
Invalidate(b) ==
  /\ host' = IF coherent THEN host ELSE [host EXCEPT ![b] = dev[b]]
  /\ UNCHANGED <<vkObjects, fence, cmd, rec, dirty, dev>>

ResetFences == fence' = "unsignaled" /\ UNCHANGED <<vkObjects, cmd, rec, dirty, host, dev>>
SetCmd(s, cs) == cmd' = s /\ rec' = cs /\ UNCHANGED <<vkObjects, fence, dirty, host, dev>>

Submit ==
  /\ ~lost
  /\ cmd' = "pending" /\ dirty' = {}
  /\ UNCHANGED <<vkObjects, fence, rec, host, dev>>

\* wait_for_fences without a timeout.
WaitFence == fence = "signaled" /\ UNCHANGED vkVars

VkCall(c, input) ==
  CASE c[1] = "copy_in" -> CopyIn(input)
    [] c[1] = "flush" -> Flush(c[2])
    [] c[1] = "invalidate" -> Invalidate(c[2])
    [] c[1] = "reset_fences" -> ResetFences
    [] c[1] = "reset_cmd" -> SetCmd("initial", <<>>)
    [] c[1] = "begin" -> SetCmd("recording", <<>>)
    [] c[1] = "record" -> SetCmd("recording", rec \o c[2])
    [] c[1] = "append" -> SetCmd("recording", Append(rec, TransformCmd))
    [] c[1] = "end" -> SetCmd("executable", rec)
    [] c[1] = "submit" -> Submit
    [] c[1] = "wait" -> WaitFence
    [] c[1] \in {"read_quant", "read_fft", "max_power"} -> UNCHANGED vkVars

\* A call that can fail, and what is left of it.  A wait fails when the
\* device is lost at work, which ends that work; without work it goes on.
VkFallible(c) ==
  \/ c[1] \in {"reset_fences", "reset_cmd", "begin", "append", "end", "submit", "wait", "max_power"}
  \/ c[1] \in {"flush", "invalidate"} /\ ~coherent
VkCallFails(c) ==
  /\ VkFallible(c)
  /\ c[1] = "wait" => cmd = "pending"
  /\ IF c[1] = "wait"
       THEN /\ lost' = TRUE /\ cmd' = "invalid" /\ rec' = <<>> /\ dirty' = {}
            /\ UNCHANGED <<vkLive, coherent, fence, host, dev>>
       ELSE UNCHANGED vkVars
-----------------------------------------------------------------------------
(* The device *)

\* The shaders: what each kernel makes of the buffers it reads.
ApplyWindow(x) ==
  IF x[3] = "raw" /\ dev.window = "hann" THEN [x EXCEPT ![3] = "windowed"] ELSE Garbage
ApplyTransform(x) == IF x[3] = "windowed" THEN [x EXCEPT ![3] = "spectrum"] ELSE Garbage

\* A kernel that runs beside the one that writes its input reads anything.
Seen(b) == IF b \notin dirty THEN dev[b] ELSE IF b = "power" THEN BlankPower(FftSize) ELSE Garbage

KernelResult(k) ==
  CASE k.op = "window" -> [dev EXCEPT !.fft = ApplyWindow(Seen("fft"))]
    [] k.op = "transform" -> [dev EXCEPT !.fft = ApplyTransform(Seen("fft"))]
    [] k.op = "power" ->
         LET p == PowerRun(dev.power, Seen("fft"), k.n, k.base, 0, k.n)
         IN  [dev EXCEPT !.power = p, !.quant = ByteRun(dev.quant, p, 0, k.n, 0)]
    [] k.op = "half" ->
         LET p == HalfRun(dev.power, Seen("power"), k.src, k.dst, k.len)
         IN  [dev EXCEPT !.power = p, !.quant = ByteRun(dev.quant, p, k.dst, k.len, k.drop)]

\* The next command of the pending command buffer; the last one signals.
DeviceStep ==
  /\ cmd = "pending"
  /\ LET k == Head(rec) IN
       /\ dirty' = IF k.op = "barrier" THEN dirty \ {k.buf}
                   ELSE dirty \cup (IF k.op \in {"power", "half"} THEN {"power", "quant"} ELSE {"fft"})
       /\ dev' = IF k.op = "barrier" THEN dev ELSE KernelResult(k)
  /\ host' = IF coherent THEN dev' ELSE host
  /\ rec' = Tail(rec)
  /\ IF rec' = <<>> THEN cmd' = "invalid" /\ fence' = "signaled" ELSE UNCHANGED <<cmd, fence>>
  /\ UNCHANGED vkObjects

\* The rules of the Vulkan specification for using the command buffer and
\* the fence: a call is made only in the states it is defined for.
ValidUse(c) ==
  CASE c[1] \in {"reset_fences", "reset_cmd", "destroy"} -> cmd # "pending"
    [] c[1] = "begin" -> cmd = "initial"
    [] c[1] \in {"record", "append", "end"} -> cmd = "recording"
    [] c[1] = "submit" -> cmd = "executable" /\ fence = "unsignaled"
    [] c[1] \in {"flush", "invalidate", "copy_in", "read_quant", "read_fft", "max_power"} ->
         cmd # "pending"
    [] OTHER -> TRUE
=============================================================================
