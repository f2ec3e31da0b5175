----------------------------- MODULE FftEngine -----------------------------
(***************************************************************************)
(* FftEngine (fft.rs): one frame of samples in, one spectrum for the audio *)
(* clients and, if asked for, one quantized waterfall out, on the CPU, an  *)
(* OpenCL or a Vulkan device; and the GPU quantizer of the waterfall       *)
(* worker (dsp_runner.rs), which does the second half of that work alone.  *)
(*                                                                         *)
(* execute() is the script todo, a sequence of calls made one at a time.   *)
(* Any GPU call may fail; onError says where the code goes then.           *)
(***************************************************************************)
EXTENDS VulkanFft, OpenclFft

CONSTANT MaxFrames   \* bound: frames or jobs the machine is given

ASSUME FramesAssumption == MaxFrames \in Nat

VARIABLES
  machine,        \* "engine", or "worker": the quantizer of the waterfall worker
  acc,            \* settings.accelerator
  isReal,         \* settings.is_real
  phase,          \* "construct", "idle", "execute", "drop", "gone", "failed"
  todo,           \* what is left of the current script
  onError,        \* what the failure of the next call leads to
  frame,          \* number of the frame or job
  half_a, half_b, \* the half-frames loaded
  complex_frame,  \* complex_frame; for the worker, the spectrum of its job
  spectrum,       \* real_spectrum_full
  wanted,         \* include_waterfall
  quantized,      \* quantized_concat; NoFrame when there is none
  result          \* how the last execute() ended

machineVars == <<machine, acc, isReal, phase, todo, onError, frame, half_a, half_b, complex_frame,
             spectrum, wanted, quantized, result>>
engineVars == <<vkVars, clVars, machineVars>>

NoFrame == <<>>
Worker == machine = "worker"

\* Which transform does the work: vkfft has none for real input, and the
\* worker only ever owns a Vulkan quantizer.
UsesVk == acc = "vkfft" /\ (Worker \/ ~isReal)
UsesCl == acc = "clfft" /\ ~Worker

SpectrumLen == IF isReal THEN FftSize \div 2 ELSE FftSize
BaseIdx == IF isReal THEN 0 ELSE FftSize \div 2 + 1
HostMem == [frame |-> complex_frame, a |-> half_a, b |-> half_b]
-----------------------------------------------------------------------------
(* Scripts *)

ConstructScript ==
  IF UsesCl THEN (IF isReal THEN ClConstructReal ELSE ClConstruct)
  ELSE IF ~UsesVk THEN <<>> ELSE IF Worker THEN ConstructQuantizer ELSE ConstructFft

\* ComplexFft::process
Process ==
  IF UsesVk THEN VkProcessInplace ELSE IF UsesCl THEN ClProcessInplace ELSE << <<"fft_cpu">> >>

\* execute_complex: what follows "CPU: apply window then FFT and CPU
\* waterfall" ...
CpuScript(want) ==
  << <<"window_cpu">> >> \o Process \o (IF want THEN << <<"quant_cpu">> >> ELSE <<>>)
\* ... and the GPU path that is tried before it.
GpuScript(want) ==
  << <<"assemble">> >> \o
  (IF UsesVk
     THEN VkWindowAndProcess
            \o (IF want THEN VkQuantize(FftSize, BaseIdx) \o VkMaxPower ELSE <<>>) \o VkReadOutput
     ELSE ClWindowAndProcess
            \o (IF want THEN ClQuantize("buf", FftSize, BaseIdx) \o ClMaxPower ELSE <<>>)
            \o ClReadOutput)

\* execute_real
RealScript(want) ==
  IF UsesCl
    THEN ClLoadReal \o ClProcessReal
           \o (IF want THEN << <<"catch", "drop_waterfall">> >> \o ClQuantize("out", SpectrumLen, BaseIdx)
               ELSE <<>>)
    ELSE << <<"real_cpu">> >> \o (IF want THEN << <<"quant_cpu">> >> ELSE <<>>)

\* A job of the worker: its spectrum is quantized on the device if there is
\* a quantizer, else on the CPU.
WorkerScript ==
  IF "pipeline_half" \in vkLive THEN VkQuantizeSpectrum(SpectrumLen, BaseIdx)
                                ELSE << <<"quant_cpu">> >>

ExecuteScript(want) ==
  IF Worker THEN WorkerScript
  ELSE IF isReal THEN RealScript(want)
  ELSE IF UsesVk \/ UsesCl THEN GpuScript(want) ELSE CpuScript(want)

\* Where the first error of that script leads.
FirstHandler ==
  IF Worker THEN "cpu_quantize"
  ELSE IF ~isReal /\ (UsesVk \/ UsesCl) THEN "fallback" ELSE "error"
-----------------------------------------------------------------------------
(* Construction *)

EngineInit ==
  /\ VkInit /\ ClInit
  /\ machine \in {"engine", "worker"} /\ acc \in {"none", "clfft", "vkfft"} /\ isReal \in BOOLEAN
  /\ phase = "construct" /\ todo = ConstructScript /\ onError = "error"
  /\ frame = 0 /\ half_a = 0 /\ half_b = 0 /\ complex_frame = Garbage /\ spectrum = Garbage
  /\ wanted = FALSE /\ quantized = NoFrame /\ result = "none"

frameVars == <<frame, half_a, half_b, complex_frame, spectrum, wanted, quantized>>
config == <<machine, acc, isReal>>

\* One step of FftEngine::new or VkfftWaterfallQuantizer::new.
Construct ==
  /\ phase = "construct" /\ todo # <<>>
  /\ IF UsesCl THEN ClAcquire(Head(todo)) /\ UNCHANGED vkVars
               ELSE Acquire(Head(todo)) /\ UNCHANGED clVars
  /\ todo' = Tail(todo)
  /\ UNCHANGED <<config, phase, onError, frameVars, result>>

\* It fails: there is no engine and the DSP thread ends, or there is no
\* quantizer and the worker goes on without.
ConstructFails ==
  /\ phase = "construct" /\ todo # <<>>
  /\ IF UsesCl THEN ClAcquireFails(Head(todo)) /\ UNCHANGED vkVars
               ELSE AcquireFails(Head(todo)) /\ UNCHANGED clVars
  /\ todo' = <<>>
  /\ acc' = IF Worker THEN "none" ELSE acc
  /\ phase' = IF Worker THEN "idle" ELSE "failed"
  /\ UNCHANGED <<machine, isReal, onError, frameVars, result>>

Constructed ==
  /\ phase = "construct" /\ todo = <<>>
  /\ phase' = "idle"
  /\ LeaveNew
  /\ UNCHANGED <<config, todo, onError, frameVars, result, clVars>>
-----------------------------------------------------------------------------
(* Frames *)

\* load_*_half_a/b and execute(include_waterfall), or the worker's next job.
Execute(want) ==
  /\ phase = "idle" /\ frame < MaxFrames
  /\ frame' = frame + 1 /\ half_a' = frame + 1 /\ half_b' = frame + 2
  /\ wanted' = want /\ quantized' = NoFrame /\ result' = "none"
  /\ complex_frame' = IF Worker THEN <<half_a', half_b', "spectrum">> ELSE complex_frame
  /\ phase' = "execute"
  /\ todo' = ExecuteScript(want) /\ onError' = FirstHandler
  /\ UNCHANGED <<config, spectrum, vkVars, clVars>>

Samples(stage) == <<half_a, half_b, stage>>

\* The CPU's own steps, which cannot fail.
CpuCalls == {"assemble", "window_cpu", "fft_cpu", "real_cpu", "quant_cpu", "catch"}
CpuStep ==
  LET c == Head(todo) IN
  /\ phase = "execute" /\ todo # <<>> /\ c[1] \in CpuCalls
  /\ complex_frame' =
       CASE c[1] = "assemble" -> Samples("raw")
         [] c[1] = "window_cpu" -> Samples("windowed")
         [] c[1] = "fft_cpu" -> ApplyTransform(complex_frame)
         [] OTHER -> complex_frame
  /\ spectrum' = IF c[1] = "real_cpu" THEN Samples("spectrum") ELSE spectrum
  /\ quantized' =
       IF c[1] = "quant_cpu"
         THEN quantize_and_downsample_cpu(IF isReal /\ ~Worker THEN spectrum ELSE complex_frame,
                                          SpectrumLen, BaseIdx)
         ELSE quantized
  /\ onError' = IF c[1] = "catch" THEN c[2] ELSE onError
  /\ todo' = Tail(todo)
  /\ UNCHANGED <<config, phase, frame, half_a, half_b, wanted, result, vkVars, clVars>>

\* What a call that reads from the device hands to the engine.
ReadBack(c) ==
  /\ complex_frame' = CASE c[1] = "read_fft" -> host.fft
                        [] c = Read("buf") -> clmem.buf
                        [] OTHER -> complex_frame
  /\ spectrum' = IF c = Read("out") THEN clmem.out ELSE spectrum
  /\ quantized' = CASE c[1] = "read_quant" -> Concat(host.quant, SpectrumLen)
                    [] c = Read("quant") -> Concat(clmem.quant, SpectrumLen)
                    [] OTHER -> quantized

\* The next GPU call succeeds.
GpuStep ==
  LET c == Head(todo) IN
  /\ phase = "execute" /\ todo # <<>> /\ c[1] \notin CpuCalls
  /\ IF UsesCl THEN ClCall(c, HostMem) /\ UNCHANGED vkVars
               ELSE VkCall(c, complex_frame) /\ UNCHANGED clVars
  /\ ReadBack(c)
  /\ todo' = Tail(todo)
  /\ UNCHANGED <<config, phase, onError, frame, half_a, half_b, wanted, result>>

\* Wrong variant: the frame is not windowed again before it is transformed.
FallbackUnwindowed == Tail(CpuScript(wanted))

\* The code after an error: the rest of execute_complex, which starts from
\* the half-frames again; no waterfall for this frame; or the CPU's.
Fallback == CpuScript(wanted)

\* It fails.
GpuFails ==
  LET c == Head(todo) IN
  /\ phase = "execute" /\ todo # <<>> /\ c[1] \notin CpuCalls
  /\ IF UsesCl THEN ClCallFails(c) /\ UNCHANGED vkVars ELSE VkCallFails(c) /\ UNCHANGED clVars
  /\ todo' = CASE onError = "fallback" -> Fallback
               [] onError = "cpu_quantize" -> << <<"quant_cpu">> >>
               [] OTHER -> <<>>
  /\ quantized' = NoFrame
  /\ result' = IF onError = "error" THEN "err" ELSE result
  /\ onError' = "error"
  /\ UNCHANGED <<config, phase, frame, half_a, half_b, complex_frame, spectrum, wanted>>

\* execute() returns; an error ends the DSP thread, which drops the engine.
DropScript ==
  IF UsesVk THEN (IF Worker THEN DropQuantizer ELSE DropFft)
  ELSE IF UsesCl THEN (IF isReal THEN ClDropReal ELSE ClDropComplex) ELSE <<"drop">>
Return ==
  /\ phase = "execute" /\ todo = <<>>
  /\ IF result = "err"
       THEN phase' = "drop" /\ todo' = DropScript /\ UNCHANGED result
       ELSE phase' = "idle" /\ result' = "ok" /\ UNCHANGED todo
  /\ UNCHANGED <<config, onError, frameVars, vkVars, clVars>>

\* The input ends between two frames.
Stop ==
  /\ phase = "idle"
  /\ phase' = "drop" /\ todo' = DropScript
  /\ UNCHANGED <<config, onError, frameVars, result, vkVars, clVars>>

\* One step of a Drop; an engine on the CPU releases none of these objects.
Drop ==
  /\ phase = "drop" /\ todo # <<>>
  /\ IF UsesVk
       THEN /\ Head(todo) # "idle" \/ cmd # "pending"
            /\ Destroy(Head(todo)) /\ UNCHANGED clVars
       ELSE ClRelease(Head(todo)) /\ UNCHANGED vkVars
  /\ todo' = Tail(todo)
  /\ phase' = IF todo' = <<>> THEN "gone" ELSE phase
  /\ UNCHANGED <<config, onError, frameVars, result>>

\* The devices run on their own.
VkDevice == DeviceStep /\ UNCHANGED <<clVars, machineVars>>
ClDevice == QueueStep(HostMem) /\ UNCHANGED <<vkVars, machineVars>>

Finished == phase \in {"gone", "failed"} /\ UNCHANGED engineVars

EngineNext ==
  \/ Construct \/ ConstructFails \/ Constructed
  \/ \E want \in BOOLEAN : Execute(want)
  \/ CpuStep \/ GpuStep \/ GpuFails \/ Return \/ Stop \/ Drop
  \/ VkDevice \/ ClDevice
  \/ Finished

\* The thread that runs execute() keeps running, a call that can return does
\* so one way or the other, and a device works off what it was given.
EngineFairness ==
  /\ WF_engineVars(CpuStep \/ GpuStep \/ GpuFails) /\ WF_engineVars(Return)
  /\ WF_engineVars(VkDevice) /\ WF_engineVars(ClDevice)

EngineSpec == EngineInit /\ [][EngineNext]_engineVars /\ EngineFairness
-----------------------------------------------------------------------------
(* Properties *)

\* Type invariant: phases, handlers and objects are the ones the code has.
EngineTypeOK ==
  /\ phase \in {"construct", "idle", "execute", "drop", "gone", "failed"}
  /\ onError \in {"error", "fallback", "drop_waterfall", "cpu_quantize"}
  /\ result \in {"none", "ok", "err"}
  /\ cmd \in CmdStates /\ fence \in {"unsignaled", "signaled"}
  /\ frame \in 0 .. MaxFrames
  /\ quantized = NoFrame \/ DOMAIN quantized = 0 .. TotalLen(SpectrumLen) - 1

\* What send_audio reads after execute() returned Ok is the spectrum of the
\* two half-frames loaded for it, windowed once, on every path: the GPU's,
\* the one after a GPU error, and with memory the host has to invalidate.
SpectrumOfThisFrame ==
  (result = "ok" /\ ~Worker) => (IF isReal THEN spectrum ELSE complex_frame) = Samples("spectrum")

\* Every waterfall that leaves execute() or the worker is made of this
\* frame's spectrum, each entry of each level covers exactly its own bins,
\* and a frame that was asked for is missing only where the code says so:
\* real input whose OpenCL quantization failed.
WaterfallOfThisFrame ==
  result = "ok" =>
    /\ quantized # NoFrame =>
         CoversBand(quantized, Samples("spectrum"), SpectrumLen, BaseIdx)
    /\ (quantized = NoFrame /\ (wanted \/ Worker)) => UsesCl /\ isReal

\* Whatever failed before (a wait only fails with the loss of the device, see
\* VkCallFails), each Vulkan call is made in a state of command
\* buffer and fence it is defined for, nothing is destroyed while the device
\* works, and the frame buffer of a queued OpenCL write does not change
\* under it as long as no call failed.
CallsAreValid ==
  /\ (phase = "execute" /\ UsesVk /\ todo # <<>>) => ValidUse(Head(todo))
  /\ (phase = "drop" /\ UsesVk) => ValidUse(<<"destroy">>)
  /\ (phase = "execute" /\ onError # "error" /\ UsesCl) => InFlightStable(HostMem)

\* The objects of the back end in use, and what each has to outlast; but the
\* entry is dropped when new returns, whatever was made from it.
Live == IF UsesCl THEN clLive ELSE vkLive
NeedsOf(o) == IF UsesCl THEN ClNeeds(o) ELSE Needs(o)
EntryDropped == IF phase = "construct" THEN {} ELSE {"entry"}

\* No object of a GPU outlives what it was made from, in a constructor that
\* succeeds, in use and in a Drop, with one exception on either device: the
\* Vulkan instance outlives the entry, and the clFFT plan of a constructor
\* that failed outlives its context and queue.  A Drop, of an engine that was
\* used or not, leaves nothing but clFFT's setup.  Unless it follows an error
\* of execute(), it finds no transfer from the host's memory and no transform
\* of the plan it destroys still in the OpenCL queue.
ObjectsInOrder ==
  /\ EngineTypeOK
  /\ IF UsesCl /\ phase = "failed"
       THEN clLive \subseteq {"setup", "plan"}
       ELSE \A o \in Live : NeedsOf(o) \subseteq Live \cup EntryDropped
  /\ (phase = "gone" /\ acc # "none") => vkLive = {} /\ clLive \subseteq {"setup"}
  /\ (phase = "drop" /\ UsesCl /\ result # "err") =>
       \A i \in DOMAIN queue : queue[i].op \in {"power", "half"}

\* No wait is for work that was never submitted: every execute() returns.
EveryFrameReturns == phase = "execute" ~> phase # "execute"
=============================================================================
