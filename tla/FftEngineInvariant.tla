------------------------- MODULE FftEngineInvariant -------------------------
(***************************************************************************)
(* The inductive invariant of FftEngine.                                   *)
(*                                                                         *)
(* What is left of a script is a path: each of its calls leads from one    *)
(* stage to the next.  A stage says how far the use of the command buffer  *)
(* and the fence is, and how far the samples of the frame are on their way *)
(* to the spectrum.  Each stage makes a claim about the state, a call that *)
(* succeeds and every step of the devices keep the claims, and where the   *)
(* path ends the spectrum is there.                                        *)
(***************************************************************************)
EXTENDS FftEngine

\* A sequence, of whatever elements.
Sequence(s) == s \in Seq({s[i] : i \in DOMAIN s})

VkKernels == {"window", "transform", "power", "half", "barrier"}
ClCommands == {"write", "window_complex", "window_real", "transform", "transform_real", "power", "half"}

\* The commands of a Vulkan device that leave the samples alone, and the
\* kernels of an OpenCL device that do.
Spares(k) == k.op \in {"power", "half"} \/ (k.op = "barrier" /\ k.buf # "fft")
Quantizes(k) == k.op \in {"power", "half"}
-----------------------------------------------------------------------------
(* Stages *)

\* "queue": OpenCL's, which is always ready; the others are those of a
\* Vulkan command buffer and its fence between two submissions.
Uses == {"queue", "idle", "unsig", "initial", "begun", "recorded", "executable", "submitted"}

\* "any" is the worker's, whose spectrum is on the device or not.  On the
\* CPU: not there yet, raw, windowed, the spectrum.  *_in: in the host's view
\* of the mapped buffer, *_there: in the device's.  gpu*, again*, real*: so
\* many commands of the frame are queued.
Contents == {"any", "start", "cpu_start", "raw", "windowed", "done", "real_done",
             "raw_in", "windowed_in", "raw_there", "windowed_there", "window_rec", "owed",
             "spectrum_there", "visible",
             "gpu1", "gpu2", "gpu3", "again1", "again2",
             "real0", "real1", "real2", "real3", "real4", "real5"}
Stages == Uses \X Contents

IdleCalls == {"copy_in", "flush", "invalidate", "read_quant", "read_fft", "max_power"}
ClCalls == {"write", "kernel", "transform", "transform_real", "read", "max_power"}

\* A call finds the command buffer in one state of use and leaves it in the
\* next.
UseStep(c, x, y) ==
  \/ c[1] \in CpuCalls /\ x \in {"queue", "idle"} /\ y = x
  \/ c[1] \in ClCalls /\ x = "queue" /\ y = "queue"
  \/ c[1] \in IdleCalls /\ x = "idle" /\ y = "idle"
  \/ c[1] = "reset_fences" /\ x = "idle" /\ y = "unsig"
  \/ c[1] = "reset_cmd" /\ x = "unsig" /\ y = "initial"
  \/ c[1] = "begin" /\ x = "initial" /\ y = "begun"
  \/ /\ c[1] = "record" /\ x = "begun" /\ y = "recorded"
     /\ Sequence(c[2]) /\ c[2] # <<>> /\ \A i \in DOMAIN c[2] : c[2][i].op \in VkKernels
  \/ c[1] = "append" /\ x \in {"begun", "recorded"} /\ y = "recorded"
  \/ c[1] = "end" /\ x = "recorded" /\ y = "executable"
  \/ c[1] = "submit" /\ x = "executable" /\ y = "submitted"
  \/ c[1] = "wait" /\ x = "submitted" /\ y = "idle"

\* What the call does to the samples: one of the CPU's steps, ...
CpuContent(c, x, d, e) ==
  \/ c[1] = "assemble" /\ d = "start" /\ e = "raw"
  \/ c[1] = "window_cpu" /\ d = "cpu_start" /\ e = "windowed"
  \/ c[1] = "fft_cpu" /\ x = "idle" /\ d = "windowed" /\ e = "done"
  \/ c[1] = "real_cpu" /\ x = "idle" /\ d = "real0" /\ e = "real_done"
  \/ c[1] = "quant_cpu" /\ d \in {"done", "real_done"} /\ e = d
  \/ c = <<"catch", "drop_waterfall">> /\ d = "real_done" /\ e = d
\* ... a Vulkan call ...
VkContent(c, x, d, e) ==
  \/ c[1] = "copy_in" /\ d = "raw" /\ e = "raw_in"
  \/ c[1] = "copy_in" /\ d = "windowed" /\ e = "windowed_in"
  \/ c = <<"flush", "fft">> /\ d = "raw_in" /\ e = "raw_there"
  \/ c = <<"flush", "fft">> /\ d = "windowed_in" /\ e = "windowed_there"
  \/ /\ c[1] \in {"reset_fences", "reset_cmd", "begin"}
     /\ d \in {"raw_there", "windowed_there", "spectrum_there"} /\ e = d
  \/ c = <<"record", <<WindowCmd, Barrier("fft")>> >> /\ d = "raw_there" /\ e = "window_rec"
  \/ c[1] = "append" /\ (d = "window_rec" \/ (d = "windowed_there" /\ x = "begun")) /\ e = "owed"
  \/ c[1] \in {"end", "submit"} /\ d \in {"owed", "spectrum_there"} /\ e = d
  \/ c[1] = "wait" /\ d \in {"owed", "spectrum_there"} /\ e = "spectrum_there"
  \/ /\ c[1] = "record" /\ (\A i \in DOMAIN c[2] : Spares(c[2][i]))
     /\ d = "spectrum_there" /\ e = d
  \/ /\ \/ c[1] \in {"read_quant", "max_power"}
        \/ c \in {<<"invalidate", "power">>, <<"invalidate", "quant">>}
     /\ d = "spectrum_there" /\ e = d
  \/ c = <<"invalidate", "fft">> /\ d = "spectrum_there" /\ e = "visible"
  \/ c[1] = "read_fft" /\ d = "visible" /\ e = "done"
\* ... or an OpenCL one.
ClContent(c, d, e) ==
  \/ c = Write("buf", "frame") /\ d = "raw" /\ e = "gpu1"
  \/ c = Kernel([op |-> "window_complex"]) /\ d = "gpu1" /\ e = "gpu2"
  \/ c[1] = "transform" /\ d = "gpu2" /\ e = "gpu3"
  \/ /\ \/ c[1] = "kernel" /\ Quantizes(c[2])
        \/ c \in {Read("quant"), Read("power")}
        \/ c[1] = "max_power"
     /\ d \in {"gpu3", "real_done"} /\ e = d
  \/ c = Write("buf", "frame") /\ d = "windowed" /\ e = "again1"
  \/ c[1] = "transform" /\ d = "again1" /\ e = "again2"
  \/ c = Read("buf") /\ d \in {"gpu3", "again2"} /\ e = "done"
  \/ c = Write("half_a", "a") /\ d = "real0" /\ e = "real1"
  \/ c = Write("half_b", "b") /\ d = "real1" /\ e = "real2"
  \/ c = Kernel([op |-> "window_real", from |-> "half_a", to |-> "in_a"]) /\ d = "real2" /\ e = "real3"
  \/ c = Kernel([op |-> "window_real", from |-> "half_b", to |-> "in_b"]) /\ d = "real3" /\ e = "real4"
  \/ c[1] = "transform_real" /\ d = "real4" /\ e = "real5"
  \/ c = Read("out") /\ d = "real5" /\ e = "real_done"

ContentStep(c, x, d, e) ==
  \/ c[1] # "catch" /\ d = "any" /\ e = "any"
  \/ c[1] \in CpuCalls /\ CpuContent(c, x, d, e)
  \/ c[1] \notin CpuCalls /\ x # "queue" /\ VkContent(c, x, d, e)
  \/ c[1] \notin CpuCalls /\ x = "queue" /\ ClContent(c, d, e)

Leads(c, a, b) == UseStep(c, a[1], b[1]) /\ ContentStep(c, a[1], a[2], b[2])

\* The script s leads from stage a to stage b.
Path(s, a, b) ==
  /\ Sequence(s)
  /\ \E st \in [1 .. Len(s) + 1 -> Stages] :
       /\ st[1] = a /\ st[Len(s) + 1] = b
       /\ \A i \in 1 .. Len(s) : Leads(s[i], st[i], st[i + 1])

\* Where every script has to end, and where the script of a frame begins.
End == <<IF UsesCl THEN "queue" ELSE "idle",
         IF Worker THEN "any" ELSE IF isReal THEN "real_done" ELSE "done">>
Start == IF Worker THEN "any" ELSE IF isReal THEN "real0"
         ELSE IF UsesVk \/ UsesCl THEN "start" ELSE "cpu_start"
-----------------------------------------------------------------------------
(* What the stages claim *)

UseState(x) ==
  /\ x = "queue" => UsesCl /\ cmd # "pending"
  /\ x = "idle" => ~UsesCl /\ cmd # "pending"
  /\ x = "unsig" => ~UsesCl /\ cmd # "pending" /\ fence = "unsignaled"
  /\ x = "initial" => ~UsesCl /\ cmd = "initial" /\ fence = "unsignaled"
  /\ x = "begun" => ~UsesCl /\ cmd = "recording" /\ rec = <<>> /\ fence = "unsignaled"
  /\ x = "recorded" => ~UsesCl /\ cmd = "recording" /\ rec # <<>> /\ fence = "unsignaled"
  /\ x = "executable" => ~UsesCl /\ cmd = "executable" /\ rec # <<>> /\ fence = "unsignaled"
  /\ x = "submitted" => ~UsesCl /\ (cmd = "pending" \/ (cmd = "invalid" /\ rec = <<>>))

\* The commands that are left make the spectrum of what is on the device.
Owed ==
  \/ /\ rec = <<WindowCmd, Barrier("fft"), TransformCmd>> /\ dev.fft = Samples("raw") /\ acc # "none"
     /\ cmd = "pending" => "fft" \notin dirty
  \/ rec = <<Barrier("fft"), TransformCmd>> /\ dev.fft = Samples("windowed")
  \/ /\ rec = <<TransformCmd>> /\ dev.fft = Samples("windowed")
     /\ cmd = "pending" => "fft" \notin dirty
  \/ rec = <<>> /\ dev.fft = Samples("spectrum")

\* n commands of w were queued in this frame and d of them are done; o older
\* commands, left by a failed attempt, are ahead of them.
InQueue(w, n, d, o) ==
  /\ o = 0 \/ d = 0
  /\ o + n - d <= Len(queue)
  /\ \A j \in 1 .. n - d : queue[o + j] = w[d + j]
  /\ \A i \in DOMAIN queue : i > o + n - d => Quantizes(queue[i])

\* The commands of the three OpenCL scripts that carry the samples, and what
\* the first d of them have made.
FrameWrite(stage) == [op |-> "write", to |-> "buf", from |-> "frame", was |-> Samples(stage)]
GpuWork == <<FrameWrite("raw"), [op |-> "window_complex"], [op |-> "transform"]>>
GpuDone(d) ==
  /\ d = 1 => clmem.buf = Samples("raw")
  /\ d = 2 => clmem.buf = Samples("windowed")
  /\ d = 3 => clmem.buf = Samples("spectrum")
AgainWork == <<FrameWrite("windowed"), [op |-> "transform"]>>
AgainDone(d) ==
  /\ d = 1 => clmem.buf = Samples("windowed")
  /\ d = 2 => clmem.buf = Samples("spectrum")
RealWork ==
  <<[op |-> "write", to |-> "half_a", from |-> "a", was |-> half_a],
    [op |-> "write", to |-> "half_b", from |-> "b", was |-> half_b],
    [op |-> "window_real", from |-> "half_a", to |-> "in_a"],
    [op |-> "window_real", from |-> "half_b", to |-> "in_b"],
    [op |-> "transform_real"]>>
RealDone(d) ==
  /\ d >= 1 => clmem.half_a = half_a
  /\ d >= 2 => clmem.half_b = half_b
  /\ d >= 3 => clmem.in_a = half_a
  /\ d >= 4 => clmem.in_b = half_b
  /\ d >= 5 => clmem.out = Samples("spectrum")

GpuSent(n) ==
  /\ complex_frame = Samples("raw") /\ onError = "fallback" /\ ~isReal
  /\ \E d \in 0 .. n : InQueue(GpuWork, n, d, 0) /\ GpuDone(d) /\ (n < 3 => Len(queue) = n - d)
AgainSent(n) ==
  /\ complex_frame = Samples("windowed") /\ onError = "error" /\ ~isReal
  /\ \E d \in 0 .. n, o \in 0 .. Len(queue) :
       InQueue(AgainWork, n, d, o) /\ AgainDone(d) /\ Len(queue) = o + n - d
RealSent(n) ==
  /\ onError = "error" /\ isReal
  /\ \E d \in 0 .. n, o \in 0 .. Len(queue) :
       InQueue(RealWork, n, d, o) /\ RealDone(d) /\ Len(queue) = o + n - d

ContentState(d) ==
  /\ d = "any" => Worker
  /\ d = "start" => /\ (UsesCl => queue = <<>>) /\ ~isReal /\ acc # "none"
                    /\ onError = "fallback"
  /\ d = "cpu_start" => onError = "error" /\ ~isReal
  /\ d = "raw" => /\ (UsesCl => queue = <<>>) /\ complex_frame = Samples("raw") /\ ~isReal
                  /\ acc # "none" /\ onError = "fallback"
  /\ d = "windowed" => onError = "error" /\ complex_frame = Samples("windowed") /\ ~isReal
  /\ d = "done" => (UsesCl => queue = <<>>) /\ complex_frame = Samples("spectrum") /\ ~isReal
  /\ d = "real_done" => /\ spectrum = Samples("spectrum") /\ isReal
                        /\ UsesCl => /\ clmem.out = Samples("spectrum")
                                     /\ \A i \in DOMAIN queue : Quantizes(queue[i])
  /\ d = "raw_in" => host.fft = Samples("raw") /\ ~isReal /\ acc # "none"
  /\ d = "windowed_in" => host.fft = Samples("windowed") /\ ~isReal
  /\ d = "raw_there" => dev.fft = Samples("raw") /\ ~isReal /\ acc # "none"
  /\ d = "windowed_there" => dev.fft = Samples("windowed") /\ ~isReal
  /\ d = "window_rec" => /\ rec = <<WindowCmd, Barrier("fft")>> /\ dev.fft = Samples("raw")
                         /\ ~isReal /\ acc # "none"
  /\ d = "owed" => Owed /\ ~isReal
  /\ d = "spectrum_there" => /\ dev.fft = Samples("spectrum") /\ ~isReal
                             /\ \A i \in DOMAIN rec : Spares(rec[i])
  /\ d = "visible" => host.fft = Samples("spectrum") /\ ~isReal
  /\ d = "gpu1" => GpuSent(1)
  /\ d = "gpu2" => GpuSent(2)
  /\ d = "gpu3" => GpuSent(3)
  /\ d = "again1" => AgainSent(1)
  /\ d = "again2" => AgainSent(2)
  /\ d = "real0" => RealSent(0)
  /\ d = "real1" => RealSent(1)
  /\ d = "real2" => RealSent(2)
  /\ d = "real3" => RealSent(3)
  /\ d = "real4" => RealSent(4)
  /\ d = "real5" => RealSent(5)

\* The failure of the next call leads to code this machine has.
HandlerOK(d) ==
  /\ onError = "cpu_quantize" => Worker
  /\ onError = "drop_waterfall" => d = "real_done"
  /\ onError = "fallback" => ~isReal /\ ~Worker /\ (UsesVk \/ UsesCl)
  /\ Worker <=> d = "any"

\* During execute() the rest of the script is a path to the end, unless it
\* failed for good.
InScript ==
  phase = "execute" =>
    \/ result = "err" /\ todo = <<>> /\ cmd # "pending" /\ onError = "error"
    \/ /\ result = "none"
       /\ \E x \in Uses, d \in Contents :
            Path(todo, <<x, d>>, End) /\ UseState(x) /\ ContentState(d) /\ HandlerOK(d)

\* Outside nothing runs on a Vulkan device, the spectrum is the last frame's,
\* and nothing of a complex frame is left in the queue, of a real one that
\* was returned only halvings.
OutOfScript ==
  phase # "execute" =>
    /\ cmd # "pending"
    /\ (result = "ok" /\ ~Worker) => (IF isReal THEN spectrum ELSE complex_frame) = Samples("spectrum")
    /\ phase \in {"construct", "idle"} /\ UsesCl /\ ~isReal => queue = <<>>
    /\ phase \in {"construct", "idle", "drop"} /\ UsesCl /\ result # "err" =>
         \A i \in DOMAIN queue : Quantizes(queue[i])

\* The device has the window before the first frame.
WindowLoaded ==
  (UsesVk /\ ~Worker) =>
    \/ dev.window = "hann"
    \/ phase = "construct" /\ \E i \in DOMAIN todo : todo[i] = "upload_window"
    \/ phase \in {"gone", "failed"}
-----------------------------------------------------------------------------
(* Objects *)

SeqRange(s) == {s[i] : i \in DOMAIN s}

\* What a constructor makes for itself, what Drop releases, and what else
\* exists until then: a descriptor set goes with its pool, clFFT's setup never.
Passing == IF UsesCl THEN {} ELSE {"shaders", "entry"}
Released == SeqRange(DropScript)
Kept == IF UsesCl THEN {"setup"} ELSE {"desc_set"}

\* The back end in use, what its objects need, and the steps of its
\* constructors that make none.
Vulkan == "vulkan"
Opencl == "opencl"
BackEnd == IF UsesCl THEN Opencl ELSE Vulkan
NeedsIn(api, o) == IF api = Opencl THEN ClNeeds(o) ELSE Needs(o)
Silent(api) == IF api = Opencl THEN {"select", "bake"} ELSE {"upload_window", "free_shaders"}

\* The steps of s can be made in their order where the objects of `have`
\* exist, each object they make is of `all`, and the shaders are freed.
Buildable(api, s, have, all) ==
  /\ Sequence(s)
  /\ \A i \in DOMAIN s :
       s[i] \notin Silent(api) => NeedsIn(api, s[i]) \subseteq have \cup {s[j] : j \in 1 .. i - 1}
  /\ \A i \in DOMAIN s : s[i] \in Silent(api) \cup all
  /\ \A i \in DOMAIN s : s[i] = "shaders" => \E j \in DOMAIN s : j > i /\ s[j] = "free_shaders"

\* Nothing of `s` goes before what needs it; the context, whose handle goes
\* first, waits for what is attached to it.
Removable(api, s) ==
  \A i \in DOMAIN s : \A j \in 1 .. i - 1 :
    s[j] \in NeedsIn(api, s[i]) => api = Opencl /\ s[j] = "context" /\ s[i] \in Attached

\* What exists has what it needs; ...
Closed ==
  IF UsesCl /\ phase = "failed"
    THEN clLive \subseteq {"setup", "plan"}
    ELSE \A o \in Live : NeedsOf(o) \subseteq Live \cup EntryDropped
\* ... what a constructor still acquires will find what it needs, and is
\* released by Drop; ...
Acquiring ==
  (phase = "construct" /\ (UsesVk \/ UsesCl)) =>
    /\ Buildable(BackEnd, todo, Live, Released \cup Kept \cup Passing)
    /\ Live \subseteq Released \cup Kept \cup Passing
    /\ "shaders" \in Live => \E i \in DOMAIN todo : todo[i] = "free_shaders"
Complete ==
  (phase \in {"idle", "execute"} /\ (UsesVk \/ UsesCl)) => Live \subseteq Released \cup Kept
\* ... and a Drop still has all that exists to release, nothing before what
\* needs it.
Releasing ==
  (phase = "drop" /\ (UsesVk \/ UsesCl)) =>
    /\ \A o \in Live : \/ \E i \in DOMAIN todo : todo[i] = o
                       \/ o = "desc_set" /\ UsesVk /\ \E i \in DOMAIN todo : todo[i] = "desc_pool"
                       \/ o = "setup" /\ UsesCl
                       \/ o = "context" /\ UsesCl /\ Live \cap Attached # {}
    /\ Removable(BackEnd, todo)

\* Which back end has objects at all.
Objects ==
  /\ UsesCl => vkLive = {}
  /\ (acc # "none" /\ ~UsesVk) => vkLive = {}
  /\ ~UsesCl => clLive = {}
  /\ (phase = "construct" /\ ~UsesVk /\ ~UsesCl) => todo = <<>>
  /\ (phase = "gone" /\ acc # "none") => vkLive = {} /\ clLive \subseteq {"setup"}
-----------------------------------------------------------------------------
(* The invariant *)

ClFields == {"buf", "out", "half_a", "half_b", "in_a", "in_b", "power", "quant"}

\* The shapes of the variables EngineTypeOK leaves open.
Shape ==
  /\ machine \in {"engine", "worker"} /\ acc \in {"none", "clfft", "vkfft"} /\ isReal \in BOOLEAN
  /\ half_a \in Nat /\ half_b \in Nat
  /\ phase = "execute" => half_a # 0 /\ half_b # 0
  /\ phase = "construct" => frame = 0
  /\ Sequence(todo) /\ Sequence(rec) /\ Sequence(queue)
  /\ \A i \in DOMAIN rec : rec[i].op \in VkKernels
  /\ \A i \in DOMAIN queue : queue[i].op \in ClCommands
  /\ host = [b \in Buffers |-> host[b]] /\ dev = [b \in Buffers |-> dev[b]]
  /\ clmem = [b \in ClFields |-> clmem[b]]
  /\ coherent => host = dev
  /\ cmd = "pending" => fence = "unsignaled" /\ rec # <<>>

EngineInv ==
  /\ EngineTypeOK /\ Shape /\ Closed /\ Acquiring /\ Complete /\ Releasing /\ Objects
  /\ WindowLoaded /\ InScript /\ OutOfScript
-----------------------------------------------------------------------------
(* The waterfall *)

\* The entries that lie before position m of a buffer are right.
MadeUpTo(cells, m, sig, n, base) ==
  \A l \in 0 .. Levels - 1 : \A i \in 0 .. LevelLen(n, l) - 1 :
    LevelStart(n, l) + i < m =>
      /\ cells[LevelStart(n, l) + i].sig = sig
      /\ cells[LevelStart(n, l) + i].bins = BandOf(n, base, l, i)

\* SpectrumLen and BaseIdx, and the commands that make the waterfall on a
\* Vulkan and on an OpenCL device.
LenOf(real) == IF real THEN FftSize \div 2 ELSE FftSize
BaseOf(real) == IF real THEN 0 ELSE FftSize \div 2 + 1
SrcOf(real) == IF real THEN "out" ELSE "buf"
VkPyramid(real) == PyramidCmds(LenOf(real), BaseOf(real))
ClCmds(real) == ClPyramid(SrcOf(real), LenOf(real), BaseOf(real))

\* Where the entries end that the first p OpenCL kernels make.
ClEnd(real, p) == IF p = 0 THEN 0 ELSE ClCmds(real)[p][2].dst + ClCmds(real)[p][2].len

\* How far the waterfall of the frame is.  "skip": nobody asked for one.
\* "due": it will be made of the frame's spectrum, "job": of the job's,
\* which has to be uploaded first.  "caught": an error will only cost the
\* waterfall.  <<"cl", k>>: k kernels are queued.  "have" and "without": how
\* execute() ends.
Falls == {"skip", "due", "job", "caught", "vk_in", "vk_there", "vk_rec", "vk_made", "vk_visible",
          "cl", "have", "without"} \X Nat
Ends == {"skip", "have", "without"}
Fall(x) == <<x, 0>>

\* The calls that hand a waterfall to the engine.
Delivers(c) == c[1] \in {"quant_cpu", "read_quant"} \/ c = Read("quant")

\* What a call does to it: one that has nothing to do with it, ...
FallRest(c, a, b) == ~Delivers(c) /\ a \in {Fall("skip"), Fall("due"), Fall("have")} /\ b = a
\* ... the CPU's, ...
FallCpu(c, real, a, b) ==
  \/ c[1] = "quant_cpu" /\ a \in {Fall("due"), Fall("job")} /\ b = Fall("have")
  \/ c = <<"catch", "drop_waterfall">> /\ real /\ a = Fall("due") /\ b = Fall("caught")
\* ... a Vulkan call ...
FallVk(c, real, a, b) ==
  \/ c[1] = "copy_in" /\ a = Fall("job") /\ b = Fall("vk_in")
  \/ c = <<"flush", "fft">> /\ a = Fall("vk_in") /\ b = Fall("vk_there")
  \/ c[1] \in {"reset_fences", "reset_cmd", "begin"} /\ a = Fall("vk_there") /\ b = a
  \/ c = <<"record", VkPyramid(real)>> /\ a \in {Fall("due"), Fall("vk_there")} /\ b = Fall("vk_rec")
  \/ c[1] \in {"end", "submit"} /\ a = Fall("vk_rec") /\ b = a
  \/ c[1] = "wait" /\ a = Fall("vk_rec") /\ b = Fall("vk_made")
  \/ c = <<"invalidate", "power">> /\ a = Fall("vk_made") /\ b = a
  \/ c = <<"invalidate", "quant">> /\ a = Fall("vk_made") /\ b = Fall("vk_visible")
  \/ c[1] = "read_quant" /\ a = Fall("vk_visible") /\ b = Fall("have")
\* ... or an OpenCL one.
FallCl(c, real, a, b) ==
  \/ /\ a = Fall("caught") \/ (a = Fall("due") /\ ~real)
     /\ c = ClCmds(real)[1] /\ b = <<"cl", 1>>
  \/ /\ a[1] = "cl" /\ a[2] \in 1 .. Len(ClCmds(real)) - 1
     /\ c = ClCmds(real)[a[2] + 1] /\ b = <<"cl", a[2] + 1>>
  \/ a = <<"cl", Len(ClCmds(real))>> /\ c = Read("quant") /\ b = Fall("have")

FallLeads(c, real, a, b) ==
  FallRest(c, a, b) \/ FallCpu(c, real, a, b) \/ FallVk(c, real, a, b) \/ FallCl(c, real, a, b)

\* The script s takes the waterfall from a to b.
FallPath(s, real, a, b) ==
  /\ Sequence(s)
  /\ \E st \in [1 .. Len(s) + 1 -> Falls] :
       /\ st[1] = a /\ st[Len(s) + 1] = b
       /\ \A i \in 1 .. Len(s) : FallLeads(s[i], real, st[i], st[i + 1])

\* Powers and bytes of this frame are right up to position m of a device's
\* buffers.
Made(mem, m) ==
  /\ MadeUpTo(mem.power, m, Samples("spectrum"), LenOf(isReal), BaseOf(isReal))
  /\ MadeUpTo(mem.quant, m, Samples("spectrum"), LenOf(isReal), BaseOf(isReal))

\* The first p commands of the Vulkan pyramid are done, the others are left;
\* every third one makes a level.
VkMade ==
  /\ dev.fft = Samples("spectrum")
  /\ cmd = "pending" => "fft" \notin dirty
  /\ \E p \in 0 .. 3 * Levels :
       /\ Len(rec) = 3 * Levels - p
       /\ \A i \in 1 .. 3 * Levels - p : rec[i] = VkPyramid(isReal)[p + i]
       /\ (cmd = "pending" /\ p % 3 # 1) => "power" \notin dirty
       /\ Made(dev, LevelStart(LenOf(isReal), (p + 2) \div 3))

\* n kernels were queued and the first p of them are done; o older commands
\* are ahead of them.
ClMade(n) ==
  \E p \in 0 .. n, o \in 0 .. Len(queue) :
    /\ o = 0 \/ p = 0
    /\ Len(queue) = o + n - p
    /\ \A j \in 1 .. n - p : queue[o + j] = ClCmds(isReal)[p + j][2]
    /\ Made(clmem, ClEnd(isReal, p))

FallState(w) ==
  /\ w = Fall("skip") => quantized = NoFrame /\ ~wanted /\ ~Worker
  /\ w = Fall("due") => ~Worker
  /\ w = Fall("job") => Worker
  /\ w = Fall("caught") => onError = "drop_waterfall"
  /\ w = Fall("vk_in") => host.fft = Samples("spectrum") /\ Worker
  /\ w = Fall("vk_there") => dev.fft = Samples("spectrum") /\ Worker
  /\ w = Fall("vk_rec") => VkMade
  /\ w = Fall("vk_made") =>
       MadeUpTo(dev.quant, LevelStart(LenOf(isReal), Levels), Samples("spectrum"),
                LenOf(isReal), BaseOf(isReal))
  /\ w = Fall("vk_visible") =>
       MadeUpTo(host.quant, LevelStart(LenOf(isReal), Levels), Samples("spectrum"),
                LenOf(isReal), BaseOf(isReal))
  /\ w[1] = "cl" => onError # "error" /\ w[2] \in 1 .. Len(ClCmds(isReal)) /\ ClMade(w[2])
  /\ w = Fall("have") =>
       /\ quantized # NoFrame
       /\ CoversBand(quantized, Samples("spectrum"), LenOf(isReal), BaseOf(isReal))
  /\ w = Fall("without") => quantized = NoFrame /\ UsesCl /\ isReal

\* The buffers of powers and bytes keep their size.
WaterfallShape ==
  /\ \A b \in {"power", "quant"} : /\ DOMAIN host[b] = Positions(FftSize)
                                  /\ DOMAIN dev[b] = Positions(FftSize)
                                  /\ DOMAIN clmem[b] = Positions(FftSize)
  /\ phase = "construct" => result = "none"
  /\ wanted \in BOOLEAN

\* Commands that carry samples leave powers and bytes of an OpenCL device
\* alone, those a failed attempt left in the queue included.
QueueTargets ==
  \A i \in DOMAIN queue :
    queue[i].op \in {"write", "window_real"} => queue[i].to \notin {"power", "quant"}

\* The worker has its spectrum from the start and keeps it.
JobCalls == {"copy_in", "flush", "reset_fences", "reset_cmd", "begin", "record", "end", "submit", "wait",
             "invalidate", "read_quant", "quant_cpu"}
JobKept ==
  (Worker /\ phase = "execute") =>
    /\ complex_frame = Samples("spectrum")
    /\ \A i \in DOMAIN todo : todo[i][1] \in JobCalls

FallScript ==
  phase = "execute" =>
    \/ result = "err"
    \/ \E a \in Falls, e \in Ends : FallPath(todo, isReal, a, Fall(e)) /\ FallState(a)

WaterfallInv ==
  /\ WaterfallShape /\ JobKept /\ FallScript
  /\ phase # "execute" => WaterfallOfThisFrame
=============================================================================
