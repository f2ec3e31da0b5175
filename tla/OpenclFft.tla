----------------------------- MODULE OpenclFft -----------------------------
(***************************************************************************)
(* The OpenCL back end (clfft.rs): ClfftComplexFft, ClfftRealFft and their *)
(* WaterfallGpuQuantizer.  All work goes through one in-order queue.  A    *)
(* write is non-blocking: the device copies the host's buffer when it gets *)
(* there, not when the call returns.  A read blocks until everything that  *)
(* was queued before it is done.                                           *)
(*                                                                         *)
(* Methods are scripts, as in VulkanFft.                                   *)
(***************************************************************************)
EXTENDS WaterfallPyramid

VARIABLES
  clLive,   \* the objects that exist
  queue,    \* commands the device has not done yet
  clmem     \* the device's buffers

clVars == <<clLive, queue, clmem>>

\* What has to exist as long as an object does.  The objects attached to a
\* context keep it by a reference of their own; the plan is a bare handle.
Attached == {"queue", "buffers", "kernels", "window", "waterfall"}
ClNeeds(o) ==
  CASE o \in Attached -> {"context"}
    [] o = "plan" -> {"setup", "context", "queue"}
    [] OTHER -> {}

\* ensure_setup, whose result a static keeps, then the device the environment
\* names or the first GPU, which is nobody's to release.
ClSetup == <<"setup">>
ClSelect == <<"select", "context", "queue">>
\* ClfftComplexFft::new and ClfftRealFft::new; "bake" stands for the calls
\* that configure the plan and bake it.
ClConstruct == ClSetup \o ClSelect \o <<"buffers", "kernels", "window", "waterfall", "plan", "bake">>
ClConstructReal == ClSetup \o ClSelect \o <<"kernels", "window", "buffers", "waterfall", "plan", "bake">>

ClInit ==
  /\ clLive = {} /\ queue = <<>>
  /\ clmem = [buf |-> Garbage, out |-> Garbage, half_a |-> 0, half_b |-> 0, in_a |-> 0, in_b |-> 0,
              power |-> BlankPower(FftSize), quant |-> BlankBytes(FftSize)]

ClAcquire(o) == clLive' = clLive \cup ({o} \ {"select", "bake"}) /\ UNCHANGED <<queue, clmem>>

\* The OpenCL objects release themselves when new returns early, the plan is
\* a handle only Drop destroys: one that could not be configured stays.
ClAcquireFails(o) == clLive' = clLive \cap {"setup", "plan"} /\ UNCHANGED <<queue, clmem>>

\* Wrong variant: the plan goes with the fields, in the order of their
\* declaration.
ClDropPlanLast == <<"context", "queue", "kernels", "window", "buffers", "waterfall", "plan">>

\* Drop for ClfftComplexFft and ClfftRealFft, then their fields in the order
\* of their declaration.
ClDropComplex == <<"plan", "context", "queue", "buffers", "kernels", "window", "waterfall">>
ClDropReal == <<"plan", "context", "queue", "kernels", "window", "buffers", "waterfall">>

\* One step of it.  The context itself goes with the last object attached to
\* it; what is left in a released queue runs on out of anybody's sight.
ClRelease(o) ==
  LET left == clLive \ {o} IN
  /\ clLive' = IF left \cap Attached = {} THEN left \ {"context"}
               ELSE left \cup (clLive \cap {"context"})
  /\ queue' = IF o = "queue" THEN <<>> ELSE queue
  /\ UNCHANGED clmem
-----------------------------------------------------------------------------
(* Scripts *)

Write(b, region) == <<"write", b, region>>
Kernel(k) == <<"kernel", k>>
Read(b) == <<"read", b>>

\* window_and_process_inplace, read_fft_output and process_inplace
ClWindowAndProcess == <<Write("buf", "frame"), Kernel([op |-> "window_complex"]), <<"transform">> >>
ClReadOutput == <<Read("buf")>>
ClProcessInplace == <<Write("buf", "frame"), <<"transform">> >> \o ClReadOutput

\* load_real_input and process_fft
ClLoadReal ==
  <<Write("half_a", "a"), Write("half_b", "b"),
    Kernel([op |-> "window_real", from |-> "half_a", to |-> "in_a"]),
    Kernel([op |-> "window_real", from |-> "half_b", to |-> "in_b"])>>
ClProcessReal == << <<"transform_real">>, Read("out")>>

\* The powers of `len` bins from `first` on go to position dst.
ClPower(src, first, dst, len) ==
  Kernel([op |-> "power", src |-> src, first |-> first, dst |-> dst, len |-> len])

\* quantize_and_downsample_complexbuf: the shift by base splits the first
\* kernel in two, then one kernel per halving, then a blocking read.
ClPyramid(src, n, base) ==
  (IF base \in 1 .. n - 1
     THEN <<ClPower(src, base, 0, n - base), ClPower(src, 0, n - base, base)>>
     ELSE <<ClPower(src, 0, 0, n)>>)
  \o [l \in 1 .. Levels - 1 |->
        Kernel([op |-> "half", src |-> LevelStart(n, l - 1), dst |-> LevelStart(n, l),
                len |-> LevelLen(n, l), drop |-> DropCl(l)])]
ClQuantize(src, n, base) == ClPyramid(src, n, base) \o <<Read("quant")>>

\* max_power, and the check of its result
ClMaxPower == <<Read("power"), <<"max_power">> >>
-----------------------------------------------------------------------------
(* Calls *)

Enqueue(k) == queue' = Append(queue, k) /\ UNCHANGED <<clLive, clmem>>

\* A call that succeeds; mem are the host's buffers.  A queued write notes
\* what the host buffer held when the call was made.
ClCall(c, mem) ==
  CASE c[1] = "write" -> Enqueue([op |-> "write", to |-> c[2], from |-> c[3], was |-> mem[c[3]]])
    [] c[1] = "kernel" -> Enqueue(c[2])
    [] c[1] \in {"transform", "transform_real"} -> Enqueue([op |-> c[1]])
    [] c[1] = "read" -> queue = <<>> /\ UNCHANGED clVars
    [] c[1] = "max_power" -> UNCHANGED clVars

\* Every one of them can fail, and then leaves the queue alone.
ClCallFails(c) == UNCHANGED clVars
-----------------------------------------------------------------------------
(* The device *)

ClKernelResult(k, mem) ==
  CASE k.op = "write" ->
         [clmem EXCEPT ![k.to] = IF mem[k.from] = k.was THEN k.was
                                 ELSE IF k.to = "buf" THEN Garbage ELSE 0]
    [] k.op = "window_complex" ->
         [clmem EXCEPT !.buf = IF @[3] = "raw" THEN [@ EXCEPT ![3] = "windowed"] ELSE Garbage]
    [] k.op = "window_real" -> [clmem EXCEPT ![k.to] = clmem[k.from]]
    [] k.op = "transform" ->
         [clmem EXCEPT !.buf = IF @[3] = "windowed" THEN [@ EXCEPT ![3] = "spectrum"] ELSE Garbage]
    [] k.op = "transform_real" ->
         [clmem EXCEPT !.out = IF 0 \in {clmem.in_a, clmem.in_b} THEN Garbage
                               ELSE <<clmem.in_a, clmem.in_b, "spectrum">>]
    [] k.op = "power" ->
         LET p == [i \in DOMAIN clmem.power |->
                     IF i \in k.dst .. k.dst + k.len - 1
                       THEN [sig |-> clmem[k.src], bins |-> {i - k.dst + k.first}]
                       ELSE clmem.power[i]]
         IN  [clmem EXCEPT !.power = p, !.quant = ByteRun(@, p, k.dst, k.len, 0)]
    [] k.op = "half" ->
         LET p == HalfRun(clmem.power, clmem.power, k.src, k.dst, k.len)
         IN  [clmem EXCEPT !.power = p, !.quant = ByteRun(@, p, k.dst, k.len, k.drop)]

\* The queue runs on its own, in order.
QueueStep(mem) ==
  /\ queue # <<>>
  /\ clmem' = ClKernelResult(Head(queue), mem)
  /\ queue' = Tail(queue)
  /\ UNCHANGED clLive

\* The rule for a non-blocking write: until the device has done it, the host
\* leaves the buffer alone.
InFlightStable(mem) ==
  \A i \in DOMAIN queue : queue[i].op = "write" => mem[queue[i].from] = queue[i].was
=============================================================================
