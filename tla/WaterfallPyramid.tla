-------------------------- MODULE WaterfallPyramid --------------------------
(***************************************************************************)
(* The waterfall of one frame: the powers of the FftSize bins, followed by *)
(* Levels-1 halvings, each next to the one it was made from (fft.rs,       *)
(* clfft.rs, vkfft.rs and its shaders compute it, each in its own way).    *)
(*                                                                         *)
(* A buffer of powers is a function from positions to cells; a cell says   *)
(* of which spectrum and of which bins the number in it is the sum.  A     *)
(* buffer of quantized bytes adds the power_offset it was scaled with.     *)
(***************************************************************************)
EXTENDS Integers, Sequences

CONSTANTS
  FftSize,    \* fft_size, a power of two
  Levels      \* downsample_levels

ASSUME SizeAssumption == FftSize \in Nat /\ FftSize >= 8 /\ FftSize % 2 = 0
ASSUME LevelsAssumption == Levels \in Nat \ {0}

\* The content of a buffer nobody wrote, or wrote while another read it.
Garbage == <<0, 0, "garbage">>

NoCell == [sig |-> Garbage, bins |-> {}]
NoByte == [sig |-> Garbage, bins |-> {}, off |-> 0]

\* compute_offsets: the length of each level, half of the one before, ...
LevelLen(n, l) ==
  LET len[k \in 0 .. Levels] == IF k = 0 THEN n ELSE len[k - 1] \div 2
  IN  len[l]
\* ... and where it starts, level 0 first; last the end of them all.
LevelStart(n, l) ==
  LET start[k \in 0 .. Levels] == IF k = 0 THEN 0 ELSE start[k - 1] + LevelLen(n, k - 1)
  IN  start[l]
TotalLen(n) == LevelStart(n, Levels)

\* Both buffers are allocated with twice the length of level 0.
Positions(n) == 0 .. 2 * n - 1
BlankPower(n) == [p \in Positions(n) |-> NoCell]
BlankBytes(n) == [p \in Positions(n) |-> NoByte]

\* power_offset of level l, in steps of 6 dB below size_log2: the CPU path
\* and the Vulkan kernels ...
DropCpu(l) == IF l = 0 THEN 0 ELSE l + 1
\* ... and the OpenCL kernels.
DropCl(l) == l

\* One kernel run or loop over `len` outputs from `dst` on, output i being
\* the power of bin (i + base) % n of the spectrum `sig`.
PowerRun(power, sig, n, base, dst, len) ==
  [p \in DOMAIN power |->
     IF p \in dst .. dst + len - 1
       THEN [sig |-> sig, bins |-> {(p - dst + base) % n}]
       ELSE power[p]]

\* The sum of two cells is worth something if they stem from one spectrum.
SumCell(c, d) ==
  IF c.sig = d.sig THEN [sig |-> c.sig, bins |-> c.bins \cup d.bins] ELSE NoCell

\* half_and_quantize: output i is the sum of inputs 2i and 2i+1, as the
\* kernel or loop sees them.
HalfRun(power, seen, src, dst, len) ==
  [p \in DOMAIN power |->
     IF p \in dst .. dst + len - 1
       THEN SumCell(seen[src + 2 * (p - dst)], seen[src + 2 * (p - dst) + 1])
       ELSE power[p]]

\* The bytes a kernel run writes beside the powers.
ByteRun(bytes, power, dst, len, drop) ==
  [p \in DOMAIN bytes |->
     IF p \in dst .. dst + len - 1
       THEN [sig |-> power[p].sig, bins |-> power[p].bins, off |-> drop]
       ELSE bytes[p]]

\* The part of the buffer the caller gets.
Concat(bytes, n) == [p \in 0 .. TotalLen(n) - 1 |-> bytes[p]]

\* quantize_and_downsample_cpu.
quantize_and_downsample_cpu(sig, n, base) ==
  LET power[l \in 0 .. Levels - 1] ==
        IF l = 0 THEN PowerRun(BlankPower(n), sig, n, base, 0, n)
                 ELSE HalfRun(power[l - 1], power[l - 1], LevelStart(n, l - 1), LevelStart(n, l),
                              LevelLen(n, l))
      bytes[l \in 0 .. Levels - 1] ==
        ByteRun(IF l = 0 THEN BlankBytes(n) ELSE bytes[l - 1],
                power[l], LevelStart(n, l), LevelLen(n, l), DropCpu(l))
  IN  Concat(bytes[Levels - 1], n)
-----------------------------------------------------------------------------
\* What a waterfall frame is, whoever computes it: an entry of level l is
\* about 2^l neighbouring bins, entry i about those from base + i * 2^l on.
LevelWidth[l \in 0 .. Levels] == IF l = 0 THEN 1 ELSE 2 * LevelWidth[l - 1]
BandOf(n, base, l, i) ==
  {(base + i * LevelWidth[l] + k) % n : k \in 0 .. LevelWidth[l] - 1}
CoversBand(bytes, sig, n, base) ==
  \A l \in 0 .. Levels - 1 : \A i \in 0 .. LevelLen(n, l) - 1 :
    LET c == bytes[LevelStart(n, l) + i]
    IN  c.sig = sig /\ c.bins = BandOf(n, base, l, i)
=============================================================================
