--------------------------- MODULE AudioPipeline ---------------------------
(***************************************************************************)
(* The control of AudioPipeline::process() (ws/audio.rs): mute, squelch,   *)
(* and how demodulated samples are cut into blocks and the blocks gathered *)
(* into packets.  One call of process() is a Frame step, that appends the  *)
(* samples of the frame, and the iterations of its packing loop up to      *)
(* Finish or BlockFails.                                                   *)
(*                                                                         *)
(* Samples are numbered in the order they are demodulated.  The features   *)
(* of a frame (squelch_features) are abstracted to what update() compares  *)
(* them with: a NaN score compares as "fair".  A muted frame changes       *)
(* nothing, the squelch included.                                          *)
(***************************************************************************)
EXTENDS Integers, Sequences, SequencesExt

CONSTANTS
  FrameSamples,   \* frame_samples
  PacketSamples,  \* packet_samples
  BlockSizes,     \* bytes an encoded block may have
  SizeThreshold,  \* audio_frame_size_threshold: 700
  SoftHits,       \* soft frames in a row that open the squelch: 3
  CloseHits,      \* weak frames in a row that close it: 10
  MaxFrames,      \* bound: frames demodulated
  MaxFailures     \* bound: calls in which the encoder fails before it succeeds again

ASSUME SizeAssumption == /\ FrameSamples \in Nat \ {0} /\ PacketSamples \in Nat \ {0}
                         /\ BlockSizes \subseteq Nat /\ SizeThreshold \in Nat
ASSUME HitsAssumption == SoftHits \in Nat \ {0} /\ CloseHits \in Nat \ {0}
ASSUME BoundAssumption == MaxFrames \in Nat /\ MaxFailures \in Nat

VARIABLES
  enabled,      \* params.squelch_enabled
  wasEnabled, open, lowHits, closeHits,   \* SquelchState
  accum,        \* pcm_accum_i16: numbers of its samples
  offset,       \* pcm_accum_offset
  pc,           \* in the packing loop or not
  gathered,     \* acc_frames: blocks of the packet being gathered
  packets,      \* out_packets
  made,         \* samples demodulated so far
  due,          \* the next sample to encode
  gateAt,       \* made when the closed squelch last reset the pipeline
  failed,       \* failed calls since a call last encoded a block and succeeded
  wasOpen,      \* open before the last frame the squelch saw
  recent        \* the last frames it saw, none from before it last flipped

squelchVars == <<wasEnabled, open, lowHits, closeHits, wasOpen, recent>>
accumVars == <<accum, offset, made, due, gateAt>>
packVars == <<pc, gathered, packets, failed>>
vars == <<enabled, squelchVars, accumVars, packVars>>

\* scaled_relative_variance: >= 18, >= 5, >= 2 (or NaN), less; active_enough;
\* run_enough.
Features == [score : {"strong", "soft", "fair", "low"}, active : {"few", "enough"},
             run : {"short", "enough"}]

\* What the history remembers of a frame.
Kinds == [strong : BOOLEAN, soft : BOOLEAN, weak : BOOLEAN]

Block == [samples : Seq(Nat), size : BlockSizes]

\* Type invariant; the counters never reach the hits that reset them.
TypeOK ==
  /\ enabled \in BOOLEAN /\ wasEnabled \in BOOLEAN /\ open \in BOOLEAN
  /\ lowHits \in 0..(SoftHits - 1) /\ closeHits \in 0..(CloseHits - 1)
  /\ accum \in Seq(Nat) /\ offset \in 0..Len(accum)
  /\ pc \in {"idle", "packing"}
  /\ gathered \in Seq(Block) /\ packets \in Seq(Seq(Block))
  /\ made \in Nat /\ due \in Nat /\ gateAt \in Nat /\ failed \in 0..MaxFailures
  /\ wasOpen \in BOOLEAN /\ recent \in Seq(Kinds)

Init ==
  /\ enabled = FALSE
  /\ wasEnabled = FALSE /\ open = TRUE /\ lowHits = 0 /\ closeHits = 0
  /\ accum = <<>> /\ offset = 0
  /\ pc = "idle" /\ gathered = <<>> /\ packets = <<>>
  /\ made = 0 /\ due = 1 /\ gateAt = 0 /\ failed = 0
  /\ wasOpen = TRUE /\ recent = <<>>
-----------------------------------------------------------------------------
(* SquelchState::update(), the squelch being enabled *)

Strong(f) == f.score = "strong" /\ f.active = "enough"
Soft(f) == f.score \in {"strong", "soft"} /\ f.active = "enough"
Weak(f) == f.score = "low" \/ f.active = "few" \/ f.run = "short"

Hits == [open |-> open, low |-> lowHits, close |-> closeHits]
Opened == [open |-> TRUE, low |-> 0, close |-> 0]
Closed == [open |-> FALSE, low |-> 0, close |-> 0]

\* What update() found before it looks at the frame: enabling closes.
Before == IF wasEnabled THEN Hits ELSE Closed

WhenOpen(h, f) ==
  LET n == IF Weak(f) THEN h.close + 1 ELSE 0
  IN  IF n >= CloseHits THEN Closed ELSE [h EXCEPT !.close = n]

\* Wrong variant: a frame that is not soft does not end the row.
WhenClosedSum(h, f) ==
  LET n == IF Soft(f) THEN h.low + 1 ELSE h.low
  IN  IF n >= SoftHits THEN Opened ELSE [h EXCEPT !.low = n]

WhenClosed(h, f) ==
  LET n == IF Soft(f) THEN h.low + 1 ELSE 0
  IN  IF n >= SoftHits THEN Opened ELSE [h EXCEPT !.low = n]

After(f) == IF Strong(f) THEN Opened
            ELSE IF Before.open THEN WhenOpen(Before, f) ELSE WhenClosed(Before, f)

Kind(f) == [strong |-> Strong(f), soft |-> Soft(f), weak |-> Weak(f)]

\* As much history as the longer of the two rows, none from before it flipped.
Keep == IF SoftHits > CloseHits THEN SoftHits ELSE CloseHits
Latest(seen) == SubSeq(seen, IF Len(seen) > Keep THEN Len(seen) - Keep + 1 ELSE 1, Len(seen))
SinceFlip == IF wasEnabled /\ open = wasOpen THEN recent ELSE <<>>
Remember(f) == Latest(Append(SinceFlip, Kind(f)))

SquelchStep(f) ==
  /\ wasEnabled' = TRUE
  /\ open' = After(f).open /\ lowHits' = After(f).low /\ closeHits' = After(f).close
  /\ wasOpen' = Before.open /\ recent' = Remember(f)

\* Disabling opens; while disabled nothing else changes.
SquelchOff ==
  /\ wasEnabled' = FALSE
  /\ open' = IF wasEnabled THEN TRUE ELSE open
  /\ lowHits' = IF wasEnabled THEN 0 ELSE lowHits
  /\ closeHits' = IF wasEnabled THEN 0 ELSE closeHits
  /\ wasOpen' = TRUE /\ recent' = <<>>
-----------------------------------------------------------------------------
(* process() *)

\* A squelch command.
SetSquelch ==
  /\ enabled' = ~enabled
  /\ UNCHANGED <<squelchVars, accumVars, packVars>>

\* Wrong variant: reset_for_squelch_gate keeps the samples.
GateKeepsSamples == UNCHANGED <<accum, offset, due>>

\* Wrong variant: reset_for_squelch_gate keeps the offset.
GateKeepsOffset == accum' = <<>> /\ due' = made + 1 /\ UNCHANGED offset

\* reset_for_squelch_gate: what was not encoded yet is discarded.
GateReset == accum' = <<>> /\ offset' = 0 /\ due' = made + 1

\* The squelch is closed: no packet.
FrameGated(f) ==
  /\ pc = "idle" /\ enabled /\ ~After(f).open
  /\ SquelchStep(f)
  /\ GateReset
  /\ gateAt' = made
  /\ packets' = <<>>
  /\ UNCHANGED <<enabled, made, pc, gathered, failed>>

\* The frame is demodulated and its samples appended.
FrameHeard(f) ==
  /\ pc = "idle" /\ made < MaxFrames * FrameSamples
  /\ IF enabled THEN After(f).open /\ SquelchStep(f) ELSE SquelchOff
  /\ accum' = accum \o [i \in 1..FrameSamples |-> made + i]
  /\ made' = made + FrameSamples
  /\ pc' = "packing"
  /\ packets' = <<>> /\ gathered' = <<>>
  /\ UNCHANGED <<enabled, offset, due, gateAt, failed>>

Available == Len(accum) - offset

\* Wrong variant: the encoded samples are never drained.
AdvanceNoDrain(end) == offset' = end /\ UNCHANGED accum

\* The encoded samples are drained four blocks at a time.
Advance(end) ==
  IF end >= 4 * PacketSamples
    THEN accum' = SubSeq(accum, end + 1, Len(accum)) /\ offset' = 0
    ELSE offset' = end /\ UNCHANGED accum

Size(blocks) == FoldLeft(LAMBDA n, b : n + b.size, 0, blocks)

\* A block that would make the packet too large starts the next one.
Gather(block) ==
  IF Size(Append(gathered, block)) <= SizeThreshold
    THEN gathered' = Append(gathered, block) /\ UNCHANGED packets
    ELSE packets' = Append(packets, gathered) /\ gathered' = <<block>>

\* One iteration of the loop: encode the next block.
EncodeBlock ==
  /\ pc = "packing" /\ Available >= PacketSamples
  /\ Advance(offset + PacketSamples)
  /\ due' = due + PacketSamples
  /\ \E size \in BlockSizes :
       Gather([samples |-> SubSeq(accum, offset + 1, offset + PacketSamples), size |-> size])
  /\ UNCHANGED <<enabled, squelchVars, made, gateAt, pc, failed>>

\* The Opus encoder fails: process() returns the error, the packets made so far
\* are lost, the block counts as consumed and is drained later.
BlockFails ==
  /\ pc = "packing" /\ Available >= PacketSamples /\ failed < MaxFailures
  /\ offset' = offset + PacketSamples /\ due' = due + PacketSamples
  /\ packets' = <<>> /\ gathered' = <<>>
  /\ failed' = failed + 1
  /\ pc' = "idle"
  /\ UNCHANGED <<enabled, squelchVars, accum, made, gateAt>>

\* No full block is left: the rest of the packet goes out, process() returns.
Finish ==
  /\ pc = "packing" /\ Available < PacketSamples
  /\ packets' = IF gathered = <<>> THEN packets ELSE Append(packets, gathered)
  /\ gathered' = <<>>
  /\ failed' = IF gathered = <<>> THEN failed ELSE 0
  /\ pc' = "idle"
  /\ UNCHANGED <<enabled, squelchVars, accumVars>>
-----------------------------------------------------------------------------
Next == \/ SetSquelch
        \/ \E f \in Features : FrameGated(f) \/ FrameHeard(f)
        \/ EncodeBlock \/ BlockFails \/ Finish

Spec == Init /\ [][Next]_vars
-----------------------------------------------------------------------------
(* Properties *)

\* The unread samples are the ones that are due.
UnreadAreDue == SubSeq(accum, offset + 1, Len(accum)) = [i \in 1..(made + 1 - due) |-> due + i - 1]

\* The sample after block i of packet p; the one after the last block is end.
SampleAfter(all, end, p, i) ==
  IF i < Len(all[p]) THEN all[p][i + 1].samples[1]
  ELSE IF p < Len(all) THEN all[p + 1][1].samples[1] ELSE end

\* Every block holds the samples right before those of the next one.
InOrder(all, end) ==
  \A p \in DOMAIN all : \A i \in DOMAIN all[p] :
    all[p][i].samples = [j \in 1..PacketSamples |-> SampleAfter(all, end, p, i) - PacketSamples + j - 1]

\* The blocks of this call are the ones before them.
CodedInOrder == pc = "packing" => InOrder(Append(packets, gathered), due)

\* "keep frame size less than N bytes if possible": of the packets only those of
\* one block can be larger.
SmallPackets == \A i \in DOMAIN packets : Len(packets[i]) > 1 => Size(packets[i]) <= SizeThreshold

\* Every demodulated sample is encoded once and in order, whatever the ratio of
\* frames to blocks and whenever the accumulator is drained.
StreamIntact == TypeOK /\ UnreadAreDue /\ CodedInOrder /\ SmallPackets

\* The accumulator does not grow for ever: at most three blocks stay in it
\* undrained and less than a block unread, apart from what the calls that
\* failed since left behind.
AccumBounded ==
  /\ offset <= (3 + failed) * PacketSamples
  /\ Available <= PacketSamples - 1 + FrameSamples * (failed + IF pc = "idle" THEN 0 ELSE 1)

\* AUDIO.md: "When squelch is enabled and closed, the server does not emit audio
\* packets", and once it opens again nothing from before is sent.
AfterGate(block) == \A i \in DOMAIN block.samples : block.samples[i] > gateAt
NothingFromBeforeTheGate ==
  /\ \A i \in DOMAIN gathered : AfterGate(gathered[i])
  /\ \A i \in DOMAIN packets : \A j \in DOMAIN packets[i] : AfterGate(packets[i][j])

\* The last n frames are of these kinds.
InARow(n, kinds) ==
  Len(recent) >= n /\ \A i \in (Len(recent) - n + 1)..Len(recent) : recent[i] \in kinds

SoftKinds == {k \in Kinds : k.soft}
WeakKinds == {k \in Kinds : k.weak /\ ~k.strong}

\* The counters decide as the last frames say: a strong frame opens at once; a
\* closed squelch opens on SoftHits soft frames in a row, an open one closes on
\* CloseHits weak ones, both counted since it last flipped.
SquelchDecision ==
  wasEnabled =>
    open = \/ recent[Len(recent)].strong
           \/ IF wasOpen THEN ~InARow(CloseHits, WeakKinds) ELSE InARow(SoftHits, SoftKinds)
=============================================================================
