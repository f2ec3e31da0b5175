------------------------ MODULE AudioPipelineProofs ------------------------
(***************************************************************************)
(* For all frame, packet and block sizes and all squelch thresholds: the   *)
(* accumulator holds the samples that are due and does not grow for ever,  *)
(* nothing from before the gate is sent after it, and the squelch decides  *)
(* as the last frames say.                                                 *)
(***************************************************************************)
EXTENDS AudioPipeline, SequenceTheorems, TLAPS

USE SizeAssumption, HitsAssumption, BoundAssumption

(***************************************************************************)
(* The inductive invariant.                                                *)
(***************************************************************************)

\* The type invariant in parts.
SquelchTypes ==
  /\ enabled \in BOOLEAN /\ wasEnabled \in BOOLEAN /\ open \in BOOLEAN
  /\ lowHits \in 0..(SoftHits - 1) /\ closeHits \in 0..(CloseHits - 1)
  /\ wasOpen \in BOOLEAN /\ recent \in Seq(Kinds)
AccumTypes ==
  /\ accum \in Seq(Nat) /\ offset \in 0..Len(accum)
  /\ made \in Nat /\ due \in Nat /\ gateAt \in Nat
PackTypes ==
  /\ pc \in {"idle", "packing"} /\ failed \in 0..MaxFailures
  /\ gathered \in Seq(Block) /\ packets \in Seq(Seq(Block))

Types == SquelchTypes /\ AccumTypes /\ PackTypes

\* The samples of the accumulator are numbered without a gap; the first unread
\* one is due, the last one was made last; all were made after the gate closed.
Numbered ==
  /\ Len(accum) - offset = made + 1 - due /\ gateAt < due - offset
  /\ \A i \in 1..Len(accum) : accum[i] = due - offset - 1 + i

\* Blocks are gathered within a call only.
GatheredInCall == pc = "idle" => gathered = <<>>

\* The packet being gathered is not empty once another was finished.
GatheringOn == pc = "packing" /\ packets # <<>> => gathered # <<>>

\* Several blocks are gathered only within the threshold.
SmallGathered == Len(gathered) > 1 => Size(gathered) <= SizeThreshold

\* Encoded samples that were not drained are whole blocks: at most three, and
\* one more for every failure since; a block encoded in this call leaves three.
Undrained ==
  /\ \E k \in 0..(3 + failed) : offset = k * PacketSamples
  /\ pc = "packing" /\ gathered # <<>> => offset <= 3 * PacketSamples

\* Unread samples: less than a block, and a frame for every failure since.
Unread ==
  Available <= PacketSamples - 1 + FrameSamples * (failed + IF pc = "idle" THEN 0 ELSE 1)

\* The row of frames of these kinds that ends the sequence has length n.
Row(s, n, kinds) ==
  /\ n \in 0..Len(s) /\ \A i \in (Len(s) - n + 1)..Len(s) : s[i] \in kinds
  /\ n < Len(s) => s[Len(s) - n] \notin kinds

\* The counters are the lengths of the rows that end the history, unless the
\* squelch flipped with the last frame: then they are zero.
Counted ==
  wasEnabled =>
    /\ recent # <<>>
    /\ IF open = wasOpen
         THEN IF open THEN Row(recent, closeHits, WeakKinds) ELSE Row(recent, lowHits, SoftKinds)
         ELSE lowHits = 0 /\ closeHits = 0

IInv == /\ Types /\ Numbered /\ GatheredInCall /\ Undrained /\ Unread
        /\ GatheringOn /\ CodedInOrder /\ SmallGathered /\ SmallPackets
        /\ NothingFromBeforeTheGate /\ Counted /\ SquelchDecision
-----------------------------------------------------------------------------
(* Sequences and squelch *)

\* The samples of one frame.
Frame == [i \in 1..FrameSamples |-> made + i]

\* They are as many as a frame has.
LEMMA FrameFacts ==
  ASSUME AccumTypes
  PROVE  /\ Frame \in Seq(Nat) /\ Len(Frame) = FrameSamples
         /\ \A i \in 1..FrameSamples : Frame[i] = made + i
<1>1. \A i \in 1..FrameSamples : made + i \in Nat
  BY DEF AccumTypes
<1>2. Frame \in [1..FrameSamples -> Nat]
  BY <1>1 DEF Frame
<1>3. Frame \in Seq(Nat)
  BY <1>2, SeqDef
<1>4. QED
  BY <1>2, <1>3, LenProperties DEF Frame

\* What a stretch of a sequence holds.
LEMMA CutFacts ==
  ASSUME NEW q \in Seq(Nat), NEW start \in Nat, NEW end \in Nat, start <= end, end <= Len(q)
  PROVE  LET t == SubSeq(q, start + 1, end)
         IN  /\ t \in Seq(Nat) /\ Len(t) = end - start
             /\ \A i \in 1..Len(t) : t[i] = q[start + i]
<1> DEFINE m == start + 1
           t == SubSeq(q, m, end)
<1>1. Len(q) \in Nat /\ \A i \in 1..Len(q) : q[i] \in Nat
  BY LenProperties, ElementOfSeq
<1>2. m \in Int /\ end \in Int /\ \A i \in m..end : q[i] \in Nat
  BY <1>1
<1> HIDE DEF m
<1>3. /\ t \in Seq(Nat) /\ Len(t) = (IF m <= end THEN end - m + 1 ELSE 0)
      /\ \A i \in 1..(end - m + 1) : t[i] = q[m + i - 1]
  BY <1>2, SubSeqProperties
<1> HIDE DEF t
<1>4. Len(t) = end - start
  BY <1>3 DEF m
<1>5. ASSUME NEW i \in 1..Len(t)
      PROVE  t[i] = q[start + i]
  <2>1. i \in 1..(end - m + 1) /\ m + i - 1 = start + i
    BY <1>4 DEF m
  <2>2. QED
    BY <1>3, <2>1
<1>6. QED
  BY <1>3, <1>4, <1>5 DEF t, m

\* What is left when the first samples are drained.
LEMMA DrainFacts ==
  ASSUME NEW q \in Seq(Nat), NEW end \in Nat, end <= Len(q)
  PROVE  LET t == SubSeq(q, end + 1, Len(q))
         IN  /\ t \in Seq(Nat) /\ Len(t) = Len(q) - end
             /\ \A i \in 1..Len(t) : t[i] = q[end + i]
<1> DEFINE n == Len(q)
<1>1. n \in Nat /\ end <= n /\ n <= Len(q)
  BY LenProperties
<1> HIDE DEF n
<1>2. LET t == SubSeq(q, end + 1, n)
      IN  /\ t \in Seq(Nat) /\ Len(t) = n - end
          /\ \A i \in 1..Len(t) : t[i] = q[end + i]
  BY <1>1, CutFacts
<1>3. QED
  BY <1>2 DEF n

\* An empty sequence has no length.
LEMMA EmptyAccum == Len(<<>>) = 0 /\ <<>> \in Seq(Nat)
  OBVIOUS

\* The latest entries of a sequence.
LEMMA LatestFacts ==
  ASSUME NEW q \in Seq(Kinds), q # <<>>
  PROVE  LET t == Latest(q)
         IN  /\ t \in Seq(Kinds) /\ t # <<>> /\ Len(t) = (IF Len(q) > Keep THEN Keep ELSE Len(q))
             /\ \A i \in 1..Len(t) : t[i] = q[Len(q) - Len(t) + i]
<1> DEFINE k == IF Len(q) > Keep THEN Len(q) - Keep + 1 ELSE 1
           t == SubSeq(q, k, Len(q))
<1>1. Len(q) \in Nat \ {0} /\ \A i \in 1..Len(q) : q[i] \in Kinds
  BY LenProperties, ElementOfSeq, EmptySeq
<1>2. Keep \in Nat \ {0}
  BY DEF Keep
<1>3. k \in 1..Len(q)
  BY <1>1, <1>2
<1> HIDE DEF k
<1>4. /\ t \in Seq(Kinds) /\ Len(t) = (IF k <= Len(q) THEN Len(q) - k + 1 ELSE 0)
      /\ \A i \in 1..(Len(q) - k + 1) : t[i] = q[k + i - 1]
  BY <1>1, <1>3, SubSeqProperties
<1> HIDE DEF t
<1>5. Len(t) = Len(q) - k + 1 /\ Len(t) \in Nat \ {0}
  BY <1>1, <1>3, <1>4
<1>6. Len(t) = (IF Len(q) > Keep THEN Keep ELSE Len(q))
  BY <1>1, <1>2, <1>5 DEF k
<1>7. ASSUME NEW i \in 1..Len(t)
      PROVE  t[i] = q[Len(q) - Len(t) + i]
  <2>1. Len(q) - Len(t) + i = k + i - 1
    BY <1>1, <1>3, <1>5
  <2>2. QED
    BY <1>4, <1>5, <2>1
<1>8. t # <<>>
  BY <1>5, EmptySeq
<1>9. QED
  BY <1>4, <1>6, <1>7, <1>8 DEF t, k, Latest

\* A row grows with a frame of its kinds and ends with any other.
LEMMA RowOfAppend ==
  ASSUME NEW q \in Seq(Kinds), NEW n, NEW kinds, Row(q, n, kinds), NEW k \in Kinds
  PROVE  /\ k \in kinds => Row(Append(q, k), n + 1, kinds)
         /\ k \notin kinds => Row(Append(q, k), 0, kinds)
<1> DEFINE a == Append(q, k)
<1>1. /\ Len(a) = Len(q) + 1 /\ a[Len(q) + 1] = k /\ \A i \in 1..Len(q) : a[i] = q[i]
  BY AppendProperties
<1>2. Len(q) \in Nat /\ n \in 0..Len(q)
  BY LenProperties DEF Row
<1> HIDE DEF a
<1>3. ASSUME k \in kinds
      PROVE  Row(a, n + 1, kinds)
  <2>1. n + 1 \in 0..Len(a)
    BY <1>1, <1>2
  <2>2. \A i \in (Len(a) - (n + 1) + 1)..Len(a) : a[i] \in kinds
    BY <1>1, <1>2, <1>3 DEF Row
  <2>3. n + 1 < Len(a) => a[Len(a) - (n + 1)] \notin kinds
    <3>1. HAVE n + 1 < Len(a)
    <3>2. Len(a) - (n + 1) = Len(q) - n /\ Len(q) - n \in 1..Len(q) /\ n < Len(q)
      BY <1>1, <1>2, <3>1
    <3>3. QED
      BY <1>1, <3>2 DEF Row
  <2>4. QED
    BY <2>1, <2>2, <2>3 DEF Row
<1>4. ASSUME k \notin kinds
      PROVE  Row(a, 0, kinds)
  BY <1>1, <1>2, <1>4 DEF Row
<1>5. QED
  BY <1>3, <1>4 DEF a

\* The latest entries end with the same row, if they can hold it.
LEMMA RowOfLatest ==
  ASSUME NEW q \in Seq(Kinds), q # <<>>, NEW n, NEW kinds, Row(q, n, kinds), n <= Keep
  PROVE  Row(Latest(q), n, kinds)
<1> DEFINE t == Latest(q)
<1>1. /\ t \in Seq(Kinds) /\ Len(t) = (IF Len(q) > Keep THEN Keep ELSE Len(q))
      /\ \A i \in 1..Len(t) : t[i] = q[Len(q) - Len(t) + i]
  BY LatestFacts
<1>2. Len(q) \in Nat /\ n \in 0..Len(q) /\ Keep \in Nat \ {0}
  BY LenProperties DEF Row, Keep
<1> HIDE DEF t
<1>3. n \in 0..Len(t) /\ Len(t) \in 0..Len(q)
  BY <1>1, <1>2
<1>4. ASSUME NEW i \in (Len(t) - n + 1)..Len(t)
      PROVE  t[i] \in kinds
  <2>1. i \in 1..Len(t) /\ Len(q) - Len(t) + i \in (Len(q) - n + 1)..Len(q)
    BY <1>2, <1>3
  <2>2. QED
    BY <1>1, <2>1 DEF Row
<1>5. n < Len(t) => t[Len(t) - n] \notin kinds
  <2>1. HAVE n < Len(t)
  <2>2. Len(t) - n \in 1..Len(t) /\ Len(q) - Len(t) + (Len(t) - n) = Len(q) - n /\ n < Len(q)
    BY <1>2, <1>3, <2>1
  <2>3. t[Len(t) - n] = q[Len(q) - n]
    BY <1>1, <2>2
  <2>4. QED
    BY <2>2, <2>3 DEF Row
<1>6. QED
  BY <1>3, <1>4, <1>5 DEF Row, t

\* Whether the last m frames are of these kinds is a matter of the row's length.
LEMMA RowDecides ==
  ASSUME NEW q \in Seq(Kinds), NEW n, NEW kinds, Row(q, n, kinds), NEW m \in Nat \ {0}
  PROVE  (Len(q) >= m /\ \A i \in (Len(q) - m + 1)..Len(q) : q[i] \in kinds) <=> n >= m
<1>1. Len(q) \in Nat /\ n \in 0..Len(q)
  BY LenProperties DEF Row
<1>2. ASSUME n >= m
      PROVE  Len(q) >= m /\ \A i \in (Len(q) - m + 1)..Len(q) : q[i] \in kinds
  BY <1>1, <1>2 DEF Row
<1>3. ASSUME Len(q) >= m, \A i \in (Len(q) - m + 1)..Len(q) : q[i] \in kinds, ~(n >= m)
      PROVE  FALSE
  <2>1. n < Len(q) /\ Len(q) - n \in (Len(q) - m + 1)..Len(q)
    BY <1>1, <1>3
  <2>2. QED
    BY <1>3, <2>1 DEF Row
<1>4. QED
  BY <1>2, <1>3

\* The counters an update starts from.
LEMMA BeforeFields ==
  ASSUME SquelchTypes
  PROVE  /\ Before.open \in BOOLEAN /\ Before.low \in 0..(SoftHits - 1)
         /\ Before.close \in 0..(CloseHits - 1)
         /\ Before = [open |-> Before.open, low |-> Before.low, close |-> Before.close]
         /\ \A n : /\ [Before EXCEPT !.close = n].open = Before.open
                   /\ [Before EXCEPT !.close = n].close = n
                   /\ [Before EXCEPT !.low = n].open = Before.open
                   /\ [Before EXCEPT !.low = n].low = n
<1>1. /\ Before.open \in BOOLEAN /\ Before.low \in 0..(SoftHits - 1)
      /\ Before.close \in 0..(CloseHits - 1)
      /\ Before = [open |-> Before.open, low |-> Before.low, close |-> Before.close]
  <2>1. CASE wasEnabled
    <3>1. Before = [open |-> open, low |-> lowHits, close |-> closeHits]
      BY <2>1 DEF Before, Hits
    <3>2. QED
      BY <3>1 DEF SquelchTypes
  <2>2. CASE ~wasEnabled
    <3>1. Before = [open |-> FALSE, low |-> 0, close |-> 0]
      BY <2>2 DEF Before, Closed
    <3>2. QED
      BY <3>1
  <2>3. QED
    BY <2>1, <2>2
<1>2. QED
  BY <1>1

\* A row of nothing.
LEMMA EmptyRow == \A kinds : Row(<<>>, 0, kinds)
  BY EmptyAccum DEF Row

\* What the counters of an update become.
LEMMA AfterFacts ==
  ASSUME SquelchTypes, NEW f \in Features
  PROVE  /\ After(f).open \in BOOLEAN /\ After(f).low \in 0..(SoftHits - 1)
         /\ After(f).close \in 0..(CloseHits - 1)
         /\ Kind(f) \in Kinds
<1>1. /\ Before.open \in BOOLEAN /\ Before.low \in 0..(SoftHits - 1)
      /\ Before.close \in 0..(CloseHits - 1)
      /\ Before = [open |-> Before.open, low |-> Before.low, close |-> Before.close]
  BY BeforeFields
<1> DEFINE h == Before
<1> HIDE DEF h
<1>2. /\ h.open \in BOOLEAN /\ h.low \in 0..(SoftHits - 1) /\ h.close \in 0..(CloseHits - 1)
      /\ h = [open |-> h.open, low |-> h.low, close |-> h.close]
  BY <1>1 DEF h
<1>3. Opened.open = TRUE /\ Opened.low = 0 /\ Opened.close = 0
  BY DEF Opened
<1>4. Closed.open = FALSE /\ Closed.low = 0 /\ Closed.close = 0
  BY DEF Closed
<1>5. /\ WhenOpen(h, f).open \in BOOLEAN /\ WhenOpen(h, f).low \in 0..(SoftHits - 1)
      /\ WhenOpen(h, f).close \in 0..(CloseHits - 1)
  <2> DEFINE n == IF Weak(f) THEN h.close + 1 ELSE 0
  <2>1. CASE n >= CloseHits
    <3>1. WhenOpen(h, f) = Closed
      BY <2>1 DEF WhenOpen
    <3>2. 0 \in 0..(SoftHits - 1) /\ 0 \in 0..(CloseHits - 1)
      OBVIOUS
    <3>3. QED
      BY <1>4, <3>1, <3>2
  <2>2. CASE ~(n >= CloseHits)
    <3>1. WhenOpen(h, f) = [h EXCEPT !.close = n]
      BY <2>2 DEF WhenOpen
    <3>2. n \in 0..(CloseHits - 1)
      BY <1>2, <2>2
    <3>3. [h EXCEPT !.close = n] = [open |-> h.open, low |-> h.low, close |-> n]
      BY <1>2
    <3>4. QED
      BY <1>2, <3>1, <3>2, <3>3
  <2>3. QED
    BY <2>1, <2>2
<1>6. /\ WhenClosed(h, f).open \in BOOLEAN /\ WhenClosed(h, f).low \in 0..(SoftHits - 1)
      /\ WhenClosed(h, f).close \in 0..(CloseHits - 1)
  <2> DEFINE n == IF Soft(f) THEN h.low + 1 ELSE 0
  <2>1. CASE n >= SoftHits
    <3>1. WhenClosed(h, f) = Opened
      BY <2>1 DEF WhenClosed
    <3>2. 0 \in 0..(SoftHits - 1) /\ 0 \in 0..(CloseHits - 1)
      OBVIOUS
    <3>3. QED
      BY <1>3, <3>1, <3>2
  <2>2. CASE ~(n >= SoftHits)
    <3>1. WhenClosed(h, f) = [h EXCEPT !.low = n]
      BY <2>2 DEF WhenClosed
    <3>2. n \in 0..(SoftHits - 1)
      BY <1>2, <2>2
    <3>3. [h EXCEPT !.low = n] = [open |-> h.open, low |-> n, close |-> h.close]
      BY <1>2
    <3>4. QED
      BY <1>2, <3>1, <3>2, <3>3
  <2>3. QED
    BY <2>1, <2>2
<1>7. After(f) = IF Strong(f) THEN Opened ELSE IF h.open THEN WhenOpen(h, f) ELSE WhenClosed(h, f)
  BY DEF After, h
<1>8. /\ After(f).open \in BOOLEAN /\ After(f).low \in 0..(SoftHits - 1)
      /\ After(f).close \in 0..(CloseHits - 1)
  <2>1. 0 \in 0..(SoftHits - 1) /\ 0 \in 0..(CloseHits - 1)
    OBVIOUS
  <2>2. QED
    BY <1>3, <1>5, <1>6, <1>7, <2>1
<1>9. Kind(f) \in Kinds
  BY DEF Kind, Kinds, Strong, Soft, Weak
<1>10. QED
  BY <1>1, <1>8, <1>9

\* The history of an update.
LEMMA RememberFacts ==
  ASSUME SquelchTypes, NEW f \in Features
  PROVE  /\ SinceFlip \in Seq(Kinds) /\ Append(SinceFlip, Kind(f)) \in Seq(Kinds)
         /\ Append(SinceFlip, Kind(f)) # <<>>
         /\ Remember(f) \in Seq(Kinds) /\ Remember(f) # <<>>
         /\ Remember(f)[Len(Remember(f))] = Kind(f)
<1> DEFINE a == Append(SinceFlip, Kind(f))
           t == Latest(a)
<1>1. SinceFlip \in Seq(Kinds) /\ Kind(f) \in Kinds
  BY AfterFacts, EmptySeq DEF SinceFlip, SquelchTypes
<1>2. /\ a \in Seq(Kinds) /\ a # <<>> /\ Len(a) = Len(SinceFlip) + 1 /\ a[Len(SinceFlip) + 1] = Kind(f)
      /\ Len(SinceFlip) \in Nat
  BY <1>1, AppendProperties, LenProperties
<1> HIDE DEF a
<1>3. /\ t \in Seq(Kinds) /\ t # <<>> /\ Len(t) = (IF Len(a) > Keep THEN Keep ELSE Len(a))
      /\ \A i \in 1..Len(t) : t[i] = a[Len(a) - Len(t) + i]
  BY <1>2, LatestFacts
<1> HIDE DEF t
<1>4. Len(t) \in Nat \ {0} /\ Len(a) - Len(t) + Len(t) = Len(a)
  BY <1>2, <1>3 DEF Keep
<1>5. t[Len(t)] = a[Len(a)]
  <2>1. Len(t) \in 1..Len(t)
    BY <1>4
  <2>2. QED
    BY <1>3, <1>4, <2>1
<1>6. Remember(f) = t
  BY DEF Remember, t, a
<1>7. QED
  BY <1>1, <1>2, <1>3, <1>5, <1>6 DEF a

\* An update keeps the types of the squelch.
LEMMA SquelchStepTypes ==
  ASSUME SquelchTypes, NEW f \in Features, SquelchStep(f), UNCHANGED enabled
  PROVE  SquelchTypes'
<1>1. /\ open' \in BOOLEAN /\ lowHits' \in 0..(SoftHits - 1) /\ closeHits' \in 0..(CloseHits - 1)
      /\ wasEnabled' = TRUE
  BY AfterFacts DEF SquelchStep
<1>2. recent' \in Seq(Kinds) /\ wasOpen' \in BOOLEAN
  BY RememberFacts, BeforeFields DEF SquelchStep
<1>3. QED
  BY <1>1, <1>2 DEF SquelchTypes
\* Multiples of a block.
LEMMA Multiples ==
  ASSUME NEW k \in Nat
  PROVE  /\ k * PacketSamples \in Nat /\ (k + 1) * PacketSamples = k * PacketSamples + PacketSamples
         /\ \A j \in Nat : j <= k => j * PacketSamples <= k * PacketSamples
         /\ k > 3 => k * PacketSamples >= 4 * PacketSamples
<1>1. k * PacketSamples \in Nat /\ (k + 1) * PacketSamples = k * PacketSamples + PacketSamples
  OBVIOUS
<1>2. ASSUME NEW j \in Nat, NEW i \in Nat, j <= i
      PROVE  j * PacketSamples <= i * PacketSamples
  <2>1. i * PacketSamples = j * PacketSamples + (i - j) * PacketSamples
    OBVIOUS
  <2>2. (i - j) * PacketSamples >= 0
    BY <1>2
  <2>3. QED
    BY <2>1, <2>2
<1>3. k > 3 => 4 * PacketSamples <= k * PacketSamples
  BY <1>2
<1>4. QED
  BY <1>1, <1>2, <1>3

\* The block that is encoded holds the next samples.
LEMMA BlockFacts ==
  ASSUME AccumTypes, Numbered, EncodeBlock
  PROVE  \E block \in Block : /\ Gather(block) /\ AfterGate(block)
                             /\ block.samples = [j \in 1..PacketSamples |-> due + j - 1]
<1> DEFINE t == SubSeq(accum, offset + 1, offset + PacketSamples)
<1>1. PICK size \in BlockSizes : Gather([samples |-> t, size |-> size])
  BY DEF EncodeBlock
<1>2. /\ Len(accum) \in Nat /\ offset \in Nat /\ offset + PacketSamples <= Len(accum)
      /\ \A i \in 1..Len(accum) : accum[i] \in Nat
  BY LenProperties, ElementOfSeq DEF AccumTypes, EncodeBlock, Available
<1>3. t \in Seq(Nat) /\ Len(t) = PacketSamples /\ \A i \in 1..Len(t) : t[i] = accum[offset + i]
  <2> DEFINE end == offset + PacketSamples
             cut == SubSeq(accum, offset + 1, end)
  <2>1. /\ accum \in Seq(Nat) /\ offset \in Nat /\ end \in Nat
        /\ offset <= end /\ end <= Len(accum) /\ end - offset = PacketSamples
    BY <1>2 DEF AccumTypes
  <2> HIDE DEF end
  <2>2. /\ cut \in Seq(Nat) /\ Len(cut) = end - offset
        /\ \A i \in 1..Len(cut) : cut[i] = accum[offset + i]
    BY <2>1, CutFacts
  <2> HIDE DEF cut
  <2>3. t = cut
    BY DEF cut, end
  <2>4. QED
    BY <2>1, <2>2, <2>3
<1> HIDE DEF t
<1>4. Len(t) = PacketSamples /\ DOMAIN t = 1..Len(t)
  BY <1>2, <1>3, LenProperties
<1>5. ASSUME NEW i \in DOMAIN t
      PROVE  t[i] > gateAt /\ t[i] = due + i - 1
  <2>1. t[i] = accum[offset + i] /\ offset + i \in 1..Len(accum)
    BY <1>2, <1>3, <1>4
  <2>2. accum[offset + i] = due - offset - 1 + (offset + i) /\ gateAt < due - offset
    BY <2>1 DEF Numbered
  <2>3. due \in Nat /\ gateAt \in Nat /\ i \in Nat
    BY <1>4 DEF AccumTypes
  <2>4. QED
    BY <1>2, <1>4, <2>1, <2>2, <2>3
<1>6. [samples |-> t, size |-> size] \in Block
  BY <1>3 DEF Block
<1>7. t = [j \in 1..PacketSamples |-> due + j - 1]
  BY <1>3, <1>4, <1>5
<1>8. QED
  BY <1>1, <1>5, <1>6, <1>7 DEF AfterGate

\* A packet of one block.
LEMMA OneBlock ==
  ASSUME NEW S, NEW e \in S
  PROVE  <<e>> \in Seq(S) /\ DOMAIN <<e>> = {1} /\ <<e>>[1] = e
  OBVIOUS

\* What an extended sequence holds.
LEMMA EntriesOfAppend ==
  ASSUME NEW S, NEW q \in Seq(S), NEW e \in S
  PROVE  \A i \in DOMAIN Append(q, e) :
           Append(q, e)[i] = e \/ (i \in DOMAIN q /\ Append(q, e)[i] = q[i])
<1> DEFINE a == Append(q, e)
<1>1. /\ a \in Seq(S) /\ Len(a) = Len(q) + 1 /\ a[Len(q) + 1] = e
      /\ \A i \in 1..Len(q) : a[i] = q[i]
  BY AppendProperties
<1>2. Len(q) \in Nat /\ DOMAIN q = 1..Len(q) /\ DOMAIN a = 1..(Len(q) + 1)
  BY <1>1, LenProperties
<1> HIDE DEF a
<1>3. ASSUME NEW i \in DOMAIN a
      PROVE  a[i] = e \/ (i \in DOMAIN q /\ a[i] = q[i])
  BY <1>1, <1>2
<1>4. QED
  BY <1>3 DEF a
\* The order goes on with a packet that holds the next samples.
LEMMA OrderOfPacket ==
  ASSUME NEW all \in Seq(Seq(Block)), NEW end \in Nat, InOrder(all, end), NEW block \in Block,
         block.samples = [j \in 1..PacketSamples |-> end + j - 1]
  PROVE  InOrder(Append(all, <<block>>), end + PacketSamples)
<1> DEFINE new == Append(all, <<block>>)
           n == Len(all)
<1>1. /\ Len(new) = n + 1 /\ new[n + 1] = <<block>> /\ \A p \in 1..n : new[p] = all[p]
      /\ n \in Nat /\ DOMAIN all = 1..n /\ DOMAIN new = 1..(n + 1)
  BY OneBlock, AppendProperties, LenProperties
<1>2. Len(<<block>>) = 1 /\ <<block>>[1] = block /\ DOMAIN <<block>> = {1}
  BY OneBlock
<1>3. block.samples[1] = end
  OBVIOUS
<1> HIDE DEF new, n
<1>4. ASSUME NEW p \in 1..n, NEW i \in DOMAIN all[p]
      PROVE  SampleAfter(new, end + PacketSamples, p, i) = SampleAfter(all, end, p, i)
  <2>1. CASE i < Len(all[p])
    BY <1>1, <2>1 DEF SampleAfter
  <2>2. CASE ~(i < Len(all[p])) /\ p < n
    <3>1. p + 1 \in 1..n /\ p < n + 1
      BY <1>1, <2>2
    <3>2. QED
      BY <1>1, <2>2, <3>1 DEF SampleAfter, n
  <2>3. CASE ~(i < Len(all[p])) /\ ~(p < n)
    <3>1. p = n /\ p < n + 1
      BY <1>1, <2>3
    <3>2. QED
      BY <1>1, <1>2, <1>3, <2>3, <3>1 DEF SampleAfter, n
  <2>4. QED
    BY <2>1, <2>2, <2>3
<1>5. SampleAfter(new, end + PacketSamples, n + 1, 1) = end + PacketSamples
  BY <1>1, <1>2 DEF SampleAfter
<1>6. block.samples = [j \in 1..PacketSamples |-> end + PacketSamples - PacketSamples + j - 1]
  BY end + PacketSamples - PacketSamples = end
<1>7. ASSUME NEW p \in DOMAIN new, NEW i \in DOMAIN new[p]
      PROVE  new[p][i].samples
               = [j \in 1..PacketSamples |->
                    SampleAfter(new, end + PacketSamples, p, i) - PacketSamples + j - 1]
  <2>1. CASE p \in 1..n
    BY <1>1, <1>4, <2>1 DEF InOrder
  <2>2. CASE p = n + 1
    BY <1>1, <1>2, <1>5, <1>6, <2>2
  <2>3. QED
    BY <1>1, <2>1, <2>2
<1>8. QED
  BY <1>7 DEF InOrder, new

\* The order goes on with a block more in the packet being gathered.
LEMMA OrderOfBlock ==
  ASSUME NEW done \in Seq(Seq(Block)), NEW rest \in Seq(Block), done # <<>> => rest # <<>>,
         NEW end \in Nat, InOrder(Append(done, rest), end), NEW block \in Block,
         block.samples = [j \in 1..PacketSamples |-> end + j - 1]
  PROVE  InOrder(Append(done, Append(rest, block)), end + PacketSamples)
<1> DEFINE more == Append(rest, block)
           old == Append(done, rest)
           new == Append(done, more)
           n == Len(done)
           m == Len(rest)
<1>1. /\ more \in Seq(Block) /\ Len(more) = m + 1 /\ more[m + 1] = block
      /\ \A i \in 1..m : more[i] = rest[i]
      /\ m \in Nat /\ DOMAIN rest = 1..m /\ DOMAIN more = 1..(m + 1)
  BY AppendProperties, LenProperties
<1>2. n \in Nat /\ DOMAIN done = 1..n /\ (n > 0 => m > 0)
  BY LenProperties, EmptySeq
<1>3. block.samples[1] = end
  OBVIOUS
<1> HIDE DEF more, m
<1>4. /\ Len(new) = n + 1 /\ new[n + 1] = more /\ \A p \in 1..n : new[p] = done[p]
      /\ DOMAIN new = 1..(n + 1)
  BY <1>1, AppendProperties, LenProperties
<1>5. /\ Len(old) = n + 1 /\ old[n + 1] = rest /\ \A p \in 1..n : old[p] = done[p]
      /\ DOMAIN old = 1..(n + 1)
  BY AppendProperties, LenProperties
<1> HIDE DEF new, old, n
<1>6. ASSUME NEW p \in 1..n, NEW i \in DOMAIN done[p]
      PROVE  SampleAfter(new, end + PacketSamples, p, i) = SampleAfter(old, end, p, i)
  <2>1. p < n + 1
    BY <1>2
  <2>2. CASE i < Len(done[p])
    BY <1>4, <1>5, <2>2 DEF SampleAfter
  <2>3. CASE ~(i < Len(done[p])) /\ p < n
    <3>1. p + 1 \in 1..n
      BY <1>2, <2>3
    <3>2. QED
      BY <1>4, <1>5, <2>1, <2>3, <3>1 DEF SampleAfter
  <2>4. CASE ~(i < Len(done[p])) /\ ~(p < n)
    <3>1. p = n /\ 1 \in 1..m
      BY <1>1, <1>2, <2>4
    <3>2. QED
      BY <1>1, <1>4, <1>5, <2>1, <2>4, <3>1 DEF SampleAfter
  <2>5. QED
    BY <2>2, <2>3, <2>4
<1>7. ASSUME NEW i \in 1..m
      PROVE  SampleAfter(new, end + PacketSamples, n + 1, i) = SampleAfter(old, end, n + 1, i)
  <2>1. i < m + 1 /\ i + 1 \in 1..(m + 1)
    BY <1>1
  <2>2. CASE i < m
    <3>1. i + 1 \in 1..m
      BY <1>1, <2>2
    <3>2. QED
      BY <1>1, <1>4, <1>5, <2>1, <2>2, <3>1 DEF SampleAfter, m
  <2>3. CASE ~(i < m)
    <3>1. i = m /\ ~(n + 1 < n + 1)
      BY <1>1, <1>2, <2>3
    <3>2. QED
      BY <1>1, <1>3, <1>4, <1>5, <2>1, <2>3, <3>1 DEF SampleAfter, m
  <2>4. QED
    BY <2>2, <2>3
<1>8. SampleAfter(new, end + PacketSamples, n + 1, m + 1) = end + PacketSamples
  <2>1. ~(m + 1 < m + 1) /\ ~(n + 1 < n + 1)
    BY <1>1, <1>2
  <2>2. QED
    BY <1>1, <1>4, <2>1 DEF SampleAfter
<1>9. block.samples = [j \in 1..PacketSamples |-> end + PacketSamples - PacketSamples + j - 1]
  BY end + PacketSamples - PacketSamples = end
<1>10. ASSUME NEW p \in DOMAIN new, NEW i \in DOMAIN new[p]
       PROVE  new[p][i].samples
                = [j \in 1..PacketSamples |->
                     SampleAfter(new, end + PacketSamples, p, i) - PacketSamples + j - 1]
  <2>1. InOrder(old, end)
    BY DEF old
  <2>2. CASE p \in 1..n
    <3>1. old[p] = new[p] /\ new[p] = done[p] /\ p \in DOMAIN old
      BY <1>2, <1>4, <1>5, <2>2
    <3>2. QED
      BY <1>6, <2>1, <2>2, <3>1 DEF InOrder
  <2>3. CASE p = n + 1 /\ i \in 1..m
    <3>1. old[p] = rest /\ new[p][i] = rest[i] /\ p \in DOMAIN old /\ i \in DOMAIN rest
      BY <1>1, <1>2, <1>4, <1>5, <2>3
    <3>2. QED
      BY <1>7, <2>1, <2>3, <3>1 DEF InOrder
  <2>4. CASE p = n + 1 /\ i = m + 1
    BY <1>1, <1>4, <1>8, <1>9, <2>4
  <2>5. QED
    BY <1>1, <1>2, <1>4, <2>2, <2>3, <2>4
<1>11. QED
  BY <1>10 DEF InOrder, new, more
-----------------------------------------------------------------------------
(* Steps *)

\* The parts hold at first.
LEMMA InitInvariant == Init => IInv
<1> SUFFICES ASSUME Init PROVE IInv
  OBVIOUS
<1> USE DEF Init
<1>1. SquelchTypes /\ PackTypes
  <2>1. 0 \in 0..(SoftHits - 1) /\ 0 \in 0..(CloseHits - 1) /\ 0 \in 0..MaxFailures
    OBVIOUS
  <2>2. SquelchTypes
    BY <2>1, EmptySeq DEF SquelchTypes
  <2>3. PackTypes
    BY <2>1, EmptySeq DEF PackTypes
  <2>4. QED
    BY <2>2, <2>3
<1>2. AccumTypes /\ Numbered
  BY EmptyAccum DEF AccumTypes, Numbered
<1>3. GatheringOn /\ CodedInOrder /\ GatheredInCall /\ NothingFromBeforeTheGate /\ Counted /\ SquelchDecision
  BY DEF GatheringOn, CodedInOrder, GatheredInCall, NothingFromBeforeTheGate, Counted,
         SquelchDecision
<1>4. Undrained
  <2>1. 0 = 0 * PacketSamples /\ 0 \in 0..(3 + failed) /\ 0 <= 3 * PacketSamples
    OBVIOUS
  <2>2. QED
    BY <2>1 DEF Undrained
<1>5. Unread
  BY EmptyAccum DEF Unread, Available
<1>6. SmallGathered /\ SmallPackets
  BY EmptyAccum DEF SmallGathered, SmallPackets
<1>7. QED
  BY <1>1, <1>2, <1>3, <1>4, <1>5, <1>6 DEF IInv, Types

\* The squelch keeps its types; the counters stay below the hits that reset them.
LEMMA SquelchTypesStep ==
  ASSUME SquelchTypes, [Next]_vars
  PROVE  SquelchTypes'
<1> USE DEF squelchVars, accumVars, packVars
<1>1. CASE SetSquelch
  BY <1>1 DEF SetSquelch, SquelchTypes
<1>2. ASSUME NEW f \in Features, FrameGated(f)
      PROVE  SquelchTypes'
  BY <1>2, SquelchStepTypes DEF FrameGated
<1>3. ASSUME NEW f \in Features, FrameHeard(f)
      PROVE  SquelchTypes'
  <2>1. CASE enabled
    BY <1>3, <2>1, SquelchStepTypes DEF FrameHeard
  <2>2. CASE ~enabled
    <3>1. SquelchOff /\ enabled' = enabled
      BY <1>3, <2>2 DEF FrameHeard
    <3>2. wasEnabled' \in BOOLEAN /\ open' \in BOOLEAN /\ wasOpen' \in BOOLEAN /\ recent' \in Seq(Kinds)
      BY <3>1, EmptySeq DEF SquelchOff, SquelchTypes
    <3>3. lowHits' \in 0..(SoftHits - 1) /\ closeHits' \in 0..(CloseHits - 1)
      BY <3>1 DEF SquelchOff, SquelchTypes
    <3>4. QED
      BY <3>1, <3>2, <3>3 DEF SquelchTypes
  <2>3. QED
    BY <2>1, <2>2 DEF SquelchTypes
<1>4. CASE EncodeBlock
  BY <1>4 DEF EncodeBlock, SquelchTypes
<1>5. CASE BlockFails
  BY <1>5 DEF BlockFails, SquelchTypes
<1>6. CASE Finish
  BY <1>6 DEF Finish, SquelchTypes
<1>7. CASE UNCHANGED vars
  BY <1>7 DEF SquelchTypes, vars, squelchVars, accumVars, packVars
<1>8. QED
  BY <1>1, <1>2, <1>3, <1>4, <1>5, <1>6, <1>7 DEF Next

\* The accumulator keeps its types and its numbering.
LEMMA AccumStep ==
  ASSUME AccumTypes, Numbered, [Next]_vars
  PROVE  (AccumTypes /\ Numbered)'
<1> USE DEF squelchVars, accumVars, packVars
<1>1. CASE SetSquelch
  BY <1>1 DEF SetSquelch, AccumTypes, Numbered
<1>2. ASSUME NEW f \in Features, FrameGated(f)
      PROVE  (AccumTypes /\ Numbered)'
  BY EmptySeq, EmptyAccum, <1>2 DEF FrameGated, GateReset, AccumTypes, Numbered
<1>3. ASSUME NEW f \in Features, FrameHeard(f)
      PROVE  (AccumTypes /\ Numbered)'
  <2>1. /\ accum' = accum \o Frame /\ made' = made + FrameSamples
        /\ UNCHANGED <<offset, due, gateAt>>
    BY <1>3 DEF FrameHeard, Frame
  <2>2. /\ Frame \in Seq(Nat) /\ Len(Frame) = FrameSamples
        /\ \A i \in 1..FrameSamples : Frame[i] = made + i
    BY FrameFacts
  <2>3. /\ accum' \in Seq(Nat) /\ Len(accum') = Len(accum) + FrameSamples
        /\ \A i \in 1..Len(accum') : accum'[i] = IF i <= Len(accum) THEN accum[i] ELSE Frame[i - Len(accum)]
    <3>1. /\ accum \o Frame \in Seq(Nat) /\ Len(accum \o Frame) = Len(accum) + Len(Frame)
          /\ \A i \in 1..(Len(accum) + Len(Frame)) : (accum \o Frame)[i] =
               IF i <= Len(accum) THEN accum[i] ELSE Frame[i - Len(accum)]
      BY <2>2, ConcatProperties DEF AccumTypes
    <3>2. QED
      BY <2>1, <2>2, <3>1
  <2>4. Len(accum) \in Nat /\ offset \in 0..Len(accum) /\ made \in Nat /\ due \in Nat /\ gateAt \in Nat
    BY LenProperties DEF AccumTypes
  <2>5. AccumTypes'
    BY <2>1, <2>3, <2>4 DEF AccumTypes
  <2>6. ASSUME NEW i \in 1..Len(accum')
        PROVE  accum'[i] = due - offset - 1 + i
    <3>1. CASE i <= Len(accum)
      <4>1. i \in 1..Len(accum) /\ accum'[i] = accum[i]
        BY <2>3, <2>4, <3>1
      <4>2. QED
        BY <4>1 DEF Numbered
    <3>2. CASE ~(i <= Len(accum))
      <4>1. i - Len(accum) \in 1..FrameSamples
        BY <2>3, <2>4, <3>2
      <4>2. accum'[i] = made + (i - Len(accum))
        BY <2>2, <2>3, <3>2, <4>1
      <4>3. QED
        <5>1. Len(accum) - offset = made + 1 - due /\ i \in Nat
          BY <2>3, <2>4 DEF Numbered
        <5>2. QED
          BY <2>4, <4>2, <5>1
    <3>3. QED
      BY <3>1, <3>2
  <2>7. QED
    <3>0. Len(accum) - offset = made + 1 - due /\ gateAt < due - offset
      BY DEF Numbered
    <3>1. Len(accum') - offset' = made' + 1 - due'
      <4>1. Len(accum) + FrameSamples - offset = made + FrameSamples + 1 - due
        BY <2>4, <3>0
      <4>2. Len(accum') = Len(accum) + FrameSamples
        BY <2>3
      <4>3. offset' = offset /\ made' = made + FrameSamples /\ due' = due
        BY <2>1
      <4>4. QED
        BY <2>4, <4>1, <4>2, <4>3
    <3>2. QED
      BY <2>1, <2>5, <2>6, <3>0, <3>1 DEF Numbered
<1>4. CASE EncodeBlock
  <2> DEFINE end == offset + PacketSamples
  <2>1. /\ Advance(end) /\ due' = due + PacketSamples /\ UNCHANGED <<made, gateAt>>
        /\ end <= Len(accum)
    BY <1>4, LenProperties DEF EncodeBlock, Available, AccumTypes
  <2>2. Len(accum) \in Nat /\ offset \in 0..Len(accum) /\ made \in Nat /\ due \in Nat /\ gateAt \in Nat
    BY LenProperties DEF AccumTypes
  <2>3. CASE end >= 4 * PacketSamples
    <3>1. accum' = SubSeq(accum, end + 1, Len(accum)) /\ offset' = 0
      BY <2>1, <2>3 DEF Advance
    <3>2. end + 1 \in Int /\ Len(accum) \in Int /\ end + 1 >= 1 /\ Len(accum) <= Len(accum)
      BY <2>2
    <3>3. /\ accum' \in Seq(Nat) /\ Len(accum') = Len(accum) - end
          /\ \A i \in 1..Len(accum') : accum'[i] = accum[end + i]
      <4>1. end \in Nat /\ Len(accum) \in Nat /\ accum \in Seq(Nat)
        BY <2>2 DEF AccumTypes
      <4>2. QED
        BY <2>1, <3>1, <4>1, DrainFacts
    <3>4. AccumTypes'
      BY <2>1, <2>2, <3>1, <3>3 DEF AccumTypes
    <3>5. \A i \in 1..Len(accum') : accum'[i] = due' - offset' - 1 + i
      BY <2>1, <2>2, <3>1, <3>3 DEF Numbered
    <3>6. QED
      <4>0. Len(accum) - offset = made + 1 - due /\ gateAt < due - offset
        BY DEF Numbered
      <4>1. Len(accum') = Len(accum) - (offset + PacketSamples)
        BY <3>3
      <4>2. offset' = 0 /\ made' = made /\ gateAt' = gateAt /\ due' = due + PacketSamples
        BY <2>1, <3>1
      <4>3. PacketSamples \in Nat /\ offset \in Nat
        BY <2>2
      <4>4. /\ Len(accum) - (offset + PacketSamples) - 0 = made + 1 - (due + PacketSamples)
            /\ gateAt < due + PacketSamples - 0
        BY <2>2, <4>0, <4>3
      <4>5. Len(accum') - offset' = made' + 1 - due' /\ gateAt' < due' - offset'
        BY <4>1, <4>2, <4>4
      <4>6. QED
        BY <3>4, <3>5, <4>5 DEF Numbered
  <2>4. CASE ~(end >= 4 * PacketSamples)
    <3>1. accum' = accum /\ offset' = end
      BY <2>1, <2>4 DEF Advance
    <3>2. QED
      BY <2>1, <2>2, <3>1 DEF AccumTypes, Numbered
  <2>5. QED
    BY <2>3, <2>4
<1>5. CASE BlockFails
  BY LenProperties, <1>5 DEF BlockFails, Available, AccumTypes, Numbered
<1>6. CASE Finish
  BY <1>6 DEF Finish, AccumTypes, Numbered
<1>7. CASE UNCHANGED vars
  BY <1>7 DEF AccumTypes, Numbered, vars, squelchVars, accumVars, packVars
<1>8. QED
  BY <1>1, <1>2, <1>3, <1>4, <1>5, <1>6, <1>7 DEF Next

\* Packets and blocks keep their types.
LEMMA PackTypesStep ==
  ASSUME AccumTypes, Numbered, PackTypes, [Next]_vars
  PROVE  PackTypes'
<1> USE DEF squelchVars, accumVars, packVars
<1>1. CASE SetSquelch
  BY <1>1 DEF SetSquelch, PackTypes
<1>2. ASSUME NEW f \in Features, FrameGated(f)
      PROVE  PackTypes'
  BY <1>2 DEF FrameGated, PackTypes
<1>3. ASSUME NEW f \in Features, FrameHeard(f)
      PROVE  PackTypes'
  BY EmptySeq, <1>3 DEF FrameHeard, PackTypes
<1>4. CASE EncodeBlock
  <2>1. PICK block \in Block : Gather(block)
    BY <1>4, BlockFacts
  <2>2. gathered \in Seq(Block) /\ packets \in Seq(Seq(Block))
    BY DEF PackTypes
  <2>3. /\ Append(packets, gathered) \in Seq(Seq(Block)) /\ Append(gathered, block) \in Seq(Block)
        /\ <<block>> \in Seq(Block)
    BY <2>2, AppendProperties, OneBlock
  <2>4. UNCHANGED <<pc, failed>>
    BY <1>4 DEF EncodeBlock
  <2>5. QED
    BY <2>1, <2>2, <2>3, <2>4 DEF Gather, PackTypes
<1>5. CASE BlockFails
  BY EmptySeq, <1>5 DEF BlockFails, PackTypes
<1>6. CASE Finish
  BY AppendProperties, EmptySeq, <1>6 DEF Finish, PackTypes
<1>7. CASE UNCHANGED vars
  BY <1>7 DEF PackTypes, vars, squelchVars, accumVars, packVars
<1>8. QED
  BY <1>1, <1>2, <1>3, <1>4, <1>5, <1>6, <1>7 DEF Next

\* A call that returns leaves no block behind.
LEMMA GatheredStep ==
  ASSUME GatheredInCall, [Next]_vars
  PROVE  GatheredInCall'
<1> USE DEF squelchVars, accumVars, packVars, GatheredInCall
<1>1. CASE SetSquelch
  BY <1>1 DEF SetSquelch
<1>2. ASSUME NEW f \in Features, FrameGated(f)
      PROVE  GatheredInCall'
  BY <1>2 DEF FrameGated
<1>3. ASSUME NEW f \in Features, FrameHeard(f)
      PROVE  GatheredInCall'
  BY <1>3 DEF FrameHeard
<1>4. CASE EncodeBlock
  BY <1>4 DEF EncodeBlock
<1>5. CASE BlockFails
  BY <1>5 DEF BlockFails
<1>6. CASE Finish
  BY <1>6 DEF Finish
<1>7. CASE UNCHANGED vars
  BY <1>7 DEF vars, squelchVars, accumVars, packVars
<1>8. QED
  BY <1>1, <1>2, <1>3, <1>4, <1>5, <1>6, <1>7 DEF Next

\* Four encoded blocks are drained, unless the encoder failed.
LEMMA UndrainedStep ==
  ASSUME AccumTypes, PackTypes, Undrained, [Next]_vars
  PROVE  Undrained'
<1> USE DEF squelchVars, accumVars, packVars
<1>1. CASE SetSquelch
  BY <1>1 DEF SetSquelch, Undrained
<1>2. ASSUME NEW f \in Features, FrameGated(f)
      PROVE  Undrained'
  <2>1. offset' = 0 /\ pc' = "idle" /\ failed' = failed
    BY <1>2 DEF FrameGated, GateReset
  <2>2. 0 = 0 * PacketSamples /\ 0 \in 0..(3 + failed)
    BY DEF PackTypes
  <2>3. QED
    BY <2>1, <2>2 DEF Undrained
<1>3. ASSUME NEW f \in Features, FrameHeard(f)
      PROVE  Undrained'
  BY <1>3 DEF FrameHeard, Undrained
<1>4. CASE EncodeBlock
  <2>1. PICK k \in 0..(3 + failed) : offset = k * PacketSamples
    BY DEF Undrained
  <2>2. failed' = failed /\ failed \in Nat /\ offset + PacketSamples = (k + 1) * PacketSamples
    BY <1>4, <2>1, Multiples DEF EncodeBlock, PackTypes
  <2>3. CASE offset + PacketSamples >= 4 * PacketSamples
    <3>1. offset' = 0
      BY <1>4, <2>3 DEF EncodeBlock, Advance
    <3>2. 0 = 0 * PacketSamples /\ 0 \in 0..(3 + failed) /\ 0 <= 3 * PacketSamples
      BY <2>2
    <3>3. QED
      BY <2>2, <3>1, <3>2 DEF Undrained
  <2>4. CASE ~(offset + PacketSamples >= 4 * PacketSamples)
    <3>1. offset' = (k + 1) * PacketSamples
      BY <1>4, <2>2, <2>4 DEF EncodeBlock, Advance
    <3>2. k + 1 <= 3
      BY <2>1, <2>2, <2>4, Multiples
    <3>3. (k + 1) * PacketSamples <= 3 * PacketSamples /\ k + 1 \in 0..(3 + failed)
      BY <2>1, <2>2, <3>2, Multiples
    <3>4. QED
      BY <2>2, <3>1, <3>3 DEF Undrained
  <2>5. QED
    BY <2>3, <2>4
<1>5. CASE BlockFails
  <2>1. PICK k \in 0..(3 + failed) : offset = k * PacketSamples
    BY DEF Undrained
  <2>2. failed' = failed + 1 /\ failed \in Nat /\ pc' = "idle" /\ offset' = offset + PacketSamples
    BY <1>5 DEF BlockFails, PackTypes
  <2>3. offset' = (k + 1) * PacketSamples /\ k + 1 \in 0..(3 + failed')
    BY <2>1, <2>2, Multiples
  <2>4. QED
    BY <2>2, <2>3 DEF Undrained
<1>6. CASE Finish
  <2>1. PICK k \in 0..(3 + failed) : offset = k * PacketSamples
    BY DEF Undrained
  <2>2. /\ offset' = offset /\ pc = "packing" /\ pc' = "idle" /\ failed \in Nat
        /\ failed' = IF gathered = <<>> THEN failed ELSE 0
    BY <1>6 DEF Finish, PackTypes, accumVars
  <2>3. k \in 0..(3 + failed')
    <3>1. CASE gathered = <<>>
      BY <2>2, <3>1
    <3>2. CASE gathered # <<>>
      <4>1. k * PacketSamples <= 3 * PacketSamples
        BY <2>1, <2>2, <3>2 DEF Undrained
      <4>2. k <= 3
        BY <2>1, <2>2, <4>1, Multiples
      <4>3. QED
        BY <2>2, <3>2, <4>2
    <3>3. QED
      BY <3>1, <3>2
  <2>4. QED
    BY <2>1, <2>2, <2>3 DEF Undrained
<1>7. CASE UNCHANGED vars
  BY <1>7 DEF Undrained, vars, squelchVars, accumVars, packVars
<1>8. QED
  BY <1>1, <1>2, <1>3, <1>4, <1>5, <1>6, <1>7 DEF Next

\* A call that succeeds leaves less than a block unread.
LEMMA UnreadStep ==
  ASSUME AccumTypes, Numbered, AccumTypes', Numbered', PackTypes, Unread, [Next]_vars
  PROVE  Unread'
<1> DEFINE n == made + 1 - due
           factor == failed + (IF pc = "idle" THEN 0 ELSE 1)
<1>1. Available = n /\ Available' = n'
  BY DEF Available, Numbered
<1>2. n <= PacketSamples - 1 + FrameSamples * factor
  BY <1>1 DEF Unread
<1>3. /\ failed \in Nat /\ FrameSamples * failed \in Nat
      /\ FrameSamples * (failed + 1) = FrameSamples * failed + FrameSamples
      /\ FrameSamples * (failed + 0) = FrameSamples * failed
      /\ made \in Nat /\ due \in Nat
  BY DEF PackTypes, AccumTypes
<1>4. SUFFICES n' <= PacketSamples - 1 + FrameSamples * factor'
  BY <1>1 DEF Unread
<1>5. CASE SetSquelch
  BY <1>2, <1>5 DEF SetSquelch, accumVars, packVars
<1>6. ASSUME NEW f \in Features, FrameGated(f)
      PROVE  n' <= PacketSamples - 1 + FrameSamples * factor'
  <2>1. n' = 0 /\ factor' = failed + 0
    BY <1>3, <1>6 DEF FrameGated, GateReset
  <2>2. QED
    BY <1>3, <2>1
<1>7. ASSUME NEW f \in Features, FrameHeard(f)
      PROVE  n' <= PacketSamples - 1 + FrameSamples * factor'
  <2>1. n' = n + FrameSamples /\ factor = failed + 0 /\ factor' = failed + 1
    BY <1>3, <1>7 DEF FrameHeard
  <2>2. QED
    BY <1>2, <1>3, <2>1
<1>8. CASE EncodeBlock
  <2>1. n' = n - PacketSamples /\ factor' = factor
    BY <1>3, <1>8 DEF EncodeBlock
  <2>2. QED
    BY <1>2, <1>3, <2>1
<1>9. CASE BlockFails
  <2>1. n' = n - PacketSamples /\ factor = failed + 1 /\ factor' = failed + 1
    BY <1>3, <1>9 DEF BlockFails
  <2>2. QED
    BY <1>2, <1>3, <2>1
<1>10. CASE Finish
  <2>1. n < PacketSamples /\ n' = n /\ factor' \in Nat
    BY <1>1, <1>3, <1>10 DEF Finish, accumVars
  <2>2. FrameSamples * factor' \in Nat
    BY <2>1
  <2>3. QED
    BY <1>3, <2>1, <2>2
<1>11. CASE UNCHANGED vars
  BY <1>2, <1>11 DEF vars, accumVars, packVars
<1>12. QED
  BY <1>5, <1>6, <1>7, <1>8, <1>9, <1>10, <1>11 DEF Next

\* The blocks of a call hold samples made after the gate was closed.
LEMMA GateStep ==
  ASSUME AccumTypes, Numbered, PackTypes, GatheredInCall, NothingFromBeforeTheGate, [Next]_vars
  PROVE  NothingFromBeforeTheGate'
<1> USE DEF NothingFromBeforeTheGate
<1>1. CASE SetSquelch
  BY <1>1 DEF SetSquelch, AfterGate, accumVars, packVars
<1>2. ASSUME NEW f \in Features, FrameGated(f)
      PROVE  NothingFromBeforeTheGate'
  <2>1. packets' = <<>> /\ gathered' = <<>>
    BY <1>2 DEF FrameGated, GatheredInCall
  <2>2. QED
    BY <2>1
<1>3. ASSUME NEW f \in Features, FrameHeard(f)
      PROVE  NothingFromBeforeTheGate'
  <2>1. packets' = <<>> /\ gathered' = <<>>
    BY <1>3 DEF FrameHeard
  <2>2. QED
    BY <2>1
<1>4. CASE EncodeBlock
  <2>1. PICK block \in Block : Gather(block) /\ AfterGate(block)
    BY <1>4, BlockFacts
  <2>2. gateAt' = gateAt /\ gathered \in Seq(Block) /\ packets \in Seq(Seq(Block))
    BY <1>4 DEF EncodeBlock, PackTypes
  <2>3. \A b : AfterGate(b)' <=> AfterGate(b)
    BY <2>2 DEF AfterGate
  <2>4. CASE packets' = Append(packets, gathered) /\ gathered' = <<block>>
    <3>1. \A i \in DOMAIN gathered' : gathered'[i] = block
      BY <2>4, OneBlock
    <3>2. \A i \in DOMAIN packets' :
            packets'[i] = gathered \/ (i \in DOMAIN packets /\ packets'[i] = packets[i])
      BY <2>2, <2>4, EntriesOfAppend
    <3>3. QED
      BY <2>1, <2>2, <3>1, <3>2 DEF AfterGate
  <2>5. CASE gathered' = Append(gathered, block) /\ packets' = packets
    <3>1. \A i \in DOMAIN gathered' :
            gathered'[i] = block \/ (i \in DOMAIN gathered /\ gathered'[i] = gathered[i])
      BY <2>1, <2>2, <2>5, EntriesOfAppend
    <3>2. QED
      BY <2>1, <2>2, <2>5, <3>1 DEF AfterGate
  <2>6. QED
    BY <2>1, <2>4, <2>5 DEF Gather
<1>5. CASE BlockFails
  BY <1>5 DEF BlockFails
<1>6. CASE Finish
  <2>1. gathered' = <<>> /\ gateAt' = gateAt /\ gathered \in Seq(Block) /\ packets \in Seq(Seq(Block))
    BY <1>6 DEF Finish, PackTypes, accumVars
  <2>2. packets' = packets \/ packets' = Append(packets, gathered)
    BY <1>6 DEF Finish
  <2>3. \A i \in DOMAIN packets' :
          packets'[i] = gathered \/ (i \in DOMAIN packets /\ packets'[i] = packets[i])
    <3>1. CASE packets' = packets
      BY <3>1
    <3>2. CASE packets' = Append(packets, gathered)
      BY <2>1, <3>2, EntriesOfAppend
    <3>3. QED
      BY <2>2, <3>1, <3>2
  <2>4. QED
    BY <2>1, <2>3 DEF AfterGate
<1>7. CASE UNCHANGED vars
  BY <1>7 DEF vars, AfterGate, accumVars, packVars
<1>8. QED
  BY <1>1, <1>2, <1>3, <1>4, <1>5, <1>6, <1>7 DEF Next

\* Blocks are gathered in the order of their samples.
LEMMA OrderStep ==
  ASSUME AccumTypes, Numbered, PackTypes, GatheringOn, CodedInOrder, [Next]_vars
  PROVE  GatheringOn' /\ CodedInOrder'
<1>1. CASE SetSquelch \/ UNCHANGED vars
  BY <1>1 DEF SetSquelch, GatheringOn, CodedInOrder, vars, accumVars, packVars
<1>2. ASSUME NEW f \in Features, FrameGated(f)
      PROVE  GatheringOn' /\ CodedInOrder'
  BY <1>2 DEF FrameGated, GatheringOn, CodedInOrder
<1>3. ASSUME NEW f \in Features, FrameHeard(f)
      PROVE  GatheringOn' /\ CodedInOrder'
  <2>1. packets' = <<>> /\ gathered' = <<>>
    BY <1>3 DEF FrameHeard
  <2>2. Append(<<>>, <<>>) = <<<<>>>>
    OBVIOUS
  <2>3. InOrder(<<<<>>>>, due')
    BY DEF InOrder
  <2>4. QED
    BY <2>1, <2>2, <2>3 DEF GatheringOn, CodedInOrder
<1>4. CASE EncodeBlock
  <2>1. PICK block \in Block : /\ Gather(block)
                               /\ block.samples = [j \in 1..PacketSamples |-> due + j - 1]
    BY <1>4, BlockFacts
  <2>2. /\ pc = "packing" /\ due' = due + PacketSamples /\ due \in Nat
        /\ gathered \in Seq(Block) /\ packets \in Seq(Seq(Block))
    BY <1>4 DEF EncodeBlock, PackTypes, AccumTypes
  <2>3. InOrder(Append(packets, gathered), due) /\ Append(packets, gathered) \in Seq(Seq(Block))
    BY <2>2, AppendProperties DEF CodedInOrder
  <2>4. CASE packets' = Append(packets, gathered) /\ gathered' = <<block>>
    <3>1. InOrder(Append(packets', gathered'), due')
      BY <2>1, <2>2, <2>3, <2>4, OrderOfPacket
    <3>2. <<block>> # <<>>
      OBVIOUS
    <3>3. QED
      BY <2>4, <3>1, <3>2 DEF GatheringOn, CodedInOrder
  <2>5. CASE gathered' = Append(gathered, block) /\ packets' = packets
    <3>1. InOrder(Append(packets', gathered'), due')
      BY <2>1, <2>2, <2>3, <2>5, OrderOfBlock DEF GatheringOn
    <3>2. Append(gathered, block) # <<>>
      BY <2>2, AppendProperties
    <3>3. QED
      BY <2>5, <3>1, <3>2 DEF GatheringOn, CodedInOrder
  <2>6. QED
    BY <2>1, <2>4, <2>5 DEF Gather
<1>5. CASE BlockFails \/ Finish
  BY <1>5 DEF BlockFails, Finish, GatheringOn, CodedInOrder
<1>6. QED
  BY <1>1, <1>2, <1>3, <1>4, <1>5 DEF Next

\* A packet of several blocks is within the threshold when it goes out, as the
\* one being gathered is.
LEMMA SizeStep ==
  ASSUME PackTypes, SmallGathered, SmallPackets, [Next]_vars
  PROVE  SmallGathered' /\ SmallPackets'
<1>1. CASE gathered' = gathered /\ packets' = packets
  BY <1>1 DEF SmallGathered, SmallPackets
<1>2. CASE gathered' \in {<<>>, gathered} /\ packets' = <<>>
  BY <1>2, EmptyAccum DEF SmallGathered, SmallPackets
<1>3. ASSUME packets' = Append(packets, gathered)
      PROVE  SmallPackets'
  <2>1. \A i \in DOMAIN packets' :
          packets'[i] = gathered \/ (i \in DOMAIN packets /\ packets'[i] = packets[i])
    BY <1>3, EntriesOfAppend DEF PackTypes
  <2>2. QED
    BY <2>1 DEF SmallGathered, SmallPackets
<1>4. CASE EncodeBlock
  <2>1. PICK block \in [samples : {SubSeq(accum, offset + 1, offset + PacketSamples)}, size : BlockSizes] :
          Gather(block)
    BY <1>4 DEF EncodeBlock
  <2>2. CASE gathered' = Append(gathered, block) /\ packets' = packets
             /\ Size(Append(gathered, block)) <= SizeThreshold
    BY <2>2 DEF SmallGathered, SmallPackets
  <2>3. CASE packets' = Append(packets, gathered) /\ gathered' = <<block>>
    BY <1>3, <2>3 DEF SmallGathered
  <2>4. QED
    BY <2>1, <2>2, <2>3 DEF Gather
<1>5. CASE Finish
  <2>1. gathered' = <<>> /\ (packets' = packets \/ packets' = Append(packets, gathered))
    BY <1>5 DEF Finish
  <2>2. SmallPackets'
    BY <1>3, <2>1 DEF SmallPackets
  <2>3. QED
    BY <2>1, <2>2, EmptyAccum DEF SmallGathered
<1>6. QED
  BY <1>1, <1>2, <1>4, <1>5
     DEF Next, vars, packVars, SetSquelch, FrameGated, FrameHeard, BlockFails

\* An update counts the rows and decides by them.
LEMMA UpdateDecides ==
  ASSUME SquelchTypes, Counted, NEW f \in Features, SquelchStep(f)
  PROVE  Counted' /\ SquelchDecision'
<1> DEFINE k == Kind(f)
           a == Append(SinceFlip, k)
           t == Remember(f)
<1>1. /\ k \in Kinds /\ SinceFlip \in Seq(Kinds) /\ a \in Seq(Kinds) /\ a # <<>>
      /\ t \in Seq(Kinds) /\ t # <<>> /\ t[Len(t)] = k /\ t = Latest(a)
      /\ Before.open \in BOOLEAN
  BY AfterFacts, BeforeFields, RememberFacts DEF Remember
<1>2. /\ wasEnabled' = TRUE /\ wasOpen' = Before.open /\ recent' = t
      /\ open' = After(f).open /\ lowHits' = After(f).low /\ closeHits' = After(f).close
  BY DEF SquelchStep
<1>3. IF Before.open THEN Row(SinceFlip, Before.close, WeakKinds) ELSE Row(SinceFlip, Before.low, SoftKinds)
  <2>1. CASE ~wasEnabled
    <3>1. Before.open = FALSE /\ Before.low = 0 /\ SinceFlip = <<>>
      BY <2>1 DEF Before, Closed, SinceFlip
    <3>2. QED
      BY <3>1, EmptyRow
  <2>2. CASE wasEnabled /\ open = wasOpen
    <3>1. Before.open = open /\ Before.low = lowHits /\ Before.close = closeHits /\ SinceFlip = recent
      BY <2>2 DEF Before, Hits, SinceFlip
    <3>2. QED
      BY <2>2, <3>1 DEF Counted
  <2>3. CASE wasEnabled /\ open # wasOpen
    <3>1. Before.open = open /\ Before.low = 0 /\ Before.close = 0 /\ SinceFlip = <<>>
      BY <2>3 DEF Before, Hits, SinceFlip, Counted
    <3>2. QED
      BY <3>1, EmptyRow
  <2>4. QED
    BY <2>1, <2>2, <2>3
<1>4. /\ Before.low \in 0..(SoftHits - 1) /\ Before.close \in 0..(CloseHits - 1)
      /\ k.strong = Strong(f) /\ k.soft = Soft(f) /\ k.weak = Weak(f)
  <2>1. Before.low \in 0..(SoftHits - 1) /\ Before.close \in 0..(CloseHits - 1)
    BY BeforeFields
  <2>2. QED
    BY <2>1 DEF Kind
<1>5. /\ Opened.open = TRUE /\ Opened.low = 0 /\ Opened.close = 0
      /\ Closed.open = FALSE /\ Closed.low = 0 /\ Closed.close = 0
  BY DEF Opened, Closed
<1>6. Keep \in Nat /\ SoftHits <= Keep /\ CloseHits <= Keep
  BY DEF Keep
<1> HIDE DEF k, t, a
<1>7. SUFFICES /\ IF open' = Before.open
                    THEN IF open' THEN Row(t, closeHits', WeakKinds) ELSE Row(t, lowHits', SoftKinds)
                    ELSE lowHits' = 0 /\ closeHits' = 0
               /\ open' <=> \/ k.strong
                            \/ IF Before.open THEN ~InARow(CloseHits, WeakKinds)'
                                              ELSE InARow(SoftHits, SoftKinds)'
  <2>1. Counted'
    BY <1>1, <1>2, <1>7 DEF Counted
  <2>2. open' \in BOOLEAN
    BY <1>2, AfterFacts
  <2>3. SquelchDecision'
    BY <1>1, <1>2, <1>4, <1>7, <2>2 DEF SquelchDecision
  <2>4. QED
    BY <2>1, <2>3
<1>8. ASSUME NEW m \in Nat \ {0}, NEW n, NEW kinds, Row(t, n, kinds)
      PROVE  InARow(m, kinds)' <=> n >= m
  BY <1>1, <1>2, <1>8, RowDecides DEF InARow
<1>9. CASE Strong(f)
  <2>1. open' = TRUE /\ lowHits' = 0 /\ closeHits' = 0 /\ k.strong
    BY <1>2, <1>4, <1>5, <1>9 DEF After
  <2>2. ASSUME Before.open
        PROVE  Row(t, 0, WeakKinds)
    <3>1. k \notin WeakKinds
      BY <2>1 DEF WeakKinds
    <3>2. Row(a, 0, WeakKinds)
      BY <1>1, <1>3, <2>2, <3>1, RowOfAppend DEF a
    <3>3. 0 <= Keep
      BY <1>6
    <3>4. QED
      BY <1>1, <3>2, <3>3, RowOfLatest
  <2>3. QED
    BY <1>1, <2>1, <2>2
<1>10. CASE ~Strong(f) /\ Before.open
  <2> DEFINE n == IF Weak(f) THEN Before.close + 1 ELSE 0
  <2>1. After(f) = IF n >= CloseHits THEN Closed ELSE [Before EXCEPT !.close = n]
    BY <1>10 DEF After, WhenOpen
  <2>2. k \in WeakKinds <=> Weak(f)
    BY <1>1, <1>4, <1>10 DEF WeakKinds
  <2>3. Row(a, n, WeakKinds)
    BY <1>1, <1>3, <1>10, <2>2, RowOfAppend DEF a
  <2>4. n \in 0..CloseHits /\ n <= Keep
    BY <1>4, <1>6
  <2>5. Row(t, n, WeakKinds)
    BY <1>1, <2>3, <2>4, RowOfLatest
  <2> HIDE DEF n
  <2>6. InARow(CloseHits, WeakKinds)' <=> n >= CloseHits
    BY <1>8, <2>5
  <2>7. CASE n >= CloseHits
    BY <1>2, <1>4, <1>5, <1>10, <2>1, <2>6, <2>7
  <2>8. CASE ~(n >= CloseHits)
    <3>1. open' = TRUE /\ closeHits' = n
      BY <1>2, <1>10, <2>1, <2>8, BeforeFields
    <3>2. QED
      BY <1>4, <1>10, <2>5, <2>6, <2>8, <3>1
  <2>9. QED
    BY <2>7, <2>8
<1>11. CASE ~Strong(f) /\ ~Before.open
  <2> DEFINE n == IF Soft(f) THEN Before.low + 1 ELSE 0
  <2>1. After(f) = IF n >= SoftHits THEN Opened ELSE [Before EXCEPT !.low = n]
    BY <1>11 DEF After, WhenClosed
  <2>2. k \in SoftKinds <=> Soft(f)
    BY <1>1, <1>4 DEF SoftKinds
  <2>3. Row(a, n, SoftKinds)
    BY <1>1, <1>3, <1>11, <2>2, RowOfAppend DEF a
  <2>4. n \in 0..SoftHits /\ n <= Keep
    BY <1>4, <1>6
  <2>5. Row(t, n, SoftKinds)
    BY <1>1, <2>3, <2>4, RowOfLatest
  <2> HIDE DEF n
  <2>6. InARow(SoftHits, SoftKinds)' <=> n >= SoftHits
    BY <1>8, <2>5
  <2>7. CASE n >= SoftHits
    BY <1>2, <1>4, <1>5, <1>11, <2>1, <2>6, <2>7
  <2>8. CASE ~(n >= SoftHits)
    <3>1. open' = FALSE /\ lowHits' = n
      BY <1>1, <1>2, <1>11, <2>1, <2>8, BeforeFields
    <3>2. QED
      BY <1>1, <1>4, <1>11, <2>5, <2>6, <2>8, <3>1
  <2>9. QED
    BY <2>7, <2>8
<1>12. QED
  BY <1>1, <1>9, <1>10, <1>11

\* While the squelch is off nothing is counted, and no other step touches it.
LEMMA CountedStep ==
  ASSUME SquelchTypes, Counted, SquelchDecision, [Next]_vars
  PROVE  Counted' /\ SquelchDecision'
<1>1. ASSUME UNCHANGED squelchVars
      PROVE  Counted' /\ SquelchDecision'
  BY <1>1 DEF Counted, SquelchDecision, InARow, squelchVars
<1>2. ASSUME NEW f \in Features, FrameGated(f) \/ FrameHeard(f)
      PROVE  Counted' /\ SquelchDecision'
  <2>1. SquelchStep(f) \/ SquelchOff
    BY <1>2 DEF FrameGated, FrameHeard
  <2>2. CASE SquelchOff
    BY <2>2 DEF SquelchOff, Counted, SquelchDecision
  <2>3. QED
    BY <2>1, <2>2, UpdateDecides
<1>3. CASE SetSquelch \/ EncodeBlock \/ BlockFails \/ Finish
  BY <1>1, <1>3 DEF SetSquelch, EncodeBlock, BlockFails, Finish
<1>4. CASE UNCHANGED vars
  BY <1>1, <1>4 DEF vars
<1>5. QED
  BY <1>2, <1>3, <1>4 DEF Next

\* The invariant holds in every reachable state.
LEMMA InvariantHolds == Spec => []IInv
<1>1. Init => IInv
  BY InitInvariant
<1>2. IInv /\ [Next]_vars => IInv'
  <2> SUFFICES ASSUME IInv, [Next]_vars
               PROVE  IInv'
    OBVIOUS
  <2>1. /\ SquelchTypes /\ AccumTypes /\ PackTypes /\ Numbered /\ GatheredInCall
        /\ GatheringOn /\ CodedInOrder /\ SmallGathered /\ SmallPackets /\ Undrained /\ Unread
        /\ NothingFromBeforeTheGate /\ Counted /\ SquelchDecision
    BY DEF IInv, Types
  <2>2. AccumTypes' /\ Numbered'
    BY <2>1, AccumStep
  <2>3. Types'
    BY <2>1, <2>2, SquelchTypesStep, PackTypesStep DEF Types
  <2>4. GatheredInCall' /\ Undrained' /\ Unread'
    BY <2>1, <2>2, GatheredStep, UndrainedStep, UnreadStep
  <2>5. NothingFromBeforeTheGate' /\ Counted' /\ SquelchDecision'
    BY <2>1, GateStep, CountedStep
  <2>6. GatheringOn' /\ CodedInOrder'
    BY <2>1, OrderStep
  <2>7. SmallGathered' /\ SmallPackets'
    BY <2>1, SizeStep
  <2>8. QED
    BY <2>2, <2>3, <2>4, <2>5, <2>6, <2>7 DEF IInv
<1>3. QED
  BY <1>1, <1>2, PTL DEF Spec
-----------------------------------------------------------------------------
(* Theorems *)

\* However often the encoder fails, the accumulator holds at most three encoded
\* blocks and less than a block of unread samples, and one block and one frame
\* more for every call that failed since one last encoded a block and succeeded.
THEOREM AccumulatorBounded == Spec => []AccumBounded
<1>1. IInv => AccumBounded
  <2> SUFFICES ASSUME IInv
               PROVE  offset <= (3 + failed) * PacketSamples
    BY DEF IInv, Unread, AccumBounded
  <2>1. PICK k \in 0..(3 + failed) : offset = k * PacketSamples
    BY DEF IInv, Undrained
  <2>2. failed \in Nat
    BY DEF IInv, Types, PackTypes
  <2>3. QED
    BY <2>1, <2>2, Multiples
<1>2. QED
  BY <1>1, InvariantHolds, PTL

\* The variables keep their types, the counters of the squelch stay below the
\* hits that reset them; the unread samples of the accumulator are the ones that
\* are due, and the blocks encoded in a call are the ones before them, in order,
\* across packets too: draining and packing lose none and send none twice.  Only
\* a packet of one block exceeds the threshold.
THEOREM NoSampleSkipped == Spec => []StreamIntact
<1>1. IInv => TypeOK
  BY DEF IInv, Types, SquelchTypes, AccumTypes, PackTypes, TypeOK
<1>2. IInv => UnreadAreDue
  <2> SUFFICES ASSUME IInv
               PROVE  UnreadAreDue
    OBVIOUS
  <2> DEFINE t == SubSeq(accum, offset + 1, Len(accum))
             d == [i \in 1..(made + 1 - due) |-> due + i - 1]
  <2>1. AccumTypes /\ Numbered
    BY DEF IInv, Types
  <2>2. Len(accum) \in Nat /\ offset \in Nat /\ offset <= Len(accum) /\ due \in Nat /\ made \in Nat
    BY <2>1, LenProperties DEF AccumTypes
  <2>3. t \in Seq(Nat) /\ Len(t) = Len(accum) - offset /\ \A i \in 1..Len(t) : t[i] = accum[offset + i]
    BY <2>1, <2>2, DrainFacts DEF AccumTypes
  <2>4. Len(t) = made + 1 - due
    BY <2>1, <2>3 DEF Numbered
  <2> HIDE DEF t
  <2>5. ASSUME NEW i \in 1..Len(t)
        PROVE  t[i] = due + i - 1
    <3>1. offset + i \in 1..Len(accum) /\ t[i] = accum[offset + i]
      BY <2>2, <2>3
    <3>2. accum[offset + i] = due - offset - 1 + (offset + i)
      BY <2>1, <3>1 DEF Numbered
    <3>3. QED
      BY <2>2, <3>1, <3>2
  <2>6. t = [i \in 1..Len(t) |-> t[i]]
    BY <2>3
  <2>7. t = d
    BY <2>4, <2>5, <2>6
  <2>8. QED
    BY <2>7 DEF t, UnreadAreDue
<1>3. IInv => StreamIntact
  BY <1>1, <1>2 DEF IInv, StreamIntact
<1>4. QED
  BY <1>3, InvariantHolds, PTL

\* Once the squelch opens again nothing is sent that was demodulated before it
\* closed: closing discards what was not encoded yet.
THEOREM GateDiscards == Spec => []NothingFromBeforeTheGate
<1>1. IInv => NothingFromBeforeTheGate
  BY DEF IInv
<1>2. QED
  BY <1>1, InvariantHolds, PTL

\* The counters amount to looking back at the last frames: a strong frame opens
\* at once, SoftHits soft ones in a row open, CloseHits weak ones in a row close.
THEOREM DecidedByRows == Spec => []SquelchDecision
<1>1. IInv => SquelchDecision
  BY DEF IInv
<1>2. QED
  BY <1>1, InvariantHolds, PTL
=============================================================================
