--------------------------- MODULE ReceiverProofs ---------------------------
(***************************************************************************)
(* The two machines of a receiver.                                         *)
(*                                                                         *)
(* DspRunner: for every pool depth, channel capacity and length of the     *)
(* input, the buffer pools lose and duplicate nothing, none of the three   *)
(* threads ever waits in a send, and the DSP loop implements the           *)
(* overlapping stream of FrameStream.                                      *)
(*                                                                         *)
(* FftEngine, by the invariant of FftEngineInvariant: for every size and   *)
(* number of frames, on the CPU and both GPU back ends, whichever calls    *)
(* fail, an Ok frame has its own spectrum and the waterfall made of it,    *)
(* every GPU call is one its objects are ready for, and no object outlives *)
(* what it needs, but for the exceptions ObjectsInOrder names.             *)
(*                                                                         *)
(* The order is: the threads; sequences and paths; the scripts; objects;   *)
(* what each action does to the invariant of the engine; its theorems; the *)
(* levels of a waterfall, by induction over them; what a kernel or loop    *)
(* makes of a buffer; the way of a waterfall through a script; what each   *)
(* action does to it.                                                      *)
(***************************************************************************)
EXTENDS DspRunner, FftEngineInvariant, SequenceTheorems, WellFoundedInduction, TLAPS

\* The thread budget fixes which threads and channels are in use.
Modes ==
  /\ ~Threaded => filled = <<>> /\ dspPc # "giveBack"
  /\ ~Offloaded => work = <<>> /\ dspPc \notin {"take", "post"}

\* The half-frames the DSP thread has taken from the stream.
Taken == IF dspPc = "loadA" THEN 0 ELSE IF dspPc = "loadB" THEN 1 ELSE halfB

\* The stream is in the threads without a gap: what the DSP thread took, then
\* what is in filled, then what the reader is about to send.
Contiguous ==
  DspAlive =>
    /\ dspPc = "loadA" => halfA = 0 /\ halfB = 0
    /\ dspPc = "loadB" => halfA = 1 /\ halfB = 0
    /\ dspPc \notin {"loadA", "loadB"} => halfB # 0
    /\ \A i \in 1..Len(filled) : filled[i] = Taken + i
    /\ nread = Taken + Len(filled) + (IF readerPc = "send" THEN 1 ELSE 0)

\* The waterfall frames are on their way in order.
Ordered ==
  /\ wfSent <= frameNum
  /\ \A i \in 1..Len(work) : wfSent <= work[i] /\ work[i] < frameNum
  /\ \A i, j \in 1..Len(work) : i < j => work[i] < work[j]
  /\ workerPc = "send" => /\ wfSent <= job /\ job < frameNum
                          /\ \A i \in 1..Len(work) : job < work[i]

IInv == /\ TypeOK /\ Modes
        /\ PoolConserved /\ SpectraConserved
        /\ Contiguous /\ Ordered
-----------------------------------------------------------------------------
\* While both threads run a sample buffer is in exactly one place, so a send
\* always finds room.
LEMMA RoomForAll == TypeOK /\ Modes /\ PoolConserved /\ SpectraConserved => NoSendBlocks
<1> USE DepthAssumption, BoundAssumption DEF Threaded, Offloaded
<1>1. ASSUME TypeOK, Modes, PoolConserved, dspPc = "giveBack", readerPc # "ended"
      PROVE  free < PoolDepth
  BY <1>1 DEF TypeOK, Modes, PoolConserved, DspAlive, DspHolds, ReaderHolds
<1>2. ASSUME TypeOK, Modes, PoolConserved, readerPc = "send", DspAlive
      PROVE  Len(filled) < PoolDepth
  BY <1>2 DEF TypeOK, Modes, PoolConserved, DspAlive, DspHolds, ReaderHolds, DspPC
<1>3. ASSUME TypeOK, Modes, SpectraConserved, workerPc = "return", DspAlive
      PROVE  wfFree < WfPool
  BY <1>3 DEF TypeOK, Modes, SpectraConserved, SpectrumHeld, WorkerHolds
<1>4. ASSUME TypeOK, Modes, SpectraConserved, dspPc = "post"
      PROVE  wfFree < WfPool
  BY <1>4 DEF TypeOK, Modes, SpectraConserved, DspAlive, SpectrumHeld, WorkerHolds
<1>5. QED
  BY <1>1, <1>2, <1>3, <1>4 DEF NoSendBlocks

\* A step that touches neither channel of the worker nor a held spectrum.
LEMMA SpectraKept ==
  ASSUME SpectraConserved, UNCHANGED <<wfFree, work, workerPc>>,
         DspAlive' => DspAlive, dspPc' = "post" <=> dspPc = "post"
  PROVE  SpectraConserved'
<1> USE DepthAssumption, BoundAssumption DEF Threaded, Offloaded
<1>1. SpectrumHeld' = SpectrumHeld /\ WorkerHolds' = WorkerHolds
  BY DEF SpectrumHeld, WorkerHolds
<1>2. QED
  BY <1>1 DEF SpectraConserved

\* The initial states of both modes.
LEMMA InitIInv == Init => IInv
<1> USE DepthAssumption, BoundAssumption DEF Threaded, Offloaded
<1>1. SUFFICES ASSUME Init
               PROVE  IInv
  OBVIOUS
<1>2. TypeOK
  BY <1>1 DEF Init, TypeOK, ReaderPC, DspPC, WorkerPC
<1>3. Modes
  BY <1>1 DEF Init, Modes
<1>4. PoolConserved /\ SpectraConserved
  BY <1>1 DEF Init, PoolConserved, SpectraConserved, DspAlive, DspHolds,
              ReaderHolds, SpectrumHeld, WorkerHolds
<1>5. Contiguous /\ Ordered
  BY <1>1 DEF Init, Contiguous, Ordered, DspAlive, Taken
<1>6. QED
  BY <1>2, <1>3, <1>4, <1>5 DEF IInv

\* The reader: it takes a free buffer, fills it and hands it on.
LEMMA ReaderKeeps ==
  ASSUME IInv, ReaderStep
  PROVE  IInv'
<1> USE DepthAssumption, BoundAssumption DEF Threaded, Offloaded
<1> USE DEF IInv
<1>1. CASE ReaderRecv
  <2> USE <1>1 DEF ReaderRecv, dspVars, workVars
  <2>1. TypeOK'
    BY DEF TypeOK, ReaderPC
  <2>2. Modes'
    BY DEF Modes
  <2>3. PoolConserved' /\ SpectraConserved'
    <3>1. PoolConserved'
      BY SMTT(30) DEF TypeOK, PoolConserved, DspAlive, DspHolds, ReaderHolds
    <3>2. SpectraConserved'
      BY SpectraKept DEF DspAlive
    <3>3. QED
      BY <3>1, <3>2
  <2>4. Contiguous' /\ Ordered'
    BY DEF Contiguous, Ordered, DspAlive, Taken
  <2>5. QED
    BY <2>1, <2>2, <2>3, <2>4
<1>2. CASE ReaderRead
  <2> USE <1>2 DEF ReaderRead, dspVars, workVars
  <2>1. TypeOK'
    BY DEF TypeOK, ReaderPC
  <2>2. Modes'
    BY DEF Modes
  <2>3. PoolConserved' /\ SpectraConserved'
    <3>1. PoolConserved'
      BY SMTT(30) DEF TypeOK, PoolConserved, DspAlive, DspHolds, ReaderHolds
    <3>2. SpectraConserved'
      BY SpectraKept DEF DspAlive
    <3>3. QED
      BY <3>1, <3>2
  <2>4. Contiguous'
    <3>1. ASSUME DspAlive
          PROVE  nread' = Taken' + Len(filled') + 1
      <4>1. Taken \in Nat /\ Len(filled) \in Nat
        BY DEF TypeOK, Taken
      <4>2. nread = Taken + Len(filled) + 0
        BY <3>1 DEF Contiguous
      <4>3. Taken' = Taken
        BY DEF Taken
      <4>4. QED
        BY <4>1, <4>2, <4>3
    <3>2. QED
      BY <3>1 DEF Contiguous, DspAlive, Taken
  <2>5. Ordered'
    BY DEF Ordered
  <2>6. QED
    BY <2>1, <2>2, <2>3, <2>4, <2>5
<1>3. CASE ReaderFail \/ ReaderDisconnected
  <2> USE <1>3 DEF ReaderFail, ReaderDisconnected, dspVars, workVars
  <2>1. TypeOK'
    BY DEF TypeOK, ReaderPC
  <2>2. Modes'
    BY DEF Modes
  <2>3. PoolConserved' /\ SpectraConserved'
    BY DEF PoolConserved, SpectraConserved, DspAlive, SpectrumHeld, WorkerHolds
  <2>4. Contiguous' /\ Ordered'
    BY DEF Contiguous, Ordered, DspAlive, Taken
  <2>5. QED
    BY <2>1, <2>2, <2>3, <2>4
<1>4. CASE ReaderSend
  <2>1. Len(filled) < PoolDepth
    BY <1>4, RoomForAll DEF NoSendBlocks, ReaderSend
  <2>2. filled' = Append(filled, nread) /\ free' = free
    BY <1>4, <2>1 DEF ReaderSend
  <2> USE <1>4, <2>2 DEF ReaderSend, dspVars, workVars
  <2>3. filled' \in Seq(Nat) /\ Len(filled') = Len(filled) + 1
    BY DEF TypeOK
  <2>4. TypeOK'
    BY <2>1, <2>3 DEF TypeOK, ReaderPC
  <2>5. Modes'
    BY DEF Modes
  <2>6. PoolConserved' /\ SpectraConserved'
    <3>1. PoolConserved'
      BY <2>3 DEF TypeOK, PoolConserved, DspAlive, DspHolds, ReaderHolds
    <3>2. SpectraConserved'
      BY SpectraKept DEF DspAlive
    <3>3. QED
      BY <3>1, <3>2
  <2>7. nread = Taken + Len(filled) + 1 /\ Taken' = Taken
    BY DEF Contiguous, Taken
  <2>8. \A i \in 1..Len(filled') :
          filled'[i] = IF i <= Len(filled) THEN filled[i] ELSE nread
    BY <2>3 DEF TypeOK
  <2>9. Contiguous'
    <3>1. Taken \in Nat /\ Len(filled) \in Nat /\ nread' = nread
      BY DEF TypeOK, Taken
    <3>2. \A i \in 1..Len(filled') : filled'[i] = Taken + i
      <4>1. \A i \in 1..Len(filled) : filled[i] = Taken + i
        BY DEF Contiguous
      <4>2. ASSUME NEW i \in 1..Len(filled')
            PROVE  filled'[i] = Taken + i
        <5>1. i \in 1..Len(filled) \/ i = Len(filled) + 1
          BY <2>3, <3>1
        <5>2. filled'[i] = IF i <= Len(filled) THEN filled[i] ELSE nread
          BY ONLY <2>8
        <5>3. nread = Taken + (Len(filled) + 1)
          BY <2>7, <3>1
        <5>4. QED
          BY ONLY <3>1, <4>1, <5>1, <5>2, <5>3
      <4>3. QED
        BY ONLY <4>2
    <3>3. nread' = Taken + Len(filled')
      BY <2>3, <2>7, <3>1
    <3>4. QED
      BY <2>7, <3>2, <3>3 DEF Contiguous, DspAlive
  <2>10. Ordered'
    BY DEF Ordered
  <2>11. QED
    BY <2>4, <2>5, <2>6, <2>9, <2>10
<1>5. QED
  BY <1>1, <1>2, <1>3, <1>4 DEF ReaderStep

\* The next half-frame of a DSP step is the one after those it has taken, and
\* the channel stays contiguous behind it.
LEMMA NextInStream ==
  ASSUME IInv, DspAlive, NEW h \in Halves, NextHalf(h)
  PROVE  /\ h = Taken + 1 /\ h \in Nat
         /\ filled' \in Seq(Nat) /\ Len(filled') <= PoolDepth
         /\ Threaded => Len(filled') = Len(filled) - 1
         /\ ~Threaded => filled' = <<>>
         /\ \A i \in 1..Len(filled') : filled'[i] = h + i
         /\ nread' \in Nat
         /\ nread' = h + Len(filled') + (IF readerPc = "send" THEN 1 ELSE 0)
<1> USE DepthAssumption, BoundAssumption DEF Threaded, Offloaded
<1> USE DEF IInv
<1>0. Taken \in Nat /\ Len(filled) \in Nat
  BY DEF TypeOK, Taken
<1>1. CASE Threaded
  <2>1. filled # <<>> /\ h = Head(filled) /\ filled' = Tail(filled) /\ nread' = nread
    BY <1>1 DEF NextHalf
  <2>2. /\ Len(filled) >= 1 /\ h = filled[1]
        /\ filled' \in Seq(Nat) /\ Len(filled') = Len(filled) - 1
        /\ \A i \in 1..Len(filled') : filled'[i] = filled[i + 1]
    BY <2>1, HeadTailProperties, EmptySeq DEF TypeOK
  <2>3. h = Taken + 1
    BY <1>0, <2>2 DEF Contiguous
  <2>4. \A i \in 1..Len(filled') : filled'[i] = h + i
    BY <1>0, <2>2, <2>3 DEF Contiguous
  <2>5. nread' = h + Len(filled') + (IF readerPc = "send" THEN 1 ELSE 0)
    <3>1. nread = Taken + Len(filled) + (IF readerPc = "send" THEN 1 ELSE 0)
      BY DEF Contiguous
    <3>2. CASE readerPc = "send"
      BY <1>0, <2>1, <2>2, <2>3, <3>1, <3>2
    <3>3. CASE readerPc # "send"
      BY <1>0, <2>1, <2>2, <2>3, <3>1, <3>3
    <3>4. QED
      BY <3>2, <3>3
  <2>6. QED
    BY <1>0, <1>1, <2>1, <2>2, <2>3, <2>4, <2>5 DEF TypeOK
<1>2. CASE ~Threaded
  <2>1. filled = <<>> /\ filled' = <<>> /\ h = nread + 1 /\ nread' = nread + 1
    BY <1>2 DEF NextHalf, Modes
  <2>2. nread = Taken
    BY <1>0, <1>2, <2>1 DEF Contiguous
  <2>3. QED
    BY <1>0, <1>2, <2>1, <2>2 DEF TypeOK
<1>3. QED
  BY <1>1, <1>2

\* The DSP thread takes half-frames and returns their buffers.
LEMMA DspTakesKeeps ==
  ASSUME IInv, LoadA \/ LoadB \/ Shift
  PROVE  IInv'
<1> USE DepthAssumption, BoundAssumption DEF Threaded, Offloaded
<1> USE DEF IInv
<1>1. CASE LoadA
  <2>1. PICK h \in Halves : NextHalf(h) /\ halfA' = h
    BY <1>1 DEF LoadA
  <2>2. DspAlive
    BY <1>1 DEF LoadA, DspAlive
  <2> USE <1>1, <2>1, <2>2, NextInStream DEF LoadA, dspVars, workVars
  <2>3. TypeOK'
    BY DEF TypeOK, DspPC
  <2>4. Modes'
    BY DEF Modes
  <2>5. PoolConserved'
    <3>1. ASSUME Threaded, readerPc # "ended"
          PROVE  PoolConserved'
      <4>1. DspHolds = 0 /\ DspHolds' = DspHolds + 1 /\ ReaderHolds' = ReaderHolds
        BY <3>1 DEF DspHolds, ReaderHolds
      <4>2. Len(filled') = Len(filled) - 1 /\ free' = free
        BY <3>1
      <4>3. free + Len(filled) + ReaderHolds + DspHolds = PoolDepth
        BY <3>1 DEF PoolConserved
      <4>4. Len(filled) \in Nat /\ free \in Nat /\ ReaderHolds \in Nat
        BY DEF TypeOK, ReaderHolds
      <4>5. QED
        BY ONLY <4>1, <4>2, <4>3, <4>4 DEF PoolConserved
    <3>2. QED
      BY <3>1 DEF PoolConserved
  <2>6. SpectraConserved' /\ Ordered'
    BY DEF SpectraConserved, DspAlive, SpectrumHeld, WorkerHolds, Ordered
  <2>7. Contiguous'
    BY SMTT(30) DEF TypeOK, Contiguous, DspAlive, Taken
  <2>8. QED
    BY <2>3, <2>4, <2>5, <2>6, <2>7
<1>2. CASE LoadB
  <2>1. PICK h \in Halves : NextHalf(h) /\ halfB' = h
    BY <1>2 DEF LoadB
  <2>2. DspAlive
    BY <1>2 DEF LoadB, DspAlive
  <2> USE <1>2, <2>1, <2>2, NextInStream DEF LoadB, dspVars, workVars
  <2>3. TypeOK'
    BY DEF TypeOK, DspPC
  <2>4. Modes'
    BY DEF Modes
  <2>5. PoolConserved'
    <3>1. ASSUME Threaded, readerPc # "ended"
          PROVE  PoolConserved'
      <4>1. DspHolds = 1 /\ DspHolds' = DspHolds + 1 /\ ReaderHolds' = ReaderHolds
        BY <3>1 DEF DspHolds, ReaderHolds
      <4>2. Len(filled') = Len(filled) - 1 /\ free' = free
        BY <3>1
      <4>3. free + Len(filled) + ReaderHolds + DspHolds = PoolDepth
        BY <3>1 DEF PoolConserved
      <4>4. Len(filled) \in Nat /\ free \in Nat /\ ReaderHolds \in Nat
        BY DEF TypeOK, ReaderHolds
      <4>5. QED
        BY ONLY <4>1, <4>2, <4>3, <4>4 DEF PoolConserved
    <3>2. QED
      BY <3>1 DEF PoolConserved
  <2>6. SpectraConserved' /\ Ordered'
    BY DEF SpectraConserved, DspAlive, SpectrumHeld, WorkerHolds, Ordered
  <2>7. Contiguous'
    BY SMTT(30) DEF TypeOK, Contiguous, DspAlive, Taken
  <2>8. QED
    BY <2>3, <2>4, <2>5, <2>6, <2>7
<1>3. CASE Shift
  <2>1. PICK h \in Halves : NextHalf(h) /\ halfA' = halfB /\ halfB' = h
    BY <1>3 DEF Shift
  <2>2. DspAlive
    BY <1>3 DEF Shift, DspAlive
  <2> USE <1>3, <2>1, <2>2, NextInStream DEF Shift, dspVars, workVars
  <2>3. TypeOK'
    BY DEF TypeOK, DspPC
  <2>4. Modes'
    BY DEF Modes
  <2>5. PoolConserved'
    <3>1. ASSUME Threaded, readerPc # "ended"
          PROVE  PoolConserved'
      <4>1. DspHolds = 2 /\ DspHolds' = DspHolds + 1 /\ ReaderHolds' = ReaderHolds
        BY <3>1 DEF DspHolds, ReaderHolds
      <4>2. Len(filled') = Len(filled) - 1 /\ free' = free
        BY <3>1
      <4>3. free + Len(filled) + ReaderHolds + DspHolds = PoolDepth
        BY <3>1 DEF PoolConserved
      <4>4. Len(filled) \in Nat /\ free \in Nat /\ ReaderHolds \in Nat
        BY DEF TypeOK, ReaderHolds
      <4>5. QED
        BY ONLY <4>1, <4>2, <4>3, <4>4 DEF PoolConserved
    <3>2. QED
      BY <3>1 DEF PoolConserved
  <2>6. SpectraConserved' /\ Ordered'
    BY DEF SpectraConserved, DspAlive, SpectrumHeld, WorkerHolds, Ordered
  <2>7. Contiguous'
    BY SMTT(30) DEF TypeOK, Contiguous, DspAlive, Taken
  <2>8. QED
    BY <2>3, <2>4, <2>5, <2>6, <2>7
<1>4. QED
  BY <1>1, <1>2, <1>3

\* The frame counter only grows: what is on its way stays in order.
LEMMA OrderedKept ==
  ASSUME TypeOK, Ordered, UNCHANGED <<work, workerPc, job, wfSent>>,
         frameNum' \in Nat, frameNum' >= frameNum
  PROVE  Ordered'
<1> USE DepthAssumption, BoundAssumption DEF Threaded, Offloaded
<1>1. /\ frameNum \in Nat /\ job \in Nat /\ wfSent \in Nat
      /\ \A i \in 1..Len(work) : work[i] \in Nat
  BY DEF TypeOK
<1>2. QED
  BY <1>1 DEF Ordered

\* The DSP thread returns a buffer, skips a frame or ends.
LEMMA DspPlainKeeps ==
  ASSUME IInv, GiveBack \/ InputEnds \/ FftFails \/ FrameIdle \/ FrameAudioOnly
  PROVE  IInv'
<1> USE DepthAssumption, BoundAssumption DEF Threaded, Offloaded
<1> USE DEF IInv, dspVars, workVars, poolVars
<1>1. CASE GiveBack
  <2> USE <1>1 DEF GiveBack
  <2>1. TypeOK'
    BY DEF TypeOK, DspPC
  <2>2. Modes' /\ SpectraConserved' /\ Contiguous' /\ Ordered'
    BY DEF Modes, SpectraConserved, Contiguous, Ordered, DspAlive, Taken,
           SpectrumHeld, WorkerHolds
  <2>3. PoolConserved'
    BY DEF TypeOK, PoolConserved, DspAlive, DspHolds, ReaderHolds
  <2>4. QED
    BY <2>1, <2>2, <2>3
<1>2. CASE InputEnds \/ FftFails
  <2> USE <1>2 DEF InputEnds, FftFails
  <2>1. TypeOK'
    BY DEF TypeOK, DspPC
  <2>2. QED
    BY <2>1 DEF Modes, PoolConserved, SpectraConserved, Contiguous, Ordered, DspAlive
<1>3. CASE FrameIdle \/ FrameAudioOnly
  <2> USE <1>3 DEF FrameIdle, FrameAudioOnly
  <2>1. TypeOK'
    <3>1. dspPc' \in DspPC /\ frameNum' \in Nat
      BY DEF TypeOK, DspPC
    <3>2. UNCHANGED <<poolVars, halfA, halfB, workVars>>
      OBVIOUS
    <3>3. QED
      BY <3>1, <3>2 DEF TypeOK
  <2>2. Modes' /\ PoolConserved' /\ SpectraConserved'
    BY DEF Modes, PoolConserved, SpectraConserved, DspAlive, DspHolds,
           ReaderHolds, SpectrumHeld, WorkerHolds
  <2>3. Contiguous'
    BY DEF Contiguous, DspAlive, Taken
  <2>4. frameNum' \in Nat /\ frameNum' >= frameNum /\ UNCHANGED workVars
    BY SMTT(30) DEF TypeOK
  <2>5. Ordered'
    BY <2>4, OrderedKept
  <2>6. QED
    BY <2>1, <2>2, <2>3, <2>5
<1>4. QED
  BY <1>1, <1>2, <1>3

\* A waterfall frame: sent in place, skipped or handed to the worker.
LEMMA DspWaterfallKeeps ==
  ASSUME IInv, FrameWaterfall \/ TakeSpectrum \/ PostJob
  PROVE  IInv'
<1> USE DepthAssumption, BoundAssumption DEF Threaded, Offloaded
<1> USE DEF IInv, dspVars, workVars, poolVars
<1>1. CASE FrameWaterfall
  <2> USE <1>1 DEF FrameWaterfall
  <2>1. TypeOK'
    <3>1. /\ dspPc' \in DspPC /\ frameNum' \in Nat /\ wfSent' \in Nat
      BY DEF TypeOK, DspPC
    <3>2. QED
      BY <3>1 DEF TypeOK
  <2>2. Modes' /\ PoolConserved' /\ SpectraConserved'
    BY DEF Modes, PoolConserved, SpectraConserved, DspAlive, DspHolds,
           ReaderHolds, SpectrumHeld, WorkerHolds
  <2>3. Contiguous'
    BY DEF Contiguous, DspAlive, Taken
  <2>4. CASE Offloaded
    <3>1. Ordered'
      BY <2>4 DEF Ordered
    <3>2. QED
      BY <2>1, <2>2, <2>3, <3>1
  <2>5. CASE ~Offloaded
    <3>1. work = <<>> /\ work' = <<>> /\ workerPc' = "none"
      BY <2>5 DEF Modes
    <3>2. Ordered'
      BY <2>5, <3>1 DEF TypeOK, Ordered
    <3>3. QED
      BY <2>1, <2>2, <2>3, <3>2
  <2>6. QED
    BY <2>1, <2>2, <2>3, <2>4, <2>5
<1>2. CASE TakeSpectrum
  <2> USE <1>2 DEF TakeSpectrum
  <2>1. TypeOK'
    BY DEF TypeOK, DspPC
  <2>2. Modes' /\ PoolConserved'
    BY DEF Modes, PoolConserved, DspAlive, DspHolds, ReaderHolds
  <2>3. SpectraConserved'
    <3>1. WorkerHolds' = WorkerHolds /\ SpectrumHeld = 0
      BY DEF WorkerHolds, SpectrumHeld
    <3>2. CASE wfFree > 0
      <4>1. SpectrumHeld' = 1 /\ wfFree' = wfFree - 1
        BY <3>2 DEF SpectrumHeld
      <4>2. QED
        BY <3>1, <4>1 DEF TypeOK, SpectraConserved, DspAlive, WorkerHolds
    <3>3. CASE ~(wfFree > 0)
      BY <3>3, SpectraKept DEF DspAlive
    <3>4. QED
      BY <3>2, <3>3
  <2>4. Contiguous'
    BY DEF Contiguous, DspAlive, Taken
  <2>5. /\ frameNum' \in Nat /\ frameNum' >= frameNum
        /\ UNCHANGED <<work, workerPc, job, wfSent>>
    BY DEF TypeOK
  <2>6. Ordered'
    BY <2>5, OrderedKept
  <2>7. QED
    BY <2>1, <2>2, <2>3, <2>4, <2>6
<1>3. CASE PostJob
  <2> USE <1>3 DEF PostJob
  <2>1. Modes' /\ PoolConserved'
    BY DEF Modes, PoolConserved, DspAlive, DspHolds, ReaderHolds
  <2>2. Contiguous'
    BY DEF Contiguous, DspAlive, Taken
  <2>3. CASE Len(work) < WorkDepth
    <3>1. work' = Append(work, frameNum) /\ wfFree' = wfFree
      BY <2>3
    <3>2. /\ work' \in Seq(Nat) /\ Len(work') = Len(work) + 1
          /\ Len(work) \in Nat
          /\ \A i \in 1..Len(work') :
               work'[i] = IF i <= Len(work) THEN work[i] ELSE frameNum
      BY <3>1 DEF TypeOK
    <3>3. TypeOK'
      BY <2>3, <3>1, <3>2, SMTT(30) DEF TypeOK, DspPC
    <3>4. SpectraConserved'
      BY <3>1, <3>2, SMTT(30)
         DEF TypeOK, SpectraConserved, DspAlive, SpectrumHeld, WorkerHolds
    <3>5. /\ frameNum \in Nat /\ frameNum' = frameNum + 1
          /\ job \in Nat /\ wfSent \in Nat
          /\ \A i \in 1..Len(work) : work[i] \in Nat
      BY DEF TypeOK
    <3>6. \A i \in 1..Len(work') : wfSent' <= work'[i] /\ work'[i] < frameNum'
      BY <3>2, <3>5, SMTT(30) DEF Ordered
    <3>7. \A i, j \in 1..Len(work') : i < j => work'[i] < work'[j]
      BY <3>2, <3>5, SMTT(30) DEF Ordered
    <3>8. Ordered'
      BY <3>2, <3>5, <3>6, <3>7, SMTT(30) DEF Ordered
    <3>9. QED
      BY <2>1, <2>2, <3>3, <3>4, <3>8
  <2>4. CASE ~(Len(work) < WorkDepth)
    <3>1. work' = work /\ wfFree' = wfFree + 1 /\ frameNum' = frameNum + 1
      BY <2>4
    <3>2. TypeOK'
      BY <3>1 DEF TypeOK, DspPC
    <3>3. SpectraConserved'
      BY <3>1 DEF TypeOK, SpectraConserved, DspAlive, SpectrumHeld, WorkerHolds
    <3>4. frameNum' \in Nat /\ frameNum' >= frameNum
      BY <3>1 DEF TypeOK
    <3>5. Ordered'
      BY <3>1, <3>4, OrderedKept
    <3>6. QED
      BY <2>1, <2>2, <3>2, <3>3, <3>5
  <2>5. QED
    BY <2>3, <2>4
<1>4. QED
  BY <1>1, <1>2, <1>3

\* The worker takes the oldest job, sends its frame and returns its buffer.
LEMMA WorkerKeeps ==
  ASSUME IInv, WorkerStep
  PROVE  IInv'
<1> USE DepthAssumption, BoundAssumption DEF Threaded, Offloaded
<1> USE DEF IInv, dspVars, poolVars
<1>1. CASE WorkerTake
  <2> USE <1>1 DEF WorkerTake
  <2>1. /\ Len(work) >= 1 /\ job' = work[1] /\ job' \in Nat
        /\ work' \in Seq(Nat) /\ Len(work') = Len(work) - 1
        /\ \A i \in 1..Len(work') : work'[i] = work[i + 1]
    BY HeadTailProperties, EmptySeq DEF TypeOK
  <2>2. TypeOK'
    BY <2>1 DEF TypeOK, WorkerPC
  <2>3. Modes' /\ PoolConserved' /\ Contiguous'
    BY <2>1 DEF Modes, PoolConserved, Contiguous, DspAlive, DspHolds, ReaderHolds, Taken
  <2>4. SpectraConserved'
    BY <2>1 DEF TypeOK, SpectraConserved, DspAlive, SpectrumHeld, WorkerHolds
  <2>5. Len(work) \in Nat /\ \A i \in 1..Len(work) : work[i] \in Nat
    BY DEF TypeOK
  <2>6. Ordered'
    BY <2>1, <2>5 DEF Ordered
  <2>7. QED
    BY <2>2, <2>3, <2>4, <2>6
<1>2. CASE WorkerSend
  <2> USE <1>2 DEF WorkerSend
  <2>1. TypeOK'
    BY DEF TypeOK, WorkerPC
  <2>2. Modes' /\ PoolConserved' /\ SpectraConserved' /\ Contiguous'
    BY DEF Modes, PoolConserved, SpectraConserved, Contiguous, DspAlive,
           DspHolds, ReaderHolds, SpectrumHeld, WorkerHolds, Taken
  <2>3. job \in Nat /\ frameNum \in Nat /\ \A i \in 1..Len(work) : work[i] \in Nat
    BY DEF TypeOK
  <2>4. Ordered'
    BY <2>3 DEF Ordered
  <2>5. QED
    BY <2>1, <2>2, <2>4
<1>3. CASE WorkerReturn
  <2> USE <1>3 DEF WorkerReturn
  <2>1. wfFree' \in Nat
    BY DEF TypeOK
  <2>2. TypeOK'
    BY <2>1 DEF TypeOK, WorkerPC
  <2>3. Modes' /\ PoolConserved' /\ Contiguous' /\ Ordered'
    BY DEF Modes, PoolConserved, Contiguous, Ordered, DspAlive,
           DspHolds, ReaderHolds, Taken
  <2>4. SpectraConserved'
    <3>1. SpectrumHeld' = SpectrumHeld /\ WorkerHolds = 1 /\ WorkerHolds' = 0
      BY DEF SpectrumHeld, WorkerHolds
    <3>2. QED
      BY <3>1 DEF TypeOK, SpectraConserved, DspAlive, SpectrumHeld
  <2>5. QED
    BY <2>2, <2>3, <2>4
<1>4. CASE WorkerEnds
  <2> USE <1>4 DEF WorkerEnds
  <2>1. TypeOK'
    BY DEF TypeOK, WorkerPC
  <2>2. Modes' /\ PoolConserved' /\ Contiguous' /\ Ordered' /\ SpectraConserved'
    BY DEF Modes, PoolConserved, Contiguous, Ordered, SpectraConserved, DspAlive
  <2>3. QED
    BY <2>1, <2>2
<1>5. QED
  BY <1>1, <1>2, <1>3, <1>4 DEF WorkerStep
-----------------------------------------------------------------------------
\* Every step of the three threads keeps the invariant, ...
LEMMA StepIInv == IInv /\ [Next]_vars => IInv'
<1> USE DepthAssumption, BoundAssumption DEF Threaded, Offloaded
<1>1. CASE UNCHANGED vars
  BY <1>1 DEF vars, poolVars, dspVars, workVars, IInv, TypeOK, Modes,
     PoolConserved, SpectraConserved, Contiguous, Ordered, DspAlive, DspHolds,
     ReaderHolds, SpectrumHeld, WorkerHolds, Taken
<1>2. QED
  BY <1>1, ReaderKeeps, DspTakesKeeps, DspPlainKeeps, DspWaterfallKeeps, WorkerKeeps
     DEF Next, DspStep

\* ... and so it holds for ever.
LEMMA InvariantIInv == Spec => []IInv
  BY InitIInv, StepIInv, PTL DEF Spec

\* Every channel stays within its capacity.
THEOREM TypeCorrect == Spec => []TypeOK
<1> USE DepthAssumption, BoundAssumption DEF Threaded, Offloaded
<1>1. IInv => TypeOK
  BY DEF IInv
<1>2. QED
  BY <1>1, InvariantIInv, PTL

\* No sample buffer is lost or duplicated while both threads run.
THEOREM SamplePoolConserved == Spec => []PoolConserved
<1> USE DepthAssumption, BoundAssumption DEF Threaded, Offloaded
<1>1. IInv => PoolConserved
  BY DEF IInv
<1>2. QED
  BY <1>1, InvariantIInv, PTL

\* No spectrum buffer is lost or duplicated while the DSP thread runs.
THEOREM SpectrumPoolConserved == Spec => []SpectraConserved
<1> USE DepthAssumption, BoundAssumption DEF Threaded, Offloaded
<1>1. IInv => SpectraConserved
  BY DEF IInv
<1>2. QED
  BY <1>1, InvariantIInv, PTL

\* No thread of a receiver ever waits in a send.
THEOREM SendsFindRoom == Spec => []NoSendBlocks
<1> USE DepthAssumption, BoundAssumption DEF Threaded, Offloaded
<1>1. IInv => NoSendBlocks
  BY RoomForAll DEF IInv
<1>2. QED
  BY <1>1, InvariantIInv, PTL

\* Waterfall frames leave in frame order.
THEOREM FramesInOrder == Spec => WaterfallInOrder
<1> USE DepthAssumption, BoundAssumption DEF Threaded, Offloaded
<1>1. ASSUME IInv, [Next]_vars
      PROVE  [wfSent' # wfSent => wfSent' > wfSent]_vars
  <2>1. SUFFICES ASSUME Next, wfSent' # wfSent
                 PROVE  wfSent' > wfSent
    BY <1>1 DEF vars
  <2>2. FrameWaterfall \/ WorkerSend
    BY <2>1 DEF Next, ReaderStep, DspStep, WorkerStep, ReaderRecv, ReaderRead,
       ReaderFail, ReaderSend, ReaderDisconnected, LoadA, LoadB, InputEnds, Shift,
       GiveBack, FrameIdle, FftFails, FrameAudioOnly, TakeSpectrum, PostJob,
       WorkerTake, WorkerReturn, WorkerEnds, workVars
  <2>3. QED
    BY <1>1, <2>1, <2>2 DEF IInv, TypeOK, Ordered, FrameWaterfall, WorkerSend
<1>2. QED
  BY <1>1, InvariantIInv, PTL DEF Spec, WaterfallInOrder

\* Every step of the three threads is a step of FrameStream or a stutter.
LEMMA StreamSteps == Spec => Stream!StreamSpec
<1> USE DepthAssumption, BoundAssumption DEF Threaded, Offloaded
<1>1. Init => Stream!StreamInit
  BY DEF Init, Stream!StreamInit
<1>2. ASSUME IInv, [Next]_vars
      PROVE  [Stream!StreamNext]_Stream!stream
  <2>1. SUFFICES ASSUME Next, ~UNCHANGED <<halfA, halfB>>
                 PROVE  Stream!StreamNext
    BY <1>2 DEF vars, dspVars, Stream!stream
  <2>2. LoadA \/ LoadB \/ Shift
    BY <2>1 DEF Next, ReaderStep, DspStep, WorkerStep, ReaderRecv, ReaderRead,
       ReaderFail, ReaderSend, ReaderDisconnected, InputEnds,
       GiveBack, FrameIdle, FftFails, FrameAudioOnly, FrameWaterfall, TakeSpectrum,
       PostJob, WorkerTake, WorkerSend, WorkerReturn, WorkerEnds, dspVars
  <2>3. CASE LoadA
    <3>1. PICK h \in Halves : NextHalf(h) /\ halfA' = h
      BY <2>3 DEF LoadA
    <3>2. h = Taken + 1
      BY <1>2, <2>3, <3>1, NextInStream DEF LoadA, DspAlive
    <3>3. QED
      BY <1>2, <2>3, <3>1, <3>2
         DEF LoadA, IInv, Contiguous, DspAlive, Taken, Stream!StreamNext, Stream!LoadFirst
  <2>4. CASE LoadB
    <3>1. PICK h \in Halves : NextHalf(h) /\ halfB' = h
      BY <2>4 DEF LoadB
    <3>2. h = Taken + 1
      BY <1>2, <2>4, <3>1, NextInStream DEF LoadB, DspAlive
    <3>3. QED
      BY <1>2, <2>4, <3>1, <3>2
         DEF LoadB, IInv, Contiguous, DspAlive, Taken, Stream!StreamNext, Stream!LoadSecond
  <2>5. CASE Shift
    <3>1. PICK h \in Halves : NextHalf(h) /\ halfA' = halfB /\ halfB' = h
      BY <2>5 DEF Shift
    <3>2. h = Taken + 1
      BY <1>2, <2>5, <3>1, NextInStream DEF Shift, DspAlive
    <3>3. QED
      BY <1>2, <2>5, <3>1, <3>2
         DEF Shift, IInv, Contiguous, DspAlive, Taken, Stream!StreamNext, Stream!Advance
  <2>6. QED
    BY <2>2, <2>3, <2>4, <2>5
<1>3. QED
  BY <1>1, <1>2, InvariantIInv, PTL DEF Spec, Stream!StreamSpec

\* The DSP loop, with all its channels, drops and error paths, implements the
\* overlapping stream: no half-frame is skipped, repeated or reordered.
THEOREM StreamImplemented == Spec => ImplementsStream
  BY StreamSteps DEF ImplementsStream
-----------------------------------------------------------------------------
USE SizeAssumption, LevelsAssumption, FramesAssumption

(* FFT engine: sequences and paths *)

\* What a sequence is, whatever its elements.
LEMMA SequenceFacts ==
  ASSUME NEW s, Sequence(s)
  PROVE  /\ Len(s) \in Nat /\ DOMAIN s = 1 .. Len(s)
         /\ s # <<>> <=> Len(s) > 0
         /\ s = <<>> <=> Len(s) = 0
BY DEF Sequence

\* A sequence of elements of S is a sequence of its own elements.
LEMMA TightSequence ==
  ASSUME NEW S, NEW s \in Seq(S)
  PROVE  Sequence(s)
<1> DEFINE R == {s[i] : i \in DOMAIN s}
<1>1. Len(s) \in Nat /\ DOMAIN s = 1 .. Len(s) /\ s \in [1 .. Len(s) -> S]
  OBVIOUS
<1>2. s \in [1 .. Len(s) -> R]
  BY <1>1
<1>3. s \in UNION {[1 .. n -> R] : n \in Nat}
  BY <1>1, <1>2
<1> QED
  BY <1>3, SeqDef DEF Sequence

\* What is left of a script or a queue when its first element is taken.
LEMMA TailSequence ==
  ASSUME NEW s, Sequence(s), s # <<>>
  PROVE  /\ Sequence(Tail(s)) /\ Head(s) = s[1] /\ Len(Tail(s)) = Len(s) - 1
         /\ \A i \in 1 .. Len(s) - 1 : Tail(s)[i] = s[i + 1]
<1> DEFINE S == {s[i] : i \in DOMAIN s}
<1>1. s \in Seq(S) /\ s # <<>>
  BY DEF Sequence
<1>2. /\ Head(s) = s[1] /\ Len(Tail(s)) = Len(s) - 1
      /\ Tail(s) \in Seq(S)
      /\ \A i \in 1 .. Len(s) - 1 : Tail(s)[i] = s[i + 1]
  BY <1>1
<1> QED
  BY <1>2, TightSequence

\* A function on 1 .. n is a sequence of length n.
LEMMA MakeSequence ==
  ASSUME NEW n \in Nat, NEW s, DOMAIN s = 1 .. n, s = [i \in 1 .. n |-> s[i]]
  PROVE  Sequence(s) /\ Len(s) = n
<1> DEFINE S == {s[i] : i \in DOMAIN s}
<1>1. s \in [1 .. n -> S]
  OBVIOUS
<1>2. s \in UNION {[1 .. m -> S] : m \in Nat}
  BY <1>1
<1>3. s \in Seq(S)
  BY <1>2, SeqDef
<1>4. Len(s) = n
  BY <1>3
<1> QED
  BY <1>3, <1>4, TightSequence

\* One script after another: its length and its elements.
LEMMA ConcatSequence ==
  ASSUME NEW s, NEW t, Sequence(s), Sequence(t)
  PROVE  /\ Sequence(s \o t) /\ Len(s \o t) = Len(s) + Len(t)
         /\ \A i \in 1 .. Len(s) + Len(t) :
              (s \o t)[i] = IF i <= Len(s) THEN s[i] ELSE t[i - Len(s)]
<1> DEFINE S == {s[i] : i \in DOMAIN s} \cup {t[i] : i \in DOMAIN t}
<1>1. s \in Seq(S) /\ t \in Seq(S)
  BY SequenceFacts DEF Sequence
<1>2. /\ s \o t \in Seq(S) /\ Len(s \o t) = Len(s) + Len(t)
      /\ \A i \in 1 .. Len(s) + Len(t) :
              (s \o t)[i] = IF i <= Len(s) THEN s[i] ELSE t[i - Len(s)]
  BY <1>1
<1> QED
  BY <1>2, TightSequence

\* The empty script leads from each stage to itself ...
LEMMA PathNil ==
  ASSUME NEW a \in Stages
  PROVE  Path(<<>>, a, a)
<1> DEFINE st == [i \in 1 .. 1 |-> a]
<1>1. Sequence(<<>>) /\ Len(<<>>) = 0
  BY DEF Sequence
<1>2. st \in [1 .. 1 -> Stages] /\ st[1] = a
  OBVIOUS
<1>3. st \in [1 .. Len(<<>>) + 1 -> Stages] /\ st[1] = a /\ st[Len(<<>>) + 1] = a
  BY <1>1, <1>2
<1>4. \A i \in 1 .. Len(<<>>) : Leads(<<>>[i], st[i], st[i + 1])
  BY <1>1
<1> QED
  BY <1>1, <1>3, <1>4 DEF Path

\* ... and nowhere else.
LEMMA PathEnd ==
  ASSUME NEW a, NEW b, Path(<<>>, a, b)
  PROVE  a = b
BY DEF Path, Sequence

\* A script of one call.
LEMMA PathOne ==
  ASSUME NEW c, NEW a \in Stages, NEW b \in Stages, Leads(c, a, b)
  PROVE  Path(<<c>>, a, b)
<1> DEFINE st == [i \in 1 .. 2 |-> IF i = 1 THEN a ELSE b]
<1>1. Sequence(<<c>>) /\ Len(<<c>>) = 1 /\ <<c>>[1] = c
  BY DEF Sequence
<1>2. st \in [1 .. Len(<<c>>) + 1 -> Stages] /\ st[1] = a /\ st[Len(<<c>>) + 1] = b
  BY <1>1
<1>3. \A i \in 1 .. Len(<<c>>) : Leads(<<c>>[i], st[i], st[i + 1])
  BY <1>1
<1> QED
  BY <1>1, <1>2, <1>3 DEF Path

\* Scripts that meet in a stage make a longer one.
LEMMA PathConcat ==
  ASSUME NEW s, NEW t, NEW a, NEW b, NEW c, Path(s, a, b), Path(t, b, c)
  PROVE  Path(s \o t, a, c)
<1>1. PICK p \in [1 .. Len(s) + 1 -> Stages] :
        /\ p[1] = a /\ p[Len(s) + 1] = b
        /\ \A i \in 1 .. Len(s) : Leads(s[i], p[i], p[i + 1])
  BY DEF Path
<1>2. PICK q \in [1 .. Len(t) + 1 -> Stages] :
        /\ q[1] = b /\ q[Len(t) + 1] = c
        /\ \A i \in 1 .. Len(t) : Leads(t[i], q[i], q[i + 1])
  BY DEF Path
<1> DEFINE n == Len(s)
           m == Len(t)
           st == [i \in 1 .. n + m + 1 |-> IF i <= n + 1 THEN p[i] ELSE q[i - n]]
<1>3. Sequence(s) /\ Sequence(t) /\ n \in Nat /\ m \in Nat
  BY SequenceFacts DEF Path
<1>4. /\ Sequence(s \o t) /\ Len(s \o t) = n + m
      /\ \A i \in 1 .. n + m : (s \o t)[i] = IF i <= n THEN s[i] ELSE t[i - n]
  BY <1>3, ConcatSequence
<1>5. st \in [1 .. n + m + 1 -> Stages]
  BY <1>3
<1>6. st[1] = a /\ st[n + m + 1] = c
  BY <1>1, <1>2, <1>3
<1>7. \A i \in 1 .. n + m : Leads((s \o t)[i], st[i], st[i + 1])
  <2> SUFFICES ASSUME NEW i \in 1 .. n + m
               PROVE  Leads((s \o t)[i], st[i], st[i + 1])
    OBVIOUS
  <2>1. CASE i <= n
    BY <2>1, <1>1, <1>3, <1>4
  <2>2. CASE i > n
    <3>1. (s \o t)[i] = t[i - n] /\ i - n \in 1 .. m
      BY <2>2, <1>3, <1>4
    <3>2. st[i] = q[i - n]
      BY <2>2, <1>1, <1>2, <1>3
    <3>3. st[i + 1] = q[i - n + 1]
      BY <2>2, <1>1, <1>2, <1>3
    <3> QED
      BY <3>1, <3>2, <3>3, <1>2
  <2> QED
    BY <2>1, <2>2, <1>3
<1> QED
  BY <1>4, <1>5, <1>6, <1>7 DEF Path

\* A script whose calls all stay in one stage.
LEMMA PathLoop ==
  ASSUME NEW s, Sequence(s), NEW a \in Stages, \A i \in DOMAIN s : Leads(s[i], a, a)
  PROVE  Path(s, a, a)
<1> DEFINE st == [i \in 1 .. Len(s) + 1 |-> a]
<1>1. Len(s) \in Nat /\ DOMAIN s = 1 .. Len(s)
  BY SequenceFacts
<1>2. st \in [1 .. Len(s) + 1 -> Stages] /\ st[1] = a /\ st[Len(s) + 1] = a
  BY <1>1
<1>3. \A i \in 1 .. Len(s) : Leads(s[i], st[i], st[i + 1])
  BY <1>1
<1> QED
  BY <1>2, <1>3 DEF Path

\* A call taken from a script leaves a path from the stage it leads to.
LEMMA PathStep ==
  ASSUME NEW s, NEW a, NEW b, Path(s, a, b), s # <<>>
  PROVE  \E m \in Stages : Leads(Head(s), a, m) /\ Path(Tail(s), m, b)
<1>1. PICK p \in [1 .. Len(s) + 1 -> Stages] :
        /\ p[1] = a /\ p[Len(s) + 1] = b
        /\ \A i \in 1 .. Len(s) : Leads(s[i], p[i], p[i + 1])
  BY DEF Path
<1>2. /\ Sequence(Tail(s)) /\ Head(s) = s[1] /\ Len(Tail(s)) = Len(s) - 1
      /\ \A i \in 1 .. Len(s) - 1 : Tail(s)[i] = s[i + 1]
  BY TailSequence DEF Path
<1>3. Len(s) \in Nat \ {0}
  BY SequenceFacts DEF Path
<1> DEFINE n == Len(s)
           q == [i \in 1 .. n |-> p[i + 1]]
<1>4. q \in [1 .. n -> Stages] /\ q[1] = p[2] /\ q[n] = b
  BY <1>1, <1>3
<1>5. \A i \in 1 .. n - 1 : Leads(Tail(s)[i], q[i], q[i + 1])
  BY <1>1, <1>2, <1>3
<1>6. Path(Tail(s), p[2], b)
  <2>1. q \in [1 .. Len(Tail(s)) + 1 -> Stages] /\ q[1] = p[2] /\ q[Len(Tail(s)) + 1] = b
    BY <1>2, <1>3, <1>4
  <2>2. \A i \in 1 .. Len(Tail(s)) : Leads(Tail(s)[i], q[i], q[i + 1])
    BY <1>2, <1>5
  <2> QED
    BY <1>2, <2>1, <2>2 DEF Path
<1>7. p[2] \in Stages /\ Leads(Head(s), a, p[2])
  BY <1>1, <1>2, <1>3
<1> QED
  BY <1>6, <1>7

\* A script of two calls, ...
LEMMA PathTwo ==
  ASSUME NEW c1, NEW c2,
         NEW a \in Stages, NEW b \in Stages, NEW c \in Stages,
         Leads(c1, a, b), Leads(c2, b, c)
  PROVE  Path(<<c1, c2>>, a, c)
<1> DEFINE s == <<c1, c2>>
           st == [i \in 1 .. 3 |-> IF i = 1 THEN a ELSE IF i = 2 THEN b ELSE c]
<1>1. Sequence(s) /\ Len(s) = 2 /\ s[1] = c1 /\ s[2] = c2
  BY DEF Sequence
<1>2. st \in [1 .. 3 -> Stages] /\ st[1] = a /\ st[2] = b /\ st[3] = c
  OBVIOUS
<1> HIDE DEF s, st
<1>3. \A i \in 1 .. Len(s) : Leads(s[i], st[i], st[i + 1])
  <2> SUFFICES ASSUME NEW i \in 1 .. 2 PROVE Leads(s[i], st[i], st[i + 1])
    BY <1>1
  <2>1. CASE i = 1
    BY <2>1, <1>1, <1>2
  <2>2. CASE i = 2
    BY <2>2, <1>1, <1>2
  <2> QED
    BY <2>1, <2>2
<1>4. Path(s, a, c)
  BY <1>1, <1>2, <1>3 DEF Path
<1> QED
  BY <1>4 DEF s

\* ... of three, ...
LEMMA PathThree ==
  ASSUME NEW c1, NEW c2, NEW c3,
         NEW a \in Stages, NEW b \in Stages, NEW c \in Stages, NEW d \in Stages,
         Leads(c1, a, b), Leads(c2, b, c), Leads(c3, c, d)
  PROVE  Path(<<c1, c2, c3>>, a, d)
<1> DEFINE s == <<c1, c2, c3>>
           st == [i \in 1 .. 4 |-> IF i = 1 THEN a ELSE IF i = 2 THEN b ELSE IF i = 3 THEN c ELSE d]
<1>1. Sequence(s) /\ Len(s) = 3 /\ s[1] = c1 /\ s[2] = c2 /\ s[3] = c3
  BY DEF Sequence
<1>2. st \in [1 .. 4 -> Stages] /\ st[1] = a /\ st[2] = b /\ st[3] = c /\ st[4] = d
  OBVIOUS
<1> HIDE DEF s, st
<1>3. \A i \in 1 .. Len(s) : Leads(s[i], st[i], st[i + 1])
  <2> SUFFICES ASSUME NEW i \in 1 .. 3 PROVE Leads(s[i], st[i], st[i + 1])
    BY <1>1
  <2>1. CASE i = 1
    BY <2>1, <1>1, <1>2
  <2>2. CASE i = 2
    BY <2>2, <1>1, <1>2
  <2>3. CASE i = 3
    BY <2>3, <1>1, <1>2
  <2> QED
    BY <2>1, <2>2, <2>3
<1>4. Path(s, a, d)
  BY <1>1, <1>2, <1>3 DEF Path
<1> QED
  BY <1>4 DEF s

\* ... and of four.
LEMMA PathFour ==
  ASSUME NEW c1, NEW c2, NEW c3, NEW c4,
         NEW a \in Stages, NEW b \in Stages, NEW c \in Stages, NEW d \in Stages, NEW e \in Stages,
         Leads(c1, a, b), Leads(c2, b, c), Leads(c3, c, d), Leads(c4, d, e)
  PROVE  Path(<<c1, c2, c3, c4>>, a, e)
<1> DEFINE s == <<c1, c2, c3, c4>>
           st == [i \in 1 .. 5 |-> IF i = 1 THEN a ELSE IF i = 2 THEN b ELSE IF i = 3 THEN c
                                   ELSE IF i = 4 THEN d ELSE e]
<1>1. Sequence(s) /\ Len(s) = 4 /\ s[1] = c1 /\ s[2] = c2 /\ s[3] = c3 /\ s[4] = c4
  BY DEF Sequence
<1>2. st \in [1 .. 5 -> Stages] /\ st[1] = a /\ st[2] = b /\ st[3] = c /\ st[4] = d /\ st[5] = e
  OBVIOUS
<1> HIDE DEF s, st
<1>3. \A i \in 1 .. Len(s) : Leads(s[i], st[i], st[i + 1])
  <2> SUFFICES ASSUME NEW i \in 1 .. 4 PROVE Leads(s[i], st[i], st[i + 1])
    BY <1>1
  <2>1. CASE i = 1
    BY <2>1, <1>1, <1>2
  <2>2. CASE i = 2
    BY <2>2, <1>1, <1>2
  <2>3. CASE i = 3
    BY <2>3, <1>1, <1>2
  <2>4. CASE i = 4
    BY <2>4, <1>1, <1>2
  <2> QED
    BY <2>1, <2>2, <2>3, <2>4
<1>4. Path(s, a, e)
  BY <1>1, <1>2, <1>3 DEF Path
<1> QED
  BY <1>4 DEF s
-----------------------------------------------------------------------------
(* FFT engine: the scripts are paths *)

\* copy_in and flush put the samples before the device.
LEMMA UploadPath ==
  /\ Path(VkUpload, <<"idle", "raw">>, <<"idle", "raw_there">>)
  /\ Path(VkUpload, <<"idle", "windowed">>, <<"idle", "windowed_there">>)
  /\ Path(VkUpload, <<"idle", "any">>, <<"idle", "any">>)
<1> USE DEF Uses, Contents
<1>1. \A y \in {<<"raw", "raw_in">>, <<"windowed", "windowed_in">>, <<"any", "any">>} :
        Leads(<<"copy_in">>, <<"idle", y[1]>>, <<"idle", y[2]>>)
  BY DEF Leads, UseStep, ContentStep, VkContent, CpuCalls, IdleCalls
<1>2. \A y \in {<<"raw_in", "raw_there">>, <<"windowed_in", "windowed_there">>, <<"any", "any">>} :
        Leads(<<"flush", "fft">>, <<"idle", y[1]>>, <<"idle", y[2]>>)
  BY DEF Leads, UseStep, ContentStep, VkContent, CpuCalls, IdleCalls
<1>3. \A d \in {"raw", "raw_in", "raw_there", "windowed", "windowed_in", "windowed_there", "any"} :
        <<"idle", d>> \in Stages
  BY DEF Stages
<1>4. Path(VkUpload, <<"idle", "raw">>, <<"idle", "raw_there">>)
  BY ONLY <1>1, <1>2, <1>3, PathTwo DEF VkUpload
<1>5. Path(VkUpload, <<"idle", "windowed">>, <<"idle", "windowed_there">>)
  BY ONLY <1>1, <1>2, <1>3, PathTwo DEF VkUpload
<1>6. Path(VkUpload, <<"idle", "any">>, <<"idle", "any">>)
  BY ONLY <1>1, <1>2, <1>3, PathTwo DEF VkUpload
<1> QED
  BY <1>4, <1>5, <1>6

\* Fence and command buffer reset, and the buffer recording.
LEMMA BeginPath ==
  ASSUME NEW d \in {"any", "raw_there", "windowed_there", "spectrum_there"}
  PROVE  Path(Begin, <<"idle", d>>, <<"begun", d>>)
<1> USE DEF Uses, Contents
<1>1. Leads(<<"reset_fences">>, <<"idle", d>>, <<"unsig", d>>)
  BY DEF Leads, UseStep, ContentStep, VkContent, CpuCalls
<1>2. Leads(<<"reset_cmd">>, <<"unsig", d>>, <<"initial", d>>)
  BY DEF Leads, UseStep, ContentStep, VkContent, CpuCalls
<1>3. Leads(<<"begin">>, <<"initial", d>>, <<"begun", d>>)
  BY DEF Leads, UseStep, ContentStep, VkContent, CpuCalls
<1>4. \A x \in {"idle", "unsig", "initial", "begun"} : <<x, d>> \in Stages
  BY DEF Stages
<1> QED
  BY ONLY <1>1, <1>2, <1>3, <1>4, PathThree DEF Begin

\* What was recorded is ended, submitted and waited for.
LEMMA RunPath ==
  ASSUME NEW d, NEW e,
         <<d, e>> \in {<<"any", "any">>, <<"owed", "spectrum_there">>,
                       <<"spectrum_there", "spectrum_there">>}
  PROVE  Path(Run, <<"recorded", d>>, <<"idle", e>>)
<1> USE DEF Uses, Contents
<1>0. /\ d \in {"any", "owed", "spectrum_there"} /\ e \in {"any", "spectrum_there"}
      /\ d = "any" <=> e = "any"
  OBVIOUS
<1>1. Leads(<<"end">>, <<"recorded", d>>, <<"executable", d>>)
  BY <1>0 DEF Leads, UseStep, ContentStep, VkContent, CpuCalls
<1>2. Leads(<<"submit">>, <<"executable", d>>, <<"submitted", d>>)
  BY <1>0 DEF Leads, UseStep, ContentStep, VkContent, CpuCalls
<1>3. Leads(<<"wait">>, <<"submitted", d>>, <<"idle", e>>)
  BY <1>0 DEF Leads, UseStep, ContentStep, VkContent, CpuCalls
<1>4. \A x \in {"recorded", "executable", "submitted"} : <<x, d>> \in Stages
  BY <1>0 DEF Stages
<1>5. <<"idle", e>> \in Stages
  BY <1>0 DEF Stages
<1> QED
  BY ONLY <1>1, <1>2, <1>3, <1>4, <1>5, PathThree DEF Run

\* The kernels of the levels leave the spectrum alone.
LEMMA PyramidFacts ==
  ASSUME NEW n, NEW base
  PROVE  /\ Sequence(PyramidCmds(n, base)) /\ PyramidCmds(n, base) # <<>>
         /\ \A i \in DOMAIN PyramidCmds(n, base) :
              PyramidCmds(n, base)[i].op \in VkKernels /\ Spares(PyramidCmds(n, base)[i])
<1> DEFINE s == PyramidCmds(n, base)
<1>1. DOMAIN s = 1 .. 3 * Levels /\ s = [i \in 1 .. 3 * Levels |-> s[i]] /\ 3 * Levels \in Nat
  BY DEF PyramidCmds
<1>2. Sequence(s) /\ Len(s) = 3 * Levels
  BY ONLY <1>1, MakeSequence
<1>3. s # <<>>
  BY ONLY <1>2, LevelsAssumption, SequenceFacts
<1>4. ASSUME NEW i \in 1 .. 3 * Levels
      PROVE  s[i].op \in VkKernels /\ Spares(s[i])
  <2>1. CASE i % 3 = 1
    <3>1. s[i] = LevelCmd(n, base, i \div 3)
      BY <2>1 DEF PyramidCmds
    <3> QED
      BY <3>1 DEF LevelCmd, PowerCmd, HalfCmd, VkKernels, Spares
  <2>2. CASE i % 3 = 2
    <3>1. s[i] = Barrier("power")
      BY <2>2 DEF PyramidCmds
    <3> QED
      BY <3>1 DEF Barrier, VkKernels, Spares
  <2>3. CASE i % 3 = 0
    <3>1. s[i] = Barrier("quant")
      BY <2>3 DEF PyramidCmds
    <3> QED
      BY <3>1 DEF Barrier, VkKernels, Spares
  <2> QED
    BY <2>1, <2>2, <2>3
<1> QED
  BY <1>1, <1>2, <1>3, <1>4

\* They can be recorded while the spectrum is on the device.
LEMMA PyramidPath ==
  ASSUME NEW n, NEW base, NEW d \in {"any", "spectrum_there"}
  PROVE  Path(<< <<"record", PyramidCmds(n, base)>> >>, <<"begun", d>>, <<"recorded", d>>)
<1> DEFINE c == <<"record", PyramidCmds(n, base)>>
<1>1. c[1] = "record" /\ c[2] = PyramidCmds(n, base)
  OBVIOUS
<1>2. UseStep(c, "begun", "recorded")
  BY <1>1, PyramidFacts DEF UseStep
<1>3. ContentStep(c, "begun", d, d)
  BY <1>1, PyramidFacts DEF ContentStep, VkContent, CpuCalls
<1>4. <<"begun", d>> \in Stages /\ <<"recorded", d>> \in Stages
  BY DEF Stages, Uses, Contents
<1> HIDE DEF c
<1>5. Leads(c, <<"begun", d>>, <<"recorded", d>>)
  BY <1>2, <1>3 DEF Leads
<1>6. Path(<<c>>, <<"begun", d>>, <<"recorded", d>>)
  BY <1>4, <1>5, PathOne
<1> QED
  BY <1>6 DEF c

\* The window kernel and the transform, recorded one after the other.
LEMMA WindowPath ==
  Path(<< <<"record", <<WindowCmd, Barrier("fft")>> >>, <<"append">> >>,
       <<"begun", "raw_there">>, <<"recorded", "owed">>)
<1> DEFINE w == <<WindowCmd, Barrier("fft")>>
           c == <<"record", w>>
<1>1. c[1] = "record" /\ c[2] = w
  OBVIOUS
<1>2. Sequence(w) /\ w # <<>> /\ \A i \in DOMAIN w : w[i].op \in VkKernels
  BY DEF Sequence, WindowCmd, Barrier, VkKernels
<1>3. UseStep(c, "begun", "recorded") /\ ContentStep(c, "begun", "raw_there", "window_rec")
  BY <1>1, <1>2 DEF UseStep, ContentStep, VkContent, CpuCalls
<1>4. Leads(<<"append">>, <<"recorded", "window_rec">>, <<"recorded", "owed">>)
  BY DEF Leads, UseStep, ContentStep, VkContent, CpuCalls
<1>5. /\ <<"begun", "raw_there">> \in Stages /\ <<"recorded", "window_rec">> \in Stages
      /\ <<"recorded", "owed">> \in Stages
  BY DEF Stages, Uses, Contents
<1> HIDE DEF c
<1>6. Leads(c, <<"begun", "raw_there">>, <<"recorded", "window_rec">>)
  BY <1>3 DEF Leads
<1>7. Path(<<c, <<"append">> >>, <<"begun", "raw_there">>, <<"recorded", "owed">>)
  BY <1>4, <1>5, <1>6, PathTwo
<1> QED
  BY <1>7 DEF c

\* The transform alone, of samples the CPU has windowed.
LEMMA AppendPath ==
  Path(<< <<"append">> >>, <<"begun", "windowed_there">>, <<"recorded", "owed">>)
<1>1. Leads(<<"append">>, <<"begun", "windowed_there">>, <<"recorded", "owed">>)
  BY DEF Leads, UseStep, ContentStep, VkContent, CpuCalls
<1>2. <<"begun", "windowed_there">> \in Stages /\ <<"recorded", "owed">> \in Stages
  BY DEF Stages, Uses, Contents
<1> QED
  BY <1>1, <1>2, PathOne

\* window_and_process of the Vulkan back end makes the spectrum.
LEMMA TransformPath ==
  Path(VkWindowAndProcess, <<"idle", "raw">>, <<"idle", "spectrum_there">>)
<1>1. Path(VkUpload \o Begin, <<"idle", "raw">>, <<"begun", "raw_there">>)
  BY UploadPath, BeginPath, PathConcat
<1> DEFINE w == << <<"record", <<WindowCmd, Barrier("fft")>> >>, <<"append">> >>
<1>2. Path(w, <<"begun", "raw_there">>, <<"recorded", "owed">>)
  BY WindowPath
<1>3. Path(Run, <<"recorded", "owed">>, <<"idle", "spectrum_there">>)
  BY RunPath
<1> HIDE DEF w
<1>4. Path((VkUpload \o Begin) \o w \o Run, <<"idle", "raw">>, <<"idle", "spectrum_there">>)
  BY <1>1, <1>2, <1>3, PathConcat
<1> QED
  BY <1>4 DEF w, VkWindowAndProcess

\* read_output brings the spectrum to the host.
LEMMA ReadOutputPath ==
  Path(VkReadOutput, <<"idle", "spectrum_there">>, <<"idle", "done">>)
<1>1. Leads(<<"invalidate", "fft">>, <<"idle", "spectrum_there">>, <<"idle", "visible">>)
  BY DEF Leads, UseStep, ContentStep, VkContent, CpuCalls, IdleCalls
<1>2. Leads(<<"read_fft">>, <<"idle", "visible">>, <<"idle", "done">>)
  BY DEF Leads, UseStep, ContentStep, VkContent, CpuCalls, IdleCalls
<1>3. \A d \in {"spectrum_there", "visible", "done"} : <<"idle", d>> \in Stages
  BY DEF Stages, Uses, Contents
<1> QED
  BY ONLY <1>1, <1>2, <1>3, PathTwo DEF VkReadOutput

\* process_inplace makes the spectrum of windowed samples, and reads it.
LEMMA ProcessPath ==
  Path(VkProcessInplace, <<"idle", "windowed">>, <<"idle", "done">>)
<1>1. Path(VkUpload \o Begin, <<"idle", "windowed">>, <<"begun", "windowed_there">>)
  BY UploadPath, BeginPath, PathConcat
<1>2. Path(VkUpload \o Begin \o << <<"append">> >>, <<"idle", "windowed">>, <<"recorded", "owed">>)
  BY <1>1, AppendPath, PathConcat
<1>3. Path(Run, <<"recorded", "owed">>, <<"idle", "spectrum_there">>)
  BY RunPath
<1>4. Path(VkUpload \o Begin \o << <<"append">> >> \o Run,
           <<"idle", "windowed">>, <<"idle", "spectrum_there">>)
  BY <1>2, <1>3, PathConcat
<1> QED
  BY <1>4, ReadOutputPath, PathConcat DEF VkProcessInplace

\* Quantizing keeps the spectrum on the device; the worker's, whatever is there.
LEMMA QuantizePath ==
  ASSUME NEW n, NEW base
  PROVE  /\ Path(VkQuantize(n, base), <<"idle", "spectrum_there">>, <<"idle", "spectrum_there">>)
         /\ Path(VkQuantizeSpectrum(n, base), <<"idle", "any">>, <<"idle", "any">>)
<1> DEFINE p == << <<"record", PyramidCmds(n, base)>> >>
           r == << <<"invalidate", "power">>, <<"invalidate", "quant">>, <<"read_quant">> >>
           t == << <<"invalidate", "quant">>, <<"read_quant">> >>
<1>1. /\ Path(p, <<"begun", "any">>, <<"recorded", "any">>)
      /\ Path(p, <<"begun", "spectrum_there">>, <<"recorded", "spectrum_there">>)
  BY PyramidPath
<1>2. \A d \in {"any", "spectrum_there"} :
        \A c \in {<<"invalidate", "power">>, <<"invalidate", "quant">>, <<"read_quant">>} :
        Leads(c, <<"idle", d>>, <<"idle", d>>)
  BY DEF Leads, UseStep, ContentStep, VkContent, CpuCalls, IdleCalls
<1>3. \A d \in {"any", "spectrum_there"} : <<"idle", d>> \in Stages
  BY DEF Stages, Uses, Contents
<1>4. Path(r, <<"idle", "spectrum_there">>, <<"idle", "spectrum_there">>)
  BY ONLY <1>2, <1>3, PathThree
<1>5. Path(t, <<"idle", "any">>, <<"idle", "any">>)
  BY ONLY <1>2, <1>3, PathTwo
<1> HIDE DEF p, r, t
<1>6. /\ Path(Begin, <<"idle", "any">>, <<"begun", "any">>)
      /\ Path(Begin, <<"idle", "spectrum_there">>, <<"begun", "spectrum_there">>)
      /\ Path(Run, <<"recorded", "any">>, <<"idle", "any">>)
      /\ Path(Run, <<"recorded", "spectrum_there">>, <<"idle", "spectrum_there">>)
  BY BeginPath, RunPath
<1>7. Path(Begin \o p \o Run \o r, <<"idle", "spectrum_there">>, <<"idle", "spectrum_there">>)
  BY ONLY <1>1, <1>4, <1>6, PathConcat
<1>8. Path(VkUpload \o Begin \o p \o Run \o t, <<"idle", "any">>, <<"idle", "any">>)
  BY ONLY <1>1, <1>5, <1>6, UploadPath, PathConcat
<1> QED
  BY <1>7, <1>8 DEF p, r, t, VkQuantize, VkQuantizeSpectrum

\* So does the search of the maximum.
LEMMA MaxPowerPath ==
  Path(VkMaxPower, <<"idle", "spectrum_there">>, <<"idle", "spectrum_there">>)
<1>1. \A c \in {<<"invalidate", "power">>, <<"max_power">>} :
        Leads(c, <<"idle", "spectrum_there">>, <<"idle", "spectrum_there">>)
  BY DEF Leads, UseStep, ContentStep, VkContent, CpuCalls, IdleCalls
<1>2. <<"idle", "spectrum_there">> \in Stages
  BY DEF Stages, Uses, Contents
<1> QED
  BY ONLY <1>1, <1>2, PathTwo DEF VkMaxPower

\* The kernels of the OpenCL levels are calls that only quantize.
LEMMA ClPyramidFacts ==
  ASSUME NEW src, NEW n, NEW base
  PROVE  /\ Sequence(ClPyramid(src, n, base))
         /\ \A i \in DOMAIN ClPyramid(src, n, base) :
              /\ ClPyramid(src, n, base)[i][1] = "kernel"
              /\ Quantizes(ClPyramid(src, n, base)[i][2])
<1> DEFINE Good(s) == /\ Sequence(s)
                      /\ \A i \in DOMAIN s : s[i][1] = "kernel" /\ Quantizes(s[i][2])
           s == IF base \in 1 .. n - 1
                  THEN <<ClPower(src, base, 0, n - base), ClPower(src, 0, n - base, base)>>
                  ELSE <<ClPower(src, 0, 0, n)>>
           half == [l \in 1 .. Levels - 1 |->
                      Kernel([op |-> "half", src |-> LevelStart(n, l - 1), dst |-> LevelStart(n, l),
                              len |-> LevelLen(n, l), drop |-> DropCl(l)])]
<1>1. Good(s)
  <2> DEFINE p(first, dst, len) == ClPower(src, first, dst, len)
  <2>1. \A first, dst, len : p(first, dst, len)[1] = "kernel" /\ Quantizes(p(first, dst, len)[2])
    BY DEF ClPower, Kernel, Quantizes
  <2>2. ASSUME NEW c1, NEW c2, c1[1] = "kernel", Quantizes(c1[2]), c2[1] = "kernel", Quantizes(c2[2])
        PROVE  Good(<<c1>>) /\ Good(<<c1, c2>>)
    BY <2>2 DEF Sequence
  <2> HIDE DEF p, Good
  <2>3. CASE base \in 1 .. n - 1
    <3>1. s = <<p(base, 0, n - base), p(0, n - base, base)>>
      BY <2>3 DEF p
    <3> QED
      BY <3>1, <2>1, <2>2
  <2>4. CASE base \notin 1 .. n - 1
    <3>1. s = <<p(0, 0, n)>>
      BY <2>4 DEF p
    <3> QED
      BY <3>1, <2>1, <2>2
  <2> QED
    BY <2>3, <2>4
<1>2. Good(half)
  <2>1. DOMAIN half = 1 .. Levels - 1 /\ half = [l \in 1 .. Levels - 1 |-> half[l]]
        /\ Levels - 1 \in Nat
    OBVIOUS
  <2>2. Sequence(half)
    BY ONLY <2>1, MakeSequence
  <2>3. \A l \in 1 .. Levels - 1 : half[l][1] = "kernel" /\ half[l][2].op = "half"
    BY DEF Kernel
  <2> QED
    BY <2>1, <2>2, <2>3 DEF Quantizes
<1> HIDE DEF s, half
<1>3. Sequence(s) /\ Sequence(half)
  BY <1>1, <1>2
<1>4. /\ Sequence(s \o half) /\ Len(s \o half) = Len(s) + Len(half)
      /\ \A i \in 1 .. Len(s) + Len(half) :
              (s \o half)[i] = IF i <= Len(s) THEN s[i] ELSE half[i - Len(s)]
  BY <1>3, ConcatSequence
<1>5. Good(s \o half)
  BY <1>1, <1>2, <1>3, <1>4, SequenceFacts
<1> QED
  BY <1>5 DEF s, half, ClPyramid

\* Quantizing keeps the spectrum in the OpenCL buffers.
LEMMA ClQuantizePath ==
  ASSUME NEW src, NEW n, NEW base, NEW d \in {"gpu3", "real_done"}
  PROVE  Path(ClQuantize(src, n, base), <<"queue", d>>, <<"queue", d>>)
<1> DEFINE s == ClPyramid(src, n, base)
<1>1. Sequence(s) /\ \A i \in DOMAIN s : s[i][1] = "kernel" /\ Quantizes(s[i][2])
  BY ClPyramidFacts
<1> HIDE DEF s
<1>2. \A i \in DOMAIN s : Leads(s[i], <<"queue", d>>, <<"queue", d>>)
  BY <1>1 DEF Leads, UseStep, ContentStep, ClContent, CpuCalls, ClCalls
<1>3. Leads(Read("quant"), <<"queue", d>>, <<"queue", d>>)
  BY DEF Leads, UseStep, ContentStep, ClContent, CpuCalls, ClCalls, Read
<1>4. <<"queue", d>> \in Stages
  BY DEF Stages, Uses, Contents
<1>5. Path(s, <<"queue", d>>, <<"queue", d>>)
  BY <1>1, <1>2, <1>4, PathLoop
<1>6. Path(s \o <<Read("quant")>>, <<"queue", d>>, <<"queue", d>>)
  BY <1>3, <1>4, <1>5, PathOne, PathConcat
<1> QED
  BY <1>6 DEF s, ClQuantize

\* The four scripts of a complex frame on an OpenCL device.
LEMMA ClFramePaths ==
  /\ Path(ClWindowAndProcess, <<"queue", "raw">>, <<"queue", "gpu3">>)
  /\ Path(ClMaxPower, <<"queue", "gpu3">>, <<"queue", "gpu3">>)
  /\ Path(ClReadOutput, <<"queue", "gpu3">>, <<"queue", "done">>)
  /\ Path(ClProcessInplace, <<"queue", "windowed">>, <<"queue", "done">>)
<1>1. /\ Leads(Write("buf", "frame"), <<"queue", "raw">>, <<"queue", "gpu1">>)
      /\ Leads(Write("buf", "frame"), <<"queue", "windowed">>, <<"queue", "again1">>)
  BY DEF Leads, UseStep, ContentStep, ClContent, CpuCalls, ClCalls, Write
<1>2. Leads(Kernel([op |-> "window_complex"]), <<"queue", "gpu1">>, <<"queue", "gpu2">>)
  BY DEF Leads, UseStep, ContentStep, ClContent, CpuCalls, ClCalls, Kernel
<1>3. /\ Leads(<<"transform">>, <<"queue", "gpu2">>, <<"queue", "gpu3">>)
      /\ Leads(<<"transform">>, <<"queue", "again1">>, <<"queue", "again2">>)
  BY DEF Leads, UseStep, ContentStep, ClContent, CpuCalls, ClCalls
<1>4. /\ Leads(Read("power"), <<"queue", "gpu3">>, <<"queue", "gpu3">>)
      /\ Leads(<<"max_power">>, <<"queue", "gpu3">>, <<"queue", "gpu3">>)
  BY DEF Leads, UseStep, ContentStep, ClContent, CpuCalls, ClCalls, Read
<1>5. /\ Leads(Read("buf"), <<"queue", "gpu3">>, <<"queue", "done">>)
      /\ Leads(Read("buf"), <<"queue", "again2">>, <<"queue", "done">>)
  BY DEF Leads, UseStep, ContentStep, ClContent, CpuCalls, ClCalls, Read
<1>6. \A d \in {"raw", "windowed", "gpu1", "gpu2", "gpu3", "again1", "again2", "done"} :
        <<"queue", d>> \in Stages
  BY DEF Stages, Uses, Contents
<1>7. Path(ClWindowAndProcess, <<"queue", "raw">>, <<"queue", "gpu3">>)
  BY ONLY <1>1, <1>2, <1>3, <1>6, PathThree DEF ClWindowAndProcess
<1>8. Path(ClMaxPower, <<"queue", "gpu3">>, <<"queue", "gpu3">>)
  BY ONLY <1>4, <1>6, PathTwo DEF ClMaxPower
<1>9. /\ Path(ClReadOutput, <<"queue", "gpu3">>, <<"queue", "done">>)
      /\ Path(ClReadOutput, <<"queue", "again2">>, <<"queue", "done">>)
  BY ONLY <1>5, <1>6, PathOne DEF ClReadOutput
<1>10. Path(<<Write("buf", "frame"), <<"transform">> >>, <<"queue", "windowed">>, <<"queue", "again2">>)
  BY ONLY <1>1, <1>3, <1>6, PathTwo
<1>11. Path(ClProcessInplace, <<"queue", "windowed">>, <<"queue", "done">>)
  BY <1>9, <1>10, PathConcat DEF ClProcessInplace
<1> QED
  BY <1>7, <1>8, <1>9, <1>11

\* The script of a real frame on an OpenCL device.
LEMMA ClRealPath ==
  Path(ClLoadReal \o ClProcessReal, <<"queue", "real0">>, <<"queue", "real_done">>)
<1> DEFINE L(c, d, e) == Leads(c, <<"queue", d>>, <<"queue", e>>)
<1>1. L(Write("half_a", "a"), "real0", "real1") /\ L(Write("half_b", "b"), "real1", "real2")
  BY DEF Leads, UseStep, ContentStep, ClContent, CpuCalls, ClCalls, Write
<1>2. /\ L(Kernel([op |-> "window_real", from |-> "half_a", to |-> "in_a"]), "real2", "real3")
      /\ L(Kernel([op |-> "window_real", from |-> "half_b", to |-> "in_b"]), "real3", "real4")
  BY DEF Leads, UseStep, ContentStep, ClContent, CpuCalls, ClCalls, Kernel
<1>3. L(<<"transform_real">>, "real4", "real5") /\ L(Read("out"), "real5", "real_done")
  BY DEF Leads, UseStep, ContentStep, ClContent, CpuCalls, ClCalls, Read
<1>4. \A d \in {"real0", "real1", "real2", "real3", "real4", "real5", "real_done"} :
        <<"queue", d>> \in Stages
  BY DEF Stages, Uses, Contents
<1>5. Path(ClLoadReal, <<"queue", "real0">>, <<"queue", "real4">>)
  BY ONLY <1>1, <1>2, <1>4, PathFour DEF ClLoadReal
<1>6. Path(ClProcessReal, <<"queue", "real4">>, <<"queue", "real_done">>)
  BY ONLY <1>3, <1>4, PathTwo DEF ClProcessReal
<1> QED
  BY <1>5, <1>6, PathConcat

\* Where an execute() starts, after an error or when there is no GPU.
LEMMA CpuPath ==
  ASSUME ~isReal, ~Worker, NEW want
  PROVE  Path(CpuScript(want), <<End[1], "cpu_start">>, End)
<1> DEFINE x == IF UsesCl THEN "queue" ELSE "idle"
           q == IF want THEN << <<"quant_cpu">> >> ELSE <<>>
<1>1. x \in {"queue", "idle"} /\ End = <<x, "done">> /\ End[1] = x
  BY DEF End
<1> HIDE DEF x
<1>2. \A d \in {"cpu_start", "windowed", "done"} : <<x, d>> \in Stages
  BY <1>1 DEF Stages, Uses, Contents
<1>3. Path(<< <<"window_cpu">> >>, <<x, "cpu_start">>, <<x, "windowed">>)
  <2>1. Leads(<<"window_cpu">>, <<x, "cpu_start">>, <<x, "windowed">>)
    BY <1>1 DEF Leads, UseStep, ContentStep, CpuContent, CpuCalls
  <2> QED
    BY ONLY <1>2, <2>1, PathOne
<1>4. Path(q, <<x, "done">>, <<x, "done">>)
  <2>1. Leads(<<"quant_cpu">>, <<x, "done">>, <<x, "done">>)
    BY <1>1 DEF Leads, UseStep, ContentStep, CpuContent, CpuCalls
  <2>2. <<x, "done">> \in Stages
    BY <1>2
  <2>3. CASE want
    BY <2>3, <2>1, <2>2, PathOne
  <2>4. CASE ~want
    BY <2>4, <2>2, PathNil
  <2> QED
    BY <2>3, <2>4
<1> HIDE DEF q
<1>5. Path(Process, <<x, "windowed">>, <<x, "done">>)
  <2>1. CASE UsesVk
    <3>1. x = "idle" /\ Process = VkProcessInplace
      BY <2>1 DEF x, UsesVk, UsesCl, Process
    <3> QED
      BY <3>1, ProcessPath
  <2>2. CASE ~UsesVk /\ UsesCl
    <3>1. x = "queue" /\ Process = ClProcessInplace
      BY <2>2 DEF x, Process
    <3> QED
      BY <3>1, ClFramePaths
  <2>3. CASE ~UsesVk /\ ~UsesCl
    <3>1. x = "idle" /\ Process = << <<"fft_cpu">> >>
      BY <2>3 DEF x, Process
    <3>2. Leads(<<"fft_cpu">>, <<"idle", "windowed">>, <<"idle", "done">>)
      BY DEF Leads, UseStep, ContentStep, CpuContent, CpuCalls
    <3> QED
      BY ONLY <3>1, <3>2, <1>2, PathOne
  <2> QED
    BY <2>1, <2>2, <2>3
<1>6. Path(<< <<"window_cpu">> >> \o Process \o q, <<x, "cpu_start">>, <<x, "done">>)
  BY ONLY <1>3, <1>4, <1>5, PathConcat
<1> QED
  BY <1>1, <1>6 DEF q, CpuScript

\* A complex frame on a GPU, from its two halves to its spectrum.
LEMMA GpuPath ==
  ASSUME ~isReal, ~Worker, UsesVk \/ UsesCl, NEW want \in BOOLEAN
  PROVE  Path(GpuScript(want), <<End[1], "start">>, End)
<1> DEFINE x == IF UsesCl THEN "queue" ELSE "idle"
<1>1. x \in {"queue", "idle"} /\ End = <<x, "done">> /\ End[1] = x
  BY DEF End
<1> HIDE DEF x
<1>2. Path(<< <<"assemble">> >>, <<x, "start">>, <<x, "raw">>)
  <2>1. Leads(<<"assemble">>, <<x, "start">>, <<x, "raw">>)
    BY <1>1 DEF Leads, UseStep, ContentStep, CpuContent, CpuCalls
  <2>2. <<x, "start">> \in Stages /\ <<x, "raw">> \in Stages
    BY <1>1 DEF Stages, Uses, Contents
  <2> QED
    BY ONLY <2>1, <2>2, PathOne
<1>3. CASE UsesVk
  <2> DEFINE q == IF want THEN VkQuantize(FftSize, BaseIdx) \o VkMaxPower ELSE <<>>
  <2>1. x = "idle"
    BY <1>3 DEF x, UsesVk, UsesCl
  <2>2. Path(q, <<"idle", "spectrum_there">>, <<"idle", "spectrum_there">>)
    <3>1. <<"idle", "spectrum_there">> \in Stages
      BY DEF Stages, Uses, Contents
    <3> QED
      BY <3>1, QuantizePath, MaxPowerPath, PathConcat, PathNil
  <2> HIDE DEF q
  <2>3. Path(VkWindowAndProcess \o q \o VkReadOutput, <<"idle", "raw">>, <<"idle", "done">>)
    BY ONLY <2>2, TransformPath, ReadOutputPath, PathConcat
  <2>4. Path(<< <<"assemble">> >> \o (VkWindowAndProcess \o q \o VkReadOutput),
             <<"idle", "start">>, <<"idle", "done">>)
    BY ONLY <1>2, <2>1, <2>3, PathConcat
  <2>5. GpuScript(want) = << <<"assemble">> >> \o (VkWindowAndProcess \o q \o VkReadOutput)
    BY <1>3 DEF GpuScript, q
  <2> QED
    BY <1>1, <2>1, <2>4, <2>5
<1>4. CASE ~UsesVk
  <2> DEFINE q == IF want THEN ClQuantize("buf", FftSize, BaseIdx) \o ClMaxPower ELSE <<>>
  <2>1. x = "queue"
    BY <1>4 DEF x
  <2>2. Path(q, <<"queue", "gpu3">>, <<"queue", "gpu3">>)
    <3>1. <<"queue", "gpu3">> \in Stages
      BY DEF Stages, Uses, Contents
    <3> QED
      BY <3>1, ClQuantizePath, ClFramePaths, PathConcat, PathNil
  <2> HIDE DEF q
  <2>3. Path(ClWindowAndProcess \o q \o ClReadOutput, <<"queue", "raw">>, <<"queue", "done">>)
    BY ONLY <2>2, ClFramePaths, PathConcat
  <2>4. Path(<< <<"assemble">> >> \o (ClWindowAndProcess \o q \o ClReadOutput),
             <<"queue", "start">>, <<"queue", "done">>)
    BY ONLY <1>2, <2>1, <2>3, PathConcat
  <2>5. GpuScript(want) = << <<"assemble">> >> \o (ClWindowAndProcess \o q \o ClReadOutput)
    BY <1>4 DEF GpuScript, q
  <2> QED
    BY <1>1, <2>1, <2>4, <2>5
<1> QED
  BY <1>3, <1>4

\* A real frame, on the CPU or an OpenCL device.
LEMMA RealPath ==
  ASSUME isReal, ~Worker, ~UsesVk, NEW want \in BOOLEAN
  PROVE  Path(RealScript(want), <<End[1], "real0">>, End)
<1> DEFINE x == IF UsesCl THEN "queue" ELSE "idle"
<1>1. x \in {"queue", "idle"} /\ End = <<x, "real_done">> /\ End[1] = x
  BY DEF End
<1> HIDE DEF x
<1>2. <<x, "real0">> \in Stages /\ <<x, "real_done">> \in Stages
  BY <1>1 DEF Stages, Uses, Contents
<1>3. CASE UsesCl
  <2> DEFINE q == IF want THEN << <<"catch", "drop_waterfall">> >> \o ClQuantize("out", SpectrumLen, BaseIdx)
                  ELSE <<>>
  <2>1. x = "queue"
    BY <1>3 DEF x
  <2>2. Leads(<<"catch", "drop_waterfall">>, <<"queue", "real_done">>, <<"queue", "real_done">>)
    BY DEF Leads, UseStep, ContentStep, CpuContent, CpuCalls
  <2>3. Path(<< <<"catch", "drop_waterfall">> >>, <<"queue", "real_done">>, <<"queue", "real_done">>)
    BY ONLY <1>2, <2>1, <2>2, PathOne
  <2>4. Path(q, <<"queue", "real_done">>, <<"queue", "real_done">>)
    BY <1>2, <2>1, <2>3, ClQuantizePath, PathConcat, PathNil
  <2> HIDE DEF q
  <2>5. Path(ClLoadReal \o ClProcessReal \o q, <<"queue", "real0">>, <<"queue", "real_done">>)
    BY ONLY <2>4, ClRealPath, PathConcat
  <2>6. RealScript(want) = ClLoadReal \o ClProcessReal \o q
    BY <1>3 DEF RealScript, q
  <2> QED
    BY <1>1, <2>1, <2>5, <2>6
<1>4. CASE ~UsesCl
  <2> DEFINE q == IF want THEN << <<"quant_cpu">> >> ELSE <<>>
  <2>1. x = "idle"
    BY <1>4 DEF x
  <2>2. /\ Leads(<<"real_cpu">>, <<"idle", "real0">>, <<"idle", "real_done">>)
        /\ Leads(<<"quant_cpu">>, <<"idle", "real_done">>, <<"idle", "real_done">>)
    BY DEF Leads, UseStep, ContentStep, CpuContent, CpuCalls
  <2>3. Path(<< <<"real_cpu">> >>, <<"idle", "real0">>, <<"idle", "real_done">>)
    BY ONLY <1>2, <2>1, <2>2, PathOne
  <2>4. Path(q, <<"idle", "real_done">>, <<"idle", "real_done">>)
    BY ONLY <1>2, <2>1, <2>2, PathOne, PathNil
  <2> HIDE DEF q
  <2>5. Path(<< <<"real_cpu">> >> \o q, <<"idle", "real0">>, <<"idle", "real_done">>)
    BY ONLY <2>3, <2>4, PathConcat
  <2>6. RealScript(want) = << <<"real_cpu">> >> \o q
    BY <1>4 DEF RealScript, q
  <2> QED
    BY <1>1, <2>1, <2>5, <2>6
<1> QED
  BY <1>3, <1>4

\* Where the worker starts, and what it falls back to.
LEMMA WorkerPath ==
  ASSUME Worker
  PROVE  Path(WorkerScript, End, End) /\ Path(<< <<"quant_cpu">> >>, End, End)
<1>1. End = <<"idle", "any">>
  BY DEF End, UsesCl
<1>2. Leads(<<"quant_cpu">>, <<"idle", "any">>, <<"idle", "any">>)
  BY DEF Leads, UseStep, ContentStep, CpuCalls
<1>3. <<"idle", "any">> \in Stages
  BY DEF Stages, Uses, Contents
<1>4. Path(<< <<"quant_cpu">> >>, End, End)
  BY ONLY <1>1, <1>2, <1>3, PathOne
<1> QED
  BY <1>1, <1>4, QuantizePath DEF WorkerScript

\* Every script execute() starts with is a path to its end.
LEMMA ScriptPath ==
  ASSUME NEW want \in BOOLEAN, isReal \in BOOLEAN
  PROVE  Path(ExecuteScript(want), <<End[1], Start>>, End)
<1>1. CASE Worker
  <2>1. <<End[1], Start>> = End
    BY <1>1 DEF End, Start
  <2> QED
    BY <1>1, <2>1, WorkerPath DEF ExecuteScript
<1>2. CASE ~Worker /\ isReal
  <2>1. ~UsesVk
    BY <1>2 DEF UsesVk
  <2> QED
    BY <1>2, <2>1, RealPath DEF ExecuteScript, Start
<1>3. CASE ~Worker /\ ~isReal /\ (UsesVk \/ UsesCl)
  BY <1>3, GpuPath DEF ExecuteScript, Start
<1>4. CASE ~Worker /\ ~isReal /\ ~(UsesVk \/ UsesCl)
  BY <1>4, CpuPath DEF ExecuteScript, Start
<1> QED
  BY <1>1, <1>2, <1>3, <1>4
-----------------------------------------------------------------------------
(* FFT engine: constructors and Drop *)

\* The elements of two sequences in a row.
LEMMA SeqRangeConcat ==
  ASSUME NEW s, NEW t, Sequence(s), Sequence(t)
  PROVE  SeqRange(s \o t) = SeqRange(s) \cup SeqRange(t)
<1> DEFINE m == Len(s)
           n == Len(t)
           r == s \o t
<1>1. m \in Nat /\ n \in Nat /\ DOMAIN s = 1 .. m /\ DOMAIN t = 1 .. n
  BY SequenceFacts
<1>2. /\ DOMAIN r = 1 .. m + n
      /\ \A i \in 1 .. m + n : r[i] = IF i <= m THEN s[i] ELSE t[i - m]
  BY ConcatSequence, SequenceFacts
<1> HIDE DEF m, n, r
<1>3. SeqRange(r) \subseteq SeqRange(s) \cup SeqRange(t)
  <2> SUFFICES ASSUME NEW i \in 1 .. m + n
               PROVE  r[i] \in SeqRange(s) \cup SeqRange(t)
    BY <1>2 DEF SeqRange
  <2>1. CASE i <= m
    BY <2>1, <1>1, <1>2 DEF SeqRange
  <2>2. CASE i > m
    <3>1. i - m \in 1 .. n /\ r[i] = t[i - m]
      BY <2>2, <1>1, <1>2
    <3> QED
      BY <3>1, <1>1 DEF SeqRange
  <2> QED
    BY <2>1, <2>2, <1>1
<1>4. SeqRange(s) \cup SeqRange(t) \subseteq SeqRange(r)
  <2>1. /\ \A i \in 1 .. m : i \in 1 .. m + n /\ r[i] = s[i]
        /\ \A i \in 1 .. n : m + i \in 1 .. m + n /\ r[m + i] = t[i]
    BY <1>1, <1>2
  <2> QED
    BY <1>1, <1>2, <2>1 DEF SeqRange
<1> QED
  BY <1>3, <1>4 DEF r

\* One part of a constructor after another.
LEMMA BuildableConcat ==
  ASSUME NEW api, NEW s, NEW t, NEW more, NEW all,
         Buildable(api, s, {}, all), Buildable(api, t, more, all), more \subseteq SeqRange(s)
  PROVE  Buildable(api, s \o t, {}, all)
<1> DEFINE m == Len(s)
           n == Len(t)
           r == s \o t
<1>1. /\ Sequence(s) /\ Sequence(t) /\ m \in Nat /\ n \in Nat
      /\ DOMAIN s = 1 .. m /\ DOMAIN t = 1 .. n
  BY SequenceFacts DEF Buildable
<1>2. Sequence(r) /\ DOMAIN r = 1 .. m + n
  BY <1>1, ConcatSequence, SequenceFacts
<1>3. \A i \in 1 .. m + n : r[i] = IF i <= m THEN s[i] ELSE t[i - m]
  BY <1>1, ConcatSequence
<1> HIDE DEF m, n, r
<1>4. /\ \A i \in 1 .. m : i \in 1 .. m + n /\ r[i] = s[i]
      /\ \A i \in 1 .. n : m + i \in 1 .. m + n /\ r[m + i] = t[i]
  BY <1>1, <1>3
<1>6. ASSUME NEW i \in 1 .. m + n, r[i] \notin Silent(api)
      PROVE  NeedsIn(api, r[i]) \subseteq {} \cup {r[j] : j \in 1 .. i - 1}
  <2>1. CASE i <= m
    <3>1. r[i] = s[i] /\ i \in DOMAIN s /\ \A j \in 1 .. i - 1 : r[j] = s[j]
      BY <2>1, <1>1, <1>3
    <3>2. NeedsIn(api, r[i]) \subseteq {} \cup {s[j] : j \in 1 .. i - 1}
      BY <3>1, <1>6 DEF Buildable
    <3> QED
      BY <3>1, <3>2
  <2>2. CASE i > m
    <3>1. r[i] = t[i - m] /\ i - m \in 1 .. n
      BY <2>2, <1>1, <1>3
    <3>2. NeedsIn(api, r[i]) \subseteq more \cup {t[j] : j \in 1 .. (i - m) - 1}
      BY <3>1, <1>1, <1>6 DEF Buildable
    <3>3. \A j \in 1 .. (i - m) - 1 : m + j \in 1 .. i - 1 /\ r[m + j] = t[j]
      <4> SUFFICES ASSUME NEW j \in 1 .. (i - m) - 1
                   PROVE  m + j \in 1 .. i - 1 /\ r[m + j] = t[j]
        OBVIOUS
      <4>1. j \in 1 .. n /\ m + j \in 1 .. i - 1
        BY <3>1, <1>1
      <4> QED
        BY <4>1, <1>4
    <3>4. \A j \in 1 .. m : j \in 1 .. i - 1 /\ r[j] = s[j]
      BY <2>2, <1>1, <1>4
    <3>5. SeqRange(s) \subseteq {r[j] : j \in 1 .. i - 1}
      BY <3>4, <1>1 DEF SeqRange
    <3>6. {t[j] : j \in 1 .. (i - m) - 1} \subseteq {r[j] : j \in 1 .. i - 1}
      BY <3>3
    <3> QED
      BY <3>2, <3>5, <3>6
  <2> QED
    BY <2>1, <2>2, <1>1
<1>7. ASSUME NEW i \in 1 .. m + n
      PROVE  r[i] \in Silent(api) \cup all
  <2>1. CASE i <= m
    <3>1. r[i] = s[i] /\ i \in DOMAIN s
      BY <2>1, <1>1, <1>3
    <3> QED
      BY <3>1 DEF Buildable
  <2>2. CASE i > m
    <3>1. r[i] = t[i - m] /\ i - m \in DOMAIN t
      BY <2>2, <1>1, <1>3
    <3> QED
      BY <3>1 DEF Buildable
  <2> QED
    BY <2>1, <2>2, <1>1
<1>8. ASSUME NEW i \in 1 .. m + n, r[i] = "shaders"
      PROVE  \E j \in 1 .. m + n : j > i /\ r[j] = "free_shaders"
  <2>1. CASE i <= m
    <3>1. s[i] = "shaders" /\ i \in DOMAIN s
      BY <2>1, <1>1, <1>3, <1>8
    <3>2. PICK j \in 1 .. m : j > i /\ s[j] = "free_shaders"
      BY <3>1, <1>1 DEF Buildable
    <3> QED
      BY <3>2, <1>4
  <2>2. CASE i > m
    <3>1. t[i - m] = "shaders" /\ i - m \in DOMAIN t
      BY <2>2, <1>1, <1>3, <1>8
    <3>2. PICK j \in 1 .. n : j > i - m /\ t[j] = "free_shaders"
      BY <3>1, <1>1 DEF Buildable
    <3>3. m + j > i /\ r[m + j] = "free_shaders" /\ m + j \in 1 .. m + n
      BY <3>2, <1>1, <1>4
    <3> QED
      BY <3>3
  <2> QED
    BY <2>1, <2>2, <1>1
<1> QED
  BY <1>2, <1>6, <1>7, <1>8 DEF r, Buildable

\* The parts both Vulkan constructors share.
LEMMA CommonBuildable ==
  ASSUME NEW all,
         {"entry", "instance", "device", "command_pool", "command_buffer", "fence", "fft", "window",
          "power", "quant", "set_layout", "desc_pool", "desc_set", "pipeline_layout"} \subseteq all
  PROVE  /\ Buildable(Vulkan, Common, {}, all)
         /\ {"device", "command_pool", "fence", "fft"} \subseteq SeqRange(Common)
         /\ Buildable(Vulkan, Descriptors, {"device"}, all)
<1> DEFINE t == <<"command_pool", "command_buffer", "fence", "fft", "window", "power", "quant">>
<1>1. /\ Buildable(Vulkan, DeviceSteps, {}, all)
      /\ SeqRange(DeviceSteps) = {"entry", "instance", "device"}
  BY DEF Buildable, SeqRange, DeviceSteps, NeedsIn, Vulkan, Opencl, Needs, Silent, Sequence
<1>2. /\ Sequence(t) /\ DOMAIN t = 1 .. 7
      /\ \A i \in 1 .. 7 : t[i] \in all /\ t[i] # "shaders"
  BY DEF Sequence
<1>3. ASSUME NEW i \in 1 .. 7
      PROVE  NeedsIn(Vulkan, t[i]) \subseteq {"instance", "device"} \cup {t[j] : j \in 1 .. i - 1}
  BY DEF NeedsIn, Vulkan, Opencl, Needs
<1>4. SeqRange(t) = {"command_pool", "command_buffer", "fence", "fft", "window", "power", "quant"}
  BY DEF SeqRange
<1>5. Buildable(Vulkan, t, {"instance", "device"}, all)
  BY <1>2, <1>3 DEF Buildable
<1>6. Common = DeviceSteps \o t
  BY DEF Common
<1> HIDE DEF t
<1>7. Buildable(Vulkan, Common, {}, all) /\ SeqRange(Common) = SeqRange(DeviceSteps) \cup SeqRange(t)
  <2>1. {"instance", "device"} \subseteq SeqRange(DeviceSteps)
    BY <1>1
  <2>2. Buildable(Vulkan, DeviceSteps \o t, {}, all)
    BY <1>1, <1>5, <2>1, BuildableConcat
  <2>3. Sequence(DeviceSteps) /\ Sequence(t)
    BY <1>1, <1>2 DEF Buildable
  <2> QED
    BY <1>6, <2>2, <2>3, SeqRangeConcat
<1>8. Buildable(Vulkan, Descriptors, {"device"}, all)
  BY DEF Buildable, Descriptors, NeedsIn, Vulkan, Opencl, Needs, Silent, Sequence
<1> QED
  BY <1>1, <1>4, <1>7, <1>8

\* The objects each Drop releases.
LEMMA DropElements ==
  /\ SeqRange(DropFft) = {"plan", "idle", "pipeline_half", "pipeline_power", "pipeline_window",
       "pipeline_layout", "desc_pool", "set_layout", "quant", "power", "window", "fft", "fence",
       "command_buffer", "command_pool", "device", "instance"}
  /\ SeqRange(DropQuantizer) = {"idle", "pipeline_half", "pipeline_power", "pipeline_layout",
       "desc_pool", "set_layout", "quant", "power", "window", "fft", "fence",
       "command_buffer", "command_pool", "device", "instance"}
  /\ SeqRange(ClDropComplex) = Attached \cup {"plan", "context"}
  /\ SeqRange(ClDropReal) = Attached \cup {"plan", "context"}
BY DEF SeqRange, DropFft, DropQuantizer, ClDropComplex, ClDropReal, Attached

\* Each object the FFT back end creates finds what it needs ...
LEMMA FftBuildable ==
  /\ Buildable(Vulkan, ConstructFft, {}, SeqRange(DropFft) \cup {"desc_set", "shaders", "entry"})
  /\ "upload_window" \in SeqRange(ConstructFft)
<1> DEFINE all == SeqRange(DropFft) \cup {"desc_set", "shaders", "entry"}
           u == <<"upload_window">>
           p == <<"plan">>
           a == Common \o u
           b == a \o Descriptors
           c == b \o Pipelines
<1>1. /\ Buildable(Vulkan, Common, {}, all) /\ Buildable(Vulkan, Descriptors, {"device"}, all)
      /\ {"device", "command_pool", "fence", "fft"} \subseteq SeqRange(Common)
  BY DropElements, CommonBuildable
<1>2. Buildable(Vulkan, u, {}, all) /\ SeqRange(u) = {"upload_window"}
  BY DEF Buildable, SeqRange, Silent, Vulkan, Opencl, Sequence
<1>3. Buildable(Vulkan, Pipelines, {"device"}, all)
  BY DropElements DEF Buildable, Pipelines, NeedsIn, Vulkan, Opencl, Needs, Silent, Sequence
<1>4. Buildable(Vulkan, p, {"device", "command_pool", "fence", "fft"}, all)
  BY DropElements DEF Buildable, NeedsIn, Vulkan, Opencl, Needs, Silent, Sequence
<1>5. ConstructFft = c \o p
  BY DEF ConstructFft
<1> HIDE DEF all, u, p
<1>6. Buildable(Vulkan, a, {}, all) /\ SeqRange(a) = SeqRange(Common) \cup {"upload_window"}
  <2>1. {} \subseteq SeqRange(Common)
    OBVIOUS
  <2>2. Buildable(Vulkan, a, {}, all)
    BY <1>1, <1>2, <2>1, BuildableConcat
  <2>3. Sequence(Common) /\ Sequence(u)
    BY <1>1, <1>2 DEF Buildable
  <2> QED
    BY <1>2, <2>2, <2>3, SeqRangeConcat
<1> HIDE DEF a
<1>7. Buildable(Vulkan, b, {}, all) /\ SeqRange(b) = SeqRange(a) \cup SeqRange(Descriptors)
  <2>1. {"device"} \subseteq SeqRange(a)
    BY <1>1, <1>6
  <2>2. Buildable(Vulkan, b, {}, all)
    BY <1>1, <1>6, <2>1, BuildableConcat
  <2>3. Sequence(a) /\ Sequence(Descriptors)
    BY <1>1, <1>6 DEF Buildable
  <2> QED
    BY <2>2, <2>3, SeqRangeConcat
<1> HIDE DEF b
<1>8. Buildable(Vulkan, c, {}, all) /\ SeqRange(c) = SeqRange(b) \cup SeqRange(Pipelines)
  <2>1. {"device"} \subseteq SeqRange(b)
    BY <1>1, <1>6, <1>7
  <2>2. Buildable(Vulkan, c, {}, all)
    BY <1>3, <1>7, <2>1, BuildableConcat
  <2>3. Sequence(b) /\ Sequence(Pipelines)
    BY <1>3, <1>7 DEF Buildable
  <2> QED
    BY <2>2, <2>3, SeqRangeConcat
<1> HIDE DEF c
<1>9. /\ Buildable(Vulkan, ConstructFft, {}, all)
      /\ SeqRange(ConstructFft) = SeqRange(c) \cup SeqRange(p)
  <2>1. {"device", "command_pool", "fence", "fft"} \subseteq SeqRange(c)
    BY <1>1, <1>6, <1>7, <1>8
  <2>2. Buildable(Vulkan, c \o p, {}, all)
    BY <1>4, <1>8, <2>1, BuildableConcat
  <2>3. Sequence(c) /\ Sequence(p)
    BY <1>4, <1>8 DEF Buildable
  <2> QED
    BY <1>5, <2>2, <2>3, SeqRangeConcat
<1> QED
  BY <1>6, <1>7, <1>8, <1>9 DEF all

\* ... and so does each object of the quantizer.
LEMMA QuantizerBuildable ==
  Buildable(Vulkan, ConstructQuantizer, {}, SeqRange(DropQuantizer) \cup {"desc_set", "shaders", "entry"})
<1> DEFINE all == SeqRange(DropQuantizer) \cup {"desc_set", "shaders", "entry"}
           a == Common \o Descriptors
<1>1. /\ Buildable(Vulkan, Common, {}, all) /\ Buildable(Vulkan, Descriptors, {"device"}, all)
      /\ {"device", "command_pool", "fence", "fft"} \subseteq SeqRange(Common)
  BY DropElements, CommonBuildable
<1>2. Buildable(Vulkan, PipelinesQuantizer, {"device"}, all)
  BY DropElements DEF Buildable, PipelinesQuantizer, NeedsIn, Vulkan, Opencl, Needs, Silent, Sequence
<1>3. ConstructQuantizer = a \o PipelinesQuantizer
  BY DEF ConstructQuantizer
<1> HIDE DEF all
<1>4. {"device"} \subseteq SeqRange(Common)
  BY <1>1
<1>5. Buildable(Vulkan, a, {}, all)
  BY <1>1, <1>4, BuildableConcat
<1>6. {"device"} \subseteq SeqRange(a)
  BY <1>1, <1>4, SeqRangeConcat DEF Buildable
<1> HIDE DEF a
<1>7. Buildable(Vulkan, a \o PipelinesQuantizer, {}, all)
  BY <1>2, <1>5, <1>6, BuildableConcat
<1> QED
  BY <1>3, <1>7 DEF all

\* The OpenCL constructors find what they need, too.
LEMMA ClBuildable ==
  /\ Buildable(Opencl, ClConstruct, {}, Attached \cup {"plan", "context", "setup"})
  /\ Buildable(Opencl, ClConstructReal, {}, Attached \cup {"plan", "context", "setup"})
<1> DEFINE all == Attached \cup {"plan", "context", "setup"}
           a == ClSetup \o ClSelect
           b == <<"buffers", "kernels", "window", "waterfall", "plan", "bake">>
           c == <<"kernels", "window", "buffers", "waterfall", "plan", "bake">>
<1>1. Buildable(Opencl, ClSetup, {}, all) /\ Buildable(Opencl, ClSelect, {}, all)
  BY DEF ClSetup, ClSelect, Buildable, NeedsIn, Vulkan, Opencl, ClNeeds, Attached, Silent, Sequence
<1>2. SeqRange(ClSetup) = {"setup"} /\ SeqRange(ClSelect) = {"select", "context", "queue"}
  BY DEF ClSetup, ClSelect, SeqRange
<1>3. Buildable(Opencl, b, {"setup", "context", "queue"}, all)
  BY DEF Buildable, NeedsIn, Vulkan, Opencl, ClNeeds, Attached, Silent, Sequence
<1>4. Buildable(Opencl, c, {"setup", "context", "queue"}, all)
  BY DEF Buildable, NeedsIn, Vulkan, Opencl, ClNeeds, Attached, Silent, Sequence
<1>5. ClConstruct = a \o b /\ ClConstructReal = a \o c
  BY DEF ClConstruct, ClConstructReal
<1> HIDE DEF all, b, c
<1>6. Buildable(Opencl, a, {}, all) /\ SeqRange(a) = SeqRange(ClSetup) \cup SeqRange(ClSelect)
  <2>1. {} \subseteq SeqRange(ClSetup)
    OBVIOUS
  <2>2. Buildable(Opencl, a, {}, all)
    BY <1>1, <2>1, BuildableConcat
  <2>3. Sequence(ClSetup) /\ Sequence(ClSelect)
    BY <1>1 DEF Buildable
  <2> QED
    BY <2>2, <2>3, SeqRangeConcat
<1> HIDE DEF a
<1>7. {"setup", "context", "queue"} \subseteq SeqRange(a)
  BY <1>2, <1>6
<1>8. Buildable(Opencl, a \o b, {}, all)
  BY <1>3, <1>6, <1>7, BuildableConcat
<1>9. Buildable(Opencl, a \o c, {}, all)
  BY <1>4, <1>6, <1>7, BuildableConcat
<1> QED
  BY <1>5, <1>8, <1>9 DEF all

\* Drop takes nothing away that something left still needs.
LEMMA DropOrder ==
  /\ \A s \in {DropFft, DropQuantizer} : /\ Sequence(s) /\ Removable(Vulkan, s)
                                         /\ \E i \in DOMAIN s : s[i] = "desc_pool"
  /\ \A s \in {ClDropComplex, ClDropReal} : Sequence(s) /\ Removable(Opencl, s)
<1>1. Sequence(DropFft) /\ DOMAIN DropFft = 1 .. 17 /\ DropFft[7] = "desc_pool"
  BY DEF DropFft, Sequence
<1>2. Removable(Vulkan, DropFft)
  <2> SUFFICES ASSUME NEW i \in 1 .. 17, NEW j \in 1 .. i - 1
               PROVE  DropFft[j] \notin Needs(DropFft[i])
    BY <1>1 DEF Removable, NeedsIn, Vulkan, Opencl
  <2> QED
    BY DEF DropFft, Needs
<1>3. Sequence(DropQuantizer) /\ DOMAIN DropQuantizer = 1 .. 15 /\ DropQuantizer[5] = "desc_pool"
  BY DEF DropQuantizer, Sequence
<1>4. Removable(Vulkan, DropQuantizer)
  <2> SUFFICES ASSUME NEW i \in 1 .. 15, NEW j \in 1 .. i - 1
               PROVE  DropQuantizer[j] \notin Needs(DropQuantizer[i])
    BY <1>3 DEF Removable, NeedsIn, Vulkan, Opencl
  <2> QED
    BY DEF DropQuantizer, Needs
<1>5. Sequence(ClDropComplex) /\ Removable(Opencl, ClDropComplex)
  BY DEF ClDropComplex, Sequence, Removable, NeedsIn, Vulkan, Opencl, ClNeeds, Attached
<1>6. Sequence(ClDropReal) /\ Removable(Opencl, ClDropReal)
  BY DEF ClDropReal, Sequence, Removable, NeedsIn, Vulkan, Opencl, ClNeeds, Attached
<1> QED
  BY <1>1, <1>2, <1>3, <1>4, <1>5, <1>6

\* What any object can need.
LEMMA NeedsFacts ==
  ASSUME NEW api, NEW o
  PROVE  /\ api # Opencl => NeedsIn(api, o) \subseteq {"entry", "instance", "device",
                                "command_pool", "desc_pool", "fence", "fft"}
         /\ api = Opencl => NeedsIn(api, o) \subseteq {"setup", "context", "queue"}
         /\ api = Opencl /\ "context" \in NeedsIn(api, o) =>
              o \in Attached \/ "queue" \in NeedsIn(api, o)
         /\ NeedsIn(api, o) \cap (Silent(api) \cup {"shaders"}) = {}
BY DEF NeedsIn, Vulkan, Opencl, Needs, ClNeeds, Attached, Silent

\* What is left of a constructor when its first step was made.
LEMMA BuildableTail ==
  ASSUME NEW api, NEW s, NEW have, NEW more, NEW all, s # <<>>, Buildable(api, s, have, all),
         have \ {"shaders"} \subseteq more, s[1] \notin Silent(api) => s[1] \in more
  PROVE  Buildable(api, Tail(s), more, all)
<1> DEFINE t == Tail(s)
<1>1. /\ Sequence(t) /\ DOMAIN s = 1 .. Len(s) /\ Len(s) \in Nat \ {0} /\ DOMAIN t = 1 .. Len(s) - 1
      /\ \A i \in 1 .. Len(s) - 1 : t[i] = s[i + 1]
  <2>1. Sequence(s)
    BY DEF Buildable
  <2> QED
    BY <2>1, TailSequence, SequenceFacts
<1> HIDE DEF t
<1>2. ASSUME NEW i \in DOMAIN t, t[i] \notin Silent(api)
      PROVE  NeedsIn(api, t[i]) \subseteq more \cup {t[j] : j \in 1 .. i - 1}
  <2>1. t[i] = s[i + 1] /\ i + 1 \in DOMAIN s /\ i \in Nat \ {0}
    BY <1>1
  <2>2. NeedsIn(api, t[i]) \subseteq have \cup {s[j] : j \in 1 .. (i + 1) - 1}
    BY <1>2, <2>1 DEF Buildable
  <2>3. {s[j] : j \in 1 .. (i + 1) - 1} \subseteq {s[1]} \cup {t[j] : j \in 1 .. i - 1}
    <3> SUFFICES ASSUME NEW j \in 1 .. (i + 1) - 1, j # 1
                 PROVE  s[j] \in {t[k] : k \in 1 .. i - 1}
      OBVIOUS
    <3>1. j - 1 \in 1 .. i - 1 /\ j - 1 \in 1 .. Len(s) - 1 /\ t[j - 1] = s[j]
      BY <1>1, <2>1
    <3> QED
      BY <3>1
  <2>4. NeedsIn(api, t[i]) \cap (Silent(api) \cup {"shaders"}) = {}
    BY NeedsFacts
  <2> QED
    BY <2>2, <2>3, <2>4
<1>3. \A i \in DOMAIN t : t[i] \in Silent(api) \cup all
  BY <1>1 DEF Buildable
<1>4. ASSUME NEW i \in DOMAIN t, t[i] = "shaders"
      PROVE  \E j \in DOMAIN t : j > i /\ t[j] = "free_shaders"
  <2>1. s[i + 1] = "shaders" /\ i + 1 \in DOMAIN s
    BY <1>1, <1>4
  <2>2. PICK j \in DOMAIN s : j > i + 1 /\ s[j] = "free_shaders"
    BY <2>1 DEF Buildable
  <2>3. j - 1 \in DOMAIN t /\ t[j - 1] = "free_shaders" /\ j - 1 > i
    BY <1>1, <2>2
  <2> QED
    BY <2>3
<1> QED
  BY <1>1, <1>2, <1>3, <1>4 DEF t, Buildable

\* All objects of the OpenCL back end.
LEMMA ClObjects ==
  UsesCl => Released \cup Kept \cup Passing = Attached \cup {"plan", "context", "setup"}
BY DropElements DEF Released, DropScript, Kept, Passing, UsesVk, UsesCl

\* What does not change as long as the engine is the same.
LEMMA ConfigKept ==
  ASSUME UNCHANGED <<machine, acc, isReal>>
  PROVE  /\ UsesVk' = UsesVk /\ UsesCl' = UsesCl /\ Worker' = Worker /\ DropScript' = DropScript
         /\ Released' = Released /\ Kept' = Kept /\ Passing' = Passing
BY DEF UsesVk, UsesCl, Worker, DropScript, Released, Kept, Passing

\* What the objects of the back end in use need.
LEMMA BackEndNeeds ==
  /\ BackEnd \in {Vulkan, Opencl} /\ Vulkan # Opencl
  /\ UsesCl <=> BackEnd = Opencl
  /\ \A o : NeedsOf(o) = NeedsIn(BackEnd, o)
BY DEF BackEnd, Vulkan, Opencl, NeedsOf, NeedsIn

\* A step that leaves the objects alone, and the scripts that make and
\* release them.
LEMMA ObjectsKept ==
  ASSUME EngineInv, UNCHANGED <<machine, acc, isReal, vkLive, clLive>>,
         \/ UNCHANGED <<phase, todo>>
         \/ phase \in {"idle", "execute"} /\ phase' \in {"idle", "execute"}
  PROVE  Closed' /\ Acquiring' /\ Complete' /\ Releasing' /\ Objects'
<1>1. /\ UsesVk' = UsesVk /\ UsesCl' = UsesCl /\ Released' = Released /\ Kept' = Kept
      /\ Passing' = Passing /\ Live' = Live /\ EntryDropped' = EntryDropped /\ BackEnd' = BackEnd
  BY ConfigKept DEF Live, EntryDropped, BackEnd
<1>2. \A o : NeedsOf(o)' = NeedsOf(o)
  BY <1>1 DEF NeedsOf
<1>3. Closed'
  BY <1>1, <1>2 DEF EngineInv, Closed
<1>4. Acquiring' /\ Complete' /\ Releasing'
  BY <1>1 DEF EngineInv, Acquiring, Complete, Releasing
<1>5. Objects'
  BY <1>1 DEF EngineInv, Objects
<1> QED
  BY <1>3, <1>4, <1>5
-----------------------------------------------------------------------------
(* FFT engine: the steps of the host *)

\* An engine or worker about to be constructed.
LEMMA EngineInitInv == EngineInit => EngineInv
<1> SUFFICES ASSUME EngineInit
             PROVE  EngineInv
  OBVIOUS
<1>1. EngineTypeOK
  BY DEF EngineInit, EngineTypeOK, VkInit, CmdStates
<1>2. Sequence(todo)
  <2>1. Sequence(<<>>)
    BY DEF Sequence
  <2>2. /\ Sequence(ConstructFft) /\ Sequence(ConstructQuantizer)
        /\ Sequence(ClConstruct) /\ Sequence(ClConstructReal)
    BY FftBuildable, QuantizerBuildable, ClBuildable DEF Buildable
  <2> QED
    BY <2>1, <2>2 DEF EngineInit, ConstructScript
<1>3. host = [b \in Buffers |-> host[b]] /\ dev = [b \in Buffers |-> dev[b]]
  BY DEF EngineInit, VkInit, Buffers
<1>4. clmem = [b \in ClFields |-> clmem[b]]
  BY DEF EngineInit, ClInit, ClFields
<1>5. Shape
  <2>1. rec = <<>> /\ queue = <<>> /\ cmd = "none" /\ host = dev
    BY DEF EngineInit, VkInit, ClInit
  <2> QED
    BY <1>2, <1>3, <1>4, <2>1 DEF EngineInit, Shape, Sequence
<1>6. Acquiring
  <2> SUFFICES ASSUME UsesVk \/ UsesCl
               PROVE  Buildable(BackEnd, todo, {}, Released \cup Kept \cup Passing)
    BY DEF Acquiring, EngineInit, VkInit, ClInit, Live
  <2>1. CASE UsesVk
    <3>1. /\ ~UsesCl /\ todo = IF Worker THEN ConstructQuantizer ELSE ConstructFft
          /\ Released = SeqRange(IF Worker THEN DropQuantizer ELSE DropFft)
      BY <2>1 DEF EngineInit, ConstructScript, UsesVk, UsesCl, Released, DropScript
    <3>2. Released \cup Kept \cup Passing = Released \cup {"desc_set", "shaders", "entry"} /\ BackEnd = Vulkan
      BY <3>1 DEF Kept, Passing, BackEnd
    <3> QED
      BY <3>1, <3>2, FftBuildable, QuantizerBuildable
  <2>2. CASE UsesCl
    <3>1. /\ todo = IF isReal THEN ClConstructReal ELSE ClConstruct
          /\ Released = SeqRange(IF isReal THEN ClDropReal ELSE ClDropComplex)
      BY <2>2 DEF EngineInit, ConstructScript, UsesVk, UsesCl, Released, DropScript
    <3>2. Released \cup Kept \cup Passing = Attached \cup {"plan", "context", "setup"} /\ BackEnd = Opencl
      BY <2>2, <3>1, DropElements DEF Kept, Passing, BackEnd
    <3> QED
      BY <3>1, <3>2, ClBuildable
  <2> QED
    BY <2>1, <2>2
<1>7. WindowLoaded
  <2> SUFFICES ASSUME UsesVk, ~Worker
               PROVE  \E i \in DOMAIN todo : todo[i] = "upload_window"
    BY DEF WindowLoaded, EngineInit
  <2>1. todo = ConstructFft
    BY DEF EngineInit, ConstructScript, UsesVk, UsesCl
  <2> QED
    BY <2>1, FftBuildable DEF SeqRange
<1>8. Closed /\ Complete /\ Releasing
  BY DEF EngineInit, VkInit, ClInit, Closed, Complete, Releasing, Live
<1>9. Objects
  BY DEF EngineInit, VkInit, ClInit, Objects, ConstructScript
<1>10. InScript /\ OutOfScript
  BY DEF EngineInit, VkInit, ClInit, InScript, OutOfScript
<1> QED
  BY <1>1, <1>5, <1>6, <1>7, <1>8, <1>9, <1>10 DEF EngineInv

\* The next object of a constructor is created, ...
LEMMA ConstructInv == EngineInv /\ Construct => EngineInv'
<1> SUFFICES ASSUME EngineInv, Construct
             PROVE  EngineInv'
  OBVIOUS
<1> DEFINE o == Head(todo)
<1>1. /\ phase = "construct" /\ phase' = phase /\ todo # <<>> /\ todo' = Tail(todo)
      /\ machine' = machine /\ acc' = acc /\ isReal' = isReal
      /\ UNCHANGED <<onError, frameVars, result>>
  BY DEF Construct, config
<1>2. /\ UsesVk' = UsesVk /\ UsesCl' = UsesCl /\ Worker' = Worker /\ Released' = Released
      /\ Kept' = Kept /\ Passing' = Passing /\ BackEnd' = BackEnd
      /\ Samples("spectrum")' = Samples("spectrum")
  BY <1>1, ConfigKept DEF Samples, frameVars, BackEnd
<1>3. /\ Sequence(todo) /\ Sequence(todo') /\ o = todo[1] /\ Len(todo) \in Nat \ {0}
      /\ Len(todo') = Len(todo) - 1 /\ DOMAIN todo = 1 .. Len(todo) /\ DOMAIN todo' = 1 .. Len(todo')
      /\ \A i \in DOMAIN todo' : todo'[i] = todo[i + 1] /\ i + 1 \in DOMAIN todo
  <2>1. Sequence(todo)
    BY DEF EngineInv, Shape
  <2>2. /\ Sequence(todo') /\ o = todo[1] /\ Len(todo') = Len(todo) - 1
        /\ \A i \in 1 .. Len(todo) - 1 : todo'[i] = todo[i + 1]
    BY <1>1, <2>1, TailSequence
  <2> QED
    BY <1>1, <2>1, <2>2, SequenceFacts
<1>4. (UsesCl \/ UsesVk) /\ ~(UsesCl /\ UsesVk)
  BY <1>1 DEF EngineInv, Objects, UsesCl, UsesVk
<1>5. /\ UsesCl => ClAcquire(o) /\ UNCHANGED vkVars
      /\ UsesVk => Acquire(o) /\ UNCHANGED clVars
  BY <1>4 DEF Construct
<1>6. /\ UNCHANGED <<coherent, lost, fence, rec, dirty, queue, clmem>>
      /\ cmd' \in {"initial", cmd}
      /\ UsesCl => UNCHANGED <<cmd, host, dev, vkLive>>
      /\ UsesVk => UNCHANGED clLive
  BY <1>4, <1>5 DEF Acquire, UploadWindow, ClAcquire, vkVars, vkObjects, vkWork, clVars
<1>7. UsesVk => IF o = "upload_window"
                  THEN dev' = [dev EXCEPT !.window = "hann"] /\ host' = [host EXCEPT !.window = "hann"]
                  ELSE UNCHANGED <<dev, host>>
  BY <1>5 DEF Acquire, UploadWindow
<1>8. /\ Buildable(BackEnd, todo, Live, Released \cup Kept \cup Passing)
      /\ Live \subseteq Released \cup Kept \cup Passing
      /\ "shaders" \in Live => \E i \in DOMAIN todo : todo[i] = "free_shaders"
  BY <1>1, <1>4 DEF EngineInv, Acquiring
<1>9. /\ o \in Silent(BackEnd) \cup Released \cup Kept \cup Passing
      /\ o = "shaders" => \E j \in DOMAIN todo : j > 1 /\ todo[j] = "free_shaders"
      /\ o \notin Silent(BackEnd) => NeedsIn(BackEnd, o) \subseteq Live
  <2>1. 1 \in DOMAIN todo
    BY <1>3
  <2>2. o \notin Silent(BackEnd) => NeedsIn(BackEnd, o) \subseteq Live \cup {todo[j] : j \in 1 .. 1 - 1}
    BY <1>3, <1>8, <2>1 DEF Buildable
  <2> QED
    BY <1>3, <1>8, <2>1, <2>2 DEF Buildable
<1>10. /\ o \notin Silent(BackEnd) => Live' = Live \cup {o}
       /\ o \in Silent(BackEnd) => Live' \in {Live, Live \ {"shaders"}}
       /\ "shaders" \in Live' => o # "free_shaders"
       /\ "shaders" \in Live' => o = "shaders" \/ "shaders" \in Live
  <2>1. CASE UsesCl
    <3>1. /\ clLive' = clLive \cup ({o} \ {"select", "bake"}) /\ Live = clLive /\ Live' = clLive'
          /\ Silent(BackEnd) = {"select", "bake"}
      BY <2>1, <1>2, <1>5, BackEndNeeds DEF ClAcquire, Live, Silent
    <3>2. o # "free_shaders"
      BY <1>9, <2>1, <3>1, ClObjects DEF Attached
    <3> QED
      BY <3>1, <3>2
  <2>2. CASE UsesVk
    <3>1. /\ vkLive' = IF o = "upload_window" THEN vkLive
                       ELSE IF o = "free_shaders" THEN vkLive \ {"shaders"} ELSE vkLive \cup {o}
          /\ Live = vkLive /\ Live' = vkLive'
          /\ Silent(BackEnd) = {"upload_window", "free_shaders"}
      BY <2>2, <1>2, <1>4, <1>5, BackEndNeeds DEF Acquire, UploadWindow, vkObjects, Live, Silent
    <3> QED
      BY <3>1
  <2> QED
    BY <2>1, <2>2, <1>4
<1>11. EngineTypeOK'
  BY <1>1, <1>2, <1>4, <1>6 DEF EngineInv, EngineTypeOK, CmdStates, frameVars, SpectrumLen
<1>12. Shape'
  <2>1. /\ host' = [b \in Buffers |-> host'[b]] /\ dev' = [b \in Buffers |-> dev'[b]]
        /\ coherent' => host' = dev'
    BY <1>4, <1>6, <1>7 DEF EngineInv, Shape, Buffers
  <2> QED
    BY <1>1, <1>3, <1>6, <2>1 DEF EngineInv, Shape, frameVars, OutOfScript
<1>13. Acquiring'
  <2>1. Buildable(BackEnd, Tail(todo), Live', Released \cup Kept \cup Passing)
    <3>1. Live \ {"shaders"} \subseteq Live' /\ (todo[1] \notin Silent(BackEnd) => todo[1] \in Live')
      BY <1>3, <1>10
    <3> QED
      BY <1>1, <1>8, <3>1, BuildableTail
  <2>2. Live' \subseteq Released \cup Kept \cup Passing
    BY <1>8, <1>9, <1>10
  <2>3. ASSUME "shaders" \in Live'
        PROVE  \E i \in DOMAIN todo' : todo'[i] = "free_shaders"
    <3>1. PICK j \in DOMAIN todo : j # 1 /\ todo[j] = "free_shaders"
      <4>1. o = "shaders" \/ ("shaders" \in Live /\ todo[1] # "free_shaders")
        BY <1>3, <1>10, <2>3
      <4> QED
        BY <1>3, <1>8, <1>9, <4>1
    <3>2. j - 1 \in DOMAIN todo' /\ todo'[j - 1] = "free_shaders"
      BY <1>3, <3>1
    <3> QED
      BY <3>2
  <2> QED
    BY <1>1, <1>2, <2>1, <2>2, <2>3 DEF Acquiring
<1>14. Closed'
  <2>1. \A u : NeedsOf(u)' = NeedsIn(BackEnd, u)
    BY <1>2, BackEndNeeds DEF NeedsOf, NeedsIn
  <2>2. ASSUME NEW u \in Live'
        PROVE  NeedsIn(BackEnd, u) \subseteq Live'
    <3>1. NeedsIn(BackEnd, u) \subseteq Live
      <4>1. CASE u \in Live
        BY <1>1, <4>1, BackEndNeeds DEF EngineInv, Closed, EntryDropped
      <4>2. CASE u \notin Live
        BY <1>9, <1>10, <4>2
      <4> QED
        BY <4>1, <4>2
    <3>2. "shaders" \notin NeedsIn(BackEnd, u)
      BY NeedsFacts
    <3> QED
      BY <1>10, <3>1, <3>2
  <2> QED
    BY <1>1, <2>1, <2>2 DEF Closed
<1>15. Complete' /\ Releasing' /\ InScript'
  BY <1>1 DEF Complete, Releasing, InScript
<1>16. Objects'
  BY <1>1, <1>2, <1>4, <1>5, <1>6 DEF EngineInv, Objects, vkVars, vkObjects
<1>17. WindowLoaded'
  <2>1. CASE ~UsesVk
    BY <1>2, <2>1 DEF WindowLoaded
  <2>2. CASE UsesVk /\ o = "upload_window"
    <3>1. dev'.window = "hann"
      BY <1>7, <2>2 DEF EngineInv, Shape, Buffers
    <3> QED
      BY <3>1 DEF WindowLoaded
  <2>3. CASE UsesVk /\ o # "upload_window"
    <3>1. ASSUME NEW i \in DOMAIN todo, todo[i] = "upload_window"
          PROVE  \E j \in DOMAIN todo' : todo'[j] = "upload_window"
      <4>1. i - 1 \in DOMAIN todo' /\ todo'[i - 1] = "upload_window"
        BY <1>3, <2>3, <3>1
      <4> QED
        BY <4>1
    <3> QED
      BY <1>1, <1>2, <1>7, <2>3, <3>1 DEF EngineInv, WindowLoaded
  <2> QED
    BY <2>1, <2>2, <2>3
<1>18. OutOfScript'
  BY <1>1, <1>2, <1>6 DEF EngineInv, OutOfScript, frameVars
<1> QED
  BY <1>11, <1>12, <1>13, <1>14, <1>15, <1>16, <1>17, <1>18 DEF EngineInv

\* ... or cannot be, and what exists is released, ...
LEMMA ConstructFailsInv == EngineInv /\ ConstructFails => EngineInv'
<1> SUFFICES ASSUME EngineInv, ConstructFails
             PROVE  EngineInv'
  OBVIOUS
<1> DEFINE o == Head(todo)
<1>1. /\ phase = "construct" /\ todo # <<>> /\ todo' = <<>>
      /\ phase' = IF Worker THEN "idle" ELSE "failed"
      /\ machine' = machine /\ isReal' = isReal
      /\ acc' = IF Worker THEN "none" ELSE acc
      /\ UNCHANGED <<onError, frameVars, result>> /\ frame = 0
  BY DEF ConstructFails, EngineInv, Shape
<1>2. /\ UsesVk' => UsesVk /\ ~Worker
      /\ UsesCl' = UsesCl /\ Worker' = Worker /\ (UsesCl => ~Worker)
      /\ Samples("spectrum")' = Samples("spectrum")
  BY <1>1 DEF UsesVk, UsesCl, Worker, Samples, frameVars
<1>3. Sequence(todo) /\ o = todo[1] /\ 1 \in DOMAIN todo
  <2>1. Sequence(todo)
    BY DEF EngineInv, Shape
  <2> QED
    BY <1>1, <2>1, TailSequence, SequenceFacts
<1>4. (UsesCl \/ UsesVk) /\ ~(UsesCl /\ UsesVk)
  BY <1>1 DEF EngineInv, Objects, UsesCl, UsesVk
<1>5. /\ UNCHANGED <<coherent, lost, fence, cmd, rec, dirty, host, dev>>
      /\ UNCHANGED <<queue, clmem>>
      /\ UsesCl => UNCHANGED vkLive /\ clLive' = clLive \cap {"setup", "plan"}
      /\ UsesVk => /\ UNCHANGED clLive
                   /\ \E part \in SUBSET ({o} \cap (Buffers \cup {"shaders"})) :
                        vkLive' = (vkLive \cup part) \ {"entry"}
  BY <1>4 DEF ConstructFails, ClAcquireFails, AcquireFails, vkVars, vkObjects, vkWork, clVars
<1>6. EngineTypeOK'
  BY <1>1, <1>5 DEF EngineInv, EngineTypeOK, frameVars, SpectrumLen
<1>7. Shape'
  BY <1>1, <1>5 DEF EngineInv, Shape, frameVars, Sequence
<1>8. Closed'
  <2>1. CASE UsesCl
    BY <1>1, <1>2, <1>5, <2>1 DEF Closed
  <2>2. CASE UsesVk
    <3>1. /\ ~UsesCl /\ ~UsesCl' /\ Live = vkLive /\ Live' = vkLive' /\ EntryDropped' = {"entry"}
          /\ \A u : NeedsOf(u) = Needs(u) /\ NeedsOf(u)' = Needs(u)
      BY <2>2, <1>1, <1>2, <1>4 DEF Live, EntryDropped, NeedsOf
    <3>2. PICK part \in SUBSET ({o} \cap (Buffers \cup {"shaders"})) :
            vkLive' = (vkLive \cup part) \ {"entry"}
      BY <1>5, <2>2
    <3>3. ASSUME NEW u \in vkLive'
          PROVE  Needs(u) \subseteq vkLive
      <4>1. CASE u \in vkLive
        BY <1>1, <3>1, <4>1 DEF EngineInv, Closed, EntryDropped
      <4>2. CASE u \notin vkLive
        <5>1. u = o /\ o \notin Silent(Vulkan) /\ BackEnd = Vulkan
          BY <3>1, <3>2, <4>2 DEF Silent, Vulkan, Opencl, Buffers, BackEnd
        <5>2. NeedsIn(Vulkan, o) \subseteq vkLive \cup {todo[j] : j \in 1 .. 1 - 1}
          BY <1>1, <1>3, <1>4, <3>1, <5>1 DEF EngineInv, Acquiring, Buildable
        <5>3. NeedsIn(Vulkan, o) = Needs(o)
          BY DEF NeedsIn, Vulkan, Opencl
        <5> QED
          BY <5>1, <5>2, <5>3
      <4> QED
        BY <4>1, <4>2
    <3> QED
      BY <3>1, <3>2, <3>3 DEF Closed
  <2> QED
    BY <1>4, <2>1, <2>2
<1>9. Acquiring' /\ Complete' /\ Releasing' /\ WindowLoaded'
  BY <1>1, <1>2 DEF Acquiring, Complete, Releasing, WindowLoaded
<1>10. Objects'
  <2>1. (acc' # "none" /\ ~UsesVk') => UsesCl
    BY <1>1, <1>4 DEF UsesVk, Worker
  <2> QED
    BY <1>1, <1>2, <1>4, <1>5, <2>1 DEF EngineInv, Objects, frameVars
<1>11. InScript'
  BY <1>1 DEF InScript
<1>12. OutOfScript'
  BY <1>1, <1>2, <1>5 DEF EngineInv, OutOfScript, frameVars
<1> QED
  BY <1>6, <1>7, <1>8, <1>9, <1>10, <1>11, <1>12 DEF EngineInv

\* ... or all of them exist.
LEMMA ConstructedInv == EngineInv /\ Constructed => EngineInv'
<1> SUFFICES ASSUME EngineInv, Constructed
             PROVE  EngineInv'
  OBVIOUS
<1>1. /\ phase = "construct" /\ phase' = "idle" /\ todo = <<>> /\ vkLive' = vkLive \ {"entry"}
      /\ UNCHANGED <<machine, acc, isReal, todo, onError, frameVars, result, coherent, lost, vkWork, clVars>>
  BY DEF Constructed, LeaveNew, config
<1>2. /\ UsesVk' = UsesVk /\ UsesCl' = UsesCl /\ Worker' = Worker /\ Released' = Released
      /\ Kept' = Kept /\ Passing' = Passing
      /\ Samples("spectrum")' = Samples("spectrum")
  BY <1>1, ConfigKept DEF Samples, frameVars
<1>3. EngineTypeOK' /\ Shape'
  BY <1>1 DEF EngineInv, EngineTypeOK, Shape, frameVars, SpectrumLen, vkWork, clVars
<1>4. DOMAIN todo = {}
  BY <1>1, SequenceFacts DEF EngineInv, Shape
<1>5. Live' = Live \ {"entry"} /\ EntryDropped' = {"entry"} /\ EntryDropped = {}
  <2>1. UsesCl => "entry" \notin clLive
    <3> SUFFICES ASSUME UsesCl
                 PROVE  "entry" \notin clLive
      OBVIOUS
    <3>1. clLive \subseteq Attached \cup {"plan", "context", "setup"}
      BY <1>1, ClObjects DEF EngineInv, Acquiring, Live
    <3> QED
      BY <3>1 DEF Attached
  <2> QED
    BY <1>1, <1>2, <2>1 DEF Live, EntryDropped, clVars
<1>6. Complete'
  <2> SUFFICES ASSUME UsesVk \/ UsesCl
               PROVE  Live' \subseteq Released \cup Kept
    BY <1>2 DEF Complete
  <2>1. Live \subseteq Released \cup Kept \cup Passing /\ "shaders" \notin Live
    BY <1>1, <1>4 DEF EngineInv, Acquiring
  <2> QED
    BY <1>5, <2>1 DEF Passing
<1>7. Closed'
  <2>1. \A u : NeedsOf(u)' = NeedsOf(u)
    BY <1>2 DEF NeedsOf
  <2>2. \A u \in Live : NeedsOf(u) \subseteq Live
    BY <1>1, <1>5 DEF EngineInv, Closed
  <2> QED
    BY <1>1, <1>5, <2>1, <2>2 DEF Closed
<1>8. Acquiring' /\ Releasing' /\ Objects'
  BY <1>1, <1>2 DEF EngineInv, Acquiring, Releasing, Objects, clVars, frameVars
<1>9. WindowLoaded'
  BY <1>1, <1>2, <1>4 DEF EngineInv, WindowLoaded, vkWork
<1>10. InScript' /\ OutOfScript'
  BY <1>1, <1>2 DEF EngineInv, InScript, OutOfScript, vkWork, frameVars, clVars
<1> QED
  BY <1>3, <1>6, <1>7, <1>8, <1>9, <1>10 DEF EngineInv

\* Where a Drop starts.
LEMMA DropStarts ==
  ASSUME EngineInv, phase \in {"idle", "execute"}, phase' = "drop", todo' = DropScript,
         cmd # "pending",
         result = "err" \/ phase = "idle",
         UNCHANGED <<machine, acc, isReal, onError, frameVars, result, vkVars, clVars>>
  PROVE  EngineInv'
<1>1. /\ UsesVk' = UsesVk /\ UsesCl' = UsesCl /\ Worker' = Worker
      /\ Live' = Live /\ EntryDropped' = EntryDropped /\ BackEnd' = BackEnd
      /\ Samples("spectrum")' = Samples("spectrum")
  BY ConfigKept DEF Samples, frameVars, Live, EntryDropped, BackEnd, vkVars, vkObjects, clVars
<1>2. EngineTypeOK'
  BY DEF EngineInv, EngineTypeOK, frameVars, SpectrumLen, vkVars, vkWork
<1>3. Shape'
  <2>1. Sequence(<<"drop">>)
    BY DEF Sequence
  <2>2. Sequence(DropFft) /\ Sequence(DropQuantizer) /\ Sequence(ClDropComplex) /\ Sequence(ClDropReal)
    BY DropOrder
  <2>3. Sequence(todo')
    BY <2>1, <2>2 DEF DropScript
  <2> QED
    BY <2>3 DEF EngineInv, Shape, frameVars, vkVars, vkObjects, vkWork, clVars
<1>4. Releasing'
  <2>1. CASE UsesVk
    <3>1. todo' \in {DropFft, DropQuantizer} /\ Released = SeqRange(todo') /\ ~UsesCl
      BY <2>1 DEF DropScript, Released, UsesVk, UsesCl
    <3>2. Removable(Vulkan, todo') /\ \E i \in DOMAIN todo' : todo'[i] = "desc_pool"
      BY <3>1, DropOrder
    <3>3. Live \subseteq Released \cup {"desc_set"}
      BY <2>1, <3>1 DEF EngineInv, Complete, Kept
    <3>4. BackEnd = Vulkan
      BY <3>1 DEF BackEnd
    <3> QED
      BY <1>1, <2>1, <3>1, <3>2, <3>3, <3>4 DEF Releasing, SeqRange
  <2>2. CASE UsesCl
    <3>1. todo' \in {ClDropComplex, ClDropReal} /\ Released = SeqRange(todo') /\ ~UsesVk
      BY <2>2 DEF DropScript, Released, UsesVk, UsesCl
    <3>2. Removable(Opencl, todo')
      BY <3>1, DropOrder
    <3>3. Live \subseteq Released \cup {"setup"}
      BY <2>2, <3>1 DEF EngineInv, Complete, Kept
    <3>4. BackEnd = Opencl
      BY <2>2 DEF BackEnd
    <3> QED
      BY <1>1, <2>2, <3>1, <3>2, <3>3, <3>4 DEF Releasing, SeqRange
  <2> QED
    BY <1>1, <2>1, <2>2 DEF Releasing
<1>5. Closed'
  <2>1. \A u : NeedsOf(u)' = NeedsOf(u)
    BY <1>1 DEF NeedsOf
  <2> QED
    BY <1>1, <2>1 DEF EngineInv, Closed
<1>6. Acquiring' /\ Complete' /\ Objects'
  BY <1>1 DEF EngineInv, Acquiring, Complete, Objects, vkVars, vkObjects, clVars, frameVars
<1>7. WindowLoaded'
  BY <1>1 DEF EngineInv, WindowLoaded, vkVars, vkWork
<1>8. InScript' /\ OutOfScript'
  BY <1>1 DEF EngineInv, InScript, OutOfScript, vkVars, vkWork, frameVars, clVars
<1> QED
  BY <1>2, <1>3, <1>4, <1>5, <1>6, <1>7, <1>8 DEF EngineInv

\* The receiver stops between two frames.
LEMMA StopInv == EngineInv /\ Stop => EngineInv'
BY DropStarts DEF Stop, config, EngineInv, OutOfScript

\* execute() returns, with the spectrum or with an error.
LEMMA ReturnInv == EngineInv /\ Return => EngineInv'
<1> SUFFICES ASSUME EngineInv, Return
             PROVE  EngineInv'
  OBVIOUS
<1>1. /\ phase = "execute" /\ todo = <<>>
      /\ UNCHANGED <<machine, acc, isReal, onError, frameVars, vkVars, clVars>>
  BY DEF Return, config
<1>2. CASE result = "err"
  <2>1. phase' = "drop" /\ todo' = DropScript /\ result' = result
    BY <1>2 DEF Return
  <2>2. cmd # "pending"
    BY <1>1, <1>2 DEF EngineInv, InScript
  <2> QED
    BY <1>1, <1>2, <2>1, <2>2, DropStarts
<1>3. CASE result # "err"
  <2>1. phase' = "idle" /\ result' = "ok" /\ UNCHANGED todo
    BY <1>3 DEF Return
  <2>2. PICK x \in Uses, d \in Contents :
          Path(todo, <<x, d>>, End) /\ UseState(x) /\ ContentState(d) /\ HandlerOK(d)
    BY <1>1, <1>3 DEF EngineInv, InScript
  <2>3. End = <<x, d>>
    BY <1>1, <2>2, PathEnd
  <2>4. /\ x = IF UsesCl THEN "queue" ELSE "idle"
        /\ d = IF Worker THEN "any" ELSE IF isReal THEN "real_done" ELSE "done"
    BY <2>3 DEF End
  <2>5. cmd # "pending"
    BY <2>2, <2>4 DEF UseState
  <2>6. ~Worker => (IF isReal THEN spectrum ELSE complex_frame) = Samples("spectrum")
    BY <2>2, <2>4 DEF ContentState
  <2>7. UsesCl => \/ queue = <<>> /\ DOMAIN queue = {}
                  \/ isReal /\ \A i \in DOMAIN queue : Quantizes(queue[i])
    BY <2>2, <2>4, SequenceFacts DEF ContentState, UsesCl, EngineInv, Shape
  <2>8. /\ UsesVk' = UsesVk /\ UsesCl' = UsesCl /\ Worker' = Worker
        /\ Samples("spectrum")' = Samples("spectrum")
    BY <1>1, ConfigKept DEF Samples, frameVars
  <2>9. EngineTypeOK' /\ Shape'
    BY <1>1, <2>1 DEF EngineInv, EngineTypeOK, Shape, frameVars, SpectrumLen, vkVars, vkObjects, vkWork,
                      clVars
  <2>10. Closed' /\ Acquiring' /\ Complete' /\ Releasing' /\ Objects'
    BY <1>1, <2>1, ObjectsKept DEF vkVars, vkObjects, clVars
  <2>11. WindowLoaded'
    BY <1>1, <2>1, <2>8 DEF EngineInv, WindowLoaded, vkVars, vkWork
  <2>12. InScript' /\ OutOfScript'
    BY <1>1, <2>1, <2>5, <2>6, <2>7, <2>8 DEF InScript, OutOfScript, vkVars, vkWork, frameVars, clVars
  <2> QED
    BY <2>9, <2>10, <2>11, <2>12 DEF EngineInv
<1> QED
  BY <1>2, <1>3

\* Drop releases the next object.
LEMMA DropInv == EngineInv /\ Drop => EngineInv'
<1> SUFFICES ASSUME EngineInv, Drop
             PROVE  EngineInv'
  OBVIOUS
<1> DEFINE o == Head(todo)
           Left(u) == \E i \in DOMAIN todo' : todo'[i] = u
<1>1. /\ phase = "drop" /\ phase' \in {"drop", "gone"} /\ todo # <<>> /\ todo' = Tail(todo)
      /\ phase' = "gone" => todo' = <<>>
      /\ UNCHANGED <<machine, acc, isReal, onError, frameVars, result>>
  BY DEF Drop, config
<1>2. /\ UsesVk' = UsesVk /\ UsesCl' = UsesCl /\ Worker' = Worker /\ BackEnd' = BackEnd
      /\ EntryDropped' = {"entry"} /\ EntryDropped = {"entry"}
      /\ Samples("spectrum")' = Samples("spectrum") /\ cmd # "pending"
  BY <1>1, ConfigKept DEF Samples, frameVars, BackEnd, EntryDropped, EngineInv, OutOfScript
<1>3. /\ Sequence(todo) /\ Sequence(todo') /\ o = todo[1] /\ Len(todo) \in Nat \ {0}
      /\ DOMAIN todo = 1 .. Len(todo) /\ DOMAIN todo' = 1 .. Len(todo) - 1
      /\ \A i \in DOMAIN todo' : todo'[i] = todo[i + 1] /\ i + 1 \in DOMAIN todo
  <2>1. Sequence(todo)
    BY DEF EngineInv, Shape
  <2>2. /\ Sequence(todo') /\ o = todo[1] /\ Len(todo') = Len(todo) - 1
        /\ \A i \in 1 .. Len(todo) - 1 : todo'[i] = todo[i + 1]
    BY <1>1, <2>1, TailSequence
  <2> QED
    BY <1>1, <2>1, <2>2, SequenceFacts
<1>4. phase' = "gone" => \A u : ~Left(u)
  BY <1>1, <1>3, SequenceFacts
<1>5. ASSUME NEW u, \E i \in DOMAIN todo : todo[i] = u, u # o
      PROVE  Left(u)
  <2>1. PICK i \in DOMAIN todo : todo[i] = u /\ i # 1
    BY <1>3, <1>5
  <2>2. i - 1 \in DOMAIN todo' /\ todo'[i - 1] = u
    BY <1>3, <2>1
  <2> QED
    BY <2>2
<1>6. ASSUME UsesVk \/ UsesCl
      PROVE  Removable(BackEnd, todo')
  <2> SUFFICES ASSUME NEW i \in DOMAIN todo', NEW j \in 1 .. i - 1,
                      todo'[j] \in NeedsIn(BackEnd, todo'[i])
               PROVE  BackEnd = Opencl /\ todo'[j] = "context" /\ todo'[i] \in Attached
    BY DEF Removable
  <2>1. /\ todo'[i] = todo[i + 1] /\ i + 1 \in DOMAIN todo
        /\ todo'[j] = todo[j + 1] /\ j + 1 \in 1 .. (i + 1) - 1
    BY <1>3
  <2> QED
    BY <1>1, <1>6, <2>1 DEF EngineInv, Releasing, Removable
<1>7. ASSUME UsesVk \/ UsesCl, NEW u, Left(u), o \in NeedsIn(BackEnd, u)
      PROVE  BackEnd = Opencl /\ o = "context" /\ u \in Attached
  <2>1. PICK i \in DOMAIN todo' : todo'[i] = u
    BY <1>7
  <2>2. todo[i + 1] = u /\ i + 1 \in DOMAIN todo /\ 1 \in 1 .. (i + 1) - 1
    BY <1>3, <2>1
  <2> QED
    BY <1>1, <1>3, <1>7, <2>2 DEF EngineInv, Releasing, Removable
<1>8. CASE UsesVk
  <2>1. Destroy(o) /\ UNCHANGED clVars /\ ~UsesCl
    BY <1>8 DEF Drop, UsesVk, UsesCl
  <2>2. /\ vkLive' = vkLive \ (IF o = "desc_pool" THEN {o, "desc_set"} ELSE {o})
        /\ cmd' \in {"none", cmd} /\ UNCHANGED <<coherent, lost, fence, rec, dirty, host, dev>>
    BY <2>1 DEF Destroy
  <2>3. /\ Live = vkLive /\ Live' = vkLive' /\ BackEnd = Vulkan /\ BackEnd # Opencl
        /\ \A u : NeedsIn(BackEnd, u) = Needs(u) /\ NeedsOf(u) = Needs(u) /\ NeedsOf(u)' = Needs(u)
    BY <1>2, <2>1 DEF Live, BackEnd, NeedsIn, NeedsOf, Vulkan, Opencl
  <2>4. EngineTypeOK' /\ Shape'
    BY <1>1, <1>2, <1>3, <2>1, <2>2
    DEF EngineInv, EngineTypeOK, Shape, CmdStates, frameVars, SpectrumLen, clVars
  <2>5. ASSUME NEW u \in vkLive'
        PROVE  u \in vkLive /\ u # o /\ (Left(u) \/ (u = "desc_set" /\ Left("desc_pool")))
    <3>1. u \in vkLive /\ u # o /\ (u = "desc_set" => o # "desc_pool")
      BY <2>2
    <3>2. \/ \E i \in DOMAIN todo : todo[i] = u
          \/ u = "desc_set" /\ \E i \in DOMAIN todo : todo[i] = "desc_pool"
      BY <1>1, <1>8, <2>1, <2>3, <3>1 DEF EngineInv, Releasing
    <3>3. CASE \E i \in DOMAIN todo : todo[i] = u
      <4>1. u # o
        BY <3>1
      <4>2. Left(u)
        BY <1>5, <3>3, <4>1
      <4> QED
        BY <3>1, <4>2
    <3>4. CASE u = "desc_set" /\ \E i \in DOMAIN todo : todo[i] = "desc_pool"
      <4>1. "desc_pool" # o
        BY <3>1, <3>4
      <4>2. Left("desc_pool")
        BY <1>5, <3>4, <4>1
      <4> QED
        BY <3>1, <3>4, <4>2
    <3> QED
      BY <3>2, <3>3, <3>4
  <2>6. Releasing'
    BY <1>2, <1>6, <1>8, <2>3, <2>5 DEF Releasing
  <2>7. Closed'
    <3>1. ASSUME NEW u \in vkLive'
          PROVE  Needs(u) \subseteq vkLive' \cup {"entry"}
      <4>1. u \in vkLive /\ Needs(u) \subseteq vkLive \cup {"entry"}
        BY <1>2, <2>1, <2>3, <2>5 DEF EngineInv, Closed
      <4>2. o \notin Needs(u)
        <5>1. CASE Left(u)
          BY <1>7, <1>8, <2>3, <5>1
        <5>2. CASE u = "desc_set" /\ Left("desc_pool")
          <6>1. o \notin Needs("desc_pool") /\ o # "desc_pool"
            BY <1>7, <1>8, <2>2, <2>3, <5>2
          <6> QED
            BY <5>2, <6>1 DEF Needs
        <5> QED
          BY <2>5, <5>1, <5>2
      <4>3. "desc_set" \notin Needs(u)
        BY DEF Needs
      <4> QED
        BY <2>2, <4>1, <4>2, <4>3
    <3> QED
      BY <1>2, <2>1, <2>3, <3>1 DEF Closed
  <2>8. Acquiring' /\ Complete' /\ InScript'
    BY <1>1 DEF Acquiring, Complete, InScript
  <2>9. Objects'
    <3>1. phase' = "gone" => vkLive' = {}
      BY <1>4, <2>5
    <3> QED
      BY <1>1, <1>2, <1>8, <2>1, <3>1 DEF EngineInv, Objects, clVars
  <2>10. WindowLoaded' /\ OutOfScript'
    BY <1>1, <1>2, <2>1, <2>2 DEF EngineInv, WindowLoaded, OutOfScript, frameVars, clVars
  <2> QED
    BY <2>4, <2>6, <2>7, <2>8, <2>9, <2>10 DEF EngineInv
<1>9. ASSUME ~UsesVk
      PROVE  /\ ClRelease(o) /\ UNCHANGED vkVars /\ queue' \in {<<>>, queue} /\ DOMAIN queue' \subseteq DOMAIN queue
             /\ EngineTypeOK' /\ Shape' /\ OutOfScript'
             /\ WindowLoaded' /\ Acquiring' /\ Complete' /\ InScript'
  <2>1. ClRelease(o) /\ UNCHANGED vkVars
    BY <1>9 DEF Drop
  <2>2. /\ queue' \in {<<>>, queue} /\ clmem' = clmem
        /\ Sequence(queue') /\ DOMAIN queue' \subseteq DOMAIN queue
        /\ \A i \in DOMAIN queue' : i \in DOMAIN queue /\ queue'[i] = queue[i]
    <3>1. queue' \in {<<>>, queue} /\ clmem' = clmem
      BY <2>1 DEF ClRelease
    <3>2. Sequence(<<>>) /\ DOMAIN <<>> = {}
      BY SequenceFacts DEF Sequence
    <3> QED
      BY <3>1, <3>2 DEF EngineInv, Shape
  <2>3. EngineTypeOK'
    BY <1>1, <2>1 DEF EngineInv, EngineTypeOK, frameVars, SpectrumLen, vkVars, vkWork
  <2>4. Shape'
    BY <1>1, <1>3, <2>1, <2>2 DEF EngineInv, Shape, frameVars, vkVars, vkObjects, vkWork
  <2>5. OutOfScript'
    BY <1>1, <1>2, <2>1, <2>2 DEF EngineInv, OutOfScript, Quantizes, frameVars, vkVars, vkWork
  <2>6. WindowLoaded' /\ Acquiring' /\ Complete' /\ InScript'
    BY <1>1, <1>2, <1>9 DEF WindowLoaded, Acquiring, Complete, InScript
  <2> QED
    BY <2>1, <2>2, <2>3, <2>4, <2>5, <2>6
<1>10. CASE UsesCl
  <2>1. ~UsesVk /\ ClRelease(o) /\ UNCHANGED vkVars
    BY <1>9, <1>10 DEF UsesVk, UsesCl
  <2>2. /\ Live = clLive /\ Live' = clLive' /\ BackEnd = Opencl
        /\ \A u : NeedsIn(BackEnd, u) = ClNeeds(u) /\ NeedsOf(u) = ClNeeds(u) /\ NeedsOf(u)' = ClNeeds(u)
    BY <1>2, <1>10 DEF Live, BackEnd, NeedsIn, NeedsOf, Vulkan, Opencl
  <2>3. /\ \A u \in clLive' : u \in clLive /\ (u # o \/ u = "context")
        /\ \A u \in clLive \ {o} : u \in clLive' \/ u = "context"
        /\ clLive' \cap Attached = clLive \cap (Attached \ {o})
        /\ "context" \in clLive' => clLive' \cap Attached # {}
        /\ "context" \in clLive /\ clLive' \cap Attached # {} => "context" \in clLive'
    BY <2>1 DEF ClRelease, Attached
  <2>4. ASSUME NEW u \in clLive'
        PROVE  Left(u) \/ u = "setup" \/ (u = "context" /\ clLive' \cap Attached # {})
    <3> SUFFICES ASSUME u # "context"
                 PROVE  Left(u) \/ u = "setup"
      BY <2>3
    <3>1. u \in clLive /\ u # o
      BY <2>3
    <3>2. (\E i \in DOMAIN todo : todo[i] = u) \/ u = "setup"
      BY <1>1, <1>10, <2>1, <2>2, <3>1 DEF EngineInv, Releasing
    <3> QED
      BY <1>5, <3>1, <3>2
  <2>5. Releasing'
    BY <1>2, <1>6, <1>10, <2>2, <2>4 DEF Releasing
  <2>6. Closed'
    <3>1. ASSUME NEW u \in clLive', NEW x \in ClNeeds(u)
          PROVE  x \in clLive'
      <4>1. u \in clLive /\ ClNeeds(u) \subseteq clLive \cup {"entry"}
        BY <1>1, <1>2, <2>2, <2>3 DEF EngineInv, Closed
      <4>2. /\ u \in Attached \cup {"plan"} /\ x \in {"setup", "context", "queue"}
            /\ u \in Attached => x = "context"
            /\ u = "plan" => "queue" \in ClNeeds(u)
            /\ "queue" \in Attached /\ u # "context" /\ u # "setup" /\ "plan" \notin Attached
        BY <3>1 DEF ClNeeds, Attached
      <4>3. x \in clLive /\ Left(u)
        BY <2>4, <4>1, <4>2
      <4>4. u \in Attached => x \in clLive'
        BY <2>3, <4>2, <4>3
      <4>5. u = "plan" => x \in clLive'
        <5> SUFFICES ASSUME u = "plan"
                     PROVE  x \in clLive'
          OBVIOUS
        <5>1. o \notin ClNeeds(u)
          BY <1>7, <1>10, <2>2, <4>2, <4>3
        <5>2. "queue" \in clLive /\ "queue" # o
          BY <4>1, <4>2, <5>1
        <5>3. clLive' \cap Attached # {}
          BY <2>3, <4>2, <5>2
        <5> QED
          BY <2>3, <3>1, <4>3, <5>1, <5>3
      <4> QED
        BY <4>2, <4>4, <4>5
    <3> QED
      BY <1>1, <1>2, <2>2, <3>1 DEF Closed
  <2>7. Objects'
    <3>1. ASSUME phase' = "gone", NEW u \in clLive'
          PROVE  u = "setup"
      <4>1. clLive' \cap Attached = {}
        <5>1. ASSUME NEW v \in clLive' \cap Attached
              PROVE  FALSE
          BY <1>4, <2>4, <3>1, <5>1 DEF Attached
        <5> QED
          BY <5>1
      <4> QED
        BY <1>4, <2>4, <3>1, <4>1
    <3> QED
      BY <1>1, <1>2, <1>10, <2>1, <3>1 DEF EngineInv, Objects, vkVars, vkObjects
  <2> QED
    BY <1>9, <2>1, <2>5, <2>6, <2>7 DEF EngineInv
<1>11. CASE ~UsesVk /\ ~UsesCl
  <2>1. UNCHANGED vkLive /\ clLive = {} /\ clLive' = {}
    BY <1>9, <1>11 DEF EngineInv, Objects, ClRelease, vkVars, vkObjects
  <2>2. Live' = Live /\ \A u : NeedsOf(u)' = NeedsOf(u)
    BY <1>2, <1>11, <2>1 DEF Live, NeedsOf
  <2>3. Closed' /\ Releasing' /\ Objects'
    BY <1>1, <1>2, <1>11, <2>1, <2>2 DEF EngineInv, Closed, Releasing, Objects
  <2> QED
    BY <1>9, <1>11, <2>3 DEF EngineInv
<1> QED
  BY <1>8, <1>10, <1>11

\* A frame is assembled: its script is a path from where execute() starts.
LEMMA ExecuteInv ==
  ASSUME EngineInv, NEW want \in BOOLEAN, Execute(want)
  PROVE  EngineInv'
<1>1. /\ phase = "idle" /\ phase' = "execute" /\ frame < MaxFrames /\ frame' = frame + 1
      /\ half_a' = frame + 1 /\ half_b' = frame + 2 /\ quantized' = NoFrame /\ result' = "none"
      /\ todo' = ExecuteScript(want) /\ onError' = FirstHandler
      /\ UNCHANGED <<machine, acc, isReal, vkVars, clVars>>
  BY DEF Execute, config
<1>2. /\ UsesVk' = UsesVk /\ UsesCl' = UsesCl /\ Worker' = Worker
      /\ End' = End
  BY <1>1 DEF UsesVk, UsesCl, Worker, End
<1>3. Path(todo', <<End[1], Start>>, End)
  BY <1>1, ScriptPath DEF EngineInv, Shape
<1>4. /\ cmd # "pending" /\ (UsesCl /\ ~isReal => queue = <<>>)
      /\ isReal \in BOOLEAN /\ Sequence(queue) /\ frame \in 0 .. MaxFrames
  BY <1>1 DEF EngineInv, OutOfScript, Shape, EngineTypeOK
<1>5. /\ onError' \in {"error", "fallback", "cpu_quantize"}
      /\ onError' = "cpu_quantize" <=> Worker
      /\ onError' = "fallback" <=> ~Worker /\ ~isReal /\ (UsesVk \/ UsesCl)
  BY <1>1 DEF FirstHandler
<1>6. EngineTypeOK'
  BY <1>1, <1>4, <1>5 DEF EngineInv, EngineTypeOK, vkVars, vkWork
<1>7. Shape'
  <2>1. Sequence(todo')
    BY <1>3 DEF Path
  <2> QED
    BY <1>1, <1>4, <2>1 DEF EngineInv, Shape, vkVars, vkObjects, vkWork, clVars
<1>8. Closed' /\ Acquiring' /\ Complete' /\ Releasing' /\ Objects'
  BY <1>1, ObjectsKept DEF vkVars, vkObjects, clVars
<1>9. WindowLoaded'
  BY <1>1, <1>2 DEF EngineInv, WindowLoaded, vkVars, vkWork
<1>10. InScript'
  <2>1. PICK x \in {"queue", "idle"}, d \in {"any", "real0", "start", "cpu_start"} :
          x = (IF UsesCl THEN "queue" ELSE "idle") /\ d = Start
    BY DEF Start
  <2>2. UseState(x)'
    BY <1>1, <1>2, <1>4, <2>1 DEF UseState, vkVars, vkWork
  <2>4. (d = "real0") => RealSent(0)'
    <3> SUFFICES ASSUME d = "real0"
                 PROVE  RealSent(0)'
      OBVIOUS
    <3>1. onError' = "error" /\ isReal'
      BY <1>1, <1>4, <1>5, <2>1 DEF Start
    <3>2. InQueue(RealWork, 0, 0, Len(queue))'
      BY <1>1, <1>4, SequenceFacts DEF InQueue, clVars
    <3>3. RealDone(0)'
      BY DEF RealDone
    <3>4. Len(queue') \in Nat
      BY <1>1, <1>4, SequenceFacts DEF clVars
    <3> QED
      BY <3>1, <3>2, <3>3, <3>4 DEF RealSent
  <2>5. d = "start" => acc' # "none"
    BY <1>1, <2>1 DEF Start, UsesVk, UsesCl
  <2>9. ContentState(d)'
    BY <1>1, <1>2, <1>4, <1>5, <2>1, <2>4, <2>5 DEF ContentState, Start, clVars
  <2>6. HandlerOK(d)'
    BY <1>1, <1>2, <1>5, <2>1 DEF HandlerOK, Start
  <2>7. x \in Uses /\ d \in Contents
    BY DEF Uses, Contents
  <2>8. Path(todo', <<x, d>>, End')
    BY <1>2, <1>3, <2>1 DEF End
  <2> QED
    BY <1>1, <2>2, <2>6, <2>7, <2>8, <2>9 DEF InScript
<1>11. OutOfScript'
  BY <1>1 DEF OutOfScript
<1> QED
  BY <1>6, <1>7, <1>8, <1>9, <1>10, <1>11 DEF EngineInv

\* One call further in the script.
LEMMA CallMade ==
  ASSUME EngineInv, phase = "execute", todo # <<>>
  PROVE  /\ result = "none" /\ Sequence(todo) /\ Sequence(Tail(todo))
         /\ \E x \in Uses, y \in Uses, d \in Contents, e \in Contents :
              /\ UseStep(Head(todo), x, y) /\ ContentStep(Head(todo), x, d, e)
              /\ Path(Tail(todo), <<y, e>>, End)
              /\ UseState(x) /\ ContentState(d) /\ HandlerOK(d)
<1>1. Sequence(todo) /\ Sequence(Tail(todo))
  BY TailSequence DEF EngineInv, Shape
<1>2. PICK x \in Uses, d \in Contents :
        Path(todo, <<x, d>>, End) /\ UseState(x) /\ ContentState(d) /\ HandlerOK(d)
  BY DEF EngineInv, InScript
<1>3. PICK m \in Stages : Leads(Head(todo), <<x, d>>, m) /\ Path(Tail(todo), m, End)
  BY <1>2, PathStep
<1>4. m[1] \in Uses /\ m[2] \in Contents /\ m = <<m[1], m[2]>>
  BY DEF Stages
<1>5. UseStep(Head(todo), x, m[1]) /\ ContentStep(Head(todo), x, d, m[2])
  BY <1>3 DEF Leads
<1>6. result = "none"
  BY DEF EngineInv, InScript
<1> QED
  BY <1>1, <1>2, <1>3, <1>4, <1>5, <1>6

\* A call that establishes the claims of the next stage keeps the invariant.
LEMMA Advance ==
  ASSUME EngineInv, phase = "execute", phase' = "execute", todo # <<>>,
         UNCHANGED <<machine, acc, isReal, frame, half_a, half_b, vkLive, clLive>>, result' = "none",
         NEW y \in Uses, NEW e \in Contents, todo' = Tail(todo), Path(Tail(todo), <<y, e>>, End),
         UseState(y)', ContentState(e)', HandlerOK(e)', EngineTypeOK', Shape',
         Worker \/ dev'.window = dev.window
  PROVE  EngineInv'
<1>1. /\ UsesVk' = UsesVk /\ UsesCl' = UsesCl /\ Worker' = Worker
      /\ End' = End
  BY DEF UsesVk, UsesCl, Worker, End
<1>2. Closed' /\ Acquiring' /\ Complete' /\ Releasing' /\ Objects'
  BY ObjectsKept
<1>3. WindowLoaded'
  BY <1>1 DEF EngineInv, WindowLoaded
<1>4. InScript'
  BY <1>1 DEF InScript
<1>5. OutOfScript'
  BY DEF OutOfScript
<1> QED
  BY <1>2, <1>3, <1>4, <1>5 DEF EngineInv

\* The shaders and the CPU's functions on the samples of this frame.
LEMMA Shaders ==
  /\ ApplyTransform(Samples("windowed")) = Samples("spectrum")
  /\ dev.window = "hann" => ApplyWindow(Samples("raw")) = Samples("windowed")
<1>1. \A a, b, s, t : <<a, b, s>>[3] = s /\ [<<a, b, s>> EXCEPT ![3] = t] = <<a, b, t>>
  OBVIOUS
<1> QED
  BY <1>1 DEF ApplyTransform, ApplyWindow, Samples

\* The CPU's waterfall frame has all levels.
LEMMA CpuWaterfall ==
  ASSUME NEW sig, NEW n, NEW base
  PROVE  DOMAIN quantize_and_downsample_cpu(sig, n, base) = 0 .. TotalLen(n) - 1
BY Zenon DEF quantize_and_downsample_cpu, Concat

\* A step on the CPU.
LEMMA CpuStepInv == EngineInv /\ CpuStep => EngineInv'
<1> SUFFICES ASSUME EngineInv, CpuStep
             PROVE  EngineInv'
  OBVIOUS
<1> DEFINE c == Head(todo)
<1>1. /\ phase = "execute" /\ phase' = phase /\ todo # <<>> /\ todo' = Tail(todo) /\ c[1] \in CpuCalls
      /\ UNCHANGED <<machine, acc, isReal, frame, half_a, half_b, wanted, result, vkVars, clVars>>
  BY DEF CpuStep, config
<1>2. /\ complex_frame' = CASE c[1] = "assemble" -> Samples("raw")
                            [] c[1] = "window_cpu" -> Samples("windowed")
                            [] c[1] = "fft_cpu" -> ApplyTransform(complex_frame)
                            [] OTHER -> complex_frame
      /\ spectrum' = IF c[1] = "real_cpu" THEN Samples("spectrum") ELSE spectrum
      /\ onError' = IF c[1] = "catch" THEN c[2] ELSE onError
      /\ c[1] # "quant_cpu" => quantized' = quantized
  BY DEF CpuStep
<1>3. c[1] = "quant_cpu" => DOMAIN quantized' = 0 .. TotalLen(SpectrumLen) - 1
  BY CpuWaterfall DEF CpuStep
<1>4. PICK x \in Uses, y \in Uses, d \in Contents, e \in Contents :
        /\ UseStep(c, x, y) /\ ContentStep(c, x, d, e)
        /\ Path(Tail(todo), <<y, e>>, End)
        /\ UseState(x) /\ ContentState(d) /\ HandlerOK(d)
  BY <1>1, CallMade
<1>5. result = "none" /\ Sequence(todo')
  BY <1>1, CallMade
<1> HIDE DEF c
<1>6. y = x
  BY <1>1, <1>4 DEF UseStep, CpuCalls, ClCalls, IdleCalls
<1>7. \/ d = "any" /\ e = "any" /\ c[1] # "catch"
      \/ CpuContent(c, x, d, e)
  BY <1>1, <1>4 DEF ContentStep
<1>8. UsesVk' = UsesVk /\ UsesCl' = UsesCl /\ Worker' = Worker /\ \A s : Samples(s)' = Samples(s)
  BY <1>1 DEF UsesVk, UsesCl, Worker, Samples
<1>9. c[1] = "catch" => c[2] = "drop_waterfall" /\ d = "real_done" /\ e = "real_done"
  BY <1>7 DEF CpuContent
<1>10. UseState(y)'
  BY <1>1, <1>4, <1>6, <1>8 DEF UseState, vkVars, vkWork
<1>11. HandlerOK(e)'
  BY <1>1, <1>2, <1>4, <1>7, <1>8, <1>9 DEF HandlerOK, CpuContent
<1>12. ContentState(e)'
  <2>1. CASE d = "any" /\ e = "any"
    BY <2>1, <1>4, <1>8 DEF ContentState
  <2>2. CASE c[1] = "assemble" /\ d = "start" /\ e = "raw"
    BY <2>2, <1>1, <1>2, <1>4, <1>8 DEF ContentState, clVars
  <2>3. CASE c[1] = "window_cpu" /\ d = "cpu_start" /\ e = "windowed"
    BY <2>3, <1>1, <1>2, <1>4, <1>8 DEF ContentState
  <2>4. CASE c[1] = "fft_cpu" /\ x = "idle" /\ d = "windowed" /\ e = "done"
    <3>1. complex_frame' = Samples("spectrum") /\ ~UsesCl
      BY <2>4, <1>2, <1>4, Shaders DEF ContentState, UseState
    <3> QED
      BY <2>4, <3>1, <1>1, <1>4, <1>8 DEF ContentState
  <2>5. CASE c[1] = "real_cpu" /\ x = "idle" /\ d = "real0" /\ e = "real_done"
    <3>1. spectrum' = Samples("spectrum") /\ ~UsesCl /\ isReal
      BY <2>5, <1>2, <1>4 DEF ContentState, UseState, RealSent
    <3> QED
      BY <2>5, <3>1, <1>1, <1>8 DEF ContentState
  <2>6. CASE c[1] = "quant_cpu" /\ d \in {"done", "real_done"} /\ e = d
    BY <2>6, <1>1, <1>2, <1>4, <1>8 DEF ContentState, clVars
  <2>7. CASE c[1] = "catch" /\ d = "real_done" /\ e = d
    BY <2>7, <1>1, <1>2, <1>4, <1>8 DEF ContentState, clVars
  <2> QED
    BY <1>7, <2>1, <2>2, <2>3, <2>4, <2>5, <2>6, <2>7 DEF CpuContent
<1>13. EngineTypeOK'
  BY <1>1, <1>2, <1>3, <1>9 DEF EngineInv, EngineTypeOK, vkVars, vkWork, SpectrumLen
<1>14. Shape'
  BY <1>1, <1>5 DEF EngineInv, Shape, vkVars, vkObjects, vkWork, clVars
<1> QED
  BY <1>1, <1>4, <1>5, <1>10, <1>11, <1>12, <1>13, <1>14, Advance DEF vkVars, vkObjects, vkWork, clVars

\* What a failed call leaves of the objects: nothing runs any more.
LEMMA FailedCall ==
  ASSUME EngineInv, NEW c, NEW x \in Uses, NEW y \in Uses, UseStep(c, x, y), UseState(x),
         c[1] \notin CpuCalls,
         IF UsesCl THEN ClCallFails(c) /\ UNCHANGED vkVars ELSE VkCallFails(c) /\ UNCHANGED clVars
  PROVE  /\ cmd' # "pending" /\ cmd' \in {cmd, "invalid"} /\ rec' \in {rec, <<>>}
         /\ UNCHANGED <<vkLive, coherent, fence, host, dev, clVars>>
<1>1. CASE UsesCl
  <2>1. x = "queue"
    BY <1>1 DEF UseState, Uses
  <2> QED
    BY <1>1, <2>1 DEF UseState, ClCallFails, vkVars, vkObjects, vkWork
<1>2. CASE ~UsesCl /\ c[1] = "wait"
  BY <1>2 DEF VkCallFails
<1>3. CASE ~UsesCl /\ c[1] # "wait"
  <2>1. UNCHANGED vkVars /\ UNCHANGED clVars
    BY <1>3 DEF VkCallFails
  <2>2. x # "submitted"
    BY <1>3 DEF UseStep, ClCalls, IdleCalls
  <2>3. cmd # "pending"
    BY <2>2 DEF UseState, Uses
  <2> QED
    BY <2>1, <2>3 DEF vkVars, vkObjects, vkWork
<1> QED
  BY <1>1, <1>2, <1>3

\* A GPU call fails: the code that handles the error starts on another path.
LEMMA GpuFailsInv == EngineInv /\ GpuFails => EngineInv'
<1> SUFFICES ASSUME EngineInv, GpuFails
             PROVE  EngineInv'
  OBVIOUS
<1> DEFINE c == Head(todo)
<1>1. /\ phase = "execute" /\ phase' = phase /\ todo # <<>> /\ c[1] \notin CpuCalls
      /\ IF UsesCl THEN ClCallFails(c) /\ UNCHANGED vkVars ELSE VkCallFails(c) /\ UNCHANGED clVars
      /\ todo' = CASE onError = "fallback" -> CpuScript(wanted)
                   [] onError = "cpu_quantize" -> << <<"quant_cpu">> >>
                   [] OTHER -> <<>>
      /\ quantized' = NoFrame
      /\ result' = IF onError = "error" THEN "err" ELSE result
      /\ onError' = "error"
      /\ UNCHANGED <<machine, acc, isReal, frame, half_a, half_b, complex_frame, spectrum, wanted>>
  BY DEF GpuFails, Fallback, config
<1>2. PICK x \in Uses, y \in Uses, d \in Contents, e \in Contents :
        /\ UseStep(c, x, y) /\ ContentStep(c, x, d, e)
        /\ UseState(x) /\ ContentState(d) /\ HandlerOK(d)
  BY <1>1, CallMade
<1>3. result = "none"
  BY <1>1, CallMade
<1> HIDE DEF c
<1>4. /\ cmd' # "pending" /\ cmd' \in {cmd, "invalid"} /\ rec' \in {rec, <<>>}
      /\ UNCHANGED <<vkLive, coherent, fence, host, dev, clVars>>
  BY <1>1, <1>2, FailedCall
<1>5. /\ UsesVk' = UsesVk /\ UsesCl' = UsesCl /\ Worker' = Worker
      /\ End' = End /\ Samples("spectrum")' = Samples("spectrum")
  BY <1>1 DEF UsesVk, UsesCl, Worker, End, Samples
<1>6. /\ onError \in {"error", "fallback", "drop_waterfall", "cpu_quantize"}
      /\ onError = "cpu_quantize" => Worker /\ d = "any"
      /\ onError = "drop_waterfall" => d = "real_done" /\ ~Worker
      /\ onError = "fallback" => ~isReal /\ ~Worker
  BY <1>2 DEF EngineInv, EngineTypeOK, HandlerOK
<1>7. PICK h \in Uses, f \in Contents :
        h = End[1] /\ f = IF onError = "fallback" THEN "cpu_start" ELSE End[2]
  BY DEF End, Uses, Contents
<1>8. onError # "error" => Path(todo', <<h, f>>, End)
  <2>1. CASE onError = "fallback"
    BY <2>1, <1>1, <1>6, <1>7, CpuPath
  <2>2. CASE onError = "cpu_quantize"
    <3>1. <<h, f>> = End
      BY <2>2, <1>7 DEF End
    <3> QED
      BY <2>2, <3>1, <1>1, <1>6, WorkerPath
  <2>3. CASE onError = "drop_waterfall"
    <3>1. <<h, f>> = End /\ End \in Stages
      BY <2>3, <1>7 DEF End, Stages, Uses, Contents
    <3> QED
      BY <2>3, <3>1, <1>1, PathNil
  <2> QED
    BY <1>6, <2>1, <2>2, <2>3
<1>9. Sequence(todo')
  <2>1. Sequence(<<>>)
    BY DEF Sequence
  <2>2. CASE onError = "error"
    BY <2>1, <2>2, <1>1
  <2> QED
    BY <1>8, <2>2 DEF Path
<1>10. UseState(h)'
  BY <1>7, <1>4, <1>5 DEF UseState, End
<1>11. onError # "error" => ContentState(f)' /\ HandlerOK(f)'
  <2>1. CASE onError = "fallback"
    BY <2>1, <1>1, <1>5, <1>6, <1>7 DEF ContentState, HandlerOK
  <2>2. CASE onError = "cpu_quantize"
    BY <2>2, <1>1, <1>5, <1>6, <1>7 DEF ContentState, HandlerOK, End
  <2>3. CASE onError = "drop_waterfall"
    <3>1. f = "real_done"
      BY <2>3, <1>2, <1>6, <1>7 DEF End, ContentState
    <3> QED
      BY <2>3, <3>1, <1>1, <1>2, <1>4, <1>5, <1>6 DEF ContentState, HandlerOK, clVars
  <2> QED
    BY <1>6, <2>1, <2>2, <2>3
<1>12. InScript'
  <2>1. CASE onError = "error"
    BY <2>1, <1>1, <1>4 DEF InScript
  <2>2. CASE onError # "error"
    <3>1. Path(todo', <<h, f>>, End')
      BY <2>2, <1>5, <1>8
    <3> QED
      BY <2>2, <3>1, <1>1, <1>3, <1>5, <1>7, <1>10, <1>11 DEF InScript
  <2> QED
    BY <2>1, <2>2
<1>13. EngineTypeOK'
  BY <1>1, <1>3, <1>4 DEF EngineInv, EngineTypeOK, CmdStates
<1>14. Shape'
  <2>1. Sequence(<<>>) /\ DOMAIN <<>> = {}
    BY DEF Sequence
  <2>2. Sequence(rec') /\ \A i \in DOMAIN rec' : rec'[i].op \in VkKernels
    BY <2>1, <1>4 DEF EngineInv, Shape
  <2> QED
    BY <2>2, <1>1, <1>4, <1>9 DEF EngineInv, Shape, clVars
<1>15. Closed' /\ Acquiring' /\ Complete' /\ Releasing' /\ Objects' /\ WindowLoaded'
  <2>1. Closed' /\ Acquiring' /\ Complete' /\ Releasing' /\ Objects'
    BY <1>1, <1>4, ObjectsKept DEF clVars
  <2>2. WindowLoaded'
    BY <1>1, <1>4, <1>5 DEF EngineInv, WindowLoaded
  <2> QED
    BY <2>1, <2>2
<1>16. OutOfScript'
  BY <1>1 DEF OutOfScript
<1> QED
  BY <1>12, <1>13, <1>14, <1>15, <1>16 DEF EngineInv

\* A command behind a queue.
LEMMA AppendSequence ==
  ASSUME NEW s, Sequence(s), NEW v
  PROVE  /\ Sequence(Append(s, v)) /\ Len(Append(s, v)) = Len(s) + 1
         /\ \A i \in 1 .. Len(s) + 1 : Append(s, v)[i] = IF i <= Len(s) THEN s[i] ELSE v
<1> DEFINE S == {s[i] : i \in DOMAIN s} \cup {v}
<1>1. s \in Seq(S) /\ v \in S
  BY SequenceFacts DEF Sequence
<1>2. /\ Append(s, v) \in Seq(S) /\ Len(Append(s, v)) = Len(s) + 1
      /\ \A i \in 1 .. Len(s) + 1 : Append(s, v)[i] = IF i <= Len(s) THEN s[i] ELSE v
  BY <1>1
<1> QED
  BY <1>2, TightSequence

\* The three commands of a Vulkan transform, by their places.
LEMMA TripleSequence ==
  ASSUME NEW s, Sequence(s), Len(s) = 3
  PROVE  s = <<s[1], s[2], s[3]>>
<1> DEFINE S == {s[i] : i \in DOMAIN s}
<1>1. s \in Seq(S)
  BY DEF Sequence
<1>2. s[1] \in S /\ s[2] \in S /\ s[3] \in S
  BY <1>1
<1>3. <<s[1], s[2], s[3]>> \in Seq(S) /\ Len(<<s[1], s[2], s[3]>>) = 3
  BY <1>2
<1> DEFINE t == <<s[1], s[2], s[3]>>
<1>4. t[1] = s[1] /\ t[2] = s[2] /\ t[3] = s[3]
  OBVIOUS
<1>5. \A i \in 1 .. 3 : s[i] = t[i]
  BY <1>4
<1>6. t \in Seq(S) /\ Len(t) = 3
  BY <1>3
<1> HIDE DEF t
<1>7. s = t
  BY <1>1, <1>5, <1>6, SeqEqual
<1> QED
  BY <1>7 DEF t

\* A third command behind two.
LEMMA AppendToTwo ==
  ASSUME NEW k, NEW l, NEW n
  PROVE  Append(<<k, l>>, n) = <<k, l, n>>
<1> DEFINE s == Append(<<k, l>>, n)
<1>1. Sequence(<<k, l>>) /\ Len(<<k, l>>) = 2 /\ <<k, l>>[1] = k /\ <<k, l>>[2] = l
  BY DEF Sequence
<1>2. Sequence(s) /\ Len(s) = 3 /\ s[1] = k /\ s[2] = l /\ s[3] = n
  BY <1>1, AppendSequence
<1> QED
  BY <1>2, TripleSequence

\* What a Vulkan call leaves of the objects, whatever the call.
LEMMA VkCallShape ==
  ASSUME Shape, EngineTypeOK, NEW c, NEW x \in Uses, NEW y \in Uses, UseStep(c, x, y), UseState(x),
         x # "queue", c[1] \notin CpuCalls, VkCall(c, complex_frame), UNCHANGED <<machine, acc, isReal>>
  PROVE  /\ UseState(y)' /\ cmd' \in CmdStates /\ fence' \in {"unsignaled", "signaled"}
         /\ Sequence(rec') /\ \A i \in DOMAIN rec' : rec'[i].op \in VkKernels
         /\ host' = [b \in Buffers |-> host'[b]] /\ dev' = [b \in Buffers |-> dev'[b]]
         /\ coherent' => host' = dev'
         /\ cmd' = "pending" => fence' = "unsignaled" /\ rec' # <<>>
         /\ UNCHANGED <<vkLive, coherent>>
<1> USE DEF IdleCalls, ClCalls, CpuCalls, vkVars, vkObjects, vkWork
<1>1. /\ UsesCl' = UsesCl /\ ~UsesCl
      /\ Sequence(rec) /\ \A i \in DOMAIN rec : rec[i].op \in VkKernels
      /\ host = [b \in Buffers |-> host[b]] /\ dev = [b \in Buffers |-> dev[b]]
      /\ coherent => host = dev
      /\ cmd = "pending" => fence = "unsignaled" /\ rec # <<>>
      /\ cmd \in CmdStates /\ fence \in {"unsignaled", "signaled"}
  BY DEF Shape, EngineTypeOK, UsesCl, Worker, UseState, Uses
<1>2. Sequence(<<>>) /\ DOMAIN <<>> = {}
  BY DEF Sequence
<1>3. CASE c[1] = "copy_in"
  <2>1. /\ host' = [host EXCEPT !["fft"] = complex_frame]
        /\ dev' = IF coherent THEN [dev EXCEPT !["fft"] = complex_frame] ELSE dev
        /\ UNCHANGED <<vkLive, coherent, lost, fence, cmd, rec, dirty>>
    BY <1>3 DEF VkCall, CopyIn, HostWrites
  <2>2. x = "idle" /\ y = "idle"
    BY <1>3 DEF UseStep
  <2> QED
    BY <1>1, <2>1, <2>2 DEF UseState
<1>4. CASE c[1] = "flush"
  <2>1. /\ dev' = IF coherent THEN dev ELSE [dev EXCEPT ![c[2]] = host[c[2]]]
        /\ UNCHANGED <<vkLive, coherent, lost, fence, cmd, rec, dirty, host>>
    BY <1>4 DEF VkCall, Flush
  <2>2. x = "idle" /\ y = "idle"
    BY <1>4 DEF UseStep
  <2> QED
    BY <1>1, <2>1, <2>2 DEF UseState
<1>5. CASE c[1] = "invalidate"
  <2>1. /\ host' = IF coherent THEN host ELSE [host EXCEPT ![c[2]] = dev[c[2]]]
        /\ UNCHANGED <<vkLive, coherent, lost, fence, cmd, rec, dirty, dev>>
    BY <1>5 DEF VkCall, Invalidate
  <2>2. x = "idle" /\ y = "idle"
    BY <1>5 DEF UseStep
  <2> QED
    BY <1>1, <2>1, <2>2 DEF UseState
<1>6. CASE c[1] \in {"read_quant", "read_fft", "max_power"}
  <2>1. UNCHANGED vkVars
    BY <1>6 DEF VkCall
  <2>2. x = "idle" /\ y = "idle"
    BY <1>6 DEF UseStep
  <2> QED
    BY <1>1, <2>1, <2>2 DEF UseState
<1>7. CASE c[1] = "reset_fences"
  <2>1. fence' = "unsignaled" /\ UNCHANGED <<vkLive, coherent, lost, cmd, rec, dirty, host, dev>>
    BY <1>7 DEF VkCall, ResetFences
  <2>2. x = "idle" /\ y = "unsig"
    BY <1>7 DEF UseStep
  <2> QED
    BY <1>1, <2>1, <2>2 DEF UseState
<1>8. CASE c[1] = "reset_cmd"
  <2>1. cmd' = "initial" /\ rec' = <<>> /\ UNCHANGED <<vkLive, coherent, lost, fence, dirty, host, dev>>
    BY <1>8 DEF VkCall, SetCmd
  <2>2. x = "unsig" /\ y = "initial"
    BY <1>8 DEF UseStep
  <2> QED
    BY <1>1, <1>2, <2>1, <2>2 DEF UseState, CmdStates
<1>9. CASE c[1] = "begin"
  <2>1. cmd' = "recording" /\ rec' = <<>> /\ UNCHANGED <<vkLive, coherent, lost, fence, dirty, host, dev>>
    BY <1>9 DEF VkCall, SetCmd
  <2>2. x = "initial" /\ y = "begun"
    BY <1>9 DEF UseStep
  <2> QED
    BY <1>1, <1>2, <2>1, <2>2 DEF UseState, CmdStates
<1>10. CASE c[1] = "record"
  <2>1. /\ cmd' = "recording" /\ rec' = rec \o c[2]
        /\ UNCHANGED <<vkLive, coherent, lost, fence, dirty, host, dev>>
    BY <1>10 DEF VkCall, SetCmd
  <2>2. /\ x = "begun" /\ y = "recorded"
        /\ Sequence(c[2]) /\ c[2] # <<>> /\ \A i \in DOMAIN c[2] : c[2][i].op \in VkKernels
    BY <1>10 DEF UseStep
  <2>3. rec = <<>> /\ rec' = c[2]
    <3>1. rec = <<>> /\ c[2] \in Seq({c[2][i] : i \in DOMAIN c[2]})
      BY <2>2 DEF UseState, Sequence
    <3> QED
      BY <3>1, <2>1, ConcatEmptySeq
  <2> QED
    BY <1>1, <2>1, <2>2, <2>3 DEF UseState, CmdStates
<1>11. CASE c[1] = "append"
  <2>1. /\ cmd' = "recording" /\ rec' = Append(rec, TransformCmd)
        /\ UNCHANGED <<vkLive, coherent, lost, fence, dirty, host, dev>>
    BY <1>11 DEF VkCall, SetCmd
  <2>2. x \in {"begun", "recorded"} /\ y = "recorded"
    BY <1>11 DEF UseStep
  <2>3. Sequence(rec') /\ rec' # <<>> /\ \A i \in DOMAIN rec' : rec'[i].op \in VkKernels
    <3>1. TransformCmd.op \in VkKernels
      BY DEF TransformCmd, VkKernels
    <3>2. /\ Sequence(rec') /\ Len(rec') = Len(rec) + 1
          /\ \A i \in 1 .. Len(rec) + 1 : rec'[i] = IF i <= Len(rec) THEN rec[i] ELSE TransformCmd
      BY <1>1, <2>1, AppendSequence
    <3>3. Len(rec) \in Nat /\ DOMAIN rec = 1 .. Len(rec) /\ DOMAIN rec' = 1 .. Len(rec) + 1
      BY <1>1, <3>2, SequenceFacts
    <3>4. rec' # <<>>
      BY <3>2, <3>3, SequenceFacts
    <3> QED
      BY <1>1, <3>1, <3>2, <3>3, <3>4
  <2> QED
    BY <1>1, <2>1, <2>2, <2>3 DEF UseState, CmdStates
<1>12. CASE c[1] = "end"
  <2>1. cmd' = "executable" /\ rec' = rec /\ UNCHANGED <<vkLive, coherent, lost, fence, dirty, host, dev>>
    BY <1>12 DEF VkCall, SetCmd
  <2>2. x = "recorded" /\ y = "executable"
    BY <1>12 DEF UseStep
  <2> QED
    BY <1>1, <2>1, <2>2 DEF UseState, CmdStates
<1>13. CASE c[1] = "submit"
  <2>1. cmd' = "pending" /\ UNCHANGED <<vkLive, coherent, lost, fence, rec, host, dev>>
    BY <1>13 DEF VkCall, Submit
  <2>2. x = "executable" /\ y = "submitted"
    BY <1>13 DEF UseStep
  <2> QED
    BY <1>1, <2>1, <2>2 DEF UseState, CmdStates
<1>14. CASE c[1] = "wait"
  <2>1. fence = "signaled" /\ UNCHANGED vkVars
    BY <1>14 DEF VkCall, WaitFence
  <2>2. x = "submitted" /\ y = "idle"
    BY <1>14 DEF UseStep
  <2> QED
    BY <1>1, <2>1, <2>2 DEF UseState
<1> QED
  BY <1>3, <1>4, <1>5, <1>6, <1>7, <1>8, <1>9, <1>10, <1>11, <1>12, <1>13, <1>14 DEF UseStep

\* What a Vulkan call makes of the samples on their way.
LEMMA VkCallContent ==
  ASSUME Shape, EngineTypeOK, NEW c, NEW x \in Uses, NEW y \in Uses, NEW d \in Contents, NEW e \in Contents,
         UseStep(c, x, y), VkContent(c, x, d, e), UseState(x), ContentState(d),
         x # "queue", c[1] \notin CpuCalls, VkCall(c, complex_frame), ReadBack(c),
         UNCHANGED <<machine, acc, isReal, half_a, half_b, onError>>
  PROVE  ContentState(e)' /\ dev'.window = dev.window
<1> USE DEF IdleCalls, ClCalls, CpuCalls, vkVars, vkObjects, vkWork
<1>1. /\ UsesCl' = UsesCl /\ ~UsesCl /\ isReal' = isReal /\ \A s : Samples(s)' = Samples(s)
      /\ host = [b \in Buffers |-> host[b]] /\ dev = [b \in Buffers |-> dev[b]]
      /\ coherent => host = dev
      /\ cmd = "pending" => fence = "unsignaled" /\ rec # <<>>
  BY DEF Shape, UsesCl, Worker, UseState, Uses, Samples
<1>2. "fft" \in Buffers /\ "window" \in Buffers /\ "power" \in Buffers /\ "quant" \in Buffers
  BY DEF Buffers
<1>3. c[1] # "read" => complex_frame' = IF c[1] = "read_fft" THEN host.fft ELSE complex_frame
  BY DEF ReadBack, Read
<1>4. CASE c[1] = "copy_in" /\ d = "raw" /\ e = "raw_in"
  <2>1. /\ host' = [host EXCEPT !["fft"] = complex_frame]
        /\ dev' = IF coherent THEN [dev EXCEPT !["fft"] = complex_frame] ELSE dev
    BY <1>4 DEF VkCall, CopyIn, HostWrites
  <2> QED
    BY <1>1, <1>2, <1>4, <2>1 DEF ContentState
<1>5. CASE c[1] = "copy_in" /\ d = "windowed" /\ e = "windowed_in"
  <2>1. /\ host' = [host EXCEPT !["fft"] = complex_frame]
        /\ dev' = IF coherent THEN [dev EXCEPT !["fft"] = complex_frame] ELSE dev
    BY <1>5 DEF VkCall, CopyIn, HostWrites
  <2> QED
    BY <1>1, <1>2, <1>5, <2>1 DEF ContentState
<1>6. CASE /\ c = <<"flush", "fft">>
           /\ (d = "raw_in" /\ e = "raw_there") \/ (d = "windowed_in" /\ e = "windowed_there")
  <2>1. dev' = IF coherent THEN dev ELSE [dev EXCEPT !["fft"] = host["fft"]]
    BY <1>6 DEF VkCall, Flush
  <2>2. dev'.fft = host.fft /\ dev'.window = dev.window
    BY <1>1, <1>2, <2>1
  <2> QED
    BY <1>1, <1>6, <2>2 DEF ContentState
<1>7. CASE /\ c[1] \in {"reset_fences", "reset_cmd", "begin"}
           /\ d \in {"raw_there", "windowed_there", "spectrum_there"} /\ e = d
  <2>1. UNCHANGED <<host, dev>> /\ rec' \in {rec, <<>>}
    BY <1>7 DEF VkCall, ResetFences, SetCmd
  <2>2. DOMAIN <<>> = {}
    OBVIOUS
  <2> QED
    BY <1>1, <1>7, <2>1, <2>2 DEF ContentState
<1>8. CASE c = <<"record", <<WindowCmd, Barrier("fft")>> >> /\ d = "raw_there" /\ e = "window_rec"
  <2>1. rec' = rec \o <<WindowCmd, Barrier("fft")>> /\ UNCHANGED <<host, dev>> /\ rec = <<>>
    BY <1>8 DEF VkCall, SetCmd, UseStep, UseState
  <2> QED
    BY <1>1, <1>8, <2>1 DEF ContentState
<1>9. CASE c[1] = "append" /\ (d = "window_rec" \/ (d = "windowed_there" /\ x = "begun")) /\ e = "owed"
  <2>1. /\ rec' = Append(rec, TransformCmd) /\ cmd' = "recording" /\ UNCHANGED <<host, dev>>
    BY <1>9 DEF VkCall, SetCmd
  <2>2. CASE d = "window_rec"
    <3>1. rec = <<WindowCmd, Barrier("fft")>> /\ dev.fft = Samples("raw") /\ ~isReal /\ acc' # "none"
      BY <2>2 DEF ContentState
    <3>2. dev'.fft = Samples("raw")' /\ cmd' # "pending"
      BY <1>1, <2>1, <3>1
    <3>3. rec' = <<WindowCmd, Barrier("fft"), TransformCmd>>
      BY <2>1, <3>1, AppendToTwo
    <3>4. Owed' /\ ~isReal'
      BY <1>1, <3>1, <3>2, <3>3 DEF Owed
    <3>5. dev'.window = dev.window /\ e = "owed"
      BY <1>9, <2>1
    <3>6. ContentState(e)'
      BY <3>4, <3>5 DEF ContentState
    <3> QED
      BY <3>5, <3>6
  <2>3. CASE d = "windowed_there" /\ x = "begun"
    BY <1>1, <1>9, <2>1, <2>3 DEF ContentState, Owed, UseState
  <2> QED
    BY <1>9, <2>2, <2>3
<1>10. CASE c[1] \in {"end", "submit"} /\ d \in {"owed", "spectrum_there"} /\ e = d
  <2>1. /\ UNCHANGED <<host, dev, rec>>
        /\ c[1] = "end" => cmd' = "executable"
        /\ c[1] = "submit" => dirty' = {}
    BY <1>10 DEF VkCall, SetCmd, Submit
  <2> QED
    BY <1>1, <1>10, <2>1 DEF ContentState, Owed
<1>11. CASE c[1] = "wait" /\ d \in {"owed", "spectrum_there"} /\ e = "spectrum_there"
  <2>1. UNCHANGED vkVars /\ fence = "signaled" /\ x = "submitted"
    BY <1>11 DEF VkCall, WaitFence, UseStep
  <2>2. rec = <<>> /\ DOMAIN <<>> = {}
    BY <1>1, <2>1 DEF UseState
  <2> QED
    BY <1>1, <1>11, <2>1, <2>2 DEF ContentState, Owed
<1>12. CASE c[1] = "record" /\ (\A i \in DOMAIN c[2] : Spares(c[2][i])) /\ d = "spectrum_there" /\ e = d
  <2>1. rec' = rec \o c[2] /\ UNCHANGED <<host, dev>> /\ rec = <<>> /\ Sequence(c[2])
    BY <1>12 DEF VkCall, SetCmd, UseStep, UseState
  <2>2. rec' = c[2]
    BY <2>1, ConcatEmptySeq DEF Sequence
  <2> QED
    BY <1>1, <1>12, <2>1, <2>2 DEF ContentState
<1>13. CASE c[1] \in {"read_quant", "max_power"} /\ d = "spectrum_there" /\ e = d
  <2>1. UNCHANGED vkVars
    BY <1>13 DEF VkCall
  <2> QED
    BY <1>1, <1>13, <2>1 DEF ContentState
<1>14. CASE c \in {<<"invalidate", "power">>, <<"invalidate", "quant">>} /\ d = "spectrum_there" /\ e = d
  <2>1. UNCHANGED <<dev, rec>>
    <3>1. c[1] = "invalidate"
      BY <1>14
    <3> QED
      BY <3>1 DEF VkCall, Invalidate
  <2> QED
    BY <1>1, <1>14, <2>1 DEF ContentState
<1>15. CASE c = <<"invalidate", "fft">> /\ d = "spectrum_there" /\ e = "visible"
  <2>1. dev' = dev /\ host' = IF coherent THEN host ELSE [host EXCEPT !["fft"] = dev["fft"]]
    BY <1>15 DEF VkCall, Invalidate
  <2>2. host'.fft = dev.fft
    BY <1>1, <1>2, <2>1
  <2> QED
    BY <1>1, <1>15, <2>1, <2>2 DEF ContentState
<1>16. CASE c[1] = "read_fft" /\ d = "visible" /\ e = "done"
  <2>1. UNCHANGED vkVars
    BY <1>16 DEF VkCall
  <2> QED
    BY <1>1, <1>3, <1>16, <2>1 DEF ContentState
<1> QED
  BY <1>4, <1>5, <1>6, <1>7, <1>8, <1>9, <1>10, <1>11, <1>12, <1>13, <1>14, <1>15, <1>16 DEF VkContent

\* What is read back of a waterfall frame has all levels.
LEMMA ReadBackQuantized ==
  ASSUME EngineTypeOK, NEW c, ReadBack(c), UNCHANGED isReal
  PROVE  quantized' = NoFrame \/ DOMAIN quantized' = 0 .. TotalLen(SpectrumLen') - 1
<1>1. quantized' \in {Concat(host.quant, SpectrumLen), Concat(clmem.quant, SpectrumLen), quantized}
  BY DEF ReadBack
<1>2. \A b : DOMAIN Concat(b, SpectrumLen) = 0 .. TotalLen(SpectrumLen) - 1
  BY Zenon DEF Concat
<1>3. SpectrumLen' = SpectrumLen
  BY DEF SpectrumLen
<1> QED
  BY <1>1, <1>2, <1>3 DEF EngineTypeOK

\* A Vulkan call succeeds.
LEMMA VkStepInv == EngineInv /\ GpuStep /\ ~UsesCl => EngineInv'
<1> SUFFICES ASSUME EngineInv, GpuStep, ~UsesCl
             PROVE  EngineInv'
  OBVIOUS
<1> DEFINE c == Head(todo)
<1>1. /\ phase = "execute" /\ phase' = phase /\ todo # <<>> /\ todo' = Tail(todo) /\ c[1] \notin CpuCalls
      /\ VkCall(c, complex_frame) /\ UNCHANGED clVars /\ ReadBack(c)
      /\ UNCHANGED <<machine, acc, isReal, onError, frame, half_a, half_b, wanted, result>>
  BY DEF GpuStep, config
<1>2. PICK x \in Uses, y \in Uses, d \in Contents, e \in Contents :
        /\ UseStep(c, x, y) /\ ContentStep(c, x, d, e)
        /\ Path(Tail(todo), <<y, e>>, End)
        /\ UseState(x) /\ ContentState(d) /\ HandlerOK(d)
  BY <1>1, CallMade
<1>3. result = "none" /\ Sequence(todo')
  BY <1>1, CallMade
<1> HIDE DEF c
<1>4. x # "queue" /\ Shape /\ EngineTypeOK
  BY <1>2 DEF UseState, EngineInv
<1>5. \/ d = "any" /\ e = "any"
      \/ VkContent(c, x, d, e) /\ d # "any" /\ d # "real_done" /\ e # "any"
  BY <1>1, <1>2, <1>4 DEF ContentStep, VkContent
<1>6. UsesVk' = UsesVk /\ UsesCl' = UsesCl /\ Worker' = Worker
  BY <1>1 DEF UsesVk, UsesCl, Worker
<1>7. /\ UseState(y)' /\ cmd' \in CmdStates /\ fence' \in {"unsignaled", "signaled"}
      /\ Sequence(rec') /\ \A i \in DOMAIN rec' : rec'[i].op \in VkKernels
      /\ host' = [b \in Buffers |-> host'[b]] /\ dev' = [b \in Buffers |-> dev'[b]]
      /\ coherent' => host' = dev'
      /\ cmd' = "pending" => fence' = "unsignaled" /\ rec' # <<>>
      /\ UNCHANGED <<vkLive, coherent>>
  BY <1>1, <1>2, <1>4, VkCallShape
<1>8. ContentState(e)' /\ (Worker \/ dev'.window = dev.window)
  <2>1. CASE d = "any" /\ e = "any"
    BY <2>1, <1>2, <1>6 DEF ContentState
  <2>2. CASE VkContent(c, x, d, e)
    BY <2>2, <1>1, <1>2, <1>4, VkCallContent
  <2> QED
    BY <1>5, <2>1, <2>2
<1>9. HandlerOK(e)'
  BY <1>1, <1>2, <1>5, <1>6 DEF HandlerOK
<1>10. EngineTypeOK'
  <2>1. quantized' = NoFrame \/ DOMAIN quantized' = 0 .. TotalLen(SpectrumLen') - 1
    BY <1>1, <1>4, ReadBackQuantized
  <2> QED
    BY <1>1, <1>4, <1>7, <2>1 DEF EngineTypeOK
<1>11. Shape'
  BY <1>1, <1>3, <1>4, <1>7 DEF Shape, clVars
<1> QED
  BY <1>1, <1>2, <1>3, <1>7, <1>8, <1>9, <1>10, <1>11, Advance DEF clVars

\* The next command of the frame is queued, or one that only quantizes.
LEMMA SendNext ==
  ASSUME NEW w, NEW n \in Nat, NEW d \in 0 .. n, NEW o \in 0 .. Len(queue), Sequence(queue),
         InQueue(w, n, d, o), Len(queue) = o + n - d, queue' = Append(queue, w[n + 1])
  PROVE  /\ InQueue(w, n + 1, d, o)' /\ Len(queue') = o + (n + 1) - d
         /\ d \in 0 .. n + 1 /\ o \in 0 .. Len(queue')
<1>1. /\ Len(queue) \in Nat /\ DOMAIN queue = 1 .. Len(queue)
      /\ Len(queue') = Len(queue) + 1 /\ DOMAIN queue' = 1 .. Len(queue) + 1
      /\ \A i \in 1 .. Len(queue) + 1 : queue'[i] = IF i <= Len(queue) THEN queue[i] ELSE w[n + 1]
  BY AppendSequence, SequenceFacts
<1>2. o = 0 \/ d = 0
  BY DEF InQueue
<1>3. \A j \in 1 .. n - d : queue[o + j] = w[d + j]
  BY DEF InQueue
<1>4. ASSUME NEW j \in 1 .. (n + 1) - d
      PROVE  queue'[o + j] = w[d + j]
  <2>1. CASE j \in 1 .. n - d
    <3>1. o + j \in 1 .. Len(queue)
      BY <1>1, <2>1
    <3> QED
      BY <1>1, <1>3, <2>1, <3>1
  <2>2. CASE j = (n + 1) - d
    <3>1. o + j = Len(queue) + 1 /\ d + j = n + 1
      BY <1>1, <2>2
    <3> QED
      BY <1>1, <3>1
  <2> QED
    BY <2>1, <2>2
<1>5. o + (n + 1) - d = Len(queue) + 1 /\ d \in 0 .. n + 1 /\ o \in 0 .. Len(queue) + 1
  BY <1>1
<1>6. \A i \in DOMAIN queue' : ~(i > o + (n + 1) - d)
  BY <1>1, <1>5
<1>7. InQueue(w, n + 1, d, o)'
  BY ONLY <1>1, <1>2, <1>4, <1>5, <1>6 DEF InQueue
<1> QED
  BY <1>1, <1>5, <1>7

\* Commands that only quantize can follow a frame's.
LEMMA SendQuantizing ==
  ASSUME NEW w, NEW n \in Nat, NEW d \in 0 .. n, NEW o \in 0 .. Len(queue), Sequence(queue),
         InQueue(w, n, d, o), NEW k, Quantizes(k), queue' = Append(queue, k)
  PROVE  InQueue(w, n, d, o)'
<1>1. /\ Len(queue) \in Nat /\ DOMAIN queue = 1 .. Len(queue)
      /\ Len(queue') = Len(queue) + 1 /\ DOMAIN queue' = 1 .. Len(queue) + 1
      /\ \A i \in 1 .. Len(queue) + 1 : queue'[i] = IF i <= Len(queue) THEN queue[i] ELSE k
  BY AppendSequence, SequenceFacts
<1>2. /\ o = 0 \/ d = 0
      /\ o + n - d <= Len(queue)
      /\ \A j \in 1 .. n - d : queue[o + j] = w[d + j]
      /\ \A i \in DOMAIN queue : i > o + n - d => Quantizes(queue[i])
  BY DEF InQueue
<1>3. \A j \in 1 .. n - d : o + j \in 1 .. Len(queue) /\ queue'[o + j] = w[d + j]
  BY <1>1, <1>2
<1>4. \A i \in DOMAIN queue' : i > o + n - d => Quantizes(queue'[i])
  BY <1>1, <1>2
<1>5. o + n - d <= Len(queue')
  BY <1>1, <1>2
<1>6. \A j \in 1 .. n - d : queue'[o + j] = w[d + j]
  BY <1>3
<1> QED
  BY <1>2, <1>4, <1>5, <1>6 DEF InQueue

\* The next command of a complex frame is queued, ...
LEMMA GpuSends ==
  ASSUME Shape, NEW n \in 0 .. 2, GpuSent(n), queue' = Append(queue, GpuWork[n + 1]),
         UNCHANGED <<isReal, onError, clmem, half_a, half_b, complex_frame>>
  PROVE  GpuSent(n + 1)'
<1>1. PICK d \in 0 .. n : InQueue(GpuWork, n, d, 0) /\ GpuDone(d) /\ Len(queue) = n - d
  BY DEF GpuSent
<1>2. PICK w : w = GpuWork
  OBVIOUS
<1>3. Sequence(queue) /\ n \in Nat /\ 0 \in 0 .. Len(queue)
  BY SequenceFacts DEF Shape
<1>4. w = GpuWork' /\ Samples("raw")' = Samples("raw") /\ GpuDone(d)'
  BY <1>1, <1>2 DEF GpuWork, FrameWrite, Samples, GpuDone
<1>5. InQueue(w, n + 1, d, 0)' /\ Len(queue') = (n + 1) - d /\ d \in 0 .. n + 1
  <2>1. InQueue(w, n, d, 0) /\ Len(queue) = 0 + n - d /\ queue' = Append(queue, w[n + 1])
    BY <1>1, <1>2
  <2> QED
    BY <2>1, <1>3, SendNext
<1> QED
  BY <1>4, <1>5 DEF GpuSent

\* ... of a complex frame the CPU has windowed, after an error, ...
LEMMA AgainSends ==
  ASSUME Shape, NEW n \in 0 .. 1, AgainSent(n), queue' = Append(queue, AgainWork[n + 1]),
         UNCHANGED <<isReal, onError, clmem, half_a, half_b, complex_frame>>
  PROVE  AgainSent(n + 1)'
<1>1. PICK d \in 0 .. n, o \in 0 .. Len(queue) :
        InQueue(AgainWork, n, d, o) /\ AgainDone(d) /\ Len(queue) = o + n - d
  BY DEF AgainSent
<1>2. PICK w : w = AgainWork
  OBVIOUS
<1>3. Sequence(queue) /\ n \in Nat
  BY DEF Shape
<1>4. w = AgainWork' /\ Samples("windowed")' = Samples("windowed") /\ AgainDone(d)'
  BY <1>1, <1>2 DEF AgainWork, FrameWrite, Samples, AgainDone
<1>5. InQueue(w, n + 1, d, o)' /\ Len(queue') = o + (n + 1) - d /\ d \in 0 .. n + 1 /\ o \in 0 .. Len(queue')
  BY <1>1, <1>2, <1>3, SendNext
<1> QED
  BY <1>4, <1>5 DEF AgainSent

\* ... and of a real one.
LEMMA RealSends ==
  ASSUME Shape, NEW n \in 0 .. 4, RealSent(n), queue' = Append(queue, RealWork[n + 1]),
         UNCHANGED <<isReal, onError, clmem, half_a, half_b>>
  PROVE  RealSent(n + 1)'
<1>1. PICK d \in 0 .. n, o \in 0 .. Len(queue) :
        InQueue(RealWork, n, d, o) /\ RealDone(d) /\ Len(queue) = o + n - d
  BY DEF RealSent
<1>2. PICK w : w = RealWork
  OBVIOUS
<1>3. Sequence(queue) /\ n \in Nat
  BY DEF Shape
<1>4. w = RealWork' /\ RealDone(d)'
  BY <1>1, <1>2 DEF RealWork, Samples, RealDone
<1>5. InQueue(w, n + 1, d, o)' /\ Len(queue') = o + (n + 1) - d /\ d \in 0 .. n + 1 /\ o \in 0 .. Len(queue')
  BY <1>1, <1>2, <1>3, SendNext
<1> QED
  BY <1>4, <1>5 DEF RealSent

\* An empty queue before the frame's commands and after them.
LEMMA NothingSent ==
  ASSUME Shape
  PROVE  /\ (queue = <<>> /\ complex_frame = Samples("raw") /\ onError = "fallback" /\ ~isReal)
            => GpuSent(0)
         /\ (onError = "error" /\ complex_frame = Samples("windowed") /\ ~isReal) => AgainSent(0)
<1>1. Len(queue) \in Nat /\ DOMAIN queue = 1 .. Len(queue) /\ queue = <<>> <=> Len(queue) = 0
  BY SequenceFacts DEF Shape
<1>2. InQueue(AgainWork, 0, 0, Len(queue)) /\ AgainDone(0)
  BY <1>1 DEF InQueue, AgainDone
<1>3. queue = <<>> => InQueue(GpuWork, 0, 0, 0) /\ GpuDone(0)
  BY <1>1 DEF InQueue, GpuDone
<1>4. Len(queue) \in 0 .. Len(queue) /\ 0 \in 0 .. 0 /\ Len(queue) = Len(queue) + 0 - 0
  BY <1>1
<1>5. queue = <<>> => Len(queue) = 0 - 0
  BY <1>1
<1>6. (onError = "error" /\ complex_frame = Samples("windowed") /\ ~isReal) => AgainSent(0)
  BY <1>2, <1>4 DEF AgainSent
<1>7. (queue = <<>> /\ complex_frame = Samples("raw") /\ onError = "fallback" /\ ~isReal) => GpuSent(0)
  BY <1>3, <1>4, <1>5 DEF GpuSent
<1> QED
  BY <1>6, <1>7

\* ... and when it is empty again, the spectrum is in its buffer.
LEMMA AllDone ==
  ASSUME queue = <<>>
  PROVE  /\ GpuSent(3) => clmem.buf = Samples("spectrum")
         /\ AgainSent(2) => clmem.buf = Samples("spectrum")
         /\ RealSent(5) => clmem.out = Samples("spectrum")
<1>1. Len(queue) = 0
  OBVIOUS
<1>2. \A w : \A n \in Nat : \A d \in 0 .. n : InQueue(w, n, d, 0) => d = n
  BY <1>1 DEF InQueue
<1>3. ASSUME GpuSent(3)
      PROVE  clmem.buf = Samples("spectrum")
  <2>1. PICK d \in 0 .. 3 : InQueue(GpuWork, 3, d, 0) /\ GpuDone(d)
    BY <1>3 DEF GpuSent
  <2>2. d = 3
    BY <1>2, <2>1
  <2> QED
    BY <2>1, <2>2 DEF GpuDone
<1>4. ASSUME AgainSent(2)
      PROVE  clmem.buf = Samples("spectrum")
  <2>1. PICK d \in 0 .. 2 : AgainDone(d) /\ InQueue(AgainWork, 2, d, 0)
    BY <1>1, <1>4 DEF AgainSent
  <2>2. d = 2
    BY <1>2, <2>1
  <2> QED
    BY <2>1, <2>2 DEF AgainDone
<1>5. ASSUME RealSent(5)
      PROVE  clmem.out = Samples("spectrum")
  <2>1. PICK d \in 0 .. 5 : RealDone(d) /\ InQueue(RealWork, 5, d, 0)
    BY <1>1, <1>5 DEF RealSent
  <2>2. d = 5
    BY <1>2, <2>1
  <2> QED
    BY <2>1, <2>2 DEF RealDone
<1> QED
  BY <1>3, <1>4, <1>5

\* What an OpenCL call makes of the samples on their way.
LEMMA ClCallContent ==
  ASSUME Shape, EngineTypeOK, NEW c, NEW d \in Contents, NEW e \in Contents, UsesCl,
         ClContent(c, d, e), ContentState(d), c[1] \notin CpuCalls,
         ClCall(c, HostMem), ReadBack(c), UNCHANGED <<machine, acc, isReal, half_a, half_b, onError>>
  PROVE  ContentState(e)' /\ Sequence(queue') /\ clmem' = clmem /\ clLive' = clLive
         /\ \A i \in DOMAIN queue' : queue'[i].op \in ClCommands
<1> USE DEF CpuCalls
<1>1. /\ UsesCl' = UsesCl /\ isReal' = isReal /\ \A s : Samples(s)' = Samples(s)
      /\ Sequence(queue) /\ \A i \in DOMAIN queue : queue[i].op \in ClCommands
  BY DEF Shape, UsesCl, Worker, Samples
<1>2. /\ complex_frame' = IF c[1] = "read" /\ c = Read("buf") THEN clmem.buf
                          ELSE IF c[1] = "read_fft" THEN host.fft ELSE complex_frame
      /\ spectrum' = IF c = Read("out") THEN clmem.out ELSE spectrum
  BY DEF ReadBack, Read
<1>3. ASSUME NEW k, k.op \in ClCommands, Enqueue(k)
      PROVE  /\ Sequence(queue') /\ clmem' = clmem /\ clLive' = clLive /\ queue' = Append(queue, k)
             /\ \A i \in DOMAIN queue' : queue'[i].op \in ClCommands
  <2>1. /\ Sequence(queue') /\ Len(queue') = Len(queue) + 1 /\ queue' = Append(queue, k)
        /\ \A i \in 1 .. Len(queue) + 1 : queue'[i] = IF i <= Len(queue) THEN queue[i] ELSE k
    BY <1>1, <1>3, AppendSequence DEF Enqueue
  <2>2. DOMAIN queue' = 1 .. Len(queue) + 1 /\ DOMAIN queue = 1 .. Len(queue) /\ Len(queue) \in Nat
    BY <1>1, <2>1, SequenceFacts
  <2> QED
    BY <1>1, <1>3, <2>1, <2>2 DEF Enqueue
<1>4. ASSUME UNCHANGED clVars
      PROVE  /\ Sequence(queue') /\ clmem' = clmem /\ clLive' = clLive /\ queue' = queue
             /\ \A i \in DOMAIN queue' : queue'[i].op \in ClCommands
  BY <1>1, <1>4 DEF clVars
<1>5. CASE c = Write("buf", "frame") /\ d = "raw" /\ e = "gpu1"
  <2>1. Enqueue(FrameWrite("raw")) /\ complex_frame' = complex_frame /\ GpuSent(0)
    BY <1>1, <1>2, <1>5, NothingSent DEF ClCall, HostMem, FrameWrite, Write, ContentState
  <2>2. FrameWrite("raw").op \in ClCommands /\ GpuWork[0 + 1] = FrameWrite("raw") /\ 0 + 1 = 1
    BY DEF GpuWork, FrameWrite, ClCommands
  <2>3. GpuSent(1)'
    BY <1>1, <1>3, <2>1, <2>2, GpuSends
  <2> QED
    BY <1>3, <1>5, <2>1, <2>2, <2>3 DEF ContentState
<1>6. CASE c = Kernel([op |-> "window_complex"]) /\ d = "gpu1" /\ e = "gpu2"
  <2>1. Enqueue([op |-> "window_complex"]) /\ complex_frame' = complex_frame /\ GpuSent(1)
    BY <1>2, <1>6 DEF ClCall, Kernel, ContentState
  <2>2. [op |-> "window_complex"].op \in ClCommands /\ GpuWork[1 + 1] = [op |-> "window_complex"] /\ 1 + 1 = 2
    BY DEF GpuWork, ClCommands
  <2>3. GpuSent(2)'
    BY <1>1, <1>3, <2>1, <2>2, GpuSends
  <2> QED
    BY <1>3, <1>6, <2>1, <2>2, <2>3 DEF ContentState
<1>7. CASE c[1] = "transform" /\ d = "gpu2" /\ e = "gpu3"
  <2>1. Enqueue([op |-> "transform"]) /\ complex_frame' = complex_frame /\ GpuSent(2)
    BY <1>2, <1>7 DEF ClCall, ContentState
  <2>2. [op |-> "transform"].op \in ClCommands /\ GpuWork[2 + 1] = [op |-> "transform"] /\ 2 + 1 = 3
    BY DEF GpuWork, ClCommands
  <2>3. GpuSent(3)'
    BY <1>1, <1>3, <2>1, <2>2, GpuSends
  <2> QED
    BY <1>3, <1>7, <2>1, <2>2, <2>3 DEF ContentState
<1>8. CASE c = Write("buf", "frame") /\ d = "windowed" /\ e = "again1"
  <2>1. Enqueue(FrameWrite("windowed")) /\ complex_frame' = complex_frame /\ AgainSent(0)
    BY <1>1, <1>2, <1>8, NothingSent DEF ClCall, HostMem, FrameWrite, Write, ContentState
  <2>2. FrameWrite("windowed").op \in ClCommands /\ AgainWork[0 + 1] = FrameWrite("windowed") /\ 0 + 1 = 1
    BY DEF AgainWork, FrameWrite, ClCommands
  <2>3. AgainSent(1)'
    BY <1>1, <1>3, <2>1, <2>2, AgainSends
  <2> QED
    BY <1>3, <1>8, <2>1, <2>2, <2>3 DEF ContentState
<1>9. CASE c[1] = "transform" /\ d = "again1" /\ e = "again2"
  <2>1. Enqueue([op |-> "transform"]) /\ complex_frame' = complex_frame /\ AgainSent(1)
    BY <1>2, <1>9 DEF ClCall, ContentState
  <2>2. [op |-> "transform"].op \in ClCommands /\ AgainWork[1 + 1] = [op |-> "transform"] /\ 1 + 1 = 2
    BY DEF AgainWork, ClCommands
  <2>3. AgainSent(2)'
    BY <1>1, <1>3, <2>1, <2>2, AgainSends
  <2> QED
    BY <1>3, <1>9, <2>1, <2>2, <2>3 DEF ContentState
<1>10. CASE c = Write("half_a", "a") /\ d = "real0" /\ e = "real1"
  <2>1. Enqueue(RealWork[0 + 1]) /\ RealSent(0) /\ 0 + 1 = 1
    BY <1>10 DEF ClCall, HostMem, Write, ContentState, RealWork
  <2>2. RealWork[0 + 1].op \in ClCommands
    BY DEF RealWork, ClCommands
  <2>3. RealSent(1)'
    BY <1>1, <1>3, <2>1, <2>2, RealSends
  <2> QED
    BY <1>3, <1>10, <2>1, <2>2, <2>3 DEF ContentState
<1>11. CASE c = Write("half_b", "b") /\ d = "real1" /\ e = "real2"
  <2>1. Enqueue(RealWork[1 + 1]) /\ RealSent(1) /\ 1 + 1 = 2
    BY <1>11 DEF ClCall, HostMem, Write, ContentState, RealWork
  <2>2. RealWork[1 + 1].op \in ClCommands
    BY DEF RealWork, ClCommands
  <2>3. RealSent(2)'
    BY <1>1, <1>3, <2>1, <2>2, RealSends
  <2> QED
    BY <1>3, <1>11, <2>1, <2>2, <2>3 DEF ContentState
<1>12. CASE c = Kernel([op |-> "window_real", from |-> "half_a", to |-> "in_a"]) /\ d = "real2" /\ e = "real3"
  <2>1. Enqueue(RealWork[2 + 1]) /\ RealSent(2) /\ 2 + 1 = 3
    BY <1>12 DEF ClCall, Kernel, ContentState, RealWork
  <2>2. RealWork[2 + 1].op \in ClCommands
    BY DEF RealWork, ClCommands
  <2>3. RealSent(3)'
    BY <1>1, <1>3, <2>1, <2>2, RealSends
  <2> QED
    BY <1>3, <1>12, <2>1, <2>2, <2>3 DEF ContentState
<1>13. CASE c = Kernel([op |-> "window_real", from |-> "half_b", to |-> "in_b"]) /\ d = "real3" /\ e = "real4"
  <2>1. Enqueue(RealWork[3 + 1]) /\ RealSent(3) /\ 3 + 1 = 4
    BY <1>13 DEF ClCall, Kernel, ContentState, RealWork
  <2>2. RealWork[3 + 1].op \in ClCommands
    BY DEF RealWork, ClCommands
  <2>3. RealSent(4)'
    BY <1>1, <1>3, <2>1, <2>2, RealSends
  <2> QED
    BY <1>3, <1>13, <2>1, <2>2, <2>3 DEF ContentState
<1>14. CASE c[1] = "transform_real" /\ d = "real4" /\ e = "real5"
  <2>1. Enqueue(RealWork[4 + 1]) /\ RealSent(4) /\ 4 + 1 = 5
    BY <1>14 DEF ClCall, ContentState, RealWork
  <2>2. RealWork[4 + 1].op \in ClCommands
    BY DEF RealWork, ClCommands
  <2>3. RealSent(5)'
    BY <1>1, <1>3, <2>1, <2>2, RealSends
  <2> QED
    BY <1>3, <1>14, <2>1, <2>2, <2>3 DEF ContentState
<1>15. CASE c = Read("buf") /\ d \in {"gpu3", "again2"} /\ e = "done"
  <2>1. queue = <<>> /\ UNCHANGED clVars /\ complex_frame' = clmem.buf
    BY <1>2, <1>15 DEF ClCall, Read
  <2>2. clmem.buf = Samples("spectrum") /\ ~isReal
    BY <1>15, <2>1, AllDone DEF ContentState, GpuSent, AgainSent
  <2> QED
    BY <1>1, <1>4, <1>15, <2>1, <2>2 DEF ContentState
<1>16. CASE c = Read("out") /\ d = "real5" /\ e = "real_done"
  <2>1. queue = <<>> /\ UNCHANGED clVars /\ spectrum' = clmem.out
    BY <1>2, <1>16 DEF ClCall, Read
  <2>2. clmem.out = Samples("spectrum") /\ isReal /\ DOMAIN <<>> = {}
    BY <1>16, <2>1, AllDone DEF ContentState, RealSent
  <2> QED
    BY <1>1, <1>4, <1>16, <2>1, <2>2 DEF ContentState
<1>17. CASE /\ c \in {Read("quant"), Read("power")} \/ c[1] = "max_power"
            /\ d \in {"gpu3", "real_done"} /\ e = d
  <2>1. UNCHANGED clVars /\ complex_frame' = complex_frame /\ spectrum' = spectrum
    <3>1. CASE c \in {Read("quant"), Read("power")}
      <4>1. c[1] = "read" /\ c # Read("buf") /\ c # Read("out")
        BY <3>1 DEF Read
      <4> QED
        BY <1>2, <4>1 DEF ClCall
    <3>2. CASE c[1] = "max_power"
      <4>1. c # Read("out")
        BY <3>2 DEF Read
      <4> QED
        BY <1>2, <3>2, <4>1 DEF ClCall
    <3> QED
      BY <1>17, <3>1, <3>2
  <2>2. CASE d = "gpu3"
    <3>1. GpuSent(3)'
      BY <1>1, <1>4, <2>1, <2>2 DEF ContentState, GpuSent, InQueue, GpuWork, FrameWrite, GpuDone, Samples
    <3> QED
      BY <1>4, <1>17, <2>1, <2>2, <3>1 DEF ContentState
  <2>3. CASE d = "real_done"
    BY <1>1, <1>4, <1>17, <2>1, <2>3 DEF ContentState
  <2> QED
    BY <1>17, <2>2, <2>3
<1>18. CASE c[1] = "kernel" /\ Quantizes(c[2]) /\ d \in {"gpu3", "real_done"} /\ e = d
  <2>1. Enqueue(c[2]) /\ complex_frame' = complex_frame /\ spectrum' = spectrum
    BY <1>2, <1>18 DEF ClCall, Read
  <2>2. c[2].op \in ClCommands
    BY <1>18 DEF Quantizes, ClCommands
  <2>3. CASE d = "gpu3"
    <3>1. PICK n \in 0 .. 3 : InQueue(GpuWork, 3, n, 0) /\ GpuDone(n)
      BY <2>3 DEF ContentState, GpuSent
    <3>2. PICK w : w = GpuWork
      OBVIOUS
    <3>3. 3 \in Nat /\ 0 \in 0 .. Len(queue) /\ queue' = Append(queue, c[2])
      BY <1>1, <1>3, <2>1, <2>2, SequenceFacts
    <3>4. InQueue(w, 3, n, 0)'
      BY <1>1, <1>18, <3>1, <3>2, <3>3, SendQuantizing
    <3>5. /\ w = GpuWork' /\ GpuDone(n)' /\ complex_frame' = Samples("raw")' /\ ~isReal'
          /\ onError' = "fallback"
      BY <1>1, <1>3, <2>1, <2>2, <2>3, <3>1, <3>2
      DEF GpuWork, FrameWrite, Samples, GpuDone, ContentState, GpuSent
    <3>6. GpuSent(3)'
      BY <3>4, <3>5 DEF GpuSent
    <3> QED
      BY <1>3, <1>18, <2>1, <2>2, <2>3, <3>6 DEF ContentState
  <2>4. CASE d = "real_done"
    <3>1. /\ Len(queue') = Len(queue) + 1
          /\ \A i \in 1 .. Len(queue) + 1 : queue'[i] = IF i <= Len(queue) THEN queue[i] ELSE c[2]
      BY <1>1, <1>3, <2>1, <2>2, AppendSequence
    <3>2. DOMAIN queue' = 1 .. Len(queue) + 1 /\ DOMAIN queue = 1 .. Len(queue) /\ Len(queue) \in Nat
      BY <1>1, <1>3, <2>1, <2>2, <3>1, SequenceFacts
    <3>3. \A i \in DOMAIN queue' : Quantizes(queue'[i])
      BY <1>18, <2>4, <3>1, <3>2 DEF ContentState
    <3> QED
      BY <1>1, <1>3, <1>18, <2>1, <2>2, <2>4, <3>3 DEF ContentState
  <2> QED
    BY <1>18, <2>3, <2>4
<1> QED
  BY <1>5, <1>6, <1>7, <1>8, <1>9, <1>10, <1>11, <1>12, <1>13, <1>14, <1>15, <1>16, <1>17, <1>18
  DEF ClContent

\* An OpenCL call succeeds.
LEMMA ClStepInv == EngineInv /\ GpuStep /\ UsesCl => EngineInv'
<1> SUFFICES ASSUME EngineInv, GpuStep, UsesCl
             PROVE  EngineInv'
  OBVIOUS
<1> DEFINE c == Head(todo)
<1>1. /\ phase = "execute" /\ phase' = phase /\ todo # <<>> /\ todo' = Tail(todo) /\ c[1] \notin CpuCalls
      /\ ClCall(c, HostMem) /\ UNCHANGED vkVars /\ ReadBack(c)
      /\ UNCHANGED <<machine, acc, isReal, onError, frame, half_a, half_b, wanted, result>>
  BY DEF GpuStep, config
<1>2. PICK x \in Uses, y \in Uses, d \in Contents, e \in Contents :
        /\ UseStep(c, x, y) /\ ContentStep(c, x, d, e)
        /\ Path(Tail(todo), <<y, e>>, End)
        /\ UseState(x) /\ ContentState(d) /\ HandlerOK(d)
  BY <1>1, CallMade
<1>3. result = "none" /\ Sequence(todo')
  BY <1>1, CallMade
<1> HIDE DEF c
<1>4. x = "queue" /\ Shape /\ EngineTypeOK /\ ~Worker
  BY <1>2 DEF UseState, EngineInv, Uses, UsesCl
<1>5. y = "queue"
  BY <1>1, <1>2, <1>4 DEF UseStep
<1>6. ClContent(c, d, e) /\ d # "any"
  BY <1>1, <1>2, <1>4 DEF ContentStep, ContentState
<1>7. UsesVk' = UsesVk /\ UsesCl' = UsesCl /\ Worker' = Worker
  BY <1>1 DEF UsesVk, UsesCl, Worker
<1>8. /\ ContentState(e)' /\ Sequence(queue') /\ clmem' = clmem /\ clLive' = clLive
      /\ \A i \in DOMAIN queue' : queue'[i].op \in ClCommands
  BY <1>1, <1>2, <1>4, <1>6, ClCallContent
<1>9. HandlerOK(e)'
  <2>1. e # "any" /\ (d = "real_done" => e = "real_done")
    BY Zenon, <1>6 DEF ClContent
  <2> QED
    BY <1>1, <1>2, <1>4, <1>7, <2>1 DEF HandlerOK
<1>10. UseState(y)'
  BY <1>1, <1>2, <1>4, <1>5, <1>7 DEF UseState, vkVars, vkWork
<1>11. EngineTypeOK'
  <2>1. quantized' = NoFrame \/ DOMAIN quantized' = 0 .. TotalLen(SpectrumLen') - 1
    BY <1>1, <1>4, ReadBackQuantized
  <2> QED
    BY <1>1, <1>4, <2>1 DEF EngineTypeOK, vkVars, vkWork
<1>12. Shape'
  BY <1>1, <1>3, <1>4, <1>8 DEF Shape, vkVars, vkObjects, vkWork
<1> QED
  BY <1>1, <1>2, <1>3, <1>8, <1>9, <1>10, <1>11, <1>12, Advance DEF vkVars, vkObjects, vkWork
-----------------------------------------------------------------------------
(* FFT engine: the steps of the devices *)

\* What a kernel leaves alone.
LEMMA KernelShape ==
  ASSUME Shape, NEW k, k.op \in VkKernels, k.op # "barrier"
  PROVE  /\ KernelResult(k) = [b \in Buffers |-> KernelResult(k)[b]]
         /\ KernelResult(k).window = dev.window
         /\ Spares(k) => KernelResult(k).fft = dev.fft
<1>1. dev = [b \in Buffers |-> dev[b]] /\ Buffers = {"fft", "window", "power", "quant"}
  BY DEF Shape, Buffers
<1>2. \A v : /\ [dev EXCEPT !.fft = v] = [b \in Buffers |-> [dev EXCEPT !.fft = v][b]]
             /\ [dev EXCEPT !.fft = v].window = dev.window
  BY <1>1
<1>3. ASSUME NEW r, \E v, w : r = [dev EXCEPT !.power = v, !.quant = w]
      PROVE  r = [b \in Buffers |-> r[b]] /\ r.window = dev.window /\ r.fft = dev.fft
  BY <1>1, <1>3
<1>4. CASE k.op = "window"
  <2>1. KernelResult(k) = [dev EXCEPT !.fft = ApplyWindow(Seen("fft"))] /\ ~Spares(k)
    BY <1>4 DEF KernelResult, Spares
  <2> QED
    BY <2>1, <1>2
<1>5. CASE k.op = "transform"
  <2>1. KernelResult(k) = [dev EXCEPT !.fft = ApplyTransform(Seen("fft"))] /\ ~Spares(k)
    BY <1>5 DEF KernelResult, Spares
  <2> QED
    BY <2>1, <1>2
<1>6. CASE k.op \in {"power", "half"}
  <2>1. \E v, w : KernelResult(k) = [dev EXCEPT !.power = v, !.quant = w]
    BY <1>6 DEF KernelResult
  <2> QED
    BY <2>1, <1>3
<1> QED
  BY <1>4, <1>5, <1>6 DEF VkKernels

\* The Vulkan device executes the next command of its buffer.
LEMMA VkDeviceInv == EngineInv /\ VkDevice => EngineInv'
<1> SUFFICES ASSUME EngineInv, VkDevice
             PROVE  EngineInv'
  OBVIOUS
<1> DEFINE k == Head(rec)
<1>1. /\ cmd = "pending" /\ rec' = Tail(rec) /\ host' = IF coherent THEN dev' ELSE host
      /\ dev' = IF k.op = "barrier" THEN dev ELSE KernelResult(k)
      /\ k.op = "barrier" => dirty' = dirty \ {k.buf}
      /\ IF rec' = <<>> THEN cmd' = "invalid" /\ fence' = "signaled" ELSE cmd' = cmd /\ fence' = fence
      /\ UNCHANGED <<vkLive, coherent, lost, clVars, machineVars>>
  BY DEF VkDevice, DeviceStep, vkObjects
<1>2. phase = "execute" /\ result = "none" /\ Shape /\ EngineTypeOK
  BY <1>1 DEF EngineInv, OutOfScript, InScript
<1>3. PICK x \in Uses, d \in Contents :
        Path(todo, <<x, d>>, End) /\ UseState(x) /\ ContentState(d) /\ HandlerOK(d)
  BY <1>2 DEF EngineInv, InScript
<1>4. x = "submitted" /\ ~UsesCl
  BY <1>1, <1>3 DEF UseState, Uses
<1>5. todo # <<>>
  BY <1>3, <1>4, PathEnd DEF End
<1>6. PICK m \in Stages : Leads(Head(todo), <<x, d>>, m)
  BY <1>3, <1>5, PathStep
<1>7. d \in {"any", "owed", "spectrum_there"}
  <2>1. UseStep(Head(todo), x, m[1]) /\ ContentStep(Head(todo), x, d, m[2])
    BY <1>6 DEF Leads
  <2>2. Head(todo)[1] = "wait"
    BY <1>4, <2>1 DEF UseStep
  <2>3. d = "any" \/ VkContent(Head(todo), x, d, m[2])
    BY <1>4, <2>1, <2>2 DEF ContentStep, CpuCalls
  <2> QED
    BY <2>2, <2>3 DEF VkContent
<1>8. /\ Sequence(rec) /\ Sequence(rec') /\ k = rec[1] /\ Len(rec) \in Nat \ {0}
      /\ DOMAIN rec = 1 .. Len(rec) /\ DOMAIN rec' = 1 .. Len(rec) - 1
      /\ \A i \in DOMAIN rec' : rec'[i] = rec[i + 1] /\ i + 1 \in DOMAIN rec
      /\ fence = "unsignaled" /\ k.op \in VkKernels
  <2>1. Sequence(rec) /\ rec # <<>> /\ fence = "unsignaled"
    BY <1>1, <1>2 DEF Shape
  <2>2. /\ Sequence(rec') /\ k = rec[1] /\ Len(rec') = Len(rec) - 1
        /\ \A i \in 1 .. Len(rec) - 1 : rec'[i] = rec[i + 1]
    BY <1>1, <2>1, TailSequence
  <2>3. Len(rec) \in Nat \ {0} /\ DOMAIN rec = 1 .. Len(rec) /\ DOMAIN rec' = 1 .. Len(rec) - 1
    BY <2>1, <2>2, SequenceFacts
  <2>4. k.op \in VkKernels
    BY <1>2, <2>2, <2>3 DEF Shape
  <2> QED
    BY <2>1, <2>2, <2>3, <2>4
<1> HIDE DEF k
<1>9. /\ dev' = [b \in Buffers |-> dev'[b]] /\ dev'.window = dev.window
      /\ Spares(k) => dev'.fft = dev.fft
  <2>1. dev = [b \in Buffers |-> dev[b]]
    BY <1>2 DEF Shape
  <2> QED
    BY <1>1, <1>2, <1>8, <2>1, KernelShape
<1>10. /\ UsesVk' = UsesVk /\ UsesCl' = UsesCl /\ Worker' = Worker
       /\ End' = End /\ \A s : Samples(s)' = Samples(s)
  BY <1>1 DEF UsesVk, UsesCl, Worker, End, Samples, machineVars
<1>11. UseState(x)'
  BY <1>1, <1>4, <1>10 DEF UseState
<1>12. ContentState(d)'
  <2>1. CASE d = "any"
    BY <2>1, <1>3, <1>10 DEF ContentState
  <2>2. CASE d = "spectrum_there"
    <3>1. /\ dev.fft = Samples("spectrum") /\ ~isReal'
          /\ \A i \in DOMAIN rec : Spares(rec[i])
      BY <2>2, <1>1, <1>3 DEF ContentState, machineVars
    <3>2. dev'.fft = Samples("spectrum")' /\ \A i \in DOMAIN rec' : Spares(rec'[i])
      BY <3>1, <1>8, <1>9, <1>10
    <3> QED
      BY <2>2, <3>1, <3>2 DEF ContentState
  <2>3. CASE d = "owed"
    <3>1. Owed /\ ~isReal /\ ~Worker
      BY <2>3, <1>3 DEF ContentState, HandlerOK
    <3> SUFFICES Owed'
      BY <2>3, <3>1, <1>1 DEF ContentState, machineVars
    <3>2. \A s, t, u : /\ Head(<<s, t, u>>) = s /\ Tail(<<s, t, u>>) = <<t, u>>
                       /\ Head(<<s, t>>) = s /\ Tail(<<s, t>>) = <<t>>
                       /\ Head(<<s>>) = s /\ Tail(<<s>>) = <<>>
      OBVIOUS
    <3>3. "fft" \notin dirty => Seen("fft") = dev.fft
      BY DEF Seen
    <3>4. "fft" \in DOMAIN dev
      BY <1>2 DEF Shape, Buffers
    <3>5. CASE /\ rec = <<WindowCmd, Barrier("fft"), TransformCmd>> /\ dev.fft = Samples("raw")
               /\ acc # "none" /\ "fft" \notin dirty
      <4>1. UsesVk /\ dev.window = "hann"
        <5>1. acc = "vkfft"
          BY <3>1, <3>5, <1>2, <1>4 DEF Shape, UsesCl
        <5>2. UsesVk
          BY <3>1, <5>1 DEF UsesVk
        <5> QED
          BY <3>1, <5>2, <1>2 DEF EngineInv, WindowLoaded
      <4>2. k = WindowCmd /\ rec' = <<Barrier("fft"), TransformCmd>>
        BY <3>2, <3>5, <1>1 DEF k
      <4>3. dev' = [dev EXCEPT !.fft = ApplyWindow(Seen("fft"))]
        BY <4>2, <1>1 DEF KernelResult, WindowCmd
      <4>4. dev'.fft = Samples("windowed")'
        BY <3>3, <3>4, <3>5, <4>1, <4>3, <1>10, Shaders
      <4> QED
        BY <4>2, <4>4 DEF Owed
    <3>6. CASE rec = <<Barrier("fft"), TransformCmd>> /\ dev.fft = Samples("windowed")
      <4>1. k = Barrier("fft") /\ rec' = <<TransformCmd>>
        BY <3>2, <3>6, <1>1 DEF k
      <4>2. dev' = dev /\ dirty' = dirty \ {"fft"}
        BY <4>1, <1>1 DEF Barrier
      <4>3. dev'.fft = Samples("windowed")'
        BY <3>6, <4>2, <1>10
      <4>4. "fft" \notin dirty'
        BY <4>2
      <4> QED
        BY <4>1, <4>3, <4>4 DEF Owed
    <3>7. CASE rec = <<TransformCmd>> /\ dev.fft = Samples("windowed") /\ "fft" \notin dirty
      <4>1. k = TransformCmd /\ rec' = <<>>
        BY <3>2, <3>7, <1>1 DEF k
      <4>2. dev' = [dev EXCEPT !.fft = ApplyTransform(Seen("fft"))]
        BY <4>1, <1>1 DEF KernelResult, TransformCmd
      <4>3. dev'.fft = Samples("spectrum")'
        BY <3>3, <3>4, <3>7, <4>2, <1>10, Shaders
      <4> QED
        BY <4>1, <4>3 DEF Owed
    <3>8. rec # <<>>
      BY <1>1, <1>2 DEF Shape
    <3> QED
      BY <3>1, <3>5, <3>6, <3>7, <3>8, <1>1 DEF Owed
  <2> QED
    BY <1>7, <2>1, <2>2, <2>3
<1>13. HandlerOK(d)'
  BY <1>1, <1>3, <1>10 DEF HandlerOK, machineVars
<1>14. EngineTypeOK'
  BY <1>1, <1>2, <1>8 DEF EngineTypeOK, CmdStates, machineVars, SpectrumLen
<1>15. Shape'
  <2>1. \A i \in DOMAIN rec' : rec'[i].op \in VkKernels
    BY <1>2, <1>8 DEF Shape
  <2>2. /\ host' = [b \in Buffers |-> host'[b]] /\ (coherent' => host' = dev')
    BY <1>1, <1>2, <1>9 DEF Shape
  <2>3. cmd' = "pending" => fence' = "unsignaled" /\ rec' # <<>>
    BY <1>1, <1>8
  <2> QED
    BY <1>1, <1>2, <1>8, <1>9, <2>1, <2>2, <2>3 DEF Shape, machineVars, clVars
<1>16. Closed' /\ Acquiring' /\ Complete' /\ Releasing' /\ Objects' /\ WindowLoaded'
  <2>1. UNCHANGED <<machine, acc, isReal, vkLive, clLive, phase, todo>>
    BY <1>1 DEF clVars, machineVars
  <2>2. Closed' /\ Acquiring' /\ Complete' /\ Releasing' /\ Objects'
    BY <2>1, ObjectsKept
  <2>3. WindowLoaded'
    BY <1>9, <1>10, <2>1 DEF EngineInv, WindowLoaded
  <2> QED
    BY <2>2, <2>3
<1>17. InScript'
  <2>1. phase' = phase /\ todo' = todo /\ result' = result
    BY <1>1 DEF machineVars
  <2>2. Path(todo', <<x, d>>, End')
    BY <1>3, <1>10, <2>1
  <2> QED
    BY <1>2, <1>11, <1>12, <1>13, <2>1, <2>2 DEF InScript
<1>18. OutOfScript'
  BY <1>1, <1>2 DEF OutOfScript, machineVars
<1> QED
  BY <1>14, <1>15, <1>16, <1>17, <1>18 DEF EngineInv

\* The device takes the first command of its queue.
LEMMA QueueMoves ==
  ASSUME NEW w, NEW n \in Nat, NEW d \in 0 .. n, NEW o \in 0 .. Len(queue), Sequence(queue),
         queue # <<>>, queue' = Tail(queue), InQueue(w, n, d, o)
  PROVE  /\ Sequence(queue') /\ Len(queue) \in Nat \ {0} /\ Len(queue') = Len(queue) - 1
         /\ \/ o > 0 /\ d = 0 /\ InQueue(w, n, d, o - 1)' /\ o - 1 \in 0 .. Len(queue')
            \/ o = 0 /\ d < n /\ Head(queue) = w[d + 1] /\ InQueue(w, n, d + 1, 0)'
            \/ o = 0 /\ d = n /\ Quantizes(Head(queue)) /\ InQueue(w, n, d, 0)'
<1>1. /\ Sequence(queue') /\ Head(queue) = queue[1] /\ Len(queue') = Len(queue) - 1
      /\ \A i \in 1 .. Len(queue) - 1 : queue'[i] = queue[i + 1]
  BY TailSequence
<1>2. /\ Len(queue) \in Nat \ {0} /\ DOMAIN queue = 1 .. Len(queue) /\ DOMAIN queue' = 1 .. Len(queue) - 1
  BY <1>1, SequenceFacts
<1>3. /\ o = 0 \/ d = 0
      /\ o + n - d <= Len(queue)
      /\ \A j \in 1 .. n - d : queue[o + j] = w[d + j]
      /\ \A i \in DOMAIN queue : i > o + n - d => Quantizes(queue[i])
  BY DEF InQueue
<1>4. CASE o > 0
  <2>1. d = 0 /\ o - 1 \in 0 .. Len(queue')
    BY <1>1, <1>2, <1>3, <1>4
  <2>2. (o - 1) + n - d <= Len(queue')
    BY <1>1, <1>2, <1>3, <1>4
  <2>3. ASSUME NEW j \in 1 .. n - d
        PROVE  queue'[(o - 1) + j] = w[d + j]
    <3>1. (o - 1) + j \in 1 .. Len(queue) - 1 /\ ((o - 1) + j) + 1 = o + j
      BY <1>2, <1>3, <1>4
    <3>2. queue'[(o - 1) + j] = queue[o + j]
      BY <1>1, <3>1
    <3> QED
      BY <1>3, <3>2
  <2>4. ASSUME NEW i \in DOMAIN queue', i > (o - 1) + n - d
        PROVE  Quantizes(queue'[i])
    <3>1. i + 1 \in DOMAIN queue /\ i + 1 > o + n - d /\ queue'[i] = queue[i + 1]
      BY <1>1, <1>2, <2>4
    <3> QED
      BY <1>3, <3>1
  <2>5. InQueue(w, n, d, o - 1)'
    BY <2>1, <2>2, <2>3, <2>4 DEF InQueue
  <2> QED
    BY <1>1, <1>2, <1>4, <2>1, <2>5
<1>5. CASE o = 0 /\ d < n
  <2>1. Head(queue) = w[d + 1]
    <3>1. 1 \in 1 .. n - d /\ o + 1 = 1
      BY <1>5
    <3> QED
      BY <1>1, <1>3, <3>1
  <2>2. 0 + n - (d + 1) <= Len(queue')
    BY <1>1, <1>2, <1>3, <1>5
  <2>3. ASSUME NEW j \in 1 .. n - (d + 1)
        PROVE  queue'[0 + j] = w[(d + 1) + j]
    <3>1. j \in 1 .. Len(queue) - 1 /\ j + 1 \in 1 .. n - d /\ o + (j + 1) = j + 1
      BY <1>2, <1>3, <1>5
    <3>2. queue'[j] = queue[j + 1] /\ queue[j + 1] = w[d + (j + 1)]
      BY <1>1, <1>3, <3>1
    <3>3. d + (j + 1) = (d + 1) + j /\ 0 + j = j
      OBVIOUS
    <3> QED
      BY <3>2, <3>3
  <2>4. ASSUME NEW i \in DOMAIN queue', i > 0 + n - (d + 1)
        PROVE  Quantizes(queue'[i])
    <3>1. i + 1 \in DOMAIN queue /\ i + 1 > o + n - d /\ queue'[i] = queue[i + 1]
      BY <1>1, <1>2, <1>5, <2>4
    <3> QED
      BY <1>3, <3>1
  <2>5. InQueue(w, n, d + 1, 0)'
    BY <2>2, <2>3, <2>4 DEF InQueue
  <2> QED
    BY <1>1, <1>2, <1>5, <2>1, <2>5
<1>6. CASE o = 0 /\ d = n
  <2>1. \A i \in DOMAIN queue : Quantizes(queue[i])
    BY <1>2, <1>3, <1>6
  <2>2. 1 \in DOMAIN queue
    BY <1>2
  <2>3. \A i \in DOMAIN queue' : i + 1 \in DOMAIN queue /\ queue'[i] = queue[i + 1]
    BY <1>1, <1>2
  <2>4. \A i \in DOMAIN queue' : Quantizes(queue'[i])
    BY <2>1, <2>3
  <2>5. 0 + n - d <= Len(queue') /\ n - d = 0
    BY <1>1, <1>2, <1>6
  <2>6. InQueue(w, n, d, 0)'
    BY <2>4, <2>5 DEF InQueue
  <2> QED
    BY <1>1, <1>2, <1>6, <2>1, <2>2, <2>6
<1> QED
  BY <1>4, <1>5, <1>6

\* What a command of the queue leaves alone.
LEMMA ClKernelShape ==
  ASSUME Shape, NEW k, k.op \in ClCommands, NEW mem
  PROVE  /\ ClKernelResult(k, mem) = [b \in ClFields |-> ClKernelResult(k, mem)[b]]
         /\ Quantizes(k) => /\ ClKernelResult(k, mem).buf = clmem.buf
                            /\ ClKernelResult(k, mem).out = clmem.out
<1>1. clmem = [b \in ClFields |-> clmem[b]]
  BY DEF Shape
<1>2. ASSUME NEW r, \E f, v : r = [clmem EXCEPT ![f] = v]
      PROVE  r = [b \in ClFields |-> r[b]]
  BY <1>1, <1>2
<1>3. ASSUME NEW r, \E v, w : r = [clmem EXCEPT !.power = v, !.quant = w]
      PROVE  r = [b \in ClFields |-> r[b]] /\ r.buf = clmem.buf /\ r.out = clmem.out
  BY <1>1, <1>3 DEF ClFields
<1>4. CASE k.op \in {"power", "half"}
  <2>1. \E v, w : ClKernelResult(k, mem) = [clmem EXCEPT !.power = v, !.quant = w]
    BY <1>4 DEF ClKernelResult
  <2> QED
    BY <2>1, <1>3
<1>5. CASE k.op \notin {"power", "half"}
  <2>1. \E f, v : ClKernelResult(k, mem) = [clmem EXCEPT ![f] = v]
    BY <1>5 DEF ClKernelResult, ClCommands
  <2> QED
    BY <1>5, <2>1, <1>2 DEF Quantizes
<1> QED
  BY <1>4, <1>5

\* The kernels of a frame on the samples of this frame.
LEMMA ClShaders ==
  ASSUME Shape
  PROVE  /\ \A s : HostMem.frame = Samples(s) => ClKernelResult(FrameWrite(s), HostMem).buf = Samples(s)
         /\ clmem.buf = Samples("raw") =>
              ClKernelResult([op |-> "window_complex"], HostMem).buf = Samples("windowed")
         /\ clmem.buf = Samples("windowed") =>
              ClKernelResult([op |-> "transform"], HostMem).buf = Samples("spectrum")
<1>1. \A a, b, s, t : <<a, b, s>>[3] = s /\ [<<a, b, s>> EXCEPT ![3] = t] = <<a, b, t>>
  OBVIOUS
<1>2. clmem = [b \in ClFields |-> clmem[b]] /\ "buf" \in ClFields
  BY DEF Shape, ClFields
<1>3. \A v : [clmem EXCEPT !["buf"] = v].buf = v
  BY <1>2
<1>4. ASSUME NEW s, HostMem.frame = Samples(s)
      PROVE  ClKernelResult(FrameWrite(s), HostMem).buf = Samples(s)
  <2>1. HostMem["frame"] = Samples(s)
    BY <1>4
  <2>2. ClKernelResult(FrameWrite(s), HostMem) = [clmem EXCEPT !["buf"] = Samples(s)]
    BY <2>1 DEF ClKernelResult, FrameWrite
  <2> QED
    BY <1>3, <2>2
<1>5. ASSUME clmem.buf = Samples("raw")
      PROVE  ClKernelResult([op |-> "window_complex"], HostMem).buf = Samples("windowed")
  <2>1. ClKernelResult([op |-> "window_complex"], HostMem)
          = [clmem EXCEPT !["buf"] =
               IF clmem.buf[3] = "raw" THEN [clmem.buf EXCEPT ![3] = "windowed"] ELSE Garbage]
    BY DEF ClKernelResult
  <2> QED
    BY <1>1, <1>3, <1>5, <2>1 DEF Samples
<1>6. ASSUME clmem.buf = Samples("windowed")
      PROVE  ClKernelResult([op |-> "transform"], HostMem).buf = Samples("spectrum")
  <2>1. ClKernelResult([op |-> "transform"], HostMem)
          = [clmem EXCEPT !["buf"] =
               IF clmem.buf[3] = "windowed" THEN [clmem.buf EXCEPT ![3] = "spectrum"] ELSE Garbage]
    BY DEF ClKernelResult
  <2> QED
    BY <1>1, <1>3, <1>6, <2>1 DEF Samples
<1> QED
  BY <1>4, <1>5, <1>6

\* The commands of a real frame, on the halves of this frame.
LEMMA RealShaders ==
  ASSUME Shape, half_a # 0, half_b # 0, NEW d \in 0 .. 4, RealDone(d),
         clmem' = ClKernelResult(RealWork[d + 1], HostMem), UNCHANGED <<half_a, half_b>>
  PROVE  RealDone(d + 1)'
<1>1. clmem = [b \in ClFields |-> clmem[b]]
  BY DEF Shape
<1>2. HostMem["a"] = half_a /\ HostMem["b"] = half_b
  BY DEF HostMem
<1>3. Samples("spectrum")' = Samples("spectrum") /\ Samples("spectrum") = <<half_a, half_b, "spectrum">>
  BY DEF Samples
<1>4. CASE d = 0
  <2>1. clmem' = [clmem EXCEPT !["half_a"] = half_a]
    <3>1. PICK k : k = RealWork[d + 1]
      OBVIOUS
    <3>2. k.op = "write" /\ k.to = "half_a" /\ k.from = "a" /\ k.was = half_a
      BY <1>4, <3>1 DEF RealWork
    <3>3. clmem' = [clmem EXCEPT ![k.to] = k.was]
      BY <1>2, <3>1, <3>2 DEF ClKernelResult
    <3> QED
      BY <3>2, <3>3
  <2> QED
    BY <1>1, <1>4, <2>1 DEF RealDone, ClFields
<1>5. CASE d = 1
  <2>1. clmem' = [clmem EXCEPT !["half_b"] = half_b]
    <3>1. PICK k : k = RealWork[d + 1]
      OBVIOUS
    <3>2. k.op = "write" /\ k.to = "half_b" /\ k.from = "b" /\ k.was = half_b
      BY <1>5, <3>1 DEF RealWork
    <3>3. clmem' = [clmem EXCEPT ![k.to] = k.was]
      BY <1>2, <3>1, <3>2 DEF ClKernelResult
    <3> QED
      BY <3>2, <3>3
  <2> QED
    BY <1>1, <1>5, <2>1 DEF RealDone, ClFields
<1>6. CASE d = 2
  <2>1. clmem' = [clmem EXCEPT !["in_a"] = clmem["half_a"]]
    <3>1. RealWork[d + 1] = [op |-> "window_real", from |-> "half_a", to |-> "in_a"]
      BY <1>6 DEF RealWork
    <3> QED
      BY <1>2, <3>1 DEF ClKernelResult
  <2> QED
    BY <1>1, <1>6, <2>1 DEF RealDone, ClFields
<1>7. CASE d = 3
  <2>1. clmem' = [clmem EXCEPT !["in_b"] = clmem["half_b"]]
    <3>1. RealWork[d + 1] = [op |-> "window_real", from |-> "half_b", to |-> "in_b"]
      BY <1>7 DEF RealWork
    <3> QED
      BY <1>2, <3>1 DEF ClKernelResult
  <2> QED
    BY <1>1, <1>7, <2>1 DEF RealDone, ClFields
<1>8. CASE d = 4
  <2>1. clmem.in_a = half_a /\ clmem.in_b = half_b
    BY <1>8 DEF RealDone
  <2>2. clmem' = [clmem EXCEPT !["out"] = Samples("spectrum")]
    BY <1>3, <1>8, <2>1 DEF RealWork, ClKernelResult
  <2> QED
    BY <1>1, <1>3, <1>8, <2>2 DEF RealDone, ClFields
<1> QED
  BY <1>4, <1>5, <1>6, <1>7, <1>8

\* The queue of a complex frame keeps its order while the device takes from it, ...
LEMMA GpuMoves ==
  ASSUME Shape, NEW n \in 1 .. 3, GpuSent(n), queue # <<>>, queue' = Tail(queue),
         clmem' = ClKernelResult(Head(queue), HostMem),
         UNCHANGED <<isReal, onError, half_a, half_b, complex_frame>>
  PROVE  GpuSent(n)'
<1>1. PICK d \in 0 .. n : InQueue(GpuWork, n, d, 0) /\ GpuDone(d) /\ (n < 3 => Len(queue) = n - d)
  BY DEF GpuSent
<1>2. PICK w : w = GpuWork
  OBVIOUS
<1>3. /\ Sequence(queue) /\ Len(queue) \in Nat \ {0} /\ Head(queue) \in {queue[i] : i \in DOMAIN queue}
      /\ Head(queue).op \in ClCommands /\ n \in Nat /\ 0 \in 0 .. Len(queue)
  <2>1. Sequence(queue) /\ Head(queue) = queue[1]
    BY TailSequence DEF Shape
  <2>2. Len(queue) \in Nat \ {0} /\ 1 \in DOMAIN queue
    BY <2>1, SequenceFacts
  <2> QED
    BY <2>1, <2>2 DEF Shape
<1>4. /\ Len(queue') = Len(queue) - 1
      /\ \/ d < n /\ Head(queue) = w[d + 1] /\ InQueue(w, n, d + 1, 0)'
         \/ d = n /\ Quantizes(Head(queue)) /\ InQueue(w, n, d, 0)'
  <2>1. PICK o \in 0 .. Len(queue) : o = 0
    BY <1>3
  <2>2. InQueue(w, n, d, o)
    BY <1>1, <1>2, <2>1
  <2>3. /\ Len(queue') = Len(queue) - 1
        /\ \/ o > 0
           \/ d < n /\ Head(queue) = w[d + 1] /\ InQueue(w, n, d + 1, 0)'
           \/ d = n /\ Quantizes(Head(queue)) /\ InQueue(w, n, d, 0)'
    BY <1>3, <2>2, QueueMoves
  <2> QED
    BY <2>1, <2>3
<1>5. /\ w = GpuWork' /\ \A s : Samples(s)' = Samples(s)
      /\ complex_frame = Samples("raw") /\ complex_frame' = Samples("raw")' /\ ~isReal'
      /\ onError' = "fallback"
  BY <1>2 DEF GpuWork, FrameWrite, Samples, GpuSent
<1>6. CASE d < n /\ Head(queue) = w[d + 1] /\ InQueue(w, n, d + 1, 0)'
  <2>1. GpuDone(d + 1)'
    <3>1. HostMem.frame = Samples("raw")
      BY <1>5 DEF HostMem
    <3>2. CASE d = 0
      <4>1. Head(queue) = FrameWrite("raw")
        BY <1>2, <1>6, <3>2 DEF GpuWork
      <4> QED
        BY <1>5, <3>1, <3>2, <4>1, ClShaders DEF GpuDone
    <3>3. CASE d = 1
      <4>1. Head(queue) = [op |-> "window_complex"]
        BY <1>2, <1>6, <3>3 DEF GpuWork
      <4> QED
        BY <1>1, <1>5, <3>3, <4>1, ClShaders DEF GpuDone
    <3>4. CASE d = 2
      <4>1. Head(queue) = [op |-> "transform"]
        BY <1>2, <1>6, <3>4 DEF GpuWork
      <4> QED
        BY <1>1, <1>5, <3>4, <4>1, ClShaders DEF GpuDone
    <3> QED
      BY <1>6, <3>2, <3>3, <3>4
  <2>2. d + 1 \in 0 .. n /\ (n < 3 => Len(queue') = n - (d + 1))
    BY <1>1, <1>3, <1>4, <1>6
  <2> QED
    BY <1>5, <1>6, <2>1, <2>2 DEF GpuSent
<1>7. CASE d = n /\ Quantizes(Head(queue)) /\ InQueue(w, n, d, 0)'
  <2>1. GpuDone(d)'
    BY <1>1, <1>3, <1>5, <1>7, ClKernelShape DEF GpuDone
  <2>2. n = 3
    BY <1>1, <1>3, <1>7
  <2> QED
    BY <1>5, <1>7, <2>1, <2>2 DEF GpuSent
<1> QED
  BY <1>4, <1>6, <1>7

\* ... also behind what a failed attempt has left in it, ...
LEMMA AgainMoves ==
  ASSUME Shape, NEW n \in 1 .. 2, AgainSent(n), queue # <<>>, queue' = Tail(queue),
         clmem' = ClKernelResult(Head(queue), HostMem),
         UNCHANGED <<isReal, onError, half_a, half_b, complex_frame>>
  PROVE  AgainSent(n)'
<1>1. PICK d \in 0 .. n, o \in 0 .. Len(queue) :
        InQueue(AgainWork, n, d, o) /\ AgainDone(d) /\ Len(queue) = o + n - d
  BY DEF AgainSent
<1>2. PICK w : w = AgainWork
  OBVIOUS
<1>3. Sequence(queue) /\ n \in Nat
  BY DEF Shape
<1>4. /\ Len(queue) \in Nat \ {0} /\ Len(queue') = Len(queue) - 1
      /\ \/ o > 0 /\ d = 0 /\ InQueue(w, n, d, o - 1)' /\ o - 1 \in 0 .. Len(queue')
         \/ o = 0 /\ d < n /\ Head(queue) = w[d + 1] /\ InQueue(w, n, d + 1, 0)'
         \/ o = 0 /\ d = n
  BY <1>1, <1>2, <1>3, QueueMoves
<1>5. /\ w = AgainWork' /\ \A s : Samples(s)' = Samples(s)
      /\ complex_frame = Samples("windowed") /\ complex_frame' = Samples("windowed")'
      /\ ~isReal' /\ onError' = "error"
  BY <1>2 DEF AgainWork, FrameWrite, Samples, AgainSent
<1>6. CASE o > 0 /\ d = 0 /\ InQueue(w, n, d, o - 1)' /\ o - 1 \in 0 .. Len(queue')
  <2>1. AgainDone(d)'
    BY <1>6 DEF AgainDone
  <2>2. Len(queue') = (o - 1) + n - d
    BY <1>1, <1>4
  <2> QED
    BY <1>5, <1>6, <2>1, <2>2 DEF AgainSent
<1>7. CASE o = 0 /\ d < n /\ Head(queue) = w[d + 1] /\ InQueue(w, n, d + 1, 0)'
  <2>1. AgainDone(d + 1)'
    <3>1. HostMem.frame = Samples("windowed")
      BY <1>5 DEF HostMem
    <3>2. CASE d = 0
      <4>1. Head(queue) = FrameWrite("windowed")
        BY <1>2, <1>7, <3>2 DEF AgainWork
      <4> QED
        BY <1>5, <3>1, <3>2, <4>1, ClShaders DEF AgainDone
    <3>3. CASE d = 1
      <4>1. Head(queue) = [op |-> "transform"]
        BY <1>2, <1>7, <3>3 DEF AgainWork
      <4> QED
        BY <1>1, <1>5, <3>3, <4>1, ClShaders DEF AgainDone
    <3> QED
      BY <1>7, <3>2, <3>3
  <2>2. d + 1 \in 0 .. n /\ 0 \in 0 .. Len(queue') /\ Len(queue') = 0 + n - (d + 1)
    BY <1>1, <1>4, <1>7
  <2> QED
    BY <1>5, <1>7, <2>1, <2>2 DEF AgainSent
<1>8. ~(o = 0 /\ d = n)
  BY <1>1, <1>4
<1> QED
  BY <1>4, <1>6, <1>7, <1>8

\* ... and so does that of a real one.
LEMMA RealMoves ==
  ASSUME Shape, half_a # 0, half_b # 0, NEW n \in 0 .. 5, RealSent(n), queue # <<>>, queue' = Tail(queue),
         clmem' = ClKernelResult(Head(queue), HostMem),
         UNCHANGED <<isReal, onError, half_a, half_b>>
  PROVE  RealSent(n)'
<1>1. PICK d \in 0 .. n, o \in 0 .. Len(queue) :
        InQueue(RealWork, n, d, o) /\ RealDone(d) /\ Len(queue) = o + n - d
  BY DEF RealSent
<1>2. PICK w : w = RealWork
  OBVIOUS
<1>3. Sequence(queue) /\ n \in Nat
  BY DEF Shape
<1>4. /\ Len(queue) \in Nat \ {0} /\ Len(queue') = Len(queue) - 1
      /\ \/ o > 0 /\ d = 0 /\ InQueue(w, n, d, o - 1)' /\ o - 1 \in 0 .. Len(queue')
         \/ o = 0 /\ d < n /\ Head(queue) = w[d + 1] /\ InQueue(w, n, d + 1, 0)'
         \/ o = 0 /\ d = n
  BY <1>1, <1>2, <1>3, QueueMoves
<1>5. w = RealWork' /\ isReal' /\ onError' = "error"
  BY <1>2 DEF RealWork, RealSent
<1>6. CASE o > 0 /\ d = 0 /\ InQueue(w, n, d, o - 1)' /\ o - 1 \in 0 .. Len(queue')
  <2>1. RealDone(d)'
    BY <1>6 DEF RealDone
  <2>2. Len(queue') = (o - 1) + n - d
    BY <1>1, <1>4
  <2> QED
    BY <1>5, <1>6, <2>1, <2>2 DEF RealSent
<1>7. CASE o = 0 /\ d < n /\ Head(queue) = w[d + 1] /\ InQueue(w, n, d + 1, 0)'
  <2>1. RealDone(d + 1)'
    <3>1. d \in 0 .. 4
      BY <1>7
    <3> QED
      BY <1>1, <1>2, <1>7, <3>1, RealShaders
  <2>2. d + 1 \in 0 .. n /\ 0 \in 0 .. Len(queue') /\ Len(queue') = 0 + n - (d + 1)
    BY <1>1, <1>4, <1>7
  <2> QED
    BY <1>5, <1>7, <2>1, <2>2 DEF RealSent
<1>8. ~(o = 0 /\ d = n)
  BY <1>1, <1>4
<1> QED
  BY <1>4, <1>6, <1>7, <1>8

\* The OpenCL device takes the next command of its queue.
LEMMA ClDeviceInv == EngineInv /\ ClDevice => EngineInv'
<1> SUFFICES ASSUME EngineInv, ClDevice
             PROVE  EngineInv'
  OBVIOUS
<1>1. /\ queue # <<>> /\ clmem' = ClKernelResult(Head(queue), HostMem) /\ queue' = Tail(queue)
      /\ UNCHANGED <<clLive, vkVars, machineVars>>
  BY DEF ClDevice, QueueStep
<1>2. Shape /\ EngineTypeOK
  BY DEF EngineInv
<1>3. /\ Sequence(queue) /\ Sequence(queue') /\ Head(queue).op \in ClCommands
      /\ \A i \in DOMAIN queue' : i + 1 \in DOMAIN queue /\ queue'[i] = queue[i + 1]
  <2>1. /\ Sequence(queue) /\ Sequence(queue') /\ Head(queue) = queue[1] /\ Len(queue') = Len(queue) - 1
        /\ \A i \in 1 .. Len(queue) - 1 : queue'[i] = queue[i + 1]
    BY <1>1, <1>2, TailSequence DEF Shape
  <2>2. Len(queue) \in Nat \ {0} /\ DOMAIN queue = 1 .. Len(queue) /\ DOMAIN queue' = 1 .. Len(queue) - 1
    BY <1>1, <2>1, SequenceFacts
  <2> QED
    BY <1>2, <2>1, <2>2 DEF Shape
<1>4. /\ UsesVk' = UsesVk /\ UsesCl' = UsesCl /\ Worker' = Worker
      /\ End' = End /\ \A s : Samples(s)' = Samples(s)
  BY <1>1 DEF UsesVk, UsesCl, Worker, End, Samples, machineVars
<1>5. EngineTypeOK'
  BY <1>1, <1>2 DEF EngineTypeOK, machineVars, SpectrumLen, vkVars, vkWork
<1>6. Shape'
  <2>1. clmem' = [b \in ClFields |-> clmem'[b]]
    BY <1>1, <1>2, <1>3, ClKernelShape
  <2>2. \A i \in DOMAIN queue' : queue'[i].op \in ClCommands
    BY <1>2, <1>3 DEF Shape
  <2> QED
    BY <1>1, <1>2, <1>3, <2>1, <2>2 DEF Shape, machineVars, vkVars, vkObjects, vkWork
<1>7. Closed' /\ Acquiring' /\ Complete' /\ Releasing' /\ Objects' /\ WindowLoaded'
  <2>1. UNCHANGED <<machine, acc, isReal, vkLive, clLive, phase, todo, dev>>
    BY <1>1 DEF machineVars, vkVars, vkObjects, vkWork
  <2>2. Closed' /\ Acquiring' /\ Complete' /\ Releasing' /\ Objects'
    BY <2>1, ObjectsKept
  <2>3. WindowLoaded'
    BY <1>4, <2>1 DEF EngineInv, WindowLoaded
  <2> QED
    BY <2>2, <2>3
<1>8. InScript'
  <2>1. phase' = phase /\ todo' = todo /\ result' = result /\ cmd' = cmd /\ onError' = onError
    BY <1>1 DEF machineVars, vkVars, vkWork
  <2>2. CASE phase # "execute" \/ result = "err"
    BY <2>1, <2>2 DEF EngineInv, InScript
  <2>3. CASE phase = "execute" /\ result # "err"
    <3>1. PICK x \in Uses, d \in Contents :
            Path(todo, <<x, d>>, End) /\ UseState(x) /\ ContentState(d) /\ HandlerOK(d)
      BY <2>3 DEF EngineInv, InScript
    <3>2. Path(todo', <<x, d>>, End')
      BY <1>4, <2>1, <3>1
    <3>3. UseState(x)'
      BY <1>1, <1>4, <3>1 DEF UseState, vkVars, vkWork
    <3>4. HandlerOK(d)'
      BY <1>1, <1>4, <3>1 DEF HandlerOK, machineVars
    <3>5. half_a # 0 /\ half_b # 0
      BY <1>2, <2>3 DEF Shape
    <3>6. /\ d = "gpu1" => GpuSent(1)'
          /\ d = "gpu2" => GpuSent(2)'
          /\ d = "gpu3" => GpuSent(3)'
      BY <1>1, <1>2, <3>1, GpuMoves DEF ContentState, machineVars
    <3>7. /\ d = "again1" => AgainSent(1)'
          /\ d = "again2" => AgainSent(2)'
      BY <1>1, <1>2, <3>1, AgainMoves DEF ContentState, machineVars
    <3>8. /\ d = "real0" => RealSent(0)'
          /\ d = "real1" => RealSent(1)'
          /\ d = "real2" => RealSent(2)'
          /\ d = "real3" => RealSent(3)'
          /\ d = "real4" => RealSent(4)'
          /\ d = "real5" => RealSent(5)'
      BY <1>1, <1>2, <3>1, <3>5, RealMoves DEF ContentState, machineVars
    <3>9. /\ d = "owed" => Owed'
          /\ d \in {"start", "raw", "done"} => ~UsesCl'
          /\ d = "real_done" => (UsesCl' => \A i \in DOMAIN queue' : Quantizes(queue'[i]))
      BY <1>1, <1>3, <1>4, <3>1 DEF ContentState, Owed, machineVars, vkVars, vkWork
    <3>11. d = "real_done" => (UsesCl' => clmem'.out = Samples("spectrum")')
      <4>1. SUFFICES ASSUME d = "real_done", UsesCl PROVE clmem'.out = Samples("spectrum")
        BY <1>4
      <4>2. Quantizes(Head(queue)) /\ clmem.out = Samples("spectrum")
        <5>1. Head(queue) = queue[1] /\ 1 \in DOMAIN queue
          BY <1>1, <1>3, TailSequence, SequenceFacts
        <5> QED
          BY <3>1, <4>1, <5>1 DEF ContentState
      <4> QED
        BY <1>1, <1>2, <1>3, <4>2, ClKernelShape
    <3>10. ContentState(d)'
      BY <1>1, <1>4, <3>1, <3>6, <3>7, <3>8, <3>9, <3>11 DEF ContentState, machineVars, vkVars, vkWork
    <3> QED
      BY <2>1, <2>3, <3>1, <3>2, <3>3, <3>4, <3>10 DEF InScript, EngineInv
  <2> QED
    BY <2>2, <2>3
<1>9. OutOfScript'
  BY <1>1, <1>4 DEF EngineInv, OutOfScript, machineVars, vkVars, vkWork
<1> QED
  BY <1>5, <1>6, <1>7, <1>8, <1>9 DEF EngineInv

\* Nothing happens in the engine.
LEMMA StutterInv == EngineInv /\ UNCHANGED engineVars => EngineInv'
<1> SUFFICES ASSUME EngineInv, UNCHANGED engineVars
             PROVE  EngineInv'
  OBVIOUS
<1>1. /\ UNCHANGED <<vkLive, coherent, lost, fence, cmd, rec, dirty, host, dev, clLive, queue, clmem>>
      /\ UNCHANGED <<machine, acc, isReal, phase, todo, onError, frame, half_a, half_b, complex_frame,
                     spectrum, wanted, quantized, result>>
  BY DEF engineVars, vkVars, vkObjects, vkWork, clVars, machineVars
<1>2. /\ UsesVk' = UsesVk /\ UsesCl' = UsesCl /\ Worker' = Worker
      /\ End' = End /\ \A s : Samples(s)' = Samples(s)
  BY <1>1 DEF UsesVk, UsesCl, Worker, End, Samples
<1>3. EngineTypeOK' /\ Shape'
  BY <1>1 DEF EngineInv, EngineTypeOK, Shape, SpectrumLen
<1>4. Closed' /\ Acquiring' /\ Complete' /\ Releasing' /\ Objects' /\ WindowLoaded'
  BY <1>1, <1>2, ObjectsKept DEF EngineInv, WindowLoaded
<1>5. OutOfScript'
  BY <1>1, <1>2 DEF EngineInv, OutOfScript
<1>6. InScript'
  <2>1. CASE phase # "execute" \/ result = "err"
    BY <1>1, <2>1 DEF EngineInv, InScript
  <2>2. CASE phase = "execute" /\ result # "err"
    <3>1. PICK x \in Uses, d \in Contents :
            Path(todo, <<x, d>>, End) /\ UseState(x) /\ ContentState(d) /\ HandlerOK(d)
      BY <2>2 DEF EngineInv, InScript
    <3>2. UseState(x)' /\ HandlerOK(d)'
      BY <1>1, <1>2, <3>1 DEF UseState, HandlerOK
    <3>3. /\ Owed => Owed'
          /\ \A n \in Nat : GpuSent(n) => GpuSent(n)'
          /\ \A n \in Nat : AgainSent(n) => AgainSent(n)'
          /\ \A n \in Nat : RealSent(n) => RealSent(n)'
      <4>1. GpuWork' = GpuWork /\ AgainWork' = AgainWork /\ RealWork' = RealWork
        BY <1>1, <1>2 DEF GpuWork, AgainWork, RealWork, FrameWrite
      <4>2. /\ \A n : GpuDone(n)' = GpuDone(n)
            /\ \A n : AgainDone(n)' = AgainDone(n)
            /\ \A n : RealDone(n)' = RealDone(n)
        BY <1>1, <1>2 DEF GpuDone, AgainDone, RealDone
      <4>3. Owed => Owed'
        BY <1>1, <1>2 DEF Owed
      <4>4. \A n \in Nat : GpuSent(n) => GpuSent(n)'
        BY <1>1, <1>2, <4>1, <4>2 DEF GpuSent, InQueue
      <4>5. \A n \in Nat : AgainSent(n) => AgainSent(n)'
        BY <1>1, <1>2, <4>1, <4>2 DEF AgainSent, InQueue
      <4>6. \A n \in Nat : RealSent(n) => RealSent(n)'
        BY <1>1, <1>2, <4>1, <4>2 DEF RealSent, InQueue
      <4> QED
        BY <4>3, <4>4, <4>5, <4>6
    <3>4. ContentState(d)'
      BY <1>1, <1>2, <3>1, <3>3 DEF ContentState
    <3>5. Path(todo', <<x, d>>, End')
      BY <1>1, <1>2, <3>1
    <3> QED
      BY <1>1, <2>2, <3>1, <3>2, <3>4, <3>5 DEF InScript, EngineInv
  <2> QED
    BY <2>1, <2>2
<1> QED
  BY <1>3, <1>4, <1>5, <1>6 DEF EngineInv
-----------------------------------------------------------------------------
(* FFT engine: the theorems *)

\* The invariant of the engine, for every size, number of levels and number
\* of frames, on the CPU and on both GPU back ends.
THEOREM EngineInvariant == EngineSpec => []EngineInv
<1>1. EngineInit => EngineInv
  BY EngineInitInv
<1>2. EngineInv /\ [EngineNext]_engineVars => EngineInv'
  <2> SUFFICES ASSUME EngineInv, [EngineNext]_engineVars
               PROVE  EngineInv'
    OBVIOUS
  <2>1. CASE Construct
    BY <2>1, ConstructInv
  <2>2. CASE ConstructFails
    BY <2>2, ConstructFailsInv
  <2>3. CASE Constructed
    BY <2>3, ConstructedInv
  <2>4. CASE \E want \in BOOLEAN : Execute(want)
    BY <2>4, ExecuteInv
  <2>5. CASE CpuStep
    BY <2>5, CpuStepInv
  <2>6. CASE GpuStep
    BY <2>6, VkStepInv, ClStepInv
  <2>7. CASE GpuFails
    BY <2>7, GpuFailsInv
  <2>8. CASE Return
    BY <2>8, ReturnInv
  <2>9. CASE Stop
    BY <2>9, StopInv
  <2>10. CASE Drop
    BY <2>10, DropInv
  <2>11. CASE VkDevice
    BY <2>11, VkDeviceInv
  <2>12. CASE ClDevice
    BY <2>12, ClDeviceInv
  <2>13. CASE Finished \/ UNCHANGED engineVars
    BY <2>13, StutterInv DEF Finished
  <2> QED
    BY <2>1, <2>2, <2>3, <2>4, <2>5, <2>6, <2>7, <2>8, <2>9, <2>10, <2>11, <2>12, <2>13 DEF EngineNext
<1> QED
  BY <1>1, <1>2, PTL DEF EngineSpec

\* No GPU object outlives what it was made from, in a constructor that
\* succeeds, in use and in a Drop, of which nothing but clFFT's setup is left;
\* but the Vulkan instance outlives the entry, and the plan of an OpenCL
\* constructor that failed its context and queue.  A Drop that follows no
\* error finds no transfer and no transform in the OpenCL queue.
THEOREM ObjectsReleasedInOrder == EngineSpec => []ObjectsInOrder
<1>1. EngineInv => ObjectsInOrder
  <2> SUFFICES ASSUME EngineInv
               PROVE  ObjectsInOrder
    OBVIOUS
  <2>1. EngineTypeOK /\ Closed /\ Objects /\ OutOfScript
    BY DEF EngineInv
  <2>2. phase = "drop" /\ UsesCl /\ result # "err" =>
          \A i \in DOMAIN queue : queue[i].op \in {"power", "half"}
    BY <2>1 DEF OutOfScript, Quantizes
  <2> QED
    BY <2>1, <2>2 DEF Closed, Objects, ObjectsInOrder
<1> QED
  BY <1>1, EngineInvariant, PTL

\* An execute() that returns Ok leaves the windowed spectrum of this frame,
\* whichever call failed on the way and whatever handled it.
THEOREM SpectrumIsOfThisFrame == EngineSpec => []SpectrumOfThisFrame
<1>1. EngineInv => SpectrumOfThisFrame
  BY DEF EngineInv, InScript, OutOfScript, SpectrumOfThisFrame
<1> QED
  BY <1>1, EngineInvariant, PTL

\* The next Vulkan call is one its command buffer and fence are ready for.
LEMMA NextCallIsValid ==
  ASSUME EngineInv, phase = "execute", UsesVk, todo # <<>>
  PROVE  ValidUse(Head(todo))
<1> DEFINE c == Head(todo)
<1>1. PICK x \in Uses, y \in Uses : UseStep(c, x, y) /\ UseState(x)
  BY CallMade
<1>2. x # "queue"
  BY <1>1 DEF UseState, UsesVk, UsesCl
<1> SUFFICES ValidUse(c)
  OBVIOUS
<1> HIDE DEF c
<1>3. CASE c[1] \in {"reset_fences", "reset_cmd", "begin", "record", "append", "end", "submit", "wait"}
  BY <1>1, <1>3 DEF UseStep, UseState, ValidUse, CpuCalls, ClCalls, IdleCalls
<1>4. CASE c[1] \in IdleCalls
  <2>1. x = "idle"
    BY <1>1, <1>2, <1>4 DEF UseStep, CpuCalls, ClCalls, IdleCalls
  <2> QED
    BY <1>1, <1>4, <2>1 DEF UseState, ValidUse, IdleCalls
<1>5. CASE c[1] \in CpuCalls
  BY <1>5 DEF ValidUse, CpuCalls
<1> QED
  BY <1>1, <1>2, <1>3, <1>4, <1>5, Zenon DEF UseStep, ClCalls, IdleCalls

\* Before a frame's first error no queued write waits for a buffer that has changed.
LEMMA WritesInFlight ==
  ASSUME EngineInv, phase = "execute", onError # "error", UsesCl
  PROVE  InFlightStable(HostMem)
<1>1. PICK x \in Uses, d \in Contents :
        Path(todo, <<x, d>>, End) /\ UseState(x) /\ ContentState(d) /\ HandlerOK(d)
  BY DEF EngineInv, InScript
<1>2. x = "queue" /\ ~Worker /\ Sequence(queue)
  BY <1>1 DEF UseState, Uses, UsesCl, EngineInv, Shape
<1>3. d \in {"start", "raw", "done", "real_done", "gpu1", "gpu2", "gpu3"}
  <2>1. CASE todo = <<>>
    <3>1. <<x, d>> = End
      BY <1>1, <2>1, PathEnd
    <3> QED
      BY <1>2, <3>1 DEF End
  <2>2. CASE todo # <<>>
    <3>1. PICK m \in Stages : Leads(Head(todo), <<x, d>>, m)
      BY <1>1, <2>2, PathStep
    <3>2. PICK c : c = Head(todo)
      OBVIOUS
    <3>3. ContentStep(c, x, d, m[2])
      BY <3>1, <3>2 DEF Leads
    <3>4. d # "any" /\ d \notin {"cpu_start", "windowed"}
      BY <1>1, <1>2 DEF ContentState
    <3>5. d \notin {"again1", "again2", "real0", "real1", "real2", "real3", "real4", "real5"}
      BY <1>1 DEF ContentState, AgainSent, RealSent
    <3>6. CpuContent(c, x, d, m[2]) \/ ClContent(c, d, m[2])
      BY <1>2, <3>3, <3>4 DEF ContentStep
    <3>7. CASE CpuContent(c, x, d, m[2])
      BY <1>2, <3>4, <3>5, <3>7 DEF CpuContent
    <3>8. CASE ClContent(c, d, m[2])
      BY ONLY <3>4, <3>5, <3>8 DEF ClContent
    <3> QED
      BY <3>6, <3>7, <3>8
  <2> QED
    BY <2>1, <2>2
<1>4. CASE d \in {"start", "raw", "done"}
  BY <1>1, <1>4 DEF ContentState, InFlightStable
<1>5. CASE d = "real_done"
  BY <1>1, <1>5 DEF ContentState, InFlightStable, Quantizes
<1>6. CASE d \in {"gpu1", "gpu2", "gpu3"}
  <2>1. PICK n \in 1 .. 3 : GpuSent(n)
    BY <1>1, <1>6 DEF ContentState
  <2>2. PICK e \in 0 .. n : InQueue(GpuWork, n, e, 0)
    BY <2>1 DEF GpuSent
  <2>3. complex_frame = Samples("raw")
    BY <2>1 DEF GpuSent
  <2> SUFFICES ASSUME NEW i \in DOMAIN queue, queue[i].op = "write"
               PROVE  HostMem[queue[i].from] = queue[i].was
    BY DEF InFlightStable
  <2>4. i \in Nat \ {0}
    BY <1>2, SequenceFacts
  <2>5. CASE i > 0 + n - e
    BY <2>2, <2>5 DEF InQueue, Quantizes
  <2>6. CASE i \in 1 .. n - e
    <3>1. queue[0 + i] = GpuWork[e + i] /\ 0 + i = i /\ e + i \in 1 .. 3
      BY <2>2, <2>6 DEF InQueue
    <3>2. queue[i] = FrameWrite("raw")
      BY <3>1 DEF GpuWork, FrameWrite
    <3> QED
      BY <2>3, <3>2 DEF FrameWrite, HostMem
  <2> QED
    BY <2>4, <2>5, <2>6
<1> QED
  BY <1>3, <1>4, <1>5, <1>6

\* Every Vulkan call finds its command buffer and fence ready, and no
\* buffer changes while an OpenCL write from it may still be on its way.
THEOREM EveryCallIsValid == EngineSpec => []CallsAreValid
<1>1. ASSUME EngineInv
      PROVE  CallsAreValid
  <2>1. (phase = "drop" /\ UsesVk) => ValidUse(<<"destroy">>)
    BY <1>1 DEF EngineInv, OutOfScript, ValidUse
  <2> QED
    BY <1>1, <2>1, NextCallIsValid, WritesInFlight DEF CallsAreValid
<1> QED
  BY <1>1, EngineInvariant, PTL
-----------------------------------------------------------------------------
(* FFT engine: the levels of a waterfall *)

\* Induction over the naturals, for a set in place of a predicate.
LEMMA Induction ==
  ASSUME NEW S, S \subseteq Nat, 0 \in S, \A n \in S : n + 1 \in S
  PROVE  S = Nat
<1> DEFINE R == OpToRel(<, Nat)
           T == Nat \ S
<1>1. SUFFICES ASSUME T # {} PROVE FALSE
  OBVIOUS
<1>2. IsWellFoundedOn(R, Nat)
  BY NatLessThanWellFounded
<1>3. T \subseteq Nat
  OBVIOUS
<1>4. \A x, y \in Nat : x < y => <<x, y>> \in R
  BY DEF OpToRel
<1> HIDE DEF R, T
<1>5. PICK x \in T : \A y \in T : ~(<<y, x>> \in R)
  BY <1>1, <1>2, <1>3, WFMin
<1>6. x \in Nat /\ x \notin S
  BY <1>5 DEF T
<1>7. x # 0 /\ x - 1 \in Nat /\ x - 1 < x
  BY <1>6
<1>8. x - 1 \in T
  BY <1>6, <1>7 DEF T
<1> QED
  BY <1>4, <1>5, <1>6, <1>7, <1>8

\* The recursion of LevelLen has a solution, ...
LEMMA LengthsExist ==
  ASSUME NEW n
  PROVE  \E f : f = [k \in 0 .. Levels |-> IF k = 0 THEN n ELSE f[k - 1] \div 2]
<1> DEFINE S == {m \in Nat : \E f : f = [k \in 0 .. m |-> IF k = 0 THEN n ELSE f[k - 1] \div 2]}
<1>1. 0 \in S
  <2> DEFINE f == [k \in 0 .. 0 |-> n]
  <2>1. f = [k \in 0 .. 0 |-> IF k = 0 THEN n ELSE f[k - 1] \div 2]
    OBVIOUS
  <2> QED
    BY <2>1
<1>2. ASSUME NEW m \in S
      PROVE  m + 1 \in S
  <2>1. PICK f : f = [k \in 0 .. m |-> IF k = 0 THEN n ELSE f[k - 1] \div 2]
    BY <1>2
  <2> DEFINE g == [k \in 0 .. m + 1 |-> IF k <= m THEN f[k] ELSE f[m] \div 2]
  <2>2. \A k \in 0 .. m + 1 : g[k] = IF k = 0 THEN n ELSE g[k - 1] \div 2
    BY <2>1
  <2>3. g = [k \in 0 .. m + 1 |-> IF k = 0 THEN n ELSE g[k - 1] \div 2]
    BY <2>2
  <2> HIDE DEF g
  <2>4. \E h : h = [k \in 0 .. m + 1 |-> IF k = 0 THEN n ELSE h[k - 1] \div 2]
    BY <2>3
  <2> QED
    BY <2>4
<1>3. S = Nat
  BY <1>1, <1>2, Induction
<1> QED
  BY <1>3

\* ... so does that of LevelStart, ...
LEMMA StartsExist ==
  ASSUME NEW n
  PROVE  \E f : f = [k \in 0 .. Levels |-> IF k = 0 THEN 0 ELSE f[k - 1] + LevelLen(n, k - 1)]
<1> DEFINE S == {m \in Nat :
                   \E f : f = [k \in 0 .. m |-> IF k = 0 THEN 0 ELSE f[k - 1] + LevelLen(n, k - 1)]}
<1>1. 0 \in S
  <2> DEFINE f == [k \in 0 .. 0 |-> 0]
  <2>1. f = [k \in 0 .. 0 |-> IF k = 0 THEN 0 ELSE f[k - 1] + LevelLen(n, k - 1)]
    OBVIOUS
  <2> QED
    BY <2>1
<1>2. ASSUME NEW m \in S
      PROVE  m + 1 \in S
  <2>1. PICK f : f = [k \in 0 .. m |-> IF k = 0 THEN 0 ELSE f[k - 1] + LevelLen(n, k - 1)]
    BY <1>2
  <2> DEFINE g == [k \in 0 .. m + 1 |-> IF k <= m THEN f[k] ELSE f[m] + LevelLen(n, m)]
  <2>2. \A k \in 0 .. m + 1 : g[k] = IF k = 0 THEN 0 ELSE g[k - 1] + LevelLen(n, k - 1)
    BY <2>1
  <2>3. g = [k \in 0 .. m + 1 |-> IF k = 0 THEN 0 ELSE g[k - 1] + LevelLen(n, k - 1)]
    BY <2>2
  <2> HIDE DEF g
  <2>4. \E h : h = [k \in 0 .. m + 1 |-> IF k = 0 THEN 0 ELSE h[k - 1] + LevelLen(n, k - 1)]
    BY <2>3
  <2> QED
    BY <2>4
<1>3. S = Nat
  BY <1>1, <1>2, Induction
<1> QED
  BY <1>3

\* ... and so does that of LevelWidth.
LEMMA WidthsExist == \E f : f = [k \in 0 .. Levels |-> IF k = 0 THEN 1 ELSE 2 * f[k - 1]]
<1> DEFINE S == {m \in Nat : \E f : f = [k \in 0 .. m |-> IF k = 0 THEN 1 ELSE 2 * f[k - 1]]}
<1>1. 0 \in S
  <2> DEFINE f == [k \in 0 .. 0 |-> 1]
  <2>1. f = [k \in 0 .. 0 |-> IF k = 0 THEN 1 ELSE 2 * f[k - 1]]
    OBVIOUS
  <2> QED
    BY <2>1
<1>2. ASSUME NEW m \in S
      PROVE  m + 1 \in S
  <2>1. PICK f : f = [k \in 0 .. m |-> IF k = 0 THEN 1 ELSE 2 * f[k - 1]]
    BY <1>2
  <2> DEFINE g == [k \in 0 .. m + 1 |-> IF k <= m THEN f[k] ELSE 2 * f[m]]
  <2>2. \A k \in 0 .. m + 1 : g[k] = IF k = 0 THEN 1 ELSE 2 * g[k - 1]
    BY <2>1
  <2>3. g = [k \in 0 .. m + 1 |-> IF k = 0 THEN 1 ELSE 2 * g[k - 1]]
    BY <2>2
  <2> HIDE DEF g
  <2>4. \E h : h = [k \in 0 .. m + 1 |-> IF k = 0 THEN 1 ELSE 2 * h[k - 1]]
    BY <2>3
  <2> QED
    BY <2>4
<1>3. S = Nat
  BY <1>1, <1>2, Induction
<1> QED
  BY <1>3

\* ... so each level is made from the one before it.
LEMMA LevelRecursion ==
  ASSUME NEW n, NEW l \in 0 .. Levels
  PROVE  /\ LevelLen(n, l) = IF l = 0 THEN n ELSE LevelLen(n, l - 1) \div 2
         /\ LevelStart(n, l) = IF l = 0 THEN 0 ELSE LevelStart(n, l - 1) + LevelLen(n, l - 1)
         /\ LevelWidth[l] = IF l = 0 THEN 1 ELSE 2 * LevelWidth[l - 1]
<1>1. l # 0 => l - 1 \in 0 .. Levels
  OBVIOUS
<1>2. LevelLen(n, l) = IF l = 0 THEN n ELSE LevelLen(n, l - 1) \div 2
  <2> DEFINE F(f) == [k \in 0 .. Levels |-> IF k = 0 THEN n ELSE f[k - 1] \div 2]
             len == CHOOSE f : f = F(f)
  <2>1. len = F(len)
    BY LengthsExist
  <2>2. \A k : LevelLen(n, k) = len[k]
    BY DEF LevelLen
  <2> HIDE DEF len
  <2> QED
    BY <1>1, <2>1, <2>2
<1>3. LevelStart(n, l) = IF l = 0 THEN 0 ELSE LevelStart(n, l - 1) + LevelLen(n, l - 1)
  <2> DEFINE F(f) == [k \in 0 .. Levels |-> IF k = 0 THEN 0 ELSE f[k - 1] + LevelLen(n, k - 1)]
             start == CHOOSE f : f = F(f)
  <2>1. start = F(start)
    BY StartsExist
  <2>2. \A k : LevelStart(n, k) = start[k]
    BY DEF LevelStart
  <2> HIDE DEF start
  <2> QED
    BY <1>1, <2>1, <2>2
<1>4. LevelWidth[l] = IF l = 0 THEN 1 ELSE 2 * LevelWidth[l - 1]
  <2> DEFINE F(f) == [k \in 0 .. Levels |-> IF k = 0 THEN 1 ELSE 2 * f[k - 1]]
             width == CHOOSE f : f = F(f)
  <2>1. width = F(width)
    BY WidthsExist
  <2>2. LevelWidth = width
    BY DEF LevelWidth
  <2> HIDE DEF width
  <2> QED
    BY <1>1, <2>1, <2>2
<1> QED
  BY <1>2, <1>3, <1>4

\* The same for the level after one.
LEMMA NextLevel ==
  ASSUME NEW n, NEW k \in 0 .. Levels - 1
  PROVE  /\ LevelLen(n, k + 1) = LevelLen(n, k) \div 2
         /\ LevelStart(n, k + 1) = LevelStart(n, k) + LevelLen(n, k)
         /\ LevelWidth[k + 1] = 2 * LevelWidth[k]
<1> DEFINE l == k + 1
<1>1. l \in 0 .. Levels /\ l # 0 /\ l - 1 = k
  OBVIOUS
<1> HIDE DEF l
<1>2. /\ LevelLen(n, l) = LevelLen(n, l - 1) \div 2
      /\ LevelStart(n, l) = LevelStart(n, l - 1) + LevelLen(n, l - 1)
      /\ LevelWidth[l] = 2 * LevelWidth[l - 1]
  BY <1>1, LevelRecursion
<1> QED
  BY <1>1, <1>2 DEF l

\* All levels fit in twice the length of the first one.
LEMMA LevelTypes ==
  ASSUME NEW n \in Nat, NEW l \in 0 .. Levels
  PROVE  /\ LevelLen(n, l) \in Nat /\ LevelStart(n, l) \in Nat /\ LevelWidth[l] \in Nat \ {0}
         /\ LevelStart(n, l) + 2 * LevelLen(n, l) <= 2 * n
<1> DEFINE P(k) == /\ LevelLen(n, k) \in Nat /\ LevelStart(n, k) \in Nat /\ LevelWidth[k] \in Nat \ {0}
                   /\ LevelStart(n, k) + 2 * LevelLen(n, k) <= 2 * n
           S == {k \in Nat : k <= Levels => P(k)}
<1>1. 0 \in S
  <2>1. 0 \in 0 .. Levels
    OBVIOUS
  <2> QED
    BY <2>1, LevelRecursion
<1>2. ASSUME NEW k \in S
      PROVE  k + 1 \in S
  <2> SUFFICES ASSUME k + 1 <= Levels PROVE P(k + 1)
    OBVIOUS
  <2>1. k + 1 \in 0 .. Levels /\ (k + 1) - 1 = k /\ k + 1 # 0 /\ P(k)
    OBVIOUS
  <2>2. /\ LevelLen(n, k + 1) = LevelLen(n, k) \div 2
        /\ LevelStart(n, k + 1) = LevelStart(n, k) + LevelLen(n, k)
        /\ LevelWidth[k + 1] = 2 * LevelWidth[k]
    BY NextLevel
  <2> QED
    BY <2>1, <2>2
<1>3. S = Nat
  BY <1>1, <1>2, Induction
<1> QED
  BY <1>3

\* The levels lie one behind the other.
LEMMA LevelOrder ==
  ASSUME NEW n \in Nat, NEW l \in 0 .. Levels, NEW k \in 0 .. Levels, k < l
  PROVE  LevelStart(n, k) + LevelLen(n, k) <= LevelStart(n, l)
<1> DEFINE P(j) == LevelStart(n, k) + LevelLen(n, k) <= LevelStart(n, j)
           S == {j \in Nat : k < j /\ j <= Levels => P(j)}
<1>1. 0 \in S
  OBVIOUS
<1>2. ASSUME NEW j \in S
      PROVE  j + 1 \in S
  <2> SUFFICES ASSUME k < j + 1, j + 1 <= Levels PROVE P(j + 1)
    OBVIOUS
  <2>1. j + 1 \in 0 .. Levels /\ j \in 0 .. Levels /\ (j + 1) - 1 = j /\ j + 1 # 0
    OBVIOUS
  <2>2. LevelStart(n, j + 1) = LevelStart(n, j) + LevelLen(n, j)
    BY NextLevel
  <2>3. /\ LevelStart(n, j) \in Nat /\ LevelLen(n, j) \in Nat
        /\ LevelStart(n, k) \in Nat /\ LevelLen(n, k) \in Nat
    BY <2>1, LevelTypes
  <2>4. k = j \/ P(j)
    BY <2>1
  <2> QED
    BY <2>2, <2>3, <2>4
<1>3. S = Nat
  BY <1>1, <1>2, Induction
<1> QED
  BY <1>3

\* The band of an entry is made of the bands of two of the level before.
LEMMA BandHalves ==
  ASSUME NEW n \in Nat \ {0}, NEW base \in Nat, NEW l \in 1 .. Levels, NEW i \in Nat
  PROVE  BandOf(n, base, l, i) = BandOf(n, base, l - 1, 2 * i) \cup BandOf(n, base, l - 1, 2 * i + 1)
<1> DEFINE w == LevelWidth[l - 1]
           v == LevelWidth[l]
<1>1. l \in 0 .. Levels /\ l - 1 \in 0 .. Levels /\ l # 0
  OBVIOUS
<1>2. w \in Nat \ {0} /\ v = 2 * w
  BY <1>1, LevelTypes, LevelRecursion
<1> DEFINE a == i * w
<1>3. a \in Nat /\ i * v = 2 * a /\ (2 * i) * w = 2 * a /\ (2 * i + 1) * w = 2 * a + w
  BY <1>2, SMT
<1>4. /\ BandOf(n, base, l, i) = {(base + i * v + k) % n : k \in 0 .. v - 1}
      /\ BandOf(n, base, l - 1, 2 * i) = {(base + (2 * i) * w + k) % n : k \in 0 .. w - 1}
      /\ BandOf(n, base, l - 1, 2 * i + 1) = {(base + (2 * i + 1) * w + k) % n : k \in 0 .. w - 1}
  BY DEF BandOf
<1> HIDE DEF w, v, a
<1>5. /\ BandOf(n, base, l, i) = {(base + 2 * a + k) % n : k \in 0 .. 2 * w - 1}
      /\ BandOf(n, base, l - 1, 2 * i) = {(base + 2 * a + k) % n : k \in 0 .. w - 1}
      /\ BandOf(n, base, l - 1, 2 * i + 1) = {(base + (2 * a + w) + k) % n : k \in 0 .. w - 1}
  BY <1>2, <1>3, <1>4
<1>6. ASSUME NEW k \in 0 .. 2 * w - 1
      PROVE  (base + 2 * a + k) % n \in BandOf(n, base, l - 1, 2 * i) \cup BandOf(n, base, l - 1, 2 * i + 1)
  <2>1. CASE k < w
    BY <2>1, <1>2, <1>5
  <2>2. CASE k >= w
    <3>1. k - w \in 0 .. w - 1 /\ base + 2 * a + k = base + (2 * a + w) + (k - w)
      BY <2>2, <1>2, <1>3
    <3> QED
      BY <3>1, <1>5
  <2> QED
    BY <2>1, <2>2, <1>2
<1>7. ASSUME NEW k \in 0 .. w - 1
      PROVE  (base + (2 * a + w) + k) % n \in BandOf(n, base, l, i)
  <2>1. k + w \in 0 .. 2 * w - 1 /\ base + 2 * a + (k + w) = base + (2 * a + w) + k
    BY <1>2, <1>3
  <2> QED
    BY <2>1, <1>5
<1>8. ASSUME NEW k \in 0 .. w - 1
      PROVE  (base + 2 * a + k) % n \in BandOf(n, base, l, i)
  BY <1>2, <1>5
<1> QED
  BY <1>5, <1>6, <1>7, <1>8

-----------------------------------------------------------------------------
(* FFT engine: what a kernel or loop makes of a buffer *)

\* Nothing has been made of an empty part of a buffer.
LEMMA NothingMade ==
  ASSUME NEW cells, NEW sig, NEW n \in Nat, NEW base
  PROVE  MadeUpTo(cells, 0, sig, n, base)
<1> SUFFICES ASSUME NEW l \in 0 .. Levels - 1, NEW i \in 0 .. LevelLen(n, l) - 1
             PROVE  ~(LevelStart(n, l) + i < 0)
  BY DEF MadeUpTo
<1>1. LevelLen(n, l) \in Nat /\ LevelStart(n, l) \in Nat
  BY LevelTypes
<1> QED
  BY <1>1

\* Where the entries lie: an entry before the end of a level belongs to that
\* level or to one before it.
LEMMA Placement ==
  ASSUME NEW n \in Nat, NEW l \in 0 .. Levels - 1, NEW i \in 0 .. LevelLen(n, l) - 1
  PROVE  /\ LevelLen(n, l) \in Nat /\ LevelStart(n, l) \in Nat /\ i \in Nat
         /\ LevelStart(n, l) + i < 2 * n /\ LevelStart(n, l) + i < LevelStart(n, Levels)
         /\ \A k \in 0 .. Levels : LevelStart(n, l) + i < LevelStart(n, k) <=> l < k
<1>1. LevelLen(n, l) \in Nat /\ LevelStart(n, l) \in Nat /\ LevelStart(n, l) + 2 * LevelLen(n, l) <= 2 * n
  BY LevelTypes
<1>2. ASSUME NEW k \in 0 .. Levels
      PROVE  LevelStart(n, l) + i < LevelStart(n, k) <=> l < k
  <2>1. LevelLen(n, k) \in Nat /\ LevelStart(n, k) \in Nat
    BY LevelTypes
  <2>2. CASE l < k
    <3>1. LevelStart(n, l) + LevelLen(n, l) <= LevelStart(n, k)
      BY <2>2, LevelOrder
    <3> QED
      BY <2>1, <2>2, <3>1, <1>1
  <2>3. CASE k < l
    <3>1. LevelStart(n, k) + LevelLen(n, k) <= LevelStart(n, l)
      BY <2>3, LevelOrder
    <3> QED
      BY <2>1, <2>3, <3>1, <1>1
  <2>4. CASE k = l
    BY <2>4, <1>1
  <2> QED
    BY <2>2, <2>3, <2>4
<1> QED
  BY <1>1, <1>2

\* A kernel that writes len entries from position m on leaves the others.
LEMMA MadeMore ==
  ASSUME NEW n \in Nat, NEW m \in Nat, NEW len \in Nat, NEW sig, NEW base, NEW old, NEW new,
         MadeUpTo(old, m, sig, n, base),
         \A p \in 0 .. m - 1 : new[p].sig = old[p].sig /\ new[p].bins = old[p].bins,
         \A l \in 0 .. Levels - 1 : \A i \in 0 .. LevelLen(n, l) - 1 :
           LevelStart(n, l) + i \in m .. m + len - 1 =>
             /\ new[LevelStart(n, l) + i].sig = sig
             /\ new[LevelStart(n, l) + i].bins = BandOf(n, base, l, i)
  PROVE  MadeUpTo(new, m + len, sig, n, base)
<1> SUFFICES ASSUME NEW l \in 0 .. Levels - 1, NEW i \in 0 .. LevelLen(n, l) - 1,
                    LevelStart(n, l) + i < m + len
             PROVE  /\ new[LevelStart(n, l) + i].sig = sig
                    /\ new[LevelStart(n, l) + i].bins = BandOf(n, base, l, i)
  BY DEF MadeUpTo
<1> DEFINE p == LevelStart(n, l) + i
<1>1. p \in Nat
  BY Placement
<1>2. CASE p < m
  <2>1. old[p].sig = sig /\ old[p].bins = BandOf(n, base, l, i)
    BY <1>2 DEF MadeUpTo
  <2>2. p \in 0 .. m - 1
    BY <1>1, <1>2
  <2> QED
    BY <2>1, <2>2
<1>3. CASE p >= m
  <2>1. p \in m .. m + len - 1
    BY <1>1, <1>3
  <2> QED
    BY <2>1
<1> QED
  BY <1>1, <1>2, <1>3

\* The first kernel makes entries of level 0, ...
LEMMA FirstBand ==
  ASSUME NEW n \in Nat, NEW base \in Nat, NEW i \in 0 .. n - 1
  PROVE  BandOf(n, base, 0, i) = {(i + base) % n}
<1>1. LevelWidth[0] = 1
  <2>1. 0 \in 0 .. Levels
    OBVIOUS
  <2> QED
    BY <2>1, LevelRecursion
<1>2. \A k \in 0 .. 0 : base + i * 1 + k = i + base
  OBVIOUS
<1> QED
  BY <1>1, <1>2 DEF BandOf

\* ... which are those before position n ...
LEMMA FirstLevel ==
  ASSUME NEW n \in Nat, NEW l \in 0 .. Levels - 1, NEW i \in 0 .. LevelLen(n, l) - 1,
         LevelStart(n, l) + i < n
  PROVE  l = 0 /\ LevelStart(n, l) = 0 /\ i \in 0 .. n - 1
<1>1. LevelStart(n, 0) = 0 /\ LevelLen(n, 0) = n
  <2>1. 0 \in 0 .. Levels
    OBVIOUS
  <2> QED
    BY <2>1, LevelRecursion
<1>2. 1 \in 0 .. Levels /\ LevelStart(n, 1) = n
  <2>1. 0 \in 0 .. Levels - 1
    OBVIOUS
  <2>2. LevelStart(n, 0 + 1) = LevelStart(n, 0) + LevelLen(n, 0)
    BY <2>1, NextLevel
  <2> QED
    BY <2>2, <1>1
<1>3. l < 1
  BY <1>2, Placement
<1> QED
  BY <1>1, <1>3

\* ... all of them at once (fft.rs, power_quantize.wgsl) ...
LEMMA PowerMade ==
  ASSUME NEW n \in Nat, NEW base \in Nat, NEW sig, NEW old, 0 .. n - 1 \subseteq DOMAIN old
  PROVE  MadeUpTo(PowerRun(old, sig, n, base, 0, n), n, sig, n, base)
<1> DEFINE new == PowerRun(old, sig, n, base, 0, n)
<1>1. \A p \in 0 .. n - 1 : new[p] = [sig |-> sig, bins |-> {(p + base) % n}]
  <2>1. \A p \in 0 .. n - 1 : p \in DOMAIN old /\ p \in 0 .. 0 + n - 1 /\ p - 0 + base = p + base
    OBVIOUS
  <2> QED
    BY <2>1 DEF PowerRun
<1> HIDE DEF new
<1> SUFFICES ASSUME NEW l \in 0 .. Levels - 1, NEW i \in 0 .. LevelLen(n, l) - 1,
                    LevelStart(n, l) + i < n
             PROVE  /\ new[LevelStart(n, l) + i].sig = sig
                    /\ new[LevelStart(n, l) + i].bins = BandOf(n, base, l, i)
  BY DEF MadeUpTo, new
<1>2. l = 0 /\ LevelStart(n, l) = 0 /\ i \in 0 .. n - 1
  BY FirstLevel
<1>3. LevelStart(n, l) + i = i
  BY <1>2
<1>4. BandOf(n, base, l, i) = {(i + base) % n}
  BY <1>2, FirstBand
<1>5. new[LevelStart(n, l) + i] = [sig |-> sig, bins |-> BandOf(n, base, l, i)]
  BY <1>1, <1>2, <1>3, <1>4
<1> QED
  BY ONLY <1>5

\* ... or the len ones from position m on (the kernel of clfft.rs).
LEMMA PartMade ==
  ASSUME NEW n \in Nat, NEW base \in Nat, NEW m \in Nat, NEW len \in Nat, m + len <= n,
         NEW sig, NEW old, NEW new,
         MadeUpTo(old, m, sig, n, base),
         \A p \in 0 .. m - 1 : new[p] = old[p],
         \A p \in m .. m + len - 1 : new[p] = [sig |-> sig, bins |-> {(p + base) % n}]
  PROVE  MadeUpTo(new, m + len, sig, n, base)
<1> SUFFICES ASSUME NEW l \in 0 .. Levels - 1, NEW i \in 0 .. LevelLen(n, l) - 1,
                    LevelStart(n, l) + i \in m .. m + len - 1
             PROVE  /\ new[LevelStart(n, l) + i].sig = sig
                    /\ new[LevelStart(n, l) + i].bins = BandOf(n, base, l, i)
  BY MadeMore
<1>1. l = 0 /\ LevelStart(n, l) = 0 /\ i \in 0 .. n - 1
  BY FirstLevel, Placement
<1>2. LevelStart(n, l) + i = i
  BY <1>1
<1>3. BandOf(n, base, l, i) = {(i + base) % n}
  BY <1>1, FirstBand
<1>4. i \in m .. m + len - 1
  BY <1>2
<1>5. new[LevelStart(n, l) + i] = [sig |-> sig, bins |-> BandOf(n, base, l, i)]
  BY <1>2, <1>3, <1>4
<1> QED
  BY ONLY <1>5

\* Each halving makes its level of the one before it.
LEMMA HalfMade ==
  ASSUME NEW n \in Nat \ {0}, NEW base \in Nat, NEW l \in 1 .. Levels - 1, NEW sig, NEW old,
         0 .. 2 * n - 1 \subseteq DOMAIN old,
         MadeUpTo(old, LevelStart(n, l), sig, n, base)
  PROVE  MadeUpTo(HalfRun(old, old, LevelStart(n, l - 1), LevelStart(n, l), LevelLen(n, l)),
                  LevelStart(n, l + 1), sig, n, base)
<1> DEFINE src == LevelStart(n, l - 1)
           dst == LevelStart(n, l)
           len == LevelLen(n, l)
           new == HalfRun(old, old, src, dst, len)
<1>1. l \in 0 .. Levels - 1 /\ l - 1 \in 0 .. Levels - 1 /\ l \in 0 .. Levels /\ l - 1 \in 0 .. Levels
  OBVIOUS
<1>2. /\ src \in Nat /\ dst \in Nat /\ len \in Nat /\ dst + 2 * len <= 2 * n
      /\ LevelLen(n, l - 1) \in Nat
  BY <1>1, LevelTypes
<1>3. LevelStart(n, l + 1) = dst + len
  BY <1>1, NextLevel
<1>4. len = LevelLen(n, l - 1) \div 2
  <2>1. LevelLen(n, (l - 1) + 1) = LevelLen(n, l - 1) \div 2
    BY <1>1, NextLevel
  <2> QED
    BY <2>1
<1>5. ASSUME NEW p \in 0 .. dst - 1
      PROVE  new[p] = old[p]
  <2>1. p \in DOMAIN old /\ p \notin dst .. dst + len - 1
    BY <1>2
  <2> QED
    BY <2>1 DEF HalfRun
<1>6. ASSUME NEW j \in 0 .. len - 1
      PROVE  new[dst + j] = SumCell(old[src + 2 * j], old[src + (2 * j + 1)])
  <2>1. dst + j \in DOMAIN old /\ dst + j \in dst .. dst + len - 1 /\ (dst + j) - dst = j
    BY <1>2
  <2>2. new[dst + j] = SumCell(old[src + 2 * ((dst + j) - dst)], old[src + 2 * ((dst + j) - dst) + 1])
    BY <2>1 DEF HalfRun
  <2>3. src + 2 * j + 1 = src + (2 * j + 1)
    BY <1>2
  <2> QED
    BY <2>1, <2>2, <2>3
<1> HIDE DEF new
<1>7. ASSUME NEW j \in 0 .. len - 1
      PROVE  new[dst + j].sig = sig /\ new[dst + j].bins = BandOf(n, base, l, j)
  <2>1. /\ 2 * j \in 0 .. LevelLen(n, l - 1) - 1 /\ 2 * j + 1 \in 0 .. LevelLen(n, l - 1) - 1
        /\ j \in Nat
    BY <1>2, <1>4
  <2>2. l - 1 < l
    OBVIOUS
  <2>3. src + 2 * j < dst /\ src + (2 * j + 1) < dst
    BY <1>1, <2>1, <2>2, Placement
  <2>4. /\ old[src + 2 * j].sig = sig /\ old[src + 2 * j].bins = BandOf(n, base, l - 1, 2 * j)
        /\ old[src + (2 * j + 1)].sig = sig
        /\ old[src + (2 * j + 1)].bins = BandOf(n, base, l - 1, 2 * j + 1)
    BY <1>1, <2>1, <2>3 DEF MadeUpTo
  <2>5. BandOf(n, base, l, j) = BandOf(n, base, l - 1, 2 * j) \cup BandOf(n, base, l - 1, 2 * j + 1)
    BY <1>1, <2>1, BandHalves
  <2>6. SumCell(old[src + 2 * j], old[src + (2 * j + 1)]) = [sig |-> sig, bins |-> BandOf(n, base, l, j)]
    BY ONLY <2>4, <2>5 DEF SumCell
  <2>7. new[dst + j] = [sig |-> sig, bins |-> BandOf(n, base, l, j)]
    BY <1>6, <2>6
  <2> QED
    BY ONLY <2>7
<1>8. MadeUpTo(new, dst + len, sig, n, base)
  <2> SUFFICES ASSUME NEW k \in 0 .. Levels - 1, NEW i \in 0 .. LevelLen(n, k) - 1,
                      LevelStart(n, k) + i \in dst .. dst + len - 1
               PROVE  /\ new[LevelStart(n, k) + i].sig = sig
                      /\ new[LevelStart(n, k) + i].bins = BandOf(n, base, k, i)
    BY <1>2, <1>5, MadeMore
  <2>1. ~(k < l)
    BY <1>1, <1>2, Placement
  <2>2. k < l + 1
    <3>1. l + 1 \in 0 .. Levels /\ LevelStart(n, k) + i < LevelStart(n, l + 1)
      BY <1>2, <1>3
    <3> QED
      BY <3>1, Placement
  <2>3. k = l
    BY <2>1, <2>2
  <2> QED
    BY <1>7, <2>3
<1> QED
  BY <1>3, <1>8 DEF new

\* The bytes are those of the powers beside them.
LEMMA BytesMade ==
  ASSUME NEW n \in Nat, NEW base, NEW m \in Nat, NEW len \in Nat, NEW sig, NEW drop,
         NEW bytes, NEW power, 0 .. 2 * n - 1 \subseteq DOMAIN bytes,
         MadeUpTo(bytes, m, sig, n, base), MadeUpTo(power, m + len, sig, n, base)
  PROVE  MadeUpTo(ByteRun(bytes, power, m, len, drop), m + len, sig, n, base)
<1> DEFINE new == ByteRun(bytes, power, m, len, drop)
<1> SUFFICES ASSUME NEW l \in 0 .. Levels - 1, NEW i \in 0 .. LevelLen(n, l) - 1,
                    LevelStart(n, l) + i < m + len
             PROVE  /\ new[LevelStart(n, l) + i].sig = sig
                    /\ new[LevelStart(n, l) + i].bins = BandOf(n, base, l, i)
  BY DEF MadeUpTo
<1> DEFINE p == LevelStart(n, l) + i
<1>1. p \in Nat /\ p < 2 * n
  BY Placement
<1>2. p \in DOMAIN bytes
  BY <1>1
<1>3. CASE p < m
  <2>1. p \notin m .. m + len - 1
    BY <1>1, <1>3
  <2>2. new[p] = bytes[p]
    BY <1>2, <2>1 DEF ByteRun
  <2>3. bytes[p].sig = sig /\ bytes[p].bins = BandOf(n, base, l, i)
    BY <1>3 DEF MadeUpTo
  <2> QED
    BY <2>2, <2>3
<1>4. CASE p >= m
  <2>1. p \in m .. m + len - 1
    BY <1>1, <1>4
  <2>2. new[p] = [sig |-> power[p].sig, bins |-> power[p].bins, off |-> drop]
    BY <1>2, <2>1 DEF ByteRun
  <2>3. power[p].sig = sig /\ power[p].bins = BandOf(n, base, l, i)
    BY DEF MadeUpTo
  <2> QED
    BY <2>2, <2>3
<1> QED
  BY <1>1, <1>3, <1>4

\* A buffer with all levels made is a waterfall frame.
LEMMA AllMade ==
  ASSUME NEW n \in Nat, NEW base, NEW sig, NEW bytes,
         MadeUpTo(bytes, LevelStart(n, Levels), sig, n, base)
  PROVE  CoversBand(Concat(bytes, n), sig, n, base)
<1> SUFFICES ASSUME NEW l \in 0 .. Levels - 1, NEW i \in 0 .. LevelLen(n, l) - 1
             PROVE  LET c == Concat(bytes, n)[LevelStart(n, l) + i]
                    IN  c.sig = sig /\ c.bins = BandOf(n, base, l, i)
  BY DEF CoversBand
<1> DEFINE p == LevelStart(n, l) + i
<1>1. p \in Nat /\ p < LevelStart(n, Levels)
  BY Placement
<1>2. LevelStart(n, Levels) \in Nat
  BY LevelTypes
<1>3. p \in 0 .. TotalLen(n) - 1
  BY <1>1, <1>2 DEF TotalLen
<1>4. Concat(bytes, n)[p] = bytes[p]
  BY <1>3 DEF Concat
<1>5. bytes[p].sig = sig /\ bytes[p].bins = BandOf(n, base, l, i)
  BY <1>1 DEF MadeUpTo
<1> QED
  BY <1>4, <1>5

-----------------------------------------------------------------------------
(* FFT engine: the waterfall of the CPU *)

\* quantize_and_downsample_cpu's loop over the levels: the powers ...
LEMMA CpuPowersExist ==
  ASSUME NEW sig, NEW n, NEW base
  PROVE  \E f : f = [l \in 0 .. Levels - 1 |->
                      IF l = 0 THEN PowerRun(BlankPower(n), sig, n, base, 0, n)
                      ELSE HalfRun(f[l - 1], f[l - 1], LevelStart(n, l - 1), LevelStart(n, l),
                                   LevelLen(n, l))]
<1> DEFINE first == PowerRun(BlankPower(n), sig, n, base, 0, n)
           next(c, l) == HalfRun(c, c, LevelStart(n, l - 1), LevelStart(n, l), LevelLen(n, l))
<1> HIDE DEF first, next
<1> DEFINE S == {m \in Nat : \E f : f = [k \in 0 .. m |-> IF k = 0 THEN first ELSE next(f[k - 1], k)]}
<1>1. 0 \in S
  <2> DEFINE f == [k \in 0 .. 0 |-> first]
  <2>1. f = [k \in 0 .. 0 |-> IF k = 0 THEN first ELSE next(f[k - 1], k)]
    OBVIOUS
  <2> QED
    BY <2>1
<1>2. ASSUME NEW m \in S
      PROVE  m + 1 \in S
  <2>1. PICK f : f = [k \in 0 .. m |-> IF k = 0 THEN first ELSE next(f[k - 1], k)]
    BY <1>2
  <2> DEFINE g == [k \in 0 .. m + 1 |-> IF k <= m THEN f[k] ELSE next(f[m], m + 1)]
  <2>2. \A k \in 0 .. m + 1 : g[k] = IF k = 0 THEN first ELSE next(g[k - 1], k)
    <3> SUFFICES ASSUME NEW k \in 0 .. m + 1
                 PROVE  g[k] = IF k = 0 THEN first ELSE next(g[k - 1], k)
      OBVIOUS
    <3>1. CASE k <= m
      BY <2>1, <3>1
    <3>2. CASE k = m + 1
      <4>1. g[k] = next(f[m], m + 1) /\ k # 0 /\ k - 1 = m /\ g[m] = f[m]
        BY <3>2
      <4> QED
        BY <4>1, <3>2
    <3> QED
      BY <3>1, <3>2
  <2>3. g = [k \in 0 .. m + 1 |-> IF k = 0 THEN first ELSE next(g[k - 1], k)]
    BY <2>2
  <2> HIDE DEF g
  <2>4. \E h : h = [k \in 0 .. m + 1 |-> IF k = 0 THEN first ELSE next(h[k - 1], k)]
    BY <2>3
  <2> QED
    BY <2>4
<1>3. S = Nat
  BY <1>1, <1>2, Induction
<1> HIDE DEF S
<1>4. Levels - 1 \in S
  BY <1>3
<1>5. \E f : f = [k \in 0 .. Levels - 1 |-> IF k = 0 THEN first ELSE next(f[k - 1], k)]
  BY <1>4 DEF S
<1> QED
  BY <1>5 DEF first, next

\* ... and the bytes made of them.
LEMMA CpuBytesExist ==
  ASSUME NEW power, NEW n
  PROVE  \E f : f = [l \in 0 .. Levels - 1 |->
                      ByteRun(IF l = 0 THEN BlankBytes(n) ELSE f[l - 1],
                              power[l], LevelStart(n, l), LevelLen(n, l), DropCpu(l))]
<1> DEFINE next(b, l) == ByteRun(b, power[l], LevelStart(n, l), LevelLen(n, l), DropCpu(l))
           blank == BlankBytes(n)
<1> HIDE DEF next, blank
<1> DEFINE S == {m \in Nat : \E f : f = [k \in 0 .. m |-> next(IF k = 0 THEN blank ELSE f[k - 1], k)]}
<1>1. 0 \in S
  <2> DEFINE f == [k \in 0 .. 0 |-> next(blank, k)]
  <2>1. f = [k \in 0 .. 0 |-> next(IF k = 0 THEN blank ELSE f[k - 1], k)]
    OBVIOUS
  <2> QED
    BY <2>1
<1>2. ASSUME NEW m \in S
      PROVE  m + 1 \in S
  <2>1. PICK f : f = [k \in 0 .. m |-> next(IF k = 0 THEN blank ELSE f[k - 1], k)]
    BY <1>2
  <2> DEFINE g == [k \in 0 .. m + 1 |-> IF k <= m THEN f[k] ELSE next(f[m], m + 1)]
  <2>2. \A k \in 0 .. m + 1 : g[k] = next(IF k = 0 THEN blank ELSE g[k - 1], k)
    <3> SUFFICES ASSUME NEW k \in 0 .. m + 1
                 PROVE  g[k] = next(IF k = 0 THEN blank ELSE g[k - 1], k)
      OBVIOUS
    <3>1. CASE k <= m
      <4>1. g[k] = f[k] /\ f[k] = next(IF k = 0 THEN blank ELSE f[k - 1], k)
        BY <2>1, <3>1
      <4>2. k # 0 => g[k - 1] = f[k - 1]
        BY <3>1
      <4> QED
        BY <4>1, <4>2
    <3>2. CASE k = m + 1
      <4>1. g[k] = next(f[m], m + 1) /\ k # 0 /\ k - 1 = m /\ g[m] = f[m]
        BY <3>2
      <4> QED
        BY <4>1, <3>2
    <3> QED
      BY <3>1, <3>2
  <2>3. g = [k \in 0 .. m + 1 |-> next(IF k = 0 THEN blank ELSE g[k - 1], k)]
    BY <2>2
  <2> HIDE DEF g
  <2>4. \E h : h = [k \in 0 .. m + 1 |-> next(IF k = 0 THEN blank ELSE h[k - 1], k)]
    BY <2>3
  <2> QED
    BY <2>4
<1>3. S = Nat
  BY <1>1, <1>2, Induction
<1> HIDE DEF S
<1>4. Levels - 1 \in S
  BY <1>3
<1>5. \E f : f = [k \in 0 .. Levels - 1 |-> next(IF k = 0 THEN blank ELSE f[k - 1], k)]
  BY <1>4 DEF S
<1> QED
  BY <1>5 DEF next, blank

\* The CPU's algorithm makes the whole waterfall, of every size.
THEOREM CpuPyramid ==
  ASSUME NEW sig, NEW n \in Nat \ {0}, NEW base \in Nat
  PROVE  CoversBand(quantize_and_downsample_cpu(sig, n, base), sig, n, base)
<1> DEFINE P(f) == [l \in 0 .. Levels - 1 |->
                      IF l = 0 THEN PowerRun(BlankPower(n), sig, n, base, 0, n)
                      ELSE HalfRun(f[l - 1], f[l - 1], LevelStart(n, l - 1), LevelStart(n, l),
                                   LevelLen(n, l))]
           power == CHOOSE f : f = P(f)
           B(f) == [l \in 0 .. Levels - 1 |->
                      ByteRun(IF l = 0 THEN BlankBytes(n) ELSE f[l - 1],
                              power[l], LevelStart(n, l), LevelLen(n, l), DropCpu(l))]
           bytes == CHOOSE f : f = B(f)
<1>1. power = P(power)
  <2>1. \E f : f = P(f)
    BY CpuPowersExist
  <2> QED
    BY <2>1
<1>2. quantize_and_downsample_cpu(sig, n, base) = Concat(bytes[Levels - 1], n)
  BY DEF quantize_and_downsample_cpu
<1> HIDE DEF power
<1>3. bytes = B(bytes)
  <2>1. \E f : f = B(f)
    BY CpuBytesExist
  <2> QED
    BY <2>1
<1> HIDE DEF bytes
<1> DEFINE Q(l) == /\ DOMAIN power[l] = Positions(n) /\ DOMAIN bytes[l] = Positions(n)
                   /\ MadeUpTo(power[l], LevelStart(n, l + 1), sig, n, base)
                   /\ MadeUpTo(bytes[l], LevelStart(n, l + 1), sig, n, base)
           S == {l \in Nat : l <= Levels - 1 => Q(l)}
<1>4. Positions(n) = 0 .. 2 * n - 1
  BY DEF Positions
<1>5. LevelStart(n, 0) = 0 /\ LevelLen(n, 0) = n /\ LevelStart(n, 0 + 1) = n
  <2>1. 0 \in 0 .. Levels /\ 0 \in 0 .. Levels - 1
    OBVIOUS
  <2>2. LevelStart(n, 0) = 0 /\ LevelLen(n, 0) = n
    BY <2>1, LevelRecursion
  <2>3. LevelStart(n, 0 + 1) = LevelStart(n, 0) + LevelLen(n, 0)
    BY <2>1, NextLevel
  <2> QED
    BY <2>2, <2>3
<1>6. 0 \in S
  <2>1. power[0] = PowerRun(BlankPower(n), sig, n, base, 0, n)
    BY <1>1
  <2>2. DOMAIN BlankPower(n) = Positions(n) /\ DOMAIN BlankBytes(n) = Positions(n)
    BY DEF BlankPower, BlankBytes
  <2>3. 0 .. n - 1 \subseteq DOMAIN BlankPower(n)
    BY <1>4, <2>2
  <2>4. MadeUpTo(power[0], n, sig, n, base) /\ DOMAIN power[0] = Positions(n)
    BY <2>1, <2>2, <2>3, PowerMade DEF PowerRun
  <2>5. bytes[0] = ByteRun(BlankBytes(n), power[0], 0, n, DropCpu(0))
    BY <1>3, <1>5
  <2>6. DOMAIN bytes[0] = Positions(n)
    BY <2>2, <2>5 DEF ByteRun
  <2>7. MadeUpTo(BlankBytes(n), 0, sig, n, base)
    BY NothingMade
  <2>8. MadeUpTo(bytes[0], 0 + n, sig, n, base)
    <3>1. 0 .. 2 * n - 1 \subseteq DOMAIN BlankBytes(n) /\ 0 + n = n
      BY <1>4, <2>2
    <3> QED
      BY <2>4, <2>5, <2>7, <3>1, BytesMade
  <2>9. 0 + n = n
    OBVIOUS
  <2>10. Q(0)
    BY <1>5, <2>4, <2>6, <2>8, <2>9
  <2> QED
    BY <2>10
<1>7. ASSUME NEW k \in S
      PROVE  k + 1 \in S
  <2> SUFFICES ASSUME k + 1 <= Levels - 1 PROVE Q(k + 1)
    OBVIOUS
  <2> DEFINE l == k + 1
  <2>1. /\ l \in 1 .. Levels - 1 /\ l \in 0 .. Levels - 1 /\ l # 0 /\ l - 1 = k
        /\ k \in 0 .. Levels - 1 /\ k \in Nat
    OBVIOUS
  <2>2. Q(k)
    BY <2>1
  <2> HIDE DEF l
  <2>3. power[l] = HalfRun(power[k], power[k], LevelStart(n, l - 1), LevelStart(n, l), LevelLen(n, l))
    BY <1>1, <2>1
  <2>4. bytes[l] = ByteRun(bytes[k], power[l], LevelStart(n, l), LevelLen(n, l), DropCpu(l))
    BY <1>3, <2>1
  <2>5. LevelStart(n, k + 1) = LevelStart(n, l)
    BY DEF l
  <2>6. LevelStart(n, l + 1) = LevelStart(n, l) + LevelLen(n, l)
    BY <2>1, NextLevel
  <2>7. LevelStart(n, l) \in Nat /\ LevelLen(n, l) \in Nat
    <3>1. l \in 0 .. Levels
      BY <2>1
    <3> QED
      BY <3>1, LevelTypes
  <2>8. MadeUpTo(power[l], LevelStart(n, l + 1), sig, n, base)
    BY <1>4, <2>1, <2>2, <2>3, <2>5, HalfMade
  <2>9. MadeUpTo(bytes[l], LevelStart(n, l) + LevelLen(n, l), sig, n, base)
    BY <1>4, <2>2, <2>4, <2>5, <2>6, <2>7, <2>8, BytesMade
  <2>10. DOMAIN power[l] = Positions(n) /\ DOMAIN bytes[l] = Positions(n)
    BY <2>2, <2>3, <2>4 DEF HalfRun, ByteRun
  <2>11. Q(l)
    BY <2>6, <2>8, <2>9, <2>10
  <2> QED
    BY <2>11 DEF l
<1>8. S = Nat
  BY <1>6, <1>7, Induction
<1>9. MadeUpTo(bytes[Levels - 1], LevelStart(n, Levels), sig, n, base)
  <2>1. Levels - 1 \in S /\ (Levels - 1) + 1 = Levels
    BY <1>8
  <2>2. Q(Levels - 1)
    BY <2>1
  <2> QED
    BY <2>1, <2>2
<1> QED
  BY <1>2, <1>9, AllMade

-----------------------------------------------------------------------------
(* FFT engine: the way of a waterfall through a script *)

\* The same for the way of the waterfall through a script.  The empty script
\* leaves it where it is ...
LEMMA FallNil ==
  ASSUME NEW real, NEW a \in Falls
  PROVE  FallPath(<<>>, real, a, a)
<1> DEFINE st == [i \in 1 .. 1 |-> a]
<1>1. Sequence(<<>>) /\ Len(<<>>) = 0
  BY DEF Sequence
<1>2. st \in [1 .. 1 -> Falls] /\ st[1] = a
  OBVIOUS
<1>3. st \in [1 .. Len(<<>>) + 1 -> Falls] /\ st[1] = a /\ st[Len(<<>>) + 1] = a
  BY <1>1, <1>2
<1>4. \A i \in 1 .. Len(<<>>) : FallLeads(<<>>[i], real, st[i], st[i + 1])
  BY <1>1
<1> QED
  BY <1>1, <1>3, <1>4 DEF FallPath

\* ... and nowhere else.
LEMMA FallEnd ==
  ASSUME NEW real, NEW a, NEW b, FallPath(<<>>, real, a, b)
  PROVE  a = b
BY DEF FallPath, Sequence

\* A script of one call.
LEMMA FallOne ==
  ASSUME NEW real, NEW c, NEW a \in Falls, NEW b \in Falls, FallLeads(c, real, a, b)
  PROVE  FallPath(<<c>>, real, a, b)
<1> DEFINE st == [i \in 1 .. 2 |-> IF i = 1 THEN a ELSE b]
<1>1. Sequence(<<c>>) /\ Len(<<c>>) = 1 /\ <<c>>[1] = c
  BY DEF Sequence
<1>2. st \in [1 .. Len(<<c>>) + 1 -> Falls] /\ st[1] = a /\ st[Len(<<c>>) + 1] = b
  BY <1>1
<1>3. \A i \in 1 .. Len(<<c>>) : FallLeads(<<c>>[i], real, st[i], st[i + 1])
  BY <1>1
<1> QED
  BY <1>1, <1>2, <1>3 DEF FallPath

\* Scripts that meet in a stage make a longer one.
LEMMA FallConcat ==
  ASSUME NEW real, NEW s, NEW t, NEW a, NEW b, NEW c, FallPath(s, real, a, b), FallPath(t, real, b, c)
  PROVE  FallPath(s \o t, real, a, c)
<1>1. PICK p \in [1 .. Len(s) + 1 -> Falls] :
        /\ p[1] = a /\ p[Len(s) + 1] = b
        /\ \A i \in 1 .. Len(s) : FallLeads(s[i], real, p[i], p[i + 1])
  BY DEF FallPath
<1>2. PICK q \in [1 .. Len(t) + 1 -> Falls] :
        /\ q[1] = b /\ q[Len(t) + 1] = c
        /\ \A i \in 1 .. Len(t) : FallLeads(t[i], real, q[i], q[i + 1])
  BY DEF FallPath
<1> DEFINE n == Len(s)
           m == Len(t)
           st == [i \in 1 .. n + m + 1 |-> IF i <= n + 1 THEN p[i] ELSE q[i - n]]
<1>3. Sequence(s) /\ Sequence(t) /\ n \in Nat /\ m \in Nat
  BY SequenceFacts DEF FallPath
<1>4. /\ Sequence(s \o t) /\ Len(s \o t) = n + m
      /\ \A i \in 1 .. n + m : (s \o t)[i] = IF i <= n THEN s[i] ELSE t[i - n]
  BY <1>3, ConcatSequence
<1>5. st \in [1 .. n + m + 1 -> Falls]
  BY <1>3
<1>6. st[1] = a /\ st[n + m + 1] = c
  BY <1>1, <1>2, <1>3
<1>7. \A i \in 1 .. n + m : FallLeads((s \o t)[i], real, st[i], st[i + 1])
  <2> SUFFICES ASSUME NEW i \in 1 .. n + m
               PROVE  FallLeads((s \o t)[i], real, st[i], st[i + 1])
    OBVIOUS
  <2>1. CASE i <= n
    BY <2>1, <1>1, <1>3, <1>4
  <2>2. CASE i > n
    <3>1. (s \o t)[i] = t[i - n] /\ i - n \in 1 .. m
      BY <2>2, <1>3, <1>4
    <3>2. st[i] = q[i - n]
      BY <2>2, <1>1, <1>2, <1>3
    <3>3. st[i + 1] = q[i - n + 1]
      BY <2>2, <1>1, <1>2, <1>3
    <3> QED
      BY <3>1, <3>2, <3>3, <1>2
  <2> QED
    BY <2>1, <2>2, <1>3
<1> QED
  BY <1>4, <1>5, <1>6, <1>7 DEF FallPath

\* A script whose calls all leave the waterfall where it is.
LEMMA FallLoop ==
  ASSUME NEW real, NEW s, Sequence(s), NEW a \in Falls, \A i \in DOMAIN s : FallLeads(s[i], real, a, a)
  PROVE  FallPath(s, real, a, a)
<1> DEFINE st == [i \in 1 .. Len(s) + 1 |-> a]
<1>1. Len(s) \in Nat /\ DOMAIN s = 1 .. Len(s)
  BY SequenceFacts
<1>2. st \in [1 .. Len(s) + 1 -> Falls] /\ st[1] = a /\ st[Len(s) + 1] = a
  BY <1>1
<1>3. \A i \in 1 .. Len(s) : FallLeads(s[i], real, st[i], st[i + 1])
  BY <1>1
<1> QED
  BY <1>2, <1>3 DEF FallPath

\* A call taken from a script leaves the way from where it leads to.
LEMMA FallStep ==
  ASSUME NEW real, NEW s, NEW a, NEW b, FallPath(s, real, a, b), s # <<>>
  PROVE  \E m \in Falls : FallLeads(Head(s), real, a, m) /\ FallPath(Tail(s), real, m, b)
<1>1. PICK p \in [1 .. Len(s) + 1 -> Falls] :
        /\ p[1] = a /\ p[Len(s) + 1] = b
        /\ \A i \in 1 .. Len(s) : FallLeads(s[i], real, p[i], p[i + 1])
  BY DEF FallPath
<1>2. /\ Sequence(Tail(s)) /\ Head(s) = s[1] /\ Len(Tail(s)) = Len(s) - 1
      /\ \A i \in 1 .. Len(s) - 1 : Tail(s)[i] = s[i + 1]
  BY TailSequence DEF FallPath
<1>3. Len(s) \in Nat \ {0}
  BY SequenceFacts DEF FallPath
<1> DEFINE n == Len(s)
           q == [i \in 1 .. n |-> p[i + 1]]
<1>4. q \in [1 .. n -> Falls] /\ q[1] = p[2] /\ q[n] = b
  BY <1>1, <1>3
<1>5. \A i \in 1 .. n - 1 : FallLeads(Tail(s)[i], real, q[i], q[i + 1])
  BY <1>1, <1>2, <1>3
<1>6. FallPath(Tail(s), real, p[2], b)
  <2>1. q \in [1 .. Len(Tail(s)) + 1 -> Falls] /\ q[1] = p[2] /\ q[Len(Tail(s)) + 1] = b
    BY <1>2, <1>3, <1>4
  <2>2. \A i \in 1 .. Len(Tail(s)) : FallLeads(Tail(s)[i], real, q[i], q[i + 1])
    BY <1>2, <1>5
  <2> QED
    BY <1>2, <2>1, <2>2 DEF FallPath
<1>7. p[2] \in Falls /\ FallLeads(Head(s), real, a, p[2])
  BY <1>1, <1>2, <1>3
<1> QED
  BY <1>6, <1>7

\* A script that hands over no waterfall leaves it where it is.
Quiet(s) == Sequence(s) /\ \A i \in DOMAIN s : ~Delivers(s[i])

\* It can be run before one is due, while it is and after ...
LEMMA QuietPath ==
  ASSUME NEW real, NEW s, Quiet(s), NEW a \in {Fall("skip"), Fall("due"), Fall("have")}
  PROVE  FallPath(s, real, a, a)
<1>1. a \in Falls
  BY DEF Falls, Fall
<1>2. \A i \in DOMAIN s : FallLeads(s[i], real, a, a)
  BY DEF Quiet, FallLeads, FallRest
<1> QED
  BY <1>1, <1>2, FallLoop DEF Quiet

\* ... and put together with others.
LEMMA QuietConcat ==
  ASSUME NEW s, NEW t, Quiet(s), Quiet(t)
  PROVE  Quiet(s \o t)
<1>1. /\ Sequence(s) /\ Sequence(t) /\ Len(s) \in Nat /\ Len(t) \in Nat
      /\ DOMAIN s = 1 .. Len(s) /\ DOMAIN t = 1 .. Len(t)
  BY SequenceFacts DEF Quiet
<1>2. /\ Sequence(s \o t) /\ Len(s \o t) = Len(s) + Len(t)
      /\ \A i \in 1 .. Len(s) + Len(t) : (s \o t)[i] = IF i <= Len(s) THEN s[i] ELSE t[i - Len(s)]
  BY <1>1, ConcatSequence
<1>3. DOMAIN (s \o t) = 1 .. Len(s) + Len(t)
  BY <1>2, SequenceFacts
<1>4. ASSUME NEW i \in 1 .. Len(s) + Len(t)
      PROVE  ~Delivers((s \o t)[i])
  <2>1. CASE i <= Len(s)
    BY <1>1, <1>2, <2>1 DEF Quiet
  <2>2. CASE i > Len(s)
    <3>1. i - Len(s) \in DOMAIN t /\ (s \o t)[i] = t[i - Len(s)]
      BY <1>1, <1>2, <2>2
    <3> QED
      BY <3>1 DEF Quiet
  <2> QED
    BY <1>1, <2>1, <2>2
<1> QED
  BY <1>2, <1>3, <1>4 DEF Quiet

\* Short scripts of such calls.
LEMMA QuietShort ==
  /\ Quiet(<<>>)
  /\ \A c1 : ~Delivers(c1) => Quiet(<<c1>>)
  /\ \A c1, c2 : ~Delivers(c1) /\ ~Delivers(c2) => Quiet(<<c1, c2>>)
  /\ \A c1, c2, c3 : ~Delivers(c1) /\ ~Delivers(c2) /\ ~Delivers(c3) => Quiet(<<c1, c2, c3>>)
  /\ \A c1, c2, c3, c4 : ~Delivers(c1) /\ ~Delivers(c2) /\ ~Delivers(c3) /\ ~Delivers(c4) =>
       Quiet(<<c1, c2, c3, c4>>)
<1>1. Quiet(<<>>)
  BY DEF Quiet, Sequence
<1>2. \A c1 : ~Delivers(c1) => Quiet(<<c1>>)
  BY DEF Quiet, Sequence
<1>3. \A c1, c2 : ~Delivers(c1) /\ ~Delivers(c2) => Quiet(<<c1, c2>>)
  BY DEF Quiet, Sequence
<1>4. \A c1, c2, c3 : ~Delivers(c1) /\ ~Delivers(c2) /\ ~Delivers(c3) => Quiet(<<c1, c2, c3>>)
  BY DEF Quiet, Sequence
<1>5. \A c1, c2, c3, c4 : ~Delivers(c1) /\ ~Delivers(c2) /\ ~Delivers(c3) /\ ~Delivers(c4) =>
       Quiet(<<c1, c2, c3, c4>>)
  BY DEF Quiet, Sequence
<1> QED
  BY <1>1, <1>2, <1>3, <1>4, <1>5

\* The calls and scripts around the waterfall.
LEMMA QuietCalls ==
  ASSUME NEW c,
         c[1] \notin {"quant_cpu", "read_quant", "read"} \/ c \in {Read("buf"), Read("out"), Read("power")}
  PROVE  ~Delivers(c)
<1>1. Read("quant")[1] = "read" /\ Read("quant")[2] = "quant"
  BY DEF Read
<1>2. \A b : Read(b)[1] = "read" /\ Read(b)[2] = b
  BY DEF Read
<1> QED
  BY <1>1, <1>2 DEF Delivers

\* These methods of the back ends hand over none.
LEMMA QuietScripts ==
  /\ Quiet(VkUpload) /\ Quiet(Begin) /\ Quiet(Run) /\ Quiet(VkWindowAndProcess) /\ Quiet(VkMaxPower)
  /\ Quiet(VkReadOutput) /\ Quiet(VkProcessInplace)
  /\ Quiet(ClWindowAndProcess) /\ Quiet(ClReadOutput) /\ Quiet(ClProcessInplace) /\ Quiet(ClLoadReal)
  /\ Quiet(ClProcessReal) /\ Quiet(ClMaxPower)
<1>1. Quiet(VkUpload) /\ Quiet(VkMaxPower) /\ Quiet(VkReadOutput)
  <2>1. \A c \in {<<"copy_in">>, <<"flush", "fft">>, <<"invalidate", "power">>, <<"max_power">>,
                  <<"invalidate", "fft">>, <<"read_fft">>} : ~Delivers(c)
    BY QuietCalls
  <2> QED
    BY ONLY <2>1, QuietShort DEF VkUpload, VkMaxPower, VkReadOutput
<1>2. Quiet(Begin) /\ Quiet(Run)
  <2>1. \A c \in {<<"reset_fences">>, <<"reset_cmd">>, <<"begin">>, <<"end">>, <<"submit">>, <<"wait">>} :
          ~Delivers(c)
    BY QuietCalls
  <2> QED
    BY ONLY <2>1, QuietShort DEF Begin, Run
<1>3. Quiet(VkWindowAndProcess) /\ Quiet(VkProcessInplace)
  <2>1. ~Delivers(<<"record", <<WindowCmd, Barrier("fft")>> >>) /\ ~Delivers(<<"append">>)
    BY QuietCalls
  <2>2. Quiet(<< <<"record", <<WindowCmd, Barrier("fft")>> >>, <<"append">> >>) /\ Quiet(<< <<"append">> >>)
    BY ONLY <2>1, QuietShort
  <2> QED
    BY ONLY <1>1, <1>2, <2>2, QuietConcat DEF VkWindowAndProcess, VkProcessInplace
<1>4. Quiet(ClWindowAndProcess) /\ Quiet(ClReadOutput) /\ Quiet(ClProcessInplace) /\ Quiet(ClMaxPower)
  <2>1. ~Delivers(Write("buf", "frame")) /\ ~Delivers(Kernel([op |-> "window_complex"]))
        /\ ~Delivers(<<"transform">>) /\ ~Delivers(Read("buf")) /\ ~Delivers(Read("power"))
        /\ ~Delivers(<<"max_power">>)
    BY QuietCalls DEF Write, Kernel
  <2>2. Quiet(<<Write("buf", "frame"), <<"transform">> >>) /\ Quiet(ClReadOutput)
    BY ONLY <2>1, QuietShort DEF ClReadOutput
  <2>3. Quiet(ClProcessInplace)
    BY ONLY <2>2, QuietConcat DEF ClProcessInplace
  <2> QED
    BY ONLY <2>1, <2>2, <2>3, QuietShort DEF ClWindowAndProcess, ClMaxPower
<1>5. Quiet(ClLoadReal) /\ Quiet(ClProcessReal)
  <2>1. /\ ~Delivers(Write("half_a", "a")) /\ ~Delivers(Write("half_b", "b"))
        /\ ~Delivers(Kernel([op |-> "window_real", from |-> "half_a", to |-> "in_a"]))
        /\ ~Delivers(Kernel([op |-> "window_real", from |-> "half_b", to |-> "in_b"]))
        /\ ~Delivers(<<"transform_real">>) /\ ~Delivers(Read("out"))
    BY QuietCalls DEF Write, Kernel
  <2> QED
    BY ONLY <2>1, QuietShort DEF ClLoadReal, ClProcessReal
<1> QED
  BY <1>1, <1>2, <1>3, <1>4, <1>5

\* The places a waterfall can be at, by name.
LEMMA FallPlaces ==
  /\ \A x \in {"skip", "due", "job", "caught", "vk_in", "vk_there", "vk_rec", "vk_made", "vk_visible",
               "have", "without"} : Fall(x) \in Falls
  /\ \A k \in Nat : <<"cl", k>> \in Falls
BY DEF Fall, Falls

\* Both Vulkan quantizers make the waterfall of the spectrum they are given.
LEMMA VkQuantizeWay ==
  ASSUME NEW real
  PROVE  /\ FallPath(VkQuantize(LenOf(real), BaseOf(real)), real, Fall("due"), Fall("have"))
         /\ FallPath(VkQuantizeSpectrum(LenOf(real), BaseOf(real)), real, Fall("job"), Fall("have"))
<1> DEFINE p == << <<"record", VkPyramid(real)>> >>
<1>1. FallPath(p, real, Fall("due"), Fall("vk_rec")) /\ FallPath(p, real, Fall("vk_there"), Fall("vk_rec"))
  <2>1. \A a \in {Fall("due"), Fall("vk_there")} :
          FallLeads(<<"record", VkPyramid(real)>>, real, a, Fall("vk_rec"))
    BY DEF FallLeads, FallVk
  <2> QED
    BY <2>1, FallPlaces, FallOne
<1>2. FallPath(Run, real, Fall("vk_rec"), Fall("vk_made"))
  <2>1. /\ FallLeads(<<"end">>, real, Fall("vk_rec"), Fall("vk_rec"))
        /\ FallLeads(<<"submit">>, real, Fall("vk_rec"), Fall("vk_rec"))
        /\ FallLeads(<<"wait">>, real, Fall("vk_rec"), Fall("vk_made"))
    BY DEF FallLeads, FallVk
  <2>2. /\ FallPath(<< <<"end">> >>, real, Fall("vk_rec"), Fall("vk_rec"))
        /\ FallPath(<< <<"submit">> >>, real, Fall("vk_rec"), Fall("vk_rec"))
        /\ FallPath(<< <<"wait">> >>, real, Fall("vk_rec"), Fall("vk_made"))
    BY <2>1, FallPlaces, FallOne
  <2>3. Run = << <<"end">> >> \o (<< <<"submit">> >> \o << <<"wait">> >>)
    BY DEF Run
  <2> QED
    BY ONLY <2>2, <2>3, FallConcat
<1>3. FallPath(<< <<"invalidate", "quant">>, <<"read_quant">> >>, real, Fall("vk_made"), Fall("have"))
  <2>1. /\ FallLeads(<<"invalidate", "quant">>, real, Fall("vk_made"), Fall("vk_visible"))
        /\ FallLeads(<<"read_quant">>, real, Fall("vk_visible"), Fall("have"))
    BY DEF FallLeads, FallVk
  <2>2. /\ FallPath(<< <<"invalidate", "quant">> >>, real, Fall("vk_made"), Fall("vk_visible"))
        /\ FallPath(<< <<"read_quant">> >>, real, Fall("vk_visible"), Fall("have"))
    BY <2>1, FallPlaces, FallOne
  <2>3. << <<"invalidate", "quant">>, <<"read_quant">> >>
          = << <<"invalidate", "quant">> >> \o << <<"read_quant">> >>
    OBVIOUS
  <2> QED
    BY ONLY <2>2, <2>3, FallConcat
<1>4. FallPath(<< <<"invalidate", "power">>, <<"invalidate", "quant">>, <<"read_quant">> >>, real,
               Fall("vk_made"), Fall("have"))
  <2>1. FallLeads(<<"invalidate", "power">>, real, Fall("vk_made"), Fall("vk_made"))
    BY DEF FallLeads, FallVk
  <2>2. FallPath(<< <<"invalidate", "power">> >>, real, Fall("vk_made"), Fall("vk_made"))
    BY <2>1, FallPlaces, FallOne
  <2>3. << <<"invalidate", "power">>, <<"invalidate", "quant">>, <<"read_quant">> >>
          = << <<"invalidate", "power">> >> \o << <<"invalidate", "quant">>, <<"read_quant">> >>
    OBVIOUS
  <2> QED
    BY ONLY <1>3, <2>2, <2>3, FallConcat
<1>5. FallPath(VkUpload \o Begin, real, Fall("job"), Fall("vk_there"))
  <2>1. /\ FallLeads(<<"copy_in">>, real, Fall("job"), Fall("vk_in"))
        /\ FallLeads(<<"flush", "fft">>, real, Fall("vk_in"), Fall("vk_there"))
        /\ \A c \in {<<"reset_fences">>, <<"reset_cmd">>, <<"begin">>} :
             FallLeads(c, real, Fall("vk_there"), Fall("vk_there"))
    BY DEF FallLeads, FallVk
  <2>2. /\ FallPath(<< <<"copy_in">> >>, real, Fall("job"), Fall("vk_in"))
        /\ FallPath(<< <<"flush", "fft">> >>, real, Fall("vk_in"), Fall("vk_there"))
        /\ FallPath(<< <<"reset_fences">> >>, real, Fall("vk_there"), Fall("vk_there"))
        /\ FallPath(<< <<"reset_cmd">> >>, real, Fall("vk_there"), Fall("vk_there"))
        /\ FallPath(<< <<"begin">> >>, real, Fall("vk_there"), Fall("vk_there"))
    BY <2>1, FallPlaces, FallOne
  <2>3. /\ VkUpload = << <<"copy_in">> >> \o << <<"flush", "fft">> >>
        /\ Begin = << <<"reset_fences">> >> \o (<< <<"reset_cmd">> >> \o << <<"begin">> >>)
    BY DEF VkUpload, Begin
  <2> QED
    BY ONLY <2>2, <2>3, FallConcat
<1>6. FallPath(Begin, real, Fall("due"), Fall("due"))
  BY QuietScripts, QuietPath
<1>7. p = << <<"record", PyramidCmds(LenOf(real), BaseOf(real))>> >>
  BY DEF VkPyramid
<1> HIDE DEF p
<1> DEFINE r3 == << <<"invalidate", "power">>, <<"invalidate", "quant">>, <<"read_quant">> >>
           r2 == << <<"invalidate", "quant">>, <<"read_quant">> >>
<1>8. FallPath(r3, real, Fall("vk_made"), Fall("have")) /\ FallPath(r2, real, Fall("vk_made"), Fall("have"))
  BY <1>3, <1>4
<1>9. /\ VkQuantize(LenOf(real), BaseOf(real)) = Begin \o p \o Run \o r3
      /\ VkQuantizeSpectrum(LenOf(real), BaseOf(real)) = VkUpload \o Begin \o p \o Run \o r2
  BY <1>7 DEF VkQuantize, VkQuantizeSpectrum
<1> HIDE DEF r3, r2
<1> QED
  BY ONLY <1>1, <1>2, <1>5, <1>6, <1>8, <1>9, FallConcat

\* The OpenCL commands: one or two kernels for level 0, one for each other.
LEMMA ClPyramidLength ==
  ASSUME NEW real
  PROVE  LET h == IF BaseOf(real) \in 1 .. LenOf(real) - 1 THEN 2 ELSE 1 IN
         /\ Sequence(ClCmds(real)) /\ Len(ClCmds(real)) = h + Levels - 1 /\ ClCmds(real) # <<>>
         /\ h = 2 => /\ ClCmds(real)[1] = ClPower(SrcOf(real), BaseOf(real), 0, LenOf(real) - BaseOf(real))
                     /\ ClCmds(real)[2] = ClPower(SrcOf(real), 0, LenOf(real) - BaseOf(real), BaseOf(real))
         /\ h = 1 => ClCmds(real)[1] = ClPower(SrcOf(real), 0, 0, LenOf(real))
         /\ \A l \in 1 .. Levels - 1 :
              ClCmds(real)[h + l] =
                Kernel([op |-> "half", src |-> LevelStart(LenOf(real), l - 1),
                        dst |-> LevelStart(LenOf(real), l), len |-> LevelLen(LenOf(real), l),
                        drop |-> DropCl(l)])
<1> DEFINE n == LenOf(real)
           base == BaseOf(real)
           src == SrcOf(real)
           h == IF base \in 1 .. n - 1 THEN 2 ELSE 1
           s == IF base \in 1 .. n - 1
                  THEN <<ClPower(src, base, 0, n - base), ClPower(src, 0, n - base, base)>>
                  ELSE <<ClPower(src, 0, 0, n)>>
           half == [l \in 1 .. Levels - 1 |->
                      Kernel([op |-> "half", src |-> LevelStart(n, l - 1), dst |-> LevelStart(n, l),
                              len |-> LevelLen(n, l), drop |-> DropCl(l)])]
<1>1. ClCmds(real) = s \o half
  BY DEF ClCmds, ClPyramid
<1>2. /\ Sequence(s) /\ Len(s) = h
      /\ h = 2 => s[1] = ClPower(src, base, 0, n - base) /\ s[2] = ClPower(src, 0, n - base, base)
      /\ h = 1 => s[1] = ClPower(src, 0, 0, n)
  <2>1. /\ \A t, c1 : t = <<c1>> => Sequence(t) /\ Len(t) = 1 /\ t[1] = c1
        /\ \A t, c1, c2 : t = <<c1, c2>> => Sequence(t) /\ Len(t) = 2 /\ t[1] = c1 /\ t[2] = c2
    BY DEF Sequence
  <2>2. CASE base \in 1 .. n - 1
    <3>1. s = <<ClPower(src, base, 0, n - base), ClPower(src, 0, n - base, base)>> /\ h = 2
      BY <2>2
    <3> HIDE DEF s, h
    <3>2. /\ Sequence(s) /\ Len(s) = 2
          /\ s[1] = ClPower(src, base, 0, n - base) /\ s[2] = ClPower(src, 0, n - base, base)
      BY ONLY <2>1, <3>1
    <3> QED
      BY ONLY <3>1, <3>2
  <2>3. CASE base \notin 1 .. n - 1
    <3>1. s = <<ClPower(src, 0, 0, n)>> /\ h = 1
      BY <2>3
    <3> HIDE DEF s, h
    <3>2. Sequence(s) /\ Len(s) = 1 /\ s[1] = ClPower(src, 0, 0, n)
      BY ONLY <2>1, <3>1
    <3> QED
      BY ONLY <3>1, <3>2
  <2> QED
    BY <2>2, <2>3
<1>3. Sequence(half) /\ Len(half) = Levels - 1
  <2>1. DOMAIN half = 1 .. Levels - 1 /\ half = [l \in 1 .. Levels - 1 |-> half[l]] /\ Levels - 1 \in Nat
    OBVIOUS
  <2> QED
    BY ONLY <2>1, MakeSequence
<1>4. \A l \in 1 .. Levels - 1 :
        half[l] = Kernel([op |-> "half", src |-> LevelStart(n, l - 1), dst |-> LevelStart(n, l),
                          len |-> LevelLen(n, l), drop |-> DropCl(l)])
  OBVIOUS
<1>5. h \in {1, 2}
  OBVIOUS
<1> HIDE DEF s, half, h
<1>6. /\ Sequence(s \o half) /\ Len(s \o half) = h + (Levels - 1)
      /\ \A i \in 1 .. h + (Levels - 1) : (s \o half)[i] = IF i <= h THEN s[i] ELSE half[i - h]
  BY <1>2, <1>3, ConcatSequence
<1>7. s \o half # <<>>
  BY <1>5, <1>6, SequenceFacts
<1>8. \A l \in 1 .. Levels - 1 : (s \o half)[h + l] = half[l]
  <2>1. \A l \in 1 .. Levels - 1 : h + l \in 1 .. h + (Levels - 1) /\ ~(h + l <= h) /\ (h + l) - h = l
    BY <1>5
  <2> QED
    BY <1>6, <2>1
<1>9. h = 2 => (s \o half)[1] = s[1] /\ (s \o half)[2] = s[2]
  BY <1>6
<1>10. h = 1 => (s \o half)[1] = s[1]
  BY <1>6
<1>11. h + (Levels - 1) = h + Levels - 1
  BY <1>5
<1> QED
  BY <1>1, <1>2, <1>4, <1>6, <1>7, <1>8, <1>9, <1>10, <1>11 DEF h

\* So does the OpenCL one, kernel by kernel.
LEMMA ClQuantizeWay ==
  ASSUME NEW real, NEW a \in {Fall("due"), Fall("caught")}, real => a = Fall("caught")
  PROVE  FallPath(ClQuantize(SrcOf(real), LenOf(real), BaseOf(real)), real, a, Fall("have"))
<1> DEFINE s == ClCmds(real)
           n == Len(s)
           st == [i \in 1 .. n + 1 |-> IF i = 1 THEN a ELSE <<"cl", i - 1>>]
<1>1. Sequence(s) /\ s # <<>>
  <2>1. Sequence(s)
    BY ClPyramidFacts DEF ClCmds
  <2>2. s # <<>>
    BY ClPyramidLength
  <2> QED
    BY <2>1, <2>2
<1>2. n \in Nat \ {0}
  BY <1>1, SequenceFacts
<1> HIDE DEF s
<1>3. st \in [1 .. n + 1 -> Falls] /\ st[1] = a /\ st[n + 1] = <<"cl", n>>
  BY <1>2, FallPlaces
<1>4. ASSUME NEW i \in 1 .. n
      PROVE  FallLeads(s[i], real, st[i], st[i + 1])
  <2>1. CASE i = 1
    <3>1. st[i] = a /\ st[i + 1] = <<"cl", 1>> /\ s[i] = s[1]
      BY <1>2, <2>1
    <3> QED
      BY <3>1 DEF FallLeads, FallCl, s
  <2>2. CASE i # 1
    <3>1. st[i] = <<"cl", i - 1>> /\ st[i + 1] = <<"cl", i>> /\ i - 1 \in 1 .. n - 1 /\ (i - 1) + 1 = i
      BY <1>2, <2>2
    <3> QED
      BY <3>1 DEF FallLeads, FallCl, s
  <2> QED
    BY <2>1, <2>2
<1>5. FallPath(s, real, a, <<"cl", n>>)
  BY <1>1, <1>3, <1>4 DEF FallPath
<1>6. FallPath(<<Read("quant")>>, real, <<"cl", n>>, Fall("have"))
  <2>1. FallLeads(Read("quant"), real, <<"cl", n>>, Fall("have"))
    BY DEF FallLeads, FallCl, s
  <2> QED
    BY <1>2, <2>1, FallPlaces, FallOne
<1>7. ClQuantize(SrcOf(real), LenOf(real), BaseOf(real)) = s \o <<Read("quant")>>
  BY DEF ClQuantize, ClCmds, s
<1> QED
  BY <1>5, <1>6, <1>7, FallConcat

\* Where the way of a waterfall begins and may end.
Begins(want) == IF Worker THEN Fall("job") ELSE IF want THEN Fall("due") ELSE Fall("skip")

\* A quantization on the CPU, if one is due.
LEMMA CpuQuantizeWay ==
  ASSUME NEW real
  PROVE  /\ FallPath(<< <<"quant_cpu">> >>, real, Fall("due"), Fall("have"))
         /\ FallPath(<< <<"quant_cpu">> >>, real, Fall("job"), Fall("have"))
<1>1. \A a \in {Fall("due"), Fall("job")} : FallLeads(<<"quant_cpu">>, real, a, Fall("have"))
  BY DEF FallLeads, FallCpu
<1> QED
  BY <1>1, FallPlaces, FallOne

\* The rest of execute_complex after a GPU error, or all of it.
LEMMA CpuWay ==
  ASSUME NEW real, NEW want \in BOOLEAN
  PROVE  FallPath(CpuScript(want), real, IF want THEN Fall("due") ELSE Fall("skip"),
                  IF want THEN Fall("have") ELSE Fall("skip"))
<1>1. Quiet(<< <<"window_cpu">> >>) /\ Quiet(<< <<"fft_cpu">> >>)
  BY QuietCalls, QuietShort
<1>2. Quiet(Process)
  BY <1>1, QuietScripts DEF Process
<1>3. Quiet(<< <<"window_cpu">> >> \o Process)
  BY <1>1, <1>2, QuietConcat
<1> DEFINE s == << <<"window_cpu">> >> \o Process
           q == IF want THEN << <<"quant_cpu">> >> ELSE <<>>
<1>4. CpuScript(want) = s \o q
  BY DEF CpuScript
<1> HIDE DEF s
<1>5. CASE want
  <2>1. FallPath(s, real, Fall("due"), Fall("due"))
    BY <1>3, QuietPath DEF s
  <2> QED
    BY <1>4, <1>5, <2>1, CpuQuantizeWay, FallConcat
<1>6. CASE ~want
  <2>1. FallPath(s, real, Fall("skip"), Fall("skip")) /\ FallPath(<<>>, real, Fall("skip"), Fall("skip"))
    BY <1>3, QuietPath, QuietShort DEF s
  <2> QED
    BY <1>4, <1>6, <2>1, FallConcat
<1> QED
  BY <1>5, <1>6

\* A complex frame on a GPU.
LEMMA GpuWay ==
  ASSUME ~isReal, NEW want \in BOOLEAN
  PROVE  FallPath(GpuScript(want), isReal, IF want THEN Fall("due") ELSE Fall("skip"),
                  IF want THEN Fall("have") ELSE Fall("skip"))
<1> DEFINE a == IF want THEN Fall("due") ELSE Fall("skip")
           b == IF want THEN Fall("have") ELSE Fall("skip")
<1>1. a \in {Fall("skip"), Fall("due"), Fall("have")} /\ b \in {Fall("skip"), Fall("due"), Fall("have")}
  OBVIOUS
<1>2. LenOf(isReal) = FftSize /\ BaseOf(isReal) = BaseIdx /\ SrcOf(isReal) = "buf"
  BY DEF LenOf, BaseOf, SrcOf, BaseIdx
<1>3. FallPath(<< <<"assemble">> >>, isReal, a, a)
  BY <1>1, QuietCalls, QuietShort, QuietPath
<1>4. CASE UsesVk
  <2> DEFINE q == IF want THEN VkQuantize(FftSize, BaseIdx) \o VkMaxPower ELSE <<>>
  <2>1. FallPath(VkWindowAndProcess, isReal, a, a) /\ FallPath(VkReadOutput, isReal, b, b)
    BY <1>1, QuietScripts, QuietPath
  <2>2. FallPath(q, isReal, a, b)
    <3>1. CASE want
      <4>1. FallPath(VkQuantize(FftSize, BaseIdx), isReal, Fall("due"), Fall("have"))
        BY <1>2, VkQuantizeWay
      <4>2. FallPath(VkMaxPower, isReal, Fall("have"), Fall("have"))
        BY QuietScripts, QuietPath
      <4> QED
        BY <3>1, <4>1, <4>2, FallConcat
    <3>2. CASE ~want
      BY <3>2, FallNil, FallPlaces
    <3> QED
      BY <3>1, <3>2
  <2> HIDE DEF q, a, b
  <2>3. FallPath(VkWindowAndProcess \o q \o VkReadOutput, isReal, a, b)
    BY ONLY <2>1, <2>2, FallConcat
  <2>4. FallPath(<< <<"assemble">> >> \o (VkWindowAndProcess \o q \o VkReadOutput), isReal, a, b)
    BY ONLY <1>3, <2>3, FallConcat
  <2>5. GpuScript(want) = << <<"assemble">> >> \o (VkWindowAndProcess \o q \o VkReadOutput)
    BY <1>4 DEF GpuScript, q
  <2> QED
    BY <2>4, <2>5 DEF a, b
<1>5. CASE ~UsesVk
  <2> DEFINE q == IF want THEN ClQuantize("buf", FftSize, BaseIdx) \o ClMaxPower ELSE <<>>
  <2>1. FallPath(ClWindowAndProcess, isReal, a, a) /\ FallPath(ClReadOutput, isReal, b, b)
    BY <1>1, QuietScripts, QuietPath
  <2>2. FallPath(q, isReal, a, b)
    <3>1. CASE want
      <4>1. FallPath(ClQuantize("buf", FftSize, BaseIdx), isReal, Fall("due"), Fall("have"))
        BY <1>2, ClQuantizeWay
      <4>2. FallPath(ClMaxPower, isReal, Fall("have"), Fall("have"))
        BY QuietScripts, QuietPath
      <4> QED
        BY <3>1, <4>1, <4>2, FallConcat
    <3>2. CASE ~want
      BY <3>2, FallNil, FallPlaces
    <3> QED
      BY <3>1, <3>2
  <2> HIDE DEF q, a, b
  <2>3. FallPath(ClWindowAndProcess \o q \o ClReadOutput, isReal, a, b)
    BY ONLY <2>1, <2>2, FallConcat
  <2>4. FallPath(<< <<"assemble">> >> \o (ClWindowAndProcess \o q \o ClReadOutput), isReal, a, b)
    BY ONLY <1>3, <2>3, FallConcat
  <2>5. GpuScript(want) = << <<"assemble">> >> \o (ClWindowAndProcess \o q \o ClReadOutput)
    BY <1>5 DEF GpuScript, q
  <2> QED
    BY <2>4, <2>5 DEF a, b
<1> QED
  BY <1>4, <1>5

\* A real frame.
LEMMA RealWay ==
  ASSUME isReal, ~Worker, NEW want \in BOOLEAN
  PROVE  FallPath(RealScript(want), isReal, IF want THEN Fall("due") ELSE Fall("skip"),
                  IF want THEN Fall("have") ELSE Fall("skip"))
<1> DEFINE a == IF want THEN Fall("due") ELSE Fall("skip")
           b == IF want THEN Fall("have") ELSE Fall("skip")
<1>1. a \in {Fall("skip"), Fall("due"), Fall("have")}
  OBVIOUS
<1>2. LenOf(isReal) = SpectrumLen /\ BaseOf(isReal) = BaseIdx /\ SrcOf(isReal) = "out"
  BY DEF LenOf, BaseOf, SrcOf, BaseIdx, SpectrumLen
<1>3. CASE UsesCl
  <2> DEFINE q == IF want THEN << <<"catch", "drop_waterfall">> >> \o ClQuantize("out", SpectrumLen, BaseIdx)
                  ELSE <<>>
  <2>1. FallPath(ClLoadReal, isReal, a, a) /\ FallPath(ClProcessReal, isReal, a, a)
    BY <1>1, QuietScripts, QuietPath
  <2>2. FallPath(q, isReal, a, b)
    <3>1. CASE want
      <4>1. FallLeads(<<"catch", "drop_waterfall">>, isReal, Fall("due"), Fall("caught"))
        BY DEF FallLeads, FallCpu
      <4>2. FallPath(<< <<"catch", "drop_waterfall">> >>, isReal, Fall("due"), Fall("caught"))
        BY <4>1, FallPlaces, FallOne
      <4>3. FallPath(ClQuantize("out", SpectrumLen, BaseIdx), isReal, Fall("caught"), Fall("have"))
        BY <1>2, ClQuantizeWay
      <4> QED
        BY <3>1, <4>2, <4>3, FallConcat
    <3>2. CASE ~want
      BY <3>2, FallNil, FallPlaces
    <3> QED
      BY <3>1, <3>2
  <2> HIDE DEF q, a, b
  <2>3. FallPath(ClLoadReal \o ClProcessReal \o q, isReal, a, b)
    BY ONLY <2>1, <2>2, FallConcat
  <2>4. RealScript(want) = ClLoadReal \o ClProcessReal \o q
    BY <1>3 DEF RealScript, q
  <2> QED
    BY <2>3, <2>4 DEF a, b
<1>4. CASE ~UsesCl
  <2> DEFINE q == IF want THEN << <<"quant_cpu">> >> ELSE <<>>
  <2>1. FallPath(<< <<"real_cpu">> >>, isReal, a, a)
    BY <1>1, QuietCalls, QuietShort, QuietPath
  <2>2. FallPath(q, isReal, a, b)
    BY CpuQuantizeWay, FallNil, FallPlaces
  <2> HIDE DEF q, a, b
  <2>3. FallPath(<< <<"real_cpu">> >> \o q, isReal, a, b)
    BY ONLY <2>1, <2>2, FallConcat
  <2>4. RealScript(want) = << <<"real_cpu">> >> \o q
    BY <1>4 DEF RealScript, q
  <2> QED
    BY <2>3, <2>4 DEF a, b
<1> QED
  BY <1>3, <1>4

\* Every script execute() starts with leads to a waterfall if one is due.
LEMMA ScriptWay ==
  ASSUME NEW want \in BOOLEAN, isReal \in BOOLEAN
  PROVE  \E e \in Ends : FallPath(ExecuteScript(want), isReal, Begins(want), Fall(e))
<1>1. "have" \in Ends /\ "skip" \in Ends
  BY DEF Ends
<1>2. CASE Worker
  <2>1. LenOf(isReal) = SpectrumLen /\ BaseOf(isReal) = BaseIdx
    BY DEF LenOf, BaseOf, BaseIdx, SpectrumLen
  <2>2. FallPath(WorkerScript, isReal, Fall("job"), Fall("have"))
    BY <2>1, VkQuantizeWay, CpuQuantizeWay DEF WorkerScript
  <2> QED
    BY <1>1, <1>2, <2>2 DEF ExecuteScript, Begins
<1>3. CASE ~Worker
  <2>1. FallPath(ExecuteScript(want), isReal, IF want THEN Fall("due") ELSE Fall("skip"),
                 IF want THEN Fall("have") ELSE Fall("skip"))
    BY <1>3, RealWay, GpuWay, CpuWay DEF ExecuteScript
  <2> QED
    BY <1>1, <1>3, <2>1 DEF Begins
<1> QED
  BY <1>2, <1>3

-----------------------------------------------------------------------------
(* FFT engine: the waterfall on the CPU, and in a failing call *)

\* The sizes of the waterfall of a real or a complex frame.
LEMMA Sizes ==
  ASSUME NEW real
  PROVE  /\ LenOf(real) \in Nat \ {0} /\ BaseOf(real) \in Nat
         /\ 0 .. 2 * LenOf(real) - 1 \subseteq Positions(FftSize)
         /\ 0 .. LenOf(real) - 1 \subseteq Positions(FftSize)
         /\ real => BaseOf(real) = 0
         /\ ~real => BaseOf(real) \in 1 .. LenOf(real) - 1
         /\ \A l \in 0 .. Levels : LevelStart(LenOf(real), l) \in Nat /\ LevelLen(LenOf(real), l) \in Nat
<1>1. LenOf(real) \in Nat \ {0} /\ LenOf(real) <= FftSize /\ BaseOf(real) \in Nat
  BY DEF LenOf, BaseOf
<1>2. \A n \in Nat : n <= FftSize => 0 .. 2 * n - 1 \subseteq 0 .. 2 * FftSize - 1
                                     /\ 0 .. n - 1 \subseteq 0 .. 2 * FftSize - 1
  OBVIOUS
<1>3. /\ real => BaseOf(real) = 0
      /\ ~real => BaseOf(real) \in 1 .. LenOf(real) - 1
  BY DEF LenOf, BaseOf
<1> QED
  BY <1>1, <1>2, <1>3, LevelTypes DEF Positions

\* A waterfall has at least one entry.
LEMMA Something ==
  ASSUME NEW real, NEW q, DOMAIN q = 0 .. TotalLen(LenOf(real)) - 1
  PROVE  q # NoFrame
<1> DEFINE n == LenOf(real)
<1>1. n \in Nat \ {0}
  BY Sizes
<1>2. LevelStart(n, 0) = 0 /\ LevelLen(n, 0) = n /\ 0 \in 0 .. Levels /\ Levels \in 0 .. Levels /\ 0 < Levels
  BY LevelRecursion
<1>3. LevelStart(n, 0) + LevelLen(n, 0) <= LevelStart(n, Levels)
  BY <1>1, <1>2, LevelOrder
<1>4. LevelStart(n, Levels) \in Nat
  BY Sizes
<1>5. 0 \in DOMAIN q
  BY <1>1, <1>2, <1>3, <1>4 DEF TotalLen
<1>6. DOMAIN NoFrame = {}
  BY DEF NoFrame
<1> QED
  BY <1>5, <1>6

\* The rest of the script, and what is left of the way to the waterfall.
LEMMA NextFall ==
  ASSUME EngineInv, WaterfallInv, phase = "execute", todo # <<>>
  PROVE  /\ result = "none" /\ Sequence(todo) /\ Sequence(Tail(todo)) /\ Shape /\ EngineTypeOK
         /\ WaterfallShape /\ JobKept
         /\ \E x \in Uses, y \in Uses, d \in Contents, f \in Contents, a \in Falls, m \in Falls, e \in Ends :
              /\ UseStep(Head(todo), x, y) /\ ContentStep(Head(todo), x, d, f)
              /\ UseState(x) /\ ContentState(d) /\ HandlerOK(d)
              /\ FallLeads(Head(todo), isReal, a, m) /\ FallPath(Tail(todo), isReal, m, Fall(e))
              /\ FallPath(todo, isReal, a, Fall(e)) /\ FallState(a)
<1>1. /\ result = "none" /\ Sequence(todo) /\ Sequence(Tail(todo))
      /\ \E x \in Uses, y \in Uses, d \in Contents, f \in Contents :
           /\ UseStep(Head(todo), x, y) /\ ContentStep(Head(todo), x, d, f)
           /\ UseState(x) /\ ContentState(d) /\ HandlerOK(d)
  BY CallMade
<1>2. PICK a \in Falls, e \in Ends : FallPath(todo, isReal, a, Fall(e)) /\ FallState(a)
  BY <1>1 DEF WaterfallInv, FallScript
<1>3. PICK m \in Falls : FallLeads(Head(todo), isReal, a, m) /\ FallPath(Tail(todo), isReal, m, Fall(e))
  BY <1>2, FallStep
<1>4. Shape /\ EngineTypeOK /\ WaterfallShape /\ JobKept
  BY DEF EngineInv, WaterfallInv
<1> QED
  BY <1>1, <1>2, <1>3, <1>4

\* The worker's next call is one of its script.
LEMMA JobCall ==
  ASSUME EngineInv, JobKept, Worker, phase = "execute", todo # <<>>
  PROVE  /\ complex_frame = Samples("spectrum") /\ Head(todo)[1] \in JobCalls
         /\ \A i \in DOMAIN Tail(todo) : Tail(todo)[i][1] \in JobCalls
<1>1. Sequence(todo)
  BY DEF EngineInv, Shape
<1>2. /\ Sequence(Tail(todo)) /\ Head(todo) = todo[1] /\ Len(Tail(todo)) = Len(todo) - 1
      /\ \A i \in 1 .. Len(todo) - 1 : Tail(todo)[i] = todo[i + 1]
  BY <1>1, TailSequence
<1>3. /\ Len(todo) \in Nat \ {0} /\ DOMAIN todo = 1 .. Len(todo)
      /\ DOMAIN Tail(todo) = 1 .. Len(todo) - 1
  BY <1>1, <1>2, SequenceFacts
<1>4. \A i \in 1 .. Len(todo) - 1 : i + 1 \in DOMAIN todo
  BY <1>3
<1> QED
  BY <1>2, <1>3, <1>4 DEF JobKept

\* A call that establishes the claims of the next place keeps the invariant.
LEMMA FallAdvance ==
  ASSUME EngineInv, WaterfallInv, phase = "execute", phase' = "execute", todo # <<>>, todo' = Tail(todo),
         UNCHANGED <<machine, isReal, half_a, half_b>>, Worker => complex_frame' = complex_frame,
         NEW m \in Falls, NEW e \in Ends, FallPath(Tail(todo), isReal, m, Fall(e)), FallState(m)',
         WaterfallShape'
  PROVE  WaterfallInv'
<1>1. Worker' = Worker /\ Samples("spectrum")' = Samples("spectrum")
  BY DEF Worker, Samples
<1>2. JobKept'
  BY <1>1, JobCall DEF JobKept, WaterfallInv
<1>3. FallScript'
  BY DEF FallScript
<1> QED
  BY <1>2, <1>3 DEF WaterfallInv

\* A call that does not hand over a waterfall leaves what there is.
LEMMA RestKept ==
  ASSUME NEW a \in {Fall("skip"), Fall("due"), Fall("have")}, FallState(a),
         UNCHANGED <<machine, acc, isReal, half_a, half_b, wanted, quantized>>
  PROVE  FallState(a)'
<1>1. Worker' = Worker /\ Samples("spectrum")' = Samples("spectrum")
  BY DEF Worker, Samples
<1>2. \A x : Fall(x)[1] = x /\ \A z : Fall(x) = Fall(z) => x = z
  BY DEF Fall
<1>3. CASE a = Fall("skip")
  BY <1>1, <1>2, <1>3 DEF FallState
<1>4. CASE a = Fall("due")
  BY <1>1, <1>2, <1>4 DEF FallState
<1>5. CASE a = Fall("have")
  BY <1>1, <1>2, <1>5 DEF FallState
<1> QED
  BY <1>3, <1>4, <1>5

\* The OpenCL part of the way consists of kernels and a read.
LEMMA KernelsOnly ==
  ASSUME NEW c, NEW real, NEW a, NEW b, FallCl(c, real, a, b)
  PROVE  c[1] \in {"kernel", "read"}
<1>1. \A i \in 1 .. Len(ClCmds(real)) : ClCmds(real)[i][1] = "kernel"
  BY ClPyramidFacts, SequenceFacts DEF ClCmds
<1>2. /\ 1 \in 1 .. Len(ClCmds(real))
      /\ \A i \in 1 .. Len(ClCmds(real)) - 1 : i + 1 \in 1 .. Len(ClCmds(real))
  <2>1. Sequence(ClCmds(real)) /\ ClCmds(real) # <<>>
    BY ClPyramidLength
  <2>2. Len(ClCmds(real)) \in Nat \ {0}
    BY <2>1, SequenceFacts
  <2> QED
    BY <2>2
<1>3. Read("quant")[1] = "read"
  BY DEF Read
<1> QED
  BY <1>1, <1>2, <1>3 DEF FallCl

\* A step on the CPU; its waterfall is made of the frame's spectrum.
LEMMA CpuStepFall == EngineInv /\ WaterfallInv /\ CpuStep => WaterfallInv'
<1> SUFFICES ASSUME EngineInv, WaterfallInv, CpuStep
             PROVE  WaterfallInv'
  OBVIOUS
<1> DEFINE c == Head(todo)
           src == IF isReal /\ ~Worker THEN spectrum ELSE complex_frame
<1>1. /\ phase = "execute" /\ phase' = phase /\ todo # <<>> /\ todo' = Tail(todo) /\ c[1] \in CpuCalls
      /\ UNCHANGED <<machine, acc, isReal, frame, half_a, half_b, wanted, result, vkVars, clVars>>
  BY DEF CpuStep, config
<1>2. /\ quantized' = IF c[1] = "quant_cpu" THEN quantize_and_downsample_cpu(src, SpectrumLen, BaseIdx)
                      ELSE quantized
      /\ onError' = IF c[1] = "catch" THEN c[2] ELSE onError
  BY DEF CpuStep
<1>3. PICK x \in Uses, y \in Uses, d \in Contents, f \in Contents, a \in Falls, m \in Falls, e \in Ends :
        /\ ContentStep(c, x, d, f) /\ ContentState(d) /\ HandlerOK(d)
        /\ FallLeads(c, isReal, a, m) /\ FallPath(Tail(todo), isReal, m, Fall(e)) /\ FallState(a)
  BY <1>1, NextFall
<1>4. Shape /\ WaterfallShape /\ JobKept
  BY <1>1, NextFall
<1>5. Worker => complex_frame' = complex_frame /\ complex_frame = Samples("spectrum")
  <2>1. SUFFICES ASSUME Worker
                 PROVE  complex_frame' = complex_frame /\ complex_frame = Samples("spectrum")
    OBVIOUS
  <2>2. c[1] \in JobCalls /\ complex_frame = Samples("spectrum")
    BY <1>1, <1>4, <2>1, JobCall
  <2>3. c[1] \notin {"assemble", "window_cpu", "fft_cpu"}
    BY <2>2 DEF JobCalls
  <2> QED
    BY <2>2, <2>3 DEF CpuStep
<1>6. WaterfallShape'
  BY <1>1, <1>4 DEF WaterfallShape, vkVars, vkWork, clVars
<1>7. Worker' = Worker /\ Samples("spectrum")' = Samples("spectrum")
  BY <1>1 DEF Worker, Samples
<1>8. FallState(m)'
  <2>1. CASE FallRest(c, a, m)
    <3>1. quantized' = quantized
      BY <2>1, <1>2 DEF FallRest, Delivers
    <3> QED
      BY <2>1, <3>1, <1>1, <1>3, RestKept DEF FallRest
  <2>2. CASE c[1] = "quant_cpu" /\ m = Fall("have")
    <3>1. src = Samples("spectrum")
      <4>1. CASE Worker
        BY <4>1, <1>5
      <4>2. CASE ~Worker
        <5>1. d \in {"done", "real_done"}
          BY <4>2, <2>2, <1>1, <1>3 DEF ContentStep, CpuContent, ContentState
        <5> QED
          BY <4>2, <5>1, <1>3 DEF ContentState
      <4> QED
        BY <4>1, <4>2
    <3>2. SpectrumLen = LenOf(isReal) /\ BaseIdx = BaseOf(isReal)
      BY DEF SpectrumLen, BaseIdx, LenOf, BaseOf
    <3>3. quantized' = quantize_and_downsample_cpu(Samples("spectrum"), LenOf(isReal), BaseOf(isReal))
      BY <2>2, <3>1, <3>2, <1>2
    <3>4. CoversBand(quantized', Samples("spectrum"), LenOf(isReal), BaseOf(isReal))
      BY <3>3, Sizes, CpuPyramid
    <3>5. quantized' # NoFrame
      BY <3>3, CpuWaterfall, Something
    <3> HIDE DEF src
    <3> QED
      BY <2>2, <3>4, <3>5, <1>1, <1>7 DEF FallState, Fall
  <2>3. CASE c = <<"catch", "drop_waterfall">> /\ m = Fall("caught")
    <3>1. onError' = "drop_waterfall"
      BY <2>3, <1>2
    <3> HIDE DEF src
    <3> QED
      BY <2>3, <3>1 DEF FallState, Fall
  <2> HIDE DEF c, src
  <2>4. c[1] # "kernel" /\ c[1] # "read" /\ c[1] \in CpuCalls
    BY <1>1 DEF CpuCalls
  <2>5. ~FallVk(c, isReal, a, m)
    BY <2>4 DEF FallVk, CpuCalls
  <2>6. ~FallCl(c, isReal, a, m)
    BY <2>4, KernelsOnly
  <2>7. CASE FallCpu(c, isReal, a, m)
    BY <2>7, <2>2, <2>3 DEF FallCpu
  <2> QED
    BY <1>3, <2>1, <2>5, <2>6, <2>7 DEF FallLeads
<1> QED
  BY <1>1, <1>3, <1>5, <1>6, <1>8, FallAdvance

\* A GPU call fails: the code that handles the error makes the waterfall of
\* this frame as well, or leaves the frame without one where it may.
LEMMA GpuFailsFall == EngineInv /\ WaterfallInv /\ GpuFails => WaterfallInv'
<1> SUFFICES ASSUME EngineInv, WaterfallInv, GpuFails
             PROVE  WaterfallInv'
  OBVIOUS
<1> DEFINE c == Head(todo)
<1>1. /\ phase = "execute" /\ phase' = phase /\ todo # <<>> /\ c[1] \notin CpuCalls
      /\ IF UsesCl THEN ClCallFails(c) /\ UNCHANGED vkVars ELSE VkCallFails(c) /\ UNCHANGED clVars
      /\ todo' = CASE onError = "fallback" -> CpuScript(wanted)
                   [] onError = "cpu_quantize" -> << <<"quant_cpu">> >>
                   [] OTHER -> <<>>
      /\ quantized' = NoFrame
      /\ result' = IF onError = "error" THEN "err" ELSE result
      /\ UNCHANGED <<machine, acc, isReal, frame, half_a, half_b, complex_frame, spectrum, wanted>>
  BY DEF GpuFails, Fallback, config
<1>2. PICK x \in Uses, y \in Uses, d \in Contents, f \in Contents :
        /\ UseStep(c, x, y) /\ ContentStep(c, x, d, f)
        /\ UseState(x) /\ ContentState(d) /\ HandlerOK(d)
  BY <1>1, NextFall
<1>3. Shape /\ EngineTypeOK /\ WaterfallShape /\ JobKept
  BY <1>1, NextFall
<1> HIDE DEF c
<1>4. UNCHANGED <<host, dev, clVars>>
  BY <1>1, <1>2, FailedCall
<1>5. /\ Worker' = Worker /\ UsesCl' = UsesCl /\ Samples("spectrum")' = Samples("spectrum")
  BY <1>1 DEF Worker, UsesCl, Samples
<1>6. /\ onError \in {"error", "fallback", "drop_waterfall", "cpu_quantize"}
      /\ onError = "cpu_quantize" => Worker
      /\ onError = "drop_waterfall" => d = "real_done" /\ ~Worker
      /\ onError = "fallback" => ~Worker
  BY <1>2, <1>3 DEF EngineTypeOK, HandlerOK
<1>7. wanted \in BOOLEAN
  BY <1>3 DEF WaterfallShape
<1>8. WaterfallShape'
  BY <1>1, <1>3, <1>4 DEF WaterfallShape, clVars
<1>9. JobKept'
  <2> SUFFICES ASSUME Worker
               PROVE  /\ complex_frame' = Samples("spectrum")'
                      /\ \A i \in DOMAIN todo' : todo'[i][1] \in JobCalls
    BY <1>5 DEF JobKept
  <2>1. complex_frame' = Samples("spectrum")'
    BY <1>1, <1>3, <1>5 DEF JobKept
  <2>2. todo' \in {<<>>, << <<"quant_cpu">> >>}
    BY <1>1, <1>6
  <2>3. "quant_cpu" \in JobCalls
    BY DEF JobCalls
  <2> QED
    BY <2>1, <2>2, <2>3
<1>10. FallScript'
  <2>1. CASE onError = "error"
    BY <2>1, <1>1 DEF FallScript
  <2>2. CASE onError = "fallback"
    <3>1. PICK a, e : a = (IF wanted THEN Fall("due") ELSE Fall("skip"))
                      /\ e = (IF wanted THEN "have" ELSE "skip")
      OBVIOUS
    <3>2. FallPath(CpuScript(wanted), isReal, a, Fall(e)) /\ a \in Falls /\ e \in Ends
      BY <1>7, <3>1, CpuWay, FallPlaces DEF Ends
    <3>3. FallState(a)'
      BY <2>2, <3>1, <1>1, <1>5, <1>6 DEF FallState, Fall
    <3> QED
      BY <2>2, <3>2, <3>3, <1>1 DEF FallScript
  <2>3. CASE onError = "cpu_quantize"
    <3>1. FallPath(todo', isReal', Fall("job"), Fall("have"))
      BY <2>3, <1>1, CpuQuantizeWay
    <3>2. FallState(Fall("job"))'
      BY <2>3, <1>5, <1>6 DEF FallState, Fall
    <3>3. "have" \in Ends
      BY DEF Ends
    <3> QED
      BY <3>1, <3>2, <3>3, FallPlaces DEF FallScript
  <2>4. CASE onError = "drop_waterfall"
    <3>1. isReal /\ UsesCl
      <4>1. d = "real_done" /\ isReal
        BY <2>4, <1>2, <1>6 DEF ContentState
      <4>2. x = "queue"
        BY <4>1, <1>1, <1>2 DEF ContentStep, VkContent
      <4> QED
        BY <4>1, <4>2, <1>2 DEF UseState
    <3>2. FallState(Fall("without"))'
      BY <3>1, <1>1, <1>5 DEF FallState, Fall
    <3>3. FallPath(todo', isReal', Fall("without"), Fall("without"))
      BY <2>4, <1>1, FallNil, FallPlaces
    <3>4. "without" \in Ends
      BY DEF Ends
    <3> QED
      BY <3>2, <3>3, <3>4, FallPlaces DEF FallScript
  <2> QED
    BY <1>6, <2>1, <2>2, <2>3, <2>4
<1> QED
  BY <1>1, <1>8, <1>9, <1>10 DEF WaterfallInv

\* Scripts of the worker's calls.
Jobs(s) == Sequence(s) /\ \A i \in DOMAIN s : s[i][1] \in JobCalls

\* The worker only makes them.
LEMMA JobScript == Jobs(WorkerScript)
<1>1. ASSUME NEW s, NEW t, Jobs(s), Jobs(t)
      PROVE  Jobs(s \o t)
  <2>1. Sequence(s) /\ Sequence(t)
    BY <1>1 DEF Jobs
  <2>2. /\ Sequence(s \o t) /\ Len(s \o t) = Len(s) + Len(t)
        /\ \A i \in 1 .. Len(s) + Len(t) :
              (s \o t)[i] = IF i <= Len(s) THEN s[i] ELSE t[i - Len(s)]
    BY <2>1, ConcatSequence
  <2> QED
    BY <1>1, <2>1, <2>2, SequenceFacts DEF Jobs
<1>2. \A c1, c2, c3 : c1[1] \in JobCalls /\ c2[1] \in JobCalls /\ c3[1] \in JobCalls =>
        Jobs(<<c1>>) /\ Jobs(<<c1, c2>>) /\ Jobs(<<c1, c2, c3>>)
  <2> TAKE c1, c2, c3
  <2> HAVE c1[1] \in JobCalls /\ c2[1] \in JobCalls /\ c3[1] \in JobCalls
  <2>1. /\ DOMAIN <<c1>> = {1} /\ <<c1>>[1] = c1 /\ Sequence(<<c1>>)
    BY DEF Sequence
  <2>2. /\ DOMAIN <<c1, c2>> = {1, 2} /\ <<c1, c2>>[1] = c1 /\ <<c1, c2>>[2] = c2 /\ Sequence(<<c1, c2>>)
    BY DEF Sequence
  <2>3. /\ DOMAIN <<c1, c2, c3>> = {1, 2, 3} /\ <<c1, c2, c3>>[1] = c1 /\ <<c1, c2, c3>>[2] = c2
        /\ <<c1, c2, c3>>[3] = c3 /\ Sequence(<<c1, c2, c3>>)
    BY DEF Sequence
  <2> QED
    BY <2>1, <2>2, <2>3 DEF Jobs
<1>3. /\ \A z : <<"record", z>>[1] \in JobCalls /\ <<"flush", z>>[1] \in JobCalls
              /\ <<"invalidate", z>>[1] \in JobCalls
      /\ \A z \in JobCalls : <<z>>[1] \in JobCalls
  BY DEF JobCalls
<1>4. /\ Jobs(VkUpload) /\ Jobs(Begin) /\ Jobs(Run) /\ Jobs(<< <<"quant_cpu">> >>)
      /\ \A z : Jobs(<< <<"record", z>> >>)
      /\ Jobs(<< <<"invalidate", "quant">>, <<"read_quant">> >>)
  BY <1>2, <1>3 DEF JobCalls, VkUpload, Begin, Run
<1>5. \A n, base : Jobs(VkQuantizeSpectrum(n, base))
  BY <1>1, <1>4 DEF VkQuantizeSpectrum
<1> QED
  BY <1>4, <1>5 DEF WorkerScript

\* A frame is given to execute(), or a job to the worker.
LEMMA ExecuteFall ==
  ASSUME EngineInv, WaterfallInv, NEW want \in BOOLEAN, Execute(want)
  PROVE  WaterfallInv'
<1>1. /\ phase' = "execute" /\ quantized' = NoFrame /\ wanted' = want
      /\ todo' = ExecuteScript(want)
      /\ complex_frame' = IF Worker THEN <<half_a', half_b', "spectrum">> ELSE complex_frame
      /\ UNCHANGED <<machine, acc, isReal, vkVars, clVars>>
  BY DEF Execute, config
<1>2. WaterfallShape'
  BY <1>1 DEF WaterfallInv, WaterfallShape, vkVars, vkWork, clVars
<1>3. Worker' = Worker /\ isReal \in BOOLEAN
  BY <1>1 DEF Worker, EngineInv, Shape
<1>4. JobKept'
  BY <1>1, <1>3, JobScript DEF JobKept, Samples, ExecuteScript, Jobs
<1>5. PICK e \in Ends : FallPath(ExecuteScript(want), isReal, Begins(want), Fall(e))
  BY <1>3, ScriptWay
<1>6. Begins(want) \in Falls
  BY FallPlaces DEF Begins
<1>7. PICK a : a = Begins(want)
  OBVIOUS
<1>8. FallState(a)'
  BY <1>1, <1>3, <1>7 DEF Begins, FallState, Fall
<1>9. FallScript'
  BY <1>1, <1>5, <1>6, <1>7, <1>8 DEF FallScript
<1> QED
  BY <1>1, <1>2, <1>4, <1>9 DEF WaterfallInv

\* execute() returns: the way of the waterfall is at its end.
LEMMA ReturnFall == EngineInv /\ WaterfallInv /\ Return => WaterfallInv'
<1> SUFFICES ASSUME EngineInv, WaterfallInv, Return
             PROVE  WaterfallInv'
  OBVIOUS
<1>1. /\ phase = "execute" /\ todo = <<>> /\ phase' \in {"drop", "idle"}
      /\ phase' = "drop" => result' = "err"
      /\ phase' = "idle" => result # "err"
      /\ UNCHANGED <<machine, acc, isReal, half_a, half_b, wanted, quantized, vkVars, clVars>>
  BY DEF Return, config, frameVars
<1>2. WaterfallShape'
  BY <1>1 DEF WaterfallInv, WaterfallShape, vkVars, vkWork, clVars
<1>3. WaterfallOfThisFrame'
  <2>1. CASE phase' = "drop"
    BY <2>1, <1>1 DEF WaterfallOfThisFrame
  <2>2. CASE phase' = "idle"
    <3>1. PICK a \in Falls, e \in Ends : FallPath(todo, isReal, a, Fall(e)) /\ FallState(a)
      BY <1>1, <2>2 DEF WaterfallInv, FallScript
    <3>2. a = Fall(e)
      BY <1>1, <3>1, FallEnd
    <3>3. SpectrumLen' = LenOf(isReal) /\ BaseIdx' = BaseOf(isReal) /\ Worker' = Worker
          /\ UsesCl' = UsesCl /\ Samples("spectrum")' = Samples("spectrum")
      BY <1>1 DEF SpectrumLen, BaseIdx, LenOf, BaseOf, Worker, UsesCl, Samples
    <3>4. CASE e = "skip"
      BY <3>1, <3>2, <3>3, <3>4, <1>1 DEF FallState, Fall, WaterfallOfThisFrame
    <3>5. CASE e = "have"
      BY <3>1, <3>2, <3>3, <3>5, <1>1 DEF FallState, Fall, WaterfallOfThisFrame
    <3>6. CASE e = "without"
      BY <3>1, <3>2, <3>3, <3>6, <1>1 DEF FallState, Fall, WaterfallOfThisFrame
    <3> QED
      BY <3>4, <3>5, <3>6 DEF Ends
  <2> QED
    BY <1>1, <2>1, <2>2
<1> QED
  BY <1>1, <1>2, <1>3 DEF WaterfallInv, JobKept, FallScript

-----------------------------------------------------------------------------
(* FFT engine: the waterfall outside execute() *)

\* Outside execute() the last waterfall stays what it was.
LEMMA OutsideFall ==
  ASSUME EngineInv, WaterfallInv, phase # "execute", phase' # "execute",
         phase' = "construct" => phase = "construct", phase = "construct" \/ acc' = acc,
         UNCHANGED <<machine, isReal, half_a, half_b, wanted, quantized, result>>,
         WaterfallShape'
  PROVE  WaterfallInv'
<1>1. WaterfallOfThisFrame /\ WaterfallShape
  BY DEF WaterfallInv
<1>2. CASE phase = "construct"
  <2>1. result' # "ok"
    BY <1>1, <1>2 DEF WaterfallShape
  <2> QED
    BY <2>1 DEF WaterfallInv, JobKept, FallScript, WaterfallOfThisFrame
<1>3. CASE phase # "construct"
  <2>1. /\ SpectrumLen' = SpectrumLen /\ BaseIdx' = BaseIdx /\ Worker' = Worker
        /\ UsesCl' = UsesCl /\ Samples("spectrum")' = Samples("spectrum")
    BY <1>3 DEF SpectrumLen, BaseIdx, Worker, UsesCl, Samples
  <2>2. WaterfallOfThisFrame'
    BY <1>1, <2>1 DEF WaterfallOfThisFrame
  <2> QED
    BY <2>2 DEF WaterfallInv, JobKept, FallScript
<1> QED
  BY <1>2, <1>3

\* Constructors and Drop touch no waterfall.
LEMMA LifecycleFall ==
  ASSUME EngineInv, WaterfallInv, Construct \/ ConstructFails \/ Constructed \/ Stop \/ Drop
  PROVE  WaterfallInv'
<1>1. /\ phase # "execute" /\ phase' # "execute"
      /\ phase' = "construct" => phase = "construct"
      /\ UNCHANGED <<machine, isReal, half_a, half_b, wanted, quantized, result>>
      /\ phase = "construct" \/ acc' = acc
  BY DEF Construct, ConstructFails, Constructed, Stop, Drop, config, frameVars
<1>2. WaterfallShape
  BY DEF WaterfallInv
<1>3. host = [b \in Buffers |-> host[b]] /\ dev = [b \in Buffers |-> dev[b]]
  BY DEF EngineInv, Shape
<1>4. /\ UNCHANGED <<clmem, host, dev>> \/ UploadWindow
      /\ UNCHANGED clmem
  <2>1. CASE Construct
    BY <2>1 DEF Construct, ClAcquire, Acquire, vkVars, vkWork, clVars
  <2>2. CASE ConstructFails
    BY <2>2 DEF ConstructFails, ClAcquireFails, AcquireFails, vkVars, vkWork, clVars
  <2>3. CASE Constructed \/ Stop
    BY <2>3 DEF Constructed, LeaveNew, Stop, vkVars, vkWork, clVars
  <2>4. CASE Drop
    BY <2>4 DEF Drop, Destroy, ClRelease, vkVars, vkWork, clVars
  <2> QED
    BY <2>1, <2>2, <2>3, <2>4
<1>5. \A b \in {"power", "quant"} : host'[b] = host[b] /\ dev'[b] = dev[b]
  <2>1. CASE UNCHANGED <<host, dev>>
    BY <2>1
  <2>2. CASE UploadWindow
    BY <2>2, <1>3 DEF UploadWindow, Buffers
  <2> QED
    BY <1>4, <2>1, <2>2
<1>6. WaterfallShape'
  <2>1. \A b \in {"power", "quant"} :
          /\ DOMAIN host'[b] = Positions(FftSize) /\ DOMAIN dev'[b] = Positions(FftSize)
          /\ DOMAIN clmem'[b] = Positions(FftSize)
    BY <1>2, <1>4, <1>5 DEF WaterfallShape
  <2>2. (phase' = "construct" => result' = "none") /\ wanted' \in BOOLEAN
    BY <1>1, <1>2 DEF WaterfallShape
  <2> QED
    BY <2>1, <2>2 DEF WaterfallShape
<1> QED
  BY <1>1, <1>6, OutsideFall

\* Nothing has been made before the first frame.
LEMMA InitFall == EngineInit => WaterfallInv
<1> SUFFICES ASSUME EngineInit
             PROVE  WaterfallInv
  OBVIOUS
<1>1. /\ phase = "construct" /\ result = "none" /\ wanted = FALSE
      /\ host = [fft |-> Garbage, window |-> "unset",
                 power |-> BlankPower(FftSize), quant |-> BlankBytes(FftSize)]
      /\ dev = host
      /\ clmem.power = BlankPower(FftSize) /\ clmem.quant = BlankBytes(FftSize)
  BY DEF EngineInit, VkInit, ClInit
<1>2. DOMAIN BlankPower(FftSize) = Positions(FftSize) /\ DOMAIN BlankBytes(FftSize) = Positions(FftSize)
  BY DEF BlankPower, BlankBytes
<1>3. WaterfallShape
  <2>1. \A b \in {"power", "quant"} :
          DOMAIN host[b] = Positions(FftSize) /\ DOMAIN clmem[b] = Positions(FftSize)
    BY <1>1, <1>2
  <2> QED
    BY <1>1, <2>1 DEF WaterfallShape
<1> QED
  BY <1>1, <1>3 DEF WaterfallInv, JobKept, FallScript, WaterfallOfThisFrame

\* What a place claims is untouched as long as its variables are.
LEMMA FallKept ==
  ASSUME NEW a \in Falls, FallState(a),
         UNCHANGED <<machine, acc, isReal, onError, half_a, half_b, wanted, quantized, vkVars>>,
         a[1] = "cl" => UNCHANGED <<clmem, queue>>
  PROVE  FallState(a)'
<1>1. /\ Worker' = Worker /\ UsesCl' = UsesCl /\ Samples("spectrum")' = Samples("spectrum")
      /\ UNCHANGED <<cmd, fence, rec, dirty, host, dev>>
  BY DEF Worker, UsesCl, Samples, vkVars, vkWork
<1>2. VkMade => VkMade'
  BY <1>1 DEF VkMade, Made
<1>3. a[1] = "cl" => \A k : ClMade(k) => ClMade(k)'
  BY <1>1 DEF ClMade, Made
<1> QED
  BY <1>1, <1>2, <1>3 DEF FallState

\* Nothing happens.
LEMMA StutterFall == EngineInv /\ WaterfallInv /\ UNCHANGED engineVars => WaterfallInv'
<1> SUFFICES ASSUME EngineInv, WaterfallInv, UNCHANGED engineVars
             PROVE  WaterfallInv'
  OBVIOUS
<1>1. /\ UNCHANGED <<machine, acc, isReal, phase, todo, onError, half_a, half_b, complex_frame, wanted,
                     quantized, result, vkVars, host, dev, clmem, queue>>
  BY DEF engineVars, vkVars, vkWork, clVars, machineVars
<1>2. WaterfallShape'
  BY <1>1 DEF WaterfallInv, WaterfallShape
<1>3. CASE phase # "execute"
  BY <1>1, <1>2, <1>3, OutsideFall
<1>4. CASE phase = "execute"
  <2>1. JobKept'
    BY <1>1 DEF WaterfallInv, JobKept, Worker, Samples
  <2>2. FallScript'
    <3>1. CASE result = "err"
      BY <1>1, <3>1 DEF FallScript
    <3>2. CASE result # "err"
      <4>1. PICK a \in Falls, e \in Ends : FallPath(todo, isReal, a, Fall(e)) /\ FallState(a)
        BY <1>4, <3>2 DEF WaterfallInv, FallScript
      <4>2. FallState(a)'
        BY <1>1, <4>1, FallKept
      <4> QED
        BY <1>1, <4>1, <4>2 DEF FallScript
    <3> QED
      BY <3>1, <3>2
  <2> QED
    BY <1>1, <1>2, <1>4, <2>1, <2>2 DEF WaterfallInv
<1> QED
  BY <1>3, <1>4

-----------------------------------------------------------------------------
(* FFT engine: the waterfall on a Vulkan device *)

\* A Vulkan call moves powers and bytes between host and device at most.
LEMMA VkCallBuffers ==
  ASSUME Shape, NEW c, NEW x \in Uses, NEW y \in Uses, UseStep(c, x, y), x # "queue", c[1] \notin CpuCalls,
         VkCall(c, complex_frame)
  PROVE  /\ \A b \in {"power", "quant"} : host'[b] \in {host[b], dev[b]} /\ dev'[b] \in {host[b], dev[b]}
         /\ c[1] \notin {"copy_in", "flush"} => dev' = dev
         /\ c[1] \notin {"copy_in", "invalidate"} => host' = host
         /\ c[1] = "copy_in" => host'.fft = complex_frame
         /\ c = <<"flush", "fft">> => dev'.fft = host.fft
         /\ c = <<"invalidate", "quant">> => host'.quant = dev.quant
<1> USE DEF IdleCalls, ClCalls, CpuCalls, vkVars, vkObjects, vkWork
<1>1. /\ host = [b \in Buffers |-> host[b]] /\ dev = [b \in Buffers |-> dev[b]]
      /\ coherent => host = dev
      /\ Buffers = {"fft", "window", "power", "quant"}
  BY DEF Shape, Buffers
<1>2. \A v, w : /\ <<v, w>>[1] = v /\ <<v, w>>[2] = w
  OBVIOUS
<1>3. CASE c[1] = "copy_in"
  <2>1. /\ host' = [host EXCEPT !["fft"] = complex_frame]
        /\ dev' = IF coherent THEN [dev EXCEPT !["fft"] = complex_frame] ELSE dev
    BY <1>3 DEF VkCall, CopyIn, HostWrites
  <2> QED
    BY <1>1, <1>2, <1>3, <2>1
<1>4. CASE c[1] = "flush"
  <2>1. /\ dev' = IF coherent THEN dev ELSE [dev EXCEPT ![c[2]] = host[c[2]]]
        /\ host' = host
    BY <1>4 DEF VkCall, Flush
  <2> QED
    BY <1>1, <1>2, <1>4, <2>1
<1>5. CASE c[1] = "invalidate"
  <2>1. /\ host' = IF coherent THEN host ELSE [host EXCEPT ![c[2]] = dev[c[2]]]
        /\ dev' = dev
    BY <1>5 DEF VkCall, Invalidate
  <2> QED
    BY <1>1, <1>2, <1>5, <2>1
<1>6. CASE c[1] \notin {"copy_in", "flush", "invalidate"}
  <2>1. c[1] \in {"read_quant", "read_fft", "max_power", "reset_fences", "reset_cmd", "begin", "record",
                  "append", "end", "submit", "wait"}
    BY <1>6 DEF UseStep
  <2>2. host' = host /\ dev' = dev
    BY <2>1 DEF VkCall, ResetFences, SetCmd, Submit, WaitFence
  <2> QED
    BY <1>2, <1>6, <2>2
<1> QED
  BY <1>3, <1>4, <1>5, <1>6

\* The first command of the Vulkan pyramid makes the powers.
LEMMA PyramidPlaces ==
  ASSUME NEW real
  PROVE  /\ Sequence(VkPyramid(real)) /\ Len(VkPyramid(real)) = 3 * Levels
         /\ VkPyramid(real) # <<WindowCmd, Barrier("fft")>>
         /\ \A l \in 0 .. Levels - 1 :
              /\ VkPyramid(real)[3 * l + 1] = LevelCmd(LenOf(real), BaseOf(real), l)
              /\ VkPyramid(real)[3 * l + 2] = Barrier("power")
              /\ VkPyramid(real)[3 * l + 3] = Barrier("quant")
<1> DEFINE s == VkPyramid(real)
<1>1. DOMAIN s = 1 .. 3 * Levels /\ s = [i \in 1 .. 3 * Levels |-> s[i]] /\ 3 * Levels \in Nat
  BY DEF VkPyramid, PyramidCmds
<1>2. Sequence(s) /\ Len(s) = 3 * Levels
  BY ONLY <1>1, MakeSequence
<1>3. ASSUME NEW l \in 0 .. Levels - 1
      PROVE  /\ s[3 * l + 1] = LevelCmd(LenOf(real), BaseOf(real), l)
             /\ s[3 * l + 2] = Barrier("power")
             /\ s[3 * l + 3] = Barrier("quant")
  <2>1. /\ 3 * l + 1 \in 1 .. 3 * Levels /\ 3 * l + 2 \in 1 .. 3 * Levels /\ 3 * l + 3 \in 1 .. 3 * Levels
        /\ (3 * l + 1) % 3 = 1 /\ (3 * l + 1) \div 3 = l /\ (3 * l + 2) % 3 = 2 /\ (3 * l + 3) % 3 = 0
    OBVIOUS
  <2> QED
    BY <2>1 DEF VkPyramid, PyramidCmds
<1>4. s # <<WindowCmd, Barrier("fft")>>
  <2>1. s[3 * 0 + 1] = LevelCmd(LenOf(real), BaseOf(real), 0)
    BY <1>3
  <2>2. s[1].op = "power"
    BY <2>1 DEF LevelCmd, PowerCmd
  <2>3. <<WindowCmd, Barrier("fft")>>[1].op = "window"
    BY DEF WindowCmd
  <2> HIDE DEF s
  <2> QED
    BY <2>2, <2>3
<1> QED
  BY <1>2, <1>3, <1>4

\* What a Vulkan call makes of the waterfall on its way.
LEMMA VkCallFall ==
  ASSUME Shape, WaterfallShape, NEW c, NEW x \in Uses, NEW y \in Uses, NEW d \in Contents, NEW f \in Contents,
         UseStep(c, x, y), ContentStep(c, x, d, f), UseState(x), ContentState(d), HandlerOK(d),
         ~UsesCl, c[1] \notin CpuCalls, VkCall(c, complex_frame), ReadBack(c),
         Worker => complex_frame = Samples("spectrum"),
         NEW a \in Falls, NEW m \in Falls, FallVk(c, isReal, a, m), FallState(a),
         UNCHANGED <<machine, acc, isReal, onError, half_a, half_b, wanted>>
  PROVE  FallState(m)'
<1> USE DEF vkVars, vkObjects, vkWork
<1> DEFINE n == LenOf(isReal)
           base == BaseOf(isReal)
<1>1. /\ Worker' = Worker /\ \A s : Samples(s)' = Samples(s)
      /\ x # "queue" /\ c[1] # "read"
  <2>1. x # "queue"
    BY DEF UseState
  <2> QED
    BY <2>1 DEF Worker, Samples, UseStep, CpuCalls, ClCalls, IdleCalls
<1>2. /\ \A b \in {"power", "quant"} : host'[b] \in {host[b], dev[b]} /\ dev'[b] \in {host[b], dev[b]}
      /\ c[1] \notin {"copy_in", "flush"} => dev' = dev
      /\ c[1] \notin {"copy_in", "invalidate"} => host' = host
      /\ c[1] = "copy_in" => host'.fft = complex_frame
      /\ c = <<"flush", "fft">> => dev'.fft = host.fft
      /\ c = <<"invalidate", "quant">> => host'.quant = dev.quant
  BY <1>1, VkCallBuffers
<1>3. \A v, w : <<v>>[1] = v /\ <<v, w>>[1] = v
  OBVIOUS
<1>4. \A z : Fall(z)[1] = z /\ Fall(z)[2] = 0 /\ \A v : Fall(z) = Fall(v) => z = v
  BY DEF Fall
<1>5. LevelStart(n, 0) = 0 /\ LevelStart(n, Levels) \in Nat /\ n \in Nat \ {0} /\ base \in Nat
  BY LevelRecursion, Sizes
<1>6. \/ Worker \/ dev.fft = Samples("spectrum")
      \/ c[1] # "record" \/ a # Fall("due") \/ c[2] # VkPyramid(isReal)
  <2> SUFFICES ASSUME ~Worker, c[1] = "record", c[2] = VkPyramid(isReal)
               PROVE  dev.fft = Samples("spectrum")
    OBVIOUS
  <2>1. d # "any"
    BY DEF HandlerOK
  <2>2. VkContent(c, x, d, f)
    BY <1>1, <2>1 DEF ContentStep
  <2>3. c # <<"record", <<WindowCmd, Barrier("fft")>> >>
    BY PyramidPlaces
  <2>4. d = "spectrum_there"
    BY <2>2, <2>3, <1>3 DEF VkContent
  <2> QED
    BY <2>4 DEF ContentState
<1>7. CASE c[1] = "copy_in" /\ a = Fall("job") /\ m = Fall("vk_in")
  <2>1. Worker
    BY <1>7 DEF FallState
  <2> QED
    BY <1>1, <1>2, <1>4, <1>7, <2>1 DEF FallState
<1>8. CASE c = <<"flush", "fft">> /\ a = Fall("vk_in") /\ m = Fall("vk_there")
  <2>1. Worker /\ host.fft = Samples("spectrum")
    BY <1>8 DEF FallState
  <2> QED
    BY <1>1, <1>2, <1>4, <1>8, <2>1 DEF FallState
<1>9. CASE c[1] \in {"reset_fences", "reset_cmd", "begin"} /\ a = Fall("vk_there") /\ m = a
  <2>1. Worker /\ dev.fft = Samples("spectrum")
    BY <1>9 DEF FallState
  <2> QED
    BY <1>1, <1>2, <1>4, <1>9, <2>1 DEF FallState
<1>10. CASE /\ c = <<"record", VkPyramid(isReal)>> /\ a \in {Fall("due"), Fall("vk_there")}
            /\ m = Fall("vk_rec")
  <2>1. c[1] = "record" /\ c[2] = VkPyramid(isReal)
    BY <1>10
  <2>2. x = "begun" /\ rec = <<>> /\ rec' = rec \o VkPyramid(isReal) /\ cmd' = "recording" /\ dev' = dev
    BY <2>1, <1>1 DEF UseStep, UseState, VkCall, SetCmd, CpuCalls, ClCalls, IdleCalls
  <2>3. rec' = VkPyramid(isReal)
    BY <2>2, PyramidPlaces, ConcatEmptySeq DEF Sequence
  <2>4. dev.fft = Samples("spectrum")
    <3>1. CASE a = Fall("vk_there")
      BY <3>1 DEF FallState
    <3>2. CASE a = Fall("due")
      <4>1. ~Worker
        BY <3>2 DEF FallState
      <4> QED
        BY <3>2, <4>1, <2>1, <1>6
    <3> QED
      BY <1>10, <3>1, <3>2
  <2>5. Made(dev, 0)
    BY <1>5, NothingMade DEF Made
  <2>6. Len(rec') = 3 * Levels - 0
    BY <2>3, PyramidPlaces
  <2>7. \A i \in 1 .. 3 * Levels - 0 : rec'[i] = VkPyramid(isReal)[0 + i]
    BY <2>3
  <2>8. Made(dev, LevelStart(n, (0 + 2) \div 3))'
    <3>1. (0 + 2) \div 3 = 0
      OBVIOUS
    <3> QED
      BY <1>1, <1>5, <2>2, <2>5, <3>1 DEF Made
  <2>9. VkMade'
    <3>1. 0 \in 0 .. 3 * Levels
      OBVIOUS
    <3> QED
      BY <1>1, <2>2, <2>4, <2>6, <2>7, <2>8, <3>1 DEF VkMade
  <2> QED
    BY <1>4, <1>10, <2>9 DEF FallState
<1>11. CASE c[1] \in {"end", "submit"} /\ a = Fall("vk_rec") /\ m = a
  <2>1. /\ rec' = rec /\ dev' = dev
        /\ cmd' = "pending" => dirty' = {}
    BY <1>11 DEF VkCall, SetCmd, Submit
  <2>2. VkMade
    BY <1>11 DEF FallState
  <2>3. VkMade'
    BY <1>1, <2>1, <2>2 DEF VkMade, Made
  <2> QED
    BY <1>4, <1>11, <2>3 DEF FallState
<1>12. CASE c[1] = "wait" /\ a = Fall("vk_rec") /\ m = Fall("vk_made")
  <2>1. UNCHANGED vkVars /\ fence = "signaled" /\ x = "submitted"
    BY <1>12 DEF VkCall, WaitFence, UseStep, CpuCalls, ClCalls, IdleCalls
  <2>2. rec = <<>> /\ Len(rec) = 0
    BY <2>1 DEF UseState, Shape
  <2>3. PICK p \in 0 .. 3 * Levels :
          Len(rec) = 3 * Levels - p /\ Made(dev, LevelStart(n, (p + 2) \div 3))
    BY <1>12 DEF FallState, VkMade
  <2>4. p = 3 * Levels /\ (p + 2) \div 3 = Levels
    BY <2>2, <2>3
  <2>5. MadeUpTo(dev.quant, LevelStart(n, Levels), Samples("spectrum"), n, base)
    BY <2>3, <2>4 DEF Made
  <2> QED
    BY <1>1, <1>4, <1>12, <2>1, <2>5 DEF FallState
<1>13. CASE c = <<"invalidate", "power">> /\ a = Fall("vk_made") /\ m = a
  <2>1. dev' = dev
    BY <1>2, <1>3, <1>13
  <2> QED
    BY <1>1, <1>4, <1>13, <2>1 DEF FallState
<1>14. CASE c = <<"invalidate", "quant">> /\ a = Fall("vk_made") /\ m = Fall("vk_visible")
  <2>1. host'.quant = dev.quant
    BY <1>2, <1>14
  <2>2. MadeUpTo(dev.quant, LevelStart(n, Levels), Samples("spectrum"), n, base)
    BY <1>14 DEF FallState
  <2> QED
    BY <1>1, <1>4, <1>14, <2>1, <2>2 DEF FallState
<1>15. CASE c[1] = "read_quant" /\ a = Fall("vk_visible") /\ m = Fall("have")
  <2>1. SpectrumLen = n
    BY DEF SpectrumLen, LenOf
  <2>2. quantized' = Concat(host.quant, n)
    <3>1. quantized' = Concat(host.quant, SpectrumLen)
      BY <1>3, <1>15 DEF ReadBack, Read
    <3> QED
      BY <2>1, <3>1
  <2>3. MadeUpTo(host.quant, LevelStart(n, Levels), Samples("spectrum"), n, base)
    BY <1>15 DEF FallState
  <2>4. CoversBand(quantized', Samples("spectrum"), n, base)
    BY <1>5, <2>2, <2>3, AllMade
  <2>5. quantized' # NoFrame
    <3>1. DOMAIN Concat(host.quant, n) = 0 .. TotalLen(n) - 1
      BY Zenon DEF Concat
    <3> QED
      BY <2>2, <3>1, Something
  <2> QED
    BY <1>1, <1>4, <1>15, <2>4, <2>5 DEF FallState
<1> QED
  BY <1>7, <1>8, <1>9, <1>10, <1>11, <1>12, <1>13, <1>14, <1>15 DEF FallVk

\* A Vulkan call succeeds.
LEMMA VkStepFall == EngineInv /\ WaterfallInv /\ GpuStep /\ ~UsesCl => WaterfallInv'
<1> SUFFICES ASSUME EngineInv, WaterfallInv, GpuStep, ~UsesCl
             PROVE  WaterfallInv'
  OBVIOUS
<1> DEFINE c == Head(todo)
<1>1. /\ phase = "execute" /\ phase' = phase /\ todo # <<>> /\ todo' = Tail(todo) /\ c[1] \notin CpuCalls
      /\ VkCall(c, complex_frame) /\ UNCHANGED clVars /\ ReadBack(c)
      /\ UNCHANGED <<machine, acc, isReal, onError, half_a, half_b, wanted, result>>
  BY DEF GpuStep, config
<1>2. PICK x \in Uses, y \in Uses, d \in Contents, f \in Contents, a \in Falls, m \in Falls, e \in Ends :
        /\ UseStep(c, x, y) /\ ContentStep(c, x, d, f)
        /\ UseState(x) /\ ContentState(d) /\ HandlerOK(d)
        /\ FallLeads(c, isReal, a, m) /\ FallPath(Tail(todo), isReal, m, Fall(e)) /\ FallState(a)
  BY <1>1, NextFall
<1>3. Shape /\ WaterfallShape /\ JobKept
  BY <1>1, NextFall
<1>4. Worker => complex_frame = Samples("spectrum") /\ c[1] \in JobCalls
  BY <1>1, <1>3, JobCall
<1> HIDE DEF c
<1>5. x # "queue" /\ c[1] \notin {"kernel", "read"}
  BY <1>1, <1>2 DEF UseState, UseStep, CpuCalls, ClCalls, IdleCalls
<1>6. Worker => complex_frame' = complex_frame
  <2>1. c # Read("buf")
    BY <1>5 DEF Read
  <2> QED
    BY <1>1, <1>4, <2>1 DEF ReadBack, JobCalls
<1>7. \A b \in {"power", "quant"} : host'[b] \in {host[b], dev[b]} /\ dev'[b] \in {host[b], dev[b]}
  BY <1>1, <1>2, <1>3, <1>5, VkCallBuffers
<1>8. WaterfallShape'
  <2>1. \A b \in {"power", "quant"} :
          /\ DOMAIN host'[b] = Positions(FftSize) /\ DOMAIN dev'[b] = Positions(FftSize)
          /\ DOMAIN clmem'[b] = Positions(FftSize)
    BY <1>1, <1>3, <1>7 DEF WaterfallShape, clVars
  <2>2. (phase' = "construct" => result' = "none") /\ wanted' \in BOOLEAN
    BY <1>1, <1>3 DEF WaterfallShape
  <2> QED
    BY <2>1, <2>2 DEF WaterfallShape
<1>9. FallState(m)'
  <2>1. CASE FallRest(c, a, m)
    <3>1. quantized' = quantized
      BY <2>1, <1>1 DEF FallRest, Delivers, ReadBack
    <3> QED
      BY <2>1, <3>1, <1>1, <1>2, RestKept DEF FallRest
  <2>2. CASE FallVk(c, isReal, a, m)
    BY <2>2, <1>1, <1>2, <1>3, <1>4, VkCallFall
  <2>3. ~FallCpu(c, isReal, a, m)
    BY <1>1 DEF FallCpu, CpuCalls
  <2>4. ~FallCl(c, isReal, a, m)
    BY <1>5, KernelsOnly
  <2> QED
    BY <1>2, <2>1, <2>2, <2>3, <2>4 DEF FallLeads
<1> QED
  BY <1>1, <1>2, <1>6, <1>8, <1>9, FallAdvance

\* The kernels of the Vulkan pyramid keep the size of the buffers, whatever
\* they are run on ...
LEMMA KernelSizes ==
  ASSUME Shape, WaterfallShape, NEW k, k.op \in VkKernels, k.op # "barrier"
  PROVE  /\ DOMAIN KernelResult(k).power = Positions(FftSize)
         /\ DOMAIN KernelResult(k).quant = Positions(FftSize)
<1>1. dev = [b \in Buffers |-> dev[b]] /\ Buffers = {"fft", "window", "power", "quant"}
  BY DEF Shape, Buffers
<1>2. DOMAIN dev.power = Positions(FftSize) /\ DOMAIN dev.quant = Positions(FftSize)
  BY DEF WaterfallShape
<1>3. CASE k.op = "window"
  <2>1. KernelResult(k) = [dev EXCEPT !.fft = ApplyWindow(Seen("fft"))]
    BY <1>3 DEF KernelResult
  <2> QED
    BY <2>1, <1>1, <1>2
<1>4. CASE k.op = "transform"
  <2>1. KernelResult(k) = [dev EXCEPT !.fft = ApplyTransform(Seen("fft"))]
    BY <1>4 DEF KernelResult
  <2> QED
    BY <2>1, <1>1, <1>2
<1>5. CASE k.op = "power"
  <2> DEFINE p == PowerRun(dev.power, Seen("fft"), k.n, k.base, 0, k.n)
             q == ByteRun(dev.quant, p, 0, k.n, 0)
  <2>1. KernelResult(k) = [dev EXCEPT !.power = p, !.quant = q]
    BY <1>5 DEF KernelResult
  <2>2. DOMAIN p = DOMAIN dev.power /\ DOMAIN q = DOMAIN dev.quant
    BY DEF PowerRun, ByteRun
  <2> HIDE DEF p, q
  <2> QED
    BY <2>1, <2>2, <1>1, <1>2
<1>6. CASE k.op = "half"
  <2> DEFINE p == HalfRun(dev.power, Seen("power"), k.src, k.dst, k.len)
             q == ByteRun(dev.quant, p, k.dst, k.len, k.drop)
  <2>1. KernelResult(k) = [dev EXCEPT !.power = p, !.quant = q]
    BY <1>6 DEF KernelResult
  <2>2. DOMAIN p = DOMAIN dev.power /\ DOMAIN q = DOMAIN dev.quant
    BY DEF HalfRun, ByteRun
  <2> HIDE DEF p, q
  <2> QED
    BY <2>1, <2>2, <1>1, <1>2
<1> QED
  BY <1>3, <1>4, <1>5, <1>6 DEF VkKernels

\* ... and the one of level l makes that level, if the ones before are made
\* and it sees what they have written.
LEMMA LevelMade ==
  ASSUME Shape, WaterfallShape, NEW l \in 0 .. Levels - 1,
         dev.fft = Samples("spectrum"), "fft" \notin dirty, "power" \notin dirty,
         Made(dev, LevelStart(LenOf(isReal), l))
  PROVE  LET k == LevelCmd(LenOf(isReal), BaseOf(isReal), l) IN
         /\ k.op \in {"power", "half"}
         /\ KernelResult(k).fft = dev.fft
         /\ Made(KernelResult(k), LevelStart(LenOf(isReal), l + 1))
<1> DEFINE n == LenOf(isReal)
           base == BaseOf(isReal)
           sig == Samples("spectrum")
           k == LevelCmd(n, base, l)
<1>1. dev = [b \in Buffers |-> dev[b]] /\ Buffers = {"fft", "window", "power", "quant"}
  BY DEF Shape, Buffers
<1>2. DOMAIN dev.power = Positions(FftSize) /\ DOMAIN dev.quant = Positions(FftSize)
  BY DEF WaterfallShape
<1>3. /\ n \in Nat \ {0} /\ n \in Nat /\ base \in Nat
      /\ 0 .. 2 * n - 1 \subseteq Positions(FftSize) /\ 0 .. n - 1 \subseteq Positions(FftSize)
  BY Sizes
<1>4. /\ MadeUpTo(dev.power, LevelStart(n, l), sig, n, base)
      /\ MadeUpTo(dev.quant, LevelStart(n, l), sig, n, base)
  BY DEF Made
<1>5. Seen("fft") = sig /\ Seen("power") = dev.power
  BY DEF Seen
<1>6. LevelStart(n, l + 1) = LevelStart(n, l) + LevelLen(n, l)
  BY NextLevel
<1>7. LevelStart(n, l) \in Nat /\ LevelLen(n, l) \in Nat
  BY Sizes
<1>8. CASE l = 0
  <2> DEFINE p == PowerRun(dev.power, sig, n, base, 0, n)
             q == ByteRun(dev.quant, p, 0, n, 0)
  <2>1. k = [op |-> "power", n |-> n, base |-> base]
    BY <1>8 DEF LevelCmd, PowerCmd
  <2>2. k.op = "power" /\ k.n = n /\ k.base = base
    BY <2>1
  <2>3. KernelResult(k) = [dev EXCEPT !.power = p, !.quant = q]
    <3> HIDE DEF k, sig
    <3> QED
      BY <2>2, <1>5 DEF KernelResult
  <2>4. LevelStart(n, 0) = 0 /\ LevelLen(n, 0) = n
    BY LevelRecursion
  <2>5. MadeUpTo(p, n, sig, n, base)
    BY <1>2, <1>3, PowerMade
  <2>6. MadeUpTo(dev.quant, 0, sig, n, base)
    BY <1>3, NothingMade
  <2> HIDE DEF p
  <2>7. 0 + n = n
    BY <1>3
  <2>8. MadeUpTo(q, n, sig, n, base)
    <3>1. MadeUpTo(ByteRun(dev.quant, p, 0, n, 0), 0 + n, sig, n, base)
      BY <1>2, <1>3, <2>5, <2>6, <2>7, BytesMade
    <3> QED
      BY <3>1, <2>7
  <2>9. LevelStart(n, l + 1) = n
    BY <1>6, <1>8, <2>4, <2>7
  <2> HIDE DEF q, k, n, base, sig
  <2>10. KernelResult(k).power = p /\ KernelResult(k).quant = q /\ KernelResult(k).fft = dev.fft
    BY <2>3, <1>1
  <2>11. Made(KernelResult(k), LevelStart(n, l + 1))
    BY <2>5, <2>8, <2>9, <2>10 DEF Made, n, base, sig
  <2> QED
    BY <2>2, <2>10, <2>11 DEF k, n, base
<1>9. CASE l # 0
  <2> DEFINE p == HalfRun(dev.power, dev.power, LevelStart(n, l - 1), LevelStart(n, l), LevelLen(n, l))
             q == ByteRun(dev.quant, p, LevelStart(n, l), LevelLen(n, l), DropCpu(l))
  <2>1. k = [op |-> "half", src |-> LevelStart(n, l - 1), dst |-> LevelStart(n, l),
             len |-> LevelLen(n, l), drop |-> DropCpu(l)]
    BY <1>9 DEF LevelCmd, HalfCmd
  <2>2. /\ k.op = "half" /\ k.src = LevelStart(n, l - 1) /\ k.dst = LevelStart(n, l)
        /\ k.len = LevelLen(n, l) /\ k.drop = DropCpu(l)
    BY <2>1
  <2>3. KernelResult(k) = [dev EXCEPT !.power = p, !.quant = q]
    <3> HIDE DEF k, sig
    <3> QED
      BY <2>2, <1>5 DEF KernelResult
  <2>4. l \in 1 .. Levels - 1
    BY <1>9
  <2>5. MadeUpTo(p, LevelStart(n, l + 1), sig, n, base)
    BY <1>2, <1>3, <1>4, <2>4, HalfMade
  <2> HIDE DEF p
  <2>6. MadeUpTo(q, LevelStart(n, l) + LevelLen(n, l), sig, n, base)
    BY <1>2, <1>3, <1>4, <1>6, <1>7, <2>5, BytesMade
  <2> HIDE DEF q, k, n, base, sig
  <2>7. KernelResult(k).power = p /\ KernelResult(k).quant = q /\ KernelResult(k).fft = dev.fft
    BY <2>3, <1>1
  <2>8. Made(KernelResult(k), LevelStart(n, l + 1))
    BY <2>5, <2>6, <2>7, <1>6 DEF Made, n, base, sig
  <2> QED
    BY <2>2, <2>7, <2>8 DEF k, n, base
<1> QED
  BY <1>8, <1>9

\* The Vulkan device does the next command of the pyramid.
LEMMA VkMadeMoves ==
  ASSUME Shape, WaterfallShape, VkMade, DeviceStep, UNCHANGED <<isReal, half_a, half_b>>
  PROVE  VkMade'
<1> DEFINE n == LenOf(isReal)
           k == Head(rec)
<1>1. /\ cmd = "pending" /\ rec' = Tail(rec)
      /\ dirty' = IF k.op = "barrier" THEN dirty \ {k.buf}
                  ELSE dirty \cup (IF k.op \in {"power", "half"} THEN {"power", "quant"} ELSE {"fft"})
      /\ dev' = IF k.op = "barrier" THEN dev ELSE KernelResult(k)
  BY DEF DeviceStep
<1>2. Sequence(rec) /\ rec # <<>>
  BY <1>1 DEF Shape
<1>3. PICK p \in 0 .. 3 * Levels :
       /\ Len(rec) = 3 * Levels - p
       /\ \A i \in 1 .. 3 * Levels - p : rec[i] = VkPyramid(isReal)[p + i]
       /\ p % 3 # 1 => "power" \notin dirty
       /\ Made(dev, LevelStart(n, (p + 2) \div 3))
  BY <1>1 DEF VkMade
<1>4. "fft" \notin dirty /\ dev.fft = Samples("spectrum")
  BY <1>1 DEF VkMade
<1>5. /\ k = rec[1] /\ Len(rec') = Len(rec) - 1 /\ Len(rec) \in Nat \ {0}
      /\ \A i \in 1 .. Len(rec) - 1 : rec'[i] = rec[i + 1]
  BY <1>1, <1>2, TailSequence, SequenceFacts
<1>6. /\ p \in 0 .. 3 * Levels - 1 /\ k = VkPyramid(isReal)[p + 1]
      /\ p + 1 \in 0 .. 3 * Levels
  BY <1>3, <1>5
<1> HIDE DEF k
<1>7. Len(rec') = 3 * Levels - (p + 1)
  BY <1>3, <1>5
<1>8. \A i \in 1 .. 3 * Levels - (p + 1) : rec'[i] = VkPyramid(isReal)[(p + 1) + i]
  <2> TAKE i \in 1 .. 3 * Levels - (p + 1)
  <2>1. i \in 1 .. Len(rec) - 1 /\ i + 1 \in 1 .. 3 * Levels - p /\ p + (i + 1) = (p + 1) + i
    BY <1>3
  <2> QED
    BY <2>1, <1>3, <1>5
<1>9. Samples("spectrum")' = Samples("spectrum")
  BY DEF Samples
<1>10. PICK l \in 0 .. Levels - 1 : p \in {3 * l, 3 * l + 1, 3 * l + 2}
  <2>1. p \div 3 \in 0 .. Levels - 1 /\ p \in {3 * (p \div 3), 3 * (p \div 3) + 1, 3 * (p \div 3) + 2}
    BY <1>6
  <2> QED
    BY <2>1
<1>11. /\ dev'.fft = Samples("spectrum") /\ "fft" \notin dirty'
       /\ (p + 1) % 3 # 1 => "power" \notin dirty'
       /\ Made(dev', LevelStart(n, ((p + 1) + 2) \div 3))
  <2>1. CASE p = 3 * l
    <3>1. k = LevelCmd(LenOf(isReal), BaseOf(isReal), l)
      BY <1>6, <2>1, PyramidPlaces
    <3>2. (p + 2) \div 3 = l /\ ((p + 1) + 2) \div 3 = l + 1 /\ p % 3 # 1 /\ (p + 1) % 3 = 1
      BY <2>1
    <3>3. Made(dev, LevelStart(LenOf(isReal), l)) /\ "power" \notin dirty
      BY <1>3, <3>2
    <3>4. /\ k.op \in {"power", "half"} /\ KernelResult(k).fft = dev.fft
          /\ Made(KernelResult(k), LevelStart(n, l + 1))
      BY <1>4, <3>1, <3>3, LevelMade
    <3>5. dev' = KernelResult(k) /\ dirty' = dirty \cup {"power", "quant"}
      BY <1>1, <3>4
    <3> QED
      BY <1>4, <3>2, <3>4, <3>5
  <2>2. CASE p = 3 * l + 1
    <3>1. k = Barrier("power")
      <4>1. p + 1 = 3 * l + 2
        BY <2>2
      <4> QED
        BY <1>6, <4>1, PyramidPlaces
    <3>2. dev' = dev /\ dirty' = dirty \ {"power"}
      BY <1>1, <3>1 DEF Barrier
    <3>3. (p + 2) \div 3 = l + 1 /\ ((p + 1) + 2) \div 3 = l + 1
      BY <2>2
    <3> QED
      BY <1>3, <1>4, <3>2, <3>3
  <2>3. CASE p = 3 * l + 2
    <3>1. k = Barrier("quant")
      <4>1. p + 1 = 3 * l + 3
        BY <2>3
      <4> QED
        BY <1>6, <4>1, PyramidPlaces
    <3>2. dev' = dev /\ dirty' = dirty \ {"quant"}
      BY <1>1, <3>1 DEF Barrier
    <3>3. (p + 2) \div 3 = l + 1 /\ ((p + 1) + 2) \div 3 = l + 1 /\ p % 3 # 1
      BY <2>3
    <3> QED
      BY <1>3, <1>4, <3>2, <3>3
  <2> QED
    BY <1>10, <2>1, <2>2, <2>3
<1>12. Made(dev, LevelStart(n, ((p + 1) + 2) \div 3))'
  BY <1>9, <1>11 DEF Made
<1> QED
  BY <1>6, <1>7, <1>8, <1>9, <1>11, <1>12 DEF VkMade

\* The Vulkan device executes the next command of its buffer.
LEMMA VkDeviceFall == EngineInv /\ WaterfallInv /\ VkDevice => WaterfallInv'
<1> SUFFICES ASSUME EngineInv, WaterfallInv, VkDevice
             PROVE  WaterfallInv'
  OBVIOUS
<1>1. /\ DeviceStep /\ cmd = "pending"
      /\ UNCHANGED <<clVars, machine, acc, isReal, phase, todo, onError, half_a, half_b, complex_frame,
                     wanted, quantized, result>>
  BY DEF VkDevice, DeviceStep, machineVars
<1>2. phase = "execute" /\ result = "none" /\ Shape
  BY <1>1 DEF EngineInv, OutOfScript, InScript
<1>3. todo # <<>>
  <2>1. PICK x \in Uses, d \in Contents : Path(todo, <<x, d>>, End) /\ UseState(x)
    BY <1>2 DEF EngineInv, InScript
  <2>2. x = "submitted"
    BY <1>1, <2>1 DEF UseState, Uses
  <2> QED
    BY <2>1, <2>2, PathEnd DEF End
<1> DEFINE c == Head(todo)
<1>4. PICK x \in Uses, y \in Uses, a \in Falls, m \in Falls, e \in Ends :
        /\ UseStep(c, x, y) /\ UseState(x)
        /\ FallLeads(c, isReal, a, m) /\ FallPath(Tail(todo), isReal, m, Fall(e)) /\ FallState(a)
        /\ FallPath(todo, isReal, a, Fall(e))
  BY <1>2, <1>3, NextFall
<1>5. Shape /\ WaterfallShape /\ JobKept
  BY <1>2, <1>3, NextFall
<1> HIDE DEF c
<1>6. x = "submitted"
  BY <1>1, <1>4 DEF UseState, Uses
<1>7. c[1] = "wait"
  BY <1>4, <1>6 DEF UseStep
<1>8. WaterfallShape'
  <2> DEFINE k == Head(rec)
  <2>1. /\ host' = IF coherent THEN dev' ELSE host
        /\ dev' = IF k.op = "barrier" THEN dev ELSE KernelResult(k)
    BY <1>1 DEF DeviceStep
  <2>2. k.op \in VkKernels
    <3>1. Sequence(rec) /\ rec # <<>>
      BY <1>1, <1>2 DEF Shape
    <3>2. k = rec[1] /\ 1 \in DOMAIN rec
      BY <3>1, TailSequence, SequenceFacts
    <3> QED
      BY <3>2, <1>2 DEF Shape
  <2> HIDE DEF k
  <2>3. \A b \in {"power", "quant"} :
          DOMAIN dev[b] = Positions(FftSize) /\ DOMAIN host[b] = Positions(FftSize)
    BY <1>5 DEF WaterfallShape
  <2>4. \A b \in {"power", "quant"} : DOMAIN dev'[b] = Positions(FftSize)
    BY <1>5, <2>1, <2>2, <2>3, KernelSizes
  <2>5. \A b \in {"power", "quant"} : DOMAIN host'[b] = Positions(FftSize)
    BY <2>1, <2>3, <2>4
  <2>6. \A b \in {"power", "quant"} : DOMAIN clmem'[b] = Positions(FftSize)
    BY <1>1, <1>5 DEF WaterfallShape, clVars
  <2>7. (phase' = "construct" => result' = "none") /\ wanted' \in BOOLEAN
    BY <1>1, <1>5 DEF WaterfallShape
  <2> QED
    BY <2>4, <2>5, <2>6, <2>7 DEF WaterfallShape
<1>9. FallState(a)'
  <2>1. CASE FallRest(c, a, m)
    BY <2>1, <1>1, <1>4, RestKept DEF FallRest
  <2>2. CASE FallVk(c, isReal, a, m)
    <3>1. a = Fall("vk_rec")
      BY <2>2, <1>7 DEF FallVk
    <3>2. VkMade
      BY <3>1, <1>4 DEF FallState
    <3>3. VkMade'
      BY <3>2, <1>1, <1>5, VkMadeMoves
    <3> QED
      BY <3>1, <3>3 DEF FallState, Fall
  <2>3. ~FallCpu(c, isReal, a, m)
    BY <1>7 DEF FallCpu
  <2>4. ~FallCl(c, isReal, a, m)
    BY <1>7, KernelsOnly
  <2> QED
    BY <1>4, <2>1, <2>2, <2>3, <2>4 DEF FallLeads
<1>10. JobKept' /\ FallScript'
  <2>1. JobKept'
    BY <1>1, <1>5 DEF JobKept, Worker, Samples
  <2>2. FallScript'
    <3>1. todo' = todo /\ isReal' = isReal
      BY <1>1
    <3>2. FallPath(todo, isReal, a, Fall(e))
      BY <1>4
    <3> QED
      BY <3>1, <3>2, <1>9 DEF FallScript
  <2> QED
    BY <2>1, <2>2
<1> QED
  BY <1>1, <1>2, <1>8, <1>10 DEF WaterfallInv

-----------------------------------------------------------------------------
(* FFT engine: the waterfall on an OpenCL device *)

\* Where the OpenCL kernels write, one after the other.
LEMMA ClEnds ==
  ASSUME NEW real
  PROVE  LET n == LenOf(real)
             h == IF BaseOf(real) \in 1 .. n - 1 THEN 2 ELSE 1
         IN  /\ Len(ClCmds(real)) = h + Levels - 1
             /\ ClEnd(real, 0) = 0
             /\ h = 2 => ClEnd(real, 1) = n - BaseOf(real)
             /\ \A l \in 1 .. Levels : ClEnd(real, h + l - 1) = LevelStart(n, l)
<1> DEFINE n == LenOf(real)
           base == BaseOf(real)
           h == IF base \in 1 .. n - 1 THEN 2 ELSE 1
           s == ClCmds(real)
<1>1. /\ Len(s) = h + Levels - 1
      /\ h = 2 => /\ s[1] = ClPower(SrcOf(real), base, 0, n - base)
                  /\ s[2] = ClPower(SrcOf(real), 0, n - base, base)
      /\ h = 1 => s[1] = ClPower(SrcOf(real), 0, 0, n)
      /\ \A l \in 1 .. Levels - 1 :
           s[h + l] = Kernel([op |-> "half", src |-> LevelStart(n, l - 1), dst |-> LevelStart(n, l),
                              len |-> LevelLen(n, l), drop |-> DropCl(l)])
  BY ClPyramidLength
<1>2. h \in {1, 2} /\ n \in Nat \ {0} /\ base \in Nat
  BY Sizes
<1>3. \A src, first, dst, len : /\ ClPower(src, first, dst, len)[2].dst = dst
                                /\ ClPower(src, first, dst, len)[2].len = len
  BY DEF ClPower, Kernel
<1>4. \A k : Kernel(k)[2] = k
  BY DEF Kernel
<1> HIDE DEF s, h
<1>5. ClEnd(real, 0) = 0
  BY DEF ClEnd
<1>6. \A q \in Nat \ {0} : ClEnd(real, q) = s[q][2].dst + s[q][2].len
  BY DEF ClEnd, s
<1>7. h = 2 => ClEnd(real, 1) = n - base
  BY <1>1, <1>2, <1>3, <1>6
<1>8. ClEnd(real, h) = n
  <2>1. CASE h = 2
    BY <2>1, <1>1, <1>2, <1>3, <1>6
  <2>2. CASE h = 1
    BY <2>2, <1>1, <1>2, <1>3, <1>6
  <2> QED
    BY <1>2, <2>1, <2>2
<1>9. LevelStart(n, 1) = n
  <2>1. LevelStart(n, 0) = 0 /\ LevelLen(n, 0) = n
    BY LevelRecursion
  <2>2. 0 \in 0 .. Levels - 1 /\ 0 + 1 = 1
    OBVIOUS
  <2>3. LevelStart(n, 0 + 1) = LevelStart(n, 0) + LevelLen(n, 0)
    BY <2>2, NextLevel
  <2> QED
    BY <1>2, <2>1, <2>2, <2>3
<1>10. ASSUME NEW l \in 1 .. Levels
       PROVE  ClEnd(real, h + l - 1) = LevelStart(n, l)
  <2>1. CASE l = 1
    <3>1. h + l - 1 = h
      BY <1>2, <2>1
    <3> QED
      BY <2>1, <3>1, <1>8, <1>9
  <2>2. CASE l # 1
    <3>1. l - 1 \in 1 .. Levels - 1 /\ l - 1 \in 0 .. Levels - 1 /\ (l - 1) + 1 = l
          /\ h + l - 1 = h + (l - 1) /\ h + (l - 1) \in Nat \ {0}
      BY <1>2, <2>2
    <3>2. s[h + (l - 1)] =
            Kernel([op |-> "half", src |-> LevelStart(n, (l - 1) - 1), dst |-> LevelStart(n, l - 1),
                    len |-> LevelLen(n, l - 1), drop |-> DropCl(l - 1)])
      BY <1>1, <3>1
    <3>3. ClEnd(real, h + (l - 1)) = LevelStart(n, l - 1) + LevelLen(n, l - 1)
      BY <1>4, <1>6, <3>1, <3>2
    <3>4. LevelStart(n, (l - 1) + 1) = LevelStart(n, l - 1) + LevelLen(n, l - 1)
      BY <3>1, NextLevel
    <3> QED
      BY <3>1, <3>3, <3>4
  <2> QED
    BY <2>1, <2>2
<1> QED
  BY <1>1, <1>5, <1>7, <1>10 DEF s, h

\* A command of an OpenCL queue keeps the size of the buffers ...
LEMMA ClKernelSizes ==
  ASSUME Shape, WaterfallShape, NEW k, k.op \in ClCommands, NEW mem,
         k.op \in {"write", "window_real"} => k.to \notin {"power", "quant"}
  PROVE  /\ DOMAIN ClKernelResult(k, mem).power = Positions(FftSize)
         /\ DOMAIN ClKernelResult(k, mem).quant = Positions(FftSize)
<1>1. clmem = [b \in ClFields |-> clmem[b]] /\ "power" \in ClFields /\ "quant" \in ClFields
  BY DEF Shape, ClFields
<1>2. DOMAIN clmem.power = Positions(FftSize) /\ DOMAIN clmem.quant = Positions(FftSize)
  BY DEF WaterfallShape
<1>3. ASSUME NEW r, \E g, v : g \notin {"power", "quant"} /\ r = [clmem EXCEPT ![g] = v]
      PROVE  r.power = clmem.power /\ r.quant = clmem.quant
  BY <1>1, <1>3
<1>4. CASE k.op = "power"
  <2> DEFINE p == [i \in DOMAIN clmem.power |->
                     IF i \in k.dst .. k.dst + k.len - 1
                       THEN [sig |-> clmem[k.src], bins |-> {i - k.dst + k.first}]
                       ELSE clmem.power[i]]
             q == ByteRun(clmem.quant, p, k.dst, k.len, 0)
  <2>1. ClKernelResult(k, mem) = [clmem EXCEPT !.power = p, !.quant = q]
    BY <1>4 DEF ClKernelResult
  <2>2. DOMAIN p = DOMAIN clmem.power /\ DOMAIN q = DOMAIN clmem.quant
    BY DEF ByteRun
  <2> HIDE DEF p, q
  <2> QED
    BY <2>1, <2>2, <1>1, <1>2
<1>5. CASE k.op = "half"
  <2> DEFINE p == HalfRun(clmem.power, clmem.power, k.src, k.dst, k.len)
             q == ByteRun(clmem.quant, p, k.dst, k.len, k.drop)
  <2>1. ClKernelResult(k, mem) = [clmem EXCEPT !.power = p, !.quant = q]
    BY <1>5 DEF ClKernelResult
  <2>2. DOMAIN p = DOMAIN clmem.power /\ DOMAIN q = DOMAIN clmem.quant
    BY DEF HalfRun, ByteRun
  <2> HIDE DEF p, q
  <2> QED
    BY <2>1, <2>2, <1>1, <1>2
<1>6. CASE k.op \in {"write", "window_real"}
  <2>1. \E v : ClKernelResult(k, mem) = [clmem EXCEPT ![k.to] = v]
    BY <1>6 DEF ClKernelResult
  <2> QED
    BY <2>1, <1>2, <1>3, <1>6
<1>7. CASE k.op \in {"window_complex", "transform"}
  <2>1. \E v : ClKernelResult(k, mem) = [clmem EXCEPT !["buf"] = v]
    BY <1>7 DEF ClKernelResult
  <2> QED
    BY <2>1, <1>2, <1>3
<1>8. CASE k.op = "transform_real"
  <2>1. \E v : ClKernelResult(k, mem) = [clmem EXCEPT !["out"] = v]
    BY <1>8 DEF ClKernelResult
  <2> QED
    BY <2>1, <1>2, <1>3
<1> QED
  BY <1>4, <1>5, <1>6, <1>7, <1>8 DEF ClCommands

\* ... and a kernel of the pyramid puts its entries where those made before
\* end: one or two the powers, ...
LEMMA ClPowerMade ==
  ASSUME Shape, WaterfallShape, clmem[SrcOf(isReal)] = Samples("spectrum"), NEW mem,
         NEW first \in Nat, NEW m \in Nat, NEW len \in Nat, m + len <= LenOf(isReal),
         \A p \in m .. m + len - 1 : p - m + first = (p + BaseOf(isReal)) % LenOf(isReal),
         Made(clmem, m)
  PROVE  Made(ClKernelResult(ClPower(SrcOf(isReal), first, m, len)[2], mem), m + len)
<1> DEFINE n == LenOf(isReal)
           base == BaseOf(isReal)
           sig == Samples("spectrum")
           src == SrcOf(isReal)
           k == ClPower(src, first, m, len)[2]
           p == [i \in DOMAIN clmem.power |->
                   IF i \in m .. m + len - 1
                     THEN [sig |-> sig, bins |-> {i - m + first}]
                     ELSE clmem.power[i]]
           q == ByteRun(clmem.quant, p, m, len, 0)
<1>1. clmem = [b \in ClFields |-> clmem[b]] /\ "power" \in ClFields /\ "quant" \in ClFields
  BY DEF Shape, ClFields
<1>2. DOMAIN clmem.power = Positions(FftSize) /\ DOMAIN clmem.quant = Positions(FftSize)
  BY DEF WaterfallShape
<1>3. /\ n \in Nat \ {0} /\ base \in Nat
      /\ 0 .. 2 * n - 1 \subseteq Positions(FftSize) /\ 0 .. n - 1 \subseteq Positions(FftSize)
  BY Sizes
<1>4. k = [op |-> "power", src |-> src, first |-> first, dst |-> m, len |-> len]
  BY DEF ClPower, Kernel
<1>5. k.op = "power" /\ k.src = src /\ k.first = first /\ k.dst = m /\ k.len = len
  BY <1>4
<1>6. clmem[src] = sig
  OBVIOUS
<1>7. ClKernelResult(k, mem) = [clmem EXCEPT !.power = p, !.quant = q]
  <2> HIDE DEF k, sig, src
  <2> QED
    BY <1>5, <1>6 DEF ClKernelResult
<1>8. MadeUpTo(clmem.power, m, sig, n, base) /\ MadeUpTo(clmem.quant, m, sig, n, base)
  BY DEF Made
<1>9. \A i \in 0 .. m - 1 : p[i] = clmem.power[i]
  <2>1. \A i \in 0 .. m - 1 : i \in 0 .. n - 1 /\ i \notin m .. m + len - 1
    BY <1>3
  <2> QED
    BY <1>2, <1>3, <2>1
<1>10. \A i \in m .. m + len - 1 : p[i] = [sig |-> sig, bins |-> {(i + base) % n}]
  <2>1. \A i \in m .. m + len - 1 : i \in 0 .. n - 1
    BY <1>3
  <2> QED
    BY <1>2, <1>3, <2>1
<1> HIDE DEF p
<1>11. MadeUpTo(p, m + len, sig, n, base)
  BY <1>3, <1>8, <1>9, <1>10, PartMade
<1>12. MadeUpTo(q, m + len, sig, n, base)
  BY <1>2, <1>3, <1>8, <1>11, BytesMade
<1> HIDE DEF q, k, n, base, sig
<1>13. ClKernelResult(k, mem).power = p /\ ClKernelResult(k, mem).quant = q
  BY <1>7, <1>1
<1> QED
  BY <1>11, <1>12, <1>13 DEF Made, n, base, sig, k, src

\* ... then one each of the other levels ...
LEMMA ClHalfMade ==
  ASSUME Shape, WaterfallShape, NEW mem, NEW l \in 1 .. Levels - 1, NEW drop, NEW k,
         k = [op |-> "half", src |-> LevelStart(LenOf(isReal), l - 1), dst |-> LevelStart(LenOf(isReal), l),
              len |-> LevelLen(LenOf(isReal), l), drop |-> drop],
         Made(clmem, LevelStart(LenOf(isReal), l))
  PROVE  Made(ClKernelResult(k, mem), LevelStart(LenOf(isReal), l + 1))
<1> DEFINE n == LenOf(isReal)
           base == BaseOf(isReal)
           sig == Samples("spectrum")
           p == HalfRun(clmem.power, clmem.power, LevelStart(n, l - 1), LevelStart(n, l), LevelLen(n, l))
           q == ByteRun(clmem.quant, p, LevelStart(n, l), LevelLen(n, l), drop)
<1>1. clmem = [b \in ClFields |-> clmem[b]] /\ "power" \in ClFields /\ "quant" \in ClFields
  BY DEF Shape, ClFields
<1>2. DOMAIN clmem.power = Positions(FftSize) /\ DOMAIN clmem.quant = Positions(FftSize)
  BY DEF WaterfallShape
<1>3. n \in Nat \ {0} /\ n \in Nat /\ base \in Nat /\ 0 .. 2 * n - 1 \subseteq Positions(FftSize)
  BY Sizes
<1>4. /\ k.op = "half" /\ k.src = LevelStart(n, l - 1) /\ k.dst = LevelStart(n, l)
      /\ k.len = LevelLen(n, l) /\ k.drop = drop
  OBVIOUS
<1>5. ClKernelResult(k, mem) = [clmem EXCEPT !.power = p, !.quant = q]
  BY ONLY <1>4 DEF ClKernelResult
<1>6. /\ MadeUpTo(clmem.power, LevelStart(n, l), sig, n, base)
      /\ MadeUpTo(clmem.quant, LevelStart(n, l), sig, n, base)
  BY DEF Made
<1>7. LevelStart(n, l + 1) = LevelStart(n, l) + LevelLen(n, l)
  <2>1. l \in 0 .. Levels - 1
    OBVIOUS
  <2> QED
    BY <2>1, NextLevel
<1>8. LevelStart(n, l) \in Nat /\ LevelLen(n, l) \in Nat
  BY Sizes
<1>9. MadeUpTo(p, LevelStart(n, l + 1), sig, n, base)
  BY <1>2, <1>3, <1>6, HalfMade
<1> HIDE DEF p
<1>10. MadeUpTo(q, LevelStart(n, l) + LevelLen(n, l), sig, n, base)
  BY <1>2, <1>3, <1>6, <1>7, <1>8, <1>9, BytesMade
<1> HIDE DEF q, n, base, sig
<1>11. ClKernelResult(k, mem).power = p /\ ClKernelResult(k, mem).quant = q
  BY <1>5, <1>1
<1> QED
  BY <1>7, <1>9, <1>10, <1>11 DEF Made, n, base, sig

\* ... so that each kernel goes on where the one before it has ended.
LEMMA ClKernelMade ==
  ASSUME Shape, WaterfallShape, clmem[SrcOf(isReal)] = Samples("spectrum"), NEW mem,
         NEW p \in 0 .. Len(ClCmds(isReal)) - 1, Made(clmem, ClEnd(isReal, p))
  PROVE  Made(ClKernelResult(ClCmds(isReal)[p + 1][2], mem), ClEnd(isReal, p + 1))
<1> DEFINE n == LenOf(isReal)
           base == BaseOf(isReal)
           h == IF base \in 1 .. n - 1 THEN 2 ELSE 1
           s == ClCmds(isReal)
           src == SrcOf(isReal)
<1>1. /\ Len(s) = h + Levels - 1
      /\ h = 2 => /\ s[1] = ClPower(src, base, 0, n - base)
                  /\ s[2] = ClPower(src, 0, n - base, base)
      /\ h = 1 => s[1] = ClPower(src, 0, 0, n)
      /\ \A l \in 1 .. Levels - 1 :
           s[h + l] = Kernel([op |-> "half", src |-> LevelStart(n, l - 1), dst |-> LevelStart(n, l),
                              len |-> LevelLen(n, l), drop |-> DropCl(l)])
  BY ClPyramidLength
<1>2. /\ ClEnd(isReal, 0) = 0
      /\ h = 2 => ClEnd(isReal, 1) = n - base
      /\ \A l \in 1 .. Levels : ClEnd(isReal, h + l - 1) = LevelStart(n, l)
  BY ClEnds
<1>3. n \in Nat \ {0} /\ base \in Nat /\ (h = 2 => base \in 1 .. n - 1) /\ (h = 1 => base = 0)
  BY Sizes
<1>4. LevelStart(n, 1) = n
  <2>1. LevelStart(n, 0) = 0 /\ LevelLen(n, 0) = n /\ 0 \in 0 .. Levels - 1
    BY LevelRecursion
  <2>2. LevelStart(n, 0 + 1) = LevelStart(n, 0) + LevelLen(n, 0)
    BY <2>1, NextLevel
  <2> QED
    BY <1>3, <2>1, <2>2
<1>5. ClEnd(isReal, h) = n
  <2>1. 1 \in 1 .. Levels /\ h + 1 - 1 = h
    OBVIOUS
  <2> QED
    BY <1>2, <1>4, <2>1
<1>6. h \in {1, 2}
  OBVIOUS
<1> HIDE DEF s, h, n, base, src
<1>7. CASE h = 1 /\ p = 0
  <2>1. s[p + 1] = ClPower(src, 0, 0, n) /\ ClEnd(isReal, p) = 0 /\ ClEnd(isReal, p + 1) = 0 + n
    BY <1>1, <1>2, <1>3, <1>5, <1>7
  <2>2. \A i \in 0 .. 0 + n - 1 : i - 0 + 0 = (i + base) % n
    BY <1>3, <1>7
  <2>3. Made(clmem, 0) /\ 0 + n <= n /\ n \in Nat
    BY <1>3, <2>1
  <2>4. Made(ClKernelResult(ClPower(src, 0, 0, n)[2], mem), 0 + n)
    BY <2>2, <2>3, ClPowerMade DEF n, base, src
  <2> QED
    BY <2>1, <2>4 DEF s
<1>8. CASE h = 2 /\ p = 0
  <2>1. s[p + 1] = ClPower(src, base, 0, n - base) /\ ClEnd(isReal, p) = 0
        /\ ClEnd(isReal, p + 1) = 0 + (n - base)
    BY <1>1, <1>2, <1>3, <1>8
  <2>2. \A i \in 0 .. 0 + (n - base) - 1 : i - 0 + base = (i + base) % n
    BY <1>3, <1>8
  <2>3. Made(clmem, 0) /\ 0 + (n - base) <= n /\ n - base \in Nat
    BY <1>3, <1>8, <2>1
  <2>4. Made(ClKernelResult(ClPower(src, base, 0, n - base)[2], mem), 0 + (n - base))
    BY <1>3, <2>2, <2>3, ClPowerMade DEF n, base, src
  <2> QED
    BY <2>1, <2>4 DEF s
<1>9. CASE h = 2 /\ p = 1
  <2>1. s[p + 1] = ClPower(src, 0, n - base, base) /\ ClEnd(isReal, p) = n - base
        /\ ClEnd(isReal, p + 1) = (n - base) + base
    BY <1>1, <1>2, <1>3, <1>5, <1>9
  <2>2. \A i \in n - base .. (n - base) + base - 1 : i - (n - base) + 0 = (i + base) % n
    <3>1. ASSUME NEW i \in n - base .. (n - base) + base - 1
          PROVE  i - (n - base) + 0 = (i + base) % n
      <4>1. /\ i + base = n + (i - (n - base)) /\ i - (n - base) \in 0 .. n - 1
        BY <1>3, <1>9
      <4> QED
        BY <1>3, <4>1
    <3> QED
      BY <3>1
  <2>3. Made(clmem, n - base) /\ (n - base) + base <= n /\ n - base \in Nat
    BY <1>3, <1>9, <2>1
  <2>4. Made(ClKernelResult(ClPower(src, 0, n - base, base)[2], mem), (n - base) + base)
    BY <1>3, <2>2, <2>3, ClPowerMade DEF n, base, src
  <2> QED
    BY <2>1, <2>4 DEF s
<1>10. CASE p >= h
  <2> DEFINE l == p + 1 - h
             k == s[h + l][2]
  <2>1. l \in 1 .. Levels - 1 /\ h + l = p + 1 /\ h + l - 1 = p /\ h + (l + 1) - 1 = p + 1
    BY <1>1, <1>6, <1>10 DEF s
  <2>2. l \in 1 .. Levels /\ l + 1 \in 1 .. Levels
    BY <2>1
  <2>3. ClEnd(isReal, p) = LevelStart(n, l) /\ ClEnd(isReal, p + 1) = LevelStart(n, l + 1)
    BY <1>2, <2>1, <2>2
  <2> HIDE DEF l
  <2>4. k = [op |-> "half", src |-> LevelStart(n, l - 1), dst |-> LevelStart(n, l),
             len |-> LevelLen(n, l), drop |-> DropCl(l)]
    BY <1>1, <2>1 DEF Kernel
  <2>5. Made(clmem, LevelStart(n, l))
    BY <2>3
  <2> HIDE DEF k
  <2>6. Made(ClKernelResult(k, mem), LevelStart(n, l + 1))
    BY <2>1, <2>4, <2>5, ClHalfMade DEF n
  <2> QED
    BY <2>1, <2>3, <2>6 DEF s, k
<1> QED
  BY <1>6, <1>7, <1>8, <1>9, <1>10

\* The commands of the OpenCL pyramid are kernels that quantize.
LEMMA ClCommandsQuantize ==
  ASSUME NEW real, NEW i \in 1 .. Len(ClCmds(real))
  PROVE  ClCmds(real)[i][1] = "kernel" /\ Quantizes(ClCmds(real)[i][2])
         /\ Len(ClCmds(real)) \in Nat \ {0} /\ 1 \in 1 .. Len(ClCmds(real))
<1>1. Sequence(ClCmds(real)) /\ ClCmds(real) # <<>>
  BY ClPyramidLength
<1>2. Len(ClCmds(real)) \in Nat \ {0} /\ DOMAIN ClCmds(real) = 1 .. Len(ClCmds(real))
  BY <1>1, SequenceFacts
<1> QED
  BY <1>2, ClPyramidFacts DEF ClCmds

\* The first kernel of the pyramid is queued behind what is left of a failed
\* attempt ...
LEMMA ClFirstSent ==
  ASSUME Shape, queue' = Append(queue, ClCmds(isReal)[1][2]), UNCHANGED <<isReal, half_a, half_b, clmem>>
  PROVE  ClMade(1)'
<1>1. /\ Len(queue) \in Nat /\ Len(queue') = Len(queue) + 1
      /\ queue'[Len(queue) + 1] = ClCmds(isReal)[1][2]
  BY AppendSequence, SequenceFacts DEF Shape
<1>2. Samples("spectrum")' = Samples("spectrum") /\ ClEnd(isReal, 0) = 0
  BY ClEnds DEF Samples
<1>3. Made(clmem, ClEnd(isReal, 0))
  BY <1>2, Sizes, NothingMade DEF Made
<1>4. Made(clmem, ClEnd(isReal, 0))'
  BY <1>2, <1>3 DEF Made
<1>5. \A j \in 1 .. 1 - 0 : queue'[Len(queue) + j] = ClCmds(isReal)[0 + j][2]
  <2>1. \A j \in 1 .. 1 - 0 : j = 1 /\ 0 + j = 1
    OBVIOUS
  <2> QED
    BY <1>1, <2>1
<1>6. Len(queue') = Len(queue) + 1 - 0 /\ Len(queue) \in 0 .. Len(queue') /\ 0 \in 0 .. 1
  BY <1>1
<1> QED
  BY <1>4, <1>5, <1>6 DEF ClMade

\* ... and the others behind it.
LEMMA ClNextSent ==
  ASSUME Shape, NEW n \in Nat, ClMade(n), queue' = Append(queue, ClCmds(isReal)[n + 1][2]),
         UNCHANGED <<isReal, half_a, half_b, clmem>>
  PROVE  ClMade(n + 1)'
<1>1. /\ Len(queue) \in Nat /\ Len(queue') = Len(queue) + 1
      /\ \A i \in 1 .. Len(queue) + 1 :
           queue'[i] = IF i <= Len(queue) THEN queue[i] ELSE ClCmds(isReal)[n + 1][2]
  BY AppendSequence, SequenceFacts DEF Shape
<1>2. PICK p \in 0 .. n, o \in 0 .. Len(queue) :
        /\ o = 0 \/ p = 0
        /\ Len(queue) = o + n - p
        /\ \A j \in 1 .. n - p : queue[o + j] = ClCmds(isReal)[p + j][2]
        /\ Made(clmem, ClEnd(isReal, p))
  BY DEF ClMade
<1>3. Samples("spectrum")' = Samples("spectrum")
  BY DEF Samples
<1>4. Made(clmem, ClEnd(isReal, p))'
  BY <1>2, <1>3 DEF Made
<1>5. ASSUME NEW j \in 1 .. (n + 1) - p
      PROVE  queue'[o + j] = ClCmds(isReal)[p + j][2]
  <2>1. CASE j \in 1 .. n - p
    <3>1. o + j \in 1 .. Len(queue)
      BY <1>1, <1>2, <2>1
    <3> QED
      BY <1>1, <1>2, <2>1, <3>1
  <2>2. CASE j = (n + 1) - p
    <3>1. o + j = Len(queue) + 1 /\ p + j = n + 1
      BY <1>1, <1>2, <2>2
    <3> QED
      BY <1>1, <3>1
  <2>3. j \in 1 .. n - p \/ j = (n + 1) - p
    OBVIOUS
  <2> QED
    BY <2>1, <2>2, <2>3
<1>6. Len(queue') = o + (n + 1) - p /\ o \in 0 .. Len(queue') /\ p \in 0 .. n + 1
  BY <1>1, <1>2
<1> QED
  BY <1>2, <1>4, <1>5, <1>6 DEF ClMade

\* An OpenCL call succeeds.
LEMMA ClStepFall == EngineInv /\ WaterfallInv /\ GpuStep /\ UsesCl => WaterfallInv'
<1> SUFFICES ASSUME EngineInv, WaterfallInv, GpuStep, UsesCl
             PROVE  WaterfallInv'
  OBVIOUS
<1> DEFINE c == Head(todo)
           n == LenOf(isReal)
           base == BaseOf(isReal)
<1>1. /\ phase = "execute" /\ phase' = phase /\ todo # <<>> /\ todo' = Tail(todo) /\ c[1] \notin CpuCalls
      /\ ClCall(c, HostMem) /\ UNCHANGED vkVars /\ ReadBack(c)
      /\ UNCHANGED <<machine, acc, isReal, onError, half_a, half_b, wanted, result>>
  BY DEF GpuStep, config
<1>2. PICK x \in Uses, y \in Uses, d \in Contents, f \in Contents, a \in Falls, m \in Falls, e \in Ends :
        /\ UseStep(c, x, y) /\ ContentStep(c, x, d, f)
        /\ UseState(x) /\ ContentState(d) /\ HandlerOK(d)
        /\ FallLeads(c, isReal, a, m) /\ FallPath(Tail(todo), isReal, m, Fall(e)) /\ FallState(a)
  BY <1>1, NextFall
<1>3. Shape /\ WaterfallShape
  BY <1>1, NextFall
<1> HIDE DEF c
<1>4. x = "queue" /\ ~Worker
  BY <1>2 DEF UseState, Uses, UsesCl
<1>5. c[1] \in {"write", "kernel", "transform", "transform_real", "read", "max_power"}
  BY <1>1, <1>2, <1>4 DEF UseStep, IdleCalls, ClCalls
<1>6. ClContent(c, d, f)
  BY <1>1, <1>2, <1>4 DEF ContentStep, ContentState
<1>7. clmem' = clmem
  BY <1>1, <1>5 DEF ClCall, Enqueue, clVars
<1>8. WaterfallShape'
  BY <1>1, <1>3, <1>7 DEF WaterfallShape, vkVars, vkWork
<1>9. Worker' = Worker /\ \A s : Samples(s)' = Samples(s)
  BY <1>1 DEF Worker, Samples
<1>10. ASSUME NEW i \in 1 .. Len(ClCmds(isReal)), c = ClCmds(isReal)[i]
       PROVE  /\ queue' = Append(queue, ClCmds(isReal)[i][2])
              /\ isReal \/ onError = "fallback"
  <2>1. c[1] = "kernel" /\ Quantizes(c[2])
    BY <1>10, ClCommandsQuantize
  <2>2. queue' = Append(queue, c[2])
    BY <1>1, <2>1 DEF ClCall, Enqueue
  <2>3. d \in {"gpu3", "real_done"}
    BY <1>6, <2>1 DEF ClContent, Quantizes, Write, Read, Kernel
  <2>4. isReal \/ onError = "fallback"
    BY <1>2, <2>3 DEF ContentState, GpuSent
  <2> QED
    BY <1>10, <2>2, <2>4
<1>11. FallState(m)'
  <2>1. CASE FallRest(c, a, m)
    <3>1. quantized' = quantized
      BY <2>1, <1>1 DEF FallRest, Delivers, ReadBack
    <3> QED
      BY <2>1, <3>1, <1>1, <1>2, RestKept DEF FallRest
  <2>2. CASE /\ a = Fall("caught") \/ (a = Fall("due") /\ ~isReal)
             /\ c = ClCmds(isReal)[1] /\ m = <<"cl", 1>>
    <3>1. 1 \in 1 .. Len(ClCmds(isReal))
      <4>1. Sequence(ClCmds(isReal)) /\ ClCmds(isReal) # <<>>
        BY ClPyramidLength
      <4>2. Len(ClCmds(isReal)) \in Nat \ {0}
        BY <4>1, SequenceFacts
      <4> QED
        BY <4>2
    <3>2. queue' = Append(queue, ClCmds(isReal)[1][2]) /\ (isReal \/ onError = "fallback")
      BY <1>10, <2>2, <3>1
    <3>3. ClMade(1)'
      BY <1>1, <1>3, <1>7, <3>2, ClFirstSent
    <3>4. onError' # "error"
      <4>1. CASE a = Fall("caught")
        BY <4>1, <1>1, <1>2 DEF FallState
      <4>2. CASE a # Fall("caught")
        BY <4>2, <1>1, <2>2, <3>2
      <4> QED
        BY <4>1, <4>2
    <3>5. 1 \in 1 .. Len(ClCmds(isReal'))
      BY <1>1, <3>1
    <3> QED
      BY <2>2, <3>3, <3>4, <3>5 DEF FallState, Fall
  <2>3. CASE /\ a[1] = "cl" /\ a[2] \in 1 .. Len(ClCmds(isReal)) - 1
             /\ c = ClCmds(isReal)[a[2] + 1] /\ m = <<"cl", a[2] + 1>>
    <3>1. PICK k : k = a[2]
      OBVIOUS
    <3>2. k \in Nat /\ k + 1 \in 1 .. Len(ClCmds(isReal)) /\ ClMade(k) /\ onError # "error"
      <4>1. a[2] \in Nat
        BY <1>2 DEF Falls
      <4>2. ClMade(a[2]) /\ onError # "error"
        BY <1>2, <2>3 DEF FallState
      <4>3. Sequence(ClCmds(isReal))
        BY ClPyramidLength
      <4>4. Len(ClCmds(isReal)) \in Nat
        BY <4>3, SequenceFacts
      <4> QED
        BY <2>3, <3>1, <4>1, <4>2, <4>4
    <3>3. queue' = Append(queue, ClCmds(isReal)[k + 1][2])
      BY <1>10, <2>3, <3>1, <3>2
    <3>4. ClMade(k + 1)'
      BY <1>1, <1>3, <1>7, <3>2, <3>3, ClNextSent
    <3>5. k + 1 \in 1 .. Len(ClCmds(isReal')) /\ onError' # "error" /\ m = <<"cl", k + 1>>
      BY <1>1, <2>3, <3>1, <3>2
    <3> QED
      BY <3>4, <3>5 DEF FallState, Fall
  <2>4. CASE a = <<"cl", Len(ClCmds(isReal))>> /\ c = Read("quant") /\ m = Fall("have")
    <3> DEFINE z == Len(ClCmds(isReal))
    <3>1. ClMade(z)
      BY <1>2, <2>4 DEF FallState
    <3>2. queue = <<>> /\ Len(queue) = 0
      BY <1>1, <2>4 DEF ClCall, Read
    <3>3. z = (IF base \in 1 .. n - 1 THEN 2 ELSE 1) + Levels - 1
      BY ClEnds
    <3>4. z \in Nat
      BY <3>3
    <3> HIDE DEF z
    <3>5. PICK p \in 0 .. z, o \in 0 .. Len(queue) : Len(queue) = o + z - p /\ Made(clmem, ClEnd(isReal, p))
      BY <3>1 DEF ClMade
    <3>6. p = z
      BY <3>2, <3>4, <3>5
    <3>7. ClEnd(isReal, z) = LevelStart(n, Levels)
      <4>1. Levels \in 1 .. Levels
        OBVIOUS
      <4>2. ClEnd(isReal, (IF base \in 1 .. n - 1 THEN 2 ELSE 1) + Levels - 1) = LevelStart(n, Levels)
        BY <4>1, ClEnds
      <4> QED
        BY <3>3, <4>2
    <3>8. MadeUpTo(clmem.quant, LevelStart(n, Levels), Samples("spectrum"), n, base)
      BY <3>5, <3>6, <3>7 DEF Made
    <3>9. quantized' = Concat(clmem.quant, n)
      <4>1. SpectrumLen = n
        BY DEF SpectrumLen, LenOf
      <4> HIDE DEF n
      <4>2. quantized' = Concat(clmem.quant, SpectrumLen)
        BY <1>1, <2>4 DEF ReadBack, Read
      <4> QED
        BY <4>1, <4>2
    <3>10. CoversBand(quantized', Samples("spectrum"), n, base)
      BY <3>8, <3>9, Sizes, AllMade
    <3>11. quantized' # NoFrame
      <4>1. DOMAIN Concat(clmem.quant, n) = 0 .. TotalLen(n) - 1
        BY Zenon DEF Concat
      <4> QED
        BY <3>9, <4>1, Something
    <3> QED
      BY <2>4, <3>10, <3>11, <1>1, <1>9 DEF FallState, Fall
  <2>5. CASE FallCl(c, isReal, a, m)
    BY <2>5, <2>2, <2>3, <2>4 DEF FallCl
  <2>6. ~FallCpu(c, isReal, a, m)
    BY <1>1 DEF FallCpu, CpuCalls
  <2>7. ~FallVk(c, isReal, a, m)
    BY <1>5 DEF FallVk
  <2> QED
    BY <1>2, <2>1, <2>5, <2>6, <2>7 DEF FallLeads
<1> QED
  BY <1>1, <1>2, <1>4, <1>8, <1>11, FallAdvance

\* The OpenCL device takes a command from its queue: an old one or the next
\* of the pyramid, which finds the spectrum.
LEMMA ClMadeMoves ==
  ASSUME Shape, WaterfallShape, NEW n \in 1 .. Len(ClCmds(isReal)), ClMade(n),
         queue # <<>>, queue' = Tail(queue), clmem' = ClKernelResult(Head(queue), HostMem),
         Quantizes(Head(queue)) => clmem[SrcOf(isReal)] = Samples("spectrum"),
         UNCHANGED <<isReal, half_a, half_b>>
  PROVE  ClMade(n)'
<1>1. /\ Sequence(queue) /\ Head(queue) = queue[1] /\ Len(queue') = Len(queue) - 1
      /\ Len(queue) \in Nat \ {0}
      /\ \A i \in 1 .. Len(queue) - 1 : queue'[i] = queue[i + 1]
  BY TailSequence, SequenceFacts DEF Shape
<1>2. PICK p \in 0 .. n, o \in 0 .. Len(queue) :
        /\ o = 0 \/ p = 0
        /\ Len(queue) = o + n - p
        /\ \A j \in 1 .. n - p : queue[o + j] = ClCmds(isReal)[p + j][2]
        /\ Made(clmem, ClEnd(isReal, p))
  BY DEF ClMade
<1>3. Samples("spectrum")' = Samples("spectrum") /\ ClEnd(isReal, 0) = 0
  BY ClEnds DEF Samples
<1>4. Len(ClCmds(isReal)) \in Nat /\ n \in Nat
  <2>1. Sequence(ClCmds(isReal))
    BY ClPyramidLength
  <2> QED
    BY <2>1, SequenceFacts
<1>5. CASE o > 0
  <2>1. p = 0 /\ o - 1 \in 0 .. Len(queue') /\ Len(queue') = (o - 1) + n - 0
    BY <1>1, <1>2, <1>4, <1>5
  <2>2. ASSUME NEW j \in 1 .. n - 0
        PROVE  queue'[(o - 1) + j] = ClCmds(isReal)[0 + j][2]
    <3>1. /\ (o - 1) + j \in 1 .. Len(queue) - 1 /\ ((o - 1) + j) + 1 = o + j
          /\ j \in 1 .. n - p /\ 0 + j = p + j
      BY <1>1, <1>2, <1>4, <1>5, <2>1
    <3>2. queue'[(o - 1) + j] = queue[o + j]
      BY <1>1, <3>1
    <3> QED
      BY <1>2, <3>1, <3>2
  <2>3. Made(clmem', ClEnd(isReal, 0))
    BY <1>3, Sizes, NothingMade DEF Made
  <2>4. Made(clmem, ClEnd(isReal, 0))'
    BY <1>3, <2>3 DEF Made
  <2>5. 0 \in 0 .. n
    BY <1>4
  <2> QED
    BY <2>1, <2>2, <2>4, <2>5 DEF ClMade
<1>6. CASE o = 0
  <2>1. p < n /\ p + 1 \in 1 .. Len(ClCmds(isReal)) /\ p \in 0 .. Len(ClCmds(isReal)) - 1 /\ p + 1 \in 0 .. n
    BY <1>1, <1>2, <1>4, <1>6
  <2>2. Head(queue) = ClCmds(isReal)[p + 1][2]
    <3>1. 1 \in 1 .. n - p /\ o + 1 = 1
      BY <1>4, <1>6, <2>1
    <3> QED
      BY <1>1, <1>2, <3>1
  <2>3. clmem[SrcOf(isReal)] = Samples("spectrum")
    BY <2>1, <2>2, ClCommandsQuantize
  <2>4. Made(clmem', ClEnd(isReal, p + 1))
    BY <1>2, <2>1, <2>2, <2>3, ClKernelMade
  <2>5. Made(clmem, ClEnd(isReal, p + 1))'
    BY <1>3, <2>4 DEF Made
  <2>6. ASSUME NEW j \in 1 .. n - (p + 1)
        PROVE  queue'[0 + j] = ClCmds(isReal)[(p + 1) + j][2]
    <3>1. /\ j \in 1 .. Len(queue) - 1 /\ j + 1 \in 1 .. n - p /\ o + (j + 1) = j + 1 /\ 0 + j = j
          /\ p + (j + 1) = (p + 1) + j
      BY <1>1, <1>2, <1>4, <1>6
    <3>2. queue'[j] = queue[j + 1]
      BY <1>1, <3>1
    <3> QED
      BY <1>2, <3>1, <3>2
  <2>7. Len(queue') = 0 + n - (p + 1) /\ 0 \in 0 .. Len(queue')
    BY <1>1, <1>2, <1>4, <1>6, <2>1
  <2> QED
    BY <2>1, <2>5, <2>6, <2>7 DEF ClMade
<1> QED
  BY <1>2, <1>5, <1>6

\* The OpenCL device executes the next command of its queue.
LEMMA ClDeviceFall == EngineInv /\ WaterfallInv /\ QueueTargets /\ ClDevice => WaterfallInv'
<1> SUFFICES ASSUME EngineInv, WaterfallInv, QueueTargets, ClDevice
             PROVE  WaterfallInv'
  OBVIOUS
<1>1. /\ queue # <<>> /\ clmem' = ClKernelResult(Head(queue), HostMem) /\ queue' = Tail(queue)
      /\ UNCHANGED <<vkVars, host, dev, machine, acc, isReal, phase, todo, onError, half_a, half_b,
                     complex_frame, wanted, quantized, result>>
  BY DEF ClDevice, QueueStep, machineVars, vkVars, vkWork
<1>2. Shape /\ WaterfallShape /\ JobKept
  BY DEF EngineInv, WaterfallInv
<1>3. Head(queue) = queue[1] /\ 1 \in DOMAIN queue
  BY <1>1, <1>2, TailSequence, SequenceFacts DEF Shape
<1>4. WaterfallShape'
  <2>1. PICK k : k = Head(queue)
    OBVIOUS
  <2>2. /\ k.op \in ClCommands
        /\ k.op \in {"write", "window_real"} => k.to \notin {"power", "quant"}
    BY <1>2, <1>3, <2>1 DEF Shape, QueueTargets
  <2>3. \A b \in {"power", "quant"} : DOMAIN clmem'[b] = Positions(FftSize)
    BY <1>1, <1>2, <2>1, <2>2, ClKernelSizes
  <2>4. \A b \in {"power", "quant"} :
          DOMAIN host'[b] = Positions(FftSize) /\ DOMAIN dev'[b] = Positions(FftSize)
    BY <1>1, <1>2 DEF WaterfallShape
  <2>5. (phase' = "construct" => result' = "none") /\ wanted' \in BOOLEAN
    BY <1>1, <1>2 DEF WaterfallShape
  <2> QED
    BY <2>3, <2>4, <2>5 DEF WaterfallShape
<1>5. CASE phase # "execute"
  BY <1>1, <1>4, <1>5, OutsideFall
<1>6. CASE phase = "execute"
  <2>1. JobKept'
    BY <1>1, <1>2 DEF JobKept, Worker, Samples
  <2>2. CASE result = "err"
    BY <1>1, <1>4, <1>6, <2>1, <2>2 DEF WaterfallInv, FallScript
  <2>3. CASE result # "err" /\ todo = <<>>
    <3>1. PICK a \in Falls, e \in Ends : FallPath(todo, isReal, a, Fall(e)) /\ FallState(a)
      BY <1>6, <2>3 DEF WaterfallInv, FallScript
    <3>2. a = Fall(e)
      BY <2>3, <3>1, FallEnd
    <3>3. a[1] # "cl"
      BY <3>2 DEF Fall, Ends
    <3>4. FallState(a)'
      BY <1>1, <3>1, <3>3, FallKept
    <3>5. FallScript'
      BY <1>1, <3>1, <3>4 DEF FallScript
    <3> QED
      BY <1>1, <1>4, <1>6, <2>1, <3>5 DEF WaterfallInv
  <2>4. CASE result # "err" /\ todo # <<>>
    <3> DEFINE c == Head(todo)
    <3>1. PICK x \in Uses, y \in Uses, d \in Contents, f \in Contents, a \in Falls, m \in Falls, e \in Ends :
            /\ UseStep(c, x, y) /\ ContentStep(c, x, d, f)
            /\ UseState(x) /\ ContentState(d) /\ HandlerOK(d)
            /\ FallLeads(c, isReal, a, m)
            /\ FallPath(todo, isReal, a, Fall(e)) /\ FallState(a)
      BY <1>6, <2>4, NextFall
    <3> HIDE DEF c
    <3>2. ASSUME a[1] # "cl"
          PROVE  FallState(a)'
      BY <1>1, <3>1, <3>2, FallKept
    <3>3. ASSUME a[1] = "cl"
          PROVE  FallState(a)'
      <4>1. a \notin {Fall("skip"), Fall("due"), Fall("have"), Fall("job"), Fall("vk_in"), Fall("vk_there"),
                      Fall("vk_rec"), Fall("vk_made"), Fall("vk_visible"), Fall("caught")}
        BY <3>3 DEF Fall
      <4>2. FallCl(c, isReal, a, m)
        BY <3>1, <4>1 DEF FallLeads, FallRest, FallCpu, FallVk
      <4>3. (c[1] = "kernel" /\ Quantizes(c[2])) \/ c = Read("quant")
        <5>1. CASE a[2] \in 1 .. Len(ClCmds(isReal)) - 1 /\ c = ClCmds(isReal)[a[2] + 1]
          <6>1. Sequence(ClCmds(isReal))
            BY ClPyramidLength
          <6>2. a[2] + 1 \in 1 .. Len(ClCmds(isReal))
            BY <5>1, <6>1, SequenceFacts
          <6> QED
            BY <5>1, <6>2, ClCommandsQuantize
        <5> QED
          BY <4>1, <4>2, <5>1 DEF FallCl
      <4>4. c[1] \in {"kernel", "read"}
        BY <4>3 DEF Read
      <4>5. x = "queue"
        BY <3>1, <4>4 DEF UseStep, CpuCalls, ClCalls, IdleCalls
      <4>6. UsesCl /\ ~Worker /\ d # "any"
        BY <3>1, <4>5 DEF UseState, UsesCl, HandlerOK
      <4>7. ClContent(c, d, f)
        BY <3>1, <4>4, <4>5, <4>6 DEF ContentStep, CpuCalls
      <4>8. d \in {"gpu3", "real_done"}
        BY <4>3, <4>7 DEF ClContent, Quantizes, Write, Read, Kernel
      <4>9. Quantizes(Head(queue)) => clmem[SrcOf(isReal)] = Samples("spectrum")
        <5>1. CASE d = "real_done"
          BY <3>1, <4>6, <5>1 DEF ContentState, SrcOf
        <5>2. CASE d = "gpu3"
          <6>1. /\ ~isReal
                /\ \E dd \in 0 .. 3 : InQueue(GpuWork, 3, dd, 0) /\ GpuDone(dd)
            BY <3>1, <5>2 DEF ContentState, GpuSent
          <6>2. PICK dd \in 0 .. 3 : InQueue(GpuWork, 3, dd, 0) /\ GpuDone(dd)
            BY <6>1
          <6>3. CASE dd = 3
            BY <6>1, <6>2, <6>3 DEF GpuDone, SrcOf
          <6>4. CASE dd # 3
            <7>1. 1 \in 1 .. 3 - dd /\ 0 + 1 = 1
              BY <6>4
            <7>2. queue[1] = GpuWork[dd + 1]
              BY <6>2, <7>1 DEF InQueue
            <7>3. ~Quantizes(GpuWork[dd + 1])
              BY <6>4 DEF GpuWork, FrameWrite, Quantizes
            <7> QED
              BY <1>3, <7>2, <7>3
          <6> QED
            BY <6>3, <6>4
        <5> QED
          BY <4>8, <5>1, <5>2
      <4>10. a[2] \in 1 .. Len(ClCmds(isReal)) /\ ClMade(a[2]) /\ onError # "error"
        BY <3>1, <3>3 DEF FallState
      <4>11. PICK k : k = a[2]
        OBVIOUS
      <4>12. ClMade(k)'
        BY <1>1, <1>2, <4>9, <4>10, <4>11, ClMadeMoves
      <4>13. k \in 1 .. Len(ClCmds(isReal')) /\ onError' # "error"
        BY <1>1, <4>10, <4>11
      <4> QED
        BY <3>3, <4>11, <4>12, <4>13 DEF FallState, Fall
    <3>4. FallState(a)'
      BY <3>2, <3>3
    <3>5. FallScript'
      BY <1>1, <3>1, <3>4 DEF FallScript
    <3> QED
      BY <1>1, <1>4, <1>6, <2>1, <3>5 DEF WaterfallInv
  <2> QED
    BY <2>2, <2>3, <2>4
<1> QED
  BY <1>5, <1>6

-----------------------------------------------------------------------------
(* FFT engine: every waterfall is of its frame *)

\* No command that carries samples is queued for the powers or the bytes.
LEMMA TargetsKept == EngineInv /\ QueueTargets /\ [EngineNext]_engineVars => QueueTargets'
<1> SUFFICES ASSUME EngineInv, QueueTargets, [EngineNext]_engineVars
             PROVE  QueueTargets'
  OBVIOUS
<1>1. Sequence(queue)
  BY DEF EngineInv, Shape
<1>2. CASE queue' = queue
  BY <1>2 DEF QueueTargets
<1>3. CASE queue' = <<>>
  <2>1. DOMAIN <<>> = {}
    OBVIOUS
  <2> QED
    BY <1>3, <2>1 DEF QueueTargets
<1>4. CASE ClDevice
  <2>1. queue # <<>> /\ queue' = Tail(queue)
    BY <1>4 DEF ClDevice, QueueStep
  <2>2. /\ Sequence(queue') /\ Len(queue') = Len(queue) - 1
        /\ \A i \in 1 .. Len(queue) - 1 : queue'[i] = queue[i + 1]
    BY <1>1, <2>1, TailSequence
  <2>3. Len(queue) \in Nat /\ DOMAIN queue = 1 .. Len(queue) /\ DOMAIN queue' = 1 .. Len(queue) - 1
    BY <1>1, <2>2, SequenceFacts
  <2>4. \A i \in DOMAIN queue' : i + 1 \in DOMAIN queue /\ queue'[i] = queue[i + 1]
    BY <2>2, <2>3
  <2> QED
    BY <2>4 DEF QueueTargets
<1>5. CASE GpuStep /\ UsesCl /\ queue' # queue
  <2> DEFINE c == Head(todo)
  <2>1. /\ phase = "execute" /\ todo # <<>> /\ c[1] \notin CpuCalls /\ ClCall(c, HostMem)
    BY <1>5 DEF GpuStep
  <2>2. PICK x \in Uses, y \in Uses, d \in Contents, f \in Contents :
          UseStep(c, x, y) /\ ContentStep(c, x, d, f) /\ UseState(x) /\ ContentState(d)
    BY <2>1, CallMade
  <2> HIDE DEF c
  <2>3. x = "queue" /\ ~Worker
    BY <1>5, <2>2 DEF UseState, Uses, UsesCl
  <2>4. ClContent(c, d, f) /\ c[1] \in {"write", "kernel", "transform", "transform_real", "read", "max_power"}
    BY <2>1, <2>2, <2>3 DEF ContentStep, ContentState, UseStep, IdleCalls, ClCalls
  <2>5. PICK k : /\ queue' = Append(queue, k)
                 /\ k.op \in {"write", "window_real"} => k.to \notin {"power", "quant"}
    <3>1. CASE c[1] = "write"
      <4>1. c[2] \notin {"power", "quant"}
        BY <2>4, <3>1 DEF ClContent, Write, Kernel, Read
      <4>2. queue' = Append(queue, [op |-> "write", to |-> c[2], from |-> c[3], was |-> HostMem[c[3]]])
        BY <2>1, <3>1 DEF ClCall, Enqueue
      <4> QED
        BY <4>1, <4>2
    <3>2. CASE c[1] = "kernel"
      <4>1. \/ Quantizes(c[2]) \/ c[2] = [op |-> "window_complex"]
            \/ c[2] = [op |-> "window_real", from |-> "half_a", to |-> "in_a"]
            \/ c[2] = [op |-> "window_real", from |-> "half_b", to |-> "in_b"]
        BY <2>4, <3>2 DEF ClContent, Write, Kernel, Read
      <4>2. c[2].op \in {"write", "window_real"} => c[2].to \notin {"power", "quant"}
        BY <4>1 DEF Quantizes
      <4>3. queue' = Append(queue, c[2])
        BY <2>1, <3>2 DEF ClCall, Enqueue
      <4> QED
        BY <4>2, <4>3
    <3>3. CASE c[1] \in {"transform", "transform_real"}
      <4>1. queue' = Append(queue, [op |-> c[1]])
        BY <2>1, <3>3 DEF ClCall, Enqueue
      <4>2. [op |-> c[1]].op \notin {"write", "window_real"}
        BY <3>3
      <4> QED
        BY <4>1, <4>2
    <3>4. CASE c[1] \in {"read", "max_power"}
      BY <1>5, <2>1, <3>4 DEF ClCall, clVars
    <3> QED
      BY <2>4, <3>1, <3>2, <3>3, <3>4
  <2>6. /\ Sequence(queue') /\ Len(queue') = Len(queue) + 1
        /\ \A i \in 1 .. Len(queue) + 1 : queue'[i] = IF i <= Len(queue) THEN queue[i] ELSE k
    BY <1>1, <2>5, AppendSequence
  <2>7. Len(queue) \in Nat /\ DOMAIN queue = 1 .. Len(queue) /\ DOMAIN queue' = 1 .. Len(queue) + 1
    BY <1>1, <2>6, SequenceFacts
  <2>8. \A i \in DOMAIN queue' : queue'[i] = k \/ (i \in DOMAIN queue /\ queue'[i] = queue[i])
    BY <2>6, <2>7
  <2> QED
    BY <2>5, <2>8 DEF QueueTargets
<1>6. queue' \in {queue, <<>>} \/ ClDevice \/ (GpuStep /\ UsesCl)
  <2> USE DEF clVars
  <2>1. CASE Construct \/ ConstructFails \/ Constructed
    BY <2>1 DEF Construct, ConstructFails, Constructed, ClAcquire, ClAcquireFails
  <2>2. CASE (\E want \in BOOLEAN : Execute(want)) \/ CpuStep \/ Return \/ Stop
    BY <2>2 DEF Execute, CpuStep, Return, Stop
  <2>3. CASE GpuStep /\ ~UsesCl
    BY <2>3 DEF GpuStep
  <2>4. CASE GpuFails
    BY <2>4 DEF GpuFails, ClCallFails
  <2>5. CASE Drop
    BY <2>5 DEF Drop, ClRelease
  <2>6. CASE VkDevice
    BY <2>6 DEF VkDevice
  <2>7. CASE Finished \/ UNCHANGED engineVars
    BY <2>7 DEF Finished, engineVars
  <2> QED
    BY <2>1, <2>2, <2>3, <2>4, <2>5, <2>6, <2>7 DEF EngineNext
<1> QED
  BY <1>2, <1>3, <1>4, <1>5, <1>6

\* Every step keeps the invariant of the waterfall.
LEMMA WaterfallStep ==
  EngineInv /\ WaterfallInv /\ QueueTargets /\ [EngineNext]_engineVars => WaterfallInv'
<1> SUFFICES ASSUME EngineInv, WaterfallInv, QueueTargets, [EngineNext]_engineVars
             PROVE  WaterfallInv'
  OBVIOUS
<1>1. CASE Construct \/ ConstructFails \/ Constructed \/ Stop \/ Drop
  BY <1>1, LifecycleFall
<1>2. CASE \E want \in BOOLEAN : Execute(want)
  BY <1>2, ExecuteFall
<1>3. CASE CpuStep
  BY <1>3, CpuStepFall
<1>4. CASE GpuStep
  BY <1>4, VkStepFall, ClStepFall
<1>5. CASE GpuFails
  BY <1>5, GpuFailsFall
<1>6. CASE Return
  BY <1>6, ReturnFall
<1>7. CASE VkDevice
  BY <1>7, VkDeviceFall
<1>8. CASE ClDevice
  BY <1>8, ClDeviceFall
<1>9. CASE Finished \/ UNCHANGED engineVars
  BY <1>9, StutterFall DEF Finished
<1> QED
  BY <1>1, <1>2, <1>3, <1>4, <1>5, <1>6, <1>7, <1>8, <1>9 DEF EngineNext

\* The waterfall of a frame is made of that frame's spectrum, every entry of
\* every level of its own bins and of no others, whichever device makes it,
\* wherever a call fails and whatever a failed attempt has left queued; and
\* none is missing but those of real input whose OpenCL quantization failed.
THEOREM WaterfallIsOfThisFrame == EngineSpec => []WaterfallOfThisFrame
<1>1. EngineInit => WaterfallInv /\ QueueTargets
  <2>1. ASSUME EngineInit
        PROVE  QueueTargets
    <3>1. queue = <<>> /\ DOMAIN <<>> = {}
      BY <2>1 DEF EngineInit, ClInit
    <3> QED
      BY <3>1 DEF QueueTargets
  <2> QED
    BY <2>1, InitFall
<1>2. EngineInv /\ (WaterfallInv /\ QueueTargets) /\ [EngineNext]_engineVars
        => (WaterfallInv /\ QueueTargets)'
  BY WaterfallStep, TargetsKept
<1>3. EngineInv /\ WaterfallInv => WaterfallOfThisFrame
  BY DEF EngineInv, InScript, WaterfallInv, WaterfallOfThisFrame
<1>4. EngineSpec => []EngineInv
  BY EngineInvariant
<1> QED
  BY <1>1, <1>2, <1>3, <1>4, PTL DEF EngineSpec
=============================================================================
