----------------------------- MODULE DspRunner -----------------------------
(***************************************************************************)
(* The threads of one receiver (dsp_runner.rs): the reader, the DSP loop   *)
(* and the waterfall worker, with the channels between them.               *)
(*                                                                         *)
(*   reader --filled--> DSP --work--> worker --> waterfall clients         *)
(*          <--free----     <--wfFree--                                    *)
(*                                                                         *)
(* Sample buffers travel free -> reader -> filled -> DSP -> free; spectrum *)
(* buffers travel wfFree -> DSP -> work -> worker -> wfFree.  A buffer in  *)
(* the free channels has no content worth tracking, so those two channels  *)
(* are the number of buffers in them; filled and work keep their order,    *)
(* a half-frame being the number of its read and a job its frame number.   *)
(* start() may leave out the reader, the worker or both (thread budget).   *)
(***************************************************************************)
EXTENDS Integers, Sequences

CONSTANTS
  PoolDepth,    \* SAMPLE_BUFFER_POOL_DEPTH, capacity of free and filled: 512
  WfPool,       \* spectrum buffers and capacity of wfFree: 8
  WorkDepth,    \* capacity of work: 4
  SkipNum,      \* every SkipNum-th frame is a waterfall frame
  MaxReads      \* bound: half-frames the input delivers before it ends

ASSUME DepthAssumption == /\ PoolDepth \in Nat \ {0}
                          /\ WfPool \in Nat \ {0}
                          /\ WorkDepth \in Nat \ {0}
ASSUME BoundAssumption == SkipNum \in Nat \ {0} /\ MaxReads \in Nat

VARIABLES
  free,         \* buffers in the free channel
  filled,       \* half-frames in the filled channel
  readerPc,     \* the reader thread
  nread,        \* half-frames read from the input so far
  dspPc,        \* the DSP thread
  halfA, halfB, \* the half-frames it works on
  frameNum,     \* frame_num
  wfFree,       \* buffers in the waterfall's free channel
  work,         \* frame numbers of the jobs in the work channel
  workerPc,     \* the waterfall worker
  job,          \* frame number of the job it works on
  wfSent        \* 1 + the last frame number given to send_waterfall

poolVars == <<free, filled, readerPc, nread>>
dspVars == <<dspPc, halfA, halfB, frameNum>>
workVars == <<wfFree, work, workerPc, job, wfSent>>
vars == <<poolVars, dspVars, workVars>>

ReaderPC == {"none", "recv", "read", "send", "ended"}
DspPC == {"loadA", "loadB", "frame", "take", "post", "shift", "giveBack", "ended"}
WorkerPC == {"none", "recv", "send", "return", "ended"}

\* Type invariant of the threads; the channels stay within their capacities.
TypeOK ==
  /\ free \in Nat
  /\ filled \in Seq(Nat) /\ Len(filled) <= PoolDepth
  /\ readerPc \in ReaderPC /\ nread \in Nat
  /\ dspPc \in DspPC /\ halfA \in Nat /\ halfB \in Nat /\ frameNum \in Nat
  /\ wfFree \in Nat
  /\ work \in Seq(Nat) /\ Len(work) <= WorkDepth
  /\ workerPc \in WorkerPC /\ job \in Nat /\ wfSent \in Nat

\* use_reader_thread and use_waterfall_thread: the two threads exist or not.
Threaded == readerPc # "none"
Offloaded == workerPc # "none"

Init ==
  /\ readerPc \in {"none", "recv"} /\ workerPc \in {"none", "recv"}
  /\ free = IF Threaded THEN PoolDepth ELSE 0
  /\ filled = <<>>
  /\ nread = 0
  /\ dspPc = "loadA" /\ halfA = 0 /\ halfB = 0 /\ frameNum = 0
  /\ wfFree = IF Offloaded THEN WfPool ELSE 0
  /\ work = <<>>
  /\ job = 0 /\ wfSent = 0

DspAlive == dspPc # "ended"
-----------------------------------------------------------------------------
(* The reader thread *)

\* free_rx.recv(); it never fails, the thread owns a sender of that channel.
ReaderRecv ==
  /\ readerPc = "recv" /\ free > 0
  /\ free' = free - 1
  /\ readerPc' = "read"
  /\ UNCHANGED <<filled, nread, dspVars, workVars>>

\* read_f32 fills the buffer ...
ReaderRead ==
  /\ readerPc = "read" /\ nread < MaxReads
  /\ nread' = nread + 1
  /\ readerPc' = "send"
  /\ UNCHANGED <<free, filled, dspVars, workVars>>

\* ... or fails (end of input, device error): the thread ends.
ReaderFail ==
  /\ readerPc = "read"
  /\ readerPc' = "ended"
  /\ UNCHANGED <<free, filled, nread, dspVars, workVars>>

\* Wrong variant: the buffer goes back to free as well.
ReaderSendTwice ==
  /\ readerPc = "send" /\ DspAlive /\ Len(filled) < PoolDepth
  /\ filled' = Append(filled, nread)
  /\ free' = free + 1
  /\ readerPc' = "recv"
  /\ UNCHANGED <<nread, dspVars, workVars>>

\* filled_tx.try_send: a full channel drops the half-frame and returns the
\* buffer to free.
ReaderSend ==
  /\ readerPc = "send" /\ DspAlive
  /\ IF Len(filled) < PoolDepth
       THEN filled' = Append(filled, nread) /\ UNCHANGED free
       ELSE free < PoolDepth /\ free' = free + 1 /\ UNCHANGED filled
  /\ readerPc' = "recv"
  /\ UNCHANGED <<nread, dspVars, workVars>>

\* try_send finds the DSP thread gone.
ReaderDisconnected ==
  /\ readerPc = "send" /\ ~DspAlive
  /\ readerPc' = "ended"
  /\ UNCHANGED <<free, filled, nread, dspVars, workVars>>

ReaderStep == \/ ReaderRecv \/ ReaderRead \/ ReaderFail \/ ReaderSend
              \/ ReaderDisconnected
-----------------------------------------------------------------------------
(* The DSP thread: where its next half-frame comes from *)

\* The next half-frame h, received from filled or read in place.
NextHalf(h) ==
  \/ /\ Threaded /\ filled # <<>>
     /\ h = Head(filled) /\ filled' = Tail(filled)
     /\ UNCHANGED nread
  \/ /\ ~Threaded /\ nread < MaxReads
     /\ h = nread + 1 /\ nread' = nread + 1
     /\ UNCHANGED filled

\* The half-frames a DSP step can get.
Halves == {nread + 1} \cup {filled[i] : i \in DOMAIN filled}

LoadA ==
  /\ dspPc = "loadA"
  /\ \E h \in Halves : NextHalf(h) /\ halfA' = h
  /\ dspPc' = "loadB"
  /\ UNCHANGED <<free, readerPc, halfB, frameNum, workVars>>

LoadB ==
  /\ dspPc = "loadB"
  /\ \E h \in Halves : NextHalf(h) /\ halfB' = h
  /\ dspPc' = "frame"
  /\ UNCHANGED <<free, readerPc, halfA, frameNum, workVars>>

\* "reader closed", or the read in place failed: the thread ends.
InputEnds ==
  /\ dspPc \in {"loadA", "loadB", "shift"}
  /\ Threaded => filled = <<>> /\ readerPc = "ended"
  /\ dspPc' = "ended"
  /\ UNCHANGED <<poolVars, halfA, halfB, frameNum, workVars>>

\* Wrong variant: half_b is replaced, half_a is kept.
ShiftKeepsA ==
  /\ dspPc = "shift"
  /\ \E h \in Halves : NextHalf(h) /\ halfB' = h
  /\ dspPc' = IF Threaded THEN "giveBack" ELSE "frame"
  /\ UNCHANGED <<free, readerPc, halfA, frameNum, workVars>>

\* old_a = half_a; half_a = half_b; half_b = next.
Shift ==
  /\ dspPc = "shift"
  /\ \E h \in Halves : NextHalf(h) /\ halfA' = halfB /\ halfB' = h
  /\ dspPc' = IF Threaded THEN "giveBack" ELSE "frame"
  /\ UNCHANGED <<free, readerPc, frameNum, workVars>>

\* Wrong variant: old_a is dropped instead of sent back.
GiveBackForgotten ==
  /\ dspPc = "giveBack"
  /\ dspPc' = "frame"
  /\ UNCHANGED <<poolVars, halfA, halfB, frameNum, workVars>>

\* free_tx.send(old_a) blocks while the channel is full; when the reader has
\* ended it fails and the buffer is freed.
GiveBack ==
  /\ dspPc = "giveBack"
  /\ IF readerPc = "ended" THEN UNCHANGED free
                           ELSE free < PoolDepth /\ free' = free + 1
  /\ dspPc' = "frame"
  /\ UNCHANGED <<filled, readerPc, nread, halfA, halfB, frameNum, workVars>>
-----------------------------------------------------------------------------
(* The DSP thread: one frame *)

\* No client: the frame is skipped and does not count.
FrameIdle ==
  /\ dspPc = "frame"
  /\ dspPc' = "shift"
  /\ UNCHANGED <<poolVars, halfA, halfB, frameNum, workVars>>

\* fft.execute fails: the thread ends.
FftFails ==
  /\ dspPc = "frame"
  /\ dspPc' = "ended"
  /\ UNCHANGED <<poolVars, halfA, halfB, frameNum, workVars>>

\* No waterfall is wanted: no client of that kind, or a skipped frame.
FrameAudioOnly ==
  /\ dspPc = "frame"
  /\ dspPc' = "shift"
  /\ frameNum' = frameNum + 1
  /\ UNCHANGED <<poolVars, halfA, halfB, workVars>>

\* A waterfall frame: quantized and sent in place, or handed over.
FrameWaterfall ==
  /\ dspPc = "frame" /\ frameNum % SkipNum = 0
  /\ IF Offloaded
       THEN dspPc' = "take" /\ UNCHANGED <<frameNum, wfSent>>
       ELSE /\ dspPc' = "shift"
            /\ wfSent' = frameNum + 1
            /\ frameNum' = frameNum + 1
  /\ UNCHANGED <<poolVars, halfA, halfB, wfFree, work, workerPc, job>>

\* free_rx.try_recv: without a free buffer the waterfall frame is skipped.
TakeSpectrum ==
  /\ dspPc = "take"
  /\ IF wfFree > 0
       THEN dspPc' = "post" /\ wfFree' = wfFree - 1 /\ UNCHANGED frameNum
       ELSE dspPc' = "shift" /\ frameNum' = frameNum + 1 /\ UNCHANGED wfFree
  /\ UNCHANGED <<poolVars, halfA, halfB, work, workerPc, job, wfSent>>

\* Wrong variants: the job is queued without a look at the capacity; its
\* buffer is lost when the channel is full; it is returned in either case.
PostUnbounded ==
  /\ dspPc = "post"
  /\ work' = Append(work, frameNum)
  /\ dspPc' = "shift" /\ frameNum' = frameNum + 1
  /\ UNCHANGED <<poolVars, halfA, halfB, wfFree, workerPc, job, wfSent>>

PostFullLosesBuffer ==
  /\ dspPc = "post"
  /\ work' = IF Len(work) < WorkDepth THEN Append(work, frameNum) ELSE work
  /\ dspPc' = "shift" /\ frameNum' = frameNum + 1
  /\ UNCHANGED <<poolVars, halfA, halfB, wfFree, workerPc, job, wfSent>>

PostReturnsToo ==
  /\ dspPc = "post"
  /\ work' = IF Len(work) < WorkDepth THEN Append(work, frameNum) ELSE work
  /\ wfFree' = wfFree + 1
  /\ dspPc' = "shift" /\ frameNum' = frameNum + 1
  /\ UNCHANGED <<poolVars, halfA, halfB, workerPc, job, wfSent>>

\* work_tx.try_send: a full channel returns the buffer, the frame is skipped.
PostJob ==
  /\ dspPc = "post"
  /\ IF Len(work) < WorkDepth
       THEN work' = Append(work, frameNum) /\ UNCHANGED wfFree
       ELSE wfFree < WfPool /\ wfFree' = wfFree + 1 /\ UNCHANGED work
  /\ dspPc' = "shift" /\ frameNum' = frameNum + 1
  /\ UNCHANGED <<poolVars, halfA, halfB, workerPc, job, wfSent>>

DspStep == \/ LoadA \/ LoadB \/ InputEnds \/ Shift \/ GiveBack
           \/ FrameIdle \/ FftFails \/ FrameAudioOnly \/ FrameWaterfall
           \/ TakeSpectrum \/ PostJob
-----------------------------------------------------------------------------
(* The waterfall worker *)

\* Wrong variant: the newest job first.
WorkerTakeNewest ==
  /\ workerPc = "recv" /\ work # <<>>
  /\ job' = work[Len(work)] /\ work' = SubSeq(work, 1, Len(work) - 1)
  /\ workerPc' = "send"
  /\ UNCHANGED <<poolVars, dspVars, wfFree, wfSent>>

WorkerTake ==
  /\ workerPc = "recv" /\ work # <<>>
  /\ job' = Head(work) /\ work' = Tail(work)
  /\ workerPc' = "send"
  /\ UNCHANGED <<poolVars, dspVars, wfFree, wfSent>>

\* quantize_and_downsample, send_waterfall.
WorkerSend ==
  /\ workerPc = "send"
  /\ wfSent' = job + 1
  /\ workerPc' = "return"
  /\ UNCHANGED <<poolVars, dspVars, wfFree, work, job>>

\* free_tx_for_worker.send blocks while the channel is full; once the DSP
\* thread is gone it fails and the buffer is freed.
WorkerReturn ==
  /\ workerPc = "return"
  /\ IF DspAlive THEN wfFree < WfPool /\ wfFree' = wfFree + 1
                 ELSE UNCHANGED wfFree
  /\ workerPc' = "recv"
  /\ UNCHANGED <<poolVars, dspVars, work, job, wfSent>>

\* work_rx.recv fails: the DSP thread is gone and the channel is empty.
WorkerEnds ==
  /\ workerPc = "recv" /\ work = <<>> /\ ~DspAlive
  /\ workerPc' = "ended"
  /\ UNCHANGED <<poolVars, dspVars, wfFree, work, job, wfSent>>

WorkerStep == WorkerTake \/ WorkerSend \/ WorkerReturn \/ WorkerEnds
-----------------------------------------------------------------------------
Next == ReaderStep \/ DspStep \/ WorkerStep

\* The scheduler runs the reader and the DSP thread, and the input delivers
\* or fails.  Nothing is assumed of the worker: it may be slow for ever.
Fairness == WF_vars(ReaderStep) /\ WF_vars(DspStep)

Spec == Init /\ [][Next]_vars /\ Fairness
-----------------------------------------------------------------------------
(* Properties *)

\* Sample buffers in the hands of a thread.
ReaderHolds == IF readerPc \in {"read", "send"} THEN 1 ELSE 0
DspHolds == IF dspPc = "loadA" THEN 0
            ELSE IF dspPc = "loadB" THEN 1
            ELSE IF dspPc = "giveBack" THEN 3 ELSE 2

\* While both threads run, no sample buffer is lost and none is duplicated.
PoolConserved ==
  (Threaded /\ readerPc # "ended" /\ DspAlive)
    => free + Len(filled) + ReaderHolds + DspHolds = PoolDepth

SpectrumHeld == IF dspPc = "post" THEN 1 ELSE 0
WorkerHolds == IF workerPc \in {"send", "return"} THEN 1 ELSE 0

\* While the DSP thread runs, no spectrum buffer is lost or duplicated, on
\* the skipped frames either.
SpectraConserved ==
  (Offloaded /\ DspAlive)
    => wfFree + SpectrumHeld + Len(work) + WorkerHolds = WfPool

\* No thread ever waits in a send: a returned buffer always finds room, and
\* so does a filled one (the reader's "dropping buffers" branch is dead).
NoSendBlocks ==
  /\ (dspPc = "giveBack" /\ readerPc # "ended") => free < PoolDepth
  /\ (readerPc = "send" /\ DspAlive) => Len(filled) < PoolDepth
  /\ (workerPc = "return" /\ DspAlive) => wfFree < WfPool
  /\ dspPc = "post" => wfFree < WfPool

Stream == INSTANCE FrameStream WITH halfA <- halfA, halfB <- halfB

\* The DSP loop implements the overlapping stream: through all the channels
\* no half-frame is skipped, repeated or reordered.
ImplementsStream == Stream!StreamSpec

\* Waterfall frames reach the clients in frame order, none twice, although
\* the worker lags behind the DSP thread.
WaterfallInOrder == [][wfSent' # wfSent => wfSent' > wfSent]_vars

\* The pool never starves the pipeline: whatever the input still delivers is
\* processed, even if the waterfall worker never runs again.
StreamFlows ==
  \A k \in 1..MaxReads : <>(halfB >= k \/ ~DspAlive)
=============================================================================
