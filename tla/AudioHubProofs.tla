--------------------------- MODULE AudioHubProofs ---------------------------
(***************************************************************************)
(* For all clients, receivers, shards and queue capacities: map, signals,  *)
(* parameters, pipeline, settings and packets of the audio clients agree,  *)
(* and no client is worked on by two DSP threads, however handlers, send   *)
(* tasks and send_audio interleave.                                        *)
(***************************************************************************)
EXTENDS AudioHub, SequenceTheorems, TLAPS

USE AudioAssumption

(***************************************************************************)
(* The inductive invariant.                                                *)
(***************************************************************************)

\* The type invariant in parts.
RegistryTypes == registered \subseteq Clients \X Receivers
SignalTypes == signals \subseteq Shows \X Clients \X Windows
HandlerTypes ==
  /\ pc \in [Clients -> HandlerPC]
  /\ home \in [Clients -> Receivers] /\ target \in [Clients -> Receivers]
PipelineTypes == tune \in [Clients -> Tuning] /\ pipe \in [Clients -> Receivers]
QueueTypes ==
  /\ rx \in [Clients -> Seq(Packet)] /\ out \in [Clients -> Seq(Receivers)]
  /\ \A c \in Clients : Len(rx[c]) <= QueueCap /\ Len(out[c]) <= OutCap
SenderTypes ==
  /\ sender \in [Clients -> {"none", "poll", "take", "dead"}]
  /\ shown \in [Clients -> Receivers \cup {None}]
  /\ wire \in [Clients -> Packet \cup {Silence}]
DspTypes == dsp \in [Receivers -> DspState]

Types ==
  /\ RegistryTypes /\ SignalTypes /\ HandlerTypes /\ PipelineTypes
  /\ QueueTypes /\ SenderTypes /\ DspTypes

\* The map its handler has put a client in, by where the handler is.
Place(c) ==
  IF pc[c] \in {"signal", "ready", "window", "demodulation", "swRemove", "swSignal",
                "swSend", "leave"} THEN {home[c]}
  ELSE IF pc[c] \in {"swTune", "swPipe", "swUnsignal"} THEN {target[c]} ELSE {}
PlacedAt(c) == \A r \in Receivers : <<c, r>> \in registered <=> r \in Place(c)
Placed == \A c \in Clients : PlacedAt(c)

\* Parameters and pipeline follow the client one after the other.
TunedAt(c) ==
  /\ tune[c].rcv = IF pc[c] \in {"swPipe", "swUnsignal"} THEN target[c] ELSE home[c]
  /\ pipe[c] = IF pc[c] = "swUnsignal" THEN target[c] ELSE home[c]
  /\ pc[c] \in {"closed", "insert", "signal", "swPipe", "swUnsignal", "swSignal", "swSend"} =>
       tune[c].win = "default"
  /\ pc[c] = "closed" => home[c] = Active
Tuned == \A c \in Clients : TunedAt(c)

\* What the others see of a client: nothing before it is announced, its window
\* while no command changes it, and never anything of another receiver.
SignalledAt(c) == \A r \in Receivers, w \in Windows :
  /\ <<r, c, w>> \in signals => /\ r = home[c]
                                /\ pc[c] \notin {"closed", "insert", "signal"}
  /\ pc[c] \in {"ready", "demodulation", "swRemove", "swInsert", "swTune", "swSend", "leave"} =>
       (<<r, c, w>> \in signals <=> r = home[c] /\ r \in Shows /\ w = tune[c].win)
SignalsFollow == \A c \in Clients : SignalledAt(c)

\* While send_audio is in a shard its clients stay in the map; packets it has
\* made are of the pipeline the client has.
HeldBy(r) ==
  /\ dsp[r].pc \in {"idle", "visit"} => dsp[r].cur = {}
  /\ dsp[r].pc \in {"read", "lock"} => \E c \in Clients : dsp[r].cur = {c}
  /\ dsp[r].pc # "idle" => \A c \in dsp[r].todo \cup dsp[r].cur :
       <<c, r>> \in registered /\ ShardOf[c] = dsp[r].shard
  /\ dsp[r].pc = "post" => \A p \in dsp[r].made, c \in dsp[r].cur :
       p = [rcv |-> r, pipe |-> pipe[c]]
Held == \A r \in Receivers : HeldBy(r)

Alive(c) == sender[c] \in {"poll", "take"}

\* The settings the client was sent or will be sent last.
Announced(c) == IF out[c] = <<>> THEN shown[c] ELSE out[c][Len(out[c])]

Clean(c) == [rcv |-> home[c], pipe |-> home[c]]

\* Until a switch has put it into the new map, a client whose settings are all
\* sent gets packets of its receiver only.
CleanAt(c) ==
  /\ sender[c] = "take" => rx[c] # <<>>
  /\ Alive(c) /\ pc[c] \in {"insert", "signal", "ready", "window", "demodulation", "swRemove",
                            "swInsert"} =>
       /\ Announced(c) = home[c]
       /\ out[c] = <<>> => /\ wire[c] \in {Silence, Clean(c)}
                           /\ \A i \in DOMAIN rx[c] : rx[c][i] = Clean(c)
PacketsClean == \A c \in Clients : CleanAt(c)

IInv == Types /\ Placed /\ Tuned /\ SignalsFollow /\ Held /\ PacketsClean
-----------------------------------------------------------------------------
\* The last element of an extended sequence.
LEMMA LastOfAppend ==
  ASSUME NEW S, NEW q \in Seq(S), NEW e \in S
  PROVE  Append(q, e) # <<>> /\ Append(q, e)[Len(Append(q, e))] = e
  BY AppendProperties

\* What an extended sequence holds, and where it starts.
LEMMA EntriesOfAppend ==
  ASSUME NEW S, NEW q \in Seq(S), NEW e \in S
  PROVE  /\ Append(q, e) # <<>>
         /\ Head(Append(q, e)) = IF q = <<>> THEN e ELSE Head(q)
         /\ \A j \in DOMAIN Append(q, e) :
              Append(q, e)[j] = e \/ (j \in DOMAIN q /\ Append(q, e)[j] = q[j])
<1>1. /\ Append(q, e) \in Seq(S) /\ Append(q, e) # <<>>
      /\ Len(Append(q, e)) = Len(q) + 1 /\ Append(q, e)[Len(q) + 1] = e
      /\ \A j \in 1..Len(q) : Append(q, e)[j] = q[j]
  BY AppendProperties
<1>2. Len(q) \in Nat /\ DOMAIN q = 1..Len(q) /\ DOMAIN Append(q, e) = 1..(Len(q) + 1)
  BY <1>1, LenProperties
<1>3. Head(Append(q, e)) = IF q = <<>> THEN e ELSE Head(q)
  BY HeadTailAppend
<1>4. ASSUME NEW j \in DOMAIN Append(q, e)
      PROVE  Append(q, e)[j] = e \/ (j \in DOMAIN q /\ Append(q, e)[j] = q[j])
  BY <1>1, <1>2
<1>5. QED
  BY <1>1, <1>3, <1>4

\* The last element survives the removal of the first, unless it is the first.
LEMMA LastOfTail ==
  ASSUME NEW S, NEW q \in Seq(S), q # <<>>
  PROVE  IF Tail(q) = <<>> THEN Head(q) = q[Len(q)]
                           ELSE Tail(q)[Len(Tail(q))] = q[Len(q)]
<1> DEFINE t == Tail(q)
<1>1. /\ t \in Seq(S) /\ Len(t) = Len(q) - 1
      /\ \A i \in 1..Len(t) : t[i] = q[i + 1]
  BY HeadTailProperties
<1>2. Len(q) \in Nat \ {0} /\ (t # <<>> => Len(t) \in Nat \ {0})
  BY <1>1, EmptySeq
<1> HIDE DEF t
<1>3. CASE t = <<>>
  <2>1. Len(q) = 1
    BY <1>1, <1>2, <1>3
  <2>2. QED
    BY <1>3, <2>1 DEF t
<1>4. CASE t # <<>>
  <2>1. t[Len(t)] = q[Len(q)]
    BY <1>1, <1>2, <1>4
  <2>2. QED
    BY <1>4, <2>1 DEF t
<1>5. QED
  BY <1>3, <1>4

\* Between two shards send_audio remembers nothing.
LEMMA IdleType == Idle \in DspState
  BY DEF Idle, DspState

\* Windows a broadcast may name, and what it leaves of the signals.
LEMMA SignalFacts ==
  /\ "default" \in Windows /\ \A r \in Receivers : Default(r) \in Tuning
  /\ \A r \in Receivers, c \in Clients : Entry(r, c) \subseteq signals
  BY DEF Windows, Default, Tuning, Entry

\* A broadcast of r and c sets, or removes, their entry and no other.
LEMMA AnnounceEffect ==
  ASSUME SignalTypes, NEW r \in Receivers, NEW c \in Clients, NEW win \in Windows,
         Announce(r, c, win)
  PROVE  \A s \in Receivers, d \in Clients, w \in Windows : <<s, d, w>> \in signals' <=>
           IF s = r /\ d = c THEN r \in Shows /\ w = win ELSE <<s, d, w>> \in signals
  BY DEF SignalTypes, Announce, Entry

\* A withdrawal removes the entry of r and c and no other.
LEMMA WithdrawEffect ==
  ASSUME NEW r \in Receivers, NEW c \in Clients, Withdraw(r, c)
  PROVE  \A s \in Receivers, d \in Clients, w \in Windows : <<s, d, w>> \in signals' <=>
           <<s, d, w>> \in signals /\ ~(s = r /\ d = c)
  BY DEF Withdraw, Entry

\* The parts hold at first: no client is connected.
LEMMA InitInvariant == Init => IInv
<1> SUFFICES ASSUME Init PROVE IInv
  OBVIOUS
<1> USE DEF Init
<1>1. Types
  BY IdleType, SignalFacts, EmptySeq
  DEF Types, RegistryTypes, SignalTypes, HandlerTypes, HandlerPC, PipelineTypes, QueueTypes,
      SenderTypes, DspTypes
<1>2. Placed /\ Tuned /\ SignalsFollow
  BY DEF Placed, PlacedAt, Place, Tuned, TunedAt, Default, SignalsFollow, SignalledAt
<1>3. Held /\ PacketsClean
  BY DEF Held, HeldBy, Idle, PacketsClean, CleanAt, Alive
<1>4. QED
  BY <1>1, <1>2, <1>3 DEF IInv

\* The registry keeps its type.
LEMMA RegistryTypesStep ==
  ASSUME RegistryTypes, HandlerTypes, [Next]_vars
  PROVE  RegistryTypes'
<1> USE DEF RegistryTypes, HandlerTypes, Goto, handlerVars, sendVars
<1>1. ASSUME NEW c \in Clients,
             Connect(c) \/ Insert(c) \/ Signal(c) \/ Window(c) \/ WindowSignal(c) \/
                Demodulation(c) \/ DemodulationReset(c) \/ Reselect(c) \/
                SwitchRemove(c) \/ SwitchInsert(c) \/ SwitchTune(c) \/ SwitchPipe(c) \/
                SwitchUnsignal(c) \/ SwitchSignal(c) \/ SwitchSend(c) \/ Leave(c) \/
                LeaveRemove(c) \/ LeaveUnsignal(c) \/ SendSettings(c) \/ PollPackets(c)
                \/ SendPacket(c) \/ SenderDies(c)
      PROVE  RegistryTypes'
  BY <1>1 DEF Connect, Insert, Signal, Window, WindowSignal, Demodulation,
     DemodulationReset, Reselect, SwitchRemove, SwitchInsert, SwitchTune, SwitchPipe,
     SwitchUnsignal, SwitchSignal, SwitchSend, Leave, LeaveRemove, LeaveUnsignal,
     SendSettings, PollPackets, SendPacket, SenderDies
<1>2. ASSUME NEW c \in Clients, NEW r \in Receivers, Switch(c, r)
      PROVE  RegistryTypes'
  BY <1>2 DEF Switch
<1>3. ASSUME NEW r \in Running,
             DspEnter(r) \/ DspNext(r) \/ DspRead(r) \/ DspProcess(r) \/ DspPost(r) \/
                DspLeave(r)
      PROVE  RegistryTypes'
  BY <1>3 DEF DspEnter, DspNext, DspRead, DspProcess, DspPost, DspLeave
<1>4. CASE UNCHANGED vars
  BY <1>4 DEF vars, sendVars
<1>5. QED
  BY <1>1, <1>2, <1>3, <1>4 DEF Next, Handler, SendTask, SendAudio

\* Signals keep their type: only receivers that show other users have any.
LEMMA SignalTypesStep ==
  ASSUME SignalTypes, HandlerTypes, PipelineTypes, [Next]_vars
  PROVE  SignalTypes'
<1> USE DEF SignalTypes, HandlerTypes, PipelineTypes, Goto, handlerVars, sendVars
<1>1. ASSUME NEW c \in Clients, Signal(c)
      PROVE  SignalTypes'
  BY SignalFacts, <1>1 DEF Signal, Announce, Entry, Tuning
<1>2. ASSUME NEW c \in Clients, WindowSignal(c)
      PROVE  SignalTypes'
  BY SignalFacts, <1>2 DEF WindowSignal, Announce, Entry, Tuning
<1>3. ASSUME NEW c \in Clients, SwitchUnsignal(c)
      PROVE  SignalTypes'
  BY <1>3 DEF SwitchUnsignal, Withdraw
<1>4. ASSUME NEW c \in Clients, SwitchSignal(c)
      PROVE  SignalTypes'
  BY SignalFacts, <1>4 DEF SwitchSignal, Announce, Entry, Tuning
<1>5. ASSUME NEW c \in Clients, LeaveUnsignal(c)
      PROVE  SignalTypes'
  BY <1>5 DEF LeaveUnsignal, Withdraw
<1>6. ASSUME NEW c \in Clients,
             Connect(c) \/ Insert(c) \/ Window(c) \/ Demodulation(c) \/
                DemodulationReset(c) \/ Reselect(c) \/ SwitchRemove(c) \/
                SwitchInsert(c) \/ SwitchTune(c) \/ SwitchPipe(c) \/ SwitchSend(c) \/
                Leave(c) \/ LeaveRemove(c) \/ SendSettings(c) \/ PollPackets(c) \/
                SendPacket(c) \/ SenderDies(c)
      PROVE  SignalTypes'
  BY <1>6 DEF Connect, Insert, Window, Demodulation, DemodulationReset, Reselect,
     SwitchRemove, SwitchInsert, SwitchTune, SwitchPipe, SwitchSend, Leave, LeaveRemove,
     SendSettings, PollPackets, SendPacket, SenderDies
<1>7. ASSUME NEW c \in Clients, NEW r \in Receivers, Switch(c, r)
      PROVE  SignalTypes'
  BY <1>7 DEF Switch
<1>8. ASSUME NEW r \in Running,
             DspEnter(r) \/ DspNext(r) \/ DspRead(r) \/ DspProcess(r) \/ DspPost(r) \/
                DspLeave(r)
      PROVE  SignalTypes'
  BY <1>8 DEF DspEnter, DspNext, DspRead, DspProcess, DspPost, DspLeave
<1>9. CASE UNCHANGED vars
  BY <1>9 DEF vars, sendVars
<1>10. QED
  BY <1>1, <1>2, <1>3, <1>4, <1>5, <1>6, <1>7, <1>8, <1>9 DEF Next, Handler, SendTask,
     SendAudio

\* The handlers keep their types.
LEMMA HandlerTypesStep ==
  ASSUME HandlerTypes, [Next]_vars
  PROVE  HandlerTypes'
<1> USE DEF HandlerTypes, HandlerPC, Goto, handlerVars, sendVars
<1>1. ASSUME NEW c \in Clients, SwitchSend(c)
      PROVE  HandlerTypes'
  BY <1>1 DEF SwitchSend
<1>2. ASSUME NEW c \in Clients,
             Connect(c) \/ Insert(c) \/ Signal(c) \/ Window(c) \/ WindowSignal(c) \/
                Demodulation(c) \/ DemodulationReset(c) \/ Reselect(c) \/
                SwitchRemove(c) \/ SwitchInsert(c) \/ SwitchTune(c) \/ SwitchPipe(c) \/
                SwitchUnsignal(c) \/ SwitchSignal(c) \/ Leave(c) \/ LeaveRemove(c) \/
                LeaveUnsignal(c) \/ SendSettings(c) \/ PollPackets(c) \/ SendPacket(c)
                \/ SenderDies(c)
      PROVE  HandlerTypes'
  BY <1>2 DEF Connect, Insert, Signal, Window, WindowSignal, Demodulation,
     DemodulationReset, Reselect, SwitchRemove, SwitchInsert, SwitchTune, SwitchPipe,
     SwitchUnsignal, SwitchSignal, Leave, LeaveRemove, LeaveUnsignal, SendSettings,
     PollPackets, SendPacket, SenderDies
<1>3. ASSUME NEW c \in Clients, NEW r \in Receivers, Switch(c, r)
      PROVE  HandlerTypes'
  BY <1>3 DEF Switch
<1>4. ASSUME NEW r \in Running,
             DspEnter(r) \/ DspNext(r) \/ DspRead(r) \/ DspProcess(r) \/ DspPost(r) \/
                DspLeave(r)
      PROVE  HandlerTypes'
  BY <1>4 DEF DspEnter, DspNext, DspRead, DspProcess, DspPost, DspLeave
<1>5. CASE UNCHANGED vars
  BY <1>5 DEF vars, sendVars
<1>6. QED
  BY <1>1, <1>2, <1>3, <1>4, <1>5 DEF Next, Handler, SendTask, SendAudio

\* Parameters and pipelines keep their types.
LEMMA PipelineTypesStep ==
  ASSUME PipelineTypes, HandlerTypes, [Next]_vars
  PROVE  PipelineTypes'
<1> USE DEF PipelineTypes, HandlerTypes, Goto, handlerVars, sendVars
<1>1. ASSUME NEW c \in Clients, Window(c)
      PROVE  PipelineTypes'
  BY <1>1 DEF Window, Tuning
<1>2. ASSUME NEW c \in Clients, Reselect(c)
      PROVE  PipelineTypes'
  BY SignalFacts, <1>2 DEF Reselect
<1>3. ASSUME NEW c \in Clients, SwitchTune(c)
      PROVE  PipelineTypes'
  BY SignalFacts, <1>3 DEF SwitchTune
<1>4. ASSUME NEW c \in Clients, LeaveUnsignal(c)
      PROVE  PipelineTypes'
  BY SignalFacts, <1>4 DEF LeaveUnsignal
<1>5. ASSUME NEW c \in Clients,
             Connect(c) \/ Insert(c) \/ Signal(c) \/ WindowSignal(c) \/ Demodulation(c)
                \/ DemodulationReset(c) \/ SwitchRemove(c) \/ SwitchInsert(c) \/
                SwitchPipe(c) \/ SwitchUnsignal(c) \/ SwitchSignal(c) \/ SwitchSend(c)
                \/ Leave(c) \/ LeaveRemove(c) \/ SendSettings(c) \/ PollPackets(c) \/
                SendPacket(c) \/ SenderDies(c)
      PROVE  PipelineTypes'
  BY <1>5 DEF Connect, Insert, Signal, WindowSignal, Demodulation, DemodulationReset,
     SwitchRemove, SwitchInsert, SwitchPipe, SwitchUnsignal, SwitchSignal, SwitchSend,
     Leave, LeaveRemove, SendSettings, PollPackets, SendPacket, SenderDies
<1>6. ASSUME NEW c \in Clients, NEW r \in Receivers, Switch(c, r)
      PROVE  PipelineTypes'
  BY <1>6 DEF Switch
<1>7. ASSUME NEW r \in Running,
             DspEnter(r) \/ DspNext(r) \/ DspRead(r) \/ DspProcess(r) \/ DspPost(r) \/
                DspLeave(r)
      PROVE  PipelineTypes'
  BY <1>7 DEF DspEnter, DspNext, DspRead, DspProcess, DspPost, DspLeave
<1>8. CASE UNCHANGED vars
  BY <1>8 DEF vars, sendVars
<1>9. QED
  BY <1>1, <1>2, <1>3, <1>4, <1>5, <1>6, <1>7, <1>8 DEF Next, Handler, SendTask,
     SendAudio

\* send_audio queues a packet of its receiver, made by the pipeline of a client
\* in its map.
LEMMA Posted ==
  ASSUME DspTypes, QueueTypes, Held, NEW r \in Running, DspPost(r)
  PROVE  \E c \in Clients, p \in Packet :
           \/ rx' = rx
           \/ /\ Alive(c) /\ Len(rx[c]) < QueueCap /\ <<c, r>> \in registered
              /\ p = [rcv |-> r, pipe |-> pipe[c]]
              /\ rx' = [rx EXCEPT ![c] = Append(rx[c], p)]
<1>1. PICK c \in dsp[r].cur :
        rx' = IF sender[c] \in {"poll", "take"} /\ Len(rx[c]) < QueueCap /\ dsp[r].made # {}
                THEN [rx EXCEPT ![c] = Append(@, CHOOSE p \in dsp[r].made : TRUE)] ELSE rx
  BY DEF DspPost
<1>2. dsp[r] \in DspState /\ r \in Receivers /\ dsp[r].pc = "post"
  BY DEF DspPost, DspTypes
<1>3. c \in Clients /\ <<c, r>> \in registered /\ dsp[r].made \subseteq Packet
  BY <1>2 DEF DspState, Held, HeldBy
<1>4. CASE dsp[r].made = {}
  <2>1. [rcv |-> r, pipe |-> r] \in Packet
    BY <1>2 DEF Packet
  <2>2. rx' = rx
    BY <1>1, <1>4
  <2>3. QED
    BY <1>3, <2>1, <2>2
<1>5. CASE dsp[r].made # {}
  <2> DEFINE p == CHOOSE x \in dsp[r].made : TRUE
  <2>1. p \in dsp[r].made
    BY <1>5
  <2>2. p = [rcv |-> r, pipe |-> pipe[c]]
    BY <1>2, <2>1 DEF Held, HeldBy
  <2>3. rx' = IF sender[c] \in {"poll", "take"} /\ Len(rx[c]) < QueueCap
                THEN [rx EXCEPT ![c] = Append(rx[c], p)] ELSE rx
    BY <1>1, <1>5 DEF QueueTypes
  <2> HIDE DEF p
  <2>4. QED
    BY <1>3, <2>1, <2>2, <2>3 DEF Alive
<1>6. QED
  BY <1>4, <1>5

\* The queues keep their types and stay within their capacities.
LEMMA QueueTypesStep ==
  ASSUME QueueTypes, HandlerTypes, DspTypes, Held, PacketsClean, [Next]_vars
  PROVE  QueueTypes'
<1> USE DEF QueueTypes, Goto, handlerVars, sendVars
<1>1. ASSUME NEW c \in Clients, Connect(c)
      PROVE  QueueTypes'
  <2>1. /\ <<Active>> \in Seq(Receivers) /\ Len(<<Active>>) = 1
    OBVIOUS
  <2>2. QED
    BY <1>1, <2>1 DEF Connect
<1>2. ASSUME NEW c \in Clients, SwitchSend(c)
      PROVE  QueueTypes'
  <2>1. CASE sender[c] = "dead"
    BY <1>2, <2>1 DEF SwitchSend
  <2>2. CASE sender[c] # "dead"
    <3>1. /\ out' = [out EXCEPT ![c] = Append(out[c], home[c])] /\ rx' = rx
          /\ out[c] \in Seq(Receivers) /\ home[c] \in Receivers
          /\ Len(out[c]) \in Nat /\ Len(out[c]) < OutCap
      BY <1>2, <2>2, LenProperties DEF SwitchSend, HandlerTypes
    <3>2. Append(out[c], home[c]) \in Seq(Receivers) /\ Len(Append(out[c], home[c])) <= OutCap
      BY <3>1, AppendProperties
    <3>3. QED
      BY <3>1, <3>2
  <2>3. QED
    BY <2>1, <2>2
<1>3. ASSUME NEW c \in Clients, LeaveUnsignal(c)
      PROVE  QueueTypes'
  BY EmptySeq, <1>3 DEF LeaveUnsignal
<1>4. ASSUME NEW c \in Clients, SendSettings(c)
      PROVE  QueueTypes'
  BY EmptySeq, HeadTailProperties, <1>4 DEF SendSettings
<1>5. ASSUME NEW c \in Clients, SendPacket(c)
      PROVE  QueueTypes'
  BY HeadTailProperties, <1>5 DEF SendPacket, PacketsClean, CleanAt
<1>6. ASSUME NEW c \in Clients, SenderDies(c)
      PROVE  QueueTypes'
  BY EmptySeq, <1>6 DEF SenderDies
<1>7. ASSUME NEW r \in Running, DspPost(r)
      PROVE  QueueTypes'
  <2>1. PICK c \in Clients, p \in Packet :
          \/ rx' = rx
          \/ /\ Alive(c) /\ Len(rx[c]) < QueueCap /\ <<c, r>> \in registered
             /\ p = [rcv |-> r, pipe |-> pipe[c]]
             /\ rx' = [rx EXCEPT ![c] = Append(rx[c], p)]
    BY <1>7, Posted
  <2>2. out' = out
    BY <1>7 DEF DspPost
  <2>3. CASE rx' = rx
    BY <2>2, <2>3
  <2>4. CASE rx' # rx
    <3>1. /\ rx' = [rx EXCEPT ![c] = Append(rx[c], p)] /\ Len(rx[c]) < QueueCap
          /\ rx[c] \in Seq(Packet) /\ Len(rx[c]) \in Nat
      BY <2>1, <2>4, LenProperties
    <3>2. Append(rx[c], p) \in Seq(Packet) /\ Len(Append(rx[c], p)) <= QueueCap
      BY <3>1, AppendProperties
    <3>3. QED
      BY <2>2, <3>1, <3>2
  <2>5. QED
    BY <2>3, <2>4
<1>8. ASSUME NEW c \in Clients,
             Insert(c) \/ Signal(c) \/ Window(c) \/ WindowSignal(c) \/ Demodulation(c)
                \/ DemodulationReset(c) \/ Reselect(c) \/ SwitchRemove(c) \/
                SwitchInsert(c) \/ SwitchTune(c) \/ SwitchPipe(c) \/ SwitchUnsignal(c)
                \/ SwitchSignal(c) \/ Leave(c) \/ LeaveRemove(c) \/ PollPackets(c)
      PROVE  QueueTypes'
  BY <1>8 DEF Insert, Signal, Window, WindowSignal, Demodulation, DemodulationReset,
     Reselect, SwitchRemove, SwitchInsert, SwitchTune, SwitchPipe, SwitchUnsignal,
     SwitchSignal, Leave, LeaveRemove, PollPackets
<1>9. ASSUME NEW c \in Clients, NEW r \in Receivers, Switch(c, r)
      PROVE  QueueTypes'
  BY <1>9 DEF Switch
<1>10. ASSUME NEW r \in Running,
             DspEnter(r) \/ DspNext(r) \/ DspRead(r) \/ DspProcess(r) \/ DspLeave(r)
      PROVE  QueueTypes'
  BY <1>10 DEF DspEnter, DspNext, DspRead, DspProcess, DspLeave
<1>11. CASE UNCHANGED vars
  BY <1>11 DEF vars, sendVars
<1>12. QED
  BY <1>1, <1>2, <1>3, <1>4, <1>5, <1>6, <1>7, <1>8, <1>9, <1>10, <1>11 DEF Next,
     Handler, SendTask, SendAudio

\* The send tasks keep their types.
LEMMA SenderTypesStep ==
  ASSUME SenderTypes, QueueTypes, PacketsClean, [Next]_vars
  PROVE  SenderTypes'
<1> USE DEF SenderTypes, Goto, handlerVars, sendVars
<1>1. ASSUME NEW c \in Clients, SendSettings(c)
      PROVE  SenderTypes'
  BY HeadTailProperties, <1>1 DEF SendSettings, QueueTypes
<1>2. ASSUME NEW c \in Clients, SendPacket(c)
      PROVE  SenderTypes'
  BY HeadTailProperties, <1>2 DEF SendPacket, PacketsClean, CleanAt, QueueTypes
<1>3. ASSUME NEW c \in Clients,
             Connect(c) \/ Insert(c) \/ Signal(c) \/ Window(c) \/ WindowSignal(c) \/
                Demodulation(c) \/ DemodulationReset(c) \/ Reselect(c) \/
                SwitchRemove(c) \/ SwitchInsert(c) \/ SwitchTune(c) \/ SwitchPipe(c) \/
                SwitchUnsignal(c) \/ SwitchSignal(c) \/ SwitchSend(c) \/ Leave(c) \/
                LeaveRemove(c) \/ LeaveUnsignal(c) \/ PollPackets(c) \/ SenderDies(c)
      PROVE  SenderTypes'
  BY <1>3 DEF Connect, Insert, Signal, Window, WindowSignal, Demodulation,
     DemodulationReset, Reselect, SwitchRemove, SwitchInsert, SwitchTune, SwitchPipe,
     SwitchUnsignal, SwitchSignal, SwitchSend, Leave, LeaveRemove, LeaveUnsignal,
     PollPackets, SenderDies
<1>4. ASSUME NEW c \in Clients, NEW r \in Receivers, Switch(c, r)
      PROVE  SenderTypes'
  BY <1>4 DEF Switch
<1>5. ASSUME NEW r \in Running,
             DspEnter(r) \/ DspNext(r) \/ DspRead(r) \/ DspProcess(r) \/ DspPost(r) \/
                DspLeave(r)
      PROVE  SenderTypes'
  BY <1>5 DEF DspEnter, DspNext, DspRead, DspProcess, DspPost, DspLeave
<1>6. CASE UNCHANGED vars
  BY <1>6 DEF vars, sendVars
<1>7. QED
  BY <1>1, <1>2, <1>3, <1>4, <1>5, <1>6 DEF Next, Handler, SendTask, SendAudio

\* send_audio keeps its types.
LEMMA DspTypesStep ==
  ASSUME DspTypes, PipelineTypes, [Next]_vars
  PROVE  DspTypes'
<1> USE DEF DspTypes, Goto, handlerVars, sendVars
<1>1. ASSUME NEW r \in Running, DspEnter(r)
      PROVE  DspTypes'
  <2>1. PICK t \in Shards :
          dsp' = [dsp EXCEPT ![r] = [Idle EXCEPT !.pc = "visit", !.shard = t,
                                       !.todo = InShard(r, t)]]
    BY <1>1 DEF DspEnter
  <2>2. [Idle EXCEPT !.pc = "visit", !.shard = t, !.todo = InShard(r, t)] \in DspState
    BY DEF DspState, Idle, InShard
  <2>3. QED
    BY <2>1, <2>2
<1>2. ASSUME NEW r \in Running, DspNext(r)
      PROVE  DspTypes'
  BY <1>2 DEF DspNext, DspState
<1>3. ASSUME NEW r \in Running, DspRead(r)
      PROVE  DspTypes'
  BY <1>3 DEF DspRead, DspState
<1>4. ASSUME NEW r \in Running, DspProcess(r)
      PROVE  DspTypes'
  <2>1. PICK c \in dsp[r].cur : \E made \in {{}, {[rcv |-> r, pipe |-> pipe[c]]}} :
          dsp' = [dsp EXCEPT ![r].pc = "post", ![r].made = made]
    BY <1>4 DEF DspProcess
  <2>2. dsp[r] \in DspState /\ c \in Clients
    BY DEF DspState
  <2>3. [rcv |-> r, pipe |-> pipe[c]] \in Packet
    BY <2>2 DEF Packet, PipelineTypes
  <2>4. QED
    BY <2>1, <2>2, <2>3 DEF DspState
<1>5. ASSUME NEW r \in Running, DspPost(r)
      PROVE  DspTypes'
  BY <1>5 DEF DspPost, DspState
<1>6. ASSUME NEW r \in Running, DspLeave(r)
      PROVE  DspTypes'
  BY IdleType, <1>6 DEF DspLeave
<1>7. ASSUME NEW c \in Clients,
             Connect(c) \/ Insert(c) \/ Signal(c) \/ Window(c) \/ WindowSignal(c) \/
                Demodulation(c) \/ DemodulationReset(c) \/ Reselect(c) \/
                SwitchRemove(c) \/ SwitchInsert(c) \/ SwitchTune(c) \/ SwitchPipe(c) \/
                SwitchUnsignal(c) \/ SwitchSignal(c) \/ SwitchSend(c) \/ Leave(c) \/
                LeaveRemove(c) \/ LeaveUnsignal(c) \/ SendSettings(c) \/ PollPackets(c)
                \/ SendPacket(c) \/ SenderDies(c)
      PROVE  DspTypes'
  BY <1>7 DEF Connect, Insert, Signal, Window, WindowSignal, Demodulation,
     DemodulationReset, Reselect, SwitchRemove, SwitchInsert, SwitchTune, SwitchPipe,
     SwitchUnsignal, SwitchSignal, SwitchSend, Leave, LeaveRemove, LeaveUnsignal,
     SendSettings, PollPackets, SendPacket, SenderDies
<1>8. ASSUME NEW c \in Clients, NEW r \in Receivers, Switch(c, r)
      PROVE  DspTypes'
  BY <1>8 DEF Switch
<1>9. CASE UNCHANGED vars
  BY <1>9 DEF vars, sendVars
<1>10. QED
  BY <1>1, <1>2, <1>3, <1>4, <1>5, <1>6, <1>7, <1>8, <1>9 DEF Next, Handler, SendTask,
     SendAudio

\* A handler knows the map its client is in.
LEMMA PlacedStep ==
  ASSUME RegistryTypes, HandlerTypes, Placed, [Next]_vars, NEW d \in Clients
  PROVE  PlacedAt(d)'
<1> USE DEF RegistryTypes, HandlerTypes, Placed, PlacedAt, Place, Goto, handlerVars,
   sendVars
<1>1. ASSUME NEW c \in Clients, Connect(c)
      PROVE  PlacedAt(d)'
  BY <1>1 DEF Connect
<1>2. ASSUME NEW c \in Clients, Insert(c)
      PROVE  PlacedAt(d)'
  BY <1>2 DEF Insert
<1>3. ASSUME NEW c \in Clients, Signal(c)
      PROVE  PlacedAt(d)'
  BY <1>3 DEF Signal
<1>4. ASSUME NEW c \in Clients, Window(c)
      PROVE  PlacedAt(d)'
  BY <1>4 DEF Window
<1>5. ASSUME NEW c \in Clients, WindowSignal(c)
      PROVE  PlacedAt(d)'
  BY <1>5 DEF WindowSignal
<1>6. ASSUME NEW c \in Clients, Demodulation(c)
      PROVE  PlacedAt(d)'
  BY <1>6 DEF Demodulation
<1>7. ASSUME NEW c \in Clients, DemodulationReset(c)
      PROVE  PlacedAt(d)'
  BY <1>7 DEF DemodulationReset
<1>8. ASSUME NEW c \in Clients, Reselect(c)
      PROVE  PlacedAt(d)'
  BY <1>8 DEF Reselect
<1>9. ASSUME NEW c \in Clients, NEW r \in Receivers, Switch(c, r)
      PROVE  PlacedAt(d)'
  BY <1>9 DEF Switch
<1>10. ASSUME NEW c \in Clients, SwitchRemove(c)
      PROVE  PlacedAt(d)'
  BY <1>10 DEF SwitchRemove
<1>11. ASSUME NEW c \in Clients, SwitchInsert(c)
      PROVE  PlacedAt(d)'
  BY <1>11 DEF SwitchInsert
<1>12. ASSUME NEW c \in Clients, SwitchTune(c)
      PROVE  PlacedAt(d)'
  BY <1>12 DEF SwitchTune
<1>13. ASSUME NEW c \in Clients, SwitchPipe(c)
      PROVE  PlacedAt(d)'
  BY <1>13 DEF SwitchPipe
<1>14. ASSUME NEW c \in Clients, SwitchUnsignal(c)
      PROVE  PlacedAt(d)'
  BY <1>14 DEF SwitchUnsignal
<1>15. ASSUME NEW c \in Clients, SwitchSignal(c)
      PROVE  PlacedAt(d)'
  BY <1>15 DEF SwitchSignal
<1>16. ASSUME NEW c \in Clients, SwitchSend(c)
      PROVE  PlacedAt(d)'
  BY <1>16 DEF SwitchSend
<1>17. ASSUME NEW c \in Clients, Leave(c)
      PROVE  PlacedAt(d)'
  BY <1>17 DEF Leave
<1>18. ASSUME NEW c \in Clients, LeaveRemove(c)
      PROVE  PlacedAt(d)'
  BY <1>18 DEF LeaveRemove
<1>19. ASSUME NEW c \in Clients, LeaveUnsignal(c)
      PROVE  PlacedAt(d)'
  BY <1>19 DEF LeaveUnsignal
<1>20. ASSUME NEW c \in Clients,
             SendSettings(c) \/ PollPackets(c) \/ SendPacket(c) \/ SenderDies(c)
      PROVE  PlacedAt(d)'
  BY <1>20 DEF SendSettings, PollPackets, SendPacket, SenderDies
<1>21. ASSUME NEW r \in Running,
             DspEnter(r) \/ DspNext(r) \/ DspRead(r) \/ DspProcess(r) \/ DspPost(r) \/
                DspLeave(r)
      PROVE  PlacedAt(d)'
  BY <1>21 DEF DspEnter, DspNext, DspRead, DspProcess, DspPost, DspLeave
<1>22. CASE UNCHANGED vars
  BY <1>22 DEF vars, sendVars
<1>23. QED
  BY <1>1, <1>2, <1>3, <1>4, <1>5, <1>6, <1>7, <1>8, <1>9, <1>10, <1>11, <1>12, <1>13,
     <1>14, <1>15, <1>16, <1>17, <1>18, <1>19, <1>20, <1>21, <1>22 DEF Next, Handler,
     SendTask, SendAudio

\* Parameters and pipeline are those of the map the client is moved to.
LEMMA TunedStep ==
  ASSUME HandlerTypes, PipelineTypes, Tuned, [Next]_vars, NEW d \in Clients
  PROVE  TunedAt(d)'
<1> USE DEF HandlerTypes, PipelineTypes, Tuned, TunedAt, Goto, handlerVars, sendVars
<1>1. ASSUME NEW c \in Clients, Connect(c)
      PROVE  TunedAt(d)'
  BY <1>1 DEF Connect
<1>2. ASSUME NEW c \in Clients, Insert(c)
      PROVE  TunedAt(d)'
  BY <1>2 DEF Insert
<1>3. ASSUME NEW c \in Clients, Signal(c)
      PROVE  TunedAt(d)'
  BY <1>3 DEF Signal
<1>4. ASSUME NEW c \in Clients, Window(c)
      PROVE  TunedAt(d)'
  BY <1>4 DEF Window, Tuning
<1>5. ASSUME NEW c \in Clients, WindowSignal(c)
      PROVE  TunedAt(d)'
  BY <1>5 DEF WindowSignal
<1>6. ASSUME NEW c \in Clients, Demodulation(c)
      PROVE  TunedAt(d)'
  BY <1>6 DEF Demodulation
<1>7. ASSUME NEW c \in Clients, DemodulationReset(c)
      PROVE  TunedAt(d)'
  BY <1>7 DEF DemodulationReset
<1>8. ASSUME NEW c \in Clients, Reselect(c)
      PROVE  TunedAt(d)'
  BY <1>8 DEF Reselect, Default
<1>9. ASSUME NEW c \in Clients, NEW r \in Receivers, Switch(c, r)
      PROVE  TunedAt(d)'
  BY <1>9 DEF Switch
<1>10. ASSUME NEW c \in Clients, SwitchRemove(c)
      PROVE  TunedAt(d)'
  BY <1>10 DEF SwitchRemove
<1>11. ASSUME NEW c \in Clients, SwitchInsert(c)
      PROVE  TunedAt(d)'
  BY <1>11 DEF SwitchInsert
<1>12. ASSUME NEW c \in Clients, SwitchTune(c)
      PROVE  TunedAt(d)'
  BY <1>12 DEF SwitchTune, Default
<1>13. ASSUME NEW c \in Clients, SwitchPipe(c)
      PROVE  TunedAt(d)'
  BY <1>13 DEF SwitchPipe
<1>14. ASSUME NEW c \in Clients, SwitchUnsignal(c)
      PROVE  TunedAt(d)'
  BY <1>14 DEF SwitchUnsignal
<1>15. ASSUME NEW c \in Clients, SwitchSignal(c)
      PROVE  TunedAt(d)'
  BY <1>15 DEF SwitchSignal
<1>16. ASSUME NEW c \in Clients, SwitchSend(c)
      PROVE  TunedAt(d)'
  BY <1>16 DEF SwitchSend
<1>17. ASSUME NEW c \in Clients, Leave(c)
      PROVE  TunedAt(d)'
  BY <1>17 DEF Leave
<1>18. ASSUME NEW c \in Clients, LeaveRemove(c)
      PROVE  TunedAt(d)'
  BY <1>18 DEF LeaveRemove
<1>19. ASSUME NEW c \in Clients, LeaveUnsignal(c)
      PROVE  TunedAt(d)'
  BY <1>19 DEF LeaveUnsignal, Default
<1>20. ASSUME NEW c \in Clients,
             SendSettings(c) \/ PollPackets(c) \/ SendPacket(c) \/ SenderDies(c)
      PROVE  TunedAt(d)'
  BY <1>20 DEF SendSettings, PollPackets, SendPacket, SenderDies
<1>21. ASSUME NEW r \in Running,
             DspEnter(r) \/ DspNext(r) \/ DspRead(r) \/ DspProcess(r) \/ DspPost(r) \/
                DspLeave(r)
      PROVE  TunedAt(d)'
  BY <1>21 DEF DspEnter, DspNext, DspRead, DspProcess, DspPost, DspLeave
<1>22. CASE UNCHANGED vars
  BY <1>22 DEF vars, sendVars
<1>23. QED
  BY <1>1, <1>2, <1>3, <1>4, <1>5, <1>6, <1>7, <1>8, <1>9, <1>10, <1>11, <1>12, <1>13,
     <1>14, <1>15, <1>16, <1>17, <1>18, <1>19, <1>20, <1>21, <1>22 DEF Next, Handler,
     SendTask, SendAudio

\* Every change of the window is followed by its announcement.
LEMMA SignalsFollowStep ==
  ASSUME SignalTypes, HandlerTypes, PipelineTypes, Tuned, SignalsFollow, [Next]_vars,
         NEW d \in Clients
  PROVE  SignalledAt(d)'
<1> USE DEF SignalTypes, HandlerTypes, PipelineTypes, SignalsFollow, SignalledAt, Goto,
   handlerVars, sendVars
<1>1. ASSUME NEW c \in Clients, Connect(c)
      PROVE  SignalledAt(d)'
  BY <1>1 DEF Connect, Tuned, TunedAt
<1>2. ASSUME NEW c \in Clients, Insert(c)
      PROVE  SignalledAt(d)'
  BY <1>2 DEF Insert, Tuned, TunedAt
<1>3. ASSUME NEW c \in Clients, Signal(c)
      PROVE  SignalledAt(d)'
  <2>1. "default" \in Windows /\ Announce(home[c], c, "default")
    BY <1>3 DEF Signal, Windows
  <2>2. \A s \in Receivers, w \in Windows : <<s, d, w>> \in signals' <=>
          IF s = home[c] /\ d = c THEN home[c] \in Shows /\ w = "default" ELSE <<s, d, w>> \in signals
    BY <2>1, AnnounceEffect
  <2>3. CASE d # c
    BY <1>3, <2>2, <2>3 DEF Signal
  <2>4. CASE d = c
    BY <1>3, <2>2, <2>4 DEF Signal, Tuned, TunedAt
  <2>5. QED
    BY <2>3, <2>4
<1>4. ASSUME NEW c \in Clients, Window(c)
      PROVE  SignalledAt(d)'
  BY <1>4 DEF Window, Tuned, TunedAt
<1>5. ASSUME NEW c \in Clients, WindowSignal(c)
      PROVE  SignalledAt(d)'
  <2>1. tune[c].win \in Windows /\ Announce(home[c], c, tune[c].win)
    BY <1>5 DEF WindowSignal, Windows, Tuning
  <2>2. \A s \in Receivers, w \in Windows : <<s, d, w>> \in signals' <=>
          IF s = home[c] /\ d = c THEN home[c] \in Shows /\ w = tune[c].win ELSE <<s, d, w>> \in signals
    BY <2>1, AnnounceEffect
  <2>3. CASE d # c
    BY <1>5, <2>2, <2>3 DEF WindowSignal
  <2>4. CASE d = c
    BY <1>5, <2>2, <2>4 DEF WindowSignal, Tuned, TunedAt
  <2>5. QED
    BY <2>3, <2>4
<1>6. ASSUME NEW c \in Clients, Demodulation(c)
      PROVE  SignalledAt(d)'
  BY <1>6 DEF Demodulation, Tuned, TunedAt
<1>7. ASSUME NEW c \in Clients, DemodulationReset(c)
      PROVE  SignalledAt(d)'
  BY <1>7 DEF DemodulationReset, Tuned, TunedAt
<1>8. ASSUME NEW c \in Clients, Reselect(c)
      PROVE  SignalledAt(d)'
  BY <1>8 DEF Reselect, Tuned, TunedAt
<1>9. ASSUME NEW c \in Clients, NEW r \in Receivers, Switch(c, r)
      PROVE  SignalledAt(d)'
  BY <1>9 DEF Switch, Tuned, TunedAt
<1>10. ASSUME NEW c \in Clients, SwitchRemove(c)
      PROVE  SignalledAt(d)'
  BY <1>10 DEF SwitchRemove, Tuned, TunedAt
<1>11. ASSUME NEW c \in Clients, SwitchInsert(c)
      PROVE  SignalledAt(d)'
  BY <1>11 DEF SwitchInsert, Tuned, TunedAt
<1>12. ASSUME NEW c \in Clients, SwitchTune(c)
      PROVE  SignalledAt(d)'
  BY <1>12 DEF SwitchTune, Tuned, TunedAt
<1>13. ASSUME NEW c \in Clients, SwitchPipe(c)
      PROVE  SignalledAt(d)'
  BY <1>13 DEF SwitchPipe, Tuned, TunedAt
<1>14. ASSUME NEW c \in Clients, SwitchUnsignal(c)
      PROVE  SignalledAt(d)'
  BY <1>14 DEF SwitchUnsignal, Withdraw, Entry
<1>15. ASSUME NEW c \in Clients, SwitchSignal(c)
      PROVE  SignalledAt(d)'
  <2>1. "default" \in Windows /\ Announce(home[c], c, "default")
    BY <1>15 DEF SwitchSignal, Windows
  <2>2. \A s \in Receivers, w \in Windows : <<s, d, w>> \in signals' <=>
          IF s = home[c] /\ d = c THEN home[c] \in Shows /\ w = "default" ELSE <<s, d, w>> \in signals
    BY <2>1, AnnounceEffect
  <2>3. CASE d # c
    BY <1>15, <2>2, <2>3 DEF SwitchSignal
  <2>4. CASE d = c
    BY <1>15, <2>2, <2>4 DEF SwitchSignal, Tuned, TunedAt
  <2>5. QED
    BY <2>3, <2>4
<1>16. ASSUME NEW c \in Clients, SwitchSend(c)
      PROVE  SignalledAt(d)'
  BY <1>16 DEF SwitchSend, Tuned, TunedAt
<1>17. ASSUME NEW c \in Clients, Leave(c)
      PROVE  SignalledAt(d)'
  BY <1>17 DEF Leave, Tuned, TunedAt
<1>18. ASSUME NEW c \in Clients, LeaveRemove(c)
      PROVE  SignalledAt(d)'
  BY <1>18 DEF LeaveRemove, Tuned, TunedAt
<1>19. ASSUME NEW c \in Clients, LeaveUnsignal(c)
      PROVE  SignalledAt(d)'
  BY <1>19 DEF LeaveUnsignal, Withdraw, Entry
<1>20. ASSUME NEW r \in Running, DspEnter(r)
      PROVE  SignalledAt(d)'
  BY <1>20 DEF DspEnter
<1>21. ASSUME NEW r \in Running, DspNext(r)
      PROVE  SignalledAt(d)'
  BY <1>21 DEF DspNext
<1>22. ASSUME NEW r \in Running, DspRead(r)
      PROVE  SignalledAt(d)'
  BY <1>22 DEF DspRead
<1>23. ASSUME NEW r \in Running, DspProcess(r)
      PROVE  SignalledAt(d)'
  BY <1>23 DEF DspProcess
<1>24. ASSUME NEW r \in Running, DspPost(r)
      PROVE  SignalledAt(d)'
  BY <1>24 DEF DspPost
<1>25. ASSUME NEW r \in Running, DspLeave(r)
      PROVE  SignalledAt(d)'
  BY <1>25 DEF DspLeave
<1>26. ASSUME NEW c \in Clients,
             SendSettings(c) \/ PollPackets(c) \/ SendPacket(c) \/ SenderDies(c)
      PROVE  SignalledAt(d)'
  BY <1>26 DEF SendSettings, PollPackets, SendPacket, SenderDies
<1>27. CASE UNCHANGED vars
  BY <1>27 DEF vars, sendVars
<1>28. QED
  BY <1>1, <1>2, <1>3, <1>4, <1>5, <1>6, <1>7, <1>8, <1>9, <1>10, <1>11, <1>12, <1>13,
     <1>14, <1>15, <1>16, <1>17, <1>18, <1>19, <1>20, <1>21, <1>22, <1>23, <1>24, <1>25,
     <1>26, <1>27 DEF Next, Handler, SendTask, SendAudio

\* No handler writes to the shard send_audio is in, or changes a pipeline it holds.
LEMMA HeldStep ==
  ASSUME DspTypes, RegistryTypes, HandlerTypes, PipelineTypes, Placed, Held,
         [Next]_vars, NEW t \in Receivers
  PROVE  HeldBy(t)'
<1> USE DEF HandlerTypes, PipelineTypes, Held, HeldBy, Goto, handlerVars, sendVars
<1>1. ASSUME NEW c \in Clients, SwitchRemove(c)
      PROVE  HeldBy(t)'
  BY <1>1 DEF SwitchRemove, Writable, ReadLocked
<1>2. ASSUME NEW c \in Clients, SwitchPipe(c)
      PROVE  HeldBy(t)'
  BY <1>2 DEF SwitchPipe, PipelineLocked, DspTypes, DspState
<1>3. ASSUME NEW c \in Clients, LeaveRemove(c)
      PROVE  HeldBy(t)'
  BY <1>3 DEF LeaveRemove, Writable, ReadLocked
<1>4. ASSUME NEW c \in Clients, LeaveUnsignal(c)
      PROVE  HeldBy(t)'
  <2>1. <<c, t>> \notin registered
    BY <1>4 DEF LeaveUnsignal, Placed, PlacedAt, Place
  <2>2. dsp[t].pc = "post" => c \notin dsp[t].cur
    BY <2>1
  <2>3. /\ UNCHANGED <<dsp, registered>> /\ dsp[t].cur \subseteq Clients
        /\ \A d \in Clients : d # c => pipe'[d] = pipe[d]
    BY <1>4 DEF LeaveUnsignal, DspTypes, DspState
  <2>4. QED
    BY <2>2, <2>3
<1>5. ASSUME NEW r \in Running, DspEnter(r)
      PROVE  HeldBy(t)'
  <2>1. PICK x \in Shards :
          dsp' = [dsp EXCEPT ![r] = [Idle EXCEPT !.pc = "visit", !.shard = x,
                                       !.todo = InShard(r, x)]]
    BY <1>5 DEF DspEnter
  <2>2. UNCHANGED <<registered, pipe>> /\ r \in Receivers
    BY <1>5 DEF DspEnter
  <2>3. CASE t # r
    BY <2>1, <2>2, <2>3 DEF DspTypes
  <2>4. CASE t = r
    <3>1. /\ dsp'[r].pc = "visit" /\ dsp'[r].cur = {}
          /\ dsp'[r].todo = InShard(r, x) /\ dsp'[r].shard = x
      BY <2>1, <2>2 DEF DspTypes, Idle
    <3>2. QED
      BY <2>2, <2>4, <3>1 DEF InShard
  <2>5. QED
    BY <2>3, <2>4
<1>6. ASSUME NEW r \in Running, DspNext(r)
      PROVE  HeldBy(t)'
  <2>1. PICK x \in dsp[r].todo :
          dsp' = [dsp EXCEPT ![r].pc = "read", ![r].cur = {x}, ![r].todo = dsp[r].todo \ {x}]
    BY <1>6 DEF DspNext
  <2>2. /\ UNCHANGED <<registered, pipe>> /\ r \in Receivers
        /\ dsp[r].pc = "visit" /\ dsp[r] \in DspState
    BY <1>6 DEF DspNext, DspTypes
  <2>3. CASE t # r
    BY <2>1, <2>2, <2>3 DEF DspTypes
  <2>4. CASE t = r
    <3>1. /\ dsp'[r].pc = "read" /\ dsp'[r].cur = {x} /\ x \in Clients
          /\ dsp'[r].todo \cup dsp'[r].cur \subseteq dsp[r].todo
          /\ dsp'[r].shard = dsp[r].shard
      BY <2>1, <2>2 DEF DspTypes, DspState
    <3>2. QED
      BY <2>2, <2>4, <3>1
  <2>5. QED
    BY <2>3, <2>4
<1>7. ASSUME NEW r \in Running, DspRead(r)
      PROVE  HeldBy(t)'
  <2>1. \/ dsp' = [dsp EXCEPT ![r].pc = "lock"]
        \/ dsp' = [dsp EXCEPT ![r].pc = "visit", ![r].cur = {}]
    BY <1>7 DEF DspRead
  <2>2. /\ UNCHANGED <<registered, pipe>> /\ r \in Receivers
        /\ dsp[r].pc = "read" /\ dsp[r] \in DspState
    BY <1>7 DEF DspRead, DspTypes
  <2>3. CASE t # r
    BY <2>1, <2>2, <2>3 DEF DspTypes
  <2>4. CASE t = r
    <3>1. /\ dsp'[r].pc \in {"lock", "visit"} /\ dsp'[r].cur \subseteq dsp[r].cur
          /\ dsp'[r].pc = "visit" => dsp'[r].cur = {}
          /\ dsp'[r].pc = "lock" => dsp'[r].cur = dsp[r].cur
          /\ dsp'[r].todo = dsp[r].todo /\ dsp'[r].shard = dsp[r].shard
      BY <2>1, <2>2 DEF DspTypes, DspState
    <3>2. QED
      BY <2>2, <2>4, <3>1
  <2>5. QED
    BY <2>3, <2>4
<1>8. ASSUME NEW r \in Running, DspProcess(r)
      PROVE  HeldBy(t)'
  <2>1. PICK c \in dsp[r].cur : \E made \in {{}, {[rcv |-> r, pipe |-> pipe[c]]}} :
          dsp' = [dsp EXCEPT ![r].pc = "post", ![r].made = made]
    BY <1>8 DEF DspProcess
  <2>2. /\ UNCHANGED <<registered, pipe>> /\ r \in Receivers
        /\ dsp[r].pc = "lock" /\ dsp[r] \in DspState /\ dsp[r].cur = {c}
    BY <1>8, <2>1 DEF DspProcess, DspTypes
  <2>3. CASE t # r
    BY <2>1, <2>2, <2>3 DEF DspTypes
  <2>4. CASE t = r
    <3>1. /\ dsp'[r].pc = "post" /\ dsp'[r].cur = {c}
          /\ dsp'[r].todo = dsp[r].todo /\ dsp'[r].shard = dsp[r].shard
          /\ \A p \in dsp'[r].made : p = [rcv |-> r, pipe |-> pipe[c]]
      BY <2>1, <2>2 DEF DspTypes, DspState
    <3>2. QED
      BY <2>2, <2>4, <3>1
  <2>5. QED
    BY <2>3, <2>4
<1>9. ASSUME NEW r \in Running, DspPost(r)
      PROVE  HeldBy(t)'
  BY <1>9 DEF DspPost, DspTypes, DspState
<1>10. ASSUME NEW r \in Running, DspLeave(r)
      PROVE  HeldBy(t)'
  BY <1>10 DEF DspLeave, DspTypes, DspState, Idle
<1>11. ASSUME NEW c \in Clients,
             Connect(c) \/ Insert(c) \/ Signal(c) \/ Window(c) \/ WindowSignal(c) \/
                Demodulation(c) \/ DemodulationReset(c) \/ Reselect(c) \/
                SwitchInsert(c) \/ SwitchTune(c) \/ SwitchUnsignal(c) \/ SwitchSignal(c)
                \/ SwitchSend(c) \/ Leave(c) \/ SendSettings(c) \/ PollPackets(c) \/
                SendPacket(c) \/ SenderDies(c)
      PROVE  HeldBy(t)'
  BY <1>11 DEF Connect, Insert, Signal, Window, WindowSignal, Demodulation,
     DemodulationReset, Reselect, SwitchInsert, SwitchTune, SwitchUnsignal,
     SwitchSignal, SwitchSend, Leave, SendSettings, PollPackets, SendPacket, SenderDies
<1>12. ASSUME NEW c \in Clients, NEW r \in Receivers, Switch(c, r)
      PROVE  HeldBy(t)'
  BY <1>12 DEF Switch
<1>13. CASE UNCHANGED vars
  BY <1>13 DEF vars, sendVars
<1>14. QED
  BY <1>1, <1>2, <1>3, <1>4, <1>5, <1>6, <1>7, <1>8, <1>9, <1>10, <1>11, <1>12, <1>13
     DEF Next, Handler, SendTask, SendAudio

\* Packets of the old receiver are drained before, or by, its settings.
LEMMA PacketsCleanStep ==
  ASSUME Types, Placed, Tuned, Held, PacketsClean, [Next]_vars, NEW d \in Clients
  PROVE  CleanAt(d)'
<1> USE DEF Types, HandlerTypes, QueueTypes, SenderTypes, PacketsClean, CleanAt, Alive,
   Announced, Clean, Goto, handlerVars, sendVars
<1>1. ASSUME NEW c \in Clients, Connect(c)
      PROVE  CleanAt(d)'
  BY <1>1 DEF Connect, Tuned, TunedAt, HandlerPC
<1>2. ASSUME NEW c \in Clients, Insert(c)
      PROVE  CleanAt(d)'
  BY <1>2 DEF Insert
<1>3. ASSUME NEW c \in Clients, Signal(c)
      PROVE  CleanAt(d)'
  BY <1>3 DEF Signal
<1>4. ASSUME NEW c \in Clients, Window(c)
      PROVE  CleanAt(d)'
  BY <1>4 DEF Window
<1>5. ASSUME NEW c \in Clients, WindowSignal(c)
      PROVE  CleanAt(d)'
  BY <1>5 DEF WindowSignal
<1>6. ASSUME NEW c \in Clients, Demodulation(c)
      PROVE  CleanAt(d)'
  BY <1>6 DEF Demodulation
<1>7. ASSUME NEW c \in Clients, DemodulationReset(c)
      PROVE  CleanAt(d)'
  BY <1>7 DEF DemodulationReset
<1>8. ASSUME NEW c \in Clients, Reselect(c)
      PROVE  CleanAt(d)'
  BY <1>8 DEF Reselect
<1>9. ASSUME NEW c \in Clients, NEW r \in Receivers, Switch(c, r)
      PROVE  CleanAt(d)'
  BY <1>9 DEF Switch
<1>10. ASSUME NEW c \in Clients, SwitchRemove(c)
      PROVE  CleanAt(d)'
  BY <1>10 DEF SwitchRemove
<1>11. ASSUME NEW c \in Clients, SwitchInsert(c)
      PROVE  CleanAt(d)'
  BY <1>11 DEF SwitchInsert
<1>12. ASSUME NEW c \in Clients, SwitchTune(c)
      PROVE  CleanAt(d)'
  BY <1>12 DEF SwitchTune
<1>13. ASSUME NEW c \in Clients, SwitchPipe(c)
      PROVE  CleanAt(d)'
  BY <1>13 DEF SwitchPipe
<1>14. ASSUME NEW c \in Clients, SwitchUnsignal(c)
      PROVE  CleanAt(d)'
  BY <1>14 DEF SwitchUnsignal
<1>15. ASSUME NEW c \in Clients, SwitchSignal(c)
      PROVE  CleanAt(d)'
  BY <1>15 DEF SwitchSignal
<1>16. ASSUME NEW c \in Clients, SwitchSend(c)
      PROVE  CleanAt(d)'
  <2>1. CASE d # c \/ sender[c] = "dead"
    BY <1>16, <2>1 DEF SwitchSend
  <2>2. CASE d = c /\ sender[c] # "dead"
    <3>1. /\ out'[c] = Append(out[c], home[c]) /\ UNCHANGED <<home, rx, sender, shown, wire>>
          /\ out[c] \in Seq(Receivers) /\ home[c] \in Receivers
      BY <1>16, <2>2 DEF SwitchSend
    <3>2. out'[c] # <<>> /\ out'[c][Len(out'[c])] = home[c]
      BY ONLY <3>1, LastOfAppend
    <3>3. QED
      BY <2>2, <3>1, <3>2
  <2>3. QED
    BY <2>1, <2>2
<1>17. ASSUME NEW c \in Clients, Leave(c)
      PROVE  CleanAt(d)'
  BY <1>17 DEF Leave
<1>18. ASSUME NEW c \in Clients, LeaveRemove(c)
      PROVE  CleanAt(d)'
  BY <1>18 DEF LeaveRemove
<1>19. ASSUME NEW c \in Clients, LeaveUnsignal(c)
      PROVE  CleanAt(d)'
  BY <1>19 DEF LeaveUnsignal
<1>20. ASSUME NEW c \in Clients, SendSettings(c)
      PROVE  CleanAt(d)'
  <2>1. CASE d # c
    BY <1>20, <2>1 DEF SendSettings
  <2>2. CASE d = c
    <3>1. /\ out[c] # <<>> /\ out'[c] = Tail(out[c]) /\ shown'[c] = Head(out[c])
          /\ rx'[c] = <<>> /\ wire'[c] = Silence /\ sender[c] = "poll"
          /\ UNCHANGED <<home, pc, sender>> /\ out[c] \in Seq(Receivers)
      BY <1>20 DEF SendSettings
    <3>2. IF Tail(out[c]) = <<>> THEN Head(out[c]) = out[c][Len(out[c])]
                                 ELSE Tail(out[c])[Len(Tail(out[c]))] = out[c][Len(out[c])]
      BY <3>1, LastOfTail
    <3>3. Announced(c)' = Announced(c)
      BY <3>1, <3>2
    <3>4. DOMAIN rx'[c] = {}
      BY <3>1
    <3>5. QED
      BY <2>2, <3>1, <3>3, <3>4
  <2>3. QED
    BY <2>1, <2>2
<1>21. ASSUME NEW c \in Clients, PollPackets(c)
      PROVE  CleanAt(d)'
  BY <1>21 DEF PollPackets
<1>22. ASSUME NEW c \in Clients, SendPacket(c)
      PROVE  CleanAt(d)'
  <2>1. CASE d # c
    BY <1>22, <2>1 DEF SendPacket
  <2>2. CASE d = c
    <3>1. /\ rx[c] # <<>> /\ rx'[c] = Tail(rx[c]) /\ wire'[c] = Head(rx[c])
          /\ sender'[c] = "poll" /\ Alive(c) /\ rx[c] \in Seq(Packet)
          /\ UNCHANGED <<out, shown, home, pc>>
      BY <1>22 DEF SendPacket
    <3>2. /\ 1 \in DOMAIN rx[c] /\ Head(rx[c]) = rx[c][1]
          /\ \A i \in DOMAIN Tail(rx[c]) : i + 1 \in DOMAIN rx[c] /\ Tail(rx[c])[i] = rx[c][i + 1]
      BY <3>1, HeadTailProperties, LenProperties, EmptySeq
    <3>3. QED
      BY <2>2, <3>1, <3>2
  <2>3. QED
    BY <2>1, <2>2
<1>23. ASSUME NEW c \in Clients, SenderDies(c)
      PROVE  CleanAt(d)'
  BY <1>23 DEF SenderDies
<1>24. ASSUME NEW r \in Running, DspPost(r)
      PROVE  CleanAt(d)'
  <2>1. PICK c \in Clients, p \in Packet :
          \/ rx' = rx
          \/ /\ Alive(c) /\ Len(rx[c]) < QueueCap /\ <<c, r>> \in registered
             /\ p = [rcv |-> r, pipe |-> pipe[c]]
             /\ rx' = [rx EXCEPT ![c] = Append(rx[c], p)]
    BY <1>24, Posted
  <2>2. UNCHANGED <<out, sender, shown, wire, pc, home>>
    BY <1>24 DEF DspPost
  <2>3. CASE d # c \/ rx' = rx
    BY <2>1, <2>2, <2>3
  <2>4. CASE d = c /\ rx' # rx
    <3>1. /\ rx'[c] = Append(rx[c], p) /\ rx[c] \in Seq(Packet)
          /\ <<c, r>> \in registered /\ p = [rcv |-> r, pipe |-> pipe[c]]
      BY <2>1, <2>4
    <3>2. /\ rx'[c] # <<>>
          /\ \A j \in DOMAIN rx'[c] :
               rx'[c][j] = p \/ (j \in DOMAIN rx[c] /\ rx'[c][j] = rx[c][j])
      BY ONLY <3>1, p \in Packet, EntriesOfAppend
    <3>3. pc[c] \in {"insert", "signal", "ready", "window", "demodulation", "swRemove",
                     "swInsert"} => p = Clean(c)
      <4>1. r \in Place(c) /\ TunedAt(c)
        BY <3>1 DEF Placed, PlacedAt, Tuned
      <4>2. QED
        BY <3>1, <4>1 DEF Place, TunedAt
    <3>4. QED
      BY <2>1, <2>2, <2>4, <3>2, <3>3
  <2>5. QED
    BY <2>3, <2>4
<1>25. ASSUME NEW r \in Running,
             DspEnter(r) \/ DspNext(r) \/ DspRead(r) \/ DspProcess(r) \/ DspLeave(r)
      PROVE  CleanAt(d)'
  BY <1>25 DEF DspEnter, DspNext, DspRead, DspProcess, DspLeave
<1>26. CASE UNCHANGED vars
  BY <1>26 DEF vars, sendVars
<1>27. QED
  BY <1>1, <1>2, <1>3, <1>4, <1>5, <1>6, <1>7, <1>8, <1>9, <1>10, <1>11, <1>12, <1>13,
     <1>14, <1>15, <1>16, <1>17, <1>18, <1>19, <1>20, <1>21, <1>22, <1>23, <1>24, <1>25,
     <1>26 DEF Next, Handler, SendTask, SendAudio

\* The invariant holds in every reachable state.
LEMMA InvariantHolds == Spec => []IInv
<1>1. IInv /\ [Next]_vars => IInv'
  <2> SUFFICES ASSUME IInv, [Next]_vars PROVE IInv'
    OBVIOUS
  <2> USE DEF IInv
  <2>1. Types'
    BY RegistryTypesStep, SignalTypesStep, HandlerTypesStep, PipelineTypesStep, QueueTypesStep,
       SenderTypesStep, DspTypesStep DEF Types
  <2>2. Placed' /\ Tuned' /\ SignalsFollow'
    BY PlacedStep, TunedStep, SignalsFollowStep DEF Types, Placed, Tuned, SignalsFollow
  <2>3. Held'
    BY HeldStep DEF Types, Held
  <2>4. PacketsClean'
    BY PacketsCleanStep DEF PacketsClean
  <2>5. QED
    BY <2>1, <2>2, <2>3, <2>4
<1>2. QED
  BY <1>1, InitInvariant, PTL DEF Spec

\* A client that send_audio visits is in the map its handler has put it in.
LEMMA InMapOfPlace ==
  ASSUME DspTypes, Placed, Held, NEW r \in Receivers, NEW c \in Clients, c \in dsp[r].cur
  PROVE  r \in Place(c)
<1>1. dsp[r].pc # "idle"
  BY DEF Held, HeldBy
<1>2. <<c, r>> \in registered
  BY <1>1 DEF Held, HeldBy
<1>3. QED
  BY <1>2 DEF Placed, PlacedAt
-----------------------------------------------------------------------------
(* Theorems *)

\* Types and capacities hold; between two commands map, parameters, pipeline
\* and handler agree on the receiver of a client, and a closed client is in no
\* map (the receiver command moves them one after the other).
THEOREM OneReceiver == Spec => []OneReceiverPerClient
<1>1. IInv => OneReceiverPerClient
  <2> SUFFICES ASSUME IInv PROVE OneReceiverPerClient
    OBVIOUS
  <2>1. TypeOK
    BY DEF IInv, Types, RegistryTypes, SignalTypes, HandlerTypes, PipelineTypes, QueueTypes,
       SenderTypes, DspTypes, TypeOK
  <2>2. ASSUME NEW c \in Clients
        PROVE  /\ pc[c] = "ready" => /\ {e \in registered : e[1] = c} = {<<c, home[c]>>}
                                     /\ tune[c].rcv = home[c] /\ pipe[c] = home[c]
               /\ pc[c] = "closed" => ~ \E r \in Receivers : <<c, r>> \in registered
    <3>1. PlacedAt(c) /\ TunedAt(c) /\ home[c] \in Receivers
      BY DEF IInv, Placed, Tuned, Types, HandlerTypes
    <3>2. ASSUME NEW e \in registered, e[1] = c
          PROVE  e = <<c, e[2]>> /\ e[2] \in Receivers
      BY <3>2 DEF IInv, Types, RegistryTypes
    <3>3. CASE pc[c] = "ready"
      <4>1. Place(c) = {home[c]}
        BY <3>3 DEF Place
      <4>2. {e \in registered : e[1] = c} = {<<c, home[c]>>}
        BY <3>1, <3>2, <4>1 DEF PlacedAt
      <4>3. QED
        BY <3>1, <3>3, <4>2 DEF TunedAt
    <3>4. CASE pc[c] = "closed"
      BY <3>1, <3>4 DEF PlacedAt, Place
    <3>5. QED
      BY <3>3, <3>4
  <2>3. QED
    BY <2>1, <2>2 DEF OneReceiverPerClient
<1>2. QED
  BY <1>1, InvariantHolds, PTL

\* The other users see exactly the window a client listens to, on its receiver
\* only, and nothing of one that has left (broadcast_signal_changes after every
\* command).
THEOREM WindowAnnounced == Spec => []OthersSeeTheWindow
<1>1. IInv => OthersSeeTheWindow
  <2> SUFFICES ASSUME IInv, NEW c \in Clients
               PROVE  /\ pc[c] = "ready" => Signalled(c) =
                           IF home[c] \in Shows THEN {<<home[c], c, tune[c].win>>} ELSE {}
                      /\ pc[c] = "closed" => Signalled(c) = {}
    BY DEF OthersSeeTheWindow
  <2>1. SignalledAt(c) /\ home[c] \in Receivers /\ tune[c].win \in Windows
    BY DEF IInv, SignalsFollow, Types, HandlerTypes, PipelineTypes, Tuning
  <2>2. ASSUME NEW e \in Signalled(c)
        PROVE  \E r \in Receivers, w \in Windows : e = <<r, c, w>> /\ e \in signals
    BY <2>2 DEF IInv, Types, SignalTypes, Signalled
  <2>3. CASE pc[c] = "closed"
    BY <2>1, <2>2, <2>3 DEF SignalledAt
  <2>4. CASE pc[c] = "ready"
    <3>1. \A e \in Signalled(c) : home[c] \in Shows /\ e = <<home[c], c, tune[c].win>>
      BY <2>1, <2>2, <2>4 DEF SignalledAt
    <3>2. home[c] \in Shows => <<home[c], c, tune[c].win>> \in Signalled(c)
      BY <2>1, <2>4 DEF SignalledAt, Signalled
    <3>3. QED
      BY <2>4, <3>1, <3>2
  <2>5. QED
    BY <2>3, <2>4
<1>2. QED
  BY <1>1, InvariantHolds, PTL

\* No client is visited by two DSP threads: it leaves one map before it enters
\* the other, and cannot leave a map while send_audio visits it there.
THEOREM OneThread == Spec => []OneThreadPerClient
<1>1. IInv => OneThreadPerClient
  <2> SUFFICES ASSUME IInv, NEW r \in Receivers, NEW s \in Receivers,
                      NEW c \in Clients, c \in dsp[r].cur, c \in dsp[s].cur
               PROVE  r = s
    BY DEF IInv, Types, DspTypes, DspState, OneThreadPerClient
  <2>1. r \in Place(c) /\ s \in Place(c)
    BY InMapOfPlace DEF IInv, Types
  <2>2. QED
    BY <2>1 DEF Place
<1>2. QED
  BY <1>1, InvariantHolds, PTL

\* Once the settings of a switch are sent, only packets of the new receiver,
\* made by the new pipeline, follow (drain in the send task, settings last).
THEOREM OnlyCleanPackets == Spec => []CleanAfterSettings
<1>1. IInv => CleanAfterSettings
  BY DEF IInv, PacketsClean, CleanAt, Alive, Announced, Clean, CleanAfterSettings
<1>2. QED
  BY <1>1, InvariantHolds, PTL

\* send_audio and a handler never wait for each other over params and pipeline:
\* the thread that holds the pipeline of a client is the only one that visits it.
THEOREM NoDeadlockOfLocks == Spec => []NoLockCycle
<1>1. IInv => NoLockCycle
  <2> SUFFICES ASSUME IInv, NEW r \in Receivers, NEW c \in Clients, c \in dsp[r].cur,
                      dsp[r].pc = "read", PipelineLocked(c)
               PROVE  FALSE
    BY DEF IInv, Types, DspTypes, DspState, NoLockCycle
  <2>1. PICK s \in Receivers : c \in dsp[s].cur /\ dsp[s].pc = "post"
    BY DEF PipelineLocked
  <2>2. r \in Place(c) /\ s \in Place(c)
    BY <2>1, InMapOfPlace DEF IInv, Types
  <2>3. QED
    BY <2>1, <2>2 DEF Place
<1>2. QED
  BY <1>1, InvariantHolds, PTL
=============================================================================
