------------------------------ MODULE AudioHub ------------------------------
(***************************************************************************)
(* Audio clients: handle() and apply_command() of ws/audio.rs,             *)
(* send_audio() of dsp_runner.rs, broadcast_signal_changes() of state.rs.  *)
(*                                                                         *)
(* A client has two mutexes, params and pipeline, and is in the map        *)
(* audio_clients of a receiver.  The handler of the client and the DSP     *)
(* thread of each enabled receiver meet in the map (send_audio holds the   *)
(* read lock of a shard while it visits the clients in it), in the two     *)
(* mutexes and in the queue of packets.                                    *)
(*                                                                         *)
(* As in WaterfallHub an action lies between two points where its actor    *)
(* may have to wait, and a lock released within its action is a guard.     *)
(* The parameters are abstracted to the window, the receiver it was chosen *)
(* for and whether it is the default one; a pipeline to the receiver it    *)
(* was built for; a packet to the receiver whose spectrum it was made of   *)
(* and the pipeline that made it.  Mute, squelch, AGC and demodulation     *)
(* decide what is in a packet, and whether there is one: any choice is     *)
(* allowed here.                                                           *)
(***************************************************************************)
EXTENDS Integers, Sequences

CONSTANTS
  Clients, Receivers, Shards,
  ShardOf,      \* [Clients -> Shards]: the shard a client id hashes to
  Active,       \* active_receiver_id
  Running,      \* enabled receivers
  Buildable,    \* receivers for which AudioPipeline::new succeeds
  Shows,        \* receivers with rt.show_other_users
  QueueCap,     \* AUDIO_QUEUE_CAPACITY: 128
  OutCap,       \* capacity of the handler's out channel: 8
  None          \* nothing sent yet

ASSUME AudioAssumption ==
  /\ Active \in Receivers /\ Running \subseteq Receivers
  /\ Buildable \subseteq Receivers /\ Shows \subseteq Receivers
  /\ None \notin Receivers
  /\ Shards # {} /\ ShardOf \in [Clients -> Shards]
  /\ QueueCap \in Nat \ {0} /\ OutCap \in Nat \ {0}

VARIABLES
  registered,   \* {<<c, rcv>>}: c is in rcv.audio_clients
  signals,      \* {<<rcv, c, win>>}: rcv.signal_changes[c] is the window win
  pc,           \* where the handler of each client is
  home,         \* its local variable receiver
  target,       \* next_receiver of a switch under way, else home
  tune,         \* l, m and r of params
  pipe,         \* the pipeline
  rx,           \* packets queued for the send task
  out,          \* settings messages queued for the send task
  sender,       \* the send task
  shown,        \* receiver of the last settings message on the wire
  wire,         \* the last packet on the wire since then
  dsp           \* send_audio of each receiver

sendVars == <<rx, out, sender, shown, wire>>
vars == <<registered, signals, pc, home, target, tune, pipe, sendVars, dsp>>

Windows == {"default", "chosen"}

Tuning == [rcv : Receivers, win : Windows]

Packet == [rcv : Receivers, pipe : Receivers]

Silence == [rcv |-> None, pipe |-> None]

HandlerPC == {"closed", "insert", "ready", "window", "demodulation", "swRemove",
              "swInsert", "swTune", "swPipe", "swUnsignal", "swSignal", "swSend",
              "signal", "leave", "unsignal"}

\* todo: clients of the shard still to visit; cur: the one being visited.
DspState == [pc : {"idle", "visit", "read", "lock", "post"}, shard : Shards,
             todo : SUBSET Clients, cur : SUBSET Clients, made : SUBSET Packet]

\* Type invariant; the queues stay within their capacities.
TypeOK ==
  /\ registered \subseteq Clients \X Receivers
  /\ signals \subseteq Shows \X Clients \X Windows
  /\ pc \in [Clients -> HandlerPC]
  /\ home \in [Clients -> Receivers] /\ target \in [Clients -> Receivers]
  /\ tune \in [Clients -> Tuning] /\ pipe \in [Clients -> Receivers]
  /\ rx \in [Clients -> Seq(Packet)] /\ out \in [Clients -> Seq(Receivers)]
  /\ \A c \in Clients : Len(rx[c]) <= QueueCap /\ Len(out[c]) <= OutCap
  /\ sender \in [Clients -> {"none", "poll", "take", "dead"}]
  /\ shown \in [Clients -> Receivers \cup {None}]
  /\ wire \in [Clients -> Packet \cup {Silence}]
  /\ dsp \in [Receivers -> DspState]

Default(r) == [rcv |-> r, win |-> "default"]

Idle == [pc |-> "idle", shard |-> CHOOSE s \in Shards : TRUE,
         todo |-> {}, cur |-> {}, made |-> {}]

Init ==
  /\ registered = {} /\ signals = {}
  /\ pc = [c \in Clients |-> "closed"]
  /\ home = [c \in Clients |-> Active] /\ target = [c \in Clients |-> Active]
  /\ tune = [c \in Clients |-> Default(Active)]
  /\ pipe = [c \in Clients |-> Active]
  /\ rx = [c \in Clients |-> <<>>] /\ out = [c \in Clients |-> <<>>]
  /\ sender = [c \in Clients |-> "none"]
  /\ shown = [c \in Clients |-> None]
  /\ wire = [c \in Clients |-> Silence]
  /\ dsp = [r \in Receivers |-> Idle]
-----------------------------------------------------------------------------
(* Locks *)

\* Wrong variant: the guard of the map is dropped once the parameters are
\* copied, before the pipeline is locked.
ReadLockedUntilCopied(r, s) == dsp[r].pc \in {"visit", "read"} /\ dsp[r].shard = s

\* send_audio is iterating over shard s of r.audio_clients.
ReadLocked(r, s) == dsp[r].pc # "idle" /\ dsp[r].shard = s

\* The handler of c can write to its shard of r.audio_clients.
Writable(c, r) == ~ReadLocked(r, ShardOf[c])

\* apply_command holds the params mutex: while it tells the other users about
\* the window, while it waits for the pipeline to reset the AGC.
ParamsLocked(c) == pc[c] \in {"window", "demodulation"}

\* Wrong variant: send_audio locks the pipeline first, then the parameters.
PipelineLockedFirst(c) ==
  \E r \in Receivers : c \in dsp[r].cur /\ dsp[r].pc \in {"read", "lock", "post"}

\* Wrong variant: the pipeline is unlocked before the packets are queued.
PipelineUnlockedEarly(c) == FALSE

\* send_audio holds the pipeline mutex of c: from process() to the last
\* try_send, the guard lives to the end of the loop body.
PipelineLocked(c) == \E r \in Receivers : c \in dsp[r].cur /\ dsp[r].pc = "post"

Goto(c, there) == pc' = [pc EXCEPT ![c] = there]
-----------------------------------------------------------------------------
(* broadcast_signal_changes() *)

Entry(r, c) == {e \in signals : e[1] = r /\ e[2] = c}

\* Tell the other users of r that c listens to the window win.
Announce(r, c, win) ==
  signals' = IF r \in Shows THEN (signals \ Entry(r, c)) \cup {<<r, c, win>>}
                            ELSE signals

\* l = r = -1: c no longer listens to r.
Withdraw(r, c) == signals' = signals \ Entry(r, c)
-----------------------------------------------------------------------------
(* handle(): connection *)

\* Build the pipeline, spawn the send task, queue the settings of the active
\* receiver.  The handler returns at once, and nothing is left, when the pipeline
\* cannot be built or the send task has already ended.
Connect(c) ==
  /\ pc[c] = "closed" /\ Active \in Buildable
  /\ sender' = [sender EXCEPT ![c] = "poll"]
  /\ out' = [out EXCEPT ![c] = <<Active>>]
  /\ Goto(c, "insert")
  /\ UNCHANGED <<registered, signals, home, target, tune, pipe, rx, shown, wire, dsp>>

Insert(c) ==
  /\ pc[c] = "insert" /\ Writable(c, home[c])
  /\ registered' = registered \cup {<<c, home[c]>>}
  /\ Goto(c, "signal")
  /\ UNCHANGED <<signals, home, target, tune, pipe, sendVars, dsp>>

Signal(c) ==
  /\ pc[c] = "signal"
  /\ Announce(home[c], c, "default")
  /\ Goto(c, "ready")
  /\ UNCHANGED <<registered, home, target, tune, pipe, sendVars, dsp>>
-----------------------------------------------------------------------------
(* apply_command().  A command that is refused, mute, squelch and agc change *)
(* nothing that is modelled.                                                 *)

\* Lock params and set the window ...
Window(c) ==
  /\ pc[c] = "ready"
  /\ \E w \in Windows : tune' = [tune EXCEPT ![c].win = w]
  /\ Goto(c, "window")
  /\ UNCHANGED <<registered, signals, home, target, pipe, sendVars, dsp>>

\* ... tell the others, unlock.
WindowSignal(c) ==
  /\ pc[c] = "window"
  /\ Announce(home[c], c, tune[c].win)
  /\ Goto(c, "ready")
  /\ UNCHANGED <<registered, home, target, tune, pipe, sendVars, dsp>>

\* Lock params and set the mode ...
Demodulation(c) ==
  /\ pc[c] = "ready"
  /\ Goto(c, "demodulation")
  /\ UNCHANGED <<registered, signals, home, target, tune, pipe, sendVars, dsp>>

\* ... lock the pipeline, reset the AGC, unlock both.
DemodulationReset(c) ==
  /\ pc[c] = "demodulation" /\ ~PipelineLocked(c)
  /\ Goto(c, "ready")
  /\ UNCHANGED <<registered, signals, home, target, tune, pipe, sendVars, dsp>>
-----------------------------------------------------------------------------
(* handle(): a receiver command *)

\* The receiver the client is on: reset the parameters.
Reselect(c) ==
  /\ pc[c] = "ready"
  /\ tune' = [tune EXCEPT ![c] = Default(home[c])]
  /\ Goto(c, "swSignal")
  /\ UNCHANGED <<registered, signals, home, target, pipe, sendVars, dsp>>

\* Another receiver: build its pipeline first.
Switch(c, r) ==
  /\ pc[c] = "ready" /\ r # home[c] /\ r \in Buildable
  /\ target' = [target EXCEPT ![c] = r]
  /\ Goto(c, "swRemove")
  /\ UNCHANGED <<registered, signals, home, tune, pipe, sendVars, dsp>>

SwitchRemove(c) ==
  /\ pc[c] = "swRemove" /\ Writable(c, home[c])
  /\ registered' = registered \ {<<c, home[c]>>}
  /\ Goto(c, "swInsert")
  /\ UNCHANGED <<signals, home, target, tune, pipe, sendVars, dsp>>

SwitchInsert(c) ==
  /\ pc[c] = "swInsert" /\ Writable(c, target[c])
  /\ registered' = registered \cup {<<c, target[c]>>}
  /\ Goto(c, "swTune")
  /\ UNCHANGED <<signals, home, target, tune, pipe, sendVars, dsp>>

\* Lock params: whoever else does (send_audio, a snapshot for an events client)
\* holds it only to copy them.
SwitchTune(c) ==
  /\ pc[c] = "swTune"
  /\ tune' = [tune EXCEPT ![c] = Default(target[c])]
  /\ Goto(c, "swPipe")
  /\ UNCHANGED <<registered, signals, home, target, pipe, sendVars, dsp>>

\* Wrong variant: the client keeps the pipeline of the old receiver.
SwitchPipeForgotten(c) ==
  /\ pc[c] = "swPipe" /\ ~PipelineLocked(c)
  /\ Goto(c, "swUnsignal")
  /\ UNCHANGED <<registered, signals, home, target, tune, pipe, sendVars, dsp>>

SwitchPipe(c) ==
  /\ pc[c] = "swPipe" /\ ~PipelineLocked(c)
  /\ pipe' = [pipe EXCEPT ![c] = target[c]]
  /\ Goto(c, "swUnsignal")
  /\ UNCHANGED <<registered, signals, home, target, tune, sendVars, dsp>>

\* Wrong variant: the window is withdrawn from the new receiver.
SwitchUnsignalNew(c) ==
  /\ pc[c] = "swUnsignal"
  /\ Withdraw(target[c], c)
  /\ home' = [home EXCEPT ![c] = target[c]]
  /\ Goto(c, "swSignal")
  /\ UNCHANGED <<registered, target, tune, pipe, sendVars, dsp>>

\* home is assigned before the parameters are reset; only this handler reads it.
SwitchUnsignal(c) ==
  /\ pc[c] = "swUnsignal"
  /\ Withdraw(home[c], c)
  /\ home' = [home EXCEPT ![c] = target[c]]
  /\ Goto(c, "swSignal")
  /\ UNCHANGED <<registered, target, tune, pipe, sendVars, dsp>>

SwitchSignal(c) ==
  /\ pc[c] = "swSignal"
  /\ Announce(home[c], c, "default")
  /\ Goto(c, "swSend")
  /\ UNCHANGED <<registered, home, target, tune, pipe, sendVars, dsp>>

\* Queue the settings (waits for room); when the send task is gone the loop ends.
SwitchSend(c) ==
  /\ pc[c] = "swSend"
  /\ IF sender[c] = "dead"
       THEN Goto(c, "leave") /\ UNCHANGED out
       ELSE /\ Len(out[c]) < OutCap
            /\ out' = [out EXCEPT ![c] = Append(@, home[c])]
            /\ Goto(c, "ready")
  /\ UNCHANGED <<registered, signals, home, target, tune, pipe, rx, sender, shown, wire, dsp>>
-----------------------------------------------------------------------------
(* handle(): end *)

\* Close message, read error or idle timeout.
Leave(c) ==
  /\ pc[c] = "ready"
  /\ Goto(c, "leave")
  /\ UNCHANGED <<registered, signals, home, target, tune, pipe, sendVars, dsp>>

LeaveRemove(c) ==
  /\ pc[c] = "leave" /\ Writable(c, home[c])
  /\ registered' = registered \ {<<c, home[c]>>}
  /\ Goto(c, "unsignal")
  /\ UNCHANGED <<signals, home, target, tune, pipe, sendVars, dsp>>

\* Withdraw the window, abort the send task; the client is dropped.
LeaveUnsignal(c) ==
  /\ pc[c] = "unsignal"
  /\ Withdraw(home[c], c)
  /\ rx' = [rx EXCEPT ![c] = <<>>] /\ out' = [out EXCEPT ![c] = <<>>]
  /\ sender' = [sender EXCEPT ![c] = "none"]
  /\ shown' = [shown EXCEPT ![c] = None] /\ wire' = [wire EXCEPT ![c] = Silence]
  /\ home' = [home EXCEPT ![c] = Active] /\ target' = [target EXCEPT ![c] = Active]
  /\ tune' = [tune EXCEPT ![c] = Default(Active)]
  /\ pipe' = [pipe EXCEPT ![c] = Active]
  /\ Goto(c, "closed")
  /\ UNCHANGED <<registered, dsp>>
-----------------------------------------------------------------------------
(* The send task *)

\* Wrong variant: queued packets are kept.
SettingsWithoutDrain(c) ==
  /\ sender[c] = "poll" /\ out[c] # <<>>
  /\ shown' = [shown EXCEPT ![c] = Head(out[c])]
  /\ wire' = [wire EXCEPT ![c] = Silence]
  /\ out' = [out EXCEPT ![c] = Tail(@)]
  /\ UNCHANGED <<registered, signals, pc, home, target, tune, pipe, rx, sender, dsp>>

\* biased select: settings first.  Drop what is queued, send the text.
SendSettings(c) ==
  /\ sender[c] = "poll" /\ out[c] # <<>>
  /\ rx' = [rx EXCEPT ![c] = <<>>]
  /\ shown' = [shown EXCEPT ![c] = Head(out[c])]
  /\ wire' = [wire EXCEPT ![c] = Silence]
  /\ out' = [out EXCEPT ![c] = Tail(@)]
  /\ UNCHANGED <<registered, signals, pc, home, target, tune, pipe, sender, dsp>>

\* No settings were queued when the select polled.
PollPackets(c) ==
  /\ sender[c] = "poll" /\ out[c] = <<>> /\ rx[c] # <<>>
  /\ sender' = [sender EXCEPT ![c] = "take"]
  /\ UNCHANGED <<registered, signals, pc, home, target, tune, pipe, rx, out, shown, wire, dsp>>

SendPacket(c) ==
  /\ sender[c] = "take"
  /\ wire' = [wire EXCEPT ![c] = Head(rx[c])]
  /\ rx' = [rx EXCEPT ![c] = Tail(@)]
  /\ sender' = [sender EXCEPT ![c] = "poll"]
  /\ UNCHANGED <<registered, signals, pc, home, target, tune, pipe, out, shown, dsp>>

\* A send to the socket fails: the task ends and both channels close.
SenderDies(c) ==
  /\ sender[c] \in {"poll", "take"}
  /\ sender' = [sender EXCEPT ![c] = "dead"]
  /\ rx' = [rx EXCEPT ![c] = <<>>] /\ out' = [out EXCEPT ![c] = <<>>]
  /\ UNCHANGED <<registered, signals, pc, home, target, tune, pipe, shown, wire, dsp>>
-----------------------------------------------------------------------------
(* send_audio() of receiver r *)

handlerVars == <<registered, signals, pc, home, target, tune, pipe>>

InShard(r, s) == {c \in Clients : <<c, r>> \in registered /\ ShardOf[c] = s}

\* Take the read lock of a shard that has entries.
DspEnter(r) ==
  /\ dsp[r].pc = "idle"
  /\ \E s \in Shards :
       /\ InShard(r, s) # {}
       /\ dsp' = [dsp EXCEPT ![r] = [Idle EXCEPT !.pc = "visit", !.shard = s,
                                       !.todo = InShard(r, s)]]
  /\ UNCHANGED <<handlerVars, sendVars>>

\* The next entry of the iteration.
DspNext(r) ==
  /\ dsp[r].pc = "visit"
  /\ \E c \in dsp[r].todo :
       dsp' = [dsp EXCEPT ![r].pc = "read", ![r].cur = {c}, ![r].todo = @ \ {c}]
  /\ UNCHANGED <<handlerVars, sendVars>>

\* Lock the parameters (waits for the handler), copy and unlock them.  An empty
\* window, or one of another receiver that is too wide here, skips the client.
DspRead(r) ==
  /\ dsp[r].pc = "read"
  /\ \E c \in dsp[r].cur :
       /\ ~ParamsLocked(c)
       /\ \/ dsp' = [dsp EXCEPT ![r].pc = "lock"]
          \/ dsp' = [dsp EXCEPT ![r].pc = "visit", ![r].cur = {}]
  /\ UNCHANGED <<handlerVars, sendVars>>

\* Lock the pipeline and run it: process() makes packets or none.
DspProcess(r) ==
  /\ dsp[r].pc = "lock"
  /\ \E c \in dsp[r].cur : \E made \in {{}, {[rcv |-> r, pipe |-> pipe[c]]}} :
       dsp' = [dsp EXCEPT ![r].pc = "post", ![r].made = made]
  /\ UNCHANGED <<handlerVars, sendVars>>

\* try_send: a full queue drops the packet, a closed one ignores it.  Unlock
\* the pipeline.
DspPost(r) ==
  /\ dsp[r].pc = "post"
  /\ \E c \in dsp[r].cur :
       rx' = IF sender[c] \in {"poll", "take"} /\ Len(rx[c]) < QueueCap /\ dsp[r].made # {}
               THEN [rx EXCEPT ![c] = Append(@, CHOOSE p \in dsp[r].made : TRUE)]
               ELSE rx
  /\ dsp' = [dsp EXCEPT ![r].pc = "visit", ![r].cur = {}, ![r].made = {}]
  /\ UNCHANGED <<handlerVars, out, sender, shown, wire>>

\* The shard is done: release its lock.
DspLeave(r) ==
  /\ dsp[r].pc = "visit" /\ dsp[r].todo = {}
  /\ dsp' = [dsp EXCEPT ![r] = Idle]
  /\ UNCHANGED <<handlerVars, sendVars>>
-----------------------------------------------------------------------------
Handler(c) == \/ Connect(c) \/ Insert(c) \/ Signal(c)
              \/ Window(c) \/ WindowSignal(c)
              \/ Demodulation(c) \/ DemodulationReset(c)
              \/ Reselect(c) \/ \E r \in Receivers : Switch(c, r)
              \/ SwitchRemove(c) \/ SwitchInsert(c) \/ SwitchTune(c)
              \/ SwitchPipe(c) \/ SwitchUnsignal(c) \/ SwitchSignal(c)
              \/ SwitchSend(c)
              \/ Leave(c) \/ LeaveRemove(c) \/ LeaveUnsignal(c)

SendTask(c) == \/ SendSettings(c) \/ PollPackets(c) \/ SendPacket(c)
               \/ SenderDies(c)

SendAudio(r) == \/ DspEnter(r) \/ DspNext(r) \/ DspRead(r) \/ DspProcess(r)
                \/ DspPost(r) \/ DspLeave(r)

Next == \/ \E c \in Clients : Handler(c) \/ SendTask(c)
        \/ \E r \in Running : SendAudio(r)

Spec == Init /\ [][Next]_vars
-----------------------------------------------------------------------------
(* Properties *)

Signalled(c) == {e \in signals : e[2] = c}

\* Between two commands the handler, the map, the parameters and the pipeline
\* of a client agree on its receiver; a closed client is in no map.
OneReceiverPerClient ==
  /\ TypeOK
  /\ \A c \in Clients :
    /\ pc[c] = "ready" => /\ {e \in registered : e[1] = c} = {<<c, home[c]>>}
                          /\ tune[c].rcv = home[c] /\ pipe[c] = home[c]
    /\ pc[c] = "closed" => ~ \E r \in Receivers : <<c, r>> \in registered

\* Between two commands the other users see exactly the window the client
\* listens to, on its receiver and on no other; nothing stays behind when it
\* has left.
OthersSeeTheWindow ==
  \A c \in Clients :
    /\ pc[c] = "ready" =>
         Signalled(c) = IF home[c] \in Shows THEN {<<home[c], c, tune[c].win>>} ELSE {}
    /\ pc[c] = "closed" => Signalled(c) = {}

\* No two DSP threads work on one client, although it is moved between their
\* maps while they run.
OneThreadPerClient ==
  \A r, s \in Receivers : r # s => dsp[r].cur \cap dsp[s].cur = {}

\* Once the settings of a switch have been sent, every packet sent or queued is
\* made of the spectrum of the new receiver by the new pipeline: what was made
\* during the switch never follows them.
CleanAfterSettings ==
  \A c \in Clients : pc[c] = "ready" /\ out[c] = <<>> /\ sender[c] \in {"poll", "take"} =>
    LET clean == [rcv |-> home[c], pipe |-> home[c]]
    IN  /\ shown[c] = home[c]
        /\ wire[c] \in {Silence, clean}
        /\ \A i \in DOMAIN rx[c] : rx[c][i] = clean

\* send_audio never waits for the parameters of a client whose handler, holding
\* them, waits for the pipeline send_audio holds.
NoLockCycle ==
  \A r \in Receivers : \A c \in dsp[r].cur :
    ~ /\ dsp[r].pc = "read" /\ ParamsLocked(c)
      /\ pc[c] = "demodulation" /\ PipelineLocked(c)
=============================================================================
