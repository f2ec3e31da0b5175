---------------------------- MODULE WaterfallHub ----------------------------
(***************************************************************************)
(* Waterfall clients and the frames sent to them: handle() and             *)
(* apply_command() of ws/waterfall.rs, send_waterfall() of dsp_runner.rs.  *)
(*                                                                         *)
(* Three kinds of actor share a client: its handler (commands), its send   *)
(* task, and the thread that runs send_waterfall for a receiver.  The      *)
(* client sits in one of the maps waterfall_clients[level] of a receiver;  *)
(* a map is split into shards, each under a reader-writer lock, and        *)
(* send_waterfall holds the read lock of a shard while it visits the       *)
(* clients in it.  The parameters of a client have a mutex of their own.   *)
(*                                                                         *)
(* Each action is what happens between two points where the actor may have *)
(* to wait.  Locks that are taken and released within one action are       *)
(* guards; the two that are held longer are ReadLocked and ParamsLocked.   *)
(* A window is abstracted to its level, a frame to its receiver, the level *)
(* it claims and the level its data was cut from; ReadLocked counts no     *)
(* .len() calls, whose read lock is never held across a step.              *)
(***************************************************************************)
EXTENDS Integers, Sequences

CONSTANTS
  Clients, Receivers, Shards,
  ShardOf,      \* [Clients -> Shards]: the shard a client id hashes to
  Levels,       \* [Receivers -> Nat]: downsample_levels
  Active,       \* active_receiver_id
  Running,      \* enabled receivers: a disabled one has no DSP thread, but can
                \* be selected
  QueueCap,     \* WATERFALL_QUEUE_CAPACITY: 8
  OutCap,       \* capacity of the handler's out channel: 8
  None          \* no receiver

ASSUME HubAssumption ==
  /\ Active \in Receivers /\ Running \subseteq Receivers /\ None \notin Receivers
  /\ Shards # {} /\ ShardOf \in [Clients -> Shards]
  /\ Levels \in [Receivers -> Nat \ {0}]
  /\ QueueCap \in Nat \ {0} /\ OutCap \in Nat \ {0}

VARIABLES
  registered,   \* {<<c, rcv, level>>}: c is in rcv.waterfall_clients[level]
  pc,           \* where the handler of each client is
  home,         \* its local variable receiver
  target,       \* next_receiver of a switch under way, else home
  level,        \* params.level
  newLevel,     \* new_level of a window command under way, else level
  rx,           \* work items queued for the send task
  out,          \* settings messages queued for the send task
  sender,       \* the send task
  shown,        \* receiver of the last settings message on the wire
  wire,         \* receiver of the last frame since then
  dsp           \* send_waterfall of each receiver

clientVars == <<pc, home, target, level, newLevel>>
sendVars == <<rx, out, sender, shown, wire>>
vars == <<registered, clientVars, sendVars, dsp>>

HandlerPC == {"closed", "insert", "ready", "winRemove", "winInsert", "winSet",
              "swRemove", "swSend", "swInsert", "leave"}

AllLevels == UNION {0..(Levels[r] - 1) : r \in Receivers}

Item == [rcv : Receivers, level : AllLevels, data : AllLevels]

\* todo: clients of the shard still to visit; cur: the one being visited.
DspState == [pc : {"idle", "visit", "read", "post"}, level : AllLevels,
             shard : Shards, todo : SUBSET Clients, cur : SUBSET Clients,
             item : SUBSET Item]

\* Type invariant; the queues stay within their capacities.
TypeOK ==
  /\ registered \subseteq Clients \X Receivers \X AllLevels
  /\ pc \in [Clients -> HandlerPC]
  /\ home \in [Clients -> Receivers] /\ target \in [Clients -> Receivers]
  /\ level \in [Clients -> AllLevels] /\ newLevel \in [Clients -> AllLevels]
  /\ rx \in [Clients -> Seq(Item)] /\ out \in [Clients -> Seq(Receivers)]
  /\ \A c \in Clients : Len(rx[c]) <= QueueCap /\ Len(out[c]) <= OutCap
  /\ sender \in [Clients -> {"none", "poll", "take", "dead"}]
  /\ shown \in [Clients -> Receivers \cup {None}]
  /\ wire \in [Clients -> Receivers \cup {None}]
  /\ dsp \in [Receivers -> DspState]

Idle == [pc |-> "idle", level |-> 0, shard |-> CHOOSE s \in Shards : TRUE,
         todo |-> {}, cur |-> {}, item |-> {}]

InitialLevel(r) == Levels[r] - 1

Init ==
  /\ registered = {}
  /\ pc = [c \in Clients |-> "closed"]
  /\ home = [c \in Clients |-> Active] /\ target = [c \in Clients |-> Active]
  /\ level = [c \in Clients |-> InitialLevel(Active)]
  /\ newLevel = [c \in Clients |-> InitialLevel(Active)]
  /\ rx = [c \in Clients |-> <<>>] /\ out = [c \in Clients |-> <<>>]
  /\ sender = [c \in Clients |-> "none"]
  /\ shown = [c \in Clients |-> None] /\ wire = [c \in Clients |-> None]
  /\ dsp = [r \in Receivers |-> Idle]
-----------------------------------------------------------------------------
(* Locks *)

\* Wrong variant: the guard of the map is dropped once the parameters are
\* copied, before try_send.
ReadLockedUntilCopied(r, l, s) ==
  /\ dsp[r].pc \in {"visit", "read"}
  /\ dsp[r].level = l /\ dsp[r].shard = s

\* send_waterfall is iterating over shard s of r.waterfall_clients[l].
ReadLocked(r, l, s) ==
  /\ dsp[r].pc # "idle"
  /\ dsp[r].level = l /\ dsp[r].shard = s

\* The handler of c can write to its shard of r.waterfall_clients[l].
Writable(c, r, l) == ~ReadLocked(r, l, ShardOf[c])

\* Wrong variant: apply_command does not hold the mutex.
ParamsUnlocked(c) == FALSE

\* apply_command holds the params mutex from before the remove to the end.
ParamsLocked(c) == pc[c] \in {"winRemove", "winInsert", "winSet"}

Goto(c, there) == pc' = [pc EXCEPT ![c] = there]
-----------------------------------------------------------------------------
(* handle(): connection *)

\* Spawn the send task, queue the settings of the active receiver.  The locals
\* of a closed handler hold their initial values.
Connect(c) ==
  /\ pc[c] = "closed"
  /\ sender' = [sender EXCEPT ![c] = "poll"]
  /\ out' = [out EXCEPT ![c] = <<Active>>]
  /\ Goto(c, "insert")
  /\ UNCHANGED <<registered, home, target, level, newLevel, rx, shown, wire, dsp>>

Insert(c) ==
  /\ pc[c] = "insert" /\ Writable(c, home[c], level[c])
  /\ registered' = registered \cup {<<c, home[c], level[c]>>}
  /\ Goto(c, "ready")
  /\ UNCHANGED <<home, target, level, newLevel, sendVars, dsp>>

\* Close message, read error or idle timeout.
Leave(c) ==
  /\ pc[c] = "ready"
  /\ Goto(c, "leave")
  /\ UNCHANGED <<registered, home, target, level, newLevel, sendVars, dsp>>

\* After the loop: remove the client, abort the send task.  After a failed
\* switch params.level may be no level of the old receiver: the index panics
\* and the unwinding ends the handler.
LeaveRemove(c) ==
  /\ pc[c] = "leave"
  /\ IF level[c] < Levels[home[c]]
       THEN /\ Writable(c, home[c], level[c])
            /\ registered' = registered \ {<<c, home[c], level[c]>>}
       ELSE UNCHANGED registered
  /\ rx' = [rx EXCEPT ![c] = <<>>] /\ out' = [out EXCEPT ![c] = <<>>]
  /\ sender' = [sender EXCEPT ![c] = "none"]
  /\ shown' = [shown EXCEPT ![c] = None] /\ wire' = [wire EXCEPT ![c] = None]
  /\ home' = [home EXCEPT ![c] = Active] /\ target' = [target EXCEPT ![c] = Active]
  /\ level' = [level EXCEPT ![c] = InitialLevel(Active)]
  /\ newLevel' = [newLevel EXCEPT ![c] = InitialLevel(Active)]
  /\ Goto(c, "closed")
  /\ UNCHANGED dsp
-----------------------------------------------------------------------------
(* apply_command(): a window command that leads to level l *)

\* Lock params.  A window on the current level moves the client nowhere.
WindowLock(c) ==
  /\ pc[c] = "ready"
  /\ \E l \in 0..(Levels[home[c]] - 1) :
       l # level[c] /\ newLevel' = [newLevel EXCEPT ![c] = l]
  /\ Goto(c, "winRemove")
  /\ UNCHANGED <<registered, home, target, level, sendVars, dsp>>

\* Wrong variant: the client stays in the map of its old level.
WindowRemoveForgotten(c) ==
  /\ pc[c] = "winRemove"
  /\ Goto(c, "winInsert")
  /\ UNCHANGED <<registered, home, target, level, newLevel, sendVars, dsp>>

WindowRemove(c) ==
  /\ pc[c] = "winRemove" /\ Writable(c, home[c], level[c])
  /\ registered' = registered \ {<<c, home[c], level[c]>>}
  /\ Goto(c, "winInsert")
  /\ UNCHANGED <<home, target, level, newLevel, sendVars, dsp>>

WindowInsert(c) ==
  /\ pc[c] = "winInsert" /\ Writable(c, home[c], newLevel[c])
  /\ registered' = registered \cup {<<c, home[c], newLevel[c]>>}
  /\ Goto(c, "winSet")
  /\ UNCHANGED <<home, target, level, newLevel, sendVars, dsp>>

\* Set the parameters, unlock.
WindowSet(c) ==
  /\ pc[c] = "winSet"
  /\ level' = [level EXCEPT ![c] = newLevel[c]]
  /\ Goto(c, "ready")
  /\ UNCHANGED <<registered, home, target, newLevel, sendVars, dsp>>
-----------------------------------------------------------------------------
(* handle(): a receiver command, also one that selects the same receiver *)

Switch(c, r) ==
  /\ pc[c] = "ready"
  /\ target' = [target EXCEPT ![c] = r]
  /\ Goto(c, "swRemove")
  /\ UNCHANGED <<registered, home, level, newLevel, sendVars, dsp>>

SwitchRemove(c) ==
  /\ pc[c] = "swRemove" /\ Writable(c, home[c], level[c])
  /\ registered' = registered \ {<<c, home[c], level[c]>>}
  /\ Goto(c, "swSend")
  /\ UNCHANGED <<home, target, level, newLevel, sendVars, dsp>>

\* Wrong variant: try_send in place of send, a full channel loses the settings.
SwitchTrySend(c) ==
  /\ pc[c] = "swSend" /\ sender[c] # "dead"
  /\ level' = [level EXCEPT ![c] = InitialLevel(target[c])]
  /\ out' = IF Len(out[c]) < OutCap THEN [out EXCEPT ![c] = Append(@, target[c])]
                                    ELSE out
  /\ newLevel' = [newLevel EXCEPT ![c] = InitialLevel(target[c])]
  /\ Goto(c, "swInsert")
  /\ UNCHANGED <<registered, home, target, rx, sender, shown, wire, dsp>>

\* Reset the parameters, queue the settings of the new receiver (waits for
\* room in the channel).
SwitchSend(c) ==
  /\ pc[c] = "swSend" /\ sender[c] # "dead" /\ Len(out[c]) < OutCap
  /\ level' = [level EXCEPT ![c] = InitialLevel(target[c])]
  /\ out' = [out EXCEPT ![c] = Append(@, target[c])]
  /\ newLevel' = [newLevel EXCEPT ![c] = InitialLevel(target[c])]
  /\ Goto(c, "swInsert")
  /\ UNCHANGED <<registered, home, target, rx, sender, shown, wire, dsp>>

\* The send task is gone: the loop ends, receiver still being the old one.
SwitchSendFails(c) ==
  /\ pc[c] = "swSend" /\ sender[c] = "dead"
  /\ level' = [level EXCEPT ![c] = InitialLevel(target[c])]
  /\ Goto(c, "leave")
  /\ UNCHANGED <<registered, home, target, newLevel, sendVars, dsp>>

SwitchInsert(c) ==
  /\ pc[c] = "swInsert" /\ Writable(c, target[c], level[c])
  /\ registered' = registered \cup {<<c, target[c], level[c]>>}
  /\ home' = [home EXCEPT ![c] = target[c]]
  /\ Goto(c, "ready")
  /\ UNCHANGED <<target, level, newLevel, sendVars, dsp>>
-----------------------------------------------------------------------------
(* The send task *)

\* Wrong variant: queued frames are kept.
SettingsWithoutDrain(c) ==
  /\ sender[c] = "poll" /\ out[c] # <<>>
  /\ shown' = [shown EXCEPT ![c] = Head(out[c])]
  /\ wire' = [wire EXCEPT ![c] = None]
  /\ out' = [out EXCEPT ![c] = Tail(@)]
  /\ UNCHANGED <<registered, clientVars, rx, sender, dsp>>

\* biased select: settings first.  Drop what is queued, restart the encoder,
\* send the settings text.
SendSettings(c) ==
  /\ sender[c] = "poll" /\ out[c] # <<>>
  /\ rx' = [rx EXCEPT ![c] = <<>>]
  /\ shown' = [shown EXCEPT ![c] = Head(out[c])]
  /\ wire' = [wire EXCEPT ![c] = None]
  /\ out' = [out EXCEPT ![c] = Tail(@)]
  /\ UNCHANGED <<registered, clientVars, sender, dsp>>

\* No settings were queued when the select polled.
PollFrames(c) ==
  /\ sender[c] = "poll" /\ out[c] = <<>> /\ rx[c] # <<>>
  /\ sender' = [sender EXCEPT ![c] = "take"]
  /\ UNCHANGED <<registered, clientVars, rx, out, shown, wire, dsp>>

\* Encode and send the oldest frame.
SendFrame(c) ==
  /\ sender[c] = "take"
  /\ wire' = [wire EXCEPT ![c] = Head(rx[c]).rcv]
  /\ rx' = [rx EXCEPT ![c] = Tail(@)]
  /\ sender' = [sender EXCEPT ![c] = "poll"]
  /\ UNCHANGED <<registered, clientVars, out, shown, dsp>>

\* A send to the socket or the new encoder fails: the task ends and both
\* channels close.
SenderDies(c) ==
  /\ sender[c] \in {"poll", "take"}
  /\ sender' = [sender EXCEPT ![c] = "dead"]
  /\ rx' = [rx EXCEPT ![c] = <<>>] /\ out' = [out EXCEPT ![c] = <<>>]
  /\ UNCHANGED <<registered, clientVars, shown, wire, dsp>>
-----------------------------------------------------------------------------
(* send_waterfall() of receiver r *)

InShard(r, l, s) == {c \in Clients : <<c, r, l>> \in registered /\ ShardOf[c] = s}

\* Take the read lock of a shard that has entries.  Between two shards no lock
\* is held and nothing is remembered; the code goes through levels and shards
\* in order, any order is allowed here.
DspEnter(r) ==
  /\ dsp[r].pc = "idle"
  /\ \E l \in 0..(Levels[r] - 1), s \in Shards :
       /\ InShard(r, l, s) # {}
       /\ dsp' = [dsp EXCEPT ![r] = [Idle EXCEPT !.pc = "visit", !.level = l,
                                       !.shard = s, !.todo = InShard(r, l, s)]]
  /\ UNCHANGED <<registered, clientVars, sendVars>>

\* The next entry of the iteration.
DspNext(r) ==
  /\ dsp[r].pc = "visit"
  /\ \E c \in dsp[r].todo :
       dsp' = [dsp EXCEPT ![r].pc = "read", ![r].cur = {c}, ![r].todo = @ \ {c}]
  /\ UNCHANGED <<registered, clientVars, sendVars>>

\* Lock the parameters (waits for the handler), copy and unlock them.  A window
\* that does not fit this level skips the client.
DspRead(r) ==
  /\ dsp[r].pc = "read"
  /\ \E c \in dsp[r].cur :
       /\ ~ParamsLocked(c)
       /\ \/ dsp' = [dsp EXCEPT ![r].pc = "post",
                     ![r].item = {[rcv |-> r, level |-> level[c], data |-> dsp[r].level]}]
          \/ dsp' = [dsp EXCEPT ![r].pc = "visit", ![r].cur = {}]
  /\ UNCHANGED <<registered, clientVars, sendVars>>

\* try_send: a full queue drops the frame, a closed one ignores it.
DspPost(r) ==
  /\ dsp[r].pc = "post"
  /\ \E c \in dsp[r].cur, i \in dsp[r].item :
       rx' = IF sender[c] \in {"poll", "take"} /\ Len(rx[c]) < QueueCap
               THEN [rx EXCEPT ![c] = Append(@, i)] ELSE rx
  /\ dsp' = [dsp EXCEPT ![r].pc = "visit", ![r].cur = {}, ![r].item = {}]
  /\ UNCHANGED <<registered, clientVars, out, sender, shown, wire>>

\* The shard is done: release its lock.
DspLeave(r) ==
  /\ dsp[r].pc = "visit" /\ dsp[r].todo = {}
  /\ dsp' = [dsp EXCEPT ![r] = Idle]
  /\ UNCHANGED <<registered, clientVars, sendVars>>
-----------------------------------------------------------------------------
Handler(c) == \/ Connect(c) \/ Insert(c) \/ Leave(c) \/ LeaveRemove(c)
              \/ WindowLock(c) \/ WindowRemove(c) \/ WindowInsert(c) \/ WindowSet(c)
              \/ \E r \in Receivers : Switch(c, r)
              \/ SwitchRemove(c) \/ SwitchSend(c) \/ SwitchSendFails(c)
              \/ SwitchInsert(c)

SendTask(c) == \/ SendSettings(c) \/ PollFrames(c) \/ SendFrame(c)
               \/ SenderDies(c)

SendWaterfall(r) == \/ DspEnter(r) \/ DspNext(r) \/ DspRead(r) \/ DspPost(r)
                    \/ DspLeave(r)

Next == \/ \E c \in Clients : Handler(c) \/ SendTask(c)
        \/ \E r \in Running : SendWaterfall(r)

Spec == Init /\ [][Next]_vars
-----------------------------------------------------------------------------
(* Properties *)

Entries(c) == {e \in registered : e[1] = c}

\* A client is in at most one map of one receiver.  Between two commands it
\* is in the map its handler will remove it from; a closed one is in none.
RegistryMatchesHandler ==
  /\ TypeOK
  /\ \A c \in Clients :
    /\ \A e, f \in Entries(c) : e = f
    /\ pc[c] = "ready" => Entries(c) = {<<c, home[c], level[c]>>}
    /\ pc[c] = "closed" => Entries(c) = {}

\* The level a frame claims is the level its data was cut from, although the
\* client changes levels while frames are being sent.
LevelMatchesData ==
  \A c \in Clients : \A i \in DOMAIN rx[c] : rx[c][i].level = rx[c][i].data

\* Every frame on the wire belongs to the receiver whose settings were sent
\* last (PROTOCOL.md: settings before any binary stream restart).
FrameMatchesSettings ==
  \A c \in Clients : wire[c] # None => wire[c] = shown[c]

\* Between two commands the settings of the receiver the client is on have
\* been sent, or are the last ones in the queue.
SettingsCurrent ==
  \A c \in Clients : pc[c] = "ready" /\ sender[c] \in {"poll", "take"} =>
    home[c] = IF out[c] = <<>> THEN shown[c] ELSE out[c][Len(out[c])]

\* A frame is queued only for a client that is, at that moment, in the map of
\* the receiver and the level the frame is for.
QueuedOnlyWhileRegistered ==
  [][\A c \in Clients : Len(rx'[c]) > Len(rx[c]) =>
       LET i == rx'[c][Len(rx'[c])] IN <<c, i.rcv, i.data>> \in registered]_vars

\* STATE.md: DashMap gives the client registries "fast concurrent access":
\* send_waterfall never waits for a client's parameters while the handler
\* that holds them waits for the shard send_waterfall is in.
NoCircularWait ==
  \A r \in Receivers : \A c \in dsp[r].cur :
    ~ /\ dsp[r].pc = "read" /\ ParamsLocked(c)
      /\ \/ pc[c] = "winRemove" /\ ~Writable(c, home[c], level[c])
         \/ pc[c] = "winInsert" /\ ~Writable(c, home[c], newLevel[c])
=============================================================================
