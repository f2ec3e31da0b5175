----------------------------- MODULE EventsFeed -----------------------------
(***************************************************************************)
(* The events feed (ws/events.rs, start_events_task of dsp_runner.rs): who *)
(* listens where, told to every subscriber of /events.                     *)
(*                                                                         *)
(* The audio handlers keep two accounts of it: the clients in the maps     *)
(* audio_clients with their params, and signal_changes.  A new subscriber  *)
(* gets a snapshot of the first, the ticks of the events task carry the    *)
(* second.  Both are copied shard by shard while handlers go on.           *)
(* server.otherusers is taken to be positive; otherwise nothing is told.   *)
(***************************************************************************)
EXTENDS Integers, Sequences, FiniteSets

CONSTANTS
  Listeners,      \* audio clients
  Receivers, Active,   \* Active: active_receiver_id, where a listener begins
  ShardOrder,     \* the order in which a copy visits <<receiver, listener>>
  Subscribers,
  VisitOrder,     \* the order in which a tick visits the subscribers
  QueueCap,       \* TEXT_QUEUE_CAPACITY
  NoChanges,      \* signal_changes: None
  EveryTicks,     \* 10: a tick without changes is sent only so often
  MaxChanges      \* bound: steps listeners begin altogether

Windows == {"default", "chosen"}
Rows == Receivers \X Listeners \X Windows
Message == (SUBSET Rows) \cup {NoChanges}
Task == "the events task"
Copiers == Subscribers \cup {Task}

ASSUME EventsAssumption ==
  /\ Active \in Receivers /\ Task \notin Subscribers
  /\ \A rows \in SUBSET Rows : rows # NoChanges
  /\ ShardOrder \in Seq(Receivers \X Listeners) /\ VisitOrder \in Seq(Subscribers)
  /\ QueueCap \in Nat \ {0} /\ EveryTicks \in Nat \ {0} /\ MaxChanges \in Nat

VARIABLES
  lpc,        \* where the audio handler of each listener is
  home, old,  \* its receiver, and the one it is leaving
  inMap,      \* {<<r, l>>}: l is in r.audio_clients
  tune,       \* params: "default" or "chosen" window
  signals,    \* {<<r, l, win>>}: r.signal_changes[l] is win
  changes,    \* steps begun so far
  registered, \* event_clients
  spc,        \* where the events handler of each subscriber is
  pos, draft, \* its copy: how far it is, what it has found
  queue,      \* messages queued for its send task
  view,       \* what it was told last of the listeners
  task,       \* start_events_task: program counter, position, tick, message, dead
  absent      \* history: listeners that have been away since a copy began

listenerVars == <<lpc, home, old, inMap, tune, signals, changes>>
feedVars == <<registered, spc, pos, draft, queue, view>>
vars == <<listenerVars, feedVars, task, absent>>

TypeOK ==
  /\ lpc \in [Listeners -> {"away", "announce", "ready", "moveIn", "retune", "withdraw", "bye"}]
  /\ home \in [Listeners -> Receivers] /\ old \in [Listeners -> Receivers]
  /\ inMap \subseteq Receivers \X Listeners /\ tune \in [Listeners -> Windows]
  /\ signals \subseteq Rows /\ changes \in 0 .. MaxChanges
  /\ registered \subseteq Subscribers
  /\ spc \in [Subscribers -> {"new", "copy", "greet", "open", "gone"}]
  /\ pos \in [Subscribers -> Nat] /\ draft \in [Subscribers -> SUBSET Rows]
  /\ view \in [Subscribers -> SUBSET Rows]
  /\ queue \in [Subscribers -> Seq(Message)] /\ \A s \in Subscribers : Len(queue[s]) <= QueueCap
  /\ task \in [pc : {"sleep", "check", "copy", "send", "sweep"}, pos : Nat,
              tick : 0 .. EveryTicks - 1, msg : Message, dead : SUBSET Subscribers]
  /\ absent \in [Copiers -> SUBSET Listeners]

Init ==
  /\ lpc = [l \in Listeners |-> "away"] /\ inMap = {} /\ signals = {} /\ changes = 0
  /\ home = [l \in Listeners |-> Active] /\ old = home
  /\ tune = [l \in Listeners |-> "default"]
  /\ registered = {} /\ spc = [s \in Subscribers |-> "new"]
  /\ pos = [s \in Subscribers |-> 1] /\ draft = [s \in Subscribers |-> {}]
  /\ queue = [s \in Subscribers |-> <<>>] /\ view = [s \in Subscribers |-> {}]
  /\ task = [pc |-> "sleep", pos |-> 1, tick |-> 0, msg |-> NoChanges, dead |-> {}]
  /\ absent = [b \in Copiers |-> {}]
-----------------------------------------------------------------------------
(* Audio handlers *)

\* broadcast_signal_changes: -1 removes the entry, anything else replaces it.
Without(r, l) == {row \in signals : ~(row[1] = r /\ row[2] = l)}
Broadcast(r, l, win) == Without(r, l) \cup {<<r, l, win>>}

Goto(l, at) == lpc' = [lpc EXCEPT ![l] = at]
Begins == changes < MaxChanges /\ changes' = changes + 1

\* The client enters the map ...
Connect(l) ==
  /\ lpc[l] = "away" /\ Begins
  /\ Goto(l, "announce")
  /\ inMap' = inMap \cup {<<home[l], l>>}
  /\ absent' = [b \in Copiers |-> absent[b] \ {l}]
  /\ UNCHANGED <<home, old, tune, signals>>

\* ... and is announced with its default window; so it is after a switch.
Announce(l) ==
  /\ lpc[l] = "announce"
  /\ Goto(l, "ready")
  /\ signals' = Broadcast(home[l], l, "default")
  /\ UNCHANGED <<home, old, inMap, tune, changes, absent>>

\* A window command tells both accounts under the params mutex.
Window(l) ==
  /\ lpc[l] = "ready" /\ Begins
  /\ tune' = [tune EXCEPT ![l] = "chosen"]
  /\ signals' = Broadcast(home[l], l, "chosen")
  /\ UNCHANGED <<lpc, home, old, inMap, absent>>

\* A switch to the receiver it is on: defaults, then the announcement.
Reselect(l) ==
  /\ lpc[l] = "ready" /\ Begins
  /\ tune' = [tune EXCEPT ![l] = "default"]
  /\ Goto(l, "announce")
  /\ UNCHANGED <<home, old, inMap, signals, absent>>

\* A switch: out of one map, into the other, defaults, withdrawn from the
\* old receiver, announced on the new one.
Switch(l, r) ==
  /\ lpc[l] = "ready" /\ r # home[l] /\ Begins
  /\ inMap' = inMap \ {<<home[l], l>>}
  /\ old' = [old EXCEPT ![l] = home[l]] /\ home' = [home EXCEPT ![l] = r]
  /\ Goto(l, "moveIn")
  /\ UNCHANGED <<tune, signals, absent>>
MoveIn(l) ==
  /\ lpc[l] = "moveIn"
  /\ inMap' = inMap \cup {<<home[l], l>>}
  /\ Goto(l, "retune")
  /\ UNCHANGED <<home, old, tune, signals, changes, absent>>
\* Wrong variant: the window chosen on the old receiver is kept.
RetuneForgotten(l) ==
  /\ lpc[l] = "retune"
  /\ Goto(l, "withdraw")
  /\ UNCHANGED <<home, old, inMap, tune, signals, changes, absent>>
Retune(l) ==
  /\ lpc[l] = "retune"
  /\ tune' = [tune EXCEPT ![l] = "default"]
  /\ Goto(l, "withdraw")
  /\ UNCHANGED <<home, old, inMap, signals, changes, absent>>
\* Wrong variant: the new receiver is named instead of the old one.
WithdrawNew(l) ==
  /\ lpc[l] = "withdraw"
  /\ signals' = Without(home[l], l)
  /\ old' = [old EXCEPT ![l] = home[l]]
  /\ Goto(l, "announce")
  /\ UNCHANGED <<home, inMap, tune, changes, absent>>
Withdraw(l) ==
  /\ lpc[l] = "withdraw"
  /\ signals' = Without(old[l], l)
  /\ old' = [old EXCEPT ![l] = home[l]]
  /\ Goto(l, "announce")
  /\ UNCHANGED <<home, inMap, tune, changes, absent>>

\* The connection ends.
Leave(l) ==
  /\ lpc[l] = "ready" /\ Begins
  /\ inMap' = inMap \ {<<home[l], l>>}
  /\ Goto(l, "bye")
  /\ UNCHANGED <<home, old, tune, signals, absent>>
Bye(l) ==
  /\ lpc[l] = "bye"
  /\ signals' = Without(home[l], l)
  /\ home' = [home EXCEPT ![l] = Active] /\ old' = [old EXCEPT ![l] = Active]
  /\ tune' = [tune EXCEPT ![l] = "default"]
  /\ Goto(l, "away")
  /\ UNCHANGED <<inMap, changes, absent>>

Proceed(l) == Announce(l) \/ MoveIn(l) \/ Retune(l) \/ Withdraw(l) \/ Bye(l)
Listener(l) ==
  /\ \/ Connect(l) \/ Window(l) \/ Reselect(l) \/ \E r \in Receivers : Switch(l, r)
     \/ Leave(l) \/ Proceed(l)
  /\ UNCHANGED <<feedVars, task>>
-----------------------------------------------------------------------------
(* Subscribers *)

Away == {l \in Listeners : lpc[l] = "away"}

\* handle(): into the map first, then the snapshot.
Subscribe(s) ==
  /\ spc[s] = "new"
  /\ registered' = registered \cup {s}
  /\ spc' = [spc EXCEPT ![s] = "copy"]
  /\ absent' = [absent EXCEPT ![s] = Away]
  /\ UNCHANGED <<pos, draft, queue, view, task>>

\* The rows of one shard of audio_clients, each with its params.
Found(shard) == IF shard \in inMap THEN {<<shard[1], shard[2], tune[shard[2]]>>} ELSE {}
Snapshot(s) ==
  /\ spc[s] = "copy"
  /\ draft' = [draft EXCEPT ![s] = @ \cup Found(ShardOrder[pos[s]])]
  /\ pos' = [pos EXCEPT ![s] = @ + 1]
  /\ spc' = [spc EXCEPT ![s] = IF pos[s] = Len(ShardOrder) THEN "greet" ELSE "copy"]
  /\ UNCHANGED <<registered, queue, view, task, absent>>

\* The snapshot is sent ahead of whatever was queued meanwhile.
Greet(s) ==
  /\ spc[s] = "greet"
  /\ spc' = [spc EXCEPT ![s] = "open"] /\ view' = [view EXCEPT ![s] = draft[s]]
  /\ pos' = [pos EXCEPT ![s] = 1] /\ draft' = [draft EXCEPT ![s] = {}]
  /\ absent' = [absent EXCEPT ![s] = {}]
  /\ UNCHANGED <<registered, queue, task>>

\* The send task.
Deliver(s) ==
  /\ spc[s] = "open" /\ queue[s] # <<>>
  /\ queue' = [queue EXCEPT ![s] = Tail(@)]
  /\ view' = [view EXCEPT ![s] = IF Head(queue[s]) = NoChanges THEN @ ELSE Head(queue[s])]
  /\ UNCHANGED <<registered, spc, pos, draft, task, absent>>

\* The first send fails, or the connection ends.
Unsubscribe(s) ==
  /\ spc[s] \in {"greet", "open"}
  /\ registered' = registered \ {s}
  /\ spc' = [spc EXCEPT ![s] = "gone"] /\ queue' = [queue EXCEPT ![s] = <<>>]
  /\ pos' = [pos EXCEPT ![s] = 1] /\ draft' = [draft EXCEPT ![s] = {}]
  /\ view' = [view EXCEPT ![s] = {}] /\ absent' = [absent EXCEPT ![s] = {}]
  /\ UNCHANGED task

Subscriber(s) ==
  /\ Subscribe(s) \/ Snapshot(s) \/ Greet(s) \/ Deliver(s) \/ Unsubscribe(s)
  /\ UNCHANGED listenerVars
-----------------------------------------------------------------------------
(* The events task *)

\* A second has passed.
Wake ==
  /\ task.pc = "sleep"
  /\ task' = [task EXCEPT !.pc = "check", !.pos = 1, !.tick = (@ + 1) % EveryTicks]
  /\ UNCHANGED <<feedVars, absent>>

\* Wrong variant: without changes nothing is ever sent.
SkipAlways == TRUE
\* Without changes only every tenth tick goes on.
SkipTick == task.tick # 0

\* include_changes: the receivers are looked at one after the other.
CheckChanges ==
  /\ task.pc = "check"
  /\ IF task.pos > Len(ShardOrder)
       THEN task' = [task EXCEPT !.pc = IF SkipTick THEN "sleep" ELSE "send", !.pos = 1,
                                 !.msg = NoChanges]
            /\ UNCHANGED absent
       ELSE IF \E row \in signals : <<row[1], row[2]>> = ShardOrder[task.pos]
         THEN /\ task' = [task EXCEPT !.pc = "copy", !.pos = 1, !.msg = {}]
              /\ absent' = [absent EXCEPT ![Task] = Away]
         ELSE task' = [task EXCEPT !.pos = @ + 1] /\ UNCHANGED absent
  /\ UNCHANGED feedVars

\* event_info copies signal_changes shard by shard.
CopyChanges ==
  /\ task.pc = "copy"
  /\ LET here == {row \in signals : <<row[1], row[2]>> = ShardOrder[task.pos]}
         last == task.pos = Len(ShardOrder)
     IN  task' = [task EXCEPT !.msg = @ \cup here, !.pc = IF last THEN "send" ELSE "copy",
                              !.pos = IF last THEN 1 ELSE @ + 1]
  /\ UNCHANGED <<feedVars, absent>>

\* try_send to one subscriber after the other; a full queue marks it dead.
SendTick ==
  /\ task.pc = "send"
  /\ LET s == VisitOrder[task.pos]
         full == Len(queue[s]) = QueueCap
         last == task.pos = Len(VisitOrder)
     IN  /\ queue' = IF s \in registered /\ ~full THEN [queue EXCEPT ![s] = Append(@, task.msg)]
                                                  ELSE queue
         /\ task' = [task EXCEPT !.dead = IF s \in registered /\ full THEN @ \cup {s} ELSE @,
                                 !.pc = IF last THEN "sweep" ELSE "send",
                                 !.pos = IF last THEN 1 ELSE @ + 1]
  /\ UNCHANGED <<registered, spc, pos, draft, view, absent>>

\* The dead leave the map; their sockets stay open.
SweepDead ==
  /\ task.pc = "sweep"
  /\ registered' = registered \ task.dead
  /\ task' = [task EXCEPT !.pc = "sleep", !.dead = {}, !.msg = NoChanges]
  /\ absent' = [absent EXCEPT ![Task] = {}]
  /\ UNCHANGED <<spc, pos, draft, queue, view>>

EventsTask ==
  /\ Wake \/ CheckChanges \/ CopyChanges \/ SendTick \/ SweepDead
  /\ UNCHANGED listenerVars

Next ==
  \/ \E l \in Listeners : Listener(l)
  \/ \E s \in Subscribers : Subscriber(s)
  \/ EventsTask

\* A handler finishes what it began, the task wakes again and again, a
\* subscriber that stays reads what it is sent.
Fairness ==
  /\ \A l \in Listeners : WF_vars(Proceed(l) /\ UNCHANGED <<feedVars, task>>)
  /\ \A s \in Subscribers : WF_vars((Snapshot(s) \/ Greet(s) \/ Deliver(s)) /\ UNCHANGED listenerVars)
  /\ WF_vars(EventsTask)

Spec == Init /\ [][Next]_vars /\ Fairness
-----------------------------------------------------------------------------
(* Properties *)

\* A copy, of either account, shows nobody who was away before it began and
\* has not come back since: every way out of a receiver, the switch's and
\* the end's, withdraws the listener from both accounts.
NoGhost ==
  /\ TypeOK
  /\ \A s \in Subscribers : \A row \in draft[s] : row[2] \notin absent[s]
  /\ (task.pc \in {"copy", "send"} /\ task.msg # NoChanges) => \A row \in task.msg : row[2] \notin absent[Task]

\* Who listens where, by the first account.
Listening == {<<shard[1], shard[2], tune[shard[2]]>> : shard \in inMap}

Served(s) == spc[s] = "open" /\ s \in registered

\* Once the listeners come to rest, what a subscriber was told last is what
\* is the case: no race of snapshot, queued ticks and half-finished switches
\* leaves it with a wrong picture, as long as somebody listens at all: the
\* departure of the last listener is not told until somebody listens again.
ViewConverges ==
  <>[](\A s \in Subscribers : (Served(s) /\ Listening # {}) => view[s] = Listening)

\* "/events (text JSON, periodic updates)": a subscriber that stays is sent
\* something again and again, listeners or not, unless it is evicted.
PeriodicUpdates == \A s \in Subscribers : []<>(Served(s) => queue[s] # <<>>)
=============================================================================
