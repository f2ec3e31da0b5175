-------------------------- MODULE EventsFeedProofs --------------------------
(***************************************************************************)
(* For all listeners, receivers, subscribers and shard orders: no snapshot *)
(* and no tick shows somebody who was away before it was begun, however    *)
(* handlers that switch, retune or end interleave with the copying.        *)
(***************************************************************************)
EXTENDS EventsFeed, SequenceTheorems, TLAPS

USE EventsAssumption

(***************************************************************************)
(* The inductive invariant.                                                *)
(***************************************************************************)

\* The type invariant in parts.
ListenerTypes ==
  /\ lpc \in [Listeners -> {"away", "announce", "ready", "moveIn", "retune", "withdraw", "bye"}]
  /\ home \in [Listeners -> Receivers] /\ old \in [Listeners -> Receivers]
  /\ inMap \subseteq Receivers \X Listeners /\ tune \in [Listeners -> Windows]
  /\ signals \subseteq Rows /\ changes \in 0 .. MaxChanges
FeedTypes ==
  /\ registered \subseteq Subscribers
  /\ spc \in [Subscribers -> {"new", "copy", "greet", "open", "gone"}]
  /\ pos \in [Subscribers -> Nat] /\ draft \in [Subscribers -> SUBSET Rows]
  /\ view \in [Subscribers -> SUBSET Rows]
QueueTypes ==
  /\ queue \in [Subscribers -> Seq(Message)]
  /\ \A s \in Subscribers : Len(queue[s]) <= QueueCap
TaskTypes ==
  task \in [pc : {"sleep", "check", "copy", "send", "sweep"}, pos : Nat,
            tick : 0 .. EveryTicks - 1, msg : Message, dead : SUBSET Subscribers]
AbsentTypes == absent \in [Copiers -> SUBSET Listeners]

Types == ListenerTypes /\ FeedTypes /\ QueueTypes /\ TaskTypes /\ AbsentTypes

\* A listener is in the map of its receiver only, and out of it while it moves
\* or is away; its signals are those of the receiver it has not withdrawn from,
\* and gone when it is away.
ListenerAt(l) ==
  /\ \A shard \in inMap : shard[2] = l =>
       shard[1] = home[l] /\ lpc[l] \in {"announce", "ready", "retune", "withdraw"}
  /\ \A row \in signals : row[2] = l => row[1] = old[l] /\ lpc[l] # "away"
  /\ lpc[l] \notin {"moveIn", "retune", "withdraw"} => old[l] = home[l]
Placed == \A l \in Listeners : ListenerAt(l)

\* Whoever counts as absent from a copy is away now.
StillAway == \A b \in Copiers : \A l \in absent[b] : lpc[l] = "away"

\* A snapshot shows nobody absent; it is empty before it is begun.
Snapshots == \A s \in Subscribers :
  /\ \A row \in draft[s] : row[2] \notin absent[s]
  /\ spc[s] = "new" => draft[s] = {}

\* Nor does a tick; while it is copied it is a set of rows.
Ticks ==
  /\ (task.pc \in {"copy", "send"} /\ task.msg # NoChanges) =>
       \A row \in task.msg : row[2] \notin absent[Task]
  /\ task.pc = "copy" => task.msg # NoChanges

IInv == Types /\ Placed /\ StillAway /\ Snapshots /\ Ticks
-----------------------------------------------------------------------------
(* Steps *)

\* The parts hold at first: everybody is away and nothing was told.
LEMMA InitInvariant == Init => IInv
<1> SUFFICES ASSUME Init PROVE IInv
  OBVIOUS
<1> USE DEF Init
<1>1. ListenerTypes /\ FeedTypes
  BY DEF ListenerTypes, FeedTypes, Windows
<1>2. QueueTypes /\ TaskTypes /\ AbsentTypes
  BY EmptySeq DEF QueueTypes, TaskTypes, AbsentTypes, Message
<1>3. Placed /\ StillAway
  BY DEF Placed, ListenerAt, StillAway
<1>4. Snapshots /\ Ticks
  BY DEF Snapshots, Ticks
<1>5. QED
  BY <1>1, <1>2, <1>3, <1>4 DEF IInv, Types

\* A broadcast touches the entries of its listener at its receiver only.
LEMMA SignalFacts ==
  ASSUME ListenerTypes, NEW l \in Listeners, NEW r \in Receivers, NEW win \in Windows
  PROVE  /\ Broadcast(r, l, win) \subseteq Rows /\ Without(r, l) \subseteq signals
         /\ \A row \in Broadcast(r, l, win) : row \in signals \/ (row[1] = r /\ row[2] = l)
         /\ \A row \in Without(r, l) : ~(row[1] = r /\ row[2] = l)
  BY DEF ListenerTypes, Rows, Broadcast, Without

\* The rows of a shard.
LEMMA FoundFacts ==
  ASSUME ListenerTypes, Placed, NEW shard
  PROVE  Found(shard) \subseteq Rows /\ \A row \in Found(shard) : row[2] \in Listeners /\ lpc[row[2]] # "away"
<1>1. CASE shard \in inMap
  <2>1. PICK r \in Receivers, l \in Listeners : shard = <<r, l>>
    BY <1>1 DEF ListenerTypes
  <2>2. lpc[l] # "away" /\ tune[l] \in Windows
    BY <1>1, <2>1 DEF ListenerTypes, Placed, ListenerAt
  <2>3. QED
    BY <1>1, <2>1, <2>2 DEF Found, Rows
<1>2. CASE shard \notin inMap
  BY <1>2 DEF Found
<1>3. QED
  BY <1>1, <1>2

\* The accounts the audio handlers keep keep their types.
LEMMA ListenerTypesStep ==
  ASSUME ListenerTypes, [Next]_vars
  PROVE  ListenerTypes'
<1> USE DEF ListenerTypes, Goto, Begins, listenerVars, feedVars
<1>1. ASSUME NEW l \in Listeners, Connect(l), UNCHANGED <<feedVars, task>>
      PROVE  ListenerTypes'
  BY <1>1 DEF Connect
<1>2. ASSUME NEW l \in Listeners, Announce(l), UNCHANGED <<feedVars, task>>
      PROVE  ListenerTypes'
  BY SignalFacts, <1>2 DEF Announce, Windows
<1>3. ASSUME NEW l \in Listeners, Window(l), UNCHANGED <<feedVars, task>>
      PROVE  ListenerTypes'
  BY SignalFacts, <1>3 DEF Window, Windows
<1>4. ASSUME NEW l \in Listeners, Reselect(l), UNCHANGED <<feedVars, task>>
      PROVE  ListenerTypes'
  BY <1>4 DEF Reselect, Windows
<1>5. ASSUME NEW l \in Listeners, NEW r \in Receivers, UNCHANGED <<feedVars, task>>,
             Switch(l, r)
      PROVE  ListenerTypes'
  BY <1>5 DEF Switch
<1>6. ASSUME NEW l \in Listeners, MoveIn(l), UNCHANGED <<feedVars, task>>
      PROVE  ListenerTypes'
  BY <1>6 DEF MoveIn
<1>7. ASSUME NEW l \in Listeners, Retune(l), UNCHANGED <<feedVars, task>>
      PROVE  ListenerTypes'
  BY <1>7 DEF Retune, Windows
<1>8. ASSUME NEW l \in Listeners, Withdraw(l), UNCHANGED <<feedVars, task>>
      PROVE  ListenerTypes'
  BY SignalFacts, <1>8 DEF Withdraw, Windows
<1>9. ASSUME NEW l \in Listeners, Leave(l), UNCHANGED <<feedVars, task>>
      PROVE  ListenerTypes'
  BY <1>9 DEF Leave
<1>10. ASSUME NEW l \in Listeners, Bye(l), UNCHANGED <<feedVars, task>>
      PROVE  ListenerTypes'
  BY SignalFacts, <1>10 DEF Bye, Windows
<1>11. ASSUME NEW s \in Subscribers, UNCHANGED listenerVars,
             Subscribe(s) \/ Snapshot(s) \/ Greet(s) \/ Deliver(s) \/ Unsubscribe(s)
      PROVE  ListenerTypes'
  BY <1>11 DEF Subscribe, Snapshot, Greet, Deliver, Unsubscribe
<1>12. CASE (Wake \/ CheckChanges \/ CopyChanges \/ SendTick \/ SweepDead) /\ UNCHANGED listenerVars
  BY <1>12 DEF Wake, CheckChanges, CopyChanges, SendTick, SweepDead
<1>13. CASE UNCHANGED vars
  BY <1>13 DEF vars
<1>14. QED
  BY <1>1, <1>2, <1>3, <1>4, <1>5, <1>6, <1>7, <1>8, <1>9, <1>10, <1>11, <1>12, <1>13
     DEF Next, Listener, Proceed, Subscriber, EventsTask

\* The subscribers keep their types.
LEMMA FeedTypesStep ==
  ASSUME ListenerTypes, Placed, FeedTypes, QueueTypes, [Next]_vars
  PROVE  FeedTypes'
<1> USE DEF FeedTypes, Goto, Begins, listenerVars, feedVars
<1>1. ASSUME NEW s \in Subscribers, Subscribe(s), UNCHANGED listenerVars
      PROVE  FeedTypes'
  BY <1>1 DEF Subscribe
<1>2. ASSUME NEW s \in Subscribers, Snapshot(s), UNCHANGED listenerVars
      PROVE  FeedTypes'
  BY FoundFacts, <1>2 DEF Snapshot
<1>3. ASSUME NEW s \in Subscribers, Greet(s), UNCHANGED listenerVars
      PROVE  FeedTypes'
  BY <1>3 DEF Greet
<1>4. ASSUME NEW s \in Subscribers, Deliver(s), UNCHANGED listenerVars
      PROVE  FeedTypes'
  <2>1. queue[s] \in Seq(Message) /\ queue[s] # <<>>
    BY <1>4 DEF Deliver, QueueTypes
  <2>2. Head(queue[s]) \in Message
    BY <2>1, HeadTailProperties
  <2>3. QED
    BY <1>4, <2>2 DEF Deliver, Message
<1>5. ASSUME NEW s \in Subscribers, Unsubscribe(s), UNCHANGED listenerVars
      PROVE  FeedTypes'
  BY <1>5 DEF Unsubscribe
<1>6. ASSUME NEW l \in Listeners, UNCHANGED <<feedVars, task>>,
             Connect(l) \/ Announce(l) \/ Window(l) \/ Reselect(l) \/ MoveIn(l) \/
                Retune(l) \/ Withdraw(l) \/ Leave(l) \/ Bye(l)
      PROVE  FeedTypes'
  BY <1>6 DEF Connect, Announce, Window, Reselect, MoveIn, Retune, Withdraw, Leave, Bye
<1>7. ASSUME NEW l \in Listeners, NEW r \in Receivers, UNCHANGED <<feedVars, task>>,
             Switch(l, r)
      PROVE  FeedTypes'
  BY <1>7 DEF Switch
<1>8. CASE (Wake \/ CheckChanges \/ CopyChanges \/ SendTick \/ SweepDead) /\ UNCHANGED listenerVars
  BY <1>8 DEF Wake, CheckChanges, CopyChanges, SendTick, SweepDead
<1>9. CASE UNCHANGED vars
  BY <1>9 DEF vars
<1>10. QED
  BY <1>1, <1>2, <1>3, <1>4, <1>5, <1>6, <1>7, <1>8, <1>9 DEF Next, Listener, Proceed,
     Subscriber, EventsTask

\* Queues hold messages, and no more than they may.
LEMMA QueueTypesStep ==
  ASSUME FeedTypes, QueueTypes, TaskTypes, [Next]_vars
  PROVE  QueueTypes'
<1> USE DEF QueueTypes, Goto, Begins, listenerVars, feedVars
<1>1. ASSUME NEW s \in Subscribers, Deliver(s), UNCHANGED listenerVars
      PROVE  QueueTypes'
  BY HeadTailProperties, LenProperties, <1>1 DEF Deliver
<1>2. ASSUME NEW s \in Subscribers, Unsubscribe(s), UNCHANGED listenerVars
      PROVE  QueueTypes'
  BY EmptySeq, <1>2 DEF Unsubscribe
<1>3. CASE SendTick /\ UNCHANGED listenerVars
  <2> DEFINE v == VisitOrder[task.pos]
  <2>1. CASE v \in registered /\ Len(queue[v]) # QueueCap
    <3>1. v \in Subscribers /\ queue[v] \in Seq(Message) /\ task.msg \in Message
      BY <2>1 DEF FeedTypes, TaskTypes
    <3>2. /\ Append(queue[v], task.msg) \in Seq(Message)
          /\ Len(Append(queue[v], task.msg)) = Len(queue[v]) + 1 /\ Len(queue[v]) \in Nat
      BY <3>1, AppendProperties, LenProperties
    <3>3. Len(queue[v]) <= QueueCap
      BY <3>1
    <3>4. Len(Append(queue[v], task.msg)) <= QueueCap
      BY <2>1, <3>2, <3>3
    <3>5. queue' = [queue EXCEPT ![v] = Append(queue[v], task.msg)]
      BY <1>3, <2>1 DEF SendTick
    <3>6. QED
      BY <3>1, <3>2, <3>4, <3>5
  <2>2. CASE ~(v \in registered /\ Len(queue[v]) # QueueCap)
    BY <1>3, <2>2 DEF SendTick
  <2>3. QED
    BY <2>1, <2>2
<1>4. ASSUME NEW l \in Listeners, UNCHANGED <<feedVars, task>>,
             Connect(l) \/ Announce(l) \/ Window(l) \/ Reselect(l) \/ MoveIn(l) \/
                Retune(l) \/ Withdraw(l) \/ Leave(l) \/ Bye(l)
      PROVE  QueueTypes'
  BY <1>4 DEF Connect, Announce, Window, Reselect, MoveIn, Retune, Withdraw, Leave, Bye
<1>5. ASSUME NEW l \in Listeners, NEW r \in Receivers, UNCHANGED <<feedVars, task>>,
             Switch(l, r)
      PROVE  QueueTypes'
  BY <1>5 DEF Switch
<1>6. ASSUME NEW s \in Subscribers, UNCHANGED listenerVars,
             Subscribe(s) \/ Snapshot(s) \/ Greet(s)
      PROVE  QueueTypes'
  BY <1>6 DEF Subscribe, Snapshot, Greet
<1>7. CASE (Wake \/ CheckChanges \/ CopyChanges \/ SweepDead) /\ UNCHANGED listenerVars
  BY <1>7 DEF Wake, CheckChanges, CopyChanges, SweepDead
<1>8. CASE UNCHANGED vars
  BY <1>8 DEF vars
<1>9. QED
  BY <1>1, <1>2, <1>3, <1>4, <1>5, <1>6, <1>7, <1>8 DEF Next, Listener, Proceed,
     Subscriber, EventsTask

\* The events task keeps its type.
LEMMA TaskTypesStep ==
  ASSUME ListenerTypes, FeedTypes, TaskTypes, Ticks, [Next]_vars
  PROVE  TaskTypes'
<1> USE DEF TaskTypes, Goto, Begins, listenerVars, feedVars
<1>1. CASE Wake /\ UNCHANGED listenerVars
  <2>1. (task.tick + 1) % EveryTicks \in 0 .. EveryTicks - 1 /\ task.tick \in Nat
    OBVIOUS
  <2>2. QED
    BY <1>1, <2>1 DEF Wake
<1>2. CASE CheckChanges /\ UNCHANGED listenerVars
  <2>1. NoChanges \in Message /\ {} \in Message
    BY DEF Message
  <2>2. \/ \E at \in {"sleep", "send"} : task' = [task EXCEPT !.pc = at, !.pos = 1, !.msg = NoChanges]
        \/ task' = [task EXCEPT !.pc = "copy", !.pos = 1, !.msg = {}]
        \/ task' = [task EXCEPT !.pos = task.pos + 1]
    BY <1>2 DEF CheckChanges
  <2>3. CASE task' = [task EXCEPT !.pc = "copy", !.pos = 1, !.msg = {}]
    BY <2>1, <2>3
  <2>4. CASE task' = [task EXCEPT !.pos = task.pos + 1]
    <3>1. task.pos + 1 \in Nat
      OBVIOUS
    <3>2. QED
      BY ONLY <2>4, <3>1, TaskTypes DEF TaskTypes
  <2>5. CASE \E at \in {"sleep", "send"} : task' = [task EXCEPT !.pc = at, !.pos = 1, !.msg = NoChanges]
    <3>1. PICK at \in {"sleep", "send"} : task' = [task EXCEPT !.pc = at, !.pos = 1, !.msg = NoChanges]
      BY <2>5
    <3>2. QED
      BY ONLY <2>1, <3>1, TaskTypes DEF TaskTypes
  <2>6. QED
    BY <2>2, <2>3, <2>4, <2>5
<1>3. CASE CopyChanges /\ UNCHANGED listenerVars
  <2> DEFINE here == {row \in signals : <<row[1], row[2]>> = ShardOrder[task.pos]}
  <2>1. PICK at \in {"send", "copy"}, n \in Nat :
          task' = [task EXCEPT !.msg = task.msg \cup here, !.pc = at, !.pos = n]
    <3> DEFINE at == IF task.pos = Len(ShardOrder) THEN "send" ELSE "copy"
               n == IF task.pos = Len(ShardOrder) THEN 1 ELSE task.pos + 1
    <3>1. task' = [task EXCEPT !.msg = task.msg \cup here, !.pc = at, !.pos = n]
      BY <1>3 DEF CopyChanges
    <3>2. at \in {"send", "copy"} /\ n \in Nat
      OBVIOUS
    <3>3. QED
      BY <3>1, <3>2
  <2>2. task.msg \in SUBSET Rows /\ here \in SUBSET Rows
    BY <1>3 DEF Ticks, CopyChanges, Message, ListenerTypes
  <2>3. task.msg \cup here \in Message
    BY <2>2 DEF Message
  <2> HIDE DEF here
  <2>4. QED
    BY <2>1, <2>3
<1>4. CASE SendTick /\ UNCHANGED listenerVars
  <2>1. PICK at \in {"sweep", "send"}, n \in Nat, dead \in SUBSET Subscribers :
          task' = [task EXCEPT !.dead = dead, !.pc = at, !.pos = n]
    <3> DEFINE d == IF VisitOrder[task.pos] \in registered /\ Len(queue[VisitOrder[task.pos]]) = QueueCap
                      THEN task.dead \cup {VisitOrder[task.pos]} ELSE task.dead
               at == IF task.pos = Len(VisitOrder) THEN "sweep" ELSE "send"
               n == IF task.pos = Len(VisitOrder) THEN 1 ELSE task.pos + 1
    <3>1. task' = [task EXCEPT !.dead = d, !.pc = at, !.pos = n]
      BY <1>4 DEF SendTick
    <3>2. d \in SUBSET Subscribers /\ at \in {"sweep", "send"} /\ n \in Nat
      BY DEF FeedTypes
    <3>3. QED
      BY <3>1, <3>2
  <2>2. QED
    BY <2>1
<1>5. CASE SweepDead /\ UNCHANGED listenerVars
  BY <1>5 DEF SweepDead, Message
<1>6. ASSUME NEW l \in Listeners, UNCHANGED <<feedVars, task>>,
             Connect(l) \/ Announce(l) \/ Window(l) \/ Reselect(l) \/ MoveIn(l) \/
                Retune(l) \/ Withdraw(l) \/ Leave(l) \/ Bye(l)
      PROVE  TaskTypes'
  BY <1>6 DEF Connect, Announce, Window, Reselect, MoveIn, Retune, Withdraw, Leave, Bye
<1>7. ASSUME NEW l \in Listeners, NEW r \in Receivers, UNCHANGED <<feedVars, task>>,
             Switch(l, r)
      PROVE  TaskTypes'
  BY <1>7 DEF Switch
<1>8. ASSUME NEW s \in Subscribers, UNCHANGED listenerVars,
             Subscribe(s) \/ Snapshot(s) \/ Greet(s) \/ Deliver(s) \/ Unsubscribe(s)
      PROVE  TaskTypes'
  BY <1>8 DEF Subscribe, Snapshot, Greet, Deliver, Unsubscribe
<1>9. CASE UNCHANGED vars
  BY <1>9 DEF vars
<1>10. QED
  BY <1>1, <1>2, <1>3, <1>4, <1>5, <1>6, <1>7, <1>8, <1>9 DEF Next, Listener, Proceed,
     Subscriber, EventsTask

\* Who is absent from a copy is a listener.
LEMMA AbsentTypesStep ==
  ASSUME AbsentTypes, [Next]_vars
  PROVE  AbsentTypes'
<1> USE DEF AbsentTypes, Copiers, Away, Goto, Begins, listenerVars, feedVars
<1>1. ASSUME NEW l \in Listeners, Connect(l), UNCHANGED <<feedVars, task>>
      PROVE  AbsentTypes'
  BY <1>1 DEF Connect
<1>2. ASSUME NEW s \in Subscribers, Subscribe(s), UNCHANGED listenerVars
      PROVE  AbsentTypes'
  BY <1>2 DEF Subscribe
<1>3. ASSUME NEW s \in Subscribers, Greet(s), UNCHANGED listenerVars
      PROVE  AbsentTypes'
  BY <1>3 DEF Greet
<1>4. ASSUME NEW s \in Subscribers, Unsubscribe(s), UNCHANGED listenerVars
      PROVE  AbsentTypes'
  BY <1>4 DEF Unsubscribe
<1>5. CASE CheckChanges /\ UNCHANGED listenerVars
  BY <1>5 DEF CheckChanges
<1>6. CASE SweepDead /\ UNCHANGED listenerVars
  BY <1>6 DEF SweepDead
<1>7. ASSUME NEW l \in Listeners, UNCHANGED <<feedVars, task>>,
             Announce(l) \/ Window(l) \/ Reselect(l) \/ MoveIn(l) \/ Retune(l) \/
                Withdraw(l) \/ Leave(l) \/ Bye(l)
      PROVE  AbsentTypes'
  BY <1>7 DEF Announce, Window, Reselect, MoveIn, Retune, Withdraw, Leave, Bye
<1>8. ASSUME NEW l \in Listeners, NEW r \in Receivers, UNCHANGED <<feedVars, task>>,
             Switch(l, r)
      PROVE  AbsentTypes'
  BY <1>8 DEF Switch
<1>9. ASSUME NEW s \in Subscribers, Snapshot(s) \/ Deliver(s), UNCHANGED listenerVars
      PROVE  AbsentTypes'
  BY <1>9 DEF Snapshot, Deliver
<1>10. CASE (Wake \/ CopyChanges \/ SendTick) /\ UNCHANGED listenerVars
  BY <1>10 DEF Wake, CopyChanges, SendTick
<1>11. CASE UNCHANGED vars
  BY <1>11 DEF vars
<1>12. QED
  BY <1>1, <1>2, <1>3, <1>4, <1>5, <1>6, <1>7, <1>8, <1>9, <1>10, <1>11 DEF Next,
     Listener, Proceed, Subscriber, EventsTask

\* Every handler leaves its listener in one map, and withdraws it from the other account.
LEMMA PlacedStep ==
  ASSUME ListenerTypes, Placed, [Next]_vars, NEW x \in Listeners
  PROVE  ListenerAt(x)'
<1> USE DEF ListenerTypes, Placed, ListenerAt, Goto, Begins, listenerVars, feedVars
<1>1. ASSUME NEW l \in Listeners, Connect(l), UNCHANGED <<feedVars, task>>
      PROVE  ListenerAt(x)'
  BY <1>1 DEF Connect
<1>2. ASSUME NEW l \in Listeners, Announce(l), UNCHANGED <<feedVars, task>>
      PROVE  ListenerAt(x)'
  BY SignalFacts, <1>2 DEF Announce, Windows
<1>3. ASSUME NEW l \in Listeners, Window(l), UNCHANGED <<feedVars, task>>
      PROVE  ListenerAt(x)'
  BY SignalFacts, <1>3 DEF Window, Windows
<1>4. ASSUME NEW l \in Listeners, Reselect(l), UNCHANGED <<feedVars, task>>
      PROVE  ListenerAt(x)'
  BY <1>4 DEF Reselect
<1>5. ASSUME NEW l \in Listeners, NEW r \in Receivers, UNCHANGED <<feedVars, task>>,
             Switch(l, r)
      PROVE  ListenerAt(x)'
  BY <1>5 DEF Switch
<1>6. ASSUME NEW l \in Listeners, MoveIn(l), UNCHANGED <<feedVars, task>>
      PROVE  ListenerAt(x)'
  BY <1>6 DEF MoveIn
<1>7. ASSUME NEW l \in Listeners, Retune(l), UNCHANGED <<feedVars, task>>
      PROVE  ListenerAt(x)'
  BY <1>7 DEF Retune
<1>8. ASSUME NEW l \in Listeners, Withdraw(l), UNCHANGED <<feedVars, task>>
      PROVE  ListenerAt(x)'
  BY SignalFacts, <1>8 DEF Withdraw, Windows
<1>9. ASSUME NEW l \in Listeners, Leave(l), UNCHANGED <<feedVars, task>>
      PROVE  ListenerAt(x)'
  BY <1>9 DEF Leave
<1>10. ASSUME NEW l \in Listeners, Bye(l), UNCHANGED <<feedVars, task>>
      PROVE  ListenerAt(x)'
  BY SignalFacts, <1>10 DEF Bye, Windows
<1>11. ASSUME NEW s \in Subscribers, UNCHANGED listenerVars,
             Subscribe(s) \/ Snapshot(s) \/ Greet(s) \/ Deliver(s) \/ Unsubscribe(s)
      PROVE  ListenerAt(x)'
  BY <1>11 DEF Subscribe, Snapshot, Greet, Deliver, Unsubscribe
<1>12. CASE (Wake \/ CheckChanges \/ CopyChanges \/ SendTick \/ SweepDead) /\ UNCHANGED listenerVars
  BY <1>12 DEF Wake, CheckChanges, CopyChanges, SendTick, SweepDead
<1>13. CASE UNCHANGED vars
  BY <1>13 DEF vars
<1>14. QED
  BY <1>1, <1>2, <1>3, <1>4, <1>5, <1>6, <1>7, <1>8, <1>9, <1>10, <1>11, <1>12, <1>13
     DEF Next, Listener, Proceed, Subscriber, EventsTask

\* Whoever comes back is not absent any more.
LEMMA StillAwayStep ==
  ASSUME ListenerTypes, AbsentTypes, StillAway, [Next]_vars
  PROVE  StillAway'
<1> USE DEF ListenerTypes, AbsentTypes, StillAway, Copiers, Goto, Begins, listenerVars,
   feedVars
<1>1. ASSUME NEW l \in Listeners, Connect(l), UNCHANGED <<feedVars, task>>
      PROVE  StillAway'
  BY <1>1 DEF Connect
<1>2. ASSUME NEW s \in Subscribers, Subscribe(s), UNCHANGED listenerVars
      PROVE  StillAway'
  BY <1>2 DEF Subscribe, Away
<1>3. ASSUME NEW s \in Subscribers, Greet(s), UNCHANGED listenerVars
      PROVE  StillAway'
  BY <1>3 DEF Greet
<1>4. ASSUME NEW s \in Subscribers, Unsubscribe(s), UNCHANGED listenerVars
      PROVE  StillAway'
  BY <1>4 DEF Unsubscribe
<1>5. CASE CheckChanges /\ UNCHANGED listenerVars
  BY <1>5 DEF CheckChanges, Away
<1>6. CASE SweepDead /\ UNCHANGED listenerVars
  BY <1>6 DEF SweepDead
<1>7. ASSUME NEW l \in Listeners, UNCHANGED <<feedVars, task>>,
             Announce(l) \/ Window(l) \/ Reselect(l) \/ MoveIn(l) \/ Retune(l) \/
                Withdraw(l) \/ Leave(l) \/ Bye(l)
      PROVE  StillAway'
  BY <1>7 DEF Announce, Window, Reselect, MoveIn, Retune, Withdraw, Leave, Bye
<1>8. ASSUME NEW l \in Listeners, NEW r \in Receivers, UNCHANGED <<feedVars, task>>,
             Switch(l, r)
      PROVE  StillAway'
  BY <1>8 DEF Switch
<1>9. ASSUME NEW s \in Subscribers, Snapshot(s) \/ Deliver(s), UNCHANGED listenerVars
      PROVE  StillAway'
  BY <1>9 DEF Snapshot, Deliver
<1>10. CASE (Wake \/ CopyChanges \/ SendTick) /\ UNCHANGED listenerVars
  BY <1>10 DEF Wake, CopyChanges, SendTick
<1>11. CASE UNCHANGED vars
  BY <1>11 DEF vars
<1>12. QED
  BY <1>1, <1>2, <1>3, <1>4, <1>5, <1>6, <1>7, <1>8, <1>9, <1>10, <1>11 DEF Next,
     Listener, Proceed, Subscriber, EventsTask

\* A snapshot takes rows of listeners that are not away.
LEMMA SnapshotsStep ==
  ASSUME ListenerTypes, FeedTypes, AbsentTypes, Placed, StillAway, Snapshots,
         [Next]_vars
  PROVE  Snapshots'
<1> USE DEF FeedTypes, AbsentTypes, Copiers, Snapshots, Goto, Begins, listenerVars,
   feedVars
<1>1. ASSUME NEW l \in Listeners, Connect(l), UNCHANGED <<feedVars, task>>
      PROVE  Snapshots'
  BY <1>1 DEF Connect, AbsentTypes, Copiers
<1>2. ASSUME NEW s \in Subscribers, Subscribe(s), UNCHANGED listenerVars
      PROVE  Snapshots'
  BY <1>2 DEF Subscribe
<1>3. ASSUME NEW s \in Subscribers, Snapshot(s), UNCHANGED listenerVars
      PROVE  Snapshots'
  <2>1. /\ draft' = [draft EXCEPT ![s] = draft[s] \cup Found(ShardOrder[pos[s]])]
        /\ spc[s] = "copy" /\ absent' = absent
        /\ spc' = [spc EXCEPT ![s] = IF pos[s] = Len(ShardOrder) THEN "greet" ELSE "copy"]
    BY <1>3 DEF Snapshot
  <2>2. \A row \in Found(ShardOrder[pos[s]]) : row[2] \notin absent[s]
    <3>1. \A row \in Found(ShardOrder[pos[s]]) : row[2] \in Listeners /\ lpc[row[2]] # "away"
      BY FoundFacts
    <3>2. \A l \in absent[s] : lpc[l] = "away"
      BY DEF StillAway
    <3>3. QED
      BY <3>1, <3>2
  <2>3. QED
    BY <2>1, <2>2
<1>4. ASSUME NEW s \in Subscribers, Greet(s), UNCHANGED listenerVars
      PROVE  Snapshots'
  BY <1>4 DEF Greet
<1>5. ASSUME NEW s \in Subscribers, Unsubscribe(s), UNCHANGED listenerVars
      PROVE  Snapshots'
  BY <1>5 DEF Unsubscribe
<1>6. CASE CheckChanges /\ UNCHANGED listenerVars
  BY <1>6 DEF CheckChanges
<1>7. CASE SweepDead /\ UNCHANGED listenerVars
  BY <1>7 DEF SweepDead
<1>8. ASSUME NEW l \in Listeners, UNCHANGED <<feedVars, task>>,
             Announce(l) \/ Window(l) \/ Reselect(l) \/ MoveIn(l) \/ Retune(l) \/
                Withdraw(l) \/ Leave(l) \/ Bye(l)
      PROVE  Snapshots'
  BY <1>8 DEF Announce, Window, Reselect, MoveIn, Retune, Withdraw, Leave, Bye
<1>9. ASSUME NEW l \in Listeners, NEW r \in Receivers, UNCHANGED <<feedVars, task>>,
             Switch(l, r)
      PROVE  Snapshots'
  BY <1>9 DEF Switch
<1>10. ASSUME NEW s \in Subscribers, Deliver(s), UNCHANGED listenerVars
      PROVE  Snapshots'
  BY <1>10 DEF Deliver
<1>11. CASE (Wake \/ CopyChanges \/ SendTick) /\ UNCHANGED listenerVars
  BY <1>11 DEF Wake, CopyChanges, SendTick
<1>12. CASE UNCHANGED vars
  BY <1>12 DEF vars
<1>13. QED
  BY <1>1, <1>2, <1>3, <1>4, <1>5, <1>6, <1>7, <1>8, <1>9, <1>10, <1>11, <1>12 DEF Next,
     Listener, Proceed, Subscriber, EventsTask

\* A tick takes rows of listeners that are not away.
LEMMA TicksStep ==
  ASSUME ListenerTypes, TaskTypes, AbsentTypes, Placed, StillAway, Ticks, [Next]_vars
  PROVE  Ticks'
<1> USE DEF TaskTypes, AbsentTypes, Copiers, Ticks, Goto, Begins, listenerVars, feedVars
<1>1. ASSUME NEW l \in Listeners, Connect(l), UNCHANGED <<feedVars, task>>
      PROVE  Ticks'
  BY <1>1 DEF Connect
<1>2. ASSUME NEW s \in Subscribers, Subscribe(s), UNCHANGED listenerVars
      PROVE  Ticks'
  BY <1>2 DEF Subscribe
<1>3. ASSUME NEW s \in Subscribers, Greet(s), UNCHANGED listenerVars
      PROVE  Ticks'
  BY <1>3 DEF Greet
<1>4. ASSUME NEW s \in Subscribers, Unsubscribe(s), UNCHANGED listenerVars
      PROVE  Ticks'
  BY <1>4 DEF Unsubscribe
<1>5. CASE Wake /\ UNCHANGED listenerVars
  BY <1>5 DEF Wake
<1>6. CASE CheckChanges /\ UNCHANGED listenerVars
  BY <1>6 DEF CheckChanges
<1>7. CASE CopyChanges /\ UNCHANGED listenerVars
  BY <1>7 DEF CopyChanges, ListenerTypes, Placed, ListenerAt, StillAway, Rows, Message
<1>8. CASE SendTick /\ UNCHANGED listenerVars
  BY <1>8 DEF SendTick
<1>9. CASE SweepDead /\ UNCHANGED listenerVars
  BY <1>9 DEF SweepDead
<1>10. ASSUME NEW l \in Listeners, UNCHANGED <<feedVars, task>>,
             Announce(l) \/ Window(l) \/ Reselect(l) \/ MoveIn(l) \/ Retune(l) \/
                Withdraw(l) \/ Leave(l) \/ Bye(l)
      PROVE  Ticks'
  BY <1>10 DEF Announce, Window, Reselect, MoveIn, Retune, Withdraw, Leave, Bye
<1>11. ASSUME NEW l \in Listeners, NEW r \in Receivers, UNCHANGED <<feedVars, task>>,
             Switch(l, r)
      PROVE  Ticks'
  BY <1>11 DEF Switch
<1>12. ASSUME NEW s \in Subscribers, Snapshot(s) \/ Deliver(s), UNCHANGED listenerVars
      PROVE  Ticks'
  BY <1>12 DEF Snapshot, Deliver
<1>13. CASE UNCHANGED vars
  BY <1>13 DEF vars
<1>14. QED
  BY <1>1, <1>2, <1>3, <1>4, <1>5, <1>6, <1>7, <1>8, <1>9, <1>10, <1>11, <1>12, <1>13
     DEF Next, Listener, Proceed, Subscriber, EventsTask

\* The invariant holds in every reachable state.
LEMMA InvariantHolds == Spec => []IInv
<1>1. Init => IInv
  BY InitInvariant
<1>2. IInv /\ [Next]_vars => IInv'
  <2> SUFFICES ASSUME IInv, [Next]_vars
               PROVE  IInv'
    OBVIOUS
  <2>1. /\ ListenerTypes /\ FeedTypes /\ QueueTypes /\ TaskTypes /\ AbsentTypes
        /\ Placed /\ StillAway /\ Snapshots /\ Ticks
    BY DEF IInv, Types
  <2>2. Types'
    BY <2>1, ListenerTypesStep, FeedTypesStep, QueueTypesStep, TaskTypesStep, AbsentTypesStep DEF Types
  <2>3. Placed'
    BY <2>1, PlacedStep DEF Placed
  <2>4. StillAway' /\ Snapshots' /\ Ticks'
    BY <2>1, StillAwayStep, SnapshotsStep, TicksStep
  <2>5. QED
    BY <2>2, <2>3, <2>4 DEF IInv
<1>3. QED
  BY <1>1, <1>2, PTL DEF Spec
-----------------------------------------------------------------------------
(* Theorem *)

\* A snapshot of the maps, and a tick copied from the signals, show nobody who
\* was away before the copy began and has stayed away: on every way out of a
\* receiver the handlers withdraw their listener from both accounts before it
\* counts as away.  The variables keep their types, and queues their capacity.
THEOREM NobodyHaunts == Spec => []NoGhost
<1>1. IInv => TypeOK
  BY DEF IInv, Types, ListenerTypes, FeedTypes, QueueTypes, TaskTypes, AbsentTypes, TypeOK
<1>2. IInv => NoGhost
  BY <1>1 DEF IInv, Snapshots, Ticks, NoGhost
<1>3. QED
  BY <1>2, InvariantHolds, PTL
=============================================================================
