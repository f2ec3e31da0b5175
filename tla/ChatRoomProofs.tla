--------------------------- MODULE ChatRoomProofs ---------------------------
(***************************************************************************)
(* For all clients, shards, queue and history capacities: no client misses *)
(* a message between the history it was sent and the messages sent to it   *)
(* afterwards, and the file is the history, however posters, send tasks,   *)
(* failed writes and restarts interleave.                                  *)
(***************************************************************************)
EXTENDS ChatRoom, SequenceTheorems, TLAPS

USE ChatAssumption

(***************************************************************************)
(* The inductive invariant.                                                *)
(***************************************************************************)

\* The type invariant in parts.
RoomTypes ==
  /\ chatClients \subseteq Clients
  /\ queue \in [Clients -> Seq(Nat)] /\ \A c \in Clients : Len(queue[c]) <= QueueCap
  /\ sender \in [Clients -> {"none", "run", "dead"}]
HandlerTypes ==
  /\ pc \in [Clients -> HandlerPC]
  /\ inWindow \in [Clients -> 0..WindowLimit]
  /\ violations \in [Clients -> 0..(MaxViolations - 1)]
PosterTypes ==
  /\ msg \in [Clients -> 0..appended] /\ shard \in [Clients -> 1..NShards]
  /\ dead \in [Clients -> SUBSET Clients]
HistoryTypes ==
  /\ history \in Seq(Nat) /\ Len(history) <= HistoryCap
  /\ locked \in Clients \cup {None}
  /\ file \in Seq(Nat) /\ Len(file) <= HistoryCap
  /\ written \in BOOLEAN /\ appended \in Nat
GhostTypes == evicted \subseteq Clients /\ seen \in [Clients -> SUBSET (1..appended)]

Types == RoomTypes /\ HandlerTypes /\ PosterTypes /\ HistoryTypes /\ GhostTypes

Entries(s) == {s[i] : i \in DOMAIN s}

\* Only messages that were appended are kept or queued; a handler posts one.
Numbered ==
  /\ Entries(history) \subseteq 1..appended
  /\ file = Torn \/ Entries(file) \subseteq 1..appended
  /\ \A c \in Clients : /\ Entries(queue[c]) \subseteq 1..appended
                        /\ pc[c] \in {"write", "broadcast"} => msg[c] \in 1..appended

\* The poster that writes the file holds the mutex; otherwise, unless the last
\* write failed, the file is the history.
Locking ==
  /\ \A c \in Clients : pc[c] = "write" <=> locked = c
  /\ locked = None /\ written => file = history

\* A round begins with the first shard; a connected client is in the map until
\* it is evicted; its send task begins after the history was sent.
HandlerAt(c) ==
  /\ pc[c] # "broadcast" => shard[c] = 1
  /\ pc[c] # "closed" => c \in chatClients \cup evicted
  /\ pc[c] \in {"entered", "greet"} => sender[c] = "none"
Handlers == \A c \in Clients : HandlerAt(c)

\* Has the history and takes messages.
Served(c) == pc[c] = "greet" \/ (pc[c] \in {"ready"} \cup Posting /\ sender[c] = "run")

\* What a client was sent or has queued.
Known(c) == seen[c] \cup Entries(queue[c])

\* A client that is served and not slow knows what was announced, and of the
\* messages being announced those that have passed its shard.
KnowsAt(c) == Served(c) /\ ~Slow(c) =>
  /\ InHistory \cap Announced \subseteq Known(c)
  /\ \A d \in Clients : pc[d] = "broadcast" /\ ShardOf[c] < shard[d] /\ msg[d] \in InHistory =>
       msg[d] \in Known(c)
Knows == \A c \in Clients : KnowsAt(c)

IInv == Types /\ Numbered /\ Locking /\ Handlers /\ Knows
-----------------------------------------------------------------------------
(* Sequences *)

\* What an extended sequence holds.
LEMMA EntriesOfAppend ==
  ASSUME NEW S, NEW q \in Seq(S), NEW e \in S
  PROVE  Entries(Append(q, e)) = Entries(q) \cup {e}
<1> DEFINE a == Append(q, e)
<1>1. /\ a \in Seq(S) /\ Len(a) = Len(q) + 1 /\ a[Len(q) + 1] = e
      /\ \A i \in 1..Len(q) : a[i] = q[i]
  BY AppendProperties
<1>2. Len(q) \in Nat /\ DOMAIN q = 1..Len(q) /\ DOMAIN a = 1..(Len(q) + 1)
  BY <1>1, LenProperties
<1> HIDE DEF a
<1>3. ASSUME NEW i \in DOMAIN a
      PROVE  a[i] = e \/ (i \in DOMAIN q /\ a[i] = q[i])
  BY <1>1, <1>2
<1>4. e \in Entries(a) /\ Entries(q) \subseteq Entries(a)
  BY <1>1, <1>2 DEF Entries
<1>5. Entries(a) \subseteq Entries(q) \cup {e}
  BY <1>3 DEF Entries
<1>6. QED
  BY <1>4, <1>5 DEF a

\* Taking the first entry off loses no other.
LEMMA EntriesOfTail ==
  ASSUME NEW S, NEW q \in Seq(S), q # <<>>
  PROVE  Entries(q) = {Head(q)} \cup Entries(Tail(q))
<1> DEFINE t == Tail(q)
<1>1. /\ t \in Seq(S) /\ Len(t) = Len(q) - 1 /\ Head(q) = q[1]
      /\ \A i \in 1..Len(t) : t[i] = q[i + 1]
  BY HeadTailProperties
<1>2. Len(q) \in Nat \ {0} /\ DOMAIN q = 1..Len(q) /\ DOMAIN t = 1..(Len(q) - 1)
  BY <1>1, LenProperties, EmptySeq
<1> HIDE DEF t
<1>3. ASSUME NEW i \in DOMAIN q
      PROVE  q[i] = Head(q) \/ (i - 1 \in DOMAIN t /\ q[i] = t[i - 1])
  <2>1. CASE i = 1
    BY <1>1, <2>1
  <2>2. CASE i # 1
    BY <1>1, <1>2, <2>2
  <2>3. QED
    BY <2>1, <2>2
<1>4. Head(q) \in Entries(q) /\ Entries(t) \subseteq Entries(q)
  <2>1. 1 \in DOMAIN q
    BY <1>2
  <2>2. \A i \in DOMAIN t : i + 1 \in DOMAIN q /\ t[i] = q[i + 1]
    BY <1>1, <1>2
  <2>3. QED
    BY <1>1, <2>1, <2>2 DEF Entries
<1>5. Entries(q) \subseteq {Head(q)} \cup Entries(t)
  BY <1>3 DEF Entries
<1>6. QED
  BY <1>4, <1>5 DEF t

\* The last n entries are at most n entries of the sequence.
LEMMA LastType ==
  ASSUME NEW S, NEW q \in Seq(S), NEW n \in Nat \ {0}
  PROVE  /\ Last(q, n) \in Seq(S) /\ Len(Last(q, n)) <= n
         /\ Entries(Last(q, n)) \subseteq Entries(q)
<1> DEFINE k == IF Len(q) > n THEN Len(q) - n + 1 ELSE 1
           t == SubSeq(q, k, Len(q))
<1>1. Len(q) \in Nat /\ DOMAIN q = 1..Len(q) /\ \A i \in 1..Len(q) : q[i] \in S
  BY LenProperties, ElementOfSeq
<1>2. k \in Int /\ k >= 1 /\ Len(q) - k + 1 <= n
  BY <1>1
<1> HIDE DEF k
<1>3. /\ t \in Seq(S) /\ Len(t) = (IF k <= Len(q) THEN Len(q) - k + 1 ELSE 0)
      /\ \A i \in 1..(Len(q) - k + 1) : t[i] = q[k + i - 1]
  BY <1>1, <1>2, SubSeqProperties
<1>4. DOMAIN t = 1..Len(t)
  BY <1>3, LenProperties
<1> HIDE DEF t
<1>5. Len(t) <= n
  BY <1>1, <1>2, <1>3
<1>6. ASSUME NEW i \in DOMAIN t
      PROVE  k + i - 1 \in DOMAIN q /\ t[i] = q[k + i - 1]
  BY <1>1, <1>2, <1>3, <1>4
<1>7. Entries(t) \subseteq Entries(q)
  BY <1>6 DEF Entries
<1>8. QED
  BY <1>3, <1>5, <1>7 DEF t, k, Last
-----------------------------------------------------------------------------
(* Steps *)

\* The parts hold at first: nobody is connected, nothing was said.
LEMMA InitInvariant == Init => IInv
<1> SUFFICES ASSUME Init PROVE IInv
  OBVIOUS
<1> USE DEF Init
<1>1. Types
  BY EmptySeq DEF Types, RoomTypes, HandlerTypes, HandlerPC, PosterTypes, HistoryTypes, GhostTypes
<1>2. Numbered /\ Locking /\ Handlers
  BY DEF Numbered, Entries, Locking, Handlers, HandlerAt
<1>3. Knows
  BY DEF Knows, KnowsAt, Served, Posting
<1>4. QED
  BY <1>1, <1>2, <1>3 DEF IInv

\* What a broadcast to one shard does to the queues: everybody in the shard who
\* can take the message gets it, the others are found dead.
LEMMA Broadcasting ==
  ASSUME RoomTypes, HandlerTypes, PosterTypes, NEW c \in Clients, BroadcastShard(c)
  PROVE  /\ queue' \in [Clients -> Seq(Nat)]
         /\ \A d \in Clients :
              \/ /\ ~(d \in chatClients /\ ShardOf[d] = shard[c] /\ Open(d))
                    \/ d \in dead'[c]
                 /\ queue'[d] = queue[d]
              \/ /\ ShardOf[d] = shard[c]
                 /\ Len(queue'[d]) <= QueueCap /\ queue'[d] = Append(queue[d], msg[c])
         /\ \A d \in Clients : dead[d] \subseteq dead'[d] /\ dead'[d] \subseteq Clients
<1> DEFINE fits == {d \in InShard(shard[c]) : Open(d) /\ Len(queue[d]) < QueueCap}
<1>1. /\ queue' = [d \in Clients |-> IF d \in fits THEN Append(queue[d], msg[c]) ELSE queue[d]]
      /\ dead' = [dead EXCEPT ![c] = dead[c] \cup (InShard(shard[c]) \ fits)]
  BY DEF BroadcastShard
<1>2. fits \subseteq InShard(shard[c]) /\ InShard(shard[c]) \subseteq Clients
  BY DEF InShard, RoomTypes
<1>3. ASSUME NEW d \in fits
      PROVE  /\ Append(queue[d], msg[c]) \in Seq(Nat) /\ Len(Append(queue[d], msg[c])) <= QueueCap
             /\ ShardOf[d] = shard[c]
  <2>1. queue[d] \in Seq(Nat) /\ msg[c] \in Nat /\ Len(queue[d]) < QueueCap
    BY <1>2 DEF RoomTypes, PosterTypes, HistoryTypes
  <2>2. QED
    BY <2>1, AppendProperties, LenProperties DEF InShard
<1>4. queue' \in [Clients -> Seq(Nat)]
  BY <1>1, <1>3 DEF RoomTypes
<1>5. \A d \in Clients : dead[d] \subseteq dead'[d] /\ dead'[d] \subseteq Clients
  BY <1>1, <1>2 DEF PosterTypes
<1>6. ASSUME NEW d \in Clients
      PROVE  \/ /\ ~(d \in chatClients /\ ShardOf[d] = shard[c] /\ Open(d)) \/ d \in dead'[c]
                /\ queue'[d] = queue[d]
             \/ /\ ShardOf[d] = shard[c]
                /\ Len(queue'[d]) <= QueueCap /\ queue'[d] = Append(queue[d], msg[c])
  <2>1. CASE d \in fits
    BY <1>1, <1>3, <2>1
  <2>2. CASE d \notin fits
    BY <1>1, <2>2 DEF PosterTypes, InShard
  <2>3. QED
    BY <2>1, <2>2
<1>7. QED
  BY <1>4, <1>5, <1>6

\* Map, queues and send tasks keep their types, queues stay within their capacity.
LEMMA RoomTypesStep ==
  ASSUME RoomTypes, HandlerTypes, PosterTypes, [Next]_vars
  PROVE  RoomTypes'
<1> USE DEF RoomTypes, Goto, Gone, TooMany, roomVars, handlerVars, historyVars,
   ghostVars
<1>1. ASSUME NEW c \in Clients, Leave(c)
      PROVE  RoomTypes'
  BY EmptySeq, <1>1 DEF Leave
<1>2. ASSUME NEW c \in Clients, Expel(c)
      PROVE  RoomTypes'
  BY EmptySeq, <1>2 DEF Expel
<1>3. ASSUME NEW c \in Clients, BroadcastShard(c)
      PROVE  RoomTypes'
  <2>1. \A d \in Clients : queue'[d] = queue[d] \/ Len(queue'[d]) <= QueueCap
    BY <1>3, Broadcasting
  <2>2. UNCHANGED <<chatClients, sender>> /\ queue' \in [Clients -> Seq(Nat)]
    BY <1>3, Broadcasting DEF BroadcastShard
  <2>3. QED
    BY <2>1, <2>2
<1>4. ASSUME NEW c \in Clients, Deliver(c)
      PROVE  RoomTypes'
  BY HeadTailProperties, <1>4 DEF Deliver
<1>5. ASSUME NEW c \in Clients, SenderDies(c)
      PROVE  RoomTypes'
  BY EmptySeq, <1>5 DEF SenderDies
<1>6. CASE Restart
  BY EmptySeq, <1>6 DEF Restart
<1>7. ASSUME NEW c \in Clients,
             Enter(c) \/ ReadHistory(c) \/ Greet(c) \/ Throttle(c) \/ Receive(c) \/
                AppendMessage(c) \/ WriteEnds(c) \/ Sweep(c)
      PROVE  RoomTypes'
  BY <1>7 DEF Enter, ReadHistory, Greet, Throttle, Receive, AppendMessage, WriteEnds,
     Sweep
<1>8. CASE UNCHANGED vars
  BY <1>8 DEF vars, roomVars, handlerVars, historyVars, ghostVars
<1>9. QED
  BY <1>1, <1>2, <1>3, <1>4, <1>5, <1>6, <1>7, <1>8 DEF Next, Handler, Post

\* Handlers and their rate limits keep their types.
LEMMA HandlerTypesStep ==
  ASSUME HandlerTypes, [Next]_vars
  PROVE  HandlerTypes'
<1> USE DEF HandlerTypes, HandlerPC, Posting, Goto, Gone, TooMany, roomVars,
   handlerVars, historyVars, ghostVars
<1>1. ASSUME NEW c \in Clients, Leave(c)
      PROVE  HandlerTypes'
  BY <1>1 DEF Leave
<1>2. ASSUME NEW c \in Clients, Throttle(c)
      PROVE  HandlerTypes'
  BY <1>2 DEF Throttle
<1>3. ASSUME NEW c \in Clients, Expel(c)
      PROVE  HandlerTypes'
  BY <1>3 DEF Expel
<1>4. ASSUME NEW c \in Clients, Receive(c)
      PROVE  HandlerTypes'
  BY <1>4 DEF Receive, Before
<1>5. ASSUME NEW c \in Clients, AppendMessage(c)
      PROVE  HandlerTypes'
  BY <1>5 DEF AppendMessage
<1>6. ASSUME NEW c \in Clients, BroadcastShard(c)
      PROVE  HandlerTypes'
  BY <1>6 DEF BroadcastShard
<1>7. ASSUME NEW c \in Clients, Sweep(c)
      PROVE  HandlerTypes'
  BY <1>7 DEF Sweep
<1>8. ASSUME NEW c \in Clients,
             Enter(c) \/ ReadHistory(c) \/ Greet(c) \/ WriteEnds(c) \/ Deliver(c) \/
                SenderDies(c)
      PROVE  HandlerTypes'
  BY <1>8 DEF Enter, ReadHistory, Greet, WriteEnds, Deliver, SenderDies
<1>9. CASE Restart
  BY <1>9 DEF Restart
<1>10. CASE UNCHANGED vars
  BY <1>10 DEF vars, roomVars, handlerVars, historyVars, ghostVars
<1>11. QED
  BY <1>1, <1>2, <1>3, <1>4, <1>5, <1>6, <1>7, <1>8, <1>9, <1>10 DEF Next, Handler, Post

\* What the posters work on keeps its types.
LEMMA PosterTypesStep ==
  ASSUME RoomTypes, HandlerTypes, PosterTypes, HistoryTypes, [Next]_vars
  PROVE  PosterTypes'
<1> USE DEF PosterTypes, HistoryTypes, Goto, Gone, TooMany, roomVars, handlerVars,
   historyVars, ghostVars
<1>1. ASSUME NEW c \in Clients, Leave(c)
      PROVE  PosterTypes'
  BY <1>1 DEF Leave
<1>2. ASSUME NEW c \in Clients, Expel(c)
      PROVE  PosterTypes'
  BY <1>2 DEF Expel
<1>3. ASSUME NEW c \in Clients, AppendMessage(c)
      PROVE  PosterTypes'
  BY <1>3 DEF AppendMessage
<1>4. ASSUME NEW c \in Clients, BroadcastShard(c)
      PROVE  PosterTypes'
  <2>1. dead' \in [Clients -> SUBSET Clients]
    BY <1>4 DEF BroadcastShard, RoomTypes, InShard
  <2>2. appended' = appended /\ UNCHANGED <<history, locked, file, written>>
    BY <1>4 DEF BroadcastShard
  <2>3. CASE shard[c] < NShards
    <3>1. msg' = msg /\ shard' = [shard EXCEPT ![c] = shard[c] + 1]
      BY <1>4, <2>3 DEF BroadcastShard
    <3>2. shard[c] + 1 \in 1..NShards
      BY <2>3
    <3>3. QED
      BY <2>1, <2>2, <3>1, <3>2
  <2>4. CASE ~(shard[c] < NShards)
    <3>1. msg' = [msg EXCEPT ![c] = 0] /\ shard' = [shard EXCEPT ![c] = 1]
      BY <1>4, <2>4 DEF BroadcastShard
    <3>2. 0 \in 0..appended /\ 1 \in 1..NShards
      OBVIOUS
    <3>3. QED
      BY <2>1, <2>2, <3>1, <3>2
  <2>5. QED
    BY <2>3, <2>4
<1>5. ASSUME NEW c \in Clients, Sweep(c)
      PROVE  PosterTypes'
  BY <1>5 DEF Sweep
<1>6. ASSUME NEW c \in Clients,
             Enter(c) \/ ReadHistory(c) \/ Greet(c) \/ Throttle(c) \/ Receive(c) \/
                WriteEnds(c) \/ Deliver(c) \/ SenderDies(c)
      PROVE  PosterTypes'
  BY <1>6 DEF Enter, ReadHistory, Greet, Throttle, Receive, WriteEnds, Deliver,
     SenderDies
<1>7. CASE Restart
  BY <1>7 DEF Restart
<1>8. CASE UNCHANGED vars
  BY <1>8 DEF vars, roomVars, handlerVars, historyVars, ghostVars
<1>9. QED
  BY <1>1, <1>2, <1>3, <1>4, <1>5, <1>6, <1>7, <1>8 DEF Next, Handler, Post

\* The history gains at most the new message.
LEMMA HistoryOfAppend ==
  ASSUME HistoryTypes, NEW c \in Clients, AppendMessage(c)
  PROVE  Entries(history') \subseteq Entries(history) \cup {appended + 1}
<1> DEFINE a == Append(history, appended + 1)
<1>1. a \in Seq(Nat) /\ Entries(a) = Entries(history) \cup {appended + 1}
  <2>1. history \in Seq(Nat) /\ appended + 1 \in Nat
    BY DEF HistoryTypes
  <2>2. QED
    BY <2>1, AppendProperties, EntriesOfAppend
<1>2. history' = Last(a, HistoryCap)
  BY DEF AppendMessage
<1> HIDE DEF a
<1>3. QED
  BY <1>1, <1>2, LastType

\* A torn file is a short sequence.
LEMMA TornType == Torn \in Seq(Nat) /\ Len(Torn) <= HistoryCap
  BY DEF Torn

\* History and file keep their types and stay within their capacity.
LEMMA HistoryTypesStep ==
  ASSUME HistoryTypes, [Next]_vars
  PROVE  HistoryTypes'
<1> USE DEF HistoryTypes, Goto, Gone, TooMany, roomVars, handlerVars, historyVars,
   ghostVars
<1>1. ASSUME NEW c \in Clients, AppendMessage(c)
      PROVE  HistoryTypes'
  <2>1. Append(history, appended + 1) \in Seq(Nat)
    BY AppendProperties
  <2>2. history' \in Seq(Nat) /\ Len(history') <= HistoryCap
    BY <1>1, <2>1, LastType DEF AppendMessage
  <2>3. QED
    BY <1>1, <2>2 DEF AppendMessage
<1>2. ASSUME NEW c \in Clients, WriteEnds(c)
      PROVE  HistoryTypes'
  BY TornType, <1>2 DEF WriteEnds, Leftovers
<1>3. CASE Restart
  <2>1. file' \in Seq(Nat) /\ Len(file') <= HistoryCap
    BY <1>3, TornType DEF Restart, Leftovers
  <2>2. history' \in Seq(Nat) /\ Len(history') <= HistoryCap
    BY <1>3, <2>1, EmptySeq DEF Restart
  <2>3. QED
    BY <1>3, <2>1, <2>2 DEF Restart
<1>4. ASSUME NEW c \in Clients,
             Enter(c) \/ ReadHistory(c) \/ Greet(c) \/ Leave(c) \/ Throttle(c) \/
                Expel(c) \/ Receive(c) \/ BroadcastShard(c) \/ Sweep(c) \/ Deliver(c) \/
                SenderDies(c)
      PROVE  HistoryTypes'
  BY <1>4 DEF Enter, ReadHistory, Greet, Leave, Throttle, Expel, Receive,
     BroadcastShard, Sweep, Deliver, SenderDies
<1>5. CASE UNCHANGED vars
  BY <1>5 DEF vars, roomVars, handlerVars, historyVars, ghostVars
<1>6. QED
  BY <1>1, <1>2, <1>3, <1>4, <1>5 DEF Next, Handler, Post

\* A client is sent messages that were appended.
LEMMA GhostTypesStep ==
  ASSUME Types, Numbered, [Next]_vars
  PROVE  GhostTypes'
<1> USE DEF Types, GhostTypes, RoomTypes, HistoryTypes, Goto, Gone, TooMany, roomVars,
   handlerVars, historyVars, ghostVars
<1>1. ASSUME NEW c \in Clients, Enter(c)
      PROVE  GhostTypes'
  BY <1>1 DEF Enter
<1>2. ASSUME NEW c \in Clients, ReadHistory(c)
      PROVE  GhostTypes'
  BY <1>2 DEF ReadHistory, InHistory, Numbered, Entries
<1>3. ASSUME NEW c \in Clients, Leave(c)
      PROVE  GhostTypes'
  BY <1>3 DEF Leave
<1>4. ASSUME NEW c \in Clients, Expel(c)
      PROVE  GhostTypes'
  BY <1>4 DEF Expel
<1>5. ASSUME NEW c \in Clients, AppendMessage(c)
      PROVE  GhostTypes'
  BY <1>5 DEF AppendMessage
<1>6. ASSUME NEW c \in Clients, BroadcastShard(c)
      PROVE  GhostTypes'
  BY <1>6 DEF BroadcastShard
<1>7. ASSUME NEW c \in Clients, Sweep(c)
      PROVE  GhostTypes'
  BY <1>7 DEF Sweep, PosterTypes
<1>8. ASSUME NEW c \in Clients, Deliver(c)
      PROVE  GhostTypes'
  BY EntriesOfTail, <1>8 DEF Deliver, Numbered
<1>9. ASSUME NEW c \in Clients,
             Greet(c) \/ Throttle(c) \/ Receive(c) \/ WriteEnds(c) \/ SenderDies(c)
      PROVE  GhostTypes'
  BY <1>9 DEF Greet, Throttle, Receive, WriteEnds, SenderDies
<1>10. CASE Restart
  BY <1>10 DEF Restart
<1>11. CASE UNCHANGED vars
  BY <1>11 DEF vars, roomVars, handlerVars, historyVars, ghostVars
<1>12. QED
  BY <1>1, <1>2, <1>3, <1>4, <1>5, <1>6, <1>7, <1>8, <1>9, <1>10, <1>11 DEF Next,
     Handler, Post

\* An empty sequence holds nothing.
LEMMA EntriesOfEmpty == Entries(<<>>) = {}
  BY DEF Entries

\* Only appended messages are kept or queued.
LEMMA NumberedStep ==
  ASSUME Types, Numbered, [Next]_vars
  PROVE  Numbered'
<1> USE DEF Types, Numbered, Goto, Gone, TooMany, roomVars, handlerVars, historyVars,
   ghostVars
<1>1. ASSUME NEW c \in Clients, Enter(c)
      PROVE  Numbered'
  BY <1>1 DEF Enter, HandlerTypes
<1>2. ASSUME NEW c \in Clients, ReadHistory(c)
      PROVE  Numbered'
  BY <1>2 DEF ReadHistory, HandlerTypes
<1>3. ASSUME NEW c \in Clients, Greet(c)
      PROVE  Numbered'
  BY <1>3 DEF Greet, HandlerTypes
<1>4. ASSUME NEW c \in Clients, Leave(c)
      PROVE  Numbered'
  BY EntriesOfEmpty, <1>4 DEF Leave, HandlerTypes, RoomTypes
<1>5. ASSUME NEW c \in Clients, Throttle(c)
      PROVE  Numbered'
  BY <1>5 DEF Throttle, HandlerTypes
<1>6. ASSUME NEW c \in Clients, Expel(c)
      PROVE  Numbered'
  BY EntriesOfEmpty, <1>6 DEF Expel, HandlerTypes, RoomTypes
<1>7. ASSUME NEW c \in Clients, Receive(c)
      PROVE  Numbered'
  BY <1>7 DEF Receive, HandlerTypes
<1>8. ASSUME NEW c \in Clients, AppendMessage(c)
      PROVE  Numbered'
  <2>1. Append(history, appended + 1) \in Seq(Nat) /\ appended + 1 \in Nat
    BY AppendProperties DEF HistoryTypes
  <2>2. Entries(history') \subseteq Entries(history) \cup {appended + 1}
    BY <1>8, HistoryOfAppend
  <2>3. 1..appended \subseteq 1..(appended + 1) /\ appended + 1 \in 1..(appended + 1)
    BY DEF HistoryTypes
  <2>4. /\ appended' = appended + 1 /\ UNCHANGED <<file, queue>>
        /\ \A d \in Clients : (pc'[d] = pc[d] /\ msg'[d] = msg[d]) \/ msg'[d] = appended + 1
    BY <1>8 DEF AppendMessage, HandlerTypes, PosterTypes
  <2>5. QED
    BY <2>2, <2>3, <2>4
<1>9. ASSUME NEW c \in Clients, WriteEnds(c)
      PROVE  Numbered'
  BY <1>9 DEF WriteEnds, Leftovers, HandlerTypes
<1>10. ASSUME NEW c \in Clients, BroadcastShard(c)
      PROVE  Numbered'
  <2>1. msg[c] \in 1..appended /\ UNCHANGED <<history, file, appended>>
    BY <1>10 DEF BroadcastShard
  <2>2. ASSUME NEW d \in Clients
        PROVE  Entries(queue'[d]) \subseteq 1..appended
    <3>1. queue[d] \in Seq(Nat) /\ msg[c] \in Nat
      BY <2>1 DEF RoomTypes
    <3>2. queue'[d] = queue[d] \/ queue'[d] = Append(queue[d], msg[c])
      BY <1>10, Broadcasting
    <3>3. Entries(Append(queue[d], msg[c])) = Entries(queue[d]) \cup {msg[c]}
      BY <3>1, EntriesOfAppend
    <3>4. Entries(queue[d]) \subseteq 1..appended
      OBVIOUS
    <3>5. CASE queue'[d] = queue[d]
      BY <3>4, <3>5
    <3>6. CASE queue'[d] = Append(queue[d], msg[c])
      BY <2>1, <3>3, <3>4, <3>6
    <3>7. QED
      BY <3>2, <3>5, <3>6
  <2>3. ASSUME NEW d \in Clients, pc'[d] \in {"write", "broadcast"}
        PROVE  msg'[d] \in 1..appended
    BY <1>10, <2>1, <2>3 DEF BroadcastShard, HandlerTypes, PosterTypes
  <2>4. QED
    BY <2>1, <2>2, <2>3
<1>11. ASSUME NEW c \in Clients, Sweep(c)
      PROVE  Numbered'
  BY <1>11 DEF Sweep, HandlerTypes
<1>12. ASSUME NEW c \in Clients, Deliver(c)
      PROVE  Numbered'
  BY EntriesOfTail, <1>12 DEF Deliver, RoomTypes
<1>13. ASSUME NEW c \in Clients, SenderDies(c)
      PROVE  Numbered'
  BY EntriesOfEmpty, <1>13 DEF SenderDies, RoomTypes
<1>14. CASE Restart
  BY EntriesOfEmpty, <1>14 DEF Restart, Leftovers
<1>15. CASE UNCHANGED vars
  BY <1>15 DEF vars, roomVars, handlerVars, historyVars, ghostVars
<1>16. QED
  BY <1>1, <1>2, <1>3, <1>4, <1>5, <1>6, <1>7, <1>8, <1>9, <1>10, <1>11, <1>12, <1>13,
     <1>14, <1>15 DEF Next, Handler, Post

\* Only the poster that holds the mutex writes.
LEMMA LockingStep ==
  ASSUME HandlerTypes, Locking, [Next]_vars
  PROVE  Locking'
<1> USE DEF HandlerTypes, Locking, Goto, Gone, TooMany, roomVars, handlerVars,
   historyVars, ghostVars
<1>1. ASSUME NEW c \in Clients, Enter(c)
      PROVE  Locking'
  BY <1>1 DEF Enter
<1>2. ASSUME NEW c \in Clients, ReadHistory(c)
      PROVE  Locking'
  BY <1>2 DEF ReadHistory
<1>3. ASSUME NEW c \in Clients, Greet(c)
      PROVE  Locking'
  BY <1>3 DEF Greet
<1>4. ASSUME NEW c \in Clients, Leave(c)
      PROVE  Locking'
  BY <1>4 DEF Leave
<1>5. ASSUME NEW c \in Clients, Expel(c)
      PROVE  Locking'
  BY <1>5 DEF Expel
<1>6. ASSUME NEW c \in Clients, Receive(c)
      PROVE  Locking'
  BY <1>6 DEF Receive
<1>7. ASSUME NEW c \in Clients, AppendMessage(c)
      PROVE  Locking'
  BY <1>7 DEF AppendMessage
<1>8. ASSUME NEW c \in Clients, WriteEnds(c)
      PROVE  Locking'
  BY <1>8 DEF WriteEnds
<1>9. ASSUME NEW c \in Clients, BroadcastShard(c)
      PROVE  Locking'
  BY <1>9 DEF BroadcastShard
<1>10. ASSUME NEW c \in Clients, Sweep(c)
      PROVE  Locking'
  BY <1>10 DEF Sweep
<1>11. CASE Restart
  BY <1>11 DEF Restart
<1>12. ASSUME NEW c \in Clients, Throttle(c) \/ Deliver(c) \/ SenderDies(c)
      PROVE  Locking'
  BY <1>12 DEF Throttle, Deliver, SenderDies
<1>13. CASE UNCHANGED vars
  BY <1>13 DEF vars, roomVars, handlerVars, historyVars, ghostVars
<1>14. QED
  BY <1>1, <1>2, <1>3, <1>4, <1>5, <1>6, <1>7, <1>8, <1>9, <1>10, <1>11, <1>12, <1>13
     DEF Next, Handler, Post

\* Who is connected is in the map or was evicted.
LEMMA HandlersStep ==
  ASSUME RoomTypes, HandlerTypes, PosterTypes, Handlers, [Next]_vars, NEW d \in Clients
  PROVE  HandlerAt(d)'
<1> USE DEF RoomTypes, HandlerTypes, PosterTypes, Handlers, HandlerAt, Goto, Gone,
   TooMany, roomVars, handlerVars, historyVars, ghostVars
<1>1. ASSUME NEW c \in Clients, Enter(c)
      PROVE  HandlerAt(d)'
  BY <1>1 DEF Enter
<1>2. ASSUME NEW c \in Clients, ReadHistory(c)
      PROVE  HandlerAt(d)'
  BY <1>2 DEF ReadHistory
<1>3. ASSUME NEW c \in Clients, Greet(c)
      PROVE  HandlerAt(d)'
  BY <1>3 DEF Greet
<1>4. ASSUME NEW c \in Clients, Leave(c)
      PROVE  HandlerAt(d)'
  BY <1>4 DEF Leave
<1>5. ASSUME NEW c \in Clients, Throttle(c)
      PROVE  HandlerAt(d)'
  BY <1>5 DEF Throttle
<1>6. ASSUME NEW c \in Clients, Expel(c)
      PROVE  HandlerAt(d)'
  BY <1>6 DEF Expel
<1>7. ASSUME NEW c \in Clients, Receive(c)
      PROVE  HandlerAt(d)'
  BY <1>7 DEF Receive
<1>8. ASSUME NEW c \in Clients, AppendMessage(c)
      PROVE  HandlerAt(d)'
  BY <1>8 DEF AppendMessage
<1>9. ASSUME NEW c \in Clients, WriteEnds(c)
      PROVE  HandlerAt(d)'
  BY <1>9 DEF WriteEnds
<1>10. ASSUME NEW c \in Clients, BroadcastShard(c)
      PROVE  HandlerAt(d)'
  BY <1>10 DEF BroadcastShard
<1>11. ASSUME NEW c \in Clients, Sweep(c)
      PROVE  HandlerAt(d)'
  <2>1. PICK x \in dead[c] :
          /\ chatClients' = chatClients \ {x}
          /\ evicted' = IF pc[x] = "closed" THEN evicted ELSE evicted \cup {x}
    BY <1>11 DEF Sweep
  <2>2. /\ pc[c] = "sweep" /\ UNCHANGED <<shard, sender>>
        /\ pc' = [pc EXCEPT ![c] = "ready"] \/ pc' = [pc EXCEPT ![c] = "sweep"]
    BY <1>11 DEF Sweep
  <2>3. pc'[d] = "closed" <=> pc[d] = "closed"
    BY <2>2
  <2>4. QED
    BY <2>1, <2>2, <2>3
<1>12. ASSUME NEW c \in Clients, Deliver(c)
      PROVE  HandlerAt(d)'
  BY <1>12 DEF Deliver
<1>13. ASSUME NEW c \in Clients, SenderDies(c)
      PROVE  HandlerAt(d)'
  BY <1>13 DEF SenderDies
<1>14. CASE Restart
  BY <1>14 DEF Restart
<1>15. CASE UNCHANGED vars
  BY <1>15 DEF vars, roomVars, handlerVars, historyVars, ghostVars
<1>16. QED
  BY <1>1, <1>2, <1>3, <1>4, <1>5, <1>6, <1>7, <1>8, <1>9, <1>10, <1>11, <1>12, <1>13,
     <1>14, <1>15 DEF Next, Handler, Post

\* Steps that post no message and end no round change nothing of what is announced.
LEMMA AnnouncedKept ==
  ASSUME UNCHANGED <<msg, appended>>,
         \A e \in Clients : pc'[e] \in {"write", "broadcast"} <=> pc[e] \in {"write", "broadcast"}
  PROVE  Announced' = Announced
<1>1. {e \in Clients : pc'[e] \in {"write", "broadcast"}}
        = {e \in Clients : pc[e] \in {"write", "broadcast"}}
  OBVIOUS
<1>2. QED
  BY <1>1 DEF Announced

\* What the steps that enqueue and announce nothing leave alone.
LEMMA KnowsKept ==
  ASSUME NEW d \in Clients, KnowsAt(d),
         Served(d)' => Served(d) /\ Known(d) \subseteq Known(d)' /\ (Slow(d) => Slow(d)'),
         UNCHANGED <<history, shard, msg, appended>>,
         \A e \in Clients : pc'[e] \in {"write", "broadcast"} <=> pc[e] \in {"write", "broadcast"},
         \A e \in Clients : pc'[e] = "broadcast" => shard[e] = 1 \/ pc[e] = "broadcast"
  PROVE  KnowsAt(d)'
<1>1. Announced' = Announced
  BY AnnouncedKept
<1>2. SUFFICES ASSUME Served(d)', ~Slow(d)'
               PROVE  /\ InHistory \cap Announced' \subseteq Known(d)'
                      /\ \A e \in Clients : pc'[e] = "broadcast" /\ ShardOf[d] < shard[e]
                                            /\ msg[e] \in InHistory => msg[e] \in Known(d)'
  BY DEF KnowsAt, InHistory
<1>3. /\ InHistory \cap Announced \subseteq Known(d) /\ Known(d) \subseteq Known(d)'
      /\ \A e \in Clients : pc[e] = "broadcast" /\ ShardOf[d] < shard[e] /\ msg[e] \in InHistory =>
           msg[e] \in Known(d)
  BY <1>2 DEF KnowsAt
<1>4. ShardOf[d] \in Nat \ {0}
  OBVIOUS
<1>5. QED
  BY <1>1, <1>3, <1>4

\* A broadcast: whoever is served, and not found dead, has the message once the
\* round has passed its shard.
LEMMA BroadcastReaches ==
  ASSUME RoomTypes, HandlerTypes, PosterTypes, Handlers, NEW c \in Clients, BroadcastShard(c),
         NEW d \in Clients, Served(d), ~Slow(d)'
  PROVE  /\ Known(d) \subseteq Known(d)'
         /\ ShardOf[d] = shard[c] => msg[c] \in Known(d)'
         /\ ~Slow(d) /\ seen' = seen
<1>1. /\ \/ /\ ~(d \in chatClients /\ ShardOf[d] = shard[c] /\ Open(d)) \/ d \in dead'[c]
            /\ queue'[d] = queue[d]
         \/ queue'[d] = Append(queue[d], msg[c])
      /\ \A e \in Clients : dead[e] \subseteq dead'[e]
  BY Broadcasting
<1>2. UNCHANGED <<seen, evicted, chatClients>>
  BY DEF BroadcastShard, ghostVars
<1>3. ~Slow(d) /\ d \notin dead'[c] /\ d \notin evicted
  BY <1>1, <1>2 DEF Slow
<1>4. d \in chatClients /\ Open(d)
  BY <1>3 DEF Served, Open, Handlers, HandlerAt, Posting
<1>5. queue[d] \in Seq(Nat) /\ msg[c] \in Nat
  BY DEF RoomTypes, PosterTypes
<1>6. Entries(Append(queue[d], msg[c])) = Entries(queue[d]) \cup {msg[c]}
  BY <1>5, EntriesOfAppend
<1>7. CASE queue'[d] = Append(queue[d], msg[c])
  BY <1>2, <1>3, <1>6, <1>7 DEF Known
<1>8. CASE queue'[d] = queue[d] /\ ShardOf[d] # shard[c]
  BY <1>2, <1>3, <1>8 DEF Known
<1>9. QED
  BY <1>1, <1>3, <1>4, <1>7, <1>8

\* Whoever is served and not slow goes on knowing what was announced.
LEMMA KnowsStep ==
  ASSUME RoomTypes, HandlerTypes, PosterTypes, HistoryTypes, GhostTypes, Numbered,
         Handlers, Knows, [Next]_vars, NEW d \in Clients
  PROVE  KnowsAt(d)'
<1> USE DEF HandlerTypes, Posting, Goto, Gone, TooMany, roomVars, handlerVars,
   historyVars, ghostVars
<1>1. ASSUME NEW c \in Clients, Enter(c)
      PROVE  KnowsAt(d)'
  <2>1. Served(d)' => Served(d) /\ Known(d) \subseteq Known(d)' /\ (Slow(d) => Slow(d)')
    BY <1>1 DEF Enter, Served, Known, Slow, RoomTypes, GhostTypes, PosterTypes
  <2>2. UNCHANGED <<history, shard, msg, appended>>
    BY <1>1 DEF Enter
  <2>3. \A e \in Clients : /\ pc'[e] \in {"write", "broadcast"} <=> pc[e] \in {"write", "broadcast"}
                           /\ pc'[e] = "broadcast" => shard[e] = 1 \/ pc[e] = "broadcast"
    BY <1>1 DEF Enter, Handlers, HandlerAt
  <2>4. KnowsAt(d)
    BY DEF Knows
  <2>5. QED
    BY <2>1, <2>2, <2>3, <2>4, KnowsKept
<1>2. ASSUME NEW c \in Clients, ReadHistory(c)
      PROVE  KnowsAt(d)'
  <2>1. UNCHANGED <<sender, dead, evicted, history, shard, msg, appended, queue>>
        /\ pc[c] = "entered" /\ pc' = [pc EXCEPT ![c] = "greet"]
        /\ seen' = [seen EXCEPT ![c] = InHistory]
    BY <1>2 DEF ReadHistory
  <2>2. CASE d # c
    <3>1. Served(d)' => Served(d) /\ Known(d) \subseteq Known(d)' /\ (Slow(d) => Slow(d)')
      BY <2>1, <2>2 DEF Served, Known, Slow, GhostTypes
    <3>2. \A e \in Clients : /\ pc'[e] \in {"write", "broadcast"} <=> pc[e] \in {"write", "broadcast"}
                             /\ pc'[e] = "broadcast" => pc[e] = "broadcast"
      BY <2>1
    <3>3. KnowsAt(d)
      BY DEF Knows
    <3>4. QED
      BY <2>1, <3>1, <3>2, <3>3, KnowsKept
  <2>3. CASE d = c
    <3>1. InHistory \subseteq Known(d)' /\ InHistory' = InHistory
      BY <2>1, <2>3 DEF Known, InHistory, GhostTypes
    <3>2. QED
      BY <3>1 DEF KnowsAt
  <2>4. QED
    BY <2>2, <2>3
<1>3. ASSUME NEW c \in Clients, Greet(c)
      PROVE  KnowsAt(d)'
  <2>1. Served(d)' => Served(d) /\ Known(d) \subseteq Known(d)' /\ (Slow(d) => Slow(d)')
    BY <1>3 DEF Greet, Served, Known, Slow, RoomTypes, GhostTypes, PosterTypes
  <2>2. UNCHANGED <<history, shard, msg, appended>>
    BY <1>3 DEF Greet
  <2>3. \A e \in Clients : /\ pc'[e] \in {"write", "broadcast"} <=> pc[e] \in {"write", "broadcast"}
                           /\ pc'[e] = "broadcast" => shard[e] = 1 \/ pc[e] = "broadcast"
    BY <1>3 DEF Greet, Handlers, HandlerAt
  <2>4. KnowsAt(d)
    BY DEF Knows
  <2>5. QED
    BY <2>1, <2>2, <2>3, <2>4, KnowsKept
<1>4. ASSUME NEW c \in Clients, Leave(c)
      PROVE  KnowsAt(d)'
  <2>1. Served(d)' => Served(d) /\ Known(d) \subseteq Known(d)' /\ (Slow(d) => Slow(d)')
    BY <1>4 DEF Leave, Served, Known, Slow, RoomTypes, GhostTypes, PosterTypes
  <2>2. UNCHANGED <<history, shard, msg, appended>>
    BY <1>4 DEF Leave
  <2>3. \A e \in Clients : /\ pc'[e] \in {"write", "broadcast"} <=> pc[e] \in {"write", "broadcast"}
                           /\ pc'[e] = "broadcast" => shard[e] = 1 \/ pc[e] = "broadcast"
    BY <1>4 DEF Leave, Handlers, HandlerAt
  <2>4. KnowsAt(d)
    BY DEF Knows
  <2>5. QED
    BY <2>1, <2>2, <2>3, <2>4, KnowsKept
<1>5. ASSUME NEW c \in Clients, Throttle(c)
      PROVE  KnowsAt(d)'
  <2>1. Served(d)' => Served(d) /\ Known(d) \subseteq Known(d)' /\ (Slow(d) => Slow(d)')
    BY <1>5 DEF Throttle, Served, Known, Slow, RoomTypes, GhostTypes, PosterTypes
  <2>2. UNCHANGED <<history, shard, msg, appended>>
    BY <1>5 DEF Throttle
  <2>3. \A e \in Clients : /\ pc'[e] \in {"write", "broadcast"} <=> pc[e] \in {"write", "broadcast"}
                           /\ pc'[e] = "broadcast" => shard[e] = 1 \/ pc[e] = "broadcast"
    BY <1>5 DEF Throttle, Handlers, HandlerAt
  <2>4. KnowsAt(d)
    BY DEF Knows
  <2>5. QED
    BY <2>1, <2>2, <2>3, <2>4, KnowsKept
<1>6. ASSUME NEW c \in Clients, Expel(c)
      PROVE  KnowsAt(d)'
  <2>1. Served(d)' => Served(d) /\ Known(d) \subseteq Known(d)' /\ (Slow(d) => Slow(d)')
    BY <1>6 DEF Expel, Served, Known, Slow, RoomTypes, GhostTypes, PosterTypes
  <2>2. UNCHANGED <<history, shard, msg, appended>>
    BY <1>6 DEF Expel
  <2>3. \A e \in Clients : /\ pc'[e] \in {"write", "broadcast"} <=> pc[e] \in {"write", "broadcast"}
                           /\ pc'[e] = "broadcast" => shard[e] = 1 \/ pc[e] = "broadcast"
    BY <1>6 DEF Expel, Handlers, HandlerAt
  <2>4. KnowsAt(d)
    BY DEF Knows
  <2>5. QED
    BY <2>1, <2>2, <2>3, <2>4, KnowsKept
<1>7. ASSUME NEW c \in Clients, Receive(c)
      PROVE  KnowsAt(d)'
  <2>1. Served(d)' => Served(d) /\ Known(d) \subseteq Known(d)' /\ (Slow(d) => Slow(d)')
    BY <1>7 DEF Receive, Served, Known, Slow, RoomTypes, GhostTypes, PosterTypes
  <2>2. UNCHANGED <<history, shard, msg, appended>>
    BY <1>7 DEF Receive
  <2>3. \A e \in Clients : /\ pc'[e] \in {"write", "broadcast"} <=> pc[e] \in {"write", "broadcast"}
                           /\ pc'[e] = "broadcast" => shard[e] = 1 \/ pc[e] = "broadcast"
    BY <1>7 DEF Receive, Handlers, HandlerAt
  <2>4. KnowsAt(d)
    BY DEF Knows
  <2>5. QED
    BY <2>1, <2>2, <2>3, <2>4, KnowsKept
<1>8. ASSUME NEW c \in Clients, AppendMessage(c)
      PROVE  KnowsAt(d)'
  <2>1. /\ UNCHANGED <<sender, dead, evicted, shard, queue, seen>> /\ appended' = appended + 1
        /\ pc[c] = "append" /\ pc' = [pc EXCEPT ![c] = "write"]
        /\ msg' = [msg EXCEPT ![c] = appended + 1]
    BY <1>8 DEF AppendMessage
  <2>2. InHistory' \subseteq InHistory \cup {appended + 1}
    BY <1>8, HistoryOfAppend DEF InHistory, Entries
  <2>3. Announced' \subseteq Announced
    <3>1. appended + 1 \notin Announced'
      BY <2>1 DEF Announced, PosterTypes
    <3>2. \A e \in Clients : pc[e] \in {"write", "broadcast"} =>
            pc'[e] \in {"write", "broadcast"} /\ msg'[e] = msg[e]
      BY <2>1
    <3>3. \A m \in 1..(appended + 1) : m = appended + 1 \/ m \in 1..appended
      BY DEF HistoryTypes
    <3>4. QED
      BY <2>1, <3>1, <3>2, <3>3 DEF Announced
  <2>4. \A e \in Clients : pc'[e] = "broadcast" =>
          /\ pc[e] = "broadcast" /\ msg'[e] = msg[e] /\ msg[e] # appended + 1
    BY <2>1 DEF Numbered, HistoryTypes
  <2>5. appended + 1 \notin Announced
    BY DEF Announced, HistoryTypes
  <2>6. (Served(d)' => Served(d)) /\ Known(d)' = Known(d) /\ Slow(d)' = Slow(d)
    BY <2>1 DEF Served, Known, Slow
  <2>7. KnowsAt(d)
    BY DEF Knows
  <2>8. QED
    <3>1. SUFFICES ASSUME Served(d), ~Slow(d)
                   PROVE  /\ InHistory' \cap Announced' \subseteq Known(d)
                          /\ \A e \in Clients : pc'[e] = "broadcast" /\ ShardOf[d] < shard[e]
                               /\ msg'[e] \in InHistory' => msg'[e] \in Known(d)
      BY <2>1, <2>6 DEF KnowsAt
    <3>2. QED
      BY <2>2, <2>3, <2>4, <2>5, <2>7, <3>1 DEF KnowsAt
<1>9. ASSUME NEW c \in Clients, WriteEnds(c)
      PROVE  KnowsAt(d)'
  <2>1. Served(d)' => Served(d) /\ Known(d) \subseteq Known(d)' /\ (Slow(d) => Slow(d)')
    BY <1>9 DEF WriteEnds, Served, Known, Slow, RoomTypes, GhostTypes, PosterTypes
  <2>2. UNCHANGED <<history, shard, msg, appended>>
    BY <1>9 DEF WriteEnds
  <2>3. \A e \in Clients : /\ pc'[e] \in {"write", "broadcast"} <=> pc[e] \in {"write", "broadcast"}
                           /\ pc'[e] = "broadcast" => shard[e] = 1 \/ pc[e] = "broadcast"
    BY <1>9 DEF WriteEnds, Handlers, HandlerAt
  <2>4. KnowsAt(d)
    BY DEF Knows
  <2>5. QED
    BY <2>1, <2>2, <2>3, <2>4, KnowsKept
<1>10. ASSUME NEW c \in Clients, BroadcastShard(c)
      PROVE  KnowsAt(d)'
  <2>1. UNCHANGED <<sender, evicted, history, appended>> /\ pc[c] = "broadcast" /\ msg[c] \in 1..appended
    BY <1>10 DEF BroadcastShard, Numbered
  <2>2. SUFFICES ASSUME Served(d)', ~Slow(d)'
                 PROVE  /\ InHistory \cap Announced' \subseteq Known(d)'
                        /\ \A e \in Clients : pc'[e] = "broadcast" /\ ShardOf[d] < shard'[e]
                             /\ msg'[e] \in InHistory => msg'[e] \in Known(d)'
    BY <2>1 DEF KnowsAt, InHistory
  <2>3. Served(d)
    BY <1>10, <2>1, <2>2 DEF BroadcastShard, Served
  <2>4. /\ Known(d) \subseteq Known(d)' /\ ~Slow(d)
        /\ ShardOf[d] = shard[c] => msg[c] \in Known(d)'
    BY <1>10, <2>2, <2>3, BroadcastReaches
  <2>5. /\ InHistory \cap Announced \subseteq Known(d)
        /\ \A e \in Clients : pc[e] = "broadcast" /\ ShardOf[d] < shard[e] /\ msg[e] \in InHistory =>
             msg[e] \in Known(d)
    BY <2>3, <2>4 DEF Knows, KnowsAt
  <2>6. ShardOf[d] < shard[c] /\ msg[c] \in InHistory => msg[c] \in Known(d)'
    BY <2>1, <2>4, <2>5
  <2>7. ShardOf[d] \in 1..NShards /\ shard[c] \in 1..NShards
    BY DEF PosterTypes
  <2>8. CASE shard[c] < NShards
    <3>1. UNCHANGED <<pc, msg>> /\ shard' = [shard EXCEPT ![c] = shard[c] + 1]
      BY <1>10, <2>8 DEF BroadcastShard
    <3>2. Announced' = Announced
      BY <2>1, <3>1, AnnouncedKept
    <3>3. ASSUME NEW e \in Clients, pc[e] = "broadcast", ShardOf[d] < shard'[e], msg[e] \in InHistory
          PROVE  msg[e] \in Known(d)'
      <4>1. CASE e = c
        BY <2>4, <2>6, <2>7, <3>1, <3>3, <4>1 DEF PosterTypes
      <4>2. CASE e # c
        BY <2>4, <2>5, <3>1, <3>3, <4>2 DEF PosterTypes
      <4>3. QED
        BY <4>1, <4>2
    <3>4. QED
      BY <2>4, <2>5, <3>1, <3>2, <3>3
  <2>9. CASE ~(shard[c] < NShards)
    <3>1. /\ shard' = [shard EXCEPT ![c] = 1] /\ msg' = [msg EXCEPT ![c] = 0]
          /\ \E there \in {"ready", "sweep"} : pc' = [pc EXCEPT ![c] = there]
      BY <1>10, <2>9 DEF BroadcastShard
    <3>2. msg[c] \in InHistory => msg[c] \in Known(d)'
      BY <2>4, <2>6, <2>7, <2>9
    <3>3. Announced' \subseteq Announced \cup {msg[c]}
      <4>1. \A e \in Clients : pc[e] \in {"write", "broadcast"} =>
              \/ pc'[e] \in {"write", "broadcast"} /\ msg'[e] = msg[e]
              \/ msg[e] = msg[c]
        BY <3>1 DEF PosterTypes
      <4>2. QED
        BY <2>1, <4>1 DEF Announced
    <3>4. ASSUME NEW e \in Clients, pc'[e] = "broadcast", ShardOf[d] < shard'[e]
          PROVE  pc[e] = "broadcast" /\ ShardOf[d] < shard[e] /\ msg'[e] = msg[e]
      BY <3>1, <3>4 DEF PosterTypes
    <3>5. QED
      BY <2>4, <2>5, <3>2, <3>3, <3>4
  <2>10. QED
    BY <2>8, <2>9
<1>11. ASSUME NEW c \in Clients, Sweep(c)
      PROVE  KnowsAt(d)'
  <2>1. Served(d)' => Served(d) /\ Known(d) \subseteq Known(d)' /\ (Slow(d) => Slow(d)')
    <3>1. PICK x \in dead[c] :
            /\ evicted' = IF pc[x] = "closed" THEN evicted ELSE evicted \cup {x}
            /\ dead' = [dead EXCEPT ![c] = dead[c] \ {x}]
      BY <1>11 DEF Sweep
    <3>2. /\ UNCHANGED <<sender, queue, seen>> /\ pc[c] = "sweep"
          /\ \E there \in {"ready", "sweep"} : pc' = [pc EXCEPT ![c] = there]
      BY <1>11 DEF Sweep
    <3>3. Served(d)' => Served(d)
      BY <3>2 DEF Served
    <3>4. Known(d)' = Known(d)
      BY <3>2 DEF Known
    <3>5. Served(d) => pc[d] # "closed"
      BY DEF Served
    <3>6. Slow(d) /\ pc[d] # "closed" => Slow(d)'
      BY <3>1 DEF Slow, PosterTypes
    <3>7. QED
      BY <3>3, <3>4, <3>5, <3>6
  <2>2. UNCHANGED <<history, shard, msg, appended>>
    BY <1>11 DEF Sweep
  <2>3. \A e \in Clients : /\ pc'[e] \in {"write", "broadcast"} <=> pc[e] \in {"write", "broadcast"}
                           /\ pc'[e] = "broadcast" => shard[e] = 1 \/ pc[e] = "broadcast"
    BY <1>11 DEF Sweep, Handlers, HandlerAt
  <2>4. KnowsAt(d)
    BY DEF Knows
  <2>5. QED
    BY <2>1, <2>2, <2>3, <2>4, KnowsKept
<1>12. ASSUME NEW c \in Clients, Deliver(c)
      PROVE  KnowsAt(d)'
  <2>1. Served(d)' => Served(d) /\ Known(d) \subseteq Known(d)' /\ (Slow(d) => Slow(d)')
    <3>1. queue[c] \in Seq(Nat) /\ queue[c] # <<>> /\ UNCHANGED <<pc, sender, evicted, dead>>
          /\ seen' = [seen EXCEPT ![c] = seen[c] \cup {Head(queue[c])}]
          /\ queue' = [queue EXCEPT ![c] = Tail(queue[c])]
      BY <1>12 DEF Deliver, RoomTypes
    <3>2. Entries(queue[c]) = {Head(queue[c])} \cup Entries(Tail(queue[c]))
      BY <3>1, EntriesOfTail
    <3>3. Known(d)' = Known(d)
      <4>1. CASE d = c
        BY <3>1, <3>2, <4>1 DEF Known, RoomTypes, GhostTypes
      <4>2. CASE d # c
        BY <3>1, <4>2 DEF Known, RoomTypes, GhostTypes
      <4>3. QED
        BY <4>1, <4>2
    <3>4. QED
      BY <3>1, <3>3 DEF Served, Slow
  <2>2. UNCHANGED <<history, shard, msg, appended>>
    BY <1>12 DEF Deliver
  <2>3. \A e \in Clients : /\ pc'[e] \in {"write", "broadcast"} <=> pc[e] \in {"write", "broadcast"}
                           /\ pc'[e] = "broadcast" => shard[e] = 1 \/ pc[e] = "broadcast"
    BY <1>12 DEF Deliver, Handlers, HandlerAt
  <2>4. KnowsAt(d)
    BY DEF Knows
  <2>5. QED
    BY <2>1, <2>2, <2>3, <2>4, KnowsKept
<1>13. ASSUME NEW c \in Clients, SenderDies(c)
      PROVE  KnowsAt(d)'
  <2>1. Served(d)' => Served(d) /\ Known(d) \subseteq Known(d)' /\ (Slow(d) => Slow(d)')
    <3>1. UNCHANGED <<pc, seen, evicted, dead>> /\ sender' = [sender EXCEPT ![c] = "dead"]
          /\ queue' = [queue EXCEPT ![c] = <<>>]
      BY <1>13 DEF SenderDies
    <3>2. CASE d = c
      BY <1>13, <3>1, <3>2 DEF Served, SenderDies, Handlers, HandlerAt, RoomTypes
    <3>3. CASE d # c
      <4>1. queue'[d] = queue[d] /\ sender'[d] = sender[d]
        BY <3>1, <3>3 DEF RoomTypes
      <4>2. QED
        BY <3>1, <4>1 DEF Served, Known, Slow
    <3>4. QED
      BY <3>2, <3>3
  <2>2. UNCHANGED <<history, shard, msg, appended>>
    BY <1>13 DEF SenderDies
  <2>3. \A e \in Clients : /\ pc'[e] \in {"write", "broadcast"} <=> pc[e] \in {"write", "broadcast"}
                           /\ pc'[e] = "broadcast" => shard[e] = 1 \/ pc[e] = "broadcast"
    BY <1>13 DEF SenderDies, Handlers, HandlerAt
  <2>4. KnowsAt(d)
    BY DEF Knows
  <2>5. QED
    BY <2>1, <2>2, <2>3, <2>4, KnowsKept
<1>14. CASE Restart
  <2>1. ~Served(d)'
    BY <1>14 DEF Restart, Served
  <2>2. QED
    BY <2>1 DEF KnowsAt
<1>15. CASE UNCHANGED vars
  BY <1>15 DEF vars, roomVars, handlerVars, historyVars, ghostVars, Knows, KnowsAt,
     Served, Known, Slow, InHistory, Announced
<1>16. QED
  BY <1>1, <1>2, <1>3, <1>4, <1>5, <1>6, <1>7, <1>8, <1>9, <1>10, <1>11, <1>12, <1>13,
     <1>14, <1>15 DEF Next, Handler, Post

\* The invariant holds in every reachable state.
LEMMA InvariantHolds == Spec => []IInv
<1>1. Init => IInv
  BY InitInvariant
<1>2. IInv /\ [Next]_vars => IInv'
  <2> SUFFICES ASSUME IInv, [Next]_vars
               PROVE  IInv'
    OBVIOUS
  <2>1. Types /\ Numbered /\ Locking /\ Handlers /\ Knows
    BY DEF IInv
  <2>2. RoomTypes /\ HandlerTypes /\ PosterTypes /\ HistoryTypes /\ GhostTypes
    BY <2>1 DEF Types
  <2>3. Types'
    BY <2>1, <2>2, RoomTypesStep, HandlerTypesStep, PosterTypesStep, HistoryTypesStep,
       GhostTypesStep DEF Types
  <2>4. Numbered' /\ Locking'
    BY <2>1, <2>2, NumberedStep, LockingStep
  <2>5. Handlers'
    BY <2>1, <2>2, HandlersStep DEF Handlers
  <2>6. Knows'
    BY <2>1, <2>2, KnowsStep DEF Knows
  <2>7. QED
    BY <2>3, <2>4, <2>5, <2>6 DEF IInv
<1>3. QED
  BY <1>1, <1>2, PTL DEF Spec
-----------------------------------------------------------------------------
(* Theorems *)

\* Nothing falls between the history a client is sent and the messages queued
\* for it afterwards: it enters the map before it reads the history, so whoever
\* appends later finds it there, unless its queue is full or closed.
THEOREM NothingMissed == Spec => []NoGap
<1>1. IInv => NoGap
  BY DEF IInv, Knows, KnowsAt, Served, Known, Entries, NoGap
<1>2. QED
  BY <1>1, InvariantHolds, PTL

\* The variables keep their types, queues, history and file their capacities,
\* and while nobody holds the mutex of the history the file is the history,
\* unless the last write failed; also after a restart.
THEOREM HistoryOnDisk == Spec => []FileIsHistory
<1>1. IInv => TypeOK
  BY DEF IInv, Types, RoomTypes, HandlerTypes, PosterTypes, HistoryTypes, GhostTypes, TypeOK
<1>2. IInv => FileIsHistory
  BY <1>1 DEF IInv, Locking, FileIsHistory
<1>3. QED
  BY <1>2, InvariantHolds, PTL
=============================================================================
