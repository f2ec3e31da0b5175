------------------------------ MODULE ChatRoom ------------------------------
(***************************************************************************)
(* Chat: handle() of ws/chat.rs, append_chat_message() and                 *)
(* load_chat_history() of state.rs.                                        *)
(*                                                                         *)
(* A client enters chat_clients before it reads the history.  A message is *)
(* appended to the history and written to chat_history.json under the      *)
(* mutex of the history; after that it is put in the queue of every client,*)
(* shard by shard of the map, while other posters do the same.  Clients    *)
(* whose queue was full or closed are removed when the round is over; the  *)
(* map owns the only sender of the queue, so a removed client hears no     *)
(* more although its socket stays open.                                    *)
(*                                                                         *)
(* Messages are numbered in the order they are appended.  A client stands  *)
(* for one connection at a time: client ids are never used again, so it    *)
(* comes back only when nobody remembers the old id.                       *)
(***************************************************************************)
EXTENDS Integers, Sequences, FiniteSets

CONSTANTS
  Clients,
  NShards, ShardOf,  \* [Clients -> 1..NShards]: the shard a client id hashes to
  QueueCap,       \* TEXT_QUEUE_CAPACITY: 64
  HistoryCap,     \* messages kept: 20
  WindowLimit,    \* messages per 10 s before they are dropped: 20
  MaxViolations,  \* dropped messages that end the connection: 8
  MaxMessages,    \* bound: messages appended
  None            \* nobody

ASSUME ChatAssumption ==
  /\ NShards \in Nat \ {0} /\ ShardOf \in [Clients -> 1..NShards]
  /\ QueueCap \in Nat \ {0} /\ HistoryCap \in Nat \ {0}
  /\ WindowLimit \in Nat \ {0} /\ MaxViolations \in Nat \ {0} /\ MaxMessages \in Nat
  /\ None \notin Clients

VARIABLES
  chatClients,  \* AppState::chat_clients
  queue,        \* messages queued for the send task of a client
  sender,       \* the send task
  pc,           \* where its handler is
  inWindow,     \* msgs_in_window, counted up to the limit
  violations,   \* rate_violations
  msg,          \* the message its handler is posting
  shard,        \* the shard its handler visits next
  dead,         \* the clients it found full or closed
  history,      \* chat_history
  locked,       \* owner of the mutex of the history
  file,         \* chat_history.json: a history, or Torn
  written,      \* the last write of the file succeeded
  appended,     \* messages appended so far
  seen,         \* messages the client was sent, in the history or on their own
  evicted       \* clients removed by somebody else

roomVars == <<chatClients, queue, sender>>
handlerVars == <<pc, inWindow, violations, msg, shard, dead>>
historyVars == <<history, locked, file, written, appended>>
ghostVars == <<seen, evicted>>
vars == <<roomVars, handlerVars, historyVars, ghostVars>>

\* A file whose overwriting was cut short.
Torn == <<0>>

Posting == {"append", "write", "broadcast", "sweep"}
HandlerPC == {"closed", "entered", "greet", "ready", "panicked"} \cup Posting

\* Type invariant; queues and history stay within their capacities.
TypeOK ==
  /\ chatClients \subseteq Clients /\ evicted \subseteq Clients
  /\ queue \in [Clients -> Seq(Nat)] /\ \A c \in Clients : Len(queue[c]) <= QueueCap
  /\ sender \in [Clients -> {"none", "run", "dead"}] /\ pc \in [Clients -> HandlerPC]
  /\ inWindow \in [Clients -> 0..WindowLimit]
  /\ violations \in [Clients -> 0..(MaxViolations - 1)]
  /\ msg \in [Clients -> 0..appended] /\ shard \in [Clients -> 1..NShards]
  /\ dead \in [Clients -> SUBSET Clients] /\ seen \in [Clients -> SUBSET (1..appended)]
  /\ history \in Seq(Nat) /\ Len(history) <= HistoryCap
  /\ locked \in Clients \cup {None}
  /\ file \in Seq(Nat) /\ Len(file) <= HistoryCap
  /\ written \in BOOLEAN /\ appended \in Nat

Init ==
  /\ chatClients = {} /\ evicted = {}
  /\ queue = [c \in Clients |-> <<>>] /\ sender = [c \in Clients |-> "none"]
  /\ pc = [c \in Clients |-> "closed"]
  /\ inWindow = [c \in Clients |-> 0] /\ violations = [c \in Clients |-> 0]
  /\ msg = [c \in Clients |-> 0] /\ shard = [c \in Clients |-> 1]
  /\ dead = [c \in Clients |-> {}] /\ seen = [c \in Clients |-> {}]
  /\ history = <<>> /\ file = <<>> /\ written = TRUE
  /\ locked = None /\ appended = 0

Goto(c, there) == pc' = [pc EXCEPT ![c] = there]

InHistory == {history[i] : i \in DOMAIN history}
-----------------------------------------------------------------------------
(* handle(): connection *)

Enter(c) ==
  /\ pc[c] = "closed" /\ sender[c] = "none" /\ \A d \in Clients : c \notin dead[d]
  /\ chatClients' = chatClients \cup {c}
  /\ evicted' = evicted \ {c}
  /\ Goto(c, "entered")
  /\ UNCHANGED <<queue, sender, inWindow, violations, msg, shard, dead, historyVars, seen>>

ReadHistory(c) ==
  /\ pc[c] = "entered" /\ locked = None
  /\ seen' = [seen EXCEPT ![c] = InHistory]
  /\ Goto(c, "greet")
  /\ UNCHANGED <<roomVars, inWindow, violations, msg, shard, dead, historyVars, evicted>>

\* The history is sent, the send task spawned.
Greet(c) ==
  /\ pc[c] = "greet"
  /\ sender' = [sender EXCEPT ![c] = "run"]
  /\ Goto(c, "ready")
  /\ UNCHANGED <<chatClients, queue, inWindow, violations, msg, shard, dead,
                 historyVars, ghostVars>>

\* The end of the handler: leave the map, abort the send task.
Gone(c) ==
  /\ chatClients' = chatClients \ {c}
  /\ queue' = [queue EXCEPT ![c] = <<>>] /\ sender' = [sender EXCEPT ![c] = "none"]
  /\ seen' = [seen EXCEPT ![c] = {}]
  /\ inWindow' = [inWindow EXCEPT ![c] = 0]
  /\ violations' = [violations EXCEPT ![c] = 0]
  /\ Goto(c, "closed")
  /\ UNCHANGED <<msg, shard, dead, historyVars, evicted>>

\* The history cannot be sent; or the peer goes away, or is idle for 90 s.
Leave(c) == pc[c] \in {"greet", "ready"} /\ Gone(c)
-----------------------------------------------------------------------------
(* handle(): a text frame *)

\* Frames before this one in its window, counted up to the limit; rolled: 10 s
\* have passed and a new window begins.
Before(c, rolled) == IF rolled THEN 0 ELSE inWindow[c]

TooMany(c) == pc[c] = "ready" /\ inWindow[c] = WindowLimit

\* One too many in this window: dropped.
Throttle(c) ==
  /\ TooMany(c) /\ violations[c] + 1 < MaxViolations
  /\ violations' = [violations EXCEPT ![c] = @ + 1]
  /\ UNCHANGED <<roomVars, pc, inWindow, msg, shard, dead, historyVars, ghostVars>>

\* The last one: the loop ends.
Expel(c) == TooMany(c) /\ violations[c] + 1 >= MaxViolations /\ Gone(c)

\* A frame within the limit: ignored (no chat command, an empty message), or a
\* message to post.  A name cut at byte 14 or a message cut at byte 200 inside
\* a character makes String::truncate panic: the handler is gone.
Receive(c) ==
  /\ pc[c] = "ready"
  /\ \E rolled \in BOOLEAN :
       /\ Before(c, rolled) < WindowLimit
       /\ inWindow' = [inWindow EXCEPT ![c] = Before(c, rolled) + 1]
  /\ \E there \in {"ready", "append", "panicked"} : Goto(c, there)
  /\ UNCHANGED <<roomVars, violations, msg, shard, dead, historyVars, ghostVars>>
-----------------------------------------------------------------------------
(* append_chat_message() *)

Last(s, n) == SubSeq(s, IF Len(s) > n THEN Len(s) - n + 1 ELSE 1, Len(s))

\* Wrong variant: the mutex is released before the file is written.
AppendUnlocks(c) ==
  /\ pc[c] = "append" /\ locked = None /\ appended < MaxMessages
  /\ appended' = appended + 1
  /\ msg' = [msg EXCEPT ![c] = appended + 1]
  /\ history' = Last(Append(history, appended + 1), HistoryCap)
  /\ Goto(c, "write")
  /\ UNCHANGED <<roomVars, inWindow, violations, shard, dead, file, locked, written, ghostVars>>

\* Lock, push, drop the oldest; overwriting the file begins.
AppendMessage(c) ==
  /\ pc[c] = "append" /\ locked = None /\ appended < MaxMessages
  /\ appended' = appended + 1
  /\ msg' = [msg EXCEPT ![c] = appended + 1]
  /\ history' = Last(Append(history, appended + 1), HistoryCap)
  /\ locked' = c
  /\ Goto(c, "write")
  /\ UNCHANGED <<roomVars, inWindow, violations, shard, dead, file, written, ghostVars>>

\* What a write that does not succeed may leave: it could not open the file, or
\* it stopped on the way.
Leftovers == {file, Torn}

\* Wrong variant: a failed write returns with the mutex locked.
WriteKeepsLock(c) ==
  /\ pc[c] = "write"
  /\ \/ file' = history /\ written' = TRUE /\ locked' = None
     \/ file' \in Leftovers /\ written' = FALSE /\ UNCHANGED locked
  /\ Goto(c, "broadcast")
  /\ UNCHANGED <<roomVars, inWindow, violations, msg, shard, dead, history, appended, ghostVars>>

\* The write ends, or fails with a warning; unlock.
WriteEnds(c) ==
  /\ pc[c] = "write"
  /\ \/ file' = history /\ written' = TRUE
     \/ file' \in Leftovers /\ written' = FALSE
  /\ locked' = None
  /\ Goto(c, "broadcast")
  /\ UNCHANGED <<roomVars, inWindow, violations, msg, shard, dead, history, appended, ghostVars>>
-----------------------------------------------------------------------------
(* handle(): the message goes to every client *)

\* Wrong variant: clients are in the map only once they have their history.
InShardGreeted(s) == {d \in chatClients : ShardOf[d] = s /\ pc[d] \notin {"entered", "greet"}}

InShard(s) == {d \in chatClients : ShardOf[d] = s}

\* The receiver of the queue exists until the send task has ended, or the
\* handler that would have spawned it has.
Open(d) == sender[d] = "run" \/ pc[d] \in {"entered", "greet"}

\* try_send to the clients of one shard, whose read lock is held meanwhile; after
\* the last shard the handler turns to those that were full or closed.
BroadcastShard(c) ==
  /\ pc[c] = "broadcast"
  /\ LET fits == {d \in InShard(shard[c]) : Open(d) /\ Len(queue[d]) < QueueCap}
     IN  /\ queue' = [d \in Clients |-> IF d \in fits THEN Append(queue[d], msg[c])
                                                     ELSE queue[d]]
         /\ dead' = [dead EXCEPT ![c] = @ \cup (InShard(shard[c]) \ fits)]
  /\ IF shard[c] < NShards
       THEN /\ shard' = [shard EXCEPT ![c] = @ + 1]
            /\ UNCHANGED <<pc, msg>>
       ELSE /\ shard' = [shard EXCEPT ![c] = 1]
            /\ msg' = [msg EXCEPT ![c] = 0]
            /\ Goto(c, IF dead'[c] = {} THEN "ready" ELSE "sweep")
  /\ UNCHANGED <<chatClients, sender, inWindow, violations, historyVars, ghostVars>>

\* Remove them, one after the other.
Sweep(c) ==
  /\ pc[c] = "sweep"
  /\ \E d \in dead[c] :
       /\ chatClients' = chatClients \ {d}
       /\ evicted' = IF pc[d] = "closed" THEN evicted ELSE evicted \cup {d}
       /\ dead' = [dead EXCEPT ![c] = @ \ {d}]
       /\ Goto(c, IF dead[c] = {d} THEN "ready" ELSE "sweep")
  /\ UNCHANGED <<queue, sender, inWindow, violations, msg, shard, historyVars, seen>>
-----------------------------------------------------------------------------
(* The send task *)

Deliver(c) ==
  /\ sender[c] = "run" /\ queue[c] # <<>>
  /\ seen' = [seen EXCEPT ![c] = @ \cup {Head(queue[c])}]
  /\ queue' = [queue EXCEPT ![c] = Tail(@)]
  /\ UNCHANGED <<chatClients, sender, handlerVars, historyVars, evicted>>

\* A send to the socket fails: the task ends.
SenderDies(c) ==
  /\ sender[c] = "run"
  /\ sender' = [sender EXCEPT ![c] = "dead"]
  /\ queue' = [queue EXCEPT ![c] = <<>>]
  /\ UNCHANGED <<chatClients, handlerVars, historyVars, ghostVars>>
-----------------------------------------------------------------------------
(* The process ends at any moment, perhaps while the file is written, and is *)
(* started again: load_chat_history() reads the file; one it cannot parse    *)
(* counts as no history.                                                     *)

Restart ==
  /\ chatClients' = {} /\ evicted' = {}
  /\ queue' = [c \in Clients |-> <<>>] /\ sender' = [c \in Clients |-> "none"]
  /\ pc' = [c \in Clients |-> "closed"]
  /\ inWindow' = [c \in Clients |-> 0] /\ violations' = [c \in Clients |-> 0]
  /\ msg' = [c \in Clients |-> 0] /\ shard' = [c \in Clients |-> 1]
  /\ dead' = [c \in Clients |-> {}] /\ seen' = [c \in Clients |-> {}]
  /\ file' \in IF locked = None THEN {file} ELSE Leftovers \cup {history}
  /\ history' = IF file' = Torn THEN <<>> ELSE file'
  /\ written' = (file' # Torn)
  /\ locked' = None
  /\ UNCHANGED appended
-----------------------------------------------------------------------------
Post(c) == AppendMessage(c) \/ WriteEnds(c) \/ BroadcastShard(c) \/ Sweep(c)

Handler(c) == \/ Enter(c) \/ ReadHistory(c) \/ Greet(c) \/ Leave(c)
              \/ Throttle(c) \/ Expel(c) \/ Receive(c) \/ Post(c)

Next == \/ \E c \in Clients : Handler(c) \/ Deliver(c) \/ SenderDies(c)
        \/ Restart

\* The runtime polls every handler that is ready; the mutex of tokio serves its
\* waiters in turn, so that none is passed over for ever.
Fairness == \A c \in Clients : WF_vars(Post(c)) /\ SF_vars(AppendMessage(c))

Spec == Init /\ [][Next]_vars /\ Fairness
-----------------------------------------------------------------------------
(* Properties *)

\* Messages whose round is over.
Announced == (1..appended) \ {msg[c] : c \in {d \in Clients : pc[d] \in {"write", "broadcast"}}}

\* Found with a full queue: removed, or about to be.
Slow(c) == c \in evicted \/ \E d \in Clients : c \in dead[d]

\* No message falls between the history a client was sent and the messages it
\* is sent after that: while it is served and was not found too slow, every
\* announced message of the history is in one or the other.
NoGap ==
  \A c \in Clients :
    (pc[c] \in {"ready"} \cup Posting /\ sender[c] = "run" /\ ~Slow(c)) =>
      (InHistory \cap Announced) \ seen[c] \subseteq {queue[c][i] : i \in DOMAIN queue[c]}

\* Between two appends the file is the history, although several handlers
\* write it, unless the last write failed.
FileIsHistory == TypeOK /\ (locked = None /\ written => file = history)

\* Whoever begins to post a message returns to its loop, whatever becomes of
\* the write: no poster waits for ever for the history (the bound aside).
OutOfMessages(c) == pc[c] = "append" /\ appended = MaxMessages
PostingEnds ==
  \A c \in Clients : pc[c] \in Posting ~> (pc[c] \notin Posting \/ OutOfMessages(c))

\* ENGINEERING_RULES.md: "No panics in production paths": every client in the
\* map has a handler that will take it out.
RegisteredHasHandler == \A c \in chatClients : pc[c] \notin {"closed", "panicked"}
=============================================================================
