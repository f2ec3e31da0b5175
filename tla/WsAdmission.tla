---------------------------- MODULE WsAdmission ----------------------------
(***************************************************************************)
(* Admission of WebSocket connections (state.rs, upgrade() of ws/*.rs).    *)
(*                                                                         *)
(* Every upgrade first takes a slot of its peer address in ws_ip_counts    *)
(* and gets a WsIpGuard whose Drop gives the slot back.  The guard moves   *)
(* from upgrade() into handle(), which registers the client in the client  *)
(* map of its class only later.  The class limit is compared with the size *)
(* of that map in upgrade().                                               *)
(*                                                                         *)
(* Each action is one critical section of a DashMap shard: the slot is     *)
(* taken under one entry lock, but given back under two (get_mut, then     *)
(* remove).  An address that is not in the map counts as 0: the code never *)
(* leaves a 0 behind, because the limit is at least 1.                     *)
(***************************************************************************)
EXTENDS Integers, FiniteSets

CONSTANTS
  Sockets,      \* connection attempts; one may come back after it closed
  Addresses,    \* peer addresses
  AddressOf,    \* [Sockets -> Addresses]
  Classes,      \* endpoints: audio, waterfall, events, chat
  ClassOf,      \* [Sockets -> Classes]
  Limited,      \* classes with a limit in config.limits: all but chat
  Movable,      \* classes whose client moves between maps: audio, waterfall
  MoveMayFail,  \* those whose move may be the handler's last step: waterfall
  Evictable,    \* classes the server drops from the map by itself: events
  WsPerIp,      \* limits.ws_per_ip
  ClassLimit    \* [Limited -> Nat]: limits.audio, .waterfall, .events

ASSUME SocketsAssumption == IsFiniteSet(Sockets)
ASSUME TopologyAssumption == /\ AddressOf \in [Sockets -> Addresses]
                             /\ ClassOf \in [Sockets -> Classes]
                             /\ Limited \subseteq Classes
ASSUME LimitAssumption == /\ WsPerIp \in Nat
                          /\ ClassLimit \in [Limited -> Nat]

VARIABLES
  wsIpCounts,   \* AppState::ws_ip_counts, 0 standing for "no entry"
  pc,           \* how far upgrade() / handle() of each socket has come
  registered    \* sockets whose client is in the map of its class, for the
                \* classes whose map the admission reads

vars == <<wsIpCounts, pc, registered>>

(***************************************************************************)
(* "closed"     no upgrade under way                                       *)
(* "refused"    answered 429, no guard was made                            *)
(* "checking"   guard made, class limit not read yet                       *)
(* "handling"   handle() runs, the client is not in its map yet            *)
(* "live"       command loop; in the map unless a sweep evicted it         *)
(* "moving"     between remove and insert of a receiver or level change    *)
(* "dropping"   the guard is being dropped: get_mut not done               *)
(* "removing"   release_ws_ip saw a count of at most 1; remove not done    *)
(***************************************************************************)
PC == {"closed", "refused", "checking", "handling", "live", "moving",
       "dropping", "removing"}

\* The type invariant: no counter of state.rs ever underflows.
TypeOK == /\ wsIpCounts \in [Addresses -> Nat]
          /\ pc \in [Sockets -> PC]
          /\ registered \in SUBSET Sockets

Init == /\ wsIpCounts = [a \in Addresses |-> 0]
        /\ pc = [s \in Sockets |-> "closed"]
        /\ registered = {}

\* limits.ws_per_ip.max(1)
Limit == IF WsPerIp = 0 THEN 1 ELSE WsPerIp

Goto(s, there) == pc' = [pc EXCEPT ![s] = there]

\* total_audio_clients() and its siblings: the sizes of the class's maps.
ClientsOf(class) == {s \in registered : ClassOf[s] = class}

\* The map entry of a socket's client; the chat map is never counted.
Entry(s) == IF ClassOf[s] \in Limited THEN {s} ELSE {}

ClassFull(class) == /\ class \in Limited
                    /\ Cardinality(ClientsOf(class)) >= ClassLimit[class]
-----------------------------------------------------------------------------
(* upgrade() *)

\* Wrong variant: the refusal also counts the refused connection.
AcquireRefusedCountsToo(s) ==
  /\ pc[s] = "closed"
  /\ wsIpCounts[AddressOf[s]] >= Limit
  /\ wsIpCounts' = [wsIpCounts EXCEPT ![AddressOf[s]] = @ + 1]
  /\ Goto(s, "refused")
  /\ UNCHANGED registered

\* try_acquire_ws_ip under the entry lock: a slot is free.
Acquire(s) ==
  /\ pc[s] = "closed"
  /\ wsIpCounts[AddressOf[s]] < Limit
  /\ wsIpCounts' = [wsIpCounts EXCEPT ![AddressOf[s]] = @ + 1]
  /\ Goto(s, "checking")
  /\ UNCHANGED registered

\* try_acquire_ws_ip returned None: 429.
RefuseAddress(s) ==
  /\ pc[s] = "closed"
  /\ wsIpCounts[AddressOf[s]] >= Limit
  /\ Goto(s, "refused")
  /\ UNCHANGED <<wsIpCounts, registered>>

\* The peer tries again later.
Retry(s) ==
  /\ pc[s] = "refused"
  /\ Goto(s, "closed")
  /\ UNCHANGED <<wsIpCounts, registered>>

\* Wrong variant: the early return forgets the guard (it is never dropped).
RefuseClassLeaksGuard(s) ==
  /\ pc[s] = "checking"
  /\ ClassFull(ClassOf[s])
  /\ Goto(s, "refused")
  /\ UNCHANGED <<wsIpCounts, registered>>

\* The class is full: 429, and the early return drops the guard.
RefuseClass(s) ==
  /\ pc[s] = "checking"
  /\ ClassFull(ClassOf[s])
  /\ Goto(s, "dropping")
  /\ UNCHANGED <<wsIpCounts, registered>>

\* on_upgrade(handle).
Admit(s) ==
  /\ pc[s] = "checking"
  /\ ~ClassFull(ClassOf[s])
  /\ Goto(s, "handling")
  /\ UNCHANGED <<wsIpCounts, registered>>
-----------------------------------------------------------------------------
(* handle() *)

\* The client enters the map of its class.
Register(s) ==
  /\ pc[s] = "handling"
  /\ registered' = registered \cup Entry(s)
  /\ Goto(s, "live")
  /\ UNCHANGED wsIpCounts

\* The upgrade or a step before the insertion failed: the guard is dropped.
Fail(s) ==
  /\ pc[s] = "handling"
  /\ Goto(s, "dropping")
  /\ UNCHANGED <<wsIpCounts, registered>>

\* Receiver or level change: removed from one map ...
MoveOut(s) ==
  /\ pc[s] = "live"
  /\ ClassOf[s] \in Movable
  /\ registered' = registered \ Entry(s)
  /\ Goto(s, "moving")
  /\ UNCHANGED wsIpCounts

\* ... and inserted into the next.
MoveIn(s) ==
  /\ pc[s] = "moving"
  /\ registered' = registered \cup Entry(s)
  /\ Goto(s, "live")
  /\ UNCHANGED wsIpCounts

\* The events sweep removes a subscriber whose queue was full; its socket
\* and its guard stay.
Evict(s) ==
  /\ pc[s] = "live"
  /\ ClassOf[s] \in Evictable
  /\ registered' = registered \ Entry(s)
  /\ UNCHANGED <<wsIpCounts, pc>>

\* Wrong variant: the handler returns without leaving the map.
CloseWithoutLeaving(s) ==
  /\ pc[s] = "live"
  /\ Goto(s, "dropping")
  /\ UNCHANGED <<wsIpCounts, registered>>

\* The command loop ends: the client leaves the map and the guard goes out of
\* scope.
Close(s) ==
  /\ pc[s] = "live"
  /\ registered' = registered \ Entry(s)
  /\ Goto(s, "dropping")
  /\ UNCHANGED wsIpCounts

\* The settings of the new receiver cannot be sent: the loop ends in the
\* middle of the move.
FailMove(s) ==
  /\ pc[s] = "moving"
  /\ ClassOf[s] \in MoveMayFail
  /\ Goto(s, "dropping")
  /\ UNCHANGED <<wsIpCounts, registered>>
-----------------------------------------------------------------------------
(* Drop for WsIpGuard: release_ws_ip *)

\* Wrong variant: decrements whatever it finds, below zero after the race
\* with a remove.
ReleaseUnchecked(s) ==
  /\ pc[s] = "dropping"
  /\ wsIpCounts' = [wsIpCounts EXCEPT ![AddressOf[s]] = @ - 1]
  /\ Goto(s, "closed")
  /\ UNCHANGED registered

\* get_mut found a count above 1 and decremented it.
ReleaseOne(s) ==
  /\ pc[s] = "dropping"
  /\ wsIpCounts[AddressOf[s]] > 1
  /\ wsIpCounts' = [wsIpCounts EXCEPT ![AddressOf[s]] = @ - 1]
  /\ Goto(s, "closed")
  /\ UNCHANGED registered

\* get_mut found at most 1 (or no entry) and its lock was released.
ReleaseLast(s) ==
  /\ pc[s] = "dropping"
  /\ wsIpCounts[AddressOf[s]] <= 1
  /\ Goto(s, "removing")
  /\ UNCHANGED <<wsIpCounts, registered>>

\* The separate remove drops whatever the entry counts by now.
ReleaseRemove(s) ==
  /\ pc[s] = "removing"
  /\ wsIpCounts' = [wsIpCounts EXCEPT ![AddressOf[s]] = 0]
  /\ Goto(s, "closed")
  /\ UNCHANGED registered
-----------------------------------------------------------------------------
Release(s) == ReleaseOne(s) \/ ReleaseLast(s) \/ ReleaseRemove(s)

Upgrade(s) == \/ Acquire(s) \/ RefuseAddress(s) \/ Retry(s)
              \/ RefuseClass(s) \/ Admit(s)

Handle(s) == \/ Register(s) \/ Fail(s) \/ MoveOut(s) \/ MoveIn(s)
             \/ Evict(s) \/ Close(s) \/ FailMove(s)

Next == \E s \in Sockets : Upgrade(s) \/ Handle(s) \/ Release(s)

\* A started Drop and a started upgrade() run to their end: neither waits for
\* anything but a shard lock that is held for a few instructions.
Fairness == \A s \in Sockets : /\ WF_vars(Release(s))
                               /\ WF_vars(RefuseClass(s) \/ Admit(s))

Spec == Init /\ [][Next]_vars /\ Fairness
-----------------------------------------------------------------------------
(* Properties *)

Guarded == {"checking", "handling", "live", "moving", "dropping", "removing"}

\* Sockets of an address that own a WsIpGuard.
Holders(a) == {s \in Sockets : AddressOf[s] = a /\ pc[s] \in Guarded}

\* Sockets of an address that the server serves.
Served(a) == {s \in Sockets : /\ AddressOf[s] = a
                              /\ pc[s] \in {"handling", "live", "moving"}}

\* The count of an address never exceeds its guards that are alive: however
\* the two halves of release_ws_ip interleave with other upgrades and other
\* drops, no slot leaks, so an address can never be locked out for good.
CountCovered == \A a \in Addresses : wsIpCounts[a] <= Cardinality(Holders(a))

\* Of one address the map never counts more than limits.ws_per_ip.
CountWithinLimit == \A a \in Addresses : wsIpCounts[a] <= Limit

\* A client map holds only clients whose handler is in its command loop: a
\* count that the class limit is compared with never includes the dead.
OnlyLiveRegistered == \A s \in registered : pc[s] = "live"

\* An upgrade is refused for its address only while the server really has as
\* many guards of that address as the limit allows.
RefusalJustified ==
  [][\A s \in Sockets : (pc[s] = "closed" /\ pc'[s] = "refused")
       => Cardinality(Holders(AddressOf[s])) >= Limit]_vars

\* CONFIG_REFERENCE.md: "When the limit is reached, new connections are
\* rejected with HTTP 429": one address is never served more than the limit.
AddressLimitHolds == \A a \in Addresses : Cardinality(Served(a)) <= Limit

\* An address at its limit is not locked out by ghosts: either it gets a slot
\* back, or a socket of it is really being served.
NoGhostLockout ==
  \A a \in Addresses : wsIpCounts[a] >= Limit
                         ~> (wsIpCounts[a] < Limit \/ Served(a) # {})
=============================================================================
