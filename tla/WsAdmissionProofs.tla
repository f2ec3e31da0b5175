------------------------- MODULE WsAdmissionProofs -------------------------
(***************************************************************************)
(* For every set of sockets and addresses and every limit: the counters of *)
(* ws_ip_counts are always covered by guards that are alive and never pass *)
(* the limit, so a refusal is always justified.  With one slot per address *)
(* the limit is even exact, in spite of the two-step release.              *)
(***************************************************************************)
EXTENDS WsAdmission, FiniteSetTheorems, TLAPS

USE SocketsAssumption, TopologyAssumption, LimitAssumption

\* The effective limit is a positive number.
LEMMA LimitType == Limit \in Nat /\ Limit >= 1
  BY DEF Limit

\* The guards of an address are finitely many.
LEMMA HoldersFinite ==
  ASSUME NEW a
  PROVE  IsFiniteSet(Holders(a)) /\ Cardinality(Holders(a)) \in Nat
<1>1. Holders(a) \subseteq Sockets
  BY DEF Holders
<1>2. QED
  BY <1>1, FS_Subset, FS_CardinalityType

\* A socket that gets a guard is one more holder of its address only.
LEMMA GuardMade ==
  ASSUME TypeOK, NEW s \in Sockets, pc[s] \notin Guarded,
         NEW there \in Guarded, Goto(s, there), NEW a \in Addresses
  PROVE  /\ a = AddressOf[s] => Cardinality(Holders(a)') = Cardinality(Holders(a)) + 1
         /\ a # AddressOf[s] => Holders(a)' = Holders(a)
<1>1. s \notin Holders(a)
  BY DEF Holders
<1>2. CASE a = AddressOf[s]
  <2>1. Holders(a)' = Holders(a) \cup {s}
    BY <1>2 DEF Holders, Goto, TypeOK
  <2>2. Cardinality(Holders(a) \cup {s}) = Cardinality(Holders(a)) + 1
    BY <1>1, HoldersFinite, FS_AddElement
  <2>3. QED
    BY <1>2, <2>1, <2>2
<1>3. CASE a # AddressOf[s]
  BY <1>3 DEF Holders, Goto, TypeOK
<1>4. QED
  BY <1>2, <1>3

\* A socket whose guard is gone is one holder less of its address only.
LEMMA GuardDropped ==
  ASSUME TypeOK, NEW s \in Sockets, pc[s] \in Guarded,
         NEW there, there \notin Guarded, Goto(s, there), NEW a \in Addresses
  PROVE  /\ a = AddressOf[s] => Cardinality(Holders(a)') = Cardinality(Holders(a)) - 1
         /\ a # AddressOf[s] => Holders(a)' = Holders(a)
<1>1. CASE a = AddressOf[s]
  <2>1. s \in Holders(a) /\ Holders(a)' = Holders(a) \ {s}
    BY <1>1 DEF Holders, Goto, TypeOK
  <2>2. Cardinality(Holders(a) \ {s}) = Cardinality(Holders(a)) - 1
    BY <2>1, HoldersFinite, FS_RemoveElement
  <2>3. QED
    BY <1>1, <2>1, <2>2
<1>2. CASE a # AddressOf[s]
  BY <1>2 DEF Holders, Goto, TypeOK
<1>3. QED
  BY <1>1, <1>2

\* A socket that moves on with its guard, or without one, changes no holders.
LEMMA GuardKept ==
  ASSUME TypeOK, NEW s \in Sockets, NEW there,
         pc[s] \in Guarded <=> there \in Guarded, Goto(s, there),
         NEW a \in Addresses
  PROVE  Holders(a)' = Holders(a)
  BY DEF Holders, Goto, TypeOK
-----------------------------------------------------------------------------
\* The inductive invariant: its parts hold together, the covering of the
\* counters being what makes a decrement and a remove harmless.
Admission == TypeOK /\ CountWithinLimit /\ CountCovered

\* The steps that leave the counters alone and keep the guard, or the lack of
\* one, of the socket they move.
Quiet(s) == \/ RefuseAddress(s) \/ Retry(s) \/ RefuseClass(s) \/ Admit(s)
            \/ Handle(s) \/ ReleaseLast(s)

\* What a quiet step does to the state of its socket.
LEMMA QuietStep ==
  ASSUME TypeOK, NEW s \in Sockets, Quiet(s)
  PROVE  /\ wsIpCounts' = wsIpCounts
         /\ registered' \in SUBSET Sockets
         /\ \E there \in PC : /\ Goto(s, there)
                              /\ pc[s] \in Guarded <=> there \in Guarded
<1>1. CASE RefuseAddress(s) \/ Retry(s)
  BY <1>1 DEF RefuseAddress, Retry, TypeOK, PC, Guarded
<1>2. CASE RefuseClass(s) \/ Admit(s) \/ ReleaseLast(s)
  BY <1>2 DEF RefuseClass, Admit, ReleaseLast, TypeOK, PC, Guarded
<1>3. CASE Register(s) \/ Fail(s) \/ MoveOut(s) \/ MoveIn(s)
  BY <1>3 DEF Register, Fail, MoveOut, MoveIn, Entry, TypeOK, PC, Guarded
<1>4. CASE Close(s) \/ FailMove(s)
  BY <1>4 DEF Close, FailMove, Entry, TypeOK, PC, Guarded
<1>5. CASE Evict(s)
  <2>1. Goto(s, "live")
    BY <1>5 DEF Evict, Goto, TypeOK
  <2>2. QED
    BY <1>5, <2>1 DEF Evict, Entry, TypeOK, PC, Guarded
<1>6. QED
  BY <1>1, <1>2, <1>3, <1>4, <1>5 DEF Quiet, Handle

\* Every step keeps the inductive invariant.
LEMMA AdmissionStep == Admission /\ [Next]_vars => Admission'
<1>1. SUFFICES ASSUME Admission, [Next]_vars
               PROVE  Admission'
  OBVIOUS
<1> USE LimitType
<1>2. CASE UNCHANGED vars
  BY <1>1, <1>2 DEF Admission, TypeOK, CountWithinLimit, CountCovered, Holders, vars
<1>3. ASSUME NEW s \in Sockets, Quiet(s)
      PROVE  Admission'
  <2>1. PICK there \in PC : /\ Goto(s, there)
                            /\ pc[s] \in Guarded <=> there \in Guarded
    BY <1>1, <1>3, QuietStep DEF Admission
  <2>2. wsIpCounts' = wsIpCounts /\ registered' \in SUBSET Sockets
    BY <1>1, <1>3, QuietStep DEF Admission
  <2>3. \A a \in Addresses : Holders(a)' = Holders(a)
    BY <1>1, <2>1, GuardKept DEF Admission
  <2>4. TypeOK'
    BY <1>1, <2>1, <2>2 DEF Admission, TypeOK, Goto
  <2>5. CountWithinLimit' /\ CountCovered'
    BY <1>1, <2>2, <2>3 DEF Admission, CountWithinLimit, CountCovered, Limit
  <2>6. QED
    BY <2>4, <2>5 DEF Admission
<1>4. ASSUME NEW s \in Sockets, Acquire(s)
      PROVE  Admission'
  <2>1. TypeOK'
    BY <1>1, <1>4 DEF Admission, TypeOK, Acquire, Goto, PC
  <2>2. CountWithinLimit'
    BY <1>1, <1>4 DEF Admission, TypeOK, CountWithinLimit, Acquire, Limit
  <2>3. ASSUME NEW a \in Addresses
        PROVE  wsIpCounts'[a] <= Cardinality(Holders(a)')
    <3>1. /\ a = AddressOf[s] => Cardinality(Holders(a)') = Cardinality(Holders(a)) + 1
          /\ a # AddressOf[s] => Holders(a)' = Holders(a)
      BY <1>1, <1>4, GuardMade DEF Admission, Acquire, Guarded
    <3>2. wsIpCounts[a] <= Cardinality(Holders(a))
      BY <1>1 DEF Admission, CountCovered
    <3>3. QED
      BY <1>1, <1>4, <3>1, <3>2, HoldersFinite DEF Admission, TypeOK, Acquire
  <2>4. QED
    BY <2>1, <2>2, <2>3 DEF Admission, CountCovered
<1>5. ASSUME NEW s \in Sockets, ReleaseOne(s) \/ ReleaseRemove(s)
      PROVE  Admission'
  <2>1. TypeOK'
    BY <1>1, <1>5 DEF Admission, TypeOK, ReleaseOne, ReleaseRemove, Goto, PC
  <2>2. CountWithinLimit'
    BY <1>1, <1>5 DEF Admission, TypeOK, CountWithinLimit, ReleaseOne,
                      ReleaseRemove, Limit
  <2>3. ASSUME NEW a \in Addresses
        PROVE  wsIpCounts'[a] <= Cardinality(Holders(a)')
    <3>1. /\ a = AddressOf[s] => Cardinality(Holders(a)') = Cardinality(Holders(a)) - 1
          /\ a # AddressOf[s] => Holders(a)' = Holders(a)
      BY <1>1, <1>5, GuardDropped DEF Admission, ReleaseOne, ReleaseRemove, Guarded
    <3>2. wsIpCounts[a] <= Cardinality(Holders(a))
      BY <1>1 DEF Admission, CountCovered
    <3>3. Cardinality(Holders(a)') \in Nat
      <4>1. Holders(a)' \subseteq Sockets
        BY DEF Holders
      <4>2. QED
        BY <4>1, FS_Subset, FS_CardinalityType
    <3>4. QED
      BY <1>1, <1>5, <3>1, <3>2, <3>3, HoldersFinite
         DEF Admission, TypeOK, ReleaseOne, ReleaseRemove
  <2>4. QED
    BY <2>1, <2>2, <2>3 DEF Admission, CountCovered
<1>6. QED
  BY <1>1, <1>2, <1>3, <1>4, <1>5 DEF Next, Upgrade, Handle, Release, Quiet
-----------------------------------------------------------------------------
\* Initially no counter and no guard exists.
LEMMA AdmissionInit == Init => Admission
<1>1. ASSUME Init
      PROVE  Admission
  <2>1. TypeOK
    BY <1>1 DEF Init, TypeOK, PC
  <2>2. CountWithinLimit
    BY <1>1, LimitType DEF Init, CountWithinLimit
  <2>3. CountCovered
    BY <1>1, HoldersFinite DEF Init, CountCovered
  <2>4. QED
    BY <2>1, <2>2, <2>3 DEF Admission
<1>2. QED
  BY <1>1

LEMMA AdmissionInvariant == Spec => []Admission
  BY AdmissionInit, AdmissionStep, PTL DEF Spec

\* No counter underflows and every handler is in one of its states.
THEOREM TypeCorrect == Spec => []TypeOK
<1>1. Admission => TypeOK
  BY DEF Admission
<1>2. QED
  BY <1>1, AdmissionInvariant, PTL

\* However releases and upgrades interleave, no slot of an address leaks.
THEOREM NoSlotLeaks == Spec => []CountCovered
<1>1. Admission => CountCovered
  BY DEF Admission
<1>2. QED
  BY <1>1, AdmissionInvariant, PTL

\* The map itself never counts more than limits.ws_per_ip.
THEOREM CountsBounded == Spec => []CountWithinLimit
<1>1. Admission => CountWithinLimit
  BY DEF Admission
<1>2. QED
  BY <1>1, AdmissionInvariant, PTL

\* A 429 for the address is sent only at the limit.
THEOREM RefusalsJustified == Spec => RefusalJustified
<1>1. ASSUME Admission, [Next]_vars
      PROVE  [\A s \in Sockets : (pc[s] = "closed" /\ pc'[s] = "refused")
                => Cardinality(Holders(AddressOf[s])) >= Limit]_vars
  <2>1. SUFFICES ASSUME Next, NEW s \in Sockets,
                        pc[s] = "closed", pc'[s] = "refused"
                 PROVE  Cardinality(Holders(AddressOf[s])) >= Limit
    BY <1>1 DEF vars
  <2>2. PICK t \in Sockets : Upgrade(t) \/ Handle(t) \/ Release(t)
    BY <2>1 DEF Next
  <2>3. RefuseAddress(s)
    BY <1>1, <2>1, <2>2
       DEF Admission, TypeOK, Goto, Upgrade, Handle, Release, Acquire, RefuseAddress,
           Retry, RefuseClass, Admit, Register, Fail, MoveOut, MoveIn, Evict,
           Close, FailMove, ReleaseOne, ReleaseLast, ReleaseRemove
  <2>4. wsIpCounts[AddressOf[s]] >= Limit
    BY <2>3 DEF RefuseAddress
  <2>5. QED
    BY <1>1, <2>1, <2>4, LimitType, HoldersFinite
       DEF Admission, TypeOK, CountCovered
<1>2. QED
  BY <1>1, AdmissionInvariant, PTL DEF Spec, RefusalJustified
-----------------------------------------------------------------------------
(* With one slot per address the two-step release cannot lose a count: the *)
(* socket between its get_mut and its remove is the only holder.           *)

CountExact == \A a \in Addresses : wsIpCounts[a] = Cardinality(Holders(a))

LEMMA ExactStep ==
  ASSUME Limit = 1, Admission, CountExact, [Next]_vars
  PROVE  CountExact'
<1>1. CASE UNCHANGED vars
  BY <1>1 DEF CountExact, Holders, vars
<1>2. ASSUME NEW s \in Sockets, Quiet(s)
      PROVE  CountExact'
  <2>1. \A a \in Addresses : Holders(a)' = Holders(a)
    BY <1>2, QuietStep, GuardKept DEF Admission
  <2>2. QED
    BY <1>2, <2>1, QuietStep DEF Admission, CountExact
<1>3. ASSUME NEW s \in Sockets, Acquire(s)
      PROVE  CountExact'
  <2>1. ASSUME NEW a \in Addresses
        PROVE  wsIpCounts'[a] = Cardinality(Holders(a)')
    <3>1. /\ a = AddressOf[s] => Cardinality(Holders(a)') = Cardinality(Holders(a)) + 1
          /\ a # AddressOf[s] => Holders(a)' = Holders(a)
      BY <1>3, GuardMade DEF Admission, Acquire, Guarded
    <3>2. QED
      BY <1>3, <3>1 DEF Admission, TypeOK, CountExact, Acquire
  <2>2. QED
    BY <2>1 DEF CountExact
<1>4. ASSUME NEW s \in Sockets, ReleaseOne(s)
      PROVE  FALSE
  BY <1>4 DEF ReleaseOne, Admission, TypeOK, CountWithinLimit
<1>5. ASSUME NEW s \in Sockets, ReleaseRemove(s)
      PROVE  CountExact'
  <2>1. ASSUME NEW a \in Addresses
        PROVE  wsIpCounts'[a] = Cardinality(Holders(a)')
    <3>1. /\ a = AddressOf[s] => Cardinality(Holders(a)') = Cardinality(Holders(a)) - 1
          /\ a # AddressOf[s] => Holders(a)' = Holders(a)
      BY <1>5, GuardDropped DEF Admission, ReleaseRemove, Guarded
    <3>2. CASE a # AddressOf[s]
      BY <1>5, <3>1, <3>2 DEF Admission, TypeOK, CountExact, ReleaseRemove
    <3>3. CASE a = AddressOf[s]
      <4>1. s \in Holders(a)
        BY <1>5, <3>3 DEF Holders, ReleaseRemove, Guarded
      <4>2. Cardinality(Holders(a)) # 0
        BY <4>1, HoldersFinite, FS_EmptySet
      <4>3. Cardinality(Holders(a)) = 1
        BY <4>2, HoldersFinite DEF Admission, CountExact, CountWithinLimit
      <4>4. QED
        BY <1>5, <3>1, <3>3, <4>3 DEF Admission, TypeOK, ReleaseRemove
    <3>4. QED
      BY <3>2, <3>3
  <2>2. QED
    BY <2>1 DEF CountExact
<1>6. QED
  BY <1>1, <1>2, <1>3, <1>4, <1>5 DEF Next, Upgrade, Handle, Release, Quiet

\* With limits.ws_per_ip of 0 or 1 an address is never served twice at once:
\* the release race needs a limit of at least 2.
THEOREM SingleSlotExact ==
  ASSUME WsPerIp <= 1
  PROVE  Spec => []AddressLimitHolds
<1>1. Limit = 1
  BY DEF Limit
<1>2. Init => CountExact
  <2>1. ASSUME Init, NEW a \in Addresses
        PROVE  wsIpCounts[a] = Cardinality(Holders(a))
    <3>1. Holders(a) = {}
      BY <2>1 DEF Init, Holders, Guarded
    <3>2. QED
      BY <2>1, <3>1, FS_EmptySet DEF Init
  <2>2. QED
    BY <2>1 DEF CountExact
<1>3. Admission /\ CountExact /\ [Next]_vars => CountExact'
  BY <1>1, ExactStep
<1>4. Admission /\ CountExact => AddressLimitHolds
  <2>1. ASSUME Admission, CountExact, NEW a \in Addresses
        PROVE  Cardinality(Served(a)) <= Limit
    <3>1. Served(a) \subseteq Holders(a)
      BY DEF Served, Holders, Guarded
    <3>2. Cardinality(Served(a)) <= Cardinality(Holders(a))
      BY <3>1, HoldersFinite, FS_Subset
    <3>3. Cardinality(Served(a)) \in Nat
      BY <3>1, HoldersFinite, FS_Subset, FS_CardinalityType
    <3>4. QED
      BY <2>1, <3>2, <3>3, LimitType, HoldersFinite
         DEF Admission, CountExact, CountWithinLimit
  <2>2. QED
    BY <2>1 DEF AddressLimitHolds
<1>5. QED
  BY <1>2, <1>3, <1>4, AdmissionInvariant, PTL DEF Spec
-----------------------------------------------------------------------------
(* The maps a class limit is compared with. *)

\* A client is in such a map only if its class has a limit, so that the one
\* entry its handler removes is all there is of it.
RegisteredLive ==
  /\ OnlyLiveRegistered
  /\ \A s \in registered : ClassOf[s] \in Limited

\* The entry comes with the command loop and goes with it.
LEMMA RegisteredStep ==
  ASSUME TypeOK, RegisteredLive, [Next]_vars
  PROVE  RegisteredLive'
<1> USE DEF TypeOK, RegisteredLive, OnlyLiveRegistered, Goto
<1>1. CASE UNCHANGED vars
  BY <1>1 DEF vars
<1>2. ASSUME NEW s \in Sockets, Upgrade(s)
      PROVE  RegisteredLive'
  BY <1>2 DEF Upgrade, Acquire, RefuseAddress, Retry, RefuseClass, Admit
<1>3. ASSUME NEW s \in Sockets, Register(s) \/ MoveIn(s)
      PROVE  RegisteredLive'
  BY <1>3 DEF Register, MoveIn, Entry
<1>4. ASSUME NEW s \in Sockets, MoveOut(s) \/ Close(s) \/ Evict(s)
      PROVE  RegisteredLive'
  BY <1>4 DEF MoveOut, Close, Evict, Entry
<1>5. ASSUME NEW s \in Sockets, Fail(s) \/ FailMove(s) \/ Release(s)
      PROVE  RegisteredLive'
  BY <1>5 DEF Fail, FailMove, Release, ReleaseOne, ReleaseLast, ReleaseRemove
<1>6. QED
  BY <1>1, <1>2, <1>3, <1>4, <1>5 DEF Next, Handle

\* Whatever fails, moves or is evicted, no client stays in a map whose size
\* decides on the admission of others after its handler has ended.
THEOREM NoDeadClientCounted == Spec => []OnlyLiveRegistered
<1>1. Init => RegisteredLive
  BY DEF Init, RegisteredLive, OnlyLiveRegistered
<1>2. RegisteredLive => OnlyLiveRegistered
  BY DEF RegisteredLive
<1>3. QED
  BY <1>1, <1>2, RegisteredStep, TypeCorrect, PTL DEF Spec
=============================================================================
