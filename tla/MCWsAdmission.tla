--------------------------- MODULE MCWsAdmission ---------------------------
(***************************************************************************)
(* Three sockets of one address, where two are allowed, and one of         *)
(* another address; two of them are of the waterfall class, whose limit is 1.  *)
(***************************************************************************)
EXTENDS WsAdmission

CONSTANTS s1, s2, s3, s4, a1, a2, waterfall, events, chat

MCSockets == {s1, s2, s3, s4}
MCAddresses == {a1, a2}
MCAddressOf == [s \in MCSockets |-> IF s = s4 THEN a2 ELSE a1]
MCClasses == {waterfall, events, chat}
MCClassOf == [s \in MCSockets |->
                IF s \in {s1, s4} THEN waterfall ELSE IF s = s2 THEN events ELSE chat]
MCLimited == {waterfall, events}
MCMovable == {waterfall}
MCMoveMayFail == {waterfall}
MCEvictable == {events}
MCClassLimit == [c \in MCLimited |-> 1]
=============================================================================
