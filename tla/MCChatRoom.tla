----------------------------- MODULE MCChatRoom -----------------------------
(***************************************************************************)
(* Two clients in two shards.                                              *)
(***************************************************************************)
EXTENDS ChatRoom

CONSTANTS c1, c2

MCClients == {c1, c2}
MCShardOf == [c \in MCClients |-> IF c = c1 THEN 1 ELSE 2]
=============================================================================
