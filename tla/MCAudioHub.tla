----------------------------- MODULE MCAudioHub -----------------------------
(***************************************************************************)
(* A client that moves between two running receivers; a third receiver is  *)
(* disabled and its pipeline cannot be built.                              *)
(***************************************************************************)
EXTENDS AudioHub

CONSTANTS c1, hf, vhf, flac

MCClients == {c1}
MCReceivers == {hf, vhf, flac}
MCRunning == {hf, vhf}
MCShards == {1}
MCShardOf == [c \in Clients |-> 1]
=============================================================================
