--------------------------- MODULE MCWaterfallHub ---------------------------
(***************************************************************************)
(* Two clients in one shard, a receiver with two levels and one with a     *)
(* single level (so that a level of one is no level of the other), which is *)
(* disabled: clients can select it, but nothing sends its frames.          *)
(***************************************************************************)
EXTENDS WaterfallHub, TLC

CONSTANTS c1, c2, hf, vhf

MCClients == {c1, c2}
MCReceivers == {hf, vhf}
MCLevels == (hf :> 2) @@ (vhf :> 1)
MCRunning == {hf}
MCShards == {1}
MCShardOf == [c \in MCClients |-> 1]
MCSymmetry == Permutations(MCClients)
=============================================================================
