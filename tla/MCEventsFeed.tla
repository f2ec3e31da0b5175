---------------------------- MODULE MCEventsFeed ----------------------------
(***************************************************************************)
(* An instance of EventsFeed: every listener has a shard of its own.       *)
(***************************************************************************)
EXTENDS EventsFeed

CONSTANTS a, b, r1, r2, s1

MCListeners == {a, b}
MCReceivers == {r1, r2}
MCShardOrder == <<<<r1, a>>, <<r1, b>>, <<r2, a>>, <<r2, b>>>>
MCSubscribers == {s1}
MCVisitOrder == <<s1>>
=============================================================================
