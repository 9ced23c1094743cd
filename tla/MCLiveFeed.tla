----------------------------- MODULE MCLiveFeed -----------------------------
(* Small instance of LiveFeed: two symbols, one rule that fits the second. *)
EXTENDS LiveFeed

CONSTANT r1

MCRules    == {r1}
MCMatching == {<<r1, 2>>}
=============================================================================
