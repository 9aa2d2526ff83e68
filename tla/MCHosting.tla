----------------------------- MODULE MCHosting -----------------------------
(***************************************************************************)
(* A channel with two members: one that comes twice and talks, and one     *)
(* that listens and introduces a peer.                                     *)
(***************************************************************************)
EXTENDS Hosting

CONSTANTS talker, listener

Pair == {talker, listener}
Twice == [m \in Members |-> IF m = talker THEN 2 ELSE 1]
TalkerOnly == [m \in Members |-> IF m = talker THEN 2 ELSE 0]
=============================================================================
