--------------------------- MODULE MCChannelView ---------------------------
(***************************************************************************)
(* A channel with one member, which talks and introduces a peer, and the   *)
(* view of it.                                                             *)
(***************************************************************************)
EXTENDS ChannelView

CONSTANT talker

Once == [m \in Members |-> 1]
=============================================================================
