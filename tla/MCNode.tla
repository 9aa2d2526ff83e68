------------------------------- MODULE MCNode -------------------------------
(***************************************************************************)
(* Small nodes. Every fetch is a record of the session it is made over and *)
(* the swiss number it asks for, with a number to tell repeats apart.      *)
(***************************************************************************)
EXTENDS Node, TLC

CONSTANTS s1, s2, r1

AFetch(s, w, n) == [session |-> s, swiss |-> w, n |-> n]

TwoSessions == {s1, s2}
SwissesUsed == {Gateway, "channel"}
TheFetchSession == [f \in Fetches |-> f.session]
TheFetchSwiss == [f \in Fetches |-> f.swiss]
OnePeer == [s \in Sessions |-> "peer"]

(* One fetch that is answered and one that is refused.                     *)
MixedFetches == {AFetch(s1, Gateway, 1), AFetch(s1, "channel", 1)}

(* Two sessions, each with a fetch of the gateway: exchanging the sessions *)
(* exchanges the fetches with them.                                        *)
GatewayFetches == {AFetch(s1, Gateway, 1), AFetch(s2, Gateway, 1)}
Exchange == Permutations(TwoSessions)

(* One fetch of the gateway, over the first session.                       *)
OneFetch == {AFetch(s1, Gateway, 1)}
=============================================================================
