----------------------------- MODULE MCShutdown -----------------------------
(***************************************************************************)
(* One session, with two fetches of the gateway, which race for its entry  *)
(* in the registry, and two connect requests.                              *)
(***************************************************************************)
EXTENDS Shutdown

CONSTANTS s1, r1, r2, f1, f2

TheFetchSession == [f \in Fetches |-> s1]
TheFetchSwiss == [f \in Fetches |-> Gateway]
OnePeer == [s \in Sessions |-> "peer"]
=============================================================================
