----------------------------- MODULE MCRegistry -----------------------------
(***************************************************************************)
(* Five fetches over one session, on three threads: the fewest with which  *)
(* the threads can run out.                                                *)
(***************************************************************************)
EXTENDS Registry

CONSTANT s1

OneSession == [f \in Fetches |-> s1]
=============================================================================
