----------------------------- MODULE Broadcast -----------------------------
(***************************************************************************)
(* What a hosted channel promises its members, whatever becomes of their   *)
(* sessions: each of them gets a run of the host's messages, in the order  *)
(* they were written, with nothing left out and nothing twice. It may      *)
(* start late, as the member joins, and stop early, as the member leaves.  *)
(***************************************************************************)
EXTENDS Naturals, Sequences

CONSTANT Members

VARIABLES
  posted,   \* how many messages the host has posted: they are 1 .. posted
  got       \* what each member has got, oldest first

Init ==
  /\ posted = 0
  /\ got = [m \in Members |-> <<>>]

Post ==
  /\ posted' = posted + 1
  /\ UNCHANGED got

Continues(seq, n) == seq = <<>> \/ n = seq[Len(seq)] + 1

Get(m, n) ==
  /\ n \in 1 .. posted
  /\ Continues(got[m], n)
  /\ got' = [got EXCEPT ![m] = Append(@, n)]
  /\ UNCHANGED posted

Next == Post \/ \E m \in Members : \E n \in 1 .. posted : Get(m, n)

Spec == Init /\ [][Next]_<<posted, got>>
=============================================================================
