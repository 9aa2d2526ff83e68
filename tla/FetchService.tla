---------------------------- MODULE FetchService ----------------------------
(***************************************************************************)
(* What a node promises the peers that fetch objects from it by their      *)
(* swiss numbers: one answer at most, the right one, and never taken back. *)
(* A fetch of something the node has is given that, any other is refused,  *)
(* and either may fail with its session.                                   *)
(***************************************************************************)
CONSTANTS
  Fetches,  \* the fetches the peers may make
  Known     \* those that ask for something the node has

VARIABLE reply   \* what has become of each fetch

Init == reply = [f \in Fetches |-> "none"]

Turn(f, from, to) ==
  /\ reply[f] = from
  /\ reply' = [reply EXCEPT ![f] = to]

Ask(f) == Turn(f, "none", "due")

Give(f) == f \in Known /\ Turn(f, "due", "object")

Refuse(f) == f \notin Known /\ Turn(f, "due", "refusal")

Fail(f) == Turn(f, "due", "failed")

Next == \E f \in Fetches : Ask(f) \/ Give(f) \/ Refuse(f) \/ Fail(f)

Spec == Init /\ [][Next]_reply
=============================================================================
