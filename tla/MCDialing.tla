----------------------------- MODULE MCDialing -----------------------------
(***************************************************************************)
(* Three nodes: a and b connect to each other, b to c, and c to a.         *)
(***************************************************************************)
EXTENDS Dialing

CONSTANTS a, b, c

Link(x, y) == [from |-> x, to |-> y]
Links == {Link(a, b), Link(b, a), Link(b, c), Link(c, a)}
LinkFrom == [r \in Requests |-> r.from]
LinkTo == [r \in Requests |-> r.to]
=============================================================================
