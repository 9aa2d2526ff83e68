---------------------------- MODULE MCDiscovery ----------------------------
(***************************************************************************)
(* A node with two listen addresses, and one or two services of others.    *)
(***************************************************************************)
EXTENDS Discovery

Service(name, key, usable) == [name |-> name, key |-> key, usable |-> usable]

Named == [a \in Listen |-> a]

(* A node with two services, and one that cannot be reached.               *)
Neighbours ==
  {Service("n1", "p1", TRUE), Service("n2", "p1", TRUE), Service("n3", "p2", FALSE)}

(* One node that is heard of under two names, with its two ports or before *)
(* and after a restart.                                                    *)
OneNode == {Service("n1", "p1", TRUE), Service("n2", "p1", TRUE)}
=============================================================================
