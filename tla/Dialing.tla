------------------------------ MODULE Dialing ------------------------------
(***************************************************************************)
(* The manage_netlayer tasks (netlayer.rs) of several nodes that connect   *)
(* to each other. Netlayer has one of them among the tasks of its node;    *)
(* here it is what passes between them.                                    *)
(*                                                                         *)
(* accept and connect return once the other side has sent its greeting. A  *)
(* node that is in its connect arm accepts nobody, and one that leaves its *)
(* select! for that arm drops the accept it was in the middle of.          *)
(***************************************************************************)
EXTENDS Naturals, Sequences, FiniteSets

CONSTANTS
  Nodes,
  Requests,   \* the connections the nodes may ever be asked for, once each
  From, To,   \* the node that is asked, and the one it is to connect to
  Stranger,   \* a connection from outside, which may stay silent
  Nobody      \* no connection is being accepted

ASSUME DialingAssumption ==
  /\ From \in [Requests -> Nodes]
  /\ To \in [Requests -> Nodes]
  /\ Stranger # Nobody
  /\ {Stranger, Nobody} \cap Requests = {}

VARIABLES
  netlayer,   \* where each node's manage_netlayer stands
  queue,      \* its connect_reqs, oldest first
  accepting,  \* the connection its accept is in the middle of
  request     \* what has become of each request

vars == <<netlayer, queue, accepting, request>>

(* A request that is taken has its connection wait in the backlog of the   *)
(* listener, is being greeted, has been, or was closed by the other side.  *)
Dialled == {"backlog", "greeting", "greeted", "closed"}
Waiting == {"queued"} \cup Dialled

DialingTypeOK ==
  /\ netlayer \in [Nodes -> {"selecting", "connecting", "gone"}]
  /\ queue \in [Nodes -> Seq(Requests)]
  /\ accepting \in [Nodes -> Requests \cup {Stranger, Nobody}]
  /\ request \in [Requests -> Waiting \cup {"none", "connected", "failed", "dropped"}]

Init ==
  /\ netlayer = [n \in Nodes |-> "selecting"]
  /\ queue = [n \in Nodes |-> <<>>]
  /\ accepting = [n \in Nodes |-> Nobody]
  /\ request = [r \in Requests |-> "none"]

Dials(n, r) == From[r] = n /\ request[r] \in Dialled

-----------------------------------------------------------------------------
(* request_connect: an error at once if the task has gone.                 *)
RequestConnect(r) ==
  /\ request[r] = "none"
  /\ IF netlayer[From[r]] = "gone"
     THEN /\ request' = [request EXCEPT ![r] = "dropped"]
          /\ UNCHANGED queue
     ELSE /\ request' = [request EXCEPT ![r] = "queued"]
          /\ queue' = [queue EXCEPT ![From[r]] = Append(@, r)]
  /\ UNCHANGED <<netlayer, accepting>>

(* Mutant of LetGo: the accept is put aside, and its connection kept open. *)
LetGoQuietly(n, r) == request[r]

(* The connection of r as node n drops its accept.                         *)
LetGo(n, r) ==
  IF accepting[n] = r /\ request[r] = "greeting" THEN "closed" ELSE request[r]

(* The arm of connect_reqs: select! drops the accept, and connect begins.  *)
TakeRequest(n) ==
  /\ netlayer[n] = "selecting"
  /\ queue[n] # <<>>
  /\ netlayer' = [netlayer EXCEPT ![n] = "connecting"]
  /\ queue' = [queue EXCEPT ![n] = Tail(@)]
  /\ accepting' = [accepting EXCEPT ![n] = Nobody]
  /\ request' = [r \in Requests |->
                   IF r # Head(queue[n]) THEN LetGo(n, r)
                   ELSE IF netlayer[To[r]] = "gone" THEN "closed" ELSE "backlog"]

(* The arm of accept takes a connection off the backlog ...                *)
AcceptBegins(n) ==
  /\ netlayer[n] = "selecting"
  /\ accepting[n] = Nobody
  /\ \E r \in Requests :
       /\ To[r] = n
       /\ request[r] = "backlog"
       /\ request' = [request EXCEPT ![r] = "greeting"]
       /\ accepting' = [accepting EXCEPT ![n] = r]
  /\ UNCHANGED <<netlayer, queue>>

StrangerComes(n) ==
  /\ netlayer[n] = "selecting"
  /\ accepting[n] = Nobody
  /\ accepting' = [accepting EXCEPT ![n] = Stranger]
  /\ UNCHANGED <<netlayer, queue, request>>

(* ... and returns when it has been greeted. The other side may have had   *)
(* its greeting by then. The session is announced, its task is spawned.    *)
AcceptOk(n) ==
  /\ accepting[n] # Nobody
  /\ accepting' = [accepting EXCEPT ![n] = Nobody]
  /\ request' = [r \in Requests |->
                   IF accepting[n] = r /\ request[r] = "greeting" THEN "greeted"
                   ELSE request[r]]
  /\ UNCHANGED <<netlayer, queue>>

ConnectOk(r) ==
  /\ request[r] \in {"greeting", "greeted"}
  /\ request' = [request EXCEPT ![r] = "connected"]
  /\ netlayer' = [netlayer EXCEPT ![From[r]] = "selecting"]
  /\ UNCHANGED <<queue, accepting>>

(* Mutant of ConnectError: the request is answered, the arm not left.      *)
ConnectErrorStays(r) ==
  /\ request[r] \in Dialled
  /\ request' = [request EXCEPT ![r] = "failed"]
  /\ UNCHANGED <<netlayer, queue, accepting>>

(* The connection fails, as it must if the other side has closed it.       *)
ConnectError(r) ==
  /\ request[r] \in Dialled
  /\ request' = [request EXCEPT ![r] = "failed"]
  /\ netlayer' = [netlayer EXCEPT ![From[r]] = "selecting"]
  /\ UNCHANGED <<queue, accepting>>

(* Mutant of Gone: the listener stays open.                                *)
GoneDeaf(n) ==
  /\ netlayer' = [netlayer EXCEPT ![n] = "gone"]
  /\ queue' = [queue EXCEPT ![n] = <<>>]
  /\ accepting' = [accepting EXCEPT ![n] = Nobody]
  /\ request' = [r \in Requests |->
                   IF From[r] = n /\ request[r] \in Waiting THEN "dropped" ELSE LetGo(n, r)]

(* The task returns: the requests that it was asked and has not answered   *)
(* are dropped, and the listener is closed with all that waits at it.      *)
Gone(n) ==
  /\ netlayer' = [netlayer EXCEPT ![n] = "gone"]
  /\ queue' = [queue EXCEPT ![n] = <<>>]
  /\ accepting' = [accepting EXCEPT ![n] = Nobody]
  /\ request' = [r \in Requests |->
                   IF From[r] = n /\ request[r] \in Waiting THEN "dropped"
                   ELSE IF To[r] = n /\ request[r] = "backlog" THEN "closed"
                   ELSE LetGo(n, r)]

(* accept fails, as it may when the other side fails: `session?`.          *)
AcceptError(n) == accepting[n] # Nobody /\ Gone(n)

(* The process ends.                                                       *)
Die(n) == netlayer[n] # "gone" /\ Gone(n)

-----------------------------------------------------------------------------
AcceptEnds(n) == AcceptOk(n) \/ AcceptError(n)

(* The greeting has come, or the connection has been closed.               *)
ConnectEnds(r) ==
  ConnectOk(r) \/ (request[r] \in {"greeting", "greeted", "closed"} /\ ConnectError(r))

Next ==
  \/ \E r \in Requests : RequestConnect(r) \/ ConnectOk(r) \/ ConnectError(r)
  \/ \E n \in Nodes :
       TakeRequest(n) \/ AcceptBegins(n) \/ StrangerComes(n) \/ AcceptEnds(n) \/ Die(n)

Spec == Init /\ [][Next]_vars

(* A task that can go on does, and what a node sends arrives. A stranger   *)
(* may stay silent. The backlog is served in order: that strangers come    *)
(* again and again does not keep a connection in it for ever.              *)
FairSpec ==
  /\ Spec
  /\ \A n \in Nodes :
       /\ WF_vars(TakeRequest(n))
       /\ SF_vars(AcceptBegins(n))
       /\ WF_vars(accepting[n] # Stranger /\ AcceptEnds(n))
  /\ \A r \in Requests : WF_vars(ConnectEnds(r))

-----------------------------------------------------------------------------
(* A connection that is being greeted is the one its target accepts, and a *)
(* node accepts only at its select!: no connection is left open that       *)
(* nobody will ever greet.                                                 *)
GreetingHeld ==
  /\ \A r \in Requests : request[r] = "greeting" => accepting[To[r]] = r
  /\ \A n \in Nodes : accepting[n] # Nobody => netlayer[n] = "selecting"

(* A node that is gone keeps nobody waiting: neither those that asked it   *)
(* for a connection nor the nodes that connect to it.                      *)
GoneLetsGo ==
  \A r \in Requests :
    /\ netlayer[From[r]] = "gone" => request[r] \notin Waiting
    /\ netlayer[To[r]] = "gone" => request[r] \notin {"backlog", "greeting"}

(* A node is in its connect arm for one request at a time, and its queue   *)
(* has the others it was asked.                                            *)
OneDial ==
  /\ \A n \in Nodes :
       netlayer[n] = "connecting" <=> \E r \in Requests : Dials(n, r)
  /\ \A q, r \in Requests :
       Dials(From[q], q) /\ Dials(From[q], r) => q = r
  /\ \A r \in Requests :
       request[r] = "queued" <=> \E i \in 1 .. Len(queue[From[r]]) : queue[From[r]][i] = r

TypeOK == DialingTypeOK /\ OneDial

(* Nodes that wait in a circle, each in the backlog of the next.           *)
Circle ==
  \E ring \in (SUBSET Nodes) \ {{}} :
    \A n \in ring : \E r \in Requests :
      From[r] = n /\ To[r] \in ring /\ request[r] = "backlog"

(* No node has a step of its own left: it has no connection to end or to   *)
(* begin, and none waits for it but behind a stranger.                     *)
Standstill ==
  /\ \A n \in Nodes : accepting[n] \in {Nobody, Stranger}
  /\ \A n \in Nodes : netlayer[n] = "selecting" => queue[n] = <<>>
  /\ \A r \in Requests : request[r] \notin {"greeting", "greeted", "closed"}
  /\ \A r \in Requests :
       request[r] = "backlog" /\ netlayer[To[r]] = "selecting" => accepting[To[r]] # Nobody

(* If the nodes stand still and a request is not answered, some of them    *)
(* wait for each other in a circle, or behind a stranger that is silent.   *)
HeldByCircle ==
  Standstill /\ (\E r \in Requests : request[r] \in Waiting)
    => Circle \/ \E r \in Requests : request[r] = "backlog" /\ accepting[To[r]] = Stranger

NoSilence == \A n \in Nodes : []<>(accepting[n] # Stranger)

(* Every request is answered, unless nodes come to connect to each other   *)
(* in a circle or a stranger stays silent.                                 *)
Answered ==
  []~Circle /\ NoSilence =>
    \A r \in Requests : request[r] = "queued" ~> request[r] \notin Waiting
=============================================================================
