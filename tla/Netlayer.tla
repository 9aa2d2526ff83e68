------------------------------ MODULE Netlayer ------------------------------
(***************************************************************************)
(* The NetlayerManager and the manage_netlayer task of the one transport   *)
(* the program registers (netlayer.rs). The task does one thing at a time: *)
(* it selects between accepting, connecting and the end flag, and a        *)
(* connection is awaited inside the arm that asked for it.                 *)
(***************************************************************************)
EXTENDS Session

CONSTANTS
  Requests,   \* the connect requests a node may ever make
  Routable    \* those whose locator names the registered transport

ASSUME RoutableAssumption == Routable \subseteq Requests

VARIABLES
  netlayer,   \* where the manage_netlayer task stands
  queue,      \* its connect_reqs, oldest first
  request     \* what has become of each request

netlayerVars == <<netlayer, queue, request>>

Waiting == {"queued", "connecting"}
RequestStates ==
  Waiting \cup {"none", "rejected", "connected", "failed", "dropped"}

NetlayerTypeOK ==
  /\ netlayer \in {"running", "stopping", "gone"}
  /\ queue \in Seq(Requests)
  /\ request \in [Requests -> RequestStates]

NetlayerInit ==
  /\ netlayer = "running"
  /\ queue = <<>>
  /\ request = [r \in Requests |-> "none"]

(* The task is at its select!.                                             *)
Connecting == \E r \in Requests : request[r] = "connecting"
Selecting == netlayer = "running" /\ ~Connecting

-----------------------------------------------------------------------------
(* NetlayerManager::request_connect: an error at once when the transport   *)
(* is unknown or its task has gone, else one more request in the queue.    *)
RequestConnect(r) ==
  /\ request[r] = "none"
  /\ \/ /\ r \in Routable /\ netlayer # "gone"
        /\ queue' = Append(queue, r)
        /\ request' = [request EXCEPT ![r] = "queued"]
     \/ /\ ~(r \in Routable /\ netlayer # "gone")
        /\ request' = [request EXCEPT ![r] = "rejected"]
        /\ UNCHANGED queue
  /\ UNCHANGED <<netlayer, sessionVars, pipeVars>>

Accept(s) ==
  /\ Selecting
  /\ StartSession(s)
  /\ UNCHANGED netlayerVars

TakeRequest ==
  /\ Selecting
  /\ queue # <<>>
  /\ request' = [request EXCEPT ![Head(queue)] = "connecting"]
  /\ queue' = Tail(queue)
  /\ UNCHANGED <<netlayer, sessionVars, pipeVars>>

ConnectOk(r, s) ==
  /\ request[r] = "connecting"
  /\ request' = [request EXCEPT ![r] = "connected"]
  /\ StartSession(s)
  /\ UNCHANGED <<netlayer, queue>>

ConnectError(r) ==
  /\ request[r] = "connecting"
  /\ request' = [request EXCEPT ![r] = "failed"]
  /\ UNCHANGED <<netlayer, queue, sessionVars, pipeVars>>

(* Mutant of TaskGone: the requests outlive the task.                      *)
TaskGoneSilently ==
  /\ netlayer' = "gone"
  /\ UNCHANGED <<queue, request>>

(* The task is over: what it was asked and has not answered is dropped,    *)
(* and the JoinSet of session tasks with it.                               *)
TaskGone ==
  /\ netlayer' = "gone"
  /\ queue' = <<>>
  /\ request' = [r \in Requests |->
                   IF request[r] \in Waiting THEN "dropped" ELSE request[r]]

(* accept() fails, for whatever reason: `session?` ends the whole task.    *)
AcceptError ==
  /\ Selecting
  /\ TaskGone
  /\ UNCHANGED <<sessionVars, pipeVars>>

(* Mutant of SeeEnd: the flag is looked at only when there is a request.   *)
SeeEndLate ==
  /\ Selecting
  /\ endFlag
  /\ queue # <<>>
  /\ netlayer' = "stopping"
  /\ UNCHANGED <<queue, request, sessionVars, pipeVars>>

(* The end flag: break, abort all the session tasks, join them, return.    *)
SeeEnd ==
  /\ Selecting
  /\ endFlag
  /\ netlayer' = "stopping"
  /\ UNCHANGED <<queue, request, sessionVars, pipeVars>>

Return ==
  /\ netlayer = "stopping"
  /\ \A s \in Sessions : task[s] # "running"
  /\ TaskGone
  /\ UNCHANGED <<sessionVars, pipeVars>>

(* An aborted session task stops at its next await, saying nothing.        *)
CancelSession(s) ==
  /\ netlayer # "running"
  /\ LeaveLoop(s, "cancelled")
  /\ UNCHANGED <<netlayerVars, pipeVars>>

-----------------------------------------------------------------------------
(* A request whose netlayer has returned has had its answer, and one still *)
(* in the queue is waiting there: request_connect's future never hangs on  *)
(* a task that is gone.                                                    *)
RequestsTracked ==
  /\ netlayer = "gone" => \A r \in Requests : request[r] \notin Waiting
  /\ \A r \in Requests :
       request[r] = "queued" <=> \E i \in 1 .. Len(queue) : queue[i] = r
=============================================================================
