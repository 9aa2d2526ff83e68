----------------------------- MODULE EventPipe -----------------------------
(***************************************************************************)
(* The unbounded mpsc channel of NetworkEvents (event.rs, lib.rs) that     *)
(* every part of a node writes to and ChatManager::recv_event reads from.  *)
(*                                                                         *)
(* A session is named by its remote_vkey: the session keys are made fresh  *)
(* for each connection, and every map of the source that speaks of a       *)
(* session is keyed by that key.                                           *)
(***************************************************************************)
EXTENDS Naturals, Sequences

CONSTANTS
  Sessions,   \* the CapTP sessions a node may ever have, by remote_vkey
  Fetches,    \* the bootstrap fetches the remote peers may ever make
  NoFetch     \* the payload of an event that is about no fetch

ASSUME NoFetchAssumption == NoFetch \notin Fetches

VARIABLES
  pipe,       \* the events sent and not yet received, oldest first
  receiving   \* whether the receiving half still exists

pipeVars == <<pipe, receiving>>

EventKinds == {"SessionStarted", "SessionAborted", "Fetch", "PortalRequest"}

NetworkEvent ==
  [kind : EventKinds, session : Sessions, fetch : Fetches \cup {NoFetch}]

SessionStarted(s) == [kind |-> "SessionStarted", session |-> s, fetch |-> NoFetch]
SessionAborted(s) == [kind |-> "SessionAborted", session |-> s, fetch |-> NoFetch]
PortalRequest(s)  == [kind |-> "PortalRequest",  session |-> s, fetch |-> NoFetch]
Fetch(s, f)       == [kind |-> "Fetch",          session |-> s, fetch |-> f]

PipeTypeOK == pipe \in Seq(NetworkEvent) /\ receiving \in BOOLEAN

PipeInit == pipe = <<>> /\ receiving = TRUE

(* UnboundedSender::send: it never waits, and fails (changing nothing)     *)
(* once the receiver is gone.                                              *)
Send(e) ==
  /\ pipe' = IF receiving THEN Append(pipe, e) ELSE pipe
  /\ UNCHANGED receiving

(* UnboundedReceiver::recv, when an event is there to be had.              *)
Receive(e) ==
  /\ pipe # <<>>
  /\ e = Head(pipe)
  /\ pipe' = Tail(pipe)
  /\ UNCHANGED receiving

InPipe(e) == \E i \in 1 .. Len(pipe) : pipe[i] = e
=============================================================================
