---------------------------- MODULE ChatManager ----------------------------
(***************************************************************************)
(* ChatManager (manager.rs): the arms of recv_event, the Gateway object    *)
(* (portal.rs) that feeds it portal requests, and end. Two of the arms     *)
(* break out with a ChatEvent, so what the caller does with it belongs to  *)
(* the same step: modules that extend this one conjoin it.                 *)
(***************************************************************************)
EXTENDS Netlayer

CONSTANTS
  Peers,      \* the keys of the people behind the sessions
  PeerOf,     \* who authenticates over a session
  NoSession   \* no portal request is being fulfilled

ASSUME PeerAssumption ==
  /\ PeerOf \in [Sessions -> Peers]
  /\ NoSession \notin Sessions

VARIABLES
  sessions,     \* ChatData.sessions
  hostPortals,  \* the peers ChatManager.portals has a Portal for
  auth,         \* how far the authenticate call over each session has come
  fulfilling    \* the portal request recv_event is suspended in, if any

managerVars == <<sessions, hostPortals, auth, fulfilling>>

AuthStates ==
  {"none", "rejected", "queued", "fulfilling", "granted", "failed", "dropped"}

ManagerTypeOK ==
  /\ sessions \subseteq Sessions
  /\ hostPortals \subseteq Peers
  /\ auth \in [Sessions -> AuthStates]
  /\ fulfilling \in Sessions \cup {NoSession}

ManagerInit ==
  /\ sessions = {}
  /\ hostPortals = {}
  /\ auth = [s \in Sessions |-> "none"]
  /\ fulfilling = NoSession

-----------------------------------------------------------------------------
(* Gateway::authenticate, called over a session that has been given the    *)
(* gateway: a bad signature breaks the promise, a good one is passed on.   *)
HasGateway(s) == \E f \in Fetches :
  FetchSession[f] = s /\ FetchSwiss[f] = Gateway /\ fetch[f] = "answered"

Authenticate(s) ==
  /\ task[s] = "running"
  /\ HasGateway(s)
  /\ auth[s] = "none"
  /\ \/ /\ auth' = [auth EXCEPT ![s] = "rejected"]
        /\ UNCHANGED pipeVars
     \/ /\ Send(PortalRequest(s))
        /\ auth' = [auth EXCEPT ![s] = IF receiving THEN "queued" ELSE "dropped"]
  /\ UNCHANGED <<sessions, hostPortals, fulfilling, netlayerVars, sessionVars>>

-----------------------------------------------------------------------------
(* Mutant of NextEvent: the next event is taken while a reply is pending.  *)
NextEventAlways(e) == Receive(e)

(* Mutant of NextEvent: what has come is taken newest first.               *)
NextEventNewest(e) ==
  /\ fulfilling = NoSession
  /\ pipe # <<>>
  /\ e = pipe[Len(pipe)]
  /\ pipe' = SubSeq(pipe, 1, Len(pipe) - 1)
  /\ UNCHANGED receiving

(* The arms of recv_event. It takes the next event unless it is suspended. *)
NextEvent(e) == fulfilling = NoSession /\ Receive(e)

(* Mutant of RecvFetchEvent: an unrecognized swiss is left unanswered.     *)
RecvFetchSilently(f) ==
  /\ NextEvent(Fetch(FetchSession[f], f))
  /\ fetch' = [fetch EXCEPT ![f] =
                 IF @ = "asked" /\ FetchSwiss[f] = Gateway THEN "resolved" ELSE @]
  /\ UNCHANGED <<task, endFlag, position, registry, exports>>
  /\ UNCHANGED <<managerVars, netlayerVars>>

(* Mutant of RecvFetchEvent: every swiss number is answered.               *)
RecvFetchAny(f) ==
  /\ NextEvent(Fetch(FetchSession[f], f))
  /\ fetch' = [fetch EXCEPT ![f] = IF @ = "asked" THEN "resolved" ELSE @]
  /\ UNCHANGED <<task, endFlag, position, registry, exports>>
  /\ UNCHANGED <<managerVars, netlayerVars>>

(* The gateway answers to its own swiss number. No channel is ever put in  *)
(* ChatData.channels, so every other number is unrecognized. The answer to *)
(* a subtask that has stopped goes nowhere.                                *)
RecvFetchEvent(f) ==
  /\ NextEvent(Fetch(FetchSession[f], f))
  /\ fetch' = [fetch EXCEPT ![f] =
                 IF @ # "asked" THEN @
                 ELSE IF FetchSwiss[f] = Gateway THEN "resolved" ELSE "refused"]
  /\ UNCHANGED <<task, endFlag, position, registry, exports>>
  /\ UNCHANGED <<managerVars, netlayerVars>>

(* Mutant of RecvSessionStarted: the session is handed on but not kept.    *)
RecvStartedForgets(s) ==
  /\ NextEvent(SessionStarted(s))
  /\ UNCHANGED <<managerVars, netlayerVars, sessionVars>>

RecvSessionStarted(s) ==
  /\ NextEvent(SessionStarted(s))
  /\ sessions' = sessions \cup {s}
  /\ UNCHANGED <<hostPortals, auth, fulfilling, netlayerVars, sessionVars>>

(* Mutant of RecvSessionAborted: the session stays in ChatData.sessions.   *)
RecvAbortedKeeps(s) ==
  /\ NextEvent(SessionAborted(s))
  /\ UNCHANGED <<managerVars, netlayerVars, sessionVars>>

RecvSessionAborted(s) ==
  /\ NextEvent(SessionAborted(s))
  /\ sessions' = sessions \ {s}
  /\ UNCHANGED <<hostPortals, auth, fulfilling, netlayerVars, sessionVars>>

(* Export the peer's portal, made on its first request, and start on the   *)
(* reply; recv_event stays suspended in it.                                *)
RecvPortalRequest(s) ==
  /\ NextEvent(PortalRequest(s))
  /\ exports' = [exports EXCEPT ![s] = Append(@, Portal)]
  /\ hostPortals' = hostPortals \cup {PeerOf[s]}
  /\ auth' = [auth EXCEPT ![s] = "fulfilling"]
  /\ fulfilling' = s
  /\ UNCHANGED <<task, endFlag, fetch, position, registry, sessions, netlayerVars>>

FulfillDone(s) ==
  /\ fulfilling = s
  /\ fulfilling' = NoSession
  /\ \E res \in {"granted", "failed"} : auth' = [auth EXCEPT ![s] = res]
  /\ UNCHANGED <<sessions, hostPortals, netlayerVars, sessionVars, pipeVars>>

(* The caller's select! took another branch: the future of recv_event is   *)
(* dropped, and with it the reply it was suspended in.                     *)
DropRecvEvent ==
  /\ fulfilling' = NoSession
  /\ auth' = [s \in Sessions |-> IF s = fulfilling THEN "dropped" ELSE auth[s]]
  /\ UNCHANGED <<sessions, hostPortals>>

-----------------------------------------------------------------------------
(* ChatManager::end takes the manager by value, so no recv_event future is *)
(* left: it raises the flag (subscription_tasks is always empty) ...       *)
End ==
  /\ receiving /\ ~endFlag
  /\ fulfilling = NoSession
  /\ endFlag' = TRUE
  /\ UNCHANGED <<task, fetch, position, registry, exports>>
  /\ UNCHANGED <<managerVars, netlayerVars, pipeVars>>

(* Mutant of DropManager: the resolvers in the pipe are kept alive.        *)
DropManagerOnly ==
  /\ receiving /\ endFlag
  /\ receiving' = FALSE
  /\ UNCHANGED <<pipe, managerVars, netlayerVars, sessionVars>>

(* ... and drops the manager, the receiver and every resolver in the pipe. *)
DropManager ==
  /\ receiving /\ endFlag
  /\ receiving' = FALSE
  /\ pipe' = <<>>
  /\ auth' = [s \in Sessions |-> IF auth[s] = "queued" THEN "dropped" ELSE auth[s]]
  /\ UNCHANGED <<sessions, hostPortals, fulfilling, netlayerVars, sessionVars>>

(* The NetlayerManager goes when its last holder does, the channel tasks'  *)
(* copies included, and its JoinSet aborts the netlayer task.              *)
DropLayers ==
  /\ ~receiving
  /\ netlayer # "gone"
  /\ TaskGone
  /\ UNCHANGED <<managerVars, sessionVars, pipeVars>>

-----------------------------------------------------------------------------
(* An asking subtask is never forgotten: its Fetch is in the pipe, and a   *)
(* Fetch is never in the pipe for a subtask that has its answer.           *)
FetchTracked ==
  \A f \in Fetches :
    LET e == Fetch(FetchSession[f], f) IN
      /\ fetch[f] = "asked" => InPipe(e)
      /\ InPipe(e) => fetch[f] \in {"asked", "cancelled"}

(* A portal request is in the pipe, or being fulfilled, or over: it is     *)
(* fulfilled by one recv_event call at most, and only one at a time.       *)
PortalRequestTracked ==
  \A s \in Sessions :
    /\ auth[s] = "queued" <=> InPipe(PortalRequest(s))
    /\ auth[s] = "fulfilling" <=> fulfilling = s

(* Every event is sent once: none is in the pipe twice.                    *)
Distinct ==
  \A i, j \in 1 .. Len(pipe) : pipe[i] = pipe[j] => i = j

(* The position a peer is given leads, in the export table of its own      *)
(* session, to the object with the swiss number it asked for, however the  *)
(* subtasks of the session raced for the registry.                         *)
LeadsTo(s, pos, w) == pos \in 1 .. Len(exports[s]) /\ exports[s][pos] = w

AnswerMatchesExport ==
  /\ \A f \in Fetches :
       fetch[f] \in {"exported", "fulfilling", "answered"} =>
         LeadsTo(FetchSession[f], position[f], FetchSwiss[f])
  /\ \A s \in Sessions : \A w \in Swisses :
       registry[s][w] # 0 => LeadsTo(s, registry[s][w], w)

(* What the node promises the peers that fetch from it, FetchService: the  *)
(* gateway is all it has, and an object counts only at the right position. *)
Service == INSTANCE FetchService WITH
  Known <- {f \in Fetches : FetchSwiss[f] = Gateway},
  reply <- [f \in Fetches |->
              CASE fetch[f] = "idle" -> "none"
                [] fetch[f] \in Pending -> "due"
                [] fetch[f] = "answered" ->
                     IF LeadsTo(FetchSession[f], position[f], FetchSwiss[f])
                     THEN "object" ELSE "wrong"
                [] fetch[f] = "broken" -> "refusal"
                [] OTHER -> "failed"]

KeepsService == Service!Spec

(* A session has fetches only once it has a task.                          *)
FetchStarted == \A f \in Fetches : fetch[f] # "idle" => task[FetchSession[f]] # "none"
=============================================================================
