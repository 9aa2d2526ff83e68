------------------------------ MODULE Session ------------------------------
(***************************************************************************)
(* manage_session (session.rs): the task that drives one CapTP session,    *)
(* with the respond_to_fetch subtasks it spawns. Tasks run on several      *)
(* threads: an action is a stretch of one task in which no other task can  *)
(* see or change what it works on.                                         *)
(***************************************************************************)
EXTENDS EventPipe

CONSTANTS
  FetchSession,   \* the session over which a fetch is made
  FetchSwiss,     \* the swiss number it asks for
  Swisses         \* the swiss numbers peers may ask for

Gateway == "gateway"       \* GATEWAY_SWISS, and the object behind it

ASSUME FetchAssumption ==
  /\ FetchSession \in [Fetches -> Sessions]
  /\ FetchSwiss \in [Fetches -> Swisses]
  /\ Gateway \in Swisses

VARIABLES
  task,       \* where each session's manage_session task stands
  endFlag,    \* the watch channel of ChatManager::end
  fetch,      \* where each fetch, with its respond_to_fetch subtask, stands
  position,   \* the export position a fetch is answered with, 0 for none
  registry,   \* manage_session's map from a swiss number to a position
  exports     \* each session's export table, in order of position

sessionVars == <<task, endFlag, fetch, position, registry, exports>>

(* How a session's task ended: the peer sent op:abort, receiving failed,   *)
(* it saw the end flag, or the task itself was aborted.                    *)
Ended == {"aborted", "failed", "quit", "cancelled"}

(* States of a respond_to_fetch subtask that is still in its JoinSet.      *)
Pending == {"spawned", "asked", "resolved", "refused", "exported",
            "fulfilling", "breaking"}
FetchStates == Pending \cup {"idle", "answered", "broken", "error", "cancelled"}

Handler == "handler"       \* the FulfillResponseHandler object
Portal == "portal"         \* a Portal object
Objects == Swisses \cup {Handler, Portal}

SessionTypeOK ==
  /\ task \in [Sessions -> {"none", "running"} \cup Ended]
  /\ endFlag \in BOOLEAN
  /\ fetch \in [Fetches -> FetchStates]
  /\ position \in [Fetches -> Nat]
  /\ registry \in [Sessions -> [Swisses -> Nat]]
  /\ exports \in [Sessions -> Seq(Objects)]

SessionInit ==
  /\ task = [s \in Sessions |-> "none"]
  /\ endFlag = FALSE
  /\ fetch = [f \in Fetches |-> "idle"]
  /\ position = [f \in Fetches |-> 0]
  /\ registry = [s \in Sessions |-> [w \in Swisses |-> 0]]
  /\ exports = [s \in Sessions |-> <<>>]

-----------------------------------------------------------------------------
(* Mutant of StartSession: the session is not announced.                   *)
StartUnannounced(s) ==
  /\ task[s] = "none"
  /\ task' = [task EXCEPT ![s] = "running"]
  /\ exports' = [exports EXCEPT ![s] = <<Handler>>]
  /\ UNCHANGED <<endFlag, fetch, position, registry, pipeVars>>

(* What manage_netlayer does with a new session: announce it, then spawn   *)
(* its task, which first exports the handler of fulfil responses.          *)
StartSession(s) ==
  /\ task[s] = "none"
  /\ Send(SessionStarted(s))
  /\ task' = [task EXCEPT ![s] = "running"]
  /\ exports' = [exports EXCEPT ![s] = <<Handler>>]
  /\ UNCHANGED <<endFlag, fetch, position, registry>>

(* The task of s leaves its loop.                                          *)
LeaveLoop(s, how) ==
  /\ task[s] = "running"
  /\ task' = [task EXCEPT ![s] = how]
  /\ UNCHANGED <<endFlag, fetch, position, registry, exports>>

(* Mutant of RecvAbort: the loop is left, but the manager is not told.     *)
AbortUnsaid(s) == LeaveLoop(s, "aborted") /\ UNCHANGED pipeVars

(* Event::Abort: the peer ended the session and said so.                   *)
RecvAbort(s) == LeaveLoop(s, "aborted") /\ Send(SessionAborted(s))

(* Mutant of RecvError: an end the rest of the node has no name for.       *)
ErrorUnknown(s) == LeaveLoop(s, "error") /\ UNCHANGED pipeVars

(* recv_event returned an error: the connection broke, or the session is   *)
(* found aborted already. No event is sent.                                *)
RecvError(s) == LeaveLoop(s, "failed") /\ UNCHANGED pipeVars

(* The end flag was raised; the op:abort to the peer goes out in a task of *)
(* its own.                                                                *)
RecvEnd(s) == endFlag /\ LeaveLoop(s, "quit") /\ UNCHANGED pipeVars

(* tasks.abort_all() at the end of the session's task, or its JoinSet is   *)
(* dropped with it: each subtask stops at its next await, and may do more  *)
(* until then.                                                             *)
CancelSubtask(f) ==
  /\ task[FetchSession[f]] \in Ended
  /\ fetch[f] \in Pending
  /\ fetch' = [fetch EXCEPT ![f] = "cancelled"]
  /\ UNCHANGED <<task, endFlag, position, registry, exports, pipeVars>>

(* BootstrapEvent::Fetch: the peer wants the object behind a swiss number. *)
RecvFetch(f) ==
  /\ task[FetchSession[f]] = "running"
  /\ fetch[f] = "idle"
  /\ fetch' = [fetch EXCEPT ![f] = "spawned"]
  /\ UNCHANGED <<task, endFlag, position, registry, exports, pipeVars>>

-----------------------------------------------------------------------------
(* respond_to_fetch, one action for each stretch between awaits.           *)
Registered(f) == registry[FetchSession[f]][FetchSwiss[f]]

(* Mutant of LookUp: the subtask asks and comes back to ask again.         *)
LookUpAgain(f) ==
  /\ fetch[f] = "spawned"
  /\ Registered(f) = 0
  /\ Send(Fetch(FetchSession[f], f))
  /\ UNCHANGED sessionVars

LookUp(f) ==
  /\ fetch[f] = "spawned"
  /\ \/ /\ Registered(f) # 0
        /\ fetch' = [fetch EXCEPT ![f] = "fulfilling"]
        /\ position' = [position EXCEPT ![f] = Registered(f)]
        /\ UNCHANGED pipeVars
     \/ /\ Registered(f) = 0
        /\ Send(Fetch(FetchSession[f], f))
        /\ fetch' = [fetch EXCEPT ![f] = IF receiving THEN "asked" ELSE "error"]
        /\ UNCHANGED position
  /\ UNCHANGED <<task, endFlag, registry, exports>>

(* Mutant of Export: the position is read before the table has grown.      *)
ExportOffByOne(f) ==
  LET s == FetchSession[f]
  IN /\ fetch[f] = "resolved"
     /\ exports' = [exports EXCEPT ![s] = Append(@, FetchSwiss[f])]
     /\ position' = [position EXCEPT ![f] = Len(exports[s])]
     /\ fetch' = [fetch EXCEPT ![f] = "exported"]
     /\ UNCHANGED <<task, endFlag, registry, pipeVars>>

(* The promise came back with an object: export it, then remember where.   *)
Export(f) ==
  LET s == FetchSession[f]
  IN /\ fetch[f] = "resolved"
     /\ exports' = [exports EXCEPT ![s] = Append(@, FetchSwiss[f])]
     /\ position' = [position EXCEPT ![f] = Len(exports'[s])]
     /\ fetch' = [fetch EXCEPT ![f] = "exported"]
     /\ UNCHANGED <<task, endFlag, registry, pipeVars>>

Register(f) ==
  /\ fetch[f] = "exported"
  /\ registry' = [registry EXCEPT ![FetchSession[f]][FetchSwiss[f]] = position[f]]
  /\ fetch' = [fetch EXCEPT ![f] = "fulfilling"]
  /\ UNCHANGED <<task, endFlag, position, exports, pipeVars>>

(* Mutant of Refused: a promise that came to nothing is passed on as a     *)
(* refusal.                                                                *)
RefusedWhenDropped(f) ==
  /\ \/ fetch[f] = "refused"
     \/ fetch[f] = "asked" /\ ~receiving
  /\ fetch' = [fetch EXCEPT ![f] = "breaking"]
  /\ UNCHANGED <<task, endFlag, position, registry, exports, pipeVars>>

(* The promise came back with a refusal, or its resolver was dropped.      *)
Refused(f) ==
  /\ \/ fetch[f] = "refused" /\ fetch' = [fetch EXCEPT ![f] = "breaking"]
     \/ fetch[f] = "asked" /\ ~receiving /\ fetch' = [fetch EXCEPT ![f] = "error"]
  /\ UNCHANGED <<task, endFlag, position, registry, exports, pipeVars>>

(* The answer reaches the peer, or writing it fails.                       *)
Reply(f) ==
  /\ \/ fetch[f] = "fulfilling" /\ fetch' = [fetch EXCEPT ![f] = "answered"]
     \/ fetch[f] = "breaking" /\ fetch' = [fetch EXCEPT ![f] = "broken"]
     \/ fetch[f] \in {"fulfilling", "breaking"} /\ fetch' = [fetch EXCEPT ![f] = "error"]
  /\ UNCHANGED <<task, endFlag, position, registry, exports, pipeVars>>

(* What the subtask does of itself; Reply waits for the peer to read.      *)
Respond(f) == LookUp(f) \/ Export(f) \/ Register(f) \/ Refused(f)
=============================================================================
