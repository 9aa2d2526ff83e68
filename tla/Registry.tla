------------------------------ MODULE Registry ------------------------------
(***************************************************************************)
(* respond_to_fetch (session.rs) on the threads of the runtime. registry   *)
(* is a DashMap: get returns a guard that is kept while the answer is      *)
(* written, an await, and insert waits for the guards on its shard by      *)
(* blocking the thread it runs on. Module Session has what a fetch does;   *)
(* this one has what it holds and what it waits for.                       *)
(*                                                                         *)
(* All fetches are of the gateway, the only object that is ever found, so  *)
(* those of one session meet in one shard. A task that is not blocked in a *)
(* shard gives its thread back at its next await.                          *)
(***************************************************************************)
EXTENDS Naturals, FiniteSets

CONSTANTS
  Sessions,
  Fetches,       \* the fetches the peers may make
  FetchSession,  \* the session each is made over
  Workers        \* the number of worker threads

ASSUME WorkersAssumption ==
  /\ IsFiniteSet(Fetches)
  /\ FetchSession \in [Fetches -> Sessions]
  /\ Workers \in Nat \ {0}

VARIABLES
  at,        \* where each fetch stands
  registry,  \* the sessions whose registry has the gateway
  ended      \* the sessions that have aborted their subtasks

vars == <<at, registry, ended>>

Blocked == {"getting", "inserting"}           \* on a thread, in the shard
Awaiting == {"spawned", "asking", "resolved", "holding", "replying"}
Places == Blocked \cup Awaiting \cup {"idle", "answered", "failed"}

TypeOK ==
  /\ at \in [Fetches -> Places]
  /\ registry \subseteq Sessions
  /\ ended \subseteq Sessions

Init ==
  /\ at = [f \in Fetches |-> "idle"]
  /\ registry = {}
  /\ ended = {}

-----------------------------------------------------------------------------
(* Mutant of Guards: the guard of a look-up that found nothing is kept     *)
(* while the manager is asked, as that of DashMap::entry would be.         *)
GuardsOfEntry(s) == {f \in Fetches : FetchSession[f] = s /\ at[f] \in {"holding", "asking"}}

(* The fetches that hold a guard on the shard; and those that wait for it. *)
Guards(s) == {f \in Fetches : FetchSession[f] = s /\ at[f] = "holding"}

Inserters(s) == {f \in Fetches : FetchSession[f] = s /\ at[f] = "inserting"}

Stuck == {f \in Fetches : at[f] \in Blocked}

(* Some worker has nothing to do but to run the next task.                 *)
WorkerFree == Cardinality(Stuck) < Workers

Move(f, to) == at' = [at EXCEPT ![f] = to]

RecvFetch(f) ==
  /\ WorkerFree
  /\ at[f] = "idle"
  /\ FetchSession[f] \notin ended
  /\ Move(f, "spawned")
  /\ UNCHANGED <<registry, ended>>

(* registry.get: found, and the guard is kept; or not, and none is.        *)
LookUp(f) ==
  /\ Move(f, IF FetchSession[f] \in registry THEN "holding" ELSE "asking")
  /\ UNCHANGED <<registry, ended>>

(* An insert that waits may, or may not, keep new readers out.             *)
Get(f) ==
  /\ WorkerFree
  /\ at[f] = "spawned"
  /\ \/ LookUp(f)
     \/ /\ Inserters(FetchSession[f]) # {}
        /\ Move(f, "getting")
        /\ UNCHANGED <<registry, ended>>

GetAtLast(f) ==
  /\ at[f] = "getting"
  /\ Inserters(FetchSession[f]) = {}
  /\ LookUp(f)

(* The manager's answer, always the gateway; the manager needs a thread.   *)
Resolve(f) ==
  /\ WorkerFree
  /\ at[f] = "asking"
  /\ Move(f, "resolved")
  /\ UNCHANGED <<registry, ended>>

Inserted(f) ==
  /\ Guards(FetchSession[f]) = {}
  /\ registry' = registry \cup {FetchSession[f]}
  /\ Move(f, "replying")
  /\ UNCHANGED ended

(* registry.insert                                                         *)
Insert(f) ==
  /\ WorkerFree
  /\ at[f] = "resolved"
  /\ \/ Inserted(f)
     \/ /\ Guards(FetchSession[f]) # {}
        /\ Move(f, "inserting")
        /\ UNCHANGED <<registry, ended>>

(* Mutant of InsertAtLast: each waits for all the others.                  *)
InsertAlone(f) ==
  /\ at[f] = "inserting"
  /\ Inserters(FetchSession[f]) = {f}
  /\ Inserted(f)

InsertAtLast(f) ==
  /\ at[f] = "inserting"
  /\ Inserted(f)

(* The answer is written, or writing it fails: the peer has to read.       *)
Reply(f) ==
  /\ WorkerFree
  /\ at[f] \in {"holding", "replying"}
  /\ \E res \in {"answered", "failed"} : Move(f, res)
  /\ UNCHANGED <<registry, ended>>

(* The session ends and aborts its subtasks ...                            *)
SessionEnds(s) ==
  /\ WorkerFree
  /\ s \notin ended
  /\ ended' = ended \cup {s}
  /\ UNCHANGED <<at, registry>>

(* ... each at its next await, its guard dropped with it.                  *)
Cancel(f) ==
  /\ WorkerFree
  /\ FetchSession[f] \in ended
  /\ at[f] \in Awaiting
  /\ Move(f, "failed")
  /\ UNCHANGED <<registry, ended>>

-----------------------------------------------------------------------------
Respond(f) == Get(f) \/ GetAtLast(f) \/ Resolve(f) \/ Insert(f) \/ InsertAtLast(f)

Next ==
  \/ \E f \in Fetches : RecvFetch(f) \/ Respond(f) \/ Reply(f) \/ Cancel(f)
  \/ \E s \in Sessions : SessionEnds(s)

Spec == Init /\ [][Next]_vars

(* A task that can go on is run, if there is a thread for it. The writes   *)
(* are up to the peers.                                                    *)
FairSpec == Spec /\ \A f \in Fetches : WF_vars(Respond(f) \/ Cancel(f))

-----------------------------------------------------------------------------
(* Every thread is blocked in a shard, behind the guard of a fetch that    *)
(* needs a thread to let go of it. Nobody takes another step.              *)
OutOfThreads ==
  /\ ~WorkerFree
  /\ \A f \in Stuck : Guards(FetchSession[f]) # {} /\ Inserters(FetchSession[f]) # {}

Made == {f \in Fetches : at[f] # "idle"}
Unanswered == {f \in Made : at[f] \notin {"answered", "failed"}}

(* That takes peers that leave more fetches unanswered at a time than      *)
(* there are threads, after one, at least, that made the entry: the guard  *)
(* kept while an answer is written (session.rs:51) does no harm before.    *)
EnoughThreads ==
  OutOfThreads =>
    /\ Cardinality(Unanswered) > Workers
    /\ Cardinality(Made) > Workers + 1

(* What that rests on: a guard is had only on what an earlier fetch of the *)
(* session has inserted, and that one does not wait again.                 *)
GuardOnEntry == \A s \in Sessions : Guards(s) # {} => s \in registry

InsertedBefore ==
  \A s \in registry : \E f \in Fetches :
    FetchSession[f] = s /\ at[f] \in {"replying", "answered", "failed"}

IndInv == TypeOK /\ GuardOnEntry /\ InsertedBefore

(* The peers read: no answer is for ever being written by a fetch that has *)
(* a thread. That is weak fairness of Reply, whose guard has both.         *)
PeersRead ==
  \A f \in Fetches : []<>(at[f] \notin {"holding", "replying"} \/ ~WorkerFree)

(* Every fetch is done, if the peers read and the threads do not run out:  *)
(* nothing else in the registry makes a fetch wait for ever.               *)
FetchesEnd ==
  PeersRead /\ []~OutOfThreads =>
    \A f \in Fetches : at[f] = "spawned" ~> at[f] \in {"answered", "failed"}

(* What the program says of a fetch that has been given its object,        *)
(* "fulfilling promise" (session.rs:67), if only the peers read. It is not *)
(* so: the insert in the line before may wait for ever.                    *)
PromiseFulfilled ==
  PeersRead =>
    \A f \in Fetches : at[f] = "resolved" ~> at[f] \in {"answered", "failed"}
=============================================================================
