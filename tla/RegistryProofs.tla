--------------------------- MODULE RegistryProofs ---------------------------
(***************************************************************************)
(* Proofs about Registry, for any number of sessions, fetches and worker   *)
(* threads.                                                                *)
(***************************************************************************)
EXTENDS Registry, FiniteSetTheorems, TLAPS

(* The fetches of a session that are past the registry.                    *)
Past(s) ==
  \E f \in Fetches : FetchSession[f] = s /\ at[f] \in {"replying", "answered", "failed"}

(* One fetch moves, and the registry stays as it is.                       *)
LEMMA MoveKeeps ==
  ASSUME IndInv, NEW f \in Fetches, NEW to \in Places, Move(f, to),
         UNCHANGED <<registry, ended>>,
         to = "holding" => FetchSession[f] \in registry,
         at[f] \in {"replying", "answered", "failed"}
           => to \in {"replying", "answered", "failed"}
  PROVE  IndInv'
  <1>1. TypeOK'
    BY DEF IndInv, TypeOK, Move
  <1>2. \A g \in Fetches : at'[g] = IF g = f THEN to ELSE at[g]
    BY DEF IndInv, TypeOK, Move
  <1>3. GuardOnEntry'
    BY <1>2 DEF IndInv, GuardOnEntry, Guards
  <1>4. ASSUME NEW s \in registry PROVE Past(s)'
    <2>1. PICK g \in Fetches :
            FetchSession[g] = s /\ at[g] \in {"replying", "answered", "failed"}
      BY <1>4 DEF IndInv, InsertedBefore
    <2> QED BY <1>2, <2>1 DEF Past
  <1> QED BY <1>1, <1>3, <1>4 DEF IndInv, InsertedBefore, Past

(* A fetch inserts what it was given.                                      *)
LEMMA InsertKeeps ==
  ASSUME IndInv, NEW f \in Fetches, Inserted(f)
  PROVE  IndInv'
  <1> DEFINE s == FetchSession[f]
  <1>0. s \in Sessions
    BY WorkersAssumption
  <1>1. TypeOK'
    BY <1>0 DEF IndInv, TypeOK, Inserted, Move, Places, Awaiting
  <1>2. \A g \in Fetches : at'[g] = IF g = f THEN "replying" ELSE at[g]
    BY DEF IndInv, TypeOK, Inserted, Move
  <1>3. registry' = registry \cup {s}
    BY DEF Inserted
  <1>4. GuardOnEntry'
    BY <1>2, <1>3 DEF IndInv, GuardOnEntry, Guards
  <1>5. ASSUME NEW t \in registry' PROVE Past(t)'
    <2>1. CASE t = s
      BY <1>2, <2>1 DEF Past
    <2>2. CASE t \in registry
      <3>1. PICK g \in Fetches :
              FetchSession[g] = t /\ at[g] \in {"replying", "answered", "failed"}
        BY <2>2 DEF IndInv, InsertedBefore
      <3> QED BY <1>2, <3>1 DEF Past
    <2> QED BY <1>3, <2>1, <2>2
  <1> QED BY <1>1, <1>4, <1>5 DEF IndInv, InsertedBefore, Past

LEMMA IndInvInit == Init => IndInv
  BY DEF Init, IndInv, TypeOK, Places, GuardOnEntry, Guards, InsertedBefore

LEMMA IndInvStep == IndInv /\ [Next]_vars => IndInv'
  <1> SUFFICES ASSUME IndInv, [Next]_vars PROVE IndInv'
    OBVIOUS
  <1> USE DEF Places, Awaiting, Blocked
  <1>1. ASSUME NEW f \in Fetches, RecvFetch(f) PROVE IndInv'
    BY <1>1, MoveKeeps DEF RecvFetch
  <1>2. ASSUME NEW f \in Fetches, at[f] \in {"spawned", "getting"}, LookUp(f) PROVE IndInv'
    <2>1. CASE FetchSession[f] \in registry
      BY <1>2, <2>1, MoveKeeps DEF LookUp
    <2>2. CASE FetchSession[f] \notin registry
      BY <1>2, <2>2, MoveKeeps DEF LookUp
    <2> QED BY <2>1, <2>2
  <1>3. ASSUME NEW f \in Fetches, Get(f) PROVE IndInv'
    BY <1>2, <1>3, MoveKeeps DEF Get
  <1>4. ASSUME NEW f \in Fetches, GetAtLast(f) PROVE IndInv'
    BY <1>2, <1>4 DEF GetAtLast
  <1>5. ASSUME NEW f \in Fetches, Resolve(f) PROVE IndInv'
    BY <1>5, MoveKeeps DEF Resolve
  <1>6. ASSUME NEW f \in Fetches, Insert(f) PROVE IndInv'
    BY <1>6, MoveKeeps, InsertKeeps DEF Insert
  <1>7. ASSUME NEW f \in Fetches, InsertAtLast(f) PROVE IndInv'
    BY <1>7, InsertKeeps DEF InsertAtLast
  <1>8. ASSUME NEW f \in Fetches, Reply(f) PROVE IndInv'
    BY <1>8, MoveKeeps DEF Reply
  <1>9. ASSUME NEW f \in Fetches, Cancel(f) PROVE IndInv'
    BY <1>9, MoveKeeps DEF Cancel
  <1>10. ASSUME NEW s \in Sessions, SessionEnds(s) PROVE IndInv'
    BY <1>10 DEF SessionEnds, IndInv, TypeOK, GuardOnEntry, Guards, InsertedBefore
  <1>11. CASE UNCHANGED vars
    BY <1>11 DEF vars, IndInv, TypeOK, GuardOnEntry, Guards, InsertedBefore
  <1> QED
    BY <1>1, <1>3, <1>4, <1>5, <1>6, <1>7, <1>8, <1>9, <1>10, <1>11 DEF Next, Respond

(* Behind a guard there are two fetches that are not blocked: the one that *)
(* has it and one that has made the entry.                                 *)
LEMMA TwoGoOn ==
  ASSUME IndInv, NEW s \in Sessions, Guards(s) # {}
  PROVE  \E h, e \in Fetches :
           at[h] = "holding" /\ at[e] \in {"replying", "answered", "failed"}
  <1>1. PICK h \in Fetches : at[h] = "holding"
    BY DEF Guards
  <1>2. PICK e \in Fetches : at[e] \in {"replying", "answered", "failed"}
    BY DEF IndInv, GuardOnEntry, InsertedBefore
  <1> QED BY <1>1, <1>2

(* They are not among those that have taken the threads.                   *)
LEMMA NotEnough ==
  ASSUME IndInv, OutOfThreads
  PROVE  Cardinality(Unanswered) > Workers /\ Cardinality(Made) > Workers + 1
  <1>1. IsFiniteSet(Fetches) /\ Workers \in Nat \ {0}
    BY WorkersAssumption
  <1>2. IsFiniteSet(Made) /\ IsFiniteSet(Unanswered) /\ IsFiniteSet(Stuck)
    BY <1>1, FS_Subset DEF Made, Unanswered, Stuck
  <1>3. Cardinality(Stuck) \in Nat /\ Cardinality(Stuck) >= Workers
    BY <1>1, <1>2, FS_CardinalityType DEF OutOfThreads, WorkerFree
  <1>4. Stuck # {}
    BY <1>1, <1>3, FS_EmptySet
  <1>5. PICK h, e \in Fetches :
          at[h] = "holding" /\ at[e] \in {"replying", "answered", "failed"}
    BY <1>4, TwoGoOn, WorkersAssumption DEF OutOfThreads, Stuck
  <1> DEFINE Held == Stuck \cup {h}
             Both == Held \cup {e}
  <1>6. IsFiniteSet(Held) /\ Cardinality(Held) = Cardinality(Stuck) + 1
    BY <1>2, <1>5, FS_AddElement DEF Stuck, Blocked
  <1>7. IsFiniteSet(Both) /\ Cardinality(Both) = Cardinality(Held) + 1
    <2>1. e \notin Held
      BY <1>5 DEF Stuck, Blocked
    <2> QED BY <1>6, <2>1, FS_AddElement
  <1>8. Cardinality(Held) <= Cardinality(Unanswered)
    <2>1. Held \in SUBSET Unanswered
      BY <1>5 DEF Stuck, Blocked, Unanswered, Made
    <2> QED BY <1>2, <2>1, FS_Subset
  <1>9. Cardinality(Both) <= Cardinality(Made)
    <2>1. Both \in SUBSET Made
      BY <1>5 DEF Stuck, Blocked, Made
    <2> QED BY <1>2, <2>1, FS_Subset
  <1>10. Cardinality(Unanswered) \in Nat /\ Cardinality(Made) \in Nat
    BY <1>2, FS_CardinalityType
  <1> QED BY <1>1, <1>3, <1>6, <1>7, <1>8, <1>9, <1>10

(* A guard is held on an entry that is there, and an entry is there only   *)
(* for a fetch that has made it, for any number of worker threads.         *)
THEOREM EntriesMade == Spec => []IndInv
  BY IndInvInit, IndInvStep, PTL DEF Spec

(* The threads run out only when more fetches than there are threads are   *)
(* unanswered at a time, after one that made the entry (session.rs:51-66), *)
(* for any number of worker threads, sessions and fetches.                 *)
THEOREM RunsOutLate == Spec => []EnoughThreads
  <1>1. IndInv => EnoughThreads
    BY NotEnough DEF EnoughThreads
  <1> QED BY <1>1, EntriesMade, PTL
=============================================================================
