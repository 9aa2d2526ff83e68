--------------------------- MODULE ShutdownProofs ---------------------------
(***************************************************************************)
(* Proofs about Shutdown, for any number of sessions, fetches and requests *)
(* and whatever the moment at which the manager is ended.                  *)
(***************************************************************************)
EXTENDS Shutdown, LibraryProofs

-----------------------------------------------------------------------------
(* Types.                                                                  *)
LEMMA SessionStepTyped ==
  ASSUME TypeOK, SessionStep, UNCHANGED aboveSession
  PROVE  TypeOK'
  <1> USE DEF TypeOK
  <1>1. NetlayerTypeOK' /\ ManagerTypeOK'
    BY NetlayerUnchanged, ManagerUnchanged DEF aboveSession
  <1>2. ASSUME NEW s \in Sessions, RecvAbort(s) \/ RecvError(s) \/ RecvEnd(s)
        PROVE  PipeTypeOK' /\ SessionTypeOK'
    BY <1>2, EventsTyped, SendTyped, PipeUnchanged, LeaveTyped
       DEF RecvAbort, RecvError, RecvEnd, Ended
  <1>3. ASSUME NEW f \in Fetches,
               \/ RecvFetch(f) \/ LookUp(f) \/ Export(f) \/ Register(f)
               \/ Refused(f) \/ Reply(f) \/ CancelSubtask(f)
        PROVE  PipeTypeOK' /\ SessionTypeOK'
    BY <1>3, SubtaskTyped
  <1> QED BY <1>1, <1>2, <1>3 DEF SessionStep

(* What the netlayer's part of a step leaves of the rest.                  *)
LEMMA NetlayerStepTyped ==
  ASSUME TypeOK, NetlayerStep, UNCHANGED managerVars
  PROVE  TypeOK'
  <1> USE DEF TypeOK
  <1>1. ManagerTypeOK'
    BY ManagerUnchanged
  <1>2. ASSUME NEW s \in Sessions, Accept(s) \/ \E r \in Requests : ConnectOk(r, s)
        PROVE  PipeTypeOK' /\ SessionTypeOK' /\ NetlayerTypeOK'
    <2>1. PipeTypeOK' /\ SessionTypeOK'
      BY <1>2, StartTyped DEF Accept, ConnectOk
    <2>2. NetlayerTypeOK'
      BY <1>2, NetlayerTyped, NetlayerUnchanged DEF Accept, NetlayerMove
    <2> QED BY <2>1, <2>2
  <1>3. ASSUME NEW s \in Sessions, CancelSession(s)
        PROVE  PipeTypeOK' /\ SessionTypeOK' /\ NetlayerTypeOK'
    BY <1>3, PipeUnchanged, LeaveTyped, NetlayerUnchanged DEF CancelSession, Ended
  <1>4. ASSUME \/ TakeRequest \/ AcceptError \/ SeeEnd \/ Return
               \/ \E r \in Requests : RequestConnect(r) \/ ConnectError(r)
        PROVE  PipeTypeOK' /\ SessionTypeOK' /\ NetlayerTypeOK'
    <2>1. NetlayerTypeOK'
      BY <1>4, NetlayerTyped DEF NetlayerMove, AcceptError, Return
    <2>2. UNCHANGED <<pipeVars, sessionVars>>
      BY <1>4 DEF TakeRequest, AcceptError, SeeEnd, Return, RequestConnect, ConnectError
    <2> QED BY <2>1, <2>2, PipeUnchanged, SessionUnchanged
  <1> QED BY <1>1, <1>2, <1>3, <1>4 DEF NetlayerStep

LEMMA RecvEventTyped ==
  ASSUME TypeOK, RecvEvent
  PROVE  TypeOK'
  <1> USE DEF TypeOK
  <1>1. ASSUME NEW s \in Sessions, RecvSessionStarted(s) \/ RecvSessionAborted(s)
        PROVE  TypeOK'
    <2>1. PipeTypeOK'
      BY <1>1, ReceiveTyped DEF RecvSessionStarted, RecvSessionAborted, NextEvent
    <2>2. ManagerTypeOK'
      BY <1>1 DEF RecvSessionStarted, RecvSessionAborted, ManagerTypeOK
    <2> QED BY <1>1, <2>1, <2>2, SessionUnchanged, NetlayerUnchanged
         DEF RecvSessionStarted, RecvSessionAborted
  <1>2. ASSUME NEW s \in Sessions, RecvPortalRequest(s)
        PROVE  TypeOK'
    <2>1. PipeTypeOK'
      BY <1>2, ReceiveTyped DEF RecvPortalRequest, NextEvent
    <2>2. SessionTypeOK'
      BY <1>2 DEF RecvPortalRequest, SessionTypeOK, Objects
    <2>3. ManagerTypeOK'
      BY <1>2, PeerAssumption DEF RecvPortalRequest, ManagerTypeOK, AuthStates
    <2> QED BY <1>2, <2>1, <2>2, <2>3, NetlayerUnchanged DEF RecvPortalRequest
  <1>3. ASSUME NEW f \in Fetches, RecvFetchEvent(f)
        PROVE  TypeOK'
    <2>1. PipeTypeOK'
      BY <1>3, ReceiveTyped DEF RecvFetchEvent, NextEvent
    <2>2. SessionTypeOK'
      BY <1>3 DEF RecvFetchEvent, SessionTypeOK, FetchStates, Pending
    <2> QED BY <1>3, <2>1, <2>2, NetlayerUnchanged, ManagerUnchanged DEF RecvFetchEvent
  <1> QED BY <1>1, <1>2, <1>3 DEF RecvEvent

LEMMA EndTyped ==
  ASSUME TypeOK, End \/ DropManager \/ DropLayers
  PROVE  TypeOK'
  <1> USE DEF TypeOK
  <1>1. CASE End
    <2>1. SessionTypeOK'
      BY <1>1 DEF End, SessionTypeOK
    <2> QED BY <1>1, <2>1, PipeUnchanged, NetlayerUnchanged, ManagerUnchanged DEF End
  <1>2. CASE DropManager
    <2>1. PipeTypeOK'
      BY <1>2, EmptySeq DEF DropManager, PipeTypeOK
    <2>2. auth' \in [Sessions -> AuthStates]
      BY <1>2 DEF DropManager, ManagerTypeOK, AuthStates
    <2>3. ManagerTypeOK'
      BY <1>2, <2>2 DEF DropManager, ManagerTypeOK
    <2> QED BY <1>2, <2>1, <2>3, SessionUnchanged, NetlayerUnchanged DEF DropManager
  <1>3. CASE DropLayers
    <2>1. NetlayerTypeOK'
      BY <1>3, NetlayerTyped DEF DropLayers, NetlayerMove
    <2> QED BY <1>3, <2>1, PipeUnchanged, SessionUnchanged, ManagerUnchanged DEF DropLayers
  <1> QED BY <1>1, <1>2, <1>3

LEMMA StepTyped == TypeOK /\ [Next]_vars => TypeOK'
  <1> SUFFICES ASSUME TypeOK, [Next]_vars PROVE TypeOK'
    OBVIOUS
  <1>1. ASSUME NEW s \in Sessions, Authenticate(s) PROVE TypeOK'
    <2>1. PipeTypeOK'
      BY <1>1, EventsTyped, SendTyped, PipeUnchanged DEF Authenticate, TypeOK
    <2>2. ManagerTypeOK'
      BY <1>1 DEF Authenticate, TypeOK, ManagerTypeOK, AuthStates
    <2> QED BY <1>1, <2>1, <2>2, SessionUnchanged, NetlayerUnchanged DEF Authenticate, TypeOK
  <1>2. ASSUME NEW s \in Sessions, FulfillDone(s) PROVE TypeOK'
    <2>1. ManagerTypeOK'
      BY <1>2 DEF FulfillDone, TypeOK, ManagerTypeOK, AuthStates
    <2> QED BY <1>2, <2>1, PipeUnchanged, SessionUnchanged, NetlayerUnchanged
         DEF FulfillDone, TypeOK
  <1>3. CASE UNCHANGED vars
    BY <1>3, PipeUnchanged, SessionUnchanged, NetlayerUnchanged, ManagerUnchanged
       DEF vars, TypeOK
  <1> QED BY <1>1, <1>2, <1>3, SessionStepTyped, NetlayerStepTyped, RecvEventTyped, EndTyped
        DEF Next

LEMMA InitTyped == Init => TypeOK
  BY LibraryInitTyped DEF Init, TypeOK

(* Every variable of the library keeps its type, in its shutdown too.      *)
THEOREM ShutdownTyped == Spec => []TypeOK
  BY InitTyped, StepTyped, PTL DEF Spec

-----------------------------------------------------------------------------
LEMMA RequestsStep == RequestsInv /\ [Next]_vars => RequestsInv'
  <1> SUFFICES ASSUME RequestsInv, [Next]_vars PROVE RequestsInv'
    OBVIOUS
  <1>1. UNCHANGED netlayerVars => RequestsInv'
    BY RequestsStay
  <1>2. NetlayerMove => RequestsInv'
    BY RequestsKept
  <1>3. CASE NetlayerStep
    <2>1. ASSUME NEW s \in Sessions, Accept(s) \/ CancelSession(s)
          PROVE  UNCHANGED netlayerVars
      BY <2>1 DEF Accept, CancelSession
    <2>2. ASSUME \/ TakeRequest \/ AcceptError \/ SeeEnd \/ Return
                 \/ \E r \in Requests :
                      \/ RequestConnect(r) \/ ConnectError(r)
                      \/ \E s \in Sessions : ConnectOk(r, s)
          PROVE  NetlayerMove
      BY <2>2 DEF NetlayerMove, AcceptError, Return
    <2> QED BY <1>1, <1>2, <1>3, <2>1, <2>2 DEF NetlayerStep
  <1>4. CASE RecvEvent
    BY <1>1, <1>4 DEF RecvEvent, RecvSessionStarted, RecvSessionAborted, RecvPortalRequest,
       RecvFetchEvent
  <1>5. CASE \E s \in Sessions : Authenticate(s) \/ FulfillDone(s)
    BY <1>1, <1>5 DEF Authenticate, FulfillDone
  <1>6. CASE End \/ DropManager
    BY <1>1, <1>6 DEF End, DropManager
  <1>7. CASE DropLayers
    BY <1>2, <1>7 DEF DropLayers, NetlayerMove
  <1>8. CASE UNCHANGED vars \/ UNCHANGED aboveSession
    BY <1>1, <1>8 DEF vars, aboveSession
  <1> QED BY <1>3, <1>4, <1>5, <1>6, <1>7, <1>8 DEF Next

(* Whenever the library is ended, a request that is put to the netlayer's  *)
(* task is in its queue until it is taken, and none is left waiting when   *)
(* the task has returned or was aborted.                                   *)
THEOREM RequestsLetGo == Spec => []RequestsTracked
  <1>1. Init => RequestsInv
    BY RequestsInit DEF Init
  <1>2. RequestsInv => RequestsTracked
    BY DEF RequestsInv
  <1> QED BY <1>1, <1>2, RequestsStep, PTL DEF Spec

-----------------------------------------------------------------------------
(* Only what is sent or taken changes the pipe, and neither does once the  *)
(* manager is gone.                                                        *)
LEMMA GoneStep ==
  NoneWaitsOnGoneManager /\ TypeOK /\ [Next]_vars => NoneWaitsOnGoneManager'
  <1> SUFFICES ASSUME NoneWaitsOnGoneManager, TypeOK, [Next]_vars
               PROVE  NoneWaitsOnGoneManager'
    OBVIOUS
  <1> USE DEF NoneWaitsOnGoneManager
  <1>1. ASSUME NEW e, Send(e), UNCHANGED auth PROVE NoneWaitsOnGoneManager'
    BY <1>1 DEF Send
  <1>2. ASSUME NEW e, NextEvent(e) PROVE receiving'
    BY <1>2 DEF NextEvent, Receive, TypeOK, PipeTypeOK
  <1>3. UNCHANGED pipeVars /\ UNCHANGED auth => NoneWaitsOnGoneManager'
    BY DEF pipeVars
  <1>4. CASE SessionStep /\ UNCHANGED aboveSession
    <2>1. UNCHANGED auth
      BY <1>4 DEF aboveSession, managerVars
    <2>2. UNCHANGED pipeVars \/ \E e : Send(e)
      BY <1>4 DEF SessionStep, RecvAbort, RecvError, RecvEnd, RecvFetch, LookUp, Export,
         Register, Refused, Reply, CancelSubtask
    <2> QED BY <1>1, <1>3, <2>1, <2>2
  <1>5. CASE NetlayerStep /\ UNCHANGED managerVars
    <2>1. UNCHANGED auth
      BY <1>5 DEF managerVars
    <2>2. UNCHANGED pipeVars \/ \E e : Send(e)
      BY <1>5 DEF NetlayerStep, Accept, CancelSession, ConnectOk, RequestConnect, ConnectError,
         TakeRequest, AcceptError, SeeEnd, Return, StartSession
    <2> QED BY <1>1, <1>3, <2>1, <2>2
  <1>6. CASE RecvEvent
    BY <1>2, <1>6 DEF RecvEvent, RecvSessionStarted, RecvSessionAborted, RecvPortalRequest,
       RecvFetchEvent
  <1>7. ASSUME NEW s \in Sessions, Authenticate(s) PROVE NoneWaitsOnGoneManager'
    <2>1. \A t \in Sessions : auth'[t] = "queued" => auth[t] = "queued" \/ receiving
      BY <1>7 DEF Authenticate, TypeOK, ManagerTypeOK
    <2>2. UNCHANGED receiving /\ (~receiving => UNCHANGED pipe)
      BY <1>7 DEF Authenticate, Send, pipeVars
    <2> QED BY <2>1, <2>2
  <1>8. ASSUME NEW s \in Sessions, FulfillDone(s) PROVE NoneWaitsOnGoneManager'
    <2>1. \A t \in Sessions : auth'[t] = "queued" => auth[t] = "queued"
      BY <1>8 DEF FulfillDone, TypeOK, ManagerTypeOK
    <2> QED BY <1>8, <2>1 DEF FulfillDone, pipeVars
  <1>9. CASE End \/ DropLayers
    BY <1>3, <1>9 DEF End, DropLayers, managerVars
  <1>10. CASE DropManager
    BY <1>10 DEF DropManager
  <1>11. CASE UNCHANGED vars
    BY <1>3, <1>11 DEF vars, managerVars
  <1> QED BY <1>4, <1>5, <1>6, <1>7, <1>8, <1>9, <1>10, <1>11 DEF Next

(* Once the manager is dropped its pipe is empty for good: whoever asks    *)
(* after that is told at once, and nobody waits for an answer in it.       *)
THEOREM NobodyWaits == Spec => []NoneWaitsOnGoneManager
  <1>1. Init => NoneWaitsOnGoneManager
    BY DEF Init, PipeInit, NoneWaitsOnGoneManager
  <1> QED BY <1>1, InitTyped, StepTyped, GoneStep, PTL DEF Spec

-----------------------------------------------------------------------------
(* What is sent is sent once: an event in the pipe tells how far the task  *)
(* or the subtask that sent it has come.                                   *)
SentOnce ==
  /\ Distinct
  /\ \A s \in Sessions :
       /\ InPipe(SessionStarted(s)) => task[s] # "none"
       /\ InPipe(SessionAborted(s)) => task[s] = "aborted"

PipeInv == TypeOK /\ NoneWaitsOnGoneManager /\ SentOnce /\ NoneLost

Sends == SentOnce /\ NoneLost

(* Steps that leave the pipe alone: a task ends, or begins with nobody to  *)
(* tell; a subtask goes on after its answer, or for want of one.           *)
LEMMA QuietStep ==
  ASSUME PipeInv, UNCHANGED pipeVars,
         \A s \in Sessions : \/ task'[s] = task[s]
                             \/ task[s] # "aborted" /\ task'[s] # "none",
         \A f \in Fetches : \/ fetch'[f] = fetch[f]
                            \/ fetch[f] = "asked" /\ fetch'[f] = "cancelled"
                            \/ fetch[f] = "asked" /\ ~receiving
                            \/ fetch[f] \notin {"asked", "cancelled"} /\ fetch'[f] # "asked",
         \A s \in Sessions : /\ auth'[s] = "queued" <=> auth[s] = "queued"
                             /\ auth'[s] = "fulfilling" <=> fulfilling' = s
  PROVE  Sends'
  <1>1. \A x : InPipe(x)' <=> InPipe(x)
    BY DEF pipeVars, InPipe
  <1>2. Distinct'
    BY DEF pipeVars, PipeInv, SentOnce, Distinct
  <1>3. SentOnce'
    BY <1>1, <1>2 DEF PipeInv, SentOnce
  <1>4. ~receiving => \A x : ~InPipe(x)
    BY DEF PipeInv, NoneWaitsOnGoneManager, InPipe
  <1>5. receiving' => FetchTracked'
    BY <1>1, <1>4 DEF pipeVars, PipeInv, NoneLost, FetchTracked
  <1>6. PortalRequestTracked'
    BY <1>1 DEF PipeInv, NoneLost, PortalRequestTracked
  <1> QED BY <1>3, <1>5, <1>6 DEF Sends, NoneLost

(* Steps that send: each by whoever has not sent the event yet.            *)
LEMMA SendStep ==
  ASSUME PipeInv, receiving, NEW e \in NetworkEvent, Send(e), ~InPipe(e),
         \A s \in Sessions : /\ task[s] # "none" \/ e = SessionStarted(s) => task'[s] # "none"
                             /\ task[s] = "aborted" \/ e = SessionAborted(s)
                                  => task'[s] = "aborted",
         \A f \in Fetches : \/ fetch'[f] = fetch[f] /\ e # Fetch(FetchSession[f], f)
                            \/ fetch'[f] = "asked" /\ e = Fetch(FetchSession[f], f),
         \A s \in Sessions : \/ auth'[s] = auth[s] /\ e # PortalRequest(s)
                             \/ /\ auth'[s] = "queued" /\ e = PortalRequest(s)
                                /\ auth[s] # "fulfilling",
         UNCHANGED fulfilling
  PROVE  Sends'
  <1>1. Distinct' /\ \A x : InPipe(x)' <=> InPipe(x) \/ x = e
    BY SendIn DEF PipeInv, TypeOK, SentOnce
  <1>2. SentOnce'
    BY <1>1 DEF PipeInv, SentOnce
  <1>3. FetchTracked'
    BY <1>1 DEF PipeInv, NoneLost, FetchTracked
  <1>4. PortalRequestTracked'
    BY <1>1 DEF PipeInv, NoneLost, PortalRequestTracked
  <1> QED BY <1>2, <1>3, <1>4 DEF Sends, NoneLost

(* The arms of recv_event: the event taken is answered, or on its way to   *)
(* be.                                                                     *)
LEMMA ReceiveStep ==
  ASSUME PipeInv, NEW e, Receive(e), UNCHANGED task,
         \A f \in Fetches :
           IF e = Fetch(FetchSession[f], f) THEN fetch'[f] # "asked" ELSE fetch'[f] = fetch[f],
         \A s \in Sessions :
           /\ auth'[s] = "queued" <=> auth[s] = "queued" /\ e # PortalRequest(s)
           /\ auth'[s] = "fulfilling" <=> fulfilling' = s
  PROVE  Sends'
  <1>1. Distinct' /\ \A x : InPipe(x)' <=> InPipe(x) /\ x # e
    BY ReceiveIn DEF PipeInv, TypeOK, SentOnce
  <1>2. receiving
    BY DEF PipeInv, NoneWaitsOnGoneManager, Receive
  <1>3. SentOnce'
    BY <1>1 DEF PipeInv, SentOnce
  <1>4. FetchTracked'
    BY <1>1, <1>2 DEF PipeInv, NoneLost, FetchTracked
  <1>5. PortalRequestTracked'
    BY <1>1 DEF PipeInv, NoneLost, PortalRequestTracked
  <1> QED BY <1>3, <1>4, <1>5 DEF Sends, NoneLost

LEMMA SessionSends ==
  ASSUME PipeInv, SessionStep, UNCHANGED aboveSession
  PROVE  Sends'
  <1>0. /\ \A s \in Sessions : auth[s] = "fulfilling" <=> fulfilling = s
        /\ UNCHANGED <<auth, fulfilling>>
    BY DEF PipeInv, NoneLost, PortalRequestTracked, aboveSession, managerVars
  <1>1. ASSUME NEW s \in Sessions, RecvAbort(s)
        PROVE  Sends'
    <2> DEFINE e == SessionAborted(s)
    <2>1. /\ Send(e) /\ e \in NetworkEvent /\ UNCHANGED fetch
          /\ task[s] = "running"
          /\ \A t \in Sessions : task'[t] = IF t = s THEN "aborted" ELSE task[t]
      BY <1>1, EventsTyped DEF RecvAbort, LeaveLoop, PipeInv, TypeOK, SessionTypeOK
    <2>2. ~InPipe(e)
      BY <2>1 DEF PipeInv, SentOnce
    <2>3. CASE receiving
      BY <1>0, <2>1, <2>2, <2>3, EventsDiffer, SendStep
    <2>4. CASE ~receiving
      BY <1>0, <2>1, <2>4, QuietStep DEF Send, pipeVars
    <2> QED BY <2>3, <2>4
  <1>2. ASSUME NEW s \in Sessions, RecvError(s) \/ RecvEnd(s)
        PROVE  Sends'
    <2>1. \A t \in Sessions : \/ task'[t] = task[t]
                              \/ task[t] # "aborted" /\ task'[t] # "none"
      BY <1>2 DEF RecvError, RecvEnd, LeaveLoop, PipeInv, TypeOK, SessionTypeOK
    <2> QED BY <1>0, <1>2, <2>1, QuietStep DEF RecvError, RecvEnd, LeaveLoop
  <1>3. ASSUME NEW f \in Fetches, LookUp(f)
        PROVE  Sends'
    <2> DEFINE e == Fetch(FetchSession[f], f)
    <2>1. /\ e \in NetworkEvent /\ UNCHANGED task
          /\ fetch[f] = "spawned"
          /\ \A g \in Fetches : g # f => fetch'[g] = fetch[g]
          /\ \/ UNCHANGED pipeVars /\ fetch'[f] = "fulfilling"
             \/ Send(e) /\ fetch'[f] = IF receiving THEN "asked" ELSE "error"
      BY <1>3, EventsTyped, FetchAssumption DEF LookUp, PipeInv, TypeOK, SessionTypeOK
    <2>2. ~InPipe(e)
      <3>1. CASE receiving
        BY <2>1, <3>1 DEF PipeInv, NoneLost, FetchTracked
      <3>2. CASE ~receiving
        BY <3>2 DEF PipeInv, NoneWaitsOnGoneManager, InPipe
      <3> QED BY <3>1, <3>2
    <2>3. CASE receiving /\ Send(e) /\ fetch'[f] = "asked"
      BY <1>0, <2>1, <2>2, <2>3, EventsDiffer, SendStep
    <2>4. CASE UNCHANGED pipeVars /\ fetch'[f] # "asked"
      BY <1>0, <2>1, <2>4, QuietStep
    <2> QED BY <2>1, <2>3, <2>4 DEF Send, pipeVars
  <1>4. ASSUME NEW f \in Fetches,
               RecvFetch(f) \/ Export(f) \/ Register(f) \/ Refused(f) \/ Reply(f)
        PROVE  Sends'
    <2>1. UNCHANGED pipeVars /\ UNCHANGED task
      BY <1>4 DEF RecvFetch, Export, Register, Refused, Reply
    <2>2. /\ \A g \in Fetches : g # f => fetch'[g] = fetch[g]
          /\ \/ fetch[f] \notin {"asked", "cancelled"} /\ fetch'[f] # "asked"
             \/ fetch[f] = "asked" /\ ~receiving
      BY <1>4 DEF RecvFetch, Export, Register, Refused, Reply, PipeInv, TypeOK, SessionTypeOK
    <2> QED BY <1>0, <2>1, <2>2, QuietStep
  <1>5. ASSUME NEW f \in Fetches, CancelSubtask(f)
        PROVE  Sends'
    <2>1. /\ UNCHANGED <<pipeVars, task>>
          /\ \A g \in Fetches : g # f => fetch'[g] = fetch[g]
          /\ fetch[f] \in Pending /\ fetch'[f] = "cancelled"
      BY <1>5 DEF CancelSubtask, PipeInv, TypeOK, SessionTypeOK
    <2> QED BY <1>0, <2>1, QuietStep DEF Pending
  <1> QED BY <1>1, <1>2, <1>3, <1>4, <1>5 DEF SessionStep

LEMMA NetlayerSends ==
  ASSUME PipeInv, NetlayerStep, UNCHANGED managerVars
  PROVE  Sends'
  <1>0. /\ \A s \in Sessions : auth[s] = "fulfilling" <=> fulfilling = s
        /\ UNCHANGED <<auth, fulfilling>>
    BY DEF PipeInv, NoneLost, PortalRequestTracked, managerVars
  <1>1. ASSUME NEW s \in Sessions, StartSession(s)
        PROVE  Sends'
    <2> DEFINE e == SessionStarted(s)
    <2>1. /\ Send(e) /\ e \in NetworkEvent /\ UNCHANGED fetch
          /\ task[s] = "none"
          /\ \A t \in Sessions : task'[t] = IF t = s THEN "running" ELSE task[t]
      BY <1>1, EventsTyped DEF StartSession, PipeInv, TypeOK, SessionTypeOK
    <2>2. ~InPipe(e)
      BY <2>1 DEF PipeInv, SentOnce
    <2>3. CASE receiving
      BY <1>0, <2>1, <2>2, <2>3, EventsDiffer, SendStep
    <2>4. CASE ~receiving
      BY <1>0, <2>1, <2>4, QuietStep DEF Send, pipeVars
    <2> QED BY <2>3, <2>4
  <1>2. ASSUME NEW s \in Sessions, CancelSession(s)
        PROVE  Sends'
    <2>1. \A t \in Sessions : \/ task'[t] = task[t]
                              \/ task[t] # "aborted" /\ task'[t] # "none"
      BY <1>2 DEF CancelSession, LeaveLoop, PipeInv, TypeOK, SessionTypeOK
    <2> QED BY <1>0, <1>2, <2>1, QuietStep DEF CancelSession, LeaveLoop
  <1>3. CASE UNCHANGED <<sessionVars, pipeVars>>
    BY <1>0, <1>3, QuietStep DEF sessionVars
  <1> QED BY <1>1, <1>2, <1>3
        DEF NetlayerStep, Accept, ConnectOk, TakeRequest, AcceptError, SeeEnd, Return,
            RequestConnect, ConnectError

LEMMA ReceiveSends ==
  ASSUME PipeInv, RecvEvent
  PROVE  Sends'
  <1>0. \A s \in Sessions : auth[s] = "fulfilling" <=> fulfilling = s
    BY DEF PipeInv, NoneLost, PortalRequestTracked
  <1>1. ASSUME NEW s \in Sessions, RecvSessionStarted(s) \/ RecvSessionAborted(s)
        PROVE  Sends'
    <2> DEFINE e == IF RecvSessionStarted(s) THEN SessionStarted(s) ELSE SessionAborted(s)
    <2>1. Receive(e) /\ UNCHANGED <<task, fetch, auth, fulfilling>>
      BY <1>1 DEF RecvSessionStarted, RecvSessionAborted, NextEvent, sessionVars
    <2>2. /\ \A f \in Fetches : e # Fetch(FetchSession[f], f)
          /\ \A t \in Sessions : e # PortalRequest(t)
      BY EventsDiffer
    <2> QED BY <1>0, <2>1, <2>2, ReceiveStep
  <1>2. ASSUME NEW f \in Fetches, RecvFetchEvent(f)
        PROVE  Sends'
    <2>1. /\ Receive(Fetch(FetchSession[f], f)) /\ UNCHANGED <<task, auth, fulfilling>>
          /\ fetch'[f] # "asked" /\ \A g \in Fetches : g # f => fetch'[g] = fetch[g]
      BY <1>2 DEF RecvFetchEvent, NextEvent, managerVars, PipeInv, TypeOK, SessionTypeOK
    <2> QED BY <1>0, <2>1, EventsDiffer, ReceiveStep
  <1>3. ASSUME NEW s \in Sessions, RecvPortalRequest(s)
        PROVE  Sends'
    <2>1. /\ Receive(PortalRequest(s)) /\ UNCHANGED <<task, fetch>>
          /\ fulfilling = NoSession /\ fulfilling' = s
          /\ \A t \in Sessions : auth'[t] = IF t = s THEN "fulfilling" ELSE auth[t]
      BY <1>3 DEF RecvPortalRequest, NextEvent, PipeInv, TypeOK, ManagerTypeOK
    <2>2. \A t \in Sessions : /\ auth'[t] = "queued" <=> auth[t] = "queued" /\ t # s
                              /\ auth'[t] = "fulfilling" <=> fulfilling' = t
      BY <1>0, <2>1, PeerAssumption
    <2> QED BY <2>1, <2>2, EventsDiffer, ReceiveStep
  <1> QED BY <1>1, <1>2, <1>3 DEF RecvEvent

LEMMA CallsSend ==
  ASSUME PipeInv, NEW s \in Sessions, Authenticate(s) \/ FulfillDone(s)
  PROVE  Sends'
  <1>0. \A t \in Sessions : auth[t] = "fulfilling" <=> fulfilling = t
    BY DEF PipeInv, NoneLost, PortalRequestTracked
  <1>1. CASE Authenticate(s)
    <2> DEFINE e == PortalRequest(s)
    <2>1. /\ e \in NetworkEvent /\ auth[s] = "none" /\ UNCHANGED <<task, fetch, fulfilling>>
          /\ \A t \in Sessions : t # s => auth'[t] = auth[t]
          /\ \/ UNCHANGED pipeVars /\ auth'[s] = "rejected"
             \/ Send(e) /\ auth'[s] = IF receiving THEN "queued" ELSE "dropped"
      BY <1>1, EventsTyped DEF Authenticate, sessionVars, PipeInv, TypeOK, ManagerTypeOK
    <2>2. ~InPipe(e)
      BY <2>1 DEF PipeInv, NoneLost, PortalRequestTracked
    <2>3. CASE receiving /\ Send(e) /\ auth'[s] = "queued"
      BY <1>0, <2>1, <2>2, <2>3, EventsDiffer, SendStep
    <2>4. CASE UNCHANGED pipeVars /\ auth'[s] \in {"rejected", "dropped"}
      BY <1>0, <2>1, <2>4, QuietStep
    <2> QED BY <2>1, <2>3, <2>4 DEF Send, pipeVars
  <1>2. CASE FulfillDone(s)
    <2>1. /\ UNCHANGED <<pipeVars, task, fetch>>
          /\ fulfilling = s /\ fulfilling' = NoSession
          /\ auth'[s] \in {"granted", "failed"}
          /\ \A t \in Sessions : t # s => auth'[t] = auth[t]
      BY <1>2 DEF FulfillDone, sessionVars, PipeInv, TypeOK, ManagerTypeOK
    <2> QED BY <1>0, <2>1, PeerAssumption, QuietStep
  <1> QED BY <1>1, <1>2

LEMMA EndSends ==
  ASSUME PipeInv, End \/ DropManager \/ DropLayers
  PROVE  Sends'
  <1>0. \A s \in Sessions : auth[s] = "fulfilling" <=> fulfilling = s
    BY DEF PipeInv, NoneLost, PortalRequestTracked
  <1>1. CASE End \/ DropLayers
    BY <1>0, <1>1, QuietStep DEF End, DropLayers, sessionVars, managerVars
  <1>2. CASE DropManager
    <2>1. \A x : ~InPipe(x)'
      BY <1>2 DEF DropManager, InPipe
    <2>2. SentOnce'
      <3>1. Distinct'
        BY <1>2 DEF DropManager, Distinct
      <3> QED BY <2>1, <3>1 DEF SentOnce
    <2>3. PortalRequestTracked'
      BY <1>0, <1>2, <2>1 DEF DropManager, PortalRequestTracked
    <2> QED BY <1>2, <2>2, <2>3 DEF DropManager, Sends, NoneLost
  <1> QED BY <1>1, <1>2

LEMMA PipeInvStep == PipeInv /\ [Next]_vars => PipeInv'
  <1> SUFFICES ASSUME PipeInv, [Next]_vars PROVE PipeInv'
    OBVIOUS
  <1>1. TypeOK' /\ NoneWaitsOnGoneManager'
    BY StepTyped, GoneStep DEF PipeInv
  <1>2. CASE UNCHANGED vars
    <2>1. \A s \in Sessions : auth[s] = "fulfilling" <=> fulfilling = s
      BY DEF PipeInv, NoneLost, PortalRequestTracked
    <2> QED BY <1>1, <1>2, <2>1, QuietStep DEF vars, sessionVars, managerVars, PipeInv, Sends
  <1> QED BY <1>1, <1>2, SessionSends, NetlayerSends, ReceiveSends, CallsSend, EndSends
        DEF Next, PipeInv, Sends

LEMMA PipeInvInit == Init => PipeInv
  <1> SUFFICES ASSUME Init PROVE PipeInv
    OBVIOUS
  <1>1. pipe = <<>> /\ receiving /\ \A x : ~InPipe(x)
    BY DEF Init, PipeInit, InPipe
  <1>2. SentOnce
    BY <1>1 DEF SentOnce, Distinct
  <1>3. NoneLost
    BY <1>1, PeerAssumption
       DEF Init, SessionInit, ManagerInit, NoneLost, FetchTracked, PortalRequestTracked
  <1> QED BY <1>1, <1>2, <1>3, InitTyped DEF PipeInv, NoneWaitsOnGoneManager

(* Whatever is ended, aborted or cancelled, and in whatever order: as long *)
(* as the manager is there, what is asked of it is in its pipe, once.      *)
THEOREM AskedIsThere == Spec => []NoneLost
  <1>1. PipeInv => NoneLost
    BY DEF PipeInv
  <1> QED BY <1>1, PipeInvInit, PipeInvStep, PTL DEF Spec

-----------------------------------------------------------------------------
(* What the library does to a session is all that a step does to it; End   *)
(* raises a flag that no fetch looks at.                                   *)
LEMMA ShutdownMove == [Next]_vars => SessionMove
  <1> SUFFICES ASSUME [Next]_vars PROVE SessionMove
    OBVIOUS
  <1>1. UNCHANGED sessionVars => SessionMove
    BY DEF sessionVars, SessionMove
  <1>2. ASSUME NEW s \in Sessions,
               RecvAbort(s) \/ RecvError(s) \/ RecvEnd(s) \/ CancelSession(s)
        PROVE  SessionMove
    BY <1>2 DEF RecvAbort, RecvError, RecvEnd, CancelSession, Ended, SessionMove
  <1>3. ASSUME NEW s \in Sessions, Accept(s) \/ \E r \in Requests : ConnectOk(r, s)
        PROVE  SessionMove
    BY <1>3 DEF Accept, ConnectOk, SessionMove
  <1>4. CASE SessionStep
    BY <1>2, <1>4 DEF SessionStep, SessionMove
  <1>5. CASE NetlayerStep
    BY <1>1, <1>2, <1>3, <1>5 DEF NetlayerStep, TakeRequest, AcceptError, SeeEnd, Return,
       RequestConnect, ConnectError
  <1>6. CASE RecvEvent
    BY <1>1, <1>6 DEF RecvEvent, RecvSessionStarted, RecvSessionAborted, SessionMove
  <1>7. CASE \/ \E s \in Sessions : Authenticate(s) \/ FulfillDone(s)
             \/ End \/ DropManager \/ DropLayers
    BY <1>1, <1>7 DEF Authenticate, FulfillDone, End, DropManager, DropLayers, SessionMove
  <1> QED BY <1>1, <1>4, <1>5, <1>6, <1>7 DEF Next, vars

LEMMA ShutdownServes ==
  TypeOK /\ ServeInv /\ [Next]_vars => ServeInv' /\ [Service!Next]_(Replies)
  BY StepTyped, ShutdownMove, ServeStep DEF TypeOK

(* Whenever the library is ended, and whatever its subtasks still do then, *)
(* a fetch is answered with a position that holds the object asked for.    *)
THEOREM AnswersStayRight == Spec => []AnswerMatchesExport
  <1>1. Init => ServeInv
    BY ServeInit DEF Init
  <1> QED BY <1>1, ShutdownServes, ServeKept, ShutdownTyped, PTL DEF Spec

(* The library keeps what FetchService promises to its very end: a promise *)
(* dropped with the manager fails the fetch and is no answer to it.        *)
THEOREM ServiceEnds == Spec => KeepsService
  <1>1. Init => Service!Init /\ ServeInv
    BY ServeInit DEF Init
  <1> QED BY <1>1, ShutdownServes, ServeKept, ShutdownTyped, PTL DEF Spec
=============================================================================
