----------------------------- MODULE NodeProofs -----------------------------
(***************************************************************************)
(* Proofs about Node, for any number of sessions, fetches and requests.    *)
(***************************************************************************)
EXTENDS Node, LibraryProofs

-----------------------------------------------------------------------------
(* Type correctness.                                                       *)

LEMMA LoopUnchanged ==
  ASSUME LoopTypeOK, UNCHANGED loopVars
  PROVE  LoopTypeOK'
  BY DEF LoopTypeOK, loopVars

LEMMA LibraryTyped ==
  ASSUME TypeOK, LibraryStep
  PROVE  TypeOK'
  <1> USE DEF TypeOK, aboveSession, aboveNetlayer
  <1>1. ASSUME NEW s \in Sessions, RecvAbort(s), UNCHANGED aboveSession
        PROVE  TypeOK'
    <2>1. PipeTypeOK' /\ SessionTypeOK'
      BY <1>1, EventsTyped, SendTyped, LeaveTyped DEF RecvAbort, Ended
    <2> QED BY <1>1, <2>1, NetlayerUnchanged, ManagerUnchanged, LoopUnchanged
  <1>2. ASSUME NEW s \in Sessions, RecvError(s), UNCHANGED aboveSession
        PROVE  TypeOK'
    <2>1. PipeTypeOK' /\ SessionTypeOK'
      BY <1>2, PipeUnchanged, LeaveTyped DEF RecvError, Ended
    <2> QED BY <1>2, <2>1, NetlayerUnchanged, ManagerUnchanged, LoopUnchanged
  <1>3. ASSUME NEW s \in Sessions, CancelSession(s), UNCHANGED aboveNetlayer
        PROVE  TypeOK'
    <2>1. PipeTypeOK' /\ SessionTypeOK' /\ NetlayerTypeOK'
      BY <1>3, PipeUnchanged, LeaveTyped, NetlayerUnchanged DEF CancelSession, Ended
    <2> QED BY <1>3, <2>1, ManagerUnchanged, LoopUnchanged
  <1>4. ASSUME NEW s \in Sessions, Accept(s), UNCHANGED aboveNetlayer
        PROVE  TypeOK'
    <2>1. PipeTypeOK' /\ SessionTypeOK' /\ NetlayerTypeOK'
      BY <1>4, StartTyped, NetlayerUnchanged DEF Accept
    <2> QED BY <1>4, <2>1, ManagerUnchanged, LoopUnchanged
  <1>5. ASSUME NEW s \in Sessions, NEW r \in Requests, ConnectOk(r, s),
               UNCHANGED aboveNetlayer
        PROVE  TypeOK'
    <2>1. PipeTypeOK' /\ SessionTypeOK'
      BY <1>5, StartTyped DEF ConnectOk
    <2>2. NetlayerTypeOK'
      BY <1>5, NetlayerTyped DEF NetlayerMove
    <2> QED BY <1>5, <2>1, <2>2, ManagerUnchanged, LoopUnchanged
  <1>6. ASSUME NEW s \in Sessions, Authenticate(s), UNCHANGED loopVars
        PROVE  TypeOK'
    <2>1. PipeTypeOK'
      BY <1>6, EventsTyped, SendTyped, PipeUnchanged DEF Authenticate
    <2>2. ManagerTypeOK'
      BY <1>6 DEF Authenticate, ManagerTypeOK, AuthStates
    <2> QED BY <1>6, <2>1, <2>2, SessionUnchanged, NetlayerUnchanged, LoopUnchanged
         DEF Authenticate
  <1>7. ASSUME NEW s \in Sessions, FulfillDone(s), UNCHANGED loopVars
        PROVE  TypeOK'
    <2>1. ManagerTypeOK'
      BY <1>7 DEF FulfillDone, ManagerTypeOK, AuthStates
    <2> QED BY <1>7, <2>1, PipeUnchanged, SessionUnchanged, NetlayerUnchanged, LoopUnchanged
         DEF FulfillDone
  <1>8. ASSUME NEW f \in Fetches, UNCHANGED aboveSession,
               \/ RecvFetch(f) \/ LookUp(f) \/ Export(f) \/ Register(f)
               \/ Refused(f) \/ Reply(f) \/ CancelSubtask(f)
        PROVE  TypeOK'
    BY <1>8, SubtaskTyped, NetlayerUnchanged, ManagerUnchanged, LoopUnchanged
  <1>9. ASSUME NEW r \in Requests, ConnectError(r), UNCHANGED aboveNetlayer
        PROVE  TypeOK'
    <2>1. NetlayerTypeOK'
      BY <1>9, NetlayerTyped DEF NetlayerMove
    <2> QED BY <1>9, <2>1, PipeUnchanged, SessionUnchanged, ManagerUnchanged, LoopUnchanged
         DEF ConnectError
  <1>10. ASSUME TakeRequest, UNCHANGED aboveNetlayer
         PROVE  TypeOK'
    <2>1. NetlayerTypeOK'
      BY <1>10, NetlayerTyped DEF NetlayerMove
    <2> QED BY <1>10, <2>1, PipeUnchanged, SessionUnchanged, ManagerUnchanged, LoopUnchanged
         DEF TakeRequest
  <1>11. ASSUME AcceptError, UNCHANGED aboveNetlayer
         PROVE  TypeOK'
    <2>1. NetlayerTypeOK'
      BY <1>11, NetlayerTyped DEF AcceptError, NetlayerMove
    <2> QED BY <1>11, <2>1, PipeUnchanged, SessionUnchanged, ManagerUnchanged, LoopUnchanged
         DEF AcceptError
  <1> QED BY <1>1, <1>2, <1>3, <1>4, <1>5, <1>6, <1>7, <1>8, <1>9, <1>10, <1>11
     DEF LibraryStep

LEMMA RecvEventTyped ==
  ASSUME TypeOK, RecvEvent
  PROVE  TypeOK'
  <1> USE DEF TypeOK
  <1>1. ASSUME NEW s \in Sessions, ChatSessionStarted(s)
        PROVE  TypeOK'
    <2>1. PipeTypeOK'
      BY <1>1, ReceiveTyped DEF ChatSessionStarted, RecvSessionStarted, NextEvent
    <2>2. ManagerTypeOK' /\ LoopTypeOK'
      BY <1>1 DEF ChatSessionStarted, RecvSessionStarted, ManagerTypeOK, LoopTypeOK
    <2> QED BY <1>1, <2>1, <2>2, SessionUnchanged, NetlayerUnchanged
         DEF ChatSessionStarted, RecvSessionStarted
  <1>2. ASSUME NEW s \in Sessions, ChatSessionAborted(s)
        PROVE  TypeOK'
    <2>1. PipeTypeOK'
      BY <1>2, ReceiveTyped DEF ChatSessionAborted, RecvSessionAborted, NextEvent
    <2>2. ManagerTypeOK' /\ LoopTypeOK'
      BY <1>2 DEF ChatSessionAborted, RecvSessionAborted, ManagerTypeOK, LoopTypeOK
    <2> QED BY <1>2, <2>1, <2>2, SessionUnchanged, NetlayerUnchanged
         DEF ChatSessionAborted, RecvSessionAborted
  <1>3. ASSUME NEW f \in Fetches, RecvFetchEvent(f), UNCHANGED loopVars
        PROVE  TypeOK'
    <2>1. PipeTypeOK'
      BY <1>3, ReceiveTyped DEF RecvFetchEvent, NextEvent
    <2>2. SessionTypeOK'
      BY <1>3 DEF RecvFetchEvent, SessionTypeOK, FetchStates, Pending
    <2> QED BY <1>3, <2>1, <2>2, NetlayerUnchanged, ManagerUnchanged, LoopUnchanged
         DEF RecvFetchEvent
  <1>4. ASSUME NEW s \in Sessions, RecvPortalRequest(s), UNCHANGED loopVars
        PROVE  TypeOK'
    <2>1. PipeTypeOK'
      BY <1>4, ReceiveTyped DEF RecvPortalRequest, NextEvent
    <2>2. SessionTypeOK'
      BY <1>4 DEF RecvPortalRequest, SessionTypeOK, Objects
    <2>3. ManagerTypeOK'
      BY <1>4, PeerAssumption DEF RecvPortalRequest, ManagerTypeOK, AuthStates
    <2> QED BY <1>4, <2>1, <2>2, <2>3, NetlayerUnchanged, LoopUnchanged
         DEF RecvPortalRequest
  <1> QED BY <1>1, <1>2, <1>3, <1>4 DEF RecvEvent

LEMMA LoopTyped ==
  ASSUME TypeOK, LoopStep
  PROVE  TypeOK'
  <1> USE DEF TypeOK
  <1>1. CASE RecvEvent
    BY <1>1, RecvEventTyped
  <1>2. ASSUME NEW s \in Sessions, OpenDone(s) \/ ListDone(s)
        PROVE  TypeOK'
    <2>1. LoopTypeOK'
      BY <1>2 DEF OpenDone, ListDone, LoopTypeOK
    <2> QED BY <1>2, <2>1, PipeUnchanged, SessionUnchanged, NetlayerUnchanged, ManagerUnchanged
         DEF OpenDone, ListDone
  <1>3. ASSUME NEW s \in Sessions, JoinOpened(s) \/ JoinOpenError(s) \/ JoinListed(s)
        PROVE  TypeOK'
    <2>1. LoopTypeOK'
      BY <1>3 DEF JoinOpened, JoinOpenError, JoinListed, LoopTypeOK
    <2> QED BY <1>3, <2>1, DropTyped, PipeUnchanged, SessionUnchanged, NetlayerUnchanged
         DEF JoinOpened, JoinOpenError, JoinListed
  <1>4. ASSUME NEW r \in Requests, OpenPortal(r)
        PROVE  TypeOK'
    BY <1>4, NetlayerTyped, DropTyped, PipeUnchanged, SessionUnchanged, LoopUnchanged
       DEF OpenPortal, RequestConnect, NetlayerMove
  <1>5. ASSUME NEW r \in Requests, Introduce(r)
        PROVE  TypeOK'
    BY <1>5, NetlayerTyped, ManagerUnchanged, PipeUnchanged, SessionUnchanged, LoopUnchanged
       DEF Introduce, RequestConnect, NetlayerMove
  <1> QED BY <1>1, <1>2, <1>3, <1>4, <1>5 DEF LoopStep

LEMMA StepTyped == TypeOK /\ [Next]_vars => TypeOK'
  <1>1. ASSUME TypeOK, UNCHANGED vars
        PROVE  TypeOK'
    BY <1>1, PipeUnchanged, SessionUnchanged, NetlayerUnchanged, ManagerUnchanged, LoopUnchanged
       DEF TypeOK, vars
  <1> QED BY <1>1, LibraryTyped, LoopTyped DEF Next

LEMMA InitTyped == Init => TypeOK
  BY LibraryInitTyped DEF Init, TypeOK, LoopInit, LoopTypeOK

(* Every variable keeps its type, whatever the tasks, the peers, the       *)
(* network and the user do.                                                *)
THEOREM TypeCorrect == Spec => []TypeOK
  BY InitTyped, StepTyped, PTL DEF Spec

-----------------------------------------------------------------------------
(* What is in the pipe.                                                    *)

LEMMA EventSession ==
  /\ \A s : SessionStarted(s).session = s
  /\ \A s : SessionAborted(s).session = s
  /\ \A s : PortalRequest(s).session = s
  /\ \A s, f : Fetch(s, f).session = s
  BY DEF SessionStarted, SessionAborted, PortalRequest, Fetch

LEMMA AboutIn ==
  /\ \A s : AnyAbout(s) <=> \E x : InPipe(x) /\ x.session = s
  /\ \A s : AnyAbout(s)' <=> \E x : InPipe(x)' /\ x.session = s
  BY DEF AnyAbout, InPipe

LEMMA PipeSessions ==
  ASSUME PipeTypeOK
  PROVE  \A i \in 1 .. Len(pipe) : pipe[i].session \in Sessions
  <1>1. \A i \in 1 .. Len(pipe) : pipe[i] \in NetworkEvent
    BY DEF PipeTypeOK
  <1> QED BY <1>1 DEF NetworkEvent

(* AnnouncedFirst is about the order of the pipe. An event put in last     *)
(* keeps it if its session has been announced; taking the first one out    *)
(* keeps it if an announcement taken out is remembered in open.            *)
LEMMA SendAnnounced ==
  ASSUME PipeTypeOK, receiving, AnnouncedFirst, NEW e \in NetworkEvent, Send(e),
         \A s \in Sessions : open[s] # "none" => open'[s] # "none",
         \/ e = SessionStarted(e.session)
         \/ open[e.session] # "none"
         \/ InPipe(SessionStarted(e.session))
  PROVE  AnnouncedFirst'
  <1>0. /\ e.session \in Sessions
        /\ \A i \in 1 .. Len(pipe) : pipe[i].session \in Sessions
    BY PipeSessions DEF NetworkEvent
  <1>1. /\ Len(pipe) \in Nat /\ Len(pipe') = Len(pipe) + 1
        /\ \A i \in 1 .. Len(pipe) : pipe'[i] = pipe[i]
        /\ pipe'[Len(pipe) + 1] = e
    BY DEF PipeTypeOK, Send
  <1> SUFFICES ASSUME NEW i \in 1 .. Len(pipe'),
                      pipe'[i] # SessionStarted(pipe'[i].session)
               PROVE  \/ open'[pipe'[i].session] # "none"
                      \/ \E j \in 1 .. i - 1 : pipe'[j] = SessionStarted(pipe'[i].session)
    BY DEF AnnouncedFirst
  <1>2. CASE i \in 1 .. Len(pipe)
    <2>1. \/ open[pipe[i].session] # "none"
          \/ \E j \in 1 .. i - 1 : pipe[j] = SessionStarted(pipe[i].session)
      BY <1>1, <1>2 DEF AnnouncedFirst
    <2>2. \A j \in 1 .. i - 1 : pipe'[j] = pipe[j]
      BY <1>1, <1>2
    <2> QED BY <1>0, <1>1, <1>2, <2>1, <2>2
  <1>3. CASE i = Len(pipe) + 1
    BY <1>0, <1>1, <1>3 DEF InPipe
  <1> QED BY <1>1, <1>2, <1>3

LEMMA ReceiveAnnounced ==
  ASSUME PipeTypeOK, AnnouncedFirst, NEW e, Receive(e),
         \A s \in Sessions : open[s] # "none" => open'[s] # "none",
         \A s \in Sessions : e = SessionStarted(s) => open'[s] # "none"
  PROVE  AnnouncedFirst'
  <1>1. /\ Len(pipe) \in Nat \ {0} /\ Len(pipe') = Len(pipe) - 1
        /\ \A i \in 1 .. Len(pipe') : pipe'[i] = pipe[i + 1]
        /\ pipe[1] = e
    BY DEF PipeTypeOK, Receive
  <1> SUFFICES ASSUME NEW i \in 1 .. Len(pipe'),
                      pipe'[i] # SessionStarted(pipe'[i].session)
               PROVE  \/ open'[pipe'[i].session] # "none"
                      \/ \E j \in 1 .. i - 1 : pipe'[j] = SessionStarted(pipe'[i].session)
    BY DEF AnnouncedFirst
  <1> DEFINE s == pipe[i + 1].session
  <1>2. i + 1 \in 1 .. Len(pipe) /\ pipe'[i] = pipe[i + 1]
    BY <1>1
  <1>. s \in Sessions
    BY <1>2, PipeSessions
  <1>3. open[s] # "none" \/ \E j \in 1 .. i : pipe[j] = SessionStarted(s)
    BY <1>2 DEF AnnouncedFirst
  <1>4. CASE open[s] # "none"
    BY <1>2, <1>4
  <1>5. ASSUME NEW j \in 1 .. i, pipe[j] = SessionStarted(s)
        PROVE  open'[s] # "none" \/ \E k \in 1 .. i - 1 : pipe'[k] = SessionStarted(s)
    <2>1. CASE j = 1
      BY <1>1, <1>2, <1>5, <2>1
    <2>2. CASE j # 1
      <3>1. j - 1 \in 1 .. i - 1 /\ j - 1 \in 1 .. Len(pipe') /\ pipe'[j - 1] = pipe[j]
        BY <1>1, <2>2
      <3> QED BY <1>5, <3>1
    <2> QED BY <2>1, <2>2
  <1> QED BY <1>2, <1>3, <1>4, <1>5

-----------------------------------------------------------------------------
(* The inductive invariant. IndInv is TypeOK and Rest.                     *)
Rest ==
  /\ receiving
  /\ Distinct /\ SessionTracked /\ FetchStarted
  /\ AnnouncedFirst /\ ForgottenIffAborted /\ FetchTracked /\ PortalRequestTracked

(* Most steps leave the pipe and the registry of sessions alone: a session *)
(* may end other than by its peer's abort, a fetch may go on after its     *)
(* answer, an open portal request may end.                                 *)
LEMMA QuietStep ==
  ASSUME IndInv,
         UNCHANGED <<pipe, receiving, sessions>>,
         \A s \in Sessions : \/ task'[s] = task[s]
                             \/ task[s] = "running" /\ task'[s] \in Ended \ {"aborted"},
         \A s \in Sessions : open'[s] = "none" <=> open[s] = "none",
         \A f \in Fetches : \/ fetch'[f] = fetch[f]
                            \/ fetch[f] = "asked" /\ fetch'[f] = "cancelled"
                            \/ /\ fetch[f] \notin {"asked", "cancelled"}
                               /\ fetch'[f] # "asked"
                               /\ task[FetchSession[f]] # "none",
         \A s \in Sessions : /\ auth'[s] = "queued" <=> auth[s] = "queued"
                             /\ auth'[s] = "fulfilling" <=> fulfilling' = s
  PROVE  Rest'
  <1>1. \A x : InPipe(x)' <=> InPipe(x)
    BY DEF InPipe
  <1>2. receiving' /\ Distinct'
    BY DEF IndInv, Distinct
  <1>3. SessionTracked'
    <2>1. \A s : AnyAbout(s)' <=> AnyAbout(s)
      BY <1>1, AboutIn
    <2> QED BY <1>1, <2>1 DEF IndInv, SessionTracked, Ended
  <1>4. FetchStarted'
    BY FetchAssumption DEF IndInv, FetchStarted, Ended
  <1>5. AnnouncedFirst'
    BY PipeSessions DEF IndInv, TypeOK, AnnouncedFirst
  <1>6. ForgottenIffAborted'
    BY <1>1 DEF IndInv, ForgottenIffAborted, Ended
  <1>7. FetchTracked'
    BY <1>1 DEF IndInv, FetchTracked
  <1>8. PortalRequestTracked'
    BY <1>1 DEF IndInv, PortalRequestTracked
  <1> QED BY <1>2, <1>3, <1>4, <1>5, <1>6, <1>7, <1>8 DEF Rest

LEMMA StartRest ==
  ASSUME IndInv, NEW s \in Sessions, StartSession(s), UNCHANGED aboveNetlayer
  PROVE  Rest'
  <1> DEFINE e == SessionStarted(s)
  <1>1. e \in NetworkEvent /\ Send(e)
    BY EventsTyped DEF StartSession
  <1>2. \A x : InPipe(x) => x.session # s
    BY AboutIn DEF IndInv, SessionTracked, StartSession
  <1>3. Distinct' /\ \A x : InPipe(x)' <=> InPipe(x) \/ x = e
    BY <1>1, <1>2, EventSession, SendIn DEF IndInv, TypeOK
  <1>4. receiving'
    BY <1>1 DEF Send, IndInv
  <1>5. \A t \in Sessions : task'[t] = IF t = s THEN "running" ELSE task[t]
    BY DEF IndInv, TypeOK, SessionTypeOK, StartSession
  <1>6. UNCHANGED <<fetch, open, sessions, auth, fulfilling>> /\ task[s] = "none"
    BY DEF StartSession, aboveNetlayer, managerVars, loopVars
  <1>7. AnnouncedFirst'
    BY <1>1, <1>6, EventSession, SendAnnounced DEF IndInv, TypeOK
  <1>8. \A t \in Sessions : AnyAbout(t)' <=> AnyAbout(t) \/ t = s
    BY <1>3, AboutIn, EventSession
  <1>9. SessionTracked'
    BY <1>3, <1>5, <1>6, <1>8, EventsDiffer, EventSession, <1>2 DEF IndInv, SessionTracked
  <1>10. FetchStarted'
    BY <1>5, <1>6, FetchAssumption DEF IndInv, FetchStarted
  <1>11. ForgottenIffAborted'
    BY <1>3, <1>5, <1>6, EventsDiffer DEF IndInv, ForgottenIffAborted, SessionTracked
  <1>12. FetchTracked'
    BY <1>3, <1>6, EventsDiffer DEF IndInv, FetchTracked
  <1>13. PortalRequestTracked'
    BY <1>3, <1>6, EventsDiffer DEF IndInv, PortalRequestTracked
  <1> QED BY <1>3, <1>4, <1>7, <1>9, <1>10, <1>11, <1>12, <1>13 DEF Rest

LEMMA AbortRest ==
  ASSUME IndInv, NEW s \in Sessions, RecvAbort(s), UNCHANGED aboveSession
  PROVE  Rest'
  <1> DEFINE e == SessionAborted(s)
  <1>1. e \in NetworkEvent /\ Send(e)
    BY EventsTyped DEF RecvAbort
  <1>2. task[s] = "running" /\ ~InPipe(e)
    BY DEF IndInv, SessionTracked, RecvAbort, LeaveLoop
  <1>3. Distinct' /\ \A x : InPipe(x)' <=> InPipe(x) \/ x = e
    BY <1>1, <1>2, SendIn DEF IndInv, TypeOK
  <1>4. receiving'
    BY <1>1 DEF Send, IndInv
  <1>5. \A t \in Sessions : task'[t] = IF t = s THEN "aborted" ELSE task[t]
    BY DEF IndInv, TypeOK, SessionTypeOK, RecvAbort, LeaveLoop
  <1>6. UNCHANGED <<fetch, open, sessions, auth, fulfilling>>
    BY DEF RecvAbort, LeaveLoop, aboveSession, managerVars, loopVars
  <1>7. AnnouncedFirst'
    <2>1. open[s] # "none" \/ InPipe(SessionStarted(s))
      BY <1>2 DEF IndInv, SessionTracked
    <2> QED BY <1>1, <1>6, <2>1, EventSession, SendAnnounced DEF IndInv, TypeOK
  <1>8. \A t \in Sessions : AnyAbout(t)' <=> AnyAbout(t) \/ t = s
    BY <1>3, AboutIn, EventSession
  <1>9. SessionTracked'
    BY <1>2, <1>3, <1>5, <1>6, <1>8, EventsDiffer DEF IndInv, SessionTracked
  <1>10. FetchStarted'
    BY <1>2, <1>5, <1>6, FetchAssumption DEF IndInv, FetchStarted
  <1>11. ForgottenIffAborted'
    BY <1>2, <1>3, <1>5, <1>6, EventsDiffer DEF IndInv, ForgottenIffAborted
  <1>12. FetchTracked'
    BY <1>3, <1>6, EventsDiffer DEF IndInv, FetchTracked
  <1>13. PortalRequestTracked'
    BY <1>3, <1>6, EventsDiffer DEF IndInv, PortalRequestTracked
  <1> QED BY <1>3, <1>4, <1>7, <1>9, <1>10, <1>11, <1>12, <1>13 DEF Rest

(* A lookup that finds nothing asks the manager.                           *)
LEMMA AskRest ==
  ASSUME IndInv, NEW f \in Fetches, UNCHANGED aboveSession,
         fetch[f] = "spawned", Send(Fetch(FetchSession[f], f)),
         fetch' = [fetch EXCEPT ![f] = "asked"],
         UNCHANGED task
  PROVE  Rest'
  <1> DEFINE s == FetchSession[f]
  <1> DEFINE e == Fetch(s, f)
  <1>1. s \in Sessions /\ e \in NetworkEvent
    BY FetchAssumption, EventsTyped
  <1>2. task[s] # "none" /\ ~InPipe(e)
    BY DEF IndInv, FetchStarted, FetchTracked
  <1>3. Distinct' /\ \A x : InPipe(x)' <=> InPipe(x) \/ x = e
    BY <1>1, <1>2, SendIn DEF IndInv, TypeOK
  <1>4. receiving'
    BY DEF Send, IndInv
  <1>5. \A g \in Fetches : fetch'[g] = IF g = f THEN "asked" ELSE fetch[g]
    BY DEF IndInv, TypeOK, SessionTypeOK
  <1>6. UNCHANGED <<open, sessions, auth, fulfilling>>
    BY DEF aboveSession, managerVars, loopVars
  <1>7. AnnouncedFirst'
    <2>1. open[s] # "none" \/ InPipe(SessionStarted(s))
      BY <1>1, <1>2 DEF IndInv, SessionTracked
    <2> QED BY <1>1, <1>6, <2>1, EventSession, SendAnnounced DEF IndInv, TypeOK
  <1>8. \A t \in Sessions : AnyAbout(t)' <=> AnyAbout(t) \/ t = s
    BY <1>3, AboutIn, EventSession
  <1>9. SessionTracked'
    BY <1>2, <1>3, <1>6, <1>8, EventsDiffer DEF IndInv, SessionTracked
  <1>10. FetchStarted'
    BY <1>2, <1>5 DEF IndInv, FetchStarted
  <1>11. ForgottenIffAborted'
    BY <1>3, <1>6, EventsDiffer DEF IndInv, ForgottenIffAborted
  <1>12. FetchTracked'
    BY <1>3, <1>5, EventsDiffer DEF IndInv, FetchTracked
  <1>13. PortalRequestTracked'
    BY <1>3, <1>6, EventsDiffer DEF IndInv, PortalRequestTracked
  <1> QED BY <1>3, <1>4, <1>7, <1>9, <1>10, <1>11, <1>12, <1>13 DEF Rest

(* A good signature is passed on to the manager.                           *)
LEMMA RequestRest ==
  ASSUME IndInv, NEW s \in Sessions, task[s] = "running", auth[s] = "none",
         Send(PortalRequest(s)), auth' = [auth EXCEPT ![s] = "queued"],
         UNCHANGED <<task, fetch, open, sessions, fulfilling>>
  PROVE  Rest'
  <1> DEFINE e == PortalRequest(s)
  <1>1. e \in NetworkEvent
    BY EventsTyped
  <1>2. ~InPipe(e)
    BY DEF IndInv, PortalRequestTracked
  <1>3. Distinct' /\ \A x : InPipe(x)' <=> InPipe(x) \/ x = e
    BY <1>1, <1>2, SendIn DEF IndInv, TypeOK
  <1>4. receiving'
    BY DEF Send, IndInv
  <1>5. \A t \in Sessions : auth'[t] = IF t = s THEN "queued" ELSE auth[t]
    BY DEF IndInv, TypeOK, ManagerTypeOK
  <1>6. AnnouncedFirst'
    <2>1. open[s] # "none" \/ InPipe(SessionStarted(s))
      BY DEF IndInv, SessionTracked
    <2> QED BY <1>1, <2>1, EventSession, SendAnnounced DEF IndInv, TypeOK
  <1>7. \A t \in Sessions : AnyAbout(t)' <=> AnyAbout(t) \/ t = s
    BY <1>3, AboutIn, EventSession
  <1>8. SessionTracked'
    BY <1>3, <1>7, EventsDiffer DEF IndInv, SessionTracked
  <1>9. FetchStarted'
    BY DEF IndInv, FetchStarted
  <1>10. ForgottenIffAborted'
    BY <1>3, EventsDiffer DEF IndInv, ForgottenIffAborted
  <1>11. FetchTracked'
    BY <1>3, EventsDiffer DEF IndInv, FetchTracked
  <1>12. PortalRequestTracked'
    BY <1>3, <1>5, EventsDiffer DEF IndInv, PortalRequestTracked
  <1> QED BY <1>3, <1>4, <1>6, <1>8, <1>9, <1>10, <1>11, <1>12 DEF Rest

(* What every arm of recv_event keeps.                                     *)
LEMMA ReceiveRest ==
  ASSUME IndInv, NEW e, Receive(e), UNCHANGED task,
         \A s \in Sessions : open[s] # "none" => open'[s] # "none",
         \A s \in Sessions : e = SessionStarted(s) => open'[s] # "none"
  PROVE  /\ receiving' /\ Distinct' /\ AnnouncedFirst'
         /\ InPipe(e) /\ \A x : InPipe(x)' <=> InPipe(x) /\ x # e
         /\ \A s : AnyAbout(s)' => AnyAbout(s)
  <1>1. /\ InPipe(e) /\ Distinct'
        /\ \A x : InPipe(x)' <=> InPipe(x) /\ x # e
    BY ReceiveIn DEF IndInv, TypeOK
  <1>2. AnnouncedFirst'
    BY ReceiveAnnounced DEF IndInv, TypeOK
  <1>3. \A s : AnyAbout(s)' => AnyAbout(s)
    BY <1>1, AboutIn
  <1>4. receiving'
    BY DEF Receive, IndInv
  <1> QED BY <1>1, <1>2, <1>3, <1>4

LEMMA StartedRest ==
  ASSUME IndInv, NEW s \in Sessions, ChatSessionStarted(s)
  PROVE  Rest'
  <1> DEFINE e == SessionStarted(s)
  <1>1. Receive(e) /\ UNCHANGED <<task, fetch, auth, fulfilling>>
    BY DEF ChatSessionStarted, RecvSessionStarted, NextEvent, sessionVars
  <1>2. /\ \A t \in Sessions : open'[t] = IF t = s THEN "running" ELSE open[t]
        /\ \A t \in Sessions : open[t] # "none" => open'[t] # "none"
        /\ sessions' = sessions \cup {s}
    BY DEF ChatSessionStarted, RecvSessionStarted, IndInv, TypeOK, LoopTypeOK
  <1>3. /\ receiving' /\ Distinct' /\ AnnouncedFirst'
        /\ InPipe(e) /\ \A x : InPipe(x)' <=> InPipe(x) /\ x # e
        /\ \A t : AnyAbout(t)' => AnyAbout(t)
    BY <1>1, <1>2, EventsDiffer, ReceiveRest
  <1>4. task[s] # "none" /\ open[s] = "none"
    BY <1>3 DEF IndInv, SessionTracked
  <1>5. SessionTracked'
    BY <1>1, <1>2, <1>3, <1>4, EventsDiffer DEF IndInv, SessionTracked
  <1>6. FetchStarted'
    BY <1>1 DEF IndInv, FetchStarted
  <1>7. ForgottenIffAborted'
    BY <1>1, <1>2, <1>3, <1>4, EventsDiffer DEF IndInv, ForgottenIffAborted, SessionTracked
  <1>8. FetchTracked'
    BY <1>1, <1>3, EventsDiffer DEF IndInv, FetchTracked
  <1>9. PortalRequestTracked'
    BY <1>1, <1>3, EventsDiffer DEF IndInv, PortalRequestTracked
  <1> QED BY <1>3, <1>5, <1>6, <1>7, <1>8, <1>9 DEF Rest

LEMMA AbortedRest ==
  ASSUME IndInv, NEW s \in Sessions, ChatSessionAborted(s)
  PROVE  Rest'
  <1> DEFINE e == SessionAborted(s)
  <1>1. /\ Receive(e) /\ UNCHANGED <<task, fetch, auth, fulfilling, open>>
        /\ sessions' = sessions \ {s}
    BY DEF ChatSessionAborted, RecvSessionAborted, NextEvent, sessionVars
  <1>2. /\ receiving' /\ Distinct' /\ AnnouncedFirst'
        /\ InPipe(e) /\ \A x : InPipe(x)' <=> InPipe(x) /\ x # e
        /\ \A t : AnyAbout(t)' => AnyAbout(t)
    BY <1>1, EventsDiffer, ReceiveRest
  <1>3. task[s] = "aborted"
    BY <1>2 DEF IndInv, SessionTracked
  <1>4. open[s] # "none"
    <2>1. Len(pipe) \in Nat \ {0} /\ pipe[1] = e
      BY <1>1 DEF Receive, IndInv, TypeOK, PipeTypeOK
    <2>2. pipe[1].session = s /\ pipe[1] # SessionStarted(s)
      BY <2>1, EventsDiffer, EventSession
    <2> QED BY <2>1, <2>2 DEF IndInv, AnnouncedFirst
  <1>5. SessionTracked'
    BY <1>1, <1>2, <1>3, <1>4, EventsDiffer DEF IndInv, SessionTracked
  <1>6. FetchStarted'
    BY <1>1 DEF IndInv, FetchStarted
  <1>7. ForgottenIffAborted'
    BY <1>1, <1>2, <1>3, EventsDiffer DEF IndInv, ForgottenIffAborted
  <1>8. FetchTracked'
    BY <1>1, <1>2, EventsDiffer DEF IndInv, FetchTracked
  <1>9. PortalRequestTracked'
    BY <1>1, <1>2, EventsDiffer DEF IndInv, PortalRequestTracked
  <1> QED BY <1>2, <1>5, <1>6, <1>7, <1>8, <1>9 DEF Rest

LEMMA FetchEventRest ==
  ASSUME IndInv, NEW f \in Fetches, RecvFetchEvent(f), UNCHANGED loopVars
  PROVE  Rest'
  <1> DEFINE e == Fetch(FetchSession[f], f)
  <1>1. Receive(e) /\ UNCHANGED <<task, auth, fulfilling, open, sessions>>
    BY DEF RecvFetchEvent, NextEvent, managerVars, loopVars
  <1>2. /\ \A g \in Fetches : g # f => fetch'[g] = fetch[g]
        /\ fetch[f] # "asked" => fetch'[f] = fetch[f]
        /\ fetch[f] = "asked" => fetch'[f] \in {"resolved", "refused"}
    BY DEF RecvFetchEvent, IndInv, TypeOK, SessionTypeOK
  <1>3. /\ receiving' /\ Distinct' /\ AnnouncedFirst'
        /\ InPipe(e) /\ \A x : InPipe(x)' <=> InPipe(x) /\ x # e
        /\ \A t : AnyAbout(t)' => AnyAbout(t)
    BY <1>1, EventsDiffer, ReceiveRest
  <1>4. SessionTracked'
    BY <1>1, <1>3, EventsDiffer DEF IndInv, SessionTracked
  <1>5. FetchStarted'
    BY <1>1, <1>2 DEF IndInv, FetchStarted
  <1>6. ForgottenIffAborted'
    BY <1>1, <1>3, EventsDiffer DEF IndInv, ForgottenIffAborted
  <1>7. FetchTracked'
    BY <1>2, <1>3, EventsDiffer DEF IndInv, FetchTracked
  <1>8. PortalRequestTracked'
    BY <1>1, <1>3, EventsDiffer DEF IndInv, PortalRequestTracked
  <1> QED BY <1>3, <1>4, <1>5, <1>6, <1>7, <1>8 DEF Rest

LEMMA PortalRequestRest ==
  ASSUME IndInv, NEW s \in Sessions, RecvPortalRequest(s), UNCHANGED loopVars
  PROVE  Rest'
  <1> DEFINE e == PortalRequest(s)
  <1>1. /\ Receive(e) /\ UNCHANGED <<task, fetch, open, sessions>>
        /\ fulfilling = NoSession /\ fulfilling' = s
    BY DEF RecvPortalRequest, NextEvent, loopVars
  <1>2. \A t \in Sessions : auth'[t] = IF t = s THEN "fulfilling" ELSE auth[t]
    BY DEF RecvPortalRequest, IndInv, TypeOK, ManagerTypeOK
  <1>3. /\ receiving' /\ Distinct' /\ AnnouncedFirst'
        /\ InPipe(e) /\ \A x : InPipe(x)' <=> InPipe(x) /\ x # e
        /\ \A t : AnyAbout(t)' => AnyAbout(t)
    BY <1>1, EventsDiffer, ReceiveRest
  <1>4. SessionTracked'
    BY <1>1, <1>3, EventsDiffer DEF IndInv, SessionTracked
  <1>5. FetchStarted'
    BY <1>1 DEF IndInv, FetchStarted
  <1>6. ForgottenIffAborted'
    BY <1>1, <1>3, EventsDiffer DEF IndInv, ForgottenIffAborted
  <1>7. FetchTracked'
    BY <1>1, <1>3, EventsDiffer DEF IndInv, FetchTracked
  <1>8. PortalRequestTracked'
    BY <1>1, <1>2, <1>3, EventsDiffer, PeerAssumption DEF IndInv, PortalRequestTracked
  <1> QED BY <1>3, <1>4, <1>5, <1>6, <1>7, <1>8 DEF Rest

LEMMA DropQuiet ==
  ASSUME IndInv, DropRecvEvent, NEW s \in Sessions
  PROVE  /\ auth'[s] = "queued" <=> auth[s] = "queued"
         /\ auth'[s] = "fulfilling" <=> fulfilling' = s
  BY PeerAssumption DEF DropRecvEvent, IndInv, PortalRequestTracked

LEMMA LibraryRest ==
  ASSUME IndInv, LibraryStep
  PROVE  Rest'
  <1> USE DEF aboveSession, aboveNetlayer, managerVars, loopVars
  <1>0. /\ \A s \in Sessions : auth[s] = "fulfilling" <=> fulfilling = s
        /\ receiving
    BY DEF IndInv, PortalRequestTracked
  <1>1. ASSUME NEW s \in Sessions, RecvAbort(s), UNCHANGED aboveSession
        PROVE  Rest'
    BY <1>1, AbortRest
  <1>2. ASSUME NEW s \in Sessions, NEW how \in Ended \ {"aborted"}, LeaveLoop(s, how),
               UNCHANGED pipeVars, UNCHANGED aboveNetlayer
        PROVE  Rest'
    <2>1. \A t \in Sessions : \/ task'[t] = task[t]
                              \/ task[t] = "running" /\ task'[t] \in Ended \ {"aborted"}
      BY <1>2 DEF LeaveLoop, IndInv, TypeOK, SessionTypeOK
    <2> QED BY <1>0, <1>2, <2>1, QuietStep DEF LeaveLoop, pipeVars
  <1>3. ASSUME NEW s \in Sessions, RecvError(s), UNCHANGED aboveSession
        PROVE  Rest'
    BY <1>2, <1>3 DEF RecvError, Ended
  <1>4. ASSUME NEW s \in Sessions, CancelSession(s), UNCHANGED aboveNetlayer
        PROVE  Rest'
    BY <1>2, <1>4 DEF CancelSession, Ended
  <1>5. ASSUME NEW s \in Sessions, UNCHANGED aboveNetlayer,
               Accept(s) \/ \E r \in Requests : ConnectOk(r, s)
        PROVE  Rest'
    BY <1>5, StartRest DEF Accept, ConnectOk
  <1>6. ASSUME NEW s \in Sessions, Authenticate(s), UNCHANGED loopVars
        PROVE  Rest'
    <2>1. task[s] = "running" /\ auth[s] = "none"
          /\ UNCHANGED <<task, fetch, open, sessions, fulfilling>>
      BY <1>6 DEF Authenticate, sessionVars
    <2>2. CASE auth' = [auth EXCEPT ![s] = "rejected"] /\ UNCHANGED pipeVars
      <3>1. \A t \in Sessions : /\ auth'[t] = "queued" <=> auth[t] = "queued"
                                /\ auth'[t] = "fulfilling" <=> fulfilling' = t
        BY <1>0, <2>1, <2>2 DEF IndInv, TypeOK, ManagerTypeOK
      <3> QED BY <2>1, <2>2, <3>1, QuietStep DEF pipeVars
    <2>3. CASE Send(PortalRequest(s)) /\ auth' = [auth EXCEPT ![s] = "queued"]
      BY <2>1, <2>3, RequestRest
    <2> QED BY <1>0, <1>6, <2>2, <2>3 DEF Authenticate
  <1>7. ASSUME NEW s \in Sessions, FulfillDone(s), UNCHANGED loopVars
        PROVE  Rest'
    <2>1. \A t \in Sessions : /\ auth'[t] = "queued" <=> auth[t] = "queued"
                              /\ auth'[t] = "fulfilling" <=> fulfilling' = t
      BY <1>0, <1>7, PeerAssumption DEF FulfillDone, IndInv, TypeOK, ManagerTypeOK
    <2> QED BY <1>7, <2>1, QuietStep DEF FulfillDone, pipeVars, sessionVars
  <1>8. ASSUME NEW f \in Fetches, LookUp(f), UNCHANGED aboveSession
        PROVE  Rest'
    <2>1. CASE UNCHANGED pipeVars /\ fetch' = [fetch EXCEPT ![f] = "fulfilling"]
      <3>1. task[FetchSession[f]] # "none"
        BY <1>8 DEF LookUp, IndInv, FetchStarted
      <3> QED BY <1>0, <1>8, <2>1, <3>1, QuietStep
           DEF LookUp, pipeVars, IndInv, TypeOK, SessionTypeOK
    <2>2. CASE Send(Fetch(FetchSession[f], f)) /\ fetch' = [fetch EXCEPT ![f] = "asked"]
      BY <1>8, <2>2, AskRest DEF LookUp
    <2> QED BY <1>0, <1>8, <2>1, <2>2 DEF LookUp
  <1>9. ASSUME NEW f \in Fetches, UNCHANGED aboveSession,
               RecvFetch(f) \/ Export(f) \/ Register(f) \/ Refused(f) \/ Reply(f)
        PROVE  Rest'
    <2>1. UNCHANGED pipeVars /\ UNCHANGED task
      BY <1>9 DEF RecvFetch, Export, Register, Refused, Reply
    <2>2. /\ \A g \in Fetches : g # f => fetch'[g] = fetch[g]
          /\ fetch[f] \notin {"asked", "cancelled"} /\ fetch'[f] # "asked"
      BY <1>0, <1>9 DEF RecvFetch, Export, Register, Refused, Reply, IndInv, TypeOK, SessionTypeOK
    <2>3. task[FetchSession[f]] # "none"
      BY <1>9 DEF RecvFetch, Export, Register, Refused, Reply, IndInv, FetchStarted
    <2> QED BY <1>0, <1>9, <2>1, <2>2, <2>3, QuietStep DEF pipeVars
  <1>10. ASSUME NEW f \in Fetches, CancelSubtask(f), UNCHANGED aboveSession
         PROVE  Rest'
    <2>1. /\ \A g \in Fetches : g # f => fetch'[g] = fetch[g]
          /\ fetch[f] \in Pending /\ fetch'[f] = "cancelled"
          /\ task[FetchSession[f]] # "none"
      BY <1>10 DEF CancelSubtask, IndInv, TypeOK, SessionTypeOK, Ended
    <2> QED BY <1>0, <1>10, <2>1, QuietStep DEF CancelSubtask, pipeVars, Pending
  <1>11. ASSUME UNCHANGED aboveNetlayer,
                TakeRequest \/ AcceptError \/ \E r \in Requests : ConnectError(r)
         PROVE  Rest'
    BY <1>0, <1>11, QuietStep DEF TakeRequest, AcceptError, ConnectError, pipeVars, sessionVars
  <1> QED BY <1>1, <1>3, <1>4, <1>5, <1>6, <1>7, <1>8, <1>9, <1>10, <1>11 DEF LibraryStep

LEMMA LoopRest ==
  ASSUME IndInv, LoopStep
  PROVE  Rest'
  <1>0. \A s \in Sessions : auth[s] = "fulfilling" <=> fulfilling = s
    BY DEF IndInv, PortalRequestTracked
  <1>1. CASE RecvEvent
    BY <1>1, StartedRest, AbortedRest, FetchEventRest, PortalRequestRest DEF RecvEvent
  <1>2. ASSUME NEW s \in Sessions, OpenDone(s) \/ ListDone(s)
        PROVE  Rest'
    <2>1. \A t \in Sessions : open'[t] = "none" <=> open[t] = "none"
      BY <1>2 DEF OpenDone, ListDone, IndInv, TypeOK, LoopTypeOK
    <2> QED BY <1>0, <1>2, <2>1, QuietStep
         DEF OpenDone, ListDone, pipeVars, sessionVars, managerVars
  <1>3. ASSUME NEW s \in Sessions, JoinOpened(s) \/ JoinOpenError(s) \/ JoinListed(s)
        PROVE  Rest'
    <2>1. \A t \in Sessions : open'[t] = "none" <=> open[t] = "none"
      BY <1>3 DEF JoinOpened, JoinOpenError, JoinListed, IndInv, TypeOK, LoopTypeOK
    <2>2. DropRecvEvent /\ UNCHANGED <<pipeVars, sessionVars>>
      BY <1>3 DEF JoinOpened, JoinOpenError, JoinListed
    <2> QED BY <2>1, <2>2, DropQuiet, QuietStep DEF DropRecvEvent, pipeVars, sessionVars
  <1>4. ASSUME NEW r \in Requests, OpenPortal(r)
        PROVE  Rest'
    BY <1>4, DropQuiet, QuietStep
       DEF OpenPortal, RequestConnect, DropRecvEvent, pipeVars, sessionVars, loopVars
  <1>5. ASSUME NEW r \in Requests, Introduce(r)
        PROVE  Rest'
    BY <1>0, <1>5, QuietStep
       DEF Introduce, RequestConnect, pipeVars, sessionVars, managerVars, loopVars
  <1> QED BY <1>1, <1>2, <1>3, <1>4, <1>5 DEF LoopStep

LEMMA IndInvInit == Init => IndInv
  <1> SUFFICES ASSUME Init PROVE IndInv
    OBVIOUS
  <1>1. Len(pipe) = 0 /\ \A x : ~InPipe(x)
    BY DEF Init, PipeInit, InPipe
  <1>2. receiving /\ Distinct /\ AnnouncedFirst
    BY <1>1 DEF Init, PipeInit, Distinct, AnnouncedFirst
  <1>3. SessionTracked /\ ForgottenIffAborted
    BY <1>1, AboutIn
       DEF Init, SessionInit, ManagerInit, LoopInit, SessionTracked, ForgottenIffAborted
  <1>4. FetchStarted /\ FetchTracked
    BY <1>1 DEF Init, SessionInit, FetchStarted, FetchTracked
  <1>5. PortalRequestTracked
    BY <1>1, PeerAssumption DEF Init, ManagerInit, PortalRequestTracked
  <1> QED BY InitTyped, <1>2, <1>3, <1>4, <1>5 DEF IndInv

LEMMA IndInvStep == IndInv /\ [Next]_vars => IndInv'
  <1> SUFFICES ASSUME IndInv, [Next]_vars PROVE IndInv'
    OBVIOUS
  <1>1. TypeOK'
    BY StepTyped DEF IndInv
  <1>2. CASE UNCHANGED vars
    <2>1. \A s \in Sessions : auth[s] = "fulfilling" <=> fulfilling = s
      BY DEF IndInv, PortalRequestTracked
    <2> QED BY <1>1, <1>2, <2>1, QuietStep
         DEF vars, pipeVars, sessionVars, managerVars, loopVars, IndInv, Rest
  <1> QED BY <1>1, <1>2, LibraryRest, LoopRest DEF Next, IndInv, Rest

(* Only an announcement adds to ChatData.sessions.                         *)
LEMMA SessionsMove ==
  ASSUME [Next]_vars
  PROVE  sessions' \subseteq sessions \/ \E s \in Sessions : RecvSessionStarted(s)
  <1>1. CASE LibraryStep
    BY <1>1 DEF LibraryStep, aboveSession, aboveNetlayer, managerVars,
       Authenticate, FulfillDone
  <1>2. CASE RecvEvent
    BY <1>2 DEF RecvEvent, ChatSessionStarted, ChatSessionAborted, RecvSessionAborted,
       RecvFetchEvent, RecvPortalRequest, managerVars
  <1>3. CASE LoopStep /\ ~RecvEvent
    BY <1>3 DEF LoopStep, OpenDone, JoinOpened, JoinOpenError, ListDone, JoinListed,
       OpenPortal, Introduce, DropRecvEvent, managerVars
  <1>4. CASE UNCHANGED vars
    BY <1>4 DEF vars, managerVars
  <1> QED BY <1>1, <1>2, <1>3, <1>4 DEF Next

-----------------------------------------------------------------------------
(* The pipe, its senders and ChatManager agree on every session, fetch and *)
(* portal request, after any number of steps of the tasks that share them. *)
THEOREM PipeAgrees == Spec => []IndInv
  BY IndInvInit, IndInvStep, PTL DEF Spec

(* No event about a session is in the pipe ahead of the event that         *)
(* announces the session.                                                  *)
THEOREM EventsAnnounced == Spec => []AnnouncedFirst
  <1>1. IndInv => AnnouncedFirst
    BY DEF IndInv
  <1> QED BY <1>1, PipeAgrees, PTL

(* The manager forgets a session exactly when it has handled its abort.    *)
THEOREM SessionsExact == Spec => []ForgottenIffAborted
  <1>1. IndInv => ForgottenIffAborted
    BY DEF IndInv
  <1> QED BY <1>1, PipeAgrees, PTL

(* A session is handed to manager_loop once, by the event that announces   *)
(* it: once forgotten, it is never put back.                               *)
THEOREM ForgottenStays == Spec => ForgottenForGood
  <1> DEFINE Gone(s) == task[s] = "aborted" /\ ~InPipe(SessionAborted(s))
  <1>1. ASSUME IndInv, [Next]_vars, NEW s \in Sessions, Gone(s)
        PROVE  s \notin sessions'
    <2>1. open[s] # "none"
      BY <1>1 DEF IndInv, SessionTracked
    <2>2. s \notin sessions
      BY <1>1, <2>1 DEF IndInv, ForgottenIffAborted
    <2>3. ~InPipe(SessionStarted(s))
      BY <1>1, <2>1 DEF IndInv, SessionTracked
    <2>4. sessions' \subseteq sessions \/ \E t \in Sessions : RecvSessionStarted(t)
      BY <1>1, SessionsMove
    <2>5. ASSUME NEW t \in Sessions, RecvSessionStarted(t)
          PROVE  InPipe(SessionStarted(t)) /\ sessions' = sessions \cup {t}
      <3>1. pipe \in Seq(NetworkEvent)
        BY <1>1 DEF IndInv, TypeOK, PipeTypeOK
      <3>2. pipe # <<>> /\ Head(pipe) = SessionStarted(t)
        BY <2>5 DEF RecvSessionStarted, NextEvent, Receive
      <3> QED BY <2>5, <3>1, <3>2 DEF RecvSessionStarted, InPipe
    <2> QED BY <2>2, <2>3, <2>4, <2>5
  <1>2. IndInv /\ [Next]_vars =>
          [\A s \in Sessions : Gone(s) => s \notin sessions']_vars
    BY <1>1
  <1> QED BY <1>2, PipeAgrees, PTL DEF Spec, ForgottenForGood

(* A session that still receives is registered, or its start is on the way *)
(* to the manager.                                                         *)
THEOREM SessionsKnown == Spec => []LiveSessionKnown
  <1>1. IndInv => LiveSessionKnown
    BY DEF IndInv, SessionTracked, ForgottenIffAborted, LiveSessionKnown
  <1> QED BY <1>1, PipeAgrees, PTL

(* No fetch is lost on its way to the manager.                             *)
THEOREM EventsNotLost == Spec => []FetchTracked
  <1>1. IndInv => FetchTracked
    BY DEF IndInv
  <1> QED BY <1>1, PipeAgrees, PTL

(* No portal request is lost, and recv_event fulfils each once at most and *)
(* one at a time.                                                          *)
THEOREM PortalRequestsNotLost == Spec => []PortalRequestTracked
  <1>1. IndInv => PortalRequestTracked
    BY DEF IndInv
  <1> QED BY <1>1, PipeAgrees, PTL

(* A portal manager_loop holds is on show, in whatever order its subtasks  *)
(* and the aborts of peers are handled.                                    *)
THEOREM PortalsShown == Spec => []PortalShown
  <1> DEFINE I == TypeOK /\ PortalShown
  <1>1. Init => PortalShown
    BY DEF Init, LoopInit, PortalShown
  <1>2. ASSUME I, [Next]_vars
        PROVE  PortalShown'
    <2> USE <1>2 DEF PortalShown
    <2>1. CASE UNCHANGED <<portals, opened_portals>>
      BY <2>1
    <2>2. ASSUME NEW s \in Sessions, ChatSessionAborted(s)
          PROVE  PortalShown'
      BY <2>2 DEF ChatSessionAborted, TypeOK, LoopTypeOK
    <2>3. ASSUME NEW s \in Sessions, JoinOpened(s)
          PROVE  PortalShown'
      BY <2>3 DEF JoinOpened, TypeOK, LoopTypeOK
    <2>4. ASSUME NEW s \in Sessions, JoinListed(s)
          PROVE  PortalShown'
      BY <2>4 DEF JoinListed, TypeOK, LoopTypeOK
    <2>5. ASSUME NEW s \in Sessions,
                 ChatSessionStarted(s) \/ OpenDone(s) \/ JoinOpenError(s) \/ ListDone(s)
          PROVE  UNCHANGED <<portals, opened_portals>>
      BY <2>5 DEF ChatSessionStarted, OpenDone, JoinOpenError, ListDone
    <2>6. CASE LibraryStep
      BY <2>1, <2>6 DEF LibraryStep, aboveSession, aboveNetlayer, loopVars
    <2>7. CASE UNCHANGED loopVars
      BY <2>1, <2>7 DEF loopVars
    <2>8. ASSUME NEW r \in Requests, OpenPortal(r) \/ Introduce(r)
          PROVE  UNCHANGED loopVars
      BY <2>8 DEF OpenPortal, Introduce
    <2>9. CASE RecvEvent
      BY <2>1, <2>2, <2>5, <2>7, <2>9 DEF RecvEvent
    <2>10. CASE LoopStep
      BY <2>1, <2>3, <2>4, <2>5, <2>7, <2>8, <2>9, <2>10 DEF LoopStep
    <2> QED BY <2>1, <2>6, <2>10 DEF Next, vars, loopVars
  <1> QED BY <1>1, <1>2, InitTyped, StepTyped, PTL DEF Spec

-----------------------------------------------------------------------------
(* The answers to fetches. What the library does to a session is all that  *)
(* the node does to it.                                                    *)
LEMMA NodeMove == [Next]_vars => SessionMove
  <1> SUFFICES ASSUME [Next]_vars PROVE SessionMove
    OBVIOUS
  <1>1. UNCHANGED sessionVars => SessionMove
    BY DEF sessionVars, SessionMove
  <1>2. ASSUME NEW s \in Sessions, RecvAbort(s) \/ RecvError(s) \/ CancelSession(s)
        PROVE  SessionMove
    BY <1>2 DEF RecvAbort, RecvError, CancelSession, Ended, SessionMove
  <1>3. ASSUME NEW s \in Sessions, Accept(s) \/ \E r \in Requests : ConnectOk(r, s)
        PROVE  SessionMove
    BY <1>3 DEF Accept, ConnectOk, SessionMove
  <1>4. ASSUME \/ TakeRequest \/ AcceptError
               \/ \E r \in Requests : ConnectError(r) \/ OpenPortal(r) \/ Introduce(r)
               \/ \E s \in Sessions :
                    \/ Authenticate(s) \/ FulfillDone(s)
                    \/ ChatSessionStarted(s) \/ ChatSessionAborted(s)
                    \/ OpenDone(s) \/ ListDone(s)
                    \/ JoinOpened(s) \/ JoinOpenError(s) \/ JoinListed(s)
        PROVE  SessionMove
    BY <1>1, <1>4 DEF TakeRequest, AcceptError, ConnectError, OpenPortal, Introduce,
       RequestConnect, Authenticate, FulfillDone, ChatSessionStarted, RecvSessionStarted,
       ChatSessionAborted, RecvSessionAborted, OpenDone, ListDone, JoinOpened,
       JoinOpenError, JoinListed
  <1>5. CASE LibraryStep
    BY <1>2, <1>3, <1>4, <1>5 DEF LibraryStep, SessionMove
  <1>6. CASE LoopStep
    BY <1>4, <1>6 DEF LoopStep, RecvEvent, SessionMove
  <1> QED BY <1>1, <1>5, <1>6 DEF Next, vars

LEMMA NodeServes == TypeOK /\ ServeInv /\ [Next]_vars => ServeInv' /\ [Service!Next]_(Replies)
  BY StepTyped, NodeMove, ServeStep DEF TypeOK

(* The answer to a fetch names a position of its own session's export      *)
(* table that holds the object asked for, and so does every entry of a     *)
(* registry, whatever the subtasks of the session do meanwhile.            *)
THEOREM AnswersRight == Spec => []AnswerMatchesExport
  <1>1. Init => ServeInv
    BY ServeInit DEF Init
  <1> QED BY <1>1, NodeServes, ServeKept, TypeCorrect, PTL DEF Spec

(* A node keeps what FetchService promises: every fetch is answered once   *)
(* at most, with the gateway where that was asked for, with a refusal      *)
(* where anything else was, and no answer is ever taken back.              *)
THEOREM ServiceKept == Spec => KeepsService
  <1>1. Init => Service!Init /\ ServeInv
    BY ServeInit DEF Init
  <1> QED BY <1>1, NodeServes, ServeKept, TypeCorrect, PTL DEF Spec

-----------------------------------------------------------------------------
(* The requests. No step of a node changes the netlayer's state but by     *)
(* what Netlayer has it do.                                                *)
LEMMA NodeRequestsStep == RequestsInv /\ [Next]_vars => RequestsInv'
  <1> SUFFICES ASSUME RequestsInv, [Next]_vars PROVE RequestsInv'
    OBVIOUS
  <1>1. UNCHANGED netlayerVars => RequestsInv'
    BY RequestsStay
  <1>2. NetlayerMove => RequestsInv'
    BY RequestsKept
  <1>3. CASE LibraryStep
    <2>1. ASSUME UNCHANGED netlayerVars \/ UNCHANGED aboveSession PROVE RequestsInv'
      BY <1>1, <2>1 DEF aboveSession
    <2>2. ASSUME NEW s \in Sessions,
                 Accept(s) \/ CancelSession(s) \/ Authenticate(s) \/ FulfillDone(s)
          PROVE  UNCHANGED netlayerVars
      BY <2>2 DEF Accept, CancelSession, Authenticate, FulfillDone
    <2>3. ASSUME \/ TakeRequest \/ AcceptError
                 \/ \E r \in Requests : ConnectError(r) \/ \E s \in Sessions : ConnectOk(r, s)
          PROVE  NetlayerMove
      BY <2>3 DEF NetlayerMove, AcceptError
    <2> QED BY <1>2, <1>3, <2>1, <2>2, <2>3 DEF LibraryStep
  <1>4. CASE LoopStep
    <2>1. RecvEvent => UNCHANGED netlayerVars
      BY DEF RecvEvent, ChatSessionStarted, ChatSessionAborted, RecvSessionStarted,
         RecvSessionAborted, RecvFetchEvent, RecvPortalRequest
    <2>2. ASSUME NEW s \in Sessions,
                 \/ OpenDone(s) \/ JoinOpened(s) \/ JoinOpenError(s)
                 \/ ListDone(s) \/ JoinListed(s)
          PROVE  UNCHANGED netlayerVars
      BY <2>2 DEF OpenDone, JoinOpened, JoinOpenError, ListDone, JoinListed
    <2>3. ASSUME NEW r \in Requests, OpenPortal(r) \/ Introduce(r) PROVE NetlayerMove
      BY <2>3 DEF OpenPortal, Introduce, NetlayerMove
    <2> QED BY <1>1, <1>2, <1>4, <2>1, <2>2, <2>3 DEF LoopStep
  <1>5. CASE UNCHANGED vars
    BY <1>1, <1>5 DEF vars
  <1> QED BY <1>3, <1>4, <1>5 DEF Next

(* A request that is put to the netlayer's task is in its queue until it   *)
(* is taken, and none is left waiting when the task has returned.          *)
THEOREM RequestsNotLost == Spec => []RequestsTracked
  <1>1. Init => RequestsInv
    BY RequestsInit DEF Init
  <1>2. RequestsInv => RequestsTracked
    BY DEF RequestsInv
  <1> QED BY <1>1, <1>2, NodeRequestsStep, PTL DEF Spec
=============================================================================
