---------------------------- MODULE LibraryProofs ---------------------------
(***************************************************************************)
(* Lemmas about the library's tasks, for whatever module has them run: the *)
(* program (NodeProofs) or a caller that may end it (ShutdownProofs).      *)
(***************************************************************************)
EXTENDS ChatManager, SequenceTheorems, TLAPS

-----------------------------------------------------------------------------
(* Types.                                                                  *)
LEMMA EventsTyped ==
  /\ \A s \in Sessions : /\ SessionStarted(s) \in NetworkEvent
                         /\ SessionAborted(s) \in NetworkEvent
                         /\ PortalRequest(s) \in NetworkEvent
  /\ \A s \in Sessions, f \in Fetches : Fetch(s, f) \in NetworkEvent
  BY DEF NetworkEvent, EventKinds, SessionStarted, SessionAborted, PortalRequest, Fetch

LEMMA SendTyped ==
  ASSUME PipeTypeOK, NEW e \in NetworkEvent, Send(e)
  PROVE  PipeTypeOK'
  BY DEF PipeTypeOK, Send

LEMMA ReceiveTyped ==
  ASSUME PipeTypeOK, NEW e, Receive(e)
  PROVE  PipeTypeOK'
  BY DEF PipeTypeOK, Receive

LEMMA PipeUnchanged ==
  ASSUME PipeTypeOK, UNCHANGED pipeVars
  PROVE  PipeTypeOK'
  BY DEF PipeTypeOK, pipeVars

LEMMA StartTyped ==
  ASSUME PipeTypeOK, SessionTypeOK, NEW s \in Sessions, StartSession(s)
  PROVE  PipeTypeOK' /\ SessionTypeOK'
  <1>1. PipeTypeOK'
    BY EventsTyped, SendTyped DEF StartSession
  <1>2. SessionTypeOK'
    BY DEF StartSession, SessionTypeOK, Objects, Ended
  <1> QED BY <1>1, <1>2

LEMMA LeaveTyped ==
  ASSUME SessionTypeOK, NEW s \in Sessions, NEW how \in Ended, LeaveLoop(s, how)
  PROVE  SessionTypeOK'
  BY DEF SessionTypeOK, LeaveLoop

LEMMA SessionUnchanged ==
  ASSUME SessionTypeOK, UNCHANGED sessionVars
  PROVE  SessionTypeOK'
  BY DEF SessionTypeOK, sessionVars

LEMMA SubtaskTyped ==
  ASSUME PipeTypeOK, SessionTypeOK, NEW f \in Fetches,
         \/ RecvFetch(f) \/ LookUp(f) \/ Export(f) \/ Register(f)
         \/ Refused(f) \/ Reply(f) \/ CancelSubtask(f)
  PROVE  PipeTypeOK' /\ SessionTypeOK'
  <1> DEFINE s == FetchSession[f]
  <1> DEFINE w == FetchSwiss[f]
  <1>0. s \in Sessions /\ w \in Swisses
    BY FetchAssumption
  <1>1. CASE RecvFetch(f)
    BY <1>1, PipeUnchanged DEF RecvFetch, SessionTypeOK, FetchStates, Pending
  <1>2. CASE LookUp(f)
    <2>1. PipeTypeOK'
      BY <1>0, <1>2, EventsTyped, SendTyped, PipeUnchanged DEF LookUp
    <2>2. Registered(f) \in Nat
      BY <1>0 DEF Registered, SessionTypeOK
    <2>3. position' \in [Fetches -> Nat]
      BY <1>2, <2>2 DEF LookUp, SessionTypeOK
    <2>4. fetch' \in [Fetches -> FetchStates]
      BY <1>2 DEF LookUp, SessionTypeOK, FetchStates, Pending
    <2>5. UNCHANGED <<task, endFlag, registry, exports>>
      BY <1>2 DEF LookUp
    <2> QED BY <2>1, <2>3, <2>4, <2>5 DEF SessionTypeOK
  <1>3. CASE Export(f)
    <2>1. exports' \in [Sessions -> Seq(Objects)]
      BY <1>0, <1>3 DEF Export, SessionTypeOK, Objects
    <2>2. position' \in [Fetches -> Nat]
      BY <1>0, <1>3, <2>1 DEF Export, SessionTypeOK
    <2> QED BY <1>3, <2>1, <2>2, PipeUnchanged DEF Export, SessionTypeOK, FetchStates, Pending
  <1>4. CASE Register(f)
    BY <1>0, <1>4, PipeUnchanged DEF Register, SessionTypeOK, FetchStates, Pending
  <1>5. CASE Refused(f)
    BY <1>5, PipeUnchanged DEF Refused, SessionTypeOK, FetchStates, Pending
  <1>6. CASE Reply(f)
    BY <1>6, PipeUnchanged DEF Reply, SessionTypeOK, FetchStates, Pending
  <1>7. CASE CancelSubtask(f)
    BY <1>7, PipeUnchanged DEF CancelSubtask, SessionTypeOK, FetchStates, Pending
  <1> QED BY <1>1, <1>2, <1>3, <1>4, <1>5, <1>6, <1>7

LEMMA NetlayerUnchanged ==
  ASSUME NetlayerTypeOK, UNCHANGED netlayerVars
  PROVE  NetlayerTypeOK'
  BY DEF NetlayerTypeOK, netlayerVars

LEMMA ManagerUnchanged ==
  ASSUME ManagerTypeOK, UNCHANGED managerVars
  PROVE  ManagerTypeOK'
  BY DEF ManagerTypeOK, managerVars

(* What the library's tasks and callers do with the netlayer.              *)
NetlayerMove ==
  \/ \E r \in Requests :
       RequestConnect(r) \/ ConnectError(r) \/ \E s \in Sessions : ConnectOk(r, s)
  \/ TakeRequest \/ SeeEnd \/ TaskGone

LEMMA NetlayerTyped ==
  ASSUME NetlayerTypeOK, NetlayerMove
  PROVE  NetlayerTypeOK'
  <1> USE DEF NetlayerTypeOK, RequestStates, Waiting
  <1>1. ASSUME NEW r \in Requests, RequestConnect(r) PROVE NetlayerTypeOK'
    BY <1>1 DEF RequestConnect
  <1>2. ASSUME NEW r \in Requests, ConnectError(r) \/ \E s \in Sessions : ConnectOk(r, s)
        PROVE  NetlayerTypeOK'
    BY <1>2 DEF ConnectError, ConnectOk
  <1>3. CASE TakeRequest
    <2>1. Head(queue) \in Requests /\ Tail(queue) \in Seq(Requests)
      BY <1>3 DEF TakeRequest
    <2> QED BY <1>3, <2>1 DEF TakeRequest
  <1>4. CASE SeeEnd
    BY <1>4 DEF SeeEnd
  <1>5. CASE TaskGone
    <2>1. queue' \in Seq(Requests) /\ request' \in [Requests -> RequestStates]
      BY <1>5 DEF TaskGone
    <2> QED BY <1>5, <2>1 DEF TaskGone
  <1> QED BY <1>1, <1>2, <1>3, <1>4, <1>5 DEF NetlayerMove

LEMMA DropTyped ==
  ASSUME ManagerTypeOK, DropRecvEvent
  PROVE  ManagerTypeOK'
  BY DEF ManagerTypeOK, DropRecvEvent, AuthStates

LEMMA LibraryInitTyped ==
  /\ PipeInit => PipeTypeOK
  /\ SessionInit => SessionTypeOK
  /\ NetlayerInit => NetlayerTypeOK
  /\ ManagerInit => ManagerTypeOK
  <1>1. PipeInit => PipeTypeOK
    BY EmptySeq DEF PipeInit, PipeTypeOK
  <1>2. ASSUME SessionInit PROVE SessionTypeOK
    <2>1. registry \in [Sessions -> [Swisses -> Nat]]
      BY <1>2 DEF SessionInit
    <2>2. exports \in [Sessions -> Seq(Objects)]
      BY <1>2, EmptySeq DEF SessionInit
    <2> QED BY <1>2, <2>1, <2>2 DEF SessionInit, SessionTypeOK, FetchStates
  <1>3. NetlayerInit => NetlayerTypeOK
    BY EmptySeq DEF NetlayerInit, NetlayerTypeOK, RequestStates
  <1>4. ManagerInit => ManagerTypeOK
    BY DEF ManagerInit, ManagerTypeOK, AuthStates
  <1> QED BY <1>1, <1>2, <1>3, <1>4

-----------------------------------------------------------------------------
(* Requests. A queue that has each of its requests once: what is taken     *)
(* from it is not in it any more.                                          *)
QueueDistinct == \A i, j \in 1 .. Len(queue) : queue[i] = queue[j] => i = j

RequestsInv == NetlayerTypeOK /\ RequestsTracked /\ QueueDistinct

LEMMA RequestsInit == NetlayerInit => RequestsInv
  BY DEF NetlayerInit, RequestsInv, NetlayerTypeOK, RequestStates, Waiting,
     RequestsTracked, QueueDistinct

LEMMA RequestsStay ==
  ASSUME RequestsInv, UNCHANGED netlayerVars
  PROVE  RequestsInv'
  BY DEF RequestsInv, netlayerVars, NetlayerTypeOK, RequestsTracked, QueueDistinct

(* One more request.                                                       *)
LEMMA RequestKept ==
  ASSUME RequestsInv, NEW r \in Requests, RequestConnect(r)
  PROVE  RequestsTracked' /\ QueueDistinct'
  <1>0. queue \in Seq(Requests) /\ Len(queue) \in Nat
    BY LenProperties DEF RequestsInv, NetlayerTypeOK
  <1>1. CASE request' = [request EXCEPT ![r] = "rejected"] /\ UNCHANGED queue
    <2>1. \A q \in Requests : request'[q] = IF q = r THEN "rejected" ELSE request[q]
      BY <1>1 DEF RequestsInv, NetlayerTypeOK
    <2>2. UNCHANGED netlayer /\ request[r] = "none"
      BY DEF RequestConnect
    <2> QED BY <1>1, <2>1, <2>2 DEF RequestsInv, RequestsTracked, QueueDistinct, Waiting
  <1>2. CASE /\ netlayer # "gone"
             /\ queue' = Append(queue, r)
             /\ request' = [request EXCEPT ![r] = "queued"]
    <2>1. /\ \A q \in Requests : request'[q] = IF q = r THEN "queued" ELSE request[q]
          /\ UNCHANGED netlayer /\ request[r] = "none"
      BY <1>2 DEF RequestConnect, RequestsInv, NetlayerTypeOK
    <2>2. /\ Len(queue') = Len(queue) + 1
          /\ \A i \in 1 .. Len(queue) : queue'[i] = queue[i]
          /\ queue'[Len(queue) + 1] = r
      BY <1>0, <1>2, AppendProperties
    <2>3. \A i \in 1 .. Len(queue) : queue[i] # r
      BY <2>1 DEF RequestsInv, RequestsTracked
    <2>4. QueueDistinct'
      BY <1>0, <2>2, <2>3 DEF RequestsInv, QueueDistinct
    <2>5. ASSUME NEW q \in Requests
          PROVE  request'[q] = "queued" <=> \E i \in 1 .. Len(queue') : queue'[i] = q
      <3>1. CASE q = r
        BY <1>0, <2>1, <2>2, <3>1
      <3>2. CASE q # r
        <4>1. (\E i \in 1 .. Len(queue') : queue'[i] = q)
                <=> \E i \in 1 .. Len(queue) : queue[i] = q
          BY <1>0, <2>2, <3>2
        <4> QED BY <2>1, <3>2, <4>1 DEF RequestsInv, RequestsTracked
      <3> QED BY <3>1, <3>2
    <2> QED BY <1>2, <2>1, <2>4, <2>5 DEF RequestsTracked
  <1> QED BY <1>1, <1>2 DEF RequestConnect

(* The oldest is taken.                                                    *)
LEMMA TakeKept ==
  ASSUME RequestsInv, TakeRequest
  PROVE  RequestsTracked' /\ QueueDistinct'
  <1> DEFINE h == Head(queue)
  <1>1. /\ queue \in Seq(Requests) /\ queue # <<>> /\ Len(queue) \in Nat
        /\ netlayer' = "running"
        /\ queue' = Tail(queue)
        /\ request' = [request EXCEPT ![h] = "connecting"]
    BY LenProperties DEF TakeRequest, Selecting, RequestsInv, NetlayerTypeOK
  <1>2. /\ h = queue[1] /\ h \in Requests
        /\ Len(queue') = Len(queue) - 1 /\ Len(queue) >= 1
        /\ \A i \in 1 .. Len(queue') : queue'[i] = queue[i + 1]
    BY <1>1, HeadTailProperties, EmptySeq, LenProperties
  <1> HIDE DEF h
  <1>3. \A q \in Requests : request'[q] = IF q = h THEN "connecting" ELSE request[q]
    BY <1>1 DEF RequestsInv, NetlayerTypeOK
  <1>4. QueueDistinct'
    <2> SUFFICES ASSUME NEW i \in 1 .. Len(queue'), NEW j \in 1 .. Len(queue'),
                        queue'[i] = queue'[j]
                 PROVE  i = j
      BY DEF QueueDistinct
    <2>1. i + 1 \in 1 .. Len(queue) /\ j + 1 \in 1 .. Len(queue)
          /\ queue[i + 1] = queue[j + 1]
      BY <1>1, <1>2
    <2>2. i + 1 = j + 1
      BY <2>1 DEF RequestsInv, QueueDistinct
    <2> QED BY <1>1, <1>2, <2>2
  <1>5. ASSUME NEW q \in Requests
        PROVE  request'[q] = "queued" <=> \E i \in 1 .. Len(queue') : queue'[i] = q
    <2>1. CASE q = h
      <3>1. ASSUME NEW i \in 1 .. Len(queue') PROVE queue'[i] # h
        <4>1. 1 \in 1 .. Len(queue) /\ i + 1 \in 1 .. Len(queue) /\ i + 1 # 1
          BY <1>1, <1>2
        <4> QED BY <1>2, <4>1 DEF RequestsInv, QueueDistinct
      <3> QED BY <1>3, <2>1, <3>1
    <2>2. CASE q # h
      <3>1. (\E i \in 1 .. Len(queue') : queue'[i] = q)
              <=> \E i \in 1 .. Len(queue) : queue[i] = q
        <4>1. ASSUME NEW i \in 1 .. Len(queue), queue[i] = q
              PROVE  \E k \in 1 .. Len(queue') : queue'[k] = q
          <5>1. i # 1
            BY <1>2, <2>2, <4>1
          <5>2. i - 1 \in 1 .. Len(queue') /\ queue'[i - 1] = queue[i - 1 + 1]
            BY <1>1, <1>2, <5>1
          <5> QED BY <4>1, <5>2
        <4>2. ASSUME NEW i \in 1 .. Len(queue'), queue'[i] = q
              PROVE  \E k \in 1 .. Len(queue) : queue[k] = q
          BY <1>1, <1>2, <4>2
        <4> QED BY <4>1, <4>2
      <3> QED BY <1>3, <2>2, <3>1 DEF RequestsInv, RequestsTracked
    <2> QED BY <2>1, <2>2
  <1> QED BY <1>1, <1>4, <1>5 DEF RequestsTracked

LEMMA RequestsKept ==
  ASSUME RequestsInv, NetlayerMove
  PROVE  RequestsInv'
  <1>0. NetlayerTypeOK'
    BY NetlayerTyped DEF RequestsInv
  <1>1. ASSUME NEW r \in Requests, RequestConnect(r) PROVE RequestsInv'
    BY <1>0, <1>1, RequestKept DEF RequestsInv
  <1>2. ASSUME NEW r \in Requests, ConnectError(r) \/ \E s \in Sessions : ConnectOk(r, s)
        PROVE  RequestsInv'
    <2>1. /\ request[r] = "connecting" /\ UNCHANGED <<netlayer, queue>>
          /\ \A q \in Requests :
               IF q = r THEN request'[q] \in {"connected", "failed"}
               ELSE request'[q] = request[q]
      BY <1>2 DEF ConnectError, ConnectOk, RequestsInv, NetlayerTypeOK
    <2> QED BY <1>0, <2>1 DEF RequestsInv, RequestsTracked, QueueDistinct, Waiting
  <1>3. CASE TakeRequest
    BY <1>0, <1>3, TakeKept DEF RequestsInv
  <1>4. CASE SeeEnd
    BY <1>0, <1>4 DEF SeeEnd, RequestsInv, RequestsTracked, QueueDistinct
  <1>5. CASE TaskGone
    <2>1. Len(queue') = 0 /\ \A q \in Requests : request'[q] \notin Waiting
      BY <1>5 DEF TaskGone, Waiting
    <2> QED BY <1>0, <2>1 DEF RequestsInv, RequestsTracked, QueueDistinct, Waiting
  <1> QED BY <1>1, <1>2, <1>3, <1>4, <1>5 DEF NetlayerMove

-----------------------------------------------------------------------------
(* All that a step of the library, and so of whoever runs it, does to what *)
(* fetches are answered from.                                              *)
SessionMove ==
  \/ UNCHANGED <<task, fetch, position, registry, exports>>
  \/ \E s \in Sessions :
       StartSession(s) \/ RecvPortalRequest(s) \/ \E how \in Ended : LeaveLoop(s, how)
  \/ \E f \in Fetches :
       \/ RecvFetch(f) \/ LookUp(f) \/ Export(f) \/ Register(f) \/ Refused(f)
       \/ Reply(f) \/ CancelSubtask(f) \/ RecvFetchEvent(f)

(* The one behind AnswerMatchesExport: nothing is registered for a session *)
(* before it has its task, which starts its export table afresh.           *)
AnswerInv ==
  /\ SessionTypeOK /\ FetchStarted /\ AnswerMatchesExport
  /\ \A s \in Sessions : task[s] = "none" => \A w \in Swisses : registry[s][w] = 0

(* The answers to fetches. Most steps only move a fetch on.                *)
Answering == {"exported", "fulfilling", "answered"}

LEMMA AnswerQuiet ==
  ASSUME AnswerInv, SessionTypeOK', FetchStarted',
         UNCHANGED <<registry, position, exports>>,
         \A s \in Sessions : task'[s] = "none" => task[s] = "none",
         \A f \in Fetches : fetch'[f] \in Answering => fetch[f] \in Answering
  PROVE  AnswerInv'
  <1>1. \A s, pos, w : LeadsTo(s, pos, w)' <=> LeadsTo(s, pos, w)
    BY DEF LeadsTo
  <1>2. AnswerMatchesExport'
    BY <1>1 DEF AnswerInv, AnswerMatchesExport, Answering
  <1> QED BY <1>2 DEF AnswerInv

(* An export table that grows keeps every position leading where it did.   *)
LEMMA GrowKeeps ==
  ASSUME SessionTypeOK, NEW t \in Sessions, NEW o \in Objects,
         exports' = [exports EXCEPT ![t] = Append(@, o)]
  PROVE  /\ \A s \in Sessions : \A pos, w : LeadsTo(s, pos, w) => LeadsTo(s, pos, w)'
         /\ \A n : n = Len(exports'[t]) => LeadsTo(t, n, o)'
  <1>1. exports[t] \in Seq(Objects) /\ exports'[t] = Append(exports[t], o)
    BY DEF SessionTypeOK
  <1>2. /\ Len(exports[t]) \in Nat /\ Len(exports'[t]) = Len(exports[t]) + 1
        /\ \A i \in 1 .. Len(exports[t]) : exports'[t][i] = exports[t][i]
        /\ exports'[t][Len(exports[t]) + 1] = o
    BY <1>1
  <1>3. ASSUME NEW s \in Sessions, NEW pos, NEW w, LeadsTo(s, pos, w)
        PROVE  LeadsTo(s, pos, w)'
    <2>1. CASE s = t
      BY <1>2, <1>3, <2>1 DEF LeadsTo
    <2>2. CASE s # t
      BY <1>3, <2>2 DEF LeadsTo, SessionTypeOK
    <2> QED BY <2>1, <2>2
  <1> QED BY <1>2, <1>3 DEF LeadsTo

LEMMA StartAnswers ==
  ASSUME AnswerInv, SessionTypeOK', FetchStarted', NEW s \in Sessions, StartSession(s)
  PROVE  AnswerInv'
  <1>1. /\ UNCHANGED <<fetch, position, registry>> /\ task[s] = "none"
        /\ \A t \in Sessions \ {s} : exports'[t] = exports[t] /\ task'[t] = task[t]
        /\ task'[s] = "running"
    BY DEF StartSession, AnswerInv, SessionTypeOK
  <1>2. \A t \in Sessions \ {s} : \A pos, w : LeadsTo(t, pos, w)' <=> LeadsTo(t, pos, w)
    BY <1>1 DEF LeadsTo
  <1>3. \A f \in Fetches : fetch[f] \in Answering => FetchSession[f] # s
    BY <1>1 DEF AnswerInv, FetchStarted, Answering
  <1>4. \A w \in Swisses : registry[s][w] = 0
    BY <1>1 DEF AnswerInv
  <1>5. AnswerMatchesExport'
    BY <1>1, <1>2, <1>3, <1>4, FetchAssumption DEF AnswerInv, AnswerMatchesExport, Answering
  <1> QED BY <1>1, <1>5 DEF AnswerInv

LEMMA LookUpAnswers ==
  ASSUME AnswerInv, SessionTypeOK', FetchStarted', NEW f \in Fetches, LookUp(f)
  PROVE  AnswerInv'
  <1>1. UNCHANGED <<task, registry, exports>>
    BY DEF LookUp
  <1>2. CASE Registered(f) = 0
    <2>1. fetch'[f] \notin Answering /\ UNCHANGED position
          /\ \A g \in Fetches \ {f} : fetch'[g] = fetch[g]
      BY <1>2 DEF LookUp, AnswerInv, SessionTypeOK, Answering
    <2> QED BY <1>1, <2>1, AnswerQuiet
  <1>3. CASE Registered(f) # 0
    <2>1. /\ position'[f] = registry[FetchSession[f]][FetchSwiss[f]]
          /\ \A g \in Fetches \ {f} : position'[g] = position[g] /\ fetch'[g] = fetch[g]
      BY <1>3 DEF LookUp, Registered, AnswerInv, SessionTypeOK
    <2>2. \A s, pos, w : LeadsTo(s, pos, w)' <=> LeadsTo(s, pos, w)
      BY <1>1 DEF LeadsTo
    <2>3. LeadsTo(FetchSession[f], position'[f], FetchSwiss[f])
      BY <1>3, <2>1, FetchAssumption DEF Registered, AnswerInv, AnswerMatchesExport
    <2>4. AnswerMatchesExport'
      BY <1>1, <2>1, <2>2, <2>3 DEF AnswerInv, AnswerMatchesExport
    <2> QED BY <1>1, <2>4 DEF AnswerInv
  <1> QED BY <1>2, <1>3

LEMMA ExportAnswers ==
  ASSUME AnswerInv, SessionTypeOK', FetchStarted', NEW f \in Fetches, Export(f)
  PROVE  AnswerInv'
  <1> DEFINE s == FetchSession[f]
  <1> DEFINE w == FetchSwiss[f]
  <1>1. s \in Sessions /\ w \in Objects /\ SessionTypeOK
    BY FetchAssumption DEF Objects, AnswerInv
  <1>2. exports' = [exports EXCEPT ![s] = Append(@, w)] /\ UNCHANGED <<task, registry>>
    BY DEF Export
  <1>3. /\ \A t \in Sessions : \A pos, v : LeadsTo(t, pos, v) => LeadsTo(t, pos, v)'
        /\ \A n : n = Len(exports'[s]) => LeadsTo(s, n, w)'
    BY <1>1, <1>2, GrowKeeps
  <1>4. /\ position'[f] = Len(exports'[s])
        /\ \A g \in Fetches \ {f} : position'[g] = position[g] /\ fetch'[g] = fetch[g]
    BY <1>1 DEF Export, SessionTypeOK
  <1>5. \A g \in Fetches :
          fetch'[g] \in Answering => LeadsTo(FetchSession[g], position[g], FetchSwiss[g])'
    <2>1. LeadsTo(s, position[f], w)'
      <3>1. \A n : n = position'[f] => LeadsTo(s, n, w)'
        BY <1>3, <1>4
      <3> QED BY <3>1 DEF LeadsTo
    <2>2. ASSUME NEW g \in Fetches \ {f}, fetch'[g] \in Answering
          PROVE  LeadsTo(FetchSession[g], position[g], FetchSwiss[g])'
      <3>1. FetchSession[g] \in Sessions /\ position'[g] = position[g]
        BY <1>4, FetchAssumption
      <3>2. LeadsTo(FetchSession[g], position[g], FetchSwiss[g])
        BY <1>4, <2>2 DEF AnswerInv, AnswerMatchesExport, Answering
      <3> QED BY <1>3, <3>1, <3>2 DEF LeadsTo
    <2> QED BY <2>1, <2>2
  <1>6. \A t \in Sessions : \A v \in Swisses :
          registry'[t][v] # 0 => LeadsTo(t, registry[t][v], v)'
    <2>1. ASSUME NEW t \in Sessions, NEW v \in Swisses, registry[t][v] # 0
          PROVE  LeadsTo(t, registry[t][v], v)'
      <3>1. LeadsTo(t, registry[t][v], v)
        BY <2>1 DEF AnswerInv, AnswerMatchesExport
      <3> QED BY <1>2, <1>3, <3>1 DEF LeadsTo
    <2> QED BY <1>2, <2>1
  <1>7. AnswerMatchesExport'
    BY <1>5, <1>6 DEF AnswerMatchesExport, Answering
  <1> QED BY <1>2, <1>7 DEF AnswerInv

LEMMA RegisterAnswers ==
  ASSUME AnswerInv, SessionTypeOK', FetchStarted', NEW f \in Fetches, Register(f)
  PROVE  AnswerInv'
  <1> DEFINE s == FetchSession[f]
  <1> DEFINE w == FetchSwiss[f]
  <1>1. s \in Sessions /\ w \in Swisses
    BY FetchAssumption
  <1>2. UNCHANGED <<task, position, exports>> /\ fetch[f] = "exported"
    BY DEF Register
  <1>3. /\ \A g \in Fetches \ {f} : fetch'[g] = fetch[g]
        /\ \A t \in Sessions, v \in Swisses :
             registry'[t][v] = IF t = s /\ v = w THEN position[f] ELSE registry[t][v]
    BY <1>1 DEF Register, AnswerInv, SessionTypeOK
  <1>4. \A t, pos, v : LeadsTo(t, pos, v)' <=> LeadsTo(t, pos, v)
    BY <1>2 DEF LeadsTo
  <1>5. LeadsTo(s, position[f], w)
    BY <1>2 DEF AnswerInv, AnswerMatchesExport
  <1>6. AnswerMatchesExport'
    BY <1>2, <1>3, <1>4, <1>5 DEF AnswerInv, AnswerMatchesExport
  <1>7. task[s] # "none"
    BY <1>2 DEF AnswerInv, FetchStarted
  <1> QED BY <1>2, <1>3, <1>6, <1>7 DEF AnswerInv

LEMMA PortalAnswers ==
  ASSUME AnswerInv, SessionTypeOK', FetchStarted', NEW s \in Sessions, RecvPortalRequest(s)
  PROVE  AnswerInv'
  <1>1. /\ exports' = [exports EXCEPT ![s] = Append(@, Portal)]
        /\ UNCHANGED <<task, registry, position, fetch>>
    BY DEF RecvPortalRequest
  <1>2. \A t \in Sessions : \A pos, v : LeadsTo(t, pos, v) => LeadsTo(t, pos, v)'
    BY <1>1, GrowKeeps DEF Objects, AnswerInv
  <1>3. AnswerMatchesExport'
    BY <1>1, <1>2, FetchAssumption DEF AnswerInv, AnswerMatchesExport
  <1> QED BY <1>1, <1>3 DEF AnswerInv

LEMMA StartedKept ==
  ASSUME SessionTypeOK, FetchStarted, SessionMove
  PROVE  FetchStarted'
  <1>1. ASSUME NEW f \in Fetches,
               \/ RecvFetch(f) \/ LookUp(f) \/ Export(f) \/ Register(f) \/ Refused(f)
               \/ Reply(f) \/ CancelSubtask(f) \/ RecvFetchEvent(f)
        PROVE  FetchStarted'
    <2>1. UNCHANGED task
      BY <1>1 DEF RecvFetch, LookUp, Export, Register, Refused, Reply, CancelSubtask,
         RecvFetchEvent
    <2>2. fetch' = fetch \/ \E y : fetch' = [fetch EXCEPT ![f] = y]
      BY <1>1 DEF RecvFetch, LookUp, Export, Register, Refused, Reply, CancelSubtask,
         RecvFetchEvent
    <2>3. fetch[f] = "idle" /\ fetch'[f] # "idle" => task[FetchSession[f]] = "running"
      BY <1>1 DEF RecvFetch, LookUp, Export, Register, Refused, Reply, CancelSubtask,
         RecvFetchEvent, Pending, SessionTypeOK
    <2>4. \A g \in Fetches : g # f => fetch'[g] = fetch[g]
      BY <2>2 DEF SessionTypeOK
    <2> QED BY <2>1, <2>3, <2>4 DEF FetchStarted
  <1>2. ASSUME NEW s \in Sessions, StartSession(s) \/ \E how \in Ended : LeaveLoop(s, how)
        PROVE  FetchStarted'
    BY <1>2, FetchAssumption DEF StartSession, LeaveLoop, FetchStarted, SessionTypeOK, Ended
  <1>3. ASSUME NEW s \in Sessions, RecvPortalRequest(s) PROVE FetchStarted'
    BY <1>3 DEF RecvPortalRequest, FetchStarted
  <1>4. CASE UNCHANGED <<task, fetch, position, registry, exports>>
    BY <1>4 DEF FetchStarted
  <1> QED BY <1>1, <1>2, <1>3, <1>4 DEF SessionMove

LEMMA AnswerKept ==
  ASSUME AnswerInv, SessionTypeOK', SessionMove
  PROVE  AnswerInv'
  <1>1. FetchStarted'
    BY StartedKept DEF AnswerInv
  <1>2. CASE UNCHANGED <<task, fetch, position, registry, exports>>
    BY <1>1, <1>2, AnswerQuiet
  <1>3. ASSUME NEW s \in Sessions, NEW how \in Ended, LeaveLoop(s, how) PROVE AnswerInv'
    <2>1. \A t \in Sessions : task'[t] = "none" => task[t] = "none"
      BY <1>3 DEF LeaveLoop, AnswerInv, SessionTypeOK, Ended
    <2> QED BY <1>1, <1>3, <2>1, AnswerQuiet DEF LeaveLoop
  <1>4. ASSUME NEW f \in Fetches,
               RecvFetch(f) \/ Refused(f) \/ Reply(f) \/ CancelSubtask(f) \/ RecvFetchEvent(f)
        PROVE  AnswerInv'
    <2>1. UNCHANGED <<task, registry, position, exports>>
      BY <1>4 DEF RecvFetch, Refused, Reply, CancelSubtask, RecvFetchEvent
    <2>2. \A g \in Fetches : fetch'[g] \in Answering => fetch[g] \in Answering
      BY <1>4 DEF RecvFetch, Refused, Reply, CancelSubtask, RecvFetchEvent, Answering,
         AnswerInv, SessionTypeOK
    <2> QED BY <1>1, <2>1, <2>2, AnswerQuiet
  <1> QED
    BY <1>1, <1>2, <1>3, <1>4, StartAnswers, PortalAnswers, LookUpAnswers, ExportAnswers,
       RegisterAnswers
    DEF SessionMove

-----------------------------------------------------------------------------
(* FetchService. What a fetch counts as, there, follows from its state     *)
(* alone, as AnswerMatchesExport says that no answer is wrong; and an      *)
(* object is given only where the gateway was asked for.                   *)

(* Past the manager's answer, or the registry's, a fetch is in one of two  *)
(* sets of states.                                                         *)
Given == {"resolved", "exported", "fulfilling", "answered"}
Denied == {"refused", "breaking", "broken"}

RightSide ==
  /\ \A f \in Fetches :
       /\ fetch[f] \in Given => FetchSwiss[f] = Gateway
       /\ fetch[f] \in Denied => FetchSwiss[f] # Gateway
  /\ \A s \in Sessions : \A w \in Swisses : registry[s][w] # 0 => w = Gateway

(* What a fetch in state x counts as.                                      *)
Standing(x) ==
  IF x = "idle" THEN "none"
  ELSE IF x \in Pending THEN "due"
  ELSE IF x = "answered" THEN "object"
  ELSE IF x = "broken" THEN "refusal"
  ELSE "failed"

Standings == [f \in Fetches |-> Standing(fetch[f])]

(* A fetch goes from one state to another, and no other does.              *)
Goes(f, x, y) == fetch[f] = x /\ fetch' = [fetch EXCEPT ![f] = y]

(* Where a step may take a fetch.                                          *)
Lawful(f, x, y) ==
  \/ x = "idle" /\ y = "spawned"
  \/ x \in Pending /\ y \in {"error", "cancelled"}
  \/ x \in {"spawned", "asked"} /\ y \in Pending
  \/ x \in Pending \ Denied /\ y \in Given \ {"answered"} /\ FetchSwiss[f] = Gateway
  \/ x = "refused" /\ y = "breaking"
  \/ x = "fulfilling" /\ y = "answered"
  \/ x = "breaking" /\ y = "broken"

(* The steps that leave every fetch and the registry alone.                *)
LEMMA SideStays == RightSide /\ UNCHANGED <<fetch, registry>> => RightSide'
  BY DEF RightSide

(* A fetch moves on, and with it the registry at most has the gateway.     *)
LEMMA SideKept ==
  ASSUME SessionTypeOK, RightSide, NEW f \in Fetches, NEW x, NEW y, Goes(f, x, y),
         UNCHANGED registry,
         y \in Given => FetchSwiss[f] = Gateway,
         y \in Denied => FetchSwiss[f] # Gateway
  PROVE  RightSide'
  <1>1. \A g \in Fetches : fetch'[g] = IF g = f THEN y ELSE fetch[g]
    BY DEF Goes, SessionTypeOK
  <1> QED BY <1>1 DEF RightSide

(* What the steps that change a fetch do to it.                            *)
LEMMA SubtaskGoes ==
  ASSUME SessionTypeOK, RightSide, NEW f \in Fetches,
         \/ RecvFetch(f) \/ LookUp(f) \/ Export(f) \/ Register(f) \/ Refused(f)
         \/ Reply(f) \/ CancelSubtask(f)
  PROVE  /\ RightSide'
         /\ \E x, y : Goes(f, x, y) /\ Lawful(f, x, y)
  <1> USE DEF Goes, Lawful, Given, Denied, Pending
  <1>1. CASE RecvFetch(f)
    <2>1. Goes(f, "idle", "spawned") /\ UNCHANGED registry
      BY <1>1 DEF RecvFetch
    <2> QED BY <2>1, SideKept
  <1>2. CASE LookUp(f) /\ Registered(f) # 0
    <2>1. Goes(f, "spawned", "fulfilling") /\ UNCHANGED registry
      BY <1>2 DEF LookUp
    <2>2. FetchSwiss[f] = Gateway
      BY <1>2, FetchAssumption DEF Registered, RightSide
    <2> QED BY <2>1, <2>2, SideKept
  <1>3. CASE LookUp(f) /\ Registered(f) = 0
    <2>1. (Goes(f, "spawned", "asked") \/ Goes(f, "spawned", "error")) /\ UNCHANGED registry
      BY <1>3 DEF LookUp
    <2> QED BY <2>1, SideKept
  <1>4. CASE Export(f)
    <2>1. Goes(f, "resolved", "exported") /\ UNCHANGED registry
      BY <1>4 DEF Export
    <2> QED BY <2>1, SideKept DEF RightSide
  <1>5. CASE Register(f)
    <2>1. Goes(f, "exported", "fulfilling") /\ FetchSwiss[f] = Gateway
      BY <1>5 DEF Register, RightSide
    <2>2. \A s \in Sessions : \A w \in Swisses :
            registry'[s][w] # 0 => registry[s][w] # 0 \/ w = FetchSwiss[f]
      BY <1>5, FetchAssumption DEF Register, SessionTypeOK
    <2>3. \A g \in Fetches : fetch'[g] = IF g = f THEN "fulfilling" ELSE fetch[g]
      BY <2>1 DEF SessionTypeOK
    <2>4. RightSide'
      BY <2>1, <2>2, <2>3 DEF RightSide
    <2> QED BY <2>1, <2>4
  <1>6. CASE Refused(f)
    <2>1. (Goes(f, "refused", "breaking") \/ Goes(f, "asked", "error")) /\ UNCHANGED registry
      BY <1>6 DEF Refused
    <2>2. fetch[f] = "refused" => FetchSwiss[f] # Gateway
      BY DEF RightSide
    <2> QED BY <2>1, <2>2, SideKept
  <1>7. CASE Reply(f)
    <2>1. /\ \/ Goes(f, "fulfilling", "answered") \/ Goes(f, "breaking", "broken")
             \/ Goes(f, "fulfilling", "error") \/ Goes(f, "breaking", "error")
          /\ UNCHANGED registry
      BY <1>7 DEF Reply
    <2>2. /\ fetch[f] = "fulfilling" => FetchSwiss[f] = Gateway
          /\ fetch[f] = "breaking" => FetchSwiss[f] # Gateway
      BY DEF RightSide
    <2> QED BY <2>1, <2>2, SideKept
  <1>8. CASE CancelSubtask(f)
    <2>1. Goes(f, fetch[f], "cancelled") /\ fetch[f] \in Pending /\ UNCHANGED registry
      BY <1>8 DEF CancelSubtask
    <2> QED BY <2>1, SideKept
  <1> QED BY <1>1, <1>2, <1>3, <1>4, <1>5, <1>6, <1>7, <1>8

LEMMA EventGoes ==
  ASSUME SessionTypeOK, RightSide, NEW f \in Fetches, RecvFetchEvent(f)
  PROVE  /\ RightSide'
         /\ \/ UNCHANGED fetch
            \/ \E x, y : Goes(f, x, y) /\ Lawful(f, x, y)
  <1> USE DEF Goes, Lawful, Given, Denied, Pending
  <1>0. UNCHANGED registry
    BY DEF RecvFetchEvent
  <1>1. CASE fetch[f] # "asked"
    <2>1. fetch' = fetch
      BY <1>1 DEF RecvFetchEvent, SessionTypeOK
    <2> QED BY <1>0, <2>1, SideStays
  <1>2. CASE fetch[f] = "asked" /\ FetchSwiss[f] = Gateway
    <2>1. Goes(f, "asked", "resolved")
      BY <1>2 DEF RecvFetchEvent
    <2> QED BY <1>0, <1>2, <2>1, SideKept
  <1>3. CASE fetch[f] = "asked" /\ FetchSwiss[f] # Gateway
    <2>1. Goes(f, "asked", "refused")
      BY <1>3 DEF RecvFetchEvent
    <2> QED BY <1>0, <1>3, <2>1, SideKept
  <1> QED BY <1>1, <1>2, <1>3

(* A step changes one fetch, or none.                                      *)
LEMMA MoveGoes ==
  ASSUME SessionTypeOK, RightSide, SessionMove
  PROVE  /\ RightSide'
         /\ \/ UNCHANGED fetch
            \/ \E f \in Fetches : \E x, y : Goes(f, x, y) /\ Lawful(f, x, y)
  <1>1. ASSUME UNCHANGED <<fetch, registry>> PROVE RightSide' /\ UNCHANGED fetch
    BY <1>1, SideStays
  <1>2. ASSUME NEW s \in Sessions,
               \/ StartSession(s) \/ RecvPortalRequest(s)
               \/ \E how \in Ended : LeaveLoop(s, how)
        PROVE  UNCHANGED <<fetch, registry>>
    BY <1>2 DEF StartSession, RecvPortalRequest, LeaveLoop
  <1> QED BY <1>1, <1>2, SubtaskGoes, EventGoes DEF SessionMove

-----------------------------------------------------------------------------
(* The replies, as the instance of FetchService has them.                 *)
Replies ==
  [f \in Fetches |->
     CASE fetch[f] = "idle" -> "none"
       [] fetch[f] \in Pending -> "due"
       [] fetch[f] = "answered" ->
            IF LeadsTo(FetchSession[f], position[f], FetchSwiss[f])
            THEN "object" ELSE "wrong"
       [] fetch[f] = "broken" -> "refusal"
       [] OTHER -> "failed"]

(* As no answer is wrong, they are the standings.                          *)
RepliesStand == Replies = Standings

LEMMA ReplyIsStanding == AnswerInv => RepliesStand
  <1> SUFFICES ASSUME AnswerInv, NEW f \in Fetches
               PROVE  Replies[f] = Standing(fetch[f])
    BY DEF Standings, Replies, RepliesStand
  <1>1. fetch[f] = "answered" => LeadsTo(FetchSession[f], position[f], FetchSwiss[f])
    BY DEF AnswerInv, AnswerMatchesExport
  <1> QED BY <1>1 DEF Standing, Pending, Replies

LEMMA ReplyIsStandingNext == AnswerInv' => RepliesStand'
  BY ReplyIsStanding, PTL

(* A lawful move of a fetch is a turn of FetchService, or none.            *)
LEMMA LawfulServes ==
  ASSUME AnswerInv, AnswerInv', RightSide, NEW f \in Fetches, NEW x, NEW y,
         Goes(f, x, y), Lawful(f, x, y)
  PROVE  [Service!Next]_(Replies)
  <1>1. Replies = Standings /\ Replies' = Standings'
    BY ReplyIsStanding, ReplyIsStandingNext DEF RepliesStand
  <1>2. \A g \in Fetches : fetch'[g] = IF g = f THEN y ELSE fetch[g]
    BY DEF Goes, AnswerInv, SessionTypeOK
  <1>3. Standings' = [Standings EXCEPT ![f] = Standing(y)]
    <2> SUFFICES ASSUME NEW g \in Fetches
                 PROVE  Standings'[g] = IF g = f THEN Standing(y) ELSE Standings[g]
      BY DEF Standings
    <2> QED BY <1>2 DEF Standings, Standing
  <1>4. Standings[f] = Standing(x)
    BY DEF Standings, Goes
  <1>5. \/ Standing(y) = Standing(x)
        \/ Standing(x) = "none" /\ Standing(y) = "due"
        \/ Standing(x) = "due" /\ Standing(y) = "object" /\ FetchSwiss[f] = Gateway
        \/ Standing(x) = "due" /\ Standing(y) = "refusal" /\ FetchSwiss[f] # Gateway
        \/ Standing(x) = "due" /\ Standing(y) = "failed"
    BY DEF Goes, Lawful, Standing, Pending, Given, Denied, RightSide
  <1>6. CASE Standing(y) = Standing(x)
    BY <1>1, <1>3, <1>4, <1>6 DEF Standings
  <1>7. CASE Standing(x) = "none" /\ Standing(y) = "due"
    <2>1. Service!Ask(f)
      BY <1>1, <1>3, <1>4, <1>7 DEF Service!Ask, Service!Turn, Replies
    <2> QED BY <2>1 DEF Service!Next
  <1>8. CASE Standing(x) = "due" /\ Standing(y) = "object" /\ FetchSwiss[f] = Gateway
    <2>1. Service!Give(f)
      BY <1>1, <1>3, <1>4, <1>8 DEF Service!Give, Service!Turn, Replies
    <2> QED BY <2>1 DEF Service!Next
  <1>9. CASE Standing(x) = "due" /\ Standing(y) = "refusal" /\ FetchSwiss[f] # Gateway
    <2>1. Service!Refuse(f)
      BY <1>1, <1>3, <1>4, <1>9 DEF Service!Refuse, Service!Turn, Replies
    <2> QED BY <2>1 DEF Service!Next
  <1>10. CASE Standing(x) = "due" /\ Standing(y) = "failed"
    <2>1. Service!Fail(f)
      BY <1>1, <1>3, <1>4, <1>10 DEF Service!Fail, Service!Turn, Replies
    <2> QED BY <2>1 DEF Service!Next
  <1> QED BY <1>5, <1>6, <1>7, <1>8, <1>9, <1>10

(* What both the program and another caller keep.                          *)
ServeInv == AnswerInv /\ RightSide

LEMMA ServeInit == SessionInit => Service!Init /\ ServeInv
  <1> SUFFICES ASSUME SessionInit PROVE Service!Init /\ ServeInv
    OBVIOUS
  <1>1. \A f \in Fetches : fetch[f] = "idle"
    BY DEF SessionInit
  <1>2. \A s \in Sessions : \A w \in Swisses : registry[s][w] = 0
    BY DEF SessionInit
  <1>3. RightSide
    BY <1>1, <1>2 DEF RightSide, Given, Denied
  <1>4. FetchStarted /\ AnswerMatchesExport
    BY <1>1, <1>2 DEF FetchStarted, AnswerMatchesExport
  <1>5. AnswerInv
    BY <1>2, <1>4, LibraryInitTyped DEF AnswerInv
  <1>6. Standings = [f \in Fetches |-> "none"]
    BY <1>1 DEF Standings, Standing
  <1>7. Service!Init
    BY <1>5, <1>6, ReplyIsStanding DEF Service!Init, RepliesStand, Replies
  <1> QED BY <1>3, <1>5, <1>7 DEF ServeInv

LEMMA ServeStep ==
  ASSUME ServeInv, SessionTypeOK', SessionMove
  PROVE  ServeInv' /\ [Service!Next]_(Replies)
  <1>0. AnswerInv /\ RightSide /\ SessionTypeOK
    BY DEF ServeInv, AnswerInv
  <1>1. AnswerInv'
    BY <1>0, AnswerKept
  <1>2. RightSide'
    BY <1>0, MoveGoes
  <1>3. CASE UNCHANGED fetch
    <2>1. Standings' = Standings
      BY <1>3 DEF Standings
    <2>2. [Service!Next]_(Replies)
      BY <1>0, <1>1, <2>1, ReplyIsStanding, ReplyIsStandingNext DEF RepliesStand
    <2> QED BY <1>1, <1>2, <2>2 DEF ServeInv
  <1>4. ASSUME NEW f \in Fetches, \E x, y : Goes(f, x, y) /\ Lawful(f, x, y)
        PROVE  ServeInv' /\ [Service!Next]_(Replies)
    BY <1>0, <1>1, <1>2, <1>4, LawfulServes DEF ServeInv
  <1> QED BY <1>0, <1>3, <1>4, MoveGoes

LEMMA ServeKept ==
  /\ ServeInv => AnswerMatchesExport
  /\ Service!Init /\ [][Service!Next]_(Replies) => KeepsService
  BY DEF ServeInv, AnswerInv, KeepsService, Service!Spec, Replies
-----------------------------------------------------------------------------
(* What is in the pipe.                                                    *)
LEMMA EventsDiffer ==
  /\ \A s, t : SessionStarted(s) = SessionStarted(t) <=> s = t
  /\ \A s, t : SessionAborted(s) = SessionAborted(t) <=> s = t
  /\ \A s, t : PortalRequest(s) = PortalRequest(t) <=> s = t
  /\ \A s, t, f, g : Fetch(s, f) = Fetch(t, g) <=> s = t /\ f = g
  /\ \A s, t : SessionStarted(s) # SessionAborted(t)
  /\ \A s, t : SessionStarted(s) # PortalRequest(t)
  /\ \A s, t : SessionAborted(s) # PortalRequest(t)
  /\ \A s, t, f : SessionStarted(s) # Fetch(t, f)
  /\ \A s, t, f : SessionAborted(s) # Fetch(t, f)
  /\ \A s, t, f : PortalRequest(s) # Fetch(t, f)
  BY DEF SessionStarted, SessionAborted, PortalRequest, Fetch

LEMMA SendIn ==
  ASSUME PipeTypeOK, receiving, NEW e \in NetworkEvent, Send(e)
  PROVE  /\ \A x : InPipe(x)' <=> InPipe(x) \/ x = e
         /\ Distinct /\ ~InPipe(e) => Distinct'
  <1>1. /\ Len(pipe) \in Nat /\ Len(pipe') = Len(pipe) + 1
        /\ \A i \in 1 .. Len(pipe) : pipe'[i] = pipe[i]
        /\ pipe'[Len(pipe) + 1] = e
    BY DEF PipeTypeOK, Send
  <1>2. \A i \in 1 .. Len(pipe') : i \in 1 .. Len(pipe) \/ i = Len(pipe) + 1
    BY <1>1
  <1>3. \A x : InPipe(x)' <=> InPipe(x) \/ x = e
    BY <1>1, <1>2 DEF InPipe
  <1>4. ASSUME Distinct, ~InPipe(e)
        PROVE  Distinct'
    BY <1>1, <1>2, <1>4 DEF Distinct, InPipe
  <1> QED BY <1>3, <1>4

LEMMA ReceiveIn ==
  ASSUME PipeTypeOK, Distinct, NEW e, Receive(e)
  PROVE  /\ InPipe(e) /\ Distinct'
         /\ \A x : InPipe(x)' <=> InPipe(x) /\ x # e
  <1>1. /\ Len(pipe) \in Nat \ {0} /\ Len(pipe') = Len(pipe) - 1
        /\ \A i \in 1 .. Len(pipe') : pipe'[i] = pipe[i + 1]
        /\ pipe[1] = e
    BY DEF PipeTypeOK, Receive
  <1>2. InPipe(e) /\ Distinct'
    BY <1>1 DEF InPipe, Distinct
  <1>3. ASSUME NEW x, InPipe(x)'
        PROVE  InPipe(x) /\ x # e
    BY <1>1, <1>3 DEF InPipe, Distinct
  <1>4. ASSUME NEW x, InPipe(x), x # e
        PROVE  InPipe(x)'
    <2>1. PICK i \in 1 .. Len(pipe) : pipe[i] = x
      BY <1>4 DEF InPipe
    <2>2. i - 1 \in 1 .. Len(pipe') /\ pipe'[i - 1] = x
      BY <1>1, <1>4, <2>1
    <2> QED BY <2>2 DEF InPipe
  <1> QED BY <1>2, <1>3, <1>4
=============================================================================
