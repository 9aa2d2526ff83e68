------------------------------ MODULE Shutdown ------------------------------
(***************************************************************************)
(* The library under a caller that keeps calling recv_event and may, at    *)
(* any time between two calls, use ChatManager::end. (The program in bin   *)
(* never does: its manager_loop has no way out.)                           *)
(***************************************************************************)
EXTENDS ChatManager

vars == <<pipeVars, sessionVars, netlayerVars, managerVars>>
aboveSession == <<netlayerVars, managerVars>>

Init == PipeInit /\ SessionInit /\ NetlayerInit /\ ManagerInit

SessionStep ==
  \/ \E s \in Sessions : RecvAbort(s) \/ RecvError(s) \/ RecvEnd(s)
  \/ \E f \in Fetches :
       RecvFetch(f) \/ LookUp(f) \/ Export(f) \/ Register(f)
         \/ Refused(f) \/ Reply(f) \/ CancelSubtask(f)

NetlayerStep ==
  \/ \E s \in Sessions :
       \/ Accept(s)
       \/ CancelSession(s)
       \/ \E r \in Requests : ConnectOk(r, s)
  \/ \E r \in Requests : RequestConnect(r) \/ ConnectError(r)
  \/ TakeRequest \/ AcceptError \/ SeeEnd \/ Return

RecvEvent ==
  /\ ~endFlag
  /\ \/ \E s \in Sessions :
          RecvSessionStarted(s) \/ RecvSessionAborted(s) \/ RecvPortalRequest(s)
     \/ \E f \in Fetches : RecvFetchEvent(f)

Next ==
  \/ SessionStep /\ UNCHANGED aboveSession
  \/ NetlayerStep /\ UNCHANGED managerVars
  \/ RecvEvent
  \/ \E s \in Sessions : Authenticate(s) \/ FulfillDone(s)
  \/ End \/ DropManager \/ DropLayers

(* As in Node: tasks that can go on do. Who else holds the layers, and     *)
(* when they let go, is up to the caller.                                  *)
Fairness ==
  /\ WF_vars(RecvEvent)
  /\ WF_vars(DropManager)
  /\ \A s \in Sessions :
       WF_vars(/\ \/ RecvEnd(s) /\ UNCHANGED netlayerVars
                  \/ CancelSession(s)
               /\ UNCHANGED managerVars)
  /\ \A f \in Fetches :
       WF_vars((Respond(f) \/ CancelSubtask(f)) /\ UNCHANGED aboveSession)
  /\ WF_vars((TakeRequest \/ SeeEnd \/ Return) /\ UNCHANGED managerVars)

Spec == Init /\ [][Next]_vars /\ Fairness

-----------------------------------------------------------------------------
TypeOK == PipeTypeOK /\ SessionTypeOK /\ NetlayerTypeOK /\ ManagerTypeOK

(* A resolver is never left in a pipe nobody reads: once the manager is    *)
(* gone, no subtask and no authentication waits in it.                     *)
NoneWaitsOnGoneManager ==
  ~receiving => pipe = <<>> /\ \A s \in Sessions : auth[s] # "queued"

(* Until then nothing asked of it is lost on the way, by whatever tasks    *)
(* that are stopped or still go on: a subtask that waits has its Fetch in  *)
(* the pipe, and so has the authentication of a peer its PortalRequest.    *)
NoneLost == (receiving => FetchTracked) /\ PortalRequestTracked

-----------------------------------------------------------------------------
(* The connection attempt manage_netlayer is suspended in comes to an end: *)
(* until then it sees neither its queue nor the end flag.                  *)
ConnectsReturn == []<>~Connecting

(* end stops every session, those accepted while it was being noticed too, *)
(* and the netlayer returns.                                               *)
EndStopsSessions ==
  ConnectsReturn =>
    (endFlag ~> [](netlayer = "gone" /\ \A s \in Sessions : task[s] # "running"))

(* A queued request is taken up, or dropped with its netlayer.             *)
RequestTaken ==
  ConnectsReturn => \A r \in Requests : request[r] = "queued" ~> request[r] # "queued"
=============================================================================
