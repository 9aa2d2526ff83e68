-------------------------------- MODULE Node --------------------------------
(***************************************************************************)
(* A running node: the library's tasks (Session, Netlayer, ChatManager)    *)
(* under manager_loop (gui/chat.rs), the task that calls recv_event, opens *)
(* a portal over every new session and keeps what the GUI shows.           *)
(***************************************************************************)
EXTENDS ChatManager

VARIABLES
  open,           \* the handle_new_session task of each session
  portals,        \* manager_loop's map of RemotePortals
  opened_portals, \* the signal the GUI renders
  list            \* the list_channels task of each session

loopVars == <<open, portals, opened_portals, list>>
vars == <<pipeVars, sessionVars, netlayerVars, managerVars, loopVars>>

LoopTypeOK ==
  /\ open \in [Sessions -> {"none", "running", "ok", "err", "joined"}]
  /\ portals \subseteq Sessions
  /\ opened_portals \in [Sessions -> {"absent", "opened", "listed"}]
  /\ list \in [Sessions -> {"none", "running", "done", "joined"}]

LoopInit ==
  /\ open = [s \in Sessions |-> "none"]
  /\ portals = {}
  /\ opened_portals = [s \in Sessions |-> "absent"]
  /\ list = [s \in Sessions |-> "none"]

Init == PipeInit /\ SessionInit /\ NetlayerInit /\ ManagerInit /\ LoopInit

-----------------------------------------------------------------------------
(* The branch of recv_event.                                               *)
ChatSessionStarted(s) ==
  /\ RecvSessionStarted(s)
  /\ open' = [open EXCEPT ![s] = "running"]
  /\ UNCHANGED <<portals, opened_portals, list>>

(* Mutant of ChatSessionAborted: only the display is cleared.              *)
ChatAbortedHides(s) ==
  /\ RecvSessionAborted(s)
  /\ opened_portals' = [opened_portals EXCEPT ![s] = "absent"]
  /\ UNCHANGED <<open, portals, list>>

(* opened_portals is touched only if there was a portal to remove.         *)
ChatSessionAborted(s) ==
  /\ RecvSessionAborted(s)
  /\ portals' = portals \ {s}
  /\ opened_portals' = [opened_portals EXCEPT ![s] = IF s \in portals THEN "absent" ELSE @]
  /\ UNCHANGED <<open, list>>

RecvEvent ==
  \/ \E s \in Sessions : ChatSessionStarted(s) \/ ChatSessionAborted(s)
  \/ /\ \/ \E f \in Fetches : RecvFetchEvent(f)
        \/ \E s \in Sessions : RecvPortalRequest(s)
     /\ UNCHANGED loopVars

(* The branch of tasks.join_next(): a finished subtask. Only what the      *)
(* remote node says over a live session opens a portal.                    *)
OpenDone(s) ==
  /\ open[s] = "running"
  /\ \/ task[s] = "running" /\ open' = [open EXCEPT ![s] = "ok"]
     \/ open' = [open EXCEPT ![s] = "err"]
  /\ UNCHANGED <<portals, opened_portals, list>>
  /\ UNCHANGED <<pipeVars, sessionVars, netlayerVars, managerVars>>

JoinOpened(s) ==
  /\ open[s] = "ok"
  /\ open' = [open EXCEPT ![s] = "joined"]
  /\ portals' = portals \cup {s}
  /\ opened_portals' = [opened_portals EXCEPT ![s] = "opened"]
  /\ list' = [list EXCEPT ![s] = "running"]
  /\ DropRecvEvent
  /\ UNCHANGED <<pipeVars, sessionVars, netlayerVars>>

JoinOpenError(s) ==
  /\ open[s] = "err"
  /\ open' = [open EXCEPT ![s] = "joined"]
  /\ DropRecvEvent
  /\ UNCHANGED <<portals, opened_portals, list>>
  /\ UNCHANGED <<pipeVars, sessionVars, netlayerVars>>

(* list_channels ends, with a list or an error: either is shown.           *)
ListDone(s) ==
  /\ list[s] = "running"
  /\ list' = [list EXCEPT ![s] = "done"]
  /\ UNCHANGED <<open, portals, opened_portals>>
  /\ UNCHANGED <<pipeVars, sessionVars, netlayerVars, managerVars>>

JoinListed(s) ==
  /\ list[s] = "done"
  /\ list' = [list EXCEPT ![s] = "joined"]
  /\ opened_portals' = [opened_portals EXCEPT ![s] = "listed"]
  /\ DropRecvEvent
  /\ UNCHANGED <<open, portals>>
  /\ UNCHANGED <<pipeVars, sessionVars, netlayerVars>>

(* The branch of input.next(): the user opens a locator.                   *)
OpenPortal(r) == RequestConnect(r) /\ DropRecvEvent /\ UNCHANGED loopVars

(* A channel task asks for a connection to a peer it was introduced to.    *)
Introduce(r) == RequestConnect(r) /\ UNCHANGED <<managerVars, loopVars>>

-----------------------------------------------------------------------------
aboveNetlayer == <<managerVars, loopVars>>
aboveSession == <<netlayerVars, managerVars, loopVars>>

LibraryStep ==
  \/ \E s \in Sessions :
       \/ RecvAbort(s) /\ UNCHANGED aboveSession
       \/ RecvError(s) /\ UNCHANGED aboveSession
       \/ CancelSession(s) /\ UNCHANGED aboveNetlayer
       \/ Accept(s) /\ UNCHANGED aboveNetlayer
       \/ \E r \in Requests : ConnectOk(r, s) /\ UNCHANGED aboveNetlayer
       \/ Authenticate(s) /\ UNCHANGED loopVars
       \/ FulfillDone(s) /\ UNCHANGED loopVars
  \/ \E f \in Fetches :
       \/ RecvFetch(f) /\ UNCHANGED aboveSession
       \/ LookUp(f) /\ UNCHANGED aboveSession
       \/ Export(f) /\ UNCHANGED aboveSession
       \/ Register(f) /\ UNCHANGED aboveSession
       \/ Refused(f) /\ UNCHANGED aboveSession
       \/ Reply(f) /\ UNCHANGED aboveSession
       \/ CancelSubtask(f) /\ UNCHANGED aboveSession
  \/ \E r \in Requests : ConnectError(r) /\ UNCHANGED aboveNetlayer
  \/ TakeRequest /\ UNCHANGED aboveNetlayer
  \/ AcceptError /\ UNCHANGED aboveNetlayer

LoopStep ==
  \/ RecvEvent
  \/ \E s \in Sessions :
       \/ OpenDone(s) \/ JoinOpened(s) \/ JoinOpenError(s)
       \/ ListDone(s) \/ JoinListed(s)
  \/ \E r \in Requests : OpenPortal(r) \/ Introduce(r)

Next == LibraryStep \/ LoopStep

(* The runtime polls every task that can go on, and select! takes a random *)
(* ready branch. Nothing is assumed of the peers, the network, the user or *)
(* of a write the peer has to read.                                        *)
Fairness ==
  /\ WF_vars(RecvEvent)
  /\ \A s \in Sessions : WF_vars(JoinOpened(s) \/ JoinOpenError(s) \/ JoinListed(s))
  /\ \A f \in Fetches :
       WF_vars((Respond(f) \/ CancelSubtask(f)) /\ UNCHANGED aboveSession)
  /\ \A s \in Sessions : WF_vars(CancelSession(s) /\ UNCHANGED aboveNetlayer)

Spec == Init /\ [][Next]_vars
FairSpec == Spec /\ Fairness

-----------------------------------------------------------------------------
(* Every variable keeps the type the source declares.                      *)
TypeOK ==
  /\ PipeTypeOK /\ SessionTypeOK /\ NetlayerTypeOK
  /\ ManagerTypeOK /\ LoopTypeOK

(* Whatever recv_event is told of a session, it has been told before that  *)
(* the session started: the announcement in manage_netlayer goes into the  *)
(* pipe before anything the session's tasks and objects put there.         *)
AnnouncedFirst ==
  \A i \in 1 .. Len(pipe) :
    LET s == pipe[i].session IN
      pipe[i] # SessionStarted(s) =>
        open[s] # "none" \/ \E j \in 1 .. i - 1 : pipe[j] = SessionStarted(s)

(* A running session is known to the manager, or about to be: no handler   *)
(* removes a session whose task is still receiving.                        *)
LiveSessionKnown ==
  \A s \in Sessions :
    task[s] = "running" => s \in sessions \/ InPipe(SessionStarted(s))

(* ChatData.sessions forgets a session exactly when its peer's abort has   *)
(* been received and handled; an abort that was received is handled once.  *)
ForgottenIffAborted ==
  \A s \in Sessions :
    open[s] # "none" =>
      (s \notin sessions <=> task[s] = "aborted" /\ ~InPipe(SessionAborted(s)))

(* manager_loop keeps portals and opened_portals together: a portal it     *)
(* holds is on show.                                                       *)
PortalShown == \A s \in portals : opened_portals[s] # "absent"

(* The pipe holds an event about s.                                        *)
AnyAbout(s) == \E i \in 1 .. Len(pipe) : pipe[i].session = s

(* What the three properties about sessions rest on: before its task there *)
(* is no trace of a session; its start is in the pipe until manager_loop   *)
(* has opened a portal for it; its abort goes in after the task ended.     *)
SessionTracked ==
  \A s \in Sessions :
    /\ task[s] = "none" => open[s] = "none" /\ ~AnyAbout(s)
    /\ InPipe(SessionStarted(s)) <=> task[s] # "none" /\ open[s] = "none"
    /\ s \in sessions => open[s] # "none"
    /\ InPipe(SessionAborted(s)) => task[s] = "aborted"
    /\ task[s] = "aborted" /\ open[s] = "none" => InPipe(SessionAborted(s))

(* A peer that has left does not come back: once the abort of a session is *)
(* handled it is not in ChatData.sessions, and no event puts it there.     *)
ForgottenForGood ==
  [][\A s \in Sessions :
       task[s] = "aborted" /\ ~InPipe(SessionAborted(s)) => s \notin sessions']_vars

(* The inductive invariant.                                               *)
IndInv ==
  /\ TypeOK
  /\ receiving
  /\ Distinct /\ SessionTracked /\ FetchStarted
  /\ AnnouncedFirst /\ ForgottenIffAborted /\ FetchTracked /\ PortalRequestTracked

-----------------------------------------------------------------------------
(* The fulfilment recv_event is suspended in keeps coming to an end.       *)
PipeRead == []<>(fulfilling = NoSession)

(* Every session that starts is handed to manager_loop, as long as the     *)
(* portal requests of other peers do not hold recv_event up for ever.      *)
StartHandled ==
  PipeRead => \A s \in Sessions : task[s] = "running" ~> open[s] # "none"

(* So is the abort of a peer: the session leaves ChatData.sessions.        *)
AbortHandled ==
  PipeRead => \A s \in Sessions : task[s] = "aborted" ~> [](s \notin sessions)

(* A peer's fetch gets as far as its reply, or stops with its session.     *)
FetchSettles ==
  PipeRead => \A f \in Fetches :
    fetch[f] = "spawned" ~> fetch[f] \in FetchStates \ {"idle", "spawned", "asked",
                                                      "resolved", "refused", "exported"}

-----------------------------------------------------------------------------
(* A session that aborts is removed: session.rs:102 notes an abort found   *)
(* by recv_event, but tells nobody.                                        *)
DeadSessionForgotten ==
  PipeRead => \A s \in Sessions : task[s] = "failed" ~> [](s \notin sessions)

(* A portal request that cannot be fulfilled is noticed (manager.rs:198),  *)
(* not lost.                                                               *)
PortalRequestNotLost == \A s \in Sessions : auth[s] # "dropped"
=============================================================================
