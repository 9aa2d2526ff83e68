---------------------------- MODULE ChannelView ----------------------------
(***************************************************************************)
(* The channel a node hosts (Hosting) and the view of it on the GUI        *)
(* thread: ChannelState (gui/chat.rs), whose messages are behind a lock    *)
(* and announced by a Notify, and the Channel component (gui.rs), whose    *)
(* future waits for the notification and has the component drawn anew.     *)
(***************************************************************************)
EXTENDS Hosting

VARIABLES
  locked,    \* whether the task has the write lock of messages
  chosen,    \* whether current_channel is this channel, or still none
  dirty,     \* whether the component is to be drawn
  onShow,    \* what it was drawn as
  rendered,  \* how many messages were drawn
  future,    \* where _messages_future stands
  unheard    \* history: the messages pushed, or being pushed, when it first waited

viewVars == <<chosen, dirty, onShow, rendered, future, unheard>>
allVars == <<vars, locked, viewVars>>

ViewTypeOK ==
  /\ locked \in BOOLEAN
  /\ chosen \in BOOLEAN
  /\ dirty \in BOOLEAN
  /\ onShow \in {"about", "channel", "nothing"}
  /\ rendered \in Nat
  /\ future \in {"none", "spawned", "waiting", "woken"}
  /\ unheard \in Nat

ViewInit ==
  /\ Init
  /\ locked = FALSE
  /\ chosen = FALSE
  /\ dirty = FALSE
  /\ onShow = "about"
  /\ rendered = 0
  /\ future = "none"
  /\ unheard = 0

-----------------------------------------------------------------------------
(* manage_channel has a message to push: all its sends are done, or it has *)
(* taken a RecvMessage.                                                    *)
AboutToPush ==
  \/ channelTask = "sending" /\ \A m \in Members : outgoing[m] = "none"
  \/ channelTask = "selecting" /\ events # <<>> /\ Head(events).kind = "RecvMessage"

(* Notify::notify_waiters: whoever waits is woken, and nobody else.        *)
NotifyWaiters == future' = IF future = "waiting" THEN "woken" ELSE future

(* Mutant of MessagesMut: the lock is taken first, and the sends are then  *)
(* waited for on the spot, the thread blocked.                             *)
MessagesMutHeld ==
  /\ ~locked
  /\ channelTask = "sending" \/ AboutToPush
  /\ locked' = TRUE
  /\ NotifyWaiters
  /\ UNCHANGED <<vars, chosen, dirty, onShow, rendered, unheard>>

(* messages_mut: the lock is taken, then the view is told.                 *)
MessagesMut ==
  /\ ~locked
  /\ AboutToPush
  /\ locked' = TRUE
  /\ NotifyWaiters
  /\ UNCHANGED <<vars, chosen, dirty, onShow, rendered, unheard>>

(* `.push(message)`, and the guard is dropped.                             *)
PushAndUnlock ==
  /\ locked
  /\ Push
  /\ locked' = FALSE
  /\ UNCHANGED viewVars

Task ==
  \/ MessagesMut \/ PushAndUnlock
  \/ ~locked /\ OtherStep /\ UNCHANGED <<locked, viewVars>>

-----------------------------------------------------------------------------
(* ChannelNav, onclick.                                                    *)
Choose ==
  /\ chosen' = TRUE
  /\ dirty' = TRUE
  /\ UNCHANGED <<vars, locked, onShow, rendered, future, unheard>>

(* MessageInput is part of the view of a channel.                          *)
Submit ==
  /\ onShow = "channel"
  /\ Write
  /\ UNCHANGED <<locked, viewVars>>

(* ChannelState.peers: the node itself; peers_mut is called by nobody.     *)
peers == {Host}

(* What is read of the messages, and drawn. A sender that is not among the *)
(* peers panics, and nothing is drawn.                                     *)
DrawMessages ==
  IF \E i \in 1 .. Len(messages) : messages[i].from \notin peers
  THEN onShow' = "nothing" /\ rendered' = 0
  ELSE onShow' = "channel" /\ rendered' = Len(messages)

(* use_future: the futures are made when the channel is first drawn.       *)
UseFuture == future' = IF future = "none" THEN "spawned" ELSE future

(* Mutant of Draw: messages() does not wait for the lock.                  *)
DrawUnlocked ==
  /\ dirty /\ chosen
  /\ dirty' = FALSE
  /\ UseFuture
  /\ DrawMessages
  /\ UNCHANGED <<vars, locked, chosen, unheard>>

(* The Channel component is drawn; messages() waits for the lock.          *)
Draw ==
  /\ dirty /\ chosen
  /\ ~locked
  /\ dirty' = FALSE
  /\ UseFuture
  /\ DrawMessages
  /\ UNCHANGED <<vars, locked, chosen, unheard>>

(* The future is polled for the first time, and begins to wait.            *)
FirstPoll ==
  /\ future = "spawned"
  /\ future' = "waiting"
  /\ unheard' = Len(messages) + (IF locked THEN 1 ELSE 0)
  /\ UNCHANGED <<vars, locked, chosen, dirty, onShow, rendered>>

(* Mutant of Wake: the future that was told only waits again.              *)
WakeOnly ==
  /\ future = "woken"
  /\ future' = "waiting"
  /\ UNCHANGED <<vars, locked, chosen, dirty, onShow, rendered, unheard>>

(* The future was told: it has the component drawn, and waits again.       *)
Wake ==
  /\ future = "woken"
  /\ future' = "waiting"
  /\ dirty' = TRUE
  /\ UNCHANGED <<vars, locked, chosen, onShow, rendered, unheard>>

View == Draw \/ FirstPoll \/ Wake

-----------------------------------------------------------------------------
ViewNext ==
  \/ Task \/ View \/ Choose \/ Submit
  \/ Outside /\ UNCHANGED <<locked, viewVars>>

ViewSpec == ViewInit /\ [][ViewNext]_allVars

(* The channel's task and the GUI thread go on while they can. Nothing is  *)
(* assumed of the user, the members, or the writes to them.                *)
FairView == ViewSpec /\ WF_allVars(Task) /\ WF_allVars(View)

-----------------------------------------------------------------------------
(* Every variable of the view keeps its type. The task has the lock only   *)
(* to push, never while it waits for something: the GUI thread would wait  *)
(* with it.                                                                *)
ViewOK == TypeOK /\ ViewTypeOK /\ (locked => AboutToPush)

(* No update is missed: a view that neither is to be drawn nor has been    *)
(* told of a change shows all there is (or nothing at all, because of an   *)
(* unknown sender), but for what was pushed before its future first waited *)
(* and after the channel was first drawn.                                  *)
UpToDate ==
  future = "waiting" /\ ~dirty /\ ~locked
    => rendered = Len(messages) \/ onShow = "nothing" \/ Len(messages) <= unheard

(* A message that is pushed while the view listens comes to be drawn or,   *)
(* if a sender is unknown, the view comes to show nothing.                 *)
PushedDrawn ==
  \A n \in 1 .. MaxWritten :
    Len(messages) >= n /\ future \in {"waiting", "woken"} /\ n > unheard
      ~> rendered >= n \/ onShow = "nothing"
=============================================================================
