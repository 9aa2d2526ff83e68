----------------------------- MODULE ViewProofs ------------------------------
(***************************************************************************)
(* Proofs about ChannelView, for any number of members and messages.       *)
(***************************************************************************)
EXTENDS ChannelView, HostingProofs

-----------------------------------------------------------------------------
(* What the steps of Hosting do to the messages, and to whether the task   *)
(* is about to push one.                                                   *)
LEMMA PushAdds ==
  ASSUME TypeOK, Push
  PROVE  Len(messages') = Len(messages) + 1
  <1>1. messages \in Seq(Message)
    BY DEF TypeOK, TaskTypeOK
  <1>2. \E x : messages' = Append(messages, x)
    BY DEF Push, SendDone, TakeMessage
  <1> QED BY <1>1, <1>2

LEMMA MessagesStay ==
  OtherStep \/ Write \/ Outside => UNCHANGED messages
  BY DEF OtherStep, TakeCommand, JoinOk, JoinErr, TakeConnected, TakeIntroduce, Write,
     Outside, IntroduceDone, taskVars

(* What others do goes to the end of the queue of events, and only a send  *)
(* that has been begun comes to anything.                                  *)
LEMMA PushStaysDue ==
  ASSUME TypeOK, AboutToPush, Write \/ Outside
  PROVE  AboutToPush'
  <1>1. ASSUME NEW e \in ChannelEvent, Tell(e), events # <<>>
        PROVE  events' # <<>> /\ Head(events') = Head(events)
    <2>1. events \in Seq(ChannelEvent)
      BY DEF TypeOK, ChannelTypeOK
    <2> QED BY <1>1, <2>1 DEF Tell
  <1>2. UNCHANGED channelTask
    BY DEF Write, Outside, IntroduceDone, taskVars
  <1>3. events # <<>> => events' # <<>> /\ Head(events') = Head(events)
    <2> SUFFICES ASSUME events # <<>>
                 PROVE  events' # <<>> /\ Head(events') = Head(events)
      OBVIOUS
    <2>1. CASE UNCHANGED events
      BY <2>1
    <2>2. ASSUME NEW m \in Members, Connect(m) PROVE UNCHANGED events \/ Tell(PeerConnected(m))
      BY <2>2 DEF Connect, ConnectPeer
    <2>3. ASSUME NEW m \in Members, DeliverMsg(m)
          PROVE  \E n \in Nat : Tell(RecvMessage(m, n))
      BY <2>3 DEF DeliverMsg, TypeOK, ChannelTypeOK
    <2>4. ASSUME NEW m \in Members, DeliverIntroduce(m) PROVE Tell(Introduce(m))
      BY <2>4 DEF DeliverIntroduce
    <2>5. \A m \in Members :
            MemberGets(m) \/ SessionDown(m) \/ SendOk(m, sent) \/ SendErr(m)
              \/ SendCancelled(m) \/ IntroduceDone(m) \/ Write => UNCHANGED events
      BY DEF MemberGets, SessionDown, SendOk, SendErr, SendCancelled, IntroduceDone,
         Write, channelVars
    <2>6. CASE \E m \in Members : Connect(m)
      BY <1>1, <2>1, <2>2, <2>6, EventsTyped
    <2>7. CASE \E m \in Members : DeliverMsg(m) \/ DeliverIntroduce(m)
      BY <1>1, <2>3, <2>4, <2>7, EventsTyped
    <2>8. CASE Write
      BY <2>8 DEF Write, channelVars
    <2> QED BY <2>1, <2>5, <2>6, <2>7, <2>8 DEF Outside, MemberStep
  <1>4. (\A m \in Members : outgoing[m] = "none") => \A m \in Members : outgoing'[m] = "none"
    BY DEF Write, Outside, MemberStep, IntroduceDone, Connect, DeliverMsg, DeliverIntroduce,
       MemberGets, SessionDown, SendOk, SendErr, SendCancelled, channelVars
  <1> QED BY <1>2, <1>3, <1>4 DEF AboutToPush

-----------------------------------------------------------------------------
(* A channel under its view does what a channel does.                      *)
LEMMA ChannelSteps == [ViewNext]_allVars => [Next]_vars
  BY DEF ViewNext, Task, MessagesMut, PushAndUnlock, View, Draw, FirstPoll, Wake,
     Choose, Submit, Next, TaskStep, allVars

(* The lock and the view add nothing to what a channel says and shows: a   *)
(* channel that is watched implements the one that is not ...              *)
THEOREM ViewImplements == ViewSpec => Spec
  BY ChannelSteps, PTL DEF ViewSpec, ViewInit, Spec

(* ... so what it promises the members, and what it keeps of what they     *)
(* say, it does while the GUI thread has it wait for the lock.             *)
THEOREM ViewKeepsPromise == ViewSpec => KeepsPromise
  BY ViewImplements, PromiseKept, PTL

THEOREM ViewSaidKept == ViewSpec => [](SaidKept /\ ShownReached)
  BY ViewImplements, SaidIsKept, ShownHasGone, PTL

-----------------------------------------------------------------------------
(* What has to be said of a view that listens, nothing being due, for as   *)
(* long as the task has the lock: the message it is going to push is one   *)
(* of those the view could not hear of.                                    *)
Seen(n) == rendered = n \/ onShow = "nothing" \/ n <= unheard

ViewInv ==
  /\ ViewOK
  /\ future = "waiting" /\ ~dirty =>
       IF locked THEN Len(messages) + 1 <= unheard ELSE Seen(Len(messages))

LEMMA ViewInvInit == ViewInit => ViewInv
  <1> SUFFICES ASSUME ViewInit PROVE ViewInv
    OBVIOUS
  <1>1. TypeOK
    BY InitTyped DEF ViewInit
  <1> QED BY <1>1 DEF ViewInit, ViewInv, ViewOK, ViewTypeOK

LEMMA CountTyped == TypeOK => Len(messages) \in Nat
  BY LenProperties DEF TypeOK, TaskTypeOK

LEMMA ViewInvStep == ViewInv /\ [ViewNext]_allVars => ViewInv'
  <1> SUFFICES ASSUME ViewInv, [ViewNext]_allVars PROVE ViewInv'
    OBVIOUS
  <1>1. TypeOK /\ Len(messages) \in Nat
    BY CountTyped DEF ViewInv, ViewOK
  <1>2. TypeOK'
    BY <1>1, ChannelSteps, StepTyped
  <1>3. CASE MessagesMut
    <2>1. AboutToPush' /\ UNCHANGED messages
      BY <1>3 DEF MessagesMut, AboutToPush, vars, channelVars, taskVars
    <2> QED BY <1>2, <1>3, <2>1 DEF MessagesMut, NotifyWaiters, ViewInv, ViewOK, ViewTypeOK
  <1>4. CASE PushAndUnlock
    <2>1. Len(messages') = Len(messages) + 1
      BY <1>1, <1>4, PushAdds DEF PushAndUnlock
    <2> QED BY <1>1, <1>2, <1>4, <2>1
          DEF PushAndUnlock, viewVars, ViewInv, ViewOK, ViewTypeOK, Seen
  <1>5. CASE ~locked /\ OtherStep /\ UNCHANGED <<locked, viewVars>>
    <2>1. UNCHANGED messages
      BY <1>5, MessagesStay
    <2> QED BY <1>2, <1>5, <2>1 DEF viewVars, ViewInv, ViewOK, ViewTypeOK, Seen
  <1>6. CASE (Write \/ Outside) /\ UNCHANGED <<locked, viewVars>>
    <2>1. UNCHANGED messages
      BY <1>6, MessagesStay
    <2>2. locked => AboutToPush'
      BY <1>1, <1>6, PushStaysDue DEF ViewInv, ViewOK
    <2> QED BY <1>2, <1>6, <2>1, <2>2 DEF viewVars, ViewInv, ViewOK, ViewTypeOK, Seen
  <1>7. ASSUME UNCHANGED <<vars, locked>> PROVE UNCHANGED messages /\ (AboutToPush' <=> AboutToPush)
    BY <1>7 DEF vars, channelVars, taskVars, AboutToPush
  <1>8. CASE Choose
    BY <1>2, <1>7, <1>8 DEF Choose, ViewInv, ViewOK, ViewTypeOK
  <1>9. CASE Draw
    <2>1. rendered' = Len(messages) \/ onShow' = "nothing"
      BY <1>9 DEF Draw, DrawMessages
    <2>2. rendered' \in Nat /\ onShow' \in {"about", "channel", "nothing"}
      BY <1>1, <1>9 DEF Draw, DrawMessages
    <2>3. future' \in {"none", "spawned", "waiting", "woken"}
      BY <1>9 DEF Draw, UseFuture, ViewInv, ViewOK, ViewTypeOK
    <2> QED BY <1>2, <1>7, <1>9, <2>1, <2>2, <2>3 DEF Draw, ViewInv, ViewOK, ViewTypeOK, Seen
  <1>10. CASE FirstPoll
    <2>1. unheard' = (IF locked THEN Len(messages) + 1 ELSE Len(messages))
      BY <1>1, <1>10 DEF FirstPoll
    <2> QED BY <1>1, <1>2, <1>7, <1>10, <2>1 DEF FirstPoll, ViewInv, ViewOK, ViewTypeOK, Seen
  <1>11. CASE Wake
    BY <1>2, <1>7, <1>11 DEF Wake, ViewInv, ViewOK, ViewTypeOK
  <1>12. CASE UNCHANGED allVars
    BY <1>2, <1>7, <1>12 DEF allVars, viewVars, ViewInv, ViewOK, ViewTypeOK, Seen
  <1> QED
    BY <1>3, <1>4, <1>5, <1>6, <1>8, <1>9, <1>10, <1>11, <1>12 DEF ViewNext, Task, View, Submit

LEMMA ViewInvAlways == ViewSpec => []ViewInv
  BY ViewInvInit, ViewInvStep, PTL DEF ViewSpec

(* The lock on the messages is had only to push one, for any number of     *)
(* members: the GUI thread never waits for a peer.                         *)
THEOREM LockBrief == ViewSpec => []ViewOK
  <1>1. ViewInv => ViewOK
    BY DEF ViewInv
  <1> QED BY <1>1, ViewInvAlways, PTL

(* A view that is told of nothing has missed nothing since it listens,     *)
(* though it is told before the message is there.                          *)
THEOREM ViewUpToDate == ViewSpec => []UpToDate
  <1>1. ViewInv => UpToDate
    BY DEF ViewInv, UpToDate, Seen
  <1> QED BY <1>1, ViewInvAlways, PTL
=============================================================================
