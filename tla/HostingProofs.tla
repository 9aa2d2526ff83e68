---------------------------- MODULE HostingProofs ----------------------------
(***************************************************************************)
(* Proofs about Hosting, for any number of members and messages.           *)
(***************************************************************************)
EXTENDS Hosting, SequenceTheorems, TLAPS

-----------------------------------------------------------------------------
(* Types.                                                                  *)
LEMMA EventsTyped ==
  \A m \in Members : \A n \in Nat :
    {RecvMessage(m, n), PeerConnected(m), Introduce(m)} \subseteq ChannelEvent
  BY DEF RecvMessage, PeerConnected, Introduce, ChannelEvent

LEMMA TellTyped ==
  ASSUME TypeOK, NEW e \in ChannelEvent, Tell(e)
  PROVE  events' \in Seq(ChannelEvent)
  <1>1. events \in Seq(ChannelEvent)
    BY DEF TypeOK, ChannelTypeOK
  <1>2. Append(events, e) \in Seq(ChannelEvent)
    BY <1>1, AppendProperties
  <1> QED BY <1>1, <1>2 DEF Tell

LEMMA TakeTyped ==
  ASSUME TypeOK, NEW e, TakeEvent(e)
  PROVE  e \in ChannelEvent /\ events' \in Seq(ChannelEvent)
  <1>1. events \in Seq(ChannelEvent) /\ events # <<>>
    BY DEF TypeOK, ChannelTypeOK, TakeEvent
  <1> QED BY <1>1, HeadTailProperties DEF TakeEvent

LEMMA MessagesTyped ==
  ASSUME TypeOK, NEW x \in Message, messages' = Append(messages, x)
  PROVE  messages' \in Seq(Message)
  BY AppendProperties DEF TypeOK, TaskTypeOK

LEMMA ConnectTyped ==
  ASSUME TypeOK, NEW m \in Members, Connect(m), UNCHANGED taskVars
  PROVE  TypeOK'
  <1>1. events' \in Seq(ChannelEvent) /\ outboxes' \subseteq Members
    BY EventsTyped, TellTyped DEF Connect, ConnectPeer, TypeOK, ChannelTypeOK
  <1>2. exported_at' \in [Members -> Nat]
    <2>1. exported_at \in [Members -> Nat] /\ exported_at[m] \in Nat
      BY DEF TypeOK, ChannelTypeOK
    <2>2. (IF exported_at[m] = 0 THEN 1 ELSE exported_at[m]) \in Nat
      BY <2>1
    <2> QED BY <2>1, <2>2 DEF Connect
  <1>3. connects' \in [Members -> Nat]
    BY DEF Connect, TypeOK, ChannelTypeOK
  <1> QED BY <1>1, <1>2, <1>3 DEF Connect, TypeOK, ChannelTypeOK, TaskTypeOK, taskVars

LEMMA DeliverTyped ==
  ASSUME TypeOK, NEW m \in Members, DeliverMsg(m) \/ DeliverIntroduce(m), UNCHANGED taskVars
  PROVE  TypeOK'
  <1>1. CASE DeliverMsg(m)
    <2>1. said' \in [Members -> Nat] /\ said'[m] \in Nat
      BY <1>1 DEF DeliverMsg, TypeOK, ChannelTypeOK
    <2>2. events' \in Seq(ChannelEvent)
      BY <1>1, <2>1, EventsTyped, TellTyped DEF DeliverMsg
    <2> QED BY <1>1, <2>1, <2>2 DEF DeliverMsg, TypeOK, ChannelTypeOK, TaskTypeOK, taskVars
  <1>2. CASE DeliverIntroduce(m)
    <2>1. events' \in Seq(ChannelEvent)
      BY <1>2, EventsTyped, TellTyped DEF DeliverIntroduce
    <2> QED BY <1>2, <2>1 DEF DeliverIntroduce, TypeOK, ChannelTypeOK, TaskTypeOK, taskVars
  <1> QED BY <1>1, <1>2

LEMMA SendsTyped ==
  ASSUME TypeOK, NEW m \in Members, UNCHANGED taskVars,
         \/ SendOk(m, sent) \/ SendErr(m) \/ SendCancelled(m)
         \/ MemberGets(m) \/ SessionDown(m)
  PROVE  TypeOK'
  <1>0. wire[m] \in Seq(Nat) /\ got[m] \in Seq(Nat) /\ sent \in Nat
    BY HostAssumption DEF TypeOK, ChannelTypeOK, TaskTypeOK
  <1>1. CASE SendOk(m, sent)
    <2>1. Append(wire[m], sent) \in Seq(Nat)
      BY <1>0, AppendProperties
    <2>2. wire' \in [Members -> Seq(Nat)]
      BY <1>1, <2>1 DEF SendOk, TypeOK, ChannelTypeOK
    <2> QED BY <1>1, <2>2 DEF SendOk, TypeOK, ChannelTypeOK, TaskTypeOK, taskVars
  <1>2. CASE SendErr(m) \/ SendCancelled(m)
    BY <1>2 DEF SendErr, SendCancelled, TypeOK, ChannelTypeOK, TaskTypeOK, taskVars
  <1>3. CASE MemberGets(m)
    <2>1. Head(wire[m]) \in Nat /\ Tail(wire[m]) \in Seq(Nat)
      BY <1>0, <1>3, HeadTailProperties DEF MemberGets
    <2>2. Append(got[m], Head(wire[m])) \in Seq(Nat)
      BY <1>0, <2>1, AppendProperties
    <2>3. wire' \in [Members -> Seq(Nat)] /\ got' \in [Members -> Seq(Nat)]
      BY <1>3, <2>1, <2>2 DEF MemberGets, TypeOK, ChannelTypeOK
    <2> QED BY <1>3, <2>3 DEF MemberGets, TypeOK, ChannelTypeOK, TaskTypeOK, taskVars
  <1>4. CASE SessionDown(m)
    <2>1. wire' \in [Members -> Seq(Nat)]
      BY <1>4 DEF SessionDown, TypeOK, ChannelTypeOK
    <2> QED BY <1>4, <2>1 DEF SessionDown, TypeOK, ChannelTypeOK, TaskTypeOK, taskVars
  <1> QED BY <1>1, <1>2, <1>3, <1>4

LEMMA TaskTyped ==
  ASSUME TypeOK, TaskStep
  PROVE  TypeOK'
  <1> USE HostAssumption
  <1>1. CASE TakeCommand
    BY <1>1 DEF TakeCommand, TypeOK, ChannelTypeOK, TaskTypeOK
  <1>2. ASSUME NEW m \in Members, JoinOk(m) PROVE TypeOK'
    BY <1>2 DEF JoinOk, TypeOK, ChannelTypeOK, TaskTypeOK, taskVars
  <1>3. ASSUME NEW m \in Members, JoinErr(m) PROVE TypeOK'
    <2>1. events' \in Seq(ChannelEvent)
      BY <1>3 DEF JoinErr
    <2> QED BY <1>3, <2>1 DEF JoinErr, TypeOK, ChannelTypeOK, TaskTypeOK
  <1>4. CASE SendDone
    <2>1. [from |-> Host, n |-> sent] \in Message
      BY DEF Message, TypeOK, TaskTypeOK
    <2>2. messages' \in Seq(Message)
      BY <1>4, <2>1, MessagesTyped DEF SendDone
    <2> QED BY <1>4, <2>2 DEF SendDone, TypeOK, ChannelTypeOK, TaskTypeOK, channelVars
  <1>5. ASSUME NEW m \in Members, NEW n \in 1 .. MaxSaid[m], TakeMessage(m, n) PROVE TypeOK'
    <2>1. [from |-> m, n |-> n] \in Message
      BY BoundsAssumption DEF Message
    <2>2. messages' \in Seq(Message) /\ events' \in Seq(ChannelEvent)
      BY <1>5, <2>1, MessagesTyped, TakeTyped DEF TakeMessage
    <2> QED BY <1>5, <2>2 DEF TakeMessage, TypeOK, ChannelTypeOK, TaskTypeOK
  <1>6. ASSUME NEW m \in Members, TakeConnected(m) PROVE TypeOK'
    <2>1. events' \in Seq(ChannelEvent)
      BY <1>6, TakeTyped DEF TakeConnected
    <2> QED BY <1>6, <2>1 DEF TakeConnected, TypeOK, ChannelTypeOK, TaskTypeOK, taskVars
  <1>7. ASSUME NEW m \in Members, TakeIntroduce(m) PROVE TypeOK'
    <2>1. events' \in Seq(ChannelEvent)
      BY <1>7, TakeTyped DEF TakeIntroduce
    <2> QED BY <1>7, <2>1 DEF TakeIntroduce, TypeOK, ChannelTypeOK, TaskTypeOK, taskVars
  <1> QED BY <1>1, <1>2, <1>3, <1>4, <1>5, <1>6, <1>7 DEF TaskStep, Push, OtherStep

LEMMA InitTyped == Init => TypeOK
  BY HostAssumption DEF Init, ChannelInit, TypeOK, ChannelTypeOK, TaskTypeOK

LEMMA StepTyped == TypeOK /\ [Next]_vars => TypeOK'
  <1> SUFFICES ASSUME TypeOK, [Next]_vars PROVE TypeOK'
    OBVIOUS
  <1>1. CASE TaskStep
    BY <1>1, TaskTyped
  <1>2. CASE Write
    BY <1>2, HostAssumption DEF Write, TypeOK, ChannelTypeOK, TaskTypeOK, channelVars
  <1>3. ASSUME NEW m \in Members, IntroduceDone(m) PROVE TypeOK'
    BY <1>3 DEF IntroduceDone, TypeOK, ChannelTypeOK, TaskTypeOK, taskVars
  <1>4. ASSUME NEW m \in Members, MemberStep(m), UNCHANGED taskVars PROVE TypeOK'
    BY <1>4, ConnectTyped, DeliverTyped, SendsTyped DEF MemberStep
  <1>5. CASE UNCHANGED vars
    BY <1>5 DEF vars, channelVars, taskVars, TypeOK, ChannelTypeOK, TaskTypeOK
  <1> QED BY <1>1, <1>2, <1>3, <1>4, <1>5 DEF Next, Outside

(* Every variable of a channel and its task keeps its type, for any        *)
(* members and numbers of messages.                                        *)
THEOREM ChannelTyped == Spec => []TypeOK
  BY InitTyped, StepTyped, PTL DEF Spec

(* Portal::connect exports a channel once on a session (portal.rs:174) and *)
(* keeps an outbox for just those it was exported to.                      *)
THEOREM ConnectsOnce == Spec => []ExportedOnce
  <1>1. Init => ExportedOnce
    BY DEF Init, ChannelInit, ExportedOnce
  <1>2. ASSUME TypeOK, ExportedOnce, NEW m \in Members, Connect(m) PROVE ExportedOnce'
    <2>1. CASE UNCHANGED <<exported_at, outboxes>>
      BY <1>2, <2>1 DEF ExportedOnce
    <2>2. CASE /\ exported_at' = [exported_at EXCEPT ![m] = IF @ = 0 THEN 1 ELSE @]
               /\ outboxes' = outboxes \cup {m}
      BY <1>2, <2>2 DEF ExportedOnce, TypeOK, ChannelTypeOK
    <2> QED BY <1>2, <2>1, <2>2 DEF Connect, ConnectPeer
  <1>3. ASSUME [Next]_vars PROVE UNCHANGED <<exported_at, outboxes>>
                                   \/ \E m \in Members : Connect(m)
    BY <1>3 DEF Next, Outside, MemberStep, TaskStep, Push, OtherStep, Write, TakeCommand,
       JoinOk, JoinErr, SendDone, TakeMessage, TakeConnected, TakeIntroduce, IntroduceDone,
       DeliverMsg, DeliverIntroduce, SendOk, SendErr, SendCancelled, MemberGets,
       SessionDown, vars, channelVars
  <1>4. TypeOK /\ ExportedOnce /\ [Next]_vars => ExportedOnce'
    BY <1>2, <1>3 DEF ExportedOnce
  <1> QED BY <1>1, <1>4, ChannelTyped, PTL DEF Spec

-----------------------------------------------------------------------------
(* Broadcast. What is on the wire goes on where the member is, and ends    *)
(* with the message sent last, unless that is still to be written or the   *)
(* task of the channel has failed.                                         *)
GoesOn(m) ==
  /\ \A i \in 1 .. Len(wire[m]) : wire[m][i] \in 1 .. sent
  /\ \A i \in 1 .. Len(wire[m]) - 1 : wire[m][i + 1] = wire[m][i] + 1
  /\ wire[m] # <<>> => Promise!Continues(got[m], wire[m][1])

EndsWith(m, n) ==
  IF wire[m] # <<>> THEN wire[m][Len(wire[m])] = n
  ELSE got[m] = <<>> \/ got[m][Len(got[m])] = n

InTime(m) ==
  session[m] = "up" =>
    /\ outgoing[m] \in {"running", "aborted"} => sent >= 1 /\ EndsWith(m, sent - 1)
    /\ outgoing[m] = "ok" => EndsWith(m, sent)
    /\ outgoing[m] = "none" /\ channelTask # "panicked" => EndsWith(m, sent)

(* Where the sends stand, and that nothing goes to who has not connected.  *)
Phase(m) ==
  /\ channelTask = "selecting" => outgoing[m] = "none"
  /\ channelTask = "sending" => outgoing[m] # "aborted"
  /\ channelTask = "panicked" => outgoing[m] \in {"none", "aborted"}
  /\ m \notin outboxes => outgoing[m] = "none" /\ wire[m] = <<>> /\ got[m] = <<>>

RunInv == TypeOK /\ \A m \in Members : GoesOn(m) /\ InTime(m) /\ Phase(m)

LEMMA RunInvInit == Init => RunInv
  <1> SUFFICES ASSUME Init, NEW m \in Members PROVE GoesOn(m) /\ InTime(m) /\ Phase(m)
    BY InitTyped DEF RunInv
  <1>1. wire[m] = <<>> /\ got[m] = <<>> /\ Len(wire[m]) = 0 /\ outgoing[m] = "none"
    BY DEF Init, ChannelInit
  <1>2. channelTask = "selecting"
    BY DEF Init
  <1> QED BY <1>1, <1>2 DEF GoesOn, InTime, EndsWith, Phase

(* A member that a step does not touch.                                    *)
LEMMA MemberQuiet ==
  ASSUME RunInv, NEW m \in Members,
         session'[m] = session[m], outgoing'[m] = outgoing[m], wire'[m] = wire[m],
         got'[m] = got[m], UNCHANGED <<sent, channelTask>>, outboxes \subseteq outboxes'
  PROVE  GoesOn(m)' /\ InTime(m)' /\ Phase(m)'
  BY DEF RunInv, GoesOn, InTime, EndsWith, Phase, Promise!Continues

LEMMA QuietKeeps ==
  ASSUME RunInv, TypeOK', UNCHANGED <<session, outgoing, wire, got, sent, channelTask>>,
         outboxes \subseteq outboxes'
  PROVE  RunInv'
  BY MemberQuiet DEF RunInv

(* What becomes of a send, apart from its being written.                   *)
LEMMA OutgoingKeeps ==
  ASSUME RunInv, NEW m \in Members, UNCHANGED <<session, wire, got, sent, outboxes>>,
         \/ UNCHANGED channelTask /\ outgoing[m] = "ok" /\ outgoing'[m] = "none"
         \/ UNCHANGED channelTask /\ outgoing[m] = "running" /\ outgoing'[m] = "err"
         \/ UNCHANGED channelTask /\ outgoing[m] = "aborted" /\ outgoing'[m] = "none"
         \/ /\ channelTask' = "panicked"
            /\ outgoing'[m] = IF outgoing[m] = "running" THEN "aborted" ELSE "none"
         \/ channelTask = "sending" /\ channelTask' = "selecting"
              /\ outgoing[m] = "none" /\ outgoing'[m] = "none"
  PROVE  GoesOn(m)' /\ InTime(m)' /\ Phase(m)'
  <1>1. GoesOn(m)'
    BY DEF RunInv, GoesOn, Promise!Continues
  <1>2. channelTask \in {"selecting", "sending", "panicked"}
    BY DEF RunInv, TypeOK, TaskTypeOK
  <1>3. InTime(m)'
    BY <1>2 DEF RunInv, InTime, EndsWith, Phase
  <1>4. Phase(m)'
    BY <1>2 DEF RunInv, Phase
  <1> QED BY <1>1, <1>3, <1>4

LEMMA CommandKeeps ==
  ASSUME RunInv, TypeOK', TakeCommand
  PROVE  RunInv'
  <1> SUFFICES ASSUME NEW m \in Members PROVE GoesOn(m)' /\ InTime(m)' /\ Phase(m)'
    BY DEF RunInv
  <1>1. /\ sent \in Nat /\ sent' = sent + 1 /\ channelTask = "selecting"
        /\ UNCHANGED <<session, wire, got, outboxes>>
        /\ outgoing'[m] = IF m \in outboxes THEN "running" ELSE "none"
        /\ channelTask' = "sending"
    BY HostAssumption DEF TakeCommand, RunInv, TypeOK, TaskTypeOK
  <1>2. GoesOn(m)'
    BY <1>1 DEF RunInv, GoesOn, Promise!Continues
  <1>3. CASE m \in outboxes
    <2>1. session[m] = "up" => EndsWith(m, sent)
      BY <1>1 DEF RunInv, InTime, Phase
    <2>2. session[m] = "up" => EndsWith(m, sent - 1)'
      BY <1>1, <2>1 DEF EndsWith
    <2> QED BY <1>1, <1>2, <1>3, <2>2 DEF InTime, Phase
  <1>4. CASE m \notin outboxes
    BY <1>1, <1>2, <1>4 DEF RunInv, InTime, EndsWith, Phase
  <1> QED BY <1>3, <1>4

LEMMA SendOkKeeps ==
  ASSUME RunInv, TypeOK', NEW m \in Members, SendOk(m, sent), UNCHANGED taskVars
  PROVE  RunInv'
  <1> DEFINE w == wire[m]
             new == Append(w, sent)
  <1>1. /\ w \in Seq(Nat) /\ sent \in Nat
        /\ session[m] = "up" /\ outgoing[m] \in {"running", "aborted"}
        /\ wire' = [wire EXCEPT ![m] = new]
        /\ outgoing' = [outgoing EXCEPT ![m] = IF @ = "running" THEN "ok" ELSE "none"]
        /\ UNCHANGED <<session, got, sent, channelTask, outboxes>>
    BY HostAssumption DEF SendOk, taskVars, RunInv, TypeOK, ChannelTypeOK, TaskTypeOK
  <1>2. /\ new # <<>> /\ Len(new) = Len(w) + 1 /\ Len(w) \in Nat
        /\ \A i \in 1 .. Len(w) : new[i] = w[i]
        /\ new[Len(w) + 1] = sent
        /\ w # <<>> => Len(w) >= 1
    <2>1. w \in Seq(Nat) /\ sent \in Nat
      BY <1>1
    <2> HIDE DEF w
    <2>2. Len(w) \in Nat /\ (w # <<>> => Len(w) >= 1)
      BY <2>1, LenProperties, EmptySeq
    <2>3. /\ new # <<>> /\ Len(new) = Len(w) + 1
          /\ \A i \in 1 .. Len(w) : new[i] = w[i]
          /\ new[Len(w) + 1] = sent
      BY <2>1, AppendProperties
    <2> QED BY <2>2, <2>3
  <1>3. /\ sent >= 1
        /\ IF w # <<>> THEN w[Len(w)] = sent - 1
           ELSE got[m] = <<>> \/ got[m][Len(got[m])] = sent - 1
    BY <1>1 DEF RunInv, InTime, EndsWith
  <1>4. /\ \A i \in 1 .. Len(w) : w[i] \in 1 .. sent
        /\ \A i \in 1 .. Len(w) - 1 : w[i + 1] = w[i] + 1
        /\ w # <<>> => Promise!Continues(got[m], w[1])
        /\ w = <<>> => Len(w) = 0
    BY DEF RunInv, GoesOn
  <1>5. wire'[m] = new /\ outgoing'[m] = IF outgoing[m] = "running" THEN "ok" ELSE "none"
    BY <1>1 DEF RunInv, TypeOK, ChannelTypeOK
  <1> HIDE DEF new, w
  <1>6. /\ \A i \in 1 .. Len(new) : new[i] \in 1 .. sent
        /\ \A i \in 1 .. Len(new) - 1 : new[i + 1] = new[i] + 1
    <2>1. ASSUME NEW i \in 1 .. Len(new) PROVE new[i] \in 1 .. sent
      <3>1. CASE i = Len(w) + 1
        BY <1>1, <1>2, <1>3, <3>1
      <3>2. CASE i \in 1 .. Len(w)
        BY <1>2, <1>4, <3>2
      <3> QED BY <1>2, <2>1, <3>1, <3>2
    <2>2. ASSUME NEW i \in 1 .. Len(new) - 1 PROVE new[i + 1] = new[i] + 1
      <3>0. i \in 1 .. Len(w) /\ new[i] = w[i]
        BY <1>2, <2>2
      <3>1. CASE i = Len(w)
        <4>1. w # <<>>
          BY <1>4, <3>0
        <4> QED BY <1>1, <1>2, <1>3, <3>0, <3>1, <4>1
      <3>2. CASE i \in 1 .. Len(w) - 1
        BY <1>2, <1>4, <3>0, <3>2
      <3> QED BY <1>2, <3>0, <3>1, <3>2
    <2> QED BY <2>1, <2>2
  <1>7. Promise!Continues(got[m], new[1])
    <2>1. CASE w = <<>>
      BY <1>1, <1>2, <1>3, <1>4, <2>1 DEF Promise!Continues
    <2>2. CASE w # <<>>
      BY <1>2, <1>4, <2>2
    <2> QED BY <2>1, <2>2
  <1>8. GoesOn(m)'
    BY <1>1, <1>5, <1>6, <1>7 DEF GoesOn, Promise!Continues
  <1>9. EndsWith(m, sent)'
    BY <1>1, <1>2, <1>5 DEF EndsWith
  <1>10. m \in outboxes /\ channelTask \in {"selecting", "sending", "panicked"}
    BY <1>1 DEF RunInv, Phase, TypeOK, TaskTypeOK
  <1>11. InTime(m)' /\ Phase(m)'
    BY <1>1, <1>5, <1>9, <1>10 DEF RunInv, InTime, Phase
  <1>12. ASSUME NEW o \in Members \ {m} PROVE GoesOn(o)' /\ InTime(o)' /\ Phase(o)'
    <2>1. wire'[o] = wire[o] /\ outgoing'[o] = outgoing[o]
      BY <1>1 DEF RunInv, TypeOK, ChannelTypeOK
    <2> QED BY <1>1, <2>1, MemberQuiet
  <1> QED BY <1>8, <1>11, <1>12 DEF RunInv

(* The head of the wire, and what is left of it.                           *)
LEMMA WireHead ==
  ASSUME RunInv, NEW m \in Members, MemberGets(m)
  PROVE  /\ wire'[m] = Tail(wire[m]) /\ got'[m] = Append(got[m], wire[m][1])
         /\ wire[m][1] \in 1 .. sent /\ Promise!Continues(got[m], wire[m][1])
         /\ got'[m] # <<>> /\ got'[m][Len(got'[m])] = wire[m][1]
         /\ Len(wire'[m]) \in Nat /\ Len(wire[m]) = Len(wire'[m]) + 1
         /\ wire'[m] # <<>> <=> Len(wire'[m]) >= 1
         /\ \A i \in 1 .. Len(wire'[m]) : wire'[m][i] = wire[m][i + 1]
  <1> DEFINE w == wire[m]
             g == got[m]
             t == Tail(w)
             h == Append(g, w[1])
  <1>1. w \in Seq(Nat) /\ w # <<>> /\ g \in Seq(Nat)
    BY DEF MemberGets, RunInv, TypeOK, ChannelTypeOK
  <1>2. wire'[m] = t /\ got'[m] = h
    BY <1>1 DEF MemberGets, RunInv, TypeOK, ChannelTypeOK
  <1>3. /\ \A i \in 1 .. Len(w) : w[i] \in 1 .. sent
        /\ Promise!Continues(g, w[1])
    BY <1>1 DEF RunInv, GoesOn
  <1> HIDE DEF w, g
  <1>4. /\ t \in Seq(Nat) /\ Len(t) = Len(w) - 1
        /\ \A i \in 1 .. Len(t) : t[i] = w[i + 1]
    BY <1>1, HeadTailProperties
  <1>5. Len(w) \in Nat /\ Len(w) >= 1
    BY <1>1, LenProperties, EmptySeq
  <1> HIDE DEF t
  <1>6. Len(t) \in Nat /\ (t # <<>> <=> Len(t) >= 1)
    BY <1>4, LenProperties, EmptySeq
  <1>7. w[1] \in 1 .. sent /\ w[1] \in Nat
    BY <1>1, <1>3, <1>5, ElementOfSeq
  <1>8. h # <<>> /\ Len(h) = Len(g) + 1 /\ h[Len(g) + 1] = w[1]
    BY <1>1, <1>7, AppendProperties
  <1> HIDE DEF h
  <1> QED BY <1>2, <1>3, <1>4, <1>5, <1>6, <1>7, <1>8 DEF w, g, t, h

LEMMA GetsKeeps ==
  ASSUME RunInv, TypeOK', NEW m \in Members, MemberGets(m), UNCHANGED taskVars
  PROVE  RunInv'
  <1> DEFINE w == wire[m]
             t == wire'[m]
             g == got'[m]
  <1>1. UNCHANGED <<session, outgoing, sent, channelTask, outboxes>>
    BY DEF MemberGets, taskVars
  <1>2. /\ g # <<>> /\ g[Len(g)] = w[1]
        /\ Len(t) \in Nat /\ Len(w) = Len(t) + 1
        /\ t # <<>> <=> Len(t) >= 1
        /\ \A i \in 1 .. Len(t) : t[i] = w[i + 1]
    BY WireHead
  <1>3. /\ w # <<>>
        /\ \A i \in 1 .. Len(w) : w[i] \in 1 .. sent
        /\ \A i \in 1 .. Len(w) - 1 : w[i + 1] = w[i] + 1
    BY DEF MemberGets, RunInv, GoesOn
  <1>4. \A n : EndsWith(m, n) <=> w[Len(w)] = n
    BY <1>3 DEF EndsWith
  <1>5. m \in outboxes
    BY <1>3 DEF RunInv, Phase
  <1>6. \A n : EndsWith(m, n)' <=> IF t # <<>> THEN t[Len(t)] = n ELSE g = <<>> \/ g[Len(g)] = n
    BY DEF EndsWith
  <1> HIDE DEF w, t, g
  <1>7. /\ \A i \in 1 .. Len(t) : t[i] \in 1 .. sent
        /\ \A i \in 1 .. Len(t) - 1 : t[i + 1] = t[i] + 1
        /\ t # <<>> => t[1] = w[1] + 1
    BY <1>2, <1>3
  <1>8. \A n : w[Len(w)] = n => IF t # <<>> THEN t[Len(t)] = n ELSE g[Len(g)] = n
    BY <1>2
  <1>9. GoesOn(m)'
    BY <1>1, <1>2, <1>7 DEF GoesOn, Promise!Continues, t, g
  <1>10. InTime(m)'
    <2>1. EndsWith(m, sent) => EndsWith(m, sent)'
      BY <1>1, <1>4, <1>6, <1>8
    <2>2. EndsWith(m, sent - 1) => EndsWith(m, sent - 1)'
      BY <1>1, <1>4, <1>6, <1>8
    <2> QED BY <1>1, <2>1, <2>2 DEF RunInv, InTime
  <1>11. Phase(m)'
    BY <1>1, <1>5 DEF RunInv, Phase
  <1>12. ASSUME NEW o \in Members \ {m} PROVE GoesOn(o)' /\ InTime(o)' /\ Phase(o)'
    <2>1. wire'[o] = wire[o] /\ got'[o] = got[o]
      BY DEF MemberGets, RunInv, TypeOK, ChannelTypeOK
    <2> QED BY <1>1, <2>1, MemberQuiet
  <1> QED BY <1>9, <1>10, <1>11, <1>12 DEF RunInv

LEMMA DownKeeps ==
  ASSUME RunInv, TypeOK', NEW m \in Members, SessionDown(m), UNCHANGED taskVars
  PROVE  RunInv'
  <1>1. /\ session'[m] = "down" /\ wire'[m] = <<>> /\ Len(wire'[m]) = 0
        /\ UNCHANGED <<outgoing, got, sent, channelTask, outboxes>>
    BY DEF SessionDown, taskVars, RunInv, TypeOK, ChannelTypeOK
  <1>2. GoesOn(m)' /\ InTime(m)' /\ Phase(m)'
    BY <1>1 DEF RunInv, GoesOn, InTime, Phase
  <1>3. ASSUME NEW o \in Members \ {m} PROVE GoesOn(o)' /\ InTime(o)' /\ Phase(o)'
    <2>1. wire'[o] = wire[o] /\ session'[o] = session[o]
      BY DEF SessionDown, RunInv, TypeOK, ChannelTypeOK
    <2> QED BY <1>1, <2>1, MemberQuiet
  <1> QED BY <1>2, <1>3 DEF RunInv

(* The send to one member comes to something.                              *)
LEMMA OneSendKeeps ==
  ASSUME RunInv, TypeOK', NEW m \in Members,
         JoinOk(m) \/ ((SendErr(m) \/ SendCancelled(m)) /\ UNCHANGED taskVars)
  PROVE  RunInv'
  <1>1. /\ UNCHANGED <<session, wire, got, sent, outboxes, channelTask>>
        /\ \/ outgoing[m] = "ok" /\ outgoing'[m] = "none"
           \/ outgoing[m] = "running" /\ outgoing'[m] = "err"
           \/ outgoing[m] = "aborted" /\ outgoing'[m] = "none"
    BY DEF JoinOk, SendErr, SendCancelled, taskVars, RunInv, TypeOK, ChannelTypeOK
  <1>2. \A o \in Members \ {m} : outgoing'[o] = outgoing[o]
    BY DEF JoinOk, SendErr, SendCancelled, RunInv, TypeOK, ChannelTypeOK
  <1>3. GoesOn(m)' /\ InTime(m)' /\ Phase(m)'
    BY <1>1, OutgoingKeeps
  <1>4. \A o \in Members \ {m} : GoesOn(o)' /\ InTime(o)' /\ Phase(o)'
    BY <1>1, <1>2, MemberQuiet
  <1> QED BY <1>3, <1>4 DEF RunInv

LEMMA RunInvStep == RunInv /\ [Next]_vars => RunInv'
  <1> SUFFICES ASSUME RunInv, [Next]_vars PROVE RunInv'
    OBVIOUS
  <1>0. TypeOK'
    BY StepTyped DEF RunInv
  <1>1. CASE TakeCommand
    BY <1>0, <1>1, CommandKeeps
  <1>2. ASSUME NEW m \in Members, JoinOk(m) PROVE RunInv'
    BY <1>0, <1>2, OneSendKeeps
  <1>3. ASSUME NEW m \in Members, JoinErr(m) PROVE RunInv'
    <2>1. /\ UNCHANGED <<session, wire, got, sent, outboxes>> /\ channelTask' = "panicked"
          /\ \A o \in Members : outgoing'[o] = IF outgoing[o] = "running" THEN "aborted" ELSE "none"
      BY <1>3 DEF JoinErr
    <2> QED BY <1>0, <2>1, OutgoingKeeps DEF RunInv
  <1>4. CASE SendDone
    <2>1. /\ UNCHANGED <<session, wire, got, sent, outboxes, outgoing>>
          /\ channelTask = "sending" /\ channelTask' = "selecting"
          /\ \A o \in Members : outgoing[o] = "none"
      BY <1>4 DEF SendDone, channelVars
    <2> QED BY <1>0, <2>1, OutgoingKeeps DEF RunInv
  <1>5. ASSUME NEW m \in Members,
               \/ TakeConnected(m) \/ TakeIntroduce(m) \/ IntroduceDone(m)
               \/ \E n \in 1 .. MaxSaid[m] : TakeMessage(m, n)
               \/ (Connect(m) \/ DeliverMsg(m) \/ DeliverIntroduce(m)) /\ UNCHANGED taskVars
        PROVE  RunInv'
    <2>1. UNCHANGED <<session, outgoing, wire, got, sent, channelTask>>
      BY <1>5 DEF TakeConnected, TakeIntroduce, IntroduceDone, TakeMessage, Connect,
         DeliverMsg, DeliverIntroduce, taskVars
    <2>2. outboxes \subseteq outboxes'
      BY <1>5 DEF TakeConnected, TakeIntroduce, IntroduceDone, TakeMessage, Connect,
         ConnectPeer, DeliverMsg, DeliverIntroduce, taskVars
    <2> QED BY <1>0, <2>1, <2>2, QuietKeeps
  <1>6. CASE Write
    BY <1>0, <1>6, QuietKeeps DEF Write, channelVars
  <1>7. ASSUME NEW m \in Members, MemberStep(m), UNCHANGED taskVars PROVE RunInv'
    BY <1>0, <1>5, <1>7, SendOkKeeps, OneSendKeeps, GetsKeeps, DownKeeps DEF MemberStep
  <1>8. CASE UNCHANGED vars
    BY <1>0, <1>8, QuietKeeps DEF vars, channelVars, taskVars
  <1> QED BY <1>1, <1>2, <1>3, <1>4, <1>5, <1>6, <1>7, <1>8
        DEF Next, TaskStep, Push, OtherStep, Outside

(* A step of the channel is one of Broadcast, or none.                     *)
LEMMA PromiseStep == RunInv /\ [Next]_vars => [Promise!Next]_<<sent, got>>
  <1> SUFFICES ASSUME RunInv, [Next]_vars, UNCHANGED <<sent, got>> => FALSE
               PROVE  Promise!Next
    OBVIOUS
  <1>1. CASE TakeCommand
    BY <1>1 DEF TakeCommand, Promise!Next, Promise!Post
  <1>2. ASSUME NEW m \in Members, MemberGets(m), UNCHANGED taskVars PROVE Promise!Next
    <2> DEFINE n == wire[m][1]
    <2>1. n \in 1 .. sent /\ Promise!Continues(got[m], n)
      BY <1>2, WireHead
    <2>2. got' = [got EXCEPT ![m] = Append(@, n)] /\ UNCHANGED sent
      <3>1. wire[m] \in Seq(Nat) /\ wire[m] # <<>>
        BY <1>2 DEF MemberGets, RunInv, TypeOK, ChannelTypeOK
      <3> QED BY <1>2, <3>1 DEF MemberGets, taskVars
    <2> HIDE DEF n
    <2>3. Promise!Get(m, n)
      BY <2>1, <2>2 DEF Promise!Get
    <2> QED BY <2>1, <2>3 DEF Promise!Next
  <1>3. ASSUME NEW m \in Members, MemberStep(m), UNCHANGED taskVars, ~MemberGets(m)
        PROVE  UNCHANGED <<sent, got>>
    BY <1>3 DEF MemberStep, Connect, DeliverMsg, DeliverIntroduce, SessionDown, SendOk,
       SendErr, SendCancelled, taskVars
  <1>4. ASSUME NEW m \in Members, IntroduceDone(m) PROVE UNCHANGED <<sent, got>>
    BY <1>4 DEF IntroduceDone, taskVars
  <1>5. ASSUME Push \/ (\E m \in Members : JoinOk(m) \/ JoinErr(m) \/ TakeConnected(m)
                          \/ TakeIntroduce(m))
        PROVE  UNCHANGED <<sent, got>>
    BY <1>5 DEF Push, SendDone, TakeMessage, JoinOk, JoinErr, TakeConnected, TakeIntroduce,
       taskVars, channelVars
  <1>6. CASE Write \/ UNCHANGED vars
    BY <1>6 DEF Write, vars, taskVars, channelVars
  <1> QED BY <1>1, <1>2, <1>3, <1>4, <1>5, <1>6 DEF Next, TaskStep, OtherStep, Outside

(* A channel keeps the promise of Broadcast, for any number of members and *)
(* messages: each member gets the host's messages in order, none left out  *)
(* and none twice, whichever sends fail and whichever are aborted.         *)
THEOREM PromiseKept == Spec => KeepsPromise
  <1>1. Init => Promise!Init
    BY DEF Init, ChannelInit, Promise!Init
  <1>2. Promise!Init /\ [][Promise!Next]_<<sent, got>> => KeepsPromise
    BY DEF KeepsPromise, Promise!Spec
  <1> QED BY <1>1, <1>2, RunInvInit, RunInvStep, PromiseStep, PTL DEF Spec

-----------------------------------------------------------------------------
(* ShownReached. All that has gone out to a member, had or on its way,     *)
(* goes up by ones as far as the last message that is shown.               *)
Gone(m) == got[m] \o wire[m]

ByOnes(m) == \A i \in 1 .. Len(Gone(m)) : Gone(m)[i] = Gone(m)[1] + (i - 1)

LastShown == IF channelTask = "selecting" THEN sent ELSE sent - 1

ReachesShown(m) == Gone(m) # <<>> => Gone(m)[Len(Gone(m))] >= LastShown

GoneInv == \A m \in Members : session[m] = "up" => ByOnes(m) /\ ReachesShown(m)

ShownBefore ==
  \A i \in 1 .. Len(messages) : messages[i].from = Host => messages[i].n <= LastShown

LEMMA GoneTyped ==
  ASSUME TypeOK, NEW m \in Members
  PROVE  /\ got[m] \in Seq(Nat) /\ wire[m] \in Seq(Nat) /\ Gone(m) \in Seq(Nat)
         /\ sent \in Nat
         /\ Len(Gone(m)) \in Nat /\ (Gone(m) # <<>> <=> Len(Gone(m)) >= 1)
         /\ \A i \in 1 .. Len(Gone(m)) : Gone(m)[i] \in Nat
  <1>1. got[m] \in Seq(Nat) /\ wire[m] \in Seq(Nat) /\ sent \in Nat
    BY HostAssumption DEF TypeOK, ChannelTypeOK, TaskTypeOK
  <1>2. Gone(m) \in Seq(Nat)
    BY <1>1, ConcatProperties DEF Gone
  <1> QED BY <1>1, <1>2, LenProperties, EmptySeq, ElementOfSeq

(* What has gone out ends as EndsWith says.                                *)
LEMMA GoneEnds ==
  ASSUME TypeOK, NEW m \in Members, NEW n, EndsWith(m, n), Gone(m) # <<>>
  PROVE  Gone(m)[Len(Gone(m))] = n
  <1> DEFINE g == got[m]
             w == wire[m]
             all == g \o w
  <1>1. g \in Seq(Nat) /\ w \in Seq(Nat) /\ all # <<>>
    BY GoneTyped DEF Gone
  <1>2. IF w # <<>> THEN w[Len(w)] = n ELSE g = <<>> \/ g[Len(g)] = n
    BY DEF EndsWith
  <1> HIDE DEF g, w
  <1>3. all[Len(all)] = n
    <2>1. CASE w = <<>>
      <3>1. all = g
        BY <1>1, <2>1, ConcatEmptySeq
      <3> HIDE DEF all
      <3> QED BY <1>1, <1>2, <2>1, <3>1
    <2>2. CASE w # <<>>
      <3>1. /\ Len(g) \in Nat /\ Len(w) \in Nat /\ Len(w) >= 1
            /\ Len(all) = Len(g) + Len(w)
            /\ \A i \in 1 .. Len(g) + Len(w) :
                 all[i] = IF i <= Len(g) THEN g[i] ELSE w[i - Len(g)]
        BY <1>1, <2>2, LenProperties, EmptySeq, ConcatProperties
      <3> HIDE DEF all
      <3>2. Len(all) \in 1 .. Len(g) + Len(w) /\ ~(Len(all) <= Len(g)) /\ Len(all) - Len(g) = Len(w)
        BY <3>1
      <3> QED BY <1>2, <2>2, <3>1, <3>2
    <2> QED BY <2>1, <2>2
  <1> QED BY <1>3 DEF Gone, g, w

(* A step that sends nothing, and shows nothing new of the host.           *)
LEMMA GoneStays ==
  ASSUME GoneInv, UNCHANGED session, LastShown' = LastShown,
         \A m \in Members : session[m] = "up" => UNCHANGED Gone(m)
  PROVE  GoneInv'
  BY DEF GoneInv, ByOnes, ReachesShown

LEMMA Associative ==
  ASSUME NEW a \in Seq(Nat), NEW b \in Seq(Nat), NEW c \in Seq(Nat)
  PROVE  (a \o b) \o c = a \o (b \o c)
  BY ConcatAssociative

(* The member gets the first of what is on its way: it has gone out.       *)
LEMMA GetsGone ==
  ASSUME TypeOK, NEW m \in Members, MemberGets(m), NEW o \in Members
  PROVE  UNCHANGED Gone(o)
  <1>1. CASE o # m
    BY <1>1 DEF MemberGets, TypeOK, ChannelTypeOK, Gone
  <1>2. CASE o = m
    <2> DEFINE g == got[m]
               w == wire[m]
    <2>1. g \in Seq(Nat) /\ w \in Seq(Nat) /\ w # <<>>
      BY DEF MemberGets, TypeOK, ChannelTypeOK
    <2>2. got'[m] = Append(g, Head(w)) /\ wire'[m] = Tail(w)
      BY <2>1 DEF MemberGets, TypeOK, ChannelTypeOK
    <2> HIDE DEF g, w
    <2>3. Head(w) \in Nat /\ Tail(w) \in Seq(Nat) /\ <<Head(w)>> \in Seq(Nat)
      BY <2>1, HeadTailProperties
    <2>4. Append(g, Head(w)) = g \o <<Head(w)>>
      BY <2>1, <2>3, AppendIsConcat
    <2>5. w = <<Head(w)>> \o Tail(w)
      BY <2>1, HeadTailAppend
    <2>6. (g \o <<Head(w)>>) \o Tail(w) = g \o (<<Head(w)>> \o Tail(w))
      BY <2>1, <2>3, Associative
    <2>7. Append(g, Head(w)) \o Tail(w) = g \o w
      BY <2>4, <2>5, <2>6, Zenon
    <2> QED BY <1>2, <2>2, <2>7 DEF Gone, g, w
  <1> QED BY <1>1, <1>2

LEMMA SendOkGone ==
  ASSUME RunInv, GoneInv, NEW m \in Members, SendOk(m, sent), UNCHANGED taskVars
  PROVE  GoneInv'
  <1> DEFINE all == Gone(m)
  <1>1. /\ session[m] = "up" /\ outgoing[m] \in {"running", "aborted"}
        /\ UNCHANGED <<session, got, sent, channelTask>>
        /\ wire' = [wire EXCEPT ![m] = Append(@, sent)]
    BY DEF SendOk, taskVars
  <1>2. TypeOK /\ sent >= 1 /\ EndsWith(m, sent - 1)
    BY <1>1 DEF RunInv, InTime
  <1>3. /\ all \in Seq(Nat) /\ Len(all) \in Nat /\ (all # <<>> <=> Len(all) >= 1)
        /\ sent \in Nat
        /\ \A i \in 1 .. Len(all) : all[i] \in Nat
    BY <1>2, GoneTyped
  <1>4. all # <<>> => all[Len(all)] = sent - 1
    BY <1>2, GoneEnds
  <1>5. \A i \in 1 .. Len(all) : all[i] = all[1] + (i - 1)
    BY <1>1 DEF GoneInv, ByOnes
  <1>6. Gone(m)' = Append(all, sent)
    <2>1. got[m] \in Seq(Nat) /\ wire[m] \in Seq(Nat) /\ <<sent>> \in Seq(Nat)
      BY <1>2, <1>3, GoneTyped
    <2>2. wire'[m] = Append(wire[m], sent) /\ got'[m] = got[m]
      BY <1>1, <1>2 DEF TypeOK, ChannelTypeOK
    <2>3. Append(wire[m], sent) = wire[m] \o <<sent>>
      BY <1>3, <2>1, AppendIsConcat
    <2>4. Append(all, sent) = all \o <<sent>>
      BY <1>3, AppendIsConcat
    <2>5. got[m] \o (wire[m] \o <<sent>>) = (got[m] \o wire[m]) \o <<sent>>
      BY <2>1, Associative
    <2> QED BY <2>2, <2>3, <2>4, <2>5 DEF Gone
  <1> HIDE DEF all
  <1>7. /\ Len(Append(all, sent)) = Len(all) + 1
        /\ \A i \in 1 .. Len(all) : Append(all, sent)[i] = all[i]
        /\ Append(all, sent)[Len(all) + 1] = sent
    BY <1>3, AppendProperties
  <1>8. ByOnes(m)'
    <2> SUFFICES ASSUME NEW i \in 1 .. Len(all) + 1
                 PROVE  Append(all, sent)[i] = Append(all, sent)[1] + (i - 1)
      BY <1>6, <1>7 DEF ByOnes
    <2>1. CASE i \in 1 .. Len(all)
      BY <1>3, <1>5, <1>7, <2>1
    <2>2. CASE i = Len(all) + 1 /\ Len(all) >= 1
      <3>1. all[Len(all)] = all[1] + (Len(all) - 1) /\ all[1] \in Nat
        BY <1>3, <1>5, <2>2
      <3>2. sent - 1 = all[1] + (Len(all) - 1)
        BY <1>3, <1>4, <2>2, <3>1, Zenon
      <3>3. 1 \in 1 .. Len(all)
        BY <1>3, <2>2
      <3>4. Append(all, sent)[1] = all[1] /\ Append(all, sent)[i] = sent
        BY <1>7, <2>2, <3>3, Zenon
      <3>5. sent = all[1] + (i - 1)
        <4> DEFINE one == all[1]
                   len == Len(all)
        <4>1. one \in Nat /\ len \in Nat /\ sent \in Nat
          BY <1>3, <3>1
        <4>2. sent - 1 = one + (len - 1) /\ i = len + 1
          BY <2>2, <3>2
        <4> HIDE DEF one, len
        <4>3. sent = one + (i - 1)
          BY <4>1, <4>2
        <4> QED BY <4>3 DEF one
      <3> QED BY <3>4, <3>5, Zenon
    <2>3. CASE i = Len(all) + 1 /\ Len(all) = 0
      BY <1>3, <1>7, <2>3
    <2> QED BY <1>3, <2>1, <2>2, <2>3
  <1>9. ReachesShown(m)'
    BY <1>1, <1>3, <1>6, <1>7 DEF ReachesShown, LastShown
  <1>10. ASSUME NEW o \in Members \ {m}, session[o] = "up" PROVE (ByOnes(o) /\ ReachesShown(o))'
    <2>1. UNCHANGED <<Gone(o), LastShown>>
      BY <1>1, <1>2 DEF TypeOK, ChannelTypeOK, Gone, LastShown
    <2> QED BY <1>10, <2>1 DEF GoneInv, ByOnes, ReachesShown
  <1> QED BY <1>1, <1>8, <1>9, <1>10 DEF GoneInv

(* What is pushed by the task: the host's own message, when all its sends  *)
(* are done, or a member's.                                                *)
LEMMA PushGone ==
  ASSUME RunInv, GoneInv, ShownBefore, Push
  PROVE  GoneInv' /\ ShownBefore'
  <1>0. TypeOK /\ sent \in Nat /\ messages \in Seq(Message)
    BY HostAssumption DEF RunInv, TypeOK, TaskTypeOK
  <1>1. CASE SendDone
    <2>1. /\ channelTask = "sending" /\ channelTask' = "selecting"
          /\ UNCHANGED <<sent, session, got, wire>>
          /\ \A m \in Members : outgoing[m] = "none"
          /\ messages' = Append(messages, [from |-> Host, n |-> sent])
      BY <1>1 DEF SendDone, channelVars
    <2>2. GoneInv'
      <3> SUFFICES ASSUME NEW m \in Members, session[m] = "up"
                   PROVE  (ByOnes(m) /\ ReachesShown(m))'
        BY <2>1 DEF GoneInv
      <3>1. EndsWith(m, sent)
        BY <2>1 DEF RunInv, InTime
      <3>2. Gone(m) # <<>> => Gone(m)[Len(Gone(m))] = sent
        BY <1>0, <3>1, GoneEnds
      <3>3. UNCHANGED Gone(m) /\ LastShown' = sent
        BY <2>1 DEF Gone, LastShown
      <3> QED BY <1>0, <3>2, <3>3 DEF GoneInv, ByOnes, ReachesShown
    <2>3. ShownBefore'
      <3>1. [from |-> Host, n |-> sent] \in Message
        BY <1>0 DEF Message
      <3>2. /\ Len(messages) \in Nat /\ Len(messages') = Len(messages) + 1
            /\ \A i \in 1 .. Len(messages) : messages'[i] = messages[i]
            /\ messages'[Len(messages) + 1] = [from |-> Host, n |-> sent]
        BY <1>0, <2>1, <3>1, AppendProperties, LenProperties
      <3>3. LastShown = sent - 1 /\ LastShown' = sent
        BY <2>1 DEF LastShown
      <3>4. ASSUME NEW i \in 1 .. Len(messages) PROVE messages[i].n \in Nat
        <4>1. messages[i] \in Message
          BY <1>0, ElementOfSeq
        <4> QED BY <4>1 DEF Message
      <3> QED BY <1>0, <3>2, <3>3, <3>4 DEF ShownBefore
    <2> QED BY <2>2, <2>3
  <1>2. ASSUME NEW m \in Members, NEW n \in 1 .. MaxSaid[m], TakeMessage(m, n)
        PROVE  GoneInv' /\ ShownBefore'
    <2>1. /\ UNCHANGED <<session, got, wire, sent, channelTask>>
          /\ messages' = Append(messages, [from |-> m, n |-> n])
      BY <1>2 DEF TakeMessage
    <2>2. UNCHANGED LastShown /\ \A o \in Members : UNCHANGED Gone(o)
      BY <2>1 DEF LastShown, Gone
    <2>3. [from |-> m, n |-> n] \in Message
      BY BoundsAssumption DEF Message
    <2>4. /\ Len(messages) \in Nat /\ Len(messages') = Len(messages) + 1
          /\ \A i \in 1 .. Len(messages) : messages'[i] = messages[i]
          /\ messages'[Len(messages) + 1] = [from |-> m, n |-> n]
      BY <1>0, <2>1, <2>3, AppendProperties, LenProperties
    <2>5. m # Host
      BY HostAssumption
    <2> QED BY <2>1, <2>2, <2>4, <2>5, GoneStays DEF ShownBefore
  <1> QED BY <1>1, <1>2 DEF Push

LEMMA GoneStep ==
  RunInv /\ GoneInv /\ ShownBefore /\ [Next]_vars => GoneInv' /\ ShownBefore'
  <1> SUFFICES ASSUME RunInv, GoneInv, ShownBefore, [Next]_vars
               PROVE  GoneInv' /\ ShownBefore'
    OBVIOUS
  <1>0. TypeOK /\ sent \in Nat /\ channelTask \in {"selecting", "sending", "panicked"}
    BY HostAssumption DEF RunInv, TypeOK, TaskTypeOK
  <1>1. ASSUME UNCHANGED <<session, got, wire, messages, LastShown>>
        PROVE  GoneInv' /\ ShownBefore'
    BY <1>1, GoneStays DEF Gone, ShownBefore
  <1>2. CASE OtherStep
    <2>1. UNCHANGED <<session, got, wire, messages>>
      BY <1>2 DEF OtherStep, TakeCommand, JoinOk, JoinErr, TakeConnected, TakeIntroduce, taskVars
    <2>2. CASE TakeCommand
      <3>1. LastShown = sent /\ LastShown' = sent'- 1 /\ sent' = sent + 1
        BY <2>2 DEF TakeCommand, LastShown
      <3> QED BY <1>0, <1>1, <2>1, <3>1
    <2>3. ASSUME NEW m \in Members, JoinErr(m) PROVE UNCHANGED LastShown
      BY <2>3 DEF JoinErr, LastShown
    <2>4. ASSUME NEW m \in Members, JoinOk(m) \/ TakeConnected(m) \/ TakeIntroduce(m)
          PROVE  UNCHANGED LastShown
      BY <2>4 DEF JoinOk, TakeConnected, TakeIntroduce, taskVars, LastShown
    <2> QED BY <1>1, <1>2, <2>1, <2>2, <2>3, <2>4 DEF OtherStep
  <1>3. CASE Write \/ UNCHANGED vars
    BY <1>1, <1>3 DEF Write, vars, channelVars, taskVars, LastShown
  <1>4. ASSUME NEW m \in Members, IntroduceDone(m) PROVE GoneInv' /\ ShownBefore'
    BY <1>1, <1>4 DEF IntroduceDone, taskVars, LastShown
  <1>5. ASSUME NEW m \in Members, MemberStep(m), UNCHANGED taskVars
        PROVE  GoneInv' /\ ShownBefore'
    <2>0. UNCHANGED LastShown /\ ShownBefore'
      BY <1>5 DEF taskVars, LastShown, ShownBefore
    <2>1. CASE MemberGets(m)
      BY <1>0, <2>0, <2>1, GetsGone, GoneStays DEF MemberGets
    <2>2. CASE SendOk(m, sent)
      BY <1>5, <2>0, <2>2, SendOkGone
    <2>3. CASE SessionDown(m)
      <3>1. \A o \in Members : session'[o] = "up" => /\ session[o] = "up"
                                                     /\ wire'[o] = wire[o] /\ got'[o] = got[o]
        BY <1>0, <2>3 DEF SessionDown, TypeOK, ChannelTypeOK
      <3>2. \A o \in Members : session'[o] = "up" => session[o] = "up" /\ UNCHANGED Gone(o)
        BY <3>1 DEF Gone
      <3> QED BY <2>0, <3>2 DEF GoneInv, ByOnes, ReachesShown
    <2>4. CASE \/ Connect(m) \/ DeliverMsg(m) \/ DeliverIntroduce(m)
               \/ SendErr(m) \/ SendCancelled(m)
      <3>1. UNCHANGED <<session, got, wire, messages>>
        BY <1>5, <2>4 DEF Connect, DeliverMsg, DeliverIntroduce, SendErr, SendCancelled, taskVars
      <3> QED BY <1>1, <2>0, <3>1
    <2> QED BY <1>5, <2>1, <2>2, <2>3, <2>4 DEF MemberStep
  <1> QED BY <1>2, <1>3, <1>4, <1>5, PushGone DEF Next, TaskStep, Outside

(* A message of the host's that is shown has gone out to every member that *)
(* is still there and was before, for any number of members and messages.  *)
THEOREM ShownHasGone == Spec => []ShownReached
  <1>1. Init => GoneInv /\ ShownBefore
    <2> SUFFICES ASSUME Init PROVE GoneInv /\ ShownBefore
      OBVIOUS
    <2>1. Len(messages) = 0 /\ \A m \in Members : got[m] = <<>> /\ wire[m] = <<>>
      BY DEF Init, ChannelInit
    <2>2. \A m \in Members : Gone(m) = <<>> /\ Len(Gone(m)) = 0
      BY <2>1, EmptySeq, ConcatEmptySeq DEF Gone
    <2> QED BY <2>1, <2>2 DEF GoneInv, ByOnes, ReachesShown, ShownBefore
  <1>2. TypeOK /\ GoneInv /\ ShownBefore => ShownReached
    <2> SUFFICES ASSUME TypeOK, GoneInv, ShownBefore,
                        NEW m \in Members, session[m] = "up",
                        NEW i \in 1 .. Len(messages), messages[i].from = Host,
                        NEW k \in 1 .. Len(Gone(m)), Gone(m)[k] <= messages[i].n
                 PROVE  \E j \in 1 .. Len(Gone(m)) : Gone(m)[j] = messages[i].n
      BY DEF ShownReached, Reached, Gone
    <2> DEFINE all == Gone(m)
               n == messages[i].n
    <2>1. /\ Len(all) \in Nat /\ all # <<>> /\ sent \in Nat
          /\ \A j \in 1 .. Len(all) : all[j] \in Nat
      BY GoneTyped
    <2>2. n \in Nat
      <3>1. messages[i] \in Message
        BY ElementOfSeq DEF TypeOK, TaskTypeOK
      <3> QED BY <3>1 DEF Message
    <2>3. \A j \in 1 .. Len(all) : all[j] = all[1] + (j - 1)
      BY DEF GoneInv, ByOnes
    <2>4. n <= LastShown /\ LastShown \in Int
      BY <2>1 DEF ShownBefore, LastShown
    <2>5. all[Len(all)] >= LastShown
      BY <2>1 DEF GoneInv, ReachesShown
    <2>6. all[k] <= n
      OBVIOUS
    <2> HIDE DEF all, n
    <2>7. k \in 1 .. Len(all)
      BY DEF all
    <2>8. /\ all[k] = all[1] + (k - 1) /\ all[Len(all)] = all[1] + (Len(all) - 1)
          /\ all[1] \in Nat /\ all[k] \in Nat /\ all[Len(all)] \in Nat
      BY <2>1, <2>3, <2>7
    <2>9. all[1] + (k - 1) <= n /\ n <= all[1] + (Len(all) - 1)
      <3> DEFINE first == all[1]
                 last == all[Len(all)]
      <3>1. first + (k - 1) <= n
        BY <2>6, <2>8, Zenon
      <3>2. n <= LastShown /\ LastShown <= last /\ last \in Nat
        BY <2>4, <2>5, <2>8
      <3>3. last = first + (Len(all) - 1)
        BY <2>8, Zenon
      <3> HIDE DEF last
      <3>4. n <= last
        BY <2>2, <2>4, <3>2
      <3> QED BY <3>1, <3>3, <3>4, Zenon
    <2> DEFINE j == n - all[1] + 1
    <2>10. j \in 1 .. Len(all) /\ all[1] + (j - 1) = n
      <3> DEFINE first == all[1]
                 len == Len(all)
      <3>1. first \in Nat /\ len \in Nat /\ n \in Nat /\ k \in 1 .. len
        BY <2>1, <2>2, <2>7, <2>8
      <3>2. first + (k - 1) <= n /\ n <= first + (len - 1)
        BY <2>9
      <3> HIDE DEF first, len
      <3>3. n - first + 1 \in 1 .. len /\ first + ((n - first + 1) - 1) = n
        BY <3>1, <3>2
      <3> QED BY <3>3 DEF first, len
    <2> HIDE DEF j
    <2>11. all[j] = n
      BY <2>3, <2>10
    <2> QED BY <2>10, <2>11 DEF all, n
  <1>3. RunInv => TypeOK
    BY DEF RunInv
  <1> QED BY <1>1, <1>2, <1>3, RunInvInit, RunInvStep, GoneStep, PTL DEF Spec

-----------------------------------------------------------------------------
(* What the members say. A list that is Numbered, and what becomes of it   *)
(* as it grows at its end, moves up, or loses its first.                   *)
LEMMA NumberedSame ==
  ASSUME NEW s, NEW t, NEW P, NEW first, NEW last, Numbered(s, P, first, last),
         \A i \in P : t[i] = s[i]
  PROVE  Numbered(t, P, first, last)
  BY DEF Numbered

LEMMA NumberedMore ==
  ASSUME NEW s, NEW t, NEW P, NEW first \in Nat, NEW last \in Nat, first <= last + 1,
         NEW len \in Nat, P \subseteq 1 .. len, \A i \in P : t[i] = s[i],
         Numbered(s, P, first, last), t[len + 1].n = last + 1
  PROVE  Numbered(t, P \cup {len + 1}, first, last + 1)
  <1>1. \A i \in P : t[i].n \in first .. last
    BY DEF Numbered
  <1>2. {t[i].n : i \in P \cup {len + 1}} = first .. last + 1
    <2>1. {t[i].n : i \in P} = first .. last
      BY DEF Numbered
    <2>2. {t[i].n : i \in P \cup {len + 1}} = {t[i].n : i \in P} \cup {last + 1}
      OBVIOUS
    <2>3. (first .. last) \cup {last + 1} = first .. last + 1
      OBVIOUS
    <2> QED BY <2>1, <2>2, <2>3
  <1>3. ASSUME NEW i \in P \cup {len + 1}, NEW j \in P \cup {len + 1}, i < j
        PROVE  t[i].n < t[j].n
    <2>1. i \in P
      BY <1>3
    <2>2. CASE j \in P
      BY <1>3, <2>1, <2>2 DEF Numbered
    <2>3. CASE j = len + 1
      BY <1>1, <2>1, <2>3
    <2> QED BY <2>2, <2>3
  <1> QED BY <1>2, <1>3 DEF Numbered

LEMMA NumberedUp ==
  ASSUME NEW s, NEW t, NEW P, NEW Q, NEW first, NEW last, P \subseteq Nat, Q \subseteq Nat,
         Numbered(s, P, first, last),
         \A i \in Q : i + 1 \in P /\ t[i] = s[i + 1],
         \A i \in P : i - 1 \in Q
  PROVE  Numbered(t, Q, first, last)
  <1>1. {t[i].n : i \in Q} = {s[i].n : i \in P}
    <2>1. ASSUME NEW i \in P PROVE \E j \in Q : t[j].n = s[i].n
      <3>1. i - 1 \in Q /\ (i - 1) + 1 = i
        BY <2>1
      <3> QED BY <3>1
    <2> QED BY <2>1
  <1>2. ASSUME NEW i \in Q, NEW j \in Q, i < j PROVE t[i].n < t[j].n
    BY <1>2 DEF Numbered
  <1> QED BY <1>1, <1>2 DEF Numbered

LEMMA NumberedFirst ==
  ASSUME NEW s, NEW t, NEW P, NEW Q, NEW first \in Nat, NEW last \in Nat,
         P \subseteq Nat \ {0}, Q \subseteq Nat \ {0}, 1 \in P,
         Numbered(s, P, first, last),
         \A i \in Q : i + 1 \in P /\ t[i] = s[i + 1],
         \A i \in P : i = 1 \/ i - 1 \in Q
  PROVE  s[1].n = first /\ first <= last /\ Numbered(t, Q, first + 1, last)
  <1>1. \A i \in P : s[i].n \in first .. last
    BY DEF Numbered
  <1>2. first <= last
    BY <1>1
  <1>3. PICK f \in P : s[f].n = first
    <2>1. first \in {s[i].n : i \in P}
      BY <1>2 DEF Numbered
    <2> QED BY <2>1
  <1>4. \A i \in P : i # 1 => s[1].n < s[i].n
    BY DEF Numbered
  <1>5. s[1].n = first
    BY <1>1, <1>3, <1>4
  <1>6. \A i \in Q : t[i].n \in first + 1 .. last
    <2> SUFFICES ASSUME NEW i \in Q PROVE t[i].n \in first + 1 .. last
      OBVIOUS
    <2>1. i + 1 \in P /\ i + 1 # 1 /\ t[i] = s[i + 1]
      OBVIOUS
    <2>2. first < s[i + 1].n /\ s[i + 1].n \in first .. last
      BY <1>1, <1>4, <1>5, <2>1
    <2> QED BY <2>1, <2>2
  <1>7. ASSUME NEW n \in first + 1 .. last PROVE \E i \in Q : t[i].n = n
    <2>1. n \in {s[i].n : i \in P}
      BY <1>7 DEF Numbered
    <2>2. PICK i \in P : s[i].n = n
      BY <2>1
    <2>3. i # 1
      BY <1>5, <1>7, <2>2
    <2>4. i - 1 \in Q /\ (i - 1) + 1 = i
      BY <2>3
    <2> QED BY <2>2, <2>4
  <1>8. {t[i].n : i \in Q} = first + 1 .. last
    BY <1>6, <1>7
  <1>9. ASSUME NEW i \in Q, NEW j \in Q, i < j PROVE t[i].n < t[j].n
    <2>1. i + 1 \in P /\ j + 1 \in P /\ i + 1 < j + 1
      BY <1>9
    <2> QED BY <2>1 DEF Numbered
  <1> QED BY <1>2, <1>5, <1>8, <1>9 DEF Numbered

(* What pushing a message, telling and taking an event do to the places of *)
(* a member's messages.                                                    *)
LEMMA PushPlaces ==
  ASSUME TypeOK, NEW x \in Message, messages' = Append(messages, x), NEW m \in Members
  PROVE  /\ ShownOf(m)' = IF x.from = m THEN ShownOf(m) \cup {Len(messages) + 1} ELSE ShownOf(m)
         /\ Len(messages) \in Nat /\ ShownOf(m) \subseteq 1 .. Len(messages)
         /\ \A i \in ShownOf(m) : messages'[i] = messages[i]
         /\ messages'[Len(messages) + 1] = x
  <1>1. /\ Len(messages) \in Nat /\ Len(messages') = Len(messages) + 1
        /\ \A i \in 1 .. Len(messages) : messages'[i] = messages[i]
        /\ messages'[Len(messages) + 1] = x
    BY AppendProperties, LenProperties DEF TypeOK, TaskTypeOK
  <1>2. \A i : i \in 1 .. Len(messages') <=> i \in 1 .. Len(messages) \/ i = Len(messages) + 1
    BY <1>1
  <1> QED BY <1>1, <1>2 DEF ShownOf

LEMMA TellPlaces ==
  ASSUME TypeOK, listening, NEW e \in ChannelEvent, Tell(e), NEW m \in Members
  PROVE  /\ AheadOf(m)' = IF e.kind = "RecvMessage" /\ e.member = m
                          THEN AheadOf(m) \cup {Len(events) + 1} ELSE AheadOf(m)
         /\ Len(events) \in Nat /\ AheadOf(m) \subseteq 1 .. Len(events)
         /\ \A i \in AheadOf(m) : events'[i] = events[i]
         /\ events'[Len(events) + 1] = e
  <1>1. /\ Len(events) \in Nat /\ Len(events') = Len(events) + 1
        /\ \A i \in 1 .. Len(events) : events'[i] = events[i]
        /\ events'[Len(events) + 1] = e
    BY AppendProperties, LenProperties DEF Tell, TypeOK, ChannelTypeOK
  <1>2. \A i : i \in 1 .. Len(events') <=> i \in 1 .. Len(events) \/ i = Len(events) + 1
    BY <1>1
  <1> QED BY <1>1, <1>2 DEF AheadOf

LEMMA TakePlaces ==
  ASSUME TypeOK, NEW e, TakeEvent(e), NEW m \in Members
  PROVE  /\ events[1] = e
         /\ 1 \in AheadOf(m) <=> e.kind = "RecvMessage" /\ e.member = m
         /\ AheadOf(m) \subseteq Nat \ {0} /\ AheadOf(m)' \subseteq Nat \ {0}
         /\ \A i \in AheadOf(m)' : i + 1 \in AheadOf(m) /\ events'[i] = events[i + 1]
         /\ \A i \in AheadOf(m) : i = 1 \/ i - 1 \in AheadOf(m)'
  <1>1. events \in Seq(ChannelEvent) /\ events # <<>> /\ e = Head(events) /\ events' = Tail(events)
    BY DEF TakeEvent, TypeOK, ChannelTypeOK
  <1>2. /\ Len(events) \in Nat /\ Len(events) >= 1 /\ Len(events') = Len(events) - 1
        /\ events[1] = e
        /\ \A i \in 1 .. Len(events') : events'[i] = events[i + 1]
    BY <1>1, HeadTailProperties, LenProperties, EmptySeq
  <1>3. ASSUME NEW i \in AheadOf(m)' PROVE i + 1 \in AheadOf(m) /\ events'[i] = events[i + 1]
    BY <1>2, <1>3 DEF AheadOf
  <1>4. ASSUME NEW i \in AheadOf(m), i # 1 PROVE i - 1 \in AheadOf(m)'
    <2>1. i - 1 \in 1 .. Len(events') /\ events'[i - 1] = events[(i - 1) + 1]
      BY <1>2, <1>4 DEF AheadOf
    <2> QED BY <1>4, <2>1 DEF AheadOf
  <1>5. 1 \in AheadOf(m) <=> e.kind = "RecvMessage" /\ e.member = m
    BY <1>2 DEF AheadOf
  <1>6. AheadOf(m) \subseteq Nat \ {0} /\ AheadOf(m)' \subseteq Nat \ {0}
    BY DEF AheadOf
  <1> QED BY <1>2, <1>3, <1>4, <1>5, <1>6

(* The part of SaidKept about one member.                                  *)
SaidOf(m) ==
  \E k \in 0 .. said[m] :
    /\ Numbered(messages, ShownOf(m), 1, k)
    /\ Numbered(events, AheadOf(m), k + 1, said[m])

LEMMA SaidParts == SaidKept <=> (listening => \A m \in Members : SaidOf(m))
  BY DEF SaidKept, SaidOf

LEMMA SaidPartsNext == SaidKept' <=> (listening' => \A m \in Members : SaidOf(m)')
  BY DEF SaidKept, SaidOf

LEMMA SaidStays ==
  ASSUME SaidKept, UNCHANGED <<messages, events, said>>, listening' => listening
  PROVE  SaidKept'
  BY DEF SaidKept, Numbered, ShownOf, AheadOf

(* An event of another kind is told.                                       *)
LEMMA TellSaid ==
  ASSUME TypeOK, SaidKept, NEW e \in ChannelEvent, e.kind # "RecvMessage", Tell(e),
         UNCHANGED <<messages, said, listening>>
  PROVE  SaidKept'
  <1>1. CASE ~listening
    BY <1>1 DEF SaidKept
  <1>2. CASE listening
    <2> SUFFICES ASSUME NEW m \in Members PROVE SaidOf(m)'
      BY SaidPartsNext
    <2>1. PICK k \in 0 .. said[m] : /\ Numbered(messages, ShownOf(m), 1, k)
                                    /\ Numbered(events, AheadOf(m), k + 1, said[m])
      BY <1>2 DEF SaidKept
    <2>2. AheadOf(m)' = AheadOf(m) /\ \A i \in AheadOf(m) : events'[i] = events[i]
      BY <1>2, TellPlaces
    <2>3. Numbered(events', AheadOf(m), k + 1, said[m])
      BY <2>1, <2>2, NumberedSame
    <2>4. ShownOf(m)' = ShownOf(m)
      BY DEF ShownOf
    <2> QED BY <2>1, <2>2, <2>3, <2>4 DEF SaidOf
  <1> QED BY <1>1, <1>2

(* A member says something.                                                *)
LEMMA DeliverSaid ==
  ASSUME TypeOK, SaidKept, NEW m \in Members, DeliverMsg(m), UNCHANGED messages
  PROVE  SaidKept'
  <1>1. CASE ~listening
    BY <1>1 DEF SaidKept, DeliverMsg
  <1>2. CASE listening
    <2> SUFFICES ASSUME NEW o \in Members PROVE SaidOf(o)'
      BY SaidPartsNext
    <2> DEFINE e == RecvMessage(m, said'[m])
    <2>0. /\ said[m] \in Nat /\ said[o] \in Nat /\ said'[m] = said[m] + 1
          /\ o # m => said'[o] = said[o]
          /\ Tell(e) /\ e \in ChannelEvent
      BY EventsTyped DEF DeliverMsg, TypeOK, ChannelTypeOK
    <2>1. PICK k \in 0 .. said[o] : /\ Numbered(messages, ShownOf(o), 1, k)
                                    /\ Numbered(events, AheadOf(o), k + 1, said[o])
      BY <1>2 DEF SaidKept
    <2>2. e.kind = "RecvMessage" /\ e.member = m /\ e.n = said[m] + 1
      BY <2>0 DEF RecvMessage
    <2> HIDE DEF e
    <2>3. /\ AheadOf(o)' = IF o = m THEN AheadOf(o) \cup {Len(events) + 1} ELSE AheadOf(o)
          /\ Len(events) \in Nat /\ AheadOf(o) \subseteq 1 .. Len(events)
          /\ \A i \in AheadOf(o) : events'[i] = events[i]
          /\ events'[Len(events) + 1] = e
      BY <1>2, <2>0, <2>2, TellPlaces
    <2>4. ShownOf(o)' = ShownOf(o) /\ Numbered(messages', ShownOf(o)', 1, k)
      BY <2>1 DEF ShownOf
    <2>5. Numbered(events', AheadOf(o)', k + 1, said'[o])
      <3>1. CASE o = m
        <4>1. k + 1 \in Nat /\ said[o] \in Nat /\ k + 1 <= said[o] + 1
          BY <2>0, <2>1
        <4>2. Numbered(events', AheadOf(o) \cup {Len(events) + 1}, k + 1, said[o] + 1)
          BY <2>1, <2>2, <2>3, <3>1, <4>1, NumberedMore
        <4> QED BY <2>0, <2>3, <3>1, <4>2
      <3>2. CASE o # m
        BY <2>0, <2>1, <2>3, <3>2, NumberedSame
      <3> QED BY <3>1, <3>2
    <2>6. k \in 0 .. said'[o]
      BY <2>0, <2>1
    <2> QED BY <2>4, <2>5, <2>6 DEF SaidOf
  <1> QED BY <1>1, <1>2

(* An event of another kind is taken.                                      *)
LEMMA TakeSaid ==
  ASSUME TypeOK, SaidKept, NEW e, TakeEvent(e), e.kind # "RecvMessage",
         UNCHANGED <<messages, said, listening>>
  PROVE  SaidKept'
  <1> SUFFICES ASSUME listening, NEW m \in Members PROVE SaidOf(m)'
    BY SaidPartsNext
  <1>1. PICK k \in 0 .. said[m] : /\ Numbered(messages, ShownOf(m), 1, k)
                                  /\ Numbered(events, AheadOf(m), k + 1, said[m])
    BY DEF SaidKept
  <1>2. /\ AheadOf(m) \subseteq Nat /\ AheadOf(m)' \subseteq Nat
        /\ \A i \in AheadOf(m)' : i + 1 \in AheadOf(m) /\ events'[i] = events[i + 1]
        /\ \A i \in AheadOf(m) : i - 1 \in AheadOf(m)'
    BY TakePlaces
  <1>3. Numbered(events', AheadOf(m)', k + 1, said[m])
    BY <1>1, <1>2, NumberedUp
  <1>4. ShownOf(m)' = ShownOf(m)
    BY DEF ShownOf
  <1> QED BY <1>1, <1>3, <1>4 DEF SaidOf

(* A message of a member's is taken, and shown.                            *)
LEMMA MessageSaid ==
  ASSUME TypeOK, SaidKept, NEW m \in Members, NEW n \in 1 .. MaxSaid[m], TakeMessage(m, n)
  PROVE  SaidKept'
  <1> DEFINE e == RecvMessage(m, n)
             x == [from |-> m, n |-> n]
  <1>0. /\ TakeEvent(e) /\ messages' = Append(messages, x) /\ UNCHANGED <<said, listening>>
        /\ e.kind = "RecvMessage" /\ e.member = m /\ e.n = n
        /\ x.from = m /\ x.n = n /\ x \in Message
    BY BoundsAssumption DEF TakeMessage, RecvMessage, Message
  <1> HIDE DEF e, x
  <1> SUFFICES ASSUME listening, NEW o \in Members PROVE SaidOf(o)'
    BY <1>0, SaidPartsNext
  <1>1. PICK k \in 0 .. said[o] : /\ Numbered(messages, ShownOf(o), 1, k)
                                  /\ Numbered(events, AheadOf(o), k + 1, said[o])
    BY DEF SaidKept
  <1>2. said[o] \in Nat /\ k \in Nat
    BY <1>1 DEF TypeOK, ChannelTypeOK
  <1>3. /\ events[1] = e /\ (1 \in AheadOf(o) <=> o = m)
        /\ AheadOf(o) \subseteq Nat \ {0} /\ AheadOf(o)' \subseteq Nat \ {0}
        /\ \A i \in AheadOf(o)' : i + 1 \in AheadOf(o) /\ events'[i] = events[i + 1]
        /\ \A i \in AheadOf(o) : i = 1 \/ i - 1 \in AheadOf(o)'
    BY <1>0, TakePlaces
  <1>4. /\ ShownOf(o)' = IF o = m THEN ShownOf(o) \cup {Len(messages) + 1} ELSE ShownOf(o)
        /\ Len(messages) \in Nat /\ ShownOf(o) \subseteq 1 .. Len(messages)
        /\ \A i \in ShownOf(o) : messages'[i] = messages[i]
        /\ messages'[Len(messages) + 1] = x
    BY <1>0, PushPlaces
  <1>5. CASE o = m
    <2>1. n = k + 1 /\ k + 1 <= said[o] /\ Numbered(events', AheadOf(o)', (k + 1) + 1, said[o])
      <3>1. k + 1 \in Nat
        BY <1>2
      <3>2. 1 \in AheadOf(o) /\ Numbered(events, AheadOf(o), k + 1, said[o]) /\ said[o] \in Nat
        BY <1>1, <1>2, <1>3, <1>5
      <3>3. /\ AheadOf(o) \subseteq Nat \ {0} /\ AheadOf(o)' \subseteq Nat \ {0}
            /\ \A i \in AheadOf(o)' : i + 1 \in AheadOf(o) /\ events'[i] = events[i + 1]
            /\ \A i \in AheadOf(o) : i = 1 \/ i - 1 \in AheadOf(o)'
        BY <1>3
      <3>4. /\ events[1].n = k + 1 /\ k + 1 <= said[o]
            /\ Numbered(events', AheadOf(o)', (k + 1) + 1, said[o])
        BY <3>1, <3>2, <3>3, NumberedFirst
      <3> QED BY <1>0, <1>3, <3>4
    <2>2. Numbered(messages', ShownOf(o) \cup {Len(messages) + 1}, 1, k + 1)
      <3>1. messages'[Len(messages) + 1].n = k + 1 /\ 1 <= k + 1
        BY <1>0, <1>2, <1>4, <2>1
      <3> QED BY <1>1, <1>2, <1>4, <3>1, NumberedMore
    <2>3. k + 1 \in 0 .. said'[o]
      BY <1>0, <1>2, <2>1
    <2> QED BY <1>0, <1>4, <1>5, <2>1, <2>2, <2>3 DEF SaidOf
  <1>6. CASE o # m
    <2>1. Numbered(events', AheadOf(o)', k + 1, said[o])
      <3>1. \A i \in AheadOf(o) : i - 1 \in AheadOf(o)'
        BY <1>3, <1>6
      <3>2. AheadOf(o) \subseteq Nat /\ AheadOf(o)' \subseteq Nat
        BY <1>3
      <3> QED BY <1>1, <1>3, <3>1, <3>2, NumberedUp
    <2>2. Numbered(messages', ShownOf(o)', 1, k)
      BY <1>1, <1>4, <1>6, NumberedSame
    <2> QED BY <1>0, <1>1, <2>1, <2>2 DEF SaidOf
  <1> QED BY <1>5, <1>6

LEMMA DoneSaid ==
  ASSUME TypeOK, SaidKept, SendDone
  PROVE  SaidKept'
  <1> DEFINE x == [from |-> Host, n |-> sent]
  <1>0. /\ messages' = Append(messages, x) /\ UNCHANGED <<events, said, listening>>
        /\ x.from = Host /\ x \in Message
    BY HostAssumption DEF SendDone, channelVars, Message, TypeOK, TaskTypeOK
  <1> HIDE DEF x
  <1> SUFFICES ASSUME listening, NEW m \in Members PROVE SaidOf(m)'
    BY <1>0, SaidPartsNext
  <1>1. PICK k \in 0 .. said[m] : /\ Numbered(messages, ShownOf(m), 1, k)
                                  /\ Numbered(events, AheadOf(m), k + 1, said[m])
    BY DEF SaidKept
  <1>2. ShownOf(m)' = ShownOf(m) /\ \A i \in ShownOf(m) : messages'[i] = messages[i]
    BY <1>0, HostAssumption, PushPlaces
  <1>3. Numbered(messages', ShownOf(m), 1, k)
    BY <1>1, <1>2, NumberedSame
  <1>4. AheadOf(m)' = AheadOf(m)
    BY <1>0 DEF AheadOf
  <1> QED BY <1>0, <1>1, <1>2, <1>3, <1>4 DEF SaidOf

LEMMA SaidStep == TypeOK /\ SaidKept /\ [Next]_vars => SaidKept'
  <1> SUFFICES ASSUME TypeOK, SaidKept, [Next]_vars PROVE SaidKept'
    OBVIOUS
  <1>1. ASSUME NEW m \in Members, TakeConnected(m) \/ TakeIntroduce(m) PROVE SaidKept'
    <2>1. TakeEvent(PeerConnected(m)) \/ TakeEvent(Introduce(m))
      BY <1>1 DEF TakeConnected, TakeIntroduce
    <2>2. UNCHANGED <<messages, said, listening>>
      BY <1>1 DEF TakeConnected, TakeIntroduce, taskVars
    <2> QED BY <2>1, <2>2, TakeSaid DEF PeerConnected, Introduce
  <1>2. ASSUME NEW m \in Members, Connect(m) \/ DeliverIntroduce(m), UNCHANGED taskVars
        PROVE  SaidKept'
    <2>1. \/ Tell(PeerConnected(m)) \/ Tell(Introduce(m)) \/ UNCHANGED events
      BY <1>2 DEF Connect, ConnectPeer, DeliverIntroduce
    <2>2. UNCHANGED <<messages, said, listening>>
      BY <1>2 DEF Connect, DeliverIntroduce, taskVars
    <2>3. /\ PeerConnected(m) \in ChannelEvent /\ PeerConnected(m).kind # "RecvMessage"
          /\ Introduce(m) \in ChannelEvent /\ Introduce(m).kind # "RecvMessage"
      BY DEF PeerConnected, Introduce, ChannelEvent
    <2> QED BY <2>1, <2>2, <2>3, TellSaid, SaidStays
  <1>3. ASSUME NEW m \in Members, DeliverMsg(m), UNCHANGED taskVars PROVE SaidKept'
    BY <1>3, DeliverSaid DEF taskVars
  <1>4. ASSUME NEW m \in Members, JoinErr(m) PROVE SaidKept'
    BY <1>4 DEF JoinErr, SaidKept
  <1>5. ASSUME NEW m \in Members,
               \/ JoinOk(m) \/ IntroduceDone(m)
               \/ UNCHANGED taskVars /\ \/ SendOk(m, sent) \/ SendErr(m) \/ SendCancelled(m)
                                        \/ MemberGets(m) \/ SessionDown(m)
        PROVE  SaidKept'
    BY <1>5, SaidStays
       DEF JoinOk, IntroduceDone, SendOk, SendErr, SendCancelled, MemberGets, SessionDown, taskVars
  <1>6. CASE TakeCommand \/ Write \/ UNCHANGED vars
    BY <1>6, SaidStays DEF TakeCommand, Write, vars, channelVars, taskVars
  <1>7. CASE TaskStep
    BY <1>1, <1>4, <1>5, <1>6, <1>7, DoneSaid, MessageSaid DEF TaskStep, Push, OtherStep
  <1>8. CASE Outside
    BY <1>2, <1>3, <1>5, <1>8 DEF Outside, MemberStep
  <1> QED BY <1>6, <1>7, <1>8 DEF Next

(* As long as the channel's task lives, nothing a member says is lost,     *)
(* doubled or taken out of turn between deliver_msg and the screen.        *)
THEOREM SaidIsKept == Spec => []SaidKept
  <1>1. Init => SaidKept
    <2> SUFFICES ASSUME Init, NEW m \in Members PROVE SaidOf(m)
      BY SaidParts
    <2>1. Len(messages) = 0 /\ Len(events) = 0 /\ said[m] = 0
      BY DEF Init, ChannelInit
    <2>2. ShownOf(m) = {} /\ AheadOf(m) = {}
      BY <2>1 DEF ShownOf, AheadOf
    <2>3. Numbered(messages, {}, 1, 0) /\ Numbered(events, {}, 0 + 1, 0)
      BY DEF Numbered
    <2> QED BY <2>1, <2>2, <2>3 DEF SaidOf
  <1> QED BY <1>1, InitTyped, StepTyped, SaidStep, PTL DEF Spec
=============================================================================
