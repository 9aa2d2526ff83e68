------------------------------ MODULE Hosting ------------------------------
(***************************************************************************)
(* manage_channel (gui/chat.rs), the task of the channel a node hosts: it  *)
(* sends what the user writes to every member, and keeps the messages the  *)
(* GUI shows (ChannelState.messages).                                      *)
(***************************************************************************)
EXTENDS Channel

CONSTANTS
  Host,         \* the sender of the user's own messages
  MaxWritten    \* how many messages the user writes

ASSUME HostAssumption == Host \notin Members /\ MaxWritten \in Nat

VARIABLES
  channelTask,  \* where the manage_channel task stands
  written,      \* how many SendMsg commands the GUI has sent
  sent,         \* how many of them the task has taken
  messages      \* ChannelState.messages

taskVars == <<channelTask, written, sent, messages>>
vars == <<channelVars, taskVars>>

Message == [from : Members \cup {Host}, n : Nat]

TaskTypeOK ==
  /\ channelTask \in {"selecting", "sending", "panicked"}
  /\ written \in 0 .. MaxWritten
  /\ sent \in 0 .. MaxWritten
  /\ messages \in Seq(Message)

Init ==
  /\ ChannelInit
  /\ channelTask = "selecting"
  /\ written = 0
  /\ sent = 0
  /\ messages = <<>>

-----------------------------------------------------------------------------
(* MessageInput: the command is queued; unheard once the task is gone.     *)
Write ==
  /\ written < MaxWritten
  /\ written' = written + 1
  /\ UNCHANGED <<channelTask, sent, messages, channelVars>>

(* ChannelCommand::SendMsg: send_msg spawns a send for each outbox.        *)
TakeCommand ==
  /\ channelTask = "selecting"
  /\ sent < written
  /\ sent' = sent + 1
  /\ outgoing' = [m \in Members |-> IF m \in outboxes THEN "running" ELSE "none"]
  /\ channelTask' = "sending"
  /\ UNCHANGED <<written, messages, session, connects, said, introduced,
                 exported_at, outboxes, events, listening, wire, got>>

(* Mutant of JoinOk: the first send that is done will do.                  *)
JoinFirst(m) ==
  /\ channelTask = "sending"
  /\ outgoing[m] = "ok"
  /\ outgoing' = [o \in Members |-> "none"]
  /\ UNCHANGED <<taskVars, session, connects, said, introduced, exported_at,
                 outboxes, events, listening, wire, got>>

JoinOk(m) ==
  /\ channelTask = "sending"
  /\ outgoing[m] = "ok"
  /\ outgoing' = [outgoing EXCEPT ![m] = "none"]
  /\ UNCHANGED <<taskVars, session, connects, said, introduced, exported_at,
                 outboxes, events, listening, wire, got>>

(* Mutant of JoinErr: a failed send is passed over.                        *)
JoinErrIgnored(m) ==
  /\ channelTask = "sending"
  /\ outgoing[m] = "err"
  /\ outgoing' = [outgoing EXCEPT ![m] = "none"]
  /\ UNCHANGED <<taskVars, session, connects, said, introduced, exported_at,
                 outboxes, events, listening, wire, got>>

(* `res??`: the first error is returned, which aborts the sends that are   *)
(* left, and todo!() answers it: the task panics, and its receivers and    *)
(* its subtasks are dropped with it.                                       *)
JoinErr(m) ==
  /\ channelTask = "sending"
  /\ outgoing[m] = "err"
  /\ outgoing' = [o \in Members |-> IF outgoing[o] = "running" THEN "aborted" ELSE "none"]
  /\ channelTask' = "panicked"
  /\ listening' = FALSE
  /\ events' = <<>>
  /\ introduced' = [o \in Members |->
                      IF introduced[o] \in {"told", "asking"} THEN "dropped" ELSE introduced[o]]
  /\ UNCHANGED <<written, sent, messages, session, connects, said, exported_at,
                 outboxes, wire, got>>

(* Mutant of SendDone: a message is shown only if there was nobody to send *)
(* it to.                                                                  *)
SendDoneUnshown ==
  /\ channelTask = "sending"
  /\ \A m \in Members : outgoing[m] = "none"
  /\ messages' = IF outboxes = {} THEN Append(messages, [from |-> Host, n |-> sent])
                 ELSE messages
  /\ channelTask' = "selecting"
  /\ UNCHANGED <<written, sent, channelVars>>

SendDone ==
  /\ channelTask = "sending"
  /\ \A m \in Members : outgoing[m] = "none"
  /\ messages' = Append(messages, [from |-> Host, n |-> sent])
  /\ channelTask' = "selecting"
  /\ UNCHANGED <<written, sent, channelVars>>

-----------------------------------------------------------------------------
TakeEvent(e) ==
  /\ channelTask = "selecting"
  /\ events # <<>>
  /\ e = Head(events)
  /\ events' = Tail(events)

(* Mutant of TakeMessage: the list is kept newest first.                   *)
TakeMessageFront(m, n) ==
  /\ TakeEvent(RecvMessage(m, n))
  /\ messages' = <<[from |-> m, n |-> n]>> \o messages
  /\ UNCHANGED <<channelTask, written, sent, session, connects, said, introduced,
                 exported_at, outboxes, listening, outgoing, wire, got>>

TakeMessage(m, n) ==
  /\ TakeEvent(RecvMessage(m, n))
  /\ messages' = Append(messages, [from |-> m, n |-> n])
  /\ UNCHANGED <<channelTask, written, sent, session, connects, said, introduced,
                 exported_at, outboxes, listening, outgoing, wire, got>>

(* PeerConnected has no arm in the source; it is taken and nothing done.   *)
TakeConnected(m) ==
  /\ TakeEvent(PeerConnected(m))
  /\ UNCHANGED <<taskVars, session, connects, said, introduced, exported_at,
                 outboxes, listening, outgoing, wire, got>>

TakeIntroduce(m) ==
  /\ TakeEvent(Introduce(m))
  /\ introduced' = [introduced EXCEPT ![m] = "asking"]
  /\ UNCHANGED <<taskVars, session, connects, said, exported_at, outboxes,
                 listening, outgoing, wire, got>>

(* introduce_peer: the connection cannot be had, or it can, and the        *)
(* subtask ends in todo!().                                                *)
IntroduceDone(m) ==
  /\ introduced[m] = "asking"
  /\ \E res \in {"returned", "dropped"} : introduced' = [introduced EXCEPT ![m] = res]
  /\ UNCHANGED <<taskVars, session, connects, said, exported_at, outboxes,
                 events, listening, outgoing, wire, got>>

-----------------------------------------------------------------------------
(* The two places where the task adds to messages, and all the others.     *)
Push == SendDone \/ \E m \in Members : \E n \in 1 .. MaxSaid[m] : TakeMessage(m, n)

OtherStep ==
  \/ TakeCommand
  \/ \E m \in Members :
       JoinOk(m) \/ JoinErr(m) \/ TakeConnected(m) \/ TakeIntroduce(m)

TaskStep == Push \/ OtherStep

MemberStep(m) ==
  \/ Connect(m) \/ DeliverMsg(m) \/ DeliverIntroduce(m)
  \/ MemberGets(m) \/ SessionDown(m)
  \/ SendOk(m, sent) \/ SendErr(m) \/ SendCancelled(m)

Outside ==
  \E m \in Members : IntroduceDone(m) \/ (MemberStep(m) /\ UNCHANGED taskVars)

Next == TaskStep \/ Write \/ Outside

Spec == Init /\ [][Next]_vars

-----------------------------------------------------------------------------
(* Every variable keeps the type the source declares.                      *)
TypeOK == ChannelTypeOK /\ TaskTypeOK

(* However often a member connects over its session, and whatever becomes  *)
(* of its calls, it is given the channel once, at one position, and has an *)
(* outbox if it was given it: exported_at and outboxes agree.              *)
ExportedOnce ==
  \A m \in Members : exported_at[m] = IF m \in outboxes THEN 1 ELSE 0

(* The host's messages reach each member as Broadcast promises: a message  *)
(* counts as posted when the task takes it up.                             *)
Promise == INSTANCE Broadcast WITH posted <- sent

KeepsPromise == Promise!Spec

(* A message the host is shown has gone out to every member that is still  *)
(* there and was before: none of them has an older one without having it.  *)
Reached(m) ==
  LET all == got[m] \o wire[m] IN {all[i] : i \in 1 .. Len(all)}

ShownReached ==
  \A m \in Members : session[m] = "up" =>
    \A i \in 1 .. Len(messages) :
      messages[i].from = Host /\ (\E n \in Reached(m) : n <= messages[i].n)
        => messages[i].n \in Reached(m)

(* As long as the channel's task lives, what a member has said is shown or *)
(* about to be, all of it and in the order it was said: the first of it in *)
(* messages, the rest in events.                                           *)
Numbered(seq, places, first, last) ==
  /\ {seq[i].n : i \in places} = first .. last
  /\ \A i, j \in places : i < j => seq[i].n < seq[j].n

ShownOf(m) == {i \in 1 .. Len(messages) : messages[i].from = m}

AheadOf(m) ==
  {i \in 1 .. Len(events) : events[i].kind = "RecvMessage" /\ events[i].member = m}

SaidKept ==
  listening => \A m \in Members : \E k \in 0 .. said[m] :
    /\ Numbered(messages, ShownOf(m), 1, k)
    /\ Numbered(events, AheadOf(m), k + 1, said[m])

(* Every send comes to an end: the member reads, or its session breaks.    *)
SendsReturn == \A m \in Members : []<>(outgoing[m] # "running")

(* What the user writes is shown, unless a send failed.                    *)
Shown(n) == \E i \in 1 .. Len(messages) : messages[i] = [from |-> Host, n |-> n]

WrittenShown ==
  SendsReturn =>
    \A n \in 1 .. MaxWritten : written >= n ~> Shown(n) \/ channelTask = "panicked"
=============================================================================
