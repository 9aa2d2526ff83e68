------------------------------ MODULE Channel ------------------------------
(***************************************************************************)
(* A channel a node hosts (channel.rs) and the members connected to it     *)
(* through its Portal (portal.rs). A member is named by its session, which *)
(* is the key of exported_at and outboxes.                                 *)
(*                                                                         *)
(* The calls that come in over one session are handled one after another;  *)
(* those of different sessions, and the channel's own task, interleave.    *)
(***************************************************************************)
EXTENDS Naturals, Sequences

CONSTANTS
  Members,      \* the sessions of the members
  MaxConnects,  \* how often each member connects over its session
  MaxSaid,      \* how many messages each member sends to the host
  Introducers   \* the members that introduce a peer, once

ASSUME BoundsAssumption ==
  /\ MaxConnects \in [Members -> Nat]
  /\ MaxSaid \in [Members -> Nat]
  /\ Introducers \subseteq Members

VARIABLES
  session,      \* whether the session of a member is up
  connects,     \* how often the member has called Portal::connect
  said,         \* how many messages it has sent
  introduced,   \* what has become of the peer it introduces
  exported_at,  \* where the channel is exported on its session, 0 for nowhere
  outboxes,     \* the members ChannelCore.outboxes has an entry for
  events,       \* the channel's ChannelEvents, oldest first
  listening,    \* whether their receiver still exists
  outgoing,     \* the send_tasks of Channel::send_msg
  wire,         \* the messages on their way to a member
  got           \* the messages a member has received

channelVars == <<session, connects, said, introduced, exported_at, outboxes,
                 events, listening, outgoing, wire, got>>

ChannelEvent ==
  [kind : {"RecvMessage", "PeerConnected", "Introduce"}, member : Members, n : Nat]

RecvMessage(m, n) == [kind |-> "RecvMessage", member |-> m, n |-> n]
PeerConnected(m)  == [kind |-> "PeerConnected", member |-> m, n |-> 0]
Introduce(m)      == [kind |-> "Introduce", member |-> m, n |-> 0]

ChannelTypeOK ==
  /\ session \in [Members -> {"up", "down"}]
  /\ connects \in [Members -> Nat]
  /\ said \in [Members -> Nat]
  /\ introduced \in [Members -> {"none", "told", "asking", "returned", "dropped"}]
  /\ exported_at \in [Members -> Nat]
  /\ outboxes \subseteq Members
  /\ events \in Seq(ChannelEvent)
  /\ listening \in BOOLEAN
  /\ outgoing \in [Members -> {"none", "running", "ok", "err", "aborted"}]
  /\ wire \in [Members -> Seq(Nat)]
  /\ got \in [Members -> Seq(Nat)]

ChannelInit ==
  /\ session = [m \in Members |-> "up"]
  /\ connects = [m \in Members |-> 0]
  /\ said = [m \in Members |-> 0]
  /\ introduced = [m \in Members |-> "none"]
  /\ exported_at = [m \in Members |-> 0]
  /\ outboxes = {}
  /\ events = <<>>
  /\ listening = TRUE
  /\ outgoing = [m \in Members |-> "none"]
  /\ wire = [m \in Members |-> <<>>]
  /\ got = [m \in Members |-> <<>>]

(* ev_sender.send: unheard once the receiver is gone.                      *)
Tell(e) == events' = IF listening THEN Append(events, e) ELSE events

-----------------------------------------------------------------------------
(* Channel::connect_peer: a new outbox takes the place of the old one.     *)
ConnectPeer(m) ==
  /\ outboxes' = outboxes \cup {m}
  /\ Tell(PeerConnected(m))

(* Mutant of Connect: the position it was exported at is not looked up.    *)
ConnectAgain(m) ==
  /\ session[m] = "up"
  /\ connects[m] < MaxConnects[m]
  /\ connects' = [connects EXCEPT ![m] = @ + 1]
  /\ exported_at' = [exported_at EXCEPT ![m] = @ + 1]
  /\ ConnectPeer(m)
  /\ UNCHANGED <<session, said, introduced, listening, outgoing, wire, got>>

(* Portal::connect: the channel is exported once a session. A call that    *)
(* names an unknown channel only gets an error.                            *)
Connect(m) ==
  /\ session[m] = "up"
  /\ connects[m] < MaxConnects[m]
  /\ connects' = [connects EXCEPT ![m] = @ + 1]
  /\ \/ /\ exported_at' = [exported_at EXCEPT ![m] = IF @ = 0 THEN 1 ELSE @]
        /\ ConnectPeer(m)
     \/ UNCHANGED <<exported_at, outboxes, events>>
  /\ UNCHANGED <<session, said, introduced, listening, outgoing, wire, got>>

(* Channel::deliver_msg, called by a member that has the channel.          *)
DeliverMsg(m) ==
  /\ session[m] = "up"
  /\ exported_at[m] # 0
  /\ said[m] < MaxSaid[m]
  /\ said' = [said EXCEPT ![m] = @ + 1]
  /\ Tell(RecvMessage(m, said'[m]))
  /\ UNCHANGED <<session, connects, introduced, exported_at, outboxes, listening,
                 outgoing, wire, got>>

(* Channel::introduce.                                                     *)
DeliverIntroduce(m) ==
  /\ m \in Introducers
  /\ session[m] = "up"
  /\ exported_at[m] # 0
  /\ introduced[m] = "none"
  /\ introduced' = [introduced EXCEPT ![m] = IF listening THEN "told" ELSE "dropped"]
  /\ Tell(Introduce(m))
  /\ UNCHANGED <<session, connects, said, exported_at, outboxes, listening,
                 outgoing, wire, got>>

-----------------------------------------------------------------------------
(* Outbox::send_msg in a task of its own: the write of message n to the    *)
(* member is done, or fails. A task that was aborted may still do it.      *)
SendOk(m, n) ==
  /\ outgoing[m] \in {"running", "aborted"}
  /\ session[m] = "up"
  /\ wire' = [wire EXCEPT ![m] = Append(@, n)]
  /\ outgoing' = [outgoing EXCEPT ![m] = IF @ = "running" THEN "ok" ELSE "none"]
  /\ UNCHANGED <<session, connects, said, introduced, exported_at, outboxes,
                 events, listening, got>>

SendErr(m) ==
  /\ outgoing[m] = "running"
  /\ outgoing' = [outgoing EXCEPT ![m] = "err"]
  /\ UNCHANGED <<session, connects, said, introduced, exported_at, outboxes,
                 events, listening, wire, got>>

SendCancelled(m) ==
  /\ outgoing[m] = "aborted"
  /\ outgoing' = [outgoing EXCEPT ![m] = "none"]
  /\ UNCHANGED <<session, connects, said, introduced, exported_at, outboxes,
                 events, listening, wire, got>>

(* The message reaches the member.                                         *)
MemberGets(m) ==
  /\ wire[m] # <<>>
  /\ got' = [got EXCEPT ![m] = Append(@, Head(wire[m]))]
  /\ wire' = [wire EXCEPT ![m] = Tail(@)]
  /\ UNCHANGED <<session, connects, said, introduced, exported_at, outboxes,
                 events, listening, outgoing>>

(* The session ends; what is on its way is lost. Nothing tells the channel. *)
SessionDown(m) ==
  /\ session[m] = "up"
  /\ session' = [session EXCEPT ![m] = "down"]
  /\ wire' = [wire EXCEPT ![m] = <<>>]
  /\ UNCHANGED <<connects, said, introduced, exported_at, outboxes, events,
                 listening, outgoing, got>>
=============================================================================
