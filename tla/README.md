# A verification of troposphere

Troposphere is a peer-to-peer chat program. `lib/troposphere-lib` (the library)
speaks the object-capability protocol CapTP through the crates *rexa* and
*syrup*; `bin/troposphere` (the program) puts a Dioxus GUI on it. This directory
holds TLA+ models of the parts of the two that run concurrently, the TLC
configurations that check them on small instances, and proofs, checked by
TLAPS, of what holds for instances of any size.

All paths below are relative to the repository; `chat.rs` is
`bin/troposphere/src/gui/chat.rs`, `manager.rs` and its like are in
`lib/troposphere-lib/src`.

## 1. Inventory

| part | state | operations | talks to |
|---|---|---|---|
| Event pipe (`event.rs`, `lib.rs`) | an unbounded mpsc channel of `NetworkEvent` | send, receive, drop of the receiver | written by the netlayer, the sessions and the gateway, read by `recv_event` |
| Session task (`session.rs`) | the `DashMap` registry with its guards, a `JoinSet` of subtasks, the session's export table | `manage_session`, `respond_to_fetch` | the pipe; a oneshot promise from `recv_event`; the peer |
| Netlayer (`netlayer.rs`) | the queue of connect requests, a `JoinSet` of sessions, the connection being accepted | `register`, `request_connect`, `manage_netlayer` | the pipe; a oneshot for each request; spawns session tasks; the netlayers of other nodes |
| Chat manager (`manager.rs`, `manager/builder.rs`) | `ChatData.sessions`, `portals`, `channels`, the end flag | `recv_event`, `end`, `register_channel` | reads the pipe; resolves promises |
| Gateway (`portal.rs`) | none | `authenticate` | the pipe |
| Portal (`portal.rs`) | the channels of the node | `list_channels`, `connect` | `Channel` |
| Channel (`channel.rs`) | `exported_at`, `outboxes` | `connect_peer`, `send_msg`, `deliver_msg`, `introduce` | an mpsc channel of `ChannelEvent` |
| Manager loop (`chat.rs:127`) | `portals`, `opened_portals`, a `JoinSet` | one `select!` over `recv_event`, its subtasks and the GUI's input | the library, the GUI's signals |
| Channel task (`chat.rs:391`) | the message list and the peers (`ChannelState`) | send, receive, introduce | the channel, the netlayer |
| Views (`gui.rs`) | what was last rendered | wait on a `Notify` or a signal, render, queue what the user writes | `ChannelState`, `ChatState` |
| mDNS (`native/net.rs`) | `lan_peers`, the registered services | `mdns_coroutine`, `manage_mdns` (a thread) | the bound addresses, a condition variable |
| Start-up (`cfg.rs`, `chat.rs:139-178`) | the configuration and key files | `read`, `write`, `get_key_or_init`, bind | the file system, the mDNS thread |
| User, rendering, command line, console input, packaging | - | - | - |

What is hard here. Everything runs as tasks of a multi-threaded runtime, so any
two of them interleave at any await. Tasks are cancelled (`JoinSet::abort_all`,
a dropped `JoinSet`, a future dropped by `select!`) at whatever await they have
come to. Promises are oneshot channels that can be dropped on either side. The
peers can be slow, silent or gone. What makes each part correct:

* a session is announced before anything else is said about it, and is
  forgotten when it ends;
* a fetch is answered, once, with a position that leads to the object asked for,
  and whoever holds a guard of the registry finds a thread to let go of it (it may not:
  finding 4);
* a request put to a task is answered or its promise dropped, whatever becomes
  of the task;
* `end` stops everything;
* nodes that connect to each other do not leave each other waiting;
* members of a channel get its messages in order and without gaps, and what
  they say is kept;
* a node has the same key at every start, announces every address it has bound,
  and lists the nodes that are there;
* what the GUI shows follows the sessions and the messages: no update is missed.

Where these are at risk, line by line, is the list of hazards in `PROJECT.json`.

## 2. Modules

| module | stands for | builds on |
|---|---|---|
| `EventPipe` | `event.rs`, the two ends of the pipe | |
| `Session` | `session.rs`, and the part of `manage_netlayer` that starts a session | `EventPipe` |
| `Registry` | `respond_to_fetch` once more: the guards of the map, and the threads that wait for them | |
| `Netlayer` | `netlayer.rs` | `Session` |
| `Dialing` | the `manage_netlayer` tasks of several nodes, and what passes between them | |
| `ChatManager` | `recv_event`, `end`, `Gateway::authenticate` | `Netlayer`; its map to `FetchService` is that of `Node` and of `Shutdown` |
| `FetchService` | abstract: what a node promises the peers that fetch from it | |
| `Node` | `manager_loop` with the library under it: the system the program runs | `ChatManager`; implements `FetchService` |
| `Shutdown` | the library under a caller that may call `end` | `ChatManager`; implements `FetchService` |
| `Broadcast` | abstract: what a channel promises its members | |
| `Channel` | `channel.rs` and `Portal::connect`, and the members | |
| `Hosting` | `manage_channel`, the task of a channel the node hosts | `Channel`; implements `Broadcast` |
| `ChannelView` | `ChannelState` with its lock and its `Notify`; the `Channel` component, `ChannelNav`, `MessageInput` | `Hosting` |
| `Startup` | `main`, the key file, `manager_loop` up to its loop; deaths and new launches | |
| `Discovery` | `mdns_coroutine`, `manage_mdns` next to the start of `manager_loop` | `Startup` |
| `NodeProofs`, `ShutdownProofs`, `RegistryProofs`, `DialingProofs`, `HostingProofs`, `ViewProofs`, `DiscoveryProofs` | the theorems and their proofs, a module for each of `Node`, `Shutdown`, `Registry`, `Dialing`, `Hosting`, `ChannelView`, `Discovery` | TLAPS |
| `LibraryProofs` | the lemmas about the library that `NodeProofs` and `ShutdownProofs` share | `ChatManager`, TLAPS |
| `MCNode`, `MCShutdown`, `MCRegistry`, `MCDialing`, `MCHosting`, `MCChannelView`, `MCDiscovery` | the small instances TLC checks | |

`Registry` and `Dialing` look at code that `Session` and `Netlayer` have already,
at what those leave out: which thread a task runs on and what it holds while it
awaits, and the other end of a connection. They stand alone, so that each can be
checked with enough fetches, or enough nodes, for its question.

A module declares its component's variables, states them in a tuple
(`sessionVars`, ...), and has one action for each stretch of code between two
awaits, which is what other tasks can interleave with. An action lists all that
the code changes in that stretch. Two arms of `recv_event` break out of it with
a `ChatEvent`, which the caller handles before it can be interrupted:
`Node!ChatSessionStarted` and `Node!ChatSessionAborted` are the conjunction of
the arm (`ChatManager`) and of the caller's (`Node`).

How state corresponds to code:

* `pipe`, `receiving`: the contents of the mpsc channel; whether `ev_receiver` exists.
* `task[s]`: the `manage_session` task of session `s` and how it left its loop;
  sessions are named by `remote_vkey`, fresh for each connection.
* `fetch[f]`, `position[f]`: where the `respond_to_fetch` subtask stands, and the
  `pos` it replies with. `registry`, `exports`: as in the code; an export table
  is a sequence, and exporting gives the next position.
* `netlayer`, `queue`, `request`: the task, `connect_reqs`, and what each caller
  of `request_connect` has heard.
* `sessions`, `hostPortals`, `auth`, `fulfilling`: `ChatData.sessions`,
  `ChatManager.portals`, the state of each call to `authenticate`, and the
  portal request in whose reply `recv_event` is suspended (`manager.rs:197`).
* `open`, `list`: the `handle_new_session` and `list_channels` tasks;
  `portals`, `opened_portals`: as in `manager_loop`.
* `exported_at`, `outboxes`: the two maps of `ChannelCore`, keyed by session; a
  member is named by its session. `events`, `listening`: the channel's mpsc
  queue and whether its receiver exists. `outgoing[m]`: the send task for `m` in
  the `JoinSet` of `Channel::send_msg`; `wire[m]`, `got[m]`: what is on its way
  to the member and what it has received, which is outside the code.
* `at[f]`, `registry` (in `Registry`): where `respond_to_fetch` stands between two
  awaits, `"getting"` and `"inserting"` when it blocks its thread inside the map,
  `"holding"` when it awaits with a guard; whether the session's map has the gateway.
* `queue`, `request`, `accepting` (in `Dialing`): `connect_reqs` of each node; a
  request that was taken has a connection, which waits in the backlog of the target's
  listener, is being greeted by its `accept`, has been, or was closed; `accepting[n]`
  is the connection whose greeting the `accept` future of node `n` awaits.
* `channelTask`, `messages`: where `manage_channel` stands, and
  `ChannelState.messages`; `written - sent` commands are in its queue. The
  user's messages are numbered as they are written, a member's as they are said.
* `locked`: whether the guard that `messages_mut` returned is alive; `chosen`:
  `current_channel`, of the one channel there is; `dirty`: the component is marked for
  drawing; `onShow`, `rendered`: the outcome of the last drawing; `future`: the
  `_messages_future` of `use_future`. `unheard` is a history variable: the messages
  that were there before the future first waited on the `Notify`, which nobody tells it of.
* `stage`: where `main` and `manager_loop` stand; `key_file`: what is on disk, a
  key (named by the launch that made it), nothing, or a file begun and not
  written; `bound_addresses`, `done_binding`, `self_key`: as in `ChatState`.
* `mdns`: where `manage_mdns` stands; `services`: its set of names; `registered`,
  `cache`, `browse`: the daemon's, of `mdns-sd`; `key_map`, `lan_peers`: as in
  the code, an entry of the list being reduced to the service it came from.

`DropRecvEvent` is part of every action in which `manager_loop`'s `select!`
takes another branch: the future of `recv_event` is dropped with what it was
doing. `TaskGone` is the end of the netlayer task, whichever way it comes, with
the drop of what it owned.

Operators named as mutants (`StartUnannounced`, `ExportOffByOne`, ...) are plausible
bugs: each stands beside the action it would replace and no specification uses
it. Replacing the action by it makes the property listed for it in
`PROJECT.json` fail, which shows that the property depends on the code.

## 3. What is checked

| run | instance | shows |
|---|---|---|
| `node` | 1 session, 1 fetch that is answered, 1 that is refused, 1 connect request | no fetch is lost; `Node` implements `FetchService`; every session is handed on, every abort is handled, every fetch settles; the request keeps the netlayer busy meanwhile |
| `pair` | 2 sessions, a fetch of the gateway over each; symmetric | announcements, aborts, portals, portal requests; a session that is forgotten does not come back |
| `shutdown` | 1 session, 2 fetches of the gateway, 2 requests, one to an unknown transport | the registry race (`session.rs:51-66`) answers every fetch with a position of the right object; `end` stops everything and leaves nobody waiting; until then nothing asked is lost, a request is accounted for when the netlayer's task dies too, and `FetchService` is implemented to the last |
| `registry` | 5 fetches over 1 session, 3 threads | the guard kept while an answer is written (`session.rs:51-54`) blocks the last thread only with more fetches unanswered than there are threads; every fetch ends, if that does not come about |
| `dialing` | 3 nodes; a to b, b to a, b to c, c to a | no connection is left that nobody will greet; a node that goes frees those that wait for it; nodes that have requests stand still only in a circle, or behind a silent stranger; every request is answered, unless nodes dial in a circle |
| `hosting` | 2 members, one connects twice and says 2 things, one introduces a peer; 3 messages of the host | the host's messages arrive as `Broadcast` promises, what is shown has gone out, what is said is kept in order, the channel is exported to a member once |
| `view` | 1 member that says a thing and introduces a peer; 2 messages; the view | the view misses no update and the lock holds up nobody; what the user writes comes to be shown, what is pushed to be drawn |
| `discovery` | 2 listen addresses, 2 launches; 3 services of 2 other nodes | the key is found again after a death at any moment, and never replaced; all addresses are announced or none; the list of peers; the wait and the stop come to an end |
| `dead_session` | 1 session | finding 1 |
| `lost_portal_request` | 1 session | finding 2 |
| `vanishing_peer` | 1 address, 2 services with one key | finding 3 |
| `blocked_threads` | 5 fetches over 1 session, 3 threads | finding 4 |

Bounds. A session may start once (its key is fresh), a fetch is made once, a
request is made once: the sets `Sessions`, `Fetches` and `Requests` are the only
bounds, there are no counters to cap. A property about one session needs
a second one only to compete with it for the pipe, `recv_event` and the
netlayer. Two fetches of one swiss number show the race for the registry, in `shutdown`;
in `node` a fetch that is refused shares the pipe with one that is answered. A peer authenticates once
over a session, which is what the program does (`handle_new_session`).
Five fetches over one session are the fewest with which three threads can run out: one that
has inserted and returned, one that holds its entry, three that wait for it. Both runs of
`Registry` have them, so the bounds that `EnoughThreads` gives are met. Two sessions would
not meet, as each has a map of its own. In `Dialing` the four links have two nodes that connect to each other, a circle of three, a node
with two requests and a node at which two others wait.
In `Channel` and `Hosting`, `MaxConnects` and `MaxSaid` cap what each member does,
`MaxWritten` what the user writes: three messages are the fewest in which one can be
missing between two others, and two members the fewest of which one can fail
while the other still gets its message. `ChannelView` needs one member, whose messages
interleave with the user's, and two messages: one that is pushed while the view draws the one
before. In `Startup` and `Discovery`,
`MaxLaunches` caps how often the program is started (one launch that dies and one
that finds what it left) and `MaxBrowse` the events the daemon has ready (a service that
is resolved and removed again before the task reads either). All runs
have `CHECK_DEADLOCK FALSE`: when all the sessions, fetches, requests, messages and
launches of an instance are used up, nothing is left to happen.

Fairness (`FairSpec`, `FairView`, and `Spec` of `Shutdown`) is weak, but for one action, and given to steps of
local tasks only: tokio polls a task that is ready, and `select!` picks a ready
branch at random, so that no ready branch is passed over for ever (TLC's weak
fairness of `RecvEvent` is enough, as an event in the pipe stays there).
Nothing is assumed of peers, of the network or of the user: `RecvFetch`,
`RecvAbort`, `Accept`, `Reply`, `OpenDone`, `ListDone` and the rest have no
fairness. Where progress depends on a peer the property says so in a
hypothesis: `PipeRead` (the reply of `manager.rs:197` does not block for ever)
and `ConnectsReturn` (neither does `nl.connect`, `netlayer.rs:119`). Without
them the properties fail, for the reason the hazards give: a peer that does not
read its replies holds up every session's events. `WrittenShown` has `SendsReturn`:
`manage_channel` awaits the sends to all members, so one whose writes hang holds up
the channel. The view's drawing and its future are fair as the GUI thread's loop polls both.
In `Registry` a fetch that can go on does, if there is a thread for it; a write is up to the
peer, so `FetchesEnd` supposes that each comes to an end while there are threads (`PeersRead`), and
that the threads do not run out: that they may is finding 4, and the code has nothing that keeps
them from it. `PromiseFulfilled` supposes the first only, and fails. In `Dialing` a node's tasks go on and what
it sends arrives; a stranger may connect and say nothing (`NoSilence` excludes it).
`AcceptBegins` is strongly fair: the node may leave its `select!` for its connect arm
again and again, but the backlog it takes connections from is served in order.
`Answered` supposes `[]~Circle`; without it TLC finds nodes that have each taken
the request to connect to the next: none is in its `accept`, and all stand still (section 4).
In `Discovery` the steps of `manager_loop`, of the mdns task and the
wake-up by `notify_all` are fair: `mdns-sd` answers what it is asked. Nothing makes other
nodes come or go, the process die or be launched, or `Stop` be sent.

## 4. Findings

1. `session.rs:101-109` (`dead_session`): a session whose receiving fails is never
   reported, so the manager and the GUI keep it for ever.
2. `chat.rs:228` with `manager.rs:197` (`lost_portal_request`): `recv_event` is not
   safe to drop while it replies to a portal request, and `select!` drops it.
3. `net.rs:381-386` (`vanishing_peer`): the list of peers is kept by key and a
   removal names a service, so a node that is seen under two names disappears
   with the first of them to go.
4. `session.rs:66` with `session.rs:51-54` (`blocked_threads`): `registry.insert` blocks its
   thread while another fetch of the session awaits its reply with the guard of `registry.get`.
   Nothing limits the fetches (`session.rs:111-121`): with more of them unanswered than there are
   worker threads, all threads can be blocked so, and none is left to finish the
   reply, although the peer reads.

The models have these too, though no run is spent on them:

* `netlayer.rs:119`: nodes that connect to each other at the same time, in a circle of
  any length, stand still: each awaits the greeting of the next inside its `connect`
  arm, where it accepts nobody (in `Dialing`, `Circle`). Only the end of a process
  or of a connection gets them out of it.
* `chat.rs:278`: a portal that was opened right before its session was aborted is
  joined after the abort and stays in `portals`, and on the screen (in `Node`,
  `s \in portals` with `task[s] = "aborted"` and the abort handled).
* `net.rs:302-309`: if `manager_loop` fails before `chat.rs:173`, which
  `get_key_or_init` (`chat.rs:141`) can make it do, the mdns task waits for ever (in
  `Discovery`, `mdns` stays where it waits).
* `chat.rs:263`: `entry().or_default()` brings a removed entry of
  `opened_portals` back when its channel list arrives late (in `Node`,
  `opened_portals[s] # "absent"` without `s \in portals`).
* `chat.rs:453`: any failed send ends the channel's task in a `todo!()`; outboxes
  are never removed (`channel.rs:214`), so once a member's session has ended the
  next message ends the channel for everybody (in `Hosting`, `"panicked"`).
* `gui.rs:364`: the view looks up the sender of each message among the channel's
  peers, and nobody ever adds to these (`peers_mut` has no caller): a message of
  anyone but the host makes the component panic (in `ChannelView`, `onShow = "nothing"`).
* `gui.rs:342`: a message pushed between the first drawing of a channel and the first
  poll of its future is drawn only with the next one (in `ChannelView`, `unheard`).
* `manager.rs:159`: channels are registered in `ChatManager.channels` and looked up in
  `ChatData.channels`, so no channel can be fetched by its id. `FetchService` has the
  refusal as what a node promises.
* `cfg.rs:136`: if the process dies between the creation of the key file and its
  writing, every later start finds a file it cannot parse (in `Startup`, `Partial`).

## 5. What is proved

`NodeProofs` proves, for every set of sessions, fetches, requests and peers, and
every choice of which fetch belongs to which session, that `Spec` of `Node`
implies `[]` of

| theorem | property |
|---|---|
| `TypeCorrect` | `TypeOK` |
| `EventsAnnounced` | `AnnouncedFirst` |
| `SessionsExact` | `ForgottenIffAborted` |
| `SessionsKnown` | `LiveSessionKnown` |
| `EventsNotLost` | `FetchTracked` |
| `PortalRequestsNotLost` | `PortalRequestTracked` |
| `PortalsShown` | `PortalShown` |
| `AnswersRight` | `AnswerMatchesExport` |
| `RequestsNotLost` | `RequestsTracked` |
| `PipeAgrees` | `IndInv`, from which the properties of sessions, fetches and portal requests follow |

and, of its steps, that none brings back a session whose abort was handled,
`ForgottenStays` (`ForgottenForGood`), and that `Spec` implements the abstract
service, `ServiceKept` (`KeepsService`). The other modules prove that the specification of theirs implies (invariants under `[]`)

| module, for every | theorem | property |
|---|---|---|
| `ShutdownProofs`: sets as above, and moment at which the manager is ended | `ShutdownTyped` | `TypeOK` |
| | `RequestsLetGo` | `RequestsTracked` |
| | `NobodyWaits` | `NoneWaitsOnGoneManager` |
| | `AskedIsThere` | `NoneLost` |
| | `AnswersStayRight` | `AnswerMatchesExport` |
| | `ServiceEnds` | `KeepsService`: the refinement of `FetchService` |
| `RegistryProofs`: finite set of fetches, over any sessions, number of threads | `EntriesMade` | `IndInv` |
| | `RunsOutLate` | `EnoughThreads` |
| `DialingProofs`: set of nodes and of requests between them | `DialsOne` | `TypeOK` |
| | `GreetingsHeld` | `GreetingHeld` |
| | `GoneLetGo` | `GoneLetsGo` |
| | `StandstillOnlyInCircle` | `HeldByCircle` |
| `HostingProofs`: set of members, number of messages, of connects, of things said | `ChannelTyped` | `TypeOK` |
| | `ConnectsOnce` | `ExportedOnce` |
| | `PromiseKept` | `KeepsPromise`: the refinement of `Broadcast` |
| | `ShownHasGone` | `ShownReached` |
| | `SaidIsKept` | `SaidKept` |
| `ViewProofs`: the same | `LockBrief` | `ViewOK` |
| | `ViewUpToDate` | `UpToDate` |
| | `ViewImplements` | `Spec` of `Hosting`: the view and the lock add nothing to the channel |
| | `ViewKeepsPromise` | `KeepsPromise` |
| | `ViewSaidKept` | `SaidKept`, `ShownReached` |
| `DiscoveryProofs`: set of listen addresses and of neighbours, number of launches | `KeyKept` | `IdentityOnDisk` |
| | `KeyStays` | `KeyForLife`: no step replaces or loses a key that is in its file |
| | `OneKey` | once there is a key, no launch runs under another |
| | `AllAnnounced` | `AnnouncesAll` |
| | `DiscoveryTyped` | `TypeOK` |
| | `ListKnown` | `ListedIsKnown` |

The assumptions are those the modules name on their constants
(`NoFetchAssumption`, `FetchAssumption`, `RoutableAssumption`,
`PeerAssumption`, `LaunchAssumption`, `ServiceAssumption`, `WorkersAssumption`, `DialingAssumption`,
`HostAssumption` and those of `Channel`); TLC evaluates them in every run.

The argument. None of the five properties about sessions and events is
inductive alone. That a session is announced first depends on nobody sending
about a session that has no task, that an abort is handled once depends on its
being in the pipe once, and so on. `IndInv` adds `Distinct` (no event is in the pipe
twice) and `SessionTracked` (how the pipe, the session's task and
`manager_loop`'s record of it agree). The pipe is the only sequence the
invariant looks into, so the lemmas `SendIn` and `ReceiveIn` say once what
sending and receiving do to membership, distinctness and order; an action that
touches neither the pipe nor the state an invariant reads is disposed of by
`QuietStep`, and each of the others has a lemma of its own. `LiveSessionKnown`
follows from `IndInv` without being part of it. So does `ForgottenForGood`: only
the announcement puts a session into `ChatData.sessions`, it is in the pipe once and
ahead of the abort, so it is not in the pipe any more when the abort has been handled.

`AnswerMatchesExport` has its own invariant, `AnswerInv`: an export table only grows,
except when the session starts, at which point nothing can have been registered yet.
`LibraryProofs` has the proof. What any step may do to the fetches and exports of a
session is one of few moves (`SessionMove`), and the invariant is kept by the moves; that
the steps of the program, and those of a caller that ends the manager, are among them
is what `NodeProofs` and `ShutdownProofs` add.

`ServiceKept` and `ServiceEnds` are by the map from `fetch[f]` to what the peer has had by way of reply.
Every step of either changes the standing of one fetch at most: a session that ends only
sets its subtasks to be cancelled, each of which then fails by a step of its own. That what is given is the right object needs
`AnswerInv` and, beside it, that a fetch that has come to its export asked for
something the node has.

`RequestsTracked` becomes inductive with `QueueDistinct`: a queue that had a request
twice would still have it after it was taken. `LibraryProofs` proves it once, for
whatever takes the netlayer's steps; the program and the shutdown only have to show
that theirs are among them. `NoneWaitsOnGoneManager` is inductive with the types.

`AskedIsThere` is what `EventsNotLost` and `PortalRequestsNotLost` say of the program,
for a library whose manager may be dropped at any moment. `IndInv` is no help: it speaks of
`manager_loop`, which is not there. `PipeInv` has in its place `SentOnce`: an
event in the pipe tells how far its sender has come, and no sender is twice at the point
where it sends. That keeps the pipe free of duplicates, without which taking an event
out would not take it away.

`RunsOutLate` counts. A guard is had only on an entry, which an earlier fetch of the
session has inserted, and that one does not wait for the shard again (`GuardOnEntry`,
`InsertedBefore`: with the types, the `IndInv` of `EntriesMade`). So behind every guard there
are two fetches that are not blocked, one of them unanswered; with `Workers` that are blocked,
these are more than `Workers` unanswered and more than `Workers + 1` in all. Nothing is assumed
of the number of fetches.

The invariant of `DialingProofs` is that of its three theorems, with the queue
of a node holding each of its waiting requests once (`QueueOwn`), without which a
request could be taken twice. `HeldByCircle` follows from it without an induction of its own: where
nobody can take a step, a node with requests is in its connect arm, or greets a
stranger in its `accept`; leave the latter out, and the nodes in their connect arms are the circle, as
each waits for one that is in its own and so does not accept.

`PromiseKept` rests on `RunInv`: what a member has had and what is on its way to it
goes up by ones from the first message after it connected (`GoesOn`); a member that
has not had the current one has its send in progress (`InTime`); and `Phase` ties both to where the channel's
task stands. A send puts the number on the wire that the member
waits for only because `manage_channel` waits for all sends of a message before
the next. `ShownHasGone` follows from it: what has gone out to a member, had or on
its way, goes up by ones and reaches the last message shown at least (`GoneInv`), and nothing is
shown before all its sends are done (`ShownBefore`); so a message between two that have
gone out has gone out too. `SaidKept` is about
order across two queues and what a member has yet to say, and it is stated by positions
(`Numbered`): a member's numbers are `1 .. k` in `messages` and `k + 1 .. said[m]` in `events`, in
that order, for some `k`. Saying a thing extends the second part, taking an event moves the number from
the front of the second part to the end of the first, and what stands between them, the user's or
another member's, is in neither part.

`ViewImplements` maps the watched channel to `Hosting` by its own variables: the push behind the lock is
the step of `Hosting`, and taking the lock, telling the view and drawing stutter. All that holds of
`Hosting` therefore holds of it (`ViewKeepsPromise`, `ViewSaidKept`). `ViewUpToDate` adds to `UpToDate` what holds while the lock is taken: the
notification goes out before the push, so a view that listens and has not
been told is one whose future first waited after that notification, and the
message is one of the `unheard`.

The invariant of `KeyKept` and `AllAnnounced` has two parts. `StartInv` says of each stage of
`manager_loop` what is set by then: no key before `"binding"`, the addresses from
`"bound"` on, the signal only in `"running"`. `AnnounceInv` says that the mdns task
is past its wait only after the signal, and that what it has read is what is
there; it is kept by manager_loop's steps because none is left once the loop
runs (`SharedStays`). `KeyStays` needs of it that a file is written only in the stage
`"writing"`, in which it is the one this launch has just begun (`Partial`): so a key
is never what is written over. `OneKey` is the consequence for a run of launches, with `IdentityOnDisk`.
`ListKnown` needs one about the daemon's events: between two
resolutions of a name there is its removal, in what is ready and at both its ends
(`InTurn`), so that a service that is resolved was not known, and its name is not on the list
already under another key.

Every invariant and every action property that a run checks, and every refinement, are
proved. Some are proved only, and no run is spent on them: the `IndInv`s, the
types of `Shutdown`, `Hosting` and `Discovery` (`ViewOK` has those of `Hosting`),
`AnswerMatchesExport` in `Shutdown` and `RequestsTracked` in `Node`.

Only model-checked are the liveness properties: `StartHandled`,
`AbortHandled`, `FetchSettles`, `EndStopsSessions`, `RequestTaken`, `FetchesEnd`,
`Answered`, `WrittenShown`, `PushedDrawn`, `MdnsSettles` and `StopEnds`. Liveness under fairness, and
`ENABLED`, are beyond the prover. `Standstill` in `HeldByCircle` is for
that reason written as the conditions under which the steps of `Dialing` are disabled, not with `ENABLED`.

## 6. What is not modelled, and assumptions

* rexa, syrup, tokio, DashMap and Dioxus are not part of the repository. Of rexa
  the model assumes: an exported object keeps its position and each export gets
  a new one; `recv_event` of a session delivers the peer's messages one at a
  time; keys of sessions are fresh.
* The calls that come in over one session are handled one after another, so two
  calls of `Portal::connect` by one member do not overlap. The channel object of a
  member is not in the repository: what it gets is what was written, in order.
  `RemotePortal::connect` passes an outbox but leaves its own `connect_peer` commented
  out, and the binary does not call it.
* `Channel::send_msg` takes the outboxes as they are when it starts: the iteration of
  the DashMap is one step. A write that fails has written nothing; one whose task is
  aborted may have.
* One process runs at a time: two that start together over one key file are not modelled.
* `write_pkcs8_der_file` creates the file, then writes it, in one write. `mdns-sd`
  reports a service resolved once until it reports it removed, for the program's own
  services too, and its events in the order they happen.
* `connect` and `accept` of rexa return once the greeting of the other side has come:
  `remote_vkey` is known on return. Dropping the future of `accept` closes the connection.
* An `insert` into a DashMap that waits may keep new readers out, or not. Tasks that
  are not blocked inside the map give their thread back.
* Dioxus draws and polls on one GUI thread; a component that panics draws nothing;
  the futures of `use_future` are made once. Only one channel exists in the program
  (`chat.rs:129`), so `current_channel` is that one or none.
* One transport, `tcpip`, is registered (`chat.rs:171`): a second one would have
  a second netlayer task that shares only the pipe with the first.
* Contents of messages, signatures beyond valid or not, formatting and logging.
* `NetworkEvent::TaskFinished`, `spawn_subtask` and `subscribe` are used by
  nobody; `input.rs` and `input/command.rs` are not compiled.
* The program itself does not compile at this commit: the matches at
  `chat.rs:240` and `chat.rs:461` have no arm for `ManagerEvent::ConnectChannel`
  and `ChannelEvent::PeerConnected`. Nothing sends the first; `Hosting!TakeConnected` takes the second
  and does nothing, as the missing arm would have to at least.

* `register_channel` runs once, before the loop, and a fetch never reads what it
  writes: a fetch of a channel is refused, which `Node` has. `Config::write`, `RemotePortal::connect`, `peers_mut` and
  `ManagerEvent::ConnectChannel` have no caller. `user.rs` is plain data; the other
  components of `gui.rs` (layout, forms, style) read states that are modelled with the
  tasks that write them.

## 7. Plan

Done: `EventPipe`, `Session`, `Netlayer`, `ChatManager`, `Node`, `Shutdown`,
`FetchService`; `Registry`; `Dialing`; `Broadcast`, `Channel`, `Hosting`,
`ChannelView`; `Startup`, `Discovery`; and the proofs listed above.

Models still to extend: `Netlayer` as a refinement of one node of `Dialing`, and with
it two nodes' whole stacks, each the peer of the other; the worker threads of tokio
beyond `Registry` (`net.rs:308`).
