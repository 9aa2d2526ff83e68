-------------------------- MODULE DiscoveryProofs --------------------------
(***************************************************************************)
(* That a node never runs under a key it would not find again, and that    *)
(* it announces all its bound addresses or none, for every set of listen   *)
(* addresses, of neighbours, and any number of launches.                   *)
(***************************************************************************)
EXTENDS Discovery, SequenceTheorems, TLAPS

Keyless == {"off", "reading", "keying", "writing", "failed"}
Keyed == {"binding", "bound", "running"}

(* Where manager_loop stands tells whether it has its key, and what others *)
(* may read.                                                               *)
StartInv ==
  /\ launches \in Nat
  /\ stage # "off" => launches > 0
  /\ stage \in Keyless \cup Keyed
  /\ key_file # NoKey
  /\ stage = "writing" => key_file = Partial
  /\ stage \in Keyless => self_key = NoKey
  /\ stage \in Keyed => self_key # NoKey
  /\ stage \in {"bound", "running"} => bound_addresses = listeners
  /\ done_binding => stage = "running"
  /\ IdentityOnDisk

Bound == {OwnName[a] : a \in bound_addresses}

(* The mdns task reads the key and the addresses after the signal, and     *)
(* nothing changes them from then on.                                      *)
AnnounceInv ==
  /\ mdns \in {"off", "browsing", "checking", "asleep"} => services = {}
  /\ mdns \in {"registering", "listening"} =>
       done_binding /\ advertised = self_key /\ services \subseteq Bound
  /\ mdns = "listening" => services = Bound

IInv == StartInv /\ AnnounceInv

-----------------------------------------------------------------------------
(* A key that is made is not NoKey, and neither is what a file may hold    *)
(* instead of one.                                                         *)
LEMMA InitIInv == Init => IInv
BY LaunchAssumption
   DEF Init, StartInit, MdnsInit, IInv, StartInv, AnnounceInv, IdentityOnDisk,
       NoKey, Keyless, Keyed

(* The steps of manager_loop and of the process keep StartInv.             *)
LEMMA StartStep ==
  ASSUME StartInv, Launch \/ Begin \/ SignalDone \/ Die
  PROVE  StartInv'
<1> USE DEF StartInv, IdentityOnDisk, NoKey, Keyless, Keyed
<1>1. CASE Launch     BY <1>1 DEF Launch
<1>2. CASE ReadConfig BY <1>2 DEF ReadConfig
<1>3. CASE ReadKey    BY <1>3 DEF ReadKey
<1>4. CASE CreateKeyFile BY <1>4, LaunchAssumption DEF CreateKeyFile
<1>5. CASE WriteKey   BY <1>5 DEF WriteKey
<1>6. CASE ShareAddresses BY <1>6 DEF ShareAddresses
<1>7. CASE \E a \in Listen : Bind(a) BY <1>7 DEF Bind
<1>8. CASE SignalDone BY <1>8 DEF SignalDone
<1>9. CASE Die        BY <1>9 DEF Die
<1> QED BY <1>1, <1>2, <1>3, <1>4, <1>5, <1>6, <1>7, <1>8, <1>9 DEF Begin

(* While the mdns task announces, manager_loop is in its loop: it has no   *)
(* step left that would change what was read.                              *)
LEMMA SharedStays ==
  ASSUME StartInv, AnnounceInv, Launch \/ Begin, UNCHANGED mdnsVars
  PROVE  AnnounceInv'
<1>1. UNCHANGED <<mdns, advertised, services>>  BY DEF mdnsVars
<1>2. stage # "running"
  BY DEF Launch, Begin, ReadConfig, ReadKey, CreateKeyFile, WriteKey, ShareAddresses, Bind
<1>3. ~done_binding  BY <1>2 DEF StartInv
<1> QED BY <1>1, <1>3 DEF AnnounceInv

(* The steps of the mdns task, of its daemon and of other nodes keep       *)
(* AnnounceInv.                                                            *)
LEMMA MdnsKeeps ==
  ASSUME StartInv, AnnounceInv, MdnsStep \/ Daemon \/ Stop
  PROVE  AnnounceInv' /\ UNCHANGED startVars
<1> USE DEF AnnounceInv, Bound
<1>1. CASE StartMdns BY <1>1 DEF StartMdns, startVars
<1>2. CASE Browse    BY <1>2 DEF Browse, startVars
<1>3. CASE CheckDone BY <1>3 DEF CheckDone, startVars
<1>4. CASE \E a \in Listen : RegisterService(a)
  <2>1. PICK a \in Listen : RegisterService(a)  BY <1>4
  <2> QED BY <2>1 DEF RegisterService, startVars
<1>5. CASE StartListening BY <1>5 DEF StartListening, startVars
<1>6. CASE Listening
  BY <1>6 DEF Listening, ServiceResolved, ServiceRemoved, NextEvent, startVars
<1>7. CASE Close     BY <1>7 DEF Close, ShutDown, Unregister, startVars
<1>8. CASE Daemon    BY <1>8 DEF Daemon, Resolve, Expire, startVars
<1>9. CASE Stop      BY <1>9 DEF Stop, startVars
<1> QED BY <1>1, <1>2, <1>3, <1>4, <1>5, <1>6, <1>7, <1>8, <1>9 DEF MdnsStep

(* What leaves manager_loop's variables alone leaves StartInv alone.       *)
LEMMA StartQuiet ==
  ASSUME StartInv, UNCHANGED startVars
  PROVE  StartInv'
BY DEF startVars, StartInv, IdentityOnDisk

LEMMA StepIInv == IInv /\ [Next]_vars => IInv'
<1> SUFFICES ASSUME StartInv, AnnounceInv, [Next]_vars
             PROVE  StartInv' /\ AnnounceInv'
  BY DEF IInv
<1>1. CASE (Launch \/ Begin) /\ UNCHANGED mdnsVars
  BY <1>1, StartStep, SharedStays
<1>2. CASE Notify
  <2>1. StartInv'  BY <1>2, StartStep DEF Notify
  <2>2. UNCHANGED <<self_key, bound_addresses, services, advertised>> /\ done_binding'
    BY <1>2 DEF Notify, SignalDone
  <2>3. mdns' \in {"registering", "listening"} => mdns' = mdns
    BY <1>2 DEF Notify
  <2>4. mdns' \in {"off", "browsing", "checking", "asleep"} =>
          mdns \in {"off", "browsing", "checking", "asleep"}
    BY <1>2 DEF Notify
  <2>5. AnnounceInv'  BY <2>2, <2>3, <2>4 DEF AnnounceInv, Bound
  <2> QED BY <2>1, <2>5
<1>3. CASE Die /\ Reset
  BY <1>3, StartStep DEF Reset, AnnounceInv
<1>4. CASE MdnsStep \/ Daemon \/ Stop
  BY <1>4, MdnsKeeps, StartQuiet
<1>5. CASE \E s \in Services : Appear(s) \/ Disappear(s)
  <2>1. UNCHANGED <<startVars, mdns, advertised, services>>
    BY <1>5 DEF Appear, Disappear
  <2> QED BY <2>1, StartQuiet DEF AnnounceInv, Bound, startVars
<1>6. CASE UNCHANGED vars
  BY <1>6, StartQuiet DEF vars, mdnsVars, startVars, AnnounceInv, Bound
<1> QED BY <1>1, <1>2, <1>3, <1>4, <1>5, <1>6 DEF Next

LEMMA AlwaysIInv == Spec => []IInv
BY InitIInv, StepIInv, PTL DEF Spec

-----------------------------------------------------------------------------
(* Whatever the moment the process dies, the key a node has run under is   *)
(* the one in its key file (Config::get_key_or_init, cfg.rs:122).          *)
THEOREM KeyKept == Spec => []IdentityOnDisk
<1>1. IInv => IdentityOnDisk  BY DEF IInv, StartInv
<1> QED BY <1>1, AlwaysIInv, PTL

(* Only a file with no key in it is written to.                            *)
LEMMA FileStays == IInv /\ [Next]_vars => ((key_file \in Keys) => key_file' = key_file)
<1> SUFFICES ASSUME IInv, [Next]_vars, key_file \in Keys
             PROVE  key_file' = key_file
  OBVIOUS
<1>1. key_file # Absent /\ key_file # Partial  BY LaunchAssumption DEF Keys
<1>2. stage # "writing"  BY <1>1 DEF IInv, StartInv
<1>3. CASE Launch \/ Begin
  BY <1>1, <1>2, <1>3
     DEF Launch, Begin, ReadConfig, ReadKey, CreateKeyFile, WriteKey, ShareAddresses, Bind
<1>4. CASE Notify  BY <1>4 DEF Notify, SignalDone
<1>5. CASE Die     BY <1>5 DEF Die
<1>6. CASE MdnsStep \/ Daemon \/ Stop
  BY <1>6, MdnsKeeps DEF IInv, startVars
<1>7. CASE \E s \in Services : Appear(s) \/ Disappear(s)
  BY <1>7 DEF Appear, Disappear, startVars
<1>8. CASE UNCHANGED vars  BY <1>8 DEF vars, startVars
<1> QED BY <1>3, <1>4, <1>5, <1>6, <1>7, <1>8 DEF Next

(* A key that is in the file stays there, however often the process is     *)
(* launched and whenever it dies (Config::get_key_or_init, cfg.rs:122).    *)
THEOREM KeyStays == Spec => KeyForLife
<1>1. IInv /\ [Next]_vars => [(key_file \in Keys) => key_file' = key_file]_vars
  BY FileStays
<1> QED BY <1>1, AlwaysIInv, PTL DEF Spec, KeyForLife

(* So a node is known by one key: no launch runs under another than an     *)
(* earlier one did.                                                        *)
THEOREM OneKey ==
  ASSUME NEW k \in Keys
  PROVE  Spec => [](self_key = k => [](self_key \in {k, NoKey}))
<1>1. IInv /\ self_key = k => key_file = k
  BY DEF IInv, StartInv, IdentityOnDisk, Keys, NoKey
<1>2. IInv /\ key_file = k => self_key \in {k, NoKey}
  BY DEF IInv, StartInv, IdentityOnDisk
<1>3. key_file = k /\ IInv /\ [Next]_vars => (key_file = k)'
  BY FileStays
<1> QED BY <1>1, <1>2, <1>3, AlwaysIInv, PTL DEF Spec

(* The mdns task registers a service for every bound address, under the    *)
(* key the node runs under (net.rs:302-324).                               *)
THEOREM AllAnnounced == Spec => []AnnouncesAll
<1>1. IInv => AnnouncesAll
  BY DEF IInv, StartInv, AnnounceInv, AnnouncesAll, Bound, Keyed
<1> QED BY <1>1, AlwaysIInv, PTL

-----------------------------------------------------------------------------
(* Types.                                                                  *)
LEMMA InitTyped == Init => TypeOK
<1>1. StartInit => StartTypeOK
  <2> SUFFICES ASSUME StartInit PROVE StartTypeOK
    OBVIOUS
  <2>1. launches \in 0 .. MaxLaunches
    BY LaunchAssumption DEF StartInit
  <2>2. key_file \in Keys \cup {Absent, Partial} /\ self_key \in Keys \cup {NoKey}
    BY DEF StartInit
  <2> QED BY <2>1, <2>2 DEF StartInit, StartTypeOK, Stages
<1>2. MdnsInit => MdnsTypeOK
  <2> SUFFICES ASSUME MdnsInit PROVE MdnsTypeOK
    OBVIOUS
  <2>1. key_map \in [Names -> PeerKeys \cup {NoPeer, "self"}]
    BY DEF MdnsInit
  <2>2. lan_peers \in [PeerKeys \cup {"self"} -> Names \cup {NoService}]
    BY DEF MdnsInit
  <2>3. browse \in Seq(ServiceEvent)
    BY DEF MdnsInit
  <2> QED BY <2>1, <2>2, <2>3 DEF MdnsInit, MdnsTypeOK, MdnsStages
<1> QED BY <1>1, <1>2 DEF Init, TypeOK

LEMMA StartTyped ==
  ASSUME StartInv, StartTypeOK, Launch \/ Begin \/ SignalDone \/ Die
  PROVE  StartTypeOK'
<1> USE LaunchAssumption DEF StartTypeOK, Stages, Keys, NoKey
<1>1. CASE Launch     BY <1>1 DEF Launch
<1>2. CASE ReadConfig BY <1>2 DEF ReadConfig
<1>3. CASE ReadKey    BY <1>3 DEF ReadKey
<1>4. CASE CreateKeyFile BY <1>4 DEF CreateKeyFile
<1>5. CASE WriteKey
  <2>1. launches \in 1 .. MaxLaunches  BY <1>5 DEF WriteKey, StartInv
  <2> QED BY <1>5, <2>1 DEF WriteKey
<1>6. CASE ShareAddresses BY <1>6 DEF ShareAddresses
<1>7. CASE \E a \in Listen : Bind(a)
  <2>1. PICK a \in Listen : Bind(a)  BY <1>7
  <2> QED BY <2>1 DEF Bind
<1>8. CASE SignalDone BY <1>8 DEF SignalDone
<1>9. CASE Die        BY <1>9 DEF Die
<1> QED BY <1>1, <1>2, <1>3, <1>4, <1>5, <1>6, <1>7, <1>8, <1>9 DEF Begin

(* What the daemon announces is an event of the browser's.                 *)
LEMMA EventsTyped ==
  /\ \A s \in Services : s.name \in Names /\ Resolved(s.name, s.key, s.usable) \in ServiceEvent
  /\ \A n \in Names : Resolved(n, "self", TRUE) \in ServiceEvent /\ Removed(n) \in ServiceEvent
<1>1. \A s \in Services : s.name \in Names /\ s.key \in PeerKeys /\ s.usable \in BOOLEAN
  BY ServiceAssumption DEF Names, PeerNames, PeerKeys
<1>2. \A n \in Names, k \in PeerKeys \cup {"self"}, u \in BOOLEAN : Resolved(n, k, u) \in ServiceEvent
  <2> TAKE n \in Names, k \in PeerKeys \cup {"self"}, u \in BOOLEAN
  <2> HIDE DEF Resolved
  <2> QED BY DEF ServiceEvent
<1>3. \A n \in Names : Removed(n) \in ServiceEvent
  BY DEF ServiceEvent
<1> QED BY <1>1, <1>2, <1>3

(* The event at the head, and what is left of the browser's events.        *)
LEMMA TakeTyped ==
  ASSUME MdnsTypeOK, NEW e, NextEvent(e)
  PROVE  /\ browse \in Seq(ServiceEvent) /\ browse # <<>>
         /\ e = Head(browse) /\ browse' = Tail(browse)
         /\ browse' \in Seq(ServiceEvent)
         /\ e.name \in Names
         /\ e.kind = "ServiceResolved" => e.key \in PeerKeys \cup {"self"}
<1>1. /\ browse \in Seq(ServiceEvent) /\ browse # <<>>
      /\ e = Head(browse) /\ browse' = Tail(browse)
  BY DEF NextEvent, MdnsTypeOK
<1>2. e \in ServiceEvent /\ Tail(browse) \in Seq(ServiceEvent)
  BY <1>1, HeadTailProperties
<1>3. /\ e.name \in Names
      /\ e.kind = "ServiceResolved" => e.key \in PeerKeys \cup {"self"}
  BY <1>2 DEF ServiceEvent, Resolved, Removed
<1> QED BY <1>1, <1>2, <1>3

LEMMA ListeningTyped ==
  ASSUME MdnsTypeOK, NEW e, ServiceResolved(e) \/ ServiceRemoved(e)
  PROVE  MdnsTypeOK'
<1>1. NextEvent(e)
  BY DEF ServiceResolved, ServiceRemoved
<1>2. /\ browse' \in Seq(ServiceEvent) /\ e.name \in Names
      /\ e.kind = "ServiceResolved" => e.key \in PeerKeys \cup {"self"}
  BY <1>1, TakeTyped
<1>3. UNCHANGED <<mdns, advertised, services, registered, up, cache>>
  BY <1>1 DEF NextEvent
<1>4. CASE ServiceResolved(e)
  <2>1. /\ key_map' \in [Names -> PeerKeys \cup {NoPeer, "self"}]
        /\ lan_peers' \in [PeerKeys \cup {"self"} -> Names \cup {NoService}]
    BY <1>2, <1>4 DEF ServiceResolved, MdnsTypeOK
  <2> QED BY <1>2, <1>3, <2>1 DEF MdnsTypeOK
<1>5. CASE ServiceRemoved(e)
  <2>1. /\ key_map' \in [Names -> PeerKeys \cup {NoPeer, "self"}]
        /\ lan_peers' \in [PeerKeys \cup {"self"} -> Names \cup {NoService}]
    BY <1>2, <1>5 DEF ServiceRemoved, MdnsTypeOK
  <2> QED BY <1>2, <1>3, <2>1 DEF MdnsTypeOK
<1> QED BY <1>4, <1>5

LEMMA ResolveTyped ==
  ASSUME MdnsTypeOK, NEW e \in ServiceEvent, Resolve(e)
  PROVE  MdnsTypeOK'
<1>1. browse' \in Seq(ServiceEvent)
  BY AppendProperties DEF Resolve, MdnsTypeOK
<1>2. cache' \subseteq Names
  BY DEF Resolve, MdnsTypeOK, ServiceEvent, Resolved, Removed
<1> QED BY <1>1, <1>2 DEF Resolve, MdnsTypeOK, Names

LEMMA DaemonTyped ==
  ASSUME MdnsTypeOK, Daemon
  PROVE  MdnsTypeOK'
<1>1. ASSUME NEW s \in up, Resolve(Resolved(s.name, s.key, s.usable)) PROVE MdnsTypeOK'
  BY <1>1, ResolveTyped, EventsTyped DEF MdnsTypeOK
<1>2. ASSUME NEW n \in registered, Resolve(Resolved(n, "self", TRUE)) PROVE MdnsTypeOK'
  BY <1>2, ResolveTyped, EventsTyped DEF MdnsTypeOK, Names
<1>3. ASSUME NEW n \in PeerNames, Expire(n) PROVE MdnsTypeOK'
  <2>1. Removed(n) \in ServiceEvent
    BY EventsTyped DEF Names
  <2>2. browse' \in Seq(ServiceEvent)
    BY <1>3, <2>1, AppendProperties DEF Expire, MdnsTypeOK
  <2> QED BY <1>3, <2>2 DEF Expire, MdnsTypeOK
<1> QED BY <1>1, <1>2, <1>3 DEF Daemon

LEMMA MdnsTyped ==
  ASSUME StartTypeOK, MdnsTypeOK, MdnsStep \/ Daemon \/ Stop
  PROVE  MdnsTypeOK'
<1> USE DEF MdnsTypeOK, MdnsStages, peerVars
<1>1. CASE StartMdns BY <1>1 DEF StartMdns
<1>2. CASE Browse    BY <1>2 DEF Browse
<1>3. CASE CheckDone BY <1>3 DEF CheckDone, StartTypeOK
<1>4. CASE \E a \in Listen : RegisterService(a)
  <2>1. PICK a \in Listen : RegisterService(a)  BY <1>4
  <2>2. OwnName[a] \in OwnNames  BY DEF OwnNames
  <2> QED BY <2>1, <2>2 DEF RegisterService
<1>5. CASE StartListening BY <1>5 DEF StartListening
<1>6. CASE Listening BY <1>6, ListeningTyped DEF Listening
<1>7. CASE Close     BY <1>7 DEF Close, ShutDown, Unregister
<1>8. CASE Daemon    BY <1>8, DaemonTyped
<1>9. CASE Stop      BY <1>9 DEF Stop
<1> QED BY <1>1, <1>2, <1>3, <1>4, <1>5, <1>6, <1>7, <1>8, <1>9 DEF MdnsStep

LEMMA ResetTyped ==
  ASSUME MdnsTypeOK, Reset
  PROVE  MdnsTypeOK'
BY DEF Reset, MdnsTypeOK, MdnsStages

LEMMA StepTyped == StartInv /\ TypeOK /\ [Next]_vars => TypeOK'
<1> SUFFICES ASSUME StartInv, StartTypeOK, MdnsTypeOK, [Next]_vars
             PROVE  StartTypeOK' /\ MdnsTypeOK'
  BY DEF TypeOK
<1>1. CASE (Launch \/ Begin) /\ UNCHANGED mdnsVars
  BY <1>1, StartTyped DEF mdnsVars, MdnsTypeOK
<1>2. CASE Notify
  BY <1>2, StartTyped DEF Notify, MdnsTypeOK, MdnsStages, peerVars
<1>3. CASE Die /\ Reset
  BY <1>3, StartTyped, ResetTyped
<1>4. CASE MdnsStep \/ Daemon \/ Stop
  <2>1. UNCHANGED startVars
    BY <1>4 DEF MdnsStep, Daemon, Stop, StartMdns, Browse, CheckDone, RegisterService,
                StartListening, Listening, ServiceResolved, ServiceRemoved, NextEvent,
                Close, ShutDown, Unregister, Resolve, Expire
  <2> QED BY <1>4, <2>1, MdnsTyped DEF startVars, StartTypeOK
<1>5. CASE \E s \in Services : Appear(s) \/ Disappear(s)
  <2>1. up' \subseteq Services /\ UNCHANGED startVars
        /\ UNCHANGED <<mdns, advertised, services, registered, cache, browse, key_map, lan_peers>>
    BY <1>5 DEF Appear, Disappear, MdnsTypeOK
  <2> QED BY <2>1 DEF MdnsTypeOK, startVars, StartTypeOK
<1>6. CASE UNCHANGED vars
  BY <1>6 DEF vars, mdnsVars, startVars, MdnsTypeOK, StartTypeOK
<1> QED BY <1>1, <1>2, <1>3, <1>4, <1>5, <1>6 DEF Next

(* Every variable keeps the type the source declares.                      *)
THEOREM DiscoveryTyped == Spec => []TypeOK
<1>1. IInv => StartInv  BY DEF IInv
<1> QED BY <1>1, InitTyped, StepTyped, AlwaysIInv, PTL DEF Spec

-----------------------------------------------------------------------------
(* What is on the list was resolved and has not been removed.              *)
Positions == 1 .. Len(browse)
Resolution(i, n) == browse[i].kind = "ServiceResolved" /\ browse[i].name = n
Removal(i, n) == browse[i].kind = "ServiceRemoved" /\ browse[i].name = n
Known(n) == key_map[n] # NoPeer

(* A service is resolved again only after it was removed: between two      *)
(* resolutions that are ready, after the last one if the daemon does not   *)
(* have the service now, and before the first if the task knows it.        *)
RemovedBetween(n) ==
  \A i, j \in Positions :
    i < j /\ Resolution(i, n) /\ Resolution(j, n) =>
      \E h \in Positions : i < h /\ h < j /\ Removal(h, n)

RemovedAfter(n) ==
  n \notin cache => \A i \in Positions :
    Resolution(i, n) => \E h \in Positions : i < h /\ Removal(h, n)

RemovedBefore(n) ==
  Known(n) => \A i \in Positions :
    Resolution(i, n) => \E h \in Positions : h < i /\ Removal(h, n)

KnownCached(n) ==
  Known(n) /\ n \notin cache => \E h \in Positions : Removal(h, n)

InTurn(n) == RemovedBetween(n) /\ RemovedAfter(n) /\ RemovedBefore(n) /\ KnownCached(n)

ListEmpty == \A k \in PeerKeys \cup {"self"} : lan_peers[k] = NoService

ListInv ==
  /\ \A n \in Names : InTurn(n)
  /\ ListedIsKnown
  /\ mdns \notin {"listening", "closing", "done"} => ListEmpty

-----------------------------------------------------------------------------
(* The steps that leave the events, and what was made of them, alone.      *)
LEMMA QuietTurn ==
  ASSUME NEW n, InTurn(n), UNCHANGED <<browse, cache, key_map>>
  PROVE  InTurn(n)'
BY DEF InTurn, RemovedBetween, RemovedAfter, RemovedBefore, KnownCached, Known,
       Positions, Resolution, Removal

LEMMA ResolveTurn ==
  ASSUME MdnsTypeOK, NEW e \in ServiceEvent, Resolve(e), e.kind = "ServiceResolved",
         NEW n \in Names, InTurn(n)
  PROVE  InTurn(n)'
<1> DEFINE len == Len(browse)
<1>1. /\ len \in Nat /\ Len(browse') = len + 1
      /\ \A i \in 1 .. len : browse'[i] = browse[i]
      /\ browse'[len + 1] = e
      /\ e.name \notin cache /\ cache' = cache \cup {e.name} /\ key_map' = key_map
  BY AppendProperties, LenProperties DEF Resolve, MdnsTypeOK
<1>2. \A i \in 1 .. len + 1 : i \in 1 .. len \/ i = len + 1
  BY <1>1
<1>3. \A i \in 1 .. len : i \in 1 .. len + 1 /\ i < len + 1
  BY <1>1
<1> HIDE DEF len
<1> USE DEF InTurn, Positions, Resolution, Removal
<1>4. RemovedBetween(n)'
  <2> SUFFICES ASSUME NEW i \in 1 .. len + 1, NEW j \in 1 .. len + 1, i < j,
                      Resolution(i, n)', Resolution(j, n)'
               PROVE  \E h \in 1 .. len + 1 : i < h /\ h < j /\ Removal(h, n)'
    BY <1>1 DEF RemovedBetween
  <2>1. i \in 1 .. len
    BY <1>1
  <2>2. Resolution(i, n)
    BY <1>1, <2>1
  <2>3. CASE j \in 1 .. len
    <3>1. PICK h \in 1 .. len : i < h /\ h < j /\ Removal(h, n)
      BY <1>1, <2>1, <2>2, <2>3 DEF RemovedBetween, len
    <3> QED BY <1>1, <1>3, <3>1
  <2>4. CASE j = len + 1
    <3>1. n \notin cache
      BY <1>1, <2>4
    <3>2. PICK h \in 1 .. len : i < h /\ Removal(h, n)
      BY <2>1, <2>2, <3>1 DEF RemovedAfter, len
    <3> QED BY <1>1, <1>3, <2>4, <3>2
  <2> QED BY <1>2, <2>3, <2>4
<1>5. RemovedAfter(n)'
  <2> SUFFICES ASSUME n \notin cache', NEW i \in 1 .. len + 1, Resolution(i, n)'
               PROVE  \E h \in 1 .. len + 1 : i < h /\ Removal(h, n)'
    BY <1>1 DEF RemovedAfter
  <2>1. n # e.name /\ n \notin cache
    BY <1>1
  <2>2. i \in 1 .. len /\ Resolution(i, n)
    BY <1>1, <1>2, <2>1
  <2>3. PICK h \in 1 .. len : i < h /\ Removal(h, n)
    BY <2>1, <2>2 DEF RemovedAfter, len
  <2> QED BY <1>1, <1>3, <2>3
<1>6. RemovedBefore(n)'
  <2> SUFFICES ASSUME Known(n), NEW i \in 1 .. len + 1, Resolution(i, n)'
               PROVE  \E h \in 1 .. len + 1 : h < i /\ Removal(h, n)'
    BY <1>1 DEF RemovedBefore, Known
  <2>1. CASE i \in 1 .. len
    <3>1. PICK h \in 1 .. len : h < i /\ Removal(h, n)
      BY <1>1, <2>1 DEF RemovedBefore, len
    <3> QED BY <1>1, <1>3, <3>1
  <2>2. CASE i = len + 1
    <3>1. n \notin cache
      BY <1>1, <2>2
    <3>2. PICK h \in 1 .. len : Removal(h, n)
      BY <3>1 DEF KnownCached, len
    <3> QED BY <1>1, <1>3, <2>2, <3>2
  <2> QED BY <1>2, <2>1, <2>2
<1>7. KnownCached(n)'
  <2> SUFFICES ASSUME Known(n), n \notin cache'
               PROVE  \E h \in 1 .. len + 1 : Removal(h, n)'
    BY <1>1 DEF KnownCached, Known
  <2>1. PICK h \in 1 .. len : Removal(h, n)
    BY <1>1 DEF KnownCached, len
  <2> QED BY <1>1, <1>3, <2>1
<1> QED BY <1>4, <1>5, <1>6, <1>7 DEF InTurn

LEMMA ExpireTurn ==
  ASSUME MdnsTypeOK, NEW name \in Names, Expire(name), NEW n \in Names, InTurn(n)
  PROVE  InTurn(n)'
<1> DEFINE len == Len(browse)
           e == Removed(name)
<1>1. /\ len \in Nat /\ Len(browse') = len + 1
      /\ \A i \in 1 .. len : browse'[i] = browse[i]
      /\ browse'[len + 1] = e
      /\ e.kind = "ServiceRemoved" /\ e.name = name
      /\ cache' = cache \ {name} /\ key_map' = key_map
  <2>1. e \in ServiceEvent
    BY EventsTyped
  <2> QED BY <2>1, AppendProperties, LenProperties DEF Expire, MdnsTypeOK, Removed
<1>2. \A i \in 1 .. len + 1 : i \in 1 .. len \/ i = len + 1
  BY <1>1
<1>3. \A i \in 1 .. len : i \in 1 .. len + 1 /\ i < len + 1
  BY <1>1
<1>4. len + 1 \in 1 .. len + 1
  BY <1>1
<1> HIDE DEF len, e
<1> USE DEF InTurn, Positions, Resolution, Removal
<1>5. \A i \in 1 .. len + 1 : Resolution(i, n)' => i \in 1 .. len /\ Resolution(i, n)
  BY <1>1, <1>2
<1>6. RemovedBetween(n)'
  <2> SUFFICES ASSUME NEW i \in 1 .. len + 1, NEW j \in 1 .. len + 1, i < j,
                      Resolution(i, n)', Resolution(j, n)'
               PROVE  \E h \in 1 .. len + 1 : i < h /\ h < j /\ Removal(h, n)'
    BY <1>1 DEF RemovedBetween
  <2>1. i \in 1 .. len /\ j \in 1 .. len /\ Resolution(i, n) /\ Resolution(j, n)
    BY <1>5
  <2>2. PICK h \in 1 .. len : i < h /\ h < j /\ Removal(h, n)
    BY <2>1 DEF RemovedBetween, len
  <2> QED BY <1>1, <1>3, <2>2
<1>7. RemovedAfter(n)'
  <2> SUFFICES ASSUME n \notin cache', NEW i \in 1 .. len + 1, Resolution(i, n)'
               PROVE  \E h \in 1 .. len + 1 : i < h /\ Removal(h, n)'
    BY <1>1 DEF RemovedAfter
  <2>1. i \in 1 .. len /\ Resolution(i, n)
    BY <1>5
  <2>2. CASE n = name
    BY <1>1, <1>3, <1>4, <2>1, <2>2
  <2>3. CASE n # name
    <3>1. PICK h \in 1 .. len : i < h /\ Removal(h, n)
      BY <1>1, <2>1, <2>3 DEF RemovedAfter, len
    <3> QED BY <1>1, <1>3, <3>1
  <2> QED BY <2>2, <2>3
<1>8. RemovedBefore(n)'
  <2> SUFFICES ASSUME Known(n), NEW i \in 1 .. len + 1, Resolution(i, n)'
               PROVE  \E h \in 1 .. len + 1 : h < i /\ Removal(h, n)'
    BY <1>1 DEF RemovedBefore, Known
  <2>1. PICK h \in 1 .. len : h < i /\ Removal(h, n)
    BY <1>5 DEF RemovedBefore, len
  <2> QED BY <1>1, <1>3, <2>1
<1>9. KnownCached(n)'
  <2> SUFFICES ASSUME Known(n), n \notin cache'
               PROVE  \E h \in 1 .. len + 1 : Removal(h, n)'
    BY <1>1 DEF KnownCached, Known
  <2>1. CASE n = name
    BY <1>1, <1>4, <2>1
  <2>2. CASE n # name
    <3>1. PICK h \in 1 .. len : Removal(h, n)
      BY <1>1, <2>2 DEF KnownCached, len
    <3> QED BY <1>1, <1>3, <3>1
  <2> QED BY <2>1, <2>2
<1> QED BY <1>6, <1>7, <1>8, <1>9 DEF InTurn

(* An event is taken: if it is the resolution of a service, the service    *)
(* was not known before; if it is a removal, it is not known after.        *)
LEMMA TakeTurn ==
  ASSUME MdnsTypeOK, NEW e, NextEvent(e), NEW n \in Names, InTurn(n),
         e.kind \in {"ServiceResolved", "ServiceRemoved"},
         e.name = n /\ e.kind = "ServiceRemoved" => ~Known(n)',
         e.name # n => UNCHANGED key_map[n]
  PROVE  InTurn(n)' /\ (e.name = n /\ e.kind = "ServiceResolved" => ~Known(n))
<1> DEFINE len == Len(browse)
<1>1. /\ len \in Nat /\ len >= 1 /\ Len(browse') = len - 1
      /\ \A i \in 1 .. len - 1 : browse'[i] = browse[i + 1]
      /\ browse[1] = e
      /\ cache' = cache
  <2>1. /\ browse \in Seq(ServiceEvent) /\ browse # <<>>
        /\ e = Head(browse) /\ browse' = Tail(browse) /\ cache' = cache
    BY TakeTyped DEF NextEvent
  <2> QED BY <2>1, HeadTailProperties, EmptySeq, LenProperties
<1>2. \A i \in 1 .. len - 1 : i + 1 \in 1 .. len /\ 1 < i + 1
  BY <1>1
<1>3. \A h \in 1 .. len : 1 < h => h - 1 \in 1 .. len - 1 /\ (h - 1) + 1 = h
  BY <1>1
<1>4. 1 \in 1 .. len
  BY <1>1
<1> HIDE DEF len
<1> USE DEF InTurn, Positions, Resolution, Removal
<1>5. e.name = n /\ e.kind = "ServiceResolved" => ~Known(n)
  <2> SUFFICES ASSUME e.name = n, e.kind = "ServiceResolved", Known(n) PROVE FALSE
    OBVIOUS
  <2>1. Resolution(1, n)
    BY <1>1
  <2>2. PICK h \in 1 .. len : h < 1
    BY <1>4, <2>1 DEF RemovedBefore, len
  <2> QED BY <1>1, <2>2
<1>6. RemovedBetween(n)'
  <2>0. Positions' = 1 .. len - 1
    BY <1>1
  <2> HIDE DEF Positions, Resolution, Removal
  <2> SUFFICES ASSUME NEW i \in Positions', NEW j \in Positions', i < j,
                      Resolution(i, n)', Resolution(j, n)'
               PROVE  \E h \in Positions' : i < h /\ h < j /\ Removal(h, n)'
    BY DEF RemovedBetween, Resolution, Removal
  <2> SUFFICES \E h \in 1 .. len - 1 : i < h /\ h < j /\ Removal(h, n)'
    BY <2>0
  <2> USE DEF Positions, Resolution, Removal
  <2>1. Resolution(i + 1, n) /\ Resolution(j + 1, n) /\ i + 1 < j + 1
        /\ i \in 1 .. len - 1 /\ j \in 1 .. len - 1
    BY <1>1, <2>0
  <2>2. PICK h \in 1 .. len : i + 1 < h /\ h < j + 1 /\ Removal(h, n)
    BY <1>2, <2>1 DEF RemovedBetween, len
  <2>3. h - 1 \in 1 .. len - 1 /\ (h - 1) + 1 = h /\ i < h - 1 /\ h - 1 < j
    BY <1>1, <2>2
  <2> QED BY <1>1, <2>2, <2>3
<1>7. RemovedAfter(n)'
  <2> SUFFICES ASSUME n \notin cache, NEW i \in 1 .. len - 1, Resolution(i, n)'
               PROVE  \E h \in 1 .. len - 1 : i < h /\ Removal(h, n)'
    BY <1>1 DEF RemovedAfter
  <2>1. Resolution(i + 1, n)
    BY <1>1
  <2>2. PICK h \in 1 .. len : i + 1 < h /\ Removal(h, n)
    BY <1>2, <2>1 DEF RemovedAfter, len
  <2>3. h - 1 \in 1 .. len - 1 /\ (h - 1) + 1 = h /\ i < h - 1
    BY <1>1, <2>2
  <2> QED BY <1>1, <2>2, <2>3
<1>8. RemovedBefore(n)'
  <2> SUFFICES ASSUME Known(n)', NEW i \in 1 .. len - 1, Resolution(i, n)'
               PROVE  \E h \in 1 .. len - 1 : h < i /\ Removal(h, n)'
    BY <1>1 DEF RemovedBefore
  <2>1. Resolution(i + 1, n) /\ 1 < i + 1
    BY <1>1
  <2>2. PICK h \in 1 .. len : 1 < h /\ h < i + 1 /\ Removal(h, n)
    <3>1. CASE e.name = n
      <4>1. Resolution(1, n)
        BY <1>1, <3>1
      <4> QED BY <1>2, <1>4, <2>1, <4>1 DEF RemovedBetween, len
    <3>2. CASE e.name # n
      <4>1. Known(n)
        BY <3>2 DEF Known
      <4>2. PICK h \in 1 .. len : h < i + 1 /\ Removal(h, n)
        BY <1>2, <2>1, <4>1 DEF RemovedBefore, len
      <4>3. h # 1
        BY <1>1, <3>2, <4>2
      <4> QED BY <4>2, <4>3
    <3> QED BY <3>1, <3>2
  <2>3. h - 1 \in 1 .. len - 1 /\ (h - 1) + 1 = h /\ h - 1 < i
    BY <1>1, <2>2
  <2> QED BY <1>1, <2>2, <2>3
<1>9. KnownCached(n)'
  <2> SUFFICES ASSUME Known(n)', n \notin cache
               PROVE  \E h \in 1 .. len - 1 : Removal(h, n)'
    BY <1>1 DEF KnownCached
  <2>1. PICK h \in 1 .. len : 1 < h /\ Removal(h, n)
    <3>1. CASE e.name = n
      <4>1. Resolution(1, n)
        BY <1>1, <3>1
      <4> QED BY <1>4, <4>1 DEF RemovedAfter, len
    <3>2. CASE e.name # n
      <4>1. PICK h \in 1 .. len : Removal(h, n)
        BY <3>2 DEF KnownCached, Known, len
      <4>2. h # 1
        BY <1>1, <3>2, <4>1
      <4> QED BY <4>1, <4>2
    <3> QED BY <3>1, <3>2
  <2> QED BY <1>1, <1>3, <2>1
<1> QED BY <1>5, <1>6, <1>7, <1>8, <1>9 DEF InTurn

LEMMA DaemonTurn ==
  ASSUME MdnsTypeOK, \A n \in Names : InTurn(n), Daemon
  PROVE  \A n \in Names : InTurn(n)'
<1>1. ASSUME NEW s \in up, Resolve(Resolved(s.name, s.key, s.usable)), NEW n \in Names
      PROVE  InTurn(n)'
  <2>1. Resolved(s.name, s.key, s.usable) \in ServiceEvent
    BY EventsTyped DEF MdnsTypeOK
  <2>2. Resolved(s.name, s.key, s.usable).kind = "ServiceResolved"
    BY DEF Resolved
  <2> QED BY <1>1, <2>1, <2>2, ResolveTurn
<1>2. ASSUME NEW a \in registered, Resolve(Resolved(a, "self", TRUE)), NEW n \in Names
      PROVE  InTurn(n)'
  <2>1. Resolved(a, "self", TRUE) \in ServiceEvent
    BY EventsTyped DEF MdnsTypeOK, Names
  <2>2. Resolved(a, "self", TRUE).kind = "ServiceResolved"
    BY DEF Resolved
  <2> QED BY <1>2, <2>1, <2>2, ResolveTurn
<1>3. ASSUME NEW name \in PeerNames, Expire(name), NEW n \in Names
      PROVE  InTurn(n)'
  BY <1>3, ExpireTurn DEF Names
<1> QED BY <1>1, <1>2, <1>3 DEF Daemon

(* A name on the list is known under the key it is listed with; one that   *)
(* was not known is on the list with no key.                               *)
LEMMA ListeningKeeps ==
  ASSUME MdnsTypeOK, ListInv, NEW e, ServiceResolved(e) \/ ServiceRemoved(e)
  PROVE  ListInv'
<1>1. NextEvent(e) /\ e.kind \in {"ServiceResolved", "ServiceRemoved"}
  BY DEF ServiceResolved, ServiceRemoved
<1>2. /\ e.name \in Names
      /\ e.kind = "ServiceResolved" => e.key \in PeerKeys \cup {"self"}
  BY <1>1, TakeTyped
<1>3. mdns' = "listening" /\ UNCHANGED services
  BY <1>1 DEF NextEvent
<1>4. /\ key_map \in [Names -> PeerKeys \cup {NoPeer, "self"}]
      /\ lan_peers \in [PeerKeys \cup {"self"} -> Names \cup {NoService}]
  BY DEF MdnsTypeOK
<1>5. /\ e.kind = "ServiceRemoved" => ~Known(e.name)'
      /\ \A n \in Names : e.name # n => UNCHANGED key_map[n]
  BY <1>2, <1>4 DEF ServiceResolved, ServiceRemoved, Known
<1>6. \A n \in Names : InTurn(n)' /\ (e.name = n /\ e.kind = "ServiceResolved" => ~Known(n))
  <2> SUFFICES ASSUME NEW n \in Names
               PROVE  InTurn(n)' /\ (e.name = n /\ e.kind = "ServiceResolved" => ~Known(n))
    OBVIOUS
  <2>1. e.name = n /\ e.kind = "ServiceRemoved" => ~Known(n)'
    BY <1>5 DEF Known
  <2> QED BY <1>1, <1>5, <2>1, TakeTurn DEF ListInv
<1>7. \A k \in PeerKeys \cup {"self"} : k # NoPeer
  BY ServiceAssumption DEF PeerKeys, NoPeer
<1>8. ListedIsKnown'
  <2> SUFFICES ASSUME NEW k \in PeerKeys \cup {"self"}, lan_peers'[k] # NoService
               PROVE  key_map'[lan_peers'[k]] = k /\ lan_peers'[k] \notin services
    BY <1>3 DEF ListedIsKnown
  <2>1. lan_peers[k] # NoService =>
          lan_peers[k] \in Names /\ key_map[lan_peers[k]] = k /\ lan_peers[k] \notin services
    BY <1>4 DEF ListInv, ListedIsKnown
  <2>2. CASE ServiceResolved(e)
    <3>1. ~Known(e.name)
      BY <1>2, <1>6, <2>2 DEF ServiceResolved
    <3>2. CASE lan_peers'[k] = lan_peers[k]
      <4>1. e.name # lan_peers[k]
        BY <1>7, <2>1, <3>1, <3>2 DEF Known
      <4> QED BY <1>5, <2>1, <3>2, <4>1
    <3>3. CASE lan_peers'[k] # lan_peers[k]
      <4>1. /\ e.name \notin services /\ e.usable /\ k = e.key
            /\ lan_peers'[k] = e.name /\ key_map'[e.name] = e.key
        BY <1>2, <1>4, <2>2, <3>3 DEF ServiceResolved
      <4> QED BY <4>1
    <3> QED BY <3>2, <3>3
  <2>3. CASE ServiceRemoved(e)
    <3>1. lan_peers'[k] = lan_peers[k] /\ k # key_map[e.name]
      BY <1>2, <1>4, <1>7, <2>3 DEF ServiceRemoved
    <3>2. e.name # lan_peers[k]
      BY <2>1, <3>1
    <3> QED BY <1>5, <2>1, <3>1, <3>2
  <2> QED BY <2>2, <2>3
<1> QED BY <1>3, <1>6, <1>8 DEF ListInv

LEMMA InitList == Init => ListInv
<1> SUFFICES ASSUME Init PROVE ListInv
  OBVIOUS
<1>1. ListEmpty /\ mdns = "off"
  BY DEF Init, MdnsInit, ListEmpty
<1>2. ListedIsKnown
  BY <1>1 DEF ListEmpty, ListedIsKnown
<1>3. Len(browse) = 0 /\ \A n \in Names : ~Known(n)
  BY DEF Init, MdnsInit, Known
<1>4. \A n \in Names : InTurn(n)
  BY <1>3 DEF InTurn, RemovedBetween, RemovedAfter, RemovedBefore, KnownCached, Positions
<1> QED BY <1>1, <1>2, <1>4 DEF ListInv

(* What touches neither the events nor the list, and registers a service   *)
(* of the node's own only while the list is empty, keeps it as it is.      *)
LEMMA QuietList ==
  ASSUME ListInv, UNCHANGED <<browse, cache, key_map, lan_peers>>,
         services' \subseteq services \/ ListEmpty,
         mdns' \notin {"listening", "closing", "done"} => mdns \notin {"listening", "closing", "done"}
  PROVE  ListInv'
<1>1. \A n \in Names : InTurn(n)'
  BY QuietTurn DEF ListInv
<1>2. ListedIsKnown'
  BY DEF ListInv, ListedIsKnown, ListEmpty
<1> QED BY <1>1, <1>2 DEF ListInv, ListEmpty

LEMMA StepList == TypeOK /\ ListInv /\ [Next]_vars => ListInv'
<1> SUFFICES ASSUME MdnsTypeOK, ListInv, [Next]_vars PROVE ListInv'
  BY DEF TypeOK
<1>1. CASE (Launch \/ Begin) /\ UNCHANGED mdnsVars
  BY <1>1, QuietList DEF mdnsVars
<1>2. CASE Notify
  BY <1>2, QuietList DEF Notify, peerVars
<1>3. CASE Die /\ Reset
  <2>1. Len(browse') = 0 /\ (\A n \in Names : ~Known(n)') /\ ListEmpty' /\ mdns' = "off"
    BY <1>3 DEF Reset, Known, ListEmpty
  <2>2. \A n \in Names : InTurn(n)'
    BY <2>1 DEF InTurn, RemovedBetween, RemovedAfter, RemovedBefore, KnownCached, Positions, Known
  <2>3. ListedIsKnown'
    BY <2>1 DEF ListEmpty, ListedIsKnown
  <2> QED BY <2>1, <2>2, <2>3 DEF ListInv
<1>4. CASE MdnsStep \/ Daemon \/ Stop
  <2> USE DEF peerVars
  <2>1. CASE StartMdns BY <2>1, QuietList DEF StartMdns
  <2>2. CASE Browse    BY <2>2, QuietList DEF Browse
  <2>3. CASE CheckDone BY <2>3, QuietList DEF CheckDone
  <2>4. CASE \E a \in Listen : RegisterService(a)
    <3>1. mdns = "registering" /\ UNCHANGED peerVars
      BY <2>4 DEF RegisterService
    <3>2. ListEmpty
      BY <3>1 DEF ListInv
    <3> QED BY <3>1, <3>2, QuietList
  <2>5. CASE StartListening BY <2>5, QuietList DEF StartListening
  <2>6. CASE Listening BY <2>6, ListeningKeeps DEF Listening
  <2>7. CASE Close     BY <2>7, QuietList DEF Close, ShutDown, Unregister
  <2>8. CASE Daemon
    <3>1. \A n \in Names : InTurn(n)'
      BY <2>8, DaemonTurn DEF ListInv
    <3>2. UNCHANGED <<mdns, services, key_map, lan_peers>>
      BY <2>8 DEF Daemon, Resolve, Expire
    <3> QED BY <3>1, <3>2 DEF ListInv, ListedIsKnown, ListEmpty
  <2>9. CASE Stop      BY <2>9, QuietList DEF Stop
  <2> QED BY <1>4, <2>1, <2>2, <2>3, <2>4, <2>5, <2>6, <2>7, <2>8, <2>9 DEF MdnsStep
<1>5. CASE \E s \in Services : Appear(s) \/ Disappear(s)
  <2>1. UNCHANGED <<mdns, services, browse, cache, key_map, lan_peers>>
    BY <1>5 DEF Appear, Disappear
  <2> QED BY <2>1, QuietList
<1>6. CASE UNCHANGED vars
  BY <1>6, QuietList DEF vars, mdnsVars
<1> QED BY <1>1, <1>2, <1>3, <1>4, <1>5, <1>6 DEF Next

(* The list of peers holds no service that is known to be gone, and not    *)
(* the node itself, whatever comes and goes around it (net.rs:340-396).    *)
THEOREM ListKnown == Spec => []ListedIsKnown
<1>1. ListInv => ListedIsKnown  BY DEF ListInv
<1> QED BY <1>1, InitList, StepList, DiscoveryTyped, PTL DEF Spec
=============================================================================
