------------------------------ MODULE Discovery -----------------------------
(***************************************************************************)
(* mdns_coroutine and manage_mdns (native/net.rs): the task that waits for *)
(* the bound addresses, registers a service for each, and keeps the list   *)
(* of the nodes it hears of. It runs next to manager_loop (Startup).       *)
(***************************************************************************)
EXTENDS Startup, Sequences

CONSTANTS
  Services,     \* the services other nodes may announce: [name, key, usable]
  OwnName,      \* the full name of the service of a listen address
  NoService,    \* the name of no service
  MaxBrowse     \* bound on the events the daemon has ready

NoPeer == "nobody"

ASSUME ServiceAssumption ==
  \A s \in Services :
    /\ s.key # NoPeer
    /\ s.usable \in BOOLEAN
    /\ \A a \in Listen : s.name # OwnName[a] /\ s.name # NoService

ASSUME BrowseAssumption == MaxBrowse \in Nat

VARIABLES
  mdns,         \* where the mdns task stands
  advertised,   \* the key its services are registered under
  services,     \* the names it has registered, to be unregistered
  registered,   \* the names the daemon announces
  up,           \* the services other nodes announce now
  cache,        \* the services the daemon has resolved
  browse,       \* its ServiceEvents, oldest first
  key_map,      \* the key last seen under a service name
  lan_peers     \* MdnsState.lan_peers: the service a listed key was seen with

mdnsVars == <<mdns, advertised, services, registered, up, cache, browse,
              key_map, lan_peers>>
vars == <<startVars, mdnsVars>>

PeerKeys == {s.key : s \in Services}
OwnNames == {OwnName[a] : a \in Listen}
PeerNames == {s.name : s \in Services}
Names == PeerNames \cup OwnNames

Resolved(name, key, usable) ==
  [kind |-> "ServiceResolved", name |-> name, key |-> key, usable |-> usable]
Removed(name) ==
  [kind |-> "ServiceRemoved", name |-> name, key |-> NoPeer, usable |-> FALSE]

ServiceEvent ==
  {Resolved(n, k, u) : n \in Names, k \in PeerKeys \cup {"self"}, u \in BOOLEAN}
    \cup {Removed(n) : n \in Names}

MdnsStages ==
  {"off", "browsing", "checking", "asleep", "registering", "listening", "closing", "done"}

MdnsTypeOK ==
  /\ mdns \in MdnsStages
  /\ advertised \in Keys \cup {NoKey}
  /\ services \subseteq OwnNames
  /\ registered \subseteq OwnNames
  /\ up \subseteq Services
  /\ cache \subseteq Names
  /\ browse \in Seq(ServiceEvent)
  /\ key_map \in [Names -> PeerKeys \cup {NoPeer, "self"}]
  /\ lan_peers \in [PeerKeys \cup {"self"} -> Names \cup {NoService}]

MdnsInit ==
  /\ mdns = "off"
  /\ advertised = NoKey
  /\ services = {} /\ registered = {}
  /\ up = {} /\ cache = {}
  /\ browse = <<>>
  /\ key_map = [n \in Names |-> NoPeer]
  /\ lan_peers = [k \in PeerKeys \cup {"self"} |-> NoService]

Init == StartInit /\ MdnsInit

Reset ==
  /\ mdns' = "off"
  /\ advertised' = NoKey
  /\ services' = {} /\ registered' = {}
  /\ cache' = {} /\ browse' = <<>>
  /\ key_map' = [n \in Names |-> NoPeer]
  /\ lan_peers' = [k \in PeerKeys \cup {"self"} |-> NoService]
  /\ UNCHANGED up

peerVars == <<up, cache, browse, key_map, lan_peers>>

-----------------------------------------------------------------------------
(* The daemon is started, or cannot be.                                    *)
StartMdns ==
  /\ stage \notin {"off", "reading"}
  /\ mdns = "off"
  /\ mdns' \in {"browsing", "done"}
  /\ UNCHANGED <<advertised, services, registered, peerVars, startVars>>

(* Interfaces, browse and monitor: any `?` ends manage_mdns.               *)
Browse ==
  /\ mdns = "browsing"
  /\ mdns' \in {"checking", "closing"}
  /\ UNCHANGED <<advertised, services, registered, peerVars, startVars>>

(* wait_while, and the read of self_key after it.                          *)
CheckDone ==
  /\ mdns = "checking"
  /\ mdns' = IF done_binding THEN "registering" ELSE "asleep"
  /\ advertised' = IF done_binding THEN self_key ELSE advertised
  /\ UNCHANGED <<services, registered, peerVars, startVars>>

(* Mutant of Notify: the flag is set and nobody woken.                     *)
NotifyNobody == SignalDone /\ UNCHANGED mdnsVars

Notify ==
  /\ SignalDone
  /\ mdns' = IF mdns = "asleep" THEN "checking" ELSE mdns
  /\ UNCHANGED <<advertised, services, registered, peerVars>>

(* register_service for the next address. An error ends manage_mdns, and   *)
(* the names registered so far are lost with its result.                   *)
RegisterService(a) ==
  /\ mdns = "registering"
  /\ a \in bound_addresses
  /\ OwnName[a] \notin services
  /\ \/ /\ services' = services \cup {OwnName[a]}
        /\ registered' = registered \cup {OwnName[a]}
        /\ UNCHANGED mdns
     \/ /\ services' = {}
        /\ mdns' = "closing"
        /\ UNCHANGED registered
  /\ UNCHANGED <<advertised, peerVars, startVars>>

StartListening ==
  /\ mdns = "registering"
  /\ \A a \in bound_addresses : OwnName[a] \in services
  /\ mdns' = "listening"
  /\ UNCHANGED <<advertised, services, registered, peerVars, startVars>>

-----------------------------------------------------------------------------
(* Other nodes come and go; the daemon notices one and the other when it   *)
(* does. It browses for our own services too.                              *)
Appear(s) ==
  /\ s \notin up
  /\ \A t \in up : t.name # s.name
  /\ up' = up \cup {s}
  /\ UNCHANGED <<mdns, advertised, services, registered, cache, browse, key_map,
                 lan_peers, startVars>>

Disappear(s) ==
  /\ s \in up
  /\ up' = up \ {s}
  /\ UNCHANGED <<mdns, advertised, services, registered, cache, browse, key_map,
                 lan_peers, startVars>>

Browsing == Len(browse) < MaxBrowse /\ mdns \notin {"off", "browsing", "closing", "done"}

Resolve(e) ==
  /\ Browsing
  /\ e.name \notin cache
  /\ cache' = cache \cup {e.name}
  /\ browse' = Append(browse, e)
  /\ UNCHANGED <<mdns, advertised, services, registered, up, key_map, lan_peers,
                 startVars>>

Expire(name) ==
  /\ Browsing
  /\ name \in cache
  /\ name \notin registered
  /\ \A s \in up : s.name # name
  /\ cache' = cache \ {name}
  /\ browse' = Append(browse, Removed(name))
  /\ UNCHANGED <<mdns, advertised, services, registered, up, key_map, lan_peers,
                 startVars>>

Daemon ==
  \/ \E s \in up : Resolve(Resolved(s.name, s.key, s.usable))
  \/ \E name \in registered : Resolve(Resolved(name, "self", TRUE))
  \/ \E name \in PeerNames : Expire(name)

-----------------------------------------------------------------------------
NextEvent(e) ==
  /\ mdns = "listening"
  /\ browse # <<>>
  /\ e = Head(browse)
  /\ browse' = Tail(browse)
  /\ UNCHANGED <<mdns, advertised, services, registered, up, cache, startVars>>

(* A service with an address and a key is listed, unless it is ours; if    *)
(* its key is on the list already, merge does nothing.                     *)
ServiceResolved(e) ==
  LET listed == e.name \notin services /\ e.usable
  IN /\ NextEvent(e)
     /\ e.kind = "ServiceResolved"
     /\ key_map' = [key_map EXCEPT ![e.name] = IF listed THEN e.key ELSE @]
     /\ lan_peers' = IF listed /\ lan_peers[e.key] = NoService
                     THEN [lan_peers EXCEPT ![e.key] = e.name] ELSE lan_peers

(* Mutant of ServiceRemoved: the peer stays on the list.                   *)
RemovedKeeps(e) ==
  /\ NextEvent(e)
  /\ e.kind = "ServiceRemoved"
  /\ key_map' = [key_map EXCEPT ![e.name] = NoPeer]
  /\ UNCHANGED lan_peers

ServiceRemoved(e) ==
  LET k == key_map[e.name]
  IN /\ NextEvent(e)
     /\ e.kind = "ServiceRemoved"
     /\ key_map' = [key_map EXCEPT ![e.name] = NoPeer]
     /\ lan_peers' = IF k = NoPeer THEN lan_peers
                     ELSE [lan_peers EXCEPT ![k] = NoService]

Listening == browse # <<>> /\ (ServiceResolved(Head(browse)) \/ ServiceRemoved(Head(browse)))

(* MdnsCommand::Stop, or the coroutine's handle is dropped.                *)
Stop ==
  /\ mdns = "listening"
  /\ mdns' = "closing"
  /\ UNCHANGED <<advertised, services, registered, peerVars, startVars>>

(* unregister for each name, and the wait for the answer; a name whose     *)
(* unregistering fails is given up.                                        *)
Unregister(name) ==
  /\ mdns = "closing"
  /\ name \in services
  /\ services' = services \ {name}
  /\ registered' \in {registered, registered \ {name}}
  /\ UNCHANGED <<mdns, advertised, peerVars, startVars>>

(* Mutant of ShutDown: a name that is not unregistered is waited for.  *)
ShutDownWaits ==
  /\ mdns = "closing"
  /\ services = {} /\ registered = {}
  /\ mdns' = "done"
  /\ UNCHANGED <<advertised, services, registered, peerVars, startVars>>

(* mdns.shutdown() until it is not asked to try again.                     *)
ShutDown ==
  /\ mdns = "closing"
  /\ services = {}
  /\ mdns' = "done"
  /\ UNCHANGED <<advertised, services, registered, peerVars, startVars>>

-----------------------------------------------------------------------------
Close == ShutDown \/ \E name \in OwnNames : Unregister(name)

MdnsStep ==
  \/ StartMdns \/ Browse \/ CheckDone \/ StartListening \/ Listening \/ Close
  \/ \E a \in Listen : RegisterService(a)

Next ==
  \/ (Launch \/ Begin) /\ UNCHANGED mdnsVars
  \/ Notify
  \/ Die /\ Reset
  \/ MdnsStep \/ Daemon \/ Stop
  \/ \E s \in Services : Appear(s) \/ Disappear(s)

Spec == Init /\ [][Next]_vars

(* manager_loop and the mdns task go on while they can, and the daemon     *)
(* answers what it is asked. Nothing else has to happen.                   *)
Fairness ==
  /\ WF_vars(Begin /\ UNCHANGED mdnsVars)
  /\ WF_vars(Notify)
  /\ WF_vars(MdnsStep)

FairSpec == Spec /\ Fairness

-----------------------------------------------------------------------------
(* Every variable keeps the type the source declares.                      *)
TypeOK == StartTypeOK /\ MdnsTypeOK

(* A node never runs under a key it would not find again: whatever the     *)
(* moment the process dies, the key it has used is the one in the file.    *)
IdentityOnDisk == self_key # NoKey => key_file = self_key

(* A node keeps its key for life: once there is one in the file, no launch *)
(* writes another, or leaves the file without one.                         *)
KeyForLife == [][(key_file \in Keys) => key_file' = key_file]_vars

(* The mdns task reads what manager_loop shares only once it is all there: *)
(* it announces every bound address, under the node's key.                 *)
AnnouncesAll ==
  mdns = "listening" =>
    advertised = self_key /\ self_key # NoKey
      /\ services = {OwnName[a] : a \in listeners}

(* The node is not on its own list of peers, and every peer on it was      *)
(* resolved under the name it is listed with, which has not been removed.  *)
ListedIsKnown ==
  \A k \in PeerKeys \cup {"self"} :
    lan_peers[k] # NoService => key_map[lan_peers[k]] = k /\ lan_peers[k] \notin services

(* Once started, the mdns task comes to listen or ends, as long as         *)
(* manager_loop does not fail and the process lives.                       *)
MdnsSettles ==
  (mdns # "off") ~> (mdns \in {"listening", "done", "off"} \/ stage = "failed")

(* Once told to stop it unregisters its services and shuts down.           *)
StopEnds == (mdns = "closing") ~> (mdns \in {"done", "off"})

-----------------------------------------------------------------------------
(* "service removed" (net.rs:384): a peer is off the list when its service *)
(* is gone, and not while another of its services is there.                *)
KnownIsListed ==
  \A name \in PeerNames : key_map[name] # NoPeer => lan_peers[key_map[name]] # NoService
=============================================================================
