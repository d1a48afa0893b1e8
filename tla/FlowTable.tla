------------------------------- MODULE FlowTable -------------------------------
(***************************************************************************)
(* RFClient's FlowTable (rfclient/FlowTable.cc): how the kernel's routes and *)
(* neighbours become RouteMods.  Three threads share it:                    *)
(*   nl   NLListener runs updateHostTable and updateRouteTable on netlink   *)
(*        events;                                                           *)
(*   gw   GWResolver drains pendingRoutes and retries unresolvedRoutes;     *)
(*   ipc  RFClient::process activates and deactivates interfaces.           *)
(* An entry carries a copy of its Interface taken when the event arrived:   *)
(* "up" is the active flag of that copy, which no later change reaches.     *)
(* MAC addresses are represented by the host they belong to.                *)
(***************************************************************************)
EXTENDS Naturals, Sequences

CONSTANTS
    Ports, Ifaces,  \* vm_ports, and interfaces (VLANs share a port)
    PortOf,         \* port of each interface
    Dsts, Hosts,    \* destination prefixes, neighbours (the gateways)
    IfOf,           \* interface each neighbour is reached through
    None,
    InitialUp,      \* interfaces that are active when routes start to arrive
    MultiPath,      \* may the kernel have two routes to one prefix?
    MaxRoutes,      \* bound: routes added by the kernel
    MaxChanges,     \* bound: routes whose gateway the kernel changes
    MaxLosses,      \* bound: neighbours that fail or are forgotten
    MaxPortConfigs  \* bound: PortConfig messages

VARIABLES
    active,             \* interfaces with ifacesMap[..].active
    rt_cache, ht_cache, \* libnl's caches of the kernel's routes and neighbours
    pendingRoutes,      \* SyncQueue<PendingRoute>
    routeTable,         \* RouteEntry of each prefix, or None
    unresolvedRoutes, hostTable, pendingNeighbours,
    cached_rm,          \* RouteMods kept for each interface that was down
    rules,              \* what the RouteMods pushed on rm_q so far install
    everUp,             \* interfaces that have been active
    nl, gw, ipc,        \* control point and local variables of the threads
    routes, changes, losses, configs    \* how often the bounded events happened

kernel == <<rt_cache, ht_cache, routes, changes, losses>>
ports == <<active, everUp, ipc, configs>>
resolver == <<routeTable, unresolvedRoutes, gw>>
vars == <<kernel, ports, resolver, pendingRoutes, hostTable, pendingNeighbours, cached_rm, rules, nl>>

Route == [dst : Dsts, gw : Hosts]
RouteEntry == [dst : Dsts, gw : Hosts, up : BOOLEAN]
RouteMod == [mod : {"RMT_ADD", "RMT_DELETE"}, dst : Dsts \cup Hosts, gw : Hosts]

ASSUME FlowTableAssumption ==
    /\ PortOf \in [Ifaces -> Ports] /\ IfOf \in [Hosts -> Ifaces]
    /\ InitialUp \subseteq Ifaces /\ MultiPath \in BOOLEAN
    /\ Dsts \cap Hosts = {} /\ None \notin RouteEntry \cup Hosts
    /\ {MaxRoutes, MaxChanges, MaxLosses, MaxPortConfigs} \subseteq Nat

------------------------------------------------------------------------------
(* sendToHw: a RouteMod for an interface copy that is down is kept.          *)

\* Effect of a RouteMod on the rules of the datapath: one per destination.
sendRm(mod, dst, g) ==
    LET others == {r \in rules : r.dst # dst}
    IN  rules' = IF mod = "RMT_ADD" THEN others \cup {[dst |-> dst, gw |-> g]} ELSE others

\* Mutant: the state of the interface is not looked at.
sendToHw_any_port(mod, dst, g, up) == sendRm(mod, dst, g) /\ UNCHANGED cached_rm

sendToHw(mod, dst, g, up) ==
    \/ /\ ~up
       /\ cached_rm' = [cached_rm EXCEPT ![IfOf[g]] =
                          Append(@, [mod |-> mod, dst |-> dst, gw |-> g])]
       /\ UNCHANGED rules
    \/ /\ up
       /\ sendRm(mod, dst, g)
       /\ UNCHANGED cached_rm

\* The overload for routes needs the MAC address of the gateway.
sendRouteToHw(mod, re) ==
    IF re.gw \in hostTable THEN sendToHw(mod, re.dst, re.gw, re.up)
                           ELSE UNCHANGED <<cached_rm, rules>>

\* findInterface takes ifMutex, which process holds during a PortConfig.
ifMutexFree == ipc.pc = "idle"

------------------------------------------------------------------------------
(* NLListener: routes.                                                      *)

pushRoute(type, r) ==
    pendingRoutes' = Append(pendingRoutes,
        [type |-> type, re |-> [dst |-> r.dst, gw |-> r.gw, up |-> IfOf[r.gw] \in active]])

updateRouteTable_NEW(r) ==
    /\ nl.pc = "idle" /\ ifMutexFree /\ routes < MaxRoutes
    /\ r \notin rt_cache /\ (MultiPath \/ \A s \in rt_cache : s.dst # r.dst)
    /\ rt_cache' = rt_cache \cup {r} /\ routes' = routes + 1
    /\ pushRoute("RMT_ADD", r)
    /\ UNCHANGED <<ht_cache, changes, losses, ports, resolver, hostTable, pendingNeighbours,
                   cached_rm, rules, nl>>

updateRouteTable_DEL(r) ==
    /\ nl.pc = "idle" /\ ifMutexFree
    /\ r \in rt_cache
    /\ rt_cache' = rt_cache \ {r}
    /\ pushRoute("RMT_DELETE", r)
    /\ UNCHANGED <<ht_cache, routes, changes, losses, ports, resolver, hostTable,
                   pendingNeighbours, cached_rm, rules, nl>>

\* The kernel gives a route another gateway: one NL_ACT_CHANGE, ignored.
updateRouteTable_CHANGE(r, g) ==
    /\ nl.pc = "idle" /\ changes < MaxChanges
    /\ r \in rt_cache /\ [r EXCEPT !.gw = g] \notin rt_cache
    /\ rt_cache' = (rt_cache \ {r}) \cup {[r EXCEPT !.gw = g]}
    /\ changes' = changes + 1
    /\ UNCHANGED <<ht_cache, routes, losses, ports, resolver, pendingRoutes, hostTable,
                   pendingNeighbours, cached_rm, rules, nl>>

(* NLListener: neighbours.                                                  *)

\* Only a new cache entry in a NUD_VALID state goes further: an entry that
\* becomes valid after a failure is an NL_ACT_CHANGE.
updateHostTable(h) ==
    /\ nl.pc = "idle" /\ ht_cache[h] # "valid"
    /\ ht_cache' = [ht_cache EXCEPT ![h] = "valid"]
    /\ IF ht_cache[h] = "none"
       THEN ifMutexFree /\ nl' = [pc |-> "send", host |-> h, up |-> IfOf[h] \in active]
       ELSE UNCHANGED nl
    /\ UNCHANGED <<rt_cache, routes, changes, losses, ports, resolver, pendingRoutes, hostTable,
                   pendingNeighbours, cached_rm, rules>>

\* The kernel fails to reach a neighbour, or forgets it (NL_ACT_DEL): ignored.
neighbourLost(h, state) ==
    /\ nl.pc = "idle" /\ losses < MaxLosses /\ ht_cache[h] # state
    /\ losses' = losses + 1
    /\ ht_cache' = [ht_cache EXCEPT ![h] = state]
    /\ UNCHANGED <<rt_cache, routes, changes, ports, resolver, pendingRoutes, hostTable,
                   pendingNeighbours, cached_rm, rules, nl>>

sendHostToHw ==
    /\ nl.pc = "send"
    /\ sendToHw("RMT_ADD", nl.host, nl.host, nl.up)
    /\ nl' = [nl EXCEPT !.pc = "insert"]
    /\ UNCHANGED <<kernel, ports, resolver, pendingRoutes, hostTable, pendingNeighbours>>

insertHost ==
    /\ nl.pc = "insert"
    /\ hostTable' = hostTable \cup {nl.host}
    /\ nl' = [nl EXCEPT !.pc = "stopND"]
    /\ UNCHANGED <<kernel, ports, resolver, pendingRoutes, pendingNeighbours, cached_rm, rules>>

stopND ==
    /\ nl.pc = "stopND"
    /\ pendingNeighbours' = pendingNeighbours \ {nl.host}
    /\ nl' = [nl EXCEPT !.pc = "idle"]
    /\ UNCHANGED <<kernel, ports, resolver, pendingRoutes, hostTable, cached_rm, rules>>

------------------------------------------------------------------------------
(* GWResolver.                                                              *)

\* Mutants: a route is sent before its gateway is known; a deleted route is
\* still unresolved; a deleted route keeps its rule.
addRoute_at_once(re) ==
    /\ routeTable[re.dst] = None
    /\ routeTable' = [routeTable EXCEPT ![re.dst] = re]
    /\ sendToHw("RMT_ADD", re.dst, re.gw, re.up)
    /\ UNCHANGED unresolvedRoutes

deleteRoute_unresolved(re) ==
    /\ routeTable' = [routeTable EXCEPT ![re.dst] = None]
    /\ sendRouteToHw("RMT_DELETE", re)
    /\ UNCHANGED unresolvedRoutes

deleteRoute_silently(re) ==
    /\ routeTable' = [routeTable EXCEPT ![re.dst] = None]
    /\ unresolvedRoutes' = unresolvedRoutes \ {re.dst}
    /\ UNCHANGED <<cached_rm, rules>>

\* One PendingRoute.  The key of routeTable is the prefix alone.
addRoute(re) ==
    \/ /\ routeTable[re.dst] # None     \* "Received duplicate route add"
       /\ UNCHANGED <<routeTable, unresolvedRoutes, cached_rm, rules>>
    \/ /\ routeTable[re.dst] = None
       /\ routeTable' = [routeTable EXCEPT ![re.dst] = re]
       /\ IF re.gw \in hostTable
          THEN sendRouteToHw("RMT_ADD", re) /\ UNCHANGED unresolvedRoutes
          ELSE /\ unresolvedRoutes' = unresolvedRoutes \cup {re.dst}
               /\ UNCHANGED <<cached_rm, rules>>

deleteRoute(re) ==
    \/ /\ routeTable[re.dst] = None     \* "not in routing table"
       /\ UNCHANGED <<routeTable, unresolvedRoutes, cached_rm, rules>>
    \/ /\ routeTable[re.dst] # None
       /\ routeTable' = [routeTable EXCEPT ![re.dst] = None]
       /\ unresolvedRoutes' = unresolvedRoutes \ {re.dst}
       /\ sendRouteToHw("RMT_DELETE", re)

handlePending ==
    /\ gw.pc = "pending" /\ pendingRoutes # <<>>
    /\ LET pr == Head(pendingRoutes)
       IN  IF pr.type = "RMT_ADD" THEN addRoute(pr.re) ELSE deleteRoute(pr.re)
    /\ pendingRoutes' = Tail(pendingRoutes)
    /\ UNCHANGED <<kernel, ports, hostTable, pendingNeighbours, gw, nl>>

startRetries ==
    /\ gw.pc = "pending" /\ pendingRoutes = <<>> /\ unresolvedRoutes # {}
    /\ gw' = [gw EXCEPT !.pc = "retry", !.todo = unresolvedRoutes]
    /\ UNCHANGED <<kernel, ports, pendingRoutes, routeTable, unresolvedRoutes, hostTable,
                   pendingNeighbours, cached_rm, rules, nl>>

\* Sends a route whose gateway is known by now, or goes on to resolveGateway.
retryRoute(d) ==
    /\ gw.pc = "retry" /\ d \in gw.todo
    /\ IF routeTable[d].gw \in hostTable
       THEN /\ sendRouteToHw("RMT_ADD", routeTable[d])
            /\ unresolvedRoutes' = unresolvedRoutes \ {d}
            /\ gw' = [gw EXCEPT !.todo = @ \ {d}]
       ELSE /\ gw' = [gw EXCEPT !.pc = "resolve", !.dst = d]
            /\ UNCHANGED <<unresolvedRoutes, cached_rm, rules>>
    /\ UNCHANGED <<kernel, ports, pendingRoutes, routeTable, hostTable, pendingNeighbours, nl>>


resolveGateway ==
    LET re == routeTable[gw.dst]
    IN  /\ gw.pc = "resolve"
        /\ pendingNeighbours' = pendingNeighbours \cup {g \in {re.gw} : re.up}
        /\ gw' = [pc |-> "retry", todo |-> gw.todo \ {gw.dst}, dst |-> None]
        /\ UNCHANGED <<kernel, ports, pendingRoutes, routeTable, unresolvedRoutes, hostTable,
                       cached_rm, rules, nl>>

endRetries ==
    /\ gw.pc = "retry" /\ gw.todo = {}
    /\ gw' = [gw EXCEPT !.pc = "pending"]
    /\ UNCHANGED <<kernel, ports, pendingRoutes, routeTable, unresolvedRoutes, hostTable,
                   pendingNeighbours, cached_rm, rules, nl>>

------------------------------------------------------------------------------
(* RFClient::process for PortConfig messages; it holds ifMutex throughout.  *)

deactivateInterfaces(port) ==
    /\ ipc.pc = "idle" /\ configs < MaxPortConfigs
    /\ configs' = configs + 1
    /\ active' = {i \in active : PortOf[i] # port}
    /\ UNCHANGED <<kernel, everUp, ipc, resolver, pendingRoutes, hostTable, pendingNeighbours,
                   cached_rm, rules, nl>>

sendAllInterfaceToControllerRouteMods(port) ==
    /\ ipc.pc = "idle" /\ configs < MaxPortConfigs
    /\ configs' = configs + 1
    /\ ipc' = [pc |-> "map", todo |-> {i \in Ifaces : PortOf[i] = port}, vec |-> <<>>]
    /\ UNCHANGED <<kernel, active, everUp, resolver, pendingRoutes, hostTable, pendingNeighbours,
                   cached_rm, rules, nl>>

\* The interface becomes active and notify_port_up takes over its RouteMods.
notify_port_up(i) ==
    /\ ipc.pc = "map" /\ i \in ipc.todo /\ ipc.vec = <<>>
    /\ active' = active \cup {i} /\ everUp' = everUp \cup {i}
    /\ cached_rm' = [cached_rm EXCEPT ![i] = <<>>]
    /\ ipc' = [ipc EXCEPT !.todo = @ \ {i}, !.vec = cached_rm[i]]
    /\ UNCHANGED <<kernel, configs, resolver, pendingRoutes, hostTable, pendingNeighbours, rules,
                   nl>>

releaseCachedRm ==
    /\ ipc.pc = "map" /\ ipc.vec # <<>>
    /\ LET rm == Head(ipc.vec) IN sendRm(rm.mod, rm.dst, rm.gw)
    /\ ipc' = [ipc EXCEPT !.vec = Tail(@)]
    /\ UNCHANGED <<kernel, active, everUp, configs, resolver, pendingRoutes, hostTable,
                   pendingNeighbours, cached_rm, nl>>

endPortConfig ==
    /\ ipc.pc = "map" /\ ipc.todo = {} /\ ipc.vec = <<>>
    /\ ipc' = [ipc EXCEPT !.pc = "idle"]
    /\ UNCHANGED <<kernel, active, everUp, configs, resolver, pendingRoutes, hostTable,
                   pendingNeighbours, cached_rm, rules, nl>>

------------------------------------------------------------------------------
Init ==
    /\ active = InitialUp /\ everUp = InitialUp
    /\ rt_cache = {} /\ ht_cache = [h \in Hosts |-> "none"]
    /\ pendingRoutes = <<>> /\ routeTable = [d \in Dsts |-> None]
    /\ unresolvedRoutes = {} /\ hostTable = {} /\ pendingNeighbours = {}
    /\ cached_rm = [i \in Ifaces |-> <<>>] /\ rules = {}
    /\ nl = [pc |-> "idle", host |-> None, up |-> FALSE]
    /\ gw = [pc |-> "pending", todo |-> {}, dst |-> None]
    /\ ipc = [pc |-> "idle", todo |-> {}, vec |-> <<>>]
    /\ routes = 0 /\ changes = 0 /\ losses = 0 /\ configs = 0

NLSteps == sendHostToHw \/ insertHost \/ stopND
GWSteps == handlePending \/ startRetries \/ resolveGateway \/ endRetries
           \/ \E d \in Dsts : retryRoute(d)
IPCSteps == releaseCachedRm \/ endPortConfig \/ \E i \in Ifaces : notify_port_up(i)

Next ==
    \/ NLSteps
    \/ GWSteps
    \/ IPCSteps
    \/ \E r \in Route : \/ updateRouteTable_NEW(r) \/ updateRouteTable_DEL(r)
                        \/ \E g \in Hosts : updateRouteTable_CHANGE(r, g)
    \/ \E h \in Hosts : \/ updateHostTable(h)
                        \/ \E s \in {"none", "failed"} : neighbourLost(h, s)
    \/ \E p \in Ports : deactivateInterfaces(p) \/ sendAllInterfaceToControllerRouteMods(p)

Spec == Init /\ [][Next]_vars

\* The threads run, and a neighbour that is being discovered answers.
Fairness ==
    /\ WF_vars(NLSteps) /\ WF_vars(GWSteps) /\ WF_vars(IPCSteps)
    /\ \A h \in Hosts : SF_vars(h \in pendingNeighbours /\ updateHostTable(h))

FairSpec == Spec /\ Fairness

------------------------------------------------------------------------------

\* GWResolverCb reads routeTable[*it] for every unresolved route: the entry is
\* always there, whatever was deleted and added again in the meantime (the map
\* would create an empty one).
UnresolvedKnown == \A d \in unresolvedRoutes \cup gw.todo : routeTable[d] # None

\* A route reaches rm_q only with the MAC address of its gateway, also when it
\* went through cached_rm: sendToHw looks the gateway up in hostTable.
GatewayKnown == \A r \in rules : r.dst \in Dsts => r.gw \in hostTable

\* No RouteMod leaves for an interface that was never mapped: the RFServer has
\* no datapath for it.
SentAfterUp == \A r \in rules : IfOf[r.gw] \in everUp

\* When the three threads have nothing to do, the datapath has a rule for
\* exactly the kernel's routes with a known gateway.
Quiet == pendingRoutes = <<>> /\ nl.pc = "idle" /\ ipc.pc = "idle" /\ gw.pc = "pending"
         /\ \A d \in unresolvedRoutes : routeTable[d].gw \notin hostTable
RulesMatchRoutes ==
    Quiet => {r \in rules : r.dst \in Dsts} = {r \in rt_cache : r.gw \in hostTable}

===============================================================================
