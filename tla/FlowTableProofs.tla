--------------------------- MODULE FlowTableProofs ---------------------------
(***************************************************************************)
(* What FlowTable guarantees for any interfaces, prefixes and neighbours    *)
(* and any number of events, under every interleaving of its threads; and   *)
(* that its rules follow the kernel's routes when the kernel has one route  *)
(* to a prefix and never changes its gateway and every interface is active  *)
(* throughout.                                                              *)
(***************************************************************************)
EXTENDS FlowTable, TLAPS

\* RouteMods with the MAC address of their gateway; entries that are up only
\* if their interface was mapped.
Addressed == {m \in RouteMod : m.dst \in Dsts => m.gw \in hostTable}
Entries == {re \in RouteEntry : re.up => IfOf[re.gw] \in everUp}
Pending == [type : {"RMT_ADD", "RMT_DELETE"}, re : Entries]

\* The RouteMods that wait for interface i; those that are being released.
Waiting(i) == {m \in Addressed : IfOf[m.gw] = i}
Released == {m \in Addressed : IfOf[m.gw] \in everUp}

KernelTyped ==
    /\ rt_cache \subseteq Route
    /\ ht_cache \in [Hosts -> {"none", "valid", "failed"}]

PortsTyped ==
    /\ active \subseteq everUp /\ everUp \subseteq Ifaces
    /\ ipc \in [pc : {"idle", "map"}, todo : SUBSET Ifaces, vec : Seq(Released)]
    /\ cached_rm \in [Ifaces -> Seq(Addressed)]
    /\ \A i \in Ifaces : cached_rm[i] \in Seq(Waiting(i))

NlTyped ==
    /\ nl \in [pc : {"idle", "send", "insert", "stopND"}, host : Hosts \cup {None}, up : BOOLEAN]
    /\ nl.pc # "idle" => nl.host \in Hosts /\ (nl.up => IfOf[nl.host] \in everUp)
    /\ pendingRoutes \in Seq(Pending)
    /\ hostTable \subseteq Hosts

\* GWResolver retries routes that it has, under the key of their prefix.
GwTyped ==
    /\ gw \in [pc : {"pending", "retry", "resolve"}, todo : SUBSET Dsts, dst : Dsts \cup {None}]
    /\ routeTable \in [Dsts -> Entries \cup {None}]
    /\ \A d \in Dsts : routeTable[d] # None => routeTable[d].dst = d
    /\ unresolvedRoutes \subseteq Dsts
    /\ \A d \in unresolvedRoutes : routeTable[d] # None
    /\ gw.todo \subseteq unresolvedRoutes
    /\ gw.pc = "pending" => gw.todo = {}
    /\ gw.pc = "resolve" => gw.dst \in gw.todo

RulesTyped ==
    /\ rules \subseteq [dst : Dsts \cup Hosts, gw : Hosts]
    /\ GatewayKnown /\ SentAfterUp

\* The inductive invariant.
FlowInv == KernelTyped /\ PortsTyped /\ NlTyped /\ GwTyped /\ RulesTyped

------------------------------------------------------------------------------
\* A sequence over a set is one over a larger set.
LEMMA SeqWiden ==
    ASSUME NEW S, NEW T, S \subseteq T, NEW s \in Seq(S)
    PROVE  s \in Seq(T)
OBVIOUS

\* The initial state.
LEMMA InitFlowInv == Init => FlowInv
<1> SUFFICES ASSUME Init PROVE FlowInv
  OBVIOUS
<1>1. KernelTyped
  BY Zenon DEF Init, KernelTyped
<1>2. PortsTyped
  BY FlowTableAssumption DEF Init, PortsTyped
<1>3. NlTyped
  BY DEF Init, NlTyped
<1>4. GwTyped
  BY Zenon DEF Init, GwTyped
<1>5. RulesTyped
  BY Zenon DEF Init, RulesTyped, GatewayKnown, SentAfterUp
<1>6. QED
  BY <1>1, <1>2, <1>3, <1>4, <1>5, Zenon DEF FlowInv

\* sendRm: at most the one rule is new.
LEMMA SendRm ==
    ASSUME NEW mod, NEW dst, NEW g, sendRm(mod, dst, g)
    PROVE  \A r \in rules' : r \in rules \/ r = [dst |-> dst, gw |-> g]
BY Zenon DEF sendRm

\* sendToHw keeps what is known of the rules and of the RouteMods that wait.
LEMMA SendToHw ==
    ASSUME FlowInv, NEW mod \in {"RMT_ADD", "RMT_DELETE"}, NEW dst \in Dsts \cup Hosts,
           NEW g \in Hosts, NEW up \in BOOLEAN, sendToHw(mod, dst, g, up),
           dst \in Dsts => g \in hostTable, up => IfOf[g] \in everUp,
           hostTable' = hostTable, everUp' = everUp
    PROVE  /\ RulesTyped'
           /\ cached_rm' \in [Ifaces -> Seq(Addressed)]
           /\ \A i \in Ifaces : cached_rm'[i] \in Seq(Waiting(i))
<1>1. /\ IfOf[g] \in Ifaces
      /\ [mod |-> mod, dst |-> dst, gw |-> g] \in Waiting(IfOf[g])
      /\ [dst |-> dst, gw |-> g] \in [dst : Dsts \cup Hosts, gw : Hosts]
  BY FlowTableAssumption, Zenon DEF Waiting, Addressed, RouteMod
<1>2. /\ cached_rm \in [Ifaces -> Seq(Addressed)]
      /\ \A i \in Ifaces : cached_rm[i] \in Seq(Waiting(i))
  BY Zenon DEF FlowInv, PortsTyped
<1>3. CASE ~up
  <2>1. /\ UNCHANGED rules
        /\ cached_rm' = [cached_rm EXCEPT ![IfOf[g]] =
                            Append(cached_rm[IfOf[g]], [mod |-> mod, dst |-> dst, gw |-> g])]
    BY <1>3, Zenon DEF sendToHw
  <2>2. RulesTyped'
    BY <2>1, Zenon DEF FlowInv, RulesTyped, GatewayKnown, SentAfterUp
  <2>3. Append(cached_rm[IfOf[g]], [mod |-> mod, dst |-> dst, gw |-> g]) \in Seq(Waiting(IfOf[g]))
    BY <1>1, <1>2
  <2>4. \A i \in Ifaces : cached_rm'[i] \in Seq(Waiting(i))
    BY <1>1, <1>2, <2>1, <2>3, Zenon
  <2>5. \A i \in Ifaces : Waiting(i) \subseteq Addressed
    BY Zenon DEF Waiting
  <2>6. cached_rm' \in [Ifaces -> Seq(Addressed)]
    <3>1. Append(cached_rm[IfOf[g]], [mod |-> mod, dst |-> dst, gw |-> g]) \in Seq(Addressed)
      BY <1>1, <2>3, <2>5, SeqWiden, Zenon
    <3>2. QED
      BY <1>2, <2>1, <3>1, Zenon
  <2>7. QED
    BY <2>2, <2>4, <2>6, Zenon
<1>4. CASE up
  <2>1. UNCHANGED cached_rm /\ sendRm(mod, dst, g)
    BY <1>4, Zenon DEF sendToHw
  <2>2. \A r \in rules' : r \in rules \/ r = [dst |-> dst, gw |-> g]
    BY <2>1, SendRm, Zenon
  <2>3. RulesTyped'
    BY <1>1, <1>4, <2>2 DEF FlowInv, RulesTyped, GatewayKnown, SentAfterUp
  <2>4. QED
    BY <1>2, <2>1, <2>3, Zenon
<1>5. QED
  BY <1>3, <1>4, Zenon

\* As long as no host is added and no interface becomes active for the first
\* time, what was fine to send, to keep or to release still is.
LEMMA Unmoved ==
    ASSUME hostTable' = hostTable, everUp' = everUp
    PROVE  /\ Addressed' = Addressed /\ Entries' = Entries /\ Pending' = Pending
           /\ Released' = Released /\ \A i \in Ifaces : Waiting(i)' = Waiting(i)
BY Zenon DEF Addressed, Entries, Pending, Released, Waiting

\* Afterwards it is, too.
LEMMA Grown ==
    ASSUME FlowInv, hostTable \subseteq hostTable', everUp \subseteq everUp'
    PROVE  /\ Entries \subseteq Entries'
           /\ pendingRoutes \in Seq(Pending') /\ ipc.vec \in Seq(Released')
           /\ cached_rm \in [Ifaces -> Seq(Addressed')]
           /\ \A i \in Ifaces : cached_rm[i] \in Seq(Waiting(i)')
           /\ UNCHANGED rules => GatewayKnown' /\ SentAfterUp'
<1>1. /\ Addressed \subseteq Addressed' /\ Entries \subseteq Entries' /\ Pending \subseteq Pending'
      /\ Released \subseteq Released' /\ \A i \in Ifaces : Waiting(i) \subseteq Waiting(i)'
  BY Zenon DEF Addressed, Entries, Pending, Released, Waiting
<1>2. /\ pendingRoutes \in Seq(Pending) /\ ipc.vec \in Seq(Released)
      /\ cached_rm \in [Ifaces -> Seq(Addressed)]
      /\ \A i \in Ifaces : cached_rm[i] \in Seq(Waiting(i))
  BY Zenon DEF FlowInv, NlTyped, PortsTyped
<1>3. pendingRoutes \in Seq(Pending')
  BY <1>1, <1>2, SeqWiden, Zenon
<1>4. ipc.vec \in Seq(Released')
  BY <1>1, <1>2, SeqWiden, Zenon
<1>5. \A i \in Ifaces : cached_rm[i] \in Seq(Addressed')
  BY <1>1, <1>2, SeqWiden, Zenon
<1>6. \A i \in Ifaces : cached_rm[i] \in Seq(Waiting(i)')
  BY <1>1, <1>2, SeqWiden
<1>7. UNCHANGED rules => GatewayKnown' /\ SentAfterUp'
  BY Zenon DEF FlowInv, RulesTyped, GatewayKnown, SentAfterUp
<1>8. QED
  BY <1>1, <1>2, <1>3, <1>4, <1>5, <1>6, <1>7, Zenon

\* A change of the kernel's routes becomes a PendingRoute, or is ignored.
LEMMA RouteEvents ==
    ASSUME FlowInv, NEW r \in Route,
           \/ updateRouteTable_NEW(r) \/ updateRouteTable_DEL(r)
           \/ \E g \in Hosts : updateRouteTable_CHANGE(r, g)
    PROVE  FlowInv'
<1>1. /\ UNCHANGED <<ports, resolver, hostTable, cached_rm, rules, nl, ht_cache>>
      /\ \/ UNCHANGED pendingRoutes \/ \E type \in {"RMT_ADD", "RMT_DELETE"} : pushRoute(type, r)
      /\ rt_cache' \subseteq Route
  BY ZenonT(30) DEF updateRouteTable_NEW, updateRouteTable_DEL, updateRouteTable_CHANGE, FlowInv,
     KernelTyped, Route
<1>2. UNCHANGED <<active, everUp, ipc, routeTable, unresolvedRoutes, gw>>
  BY <1>1, Zenon DEF ports, resolver
<1>3. pendingRoutes' \in Seq(Pending)
  <2>1. pendingRoutes \in Seq(Pending) /\ active \subseteq everUp
    BY Zenon DEF FlowInv, NlTyped, PortsTyped
  <2>2. \A type \in {"RMT_ADD", "RMT_DELETE"} :
          [type |-> type, re |-> [dst |-> r.dst, gw |-> r.gw, up |-> IfOf[r.gw] \in active]] \in Pending
    <3>1. (IfOf[r.gw] \in active) \in BOOLEAN /\ (IfOf[r.gw] \in active => IfOf[r.gw] \in everUp)
      BY <2>1
    <3>2. r.dst \in Dsts /\ r.gw \in Hosts
      BY Zenon DEF Route
    <3>3. \A up \in BOOLEAN : (up => IfOf[r.gw] \in everUp) =>
              [dst |-> r.dst, gw |-> r.gw, up |-> up] \in Entries
      BY <3>2, Zenon DEF Entries, RouteEntry
    <3>4. [dst |-> r.dst, gw |-> r.gw, up |-> IfOf[r.gw] \in active] \in Entries
      BY <3>1, <3>3, Zenon
    <3>5. QED
      BY <3>4, Zenon DEF Pending
  <2>3. CASE UNCHANGED pendingRoutes
    BY <2>1, <2>3, Zenon
  <2>4. ASSUME NEW type \in {"RMT_ADD", "RMT_DELETE"}, pushRoute(type, r)
        PROVE  pendingRoutes' \in Seq(Pending)
    <3>1. PICK p \in Pending : pendingRoutes' = Append(pendingRoutes, p)
      BY <2>2, <2>4, Zenon DEF pushRoute
    <3>2. QED
      BY <2>1, <3>1
  <2>5. QED
    BY <1>1, <2>3, <2>4, Zenon
<1>4. NlTyped'
  BY <1>1, <1>2, <1>3, Unmoved, Zenon DEF FlowInv, NlTyped
<1>5. KernelTyped' /\ PortsTyped' /\ GwTyped' /\ RulesTyped'
  BY Zenon, <1>1, <1>2, Unmoved
     DEF FlowInv, KernelTyped, PortsTyped, GwTyped, RulesTyped, GatewayKnown, SentAfterUp
<1>6. QED
  BY <1>4, <1>5, Zenon DEF FlowInv

\* A neighbour appears or is lost.
LEMMA HostEvents ==
    ASSUME FlowInv, NEW h \in Hosts,
           updateHostTable(h) \/ \E s \in {"none", "failed"} : neighbourLost(h, s)
    PROVE  FlowInv'
<1>1. /\ UNCHANGED <<ports, resolver, hostTable, pendingRoutes, cached_rm, rules, rt_cache>>
      /\ \E s \in {"none", "valid", "failed"} : ht_cache' = [ht_cache EXCEPT ![h] = s]
      /\ UNCHANGED nl \/ nl' = [pc |-> "send", host |-> h, up |-> IfOf[h] \in active]
  BY Zenon DEF updateHostTable, neighbourLost
<1>2. UNCHANGED <<active, everUp, ipc, routeTable, unresolvedRoutes, gw>>
  BY <1>1, Zenon DEF ports, resolver
<1>3. NlTyped'
  <2>1. (IfOf[h] \in active) \in BOOLEAN /\ (IfOf[h] \in active => IfOf[h] \in everUp)
    BY DEF FlowInv, PortsTyped
  <2>2. UNCHANGED nl \/ \E up \in BOOLEAN : /\ nl' = [pc |-> "send", host |-> h, up |-> up]
                                            /\ up => IfOf[h] \in everUp
    BY <1>1, <2>1, Zenon
  <2>3. QED
    BY <1>1, <1>2, <2>2, Unmoved DEF FlowInv, NlTyped
<1>4. KernelTyped'
  BY <1>1, Zenon DEF FlowInv, KernelTyped
<1>5. PortsTyped' /\ GwTyped' /\ RulesTyped'
  BY <1>1, <1>2, Unmoved, Zenon DEF FlowInv, PortsTyped, GwTyped, RulesTyped, GatewayKnown, SentAfterUp
<1>6. QED
  BY <1>3, <1>4, <1>5, Zenon DEF FlowInv

\* NLListener sends a neighbour, then inserts it into hostTable.
LEMMA HostSteps ==
    ASSUME FlowInv, NLSteps
    PROVE  FlowInv'
<1>1. UNCHANGED <<rt_cache, ht_cache, active, everUp, ipc, routeTable, unresolvedRoutes, gw, pendingRoutes>>
  BY Zenon DEF NLSteps, sendHostToHw, insertHost, stopND, kernel, ports, resolver
<1>2. /\ nl.host \in Hosts /\ (nl.up => IfOf[nl.host] \in everUp) /\ nl.up \in BOOLEAN
      /\ \E l \in {"idle", "insert", "stopND"} : nl' = [nl EXCEPT !.pc = l]
  BY Zenon DEF FlowInv, NlTyped, NLSteps, sendHostToHw, insertHost, stopND
<1>3. KernelTyped'
  BY <1>1, Zenon DEF FlowInv, KernelTyped
<1>4. CASE sendHostToHw
  <2>1. hostTable' = hostTable /\ sendToHw("RMT_ADD", nl.host, nl.host, nl.up)
    BY <1>4, Zenon DEF sendHostToHw
  <2>2. nl.host \notin Dsts
    BY <1>2, FlowTableAssumption, Zenon
  <2>3. /\ RulesTyped'
        /\ cached_rm' \in [Ifaces -> Seq(Addressed)]
        /\ \A i \in Ifaces : cached_rm'[i] \in Seq(Waiting(i))
    BY <1>1, <1>2, <2>1, <2>2, SendToHw, Zenon
  <2>4. PortsTyped'
    BY <1>1, <2>1, <2>3, Unmoved, Zenon DEF FlowInv, PortsTyped
  <2>5. NlTyped' /\ GwTyped'
    BY <1>1, <1>2, <2>1, Unmoved, Zenon DEF FlowInv, NlTyped, GwTyped
  <2>6. QED
    BY <1>3, <2>3, <2>4, <2>5, Zenon DEF FlowInv
<1>5. CASE insertHost
  <2>1. hostTable' = hostTable \cup {nl.host} /\ UNCHANGED <<cached_rm, rules>>
    BY <1>5, Zenon DEF insertHost
  <2>2. /\ Entries' = Entries
        /\ pendingRoutes \in Seq(Pending') /\ ipc.vec \in Seq(Released')
        /\ cached_rm \in [Ifaces -> Seq(Addressed')]
        /\ \A i \in Ifaces : cached_rm[i] \in Seq(Waiting(i)')
        /\ GatewayKnown' /\ SentAfterUp'
    BY <1>1, <2>1, Grown, Zenon DEF Entries
  <2>3. PortsTyped'
    BY <1>1, <2>1, <2>2, Zenon DEF FlowInv, PortsTyped
  <2>4. NlTyped'
    BY <1>1, <1>2, <2>1, <2>2, Zenon DEF FlowInv, NlTyped
  <2>5. GwTyped' /\ RulesTyped'
    BY <1>1, <2>1, <2>2, Zenon DEF FlowInv, GwTyped, RulesTyped
  <2>6. QED
    BY <1>3, <2>3, <2>4, <2>5, Zenon DEF FlowInv
<1>6. CASE stopND
  <2>1. UNCHANGED <<hostTable, cached_rm, rules>>
    BY <1>6, Zenon DEF stopND
  <2>2. NlTyped'
    BY <1>1, <1>2, <2>1, Unmoved, Zenon DEF FlowInv, NlTyped
  <2>3. PortsTyped' /\ GwTyped' /\ RulesTyped'
    BY <1>1, <2>1, Unmoved, Zenon DEF FlowInv, PortsTyped, GwTyped, RulesTyped, GatewayKnown, SentAfterUp
  <2>4. QED
    BY <1>3, <2>2, <2>3, Zenon DEF FlowInv
<1>7. QED
  BY <1>4, <1>5, <1>6, Zenon DEF NLSteps

\* A route is sent only with the address of its gateway.
LEMMA SendRouteToHw ==
    ASSUME FlowInv, NEW mod \in {"RMT_ADD", "RMT_DELETE"}, NEW re \in Entries,
           sendRouteToHw(mod, re) \/ UNCHANGED <<cached_rm, rules>>,
           UNCHANGED <<hostTable, active, everUp, ipc>>
    PROVE  RulesTyped' /\ PortsTyped'
<1>1. re.dst \in Dsts /\ re.gw \in Hosts /\ re.up \in BOOLEAN /\ (re.up => IfOf[re.gw] \in everUp)
  BY Zenon DEF Entries, RouteEntry
<1>2. CASE UNCHANGED <<cached_rm, rules>>
  BY <1>2, Unmoved, Zenon DEF FlowInv, PortsTyped, RulesTyped, GatewayKnown, SentAfterUp
<1>3. CASE re.gw \in hostTable /\ sendToHw(mod, re.dst, re.gw, re.up)
  <2>1. /\ RulesTyped'
        /\ cached_rm' \in [Ifaces -> Seq(Addressed)]
        /\ \A i \in Ifaces : cached_rm'[i] \in Seq(Waiting(i))
    <3>1. re.dst \in Dsts \cup Hosts
      BY <1>1, Zenon
    <3>2. QED
      BY <1>1, <1>3, <3>1, SendToHw, Zenon
  <2>2. PortsTyped'
    BY <2>1, Unmoved, Zenon DEF FlowInv, PortsTyped
  <2>3. QED
    BY <2>1, <2>2, Zenon
<1>4. QED
  BY <1>2, <1>3, Zenon DEF sendRouteToHw

\* One PendingRoute.
LEMMA PendingStep ==
    ASSUME FlowInv, handlePending
    PROVE  FlowInv'
<1> DEFINE pr == Head(pendingRoutes)
<1>1. /\ UNCHANGED <<rt_cache, ht_cache, active, everUp, ipc, hostTable, gw, nl>>
      /\ gw.pc = "pending" /\ pendingRoutes # <<>> /\ pendingRoutes' = Tail(pendingRoutes)
      /\ addRoute(pr.re) \/ deleteRoute(pr.re)
  BY Zenon DEF handlePending, kernel, ports
<1>2. pendingRoutes \in Seq(Pending) /\ pr \in Pending /\ Tail(pendingRoutes) \in Seq(Pending)
  BY <1>1 DEF FlowInv, NlTyped
<1>3. pr.re \in Entries /\ pr.re.dst \in Dsts
  BY <1>2, Zenon DEF Pending, Entries, RouteEntry
<1> HIDE DEF pr
<1>4. KernelTyped' /\ NlTyped'
  BY <1>1, <1>2, Unmoved, Zenon DEF FlowInv, KernelTyped, NlTyped
<1>5. PortsTyped' /\ RulesTyped'
  <2>1. \E mod \in {"RMT_ADD", "RMT_DELETE"} : sendRouteToHw(mod, pr.re) \/ UNCHANGED <<cached_rm, rules>>
    BY <1>1, Zenon DEF addRoute, deleteRoute
  <2>2. QED
    BY <1>1, <1>3, <2>1, SendRouteToHw, Zenon
<1>6. GwTyped'
  <2>1. gw.todo = {} /\ GwTyped /\ Entries' = Entries
    BY <1>1, Unmoved, Zenon DEF FlowInv, GwTyped
  <2>2. \/ UNCHANGED <<routeTable, unresolvedRoutes>>
        \/ /\ routeTable' = [routeTable EXCEPT ![pr.re.dst] = pr.re]
           /\ unresolvedRoutes' \subseteq unresolvedRoutes \cup {pr.re.dst}
        \/ /\ routeTable' = [routeTable EXCEPT ![pr.re.dst] = None]
           /\ unresolvedRoutes' = unresolvedRoutes \ {pr.re.dst}
    BY <1>1, Zenon DEF addRoute, deleteRoute
  <2>3. pr.re # None
    BY <1>3, FlowTableAssumption, Zenon DEF Entries
  <2>4. QED
    BY <1>1, <1>3, <2>1, <2>2, <2>3 DEF GwTyped
<1>7. QED
  BY <1>4, <1>5, <1>6, Zenon DEF FlowInv

\* The routes whose gateway was not known.
LEMMA RetrySteps ==
    ASSUME FlowInv, startRetries \/ resolveGateway \/ endRetries \/ \E d \in Dsts : retryRoute(d)
    PROVE  FlowInv'
<1>1. UNCHANGED <<rt_cache, ht_cache, active, everUp, ipc, hostTable, nl, pendingRoutes, routeTable>>
  BY Zenon DEF startRetries, resolveGateway, endRetries, retryRoute, kernel, ports
<1>2. KernelTyped' /\ NlTyped'
  BY <1>1, Unmoved, Zenon DEF FlowInv, KernelTyped, NlTyped
<1>3. GwTyped /\ Entries' = Entries
  BY <1>1, Unmoved, Zenon DEF FlowInv
<1>4. CASE startRetries \/ endRetries \/ resolveGateway
  <2>1. UNCHANGED <<unresolvedRoutes, cached_rm, rules>>
    BY <1>4, Zenon DEF startRetries, resolveGateway, endRetries
  <2>2. PortsTyped' /\ RulesTyped'
    BY <1>1, <2>1, Unmoved, Zenon DEF FlowInv, PortsTyped, RulesTyped, GatewayKnown, SentAfterUp
  <2>3. GwTyped'
    <3>1. CASE startRetries
      BY <1>1, <1>3, <2>1, <3>1, Zenon DEF GwTyped, startRetries
    <3>2. CASE endRetries
      BY <1>1, <1>3, <2>1, <3>2, Zenon DEF GwTyped, endRetries
    <3>3. CASE resolveGateway
      BY <1>1, <1>3, <2>1, <3>3, Zenon DEF GwTyped, resolveGateway
    <3>4. QED
      BY <1>4, <3>1, <3>2, <3>3, Zenon
  <2>4. QED
    BY <1>2, <2>2, <2>3, Zenon DEF FlowInv
<1>5. ASSUME NEW d \in Dsts, retryRoute(d)
      PROVE  FlowInv'
  <2>1. gw.pc = "retry" /\ d \in gw.todo /\ routeTable[d] \in Entries
    BY <1>3, <1>5, Zenon DEF retryRoute, GwTyped
  <2>2. sendRouteToHw("RMT_ADD", routeTable[d]) \/ UNCHANGED <<cached_rm, rules>>
    BY <1>5, Zenon DEF retryRoute
  <2>3. PortsTyped' /\ RulesTyped'
    BY <1>1, <2>1, <2>2, SendRouteToHw, Zenon
  <2>4. \/ /\ unresolvedRoutes' = unresolvedRoutes \ {d}
           /\ gw' = [gw EXCEPT !.todo = gw.todo \ {d}]
        \/ /\ UNCHANGED unresolvedRoutes
           /\ gw' = [gw EXCEPT !.pc = "resolve", !.dst = d]
    BY <1>5, Zenon DEF retryRoute
  <2>5. GwTyped'
    <3>1. /\ gw' \in [pc : {"pending", "retry", "resolve"}, todo : SUBSET Dsts, dst : Dsts \cup {None}]
          /\ unresolvedRoutes' \subseteq unresolvedRoutes /\ gw'.todo \subseteq unresolvedRoutes'
          /\ gw'.pc # "pending" /\ (gw'.pc = "resolve" => gw'.dst \in gw'.todo)
      <4>1. /\ gw \in [pc : {"pending", "retry", "resolve"}, todo : SUBSET Dsts, dst : Dsts \cup {None}]
            /\ gw.todo \subseteq unresolvedRoutes
        BY <1>3, Zenon DEF GwTyped
      <4>2. CASE gw' = [gw EXCEPT !.todo = gw.todo \ {d}] /\ unresolvedRoutes' = unresolvedRoutes \ {d}
        <5>1. gw.todo \ {d} \subseteq Dsts /\ gw.todo \ {d} \subseteq unresolvedRoutes'
          BY <4>1, <4>2, Zenon
        <5>2. gw'.todo = gw.todo \ {d} /\ gw'.pc = gw.pc
          BY <4>1, <4>2, Zenon
        <5>3. gw' \in [pc : {"pending", "retry", "resolve"}, todo : SUBSET Dsts, dst : Dsts \cup {None}]
          BY <4>1, <4>2, <5>1, Zenon
        <5>4. QED
          BY <2>1, <4>2, <5>1, <5>2, <5>3, Zenon
      <4>3. CASE gw' = [gw EXCEPT !.pc = "resolve", !.dst = d] /\ UNCHANGED unresolvedRoutes
        BY <2>1, <4>1, <4>3, Zenon
      <4>4. QED
        BY <2>4, <4>2, <4>3, Zenon
    <3>2. QED
      BY <1>1, <1>3, <3>1, Zenon DEF GwTyped
  <2>6. QED
    BY <1>2, <2>3, <2>5, Zenon DEF FlowInv
<1>6. QED
  BY <1>4, <1>5, Zenon

\* PortConfigs: interfaces become active or inactive, and what was kept for
\* an interface is sent.
LEMMA PortSteps ==
    ASSUME FlowInv,
           IPCSteps \/ \E p \in Ports : deactivateInterfaces(p) \/ sendAllInterfaceToControllerRouteMods(p)
    PROVE  FlowInv'
<1>1. UNCHANGED <<rt_cache, ht_cache, hostTable, nl, pendingRoutes, routeTable, unresolvedRoutes, gw>>
  BY Zenon DEF IPCSteps, releaseCachedRm, endPortConfig, notify_port_up, deactivateInterfaces,
         sendAllInterfaceToControllerRouteMods, kernel, resolver
<1>2. KernelTyped'
  BY <1>1, Zenon DEF FlowInv, KernelTyped
<1>3. CASE UNCHANGED <<everUp, cached_rm, rules>> /\ active' \subseteq active
           /\ ipc' \in [pc : {"idle", "map"}, todo : SUBSET Ifaces, vec : Seq(Released)]
  BY Zenon, <1>1, <1>2, <1>3, Unmoved
     DEF FlowInv, PortsTyped, NlTyped, GwTyped, RulesTyped, GatewayKnown, SentAfterUp
<1>4. ASSUME NEW p \in Ports, deactivateInterfaces(p) \/ sendAllInterfaceToControllerRouteMods(p)
      PROVE  FlowInv'
  <2>1. <<>> \in Seq(Released)
    OBVIOUS
  <2>2. ipc \in [pc : {"idle", "map"}, todo : SUBSET Ifaces, vec : Seq(Released)]
    BY Zenon DEF FlowInv, PortsTyped
  <2>3. CASE deactivateInterfaces(p)
    BY <1>3, <2>2, <2>3, Zenon DEF deactivateInterfaces
  <2>4. CASE sendAllInterfaceToControllerRouteMods(p)
    <3>1. ipc' \in [pc : {"idle", "map"}, todo : SUBSET Ifaces, vec : Seq(Released)]
      BY <2>1, <2>4, Zenon DEF sendAllInterfaceToControllerRouteMods
    <3>2. QED
      BY <1>3, <2>4, <3>1, Zenon DEF sendAllInterfaceToControllerRouteMods
  <2>5. QED
    BY <1>4, <2>3, <2>4, Zenon
<1>5. CASE endPortConfig
  BY <1>3, <1>5, Zenon DEF endPortConfig, FlowInv, PortsTyped
<1>6. CASE releaseCachedRm
  <2> DEFINE rm == Head(ipc.vec)
  <2>1. /\ ipc.vec # <<>> /\ sendRm(rm.mod, rm.dst, rm.gw) /\ ipc' = [ipc EXCEPT !.vec = Tail(ipc.vec)]
        /\ UNCHANGED <<active, everUp, cached_rm>>
    BY <1>6, Zenon DEF releaseCachedRm
  <2>2. ipc.vec \in Seq(Released)
    BY Zenon DEF FlowInv, PortsTyped
  <2>3. rm \in Released /\ Tail(ipc.vec) \in Seq(Released)
    BY <2>1, <2>2
  <2> HIDE DEF rm
  <2>4. PortsTyped'
    BY <1>1, <2>1, <2>3, Unmoved, Zenon DEF FlowInv, PortsTyped
  <2>5. RulesTyped'
    <3>1. \A r \in rules' : r \in rules \/ r = [dst |-> rm.dst, gw |-> rm.gw]
      BY <2>1, SendRm, Zenon
    <3>2. QED
      BY <1>1, <2>1, <2>3, <3>1
         DEF FlowInv, RulesTyped, GatewayKnown, SentAfterUp, Released, Addressed, RouteMod
  <2>6. NlTyped' /\ GwTyped'
    BY <1>1, <2>1, Unmoved, Zenon DEF FlowInv, NlTyped, GwTyped
  <2>7. QED
    BY <1>2, <2>4, <2>5, <2>6, Zenon DEF FlowInv
<1>7. ASSUME NEW i \in Ifaces, notify_port_up(i)
      PROVE  FlowInv'
  <2>1. /\ active' = active \cup {i} /\ everUp' = everUp \cup {i} /\ UNCHANGED rules
        /\ cached_rm' = [cached_rm EXCEPT ![i] = <<>>]
        /\ ipc' = [ipc EXCEPT !.todo = ipc.todo \ {i}, !.vec = cached_rm[i]]
    BY <1>7, Zenon DEF notify_port_up
  <2>2. /\ Entries \subseteq Entries'
        /\ pendingRoutes \in Seq(Pending')
        /\ cached_rm \in [Ifaces -> Seq(Addressed')]
        /\ \A j \in Ifaces : cached_rm[j] \in Seq(Waiting(j)')
        /\ GatewayKnown' /\ SentAfterUp'
    BY <1>1, <2>1, Grown, Zenon
  <2>3. cached_rm[i] \in Seq(Released')
    <3>1. Waiting(i)' \subseteq Released'
      BY <2>1, Zenon DEF Waiting, Released
    <3>2. QED
      BY <2>2, <3>1, SeqWiden, Zenon
  <2>4. PortsTyped'
    <3>1. \A S : <<>> \in Seq(S)
      OBVIOUS
    <3>2. QED
      BY <2>1, <2>2, <2>3, <3>1, Zenon DEF FlowInv, PortsTyped
  <2>5. NlTyped' /\ GwTyped' /\ RulesTyped'
    BY <1>1, <2>1, <2>2, Zenon DEF FlowInv, NlTyped, GwTyped, RulesTyped
  <2>6. QED
    BY <1>2, <2>4, <2>5, Zenon DEF FlowInv
<1>8. QED
  BY <1>4, <1>5, <1>6, <1>7, Zenon DEF IPCSteps

\* Every step keeps the invariant.
LEMMA NextFlowInv == FlowInv /\ [Next]_vars => FlowInv'
<1> SUFFICES ASSUME FlowInv, [Next]_vars PROVE FlowInv'
  OBVIOUS
<1>1. CASE UNCHANGED vars
  BY Zenon, <1>1, Unmoved
     DEF vars, kernel, ports, resolver, FlowInv, KernelTyped, PortsTyped, NlTyped, GwTyped, RulesTyped,
         GatewayKnown, SentAfterUp
<1>2. CASE Next
  BY <1>2, RouteEvents, HostEvents, HostSteps, PendingStep, RetrySteps, PortSteps, Zenon DEF Next, GWSteps
<1>3. QED
  BY <1>1, <1>2, Zenon

\* What GWResolver retries is in routeTable, a route reaches the datapath
\* only with the address of its gateway, and nothing is sent for an interface
\* that was never mapped, for every interleaving of the three threads and any
\* prefixes, neighbours, interfaces and numbers of events.
THEOREM FlowTheorem == Spec => [](UnresolvedKnown /\ GatewayKnown /\ SentAfterUp)
<1>1. FlowInv => UnresolvedKnown /\ GatewayKnown /\ SentAfterUp
  BY Zenon DEF FlowInv, GwTyped, RulesTyped, UnresolvedKnown
<1>2. QED
  BY <1>1, InitFlowInv, NextFlowInv, PTL DEF Spec

------------------------------------------------------------------------------
(* The rules follow the routes.                                             *)

\* One route to a prefix, whose gateway never changes, and every interface
\* active throughout.
Steady == ~MultiPath /\ MaxChanges = 0 /\ InitialUp = Ifaces /\ MaxPortConfigs = 0

\* No entry is copied from an interface that is down.
AllUp ==
    /\ active = Ifaces /\ configs = 0 /\ changes = 0 /\ ipc.pc = "idle"
    /\ nl.pc = "send" => nl.up
    /\ \A d \in Dsts : routeTable[d] # None => routeTable[d].up
    /\ \A k \in 1..Len(pendingRoutes) : pendingRoutes[k].re.up

\* The rule of a prefix is its entry of routeTable, once resolved.
RulesFollow ==
    \A r \in Route :
        r \in rules <=> /\ routeTable[r.dst] # None /\ routeTable[r.dst].gw = r.gw
                        /\ r.dst \notin unresolvedRoutes

\* The entries of pendingRoutes for a prefix lead from routeTable to the
\* kernel's routes: the first fits the table, each fits the one before it,
\* the last agrees with the kernel, and without any the two are the same.
To(k) == pendingRoutes[k].re.dst
Adds(k) == pendingRoutes[k].type = "RMT_ADD"

OneRoute == \A r, s \in rt_cache : r.dst = s.dst => r = s

FirstFits ==
    \A k \in 1..Len(pendingRoutes) :
        (\A j \in 1..(k-1) : To(j) # To(k)) =>
            IF Adds(k) THEN routeTable[To(k)] = None
            ELSE routeTable[To(k)] # None /\ routeTable[To(k)].gw = pendingRoutes[k].re.gw

EachFits ==
    \A j, k \in 1..Len(pendingRoutes) :
        j < k /\ To(j) = To(k) /\ (\A m \in (j+1)..(k-1) : To(m) # To(k)) =>
            /\ Adds(j) <=> ~Adds(k)
            /\ Adds(j) => pendingRoutes[j].re.gw = pendingRoutes[k].re.gw

LastAgrees ==
    \A k \in 1..Len(pendingRoutes) :
        (\A j \in (k+1)..Len(pendingRoutes) : To(j) # To(k)) =>
            IF Adds(k) THEN [dst |-> To(k), gw |-> pendingRoutes[k].re.gw] \in rt_cache
            ELSE \A r \in rt_cache : r.dst # To(k)

NoneSame ==
    \A d \in Dsts :
        (\A k \in 1..Len(pendingRoutes) : To(k) # d) =>
            IF routeTable[d] = None THEN \A r \in rt_cache : r.dst # d
            ELSE [dst |-> d, gw |-> routeTable[d].gw] \in rt_cache

QueueInv == OneRoute /\ FirstFits /\ EachFits /\ LastAgrees /\ NoneSame

\* The inductive invariant of the steady case, on top of FlowInv.
SteadyInv == AllUp /\ RulesFollow /\ QueueInv

\* An event at the end of pendingRoutes is about the last state of its prefix.
LEMMA PushKeepsQueue ==
    ASSUME FlowInv, QueueInv, NEW e \in Pending, pendingRoutes' = Append(pendingRoutes, e),
           UNCHANGED routeTable,
           \/ /\ e.type = "RMT_ADD" /\ \A r \in rt_cache : r.dst # e.re.dst
              /\ rt_cache' = rt_cache \cup {[dst |-> e.re.dst, gw |-> e.re.gw]}
           \/ /\ e.type # "RMT_ADD" /\ [dst |-> e.re.dst, gw |-> e.re.gw] \in rt_cache
              /\ rt_cache' = rt_cache \ {[dst |-> e.re.dst, gw |-> e.re.gw]}
    PROVE  QueueInv'
<1> PICK n \in Nat : n = Len(pendingRoutes)
  BY DEF FlowInv, NlTyped
<1> DEFINE D == e.re.dst
           R == [dst |-> e.re.dst, gw |-> e.re.gw]
<1>1. /\ n \in Nat /\ Len(pendingRoutes') = n + 1
      /\ \A k \in 1..n : pendingRoutes'[k] = pendingRoutes[k]
      /\ pendingRoutes'[n + 1] = e
  BY DEF FlowInv, NlTyped
<1>2. R \in Route /\ R.dst = D /\ R.gw = e.re.gw /\ D \in Dsts /\ rt_cache \subseteq Route
  BY Zenon DEF FlowInv, KernelTyped, Pending, Entries, RouteEntry, Route
<1>3. /\ \A k \in 1..n : To(k)' = To(k) /\ (Adds(k)' <=> Adds(k)) /\ k # n + 1
      /\ To(n + 1)' = D /\ (Adds(n + 1)' <=> e.type = "RMT_ADD")
  BY <1>1 DEF To, Adds
<1>4. /\ \A r \in Route : r.dst # D => (r \in rt_cache' <=> r \in rt_cache)
      /\ e.type = "RMT_ADD" => R \in rt_cache' /\ \A r \in rt_cache : r.dst # D
      /\ e.type # "RMT_ADD" => R \in rt_cache /\ \A r \in rt_cache' : r.dst # D
      /\ rt_cache' \subseteq Route
  BY <1>2, Zenon DEF QueueInv, OneRoute
<1>5. OneRoute'
  BY <1>2, <1>4, Zenon DEF QueueInv, OneRoute
<1>6. \A r, s \in rt_cache : r.dst = s.dst => r = s
  BY Zenon DEF QueueInv, OneRoute
<1> HIDE DEF R
<1>7. FirstFits'
  <2> SUFFICES ASSUME NEW k \in 1..(n + 1), \A j \in 1..(k-1) : To(j)' # To(k)'
               PROVE  IF Adds(k)' THEN routeTable[To(k)'] = None
                      ELSE routeTable[To(k)'] # None /\ routeTable[To(k)'].gw = pendingRoutes'[k].re.gw
    BY <1>1, Zenon DEF FirstFits
  <2>1. CASE k \in 1..n
    BY <1>1, <1>3, <2>1 DEF QueueInv, FirstFits
  <2>2. CASE k = n + 1
    <3>1. \A j \in 1..n : To(j) # D
      BY <1>1, <1>3, <2>2
    <3>2. IF routeTable[D] = None THEN \A r \in rt_cache : r.dst # D
          ELSE [dst |-> D, gw |-> routeTable[D].gw] \in rt_cache
      BY <1>2, <3>1, Zenon DEF QueueInv, NoneSame
    <3>3. QED
      BY <1>1, <1>2, <1>3, <1>4, <1>6, <2>2, <3>2
  <2>3. QED
    BY <1>1, <2>1, <2>2
<1>8. EachFits'
  <2> SUFFICES ASSUME NEW j \in 1..(n + 1), NEW k \in 1..(n + 1), j < k, To(j)' = To(k)',
                      \A m \in (j+1)..(k-1) : To(m)' # To(k)'
               PROVE  /\ Adds(j)' <=> ~Adds(k)'
                      /\ Adds(j)' => pendingRoutes'[j].re.gw = pendingRoutes'[k].re.gw
    BY <1>1, Zenon DEF EachFits
  <2>1. j \in 1..n
    BY <1>1
  <2>2. CASE k \in 1..n
    BY <1>1, <1>3, <2>1, <2>2 DEF QueueInv, EachFits
  <2>3. CASE k = n + 1
    <3>1. To(j) = D /\ \A m \in (j+1)..n : To(m) # To(j)
      BY <1>1, <1>3, <2>1, <2>3
    <3>2. IF Adds(j) THEN [dst |-> D, gw |-> pendingRoutes[j].re.gw] \in rt_cache
          ELSE \A r \in rt_cache : r.dst # D
      BY <2>1, <3>1, Zenon DEF QueueInv, LastAgrees
    <3>3. QED
      BY <1>1, <1>2, <1>3, <1>4, <1>6, <2>1, <2>3, <3>2
  <2>4. QED
    BY <1>1, <2>2, <2>3
<1>9. LastAgrees'
  <2> SUFFICES ASSUME NEW k \in 1..(n + 1), \A j \in (k+1)..(n + 1) : To(j)' # To(k)'
               PROVE  IF Adds(k)' THEN [dst |-> To(k)', gw |-> pendingRoutes'[k].re.gw] \in rt_cache'
                      ELSE \A r \in rt_cache' : r.dst # To(k)'
    BY <1>1, Zenon DEF LastAgrees
  <2>1. CASE k \in 1..n
    <3>1. To(k) # D /\ \A j \in (k+1)..n : To(j) # To(k)
      BY <1>1, <1>3, <2>1
    <3>2. IF Adds(k) THEN [dst |-> To(k), gw |-> pendingRoutes[k].re.gw] \in rt_cache
          ELSE \A r \in rt_cache : r.dst # To(k)
      BY <2>1, <3>1, Zenon DEF QueueInv, LastAgrees
    <3>3. QED
      BY <1>1, <1>2, <1>3, <1>4, <2>1, <3>1, <3>2, Zenon
  <2>2. CASE k = n + 1
    BY <1>1, <1>2, <1>3, <1>4, <2>2, Zenon DEF R
  <2>3. QED
    BY <1>1, <2>1, <2>2
<1>10. NoneSame'
  <2> SUFFICES ASSUME NEW d \in Dsts, \A k \in 1..(n + 1) : To(k)' # d
               PROVE  IF routeTable[d] = None THEN \A r \in rt_cache' : r.dst # d
                      ELSE [dst |-> d, gw |-> routeTable[d].gw] \in rt_cache'
    BY <1>1, Zenon DEF NoneSame
  <2>1. d # D /\ \A k \in 1..n : To(k) # d
    BY <1>1, <1>3
  <2>2. IF routeTable[d] = None THEN \A r \in rt_cache : r.dst # d
        ELSE [dst |-> d, gw |-> routeTable[d].gw] \in rt_cache
    BY <2>1, Zenon DEF QueueInv, NoneSame
  <2>3. QED
    BY <1>2, <1>4, <2>1, <2>2, Zenon
<1>11. QED
  BY <1>5, <1>7, <1>8, <1>9, <1>10, Zenon DEF QueueInv

\* Taking the head off pendingRoutes and doing what it says.
LEMMA PopKeepsQueue ==
    ASSUME FlowInv, QueueInv, pendingRoutes # <<>>, pendingRoutes' = Tail(pendingRoutes),
           UNCHANGED rt_cache,
           routeTable' = [routeTable EXCEPT ![Head(pendingRoutes).re.dst] =
                             IF Head(pendingRoutes).type = "RMT_ADD" THEN Head(pendingRoutes).re ELSE None]
    PROVE  QueueInv'
<1> DEFINE n == Len(pendingRoutes)
           e == pendingRoutes[1]
           D == e.re.dst
<1>1. /\ n \in Nat \ {0} /\ Head(pendingRoutes) = e /\ Len(pendingRoutes') = n - 1
      /\ \A k \in 1..(n-1) : pendingRoutes'[k] = pendingRoutes[k+1]
      /\ e \in Pending
  BY DEF FlowInv, NlTyped
<1>2. D \in Dsts /\ e.re # None
  BY <1>1, FlowTableAssumption, Zenon DEF Pending, Entries, RouteEntry
<1>3. /\ \A d \in Dsts : d # D => routeTable'[d] = routeTable[d]
      /\ e.type = "RMT_ADD" => routeTable'[D] = e.re
      /\ e.type # "RMT_ADD" => routeTable'[D] = None
  BY <1>1, <1>2, Zenon DEF FlowInv, GwTyped
<1>4. /\ \A k \in 1..(n-1) : To(k)' = To(k+1) /\ (Adds(k)' <=> Adds(k+1)) /\ k + 1 \in 1..n
      /\ To(1) = D /\ (Adds(1) <=> e.type = "RMT_ADD") /\ 1 \in 1..n
      /\ \A k \in 1..n : To(k) \in Dsts
  <2>1. \A k \in 1..n : pendingRoutes[k] \in Pending
    BY <1>1 DEF FlowInv, NlTyped
  <2>2. \A k \in 1..n : To(k) \in Dsts
    BY <2>1, Zenon DEF To, Pending, Entries, RouteEntry
  <2>3. QED
    BY <1>1, <2>2 DEF To, Adds
<1> HIDE DEF n, e
<1>5. OneRoute'
  BY Zenon DEF QueueInv, OneRoute
<1>6. FirstFits'
  <2> SUFFICES ASSUME NEW k \in 1..(n-1), \A j \in 1..(k-1) : To(j)' # To(k)'
               PROVE  IF Adds(k)' THEN routeTable'[To(k)'] = None
                      ELSE routeTable'[To(k)'] # None /\ routeTable'[To(k)'].gw = pendingRoutes'[k].re.gw
    BY <1>1, Zenon DEF FirstFits
  <2>1. \A m \in 2..k : To(m) # To(k+1)
    <3> SUFFICES ASSUME NEW m \in 2..k PROVE To(m) # To(k+1)
      OBVIOUS
    <3>1. m - 1 \in 1..(k-1) /\ m - 1 \in 1..(n-1) /\ (m - 1) + 1 = m
      BY <1>1
    <3>2. QED
      BY <1>4, <3>1, Zenon
  <2>2. CASE To(k+1) = D
    <3>1. /\ Adds(1) <=> ~Adds(k+1)
          /\ Adds(1) => e.re.gw = pendingRoutes[k+1].re.gw
      BY <1>1, <1>4, <2>1, <2>2 DEF QueueInv, EachFits, n, e
    <3>2. QED
      BY <1>1, <1>2, <1>3, <1>4, <2>2, <3>1
  <2>3. CASE To(k+1) # D
    <3>1. \A m \in 1..k : To(m) # To(k+1)
      BY <1>1, <1>4, <2>1, <2>3
    <3>2. IF Adds(k+1) THEN routeTable[To(k+1)] = None
          ELSE routeTable[To(k+1)] # None /\ routeTable[To(k+1)].gw = pendingRoutes[k+1].re.gw
      BY <1>1, <1>4, <3>1 DEF QueueInv, FirstFits, n
    <3>3. QED
      BY <1>1, <1>3, <1>4, <2>3, <3>2, Zenon
  <2>4. QED
    BY <2>2, <2>3, Zenon
<1>7. EachFits'
  <2> SUFFICES ASSUME NEW j \in 1..(n-1), NEW k \in 1..(n-1), j < k, To(j)' = To(k)',
                      \A m \in (j+1)..(k-1) : To(m)' # To(k)'
               PROVE  /\ Adds(j)' <=> ~Adds(k)'
                      /\ Adds(j)' => pendingRoutes'[j].re.gw = pendingRoutes'[k].re.gw
    BY <1>1, Zenon DEF EachFits
  <2>1. \A m \in (j+2)..k : To(m) # To(k+1)
    <3> SUFFICES ASSUME NEW m \in (j+2)..k PROVE To(m) # To(k+1)
      OBVIOUS
    <3>1. m - 1 \in (j+1)..(k-1) /\ m - 1 \in 1..(n-1) /\ (m - 1) + 1 = m
      BY <1>1
    <3>2. QED
      BY <1>4, <3>1, Zenon
  <2>2. QED
    BY <1>1, <1>4, <2>1 DEF QueueInv, EachFits, n
<1>8. LastAgrees'
  <2> SUFFICES ASSUME NEW k \in 1..(n-1), \A j \in (k+1)..(n-1) : To(j)' # To(k)'
               PROVE  IF Adds(k)' THEN [dst |-> To(k)', gw |-> pendingRoutes'[k].re.gw] \in rt_cache
                      ELSE \A r \in rt_cache : r.dst # To(k)'
    BY <1>1, Zenon DEF LastAgrees
  <2>1. \A m \in (k+2)..n : To(m) # To(k+1)
    <3> SUFFICES ASSUME NEW m \in (k+2)..n PROVE To(m) # To(k+1)
      OBVIOUS
    <3>1. m - 1 \in (k+1)..(n-1) /\ m - 1 \in 1..(n-1) /\ (m - 1) + 1 = m
      BY <1>1
    <3>2. QED
      BY <1>4, <3>1, Zenon
  <2>2. QED
    BY <1>1, <1>4, <2>1 DEF QueueInv, LastAgrees, n
<1>9. NoneSame'
  <2> SUFFICES ASSUME NEW d \in Dsts, \A k \in 1..(n-1) : To(k)' # d
               PROVE  IF routeTable'[d] = None THEN \A r \in rt_cache : r.dst # d
                      ELSE [dst |-> d, gw |-> routeTable'[d].gw] \in rt_cache
    BY <1>1, Zenon DEF NoneSame
  <2>1. \A m \in 2..n : To(m) # d
    <3> SUFFICES ASSUME NEW m \in 2..n PROVE To(m) # d
      OBVIOUS
    <3>1. m - 1 \in 1..(n-1) /\ (m - 1) + 1 = m
      BY <1>1
    <3>2. QED
      BY <1>4, <3>1, Zenon
  <2>2. CASE d = D
    <3>1. IF Adds(1) THEN [dst |-> D, gw |-> e.re.gw] \in rt_cache
          ELSE \A r \in rt_cache : r.dst # D
      BY <1>1, <1>4, <2>1, <2>2 DEF QueueInv, LastAgrees, n, e
    <3>2. QED
      BY <1>2, <1>3, <1>4, <2>2, <3>1, Zenon
  <2>3. CASE d # D
    <3>1. \A m \in 1..n : To(m) # d
      BY <1>1, <1>4, <2>1, <2>3
    <3>2. QED
      BY <1>3, <2>3, <3>1, Zenon DEF QueueInv, NoneSame, n
  <2>4. QED
    BY <2>2, <2>3, Zenon
<1>10. QED
  BY <1>5, <1>6, <1>7, <1>8, <1>9, Zenon DEF QueueInv

\* The initial state of the steady case.
LEMMA InitSteadyInv == Steady /\ Init => SteadyInv
<1> SUFFICES ASSUME Steady, Init PROVE SteadyInv
  OBVIOUS
<1>1. 1..Len(pendingRoutes) = {}
  BY DEF Init
<1>2. AllUp
  BY <1>1, Zenon DEF Steady, Init, AllUp
<1>3. RulesFollow
  BY Zenon DEF Init, RulesFollow, Route
<1>4. QueueInv
  BY <1>1, Zenon DEF Init, QueueInv, OneRoute, FirstFits, EachFits, LastAgrees, NoneSame
<1>5. QED
  BY <1>2, <1>3, <1>4, Zenon DEF SteadyInv

\* What is about neither routes nor the queue.
LEMMA SameQueue ==
    ASSUME QueueInv, UNCHANGED <<rt_cache, pendingRoutes, routeTable>>
    PROVE  QueueInv'
<1>1. /\ \A k : To(k)' = To(k) /\ (Adds(k)' <=> Adds(k)) /\ pendingRoutes'[k] = pendingRoutes[k]
      /\ Len(pendingRoutes') = Len(pendingRoutes)
  BY Zenon DEF To, Adds
<1>2. OneRoute' /\ NoneSame'
  BY <1>1, Zenon DEF QueueInv, OneRoute, NoneSame
<1>3. FirstFits'
  BY <1>1, Zenon DEF QueueInv, FirstFits
<1>4. EachFits'
  BY <1>1 DEF QueueInv, EachFits
<1>5. LastAgrees'
  BY <1>1, Zenon DEF QueueInv, LastAgrees
<1>6. QED
  BY <1>2, <1>3, <1>4, <1>5, Zenon DEF QueueInv

\* The kernel's route events, each with the flag of an active interface.
LEMMA RouteEventsSteady ==
    ASSUME Steady, FlowInv, SteadyInv, NEW r \in Route,
           updateRouteTable_NEW(r) \/ updateRouteTable_DEL(r)
    PROVE  SteadyInv'
<1>1. PICK type \in {"RMT_ADD", "RMT_DELETE"} :
          /\ pushRoute(type, r)
          /\ UNCHANGED <<active, everUp, ipc, configs, changes, routeTable, unresolvedRoutes, rules, nl>>
          /\ \/ /\ type = "RMT_ADD" /\ \A s \in rt_cache : s.dst # r.dst
                /\ rt_cache' = rt_cache \cup {r}
             \/ /\ type # "RMT_ADD" /\ r \in rt_cache
                /\ rt_cache' = rt_cache \ {r}
  BY Zenon DEF updateRouteTable_NEW, updateRouteTable_DEL, Steady, ports, resolver
<1>2. r.dst \in Dsts /\ r.gw \in Hosts /\ r = [dst |-> r.dst, gw |-> r.gw]
      /\ IfOf[r.gw] \in active /\ IfOf[r.gw] \in everUp
  BY FlowTableAssumption, Zenon DEF Route, SteadyInv, AllUp, FlowInv, PortsTyped
<1>3. PICK up \in BOOLEAN :
          /\ pendingRoutes' = Append(pendingRoutes,
                                  [type |-> type, re |-> [dst |-> r.dst, gw |-> r.gw, up |-> up]])
          /\ up
  <2>1. (IfOf[r.gw] \in active) \in BOOLEAN
    OBVIOUS
  <2>2. QED
    BY <1>1, <1>2, <2>1, Zenon DEF pushRoute
<1> DEFINE e == [type |-> type, re |-> [dst |-> r.dst, gw |-> r.gw, up |-> up]]
<1>4. /\ e \in Pending /\ e.type = type /\ e.re.dst = r.dst /\ e.re.gw = r.gw /\ e.re.up
      /\ pendingRoutes' = Append(pendingRoutes, e)
  BY <1>2, <1>3, Zenon DEF Pending, Entries, RouteEntry
<1> HIDE DEF e
<1>5. QueueInv'
  BY <1>1, <1>2, <1>4, PushKeepsQueue, Zenon DEF SteadyInv
<1>6. AllUp'
  <2>1. /\ pendingRoutes \in Seq(Pending)
        /\ \A k \in 1..Len(pendingRoutes) : pendingRoutes[k].re.up
    BY Zenon DEF FlowInv, NlTyped, SteadyInv, AllUp
  <2>2. \A k \in 1..Len(pendingRoutes') : pendingRoutes'[k].re.up
    BY <1>4, <2>1
  <2>3. QED
    BY <1>1, <2>2, Zenon DEF SteadyInv, AllUp
<1>7. RulesFollow'
  BY <1>1, Zenon DEF SteadyInv, RulesFollow
<1>8. QED
  BY <1>5, <1>6, <1>7, Zenon DEF SteadyInv

\* NLListener's steps for a neighbour touch no rule of a prefix.
LEMMA HostsSteady ==
    ASSUME FlowInv, SteadyInv,
           NLSteps \/ \E h \in Hosts : \/ updateHostTable(h)
                                       \/ \E s \in {"none", "failed"} : neighbourLost(h, s)
    PROVE  SteadyInv'
<1>1. UNCHANGED <<active, ipc, configs, changes, rt_cache, pendingRoutes, routeTable, unresolvedRoutes>>
  BY Zenon DEF NLSteps, sendHostToHw, insertHost, stopND, updateHostTable, neighbourLost, kernel, ports, resolver
<1>2. QueueInv'
  BY <1>1, SameQueue, Zenon DEF SteadyInv
<1>3. nl'.pc = "send" => nl'.up
  <2>1. CASE NLSteps \/ \E h \in Hosts, s \in {"none", "failed"} : neighbourLost(h, s)
    BY <2>1, Zenon DEF NLSteps, sendHostToHw, insertHost, stopND, neighbourLost, SteadyInv, AllUp, FlowInv, NlTyped
  <2>2. ASSUME NEW h \in Hosts, updateHostTable(h)
        PROVE  nl'.pc = "send" => nl'.up
    <3>1. IfOf[h] \in active
      BY FlowTableAssumption, Zenon DEF SteadyInv, AllUp
    <3>2. UNCHANGED nl \/ \E up \in BOOLEAN : nl' = [pc |-> "send", host |-> h, up |-> up] /\ up
      <4>1. (IfOf[h] \in active) \in BOOLEAN
        OBVIOUS
      <4>2. QED
        BY <2>2, <3>1, <4>1, Zenon DEF updateHostTable
    <3>3. QED
      BY <3>2 DEF SteadyInv, AllUp
  <2>3. QED
    BY <2>1, <2>2, Zenon
<1>4. AllUp'
  BY <1>1, <1>3, Zenon DEF SteadyInv, AllUp
<1>5. \A r \in Route : r \in rules' <=> r \in rules
  <2>1. CASE UNCHANGED rules
    BY <2>1, Zenon
  <2>2. CASE sendHostToHw
    <3>1. sendToHw("RMT_ADD", nl.host, nl.host, nl.up) /\ nl.up /\ nl.host \in Hosts
      BY <2>2, Zenon DEF sendHostToHw, SteadyInv, AllUp, FlowInv, NlTyped
    <3>2. rules' = {r \in rules : r.dst # nl.host} \cup {[dst |-> nl.host, gw |-> nl.host]}
      BY <3>1, Zenon DEF sendToHw, sendRm
    <3>3. QED
      BY <3>1, <3>2, FlowTableAssumption DEF Route
  <2>3. QED
    BY <2>1, <2>2, Zenon DEF NLSteps, insertHost, stopND, updateHostTable, neighbourLost
<1>6. RulesFollow'
  BY <1>1, <1>5, Zenon DEF SteadyInv, RulesFollow
<1>7. QED
  BY <1>2, <1>4, <1>6, Zenon DEF SteadyInv

\* GWResolver takes a PendingRoute that fits routeTable.
LEMMA PendingSteady ==
    ASSUME FlowInv, SteadyInv, handlePending
    PROVE  SteadyInv'
<1> DEFINE e == Head(pendingRoutes)
           re == e.re
<1>1. /\ UNCHANGED <<rt_cache, changes, active, ipc, configs, hostTable, nl>>
      /\ pendingRoutes # <<>> /\ pendingRoutes' = Tail(pendingRoutes)
      /\ IF e.type = "RMT_ADD" THEN addRoute(re) ELSE deleteRoute(re)
  BY Zenon DEF handlePending, kernel, ports
<1>2. /\ pendingRoutes \in Seq(Pending) /\ 1 \in 1..Len(pendingRoutes) /\ e = pendingRoutes[1]
      /\ e \in Pending
  BY <1>1 DEF FlowInv, NlTyped
<1>3. re \in Entries /\ re.dst \in Dsts /\ re.gw \in Hosts /\ re # None /\ re.up
  BY <1>2, FlowTableAssumption, Zenon DEF Pending, Entries, RouteEntry, SteadyInv, AllUp
<1>4. IF e.type = "RMT_ADD" THEN routeTable[re.dst] = None
      ELSE routeTable[re.dst] # None /\ routeTable[re.dst].gw = re.gw
  <2>1. \A j \in 1..(1-1) : To(j) # To(1)
    OBVIOUS
  <2>2. IF Adds(1) THEN routeTable[To(1)] = None
        ELSE routeTable[To(1)] # None /\ routeTable[To(1)].gw = pendingRoutes[1].re.gw
    BY <1>2, <2>1, Zenon DEF SteadyInv, QueueInv, FirstFits
  <2>3. QED
    BY <1>2, <2>2, Zenon DEF To, Adds
<1>5. routeTable' = [routeTable EXCEPT ![re.dst] = IF e.type = "RMT_ADD" THEN re ELSE None]
  BY <1>1, <1>4, Zenon DEF addRoute, deleteRoute
<1>6. QueueInv'
  BY <1>1, <1>5, PopKeepsQueue, Zenon DEF SteadyInv
<1>7. AllUp'
  <2>1. \A k \in 1..Len(pendingRoutes') : pendingRoutes'[k].re.up
    <3>1. \A k \in 1..Len(pendingRoutes) : pendingRoutes[k].re.up
      BY Zenon DEF SteadyInv, AllUp
    <3>2. QED
      BY <1>1, <1>2, <3>1
  <2>2. \A d \in Dsts : routeTable'[d] # None => routeTable'[d].up
    BY <1>3, <1>5, Zenon DEF SteadyInv, AllUp, FlowInv, GwTyped
  <2>3. QED
    BY <1>1, <2>1, <2>2, Zenon DEF SteadyInv, AllUp
<1> HIDE DEF e
<1>8. /\ \A d \in Dsts : d # re.dst => routeTable'[d] = routeTable[d]
      /\ e.type = "RMT_ADD" => routeTable'[re.dst] = re
      /\ e.type # "RMT_ADD" => routeTable'[re.dst] = None
  BY <1>3, <1>5, Zenon DEF FlowInv, GwTyped
<1>9. RulesFollow'
  <2> SUFFICES ASSUME NEW r \in Route
               PROVE  r \in rules' <=> /\ routeTable'[r.dst] # None /\ routeTable'[r.dst].gw = r.gw
                                       /\ r.dst \notin unresolvedRoutes'
    BY Zenon DEF RulesFollow
  <2>1. r.dst \in Dsts /\ r = [dst |-> r.dst, gw |-> r.gw]
    BY Zenon DEF Route
  <2>2. r \in rules <=> /\ routeTable[r.dst] # None /\ routeTable[r.dst].gw = r.gw
                        /\ r.dst \notin unresolvedRoutes
    BY Zenon DEF SteadyInv, RulesFollow
  <2>3. /\ r \in rules => r.gw \in hostTable
        /\ re.dst \in unresolvedRoutes => routeTable[re.dst] # None
    BY <2>1, Zenon DEF FlowInv, RulesTyped, GatewayKnown, GwTyped
  <2>4. CASE e.type = "RMT_ADD"
    <3>1. /\ re.gw \in hostTable =>
               rules' = {s \in rules : s.dst # re.dst} \cup {[dst |-> re.dst, gw |-> re.gw]}
               /\ UNCHANGED unresolvedRoutes
          /\ re.gw \notin hostTable =>
               UNCHANGED rules /\ unresolvedRoutes' = unresolvedRoutes \cup {re.dst}
      BY <1>1, <1>3, <1>4, <2>4, Zenon DEF addRoute, sendRouteToHw, sendToHw, sendRm
    <3>2. QED
      BY <1>3, <1>4, <1>8, <2>1, <2>2, <2>3, <2>4, <3>1
  <2>5. CASE e.type # "RMT_ADD"
    <3>1. /\ re.gw \in hostTable => rules' = {s \in rules : s.dst # re.dst}
          /\ re.gw \notin hostTable => UNCHANGED rules
          /\ unresolvedRoutes' = unresolvedRoutes \ {re.dst}
      BY <1>1, <1>3, <1>4, <2>5, Zenon DEF deleteRoute, sendRouteToHw, sendToHw, sendRm
    <3>2. QED
      BY <1>3, <1>4, <1>8, <2>1, <2>2, <2>3, <2>5, <3>1, Zenon
  <2>6. QED
    BY <2>4, <2>5, Zenon
<1>10. QED
  BY <1>6, <1>7, <1>9, Zenon DEF SteadyInv

\* GWResolver sends a route whose gateway is known by now.
LEMMA RetriesSteady ==
    ASSUME FlowInv, SteadyInv,
           startRetries \/ resolveGateway \/ endRetries \/ \E d \in Dsts : retryRoute(d)
    PROVE  SteadyInv'
<1>1. UNCHANGED <<rt_cache, changes, active, ipc, configs, hostTable, nl, pendingRoutes, routeTable>>
  BY Zenon DEF startRetries, resolveGateway, endRetries, retryRoute, kernel, ports
<1>2. QueueInv' /\ AllUp'
  BY <1>1, SameQueue, Zenon DEF SteadyInv, AllUp
<1>3. CASE UNCHANGED <<unresolvedRoutes, rules>>
  BY <1>1, <1>2, <1>3, Zenon DEF SteadyInv, RulesFollow
<1>4. ASSUME NEW d \in Dsts, retryRoute(d), routeTable[d].gw \in hostTable
      PROVE  RulesFollow'
  <2>1. d \in unresolvedRoutes /\ routeTable[d] # None /\ routeTable[d].dst = d /\ routeTable[d].up
    BY <1>4, Zenon DEF FlowInv, GwTyped, retryRoute, SteadyInv, AllUp
  <2>2. /\ rules' = {s \in rules : s.dst # d} \cup {[dst |-> d, gw |-> routeTable[d].gw]}
        /\ unresolvedRoutes' = unresolvedRoutes \ {d}
    BY <1>4, <2>1, Zenon DEF retryRoute, sendRouteToHw, sendToHw, sendRm
  <2>3. \A r \in Route : r = [dst |-> r.dst, gw |-> r.gw]
    BY DEF Route
  <2>4. QED
    BY <1>1, <2>1, <2>2, <2>3 DEF SteadyInv, RulesFollow
<1>5. QED
  BY <1>2, <1>3, <1>4, Zenon DEF SteadyInv, startRetries, resolveGateway, endRetries, retryRoute

\* Every step of the steady case keeps its invariant.
LEMMA NextSteadyInv == Steady /\ FlowInv /\ SteadyInv /\ [Next]_vars => SteadyInv'
<1> SUFFICES ASSUME Steady, FlowInv, SteadyInv, [Next]_vars PROVE SteadyInv'
  OBVIOUS
<1>1. CASE UNCHANGED vars
  <2>1. QueueInv'
    BY <1>1, SameQueue, Zenon DEF vars, kernel, ports, resolver, SteadyInv
  <2>2. QED
    BY <1>1, <2>1, Zenon DEF vars, kernel, ports, resolver, SteadyInv, AllUp, RulesFollow
<1>2. ~IPCSteps
  BY Zenon DEF IPCSteps, releaseCachedRm, endPortConfig, notify_port_up, SteadyInv, AllUp
<1>3. \A p \in Ports : ~deactivateInterfaces(p) /\ ~sendAllInterfaceToControllerRouteMods(p)
  BY DEF deactivateInterfaces, sendAllInterfaceToControllerRouteMods, SteadyInv, AllUp, Steady
<1>4. \A r \in Route, g \in Hosts : ~updateRouteTable_CHANGE(r, g)
  BY DEF updateRouteTable_CHANGE, SteadyInv, AllUp, Steady
<1>5. CASE Next
  BY Zenon, <1>2, <1>3, <1>4, <1>5, RouteEventsSteady, HostsSteady, PendingSteady, RetriesSteady
     DEF Next, GWSteps
<1>6. QED
  BY <1>1, <1>5, Zenon

\* With one route to a prefix, no change of gateway in place and interfaces
\* that stay active, the quiet client has installed exactly the kernel's
\* routes whose gateway it knows, however many routes and neighbours came and
\* went and in whatever order NLListener and GWResolver handled them.
THEOREM SteadyTheorem == Steady => (Spec => []RulesMatchRoutes)
<1> SUFFICES ASSUME Steady PROVE Spec => []RulesMatchRoutes
  OBVIOUS
<1>1. FlowInv /\ SteadyInv => RulesMatchRoutes
  <2> SUFFICES ASSUME FlowInv, SteadyInv, Quiet
               PROVE  {r \in rules : r.dst \in Dsts} = {r \in rt_cache : r.gw \in hostTable}
    BY Zenon DEF RulesMatchRoutes
  <2>1. \A d \in Dsts : IF routeTable[d] = None THEN \A r \in rt_cache : r.dst # d
                        ELSE [dst |-> d, gw |-> routeTable[d].gw] \in rt_cache
    <3>1. 1..Len(pendingRoutes) = {}
      BY DEF Quiet
    <3>2. QED
      BY <3>1, Zenon DEF SteadyInv, QueueInv, NoneSame
  <2>2. \A r \in Route : r \in rules <=> /\ routeTable[r.dst] # None /\ routeTable[r.dst].gw = r.gw
                                         /\ r.dst \notin unresolvedRoutes
    BY Zenon DEF SteadyInv, RulesFollow
  <2>3. ASSUME NEW r \in rules, r.dst \in Dsts
        PROVE  r \in rt_cache /\ r.gw \in hostTable
    <3>1. r \in Route /\ r = [dst |-> r.dst, gw |-> r.gw] /\ r.gw \in hostTable
      BY <2>3, Zenon DEF FlowInv, RulesTyped, GatewayKnown, Route
    <3>2. QED
      BY <2>1, <2>2, <2>3, <3>1, Zenon
  <2>4. ASSUME NEW r \in rt_cache, r.gw \in hostTable
        PROVE  r \in rules /\ r.dst \in Dsts
    <3>1. r \in Route /\ r.dst \in Dsts
      BY Zenon DEF FlowInv, KernelTyped, Route
    <3>2. routeTable[r.dst] # None /\ [dst |-> r.dst, gw |-> routeTable[r.dst].gw] \in rt_cache
      BY <2>1, <3>1, Zenon
    <3>3. r = [dst |-> r.dst, gw |-> routeTable[r.dst].gw]
      BY <3>2, Zenon DEF SteadyInv, QueueInv, OneRoute
    <3>4. routeTable[r.dst].gw = r.gw
      BY <3>3
    <3>5. QED
      BY <2>2, <2>4, <3>1, <3>2, <3>4, Zenon DEF Quiet
  <2>5. QED
    BY <2>3, <2>4, Zenon
<1>2. Init => FlowInv /\ SteadyInv
  BY InitFlowInv, InitSteadyInv, Zenon
<1>3. FlowInv /\ SteadyInv /\ [Next]_vars => (FlowInv /\ SteadyInv)'
  BY NextFlowInv, NextSteadyInv, Zenon
<1>4. QED
  BY <1>1, <1>2, <1>3, PTL DEF Spec
==============================================================================
