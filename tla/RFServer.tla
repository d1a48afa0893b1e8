------------------------------- MODULE RFServer -------------------------------
(***************************************************************************)
(* The RFServer process (rfserver/rfserver.py) with the part of the         *)
(* RFClients it drives: which ports are active.                             *)
(*                                                                          *)
(* Two listener threads call RFServer.process at the same time, one per IPC *)
(* channel: "client" handles PortRegister and RouteMod, "proxy" handles     *)
(* DatapathPortRegister, DatapathDown and VirtualPlaneMap.  They share      *)
(* rftable, isltable and route_mod_translator without a lock.  A lookup     *)
(* returns a fresh copy of a row (BaseEntry.from_dict) and set_entry writes *)
(* the whole row back, so a handler is a read step followed later by a      *)
(* write step; each table call is one atomic step.                          *)
(***************************************************************************)
EXTENDS Naturals, Sequences, FiniteSets, RFEntry

CONSTANTS
    VmPorts,        \* (vm_id, vm_port) of every client interface
    DpPorts,        \* (ct_id, dp_id, dp_port) of every switch port
    DpOf,           \* datapath of each switch port
    Rfvs,           \* datapaths that are RouteFlow virtual switches (is_rfvs)
    Config,         \* RFConfig: the switch port of each VM port, or None
    Eths,           \* Ethernet addresses of the links
    IslConf,        \* RFISLConf: records [loc, rem] of ends [port, eth]
    VsOf,           \* virtual-switch port each VM port is plugged into
    Overlap,        \* FALSE: only schedules where handlers never overlap
    MaxDowns,       \* bound: DatapathDown messages
    MaxRouteMods,   \* bound: RouteMods handled
    MaxRestarts     \* bound: client restarts

VARIABLES
    rftable,        \* sequence of rows, indexed by allocation order
    isltable,       \* sequence of ISL rows
    route_mod_translator,   \* datapaths with a translator
    dp_q,           \* what was put on dp_q for each datapath, in order
    pc, work, todo, \* control point and local variables of each thread
    announced,      \* switch ports the proxy registered since the last down
    downs, rms, restarts,   \* how often the bounded events happened
    registering,    \* VM ports whose PortRegister is still to be handled
    active,         \* VM ports with Interface.active at their client
    sent_rm,        \* VM ports for which RouteMods may be in flight
    s2c             \* PortConfig messages on their way to each VM port

vars == <<rftable, isltable, route_mod_translator, dp_q, pc, work, todo, announced,
          downs, rms, restarts, registering, active, sent_rm, s2c>>

tables == <<rftable, isltable, route_mod_translator, dp_q>>
clients == <<registering, active, sent_rm, s2c, restarts>>

ISL == INSTANCE RFISLEntry

Threads == {"client", "proxy"}
Labels == {"idle", "dead", "save", "RMT_CONTROLLER", "RMT_ADD", "config", "lookup", "isl", "down",
           "reset", "map"}
Dps == {DpOf[p] : p \in DpPorts}
Ends == {c.loc : c \in IslConf} \cup {c.rem : c \in IslConf}

Rows == [vm : VmPorts \cup {None}, dp : DpPorts \cup {None},
         vs : {VsOf[vm] : vm \in VmPorts} \cup {None}]

\* The local variables of a handler between its read and its write: the port
\* of the message and the row copy to save, with its id (0 for a new row).
Work == [port : VmPorts \cup DpPorts \cup Dps \cup {None}, id : Nat, entry : Rows]
NoWork == [port |-> None, id |-> 0, entry |-> Entry(None, None)]

ASSUME ConfigAssumption ==
    /\ Config \in [VmPorts -> DpPorts \cup {None}]
    /\ \A v, w \in VmPorts : Config[v] = Config[w] /\ Config[v] # None => v = w
    /\ None \notin VmPorts \cup DpPorts \cup {VsOf[v] : v \in VmPorts}
    /\ VmPorts \cap DpPorts = {} /\ "config" \notin VmPorts

\* The two ends of a link are ports of different datapaths.
ASSUME IslAssumption ==
    /\ IslConf \subseteq [loc : [port : DpPorts, eth : Eths], rem : [port : DpPorts, eth : Eths]]
    /\ \A c \in IslConf : DpOf[c.loc.port] # DpOf[c.rem.port]
    /\ None \notin Ends

ASSUME BoundsAssumption ==
    /\ Overlap \in BOOLEAN
    /\ MaxDowns \in Nat /\ MaxRouteMods \in Nat /\ MaxRestarts \in Nat

------------------------------------------------------------------------------
(* RFConfig and RFTable lookups; each returns an arbitrary matching row.    *)

\* Mutants: the configuration is looked up by datapath; an idle datapath port
\* is not found; every set_entry adds a row.
VmFor_by_dp(p) == {v \in VmPorts : Config[v] # None /\ DpOf[Config[v]] = DpOf[p]}
DpRows_with_vm(p) == {i \in DOMAIN rftable : rftable[i].dp = p /\ rftable[i].vm # None}
set_entry_without_id(table, id, e) == Append(table, e)

VmFor(p) == {v \in VmPorts : Config[v] = p}
VmRows(vm) == {i \in DOMAIN rftable : rftable[i].vm = vm}
DpRows(p) == {i \in DOMAIN rftable : rftable[i].dp = p}
DpEntries(dp) == {i \in DOMAIN rftable : rftable[i].dp # None /\ DpOf[rftable[i].dp] = dp}
IslEntries(dp) == {i \in DOMAIN isltable :
                     isltable[i].loc # None /\ DpOf[isltable[i].loc.port] = dp}
IslRemotes(dp) == {i \in DOMAIN isltable :
                     isltable[i].rem # None /\ DpOf[isltable[i].rem.port] = dp}
IslConfFor(p) == {c \in IslConf : p \in {c.loc.port, c.rem.port}}

set_entry(table, id, e) == IF id = 0 THEN Append(table, e) ELSE [table EXCEPT ![id] = e]

\* The other listener is between messages (or its thread is gone).
OtherIdle(t) == \A u \in Threads \ {t} : pc[u] \in {"idle", "dead"}
Free(t) == pc[t] = "idle" /\ (Overlap \/ OtherIdle(t))
Goto(t, l) == pc' = [pc EXCEPT ![t] = l]
Save(t, l, port, id, e) ==
    Goto(t, l) /\ work' = [work EXCEPT ![t] = [port |-> port, id |-> id, entry |-> e]]
Done(t) == Goto(t, "idle") /\ work' = [work EXCEPT ![t] = NoWork]

------------------------------------------------------------------------------
(* Client channel: PortRegister.                                            *)

\* Looks up the configured switch port and decides between REGISTER_IDLE,
\* REGISTER_ASSOCIATED and nothing; set_entry comes later (save_entry).
register_vm_port(vm) ==
    /\ Free("client") /\ vm \in registering
    /\ registering' = registering \ {vm}
    /\ \/ /\ Config[vm] = None \/ DpRows(Config[vm]) = {}
          /\ Save("client", "save", vm, 0, Entry(vm, None))
       \/ /\ Config[vm] # None
          /\ \E i \in DpRows(Config[vm]) :
               IF get_status(rftable[i]) = RFENTRY_IDLE_DP_PORT
               THEN Save("client", "save", vm, i, associate(rftable[i], vm))
               ELSE UNCHANGED <<pc, work>>
    /\ UNCHANGED <<tables, todo, announced, downs, rms, restarts, active, sent_rm, s2c>>

\* self.rftable.set_entry(entry) at the end of either registration handler.
save_entry(t) ==
    /\ pc[t] = "save"
    /\ rftable' = set_entry(rftable, work[t].id, work[t].entry)
    /\ Done(t)
    /\ UNCHANGED <<isltable, route_mod_translator, dp_q, todo, announced, downs, rms, clients>>

(* Client channel: RouteMod.                                                *)

\* The translator is fetched from entry.dp_id before the row is tested: no
\* row (AttributeError), an idle row or a datapath without a translator
\* (KeyError) ends the listener thread, which has no handler for it.
register_route_mod(vm, mod) ==
    /\ Free("client") /\ vm \in sent_rm /\ rms < MaxRouteMods
    /\ rms' = rms + 1
    /\ \/ /\ VmRows(vm) = {}
          /\ Goto("client", "dead") /\ UNCHANGED work
       \/ \E i \in VmRows(vm) :
            IF rftable[i].dp # None /\ DpOf[rftable[i].dp] \in route_mod_translator
            THEN Save("client", mod, vm, i, rftable[i])
            ELSE Goto("client", "dead") /\ UNCHANGED work
    /\ UNCHANGED <<tables, todo, announced, downs, clients>>

\* Ports of a datapath that get a rule for a route: handle_route_mod and
\* handle_isl_route_mod emit one RouteMod per other active port.
ActivePorts(dp) == {rftable[i].dp : i \in {j \in DpEntries(dp) :
                                             get_status(rftable[j]) = RFENTRY_ACTIVE}}
ActiveIslPorts(dp) == {isltable[i].loc.port : i \in {j \in IslEntries(dp) :
                                             ISL!get_status(isltable[j]) = ISL!RFISL_ACTIVE}}
RemoteDps(dp) == {DpOf[isltable[i].loc.port] : i \in {j \in IslRemotes(dp) :
                                             ISL!get_status(isltable[j]) = ISL!RFISL_ACTIVE}}

queue_rms(targets) ==
    dp_q' = [d \in Dps |-> IF d \in targets THEN Append(dp_q[d], work["client"].port) ELSE dp_q[d]]

\* RMT_CONTROLLER: a rule on the port's own datapath.
handle_controller_route_mod ==
    /\ pc["client"] = "RMT_CONTROLLER"
    /\ queue_rms({DpOf[work["client"].entry.dp]})
    /\ Done("client")
    /\ UNCHANGED <<rftable, isltable, route_mod_translator, todo, announced, downs, rms, clients>>

\* RMT_ADD and RMT_DELETE: rules on the port's own datapath and on those
\* linked to it.  A linked datapath without a translator is another KeyError.
handle_route_mod ==
    LET out == work["client"].entry.dp
        dp == DpOf[out]
        own == {d \in {dp} : (ActivePorts(d) \cup ActiveIslPorts(d)) \ {out} # {}}
        linked == {d \in RemoteDps(dp) : ActivePorts(d) # {}}
    IN  /\ pc["client"] = "RMT_ADD"
        /\ IF RemoteDps(dp) \subseteq route_mod_translator
           THEN queue_rms(own \cup linked) /\ Done("client")
           ELSE Goto("client", "dead") /\ UNCHANGED <<work, dp_q>>
        /\ UNCHANGED <<rftable, isltable, route_mod_translator, todo, announced, downs, rms,
                       clients>>

------------------------------------------------------------------------------
(* Proxy channel: DatapathPortRegister.                                     *)

\* Mutant: a datapath is configured again with every port it registers.
config_dp_always(dp) == DpEntries(dp) # {} \/ IslEntries(dp) # {}

\* A datapath gets its translator when a port of it registers while another
\* one already is in a table, and never again.
config_dp(dp) ==
    /\ DpEntries(dp) # {} \/ IslEntries(dp) # {}
    /\ dp \notin route_mod_translator

register_dp_port(p) ==
    LET dp == DpOf[p]
    IN  /\ Free("proxy") /\ p \notin announced
        /\ announced' = announced \cup {p}
        /\ \/ /\ dp \in Rfvs
              /\ UNCHANGED <<pc, work, route_mod_translator>>
           \/ /\ dp \notin Rfvs /\ config_dp(dp)
              /\ route_mod_translator' = route_mod_translator \cup {dp}
              /\ Save("proxy", "config", p, 0, NoWork.entry)
           \/ /\ dp \notin Rfvs /\ ~config_dp(dp)
              /\ Save("proxy", "lookup", p, 0, NoWork.entry)
              /\ UNCHANGED route_mod_translator
        /\ UNCHANGED <<rftable, isltable, dp_q, todo, downs, rms, clients>>

\* send_datapath_config_messages: delete everything, then the base rules.
send_datapath_config_messages ==
    LET dp == DpOf[work["proxy"].port]
    IN  /\ pc["proxy"] = "config"
        /\ dp_q' = [dp_q EXCEPT ![dp] = Append(@, "config")]
        /\ Goto("proxy", "lookup")
        /\ UNCHANGED <<rftable, isltable, route_mod_translator, work, todo, announced, downs, rms,
                       clients>>

\* The rest of register_dp_port, up to set_entry.
lookup_dp_port ==
    LET p == work["proxy"].port
    IN  /\ pc["proxy"] = "lookup"
        /\ \/ /\ VmFor(p) = {} /\ IslConfFor(p) # {}
              /\ todo' = IslConfFor(p)
              /\ Goto("proxy", "isl") /\ UNCHANGED work
           \/ /\ \/ VmFor(p) = {} /\ IslConfFor(p) = {}
                 \/ \E vm \in VmFor(p) : VmRows(vm) = {}
              /\ Save("proxy", "save", p, 0, Entry(None, p)) /\ UNCHANGED todo
           \/ /\ \E vm \in VmFor(p) : \E i \in VmRows(vm) :
                   IF get_status(rftable[i]) = RFENTRY_IDLE_VM_PORT
                   THEN Save("proxy", "save", p, i, associate(rftable[i], p))
                   ELSE Done("proxy")
              /\ UNCHANGED todo
        /\ UNCHANGED <<tables, announced, downs, rms, clients>>

\* _register_islconf, one configuration entry per step.  The peer is the end
\* on the other datapath; isltable is written by this thread only.
register_islconf_entry(c) ==
    LET p == work["proxy"].port
        far == DpOf[c.rem.port] # DpOf[p]
        peer == IF far THEN c.rem ELSE c.loc
        me == [port |-> p, eth |-> IF far THEN c.loc.eth ELSE c.rem.eth]
        found == {i \in DOMAIN isltable : isltable[i].loc = peer}
        joined(i) == set_entry(isltable, i, ISL!associate(isltable[i], me))
        back == {j \in DOMAIN isltable : isltable[j].rem = peer}
    IN  \/ /\ found = {}
           /\ isltable' = set_entry(isltable, 0, ISL!Entry(me, None))
        \/ \E i \in found :
             IF ISL!get_status(isltable[i]) = ISL!RFISL_IDLE_DP_PORT
             THEN \/ /\ back = {}
                     /\ isltable' = set_entry(joined(i), 0, ISL!Entry(me, peer))
                  \/ \E j \in back :
                       isltable' = set_entry(joined(i), j, ISL!associate(joined(i)[j], me))
             ELSE UNCHANGED isltable

register_islconf ==
    /\ pc["proxy"] = "isl"
    /\ \E c \in todo :
         /\ register_islconf_entry(c)
         /\ todo' = todo \ {c}
         /\ IF todo = {c} THEN Done("proxy") ELSE UNCHANGED <<pc, work>>
    /\ UNCHANGED <<rftable, route_mod_translator, dp_q, announced, downs, rms, clients>>

(* Proxy channel: DatapathDown.                                             *)

\* set_dp_down: collect the rows of the datapath, then take each port down.
set_dp_down(dp) ==
    /\ Free("proxy") /\ downs < MaxDowns
    /\ \E p \in announced : DpOf[p] = dp
    /\ downs' = downs + 1
    /\ announced' = {p \in announced : DpOf[p] # dp}
    /\ todo' = {[row |-> i, port |-> rftable[i].dp] : i \in DpEntries(dp)}
    /\ Save("proxy", "down", dp, 0, NoWork.entry)
    /\ UNCHANGED <<tables, rms, clients>>

\* set_dp_port_down, the lookup: a second one, by port.
set_dp_port_down ==
    /\ pc["proxy"] = "down"
    /\ \E t \in todo :
         /\ todo' = todo \ {t}
         /\ IF DpRows(t.port) = {}
            THEN UNCHANGED <<pc, work>>
            ELSE \E i \in DpRows(t.port) :
                   Save("proxy", "reset", work["proxy"].port, i, rftable[i])
    /\ UNCHANGED <<tables, announced, downs, rms, clients>>

\* set_dp_port_down, the write, and reset_vm_port.
reset_vm_port ==
    LET w == work["proxy"]
    IN  /\ pc["proxy"] = "reset"
        /\ rftable' = set_entry(rftable, w.id, make_idle(w.entry, RFENTRY_IDLE_VM_PORT))
        /\ s2c' = [vm \in VmPorts |-> IF vm = w.entry.vm THEN Append(s2c[vm], "RESET")
                                                         ELSE s2c[vm]]
        /\ Save("proxy", "down", w.port, 0, NoWork.entry)
        /\ UNCHANGED <<isltable, route_mod_translator, dp_q, todo, announced, downs, rms, restarts,
                       registering, active, sent_rm>>

\* The two ISL loops at the end of set_dp_down.
idle_isl_rows ==
    LET dp == work["proxy"].port
        local(i, e) == IF i \in IslEntries(dp) THEN ISL!make_idle(e, ISL!RFISL_IDLE_REMOTE) ELSE e
        remote(i, e) == IF i \in IslRemotes(dp) THEN ISL!make_idle(e, ISL!RFISL_IDLE_DP_PORT) ELSE e
    IN  /\ pc["proxy"] = "down" /\ todo = {}
        /\ isltable' = [i \in DOMAIN isltable |-> remote(i, local(i, isltable[i]))]
        /\ Done("proxy")
        /\ UNCHANGED <<rftable, route_mod_translator, dp_q, todo, announced, downs, rms, clients>>

(* Proxy channel: VirtualPlaneMap.                                          *)

\* map_port, the lookup.  A row that is not associated is left alone.
map_port(vm) ==
    /\ Free("proxy")
    /\ \E i \in VmRows(vm) :
         /\ get_status(rftable[i]) = RFENTRY_ASSOCIATED
         /\ Save("proxy", "map", vm, i, activate(rftable[i], VsOf[vm]))
    /\ UNCHANGED <<tables, todo, announced, downs, rms, clients>>

\* map_port, the write and the PortConfig; the DataPlaneMap goes to the proxy.
map_success ==
    LET w == work["proxy"]
    IN  /\ pc["proxy"] = "map"
        /\ rftable' = set_entry(rftable, w.id, w.entry)
        /\ s2c' = [s2c EXCEPT ![w.port] = Append(@, "MAP_SUCCESS")]
        /\ Done("proxy")
        /\ UNCHANGED <<isltable, route_mod_translator, dp_q, todo, announced, downs, rms, restarts,
                       registering, active, sent_rm>>

------------------------------------------------------------------------------
(* The client: RFClient::process for PortConfig, and a restart.             *)

process_port_config(vm) ==
    /\ s2c[vm] # <<>>
    /\ s2c' = [s2c EXCEPT ![vm] = Tail(@)]
    /\ IF Head(s2c[vm]) = "MAP_SUCCESS"
       THEN active' = active \cup {vm} /\ sent_rm' = sent_rm \cup {vm}
       ELSE active' = active \ {vm} /\ UNCHANGED sent_rm
    /\ UNCHANGED <<tables, pc, work, todo, announced, downs, rms, restarts, registering>>

\* A new RFClient registers its ports again; what the old one was being sent
\* may or may not reach the new one.
restart_client(vm) ==
    /\ restarts < MaxRestarts /\ vm \notin registering
    /\ restarts' = restarts + 1
    /\ registering' = registering \cup {vm}
    /\ active' = active \ {vm}
    /\ \E q \in {s2c[vm], <<>>} : s2c' = [s2c EXCEPT ![vm] = q]
    /\ UNCHANGED <<tables, pc, work, todo, announced, downs, rms, sent_rm>>

------------------------------------------------------------------------------
Init ==
    /\ rftable = <<>> /\ isltable = <<>> /\ route_mod_translator = {}
    /\ dp_q = [dp \in Dps |-> <<>>]
    /\ pc = [t \in Threads |-> "idle"]
    /\ work = [t \in Threads |-> NoWork]
    /\ todo = {} /\ announced = {} /\ downs = 0 /\ rms = 0 /\ restarts = 0
    /\ registering = VmPorts
    /\ active = {} /\ sent_rm = {}
    /\ s2c = [vm \in VmPorts |-> <<>>]

ClientSteps == save_entry("client") \/ handle_controller_route_mod \/ handle_route_mod

ProxySteps ==
    \/ save_entry("proxy") \/ send_datapath_config_messages \/ lookup_dp_port
    \/ register_islconf \/ set_dp_port_down \/ reset_vm_port \/ idle_isl_rows \/ map_success

Next ==
    \/ ClientSteps
    \/ ProxySteps
    \/ \E vm \in VmPorts :
         \/ register_vm_port(vm) \/ map_port(vm)
         \/ \E mod \in {"RMT_CONTROLLER", "RMT_ADD"} : register_route_mod(vm, mod)
         \/ process_port_config(vm) \/ restart_client(vm)
    \/ \E p \in DpPorts : register_dp_port(p)
    \/ \E dp \in Dps : set_dp_down(dp)

Spec == Init /\ [][Next]_vars

\* Threads keep running, queued PortConfigs are delivered, and PortMapper
\* repeats the mapping packet of an inactive port until it is answered.
Fairness ==
    /\ WF_vars(ClientSteps) /\ WF_vars(ProxySteps)
    /\ \A vm \in VmPorts : WF_vars(map_port(vm)) /\ WF_vars(process_port_config(vm))

FairSpec == Spec /\ Fairness

------------------------------------------------------------------------------
TypeOK ==
    /\ rftable \in Seq(Rows)
    /\ isltable \in Seq([loc : Ends \cup {None}, rem : Ends \cup {None}])
    /\ route_mod_translator \subseteq Dps
    /\ dp_q \in [Dps -> Seq(VmPorts \cup {"config"})]
    /\ pc \in [Threads -> Labels]
    /\ work \in [Threads -> Work]
    /\ todo \subseteq IslConf \cup [row : Nat, port : DpPorts]
    /\ announced \subseteq DpPorts
    /\ downs \in 0..MaxDowns /\ rms \in 0..MaxRouteMods /\ restarts \in 0..MaxRestarts
    /\ registering \subseteq VmPorts /\ active \subseteq VmPorts /\ sent_rm \subseteq VmPorts
    /\ s2c \in [VmPorts -> Seq({"RESET", "MAP_SUCCESS"})]

\* A row never ties a VM port to a switch port other than the one RFConfig
\* gives it, whatever the two listener threads interleave (register_vm_port
\* and register_dp_port write back rows they read earlier).
ConfigRespected ==
    \A i \in DOMAIN rftable :
        rftable[i].vm # None /\ rftable[i].dp # None => Config[rftable[i].vm] = rftable[i].dp

\* Whether the server has an active row for a VM port.
Mapped(vm) == \E i \in VmRows(vm) : get_status(rftable[i]) = RFENTRY_ACTIVE

\* What the client will believe once it has handled all it was sent.
WillBeActive(vm) ==
    IF s2c[vm] = <<>> THEN vm \in active ELSE s2c[vm][Len(s2c[vm])] = "MAP_SUCCESS"

\* Until a client restarts: once the PortConfigs in flight are handled, an
\* interface is active at its client exactly when the server has an active row
\* for it; map_port and set_dp_port_down never update one side without the
\* other.
ClientAgrees == restarts = 0 => \A vm \in VmPorts : WillBeActive(vm) <=> Mapped(vm)

\* No VM port and no switch port is in two rows (the uniqueness MongoTable's
\* set_dict leaves as a TODO): the lookups take the first match.
PortsUnique ==
    \A i, j \in DOMAIN rftable :
        /\ rftable[i].vm # None /\ rftable[i].vm = rftable[j].vm => i = j
        /\ rftable[i].dp # None /\ rftable[i].dp = rftable[j].dp => i = j

\* Between messages, no configured pair of ports sits in two idle rows: the
\* second of the two registrations associates them.
NoMissedAssociation ==
    (\A t \in Threads : pc[t] \in {"idle", "dead"}) =>
        \A i, j \in DOMAIN rftable :
            ~ /\ get_status(rftable[i]) = RFENTRY_IDLE_VM_PORT
              /\ get_status(rftable[j]) = RFENTRY_IDLE_DP_PORT
              /\ Config[rftable[i].vm] = rftable[j].dp

\* A VM port that has a row keeps one: set_dp_port_down deletes the datapath
\* port and leaves the associated VM port.
VmPortKept ==
    [][\A vm \in VmPorts : VmRows(vm) # {} => \E i \in DOMAIN rftable' : rftable'[i].vm = vm]_vars

\* The configuration of a datapath, which deletes every flow, is queued once
\* and ahead of every route for it.
ConfigFirst ==
    \A dp \in Dps : \A k \in DOMAIN dp_q[dp] : (dp_q[dp][k] = "config") <=> (k = 1)

\* Between proxy messages the ISL table holds exactly one row per direction
\* of each link whose two ends are registered, and none for the others,
\* through any order of registrations and DatapathDowns.
LinkRows(a, b) == {i \in DOMAIN isltable : isltable[i].loc = a /\ isltable[i].rem = b}
IslMatchesPorts ==
    pc["proxy"] = "idle" =>
        \A c \in IslConf :
            LET n == IF {c.loc.port, c.rem.port} \subseteq announced THEN 1 ELSE 0
            IN  /\ Cardinality(LinkRows(c.loc, c.rem)) = n
                /\ Cardinality(LinkRows(c.rem, c.loc)) = n

\* A registered VM port whose switch port is registered becomes active at its
\* client, unless the datapath goes down first.
EventuallyActive ==
    \A vm \in VmPorts :
        Config[vm] # None =>
            (vm \notin registering /\ Config[vm] \in announced)
                ~> (vm \in active \/ Config[vm] \notin announced)
==============================================================================
