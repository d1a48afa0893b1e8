---------------------------- MODULE RFServerTables ----------------------------
(***************************************************************************)
(* The inductive invariant of RFServer's tables, what the operators of its  *)
(* handlers do to it, the handlers of the client channel and the            *)
(* registration of datapath ports.                                          *)
(***************************************************************************)
EXTENDS RFServer, TLAPS

\* A row that ties two ports together follows the configuration, and only
\* such a row has a virtual-switch port.
RowOK(e) ==
    /\ e.vm # None /\ e.dp # None => Config[e.vm] = e.dp
    /\ e.vs # None => e.vm # None /\ e.dp # None

\* What each control point of a thread knows of its local variables.
ClientLocals ==
    /\ pc["client"] \in {"idle", "dead", "save", "RMT_CONTROLLER", "RMT_ADD"}
    /\ pc["client"] = "save" =>
         RowOK(work["client"].entry) /\ work["client"].id <= Len(rftable)
    /\ pc["client"] \in {"RMT_CONTROLLER", "RMT_ADD"} =>
         work["client"].port \in VmPorts /\ work["client"].entry.dp # None

ProxyLocals ==
    /\ pc["proxy"] \in {"idle", "config", "lookup", "isl", "save", "down", "reset", "map"}
    /\ pc["proxy"] \in {"save", "map", "reset"} =>
         RowOK(work["proxy"].entry) /\ work["proxy"].id <= Len(rftable)
    /\ pc["proxy"] \in {"config", "lookup", "isl"} => work["proxy"].port \in DpPorts
    /\ pc["proxy"] = "isl" => todo \subseteq IslConfFor(work["proxy"].port)
    /\ pc["proxy"] \in {"down", "reset"} => todo \subseteq [row : Nat, port : DpPorts]
    /\ pc["proxy"] \in {"reset", "map"} => work["proxy"].id # 0
    /\ pc["proxy"] = "map" => work["proxy"].port \in VmPorts

\* The inductive invariant behind TypeOK and ConfigRespected.
TableInv ==
    /\ TypeOK
    /\ \A i \in 1..Len(rftable) : RowOK(rftable[i])
    /\ ClientLocals /\ ProxyLocals

------------------------------------------------------------------------------
(* The operators the handlers are built from.                               *)

\* set_entry replaces one row or adds one at the end.
LEMMA SetEntry ==
    ASSUME NEW S, NEW table \in Seq(S), NEW id \in Nat, id <= Len(table), NEW e \in S
    PROVE  LET new == set_entry(table, id, e)
               at == IF id = 0 THEN Len(table) + 1 ELSE id
           IN  /\ new \in Seq(S) /\ Len(table) <= Len(new)
               /\ at \in 1..Len(new) /\ new[at] = e
               /\ \A k \in 1..Len(new) : k # at => k \in 1..Len(table) /\ new[k] = table[k]
BY DEF set_entry

\* associate fills the empty side of an idle row.
LEMMA Associate ==
    ASSUME NEW e \in Rows
    PROVE  /\ get_status(e) = RFENTRY_IDLE_VM_PORT <=> is_idle_vm_port(e)
           /\ get_status(e) = RFENTRY_IDLE_DP_PORT <=> is_idle_dp_port(e)
           /\ is_idle_vm_port(e) => \A p \in DpPorts : associate(e, p) = [e EXCEPT !.dp = p]
           /\ is_idle_dp_port(e) => \A v \in VmPorts : associate(e, v) = [e EXCEPT !.vm = v]
BY Zenon DEF get_status, RFENTRY_IDLE_VM_PORT, RFENTRY_IDLE_DP_PORT, RFENTRY_ASSOCIATED,
       RFENTRY_ACTIVE, is_idle_vm_port, is_idle_dp_port, associate, Rows

------------------------------------------------------------------------------
(* TypeOK and ConfigRespected.                                              *)

LEMMA InitTableInv == Init => TableInv
BY ConfigAssumption, IslAssumption, BoundsAssumption
   DEF Init, TableInv, TypeOK, ClientLocals, ProxyLocals, Threads, Labels, NoWork, Work, Entry,
       Rows, Dps

\* The rows the registration handlers start from.
LEMMA NewRows ==
    /\ Entry(None, None) \in Rows /\ RowOK(Entry(None, None))
    /\ \A vm \in VmPorts : Entry(vm, None) \in Rows /\ RowOK(Entry(vm, None))
    /\ \A p \in DpPorts : Entry(None, p) \in Rows /\ RowOK(Entry(None, p))
BY Zenon DEF Entry, Rows, RowOK

\* Save and Done change the locals of one thread only.
LEMMA SaveEffect ==
    ASSUME TableInv, NEW t \in Threads, NEW l \in Labels, NEW id \in Nat, NEW e \in Rows,
           NEW port \in VmPorts \cup DpPorts \cup Dps \cup {None}, Save(t, l, port, id, e)
    PROVE  /\ pc' \in [Threads -> Labels] /\ work' \in [Threads -> Work]
           /\ pc'[t] = l /\ work'[t] = [port |-> port, id |-> id, entry |-> e]
           /\ \A u \in Threads \ {t} : pc'[u] = pc[u] /\ work'[u] = work[u]
BY Zenon DEF TableInv, TypeOK, Save, Goto, Work

LEMMA DoneEffect ==
    ASSUME TableInv, NEW t \in Threads, Done(t)
    PROVE  /\ pc' \in [Threads -> Labels] /\ work' \in [Threads -> Work] /\ pc'[t] = "idle"
           /\ \A u \in Threads \ {t} : pc'[u] = pc[u] /\ work'[u] = work[u]
<1>1. NoWork \in Work
  BY NewRows, Zenon DEF NoWork, Work
<1>2. QED
  BY <1>1, Zenon DEF TableInv, TypeOK, Done, Goto, Labels

\* Writing a row that is fine keeps a table of fine rows.
LEMMA WriteRow ==
    ASSUME TableInv, NEW id \in 0..Len(rftable), NEW e \in Rows, RowOK(e),
           rftable' = set_entry(rftable, id, e)
    PROVE  /\ rftable' \in Seq(Rows) /\ Len(rftable) <= Len(rftable')
           /\ \A i \in 1..Len(rftable') : RowOK(rftable'[i])
<1>1. rftable \in Seq(Rows)
  BY Zenon DEF TableInv, TypeOK
<1>2. /\ rftable' \in Seq(Rows) /\ Len(rftable) <= Len(rftable')
      /\ \A i \in 1..Len(rftable') : 
           rftable'[i] = e \/ (i \in 1..Len(rftable) /\ rftable'[i] = rftable[i])
  BY <1>1 DEF set_entry
<1>3. QED
  BY <1>2, Zenon DEF TableInv

\* A thread's locals stay fine while the other thread runs and the table grows.
LEMMA ProxyWaits ==
    ASSUME TableInv, rftable' \in Seq(Rows), Len(rftable) <= Len(rftable'),
           pc'["proxy"] = pc["proxy"], work'["proxy"] = work["proxy"], todo' = todo
    PROVE  ProxyLocals'
<1>1. Len(rftable) \in Nat /\ Len(rftable') \in Nat /\ work["proxy"].id \in Nat
  BY DEF TableInv, TypeOK, Work, Threads
<1>2. QED
  BY <1>1 DEF TableInv, ProxyLocals, IslConfFor, RowOK

LEMMA ClientWaits ==
    ASSUME TableInv, rftable' \in Seq(Rows), Len(rftable) <= Len(rftable'),
           pc'["client"] = pc["client"], work'["client"] = work["client"]
    PROVE  ClientLocals'
<1>1. Len(rftable) \in Nat /\ Len(rftable') \in Nat /\ work["client"].id \in Nat
  BY DEF TableInv, TypeOK, Work, Threads
<1>2. QED
  BY <1>1 DEF TableInv, ClientLocals, RowOK

\* In particular when the table does not change.
LEMMA ClientStays ==
    ASSUME TableInv, rftable' = rftable,
           pc'["client"] = pc["client"], work'["client"] = work["client"]
    PROVE  ClientLocals'
<1>1. rftable \in Seq(Rows) /\ Len(rftable) \in Nat
  BY DEF TableInv, TypeOK
<1>2. rftable' \in Seq(Rows) /\ Len(rftable) <= Len(rftable')
  BY <1>1
<1>3. QED
  BY <1>2, ClientWaits, Zenon

LEMMA ProxyStays ==
    ASSUME TableInv, rftable' = rftable,
           pc'["proxy"] = pc["proxy"], work'["proxy"] = work["proxy"], todo' = todo
    PROVE  ProxyLocals'
<1>1. rftable \in Seq(Rows) /\ Len(rftable) \in Nat
  BY DEF TableInv, TypeOK
<1>2. rftable' \in Seq(Rows) /\ Len(rftable) <= Len(rftable')
  BY <1>1
<1>3. QED
  BY <1>2, ProxyWaits, Zenon

\* A step that writes no row has to keep the rest of the invariant.
LEMMA RowsStay ==
    ASSUME TableInv, rftable' = rftable, TypeOK', ClientLocals', ProxyLocals'
    PROVE  TableInv'
BY Zenon DEF TableInv, RowOK

\* Queueing the rules of a route on any set of datapaths.
LEMMA QueueRms ==
    ASSUME TableInv, work["client"].port \in VmPorts, NEW targets, queue_rms(targets)
    PROVE  dp_q' \in [Dps -> Seq(VmPorts \cup {"config"})]
BY DEF TableInv, TypeOK, queue_rms

\* A message of the client channel, from its arrival to its last write.
LEMMA ClientTableInv ==
    ASSUME TableInv, ClientSteps \/ \E vm \in VmPorts : register_vm_port(vm)
                     \/ \E mod \in {"RMT_CONTROLLER", "RMT_ADD"} : register_route_mod(vm, mod)
    PROVE  TableInv'
<1> USE DEF Threads
<1>1. CASE save_entry("client")
  <2>1. work["client"] \in Work /\ RowOK(work["client"].entry) /\ work["client"].id \in 0..Len(rftable)
    BY <1>1 DEF TableInv, TypeOK, ClientLocals, save_entry, Work
  <2>2. /\ rftable' \in Seq(Rows) /\ Len(rftable) <= Len(rftable')
        /\ \A i \in 1..Len(rftable') : RowOK(rftable'[i])
    BY <1>1, <2>1, WriteRow, Zenon DEF save_entry, Work
  <2>3. /\ pc' \in [Threads -> Labels] /\ work' \in [Threads -> Work] /\ pc'["client"] = "idle"
        /\ pc'["proxy"] = pc["proxy"] /\ work'["proxy"] = work["proxy"]
    BY <1>1, DoneEffect, Zenon DEF save_entry
  <2>4. TypeOK'
    BY <1>1, <2>2, <2>3, Zenon DEF TableInv, TypeOK, save_entry, clients
  <2>5. ProxyLocals'
    BY <1>1, <2>2, <2>3, ProxyWaits, Zenon DEF save_entry
  <2>6. ClientLocals'
    BY <2>3, Zenon DEF ClientLocals
  <2>7. QED
    BY <2>2, <2>4, <2>5, <2>6, Zenon DEF TableInv
<1>2. CASE handle_controller_route_mod \/ handle_route_mod
  <2>1. /\ pc["client"] \in {"RMT_CONTROLLER", "RMT_ADD"}
        /\ \/ \E targets : queue_rms(targets) /\ Done("client")
           \/ Goto("client", "dead") /\ UNCHANGED <<work, dp_q>>
        /\ UNCHANGED <<rftable, isltable, route_mod_translator, todo, announced, downs, rms, clients>>
    BY <1>2, Zenon DEF handle_route_mod, handle_controller_route_mod
  <2>2. dp_q' \in [Dps -> Seq(VmPorts \cup {"config"})]
    BY <2>1, QueueRms, Zenon DEF TableInv, TypeOK, ClientLocals
  <2>3. /\ pc' \in [Threads -> Labels] /\ work' \in [Threads -> Work] /\ pc'["client"] \in {"idle", "dead"}
        /\ pc'["proxy"] = pc["proxy"] /\ work'["proxy"] = work["proxy"]
    <3>1. CASE Done("client")
      BY <3>1, DoneEffect, Zenon
    <3>2. CASE Goto("client", "dead") /\ UNCHANGED work
      BY <3>2, Zenon DEF TableInv, TypeOK, Goto, Labels
    <3>3. QED
      BY <2>1, <3>1, <3>2, Zenon
  <2>4. UNCHANGED rftable /\ rftable \in Seq(Rows) /\ todo' = todo
    BY <2>1, Zenon DEF TableInv, TypeOK
  <2>5. ProxyLocals'
    BY <2>3, <2>4, ProxyWaits
  <2>6. ClientLocals'
    BY <2>3, Zenon DEF ClientLocals
  <2>7. TypeOK'
    BY <2>1, <2>2, <2>3, Zenon DEF TableInv, TypeOK, clients
  <2>8. QED
    BY <2>4, <2>5, <2>6, <2>7, Zenon DEF TableInv, RowOK
<1>3. ASSUME NEW vm \in VmPorts, register_vm_port(vm)
      PROVE  TableInv'
  <2>1. /\ \/ Save("client", "save", vm, 0, Entry(vm, None))
           \/ \E i \in DpRows(Config[vm]) :
                /\ Config[vm] # None /\ get_status(rftable[i]) = RFENTRY_IDLE_DP_PORT
                /\ Save("client", "save", vm, i, associate(rftable[i], vm))
           \/ UNCHANGED <<pc, work>>
        /\ UNCHANGED <<tables, todo, announced, downs, rms, restarts, active, sent_rm, s2c>>
        /\ registering' \subseteq VmPorts
    BY <1>3, Zenon DEF register_vm_port, TableInv, TypeOK
  <2>2. Len(rftable) \in Nat
    BY DEF TableInv, TypeOK
  <2>3. \/ \E id \in 0..Len(rftable), e \in Rows : RowOK(e) /\ Save("client", "save", vm, id, e)
        \/ UNCHANGED <<pc, work>>
    <3>1. ASSUME NEW i \in DpRows(Config[vm]), Config[vm] # None,
                 get_status(rftable[i]) = RFENTRY_IDLE_DP_PORT
          PROVE  i \in 0..Len(rftable) /\ associate(rftable[i], vm) \in Rows /\ RowOK(associate(rftable[i], vm))
      <4>1. rftable[i] \in Rows /\ i \in 0..Len(rftable) /\ rftable[i].dp = Config[vm]
        BY DEF DpRows, TableInv, TypeOK
      <4>2. is_idle_dp_port(rftable[i]) /\ associate(rftable[i], vm) = [rftable[i] EXCEPT !.vm = vm]
        BY <3>1, <4>1, Associate, Zenon
      <4>3. QED
        BY <4>1, <4>2, Zenon DEF Rows, RowOK, is_idle_dp_port
    <3>2. QED
      BY <2>1, <2>2, <3>1, NewRows
  <2>4. CASE UNCHANGED <<pc, work>>
    <3>1. TypeOK'
      BY <2>1, <2>4, Zenon DEF TableInv, TypeOK, tables
    <3>2. rftable' = rftable /\ todo' = todo
      BY <2>1, Zenon DEF tables
    <3>3. ClientLocals' /\ ProxyLocals'
      BY <2>4, <3>2, ClientStays, ProxyStays, Zenon
    <3>4. QED
      BY <3>1, <3>2, <3>3, RowsStay, Zenon
  <2>5. ASSUME NEW id \in 0..Len(rftable), NEW e \in Rows, RowOK(e), Save("client", "save", vm, id, e)
        PROVE  TableInv'
    <3>1. /\ pc' \in [Threads -> Labels] /\ work' \in [Threads -> Work] /\ pc'["client"] = "save"
          /\ work'["client"] = [port |-> vm, id |-> id, entry |-> e]
          /\ pc'["proxy"] = pc["proxy"] /\ work'["proxy"] = work["proxy"]
      <4>1. "client" \in Threads /\ "save" \in Labels /\ id \in Nat
        BY <2>2 DEF Labels
      <4>2. QED
        BY <2>5, <4>1, SaveEffect
    <3>2. UNCHANGED rftable /\ rftable \in Seq(Rows) /\ todo' = todo
      BY <2>1, Zenon DEF TableInv, TypeOK, tables
    <3>3. TypeOK'
      BY <2>1, <3>1, Zenon DEF TableInv, TypeOK, tables
    <3>4. ProxyLocals'
      BY <3>1, <3>2, ProxyWaits
    <3>5. ClientLocals'
      BY <2>5, <3>1, <3>2 DEF ClientLocals, RowOK
    <3>6. QED
      BY <3>2, <3>3, <3>4, <3>5, RowsStay, Zenon
  <2>6. QED
    BY <2>3, <2>4, <2>5, Zenon
<1>4. ASSUME NEW vm \in VmPorts, NEW mod \in {"RMT_CONTROLLER", "RMT_ADD"}, register_route_mod(vm, mod)
      PROVE  TableInv'
  <2>1. /\ \/ Goto("client", "dead") /\ UNCHANGED work
           \/ \E i \in VmRows(vm) : rftable[i].dp # None /\ Save("client", mod, vm, i, rftable[i])
        /\ rms' \in 0..MaxRouteMods
        /\ UNCHANGED <<tables, todo, announced, downs, clients>>
    BY <1>4, BoundsAssumption DEF register_route_mod, TableInv, TypeOK
  <2>2. UNCHANGED rftable /\ rftable \in Seq(Rows) /\ todo' = todo
    BY <2>1, Zenon DEF TableInv, TypeOK, tables
  <2>3. /\ pc' \in [Threads -> Labels] /\ work' \in [Threads -> Work]
        /\ pc'["client"] \in {"dead", mod}
        /\ pc'["client"] = mod => work'["client"].port \in VmPorts /\ work'["client"].entry.dp # None
        /\ pc'["proxy"] = pc["proxy"] /\ work'["proxy"] = work["proxy"]
    <3>1. CASE Goto("client", "dead") /\ UNCHANGED work
      BY <3>1, Zenon DEF TableInv, TypeOK, Goto, Labels
    <3>2. ASSUME NEW i \in VmRows(vm), rftable[i].dp # None, Save("client", mod, vm, i, rftable[i])
          PROVE  /\ pc' \in [Threads -> Labels] /\ work' \in [Threads -> Work] /\ pc'["client"] = mod
                 /\ work'["client"].port \in VmPorts /\ work'["client"].entry.dp # None
                 /\ pc'["proxy"] = pc["proxy"] /\ work'["proxy"] = work["proxy"]
      <4>1. "client" \in Threads /\ mod \in Labels /\ i \in Nat /\ rftable[i] \in Rows
        BY <2>2 DEF Labels, VmRows
      <4>2. /\ pc' \in [Threads -> Labels] /\ work' \in [Threads -> Work] /\ pc'["client"] = mod
            /\ work'["client"] = [port |-> vm, id |-> i, entry |-> rftable[i]]
            /\ pc'["proxy"] = pc["proxy"] /\ work'["proxy"] = work["proxy"]
        BY <3>2, <4>1, SaveEffect
      <4>3. QED
        BY <3>2, <4>2
    <3>3. QED
      BY <2>1, <3>1, <3>2, Zenon
  <2>4. ProxyLocals'
    BY <2>2, <2>3, ProxyWaits
  <2>5. ClientLocals'
    BY <2>3, Zenon DEF ClientLocals
  <2>6. TypeOK'
    BY <2>1, <2>3, Zenon DEF TableInv, TypeOK, tables, clients
  <2>7. QED
    BY <2>2, <2>4, <2>5, <2>6, RowsStay, Zenon
<1>5. QED
  BY <1>1, <1>2, <1>3, <1>4, Zenon DEF ClientSteps

------------------------------------------------------------------------------
(* The registration of datapath ports.                                      *)

\* The first half of a DatapathPortRegister: config_dp and the lookups.
LEMMA RegisterTableInv ==
    ASSUME TableInv, send_datapath_config_messages \/ lookup_dp_port
                     \/ \E p \in DpPorts : register_dp_port(p)
    PROVE  TableInv'
<1> USE DEF Threads
<1>1. CASE send_datapath_config_messages
  <2>1. /\ pc' \in [Threads -> Labels] /\ pc'["client"] = pc["client"] /\ pc'["proxy"] = "lookup"
        /\ UNCHANGED <<rftable, work, todo>> /\ pc["proxy"] = "config"
    BY <1>1, Zenon DEF send_datapath_config_messages, Goto, TableInv, TypeOK, Labels
  <2>2. dp_q' \in [Dps -> Seq(VmPorts \cup {"config"})]
    <3>1. DpOf[work["proxy"].port] \in Dps
      BY <2>1, Zenon DEF TableInv, ProxyLocals, Dps
    <3>2. dp_q \in [Dps -> Seq(VmPorts \cup {"config"})]
      BY Zenon DEF TableInv, TypeOK
    <3>3. QED
      BY <1>1, <3>1, <3>2 DEF send_datapath_config_messages
  <2>3. TypeOK'
    BY <1>1, <2>1, <2>2, Zenon DEF send_datapath_config_messages, TableInv, TypeOK, clients
  <2>4. ClientLocals'
    <3>1. rftable \in Seq(Rows)
      BY Zenon DEF TableInv, TypeOK
    <3>2. QED
      BY <2>1, <3>1, ClientWaits
  <2>5. ProxyLocals'
    BY <2>1, Zenon DEF TableInv, ProxyLocals
  <2>6. QED
    BY <2>1, <2>3, <2>4, <2>5, Zenon DEF TableInv, RowOK
<1>2. ASSUME NEW p \in DpPorts, register_dp_port(p)
      PROVE  TableInv'
  <2>1. /\ \/ UNCHANGED <<pc, work>>
           \/ Save("proxy", "config", p, 0, NoWork.entry)
           \/ Save("proxy", "lookup", p, 0, NoWork.entry)
        /\ route_mod_translator' \subseteq route_mod_translator \cup {DpOf[p]}
        /\ announced' = announced \cup {p}
        /\ UNCHANGED <<rftable, isltable, dp_q, todo, downs, rms, clients>>
    BY <1>2, Zenon DEF register_dp_port
  <2>2. /\ announced' \subseteq DpPorts /\ route_mod_translator' \subseteq Dps
        /\ UNCHANGED rftable /\ rftable \in Seq(Rows) /\ NoWork.entry \in Rows
    BY <2>1, NewRows, Zenon DEF TableInv, TypeOK, Dps, NoWork
  <2>3. CASE UNCHANGED <<pc, work>>
    <3>1. TypeOK'
      BY <2>1, <2>2, <2>3, Zenon DEF TableInv, TypeOK, clients
    <3>2. ClientLocals' /\ ProxyLocals'
      BY <2>1, <2>3, ClientStays, ProxyStays, Zenon
    <3>3. QED
      BY <2>2, <3>1, <3>2, RowsStay, Zenon
  <2>4. ASSUME NEW l \in {"config", "lookup"}, NEW id \in Nat, NEW e \in Rows, Save("proxy", l, p, id, e)
        PROVE  TableInv'
    <3>1. /\ pc' \in [Threads -> Labels] /\ work' \in [Threads -> Work] /\ pc'["proxy"] = l
          /\ work'["proxy"] = [port |-> p, id |-> id, entry |-> e]
          /\ pc'["client"] = pc["client"] /\ work'["client"] = work["client"]
      <4>1. "proxy" \in Threads /\ l \in Labels
        BY Zenon DEF Labels
      <4>2. QED
        BY <2>4, <4>1, SaveEffect
    <3>2. TypeOK'
      BY <2>1, <2>2, <3>1, Zenon DEF TableInv, TypeOK, clients
    <3>3. ClientLocals'
      <4>1. rftable' = rftable
        BY <2>2, Zenon
      <4>2. QED
        BY <3>1, <4>1, ClientStays, Zenon
    <3>4. ProxyLocals'
      <4>1. pc'["proxy"] \in {"config", "lookup"} /\ work'["proxy"].port \in DpPorts
        BY <3>1
      <4>2. QED
        BY <4>1, Zenon DEF ProxyLocals
    <3>5. QED
      BY <2>2, <3>2, <3>3, <3>4, RowsStay, Zenon
  <2>5. QED
    BY <2>1, <2>2, <2>3, <2>4, Zenon
<1>3. CASE lookup_dp_port
  <2> DEFINE p == work["proxy"].port
  <2>1. /\ pc["proxy"] = "lookup" /\ p \in DpPorts
        /\ \/ /\ todo' = IslConfFor(p) /\ Goto("proxy", "isl") /\ UNCHANGED work
           \/ /\ \/ Save("proxy", "save", p, 0, Entry(None, p))
                 \/ \E vm \in VmFor(p) : \E i \in VmRows(vm) :
                      /\ get_status(rftable[i]) = RFENTRY_IDLE_VM_PORT
                      /\ Save("proxy", "save", p, i, associate(rftable[i], p))
                 \/ Done("proxy")
              /\ UNCHANGED todo
        /\ UNCHANGED <<tables, announced, downs, rms, clients>>
    BY <1>3, Zenon DEF lookup_dp_port, TableInv, ProxyLocals
  <2>2. Len(rftable) \in Nat /\ rftable \in Seq(Rows) /\ UNCHANGED rftable
    BY <2>1 DEF TableInv, TypeOK, tables
  <2>3. ASSUME NEW vm \in VmFor(p), NEW i \in VmRows(vm), get_status(rftable[i]) = RFENTRY_IDLE_VM_PORT
        PROVE  i \in 0..Len(rftable) /\ associate(rftable[i], p) \in Rows /\ RowOK(associate(rftable[i], p))
    <3>1. /\ vm \in VmPorts /\ Config[vm] = p
          /\ rftable[i] \in Rows /\ i \in 0..Len(rftable) /\ rftable[i].vm = vm
      BY <2>2 DEF VmFor, VmRows
    <3>2. is_idle_vm_port(rftable[i]) /\ associate(rftable[i], p) = [rftable[i] EXCEPT !.dp = p]
      BY <2>1, <2>3, <3>1, Associate, Zenon
    <3>3. QED
      BY <2>1, <3>1, <3>2, Zenon DEF Rows, RowOK, is_idle_vm_port
  <2>4. CASE todo' = IslConfFor(p) /\ Goto("proxy", "isl") /\ UNCHANGED work
    <3>1. /\ pc' \in [Threads -> Labels] /\ pc'["client"] = pc["client"] /\ pc'["proxy"] = "isl"
          /\ todo' \subseteq IslConf
      BY <2>4, Zenon DEF Goto, TableInv, TypeOK, Labels, IslConfFor
    <3>2. TypeOK'
      BY <2>1, <2>4, <3>1, Zenon DEF TableInv, TypeOK, tables, clients
    <3>3. ClientLocals'
      <4>1. rftable' = rftable /\ work'["client"] = work["client"]
        BY <2>2, <2>4, Zenon
      <4>2. QED
        BY <3>1, <4>1, ClientStays, Zenon
    <3>4. ProxyLocals'
      <4>1. work'["proxy"] = work["proxy"] /\ todo' = IslConfFor(p) /\ IslConfFor(p) = IslConfFor(p)'
        BY <2>4, Zenon DEF IslConfFor
      <4>2. QED
        BY <2>1, <3>1, <4>1, Zenon DEF ProxyLocals
    <3>5. QED
      BY <2>2, <3>2, <3>3, <3>4, RowsStay, Zenon
  <2>5. ASSUME NEW id \in 0..Len(rftable), NEW e \in Rows, RowOK(e), Save("proxy", "save", p, id, e),
               UNCHANGED todo
        PROVE  TableInv'
    <3>1. /\ pc' \in [Threads -> Labels] /\ work' \in [Threads -> Work] /\ pc'["proxy"] = "save"
          /\ work'["proxy"] = [port |-> p, id |-> id, entry |-> e]
          /\ pc'["client"] = pc["client"] /\ work'["client"] = work["client"]
      <4>1. "proxy" \in Threads /\ "save" \in Labels /\ id \in Nat
        BY <2>2 DEF Labels
      <4>2. QED
        BY <2>1, <2>5, <4>1, SaveEffect
    <3>2. TypeOK'
      BY <2>1, <2>5, <3>1, Zenon DEF TableInv, TypeOK, tables, clients
    <3>3. ClientLocals'
      BY <2>2, <3>1, ClientStays, Zenon
    <3>4. ProxyLocals'
      BY <2>2, <2>5, <3>1 DEF ProxyLocals, RowOK
    <3>5. QED
      BY <2>2, <3>2, <3>3, <3>4, RowsStay, Zenon
  <2>6. CASE Done("proxy") /\ UNCHANGED todo
    <3>1. /\ pc' \in [Threads -> Labels] /\ work' \in [Threads -> Work] /\ pc'["proxy"] = "idle"
          /\ pc'["client"] = pc["client"] /\ work'["client"] = work["client"]
      BY <2>6, DoneEffect, Zenon
    <3>2. TypeOK'
      BY <2>1, <2>6, <3>1, Zenon DEF TableInv, TypeOK, tables, clients
    <3>3. ClientLocals'
      BY <2>2, <3>1, ClientStays, Zenon
    <3>4. ProxyLocals'
      BY <3>1, Zenon DEF ProxyLocals
    <3>5. QED
      BY <2>2, <3>2, <3>3, <3>4, RowsStay, Zenon
  <2>7. CASE Save("proxy", "save", p, 0, Entry(None, p)) /\ UNCHANGED todo
    <3>1. Entry(None, p) \in Rows /\ RowOK(Entry(None, p)) /\ 0 \in 0..Len(rftable)
      BY <2>1, <2>2, NewRows
    <3>2. QED
      BY <2>5, <2>7, <3>1, Zenon
  <2>8. ASSUME NEW vm \in VmFor(p), NEW i \in VmRows(vm), get_status(rftable[i]) = RFENTRY_IDLE_VM_PORT,
               Save("proxy", "save", p, i, associate(rftable[i], p)), UNCHANGED todo
        PROVE  TableInv'
    BY <2>3, <2>5, <2>8, Zenon
  <2>9. QED
    BY <2>1, <2>4, <2>6, <2>7, <2>8, Zenon
<1>4. QED
  BY <1>1, <1>2, <1>3, Zenon
==============================================================================
