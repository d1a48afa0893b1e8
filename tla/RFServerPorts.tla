---------------------------- MODULE RFServerPorts -----------------------------
(***************************************************************************)
(* What RFServer guarantees about the rows of its port table when the       *)
(* handlers of its two listeners never overlap.                             *)
(***************************************************************************)
EXTENDS RFServerClients

\* A switch port is in one row.
OneRowPerDp ==
    \A i, j \in 1..Len(rftable) : rftable[i].dp # None /\ rftable[i].dp = rftable[j].dp => i = j

\* A configured pair is never in two idle rows.
NoIdlePair ==
    \A i, j \in 1..Len(rftable) :
        is_idle_vm_port(rftable[i]) /\ is_idle_dp_port(rftable[j])
            => Config[rftable[i].vm] # rftable[j].dp

\* A switch port in the table is registered, or set_dp_down will reach it.
PortKnown(i) ==
    \/ rftable[i].dp \in announced
    \/ pc["proxy"] \in {"down", "reset"} /\ \E t \in todo : t.port = rftable[i].dp
    \/ pc["proxy"] = "reset" /\ work["proxy"].id = i
PortsKnown == \A i \in 1..Len(rftable) : rftable[i].dp # None => PortKnown(i)

\* The row the client thread is about to write: a free VM port, or the VM
\* port of an idle switch port.
ClientExact ==
    LET w == work["client"]
    IN  pc["client"] = "save" =>
          /\ w.entry.vm \in VmPorts /\ w.entry.vs = None
          /\ w.id = 0 => /\ w.entry.dp = None
                         /\ \A i \in 1..Len(rftable) : rftable[i].dp # None =>
                               rftable[i].dp # Config[w.entry.vm]
          /\ w.id # 0 => /\ w.entry.dp # None /\ rftable[w.id].dp = w.entry.dp
                         /\ rftable[w.id].vm = None

\* What the proxy thread handles: a switch port in no row yet, or a copy of
\* the row as it still is.
ProxyExact ==
    LET w == work["proxy"]
    IN  /\ pc["proxy"] \in {"config", "lookup", "save"} =>
             w.port \in announced /\ \A i \in 1..Len(rftable) : rftable[i].dp # w.port
        /\ pc["proxy"] = "save" =>
             /\ w.port \in DpPorts /\ w.entry.dp = w.port /\ w.entry.vs = None
             /\ w.id = 0 => /\ w.entry.vm = None
                            /\ \A i \in 1..Len(rftable) : rftable[i].vm # None =>
                                  Config[rftable[i].vm] # w.port
             /\ w.id # 0 => w.entry.vm # None /\ rftable[w.id].vm = w.entry.vm
        /\ pc["proxy"] = "map" =>
             /\ rftable[w.id].vm = w.entry.vm /\ rftable[w.id].dp = w.entry.dp
             /\ w.entry.vm # None /\ w.entry.dp # None
        /\ pc["proxy"] = "reset" => rftable[w.id] = w.entry /\ w.entry.dp # None

\* The inductive invariant behind PortsUnique, NoMissedAssociation and
\* VmPortKept, on top of TableInv.
PortInv == Alone /\ OneRowPerDp /\ NoIdlePair /\ PortsKnown /\ ClientExact /\ ProxyExact

------------------------------------------------------------------------------
(* The rows of rftable.                                                     *)

\* A step leaves every VM port in its row.
VmsKept ==
    \A i \in 1..Len(rftable) :
        rftable[i].vm # None => i \in 1..Len(rftable') /\ rftable'[i].vm = rftable[i].vm

\* What set_entry must respect: the row keeps its VM port, its switch port is
\* in no other row, and it completes no idle pair.
LEMMA PortWrite ==
    ASSUME TableInv, PortInv, NEW id \in 0..Len(rftable), NEW e \in Rows,
           rftable' = set_entry(rftable, id, e),
           id # 0 => rftable[id].vm \in {None, e.vm},
           e.dp # None => \A k \in 1..Len(rftable) : k # id => rftable[k].dp # e.dp,
           is_idle_vm_port(e) => \A k \in 1..Len(rftable) :
               k # id /\ rftable[k].dp # None => rftable[k].dp # Config[e.vm],
           is_idle_dp_port(e) => \A k \in 1..Len(rftable) :
               k # id /\ rftable[k].vm # None => Config[rftable[k].vm] # e.dp
    PROVE  /\ OneRowPerDp' /\ NoIdlePair' /\ VmsKept
           /\ \A k \in 1..Len(rftable') :
                \/ k \in 1..Len(rftable) /\ k # id /\ rftable'[k] = rftable[k]
                \/ rftable'[k] = e
<1>1. PICK at \in 1..Len(rftable') :
             /\ rftable'[at] = e /\ (id # 0 => at = id) /\ (id = 0 => at \notin 1..Len(rftable))
             /\ \A k \in 1..Len(rftable') : k # at => k \in 1..Len(rftable) /\ rftable'[k] = rftable[k]
             /\ \A k \in 1..Len(rftable) : k \in 1..Len(rftable')
  BY Written
<1>2. \A k \in 1..Len(rftable') : k # at => k \in 1..Len(rftable) /\ k # id /\ rftable'[k] = rftable[k]
  BY <1>1
<1>3. OneRowPerDp'
  BY <1>1, <1>2 DEF PortInv, OneRowPerDp
<1>4. NoIdlePair'
  <2> SUFFICES ASSUME NEW i \in 1..Len(rftable'), NEW j \in 1..Len(rftable'),
                      is_idle_vm_port(rftable'[i]), is_idle_dp_port(rftable'[j])
               PROVE  Config[rftable'[i].vm] # rftable'[j].dp
    BY Zenon DEF NoIdlePair, is_idle_vm_port, is_idle_dp_port
  <2>1. CASE i = at /\ j = at
    BY <1>1, <2>1, Zenon DEF is_idle_vm_port, is_idle_dp_port
  <2>2. CASE i = at /\ j # at
    BY <1>1, <1>2, <2>2 DEF is_idle_vm_port, is_idle_dp_port
  <2>3. CASE i # at /\ j = at
    BY <1>1, <1>2, <2>3 DEF is_idle_vm_port, is_idle_dp_port
  <2>4. CASE i # at /\ j # at
    BY <1>2, <2>4 DEF PortInv, NoIdlePair, is_idle_vm_port, is_idle_dp_port
  <2>5. QED
    BY <2>1, <2>2, <2>3, <2>4, Zenon
<1>5. VmsKept
  <2> SUFFICES ASSUME NEW i \in 1..Len(rftable), rftable[i].vm # None
               PROVE  i \in 1..Len(rftable') /\ rftable'[i].vm = rftable[i].vm
    BY Zenon DEF VmsKept
  <2>1. CASE i = at
    BY <1>1, <2>1, Zenon
  <2>2. CASE i # at
    BY <1>1, <2>2, Zenon
  <2>3. QED
    BY <2>1, <2>2, Zenon
<1>6. QED
  BY <1>1, <1>2, <1>3, <1>4, <1>5, Zenon

\* Messages of the client channel.
LEMMA ClientPortInv ==
    ASSUME ~Overlap, TableInv, PortInv, ClientMoves
    PROVE  PortInv' /\ VmsKept
<1> USE DEF Threads
<1>1. /\ pc["proxy"] = "idle" /\ pc'["proxy"] = "idle" /\ Alone' /\ announced' = announced
  BY ClientAlone, Zenon DEF PortInv
<1>2. /\ pc \in [Threads -> Labels] /\ work \in [Threads -> Work] /\ rftable \in Seq(Rows)
      /\ \A i \in 1..Len(rftable) : rftable[i] \in Rows
  BY DEF TableInv, TypeOK
<1>3. ProxyExact' /\ \A i \in 1..Len(rftable) : rftable[i].dp # None => rftable[i].dp \in announced
  BY <1>1, Zenon DEF PortInv, PortsKnown, PortKnown, ProxyExact
<1>4. ASSUME UNCHANGED rftable, ClientExact'
      PROVE  PortInv' /\ VmsKept
  BY <1>1, <1>3, <1>4, Zenon DEF PortInv, OneRowPerDp, NoIdlePair, PortsKnown, PortKnown, VmsKept
<1>5. ASSUME UNCHANGED rftable, pc'["client"] # "save"
      PROVE  PortInv' /\ VmsKept
  BY <1>4, <1>5, Zenon DEF ClientExact
<1>6. CASE handle_controller_route_mod \/ handle_route_mod
  <2>1. UNCHANGED rftable /\ (Done("client") \/ Goto("client", "dead"))
    BY <1>6, Zenon DEF handle_controller_route_mod, handle_route_mod
  <2>2. QED
    BY <1>2, <1>5, <2>1, Zenon DEF Done, Goto
<1>7. ASSUME NEW vm \in VmPorts, NEW mod \in {"RMT_CONTROLLER", "RMT_ADD"}, register_route_mod(vm, mod)
      PROVE  PortInv' /\ VmsKept
  <2>1. UNCHANGED rftable /\ (Goto("client", "dead") \/ Goto("client", mod))
    BY <1>7, Zenon DEF register_route_mod, Save, tables
  <2>2. QED
    BY <1>2, <1>5, <2>1, Zenon DEF Goto
<1>8. ASSUME NEW vm \in VmPorts, register_vm_port(vm)
      PROVE  PortInv' /\ VmsKept
  <2>1. pc["client"] = "idle" /\ UNCHANGED rftable
    BY <1>8, Zenon DEF register_vm_port, Free, tables
  <2>2. CASE UNCHANGED <<pc, work>>
    BY <1>5, <2>1, <2>2, Zenon
  <2>3. CASE /\ Config[vm] = None \/ DpRows(Config[vm]) = {}
             /\ Save("client", "save", vm, 0, Entry(vm, None))
    <3>1. work'["client"] = [port |-> vm, id |-> 0, entry |-> Entry(vm, None)]
      BY <1>2, <2>3, Zenon DEF Save
    <3>2. work'["client"].id = 0 /\ work'["client"].entry = Entry(vm, None)
      BY <3>1
    <3>3. work'["client"].entry.vm = vm /\ work'["client"].entry.dp = None /\ work'["client"].entry.vs = None
      BY <3>2 DEF Entry
    <3>4. \A i \in 1..Len(rftable) : rftable[i].dp # None => rftable[i].dp # Config[vm]
      BY <1>2, <2>3 DEF DpRows
    <3>5. QED
      BY <1>4, <2>1, <3>2, <3>3, <3>4, Zenon DEF ClientExact
  <2>4. ASSUME Config[vm] # None, NEW i \in DpRows(Config[vm]),
               get_status(rftable[i]) = RFENTRY_IDLE_DP_PORT,
               Save("client", "save", vm, i, associate(rftable[i], vm))
        PROVE  PortInv' /\ VmsKept
    <3>1. i \in 1..Len(rftable) /\ rftable[i].dp = Config[vm] /\ rftable[i] \in Rows
      BY <1>2, <2>4 DEF DpRows
    <3>2. is_idle_dp_port(rftable[i]) /\ associate(rftable[i], vm) = [rftable[i] EXCEPT !.vm = vm]
      BY <2>4, <3>1, Associate, Zenon
    <3>3. work'["client"] = [port |-> vm, id |-> i, entry |-> [rftable[i] EXCEPT !.vm = vm]]
      BY <1>2, <2>4, <3>2, Zenon DEF Save
    <3>4. work'["client"].id = i /\ work'["client"].entry = [rftable[i] EXCEPT !.vm = vm]
      BY <3>3
    <3>5. /\ work'["client"].entry.vm = vm /\ work'["client"].entry.dp = rftable[i].dp
          /\ work'["client"].entry.vs = rftable[i].vs
      BY <3>1, <3>4, Zenon DEF Rows
    <3>6. rftable[i].vm = None /\ rftable[i].vs = None
      BY <3>1, <3>2, Zenon DEF is_idle_dp_port, TableInv, RowOK
    <3>7. i # 0
      BY <1>2, <3>1
    <3>8. QED
      BY <1>4, <2>1, <2>4, <3>1, <3>4, <3>5, <3>6, <3>7, Zenon DEF ClientExact
  <2>5. QED
    BY <1>8, <2>2, <2>3, <2>4, Zenon DEF register_vm_port
<1>9. CASE save_entry("client")
  <2> DEFINE w == work["client"]
  <2>1. /\ pc["client"] = "save" /\ rftable' = set_entry(rftable, w.id, w.entry)
        /\ pc'["client"] = "idle"
    BY <1>9, DoneEffect, Zenon DEF save_entry
  <2>2. w.id \in 0..Len(rftable) /\ w.entry \in Rows
    BY <1>2, <2>1 DEF TableInv, ClientLocals, Work
  <2>3. PICK id \in 0..Len(rftable), e \in Rows : id = w.id /\ e = w.entry
    BY <2>2, Zenon
  <2>4. /\ e.vm \in VmPorts
        /\ id = 0 => e.dp = None /\ \A i \in 1..Len(rftable) : rftable[i].dp # None => rftable[i].dp # Config[e.vm]
        /\ id # 0 => e.dp # None /\ rftable[id].dp = e.dp /\ rftable[id].vm = None
    BY <2>1, <2>3, Zenon DEF PortInv, ClientExact
  <2>5. e.dp # None => id \in 1..Len(rftable) /\ \A k \in 1..Len(rftable) : k # id => rftable[k].dp # e.dp
    BY <1>2, <2>4 DEF PortInv, OneRowPerDp
  <2>6. is_idle_vm_port(e) => \A k \in 1..Len(rftable) : rftable[k].dp # None => rftable[k].dp # Config[e.vm]
    BY <2>4, Zenon DEF is_idle_vm_port
  <2>7. ~is_idle_dp_port(e)
    BY <2>4, ConfigAssumption, Zenon DEF is_idle_dp_port
  <2>8. /\ OneRowPerDp' /\ NoIdlePair' /\ VmsKept
        /\ \A k \in 1..Len(rftable') :
             \/ k \in 1..Len(rftable) /\ k # id /\ rftable'[k] = rftable[k]
             \/ rftable'[k] = e
    BY <2>1, <2>3, <2>4, <2>5, <2>6, <2>7, PortWrite
  <2>9. PortsKnown'
    <3>1. e.dp # None => e.dp \in announced
      BY <1>3, <2>4, <2>5, Zenon
    <3>2. QED
      BY <1>1, <1>3, <2>8, <3>1, Zenon DEF PortsKnown, PortKnown
  <2>10. QED
    BY <1>1, <1>3, <2>1, <2>8, <2>9, Zenon DEF PortInv, ClientExact
<1>10. QED
  BY <1>6, <1>7, <1>8, <1>9, Zenon DEF ClientMoves, ClientSteps

\* A proxy step that writes no row.
LEMMA ProxyQuiet ==
    ASSUME ~Overlap, TableInv, PortInv, ProxyMoves, UNCHANGED rftable, PortsKnown', ProxyExact'
    PROVE  PortInv' /\ VmsKept
<1>1. pc'["client"] # "save" /\ Alone'
  BY ProxyAlone, Zenon DEF PortInv
<1>2. QED
  BY <1>1, Zenon DEF PortInv, OneRowPerDp, NoIdlePair, ClientExact, VmsKept

\* DatapathPortRegister: a port that registers is in no row, since only
\* set_dp_down forgets a port and it resets the rows of the ports it forgets.
LEMMA RegisterPortInv ==
    ASSUME ~Overlap, TableInv, PortInv, ProxyMoves,
           \/ \E p \in DpPorts : register_dp_port(p)
           \/ send_datapath_config_messages \/ register_islconf
    PROVE  PortInv' /\ VmsKept
<1> USE DEF Threads
<1>1. pc \in [Threads -> Labels] /\ work \in [Threads -> Work]
  BY Zenon DEF TableInv, TypeOK
<1>2. UNCHANGED rftable
  BY Zenon DEF register_dp_port, send_datapath_config_messages, register_islconf
<1>3. pc["proxy"] \notin {"down", "reset"} /\ announced \subseteq announced'
  BY Zenon DEF register_dp_port, send_datapath_config_messages, register_islconf, Free
<1>4. \A i \in 1..Len(rftable) : rftable[i].dp # None => rftable[i].dp \in announced
  BY <1>3, Zenon DEF PortInv, PortsKnown, PortKnown
<1>5. PortsKnown'
  BY <1>2, <1>3, <1>4, Zenon DEF PortsKnown, PortKnown
<1>6. ASSUME NEW p \in DpPorts, register_dp_port(p)
      PROVE  ProxyExact'
  <2>1. pc["proxy"] = "idle" /\ p \notin announced /\ p \in announced'
    BY <1>6, Zenon DEF register_dp_port, Free
  <2>2. \/ UNCHANGED <<pc, work>>
        \/ \E l \in {"config", "lookup"} : Save("proxy", l, p, 0, NoWork.entry)
    BY <1>6, Zenon DEF register_dp_port
  <2>3. \/ pc'["proxy"] = "idle"
        \/ pc'["proxy"] \in {"config", "lookup"} /\ work'["proxy"].port = p
    BY <1>1, <2>1, <2>2 DEF Save, Goto
  <2>4. \A i \in 1..Len(rftable) : rftable[i].dp # p
    BY <1>4, <2>1, ConfigAssumption, Zenon
  <2>5. QED
    BY <1>2, <2>1, <2>3, <2>4, Zenon DEF ProxyExact
<1>7. ASSUME send_datapath_config_messages PROVE ProxyExact'
  <2>1. /\ pc["proxy"] = "config" /\ pc'["proxy"] = "lookup" /\ work' = work /\ announced' = announced
    BY <1>1, <1>7, Zenon DEF send_datapath_config_messages, Goto
  <2>2. QED
    BY <1>2, <2>1, Zenon DEF PortInv, ProxyExact
<1>8. ASSUME register_islconf PROVE ProxyExact'
  <2>1. pc["proxy"] = "isl" /\ (UNCHANGED <<pc, work>> \/ Done("proxy"))
    BY <1>8, Zenon DEF register_islconf
  <2>2. pc'["proxy"] \in {"isl", "idle"}
    BY <1>1, <2>1, Zenon DEF Done, Goto
  <2>3. QED
    BY <2>2, Zenon DEF ProxyExact
<1>9. QED
  BY <1>2, <1>5, <1>6, <1>7, <1>8, ProxyQuiet, Zenon

\* The lookup of register_dp_port: no row has the VM port of the
\* configuration, or an idle one does.
LEMMA LookupPortInv ==
    ASSUME ~Overlap, TableInv, PortInv, ProxyMoves, lookup_dp_port
    PROVE  PortInv' /\ VmsKept
<1> USE DEF Threads
<1>1. /\ pc \in [Threads -> Labels] /\ work \in [Threads -> Work] /\ rftable \in Seq(Rows)
      /\ \A i \in 1..Len(rftable) : rftable[i] \in Rows /\ RowOK(rftable[i])
  BY DEF TableInv, TypeOK
<1>2. pc["proxy"] = "lookup" /\ UNCHANGED <<rftable, announced>>
  BY Zenon DEF lookup_dp_port, tables
<1>3. PortsKnown'
  BY <1>2, Zenon DEF PortInv, PortsKnown, PortKnown
<1>4. PICK p \in DpPorts : p = work["proxy"].port
  BY <1>2, Zenon DEF TableInv, ProxyLocals
<1>5. p \in announced /\ \A i \in 1..Len(rftable) : rftable[i].dp # p
  BY <1>2, <1>4, Zenon DEF PortInv, ProxyExact
<1>6. ASSUME Goto("proxy", "isl") \/ Done("proxy") PROVE ProxyExact'
  <2>1. pc'["proxy"] \in {"isl", "idle"}
    BY <1>1, <1>6, Zenon DEF Goto, Done
  <2>2. QED
    BY <2>1, Zenon DEF ProxyExact
<1>7. ASSUME \/ VmFor(p) = {}
             \/ \E vm \in VmFor(p) : VmRows(vm) = {},
             Save("proxy", "save", p, 0, Entry(None, p))
      PROVE  ProxyExact'
  <2>1. /\ pc'["proxy"] = "save"
        /\ work'["proxy"] = [port |-> p, id |-> 0, entry |-> Entry(None, p)]
    BY <1>1, <1>7, Zenon DEF Save, Goto
  <2>2. work'["proxy"].port = p /\ work'["proxy"].id = 0 /\ work'["proxy"].entry = Entry(None, p)
    BY <2>1
  <2>3. /\ work'["proxy"].entry.vm = None /\ work'["proxy"].entry.dp = p /\ work'["proxy"].entry.vs = None
    BY <2>2 DEF Entry
  <2>4. \A i \in 1..Len(rftable) : rftable[i].vm # None => Config[rftable[i].vm] # p
    <3> SUFFICES ASSUME NEW i \in 1..Len(rftable), rftable[i].vm # None, Config[rftable[i].vm] = p
                 PROVE  FALSE
      OBVIOUS
    <3>1. rftable[i].vm \in VmPorts /\ i \in VmRows(rftable[i].vm)
      BY <1>1 DEF Rows, VmRows
    <3>2. rftable[i].vm \in VmFor(p) /\ \A vm \in VmFor(p) : vm = rftable[i].vm
      BY <3>1, ConfigAssumption, Zenon DEF VmFor
    <3>3. QED
      BY <1>7, <3>1, <3>2, Zenon
  <2>5. QED
    BY <1>2, <1>5, <2>1, <2>2, <2>3, <2>4, Zenon DEF ProxyExact
<1>8. ASSUME NEW vm \in VmFor(p), NEW i \in VmRows(vm), get_status(rftable[i]) = RFENTRY_IDLE_VM_PORT,
             Save("proxy", "save", p, i, associate(rftable[i], p))
      PROVE  ProxyExact'
  <2>1. /\ i \in 1..Len(rftable) /\ rftable[i].vm = vm /\ rftable[i] \in Rows /\ vm \in VmPorts
    BY <1>1, <1>8 DEF VmRows, VmFor
  <2>2. is_idle_vm_port(rftable[i]) /\ associate(rftable[i], p) = [rftable[i] EXCEPT !.dp = p]
    BY <1>8, <2>1, Associate, Zenon
  <2>3. /\ pc'["proxy"] = "save"
        /\ work'["proxy"] = [port |-> p, id |-> i, entry |-> [rftable[i] EXCEPT !.dp = p]]
    BY <1>1, <1>8, <2>2, Zenon DEF Save, Goto
  <2>4. work'["proxy"].port = p /\ work'["proxy"].id = i /\ work'["proxy"].entry = [rftable[i] EXCEPT !.dp = p]
    BY <2>3
  <2>5. /\ work'["proxy"].entry.vm = vm /\ work'["proxy"].entry.dp = p
        /\ work'["proxy"].entry.vs = None
    BY <2>1, <2>2, <2>4, Zenon DEF Rows, is_idle_vm_port
  <2>6. i # 0 /\ vm # None
    BY <1>1, <2>1, ConfigAssumption
  <2>7. QED
    BY <1>2, <1>5, <2>1, <2>3, <2>4, <2>5, <2>6, Zenon DEF ProxyExact
<1>9. ProxyExact'
  BY <1>4, <1>6, <1>7, <1>8, Zenon DEF lookup_dp_port
<1>10. QED
  BY <1>2, <1>3, <1>9, ProxyQuiet, Zenon

\* set_dp_down: what it forgets, it has on its list or resets at this moment.
LEMMA DownPortInv ==
    ASSUME ~Overlap, TableInv, PortInv, ProxyMoves,
           (\E dp \in Dps : set_dp_down(dp)) \/ set_dp_port_down \/ idle_isl_rows
    PROVE  PortInv' /\ VmsKept
<1> USE DEF Threads
<1>1. /\ pc \in [Threads -> Labels] /\ work \in [Threads -> Work] /\ rftable \in Seq(Rows)
      /\ \A i \in 1..Len(rftable) : rftable[i] \in Rows
  BY DEF TableInv, TypeOK
<1>2. UNCHANGED rftable
  BY Zenon DEF set_dp_down, set_dp_port_down, idle_isl_rows, tables
<1>3. ASSUME NEW dp \in Dps, set_dp_down(dp)
      PROVE  PortsKnown' /\ ProxyExact'
  <2>1. /\ pc["proxy"] = "idle" /\ announced' = {p \in announced : DpOf[p] # dp}
        /\ todo' = {[row |-> i, port |-> rftable[i].dp] : i \in DpEntries(dp)}
        /\ Save("proxy", "down", dp, 0, NoWork.entry)
    BY <1>3, Zenon DEF set_dp_down, Free
  <2>2. pc'["proxy"] = "down"
    BY <1>1, <2>1, Zenon DEF Save, Goto
  <2>3. ASSUME NEW i \in 1..Len(rftable), rftable[i].dp # None
        PROVE  PortKnown(i)'
    <3>1. rftable[i].dp \in announced
      BY <2>1, <2>3, Zenon DEF PortInv, PortsKnown, PortKnown
    <3>2. CASE DpOf[rftable[i].dp] # dp
      BY <1>2, <2>1, <3>1, <3>2, Zenon DEF PortKnown
    <3>3. CASE DpOf[rftable[i].dp] = dp
      <4>1. [row |-> i, port |-> rftable[i].dp] \in todo'
        BY <1>1, <2>1, <2>3, <3>3 DEF DpEntries
      <4>2. PICK t \in todo' : t.port = rftable[i].dp
        BY <4>1, Zenon
      <4>3. QED
        BY <1>2, <2>2, <4>2, Zenon DEF PortKnown
    <3>4. QED
      BY <3>2, <3>3, Zenon
  <2>4. QED
    BY <1>2, <2>2, <2>3, Zenon DEF PortsKnown, ProxyExact
<1>4. ASSUME set_dp_port_down
      PROVE  PortsKnown' /\ ProxyExact'
  <2>1. PICK t \in todo :
          /\ pc["proxy"] = "down" /\ announced' = announced /\ todo' = todo \ {t}
          /\ \/ DpRows(t.port) = {} /\ UNCHANGED <<pc, work>>
             \/ \E i \in DpRows(t.port) : Save("proxy", "reset", work["proxy"].port, i, rftable[i])
    BY <1>4, Zenon DEF set_dp_port_down
  <2>2. t.port \in DpPorts
    BY <2>1, Zenon DEF TableInv, ProxyLocals
  <2>3. \A i \in 1..Len(rftable) : rftable[i].dp # None =>
          rftable[i].dp \in announced \/ \E u \in todo : u.port = rftable[i].dp
    BY <2>1, Zenon DEF PortInv, PortsKnown, PortKnown
  <2>4. CASE DpRows(t.port) = {} /\ UNCHANGED <<pc, work>>
    <3>1. \A i \in 1..Len(rftable) : rftable[i].dp # t.port
      BY <1>1, <2>4 DEF DpRows
    <3>2. \A i \in 1..Len(rftable) : rftable[i].dp # None =>
            rftable[i].dp \in announced' \/ \E u \in todo' : u.port = rftable[i].dp
      BY <2>1, <2>3, <3>1, Zenon
    <3>3. pc'["proxy"] = "down"
      BY <2>1, <2>4, Zenon
    <3>4. QED
      BY <1>2, <3>2, <3>3, Zenon DEF PortsKnown, PortKnown, ProxyExact
  <2>5. ASSUME NEW i \in DpRows(t.port), Save("proxy", "reset", work["proxy"].port, i, rftable[i])
        PROVE  PortsKnown' /\ ProxyExact'
    <3>1. /\ pc'["proxy"] = "reset"
          /\ work'["proxy"] = [port |-> work["proxy"].port, id |-> i, entry |-> rftable[i]]
      BY <1>1, <2>5, Zenon DEF Save, Goto
    <3>2. work'["proxy"].id = i /\ work'["proxy"].entry = rftable[i]
      BY <3>1
    <3>3. i \in 1..Len(rftable) /\ rftable[i].dp = t.port /\ t.port # None
      BY <1>1, <2>2, <2>5, ConfigAssumption DEF DpRows
    <3>4. \A k \in 1..Len(rftable) : rftable[k].dp # None =>
            \/ rftable[k].dp \in announced' \/ (\E u \in todo' : u.port = rftable[k].dp)
            \/ k = i
      BY <2>1, <2>3, <3>3, Zenon DEF PortInv, OneRowPerDp
    <3>5. PortsKnown'
      BY <1>2, <3>1, <3>2, <3>4, Zenon DEF PortsKnown, PortKnown
    <3>6. QED
      BY <1>2, <3>1, <3>2, <3>3, <3>5, Zenon DEF ProxyExact
  <2>6. QED
    BY <2>1, <2>4, <2>5, Zenon
<1>5. ASSUME idle_isl_rows
      PROVE  PortsKnown' /\ ProxyExact'
  <2>1. pc["proxy"] = "down" /\ todo = {} /\ announced' = announced /\ pc'["proxy"] = "idle"
    BY <1>5, DoneEffect, Zenon DEF idle_isl_rows
  <2>2. QED
    BY <1>2, <2>1, Zenon DEF PortInv, PortsKnown, PortKnown, ProxyExact
<1>6. QED
  BY <1>2, <1>3, <1>4, <1>5, ProxyQuiet, Zenon

\* The writes of the proxy thread: what they have in common.
LEMMA ProxyWrote ==
    ASSUME ~Overlap, TableInv, PortInv, ProxyMoves, pc["proxy"] \in {"save", "reset", "map"}
    PROVE  /\ pc \in [Threads -> Labels]
           /\ work["proxy"].id \in 0..Len(rftable) /\ work["proxy"].entry \in Rows
           /\ OneRowPerDp' /\ NoIdlePair' /\ PortsKnown' /\ pc'["proxy"] \in {"idle", "down"} => PortInv'
<1>1. /\ pc \in [Threads -> Labels] /\ work["proxy"] \in Work /\ Len(rftable) \in Nat
      /\ work["proxy"].id <= Len(rftable)
  BY DEF TableInv, TypeOK, ProxyLocals, Threads
<1>2. pc'["client"] # "save" /\ Alone'
  BY ProxyAlone, Zenon DEF PortInv
<1>3. QED
  BY <1>1, <1>2 DEF Work, PortInv, ClientExact, ProxyExact

\* set_entry at the end of register_dp_port.
LEMMA SavePortInv ==
    ASSUME ~Overlap, TableInv, PortInv, ProxyMoves, save_entry("proxy")
    PROVE  PortInv' /\ VmsKept
<1>1. /\ pc["proxy"] = "save" /\ pc'["proxy"] = "idle" /\ announced' = announced
      /\ rftable' = set_entry(rftable, work["proxy"].id, work["proxy"].entry)
  BY DoneEffect, Zenon DEF save_entry, Threads
<1>2. PICK id \in 0..Len(rftable), e \in Rows : id = work["proxy"].id /\ e = work["proxy"].entry
  BY <1>1, ProxyWrote, Zenon
<1>3. /\ e.dp \in DpPorts /\ e.dp \in announced /\ \A i \in 1..Len(rftable) : rftable[i].dp # e.dp
      /\ id = 0 => /\ e.vm = None
                   /\ \A i \in 1..Len(rftable) : rftable[i].vm # None => Config[rftable[i].vm] # e.dp
      /\ id # 0 => e.vm # None /\ rftable[id].vm = e.vm
  BY <1>1, <1>2, Zenon DEF PortInv, ProxyExact
<1>4. ~is_idle_vm_port(e)
  BY <1>3, ConfigAssumption, Zenon DEF is_idle_vm_port
<1>5. is_idle_dp_port(e) => \A i \in 1..Len(rftable) : rftable[i].vm # None => Config[rftable[i].vm] # e.dp
  BY <1>3, Zenon DEF is_idle_dp_port
<1>6. rftable' = set_entry(rftable, id, e)
  BY <1>1, <1>2, Zenon
<1>7. /\ OneRowPerDp' /\ NoIdlePair' /\ VmsKept
      /\ \A k \in 1..Len(rftable') :
           \/ k \in 1..Len(rftable) /\ k # id /\ rftable'[k] = rftable[k]
           \/ rftable'[k] = e
  BY <1>3, <1>4, <1>5, <1>6, PortWrite
<1>8. PortsKnown'
  BY <1>1, <1>3, <1>7, Zenon DEF PortInv, PortsKnown, PortKnown
<1>9. QED
  BY <1>1, <1>7, <1>8, ProxyWrote, Zenon

\* set_entry in set_dp_port_down: the row keeps its VM port, and the switch
\* port it was configured with was in this row only.
LEMMA ResetPortInv ==
    ASSUME ~Overlap, TableInv, PortInv, ProxyMoves, reset_vm_port
    PROVE  PortInv' /\ VmsKept
<1>1. /\ pc["proxy"] = "reset" /\ announced' = announced /\ todo' = todo
      /\ rftable' = set_entry(rftable, work["proxy"].id, make_idle(work["proxy"].entry, RFENTRY_IDLE_VM_PORT))
      /\ Goto("proxy", "down")
  BY Zenon DEF reset_vm_port, Save
<1>2. PICK id \in 0..Len(rftable), e \in Rows : id = work["proxy"].id /\ e = work["proxy"].entry
  BY <1>1, ProxyWrote, Zenon
<1>3. pc'["proxy"] = "down"
  BY <1>1, ProxyWrote, Zenon DEF Goto, Threads
<1>4. id # 0 /\ RowOK(e) /\ rftable[id] = e /\ e.dp # None
  BY <1>1, <1>2, Zenon DEF TableInv, ProxyLocals, PortInv, ProxyExact
<1>5. PICK n \in Rows : n = make_idle(e, RFENTRY_IDLE_VM_PORT) /\ n.vm = e.vm /\ n.dp = None
  <2>1. make_idle(e, RFENTRY_IDLE_VM_PORT) = [e EXCEPT !.dp = None, !.vs = None]
    BY Zenon DEF make_idle
  <2>2. PICK n : n = [e EXCEPT !.dp = None, !.vs = None]
    OBVIOUS
  <2>3. n \in Rows /\ n.vm = e.vm /\ n.dp = None
    BY <2>2, Zenon DEF Rows
  <2>4. QED
    BY <2>1, <2>2, <2>3, Zenon
<1>6. rftable' = set_entry(rftable, id, n)
  BY <1>1, <1>2, <1>5, Zenon
<1>7. is_idle_vm_port(n) => \A k \in 1..Len(rftable) :
        k # id /\ rftable[k].dp # None => rftable[k].dp # Config[n.vm]
  <2>1. is_idle_vm_port(n) => Config[n.vm] = rftable[id].dp
    BY <1>4, <1>5, Zenon DEF is_idle_vm_port, RowOK
  <2>2. id \in 1..Len(rftable)
    BY <1>4
  <2>3. QED
    BY <2>1, <2>2, Zenon DEF PortInv, OneRowPerDp
<1>8. ~is_idle_dp_port(n)
  BY <1>5, Zenon DEF is_idle_dp_port
<1>9. /\ OneRowPerDp' /\ NoIdlePair' /\ VmsKept
      /\ \A k \in 1..Len(rftable') :
           \/ k \in 1..Len(rftable) /\ k # id /\ rftable'[k] = rftable[k]
           \/ rftable'[k] = n
  BY <1>4, <1>5, <1>6, <1>7, <1>8, PortWrite, Zenon
<1>10. PortsKnown'
  BY <1>1, <1>2, <1>3, <1>5, <1>9 DEF PortInv, PortsKnown, PortKnown
<1>11. QED
  BY <1>1, <1>3, <1>9, <1>10, ProxyWrote, Zenon

\* set_entry in map_port: both ports stay.
LEMMA MapSuccessPortInv ==
    ASSUME ~Overlap, TableInv, PortInv, ProxyMoves, map_success
    PROVE  PortInv' /\ VmsKept
<1>1. /\ pc["proxy"] = "map" /\ pc'["proxy"] = "idle" /\ announced' = announced
      /\ rftable' = set_entry(rftable, work["proxy"].id, work["proxy"].entry)
  BY DoneEffect, Zenon DEF map_success, Threads
<1>2. PICK id \in 0..Len(rftable), e \in Rows : id = work["proxy"].id /\ e = work["proxy"].entry
  BY <1>1, ProxyWrote, Zenon
<1>3. /\ id # 0 /\ rftable[id].vm = e.vm /\ rftable[id].dp = e.dp
      /\ e.vm # None /\ e.dp # None
  BY <1>1, <1>2, Zenon DEF TableInv, ProxyLocals, PortInv, ProxyExact
<1>4. id \in 1..Len(rftable) /\ \A k \in 1..Len(rftable) : k # id => rftable[k].dp # e.dp
  BY <1>3 DEF PortInv, OneRowPerDp
<1>5. ~is_idle_vm_port(e) /\ ~is_idle_dp_port(e)
  BY <1>3, Zenon DEF is_idle_vm_port, is_idle_dp_port
<1>6. rftable' = set_entry(rftable, id, e)
  BY <1>1, <1>2, Zenon
<1>7. /\ OneRowPerDp' /\ NoIdlePair' /\ VmsKept
      /\ \A k \in 1..Len(rftable') :
           \/ k \in 1..Len(rftable) /\ k # id /\ rftable'[k] = rftable[k]
           \/ rftable'[k] = e
  BY <1>3, <1>4, <1>5, <1>6, PortWrite, Zenon
<1>8. PortsKnown'
  BY <1>1, <1>3, <1>4, <1>7, Zenon DEF PortInv, PortsKnown, PortKnown
<1>9. QED
  BY <1>1, <1>7, <1>8, ProxyWrote, Zenon

\* map_port: the row it found is associated, so it holds both ports.
LEMMA MapPortInv ==
    ASSUME ~Overlap, TableInv, PortInv, ProxyMoves, NEW vm \in VmPorts, map_port(vm)
    PROVE  PortInv' /\ VmsKept
<1> USE DEF Threads
<1>1. /\ pc \in [Threads -> Labels] /\ work \in [Threads -> Work] /\ rftable \in Seq(Rows)
      /\ \A i \in 1..Len(rftable) : rftable[i] \in Rows
  BY DEF TableInv, TypeOK
<1>2. PICK i \in VmRows(vm) :
        /\ pc["proxy"] = "idle" /\ UNCHANGED <<tables, announced>>
        /\ get_status(rftable[i]) = RFENTRY_ASSOCIATED
        /\ Save("proxy", "map", vm, i, activate(rftable[i], VsOf[vm]))
  BY Zenon DEF map_port, Free
<1>3. UNCHANGED rftable
  BY <1>2, Zenon DEF tables
<1>4. i \in 1..Len(rftable) /\ rftable[i].vm = vm /\ rftable[i] \in Rows /\ vm # None
  BY <1>1, <1>2, ConfigAssumption DEF VmRows
<1>5. rftable[i].dp # None
  BY <1>2, <1>4, Zenon DEF get_status, is_idle_vm_port, is_idle_dp_port, RFENTRY_IDLE_VM_PORT,
     RFENTRY_IDLE_DP_PORT, RFENTRY_ASSOCIATED, RFENTRY_ACTIVE
<1>6. /\ pc'["proxy"] = "map"
      /\ work'["proxy"] = [port |-> vm, id |-> i, entry |-> [rftable[i] EXCEPT !.vs = VsOf[vm]]]
  BY <1>1, <1>2, Zenon DEF Save, Goto, activate
<1>7. work'["proxy"].id = i /\ work'["proxy"].entry = [rftable[i] EXCEPT !.vs = VsOf[vm]]
  BY <1>6
<1>8. work'["proxy"].entry.vm = vm /\ work'["proxy"].entry.dp = rftable[i].dp
  BY <1>4, <1>7, Zenon DEF Rows
<1>9. ProxyExact'
  BY <1>3, <1>4, <1>5, <1>6, <1>7, <1>8, Zenon DEF ProxyExact
<1>10. PortsKnown'
  BY <1>2, <1>3, Zenon DEF PortInv, PortsKnown, PortKnown
<1>11. QED
  BY <1>3, <1>9, <1>10, ProxyQuiet, Zenon

LEMMA NextPortInv == ~Overlap /\ TableInv /\ PortInv /\ [Next]_vars => PortInv' /\ VmsKept
<1> SUFFICES ASSUME ~Overlap, TableInv, PortInv, [Next]_vars PROVE PortInv' /\ VmsKept
  OBVIOUS
<1>1. ASSUME UNCHANGED <<rftable, pc, work, todo, announced>> PROVE PortInv' /\ VmsKept
  <2>1. Alone' /\ OneRowPerDp' /\ NoIdlePair' /\ VmsKept
    BY <1>1, Zenon DEF PortInv, Alone, OneRowPerDp, NoIdlePair, VmsKept
  <2>2. PortsKnown'
    BY <1>1, Zenon DEF PortInv, PortsKnown, PortKnown
  <2>3. ClientExact' /\ ProxyExact'
    BY <1>1, Zenon DEF PortInv, ClientExact, ProxyExact
  <2>4. QED
    BY <2>1, <2>2, <2>3, Zenon DEF PortInv
<1>2. CASE UNCHANGED vars
  BY <1>1, <1>2, Zenon DEF vars
<1>3. ASSUME NEW vm \in VmPorts, process_port_config(vm) \/ restart_client(vm) PROVE PortInv' /\ VmsKept
  BY <1>1, <1>3, Zenon DEF process_port_config, restart_client, tables
<1>4. CASE ClientMoves
  BY <1>4, ClientPortInv, Zenon
<1>5. CASE ProxyMoves
  BY Zenon, <1>5, RegisterPortInv, LookupPortInv, DownPortInv, SavePortInv, ResetPortInv,
     MapSuccessPortInv, MapPortInv
     DEF ProxyMoves, ProxySteps
<1>6. QED
  BY <1>2, <1>3, <1>4, <1>5, Zenon DEF Next, ClientMoves, ProxyMoves

LEMMA InitPortInv == Init => PortInv
BY DEF Init, PortInv, Alone, OneRowPerDp, NoIdlePair, PortsKnown, ClientExact, ProxyExact, Threads

\* When the handlers never overlap, no configured pair of ports is left in two
\* idle rows between messages: whichever of register_vm_port and
\* register_dp_port comes second finds the row of the first.
THEOREM AssociationTheorem == ~Overlap => (Spec => []NoMissedAssociation)
<1> SUFFICES ASSUME ~Overlap PROVE Spec => []NoMissedAssociation
  OBVIOUS
<1>1. TableInv /\ PortInv /\ [Next]_vars => PortInv'
  BY NextPortInv, Zenon
<1>2. TableInv /\ PortInv => NoMissedAssociation
  <2>1. TableInv => DOMAIN rftable = 1..Len(rftable) /\ \A i \in 1..Len(rftable) : rftable[i] \in Rows
    BY DEF TableInv, TypeOK
  <2>2. QED
    BY <2>1, Associate, Zenon DEF PortInv, NoIdlePair, NoMissedAssociation
<1>3. QED
  BY <1>1, <1>2, InitPortInv, InitTableInv, NextTableInv, PTL DEF Spec

\* When the handlers never overlap, a VM port that has a row keeps it through
\* every step of every handler: make_idle clears the switch port only, and the
\* copies that set_entry writes back still hold the VM port of their row.
THEOREM VmPortTheorem == ~Overlap => (Spec => VmPortKept)
<1> SUFFICES ASSUME ~Overlap PROVE Spec => VmPortKept
  OBVIOUS
<1> DEFINE Kept == \A vm \in VmPorts : VmRows(vm) # {} => \E i \in DOMAIN rftable' : rftable'[i].vm = vm
<1>1. TableInv /\ PortInv /\ [Next]_vars => PortInv'
  BY NextPortInv, Zenon
<1>2. TableInv /\ TableInv' /\ PortInv /\ [Next]_vars => [Kept]_vars
  <2> SUFFICES ASSUME TableInv, TableInv', PortInv, [Next]_vars, NEW vm \in VmPorts, NEW k \in VmRows(vm)
               PROVE  \E i \in DOMAIN rftable' : rftable'[i].vm = vm
    OBVIOUS
  <2>1. VmsKept
    BY NextPortInv, Zenon
  <2>2. DOMAIN rftable = 1..Len(rftable) /\ DOMAIN rftable' = 1..Len(rftable')
    BY DEF TableInv, TypeOK
  <2>3. k \in 1..Len(rftable) /\ rftable[k].vm = vm /\ vm # None
    BY <2>2, ConfigAssumption, Zenon DEF VmRows
  <2>4. k \in DOMAIN rftable' /\ rftable'[k].vm = vm
    BY <2>1, <2>2, <2>3, Zenon DEF VmsKept
  <2>5. QED
    BY <2>4, Zenon
<1>3. QED
  BY <1>1, <1>2, InitPortInv, InitTableInv, NextTableInv, PTL DEF Spec, VmPortKept

\* When the handlers never overlap and no client restarts, no port is in two
\* rows: the lookups that take the first match find the only one.
THEOREM UniqueTheorem == ~Overlap /\ MaxRestarts = 0 => (Spec => []PortsUnique)
<1> SUFFICES ASSUME ~Overlap, MaxRestarts = 0 PROVE Spec => []PortsUnique
  OBVIOUS
<1>1. TableInv /\ PortInv /\ [Next]_vars => PortInv'
  BY NextPortInv, Zenon
<1>2. TableInv /\ AgreeInv /\ PortInv => PortsUnique
  <2> SUFFICES ASSUME TableInv, AgreeInv, PortInv PROVE PortsUnique
    OBVIOUS
  <2>1. restarts = 0 /\ DOMAIN rftable = 1..Len(rftable)
    BY DEF TableInv, TypeOK
  <2>2. OneRowPerVm /\ OneRowPerDp
    BY <2>1, Zenon DEF AgreeInv, PortInv
  <2>3. QED
    BY <2>1, <2>2, Zenon DEF PortsUnique, OneRowPerVm, OneRowPerDp
<1>3. QED
  BY <1>1, <1>2, InitPortInv, InitTableInv, NextTableInv, InitAgreeInv, NextAgreeInv, PTL DEF Spec
==============================================================================
