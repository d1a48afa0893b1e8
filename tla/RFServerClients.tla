---------------------------- MODULE RFServerClients ----------------------------
(***************************************************************************)
(* RFServer and its clients agree on the active ports until a client        *)
(* restarts, under every interleaving of the two listener threads.          *)
(***************************************************************************)
EXTENDS RFServerProofs

\* A VM port is in one row, and in none before its PortRegister is saved.
OneRowPerVm ==
    \A i, j \in 1..Len(rftable) : rftable[i].vm # None /\ rftable[i].vm = rftable[j].vm => i = j
NotYetRegistered == \A i \in 1..Len(rftable) : rftable[i].vm \notin registering

\* The row the client thread is about to write has no VM port yet.
ClientCopy ==
    LET w == work["client"]
    IN  pc["client"] = "save" =>
          /\ w.entry.vm \in VmPorts \ registering /\ w.entry.vs = None
          /\ \A i \in 1..Len(rftable) : rftable[i].vm # w.entry.vm
          /\ w.id # 0 => rftable[w.id].vm = None

\* The row the proxy thread is about to write still has the VM port of the
\* copy, or it got one since and is not active.
ProxyCopy ==
    LET w == work["proxy"]
    IN  /\ pc["proxy"] = "save" =>
             /\ w.entry.vs = None
             /\ w.id = 0 => w.entry.vm = None
             /\ w.id # 0 => /\ w.entry.vm # None /\ rftable[w.id].vm = w.entry.vm
                            /\ rftable[w.id].vs = None
        /\ pc["proxy"] = "map" =>
             /\ w.entry.vm = w.port /\ w.entry.vs # None
             /\ rftable[w.id].vm = w.port /\ rftable[w.id].vs = None
        /\ pc["proxy"] = "reset" =>
             rftable[w.id].vm = w.entry.vm \/ (w.entry.vm = None /\ rftable[w.id].vs = None)

ActiveRow(vm) == \E i \in 1..Len(rftable) : rftable[i].vm = vm /\ rftable[i].vs # None
Agreement == \A vm \in VmPorts : WillBeActive(vm) <=> ActiveRow(vm)

\* The inductive invariant behind ClientAgrees, on top of TableInv.
AgreeInv ==
    restarts = 0 => OneRowPerVm /\ NotYetRegistered /\ ClientCopy /\ ProxyCopy /\ Agreement

------------------------------------------------------------------------------
\* The copy of a thread that did not move stays what it was.
LEMMA CopiesStay ==
    ASSUME TableInv, AgreeInv, restarts = 0, UNCHANGED <<rftable, registering>>
    PROVE  /\ OneRowPerVm' /\ NotYetRegistered'
           /\ pc'["client"] = pc["client"] /\ work'["client"] = work["client"] => ClientCopy'
           /\ pc'["proxy"] = pc["proxy"] /\ work'["proxy"] = work["proxy"] => ProxyCopy'
<1>1. OneRowPerVm' /\ NotYetRegistered'
  BY Zenon DEF AgreeInv, OneRowPerVm, NotYetRegistered
<1>2. ASSUME pc'["client"] = pc["client"], work'["client"] = work["client"] PROVE ClientCopy'
  BY <1>2, Zenon DEF AgreeInv, ClientCopy
<1>3. ASSUME pc'["proxy"] = pc["proxy"], work'["proxy"] = work["proxy"] PROVE ProxyCopy'
  BY <1>3, Zenon DEF AgreeInv, ProxyCopy
<1>4. QED
  BY <1>1, <1>2, <1>3, Zenon

\* Steps that write no row and tell no client.
LEMMA QuietStep ==
    ASSUME TableInv, AgreeInv, UNCHANGED <<rftable, registering, active, s2c, restarts>>,
           \/ pc'["client"] = pc["client"] /\ work'["client"] = work["client"]
           \/ pc'["client"] # "save",
           \/ pc'["proxy"] = pc["proxy"] /\ work'["proxy"] = work["proxy"]
           \/ pc'["proxy"] \notin {"save", "map", "reset"}
           \/ restarts = 0 => ProxyCopy'
    PROVE  AgreeInv'
<1> SUFFICES ASSUME restarts = 0
             PROVE  (OneRowPerVm /\ NotYetRegistered /\ ClientCopy /\ ProxyCopy /\ Agreement)'
  BY Zenon DEF AgreeInv
<1>1. Agreement'
  BY Zenon DEF AgreeInv, Agreement, WillBeActive, ActiveRow
<1>2. ClientCopy'
  <2>1. CASE pc'["client"] # "save"
    BY <2>1, Zenon DEF ClientCopy
  <2>2. QED
    BY <2>1, CopiesStay, Zenon
<1>3. ProxyCopy'
  <2>1. CASE pc'["proxy"] \notin {"save", "map", "reset"}
    BY <2>1, Zenon DEF ProxyCopy
  <2>2. QED
    BY <2>1, CopiesStay, Zenon
<1>4. QED
  BY <1>1, <1>2, <1>3, CopiesStay, Zenon

\* What a write leaves in the table.
LEMMA Written ==
    ASSUME TableInv, NEW id \in 0..Len(rftable), NEW e \in Rows,
           rftable' = set_entry(rftable, id, e)
    PROVE  \E at \in 1..Len(rftable') :
             /\ rftable'[at] = e /\ (id # 0 => at = id) /\ (id = 0 => at \notin 1..Len(rftable))
             /\ \A k \in 1..Len(rftable') : k # at => k \in 1..Len(rftable) /\ rftable'[k] = rftable[k]
             /\ \A k \in 1..Len(rftable) : k \in 1..Len(rftable')
<1>1. rftable \in Seq(Rows) /\ Len(rftable) \in Nat
  BY DEF TableInv, TypeOK
<1> DEFINE at == IF id = 0 THEN Len(rftable) + 1 ELSE id
<1>2. /\ rftable' \in Seq(Rows) /\ Len(rftable) <= Len(rftable')
      /\ at \in 1..Len(rftable') /\ rftable'[at] = e
      /\ \A k \in 1..Len(rftable') : k # at => k \in 1..Len(rftable) /\ rftable'[k] = rftable[k]
  BY <1>1 DEF set_entry
<1>3. Len(rftable') \in Nat
  BY <1>2
<1>4. \A k \in 1..Len(rftable) : k \in 1..Len(rftable')
  BY <1>1, <1>2, <1>3
<1>5. at \in 1..Len(rftable') /\ (id # 0 => at = id) /\ (id = 0 => at \notin 1..Len(rftable))
  BY <1>1, <1>2
<1>6. QED
  BY <1>2, <1>4, <1>5, Zenon

\* The PortRegister of a VM port: its first row, never an active one.
LEMMA ClientWriteAgrees ==
    ASSUME TableInv, AgreeInv, save_entry("client")
    PROVE  AgreeInv'
<1> DEFINE w == work["client"]
           e == w.entry
<1>1. /\ pc["client"] = "save" /\ rftable' = set_entry(rftable, w.id, e)
      /\ Done("client") /\ UNCHANGED <<registering, active, s2c, restarts>>
  BY Zenon DEF save_entry, clients
<1>2. w.id \in 0..Len(rftable) /\ e \in Rows
  BY <1>1 DEF TableInv, TypeOK, ClientLocals, Work, Threads
<1>3. pc'["client"] = "idle" /\ pc'["proxy"] = pc["proxy"] /\ work'["proxy"] = work["proxy"]
  BY <1>1, DoneEffect, Zenon DEF Threads
<1> SUFFICES ASSUME restarts = 0
             PROVE  (OneRowPerVm /\ NotYetRegistered /\ ClientCopy /\ ProxyCopy /\ Agreement)'
  BY <1>1, Zenon DEF AgreeInv
<1>4. /\ e.vm \in VmPorts \ registering /\ e.vs = None
      /\ \A i \in 1..Len(rftable) : rftable[i].vm # e.vm
      /\ w.id # 0 => rftable[w.id].vm = None
  BY <1>1, Zenon DEF AgreeInv, ClientCopy
<1> HIDE DEF e
<1>5. PICK at \in 1..Len(rftable') :
        /\ rftable'[at] = e /\ (w.id # 0 => at = w.id) /\ (w.id = 0 => at \notin 1..Len(rftable))
        /\ \A k \in 1..Len(rftable') : k # at => k \in 1..Len(rftable) /\ rftable'[k] = rftable[k]
        /\ \A k \in 1..Len(rftable) : k \in 1..Len(rftable')
  BY <1>1, <1>2, Written, Zenon
<1>6. at \in 1..Len(rftable) => rftable[at].vm = None
  BY <1>4, <1>5, Zenon
<1>7. OneRowPerVm' /\ NotYetRegistered'
  <2>1. OneRowPerVm'
    BY <1>4, <1>5 DEF AgreeInv, OneRowPerVm
  <2>2. NotYetRegistered'
    BY <1>1, <1>4, <1>5, Zenon DEF AgreeInv, NotYetRegistered
  <2>3. QED
    BY <2>1, <2>2, Zenon
<1>8. ClientCopy'
  BY <1>3, Zenon DEF ClientCopy
<1>9. ProxyCopy'
  <2> DEFINE v == work["proxy"]
  <2>1. pc["proxy"] \in {"save", "map", "reset"} /\ v.id # 0 => v.id \in 1..Len(rftable)
    BY DEF TableInv, TypeOK, ProxyLocals, Work, Threads
  <2>2. /\ pc["proxy"] \in {"reset", "map"} => v.id # 0
        /\ pc["proxy"] = "map" => v.port # None
    BY ConfigAssumption, Zenon DEF TableInv, ProxyLocals
  <2>3. v.id \in 1..Len(rftable) => rftable'[v.id] = rftable[v.id] \/ (rftable[v.id].vm = None /\ rftable'[v.id] = e)
    BY <1>5, <1>6, Zenon
  <2>4. ProxyCopy
    BY Zenon DEF AgreeInv
  <2>5. QED
    BY <1>3, <1>4, <2>1, <2>2, <2>3, <2>4, Zenon DEF ProxyCopy
<1>10. \A vm \in VmPorts : ActiveRow(vm)' <=> ActiveRow(vm)
  <2> SUFFICES ASSUME NEW vm \in VmPorts PROVE ActiveRow(vm)' <=> ActiveRow(vm)
    OBVIOUS
  <2>1. ASSUME NEW k \in 1..Len(rftable'), rftable'[k].vm = vm, rftable'[k].vs # None
        PROVE  ActiveRow(vm)
    BY <1>4, <1>5, <2>1 DEF ActiveRow
  <2>2. ASSUME NEW k \in 1..Len(rftable), rftable[k].vm = vm, rftable[k].vs # None
        PROVE  ActiveRow(vm)'
    <3>1. k # at /\ k \in 1..Len(rftable')
      BY <1>5, <1>6, <2>2, ConfigAssumption, Zenon
    <3>2. rftable'[k] = rftable[k]
      BY <1>5, <3>1, Zenon
    <3>3. QED
      BY <2>2, <3>1, <3>2, Zenon DEF ActiveRow
  <2>3. QED
    BY <2>1, <2>2, Zenon DEF ActiveRow
<1>11. Agreement'
  BY <1>1, <1>10, Zenon DEF AgreeInv, Agreement, WillBeActive
<1>12. QED
  BY <1>7, <1>8, <1>9, <1>11, Zenon

\* The proxy's writes: the row keeps its VM port, or was not active.
LEMMA ProxyWriteAgrees ==
    ASSUME TableInv, AgreeInv, restarts = 0, NEW id \in 0..Len(rftable), NEW e \in Rows,
           rftable' = set_entry(rftable, id, e), UNCHANGED registering,
           pc'["client"] = pc["client"], work'["client"] = work["client"],
           id = 0 => e.vm = None,
           id # 0 => \/ rftable[id].vm = e.vm
                     \/ e.vm = None /\ rftable[id].vs = None
    PROVE  /\ OneRowPerVm' /\ NotYetRegistered' /\ ClientCopy'
           /\ \A vm \in VmPorts : vm # e.vm => (ActiveRow(vm)' <=> ActiveRow(vm))
           /\ e.vm \in VmPorts => (ActiveRow(e.vm)' <=> e.vs # None)
<1>1. PICK at \in 1..Len(rftable') :
        /\ rftable'[at] = e /\ (id # 0 => at = id) /\ (id = 0 => at \notin 1..Len(rftable))
        /\ \A k \in 1..Len(rftable') : k # at => k \in 1..Len(rftable) /\ rftable'[k] = rftable[k]
        /\ \A k \in 1..Len(rftable) : k \in 1..Len(rftable')
  BY Written, Zenon
<1>2. /\ id # 0 => id \in 1..Len(rftable) /\ rftable[id] \in Rows
      /\ None \notin VmPorts /\ None \notin registering /\ (e.vm = None \/ e.vm \in VmPorts)
  <2>1. rftable \in Seq(Rows) /\ registering \subseteq VmPorts /\ None \notin VmPorts
    BY ConfigAssumption, Zenon DEF TableInv, TypeOK
  <2>2. id # 0 => id \in 1..Len(rftable) /\ rftable[id] \in Rows
    BY <2>1
  <2>3. e.vm = None \/ e.vm \in VmPorts
    BY Zenon DEF Rows
  <2>4. QED
    BY <2>1, <2>2, <2>3, Zenon
<1>3. OneRowPerVm'
  <2>1. e.vm # None => id # 0 /\ rftable[id].vm = e.vm
    BY Zenon
  <2>2. ASSUME NEW k \in 1..Len(rftable'), k # at, e.vm # None PROVE rftable'[k].vm # e.vm
    <3>1. k \in 1..Len(rftable) /\ rftable'[k] = rftable[k] /\ k # id
      BY <1>1, <2>1, <2>2, Zenon
    <3>2. QED
      BY <1>2, <2>1, <2>2, <3>1, Zenon DEF AgreeInv, OneRowPerVm
  <2> SUFFICES ASSUME NEW i \in 1..Len(rftable'), NEW j \in 1..Len(rftable'),
                      rftable'[i].vm # None, rftable'[i].vm = rftable'[j].vm
               PROVE  i = j
    BY Zenon DEF OneRowPerVm
  <2>3. CASE i = at \/ j = at
    BY <1>1, <2>2, <2>3, Zenon
  <2>4. CASE i # at /\ j # at
    <3>1. /\ i \in 1..Len(rftable) /\ rftable'[i] = rftable[i]
          /\ j \in 1..Len(rftable) /\ rftable'[j] = rftable[j]
      BY <1>1, <2>4, Zenon
    <3>2. rftable[i].vm # None /\ rftable[i].vm = rftable[j].vm
      BY <3>1
    <3>3. QED
      BY <3>1, <3>2, Zenon DEF AgreeInv, OneRowPerVm
  <2>5. QED
    BY <2>3, <2>4, Zenon
<1>4. NotYetRegistered'
  BY <1>1, <1>2, Zenon DEF AgreeInv, NotYetRegistered
<1>5. ClientCopy'
  <2> DEFINE w == work["client"]
  <2>1. pc["client"] = "save" /\ w.id # 0 => w.id \in 1..Len(rftable)
    BY DEF TableInv, TypeOK, ClientLocals, Work, Threads
  <2>2. ASSUME pc["client"] = "save", NEW k \in 1..Len(rftable') PROVE rftable'[k].vm # w.entry.vm
    BY <1>1, <1>2, <2>2, Zenon DEF AgreeInv, ClientCopy
  <2>3. ASSUME pc["client"] = "save", w.id # 0 PROVE rftable'[w.id].vm = None
    BY <1>1, <1>2, <2>1, <2>3, Zenon DEF AgreeInv, ClientCopy
  <2>4. QED
    BY <2>2, <2>3, Zenon DEF AgreeInv, ClientCopy
<1>6. ASSUME NEW vm \in VmPorts, vm # e.vm PROVE ActiveRow(vm)' <=> ActiveRow(vm)
  <2>1. ASSUME NEW k \in 1..Len(rftable'), rftable'[k].vm = vm, rftable'[k].vs # None
        PROVE  ActiveRow(vm)
    BY <1>1, <1>6, <2>1, Zenon DEF ActiveRow
  <2>2. ASSUME NEW k \in 1..Len(rftable), rftable[k].vm = vm, rftable[k].vs # None
        PROVE  ActiveRow(vm)'
    <3>1. k # at /\ k \in 1..Len(rftable')
      BY <1>1, <1>2, <1>6, <2>2, Zenon
    <3>2. rftable'[k] = rftable[k]
      BY <1>1, <3>1, Zenon
    <3>3. QED
      BY <2>2, <3>1, <3>2, Zenon DEF ActiveRow
  <2>3. QED
    BY <2>1, <2>2, Zenon DEF ActiveRow
<1>7. e.vm \in VmPorts => (ActiveRow(e.vm)' <=> e.vs # None)
  <2> SUFFICES ASSUME e.vm \in VmPorts PROVE ActiveRow(e.vm)' <=> e.vs # None
    OBVIOUS
  <2>1. \A k \in 1..Len(rftable') : rftable'[k].vm = e.vm => k = at
    BY <1>1, <1>2, <1>3, Zenon DEF OneRowPerVm
  <2>2. ActiveRow(e.vm)' <=> \E k \in 1..Len(rftable') : rftable'[k].vm = e.vm /\ rftable'[k].vs # None
    BY Zenon DEF ActiveRow
  <2>3. QED
    BY <1>1, <2>1, <2>2, Zenon
<1>8. QED
  BY <1>3, <1>4, <1>5, <1>6, <1>7, Zenon

\* A PortConfig that is sent decides what its client will believe.
LEMMA Told ==
    ASSUME TableInv
    PROVE  \A vm \in VmPorts :
             /\ s2c'[vm] = Append(s2c[vm], "RESET") => ~WillBeActive(vm)'
             /\ s2c'[vm] = Append(s2c[vm], "MAP_SUCCESS") => WillBeActive(vm)'
<1> TAKE vm \in VmPorts
<1>1. s2c[vm] \in Seq({"RESET", "MAP_SUCCESS"})
  BY Zenon DEF TableInv, TypeOK
<1>2. ASSUME NEW m, s2c'[vm] = Append(s2c[vm], m)
      PROVE  s2c'[vm] # <<>> /\ s2c'[vm][Len(s2c'[vm])] = m
  BY <1>1, <1>2
<1>3. QED
  BY <1>2 DEF WillBeActive

\* The end of a DatapathPortRegister.
LEMMA SaveAgrees ==
    ASSUME TableInv, AgreeInv, save_entry("proxy")
    PROVE  AgreeInv'
<1> DEFINE w == work["proxy"]
<1>1. /\ pc["proxy"] = "save" /\ rftable' = set_entry(rftable, w.id, w.entry)
      /\ Done("proxy") /\ UNCHANGED <<registering, active, s2c, restarts>>
  BY Zenon DEF save_entry, clients
<1>2. w.id \in 0..Len(rftable) /\ w.entry \in Rows
  BY <1>1 DEF TableInv, TypeOK, ProxyLocals, Work, Threads
<1>3. pc'["proxy"] = "idle" /\ pc'["client"] = pc["client"] /\ work'["client"] = work["client"]
  BY <1>1, DoneEffect, Zenon DEF Threads
<1> SUFFICES ASSUME restarts = 0
             PROVE  (OneRowPerVm /\ NotYetRegistered /\ ClientCopy /\ ProxyCopy /\ Agreement)'
  BY <1>1, Zenon DEF AgreeInv
<1>4. /\ w.entry.vs = None
      /\ w.id = 0 => w.entry.vm = None
      /\ w.id # 0 => w.entry.vm # None /\ rftable[w.id].vm = w.entry.vm /\ rftable[w.id].vs = None
  BY <1>1, Zenon DEF AgreeInv, ProxyCopy
<1>5. /\ OneRowPerVm' /\ NotYetRegistered' /\ ClientCopy'
      /\ \A vm \in VmPorts : vm # w.entry.vm => (ActiveRow(vm)' <=> ActiveRow(vm))
      /\ \A vm \in VmPorts : vm = w.entry.vm => ~ActiveRow(vm)'
  <2> PICK e \in Rows, id \in 0..Len(rftable) : e = w.entry /\ id = w.id
    BY <1>2, Zenon
  <2>1. /\ id \in 0..Len(rftable) /\ e \in Rows /\ rftable' = set_entry(rftable, id, e)
        /\ id = 0 => e.vm = None
        /\ id # 0 => rftable[id].vm = e.vm
        /\ e.vs = None /\ UNCHANGED registering
    BY <1>1, <1>2, <1>4, Zenon
  <2>2. /\ OneRowPerVm' /\ NotYetRegistered' /\ ClientCopy'
        /\ \A vm \in VmPorts : vm # e.vm => (ActiveRow(vm)' <=> ActiveRow(vm))
        /\ e.vm \in VmPorts => (ActiveRow(e.vm)' <=> e.vs # None)
    BY <1>3, <2>1, ProxyWriteAgrees, Zenon
  <2>3. QED
    BY <2>1, <2>2, Zenon
<1>6. \A vm \in VmPorts : vm = w.entry.vm => ~ActiveRow(vm)
  <2> SUFFICES ASSUME w.entry.vm \in VmPorts, ActiveRow(w.entry.vm) PROVE FALSE
    OBVIOUS
  <2>1. w.id # 0 /\ w.id \in 1..Len(rftable) /\ rftable[w.id].vm = w.entry.vm /\ rftable[w.id].vs = None
    BY <1>2, <1>4, ConfigAssumption
  <2>2. PICK k \in 1..Len(rftable) : rftable[k].vm = w.entry.vm /\ rftable[k].vs # None
    BY Zenon DEF ActiveRow
  <2>3. k = w.id
    BY <2>1, <2>2, ConfigAssumption, Zenon DEF AgreeInv, OneRowPerVm
  <2>4. QED
    BY <2>1, <2>2, <2>3, Zenon
<1>7. Agreement'
  BY <1>1, <1>5, <1>6, Zenon DEF AgreeInv, Agreement, WillBeActive
<1>8. ProxyCopy'
  BY <1>3, Zenon DEF ProxyCopy
<1>9. QED
  BY <1>5, <1>7, <1>8, Zenon

\* map_port activates the row and tells the client.
LEMMA MapAgrees ==
    ASSUME TableInv, AgreeInv, map_success
    PROVE  AgreeInv'
<1> DEFINE w == work["proxy"]
<1>1. /\ pc["proxy"] = "map" /\ rftable' = set_entry(rftable, w.id, w.entry)
      /\ s2c' = [s2c EXCEPT ![w.port] = Append(s2c[w.port], "MAP_SUCCESS")]
      /\ Done("proxy") /\ UNCHANGED <<registering, active, restarts>>
  BY Zenon DEF map_success
<1>2. w.id \in 0..Len(rftable) /\ w.id # 0 /\ w.entry \in Rows /\ w.port \in VmPorts
  BY <1>1 DEF TableInv, TypeOK, ProxyLocals, Work, Threads
<1>3. pc'["proxy"] = "idle" /\ pc'["client"] = pc["client"] /\ work'["client"] = work["client"]
  BY <1>1, DoneEffect, Zenon DEF Threads
<1> SUFFICES ASSUME restarts = 0
             PROVE  (OneRowPerVm /\ NotYetRegistered /\ ClientCopy /\ ProxyCopy /\ Agreement)'
  BY <1>1, Zenon DEF AgreeInv
<1>4. w.entry.vm = w.port /\ w.entry.vs # None /\ rftable[w.id].vm = w.port
  BY <1>1, Zenon DEF AgreeInv, ProxyCopy
<1>5. /\ OneRowPerVm' /\ NotYetRegistered' /\ ClientCopy'
      /\ \A vm \in VmPorts : vm # w.port => (ActiveRow(vm)' <=> ActiveRow(vm))
      /\ \A vm \in VmPorts : vm = w.port => ActiveRow(vm)'
  <2> PICK e \in Rows, id \in 0..Len(rftable) : e = w.entry /\ id = w.id
    BY <1>2, Zenon
  <2>1. /\ id \in 0..Len(rftable) /\ e \in Rows /\ rftable' = set_entry(rftable, id, e)
        /\ id # 0 /\ rftable[id].vm = e.vm
        /\ e.vs # None /\ e.vm = w.port /\ UNCHANGED registering
    BY <1>1, <1>2, <1>4, Zenon
  <2>2. /\ OneRowPerVm' /\ NotYetRegistered' /\ ClientCopy'
        /\ \A vm \in VmPorts : vm # e.vm => (ActiveRow(vm)' <=> ActiveRow(vm))
        /\ e.vm \in VmPorts => (ActiveRow(e.vm)' <=> e.vs # None)
    BY <1>3, <2>1, ProxyWriteAgrees, Zenon
  <2>3. QED
    BY <1>2, <2>1, <2>2, Zenon
<1>6. \A vm \in VmPorts : IF vm = w.port THEN WillBeActive(vm)' ELSE WillBeActive(vm)' <=> WillBeActive(vm)
  <2>1. s2c \in [VmPorts -> Seq({"RESET", "MAP_SUCCESS"})]
    BY Zenon DEF TableInv, TypeOK
  <2>2. \A vm \in VmPorts : vm # w.port => s2c'[vm] = s2c[vm]
    BY <1>1, <2>1, Zenon
  <2>3. \A vm \in VmPorts : vm = w.port => s2c'[vm] = Append(s2c[vm], "MAP_SUCCESS")
    BY <1>1, <2>1, Zenon
  <2>4. \A vm \in VmPorts : vm = w.port => WillBeActive(vm)'
    BY <2>3, Told, Zenon
  <2>5. QED
    BY <1>1, <2>2, <2>4, Zenon DEF WillBeActive
<1>7. Agreement'
  BY <1>5, <1>6, Zenon DEF AgreeInv, Agreement
<1>8. ProxyCopy'
  BY <1>3, Zenon DEF ProxyCopy
<1>9. QED
  BY <1>5, <1>7, <1>8, Zenon

\* set_dp_port_down empties the row and tells the client that was in the copy.
LEMMA ResetAgrees ==
    ASSUME TableInv, AgreeInv, reset_vm_port
    PROVE  AgreeInv'
<1> DEFINE w == work["proxy"]
<1>1. /\ pc["proxy"] = "reset" /\ rftable' = set_entry(rftable, w.id, make_idle(w.entry, RFENTRY_IDLE_VM_PORT))
      /\ s2c' = [vm \in VmPorts |-> IF vm = w.entry.vm THEN Append(s2c[vm], "RESET") ELSE s2c[vm]]
      /\ Save("proxy", "down", w.port, 0, NoWork.entry) /\ UNCHANGED <<registering, active, restarts>>
  BY Zenon DEF reset_vm_port
<1>2. w \in Work /\ w.id \in 0..Len(rftable) /\ w.id # 0 /\ w.entry \in Rows
  BY <1>1 DEF TableInv, TypeOK, ProxyLocals, Work, Threads
<1>3. PICK e \in Rows, id \in 0..Len(rftable) :
        /\ e = make_idle(w.entry, RFENTRY_IDLE_VM_PORT) /\ id = w.id
        /\ e.vm = w.entry.vm /\ e.vs = None
  <2>1. LET f == make_idle(w.entry, RFENTRY_IDLE_VM_PORT)
        IN  f \in Rows /\ f.vm = w.entry.vm /\ f.vs = None
    BY <1>2, Zenon DEF make_idle, Rows
  <2>2. QED
    BY <1>2, <2>1, Zenon
<1>4. pc'["proxy"] = "down" /\ pc'["client"] = pc["client"] /\ work'["client"] = work["client"]
  BY <1>1, Zenon DEF Save, Goto, TableInv, TypeOK, Threads
<1> SUFFICES ASSUME restarts = 0
             PROVE  (OneRowPerVm /\ NotYetRegistered /\ ClientCopy /\ ProxyCopy /\ Agreement)'
  BY <1>1, Zenon DEF AgreeInv
<1>5. rftable[id].vm = w.entry.vm \/ (w.entry.vm = None /\ rftable[id].vs = None)
  BY <1>1, <1>3, Zenon DEF AgreeInv, ProxyCopy
<1>6. /\ OneRowPerVm' /\ NotYetRegistered' /\ ClientCopy'
      /\ \A vm \in VmPorts : vm # e.vm => (ActiveRow(vm)' <=> ActiveRow(vm))
      /\ e.vm \in VmPorts => (ActiveRow(e.vm)' <=> e.vs # None)
  BY <1>1, <1>2, <1>3, <1>4, <1>5, ProxyWriteAgrees, Zenon
<1>7. \A vm \in VmPorts : IF vm = e.vm THEN ~WillBeActive(vm)' ELSE WillBeActive(vm)' <=> WillBeActive(vm)
  <2>1. \A vm \in VmPorts : vm # e.vm => s2c'[vm] = s2c[vm]
    BY <1>1, <1>3, Zenon
  <2>2. \A vm \in VmPorts : vm = e.vm => s2c'[vm] = Append(s2c[vm], "RESET")
    BY <1>1, <1>3, Zenon
  <2>3. \A vm \in VmPorts : vm = e.vm => ~WillBeActive(vm)'
    BY <2>2, Told, Zenon
  <2>4. QED
    BY <1>1, <2>1, <2>3, Zenon DEF WillBeActive
<1>8. Agreement'
  BY <1>3, <1>6, <1>7, Zenon DEF AgreeInv, Agreement
<1>9. ProxyCopy'
  BY <1>4, Zenon DEF ProxyCopy
<1>10. QED
  BY <1>6, <1>8, <1>9, Zenon

\* The reads of the proxy thread that a write follows: lookup_dp_port,
\* set_dp_port_down and map_port.
LEMMA ProxyReadAgrees ==
    ASSUME TableInv, AgreeInv, lookup_dp_port \/ set_dp_port_down \/ \E vm \in VmPorts : map_port(vm)
    PROVE  AgreeInv'
<1> USE DEF Threads
<1>1. /\ UNCHANGED <<rftable, registering, active, s2c, restarts>>
      /\ rftable \in Seq(Rows) /\ pc \in [Threads -> Labels] /\ work \in [Threads -> Work]
      /\ \A i \in 1..Len(rftable) : RowOK(rftable[i])
  BY Zenon DEF lookup_dp_port, set_dp_port_down, map_port, tables, clients, TableInv, TypeOK
<1>2. ASSUME NEW l, NEW port, NEW id, NEW e, Save("proxy", l, port, id, e)
      PROVE  /\ pc'["proxy"] = l /\ work'["proxy"] = [port |-> port, id |-> id, entry |-> e]
             /\ pc'["client"] = pc["client"] /\ work'["client"] = work["client"]
  BY <1>1, <1>2, Zenon DEF Save, Goto
<1>3. CASE Done("proxy")
  BY <1>1, <1>3, DoneEffect, QuietStep, Zenon
<1>4. CASE Goto("proxy", "isl") /\ UNCHANGED work
  BY <1>1, <1>4, QuietStep, Zenon DEF Goto
<1>5. CASE UNCHANGED <<pc, work>>
  BY <1>1, <1>5, QuietStep, Zenon
<1>6. ASSUME NEW port, Save("proxy", "save", port, 0, Entry(None, port))
      PROVE  AgreeInv'
  <2>1. /\ pc'["proxy"] = "save" /\ work'["proxy"].id = 0
        /\ work'["proxy"].entry.vm = None /\ work'["proxy"].entry.vs = None
    BY <1>1, <1>6, Zenon DEF Save, Goto, Entry
  <2>2. ProxyCopy'
    BY <2>1, Zenon DEF ProxyCopy
  <2>3. QED
    BY <1>1, <1>2, <1>6, <2>2, QuietStep, Zenon
<1>7. ASSUME NEW port \in DpPorts, NEW i \in 1..Len(rftable), is_idle_vm_port(rftable[i]),
             Save("proxy", "save", port, i, associate(rftable[i], port))
      PROVE  AgreeInv'
  <2>1. associate(rftable[i], port) = [rftable[i] EXCEPT !.dp = port] /\ rftable[i] \in Rows /\ i # 0
    BY <1>1, <1>7, Associate
  <2>2. /\ pc'["proxy"] = "save" /\ work'["proxy"].id = i
        /\ work'["proxy"].entry = [rftable[i] EXCEPT !.dp = port]
    BY <1>1, <1>7, <2>1, Zenon DEF Save, Goto
  <2>3. work'["proxy"].entry.vm = rftable[i].vm /\ work'["proxy"].entry.vs = rftable[i].vs
    BY <2>1, <2>2, Zenon DEF Rows
  <2>4. ProxyCopy'
    BY <1>1, <1>7, <2>1, <2>2, <2>3, Zenon DEF ProxyCopy, is_idle_vm_port
  <2>5. QED
    BY <1>1, <1>2, <1>7, <2>4, QuietStep, Zenon
<1>8. ASSUME NEW port, NEW i \in 1..Len(rftable), Save("proxy", "reset", port, i, rftable[i])
      PROVE  AgreeInv'
  <2>1. pc'["proxy"] = "reset" /\ work'["proxy"].id = i /\ work'["proxy"].entry = rftable[i]
    BY <1>1, <1>8, Zenon DEF Save, Goto
  <2>2. ProxyCopy'
    BY <1>1, <2>1, Zenon DEF ProxyCopy
  <2>3. QED
    BY <1>1, <1>2, <1>8, <2>2, QuietStep, Zenon
<1>9. ASSUME NEW vm \in VmPorts, NEW i \in 1..Len(rftable), rftable[i].vm = vm,
             get_status(rftable[i]) = RFENTRY_ASSOCIATED,
             Save("proxy", "map", vm, i, activate(rftable[i], VsOf[vm]))
      PROVE  AgreeInv'
  <2>1. rftable[i] \in Rows /\ rftable[i].vs = None /\ VsOf[vm] # None
    BY <1>1, <1>9, ConfigAssumption
       DEF get_status, RFENTRY_IDLE_VM_PORT, RFENTRY_IDLE_DP_PORT, RFENTRY_ASSOCIATED, RFENTRY_ACTIVE,
           is_idle_vm_port, is_idle_dp_port
  <2>2. /\ pc'["proxy"] = "map" /\ work'["proxy"].id = i /\ work'["proxy"].port = vm
        /\ work'["proxy"].entry = [rftable[i] EXCEPT !.vs = VsOf[vm]]
    BY <1>1, <1>9, Zenon DEF Save, Goto, activate
  <2>3. work'["proxy"].entry.vm = vm /\ work'["proxy"].entry.vs = VsOf[vm]
    BY <1>9, <2>1, <2>2, Zenon DEF Rows
  <2>4. ProxyCopy'
    BY <1>1, <1>9, <2>1, <2>2, <2>3, Zenon DEF ProxyCopy
  <2>5. QED
    BY <1>1, <1>2, <1>9, <2>4, QuietStep, Zenon
<1>10. CASE lookup_dp_port
  <2> DEFINE p == work["proxy"].port
  <2>1. /\ p \in DpPorts
        /\ \/ Goto("proxy", "isl") /\ UNCHANGED work
           \/ Save("proxy", "save", p, 0, Entry(None, p))
           \/ \E vm \in VmFor(p) : \E i \in VmRows(vm) :
                /\ get_status(rftable[i]) = RFENTRY_IDLE_VM_PORT
                /\ Save("proxy", "save", p, i, associate(rftable[i], p))
           \/ Done("proxy")
    BY <1>10, Zenon DEF lookup_dp_port, TableInv, ProxyLocals
  <2>2. ASSUME NEW vm, NEW i \in VmRows(vm), get_status(rftable[i]) = RFENTRY_IDLE_VM_PORT
        PROVE  i \in 1..Len(rftable) /\ is_idle_vm_port(rftable[i])
    BY <1>1, <2>2, Associate DEF VmRows
  <2>3. PICK port \in DpPorts : port = p
    BY <2>1, Zenon
  <2>4. QED
    BY <1>3, <1>4, <1>6, <1>7, <2>1, <2>2, <2>3, Zenon
<1>11. CASE set_dp_port_down
  <2>1. \/ UNCHANGED <<pc, work>>
        \/ \E port : \E i \in DpRows(port) : Save("proxy", "reset", work["proxy"].port, i, rftable[i])
    BY <1>11, Zenon DEF set_dp_port_down
  <2>2. \A port : \A i \in DpRows(port) : i \in 1..Len(rftable)
    BY <1>1 DEF DpRows
  <2>3. PICK port : port = work["proxy"].port
    OBVIOUS
  <2>4. QED
    BY <1>5, <1>8, <2>1, <2>2, <2>3, Zenon
<1>12. ASSUME NEW vm \in VmPorts, map_port(vm)
       PROVE  AgreeInv'
  <2>1. PICK i \in VmRows(vm) : /\ get_status(rftable[i]) = RFENTRY_ASSOCIATED
                                /\ Save("proxy", "map", vm, i, activate(rftable[i], VsOf[vm]))
    BY <1>12, Zenon DEF map_port
  <2>2. i \in 1..Len(rftable) /\ rftable[i].vm = vm
    BY <1>1 DEF VmRows
  <2>3. QED
    BY <1>9, <2>1, <2>2, Zenon
<1>13. QED
  BY <1>10, <1>11, <1>12, Zenon

\* The first half of a PortRegister.
LEMMA RegisterVmAgrees ==
    ASSUME TableInv, AgreeInv, NEW vm \in VmPorts, register_vm_port(vm)
    PROVE  AgreeInv'
<1> USE DEF Threads
<1>1. /\ UNCHANGED <<rftable, active, s2c, restarts>> /\ registering' = registering \ {vm} /\ vm \in registering
      /\ rftable \in Seq(Rows) /\ pc \in [Threads -> Labels] /\ work \in [Threads -> Work]
  BY Zenon DEF register_vm_port, tables, TableInv, TypeOK
<1>2. PICK id \in 0..Len(rftable), e \in Rows :
        \/ /\ Save("client", "save", vm, id, e) /\ e.vm = vm /\ e.vs = None
           /\ id # 0 => rftable[id].vm = None
        \/ UNCHANGED <<pc, work>>
  <2>1. ASSUME NEW i \in DpRows(Config[vm]), get_status(rftable[i]) = RFENTRY_IDLE_DP_PORT
        PROVE  LET e == associate(rftable[i], vm)
               IN  i \in 0..Len(rftable) /\ e \in Rows /\ e.vm = vm /\ e.vs = None /\ rftable[i].vm = None
    <3>1. i \in 1..Len(rftable) /\ rftable[i] \in Rows
      BY <1>1 DEF DpRows
    <3>2. is_idle_dp_port(rftable[i]) /\ associate(rftable[i], vm) = [rftable[i] EXCEPT !.vm = vm]
      BY <2>1, <3>1, Associate, Zenon
    <3>3. QED
      BY <3>1, <3>2 DEF is_idle_dp_port, Rows
  <2>2. Entry(vm, None) \in Rows /\ Entry(vm, None).vm = vm /\ Entry(vm, None).vs = None /\ 0 \in 0..Len(rftable)
    BY <1>1, NewRows DEF Entry
  <2>3. QED
    BY <2>1, <2>2, Zenon DEF register_vm_port
<1> SUFFICES ASSUME restarts = 0
             PROVE  (OneRowPerVm /\ NotYetRegistered /\ ClientCopy /\ ProxyCopy /\ Agreement)'
  BY <1>1, Zenon DEF AgreeInv
<1>3. pc'["proxy"] = pc["proxy"] /\ work'["proxy"] = work["proxy"]
  BY <1>1, <1>2, Zenon DEF Save, Goto
<1>4. OneRowPerVm' /\ NotYetRegistered' /\ ProxyCopy' /\ Agreement'
  <2>1. OneRowPerVm' /\ NotYetRegistered'
    BY <1>1, Zenon DEF AgreeInv, OneRowPerVm, NotYetRegistered
  <2>2. ProxyCopy'
    BY <1>1, <1>3, Zenon DEF AgreeInv, ProxyCopy
  <2>3. Agreement'
    BY <1>1, Zenon DEF AgreeInv, Agreement, WillBeActive, ActiveRow
  <2>4. QED
    BY <2>1, <2>2, <2>3, Zenon
<1>5. ClientCopy'
  <2>1. CASE UNCHANGED <<pc, work>>
    BY <1>1, <2>1, Zenon DEF AgreeInv, ClientCopy
  <2>2. CASE Save("client", "save", vm, id, e) /\ e.vm = vm /\ e.vs = None /\ (id # 0 => rftable[id].vm = None)
    <3>1. work'["client"] = [port |-> vm, id |-> id, entry |-> e]
      BY <1>1, <2>2, Zenon DEF Save
    <3>2. \A i \in 1..Len(rftable) : rftable[i].vm # vm
      BY <1>1, Zenon DEF AgreeInv, NotYetRegistered
    <3>3. QED
      BY <1>1, <2>2, <3>1, <3>2 DEF ClientCopy
  <2>3. QED
    BY <1>2, <2>1, <2>2, Zenon
<1>6. QED
  BY <1>4, <1>5, Zenon

\* The client handles a PortConfig: what it will believe is the same.
LEMMA ProcessAgrees ==
    ASSUME TableInv, AgreeInv, NEW vm \in VmPorts, process_port_config(vm)
    PROVE  AgreeInv'
<1>1. /\ UNCHANGED <<rftable, pc, work, restarts, registering>>
      /\ s2c[vm] # <<>> /\ s2c' = [s2c EXCEPT ![vm] = Tail(s2c[vm])]
      /\ active' = IF Head(s2c[vm]) = "MAP_SUCCESS" THEN active \cup {vm} ELSE active \ {vm}
  BY Zenon DEF process_port_config, tables
<1>2. s2c \in [VmPorts -> Seq({"RESET", "MAP_SUCCESS"})]
  BY Zenon DEF TableInv, TypeOK
<1>3. WillBeActive(vm)' <=> WillBeActive(vm)
  <2>1. s2c[vm] \in Seq({"RESET", "MAP_SUCCESS"}) /\ s2c'[vm] = Tail(s2c[vm])
    BY <1>1, <1>2, Zenon
  <2>2. CASE Tail(s2c[vm]) = <<>>
    <3>1. Len(s2c[vm]) = 1 /\ Head(s2c[vm]) = s2c[vm][1]
      <4>1. Len(s2c[vm]) \in Nat /\ Len(s2c[vm]) # 0
        BY <1>1, <2>1
      <4>2. Len(Tail(s2c[vm])) = Len(s2c[vm]) - 1 /\ Len(<<>>) = 0 /\ Head(s2c[vm]) = s2c[vm][1]
        BY <1>1, <2>1
      <4>3. Len(s2c[vm]) - 1 = 0
        BY <2>2, <4>2, Zenon
      <4>4. QED
        BY <4>1, <4>2, <4>3
    <3>2. QED
      BY <1>1, <2>1, <2>2, <3>1, Zenon DEF WillBeActive
  <2>3. CASE Tail(s2c[vm]) # <<>>
    <3>1. Tail(s2c[vm])[Len(Tail(s2c[vm]))] = s2c[vm][Len(s2c[vm])]
      BY <1>1, <2>1, <2>3
    <3>2. QED
      BY <1>1, <2>1, <2>3, <3>1, Zenon DEF WillBeActive
  <2>4. QED
    BY <2>2, <2>3, Zenon
<1>4. \A v \in VmPorts : v # vm => (WillBeActive(v)' <=> WillBeActive(v))
  BY <1>1, <1>2, Zenon DEF WillBeActive
<1>5. restarts = 0 => Agreement'
  BY <1>1, <1>3, <1>4, Zenon DEF AgreeInv, Agreement, ActiveRow
<1>6. QED
  BY <1>1, <1>5, CopiesStay, Zenon DEF AgreeInv

\* Every step keeps the agreement.
LEMMA NextAgreeInv == TableInv /\ AgreeInv /\ [Next]_vars => AgreeInv'
<1> SUFFICES ASSUME TableInv, AgreeInv, [Next]_vars PROVE AgreeInv'
  OBVIOUS
<1> USE DEF Threads
<1>1. CASE UNCHANGED vars
  BY <1>1, QuietStep, Zenon DEF vars
<1>2. CASE handle_controller_route_mod \/ handle_route_mod
  <2>1. /\ UNCHANGED <<rftable, registering, active, s2c, restarts>>
        /\ Done("client") \/ (Goto("client", "dead") /\ UNCHANGED work)
    <3>1. /\ UNCHANGED <<rftable, isltable, route_mod_translator, todo, announced, downs, rms, clients>>
          /\ Done("client") \/ (Goto("client", "dead") /\ UNCHANGED <<work, dp_q>>)
      BY <1>2, Zenon DEF handle_controller_route_mod, handle_route_mod
    <3>2. QED
      BY <3>1, Zenon DEF clients
  <2>2. /\ pc'["client"] # "save" /\ pc'["proxy"] = pc["proxy"] /\ work'["proxy"] = work["proxy"]
    BY <2>1, Zenon DEF Done, Goto, TableInv, TypeOK
  <2>3. QED
    BY <2>1, <2>2, QuietStep, Zenon
<1>3. ASSUME NEW vm \in VmPorts, NEW mod \in {"RMT_CONTROLLER", "RMT_ADD"}, register_route_mod(vm, mod)
      PROVE  AgreeInv'
  <2>1. /\ UNCHANGED <<rftable, registering, active, s2c, restarts>>
        /\ \/ \E i \in VmRows(vm) : Save("client", mod, vm, i, rftable[i])
           \/ Goto("client", "dead") /\ UNCHANGED work
    BY <1>3, Zenon DEF register_route_mod, tables, clients
  <2>2. /\ pc'["client"] # "save" /\ pc'["proxy"] = pc["proxy"] /\ work'["proxy"] = work["proxy"]
    BY <2>1, Zenon DEF Save, Goto, TableInv, TypeOK
  <2>3. QED
    BY <2>1, <2>2, QuietStep, Zenon
<1>4. CASE send_datapath_config_messages \/ register_islconf \/ idle_isl_rows
           \/ (\E p \in DpPorts : register_dp_port(p)) \/ \E dp \in Dps : set_dp_down(dp)
  <2>1. /\ UNCHANGED <<rftable, registering, active, s2c, restarts>>
        /\ \/ Done("proxy") \/ UNCHANGED <<pc, work>>
           \/ Goto("proxy", "lookup") /\ UNCHANGED work
           \/ \E l \in {"config", "lookup", "down"} : \E port, id, e : Save("proxy", l, port, id, e)
    BY <1>4, Zenon DEF send_datapath_config_messages, register_islconf, idle_isl_rows, register_dp_port,
                set_dp_down, tables, clients
  <2>2. /\ pc'["client"] = pc["client"] /\ work'["client"] = work["client"]
        /\ \/ pc'["proxy"] = pc["proxy"] /\ work'["proxy"] = work["proxy"]
           \/ pc'["proxy"] \notin {"save", "map", "reset"}
    BY <2>1, Zenon DEF Save, Done, Goto, TableInv, TypeOK
  <2>3. QED
    BY <2>1, <2>2, QuietStep, Zenon
<1>5. ASSUME NEW vm \in VmPorts, restart_client(vm)
      PROVE  AgreeInv'
  BY <1>5 DEF restart_client, AgreeInv, TableInv, TypeOK
<1>6. QED
  BY Zenon, <1>1, <1>2, <1>3, <1>4, <1>5, ClientWriteAgrees, SaveAgrees, MapAgrees, ResetAgrees,
     ProxyReadAgrees, RegisterVmAgrees, ProcessAgrees
     DEF Next, ClientSteps, ProxySteps

LEMMA InitAgreeInv == Init => AgreeInv
BY ConfigAssumption DEF Init, AgreeInv, OneRowPerVm, NotYetRegistered, ClientCopy, ProxyCopy, Agreement,
                        WillBeActive, ActiveRow, Threads

\* Whatever the listener threads interleave, until a client restarts the
\* server and the clients agree on the active ports up to the PortConfigs
\* that are in flight, for any ports, configuration and number of events.
THEOREM ClientTheorem == Spec => []ClientAgrees
<1>1. TableInv /\ AgreeInv => ClientAgrees
  <2> SUFFICES ASSUME TableInv, AgreeInv, restarts = 0, NEW vm \in VmPorts
               PROVE  WillBeActive(vm) <=> Mapped(vm)
    BY Zenon DEF ClientAgrees
  <2>1. DOMAIN rftable = 1..Len(rftable) /\ \A i \in 1..Len(rftable) : rftable[i] \in Rows /\ RowOK(rftable[i])
    BY DEF TableInv, TypeOK
  <2>2. \A i \in 1..Len(rftable) : get_status(rftable[i]) = RFENTRY_ACTIVE <=> rftable[i].vs # None
    BY <2>1, Zenon DEF get_status, RFENTRY_IDLE_VM_PORT, RFENTRY_IDLE_DP_PORT, RFENTRY_ASSOCIATED, RFENTRY_ACTIVE,
           is_idle_vm_port, is_idle_dp_port
  <2>3. Mapped(vm) <=> ActiveRow(vm)
    BY <2>1, <2>2, Zenon DEF Mapped, VmRows, ActiveRow
  <2>4. QED
    BY <2>3, Zenon DEF AgreeInv, Agreement
<1>2. QED
  BY <1>1, InitAgreeInv, InitTableInv, NextTableInv, NextAgreeInv, PTL DEF Spec
==============================================================================
