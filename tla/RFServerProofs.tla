---------------------------- MODULE RFServerProofs ----------------------------
(***************************************************************************)
(* What the tables of RFServer satisfy under every interleaving of its two  *)
(* listener threads, for every set of ports and every configuration; and    *)
(* the queues of the datapaths when the handlers never overlap.             *)
(***************************************************************************)
EXTENDS RFServerTables

\* The writes at the end of the proxy's handlers, and map_port.
LEMMA WriteTableInv ==
    ASSUME TableInv, save_entry("proxy") \/ reset_vm_port \/ map_success
                     \/ \E vm \in VmPorts : map_port(vm)
    PROVE  TableInv'
<1> USE DEF Threads
<1> DEFINE w == work["proxy"]
<1>1. w \in Work /\ rftable \in Seq(Rows) /\ Len(rftable) \in Nat
  BY DEF TableInv, TypeOK
<1>2. CASE save_entry("proxy")
  <2>1. RowOK(w.entry) /\ w.id \in 0..Len(rftable)
    BY <1>1, <1>2 DEF TableInv, ProxyLocals, save_entry, Work
  <2>2. /\ rftable' \in Seq(Rows) /\ Len(rftable) <= Len(rftable')
        /\ \A i \in 1..Len(rftable') : RowOK(rftable'[i])
    BY <1>1, <1>2, <2>1, WriteRow, Zenon DEF save_entry, Work
  <2>3. /\ pc' \in [Threads -> Labels] /\ work' \in [Threads -> Work] /\ pc'["proxy"] = "idle"
        /\ pc'["client"] = pc["client"] /\ work'["client"] = work["client"]
    BY <1>2, DoneEffect, Zenon DEF save_entry
  <2>4. TypeOK'
    BY <1>2, <2>2, <2>3, Zenon DEF TableInv, TypeOK, save_entry, clients
  <2>5. ClientLocals'
    BY <2>2, <2>3, ClientWaits, Zenon
  <2>6. ProxyLocals'
    BY <2>3, Zenon DEF ProxyLocals
  <2>7. QED
    BY <2>2, <2>4, <2>5, <2>6, Zenon DEF TableInv
<1>3. CASE reset_vm_port
  <2>1. /\ pc["proxy"] = "reset" /\ UNCHANGED todo
        /\ w.id \in 0..Len(rftable) /\ todo \subseteq [row : Nat, port : DpPorts]
    BY <1>1, <1>3 DEF TableInv, ProxyLocals, reset_vm_port, Work
  <2>2. /\ make_idle(w.entry, RFENTRY_IDLE_VM_PORT) \in Rows
        /\ RowOK(make_idle(w.entry, RFENTRY_IDLE_VM_PORT))
    BY <1>1, Zenon DEF make_idle, Work, Rows, RowOK
  <2>3. /\ rftable' \in Seq(Rows) /\ Len(rftable) <= Len(rftable')
        /\ \A i \in 1..Len(rftable') : RowOK(rftable'[i])
    BY <1>3, <2>1, <2>2, WriteRow, Zenon DEF reset_vm_port
  <2>4. ASSUME NEW id \in Nat, NEW e \in Rows, Save("proxy", "down", w.port, id, e)
        PROVE  /\ pc' \in [Threads -> Labels] /\ work' \in [Threads -> Work] /\ pc'["proxy"] = "down"
               /\ pc'["client"] = pc["client"] /\ work'["client"] = work["client"]
    <3>1. "proxy" \in Threads /\ "down" \in Labels /\ w.port \in VmPorts \cup DpPorts \cup Dps \cup {None}
      BY <1>1, Zenon DEF Labels, Work
    <3>2. QED
      BY <2>4, <3>1, SaveEffect, Zenon
  <2>5. /\ pc' \in [Threads -> Labels] /\ work' \in [Threads -> Work] /\ pc'["proxy"] = "down"
        /\ pc'["client"] = pc["client"] /\ work'["client"] = work["client"]
    <3>1. NoWork.entry \in Rows
      BY NewRows, Zenon DEF NoWork
    <3>2. QED
      BY <1>3, <2>4, <3>1, Zenon DEF reset_vm_port
  <2>6. s2c' \in [VmPorts -> Seq({"RESET", "MAP_SUCCESS"})]
    BY <1>3 DEF reset_vm_port, TableInv, TypeOK
  <2>7. TypeOK'
    BY <1>3, <2>3, <2>5, <2>6, Zenon DEF TableInv, TypeOK, reset_vm_port
  <2>8. ClientLocals'
    BY <2>3, <2>5, ClientWaits, Zenon
  <2>9. ProxyLocals'
    BY <2>1, <2>5, Zenon DEF ProxyLocals
  <2>10. QED
    BY <2>3, <2>7, <2>8, <2>9, Zenon DEF TableInv
<1>4. CASE map_success
  <2>1. RowOK(w.entry) /\ w.id \in 0..Len(rftable) /\ w.port \in VmPorts
    BY <1>1, <1>4 DEF TableInv, ProxyLocals, map_success, Work
  <2>2. /\ rftable' \in Seq(Rows) /\ Len(rftable) <= Len(rftable')
        /\ \A i \in 1..Len(rftable') : RowOK(rftable'[i])
    BY <1>1, <1>4, <2>1, WriteRow, Zenon DEF map_success, Work
  <2>3. /\ pc' \in [Threads -> Labels] /\ work' \in [Threads -> Work] /\ pc'["proxy"] = "idle"
        /\ pc'["client"] = pc["client"] /\ work'["client"] = work["client"]
    BY <1>4, DoneEffect, Zenon DEF map_success
  <2>4. s2c' \in [VmPorts -> Seq({"RESET", "MAP_SUCCESS"})]
    BY <1>4, <2>1 DEF map_success, TableInv, TypeOK
  <2>5. TypeOK'
    BY <1>4, <2>2, <2>3, <2>4, Zenon DEF TableInv, TypeOK, map_success
  <2>6. ClientLocals'
    BY <2>2, <2>3, ClientWaits, Zenon
  <2>7. ProxyLocals'
    BY <2>3, Zenon DEF ProxyLocals
  <2>8. QED
    BY <2>2, <2>5, <2>6, <2>7, Zenon DEF TableInv
<1>5. ASSUME NEW vm \in VmPorts, map_port(vm)
      PROVE  TableInv'
  <2>1. PICK i \in VmRows(vm) :
          /\ get_status(rftable[i]) = RFENTRY_ASSOCIATED
          /\ Save("proxy", "map", vm, i, activate(rftable[i], VsOf[vm]))
    BY <1>5, Zenon DEF map_port
  <2> DEFINE e == activate(rftable[i], VsOf[vm])
  <2>2. rftable[i] \in Rows /\ i \in 1..Len(rftable) /\ rftable[i].vm = vm /\ RowOK(rftable[i])
    BY <1>1 DEF VmRows, TableInv
  <2>3. rftable[i].dp # None
    BY Zenon, <2>1, <2>2, ConfigAssumption
       DEF get_status, RFENTRY_IDLE_VM_PORT, RFENTRY_IDLE_DP_PORT, RFENTRY_ASSOCIATED, RFENTRY_ACTIVE,
           is_idle_vm_port, is_idle_dp_port
  <2>4. e \in Rows /\ RowOK(e)
    BY <2>2, <2>3, ConfigAssumption, Zenon DEF activate, Rows, RowOK
  <2>5. /\ pc' \in [Threads -> Labels] /\ work' \in [Threads -> Work] /\ pc'["proxy"] = "map"
        /\ work'["proxy"] = [port |-> vm, id |-> i, entry |-> e]
        /\ pc'["client"] = pc["client"] /\ work'["client"] = work["client"]
    <3>1. "proxy" \in Threads /\ "map" \in Labels /\ i \in Nat
      BY <2>2 DEF Labels
    <3>2. QED
      BY <2>1, <2>4, <3>1, SaveEffect
  <2>6. UNCHANGED <<rftable, isltable, route_mod_translator, dp_q, todo, announced, downs, rms, clients>>
    BY <1>5, Zenon DEF map_port, tables
  <2> HIDE DEF e
  <2>7. TypeOK'
    BY <2>5, <2>6, Zenon DEF TableInv, TypeOK, clients
  <2>8. ClientLocals'
    <3>1. rftable' = rftable
      BY <2>6, Zenon
    <3>2. QED
      BY <2>5, <3>1, ClientStays, Zenon
  <2>9. ProxyLocals'
    <3>1. /\ work'["proxy"].entry = e /\ work'["proxy"].id = i /\ work'["proxy"].port = vm
          /\ rftable' = rftable
      BY <2>5, <2>6
    <3>2. RowOK(e) /\ i <= Len(rftable) /\ i # 0
      BY <1>1, <2>2, <2>4
    <3>3. QED
      BY <2>5, <3>1, <3>2, Zenon DEF ProxyLocals, RowOK
  <2>10. QED
    BY <2>6, <2>7, <2>8, <2>9, RowsStay, Zenon
<1>6. QED
  BY <1>2, <1>3, <1>4, <1>5, Zenon

\* Registering a link writes ends of configured links only.
LEMMA IslTableInv ==
    ASSUME TableInv, register_islconf
    PROVE  TableInv'
<1> USE DEF Threads
<1> DEFINE IslRows == [loc : Ends \cup {None}, rem : Ends \cup {None}]
           p == work["proxy"].port
<1>1. PICK c \in todo : /\ register_islconf_entry(c) /\ todo' = todo \ {c}
                        /\ Done("proxy") \/ UNCHANGED <<pc, work>>
  BY Zenon DEF register_islconf
<1>2. /\ c \in IslConf /\ p \in {c.loc.port, c.rem.port} /\ DpOf[c.loc.port] # DpOf[c.rem.port]
      /\ c.loc \in Ends /\ c.rem \in Ends
  BY <1>1, IslAssumption, Zenon DEF register_islconf, TableInv, ProxyLocals, IslConfFor, Ends
<1>3. /\ c.loc = [port |-> c.loc.port, eth |-> c.loc.eth]
      /\ c.rem = [port |-> c.rem.port, eth |-> c.rem.eth]
  BY <1>2, IslAssumption, Zenon
<1> DEFINE far == DpOf[c.rem.port] # DpOf[p]
           peer == IF far THEN c.rem ELSE c.loc
           me == [port |-> p, eth |-> IF far THEN c.loc.eth ELSE c.rem.eth]
<1>4. peer \in Ends /\ me \in Ends
  BY <1>2, <1>3, Zenon
<1>5. isltable \in Seq(IslRows)
  BY Zenon DEF TableInv, TypeOK
<1>6. \A e \in IslRows : ISL!associate(e, me) \in IslRows
  BY <1>4, Zenon DEF ISL!associate, ISL!is_idle_dp_port, ISL!is_idle_remote
<1>7. ISL!Entry(me, None) \in IslRows /\ ISL!Entry(me, peer) \in IslRows
  BY <1>4, Zenon DEF ISL!Entry
<1> HIDE DEF IslRows, me, peer
<1>8. \A table \in Seq(IslRows), id \in Nat, e \in IslRows :
         id <= Len(table) => /\ set_entry(table, id, e) \in Seq(IslRows)
                             /\ Len(table) <= Len(set_entry(table, id, e))
  BY SetEntry, Zenon
<1>9. isltable' \in Seq(IslRows)
  <2>1. CASE isltable' = set_entry(isltable, 0, ISL!Entry(me, None))
    BY <1>5, <1>7, <1>8, <2>1
  <2>2. ASSUME NEW i \in DOMAIN isltable
        PROVE  /\ set_entry(isltable, i, ISL!associate(isltable[i], me)) \in Seq(IslRows)
               /\ Len(isltable) <= Len(set_entry(isltable, i, ISL!associate(isltable[i], me)))
    <3>1. i \in Nat /\ i <= Len(isltable) /\ isltable[i] \in IslRows
      BY <1>5
    <3>2. QED
      BY <1>5, <1>6, <1>8, <3>1, Zenon
  <2>3. ASSUME NEW i \in DOMAIN isltable, NEW new \in Seq(IslRows), Len(isltable) <= Len(new),
               \/ isltable' = set_entry(new, 0, ISL!Entry(me, peer))
               \/ \E j \in DOMAIN isltable : isltable' = set_entry(new, j, ISL!associate(new[j], me))
        PROVE  isltable' \in Seq(IslRows)
    <3>1. \A j \in DOMAIN isltable : j \in Nat /\ j <= Len(new) /\ new[j] \in IslRows
      BY <1>5, <2>3
    <3>2. 0 \in Nat /\ 0 <= Len(new)
      OBVIOUS
    <3>3. QED
      BY <1>6, <1>7, <1>8, <2>3, <3>1, <3>2, Zenon
  <2>4. \/ isltable' = set_entry(isltable, 0, ISL!Entry(me, None))
        \/ \E i \in DOMAIN isltable :
             LET new == set_entry(isltable, i, ISL!associate(isltable[i], me))
             IN  \/ isltable' = set_entry(new, 0, ISL!Entry(me, peer))
                 \/ \E j \in DOMAIN isltable : isltable' = set_entry(new, j, ISL!associate(new[j], me))
        \/ UNCHANGED isltable
    BY <1>1, Zenon DEF register_islconf_entry, me, peer
  <2>5. QED
    BY <1>5, <2>1, <2>2, <2>3, <2>4, Zenon
<1>10. /\ pc' \in [Threads -> Labels] /\ work' \in [Threads -> Work]
       /\ pc'["proxy"] = "idle" \/ UNCHANGED <<pc, work>>
       /\ pc'["client"] = pc["client"] /\ work'["client"] = work["client"]
  <2>1. CASE Done("proxy")
    BY <2>1, DoneEffect, Zenon
  <2>2. CASE UNCHANGED <<pc, work>>
    BY <2>2, Zenon DEF TableInv, TypeOK
  <2>3. QED
    BY <1>1, <2>1, <2>2, Zenon
<1>11. /\ UNCHANGED <<rftable, route_mod_translator, dp_q, announced, downs, rms, clients>>
       /\ todo' \subseteq todo /\ pc["proxy"] = "isl" /\ rftable \in Seq(Rows)
  BY <1>1, Zenon DEF register_islconf, TableInv, TypeOK
<1>12. TypeOK'
  BY <1>9, <1>10, <1>11, Zenon DEF TableInv, TypeOK, clients, IslRows
<1>13. ClientLocals'
  BY <1>10, <1>11, ClientStays, Zenon
<1>14. ProxyLocals'
  BY <1>10, <1>11, Zenon DEF TableInv, ProxyLocals, IslConfFor
<1>15. QED
  BY <1>11, <1>12, <1>13, <1>14, RowsStay, Zenon

\* DatapathDown up to its writes, and the ISL rows it empties.
LEMMA DownTableInv ==
    ASSUME TableInv, set_dp_port_down \/ idle_isl_rows \/ \E dp \in Dps : set_dp_down(dp)
    PROVE  TableInv'
<1> USE DEF Threads
<1>1. work["proxy"] \in Work /\ rftable \in Seq(Rows) /\ Len(rftable) \in Nat
  BY DEF TableInv, TypeOK
<1>2. ASSUME NEW dp \in Dps, set_dp_down(dp)
      PROVE  TableInv'
  <2>1. NoWork.entry \in Rows
    BY NewRows, Zenon DEF NoWork
  <2>2. ASSUME NEW id \in Nat, NEW e \in Rows, Save("proxy", "down", dp, id, e)
        PROVE  /\ pc' \in [Threads -> Labels] /\ work' \in [Threads -> Work] /\ pc'["proxy"] = "down"
               /\ pc'["client"] = pc["client"] /\ work'["client"] = work["client"]
    <3>1. "proxy" \in Threads /\ "down" \in Labels
      BY Zenon DEF Labels
    <3>2. QED
      BY <2>2, <3>1, SaveEffect, Zenon
  <2>3. /\ pc' \in [Threads -> Labels] /\ work' \in [Threads -> Work] /\ pc'["proxy"] = "down"
        /\ pc'["client"] = pc["client"] /\ work'["client"] = work["client"]
    BY <1>2, <2>1, <2>2, Zenon DEF set_dp_down
  <2>4. todo' \subseteq [row : Nat, port : DpPorts]
    <3>1. \A i \in DpEntries(dp) : i \in Nat /\ rftable[i].dp \in DpPorts
      <4>1. \A i \in DpEntries(dp) : i \in Nat /\ rftable[i] \in Rows /\ rftable[i].dp # None
        BY <1>1 DEF DpEntries
      <4>2. \A e \in Rows : e.dp # None => e.dp \in DpPorts
        BY Zenon DEF Rows
      <4>3. QED
        BY <4>1, <4>2, Zenon
    <3>2. QED
      BY <1>2, <3>1 DEF set_dp_down
  <2>5. downs' \in 0..MaxDowns /\ announced' \subseteq DpPorts
    BY <1>2, BoundsAssumption DEF set_dp_down, TableInv, TypeOK
  <2>6. UNCHANGED <<rftable, isltable, route_mod_translator, dp_q, rms, clients>>
    BY <1>2, Zenon DEF set_dp_down, tables
  <2>7. TypeOK'
    BY <2>3, <2>4, <2>5, <2>6, Zenon DEF TableInv, TypeOK, clients
  <2>8. ClientLocals'
    BY <2>3, <2>6, ClientStays, Zenon
  <2>9. ProxyLocals'
    BY <2>3, <2>4, Zenon DEF ProxyLocals
  <2>10. QED
    BY <2>6, <2>7, <2>8, <2>9, RowsStay, Zenon
<1>3. CASE set_dp_port_down
  <2>1. PICK t \in todo :
          /\ todo' = todo \ {t}
          /\ \/ UNCHANGED <<pc, work>>
             \/ \E i \in DpRows(t.port) : Save("proxy", "reset", work["proxy"].port, i, rftable[i])
    BY <1>3, Zenon DEF set_dp_port_down
  <2>2. /\ UNCHANGED <<rftable, isltable, route_mod_translator, dp_q, announced, downs, rms, clients>>
        /\ pc["proxy"] = "down" /\ todo \subseteq [row : Nat, port : DpPorts]
    BY <1>3, Zenon DEF set_dp_port_down, TableInv, ProxyLocals, tables
  <2>3. CASE UNCHANGED <<pc, work>>
    <3>1. TypeOK'
      BY <2>1, <2>2, <2>3, Zenon DEF TableInv, TypeOK, clients
    <3>2. ClientLocals'
      BY <2>2, <2>3, ClientStays, Zenon
    <3>3. ProxyLocals'
      BY <2>1, <2>2, <2>3, Zenon DEF TableInv, ProxyLocals
    <3>4. QED
      BY <2>2, <3>1, <3>2, <3>3, RowsStay, Zenon
  <2>4. ASSUME NEW i \in DpRows(t.port), Save("proxy", "reset", work["proxy"].port, i, rftable[i])
        PROVE  TableInv'
    <3>1. i \in 1..Len(rftable) /\ rftable[i] \in Rows /\ RowOK(rftable[i])
      BY <1>1 DEF DpRows, TableInv
    <3>2. /\ pc' \in [Threads -> Labels] /\ work' \in [Threads -> Work] /\ pc'["proxy"] = "reset"
          /\ work'["proxy"] = [port |-> work["proxy"].port, id |-> i, entry |-> rftable[i]]
          /\ pc'["client"] = pc["client"] /\ work'["client"] = work["client"]
      <4>1. /\ "proxy" \in Threads /\ "reset" \in Labels /\ i \in Nat
            /\ work["proxy"].port \in VmPorts \cup DpPorts \cup Dps \cup {None}
        BY <1>1, <3>1 DEF Labels, Work
      <4>2. QED
        BY <2>4, <3>1, <4>1, SaveEffect
    <3>3. TypeOK'
      BY <2>1, <2>2, <3>2, Zenon DEF TableInv, TypeOK, clients
    <3>4. ClientLocals'
      BY <2>2, <3>2, ClientStays, Zenon
    <3>5. ProxyLocals'
      BY <1>1, <2>1, <2>2, <3>1, <3>2 DEF ProxyLocals, RowOK
    <3>6. QED
      BY <2>2, <3>3, <3>4, <3>5, RowsStay, Zenon
  <2>5. QED
    BY <2>1, <2>3, <2>4, Zenon
<1>4. CASE idle_isl_rows
  <2> DEFINE IslRows == [loc : Ends \cup {None}, rem : Ends \cup {None}]
  <2>1. isltable' \in Seq(IslRows)
    <3>1. \A e \in IslRows : \A type : ISL!make_idle(e, type) \in IslRows
      BY Zenon DEF ISL!make_idle
    <3>2. isltable \in Seq(IslRows)
      BY Zenon DEF TableInv, TypeOK
    <3> HIDE DEF IslRows
    <3>3. /\ DOMAIN isltable' = DOMAIN isltable
          /\ \A i \in DOMAIN isltable : isltable'[i] \in IslRows
      BY <1>4, <3>1, <3>2 DEF idle_isl_rows
    <3>4. isltable' = [i \in 1..Len(isltable) |-> isltable'[i]]
      BY <1>4, <3>2 DEF idle_isl_rows
    <3>5. QED
      BY <3>2, <3>3, <3>4
  <2>2. /\ pc' \in [Threads -> Labels] /\ work' \in [Threads -> Work] /\ pc'["proxy"] = "idle"
        /\ pc'["client"] = pc["client"] /\ work'["client"] = work["client"]
    BY <1>4, DoneEffect, Zenon DEF idle_isl_rows
  <2>3. UNCHANGED <<rftable, route_mod_translator, dp_q, todo, announced, downs, rms, clients>>
    BY <1>4, Zenon DEF idle_isl_rows
  <2>4. TypeOK'
    BY <2>1, <2>2, <2>3, Zenon DEF TableInv, TypeOK, clients
  <2>5. ClientLocals'
    BY <2>2, <2>3, ClientStays, Zenon
  <2>6. ProxyLocals'
    BY <2>2, Zenon DEF ProxyLocals
  <2>7. QED
    BY <2>3, <2>4, <2>5, <2>6, RowsStay, Zenon
<1>5. QED
  BY <1>2, <1>3, <1>4, Zenon

\* Every step keeps the tables fine.
LEMMA NextTableInv == TableInv /\ [Next]_vars => TableInv'
<1> SUFFICES ASSUME TableInv, [Next]_vars PROVE TableInv'
  OBVIOUS
<1>1. ASSUME NEW vm \in VmPorts, process_port_config(vm) \/ restart_client(vm)
      PROVE  TableInv'
  <2>1. s2c' \in [VmPorts -> Seq({"RESET", "MAP_SUCCESS"})]
    <3>1. s2c \in [VmPorts -> Seq({"RESET", "MAP_SUCCESS"})]
      BY Zenon DEF TableInv, TypeOK
    <3>2. CASE process_port_config(vm)
      <4>1. s2c[vm] # <<>> /\ s2c' = [s2c EXCEPT ![vm] = Tail(s2c[vm])]
        BY <3>2, Zenon DEF process_port_config
      <4>2. Tail(s2c[vm]) \in Seq({"RESET", "MAP_SUCCESS"})
        BY <3>1, <4>1
      <4>3. QED
        BY <3>1, <4>1, <4>2, Zenon
    <3>3. CASE restart_client(vm)
      <4>1. PICK q \in {s2c[vm], <<>>} : s2c' = [s2c EXCEPT ![vm] = q]
        BY <3>3, Zenon DEF restart_client
      <4>2. q \in Seq({"RESET", "MAP_SUCCESS"})
        <5>1. << >> \in Seq({"RESET", "MAP_SUCCESS"}) /\ s2c[vm] \in Seq({"RESET", "MAP_SUCCESS"})
          BY <3>1
        <5>2. QED
          BY <4>1, <5>1, Zenon
      <4>3. QED
        BY <3>1, <4>1, <4>2, Zenon
    <3>4. QED
      BY <1>1, <3>2, <3>3, Zenon
  <2>2. UNCHANGED <<rftable, isltable, route_mod_translator, dp_q, pc, work, todo, announced, downs, rms>>
    BY <1>1, Zenon DEF process_port_config, restart_client, tables
  <2>3. /\ active' \subseteq VmPorts /\ sent_rm' \subseteq VmPorts /\ registering' \subseteq VmPorts
        /\ restarts' \in 0..MaxRestarts
    BY <1>1, BoundsAssumption DEF process_port_config, restart_client, TableInv, TypeOK
  <2>4. TypeOK'
    BY <2>1, <2>2, <2>3, Zenon DEF TableInv, TypeOK
  <2>5. QED
    <3>1. ClientLocals'
      BY <2>2, ClientStays, Zenon
    <3>2. ProxyLocals'
      BY <2>2, ProxyStays, Zenon
    <3>3. QED
      BY <2>2, <2>4, <3>1, <3>2, RowsStay, Zenon
<1>2. CASE UNCHANGED vars
  <2>1. TypeOK'
    BY <1>2, Zenon DEF vars, TableInv, TypeOK
  <2>2. UNCHANGED <<rftable, pc, work, todo>>
    BY <1>2, Zenon DEF vars
  <2>3. QED
    BY <2>1, <2>2, ClientStays, ProxyStays, RowsStay, Zenon
<1>3. QED
  BY Zenon, <1>1, <1>2, ClientTableInv, RegisterTableInv, WriteTableInv, IslTableInv, DownTableInv
     DEF Next, ProxySteps

\* The types of the state, for every instance and every interleaving.
THEOREM ServerTypeCorrect == Spec => []TypeOK
<1>1. TableInv => TypeOK
  BY Zenon DEF TableInv
<1>2. QED
  BY <1>1, InitTableInv, NextTableInv, PTL DEF Spec

\* Whatever the two listener threads of RFServer interleave, and however
\* often clients restart or datapaths go down, register_vm_port and
\* register_dp_port never tie a VM port to a switch port other than the one
\* of its RFConfig entry.
THEOREM ConfigTheorem == Spec => []ConfigRespected
<1>1. TableInv => ConfigRespected
  <2> SUFFICES ASSUME TableInv PROVE ConfigRespected
    OBVIOUS
  <2>1. DOMAIN rftable = 1..Len(rftable)
    BY DEF TableInv, TypeOK
  <2>2. \A i \in 1..Len(rftable) : RowOK(rftable[i])
    BY Zenon DEF TableInv
  <2>3. QED
    BY <2>1, <2>2, Zenon DEF ConfigRespected, RowOK
<1>2. QED
  BY <1>1, InitTableInv, NextTableInv, PTL DEF Spec

------------------------------------------------------------------------------
(* Handlers that never overlap.                                             *)

\* One listener waits for a message while the other handles one.
Alone == pc["client"] \in {"idle", "dead"} \/ pc["proxy"] = "idle"

\* A datapath has something queued exactly when it was configured.
Configured(dp) ==
    /\ dp \in route_mod_translator
    /\ ~(pc["proxy"] = "config" /\ DpOf[work["proxy"].port] = dp)

\* The inductive invariant behind ConfigFirst, on top of TableInv.
QueueInv ==
    /\ Alone /\ ConfigFirst
    /\ \A dp \in Dps : dp_q[dp] # <<>> <=> Configured(dp)
    /\ pc["proxy"] = "config" => DpOf[work["proxy"].port] \in route_mod_translator
    /\ pc["client"] \in {"RMT_CONTROLLER", "RMT_ADD"} =>
         DpOf[work["client"].entry.dp] \in route_mod_translator

------------------------------------------------------------------------------
(* Which thread moves.                                                      *)

ClientMoves ==
    ClientSteps \/ \E vm \in VmPorts :
        register_vm_port(vm) \/ \E mod \in {"RMT_CONTROLLER", "RMT_ADD"} : register_route_mod(vm, mod)

ProxyMoves ==
    \/ ProxySteps
    \/ \E vm \in VmPorts : map_port(vm)
    \/ \E p \in DpPorts : register_dp_port(p)
    \/ \E dp \in Dps : set_dp_down(dp)

\* While the client thread handles a message the proxy thread waits.
LEMMA ClientAlone ==
    ASSUME ~Overlap, TableInv, Alone, ClientMoves
    PROVE  /\ pc["proxy"] = "idle" /\ pc'["proxy"] = "idle" /\ work'["proxy"] = work["proxy"]
           /\ UNCHANGED <<isltable, route_mod_translator, todo, announced>> /\ Alone'
<1> USE DEF Threads
<1>1. pc["proxy"] = "idle"
  <2>1. Free("client") => pc["proxy"] = "idle"
    BY Zenon DEF Free, OtherIdle, TableInv, ProxyLocals
  <2>2. pc["client"] \in {"save", "RMT_CONTROLLER", "RMT_ADD"} => pc["proxy"] = "idle"
    BY Zenon DEF Alone
  <2>3. QED
    BY <2>1, <2>2, Zenon DEF ClientMoves, ClientSteps, register_vm_port, register_route_mod, save_entry,
                      handle_controller_route_mod, handle_route_mod
<1>2. /\ UNCHANGED <<isltable, route_mod_translator, todo, announced>>
      /\ \/ UNCHANGED <<pc, work>> \/ Done("client")
         \/ Goto("client", "dead") /\ UNCHANGED work
         \/ \E l, port, id, e : Save("client", l, port, id, e)
  <2>1. CASE ClientSteps
    <3>1. /\ UNCHANGED <<isltable, route_mod_translator, todo, announced>>
      BY <2>1, Zenon DEF ClientSteps, save_entry, handle_controller_route_mod, handle_route_mod
    <3>2. Done("client") \/ (Goto("client", "dead") /\ UNCHANGED <<work, dp_q>>)
      BY <2>1, Zenon DEF ClientSteps, save_entry, handle_controller_route_mod, handle_route_mod
    <3>3. QED
      BY <3>1, <3>2, Zenon
  <2>2. ASSUME NEW vm \in VmPorts,
               register_vm_port(vm) \/ \E mod \in {"RMT_CONTROLLER", "RMT_ADD"} : register_route_mod(vm, mod)
        PROVE  /\ UNCHANGED <<isltable, route_mod_translator, todo, announced>>
               /\ \/ UNCHANGED <<pc, work>>
                  \/ Goto("client", "dead") /\ UNCHANGED work
                  \/ \E l, port, id, e : Save("client", l, port, id, e)
    <3>1. UNCHANGED <<tables, todo, announced>>
      BY <2>2, Zenon DEF register_vm_port, register_route_mod
    <3>2. \/ UNCHANGED <<pc, work>>
          \/ Goto("client", "dead") /\ UNCHANGED work
          \/ \E l, port, id, e : Save("client", l, port, id, e)
      BY <2>2, Zenon DEF register_vm_port, register_route_mod
    <3>3. QED
      BY <3>1, <3>2, Zenon DEF tables
  <2>3. QED
    BY <2>1, <2>2, Zenon DEF ClientMoves
<1>3. pc'["proxy"] = pc["proxy"] /\ work'["proxy"] = work["proxy"]
  BY <1>2, Zenon DEF Done, Save, Goto, TableInv, TypeOK
<1>4. QED
  BY <1>1, <1>2, <1>3, Zenon DEF Alone

\* And the other way round.
LEMMA ProxyAlone ==
    ASSUME ~Overlap, TableInv, Alone, ProxyMoves
    PROVE  /\ pc["client"] \in {"idle", "dead"} /\ pc'["client"] = pc["client"]
           /\ work'["client"] = work["client"] /\ Alone'
<1> USE DEF Threads
<1>1. pc["client"] \in {"idle", "dead"}
  <2>1. Free("proxy") => pc["client"] \in {"idle", "dead"}
    BY Zenon DEF Free, OtherIdle
  <2>2. pc["proxy"] # "idle" => pc["client"] \in {"idle", "dead"}
    BY Zenon DEF Alone
  <2>3. QED
    BY <2>1, <2>2, Zenon DEF ProxyMoves, ProxySteps, save_entry, send_datapath_config_messages, lookup_dp_port,
       register_islconf, set_dp_port_down, reset_vm_port, idle_isl_rows, map_success, map_port,
       register_dp_port, set_dp_down
<1>2. \/ UNCHANGED <<pc, work>> \/ Done("proxy")
      \/ \E l : Goto("proxy", l) /\ UNCHANGED work
      \/ \E l, port, id, e : Save("proxy", l, port, id, e)
  <2>1. CASE ProxySteps
    BY <2>1, Zenon DEF ProxySteps, save_entry, send_datapath_config_messages, lookup_dp_port,
       register_islconf, set_dp_port_down, reset_vm_port, idle_isl_rows, map_success
  <2>2. QED
    BY <2>1, Zenon DEF ProxyMoves, map_port, register_dp_port, set_dp_down
<1>3. pc'["client"] = pc["client"] /\ work'["client"] = work["client"]
  BY <1>2, Zenon DEF Done, Save, Goto, TableInv, TypeOK
<1>4. QED
  BY <1>1, <1>3, Zenon DEF Alone

------------------------------------------------------------------------------
(* The queues of the datapaths.                                             *)

\* A route is queued behind the configuration.
LEMMA QueueRmsBehind ==
    ASSUME TableInv, QueueInv, pc["proxy"] = "idle", work["client"].port \in VmPorts,
           NEW targets, targets \subseteq route_mod_translator, queue_rms(targets)
    PROVE  ConfigFirst' /\ \A dp \in Dps : dp_q'[dp] # <<>> <=> dp_q[dp] # <<>>
<1>1. \A dp \in Dps : dp_q[dp] \in Seq(VmPorts \cup {"config"})
  BY Zenon DEF TableInv, TypeOK
<1>2. \A dp \in Dps : dp \in targets => dp_q[dp] # <<>>
  BY Zenon DEF QueueInv, Configured
<1>3. \A dp \in Dps : dp_q'[dp] = IF dp \in targets THEN Append(dp_q[dp], work["client"].port) ELSE dp_q[dp]
  BY Zenon DEF queue_rms
<1>4. PICK v : v = work["client"].port /\ v # "config"
  BY ConfigAssumption, Zenon
<1>5. ASSUME NEW dp \in Dps, dp \in targets
      PROVE  /\ dp_q'[dp] # <<>>
             /\ \A k \in DOMAIN dp_q'[dp] : (dp_q'[dp][k] = "config") <=> (k = 1)
  <2> PICK q \in Seq(VmPorts \cup {"config"}) : q = dp_q[dp]
    BY <1>1, Zenon
  <2>1. dp_q'[dp] = Append(q, v) /\ q # <<>>
    BY <1>2, <1>3, <1>4, <1>5, Zenon
  <2>2. \A k \in DOMAIN q : (q[k] = "config") <=> (k = 1)
    BY Zenon DEF QueueInv, ConfigFirst
  <2>3. \A k \in 1..Len(q) : (q[k] = "config") <=> (k = 1)
    BY <2>2
  <2>4. Len(q) \in Nat \ {0} /\ Append(q, v) # <<>> /\ DOMAIN Append(q, v) = 1..(Len(q) + 1)
        /\ Append(q, v)[Len(q) + 1] = v /\ \A k \in 1..Len(q) : Append(q, v)[k] = q[k]
    BY <2>1
  <2>5. QED
    BY <1>4, <2>1, <2>3, <2>4
<1>6. QED
  BY <1>2, <1>3, <1>5 DEF QueueInv, ConfigFirst

\* Messages of the client channel.
LEMMA ClientQueueInv ==
    ASSUME ~Overlap, TableInv, QueueInv, ClientMoves
    PROVE  QueueInv'
<1> USE DEF Threads
<1>1. /\ pc["proxy"] = "idle" /\ pc'["proxy"] = "idle" /\ Alone'
      /\ route_mod_translator' = route_mod_translator
  BY ClientAlone, Zenon DEF QueueInv
<1>2. pc \in [Threads -> Labels] /\ work \in [Threads -> Work]
  BY Zenon DEF TableInv, TypeOK
<1>3. ASSUME UNCHANGED dp_q, \/ pc'["client"] \notin {"RMT_CONTROLLER", "RMT_ADD"}
                             \/ DpOf[work'["client"].entry.dp] \in route_mod_translator
      PROVE  QueueInv'
  BY <1>1, <1>3, Zenon DEF QueueInv, ConfigFirst, Configured
<1>4. ASSUME NEW targets, targets \subseteq route_mod_translator, queue_rms(targets), Done("client"),
             pc["client"] \in {"RMT_CONTROLLER", "RMT_ADD"}
      PROVE  QueueInv'
  <2>1. work["client"].port \in VmPorts
    BY <1>4, Zenon DEF TableInv, ClientLocals
  <2>2. ConfigFirst' /\ \A dp \in Dps : dp_q'[dp] # <<>> <=> dp_q[dp] # <<>>
    BY <1>1, <1>4, <2>1, QueueRmsBehind, Zenon
  <2>3. pc'["client"] = "idle"
    BY <1>4, DoneEffect, Zenon
  <2>4. QED
    BY <1>1, <2>2, <2>3, Zenon DEF QueueInv, Configured
<1>5. CASE handle_controller_route_mod
  <2>1. /\ pc["client"] = "RMT_CONTROLLER" /\ queue_rms({DpOf[work["client"].entry.dp]}) /\ Done("client")
        /\ {DpOf[work["client"].entry.dp]} \subseteq route_mod_translator
    BY <1>5, Zenon DEF handle_controller_route_mod, QueueInv
  <2>2. PICK targets : targets = {DpOf[work["client"].entry.dp]}
    BY Zenon
  <2>3. QED
    BY <1>4, <2>1, <2>2, Zenon
<1>6. CASE handle_route_mod
  <2> DEFINE out == work["client"].entry.dp
             dp == DpOf[out]
             own == {d \in {dp} : (ActivePorts(d) \cup ActiveIslPorts(d)) \ {out} # {}}
             linked == {d \in RemoteDps(dp) : ActivePorts(d) # {}}
  <2>1. /\ pc["client"] = "RMT_ADD"
        /\ \/ RemoteDps(dp) \subseteq route_mod_translator /\ queue_rms(own \cup linked) /\ Done("client")
           \/ Goto("client", "dead") /\ UNCHANGED <<work, dp_q>>
    BY <1>6, Zenon DEF handle_route_mod
  <2>2. CASE Goto("client", "dead") /\ UNCHANGED <<work, dp_q>>
    BY <1>2, <1>3, <2>2, Zenon DEF Goto
  <2>3. CASE RemoteDps(dp) \subseteq route_mod_translator /\ queue_rms(own \cup linked) /\ Done("client")
    <3>1. dp \in route_mod_translator
      BY <2>1, Zenon DEF QueueInv
    <3>2. own \cup linked \subseteq route_mod_translator
      BY <2>3, <3>1, Zenon
    <3> HIDE DEF own, linked
    <3>3. PICK targets : targets = own \cup linked
      BY Zenon
    <3>4. QED
      BY <1>4, <2>1, <2>3, <3>2, <3>3, Zenon
  <2>4. QED
    BY <2>1, <2>2, <2>3, Zenon
<1>7. CASE save_entry("client")
  BY <1>3, <1>7, DoneEffect, Zenon DEF save_entry
<1>8. ASSUME NEW vm \in VmPorts, register_vm_port(vm)
      PROVE  QueueInv'
  <2>1. pc["client"] = "idle" /\ UNCHANGED dp_q
        /\ (UNCHANGED <<pc, work>> \/ \E port, id, e : Save("client", "save", port, id, e))
    BY <1>8, Zenon DEF register_vm_port, tables, Free
  <2>2. pc'["client"] \in {"idle", "save"}
    BY <1>2, <2>1, Zenon DEF Save, Goto
  <2>3. QED
    BY <1>3, <2>1, <2>2, Zenon
<1>9. ASSUME NEW vm \in VmPorts, NEW mod \in {"RMT_CONTROLLER", "RMT_ADD"}, register_route_mod(vm, mod)
      PROVE  QueueInv'
  <2>1. UNCHANGED dp_q
        /\ (\/ Goto("client", "dead") /\ UNCHANGED work
            \/ \E i \in VmRows(vm) : /\ DpOf[rftable[i].dp] \in route_mod_translator
                                     /\ Save("client", mod, vm, i, rftable[i]))
    BY <1>9, Zenon DEF register_route_mod, tables
  <2>2. \/ pc'["client"] = "dead"
        \/ DpOf[work'["client"].entry.dp] \in route_mod_translator
    <3>1. CASE Goto("client", "dead")
      BY <1>2, <3>1, Zenon DEF Goto
    <3>2. ASSUME NEW i \in VmRows(vm), DpOf[rftable[i].dp] \in route_mod_translator,
                 Save("client", mod, vm, i, rftable[i])
          PROVE  DpOf[work'["client"].entry.dp] \in route_mod_translator
      <4>1. work'["client"] = [port |-> vm, id |-> i, entry |-> rftable[i]]
        BY <1>2, <3>2, Zenon DEF Save
      <4>2. QED
        BY <3>2, <4>1
    <3>3. QED
      BY <2>1, <3>1, <3>2, Zenon
  <2>3. QED
    BY <1>3, <2>1, <2>2, Zenon
<1>10. QED
  BY <1>5, <1>6, <1>7, <1>8, <1>9, Zenon DEF ClientMoves, ClientSteps

\* Messages of the proxy channel: a datapath is configured while its queue is
\* empty.
LEMMA ProxyQueueInv ==
    ASSUME ~Overlap, TableInv, QueueInv, ProxyMoves
    PROVE  QueueInv'
<1> USE DEF Threads
<1>1. /\ pc["client"] \in {"idle", "dead"} /\ pc'["client"] = pc["client"] /\ Alone'
  BY ProxyAlone, Zenon DEF QueueInv
<1>2. /\ pc \in [Threads -> Labels] /\ work \in [Threads -> Work]
      /\ dp_q \in [Dps -> Seq(VmPorts \cup {"config"})]
  BY Zenon DEF TableInv, TypeOK
<1>3. ASSUME UNCHANGED <<dp_q, route_mod_translator>>, pc["proxy"] # "config", pc'["proxy"] # "config"
      PROVE  QueueInv'
  BY <1>1, <1>3, Zenon DEF QueueInv, ConfigFirst, Configured
<1>4. ASSUME NEW p \in DpPorts, register_dp_port(p)
      PROVE  QueueInv'
  <2>1. UNCHANGED dp_q /\ pc["proxy"] = "idle"
    BY <1>4, Zenon DEF register_dp_port, Free
  <2>2. CASE UNCHANGED <<pc, work, route_mod_translator>>
    BY <1>3, <2>1, <2>2, Zenon
  <2>3. CASE /\ config_dp(DpOf[p]) /\ route_mod_translator' = route_mod_translator \cup {DpOf[p]}
             /\ Save("proxy", "config", p, 0, NoWork.entry)
    <3>1. /\ pc'["proxy"] = "config" /\ work'["proxy"] = [port |-> p, id |-> 0, entry |-> NoWork.entry]
          /\ DpOf[p] \notin route_mod_translator
      BY <1>2, <2>3, Zenon DEF Save, Goto, config_dp
    <3>2. work'["proxy"].port = p
      BY <3>1
    <3>3. QED
      BY <1>1, <2>1, <2>3, <3>1, <3>2, Zenon DEF QueueInv, ConfigFirst, Configured
  <2>4. CASE Save("proxy", "lookup", p, 0, NoWork.entry) /\ UNCHANGED route_mod_translator
    <3>1. pc'["proxy"] = "lookup"
      BY <1>2, <2>4, Zenon DEF Save, Goto
    <3>2. QED
      BY <1>3, <2>1, <2>4, <3>1, Zenon
  <2>5. QED
    BY <1>4, <2>2, <2>3, <2>4, Zenon DEF register_dp_port
<1>5. CASE send_datapath_config_messages
  <2>1. PICK p \in DpPorts : p = work["proxy"].port
    BY <1>5, Zenon DEF send_datapath_config_messages, TableInv, ProxyLocals
  <2>2. PICK dp \in Dps : dp = DpOf[p]
    BY Zenon DEF Dps
  <2>3. /\ pc["proxy"] = "config" /\ pc'["proxy"] = "lookup" /\ route_mod_translator' = route_mod_translator
        /\ dp_q' = [dp_q EXCEPT ![dp] = Append(@, "config")]
    BY <1>2, <1>5, <2>1, <2>2, Zenon DEF send_datapath_config_messages, Goto
  <2>4. dp_q[dp] = <<>> /\ dp \in route_mod_translator
    BY <2>1, <2>2, <2>3, Zenon DEF QueueInv, Configured
  <2>5. dp_q'[dp] = <<"config">> /\ \A d \in Dps \ {dp} : dp_q'[d] = dp_q[d]
    BY <1>2, <2>3, <2>4
  <2>6. <<"config">> # <<>> /\ \A k \in DOMAIN <<"config">> : (<<"config">>[k] = "config") <=> (k = 1)
    OBVIOUS
  <2>7. ConfigFirst'
    BY <2>5, <2>6 DEF QueueInv, ConfigFirst
  <2>8. \A d \in Dps : dp_q'[d] # <<>> <=> Configured(d)'
    BY <2>1, <2>2, <2>3, <2>4, <2>5, <2>6, Zenon DEF QueueInv, Configured
  <2>9. QED
    BY <1>1, <2>3, <2>7, <2>8, Zenon DEF QueueInv
<1>6. CASE save_entry("proxy") \/ idle_isl_rows \/ map_success
  <2>1. UNCHANGED <<dp_q, route_mod_translator>> /\ pc["proxy"] # "config" /\ Done("proxy")
    BY <1>6, Zenon DEF save_entry, idle_isl_rows, map_success
  <2>2. QED
    BY <1>3, <2>1, DoneEffect, Zenon
<1>7. CASE lookup_dp_port \/ register_islconf \/ set_dp_port_down \/ reset_vm_port
           \/ (\E vm \in VmPorts : map_port(vm)) \/ (\E dp \in Dps : set_dp_down(dp))
  <2>1. UNCHANGED <<dp_q, route_mod_translator>> /\ pc["proxy"] # "config"
    BY <1>7, Zenon DEF lookup_dp_port, register_islconf, set_dp_port_down, reset_vm_port, map_port, set_dp_down,
                tables, Free
  <2>2. \/ UNCHANGED <<pc, work>> \/ Done("proxy") \/ Goto("proxy", "isl")
        \/ \E l \in {"save", "reset", "down", "map"} : \E port, id, e : Save("proxy", l, port, id, e)
    BY <1>7, Zenon DEF lookup_dp_port, register_islconf, set_dp_port_down, reset_vm_port, map_port, set_dp_down
  <2>3. pc'["proxy"] # "config"
    BY <1>2, <2>1, <2>2, Zenon DEF Done, Save, Goto
  <2>4. QED
    BY <1>3, <2>1, <2>3, Zenon
<1>8. QED
  BY <1>4, <1>5, <1>6, <1>7, Zenon DEF ProxyMoves, ProxySteps

LEMMA NextQueueInv == ~Overlap /\ TableInv /\ QueueInv /\ [Next]_vars => QueueInv'
<1> SUFFICES ASSUME ~Overlap, TableInv, QueueInv, [Next]_vars PROVE QueueInv'
  OBVIOUS
<1>1. ASSUME UNCHANGED <<route_mod_translator, dp_q, pc, work>> PROVE QueueInv'
  BY <1>1, Zenon DEF QueueInv, Alone, ConfigFirst, Configured
<1>2. CASE UNCHANGED vars
  BY <1>1, <1>2, Zenon DEF vars
<1>3. ASSUME NEW vm \in VmPorts, process_port_config(vm) \/ restart_client(vm) PROVE QueueInv'
  BY <1>1, <1>3, Zenon DEF process_port_config, restart_client, tables
<1>4. QED
  BY <1>2, <1>3, ClientQueueInv, ProxyQueueInv, Zenon DEF Next, ClientMoves, ProxyMoves

\* When the handlers of the two channels never overlap, the configuration of a
\* datapath comes before every route queued for it, and once: a translator is
\* created with its configuration pending, and no handler of a RouteMod runs
\* before send_datapath_config_messages has queued it.
THEOREM ConfigFirstTheorem == ~Overlap => (Spec => []ConfigFirst)
<1> SUFFICES ASSUME ~Overlap PROVE Spec => []ConfigFirst
  OBVIOUS
<1>1. Init => QueueInv
  BY DEF Init, QueueInv, Alone, ConfigFirst, Configured, Threads
<1>2. TableInv /\ QueueInv /\ [Next]_vars => QueueInv'
  BY NextQueueInv, Zenon
<1>3. QueueInv => ConfigFirst
  BY Zenon DEF QueueInv
<1>4. QED
  BY <1>1, <1>2, <1>3, InitTableInv, NextTableInv, PTL DEF Spec
==============================================================================
