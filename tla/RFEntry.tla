------------------------------- MODULE RFEntry -------------------------------
(***************************************************************************)
(* Rows of the RFServer's RFTable (class RFEntry of rfserver/rftable.py).   *)
(*                                                                          *)
(* The code keeps eight fields.  (vm_id, vm_port), (ct_id, dp_id, dp_port)  *)
(* and (vs_id, vs_port) are always assigned together, so a row holds a VM   *)
(* port, a datapath port and a virtual-switch port, each possibly None.     *)
(* eth_addr travels with the VM port and is not represented.                *)
(***************************************************************************)
CONSTANT None

Entry(vm, dp) == [vm |-> vm, dp |-> dp, vs |-> None]

RFENTRY_IDLE_VM_PORT == "idle_vm_port"
RFENTRY_IDLE_DP_PORT == "idle_dp_port"
RFENTRY_ASSOCIATED == "associated"
RFENTRY_ACTIVE == "active"

is_idle_vm_port(e) == e.vm # None /\ e.dp = None /\ e.vs = None

is_idle_dp_port(e) == e.vm = None /\ e.dp # None /\ e.vs = None

\* Mutants: make_idle keeps the virtual-switch port; make_idle takes the type
\* for the side to clear.
make_idle_keeps_vs(e, type) ==
    IF type = RFENTRY_IDLE_VM_PORT THEN [e EXCEPT !.dp = None] ELSE [e EXCEPT !.vm = None]

make_idle_swapped(e, type) ==
    IF type = RFENTRY_IDLE_DP_PORT
    THEN [e EXCEPT !.dp = None, !.vs = None]
    ELSE [e EXCEPT !.vm = None, !.vs = None]

make_idle(e, type) ==
    IF type = RFENTRY_IDLE_VM_PORT
    THEN [e EXCEPT !.dp = None, !.vs = None]
    ELSE [e EXCEPT !.vm = None, !.vs = None]

\* The code raises ValueError for any other row: the CASE has no value there.
associate(e, port) ==
    CASE is_idle_vm_port(e) -> [e EXCEPT !.dp = port]
      [] is_idle_dp_port(e) -> [e EXCEPT !.vm = port]

\* Mutant: the row gets the VM port where the virtual-switch port belongs.
activate_with_vm(e, vs) == [e EXCEPT !.vs = e.vm]

activate(e, vs) == [e EXCEPT !.vs = vs]

\* A row with no VM port and no datapath port reads as associated.
get_status(e) ==
    CASE is_idle_vm_port(e) -> RFENTRY_IDLE_VM_PORT
      [] is_idle_dp_port(e) -> RFENTRY_IDLE_DP_PORT
      [] ~is_idle_vm_port(e) /\ ~is_idle_dp_port(e) /\ e.vs = None -> RFENTRY_ASSOCIATED
      [] OTHER -> RFENTRY_ACTIVE
==============================================================================
