------------------------------ MODULE RFISLEntry ------------------------------
(***************************************************************************)
(* Rows of the RFServer's RFISLTable (class RFISLEntry of                   *)
(* rfserver/rftable.py): one direction of an inter-switch link.  An end is  *)
(* a datapath port with the Ethernet address the link uses there; the local *)
(* fields (ct_id, dp_id, dp_port, eth_addr) and the remote ones are always  *)
(* assigned together.                                                       *)
(***************************************************************************)
CONSTANT None

Entry(loc, rem) == [loc |-> loc, rem |-> rem]

RFISL_IDLE_DP_PORT == "idle_dp_port"
RFISL_IDLE_REMOTE == "idle_remote"
RFISL_ACTIVE == "active"

is_idle_dp_port(e) == e.loc # None /\ e.rem = None

is_idle_remote(e) == e.loc = None /\ e.rem # None

\* Mutant: make_idle takes the type for the end to clear.
make_idle_swapped(e, type) ==
    IF type = RFISL_IDLE_DP_PORT THEN [e EXCEPT !.loc = None] ELSE [e EXCEPT !.rem = None]

make_idle(e, type) ==
    IF type = RFISL_IDLE_REMOTE THEN [e EXCEPT !.loc = None] ELSE [e EXCEPT !.rem = None]

\* Unlike RFEntry's, this associate leaves any other row as it is.
associate(e, end) ==
    CASE is_idle_dp_port(e) -> [e EXCEPT !.rem = end]
      [] is_idle_remote(e) -> [e EXCEPT !.loc = end]
      [] OTHER -> e

\* A row with neither end reads as active.
get_status(e) ==
    CASE is_idle_dp_port(e) -> RFISL_IDLE_DP_PORT
      [] is_idle_remote(e) -> RFISL_IDLE_REMOTE
      [] OTHER -> RFISL_ACTIVE
===============================================================================
