------------------------------ MODULE MCFlowTable ------------------------------
(***************************************************************************)
(* Instances of FlowTable for TLC: i1 and i2 are interfaces of ports 1 and  *)
(* 2, each with one gateway.                                                *)
(***************************************************************************)
EXTENDS FlowTable, TLC

CONSTANTS h1, h2, i1, i2, d1, d2

MCPortOf == [i \in Ifaces |-> IF i = i1 THEN 1 ELSE 2]
MCIfOf == [h \in Hosts |-> IF h = h1 \/ i2 \notin Ifaces THEN i1 ELSE i2]

\* With one interface the neighbours are interchangeable.
MCSymmetry == Permutations(Hosts)
===============================================================================
