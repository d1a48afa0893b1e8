------------------------------ MODULE MCRFServer ------------------------------
(***************************************************************************)
(* Instances of RFServer for TLC.  Switch sw1 has the ports p1 and p2, sw2  *)
(* has p3 and p5, sw3 has p4; vp is a port of a RouteFlow virtual switch.   *)
(***************************************************************************)
EXTENDS RFServer, TLC

CONSTANTS v1, v2, p1, p2, p3, p4, p5, vp, sw1, sw2, sw3, rfvs, m1, m2, m3, m4

MCDpOf == p1 :> sw1 @@ p2 :> sw1 @@ p3 :> sw2 @@ p4 :> sw3 @@ p5 :> sw2 @@ vp :> rfvs

\* Each VM port is plugged into a virtual-switch port of its own.
MCVsOf == [v \in VmPorts |-> <<"vs", v>>]

\* Two VM ports, each configured to a port of sw1.
MCConfig == [v \in VmPorts |-> IF v = v1 THEN p1 ELSE p2]

\* A VM port on each of the linked switches sw1 and sw2.
MCLinkedConfig == [v \in VmPorts |-> IF v = v1 THEN p1 ELSE p5]

\* No link; a link sw1 - sw2; that link and one sw2 - sw3 that shares p3.
End(p, m) == [port |-> p, eth |-> m]
MCNoIsl == {}
MCOneIsl == {[loc |-> End(p2, m1), rem |-> End(p3, m2)]}
MCTwoIsl == MCOneIsl \cup {[loc |-> End(p4, m3), rem |-> End(p3, m4)]}
===============================================================================
