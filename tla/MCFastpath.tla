------------------------------ MODULE MCFastpath ------------------------------
(***************************************************************************)
(* Instances of Fastpath for TLC: every way to wire a few links between a   *)
(* few switches.                                                            *)
(***************************************************************************)
EXTENDS Fastpath

\* Switches are interchangeable.
MCSymmetry == Permutations(Dps)
===============================================================================
