------------------------------ MODULE MCMpmc ------------------------------
(***************************************************************************)
(* A multi-producer channel for TLC: more publishes in flight than slots.  *)
(***************************************************************************)
EXTENDS MpmcRefinement

CONSTANTS p1, p2, p3, s1, w1

MCPubs  == {p1, p2, p3}
MCSubs  == {s1}
MCWords == {w1}
=============================================================================
