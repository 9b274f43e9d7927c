----------------------------- MODULE MCBounded -----------------------------
(***************************************************************************)
(* A bounded channel for TLC: two subscribers that gate the publisher.     *)
(***************************************************************************)
EXTENDS SpmcRefinement

CONSTANTS s1, s2, w1

MCSubs  == {s1, s2}
MCWords == {w1}
=============================================================================
