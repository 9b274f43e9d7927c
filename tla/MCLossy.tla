------------------------------ MODULE MCLossy ------------------------------
(***************************************************************************)
(* A lossy channel for TLC: the publisher laps slow subscribers at will.   *)
(***************************************************************************)
EXTENDS SpmcRefinement

CONSTANTS s1, w1, w2

MCOneSub == {s1}
MCWords  == {w1, w2}
=============================================================================
