------------------------------ MODULE MCBarrier ------------------------------
(***************************************************************************)
(* A barrier over two upstreams for TLC.                                   *)
(***************************************************************************)
EXTENDS Barrier

CONSTANTS u1, u2, d

MCUps     == {u1, u2}
MCReaders == {u1, u2, d}
=============================================================================
