----------------------------- MODULE MCConsumer -----------------------------
(***************************************************************************)
(* A managed consumer for TLC.                                             *)
(***************************************************************************)
EXTENDS Consumer, TLC

CONSTANTS s1, w1

MCSubs  == {s1}
MCWords == {w1}
=============================================================================
