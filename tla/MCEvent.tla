------------------------------ MODULE MCEvent ------------------------------
(***************************************************************************)
(* An event ring for TLC: subscribers come, read, panic and go.            *)
(***************************************************************************)
EXTENDS EventChannel

CONSTANTS s1, s2, s3

MCSubs == {s1, s2, s3}
=============================================================================
