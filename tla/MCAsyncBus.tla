----------------------------- MODULE MCAsyncBus -----------------------------
(***************************************************************************)
(* One topic, which calls with two message types compete for, a spare ring *)
(* and two subscribers for TLC.                                            *)
(***************************************************************************)
EXTENDS AsyncBus
=============================================================================
