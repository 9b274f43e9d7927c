----------------------------- MODULE MCPipeline -----------------------------
(***************************************************************************)
(* Pipelines of up to three stages for TLC: chains, a diamond, and a       *)
(* diamond with one longer branch.                                         *)
(***************************************************************************)
EXTENDS Pipeline

MCStageRings == <<"s1", "s2", "s3">>
MCRings      == {"in", "s1", "s2", "s3"}
MCReaders    == MCRings \cup {"b"}
=============================================================================
