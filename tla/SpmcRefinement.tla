--------------------------- MODULE SpmcRefinement ---------------------------
(***************************************************************************)
(* SpmcChannel implements Broadcast: the accesses of a publication or of a *)
(* receive, interleaved at will, look like one atomic step.  A message is  *)
(* published when its slot is stamped and received when the second load of *)
(* the stamp finds it unchanged; a subscriber exists once it has a         *)
(* position.                                                               *)
(***************************************************************************)
EXTENDS SpmcChannel

\* Messages whose slot has been stamped.
Stamped == IF pubPc = "cursor" THEN seq + 1 ELSE seq

\* The subscriber has been given a position in the ring.
Positioned(s) == pc[s] \notin {"absent", "locked"}

Abstract ==
  INSTANCE Broadcast WITH
    Rings    <- {"ring"},
    Readers  <- Subs,
    Depth    <- Capacity,
    MaxHead  <- MaxSeq,
    head     <- [r \in {"ring"} |-> Stamped],
    shown    <- [r \in {"ring"} |-> NextAfter(cursor)],
    on       <- [s \in Subs |-> IF Positioned(s) THEN "ring" ELSE "none"],
    gated    <- {s \in Subs : kind[s] = "head"},
    next     <- subCursor

\* A single-producer channel is a broadcast ring: messages come in order, the
\* ones skipped are counted and are gone from the ring, a gated subscriber
\* loses none, whatever the interleaving of publish, subscribe, read_slot and
\* Drop.  On a bounded ring this is for clients that do not call latest().
ImplementsBroadcast == Abstract!BroadcastSpec

\* try_recv says Empty only when there is nothing to return: the next message is
\* not published, or its slot is being given to a later one (read_slot's four
\* ways to Empty; latest() goes by the cursor before it reads).  The modules on
\* top of Broadcast rely on it.
EmptyOnlyIfUnreadable ==
  [][\A s \in Subs :
       /\ ret'[s] = "empty"
       /\ pc'[s] \notin {"words", "lag"}
       /\ pc[s] \in {"words", "lag"} \/ ret[s] # "empty"
       => Abstract!Unreadable(s) \/ Latest(s)
    ]_vars
=============================================================================
