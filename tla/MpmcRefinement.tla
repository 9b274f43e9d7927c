--------------------------- MODULE MpmcRefinement ---------------------------
(***************************************************************************)
(* MpmcChannel implements MultiBroadcast: whatever the interleaving of the *)
(* publishers, a message is written at one moment, when its slot is        *)
(* stamped, and the cursor passes the messages one by one.                 *)
(***************************************************************************)
EXTENDS MpmcChannel

\* Messages whose slot has been stamped, overwritten ones too.
Stamped == {m \in Seqs : stamp[Slot(m)] >= Done(m)}

Abstract ==
  INSTANCE MultiBroadcast WITH
    Rings    <- {"ring"},
    Readers  <- Subs,
    Depth    <- Capacity,
    MaxHead  <- MaxSeq,
    head     <- [r \in {"ring"} |-> nextSeq],
    shown    <- [r \in {"ring"} |-> NextAfter(cursor)],
    written  <- [r \in {"ring"} |-> Stamped],
    on       <- [s \in Subs |-> IF pc[s] = "absent" THEN "none" ELSE "ring"],
    gated    <- {},
    next     <- subCursor

\* A multi-producer channel is a broadcast ring whose messages are written in any
\* order: each once and after the one before it in its slot, announced in order
\* and only when written; a subscriber gets them in order, and those it skips are
\* counted and behind the cursor by a ring (claim, wait_for_slot, advance_cursor,
\* catch_up_cursor, read_slot).
ImplementsMultiBroadcast == Abstract!MultiSpec

\* try_recv says Empty only when the next message is not written or a publisher
\* has claimed its slot for a later one, although stamps run ahead of the cursor
\* that a lag is computed from (read_slot's four ways to Empty).
EmptyOnlyIfUnavailable ==
  [][\A s \in Subs :
       /\ ret'[s] = "empty"
       /\ pc'[s] \notin {"words", "lag"}
       /\ pc[s] \in {"words", "lag"} \/ ret[s] # "empty"
       => Abstract!Unavailable(s) \/ Latest(s)
    ]_vars
=============================================================================
