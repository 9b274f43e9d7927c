--------------------------- MODULE MultiBroadcast ---------------------------
(***************************************************************************)
(* What a multi-producer ring promises, with every call atomic: Broadcast  *)
(* with publishers that finish in any order.  A message is claimed, then   *)
(* written, and the cursor announces it once all before it are; head       *)
(* counts the messages claimed.  Subscribers are those of Broadcast, and   *)
(* none of them gates the publishers.                                      *)
(***************************************************************************)
EXTENDS Broadcast

VARIABLE written   \* ring -> the messages written so far

multiVars == <<broadcastVars, written>>

MultiInit ==
  /\ BroadcastInit
  /\ written = [r \in Rings |-> {}]

----------------------------------------------------------------------------

\* A publisher gets the next number.
Claim(r) ==
  /\ head[r] < MaxHead
  /\ head' = [head EXCEPT ![r] = @ + 1]
  /\ UNCHANGED <<shown, on, gated, start, next, received, lagged, written>>

\* Message n can be read.  It takes the slot of a message that was written.
Write(r, n) ==
  /\ n \in 0 .. head[r] - 1 /\ n \notin written[r]
  /\ n >= Depth => n - Depth \in written[r]
  /\ written' = [written EXCEPT ![r] = @ \cup {n}]
  /\ UNCHANGED broadcastVars

\* The cursor moves on by one message, which is written.
Announce(r) ==
  /\ shown[r] \in written[r]
  /\ shown' = [shown EXCEPT ![r] = @ + 1]
  /\ UNCHANGED <<head, on, gated, start, next, received, lagged, written>>

\* try_recv returns the next message, announced or not, while its slot has no
\* later one.
ReceiveWritten(s) ==
  /\ on[s] # "none"
  /\ next[s] \in written[on[s]] /\ next[s] + Depth \notin written[on[s]]
  /\ next' = [next EXCEPT ![s] = @ + 1]
  /\ received' = [received EXCEPT ![s] = @ + 1]
  /\ UNCHANGED <<head, shown, on, gated, start, lagged, written>>

\* try_recv may return Empty: the next message is not written, or its slot is
\* claimed for a later one.
Unavailable(s) ==
  /\ on[s] # "none"
  /\ next[s] \notin written[on[s]] \/ next[s] + Depth < head[on[s]]

\* What subscribers do as on any ring.
ReaderStep ==
  \/ \E s \in Readers, r \in Rings : JoinHead(s, r, FALSE) \/ JoinOldest(s, r)
  \/ \E s \in Readers : Leave(s) \/ Lag(s) \/ Jump(s)

MultiNext ==
  \/ \E r \in Rings : Claim(r) \/ Announce(r) \/ \E n \in 0 .. MaxHead : Write(r, n)
  \/ \E s \in Readers : ReceiveWritten(s)
  \/ ReaderStep /\ UNCHANGED written

MultiSpec == MultiInit /\ [][MultiNext]_multiVars
=============================================================================
