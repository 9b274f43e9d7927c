------------------------------ MODULE Broadcast ------------------------------
(***************************************************************************)
(* What a single-producer ring promises, with every call atomic: the       *)
(* abstract specification that SpmcChannel implements (module              *)
(* SpmcRefinement), and the ring that the modules built on channels        *)
(* (Barrier, Pipeline, Bus, AsyncSubscriber) compose.                      *)
(*                                                                         *)
(* Messages of a ring are numbered from 0.  A message is readable as soon  *)
(* as its slot is stamped; the ring cursor, by which new subscribers and   *)
(* lapped ones position themselves, follows a step later.                  *)
(***************************************************************************)
EXTENDS Integers

CONSTANTS
  Rings,      \* the rings
  Readers,    \* the subscribers
  Depth,      \* capacity of a ring
  MaxHead     \* bound: messages published on one ring

ASSUME RingsAssumption   == "none" \notin Rings
ASSUME DepthAssumption   == Depth \in Nat /\ Depth >= 2
ASSUME MaxHeadAssumption == MaxHead \in Nat

VARIABLES
  head,       \* ring -> number of messages stamped
  shown,      \* ring -> number of messages the ring cursor covers
  on,         \* reader -> its ring, or "none"
  gated,      \* readers that hold back the publisher of their ring
  start,      \* reader -> message it was created at, -1 after a jump
  next,       \* reader -> number of the next message to read
  received,   \* reader -> messages received
  lagged      \* reader -> messages lost

broadcastVars == <<head, shown, on, gated, start, next, received, lagged>>

\* First message of ring r that the cursor still counts as in the ring.
Oldest(r) == IF shown[r] > Depth THEN shown[r] - Depth ELSE 0

BroadcastInit ==
  /\ head = [r \in Rings |-> 0]
  /\ shown = [r \in Rings |-> 0]
  /\ on = [s \in Readers |-> "none"]
  /\ gated = {}
  /\ start = [s \in Readers |-> 0]
  /\ next = [s \in Readers |-> 0]
  /\ received = [s \in Readers |-> 0]
  /\ lagged = [s \in Readers |-> 0]

BroadcastTypeOK ==
  /\ head \in [Rings -> 0 .. MaxHead]
  /\ shown \in [Rings -> 0 .. MaxHead]
  /\ on \in [Readers -> Rings \cup {"none"}]
  /\ gated \subseteq Readers
  /\ start \in [Readers -> -1 .. MaxHead]
  /\ next \in [Readers -> 0 .. MaxHead]
  /\ received \in [Readers -> Nat]
  /\ lagged \in [Readers -> Nat]

----------------------------------------------------------------------------
(* The publisher of ring r.                                                *)

\* No gated reader of r would lose a message to the next one.
Room(r) == \A s \in gated : on[s] = r => head[r] - next[s] < Depth

\* Slot::write: the message can be read.
Publish(r) ==
  /\ shown[r] = head[r]
  /\ head[r] < MaxHead
  /\ Room(r)
  /\ head' = [head EXCEPT ![r] = @ + 1]
  /\ UNCHANGED <<shown, on, gated, start, next, received, lagged>>

\* The cursor store: the message is announced.
Show(r) ==
  /\ shown[r] # head[r]
  /\ shown' = [shown EXCEPT ![r] = head[r]]
  /\ UNCHANGED <<head, on, gated, start, next, received, lagged>>

----------------------------------------------------------------------------
(* The subscribers.                                                        *)

\* A subscriber s of ring r, positioned at message n.
Join(s, r, n) ==
  /\ on[s] = "none"
  /\ on' = [on EXCEPT ![s] = r]
  /\ start' = [start EXCEPT ![s] = n]
  /\ next' = [next EXCEPT ![s] = n]
  /\ UNCHANGED <<head, shown, received, lagged>>

\* subscribe: from here on; it gates the publisher of a bounded ring.
JoinHead(s, r, gates) ==
  /\ Join(s, r, shown[r])
  /\ gated' = IF gates THEN gated \cup {s} ELSE gated

\* subscribe_from_oldest: with what is still there.
JoinOldest(s, r) ==
  /\ Join(s, r, Oldest(r))
  /\ UNCHANGED gated

\* Drop.
Leave(s) ==
  /\ on[s] # "none"
  /\ on' = [on EXCEPT ![s] = "none"]
  /\ gated' = gated \ {s}
  /\ start' = [start EXCEPT ![s] = 0]
  /\ next' = [next EXCEPT ![s] = 0]
  /\ received' = [received EXCEPT ![s] = 0]
  /\ lagged' = [lagged EXCEPT ![s] = 0]
  /\ UNCHANGED <<head, shown>>

\* try_recv returns the next message, which is still in its slot.
Receive(s) ==
  /\ on[s] # "none"
  /\ next[s] < head[on[s]]
  /\ head[on[s]] - next[s] <= Depth
  /\ next' = [next EXCEPT ![s] = @ + 1]
  /\ received' = [received EXCEPT ![s] = @ + 1]
  /\ UNCHANGED <<head, shown, on, gated, start, lagged>>

\* try_recv returns Lagged: the reader is moved to the oldest message and
\* told how many it lost.
Lag(s) ==
  /\ on[s] # "none"
  /\ next[s] < Oldest(on[s])
  /\ next' = [next EXCEPT ![s] = Oldest(on[s])]
  /\ lagged' = [lagged EXCEPT ![s] = @ + Oldest(on[s]) - next[s]]
  /\ UNCHANGED <<head, shown, on, gated, start, received>>

\* latest goes to the last message announced, forwards or backwards; on a reader
\* that gates the publisher it is not covered by any promise.
Jump(s) ==
  /\ on[s] # "none" /\ s \notin gated
  /\ shown[on[s]] > 0
  /\ next' = [next EXCEPT ![s] = shown[on[s]] - 1]
  /\ start' = [start EXCEPT ![s] = -1]
  /\ UNCHANGED <<head, shown, on, gated, received, lagged>>

\* try_recv may return Empty: there is no next message, or its slot is being
\* given to a later one.
Unreadable(s) ==
  /\ on[s] # "none"
  /\ next[s] = head[on[s]] \/ head[on[s]] - next[s] >= Depth

BroadcastNext ==
  \/ \E r \in Rings : Publish(r) \/ Show(r)
  \/ \E s \in Readers, r \in Rings :
        \/ \E gates \in BOOLEAN : JoinHead(s, r, gates)
        \/ JoinOldest(s, r)
  \/ \E s \in Readers : Leave(s) \/ Receive(s) \/ Lag(s) \/ Jump(s)

BroadcastSpec == BroadcastInit /\ [][BroadcastNext]_broadcastVars
=============================================================================
