----------------------------- MODULE SharedRing -----------------------------
(***************************************************************************)
(* The memory that the publishers and the subscribers of one ring share:   *)
(* the seqlock-stamped slots, the ring cursor and, on a bounded ring, the  *)
(* list of subscriber trackers behind its spin lock (src/ring.rs,          *)
(* src/slot.rs).                                                           *)
(*                                                                         *)
(* A message is identified with its sequence number.  Its payload is a set *)
(* of words (the u64 stripes of store_payload), each of which holds the    *)
(* sequence number of the message it was written for, so a payload whose   *)
(* words differ is a torn one.                                             *)
(*                                                                         *)
(* Memory is sequentially consistent, except that the order of the Relaxed *)
(* word accesses between two fences is left open.                          *)
(***************************************************************************)
EXTENDS Integers, FiniteSets

CONSTANTS
  Capacity,    \* number of slots
  Words,       \* the words of a payload
  Subs,        \* identities a subscriber can have
  Bounded,     \* TRUE: channel_bounded, FALSE: channel or channel_mpmc
  Watermark,   \* headroom of a bounded ring
  MaxSeq       \* bound: sequence numbers are below MaxSeq

ASSUME CapacityAssumption  == Capacity \in Nat /\ Capacity >= 2
ASSUME WordsAssumption     == Words # {}
ASSUME SubsAssumption      == "free" \notin Subs /\ "publisher" \notin Subs
ASSUME BoundedAssumption   == Bounded \in BOOLEAN
ASSUME WatermarkAssumption == Watermark \in Nat /\ Watermark < Capacity
ASSUME MaxSeqAssumption    == MaxSeq \in Nat

VARIABLES
  stamp,      \* slot -> seqlock stamp
  value,      \* slot -> word -> sequence number of the message it belongs to
  cursor,     \* last published sequence number, Nothing before the first
  trackers,   \* subscribers whose tracker is in BackpressureState.trackers
  lock        \* holder of the spin lock around trackers

ringVars == <<stamp, value, cursor, trackers, lock>>

Slots == 0 .. Capacity - 1
Seqs  == 0 .. MaxSeq - 1

\* u64::MAX in the cursor, an uninitialised payload word, an absent tracker.
Nothing == -1

\* RingIndex::slot, by what it computes (module RingIndex has the arithmetic).
Slot(seq) == seq % Capacity

Writing(seq) == seq * 2 + 1
Done(seq)    == seq * 2 + 2
Odd(s)       == s % 2 = 1

\* Slots the publisher of a bounded ring may fill ahead of the slowest tracker.
Effective == Capacity - Watermark

NextAfter(head) == IF head = Nothing THEN 0 ELSE head + 1

\* Mutants of OldestAt: no test for a ring that is not full yet, so the
\* subtraction underflows; one message too far; one message too few.
OldestUnderflow(head) == head - Capacity + 1
OldestPlusOne(head)   ==
  IF head = Nothing \/ head < Capacity THEN 0 ELSE head - Capacity + 2

OldestMinusOne(head)  ==
  IF head = Nothing \/ head < Capacity THEN 0 ELSE head - Capacity

\* First message still in the ring when head is the last one published.
OldestAt(head) ==
  IF head = Nothing \/ head < Capacity THEN 0 ELSE head - Capacity + 1

RingInit ==
  /\ stamp = [i \in Slots |-> 0]
  /\ value = [i \in Slots |-> [w \in Words |-> Nothing]]
  /\ cursor = Nothing
  /\ trackers = {}
  /\ lock = "free"

RingTypeOK ==
  /\ stamp \in [Slots -> Nat]
  /\ value \in [Slots -> [Words -> Seqs \cup {Nothing}]]
  /\ cursor \in Seqs \cup {Nothing}
  /\ trackers \subseteq Subs
  /\ lock \in Subs \cup {"free", "publisher"}

----------------------------------------------------------------------------
(* Slot::write, in the steps another thread can see.                       *)

\* The slot is marked as being written.
StampWriting(seq) ==
  /\ stamp' = [stamp EXCEPT ![Slot(seq)] = Writing(seq)]
  /\ UNCHANGED value

\* One Relaxed word of the payload is stored.
StoreWord(seq) ==
  /\ \E w \in Words :
        /\ value[Slot(seq)][w] # seq
        /\ value' = [value EXCEPT ![Slot(seq)][w] = seq]
  /\ UNCHANGED stamp

\* With every word stored, the slot is marked done.
StampDone(seq) ==
  /\ \A w \in Words : value[Slot(seq)][w] = seq
  /\ stamp' = [stamp EXCEPT ![Slot(seq)] = Done(seq)]
  /\ UNCHANGED value
=============================================================================
