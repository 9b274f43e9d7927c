-------------------------- MODULE SpmcClientProofs --------------------------
(***************************************************************************)
(* What a client of a single-producer channel can rely on, from the        *)
(* invariant of SpmcProofs and for every value of the constants:           *)
(*                                                                         *)
(*   1. every step is a step of Broadcast or a stutter                     *)
(*   2. try_recv says Empty only when there is nothing to return           *)
(*   3. whoever holds up the publisher of a full bounded ring can move     *)
(*   4. the managed consumer on top of such a channel                      *)
(***************************************************************************)
EXTENDS SpmcRefinement, Consumer, SpmcProofs

(***************************************************************************)
(* Part 1.  Every step of SpmcChannel is a step of Broadcast or a stutter  *)
(* under the mapping of SpmcRefinement.  On a bounded ring this is for     *)
(* clients that do not call latest().                                      *)
(***************************************************************************)

\* The clients the refinement is about.
Promised == ~Bounded \/ "latest" \notin Calls

RInv == IInv /\ LossyInv

----------------------------------------------------------------------------
(* The extra invariant.                                                    *)

LEMMA LossyStep == IInv /\ LossyInv /\ [Next]_vars => LossyInv'
<1> SUFFICES ASSUME IInv, LossyInv, [Next]_vars PROVE LossyInv'
  OBVIOUS
<1>1. CASE UNCHANGED vars \/ PubStep
  <2>1. UNCHANGED subVars
    BY <1>1, Zenon DEF vars, PubStep, HasRoom, ScanLock, ScanTracker, ScanDone, BeginWrite,
       WriteWord, EndWrite, StoreCursor
  <2>. QED BY <2>1, Zenon DEF subVars, LossyInv
<1>2. CASE \E u \in Subs : SubStep(u)
  BY <1>2, LossySub, Zenon DEF IInv, SeqlockInv, TypeOK
<1>. QED BY <1>1, <1>2, Zenon DEF Next

LEMMA RefinementInvariance == Spec => []RInv
<1>1. Init => RInv
  BY InitInv DEF RInv, LossyInv, Init, SubInit
<1>2. RInv /\ [Next]_vars => RInv'
  BY NextInv, LossyStep DEF RInv
<1>. QED BY <1>1, <1>2, PTL DEF Spec

----------------------------------------------------------------------------
(* The abstract state.                                                     *)

\* The positions of the abstract ring in terms of the publisher's seq.
LEMMA Heads ==
  ASSUME SeqlockInv
  PROVE  /\ NextAfter(cursor) = seq /\ Stamped \in {seq, seq + 1}
         /\ Abstract!Oldest("ring") = OldestAt(cursor)
<1>1. NextAfter(cursor) = seq
  BY HeadIsSeq
<1>2. Abstract!Oldest("ring") = IF seq > Capacity THEN seq - Capacity ELSE 0
  BY <1>1 DEF Abstract!Oldest
<1>3. OldestAt(cursor) = IF seq > Capacity THEN seq - Capacity ELSE 0
  BY CapacityAssumption DEF SeqlockInv, TypeOK, PubInv, OldestAt, Nothing
<1>. QED BY <1>1, <1>2, <1>3 DEF Stamped

\* What a stutter is.
LEMMA Stutter ==
  ASSUME UNCHANGED <<cursor, kind, subCursor, start, received, lagged>>,
         Stamped' = Stamped,
         \A s \in Subs : Positioned(s)' = Positioned(s)
  PROVE  UNCHANGED Abstract!broadcastVars
<1>1. [s \in Subs |-> IF Positioned(s) THEN "ring" ELSE "none"]'
        = [s \in Subs |-> IF Positioned(s) THEN "ring" ELSE "none"]
  OBVIOUS
<1>2. {s \in Subs : kind[s] = "head"}' = {s \in Subs : kind[s] = "head"}
  OBVIOUS
<1>3. [r \in {"ring"} |-> Stamped]' = [r \in {"ring"} |-> Stamped]
  OBVIOUS
<1>4. [r \in {"ring"} |-> NextAfter(cursor)]' = [r \in {"ring"} |-> NextAfter(cursor)]
  BY DEF NextAfter
<1>. QED BY <1>1, <1>2, <1>3, <1>4 DEF Abstract!broadcastVars

----------------------------------------------------------------------------
(* The publisher.                                                          *)

\* There is room for the message whose slot the publisher stamps.
LEMMA RoomAtEndWrite ==
  ASSUME RInv, Promised, pubPc = "words", NEW s \in Subs, kind[s] = "head"
  PROVE  seq - subCursor[s] < Capacity
<1>1. Bounded
  BY DEF RInv, LossyInv
<1>2. Gate
  BY <1>1 DEF RInv, IInv, GateInv, Promised
<1>3. tracker[s] \in Nat /\ tracker[s] <= subCursor[s] /\ seq < tracker[s] + Effective
  BY <1>2 DEF Gate, TrackerInv, RoomInv, Publishing
<1>. QED BY <1>3, CapacityAssumption, WatermarkAssumption
  DEF RInv, IInv, SeqlockInv, TypeOK, SubTypeOK, Effective

LEMMA PublisherRefines ==
  ASSUME RInv, Promised, PubStep
  PROVE  Abstract!BroadcastNext \/ UNCHANGED Abstract!broadcastVars
<1>0. SeqlockInv /\ seq \in Nat
  BY DEF RInv, IInv, SeqlockInv, TypeOK
<1>1. CASE HasRoom \/ ScanLock \/ (\E s \in Subs : ScanTracker(s)) \/ ScanDone \/ BeginWrite
           \/ WriteWord
  <2>1. UNCHANGED <<cursor, kind, subCursor, start, received, lagged, pc, seq>>
    BY <1>1, Zenon DEF HasRoom, ScanLock, ScanTracker, ScanDone, BeginWrite, WriteWord, ringVars,
       subVars, pubVars
  <2>2. pubPc # "cursor" /\ pubPc' # "cursor"
    BY <1>1 DEF HasRoom, ScanLock, ScanTracker, ScanDone, BeginWrite, WriteWord, pubVars
  <2>. QED BY <2>1, <2>2, Stutter DEF Stamped, Positioned
<1>2. CASE EndWrite
  <2>1. /\ pubPc = "words" /\ pubPc' = "cursor"
        /\ UNCHANGED <<cursor, kind, subCursor, start, received, lagged, pc, seq>>
    BY <1>2 DEF EndWrite, subVars
  <2>2. Stamped = seq /\ Stamped' = seq + 1 /\ seq < MaxSeq /\ NextAfter(cursor) = seq
    BY <1>0, <2>1, Heads DEF Stamped, SeqlockInv, PubInv
  <2>3. Abstract!Room("ring")
    BY <2>1, <2>2, RoomAtEndWrite DEF Abstract!Room
  <2>4. Abstract!Publish("ring")
    BY <2>1, <2>2, <2>3 DEF Abstract!Publish, NextAfter, Positioned
  <2>. QED BY <2>4 DEF Abstract!BroadcastNext
<1>3. CASE StoreCursor
  <2>1. /\ pubPc = "cursor" /\ pubPc' = "idle" /\ cursor' = seq /\ seq' = seq + 1
        /\ UNCHANGED <<kind, subCursor, start, received, lagged, pc>>
    BY <1>3 DEF StoreCursor, subVars
  <2>2. /\ Stamped = seq + 1 /\ Stamped' = seq + 1
        /\ NextAfter(cursor) = seq /\ NextAfter(cursor)' = seq + 1
    BY <1>0, <2>1, Heads DEF Stamped, NextAfter, Nothing
  <2>3. Abstract!Show("ring")
    BY <1>0, <2>1, <2>2 DEF Abstract!Show, Positioned
  <2>. QED BY <2>3 DEF Abstract!BroadcastNext
<1>. QED BY <1>1, <1>2, <1>3 DEF PubStep

----------------------------------------------------------------------------
(* Subscribers come and go.                                                *)

\* A subscriber that gets position n in one step joins the abstract ring there.
LEMMA JoinMaps ==
  ASSUME SubTypeOK, NEW s \in Subs, NEW n \in 0 .. MaxSeq,
         ~Positioned(s), Positioned(s)', UNCHANGED <<cursor, pubVars, received, lagged>>,
         \A u \in Subs \ {s} : pc'[u] = pc[u],
         subCursor' = [subCursor EXCEPT ![s] = n],
         start' = [start EXCEPT ![s] = n]
  PROVE  Abstract!Join(s, "ring", n)
<1>1. Stamped' = Stamped /\ NextAfter(cursor)' = NextAfter(cursor)
  BY DEF Stamped, NextAfter, pubVars
<1>2. \A u \in Subs \ {s} : Positioned(u)' = Positioned(u)
  BY DEF Positioned
<1>. QED BY <1>1, <1>2, Zenon DEF Abstract!Join

LEMMA CreateRefines ==
  ASSUME RInv, NEW s \in Subs, UNCHANGED pubVars,
         SubscribeLossy(s) \/ SubscribeTracked(s) \/ SubscribeFromOldest(s) \/ LoadHead(s)
  PROVE  Abstract!BroadcastNext
<1>0. /\ SeqlockInv /\ SubTypeOK /\ FreshInv
      /\ NextAfter(cursor) \in 0 .. MaxSeq /\ OldestAt(cursor) \in 0 .. MaxSeq
  <2>1. SeqlockInv /\ SubTypeOK /\ FreshInv /\ seq \in 0 .. MaxSeq
    BY DEF RInv, IInv, SeqlockInv, TypeOK
  <2>. QED BY <2>1, HeadIsSeq, MaxSeqAssumption
<1>1. ~Positioned(s) /\ kind[s] = "none"
  BY <1>0, Zenon DEF SubscribeLossy, SubscribeTracked, SubscribeFromOldest, LoadHead, Create,
     FreshInv, Positioned
<1>2. /\ Positioned(s)' /\ UNCHANGED <<cursor, received, lagged>>
      /\ \A u \in Subs \ {s} : pc'[u] = pc[u] /\ kind'[u] = kind[u]
  BY <1>0, Zenon DEF SubscribeLossy, SubscribeTracked, SubscribeFromOldest, LoadHead, Create,
     SubTypeOK, Positioned, ringVars
<1>3. CASE SubscribeLossy(s) \/ SubscribeTracked(s)
  <2>1. /\ subCursor' = [subCursor EXCEPT ![s] = NextAfter(cursor)]
        /\ start' = [start EXCEPT ![s] = NextAfter(cursor)]
        /\ kind'[s] # "head"
    BY <1>0, <1>3, Zenon DEF SubscribeLossy, SubscribeTracked, Create, SubTypeOK
  <2>2. Abstract!Join(s, "ring", NextAfter(cursor))
    BY <1>0, <1>1, <1>2, <2>1, JoinMaps, Zenon
  <2>3. {u \in Subs : kind[u] = "head"}' = {u \in Subs : kind[u] = "head"}
    BY <1>1, <1>2, <2>1, Zenon
  <2>4. Abstract!JoinHead(s, "ring", FALSE)
    BY <2>2, <2>3, Zenon DEF Abstract!JoinHead
  <2>. QED BY <2>4, Zenon DEF Abstract!BroadcastNext
<1>4. CASE SubscribeFromOldest(s)
  <2>1. /\ subCursor' = [subCursor EXCEPT ![s] = OldestAt(cursor)]
        /\ start' = [start EXCEPT ![s] = OldestAt(cursor)]
        /\ kind'[s] # "head"
    BY <1>0, <1>4, ZenonT(30) DEF SubscribeFromOldest, Create, SubTypeOK
  <2>2. Abstract!Join(s, "ring", OldestAt(cursor))
    BY <1>0, <1>1, <1>2, <2>1, JoinMaps, Zenon
  <2>3. {u \in Subs : kind[u] = "head"}' = {u \in Subs : kind[u] = "head"}
    BY <1>1, <1>2, <2>1
  <2>4. Abstract!JoinOldest(s, "ring")
    BY <1>0, <2>2, <2>3, Heads, Zenon DEF Abstract!JoinOldest
  <2>. QED BY <2>4 DEF Abstract!BroadcastNext
<1>5. CASE LoadHead(s)
  <2>1. /\ subCursor' = [subCursor EXCEPT ![s] = NextAfter(cursor)]
        /\ start' = [start EXCEPT ![s] = NextAfter(cursor)]
        /\ kind'[s] = "head"
    BY <1>0, <1>5 DEF LoadHead, SubTypeOK
  <2>2. Abstract!Join(s, "ring", NextAfter(cursor))
    BY <1>0, <1>1, <1>2, <2>1, JoinMaps, Zenon
  <2>3. {u \in Subs : kind[u] = "head"}' = {u \in Subs : kind[u] = "head"} \cup {s}
    BY <1>1, <1>2, <2>1, Zenon
  <2>4. Abstract!JoinHead(s, "ring", TRUE)
    BY <2>2, <2>3, Zenon DEF Abstract!JoinHead
  <2>. QED BY <2>4, Zenon DEF Abstract!BroadcastNext
<1>. QED BY <1>3, <1>4, <1>5

LEMMA DropRefines ==
  ASSUME RInv, NEW s \in Subs, UNCHANGED pubVars, DropSubscriber(s)
  PROVE  Abstract!BroadcastNext
<1>0. SubTypeOK
  BY DEF RInv, IInv, SeqlockInv, TypeOK
<1>1. /\ Positioned(s) /\ ~Positioned(s)' /\ UNCHANGED cursor /\ kind'[s] = "none"
      /\ \A u \in Subs \ {s} : Positioned(u)' = Positioned(u) /\ kind'[u] = kind[u]
      /\ subCursor' = [subCursor EXCEPT ![s] = 0] /\ start' = [start EXCEPT ![s] = 0]
      /\ received' = [received EXCEPT ![s] = 0] /\ lagged' = [lagged EXCEPT ![s] = 0]
  BY <1>0 DEF DropSubscriber, SubTypeOK, Positioned
<1>2. Stamped' = Stamped /\ NextAfter(cursor)' = NextAfter(cursor)
  BY <1>1, Zenon DEF Stamped, NextAfter, pubVars
<1>3. {u \in Subs : kind[u] = "head"}' = {u \in Subs : kind[u] = "head"} \ {s}
  BY <1>1
<1>4. Abstract!Leave(s)
  BY <1>1, <1>2, <1>3, Zenon DEF Abstract!Leave
<1>. QED BY <1>4 DEF Abstract!BroadcastNext

----------------------------------------------------------------------------
(* Receiving.                                                              *)

\* A message whose slot holds it is published and at most a ring behind.
LEMMA ReadableAtRecheck ==
  ASSUME SeqlockInv, NEW n \in 0 .. MaxSeq, stamp[Slot(n)] = Done(n)
  PROVE  n < Stamped /\ Stamped - n <= Capacity
<1>0. /\ seq \in Nat /\ cursor = seq - 1 /\ n \in Nat /\ Capacity \in Nat
      /\ pubPc # "idle" => seq < MaxSeq
  BY CapacityAssumption, MaxSeqAssumption DEF SeqlockInv, TypeOK, PubInv
<1>1. n < Stamped
  BY <1>0, DoneIsWritten DEF Stamped
<1>2. ASSUME Stamped - n > Capacity PROVE FALSE
  <2> DEFINE m == n + Capacity
  <2>1. m \in Nat /\ m < Stamped /\ Slot(m) = Slot(n)
    BY <1>0, <1>2, SlotNextLap DEF Stamped
  <2>2. Done(m) > Done(n)
    BY <1>0, CapacityAssumption DEF Done
  <2>3. CASE m <= cursor
    <3>1. m \in Seqs
      BY <1>0, <2>1, <2>3, MaxSeqAssumption DEF SeqlockInv, TypeOK, Seqs
    <3>2. stamp[Slot(m)] >= Done(m)
      BY <2>3, <3>1 DEF SeqlockInv, CursorBehindSlots
    <3>. QED BY <2>1, <2>2, <3>2, <1>0 DEF Done
  <2>4. CASE m > cursor
    <3>1. m = seq /\ pubPc = "cursor"
      BY <1>0, <2>1, <2>4 DEF Stamped
    <3>2. stamp[Slot(m)] = Done(m)
      BY <3>1 DEF SeqlockInv, StampInv
    <3>. QED BY <2>1, <2>2, <3>2, <1>0 DEF Done
  <2>. QED BY <1>0, <2>1, <2>3, <2>4
<1>. QED BY <1>0, <1>1, <1>2 DEF Stamped

\* Nothing that a receive call does besides moving the cursor is visible.
LEMMA CallFrame ==
  ASSUME SubTypeOK, NEW s \in Subs, CallStep(s), UNCHANGED pubVars
  PROVE  /\ Positioned(s) /\ \A u \in Subs : Positioned(u)' = Positioned(u)
         /\ UNCHANGED <<cursor, kind>> /\ Stamped' = Stamped
         /\ NextAfter(cursor)' = NextAfter(cursor)
<1>1. Stamped' = Stamped
  BY DEF Stamped, pubVars
<1>2. /\ Positioned(s) /\ UNCHANGED <<cursor, kind>>
      /\ pc'[s] \notin {"absent", "locked"}
      /\ \A u \in Subs \ {s} : pc'[u] = pc[u]
  BY CallEffect, Zenon DEF Positioned, ringVars
<1>. QED BY <1>1, <1>2 DEF Positioned, NextAfter

LEMMA CallRefines ==
  ASSUME RInv, Promised, NEW s \in Subs, CallStep(s), UNCHANGED pubVars
  PROVE  Abstract!BroadcastNext \/ UNCHANGED Abstract!broadcastVars
<1>0. /\ SeqlockInv /\ SubTypeOK /\ subCursor[s] \in 0 .. MaxSeq
      /\ lagged \in [Subs -> Nat] /\ seq \in Nat
  BY DEF RInv, IInv, SeqlockInv, TypeOK, SubTypeOK
<1>1. /\ Positioned(s) /\ \A u \in Subs : Positioned(u)' = Positioned(u)
      /\ UNCHANGED <<cursor, kind>> /\ Stamped' = Stamped
      /\ NextAfter(cursor)' = NextAfter(cursor)
  BY <1>0, CallFrame
<1>2. CASE UNCHANGED <<subCursor, start, received, lagged>>
  BY <1>1, <1>2, Stutter
<1>3. CASE /\ stamp[Slot(subCursor[s])] = Done(subCursor[s])
           /\ subCursor' = [subCursor EXCEPT ![s] = @ + 1]
           /\ received' = [received EXCEPT ![s] = @ + 1]
           /\ UNCHANGED <<lagged, start>>
  <2>1. subCursor[s] < Stamped /\ Stamped - subCursor[s] <= Capacity
    BY <1>0, <1>3, ReadableAtRecheck
  <2>2. Abstract!Receive(s)
    BY <1>1, <1>3, <2>1, Zenon DEF Abstract!Receive
  <2>. QED BY <2>2 DEF Abstract!BroadcastNext
<1>4. CASE /\ subCursor[s] < OldestAt(cursor)
           /\ subCursor' = [subCursor EXCEPT ![s] = OldestAt(cursor)]
           /\ lagged' = [lagged EXCEPT ![s] = @ + (OldestAt(cursor) - subCursor[s])]
           /\ UNCHANGED <<received, start>>
  <2>1. Abstract!Oldest("ring") = OldestAt(cursor) /\ OldestAt(cursor) \in Nat
    BY <1>0, Heads, HeadIsSeq
  <2>2. lagged[s] + (OldestAt(cursor) - subCursor[s]) = lagged[s] + OldestAt(cursor) - subCursor[s]
    BY <1>0, <2>1
  <2>3. Abstract!Lag(s)
    BY <1>1, <1>4, <2>1, <2>2, Zenon DEF Abstract!Lag
  <2>. QED BY <2>3 DEF Abstract!BroadcastNext
<1>5. CASE /\ Latest(s) /\ cursor # Nothing
           /\ subCursor' = [subCursor EXCEPT ![s] = cursor]
           /\ start' = [start EXCEPT ![s] = Nothing]
           /\ UNCHANGED <<received, lagged>>
  <2>1. "latest" \in Calls \/ pc[s] = "latest"
    BY <1>0, <1>5, LatestEffect, Zenon
  <2>2. ~Bounded
    BY <2>1 DEF RInv, IInv, GateInv, Gate, NoLatestInv, Promised
  <2>3. kind[s] # "head"
    BY <2>2 DEF RInv, LossyInv
  <2>4. NextAfter(cursor) > 0 /\ NextAfter(cursor) - 1 = cursor
    BY <1>0, <1>5 DEF SeqlockInv, TypeOK, RingTypeOK, NextAfter, Nothing, Seqs
  <2>5. Abstract!Jump(s)
    BY <1>1, <1>5, <2>3, <2>4, Zenon DEF Abstract!Jump, Nothing
  <2>. QED BY <2>5 DEF Abstract!BroadcastNext
<1>. QED BY <1>0, <1>2, <1>3, <1>4, <1>5, CallEffect, Zenon

----------------------------------------------------------------------------
(* The theorem.                                                            *)

LEMMA InitRefines == Init => Abstract!BroadcastInit
<1> SUFFICES ASSUME Init PROVE Abstract!BroadcastInit
  OBVIOUS
<1>1. /\ Stamped = 0 /\ NextAfter(cursor) = 0
      /\ \A s \in Subs : ~Positioned(s) /\ kind[s] # "head"
  BY DEF Init, RingInit, SubInit, Stamped, NextAfter, Positioned
<1>2. {s \in Subs : kind[s] = "head"} = {}
  BY <1>1
<1>. QED BY <1>1, <1>2 DEF Init, SubInit, Abstract!BroadcastInit

LEMMA StepRefines ==
  ASSUME RInv, Promised, [Next]_vars
  PROVE  [Abstract!BroadcastNext]_(Abstract!broadcastVars)
<1>0. SubTypeOK
  BY DEF RInv, IInv, SeqlockInv, TypeOK
<1>1. CASE UNCHANGED vars
  <2>1. UNCHANGED <<cursor, kind, subCursor, start, received, lagged, pc, pubPc, seq>>
    BY <1>1 DEF vars, ringVars, subVars, pubVars
  <2>. QED BY <2>1, Stutter DEF Stamped, Positioned
<1>2. CASE PubStep
  BY <1>2, PublisherRefines
<1>3. ASSUME NEW s \in Subs, SubStep(s), UNCHANGED pubVars
      PROVE  Abstract!BroadcastNext \/ UNCHANGED Abstract!broadcastVars
  <2>1. CASE SubscribeLossy(s) \/ SubscribeTracked(s) \/ SubscribeFromOldest(s) \/ LoadHead(s)
    BY <1>3, <2>1, CreateRefines
  <2>2. CASE LockTrackers(s) \/ RegisterOldest(s) \/ PushTracker(s)
    <3>1. UNCHANGED <<cursor, kind, subCursor, start, received, lagged, pubPc, seq>>
      BY <1>3, <2>2, Zenon DEF LockTrackers, RegisterOldest, PushTracker, pubVars
    <3>2. \A u \in Subs : Positioned(u)' = Positioned(u)
      BY <1>0, <2>2, Zenon DEF LockTrackers, RegisterOldest, PushTracker, SubTypeOK, Positioned
    <3>. QED BY <3>1, <3>2, Stutter DEF Stamped
  <2>3. CASE DropSubscriber(s)
    BY <1>3, <2>3, DropRefines
  <2>4. CASE CallStep(s)
    BY <1>3, <2>4, CallRefines
  <2>. QED BY <1>3, <2>1, <2>2, <2>3, <2>4 DEF SubStep, RegisterStep
<1>. QED BY <1>1, <1>2, <1>3 DEF Next

\* A single-producer channel implements the atomic broadcast ring, whatever the
\* interleaving of the publisher's and the subscribers' accesses to the ring:
\* on a lossy ring for every client, on a bounded one as long as latest() is not
\* called (publish, read_slot, latest, register_tracker_at_head, Drop).
THEOREM Refinement == Promised /\ Spec => ImplementsBroadcast
<1>1. Promised /\ RInv /\ [Next]_vars => [Abstract!BroadcastNext]_(Abstract!broadcastVars)
  BY StepRefines
<1>2. CASE Promised
  BY <1>1, <1>2, InitRefines, RefinementInvariance, PTL
  DEF Spec, ImplementsBroadcast, Abstract!BroadcastSpec
<1>. QED BY <1>2

(***************************************************************************)
(* Part 2.  try_recv says Empty only when there is nothing to return.      *)
(***************************************************************************)

----------------------------------------------------------------------------
(* What a stamp says about the slot.                                       *)

\* A stamp names a message of its own slot: one that has been stamped, or the
\* one being written.
OwnerInv ==
  \A i \in Slots :
     \/ stamp[i] = 0
     \/ \E m \in Nat :
           /\ Slot(m) = i
           /\ \/ stamp[i] = Done(m) /\ m < Stamped
              \/ stamp[i] = Writing(m) /\ m = seq /\ pubPc = "words"

\* A slot that is newer than message n is a ring ahead of it.
LEMMA NewerIsLap ==
  ASSUME SeqlockInv, OwnerInv, NEW n \in Nat, stamp[Slot(n)] > Done(n)
  PROVE  Stamped - n >= Capacity
<1>0. seq \in Nat /\ Capacity \in Nat /\ Slot(n) \in Slots
  BY SlotInRange, CapacityAssumption, MaxSeqAssumption DEF SeqlockInv, TypeOK
<1>1. PICK m \in Nat :
         /\ Slot(m) = Slot(n)
         /\ \/ stamp[Slot(n)] = Done(m) /\ m < Stamped
            \/ stamp[Slot(n)] = Writing(m) /\ m = seq /\ pubPc = "words"
  BY <1>0 DEF OwnerInv, Done
<1>2. n < m /\ m <= Stamped
  BY <1>0, <1>1 DEF Done, Writing, Stamped
<1>3. ~(m < n + Capacity)
  BY <1>1, <1>2, SlotWithinLap
<1> QED BY <1>0, <1>2, <1>3 DEF Stamped

\* A stamp that is odd, or older than message n, means the same if n exists.
LEMMA OddIsLap ==
  ASSUME SeqlockInv, OwnerInv, NEW n \in Nat, n <= Stamped,
         Odd(stamp[Slot(n)]) \/ stamp[Slot(n)] < Done(n)
  PROVE  n = Stamped \/ Stamped - n >= Capacity
<1> SUFFICES ASSUME n < Stamped PROVE stamp[Slot(n)] > Done(n)
  <2>1. Stamped \in Nat BY DEF SeqlockInv, TypeOK, Stamped
  <2> QED BY <2>1, NewerIsLap
<1>0. /\ seq \in Nat /\ seq <= MaxSeq /\ MaxSeq \in Nat /\ cursor = seq - 1
      /\ pubPc # "idle" => seq < MaxSeq
      /\ stamp[Slot(n)] \in Nat
  BY SlotInRange, MaxSeqAssumption DEF SeqlockInv, TypeOK, RingTypeOK, PubInv
<1>1. stamp[Slot(n)] >= Done(n)
  <2>1. CASE n <= cursor
    <3>1. n \in Seqs BY <1>0, <2>1 DEF Seqs
    <3> QED BY <2>1, <3>1 DEF SeqlockInv, CursorBehindSlots
  <2>2. CASE n > cursor
    <3>1. n = seq /\ pubPc = "cursor" BY <1>0, <2>2 DEF Stamped
    <3>2. stamp[Slot(n)] = Done(n) BY <3>1 DEF SeqlockInv, StampInv
    <3> QED BY <3>2, <1>0 DEF Done
  <2> QED BY <1>0, <2>1, <2>2
<1>2. stamp[Slot(n)] # Done(n)
  BY <1>0, <1>1 DEF Odd, Done
<1> QED BY <1>0, <1>1, <1>2 DEF Done

----------------------------------------------------------------------------
(* The two invariants are preserved.                                       *)

\* The publisher only raises the stamp of the slot it writes.
LEMMA PubStamps ==
  ASSUME SeqlockInv, PubStep
  PROVE  /\ UNCHANGED subVars /\ stamp' \in [Slots -> Nat]
         /\ \A i \in Slots : stamp[i] \in Nat /\ stamp[i] <= stamp'[i]
<1>0. seq \in Nat /\ Slot(seq) \in Slots /\ stamp \in [Slots -> Nat]
  BY SlotInRange DEF SeqlockInv, TypeOK, RingTypeOK
<1>1. CASE BeginWrite
  <2>1. stamp' = [stamp EXCEPT ![Slot(seq)] = Writing(seq)] /\ UNCHANGED subVars
        /\ pubPc = "write"
    BY <1>1, Zenon DEF BeginWrite, StampWriting
  <2>2. \A i \in Slots : stamp[i] <= 2 * seq BY <2>1 DEF SeqlockInv, StampInv
  <2> QED BY <1>0, <2>1, <2>2 DEF Writing
<1>2. CASE EndWrite
  <2>1. stamp' = [stamp EXCEPT ![Slot(seq)] = Done(seq)] /\ UNCHANGED subVars
        /\ pubPc = "words"
    BY <1>2, Zenon DEF EndWrite, StampDone
  <2>2. stamp[Slot(seq)] = Writing(seq) BY <2>1 DEF SeqlockInv, StampInv
  <2> QED BY <1>0, <2>1, <2>2 DEF Writing, Done
<1>3. CASE HasRoom \/ ScanLock \/ (\E s \in Subs : ScanTracker(s)) \/ ScanDone
           \/ WriteWord \/ StoreCursor
  <2>1. UNCHANGED <<stamp, subVars>>
    BY <1>3, Zenon DEF HasRoom, ScanLock, ScanTracker, ScanDone, WriteWord, StoreWord,
       StoreCursor, ringVars
  <2> QED BY <1>0, <2>1
<1> QED BY <1>1, <1>2, <1>3, Zenon DEF PubStep

LEMMA OwnerPub ==
  ASSUME SeqlockInv, OwnerInv, PubStep
  PROVE  OwnerInv'
<1>0. seq \in Nat /\ Slot(seq) \in Slots /\ stamp \in [Slots -> Nat]
  BY SlotInRange DEF SeqlockInv, TypeOK, RingTypeOK
<1>1. CASE BeginWrite
  <2>1. /\ stamp' = [stamp EXCEPT ![Slot(seq)] = Writing(seq)] /\ UNCHANGED seq
        /\ pubPc = "write" /\ pubPc' = "words"
    BY <1>1, Zenon DEF BeginWrite, StampWriting
  <2>2. Stamped' = Stamped BY <2>1 DEF Stamped
  <2> QED BY <1>0, <2>1, <2>2, Zenon DEF OwnerInv
<1>2. CASE EndWrite
  <2>1. /\ stamp' = [stamp EXCEPT ![Slot(seq)] = Done(seq)] /\ UNCHANGED seq
        /\ pubPc = "words" /\ pubPc' = "cursor"
    BY <1>2, Zenon DEF EndWrite, StampDone
  <2>2. Stamped' = seq + 1 /\ Stamped = seq BY <2>1 DEF Stamped
  <2> QED BY <1>0, <2>1, <2>2 DEF OwnerInv
<1>3. CASE StoreCursor
  <2>1. UNCHANGED stamp /\ pubPc = "cursor" /\ pubPc' = "idle" /\ seq' = seq + 1
    BY <1>3, Zenon DEF StoreCursor
  <2>2. Stamped' = Stamped BY <2>1 DEF Stamped
  <2> QED BY <2>1, <2>2, Zenon DEF OwnerInv
<1>4. CASE WriteWord
  <2>1. UNCHANGED <<stamp, pubPc, seq>> BY <1>4, Zenon DEF WriteWord, StoreWord, pubVars
  <2> QED BY <2>1, Zenon DEF OwnerInv, Stamped
<1>5. CASE HasRoom \/ ScanLock \/ (\E s \in Subs : ScanTracker(s)) \/ ScanDone
  <2>1. /\ UNCHANGED <<stamp, seq>>
        /\ pubPc \notin {"words", "cursor"} /\ pubPc' \notin {"words", "cursor"}
    BY <1>5, Zenon DEF HasRoom, ScanLock, ScanTracker, ScanDone, ringVars
  <2>2. Stamped' = Stamped BY <2>1, Zenon DEF Stamped
  <2> QED BY <2>1, <2>2, Zenon DEF OwnerInv
<1> QED BY <1>1, <1>2, <1>3, <1>4, <1>5, Zenon DEF PubStep

LEMMA EmptyInvariance == Spec => [](IInv /\ OwnerInv /\ LagInv)
<1>1. Init => IInv /\ OwnerInv /\ LagInv
  <2> SUFFICES ASSUME Init PROVE OwnerInv /\ LagInv BY InitInv
  <2>1. OwnerInv BY Zenon DEF Init, RingInit, OwnerInv
  <2>2. LagInv BY Zenon DEF Init, SubInit, LagInv
  <2> QED BY <2>1, <2>2
<1>2. IInv /\ OwnerInv /\ LagInv /\ [Next]_vars => (IInv /\ OwnerInv /\ LagInv)'
  <2> SUFFICES ASSUME IInv, OwnerInv, LagInv, [Next]_vars PROVE OwnerInv' /\ LagInv'
    BY NextInv
  <2>0. SeqlockInv /\ SubTypeOK BY Zenon DEF IInv, SeqlockInv, TypeOK
  <2>1. CASE PubStep
    <3>1. UNCHANGED subVars /\ stamp' \in [Slots -> Nat]
      BY <2>0, <2>1, PubStamps, Zenon
    <3>2. ASSUME NEW s \in Subs, pc[s] = "lag"
          PROVE  stamp'[Slot(subCursor[s])] > Done(subCursor[s])
      <4>1. stamp[Slot(subCursor[s])] > Done(subCursor[s]) BY <3>2, Zenon DEF LagInv
      <4>2. subCursor[s] \in Nat BY <2>0, MaxSeqAssumption DEF SubTypeOK
      <4>3. Slot(subCursor[s]) \in Slots BY <4>2, SlotInRange
      <4>4. /\ stamp[Slot(subCursor[s])] \in Nat /\ stamp'[Slot(subCursor[s])] \in Nat
            /\ stamp[Slot(subCursor[s])] <= stamp'[Slot(subCursor[s])]
        BY <2>0, <2>1, <3>1, <4>3, PubStamps, Zenon
      <4> QED BY <4>1, <4>2, <4>4 DEF Done
    <3>3. LagInv' BY <3>1, <3>2, Zenon DEF LagInv, subVars
    <3> QED BY <2>0, <2>1, <3>3, OwnerPub
  <2>2. CASE \E u \in Subs : SubStep(u) /\ UNCHANGED pubVars
    <3>1. PICK u \in Subs : SubStep(u) /\ UNCHANGED pubVars BY <2>2
    <3>2. UNCHANGED <<stamp, seq, pubPc>> BY <3>1, SubFrame, Zenon DEF pubVars
    <3>3. OwnerInv' BY <3>2, Zenon DEF OwnerInv, Stamped
    <3> QED BY <2>0, <3>1, <3>3, LagSub
  <2>3. CASE UNCHANGED vars
    BY <2>3, Zenon DEF OwnerInv, LagInv, Stamped, vars, ringVars, subVars, pubVars
  <2> QED BY <2>1, <2>2, <2>3, Zenon DEF Next
<1> QED BY <1>1, <1>2, PTL DEF Spec

----------------------------------------------------------------------------
(* A call that ends with Empty.                                            *)

LEMMA EmptyStep ==
  ASSUME IInv, OwnerInv, LagInv, [Next]_vars, NEW s \in Subs,
         ret'[s] = "empty", pc'[s] \notin {"words", "lag"},
         pc[s] \in {"words", "lag"} \/ ret[s] # "empty"
  PROVE  Abstract!Unreadable(s) \/ Latest(s)
<1> DEFINE n == subCursor[s]
<1>0. /\ SeqlockInv /\ SubTypeOK /\ n \in Nat /\ n <= Stamped
      /\ seq \in Nat /\ Slot(n) \in Slots /\ stamp[Slot(n)] \in Nat
  <2>1. SeqlockInv /\ SubTypeOK /\ RingTypeOK BY Zenon DEF IInv, SeqlockInv, TypeOK
  <2>2. n \in Nat /\ seq \in Nat
    BY <2>1, MaxSeqAssumption DEF SubTypeOK, SeqlockInv, TypeOK
  <2>3. n <= Stamped BY <2>1, <2>2, Zenon DEF SeqlockInv, PositionInv, Stamped
  <2>4. Slot(n) \in Slots BY <2>2, SlotInRange, Zenon
  <2>5. stamp[Slot(n)] \in Nat BY <2>1, <2>4 DEF RingTypeOK
  <2> QED BY <2>1, <2>2, <2>3, <2>4, <2>5, Zenon
<1>1. PICK u \in Subs : SubStep(u)
  <2>1. ~UNCHANGED subVars
    BY Zenon DEF subVars
  <2>2. ~PubStep BY <1>0, <2>1, PubStamps, Zenon
  <2>3. ~UNCHANGED vars BY <2>1, Zenon DEF vars
  <2> QED BY <2>2, <2>3, Zenon DEF Next
<1>2. SUFFICES ASSUME ~Latest(s) PROVE Abstract!Unreadable(s)
  BY Zenon
<1>3. Receive(s) \/ (Recheck(s) /\ ~StampUnchanged(s)) \/ SkipLag(s)
  BY <1>0, <1>1, <1>2, WhoSaysEmpty, Zenon
<1>4. pc[s] \in {"idle", "read", "words", "lag"}
  BY <1>0, <1>3, ReceiveEffect, RecheckEffect, SkipLagEffect, Zenon
<1>5. n = Stamped \/ Stamped - n >= Capacity
  <2>1. CASE Receive(s)
    <3>1. PICK o \in Ops : LoadStamp(s, o) BY <1>0, <2>1, ReceiveEffect, Zenon
    <3>2. pc \in [Subs -> Pcs] BY <1>0, Zenon DEF SubTypeOK
    <3>3. Odd(stamp[Slot(n)]) \/ stamp[Slot(n)] < Done(n)
      BY <3>1, <3>2, Zenon DEF LoadStamp
    <3> QED BY <1>0, <3>3, OddIsLap, Zenon
  <2>2. CASE Recheck(s) /\ ~StampUnchanged(s)
    <3>1. pc[s] = "words" BY <2>2, Zenon DEF Recheck
    <3>2. stamp[Slot(n)] >= Done(n) BY <1>0, <3>1, Zenon DEF SeqlockInv, ReaderInv
    <3>3. stamp[Slot(n)] # Done(n) BY <2>2, Zenon DEF StampUnchanged
    <3>4. stamp[Slot(n)] > Done(n) BY <1>0, <3>2, <3>3 DEF Done
    <3> QED BY <1>0, <3>4, NewerIsLap, Zenon
  <2>3. CASE SkipLag(s)
    <3>1. stamp[Slot(n)] > Done(n) BY <2>3, Zenon DEF SkipLag, LagInv
    <3> QED BY <1>0, <3>1, NewerIsLap
  <2> QED BY <1>3, <2>1, <2>2, <2>3, Zenon
<1>6. Positioned(s) BY <1>4, Zenon DEF Positioned
<1> QED BY <1>5, <1>6, Zenon DEF Abstract!Unreadable

\* try_recv answers Empty only if the next message is not published or its slot is
\* being given to a later one, for every interleaving with the publisher
\* (read_slot's four ways to Empty).
THEOREM EmptyIsTrue == Spec => EmptyOnlyIfUnreadable
<1> DEFINE Said(s) ==
      /\ ret'[s] = "empty"
      /\ pc'[s] \notin {"words", "lag"}
      /\ pc[s] \in {"words", "lag"} \/ ret[s] # "empty"
<1>1. IInv /\ OwnerInv /\ LagInv /\ [Next]_vars
        => [\A s \in Subs : Said(s) => Abstract!Unreadable(s) \/ Latest(s)]_vars
  BY EmptyStep, Zenon
<1> QED BY <1>1, EmptyInvariance, PTL DEF Spec, EmptyOnlyIfUnreadable

(***************************************************************************)
(* Part 3.  A full bounded ring: whoever holds up the publisher can move.  *)
(***************************************************************************)

\* The next read_slot of the subscriber returns a message or skips some.
Ready(s) ==
  LET n == subCursor[s]
      t == stamp[Slot(n)]
  IN  t = Done(n) \/ (~Odd(t) /\ t > Done(n) /\ n <= cursor /\ n < OldestAt(cursor))

\* A tracker that leaves no room belongs to a subscriber that is about to store it
\* or has something to read: publish never waits for a subscriber that in turn
\* waits for the publisher (has_room, update_tracker, latest).
BlockersCanMove ==
  ~Publishing =>
     \A s \in trackers : Full(tracker[s]) => pc[s] = "track" \/ Ready(s)

Registering == {"absent", "locked", "push", "register"}

\* A tracker is its subscriber's position, unless the store is next or latest() has
\* jumped to a message of the past and not read it.
TrackInv ==
  \A s \in Subs :
     /\ pc[s] \in {"push", "register"} => tracker[s] = subCursor[s]
     /\ s \in trackers =>
          /\ pc[s] \notin Registering
          /\ tracker[s] # Nothing
          /\ pc[s] = "track" \/ tracker[s] = subCursor[s] \/ subCursor[s] < seq

\* Only update_tracker stores the tracker, and it is the only access at "track".
LEMMA CallTracker ==
  ASSUME NEW s \in Subs, CallStep(s)
  PROVE  (tracker' = tracker /\ pc[s] # "track") \/ StoreTracker(s)
  BY Zenon DEF CallStep, Receive, LoadStamp, Latest, LoadWord, Recheck, SkipLag

\* A call leaves the tracker at the position, or the position in the past.
LEMMA TrackCall ==
  ASSUME IInv, TrackInv, NEW s \in Subs, CallStep(s), UNCHANGED pubVars, s \in trackers
  PROVE  /\ tracker'[s] # Nothing
         /\ pc'[s] = "track" \/ tracker'[s] = subCursor'[s] \/ subCursor'[s] < seq
<1>0. /\ SubTypeOK /\ op[s] \in Ops /\ subCursor \in [Subs -> 0 .. MaxSeq] /\ Nothing \notin 0 .. MaxSeq
      /\ tracker \in [Subs -> (0 .. MaxSeq) \cup {Nothing}] /\ pc \in [Subs -> Pcs]
  BY DEF IInv, SeqlockInv, TypeOK, SubTypeOK, Nothing
<1>1. /\ tracker[s] # Nothing
      /\ pc[s] = "track" \/ tracker[s] = subCursor[s] \/ subCursor[s] < seq
  BY Zenon DEF TrackInv
<1>2. CASE tracker' = tracker /\ subCursor' = subCursor /\ pc[s] # "track"
  BY <1>1, <1>2, Zenon
<1>3. CASE Receive(s)
  <2>1. tracker' = tracker /\ subCursor' = subCursor /\ pc[s] # "track"
    BY <1>3, Zenon DEF Receive, LoadStamp
  <2>. QED BY <1>2, <2>1
<1>4. CASE Latest(s)
  <2>1. tracker' = tracker /\ pc[s] # "track"
    BY <1>4, Zenon DEF Latest
  <2>2. \/ subCursor' = subCursor
        \/ cursor # Nothing /\ subCursor' = [subCursor EXCEPT ![s] = cursor]
    BY <1>0, <1>4, LatestEffect, Zenon
  <2>3. cursor < seq
    BY DEF IInv, SeqlockInv, PubInv, TypeOK
  <2>. QED BY <1>0, <1>1, <1>2, <2>1, <2>2, <2>3, Zenon
<1>5. CASE LoadWord(s)
  BY <1>2, <1>5, Zenon DEF LoadWord
<1>6. CASE Recheck(s)
  <2>1. tracker' = tracker /\ pc[s] # "track"
    BY <1>6, Zenon DEF Recheck
  <2>2. subCursor' = subCursor \/ Finish(s, op[s], "ok")
    BY <1>6, Zenon DEF Recheck
  <2>3. ASSUME Finish(s, op[s], "ok") PROVE pc'[s] = "track"
    BY <1>0, <1>1, <2>3, Zenon DEF Finish
  <2>. QED BY <1>1, <1>2, <2>1, <2>2, <2>3, Zenon
<1>7. CASE SkipLag(s)
  <2>1. tracker' = tracker /\ pc[s] # "track"
    BY <1>7, Zenon DEF SkipLag
  <2>2. subCursor' = subCursor \/ Finish(s, op[s], "lagged")
    BY <1>7, Zenon DEF SkipLag
  <2>3. ASSUME Finish(s, op[s], "lagged") PROVE pc'[s] = "track"
    BY <1>0, <1>1, <2>3, Zenon DEF Finish
  <2>. QED BY <1>1, <1>2, <2>1, <2>2, <2>3, Zenon
<1>8. CASE StoreTracker(s)
  <2>1. tracker' = [tracker EXCEPT ![s] = subCursor[s]] /\ subCursor' = subCursor
    BY <1>8, Zenon DEF StoreTracker
  <2>. QED BY <1>0, <2>1, Zenon
<1>. QED BY <1>3, <1>4, <1>5, <1>6, <1>7, <1>8, Zenon DEF CallStep

LEMMA TrackStep ==
  ASSUME IInv, TrackInv, [Next]_vars
  PROVE  TrackInv'
<1>0. /\ SeqlockInv /\ SubTypeOK /\ subCursor \in [Subs -> 0 .. MaxSeq] /\ Nothing \notin 0 .. MaxSeq
      /\ tracker \in [Subs -> (0 .. MaxSeq) \cup {Nothing}] /\ pc \in [Subs -> Pcs]
  BY DEF IInv, SeqlockInv, TypeOK, SubTypeOK, Nothing
<1>1. CASE PubStep
  <2>1. UNCHANGED subVars /\ UNCHANGED trackers
    BY <1>0, <1>1, PubStamps, Zenon DEF PubStep, HasRoom, ScanLock, ScanTracker, ScanDone, BeginWrite,
       WriteWord, EndWrite, StoreCursor, ringVars
  <2>2. seq' = seq \/ seq' = seq + 1
    BY <1>1, Zenon DEF PubStep, HasRoom, ScanLock, ScanTracker, ScanDone, BeginWrite,
       WriteWord, EndWrite, StoreCursor, pubVars
  <2>3. \A s \in Subs : subCursor[s] < seq => subCursor[s] < seq'
    BY <1>0, <2>2 DEF SeqlockInv, TypeOK
  <2>. QED BY <2>1, <2>3, Zenon DEF subVars, TrackInv
<1>2. ASSUME NEW u \in Subs, SubStep(u), UNCHANGED pubVars PROVE TrackInv'
  <2>1. seq' = seq
    BY <1>2, Zenon DEF pubVars
  <2>2. ASSUME NEW k, NEW n, NEW t, NEW p, Create(u, k, n, t, p), UNCHANGED ringVars,
               p \in {"idle"} \/ (p = "register" /\ t = n)
        PROVE  TrackInv'
    BY <1>0, <2>1, <2>2, Zenon DEF Create, ringVars, TrackInv, Registering
  <2>3. CASE SubscribeLossy(u) \/ SubscribeTracked(u) \/ SubscribeFromOldest(u)
    BY <2>2, <2>3, Zenon DEF SubscribeLossy, SubscribeTracked, SubscribeFromOldest
  <2>4. CASE LockTrackers(u)
    BY <1>0, <2>1, <2>4, Zenon DEF LockTrackers, TrackInv, Registering
  <2>5. CASE LoadHead(u)
    <3>1. NextAfter(cursor) \in 0 .. MaxSeq
      BY HeadIsSeq, <1>0 DEF SeqlockInv, TypeOK
    <3>. QED BY <1>0, <2>1, <2>5, Zenon DEF LoadHead, ringVars, TrackInv, Registering
  <2>6. CASE RegisterOldest(u) \/ PushTracker(u)
    <3>1. UNCHANGED <<tracker, subCursor>> /\ pc' = [pc EXCEPT ![u] = "idle"]
          /\ trackers' = trackers \cup {u} /\ pc[u] \in {"push", "register"}
      BY <2>6, Zenon DEF RegisterOldest, PushTracker
    <3>2. tracker[u] = subCursor[u] /\ tracker[u] # Nothing
      BY <1>0, <3>1, Zenon DEF TrackInv
    <3>. QED BY <1>0, <2>1, <3>1, <3>2, Zenon DEF TrackInv, Registering
  <2>7. CASE DropSubscriber(u)
    BY <1>0, <2>1, <2>7, Zenon DEF DropSubscriber, WithoutTracker, TrackInv, Registering
  <2>8. CASE CallStep(u)
    <3>1. /\ pc'[u] \notin Registering /\ UNCHANGED trackers
          /\ \A s \in Subs \ {u} : pc'[s] = pc[s]
      BY <1>0, <2>8, CallEffect, Zenon DEF Registering, ringVars
    <3>2. \A s \in Subs \ {u} : subCursor'[s] = subCursor[s] /\ tracker'[s] = tracker[s]
      BY <1>0, <2>8, CallEffect, CallTracker, Zenon DEF StoreTracker
    <3>3. u \in trackers =>
            /\ tracker'[u] # Nothing
            /\ pc'[u] = "track" \/ tracker'[u] = subCursor'[u] \/ subCursor'[u] < seq
      BY <1>2, <2>8, TrackCall, Zenon
    <3>. QED BY <2>1, <3>1, <3>2, <3>3, Zenon DEF TrackInv, Registering
  <2>. QED BY <1>2, <2>3, <2>4, <2>5, <2>6, <2>7, <2>8, Zenon DEF SubStep, RegisterStep
<1>3. CASE UNCHANGED vars
  BY <1>3, Zenon DEF vars, ringVars, subVars, pubVars, TrackInv
<1>. QED BY <1>1, <1>2, <1>3, Zenon DEF Next
\* A subscriber behind the publisher is ready whenever no slot is being written.
LEMMA BehindIsReady ==
  ASSUME SeqlockInv, OwnerInv, ~Publishing, NEW s \in Subs, subCursor[s] < seq
  PROVE  Ready(s)
<1> DEFINE n == subCursor[s]
           t == stamp[Slot(n)]
<1>0. /\ n \in Nat /\ seq \in Nat /\ seq <= MaxSeq /\ cursor = seq - 1 /\ Slot(n) \in Slots
      /\ Capacity \in Nat /\ t \in Nat
  BY SlotInRange, MaxSeqAssumption, CapacityAssumption
  DEF SeqlockInv, TypeOK, RingTypeOK, SubTypeOK, PubInv, Publishing
<1>1. Stamped = seq
  BY Zenon DEF Stamped, Publishing
<1>2. n \in Seqs
  BY <1>0, MaxSeqAssumption DEF Seqs
<1>3. t >= Done(n)
  BY <1>0, <1>2 DEF SeqlockInv, CursorBehindSlots
<1>4. PICK m \in Nat : t = Done(m) /\ m < seq /\ Slot(m) = Slot(n)
  BY <1>0, <1>1, <1>3 DEF OwnerInv, Done, Publishing
<1>5. ~Odd(t)
  BY <1>4 DEF Odd, Done
<1>6. CASE t = Done(n)
  BY <1>6, Zenon DEF Ready
<1>7. CASE t > Done(n)
  <2>1. n < m
    BY <1>0, <1>4, <1>7 DEF Done
  <2>2. m >= n + Capacity
    BY <1>0, <1>4, <2>1, SlotWithinLap
  <2>3. n <= cursor /\ n < OldestAt(cursor)
    BY <1>0, <1>4, <2>2, CapacityAssumption DEF OldestAt, Nothing
  <2>. QED BY <1>5, <1>7, <2>3, Zenon DEF Ready
<1>. QED BY <1>0, <1>3, <1>6, <1>7 DEF Done

\* On a bounded ring the publisher is never held up by a subscriber that has
\* nothing to do: whoever leaves no room is about to store its tracker or has a
\* message to read, or to skip, whatever calls it makes (has_room, read_slot,
\* update_tracker, latest).
THEOREM FullRingCanMove == Spec => []BlockersCanMove
<1>1. Init => TrackInv
  BY Zenon DEF Init, SubInit, RingInit, TrackInv
<1>2. IInv /\ TrackInv /\ [Next]_vars => TrackInv'
  BY TrackStep
<1>3. IInv /\ OwnerInv /\ TrackInv => BlockersCanMove
  <2> SUFFICES ASSUME IInv, OwnerInv, TrackInv, ~Publishing,
                      NEW s \in trackers, Full(tracker[s]), pc[s] # "track"
               PROVE  Ready(s)
    BY Zenon DEF BlockersCanMove
  <2>0. SeqlockInv /\ s \in Subs /\ subCursor[s] \in Nat /\ seq \in Nat
    BY MaxSeqAssumption DEF IInv, SeqlockInv, TypeOK, RingTypeOK, SubTypeOK
  <2>1. tracker[s] = subCursor[s] \/ subCursor[s] < seq
    BY <2>0, Zenon DEF TrackInv
  <2>2. subCursor[s] < seq
    BY <2>0, <2>1, WatermarkAssumption, CapacityAssumption DEF Full, Effective
  <2>. QED BY <2>0, <2>2, BehindIsReady
<1>. QED BY <1>1, <1>2, <1>3, EmptyInvariance, PTL DEF Spec

(***************************************************************************)
(* Part 4.  The managed consumer: its thread is a client of the channel    *)
(* like any other, and with a gating subscriber a batch delivers exactly   *)
(* what pending() announced, so that draining loses nothing.               *)
(***************************************************************************)

----------------------------------------------------------------------------
(* The inductive invariant.                                                *)

ConPcs == {"none", "loop", "pending", "try", "call", "status", "drop", "end"}

ConTypeOK ==
  /\ conPc \in ConPcs
  /\ shutdown \in BOOLEAN /\ stopping \in BOOLEAN /\ flagged \in BOOLEAN
  /\ batch \in Nat /\ iter \in Nat
  /\ accepted \in Int

\* The subscriber is in a call only while the thread is in try_recv, and the
\* batch after shutdown comes after it.
ThreadInv ==
  /\ conPc = "none" => flagged
  /\ conPc \notin {"none", "call", "end"} => pc[Con] = "idle"
  /\ conPc = "call" => \/ pc[Con] = "idle"
                       \/ pc[Con] \in {"words", "lag", "track"} /\ op[Con] = "try_recv"
  /\ accepted <= cursor
  /\ stopping => shutdown
  /\ conPc = "drop" => status = outcome

\* Messages of the batch that are still to be received.
Left == batch - iter - (IF conPc = "call" /\ pc[Con] # "words" THEN 1 ELSE 0)

\* The rest of the batch is published, reaches past what shutdown found, and
\* every try_recv of it succeeds.
BatchInv ==
  conPc \in {"try", "call"} =>
     /\ iter < batch
     /\ subCursor[Con] + Left <= seq
     /\ stopping => subCursor[Con] + Left > accepted
     /\ conPc = "call" /\ pc[Con] # "words" => pc[Con] # "lag" /\ ret[Con] = "ok"

\* Between batches the last handler call was flagged; a loop that has ended has
\* passed what shutdown found.
DoneInv ==
  outcome = "completed" =>
     /\ conPc \in {"loop", "pending", "status", "drop"} => flagged
     /\ conPc \in {"status", "drop"} /\ policy = "Drain" =>
           stopping /\ subCursor[Con] > accepted

GatedInv == kind[Con] = "head" => BatchInv /\ DoneInv

ConInv == IInv /\ ConTypeOK /\ ThreadInv /\ GatedInv

----------------------------------------------------------------------------
(* What the invariant of the channel says of the consumer's subscriber.    *)

LEMMA ConNumbers ==
  ASSUME IInv, "latest" \notin Calls
  PROVE  /\ SeqlockInv /\ Gate /\ SubTypeOK
         /\ seq \in Nat /\ seq <= MaxSeq /\ cursor = seq - 1
         /\ subCursor[Con] \in Nat
<1>1. SeqlockInv /\ Gate BY DEF IInv, GateInv
<1>2. TypeOK /\ PubInv BY <1>1 DEF SeqlockInv
<1>3. SubTypeOK /\ seq \in 0 .. MaxSeq /\ cursor = seq - 1 BY <1>2 DEF TypeOK, PubInv
<1>4. subCursor[Con] \in 0 .. MaxSeq BY <1>3, ConAssumption, Zenon DEF SubTypeOK
<1> QED BY <1>1, <1>3, <1>4, MaxSeqAssumption

\* A published message that a gating subscriber wants is in its slot.
LEMMA Readable ==
  ASSUME IInv, "latest" \notin Calls, kind[Con] = "head", subCursor[Con] < seq
  PROVE  stamp[Slot(subCursor[Con])] = Done(subCursor[Con])
<1>1. subCursor[Con] \in Seqs
  BY ConNumbers, MaxSeqAssumption DEF Seqs
<1>2. subCursor[Con] <= subCursor[Con] BY ConNumbers
<1> QED BY <1>1, <1>2, ConNumbers, ConAssumption, Zenon DEF Gate, UnreadRetained

\* pending() counts, and for a gating subscriber the cap at the capacity changes
\* nothing.
LEMMA PendingIs ==
  ASSUME IInv, "latest" \notin Calls
  PROVE  /\ PendingCount \in Nat
         /\ PendingCount = 0 => subCursor[Con] > cursor
         /\ kind[Con] = "head" /\ PendingCount # 0 => subCursor[Con] + PendingCount = seq
<1> DEFINE n == subCursor[Con]
<1>1. seq \in Nat /\ cursor = seq - 1 /\ n \in Nat BY ConNumbers
<1>2. kind[Con] = "head" /\ n <= cursor => ~(n < OldestAt(cursor))
  BY ConNumbers, ConAssumption, NothingToSkip, Zenon
<1> HIDE DEF n
<1>3. OldestAt(cursor) = IF cursor < Capacity THEN 0 ELSE cursor - Capacity + 1
  BY <1>1, CapacityAssumption DEF OldestAt, Nothing
<1>4. kind[Con] = "head" /\ n <= cursor => cursor - n + 1 <= Capacity
  BY <1>1, <1>2, <1>3, CapacityAssumption
<1>5. PendingCount = IF cursor = Nothing \/ n > cursor THEN 0
                     ELSE IF cursor - n + 1 < Capacity THEN cursor - n + 1 ELSE Capacity
  BY DEF PendingCount, n
<1>6. /\ PendingCount \in Nat
      /\ PendingCount = 0 => n > cursor
      /\ kind[Con] = "head" /\ PendingCount # 0 => n + PendingCount = seq
  BY <1>1, <1>4, <1>5, CapacityAssumption DEF Nothing
<1> QED BY <1>6 DEF n

----------------------------------------------------------------------------
(* The consumer is a client of the channel: every step of it is a step of  *)
(* its subscriber, or leaves the channel alone.                            *)

LEMMA ConIsClient ==
  ASSUME ThreadInv, ConNext
  PROVE  [Next]_vars
<1>1. CASE PubStep /\ UNCHANGED conVars
  BY <1>1, Zenon DEF Next
<1>2. CASE Subscribe
  BY <1>2, ConAssumption, Zenon DEF Subscribe, Next, SubStep
<1>3. CASE TryRecv
  <2>1. CASE conPc = "try" /\ LoadStamp(Con, "try_recv") /\ UNCHANGED pubVars
             /\ "try_recv" \in Calls /\ received[Con] < MaxReceived
    <3>1. pc[Con] = "idle" BY <2>1, Zenon DEF ThreadInv
    <3>2. "try_recv" \in (Ops \ {"none", "latest"}) \cap Calls BY <2>1, OpsNamed
    <3>3. Receive(Con) BY <2>1, <3>1, <3>2, Zenon DEF Receive
    <3> QED BY <2>1, <3>3, ConAssumption, Zenon DEF Next, SubStep, CallStep
  <2>2. CASE /\ LoadWord(Con) \/ Recheck(Con) \/ SkipLag(Con) \/ StoreTracker(Con)
             /\ UNCHANGED pubVars
    BY <2>2, ConAssumption, Zenon DEF Next, SubStep, CallStep
  <2> QED BY <1>3, <2>1, <2>2, Zenon DEF TryRecv
<1>4. CASE EndThread
  BY <1>4, ConAssumption, Zenon DEF EndThread, Next, SubStep
<1>5. CASE Spawn \/ Shutdown \/ CheckShutdown \/ Pending \/ StoreStatus
  BY <1>5, Zenon DEF Spawn, Shutdown, CheckShutdown, Pending, StoreStatus
<1>6. CASE HandleMessage \/ HandlerPanics \/ HandleLag \/ HandleEmpty
  BY <1>6, Zenon DEF HandleMessage, HandlerPanics, HandleLag, HandleEmpty
<1> QED BY <1>1, <1>2, <1>3, <1>4, <1>5, <1>6, Zenon DEF ConNext, ThreadStep

\* What try_recv leaves behind when read_slot is done: it never reads again.
LEMMA TryRecvFinish ==
  ASSUME SubTypeOK, NEW r \in {"ok", "empty", "lagged"}, Finish(Con, "try_recv", r)
  PROVE  /\ pc'[Con] = "idle" \/ (pc'[Con] = "track" /\ op'[Con] = "try_recv")
         /\ ret'[Con] = r
<1>1. After("try_recv", r) = "idle"
  BY Zenon DEF After, Retries
<1> QED BY <1>1, ConAssumption, Zenon DEF Finish, SubTypeOK

\* The first stamp load of try_recv.
LEMMA TryRecvStarts ==
  ASSUME SubTypeOK, LoadStamp(Con, "try_recv")
  PROVE  /\ \/ pc'[Con] = "idle"
            \/ pc'[Con] \in {"words", "lag", "track"} /\ op'[Con] = "try_recv"
         /\ stamp[Slot(subCursor[Con])] = Done(subCursor[Con]) /\ subCursor[Con] \in Nat
              => pc'[Con] = "words"
         /\ UNCHANGED <<cursor, kind, subCursor>>
<1> DEFINE n == subCursor[Con]
           t == stamp[Slot(n)]
<1>0. UNCHANGED <<cursor, kind, subCursor>>
  BY Zenon DEF LoadStamp, ringVars
<1>1. CASE t = Done(n) /\ pc' = [pc EXCEPT ![Con] = "words"] /\ op' = [op EXCEPT ![Con] = "try_recv"]
  BY <1>0, <1>1, ConAssumption, Zenon DEF SubTypeOK
<1>2. CASE (Odd(t) \/ t < Done(n)) /\ Finish(Con, "try_recv", "empty")
  <2>1. ~(t = Done(n) /\ n \in Nat) BY <1>2 DEF Odd, Done
  <2> QED BY <1>0, <1>2, <2>1, TryRecvFinish, Zenon
<1>3. CASE ~Odd(t) /\ t > Done(n) /\ pc' = [pc EXCEPT ![Con] = "lag"] /\ op' = [op EXCEPT ![Con] = "try_recv"]
  <2>1. ~(t = Done(n) /\ n \in Nat) BY <1>3 DEF Done
  <2> QED BY <1>0, <1>3, <2>1, ConAssumption, Zenon DEF SubTypeOK
<1> QED BY <1>1, <1>2, <1>3, Zenon DEF LoadStamp

\* The rest of a try_recv: a valid copy is returned, or the subscriber skips.
LEMMA TryRecvGoesOn ==
  ASSUME SubTypeOK, op[Con] = "try_recv",
         LoadWord(Con) \/ Recheck(Con) \/ SkipLag(Con) \/ StoreTracker(Con)
  PROVE  /\ UNCHANGED <<cursor, kind>>
         /\ pc[Con] \in {"words", "lag", "track"}
         /\ \/ pc'[Con] = "idle"
            \/ pc'[Con] \in {"words", "track"} /\ op'[Con] = "try_recv"
         /\ \/ pc[Con] = "words" /\ pc'[Con] = "words" /\ UNCHANGED subCursor
            \/ /\ pc[Con] = "words" /\ pc'[Con] # "words" /\ ret'[Con] = "ok"
               /\ subCursor'[Con] = subCursor[Con] + 1
            \/ /\ pc[Con] = "words"
               /\ stamp[Slot(subCursor[Con])] # Done(subCursor[Con])
            \/ pc[Con] = "lag"
            \/ pc[Con] = "track" /\ pc'[Con] = "idle" /\ UNCHANGED <<subCursor, ret>>
<1>0. Con \in Subs /\ subCursor \in [Subs -> 0 .. MaxSeq] /\ pc \in [Subs -> Pcs] /\ op \in [Subs -> Ops]
  BY ConAssumption, Zenon DEF SubTypeOK
<1>1. CASE LoadWord(Con)
  BY <1>0, <1>1, Zenon DEF LoadWord, ringVars
<1>2. CASE Recheck(Con)
  <2>1. CASE StampUnchanged(Con) /\ Finish(Con, "try_recv", "ok")
             /\ subCursor' = [subCursor EXCEPT ![Con] = @ + 1]
    <3>1. subCursor'[Con] = subCursor[Con] + 1 BY <1>0, <2>1
    <3> QED BY <1>0, <1>2, <2>1, <3>1, TryRecvFinish, Zenon DEF Recheck, ringVars
  <2>2. CASE ~StampUnchanged(Con) /\ Finish(Con, "try_recv", "empty")
    BY <1>0, <1>2, <2>2, TryRecvFinish, Zenon DEF Recheck, ringVars, StampUnchanged
  <2> QED BY <1>2, <2>1, <2>2, Zenon DEF Recheck
<1>3. CASE SkipLag(Con)
  <2>1. Finish(Con, "try_recv", "lagged") \/ Finish(Con, "try_recv", "empty")
    BY <1>3, Zenon DEF SkipLag
  <2> QED BY <1>0, <1>3, <2>1, TryRecvFinish, Zenon DEF SkipLag, ringVars
<1>4. CASE StoreTracker(Con)
  <2>1. After("try_recv", ret[Con]) = "idle" BY DEF After, Retries
  <2> QED BY <1>0, <1>4, <2>1, Zenon DEF StoreTracker, ringVars
<1> QED BY <1>1, <1>2, <1>3, <1>4, Zenon

----------------------------------------------------------------------------
(* The invariant is preserved.                                             *)

\* Publishing only adds messages.
LEMMA PubGrows ==
  ASSUME IInv, "latest" \notin Calls, PubStep
  PROVE  /\ seq' \in Nat /\ seq <= seq'
         /\ cursor' \in Int /\ cursor <= cursor'
         /\ UNCHANGED subVars
<1>1. seq \in Nat /\ cursor = seq - 1 BY ConNumbers
<1>2. CASE StoreCursor
  BY <1>1, <1>2 DEF StoreCursor
<1>3. CASE HasRoom \/ ScanLock \/ (\E s \in Subs : ScanTracker(s)) \/ ScanDone
  <2>1. UNCHANGED <<seq, cursor, subVars>>
    BY <1>3, Zenon DEF HasRoom, ScanLock, ScanTracker, ScanDone, ringVars
  <2> QED BY <1>1, <2>1
<1>4. CASE BeginWrite \/ WriteWord \/ EndWrite
  <2>1. UNCHANGED <<seq, cursor, subVars>>
    BY <1>4, Zenon DEF BeginWrite, WriteWord, EndWrite, pubVars
  <2> QED BY <1>1, <2>1
<1> QED BY <1>2, <1>3, <1>4, Zenon DEF PubStep

LEMMA ConTypeStep ==
  ASSUME IInv, "latest" \notin Calls, ConTypeOK, ConNext
  PROVE  ConTypeOK'
<1> USE DEF ConTypeOK, ConPcs
<1>1. CASE UNCHANGED conVars
  BY <1>1, Zenon DEF conVars
<1>2. CASE Spawn \/ CheckShutdown \/ StoreStatus \/ EndThread
  BY <1>2, Zenon DEF Spawn, CheckShutdown, StoreStatus, EndThread
<1>3. CASE Shutdown
  <2>1. cursor \in Int BY ConNumbers
  <2> QED BY <1>3, <2>1, Zenon DEF Shutdown
<1>4. CASE Pending
  <2>1. PendingCount \in Nat /\ 0 \in Nat BY PendingIs
  <2> QED BY <1>4, <2>1, Zenon DEF Pending, AfterBatch
<1>5. CASE TryRecv
  BY <1>5, Zenon DEF TryRecv, conVars
<1>6. CASE HandleMessage \/ HandleLag
  <2>1. iter + 1 \in Nat OBVIOUS
  <2>2. EndOfBatch(iter) \in BOOLEAN BY DEF EndOfBatch
  <2> QED BY <1>6, <2>1, <2>2, Zenon DEF HandleMessage, HandleLag, NextIteration, AfterBatch
<1>7. CASE HandlerPanics \/ HandleEmpty
  BY <1>7, Zenon DEF HandlerPanics, HandleEmpty, AfterBatch
<1> QED BY <1>1, <1>2, <1>3, <1>4, <1>5, <1>6, <1>7, Zenon DEF ConNext, Subscribe, ThreadStep

LEMMA ConThreadStep ==
  ASSUME IInv, "latest" \notin Calls, ConTypeOK, ThreadInv, ConNext
  PROVE  ThreadInv'
<1>0. cursor \in Int /\ cursor <= cursor /\ SubTypeOK
  BY ConNumbers
<1>1. CASE PubStep /\ UNCHANGED conVars
  <2>1. accepted <= cursor'
    <3>1. cursor' \in Int /\ cursor <= cursor' BY <1>1, PubGrows
    <3>2. accepted \in Int /\ accepted <= cursor BY DEF ThreadInv, ConTypeOK
    <3> QED BY <1>0, <3>1, <3>2
  <2>2. UNCHANGED <<pc, op>> BY <1>1, PubGrows, Zenon DEF subVars
  <2> QED BY <1>1, <2>1, <2>2, Zenon DEF ThreadInv, conVars
<1>2. CASE Subscribe
  <2>1. SubStep(Con) BY <1>2, Zenon DEF Subscribe, SubStep
  <2>2. UNCHANGED cursor BY <2>1, SubFrame, ConAssumption
  <2> QED BY <1>2, <2>2, Zenon DEF Subscribe, ThreadInv, conVars
<1>a. UNCHANGED vars => UNCHANGED <<pc, op, cursor>>
  BY Zenon DEF vars, subVars, ringVars
<1>3. CASE Spawn \/ CheckShutdown \/ StoreStatus
  <2>1. CASE Spawn BY <1>a, <2>1, Zenon DEF ThreadInv, Spawn
  <2>2. CASE CheckShutdown
    <3>1. conPc' \in {"status", "pending"} BY <2>2, Zenon DEF CheckShutdown
    <3> QED BY <1>a, <2>2, <3>1, Zenon DEF ThreadInv, CheckShutdown
  <2>3. CASE StoreStatus BY <1>a, <2>3, Zenon DEF ThreadInv, StoreStatus
  <2> QED BY <1>3, <2>1, <2>2, <2>3
<1>4. CASE Shutdown
  BY <1>0, <1>a, <1>4, Zenon DEF ThreadInv, Shutdown
<1>5. CASE Pending
  BY <1>a, <1>5, Zenon DEF ThreadInv, Pending, AfterBatch
<1>6. CASE HandleMessage \/ HandlerPanics \/ HandleLag \/ HandleEmpty
  <2>1. /\ UNCHANGED <<vars, shutdown, stopping, accepted>>
        /\ pc[Con] = "idle" /\ conPc' \in {"status", "loop", "try"}
    BY <1>6, Zenon DEF HandleMessage, HandlerPanics, HandleLag, HandleEmpty,
       Returned, NextIteration, AfterBatch
  <2> QED BY <1>a, <2>1, Zenon DEF ThreadInv
<1>7. CASE TryRecv
  <2>1. CASE conPc = "try" /\ LoadStamp(Con, "try_recv") /\ conPc' = "call"
             /\ UNCHANGED <<shutdown, stopping, accepted>>
    BY <1>0, <2>1, TryRecvStarts, Zenon DEF ThreadInv
  <2>2. CASE /\ conPc = "call" /\ UNCHANGED conVars
             /\ LoadWord(Con) \/ Recheck(Con) \/ SkipLag(Con) \/ StoreTracker(Con)
    <3>1. pc[Con] # "idle"
      BY <2>2, Zenon DEF LoadWord, Recheck, SkipLag, StoreTracker
    <3>2. op[Con] = "try_recv" BY <2>2, <3>1, Zenon DEF ThreadInv
    <3> QED BY <1>0, <2>2, <3>2, TryRecvGoesOn, Zenon DEF ThreadInv, conVars
  <2> QED BY <1>7, <2>1, <2>2, Zenon DEF TryRecv
<1>8. CASE EndThread
  BY <1>8, Zenon DEF EndThread, DropSubscriber, ThreadInv
<1> QED BY <1>1, <1>2, <1>3, <1>4, <1>5, <1>6, <1>7, <1>8, Zenon DEF ConNext, ThreadStep

\* A try_recv of a batch, with a gating subscriber: it succeeds.
LEMMA GatedTryRecv ==
  ASSUME IInv, "latest" \notin Calls, ConTypeOK, ThreadInv, kind[Con] = "head",
         BatchInv, TryRecv
  PROVE  /\ conPc \in {"try", "call"} /\ conPc' = "call"
         /\ UNCHANGED <<outcome, policy, batch, iter, stopping, accepted, seq>>
         /\ \/ /\ subCursor'[Con] = subCursor[Con] /\ pc'[Con] = "words"
               /\ conPc = "try" \/ pc[Con] = "words"
            \/ /\ subCursor'[Con] = subCursor[Con] + 1 /\ conPc = "call"
               /\ pc[Con] = "words" /\ pc'[Con] \in {"idle", "track"} /\ ret'[Con] = "ok"
            \/ /\ subCursor'[Con] = subCursor[Con] /\ conPc = "call"
               /\ pc[Con] = "track" /\ pc'[Con] = "idle" /\ ret'[Con] = "ok"
<1>0. SubTypeOK /\ subCursor[Con] \in Nat /\ seq \in Nat
  BY ConNumbers
<1>1. CASE conPc = "try" /\ LoadStamp(Con, "try_recv") /\ conPc' = "call"
           /\ UNCHANGED <<pubVars, outcome, policy, batch, iter, stopping, accepted>>
  <2>1. subCursor[Con] < seq
    BY <1>0, <1>1 DEF BatchInv, Left, ConTypeOK
  <2>2. pc'[Con] = "words" /\ UNCHANGED subCursor
    BY <1>0, <1>1, <2>1, Readable, TryRecvStarts, Zenon
  <2> QED BY <1>1, <2>2, Zenon DEF pubVars
<1>2. CASE /\ conPc = "call" /\ UNCHANGED <<pubVars, conVars>>
           /\ LoadWord(Con) \/ Recheck(Con) \/ SkipLag(Con) \/ StoreTracker(Con)
  <2>1. pc[Con] # "idle"
    BY <1>2, Zenon DEF LoadWord, Recheck, SkipLag, StoreTracker
  <2>2. op[Con] = "try_recv" /\ pc[Con] # "lag"
    BY <1>2, <2>1, Zenon DEF ThreadInv, BatchInv
  <2>3. pc[Con] = "words" => subCursor[Con] < seq
    BY <1>0, <1>2 DEF BatchInv, Left, ConTypeOK
  <2>4. pc[Con] = "words" => stamp[Slot(subCursor[Con])] = Done(subCursor[Con])
    BY <2>3, Readable, Zenon
  <2>5. pc[Con] = "track" => ret[Con] = "ok"
    BY <1>2, Zenon DEF BatchInv
  <2>6. pc'[Con] \in {"idle", "words", "track"}
    BY <1>0, <1>2, <2>2, TryRecvGoesOn, Zenon
  <2>7. \/ pc[Con] = "words" /\ pc'[Con] = "words" /\ UNCHANGED subCursor
        \/ /\ pc[Con] = "words" /\ pc'[Con] # "words" /\ ret'[Con] = "ok"
           /\ subCursor'[Con] = subCursor[Con] + 1
        \/ pc[Con] = "track" /\ pc'[Con] = "idle" /\ UNCHANGED <<subCursor, ret>>
    BY <1>0, <1>2, <2>2, <2>4, TryRecvGoesOn, Zenon
  <2> QED BY <1>2, <2>5, <2>6, <2>7, Zenon DEF pubVars, conVars
<1> QED BY <1>1, <1>2, Zenon DEF TryRecv

LEMMA ConGatedStep ==
  ASSUME IInv, "latest" \notin Calls, ConTypeOK, ThreadInv, GatedInv, ConNext
  PROVE  GatedInv'
<1> SUFFICES ASSUME kind'[Con] = "head" PROVE BatchInv' /\ DoneInv'
  BY DEF GatedInv
<1>0. /\ SubTypeOK /\ subCursor[Con] \in Nat /\ seq \in Nat /\ cursor = seq - 1
      /\ batch \in Nat /\ iter \in Nat /\ accepted \in Int
  BY ConNumbers DEF ConTypeOK
<1>a. UNCHANGED vars => UNCHANGED <<pc, op, ret, kind, subCursor, cursor, seq>>
  BY Zenon DEF vars, subVars, ringVars, pubVars
<1>1. CASE PubStep /\ UNCHANGED conVars
  <2>1. seq' \in Nat /\ seq <= seq' /\ UNCHANGED <<pc, ret, kind, subCursor>>
    BY <1>1, PubGrows DEF subVars
  <2>2. BatchInv /\ DoneInv BY <2>1, Zenon DEF GatedInv
  <2>3. UNCHANGED <<Left, conPc, iter, batch, stopping, accepted, outcome, policy, flagged>>
    BY <1>1, <2>1, Zenon DEF conVars, Left
  <2>4. Left \in Int BY <1>0 DEF Left
  <2>5. subCursor[Con] + Left <= seq => subCursor[Con] + Left <= seq'
    BY <1>0, <2>1, <2>4
  <2> QED BY <2>1, <2>2, <2>3, <2>5, Zenon DEF BatchInv, DoneInv
<1>2. CASE Subscribe
  BY <1>2, Zenon DEF Subscribe, BatchInv, DoneInv, conVars
<1>3. CASE Spawn
  <2>1. conPc' = "loop" /\ flagged' BY <1>3, Zenon DEF Spawn, ThreadInv
  <2> QED BY <2>1, Zenon DEF BatchInv, DoneInv
<1>4. CASE Shutdown
  <2>1. BatchInv /\ DoneInv BY <1>a, <1>4, Zenon DEF Shutdown, GatedInv
  <2>2. ~stopping BY <1>4, Zenon DEF Shutdown, ThreadInv
  <2>3. /\ UNCHANGED <<Left, pc, ret, subCursor, seq>>
        /\ UNCHANGED <<conPc, iter, batch, stopping, outcome, policy, flagged>>
    BY <1>a, <1>4, Zenon DEF Shutdown, Left
  <2> QED BY <2>1, <2>2, <2>3, Zenon DEF BatchInv, DoneInv
<1>5. CASE CheckShutdown
  <2>1. DoneInv BY <1>a, <1>5, Zenon DEF CheckShutdown, GatedInv
  <2>2. /\ UNCHANGED <<outcome, policy, flagged>> /\ conPc = "loop"
        /\ conPc' = "pending" \/ (conPc' = "status" /\ policy = "Immediate")
    BY <1>5, Zenon DEF CheckShutdown
  <2> QED BY <2>1, <2>2, Zenon DEF BatchInv, DoneInv
<1>6. CASE Pending
  <2>1. /\ UNCHANGED <<kind, subCursor, seq, cursor, accepted, stopping>>
        /\ batch' = PendingCount /\ iter' = 0 /\ flagged' = TRUE
        /\ conPc' = IF PendingCount = 0 THEN AfterBatch ELSE "try"
    BY <1>a, <1>6, Zenon DEF Pending
  <2>2. accepted <= cursor BY DEF ThreadInv
  <2>3. CASE PendingCount = 0
    <3>1. subCursor[Con] > accepted BY <1>0, <2>2, <2>3, PendingIs
    <3>2. conPc' \in {"loop", "status"} /\ (conPc' = "status" => stopping)
      BY <2>1, <2>3, Zenon DEF AfterBatch
    <3> QED BY <2>1, <3>1, <3>2, Zenon DEF BatchInv, DoneInv
  <2>4. CASE PendingCount # 0
    <3>1. conPc' = "try" BY <2>1, <2>4
    <3>2. PendingCount \in Nat /\ subCursor[Con] + PendingCount = seq
      BY <2>1, <2>4, PendingIs, Zenon
    <3>3. Left' = PendingCount BY <2>1, <3>1, <3>2 DEF Left
    <3>4. /\ iter' < batch' /\ subCursor'[Con] + Left' <= seq'
          /\ subCursor'[Con] + Left' > accepted'
      BY <1>0, <2>1, <2>2, <2>4, <3>2, <3>3
    <3> QED BY <3>1, <3>4, Zenon DEF BatchInv, DoneInv
  <2> QED BY <2>3, <2>4
<1>7. CASE TryRecv
  <2>1. kind[Con] = "head"
    <3>1. CASE conPc = "try" /\ LoadStamp(Con, "try_recv")
      BY <1>0, <3>1, TryRecvStarts, Zenon
    <3>2. CASE LoadWord(Con) \/ Recheck(Con) \/ SkipLag(Con) \/ StoreTracker(Con)
      BY <3>2, Zenon DEF LoadWord, Recheck, SkipLag, StoreTracker
    <3> QED BY <1>7, <3>1, <3>2, Zenon DEF TryRecv
  <2>2. BatchInv BY <2>1 DEF GatedInv
  <2>3. /\ conPc \in {"try", "call"} /\ conPc' = "call"
        /\ UNCHANGED <<outcome, policy, batch, iter, stopping, accepted, seq>>
    BY <1>7, <2>1, <2>2, GatedTryRecv, Zenon
  <2>4. /\ iter < batch /\ subCursor[Con] + Left <= seq
        /\ stopping => subCursor[Con] + Left > accepted
    BY <2>2, <2>3, Zenon DEF BatchInv
  <2>5. Left \in Int /\ Left' \in Int
        /\ subCursor'[Con] + Left' = subCursor[Con] + Left
    BY <1>0, <1>7, <2>1, <2>2, <2>3, GatedTryRecv, SMTT(15) DEF Left
  <2>6. pc'[Con] # "words" => pc'[Con] # "lag" /\ ret'[Con] = "ok"
    BY <1>7, <2>1, <2>2, GatedTryRecv, Zenon
  <2> QED BY <2>3, <2>4, <2>5, <2>6, Zenon DEF BatchInv, DoneInv
<1>8. CASE HandleMessage \/ HandleLag \/ HandleEmpty
  <2>1. /\ UNCHANGED <<vars, stopping, batch, accepted>>
        /\ conPc = "call" /\ pc[Con] = "idle"
    BY <1>8, Zenon DEF HandleMessage, HandleLag, HandleEmpty, Returned
  <2>2. kind[Con] = "head" BY <1>a, <2>1, Zenon
  <2>3. /\ iter < batch /\ subCursor[Con] + Left <= seq
        /\ stopping => subCursor[Con] + Left > accepted
        /\ ret[Con] = "ok"
    BY <2>1, <2>2, Zenon DEF GatedInv, BatchInv
  <2>4. Left = batch - iter - 1 BY <2>1 DEF Left
  <2>5. /\ flagged' = (iter + 1 = batch) /\ iter' = iter + 1
        /\ conPc' = IF iter + 1 = batch THEN AfterBatch ELSE "try"
    BY <1>8, <2>3, Zenon DEF HandleMessage, HandleLag, HandleEmpty, NextIteration, EndOfBatch
  <2>6. UNCHANGED <<subCursor, seq>> BY <1>a, <2>1, Zenon
  <2>7. CASE iter + 1 = batch
    <3>1. stopping => subCursor[Con] > accepted BY <1>0, <2>3, <2>4, <2>7
    <3>2. flagged' /\ conPc' \in {"loop", "status"} /\ (conPc' = "status" => stopping)
      BY <2>5, <2>7, Zenon DEF AfterBatch
    <3> QED BY <2>1, <2>6, <3>1, <3>2, Zenon DEF BatchInv, DoneInv
  <2>8. CASE iter + 1 # batch
    <3>1. conPc' = "try" BY <2>5, <2>8
    <3>a. Left' = batch' - iter' - 0 BY <3>1, Zenon DEF Left
    <3>b. batch' = batch /\ iter' = iter + 1 /\ iter < batch BY <2>1, <2>3, <2>5, Zenon
    <3>2. Left' = Left /\ iter' < batch' BY <1>0, <2>4, <2>8, <3>a, <3>b
    <3> QED BY <2>1, <2>3, <2>6, <3>1, <3>2, Zenon DEF BatchInv, DoneInv
  <2> QED BY <2>7, <2>8
<1>9. CASE HandlerPanics \/ StoreStatus \/ EndThread
  <2>1. CASE HandlerPanics BY <2>1, Zenon DEF HandlerPanics, BatchInv, DoneInv
  <2>2. CASE StoreStatus
    <3>1. /\ UNCHANGED <<outcome, policy, flagged, stopping, accepted, subCursor>>
          /\ conPc = "status" /\ conPc' = "drop" /\ kind[Con] = "head"
      BY <1>a, <2>2, Zenon DEF StoreStatus
    <3> QED BY <3>1, Zenon DEF GatedInv, BatchInv, DoneInv
  <2>3. CASE EndThread BY <2>3, Zenon DEF EndThread, BatchInv, DoneInv
  <2> QED BY <1>9, <2>1, <2>2, <2>3
<1> QED
  BY <1>1, <1>2, <1>3, <1>4, <1>5, <1>6, <1>7, <1>8, <1>9, Zenon DEF ConNext, ThreadStep

----------------------------------------------------------------------------
(* The theorems.                                                           *)

\* The invariant holds throughout, for every capacity, drain policy and number of
\* messages; that the channel's own invariant is part of it means that the
\* consumer's thread uses its subscriber the way any client may.
THEOREM ConsumerInvariance ==
  ASSUME "latest" \notin Calls
  PROVE  ConSpec => []ConInv
<1>1. ConInit => ConInv
  <2> SUFFICES ASSUME ConInit PROVE ConInv OBVIOUS
  <2>1. IInv BY InitInv DEF ConInit
  <2>a. 0 \in Nat /\ Nothing \in Int BY DEF Nothing
  <2>2. ConTypeOK BY <2>a, Zenon DEF ConInit, ConTypeOK, ConPcs
  <2>3. ThreadInv BY DEF ConInit, ThreadInv, Init, RingInit, Nothing
  <2>4. GatedInv BY Zenon DEF ConInit, GatedInv, BatchInv, DoneInv
  <2> QED BY <2>1, <2>2, <2>3, <2>4 DEF ConInv
<1>2. ConInv /\ [ConNext]_allVars => ConInv'
  <2> SUFFICES ASSUME ConInv, [ConNext]_allVars PROVE ConInv' OBVIOUS
  <2>1. CASE ConNext
    <3>1. IInv' BY <2>1, ConIsClient, NextInv DEF ConInv
    <3> QED BY <2>1, <3>1, ConTypeStep, ConThreadStep, ConGatedStep DEF ConInv
  <2>2. CASE UNCHANGED allVars
    <3>1. IInv' BY <2>2, NextInv DEF ConInv, allVars
    <3>2. UNCHANGED <<pc, op, ret, kind, subCursor, cursor, seq, conVars>>
      BY <2>2, Zenon DEF allVars, vars, subVars, ringVars, pubVars
    <3>3. UNCHANGED <<ConTypeOK, ThreadInv, GatedInv>>
      BY <3>2, Zenon DEF ConTypeOK, ThreadInv, GatedInv, BatchInv, DoneInv, Left, conVars
    <3> QED BY <3>1, <3>3 DEF ConInv
  <2> QED BY <2>1, <2>2
<1> QED BY <1>1, <1>2, PTL DEF ConSpec

\* The consumer with its publisher is an instance of the channel: whatever is proved
\* of every client of a ring holds of the thread (Consumer::spawn, drain_batch).
THEOREM ConsumerIsClient ==
  ASSUME "latest" \notin Calls
  PROVE  ConSpec => Spec
<1>1. ConInit => Init
  BY Zenon DEF ConInit
<1>2. ConInv /\ [ConNext]_allVars => [Next]_vars
  BY ConIsClient, Zenon DEF ConInv, allVars
<1> QED BY <1>1, <1>2, ConsumerInvariance, PTL DEF ConSpec, Spec

\* A gated consumer that drains and stops without a panic has handled everything
\* published before shutdown was requested (Consumer::spawn's last drain_batch).
THEOREM DrainComplete ==
  ASSUME "latest" \notin Calls
  PROVE  ConSpec => []DrainLosesNothing
<1>1. ConInv => DrainLosesNothing
  BY Zenon DEF ConInv, ThreadInv, GatedInv, DoneInv, DrainLosesNothing
<1> QED BY <1>1, ConsumerInvariance, PTL

\* The last message of every batch of a gated consumer carries end_of_batch
\* (drain_batch: pending() is exactly what try_recv then delivers).
THEOREM BatchEnds ==
  ASSUME "latest" \notin Calls
  PROVE  ConSpec => []BatchEndIsFlagged
<1>1. ConInv => BatchEndIsFlagged
  BY Zenon DEF ConInv, GatedInv, DoneInv, BatchEndIsFlagged
<1> QED BY <1>1, ConsumerInvariance, PTL

\* The trackers of the consumer's ring stay exact as well: the one of a consumer
\* whose handler panicked goes with its thread (catch_unwind, then Drop).
THEOREM ConsumerTrackersLive ==
  ASSUME "latest" \notin Calls
  PROVE  ConSpec => []TrackersAreLive
<1>1. ConInv => TrackersAreLive
  BY Zenon DEF ConInv, IInv, GateInv, Gate, TrackerInv
<1> QED BY <1>1, ConsumerInvariance, PTL
=============================================================================
