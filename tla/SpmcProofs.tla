------------------------------ MODULE SpmcProofs ------------------------------
(***************************************************************************)
(* The single-producer channel, for every capacity, payload width,         *)
(* watermark, set of subscribers and set of calls, and for any number of   *)
(* messages, in two parts: the inductive invariant with the publisher's    *)
(* steps, and the subscribers' steps with what follows.                    *)
(***************************************************************************)
EXTENDS SpmcChannel, SubscriberProofs

(***************************************************************************)
(* Part 1.  The inductive invariant of SpmcChannel, in two pieces: the     *)
(* seqlock of every ring and the gate of a bounded one.  The publisher     *)
(* preserves it.                                                           *)
(***************************************************************************)

----------------------------------------------------------------------------
(* The seqlock: what the slots hold, and what a reader may conclude from   *)
(* an unchanged stamp.                                                     *)

\* Where the publisher is, relative to the bound and to the ring cursor.
PubInv ==
  /\ pubPc # "idle" => seq < MaxSeq
  /\ cursor = seq - 1

\* No slot is ahead of the publisher, and the one it writes says so.
StampInv ==
  /\ \A i \in Slots : \/ stamp[i] <= 2 * seq
                      \/ i = Slot(seq) /\ pubPc \in {"words", "cursor"}
  /\ pubPc = "words" => stamp[Slot(seq)] = Writing(seq)
  /\ pubPc = "cursor" => stamp[Slot(seq)] = Done(seq)

\* No subscriber is past the messages that are done.
PositionInv ==
  \A s \in Subs : subCursor[s] <= IF pubPc = "cursor" THEN seq + 1 ELSE seq

SeqlockInv ==
  /\ TypeOK
  /\ PubInv
  /\ StampInv
  /\ ContentInv
  /\ ReaderInv
  /\ PositionInv
  /\ FreshInv
  /\ NoTornRead
  /\ CursorBehindSlots

----------------------------------------------------------------------------
(* The gate of a bounded ring.                                             *)

\* The lock excludes the publisher's scan from a registration in progress.
LockInv ==
  /\ pubPc = "scan" => lock = "publisher"
  /\ \A s \in Subs : pc[s] \in {"locked", "push"} => lock = s /\ Bounded

\* Where latest() is not called, no call is a latest().
NoLatestInv == \A s \in Subs : op[s] # "latest" /\ pc[s] # "latest"

\* A registered tracker is a number that lags the subscriber's own cursor.
TrackerInv ==
  /\ TrackersAreLive
  /\ \A s \in Subs :
        kind[s] \in {"head", "oldest"} =>
           /\ Bounded
           /\ tracker[s] \in Nat
           /\ tracker[s] <= subCursor[s]

\* The minimum of a scan bounds the trackers it has read.
ScanInv ==
  pubPc = "scan" =>
     /\ scanTodo \subseteq trackers
     /\ scanMin <= seq
     /\ \A s \in trackers \ scanTodo : scanMin # Nothing /\ scanMin <= tracker[s]

\* The cached minimum bounds every tracker registered at the head, although
\* it was computed before some of them existed.
CacheInv ==
  /\ cachedSlowest <= seq
  /\ \A s \in Subs : kind[s] = "head" => cachedSlowest <= tracker[s]

\* Once the publisher has found room, no such tracker is a ring behind.
RoomInv ==
  Publishing => \A s \in Subs : kind[s] = "head" => seq < tracker[s] + Effective

Gate ==
  /\ NoLatestInv
  /\ LockInv
  /\ TrackerInv
  /\ ScanInv
  /\ CacheInv
  /\ RoomInv
  /\ UnreadRetained
  /\ GatedNeverLags

GateInv == "latest" \notin Calls => Gate

IInv == SeqlockInv /\ EveryMessageAccounted /\ GateInv

----------------------------------------------------------------------------
(* What the invariant says of done slots and of the head.                  *)

\* A message whose slot is done is within the bound and has been written.
LEMMA DoneIsWritten ==
  ASSUME SeqlockInv, NEW n \in Nat, stamp[Slot(n)] = Done(n)
  PROVE  n \in Seqs /\ n + 1 <= IF pubPc = "cursor" THEN seq + 1 ELSE seq
<1>1. stamp[Slot(n)] <= 2 * seq \/ (Slot(n) = Slot(seq) /\ pubPc \in {"words", "cursor"})
  BY SlotInRange DEF SeqlockInv, StampInv
<1>. QED BY <1>1, MaxSeqAssumption
  DEF SeqlockInv, TypeOK, PubInv, StampInv, Seqs, Done, Writing

\* A new subscriber starts where the publisher is, or behind.
LEMMA HeadIsSeq ==
  ASSUME SeqlockInv
  PROVE  /\ NextAfter(cursor) = seq
         /\ OldestAt(cursor) \in 0 .. seq
  BY CapacityAssumption DEF SeqlockInv, TypeOK, PubInv, NextAfter, OldestAt,
     Nothing

----------------------------------------------------------------------------
(* Type correctness.  The bounds of seq and of a subscriber's cursor are   *)
(* those of the seqlock: a cursor moves over messages that were written.   *)

LEMMA TypePub ==
  ASSUME SeqlockInv, PubStep
  PROVE  TypeOK'
<1> USE MaxSeqAssumption DEF SeqlockInv, TypeOK, PubPcs, pubVars
<1>0. Slot(seq) \in Slots
  BY SlotInRange
<1>1. CASE HasRoom
  BY <1>1 DEF HasRoom, ringVars, subVars, RingTypeOK, SubTypeOK
<1>2. CASE ScanLock
  BY <1>2 DEF ScanLock, subVars, RingTypeOK, SubTypeOK
<1>3. ASSUME NEW s \in Subs, ScanTracker(s) PROVE TypeOK'
  BY <1>3 DEF ScanTracker, ringVars, subVars, RingTypeOK, SubTypeOK
<1>4. CASE ScanDone
  BY <1>4 DEF ScanDone, subVars, RingTypeOK, SubTypeOK
<1>5. CASE BeginWrite
  BY <1>0, <1>5 DEF BeginWrite, StampWriting, Writing, subVars, RingTypeOK, SubTypeOK
<1>6. CASE WriteWord
  <2>1. seq \in Seqs
    BY <1>6 DEF WriteWord, PubInv, Seqs
  <2>. QED BY <1>0, <1>6, <2>1 DEF WriteWord, StoreWord, subVars, RingTypeOK, SubTypeOK
<1>7. CASE EndWrite
  BY <1>0, <1>7 DEF EndWrite, StampDone, Done, subVars, RingTypeOK, SubTypeOK
<1>8. CASE StoreCursor
  BY <1>8 DEF StoreCursor, subVars, RingTypeOK, SubTypeOK, PubInv, Seqs
<1>. QED BY <1>1, <1>2, <1>3, <1>4, <1>5, <1>6, <1>7, <1>8 DEF PubStep

----------------------------------------------------------------------------
(* The publisher preserves the seqlock invariant.                          *)

\* has_room and the tracker scan leave the ring alone.
LEMMA SeqlockQuiet ==
  ASSUME SeqlockInv, UNCHANGED <<stamp, value, cursor, subVars, seq>>, TypeOK',
         pubPc \in {"idle", "lock", "scan"}, pubPc' \in {"idle", "lock", "scan", "write"},
         seq < MaxSeq
  PROVE  SeqlockInv'
  BY DEF SeqlockInv, PubInv, StampInv, ContentInv, ReaderInv, PositionInv, FreshInv,
     NoTornRead, CursorBehindSlots, subVars

LEMMA SeqlockPub ==
  ASSUME SeqlockInv, PubStep
  PROVE  SeqlockInv'
<1>0. TypeOK /\ TypeOK' /\ Slot(seq) \in Slots /\ seq \in Nat /\ MaxSeq \in Nat
  BY TypePub, SlotInRange, MaxSeqAssumption DEF SeqlockInv, TypeOK
<1>1. CASE HasRoom
  BY <1>0, <1>1, SeqlockQuiet DEF HasRoom, ringVars
<1>2. CASE ScanLock
  BY <1>0, <1>2, SeqlockQuiet DEF ScanLock, SeqlockInv, PubInv
<1>3. ASSUME NEW s \in Subs, ScanTracker(s) PROVE SeqlockInv'
  BY <1>0, <1>3, SeqlockQuiet DEF ScanTracker, ringVars, SeqlockInv, PubInv
<1>4. CASE ScanDone
  BY <1>0, <1>4, SeqlockQuiet DEF ScanDone, SeqlockInv, PubInv
<1>5. CASE BeginWrite
  <2> USE <1>0, <1>5 DEF SeqlockInv, BeginWrite
  <2>1. stamp' = [stamp EXCEPT ![Slot(seq)] = seq * 2 + 1]
    BY DEF StampWriting, Writing
  <2>2. UNCHANGED <<value, cursor, seq, subVars>>
    BY DEF StampWriting
  <2>3. \A i \in Slots : stamp[i] <= 2 * seq
    BY DEF StampInv
  <2>4. PubInv'
    BY <2>2 DEF PubInv
  <2>5. StampInv'
    BY <2>1, <2>2, <2>3 DEF StampInv, Writing, TypeOK, RingTypeOK
  <2>6. ContentInv'
    <3> SUFFICES ASSUME NEW i \in Slots, NEW n \in Seqs, stamp'[i] = Done(n)
                 PROVE  stamp[i] = Done(n)
      BY <2>2, Zenon DEF ContentInv
    <3>1. n \in Int /\ seq * 2 + 1 # n * 2 + 2
      BY DEF Seqs
    <3>2. i # Slot(seq)
      BY <2>1, <3>1, Zenon DEF Done, TypeOK, RingTypeOK
    <3>. QED BY <2>1, <3>2 DEF TypeOK, RingTypeOK
  <2>7. ReaderInv'
    <3> SUFFICES ASSUME NEW s \in Subs, pc'[s] = "words"
                 PROVE  /\ stamp'[Slot(subCursor[s])] >= Done(subCursor[s])
                        /\ stamp'[Slot(subCursor[s])] = Done(subCursor[s]) =>
                              \A w \in Words : buf[s][w] \in {Nothing, subCursor[s]}
      BY <2>2 DEF ReaderInv, subVars
    <3>1. subCursor[s] \in Nat /\ Slot(subCursor[s]) \in Slots
      BY SlotInRange DEF TypeOK, SubTypeOK
    <3>2. CASE Slot(subCursor[s]) = Slot(seq)
      BY <2>1, <2>2, <2>3, <3>1, <3>2 DEF ReaderInv, Done, TypeOK, RingTypeOK, subVars
    <3>3. CASE Slot(subCursor[s]) # Slot(seq)
      BY <2>1, <2>2, <3>1, <3>3, Zenon DEF ReaderInv, TypeOK, RingTypeOK, subVars
    <3>. QED BY <3>2, <3>3
  <2>8. PositionInv' /\ FreshInv' /\ NoTornRead'
    BY <2>2 DEF PositionInv, FreshInv, NoTornRead, subVars
  <2>9. CursorBehindSlots'
    <3> SUFFICES ASSUME NEW m \in Seqs, m <= cursor PROVE stamp'[Slot(m)] >= Done(m)
      BY <2>2 DEF CursorBehindSlots
    <3>. QED BY <2>1, SlotInRange DEF CursorBehindSlots, PubInv, Done, Seqs, TypeOK, RingTypeOK
  <2>. QED BY <2>4, <2>5, <2>6, <2>7, <2>8, <2>9
<1>6. CASE WriteWord
  <2> USE <1>0, <1>6 DEF SeqlockInv, WriteWord
  <2>1. UNCHANGED <<stamp, cursor, pubPc, seq, subVars>>
    BY DEF StoreWord, pubVars
  <2>2. PICK w \in Words : value' = [value EXCEPT ![Slot(seq)][w] = seq]
    BY Zenon DEF StoreWord
  <2>3. ContentInv'
    <3> SUFFICES ASSUME NEW i \in Slots, NEW n \in Seqs, stamp[i] = Done(n)
                 PROVE  value'[i] = value[i]
      BY <2>1 DEF ContentInv
    <3>1. i # Slot(seq)
      BY DEF StampInv, Writing, Done, Seqs
    <3>. QED BY <2>2, <3>1 DEF TypeOK, RingTypeOK
  <2>. QED BY <2>1, <2>3, Zenon DEF PubInv, StampInv, ReaderInv, PositionInv, FreshInv,
       NoTornRead, CursorBehindSlots, subVars
<1>7. CASE EndWrite
  <2> USE <1>0, <1>7 DEF SeqlockInv, EndWrite
  <2>1. stamp' = [stamp EXCEPT ![Slot(seq)] = seq * 2 + 2]
    BY DEF StampDone, Done
  <2>2. UNCHANGED <<value, cursor, seq, subVars>>
    BY DEF StampDone
  <2>3. stamp[Slot(seq)] = 2 * seq + 1
    BY DEF StampInv, Writing
  <2>4. PubInv'
    BY <2>2 DEF PubInv
  <2>5. StampInv'
    BY <2>1, <2>2 DEF StampInv, Done, TypeOK, RingTypeOK
  <2>6. ContentInv'
    <3> SUFFICES ASSUME NEW i \in Slots, NEW n \in Seqs, stamp'[i] = Done(n),
                        NEW w \in Words
                 PROVE  value[i][w] = n
      BY <2>2 DEF ContentInv
    <3>1. CASE i = Slot(seq)
      BY <2>1, <3>1 DEF StampDone, Done, Seqs, TypeOK, RingTypeOK
    <3>2. CASE i # Slot(seq)
      BY <2>1, <3>2 DEF ContentInv, TypeOK, RingTypeOK
    <3>. QED BY <3>1, <3>2
  <2>7. ReaderInv'
    <3> SUFFICES ASSUME NEW s \in Subs, pc'[s] = "words"
                 PROVE  /\ stamp'[Slot(subCursor[s])] >= Done(subCursor[s])
                        /\ stamp'[Slot(subCursor[s])] = Done(subCursor[s]) =>
                              \A w \in Words : buf[s][w] \in {Nothing, subCursor[s]}
      BY <2>2, Zenon DEF ReaderInv, subVars
    <3>1. subCursor[s] \in Nat /\ Slot(subCursor[s]) \in Slots
      BY SlotInRange DEF TypeOK, SubTypeOK
    <3>2. CASE Slot(subCursor[s]) = Slot(seq)
      BY <2>1, <2>2, <2>3, <3>1, <3>2 DEF ReaderInv, Done, TypeOK, RingTypeOK, subVars
    <3>3. CASE Slot(subCursor[s]) # Slot(seq)
      BY <2>1, <2>2, <3>1, <3>3, Zenon DEF ReaderInv, TypeOK, RingTypeOK, subVars
    <3>. QED BY <3>2, <3>3, Zenon
  <2>8. PositionInv' /\ FreshInv' /\ NoTornRead'
    BY <2>2 DEF PositionInv, FreshInv, NoTornRead, subVars, TypeOK, SubTypeOK
  <2>9. CursorBehindSlots'
    <3> SUFFICES ASSUME NEW m \in Seqs, m <= cursor PROVE stamp'[Slot(m)] >= Done(m)
      BY <2>2, Zenon DEF CursorBehindSlots
    <3>. QED BY <2>1, SlotInRange DEF CursorBehindSlots, PubInv, Done, Seqs, TypeOK, RingTypeOK
  <2>. QED BY <2>4, <2>5, <2>6, <2>7, <2>8, <2>9
<1>8. CASE StoreCursor
  <2> USE <1>0, <1>8 DEF SeqlockInv, StoreCursor
  <2>1. PubInv'
    BY DEF PubInv
  <2>2. StampInv'
    BY DEF StampInv, Done, TypeOK, RingTypeOK
  <2>3. ContentInv' /\ ReaderInv' /\ FreshInv' /\ NoTornRead'
    BY Zenon DEF ContentInv, ReaderInv, FreshInv, NoTornRead, subVars
  <2>4. PositionInv'
    BY DEF PositionInv, subVars
  <2>5. CursorBehindSlots'
    <3> SUFFICES ASSUME NEW m \in Seqs, m <= seq PROVE stamp[Slot(m)] >= Done(m)
      BY DEF CursorBehindSlots
    <3>1. CASE m = seq
      BY <3>1 DEF StampInv, Done
    <3>2. CASE m # seq
      BY <3>2 DEF CursorBehindSlots, PubInv, Seqs
    <3>. QED BY <3>1, <3>2
  <2>. QED BY <2>1, <2>2, <2>3, <2>4, <2>5
<1>. QED BY <1>1, <1>2, <1>3, <1>4, <1>5, <1>6, <1>7, <1>8 DEF PubStep

----------------------------------------------------------------------------
(* The publisher preserves the gate invariant.                             *)

\* What the publisher does not write, and the numbers it compares.
LEMMA GatePubFrame ==
  ASSUME TypeOK, Gate, UNCHANGED <<trackers, subVars>>
  PROVE  NoLatestInv' /\ TrackerInv' /\ GatedNeverLags'
  BY DEF Gate, subVars, NoLatestInv, TrackerInv, TrackersAreLive, GatedNeverLags

\* The numbers the gate compares.
LEMMA GateNumbers ==
  ASSUME TypeOK
  PROVE  /\ seq \in Nat /\ cachedSlowest \in Nat /\ MaxSeq \in Nat
         /\ scanMin \in Nat \/ scanMin = Nothing
         /\ Capacity \in Nat /\ Effective \in 1 .. Capacity
         /\ \A s \in Subs : /\ subCursor[s] \in Nat
                            /\ tracker[s] \in Nat \/ tracker[s] = Nothing
  BY CapacityAssumption, WatermarkAssumption, MaxSeqAssumption
  DEF TypeOK, SubTypeOK, Effective

\* A slot that a subscriber made by subscribe() has still to read is not the
\* one the publisher writes.
LEMMA WriteSparesUnread ==
  ASSUME SeqlockInv, Gate, Publishing, NEW s \in Subs, kind[s] = "head",
         NEW m \in Seqs, subCursor[s] <= m, m < seq
  PROVE  Slot(m) # Slot(seq)
<1>1. seq < tracker[s] + Effective /\ tracker[s] <= subCursor[s]
  BY DEF Gate, RoomInv, TrackerInv
<1>2. m \in Nat /\ m < seq /\ seq < m + Capacity
  BY <1>1, GateNumbers DEF Seqs, SeqlockInv, Gate, TrackerInv
<1>. QED BY <1>2, GateNumbers, SlotWithinLap DEF SeqlockInv

LEMMA GatePub ==
  ASSUME SeqlockInv, Gate, "latest" \notin Calls, PubStep
  PROVE  Gate'
<1>0. /\ seq \in Nat /\ cachedSlowest \in Nat
      /\ scanMin \in Nat \/ scanMin = Nothing
      /\ Effective \in 1 .. Capacity /\ Capacity \in Nat
      /\ \A s \in Subs : tracker[s] \in Nat \/ tracker[s] = Nothing
      /\ TypeOK
  BY GateNumbers DEF SeqlockInv
<1>1. CASE HasRoom
  <2>1. UNCHANGED <<stamp, value, cursor, trackers, lock, seq, cachedSlowest>>
        /\ UNCHANGED <<scanTodo, scanMin, subVars>>
        /\ pubPc = "idle" /\ pubPc' \in {"lock", "write"}
    BY <1>1 DEF HasRoom, ringVars
  <2>2. NoLatestInv' /\ TrackerInv' /\ GatedNeverLags'
    BY <1>0, <2>1, GatePubFrame
  <2>3. LockInv' /\ ScanInv' /\ CacheInv' /\ UnreadRetained'
    BY <2>1 DEF Gate, LockInv, ScanInv, CacheInv, UnreadRetained, subVars
  <2>4. RoomInv'
    <3> SUFFICES ASSUME Publishing', NEW s \in Subs, kind[s] = "head"
                 PROVE  seq < tracker[s] + Effective
      BY <2>1, Zenon DEF RoomInv, subVars
    <3>1. Bounded /\ cachedSlowest <= tracker[s] /\ tracker[s] \in Nat
      BY DEF Gate, TrackerInv, CacheInv
    <3>2. ~Full(cachedSlowest)
      BY <1>1, <3>1 DEF HasRoom, Publishing
    <3>. QED BY <1>0, <3>1, <3>2 DEF Full
  <2>. QED BY <2>2, <2>3, <2>4 DEF Gate
<1>2. CASE ScanLock
  <2>1. UNCHANGED <<stamp, value, cursor, trackers, seq, cachedSlowest, subVars>>
        /\ lock = "free" /\ lock' = "publisher" /\ pubPc' = "scan"
        /\ scanTodo' = trackers /\ scanMin' = Nothing
    BY <1>2 DEF ScanLock
  <2>2. NoLatestInv' /\ TrackerInv' /\ GatedNeverLags'
    BY <1>0, <2>1, GatePubFrame
  <2>3. LockInv'
    BY <2>1, SubsAssumption DEF Gate, LockInv, subVars
  <2>4. ScanInv'
    BY <1>0, <2>1 DEF ScanInv, Nothing
  <2>5. CacheInv' /\ UnreadRetained' /\ RoomInv'
    BY <2>1 DEF Gate, CacheInv, UnreadRetained, RoomInv, Publishing, subVars
  <2>. QED BY <2>2, <2>3, <2>4, <2>5 DEF Gate
<1>3. ASSUME NEW s \in Subs, ScanTracker(s) PROVE Gate'
  <2>1. UNCHANGED <<stamp, value, cursor, trackers, lock, pubPc, seq, cachedSlowest>>
        /\ UNCHANGED subVars /\ pubPc = "scan" /\ s \in scanTodo
        /\ scanTodo' = scanTodo \ {s}
        /\ scanMin' = IF scanMin = Nothing \/ tracker[s] < scanMin
                      THEN tracker[s] ELSE scanMin
    BY <1>3 DEF ScanTracker, ringVars
  <2>2. NoLatestInv' /\ TrackerInv' /\ GatedNeverLags'
    BY <1>0, <2>1, GatePubFrame
  <2>3. tracker[s] \in Nat /\ tracker[s] <= seq
    BY <1>0, <2>1, GateNumbers
    DEF Gate, ScanInv, TrackerInv, TrackersAreLive, SeqlockInv, PositionInv
  <2>4. ScanInv'
    <3>1. scanMin' \in Nat /\ scanMin' <= tracker[s] /\ scanMin' <= seq
          /\ (scanMin \in Nat => scanMin' <= scanMin)
      BY <1>0, <2>1, <2>3 DEF Gate, ScanInv, Nothing
    <3>2. ASSUME NEW u \in trackers \ scanTodo', u # s
          PROVE  scanMin' <= tracker[u]
      <4>1. u \in Subs /\ scanMin # Nothing /\ scanMin <= tracker[u]
        BY <1>0, <2>1, <3>2 DEF Gate, ScanInv, TypeOK, RingTypeOK
      <4>. QED BY <1>0, <3>1, <4>1 DEF Gate, TrackerInv, TrackersAreLive
    <3>. QED BY <2>1, <3>1, <3>2 DEF Gate, ScanInv, Nothing, subVars
  <2>5. LockInv' /\ CacheInv' /\ UnreadRetained' /\ RoomInv'
    BY <2>1, Zenon DEF Gate, LockInv, CacheInv, UnreadRetained, RoomInv, Publishing, subVars
  <2>. QED BY <2>2, <2>4, <2>5 DEF Gate
<1>4. CASE ScanDone
  <2>1. UNCHANGED <<stamp, value, cursor, trackers, subVars, seq>>
        /\ pubPc = "scan" /\ scanTodo = {} /\ lock' = "free"
        /\ pubPc' \in {"idle", "write"}
    BY <1>4 DEF ScanDone
  <2>2. NoLatestInv' /\ TrackerInv' /\ GatedNeverLags'
    BY <1>0, <2>1, GatePubFrame
  <2>3. LockInv'
    BY <2>1, SubsAssumption DEF Gate, LockInv, subVars
  <2>4. \A s \in Subs : kind[s] = "head" => s \in trackers
    <3> SUFFICES ASSUME NEW s \in Subs, kind[s] = "head" PROVE s \in trackers
      OBVIOUS
    <3>1. pc[s] \notin {"absent", "push", "register"}
      BY <2>1, SubsAssumption DEF SeqlockInv, FreshInv, Gate, LockInv
    <3>. QED BY <3>1 DEF Gate, TrackerInv, TrackersAreLive
  <2>5. \A s \in Subs : kind[s] = "head" =>
           scanMin # Nothing /\ scanMin <= tracker[s] /\ tracker[s] \in Nat
    BY <2>1, <2>4 DEF Gate, ScanInv, TrackerInv
  <2>6. CacheInv'
    BY <1>0, <1>4, <2>1, <2>5 DEF ScanDone, Gate, CacheInv, ScanInv, subVars
  <2>7. RoomInv'
    <3> SUFFICES ASSUME Publishing', NEW s \in Subs, kind[s] = "head"
                 PROVE  seq < tracker[s] + Effective
      BY <2>1 DEF RoomInv, subVars
    <3>1. ~Full(scanMin)
      BY <1>4, <2>5 DEF ScanDone, Publishing
    <3>. QED BY <1>0, <2>5, <3>1 DEF Full
  <2>8. ScanInv' /\ UnreadRetained'
    BY <2>1, Zenon DEF Gate, ScanInv, UnreadRetained, subVars
  <2>. QED BY <2>2, <2>3, <2>6, <2>7, <2>8 DEF Gate
<1>5. ASSUME \/ BeginWrite /\ Publishing
             \/ EndWrite /\ Publishing
      PROVE  Gate'
  <2>1. /\ UNCHANGED <<trackers, lock, subVars, seq, cachedSlowest>>
        /\ pubPc' \in {"words", "cursor"}
        /\ \E t \in Nat : stamp' = [stamp EXCEPT ![Slot(seq)] = t]
    BY <1>0, <1>5 DEF BeginWrite, EndWrite, StampWriting, StampDone, Writing, Done
  <2>2. NoLatestInv' /\ TrackerInv' /\ GatedNeverLags'
    BY <1>0, <2>1, GatePubFrame
  <2>3. LockInv' /\ ScanInv' /\ CacheInv' /\ RoomInv'
    BY <1>5, <2>1, Zenon DEF Gate, LockInv, ScanInv, CacheInv, RoomInv, Publishing, subVars
  <2>4. UnreadRetained'
    <3> SUFFICES ASSUME NEW s \in Subs, NEW m \in Seqs, kind[s] = "head",
                        subCursor[s] <= m, m < seq
                 PROVE  stamp'[Slot(m)] = Done(m)
      BY <2>1, Zenon DEF UnreadRetained, subVars
    <3>1. Slot(m) # Slot(seq) /\ m \in Nat
      BY <1>5, WriteSparesUnread DEF Seqs
    <3>2. stamp[Slot(m)] = Done(m)
      BY DEF Gate, UnreadRetained
    <3>. QED BY <1>0, <2>1, <3>1, <3>2, SlotInRange DEF TypeOK, RingTypeOK
  <2>. QED BY <2>2, <2>3, <2>4 DEF Gate
<1>6. CASE WriteWord
  <2>1. UNCHANGED <<stamp, cursor, trackers, lock, subVars, pubVars>>
    BY <1>6 DEF WriteWord, StoreWord
  <2>2. NoLatestInv' /\ TrackerInv' /\ GatedNeverLags'
    BY <1>0, <2>1, GatePubFrame
  <2>. QED BY <2>1, <2>2, Zenon DEF Gate, LockInv, ScanInv, CacheInv, RoomInv, UnreadRetained,
       Publishing, subVars, pubVars
<1>7. CASE StoreCursor
  <2>1. /\ UNCHANGED <<stamp, trackers, lock, subVars, cachedSlowest>>
        /\ pubPc = "cursor" /\ pubPc' = "idle" /\ seq' = seq + 1
    BY <1>7 DEF StoreCursor
  <2>2. NoLatestInv' /\ TrackerInv' /\ GatedNeverLags'
    BY <1>0, <2>1, GatePubFrame
  <2>3. LockInv' /\ ScanInv' /\ CacheInv' /\ RoomInv'
    BY <1>0, <2>1 DEF Gate, LockInv, ScanInv, CacheInv, RoomInv, Publishing, subVars
  <2>4. UnreadRetained'
    <3> SUFFICES ASSUME NEW s \in Subs, NEW m \in Seqs, kind[s] = "head",
                        subCursor[s] <= m, m < seq + 1
                 PROVE  stamp[Slot(m)] = Done(m)
      BY <2>1, Zenon DEF UnreadRetained, subVars
    <3>1. CASE m = seq
      BY <2>1, <3>1 DEF SeqlockInv, StampInv
    <3>2. CASE m # seq
      BY <1>0, <3>2 DEF Gate, UnreadRetained, Seqs
    <3>. QED BY <3>1, <3>2
  <2>. QED BY <2>2, <2>3, <2>4 DEF Gate
<1>8. BeginWrite \/ EndWrite => Publishing
  BY DEF BeginWrite, EndWrite, Publishing
<1>. QED BY <1>1, <1>2, <1>3, <1>4, <1>5, <1>6, <1>7, <1>8 DEF PubStep

(***************************************************************************)
(* Part 2.  The subscribers preserve it, and what follows.                 *)
(***************************************************************************)

----------------------------------------------------------------------------
(* The subscribers preserve the seqlock.                                   *)

LEMMA TypeSub ==
  ASSUME SeqlockInv, NEW s \in Subs, SubStep(s), UNCHANGED pubVars
  PROVE  TypeOK'
<1>1. StampUnchanged(s) => subCursor[s] \in Seqs
  BY DoneIsWritten DEF SeqlockInv, TypeOK, SubTypeOK, StampUnchanged
<1>2. RingTypeOK' /\ SubTypeOK'
  BY <1>1, SubType DEF SeqlockInv, TypeOK
<1>. QED BY <1>2 DEF SeqlockInv, TypeOK, pubVars

\* A subscriber moves to the head, behind it, or past a message that is done.
LEMMA PositionSub ==
  ASSUME SeqlockInv, NEW s \in Subs, SubStep(s), UNCHANGED pubVars
  PROVE  PositionInv'
<1> DEFINE bound == IF pubPc = "cursor" THEN seq + 1 ELSE seq
<1>0. /\ SubTypeOK /\ UNCHANGED <<seq, pubPc>>
      /\ seq \in Nat /\ cursor = seq - 1 /\ bound \in Nat /\ seq <= bound
      /\ NextAfter(cursor) = seq /\ OldestAt(cursor) \in 0 .. seq
      /\ \A u \in Subs : subCursor[u] \in Nat /\ subCursor[u] <= bound
  BY HeadIsSeq DEF SeqlockInv, TypeOK, SubTypeOK, PubInv, PositionInv, pubVars
<1>1. subCursor \in [Subs -> 0 .. MaxSeq]
  BY DEF SeqlockInv, TypeOK, SubTypeOK
<1>2. CASE \E n \in {0, cursor, NextAfter(cursor), OldestAt(cursor)} :
              n # Nothing /\ subCursor' = [subCursor EXCEPT ![s] = n]
  BY <1>0, <1>1, <1>2 DEF PositionInv, Nothing
<1>3. CASE /\ StampUnchanged(s)
           /\ subCursor' = [subCursor EXCEPT ![s] = @ + 1]
  <2>1. subCursor[s] + 1 <= bound
    BY <1>0, <1>3, DoneIsWritten DEF StampUnchanged
  <2>. QED BY <1>0, <1>1, <1>3, <2>1 DEF PositionInv
<1>4. CASE UNCHANGED subCursor
  BY <1>0, <1>4 DEF PositionInv
<1>5. CASE \/ SubscribeLossy(s) \/ SubscribeTracked(s) \/ SubscribeFromOldest(s)
           \/ LoadHead(s) \/ DropSubscriber(s)
  <2>1. OldestAt(cursor) # Nothing /\ NextAfter(cursor) # Nothing /\ 0 # Nothing
    BY <1>0 DEF Nothing
  <2>. QED BY <1>2, <1>5, <2>1, Zenon DEF SubscribeLossy, SubscribeTracked, SubscribeFromOldest,
       LoadHead, DropSubscriber, Create
<1>6. CASE Latest(s) \/ Recheck(s)
  BY <1>0, <1>2, <1>3, <1>4, <1>6, Zenon DEF Latest, Recheck
<1>7. CASE SkipLag(s)
  <2>1. OldestAt(cursor) # Nothing
    BY <1>0 DEF Nothing
  <2>. QED BY <1>2, <1>4, <1>7, <2>1, Zenon DEF SkipLag
<1>8. CASE \/ LockTrackers(s) \/ RegisterOldest(s) \/ PushTracker(s)
           \/ Receive(s) \/ LoadWord(s) \/ StoreTracker(s)
  BY <1>4, <1>8, Zenon DEF LockTrackers, RegisterOldest, PushTracker, Receive, LoadStamp,
     LoadWord, StoreTracker
<1>. QED BY <1>5, <1>6, <1>7, <1>8 DEF SubStep, RegisterStep, CallStep

\* The rest is out of the subscribers' reach, or holds on every channel.
LEMMA SeqlockSub ==
  ASSUME SeqlockInv, NEW s \in Subs, SubStep(s), UNCHANGED pubVars
  PROVE  SeqlockInv'
<1>1. TypeOK' /\ PositionInv'
  BY TypeSub, PositionSub
<1>2. PubInv' /\ StampInv' /\ ContentInv' /\ CursorBehindSlots'
  BY SubFrame DEF SeqlockInv, pubVars, PubInv, StampInv, ContentInv, CursorBehindSlots
<1>3. StampUnchanged(s) => subCursor[s] \in Seqs
  BY DoneIsWritten DEF SeqlockInv, TypeOK, SubTypeOK, StampUnchanged
<1>4. ReaderInv' /\ FreshInv' /\ NoTornRead'
  BY <1>1, <1>3, SubReads DEF SeqlockInv, TypeOK
<1>. QED BY <1>1, <1>2, <1>4 DEF SeqlockInv

----------------------------------------------------------------------------
(* The subscribers preserve the gate invariant.                            *)

\* A call only moves its subscriber forward, and the tracker follows the cursor.
CallPcs == {"idle", "latest", "read", "words", "lag", "track"}

Forward(s) ==
  /\ pc'[s] = pc[s] \/ (pc'[s] \in CallPcs /\ pc[s] \in CallPcs)
  /\ op'[s] # "latest" /\ pc'[s] # "latest"
  /\ subCursor[s] <= subCursor'[s]
  /\ kind[s] \in {"head", "oldest"} =>
        tracker'[s] \in Nat /\ tracker[s] <= tracker'[s] /\ tracker'[s] <= subCursor'[s]
  /\ kind[s] = "head" => lagged'[s] = 0

LEMMA GateForward ==
  ASSUME SeqlockInv, Gate, "latest" \notin Calls,
         UNCHANGED <<ringVars, pubVars, kind, start>>, \A s \in Subs : Forward(s),
         TypeOK'
  PROVE  Gate'
<1> USE DEF Gate, ringVars, pubVars
<1>0. /\ seq \in Nat /\ cachedSlowest \in Nat
      /\ scanMin \in Nat \/ scanMin = Nothing
      /\ Effective \in 1 .. Capacity /\ Capacity \in Nat
      /\ \A s \in Subs : subCursor[s] \in Nat /\ subCursor'[s] \in Nat
  BY GateNumbers DEF SeqlockInv, TypeOK, SubTypeOK
<1>1. NoLatestInv' /\ LockInv'
  BY DEF Forward, NoLatestInv, LockInv, CallPcs
<1>2. TrackerInv'
  <2>1. TrackersAreLive'
    BY DEF TrackerInv, TrackersAreLive, Forward, CallPcs
  <2>. QED BY <2>1 DEF TrackerInv, Forward
<1>3. ScanInv'
  <2> SUFFICES ASSUME pubPc = "scan", NEW s \in trackers \ scanTodo
               PROVE  scanMin # Nothing /\ scanMin <= tracker'[s]
    BY DEF ScanInv
  <2>1. s \in Subs /\ kind[s] \in {"head", "oldest"}
    BY DEF TrackerInv, TrackersAreLive
  <2>2. tracker[s] \in Nat /\ tracker'[s] \in Nat /\ tracker[s] <= tracker'[s]
    BY <2>1 DEF TrackerInv, Forward
  <2>3. scanMin # Nothing /\ scanMin <= tracker[s]
    BY DEF ScanInv
  <2>. QED BY <1>0, <2>2, <2>3
<1>4. ASSUME NEW s \in Subs, kind[s] = "head"
      PROVE  tracker[s] \in Nat /\ tracker'[s] \in Nat /\ tracker[s] <= tracker'[s]
  BY <1>4 DEF TrackerInv, Forward
<1>5. CacheInv'
  BY <1>0, <1>4 DEF CacheInv
<1>6. RoomInv'
  BY <1>0, <1>4 DEF RoomInv, Publishing
<1>7. UnreadRetained'
  BY <1>0 DEF UnreadRetained, Forward, Seqs
<1>8. GatedNeverLags'
  BY DEF GatedNeverLags, Forward
<1>. QED BY <1>1, <1>2, <1>3, <1>5, <1>6, <1>7, <1>8

\* A subscriber made by subscribe() has nothing to skip: the message it wants
\* would have to be both intact and overwritten.
LEMMA NothingToSkip ==
  ASSUME SeqlockInv, Gate, "latest" \notin Calls, NEW s \in Subs, kind[s] = "head",
         subCursor[s] <= cursor, subCursor[s] < OldestAt(cursor)
  PROVE  FALSE
<1> DEFINE n == subCursor[s]
           m == n + Capacity
<1>1. /\ n \in Seqs /\ n \in Nat /\ n < seq
      /\ m \in Seqs /\ m \in Nat /\ m <= cursor
  BY GateNumbers, CapacityAssumption
  DEF SeqlockInv, TypeOK, RingTypeOK, PubInv, OldestAt, Seqs, Nothing
<1>2. stamp[Slot(n)] = Done(n)
  BY <1>1 DEF Gate, UnreadRetained
<1>3. stamp[Slot(m)] >= Done(m)
  BY <1>1 DEF SeqlockInv, CursorBehindSlots
<1>4. Slot(m) = Slot(n)
  BY <1>1, SlotNextLap
<1> HIDE DEF n
<1>. QED BY <1>1, <1>2, <1>3, <1>4, CapacityAssumption DEF Done

LEMMA GateCall ==
  ASSUME SeqlockInv, Gate, "latest" \notin Calls, NEW s \in Subs, CallStep(s),
         UNCHANGED pubVars, TypeOK'
  PROVE  Gate'
<1>0. /\ TypeOK /\ SubTypeOK /\ SubTypeOK'
      /\ \A u \in Subs :
            /\ subCursor[u] \in Nat /\ received[u] \in Nat /\ lagged[u] \in Nat
            /\ tracker[u] \in Nat \/ tracker[u] = Nothing
            /\ op[u] # "latest" /\ pc[u] # "latest"
            /\ kind[u] \in {"head", "oldest"} =>
                  tracker[u] \in Nat /\ tracker[u] <= subCursor[u]
            /\ kind[u] = "head" => lagged[u] = 0
  BY GateNumbers, Zenon DEF SeqlockInv, TypeOK, SubTypeOK, Gate, NoLatestInv, TrackerInv,
     GatedNeverLags
<1>a. ASSUME NEW u \in Subs, pc'[u] = pc[u], op'[u] = op[u], subCursor'[u] = subCursor[u],
             tracker'[u] = tracker[u], lagged'[u] = lagged[u]
      PROVE  Forward(u)
  <2>1. \A x \in Nat : x <= x
    OBVIOUS
  <2>. QED BY <1>0, <1>a, <2>1, Zenon DEF Forward
<1>1. CASE Receive(s)
  <2>1. PICK o \in Ops : LoadStamp(s, o) /\ (o = op[s] \/ o # "latest")
    BY <1>0, <1>1, ReceiveEffect
  <2>2. pc[s] \in {"idle", "read"} /\ o # "latest"
    BY <1>0, <1>1, <2>1, ReceiveEffect
  <2>3. /\ pc'[s] \in {"words", "lag", "idle", "latest", "read", "track"}
        /\ pc'[s] = "latest" => o = "latest"
        /\ op'[s] \in {"none", o}
        /\ \A u \in Subs \ {s} : pc'[u] = pc[u] /\ op'[u] = op[u]
        /\ UNCHANGED <<ringVars, kind, subCursor, tracker, received, lagged, start>>
    BY <1>0, <2>1, LoadStampEffect, Zenon
  <2>4. \A u \in Subs : Forward(u)
    BY <1>0, <2>2, <2>3 DEF Forward, CallPcs
  <2>. QED BY <2>3, <2>4, GateForward, Zenon
<1>2. CASE Latest(s)
  BY <1>0, <1>2 DEF Latest
<1>3. CASE LoadWord(s)
  <2>1. UNCHANGED <<ringVars, pc, op, kind, subCursor, tracker, received, lagged, start>>
    BY <1>3 DEF LoadWord
  <2>2. \A u \in Subs : Forward(u)
    BY <1>a, <2>1, Zenon
  <2>. QED BY <2>1, <2>2, GateForward
<1>4. CASE Recheck(s)
  <2>1. /\ pc[s] = "words"
        /\ pc'[s] \in {"idle", "latest", "read", "track"}
        /\ pc'[s] = "latest" => op[s] = "latest"
        /\ op'[s] \in {"none", op[s]}
        /\ \A u \in Subs \ {s} : pc'[u] = pc[u] /\ op'[u] = op[u]
        /\ UNCHANGED <<ringVars, kind, tracker, lagged, start>>
    BY <1>0, <1>4, RecheckEffect, Zenon
  <2>2. \/ /\ subCursor' = [subCursor EXCEPT ![s] = @ + 1]
           /\ received' = [received EXCEPT ![s] = @ + 1]
        \/ UNCHANGED <<subCursor, received>>
    BY <1>0, <1>4, RecheckEffect, Zenon
  <2>3. /\ subCursor'[s] - subCursor[s] \in {0, 1}
        /\ received'[s] - received[s] = subCursor'[s] - subCursor[s]
        /\ subCursor'[s] \in Nat /\ received'[s] \in Nat
        /\ \A u \in Subs \ {s} : subCursor'[u] = subCursor[u] /\ received'[u] = received[u]
    BY <1>0, <2>2 DEF SubTypeOK
  <2>4. ASSUME NEW u \in Subs PROVE Forward(u)
    <3>1. CASE u = s
      BY <1>0, <2>1, <2>3, <3>1 DEF Forward, CallPcs
    <3>2. CASE u # s
      BY <1>a, <2>1, <2>3, <3>2, Zenon
    <3>. QED BY <3>1, <3>2
  <2>. QED BY <2>1, <2>4, GateForward
<1>5. CASE SkipLag(s)
  <2> DEFINE oldest == OldestAt(cursor)
  <2>1. /\ pc[s] = "lag"
        /\ pc'[s] \in {"idle", "latest", "read", "track"}
        /\ pc'[s] = "latest" => op[s] = "latest"
        /\ op'[s] \in {"none", op[s]}
        /\ \A u \in Subs \ {s} : pc'[u] = pc[u] /\ op'[u] = op[u]
        /\ UNCHANGED <<ringVars, kind, tracker, received, start>>
    BY <1>0, <1>5, SkipLagEffect, Zenon
  <2>2. \/ /\ subCursor[s] < oldest /\ kind[s] # "head"
           /\ subCursor' = [subCursor EXCEPT ![s] = oldest]
           /\ lagged' = [lagged EXCEPT ![s] = @ + (oldest - subCursor[s])]
        \/ UNCHANGED <<subCursor, lagged>>
    BY <1>0, <1>5, SkipLagEffect, NothingToSkip
  <2>3. oldest \in Nat
    <3>1. OldestAt(cursor) \in 0 .. seq
      BY HeadIsSeq
    <3>2. seq \in Nat
      BY <1>0, GateNumbers
    <3>. QED BY <3>1, <3>2
  <2> HIDE DEF oldest
  <2>4. /\ subCursor'[s] \in Nat /\ lagged'[s] \in Nat /\ subCursor[s] <= subCursor'[s]
        /\ lagged'[s] - lagged[s] = subCursor'[s] - subCursor[s]
        /\ kind[s] = "head" => lagged'[s] = lagged[s]
        /\ \A u \in Subs \ {s} : subCursor'[u] = subCursor[u] /\ lagged'[u] = lagged[u]
    BY <1>0, <2>2, <2>3 DEF SubTypeOK
  <2>5. ASSUME NEW u \in Subs PROVE Forward(u)
    <3>1. CASE u = s
      <4>1. /\ pc'[s] \in CallPcs /\ pc[s] \in CallPcs
            /\ op'[s] # "latest" /\ pc'[s] # "latest"
        BY <1>0, <2>1 DEF CallPcs
      <4>2. kind[s] \in {"head", "oldest"} =>
               tracker'[s] \in Nat /\ tracker[s] <= tracker'[s] /\ tracker'[s] <= subCursor'[s]
        BY <1>0, <2>1, <2>4
      <4>3. kind[s] = "head" => lagged'[s] = 0
        BY <1>0, <2>4, Zenon
      <4>. QED BY <2>4, <3>1, <4>1, <4>2, <4>3, Zenon DEF Forward
    <3>2. CASE u # s
      BY <1>a, <2>1, <2>4, <3>2, Zenon
    <3>. QED BY <3>1, <3>2
  <2>. QED BY <2>1, <2>5, GateForward
<1>6. CASE StoreTracker(s)
  <2>1. /\ pc[s] = "track" /\ pc'[s] \in {"idle", "read"}
        /\ op'[s] # "latest"
        /\ tracker'[s] = subCursor[s]
        /\ \A u \in Subs \ {s} : pc'[u] = pc[u] /\ op'[u] = op[u] /\ tracker'[u] = tracker[u]
        /\ UNCHANGED <<ringVars, kind, subCursor, received, lagged, start>>
    BY <1>0, <1>6, AfterCases, Zenon DEF StoreTracker, SubTypeOK
  <2>2. \A u \in Subs \ {s} : Forward(u)
    BY <1>a, <2>1, Zenon
  <2>3. Forward(s)
    <3>0. /\ kind[s] \in {"head", "oldest"} => tracker[s] <= subCursor[s]
          /\ subCursor[s] \in Nat
      BY <1>0, Zenon
    <3>1. subCursor[s] <= subCursor[s]
      BY <3>0
    <3>2. pc'[s] \in CallPcs /\ pc[s] \in CallPcs /\ pc'[s] # "latest"
      BY <2>1 DEF CallPcs
    <3>. QED BY <1>0, <2>1, <3>0, <3>1, <3>2, Zenon DEF Forward
  <2>. QED BY <2>1, <2>2, <2>3, GateForward, Zenon
<1>. QED BY <1>1, <1>2, <1>3, <1>4, <1>5, <1>6 DEF CallStep

LEMMA GateSub ==
  ASSUME SeqlockInv, Gate, "latest" \notin Calls, NEW s \in Subs, SubStep(s),
         UNCHANGED pubVars
  PROVE  Gate'
<1>0. /\ TypeOK /\ TypeOK' /\ SubTypeOK /\ FreshInv /\ Gate
      /\ UNCHANGED <<stamp, value, cursor, pubVars>>
      /\ seq \in Nat /\ cachedSlowest \in Nat /\ Effective \in 1 .. Capacity
      /\ NextAfter(cursor) = seq /\ OldestAt(cursor) \in Nat
  <2>1. TypeOK /\ SubTypeOK /\ FreshInv
    BY Zenon DEF SeqlockInv, TypeOK
  <2>2. TypeOK' /\ UNCHANGED <<stamp, value, cursor>>
    BY <2>1, TypeSub, SubFrame
  <2>3. seq \in Nat /\ cachedSlowest \in Nat /\ Effective \in 1 .. Capacity
    BY <2>1, GateNumbers
  <2>4. NextAfter(cursor) = seq /\ OldestAt(cursor) \in Nat
    BY <2>1, HeadIsSeq
  <2>. QED BY <2>1, <2>2, <2>3, <2>4
<1>1. ASSUME NEW k \in {"lossy", "tracked", "oldest"}, NEW n \in Nat,
             NEW v \in Nat \cup {Nothing}, NEW p \in {"idle", "register"},
             k = "oldest" => Bounded /\ v = n, p = "register" <=> k = "oldest",
             Create(s, k, n, v, p), UNCHANGED ringVars
      PROVE  Gate'
  <2>1. /\ pc[s] = "absent" /\ kind[s] = "none" /\ received[s] = 0 /\ lagged[s] = 0
        /\ s \notin trackers
    BY <1>0, <1>1, Zenon DEF Create, FreshInv, Gate, TrackerInv, TrackersAreLive
  <2>2. /\ pc'[s] = p /\ kind'[s] = k /\ subCursor'[s] = n /\ tracker'[s] = v
        /\ start'[s] = n
        /\ \A u \in Subs \ {s} :
              /\ pc'[u] = pc[u] /\ kind'[u] = kind[u] /\ subCursor'[u] = subCursor[u]
              /\ tracker'[u] = tracker[u] /\ start'[u] = start[u]
        /\ UNCHANGED <<op, received, lagged>>
        /\ UNCHANGED <<stamp, trackers, lock, pubPc, seq, cachedSlowest, scanTodo, scanMin>>
    BY <1>0, <1>1, Zenon DEF Create, SubTypeOK, ringVars, pubVars
  <2>3. NoLatestInv' /\ LockInv'
    BY <1>0, <2>2 DEF Gate, NoLatestInv, LockInv
  <2>4. TrackersAreLive'
    BY <1>0, <1>1, <2>1, <2>2, Zenon DEF Gate, TrackerInv, TrackersAreLive
  <2>5. TrackerInv'
    <3>0. n \in Nat /\ n <= n
      BY <1>1
    <3>1. k = "oldest" => Bounded /\ tracker'[s] \in Nat /\ tracker'[s] <= subCursor'[s]
      BY <1>1, <2>2, <3>0, Zenon
    <3>2. k # "head"
      BY <1>1
    <3>. QED BY <1>0, <2>2, <2>4, <3>1, <3>2, Zenon DEF Gate, TrackerInv
  <2>6. ScanInv'
    BY <1>0, <2>1, <2>2, SMTT(30) DEF Gate, ScanInv, TypeOK, RingTypeOK
  <2>7. CacheInv' /\ RoomInv' /\ UnreadRetained' /\ GatedNeverLags'
    BY <1>0, <1>1, <2>2, Zenon DEF Gate, CacheInv, RoomInv, UnreadRetained, GatedNeverLags,
       Publishing
  <2>. QED BY <2>3, <2>5, <2>6, <2>7 DEF Gate
<1>2. CASE SubscribeLossy(s)
  BY <1>0, <1>1, <1>2, Zenon DEF SubscribeLossy
<1>3. CASE SubscribeTracked(s)
  BY <1>0, <1>1, <1>3 DEF SubscribeTracked
<1>4. CASE SubscribeFromOldest(s)
  BY <1>0, <1>1, <1>4, Zenon DEF SubscribeFromOldest
<1>5. CASE LockTrackers(s)
  <2>1. /\ pc[s] = "absent" /\ pc'[s] = "locked" /\ lock = "free" /\ lock' = s
        /\ Bounded
        /\ \A u \in Subs \ {s} : pc'[u] = pc[u]
        /\ UNCHANGED <<stamp, trackers, kind, subCursor, tracker, op, received, lagged, start>>
    BY <1>0, <1>5 DEF LockTrackers, SubTypeOK
  <2>2. LockInv' /\ NoLatestInv'
    BY <1>0, <2>1, SubsAssumption, Zenon DEF Gate, LockInv, NoLatestInv, pubVars
  <2>3. TrackersAreLive'
    BY <1>0, <2>1, Zenon DEF Gate, TrackerInv, TrackersAreLive, FreshInv
  <2>. QED BY <1>0, <2>1, <2>2, <2>3, Zenon DEF Gate, TrackerInv, ScanInv, CacheInv, RoomInv,
       UnreadRetained, GatedNeverLags, Publishing, pubVars
<1>6. CASE RegisterOldest(s)
  <2>1. /\ pc[s] = "register" /\ pc'[s] = "idle" /\ lock = "free"
        /\ trackers' = trackers \cup {s}
        /\ \A u \in Subs \ {s} : pc'[u] = pc[u]
        /\ UNCHANGED <<stamp, lock, kind, subCursor, tracker, op, received, lagged, start>>
    BY <1>0, <1>6, Zenon DEF RegisterOldest, SubTypeOK
  <2>2. LockInv' /\ NoLatestInv'
    BY <1>0, <2>1 DEF Gate, LockInv, NoLatestInv, pubVars
  <2>3. TrackersAreLive'
    BY <1>0, <2>1, Zenon DEF Gate, TrackerInv, TrackersAreLive, FreshInv
  <2>4. ScanInv'
    BY <1>0, <2>1, Zenon DEF Gate, LockInv, ScanInv, pubVars
  <2>. QED BY <1>0, <2>1, <2>2, <2>3, <2>4, Zenon DEF Gate, TrackerInv, CacheInv, RoomInv,
       UnreadRetained, GatedNeverLags, Publishing, pubVars
<1>7. CASE LoadHead(s)
  <2>1. /\ pc[s] = "locked" /\ pc'[s] = "push" /\ kind'[s] = "head"
        /\ subCursor'[s] = seq /\ tracker'[s] = seq /\ start'[s] = seq
        /\ \A u \in Subs \ {s} :
              /\ pc'[u] = pc[u] /\ kind'[u] = kind[u] /\ subCursor'[u] = subCursor[u]
              /\ tracker'[u] = tracker[u] /\ start'[u] = start[u]
        /\ UNCHANGED <<op, received, lagged>>
        /\ UNCHANGED <<stamp, trackers, lock, pubPc, seq, cachedSlowest, scanTodo, scanMin>>
    BY <1>0, <1>7, Zenon DEF LoadHead, SubTypeOK, ringVars, pubVars
  <2>a. lock = s /\ Bounded
    BY <1>0, <2>1, Zenon DEF Gate, LockInv
  <2>b. pubPc # "scan"
    BY <1>0, <2>a, SubsAssumption, Zenon DEF Gate, LockInv
  <2>c. kind[s] = "none" /\ received[s] = 0 /\ lagged[s] = 0
    BY <1>0, <2>1, Zenon DEF FreshInv
  <2>d. s \notin trackers
    BY <1>0, <2>c, Zenon DEF Gate, TrackerInv, TrackersAreLive
  <2>2. /\ lock = s /\ pubPc # "scan" /\ kind[s] = "none" /\ s \notin trackers
        /\ received[s] = 0 /\ lagged[s] = 0
    BY <2>a, <2>b, <2>c, <2>d
  <2>3. Bounded
    BY <2>a
  <2>e. NoLatestInv'
    BY <1>0, <2>1, Zenon DEF Gate, NoLatestInv
  <2>f. LockInv'
    BY <1>0, <2>1, <2>2, <2>3, Zenon DEF Gate, LockInv
  <2>4. NoLatestInv' /\ LockInv' /\ ScanInv'
    BY <2>1, <2>2, <2>e, <2>f, Zenon DEF ScanInv
  <2>5. TrackersAreLive'
    BY <1>0, <2>1, <2>2, Zenon DEF Gate, TrackerInv, TrackersAreLive
  <2>6. TrackerInv'
    <3>1. seq \in Nat /\ tracker'[s] = seq /\ subCursor'[s] = seq
      BY <1>0, <2>1, Zenon
    <3>2. tracker'[s] \in Nat /\ tracker'[s] <= subCursor'[s]
      BY <3>1
    <3>. QED BY <1>0, <2>1, <2>3, <2>5, <3>2, Zenon DEF Gate, TrackerInv
  <2>7. CacheInv' /\ GatedNeverLags'
    BY <1>0, <2>1, <2>2, Zenon DEF Gate, CacheInv, GatedNeverLags
  <2>9. RoomInv'
    <3>1. seq < seq + Effective
      BY <1>0, GateNumbers
    <3>. QED BY <1>0, <2>1, <3>1, Zenon DEF Gate, RoomInv, Publishing
  <2>8. UnreadRetained'
    <3> SUFFICES ASSUME NEW u \in Subs, NEW m \in Seqs, kind'[u] = "head",
                        subCursor'[u] <= m, m < seq
                 PROVE  stamp[Slot(m)] = Done(m)
      BY <2>1, Zenon DEF UnreadRetained
    <3>1. u # s
      BY <1>0, <2>1 DEF Seqs
    <3>. QED BY <1>0, <2>1, <3>1, Zenon DEF Gate, UnreadRetained
  <2>. QED BY <2>4, <2>6, <2>7, <2>8, <2>9 DEF Gate
<1>8. CASE PushTracker(s)
  <2>1. /\ pc[s] = "push" /\ pc'[s] = "idle" /\ lock' = "free"
        /\ trackers' = trackers \cup {s}
        /\ \A u \in Subs \ {s} : pc'[u] = pc[u]
        /\ UNCHANGED <<stamp, kind, subCursor, tracker, op, received, lagged, start>>
    BY <1>0, <1>8, Zenon DEF PushTracker, SubTypeOK
  <2>2. lock = s /\ pubPc # "scan"
    BY <1>0, <2>1, SubsAssumption DEF Gate, LockInv
  <2>3. LockInv' /\ NoLatestInv' /\ ScanInv'
    BY <1>0, <2>1, <2>2, Zenon DEF Gate, LockInv, NoLatestInv, ScanInv, pubVars
  <2>4. TrackersAreLive'
    BY <1>0, <2>1, Zenon DEF Gate, TrackerInv, TrackersAreLive, FreshInv
  <2>. QED BY <1>0, <2>1, <2>3, <2>4, Zenon DEF Gate, TrackerInv, CacheInv, RoomInv,
       UnreadRetained, GatedNeverLags, Publishing, pubVars
<1>9. CASE DropSubscriber(s)
  <2>1. /\ pc'[s] = "absent" /\ kind'[s] = "none" /\ subCursor'[s] = 0
        /\ start'[s] = 0 /\ received'[s] = 0 /\ lagged'[s] = 0
        /\ kind[s] \in {"head", "oldest"} => lock = "free"
        /\ trackers' = trackers \ {s}
        /\ \A u \in Subs \ {s} :
              /\ pc'[u] = pc[u] /\ kind'[u] = kind[u] /\ subCursor'[u] = subCursor[u]
              /\ tracker'[u] = tracker[u] /\ start'[u] = start[u]
              /\ received'[u] = received[u] /\ lagged'[u] = lagged[u]
        /\ UNCHANGED <<op, stamp, lock, pubPc, seq, cachedSlowest, scanTodo, scanMin>>
    BY <1>0, <1>9, Zenon DEF DropSubscriber, WithoutTracker, SubTypeOK, pubVars
  <2>2. NoLatestInv' /\ LockInv'
    BY <1>0, <2>1, Zenon DEF Gate, NoLatestInv, LockInv
  <2>3. TrackersAreLive'
    BY <1>0, <2>1, Zenon DEF Gate, TrackerInv, TrackersAreLive
  <2>4. ScanInv'
    <3> SUFFICES ASSUME pubPc = "scan" PROVE s \notin trackers
      BY <1>0, <2>1, SMTT(30) DEF Gate, ScanInv, TypeOK, RingTypeOK
    <3>. QED BY <1>0, <2>1, Zenon DEF Gate, LockInv, TrackerInv, TrackersAreLive
  <2>5. TrackerInv' /\ CacheInv' /\ RoomInv' /\ UnreadRetained' /\ GatedNeverLags'
    BY <1>0, <2>1, <2>3, Zenon DEF Gate, TrackerInv, CacheInv, RoomInv, UnreadRetained,
       GatedNeverLags, Publishing
  <2>. QED BY <2>2, <2>4, <2>5 DEF Gate
<1>10. CASE CallStep(s)
  BY <1>0, <1>10, GateCall
<1>. QED BY <1>2, <1>3, <1>4, <1>5, <1>6, <1>7, <1>8, <1>9, <1>10
         DEF SubStep, RegisterStep

----------------------------------------------------------------------------
(* The theorems.                                                           *)

LEMMA InitInv == Init => IInv
<1> SUFFICES ASSUME Init PROVE IInv
  OBVIOUS
<1> USE DEF Init, RingInit, SubInit
<1>1. TypeOK
  BY MaxSeqAssumption, OpsNamed
  DEF TypeOK, RingTypeOK, SubTypeOK, PubPcs, Pcs, Kinds, Results, Blank, Seqs
<1>2. PubInv /\ StampInv /\ ContentInv /\ CursorBehindSlots
  BY SlotInRange, MaxSeqAssumption DEF PubInv, StampInv, ContentInv, CursorBehindSlots,
     Nothing, Done, Seqs
<1>3. ReaderInv /\ PositionInv /\ FreshInv /\ NoTornRead
  BY DEF ReaderInv, PositionInv, FreshInv, NoTornRead
<1>4. Gate
  BY DEF Gate, NoLatestInv, LockInv, TrackerInv, TrackersAreLive, ScanInv, CacheInv,
     RoomInv, UnreadRetained, GatedNeverLags
<1>5. EveryMessageAccounted
  BY DEF EveryMessageAccounted
<1>. QED BY <1>1, <1>2, <1>3, <1>4, <1>5 DEF IInv, SeqlockInv, GateInv

LEMMA NextInv == IInv /\ [Next]_vars => IInv'
<1> SUFFICES ASSUME IInv, [Next]_vars PROVE IInv'
  OBVIOUS
<1>1. CASE PubStep
  <2>1. UNCHANGED subVars
    BY <1>1, Zenon DEF PubStep, HasRoom, ScanLock, ScanTracker, ScanDone, BeginWrite,
       WriteWord, EndWrite, StoreCursor
  <2>2. EveryMessageAccounted'
    BY <2>1, Zenon DEF IInv, EveryMessageAccounted, subVars
  <2>. QED BY <1>1, <2>2, SeqlockPub, GatePub, Zenon DEF IInv, GateInv
<1>2. ASSUME NEW s \in Subs, SubStep(s), UNCHANGED pubVars PROVE IInv'
  <2>1. SeqlockInv'
    BY <1>2, SeqlockSub DEF IInv
  <2>2. EveryMessageAccounted'
    BY <1>2, <2>1, AccountSub, Zenon DEF IInv, SeqlockInv, TypeOK
  <2>. QED BY <1>2, <2>1, <2>2, GateSub, Zenon DEF IInv, GateInv
<1>3. CASE UNCHANGED vars
  <2> USE <1>3 DEF vars, ringVars, subVars, pubVars
  <2>1. TypeOK'
    BY SMTT(30) DEF IInv, SeqlockInv, TypeOK, RingTypeOK, SubTypeOK
  <2>2. SeqlockInv'
    BY <2>1, Zenon DEF IInv, SeqlockInv, PubInv, StampInv, ContentInv, ReaderInv, PositionInv,
       FreshInv, NoTornRead, CursorBehindSlots
  <2>3. Gate => Gate'
    BY Zenon DEF Gate, NoLatestInv, LockInv, TrackerInv, TrackersAreLive, ScanInv, CacheInv,
       RoomInv, Publishing, UnreadRetained, GatedNeverLags
  <2>4. EveryMessageAccounted'
    BY DEF IInv, EveryMessageAccounted
  <2>. QED BY <2>2, <2>3, <2>4 DEF IInv, GateInv
<1>. QED BY <1>1, <1>2, <1>3 DEF Next

\* The inductive invariant holds throughout.
THEOREM Invariance == Spec => []IInv
  BY InitInv, NextInv, PTL DEF Spec

\* Every sequence number, cursor and tracker stays in its range for every
\* capacity, payload size and number of subscribers (publish_unchecked,
\* read_slot: no cursor passes a message that has not been written).
THEOREM TypeCorrect == Spec => []TypeOK
<1>1. IInv => TypeOK
  BY DEF IInv, SeqlockInv
<1>. QED BY <1>1, Invariance, PTL

\* No receive call returns a mixture of two messages or a message other than
\* the one its cursor names (Slot::try_read against Slot::write).
THEOREM NeverTorn == Spec => []NoTornRead
<1>1. IInv => NoTornRead
  BY DEF IInv, SeqlockInv
<1>. QED BY <1>1, Invariance, PTL

\* The ring cursor is never ahead of the slots (publish_unchecked).
THEOREM CursorFollowsSlots == Spec => []CursorBehindSlots
<1>1. IInv => CursorBehindSlots
  BY DEF IInv, SeqlockInv
<1>. QED BY <1>1, Invariance, PTL

\* On a bounded ring no message that a subscriber made by subscribe() has
\* still to read is overwritten (has_room, register_tracker_at_head).
THEOREM BoundedRetains == Spec => []UnreadRetained
<1>1. IInv => UnreadRetained
  BY Zenon DEF IInv, GateInv, Gate, UnreadRetained
<1>. QED BY <1>1, Invariance, PTL

\* ... and so such a subscriber never lags.
THEOREM BoundedNeverLags == Spec => []GatedNeverLags
<1>1. IInv => GatedNeverLags
  BY DEF IInv, GateInv, Gate, GatedNeverLags
<1>. QED BY <1>1, Invariance, PTL

\* As long as latest() is not called, the publisher's scan covers exactly the
\* subscribers that exist and gate it (register_tracker, Drop for Subscriber).
THEOREM TrackersLive == "latest" \notin Calls /\ Spec => []TrackersAreLive
<1>1. "latest" \notin Calls /\ IInv => TrackersAreLive
  BY DEF IInv, GateInv, Gate, TrackerInv
<1>2. CASE "latest" \in Calls
  BY <1>2
<1>3. CASE "latest" \notin Calls
  <2>1. IInv => TrackersAreLive
    BY <1>1, <1>3
  <2>. QED BY <2>1, Invariance, PTL
<1>. QED BY <1>2, <1>3

\* The tracker of a subscriber that stays registered never goes back
\* (update_tracker; a new subscriber sets its own before it registers).
LEMMA TrackerGrows ==
  ASSUME SeqlockInv, Gate, NEW u \in Subs, SubStep(u),
         NEW s \in trackers, s \in trackers'
  PROVE  tracker[s] \in Nat /\ tracker'[s] \in Nat /\ tracker[s] <= tracker'[s]
<1>0. /\ TypeOK /\ SubTypeOK /\ FreshInv /\ TrackerInv /\ TrackersAreLive
  BY Zenon DEF SeqlockInv, TypeOK, Gate, TrackerInv
<1>1. /\ s \in Subs /\ kind[s] \in {"head", "oldest"}
      /\ pc[s] \notin {"absent", "push", "register"}
  BY <1>0, Zenon DEF TrackersAreLive
<1>2. tracker[s] \in Nat /\ subCursor[s] \in Nat /\ tracker[s] <= subCursor[s]
  BY <1>0, <1>1, GateNumbers DEF TrackerInv
<1>3. tracker'[s] \in {tracker[s], subCursor[s]}
  <2>1. CASE UNCHANGED tracker
    BY <2>1
  <2>2. CASE SubscribeLossy(u) \/ SubscribeTracked(u) \/ SubscribeFromOldest(u) \/ LoadHead(u)
    <3>1. u # s
      BY <1>0, <1>1, <2>2, Zenon DEF SubscribeLossy, SubscribeTracked, SubscribeFromOldest,
         Create, LoadHead, FreshInv
    <3>2. \E t : tracker' = [tracker EXCEPT ![u] = t]
      BY <2>2, Zenon DEF SubscribeLossy, SubscribeTracked, SubscribeFromOldest, Create, LoadHead
    <3>. QED BY <1>0, <1>1, <3>1, <3>2 DEF SubTypeOK
  <2>3. CASE DropSubscriber(u)
    BY <1>0, <1>1, <2>3 DEF DropSubscriber, WithoutTracker, SubTypeOK
  <2>4. CASE StoreTracker(u)
    BY <1>0, <1>1, <2>4 DEF StoreTracker, SubTypeOK
  <2>. QED BY <2>1, <2>2, <2>3, <2>4, Zenon DEF SubStep, RegisterStep, CallStep, LockTrackers,
         RegisterOldest, PushTracker, Receive, LoadStamp, Latest, LoadWord, Recheck, SkipLag
<1>. QED BY <1>2, <1>3

\* A scan covers everybody who is registered, and who is covered stays so.
LEMMA SeenStep ==
  ASSUME SeqlockInv, Gate, Next, NEW s \in trackers, s \in trackers',
         Covered(s) \/ (pubPc = "scan" /\ pubPc' # "scan")
  PROVE  /\ Covered(s)'
         /\ pubPc # "write" /\ pubPc' = "write" => seq < tracker[s] + Effective
<1>0. /\ s \in Subs /\ Bounded /\ tracker[s] \in Nat
      /\ seq \in Nat /\ cachedSlowest \in Nat /\ Effective \in Nat
      /\ scanMin \in Nat \/ scanMin = Nothing
  BY GateNumbers DEF SeqlockInv, Gate, TrackerInv, TrackersAreLive
<1>1. CASE HasRoom
  <2>1. UNCHANGED <<cachedSlowest, tracker>> /\ Covered(s)
        /\ (pubPc' = "write" => ~Full(cachedSlowest))
    BY <1>0, <1>1 DEF HasRoom, subVars
  <2>. QED BY <1>0, <2>1 DEF Covered, Full
<1>2. CASE ScanDone
  <2>1. scanMin # Nothing /\ scanMin <= tracker[s]
    BY <1>2, Zenon DEF ScanDone, Gate, ScanInv
  <2>2. cachedSlowest' = scanMin /\ UNCHANGED tracker
        /\ (pubPc' = "write" => ~Full(scanMin))
    BY <1>2, <2>1 DEF ScanDone, subVars
  <2>. QED BY <1>0, <2>1, <2>2 DEF Covered, Full
<1>3. CASE \/ ScanLock \/ (\E u \in Subs : ScanTracker(u))
           \/ BeginWrite \/ WriteWord \/ EndWrite \/ StoreCursor
  <2>1. UNCHANGED <<cachedSlowest, tracker>> /\ pubPc' # "write" /\ Covered(s)
    BY <1>3 DEF ScanLock, ScanTracker, BeginWrite, WriteWord, EndWrite, StoreCursor,
       subVars, pubVars
  <2>. QED BY <2>1 DEF Covered
<1>4. ASSUME NEW u \in Subs, SubStep(u), UNCHANGED pubVars
      PROVE  Covered(s)' /\ pubPc' = pubPc
  <2>1. tracker'[s] \in Nat /\ tracker[s] <= tracker'[s]
    BY <1>4, TrackerGrows
  <2>2. UNCHANGED <<cachedSlowest, pubPc>> /\ Covered(s)
    BY <1>4 DEF pubVars
  <2>. QED BY <1>0, <2>1, <2>2 DEF Covered
<1>. QED BY <1>1, <1>2, <1>3, <1>4 DEF Next, PubStep

\* Every subscriber that a scan has seen gates the publisher as long as it
\* lives, wherever it began (has_room, slowest_cursor, update_tracker).
THEOREM SeenGates == Spec => SeenSubscribersGate
<1>1. IInv /\ [Next]_vars =>
        [\A s \in trackers \cap trackers' :
            /\ "latest" \notin Calls
            /\ Covered(s) \/ (pubPc = "scan" /\ pubPc' # "scan")
            => /\ Covered(s)'
               /\ pubPc # "write" /\ pubPc' = "write" => seq < tracker[s] + Effective]_vars
  BY SeenStep DEF IInv, GateInv
<1>. QED BY <1>1, Invariance, PTL DEF Spec, SeenSubscribersGate

\* received + lagged is exactly the distance a subscriber has moved (read_slot).
THEOREM Accounting == Spec => []EveryMessageAccounted
<1>1. IInv => EveryMessageAccounted
  BY DEF IInv
<1>. QED BY <1>1, Invariance, PTL

\* A step that counts lost messages is a subscriber's.
LEMMA LagStep ==
  ASSUME IInv, [Next]_vars
  PROVE  SkippedWereOverwritten
<1>0. RingTypeOK /\ SubTypeOK /\ CursorBehindSlots
  BY Zenon DEF IInv, SeqlockInv, TypeOK
<1>1. CASE lagged' = lagged
  BY <1>0, <1>1, NothingCounted
<1>2. CASE lagged' # lagged
  <2>1. PICK u \in Subs : SubStep(u)
    BY <1>2, Zenon DEF Next, PubStep, HasRoom, ScanLock, ScanTracker, ScanDone, BeginWrite,
       WriteWord, EndWrite, StoreCursor, vars, subVars
  <2>. QED BY <1>0, <2>1, LagSkips
<1>. QED BY <1>1, <1>2

\* A subscriber that reports Lagged skips only messages whose slot has been
\* rewritten (read_slot's exact lag).
THEOREM LagIsExact == Spec => LagSkipsOnlyOverwritten
<1>1. IInv /\ [Next]_vars => [SkippedWereOverwritten]_vars
  BY LagStep
<1>. QED BY <1>1, Invariance, PTL DEF Spec, LagSkipsOnlyOverwritten
=============================================================================
