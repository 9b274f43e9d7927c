-------------------------- MODULE SubscriberProofs --------------------------
(***************************************************************************)
(* Facts about sequence numbers and slots, and about the steps of a        *)
(* subscriber, that the proofs about a channel rest on.                    *)
(***************************************************************************)
EXTENDS Subscriber, TLAPS

----------------------------------------------------------------------------
(* Sequence numbers and slots.                                             *)

\* A sequence number is a number of laps and a slot.
LEMMA SlotLaps ==
  ASSUME NEW n \in Nat
  PROVE  /\ Slot(n) \in Slots
         /\ n \div Capacity \in Nat
         /\ n = (n \div Capacity) * Capacity + Slot(n)
  BY CapacityAssumption DEF Slot, Slots

\* A slot index is in range.
LEMMA SlotInRange == \A n \in Nat : Slot(n) \in Slots
  BY SlotLaps

\* The slot is determined by any decomposition into laps and a slot.
LEMMA SlotUnique ==
  ASSUME NEW n \in Nat, NEW q \in Int, NEW r \in Slots, n = q * Capacity + r
  PROVE  Slot(n) = r
  BY CapacityAssumption DEF Slot, Slots

\* Messages one lap apart share a slot.
LEMMA SlotNextLap == \A n \in Nat : Slot(n + Capacity) = Slot(n)
<1> TAKE n \in Nat
<1> DEFINE q == n \div Capacity
           r == Slot(n)
<1>1. q \in Nat /\ r \in Slots /\ n = q * Capacity + r
  BY SlotLaps
<1> HIDE DEF q, r
<1> DEFINE k == q + 1
<1>2. n + Capacity \in Nat /\ k \in Int /\ n + Capacity = k * Capacity + r
  BY <1>1, CapacityAssumption DEF Slots
<1> HIDE DEF k
<1>3. Slot(n + Capacity) = r
  BY <1>1, <1>2, SlotUnique
<1>. QED BY <1>3 DEF r

\* Messages less than one lap apart do not.
LEMMA SlotWithinLap ==
  \A m, n \in Nat : m < n /\ n < m + Capacity => Slot(m) # Slot(n)
<1> SUFFICES ASSUME NEW m \in Nat, NEW n \in Nat, m < n, n < m + Capacity,
                    Slot(m) = Slot(n)
             PROVE  FALSE
  OBVIOUS
<1> DEFINE p == m \div Capacity
           q == n \div Capacity
           r == Slot(n)
<1>1. p \in Nat /\ q \in Nat /\ r \in Int
      /\ m = p * Capacity + r /\ n = q * Capacity + r
  BY SlotLaps DEF Slots
<1> HIDE DEF p, q, r
<1> DEFINE k == q - p
<1>2. k \in Int /\ n - m = k * Capacity
  BY <1>1, CapacityAssumption
<1> HIDE DEF k
<1>3. 0 < k * Capacity /\ k * Capacity < Capacity
  BY <1>2, CapacityAssumption
<1>4. CASE k <= 0
  BY <1>2, <1>3, <1>4, CapacityAssumption
<1>5. CASE k >= 1
  BY <1>2, <1>3, <1>5, CapacityAssumption
<1>. QED BY <1>2, <1>4, <1>5

----------------------------------------------------------------------------
(* What the steps of a subscriber do, without their inner structure.       *)

\* The calls by name.
LEMMA OpsNamed == Ops = {"none", "try_recv", "recv", "drain", "latest"}
  BY DEF Ops, Retries

\* Where a call can go after read_slot.
LEMMA AfterCases ==
  ASSUME NEW o \in Ops, NEW r
  PROVE  /\ After(o, r) \in {"idle", "latest", "read"}
         /\ After(o, r) = "latest" => o = "latest"
  BY DEF After

\* The effect of Finish.
LEMMA FinishEffect ==
  ASSUME SubTypeOK, NEW s \in Subs, NEW o \in Ops,
         NEW r \in {"ok", "empty", "lagged"}, Finish(s, o, r)
  PROVE  /\ pc' \in [Subs -> Pcs] /\ op' \in [Subs -> Ops]
         /\ ret' \in [Subs -> Results]
         /\ pc'[s] \in {"idle", "latest", "read", "track"}
         /\ pc'[s] = "latest" => o = "latest"
         /\ op'[s] \in {"none", o}
         /\ ret'[s] = r
         /\ \A u \in Subs \ {s} :
               pc'[u] = pc[u] /\ op'[u] = op[u] /\ ret'[u] = ret[u]
<1> DEFINE p == IF r \in {"ok", "lagged"} /\ tracker[s] # Nothing
                THEN "track" ELSE After(o, r)
<1>1. /\ pc' = [pc EXCEPT ![s] = p]
      /\ op' = [op EXCEPT ![s] = IF p = "idle" THEN "none" ELSE o]
      /\ ret' = [ret EXCEPT ![s] = r]
  BY DEF Finish
<1>2. p \in {"idle", "latest", "read", "track"} /\ (p = "latest" => o = "latest")
  BY AfterCases
<1> HIDE DEF p
<1>3. "none" \in Ops
  BY OpsNamed
<1>. QED BY <1>1, <1>2, <1>3 DEF SubTypeOK, Pcs, Results

\* The effect of the first stamp load.
LEMMA LoadStampEffect ==
  ASSUME SubTypeOK, NEW s \in Subs, NEW o \in Ops, LoadStamp(s, o)
  PROVE  /\ pc' \in [Subs -> Pcs] /\ op' \in [Subs -> Ops]
         /\ ret' \in [Subs -> Results] /\ buf' = [buf EXCEPT ![s] = Blank]
         /\ pc'[s] \in {"words", "lag", "idle", "latest", "read", "track"}
         /\ pc'[s] = "words" => stamp[Slot(subCursor[s])] = Done(subCursor[s])
         /\ pc'[s] = "latest" => o = "latest"
         /\ pc'[s] \in {"words", "lag"} \/ ret'[s] = "empty"
         /\ op'[s] \in {"none", o}
         /\ \A u \in Subs \ {s} :
               pc'[u] = pc[u] /\ op'[u] = op[u] /\ ret'[u] = ret[u]
         /\ UNCHANGED <<ringVars, kind, subCursor, tracker, received, lagged,
                        start>>
<1>1. CASE Finish(s, o, "empty")
  BY <1>1, FinishEffect DEF LoadStamp
<1>2. CASE /\ \E p \in {"words", "lag"} :
                 /\ pc' = [pc EXCEPT ![s] = p]
                 /\ p = "words" => stamp[Slot(subCursor[s])] = Done(subCursor[s])
           /\ op' = [op EXCEPT ![s] = o]
           /\ UNCHANGED ret
  BY <1>2 DEF LoadStamp, SubTypeOK, Pcs
<1>. QED BY <1>1, <1>2 DEF LoadStamp

\* The effect of starting or continuing to read.
LEMMA ReceiveEffect ==
  ASSUME SubTypeOK, NEW s \in Subs, Receive(s)
  PROVE  /\ pc[s] \in {"idle", "read"}
         /\ \E o \in Ops : /\ LoadStamp(s, o)
                           /\ o = op[s] \/ o # "latest"
  BY DEF Receive, SubTypeOK

\* No step of a subscriber writes to the slots or to the ring cursor.
LEMMA SubFrame ==
  ASSUME NEW s \in Subs, SubStep(s)
  PROVE  UNCHANGED <<stamp, value, cursor>>
  BY DEF SubStep, RegisterStep, CallStep, SubscribeLossy, SubscribeTracked,
     SubscribeFromOldest, LockTrackers, RegisterOldest, LoadHead, PushTracker,
     DropSubscriber, Receive, LoadStamp, Latest, LoadWord, Recheck, SkipLag,
     StoreTracker, ringVars

\* The effect of latest()'s head load.
LEMMA LatestEffect ==
  ASSUME SubTypeOK, NEW s \in Subs, Latest(s)
  PROVE  /\ "latest" \in Calls \/ pc[s] = "latest"
         /\ pc'[s] \in {"read", "idle", "latest", "track"}
         /\ pc'[s] = "read" \/ ret'[s] = "empty"
         /\ \/ UNCHANGED <<subCursor, start>>
            \/ /\ cursor # Nothing
               /\ subCursor' = [subCursor EXCEPT ![s] = cursor]
               /\ start' = [start EXCEPT ![s] = Nothing]
         /\ buf' = [buf EXCEPT ![s] = Blank]
         /\ \A u \in Subs \ {s} :
               pc'[u] = pc[u] /\ op'[u] = op[u] /\ ret'[u] = ret[u]
         /\ UNCHANGED <<ringVars, kind, tracker, received, lagged>>
<1>0. "latest" \in Ops
  BY OpsNamed
<1>1. CASE Finish(s, "latest", "empty") /\ UNCHANGED <<subCursor, start>>
  BY <1>0, <1>1, FinishEffect DEF Latest
<1>2. CASE ~(Finish(s, "latest", "empty") /\ UNCHANGED <<subCursor, start>>)
  BY <1>2 DEF Latest, SubTypeOK
<1>. QED BY <1>1, <1>2

\* The effect of the second stamp load.
LEMMA RecheckEffect ==
  ASSUME SubTypeOK, NEW s \in Subs, Recheck(s)
  PROVE  /\ pc[s] = "words"
         /\ pc'[s] \in {"idle", "latest", "read", "track"}
         /\ pc'[s] = "latest" => op[s] = "latest"
         /\ op'[s] \in {"none", op[s]}
         /\ \A u \in Subs \ {s} :
               pc'[u] = pc[u] /\ op'[u] = op[u] /\ ret'[u] = ret[u]
         /\ \/ /\ stamp[Slot(subCursor[s])] = Done(subCursor[s])
               /\ \A w \in Words : buf[s][w] # Nothing
               /\ subCursor' = [subCursor EXCEPT ![s] = @ + 1]
               /\ received' = [received EXCEPT ![s] = @ + 1]
               /\ UNCHANGED buf
            \/ /\ ret'[s] = "empty"
               /\ buf' = [buf EXCEPT ![s] = Blank]
               /\ UNCHANGED <<subCursor, received>>
         /\ UNCHANGED <<ringVars, kind, tracker, lagged, start>>
<1>0. op[s] \in Ops
  BY DEF SubTypeOK
<1>1. CASE Finish(s, op[s], "ok") /\ StampUnchanged(s)
  <2>1. /\ subCursor' = [subCursor EXCEPT ![s] = @ + 1]
        /\ received' = [received EXCEPT ![s] = @ + 1]
        /\ UNCHANGED buf
    BY <1>1 DEF Recheck
  <2>2. stamp[Slot(subCursor[s])] = Done(subCursor[s])
    BY <1>1 DEF StampUnchanged
  <2>3. /\ pc[s] = "words"
        /\ \A w \in Words : buf[s][w] # Nothing
        /\ UNCHANGED <<ringVars, kind, tracker, lagged, start>>
    BY DEF Recheck
  <2>. QED BY <1>0, <1>1, <2>1, <2>2, <2>3, FinishEffect
<1>2. CASE Finish(s, op[s], "empty") /\ ~StampUnchanged(s)
  <2>1. /\ buf' = [buf EXCEPT ![s] = Blank]
        /\ UNCHANGED <<subCursor, received>>
    BY <1>2 DEF Recheck
  <2>2. /\ pc[s] = "words"
        /\ UNCHANGED <<ringVars, kind, tracker, lagged, start>>
    BY DEF Recheck
  <2>. QED BY <1>0, <1>2, <2>1, <2>2, FinishEffect
<1>. QED BY <1>1, <1>2 DEF Recheck

\* The effect of the lag computation.
LEMMA SkipLagEffect ==
  ASSUME SubTypeOK, NEW s \in Subs, SkipLag(s)
  PROVE  /\ pc[s] = "lag"
         /\ pc'[s] \in {"idle", "latest", "read", "track"}
         /\ pc'[s] = "latest" => op[s] = "latest"
         /\ op'[s] \in {"none", op[s]}
         /\ ret'[s] # "ok"
         /\ \A u \in Subs \ {s} :
               pc'[u] = pc[u] /\ op'[u] = op[u] /\ ret'[u] = ret[u]
         /\ \/ /\ cursor # Nothing /\ subCursor[s] <= cursor
               /\ subCursor[s] < OldestAt(cursor)
               /\ subCursor' = [subCursor EXCEPT ![s] = OldestAt(cursor)]
               /\ lagged' = [lagged EXCEPT ![s] = @ + (OldestAt(cursor) - subCursor[s])]
            \/ UNCHANGED <<subCursor, lagged>>
         /\ UNCHANGED <<ringVars, kind, tracker, buf, received, start>>
<1>0. op[s] \in Ops
  BY DEF SubTypeOK
<1>1. /\ pc[s] = "lag"
      /\ \E r \in {"empty", "lagged"} : Finish(s, op[s], r)
      /\ \/ /\ cursor # Nothing /\ subCursor[s] <= cursor
            /\ subCursor[s] < OldestAt(cursor)
            /\ subCursor' = [subCursor EXCEPT ![s] = OldestAt(cursor)]
            /\ lagged' = [lagged EXCEPT ![s] = @ + (OldestAt(cursor) - subCursor[s])]
         \/ UNCHANGED <<subCursor, lagged>>
      /\ UNCHANGED <<ringVars, kind, tracker, buf, received, start>>
  BY DEF SkipLag, Skipped
<1>2. PICK r \in {"empty", "lagged"} : Finish(s, op[s], r)
  BY <1>1
<1>3. /\ pc'[s] \in {"idle", "latest", "read", "track"}
      /\ pc'[s] = "latest" => op[s] = "latest"
      /\ op'[s] \in {"none", op[s]}
      /\ ret'[s] # "ok"
      /\ \A u \in Subs \ {s} :
            pc'[u] = pc[u] /\ op'[u] = op[u] /\ ret'[u] = ret[u]
  BY <1>0, <1>2, FinishEffect
<1>. QED BY <1>1, <1>3

\* What a step of a receive call can do to the counters and to the position:
\* nothing, receive the message in the slot, skip to the oldest, or jump.
LEMMA CallEffect ==
  ASSUME SubTypeOK, NEW s \in Subs, CallStep(s)
  PROVE  /\ pc[s] \notin {"absent", "locked", "push", "register"}
         /\ pc'[s] \notin {"absent", "locked", "push", "register"}
         /\ \A u \in Subs \ {s} : pc'[u] = pc[u]
         /\ UNCHANGED <<ringVars, kind>>
         /\ \/ UNCHANGED <<subCursor, start, received, lagged>>
            \/ /\ stamp[Slot(subCursor[s])] = Done(subCursor[s])
               /\ subCursor' = [subCursor EXCEPT ![s] = @ + 1]
               /\ received' = [received EXCEPT ![s] = @ + 1]
               /\ UNCHANGED <<lagged, start>>
            \/ /\ subCursor[s] < OldestAt(cursor)
               /\ subCursor' = [subCursor EXCEPT ![s] = OldestAt(cursor)]
               /\ lagged' = [lagged EXCEPT ![s] = @ + (OldestAt(cursor) - subCursor[s])]
               /\ UNCHANGED <<received, start>>
            \/ /\ Latest(s) /\ cursor # Nothing
               /\ subCursor' = [subCursor EXCEPT ![s] = cursor]
               /\ start' = [start EXCEPT ![s] = Nothing]
               /\ UNCHANGED <<received, lagged>>
<1>1. CASE Receive(s)
  <2>1. PICK o \in Ops : LoadStamp(s, o)
    BY <1>1, ReceiveEffect
  <2>. QED BY <1>1, <2>1, ReceiveEffect, LoadStampEffect, Zenon
<1>2. CASE Latest(s)
  BY <1>2, LatestEffect, Zenon DEF Latest
<1>3. CASE LoadWord(s)
  BY <1>3, Zenon DEF LoadWord
<1>4. CASE Recheck(s)
  BY <1>4, RecheckEffect, Zenon
<1>5. CASE SkipLag(s)
  BY <1>5, SkipLagEffect, Zenon
<1>6. CASE StoreTracker(s)
  <2>1. After(op[s], ret[s]) \in {"idle", "latest", "read"}
    BY AfterCases DEF SubTypeOK
  <2>. QED BY <1>6, <2>1, Zenon DEF StoreTracker, SubTypeOK
<1>. QED BY <1>1, <1>2, <1>3, <1>4, <1>5, <1>6, Zenon DEF CallStep

\* Only the lagged branch of read_slot adds to total_lagged.
LEMMA OnlySkipLagCounts ==
  ASSUME SubTypeOK, NEW s \in Subs, NEW u \in Subs, SubStep(u), lagged'[s] > lagged[s]
  PROVE  SkipLag(s)
<1>0. lagged \in [Subs -> Nat] /\ lagged[s] \in Nat
  BY DEF SubTypeOK
<1>1. lagged'[s] # lagged[s]
  BY <1>0
<1>2. ~DropSubscriber(u)
  <2>1. DropSubscriber(u) => lagged'[s] \in {0, lagged[s]}
    BY <1>0 DEF DropSubscriber
  <2>. QED BY <1>0, <2>1
<1>3. SkipLag(u)
  <2>1. lagged' # lagged
    BY <1>1
  <2>. QED
    BY <1>2, <2>1, ZenonT(40) DEF SubStep, RegisterStep, CallStep, SubscribeLossy,
       SubscribeTracked, SubscribeFromOldest, Create, LockTrackers, RegisterOldest,
       LoadHead, PushTracker, Receive, LoadStamp, Latest, LoadWord, Recheck, StoreTracker
<1>4. \A v \in Subs \ {u} : lagged'[v] = lagged[v]
  <2>1. \/ lagged' = [lagged EXCEPT ![u] = @ + (OldestAt(cursor) - subCursor[u])]
        \/ lagged' = lagged
    BY <1>3, SkipLagEffect
  <2>. QED BY <1>0, <2>1
<1>. QED BY <1>1, <1>3, <1>4

----------------------------------------------------------------------------
(* What a subscriber's steps preserve on any channel, as long as a slot    *)
(* that is done holds one message.                                         *)

\* A slot that is done holds one message.
ContentInv ==
  \A i \in Slots, n \in Seqs :
     stamp[i] = Done(n) => \A w \in Words : value[i][w] = n

\* Between the two stamp loads: the slot is not older than the message wanted,
\* and while its stamp is still the wanted one, so is every word loaded.
ReaderInv ==
  \A s \in Subs :
     pc[s] = "words" =>
        /\ stamp[Slot(subCursor[s])] >= Done(subCursor[s])
        /\ stamp[Slot(subCursor[s])] = Done(subCursor[s]) =>
              \A w \in Words : buf[s][w] \in {Nothing, subCursor[s]}

\* A subscriber under construction has no history.
FreshInv ==
  \A s \in Subs :
     /\ pc[s] \in {"absent", "locked", "push", "register"} =>
           ret[s] = "none" /\ received[s] = 0 /\ lagged[s] = 0
     /\ pc[s] \in {"absent", "locked"} =>
           kind[s] = "none" /\ subCursor[s] = 0 /\ start[s] = 0
     /\ pc[s] = "register" => kind[s] = "oldest"
     /\ pc[s] = "push" => kind[s] = "head"

\* A subscriber's position stays in range if it only passes messages that exist.
LEMMA SubType ==
  ASSUME RingTypeOK, SubTypeOK, NEW s \in Subs, SubStep(s),
         StampUnchanged(s) => subCursor[s] \in Seqs
  PROVE  RingTypeOK' /\ SubTypeOK'
<1> USE MaxSeqAssumption
<1>0. /\ RingTypeOK /\ SubTypeOK
      /\ NextAfter(cursor) \in 0 .. MaxSeq
      /\ OldestAt(cursor) \in 0 .. MaxSeq
  BY CapacityAssumption DEF RingTypeOK, NextAfter, OldestAt, Nothing, Seqs
<1>1. CASE SubscribeLossy(s)
  BY <1>0, <1>1 DEF SubscribeLossy, Create, ringVars, RingTypeOK, SubTypeOK, Kinds, Pcs
<1>2. CASE SubscribeTracked(s)
  BY <1>0, <1>2 DEF SubscribeTracked, Create, ringVars, RingTypeOK, SubTypeOK, Kinds, Pcs
<1>3. CASE SubscribeFromOldest(s)
  <2> DEFINE n == OldestAt(cursor)
  <2>1. \/ Create(s, "oldest", n, n, "register")
        \/ Create(s, "lossy", n, Nothing, "idle")
    BY <1>3 DEF SubscribeFromOldest
  <2>2. UNCHANGED ringVars
    BY <1>3 DEF SubscribeFromOldest
  <2>3. n \in 0 .. MaxSeq
    BY <1>0
  <2> HIDE DEF n
  <2>4. CASE Create(s, "oldest", n, n, "register")
    BY <1>0, <2>4, <2>2, <2>3 DEF Create, ringVars, RingTypeOK, SubTypeOK, Kinds, Pcs
  <2>5. CASE Create(s, "lossy", n, Nothing, "idle")
    BY <1>0, <2>5, <2>2, <2>3 DEF Create, ringVars, RingTypeOK, SubTypeOK, Kinds, Pcs
  <2>. QED BY <2>1, <2>4, <2>5
<1>4. CASE LockTrackers(s)
  BY <1>0, <1>4 DEF LockTrackers, RingTypeOK, SubTypeOK, Pcs
<1>5. CASE RegisterOldest(s)
  BY <1>0, <1>5 DEF RegisterOldest, RingTypeOK, SubTypeOK, Pcs
<1>6. CASE LoadHead(s)
  BY <1>0, <1>6 DEF LoadHead, ringVars, RingTypeOK, SubTypeOK, Kinds, Pcs
<1>7. CASE PushTracker(s)
  BY <1>0, <1>7 DEF PushTracker, RingTypeOK, SubTypeOK, Pcs
<1>8. CASE DropSubscriber(s)
  BY <1>0, <1>8, MaxSeqAssumption DEF DropSubscriber, WithoutTracker, RingTypeOK, SubTypeOK,
     Pcs, Kinds, Results, Blank
<1>9. CASE Receive(s)
  <2>1. PICK o \in Ops : LoadStamp(s, o)
    BY <1>0, <1>9, ReceiveEffect
  <2>2. /\ pc' \in [Subs -> Pcs] /\ op' \in [Subs -> Ops]
        /\ ret' \in [Subs -> Results] /\ buf' = [buf EXCEPT ![s] = Blank]
        /\ UNCHANGED <<ringVars, kind, subCursor, tracker, received, lagged, start>>
    BY <1>0, <2>1, LoadStampEffect
  <2>. QED BY <1>0, <2>2 DEF ringVars, RingTypeOK, SubTypeOK, Blank
<1>10. CASE Latest(s)
  <2>1. "latest" \in Ops
    BY OpsNamed
  <2>2. CASE Finish(s, "latest", "empty") /\ UNCHANGED <<subCursor, start>>
    BY <1>0, <1>10, <2>1, <2>2, FinishEffect
    DEF Latest, ringVars, RingTypeOK, SubTypeOK, Blank
  <2>3. CASE ~(Finish(s, "latest", "empty") /\ UNCHANGED <<subCursor, start>>)
    <3>1. /\ cursor \in 0 .. MaxSeq
          /\ subCursor' = [subCursor EXCEPT ![s] = cursor]
          /\ start' = [start EXCEPT ![s] = Nothing]
          /\ pc' = [pc EXCEPT ![s] = "read"]
          /\ op' = [op EXCEPT ![s] = "latest"]
          /\ buf' = [buf EXCEPT ![s] = Blank]
          /\ UNCHANGED <<ringVars, kind, tracker, ret, received, lagged>>
      BY <1>0, <1>10, <2>3 DEF Latest, RingTypeOK, Seqs
    <3>. QED BY <1>0, <2>1, <3>1 DEF ringVars, RingTypeOK, SubTypeOK, Blank, Pcs
  <2>. QED BY <2>2, <2>3
<1>11. CASE LoadWord(s)
  <2>1. Slot(subCursor[s]) \in Slots
    BY <1>0, SlotInRange DEF SubTypeOK
  <2>. QED BY <1>0, <1>11, <2>1 DEF LoadWord, ringVars, RingTypeOK, SubTypeOK
<1>12. CASE Recheck(s)
  <2>1. \E r \in {"ok", "empty"} : Finish(s, op[s], r)
    BY <1>12 DEF Recheck
  <2>2. pc' \in [Subs -> Pcs] /\ op' \in [Subs -> Ops] /\ ret' \in [Subs -> Results]
    BY <1>0, <2>1, FinishEffect DEF SubTypeOK
  <2>3. StampUnchanged(s) => subCursor[s] + 1 \in 0 .. MaxSeq
    BY DEF Seqs
  <2>4. subCursor' \in [Subs -> 0 .. MaxSeq] /\ received' \in [Subs -> Nat]
    <3>1. CASE StampUnchanged(s)
      <4>1. /\ subCursor' = [subCursor EXCEPT ![s] = @ + 1]
            /\ received' = [received EXCEPT ![s] = @ + 1]
        BY <1>12, <3>1 DEF Recheck
      <4>. QED BY <1>0, <2>3, <3>1, <4>1 DEF SubTypeOK
    <3>2. CASE ~StampUnchanged(s)
      BY <1>0, <1>12, <3>2 DEF Recheck, SubTypeOK
    <3>. QED BY <3>1, <3>2
  <2>5. buf' \in [Subs -> [Words -> Seqs \cup {Nothing}]]
    <3>1. buf \in [Subs -> [Words -> Seqs \cup {Nothing}]]
      BY <1>0, Zenon DEF SubTypeOK
    <3>2. buf' = buf \/ buf' = [buf EXCEPT ![s] = Blank]
      BY <1>12, Zenon DEF Recheck
    <3>3. Blank \in [Words -> Seqs \cup {Nothing}]
      BY DEF Blank
    <3>. QED BY <3>1, <3>2, <3>3
  <2>6. UNCHANGED <<ringVars, kind, tracker, lagged, start>>
    BY <1>12 DEF Recheck
  <2>. QED BY <1>0, <2>2, <2>4, <2>5, <2>6 DEF ringVars, RingTypeOK, SubTypeOK
<1>13. CASE SkipLag(s)
  <2>1. \E r \in {"lagged", "empty"} : Finish(s, op[s], r)
    BY <1>13 DEF SkipLag
  <2>2. pc' \in [Subs -> Pcs] /\ op' \in [Subs -> Ops] /\ ret' \in [Subs -> Results]
    BY <1>0, <2>1, FinishEffect DEF SubTypeOK
  <2>3. subCursor' \in [Subs -> 0 .. MaxSeq] /\ lagged' \in [Subs -> Nat]
    <3> DEFINE oldest == OldestAt(cursor)
    <3>1. \/ /\ subCursor[s] < oldest
             /\ subCursor' = [subCursor EXCEPT ![s] = oldest]
             /\ lagged' = [lagged EXCEPT ![s] = @ + (oldest - subCursor[s])]
          \/ UNCHANGED <<subCursor, lagged>>
      BY <1>13 DEF SkipLag, Skipped
    <3>2. oldest \in 0 .. MaxSeq
      BY <1>0
    <3>3. subCursor \in [Subs -> 0 .. MaxSeq] /\ lagged \in [Subs -> Nat]
      BY <1>0 DEF SubTypeOK
    <3> HIDE DEF oldest
    <3>4. subCursor' \in [Subs -> 0 .. MaxSeq]
      BY <3>1, <3>2, <3>3
    <3>5. lagged' \in [Subs -> Nat]
      BY <3>1, <3>2, <3>3
    <3>. QED BY <3>4, <3>5
  <2>4. UNCHANGED <<ringVars, kind, tracker, buf, received, start>>
    BY <1>13 DEF SkipLag
  <2>. QED BY <1>0, <2>2, <2>3, <2>4 DEF ringVars, RingTypeOK, SubTypeOK
<1>14. CASE StoreTracker(s)
  <2>1. After(op[s], ret[s]) \in Pcs /\ "none" \in Ops
    BY <1>0, AfterCases, OpsNamed DEF SubTypeOK, Pcs
  <2>. QED BY <1>0, <1>14, <2>1 DEF StoreTracker, ringVars, RingTypeOK, SubTypeOK
<1>. QED BY <1>1, <1>2, <1>3, <1>4, <1>5, <1>6, <1>7, <1>8, <1>9, <1>10, <1>11,
            <1>12, <1>13, <1>14 DEF SubStep, RegisterStep, CallStep

\* The seqlock read: a copy under an unchanged stamp is the message wanted.
LEMMA SubReads ==
  ASSUME SubTypeOK, ContentInv, ReaderInv, FreshInv, NoTornRead,
         NEW s \in Subs, SubStep(s), StampUnchanged(s) => subCursor[s] \in Seqs
  PROVE  ReaderInv' /\ FreshInv' /\ NoTornRead'
<1>0. UNCHANGED <<stamp, value>>
  BY SubFrame
<1>a. \A u \in Subs : subCursor[u] \in Nat
  BY DEF SubTypeOK
<1>t. /\ pc \in [Subs -> Pcs] /\ kind \in [Subs -> Kinds] /\ ret \in [Subs -> Results]
      /\ subCursor \in [Subs -> 0 .. MaxSeq]
      /\ buf \in [Subs -> [Words -> Seqs \cup {Nothing}]]
      /\ received \in [Subs -> Nat] /\ lagged \in [Subs -> Nat]
      /\ start \in [Subs -> (0 .. MaxSeq) \cup {Nothing}]
  BY Zenon DEF SubTypeOK
<1> DEFINE Same(u) == /\ pc'[u] = pc[u] /\ kind'[u] = kind[u] /\ ret'[u] = ret[u]
                      /\ subCursor'[u] = subCursor[u] /\ buf'[u] = buf[u]
                      /\ received'[u] = received[u] /\ lagged'[u] = lagged[u]
                      /\ start'[u] = start[u]
           Fresh ==
             /\ pc'[s] \in {"absent", "locked", "push", "register", "idle"}
             /\ ret'[s] = "none" /\ received'[s] = 0 /\ lagged'[s] = 0
             /\ pc'[s] \in {"absent", "locked"} =>
                   kind'[s] = "none" /\ subCursor'[s] = 0 /\ start'[s] = 0
             /\ pc'[s] = "register" => kind'[s] = "oldest"
             /\ pc'[s] = "push" => kind'[s] = "head"
             /\ \A u \in Subs \ {s} : Same(u)
           FreshFor(u) ==
             /\ pc[u] \in {"absent", "locked", "push", "register"} =>
                   ret[u] = "none" /\ received[u] = 0 /\ lagged[u] = 0
             /\ pc[u] \in {"absent", "locked"} =>
                   kind[u] = "none" /\ subCursor[u] = 0 /\ start[u] = 0
             /\ pc[u] = "register" => kind[u] = "oldest"
             /\ pc[u] = "push" => kind[u] = "head"
<1>g. \A u \in Subs : FreshFor(u)
  BY Zenon DEF FreshInv
<1>h. (\A u \in Subs : FreshFor(u)') => FreshInv'
  BY Zenon DEF FreshInv
\* Construction: nothing has been read, and nobody else is concerned.
<1>b. ASSUME Fresh PROVE ReaderInv' /\ FreshInv' /\ NoTornRead'
  <2>1. ReaderInv'
    BY <1>0, <1>b, Zenon DEF ReaderInv
  <2>2. FreshInv'
    <3>1. ASSUME NEW u \in Subs \ {s} PROVE FreshFor(u)'
      <4>1. FreshFor(u)
        BY <1>g, Zenon
      <4>2. Same(u)
        BY <1>b, Zenon
      <4>. QED BY <4>1, <4>2
    <3>2. FreshFor(s)'
      BY <1>b
    <3>. QED BY <1>h, <3>1, <3>2, Zenon
  <2>3. NoTornRead'
    BY <1>b, Zenon DEF NoTornRead
  <2>. QED BY <2>1, <2>2, <2>3
<1>f. pc[s] \in {"absent", "locked", "push", "register"} =>
         /\ ret[s] = "none" /\ received[s] = 0 /\ lagged[s] = 0
         /\ pc[s] \in {"absent", "locked"} =>
               kind[s] = "none" /\ subCursor[s] = 0 /\ start[s] = 0
  BY <1>g, Zenon
<1>c. ASSUME NEW k, NEW n, NEW v, NEW q \in {"idle", "register"}, Create(s, k, n, v, q),
             q = "register" => k = "oldest"
      PROVE  ReaderInv' /\ FreshInv' /\ NoTornRead'
  <2>1. Fresh
    BY <1>t, <1>f, <1>c DEF Create
  <2>. QED BY <1>b, <2>1, Zenon
<1>1. CASE SubscribeLossy(s) \/ SubscribeTracked(s) \/ SubscribeFromOldest(s)
  BY <1>1, <1>c DEF SubscribeLossy, SubscribeTracked, SubscribeFromOldest
<1>4. CASE LockTrackers(s)
  <2>1. Fresh
    BY <1>t, <1>f, <1>4 DEF LockTrackers
  <2>. QED BY <1>b, <2>1, Zenon
<1>5. CASE RegisterOldest(s)
  <2>1. Fresh
    BY <1>t, <1>f, <1>5 DEF RegisterOldest
  <2>. QED BY <1>b, <2>1, Zenon
<1>6. CASE LoadHead(s)
  <2>1. Fresh
    BY <1>t, <1>f, <1>6 DEF LoadHead
  <2>. QED BY <1>b, <2>1, Zenon
<1>7. CASE PushTracker(s)
  <2>1. Fresh
    BY <1>t, <1>f, <1>7 DEF PushTracker
  <2>. QED BY <1>b, <2>1, Zenon
<1>8. CASE DropSubscriber(s)
  <2>1. Fresh
    BY <1>t, <1>f, <1>8 DEF DropSubscriber
  <2>. QED BY <1>b, <2>1, Zenon
<1>9. CASE Receive(s)
  <2>1. PICK o \in Ops : LoadStamp(s, o)
    BY <1>9, ReceiveEffect
  <2>2. pc[s] \in {"idle", "read"}
    BY <1>9, ReceiveEffect
  <2>3. /\ buf' = [buf EXCEPT ![s] = Blank]
        /\ pc'[s] \in {"words", "lag", "idle", "latest", "read", "track"}
        /\ pc'[s] = "words" => stamp[Slot(subCursor[s])] = Done(subCursor[s])
        /\ pc'[s] \in {"words", "lag"} \/ ret'[s] = "empty"
        /\ \A u \in Subs \ {s} : pc'[u] = pc[u] /\ ret'[u] = ret[u]
        /\ UNCHANGED <<kind, subCursor, received, lagged, start>>
    BY <2>1, LoadStampEffect
  <2>4. ReaderInv'
    <3>1. stamp[Slot(subCursor[s])] = Done(subCursor[s]) =>
             stamp[Slot(subCursor[s])] >= Done(subCursor[s])
      BY <1>a DEF Done
    <3>2. \A u \in Subs \ {s} : buf'[u] = buf[u]
      BY <1>t, <2>3
    <3>3. \A w \in Words : buf'[s][w] = Nothing
      BY <1>t, <2>3 DEF Blank
    <3>. QED BY <1>0, <2>3, <3>1, <3>2, <3>3, Zenon DEF ReaderInv
  <2>5. FreshInv'
    BY <2>2, <2>3 DEF FreshInv
  <2>6. NoTornRead'
    <3>1. \A u \in Subs \ {s} : buf'[u] = buf[u]
      BY <1>t, <2>3
    <3>2. ~(ret'[s] = "ok" /\ pc'[s] \in {"idle", "track"})
      BY <2>3
    <3>. QED BY <2>3, <3>1, <3>2, Zenon DEF NoTornRead
  <2>. QED BY <2>4, <2>5, <2>6
<1>10. CASE Latest(s)
  <2>1. /\ pc'[s] \in {"read", "idle", "latest", "track"}
        /\ pc'[s] = "read" \/ ret'[s] = "empty"
        /\ \/ UNCHANGED <<subCursor, start>>
           \/ /\ subCursor' = [subCursor EXCEPT ![s] = cursor]
              /\ start' = [start EXCEPT ![s] = Nothing]
        /\ buf' = [buf EXCEPT ![s] = Blank]
        /\ \A u \in Subs \ {s} : pc'[u] = pc[u] /\ ret'[u] = ret[u]
        /\ UNCHANGED <<kind, received, lagged>>
    BY <1>10, LatestEffect
  <2>2. pc[s] \in {"idle", "latest"}
    BY <1>10 DEF Latest
  <2>3. /\ \A u \in Subs \ {s} : /\ buf'[u] = buf[u] /\ subCursor'[u] = subCursor[u]
                                 /\ start'[u] = start[u]
        /\ pc'[s] # "words" /\ ~(ret'[s] = "ok" /\ pc'[s] \in {"idle", "track"})
    BY <1>t, <2>1
  <2>4. ReaderInv'
    BY <1>0, <2>1, <2>3, Zenon DEF ReaderInv
  <2>5. NoTornRead'
    BY <2>1, <2>3, Zenon DEF NoTornRead
  <2>6. FreshInv'
    <3>1. \A u \in Subs \ {s} : FreshFor(u)'
      BY <1>g, <2>1, <2>3, Zenon
    <3>2. FreshFor(s)'
      BY <2>1
    <3>. QED BY <1>h, <3>1, <3>2, Zenon
  <2>. QED BY <2>4, <2>5, <2>6
<1>11. CASE LoadWord(s)
  <2>1. PICK w \in Words : buf' = [buf EXCEPT ![s][w] = value[Slot(subCursor[s])][w]]
    BY <1>11, Zenon DEF LoadWord
  <2>2. UNCHANGED <<pc, kind, subCursor, ret, received, lagged, start>> /\ pc[s] = "words"
    BY <1>11 DEF LoadWord
  <2>3. stamp[Slot(subCursor[s])] = Done(subCursor[s]) =>
           value[Slot(subCursor[s])][w] = subCursor[s]
    BY <1>a, SlotInRange DEF StampUnchanged, ContentInv
  <2>4. /\ \A u \in Subs \ {s} : buf'[u] = buf[u]
        /\ \A x \in Words : buf'[s][x] \in {buf[s][x], value[Slot(subCursor[s])][w]}
        /\ \A x \in Words : x # w => buf'[s][x] = buf[s][x]
        /\ buf'[s][w] = value[Slot(subCursor[s])][w]
    BY <1>t, <2>1
  <2>5. ReaderInv'
    BY <1>0, <2>2, <2>3, <2>4 DEF ReaderInv
  <2>6. FreshInv'
    BY <2>2, Zenon DEF FreshInv
  <2>7. NoTornRead'
    BY <2>2, <2>4 DEF NoTornRead
  <2>. QED BY <2>5, <2>6, <2>7
<1>12. CASE Recheck(s)
  <2> DEFINE n == subCursor[s]
  <2>1. /\ pc[s] = "words"
        /\ pc'[s] \in {"idle", "latest", "read", "track"}
        /\ \A u \in Subs \ {s} : pc'[u] = pc[u] /\ ret'[u] = ret[u]
        /\ UNCHANGED <<kind, lagged, start>>
    BY <1>12, RecheckEffect
  <2>2. CASE /\ stamp[Slot(n)] = Done(n)
             /\ \A w \in Words : buf[s][w] # Nothing
             /\ subCursor' = [subCursor EXCEPT ![s] = @ + 1]
             /\ received' = [received EXCEPT ![s] = @ + 1]
             /\ UNCHANGED buf
    <3>1. \A w \in Words : buf[s][w] = n
      BY <2>1, <2>2 DEF ReaderInv
    <3>2. subCursor'[s] = n + 1 /\ \A u \in Subs \ {s} : subCursor'[u] = subCursor[u]
      BY <1>t, <2>2
    <3>3. ReaderInv'
      BY <1>0, <2>1, <2>2, <3>2, Zenon DEF ReaderInv
    <3>4. FreshInv'
      <4>1. \A u \in Subs \ {s} : received'[u] = received[u]
        BY <1>t, <2>2
      <4>. QED BY <2>1, <2>2, <3>2, <4>1 DEF FreshInv
    <3>5. NoTornRead'
      <4>1. \A w \in Words : buf'[s][w] = subCursor'[s] - 1
        <5>1. buf' = buf
          BY <2>2, Zenon
        <5>2. (n + 1) - 1 = n
          BY <1>a
        <5>. QED BY <3>1, <3>2, <5>1, <5>2, Zenon
      <4>. QED BY <2>1, <2>2, <3>2, <4>1, Zenon DEF NoTornRead
    <3>. QED BY <3>3, <3>4, <3>5
  <2>3. CASE /\ ret'[s] = "empty"
             /\ buf' = [buf EXCEPT ![s] = Blank]
             /\ UNCHANGED <<subCursor, received>>
    <3>1. /\ \A u \in Subs \ {s} : buf'[u] = buf[u]
          /\ pc'[s] # "words" /\ ~(ret'[s] = "ok" /\ pc'[s] \in {"idle", "track"})
      BY <1>t, <2>1, <2>3
    <3>2. ReaderInv'
      BY <1>0, <2>1, <2>3, <3>1, Zenon DEF ReaderInv
    <3>3. FreshInv'
      BY <2>1, <2>3 DEF FreshInv
    <3>4. NoTornRead'
      BY <2>1, <2>3, <3>1, Zenon DEF NoTornRead
    <3>. QED BY <3>2, <3>3, <3>4
  <2>. QED BY <1>12, <2>2, <2>3, RecheckEffect
<1>13. CASE SkipLag(s)
  <2> DEFINE oldest == OldestAt(cursor)
  <2>1. /\ pc[s] = "lag"
        /\ pc'[s] \in {"idle", "latest", "read", "track"}
        /\ ret'[s] # "ok"
        /\ \A u \in Subs \ {s} : pc'[u] = pc[u] /\ ret'[u] = ret[u]
        /\ UNCHANGED <<kind, buf, received, start>>
        /\ \/ /\ subCursor' = [subCursor EXCEPT ![s] = oldest]
              /\ lagged' = [lagged EXCEPT ![s] = @ + (oldest - subCursor[s])]
           \/ UNCHANGED <<subCursor, lagged>>
    BY <1>13, SkipLagEffect, Zenon
  <2> HIDE DEF oldest
  <2>2. \A u \in Subs \ {s} : subCursor'[u] = subCursor[u] /\ lagged'[u] = lagged[u]
    BY <1>t, <2>1
  <2>3. ReaderInv' /\ NoTornRead'
    <3>1. ReaderInv'
      BY <1>0, <2>1, <2>2 DEF ReaderInv
    <3>2. NoTornRead'
      BY <2>1, <2>2 DEF NoTornRead
    <3>. QED BY <3>1, <3>2
  <2>4. FreshInv'
    BY <2>1, <2>2 DEF FreshInv
  <2>. QED BY <2>3, <2>4
<1>14. CASE StoreTracker(s)
  <2>1. /\ pc[s] = "track" /\ pc'[s] \in {"idle", "latest", "read"}
        /\ \A u \in Subs \ {s} : pc'[u] = pc[u]
        /\ UNCHANGED <<kind, subCursor, buf, ret, received, lagged, start>>
    BY <1>t, <1>14, AfterCases DEF StoreTracker, SubTypeOK
  <2>2. ReaderInv'
    BY <1>0, <2>1 DEF ReaderInv
  <2>3. FreshInv'
    BY <2>1 DEF FreshInv
  <2>4. NoTornRead'
    BY <2>1 DEF NoTornRead
  <2>. QED BY <2>2, <2>3, <2>4
<1>. QED BY <1>1, <1>4, <1>5, <1>6, <1>7, <1>8, <1>9, <1>10, <1>11,
            <1>12, <1>13, <1>14 DEF SubStep, RegisterStep, CallStep

----------------------------------------------------------------------------
(* What a subscriber's steps do on a lossy ring, and to what it knows of   *)
(* its slot.                                                               *)

\* On a lossy ring no subscriber gates the publisher or is about to.
LossyInv ==
  ~Bounded => \A s \in Subs : /\ kind[s] # "head"
                              /\ pc[s] \notin {"locked", "push", "register"}

LEMMA LossySub ==
  ASSUME SubTypeOK, LossyInv, NEW u \in Subs, SubStep(u)
  PROVE  LossyInv'
<1> SUFFICES ASSUME ~Bounded, NEW s \in Subs
             PROVE  kind'[s] # "head" /\ pc'[s] \notin {"locked", "push", "register"}
  BY DEF LossyInv
<1>0. \A v \in Subs : kind[v] # "head" /\ pc[v] \notin {"locked", "push", "register"}
  BY Zenon DEF LossyInv
<1>2. CASE SubscribeLossy(u) \/ SubscribeTracked(u) \/ SubscribeFromOldest(u)
  BY <1>0, <1>2 DEF SubscribeLossy, SubscribeTracked, SubscribeFromOldest, Create, SubTypeOK
<1>3. CASE LockTrackers(u) \/ RegisterStep(u) \/ DropSubscriber(u)
  BY <1>0, <1>3, Zenon DEF LockTrackers, RegisterStep, RegisterOldest, LoadHead, PushTracker,
     DropSubscriber, SubTypeOK
<1>4. CASE CallStep(u)
  BY <1>0, <1>4, CallEffect, Zenon
<1>. QED BY <1>2, <1>3, <1>4, Zenon DEF SubStep

\* A slot found newer than the message wanted stays newer.
LagInv ==
  \A s \in Subs : pc[s] = "lag" => stamp[Slot(subCursor[s])] > Done(subCursor[s])

\* A subscriber comes to "lag" only when the first stamp load finds a newer slot.
LEMMA LagSub ==
  ASSUME SubTypeOK, LagInv, NEW u \in Subs, SubStep(u)
  PROVE  LagInv'
<1> SUFFICES ASSUME NEW s \in Subs, pc'[s] = "lag"
             PROVE  stamp[Slot(subCursor'[s])] > Done(subCursor'[s])
  BY SubFrame, Zenon DEF LagInv
<1>0. /\ pc \in [Subs -> Pcs] /\ subCursor \in [Subs -> 0 .. MaxSeq] /\ op[u] \in Ops
      /\ pc[s] = "lag" => stamp[Slot(subCursor[s])] > Done(subCursor[s])
  BY Zenon DEF SubTypeOK, LagInv
<1>1. CASE pc'[s] = pc[s] /\ subCursor'[s] = subCursor[s]
  BY <1>0, <1>1, Zenon
<1>2. CASE SubscribeLossy(u) \/ SubscribeTracked(u) \/ SubscribeFromOldest(u)
  BY <1>0, <1>1, <1>2, Zenon DEF SubscribeLossy, SubscribeTracked, SubscribeFromOldest, Create
<1>3. CASE LockTrackers(u) \/ RegisterStep(u) \/ DropSubscriber(u)
  BY <1>0, <1>1, <1>3, Zenon DEF LockTrackers, RegisterStep, RegisterOldest, LoadHead,
     PushTracker, DropSubscriber
<1>4. CASE Receive(u)
  <2>1. PICK o \in Ops : LoadStamp(u, o) BY <1>4, ReceiveEffect, Zenon
  <2>2. CASE s = u
    <3>1. stamp[Slot(subCursor[u])] > Done(subCursor[u]) /\ UNCHANGED subCursor
      BY <1>0, <2>1, <2>2, FinishEffect, Zenon DEF LoadStamp
    <3> QED BY <2>2, <3>1, Zenon
  <2>3. CASE s # u
    BY <1>1, <2>1, <2>3, LoadStampEffect, Zenon
  <2> QED BY <2>2, <2>3, Zenon
<1>5. CASE Latest(u)
  BY <1>0, <1>1, <1>5, LatestEffect, Zenon
<1>6. CASE LoadWord(u)
  BY <1>1, <1>6, Zenon DEF LoadWord
<1>7. CASE Recheck(u)
  BY <1>0, <1>1, <1>7, RecheckEffect, Zenon
<1>8. CASE SkipLag(u)
  BY <1>0, <1>1, <1>8, SkipLagEffect, Zenon
<1>9. CASE StoreTracker(u)
  <2>1. After(op[u], ret[u]) # "lag" BY <1>0, AfterCases, Zenon
  <2> QED BY <1>0, <1>1, <1>9, <2>1, Zenon DEF StoreTracker
<1> QED BY <1>2, <1>3, <1>4, <1>5, <1>6, <1>7, <1>8, <1>9, Zenon DEF SubStep, CallStep

\* Only the subscriber's own call ends it, in one of three places, or latest().
LEMMA WhoSaysEmpty ==
  ASSUME SubTypeOK, NEW u \in Subs, SubStep(u), NEW s \in Subs,
         ret'[s] = "empty", pc'[s] \notin {"words", "lag"},
         pc[s] \in {"words", "lag"} \/ ret[s] # "empty"
  PROVE  \/ Latest(s)
         \/ Receive(s)
         \/ Recheck(s) /\ ~StampUnchanged(s)
         \/ SkipLag(s)
<1>0. /\ pc \in [Subs -> Pcs] /\ ret \in [Subs -> Results] /\ op[u] \in Ops
      /\ ~(pc'[s] = pc[s] /\ ret'[s] = ret[s])
  BY Zenon DEF SubTypeOK
<1>2. CASE SubscribeLossy(u) \/ SubscribeTracked(u) \/ SubscribeFromOldest(u)
  <2>1. pc[u] = "absent" /\ ret' = ret /\ \A v \in Subs \ {u} : pc'[v] = pc[v]
    BY <1>0, <1>2, Zenon DEF SubscribeLossy, SubscribeTracked, SubscribeFromOldest, Create
  <2> QED BY <1>0, <2>1, Zenon
<1>3. CASE LockTrackers(u) \/ RegisterStep(u)
  <2>1. /\ pc[u] \notin {"words", "lag"} /\ ret' = ret
        /\ \A v \in Subs \ {u} : pc'[v] = pc[v]
    BY <1>0, <1>3, Zenon DEF LockTrackers, RegisterStep, RegisterOldest, LoadHead, PushTracker
  <2> QED BY <1>0, <2>1, Zenon
<1>4. CASE DropSubscriber(u)
  <2>1. /\ ret'[u] = "none" /\ \A v \in Subs \ {u} : pc'[v] = pc[v] /\ ret'[v] = ret[v]
    BY <1>0, <1>4, Zenon DEF DropSubscriber
  <2> QED BY <1>0, <2>1, Zenon
<1>5. CASE Receive(u)
  <2>1. PICK o \in Ops : LoadStamp(u, o) BY <1>5, ReceiveEffect, Zenon
  <2>2. s = u BY <1>0, <2>1, LoadStampEffect, Zenon
  <2> QED BY <1>5, <2>2, Zenon
<1>6. CASE Latest(u)
  <2>1. \A v \in Subs \ {u} : pc'[v] = pc[v] /\ ret'[v] = ret[v]
    BY <1>6, LatestEffect, Zenon
  <2> QED BY <1>0, <1>6, <2>1, Zenon
<1>7. CASE LoadWord(u)
  BY <1>0, <1>7, Zenon DEF LoadWord
<1>8. CASE Recheck(u)
  <2>1. s = u BY <1>0, <1>8, RecheckEffect, Zenon
  <2>2. ~StampUnchanged(u)
    <3>1. StampUnchanged(u) => Finish(u, op[u], "ok") BY <1>8, Zenon DEF Recheck
    <3> QED BY <1>0, <2>1, <3>1, FinishEffect, Zenon
  <2> QED BY <1>8, <2>1, <2>2, Zenon
<1>9. CASE SkipLag(u)
  BY <1>0, <1>9, SkipLagEffect, Zenon
<1>10. CASE StoreTracker(u)
  <2>1. pc[u] = "track" /\ ret' = ret /\ \A v \in Subs \ {u} : pc'[v] = pc[v]
    BY <1>0, <1>10, Zenon DEF StoreTracker
  <2> QED BY <1>0, <2>1, Zenon
<1> QED BY <1>2, <1>3, <1>4, <1>5, <1>6, <1>7, <1>8, <1>9, <1>10, Zenon
        DEF SubStep, CallStep

----------------------------------------------------------------------------
(* The counters.                                                           *)

\* How a step may change the four numbers of a subscriber: a new or a dropped
\* one has none, a jump ends the account, a call moves and counts alike.
Counts(s) ==
  \/ received'[s] = 0 /\ lagged'[s] = 0 /\ start'[s] = subCursor'[s]
  \/ start'[s] = Nothing
  \/ /\ start'[s] = start[s]
     /\ received'[s] + lagged'[s] - subCursor'[s] = received[s] + lagged[s] - subCursor[s]

LEMMA CountsKept ==
  ASSUME SubTypeOK, SubTypeOK', EveryMessageAccounted, \A s \in Subs : Counts(s)
  PROVE  EveryMessageAccounted'
<1> SUFFICES ASSUME NEW s \in Subs, start'[s] # Nothing
             PROVE  received'[s] + lagged'[s] = subCursor'[s] - start'[s]
  BY Zenon DEF EveryMessageAccounted
<1>1. /\ subCursor[s] \in Nat /\ received[s] \in Nat /\ lagged[s] \in Nat
      /\ start[s] \in Int /\ subCursor'[s] \in Nat /\ received'[s] \in Nat
      /\ lagged'[s] \in Nat /\ start'[s] \in Int
  BY DEF SubTypeOK, Nothing
<1>2. CASE received'[s] = 0 /\ lagged'[s] = 0 /\ start'[s] = subCursor'[s]
  BY <1>1, <1>2
<1>3. CASE /\ start'[s] = start[s]
           /\ received'[s] + lagged'[s] - subCursor'[s] = received[s] + lagged[s] - subCursor[s]
  <2>1. received[s] + lagged[s] = subCursor[s] - start[s]
    BY <1>3, Zenon DEF EveryMessageAccounted
  <2>. QED BY <1>1, <1>3, <2>1
<1>. QED BY <1>2, <1>3, Zenon DEF Counts

\* The first message in the ring is a message.
LEMMA OldestIsNat == RingTypeOK => OldestAt(cursor) \in Nat
  BY CapacityAssumption, MaxSeqAssumption DEF RingTypeOK, OldestAt, Seqs, Nothing

LEMMA AccountSub ==
  ASSUME RingTypeOK, SubTypeOK, SubTypeOK', FreshInv, EveryMessageAccounted,
         NEW s \in Subs, SubStep(s)
  PROVE  EveryMessageAccounted'
<1>0. /\ OldestAt(cursor) \in Nat
      /\ subCursor \in [Subs -> Nat] /\ received \in [Subs -> Nat] /\ lagged \in [Subs -> Nat]
  BY OldestIsNat DEF SubTypeOK
<1> SUFFICES \A u \in Subs : Counts(u)
  BY CountsKept
<1>1. ASSUME NEW k, NEW n, NEW v, NEW p, Create(s, k, n, v, p) PROVE \A u \in Subs : Counts(u)
  BY <1>1, Zenon DEF Create, FreshInv, SubTypeOK, Counts
<1>2. CASE SubscribeLossy(s) \/ SubscribeTracked(s) \/ SubscribeFromOldest(s)
  BY <1>1, <1>2, Zenon DEF SubscribeLossy, SubscribeTracked, SubscribeFromOldest
<1>3. CASE LoadHead(s)
  BY <1>3, Zenon DEF LoadHead, FreshInv, SubTypeOK, Counts
<1>4. CASE DropSubscriber(s)
  <2>1. /\ received'[s] = 0 /\ lagged'[s] = 0 /\ start'[s] = subCursor'[s]
        /\ \A u \in Subs \ {s} : /\ received'[u] = received[u] /\ lagged'[u] = lagged[u]
                                /\ start'[u] = start[u] /\ subCursor'[u] = subCursor[u]
    <3>1. start \in [Subs -> 0 .. MaxSeq \cup {Nothing}]
      BY Zenon DEF SubTypeOK
    <3>. QED BY <1>0, <1>4, <3>1, Zenon DEF DropSubscriber
  <2>. QED BY <2>1, Zenon DEF Counts
<1>5. CASE UNCHANGED <<subCursor, start, received, lagged>>
  BY <1>5, Zenon DEF Counts
<1>6. CASE LockTrackers(s) \/ RegisterOldest(s) \/ PushTracker(s)
  BY <1>5, <1>6, Zenon DEF LockTrackers, RegisterOldest, PushTracker
<1>7. CASE /\ subCursor' = [subCursor EXCEPT ![s] = @ + 1]
           /\ received' = [received EXCEPT ![s] = @ + 1]
           /\ UNCHANGED <<lagged, start>>
  BY <1>0, <1>7 DEF Counts
<1>8. CASE /\ subCursor' = [subCursor EXCEPT ![s] = OldestAt(cursor)]
           /\ lagged' = [lagged EXCEPT ![s] = @ + (OldestAt(cursor) - subCursor[s])]
           /\ UNCHANGED <<received, start>>
  <2>1. PICK n \in Nat : n = OldestAt(cursor)
    BY <1>0
  <2>. QED BY <1>0, <1>8, <2>1 DEF Counts
<1>9. CASE /\ subCursor' = [subCursor EXCEPT ![s] = cursor]
           /\ start' = [start EXCEPT ![s] = Nothing]
           /\ UNCHANGED <<received, lagged>>
  BY <1>9, Zenon DEF SubTypeOK, Counts
<1>10. CASE CallStep(s)
  BY <1>5, <1>7, <1>8, <1>9, <1>10, CallEffect, Zenon
<1>. QED BY <1>2, <1>3, <1>4, <1>6, <1>10, Zenon DEF SubStep, RegisterStep

\* A step that counts nothing says nothing.
LEMMA NothingCounted ==
  ASSUME SubTypeOK, UNCHANGED lagged
  PROVE  SkippedWereOverwritten
<1>1. ASSUME NEW s \in Subs PROVE ~(lagged'[s] > lagged[s])
  BY DEF SubTypeOK
<1>. QED BY <1>1, Zenon DEF SkippedWereOverwritten

\* Messages a ring behind the cursor are overwritten, and only those are skipped.
LEMMA LagSkips ==
  ASSUME RingTypeOK, SubTypeOK, CursorBehindSlots, NEW u \in Subs, SubStep(u)
  PROVE  SkippedWereOverwritten
<1> SUFFICES ASSUME NEW s \in Subs, lagged'[s] > lagged[s],
                    NEW m \in Seqs, m \in subCursor[s] .. subCursor'[s] - 1
             PROVE  stamp[Slot(m)] > Done(m)
  BY Zenon DEF SkippedWereOverwritten
<1>0. /\ lagged[s] \in Nat /\ stamp \in [Slots -> Nat] /\ m \in Nat
      /\ subCursor \in [Subs -> Nat] /\ cursor \in Seqs \cup {Nothing}
      /\ OldestAt(cursor) \in Nat
  BY OldestIsNat DEF RingTypeOK, SubTypeOK, Seqs
<1>1. SkipLag(s) /\ lagged' # lagged
  BY <1>0, OnlySkipLagCounts
<1>2. cursor # Nothing /\ subCursor' = [subCursor EXCEPT ![s] = OldestAt(cursor)]
  BY <1>1, SkipLagEffect
<1>3. m < OldestAt(cursor) /\ cursor \in Seqs
  BY <1>0, <1>2
<1> DEFINE k == m + Capacity
<1>4. k \in Seqs /\ k <= cursor
  BY <1>0, <1>3, CapacityAssumption, MaxSeqAssumption DEF OldestAt, Seqs
<1>5. stamp[Slot(k)] >= Done(k) /\ Slot(k) = Slot(m)
  BY <1>0, <1>4, SlotNextLap, Zenon DEF CursorBehindSlots
<1>6. stamp[Slot(m)] \in Nat
  BY <1>0, SlotInRange, Zenon
<1>. QED BY <1>0, <1>5, <1>6, CapacityAssumption DEF Done
=============================================================================
