---------------------------- MODULE BarrierProofs ----------------------------
(***************************************************************************)
(* The safety of the dependency barrier, for every capacity, any number of *)
(* messages and any set of upstreams, on lossy and on bounded rings.       *)
(***************************************************************************)
EXTENDS Barrier, TLAPS

\* The upstreams: a tracker never runs ahead of the position it stands for, an
\* upstream of the barrier exists or is gone for good, and what it was told it
\* lost is more than a ring behind.
UpInv ==
  /\ shown[Ring] <= head[Ring]
  /\ \A u \in Ups :
        /\ on[u] = "none" => upPc[u] \in {"idle", "gone"}
        /\ on[u] # "none" => upPc[u] # "gone" /\ tracker[u] <= next[u]
        /\ u \in members => on[u] # "none" \/ upPc[u] = "gone"
        /\ \A m \in missed[u] : head[Ring] - m > Depth

\* The downstream: the minimum so far bounds the trackers loaded, although they
\* have moved on since, and behind the gate all of them are past its message.
DownInv ==
  /\ downPc # "idle" => on[Down] # "none" /\ members # {}
  /\ downPc = "scan" => \A u \in members \ toScan : slowest <= tracker[u]
  /\ downPc = "recv" => \A u \in members : next[Down] < tracker[u]
  /\ seen # {} => members # {}

IInv ==
  /\ TypeOK
  /\ UpInv
  /\ DownInv
  /\ NeverAheadOfUpstreams
  /\ NothingUpstreamsLost

----------------------------------------------------------------------------

LEMMA Names ==
  /\ Rings = {Ring} /\ Readers = Ups \cup {Down} /\ Down \notin Ups
  /\ Ring # "none" /\ Depth \in Nat /\ MaxHead \in Nat
  BY RingsAssumption, DepthAssumption, MaxHeadAssumption, BarrierAssumption

LEMMA OldestInRange ==
  ASSUME TypeOK
  PROVE  /\ Oldest(Ring) \in Nat
         /\ Oldest(Ring) <= shown[Ring]
         /\ Oldest(Ring) > 0 => Oldest(Ring) = shown[Ring] - Depth
  BY Names DEF TypeOK, BroadcastTypeOK, Oldest

\* What a subscriber of the one ring does to its position, whatever else happens.
LEMMA ReceiveEffect ==
  ASSUME TypeOK, NEW s \in Readers, Receive(s)
  PROVE  /\ on[s] = Ring /\ next[s] < head[Ring] /\ head[Ring] - next[s] <= Depth
         /\ next' = [next EXCEPT ![s] = @ + 1]
         /\ UNCHANGED <<head, shown, on>>
         /\ BroadcastTypeOK'
<1>1. on[s] = Ring
  BY Names DEF TypeOK, BroadcastTypeOK, Receive
<1>2. /\ next[s] < head[Ring] /\ head[Ring] - next[s] <= Depth
      /\ next' = [next EXCEPT ![s] = @ + 1]
      /\ received' = [received EXCEPT ![s] = @ + 1]
      /\ UNCHANGED <<head, shown, on, gated, start, lagged>>
  BY <1>1 DEF Receive
<1>. QED BY <1>1, <1>2, Names DEF TypeOK, BroadcastTypeOK

LEMMA LagEffect ==
  ASSUME TypeOK, NEW s \in Readers, Lag(s)
  PROVE  /\ on[s] = Ring /\ next[s] < Oldest(Ring)
         /\ next' = [next EXCEPT ![s] = Oldest(Ring)]
         /\ UNCHANGED <<head, shown, on>>
         /\ BroadcastTypeOK'
<1>1. on[s] = Ring
  BY Names DEF TypeOK, BroadcastTypeOK, Lag
<1>2. /\ next[s] < Oldest(Ring)
      /\ next' = [next EXCEPT ![s] = Oldest(Ring)]
      /\ lagged' = [lagged EXCEPT ![s] = @ + Oldest(Ring) - next[s]]
      /\ UNCHANGED <<head, shown, on, gated, start, received>>
  BY <1>1 DEF Lag
<1>3. Oldest(Ring) \in 0 .. MaxHead
  BY Names, OldestInRange DEF TypeOK, BroadcastTypeOK
<1> HIDE DEF Oldest
<1>. QED BY <1>1, <1>2, <1>3, Names DEF TypeOK, BroadcastTypeOK

LEMMA JoinEffect ==
  ASSUME TypeOK, NEW s \in Readers, NEW n \in 0 .. MaxHead, Join(s, Ring, n),
         gated' \subseteq gated \cup {s}
  PROVE  /\ on[s] = "none"
         /\ on' = [on EXCEPT ![s] = Ring]
         /\ next' = [next EXCEPT ![s] = n]
         /\ UNCHANGED <<head, shown>>
         /\ BroadcastTypeOK'
  BY Names DEF TypeOK, BroadcastTypeOK, Join

LEMMA LeaveEffect ==
  ASSUME TypeOK, NEW s \in Readers, Leave(s)
  PROVE  /\ on[s] = Ring
         /\ on' = [on EXCEPT ![s] = "none"]
         /\ next' = [next EXCEPT ![s] = 0]
         /\ UNCHANGED <<head, shown>>
         /\ BroadcastTypeOK'
  BY Names DEF TypeOK, BroadcastTypeOK, Leave

----------------------------------------------------------------------------
(* The publisher and the upstreams.                                        *)

LEMMA PublisherStep ==
  ASSUME IInv, PublishOrShow
  PROVE  IInv'
<1>0. /\ head[Ring] \in Nat /\ shown[Ring] \in Nat
      /\ UNCHANGED <<on, gated, start, next, received, lagged, bounded, upVars,
                     members, downVars>>
  BY Names DEF IInv, TypeOK, BroadcastTypeOK, PublishOrShow, Publish, Show
<1>1. /\ BroadcastTypeOK' /\ shown'[Ring] <= head'[Ring] /\ head[Ring] <= head'[Ring]
      /\ head'[Ring] \in Nat
  BY <1>0, Names DEF IInv, UpInv, TypeOK, BroadcastTypeOK, PublishOrShow, Publish, Show
<1>2. TypeOK'
  BY <1>0, <1>1 DEF IInv, TypeOK, upVars, downVars
<1>3. UpInv'
  <2>1. \A u \in Ups : \A m \in missed[u] : m \in Nat /\ head[Ring] - m > Depth
    BY Names DEF IInv, UpInv, TypeOK
  <2>2. \A u \in Ups : \A m \in missed[u] : head'[Ring] - m > Depth
    BY <1>0, <1>1, <2>1, Names
  <2>. QED BY <1>0, <1>1, <2>2 DEF IInv, UpInv, upVars
<1>4. DownInv' /\ NeverAheadOfUpstreams' /\ NothingUpstreamsLost'
  BY <1>0 DEF IInv, DownInv, NeverAheadOfUpstreams, NothingUpstreamsLost, upVars, downVars
<1>. QED BY <1>2, <1>3, <1>4 DEF IInv

LEMMA SubscribeStep ==
  ASSUME IInv, NEW u \in Ups, SubscribeTracked(u)
  PROVE  IInv'
<1>0. u \in Readers /\ u # Down /\ shown[Ring] \in 0 .. MaxHead /\ TypeOK
  BY Names DEF IInv, TypeOK, BroadcastTypeOK
<1>1. /\ on[u] = "none" /\ on' = [on EXCEPT ![u] = Ring]
      /\ next' = [next EXCEPT ![u] = shown[Ring]]
      /\ UNCHANGED <<head, shown>> /\ BroadcastTypeOK'
  BY <1>0, JoinEffect DEF SubscribeTracked, JoinHead
<1>2. /\ upPc[u] = "idle" /\ tracker' = [tracker EXCEPT ![u] = shown[Ring]]
      /\ UNCHANGED <<bounded, upPc, missed, members, downPc, toScan, slowest, seen>>
  BY DEF SubscribeTracked, downVars
<1>3. u \notin members
  BY <1>1, <1>2 DEF IInv, UpInv
<1>4. TypeOK'
  BY <1>0, <1>1, <1>2 DEF TypeOK
<1>5. /\ on'[u] = Ring /\ next'[u] = shown[Ring] /\ tracker'[u] = shown[Ring]
      /\ on'[Down] = on[Down] /\ next'[Down] = next[Down]
      /\ \A x \in Ups \ {u} : on'[x] = on[x] /\ next'[x] = next[x] /\ tracker'[x] = tracker[x]
  BY <1>0, <1>1, <1>2, Names DEF TypeOK, BroadcastTypeOK
<1>6. UpInv'
  BY <1>0, <1>1, <1>2, <1>5, Names DEF IInv, UpInv
<1>7. DownInv' /\ NeverAheadOfUpstreams' /\ NothingUpstreamsLost'
  BY <1>2, <1>3, <1>5 DEF IInv, DownInv, NeverAheadOfUpstreams, NothingUpstreamsLost, TypeOK
<1>. QED BY <1>4, <1>6, <1>7 DEF IInv

LEMMA UpRecvStep ==
  ASSUME IInv, NEW u \in Ups, UpRecv(u)
  PROVE  IInv'
<1>0. /\ u \in Readers /\ u # Down /\ TypeOK /\ BroadcastTypeOK
      /\ head[Ring] \in Nat /\ shown[Ring] \in Nat /\ shown[Ring] <= head[Ring]
      /\ next[u] \in Nat /\ tracker[u] \in Nat
  BY Names DEF IInv, UpInv, TypeOK, BroadcastTypeOK
<1>1. /\ upPc[u] = "idle" /\ upPc'[u] \in {"received", "lagged"}
      /\ \A x \in Ups \ {u} : upPc'[x] = upPc[x]
      /\ UNCHANGED <<bounded, tracker, members, downPc, toScan, slowest, seen>>
  BY <1>0 DEF UpRecv, UpGoto, TypeOK, downVars
<1>2. /\ on[u] = Ring /\ UNCHANGED <<head, shown, on>> /\ BroadcastTypeOK'
      /\ next'[u] >= next[u] /\ next'[u] \in Nat
      /\ \A x \in Readers \ {u} : next'[x] = next[x]
  <2>1. CASE Receive(u)
    BY <1>0, <2>1, ReceiveEffect DEF BroadcastTypeOK
  <2>2. CASE Lag(u)
    BY <1>0, <2>2, LagEffect, OldestInRange DEF BroadcastTypeOK
  <2>. QED BY <2>1, <2>2 DEF UpRecv
<1>3. /\ missed' \in [Ups -> SUBSET (0 .. MaxHead)]
      /\ \A x \in Ups \ {u} : missed'[x] = missed[x]
      /\ \A m \in missed'[u] : m \in missed[u] \/ (m >= next[u] /\ m < Oldest(Ring) /\ m \in Nat)
  <2>1. CASE UNCHANGED missed
    BY <1>0, <2>1 DEF TypeOK
  <2>2. CASE missed' = [missed EXCEPT ![u] = @ \cup next[u] .. Oldest(Ring) - 1]
    <3>1. next[u] .. Oldest(Ring) - 1 \subseteq 0 .. MaxHead
      BY <1>0, OldestInRange, Names DEF BroadcastTypeOK
    <3>2. Oldest(Ring) \in Nat
      BY <1>0, OldestInRange
    <3> HIDE DEF Oldest
    <3>. QED BY <1>0, <2>2, <3>1, <3>2 DEF TypeOK
  <2>. QED BY <2>1, <2>2 DEF UpRecv
<1>4. TypeOK'
  <2>1. upPc' \in [Ups -> UpPcs]
    BY <1>0 DEF UpRecv, UpGoto, TypeOK, UpPcs
  <2>. QED BY <1>0, <1>1, <1>2, <1>3, <2>1 DEF TypeOK
<1>5. UpInv'
  <2>1. \A m \in missed'[u] : head[Ring] - m > Depth
    <3> SUFFICES ASSUME NEW m \in missed'[u] PROVE head[Ring] - m > Depth
      OBVIOUS
    <3>1. CASE m \in missed[u]
      BY <3>1 DEF IInv, UpInv
    <3>2. CASE m < Oldest(Ring) /\ m \in Nat
      BY <1>0, <3>2, OldestInRange, Names
    <3>. QED BY <1>3, <3>1, <3>2
  <2>2. tracker[u] <= next'[u]
    BY <1>0, <1>2, Names DEF IInv, UpInv
  <2>3. ASSUME NEW x \in Ups
        PROVE  /\ on[x] = "none" => upPc'[x] \in {"idle", "gone"}
               /\ on[x] # "none" => upPc'[x] # "gone" /\ tracker[x] <= next'[x]
               /\ x \in members => on[x] # "none" \/ upPc'[x] = "gone"
               /\ \A m \in missed'[x] : head[Ring] - m > Depth
    <3>1. CASE x = u
      BY <1>1, <1>2, <2>1, <2>2, <3>1, Names
    <3>2. CASE x # u
      BY <1>1, <1>2, <1>3, <3>2, Names DEF IInv, UpInv
    <3>. QED BY <3>1, <3>2
  <2>. QED BY <1>0, <1>1, <1>2, <2>3 DEF UpInv
<1>6. DownInv' /\ NeverAheadOfUpstreams'
  BY <1>0, <1>1, <1>2, Names DEF IInv, DownInv, NeverAheadOfUpstreams
<1>7. NothingUpstreamsLost'
  <2> SUFFICES ASSUME NEW x \in members, NEW m \in seen, m \in missed'[x] PROVE FALSE
    BY <1>1 DEF NothingUpstreamsLost
  <2>1. x \in Ups /\ m \in Nat /\ m < tracker[x] /\ m \notin missed[x]
    BY Names DEF IInv, TypeOK, NeverAheadOfUpstreams, NothingUpstreamsLost
  <2>2. x = u /\ m >= next[u]
    BY <1>3, <2>1
  <2>3. tracker[u] <= next[u]
    BY <1>2, Names DEF IInv, UpInv
  <2>. QED BY <1>0, <2>1, <2>2, <2>3
<1>. QED BY <1>4, <1>5, <1>6, <1>7 DEF IInv

LEMMA UpdateTrackerStep ==
  ASSUME IInv, NEW u \in Ups, UpdateTracker(u)
  PROVE  IInv'
<1>0. /\ TypeOK /\ u \in Readers
      /\ \A x \in Ups : tracker[x] \in Nat /\ next[x] \in 0 .. MaxHead
      /\ \A m \in seen : m \in Nat
      /\ next[Down] \in Nat /\ slowest \in Nat
  BY Names DEF IInv, TypeOK, BroadcastTypeOK, Unset
<1>1. /\ upPc[u] \in {"received", "lagged"} /\ upPc'[u] \in {"handling", "idle"}
      /\ tracker'[u] = next[u]
      /\ \A x \in Ups \ {u} : upPc'[x] = upPc[x] /\ tracker'[x] = tracker[x]
      /\ UNCHANGED <<broadcastVars, bounded, missed, members, downPc, toScan, slowest, seen>>
  BY <1>0 DEF UpdateTracker, UpGoto, StoredTracker, TypeOK, downVars
<1>2. on[u] # "none" /\ tracker[u] <= next[u]
  BY <1>1 DEF IInv, UpInv
<1>3. \A x \in Ups : tracker'[x] \in Nat /\ tracker[x] <= tracker'[x]
  BY <1>0, <1>1, <1>2
<1>4. TypeOK'
  <2>1. tracker' \in [Ups -> 0 .. MaxHead] /\ upPc' \in [Ups -> UpPcs]
    BY <1>0 DEF UpdateTracker, UpGoto, StoredTracker, TypeOK, UpPcs
  <2>. QED BY <1>0, <1>1, <2>1 DEF TypeOK, BroadcastTypeOK, broadcastVars
<1>5. UpInv'
  BY <1>0, <1>1, <1>2 DEF IInv, UpInv, broadcastVars
<1>6. DownInv'
  <2>1. members \subseteq Ups
    BY <1>0 DEF TypeOK
  <2>. QED BY <1>0, <1>1, <1>3, <2>1 DEF IInv, DownInv, broadcastVars
<1>7. NeverAheadOfUpstreams'
  <2>1. members \subseteq Ups
    BY <1>0 DEF TypeOK
  <2>. QED BY <1>0, <1>1, <1>3, <2>1 DEF IInv, NeverAheadOfUpstreams
<1>8. NothingUpstreamsLost'
  BY <1>1 DEF IInv, NothingUpstreamsLost
<1>. QED BY <1>4, <1>5, <1>6, <1>7, <1>8 DEF IInv

LEMMA HandledStep ==
  ASSUME IInv, NEW u \in Ups, Handled(u)
  PROVE  IInv'
<1>1. /\ upPc[u] = "handling" /\ upPc' = [upPc EXCEPT ![u] = "idle"]
      /\ UNCHANGED <<broadcastVars, bounded, tracker, missed, members, downPc, toScan,
                     slowest, seen>>
  BY DEF Handled, UpGoto, downVars
<1>2. TypeOK'
  BY <1>1 DEF IInv, TypeOK, BroadcastTypeOK, broadcastVars, UpPcs
<1>3. UpInv'
  BY <1>1 DEF IInv, TypeOK, UpInv, broadcastVars
<1>4. DownInv' /\ NeverAheadOfUpstreams' /\ NothingUpstreamsLost'
  BY <1>1 DEF IInv, DownInv, NeverAheadOfUpstreams, NothingUpstreamsLost, broadcastVars
<1>. QED BY <1>2, <1>3, <1>4 DEF IInv

LEMMA DropStep ==
  ASSUME IInv, NEW u \in Ups, DropUp(u)
  PROVE  IInv'
<1>0. u \in Readers /\ u # Down /\ TypeOK
  BY Names DEF IInv
<1>1. /\ on' = [on EXCEPT ![u] = "none"] /\ next' = [next EXCEPT ![u] = 0]
      /\ UNCHANGED <<head, shown>> /\ BroadcastTypeOK'
  BY <1>0, LeaveEffect DEF DropUp
<1>2. /\ upPc' = [upPc EXCEPT ![u] = "gone"]
      /\ UNCHANGED <<bounded, tracker, missed, members, downPc, toScan, slowest, seen>>
  BY DEF DropUp, UpGoto, downVars
<1>3. TypeOK'
  BY <1>0, <1>1, <1>2 DEF TypeOK, UpPcs
<1>4. /\ on'[u] = "none" /\ upPc'[u] = "gone"
      /\ on'[Down] = on[Down] /\ next'[Down] = next[Down]
      /\ \A x \in Ups \ {u} : on'[x] = on[x] /\ next'[x] = next[x] /\ upPc'[x] = upPc[x]
  BY <1>0, <1>1, <1>2, Names DEF TypeOK, BroadcastTypeOK
<1>5. UpInv'
  BY <1>1, <1>2, <1>4 DEF IInv, UpInv
<1>6. DownInv' /\ NeverAheadOfUpstreams' /\ NothingUpstreamsLost'
  BY <1>2, <1>4 DEF IInv, DownInv, NeverAheadOfUpstreams, NothingUpstreamsLost
<1>. QED BY <1>3, <1>5, <1>6 DEF IInv

----------------------------------------------------------------------------
(* The barrier and its downstream.                                         *)

LEMMA NewBarrierStep ==
  ASSUME IInv, NEW us \in SUBSET Ups, NewBarrier(us)
  PROVE  IInv'
<1>1. /\ members = {} /\ us # {} /\ members' = us /\ \A u \in us : on[u] = Ring
      /\ UNCHANGED <<broadcastVars, bounded, tracker, upPc, missed, downPc, toScan,
                     slowest, seen>>
  BY DEF NewBarrier, upVars, downVars
<1>2. downPc = "idle" /\ seen = {} /\ toScan = {}
  BY <1>1 DEF IInv, DownInv, TypeOK
<1>3. TypeOK'
  BY <1>1, <1>2 DEF IInv, TypeOK, BroadcastTypeOK, broadcastVars
<1>4. UpInv'
  BY <1>1, Names DEF IInv, UpInv, broadcastVars
<1>5. DownInv' /\ NeverAheadOfUpstreams' /\ NothingUpstreamsLost'
  BY <1>1, <1>2 DEF DownInv, NeverAheadOfUpstreams, NothingUpstreamsLost
<1>. QED BY <1>3, <1>4, <1>5 DEF IInv

LEMMA SubscribeDownStep ==
  ASSUME IInv, SubscribeDown
  PROVE  IInv'
<1>0. Down \in Readers /\ Down \notin Ups /\ TypeOK
  BY Names DEF IInv
<1>1. PICK n \in 0 .. MaxHead : Join(Down, Ring, n) /\ gated' \subseteq gated \cup {Down}
  <2>1. shown[Ring] \in 0 .. MaxHead /\ Oldest(Ring) \in 0 .. MaxHead
    BY <1>0, OldestInRange, Names DEF TypeOK, BroadcastTypeOK
  <2>. QED BY <2>1 DEF SubscribeDown, JoinHead, JoinOldest
<1>2. /\ on[Down] = "none" /\ on' = [on EXCEPT ![Down] = Ring]
      /\ next' = [next EXCEPT ![Down] = n]
      /\ UNCHANGED <<head, shown>> /\ BroadcastTypeOK'
  BY <1>0, <1>1, JoinEffect
<1>3. UNCHANGED <<bounded, tracker, upPc, missed, members, downPc, toScan, slowest, seen>>
  BY DEF SubscribeDown, upVars, downVars
<1>4. downPc = "idle"
  BY <1>2 DEF IInv, DownInv
<1>5. TypeOK'
  BY <1>0, <1>2, <1>3 DEF TypeOK
<1>6. \A x \in Ups : on'[x] = on[x] /\ next'[x] = next[x]
  BY <1>0, <1>2, Names DEF TypeOK, BroadcastTypeOK
<1>7. UpInv'
  BY <1>2, <1>3, <1>6 DEF IInv, UpInv
<1>8. DownInv' /\ NeverAheadOfUpstreams' /\ NothingUpstreamsLost'
  BY <1>3, <1>4 DEF IInv, DownInv, NeverAheadOfUpstreams, NothingUpstreamsLost
<1>. QED BY <1>5, <1>7, <1>8 DEF IInv

LEMMA ScanStep ==
  ASSUME IInv, BeginScan \/ ScanTracker \/ Gate \/ DownEmpty
  PROVE  IInv'
<1>0. /\ TypeOK /\ members \subseteq Ups /\ slowest \in Nat /\ next[Down] \in Nat
      /\ \A u \in Ups : tracker[u] \in Nat
  BY Names DEF IInv, TypeOK, BroadcastTypeOK, Unset
<1>1. UNCHANGED <<broadcastVars, bounded, tracker, upPc, missed, members, seen>>
  BY DEF BeginScan, ScanTracker, Gate, DownEmpty, upVars
<1>2. UpInv' /\ NeverAheadOfUpstreams' /\ NothingUpstreamsLost'
  BY <1>1 DEF IInv, UpInv, NeverAheadOfUpstreams, NothingUpstreamsLost, broadcastVars
<1>3. TypeOK' /\ DownInv'
  <2>0. /\ BroadcastTypeOK' /\ on[Down] = on'[Down] /\ next[Down] = next'[Down]
    BY <1>0, <1>1 DEF TypeOK, BroadcastTypeOK, broadcastVars
  <2>1. CASE BeginScan
    <3>1. /\ downPc' = "scan" /\ toScan' = members /\ slowest' = Unset
          /\ on[Down] # "none" /\ members # {}
      BY <2>1, Names DEF BeginScan
    <3>2. TypeOK'
      BY <1>0, <1>1, <2>0, <3>1, Names DEF TypeOK, DownPcs, Unset
    <3>. QED BY <1>1, <2>0, <3>1, <3>2 DEF IInv, DownInv
  <2>2. CASE ScanTracker
    <3>1. PICK u \in toScan : /\ slowest' = Slower(tracker[u], slowest)
                              /\ toScan' = toScan \ {u}
      BY <2>2 DEF ScanTracker
    <3>2. downPc = "scan" /\ downPc' = "scan" /\ u \in Ups
      BY <1>0, <2>2 DEF ScanTracker, TypeOK
    <3>3. slowest' <= tracker[u] /\ slowest' <= slowest /\ slowest' \in {tracker[u], slowest}
      BY <1>0, <3>1, <3>2 DEF Slower
    <3>4. slowest' \in 0 .. Unset
      BY <1>0, <3>2, <3>3, Names DEF TypeOK, Unset
    <3>5. TypeOK'
      BY <1>0, <1>1, <2>0, <3>1, <3>2, <3>4 DEF TypeOK
    <3>6. \A x \in members \ toScan' : slowest' <= tracker[x]
      BY <1>0, <3>1, <3>2, <3>3, <3>4 DEF IInv, DownInv, Unset
    <3>. QED BY <1>1, <2>0, <3>2, <3>5, <3>6 DEF IInv, DownInv
  <2>3. CASE Gate
    <3>1. /\ downPc = "scan" /\ toScan = {} /\ toScan' = toScan /\ slowest' = Unset
          /\ downPc' = "idle" \/ (downPc' = "recv" /\ slowest > next[Down])
      BY <1>0, <2>3 DEF Gate, Closed
    <3>2. TypeOK'
      BY <1>0, <1>1, <2>0, <3>1, Names DEF TypeOK, DownPcs, Unset
    <3>3. downPc' = "recv" => \A x \in members : next[Down] < tracker[x]
      BY <1>0, <3>1 DEF IInv, DownInv
    <3>. QED BY <1>1, <2>0, <3>1, <3>2, <3>3 DEF IInv, DownInv
  <2>4. CASE DownEmpty
    BY <1>0, <1>1, <2>0, <2>4 DEF DownEmpty, IInv, DownInv, TypeOK, DownPcs
  <2>. QED BY <2>1, <2>2, <2>3, <2>4
<1>. QED BY <1>2, <1>3 DEF IInv

LEMMA DownRecvStep ==
  ASSUME IInv, DownRecv
  PROVE  IInv'
<1>0. /\ Down \in Readers /\ Down \notin Ups /\ TypeOK /\ BroadcastTypeOK
      /\ next[Down] \in Nat /\ head[Ring] \in Nat /\ members \subseteq Ups
  BY Names DEF IInv, TypeOK, BroadcastTypeOK
<1>1. /\ downPc = "recv" /\ downPc' = "idle"
      /\ UNCHANGED <<bounded, tracker, upPc, missed, members, toScan, slowest>>
  BY DEF DownRecv, upVars
<1>2. /\ UNCHANGED <<head, shown, on>> /\ BroadcastTypeOK'
      /\ \A x \in Ups : next'[x] = next[x]
  <2>1. CASE Receive(Down)
    BY <1>0, <2>1, ReceiveEffect, Names DEF BroadcastTypeOK
  <2>2. CASE Lag(Down)
    BY <1>0, <2>2, LagEffect, Names DEF BroadcastTypeOK
  <2>. QED BY <2>1, <2>2 DEF DownRecv
<1>3. \/ seen' = seen
      \/ /\ seen' = seen \cup {next[Down]}
         /\ next[Down] < head[Ring] /\ head[Ring] - next[Down] <= Depth
  BY <1>0, ReceiveEffect DEF DownRecv
<1>4. TypeOK'
  <2>1. next[Down] \in 0 .. MaxHead
    BY <1>0 DEF BroadcastTypeOK
  <2>. QED BY <1>0, <1>1, <1>2, <1>3, <2>1, Zenon DEF TypeOK, DownPcs
<1>5. UpInv'
  BY <1>1, <1>2 DEF IInv, UpInv
<1>6. \A u \in members : next[Down] < tracker[u]
  BY <1>1 DEF IInv, DownInv
<1>7. DownInv'
  BY <1>1 DEF IInv, DownInv
<1>8. NeverAheadOfUpstreams'
  BY <1>1, <1>3, <1>6 DEF IInv, NeverAheadOfUpstreams
<1>9. \A u \in members : \A m \in missed[u] : m \in Nat /\ head[Ring] - m > Depth
  BY <1>0 DEF IInv, UpInv, TypeOK
<1>10. NothingUpstreamsLost'
  <2>1. seen' = seen \/ \A u \in members : next[Down] \notin missed[u]
    BY <1>0, <1>3, <1>9, Names
  <2>. QED BY <1>1, <1>3, <2>1 DEF IInv, NothingUpstreamsLost
<1>. QED BY <1>4, <1>5, <1>7, <1>8, <1>10 DEF IInv

----------------------------------------------------------------------------
(* The theorems.                                                           *)

LEMMA InitInv == Init => IInv
<1> SUFFICES ASSUME Init PROVE IInv
  OBVIOUS
<1>1. TypeOK
  BY Names DEF Init, BroadcastInit, TypeOK, BroadcastTypeOK, UpPcs, DownPcs, Unset
<1>2. UpInv
  BY Names DEF Init, BroadcastInit, UpInv
<1>3. DownInv /\ NeverAheadOfUpstreams /\ NothingUpstreamsLost
  BY DEF Init, DownInv, NeverAheadOfUpstreams, NothingUpstreamsLost
<1>. QED BY <1>1, <1>2, <1>3 DEF IInv

LEMMA NextInv == IInv /\ [Next]_vars => IInv'
<1> SUFFICES ASSUME IInv, [Next]_vars PROVE IInv'
  OBVIOUS
<1>1. CASE UNCHANGED vars
  <2> USE <1>1 DEF vars, broadcastVars, upVars, downVars
  <2>1. TypeOK'
    BY DEF IInv, TypeOK, BroadcastTypeOK
  <2>2. UpInv' /\ DownInv' /\ NeverAheadOfUpstreams' /\ NothingUpstreamsLost'
    BY DEF IInv, UpInv, DownInv, NeverAheadOfUpstreams, NothingUpstreamsLost
  <2>. QED BY <2>1, <2>2 DEF IInv
<1>. QED BY <1>1, PublisherStep, SubscribeStep, UpRecvStep, UpdateTrackerStep, HandledStep,
         DropStep, NewBarrierStep, SubscribeDownStep, ScanStep, DownRecvStep
         DEF Next, UpStep, DownCall

\* The inductive invariant holds throughout.
THEOREM Invariance == Spec => []IInv
  BY InitInv, NextInv, PTL DEF Spec

\* No tracker, position or minimum leaves its range (update_tracker, slowest).
THEOREM TypeCorrect == Spec => []TypeOK
<1>1. IInv => TypeOK
  BY DEF IInv
<1>. QED BY <1>1, Invariance, PTL

\* A gated subscriber never has a message that an upstream of its barrier has not
\* read or passed, although slowest() loads the trackers one after the other
\* while they move (try_recv_gated).
THEOREM BehindUpstreams == Spec => []NeverAheadOfUpstreams
<1>1. IInv => NeverAheadOfUpstreams
  BY DEF IInv
<1>. QED BY <1>1, Invariance, PTL

\* It never has a message that an upstream reported lost (read_slot, which
\* moves the tracker past the loss and so opens the gate).
THEOREM LostUpstreamLostDownstream == Spec => []NothingUpstreamsLost
<1>1. IInv => NothingUpstreamsLost
  BY DEF IInv
<1>. QED BY <1>1, Invariance, PTL
=============================================================================
