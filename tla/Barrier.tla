------------------------------- MODULE Barrier -------------------------------
(***************************************************************************)
(* A DependencyBarrier (src/barrier.rs): subscriber Down receives with     *)
(* try_recv_gated behind the cursor trackers of upstream subscribers of    *)
(* the same ring.  Receiving is two steps of an upstream, the read of the  *)
(* slot and the store of its tracker, and handling the message is a third; *)
(* try_recv_gated loads the trackers one by one and reads its own slot     *)
(* afterwards.  A dropped upstream leaves its tracker to the barrier.      *)
(***************************************************************************)
EXTENDS Broadcast

CONSTANTS
  Ring,     \* the ring
  Ups,      \* subscribers that may be upstreams
  Down      \* the gated subscriber

ASSUME BarrierAssumption ==
  Rings = {Ring} /\ Readers = Ups \cup {Down} /\ Down \notin Ups

\* u64::MAX: above every position.
Unset == MaxHead + 1

VARIABLES
  bounded,    \* the ring has backpressure
  tracker,    \* upstream -> the value of its tracker
  upPc,       \* upstream -> what it does next
  missed,     \* upstream -> messages its try_recv reported lost (history)
  members,    \* the upstreams of the barrier, {} before it is created
  downPc,     \* what Down does next
  toScan,     \* trackers that slowest() has still to load
  slowest,    \* the minimum so far
  seen        \* messages Down has received (history)

upVars   == <<tracker, upPc, missed>>
downVars == <<downPc, toScan, slowest, seen>>
vars     == <<broadcastVars, bounded, upVars, members, downVars>>

UpPcs   == {"idle", "received", "lagged", "handling", "gone"}
DownPcs == {"idle", "scan", "recv"}

Init ==
  /\ BroadcastInit
  /\ bounded \in BOOLEAN
  /\ tracker = [u \in Ups |-> 0]
  /\ upPc = [u \in Ups |-> "idle"]
  /\ missed = [u \in Ups |-> {}]
  /\ members = {}
  /\ downPc = "idle"
  /\ toScan = {}
  /\ slowest = Unset
  /\ seen = {}

TypeOK ==
  /\ BroadcastTypeOK
  /\ bounded \in BOOLEAN
  /\ tracker \in [Ups -> 0 .. MaxHead]
  /\ upPc \in [Ups -> UpPcs]
  /\ missed \in [Ups -> SUBSET (0 .. MaxHead)]
  /\ members \subseteq Ups
  /\ downPc \in DownPcs
  /\ toScan \subseteq members
  /\ slowest \in 0 .. Unset
  /\ seen \subseteq 0 .. MaxHead

----------------------------------------------------------------------------
(* The publisher.                                                          *)

PublishOrShow ==
  /\ Publish(Ring) \/ Show(Ring)
  /\ UNCHANGED <<bounded, upVars, members, downVars>>

----------------------------------------------------------------------------
(* The upstreams.                                                          *)

UpGoto(u, l) == upPc' = [upPc EXCEPT ![u] = l]

\* subscribe_tracked, which on a bounded ring is subscribe.
SubscribeTracked(u) ==
  /\ upPc[u] = "idle"
  /\ JoinHead(u, Ring, bounded)
  /\ tracker' = [tracker EXCEPT ![u] = shown[Ring]]
  /\ UNCHANGED <<bounded, upPc, missed, members, downVars>>

\* try_recv, up to the new position; Empty changes nothing.
UpRecv(u) ==
  /\ upPc[u] = "idle"
  /\ \/ /\ Receive(u)
        /\ UpGoto(u, "received")
        /\ UNCHANGED missed
     \/ /\ Lag(u)
        /\ UpGoto(u, "lagged")
        /\ missed' = [missed EXCEPT ![u] = @ \cup next[u] .. Oldest(Ring) - 1]
  /\ UNCHANGED <<bounded, tracker, members, downVars>>

\* update_tracker; it happens before try_recv returns the message to be handled.
StoredTracker(u) == next[u]

UpdateTracker(u) ==
  /\ upPc[u] \in {"received", "lagged"}
  /\ tracker' = [tracker EXCEPT ![u] = StoredTracker(u)]
  /\ UpGoto(u, IF upPc[u] = "received" THEN "handling" ELSE "idle")
  /\ UNCHANGED <<broadcastVars, bounded, missed, members, downVars>>

Handled(u) ==
  /\ upPc[u] = "handling"
  /\ UpGoto(u, "idle")
  /\ UNCHANGED <<broadcastVars, bounded, tracker, missed, members, downVars>>

\* Drop, also by a panic while the message is handled: the barrier's Arc keeps
\* the tracker as it is.
DropUp(u) ==
  /\ upPc[u] \in {"idle", "handling"}
  /\ Leave(u)
  /\ UpGoto(u, "gone")
  /\ UNCHANGED <<bounded, tracker, missed, members, downVars>>

----------------------------------------------------------------------------
(* The barrier and its downstream.                                         *)

\* new and from_subscribers; without upstreams, or with one that has no
\* tracker, they panic.
NewBarrier(us) ==
  /\ members = {}
  /\ us # {}
  /\ \A u \in us : on[u] = Ring
  /\ members' = us
  /\ UNCHANGED <<broadcastVars, bounded, upVars, downVars>>

\* subscribe, subscribe_lossy or subscribe_from_oldest.
SubscribeDown ==
  /\ \/ JoinHead(Down, Ring, bounded)
     \/ JoinHead(Down, Ring, FALSE)
     \/ JoinOldest(Down, Ring)
  /\ UNCHANGED <<bounded, upVars, members, downVars>>

\* try_recv_gated is called.
BeginScan ==
  /\ downPc = "idle"
  /\ on[Down] = Ring
  /\ members # {}
  /\ downPc' = "scan"
  /\ toScan' = members
  /\ slowest' = Unset
  /\ UNCHANGED <<broadcastVars, bounded, upVars, members, seen>>

\* Mutant of Slower: the fastest upstream counts.
Faster(val, sofar) == IF sofar = Unset \/ val > sofar THEN val ELSE sofar

\* The minimum that slowest() keeps.
Slower(val, sofar) == IF val < sofar THEN val ELSE sofar

ScanTracker ==
  /\ downPc = "scan"
  /\ \E u \in toScan :
        /\ slowest' = Slower(tracker[u], slowest)
        /\ toScan' = toScan \ {u}
  /\ UNCHANGED <<broadcastVars, bounded, upVars, members, downPc, seen>>

\* Mutants of Closed: off by one in either direction.
ClosedLate  == slowest < next[Down]
ClosedEarly == slowest <= next[Down] + 1

\* The slowest upstream has not read Down's next message.
Closed == slowest <= next[Down]

Gate ==
  /\ downPc = "scan"
  /\ toScan = {}
  /\ downPc' = IF Closed THEN "idle" ELSE "recv"
  /\ slowest' = Unset
  /\ UNCHANGED <<broadcastVars, bounded, upVars, members, toScan, seen>>

\* try_recv behind the gate: a message, Lagged, or Empty.
DownRecv ==
  /\ downPc = "recv"
  /\ \/ /\ Receive(Down)
        /\ seen' = seen \cup {next[Down]}
     \/ /\ Lag(Down)
        /\ UNCHANGED seen
  /\ downPc' = "idle"
  /\ UNCHANGED <<bounded, upVars, members, toScan, slowest>>

DownEmpty ==
  /\ downPc = "recv"
  /\ Unreadable(Down)
  /\ downPc' = "idle"
  /\ UNCHANGED <<broadcastVars, bounded, upVars, members, toScan, slowest, seen>>

UpStep(u)  == UpRecv(u) \/ UpdateTracker(u) \/ Handled(u)
DownCall   == BeginScan \/ ScanTracker \/ Gate

Next ==
  \/ PublishOrShow
  \/ \E u \in Ups :
        \/ SubscribeTracked(u)
        \/ UpStep(u)
        \/ DropUp(u)
  \/ \E us \in SUBSET Ups : NewBarrier(us)
  \/ SubscribeDown
  \/ DownCall
  \/ DownRecv
  \/ DownEmpty

Spec == Init /\ [][Next]_vars

\* recv_gated: Down calls again and again, and so do upstreams that live; a
\* publish that began ends.  try_recv answers Empty to a readable message only
\* while the publisher is inside a write, so not for ever (hence SF).
FairSpec ==
  /\ Spec
  /\ WF_vars(Show(Ring) /\ UNCHANGED <<bounded, upVars, members, downVars>>)
  /\ \A u \in Ups : WF_vars(UpStep(u))
  /\ WF_vars(DownCall) /\ WF_vars(DownEmpty) /\ SF_vars(DownRecv)

----------------------------------------------------------------------------
(* Properties.                                                             *)

\* Down never has a message that an upstream of the barrier has not read, or
\* passed, however the loads of slowest() interleave with the upstreams' stores
\* (try_recv_gated).
NeverAheadOfUpstreams ==
  \A m \in seen, u \in members : m < tracker[u]

\* Whatever Down receives, no upstream lost: a message that an upstream was
\* told it lost is gone from the ring for Down too, although the tracker that
\* moves past the loss opens the gate (read_slot's update_tracker).
NothingUpstreamsLost ==
  \A u \in members : seen \cap missed[u] = {}

\* Down gets past every message, unless an upstream of the barrier was dropped
\* before reading it: its tracker then closes the gate for good
\* (recv_gated, Drop for Subscriber).
GateOpens ==
  \A m \in 0 .. MaxHead - 1 :
     members # {} /\ on[Down] = Ring /\ head[Ring] > m
       ~> \/ next[Down] > m
          \/ \E u \in members : upPc[u] = "gone" /\ tracker[u] <= m

\* What the module's documentation says: "consumer C only processes event N
\* after consumers A and B have both finished it".  Refuted: the tracker is
\* stored before try_recv hands the message to the upstream.
UpstreamsFinished ==
  \A u \in members : upPc[u] = "handling" => next[u] - 1 \notin seen
=============================================================================
