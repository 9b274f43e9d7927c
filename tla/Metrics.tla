------------------------------- MODULE Metrics -------------------------------
(***************************************************************************)
(* The counters of a subscriber (src/channel/subscriber.rs) and what       *)
(* photon-ring-metrics makes of them: absolute snapshots, and deltas since *)
(* the last delta.  receive_ratio is the pair it is computed from.         *)
(***************************************************************************)
EXTENDS Broadcast

CONSTANT Watched   \* the subscriber that is measured

ASSUME WatchedAssumption == Watched \in Readers

VARIABLES
  prev,     \* SubscriberMetrics: counters at the last delta, or NoMetrics
  sum       \* counters at new, and the sum of the deltas since (history)

metricsVars == <<prev, sum>>

NoMetrics == [received |-> -1, lagged |-> -1]
Counters  == [received |-> received[Watched], lagged |-> lagged[Watched]]

MetricsInit == prev = NoMetrics /\ sum = NoMetrics

\* Mutant of Pending: the guard on a subscriber ahead of the cursor is gone, and
\* the unsigned difference wraps.
PendingWraps(s) ==
  LET raw == (shown[on[s]] - next[s]) % 2^8
  IN  IF raw < Depth THEN raw ELSE Depth

\* pending: a subscriber may be a message ahead of the cursor.
Pending(s) ==
  LET raw == shown[on[s]] - next[s]
  IN  IF raw < 0 THEN 0 ELSE IF raw < Depth THEN raw ELSE Depth

\* SubscriberMetrics::snapshot and PublisherMetrics::snapshot.
SubscriberSnapshot(s) ==
  [total_received |-> received[s],
   total_lagged   |-> lagged[s],
   receive_ratio  |-> <<received[s], received[s] + lagged[s]>>,
   pending        |-> Pending(s)]
PublisherSnapshot(r) == [published |-> shown[r], capacity |-> Depth]

\* SubscriberMetrics::new.
NewMetrics ==
  /\ prev = NoMetrics
  /\ on[Watched] # "none"
  /\ prev' = Counters
  /\ sum' = Counters
  /\ UNCHANGED broadcastVars

\* Mutant of Baseline: the lag counter is not remembered.
BaselineReceived == [prev EXCEPT !.received = received[Watched]]

\* The counters that the next delta starts from.
Baseline == Counters

\* delta.
Delta ==
  /\ prev # NoMetrics
  /\ prev' = Baseline
  /\ sum' = [received |-> sum.received + received[Watched] - prev.received,
             lagged   |-> sum.lagged + lagged[Watched] - prev.lagged]
  /\ UNCHANGED broadcastVars

MetricsNext == NewMetrics \/ Delta

----------------------------------------------------------------------------
(* Properties.                                                             *)

\* A snapshot never counts a message twice, nor one that was not published: what
\* is received, lost and pending fits into what was published since the
\* subscriber began, which is what the publisher reports or one more (pending's
\* guard; snapshot).
SnapshotFits ==
  \A s \in Readers :
     on[s] # "none" =>
       LET snap == SubscriberSnapshot(s)
           sofar == start[s] + snap.total_received + snap.total_lagged + snap.pending
       IN  /\ sofar <= head[on[s]]
           /\ head[on[s]] - PublisherSnapshot(on[s]).published \in {0, 1}

\* The deltas since new add up to what the counters say, so no message is
\* reported in two deltas or in none (delta).
DeltasAddUp ==
  [][prev # NoMetrics /\ sum' # sum => sum' = Counters]_<<broadcastVars, metricsVars>>
=============================================================================
