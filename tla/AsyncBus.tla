------------------------------ MODULE AsyncBus ------------------------------
(***************************************************************************)
(* Tasks on a bus: publishers and subscribers come from the topics of a    *)
(* typed bus, one subscriber is wrapped in an AsyncSubscriber and measured *)
(* by SubscriberMetrics.                                                   *)
(***************************************************************************)
EXTENDS Bus, AsyncSubscriber

vars == <<broadcastVars, busVars, metricsVars, asyncVars>>

Init == BroadcastInit /\ BusInit /\ MetricsInit /\ AsyncInit

Next ==
  \/ BusNext /\ UNCHANGED <<metricsVars, asyncVars>>
  \/ MetricsNext /\ UNCHANGED <<busVars, asyncVars>>
  \/ AsyncNext /\ UNCHANGED <<busVars, metricsVars>>

Spec == Init /\ [][Next]_vars

\* The executor polls what was woken and a poll goes on; a publish that began
\* ends.  try_recv answers Empty although there is a message only while the
\* publisher is inside a write, so not for ever (hence SF).
FairSpec ==
  /\ Spec
  /\ WF_vars(BusShow /\ UNCHANGED <<metricsVars, asyncVars>>)
  /\ WF_vars(woken /\ Poll /\ UNCHANGED <<busVars, metricsVars>>)
  /\ WF_vars(PollStep /\ UNCHANGED <<busVars, metricsVars>>)
  /\ SF_vars((SpinReceive \/ SpinLag \/ Fill) /\ UNCHANGED <<busVars, metricsVars>>)

\* A task that awaits a message on a topic gets it once it is published, through
\* lag and yields; only recv with a spin budget of 0 never tries
\* (recv, poll_recv, recv_batch, poll_recv_batch).
AwaitReturns ==
  /\ future = "batch" \/ (future = "recv" /\ budget > 0)
  /\ on[Watched] # "none" /\ next[Watched] < head[on[Watched]]
  ~> future = "none"
=============================================================================
