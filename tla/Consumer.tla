------------------------------ MODULE Consumer ------------------------------
(***************************************************************************)
(* A managed consumer (src/topology/consumer.rs) on a single-producer      *)
(* channel: a thread that runs a handler over the messages of subscriber   *)
(* Con, next to the publisher of SpmcChannel.  conPc is the thread's next  *)
(* step:                                                                   *)
(*                                                                         *)
(*   none     Consumer::spawn has not been called                          *)
(*   loop     the shutdown flag is about to be loaded                      *)
(*   pending  drain_batch is about to ask how much there is                *)
(*   try      the next try_recv of the batch                               *)
(*   call     try_recv is in progress, or has returned                     *)
(*   status   the loop has ended, the status store comes next              *)
(*   drop     the subscriber is dropped as the thread ends                 *)
(*   end      the thread has ended, join returns                           *)
(***************************************************************************)
EXTENDS SpmcChannel

CONSTANTS
  Con,        \* the subscriber the consumer owns
  Policies    \* the drain policies considered

ASSUME ConAssumption    == Con \in Subs
ASSUME PolicyAssumption == Policies \subseteq {"Drain", "Immediate"}

VARIABLES
  policy,     \* the DrainPolicy
  conPc,      \* next step of the consumer's thread
  shutdown,   \* the shutdown flag
  status,     \* running, completed or panicked
  outcome,    \* how the loop ended: what status becomes
  stopping,   \* the batch in progress is the one after shutdown
  batch,      \* size of the batch in progress
  iter,       \* try_recv calls made for it
  flagged,    \* whether the last handler call of the batch had end_of_batch
  accepted    \* history: the ring cursor when shutdown was requested

conVars == <<policy, conPc, shutdown, status, outcome, stopping, batch, iter,
             flagged, accepted>>
allVars == <<vars, conVars>>

ConInit ==
  /\ Init
  /\ policy \in Policies
  /\ conPc = "none"
  /\ shutdown = FALSE
  /\ status = "running"
  /\ outcome = "completed"
  /\ stopping = FALSE
  /\ batch = 0
  /\ iter = 0
  /\ flagged = TRUE
  /\ accepted = Nothing

----------------------------------------------------------------------------
(* Around the thread.                                                      *)

\* The subscriber is created and then handed over.
Subscribe ==
  /\ conPc = "none"
  /\ SubscribeLossy(Con) \/ LockTrackers(Con) \/ RegisterStep(Con)
  /\ UNCHANGED <<pubVars, conVars>>

Spawn ==
  /\ conPc = "none"
  /\ pc[Con] = "idle"
  /\ conPc' = "loop"
  /\ UNCHANGED <<vars, policy, shutdown, status, outcome, stopping, batch,
                 iter, flagged, accepted>>

\* Consumer::shutdown, and Drop of the handle.
Shutdown ==
  /\ conPc # "none"
  /\ ~shutdown
  /\ shutdown' = TRUE
  /\ accepted' = cursor
  /\ UNCHANGED <<vars, policy, conPc, status, outcome, stopping, batch, iter,
                 flagged>>

----------------------------------------------------------------------------
(* The thread.                                                             *)

\* Mutant of CheckShutdown: the buffered messages are left, whatever the policy.
NeverDrain ==
  /\ conPc = "loop"
  /\ conPc' = IF shutdown THEN "status" ELSE "pending"
  /\ stopping' = shutdown
  /\ UNCHANGED <<vars, policy, shutdown, status, outcome, batch, iter, flagged,
                 accepted>>

\* Mutant of CheckShutdown: the flag is never looked at.
IgnoreShutdown ==
  /\ conPc = "loop"
  /\ conPc' = "pending"
  /\ UNCHANGED <<vars, policy, shutdown, status, outcome, stopping, batch,
                 iter, flagged, accepted>>

\* The head of the loop.
CheckShutdown ==
  /\ conPc = "loop"
  /\ conPc' = IF shutdown /\ policy = "Immediate" THEN "status" ELSE "pending"
  /\ stopping' = shutdown
  /\ UNCHANGED <<vars, policy, shutdown, status, outcome, batch, iter, flagged,
                 accepted>>

\* drain_batch has returned: the loop goes on, unless this was the last batch.
AfterBatch == IF stopping THEN "status" ELSE "loop"

\* Subscriber::pending, capped at the capacity.
PendingCount ==
  IF cursor = Nothing \/ subCursor[Con] > cursor THEN 0
  ELSE IF cursor - subCursor[Con] + 1 < Capacity THEN cursor - subCursor[Con] + 1
  ELSE Capacity

Pending ==
  /\ conPc = "pending"
  /\ batch' = PendingCount
  /\ iter' = 0
  /\ flagged' = TRUE
  /\ conPc' = IF PendingCount = 0 THEN AfterBatch ELSE "try"
  /\ UNCHANGED <<vars, policy, shutdown, status, outcome, stopping, accepted>>

\* try_recv, up to its return.
TryRecv ==
  \/ /\ conPc = "try"
     /\ "try_recv" \in Calls /\ received[Con] < MaxReceived
     /\ LoadStamp(Con, "try_recv")
     /\ conPc' = "call"
     /\ UNCHANGED <<pubVars, policy, shutdown, status, outcome, stopping,
                    batch, iter, flagged, accepted>>
  \/ /\ conPc = "call"
     /\ LoadWord(Con) \/ Recheck(Con) \/ SkipLag(Con) \/ StoreTracker(Con)
     /\ UNCHANGED <<pubVars, conVars>>

\* Mutant of EndOfBatch: one too far.
EndOfBatchLate(i) == i = batch

EndOfBatch(i) == i + 1 = batch

\* The batch goes on after iteration iter, if it is not complete.
NextIteration ==
  /\ iter' = iter + 1
  /\ conPc' = IF iter + 1 = batch THEN AfterBatch ELSE "try"

\* What try_recv returned decides: the handler runs, and may panic; a lag uses
\* up an iteration; an empty ring ends the batch.
Returned == conPc = "call" /\ pc[Con] = "idle"

HandleMessage ==
  /\ Returned
  /\ ret[Con] = "ok"
  /\ flagged' = EndOfBatch(iter)
  /\ NextIteration
  /\ UNCHANGED <<vars, policy, shutdown, status, outcome, stopping, batch,
                 accepted>>

HandlerPanics ==
  /\ Returned
  /\ ret[Con] = "ok"
  /\ outcome' = "panicked"
  /\ conPc' = "status"
  /\ UNCHANGED <<vars, policy, shutdown, status, stopping, batch, iter,
                 flagged, accepted>>

HandleLag ==
  /\ Returned
  /\ ret[Con] = "lagged"
  /\ NextIteration
  /\ UNCHANGED <<vars, policy, shutdown, status, outcome, stopping, batch,
                 flagged, accepted>>

HandleEmpty ==
  /\ Returned
  /\ ret[Con] = "empty"
  /\ conPc' = AfterBatch
  /\ UNCHANGED <<vars, policy, shutdown, status, outcome, stopping, batch,
                 iter, flagged, accepted>>

\* After catch_unwind the status is stored ...
StoreStatus ==
  /\ conPc = "status"
  /\ status' = outcome
  /\ conPc' = "drop"
  /\ UNCHANGED <<vars, policy, shutdown, outcome, stopping, batch, iter,
                 flagged, accepted>>

\* Mutant of EndThread: the subscriber outlives the thread.
EndThreadKeeps ==
  /\ conPc = "drop"
  /\ conPc' = "end"
  /\ UNCHANGED <<vars, policy, shutdown, status, outcome, stopping, batch,
                 iter, flagged, accepted>>

\* ... and the subscriber, which the thread owns, is dropped.
EndThread ==
  /\ conPc = "drop"
  /\ DropSubscriber(Con)
  /\ conPc' = "end"
  /\ UNCHANGED <<pubVars, policy, shutdown, status, outcome, stopping, batch,
                 iter, flagged, accepted>>

ThreadStep ==
  \/ CheckShutdown
  \/ Pending
  \/ TryRecv
  \/ HandleMessage
  \/ HandlerPanics
  \/ HandleLag
  \/ HandleEmpty
  \/ StoreStatus
  \/ EndThread

ConNext ==
  \/ PubStep /\ UNCHANGED conVars
  \/ Subscribe
  \/ Spawn
  \/ Shutdown
  \/ ThreadStep

ConSpec == ConInit /\ [][ConNext]_allVars

\* The publisher's and the consumer's threads run and a registration completes.
\* A publisher polling a full ring takes the tracker lock over and over, and the
\* spin lock is not a fair one: that Drop gets hold of it in between is assumed.
FairConSpec ==
  /\ ConSpec
  /\ WF_allVars(PubStep /\ UNCHANGED conVars)
  /\ WF_allVars(RegisterStep(Con) /\ UNCHANGED <<pubVars, conVars>>)
  /\ WF_allVars(ThreadStep)
  /\ SF_allVars(EndThread)

----------------------------------------------------------------------------
(* Properties.                                                             *)

\* With the Drain policy and a gating subscriber, a consumer that stops without a
\* panic has handled every message published before shutdown was requested
\* (spawn's last drain_batch, against pending's snapshot and the publisher).
DrainLosesNothing ==
  /\ kind[Con] = "head" /\ policy = "Drain"
  /\ conPc = "drop" /\ status = "completed"
  => subCursor[Con] > accepted

\* With a gating subscriber the last message of every batch is handled with
\* end_of_batch set, so a handler that flushes on it never holds work back
\* (drain_batch: pending's snapshot is what try_recv delivers).
BatchEndIsFlagged ==
  kind[Con] = "head" /\ conPc \in {"loop", "drop"} /\ outcome = "completed"
    => flagged

\* A consumer asked to stop ends, whatever the publisher does (spawn, join).
ShutdownEnds == shutdown ~> conPc = "end"

\* A handler that panics does not wedge the publisher of a bounded ring: the
\* subscriber is dropped with the thread, and publishing goes on.
PanicReleases == status = "panicked" ~> seq = MaxSeq
=============================================================================
