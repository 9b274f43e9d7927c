--------------------------- MODULE AsyncSubscriber ---------------------------
(***************************************************************************)
(* AsyncSubscriber (photon-ring-async/src/subscriber.rs): a task awaits    *)
(* recv or recv_batch on the subscriber Watched, whose counters it passes  *)
(* on (module Metrics).  pollPc is where a poll                            *)
(* stands:                                                                 *)
(*                                                                         *)
(*   idle    outside poll                                                  *)
(*   fill    Subscriber::recv_batch is about to call try_recv              *)
(*   refill  it has met Lagged and tries the same slot once more           *)
(*   spin    the loop over the spin budget                                 *)
(*                                                                         *)
(* The task may drop a future between two polls, and the executor may poll *)
(* when nobody woke it.                                                    *)
(***************************************************************************)
EXTENDS Metrics

CONSTANTS
  Budgets,    \* spin budgets
  MaxBuf      \* bound: length of a buffer

ASSUME AsyncAssumption == Budgets \subseteq Nat /\ MaxBuf \in Nat

VARIABLES
  budget,    \* spin_budget
  future,    \* the future the task awaits
  buf,       \* the length of its buffer
  woken,     \* its waker was called since the last poll
  pollPc,    \* where the poll stands
  filled,    \* messages in the buffer
  left,      \* what is left of the budget
  handed     \* messages that futures returned to the task

taskVars  == <<budget, future, buf>>
asyncVars == <<taskVars, woken, pollPc, filled, left, handed>>

AsyncInit ==
  /\ budget \in Budgets
  /\ future = "none"
  /\ buf = 0
  /\ woken = FALSE
  /\ pollPc = "idle"
  /\ filled = 0
  /\ left = 0
  /\ handed = 0

----------------------------------------------------------------------------
(* The task.                                                               *)

\* recv and RecvFuture::new, or recv_batch: the first poll is the executor's.
Await(kind, n) ==
  /\ on[Watched] # "none"
  /\ future = "none"
  /\ future' = kind
  /\ buf' = n
  /\ woken' = TRUE
  /\ UNCHANGED <<broadcastVars, budget, pollPc, filled, left, handed>>

\* The future is dropped while it is pending.
Cancel ==
  /\ future # "none"
  /\ pollPc = "idle"
  /\ future' = "none"
  /\ buf' = 0
  /\ woken' = FALSE
  /\ UNCHANGED <<broadcastVars, budget, pollPc, filled, left, handed>>

SetSpinBudget(b) ==
  /\ future = "none"
  /\ budget' = b
  /\ UNCHANGED <<broadcastVars, future, buf, woken, pollPc, filled, left, handed>>

----------------------------------------------------------------------------
(* A poll.                                                                 *)

\* Mutant of HasRoom: an empty buffer is not looked for.
RoomAssumed == TRUE

\* A batch has somewhere to put a message.
HasRoom == buf > 0

\* The loop over the budget begins.
BeginSpin ==
  /\ pollPc' = "spin"
  /\ left' = budget
  /\ UNCHANGED <<taskVars, filled, handed>>

\* Poll::Ready with n messages.
Ready(n) ==
  /\ future' = "none" /\ buf' = 0
  /\ pollPc' = "idle"
  /\ filled' = 0 /\ left' = 0
  /\ handed' = handed + n
  /\ UNCHANGED <<budget, woken>>

\* poll_recv, or poll_recv_batch, up to the first try_recv.
Poll ==
  /\ future # "none"
  /\ pollPc = "idle"
  /\ woken' = FALSE
  /\ \/ future = "recv" /\ BeginSpin
     \/ /\ future = "batch"
        /\ \/ HasRoom /\ pollPc' = "fill" /\ UNCHANGED <<future, buf>>
           \/ ~HasRoom /\ future' = "none" /\ UNCHANGED <<buf, pollPc>>
        /\ UNCHANGED <<budget, filled, left, handed>>
  /\ UNCHANGED broadcastVars

\* The body of recv_batch's loop: a message fills a slot; after Lagged the slot
\* is tried once more.
Fill ==
  /\ (pollPc = "fill" /\ filled < buf) \/ pollPc = "refill"
  /\ \/ Receive(Watched) /\ filled' = filled + 1 /\ pollPc' = "fill"
     \/ pollPc = "fill" /\ Lag(Watched) /\ pollPc' = "refill" /\ UNCHANGED filled
  /\ UNCHANGED <<taskVars, woken, left, handed>>

\* recv_batch returns: the buffer is full, there is nothing more, or Lagged came
\* twice in a row.  A poll that has nothing yet goes on to spin.
EndFill ==
  /\ pollPc \in {"fill", "refill"}
  /\ \/ pollPc = "fill" /\ (filled >= buf \/ Unreadable(Watched))
        /\ UNCHANGED broadcastVars
     \/ pollPc = "refill" /\ Unreadable(Watched) /\ UNCHANGED broadcastVars
     \/ pollPc = "refill" /\ Lag(Watched)
  /\ \/ filled > 0 /\ Ready(filled)
     \/ filled = 0 /\ BeginSpin /\ UNCHANGED woken

\* Slots taken by the message of the spin loop when the rest is drained.
UsedBySpin == 1

\* A turn of the spin loop that finds a message,
SpinReceive ==
  /\ pollPc = "spin"
  /\ left > 0
  /\ Receive(Watched)
  /\ \/ future = "recv" /\ Ready(1)
     \/ /\ future = "batch"
        /\ pollPc' = "fill" /\ filled' = UsedBySpin /\ left' = 0
        /\ UNCHANGED <<taskVars, woken, handed>>

\* one that finds it has been lapped, and one that finds nothing.
SpinLag ==
  /\ pollPc = "spin"
  /\ left > 0
  /\ Lag(Watched)
  /\ left' = left - 1
  /\ UNCHANGED <<taskVars, woken, pollPc, filled, handed>>

SpinEmpty ==
  /\ pollPc = "spin"
  /\ left > 0
  /\ Unreadable(Watched)
  /\ left' = left - 1
  /\ UNCHANGED <<broadcastVars, taskVars, woken, pollPc, filled, handed>>

\* Mutant of Yield: the waker is not called.
YieldAsleep ==
  /\ pollPc = "spin" /\ left = 0
  /\ pollPc' = "idle"
  /\ UNCHANGED <<broadcastVars, taskVars, woken, filled, left, handed>>

\* The budget is spent: wake_by_ref, then Pending.
Yield ==
  /\ pollPc = "spin" /\ left = 0
  /\ woken' = TRUE
  /\ pollPc' = "idle"
  /\ UNCHANGED <<broadcastVars, taskVars, filled, left, handed>>

PollStep == Fill \/ EndFill \/ SpinReceive \/ SpinLag \/ SpinEmpty \/ Yield

AsyncNext ==
  \/ Await("recv", 0)
  \/ \E n \in 0 .. MaxBuf : Await("batch", n)
  \/ Cancel
  \/ \E b \in Budgets : SetSpinBudget(b)
  \/ Poll
  \/ PollStep

----------------------------------------------------------------------------
(* Properties.                                                             *)

\* Every message taken from the ring reaches the task, in a slot its buffer has:
\* none is left behind when a future is dropped, when a batch ends early or when
\* Lagged comes in the middle of one, and none is taken for an empty or a full
\* buffer (poll_recv, poll_recv_batch, recv_batch).
NothingLeftBehind ==
  /\ received[Watched] = handed + filled
  /\ filled <= buf

=============================================================================
