---------------------------- MODULE EventChannel ----------------------------
(***************************************************************************)
(* The event ring (src/event.rs): slots own their values, the publisher    *)
(* mutates them in place and subscribers borrow them, with no seqlock.     *)
(* What keeps the two apart is the backpressure of the trackers alone.     *)
(*                                                                         *)
(* A slot holds the sequence number of the message its value belongs to,   *)
(* Nothing for the factory's value, and Altered while the publisher's      *)
(* closure is at work on it, or for good when that closure panicked.       *)
(*                                                                         *)
(*   pubPc: idle, lock and scan (EventRing::slowest), mutate (the closure  *)
(*          is about to run), altering (it runs), cursor (it has returned) *)
(*   pc:    absent, locked and push (subscribe), idle, reading (process    *)
(*          runs its closure on the borrowed value), gone (dropped)        *)
(***************************************************************************)
EXTENDS Integers, FiniteSets

CONSTANTS
  Capacity,   \* number of slots
  Subs,       \* the subscribers that may come to exist
  Panics,     \* whether closures may panic
  MaxSeq      \* bound: sequence numbers are below MaxSeq

ASSUME CapacityAssumption == Capacity \in Nat /\ Capacity >= 2
ASSUME SubsAssumption     == "free" \notin Subs /\ "publisher" \notin Subs
ASSUME PanicsAssumption   == Panics \in BOOLEAN
ASSUME MaxSeqAssumption   == MaxSeq \in Nat

VARIABLES
  slots,          \* slot -> the message its value belongs to
  cursor,         \* last published sequence number
  trackers,       \* subscribers with an entry in the list, dropped ones too
  lock,           \* holder of the spin lock around the list
  pubPc,          \* next step of the publisher
  seq,            \* EventPublisher.seq
  cachedSlowest,  \* EventPublisher.cached_slowest
  scanTodo,       \* entries the scan in progress has not visited
  scanMin,        \* least tracker it has read, Nothing before the first
  pc,             \* next step of each subscriber
  subCursor,      \* EventSubscriber.cursor
  tracker         \* EventSubscriber.tracker

ringVars == <<slots, cursor, trackers, lock>>
pubVars  == <<pubPc, seq, cachedSlowest, scanTodo, scanMin>>
subVars  == <<pc, subCursor, tracker>>
vars     == <<ringVars, pubVars, subVars>>

Nothing   == -1
Altered   == -2
Seqs      == 0 .. MaxSeq - 1
Slots     == 0 .. Capacity - 1
Slot(n)   == n % Capacity
NextAfter == IF cursor = Nothing THEN 0 ELSE cursor + 1

\* A dropped subscriber's entry no longer upgrades.
Live(s) == pc[s] \notin {"absent", "locked", "gone"}

Init ==
  /\ slots = [i \in Slots |-> Nothing]
  /\ cursor = Nothing
  /\ trackers = {}
  /\ lock = "free"
  /\ pubPc = "idle"
  /\ seq = 0
  /\ cachedSlowest = 0
  /\ scanTodo = {}
  /\ scanMin = Nothing
  /\ pc = [s \in Subs |-> "absent"]
  /\ subCursor = [s \in Subs |-> 0]
  /\ tracker = [s \in Subs |-> 0]

TypeOK ==
  /\ slots \in [Slots -> Seqs \cup {Nothing, Altered}]
  /\ cursor \in Seqs \cup {Nothing}
  /\ trackers \subseteq Subs
  /\ lock \in Subs \cup {"free", "publisher"}
  /\ pubPc \in {"idle", "lock", "scan", "mutate", "altering", "cursor"}
  /\ seq \in 0 .. MaxSeq
  /\ cachedSlowest \in 0 .. MaxSeq
  /\ scanTodo \subseteq Subs
  /\ scanMin \in (0 .. MaxSeq) \cup {Nothing}
  /\ pc \in [Subs -> {"absent", "locked", "push", "idle", "reading", "gone"}]
  /\ subCursor \in [Subs -> 0 .. MaxSeq]
  /\ tracker \in [Subs -> 0 .. MaxSeq]

----------------------------------------------------------------------------
(* EventPublisher: publish repeats has_room while it is false, try_publish *)
(* returns false; either way the publisher is back at idle.                *)

\* Mutant of Full: a slot too many.
FullOffByOne(slowest) == seq > slowest + Capacity

Full(slowest) == seq >= slowest + Capacity

\* has_room with the cached position.
HasRoom ==
  /\ pubPc = "idle"
  /\ seq < MaxSeq
  /\ pubPc' = IF Full(cachedSlowest) THEN "lock" ELSE "mutate"
  /\ UNCHANGED <<ringVars, seq, cachedSlowest, scanTodo, scanMin, subVars>>

\* slowest: under the lock ...
ScanLock ==
  /\ pubPc = "lock"
  /\ lock = "free"
  /\ lock' = "publisher"
  /\ pubPc' = "scan"
  /\ scanTodo' = trackers
  /\ scanMin' = Nothing
  /\ UNCHANGED <<slots, cursor, trackers, seq, cachedSlowest, subVars>>

\* Mutant of ScanEntry: a dropped subscriber's tracker still counts.
ScanDeadEntry(s) ==
  /\ pubPc = "scan"
  /\ s \in scanTodo
  /\ scanTodo' = scanTodo \ {s}
  /\ scanMin' = IF scanMin = Nothing \/ tracker[s] < scanMin
                THEN tracker[s] ELSE scanMin
  /\ UNCHANGED <<slots, cursor, trackers, lock, pubPc, seq, cachedSlowest, subVars>>

\* ... each live entry is read and kept, each dead one is pruned ...
ScanEntry(s) ==
  /\ pubPc = "scan"
  /\ s \in scanTodo
  /\ scanTodo' = scanTodo \ {s}
  /\ \/ /\ Live(s)
        /\ scanMin' = IF scanMin = Nothing \/ tracker[s] < scanMin
                      THEN tracker[s] ELSE scanMin
        /\ UNCHANGED trackers
     \/ /\ ~Live(s)
        /\ trackers' = trackers \ {s}
        /\ UNCHANGED scanMin
  /\ UNCHANGED <<slots, cursor, lock, pubPc, seq, cachedSlowest, subVars>>

\* ... and has_room answers.  Without a subscriber there is always room.
ScanDone ==
  /\ pubPc = "scan"
  /\ scanTodo = {}
  /\ lock' = "free"
  /\ cachedSlowest' = IF scanMin = Nothing THEN cachedSlowest ELSE scanMin
  /\ pubPc' = IF scanMin # Nothing /\ Full(scanMin) THEN "idle" ELSE "mutate"
  /\ scanMin' = Nothing
  /\ UNCHANGED <<slots, cursor, trackers, seq, scanTodo, subVars>>

\* write: the closure gets the slot's value, ...
BeginAlter ==
  /\ pubPc = "mutate"
  /\ slots' = [slots EXCEPT ![Slot(seq)] = Altered]
  /\ pubPc' = "altering"
  /\ UNCHANGED <<cursor, trackers, lock, seq, cachedSlowest, scanTodo, scanMin,
                 subVars>>

\* ... returns with the message in it ...
EndAlter ==
  /\ pubPc = "altering"
  /\ slots' = [slots EXCEPT ![Slot(seq)] = seq]
  /\ pubPc' = "cursor"
  /\ UNCHANGED <<cursor, trackers, lock, seq, cachedSlowest, scanTodo, scanMin,
                 subVars>>

\* ... or panics, and the message is not published.
PublishPanics ==
  /\ Panics
  /\ pubPc = "altering"
  /\ pubPc' = "idle"
  /\ UNCHANGED <<ringVars, seq, cachedSlowest, scanTodo, scanMin, subVars>>

StoreCursor ==
  /\ pubPc = "cursor"
  /\ cursor' = seq
  /\ seq' = seq + 1
  /\ pubPc' = "idle"
  /\ UNCHANGED <<slots, trackers, lock, cachedSlowest, scanTodo, scanMin, subVars>>

PubStep ==
  \/ HasRoom
  \/ ScanLock
  \/ \E s \in Subs : ScanEntry(s)
  \/ ScanDone
  \/ BeginAlter
  \/ EndAlter
  \/ PublishPanics
  \/ StoreCursor

----------------------------------------------------------------------------
(* EventSubscribable::subscribe and EventSubscriber.                       *)

\* Mutant of SubscribeLock: the start is chosen outside the lock.
SubscribeUnlocked(s) ==
  /\ pc[s] = "absent"
  /\ pc' = [pc EXCEPT ![s] = "locked"]
  /\ UNCHANGED <<slots, cursor, trackers, lock, pubVars, subCursor, tracker>>

SubscribeLock(s) ==
  /\ pc[s] = "absent"
  /\ lock = "free"
  /\ lock' = s
  /\ pc' = [pc EXCEPT ![s] = "locked"]
  /\ UNCHANGED <<slots, cursor, trackers, pubVars, subCursor, tracker>>

\* The start is chosen under the lock.
ChooseStart(s) ==
  /\ pc[s] = "locked"
  /\ pc' = [pc EXCEPT ![s] = "push"]
  /\ subCursor' = [subCursor EXCEPT ![s] = NextAfter]
  /\ tracker' = [tracker EXCEPT ![s] = NextAfter]
  /\ UNCHANGED <<ringVars, pubVars>>

PushTracker(s) ==
  /\ pc[s] = "push"
  /\ trackers' = trackers \cup {s}
  /\ lock' = "free"
  /\ pc' = [pc EXCEPT ![s] = "idle"]
  /\ UNCHANGED <<slots, cursor, pubVars, subCursor, tracker>>

\* process borrows the value of the next message.
Borrow(s) ==
  /\ pc[s] = "idle"
  /\ cursor # Nothing /\ subCursor[s] <= cursor
  /\ pc' = [pc EXCEPT ![s] = "reading"]
  /\ UNCHANGED <<ringVars, pubVars, subCursor, tracker>>

\* The closure has returned: the message is consumed and the slot released.
Release(s) ==
  /\ pc[s] = "reading"
  /\ subCursor' = [subCursor EXCEPT ![s] = @ + 1]
  /\ tracker' = [tracker EXCEPT ![s] = subCursor[s] + 1]
  /\ pc' = [pc EXCEPT ![s] = "idle"]
  /\ UNCHANGED <<ringVars, pubVars>>

\* The closure panicked: the message is not consumed.
ProcessPanics(s) ==
  /\ Panics
  /\ pc[s] = "reading"
  /\ pc' = [pc EXCEPT ![s] = "idle"]
  /\ UNCHANGED <<ringVars, pubVars, subCursor, tracker>>

\* Dropping a subscriber leaves its entry in the list.
DropSubscriber(s) ==
  /\ pc[s] = "idle"
  /\ pc' = [pc EXCEPT ![s] = "gone"]
  /\ UNCHANGED <<ringVars, pubVars, subCursor, tracker>>

SubStep(s) ==
  \/ SubscribeLock(s)
  \/ ChooseStart(s)
  \/ PushTracker(s)
  \/ Borrow(s)
  \/ Release(s)
  \/ ProcessPanics(s)
  \/ DropSubscriber(s)

Next == PubStep \/ \E s \in Subs : SubStep(s)

Spec == Init /\ [][Next]_vars

\* The publisher keeps polling; a subscriber inside a call leaves it, and one
\* that is idle either goes on processing or is dropped.  The clients' closures
\* may panic, but not every time.
FairSpec ==
  /\ Spec
  /\ WF_vars(PubStep)
  /\ SF_vars(EndAlter)
  /\ \A s \in Subs :
        /\ WF_vars(ChooseStart(s) \/ PushTracker(s))
        /\ WF_vars(Borrow(s) \/ Release(s) \/ DropSubscriber(s))
        /\ SF_vars(Release(s))

----------------------------------------------------------------------------
(* Properties.                                                             *)

\* The publisher's closure never holds a slot that a subscriber's closure has
\* borrowed: the two unsafe dereferences in write and process never alias.
NoAliasing ==
  \A s \in Subs :
     pc[s] = "reading" /\ pubPc \in {"mutate", "altering"} =>
        Slot(subCursor[s]) # Slot(seq)

\* A subscriber still finds every message published since it subscribed, as the
\* publisher's closure left it: neither overwritten by a later message nor
\* altered by a publication that panicked (has_room, write, process).
UnprocessedRetained ==
  \A s \in Subs, m \in Seqs :
     Live(s) /\ subCursor[s] <= m /\ m <= cursor => slots[Slot(m)] = m

\* A subscriber that stops reading and is dropped releases the publisher: with
\* every subscriber processing or gone, everything is published (slowest).
EverythingPublished == <>(seq = MaxSeq)
=============================================================================
