----------------------------- MODULE Subscriber -----------------------------
(***************************************************************************)
(* Subscribers of a ring and the handle that creates them                  *)
(* (src/channel/subscriber.rs, src/channel/subscribable.rs).  Every access *)
(* to shared memory is a step of its own: a call is a sequence of steps,   *)
(* and pc says which access comes next.                                    *)
(*                                                                         *)
(*   absent    no subscriber under this identity                           *)
(*   locked    register_tracker_at_head holds the lock, head not loaded    *)
(*   push      head loaded, tracker not yet pushed, lock still held        *)
(*   register  subscribe_from_oldest has chosen its start, not registered  *)
(*   idle      no call in progress                                         *)
(*   latest    latest() is about to load the head                          *)
(*   read      read_slot is about to load the slot's stamp                 *)
(*   words     the stamp matched, payload words are being loaded           *)
(*   lag       the stamp was newer, the head is about to be loaded         *)
(*   track     the local cursor moved, the tracker store comes next        *)
(***************************************************************************)
EXTENDS SharedRing

CONSTANTS
  Calls,        \* the API calls the clients make
  MaxReceived   \* bound: messages one subscriber receives

ASSUME MaxReceivedAssumption == MaxReceived \in Nat

VARIABLES
  pc,         \* next access of the subscriber, see above
  kind,       \* how it was created: lossy, head, oldest or tracked
  subCursor,  \* Subscriber.cursor, the next sequence number to read
  tracker,    \* value of its tracker, Nothing without one
  op,         \* the call in progress, "none" between calls
  buf,        \* payload words loaded by the call, Nothing until loaded
  ret,        \* outcome of the last read_slot: none, ok, empty or lagged
  received,   \* Subscriber.total_received
  lagged,     \* Subscriber.total_lagged
  start       \* history: where it was created, Nothing after a jump by latest()

subVars == <<pc, kind, subCursor, tracker, op, buf, ret, received, lagged,
             start>>

Kinds   == {"none", "lossy", "head", "oldest", "tracked"}
Results == {"none", "ok", "empty", "lagged"}
Pcs     == {"absent", "locked", "push", "register", "idle", "latest", "read",
            "words", "lag", "track"}

\* The outcomes of read_slot after which a call reads again: recv (also in
\* the form recv_with) returns only a message, Drain::next stops when there
\* is none, latest starts over when it was lapped.
Retries == [none |-> {}, try_recv |-> {}, recv |-> {"empty", "lagged"},
            drain |-> {"lagged"}, latest |-> {"lagged"}]

Ops == DOMAIN Retries

Blank == [w \in Words |-> Nothing]

SubInit ==
  /\ pc = [s \in Subs |-> "absent"]
  /\ kind = [s \in Subs |-> "none"]
  /\ subCursor = [s \in Subs |-> 0]
  /\ tracker = [s \in Subs |-> Nothing]
  /\ op = [s \in Subs |-> "none"]
  /\ buf = [s \in Subs |-> Blank]
  /\ ret = [s \in Subs |-> "none"]
  /\ received = [s \in Subs |-> 0]
  /\ lagged = [s \in Subs |-> 0]
  /\ start = [s \in Subs |-> 0]

SubTypeOK ==
  /\ pc \in [Subs -> Pcs]
  /\ kind \in [Subs -> Kinds]
  /\ subCursor \in [Subs -> 0 .. MaxSeq]
  /\ tracker \in [Subs -> (0 .. MaxSeq) \cup {Nothing}]
  /\ op \in [Subs -> Ops]
  /\ buf \in [Subs -> [Words -> Seqs \cup {Nothing}]]
  /\ ret \in [Subs -> Results]
  /\ received \in [Subs -> Nat]
  /\ lagged \in [Subs -> Nat]
  /\ start \in [Subs -> (0 .. MaxSeq) \cup {Nothing}]

----------------------------------------------------------------------------
(* Creating and dropping subscribers.                                      *)

\* A new subscriber of kind k positioned at sequence number n, its tracker
\* (if it has one) holding t, and its creation to be continued at p.
Create(s, k, n, t, p) ==
  /\ pc[s] = "absent"
  /\ pc' = [pc EXCEPT ![s] = p]
  /\ kind' = [kind EXCEPT ![s] = k]
  /\ subCursor' = [subCursor EXCEPT ![s] = n]
  /\ tracker' = [tracker EXCEPT ![s] = t]
  /\ start' = [start EXCEPT ![s] = n]
  /\ UNCHANGED <<op, buf, ret, received, lagged>>

\* subscribe_lossy, and subscribe on a lossy ring: no tracker, no lock.
SubscribeLossy(s) ==
  /\ "subscribe_lossy" \in Calls \/ ("subscribe" \in Calls /\ ~Bounded)
  /\ Create(s, "lossy", NextAfter(cursor), Nothing, "idle")
  /\ UNCHANGED ringVars

\* subscribe_tracked on a lossy ring: a tracker no publisher looks at.
SubscribeTracked(s) ==
  /\ "subscribe_tracked" \in Calls
  /\ ~Bounded
  /\ Create(s, "tracked", NextAfter(cursor), NextAfter(cursor), "idle")
  /\ UNCHANGED ringVars

\* subscribe_from_oldest loads the head; on a bounded ring it registers the
\* tracker later, in RegisterOldest.
SubscribeFromOldest(s) ==
  /\ "subscribe_from_oldest" \in Calls
  /\ IF Bounded
     THEN Create(s, "oldest", OldestAt(cursor), OldestAt(cursor), "register")
     ELSE Create(s, "lossy", OldestAt(cursor), Nothing, "idle")
  /\ UNCHANGED ringVars

\* register_tracker: lock, push, unlock.
RegisterOldest(s) ==
  /\ pc[s] = "register"
  /\ lock = "free"
  /\ trackers' = trackers \cup {s}
  /\ pc' = [pc EXCEPT ![s] = "idle"]
  /\ UNCHANGED <<stamp, value, cursor, lock, kind, subCursor, tracker, op, buf,
                 ret, received, lagged, start>>

\* Mutant of LockTrackers: the head is loaded without holding the lock.
SkipLock(s) ==
  /\ "subscribe" \in Calls \/ "subscribe_tracked" \in Calls
  /\ Bounded
  /\ pc[s] = "absent"
  /\ pc' = [pc EXCEPT ![s] = "locked"]
  /\ UNCHANGED <<stamp, value, cursor, trackers, lock, kind, subCursor, tracker,
                 op, buf, ret, received, lagged, start>>

\* subscribe and subscribe_tracked on a bounded ring, in three steps
\* (register_tracker_at_head): take the lock ...
LockTrackers(s) ==
  /\ "subscribe" \in Calls \/ "subscribe_tracked" \in Calls
  /\ Bounded
  /\ pc[s] = "absent"
  /\ lock = "free"
  /\ lock' = s
  /\ pc' = [pc EXCEPT ![s] = "locked"]
  /\ UNCHANGED <<stamp, value, cursor, trackers, kind, subCursor, tracker, op,
                 buf, ret, received, lagged, start>>

\* ... load the head under it and initialise the tracker ...
LoadHead(s) ==
  /\ pc[s] = "locked"
  /\ pc' = [pc EXCEPT ![s] = "push"]
  /\ kind' = [kind EXCEPT ![s] = "head"]
  /\ subCursor' = [subCursor EXCEPT ![s] = NextAfter(cursor)]
  /\ tracker' = [tracker EXCEPT ![s] = NextAfter(cursor)]
  /\ start' = [start EXCEPT ![s] = NextAfter(cursor)]
  /\ UNCHANGED <<ringVars, op, buf, ret, received, lagged>>

\* ... push the tracker and release the lock.
PushTracker(s) ==
  /\ pc[s] = "push"
  /\ trackers' = trackers \cup {s}
  /\ lock' = "free"
  /\ pc' = [pc EXCEPT ![s] = "idle"]
  /\ UNCHANGED <<stamp, value, cursor, kind, subCursor, tracker, op, buf, ret,
                 received, lagged, start>>

\* What Drop leaves in the tracker list.
WithoutTracker(s) == trackers \ {s}

\* Drop: a tracker of a bounded ring is removed from the list, under the lock.
\* The identity is free for a new subscriber.
DropSubscriber(s) ==
  /\ "drop" \in Calls
  /\ pc[s] = "idle"
  /\ kind[s] \in {"head", "oldest"} => lock = "free"
  /\ trackers' = WithoutTracker(s)
  /\ pc' = [pc EXCEPT ![s] = "absent"]
  /\ kind' = [kind EXCEPT ![s] = "none"]
  /\ subCursor' = [subCursor EXCEPT ![s] = 0]
  /\ tracker' = [tracker EXCEPT ![s] = Nothing]
  /\ buf' = [buf EXCEPT ![s] = Blank]
  /\ ret' = [ret EXCEPT ![s] = "none"]
  /\ received' = [received EXCEPT ![s] = 0]
  /\ lagged' = [lagged EXCEPT ![s] = 0]
  /\ start' = [start EXCEPT ![s] = 0]
  /\ UNCHANGED <<stamp, value, cursor, lock, op>>

----------------------------------------------------------------------------
(* Receiving.                                                              *)

\* Where a call o goes when read_slot has produced r and no store is left.
After(o, r) ==
  IF r \notin Retries[o] THEN "idle"
  ELSE IF o = "latest" THEN "latest" ELSE "read"

\* read_slot of call o produces r.  When the cursor moved, a tracker is
\* stored first (update_tracker).
Finish(s, o, r) ==
  LET p == IF r \in {"ok", "lagged"} /\ tracker[s] # Nothing
           THEN "track" ELSE After(o, r)
  IN  /\ pc' = [pc EXCEPT ![s] = p]
      /\ op' = [op EXCEPT ![s] = IF p = "idle" THEN "none" ELSE o]
      /\ ret' = [ret EXCEPT ![s] = r]

\* The first stamp load of try_read, on behalf of call o.
LoadStamp(s, o) ==
  LET n == subCursor[s]
      t == stamp[Slot(n)]
  IN  /\ buf' = [buf EXCEPT ![s] = Blank]
      /\ \/ /\ t = Done(n)
            /\ pc' = [pc EXCEPT ![s] = "words"]
            /\ op' = [op EXCEPT ![s] = o]
            /\ UNCHANGED ret
         \/ /\ Odd(t) \/ t < Done(n)
            /\ Finish(s, o, "empty")
         \/ /\ ~Odd(t) /\ t > Done(n)
            /\ pc' = [pc EXCEPT ![s] = "lag"]
            /\ op' = [op EXCEPT ![s] = o]
            /\ UNCHANGED ret
      /\ UNCHANGED <<ringVars, kind, subCursor, tracker, received, lagged,
                     start>>

\* A call of try_recv, recv or drain starts reading, or a call reads again.
Receive(s) ==
  \/ /\ pc[s] = "idle"
     /\ received[s] < MaxReceived
     /\ \E o \in (Ops \ {"none", "latest"}) \cap Calls : LoadStamp(s, o)
  \/ /\ pc[s] = "read"
     /\ LoadStamp(s, op[s])

\* latest() loads the head and jumps there.
Latest(s) ==
  /\ \/ /\ pc[s] = "idle"
        /\ "latest" \in Calls
        /\ received[s] < MaxReceived
     \/ pc[s] = "latest"
  /\ buf' = [buf EXCEPT ![s] = Blank]
  /\ \/ /\ cursor = Nothing
        /\ Finish(s, "latest", "empty")
        /\ UNCHANGED <<subCursor, start>>
     \/ /\ cursor # Nothing
        /\ subCursor' = [subCursor EXCEPT ![s] = cursor]
        /\ start' = [start EXCEPT ![s] = Nothing]
        /\ pc' = [pc EXCEPT ![s] = "read"]
        /\ op' = [op EXCEPT ![s] = "latest"]
        /\ UNCHANGED ret
  /\ UNCHANGED <<ringVars, kind, tracker, received, lagged>>

\* One Relaxed word of the payload is loaded.
LoadWord(s) ==
  /\ pc[s] = "words"
  /\ \E w \in Words :
        /\ buf[s][w] = Nothing
        /\ buf' = [buf EXCEPT ![s][w] = value[Slot(subCursor[s])][w]]
  /\ UNCHANGED <<ringVars, pc, kind, subCursor, tracker, op, ret, received,
                 lagged, start>>

\* Mutants of StampUnchanged: the copy is trusted without a second load; a
\* message counts only once the cursor has announced it.
StampNotReloaded(s) == TRUE
StampAnnounced(s)   ==
  stamp[Slot(subCursor[s])] = Done(subCursor[s]) /\ subCursor[s] <= cursor

\* The second stamp load: an unchanged stamp makes the copy valid.
StampUnchanged(s) == stamp[Slot(subCursor[s])] = Done(subCursor[s])

Recheck(s) ==
  /\ pc[s] = "words"
  /\ \A w \in Words : buf[s][w] # Nothing
  /\ \/ /\ StampUnchanged(s)
        /\ subCursor' = [subCursor EXCEPT ![s] = @ + 1]
        /\ received' = [received EXCEPT ![s] = @ + 1]
        /\ Finish(s, op[s], "ok")
        /\ UNCHANGED buf
     \/ /\ ~StampUnchanged(s)
        /\ Finish(s, op[s], "empty")
        /\ buf' = [buf EXCEPT ![s] = Blank]
        /\ UNCHANGED <<subCursor, received>>
  /\ UNCHANGED <<ringVars, kind, tracker, lagged, start>>

\* Messages a subscriber at n loses by moving to oldest.
Skipped(n, oldest) == oldest - n

\* The slot held a newer message: load the head and skip to the oldest
\* message still in the ring.
SkipLag(s) ==
  LET n      == subCursor[s]
      oldest == OldestAt(cursor)
  IN  /\ pc[s] = "lag"
      /\ \/ /\ cursor # Nothing /\ n <= cursor /\ n < oldest
            /\ subCursor' = [subCursor EXCEPT ![s] = oldest]
            /\ lagged' = [lagged EXCEPT ![s] = @ + Skipped(n, oldest)]
            /\ Finish(s, op[s], "lagged")
         \/ /\ cursor = Nothing \/ n > cursor \/ n >= oldest
            /\ Finish(s, op[s], "empty")
            /\ UNCHANGED <<subCursor, lagged>>
      /\ UNCHANGED <<ringVars, kind, tracker, buf, received, start>>

\* Mutant of StoreTracker: update_tracker is forgotten.
TrackerNotStored(s) ==
  /\ pc[s] = "track"
  /\ pc' = [pc EXCEPT ![s] = After(op[s], ret[s])]
  /\ op' = [op EXCEPT ![s] = IF After(op[s], ret[s]) = "idle" THEN "none" ELSE @]
  /\ UNCHANGED <<ringVars, kind, subCursor, tracker, buf, ret, received, lagged,
                 start>>

\* update_tracker, after which the call returns or reads again.
StoreTracker(s) ==
  /\ pc[s] = "track"
  /\ tracker' = [tracker EXCEPT ![s] = subCursor[s]]
  /\ pc' = [pc EXCEPT ![s] = After(op[s], ret[s])]
  /\ op' = [op EXCEPT ![s] = IF After(op[s], ret[s]) = "idle" THEN "none" ELSE @]
  /\ UNCHANGED <<ringVars, kind, subCursor, buf, ret, received, lagged, start>>

CallStep(s) ==
  \/ Receive(s)
  \/ Latest(s)
  \/ LoadWord(s)
  \/ Recheck(s)
  \/ SkipLag(s)
  \/ StoreTracker(s)

RegisterStep(s) ==
  \/ RegisterOldest(s)
  \/ LoadHead(s)
  \/ PushTracker(s)

SubStep(s) ==
  \/ SubscribeLossy(s)
  \/ SubscribeTracked(s)
  \/ SubscribeFromOldest(s)
  \/ LockTrackers(s)
  \/ RegisterStep(s)
  \/ DropSubscriber(s)
  \/ CallStep(s)

----------------------------------------------------------------------------
(* What every channel promises its subscribers.                            *)

\* A message returned by try_recv, recv, drain or latest is the message of the
\* sequence number the subscriber asked for, every word of it, whatever the
\* publisher did to the slot while it was copied (Slot::try_read).
NoTornRead ==
  \A s \in Subs :
     ret[s] = "ok" /\ pc[s] \in {"idle", "track"} =>
        \A w \in Words : buf[s][w] = subCursor[s] - 1

\* The ring cursor never runs ahead of the slots: every message up to it is
\* done, or already replaced by a later one (publish_unchecked and
\* advance_cursor move it after Slot::write; register_tracker_at_head and
\* pending rely on it).
CursorBehindSlots ==
  \A m \in Seqs : m <= cursor => stamp[Slot(m)] >= Done(m)

\* Every sequence number a subscriber moved past was either received once or
\* counted once in total_lagged, as long as it does not jump (read_slot; latest()
\* discards without counting).
EveryMessageAccounted ==
  \A s \in Subs :
     start[s] # Nothing => received[s] + lagged[s] = subCursor[s] - start[s]

\* In this step, every message a subscriber skipped had been overwritten.
SkippedWereOverwritten ==
  \A s \in Subs :
     lagged'[s] > lagged[s] =>
        \A m \in Seqs :
           m \in subCursor[s] .. subCursor'[s] - 1 => stamp[Slot(m)] > Done(m)
=============================================================================
