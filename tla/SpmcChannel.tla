---------------------------- MODULE SpmcChannel ----------------------------
(***************************************************************************)
(* A single-producer channel: channel() when Bounded is FALSE,             *)
(* channel_bounded() when it is TRUE.  The publisher                       *)
(* (src/channel/publisher.rs) runs against the subscribers of module       *)
(* Subscriber.  pubPc is the publisher's next access to shared memory:     *)
(*                                                                         *)
(*   idle    between publications (and between two polls of a full ring)   *)
(*   lock    the cached slowest cursor does not suffice, a scan is due     *)
(*   scan    slowest_cursor holds the lock and reads the trackers          *)
(*   write   there is room, the slot's stamp is about to become odd        *)
(*   words   payload words are being stored                                *)
(*   cursor  the slot is done, the ring cursor store comes next            *)
(***************************************************************************)
EXTENDS Subscriber

VARIABLES
  pubPc,          \* next access of the publisher
  seq,            \* Publisher.seq, the next sequence number to publish
  cachedSlowest,  \* Publisher.cached_slowest
  scanTodo,       \* trackers the scan in progress has not read yet
  scanMin         \* minimum of those it has read, Nothing before the first

pubVars == <<pubPc, seq, cachedSlowest, scanTodo, scanMin>>
vars    == <<ringVars, subVars, pubVars>>

PubPcs  == {"idle", "lock", "scan", "write", "words", "cursor"}

\* The publisher has found room for seq and has not finished publishing it.
Publishing == pubPc \in {"write", "words", "cursor"}

Init ==
  /\ RingInit
  /\ SubInit
  /\ pubPc = "idle"
  /\ seq = 0
  /\ cachedSlowest = 0
  /\ scanTodo = {}
  /\ scanMin = Nothing

----------------------------------------------------------------------------
(* publish, publish_with, publish_batch and try_publish: has_room, then    *)
(* the slot write, then the cursor store.  publish and its variants repeat *)
(* has_room while it is false, try_publish returns Full; either way the    *)
(* publisher is back at idle.                                              *)

\* Mutant of Full: one slot too many.
FullOffByOne(slowest) == seq > slowest + Effective

\* Publishing seq would use up the slots ahead of a subscriber at slowest.
Full(slowest) == seq >= slowest + Effective

\* has_room without a scan: a lossy ring, or the cached cursor suffices.
HasRoom ==
  /\ pubPc = "idle"
  /\ seq < MaxSeq
  /\ pubPc' = IF Bounded /\ Full(cachedSlowest)
              THEN "lock" ELSE "write"
  /\ UNCHANGED <<ringVars, subVars, seq, cachedSlowest, scanTodo, scanMin>>

\* slowest_cursor takes the lock ...
ScanLock ==
  /\ pubPc = "lock"
  /\ lock = "free"
  /\ lock' = "publisher"
  /\ pubPc' = "scan"
  /\ scanTodo' = trackers
  /\ scanMin' = Nothing
  /\ UNCHANGED <<stamp, value, cursor, trackers, subVars, seq, cachedSlowest>>

\* ... reads the trackers one by one ...
ScanTracker(s) ==
  /\ pubPc = "scan"
  /\ s \in scanTodo
  /\ scanTodo' = scanTodo \ {s}
  /\ scanMin' = IF scanMin = Nothing \/ tracker[s] < scanMin
                THEN tracker[s] ELSE scanMin
  /\ UNCHANGED <<ringVars, subVars, pubPc, seq, cachedSlowest>>

\* Mutant of ScanDone: the cached cursor only grows.
ScanNeverLowers ==
  /\ pubPc = "scan"
  /\ scanTodo = {}
  /\ lock' = "free"
  /\ cachedSlowest' = IF scanMin = Nothing \/ scanMin < cachedSlowest
                      THEN cachedSlowest ELSE scanMin
  /\ pubPc' = IF scanMin # Nothing /\ Full(scanMin)
              THEN "idle" ELSE "write"
  /\ scanMin' = Nothing
  /\ UNCHANGED <<stamp, value, cursor, trackers, subVars, seq, scanTodo>>

\* ... and releases the lock.  Without a tracker there is always room.
ScanDone ==
  /\ pubPc = "scan"
  /\ scanTodo = {}
  /\ lock' = "free"
  /\ cachedSlowest' = IF scanMin = Nothing THEN cachedSlowest ELSE scanMin
  /\ pubPc' = IF scanMin # Nothing /\ Full(scanMin)
              THEN "idle" ELSE "write"
  /\ scanMin' = Nothing
  /\ UNCHANGED <<stamp, value, cursor, trackers, subVars, seq, scanTodo>>

\* Slot::write and write_with.
BeginWrite ==
  /\ pubPc = "write"
  /\ StampWriting(seq)
  /\ pubPc' = "words"
  /\ UNCHANGED <<cursor, trackers, lock, subVars, seq, cachedSlowest, scanTodo,
                 scanMin>>

WriteWord ==
  /\ pubPc = "words"
  /\ StoreWord(seq)
  /\ UNCHANGED <<cursor, trackers, lock, subVars, pubVars>>

EndWrite ==
  /\ pubPc = "words"
  /\ StampDone(seq)
  /\ pubPc' = "cursor"
  /\ UNCHANGED <<cursor, trackers, lock, subVars, seq, cachedSlowest, scanTodo,
                 scanMin>>

\* The message is published: the ring cursor names it.
StoreCursor ==
  /\ pubPc = "cursor"
  /\ cursor' = seq
  /\ seq' = seq + 1
  /\ pubPc' = "idle"
  /\ UNCHANGED <<stamp, value, trackers, lock, subVars, cachedSlowest, scanTodo,
                 scanMin>>

PubStep ==
  \/ HasRoom
  \/ ScanLock
  \/ \E s \in Subs : ScanTracker(s)
  \/ ScanDone
  \/ BeginWrite
  \/ WriteWord
  \/ EndWrite
  \/ StoreCursor

Next ==
  \/ PubStep
  \/ \E s \in Subs : SubStep(s) /\ UNCHANGED pubVars

Spec == Init /\ [][Next]_vars

\* The publisher thread keeps polling until everything is published, a thread
\* inside a registration leaves it, and subscribers keep receiving.
FairSpec ==
  /\ Spec
  /\ WF_vars(PubStep)
  /\ \A s \in Subs : WF_vars(RegisterStep(s) /\ UNCHANGED pubVars)
  /\ \A s \in Subs : WF_vars(CallStep(s) /\ UNCHANGED pubVars)

----------------------------------------------------------------------------
(* Properties.                                                             *)

TypeOK ==
  /\ RingTypeOK
  /\ SubTypeOK
  /\ pubPc \in PubPcs
  /\ seq \in 0 .. MaxSeq
  /\ cachedSlowest \in 0 .. MaxSeq
  /\ scanTodo \subseteq Subs
  /\ scanMin \in (0 .. MaxSeq) \cup {Nothing}

\* Lagged never skips a message that could still be read: the slot of every
\* skipped sequence number holds a later message (read_slot's exact lag).
LagSkipsOnlyOverwritten == [][SkippedWereOverwritten]_vars

\* On a bounded ring a subscriber made by subscribe() finds every published
\* message it has not read yet intact in its slot, whatever trackers the
\* publisher's cached scan has seen (has_room, register_tracker_at_head).
UnreadRetained ==
  "latest" \notin Calls =>
     \A s \in Subs, m \in Seqs :
        /\ kind[s] = "head"
        /\ subCursor[s] <= m /\ m < seq
        => stamp[Slot(m)] = Done(m)

\* Such a subscriber is never told that it lagged.
GatedNeverLags ==
  "latest" \notin Calls => \A s \in Subs : kind[s] = "head" => lagged[s] = 0

\* The cached slowest cursor counts on no more than s has read.
Covered(s) == cachedSlowest <= tracker[s]

\* Every subscriber that a scan has seen gates the publisher from there on, also
\* one from subscribe_from_oldest that registered behind the cached cursor or
\* was lapped before it registered: the cached cursor covers it as long as it
\* lives, and no publication begins that would take a slot it has not passed
\* (has_room, slowest_cursor, update_tracker).
SeenSubscribersGate ==
  [][\A s \in trackers \cap trackers' :
       /\ "latest" \notin Calls
       /\ Covered(s) \/ (pubPc = "scan" /\ pubPc' # "scan")
       => /\ Covered(s)'
          /\ pubPc # "write" /\ pubPc' = "write" => seq < tracker[s] + Effective
    ]_vars

\* The publisher's scan covers exactly the subscribers that exist and gate it:
\* none is missed once registered, none lingers after Drop to block the ring
\* (register_tracker, slowest_cursor, Drop for Subscriber).
TrackersAreLive ==
  trackers = {s \in Subs : /\ kind[s] \in {"head", "oldest"}
                           /\ pc[s] \notin {"absent", "push", "register"}}

\* A publisher blocked on a full bounded ring is released by the subscribers it
\* waits for: everything is published in the end (publish, has_room).
EverythingPublished == <>(seq = MaxSeq)

\* A subscriber that keeps receiving, and is not dropped, reaches the last
\* message, lapped or not (read_slot, recv, drain).  Calls of latest(), which may
\* return one message again and again, end at the bound MaxReceived.
SubscribersCatchUp ==
  \A s \in Subs :
     pc[s] = "idle"
       ~> subCursor[s] = MaxSeq \/ received[s] = MaxReceived \/ pc[s] = "absent"

\* What the comment on latest() says: it "Returns `None` only if nothing has been
\* published yet".  Refuted: a slot that is being rewritten is also None.
LatestNoneOnlyBeforeFirst ==
  [][\A s \in Subs :
       op[s] = "latest" /\ pc'[s] = "idle" /\ ret'[s] = "empty" => cursor = Nothing
    ]_vars
=============================================================================
