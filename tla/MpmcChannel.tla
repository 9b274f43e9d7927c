---------------------------- MODULE MpmcChannel ----------------------------
(***************************************************************************)
(* A multi-producer channel, channel_mpmc(): the clones of MpPublisher     *)
(* (src/channel/mp_publisher.rs) run against each other and against the    *)
(* subscribers of module Subscriber.  pubPc is the next access of a        *)
(* publisher to shared memory:                                             *)
(*                                                                         *)
(*   idle    between two calls of publish                                  *)
(*   slot    wait_for_slot polls the stamp of the previous lap             *)
(*   write   the slot's stamp is about to become odd                       *)
(*   words   payload words are being stored                                *)
(*   first   advance_cursor's first compare-exchange                       *)
(*   pred    advance_cursor polls the predecessor's stamp                  *)
(*   second  its second compare-exchange                                   *)
(*   reload  its load of the cursor                                        *)
(*   limit   catch_up_cursor loads next_seq                                *)
(*   stamp   catch_up_cursor loads the stamp of the next message           *)
(*   cas     catch_up_cursor's compare-exchange                            *)
(***************************************************************************)
EXTENDS Subscriber

CONSTANT Pubs   \* the publisher handles, one per thread

ASSUME LossyAssumption == Bounded = FALSE

VARIABLES
  nextSeq,   \* SharedRing.next_seq, the next sequence number to claim
  pubPc,     \* next access of each publisher
  pubSeq,    \* the sequence number it claimed
  todo,      \* payload words it has still to store
  reach      \* how far its catch_up_cursor has brought the cursor

mpVars == <<nextSeq, pubPc, pubSeq, todo, reach>>
vars   == <<ringVars, subVars, mpVars>>

MpPcs == {"idle", "slot", "write", "words", "first", "pred", "second", "reload",
          "limit", "stamp", "cas"}

Init ==
  /\ RingInit
  /\ SubInit
  /\ nextSeq = 0
  /\ pubPc = [p \in Pubs |-> "idle"]
  /\ pubSeq = [p \in Pubs |-> 0]
  /\ todo = [p \in Pubs |-> {}]
  /\ reach = [p \in Pubs |-> 0]

TypeOK ==
  /\ RingTypeOK
  /\ SubTypeOK
  /\ nextSeq \in 0 .. MaxSeq
  /\ pubPc \in [Pubs -> MpPcs]
  /\ pubSeq \in [Pubs -> 0 .. MaxSeq]
  /\ todo \in [Pubs -> SUBSET Words]
  /\ reach \in [Pubs -> 0 .. MaxSeq]

Goto(p, l) == pubPc' = [pubPc EXCEPT ![p] = l]

\* The call returns; its locals are gone.
Return(p) ==
  /\ Goto(p, "idle")
  /\ pubSeq' = [pubSeq EXCEPT ![p] = 0]
  /\ reach' = [reach EXCEPT ![p] = 0]

----------------------------------------------------------------------------
(* publish and publish_with.                                               *)

\* fetch_add on next_seq.
Claim(p) ==
  /\ pubPc[p] = "idle"
  /\ nextSeq < MaxSeq
  /\ pubSeq' = [pubSeq EXCEPT ![p] = nextSeq]
  /\ nextSeq' = nextSeq + 1
  /\ Goto(p, "slot")
  /\ UNCHANGED <<ringVars, subVars, todo, reach>>

\* The previous lap's write to the slot of seq has completed.  Mutants: no
\* wait; and a wait for that write to have begun.
SlotNotAwaited(seq) == TRUE
SlotBegun(seq)      == seq < Capacity \/ stamp[Slot(seq)] >= Writing(seq - Capacity)
SlotIsFree(seq)     == seq < Capacity \/ stamp[Slot(seq)] >= Done(seq - Capacity)

WaitForSlot(p) ==
  /\ pubPc[p] = "slot"
  /\ SlotIsFree(pubSeq[p])
  /\ Goto(p, "write")
  /\ UNCHANGED <<ringVars, subVars, nextSeq, pubSeq, todo, reach>>

\* Slot::write and write_with.
BeginWrite(p) ==
  /\ pubPc[p] = "write"
  /\ StampWriting(pubSeq[p])
  /\ todo' = [todo EXCEPT ![p] = Words]
  /\ Goto(p, "words")
  /\ UNCHANGED <<cursor, trackers, lock, subVars, nextSeq, pubSeq, reach>>

WriteWord(p) ==
  /\ pubPc[p] = "words"
  /\ \E w \in todo[p] :
        /\ value' = [value EXCEPT ![Slot(pubSeq[p])][w] = pubSeq[p]]
        /\ todo' = [todo EXCEPT ![p] = @ \ {w}]
  /\ UNCHANGED <<stamp, cursor, trackers, lock, subVars, nextSeq, pubPc, pubSeq,
                 reach>>

EndWrite(p) ==
  /\ pubPc[p] = "words"
  /\ todo[p] = {}
  /\ stamp' = [stamp EXCEPT ![Slot(pubSeq[p])] = Done(pubSeq[p])]
  /\ Goto(p, "first")
  /\ UNCHANGED <<value, cursor, trackers, lock, subVars, nextSeq, pubSeq, todo,
                 reach>>

----------------------------------------------------------------------------
(* advance_cursor.                                                         *)

\* The cursor a publisher of seq expects to find: u64::MAX before the first.
Expected(seq) == seq - 1

\* The first compare-exchange: on success the successors are absorbed, on
\* failure the predecessor is awaited (message 0 has none, and never fails).
FirstCas(p) ==
  LET seq == pubSeq[p]
  IN  /\ pubPc[p] = "first"
      /\ \/ /\ cursor = Expected(seq)
            /\ cursor' = seq
            /\ reach' = [reach EXCEPT ![p] = seq]
            /\ Goto(p, "limit")
         \/ /\ cursor # Expected(seq)
            /\ Goto(p, IF seq > 0 THEN "pred" ELSE "second")
            /\ UNCHANGED <<cursor, reach>>
      /\ UNCHANGED <<stamp, value, trackers, lock, subVars, nextSeq, pubSeq, todo>>

\* The message before seq is written, or already overwritten.  Mutant: its
\* slot still holds it.
PredHeld(seq)    == stamp[Slot(seq - 1)] = Done(seq - 1)
PredWritten(seq) == stamp[Slot(seq - 1)] >= Done(seq - 1)

\* The loop on the predecessor's stamp ends.
WaitPred(p) ==
  /\ pubPc[p] = "pred"
  /\ PredWritten(pubSeq[p])
  /\ Goto(p, "second")
  /\ UNCHANGED <<ringVars, subVars, nextSeq, pubSeq, todo, reach>>

\* The second compare-exchange, whose result is ignored.
SecondCas(p) ==
  /\ pubPc[p] = "second"
  /\ cursor' = IF cursor = Expected(pubSeq[p]) THEN pubSeq[p] ELSE cursor
  /\ Goto(p, "reload")
  /\ UNCHANGED <<stamp, value, trackers, lock, subVars, nextSeq, pubSeq, todo, reach>>

\* Mutant of Reload: the publisher that won the compare-exchange just returns.
ReloadReturns(p) ==
  /\ pubPc[p] = "reload"
  /\ Return(p)
  /\ UNCHANGED <<ringVars, subVars, nextSeq, todo>>

\* The load that tells whether the cursor stands at the publisher's message.
Reload(p) ==
  /\ pubPc[p] = "reload"
  /\ \/ /\ cursor = pubSeq[p]
        /\ reach' = [reach EXCEPT ![p] = pubSeq[p]]
        /\ Goto(p, "limit")
        /\ UNCHANGED pubSeq
     \/ /\ cursor # pubSeq[p]
        /\ Return(p)
  /\ UNCHANGED <<ringVars, subVars, nextSeq, todo>>

----------------------------------------------------------------------------
(* catch_up_cursor.                                                        *)

\* Nothing more has been claimed, or the stamp of the next message is loaded.
LoadLimit(p) ==
  /\ pubPc[p] = "limit"
  /\ \/ /\ reach[p] + 1 >= nextSeq
        /\ Return(p)
     \/ /\ reach[p] + 1 < nextSeq
        /\ Goto(p, "stamp")
        /\ UNCHANGED <<pubSeq, reach>>
  /\ UNCHANGED <<ringVars, subVars, nextSeq, todo>>

\* The message after seq is written.  Mutant: it has been begun.
NextBegun(seq)   == stamp[Slot(seq + 1)] >= Writing(seq + 1)
NextWritten(seq) == stamp[Slot(seq + 1)] >= Done(seq + 1)

LoadNext(p) ==
  /\ pubPc[p] = "stamp"
  /\ \/ /\ NextWritten(reach[p])
        /\ Goto(p, "cas")
        /\ UNCHANGED <<pubSeq, reach>>
     \/ /\ ~NextWritten(reach[p])
        /\ Return(p)
  /\ UNCHANGED <<ringVars, subVars, nextSeq, todo>>

CatchUpCas(p) ==
  /\ pubPc[p] = "cas"
  /\ \/ /\ cursor = reach[p]
        /\ cursor' = reach[p] + 1
        /\ reach' = [reach EXCEPT ![p] = @ + 1]
        /\ Goto(p, "limit")
        /\ UNCHANGED pubSeq
     \/ /\ cursor # reach[p]
        /\ Return(p)
        /\ UNCHANGED cursor
  /\ UNCHANGED <<stamp, value, trackers, lock, subVars, nextSeq, todo>>

\* The steps of a publisher inside publish.
Advance(p) ==
  \/ WaitForSlot(p)
  \/ BeginWrite(p)
  \/ WriteWord(p)
  \/ EndWrite(p)
  \/ FirstCas(p)
  \/ WaitPred(p)
  \/ SecondCas(p)
  \/ Reload(p)
  \/ LoadLimit(p)
  \/ LoadNext(p)
  \/ CatchUpCas(p)

Next ==
  \/ \E p \in Pubs : Claim(p) \/ Advance(p)
  \/ \E s \in Subs : SubStep(s) /\ UNCHANGED mpVars

Spec == Init /\ [][Next]_vars

\* A thread inside publish keeps running, and subscribers keep receiving.
\* Nobody has to publish.
FairSpec ==
  /\ Spec
  /\ \A p \in Pubs : WF_vars(Advance(p))
  /\ \A s \in Subs : WF_vars(CallStep(s) /\ UNCHANGED mpVars)

----------------------------------------------------------------------------
(* Properties.                                                             *)

\* No two publishers are ever inside Slot::write on one slot, however many
\* publishes are in flight (wait_for_slot).
OneWriterPerSlot ==
  \A p, q \in Pubs :
     /\ p # q
     /\ pubPc[p] \in {"write", "words"} /\ pubPc[q] \in {"write", "words"}
     => Slot(pubSeq[p]) # Slot(pubSeq[q])

\* Although a failed compare-exchange is not repeated, somebody always brings
\* the cursor up: when no publish is in progress it names the last message
\* claimed (advance_cursor's reload, catch_up_cursor's loop).
CursorCaughtUp ==
  (\A p \in Pubs : pubPc[p] = "idle") => cursor = nextSeq - 1

\* The publisher polls a stamp that another one has still to write.
Waiting(p) ==
  \/ pubPc[p] = "slot" /\ ~SlotIsFree(pubSeq[p])
  \/ pubPc[p] = "pred" /\ ~PredWritten(pubSeq[p])

\* Publishers that wait for each other's stamps never all wait: as long as a
\* publish is in progress, some publisher inside publish is not polling in vain
\* (wait_for_slot, advance_cursor).
SomebodyRuns ==
  (\E p \in Pubs : pubPc[p] # "idle")
    => \E p \in Pubs : pubPc[p] # "idle" /\ ~Waiting(p)

\* Every publish returns, although publishers wait for each other's stamps
\* (wait_for_slot, advance_cursor).
PublishReturns ==
  \A p \in Pubs : pubPc[p] # "idle" ~> pubPc[p] = "idle"

\* A subscriber that keeps receiving gets past every message that was claimed,
\* also when it is lapped while the cursor stands behind the stamps and read_slot
\* has to answer Empty (read_slot, advance_cursor).
SubscribersCatchUp ==
  \A s \in Subs, m \in Seqs :
     pc[s] = "idle" /\ nextSeq > m ~> subCursor[s] > m
=============================================================================
