----------------------------- MODULE MpmcProofs -----------------------------
(***************************************************************************)
(* The inductive invariant of MpmcChannel and the theorems that follow,    *)
(* for every capacity, payload width, number of publishers and of          *)
(* subscribers, set of calls, and any number of messages: 1. what the      *)
(* publishers keep; 2. the refinement of MultiBroadcast; 3. what a         *)
(* subscriber is told; 4. publishers never all wait.                       *)
(***************************************************************************)
EXTENDS MpmcRefinement, SubscriberProofs

----------------------------------------------------------------------------
(* The invariant.                                                          *)

\* Publishers inside publish hold different sequence numbers.
ClaimInv ==
  /\ \A p \in Pubs : pubPc[p] # "idle" => pubSeq[p] < nextSeq
  /\ \A p, q \in Pubs :
        p # q /\ pubPc[p] # "idle" /\ pubPc[q] # "idle" => pubSeq[p] # pubSeq[q]

\* No slot is ahead of what has been claimed.
BoundInv == \A i \in Slots : stamp[i] <= 2 * nextSeq

\* What a publisher knows of its slot: not overtaken while it waits, free and
\* then its own while it writes, done afterwards.
WriterInv ==
  \A p \in Pubs :
     /\ pubPc[p] \in {"slot", "write"} => stamp[Slot(pubSeq[p])] < Writing(pubSeq[p])
     /\ pubPc[p] = "write" => SlotIsFree(pubSeq[p])
     /\ pubPc[p] = "words" => stamp[Slot(pubSeq[p])] = Writing(pubSeq[p])
     /\ pubPc[p] \in {"first", "pred", "second"} =>
           stamp[Slot(pubSeq[p])] >= Done(pubSeq[p])

\* The words stored so far are those of the message.
StoredInv ==
  \A p \in Pubs :
     pubPc[p] = "words" =>
        \A w \in Words : w \in todo[p] \/ value[Slot(pubSeq[p])][w] = pubSeq[p]

\* How far catch_up_cursor may move the cursor.
ReachInv ==
  \A p \in Pubs :
     /\ pubPc[p] \in {"limit", "stamp", "cas"} => reach[p] < nextSeq
     /\ pubPc[p] \in {"stamp", "cas"} => reach[p] + 1 < nextSeq
     /\ pubPc[p] = "cas" => NextWritten(reach[p])

CursorInv == cursor < nextSeq /\ CursorBehindSlots

\* A message that was claimed is done, or its publisher is still writing it.
Unwritten == {"slot", "write", "words"}

UnfinishedInv ==
  \A m \in Seqs :
     m < nextSeq =>
        \/ stamp[Slot(m)] >= Done(m)
        \/ \E p \in Pubs : pubPc[p] \in Unwritten /\ pubSeq[p] = m

\* The publisher that has to move the cursor on: the one of the next message
\* that has not given up yet, or the one that brought the cursor here.
Responsible(p) ==
  \/ pubPc[p] \in Unwritten \cup {"first", "pred", "second"} /\ pubSeq[p] = cursor + 1
  \/ pubPc[p] = "reload" /\ pubSeq[p] = cursor
  \/ pubPc[p] \in {"limit", "stamp", "cas"} /\ reach[p] = cursor

HandoverInv == cursor + 1 < nextSeq => \E p \in Pubs : Responsible(p)

SeqlockInv == ContentInv /\ ReaderInv /\ FreshInv /\ NoTornRead

IInv ==
  /\ TypeOK
  /\ ClaimInv
  /\ BoundInv
  /\ WriterInv
  /\ StoredInv
  /\ ReachInv
  /\ CursorInv
  /\ UnfinishedInv
  /\ HandoverInv
  /\ SeqlockInv
----------------------------------------------------------------------------
(* What the invariant says of slots.                                       *)

\* The sequence numbers of the publishers are numbers within the bound.
LEMMA SeqsInRange ==
  ASSUME TypeOK, ClaimInv, NEW p \in Pubs, pubPc[p] # "idle"
  PROVE  /\ pubSeq[p] \in Nat /\ pubSeq[p] \in Seqs /\ pubSeq[p] < nextSeq
         /\ Slot(pubSeq[p]) \in Slots
  BY SlotInRange, MaxSeqAssumption DEF TypeOK, ClaimInv, Seqs

\* A slot that is being written is not done.
LEMMA OddIsNotEven == \A m, n \in Nat : Writing(m) # Done(n)
  BY DEF Writing, Done

LEMMA DoneInjective == \A m \in Nat, n \in Seqs : Done(m) = Done(n) => m = n
  BY DEF Seqs, Done

\* wait_for_slot: a slot that is free for n has no use for an earlier message.
LEMMA FreeIsPast ==
  ASSUME NEW m \in Nat, NEW n \in Nat, m < n, Slot(m) = Slot(n), SlotIsFree(n),
         stamp[Slot(n)] \in Nat
  PROVE  stamp[Slot(m)] >= Done(m)
<1>1. n >= m + Capacity
  BY SlotWithinLap, CapacityAssumption
<1>. QED BY <1>1, CapacityAssumption DEF SlotIsFree, Done

\* No two publishers write to one slot.
LEMMA NoTwoWriters ==
  ASSUME TypeOK, ClaimInv, WriterInv, NEW p \in Pubs, NEW q \in Pubs, p # q,
         pubPc[p] \in Unwritten, pubPc[q] \in {"write", "words"}
  PROVE  \/ Slot(pubSeq[p]) # Slot(pubSeq[q])
         \/ pubPc[p] = "slot" /\ pubSeq[q] < pubSeq[p]
<1> DEFINE m == pubSeq[p]
           n == pubSeq[q]
<1>1. m \in Nat /\ n \in Nat /\ m # n /\ Slot(m) \in Slots /\ Slot(n) \in Slots
  BY SeqsInRange DEF ClaimInv, Unwritten
<1>2. stamp[Slot(m)] \in Nat /\ stamp[Slot(n)] \in Nat
  BY <1>1 DEF TypeOK, RingTypeOK
<1>3. stamp[Slot(m)] <= Writing(m) /\ stamp[Slot(n)] <= Writing(n)
  BY <1>1, <1>2 DEF WriterInv, Unwritten, Writing
<1>4. /\ pubPc[q] = "write" => SlotIsFree(n)
      /\ pubPc[q] = "words" => stamp[Slot(n)] = Writing(n)
      /\ pubPc[p] = "write" => SlotIsFree(m)
      /\ pubPc[p] = "words" => stamp[Slot(m)] = Writing(m)
  BY DEF WriterInv
<1> HIDE DEF m, n
<1>5. SUFFICES ASSUME Slot(m) = Slot(n)
               PROVE  pubPc[p] = "slot" /\ n < m
  BY DEF m, n
<1>6. ~(m < n)
  <2> SUFFICES ASSUME m < n PROVE FALSE
    OBVIOUS
  <2>1. CASE pubPc[q] = "write"
    BY <1>1, <1>2, <1>3, <1>4, <1>5, <2>1, FreeIsPast DEF Done, Writing
  <2>2. CASE pubPc[q] = "words"
    BY <1>1, <1>2, <1>3, <1>4, <1>5, <2>2 DEF Writing
  <2>. QED BY <2>1, <2>2
<1>7. CASE pubPc[p] = "write"
  BY <1>1, <1>2, <1>3, <1>4, <1>5, <1>6, <1>7, FreeIsPast DEF Done, Writing
<1>8. CASE pubPc[p] = "words"
  BY <1>1, <1>2, <1>3, <1>4, <1>5, <1>6, <1>8 DEF Writing
<1>. QED BY <1>1, <1>6, <1>7, <1>8 DEF Unwritten

\* A message whose slot is done has been claimed, and so is within the bound.
LEMMA DoneIsClaimed ==
  ASSUME TypeOK, BoundInv, NEW n \in Nat, stamp[Slot(n)] = Done(n)
  PROVE  n \in Seqs
<1>1. stamp[Slot(n)] <= 2 * nextSeq
  BY SlotInRange DEF BoundInv
<1>. QED BY <1>1, MaxSeqAssumption DEF TypeOK, Seqs, Done

----------------------------------------------------------------------------
(* Type correctness.                                                       *)

LEMMA TypePub ==
  ASSUME IInv, NEW p \in Pubs, Claim(p) \/ Advance(p)
  PROVE  TypeOK'
<1> USE MaxSeqAssumption DEF TypeOK, MpPcs
<1>0. /\ TypeOK /\ 0 \in 0 .. MaxSeq
      /\ pubPc[p] # "idle" => pubSeq[p] \in Seqs /\ Slot(pubSeq[p]) \in Slots
                              /\ pubSeq[p] \in Nat
  BY SeqsInRange DEF IInv
<1>1. CASE Claim(p)
  BY <1>0, <1>1 DEF Claim, Goto, ringVars, subVars, RingTypeOK, SubTypeOK
<1>2. CASE WaitForSlot(p) \/ WaitPred(p)
  BY <1>0, <1>2, Zenon DEF WaitForSlot, WaitPred, Goto, ringVars, subVars, RingTypeOK, SubTypeOK
<1>3. CASE BeginWrite(p)
  BY <1>0, <1>3 DEF BeginWrite, StampWriting, Goto, Writing, subVars, RingTypeOK, SubTypeOK
<1>4. CASE WriteWord(p)
  BY <1>0, <1>4 DEF WriteWord, subVars, RingTypeOK, SubTypeOK
<1>5. CASE EndWrite(p)
  BY <1>0, <1>5 DEF EndWrite, Goto, Done, subVars, RingTypeOK, SubTypeOK
<1>6. CASE FirstCas(p)
  BY <1>0, <1>6, Zenon DEF FirstCas, Goto, subVars, RingTypeOK, SubTypeOK, Seqs
<1>7. CASE SecondCas(p)
  BY <1>0, <1>7 DEF SecondCas, Goto, subVars, RingTypeOK, SubTypeOK
<1>8. CASE Reload(p) \/ LoadLimit(p) \/ LoadNext(p)
  BY <1>0, <1>8, ZenonT(40) DEF Reload, LoadLimit, LoadNext, Goto, Return, ringVars, subVars,
     RingTypeOK, SubTypeOK
<1>9. CASE CatchUpCas(p)
  <2>1. reach[p] + 1 \in Seqs /\ reach[p] + 1 \in 0 .. MaxSeq
    BY <1>0, <1>9 DEF CatchUpCas, IInv, ReachInv, Seqs
  <2>2. CASE cursor = reach[p]
    <3>1. cursor' \in Seqs /\ reach' \in [Pubs -> 0 .. MaxSeq] /\ pubPc' \in [Pubs -> MpPcs]
      BY <1>0, <1>9, <2>1, <2>2 DEF CatchUpCas, Goto
    <3>. QED BY <1>0, <1>9, <2>2, <3>1, Zenon DEF CatchUpCas, subVars, RingTypeOK, SubTypeOK
  <2>3. CASE cursor # reach[p]
    BY <1>0, <1>9, <2>3, ZenonT(40) DEF CatchUpCas, Return, Goto, subVars, RingTypeOK, SubTypeOK
  <2>. QED BY <2>2, <2>3
<1>. QED BY <1>1, <1>2, <1>3, <1>4, <1>5, <1>6, <1>7, <1>8, <1>9 DEF Advance
----------------------------------------------------------------------------
(* The steps of a publisher, without their inner structure.                *)

\* The steps that touch neither the slots nor next_seq.
Quiet(p) ==
  \/ WaitForSlot(p) \/ FirstCas(p) \/ WaitPred(p) \/ SecondCas(p) \/ Reload(p)
  \/ LoadLimit(p) \/ LoadNext(p) \/ CatchUpCas(p)

LEMMA PubFrame ==
  ASSUME TypeOK, NEW p \in Pubs, Claim(p) \/ Advance(p)
  PROVE  /\ \A q \in Pubs \ {p} : /\ pubPc'[q] = pubPc[q] /\ pubSeq'[q] = pubSeq[q]
                                  /\ todo'[q] = todo[q] /\ reach'[q] = reach[q]
         /\ UNCHANGED subVars
<1> USE DEF TypeOK
<1>1. CASE Claim(p)
  BY <1>1 DEF Claim, Goto
<1>2. CASE WaitForSlot(p) \/ WaitPred(p) \/ SecondCas(p)
  BY <1>2 DEF WaitForSlot, WaitPred, SecondCas, Goto
<1>3. CASE BeginWrite(p) \/ EndWrite(p)
  BY <1>3 DEF BeginWrite, EndWrite, Goto
<1>4. CASE WriteWord(p)
  BY <1>4 DEF WriteWord
<1>5. CASE FirstCas(p)
  BY <1>5 DEF FirstCas, Goto
<1>6. CASE Reload(p) \/ LoadLimit(p) \/ LoadNext(p)
  BY <1>6 DEF Reload, LoadLimit, LoadNext, Goto, Return
<1>7. CASE CatchUpCas(p)
  BY <1>7 DEF CatchUpCas, Goto, Return
<1>. QED BY <1>1, <1>2, <1>3, <1>4, <1>5, <1>6, <1>7, Zenon DEF Advance

\* What a quiet step does to its publisher.
LEMMA QuietEffect ==
  ASSUME TypeOK, NEW p \in Pubs, Quiet(p)
  PROVE  /\ UNCHANGED <<stamp, value, nextSeq, todo>>
         /\ pubPc[p] # "idle"
         /\ pubPc'[p] \notin {"slot", "words"}
         /\ pubPc'[p] # "idle" => pubSeq'[p] = pubSeq[p]
         /\ pubPc'[p] = "write" => pubPc[p] = "slot" /\ SlotIsFree(pubSeq[p])
         /\ pubPc'[p] \in {"pred", "second"} => pubPc[p] \in {"first", "pred"}
         /\ pubPc'[p] # "first"
<1> USE DEF TypeOK
<1>1. CASE WaitForSlot(p) \/ WaitPred(p) \/ SecondCas(p)
  BY <1>1 DEF WaitForSlot, WaitPred, SecondCas, Goto, ringVars
<1>2. CASE FirstCas(p)
  BY <1>2 DEF FirstCas, Goto
<1>3. CASE Reload(p) \/ LoadLimit(p) \/ LoadNext(p)
  BY <1>3 DEF Reload, LoadLimit, LoadNext, Goto, Return, ringVars
<1>4. CASE CatchUpCas(p)
  BY <1>4 DEF CatchUpCas, Goto, Return
<1>. QED BY <1>1, <1>2, <1>3, <1>4, Zenon DEF Quiet

LEMMA ClaimEffect ==
  ASSUME TypeOK, NEW p \in Pubs, Claim(p)
  PROVE  /\ UNCHANGED <<stamp, value, cursor, todo, reach>>
         /\ pubPc[p] = "idle" /\ pubPc'[p] = "slot"
         /\ pubSeq'[p] = nextSeq /\ nextSeq' = nextSeq + 1
  BY DEF Claim, Goto, ringVars, TypeOK

\* What a write step does.
LEMMA WriteEffect ==
  ASSUME TypeOK, NEW p \in Pubs, BeginWrite(p) \/ EndWrite(p)
  PROVE  /\ UNCHANGED <<value, cursor, nextSeq, pubSeq, reach>>
         /\ \/ /\ pubPc[p] = "write" /\ pubPc'[p] = "words" /\ todo'[p] = Words
               /\ stamp' = [stamp EXCEPT ![Slot(pubSeq[p])] = Writing(pubSeq[p])]
            \/ /\ pubPc[p] = "words" /\ pubPc'[p] = "first" /\ todo[p] = {}
               /\ stamp' = [stamp EXCEPT ![Slot(pubSeq[p])] = Done(pubSeq[p])]
  BY DEF BeginWrite, EndWrite, StampWriting, Goto, TypeOK

LEMMA WordEffect ==
  ASSUME TypeOK, NEW p \in Pubs, WriteWord(p)
  PROVE  /\ UNCHANGED <<stamp, cursor, nextSeq, pubPc, pubSeq, reach>>
         /\ pubPc[p] = "words"
         /\ \E w \in Words :
               /\ value' = [value EXCEPT ![Slot(pubSeq[p])][w] = pubSeq[p]]
               /\ todo'[p] = todo[p] \ {w}
  BY Zenon DEF WriteWord, TypeOK

\* Stamps only grow, and only under the publisher that has the slot.
LEMMA StampGrows ==
  ASSUME IInv, NEW p \in Pubs, Claim(p) \/ Advance(p), NEW i \in Slots
  PROVE  /\ stamp[i] \in Nat /\ stamp'[i] \in Nat /\ stamp[i] <= stamp'[i]
         /\ \/ stamp'[i] = stamp[i]
            \/ /\ i = Slot(pubSeq[p]) /\ pubPc[p] \in {"write", "words"}
               /\ stamp[i] < stamp'[i] /\ stamp'[i] <= Done(pubSeq[p])
<1>0. TypeOK /\ TypeOK' /\ stamp \in [Slots -> Nat] /\ stamp' \in [Slots -> Nat]
  BY TypePub DEF IInv, TypeOK, RingTypeOK
<1>1. CASE BeginWrite(p) \/ EndWrite(p)
  <2>1. pubSeq[p] \in Nat /\ Slot(pubSeq[p]) \in Slots
    BY <1>0, <1>1, SeqsInRange, WriteEffect, Zenon DEF IInv
  <2>2. /\ pubPc[p] = "write" => stamp[Slot(pubSeq[p])] < Writing(pubSeq[p])
        /\ pubPc[p] = "words" => stamp[Slot(pubSeq[p])] = Writing(pubSeq[p])
    BY Zenon DEF IInv, WriterInv
  <2>3. CASE /\ pubPc[p] = "write"
             /\ stamp' = [stamp EXCEPT ![Slot(pubSeq[p])] = Writing(pubSeq[p])]
    BY <1>0, <2>1, <2>2, <2>3 DEF Writing, Done
  <2>4. CASE /\ pubPc[p] = "words"
             /\ stamp' = [stamp EXCEPT ![Slot(pubSeq[p])] = Done(pubSeq[p])]
    BY <1>0, <2>1, <2>2, <2>4 DEF Writing, Done
  <2>. QED BY <1>0, <1>1, <2>3, <2>4, WriteEffect, Zenon
<1>2. CASE UNCHANGED stamp
  BY <1>0, <1>2
<1>. QED BY <1>0, <1>1, <1>2, ClaimEffect, QuietEffect, WordEffect DEF Advance, Quiet
----------------------------------------------------------------------------
(* The publishers preserve the invariant.                                  *)

LEMMA ClaimStep ==
  ASSUME IInv, NEW p \in Pubs, Claim(p) \/ Advance(p)
  PROVE  ClaimInv' /\ BoundInv'
<1>0. /\ TypeOK /\ ClaimInv /\ BoundInv /\ nextSeq \in Nat
      /\ \A q \in Pubs \ {p} : pubPc'[q] = pubPc[q] /\ pubSeq'[q] = pubSeq[q]
  BY PubFrame DEF IInv, TypeOK
<1>1. \A q \in Pubs : pubPc[q] # "idle" => pubSeq[q] \in Nat /\ pubSeq[q] < nextSeq
  BY <1>0, SeqsInRange
<1>2. CASE Claim(p)
  <2>1. ClaimInv'
    BY <1>0, <1>1, <1>2, ClaimEffect DEF ClaimInv
  <2>2. BoundInv'
    BY <1>0, <1>2, ClaimEffect DEF BoundInv, TypeOK, RingTypeOK
  <2>. QED BY <2>1, <2>2
<1>3. CASE Advance(p)
  <2>1. /\ nextSeq' = nextSeq /\ pubPc[p] # "idle"
        /\ pubPc'[p] # "idle" => pubSeq'[p] = pubSeq[p]
    BY <1>0, <1>3, QuietEffect, WriteEffect, WordEffect, Zenon DEF Advance, Quiet
  <2>2. ClaimInv'
    BY <1>0, <2>1, Zenon DEF ClaimInv
  <2>3. BoundInv'
    <3> SUFFICES ASSUME NEW i \in Slots PROVE stamp'[i] <= 2 * nextSeq
      BY <2>1 DEF BoundInv
    <3>1. \/ stamp'[i] = stamp[i]
          \/ stamp'[i] \in Nat /\ stamp'[i] <= Done(pubSeq[p])
      BY StampGrows, Zenon
    <3>. QED BY <1>0, <1>1, <2>1, <3>1 DEF BoundInv, Done
  <2>. QED BY <2>2, <2>3
<1>. QED BY <1>2, <1>3

\* What the other publishers know of their slots stays true.
LEMMA WriterOthers ==
  ASSUME IInv, NEW p \in Pubs, Claim(p) \/ Advance(p), NEW q \in Pubs, q # p
  PROVE  /\ pubPc[q] \in {"slot", "write"} => stamp'[Slot(pubSeq[q])] < Writing(pubSeq[q])
         /\ pubPc[q] = "write" => SlotIsFree(pubSeq[q])'
         /\ pubPc[q] = "words" => stamp'[Slot(pubSeq[q])] = Writing(pubSeq[q])
         /\ pubPc[q] \in {"first", "pred", "second"} =>
               stamp'[Slot(pubSeq[q])] >= Done(pubSeq[q])
<1> DEFINE n == pubSeq[q]
           m == pubSeq[p]
<1> SUFFICES ASSUME pubPc[q] # "idle"
             PROVE  /\ pubPc[q] \in {"slot", "write"} => stamp'[Slot(n)] < Writing(n)
                    /\ pubPc[q] = "write" => SlotIsFree(n)'
                    /\ pubPc[q] = "words" => stamp'[Slot(n)] = Writing(n)
                    /\ pubPc[q] \in {"first", "pred", "second"} =>
                          stamp'[Slot(n)] >= Done(n)
  OBVIOUS
<1>0. TypeOK /\ ClaimInv /\ WriterInv /\ n \in Nat /\ Slot(n) \in Slots
  BY SeqsInRange DEF IInv
<1>1. /\ stamp[Slot(n)] \in Nat /\ stamp'[Slot(n)] \in Nat /\ stamp[Slot(n)] <= stamp'[Slot(n)]
      /\ \/ stamp'[Slot(n)] = stamp[Slot(n)]
         \/ /\ Slot(n) = Slot(m) /\ pubPc[p] \in {"write", "words"}
            /\ stamp'[Slot(n)] <= Done(m)
  BY <1>0, StampGrows, Zenon
<1>2. /\ pubPc[q] \in {"slot", "write"} => stamp[Slot(n)] < Writing(n)
      /\ pubPc[q] = "write" => SlotIsFree(n)
      /\ pubPc[q] = "words" => stamp[Slot(n)] = Writing(n)
      /\ pubPc[q] \in {"first", "pred", "second"} => stamp[Slot(n)] >= Done(n)
  BY <1>0, Zenon DEF WriterInv
<1>3. pubPc[p] \in {"write", "words"} /\ pubPc[q] \in Unwritten =>
         Slot(n) # Slot(m) \/ (pubPc[q] = "slot" /\ m < n /\ m \in Nat)
  BY <1>0, NoTwoWriters, SeqsInRange
<1> HIDE DEF n, m
<1>4. pubPc[q] \in {"slot", "write"} => stamp'[Slot(n)] < Writing(n)
  BY <1>0, <1>1, <1>2, <1>3 DEF Unwritten, Writing, Done
<1>5. pubPc[q] = "words" => stamp'[Slot(n)] = Writing(n)
  BY <1>1, <1>2, <1>3, Zenon DEF Unwritten
<1>6. pubPc[q] \in {"first", "pred", "second"} => stamp'[Slot(n)] >= Done(n)
  BY <1>0, <1>1, <1>2 DEF Done
<1>7. pubPc[q] = "write" => SlotIsFree(n)'
  <2>1. SlotIsFree(n)' <=> (n' < Capacity \/ stamp'[Slot(n')] >= Done(n' - Capacity))
    BY DEF SlotIsFree, Slot, Done
  <2>2. n' = n
    BY PubFrame, <1>0 DEF n
  <2>. QED BY <1>0, <1>1, <1>2, <2>1, <2>2, CapacityAssumption DEF SlotIsFree, Done
<1>. QED BY <1>4, <1>5, <1>6, <1>7

LEMMA WriterStep ==
  ASSUME IInv, NEW p \in Pubs, Claim(p) \/ Advance(p)
  PROVE  WriterInv'
<1> DEFINE W(q) ==
      /\ pubPc[q] \in {"slot", "write"} => stamp[Slot(pubSeq[q])] < Writing(pubSeq[q])
      /\ pubPc[q] = "write" => SlotIsFree(pubSeq[q])
      /\ pubPc[q] = "words" => stamp[Slot(pubSeq[q])] = Writing(pubSeq[q])
      /\ pubPc[q] \in {"first", "pred", "second"} =>
            stamp[Slot(pubSeq[q])] >= Done(pubSeq[q])
<1>0. /\ TypeOK /\ ClaimInv /\ BoundInv /\ W(p)
      /\ stamp \in [Slots -> Nat] /\ nextSeq \in Nat
  BY DEF IInv, WriterInv, TypeOK, RingTypeOK
<1>1. ASSUME NEW q \in Pubs, q # p PROVE W(q)'
  <2>1. pubPc'[q] = pubPc[q] /\ pubSeq'[q] = pubSeq[q]
    BY <1>0, <1>1, PubFrame, Zenon
  <2>. QED BY <1>1, <2>1, WriterOthers, Zenon
<1>2. CASE Claim(p)
  <2>1. Slot(nextSeq) \in Slots
    BY <1>0, SlotInRange, Zenon
  <2>2. stamp[Slot(nextSeq)] < Writing(nextSeq)
    BY <1>0, <2>1 DEF BoundInv, Writing
  <2>3. W(p)'
    BY <1>0, <1>2, <2>2, ClaimEffect, Zenon
  <2>. QED BY <1>1, <2>3, Zenon DEF WriterInv
<1>3. CASE Quiet(p)
  <2>1. /\ UNCHANGED stamp
        /\ pubPc'[p] \notin {"slot", "words", "first"}
        /\ pubPc'[p] # "idle" => pubSeq'[p] = pubSeq[p]
        /\ pubPc'[p] = "write" => pubPc[p] = "slot" /\ SlotIsFree(pubSeq[p])
        /\ pubPc'[p] \in {"pred", "second"} => pubPc[p] \in {"first", "pred"}
    BY <1>0, <1>3, QuietEffect, Zenon
  <2>2. pubPc'[p] = "write" => SlotIsFree(pubSeq[p])'
    BY <2>1, Zenon DEF SlotIsFree
  <2>3. W(p)'
    BY <1>0, <2>1, <2>2, Zenon
  <2>. QED BY <1>1, <2>3, Zenon DEF WriterInv
<1>4. CASE BeginWrite(p) \/ EndWrite(p)
  <2>1. pubSeq[p] \in Nat /\ Slot(pubSeq[p]) \in Slots
    BY <1>0, <1>4, SeqsInRange, WriteEffect, Zenon
  <2>2. W(p)'
    BY <1>0, <1>4, <2>1, WriteEffect DEF Done
  <2>. QED BY <1>1, <2>2 DEF WriterInv
<1>5. CASE WriteWord(p)
  <2>1. W(p)'
    BY <1>0, <1>5, WordEffect, Zenon
  <2>. QED BY <1>1, <2>1 DEF WriterInv
<1>. QED BY <1>2, <1>3, <1>4, <1>5 DEF Advance, Quiet

\* Nor does it change the words another publisher has stored.
LEMMA StoredStep ==
  ASSUME IInv, NEW p \in Pubs, Claim(p) \/ Advance(p)
  PROVE  StoredInv'
<1> DEFINE S(q) ==
      pubPc[q] = "words" =>
         \A w \in Words : w \in todo[q] \/ value[Slot(pubSeq[q])][w] = pubSeq[q]
<1>a. TypeOK /\ ClaimInv /\ WriterInv /\ StoredInv
  BY Zenon DEF IInv
<1>b. \A q \in Pubs : S(q)
  BY <1>a, Zenon DEF StoredInv
<1>c. value \in [Slots -> [Words -> Seqs \cup {Nothing}]]
  BY <1>a, Zenon DEF TypeOK, RingTypeOK
<1>d. \A q \in Pubs \ {p} : /\ pubPc'[q] = pubPc[q] /\ pubSeq'[q] = pubSeq[q]
                           /\ todo'[q] = todo[q]
  BY <1>a, PubFrame, Zenon
<1>0. /\ TypeOK /\ ClaimInv /\ WriterInv /\ \A q \in Pubs : S(q)
      /\ value \in [Slots -> [Words -> Seqs \cup {Nothing}]]
      /\ \A q \in Pubs \ {p} : /\ pubPc'[q] = pubPc[q] /\ pubSeq'[q] = pubSeq[q]
                               /\ todo'[q] = todo[q]
  BY <1>a, <1>b, <1>c, <1>d, Zenon
<1>1. CASE UNCHANGED value /\ pubPc'[p] # "words"
  BY <1>0, <1>1, Zenon DEF StoredInv
<1>2. CASE BeginWrite(p) \/ EndWrite(p)
  <2>1. UNCHANGED value /\ (pubPc'[p] = "words" => todo'[p] = Words)
    BY <1>a, <1>2, WriteEffect, Zenon
  <2>. QED BY <1>b, <1>d, <2>1, Zenon DEF StoredInv
<1>3. CASE WriteWord(p)
  <2>1. PICK w \in Words : /\ value' = [value EXCEPT ![Slot(pubSeq[p])][w] = pubSeq[p]]
                           /\ todo'[p] = todo[p] \ {w}
    BY <1>0, <1>3, WordEffect, Zenon
  <2>2. pubPc[p] = "words" /\ UNCHANGED <<pubPc, pubSeq>>
    BY <1>0, <1>3, WordEffect, Zenon
  <2>3. Slot(pubSeq[p]) \in Slots
    BY <1>0, <2>2, SeqsInRange, Zenon
  <2>4. S(p)'
    BY <1>0, <2>1, <2>2, <2>3, Zenon
  <2>5. ASSUME NEW q \in Pubs, q # p PROVE S(q)'
    <3>1. CASE pubPc[q] = "words"
      <4>1. Slot(pubSeq[q]) # Slot(pubSeq[p])
        BY <1>0, <2>2, <2>5, <3>1, NoTwoWriters, Zenon DEF Unwritten
      <4>2. Slot(pubSeq[q]) \in Slots
        BY <1>0, <3>1, SeqsInRange, Zenon
      <4>. QED BY <1>0, <2>1, <2>5, <4>1, <4>2, Zenon
    <3>2. CASE pubPc[q] # "words"
      BY <1>0, <2>5, <3>2
    <3>. QED BY <3>1, <3>2, Zenon
  <2>. QED BY <2>4, <2>5, Zenon DEF StoredInv
<1>4. CASE Claim(p)
  BY <1>0, <1>1, <1>4, ClaimEffect, Zenon
<1>5. CASE Quiet(p)
  BY <1>0, <1>1, <1>5, QuietEffect, Zenon
<1>. QED BY <1>2, <1>3, <1>4, <1>5 DEF Advance, Quiet

\* Once done, a message's slot never says otherwise.
LEMMA DoneStays ==
  ASSUME IInv, NEW p \in Pubs, Claim(p) \/ Advance(p), NEW m \in Nat,
         stamp[Slot(m)] >= Done(m)
  PROVE  stamp'[Slot(m)] >= Done(m)
  BY StampGrows, SlotInRange DEF Done

LEMMA ReachStep ==
  ASSUME IInv, NEW p \in Pubs, Claim(p) \/ Advance(p)
  PROVE  ReachInv'
<1> DEFINE R(q) ==
      /\ pubPc[q] \in {"limit", "stamp", "cas"} => reach[q] < nextSeq
      /\ pubPc[q] \in {"stamp", "cas"} => reach[q] + 1 < nextSeq
      /\ pubPc[q] = "cas" => NextWritten(reach[q])
<1>0. /\ TypeOK /\ ClaimInv /\ (\A q \in Pubs : R(q)) /\ nextSeq \in Nat
      /\ \A q \in Pubs : reach[q] \in Nat
      /\ \A q \in Pubs \ {p} : pubPc'[q] = pubPc[q] /\ reach'[q] = reach[q]
      /\ pubPc[p] # "idle" => pubSeq[p] \in Nat /\ pubSeq[p] < nextSeq
  BY PubFrame, SeqsInRange DEF IInv, ReachInv, TypeOK
<1>1. nextSeq' \in Nat /\ nextSeq <= nextSeq'
  BY <1>0, ClaimEffect, QuietEffect, WriteEffect, WordEffect DEF Advance, Quiet
<1>2. ASSUME NEW q \in Pubs, q # p PROVE R(q)'
  <2>1. pubPc[q] = "cas" => NextWritten(reach[q])'
    <3>1. SUFFICES ASSUME pubPc[q] = "cas"
                   PROVE  stamp'[Slot(reach[q] + 1)] >= Done(reach[q] + 1)
      BY <1>0, <1>2, Zenon DEF NextWritten
    <3>2. stamp[Slot(reach[q] + 1)] >= Done(reach[q] + 1)
      BY <1>0, <3>1, Zenon DEF NextWritten
    <3>3. reach[q] + 1 \in Nat
      BY <1>0
    <3>. QED BY <3>2, <3>3, DoneStays, Zenon
  <2>2. pubPc'[q] = pubPc[q] /\ reach'[q] = reach[q] /\ reach[q] \in Nat
    BY <1>0, <1>2, Zenon
  <2>3. R(q)
    BY <1>0, Zenon
  <2>4. /\ pubPc'[q] \in {"limit", "stamp", "cas"} => reach'[q] < nextSeq'
        /\ pubPc'[q] \in {"stamp", "cas"} => reach'[q] + 1 < nextSeq'
    <3>1. ASSUME NEW r \in Nat
          PROVE  /\ r < nextSeq => r < nextSeq'
                 /\ r + 1 < nextSeq => r + 1 < nextSeq'
      BY <1>0, <1>1
    <3>. QED BY <2>2, <2>3, <3>1, Zenon
  <2>. QED BY <2>1, <2>2, <2>4, Zenon
<1>3. R(p)'
  <2>1. CASE pubPc'[p] \notin {"limit", "stamp", "cas"}
    BY <2>1, Zenon
  <2>2. CASE FirstCas(p) \/ Reload(p)
    BY <1>0, <2>2, Zenon DEF FirstCas, Reload, Goto, Return, TypeOK, MpPcs
  <2>3. CASE LoadLimit(p)
    BY <1>0, <2>3, Zenon DEF LoadLimit, Goto, Return, TypeOK, MpPcs
  <2>4. CASE LoadNext(p)
    BY <1>0, <2>4, Zenon DEF LoadNext, Goto, Return, TypeOK, MpPcs, NextWritten, ringVars
  <2>5. CASE CatchUpCas(p)
    BY <1>0, <2>5, Zenon DEF CatchUpCas, Goto, Return, TypeOK, MpPcs
  <2>6. CASE WaitForSlot(p) \/ WaitPred(p) \/ SecondCas(p)
    BY <1>0, <2>1, <2>6, Zenon DEF WaitForSlot, WaitPred, SecondCas, Goto, TypeOK, MpPcs
  <2>7. CASE Claim(p) \/ BeginWrite(p) \/ EndWrite(p) \/ WriteWord(p)
    BY <1>0, <2>1, <2>7, ClaimEffect, WriteEffect, WordEffect, Zenon
  <2>. QED BY <2>2, <2>3, <2>4, <2>5, <2>6, <2>7, Zenon DEF Advance
<1>. QED BY <1>2, <1>3, Zenon DEF ReachInv

\* The cursor moves by one, over a message that is done, or not at all.
LEMMA CursorMoves ==
  ASSUME IInv, NEW p \in Pubs, Claim(p) \/ Advance(p), cursor' # cursor
  PROVE  /\ cursor' = cursor + 1 /\ cursor' < nextSeq
         /\ stamp[Slot(cursor')] >= Done(cursor')
         /\ \/ pubPc'[p] = "reload" /\ pubSeq'[p] = cursor'
            \/ pubPc'[p] = "limit" /\ reach'[p] = cursor'
<1>0. /\ TypeOK /\ ReachInv /\ WriterInv
      /\ pubPc[p] # "idle" => pubSeq[p] \in Nat /\ pubSeq[p] < nextSeq
      /\ reach[p] \in Nat /\ cursor \in Int
  BY SeqsInRange DEF IInv, TypeOK, RingTypeOK, Seqs, Nothing
<1>1. CASE FirstCas(p) \/ SecondCas(p)
  BY <1>0, <1>1 DEF FirstCas, SecondCas, Goto, Expected, WriterInv, TypeOK
<1>2. CASE CatchUpCas(p)
  BY <1>0, <1>2, Zenon DEF CatchUpCas, Goto, ReachInv, NextWritten, TypeOK
<1>. QED BY <1>1, <1>2, Zenon DEF Advance, Claim, WaitForSlot, BeginWrite, WriteWord, EndWrite,
     WaitPred, Reload, LoadLimit, LoadNext, ringVars

LEMMA CursorStep ==
  ASSUME IInv, NEW p \in Pubs, Claim(p) \/ Advance(p)
  PROVE  CursorInv'
<1>0. /\ TypeOK /\ nextSeq \in Nat /\ cursor \in Int /\ cursor < nextSeq
      /\ \A m \in Seqs : m \in Nat /\ (m <= cursor => stamp[Slot(m)] >= Done(m))
  BY DEF IInv, TypeOK, RingTypeOK, CursorInv, CursorBehindSlots, Seqs, Nothing
<1>1. nextSeq' \in Nat /\ nextSeq <= nextSeq'
  BY <1>0, ClaimEffect, QuietEffect, WriteEffect, WordEffect DEF Advance, Quiet
<1>2. CASE cursor' = cursor
  BY <1>0, <1>1, <1>2, DoneStays DEF CursorInv, CursorBehindSlots
<1>3. CASE cursor' # cursor
  <2>1. cursor' = cursor + 1 /\ cursor' < nextSeq /\ stamp[Slot(cursor')] >= Done(cursor')
    BY <1>3, CursorMoves
  <2>2. ASSUME NEW m \in Seqs, m <= cursor' PROVE stamp[Slot(m)] >= Done(m)
    <3>1. m <= cursor \/ m = cursor'
      BY <1>0, <2>1, <2>2
    <3>. QED BY <1>0, <2>1, <3>1
  <2>. QED BY <1>0, <1>1, <2>1, <2>2, DoneStays DEF CursorInv, CursorBehindSlots
<1>. QED BY <1>2, <1>3
LEMMA UnfinishedStep ==
  ASSUME IInv, NEW p \in Pubs, Claim(p) \/ Advance(p)
  PROVE  UnfinishedInv'
<1>0. /\ TypeOK /\ nextSeq \in Nat /\ ClaimInv /\ UnfinishedInv /\ WriterInv'
      /\ \A q \in Pubs \ {p} : pubPc'[q] = pubPc[q] /\ pubSeq'[q] = pubSeq[q]
  BY PubFrame, WriterStep DEF IInv, TypeOK
<1> SUFFICES ASSUME NEW m \in Seqs, m < nextSeq'
             PROVE  \/ stamp'[Slot(m)] >= Done(m)
                    \/ \E q \in Pubs : pubPc'[q] \in Unwritten /\ pubSeq'[q] = m
  BY Zenon DEF UnfinishedInv
<1>a. m \in Nat
  BY DEF Seqs
<1>1. CASE Claim(p)
  <2>1. CASE m = nextSeq
    BY <1>0, <1>1, <2>1, ClaimEffect, Zenon DEF Unwritten
  <2>2. CASE m # nextSeq
    <3>1. m < nextSeq
      BY <1>0, <1>1, <1>a, <2>2, ClaimEffect
    <3>2. CASE stamp[Slot(m)] >= Done(m)
      BY <1>a, <3>2, DoneStays, Zenon
    <3>3. CASE \E q \in Pubs : pubPc[q] \in Unwritten /\ pubSeq[q] = m
      BY <1>0, <1>1, <3>3, ClaimEffect, Zenon DEF Unwritten
    <3>. QED BY <1>0, <3>1, <3>2, <3>3, Zenon DEF UnfinishedInv
  <2>. QED BY <2>1, <2>2, Zenon
<1>2. CASE Advance(p)
  <2>1. m < nextSeq
    BY <1>0, <1>2, QuietEffect, WriteEffect, WordEffect, Zenon DEF Advance, Quiet
  <2>2. CASE stamp[Slot(m)] >= Done(m)
    BY <1>a, <2>2, DoneStays, Zenon
  <2>3. ASSUME NEW q \in Pubs, pubPc[q] \in Unwritten, pubSeq[q] = m
        PROVE  \/ pubPc'[q] \in Unwritten /\ pubSeq'[q] = m
               \/ stamp'[Slot(m)] >= Done(m)
    <3>1. CASE q # p
      BY <1>0, <2>3, <3>1, Zenon
    <3>2. CASE q = p
      <4>1. /\ pubPc'[p] \in Unwritten \cup {"first"}
            /\ pubSeq'[p] = pubSeq[p]
        BY <1>0, <1>2, <2>3, <3>2, Zenon DEF Advance, WaitForSlot, BeginWrite, WriteWord, EndWrite,
           FirstCas, WaitPred, SecondCas, Reload, LoadLimit, LoadNext, CatchUpCas, Goto,
           Unwritten, TypeOK
      <4>2. pubPc'[p] = "first" => stamp'[Slot(pubSeq'[p])] >= Done(pubSeq'[p])
        BY <1>0, Zenon DEF WriterInv
      <4>. QED BY <2>3, <3>2, <4>1, <4>2, Zenon
    <3>. QED BY <3>1, <3>2, Zenon
  <2>. QED BY <1>0, <2>1, <2>2, <2>3, Zenon DEF UnfinishedInv
<1>. QED BY <1>1, <1>2, Zenon

\* Whoever leaves the cursor behind leaves somebody else to move it.
LEMMA HandoverStep ==
  ASSUME IInv, NEW p \in Pubs, Claim(p) \/ Advance(p)
  PROVE  HandoverInv'
<1>0. /\ TypeOK /\ nextSeq \in Nat /\ cursor \in Int /\ cursor + 1 >= 0 /\ ReachInv
      /\ nextSeq <= MaxSeq /\ MaxSeq \in Nat
      /\ UnfinishedInv /\ HandoverInv
      /\ \A q \in Pubs \ {p} : /\ pubPc'[q] = pubPc[q] /\ pubSeq'[q] = pubSeq[q]
                               /\ reach'[q] = reach[q]
  <2>1. TypeOK /\ ReachInv /\ UnfinishedInv /\ HandoverInv
    BY Zenon DEF IInv
  <2>2. nextSeq \in 0 .. MaxSeq /\ cursor \in Seqs \cup {Nothing}
    BY <2>1, Zenon DEF TypeOK, RingTypeOK
  <2>3. /\ nextSeq \in Nat /\ cursor \in Int /\ cursor + 1 >= 0
        /\ nextSeq <= MaxSeq /\ MaxSeq \in Nat
    BY <2>2, MaxSeqAssumption DEF Seqs, Nothing
  <2>4. \A q \in Pubs \ {p} : /\ pubPc'[q] = pubPc[q] /\ pubSeq'[q] = pubSeq[q]
                              /\ reach'[q] = reach[q]
    BY <2>1, PubFrame, Zenon
  <2>. QED BY <2>1, <2>3, <2>4, Zenon
<1> SUFFICES ASSUME cursor' + 1 < nextSeq' PROVE \E q \in Pubs : Responsible(q)'
  BY DEF HandoverInv
<1>1. CASE cursor' # cursor
  BY <1>1, CursorMoves, Zenon DEF Responsible
<1>2. CASE cursor' = cursor /\ Claim(p)
  <2>1. CASE cursor + 1 = nextSeq
    BY <1>0, <1>2, <2>1, ClaimEffect, Zenon DEF Responsible, Unwritten
  <2>2. CASE cursor + 1 # nextSeq
    <3>1. PICK q \in Pubs : Responsible(q)
      BY <1>0, <1>2, <2>2, ClaimEffect DEF HandoverInv
    <3>2. q # p
      BY <1>0, <1>2, <3>1, ClaimEffect, Zenon DEF Responsible, Unwritten
    <3>. QED BY <1>0, <1>2, <3>1, <3>2, Zenon DEF Responsible
  <2>. QED BY <2>1, <2>2
<1>3. CASE cursor' = cursor /\ Advance(p)
  <2>0. nextSeq' = nextSeq
    BY <1>0, <1>3, QuietEffect, WriteEffect, WordEffect, Zenon DEF Advance, Quiet
  <2>1. PICK q \in Pubs : Responsible(q)
    BY <1>0, <1>3, <2>0, Zenon DEF HandoverInv
  <2>2. CASE q # p
    BY <1>0, <1>3, <2>1, <2>2, Zenon DEF Responsible
  <2>3. CASE q = p
    <3>1. Responsible(p)
      BY <2>1, <2>3
    <3>2. CASE WaitForSlot(p) \/ BeginWrite(p) \/ WriteWord(p) \/ EndWrite(p) \/ WaitPred(p)
      BY <1>0, <1>3, <3>1, <3>2, Zenon DEF WaitForSlot, BeginWrite, WriteWord, EndWrite, WaitPred,
         Goto, Responsible, Unwritten, TypeOK
    <3>3. CASE FirstCas(p) \/ SecondCas(p)
      BY <1>0, <1>3, <3>1, <3>3 DEF FirstCas, SecondCas, Expected, Goto, Responsible,
         Unwritten, TypeOK
    <3>4. CASE Reload(p)
      BY <1>0, <1>3, <3>1, <3>4, Zenon DEF Reload, Goto, Responsible, Unwritten, TypeOK
    <3>5. CASE LoadLimit(p)
      BY <1>0, <1>3, <2>0, <3>1, <3>5 DEF LoadLimit, Goto, Responsible, Unwritten, TypeOK
    <3>6. CASE CatchUpCas(p)
      BY <1>0, <1>3, <3>1, <3>6 DEF CatchUpCas, Responsible, Unwritten, TypeOK
    <3>7. CASE LoadNext(p)
      <4>1. pubPc[p] = "stamp" /\ reach[p] = cursor /\ cursor + 1 \in Seqs
        BY <1>0, <1>3, <2>0, <3>1, <3>7 DEF LoadNext, Responsible, Unwritten, Seqs
      <4>2. CASE NextWritten(reach[p])
        BY <1>0, <1>3, <3>7, <4>1, <4>2, Zenon DEF LoadNext, Goto, Responsible, TypeOK
      <4>3. CASE ~NextWritten(reach[p])
        <5>1. PICK u \in Pubs : pubPc[u] \in Unwritten /\ pubSeq[u] = cursor + 1
          BY <1>0, <1>3, <2>0, <4>1, <4>3, Zenon DEF UnfinishedInv, NextWritten
        <5>2. u # p
          BY <4>1, <5>1, Zenon DEF Unwritten
        <5>. QED BY <1>0, <1>3, <5>1, <5>2, Zenon DEF Responsible
      <4>. QED BY <4>2, <4>3
    <3>. QED BY <1>3, <3>2, <3>3, <3>4, <3>5, <3>6, <3>7, Zenon DEF Advance
  <2>. QED BY <2>2, <2>3
<1>. QED BY <1>1, <1>2, <1>3

\* Readers: the slots change only under stamps that no reader accepts.
LEMMA SeqlockPub ==
  ASSUME IInv, NEW p \in Pubs, Claim(p) \/ Advance(p)
  PROVE  SeqlockInv'
<1>0. /\ TypeOK /\ ClaimInv /\ WriterInv /\ StoredInv /\ SeqlockInv
      /\ stamp \in [Slots -> Nat] /\ UNCHANGED subVars
      /\ value \in [Slots -> [Words -> Seqs \cup {Nothing}]]
      /\ \A n \in Seqs : n \in Nat
  <2>1. TypeOK /\ ClaimInv /\ WriterInv /\ StoredInv /\ SeqlockInv
    BY Zenon DEF IInv
  <2>2. UNCHANGED subVars
    BY <2>1, PubFrame, Zenon
  <2>3. stamp \in [Slots -> Nat] /\ value \in [Slots -> [Words -> Seqs \cup {Nothing}]]
    BY <2>1, Zenon DEF TypeOK, RingTypeOK
  <2>4. \A n \in Seqs : n \in Nat
    BY DEF Seqs
  <2>. QED BY <2>1, <2>2, <2>3, <2>4, Zenon
<1>1. FreshInv' /\ NoTornRead'
  BY <1>0, Zenon DEF SeqlockInv, FreshInv, NoTornRead, subVars
<1>2. ReaderInv'
  <2> SUFFICES ASSUME NEW s \in Subs, pc[s] = "words"
               PROVE  /\ stamp'[Slot(subCursor[s])] >= Done(subCursor[s])
                      /\ stamp'[Slot(subCursor[s])] = Done(subCursor[s]) =>
                            \A w \in Words : buf[s][w] \in {Nothing, subCursor[s]}
    BY <1>0, Zenon DEF ReaderInv, subVars
  <2>1. subCursor[s] \in Nat /\ Slot(subCursor[s]) \in Slots
    BY <1>0, SlotInRange DEF TypeOK, SubTypeOK
  <2>2. /\ stamp[Slot(subCursor[s])] >= Done(subCursor[s])
        /\ stamp[Slot(subCursor[s])] = Done(subCursor[s]) =>
              \A w \in Words : buf[s][w] \in {Nothing, subCursor[s]}
    BY <1>0, Zenon DEF SeqlockInv, ReaderInv
  <2>3. /\ stamp[Slot(subCursor[s])] \in Nat /\ stamp'[Slot(subCursor[s])] \in Nat
        /\ \/ stamp'[Slot(subCursor[s])] = stamp[Slot(subCursor[s])]
           \/ stamp[Slot(subCursor[s])] < stamp'[Slot(subCursor[s])]
    BY <2>1, StampGrows, Zenon
  <2>. QED BY <2>1, <2>2, <2>3 DEF Done
<1>3. ContentInv'
  <2>1. CASE UNCHANGED <<stamp, value>>
    BY <1>0, <2>1, Zenon DEF SeqlockInv, ContentInv
  <2>2. CASE BeginWrite(p) \/ EndWrite(p)
    <3>1. pubSeq[p] \in Nat /\ Slot(pubSeq[p]) \in Slots
      BY <1>0, <2>2, SeqsInRange, WriteEffect, Zenon
    <3>2. UNCHANGED value
      BY <1>0, <2>2, WriteEffect, Zenon
    <3>3. CASE stamp' = [stamp EXCEPT ![Slot(pubSeq[p])] = Writing(pubSeq[p])]
      <4>1. \A n \in Seqs : Writing(pubSeq[p]) # Done(n)
        BY <1>0, <3>1, OddIsNotEven
      <4>. QED BY <1>0, <3>1, <3>2, <3>3, <4>1, Zenon DEF SeqlockInv, ContentInv, Done
    <3>4. CASE /\ pubPc[p] = "words" /\ todo[p] = {}
               /\ stamp' = [stamp EXCEPT ![Slot(pubSeq[p])] = Done(pubSeq[p])]
      <4>1. \A w \in Words : value[Slot(pubSeq[p])][w] = pubSeq[p]
        BY <1>0, <3>4, Zenon DEF StoredInv
      <4>2. ASSUME NEW i \in Slots, NEW n \in Seqs, stamp'[i] = Done(n), NEW w \in Words
            PROVE  value[i][w] = n
        <5>1. CASE i = Slot(pubSeq[p])
          <6>1. Done(pubSeq[p]) = Done(n)
            BY <1>0, <3>1, <3>4, <4>2, <5>1, Zenon
          <6>2. pubSeq[p] = n
            BY <3>1, <6>1, DoneInjective, Zenon
          <6>. QED BY <4>1, <5>1, <6>2, Zenon
        <5>2. CASE i # Slot(pubSeq[p])
          BY <1>0, <3>4, <4>2, <5>2, Zenon DEF SeqlockInv, ContentInv
        <5>. QED BY <5>1, <5>2
      <4>. QED BY <3>2, <4>2, Zenon DEF ContentInv, Done
    <3>. QED BY <1>0, <2>2, <3>3, <3>4, WriteEffect, Zenon
  <2>3. CASE WriteWord(p)
    <3>1. pubSeq[p] \in Nat /\ Slot(pubSeq[p]) \in Slots /\ pubPc[p] = "words"
      BY <1>0, <2>3, SeqsInRange, WordEffect, Zenon
    <3>2. stamp[Slot(pubSeq[p])] = Writing(pubSeq[p])
      BY <1>0, <3>1, Zenon DEF WriterInv
    <3>3. \A n \in Seqs : stamp[Slot(pubSeq[p])] # Done(n)
      BY <1>0, <3>1, <3>2, OddIsNotEven, Zenon
    <3>4. UNCHANGED stamp /\ \A i \in Slots : i # Slot(pubSeq[p]) => value'[i] = value[i]
      BY <1>0, <2>3, WordEffect, Zenon
    <3>. QED BY <1>0, <3>3, <3>4 DEF SeqlockInv, ContentInv
  <2>. QED BY <1>0, <2>1, <2>2, <2>3, ClaimEffect, QuietEffect, Zenon DEF Advance, Quiet
<1>. QED BY <1>1, <1>2, <1>3 DEF SeqlockInv

----------------------------------------------------------------------------
(* The subscribers preserve the invariant.                                 *)

LEMMA SubInv ==
  ASSUME IInv, NEW s \in Subs, SubStep(s), UNCHANGED mpVars
  PROVE  IInv'
<1>1. StampUnchanged(s) => subCursor[s] \in Seqs
  BY DoneIsClaimed DEF IInv, TypeOK, SubTypeOK, StampUnchanged
<1>2. RingTypeOK' /\ SubTypeOK'
  BY <1>1, SubType, Zenon DEF IInv, TypeOK
<1>3. TypeOK'
  BY <1>2, Zenon DEF IInv, TypeOK, mpVars
<1>4. ReaderInv' /\ FreshInv' /\ NoTornRead'
  BY <1>1, <1>2, SubReads, Zenon DEF IInv, TypeOK, SeqlockInv
<1>5. UNCHANGED <<stamp, value, cursor>>
  BY SubFrame
<1>6. ContentInv' /\ BoundInv' /\ CursorInv' /\ UnfinishedInv' /\ HandoverInv'
  BY <1>5, Zenon DEF IInv, mpVars, SeqlockInv, ContentInv, BoundInv, CursorInv, CursorBehindSlots,
     UnfinishedInv, HandoverInv, Responsible
<1>7. ClaimInv' /\ WriterInv' /\ StoredInv' /\ ReachInv'
  BY <1>5, Zenon DEF IInv, mpVars, ClaimInv, WriterInv, StoredInv, ReachInv, SlotIsFree, NextWritten
<1>. QED BY <1>3, <1>4, <1>6, <1>7 DEF IInv, SeqlockInv

----------------------------------------------------------------------------
(* The theorems.                                                           *)

LEMMA InitInv == Init => IInv
<1> SUFFICES ASSUME Init PROVE IInv
  OBVIOUS
<1> USE DEF Init, RingInit, SubInit
<1>1. TypeOK
  <2>1. RingTypeOK
    BY MaxSeqAssumption, Zenon DEF RingTypeOK
  <2>2. SubTypeOK
    BY OpsNamed, MaxSeqAssumption DEF SubTypeOK, Pcs, Kinds, Results, Blank
  <2>. QED BY <2>1, <2>2, MaxSeqAssumption DEF TypeOK, MpPcs
<1>2. ClaimInv /\ WriterInv /\ StoredInv /\ ReachInv
  BY Zenon DEF ClaimInv, WriterInv, StoredInv, ReachInv
<1>3. BoundInv /\ CursorInv /\ UnfinishedInv /\ HandoverInv
  BY DEF BoundInv, CursorInv, CursorBehindSlots, UnfinishedInv, HandoverInv, Nothing, Seqs
<1>4. SeqlockInv
  BY DEF SeqlockInv, ContentInv, ReaderInv, FreshInv, NoTornRead, Done, Seqs
<1>. QED BY <1>1, <1>2, <1>3, <1>4, Zenon DEF IInv

LEMMA NextInv == IInv /\ [Next]_vars => IInv'
<1> SUFFICES ASSUME IInv, [Next]_vars PROVE IInv'
  OBVIOUS
<1>1. ASSUME NEW p \in Pubs, Claim(p) \/ Advance(p) PROVE IInv'
  <2>1. TypeOK' /\ ClaimInv' /\ BoundInv' /\ WriterInv' /\ StoredInv'
    BY <1>1, TypePub, ClaimStep, WriterStep, StoredStep, Zenon
  <2>2. ReachInv' /\ CursorInv' /\ UnfinishedInv' /\ HandoverInv' /\ SeqlockInv'
    BY <1>1, ReachStep, CursorStep, UnfinishedStep, HandoverStep, SeqlockPub, Zenon
  <2>. QED BY <2>1, <2>2, Zenon DEF IInv
<1>2. ASSUME NEW s \in Subs, SubStep(s), UNCHANGED mpVars PROVE IInv'
  BY <1>2, SubInv
<1>3. CASE UNCHANGED vars
  <2>1. UNCHANGED ringVars /\ UNCHANGED subVars /\ UNCHANGED mpVars
    BY <1>3 DEF vars
  <2>2. TypeOK'
    BY <2>1, Zenon DEF ringVars, subVars, mpVars, IInv, TypeOK, RingTypeOK, SubTypeOK
  <2>3. ClaimInv' /\ BoundInv' /\ StoredInv' /\ UnfinishedInv'
    BY <2>1, Zenon DEF ringVars, mpVars, IInv, ClaimInv, BoundInv, StoredInv, UnfinishedInv
  <2>4. WriterInv' /\ ReachInv'
    BY <2>1, Zenon DEF ringVars, mpVars, IInv, WriterInv, SlotIsFree, ReachInv, NextWritten
  <2>5. CursorInv' /\ HandoverInv'
    BY <2>1, Zenon DEF ringVars, mpVars, IInv, CursorInv, CursorBehindSlots, HandoverInv, Responsible
  <2>6. SeqlockInv'
    BY <2>1, Zenon DEF ringVars, subVars, IInv, SeqlockInv, ContentInv, ReaderInv, FreshInv, NoTornRead
  <2>. QED BY <2>2, <2>3, <2>4, <2>5, <2>6, Zenon DEF IInv
<1>. QED BY <1>1, <1>2, <1>3 DEF Next

\* The inductive invariant holds in every state of a multi-producer channel.
THEOREM Invariance == Spec => []IInv
<1>1. Init => IInv
  BY InitInv
<1>2. IInv /\ [Next]_vars => IInv'
  BY NextInv
<1>. QED BY <1>1, <1>2, PTL DEF Spec

\* However many publishers are in flight, and however far one of them stalls
\* behind the others, no two are inside Slot::write on one slot (wait_for_slot).
THEOREM WritersExclude == Spec => []OneWriterPerSlot
<1>1. IInv => OneWriterPerSlot
  BY NoTwoWriters, Zenon DEF IInv, OneWriterPerSlot, Unwritten
<1>. QED BY <1>1, Invariance, PTL

\* The cursor, moved by compare-exchanges of several publishers, never runs
\* ahead of the slots (advance_cursor, catch_up_cursor).
THEOREM CursorFollowsSlots == Spec => []CursorBehindSlots
<1>1. IInv => CursorBehindSlots
  BY DEF IInv, CursorInv
<1>. QED BY <1>1, Invariance, PTL

\* When no publish is in progress, the cursor names the last message claimed:
\* no interleaving of failed compare-exchanges strands it (advance_cursor,
\* catch_up_cursor).
THEOREM CursorNeverStranded == Spec => []CursorCaughtUp
<1>1. IInv => CursorCaughtUp
  <2> SUFFICES ASSUME IInv, \A p \in Pubs : pubPc[p] = "idle"
               PROVE  cursor = nextSeq - 1
    BY DEF CursorCaughtUp
  <2>1. \A p \in Pubs : ~Responsible(p)
    BY DEF Responsible, Unwritten
  <2>2. cursor \in Int /\ nextSeq \in Nat /\ cursor < nextSeq
    BY DEF IInv, CursorInv, TypeOK, RingTypeOK, Seqs, Nothing
  <2>. QED BY <2>1, <2>2 DEF IInv, HandoverInv
<1>. QED BY <1>1, Invariance, PTL

\* No receive call returns a torn or a wrong message, with any number of
\* publishers (Slot::try_read against Slot::write).
THEOREM NeverTorn == Spec => []NoTornRead
<1>1. IInv => NoTornRead
  BY DEF IInv, SeqlockInv
<1>. QED BY <1>1, Invariance, PTL

(***************************************************************************)
(* Part 2.  Every step is a step of MultiBroadcast or a stutter under the  *)
(* mapping of MpmcRefinement.                                              *)
(***************************************************************************)

\* No subscriber of a multi-producer channel waits for a tracker list.
LEMMA LossyStep == IInv /\ LossyInv /\ [Next]_vars => LossyInv'
<1> SUFFICES ASSUME IInv, LossyInv, [Next]_vars PROVE LossyInv'
  OBVIOUS
<1>1. CASE UNCHANGED vars \/ \E p \in Pubs : Claim(p) \/ Advance(p)
  <2>1. UNCHANGED subVars
    BY <1>1, PubFrame, Zenon DEF vars, IInv
  <2>. QED BY <2>1, Zenon DEF subVars, LossyInv
<1>2. CASE \E u \in Subs : SubStep(u)
  BY <1>2, LossySub, Zenon DEF IInv, TypeOK
<1>. QED BY <1>1, <1>2, Zenon DEF Next

----------------------------------------------------------------------------
(* The abstract state.                                                     *)

\* The position the cursor stands for, and where a lapped subscriber goes.
LEMMA Positions ==
  ASSUME TypeOK
  PROVE  /\ NextAfter(cursor) = cursor + 1 /\ NextAfter(cursor) \in 0 .. MaxSeq
         /\ Abstract!Oldest("ring") = OldestAt(cursor) /\ OldestAt(cursor) \in 0 .. MaxSeq
<1>1. cursor \in Int /\ cursor >= -1 /\ cursor < MaxSeq
  BY MaxSeqAssumption DEF TypeOK, RingTypeOK, Seqs, Nothing
<1>2. NextAfter(cursor) = cursor + 1 /\ NextAfter(cursor) \in 0 .. MaxSeq
  BY <1>1, MaxSeqAssumption DEF NextAfter, Nothing
<1>3. Abstract!Oldest("ring") = IF cursor + 1 > Capacity THEN cursor + 1 - Capacity ELSE 0
  BY <1>1, <1>2, CapacityAssumption DEF Abstract!Oldest
<1>4. OldestAt(cursor) = IF cursor + 1 > Capacity THEN cursor + 1 - Capacity ELSE 0
  BY <1>1, CapacityAssumption DEF OldestAt, Nothing
<1>5. OldestAt(cursor) \in 0 .. MaxSeq
  BY <1>1, <1>4, CapacityAssumption, MaxSeqAssumption
<1>. QED BY <1>2, <1>3, <1>4, <1>5

\* A slot becomes done for one message, the one whose write ends.
LEMMA StampedGrows ==
  ASSUME IInv, NEW p \in Pubs, Claim(p) \/ Advance(p)
  PROVE  \/ Stamped' = Stamped
         \/ /\ EndWrite(p) /\ Stamped' = Stamped \cup {pubSeq[p]}
            /\ pubSeq[p] \in Seqs /\ pubSeq[p] \notin Stamped
            /\ pubSeq[p] >= Capacity => pubSeq[p] - Capacity \in Stamped
<1> DEFINE n == pubSeq[p]
<1>0. TypeOK /\ stamp \in [Slots -> Nat] /\ \A m \in Seqs : m \in Nat /\ Slot(m) \in Slots
  BY SlotInRange DEF IInv, TypeOK, RingTypeOK, Seqs
<1>1. CASE UNCHANGED stamp
  BY <1>1, Zenon DEF Stamped
<1>2. CASE BeginWrite(p)
  <2>1. /\ pubPc[p] = "write"
        /\ stamp' = [stamp EXCEPT ![Slot(n)] = Writing(n)]
    BY <1>0, <1>2, WriteEffect, Zenon DEF BeginWrite
  <2>2. n \in Nat /\ Slot(n) \in Slots
    BY <1>0, <2>1, SeqsInRange, Zenon DEF IInv
  <2>3. SlotIsFree(n) /\ stamp[Slot(n)] < Writing(n) /\ stamp[Slot(n)] \in Nat
    BY <1>0, <2>1, <2>2, Zenon DEF IInv, WriterInv
  <2> HIDE DEF n
  <2>4. ASSUME NEW m \in Seqs PROVE stamp'[Slot(m)] >= Done(m) <=> stamp[Slot(m)] >= Done(m)
    <3>1. CASE Slot(m) # Slot(n)
      BY <1>0, <2>1, <2>2, <3>1
    <3>2. CASE Slot(m) = Slot(n) /\ m < n
      <4>1. stamp[Slot(m)] >= Done(m)
        BY <1>0, <2>2, <2>3, <3>2, FreeIsPast, Zenon
      <4>2. stamp'[Slot(m)] = Writing(n)
        BY <1>0, <2>1, <2>2, <3>2
      <4>. QED BY <1>0, <2>2, <3>2, <4>1, <4>2 DEF Done, Writing
    <3>3. CASE Slot(m) = Slot(n) /\ m >= n
      <4>1. stamp'[Slot(m)] = Writing(n)
        BY <1>0, <2>1, <2>2, <3>3
      <4>. QED BY <1>0, <2>2, <2>3, <3>3, <4>1 DEF Done, Writing
    <3>. QED BY <1>0, <2>2, <3>1, <3>2, <3>3
  <2>. QED BY <2>4, Zenon DEF Stamped
<1>3. CASE EndWrite(p)
  <2>1. /\ pubPc[p] = "words"
        /\ stamp' = [stamp EXCEPT ![Slot(n)] = Done(n)]
    BY <1>0, <1>3, WriteEffect, Zenon DEF EndWrite
  <2>2. n \in Nat /\ Slot(n) \in Slots /\ n \in Seqs
    BY <1>0, <2>1, SeqsInRange, Zenon DEF IInv
  <2>3. stamp[Slot(n)] = Writing(n)
    BY <1>0, <2>1, <2>2, Zenon DEF IInv, WriterInv
  <2> HIDE DEF n
  <2>4. ASSUME NEW m \in Seqs
        PROVE  stamp'[Slot(m)] >= Done(m) <=> stamp[Slot(m)] >= Done(m) \/ m = n
    <3>1. CASE Slot(m) # Slot(n)
      BY <1>0, <2>1, <2>2, <3>1
    <3>2. CASE Slot(m) = Slot(n)
      <4>1. stamp'[Slot(m)] = Done(n) /\ stamp[Slot(m)] = Writing(n)
        BY <1>0, <2>1, <2>2, <2>3, <3>2, Zenon
      <4>. QED BY <1>0, <2>2, <4>1 DEF Done, Writing
    <3>. QED BY <3>1, <3>2, Zenon
  <2>5. Stamped' = Stamped \cup {n}
    BY <2>2, <2>4, Zenon DEF Stamped
  <2>6. n \notin Stamped
    BY <2>2, <2>3 DEF Stamped, Done, Writing
  <2>7. ASSUME n >= Capacity PROVE n - Capacity \in Stamped
    <3>1. n - Capacity \in Nat /\ n - Capacity \in Seqs /\ n = (n - Capacity) + Capacity
      BY <2>2, <2>7, CapacityAssumption, MaxSeqAssumption DEF Seqs
    <3>2. Slot(n - Capacity) = Slot(n)
      BY <3>1, SlotNextLap
    <3>. QED BY <2>2, <2>3, <3>1, <3>2, CapacityAssumption DEF Stamped, Done, Writing
  <2>. QED BY <1>3, <2>2, <2>5, <2>6, <2>7 DEF n
<1>. QED BY <1>0, <1>1, <1>2, <1>3, ClaimEffect, QuietEffect, WordEffect, Zenon DEF Advance, Quiet

\* What a stutter is.
LEMMA Stutter ==
  ASSUME UNCHANGED <<cursor, nextSeq, subCursor, start, received, lagged>>,
         Stamped' = Stamped,
         \A s \in Subs : (pc'[s] = "absent") = (pc[s] = "absent")
  PROVE  UNCHANGED Abstract!multiVars
<1>1. [s \in Subs |-> IF pc[s] = "absent" THEN "none" ELSE "ring"]'
        = [s \in Subs |-> IF pc[s] = "absent" THEN "none" ELSE "ring"]
  OBVIOUS
<1>2. [r \in {"ring"} |-> Stamped]' = [r \in {"ring"} |-> Stamped]
  OBVIOUS
<1>3. [r \in {"ring"} |-> NextAfter(cursor)]' = [r \in {"ring"} |-> NextAfter(cursor)]
  BY DEF NextAfter
<1>. QED BY <1>1, <1>2, <1>3, Zenon DEF Abstract!multiVars, Abstract!broadcastVars

----------------------------------------------------------------------------
(* The publishers.                                                         *)

LEMMA PublisherRefines ==
  ASSUME IInv, NEW p \in Pubs, Claim(p) \/ Advance(p)
  PROVE  Abstract!MultiNext \/ UNCHANGED Abstract!multiVars
<1>0. TypeOK /\ UNCHANGED <<pc, subCursor, start, received, lagged>>
  BY PubFrame, Zenon DEF IInv, subVars
<1>1. CASE Claim(p)
  <2>1. /\ nextSeq < MaxSeq /\ nextSeq' = nextSeq + 1 /\ UNCHANGED <<stamp, cursor>>
    BY <1>0, <1>1, ClaimEffect, Zenon DEF Claim
  <2>2. Stamped' = Stamped /\ NextAfter(cursor)' = NextAfter(cursor)
    BY <2>1, Zenon DEF Stamped, NextAfter
  <2>3. Abstract!Claim("ring")
    BY <1>0, <2>1, <2>2, Zenon DEF Abstract!Claim
  <2>. QED BY <2>3, Zenon DEF Abstract!MultiNext
<1>2. CASE EndWrite(p) /\ Stamped' # Stamped
  <2>1. /\ Stamped' = Stamped \cup {pubSeq[p]}
        /\ pubSeq[p] \in Seqs /\ pubSeq[p] \notin Stamped
        /\ pubSeq[p] >= Capacity => pubSeq[p] - Capacity \in Stamped
    BY <1>2, StampedGrows, Zenon
  <2>2. UNCHANGED <<cursor, nextSeq>> /\ pubPc[p] = "words"
    BY <1>0, <1>2, WriteEffect, Zenon DEF EndWrite
  <2>3. pubSeq[p] \in 0 .. nextSeq - 1 /\ pubSeq[p] \in 0 .. MaxSeq
    BY <1>0, <2>2, SeqsInRange DEF IInv, TypeOK
  <2>4. NextAfter(cursor)' = NextAfter(cursor)
    BY <2>2, Zenon DEF NextAfter
  <2>5. Abstract!Write("ring", pubSeq[p])
    BY <1>0, <2>1, <2>2, <2>3, <2>4, Zenon DEF Abstract!Write, Abstract!broadcastVars
  <2>. QED BY <2>3, <2>5, Zenon DEF Abstract!MultiNext
<1>3. CASE Advance(p) /\ cursor' # cursor
  <2>1. cursor' = cursor + 1 /\ cursor' < nextSeq /\ stamp[Slot(cursor')] >= Done(cursor')
    BY <1>3, CursorMoves, Zenon
  <2>2. Quiet(p)
    BY <1>0, <1>3, WriteEffect, WordEffect, Zenon DEF Advance, Quiet
  <2>3. UNCHANGED <<stamp, nextSeq>>
    BY <1>0, <2>2, QuietEffect, Zenon
  <2>4. cursor' \in Seqs
    BY <1>0, <2>1, MaxSeqAssumption DEF TypeOK, RingTypeOK, Seqs, Nothing
  <2>5. Stamped' = Stamped /\ cursor' \in Stamped
    BY <2>1, <2>3, <2>4, Zenon DEF Stamped
  <2>6. NextAfter(cursor) = cursor' /\ NextAfter(cursor)' = cursor' + 1
    BY <1>0, <2>1, <2>4, Positions DEF NextAfter, Seqs, Nothing
  <2>7. Abstract!Announce("ring")
    BY <1>0, <2>3, <2>5, <2>6, Zenon DEF Abstract!Announce
  <2>. QED BY <2>7, Zenon DEF Abstract!MultiNext
<1>4. CASE Advance(p) /\ cursor' = cursor /\ Stamped' = Stamped
  <2>1. nextSeq' = nextSeq
    BY <1>0, <1>4, QuietEffect, WriteEffect, WordEffect, Zenon DEF Advance, Quiet
  <2>. QED BY <1>0, <1>4, <2>1, Stutter, Zenon
<1>. QED BY <1>1, <1>2, <1>3, <1>4, StampedGrows, Zenon

----------------------------------------------------------------------------
(* The subscribers.                                                        *)

LEMMA CreateRefines ==
  ASSUME TypeOK, NEW s \in Subs, UNCHANGED mpVars,
         SubscribeLossy(s) \/ SubscribeTracked(s) \/ SubscribeFromOldest(s)
  PROVE  Abstract!MultiNext
<1>0. SubTypeOK /\ Abstract!Oldest("ring") = OldestAt(cursor)
  BY Positions, Zenon DEF TypeOK
<1>1. /\ pc[s] = "absent" /\ pc'[s] # "absent"
      /\ UNCHANGED <<stamp, cursor, received, lagged, nextSeq>>
      /\ \A u \in Subs \ {s} : pc'[u] = pc[u]
  BY <1>0, ZenonT(40) DEF SubscribeLossy, SubscribeTracked, SubscribeFromOldest, Create,
     SubTypeOK, ringVars, mpVars
<1>2. Stamped' = Stamped /\ NextAfter(cursor)' = NextAfter(cursor)
  BY <1>1, Zenon DEF Stamped, NextAfter
<1>4. CASE SubscribeLossy(s) \/ SubscribeTracked(s)
  <2>1. /\ subCursor' = [subCursor EXCEPT ![s] = NextAfter(cursor)]
        /\ start' = [start EXCEPT ![s] = NextAfter(cursor)]
    BY <1>4, Zenon DEF SubscribeLossy, SubscribeTracked, Create
  <2>2. Abstract!JoinHead(s, "ring", FALSE)
    BY <1>1, <1>2, <2>1, Zenon DEF Abstract!JoinHead, Abstract!Join
  <2>. QED BY <1>2, <2>2, Zenon DEF Abstract!MultiNext, Abstract!ReaderStep
<1>5. CASE SubscribeFromOldest(s)
  <2>1. /\ subCursor' = [subCursor EXCEPT ![s] = OldestAt(cursor)]
        /\ start' = [start EXCEPT ![s] = OldestAt(cursor)]
    BY <1>5, Zenon DEF SubscribeFromOldest, Create
  <2>2. Abstract!JoinOldest(s, "ring")
    BY <1>0, <1>1, <1>2, <2>1, Zenon DEF Abstract!JoinOldest, Abstract!Join
  <2>. QED BY <1>2, <2>2, Zenon DEF Abstract!MultiNext, Abstract!ReaderStep
<1>. QED BY <1>4, <1>5

LEMMA DropRefines ==
  ASSUME TypeOK, NEW s \in Subs, UNCHANGED mpVars, DropSubscriber(s)
  PROVE  Abstract!MultiNext
<1>0. SubTypeOK
  BY DEF TypeOK
<1>1. /\ pc[s] # "absent" /\ pc'[s] = "absent" /\ UNCHANGED <<stamp, cursor, nextSeq>>
      /\ \A u \in Subs \ {s} : pc'[u] = pc[u]
      /\ subCursor' = [subCursor EXCEPT ![s] = 0] /\ start' = [start EXCEPT ![s] = 0]
      /\ received' = [received EXCEPT ![s] = 0] /\ lagged' = [lagged EXCEPT ![s] = 0]
  BY <1>0, Zenon DEF DropSubscriber, SubTypeOK, mpVars
<1>2. Stamped' = Stamped /\ NextAfter(cursor)' = NextAfter(cursor)
  BY <1>1, Zenon DEF Stamped, NextAfter
<1>3. Abstract!Leave(s)
  BY <1>1, <1>2, Zenon DEF Abstract!Leave
<1>. QED BY <1>2, <1>3, Zenon DEF Abstract!MultiNext, Abstract!ReaderStep

LEMMA CallRefines ==
  ASSUME IInv, NEW s \in Subs, CallStep(s), UNCHANGED mpVars
  PROVE  Abstract!MultiNext \/ UNCHANGED Abstract!multiVars
<1>0. /\ TypeOK /\ SubTypeOK /\ subCursor[s] \in Nat /\ lagged \in [Subs -> Nat]
  BY DEF IInv, TypeOK, SubTypeOK
<1>1. /\ pc[s] # "absent" /\ \A u \in Subs : (pc'[u] = "absent") = (pc[u] = "absent")
      /\ UNCHANGED <<stamp, cursor, nextSeq>>
  BY <1>0, CallEffect, Zenon DEF ringVars, mpVars
<1>a. Stamped' = Stamped /\ NextAfter(cursor)' = NextAfter(cursor)
  BY <1>1, Zenon DEF Stamped, NextAfter
<1>2. CASE UNCHANGED <<subCursor, start, received, lagged>>
  BY <1>1, <1>2, <1>a, Stutter, Zenon
<1>3. CASE /\ stamp[Slot(subCursor[s])] = Done(subCursor[s])
           /\ subCursor' = [subCursor EXCEPT ![s] = @ + 1]
           /\ received' = [received EXCEPT ![s] = @ + 1]
           /\ UNCHANGED <<lagged, start>>
  <2>1. subCursor[s] \in Seqs
    BY <1>0, <1>3, DoneIsClaimed DEF IInv
  <2>2. subCursor[s] \in Stamped
    BY <1>0, <1>3, <2>1 DEF Stamped, Done
  <2>3. subCursor[s] + Capacity \notin Stamped
    BY <1>0, <1>3, SlotNextLap, CapacityAssumption DEF Stamped, Done
  <2>4. Abstract!ReceiveWritten(s)
    BY <1>1, <1>3, <1>a, <2>2, <2>3, Zenon DEF Abstract!ReceiveWritten
  <2>. QED BY <2>4, Zenon DEF Abstract!MultiNext
<1>4. CASE /\ subCursor[s] < OldestAt(cursor)
           /\ subCursor' = [subCursor EXCEPT ![s] = OldestAt(cursor)]
           /\ lagged' = [lagged EXCEPT ![s] = @ + (OldestAt(cursor) - subCursor[s])]
           /\ UNCHANGED <<received, start>>
  <2>1. Abstract!Oldest("ring") = OldestAt(cursor) /\ OldestAt(cursor) \in Nat
    BY <1>0, Positions, MaxSeqAssumption
  <2>2. lagged[s] + (OldestAt(cursor) - subCursor[s]) = lagged[s] + OldestAt(cursor) - subCursor[s]
    BY <1>0, <2>1
  <2>3. Abstract!Lag(s)
    BY <1>1, <1>4, <1>a, <2>1, <2>2, Zenon DEF Abstract!Lag
  <2>. QED BY <1>a, <2>3, Zenon DEF Abstract!MultiNext, Abstract!ReaderStep
<1>5. CASE /\ Latest(s) /\ cursor # Nothing
           /\ subCursor' = [subCursor EXCEPT ![s] = cursor]
           /\ start' = [start EXCEPT ![s] = Nothing]
           /\ UNCHANGED <<received, lagged>>
  <2>1. NextAfter(cursor) > 0 /\ NextAfter(cursor) - 1 = cursor
    BY <1>0, <1>5 DEF TypeOK, RingTypeOK, NextAfter, Nothing, Seqs
  <2>2. Abstract!Jump(s)
    BY <1>1, <1>5, <1>a, <2>1, Zenon DEF Abstract!Jump, Nothing
  <2>. QED BY <1>a, <2>2, Zenon DEF Abstract!MultiNext, Abstract!ReaderStep
<1>. QED BY <1>0, <1>2, <1>3, <1>4, <1>5, CallEffect, Zenon

----------------------------------------------------------------------------
(* The theorem.                                                            *)

LEMMA InitRefines == Init => Abstract!MultiInit
<1> SUFFICES ASSUME Init PROVE Abstract!MultiInit
  OBVIOUS
<1>1. Stamped = {}
  <2>1. \A m \in Seqs : Slot(m) \in Slots /\ ~(0 >= Done(m))
    BY SlotInRange DEF Seqs, Done
  <2>. QED BY <2>1, Zenon DEF Init, RingInit, Stamped
<1>2. NextAfter(cursor) = 0
  BY DEF Init, RingInit, NextAfter
<1>. QED BY <1>1, <1>2, Zenon DEF Init, SubInit, Abstract!MultiInit, Abstract!BroadcastInit

LEMMA StepRefines ==
  ASSUME IInv, LossyInv, [Next]_vars
  PROVE  [Abstract!MultiNext]_(Abstract!multiVars)
<1>0. TypeOK
  BY DEF IInv
<1>1. CASE UNCHANGED vars
  <2>1. UNCHANGED <<stamp, cursor, nextSeq, subCursor, start, received, lagged, pc>>
    BY <1>1, Zenon DEF vars, ringVars, subVars, mpVars
  <2>. QED BY <2>1, Stutter DEF Stamped
<1>2. ASSUME NEW p \in Pubs, Claim(p) \/ Advance(p)
      PROVE  Abstract!MultiNext \/ UNCHANGED Abstract!multiVars
  BY <1>2, PublisherRefines
<1>3. ASSUME NEW s \in Subs, SubStep(s), UNCHANGED mpVars
      PROVE  Abstract!MultiNext \/ UNCHANGED Abstract!multiVars
  <2>1. ~LockTrackers(s) /\ ~RegisterStep(s)
    BY LossyAssumption, Zenon DEF LossyInv, LockTrackers, RegisterStep, RegisterOldest, LoadHead,
       PushTracker
  <2>. QED BY <1>0, <1>3, <2>1, CreateRefines, DropRefines, CallRefines, Zenon DEF SubStep
<1>. QED BY <1>1, <1>2, <1>3, Zenon DEF Next

\* A multi-producer channel implements the atomic ring of MultiBroadcast, whatever
\* the interleaving of any number of publishers and subscribers: a message is
\* written once, after the one before it in its slot, and announced in order
\* (claim, wait_for_slot, advance_cursor, catch_up_cursor, read_slot, latest).
THEOREM Refinement == Spec => ImplementsMultiBroadcast
<1>1. Init => LossyInv
  BY Zenon DEF Init, SubInit, LossyInv
<1>2. IInv /\ LossyInv /\ [Next]_vars => [Abstract!MultiNext]_(Abstract!multiVars)
  BY StepRefines
<1>. QED BY <1>1, <1>2, LossyStep, InitRefines, Invariance, PTL
  DEF Spec, ImplementsMultiBroadcast, Abstract!MultiSpec

(***************************************************************************)
(* Part 3.  What a subscriber is told: Empty, the number of messages lost, *)
(* and the account of all of them.                                         *)
(***************************************************************************)

\* A slot is stamped for a message that uses it and has been claimed.
OwnerInv ==
  \A i \in Slots :
     \/ stamp[i] = 0
     \/ \E m \in Nat : m < nextSeq /\ Slot(m) = i /\ stamp[i] \in {Writing(m), Done(m)}

LEMMA OwnerPub ==
  ASSUME IInv, OwnerInv, NEW p \in Pubs, Claim(p) \/ Advance(p)
  PROVE  OwnerInv'
<1>0. TypeOK /\ stamp \in [Slots -> Nat] /\ nextSeq \in Nat
  BY DEF IInv, TypeOK, RingTypeOK
<1>1. CASE BeginWrite(p) \/ EndWrite(p)
  <2>1. pubPc[p] # "idle" /\ nextSeq' = nextSeq
    BY <1>0, <1>1, WriteEffect, Zenon
  <2>2. pubSeq[p] \in Nat /\ pubSeq[p] < nextSeq
    BY <2>1, SeqsInRange, Zenon DEF IInv
  <2>3. \/ stamp' = [stamp EXCEPT ![Slot(pubSeq[p])] = Writing(pubSeq[p])]
        \/ stamp' = [stamp EXCEPT ![Slot(pubSeq[p])] = Done(pubSeq[p])]
    BY <1>0, <1>1, WriteEffect, Zenon
  <2>4. ASSUME NEW i \in Slots, i # Slot(pubSeq[p]) PROVE stamp'[i] = stamp[i]
    BY <1>0, <2>3, <2>4, Zenon
  <2>5. stamp'[Slot(pubSeq[p])] \in {Writing(pubSeq[p]), Done(pubSeq[p])}
    BY <1>0, <2>2, <2>3, SlotInRange, Zenon
  <2>. QED BY <2>1, <2>2, <2>4, <2>5, Zenon DEF OwnerInv
<1>2. CASE UNCHANGED stamp /\ nextSeq' \in {nextSeq, nextSeq + 1}
  <2>1. \A m \in Nat : m < nextSeq => m < nextSeq'
    BY <1>0, <1>2
  <2>. QED BY <1>2, <2>1, Zenon DEF OwnerInv
<1>. QED BY <1>0, <1>1, <1>2, ClaimEffect, QuietEffect, WordEffect, Zenon DEF Advance, Quiet

\* A slot newer than message n is claimed for a message a lap later.
LEMMA NewerIsLap ==
  ASSUME IInv, OwnerInv, NEW n \in Nat, stamp[Slot(n)] > Done(n)
  PROVE  n + Capacity < nextSeq
<1>0. nextSeq \in Nat /\ Capacity \in Nat /\ Slot(n) \in Slots
  BY SlotInRange, CapacityAssumption DEF IInv, TypeOK
<1>1. PICK m \in Nat :
         m < nextSeq /\ Slot(m) = Slot(n) /\ stamp[Slot(n)] \in {Writing(m), Done(m)}
  BY <1>0 DEF OwnerInv, Done
<1>2. n < m
  BY <1>1 DEF Done, Writing
<1>3. ~(m < n + Capacity)
  BY <1>1, <1>2, SlotWithinLap, Zenon
<1>. QED BY <1>0, <1>1, <1>3

\* A lagging subscriber stays behind its slot.
LEMMA LagPub ==
  ASSUME IInv, LagInv, NEW p \in Pubs, Claim(p) \/ Advance(p)
  PROVE  LagInv'
<1> SUFFICES ASSUME NEW s \in Subs, pc[s] = "lag"
             PROVE  stamp'[Slot(subCursor[s])] > Done(subCursor[s])
  BY PubFrame, Zenon DEF IInv, LagInv, subVars
<1>1. subCursor[s] \in Nat /\ Slot(subCursor[s]) \in Slots
  BY SlotInRange DEF IInv, TypeOK, SubTypeOK
<1>2. PICK n \in Nat : n = subCursor[s]
  BY <1>1, Zenon
<1>3. stamp[Slot(n)] > Done(n) /\ Slot(n) \in Slots
  BY <1>1, <1>2, Zenon DEF LagInv
<1>4. stamp[Slot(n)] \in Nat /\ stamp'[Slot(n)] \in Nat /\ stamp[Slot(n)] <= stamp'[Slot(n)]
  BY <1>3, StampGrows, Zenon
<1>5. stamp'[Slot(n)] > Done(n)
  BY <1>3, <1>4 DEF Done
<1>. QED BY <1>2, <1>5, Zenon

LEMMA ToldStep ==
  ASSUME IInv, OwnerInv, LagInv, EveryMessageAccounted, [Next]_vars
  PROVE  OwnerInv' /\ LagInv' /\ EveryMessageAccounted'
<1>1. ASSUME NEW p \in Pubs, Claim(p) \/ Advance(p)
      PROVE  OwnerInv' /\ LagInv' /\ EveryMessageAccounted'
  BY <1>1, OwnerPub, LagPub, PubFrame, Zenon DEF IInv, subVars, EveryMessageAccounted
<1>2. ASSUME NEW s \in Subs, SubStep(s), UNCHANGED mpVars
      PROVE  OwnerInv' /\ LagInv' /\ EveryMessageAccounted'
  <2>1. IInv' /\ UNCHANGED stamp
    BY <1>2, SubInv, SubFrame, Zenon
  <2>2. OwnerInv'
    BY <1>2, <2>1, Zenon DEF OwnerInv, mpVars
  <2>3. LagInv'
    BY <1>2, LagSub, Zenon DEF IInv, TypeOK
  <2>4. EveryMessageAccounted'
    BY <1>2, <2>1, AccountSub, Zenon DEF IInv, TypeOK, SeqlockInv
  <2>. QED BY <2>2, <2>3, <2>4
<1>3. CASE UNCHANGED vars
  BY <1>3, Zenon DEF vars, ringVars, subVars, mpVars, OwnerInv, LagInv, EveryMessageAccounted
<1>. QED BY <1>1, <1>2, <1>3, Zenon DEF Next

LEMMA Told == Spec => [](IInv /\ OwnerInv /\ LagInv /\ EveryMessageAccounted)
<1>1. Init => OwnerInv /\ LagInv /\ EveryMessageAccounted
  <2>1. Init => OwnerInv /\ LagInv
    BY DEF Init, RingInit, SubInit, OwnerInv, LagInv
  <2>2. Init => EveryMessageAccounted
    BY DEF Init, SubInit, EveryMessageAccounted, Nothing
  <2>. QED BY <2>1, <2>2
<1>2. IInv /\ OwnerInv /\ LagInv /\ EveryMessageAccounted /\ [Next]_vars
        => OwnerInv' /\ LagInv' /\ EveryMessageAccounted'
  BY ToldStep
<1>. QED BY <1>1, <1>2, Invariance, PTL DEF Spec

\* A stamp that is odd, or not that of message k, is older or newer.
LEMMA NotDone ==
  \A x, k \in Nat : Odd(x) \/ x < Done(k) \/ x # Done(k) => x < Done(k) \/ x > Done(k)
  BY DEF Odd, Done

LEMMA NotOlder == \A x, k \in Nat : x < Done(k) => ~(x >= Done(k))
  BY DEF Done

\* A call ends with Empty.
LEMMA EmptyStep ==
  ASSUME IInv, OwnerInv, LagInv, [Next]_vars, NEW s \in Subs,
         ret'[s] = "empty", pc'[s] \notin {"words", "lag"},
         pc[s] \in {"words", "lag"} \/ ret[s] # "empty"
  PROVE  Abstract!Unavailable(s) \/ Latest(s)
<1> DEFINE n == subCursor[s]
<1>0. /\ TypeOK /\ SubTypeOK /\ n \in Nat /\ Slot(n) \in Slots /\ stamp[Slot(n)] \in Nat
      /\ pc \in [Subs -> Pcs]
  BY SlotInRange DEF IInv, TypeOK, SubTypeOK, RingTypeOK
<1>1. PICK u \in Subs : SubStep(u)
  <2>1. ~UNCHANGED subVars
    BY Zenon DEF subVars
  <2>. QED BY <1>0, <2>1, PubFrame, Zenon DEF Next, vars
<1>2. SUFFICES ASSUME ~Latest(s) PROVE Abstract!Unavailable(s)
  BY Zenon
<1>3. Receive(s) \/ (Recheck(s) /\ ~StampUnchanged(s)) \/ SkipLag(s)
  BY <1>0, <1>1, <1>2, WhoSaysEmpty, Zenon
<1>4. pc[s] \in {"idle", "read", "words", "lag"}
  BY <1>0, <1>3, ReceiveEffect, RecheckEffect, SkipLagEffect, Zenon
<1>5. stamp[Slot(n)] < Done(n) \/ stamp[Slot(n)] > Done(n)
  <2>1. CASE Receive(s)
    <3>1. PICK o \in Ops : LoadStamp(s, o)
      BY <1>0, <2>1, ReceiveEffect, Zenon
    <3>2. Odd(stamp[Slot(n)]) \/ stamp[Slot(n)] < Done(n)
      BY <1>0, <3>1, Zenon DEF LoadStamp
    <3>. QED BY <1>0, <3>2, NotDone, Zenon
  <2>2. CASE Recheck(s) /\ ~StampUnchanged(s)
    <3>1. stamp[Slot(n)] # Done(n)
      BY <2>2, Zenon DEF StampUnchanged
    <3>. QED BY <1>0, <3>1, NotDone, Zenon
  <2>3. CASE SkipLag(s)
    BY <2>3, Zenon DEF SkipLag, LagInv
  <2>. QED BY <1>3, <2>1, <2>2, <2>3, Zenon
<1>6. n \notin Stamped \/ n + Capacity < nextSeq
  <2>1. stamp[Slot(n)] < Done(n) => ~(stamp[Slot(n)] >= Done(n))
    BY <1>0, NotOlder, Zenon
  <2>. QED BY <1>0, <1>5, <2>1, NewerIsLap, Zenon DEF Stamped
<1>7. pc[s] # "absent"
  BY <1>4, Zenon
<1>. QED BY <1>6, <1>7, Zenon DEF Abstract!Unavailable

\* try_recv answers Empty only if the next message is not written or its slot is
\* claimed for a later one, although stamps run ahead of the cursor (read_slot).
THEOREM EmptyIsTrue == Spec => EmptyOnlyIfUnavailable
<1> DEFINE Said(s) ==
      /\ ret'[s] = "empty"
      /\ pc'[s] \notin {"words", "lag"}
      /\ pc[s] \in {"words", "lag"} \/ ret[s] # "empty"
<1>1. IInv /\ OwnerInv /\ LagInv /\ [Next]_vars
        => [\A s \in Subs : Said(s) => Abstract!Unavailable(s) \/ Latest(s)]_vars
  BY EmptyStep, Zenon
<1>. QED BY <1>1, Told, PTL DEF Spec, EmptyOnlyIfUnavailable

\* Every message between a subscriber's start and its position was received or
\* counted as lagged, whichever publishers it came from (read_slot, total_lagged).
THEOREM Accounting == Spec => []EveryMessageAccounted
  BY Told, PTL

\* A subscriber that reports Lagged skips only messages whose slot has been reused,
\* although the lag is computed from a cursor that trails the stamps (read_slot).
THEOREM LagIsExact == Spec => [][SkippedWereOverwritten]_vars
<1>1. ASSUME IInv, [Next]_vars PROVE SkippedWereOverwritten
  <2>0. TypeOK /\ RingTypeOK /\ SubTypeOK /\ CursorBehindSlots
    BY <1>1, Zenon DEF IInv, TypeOK, CursorInv
  <2>1. CASE lagged' = lagged
    BY <2>0, <2>1, NothingCounted
  <2>2. CASE lagged' # lagged
    <3>1. PICK u \in Subs : SubStep(u)
      BY <1>1, <2>0, <2>2, PubFrame, Zenon DEF Next, vars, subVars
    <3>. QED BY <2>0, <3>1, LagSkips
  <2>. QED BY <2>1, <2>2
<1>. QED BY <1>1, Invariance, PTL DEF Spec

\* The types of the multi-producer channel: with the range of pc and of pubPc, no
\* handle is ever between two accesses the code does not have.
THEOREM TypeCorrect == Spec => []TypeOK
<1>1. IInv => TypeOK
  BY Zenon DEF IInv
<1>. QED BY <1>1, Invariance, PTL

(***************************************************************************)
(* Part 4.  Publishers never all wait for each other: of the messages that *)
(* are claimed and not written, the oldest one waits for nobody.           *)
(***************************************************************************)

WF == INSTANCE WellFoundedInduction

\* A set of numbers that is not empty has a least one.
LEMMA Least ==
  ASSUME NEW T \in SUBSET Nat, T # {}
  PROVE  \E x \in T : \A y \in T : x <= y
<1>1. PICK R : /\ WF!IsWellFoundedOn(R, Nat)
               /\ R = {ss \in Nat \X Nat : ss[1] < ss[2]}
  BY WF!NatLessThanWellFounded, Zenon DEF WF!OpToRel
<1>2. \A x, y \in Nat : x < y => <<x, y>> \in R
  BY <1>1, Zenon
<1>3. \E x \in T : \A y \in T : ~(<<y, x>> \in R)
  BY <1>1, WF!WFMin, Zenon
<1>4. \A x, y \in T : x \in Nat /\ y \in Nat
  OBVIOUS
<1>5. \A x, y \in Nat : ~(y < x) => x <= y
  OBVIOUS
<1>. QED BY <1>2, <1>3, <1>4, <1>5, Zenon

\* Message 0 has no predecessor to wait for.
PredInv == \A p \in Pubs : pubPc[p] = "pred" => pubSeq[p] > 0

LEMMA PredStep ==
  ASSUME IInv, PredInv, [Next]_vars
  PROVE  PredInv'
<1>0. TypeOK
  BY Zenon DEF IInv
<1>1. ASSUME NEW p \in Pubs, Claim(p) \/ Advance(p) PROVE PredInv'
  <2> SUFFICES ASSUME pubPc'[p] = "pred" PROVE pubSeq'[p] > 0
    BY <1>0, <1>1, PubFrame, Zenon DEF PredInv
  <2>1. Quiet(p)
    BY <1>0, <1>1, ClaimEffect, WriteEffect, WordEffect, Zenon DEF Advance, Quiet
  <2>2. pubSeq'[p] = pubSeq[p] /\ pubPc[p] \in {"first", "pred"}
    BY <1>0, <2>1, QuietEffect, Zenon
  <2>3. CASE pubPc[p] = "first"
    <3>1. FirstCas(p)
      BY <2>1, <2>3, Zenon DEF Quiet, WaitForSlot, WaitPred, SecondCas, Reload, LoadLimit,
         LoadNext, CatchUpCas
    <3>2. pubSeq[p] > 0
      BY <1>0, <3>1, Zenon DEF FirstCas, Goto, TypeOK
    <3>. QED BY <2>2, <3>2, Zenon
  <2>. QED BY <2>2, <2>3, Zenon DEF PredInv
<1>2. CASE UNCHANGED mpVars
  BY <1>2, Zenon DEF mpVars, PredInv
<1>. QED BY <1>1, <1>2, Zenon DEF Next, vars

\* Whoever waits, some message is claimed and not written.
LEMMA WaitingForSomebody ==
  ASSUME IInv, PredInv, NEW p \in Pubs, Waiting(p)
  PROVE  \E q \in Pubs : pubPc[q] \in Unwritten
<1>1. CASE pubPc[p] = "slot"
  BY <1>1, Zenon DEF Unwritten
<1>2. CASE pubPc[p] = "pred" /\ ~PredWritten(pubSeq[p])
  <2>1. pubSeq[p] \in Nat /\ pubSeq[p] \in Seqs /\ pubSeq[p] < nextSeq /\ nextSeq \in Nat
    BY <1>2, SeqsInRange DEF IInv, TypeOK
  <2>2. pubSeq[p] > 0
    BY <1>2, Zenon DEF PredInv
  <2>3. pubSeq[p] - 1 \in Seqs /\ pubSeq[p] - 1 < nextSeq
    BY <2>1, <2>2, MaxSeqAssumption DEF Seqs
  <2>. QED BY <1>2, <2>3, Zenon DEF IInv, UnfinishedInv, PredWritten
<1>. QED BY <1>1, <1>2, Zenon DEF Waiting

\* The publisher of the oldest message that is not written runs.
LEMMA OldestRuns ==
  ASSUME IInv, NEW q \in Pubs, pubPc[q] \in Unwritten,
         \A r \in Pubs : pubPc[r] \in Unwritten => pubSeq[q] <= pubSeq[r]
  PROVE  ~Waiting(q)
<1> SUFFICES ASSUME Waiting(q) PROVE FALSE
  BY Zenon
<1> DEFINE n == pubSeq[q]
           m == n - Capacity
<1>1. n \in Nat /\ n \in Seqs /\ n < nextSeq /\ nextSeq \in Nat
  BY SeqsInRange DEF IInv, TypeOK, Unwritten
<1>2. ~SlotIsFree(n)
  BY Zenon DEF Waiting, Unwritten
<1>3. m \in Nat /\ m \in Seqs /\ m < nextSeq /\ m < n /\ m + Capacity = n
  BY <1>1, <1>2, CapacityAssumption, MaxSeqAssumption DEF SlotIsFree, Seqs
<1>4. Slot(m) = Slot(n)
  BY <1>3, SlotNextLap, Zenon
<1>5. ~(stamp[Slot(m)] >= Done(m))
  BY <1>2, <1>4, Zenon DEF SlotIsFree
<1>6. PICK r \in Pubs : pubPc[r] \in Unwritten /\ pubSeq[r] = m
  BY <1>3, <1>5, Zenon DEF IInv, UnfinishedInv
<1>7. n <= m
  BY <1>6, Zenon
<1>. QED BY <1>1, <1>3, <1>7

\* Some publisher inside publish is not waiting, for any number of publishers and
\* any number of laps between them (wait_for_slot, advance_cursor).
THEOREM NeverAllWaiting == Spec => []SomebodyRuns
<1>1. Init => PredInv
  BY Zenon DEF Init, PredInv
<1>2. IInv /\ PredInv /\ [Next]_vars => PredInv'
  BY PredStep
<1>3. IInv /\ PredInv => SomebodyRuns
  <2> SUFFICES ASSUME IInv, PredInv, NEW p \in Pubs, pubPc[p] # "idle", Waiting(p)
               PROVE  \E q \in Pubs : pubPc[q] # "idle" /\ ~Waiting(q)
    BY Zenon DEF SomebodyRuns
  <2> DEFINE T == {pubSeq[q] : q \in {r \in Pubs : pubPc[r] \in Unwritten}}
  <2>1. T \in SUBSET Nat
    BY SeqsInRange, Zenon DEF IInv, Unwritten
  <2>2. T # {}
    BY WaitingForSomebody, Zenon
  <2>3. PICK n \in T : \A m \in T : n <= m
    BY <2>1, <2>2, Least, Zenon
  <2>4. PICK q \in Pubs : pubPc[q] \in Unwritten /\ pubSeq[q] = n
    BY <2>3, Zenon
  <2>5. \A r \in Pubs : pubPc[r] \in Unwritten => pubSeq[q] <= pubSeq[r]
    BY <2>3, <2>4, Zenon
  <2>. QED BY <2>4, <2>5, OldestRuns, Zenon DEF Unwritten
<1>. QED BY <1>1, <1>2, <1>3, Invariance, PTL DEF Spec
=============================================================================
