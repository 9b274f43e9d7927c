--------------------------- MODULE AsyncBusProofs ---------------------------
(***************************************************************************)
(* Proofs about the buses, the asynchronous subscriber and the metrics,    *)
(* for any number of topics, message types, rings, subscribers, budgets    *)
(* and buffer lengths.  The three parts touch each other only through the  *)
(* rings: BusInv speaks of the topic map and who was given what, RingInv   *)
(* of the positions on the rings, MetricsInv and AsyncInv of the counters. *)
(***************************************************************************)
EXTENDS AsyncBus, TLAPS

----------------------------------------------------------------------------
(* The inductive invariant.                                                *)

\* A reader's counters say how far it came, and no reader is ahead of what is
\* published; a reader that never subscribed has counted nothing.
Counted(s) ==
  IF on[s] = "none" THEN received[s] = 0 /\ lagged[s] = 0
  ELSE /\ start[s] >= 0
       /\ start[s] + received[s] + lagged[s] = next[s]
       /\ next[s] <= head[on[s]]

RingInv ==
  /\ BroadcastTypeOK
  /\ \A r \in Rings : shown[r] <= head[r] /\ head[r] <= shown[r] + 1
  /\ \A s \in Readers : Counted(s)

\* The map: an entry's ring was made for its type, and no two topics share one.
EntriesOK ==
  /\ entries \in [Topics -> Entry]
  /\ made \subseteq Rings \X Types
  /\ \A t \in Topics :
        \/ entries[t] = NoEntry
        \/ entries[t].ring \in Rings /\ <<entries[t].ring, entries[t].type>> \in made
  /\ \A t, u \in Topics : t # u /\ entries[t].ring = entries[u].ring
                            => entries[t].ring = "none"
  /\ \A x, y \in made : x[1] = y[1] => x[2] = y[2]

\* Who asked for topic t with type ty and was given ring r finds it in the map.
Asked(t, ty, r) ==
  /\ t \in Topics /\ r \in Rings
  /\ entries[t].ring = r /\ entries[t].type = ty

HandlesOK ==
  /\ publishers \subseteq [topic : Topics, type : Types, ring : Rings]
  /\ factories \subseteq [topic : Topics, type : Types, ring : Rings]
  /\ \A h \in publishers \cup factories : Asked(h.topic, h.type, h.ring)

\* A ring that was never made was never given out.
IssuedOK ==
  /\ issued \in [Rings -> Nat]
  /\ \A r \in Unused : issued[r] = 0
  /\ OnePublisherPerRing

LabelsOK ==
  /\ label \in [Readers -> [topic : Topics \cup {"none"}, type : Types \cup {"none"}]]
  /\ \A s \in Readers : on[s] # "none" => Asked(label[s].topic, label[s].type, on[s])

BusInv == EntriesOK /\ HandlesOK /\ LabelsOK /\ IssuedOK

\* The deltas handed out add up to the counters at the last one.
MetricsInv == prev \in [received : Int, lagged : Int] /\ sum = prev

\* A poll holds messages only while it fills the buffer, which has room for the
\* one it is about to take.
AsyncInv ==
  /\ handed \in Nat /\ filled \in Nat /\ buf \in Nat
  /\ future = "none" => pollPc = "idle"
  /\ pollPc \in {"idle", "spin"} => filled = 0
  /\ future = "batch" /\ pollPc # "idle" => buf > 0
  /\ pollPc = "refill" => filled < buf
  /\ NothingLeftBehind

IInv == RingInv /\ BusInv /\ MetricsInv /\ AsyncInv

----------------------------------------------------------------------------
(* The rings.                                                              *)

\* What any step does to the rings.
RingStep ==
  \/ \E r \in Rings : Publish(r) \/ Show(r)
  \/ \E s \in Readers, r \in Rings : JoinHead(s, r, FALSE)
  \/ \E s \in Readers : Receive(s) \/ Lag(s)
  \/ UNCHANGED broadcastVars

\* Where a lapped reader is moved to is not ahead of the cursor (try_recv).
LEMMA OldestShown ==
  ASSUME RingInv, NEW r \in Rings
  PROVE  Oldest(r) \in Nat /\ Oldest(r) <= shown[r]
  BY DepthAssumption, MaxHeadAssumption DEF RingInv, BroadcastTypeOK, Oldest

\* The publisher: a message more, or the cursor catches up (publish).
LEMMA PublishRings ==
  ASSUME RingInv, NEW r \in Rings, Publish(r) \/ Show(r)
  PROVE  RingInv'
<1>0. /\ head \in [Rings -> 0 .. MaxHead] /\ shown \in [Rings -> 0 .. MaxHead]
      /\ on \in [Readers -> Rings \cup {"none"}] /\ next \in [Readers -> 0 .. MaxHead]
      /\ \A q \in Rings : shown[q] <= head[q] /\ head[q] <= shown[q] + 1
  BY DEF RingInv, BroadcastTypeOK
<1>1. UNCHANGED <<on, gated, start, next, received, lagged>>
  BY DEF Publish, Show
<1>2. /\ head' \in [Rings -> 0 .. MaxHead] /\ shown' \in [Rings -> 0 .. MaxHead]
      /\ \A q \in Rings : shown'[q] <= head'[q] /\ head'[q] <= shown'[q] + 1
      /\ \A q \in Rings : head[q] <= head'[q]
  <2>1. CASE Publish(r)
    BY <1>0, <2>1, MaxHeadAssumption DEF Publish
  <2>2. CASE Show(r)
    BY <1>0, <2>2, MaxHeadAssumption DEF Show
  <2> QED BY <2>1, <2>2
<1>3. BroadcastTypeOK'
  BY <1>1, <1>2 DEF RingInv, BroadcastTypeOK
<1>4. ASSUME NEW s \in Readers PROVE Counted(s)'
  <2>1. Counted(s) BY DEF RingInv
  <2>2. CASE on[s] = "none"
    BY <2>1, <2>2, <1>1 DEF Counted
  <2>3. CASE on[s] # "none"
    <3>1. on[s] \in Rings BY <1>0, <2>3
    <3>2. head[on[s]] <= head'[on[s]] /\ head[on[s]] \in Int /\ head'[on[s]] \in Int
          /\ next[s] \in Int
      BY <3>1, <1>0, <1>2
    <3>3. next[s] <= head'[on[s]] BY <3>2, <2>1, <2>3 DEF Counted
    <3> QED BY <3>3, <2>1, <2>3, <1>1 DEF Counted
  <2> QED BY <2>2, <2>3
<1> QED BY <1>2, <1>3, <1>4 DEF RingInv

\* subscribe: the new reader begins at the cursor with nothing counted.
LEMMA JoinRings ==
  ASSUME RingInv, NEW j \in Readers, NEW r \in Rings, JoinHead(j, r, FALSE)
  PROVE  RingInv' /\ UNCHANGED <<head, shown, gated, received, lagged>>
<1>0. /\ on \in [Readers -> Rings \cup {"none"}] /\ next \in [Readers -> 0 .. MaxHead]
      /\ start \in [Readers -> -1 .. MaxHead] /\ head[r] \in 0 .. MaxHead
      /\ shown[r] \in 0 .. MaxHead /\ shown[r] <= head[r]
  BY DEF RingInv, BroadcastTypeOK
<1>1. /\ UNCHANGED <<head, shown, gated, received, lagged>>
      /\ on[j] = "none"
      /\ on' = [on EXCEPT ![j] = r]
      /\ start' = [start EXCEPT ![j] = shown[r]]
      /\ next' = [next EXCEPT ![j] = shown[r]]
  BY DEF JoinHead, Join
<1>2. /\ on' \in [Readers -> Rings \cup {"none"}] /\ next' \in [Readers -> 0 .. MaxHead]
      /\ start' \in [Readers -> -1 .. MaxHead]
  BY <1>0, <1>1
<1>3. BroadcastTypeOK'
  BY <1>1, <1>2 DEF RingInv, BroadcastTypeOK
<1>4. ASSUME NEW s \in Readers PROVE Counted(s)'
  <2>1. Counted(s) BY DEF RingInv
  <2>2. CASE s # j
    <3>1. on'[s] = on[s] /\ start'[s] = start[s] /\ next'[s] = next[s]
      BY <1>0, <1>1, <2>2
    <3> QED BY <3>1, <2>1, <1>1 DEF Counted
  <2>3. CASE s = j
    <3>1. on'[j] = r /\ start'[j] = shown[r] /\ next'[j] = shown[r]
      BY <1>0, <1>1
    <3>2. received[j] = 0 /\ lagged[j] = 0
      BY <2>1, <2>3, <1>1 DEF Counted
    <3>3. r # "none" BY RingsAssumption
    <3> QED BY <3>1, <3>2, <3>3, <2>3, <1>0, <1>1, MaxHeadAssumption DEF Counted
  <2> QED BY <2>2, <2>3
<1> QED BY <1>1, <1>3, <1>4 DEF RingInv

\* try_recv: one message received, or as many lost as the reader is moved.
LEMMA ReceiveRings ==
  ASSUME RingInv, NEW j \in Readers, Receive(j) \/ Lag(j)
  PROVE  RingInv' /\ UNCHANGED <<head, shown, on, gated, start>>
<1>0. /\ on \in [Readers -> Rings \cup {"none"}] /\ next \in [Readers -> 0 .. MaxHead]
      /\ received \in [Readers -> Nat] /\ lagged \in [Readers -> Nat]
      /\ head \in [Rings -> 0 .. MaxHead] /\ start[j] \in Int
  BY DEF RingInv, BroadcastTypeOK
<1>1. /\ UNCHANGED <<head, shown, on, gated, start>>
      /\ on[j] # "none" /\ on[j] \in Rings
  BY <1>0 DEF Receive, Lag
<1>2. /\ head[on[j]] \in 0 .. MaxHead /\ next[j] \in 0 .. MaxHead
      /\ received[j] \in Nat /\ lagged[j] \in Nat /\ shown[on[j]] <= head[on[j]]
      /\ shown[on[j]] \in Int
      /\ start[j] >= 0 /\ start[j] + received[j] + lagged[j] = next[j]
  <2>1. Counted(j) BY DEF RingInv
  <2> QED BY <2>1, <1>0, <1>1 DEF Counted, RingInv, BroadcastTypeOK
<1>3. /\ next' \in [Readers -> 0 .. MaxHead]
      /\ received' \in [Readers -> Nat] /\ lagged' \in [Readers -> Nat]
      /\ \A s \in Readers : s # j => /\ next'[s] = next[s]
                                     /\ received'[s] = received[s]
                                     /\ lagged'[s] = lagged[s]
      /\ start[j] + received'[j] + lagged'[j] = next'[j]
      /\ next'[j] <= head[on[j]]
  <2>1. CASE Receive(j)
    BY <2>1, <1>0, <1>1, <1>2, MaxHeadAssumption DEF Receive
  <2>2. CASE Lag(j)
    <3>1. Oldest(on[j]) \in Nat /\ Oldest(on[j]) <= shown[on[j]]
      BY <1>1, OldestShown
    <3>2. /\ next' = [next EXCEPT ![j] = Oldest(on[j])] /\ received' = received
          /\ lagged' = [lagged EXCEPT ![j] = @ + Oldest(on[j]) - next[j]]
          /\ next[j] < Oldest(on[j])
      BY <2>2 DEF Lag
    <3> QED BY <3>1, <3>2, <1>0, <1>2, MaxHeadAssumption
  <2> QED BY <2>1, <2>2
<1>4. BroadcastTypeOK'
  BY <1>1, <1>3 DEF RingInv, BroadcastTypeOK
<1>5. ASSUME NEW s \in Readers PROVE Counted(s)'
  <2>1. Counted(s) BY DEF RingInv
  <2>2. CASE s # j
    BY <2>1, <2>2, <1>1, <1>3 DEF Counted
  <2>3. CASE s = j
    BY <2>3, <1>1, <1>2, <1>3 DEF Counted
  <2> QED BY <2>2, <2>3
<1> QED BY <1>1, <1>4, <1>5 DEF RingInv

LEMMA RingsPreserved ==
  ASSUME RingInv, RingStep
  PROVE  RingInv'
<1>1. CASE UNCHANGED broadcastVars
  <2>1. UNCHANGED <<head, shown, on, gated, start, next, received, lagged>>
    BY <1>1 DEF broadcastVars
  <2> QED BY <2>1 DEF RingInv, BroadcastTypeOK, Counted
<1> QED BY <1>1, PublishRings, JoinRings, ReceiveRings DEF RingStep

----------------------------------------------------------------------------
(* The buses.                                                              *)

\* Entry e was found or made for topic t, and f was left in the map: what others
\* asked for before stays true.
Entered(t, ty, e, f) ==
  /\ EntriesOK'
  /\ e \in Entry /\ e.ring \in Rings /\ entries'[t].publisher = f.publisher
  /\ \A u \in Topics : u # t => entries'[u] = entries[u]
  /\ Asked(t, ty, e.ring)'
  /\ \A u, v, r : Asked(u, v, r) => Asked(u, v, r)'
  /\ entries[t].ring \in Rings => e = entries[t]

\* A call finds the topic's entry or makes one with a ring of its own, and leaves
\* it with or without its publisher (entry_ref, or_insert_with, make_slot).
LEMMA PutEntry ==
  ASSUME EntriesOK, NEW t \in Topics, NEW ty \in Types,
         NEW e, e = EntryFor(t, ty), CanEnter(t), Fits(e, ty),
         NEW f, f \in {e, Take(e)}, Put(t, f)
  PROVE  Entered(t, ty, e, f)
<1>n. NoEntry.ring = "none" /\ "none" \notin Rings
  BY RingsAssumption DEF NoEntry
<1>1. /\ e \in Entry /\ e.ring \in Rings /\ e.type = ty
      /\ \A u \in Topics : u # t => entries[u].ring # e.ring
      /\ \A x \in made : x[1] = e.ring => x[2] = ty
      /\ entries[t].ring \in Rings => e = entries[t]
  <2>1. CASE entries[t] = NoEntry
    <3>1. PICK r \in Unused : e = [ring |-> r, type |-> ty, publisher |-> TRUE]
      BY <2>1 DEF CanEnter, EntryFor, MakeSlot
    <3>2. r \in Rings /\ \A x \in made : x[1] # r
      BY DEF Unused
    <3>3. ASSUME NEW u \in Topics, u # t PROVE entries[u].ring # r
      <4>1. \/ entries[u] = NoEntry
            \/ <<entries[u].ring, entries[u].type>> \in made
        BY DEF EntriesOK
      <4> QED BY <4>1, <3>2, <1>n
    <3>4. e \in Entry /\ e.ring = r /\ e.type = ty
      BY <3>1, <3>2 DEF Entry
    <3> QED BY <3>2, <3>3, <3>4, <2>1, <1>n
  <2>2. CASE entries[t] # NoEntry
    <3>1. e = entries[t] BY <2>2 DEF EntryFor
    <3>2. e \in Entry /\ e.ring \in Rings /\ <<e.ring, e.type>> \in made /\ e.type = ty
      BY <3>1, <2>2 DEF EntriesOK, Fits
    <3>3. ASSUME NEW u \in Topics, u # t PROVE entries[u].ring # e.ring
      BY <3>1, <3>2, <3>3, <1>n DEF EntriesOK
    <3>4. ASSUME NEW x \in made, x[1] = e.ring PROVE x[2] = ty
      BY <3>2, <3>4 DEF EntriesOK
    <3> QED BY <3>1, <3>2, <3>3, <3>4
  <2> QED BY <2>1, <2>2
<1>2. f \in Entry /\ f.ring = e.ring /\ f.type = ty
  BY <1>1 DEF Take, Entry
<1>3. /\ entries \in [Topics -> Entry] /\ entries' \in [Topics -> Entry]
      /\ entries'[t] = f /\ \A u \in Topics : u # t => entries'[u] = entries[u]
      /\ made' = made \cup {<<e.ring, ty>>}
  BY <1>2 DEF EntriesOK, Put
<1>4. EntriesOK'
  <2>1. made' \subseteq Rings \X Types
    BY <1>1, <1>3 DEF EntriesOK
  <2>2. ASSUME NEW u \in Topics
        PROVE  \/ entries'[u] = NoEntry
               \/ entries'[u].ring \in Rings
                  /\ <<entries'[u].ring, entries'[u].type>> \in made'
    <3>1. CASE u = t BY <3>1, <1>1, <1>2, <1>3
    <3>2. CASE u # t BY <3>2, <1>3 DEF EntriesOK
    <3> QED BY <3>1, <3>2
  <2>3. ASSUME NEW u \in Topics, NEW v \in Topics, u # v, entries'[u].ring = entries'[v].ring
        PROVE  entries'[u].ring = "none"
    <3>1. u # t /\ v # t BY <2>3, <1>1, <1>2, <1>3
    <3> QED BY <3>1, <2>3, <1>3 DEF EntriesOK
  <2>4. ASSUME NEW x \in made', NEW y \in made', x[1] = y[1] PROVE x[2] = y[2]
    <3>1. x \in made \/ x = <<e.ring, ty>> BY <1>3
    <3>2. y \in made \/ y = <<e.ring, ty>> BY <1>3
    <3> QED BY <3>1, <3>2, <2>4, <1>1 DEF EntriesOK
  <2> QED BY <2>1, <2>2, <2>3, <2>4, <1>3 DEF EntriesOK
<1>5. ASSUME NEW u, NEW v, NEW r, Asked(u, v, r) PROVE Asked(u, v, r)'
  <2>1. u \in Topics /\ r \in Rings /\ entries[u].ring = r /\ entries[u].type = v
    BY <1>5 DEF Asked
  <2>2. CASE u = t
    <3>1. e = entries[t] BY <2>1, <2>2, <1>1
    <3> QED BY <3>1, <2>1, <2>2, <1>1, <1>2, <1>3 DEF Asked
  <2>3. CASE u # t
    BY <2>1, <2>3, <1>3 DEF Asked
  <2> QED BY <2>2, <2>3
<1>6. Asked(t, ty, e.ring)'
  BY <1>1, <1>2, <1>3 DEF Asked
<1> QED BY <1>1, <1>3, <1>4, <1>5, <1>6, Zenon DEF Entered

\* An entry that still has its publisher has given none out, also when the call
\* makes it (make_slot).
LEMMA EntryUnissued ==
  ASSUME EntriesOK, IssuedOK, NEW t \in Topics, NEW ty \in Types,
         NEW e, e = EntryFor(t, ty), CanEnter(t), e.publisher
  PROVE  issued[e.ring] = 0
<1>1. CASE entries[t] = NoEntry
  <2>1. PICK r \in Unused : e = [ring |-> r, type |-> ty, publisher |-> TRUE]
    BY <1>1 DEF CanEnter, EntryFor, MakeSlot
  <2> QED BY <2>1 DEF IssuedOK
<1>2. CASE entries[t] # NoEntry
  BY <1>2 DEF EntryFor, IssuedOK, OnePublisherPerRing
<1> QED BY <1>1, <1>2

\* A call that leaves the publisher in the entry gives none out.
LEMMA PutKeepsIssued ==
  ASSUME EntriesOK, IssuedOK, NEW t \in Topics, NEW ty \in Types,
         NEW e, e = EntryFor(t, ty), CanEnter(t), Put(t, e),
         UNCHANGED <<publishers, issued>>
  PROVE  IssuedOK'
<1>1. /\ entries'[t] = e /\ \A u \in Topics : u # t => entries'[u] = entries[u]
      /\ made \subseteq made'
  BY DEF EntriesOK, Put
<1>2. Unused' \subseteq Unused
  BY <1>1 DEF Unused
<1>3. ASSUME NEW u \in Topics, entries'[u].publisher PROVE issued[entries'[u].ring] = 0
  <2>1. CASE u = t BY <2>1, <1>1, <1>3, EntryUnissued
  <2>2. CASE u # t BY <2>2, <1>1, <1>3 DEF IssuedOK, OnePublisherPerRing
  <2> QED BY <2>1, <2>2
<1> QED BY <1>2, <1>3 DEF IssuedOK, OnePublisherPerRing

\* publisher, try_publisher: the handle takes the publisher out of the entry.
LEMMA TakePublisherStep ==
  ASSUME BusInv, NEW t \in Topics, NEW ty \in Types, TakePublisher(t, ty)
  PROVE  BusInv' /\ UNCHANGED broadcastVars
<1>0. PICK e : e = EntryFor(t, ty) OBVIOUS
<1> DEFINE h == [topic |-> t, type |-> ty, ring |-> e.ring]
<1>1. /\ CanEnter(t) /\ Fits(e, ty) /\ e.publisher /\ Put(t, Take(e))
      /\ publishers' = publishers \cup {h}
      /\ issued' = [issued EXCEPT ![e.ring] = @ + 1]
      /\ UNCHANGED broadcastVars /\ UNCHANGED factories /\ UNCHANGED label
  BY <1>0 DEF TakePublisher
<1>2. EntriesOK /\ HandlesOK /\ LabelsOK /\ IssuedOK /\ UNCHANGED on
  BY <1>1 DEF BusInv, broadcastVars
<1>3. Entered(t, ty, e, Take(e))
  BY <1>0, <1>1, <1>2, PutEntry
<1>a. Asked(t, ty, e.ring)' /\ \A u, v, r : Asked(u, v, r) => Asked(u, v, r)'
  BY <1>3, Zenon DEF Entered
<1>b. EntriesOK' /\ e.ring \in Rings
  BY <1>3, Zenon DEF Entered
<1>4. ~entries'[t].publisher
  BY <1>3 DEF Entered, Take, Entry
<1>5. HandlesOK'
  <2>1. publishers' \subseteq [topic : Topics, type : Types, ring : Rings]
    <3>1. h \in [topic : Topics, type : Types, ring : Rings] BY <1>b
    <3>2. publishers \subseteq [topic : Topics, type : Types, ring : Rings]
      BY <1>2 DEF HandlesOK
    <3> QED BY <3>1, <3>2, <1>1, Zenon
  <2>2. ASSUME NEW x \in publishers' \cup factories' PROVE Asked(x.topic, x.type, x.ring)'
    <3>1. CASE x = h BY <3>1, <1>a
    <3>2. CASE x # h
      <4>1. Asked(x.topic, x.type, x.ring) BY <3>2, <1>1, <1>2 DEF HandlesOK
      <4> QED BY <4>1, <1>a
    <3> QED BY <3>1, <3>2
  <2> QED BY <2>1, <2>2, <1>1, <1>2 DEF HandlesOK
<1>6. LabelsOK'
  BY <1>1, <1>2, <1>a DEF LabelsOK
<1>7. IssuedOK'
  <2>1. issued[e.ring] = 0 /\ issued \in [Rings -> Nat]
    BY <1>0, <1>1, <1>2, EntryUnissued DEF IssuedOK
  <2>2. /\ issued' \in [Rings -> Nat] /\ issued'[e.ring] = 1
        /\ \A r \in Rings : r # e.ring => issued'[r] = issued[r]
    BY <2>1, <1>1, <1>b
  <2>3. ASSUME NEW r \in Unused' PROVE issued'[r] = 0
    <3>1. made' = made \cup {<<e.ring, e.type>>}
      BY <1>1, <1>3 DEF Put, Take, Entered, Entry
    <3>2. r \in Rings /\ \A x \in made' : x[1] # r
      BY DEF Unused
    <3>3. r \in Unused /\ r # e.ring
      <4>1. <<e.ring, e.type>>[1] # r BY <3>1, <3>2, Zenon
      <4> QED BY <3>1, <3>2, <4>1 DEF Unused
    <3> QED BY <3>2, <3>3, <2>2, <1>2 DEF IssuedOK
  <2>4. ASSUME NEW u \in Topics, entries'[u].publisher
        PROVE  issued'[entries'[u].ring] = 0
    <3>1. u # t /\ entries'[u] = entries[u] BY <2>4, <1>3, <1>4 DEF Entered
    <3>2. entries[u].ring \in Rings
      <4>1. NoEntry.publisher = FALSE BY DEF NoEntry
      <4>2. entries[u] # NoEntry BY <3>1, <2>4, <4>1
      <4> QED BY <4>2, <1>2, Zenon DEF EntriesOK
    <3>3. entries[u].ring # e.ring
      BY <3>1, <3>2, <1>a, <1>b, RingsAssumption DEF EntriesOK, Asked
    <3> QED BY <3>1, <3>2, <3>3, <2>2, <2>4, <1>2 DEF IssuedOK, OnePublisherPerRing
  <2>5. ASSUME NEW p \in publishers' PROVE issued'[p.ring] = 1
    <3>1. CASE p \in publishers
      <4>1. p.ring \in Rings /\ issued[p.ring] = 1
        BY <3>1, <1>2 DEF HandlesOK, IssuedOK, OnePublisherPerRing
      <4> QED BY <4>1, <2>1, <2>2
    <3>2. CASE p = h BY <3>2, <2>2
    <3> QED BY <3>1, <3>2, <1>1
  <2>6. ASSUME NEW r \in Rings PROVE issued'[r] <= 1
    BY <2>2, <1>2 DEF IssuedOK, OnePublisherPerRing
  <2> QED BY <2>2, <2>3, <2>4, <2>5, <2>6 DEF IssuedOK, OnePublisherPerRing
<1> QED BY <1>1, <1>b, <1>5, <1>6, <1>7 DEF BusInv

\* subscribable: one more handle on the topic's ring.
LEMMA GetSubscribableStep ==
  ASSUME BusInv, NEW t \in Topics, NEW ty \in Types, GetSubscribable(t, ty)
  PROVE  BusInv' /\ UNCHANGED broadcastVars
<1>0. PICK e : e = EntryFor(t, ty) OBVIOUS
<1> DEFINE h == [topic |-> t, type |-> ty, ring |-> e.ring]
<1>1. /\ CanEnter(t) /\ Fits(e, ty) /\ Put(t, e)
      /\ factories' = factories \cup {h}
      /\ UNCHANGED broadcastVars /\ UNCHANGED label
      /\ UNCHANGED <<publishers, issued>>
  BY <1>0 DEF GetSubscribable
<1>2. EntriesOK /\ HandlesOK /\ LabelsOK /\ IssuedOK /\ UNCHANGED on
  BY <1>1 DEF BusInv, broadcastVars
<1>3. Entered(t, ty, e, e)
  BY <1>0, <1>1, <1>2, PutEntry
<1>a. Asked(t, ty, e.ring)' /\ \A u, v, r : Asked(u, v, r) => Asked(u, v, r)'
  BY <1>3, Zenon DEF Entered
<1>b. EntriesOK' /\ e.ring \in Rings
  BY <1>3, Zenon DEF Entered
<1>5. HandlesOK'
  <2>1. factories' \subseteq [topic : Topics, type : Types, ring : Rings]
    <3>1. h \in [topic : Topics, type : Types, ring : Rings] BY <1>b
    <3>2. factories \subseteq [topic : Topics, type : Types, ring : Rings]
      BY <1>2 DEF HandlesOK
    <3> QED BY <3>1, <3>2, <1>1, Zenon
  <2>2. ASSUME NEW x \in publishers' \cup factories' PROVE Asked(x.topic, x.type, x.ring)'
    <3>1. CASE x = h BY <3>1, <1>a
    <3>2. CASE x # h
      <4>1. Asked(x.topic, x.type, x.ring) BY <3>2, <1>1, <1>2 DEF HandlesOK
      <4> QED BY <4>1, <1>a
    <3> QED BY <3>1, <3>2
  <2> QED BY <2>1, <2>2, <1>1, <1>2 DEF HandlesOK
<1>6. LabelsOK'
  BY <1>1, <1>2, <1>a DEF LabelsOK
<1>7. IssuedOK'
  BY <1>0, <1>1, <1>2, PutKeepsIssued
<1> QED BY <1>1, <1>b, <1>5, <1>6, <1>7 DEF BusInv

\* A new reader with the label of what it was given keeps the labels right.
LEMMA LabelReader ==
  ASSUME LabelsOK, on \in [Readers -> Rings \cup {"none"}],
         NEW s \in Readers, NEW t \in Topics, NEW ty \in Types, NEW r \in Rings,
         JoinHead(s, r, FALSE), Label(s, t, ty), Asked(t, ty, r)',
         \A u, v, q : Asked(u, v, q) => Asked(u, v, q)'
  PROVE  LabelsOK'
<1>1. /\ on' = [on EXCEPT ![s] = r]
      /\ label' = [label EXCEPT ![s] = [topic |-> t, type |-> ty]]
  BY DEF JoinHead, Join, Label
<1>2. label' \in [Readers -> [topic : Topics \cup {"none"}, type : Types \cup {"none"}]]
  BY <1>1 DEF LabelsOK
<1>3. ASSUME NEW u \in Readers, on'[u] # "none"
      PROVE  Asked(label[u].topic, label[u].type, on[u])'
  <2>1. CASE u = s
    <3>1. label'[s].topic = t /\ label'[s].type = ty /\ on'[s] = r
      BY <1>1 DEF LabelsOK
    <3> QED BY <3>1, <2>1 DEF Asked
  <2>2. CASE u # s
    <3>1. label'[u] = label[u] /\ on'[u] = on[u]
      BY <1>1, <2>2 DEF LabelsOK
    <3>2. Asked(label[u].topic, label[u].type, on[u])
      BY <3>1, <1>3 DEF LabelsOK
    <3> QED BY <3>1, <3>2 DEF Asked
  <2> QED BY <2>1, <2>2
<1> QED BY <1>2, <1>3 DEF LabelsOK

\* subscribe of the bus, and of a factory.
LEMMA BusSubscribeStep ==
  ASSUME RingInv, BusInv, NEW s \in Readers, NEW t \in Topics, NEW ty \in Types,
         BusSubscribe(s, t, ty)
  PROVE  BusInv' /\ \E r \in Rings : JoinHead(s, r, FALSE)
<1>0. PICK e : e = EntryFor(t, ty) OBVIOUS
<1>1. /\ CanEnter(t) /\ Fits(e, ty) /\ Put(t, e)
      /\ JoinHead(s, e.ring, FALSE) /\ Label(s, t, ty)
      /\ UNCHANGED <<publishers, issued>> /\ UNCHANGED factories
  BY <1>0 DEF BusSubscribe
<1>2. EntriesOK /\ HandlesOK /\ LabelsOK /\ IssuedOK /\ on \in [Readers -> Rings \cup {"none"}]
  BY DEF BusInv, RingInv, BroadcastTypeOK
<1>3. Entered(t, ty, e, e)
  BY <1>0, <1>1, <1>2, PutEntry
<1>a. Asked(t, ty, e.ring)' /\ \A u, v, r : Asked(u, v, r) => Asked(u, v, r)'
  BY <1>3, Zenon DEF Entered
<1>b. EntriesOK' /\ e.ring \in Rings
  BY <1>3, Zenon DEF Entered
<1>4. HandlesOK'
  BY <1>1, <1>2, <1>a DEF HandlesOK
<1>5. LabelsOK'
  BY <1>1, <1>2, <1>a, <1>b, LabelReader
<1>6. IssuedOK'
  BY <1>0, <1>1, <1>2, PutKeepsIssued
<1> QED BY <1>1, <1>b, <1>4, <1>5, <1>6 DEF BusInv

LEMMA FactorySubscribeStep ==
  ASSUME RingInv, BusInv, NEW s \in Readers, FactorySubscribe(s)
  PROVE  BusInv' /\ \E r \in Rings : JoinHead(s, r, FALSE)
<1>0. EntriesOK /\ HandlesOK /\ LabelsOK /\ IssuedOK /\ on \in [Readers -> Rings \cup {"none"}]
  BY DEF BusInv, RingInv, BroadcastTypeOK
<1>1. PICK f \in factories : JoinHead(s, f.ring, FALSE) /\ Label(s, f.topic, f.type)
  BY DEF FactorySubscribe
<1>2. UNCHANGED <<entries, made, publishers, issued, factories>>
  BY DEF FactorySubscribe
<1>3. /\ f.topic \in Topics /\ f.type \in Types /\ f.ring \in Rings
      /\ Asked(f.topic, f.type, f.ring)
  BY <1>0 DEF HandlesOK
<1>4. \A u, v, r : Asked(u, v, r) => Asked(u, v, r)'
  BY <1>2 DEF Asked
<1>5. LabelsOK'
  BY <1>0, <1>1, <1>3, <1>4, LabelReader
<1>6. EntriesOK' /\ HandlesOK' /\ IssuedOK'
  BY <1>0, <1>2 DEF EntriesOK, HandlesOK, Asked, IssuedOK, Unused, OnePublisherPerRing
<1> QED BY <1>1, <1>3, <1>5, <1>6 DEF BusInv

\* The bus invariant depends on nothing else but who is on which ring.
LEMMA BusUntouched ==
  ASSUME BusInv, UNCHANGED busVars, UNCHANGED on
  PROVE  BusInv'
  BY DEF BusInv, EntriesOK, HandlesOK, LabelsOK, Asked, IssuedOK, Unused,
         OnePublisherPerRing, busVars

LEMMA BusStep ==
  ASSUME RingInv, BusInv, BusNext
  PROVE  BusInv' /\ RingStep /\ UNCHANGED received
<1>0. HandlesOK BY DEF BusInv
<1>1. ASSUME NEW t \in Topics, NEW ty \in Types, TakePublisher(t, ty) \/ GetSubscribable(t, ty)
      PROVE  BusInv' /\ RingStep /\ UNCHANGED received
  <2>1. BusInv' /\ UNCHANGED broadcastVars
    BY <1>1, TakePublisherStep, GetSubscribableStep
  <2> QED BY <2>1 DEF RingStep, broadcastVars
<1>2. ASSUME NEW t \in Topics, NEW ty \in Types, NEW s \in Readers, BusSubscribe(s, t, ty)
      PROVE  BusInv' /\ RingStep /\ UNCHANGED received
  <2>1. BusInv' /\ \E r \in Rings : JoinHead(s, r, FALSE)
    BY <1>2, BusSubscribeStep
  <2> QED BY <2>1 DEF RingStep, JoinHead, Join
<1>3. ASSUME NEW s \in Readers, FactorySubscribe(s)
      PROVE  BusInv' /\ RingStep /\ UNCHANGED received
  <2>1. BusInv' /\ \E r \in Rings : JoinHead(s, r, FALSE)
    BY <1>3, FactorySubscribeStep
  <2> QED BY <2>1 DEF RingStep, JoinHead, Join
<1>4. CASE BusPublish \/ BusShow
  <2>1. PICK p \in publishers : (Publish(p.ring) \/ Show(p.ring)) /\ UNCHANGED busVars
    BY <1>4 DEF BusPublish, BusShow
  <2>2. p.ring \in Rings BY <1>0 DEF HandlesOK
  <2>3. UNCHANGED <<on, received>> BY <2>1 DEF Publish, Show
  <2> QED BY <2>1, <2>2, <2>3, BusUntouched DEF RingStep
<1>5. CASE DropPublisher
  <2>1. /\ publishers' \subseteq publishers /\ UNCHANGED broadcastVars
        /\ UNCHANGED <<entries, made, issued, factories, label>>
    BY <1>5 DEF DropPublisher
  <2>2. UNCHANGED <<on, received>> BY <2>1 DEF broadcastVars
  <2>3. EntriesOK' BY <2>1 DEF BusInv, EntriesOK
  <2>4. HandlesOK' BY <2>1, <1>0 DEF HandlesOK, Asked
  <2>5. LabelsOK' BY <2>1, <2>2 DEF BusInv, LabelsOK, Asked
  <2>6. IssuedOK' BY <2>1 DEF BusInv, IssuedOK, Unused, OnePublisherPerRing
  <2> QED BY <2>1, <2>2, <2>3, <2>4, <2>5, <2>6 DEF BusInv, RingStep
<1> QED BY <1>1, <1>2, <1>3, <1>4, <1>5 DEF BusNext

----------------------------------------------------------------------------
(* The asynchronous subscriber and the metrics.                            *)

\* A try_recv by a poll is one message received, or none.
LEMMA WatchedCounts ==
  ASSUME RingInv
  PROVE  /\ received[Watched] \in Nat
         /\ Receive(Watched) => received'[Watched] = received[Watched] + 1
         /\ Lag(Watched) => UNCHANGED received
         /\ Receive(Watched) \/ Lag(Watched) => RingStep /\ UNCHANGED on
  BY WatchedAssumption DEF RingInv, BroadcastTypeOK, Receive, Lag, RingStep

\* What a poll takes from the ring it either holds or hands over.
LEMMA AsyncStep ==
  ASSUME RingInv, AsyncInv, AsyncNext
  PROVE  AsyncInv' /\ RingStep /\ UNCHANGED on
<1>w. /\ received[Watched] \in Nat
      /\ Receive(Watched) => received'[Watched] = received[Watched] + 1
      /\ Lag(Watched) => UNCHANGED received
      /\ Receive(Watched) \/ Lag(Watched) => RingStep /\ UNCHANGED on
  BY WatchedCounts
<1>i. /\ handed \in Nat /\ filled \in Nat /\ buf \in Nat
      /\ received[Watched] = handed + filled /\ filled <= buf
      /\ future = "none" => pollPc = "idle"
      /\ pollPc \in {"idle", "spin"} => filled = 0
      /\ future = "batch" /\ pollPc # "idle" => buf > 0
      /\ pollPc = "refill" => filled < buf
  BY DEF AsyncInv, NothingLeftBehind
<1>u. ASSUME UNCHANGED broadcastVars PROVE RingStep /\ UNCHANGED <<on, received>>
  BY <1>u DEF RingStep, broadcastVars
<1>1. CASE \/ Await("recv", 0) \/ \E n \in 0 .. MaxBuf : Await("batch", n)
           \/ Cancel \/ \E b \in Budgets : SetSpinBudget(b)
  <2>1. /\ UNCHANGED broadcastVars /\ UNCHANGED <<pollPc, filled, handed>>
        /\ pollPc = "idle" /\ (buf' \in Nat)
    BY <1>1, <1>i, AsyncAssumption DEF Await, Cancel, SetSpinBudget
  <2> QED BY <2>1, <1>i, <1>u DEF AsyncInv, NothingLeftBehind
<1>2. CASE Poll
  <2>1. /\ UNCHANGED broadcastVars /\ UNCHANGED <<filled, handed, buf>>
        /\ pollPc = "idle" /\ pollPc' # "refill"
        /\ future' = "none" => pollPc' = "idle"
        /\ future' = "batch" => buf > 0
    BY <1>2 DEF Poll, BeginSpin, HasRoom, taskVars
  <2> QED BY <2>1, <1>i, <1>u DEF AsyncInv, NothingLeftBehind
<1>3. CASE Fill
  <2>0. UNCHANGED <<future, buf, handed>> /\ pollPc # "idle"
    BY <1>3 DEF Fill, taskVars
  <2>1. CASE Receive(Watched) /\ filled' = filled + 1 /\ pollPc' = "fill" /\ filled < buf
    BY <2>0, <2>1, <1>i, <1>w DEF AsyncInv, NothingLeftBehind
  <2>2. CASE Lag(Watched) /\ pollPc' = "refill" /\ UNCHANGED filled /\ filled < buf
    BY <2>0, <2>2, <1>i, <1>w DEF AsyncInv, NothingLeftBehind
  <2> QED BY <2>1, <2>2, <1>3, <1>i DEF Fill
<1>4. CASE EndFill
  <2>1. RingStep /\ UNCHANGED <<on, received>> /\ pollPc # "idle"
    BY <1>4, <1>u, <1>w DEF EndFill
  <2>2. CASE Ready(filled)
    <3>1. filled' = 0 /\ handed' = handed + filled /\ buf' = 0 /\ pollPc' = "idle"
      BY <2>2 DEF Ready
    <3> QED BY <3>1, <2>1, <1>i DEF AsyncInv, NothingLeftBehind
  <2>3. CASE filled = 0 /\ BeginSpin
    <3>1. UNCHANGED <<filled, handed, future, buf>> /\ pollPc' = "spin"
      BY <2>3 DEF BeginSpin, taskVars
    <3> QED BY <3>1, <2>1, <2>3, <1>i DEF AsyncInv, NothingLeftBehind
  <2> QED BY <1>4, <2>2, <2>3 DEF EndFill
<1>5. CASE SpinReceive
  <2>1. Receive(Watched) /\ filled = 0 /\ pollPc = "spin"
    BY <1>5, <1>i DEF SpinReceive
  <2>2. CASE filled' = 0 /\ handed' = handed + 1 /\ buf' = 0 /\ pollPc' = "idle"
    BY <2>1, <2>2, <1>i, <1>w DEF AsyncInv, NothingLeftBehind
  <2>3. CASE /\ filled' = 1 /\ pollPc' = "fill"
             /\ future = "batch" /\ UNCHANGED <<future, buf, handed>>
    BY <2>1, <2>3, <1>i, <1>w DEF AsyncInv, NothingLeftBehind
  <2> QED BY <1>5, <2>2, <2>3 DEF SpinReceive, Ready, UsedBySpin, taskVars
<1>6. CASE SpinLag
  <2>1. Lag(Watched) /\ UNCHANGED <<pollPc, filled, handed, future, buf>>
    BY <1>6 DEF SpinLag, taskVars
  <2> QED BY <2>1, <1>i, <1>w DEF AsyncInv, NothingLeftBehind
<1>7. CASE SpinEmpty \/ Yield
  <2>1. /\ UNCHANGED broadcastVars /\ UNCHANGED <<filled, handed, future, buf>>
        /\ pollPc = "spin" /\ pollPc' \in {"idle", "spin"}
    BY <1>7 DEF SpinEmpty, Yield, taskVars
  <2> QED BY <2>1, <1>i, <1>u DEF AsyncInv, NothingLeftBehind
<1> QED BY <1>1, <1>2, <1>3, <1>4, <1>5, <1>6, <1>7 DEF AsyncNext, PollStep

\* A delta moves the sum on to the counters.
LEMMA MetricsStep ==
  ASSUME RingInv, MetricsInv, MetricsNext
  PROVE  MetricsInv' /\ UNCHANGED broadcastVars /\ sum' = Counters
<1>1. received[Watched] \in Int /\ lagged[Watched] \in Int
  BY WatchedAssumption DEF RingInv, BroadcastTypeOK
<1>2. Counters \in [received : Int, lagged : Int]
  BY <1>1 DEF Counters
<1>3. CASE NewMetrics
  BY <1>2, <1>3 DEF NewMetrics, MetricsInv
<1>4. CASE Delta
  <2>1. /\ prev' = Counters /\ UNCHANGED broadcastVars
        /\ sum' = [received |-> prev.received + received[Watched] - prev.received,
                   lagged   |-> prev.lagged + lagged[Watched] - prev.lagged]
    BY <1>4 DEF Delta, Baseline, MetricsInv
  <2>2. prev.received \in Int /\ prev.lagged \in Int
    BY DEF MetricsInv
  <2>3. /\ prev.received + received[Watched] - prev.received = received[Watched]
        /\ prev.lagged + lagged[Watched] - prev.lagged = lagged[Watched]
    BY <1>1, <2>2
  <2> QED BY <2>1, <2>3, <1>2 DEF MetricsInv, Counters
<1> QED BY <1>3, <1>4 DEF MetricsNext

----------------------------------------------------------------------------
(* The theorems.                                                           *)

LEMMA InitIInv == Init => IInv
<1> SUFFICES ASSUME Init PROVE IInv OBVIOUS
<1>1. BroadcastInit /\ BusInit /\ MetricsInit /\ AsyncInit BY DEF Init
<1>2. RingInv
  BY <1>1, MaxHeadAssumption DEF BroadcastInit, RingInv, BroadcastTypeOK, Counted
<1>3. BusInv
  <2>1. EntriesOK /\ HandlesOK /\ LabelsOK
    BY <1>1 DEF BroadcastInit, BusInit, EntriesOK, HandlesOK, LabelsOK, Entry, NoEntry, NoLabel
  <2>2. IssuedOK
    BY <1>1 DEF BusInit, IssuedOK, Unused, OnePublisherPerRing, NoEntry
  <2> QED BY <2>1, <2>2 DEF BusInv
<1>4. MetricsInv
  BY <1>1 DEF MetricsInit, MetricsInv, NoMetrics
<1>5. AsyncInv
  BY <1>1, WatchedAssumption DEF BroadcastInit, AsyncInit, AsyncInv, NothingLeftBehind
<1> QED BY <1>2, <1>3, <1>4, <1>5 DEF IInv

LEMMA NextIInv == IInv /\ [Next]_vars => IInv'
<1> SUFFICES ASSUME IInv, [Next]_vars PROVE IInv' OBVIOUS
<1>0. RingInv /\ BusInv /\ MetricsInv /\ AsyncInv BY DEF IInv
<1>m. UNCHANGED metricsVars => MetricsInv'
  BY <1>0 DEF MetricsInv, metricsVars
<1>a. UNCHANGED asyncVars /\ UNCHANGED received => AsyncInv'
  BY <1>0 DEF AsyncInv, NothingLeftBehind, asyncVars, taskVars
<1>1. CASE BusNext /\ UNCHANGED <<metricsVars, asyncVars>>
  <2>1. BusInv' /\ RingStep /\ UNCHANGED received
    BY <1>0, <1>1, BusStep
  <2> QED BY <2>1, <1>0, <1>1, <1>m, <1>a, RingsPreserved DEF IInv
<1>2. CASE MetricsNext /\ UNCHANGED <<busVars, asyncVars>>
  <2>1. MetricsInv' /\ UNCHANGED broadcastVars
    BY <1>0, <1>2, MetricsStep
  <2>2. RingStep /\ UNCHANGED <<on, received>>
    BY <2>1 DEF RingStep, broadcastVars
  <2> QED BY <2>1, <2>2, <1>0, <1>2, <1>a, RingsPreserved, BusUntouched DEF IInv
<1>3. CASE AsyncNext /\ UNCHANGED <<busVars, metricsVars>>
  <2>1. AsyncInv' /\ RingStep /\ UNCHANGED on
    BY <1>0, <1>3, AsyncStep
  <2> QED BY <2>1, <1>0, <1>3, <1>m, RingsPreserved, BusUntouched DEF IInv
<1>4. CASE UNCHANGED vars
  <2>1. /\ UNCHANGED broadcastVars /\ UNCHANGED busVars
        /\ UNCHANGED metricsVars /\ UNCHANGED asyncVars
    BY <1>4 DEF vars
  <2>2. RingStep /\ UNCHANGED <<on, received>>
    BY <2>1 DEF RingStep, broadcastVars
  <2> QED BY <2>1, <2>2, <1>0, <1>m, <1>a, RingsPreserved, BusUntouched DEF IInv
<1> QED BY <1>1, <1>2, <1>3, <1>4 DEF Next

\* The invariant holds in every reachable state, whatever the topics, types,
\* rings, subscribers, budgets and buffers.
THEOREM Invariance == Spec => []IInv
  BY InitIInv, NextIInv, PTL DEF Spec

\* No ring ever gets a second Publisher, not even after the first was dropped:
\* an entry gives its publisher out once, and no two topics share a ring
\* (publisher, try_publisher).
THEOREM SinglePublisher == Spec => []OnePublisherPerRing
<1>1. IInv => OnePublisherPerRing BY DEF IInv, BusInv, IssuedOK
<1> QED BY <1>1, Invariance, PTL

\* All who asked for a topic hold its one ring, as the type it was made with
\* (or_insert_with, downcast_mut).
THEOREM OneRingPerTopic == Spec => []TopicIsOneRing
<1>1. IInv => TopicIsOneRing
  <2> SUFFICES ASSUME IInv PROVE TopicIsOneRing OBVIOUS
  <2>0. EntriesOK /\ HandlesOK /\ LabelsOK BY Zenon DEF IInv, BusInv
  <2>1. ASSUME NEW t, NEW ty, NEW r, Asked(t, ty, r)
        PROVE  /\ entries[t].ring = r /\ <<r, ty>> \in made
               /\ \A x \in made : x[1] = r => x[2] = ty
    <3>1. t \in Topics /\ r \in Rings /\ entries[t].ring = r /\ entries[t].type = ty
      BY <2>1 DEF Asked
    <3>2. entries[t] # NoEntry BY <3>1, RingsAssumption DEF NoEntry
    <3>3. <<r, ty>> \in made BY <3>1, <3>2, <2>0 DEF EntriesOK
    <3> QED BY <3>1, <3>3, <2>0 DEF EntriesOK
  <2>2. /\ \A h \in publishers \cup factories : Asked(h.topic, h.type, h.ring)
        /\ \A s \in Readers :
              on[s] # "none" => Asked(label[s].topic, label[s].type, on[s])
    BY <2>0, Zenon DEF HandlesOK, LabelsOK
  <2> QED BY <2>1, <2>2 DEF TopicIsOneRing
<1> QED BY <1>1, Invariance, PTL

\* A snapshot never counts a message twice nor one that was not published
\* (SubscriberMetrics::snapshot, pending).
THEOREM SnapshotsFit == Spec => []SnapshotFits
<1>1. IInv => SnapshotFits
  <2> SUFFICES ASSUME IInv, NEW s \in Readers, on[s] # "none"
               PROVE  /\ start[s] + received[s] + lagged[s] + Pending(s) <= head[on[s]]
                      /\ head[on[s]] - shown[on[s]] \in {0, 1}
    BY DEF SnapshotFits, SubscriberSnapshot, PublisherSnapshot
  <2>1. RingInv BY DEF IInv
  <2>2. on[s] \in Rings /\ Counted(s) BY <2>1 DEF RingInv, BroadcastTypeOK
  <2>3. /\ head[on[s]] \in Nat /\ shown[on[s]] \in Nat /\ next[s] \in Nat
        /\ shown[on[s]] <= head[on[s]] /\ head[on[s]] <= shown[on[s]] + 1
    BY <2>1, <2>2, MaxHeadAssumption DEF RingInv, BroadcastTypeOK
  <2>4. start[s] + received[s] + lagged[s] = next[s] /\ next[s] <= head[on[s]]
    BY <2>2 DEF Counted
  <2>5. next[s] + Pending(s) <= head[on[s]]
    BY <2>3, <2>4, DepthAssumption DEF Pending
  <2> QED BY <2>3, <2>4, <2>5
<1> QED BY <1>1, Invariance, PTL

\* Every message taken from the ring reaches the task, in a slot that its buffer
\* has (poll_recv, poll_recv_batch, recv_batch).
THEOREM AllHandedOver == Spec => []NothingLeftBehind
<1>1. IInv => NothingLeftBehind BY DEF IInv, AsyncInv
<1> QED BY <1>1, Invariance, PTL

\* The deltas since SubscriberMetrics::new add up to the counters (delta).
THEOREM DeltasSum == Spec => DeltasAddUp
<1>1. IInv /\ [Next]_vars
      => [prev # NoMetrics /\ sum' # sum => sum' = Counters]_<<broadcastVars, metricsVars>>
  <2> SUFFICES ASSUME IInv, [Next]_vars, sum' # sum PROVE sum' = Counters
    OBVIOUS
  <2>1. UNCHANGED metricsVars => sum' = sum BY DEF metricsVars
  <2>2. UNCHANGED vars => sum' = sum BY DEF vars, metricsVars
  <2>3. MetricsNext BY <2>1, <2>2 DEF Next
  <2> QED BY <2>3, MetricsStep DEF IInv
<1> QED BY <1>1, Invariance, PTL DEF Spec, DeltasAddUp
=============================================================================
