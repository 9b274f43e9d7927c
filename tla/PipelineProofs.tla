--------------------------- MODULE PipelineProofs ---------------------------
(***************************************************************************)
(* Proofs about the pipelines, for any number of stages and any depth of   *)
(* the rings: results stay in the order of the source messages along every *)
(* path, and try_join names exactly the stages that panicked.              *)
(***************************************************************************)
EXTENDS Pipeline, TLAPS

----------------------------------------------------------------------------
(* The inductive invariant.                                                *)

StagePcs == {"loop", "try", "run", "show", "end", "done"}
N        == Len(inputs)

\* The rings of the source and of the stages there are.
Wired == {Source} \cup {StageRings[k] : k \in 1 .. N}

TypeInv ==
  /\ BroadcastTypeOK
  /\ inputs \in Seq(Readers) /\ N <= Len(StageRings)
  /\ stagePc \in [1 .. N -> StagePcs]
  /\ status \in [1 .. N -> {"running", "completed", "panicked"}]
  /\ log \in [1 .. N -> Seq(Nat)]
  /\ crashed \subseteq 1 .. N
  /\ tips \in Seq(Rings)

\* Every stage has a subscriber of its own, and the builder's tips are
\* subscribers no stage has yet.
WireInv ==
  /\ \A k \in 1 .. N : inputs[k] \in Wired \cup {BranchB}
  /\ \A k, j \in 1 .. N : inputs[k] = inputs[j] => k = j
  /\ \A i \in DOMAIN tips : tips[i] \in Wired /\ \A k \in 1 .. N : inputs[k] # tips[i]
  /\ \A i, j \in DOMAIN tips : tips[i] = tips[j] => i = j
  /\ phase = "new" => N = 0 /\ tips = <<>>
  /\ phase = "stage" => Len(tips) = 1
  /\ phase = "fan" => Len(tips) = 2
  /\ phase \in {"new", "stage"} => \A k \in 1 .. N : inputs[k] # BranchB

\* A subscriber no stage has stands at the beginning of its ring; the subscriber
\* of a live stage is on a ring that is wired, and not ahead of it.
ReadInv ==
  /\ \A r \in Rings : shown[r] <= head[r]
  /\ \A r \in Rings : (\A k \in 1 .. N : inputs[k] # r) => on[r] = r /\ next[r] = 0
  /\ \A k \in 1 .. N : stagePc[k] # "done" =>
        /\ on[inputs[k]] \in Wired
        /\ next[inputs[k]] <= head[on[inputs[k]]]
        /\ stagePc[k] = "run" => next[inputs[k]] >= 1

\* Messages whose results stage k has published, or is about to, end here.
Limit(k) == IF stagePc[k] = "run" THEN next[inputs[k]] - 1 ELSE next[inputs[k]]

\* All that stage k has published comes from messages before its limit.
Passed(k) ==
  \A i \in DOMAIN log[k] :
     \E n \in 0 .. MaxHead : n < Limit(k) /\ log[k][i] = Origin(on[inputs[k]], n)

\* The log of a stage is what it has published, in order, and comes from
\* messages that the stage has already passed.
LogInv ==
  /\ \A k \in 1 .. N : head[StageRings[k]] = Len(log[k])
  /\ \A k \in DOMAIN StageRings : k > N => head[StageRings[k]] = 0
  /\ \A k \in 1 .. N : \A i, j \in DOMAIN log[k] : i < j => log[k][i] < log[k][j]
  /\ \A k \in 1 .. N : stagePc[k] # "done" => Passed(k)

\* A panic is in the status when the thread is done.
StatusInv ==
  /\ \A k \in crashed : stagePc[k] \in {"end", "done"}
  /\ \A k \in 1 .. N : stagePc[k] = "done" => (status[k] = "panicked" <=> k \in crashed)
  /\ phase = "joined" => report = crashed /\ \A k \in 1 .. N : stagePc[k] = "done"

IInv == TypeInv /\ WireInv /\ ReadInv /\ LogInv /\ StatusInv

----------------------------------------------------------------------------
(* Facts about the constants and the operators.                            *)

LEMMA Names ==
  /\ Len(StageRings) \in Nat /\ DOMAIN StageRings = 1 .. Len(StageRings)
  /\ Source \in Rings /\ Rings \subseteq Readers
  /\ BranchB \in Readers /\ BranchB \notin Rings
  /\ \A k \in 1 .. Len(StageRings) : StageRings[k] \in Rings /\ StageRings[k] # Source
  /\ \A k, j \in 1 .. Len(StageRings) : StageRings[k] = StageRings[j] => k = j
<1>1. Len(StageRings) \in Nat /\ DOMAIN StageRings = 1 .. Len(StageRings)
      /\ \A k \in 1 .. Len(StageRings) : StageRings[k] \in Rings
  BY PipelineAssumption
<1>2. \A k \in 1 .. Len(StageRings) : StageRings[k] # Source
  BY <1>1, PipelineAssumption DEF Range
<1>3. \A k, j \in 1 .. Len(StageRings) : StageRings[k] = StageRings[j] => k = j
  BY <1>1, PipelineAssumption DEF IsInjective
<1> QED BY <1>1, <1>2, <1>3, PipelineAssumption

\* z is x, of length n, followed by y, of length m.
Follows(z, x, n, y, m, S) ==
  /\ z \in [1 .. n + m -> S]
  /\ \A k \in 1 .. n : z[k] = x[k]
  /\ \A k \in 1 .. m : z[n + k] = y[k]

\* Appending to a sequence, element by element.
LEMMA Grow ==
  \A S : \A n, m \in Nat : \A x \in [1 .. n -> S], y \in [1 .. m -> S] :
     Follows(x \o y, x, n, y, m, S)
<1> SUFFICES ASSUME NEW S, NEW n \in Nat, NEW m \in Nat, NEW x \in [1 .. n -> S],
                    NEW y \in [1 .. m -> S]
             PROVE  Follows(x \o y, x, n, y, m, S)
  OBVIOUS
<1>1. x \in Seq(S) /\ Len(x) = n /\ y \in Seq(S) /\ Len(y) = m
  OBVIOUS
<1>2. x \o y \in Seq(S) /\ Len(x \o y) = n + m
  BY <1>1
<1>3. \A k \in 1 .. n + m : (x \o y)[k] = IF k <= n THEN x[k] ELSE y[k - n]
  BY <1>1
<1>4. x \o y \in [1 .. n + m -> S]
  <2>1. \A z \in Seq(S) : z \in [1 .. Len(z) -> S] OBVIOUS
  <2> QED BY <2>1, <1>2, Zenon
<1>5. ASSUME NEW k \in 1 .. m PROVE (x \o y)[n + k] = y[k]
  <2>1. n + k \in 1 .. n + m /\ ~(n + k <= n) /\ n + k - n = k OBVIOUS
  <2> QED BY <2>1, <1>3
<1> QED BY <1>3, <1>4, <1>5 DEF Follows

LEMMA Sizes ==
  ASSUME TypeInv
  PROVE  /\ N \in Nat /\ Stages = 1 .. N
         /\ inputs \in [1 .. N -> Readers]
         /\ \A k \in 1 .. N : StageRings[k] \in Rings /\ k \in 1 .. Len(StageRings)
         /\ Wired \subseteq Rings
<1>1. N \in Nat /\ Stages = 1 .. N /\ inputs \in [1 .. N -> Readers] /\ N <= Len(StageRings)
  BY DEF TypeInv, N, Stages
<1>2. ASSUME NEW k \in 1 .. N PROVE StageRings[k] \in Rings /\ k \in 1 .. Len(StageRings)
  BY <1>1, Names
<1> QED BY <1>1, <1>2, Names DEF Wired

LEMMA Positions ==
  ASSUME TypeInv, NEW k \in 1 .. N
  PROVE  inputs[k] \in Readers /\ next[inputs[k]] \in 0 .. MaxHead /\ Limit(k) \in Int
<1>1. inputs[k] \in Readers BY Sizes
<1>2. next[inputs[k]] \in 0 .. MaxHead BY <1>1 DEF TypeInv, BroadcastTypeOK
<1> QED BY <1>1, <1>2, MaxHeadAssumption DEF Limit

\* The source message behind a message: a stage's log says it.
LEMMA OriginIs ==
  ASSUME TypeInv, NEW n
  PROVE  /\ Origin(Source, n) = n
         /\ \A k \in 1 .. N : Origin(StageRings[k], n) = log[k][n + 1]
<1>1. Origin(Source, n) = n BY DEF Origin
<1>2. ASSUME NEW k \in 1 .. N PROVE Origin(StageRings[k], n) = log[k][n + 1]
  <2>1. \A j \in Stages : StageRings[j] = StageRings[k] => j = k
    BY Sizes, Names
  <2>2. k \in Stages /\ StageRings[k] # Source BY Sizes, Names
  <2>3. (CHOOSE j \in Stages : StageRings[j] = StageRings[k]) = k
    BY <2>1, <2>2
  <2> QED BY <2>2, <2>3, Zenon DEF Origin
<1> QED BY <1>1, <1>2

\* Later messages of a wired ring come from later source messages.
LEMMA OriginOrder ==
  ASSUME TypeInv, LogInv, NEW r \in Wired, NEW n \in Nat, NEW m \in Nat, n < m, m < head[r]
  PROVE  Origin(r, n) < Origin(r, m)
<1>1. CASE r = Source BY <1>1, OriginIs
<1>2. ASSUME NEW k \in 1 .. N, r = StageRings[k] PROVE Origin(r, n) < Origin(r, m)
  <2>1. Origin(r, n) = log[k][n + 1] /\ Origin(r, m) = log[k][m + 1]
    BY <1>2, OriginIs, Zenon
  <2>2. log[k] \in Seq(Nat) /\ head[r] = Len(log[k])
    BY <1>2 DEF TypeInv, LogInv
  <2>3. n + 1 \in DOMAIN log[k] /\ m + 1 \in DOMAIN log[k] /\ n + 1 < m + 1
    BY <2>2
  <2> QED BY <2>1, <2>3 DEF LogInv
<1> QED BY <1>1, <1>2 DEF Wired

\* A step that only adds to the logs changes no message's origin.
LEMMA OriginKept ==
  ASSUME TypeInv, TypeInv', LogInv, N <= N',
         \A k \in 1 .. N : \A i \in DOMAIN log[k] : log'[k][i] = log[k][i],
         NEW r \in Wired, NEW n \in Nat, n < head[r]
  PROVE  r \in Wired' /\ Origin(r, n)' = Origin(r, n)
<1>n. N \in Nat /\ N' \in Nat
  BY Sizes DEF TypeInv, N
<1>1. CASE r = Source
  BY <1>1 DEF Wired, Origin
<1>2. ASSUME NEW k \in 1 .. N, r = StageRings[k] PROVE r \in Wired' /\ Origin(r, n)' = Origin(r, n)
  <2>1. k \in 1 .. N' BY <1>n
  <2>2. Origin(r, n) = log[k][n + 1] BY <1>2, OriginIs
  <2>3. Origin(r, n)' = log'[k][n + 1]
    <3>1. /\ Stages' = 1 .. N' /\ N' <= Len(StageRings) BY DEF TypeInv, Stages, N
    <3>2. \A j \in Stages' : StageRings[j] = StageRings[k] => j = k
      BY <3>1, <2>1, <1>n, Names
    <3>3. k \in Stages' /\ StageRings[k] # Source BY <3>1, <2>1, <1>n, Names
    <3>4. (CHOOSE j \in Stages' : StageRings[j] = StageRings[k]) = k
      BY <3>2, <3>3
    <3> QED BY <3>3, <3>4, <1>2, Zenon DEF Origin
  <2>4. log[k] \in Seq(Nat) /\ head[r] = Len(log[k])
    BY <1>2 DEF TypeInv, LogInv
  <2>5. n + 1 \in DOMAIN log[k] BY <2>4
  <2>6. r \in Wired' BY <2>1, <1>2 DEF Wired
  <2> QED BY <2>2, <2>3, <2>5, <2>6
<1> QED BY <1>1, <1>2 DEF Wired

----------------------------------------------------------------------------
(* What the steps of the rings do.                                         *)

\* The publisher of a ring: the ring grows, or its cursor catches up.
LEMMA PublishStep ==
  ASSUME BroadcastTypeOK, \A q \in Rings : shown[q] <= head[q],
         NEW r \in Rings, Publish(r) \/ Show(r)
  PROVE  /\ BroadcastTypeOK' /\ \A q \in Rings : shown'[q] <= head'[q]
         /\ \A q \in Rings : q # r => head'[q] = head[q]
         /\ head[r] \in Nat
         /\ Publish(r) => head'[r] = head[r] + 1
         /\ Show(r) => head' = head
         /\ UNCHANGED <<on, next>>
<1>0. head \in [Rings -> 0 .. MaxHead] /\ shown \in [Rings -> 0 .. MaxHead]
  BY DEF BroadcastTypeOK
<1>1. UNCHANGED <<on, gated, start, next, received, lagged>>
  BY DEF Publish, Show
<1>2. CASE Publish(r)
  <2>1. /\ head' \in [Rings -> 0 .. MaxHead] /\ shown' = shown /\ head'[r] = head[r] + 1
        /\ \A q \in Rings : q # r => head'[q] = head[q]
    BY <1>0, <1>2, MaxHeadAssumption DEF Publish
  <2>2. shown'[r] <= head'[r] BY <2>1, <1>0, MaxHeadAssumption
  <2>3. ~Show(r) \/ head' = head BY DEF Show
  <2> QED BY <2>1, <2>2, <2>3, <1>0, <1>1, MaxHeadAssumption DEF BroadcastTypeOK
<1>3. CASE Show(r)
  <2>1. /\ head' = head /\ shown' \in [Rings -> 0 .. MaxHead]
        /\ \A q \in Rings : shown'[q] <= head[q]
    BY <1>0, <1>3, MaxHeadAssumption DEF Show
  <2>2. Publish(r) => head'[r] = head[r] + 1 BY <1>0 DEF Publish
  <2> QED BY <2>1, <2>2, <1>0, <1>1, MaxHeadAssumption DEF BroadcastTypeOK
<1> QED BY <1>2, <1>3

\* try_recv moves the reader on, and not past what is published.
LEMMA ReadStep ==
  ASSUME BroadcastTypeOK, \A q \in Rings : shown[q] <= head[q],
         NEW s \in Readers, Receive(s) \/ Lag(s)
  PROVE  /\ BroadcastTypeOK'
         /\ UNCHANGED <<head, shown, on>>
         /\ \A u \in Readers : u # s => next'[u] = next[u]
         /\ on[s] \in Rings /\ next[s] < next'[s] /\ next'[s] <= head[on[s]]
         /\ Receive(s) => next'[s] = next[s] + 1
<1>0. /\ head \in [Rings -> 0 .. MaxHead] /\ shown \in [Rings -> 0 .. MaxHead]
      /\ on \in [Readers -> Rings \cup {"none"}] /\ next \in [Readers -> 0 .. MaxHead]
      /\ received \in [Readers -> Nat] /\ lagged \in [Readers -> Nat]
  BY DEF BroadcastTypeOK
<1>1. on[s] \in Rings /\ UNCHANGED <<head, shown, on, gated, start>>
  BY <1>0 DEF Receive, Lag
<1>2. /\ head[on[s]] \in 0 .. MaxHead /\ shown[on[s]] \in 0 .. MaxHead
      /\ shown[on[s]] <= head[on[s]] /\ next[s] \in 0 .. MaxHead
  BY <1>0, <1>1
<1>3. /\ next' \in [Readers -> 0 .. MaxHead]
      /\ received' \in [Readers -> Nat] /\ lagged' \in [Readers -> Nat]
      /\ \A u \in Readers : u # s => next'[u] = next[u]
      /\ next[s] < next'[s] /\ next'[s] <= head[on[s]]
  <2>1. CASE Receive(s)
    BY <2>1, <1>0, <1>2, MaxHeadAssumption DEF Receive
  <2>2. CASE Lag(s)
    <3>1. Oldest(on[s]) \in Nat /\ Oldest(on[s]) <= shown[on[s]]
      BY <1>2, DepthAssumption, MaxHeadAssumption DEF Oldest
    <3>2. /\ next' = [next EXCEPT ![s] = Oldest(on[s])] /\ received' = received
          /\ lagged' = [lagged EXCEPT ![s] = @ + Oldest(on[s]) - next[s]]
          /\ next[s] < Oldest(on[s])
      BY <2>2 DEF Lag
    <3> QED BY <3>1, <3>2, <1>0, <1>2, MaxHeadAssumption
  <2> QED BY <2>1, <2>2
<1>4. Receive(s) => next'[s] = next[s] + 1
  BY <1>0 DEF Receive
<1> QED BY <1>1, <1>3, <1>4 DEF BroadcastTypeOK

----------------------------------------------------------------------------
(* Steps that wire nothing.                                                *)

\* What stage k has passed it has still passed when its reader has moved on.
LEMMA PassedKept ==
  ASSUME TypeInv, TypeInv', ReadInv, LogInv, N <= N',
         \A j \in 1 .. N : \A i \in DOMAIN log[j] : log'[j][i] = log[j][i],
         NEW k \in 1 .. N, stagePc[k] # "done",
         log'[k] = log[k], inputs'[k] = inputs[k], on'[inputs[k]] = on[inputs[k]],
         Limit(k) <= Limit(k)', Limit(k)' \in Int
  PROVE  Passed(k)'
<1>0. PICK r : r = on[inputs[k]] OBVIOUS
<1>1. r \in Wired /\ next[inputs[k]] <= head[r] BY <1>0 DEF ReadInv
<1>2. next[inputs[k]] \in Nat /\ head[r] \in Nat
  <2>1. inputs[k] \in Readers /\ r \in Rings BY <1>1, Sizes
  <2> QED BY <2>1, MaxHeadAssumption DEF TypeInv, BroadcastTypeOK
<1>3. Limit(k) \in Int /\ Limit(k) <= head[r]
  BY <1>1, <1>2 DEF Limit
<1>4. Passed(k) BY DEF LogInv
<1> SUFFICES ASSUME NEW i \in DOMAIN log[k]
             PROVE  \E n \in 0 .. MaxHead : n < Limit(k)' /\ log[k][i] = Origin(r, n)'
  BY <1>0 DEF Passed
<1>5. PICK n \in 0 .. MaxHead : n < Limit(k) /\ log[k][i] = Origin(r, n)
  BY <1>0, <1>4 DEF Passed
<1>6. n \in Nat /\ n < head[r] /\ n < Limit(k)'
  BY <1>2, <1>3, <1>5, MaxHeadAssumption
<1>7. Origin(r, n)' = Origin(r, n)
  BY <1>1, <1>6, OriginKept
<1> QED BY <1>5, <1>6, <1>7

\* The readers of the live stages stay on their rings and go forwards, and
\* nobody else's move.
Forward ==
  /\ \A r \in Rings : (\A j \in 1 .. N : inputs[j] # r)
                       => on'[r] = on[r] /\ next'[r] = next[r]
  /\ \A j \in 1 .. N : stagePc'[j] # "done" =>
        /\ stagePc[j] # "done"
        /\ on'[inputs[j]] = on[inputs[j]]
        /\ next'[inputs[j]] <= head'[on[inputs[j]]]
        /\ stagePc'[j] = "run" => next'[inputs[j]] >= 1

LEMMA ReadFrame ==
  ASSUME TypeInv, ReadInv, UNCHANGED inputs, Forward, \A r \in Rings : shown'[r] <= head'[r]
  PROVE  ReadInv'
<1>1. N' = N /\ Wired' = Wired BY DEF N, Wired
<1>2. ASSUME NEW r \in Rings, \A k \in 1 .. N : inputs[k] # r PROVE on'[r] = r /\ next'[r] = 0
  BY <1>2 DEF Forward, ReadInv
<1>3. ASSUME NEW k \in 1 .. N, stagePc'[k] # "done"
      PROVE  /\ on'[inputs[k]] \in Wired
             /\ next'[inputs[k]] <= head'[on'[inputs[k]]]
             /\ stagePc'[k] = "run" => next'[inputs[k]] >= 1
  BY <1>3 DEF Forward, ReadInv
<1> QED BY <1>1, <1>2, <1>3 DEF ReadInv

LEMMA LogFrame ==
  ASSUME TypeInv, TypeInv', ReadInv, LogInv, UNCHANGED <<inputs, log>>, Forward,
         \A k \in DOMAIN StageRings : head'[StageRings[k]] = head[StageRings[k]],
         \A k \in 1 .. N : stagePc'[k] # "done" => Limit(k) <= Limit(k)'
  PROVE  LogInv'
<1>1. N' = N /\ N \in Nat /\ inputs \in [1 .. N -> Readers] BY Sizes DEF N
<1>2. ASSUME NEW k \in 1 .. N, stagePc'[k] # "done" PROVE Passed(k)'
  <2>1. next'[inputs[k]] \in Int
    BY <1>1, MaxHeadAssumption DEF TypeInv, BroadcastTypeOK
  <2>2. Limit(k)' \in Int BY <2>1 DEF Limit
  <2> QED BY <1>1, <1>2, <2>2, PassedKept DEF Forward
<1>3. \A k \in 1 .. N : head'[StageRings[k]] = Len(log'[k])
  BY <1>1, Sizes, Names DEF LogInv
<1>4. \A k \in DOMAIN StageRings : k > N => head'[StageRings[k]] = 0
  BY DEF LogInv
<1>5. \A k \in 1 .. N : \A i, j \in DOMAIN log'[k] : i < j => log'[k][i] < log'[k][j]
  BY DEF LogInv
<1> QED BY <1>1, <1>2, <1>3, <1>4, <1>5 DEF LogInv

\* A reader is not ahead of its ring after the ring has grown either.
LEMMA ReadersBehind ==
  ASSUME TypeInv, ReadInv, NEW k \in 1 .. N, stagePc[k] # "done",
         \A q \in Rings : head[q] \in Int /\ head'[q] \in Int /\ head[q] <= head'[q]
  PROVE  next[inputs[k]] <= head'[on[inputs[k]]]
<1>1. on[inputs[k]] \in Rings /\ next[inputs[k]] <= head[on[inputs[k]]]
  BY Sizes DEF ReadInv
<1>2. next[inputs[k]] \in Int BY Positions, MaxHeadAssumption
<1> QED BY <1>1, <1>2

\* Steps of the builder or the owner that touch neither rings nor stages.
LEMMA QuietStep ==
  ASSUME TypeInv, ReadInv, LogInv, UNCHANGED broadcastVars, UNCHANGED inputs,
         UNCHANGED stageVars, tips' \in Seq(Rings)
  PROVE  TypeInv' /\ ReadInv' /\ LogInv'
<1>1. /\ UNCHANGED <<head, shown, on, gated, start, next, received, lagged>>
      /\ UNCHANGED <<stagePc, status, crashed, log>>
  BY DEF broadcastVars, stageVars
<1>2. TypeInv' BY <1>1, Zenon DEF TypeInv, BroadcastTypeOK, N
<1>3. Forward BY <1>1 DEF Forward, ReadInv
<1>4. \A k \in 1 .. N : Limit(k)' = Limit(k) BY <1>1 DEF Limit
<1>5. \A k \in 1 .. N : Limit(k) <= Limit(k)'
  <2>1. \A k \in 1 .. N : Limit(k) \in Int BY Positions
  <2> QED BY <2>1, <1>4
<1>6. ReadInv' BY <1>1, <1>3, ReadFrame, Zenon DEF ReadInv
<1>7. LogInv' BY <1>1, <1>2, <1>3, <1>5, LogFrame
<1> QED BY <1>2, <1>6, <1>7

LEMMA OwnerStep ==
  ASSUME IInv, Input \/ Build \/ BeginJoin \/ EndJoin
  PROVE  IInv'
<1>0. TypeInv /\ WireInv /\ ReadInv /\ LogInv /\ StatusInv BY DEF IInv
<1>1. UNCHANGED broadcastVars /\ UNCHANGED inputs /\ UNCHANGED stageVars
  BY DEF Input, Build, BeginJoin, EndJoin
<1>2. UNCHANGED <<stagePc, status, crashed>> /\ N' = N /\ Wired' = Wired /\ N \in Nat
  BY <1>0, <1>1, Sizes DEF stageVars, N, Wired
<1>3. CASE Input
  <2>1. tips' = <<Source>> /\ phase = "new" /\ phase' = "stage" BY <1>3 DEF Input
  <2>2. tips' \in Seq(Rings) /\ Len(tips') = 1 /\ DOMAIN tips' = 1 .. 1 /\ tips'[1] = Source
    BY <2>1, Names
  <2>3. N = 0 BY <2>1, <1>0 DEF WireInv
  <2>4. WireInv' BY <2>1, <2>2, <2>3, <1>2 DEF WireInv, Wired
  <2>5. StatusInv' BY <2>1, <1>0, <1>2 DEF StatusInv
  <2> QED BY <2>2, <2>4, <2>5, <1>0, <1>1, QuietStep DEF IInv
<1>4. CASE Build \/ BeginJoin \/ EndJoin
  <2>1. tips' = tips /\ phase' \in {"built", "joining", "joined"}
    BY <1>4 DEF Build, BeginJoin, EndJoin
  <2>2. tips' \in Seq(Rings) BY <2>1, <1>0 DEF TypeInv
  <2>3. WireInv' BY <2>1, <1>0, <1>1, <1>2 DEF WireInv
  <2>4. StatusInv'
    <3>1. CASE EndJoin
      <4>1. /\ phase' = "joined" /\ report' = panicked_stages
            /\ \A k \in 1 .. N : stagePc[k] = "done"
        BY <3>1, <1>0, Sizes DEF EndJoin
      <4>2. panicked_stages = crashed
        <5>1. crashed \subseteq 1 .. N BY <1>0 DEF TypeInv
        <5>2. Stages = 1 .. N BY <1>0, Sizes
        <5> QED BY <4>1, <5>1, <5>2, <1>0, Zenon DEF panicked_stages, StatusInv
      <4> QED BY <4>1, <4>2, <1>0, <1>2 DEF StatusInv
    <3>2. CASE Build \/ BeginJoin
      <4>1. phase' # "joined" BY <3>2 DEF Build, BeginJoin
      <4> QED BY <4>1, <1>0, <1>2 DEF StatusInv
    <3> QED BY <3>1, <3>2, <1>4
  <2> QED BY <2>2, <2>3, <2>4, <1>0, <1>1, QuietStep DEF IInv
<1> QED BY <1>3, <1>4

\* The flag goes up; a stage that has looked at it before reads once more.
LEMMA ShutdownStep ==
  ASSUME IInv, Shutdown
  PROVE  IInv'
<1>0. TypeInv /\ WireInv /\ ReadInv /\ LogInv /\ StatusInv /\ Stages = 1 .. N
  BY Sizes DEF IInv
<1>1. /\ UNCHANGED <<head, shown, on, gated, start, next, received, lagged>>
      /\ UNCHANGED <<phase, tips, inputs, status, crashed, log, report>>
  BY DEF Shutdown, broadcastVars, buildVars
<1>2. N' = N /\ Wired' = Wired BY <1>1 DEF N, Wired
<1>3. PICK late \in SUBSET {k \in Stages : stagePc[k] = "loop"} :
         stagePc' = [k \in Stages |-> IF k \in late THEN "try" ELSE stagePc[k]]
  BY DEF Shutdown
<1>4. /\ stagePc' \in [1 .. N -> StagePcs]
      /\ \A k \in 1 .. N : stagePc'[k] = stagePc[k] \/ (stagePc[k] = "loop" /\ stagePc'[k] = "try")
  <2>1. stagePc \in [1 .. N -> StagePcs] BY <1>0 DEF TypeInv
  <2> QED BY <2>1, <1>0, <1>3 DEF StagePcs
<1>5. TypeInv' BY <1>0, <1>1, <1>2, <1>4, Zenon DEF TypeInv, BroadcastTypeOK
<1>6. WireInv' BY <1>0, <1>1, <1>2 DEF WireInv
<1>7. Forward BY <1>0, <1>1, <1>4, Zenon DEF Forward, ReadInv
<1>8. ReadInv' BY <1>0, <1>1, <1>7, ReadFrame, Zenon DEF ReadInv
<1>9. LogInv'
  <2>1. ASSUME NEW k \in 1 .. N PROVE Limit(k) <= Limit(k)'
    <3>1. Limit(k)' = Limit(k) BY <1>1, <1>4 DEF Limit
    <3>2. Limit(k) \in Int BY <1>0, Positions
    <3> QED BY <3>1, <3>2
  <2> QED BY <2>1, <1>0, <1>1, <1>5, <1>7, LogFrame, Zenon
<1>10. StatusInv'
  <2>1. crashed \subseteq 1 .. N BY <1>0 DEF TypeInv
  <2> QED BY <2>1, <1>0, <1>1, <1>2, <1>4 DEF StatusInv
<1> QED BY <1>5, <1>6, <1>8, <1>9, <1>10 DEF IInv

\* Whoever holds the publisher.
LEMMA PublishSourceStep ==
  ASSUME IInv, PublishSource
  PROVE  IInv'
<1>0. TypeInv /\ WireInv /\ ReadInv /\ LogInv /\ StatusInv BY DEF IInv
<1>1. /\ UNCHANGED <<phase, tips, inputs, stagePc, status, crashed, log, report>>
      /\ Publish(Source) \/ Show(Source)
  BY DEF PublishSource, pipelineVars, buildVars, stageVars
<1>2. N' = N /\ Wired' = Wired BY <1>1 DEF N, Wired
<1>3. /\ BroadcastTypeOK' /\ \A q \in Rings : shown'[q] <= head'[q]
      /\ \A q \in Rings : q # Source => head'[q] = head[q]
      /\ head[Source] \in Nat /\ (head'[Source] = head[Source] + 1 \/ head' = head)
      /\ UNCHANGED <<on, next>>
  <2>1. BroadcastTypeOK /\ \A q \in Rings : shown[q] <= head[q]
    BY <1>0 DEF TypeInv, ReadInv
  <2> QED BY <2>1, <1>1, Names, PublishStep, Zenon
<1>4. TypeInv' BY <1>0, <1>1, <1>2, <1>3, Zenon DEF TypeInv
<1>5. WireInv' BY <1>0, <1>1, <1>2 DEF WireInv
<1>g. \A q \in Rings : head[q] \in Int /\ head'[q] \in Int /\ head[q] <= head'[q]
  <2>1. \A q \in Rings : head[q] \in Int
    BY <1>0, MaxHeadAssumption DEF TypeInv, BroadcastTypeOK
  <2> QED BY <2>1, <1>3
<1>6. Forward
  <2>1. ASSUME NEW j \in 1 .. N, stagePc[j] # "done"
        PROVE  next[inputs[j]] <= head'[on[inputs[j]]]
    BY <2>1, <1>0, <1>g, ReadersBehind, Zenon
  <2> QED BY <2>1, <1>0, <1>1, <1>3, Zenon DEF Forward, ReadInv
<1>7. ReadInv' BY <1>0, <1>1, <1>3, <1>6, ReadFrame
<1>8. LogInv'
  <2>1. \A k \in DOMAIN StageRings : head'[StageRings[k]] = head[StageRings[k]]
    BY <1>3, Names
  <2>2. ASSUME NEW k \in 1 .. N PROVE Limit(k) <= Limit(k)'
    <3>1. Limit(k)' = Limit(k) BY <1>1, <1>3 DEF Limit
    <3>2. Limit(k) \in Int BY <1>0, Positions
    <3> QED BY <3>1, <3>2
  <2> QED BY <2>1, <2>2, <1>0, <1>1, <1>4, <1>6, LogFrame
<1>9. StatusInv' BY <1>0, <1>1, <1>2 DEF StatusInv
<1> QED BY <1>4, <1>5, <1>7, <1>8, <1>9 DEF IInv

----------------------------------------------------------------------------
(* The stage threads.                                                      *)

Statuses == {"running", "completed", "panicked"}

\* A step of stage k that publishes nothing.
LEMMA StageMove ==
  ASSUME IInv, NEW k \in 1 .. N, NEW l \in StagePcs, stagePc[k] # "done", Goto(k, l),
         UNCHANGED buildVars, UNCHANGED log,
         BroadcastTypeOK', \A q \in Rings : shown'[q] <= head'[q], head' = head,
         \A u \in Readers : u # inputs[k] => on'[u] = on[u] /\ next'[u] = next[u],
         l # "done" => /\ on'[inputs[k]] = on[inputs[k]]
                       /\ next'[inputs[k]] <= head[on[inputs[k]]]
                       /\ l = "run" => next'[inputs[k]] >= 1
                       /\ Limit(k) <= Limit(k)',
         status' \in [1 .. N -> Statuses], crashed' \subseteq 1 .. N
  PROVE  TypeInv' /\ WireInv' /\ ReadInv' /\ LogInv'
<1>0. TypeInv /\ WireInv /\ ReadInv /\ LogInv BY DEF IInv
<1>1. UNCHANGED <<phase, tips, inputs>> /\ N' = N /\ Wired' = Wired
  BY Zenon DEF buildVars, N, Wired
<1>2. /\ stagePc' \in [1 .. N -> StagePcs] /\ stagePc'[k] = l
      /\ \A j \in 1 .. N : j # k => stagePc'[j] = stagePc[j]
  BY <1>0, Zenon DEF Goto, TypeInv
<1>3. TypeInv' BY <1>0, <1>1, <1>2, Zenon DEF TypeInv, Statuses
<1>4. WireInv' BY <1>0, <1>1, Zenon DEF WireInv
<1>5. ASSUME NEW j \in 1 .. N, j # k
      PROVE  on'[inputs[j]] = on[inputs[j]] /\ next'[inputs[j]] = next[inputs[j]]
  <2>1. inputs[j] \in Readers BY <1>0, Positions
  <2>2. inputs[j] # inputs[k] BY <1>0, <1>5, Zenon DEF WireInv
  <2> QED BY <2>1, <2>2, Zenon
<1>6. Forward
  <2>1. ASSUME NEW r \in Rings, \A j \in 1 .. N : inputs[j] # r
        PROVE  on'[r] = on[r] /\ next'[r] = next[r]
    BY <2>1, Names, Zenon
  <2>2. ASSUME NEW j \in 1 .. N, stagePc'[j] # "done"
        PROVE  /\ stagePc[j] # "done"
               /\ on'[inputs[j]] = on[inputs[j]]
               /\ next'[inputs[j]] <= head'[on[inputs[j]]]
               /\ stagePc'[j] = "run" => next'[inputs[j]] >= 1
    <3>1. CASE j = k BY <3>1, <2>2, <1>2, Zenon
    <3>2. CASE j # k BY <3>2, <2>2, <1>0, <1>2, <1>5, Zenon DEF ReadInv
    <3> QED BY <3>1, <3>2, Zenon
  <2> QED BY <2>1, <2>2, Zenon DEF Forward
<1>7. ReadInv' BY <1>0, <1>1, <1>6, ReadFrame, Zenon
<1>8. ASSUME NEW j \in 1 .. N, stagePc'[j] # "done" PROVE Limit(j) <= Limit(j)'
  <2>1. CASE j = k BY <2>1, <1>8, <1>2, Zenon
  <2>2. CASE j # k
    <3>1. Limit(j)' = Limit(j) BY <2>2, <1>1, <1>2, <1>5, Zenon DEF Limit
    <3>2. Limit(j) \in Int BY <1>0, Positions, Zenon
    <3> QED BY <3>1, <3>2
  <2> QED BY <2>1, <2>2, Zenon
<1>9. LogInv' BY <1>0, <1>1, <1>3, <1>6, <1>8, LogFrame, Zenon
<1> QED BY <1>3, <1>4, <1>7, <1>9

\* The status of a stage that is not done yet does not count.
LEMMA StatusKept ==
  ASSUME IInv, NEW k \in 1 .. N, NEW l \in StagePcs, stagePc[k] # "done", Goto(k, l),
         UNCHANGED buildVars, UNCHANGED <<status, crashed, report>>,
         l # "done", k \in crashed => l = "end"
  PROVE  StatusInv'
<1>0. TypeInv /\ StatusInv BY DEF IInv
<1>1. UNCHANGED phase /\ N' = N BY DEF buildVars, N
<1>2. /\ stagePc'[k] = l
      /\ \A j \in 1 .. N : j # k => stagePc'[j] = stagePc[j]
  BY <1>0 DEF Goto, TypeInv
<1>3. phase # "joined" BY <1>0 DEF StatusInv
<1>4. crashed \subseteq 1 .. N BY <1>0 DEF TypeInv
<1> QED BY <1>0, <1>1, <1>2, <1>3, <1>4 DEF StatusInv

\* try_recv.
LEMMA StageRecvStep ==
  ASSUME IInv, NEW k \in 1 .. N, StageRecv(k)
  PROVE  IInv'
<1>0. TypeInv /\ WireInv /\ ReadInv /\ LogInv /\ StatusInv BY DEF IInv
<1>1. /\ UNCHANGED buildVars /\ UNCHANGED <<status, crashed, log, report>>
      /\ stagePc[k] \in {"loop", "try"}
  BY DEF StageRecv, FlagDown
<1>2. /\ inputs[k] \in Readers /\ next[inputs[k]] \in 0 .. MaxHead
      /\ BroadcastTypeOK /\ \A q \in Rings : shown[q] <= head[q]
      /\ next[inputs[k]] <= head[on[inputs[k]]]
      /\ status \in [1 .. N -> Statuses] /\ crashed \subseteq 1 .. N
      /\ k \notin crashed
      /\ Limit(k) = next[inputs[k]]
  BY <1>0, <1>1, Positions, Zenon DEF TypeInv, ReadInv, StatusInv, Limit, Statuses
<1>3. PICK l \in {"loop", "run"} :
         /\ Goto(k, l)
         /\ \/ Receive(inputs[k]) /\ l = "run"
            \/ Lag(inputs[k]) /\ l = "loop"
            \/ UNCHANGED broadcastVars /\ l = "loop"
  BY DEF StageRecv
<1>4. /\ BroadcastTypeOK' /\ \A q \in Rings : shown'[q] <= head'[q]
      /\ head' = head
      /\ \A u \in Readers : u # inputs[k] => on'[u] = on[u] /\ next'[u] = next[u]
      /\ on'[inputs[k]] = on[inputs[k]]
      /\ next'[inputs[k]] <= head[on[inputs[k]]]
      /\ next'[inputs[k]] \in Int /\ next[inputs[k]] <= next'[inputs[k]]
      /\ l = "run" => next'[inputs[k]] = next[inputs[k]] + 1
  <2>1. CASE Receive(inputs[k]) \/ Lag(inputs[k])
    <3>1. /\ BroadcastTypeOK'
          /\ UNCHANGED <<head, shown, on>>
          /\ \A u \in Readers : u # inputs[k] => next'[u] = next[u]
          /\ next[inputs[k]] < next'[inputs[k]] /\ next'[inputs[k]] <= head[on[inputs[k]]]
          /\ Receive(inputs[k]) => next'[inputs[k]] = next[inputs[k]] + 1
      BY <2>1, <1>2, ReadStep, Zenon
    <3>2. next'[inputs[k]] \in Int
      BY <3>1, <1>2, MaxHeadAssumption DEF BroadcastTypeOK
    <3>3. l = "run" => Receive(inputs[k]) BY <1>3
    <3> QED BY <3>1, <3>2, <3>3, <1>2, MaxHeadAssumption
  <2>2. CASE UNCHANGED broadcastVars /\ l = "loop"
    <3>1. UNCHANGED <<head, shown, on, gated, start, next, received, lagged>>
      BY <2>2 DEF broadcastVars
    <3>2. BroadcastTypeOK' BY <3>1, <1>2, Zenon DEF BroadcastTypeOK
    <3>3. next[inputs[k]] \in Int BY <1>2, MaxHeadAssumption
    <3>4. next[inputs[k]] <= next[inputs[k]] BY <3>3
    <3> QED BY <3>1, <3>2, <3>3, <3>4, <2>2, <1>2
  <2> QED BY <2>1, <2>2, <1>3, Zenon
<1>5. stagePc'[k] = l /\ UNCHANGED inputs
  BY <1>0, <1>1, <1>3 DEF Goto, TypeInv, buildVars
<1>6. Limit(k) <= Limit(k)' /\ (l = "run" => next'[inputs[k]] >= 1)
  <2>1. Limit(k)' = IF l = "run" THEN next'[inputs[k]] - 1 ELSE next'[inputs[k]]
    BY <1>5, Zenon DEF Limit
  <2>2. /\ next'[inputs[k]] \in Int /\ next[inputs[k]] <= next'[inputs[k]]
        /\ l = "run" => next'[inputs[k]] = next[inputs[k]] + 1
    BY <1>4, Zenon
  <2>3. next[inputs[k]] \in 0 .. MaxHead /\ Limit(k) = next[inputs[k]] BY <1>2, Zenon
  <2>4. next[inputs[k]] \in Nat BY <2>3, MaxHeadAssumption
  <2> QED BY <2>1, <2>2, <2>3, <2>4
<1>7. l \in StagePcs /\ l # "done" BY <1>3 DEF StagePcs
<1>8. TypeInv' /\ WireInv' /\ ReadInv' /\ LogInv'
  BY <1>1, <1>2, <1>3, <1>4, <1>6, <1>7, StageMove, Zenon
<1>9. StatusInv'
  BY <1>1, <1>2, <1>3, <1>7, StatusKept, Zenon
<1> QED BY <1>8, <1>9 DEF IInv

\* The loop ends, by the flag or by a panic: the rings stay as they are.
LEMMA StageLeaves ==
  ASSUME IInv, NEW k \in 1 .. N, StageStop(k) \/ StagePanic(k)
  PROVE  IInv'
<1>0. TypeInv /\ WireInv /\ ReadInv /\ LogInv /\ StatusInv BY DEF IInv
<1>1. /\ UNCHANGED broadcastVars /\ UNCHANGED buildVars /\ UNCHANGED <<status, log, report>>
      /\ Goto(k, "end") /\ stagePc[k] \in {"loop", "run"}
      /\ crashed' = crashed \/ crashed' = crashed \cup {k}
  BY DEF StageStop, StagePanic
<1>2. UNCHANGED <<head, shown, on, gated, start, next, received, lagged>>
      /\ UNCHANGED <<phase, inputs>> /\ N' = N
  BY <1>1 DEF broadcastVars, buildVars, N
<1>3. /\ stagePc'[k] = "end"
      /\ \A j \in 1 .. N : j # k => stagePc'[j] = stagePc[j]
      /\ status' \in [1 .. N -> Statuses] /\ crashed' \subseteq 1 .. N
  BY <1>0, <1>1, Zenon DEF Goto, TypeInv, Statuses
<1>4. Limit(k) <= Limit(k)'
  <2>1. next[inputs[k]] \in 0 .. MaxHead BY <1>0, Positions
  <2>2. Limit(k)' = next[inputs[k]] BY <1>2, <1>3 DEF Limit
  <2>3. Limit(k) \in {next[inputs[k]], next[inputs[k]] - 1} BY DEF Limit
  <2> QED BY <2>1, <2>2, <2>3, MaxHeadAssumption
<1>5. BroadcastTypeOK' /\ \A q \in Rings : shown'[q] <= head'[q]
  BY <1>0, <1>2, Zenon DEF TypeInv, ReadInv, BroadcastTypeOK
<1>6. next'[inputs[k]] <= head[on[inputs[k]]]
  BY <1>0, <1>1, <1>2, Zenon DEF ReadInv
<1>7. TypeInv' /\ WireInv' /\ ReadInv' /\ LogInv'
  <2>1. "end" \in StagePcs BY DEF StagePcs
  <2> QED BY <2>1, <1>1, <1>2, <1>3, <1>4, <1>5, <1>6, StageMove, Zenon
<1>8. StatusInv'
  <2>1. phase # "joined" BY <1>0, <1>1 DEF StatusInv
  <2>2. crashed \subseteq 1 .. N BY <1>0 DEF TypeInv
  <2> QED BY <2>1, <2>2, <1>0, <1>1, <1>2, <1>3, Zenon DEF StatusInv
<1> QED BY <1>7, <1>8 DEF IInv

\* The cursor store of a stage's publish.
LEMMA StageShowStep ==
  ASSUME IInv, NEW k \in 1 .. N, StageShow(k)
  PROVE  IInv'
<1>0. TypeInv /\ WireInv /\ ReadInv /\ LogInv /\ StatusInv BY DEF IInv
<1>1. /\ UNCHANGED buildVars /\ UNCHANGED <<status, crashed, log, report>>
      /\ Goto(k, "loop") /\ stagePc[k] = "show" /\ Show(StageRings[k])
  BY DEF StageShow
<1>2. /\ BroadcastTypeOK' /\ \A q \in Rings : shown'[q] <= head'[q]
      /\ head' = head /\ UNCHANGED <<on, next>>
  <2>1. BroadcastTypeOK /\ (\A q \in Rings : shown[q] <= head[q]) /\ StageRings[k] \in Rings
    BY <1>0, Sizes, Zenon DEF TypeInv, ReadInv
  <2> QED BY <2>1, <1>1, PublishStep, Zenon
<1>3. stagePc'[k] = "loop" /\ UNCHANGED inputs
  BY <1>0, <1>1 DEF Goto, TypeInv, buildVars
<1>4. Limit(k) <= Limit(k)' /\ next'[inputs[k]] <= head[on[inputs[k]]]
  <2>1. next[inputs[k]] \in 0 .. MaxHead BY <1>0, Positions, Zenon
  <2>2. next[inputs[k]] <= head[on[inputs[k]]] BY <1>0, <1>1, Zenon DEF ReadInv
  <2>3. Limit(k) = next[inputs[k]] BY <1>1, Zenon DEF Limit
  <2>4. Limit(k)' = next[inputs[k]] BY <1>2, <1>3, Zenon DEF Limit
  <2> QED BY <2>1, <2>2, <2>3, <2>4, <1>2, MaxHeadAssumption
<1>5. "loop" \in StagePcs BY DEF StagePcs
<1>6. TypeInv' /\ WireInv' /\ ReadInv' /\ LogInv'
  <2>1. status' \in [1 .. N -> Statuses] /\ crashed' \subseteq 1 .. N
    BY <1>0, <1>1 DEF TypeInv, Statuses
  <2> QED BY <2>1, <1>1, <1>2, <1>4, <1>5, StageMove, Zenon
<1>7. StatusInv'
  <2>1. k \notin crashed BY <1>0, <1>1 DEF StatusInv
  <2> QED BY <2>1, <1>1, <1>5, StatusKept
<1> QED BY <1>6, <1>7 DEF IInv

\* The status is stored and the thread ends; its subscriber is gone.
LEMMA StageEndStep ==
  ASSUME IInv, NEW k \in 1 .. N, StageEnd(k)
  PROVE  IInv'
<1>0. TypeInv /\ WireInv /\ ReadInv /\ LogInv /\ StatusInv BY DEF IInv
<1>1. /\ UNCHANGED buildVars /\ UNCHANGED <<crashed, log, report>>
      /\ Goto(k, "done") /\ stagePc[k] = "end" /\ Leave(inputs[k])
      /\ status' = [status EXCEPT ![k] = StageStatus(k)]
  BY DEF StageEnd
<1>2. UNCHANGED phase /\ N' = N BY <1>1 DEF buildVars, N
<1>3. /\ stagePc'[k] = "done"
      /\ \A j \in 1 .. N : j # k => stagePc'[j] = stagePc[j]
      /\ status' \in [1 .. N -> Statuses] /\ status'[k] = StageStatus(k)
      /\ \A j \in 1 .. N : j # k => status'[j] = status[j]
  BY <1>0, <1>1 DEF Goto, TypeInv, Statuses, StageStatus
<1>4. /\ BroadcastTypeOK' /\ \A q \in Rings : shown'[q] <= head'[q]
      /\ head' = head
      /\ \A u \in Readers : u # inputs[k] => on'[u] = on[u] /\ next'[u] = next[u]
  <2>1. inputs[k] \in Readers /\ BroadcastTypeOK BY <1>0, Positions, Zenon DEF TypeInv
  <2>2. UNCHANGED <<head, shown>> BY <1>1 DEF Leave
  <2>3. BroadcastTypeOK'
    BY <2>1, <1>1, MaxHeadAssumption DEF Leave, BroadcastTypeOK
  <2>4. \A u \in Readers : u # inputs[k] => on'[u] = on[u] /\ next'[u] = next[u]
    BY <2>1, <1>1, Zenon DEF Leave, BroadcastTypeOK
  <2> QED BY <2>2, <2>3, <2>4, <1>0, Zenon DEF ReadInv
<1>5. TypeInv' /\ WireInv' /\ ReadInv' /\ LogInv'
  <2>1. "done" \in StagePcs /\ crashed' \subseteq 1 .. N BY <1>0, <1>1 DEF StagePcs, TypeInv
  <2> QED BY <2>1, <1>1, <1>3, <1>4, StageMove, Zenon
<1>6. StatusInv'
  <2>1. phase # "joined" BY <1>0, <1>1 DEF StatusInv
  <2>2. status'[k] = "panicked" <=> k \in crashed BY <1>3 DEF StageStatus
  <2>3. crashed \subseteq 1 .. N BY <1>0 DEF TypeInv
  <2> QED BY <2>1, <2>2, <2>3, <1>0, <1>1, <1>2, <1>3, Zenon DEF StatusInv
<1> QED BY <1>5, <1>6 DEF IInv

\* The closure's result is published: it comes from the message just read, which
\* is later than all that the stage's earlier results came from.
LEMMA StageRunStep ==
  ASSUME IInv, NEW k \in 1 .. N, StageRun(k)
  PROVE  IInv'
<1>0. TypeInv /\ WireInv /\ ReadInv /\ LogInv /\ StatusInv BY DEF IInv
<1>r. PICK r, m, x : r = on[inputs[k]] /\ m = next[inputs[k]] - 1 /\ x = Origin(r, m)
  OBVIOUS
<1>1. /\ UNCHANGED buildVars /\ UNCHANGED <<status, crashed, report>>
      /\ Goto(k, "show") /\ stagePc[k] = "run" /\ Publish(StageRings[k])
      /\ log' = [log EXCEPT ![k] = Append(@, x)]
  BY <1>r DEF StageRun
<1>2. UNCHANGED <<phase, tips, inputs>> /\ N' = N /\ Wired' = Wired
      /\ N \in Nat /\ StageRings[k] \in Rings
  BY <1>0, <1>1, Sizes, Zenon DEF buildVars, N, Wired
<1>3. /\ BroadcastTypeOK' /\ \A q \in Rings : shown'[q] <= head'[q]
      /\ \A q \in Rings : q # StageRings[k] => head'[q] = head[q]
      /\ head[StageRings[k]] \in Nat /\ head'[StageRings[k]] = head[StageRings[k]] + 1
      /\ UNCHANGED <<on, next>>
  <2>1. BroadcastTypeOK /\ \A q \in Rings : shown[q] <= head[q]
    BY <1>0, Zenon DEF TypeInv, ReadInv
  <2> QED BY <2>1, <1>1, <1>2, PublishStep, Zenon
<1>4. /\ r \in Wired /\ r \in Rings /\ m \in Nat /\ m < head[r] /\ head[r] \in Nat
      /\ m + 1 = next[inputs[k]] /\ m <= MaxHead
  <2>1. r \in Wired /\ next[inputs[k]] <= head[r] /\ next[inputs[k]] >= 1
    BY <1>0, <1>1, <1>r, Zenon DEF ReadInv
  <2>2. r \in Rings BY <2>1, <1>0, Sizes, Zenon
  <2>3. head[r] \in 0 .. MaxHead BY <2>2, <1>0 DEF TypeInv, BroadcastTypeOK
  <2>4. next[inputs[k]] \in 0 .. MaxHead BY <1>0, Positions
  <2> QED BY <2>1, <2>2, <2>3, <2>4, <1>r, MaxHeadAssumption
<1>5. x \in Nat
  <2>1. CASE r = Source BY <2>1, <1>0, <1>4, <1>r, OriginIs, Zenon
  <2>2. ASSUME NEW j \in 1 .. N, r = StageRings[j] PROVE x \in Nat
    <3>1. x = log[j][m + 1] BY <2>2, <1>0, <1>r, OriginIs, Zenon
    <3>2. log[j] \in Seq(Nat) /\ head[r] = Len(log[j]) BY <2>2, <1>0, Zenon DEF TypeInv, LogInv
    <3> QED BY <3>1, <3>2, <1>4
  <2> QED BY <2>1, <2>2, <1>4 DEF Wired
<1>6. /\ stagePc' \in [1 .. N -> StagePcs] /\ stagePc'[k] = "show"
      /\ \A j \in 1 .. N : j # k => stagePc'[j] = stagePc[j]
  BY <1>0, <1>1 DEF Goto, TypeInv, StagePcs
<1>7. /\ log[k] \in Seq(Nat) /\ log' \in [1 .. N -> Seq(Nat)]
      /\ log'[k] = Append(log[k], x)
      /\ \A j \in 1 .. N : j # k => log'[j] = log[j]
  <2>1. log \in [1 .. N -> Seq(Nat)] BY <1>0 DEF TypeInv
  <2>2. log[k] \in Seq(Nat) /\ Append(log[k], x) \in Seq(Nat) BY <2>1, <1>5
  <2> QED BY <2>1, <2>2, <1>1
<1>8. /\ Len(log'[k]) = Len(log[k]) + 1 /\ Len(log[k]) \in Nat
      /\ DOMAIN log[k] = 1 .. Len(log[k]) /\ DOMAIN log'[k] = 1 .. Len(log[k]) + 1
      /\ log'[k][Len(log[k]) + 1] = x
      /\ \A i \in DOMAIN log[k] : log'[k][i] = log[k][i]
  BY <1>5, <1>7
<1>9. TypeInv' BY <1>0, <1>1, <1>2, <1>3, <1>6, <1>7, Zenon DEF TypeInv
<1>10. WireInv' BY <1>0, <1>2, Zenon DEF WireInv
<1>g. \A q \in Rings : head[q] \in Int /\ head'[q] \in Int /\ head[q] <= head'[q]
  <2>1. \A q \in Rings : head[q] \in Int
    BY <1>0, MaxHeadAssumption DEF TypeInv, BroadcastTypeOK
  <2> QED BY <2>1, <1>3
<1>11. Forward
  <2>1. ASSUME NEW j \in 1 .. N, stagePc[j] # "done"
        PROVE  next[inputs[j]] <= head'[on[inputs[j]]]
    BY <2>1, <1>0, <1>g, ReadersBehind, Zenon
  <2>2. ASSUME NEW j \in 1 .. N, stagePc'[j] # "done"
        PROVE  stagePc[j] # "done" /\ (stagePc'[j] = "run" => stagePc[j] = "run")
    BY <2>2, <1>1, <1>6
  <2> QED BY <2>1, <2>2, <1>0, <1>3, Zenon DEF Forward, ReadInv
<1>12. ReadInv' BY <1>0, <1>2, <1>3, <1>11, ReadFrame, Zenon
<1>13. \A j \in 1 .. N : \A i \in DOMAIN log[j] : log'[j][i] = log[j][i]
  BY <1>7, <1>8, Zenon
<1>14. ASSUME NEW q \in Wired, NEW n \in Nat, n < head[q]
       PROVE  Origin(q, n)' = Origin(q, n)
  <2>1. N <= N' BY <1>2
  <2> QED BY <2>1, <1>0, <1>9, <1>13, <1>14, OriginKept, Zenon
<1>15. ASSUME NEW i \in DOMAIN log[k]
       PROVE  \E n \in 0 .. MaxHead : n < m /\ log[k][i] = Origin(r, n)
  <2>1. Limit(k) = m BY <1>1, <1>r, Zenon DEF Limit
  <2>2. Passed(k) BY <1>0, <1>1, Zenon DEF LogInv
  <2> QED BY <2>1, <2>2, <1>r, Zenon DEF Passed
<1>16. Passed(k)'
  <2>1. Limit(k)' = m + 1 BY <1>2, <1>3, <1>4, <1>6, Zenon DEF Limit
  <2>2. ASSUME NEW i \in DOMAIN log'[k]
        PROVE  \E n \in 0 .. MaxHead : n < m + 1 /\ log'[k][i] = Origin(r, n)'
    <3>1. CASE i \in DOMAIN log[k]
      <4>1. PICK n \in 0 .. MaxHead : n < m /\ log[k][i] = Origin(r, n) BY <3>1, <1>15
      <4>2. n \in Nat /\ n < head[r] /\ n < m + 1 BY <4>1, <1>4, MaxHeadAssumption
      <4>3. Origin(r, n)' = Origin(r, n) BY <4>2, <1>4, <1>14, Zenon
      <4> QED BY <4>1, <4>2, <4>3, <3>1, <1>8, Zenon
    <3>2. CASE i = Len(log[k]) + 1
      <4>1. Origin(r, m)' = x BY <1>4, <1>14, <1>r, Zenon
      <4>2. m \in 0 .. MaxHead /\ m < m + 1 BY <1>4, MaxHeadAssumption
      <4> QED BY <4>1, <4>2, <3>2, <1>8, Zenon
    <3> QED BY <3>1, <3>2, <1>8
  <2>3. on'[inputs'[k]] = r BY <1>2, <1>3, <1>r, Zenon
  <2> QED BY <2>1, <2>2, <2>3, Zenon DEF Passed
<1>17. ASSUME NEW j \in 1 .. N, stagePc'[j] # "done" PROVE Passed(j)'
  <2>1. CASE j = k BY <2>1, <1>16
  <2>2. CASE j # k
    <3>1. Limit(j)' = Limit(j) BY <2>2, <1>2, <1>3, <1>6, Zenon DEF Limit
    <3>2. Limit(j) \in Int /\ N <= N' BY <1>0, <1>2, Positions
    <3>3. /\ stagePc[j] # "done" /\ log'[j] = log[j] /\ inputs'[j] = inputs[j]
          /\ on'[inputs[j]] = on[inputs[j]] /\ Limit(j) <= Limit(j)' /\ Limit(j)' \in Int
      BY <3>1, <3>2, <2>2, <1>2, <1>3, <1>6, <1>7, <1>17
    <3> QED BY <3>2, <3>3, <1>0, <1>9, <1>13, PassedKept, Zenon
  <2> QED BY <2>1, <2>2
<1>18. ASSUME NEW j \in 1 .. N, NEW a \in DOMAIN log'[j], NEW b \in DOMAIN log'[j], a < b
       PROVE  log'[j][a] < log'[j][b]
  <2>1. CASE j # k \/ b \in DOMAIN log[k]
    <3>1. a \in DOMAIN log[j] /\ b \in DOMAIN log[j] BY <2>1, <1>7, <1>8, <1>18
    <3>2. log[j][a] < log[j][b] BY <3>1, <1>0, <1>18, Zenon DEF LogInv
    <3> QED BY <3>1, <3>2, <1>13, Zenon
  <2>2. CASE j = k /\ b = Len(log[k]) + 1
    <3>1. a \in DOMAIN log[k] BY <2>2, <1>8, <1>18
    <3>2. PICK n \in 0 .. MaxHead : n < m /\ log[k][a] = Origin(r, n) BY <3>1, <1>15, Zenon
    <3>3. n \in Nat BY <3>2, MaxHeadAssumption
    <3>4. Origin(r, n) < x BY <3>2, <3>3, <1>0, <1>4, <1>r, OriginOrder, Zenon
    <3> QED BY <3>1, <3>2, <3>4, <2>2, <1>8, Zenon
  <2> QED BY <2>1, <2>2, <1>8
<1>19. LogInv'
  <2>1. ASSUME NEW j \in 1 .. N PROVE head'[StageRings[j]] = Len(log'[j])
    <3>1. head[StageRings[j]] = Len(log[j]) /\ StageRings[j] \in Rings
      BY <1>0, Sizes, Zenon DEF LogInv
    <3>2. CASE j = k BY <3>1, <3>2, <1>3, <1>8, Zenon
    <3>3. CASE j # k
      <4>1. StageRings[j] # StageRings[k] BY <3>3, <1>0, Sizes, Names
      <4> QED BY <4>1, <3>1, <3>3, <1>3, <1>7, Zenon
    <3> QED BY <3>2, <3>3
  <2>2. ASSUME NEW j \in DOMAIN StageRings, j > N PROVE head'[StageRings[j]] = 0
    <3>1. StageRings[j] # StageRings[k] /\ StageRings[j] \in Rings
      BY <2>2, <1>0, <1>2, Sizes, Names
    <3> QED BY <3>1, <2>2, <1>0, <1>3, Zenon DEF LogInv
  <2> QED BY <2>1, <2>2, <1>2, <1>17, <1>18, Zenon DEF LogInv
<1>20. StatusInv'
  <2>1. k \notin crashed BY <1>0, <1>1 DEF StatusInv
  <2>2. "show" \in StagePcs BY DEF StagePcs
  <2> QED BY <2>1, <2>2, <1>1, StatusKept
<1> QED BY <1>9, <1>10, <1>12, <1>19, <1>20 DEF IInv

----------------------------------------------------------------------------
(* The builder adds stages.                                                *)

\* add_stage, m times: the new stages come after the others, which stay.
LEMMA Added ==
  ASSUME TypeInv, NEW m \in Nat, NEW ins \in [1 .. m -> Readers], AddStages(ins)
  PROVE  /\ N' = N + m /\ N + m <= Len(StageRings)
         /\ inputs' \in Seq(Readers)
         /\ stagePc' \in [1 .. N + m -> StagePcs]
         /\ status' \in [1 .. N + m -> Statuses]
         /\ log' \in [1 .. N + m -> Seq(Nat)]
         /\ \A k \in 1 .. N : /\ inputs'[k] = inputs[k] /\ stagePc'[k] = stagePc[k]
                              /\ status'[k] = status[k] /\ log'[k] = log[k]
         /\ \A i \in 1 .. m : /\ inputs'[N + i] = ins[i] /\ stagePc'[N + i] = "loop"
                              /\ status'[N + i] = "running" /\ log'[N + i] = <<>>
<1>0. /\ N \in Nat /\ inputs \in [1 .. N -> Readers] /\ stagePc \in [1 .. N -> StagePcs]
      /\ status \in [1 .. N -> Statuses] /\ log \in [1 .. N -> Seq(Nat)]
  BY Sizes, Zenon DEF TypeInv, Statuses
<1>1. Len(ins) = m /\ DOMAIN ins = 1 .. m
  <2>1. ins \in Seq(Readers) OBVIOUS
  <2> QED BY <2>1
<1>2. /\ N + m <= Len(StageRings)
      /\ inputs' = inputs \o ins
      /\ stagePc' = stagePc \o [k \in 1 .. m |-> "loop"]
      /\ status' = status \o [k \in 1 .. m |-> "running"]
      /\ log' = log \o [k \in 1 .. m |-> <<>>]
  BY <1>1 DEF AddStages, N
<1>3. /\ inputs' \in [1 .. N + m -> Readers]
      /\ \A k \in 1 .. N : inputs'[k] = inputs[k]
      /\ \A k \in 1 .. m : inputs'[N + k] = ins[k]
  <2>1. Follows(inputs \o ins, inputs, N, ins, m, Readers) BY <1>0, Grow
  <2> QED BY <2>1, <1>2, Zenon DEF Follows
<1>4. inputs' \in Seq(Readers) /\ N' = N + m
  <2>1. N + m \in Nat BY <1>0
  <2>2. \A z \in [1 .. N + m -> Readers] : z \in Seq(Readers) /\ Len(z) = N + m
    BY <2>1
  <2> QED BY <2>2, <1>3 DEF N
<1>5. /\ stagePc' \in [1 .. N + m -> StagePcs]
      /\ \A k \in 1 .. N : stagePc'[k] = stagePc[k]
      /\ \A k \in 1 .. m : stagePc'[N + k] = "loop"
  <2> DEFINE y == [k \in 1 .. m |-> "loop"]
  <2>1. y \in [1 .. m -> StagePcs] /\ \A k \in 1 .. m : y[k] = "loop" BY DEF StagePcs
  <2> HIDE DEF y
  <2>2. stagePc' = stagePc \o y BY <1>2 DEF y
  <2>3. Follows(stagePc \o y, stagePc, N, y, m, StagePcs) BY <2>1, <1>0, Grow, Zenon
  <2> QED BY <2>1, <2>2, <2>3, Zenon DEF Follows
<1>6. /\ status' \in [1 .. N + m -> Statuses]
      /\ \A k \in 1 .. N : status'[k] = status[k]
      /\ \A k \in 1 .. m : status'[N + k] = "running"
  <2> DEFINE y == [k \in 1 .. m |-> "running"]
  <2>1. y \in [1 .. m -> Statuses] /\ \A k \in 1 .. m : y[k] = "running" BY DEF Statuses
  <2> HIDE DEF y
  <2>2. status' = status \o y BY <1>2 DEF y
  <2>3. Follows(status \o y, status, N, y, m, Statuses) BY <2>1, <1>0, Grow, Zenon
  <2> QED BY <2>1, <2>2, <2>3, Zenon DEF Follows
<1>7. /\ log' \in [1 .. N + m -> Seq(Nat)]
      /\ \A k \in 1 .. N : log'[k] = log[k]
      /\ \A k \in 1 .. m : log'[N + k] = <<>>
  <2> DEFINE y == [k \in 1 .. m |-> <<>>]
  <2>1. y \in [1 .. m -> Seq(Nat)] /\ \A k \in 1 .. m : y[k] = <<>> OBVIOUS
  <2> HIDE DEF y
  <2>2. log' = log \o y BY <1>2 DEF y
  <2>3. Follows(log \o y, log, N, y, m, Seq(Nat)) BY <2>1, <1>0, Grow, Zenon
  <2> QED BY <2>1, <2>2, <2>3, Zenon DEF Follows
<1> QED BY <1>2, <1>3, <1>4, <1>5, <1>6, <1>7, Zenon

\* The m subscribers ins are on wired rings and nobody else's, and the step moves
\* no reader that a stage has.
Fresh(ins, m) ==
  /\ \A i \in 1 .. m : /\ ins[i] \in Wired \cup {BranchB}
                       /\ on'[ins[i]] \in Wired
                       /\ next'[ins[i]] <= head[on'[ins[i]]]
                       /\ \A k \in 1 .. N : inputs[k] # ins[i]
  /\ \A i, j \in 1 .. m : ins[i] = ins[j] => i = j
  /\ \A u \in Rings : on'[u] = on[u] /\ next'[u] = next[u]
  /\ \A k \in 1 .. N : /\ on'[inputs[k]] = on[inputs[k]]
                       /\ next'[inputs[k]] = next[inputs[k]]

\* The wiring with m more stages, which read from ins.
Extended(ins, m) ==
  /\ N' = N + m /\ N + m <= Len(StageRings) /\ Wired \subseteq Wired'
  /\ \A k \in 1 .. N' : inputs'[k] \in Wired \cup {BranchB}
  /\ \A k, j \in 1 .. N' : inputs'[k] = inputs'[j] => k = j
  /\ \A k \in 1 .. N' : \/ \E j \in 1 .. N : inputs'[k] = inputs[j]
                        \/ \E i \in 1 .. m : inputs'[k] = ins[i]

\* Adding stages keeps the invariant, if their subscribers are fresh.
LEMMA AddStep ==
  ASSUME IInv, NEW m \in Nat, NEW ins \in [1 .. m -> Readers], AddStages(ins),
         BroadcastTypeOK', UNCHANGED <<head, shown>>, tips' \in Seq(Rings),
         phase' # "joined", Fresh(ins, m)
  PROVE  TypeInv' /\ ReadInv' /\ LogInv' /\ StatusInv' /\ Extended(ins, m)
<1>f. /\ \A i \in 1 .. m : /\ ins[i] \in Wired \cup {BranchB}
                           /\ on'[ins[i]] \in Wired
                           /\ next'[ins[i]] <= head[on'[ins[i]]]
                           /\ \A k \in 1 .. N : inputs[k] # ins[i]
      /\ \A i, j \in 1 .. m : ins[i] = ins[j] => i = j
  BY Zenon DEF Fresh
<1>u. /\ \A u \in Rings : on'[u] = on[u] /\ next'[u] = next[u]
      /\ \A k \in 1 .. N : /\ on'[inputs[k]] = on[inputs[k]]
                           /\ next'[inputs[k]] = next[inputs[k]]
  BY Zenon DEF Fresh
<1>0. TypeInv /\ WireInv /\ ReadInv /\ LogInv /\ StatusInv BY DEF IInv
<1>1. /\ N' = N + m /\ N + m <= Len(StageRings)
      /\ inputs' \in Seq(Readers)
      /\ stagePc' \in [1 .. N + m -> StagePcs]
      /\ status' \in [1 .. N + m -> Statuses]
      /\ log' \in [1 .. N + m -> Seq(Nat)]
      /\ \A k \in 1 .. N : /\ inputs'[k] = inputs[k] /\ stagePc'[k] = stagePc[k]
                           /\ status'[k] = status[k] /\ log'[k] = log[k]
      /\ \A i \in 1 .. m : /\ inputs'[N + i] = ins[i] /\ stagePc'[N + i] = "loop"
                           /\ status'[N + i] = "running" /\ log'[N + i] = <<>>
  BY <1>0, Added, Zenon
<1>o. ASSUME NEW k \in 1 .. N
      PROVE  /\ inputs'[k] = inputs[k] /\ stagePc'[k] = stagePc[k]
             /\ status'[k] = status[k] /\ log'[k] = log[k]
  BY <1>1, Zenon
<1>n. ASSUME NEW k, NEW i \in 1 .. m, k = N + i
      PROVE  /\ inputs'[k] = ins[i] /\ stagePc'[k] = "loop"
             /\ status'[k] = "running" /\ log'[k] = <<>>
  BY <1>1, <1>n, Zenon
<1>2. N \in Nat /\ crashed \subseteq 1 .. N /\ crashed' = crashed
  BY <1>0, Sizes, Zenon DEF TypeInv, AddStages
<1>s. N' = N + m /\ N <= N'
  <2>1. N' = N + m BY <1>1, Zenon
  <2> QED BY <2>1, <1>2
<1>3. ASSUME NEW k \in 1 .. N' PROVE k \in 1 .. N \/ \E i \in 1 .. m : k = N + i
  <2>1. k \in 1 .. N \/ (k - N \in 1 .. m /\ k = N + (k - N)) BY <1>s, <1>2
  <2> QED BY <2>1
<1>4. TypeInv'
  <2>1. crashed' \subseteq 1 .. N + m BY <1>2
  <2> QED BY <2>1, <1>1, Zenon DEF TypeInv, Statuses
<1>5. Wired \subseteq Wired'
  <2>1. 1 .. N \subseteq 1 .. N' BY <1>s, <1>2
  <2> QED BY <2>1, Zenon DEF Wired
<1>6. ASSUME NEW k \in 1 .. N'
      PROVE  /\ inputs'[k] \in Wired \cup {BranchB}
             /\ \/ \E j \in 1 .. N : inputs'[k] = inputs[j]
                \/ \E i \in 1 .. m : inputs'[k] = ins[i]
  <2>1. CASE k \in 1 .. N
    <3>1. inputs[k] \in Wired \cup {BranchB} BY <2>1, <1>0, Zenon DEF WireInv
    <3> QED BY <3>1, <2>1, <1>o, Zenon
  <2>2. ASSUME NEW i \in 1 .. m, k = N + i PROVE inputs'[k] = ins[i]
    BY <2>2, <1>n, Zenon
  <2> QED BY <2>1, <2>2, <1>3, <1>f, Zenon
<1>7. ASSUME NEW k \in 1 .. N', NEW j \in 1 .. N', inputs'[k] = inputs'[j] PROVE k = j
  <2>1. CASE k \in 1 .. N /\ j \in 1 .. N BY <2>1, <1>0, <1>o, <1>7 DEF WireInv
  <2>2. ASSUME NEW i \in 1 .. m, k = N + i, j \in 1 .. N PROVE FALSE
    <3>1. inputs'[k] = ins[i] /\ inputs'[j] = inputs[j] BY <2>2, <1>n, <1>o, Zenon
    <3>2. inputs[j] # ins[i] BY <2>2, <1>f, Zenon
    <3> QED BY <3>1, <3>2, <1>7, Zenon
  <2>3. ASSUME NEW i \in 1 .. m, j = N + i, k \in 1 .. N PROVE FALSE
    <3>1. inputs'[j] = ins[i] /\ inputs'[k] = inputs[k] BY <2>3, <1>n, <1>o, Zenon
    <3>2. inputs[k] # ins[i] BY <2>3, <1>f, Zenon
    <3> QED BY <3>1, <3>2, <1>7, Zenon
  <2>4. ASSUME NEW i \in 1 .. m, NEW l \in 1 .. m, k = N + i, j = N + l PROVE k = j
    <3>1. inputs'[k] = ins[i] /\ inputs'[j] = ins[l] BY <2>4, <1>n, Zenon
    <3> QED BY <3>1, <2>4, <1>7, <1>f, Zenon
  <2> QED BY <2>1, <2>2, <2>3, <2>4, <1>3, Zenon
<1>8. ReadInv'
  <2>1. ASSUME NEW r \in Rings, \A k \in 1 .. N' : inputs'[k] # r
        PROVE  on'[r] = r /\ next'[r] = 0
    <3>1. \A k \in 1 .. N : k \in 1 .. N' BY <1>s, <1>2
    <3>2. \A k \in 1 .. N : inputs[k] # r BY <2>1, <3>1, <1>o, Zenon
    <3> QED BY <3>2, <1>0, <1>u, Zenon DEF ReadInv
  <2>2. ASSUME NEW k \in 1 .. N', stagePc'[k] # "done"
        PROVE  /\ on'[inputs'[k]] \in Wired'
               /\ next'[inputs'[k]] <= head'[on'[inputs'[k]]]
               /\ stagePc'[k] = "run" => next'[inputs'[k]] >= 1
    <3>1. CASE k \in 1 .. N
      <4>1. /\ inputs'[k] = inputs[k] /\ stagePc'[k] = stagePc[k]
            /\ on'[inputs[k]] = on[inputs[k]] /\ next'[inputs[k]] = next[inputs[k]]
        BY <3>1, <1>o, <1>u, Zenon
      <4>2. /\ on[inputs[k]] \in Wired
            /\ next[inputs[k]] <= head[on[inputs[k]]]
            /\ stagePc[k] = "run" => next[inputs[k]] >= 1
        BY <4>1, <3>1, <2>2, <1>0, Zenon DEF ReadInv
      <4> QED BY <4>1, <4>2, <1>5, Zenon
    <3>2. ASSUME NEW i \in 1 .. m, k = N + i
          PROVE  /\ on'[inputs'[k]] \in Wired'
                 /\ next'[inputs'[k]] <= head'[on'[inputs'[k]]]
                 /\ stagePc'[k] = "run" => next'[inputs'[k]] >= 1
      <4>1. inputs'[k] = ins[i] /\ stagePc'[k] = "loop" BY <3>2, <1>n, Zenon
      <4> QED BY <4>1, <1>5, <1>f, Zenon
    <3> QED BY <3>1, <3>2, <1>3, Zenon
  <2> QED BY <2>1, <2>2, <1>0, Zenon DEF ReadInv
<1>9. LogInv'
  <2>1. ASSUME NEW k \in 1 .. N PROVE head'[StageRings[k]] = Len(log'[k])
    <3>1. head[StageRings[k]] = Len(log[k]) BY <1>0, Zenon DEF LogInv
    <3> QED BY <3>1, <1>o, Zenon
  <2>2. ASSUME NEW i \in 1 .. m PROVE head'[StageRings[N + i]] = Len(log'[N + i])
    <3>1. N + i \in DOMAIN StageRings /\ N + i > N
      <4>1. N + m <= Len(StageRings) BY <1>1, Zenon
      <4> QED BY <4>1, <1>2, Names
    <3>2. head[StageRings[N + i]] = 0 BY <3>1, <1>0, Zenon DEF LogInv
    <3>3. Len(log'[N + i]) = 0 BY <1>n
    <3> QED BY <3>2, <3>3
  <2>3. ASSUME NEW k \in DOMAIN StageRings, k > N' PROVE head'[StageRings[k]] = 0
    <3>1. k > N BY <2>3, <1>s, <1>2, Names
    <3> QED BY <3>1, <1>0, Zenon DEF LogInv
  <2>4. ASSUME NEW k \in 1 .. N', NEW a \in DOMAIN log'[k], NEW b \in DOMAIN log'[k], a < b
        PROVE  log'[k][a] < log'[k][b]
    <3>1. CASE k \in 1 .. N BY <3>1, <2>4, <1>0, <1>o, Zenon DEF LogInv
    <3>2. ASSUME NEW i \in 1 .. m, k = N + i PROVE FALSE
      <4>1. log'[k] = <<>> BY <3>2, <1>n, Zenon
      <4>2. DOMAIN log'[k] = {} BY <4>1
      <4> QED BY <4>2, <2>4, Zenon
    <3> QED BY <3>1, <3>2, <1>3, Zenon
  <2>5. ASSUME NEW k \in 1 .. N', stagePc'[k] # "done" PROVE Passed(k)'
    <3>1. CASE k \in 1 .. N
      <4>1. Limit(k)' = Limit(k) /\ Limit(k) \in Int
        BY <3>1, <1>0, <1>o, <1>u, Positions, Zenon DEF Limit
      <4>2. N <= N' /\ stagePc[k] # "done" /\ Limit(k) <= Limit(k)' /\ Limit(k)' \in Int
            /\ log'[k] = log[k] /\ inputs'[k] = inputs[k]
            /\ on'[inputs[k]] = on[inputs[k]]
        <5>1. Limit(k) <= Limit(k)' /\ Limit(k)' \in Int BY <4>1
        <5> QED BY <5>1, <3>1, <2>5, <1>s, <1>o, <1>u, Zenon
      <4>3. \A j \in 1 .. N : \A i \in DOMAIN log[j] : log'[j][i] = log[j][i]
        BY <1>o, Zenon
      <4> QED BY <3>1, <4>2, <4>3, <1>0, <1>4, PassedKept, Zenon
    <3>2. ASSUME NEW i \in 1 .. m, k = N + i PROVE Passed(k)'
      <4>1. DOMAIN log'[k] = {} BY <3>2, <1>n
      <4> QED BY <4>1, Zenon DEF Passed
    <3> QED BY <3>1, <3>2, <1>3
  <2> QED BY <2>1, <2>2, <2>3, <2>4, <2>5, <1>3, Zenon DEF LogInv
<1>10. StatusInv'
  <2>1. ASSUME NEW k \in crashed' PROVE stagePc'[k] \in {"end", "done"}
    <3>1. k \in 1 .. N /\ stagePc[k] \in {"end", "done"} BY <1>0, <1>2 DEF StatusInv
    <3> QED BY <3>1, <1>o, Zenon
  <2>2. ASSUME NEW k \in 1 .. N', stagePc'[k] = "done"
        PROVE  status'[k] = "panicked" <=> k \in crashed'
    <3>1. k \in 1 .. N BY <2>2, <1>n, <1>3, Zenon
    <3>2. stagePc[k] = "done" /\ status'[k] = status[k] BY <3>1, <2>2, <1>o, Zenon
    <3>3. status[k] = "panicked" <=> k \in crashed BY <3>1, <3>2, <1>0 DEF StatusInv
    <3> QED BY <3>2, <3>3, <1>2
  <2> QED BY <2>1, <2>2 DEF StatusInv
<1> QED BY <1>1, <1>4, <1>5, <1>6, <1>7, <1>8, <1>9, <1>10, Zenon DEF Extended

\* The subscriber of a stage that is yet to be added is nobody's.
Unwired(i) ==
  /\ NewTip(i) \in Rings /\ NewTip(i) \notin Wired \cup {BranchB}
  /\ NewTip(i) = StageRings[N + i]
  /\ \A m \in Nat : i <= m /\ N' = N + m => NewTip(i) \in Wired'

LEMMA NewTipFresh ==
  ASSUME TypeInv, NEW i \in Nat, i >= 1, N + i <= Len(StageRings)
  PROVE  Unwired(i)
<1>0. N \in Nat /\ N + i \in 1 .. Len(StageRings) BY Sizes, Names
<1>1. NewTip(i) = StageRings[N + i] BY DEF NewTip, N
<1>2. NewTip(i) \in Rings /\ NewTip(i) # Source /\ NewTip(i) # BranchB
  BY <1>0, <1>1, Names
<1>3. ASSUME NEW k \in 1 .. N PROVE NewTip(i) # StageRings[k]
  <2>1. k \in 1 .. Len(StageRings) /\ k # N + i BY <1>0, Sizes
  <2> QED BY <2>1, <1>0, <1>1, Names, Zenon
<1>4. ASSUME NEW m \in Nat, i <= m, N' = N + m PROVE NewTip(i) \in Wired'
  <2>1. N + i \in 1 .. N' BY <1>0, <1>4
  <2> QED BY <2>1, <1>1 DEF Wired
<1> QED BY <1>1, <1>2, <1>3, <1>4, Zenon DEF Wired, Unwired

\* A tip stands at the beginning of its ring.
LEMMA TipStart ==
  ASSUME IInv, NEW i \in DOMAIN tips
  PROVE  /\ tips[i] \in Wired /\ tips[i] \in Rings /\ tips[i] \in Readers
         /\ tips[i] # BranchB
         /\ on[tips[i]] = tips[i] /\ next[tips[i]] = 0
         /\ next[tips[i]] <= head[tips[i]]
         /\ \A k \in 1 .. N : inputs[k] # tips[i]
<1>0. TypeInv /\ WireInv /\ ReadInv BY DEF IInv
<1>1. tips[i] \in Wired /\ \A k \in 1 .. N : inputs[k] # tips[i] BY <1>0 DEF WireInv
<1>2. tips[i] \in Rings /\ tips[i] \in Readers /\ tips[i] # BranchB
  BY <1>0, <1>1, Sizes, Names, Zenon
<1>3. on[tips[i]] = tips[i] /\ next[tips[i]] = 0 BY <1>0, <1>1, <1>2, Zenon DEF ReadInv
<1>4. head[tips[i]] \in Nat
  BY <1>0, <1>2, MaxHeadAssumption DEF TypeInv, BroadcastTypeOK
<1> QED BY <1>1, <1>2, <1>3, <1>4

\* then and then_a, then_b: the stage takes over tip b, and its own subscriber is
\* the new one.
LEMMA ThenStep ==
  ASSUME IInv, NEW b \in DOMAIN tips, AddStages(<<tips[b]>>),
         tips' = [tips EXCEPT ![b] = NewTip(1)],
         UNCHANGED broadcastVars, UNCHANGED phase, phase \in {"stage", "fan"}
  PROVE  IInv'
<1>a. PICK ins : ins = <<tips[b]>> OBVIOUS
<1>0. TypeInv /\ WireInv /\ N \in Nat /\ tips \in Seq(Rings) BY Sizes, Zenon DEF IInv, TypeInv
<1>1. UNCHANGED <<head, shown, on, gated, start, next, received, lagged>>
  BY DEF broadcastVars
<1>2. /\ tips[b] \in Wired /\ tips[b] \in Rings /\ tips[b] \in Readers
      /\ tips[b] # BranchB /\ on[tips[b]] = tips[b]
      /\ next[tips[b]] <= head[tips[b]]
      /\ \A k \in 1 .. N : inputs[k] # tips[b]
  BY TipStart, Zenon
<1>3. ins \in [1 .. 1 -> Readers] /\ ins[1] = tips[b] BY <1>a, <1>2
<1>4. N + 1 <= Len(StageRings) BY DEF AddStages, N
<1>5. /\ NewTip(1) \in Rings /\ NewTip(1) \notin Wired \cup {BranchB}
      /\ \A m \in Nat : 1 <= m /\ N' = N + m => NewTip(1) \in Wired'
  <2>1. Unwired(1) BY <1>0, <1>4, NewTipFresh
  <2> QED BY <2>1 DEF Unwired
<1>6. /\ tips' \in Seq(Rings) /\ Len(tips') = Len(tips) /\ DOMAIN tips' = DOMAIN tips
      /\ tips'[b] = NewTip(1)
      /\ \A i \in DOMAIN tips : i # b => tips'[i] = tips[i]
  BY <1>0, <1>5
<1>7. BroadcastTypeOK' BY <1>0, <1>1, Zenon DEF TypeInv, BroadcastTypeOK
<1>8. TypeInv' /\ ReadInv' /\ LogInv' /\ StatusInv' /\ Extended(ins, 1)
  <2>1. ASSUME NEW i \in 1 .. 1
        PROVE  /\ ins[i] \in Wired \cup {BranchB}
               /\ on'[ins[i]] \in Wired
               /\ next'[ins[i]] <= head[on'[ins[i]]]
               /\ \A k \in 1 .. N : inputs[k] # ins[i]
    <3>1. ins[i] = tips[b] BY <1>3
    <3> QED BY <3>1, <1>1, <1>2, Zenon
  <2>2. Fresh(ins, 1) BY <2>1, <1>1 DEF Fresh
  <2>3. phase' # "joined" /\ AddStages(ins) BY <1>a
  <2> QED BY <2>2, <2>3, <1>1, <1>3, <1>6, <1>7, AddStep, Zenon
<1>b. /\ N' = N + 1 /\ Wired \subseteq Wired'
      /\ \A k \in 1 .. N' : inputs'[k] \in Wired \cup {BranchB}
      /\ \A k, j \in 1 .. N' : inputs'[k] = inputs'[j] => k = j
      /\ \A k \in 1 .. N' : (\E j \in 1 .. N : inputs'[k] = inputs[j]) \/ inputs'[k] = tips[b]
  <2>1. \A i \in 1 .. 1 : ins[i] = tips[b] BY <1>3
  <2> QED BY <2>1, <1>8, Zenon DEF Extended
<1>9. WireInv'
  <2>1. ASSUME NEW i \in DOMAIN tips'
        PROVE  tips'[i] \in Wired' /\ \A k \in 1 .. N' : inputs'[k] # tips'[i]
    <3>1. CASE i = b BY <3>1, <1>5, <1>6, <1>b
    <3>2. CASE i # b
      <4>1. /\ tips'[i] = tips[i] /\ i \in DOMAIN tips /\ tips[i] # tips[b]
            /\ tips[i] \in Wired /\ \A k \in 1 .. N : inputs[k] # tips[i]
        BY <3>2, <1>0, <1>6, Zenon DEF WireInv
      <4>2. tips[i] \in Wired' BY <4>1, <1>b, Zenon
      <4>3. ASSUME NEW k \in 1 .. N' PROVE inputs'[k] # tips[i] BY <4>1, <1>b, Zenon
      <4> QED BY <4>1, <4>2, <4>3, Zenon
    <3> QED BY <3>1, <3>2
  <2>2. ASSUME NEW i \in DOMAIN tips', NEW j \in DOMAIN tips', tips'[i] = tips'[j] PROVE i = j
    <3>1. CASE i # b /\ j # b BY <3>1, <2>2, <1>0, <1>6, Zenon DEF WireInv
    <3>2. ASSUME NEW l \in DOMAIN tips, l # b PROVE tips'[l] # NewTip(1)
      <4>1. tips'[l] = tips[l] BY <3>2, <1>6, Zenon
      <4>2. tips[l] \in Wired BY <3>2, <1>0, Zenon DEF WireInv
      <4> QED BY <4>1, <4>2, <1>5, Zenon
    <3> QED BY <3>1, <3>2, <2>2, <1>6
  <2>3. ASSUME phase = "stage", NEW k \in 1 .. N' PROVE inputs'[k] # BranchB
    BY <2>3, <1>0, <1>2, <1>b DEF WireInv
  <2>4. (phase = "stage" => Len(tips') = 1) /\ (phase = "fan" => Len(tips') = 2)
    BY <1>0, <1>6, Zenon DEF WireInv
  <2>5. \A k \in 1 .. N' : inputs'[k] \in Wired' \cup {BranchB} BY <1>b, Zenon
  <2> QED BY <2>1, <2>2, <2>3, <2>4, <2>5, <1>b, Zenon DEF WireInv
<1> QED BY <1>8, <1>9 DEF IInv

LEMMA ThenSteps ==
  ASSUME IInv, Then \/ \E b \in {1, 2} : ThenBranch(b)
  PROVE  IInv'
<1>0. WireInv /\ tips \in Seq(Rings) BY DEF IInv, TypeInv
<1>1. CASE Then
  <2>1. Len(tips) = 1 BY <1>0, <1>1, Zenon DEF Then, WireInv
  <2>2. tips = <<tips[1]>> /\ 1 \in DOMAIN tips BY <2>1, <1>0
  <2>3. tips' = [tips EXCEPT ![1] = NewTip(1)]
    <3>1. tips' = <<NewTip(1)>> BY <1>1 DEF Then
    <3>2. \A x : [tips EXCEPT ![1] = x] = <<x>> BY <2>1, <1>0
    <3> QED BY <3>1, <3>2
  <2>4. AddStages(<<tips[1]>>)
    <3>1. AddStages(tips) BY <1>1 DEF Then
    <3> QED BY <3>1, <2>2
  <2>5. UNCHANGED broadcastVars /\ UNCHANGED phase /\ phase = "stage" BY <1>1 DEF Then
  <2> QED BY <2>2, <2>3, <2>4, <2>5, ThenStep, Zenon
<1>2. ASSUME NEW b \in {1, 2}, ThenBranch(b) PROVE IInv'
  <2>1. Len(tips) = 2 BY <1>0, <1>2, Zenon DEF ThenBranch, WireInv
  <2>2. b \in DOMAIN tips BY <2>1, <1>0
  <2>3. /\ AddStages(<<tips[b]>>) /\ tips' = [tips EXCEPT ![b] = NewTip(1)]
        /\ UNCHANGED broadcastVars /\ UNCHANGED phase /\ phase = "fan"
    BY <1>2 DEF ThenBranch
  <2> QED BY <2>2, <2>3, ThenStep, Zenon
<1> QED BY <1>1, <1>2

\* fan_out: branch A takes the tip, branch B a subscriber made for the same ring.
LEMMA FanOutStep ==
  ASSUME IInv, FanOut
  PROVE  IInv'
<1>0. TypeInv /\ WireInv /\ ReadInv /\ N \in Nat BY Sizes DEF IInv
<1>1. /\ phase = "stage" /\ phase' = "fan" /\ JoinHead(BranchB, tips[1], FALSE)
      /\ AddStages(<<tips[1], BranchB>>) /\ tips' = <<NewTip(1), NewTip(2)>>
  BY Zenon DEF FanOut
<1>2. 1 \in DOMAIN tips
  <2>1. Len(tips) = 1 /\ tips \in Seq(Rings) BY <1>0, <1>1, Zenon DEF WireInv, TypeInv
  <2> QED BY <2>1
<1>t. PICK a : a = tips[1] OBVIOUS
<1>3. /\ a \in Wired /\ a \in Rings /\ a \in Readers /\ a # BranchB
      /\ on[a] = a /\ next[a] <= head[a] /\ \A k \in 1 .. N : inputs[k] # a
  BY <1>2, <1>t, TipStart, Zenon
<1>i. PICK ins : ins = <<a, BranchB>> BY Zenon
<1>4. /\ ins \in [1 .. 2 -> Readers] /\ ins[1] = a /\ ins[2] = BranchB
      /\ AddStages(ins) /\ Len(ins) = 2
  BY <1>1, <1>3, <1>i, <1>t, Names
<1>5. N + 2 <= Len(StageRings) BY <1>4 DEF AddStages, N
<1>6. /\ NewTip(1) \in Rings /\ NewTip(1) \notin Wired \cup {BranchB}
      /\ NewTip(1) = StageRings[N + 1]
      /\ \A m \in Nat : 1 <= m /\ N' = N + m => NewTip(1) \in Wired'
  <2>1. N + 1 <= Len(StageRings) BY <1>0, <1>5, Names
  <2>2. Unwired(1) BY <2>1, <1>0, NewTipFresh
  <2> QED BY <2>2 DEF Unwired
<1>7. /\ NewTip(2) \in Rings /\ NewTip(2) \notin Wired \cup {BranchB}
      /\ NewTip(2) = StageRings[N + 2]
      /\ \A m \in Nat : 2 <= m /\ N' = N + m => NewTip(2) \in Wired'
  <2>1. Unwired(2) BY <1>0, <1>5, NewTipFresh
  <2> QED BY <2>1 DEF Unwired
<1>8. NewTip(1) # NewTip(2)
  <2>1. N + 1 \in 1 .. Len(StageRings) /\ N + 2 \in 1 .. Len(StageRings) /\ N + 1 # N + 2
    BY <1>0, <1>5, Names
  <2> QED BY <2>1, <1>6, <1>7, Names, Zenon
<1>9. /\ tips' \in Seq(Rings) /\ Len(tips') = 2 /\ DOMAIN tips' = 1 .. 2
      /\ tips'[1] = NewTip(1) /\ tips'[2] = NewTip(2)
  BY <1>1, <1>6, <1>7
<1>10. /\ UNCHANGED <<head, shown, gated, received, lagged>>
       /\ on' = [on EXCEPT ![BranchB] = a]
       /\ start' = [start EXCEPT ![BranchB] = shown[a]]
       /\ next' = [next EXCEPT ![BranchB] = shown[a]]
  BY <1>1, <1>t, Zenon DEF JoinHead, Join
<1>11. BroadcastTypeOK'
  <2>1. BroadcastTypeOK BY <1>0 DEF TypeInv
  <2>2. shown[a] \in 0 .. MaxHead /\ shown[a] \in -1 .. MaxHead
    BY <2>1, <1>3, MaxHeadAssumption DEF BroadcastTypeOK
  <2>3. /\ on' \in [Readers -> Rings \cup {"none"}]
        /\ next' \in [Readers -> 0 .. MaxHead]
        /\ start' \in [Readers -> -1 .. MaxHead]
    BY <2>1, <2>2, <1>3, <1>10, Zenon DEF BroadcastTypeOK
  <2> QED BY <2>1, <2>3, <1>10, Zenon DEF BroadcastTypeOK
<1>12. /\ on'[BranchB] = a /\ next'[BranchB] = shown[a] /\ shown[a] <= head[a]
       /\ \A u \in Readers : u # BranchB => on'[u] = on[u] /\ next'[u] = next[u]
  BY <1>0, <1>3, <1>10, Names, Zenon DEF TypeInv, BroadcastTypeOK, ReadInv
<1>13. \A k \in 1 .. N : inputs[k] # BranchB /\ inputs[k] \in Readers
  BY <1>0, <1>1, Positions, Zenon DEF WireInv
<1>14. Fresh(ins, 2)
  <2>1. ASSUME NEW i \in 1 .. 2
        PROVE  /\ ins[i] \in Wired \cup {BranchB}
               /\ on'[ins[i]] \in Wired
               /\ next'[ins[i]] <= head[on'[ins[i]]]
               /\ \A k \in 1 .. N : inputs[k] # ins[i]
    <3>1. CASE i = 1 BY <3>1, <1>3, <1>4, <1>12, Zenon
    <3>2. CASE i = 2
      <4>1. ins[i] = BranchB /\ on'[BranchB] \in Wired BY <3>2, <1>3, <1>4, <1>12, Zenon
      <4>2. next'[BranchB] <= head[on'[BranchB]] BY <1>12, Zenon
      <4>3. \A k \in 1 .. N : inputs[k] # BranchB BY <1>13, Zenon
      <4> QED BY <4>1, <4>2, <4>3, Zenon
    <3> QED BY <3>1, <3>2
  <2>2. \A i, j \in 1 .. 2 : ins[i] = ins[j] => i = j BY <1>3, <1>4
  <2>3. \A u \in Rings : on'[u] = on[u] /\ next'[u] = next[u] BY <1>12, Names, Zenon
  <2>4. \A k \in 1 .. N : /\ on'[inputs[k]] = on[inputs[k]]
                          /\ next'[inputs[k]] = next[inputs[k]]
    BY <1>12, <1>13, Zenon
  <2> QED BY <2>1, <2>2, <2>3, <2>4, Zenon DEF Fresh
<1>15. TypeInv' /\ ReadInv' /\ LogInv' /\ StatusInv' /\ Extended(ins, 2)
  BY <1>1, <1>4, <1>9, <1>10, <1>11, <1>14, AddStep, Zenon
<1>16. WireInv'
  <2>1. /\ N' = N + 2 /\ Wired \subseteq Wired'
        /\ \A k \in 1 .. N' : inputs'[k] \in Wired \cup {BranchB}
        /\ \A k, j \in 1 .. N' : inputs'[k] = inputs'[j] => k = j
    BY <1>15, Zenon DEF Extended
  <2>2. ASSUME NEW i \in DOMAIN tips'
        PROVE  tips'[i] \in Wired' /\ \A k \in 1 .. N' : inputs'[k] # tips'[i]
    <3>1. CASE i = 1 BY <3>1, <2>1, <1>6, <1>9
    <3>2. CASE i = 2 BY <3>2, <2>1, <1>7, <1>9
    <3> QED BY <3>1, <3>2, <1>9
  <2>3. \A i, j \in DOMAIN tips' : tips'[i] = tips'[j] => i = j BY <1>8, <1>9
  <2> QED BY <2>1, <2>2, <2>3, <1>1, <1>9, Zenon DEF WireInv
<1> QED BY <1>15, <1>16 DEF IInv

----------------------------------------------------------------------------
(* The theorems.                                                           *)

LEMMA InitIInv == Init => IInv
<1> SUFFICES ASSUME Init PROVE IInv OBVIOUS
<1>1. N = 0 /\ inputs = <<>> /\ tips = <<>> /\ crashed = {} /\ phase = "new"
  BY DEF Init, N
<1>2. head = [r \in Rings |-> 0] /\ shown = head /\ next = [s \in Readers |-> 0]
      /\ on = [s \in Readers |-> IF s \in Rings THEN s ELSE "none"]
  BY Zenon DEF Init
<1>3. BroadcastTypeOK
  BY <1>2, MaxHeadAssumption DEF Init, BroadcastTypeOK
<1>4. TypeInv
  <2>1. stagePc = <<>> /\ status = <<>> /\ log = <<>> BY DEF Init
  <2>2. \A S : <<>> \in [1 .. 0 -> S]
    <3>1. ASSUME NEW S PROVE <<>> \in [1 .. 0 -> S]
      <4>1. 1 .. 0 = {} OBVIOUS
      <4> QED BY <4>1
    <3> QED BY <3>1
  <2> QED BY <2>1, <2>2, <1>1, <1>3, Names DEF TypeInv
<1>5. WireInv BY <1>1 DEF WireInv
<1>6. ReadInv
  <2>1. \A r \in Rings : shown[r] = 0 /\ head[r] = 0 BY <1>2, Zenon
  <2>2. \A r \in Rings : on[r] = r /\ next[r] = 0 BY <1>2, Names, Zenon
  <2> QED BY <2>1, <2>2, <1>1 DEF ReadInv
<1>7. LogInv
  <2>1. \A k \in DOMAIN StageRings : head[StageRings[k]] = 0 BY <1>2, Names
  <2> QED BY <2>1, <1>1 DEF LogInv
<1>8. StatusInv BY <1>1 DEF StatusInv
<1> QED BY <1>4, <1>5, <1>6, <1>7, <1>8 DEF IInv

LEMMA NextIInv == IInv /\ [Next]_vars => IInv'
<1> SUFFICES ASSUME IInv, [Next]_vars PROVE IInv' OBVIOUS
<1>0. Stages = 1 .. N BY Sizes DEF IInv
<1>1. ASSUME NEW k \in Stages, StageStep(k) \/ StagePanic(k) PROVE IInv'
  BY <1>0, <1>1, StageRecvStep, StageLeaves, StageRunStep, StageShowStep, StageEndStep
     DEF StageStep
<1>2. CASE UNCHANGED vars
  <2>1. /\ UNCHANGED broadcastVars /\ UNCHANGED inputs /\ UNCHANGED stageVars
        /\ UNCHANGED <<phase, tips, stagePc, status, crashed, report>>
    BY <1>2, Zenon DEF vars, pipelineVars, buildVars, stageVars
  <2>2. TypeInv' /\ ReadInv' /\ LogInv' BY <2>1, QuietStep DEF IInv, TypeInv
  <2>5. N' = N /\ Wired' = Wired BY <2>1, Zenon DEF N, Wired
  <2>6. WireInv /\ UNCHANGED <<inputs, tips, phase>> BY <2>1, Zenon DEF IInv
  <2>3. WireInv' BY <2>5, <2>6, Zenon DEF WireInv
  <2>4. StatusInv' BY <2>1 DEF IInv, StatusInv, N
  <2> QED BY <2>2, <2>3, <2>4 DEF IInv
<1> QED BY <1>1, <1>2, OwnerStep, ThenSteps, FanOutStep, ShutdownStep, PublishSourceStep DEF Next

\* The invariant holds in every reachable state of every pipeline that the
\* builders can make, while it is being made and afterwards.
THEOREM Invariance == Spec => []IInv
  BY InitIInv, NextIInv, PTL DEF Spec

\* Every stage publishes results in the order of the source messages and none
\* twice, however stages lag, branch, stop or panic (spawn_stage).
THEOREM InOrder == Spec => []ResultsInOrder
<1>1. IInv => ResultsInOrder
  <2> SUFFICES ASSUME IInv PROVE ResultsInOrder OBVIOUS
  <2>1. Stages = 1 .. N /\ LogInv BY Sizes DEF IInv
  <2> QED BY <2>1, Zenon DEF LogInv, ResultsInOrder
<1> QED BY <1>1, Invariance, PTL

\* try_join names exactly the stages whose closure panicked (try_join,
\* panicked_stages, spawn_stage).
THEOREM JoinReports == Spec => []ReportIsExact
<1>1. IInv => ReportIsExact BY DEF IInv, StatusInv, ReportIsExact
<1> QED BY <1>1, Invariance, PTL
=============================================================================
