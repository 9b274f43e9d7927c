------------------------------ MODULE Pipeline ------------------------------
(***************************************************************************)
(* The pipelines of src/topology: PipelineBuilder, StageBuilder and        *)
(* FanOutBuilder wire stages to lossy rings while stages already run, each *)
(* on a thread of its own, and Pipeline shuts them down and joins them.    *)
(*                                                                         *)
(* add_stage creates a ring and its first subscriber together, so that     *)
(* subscriber is named like its ring and stands at 0 from the start; stage *)
(* k publishes on StageRings[k].  What a stage publishes is represented by *)
(* the number of the source message it was computed from.                  *)
(*                                                                         *)
(* A stage thread: loop (look at the flag, then try_recv), try (try_recv,  *)
(* where the flag has changed since it was looked at), run (the closure,   *)
(* then Slot::write), show (the cursor store), end (the closure of         *)
(* catch_unwind is left), done (the status is stored, the thread is        *)
(* finished).  Empty, in loop, changes nothing and is not a step.          *)
(***************************************************************************)
EXTENDS Broadcast, Sequences, Functions

CONSTANTS
  Source,       \* the input ring
  StageRings,   \* the output rings of the stages, in the order of the stages
  BranchB       \* the subscriber that fan_out makes for its second branch

ASSUME PipelineAssumption ==
  /\ StageRings \in Seq(Rings)
  /\ Rings = {Source} \cup Range(StageRings)
  /\ Readers = Rings \cup {BranchB}
  /\ BranchB \notin Rings /\ Source \notin Range(StageRings)
  /\ IsInjective(StageRings)

VARIABLES
  phase,      \* the builder's, then the Pipeline's life
  tips,       \* the subscribers the builder holds: one, or one per branch
  inputs,     \* stage -> the subscriber it reads from
  stagePc,    \* stage -> what its thread does next
  status,     \* stage -> the status it has stored
  crashed,    \* the stages whose closure panicked
  log,        \* stage -> what it has published
  shutdown,   \* the shutdown flag
  report      \* what try_join returned

buildVars    == <<phase, tips, inputs>>
stageVars    == <<stagePc, status, crashed, log>>
pipelineVars == <<buildVars, stageVars, shutdown, report>>
vars         == <<broadcastVars, pipelineVars>>

Stages == DOMAIN inputs

Init ==
  /\ head = [r \in Rings |-> 0] /\ shown = head
  /\ on = [s \in Readers |-> IF s \in Rings THEN s ELSE "none"]
  /\ gated = {}
  /\ start = [s \in Readers |-> 0] /\ next = start
  /\ received = start /\ lagged = start
  /\ phase = "new" /\ tips = <<>> /\ inputs = <<>>
  /\ stagePc = <<>> /\ status = <<>> /\ crashed = {} /\ log = <<>>
  /\ shutdown = FALSE /\ report = {}

----------------------------------------------------------------------------
(* The builder's thread.  A builder that is dropped leaves its stages      *)
(* running: nothing sets their flag.                                       *)

\* add_stage, once for each subscriber in ins: the stages start at once.
AddStages(ins) ==
  /\ Len(inputs) + Len(ins) <= Len(StageRings)
  /\ inputs' = inputs \o ins
  /\ stagePc' = stagePc \o [k \in DOMAIN ins |-> "loop"]
  /\ status' = status \o [k \in DOMAIN ins |-> "running"]
  /\ log' = log \o [k \in DOMAIN ins |-> <<>>]
  /\ UNCHANGED <<crashed, shutdown, report>>

\* The subscriber of the i-th stage to be added.
NewTip(i) == StageRings[Len(inputs) + i]

\* PipelineBuilder::input.
Input ==
  /\ phase = "new"
  /\ phase' = "stage"
  /\ tips' = <<Source>>
  /\ UNCHANGED <<broadcastVars, inputs, stageVars, shutdown, report>>

\* then, then_with.
Then ==
  /\ phase = "stage"
  /\ AddStages(tips)
  /\ tips' = <<NewTip(1)>>
  /\ UNCHANGED <<broadcastVars, phase>>

\* fan_out: branch A takes the subscriber there is, branch B makes one.
FanOut ==
  /\ phase = "stage"
  /\ JoinHead(BranchB, tips[1], FALSE)
  /\ AddStages(<<tips[1], BranchB>>)
  /\ tips' = <<NewTip(1), NewTip(2)>>
  /\ phase' = "fan"

\* then_a, then_b and their _with forms.
ThenBranch(b) ==
  /\ phase = "fan"
  /\ AddStages(<<tips[b]>>)
  /\ tips' = [tips EXCEPT ![b] = NewTip(1)]
  /\ UNCHANGED <<broadcastVars, phase>>

\* build of either builder.
Build ==
  /\ phase \in {"stage", "fan"}
  /\ phase' = "built"
  /\ UNCHANGED <<broadcastVars, tips, inputs, stageVars, shutdown, report>>

----------------------------------------------------------------------------
(* The owner of the Pipeline.                                              *)

\* shutdown, and Drop for Pipeline, after which there is nobody to join.  A stage
\* between its load of the flag and try_recv (late) still reads once more.
Shutdown ==
  /\ phase = "built" /\ ~shutdown
  /\ shutdown' = TRUE
  /\ \E late \in SUBSET {k \in Stages : stagePc[k] = "loop"} :
        stagePc' = [k \in Stages |-> IF k \in late THEN "try" ELSE stagePc[k]]
  /\ UNCHANGED <<broadcastVars, buildVars, status, crashed, log, report>>

\* join and try_join wait for the threads,
BeginJoin ==
  /\ phase = "built"
  /\ phase' = "joining"
  /\ UNCHANGED <<broadcastVars, tips, inputs, stageVars, shutdown, report>>

panicked_stages == {k \in Stages : status[k] = "panicked"}
is_healthy      == \A k \in Stages : status[k] = "running"

\* and then read the statuses; the Pipeline is dropped.
EndJoin ==
  /\ phase = "joining"
  /\ \A k \in Stages : stagePc[k] = "done"
  /\ phase' = "joined"
  /\ report' = panicked_stages
  /\ shutdown' = TRUE
  /\ UNCHANGED <<broadcastVars, tips, inputs, stageVars>>

----------------------------------------------------------------------------
(* The threads: whoever holds the Publisher, and the stages.               *)

PublishSource ==
  /\ phase # "new"
  /\ Publish(Source) \/ Show(Source)
  /\ UNCHANGED pipelineVars

Goto(k, l) == stagePc' = [stagePc EXCEPT ![k] = l]

\* The source message behind message n of a ring.
Origin(r, n) ==
  IF r = Source THEN n
  ELSE log[CHOOSE k \in Stages : StageRings[k] = r][n + 1]

\* The stage has loaded the flag and found it down.
FlagDown(k) == stagePc[k] = "try" \/ (stagePc[k] = "loop" /\ ~shutdown)

\* Mutant of StageRecv: an empty ring ends the loop.
StageRecvOrEnd(k) ==
  /\ FlagDown(k)
  /\ \/ Receive(inputs[k]) /\ Goto(k, "run")
     \/ Lag(inputs[k]) /\ Goto(k, "loop")
     \/ Unreadable(inputs[k]) /\ Goto(k, "end") /\ UNCHANGED broadcastVars
  /\ UNCHANGED <<buildVars, status, crashed, log, shutdown, report>>

\* try_recv returns a message, Lagged or Empty.
StageRecv(k) ==
  /\ FlagDown(k)
  /\ \/ Receive(inputs[k]) /\ Goto(k, "run")
     \/ Lag(inputs[k]) /\ Goto(k, "loop")
     \/ /\ stagePc[k] = "try" /\ Unreadable(inputs[k])
        /\ Goto(k, "loop")
        /\ UNCHANGED broadcastVars
  /\ UNCHANGED <<buildVars, status, crashed, log, shutdown, report>>

\* Mutant of StageStop: the flag is looked at only when the ring is empty.
StageStopEmpty(k) ==
  /\ stagePc[k] = "loop"
  /\ shutdown /\ next[inputs[k]] = head[on[inputs[k]]]
  /\ Goto(k, "end")
  /\ UNCHANGED <<broadcastVars, buildVars, status, crashed, log, shutdown, report>>

\* The loop, when the flag is up.
StageStop(k) ==
  /\ stagePc[k] = "loop"
  /\ shutdown
  /\ Goto(k, "end")
  /\ UNCHANGED <<broadcastVars, buildVars, status, crashed, log, shutdown, report>>

\* The closure f returns, and publish writes the slot.
StageRun(k) ==
  LET i == inputs[k]
  IN  /\ stagePc[k] = "run"
      /\ Publish(StageRings[k])
      /\ log' = [log EXCEPT ![k] = Append(@, Origin(on[i], next[i] - 1))]
      /\ Goto(k, "show")
      /\ UNCHANGED <<buildVars, status, crashed, shutdown, report>>

\* It panics.
StagePanic(k) ==
  /\ stagePc[k] = "run"
  /\ crashed' = crashed \cup {k}
  /\ Goto(k, "end")
  /\ UNCHANGED <<broadcastVars, buildVars, status, log, shutdown, report>>

\* Mutant of StageShow: the same value is published again.
StageShowTwice(k) ==
  /\ stagePc[k] = "show"
  /\ Show(StageRings[k])
  /\ Goto(k, "run")
  /\ UNCHANGED <<buildVars, status, crashed, log, shutdown, report>>

StageShow(k) ==
  /\ stagePc[k] = "show"
  /\ Show(StageRings[k])
  /\ Goto(k, "loop")
  /\ UNCHANGED <<buildVars, status, crashed, log, shutdown, report>>

\* Mutant of StageStatus: catch_unwind's result is not looked at.
AlwaysCompleted(k) == "completed"

\* What catch_unwind's result becomes.
StageStatus(k) == IF k \in crashed THEN "panicked" ELSE "completed"

\* The status is stored, the thread's subscriber is dropped, and the thread ends.
StageEnd(k) ==
  /\ stagePc[k] = "end"
  /\ status' = [status EXCEPT ![k] = StageStatus(k)]
  /\ Leave(inputs[k])
  /\ Goto(k, "done")
  /\ UNCHANGED <<buildVars, crashed, log, shutdown, report>>

StageStep(k) ==
  \/ StageRecv(k)
  \/ StageStop(k)
  \/ StageRun(k)
  \/ StageShow(k)
  \/ StageEnd(k)

Next ==
  \/ Input \/ Then \/ FanOut \/ (\E b \in {1, 2} : ThenBranch(b)) \/ Build
  \/ Shutdown \/ BeginJoin \/ EndJoin
  \/ PublishSource
  \/ \E k \in Stages : StageStep(k) \/ StagePanic(k)

Spec == Init /\ [][Next]_vars

\* Stage threads run and their closures return; a publish that began ends; join
\* returns when it can.  Nobody has to publish, panic, shut down or join.
FairSpec ==
  /\ Spec
  /\ WF_vars(Show(Source) /\ UNCHANGED pipelineVars)
  /\ \A k \in DOMAIN StageRings : WF_vars(k \in Stages /\ StageStep(k))
  /\ WF_vars(EndJoin)

----------------------------------------------------------------------------
(* Properties.                                                             *)

\* However stages lag, a stage publishes results in the order of the source
\* messages and none twice (spawn_stage's loop; examples/pipeline.rs checks it).
ResultsInOrder ==
  \A k \in Stages : \A i, j \in DOMAIN log[k] :
     i < j => log[k][i] < log[k][j]

\* try_join names exactly the stages that panicked: every thread stores its
\* status before it can be joined (spawn_stage, try_join, panicked_stages).
ReportIsExact == phase = "joined" => report = crashed

\* After shutdown, or after the Pipeline was dropped, every stage thread ends and
\* a join returns, whatever was left in the rings and whoever panicked
\* (spawn_stage, shutdown, Drop for Pipeline, join).
ShutdownEndsStages ==
  shutdown
    ~> phase # "joining" /\ \A k \in Stages : stagePc[k] = "done"

\* The ring stage k reads, and the stages k's input has passed through.
ParentRing(k) == IF inputs[k] = BranchB THEN inputs[k - 1] ELSE inputs[k]
Path[k \in Stages] ==
  {k} \cup UNION {Path[j] : j \in {i \in 1 .. k - 1 : StageRings[i] = ParentRing(k)}}

\* The source messages that had passed before branch B was subscribed.
BeforeBranchB ==
  IF on[BranchB] = "none" THEN {}
  ELSE {Origin(on[BranchB], n) : n \in 0 .. start[BranchB] - 1}

\* Up to the capacity, every message goes through every stage: no builder step
\* loses what is published while the pipeline is being wired.  The exceptions are
\* what the code says: shutdown, a panic on the way, and messages that had passed
\* when fan_out subscribed its second branch (add_stage, fan_out, spawn_stage).
EverythingGoesThrough ==
  \A m \in 0 .. Depth - 1 :
     head[Source] > m
       ~> \/ shutdown \/ head[Source] > Depth
          \/ \A k \in Stages :
                \/ m \in Range(log[k])
                \/ crashed \cap Path[k] # {}
                \/ m \in BeforeBranchB /\ \E j \in Path[k] : inputs[j] = BranchB
=============================================================================
