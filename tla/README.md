# photon-ring: a verification project

TLA+ models of photon-ring's rings and of what is built on them, TLC runs that
check the models on small instances, and TLAPS proofs of the safety properties
for every instance. Source paths below are relative to the crate's directory
(`src/src/` for the main crate, `src/photon-ring-*/src/` for the others);
`PROJECT.json` maps every definition to the lines it models and lists the
hazards with the properties that cover them.

## 1. Inventory

| Component | State | Operations | What makes it correct |
|---|---|---|---|
| Slot index (`ring.rs`, `RingIndex`) | capacity, mask or reciprocal | `new`, `slot` | the multiplication gives the exact remainder |
| Seqlock slot (`slot.rs`) | stamp, payload words | `write`, `write_with`, `try_read`, in an atomic and a volatile build | a copy that is returned is one message, whole |
| Shared ring (`ring.rs`) | slots, cursor, tracker list and its lock, `next_seq` | registration, `slowest_cursor` | the cursor never runs ahead of the slots; registration and scan exclude each other |
| Publisher (`channel/publisher.rs`) | `seq`, `cached_slowest` | `publish`, `publish_with`, `try_publish`, `publish_batch` | bounded: nothing unread is overwritten, and it never blocks for good |
| MpPublisher (`channel/mp_publisher.rs`) | the claimed number | `publish`, `publish_with`: claim, `wait_for_slot`, write, `advance_cursor`, `catch_up_cursor` | one writer per slot; the cursor neither runs ahead nor stays behind |
| Subscriber, Subscribable (`channel/`) | cursor, tracker, totals | four ways to subscribe, `try_recv`, `recv`, `recv_with`, `recv_batch`, `drain`, `latest`, `pending`, gated receive, `Drop` | messages in order, each received or counted as lost, lag never invents a loss |
| Event ring (`event.rs`) | values, cursor, weak trackers | `publish`, `try_publish`, `subscribe`, `process`, drop | the publisher never has a value a subscriber borrows or has still to see |
| Managed consumer (`topology/consumer.rs`) | shutdown flag, status, the batch | the thread's loop, `drain_batch`, `shutdown`, join | ends when asked, drains when asked, a panic does not wedge the publisher |
| Dependency barrier (`barrier.rs`) | upstream trackers | `slowest`, `try_recv_gated`, `recv_gated` | a gated subscriber stays behind its upstreams |
| Pipeline (`topology/`) | stage handles, statuses, flag | `input`, `then`, `fan_out`, `then_a`, `then_b`, `build`, `shutdown`, `join`, `try_join` | every message goes through every stage in order; every stage ends |
| Buses (`bus.rs`, `typed_bus.rs`) | topic map | `publisher`, `try_publisher`, `subscribe`, `subscribable` | a topic is one ring of one type with one publisher |
| Async subscriber (`photon-ring-async`) | spin budget, future | `recv`, `recv_batch`, polls | no lost wake-up, no lost message |
| Metrics (`photon-ring-metrics`) | previous counters | `snapshot`, `delta` | the numbers add up |
| Derive macro (`photon-ring-derive`) | fields, wire struct | `derive(Message)`, `derive(Pod)` | no padding, a message survives the wire |
| Wait strategies, shutdown flag, memory and CPU placement, Pod | none that is shared, or one boolean | | not modelled (section 6) |

**How the parts interact.** Publishers write slots and then move the ring's
cursor. Subscribers read by stamp, not by cursor: the cursor matters to
`subscribe*`, `latest`, `pending` and to the lag computation. On a bounded ring
the publisher also reads the subscribers' trackers, under the lock that
registration and `Drop` take. Consumers, pipeline stages and async tasks are
loops around a subscriber; a barrier reads the trackers of other subscribers of
its ring; buses hand out publishers and subscribers.

**What is hard.** Readers copy a slot while it is rewritten; the cursor is
behind the stamps at the moment a lag is computed; the slowest cursor is cached
and a new subscriber may appear after the scan; publishers of a multi-producer
ring wait for each other's stamps, overwrite them, and move the cursor without
a retry loop; a batch is sized by a snapshot; a barrier's minimum is of no
single moment; a pipeline runs while it is still being wired; a future may be
dropped or polled at any moment.

## 2. Modules

The models come in two layers. The lower one takes one step per access to shared
memory; the upper one composes rings whose calls are atomic, and the refinement
between the two is what allows it.

```
access by access                               call by call
----------------                               ------------
SharedRing <- Subscriber <- SpmcChannel  --refines-->  Broadcast
                  ^           ^    ^    SpmcRefinement   ^ ^ ^ ^ ^
                  |           |  Consumer                | | | | Metrics <- AsyncSubscriber
                  |           |                          | | | Bus  <-------- AsyncBus
                  |        SpmcRefinement                | | Pipeline
                  |                                      | Barrier
             MpmcChannel  --refines (MpmcRefinement)-->  MultiBroadcast

EventChannel   RingIndex   Message
```

An arrow `A <- B` says that B EXTENDS A; AsyncBus extends Bus and
AsyncSubscriber. Proof modules carry the name of what they are about:
`SubscriberProofs` (lemmas both kinds of channels use), `SpmcProofs`,
`SpmcClientProofs` (the refinement, the full ring and the consumer), `MpmcProofs`,
`BarrierProofs`, `PipelineProofs`, `AsyncBusProofs`, and `StandaloneProofs` for
the three that stand alone (RingIndex, Message, EventChannel). An `MC` module
gives one of the models its constants.

* **SharedRing**: the memory the threads share. A slot is a stamp (`2n+1` while
  message n is written, `2n+2` when it is done, 0 before) and payload words. A
  word's value is the number of the message it belongs to, which is what a torn
  read shows in. `Nothing` (-1) stands for `u64::MAX` in the cursor.
* **Subscriber**: every shared access of a call is a step, named by `pc`. The
  calls differ in what they do with an outcome of `read_slot`. Registration
  under the lock takes three steps (lock, load the head, push).
* **SpmcChannel**: `Publisher` with `has_room`, the scan of the trackers one by
  one, the slot write and the cursor store. `publish` polls `HasRoom` until it
  succeeds, `try_publish` gives up; in both the publisher is back at `idle`.
  `publish_batch` repeats the same steps.
* **MpmcChannel**: `MpPublisher`, eleven program points, with the subscribers of
  Subscriber.
* **EventChannel**: the event ring, whose slots are mutated in place and lent to
  the subscribers' closures. Both closures may panic. A subscriber's tracker is
  a weak reference, so drop leaves a dead entry that the next scan prunes.
* **Consumer**: the thread of `Consumer::spawn` on top of SpmcChannel. Its
  subscriber makes the calls the thread makes, with the bounds SpmcChannel puts on
  any client, so that every step of it is a step of SpmcChannel or leaves the
  channel alone. No other subscriber acts.
* **Broadcast**: what a ring promises. A message becomes readable (`Publish`),
  then the cursor covers it (`Show`); subscribers join, receive, lag, jump and
  leave. It has any number of rings, so that modules can compose them.
* **MultiBroadcast**: what a multi-producer ring promises. Messages are claimed,
  then written in any order, each after the one before it in its slot, and
  announced one by one; subscribers are those of Broadcast, except that they
  receive by what is written.
* **SpmcRefinement**, **MpmcRefinement**: the mappings from the two channels to
  these (section 4).
* **Barrier**: upstreams receive in two steps (the read, then the tracker store)
  and handle the message in a third; `try_recv_gated` loads the trackers one by
  one and then reads. A dropped upstream leaves its tracker to the barrier.
* **Pipeline**: builder, stage threads and owner, one ring per stage. What a stage
  publishes is the number of the source message it comes from.
* **Bus**: the topic map of both buses (Photon is a TypedBus of one type), and
  the handles they gave out, which live on outside it. `issued` is a history
  variable: how many publishers each ring ever gave out, dropped ones included,
  which is what `OnePublisherPerRing` counts. `Rings` bounds how many topics can be
  entered (`CanEnter`).
* **AsyncSubscriber**: a task that awaits, is polled, cancels; a poll goes through
  `recv_batch` and the spin loop step by step.
* **Metrics**: `pending`, the counters, snapshots and deltas. **AsyncBus** puts
  Bus, Metrics and AsyncSubscriber together.
* **RingIndex**: `RingIndex::new` and `slot` for a word of any size, with the
  truncations of the code. **Message**: `derive(Message)`, from the fields to
  the layout of the wire struct and the conversions; how many values a primitive
  type has is a parameter (`Half`), and so are the user's types (`UserTypes`: Pod or
  not, size, alignment), which may be the elements of an array or an enum field.
  A field is rejected by `classify` or by the assertions emitted with it (Pod, an
  enum of one byte). **MCAlgorithms** runs both.

### What is abstracted

* *Memory.* Accesses are sequentially consistent, except that the Relaxed payload
  words are stored and loaded in any order. Under this abstraction the two
  builds of `Slot` take the same steps. What the fences add is not checked.
* *Sequence numbers* are bounded by `MaxSeq` or `MaxHead` (the publisher stops
  there), so the wrap-around of a u64 is outside the models. Where subtraction
  could wrap (`head - capacity + 1`, `pending`), the model has the code's guard
  and a mutant without it.
* *`recv`*: the code tries a fast path and then `recv_slow`, which loads the
  stamp again. The model has one loop: the extra load of a fast path that failed
  changes nothing another thread could see. Spinning, `WFE` and prefetching are
  left out.
* *Retry counters and wait strategies* only delay and are left out.
* *`publish_with` of a multi-producer ring*: its closure does not panic, as the
  comment at `channel/mp_publisher.rs:92` asks for. On single-producer rings the
  closure runs before the stamp is touched, so a panic changes nothing.
* *Empty in Broadcast* (`Unreadable`) may be answered when there is no next
  message, or when the next message is the one whose slot is due to be rewritten.
  `EmptyOnlyIfUnreadable` says that SpmcChannel never answers it otherwise.
* *Bytes of a message* in Message: sizes and alignments are the real ones. In the
  runs values range over words of fewer bits in the same order of widths; the
  proofs are for every choice of widths, the real ones among them.

## 3. Runs

| Run | Instance | Checks |
|---|---|---|
| lossy | 1 subscriber, 3 slots, 2 words, 7 messages, every call | `NoTornRead`, `LagSkipsOnlyOverwritten`, `EmptyOnlyIfUnreadable`, `ImplementsBroadcast`, `SubscribersCatchUp` |
| bounded | 2 subscribers, 2 slots, 4 messages, `subscribe` and `subscribe_from_oldest` | `UnreadRetained`, `ImplementsBroadcast`, `SeenSubscribersGate`, `EverythingPublished` |
| mpmc | 3 publishers, 1 subscriber, 2 slots, 3 messages | `OneWriterPerSlot`, `SomebodyRuns`, `CursorCaughtUp`, `NoTornRead`, `ImplementsMultiBroadcast`, `PublishReturns`, `SubscribersCatchUp` |
| event | 3 subscribers, 2 slots, 6 messages, panics | `NoAliasing`, `UnprocessedRetained`, `EverythingPublished` |
| consumer | bounded, 3 slots, 7 messages, both policies, panics, a gating or a lossy subscriber | `DrainLosesNothing`, `BatchEndIsFlagged`, `ShutdownEnds`, `PanicReleases` |
| barrier | 2 upstreams, 1 downstream, 2 slots, 3 messages, lossy or bounded | `NeverAheadOfUpstreams`, `NothingUpstreamsLost`, `GateOpens` |
| pipeline | chains and fan-outs of up to 3 stages, 2 slots, 3 messages, panics | `ResultsInOrder`, `ReportIsExact`, `ShutdownEndsStages`, `EverythingGoesThrough` |
| async_bus | 1 topic, 2 types, 2 rings of 2 slots, 4 messages, 2 subscribers, spin budgets 0 and 1, buffers up to 2 | `OnePublisherPerRing`, `TopicIsOneRing`, `SnapshotFits`, `NothingLeftBehind`, `DeltasAddUp`, `AwaitReturns` |
| algorithms | 10-bit words and capacities up to 64; structs of up to 3 fields of 26 types | `SlotIsRemainder`, `RankedFieldsFit`, `RoundTrips`, `SafeFromIsTotal` |
| latest_none | lossy ring, `latest` | `LatestNoneOnlyBeforeFirst`, violated |
| barrier_finished | as barrier | `UpstreamsFinished`, violated |
| primitives | as algorithms | `PrimitivesFit`, violated |

The comment above each property says what it means. The first nine runs pass: on
these instances the properties hold. Each of them is also shown to depend on the
code: `PROJECT.json` names a mutant of a mapped definition (an off-by-one, a
dropped guard, a missing store) that violates it.

**Bounds.** Two slots are the smallest ring the constructors accept and the one
in which laps come soonest; lossy and consumer have three, so that the slot
count is not a power of two and a batch has a middle. In every run the number
of messages exceeds the number of slots, so that a slot is rewritten while a
reader, a scan or a waiting publisher still relies on its old stamp; lossy,
bounded, event, consumer and async_bus have two full laps. Three publishers on
two slots and three messages are enough for the multi-producer ring's hard case
(one stalled, one waiting for it, a third a lap ahead whose write the second
finds in place of the stamp it waits for). Two payload words are enough for a
torn read, since some two words of a torn copy differ; where the question is
which message a slot holds there is one word, which two writers under one stamp
can still get wrong. One lossy subscriber stands for many, because nobody
reads what a lossy subscriber writes. Three fields and 26 types reach every pair
of neighbours in the layout with something before or after. `MaxReceived` ends
calls of `latest`, which may return one message for ever; in consumer it equals
the number of messages, so that it never binds. All bounds are in
guards; no state constraint and no symmetry is used. `CHECK_DEADLOCK FALSE`
stands where a final state is legitimate: everything published, the thread has
ended, the pipeline was joined, the struct was emitted.

**Fairness.** Threads inside a call run on (weak fairness of their steps): a
publisher polling, a registration under way, a subscriber calling `recv`, a
stage's loop, an executor polling what was woken. Nobody has to publish on a
multi-producer ring or a pipeline, to subscribe, drop, panic, shut down or join.
Three assumptions are stronger.

* EventChannel: strong fairness of a closure's normal return, so that the
  clients' closures may panic any number of times but not for ever.
* Consumer: strong fairness of the thread's `Drop`, which takes a spin lock that
  the publisher of a full ring takes and releases over and over. The lock is
  not a fair one, so the code alone does not guarantee it; without it
  `ShutdownEnds` fails. For the same reason the subscribers of the bounded run
  do not drop.
* Barrier and AsyncBus: strong fairness of a receive that is possible. Broadcast
  allows Empty for the message whose slot is due next; in the code that answer
  is given only while the publisher is inside the write, so not for ever.

### Where a comment and the code disagree

Three runs end in a violation of what a comment or message says.

* latest_none: `latest` "Returns `None` only if nothing has been published yet"
  (`channel/subscriber.rs:183`); it also does when the slot is being rewritten.
* barrier_finished: a barrier ensures "that consumer C only processes event N
  after consumers A and B have both finished it" (`barrier.rs:7`). The tracker
  is stored before `try_recv` returns, so C can have the message while A has
  only received it. What does hold is `NeverAheadOfUpstreams`.
* primitives: `align_rank` does not list `i8`, `i16` and `i32`, which get the
  widest rank. A struct with an `i32` next to a `u64` is laid out with a gap and
  rejected by the generated assertion, whose message blames a type alias
  and asks for "a concrete primitive or array type"
  (`photon-ring-derive/src/lib.rs:671`). `RankedFieldsFit` shows that the layout
  is right for all the other primitive types and arrays of them; arrays of the
  user's own types have the alignment the user gave them.

Other places where the models follow the code and a comment says otherwise; no
run is spent on them:

* `channel/mp_publisher.rs:72`: "With fewer concurrent publishers than slots,
  that wait never triggers". With one publisher stalled on message n and a
  second waiting for n after writing n+1, a third goes once round the ring and
  waits at n's slot. `OneWriterPerSlot` holds because of that wait.
* `channel/constructors.rs:58`: a watermark of `capacity - 1` "blocks when only
  one slot is free"; `has_room` blocks when one slot is occupied.
* `channel/subscribable.rs:30`: `subscribe` sees "only future messages"; on a
  multi-producer ring the cursor may be behind a message whose `publish` has
  returned, and the subscriber starts there.
* `topology/consumer.rs:25`: `Drain` processes "everything already published";
  on a lossy ring a lag uses up an iteration of the last batch, and a message
  still in the ring may be left. `DrainLosesNothing` is about gating subscribers.
* `topology/consumer.rs:35`: the last message of each batch has `end_of_batch`;
  on a lossy ring a batch that ends with a lag or an empty slot has no flagged
  message. `BatchEndIsFlagged` is about gating subscribers.
* `topology/builder.rs:173`: with `fan_out`, "Both stages receive the same input".
  Branch B subscribes at the head when `fan_out` is called, while the stage before
  already runs, so it misses what was published until then.
  `EverythingGoesThrough` asks of it only what came later.

## 4. Refinement

`ImplementsBroadcast` (SpmcRefinement) says that SpmcChannel, access by access,
is Broadcast with one ring. A message is published when its slot is stamped
(`head`), announced when the cursor is stored (`shown`), and received when the
second load of the stamp finds it unchanged; a subscriber exists once it has a
position; the gated subscribers are those made by `subscribe` on a bounded
ring. `start`, the message a subscriber was created at, is a history variable of
both specifications; `latest` sets it to -1, since after a jump nothing is
promised about the distance covered. On a bounded ring the
refinement is for clients that do not call `latest`, which moves a subscriber
back behind its own tracker. TLC checks it in lossy and bounded, and theorem
`Refinement` proves it.

Broadcast promises safety only; what the upper layer assumes of Empty is
`EmptyOnlyIfUnreadable`, which TLC checks in lossy and theorem `EmptyIsTrue`
proves. Barrier, Pipeline and the buses use it for
single-producer rings, the only ones they are built on.

`ImplementsMultiBroadcast` (MpmcRefinement) says the same of MpmcChannel and
MultiBroadcast. A message counts as written once its slot has been stamped with
it, also if a later lap has overwritten it since (`Stamped`); what is announced is
what the cursor covers, whoever moved it. So the cursor passes only written
messages, no message is written twice or before its slot's last one, and a
subscriber receives a message that the cursor does not cover yet, as the code
does. TLC checks it in mpmc, and theorem `Refinement` of MpmcProofs proves it.
What Empty means there is `EmptyOnlyIfUnavailable`, theorem `EmptyIsTrue`.

## 5. Proofs

The theorems hold for every value of the constants that satisfies the `ASSUME`s
of the modules: any capacity from 2 on, any watermark, payload, set of publishers,
subscribers or upstreams, set of calls, number of stages, topics and types, and
number of messages. The assumptions that are not plain typing:

* RingIndex: a mask of low bits selects the remainder by a power of two
  (`AndAssumption`). The size of the word is any number above the largest
  capacity.
* Message: a type of at least the size of another has at least as many values
  (`HalfAssumption`); no type of the user has the name of a primitive one
  (`UserAssumption`).
* Pipeline: the stages' rings are distinct and none is the source
  (`PipelineAssumption`); `spawn_stage` makes a ring per stage.
* The promises of a bounded ring, and with them the Consumer theorems, are for
  clients that do not call `latest`: a hypothesis of the properties or of the
  theorem (`"latest" \notin Calls`). The thread of a consumer never calls it.

| Module | Theorems |
|---|---|
| StandaloneProofs | slot index: `SlotIndexIsRemainder`, `SlotAlwaysRemainder` (`slot` is the remainder for every word size); derive macro: `MacroInvariance`, `WireRoundTrips`, `SafeFromTotal`, `RankedLayoutFits`; event ring: `TypeCorrect`, `NeverAliased`, `EventsRetained` |
| SpmcProofs | `TypeCorrect`, `NeverTorn`, `CursorFollowsSlots`, `BoundedRetains`, `BoundedNeverLags`, `SeenGates`, `TrackersLive`, `Accounting`, `LagIsExact` |
| SpmcClientProofs | `Refinement` (SpmcChannel implements Broadcast), `EmptyIsTrue`, `FullRingCanMove`; consumer: `ConsumerInvariance`, `ConsumerIsClient`, `DrainComplete`, `BatchEnds`, `ConsumerTrackersLive` |
| MpmcProofs | `TypeCorrect`, `WritersExclude`, `CursorFollowsSlots`, `CursorNeverStranded`, `NeverTorn`, `Refinement` (MpmcChannel implements MultiBroadcast), `EmptyIsTrue`, `Accounting`, `LagIsExact`, `NeverAllWaiting` |
| BarrierProofs | `TypeCorrect`, `BehindUpstreams`, `LostUpstreamLostDownstream` |
| PipelineProofs | `InOrder`, `JoinReports` |
| AsyncBusProofs | `SinglePublisher`, `OneRingPerTopic`, `SnapshotsFit`, `AllHandedOver`, `DeltasSum` |

Each model has an inductive invariant `IInv` (theorem `Invariance`), proved from
one lemma per action or per group of actions that change the same things.

**Readers** (SubscriberProofs, used for both channels). `NoTornRead` speaks of the
copy after the second load of the stamp, so it is not inductive. `ContentInv`: a
slot that is done holds one message. `ReaderInv`: a reader between its two loads
has, as long as the stamp is still the one it wants, only words of its message.
`FreshInv`: a subscriber under construction has no history. Publishers
keep `ReaderInv` because a slot's stamp only grows, so a rewritten slot never
shows the wanted stamp again. `SubType` and `SubReads` show that a subscriber's
step keeps these, whoever publishes; `AccountSub`, `LagSub`, `LagSkips` and
`WhoSaysEmpty` do the same for the counters, for the lagged branch of `read_slot` and
for the ways to Empty, so that each channel adds only what its publishers do.

**Single producer** (SpmcProofs). `IInv` consists of

* `SeqlockInv`: the cursor is `seq - 1`, no slot is ahead of the publisher and
  the one it writes says so, and the readers' invariants;
* `EveryMessageAccounted`: received and lagged add up to the distance a
  subscriber has moved;
* `GateInv`, for clients that do not call `latest`: the lock excludes the scan
  from a registration (`LockInv`), a registered tracker is at most its
  subscriber's cursor (`TrackerInv`), a scan's minimum is at most every tracker
  it has read (`ScanInv`), the cached minimum is at most every tracker registered
  at the head, although it was computed before some of them existed
  (`CacheInv`), and once the publisher has found room none of these trackers is
  a ring behind (`RoomInv`).

A subscriber of `subscribe_from_oldest` may be lapped before its tracker is
registered, so `CacheInv` says nothing of it. `SeenSubscribersGate` is what does
hold: after a scan the cached minimum is at most its tracker, stays so, and no
publication begins that would take a slot it has not passed. A scan that ends has read every tracker in the list (`ScanInv`, and the
lock keeps the list as it is), and trackers only grow (`SeenStep`, `TrackerGrows`).

**Refinement.** The extra invariant `LossyInv` says that on a lossy ring nobody
gates the publisher. Every action is shown to be one step of Broadcast or a
stutter: `EndWrite` is `Publish` (which needs `RoomInv`), `StoreCursor` is `Show`,
`Recheck` is `Receive` (which needs that an unchanged stamp means less than a lap),
`SkipLag` is `Lag`, `Latest` is `Jump`.

**Empty.** `try_recv` says Empty from four places, at up to three accesses after the
stamp was loaded. `OwnerInv`: a stamp names a message of its own slot, so one that
is newer is newer by whole laps (`NewerIsLap`, `OddIsLap`). `LagInv`: a slot found
newer than the message wanted stays newer, so the answer given after the cursor
was loaded is still true then.

**A full ring.** `EverythingPublished` is liveness and stays with TLC, for clients
that do not call `latest`. Its safety core is proved for all clients
(`FullRingCanMove`): between two publications, a subscriber whose tracker leaves no
room is about to store the tracker, or the next `read_slot` returns a message or
skips some. `TrackInv`: a tracker is its subscriber's position unless the store
is next, or `latest` has moved the position to a message of the past. A position
in the past finds its message in the slot, or by `OwnerInv` a later one that is a
lap ahead, and then the cursor, which is at `seq - 1` between publications, makes
the lag branch move.

**Consumer.** `ConInv` is the channel's `IInv` and three more. `ThreadInv` relates
the thread's program point to its subscriber's, and says that what shutdown found
is announced. `BatchInv`, for a gated subscriber: what is left of the batch is
published, reaches past what shutdown found if this is the last batch, and a
`try_recv` that is over returned a message. `DoneInv`: a thread that ended by
draining is past what shutdown found, and a batch that is over was flagged.
`ConIsClient` shows that a consumer's step is a client's step, so `IInv` carries
over, and with it every theorem about the channel (`ConsumerIsClient`); `UnreadRetained` then makes every `try_recv` of a batch succeed, and the cap
of `pending` at the capacity never binds (`PendingIs`). That is why counting
calls, as `drain_batch` does, counts messages.

**Many producers.** `IInv` says that claims are distinct (`ClaimInv`), that no slot
is ahead of what was claimed (`BoundInv`), what a publisher knows of its slot at
each program point (`WriterInv`, `StoredInv`), how far `catch_up_cursor` may go
(`ReachInv`), and that every claimed message is done or has a publisher still
writing it (`UnfinishedInv`). The cursor needs `HandoverInv`: whenever a claimed
message is not covered by the cursor, some publisher is `Responsible`. Either it
holds the message next to the cursor and has not given up, or it brought the
cursor to where it is and has not yet seen that there is nothing to absorb. A
publisher that gives up has always seen somebody else become responsible; so when
all are idle the cursor is at the end (`CursorNeverStranded`). `WritersExclude`
follows from `WriterInv`: two numbers of one slot are a lap apart, and the later
one waits for a stamp that the earlier one has not written yet.

The refinement needs that a write's first stamp, which makes the slot odd, loses no
message that counts as written: the slot's stamp was that of the lap before
(`StampedGrows`). The three compare-exchanges are `Announce` or a stutter, `EndWrite`
is `Write`, and `Recheck` is `ReceiveWritten`, since an unchanged stamp means that
the next lap's message is not written.

Publishers wait for the stamp of the lap before and for their predecessor's.
`SomebodyRuns` needs, beyond `IInv`, that message 0 waits for no predecessor
(`PredInv`), and an argument over all publishers: of the messages claimed and not written take the least
(`Least`, from the library's well-founded minimum). Its publisher waits for a smaller
one, which by `UnfinishedInv` is written (`OldestRuns`); and whoever waits for a
predecessor waits for a message of that set (`WaitingForSomebody`). Publishing
therefore never comes to a standstill with everyone polling, whatever the number of
publishers; that each one returns needs fairness and is `PublishReturns`.

**Event ring.** The same gate argument with weak trackers and no stamps: the
cached minimum bounds every live tracker (`CacheInv`), those registered later too,
because they start at the head under the lock; once there is room no live
tracker is a ring behind (`RoomInv`). That the closures' slots differ follows, also
after panics.

**Barrier.** `UpInv`: a tracker is never ahead of its subscriber, and what an
upstream lost is more than a ring behind. `DownInv`: the minimum so far bounds
the trackers loaded, although they have moved on since, and behind the gate
all of them are past the downstream's next message. Trackers only grow, which is
why a minimum of no single moment is good enough.

**Pipeline.** That results are in order is not inductive: the next result has to
come after those already published. `LogInv` adds that what a stage has published
comes from messages before the one it is at (`Passed`, with `Limit` for a stage
that has a message in hand), and that the log is what is in its ring. This needs
`WireInv` (every stage has a subscriber of its own, which the builder hands out
once, while earlier stages already run) and `ReadInv` (a subscriber not yet handed
out is at the beginning of its ring, others are not ahead of theirs). Order along a
path follows since the log of the stage before is itself increasing. `StatusInv`:
a thread that is done has its panic in its status, so the report of `try_join`
is what happened.

**Buses, async subscriber, metrics.** They touch each other through the rings
only, so the invariant has a part for each. `RingInv`: a subscriber's counters say
how far it came, and it is not ahead of its ring. `BusInv`: no two topics share a
ring, a ring was made for one type, an entry with its publisher inside has never
given it out, no ring ever gave out two, and one not entered yet none
(`IssuedOK`), and every handle leads back to the entry it came from. `MetricsInv`:
the deltas handed out add up to the baseline. `AsyncInv`: what a poll has received
and not delivered is in the buffer it fills, never more than the buffer holds, and
the buffer is empty when no poll is filling it.

**Derive macro.** Every conversion of a field is a cast or a pair of casts.
`CastBack`: a cast to a type as wide or wider, and back, is the identity for the
pairs of types that the macro generates, by the arithmetic of remainders and
without knowing the width. `MacroInv`: a struct that was not rejected has only supported fields, and its enum fields
were noticed; so the safe `From` is generated only where every bit pattern is a
value.

`RankedLayoutFits` says what the sort by rank and the padding achieve, for structs of
any number of fields. The size of a struct is a recursive function over its
fields. The library's induction theorems cannot be used with these provers, so the
induction is over sets: `Least` gives `UpToInduction` (a set of numbers that has 0
and is closed under successor has all), and from that `StepsMakeFunction`, that a
function given by a first value and a step exists, which makes the recursive
definitions mean what they say (`Sums`, `Ends`, `RankedIn`). `FitInv`: the entry of a
field that `align_rank` lists has the rank of its size. Ordered by rank, every entry
then ends at a multiple of its own unit, which is a multiple of the next one's
(`NoGaps`, `UnitsDivide`), so there is no gap between two entries, and `TAIL_PAD`
fills the last (`PadFills`).

**Only model-checked.** Liveness (`SubscribersCatchUp`, `EverythingPublished`,
`PublishReturns`, `ShutdownEnds`, `PanicReleases`, `GateOpens`,
`ShutdownEndsStages`, `EverythingGoesThrough`, `AwaitReturns`): fairness and
ENABLED are out of the prover's reach. All the invariants and action properties of
the passing runs, and both refinements, are proved.

## 6. Not modelled

* *Wait strategies* (`wait.rs`): delays between two polls. They share no state and
  do not change what a poll returns.
* *Shutdown flag* (`shutdown.rs`): one boolean for users' own loops. The flags that
  the crate's threads read are in Consumer and Pipeline.
* *Memory and CPU placement* (`mem.rs`, `affinity.rs`): system calls on whose
  results the rings do not depend. `mlock` and `prefault` belong here.
* *Pod* (`pod.rs`): a marker trait. Of `derive(Pod)` and `derive(Message)` the
  handling of tokens and of generics is left out.
* *Fences and weak memory*: TLC and TLAPS see sequentially consistent steps. The
  orderings in `slot.rs` would need a model of the memory itself.
* *The wrap-around of a 64-bit sequence number*.
* *A closure that panics inside `MpPublisher::publish_with`*: the comment forbids
  it, and every later publisher would wait for it.
* *Fairness of the tracker lock*: see section 3.
