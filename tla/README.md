# A TLA+ model of imps

`imps` is a Go harness for event-driven agents on NATS. An *imp* declares
channels (core-NATS subjects or JetStream streams), a fast *awareness* function
that gives each message a verdict (ignore, note, think), and a slow *thinking*
function that runs in a goroutine of its own. The harness owns everything in
between: lifecycle, subscriptions, dispatch, acks, per-entity state, requests to
other services, and optional durable state with sleep and wake.

The modules here model the parts of the harness that carry its logic, state what
each promises, check those promises with TLC on small instances, and prove the
most important ones with TLAPS for every value of the constants. Paths below are
relative to the repository root.

## The system

| Part | State | Operations | Meets |
|---|---|---|---|
| State registry (`registry.go`, `state.go`) | per shape: a `sync.Map` of slots, an atomic counter; per slot: a mutex and a value | `ref`, `Get`, `Set`, `Update` | every awareness and thinking goroutine, concurrently |
| Lifecycle (`imp.go`, `start.go`, `thinking.go`, `internal/lifecycle`) | runtime bag behind a Once, state machine, bound channels, WaitGroup, `stopped` channel | `Run`, `Shutdown`, `Ready` | callbacks and thinking goroutines; the NATS client |
| Stream binding (`stream.go`) | consumers on the server, consume loops | bind, resolve or create, tear down | JetStream; called from start and unwind |
| Pipeline (`dispatch.go`, `stream.go`, `note.go`, `verdict.go`) | the message in hand, the metrics | decode, extract, awareness, ack or NAK, branch | the consumer's redelivery; the registry; thinking |
| Durable store (`persist/`) | resident LRU map under one mutex; a KV bucket | `Get`, `Update`, `Delete` | a backend that fails, ambiguously too; process restarts |
| Sleep beacon (`persist/beacon.go`) | one stamp in the bucket | `Stamp`, `SleptFor` | shares the bucket's key space |
| Requests (`request.go`) | two contexts; an inbox, a buffer, a timer | `Request`, `RequestMany` | responders, cancellation, timers |
| Validation and options (`validate.go`, `options.go`, `spec.go`, `channel.go`) | none | pure checks | `NewImp`, `bootRuntime` |
| Schedule channels (`schedule/`) | none of their own | `Channel`, `Register`, `Deregister` | a JetStream stream with scheduled messages |
| Soulstream (`soulstream/`) | a realm participant | join, post, note bridge, topic channel | the soulstream library; the pipeline |

What is hard in this code is concurrency without a common lock (registry,
lifecycle), a network that loses, repeats and delays (pipeline, requests), calls
that fail after taking effect (store, stream binding), and restarts (store,
pipeline). `PROJECT.json` lists the hazards line by line with the properties
that would catch each.

What makes each part correct:

- registry: the cap is never exceeded and never leaks; one slot per entity; no
  lost update; a panic in user code leaves nothing locked;
- lifecycle: Running means subscribed; stopped means unsubscribed; Shutdown
  returns within its window, tells every caller the same, and nil means drained;
- pipeline: an ack only after awareness; every delivery counted once; poison
  messages visible and unable to starve healthy ones;
- store: an acknowledged update is never lost, a deleted one never returns, the
  cache agrees with the backend, sleep is applied once;
- requests: they return; the error names the true cause; the counters agree;
- validation and binding: a spec is accepted exactly when its declarations are complete
  and distinct;
  an imp consumes only as it declared; replicas and restarts with one declaration
  are welcome to each other's consumer; ephemeral consumers do not pile up;
- beacon: the sleep it reports covers the time the imp was down, and nothing else
  in the bucket is taken for a stamp;
- schedules: what is stored under a subject is what the returned results say; ticks
  go only by their own TTL, a rollup, or a purge of their own subject;
- note bridge: a note is posted once, and none vanishes without a word.

## Modules

| Module | Models | Module | Role |
|---|---|---|---|
| `StateRegistry` | `registry.go` | `CappedSlots` | abstract: an atomic map with a cap |
| `ImpLifecycle` | `imp.go`, `start.go`, `thinking.go`, binding and teardown of `stream.go` | | |
| `StreamDelivery` | `dispatchStream`, `dispatch`, against a JetStream consumer | | |
| `PersistStore` | `persist/store.go`, `persist/backend.go` | `DurableMap` | abstract: a durable map of sets of updates |
| `RequestSingle` | `requestSingle` | | |
| `RequestMany` | `requestMany` | | |
| `SpecValidation` | `validate.go` over `spec.go`, `channel.go`, `state.go` | | operators, with a reference definition |
| `ChannelSource` | `buildConsumerConfig`, `compatDiff`, `schedule/channel.go`, `soulstream/channel.go` | | operators |
| `ConsumerBinding` | `NewImp`, `bindStreamChannel`, `resolveConsumer`, teardown | | composes the two above, over several processes |
| `SleepBeacon` | `persist/beacon.go`, the keys of `persist/store.go` | | |
| `Schedule` | `schedule/register.go`, `schedule/tick.go` | | |
| `NoteBridge` | `soulstream/notebridge.go`, `note.go` | | extends `StreamDelivery` |

`MC*` modules instantiate them for TLC; `*Proofs` modules hold the theorems.
Operators whose comment starts with "Mutant:" are faulty variants of the action
that follows. No specification uses them: `PROJECT.json` pairs each with the
property that must fail when it takes the action's place.

### StateRegistry

One shape; shapes share nothing. `ref` is one action per atomic operation: `Load`,
`LoadCount`, `CapExceeded`, `CompareAndSwap`, `Factory` or `FactoryPanics`,
`LoadOrStore`, `GiveBack`. `Update` is two steps under the slot's mutex
(`UpdateBegin`, then `UpdateEnd` or `UpdatePanics`), so that the time user code
runs is visible. `Get` and `Set` need the mutex and are one step. A slot's value
is the set of goroutines whose update it holds: just enough to see an update get
lost. `FactoryMayPanic` switches the panicking factory.

`CappedSlots` is what callers may rely on: reserve, allocate, update and refuse in
one step each. It lets a unit be lost and lets a call be refused while units are
pending, because the code does both; "Further disagreements" has the two places where
the documents promise more.

### ImpLifecycle

The actors are goroutines that call `Run` and `Shutdown`, one serial callback per
channel, thinking goroutines, and the goroutine inside `waitDrain`. An action is
one step that another actor can observe; the two loops of `unwind` are one step
each. JetStream calls succeed, fail, or fail after taking effect; `orphans`
remembers the consumers such a call left behind, so that the leak properties
blame only the harness. Two data races are in the model as what a build can do:
`TornRead` (`rt.channels` is appended to and read without a lock) and
`RacingTeardown` (two unwinds clear one consume loop). `WaiterWakes` models
`sync.WaitGroup`'s check for reuse. `Unsubscribe` has no failing branch, here and in
`RequestMany`: it fails only on a connection that is closed or draining, where the
subscription is gone too, and the code only logs the error.

`EarlyShutdown` separates two kinds of caller: one that waits for startup
(`Ready`) before it calls Shutdown, for whom all the safety properties hold, and
one that may call Shutdown at any moment, for whom some do not.

### StreamDelivery

The consumer is external: it delivers in order up to `MaxAckPending`, redelivers
what is NAKed or outlives AckWait, gives up after `MaxDeliver`, and applies the
ack policy. Acks and NAKs travel and may be late or lost. `Take`, `Fails`,
`Awareness`, `Ack` and `Branch` are the steps of `dispatchStream`; `SubjectFails`
and `SubjectVerdict` are `dispatch`, on the same metrics. `Crash` loses the
client's buffer, the message in hand and the metrics. Counters wrap at
`CounterMod`, which bounds a run with unlimited redelivery without capping deliveries;
`delivered` (history) counts all deliveries to the process in the same way, and
`received` the deliveries of each message up to `CounterMod`, which is enough to tell
whether `NakTotal` may have wrapped (`NotWrapped`).
`HealthySettles` is checked by `notes`, over the composition with the note bridge.

### PersistStore

The store's mutex is held across backend calls, so an operation is one step with
one of the outcomes the backend can produce. A state is the set of updates it
reflects and the time it has been advanced to, which is what durability and wake
are about. `UpdateFails` and `DeleteFails` cover a call that had no effect and one
that took effect and lost its reply; `limbo` remembers the updates whose fate that
left open. `RefState` selects a state type that `fn` changes in place. `lru` is the
list, from which an element is taken at its position as `container/list` does;
`recency` (history) is the list an unbounded store would have.

Two limits. A write that was given up on is applied at once or never: one connection
delivers in order, so a process cannot tell when before its next call that was. A write
of a process that has died and is applied after a write of its successor is not
modelled, unlike in `SleepBeacon`; `Put` is unconditional (`persist/backend.go`), so it
would replace an acknowledged update, and durability holds as long as that does not
happen. And the wall clock only goes forward, so that a `Wake` with a negative elapsed
time (`persist/store.go:143`) does not occur.

### RequestSingle and RequestMany

`RequestSingle` keeps both contexts of each call and, as history, which of the two
ended the request. The switch (`Classify`) and the second look at `ctx.Err()`
(`Deadline`) are separate steps, and either context may end between them.
`RequestMany` is one call with its inbox, its buffer (`MinBuffer` stands for 64),
timer, context and cap; a reply is its number in arrival order. Its definitions have
names of their own (`ManySpec`, `phase`, `outcome`), so that one module can extend both;
`ManyNoResponders` is what the call adds to the counter they share.

### SpecValidation, ChannelSource and ConsumerBinding

`validateSpec` is the list of checks in the code's order, and the first that fails is
the result: the offending field with the index of its declaration (`ShapeErr` and
`ChannelErr` are the bodies of the two loops). `WellFormed` says
without any order that the declarations are complete and distinct, and
`ValidationExact` compares the two at every `NewImp`. That does not make a spec usable:
a source with a start sequence and a start time is accepted, and the server refuses
its consumer (`Creatable`). `NewImpNil` is the check of the connection, which comes first.

A stream source is a record of the fields the server sees; `Channel` and
`TopicChannel` apply their options to it one after the other (`WithOptions`), which is how
`WithStartSeq` followed by `WithStartTime` comes to leave a position without its
policy. `buildConsumerConfig` and `compatible` (`compatDiff` finds nothing) keep the
library's numbers for policies, because zero means "not declared" there. `ServerConfig`
and `Creatable` are the server's part.

`ConsumerBinding` runs several processes over one stream: start with any spec,
look up the stream, look up the durable consumer, create it or bind to it, consume,
shut down, crash, start again. Every call to the server is a step of its own and may
fail after taking effect. `creator` and `served` remember who made a consumer and which
declarations have worked; `orphans` counts what a fault left behind.

### SleepBeacon

True time and the wall clock are apart: `SetClock` steps the offset, which is also
what a restart on another host does. A key is its sequence of tokens, so that dots in
names and entities do what they do in a bucket. A Put succeeds, fails, or is given up
on and lands later (`LateStamp`). On one connection it lands before the next stamp or
never (`late`); a restart opens another connection, so what the old process left
(`stray`) may land over the stamps of its successors. `overtaken` (history) tells when
that has happened to an acknowledged stamp: without it in the hypothesis TLC finds
`SleepBounded` violated, by two processes and one stray.
`NamesApart` is what the names must satisfy; `NothingShared` fails without it.

### Schedule

Callers register and deregister on the same subjects. A call is begun, served and
returned in separate steps, and may be given up on in between, with the request still
on its way (`late`). `known` is, per subject, what may be stored there to the best
knowledge of someone who sees only the results of calls: it grows when a call begins
and shrinks to the call's own effect, what overlapped it and what failed calls may
still do when it returns nil. `SlotAsReturned` says the store never disagrees. The
server fires schedules, applies TTL and rollup to ticks, and removes one-shots. A purge
takes everything on its subject: a `Deregister` that names a tick's subject takes the
ticks, which `TicksKept` allows for (`Purges`) and the run exercises. Subjects have no
wildcards, and no schedule is registered on the target of another (`TargetsApart`).
`registerConfig` applies the options one after the other; the fast refusals are in
`Refused`.

### NoteBridge

The bridge as the OnNote hook of an imp over `StreamDelivery`: a Note verdict is acked,
counted, and handed to the hook on the dispatch goroutine, which passes it on, reports
it malformed, or posts a comment that succeeds, fails, or is given up on and posted
late. `next` and `onErr` are set, and may panic, which `invokeNote` catches and counts.
A crash may come at any point, and redelivery may note the same message any number of
times. `due` (history) is the message's well-formed notes less its comments; from above
it is cut at `MaxDue`, more than can be posted at once, so it errs against the bridge.
`fails` bounds the posts that fail (`MaxPostFails`); it restricts nothing else. `Outcome`
is the result of the post as the bridge sees it. `Pipeline` instantiates
`StreamDelivery` with the note counted when the hook returns instead of when it is
called: `ImplementsPipeline` says that an imp with the bridge is still that pipeline.

## Runs

Passing runs.

| Run | Instance | Shows |
|---|---|---|
| `registry` | 2 goroutines, 3 entities, cap 2 | the counter, the slots and the lock, panics included; no lost update; the CAS loop ends; refinement of `CappedSlots` |
| `lifecycle_ready` | 2 Runs, 2 Shutdowns after startup, 2 channels, 2 thoughts | readiness, no leaks, agreement, drain |
| `lifecycle_early` | Shutdown at any time, 3 channel kinds | Shutdown returns, and every Run that has begun, wherever Shutdown finds it |
| `store` | 3 entities, bound 2, 3 updates, 2 ticks | durability, coherence, LRU, wake; refinement of `DurableMap` |
| `delivery` | a healthy and a poison message, 2 deliveries, 2 faults | ack timing and the metrics |
| `notes` | a poison message before a healthy one, unlimited deliveries, 2 faults | notes are posted once and never vanish; healthy messages settle beside poison |
| `binding` | 2 processes, 1 durable name, 12 declarations and 18 faulty specs, 3 starts, 1 fault | validation; consumers as declared; replicas and restarts; no consumer left |
| `beacon` | 2 stores and a beacon in a bucket, 4 instants, 2 clock offsets, 2 stray stamps | keys apart; the reported sleep is right from below and above |
| `schedule` | 2 callers, 3 calls, 7 requests, 5 removals (one of a tick's subject), 3 instants, 1 fault | the stored schedule agrees with the results; ticks as asked and kept |
| `request_single` | 3 concurrent calls | blame, counters; a request nobody answers returns |
| `request_many` | cap 2, buffer 2, 5 replies | order, cap, cleanup, termination |

The type invariants are not listed there: they are part of the inductive invariants
that the proofs use.

One run expects a violation. It states what a comment says and shows a behaviour of the
code that differs; the quotation is in `PROJECT.json` under "findings".

| Run | What happens |
|---|---|
| `lifecycle_restart` | Shutdown completes during startup, then Run sets Running: a stopped imp is Ready again |

### Further disagreements

The modules state these claims of the comments and documents too, in definitions of
their own, and TLC finds each violated when it is checked alone with the constants
named. They are kept out of the list of runs so that it stays one run per question.

| Property | Constants | What the code does |
|---|---|---|
| `SoloRefusalGenuine` (`specs/001-harness-core/data-model.md:88`) | `StateRegistryLeak.cfg` | a panicking factory loses a unit of the cap for good: a lone caller is refused below the cap (`registry.go:67`) |
| `NilShutdownMeansQuiet` (`imp.go:231-232`, `thinking.go:8-9`) | `LifecycleQuiet.cfg` | a callback that unsubscribing did not stop launches thinking after the drain: Shutdown has returned nil (`thinking.go:17`) |
| `AckedMeansAware` (`channel.go:46-47`) | `StreamDeliveryAckAll.cfg` | AckAll is passed through, and a later ack settles a message that failed (`stream.go:162`) |
| `UnchangedNeverRefused` (FR-005a, `specs/001-harness-core/spec.md:186`) | `ConsumerBinding.cfg` | a durable channel that declares AckAll is created, and refused as incompatible on the imp's own restart (`stream.go:206`) |
| `CompatibleNeverRefused` (FR-005a) | `ConsumerBinding.cfg` | two imps with compatible, different declarations create the consumer at once: the second fails, where a moment later it would have bound (`stream.go:131`) |
| `NothingShared` (`persist/store.go:83-85`) | `SleepBeacon.cfg` with `Stores <- NestedStores` | the stores "imp" and "imp.orders" are different names, and entity "orders.e" of the one has the key of entity "e" of the other (`persist/store.go:107`) |
| `CapErrorGenuine` (`state.go:26-29`) | `StateRegistryLeak.cfg`, 3 goroutines, no panics | racing first references to one entity hold several units: a third caller is refused below the cap (`registry.go:60`) |
| `NothingLeftBehind` (SC-009, `specs/001-harness-core/spec.md:273`) | `LifecycleRestart.cfg` | a channel appended after unwind has passed stays subscribed (`start.go:58`) |
| `ShutdownNeverPanics` (`imp.go:196-198`) | `LifecycleQuiet.cfg`, 2 thoughts | a late Add makes `WaitGroup.Wait` panic (`thinking.go:17`) |
| `BadOptionRejected` (`options.go:52-53`) | `LifecycleQuiet.cfg`, 2 Runs, options invalid | the second Run after a rejected option dereferences a nil runtime (`imp.go:112`) |
| `FailedStartQuiet` (`spec.md:148`) | `LifecycleQuiet.cfg` | Run returns its startup error while a callback of a bound channel runs (`imp.go:120`) |
| `DispatchAfterStartup` (FR-034, `spec.md:238`) | `LifecycleQuiet.cfg` | a channel dispatches before the others are bound (`start.go:44`) |
| `UnwindIdempotent` (`start.go:67-68`) | `LifecycleQuiet.cfg` | a failed Run and a Shutdown unwind at once, and one calls Stop on a loop the other has cleared (`stream.go:340`) |
| `FailedUpdateKeepsResident` (`persist/store.go:152-153`) | `PersistStore.cfg` with `RefState = TRUE` | a state that `fn` changed in place stays resident after a failed write; with `RefState = FALSE` the claim holds |
| `EveryDeliveryCounted` (`verdict.go:14-16`) | `StreamDelivery.cfg` with verdict "zero" | `imps.Verdict{}` is acked and counted nowhere (`stream.go:304`) |
| `OwnTimeoutReported` (`request.go:131-133`) | `RequestSingle.cfg` | the caller's deadline passes between the failure and `ctx.Err()`: the framework's timeout is blamed on the caller (`request.go:134`) |
| `EveryReplyInWindow` (`request.go:160-161`) | `RequestManyCapped.cfg` with no cap | select takes the timer with replies waiting, or a burst overflows the channel (`request.go:270`) |

### Why the bounds are enough

- Two goroutines give the registry a winner and a loser on one entity, a lost CAS, a
  waiter on a slot's lock, and reservations that fill the cap; three entities over a
  cap of two make refusal reachable by allocation alone. Larger numbers of goroutines
  are the theorems' business.
- Two Runs and two Shutdowns cover each pair that can race. One channel of each
  kind suffices because channels meet only in the order of binding. Two thoughts
  are needed for reuse of the WaitGroup: one that wakes the waiter, one added late.
- Three entities over a bound of two force eviction and re-admission; three updates
  allow success, ambiguity and success again on one entity.
- A healthy and a poison message are the two kinds of message; two deliveries of
  each allow a lost ack followed by a repeat, and a NAK followed by giving up.
- Five replies over a cap and a buffer of two fill the buffer, overflow it and
  leave replies behind after the cap.
- Two processes over one durable name race on each step of the binding; a third start
  is a restart with a changed or an unchanged declaration. The declarations differ in
  each field the compatibility check reads and in two it does not.
- Four instants are a start, a stamp, a stop and a start with time in between; two
  offsets step the clock once forward and once back. Two strays are of different
  processes, or of one and of different times, and land in either order.
- Two callers overlap in every way two calls can; the third call comes after, before or
  across them. Every kind of pattern, option and removal is among the arguments.
- The poison message comes first, so that the healthy one has to get past it. One post
  may fail: a second failure meets the same states, since nothing is retried.
  `MaxDue` is that post, one comment per crash and the one in hand.

Deadlock checking is off where the system may stop: an imp that is shut down, a
process that has crashed, a stream that is drained, requests that have returned.

### Fairness

Weak fairness is claimed only for what the Go scheduler and runtime give: a
goroutine inside `ref`, `Run`, `Shutdown` or a request goes on, timers fire, the
function passed to `Update` returns, a network call ends. Never assumed: that a
message or a reply arrives, that thinking ends, that anyone calls Shutdown or cancels
a context. Only `notes` assumes that the user's code on the dispatch goroutine (decoder,
extractor, awareness, `next` and `onErr`) ends: the harness puts no limit on it, and a
function that hangs holds up its channel for good. `notes` also assumes a fair consumer
(strong fairness of delivery, because the client's buffer may be full again and again),
that AckWait ends, and that acks and NAKs that are not lost arrive; faults are finite.
That the bridge's post ends is `noteTimeout`.

## Proofs

Proved for every value of the constants, under the named assumptions of each
module (finite sets of goroutines, entities and calls, a positive cap and bound, lists
and fields of the Go types, model values distinct from data). Every safety property the
runs check is a theorem. Where a theorem has a hypothesis of its own, a run or an entry
of "Further disagreements" shows that it is needed. The `*Proofs` modules begin with the
strengthenings: the parts of the inductive invariants that are there for the proof only.

- **Registry** (`StateRegistryProofs`). The properties are not inductive alone.
  `IInv` adds: the count is within the cap; a CAS is attempted only from a value
  below the cap; a slot in the map was built for its entity; a slot not yet in the
  map still holds the factory's value; while `fn` runs, the value it was given is
  still the slot's. From `CountAccounts` and the bound on the count follows
  `CapRespected`: stored slots are part of a sum that never exceeds the cap. The lock
  and `UpdateSeesCurrent` give `NoLostUpdate`. The same invariant carries the step
  simulation of `RegistryRefinesCappedSlots`. `SoloRefusals` (`SoloRefusalGenuine`)
  shows that the panicking factory is the only way to lose a unit: without one, a call
  that meets no concurrent allocation is refused only at a full cap.
- **Lifecycle** (`ImpLifecycleProofs`). Three invariants, each on top of the one before.
  `TypeInv` counts: the gauge and the WaitGroup are the cardinalities of the sets of
  thoughts under way, and at most one Run is past the Once. `DrainInv` gives
  `ShutdownCallersAgree` and `DrainedMeansFinished` for any callers at any time: the
  goroutine in `waitDrain` watches the thoughts that were under way when it began, and
  the result is written once, before the channel is closed that everybody waits on.
  `StartInv` relates each channel's place in `rt.channels` to its subscription and
  consumer at every step of `start` and `unwind`; from it follow
  `ReadyMeansSubscribed`, `NoSubscriptionLeak` and `StoppedNeverRuns`, if Shutdown is
  not called while Run is starting (`EarlyShutdown = FALSE`). `lifecycle_restart`
  refutes the last without that hypothesis: an early Shutdown is the only way
  back from Stopped. `LifecycleNothingLeftBehind` is about the end of all calls, whichever
  come last; `Attended` closes the gap between "stopped or failed" and "everyone has
  returned": an imp that was started is always in the hands of a Run that will start,
  fail or stop it or of a Shutdown that drains, and nobody lets go before it is
  unwound. `Attended` itself holds whenever Shutdown is called.
- **Store** (`PersistStoreProofs`). `IInv` is the data part of `TypeOK` with
  `Durable`, `CacheCoherent` and `NoTimeCountedTwice`: durability needs coherence,
  because `Update` writes what it finds resident, and coherence needs durability,
  because a miss rehydrates. `StoreRefinesDurableMap` follows. `LRUInv` is the residency
  part: `recency` has every entity once and begins with `lru`. Its lemmas say point by
  point what taking an element out of a list, putting it in front and cutting the list
  at the bound leave of "distinct" and "begins with"; `ResidencyIsLRU` follows for every
  bound. `FailedUpdateKeepsResident` is proved for states that are values.
- **Delivery** (`StreamDeliveryProofs`). `DeliveryTypeCorrect`, and
  `AckAtAwareness`: under the explicit policy `AckInv` is inductive: acks under way
  and the message between awareness and its branch belong to messages awareness has
  returned for. `StreamDeliveryAckAll.cfg` shows that the policy is needed.
  `DeliveriesCounted` is a congruence modulo `CounterMod`, so it holds of counters of any
  width, wrapped or not; its hypothesis is that awareness returns one of the three
  verdicts. `StuckShows` (`StuckSignal`) has no hypothesis: `StuckInv` adds that what is
  in `NakTotal` or waits has a delivery of its own, for all messages together and at
  each place one message waits, so that `NakTotal` cannot wrap before `NotWrapped` fails.
  The sum over the messages is a recursive function; that raising one entry raises it
  by as much, and that it splits by sets of messages, are inductions over the set of
  numbers for which they hold (`Inductive`).
- **Notes** (`StreamDeliveryProofs`). `NotesOwed` keeps what is on its way or in hand
  (`Owed`) within `due`; `PostsPerNote` follows. It needs `LateBounded`, that comments on
  their way are no more than the failed posts and the faults: then `due` has room for the
  next note, and cutting it at `MaxDue` takes nothing that is owed.
  `BridgeRefinesPipeline` proves `ImplementsPipeline`: the steps of the bridge are the
  pipeline's `Branch`, or stutter. It needs `PipeInv`: every verdict is
  a Note there, and the hook runs only in its branch. TLC has checked the same refinement with
  counters that wrap at 1 and at 3.
- **Requests** (`RequestProofs`). `TimeoutIsOurs` for any number of concurrent
  calls. `ErrorsExplained` is the strengthening: an error that came from the derived
  context is still that context's error, and a context the caller ended has the
  caller's error for good, so a deadline the caller does not have came from the
  timeout. `CountersAgree` compares the counters with cardinalities of sets of calls.
  For `RequestMany`, `ManyInv` adds that a call that still collects has room for one more
  reply and no result, and that what waits or was dropped has arrived; it gives
  `CollectedInOrder`, `CapHonoured` and `EarlyReturnMeansFull` for any cap, buffer and
  number of replies.
- **Binding** (`ConsumerBindingProofs`). `BoundAsDeclared` and `SameDeclarationWelcome`
  say what an imp meets at a later step than the one that decided it. `BoundSuits`,
  `ServedSuits` and `CreatedAsDeclared` carry it over: the consumer an imp is bound to,
  or has been, is one it would create itself or is compatible with, one that an imp made
  is as declared, and nobody replaces it. `ValidationExact` is proved for specs with any
  number of shapes and channels: `FirstOf` returns the first error because every
  non-empty set of numbers has a least one, and each list of checks fails exactly on a
  declaration that is unfit. `ExplicitNeverRefused` is `UnchangedNeverRefused` for
  declarations that ack explicitly. `OptionsUnderstood` says what `schedule.Channel`
  makes of any list of options (`MadeOf`, by induction over the options applied): the
  last durable name counts, and the server makes the consumer exactly if no start
  sequence is mixed with a start time, in whatever order, and the last start option
  is not the sequence zero. `TopicChannel` applies its options in the same way.
- **Beacon** (`SleepBeaconProofs`). If no name continues another (`NamesApart`), keys
  determine who writes them; `IInv` says what each key holds, that every stamp in the
  bucket, under way or astray was taken while an imp ran (`Taken`, `StrayTaken`), and that
  the beacon's is no older than the last one that succeeded unless a stray has overtaken
  it (`BeaconHeld`). `NothingShared`, `SleepCovered` and `SleepBounded` follow for any clocks.
- **Schedules** (`ScheduleProofs`). `SlotAsReturned` says nothing of calls under way, so
  `IInv` accounts for each place an effect can come from: a call under way is in
  `known` of its subject (`CallsKnown`) and in `overlap` of every other call there
  (`CallsOverlap`), a request that was given up on is in `loose` (`LateLoose`), which is
  in `known` (`LooseKnown`), and every such set has what a one-shot leaves behind
  (`AllClosed`). The key is `ServedExplained`: once a call has been served, what is
  stored is its own value, one that overlapped it, or a loose one, which is what
  `known` shrinks to when it returns. `TicksLeft` says which steps take ticks away:
  firing, time, and a request that purges. `TicksAsAsked` and `TicksKept` rest on `TicksFrom`
  (a tick carries what a request made of its options) and on `ConfigUnderstood`:
  `registerConfig` gives the last TTL and the rollup of a list of options of any length.
  That is an induction, over the set of numbers of options for which it holds
  (`Inductive`, from the library's theorem that `<` on the naturals is well-founded).

Only model-checked:

- liveness, and everything else under fairness, which the prover does not do:
  `EveryCallReturns`, `ShutdownReturns`, `RunReturns`, `RequestReturns`,
  `CallReturns`, `HealthySettles`, `NoteHeard`;
- that the claims under "Further disagreements" fail: the proofs show where they hold.

## Not modelled, and the plan

Not modelled: logging and wording; the echo example, the document linter, test
support; the accessors that only forward to nats.go; `soulstream.Participant` and
`StartTopic`, which forward to the soulstream library; `decodeTick` and `decodeOp`, which
copy headers and fields; real time, such as the length of `drain_window` against the
JetStream calls of unwind.

What is left: a composition of dispatch, registry and lifecycle, for a thought that uses
state while the imp shuts down.
