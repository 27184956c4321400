---------------------------- MODULE ImpLifecycle ----------------------------
(***************************************************************************)
(* imp.go, start.go, thinking.go, the channel binding and teardown of      *)
(* stream.go, and internal/lifecycle: one Imp from Run to Shutdown.        *)
(*                                                                         *)
(* The actors are the goroutines that call Run and Shutdown, the serial    *)
(* dispatch callback of each channel, the thinking goroutines, and the     *)
(* goroutine waitDrain starts to wait on the WaitGroup.  Each action is    *)
(* one step that another actor can observe.  The loops of unwind are one   *)
(* step per loop: between two channels nothing but the dispatch of those   *)
(* channels, which do not depend on each other, can take place.            *)
(***************************************************************************)
EXTENDS Integers, Sequences, FiniteSets

CONSTANTS
    Runners,       \* goroutines that call Run once
    Stoppers,      \* goroutines that call Shutdown once
    Channels,      \* ImpSpec.Channels, in declaration order
    SubjectChs,    \* those with a SubjectSource
    EphemeralChs,  \* those with a StreamSource without a Durable name
    MaxThoughts,   \* bound: thinking goroutines launched in a behaviour
    OptionsValid,  \* the option validity to explore, a subset of BOOLEAN
    EarlyShutdown  \* whether Shutdown may be called while Run is starting

Chs == {Channels[i] : i \in 1..Len(Channels)}
StreamChs == Chs \ SubjectChs
Actors == Runners \cup Stoppers
Thoughts == 1..MaxThoughts

ASSUME ActorsDisjoint == Runners \cap Stoppers = {}
ASSUME ChannelKinds == SubjectChs \subseteq Chs /\ EphemeralChs \subseteq StreamChs
ASSUME ChannelsDeclared == Channels \in Seq(Chs) /\ Len(Channels) > 0
\* A channel is told apart by its place in the declaration.
ASSUME ChannelsDistinct ==
    \A i, j \in 1..Len(Channels) : Channels[i] = Channels[j] => i = j
ASSUME ThoughtsBound == MaxThoughts \in Nat
ASSUME OptionsToExplore == OptionsValid \subseteq BOOLEAN
ASSUME EarlyFlag == EarlyShutdown \in BOOLEAN

VARIABLES
    valid,       \* whether the options pass bootRuntime
    booted,      \* rtOnce is done
    rt,          \* rtPtr is set
    state,       \* lifecycle.Machine
    pc, res,     \* per actor: where it is, what Run or Shutdown returned
    next,        \* index of the channel start is binding
    subs,        \* live subscriptions or consume loops per channel
    channels,    \* rt.channels
    named,       \* channels whose consumerName is set
    consumers,   \* ephemeral consumers that exist on the server
    orphans,     \* those a failed JetStream call left behind
    disp,        \* per channel: where its dispatch callback is
    task,        \* per thought: its thinking goroutine
    inflight,    \* metrics.InflightThinking
    wg,          \* thinkingWG's counter
    waiter,      \* the goroutine of waitDrain
    awaited,     \* thoughts under way when waitDrain began (history variable)
    sdOnce, shutdownErr, stopped,
    crash        \* why the process died, "no" while it lives

rtVars    == <<valid, booted, rt>>
subVars   == <<subs, channels, named, consumers, orphans>>
thinkVars == <<disp, task, inflight, wg>>
waitVars  == <<waiter, awaited>>
downVars  == <<sdOnce, shutdownErr, stopped>>
vars == <<rtVars, state, pc, res, next, subVars, thinkVars, waitVars, downVars, crash>>

Init ==
    /\ valid \in OptionsValid
    /\ booted = FALSE /\ rt = FALSE
    /\ state = "Created"
    /\ pc = [a \in Actors |-> "idle"]
    /\ res = [a \in Actors |-> "none"]
    /\ next = 1
    /\ subs = [c \in Chs |-> 0]
    /\ channels = {} /\ named = {} /\ consumers = {} /\ orphans = {}
    /\ disp = [c \in Chs |-> "idle"]
    /\ task = [t \in Thoughts |-> "none"]
    /\ inflight = 0 /\ wg = 0
    /\ waiter = "none" /\ awaited = {}
    /\ sdOnce = FALSE /\ shutdownErr = "nil" /\ stopped = FALSE
    /\ crash = "no"

At(a, l) == crash = "no" /\ pc[a] = l
Goto(a, l) == pc' = [pc EXCEPT ![a] = l]
Return(a, x) == Goto(a, "returned") /\ res' = [res EXCEPT ![a] = x]

-----------------------------------------------------------------------------
(* Run *)

\* bootRuntime: the Once creates the runtime bag or reports the bad option.
Boot(r) ==
    /\ At(r, "idle")
    /\ ~booted
    /\ booted' = TRUE
    /\ \/ valid /\ rt' = TRUE /\ Goto(r, "cas") /\ UNCHANGED res
       \/ ~valid /\ Return(r, "config") /\ UNCHANGED rt
    /\ UNCHANGED <<valid, state, next, subVars, thinkVars, waitVars, downVars, crash>>

\* A later Run: the Once is done, bootErr stays nil, and the runtime is used.
BootAgain(r) ==
    /\ At(r, "idle")
    /\ booted
    /\ \/ rt /\ Goto(r, "cas") /\ UNCHANGED crash
       \/ ~rt /\ crash' = "nil runtime" /\ UNCHANGED pc
    /\ UNCHANGED <<rtVars, state, res, next, subVars, thinkVars, waitVars, downVars>>

\* CompareAndSwap(Created, Starting) elects the Run that starts the imp.
CasStarting(r) ==
    /\ At(r, "cas")
    /\ \/ state = "Created" /\ state' = "Starting" /\ Goto(r, "bind") /\ UNCHANGED res
       \/ state # "Created" /\ Return(r, "already") /\ UNCHANGED state
    /\ UNCHANGED <<rtVars, next, subVars, thinkVars, waitVars, downVars, crash>>

\* bindSubjectChannel: nc.Subscribe.  Messages may arrive from here on.
Subscribe(r) ==
    /\ At(r, "bind")
    /\ next <= Len(Channels)
    /\ Channels[next] \in SubjectChs
    /\ \/ subs' = [subs EXCEPT ![Channels[next]] = @ + 1] /\ Goto(r, "append")
       \/ Goto(r, "failed") /\ UNCHANGED subs
    /\ UNCHANGED <<rtVars, state, res, next, channels, named, consumers, orphans,
                   thinkVars, waitVars, downVars, crash>>

\* bindStreamChannel up to resolveConsumer: the stream is found and the
\* consumer bound or created.  A create whose reply is lost fails the bind and
\* leaves the consumer on the server.
ResolveConsumer(r) ==
    /\ At(r, "bind")
    /\ next <= Len(Channels)
    /\ LET c == Channels[next]
           created == {c} \cap EphemeralChs
       IN  /\ c \in StreamChs
           /\ \/ Goto(r, "consume") /\ consumers' = consumers \cup created /\ UNCHANGED orphans
              \/ Goto(r, "failed") /\ UNCHANGED <<consumers, orphans>>
              \/ /\ Goto(r, "failed")
                 /\ consumers' = consumers \cup created
                 /\ orphans' = orphans \cup created
    /\ UNCHANGED <<rtVars, state, res, next, subs, channels, named, thinkVars, waitVars,
                   downVars, crash>>

\* Mutant: a failed Consume leaves the consumer it was meant to read.
Consume_NoRollback(r) ==
    /\ At(r, "consume")
    /\ \/ subs' = [subs EXCEPT ![Channels[next]] = @ + 1] /\ Goto(r, "append")
       \/ Goto(r, "failed") /\ UNCHANGED subs
    /\ UNCHANGED <<rtVars, state, res, next, channels, named, consumers, orphans, thinkVars,
                   waitVars, downVars, crash>>

\* consumer.Consume; on failure the ephemeral consumer just created is deleted
\* and an error of that delete is dropped.
Consume(r) ==
    /\ At(r, "consume")
    /\ LET c == Channels[next] IN
       \/ /\ subs' = [subs EXCEPT ![c] = @ + 1]
          /\ Goto(r, "append")
          /\ UNCHANGED <<consumers, orphans>>
       \/ /\ Goto(r, "failed")
          /\ \/ consumers' = consumers \ {c} /\ UNCHANGED orphans
             \/ orphans' = orphans \cup ({c} \cap EphemeralChs) /\ UNCHANGED consumers
          /\ UNCHANGED subs
    /\ UNCHANGED <<rtVars, state, res, next, channels, named, thinkVars, waitVars,
                   downVars, crash>>

\* rt.channels = append(rt.channels, state), then the next channel.
AppendChannel(r) ==
    /\ At(r, "append")
    /\ channels' = channels \cup {Channels[next]}
    /\ named' = named \cup ({Channels[next]} \cap EphemeralChs)
    /\ next' = next + 1
    /\ Goto(r, "bind")
    /\ UNCHANGED <<rtVars, state, res, subs, consumers, orphans, thinkVars, waitVars,
                   downVars, crash>>

\* Mutant: Running is set when the last channel is about to be bound.
SetRunning_Early(r) ==
    /\ At(r, "bind")
    /\ next >= Len(Channels)
    /\ state' = "Running"
    /\ Goto(r, "select")
    /\ UNCHANGED <<rtVars, res, next, subVars, thinkVars, waitVars, downVars, crash>>

\* Every channel is bound: state.Set(Running), whatever the state is by now.
SetRunning(r) ==
    /\ At(r, "bind")
    /\ next > Len(Channels)
    /\ state' = "Running"
    /\ Goto(r, "select")
    /\ UNCHANGED <<rtVars, res, next, subVars, thinkVars, waitVars, downVars, crash>>

\* start failed: state.Set(Failed), then unwind.
SetFailed(r) ==
    /\ At(r, "failed")
    /\ state' = "Failed"
    /\ Goto(r, "undo1")
    /\ UNCHANGED <<rtVars, res, next, subVars, thinkVars, waitVars, downVars, crash>>

\* Run's select: its context is done, so Run itself calls Shutdown ...
CtxDone(r) ==
    /\ At(r, "select")
    /\ Goto(r, "shutdown")
    /\ UNCHANGED <<rtVars, state, res, next, subVars, thinkVars, waitVars, downVars, crash>>

\* Mutant: Run waits for the Stopped state instead of the stopped channel.
RunStopped_WatchesState(r) ==
    /\ At(r, "select")
    /\ state = "Stopped"
    /\ Return(r, shutdownErr)
    /\ UNCHANGED <<rtVars, state, next, subVars, thinkVars, waitVars, downVars, crash>>

\* ... or the stopped channel is closed.
RunStopped(r) ==
    /\ At(r, "select")
    /\ stopped
    /\ Return(r, shutdownErr)
    /\ UNCHANGED <<rtVars, state, next, subVars, thinkVars, waitVars, downVars, crash>>

-----------------------------------------------------------------------------
(* unwind, on a failed start and on shutdown *)

\* First loop: unsubscribe every subject channel in rt.channels.  Unsubscribe
\* fails only on a connection that drains or is closed, where nothing arrives:
\* the logged error (start.go:76-82) makes no difference and is left out.
Unsubscribe(a) ==
    /\ \/ At(a, "undo1") /\ Goto(a, "undo2")
       \/ At(a, "unwind1") /\ Goto(a, "unwind2")
    /\ subs' = [c \in Chs |-> IF c \in channels \cap SubjectChs THEN 0 ELSE subs[c]]
    /\ UNCHANGED <<rtVars, state, res, next, channels, named, consumers, orphans,
                   thinkVars, waitVars, downVars, crash>>

\* teardownStreamConsumers: stop the consume loops and delete the ephemeral
\* consumers, forgetting their names even when the delete fails.
Teardown(a) ==
    /\ \/ At(a, "undo2") /\ Return(a, "start failed")
       \/ At(a, "unwind2") /\ Goto(a, "cancel") /\ UNCHANGED res
    /\ subs' = [c \in Chs |-> IF c \in channels \cap StreamChs THEN 0 ELSE subs[c]]
    /\ \E failing \in SUBSET named :
          /\ consumers' = consumers \ (named \ failing)
          /\ orphans' = orphans \cup failing
    /\ named' = {}
    /\ UNCHANGED <<rtVars, state, next, channels, thinkVars, waitVars, downVars, crash>>

\* rt.channels is read by Shutdown while start appends to it, with nothing to
\* order the two: a torn slice header sends the loop past the old array.
TornRead(a) ==
    /\ At(a, "unwind1") \/ At(a, "unwind2")
    /\ \E r \in Runners : pc[r] = "append"
    /\ crash' = "torn slice"
    /\ UNCHANGED <<rtVars, state, pc, res, next, subVars, thinkVars, waitVars, downVars>>

\* A failed Run and a Shutdown both unwind: one resets ch.streamConsume, an
\* interface of two words, between the other's check for nil and its Stop.
RacingTeardown(a) ==
    /\ crash = "no"
    /\ pc[a] \in {"undo2", "unwind2"}
    /\ \E b \in Actors \ {a} : pc[b] \in {"undo2", "unwind2"}
    /\ \E c \in channels \cap StreamChs : subs[c] > 0
    /\ crash' = "nil consume loop"
    /\ UNCHANGED <<rtVars, state, pc, res, next, subVars, thinkVars, waitVars, downVars>>

-----------------------------------------------------------------------------
(* Shutdown *)

\* A caller that waits for startup calls Shutdown only once Run is past it.
CallShutdown(s) ==
    /\ At(s, "idle")
    /\ EarlyShutdown \/ ~rt \/ state \notin {"Created", "Starting"}
    /\ IF rt THEN Goto(s, "shutdown") /\ UNCHANGED res ELSE Return(s, "not started")
    /\ UNCHANGED <<rtVars, state, next, subVars, thinkVars, waitVars, downVars, crash>>

\* shutdownOnce: the first caller drains, the others wait for stopped.
ShutdownOnce(a) ==
    /\ At(a, "shutdown")
    /\ sdOnce' = TRUE
    /\ IF sdOnce THEN Goto(a, "await") ELSE Goto(a, "drain")
    /\ UNCHANGED <<rtVars, state, res, next, subVars, thinkVars, waitVars, shutdownErr,
                   stopped, crash>>

SetDraining(a) ==
    /\ At(a, "drain")
    /\ state' = "Draining"
    /\ Goto(a, "unwind1")
    /\ UNCHANGED <<rtVars, res, next, subVars, thinkVars, waitVars, downVars, crash>>

\* thinkingCancel, then waitDrain starts the goroutine that waits.
CancelThinking(a) ==
    /\ At(a, "cancel")
    /\ waiter' = "started"
    /\ awaited' = {t \in Thoughts : task[t] \in {"running", "exiting"}}
    /\ Goto(a, "wait")
    /\ UNCHANGED <<rtVars, state, res, next, subVars, thinkVars, downVars, crash>>

\* waitDrain's select: every thought is done ...
Drained(a) ==
    /\ At(a, "wait")
    /\ waiter = "done"
    /\ shutdownErr' = "nil"
    /\ Goto(a, "stop")
    /\ UNCHANGED <<rtVars, state, res, next, subVars, thinkVars, waitVars, sdOnce, stopped,
                   crash>>

\* Mutant: the drain timer is only looked at once the waiter is done.
DrainTimeout_Ignored(a) ==
    /\ At(a, "wait")
    /\ waiter = "done"
    /\ shutdownErr' = "deadline"
    /\ Goto(a, "stop")
    /\ UNCHANGED <<rtVars, state, res, next, subVars, thinkVars, waitVars, sdOnce, stopped,
                   crash>>

\* ... or the drain window has passed.
DrainTimeout(a) ==
    /\ At(a, "wait")
    /\ shutdownErr' = "deadline"
    /\ Goto(a, "stop")
    /\ UNCHANGED <<rtVars, state, res, next, subVars, thinkVars, waitVars, sdOnce, stopped,
                   crash>>

SetStopped(a) ==
    /\ At(a, "stop")
    /\ state' = "Stopped"
    /\ Goto(a, "close")
    /\ UNCHANGED <<rtVars, res, next, subVars, thinkVars, waitVars, downVars, crash>>

CloseStopped(a) ==
    /\ At(a, "close")
    /\ stopped' = TRUE
    /\ Goto(a, "await")
    /\ UNCHANGED <<rtVars, state, res, next, subVars, thinkVars, waitVars, sdOnce,
                   shutdownErr, crash>>

\* Mutant: a second caller does not wait for the first to finish.
AwaitStopped_NoWait(a) ==
    /\ At(a, "await")
    /\ Return(a, shutdownErr)
    /\ UNCHANGED <<rtVars, state, next, subVars, thinkVars, waitVars, downVars, crash>>

AwaitStopped(a) ==
    /\ At(a, "await")
    /\ stopped
    /\ Return(a, shutdownErr)
    /\ UNCHANGED <<rtVars, state, next, subVars, thinkVars, waitVars, downVars, crash>>

-----------------------------------------------------------------------------
(* Dispatch callbacks and thinking goroutines *)

Dispatch(c, from, to) ==
    /\ crash = "no"
    /\ disp[c] = from
    /\ disp' = [disp EXCEPT ![c] = to]
    /\ UNCHANGED <<rtVars, state, pc, res, next, subVars, waitVars, downVars, crash>>

\* The subscription hands its next message to the callback.
Deliver(c) ==
    /\ subs[c] > 0
    /\ Dispatch(c, "idle", "awareness")
    /\ UNCHANGED <<task, inflight, wg>>

\* Awareness ends without a Think verdict (or the message is rejected before it).
NoThink(c) ==
    /\ Dispatch(c, "awareness", "idle")
    /\ UNCHANGED <<task, inflight, wg>>

\* Awareness returns Think, and launchThinking raises the gauge.
RaiseGauge(c) ==
    /\ \E t \in Thoughts : task[t] = "none"
    /\ Dispatch(c, "awareness", "launch")
    /\ inflight' = inflight + 1
    /\ UNCHANGED <<task, wg>>

\* Mutant: the thinking goroutine is started before it is added to the group.
Launch_AddLate(c) ==
    /\ Dispatch(c, "launch", "idle")
    /\ \E t \in Thoughts :
          /\ task[t] = "none"
          /\ \A u \in 1..(t - 1) : task[u] # "none"
          /\ task' = [task EXCEPT ![t] = "running"]
    /\ UNCHANGED <<inflight, wg>>

\* thinkingWG.Add(1) and the go statement.
Launch(c) ==
    /\ Dispatch(c, "launch", "idle")
    /\ \E t \in Thoughts :
          /\ task[t] = "none"
          /\ \A u \in 1..(t - 1) : task[u] # "none"
          /\ task' = [task EXCEPT ![t] = "running"]
    /\ wg' = wg + 1
    /\ UNCHANGED inflight

\* Thinking returns, fails or panics; the deferred calls lower the gauge ...
ThinkingEnds(t) ==
    /\ crash = "no"
    /\ task[t] = "running"
    /\ task' = [task EXCEPT ![t] = "exiting"]
    /\ inflight' = inflight - 1
    /\ UNCHANGED <<rtVars, state, pc, res, next, subVars, disp, wg, waitVars, downVars, crash>>

\* ... and call thinkingWG.Done, which wakes the waiter at zero.
WgDone(t) ==
    /\ crash = "no"
    /\ task[t] = "exiting"
    /\ task' = [task EXCEPT ![t] = "done"]
    /\ wg' = wg - 1
    /\ waiter' = IF wg = 1 /\ waiter = "waiting" THEN "woken" ELSE waiter
    /\ UNCHANGED <<rtVars, state, pc, res, next, subVars, disp, inflight, awaited, downVars,
                   crash>>

\* thinkingWG.Wait: return at once at zero, otherwise sleep on the semaphore.
WaiterEnters ==
    /\ crash = "no"
    /\ waiter = "started"
    /\ waiter' = IF wg = 0 THEN "done" ELSE "waiting"
    /\ UNCHANGED <<rtVars, state, pc, res, next, subVars, thinkVars, awaited, downVars, crash>>

\* Once woken, Wait checks that nobody has called Add meanwhile, and panics with
\* "WaitGroup is reused before previous Wait has returned" if somebody has.
WaiterWakes ==
    /\ crash = "no"
    /\ waiter = "woken"
    /\ IF wg = 0 THEN waiter' = "done" /\ UNCHANGED crash
                 ELSE crash' = "WaitGroup reused" /\ UNCHANGED waiter
    /\ UNCHANGED <<rtVars, state, pc, res, next, subVars, thinkVars, awaited, downVars>>

-----------------------------------------------------------------------------
RunStep(r) ==
    \/ Boot(r) \/ BootAgain(r) \/ CasStarting(r)
    \/ Subscribe(r) \/ ResolveConsumer(r) \/ Consume(r) \/ AppendChannel(r)
    \/ SetRunning(r) \/ SetFailed(r) \/ RunStopped(r)

ShutdownStep(a) ==
    \/ Unsubscribe(a) \/ Teardown(a) \/ TornRead(a) \/ RacingTeardown(a)
    \/ ShutdownOnce(a) \/ SetDraining(a) \/ CancelThinking(a)
    \/ Drained(a) \/ DrainTimeout(a) \/ SetStopped(a) \/ CloseStopped(a) \/ AwaitStopped(a)

DispatchStep(c) == Deliver(c) \/ NoThink(c) \/ RaiseGauge(c) \/ Launch(c)

Next ==
    \/ \E r \in Runners : RunStep(r) \/ CtxDone(r)
    \/ \E s \in Stoppers : CallShutdown(s)
    \/ \E a \in Actors : ShutdownStep(a)
    \/ \E c \in Chs : DispatchStep(c)
    \/ \E t \in Thoughts : ThinkingEnds(t) \/ WgDone(t)
    \/ WaiterEnters \/ WaiterWakes

Spec == Init /\ [][Next]_vars

\* Goroutines are scheduled, network calls end and the drain timer fires.  A
\* message need not arrive, awareness and thinking need not end, nobody need
\* call Run or Shutdown.
FairSpec ==
    /\ Spec
    /\ \A a \in Actors : WF_vars(ShutdownStep(a))
    /\ \A r \in Runners : WF_vars(pc[r] # "idle" /\ RunStep(r))

-----------------------------------------------------------------------------
(* Properties *)

ControlTypes ==
    /\ valid \in BOOLEAN /\ booted \in BOOLEAN /\ rt \in BOOLEAN
    /\ state \in {"Created", "Starting", "Running", "Draining", "Stopped", "Failed"}
    /\ pc \in [Actors -> {"idle", "cas", "bind", "consume", "append", "select", "failed",
                          "undo1", "undo2", "shutdown", "drain", "unwind1", "unwind2",
                          "cancel", "wait", "stop", "close", "await", "returned"}]
    /\ res \in [Actors -> {"none", "nil", "deadline", "config", "already", "start failed",
                           "not started"}]
    /\ crash \in {"no", "nil runtime", "torn slice", "nil consume loop", "WaitGroup reused"}
BindTypes ==
    /\ next \in 1..(Len(Channels) + 1)
    /\ subs \in [Chs -> Nat]
    /\ channels \subseteq Chs
    /\ named \subseteq EphemeralChs /\ consumers \subseteq EphemeralChs
    /\ orphans \subseteq EphemeralChs
ThinkTypes ==
    /\ disp \in [Chs -> {"idle", "awareness", "launch"}]
    /\ task \in [Thoughts -> {"none", "running", "exiting", "done"}]
    /\ inflight \in Nat /\ wg \in Nat
DrainTypes ==
    /\ waiter \in {"none", "started", "waiting", "woken", "done"}
    /\ awaited \subseteq Thoughts
    /\ sdOnce \in BOOLEAN /\ stopped \in BOOLEAN
    /\ shutdownErr \in {"nil", "deadline"}

\* Every variable keeps its type; the gauge and the WaitGroup never go below
\* zero, which in the program would be a panic.
TypeOK == ControlTypes /\ BindTypes /\ ThinkTypes /\ DrainTypes

\* Ready() means what callers use it for: while the state is Running, every
\* declared channel has exactly one live subscription, however many times Run
\* was called.
ReadyMeansSubscribed ==
    state = "Running" => \A c \in Chs : subs[c] = 1

\* Once Shutdown has finished, or Run has returned a startup error, no channel
\* is subscribed and no ephemeral consumer is left on the server except where
\* a JetStream call failed.
NoSubscriptionLeak ==
    stopped \/ (\E r \in Runners : res[r] = "start failed") =>
        /\ \A c \in Chs : subs[c] = 0
        /\ consumers \subseteq orphans

\* Shutdown may be called any number of times, and by Run's own context too:
\* no call returns before the one that drains is done, and all return the same.
ShutdownCallersAgree ==
    \A a \in Actors : res[a] \in {"nil", "deadline"} => stopped /\ res[a] = shutdownErr

\* A nil from Shutdown means that every thought that was under way when the
\* drain began has finished, deferred calls included.
DrainedMeansFinished ==
    stopped /\ shutdownErr = "nil" => \A t \in awaited : task[t] = "done"

\* Shutdown returns (and Run after it) even if no thought ever ends.
ShutdownReturns ==
    \A a \in Actors : pc[a] = "shutdown" ~> (pc[a] = "returned" \/ crash # "no")

\* imp.go:104-106: once a Shutdown has begun every Run that was called returns,
\* be it still starting, binding or failing, and although the Running it sets
\* then may overwrite the Stopped of that Shutdown (imp.go:124).
RunReturns ==
    \A r \in Runners : (pc[r] # "idle" /\ sdOnce) ~> (pc[r] = "returned" \/ crash # "no")

-----------------------------------------------------------------------------
(* What the documents say and the code does not do *)

\* internal/lifecycle/state.go:9-11, "Transitions are one-way": a stopped imp
\* does not become Running, and Ready, again.
StoppedNeverRuns == [][state = "Stopped" => state' # "Running"]_vars

\* spec.md:273 (SC-009), Shutdown "leaves no subscriptions": when Run and every
\* Shutdown have returned, no subscription and no ephemeral consumer remains
\* (unless a JetStream call failed).
NothingLeftBehind ==
    (\A a \in Actors : pc[a] = "returned") =>
        (\A c \in Chs : subs[c] = 0) /\ consumers \subseteq orphans

\* thinking.go:8-9 and spec.md:240 (FR-036): after Shutdown has returned nil no
\* thinking is in flight.
NilShutdownMeansQuiet ==
    stopped /\ shutdownErr = "nil" => \A t \in Thoughts : task[t] \notin {"running", "exiting"}

\* imp.go:196-199, "waits up to drain_window for thinking to complete, and
\* returns": the Wait of waitDrain does not take the process down.
ShutdownNeverPanics == crash # "WaitGroup reused"

\* start.go:67-68, unwind is "Called both on startup failure (mid-establishment)
\* and on shutdown. Idempotent.": the two never bring the process down.
UnwindIdempotent == crash # "nil consume loop"

\* options.go:52-53, "A non-positive duration is rejected at Run with
\* *ErrConfigInvalid": no Run of an imp with such an option ends otherwise.
BadOptionRejected == ~valid => crash = "no"

\* spec.md:148 and 239 (FR-035): after a failed start no dispatch is running.
FailedStartQuiet ==
    (\E r \in Runners : res[r] = "start failed") => \A c \in Chs : disp[c] = "idle"

\* spec.md:238 (FR-034): every subscription is established before the first
\* message is dispatched.
DispatchAfterStartup ==
    (\E c \in Chs : disp[c] # "idle") => state # "Starting"
=============================================================================
