------------------------- MODULE ImpLifecycleProofs -------------------------
(***************************************************************************)
(* Proofs about ImpLifecycle for any goroutines that call Run and Shutdown,*)
(* any channels and any number of thoughts: what is left after a shutdown  *)
(* or a failed start, what Ready means, and what Shutdown returns.         *)
(***************************************************************************)
EXTENDS ImpLifecycle, FiniteSetTheorems, TLAPS

-----------------------------------------------------------------------------
(* What makes the properties inductive *)

\* For the types: the gauge and the WaitGroup count the thoughts
\* under way, and the CompareAndSwap elects one Run, which counts the channels.
Underway == {t \in Thoughts : task[t] \in {"running", "exiting"}}
Launching == {c \in Chs : disp[c] = "launch"}
CountsExact ==
    /\ wg = Cardinality(Underway)
    /\ inflight = Cardinality({t \in Thoughts : task[t] = "running"}) + Cardinality(Launching)

Startup == {"bind", "consume", "append", "failed"}
OneStarts ==
    /\ \A a, b \in Actors : pc[a] \in Startup /\ pc[b] \in Startup => a = b
    /\ \A a \in Actors : pc[a] \in Startup => state # "Created"
    /\ \A a \in Actors : pc[a] \in {"consume", "append"} => next <= Len(Channels)
TypeInv == TypeOK /\ CountsExact /\ OneStarts

\* For ShutdownCallersAgree and DrainedMeansFinished: one caller drains, the Once
\* sees to that, nothing has been waited for before it starts the waiter, and what that has
\* seen finished is finished.
DrainPath == {"drain", "unwind1", "unwind2", "cancel", "wait", "stop", "close"}
OneDrains ==
    /\ \A a, b \in Actors : pc[a] \in DrainPath /\ pc[b] \in DrainPath => a = b
    /\ (\E a \in Actors : pc[a] \in DrainPath) => sdOnce /\ ~stopped
    /\ stopped => sdOnce
AwaitedDone == \A t \in awaited : task[t] = "done"
WaitSound ==
    /\ \A t \in awaited : task[t] # "none"
    /\ waiter # "none" =>
          sdOnce /\ \A a \in Actors : pc[a] \notin {"drain", "unwind1", "unwind2", "cancel"}
    /\ waiter = "done" => AwaitedDone
    /\ shutdownErr = "nil" /\ (stopped \/ \E a \in Actors : pc[a] \in {"stop", "close"}) =>
          AwaitedDone
DrainInv == TypeInv /\ OneDrains /\ WaitSound /\ ShutdownCallersAgree

\* For the rest, when Shutdown is not called during startup.
\* Until the Run that starts the imp is done nobody shuts down or unwinds.
Ended == {"Failed", "Draining", "Stopped"}
Fits(l, s) ==
    /\ l \in Startup => s = "Starting"
    /\ l \in {"select", "shutdown", "drain", "await"} => s \notin {"Created", "Starting"}
    /\ l \in {"undo1", "undo2"} \cup (DrainPath \ {"drain"}) => s \in Ended
Phases ==
    /\ \A a \in Actors : Fits(pc[a], state) /\ (res[a] = "start failed" => state \in Ended)
    /\ stopped => state \in Ended

\* The channel being bound, and those that are.
Current(l) == {c \in Chs : \E a \in Actors :
                 pc[a] \in l /\ next <= Len(Channels) /\ c = Channels[next]}
Binds ==
    /\ channels = {Channels[i] : i \in 1..(next - 1)}
    /\ state = "Running" => next > Len(Channels)
    /\ \A c \in Chs : subs[c] \in {0, 1} /\ (subs[c] = 1 => c \in channels \cup Current({"append"}))
    /\ state \notin Ended => \A c \in channels \cup Current({"append"}) : subs[c] = 1
    /\ consumers \subseteq named \cup orphans \cup Current({"consume", "append"})

\* Whoever has unwound has left nothing: no subscription after the first loop,
\* no consume loop and no consumer after teardownStreamConsumers.
Unsubscribed(a) ==
    pc[a] \in {"undo2"} \cup (DrainPath \ {"drain", "unwind1"}) \/ res[a] = "start failed"
TornDown(a) == pc[a] \in {"cancel", "wait", "stop", "close"} \/ res[a] = "start failed"
Unwound ==
    /\ stopped \/ (\E a \in Actors : Unsubscribed(a)) => \A c \in SubjectChs : subs[c] = 0
    /\ stopped \/ (\E a \in Actors : TornDown(a)) =>
          (\A c \in StreamChs : subs[c] = 0) /\ consumers \subseteq orphans
StartInv == TypeInv /\ Phases /\ Binds /\ Unwound

-----------------------------------------------------------------------------
(* Types and counts *)

LEMMA ChannelAt == ASSUME NEW i \in 1..Len(Channels) PROVE Channels[i] \in Chs
BY DEF Chs

LEMMA LenNat == Len(Channels) \in Nat
BY ChannelsDeclared

LEMMA FiniteParts == IsFiniteSet(Thoughts) /\ IsFiniteSet(Chs)
<1>1. IsFiniteSet(Thoughts)
  BY ThoughtsBound, FS_Interval DEF Thoughts
<1>2. IsFiniteSet(Chs)
  <2> DEFINE f == [i \in 1..Len(Channels) |-> Channels[i]]
  <2>1. f \in Surjection(1..Len(Channels), Chs)
    BY DEF Surjection, Chs
  <2>2. IsFiniteSet(1..Len(Channels))
    BY LenNat, FS_Interval
  <2> QED  BY <2>1, <2>2, FS_Surjection
<1> QED  BY <1>1, <1>2

\* The counts are natural numbers.
LEMMA CountsNat == CountsExact => wg \in Nat /\ inflight \in Nat
<1>1. IsFiniteSet(Underway) /\ IsFiniteSet({t \in Thoughts : task[t] = "running"})
  BY FiniteParts, FS_Subset DEF Underway
<1>2. IsFiniteSet(Launching)
  BY FiniteParts, FS_Subset DEF Launching
<1>3. /\ Cardinality(Underway) \in Nat
      /\ Cardinality({t \in Thoughts : task[t] = "running"}) \in Nat
      /\ Cardinality(Launching) \in Nat
  BY <1>1, <1>2, FS_CardinalityType
<1> QED  BY <1>3 DEF CountsExact

Running == {t \in Thoughts : task[t] = "running"}

LEMMA Finite == IsFiniteSet(Underway) /\ IsFiniteSet(Running) /\ IsFiniteSet(Launching)
BY FiniteParts, FS_Subset DEF Underway, Running, Launching

LEMMA DispatchCounts ==
    ASSUME TypeInv, NEW c \in Chs, DispatchStep(c)
    PROVE  CountsExact'
<1>0. /\ disp \in [Chs -> {"idle", "awareness", "launch"}]
      /\ task \in [Thoughts -> {"none", "running", "exiting", "done"}]
      /\ wg \in Nat /\ inflight \in Nat
      /\ wg = Cardinality(Underway) /\ inflight = Cardinality(Running) + Cardinality(Launching)
  BY DEF TypeInv, TypeOK, ThinkTypes, CountsExact, Running
<1>1. Cardinality(Running) \in Nat /\ Cardinality(Launching) \in Nat
  BY Finite, FS_CardinalityType
<1>2. CASE Deliver(c) \/ NoThink(c)
  <2>1. Launching' = Launching /\ UNCHANGED <<task, wg, inflight>>
    BY <1>0, <1>2 DEF Deliver, NoThink, Dispatch, Launching
  <2>2. Running' = Running /\ Underway' = Underway
    BY <2>1 DEF Running, Underway
  <2> QED  BY <1>0, <2>1, <2>2 DEF CountsExact, Running
<1>3. CASE RaiseGauge(c)
  <2>1. Launching' = Launching \cup {c} /\ c \notin Launching
    BY <1>0, <1>3 DEF RaiseGauge, Dispatch, Launching
  <2>2. Running' = Running /\ Underway' = Underway /\ wg' = wg /\ inflight' = inflight + 1
    BY <1>3 DEF RaiseGauge, Running, Underway
  <2>3. Cardinality(Launching') = Cardinality(Launching) + 1
    BY <2>1, Finite, FS_AddElement
  <2> QED  BY <1>0, <1>1, <2>2, <2>3 DEF CountsExact, Running
<1>4. CASE Launch(c)
  <2>1. PICK t \in Thoughts : task[t] = "none" /\ task' = [task EXCEPT ![t] = "running"]
    BY <1>4 DEF Launch
  <2>2. Launching' = Launching \ {c} /\ c \in Launching /\ wg' = wg + 1 /\ inflight' = inflight
    BY <1>0, <1>4 DEF Launch, Dispatch, Launching
  <2>3. Running' = Running \cup {t} /\ t \notin Running
    BY <1>0, <2>1 DEF Running
  <2>4. Underway' = Underway \cup {t} /\ t \notin Underway
    BY <1>0, <2>1 DEF Underway
  <2>5. /\ Cardinality(Launching') = Cardinality(Launching) - 1
        /\ Cardinality(Running') = Cardinality(Running) + 1
        /\ Cardinality(Underway') = Cardinality(Underway) + 1
    BY <2>2, <2>3, <2>4, Finite, FS_AddElement, FS_RemoveElement
  <2> QED  BY <1>0, <1>1, <2>2, <2>5 DEF CountsExact, Running
<1> QED  BY <1>2, <1>3, <1>4 DEF DispatchStep

LEMMA ThinkingCounts ==
    ASSUME TypeInv, NEW t \in Thoughts, ThinkingEnds(t) \/ WgDone(t)
    PROVE  CountsExact'
<1>0. /\ task \in [Thoughts -> {"none", "running", "exiting", "done"}]
      /\ wg \in Nat /\ inflight \in Nat
      /\ wg = Cardinality(Underway) /\ inflight = Cardinality(Running) + Cardinality(Launching)
  BY DEF TypeInv, TypeOK, ThinkTypes, CountsExact, Running
<1>1. /\ Cardinality(Running) \in Nat /\ Cardinality(Launching) \in Nat
      /\ Launching' = Launching
  BY Finite, FS_CardinalityType DEF ThinkingEnds, WgDone, Launching
<1>2. CASE ThinkingEnds(t)
  <2>1. /\ Running' = Running \ {t} /\ t \in Running /\ Underway' = Underway
        /\ wg' = wg /\ inflight' = inflight - 1
    BY <1>0, <1>2 DEF ThinkingEnds, Running, Underway
  <2>2. Cardinality(Running') = Cardinality(Running) - 1
    BY <2>1, Finite, FS_RemoveElement
  <2> QED  BY <1>0, <1>1, <2>1, <2>2 DEF CountsExact, Running
<1>3. CASE WgDone(t)
  <2>1. /\ Running' = Running /\ Underway' = Underway \ {t} /\ t \in Underway
        /\ wg' = wg - 1 /\ inflight' = inflight
    BY <1>0, <1>3 DEF WgDone, Running, Underway
  <2>2. Cardinality(Underway') = Cardinality(Underway) - 1
    BY <2>1, Finite, FS_RemoveElement
  <2> QED  BY <1>0, <1>1, <2>1, <2>2 DEF CountsExact, Running
<1> QED  BY <1>2, <1>3

LEMMA OtherCounts == ASSUME TypeInv, UNCHANGED <<task, disp, wg, inflight>> PROVE CountsExact'
BY DEF TypeInv, CountsExact, Underway, Launching

-----------------------------------------------------------------------------
(* The steps of goroutines that call Run or Shutdown *)
\* The parts of the type invariant that a step leaves alone.
LEMMA BindFrame == ASSUME TypeOK, UNCHANGED <<next, subVars>> PROVE BindTypes'
BY DEF TypeOK, BindTypes, subVars
LEMMA ThinkFrame == ASSUME TypeOK, UNCHANGED thinkVars PROVE ThinkTypes'
BY DEF TypeOK, ThinkTypes, thinkVars
LEMMA DrainFrame == ASSUME TypeOK, UNCHANGED <<waitVars, downVars>> PROVE DrainTypes'
BY DEF TypeOK, DrainTypes, waitVars, downVars
LEMMA ControlFrame == ASSUME TypeOK, UNCHANGED <<rtVars, state, pc, res, crash>> PROVE ControlTypes'
BY DEF TypeOK, ControlTypes, rtVars

LEMMA TypesBoot ==
    ASSUME TypeInv, NEW r \in Runners, Boot(r) \/ BootAgain(r) \/ CasStarting(r)
    PROVE  TypeOK'
<1>0. TypeOK
  BY DEF TypeInv
<1>1. ControlTypes'
  <2>1. CASE Boot(r)
    BY <1>0, <2>1 DEF TypeOK, ControlTypes, Boot, At, Goto, Return, Actors
  <2>2. CASE BootAgain(r)
    BY <1>0, <2>2 DEF TypeOK, ControlTypes, BootAgain, At, Goto, Actors, rtVars
  <2>3. CASE CasStarting(r)
    BY <1>0, <2>3 DEF TypeOK, ControlTypes, CasStarting, At, Goto, Return, Actors, rtVars
  <2> QED  BY <2>1, <2>2, <2>3
<1>2. BindTypes' /\ ThinkTypes' /\ DrainTypes'
  BY <1>0, BindFrame, ThinkFrame, DrainFrame DEF Boot, BootAgain, CasStarting
<1> QED  BY <1>1, <1>2 DEF TypeOK

LEMMA TypesBind ==
    ASSUME TypeInv, NEW r \in Runners,
           \/ Subscribe(r) \/ ResolveConsumer(r) \/ Consume(r) \/ AppendChannel(r)
    PROVE  TypeOK'
<1>0. TypeOK /\ r \in Actors
  BY DEF TypeInv, Actors
<1>1. ControlTypes'
  <2>1. PICK l \in {"append", "failed", "consume", "bind"} : Goto(r, l)
    BY DEF Subscribe, ResolveConsumer, Consume, AppendChannel
  <2>2. UNCHANGED <<rtVars, state, res, crash>>
    BY DEF Subscribe, ResolveConsumer, Consume, AppendChannel
  <2> QED  BY <1>0, <2>1, <2>2 DEF TypeOK, ControlTypes, Goto, rtVars
<1>2. BindTypes'
  <2>0. BindTypes /\ (pc[r] \in {"consume", "append"} => next <= Len(Channels))
    BY <1>0 DEF TypeInv, TypeOK, OneStarts
  <2>1. CASE Subscribe(r)
    BY <2>0, <2>1, ChannelAt, LenNat DEF BindTypes, Subscribe
  <2>2. CASE ResolveConsumer(r)
    BY <2>0, <2>2, ChannelAt, LenNat DEF BindTypes, ResolveConsumer
  <2>3. CASE Consume(r)
    BY <2>0, <2>3, ChannelAt, LenNat DEF BindTypes, Consume, At
  <2>4. CASE AppendChannel(r)
    <3>1. next' \in 1..(Len(Channels) + 1) /\ Channels[next] \in Chs
      BY <2>0, <2>4, ChannelAt, LenNat DEF BindTypes, AppendChannel, At
    <3> QED  BY <2>0, <2>4, <3>1 DEF BindTypes, AppendChannel
  <2> QED  BY <2>1, <2>2, <2>3, <2>4
<1>3. ThinkTypes' /\ DrainTypes'
  BY <1>0, ThinkFrame, DrainFrame DEF Subscribe, ResolveConsumer, Consume, AppendChannel
<1> QED  BY <1>1, <1>2, <1>3 DEF TypeOK

LEMMA TypesRun ==
    ASSUME TypeInv, NEW r \in Runners,
           SetRunning(r) \/ SetFailed(r) \/ RunStopped(r) \/ CtxDone(r)
    PROVE  TypeOK'
<1>0. TypeOK /\ r \in Actors
  BY DEF TypeInv, Actors
<1>1. ControlTypes'
  <2>1. CASE SetRunning(r) \/ SetFailed(r) \/ CtxDone(r)
    BY <1>0, <2>1 DEF TypeOK, ControlTypes, SetRunning, SetFailed, CtxDone, Goto, rtVars
  <2>2. CASE RunStopped(r)
    BY <1>0, <2>2 DEF TypeOK, ControlTypes, DrainTypes, RunStopped, Goto, Return, rtVars
  <2> QED  BY <2>1, <2>2
<1>2. BindTypes' /\ ThinkTypes' /\ DrainTypes'
  BY <1>0, BindFrame, ThinkFrame, DrainFrame DEF SetRunning, SetFailed, CtxDone, RunStopped
<1> QED  BY <1>1, <1>2 DEF TypeOK

LEMMA TypesUnwind ==
    ASSUME TypeInv, NEW a \in Actors,
           Unsubscribe(a) \/ Teardown(a) \/ TornRead(a) \/ RacingTeardown(a)
    PROVE  TypeOK'
<1>0. TypeOK
  BY DEF TypeInv
<1>1. CASE Unsubscribe(a)
  <2>1. ControlTypes'
    BY <1>0, <1>1 DEF TypeOK, ControlTypes, Unsubscribe, Goto, rtVars
  <2>2. BindTypes'
    BY <1>0, <1>1 DEF TypeOK, BindTypes, Unsubscribe
  <2> QED  BY <1>0, <1>1, <2>1, <2>2, ThinkFrame, DrainFrame DEF TypeOK, Unsubscribe
<1>2. CASE Teardown(a)
  <2>1. ControlTypes'
    BY <1>0, <1>2 DEF TypeOK, ControlTypes, Teardown, Goto, Return, rtVars
  <2>2. BindTypes'
    BY <1>0, <1>2 DEF TypeOK, BindTypes, Teardown
  <2> QED  BY <1>0, <1>2, <2>1, <2>2, ThinkFrame, DrainFrame DEF TypeOK, Teardown
<1>3. CASE TornRead(a) \/ RacingTeardown(a)
  <2>1. ControlTypes'
    BY <1>0, <1>3 DEF TypeOK, ControlTypes, TornRead, RacingTeardown, rtVars
  <2> QED  BY <1>0, <1>3, <2>1, BindFrame, ThinkFrame, DrainFrame DEF TypeOK, TornRead, RacingTeardown
<1> QED  BY <1>1, <1>2, <1>3

LEMMA TypesShutdown ==
    ASSUME TypeInv, NEW a \in Actors,
           \/ ShutdownOnce(a) \/ SetDraining(a) \/ CancelThinking(a)
           \/ Drained(a) \/ DrainTimeout(a) \/ SetStopped(a) \/ CloseStopped(a) \/ AwaitStopped(a)
           \/ CallShutdown(a)
    PROVE  TypeOK'
<1>0. TypeOK
  BY DEF TypeInv
<1>1. BindTypes' /\ ThinkTypes'
  BY <1>0, BindFrame, ThinkFrame DEF ShutdownOnce, SetDraining, CancelThinking, Drained,
     DrainTimeout, SetStopped, CloseStopped, AwaitStopped, CallShutdown
<1>2. CASE SetDraining(a) \/ SetStopped(a) \/ AwaitStopped(a) \/ CallShutdown(a)
  <2>1. ControlTypes'
    BY <1>0, <1>2 DEF TypeOK, ControlTypes, DrainTypes, SetDraining, SetStopped, AwaitStopped,
       CallShutdown, Goto, Return, rtVars
  <2> QED  BY <1>0, <1>1, <1>2, <2>1, DrainFrame
           DEF TypeOK, SetDraining, SetStopped, AwaitStopped, CallShutdown
<1>3. CASE ShutdownOnce(a) \/ CancelThinking(a)
  <2>1. ControlTypes'
    BY <1>0, <1>3 DEF TypeOK, ControlTypes, ShutdownOnce, CancelThinking, Goto, rtVars
  <2>2. DrainTypes'
    BY <1>0, <1>3 DEF TypeOK, DrainTypes, ShutdownOnce, CancelThinking, waitVars, downVars
  <2> QED  BY <1>1, <2>1, <2>2 DEF TypeOK
<1>4. CASE Drained(a) \/ DrainTimeout(a) \/ CloseStopped(a)
  <2>1. ControlTypes'
    BY <1>0, <1>4 DEF TypeOK, ControlTypes, Drained, DrainTimeout, CloseStopped, Goto, rtVars
  <2>2. DrainTypes'
    BY <1>0, <1>4 DEF TypeOK, DrainTypes, Drained, DrainTimeout, CloseStopped, waitVars
  <2> QED  BY <1>1, <2>1, <2>2 DEF TypeOK
<1> QED  BY <1>2, <1>3, <1>4

-----------------------------------------------------------------------------
(* One Run starts the imp *)

LEMMA OneStartsStep ==
    ASSUME TypeInv, NEW a \in Actors, NEW l, pc' = [pc EXCEPT ![a] = l],
           state' = "Created" => state = "Created",
           l \in Startup => state' # "Created" /\ (pc[a] \in Startup \/ state = "Created"),
           l \in {"consume", "append"} => next' <= Len(Channels),
           next' = next \/ pc[a] \in Startup
    PROVE  OneStarts'
<1>0. /\ OneStarts /\ DOMAIN pc = Actors /\ {"consume", "append"} \subseteq Startup
      /\ pc'[a] = l /\ \A b \in Actors : b # a => pc'[b] = pc[b]
  BY DEF TypeInv, TypeOK, ControlTypes, Startup
<1>1. ASSUME NEW b \in Actors, b # a, pc'[b] \in Startup, l \in Startup PROVE FALSE
  BY <1>0, <1>1 DEF OneStarts
<1>2. ASSUME NEW b \in Actors, NEW d \in Actors, pc'[b] \in Startup, pc'[d] \in Startup
      PROVE  b = d
  BY <1>0, <1>1, <1>2 DEF OneStarts
<1>3. ASSUME NEW b \in Actors, pc'[b] \in Startup PROVE state' # "Created"
  BY <1>0, <1>3 DEF OneStarts
<1>4. ASSUME NEW b \in Actors, pc'[b] \in {"consume", "append"} PROVE next' <= Len(Channels)
  BY <1>0, <1>4 DEF OneStarts
<1> QED  BY <1>2, <1>3, <1>4 DEF OneStarts

LEMMA OneStartsFrame == ASSUME OneStarts, UNCHANGED <<pc, state, next>> PROVE OneStarts'
BY DEF OneStarts

LEMMA OneStartsRun ==
    ASSUME TypeInv, NEW r \in Runners, RunStep(r) \/ CtxDone(r)
    PROVE  OneStarts'
<1>0. r \in Actors /\ OneStarts
  BY DEF Actors, TypeInv
<1> USE <1>0
<1>1. CASE Boot(r) \/ BootAgain(r)
  <2>1. CASE UNCHANGED pc
    BY <1>1, <2>1, OneStartsFrame DEF Boot, BootAgain
  <2>2. CASE ~UNCHANGED pc
    <3>1. PICK l \in {"cas", "returned"} : pc' = [pc EXCEPT ![r] = l]
      BY <1>1, <2>2 DEF Boot, BootAgain, Goto, Return
    <3>2. l \notin Startup /\ UNCHANGED <<state, next>>
      BY <1>1 DEF Startup, Boot, BootAgain
    <3> QED  BY <3>1, <3>2, OneStartsStep DEF Startup
  <2> QED  BY <2>1, <2>2
<1>2. CASE CasStarting(r)
  <2>1. PICK l \in {"bind", "returned"} :
          /\ pc' = [pc EXCEPT ![r] = l] /\ next' = next
          /\ \/ l = "bind" /\ state = "Created" /\ state' = "Starting"
             \/ l = "returned" /\ state' = state
    BY <1>2 DEF CasStarting, Goto, Return
  <2> QED  BY <2>1, OneStartsStep DEF Startup
<1>3. CASE Subscribe(r) \/ ResolveConsumer(r) \/ Consume(r)
  <2>1. PICK l \in {"consume", "append", "failed"} : pc' = [pc EXCEPT ![r] = l]
    BY <1>3 DEF Subscribe, ResolveConsumer, Consume, Goto
  <2>2. pc[r] \in {"bind", "consume"} /\ UNCHANGED <<state, next>>
    BY <1>3 DEF Subscribe, ResolveConsumer, Consume, At
  <2>3. next <= Len(Channels)
    BY <1>3 DEF Subscribe, ResolveConsumer, Consume, At, OneStarts
  <2>4. state # "Created"
    BY <2>2 DEF OneStarts, Startup
  <2> QED  BY <2>1, <2>2, <2>3, <2>4, OneStartsStep DEF Startup
<1>4. CASE AppendChannel(r)
  <2>1. pc[r] \in Startup /\ state # "Created"
    BY <1>4 DEF AppendChannel, At, OneStarts, Startup
  <2> QED  BY <1>4, <2>1, OneStartsStep DEF AppendChannel, Goto
<1>5. CASE SetRunning(r) \/ SetFailed(r)
  <2>1. PICK l \in {"select", "undo1"} : pc' = [pc EXCEPT ![r] = l]
    BY <1>5 DEF SetRunning, SetFailed, Goto
  <2>2. l \notin Startup /\ state' # "Created" /\ next' = next
    BY <1>5 DEF Startup, SetRunning, SetFailed
  <2> QED  BY <2>1, <2>2, OneStartsStep DEF Startup
<1>6. CASE RunStopped(r) \/ CtxDone(r)
  <2>1. PICK l \in {"returned", "shutdown"} : pc' = [pc EXCEPT ![r] = l]
    BY <1>6 DEF RunStopped, CtxDone, Goto, Return
  <2>2. l \notin Startup /\ UNCHANGED <<state, next>>
    BY <1>6 DEF Startup, RunStopped, CtxDone
  <2> QED  BY <2>1, <2>2, OneStartsStep DEF Startup
<1> QED  BY <1>1, <1>2, <1>3, <1>4, <1>5, <1>6 DEF RunStep

LEMMA OneStartsShutdown ==
    ASSUME TypeInv, NEW a \in Actors, ShutdownStep(a) \/ CallShutdown(a)
    PROVE  OneStarts'
<1>1. CASE TornRead(a) \/ RacingTeardown(a)
  BY <1>1, OneStartsFrame DEF TypeInv, TornRead, RacingTeardown
<1>2. CASE ~TornRead(a) /\ ~RacingTeardown(a)
  <2>1. PICK l \in {"undo2", "unwind2", "returned", "cancel", "await", "drain", "unwind1",
                    "wait", "stop", "close", "shutdown"} : pc' = [pc EXCEPT ![a] = l]
    <3>1. CASE Unsubscribe(a) \/ Teardown(a) \/ CallShutdown(a)
      BY <3>1 DEF Unsubscribe, Teardown, CallShutdown, Goto, Return
    <3>2. CASE ShutdownOnce(a) \/ SetDraining(a) \/ CancelThinking(a)
      BY <3>2 DEF ShutdownOnce, SetDraining, CancelThinking, Goto
    <3>3. CASE Drained(a) \/ DrainTimeout(a) \/ SetStopped(a) \/ CloseStopped(a) \/ AwaitStopped(a)
      BY <3>3 DEF Drained, DrainTimeout, SetStopped, CloseStopped, AwaitStopped, Goto, Return
    <3> QED  BY <1>2, <3>1, <3>2, <3>3 DEF ShutdownStep
  <2>2. next' = next /\ (state' = "Created" => state = "Created")
    BY <1>2 DEF ShutdownStep, Unsubscribe, Teardown, CallShutdown, ShutdownOnce, SetDraining,
       CancelThinking, Drained, DrainTimeout, SetStopped, CloseStopped, AwaitStopped
  <2>3. l \notin Startup
    BY DEF Startup
  <2> QED  BY <2>1, <2>2, <2>3, OneStartsStep DEF Startup
<1> QED  BY <1>1, <1>2

-----------------------------------------------------------------------------
(* The dispatch callbacks, the thoughts and the waiter *)

LEMMA DispatchTypeInv ==
    ASSUME TypeInv, NEW c \in Chs, DispatchStep(c)
    PROVE  TypeInv'
<1>0. TypeOK /\ OneStarts
  BY DEF TypeInv
<1>1. CountsExact'
  BY DispatchCounts
<1>2. UNCHANGED <<rtVars, state, pc, res, next, subVars, waitVars, downVars, crash>>
  BY DEF DispatchStep, Deliver, NoThink, RaiseGauge, Launch, Dispatch
<1>3. ThinkTypes'
  <2>1. (wg \in Nat /\ inflight \in Nat)'
    BY <1>1, CountsNat, PTL
  <2>2. disp' \in [Chs -> {"idle", "awareness", "launch"}]
    BY <1>0 DEF TypeOK, ThinkTypes, DispatchStep, Deliver, NoThink, RaiseGauge, Launch, Dispatch
  <2>3. task' \in [Thoughts -> {"none", "running", "exiting", "done"}]
    BY <1>0 DEF TypeOK, ThinkTypes, DispatchStep, Deliver, NoThink, RaiseGauge, Launch
  <2> QED  BY <2>1, <2>2, <2>3 DEF ThinkTypes
<1> QED  BY <1>0, <1>1, <1>2, <1>3, ControlFrame, BindFrame, DrainFrame, OneStartsFrame
         DEF TypeInv, TypeOK

LEMMA ThinkingTypeInv ==
    ASSUME TypeInv, NEW t \in Thoughts, ThinkingEnds(t) \/ WgDone(t)
    PROVE  TypeInv'
<1>0. TypeOK /\ OneStarts
  BY DEF TypeInv
<1>1. CountsExact'
  BY ThinkingCounts
<1>2. UNCHANGED <<rtVars, state, pc, res, next, subVars, downVars, crash>>
  BY DEF ThinkingEnds, WgDone
<1>3. ThinkTypes'
  <2>1. (wg \in Nat /\ inflight \in Nat)'
    BY <1>1, CountsNat, PTL
  <2>2. disp' \in [Chs -> {"idle", "awareness", "launch"}]
    BY <1>0 DEF TypeOK, ThinkTypes, ThinkingEnds, WgDone
  <2>3. task' \in [Thoughts -> {"none", "running", "exiting", "done"}]
    BY <1>0 DEF TypeOK, ThinkTypes, ThinkingEnds, WgDone
  <2> QED  BY <2>1, <2>2, <2>3 DEF ThinkTypes
<1>4. DrainTypes'
  BY <1>0, <1>2 DEF TypeOK, DrainTypes, ThinkingEnds, WgDone, waitVars, downVars
<1> QED  BY <1>0, <1>1, <1>2, <1>3, <1>4, ControlFrame, BindFrame, OneStartsFrame
         DEF TypeInv, TypeOK

LEMMA WaiterTypeInv ==
    ASSUME TypeInv, WaiterEnters \/ WaiterWakes
    PROVE  TypeInv'
<1>0. TypeOK /\ OneStarts
  BY DEF TypeInv
<1>1. UNCHANGED <<rtVars, state, pc, res, next, subVars, thinkVars, awaited, downVars>>
  BY DEF WaiterEnters, WaiterWakes
<1>2. CountsExact'
  BY <1>1, OtherCounts DEF thinkVars
<1>3. ControlTypes'
  BY <1>0, <1>1 DEF TypeOK, ControlTypes, WaiterEnters, WaiterWakes, rtVars
<1>4. DrainTypes'
  BY <1>0, <1>1 DEF TypeOK, DrainTypes, WaiterEnters, WaiterWakes, downVars
<1> QED  BY <1>0, <1>1, <1>2, <1>3, <1>4, BindFrame, ThinkFrame, OneStartsFrame
         DEF TypeInv, TypeOK

LEMMA InitTypeInv == ASSUME Init PROVE TypeInv
<1>0. valid \in BOOLEAN /\ booted = FALSE /\ rt = FALSE
  BY OptionsToExplore DEF Init
<1>1. ControlTypes /\ BindTypes
  <2>1. ControlTypes
    BY <1>0 DEF Init, ControlTypes
  <2>2. BindTypes
    BY LenNat DEF Init, BindTypes
  <2> QED  BY <2>1, <2>2
<1>2. ThinkTypes /\ DrainTypes
  BY DEF Init, ThinkTypes, DrainTypes
<1>3. CountsExact
  <2>1. /\ Underway = {} /\ Launching = {} /\ {t \in Thoughts : task[t] = "running"} = {}
        /\ wg = 0 /\ inflight = 0
    BY DEF Init, Underway, Launching
  <2> QED  BY <2>1, FS_EmptySet DEF CountsExact
<1>4. OneStarts
  BY DEF Init, OneStarts, Startup
<1> QED  BY <1>1, <1>2, <1>3, <1>4 DEF TypeInv, TypeOK

LEMMA NextTypeInv == ASSUME TypeInv, [Next]_vars PROVE TypeInv'
<1>1. CASE UNCHANGED vars
  <2>1. TypeOK /\ OneStarts
    BY DEF TypeInv
  <2>2. CountsExact'
    BY <1>1, OtherCounts DEF vars, thinkVars
  <2> QED  BY <1>1, <2>1, <2>2, ControlFrame, BindFrame, ThinkFrame, DrainFrame, OneStartsFrame
           DEF TypeInv, TypeOK, vars
<1>2. ASSUME NEW r \in Runners, RunStep(r) \/ CtxDone(r) PROVE TypeInv'
  <2>1. TypeOK'
    BY <1>2, TypesBoot, TypesBind, TypesRun DEF RunStep
  <2>2. UNCHANGED <<task, disp, wg, inflight>>
    BY <1>2 DEF RunStep, CtxDone, Boot, BootAgain, CasStarting, Subscribe, ResolveConsumer, Consume,
       AppendChannel, SetRunning, SetFailed, RunStopped, thinkVars
  <2> QED  BY <1>2, <2>1, <2>2, OtherCounts, OneStartsRun DEF TypeInv
<1>3. ASSUME NEW a \in Actors, ShutdownStep(a) \/ CallShutdown(a) PROVE TypeInv'
  <2>1. TypeOK'
    BY <1>3, TypesUnwind, TypesShutdown DEF ShutdownStep
  <2>2. UNCHANGED <<task, disp, wg, inflight>>
    BY <1>3 DEF ShutdownStep, CallShutdown, Unsubscribe, Teardown, TornRead, RacingTeardown,
       ShutdownOnce, SetDraining, CancelThinking, Drained, DrainTimeout, SetStopped, CloseStopped,
       AwaitStopped, thinkVars
  <2> QED  BY <1>3, <2>1, <2>2, OtherCounts, OneStartsShutdown DEF TypeInv
<1> QED  BY <1>1, <1>2, <1>3, DispatchTypeInv, ThinkingTypeInv, WaiterTypeInv DEF Next, Actors

\* Every variable keeps its type, the gauge and the WaitGroup count exactly the
\* thoughts that are under way, and at most one Run ever starts the imp.
THEOREM LifecycleTypes == Spec => []TypeInv
<1>1. Init => TypeInv
  BY InitTypeInv
<1>2. TypeInv /\ [Next]_vars => TypeInv'
  BY NextTypeInv
<1> QED  BY <1>1, <1>2, PTL DEF Spec

-----------------------------------------------------------------------------
(* Draining *)

\* A step that moves one actor off the path of the drain or along the part of
\* it before the waiter is started, and touches nothing the drain is about.
LEMMA QuietStep ==
    ASSUME DrainInv, NEW a \in Actors, NEW l,
           pc' = pc \/ pc' = [pc EXCEPT ![a] = l],
           \/ pc[a] \notin DrainPath /\ l \notin DrainPath
           \/ /\ pc[a] \in {"drain", "unwind1", "unwind2", "cancel"}
              /\ l \in {"unwind1", "unwind2", "cancel"},
           res' = res \/ \E x : res' = [res EXCEPT ![a] = x] /\ x \notin {"nil", "deadline"},
           UNCHANGED <<task, waitVars, downVars>>
    PROVE  OneDrains' /\ WaitSound' /\ ShutdownCallersAgree'
<1>0. /\ OneDrains /\ WaitSound /\ ShutdownCallersAgree
      /\ DOMAIN pc = Actors /\ DOMAIN res = Actors
      /\ UNCHANGED <<waiter, awaited, sdOnce, shutdownErr, stopped>>
  BY DEF DrainInv, TypeInv, TypeOK, ControlTypes, waitVars, downVars
<1>1. \A b \in Actors : pc'[b] \in DrainPath => pc[b] \in DrainPath
  BY <1>0 DEF DrainPath
<1>2. OneDrains'
  BY <1>0, <1>1 DEF OneDrains
<1>3. /\ \A b \in Actors : pc'[b] \in {"drain", "unwind1", "unwind2", "cancel"} =>
            pc[b] \in {"drain", "unwind1", "unwind2", "cancel"}
      /\ \A b \in Actors : pc'[b] \in {"stop", "close"} => pc[b] \in {"stop", "close"}
  BY <1>0 DEF DrainPath
<1>4. WaitSound'
  <2>1. AwaitedDone' = AwaitedDone
    BY <1>0 DEF AwaitedDone
  <2> QED  BY <1>0, <1>3, <2>1 DEF WaitSound
<1>5. ShutdownCallersAgree'
  BY <1>0 DEF ShutdownCallersAgree
<1> QED  BY <1>2, <1>4, <1>5

LEMMA DrainRun ==
    ASSUME DrainInv, NEW r \in Runners, RunStep(r) \/ CtxDone(r), ~RunStopped(r)
    PROVE  OneDrains' /\ WaitSound' /\ ShutdownCallersAgree'
<1>0. r \in Actors
  BY DEF Actors
<1>1. UNCHANGED <<task, waitVars, downVars>>
  BY DEF RunStep, CtxDone, Boot, BootAgain, CasStarting, Subscribe, ResolveConsumer, Consume,
     AppendChannel, SetRunning, SetFailed, thinkVars
<1>2. pc[r] \notin DrainPath
  BY DEF RunStep, CtxDone, Boot, BootAgain, CasStarting, Subscribe, ResolveConsumer, Consume,
     AppendChannel, SetRunning, SetFailed, At, DrainPath
<1>3. PICK l \in {"cas", "returned", "bind", "append", "consume", "failed", "select", "undo1",
                  "shutdown"} : pc' = pc \/ pc' = [pc EXCEPT ![r] = l]
  <2>1. CASE Boot(r) \/ BootAgain(r) \/ CasStarting(r)
    BY <2>1 DEF Boot, BootAgain, CasStarting, Goto, Return
  <2>2. CASE Subscribe(r) \/ ResolveConsumer(r) \/ Consume(r)
    BY <2>2 DEF Subscribe, ResolveConsumer, Consume, Goto
  <2>3. CASE AppendChannel(r) \/ SetRunning(r) \/ SetFailed(r) \/ CtxDone(r)
    BY <2>3 DEF AppendChannel, SetRunning, SetFailed, CtxDone, Goto
  <2> QED  BY <2>1, <2>2, <2>3 DEF RunStep
<1>4. res' = res \/ \E x : res' = [res EXCEPT ![r] = x] /\ x \notin {"nil", "deadline"}
  <2>1. CASE Boot(r) \/ BootAgain(r) \/ CasStarting(r)
    BY <2>1 DEF Boot, BootAgain, CasStarting, Return
  <2>2. CASE ~(Boot(r) \/ BootAgain(r) \/ CasStarting(r))
    BY <2>2 DEF RunStep, CtxDone, Subscribe, ResolveConsumer, Consume, AppendChannel, SetRunning,
       SetFailed
  <2> QED  BY <2>1, <2>2
<1>5. l \notin DrainPath
  BY DEF DrainPath
<1> QED  BY <1>0, <1>1, <1>2, <1>3, <1>4, <1>5, QuietStep

\* Run returns what the Shutdown that has finished returned.
LEMMA DrainReturns ==
    ASSUME DrainInv, NEW a \in Actors,
           pc[a] \notin DrainPath, stopped, Return(a, shutdownErr),
           UNCHANGED <<task, waitVars, downVars>>
    PROVE  OneDrains' /\ WaitSound' /\ ShutdownCallersAgree'
<1>0. /\ OneDrains /\ WaitSound /\ ShutdownCallersAgree
      /\ DOMAIN pc = Actors /\ DOMAIN res = Actors
      /\ UNCHANGED <<waiter, awaited, sdOnce, shutdownErr, stopped>>
      /\ pc' = [pc EXCEPT ![a] = "returned"] /\ res' = [res EXCEPT ![a] = shutdownErr]
  BY DEF DrainInv, TypeInv, TypeOK, ControlTypes, waitVars, downVars, Return, Goto
<1>1. \A b \in Actors : pc'[b] = pc[b] \/ pc'[b] = "returned"
  BY <1>0
<1>2. OneDrains'
  BY <1>0, <1>1 DEF OneDrains, DrainPath
<1>3. WaitSound'
  <2>1. AwaitedDone' = AwaitedDone
    BY <1>0 DEF AwaitedDone
  <2> QED  BY <1>0, <1>1, <2>1 DEF WaitSound
<1>4. ShutdownCallersAgree'
  BY <1>0 DEF ShutdownCallersAgree
<1> QED  BY <1>2, <1>3, <1>4

LEMMA DrainUnwind ==
    ASSUME DrainInv, NEW a \in Actors,
           \/ Unsubscribe(a) \/ Teardown(a) \/ TornRead(a) \/ RacingTeardown(a)
           \/ SetDraining(a) \/ CallShutdown(a)
    PROVE  OneDrains' /\ WaitSound' /\ ShutdownCallersAgree'
<1>1. UNCHANGED <<task, waitVars, downVars>>
  BY DEF Unsubscribe, Teardown, TornRead, RacingTeardown, SetDraining, CallShutdown, thinkVars
<1>2. res' = res \/ \E x : res' = [res EXCEPT ![a] = x] /\ x \notin {"nil", "deadline"}
  BY DEF Unsubscribe, Teardown, TornRead, RacingTeardown, SetDraining, CallShutdown, Return
<1>3. \E l : /\ pc' = pc \/ pc' = [pc EXCEPT ![a] = l]
             /\ \/ pc[a] \notin DrainPath /\ l \notin DrainPath
                \/ /\ pc[a] \in {"drain", "unwind1", "unwind2", "cancel"}
                   /\ l \in {"unwind1", "unwind2", "cancel"}
  <2>1. CASE TornRead(a) \/ RacingTeardown(a)
    <3>1. pc' = pc
      BY <2>1 DEF TornRead, RacingTeardown
    <3>2. pc[a] \notin DrainPath \/ pc[a] \in {"unwind1", "unwind2"}
      BY <2>1 DEF TornRead, RacingTeardown, At, DrainPath
    <3> QED  BY <3>1, <3>2
  <2>2. CASE Unsubscribe(a)
    BY <2>2 DEF Unsubscribe, At, Goto, DrainPath
  <2>3. CASE Teardown(a)
    BY <2>3 DEF Teardown, At, Goto, Return, DrainPath
  <2>4. CASE SetDraining(a)
    BY <2>4 DEF SetDraining, At, Goto
  <2>5. CASE CallShutdown(a)
    BY <2>5 DEF CallShutdown, At, Goto, Return, DrainPath
  <2> QED  BY <2>1, <2>2, <2>3, <2>4, <2>5
<1> QED  BY <1>1, <1>2, <1>3, QuietStep

LEMMA DrainShutdown ==
    ASSUME DrainInv, NEW a \in Actors,
           \/ ShutdownOnce(a) \/ CancelThinking(a) \/ Drained(a) \/ DrainTimeout(a)
           \/ SetStopped(a) \/ CloseStopped(a)
    PROVE  OneDrains' /\ WaitSound' /\ ShutdownCallersAgree'
<1>0. /\ OneDrains /\ WaitSound /\ ShutdownCallersAgree /\ DOMAIN pc = Actors
      /\ task \in [Thoughts -> {"none", "running", "exiting", "done"}]
      /\ waiter \in {"none", "started", "waiting", "woken", "done"}
      /\ shutdownErr \in {"nil", "deadline"}
      /\ UNCHANGED <<task, res>>
  BY DEF DrainInv, TypeInv, TypeOK, ControlTypes, ThinkTypes, DrainTypes, ShutdownOnce,
     CancelThinking, Drained, DrainTimeout, SetStopped, CloseStopped, thinkVars
<1>1. CASE ShutdownOnce(a)
  <2>1. PICK l \in {"drain", "await"} :
          /\ pc' = [pc EXCEPT ![a] = l] /\ sdOnce' = TRUE /\ (l = "drain" => ~sdOnce)
          /\ UNCHANGED <<waiter, awaited, shutdownErr, stopped>>
    BY <1>1 DEF ShutdownOnce, Goto, waitVars
  <2>2. pc[a] = "shutdown"
    BY <1>1 DEF ShutdownOnce, At
  <2>3. \A b \in Actors : pc'[b] = pc[b] \/ (b = a /\ pc'[b] = l)
    BY <1>0, <2>1
  <2>4. OneDrains'
    BY <1>0, <2>1, <2>3 DEF OneDrains, DrainPath
  <2>5. WaitSound'
    <3>1. AwaitedDone' = AwaitedDone
      BY <1>0, <2>1 DEF AwaitedDone
    <3> QED  BY <1>0, <2>1, <2>3, <3>1 DEF WaitSound
  <2>6. ShutdownCallersAgree'
    BY <1>0, <2>1 DEF ShutdownCallersAgree
  <2> QED  BY <2>4, <2>5, <2>6
<1>2. ASSUME ~ShutdownOnce(a) PROVE pc[a] \in DrainPath /\ sdOnce /\ ~stopped
             /\ \A b \in Actors : pc[b] \in DrainPath => b = a
  BY <1>0, <1>2 DEF OneDrains, DrainPath, CancelThinking, Drained, DrainTimeout, SetStopped,
     CloseStopped, At
<1>3. CASE CancelThinking(a) /\ ~ShutdownOnce(a)
  <2>1. /\ pc' = [pc EXCEPT ![a] = "wait"] /\ waiter' = "started"
        /\ awaited' = {t \in Thoughts : task[t] \in {"running", "exiting"}}
        /\ UNCHANGED <<sdOnce, shutdownErr, stopped>>
    BY <1>3 DEF CancelThinking, Goto, downVars
  <2>2. OneDrains'
    BY <1>0, <1>2, <1>3, <2>1 DEF OneDrains, DrainPath
  <2>3. WaitSound'
    BY <1>0, <1>2, <1>3, <2>1 DEF WaitSound, DrainPath
  <2>4. ShutdownCallersAgree'
    BY <1>0, <2>1 DEF ShutdownCallersAgree
  <2> QED  BY <2>2, <2>3, <2>4
<1>4. CASE (Drained(a) \/ DrainTimeout(a)) /\ ~ShutdownOnce(a)
  <2>1. /\ pc' = [pc EXCEPT ![a] = "stop"]
        /\ \/ waiter = "done" /\ shutdownErr' = "nil"
           \/ shutdownErr' = "deadline"
        /\ UNCHANGED <<sdOnce, stopped, waiter, awaited>>
    BY <1>4 DEF Drained, DrainTimeout, Goto, waitVars
  <2>2. OneDrains'
    BY <1>0, <1>2, <1>4, <2>1 DEF OneDrains, DrainPath
  <2>3. WaitSound'
    <3>1. AwaitedDone' = AwaitedDone
      BY <1>0, <2>1 DEF AwaitedDone
    <3> QED  BY <1>0, <1>2, <1>4, <2>1, <3>1 DEF WaitSound, DrainPath
  <2>4. ShutdownCallersAgree'
    BY <1>0, <1>2, <1>4 DEF ShutdownCallersAgree
  <2> QED  BY <2>2, <2>3, <2>4
<1>5. CASE SetStopped(a) /\ ~ShutdownOnce(a)
  <2>1. /\ pc[a] = "stop" /\ pc' = [pc EXCEPT ![a] = "close"]
        /\ UNCHANGED <<sdOnce, stopped, shutdownErr, waiter, awaited>>
    BY <1>5 DEF SetStopped, At, Goto, waitVars, downVars
  <2>2. OneDrains'
    BY <1>0, <1>2, <1>5, <2>1 DEF OneDrains, DrainPath
  <2>3. WaitSound'
    <3>1. AwaitedDone' = AwaitedDone
      BY <1>0, <2>1 DEF AwaitedDone
    <3> QED  BY <1>0, <2>1, <3>1 DEF WaitSound
  <2>4. ShutdownCallersAgree'
    BY <1>0, <2>1 DEF ShutdownCallersAgree
  <2> QED  BY <2>2, <2>3, <2>4
<1>6. CASE CloseStopped(a) /\ ~ShutdownOnce(a)
  <2>1. /\ pc[a] = "close" /\ pc' = [pc EXCEPT ![a] = "await"] /\ stopped' = TRUE
        /\ UNCHANGED <<sdOnce, shutdownErr, waiter, awaited>>
    BY <1>6 DEF CloseStopped, At, Goto, waitVars
  <2>2. OneDrains'
    BY <1>0, <1>2, <1>6, <2>1 DEF OneDrains, DrainPath
  <2>3. WaitSound'
    <3>1. AwaitedDone' = AwaitedDone
      BY <1>0, <2>1 DEF AwaitedDone
    <3> QED  BY <1>0, <2>1, <3>1 DEF WaitSound
  <2>4. ShutdownCallersAgree'
    BY <1>0, <2>1 DEF ShutdownCallersAgree
  <2> QED  BY <2>2, <2>3, <2>4
<1> QED  BY <1>1, <1>3, <1>4, <1>5, <1>6

\* Thoughts that were awaited go on to their end; what they have reached they
\* keep.  A new thought is not among them.
LEMMA DrainThinks ==
    ASSUME DrainInv, (\E c \in Chs : DispatchStep(c)) \/ (\E t \in Thoughts : ThinkingEnds(t) \/ WgDone(t))
    PROVE  OneDrains' /\ WaitSound' /\ ShutdownCallersAgree'
<1>0. /\ OneDrains /\ WaitSound /\ ShutdownCallersAgree
      /\ task \in [Thoughts -> {"none", "running", "exiting", "done"}] /\ awaited \subseteq Thoughts
      /\ UNCHANGED <<pc, res, awaited, sdOnce, shutdownErr, stopped>>
  BY DEF DrainInv, TypeInv, TypeOK, ThinkTypes, DrainTypes, DispatchStep, Deliver, NoThink,
     RaiseGauge, Launch, Dispatch, ThinkingEnds, WgDone, waitVars, downVars
<1>1. \A t \in Thoughts : /\ task[t] # "none" => task'[t] # "none"
                          /\ task[t] = "done" => task'[t] = "done"
  BY <1>0 DEF DispatchStep, Deliver, NoThink, RaiseGauge, Launch, ThinkingEnds, WgDone
<1>2. waiter' = waiter \/ (waiter = "waiting" /\ waiter' = "woken")
  BY DEF DispatchStep, Deliver, NoThink, RaiseGauge, Launch, Dispatch, ThinkingEnds, WgDone, waitVars
<1>3. AwaitedDone => AwaitedDone'
  BY <1>0, <1>1 DEF AwaitedDone
<1>4. OneDrains' /\ ShutdownCallersAgree'
  BY <1>0 DEF OneDrains, ShutdownCallersAgree
<1>5. WaitSound'
  BY <1>0, <1>1, <1>2, <1>3 DEF WaitSound
<1> QED  BY <1>4, <1>5

\* With the counter at zero no thought is under way, so those awaited are done.
LEMMA DrainWaiter ==
    ASSUME DrainInv, WaiterEnters \/ WaiterWakes
    PROVE  OneDrains' /\ WaitSound' /\ ShutdownCallersAgree'
<1>0. /\ OneDrains /\ WaitSound /\ ShutdownCallersAgree
      /\ task \in [Thoughts -> {"none", "running", "exiting", "done"}] /\ awaited \subseteq Thoughts
      /\ UNCHANGED <<pc, res, task, awaited, sdOnce, shutdownErr, stopped>>
      /\ waiter # "none"
  BY DEF DrainInv, TypeInv, TypeOK, ThinkTypes, DrainTypes, WaiterEnters, WaiterWakes, thinkVars,
     downVars
<1>1. wg = 0 => AwaitedDone
  <2> SUFFICES ASSUME wg = 0 PROVE AwaitedDone
    OBVIOUS
  <2>1. Underway = {}
    BY Finite, FS_EmptySet DEF DrainInv, TypeInv, CountsExact
  <2> QED  BY <1>0, <2>1 DEF AwaitedDone, Underway, WaitSound
<1>2. waiter' = "done" => AwaitedDone
  BY <1>0, <1>1 DEF WaiterEnters, WaiterWakes, WaitSound
<1>3. AwaitedDone' = AwaitedDone
  BY <1>0 DEF AwaitedDone
<1>4. OneDrains' /\ ShutdownCallersAgree'
  BY <1>0 DEF OneDrains, ShutdownCallersAgree
<1>5. WaitSound'
  BY <1>0, <1>2, <1>3 DEF WaitSound
<1> QED  BY <1>4, <1>5

LEMMA NextDrainInv == ASSUME DrainInv, [Next]_vars PROVE DrainInv'
<1>0. TypeInv'
  BY NextTypeInv DEF DrainInv
<1>1. OneDrains' /\ WaitSound' /\ ShutdownCallersAgree'
  <2>1. CASE UNCHANGED vars
    BY <2>1 DEF DrainInv, OneDrains, WaitSound, ShutdownCallersAgree, AwaitedDone, vars,
       thinkVars, waitVars, downVars
  <2>2. ASSUME NEW r \in Runners, RunStep(r) \/ CtxDone(r)
        PROVE  OneDrains' /\ WaitSound' /\ ShutdownCallersAgree'
    <3>1. CASE RunStopped(r)
      <4>1. pc[r] \notin DrainPath /\ r \in Actors
        BY <3>1 DEF RunStopped, At, DrainPath, Actors
      <4> QED  BY <3>1, <4>1, DrainReturns DEF RunStopped, thinkVars
    <3> QED  BY <2>2, <3>1, DrainRun
  <2>3. ASSUME NEW a \in Actors, ShutdownStep(a) \/ CallShutdown(a)
        PROVE  OneDrains' /\ WaitSound' /\ ShutdownCallersAgree'
    <3>1. CASE AwaitStopped(a)
      <4>1. pc[a] \notin DrainPath
        BY <3>1 DEF AwaitStopped, At, DrainPath
      <4> QED  BY <3>1, <4>1, DrainReturns DEF AwaitStopped, thinkVars
    <3> QED  BY <2>3, <3>1, DrainUnwind, DrainShutdown DEF ShutdownStep
  <2> QED  BY <2>1, <2>2, <2>3, DrainThinks, DrainWaiter DEF Next, Actors
<1> QED  BY <1>0, <1>1 DEF DrainInv

\* The invariant of the drain holds of every behaviour, also of one in which
\* Shutdown is called while Run is starting the imp.
THEOREM DrainInvariant == Spec => []DrainInv
<1>1. Init => DrainInv
  <2> SUFFICES ASSUME Init PROVE DrainInv
    OBVIOUS
  <2>1. OneDrains
    BY DEF Init, OneDrains, DrainPath
  <2>2. WaitSound /\ ShutdownCallersAgree
    BY DEF Init, WaitSound, ShutdownCallersAgree
  <2> QED  BY <2>1, <2>2, InitTypeInv DEF DrainInv
<1>2. DrainInv /\ [Next]_vars => DrainInv'
  BY NextDrainInv
<1> QED  BY <1>1, <1>2, PTL DEF Spec

\* imp.go Shutdown and Run: whoever asks, however often and however early, is
\* answered only when the drain is done, and all with the same result.
THEOREM LifecycleShutdownCallersAgree == Spec => []ShutdownCallersAgree
<1>1. DrainInv => ShutdownCallersAgree
  BY DEF DrainInv
<1> QED  BY <1>1, DrainInvariant, PTL

\* imp.go waitDrain: a nil result means that every thought under way when the
\* drain began has finished, whatever was launched while it went on.
THEOREM LifecycleDrainedMeansFinished == Spec => []DrainedMeansFinished
<1>1. DrainInv => DrainedMeansFinished
  BY DEF DrainInv, WaitSound, AwaitedDone, DrainedMeansFinished
<1> QED  BY <1>1, DrainInvariant, PTL

-----------------------------------------------------------------------------
(* Starting and unwinding, when Shutdown is not called during startup *)

\* A step of one actor that leaves the state alone.
LEMMA PhaseStep ==
    ASSUME StartInv, NEW a \in Actors, NEW l, UNCHANGED state,
           pc' = pc \/ (pc' = [pc EXCEPT ![a] = l] /\ Fits(l, state)),
           res' = res \/ \E x : /\ res' = [res EXCEPT ![a] = x]
                                /\ x = "start failed" => state \in Ended,
           stopped' => state \in Ended
    PROVE  Phases'
<1>0. Phases /\ DOMAIN pc = Actors /\ DOMAIN res = Actors
  BY DEF StartInv, TypeInv, TypeOK, ControlTypes
<1>1. ASSUME NEW b \in Actors PROVE Fits(pc'[b], state)
  BY <1>0, <1>1 DEF Phases
<1>2. ASSUME NEW b \in Actors, res'[b] = "start failed" PROVE state \in Ended
  BY <1>0, <1>2 DEF Phases
<1> QED  BY <1>1, <1>2 DEF Phases

\* A step that sets the state: what the others are at must fit it too.
LEMMA PhaseSet ==
    ASSUME StartInv, NEW a \in Actors, NEW l, NEW s, state' = s,
           pc' = [pc EXCEPT ![a] = l], Fits(l, s), UNCHANGED <<res, stopped>>,
           \A b \in Actors \ {a} : Fits(pc[b], s),
           state \in Ended => s \in Ended
    PROVE  Phases'
<1>0. Phases /\ DOMAIN pc = Actors
  BY DEF StartInv, TypeInv, TypeOK, ControlTypes
<1>1. ASSUME NEW b \in Actors PROVE Fits(pc'[b], s)
  BY <1>0, <1>1
<1> QED  BY <1>0, <1>1 DEF Phases

\* While one Run starts the imp nobody else is past the CompareAndSwap.
LEMMA Alone ==
    ASSUME StartInv, NEW r \in Actors, pc[r] \in Startup
    PROVE  /\ state = "Starting"
           /\ \A b \in Actors \ {r} : pc[b] \in {"idle", "cas", "returned"}
<1>0. /\ Phases /\ OneStarts
      /\ pc \in [Actors -> {"idle", "cas", "bind", "consume", "append", "select", "failed",
                            "undo1", "undo2", "shutdown", "drain", "unwind1", "unwind2",
                            "cancel", "wait", "stop", "close", "await", "returned"}]
  BY DEF StartInv, TypeInv, TypeOK, ControlTypes
<1>1. state = "Starting"
  BY <1>0 DEF Phases, Fits
<1>2. ASSUME NEW b \in Actors \ {r} PROVE pc[b] \in {"idle", "cas", "returned"}
  <2>1. pc[b] \notin Startup /\ Fits(pc[b], "Starting")
    BY <1>0, <1>1, <1>2 DEF OneStarts, Phases
  <2> QED  BY <1>0, <2>1 DEF Fits, Startup, Ended, DrainPath
<1> QED  BY <1>1, <1>2

LEMMA FitsAny == ASSUME NEW l \in {"idle", "cas", "returned"}, NEW s PROVE Fits(l, s)
BY DEF Fits, Startup, DrainPath

LEMMA PhasesRun ==
    ASSUME StartInv, NEW r \in Runners, RunStep(r) \/ CtxDone(r)
    PROVE  Phases'
<1>0. r \in Actors /\ Phases
  BY DEF Actors, StartInv
<1>a. Fits(pc[r], state) /\ (stopped => state \in Ended)
  BY <1>0 DEF Phases
<1>1. CASE Boot(r) \/ BootAgain(r)
  <2>1. PICK l \in {"cas", "returned"} : pc' = pc \/ pc' = [pc EXCEPT ![r] = l]
    BY <1>1 DEF Boot, BootAgain, Goto, Return
  <2>2. res' = res \/ res' = [res EXCEPT ![r] = "config"]
    BY <1>1 DEF Boot, BootAgain, Return
  <2>3. UNCHANGED <<state, stopped>>
    BY <1>1 DEF Boot, BootAgain, downVars
  <2> QED  BY <1>0, <1>a, <2>1, <2>2, <2>3, FitsAny, PhaseStep
<1>2. CASE CasStarting(r) /\ state = "Created"
  <2>1. /\ state' = "Starting" /\ pc' = [pc EXCEPT ![r] = "bind"] /\ UNCHANGED <<res, stopped>>
    BY <1>2 DEF CasStarting, Goto, downVars
  <2>2. ASSUME NEW b \in Actors \ {r} PROVE Fits(pc[b], "Starting")
    BY <1>0, <1>2, <2>2 DEF Phases, Fits, Ended
  <2>3. Fits("bind", "Starting")
    BY DEF Fits, DrainPath
  <2> QED  BY <1>0, <1>2, <2>1, <2>2, <2>3, PhaseSet DEF Ended
<1>3. CASE CasStarting(r) /\ state # "Created"
  <2>1. /\ pc' = [pc EXCEPT ![r] = "returned"] /\ res' = [res EXCEPT ![r] = "already"]
        /\ UNCHANGED <<state, stopped>>
    BY <1>3 DEF CasStarting, Goto, Return, downVars
  <2> QED  BY <1>0, <1>a, <2>1, FitsAny, PhaseStep
<1>4. CASE Subscribe(r) \/ ResolveConsumer(r) \/ Consume(r) \/ AppendChannel(r)
  <2>1. PICK l \in {"append", "failed", "consume", "bind"} : pc' = [pc EXCEPT ![r] = l]
    BY <1>4 DEF Subscribe, ResolveConsumer, Consume, AppendChannel, Goto
  <2>2. pc[r] \in Startup /\ UNCHANGED <<state, res, stopped>>
    BY <1>4 DEF Subscribe, ResolveConsumer, Consume, AppendChannel, At, Startup, downVars
  <2>3. Fits(l, state)
    BY <1>a, <2>2 DEF Fits, Startup, DrainPath
  <2> QED  BY <1>0, <1>a, <2>1, <2>2, <2>3, PhaseStep
<1>5. CASE SetRunning(r) \/ SetFailed(r)
  <2>1. PICK l \in {"select", "undo1"} :
          /\ pc' = [pc EXCEPT ![r] = l] /\ UNCHANGED <<res, stopped>>
          /\ \/ l = "select" /\ state' = "Running"
             \/ l = "undo1" /\ state' = "Failed"
    BY <1>5 DEF SetRunning, SetFailed, Goto, downVars
  <2>2. pc[r] \in Startup
    BY <1>5 DEF SetRunning, SetFailed, At, Startup
  <2>3. state = "Starting" /\ \A b \in Actors \ {r} : Fits(pc[b], state')
    BY <1>0, <2>2, Alone, FitsAny
  <2>4. Fits(l, state')
    BY <2>1 DEF Fits, Startup, DrainPath, Ended
  <2> QED  BY <1>0, <2>1, <2>3, <2>4, PhaseSet DEF Ended
<1>6. CASE RunStopped(r)
  <2>1. /\ pc' = [pc EXCEPT ![r] = "returned"] /\ res' = [res EXCEPT ![r] = shutdownErr]
        /\ UNCHANGED <<state, stopped>> /\ stopped
    BY <1>6 DEF RunStopped, Goto, Return, downVars
  <2> QED  BY <1>0, <1>a, <2>1, FitsAny, PhaseStep
<1>7. CASE CtxDone(r)
  <2>1. /\ pc' = [pc EXCEPT ![r] = "shutdown"] /\ pc[r] = "select"
        /\ UNCHANGED <<state, res, stopped>>
    BY <1>7 DEF CtxDone, At, Goto, downVars
  <2>2. Fits("shutdown", state)
    BY <1>a, <2>1 DEF Fits, Startup, DrainPath
  <2> QED  BY <1>0, <1>a, <2>1, <2>2, PhaseStep
<1> QED  BY <1>1, <1>2, <1>3, <1>4, <1>5, <1>6, <1>7 DEF RunStep

LEMMA PhasesUnwind ==
    ASSUME StartInv, NEW a \in Actors,
           Unsubscribe(a) \/ Teardown(a) \/ TornRead(a) \/ RacingTeardown(a)
    PROVE  Phases'
<1>0. Phases /\ UNCHANGED <<state, stopped>>
  BY DEF StartInv, Unsubscribe, Teardown, TornRead, RacingTeardown, downVars
<1>1. pc[a] \in {"undo1", "undo2", "unwind1", "unwind2"} \/ pc' = pc
  BY DEF Unsubscribe, Teardown, TornRead, RacingTeardown, At
<1>2. PICK l \in {"undo2", "unwind2", "cancel", "returned"} : pc' = pc \/ pc' = [pc EXCEPT ![a] = l]
  BY DEF Unsubscribe, Teardown, TornRead, RacingTeardown, Goto, Return
<1>3. pc' # pc => state \in Ended
  BY <1>0, <1>1 DEF Phases, Fits, DrainPath
<1>4. state \in Ended => Fits(l, state)
  BY DEF Fits, Startup, Ended
<1>5. res' = res \/ (res' = [res EXCEPT ![a] = "start failed"] /\ pc[a] = "undo2")
  BY DEF Unsubscribe, Teardown, TornRead, RacingTeardown, Return, At
<1>6. pc[a] = "undo2" => state \in Ended
  BY <1>0 DEF Phases, Fits
<1> QED  BY <1>0, <1>2, <1>3, <1>4, <1>5, <1>6, PhaseStep DEF Phases

LEMMA PhasesShutdown ==
    ASSUME EarlyShutdown = FALSE, StartInv, NEW a \in Actors,
           \/ ShutdownOnce(a) \/ SetDraining(a) \/ CancelThinking(a)
           \/ Drained(a) \/ DrainTimeout(a) \/ SetStopped(a) \/ CloseStopped(a) \/ AwaitStopped(a)
           \/ CallShutdown(a)
    PROVE  Phases'
<1>0. Phases /\ Fits(pc[a], state) /\ (stopped => state \in Ended)
  BY DEF StartInv, Phases
<1>1. CASE SetDraining(a) \/ SetStopped(a)
  <2>1. PICK l \in {"unwind1", "close"}, s \in {"Draining", "Stopped"} :
          /\ pc' = [pc EXCEPT ![a] = l] /\ state' = s /\ UNCHANGED <<res, stopped>>
    BY <1>1 DEF SetDraining, SetStopped, Goto, downVars
  <2>2. state \notin {"Created", "Starting"} /\ s \in Ended
    BY <1>0, <1>1 DEF Fits, SetDraining, SetStopped, At, DrainPath, Ended
  <2>3. \A b \in Actors : Fits(pc[b], s)
    BY <1>0, <2>2 DEF Phases, Fits, Ended
  <2>4. Fits(l, s)
    BY <2>2 DEF Fits, Startup, Ended
  <2> QED  BY <2>1, <2>2, <2>3, <2>4, PhaseSet
<1>2. CASE ShutdownOnce(a)
  <2>1. PICK l \in {"await", "drain"} :
          /\ pc' = [pc EXCEPT ![a] = l] /\ pc[a] = "shutdown" /\ UNCHANGED <<state, res, stopped>>
    BY <1>2 DEF ShutdownOnce, At, Goto
  <2>2. Fits(l, state)
    BY <1>0, <2>1 DEF Fits, Startup, DrainPath
  <2> QED  BY <1>0, <2>1, <2>2, PhaseStep
<1>3. CASE CancelThinking(a) \/ Drained(a) \/ DrainTimeout(a) \/ CloseStopped(a)
  <2>1. PICK l \in {"wait", "stop", "await"} : pc' = [pc EXCEPT ![a] = l]
    BY <1>3 DEF CancelThinking, Drained, DrainTimeout, CloseStopped, Goto
  <2>2. /\ pc[a] \in {"cancel", "wait", "close"} /\ UNCHANGED <<state, res>>
    BY <1>3 DEF CancelThinking, Drained, DrainTimeout, CloseStopped, At
  <2>3. state \in Ended
    BY <1>0, <2>2 DEF Fits, DrainPath
  <2>4. Fits(l, state)
    BY <2>3 DEF Fits, Startup, Ended
  <2> QED  BY <2>1, <2>2, <2>3, <2>4, PhaseStep
<1>4. CASE AwaitStopped(a)
  <2>1. /\ pc' = [pc EXCEPT ![a] = "returned"] /\ res' = [res EXCEPT ![a] = shutdownErr]
        /\ UNCHANGED <<state, stopped>> /\ stopped
    BY <1>4 DEF AwaitStopped, Goto, Return, downVars
  <2> QED  BY <1>0, <2>1, FitsAny, PhaseStep
<1>5. CASE CallShutdown(a)
  <2>1. UNCHANGED <<state, stopped>>
    BY <1>5 DEF CallShutdown, downVars
  <2>2. CASE rt
    <3>1. /\ pc' = [pc EXCEPT ![a] = "shutdown"] /\ UNCHANGED res
          /\ state \notin {"Created", "Starting"}
      BY <1>5, <2>2 DEF CallShutdown, Goto
    <3>2. Fits("shutdown", state)
      BY <3>1 DEF Fits, Startup, DrainPath
    <3> QED  BY <1>0, <2>1, <3>1, <3>2, PhaseStep
  <2>3. CASE ~rt
    <3>1. /\ pc' = [pc EXCEPT ![a] = "returned"] /\ res' = [res EXCEPT ![a] = "not started"]
      BY <1>5, <2>3 DEF CallShutdown, Goto, Return
    <3> QED  BY <1>0, <2>1, <3>1, FitsAny, PhaseStep
  <2> QED  BY <2>2, <2>3
<1> QED  BY <1>1, <1>2, <1>3, <1>4, <1>5

\* A step that binds nothing: nobody comes to, or leaves, a channel.
LEMMA BindsFrame ==
    ASSUME StartInv, UNCHANGED <<next, subVars>>,
           \A b \in Actors : pc'[b] = pc[b]
                             \/ {pc[b], pc'[b]} \cap {"consume", "append"} = {},
           state \in Ended => state' \in Ended,
           state' = "Running" => state = "Running" \/ next > Len(Channels)
    PROVE  Binds'
<1>0. Binds /\ UNCHANGED <<subs, channels, named, consumers, orphans>>
  BY DEF StartInv, subVars
<1>1. ASSUME NEW l \in SUBSET {"consume", "append"} PROVE Current(l)' = Current(l)
  <2>1. \A b \in Actors : pc'[b] \in l <=> pc[b] \in l
    BY <1>1
  <2> QED  BY <2>1 DEF Current
<1>2. /\ Current({"append"})' = Current({"append"})
      /\ Current({"consume", "append"})' = Current({"consume", "append"})
  BY <1>1
<1> QED  BY <1>0, <1>2 DEF Binds

LEMMA UnwoundFrame ==
    ASSUME StartInv, UNCHANGED <<subs, consumers, orphans>>,
           stopped' => stopped \/ \E a \in Actors : Unsubscribed(a) /\ TornDown(a),
           \A a \in Actors : Unsubscribed(a)' =>
               stopped \/ \E b \in Actors : Unsubscribed(b),
           \A a \in Actors : TornDown(a)' =>
               stopped \/ \E b \in Actors : TornDown(b)
    PROVE  Unwound'
BY DEF StartInv, Unwound

\* The steps that bind a channel.
LEMMA CurrentIs ==
    ASSUME NEW p, NEW n, NEW r \in Actors, NEW l, n <= Len(Channels), Channels[n] \in Chs,
           \A b \in Actors : b # r => p[b] \notin l
    PROVE  {c \in Chs : \E a \in Actors : p[a] \in l /\ n <= Len(Channels) /\ c = Channels[n]}
             = IF p[r] \in l THEN {Channels[n]} ELSE {}
OBVIOUS

LEMMA CurrentNone ==
    ASSUME NEW p, NEW n, NEW l, \A b \in Actors : p[b] \notin l
    PROVE  {c \in Chs : \E a \in Actors : p[a] \in l /\ n <= Len(Channels) /\ c = Channels[n]} = {}
OBVIOUS

LEMMA BindsStep ==
    ASSUME StartInv, NEW r \in Actors, pc[r] \in Startup, next <= Len(Channels),
           NEW l \in {"append", "failed", "consume"}, pc' = [pc EXCEPT ![r] = l]
    PROVE  LET c == Channels[next] IN
           /\ state = "Starting" /\ c \in Chs /\ c \notin channels
           /\ Current({"append"}) = IF pc[r] = "append" THEN {c} ELSE {}
           /\ Current({"consume", "append"}) = IF pc[r] \in {"consume", "append"} THEN {c} ELSE {}
           /\ UNCHANGED next =>
                /\ Current({"append"})' = IF l = "append" THEN {c} ELSE {}
                /\ Current({"consume", "append"})' = IF l \in {"consume", "append"} THEN {c} ELSE {}
<1>0. Binds /\ BindTypes /\ DOMAIN pc = Actors
  BY DEF StartInv, TypeInv, TypeOK, ControlTypes
<1>1. state = "Starting" /\ \A b \in Actors : b # r => pc[b] \in {"idle", "cas", "returned"}
  BY Alone
<1>2. next \in 1..Len(Channels) /\ Channels[next] \in Chs
  BY <1>0, LenNat, ChannelAt DEF BindTypes
<1>3. Channels[next] \notin channels
  BY <1>0, <1>2, LenNat, ChannelsDistinct DEF Binds
<1>4. /\ Current({"append"}) = IF pc[r] \in {"append"} THEN {Channels[next]} ELSE {}
      /\ Current({"consume", "append"}) =
           IF pc[r] \in {"consume", "append"} THEN {Channels[next]} ELSE {}
  BY <1>1, <1>2, CurrentIs DEF Current
<1>5. pc'[r] = l /\ \A b \in Actors : b # r => pc'[b] \in {"idle", "cas", "returned"}
  BY <1>0, <1>1
<1>6. ASSUME UNCHANGED next
      PROVE  /\ Current({"append"})' = IF pc'[r] \in {"append"} THEN {Channels[next]} ELSE {}
             /\ Current({"consume", "append"})' =
                  IF pc'[r] \in {"consume", "append"} THEN {Channels[next]} ELSE {}
  BY <1>2, <1>5, <1>6, CurrentIs DEF Current
<1> QED  BY <1>1, <1>2, <1>3, <1>4, <1>5, <1>6

LEMMA BindsSubscribe ==
    ASSUME StartInv, NEW r \in Runners, Subscribe(r)
    PROVE  Binds'
<1>0. /\ Binds /\ BindTypes /\ r \in Actors /\ pc[r] = "bind" /\ pc[r] \in Startup
      /\ next <= Len(Channels)
      /\ UNCHANGED <<state, next, channels, named, consumers, orphans>>
  BY DEF StartInv, TypeInv, TypeOK, Subscribe, At, Startup, Actors
<1> DEFINE c == Channels[next]
<1>1. CASE subs' = [subs EXCEPT ![c] = @ + 1] /\ Goto(r, "append")
  <2>1. /\ state = "Starting" /\ c \in Chs /\ c \notin channels
        /\ Current({"append"}) = {} /\ Current({"consume", "append"}) = {}
        /\ Current({"append"})' = {c} /\ Current({"consume", "append"})' = {c}
    BY <1>0, <1>1, BindsStep DEF Goto
  <2>2. subs[c] = 0
    BY <1>0, <2>1 DEF Binds
  <2>3. subs'[c] = 1 /\ \A d \in Chs \ {c} : subs'[d] = subs[d]
    BY <1>0, <1>1, <2>1, <2>2 DEF BindTypes
  <2>4. \A d \in Chs : subs'[d] \in {0, 1} /\ (subs'[d] = 1 => d \in channels \cup {c})
    BY <1>0, <2>1, <2>3 DEF Binds
  <2>5. \A d \in channels \cup {c} : subs'[d] = 1
    BY <1>0, <2>1, <2>3 DEF Binds, BindTypes, Ended
  <2>6. consumers' \subseteq named' \cup orphans' \cup {c}
    BY <1>0, <2>1 DEF Binds
  <2> QED  BY <1>0, <2>1, <2>4, <2>5, <2>6 DEF Binds
<1>2. CASE Goto(r, "failed") /\ UNCHANGED subs
  <2>1. /\ state = "Starting"
        /\ Current({"append"}) = {} /\ Current({"consume", "append"}) = {}
        /\ Current({"append"})' = {} /\ Current({"consume", "append"})' = {}
    BY <1>0, <1>2, BindsStep DEF Goto
  <2> QED  BY <1>0, <1>2, <2>1 DEF Binds
<1> QED  BY <1>1, <1>2 DEF Subscribe

LEMMA BindsResolve ==
    ASSUME StartInv, NEW r \in Runners, ResolveConsumer(r)
    PROVE  Binds'
<1>0. /\ Binds /\ BindTypes /\ r \in Actors /\ pc[r] = "bind" /\ pc[r] \in Startup
      /\ next <= Len(Channels)
      /\ UNCHANGED <<state, next, subs, channels, named>>
  BY DEF StartInv, TypeInv, TypeOK, ResolveConsumer, At, Startup, Actors
<1> DEFINE c == Channels[next]
<1>1. PICK l \in {"consume", "failed"} :
        /\ pc' = [pc EXCEPT ![r] = l]
        /\ orphans \subseteq orphans'
        /\ consumers' \subseteq consumers \cup {c}
        /\ l = "failed" => consumers' = consumers \/ consumers' \subseteq consumers \cup orphans'
  BY DEF ResolveConsumer, Goto
<1>2. /\ state = "Starting" /\ Current({"append"}) = {} /\ Current({"consume", "append"}) = {}
      /\ Current({"append"})' = {}
      /\ Current({"consume", "append"})' = IF l = "consume" THEN {c} ELSE {}
  BY <1>0, <1>1, BindsStep
<1>3. consumers' \subseteq named \cup orphans' \cup Current({"consume", "append"})'
  BY <1>0, <1>1, <1>2 DEF Binds
<1> QED  BY <1>0, <1>2, <1>3 DEF Binds

LEMMA BindsConsume ==
    ASSUME StartInv, NEW r \in Runners, Consume(r)
    PROVE  Binds'
<1>0. /\ Binds /\ BindTypes /\ r \in Actors /\ pc[r] = "consume" /\ pc[r] \in Startup
      /\ next <= Len(Channels)
      /\ UNCHANGED <<state, next, channels, named>>
  BY DEF StartInv, TypeInv, TypeOK, OneStarts, Consume, At, Startup, Actors
<1> DEFINE c == Channels[next]
<1>1. CASE subs' = [subs EXCEPT ![c] = @ + 1] /\ Goto(r, "append") /\ UNCHANGED <<consumers, orphans>>
  <2>1. /\ state = "Starting" /\ c \in Chs /\ c \notin channels
        /\ Current({"append"}) = {} /\ Current({"consume", "append"}) = {c}
        /\ Current({"append"})' = {c} /\ Current({"consume", "append"})' = {c}
    BY <1>0, <1>1, BindsStep DEF Goto
  <2>2. subs[c] = 0
    BY <1>0, <2>1 DEF Binds
  <2>3. subs'[c] = 1 /\ \A d \in Chs \ {c} : subs'[d] = subs[d]
    BY <1>0, <1>1, <2>1, <2>2 DEF BindTypes
  <2> QED  BY <1>0, <1>1, <2>1, <2>3 DEF Binds
<1>2. CASE /\ Goto(r, "failed") /\ UNCHANGED subs
           /\ \/ consumers' = consumers \ {c} /\ UNCHANGED orphans
              \/ orphans' = orphans \cup ({c} \cap EphemeralChs) /\ UNCHANGED consumers
  <2>1. /\ state = "Starting"
        /\ Current({"append"}) = {} /\ Current({"consume", "append"}) = {c}
        /\ Current({"append"})' = {} /\ Current({"consume", "append"})' = {}
    BY <1>0, <1>2, BindsStep DEF Goto
  <2>2. consumers' \subseteq named \cup orphans'
    BY <1>0, <1>2, <2>1 DEF Binds, BindTypes
  <2> QED  BY <1>0, <1>2, <2>1, <2>2 DEF Binds
<1> QED  BY <1>1, <1>2 DEF Consume

LEMMA BindsAppend ==
    ASSUME StartInv, NEW r \in Runners, AppendChannel(r)
    PROVE  Binds'
<1>0. /\ Binds /\ BindTypes /\ r \in Actors /\ pc[r] = "append" /\ pc[r] \in Startup
      /\ next <= Len(Channels) /\ DOMAIN pc = Actors
      /\ UNCHANGED <<state, subs, consumers, orphans>>
  BY DEF StartInv, TypeInv, TypeOK, ControlTypes, OneStarts, AppendChannel, At, Startup, Actors
<1> DEFINE c == Channels[next]
<1>1. /\ channels' = channels \cup {c} /\ named' = named \cup ({c} \cap EphemeralChs)
      /\ next' = next + 1 /\ pc' = [pc EXCEPT ![r] = "bind"]
  BY DEF AppendChannel, Goto
<1>2. /\ state = "Starting" /\ \A b \in Actors : b # r => pc[b] \in {"idle", "cas", "returned"}
  BY <1>0, Alone
<1>3. next \in 1..Len(Channels) /\ c \in Chs
  BY <1>0, LenNat, ChannelAt DEF BindTypes
<1>4. Current({"append"}) = {c} /\ Current({"consume", "append"}) = {c}
  BY <1>0, <1>2, <1>3, CurrentIs DEF Current
<1>5. \A b \in Actors : pc'[b] \in {"idle", "cas", "returned", "bind"}
  BY <1>0, <1>1, <1>2
<1>6. Current({"append"})' = {} /\ Current({"consume", "append"})' = {}
  BY <1>5, CurrentNone DEF Current
<1>7. channels' = {Channels[i] : i \in 1..(next' - 1)}
  BY <1>0, <1>1, <1>3, LenNat DEF Binds
<1>8. consumers' \subseteq named' \cup orphans'
  BY <1>0, <1>1, <1>4 DEF Binds, BindTypes
<1>9. \A d \in Chs : subs'[d] \in {0, 1} /\ (subs'[d] = 1 => d \in channels')
  BY <1>0, <1>1, <1>4 DEF Binds
<1>10. \A d \in channels' : subs'[d] = 1
  BY <1>0, <1>1, <1>2, <1>4 DEF Binds, Ended
<1> QED  BY <1>0, <1>2, <1>6, <1>7, <1>8, <1>9, <1>10 DEF Binds

\* The two loops of unwind.
LEMMA UnwindStep ==
    ASSUME StartInv, NEW a \in Actors, Unsubscribe(a) \/ Teardown(a)
    PROVE  /\ state \in Ended /\ state' = state /\ channels' = channels /\ next' = next
           /\ pc[a] \in {"undo1", "undo2", "unwind1", "unwind2"}
           /\ pc'[a] \in {"undo2", "unwind2", "cancel", "returned"}
           /\ \A b \in Actors : b # a => pc'[b] = pc[b]
           /\ \A b \in Actors : pc[b] \notin Startup /\ pc'[b] \notin Startup
           /\ \A l \in SUBSET Startup : Current(l) = {} /\ Current(l)' = {}
<1>0. Phases /\ DOMAIN pc = Actors
  BY DEF StartInv, TypeInv, TypeOK, ControlTypes
<1>1. /\ pc[a] \in {"undo1", "undo2", "unwind1", "unwind2"}
      /\ state' = state /\ channels' = channels /\ next' = next
  BY DEF Unsubscribe, Teardown, At
<1>2. \E l \in {"undo2", "unwind2", "cancel", "returned"} : pc' = [pc EXCEPT ![a] = l]
  BY DEF Unsubscribe, Teardown, Goto, Return
<1>3. state \in Ended
  BY <1>0, <1>1 DEF Phases, Fits, DrainPath
<1>4. /\ pc'[a] \in {"undo2", "unwind2", "cancel", "returned"}
      /\ \A b \in Actors : b # a => pc'[b] = pc[b]
  BY <1>0, <1>2
<1>5. \A b \in Actors : pc[b] \notin Startup
  BY <1>0, <1>3 DEF Phases, Fits, Ended
<1>6. \A b \in Actors : pc'[b] \notin Startup
  BY <1>4, <1>5 DEF Startup
<1>7. ASSUME NEW l \in SUBSET Startup PROVE Current(l) = {} /\ Current(l)' = {}
  BY <1>5, <1>6 DEF Current
<1> QED  BY <1>1, <1>3, <1>4, <1>5, <1>6, <1>7

LEMMA UnsubscribeInv ==
    ASSUME StartInv, NEW a \in Actors, Unsubscribe(a)
    PROVE  Binds' /\ Unwound'
<1>0. /\ Binds /\ Unwound /\ BindTypes
      /\ subs' = [c \in Chs |-> IF c \in channels \cap SubjectChs THEN 0 ELSE subs[c]]
      /\ UNCHANGED <<state, res, next, channels, named, consumers, orphans, stopped>>
  BY DEF StartInv, TypeInv, TypeOK, Unsubscribe, downVars
<1>1. {"append"} \in SUBSET Startup /\ {"consume", "append"} \in SUBSET Startup
  BY DEF Startup
<1>2. /\ state \in Ended
      /\ Current({"append"}) = {} /\ Current({"consume", "append"}) = {}
      /\ Current({"append"})' = {} /\ Current({"consume", "append"})' = {}
  BY <1>1, UnwindStep
<1>3. Binds'
  BY <1>0, <1>2 DEF Binds, Ended
<1>4. \A c \in SubjectChs : subs'[c] = 0
  BY <1>0, <1>2, ChannelKinds DEF Binds
<1>5. ASSUME NEW b \in Actors, TornDown(b)' PROVE TornDown(b)
  BY <1>0, <1>5 DEF TornDown, Unsubscribe, Goto, StartInv, TypeInv, TypeOK, ControlTypes
<1>6. \A c \in StreamChs : subs[c] = 0 => subs'[c] = 0
  BY <1>0 DEF StreamChs
<1>7. Unwound'
  BY <1>0, <1>4, <1>5, <1>6 DEF Unwound
<1> QED  BY <1>3, <1>7

LEMMA TeardownInv ==
    ASSUME StartInv, NEW a \in Actors, Teardown(a)
    PROVE  Binds' /\ Unwound'
<1>0. /\ Binds /\ Unwound /\ BindTypes
      /\ subs' = [c \in Chs |-> IF c \in channels \cap StreamChs THEN 0 ELSE subs[c]]
      /\ UNCHANGED <<state, next, channels, stopped>> /\ named' = {}
  BY DEF StartInv, TypeInv, TypeOK, Teardown, downVars
<1>1. {"append"} \in SUBSET Startup /\ {"consume", "append"} \in SUBSET Startup
  BY DEF Startup
<1>2. /\ state \in Ended
      /\ Current({"append"}) = {} /\ Current({"consume", "append"}) = {}
      /\ Current({"append"})' = {} /\ Current({"consume", "append"})' = {}
  BY <1>1, UnwindStep
<1>3. PICK failing \in SUBSET named :
        consumers' = consumers \ (named \ failing) /\ orphans' = orphans \cup failing
  BY DEF Teardown
<1>4. consumers' \subseteq orphans'
  BY <1>0, <1>2, <1>3 DEF Binds
<1>5. Binds'
  BY <1>0, <1>2, <1>4 DEF Binds, Ended
<1>6. \A c \in StreamChs : subs'[c] = 0
  BY <1>0, <1>2 DEF Binds, StreamChs
<1>7. Unsubscribed(a)
  BY DEF Teardown, At, Unsubscribed, DrainPath
<1>8. \A c \in SubjectChs : subs'[c] = 0
  BY <1>0, <1>7, ChannelKinds DEF Unwound, StreamChs
<1> QED  BY <1>4, <1>5, <1>6, <1>8 DEF Unwound

LEMMA RunStartInv ==
    ASSUME StartInv, NEW r \in Runners, RunStep(r) \/ CtxDone(r)
    PROVE  Binds' /\ Unwound'
<1>0. r \in Actors /\ Phases /\ DOMAIN pc = Actors /\ DOMAIN res = Actors
  BY DEF Actors, StartInv, TypeInv, TypeOK, ControlTypes
<1>1. CASE Subscribe(r) \/ ResolveConsumer(r) \/ Consume(r) \/ AppendChannel(r)
  <2>1. Binds'
    BY <1>1, BindsSubscribe, BindsResolve, BindsConsume, BindsAppend
  <2>2. pc[r] \in Startup /\ state' = state
    BY <1>1 DEF Subscribe, ResolveConsumer, Consume, AppendChannel, At, Startup
  <2>3. state' \notin Ended
    BY <1>0, <2>2, Alone DEF Ended
  <2>4. Phases'
    BY PhasesRun
  <2>5. ~stopped' /\ \A a \in Actors : ~Unsubscribed(a)' /\ ~TornDown(a)'
    BY <2>3, <2>4 DEF Phases, Fits, Unsubscribed, TornDown, DrainPath
  <2> QED  BY <2>1, <2>5 DEF Unwound
<1>2. CASE ~(Subscribe(r) \/ ResolveConsumer(r) \/ Consume(r) \/ AppendChannel(r))
  <2>1. UNCHANGED <<next, subVars, stopped>>
    BY <1>2 DEF RunStep, CtxDone, Boot, BootAgain, CasStarting, SetRunning, SetFailed, RunStopped,
       downVars
  <2>2. PICK l \in {"cas", "returned", "bind", "select", "undo1", "shutdown"} :
          pc' = pc \/ pc' = [pc EXCEPT ![r] = l]
    <3>1. CASE Boot(r) \/ BootAgain(r) \/ CasStarting(r)
      BY <3>1 DEF Boot, BootAgain, CasStarting, Goto, Return
    <3>2. CASE SetRunning(r) \/ SetFailed(r) \/ RunStopped(r) \/ CtxDone(r)
      BY <3>2 DEF SetRunning, SetFailed, RunStopped, CtxDone, Goto, Return
    <3> QED  BY <1>2, <3>1, <3>2 DEF RunStep
  <2>3. pc[r] \in {"idle", "cas", "bind", "failed", "select"}
    BY <1>2 DEF RunStep, CtxDone, Boot, BootAgain, CasStarting, SetRunning, SetFailed, RunStopped, At
  <2>4. \A b \in Actors : pc'[b] = pc[b] \/ {pc[b], pc'[b]} \cap {"consume", "append"} = {}
    BY <1>0, <2>2, <2>3
  <2>5. state \in Ended => state' \in Ended
    <3>1. CASE SetRunning(r) \/ SetFailed(r)
      <4>1. pc[r] \in Startup
        BY <3>1 DEF SetRunning, SetFailed, At, Startup
      <4> QED  BY <1>0, <4>1, Alone DEF Ended
    <3>2. CASE ~(SetRunning(r) \/ SetFailed(r))
      BY <1>2, <3>2 DEF RunStep, CtxDone, Boot, BootAgain, CasStarting, RunStopped, Ended
    <3> QED  BY <3>1, <3>2
  <2>6. state' = "Running" => state = "Running" \/ next > Len(Channels)
    BY <1>2 DEF RunStep, CtxDone, Boot, BootAgain, CasStarting, SetRunning, SetFailed, RunStopped
  <2>7. Binds'
    BY <2>1, <2>4, <2>5, <2>6, BindsFrame
  <2>8. res' = res \/ \E x : res' = [res EXCEPT ![r] = x] /\ (x = "start failed" => stopped)
    <3>1. CASE Boot(r) \/ BootAgain(r) \/ CasStarting(r)
      BY <3>1 DEF Boot, BootAgain, CasStarting, Return
    <3>2. CASE SetRunning(r) \/ SetFailed(r) \/ RunStopped(r) \/ CtxDone(r)
      BY <3>2 DEF SetRunning, SetFailed, RunStopped, CtxDone, Return
    <3> QED  BY <1>2, <3>1, <3>2 DEF RunStep
  <2>9. ASSUME NEW b \in Actors, ~stopped
        PROVE  (Unsubscribed(b)' => Unsubscribed(b)) /\ (TornDown(b)' => TornDown(b))
    BY <1>0, <2>2, <2>8, <2>9 DEF Unsubscribed, TornDown, DrainPath
  <2> QED  BY <2>1, <2>7, <2>9, UnwoundFrame DEF subVars
<1> QED  BY <1>1, <1>2

LEMMA ShutdownStartInv ==
    ASSUME StartInv, NEW a \in Actors, ShutdownStep(a) \/ CallShutdown(a)
    PROVE  Binds' /\ Unwound'
<1>0. /\ Phases /\ DOMAIN pc = Actors /\ DOMAIN res = Actors
  BY DEF StartInv, TypeInv, TypeOK, ControlTypes
<1>1. CASE Unsubscribe(a) \/ Teardown(a)
  BY <1>1, UnsubscribeInv, TeardownInv
<1>2. CASE ~(Unsubscribe(a) \/ Teardown(a))
  <2>1. UNCHANGED <<next, subVars>>
    BY <1>2 DEF ShutdownStep, CallShutdown, TornRead, RacingTeardown, ShutdownOnce, SetDraining,
       CancelThinking, Drained, DrainTimeout, SetStopped, CloseStopped, AwaitStopped
  <2>2. /\ state' \in {state, "Draining", "Stopped"}
        /\ stopped' => stopped \/ pc[a] = "close"
    <3>1. CASE SetDraining(a) \/ SetStopped(a)
      BY <3>1 DEF SetDraining, SetStopped, downVars
    <3>2. CASE CloseStopped(a)
      BY <3>2 DEF CloseStopped, At
    <3>3. CASE ~(SetDraining(a) \/ SetStopped(a) \/ CloseStopped(a))
      <4>1. CASE ShutdownOnce(a) \/ Drained(a) \/ DrainTimeout(a)
        BY <4>1 DEF ShutdownOnce, Drained, DrainTimeout
      <4>2. CASE CallShutdown(a) \/ TornRead(a) \/ RacingTeardown(a)
        <5>1. UNCHANGED <<state, stopped>>
          BY <4>2 DEF CallShutdown, TornRead, RacingTeardown, downVars
        <5> QED  BY <5>1
      <4>3. CASE CancelThinking(a) \/ AwaitStopped(a)
        BY <4>3 DEF CancelThinking, AwaitStopped, downVars
      <4> QED  BY <1>2, <3>3, <4>1, <4>2, <4>3 DEF ShutdownStep
    <3> QED  BY <3>1, <3>2, <3>3
  <2>3. \/ pc' = pc /\ res' = res
        \/ /\ res' = res
           /\ \E l : /\ pc' = [pc EXCEPT ![a] = l]
                     /\ <<pc[a], l>> \in {<<"shutdown", "await">>, <<"shutdown", "drain">>,
                          <<"drain", "unwind1">>, <<"cancel", "wait">>, <<"wait", "stop">>,
                          <<"stop", "close">>, <<"close", "await">>, <<"idle", "shutdown">>}
        \/ /\ pc[a] \in {"idle", "await"} /\ pc' = [pc EXCEPT ![a] = "returned"]
           /\ \E x : res' = [res EXCEPT ![a] = x] /\ (x = "start failed" => stopped)
    <3>1. CASE TornRead(a) \/ RacingTeardown(a)
      BY <3>1 DEF TornRead, RacingTeardown
    <3>2. CASE ShutdownOnce(a) \/ SetDraining(a) \/ CancelThinking(a)
      BY <3>2 DEF ShutdownOnce, SetDraining, CancelThinking, At, Goto
    <3>3. CASE Drained(a) \/ DrainTimeout(a) \/ SetStopped(a) \/ CloseStopped(a)
      BY <3>3 DEF Drained, DrainTimeout, SetStopped, CloseStopped, At, Goto
    <3>4. CASE AwaitStopped(a) \/ CallShutdown(a)
      BY <3>4 DEF AwaitStopped, CallShutdown, At, Goto, Return
    <3> QED  BY <1>2, <3>1, <3>2, <3>3, <3>4 DEF ShutdownStep
  <2>4. \A b \in Actors : pc'[b] = pc[b] \/ {pc[b], pc'[b]} \cap {"consume", "append"} = {}
    BY <1>0, <2>3
  <2>5. Binds'
    BY <2>1, <2>2, <2>4, BindsFrame DEF Ended
  <2>6. ASSUME NEW b \in Actors, ~stopped
        PROVE  /\ Unsubscribed(b)' => Unsubscribed(b)
               /\ TornDown(b)' => TornDown(b)
    BY <1>0, <2>3, <2>6 DEF Unsubscribed, TornDown, DrainPath
  <2>7. pc[a] = "close" => Unsubscribed(a) /\ TornDown(a)
    BY DEF Unsubscribed, TornDown, DrainPath
  <2>8. Unwound'
    BY <2>1, <2>2, <2>6, <2>7, UnwoundFrame DEF subVars
  <2> QED  BY <2>5, <2>8
<1> QED  BY <1>1, <1>2

LEMMA OtherStartInv ==
    ASSUME StartInv, UNCHANGED <<state, pc, res, next, subVars, stopped>>
    PROVE  Phases' /\ Binds' /\ Unwound'
<1>1. Phases'
  BY DEF StartInv, Phases
<1>2. Binds'
  BY BindsFrame
<1>3. Unwound'
  BY DEF StartInv, Unwound, Unsubscribed, TornDown, subVars
<1> QED  BY <1>1, <1>2, <1>3

LEMMA InitStartInv == ASSUME Init PROVE StartInv
<1>1. Phases
  BY DEF Init, Phases, Fits, Startup, DrainPath
<1>2. Binds
  BY DEF Init, Binds, Current
<1>3. Unwound
  BY ChannelKinds DEF Init, Unwound, Unsubscribed, TornDown, StreamChs
<1> QED  BY <1>1, <1>2, <1>3, InitTypeInv DEF StartInv

LEMMA NextStartInv == ASSUME EarlyShutdown = FALSE, StartInv, [Next]_vars PROVE StartInv'
<1>0. TypeInv'
  BY NextTypeInv DEF StartInv
<1>1. Phases' /\ Binds' /\ Unwound'
  <2>1. CASE UNCHANGED <<state, pc, res, next, subVars, stopped>>
    BY <2>1, OtherStartInv
  <2>2. ASSUME NEW r \in Runners, RunStep(r) \/ CtxDone(r) PROVE Phases' /\ Binds' /\ Unwound'
    BY <2>2, PhasesRun, RunStartInv
  <2>3. ASSUME NEW a \in Actors, ShutdownStep(a) \/ CallShutdown(a)
        PROVE  Phases' /\ Binds' /\ Unwound'
    <3>1. Phases'
      BY <2>3, PhasesUnwind, PhasesShutdown DEF ShutdownStep
    <3> QED  BY <2>3, <3>1, ShutdownStartInv
  <2>4. CASE UNCHANGED vars
    BY <2>1, <2>4 DEF vars, downVars
  <2>5. ASSUME NEW c \in Chs, DispatchStep(c) PROVE UNCHANGED <<state, pc, res, next, subVars, stopped>>
    BY <2>5 DEF DispatchStep, Deliver, NoThink, RaiseGauge, Launch, Dispatch, downVars
  <2>6. ASSUME NEW t \in Thoughts, ThinkingEnds(t) \/ WgDone(t)
        PROVE  UNCHANGED <<state, pc, res, next, subVars, stopped>>
    BY <2>6 DEF ThinkingEnds, WgDone, downVars
  <2>7. ASSUME WaiterEnters \/ WaiterWakes PROVE UNCHANGED <<state, pc, res, next, subVars, stopped>>
    BY <2>7 DEF WaiterEnters, WaiterWakes, downVars
  <2> QED  BY <2>1, <2>2, <2>3, <2>4, <2>5, <2>6, <2>7 DEF Next, Actors
<1> QED  BY <1>0, <1>1 DEF StartInv

\* As long as Shutdown is not called while Run is starting, the invariant of the
\* startup and the unwinding holds.
THEOREM StartInvariant == EarlyShutdown = FALSE => (Spec => []StartInv)
<1> SUFFICES ASSUME EarlyShutdown = FALSE PROVE Spec => []StartInv
  OBVIOUS
<1>1. Init => StartInv
  BY InitStartInv
<1>2. StartInv /\ [Next]_vars => StartInv'
  BY NextStartInv
<1> QED  BY <1>1, <1>2, PTL DEF Spec

\* start.go: a Ready imp has exactly one live subscription per channel, however
\* many channels it declares and however many callers run it at once.
THEOREM LifecycleReadyMeansSubscribed ==
    EarlyShutdown = FALSE => (Spec => []ReadyMeansSubscribed)
<1> SUFFICES ASSUME EarlyShutdown = FALSE PROVE Spec => []ReadyMeansSubscribed
  OBVIOUS
<1>1. StartInv => ReadyMeansSubscribed
  <2> SUFFICES ASSUME StartInv, state = "Running" PROVE \A c \in Chs : subs[c] = 1
    BY DEF ReadyMeansSubscribed
  <2>1. next = Len(Channels) + 1
    BY LenNat DEF StartInv, TypeInv, TypeOK, BindTypes, Binds
  <2>2. channels = Chs
    BY <2>1, LenNat DEF StartInv, Binds, Chs
  <2> QED  BY <2>2 DEF StartInv, Binds, Ended
<1>2. Spec => []StartInv
  BY StartInvariant
<1> QED  BY <1>1, <1>2, PTL

\* start.go unwind: when Shutdown is done, or Run has failed to start, nothing is
\* subscribed and no ephemeral consumer is left but where a call failed.
THEOREM LifecycleNoSubscriptionLeak ==
    EarlyShutdown = FALSE => (Spec => []NoSubscriptionLeak)
<1> SUFFICES ASSUME EarlyShutdown = FALSE PROVE Spec => []NoSubscriptionLeak
  OBVIOUS
<1>1. StartInv => NoSubscriptionLeak
  <2> SUFFICES ASSUME StartInv, stopped \/ \E r \in Runners : res[r] = "start failed"
               PROVE  (\A c \in Chs : subs[c] = 0) /\ consumers \subseteq orphans
    BY DEF NoSubscriptionLeak
  <2>1. stopped \/ \E a \in Actors : Unsubscribed(a) /\ TornDown(a)
    BY DEF Unsubscribed, TornDown, Actors
  <2> QED  BY <2>1 DEF StartInv, Unwound, StreamChs
<1>2. Spec => []StartInv
  BY StartInvariant
<1> QED  BY <1>1, <1>2, PTL

\* imp.go: an imp that is Stopped is never Running again, as long as Shutdown is
\* not called while Run is starting: only that brings it back.
THEOREM LifecycleStoppedNeverRuns == EarlyShutdown = FALSE => (Spec => StoppedNeverRuns)
<1> SUFFICES ASSUME EarlyShutdown = FALSE PROVE Spec => StoppedNeverRuns
  OBVIOUS
<1>1. StartInv /\ [Next]_vars => [state = "Stopped" => state' # "Running"]_vars
  <2> SUFFICES ASSUME StartInv, Next, state = "Stopped", state' = "Running" PROVE FALSE
    BY DEF vars
  <2>1. ASSUME NEW r \in Runners, RunStep(r) \/ CtxDone(r) PROVE FALSE
    <3>1. pc[r] = "bind"
      BY <2>1 DEF RunStep, CtxDone, Boot, BootAgain, CasStarting, Subscribe, ResolveConsumer, Consume,
                  AppendChannel, SetRunning, SetFailed, RunStopped, At
    <3>2. Fits("bind", "Stopped")
      BY <3>1 DEF StartInv, Phases, Actors
    <3> QED  BY <3>2 DEF Fits, Startup
  <2>2. ASSUME NEW a \in Actors, ShutdownStep(a) \/ CallShutdown(a) PROVE FALSE
    BY <2>2 DEF ShutdownStep, CallShutdown, Unsubscribe, Teardown, TornRead, RacingTeardown, ShutdownOnce,
                SetDraining, CancelThinking, Drained, DrainTimeout, SetStopped, CloseStopped, AwaitStopped
  <2>3. ASSUME NEW c \in Chs, DispatchStep(c) PROVE FALSE
    BY <2>3 DEF DispatchStep, Deliver, NoThink, RaiseGauge, Launch, Dispatch
  <2>4. ASSUME NEW t \in Thoughts, ThinkingEnds(t) \/ WgDone(t) PROVE FALSE
    BY <2>4 DEF ThinkingEnds, WgDone
  <2>5. ASSUME WaiterEnters \/ WaiterWakes PROVE FALSE
    BY <2>5 DEF WaiterEnters, WaiterWakes
  <2> QED  BY <2>1, <2>2, <2>3, <2>4, <2>5 DEF Next, Actors
<1>2. Spec => []StartInv
  BY StartInvariant
<1> QED  BY <1>1, <1>2, PTL DEF Spec, StoppedNeverRuns

-----------------------------------------------------------------------------
(* Somebody is always left to clean up *)

\* Where an actor is that will start, fail or shut down the imp.
Working == Startup \cup {"select", "undo1", "undo2", "shutdown"}

\* An imp that was started is in the hands of a Run or a Shutdown, or has been
\* unwound; one that was not has bound nothing.
Attended ==
    /\ state # "Created" =>
          sdOnce \/ \E a \in Actors : pc[a] \in Working \/ res[a] = "start failed"
    /\ sdOnce => stopped \/ \E a \in Actors : pc[a] \in DrainPath
    /\ \A a \in Actors : res[a] = "start failed" => pc[a] = "returned"
    /\ state = "Created" => next = 1 /\ named = {}

\* A step of an actor from where it is to l hands its duty on or has done it.
LEMMA AttendedStep ==
    ASSUME Attended, TypeOK, NEW a \in Actors, NEW l,
           pc' = [pc EXCEPT ![a] = l], pc[a] # "returned",
           res' = res \/ \E x : res' = [res EXCEPT ![a] = x],
           res'[a] = "start failed" => l = "returned",
           state' = "Created" => state = "Created" /\ UNCHANGED <<next, named>>,
           state' # "Created" => state # "Created" \/ sdOnce' \/ l \in Working,
           sdOnce => sdOnce', sdOnce' => sdOnce \/ l \in DrainPath, stopped => stopped',
           pc[a] \in DrainPath => l \in DrainPath \/ stopped',
           pc[a] \in Working => l \in Working \/ sdOnce' \/ res'[a] = "start failed"
    PROVE  Attended'
<1>0. /\ pc'[a] = l
      /\ \A b \in Actors \ {a} : pc'[b] = pc[b] /\ res'[b] = res[b]
  BY DEF TypeOK, ControlTypes
<1>1. \A b \in Actors : res'[b] = "start failed" => pc'[b] = "returned"
  BY <1>0 DEF Attended
<1>2. sdOnce' => stopped' \/ \E b \in Actors : pc'[b] \in DrainPath
  BY <1>0 DEF Attended
<1>3. state' # "Created" =>
        sdOnce' \/ \E b \in Actors : pc'[b] \in Working \/ res'[b] = "start failed"
  <2> SUFFICES ASSUME state' # "Created", ~sdOnce', l \notin Working
               PROVE  \E b \in Actors : pc'[b] \in Working \/ res'[b] = "start failed"
    BY <1>0
  <2>1. PICK b \in Actors : pc[b] \in Working \/ res[b] = "start failed"
    BY DEF Attended
  <2>2. CASE b = a
    <3>1. pc[a] \in Working
      BY <2>1, <2>2 DEF Attended
    <3> QED  BY <3>1
  <2>3. CASE b # a
    BY <2>1, <2>3, <1>0
  <2> QED  BY <2>2, <2>3
<1> QED  BY <1>1, <1>2, <1>3 DEF Attended

LEMMA AttendedRun ==
    ASSUME DrainInv, Attended, NEW r \in Runners, RunStep(r) \/ CtxDone(r), crash' = "no"
    PROVE  Attended'
<1>0. r \in Actors /\ TypeOK /\ DOMAIN res = Actors
  BY DEF Actors, DrainInv, TypeInv, TypeOK, ControlTypes
<1>1. CASE Boot(r) \/ BootAgain(r) \/ CasStarting(r)
  <2>1. /\ pc[r] \notin Working \cup DrainPath \cup {"returned"}
        /\ UNCHANGED <<next, subVars, downVars>>
    BY <1>1 DEF Boot, BootAgain, CasStarting, At, Working, Startup, DrainPath
  <2>2. PICK l \in {"cas", "bind", "returned"} :
           /\ pc' = [pc EXCEPT ![r] = l]
           /\ state' = state \/ (state = "Created" /\ state' = "Starting" /\ l = "bind")
    BY <1>1 DEF Boot, BootAgain, CasStarting, Goto, Return
  <2>3. /\ res' = res \/ \E x : res' = [res EXCEPT ![r] = x]
        /\ res'[r] # "start failed"
    <3>1. res[r] # "start failed"
      BY <2>1, <1>0 DEF Attended
    <3> QED  BY <1>0, <1>1, <3>1 DEF Boot, BootAgain, CasStarting, Return
  <2>4. "bind" \in Working
    BY DEF Working, Startup
  <2> QED  BY <1>0, <2>1, <2>2, <2>3, <2>4, AttendedStep DEF subVars, downVars
<1>2. CASE Subscribe(r) \/ ResolveConsumer(r) \/ Consume(r) \/ AppendChannel(r)
           \/ SetRunning(r) \/ SetFailed(r) \/ CtxDone(r)
  <2>1. /\ pc[r] \in {"bind", "consume", "append", "failed", "select"}
        /\ UNCHANGED <<res, downVars>>
        /\ state' = state \/ (pc[r] \in Startup /\ state' \in {"Running", "Failed"})
        /\ UNCHANGED <<next, named>> \/ pc[r] \in Startup
    BY <1>2 DEF Subscribe, ResolveConsumer, Consume, AppendChannel, SetRunning, SetFailed, CtxDone,
       At, Startup, subVars
  <2>2. PICK l \in {"append", "failed", "consume", "bind", "select", "undo1", "shutdown"} :
           pc' = [pc EXCEPT ![r] = l]
    <3>1. CASE Subscribe(r) \/ ResolveConsumer(r) \/ Consume(r)
      BY <3>1 DEF Subscribe, ResolveConsumer, Consume, Goto
    <3>2. CASE AppendChannel(r) \/ SetRunning(r) \/ SetFailed(r) \/ CtxDone(r)
      BY <3>2 DEF AppendChannel, SetRunning, SetFailed, CtxDone, Goto
    <3> QED  BY <1>2, <3>1, <3>2
  <2>3. /\ pc[r] \notin DrainPath \cup {"returned"} /\ l \in Working
        /\ res[r] # "start failed"
    BY <1>0, <2>1 DEF DrainPath, Working, Startup, Attended
  <2>4. pc[r] \in Startup => state # "Created"
    BY <1>0 DEF DrainInv, TypeInv, OneStarts
  <2> QED  BY <1>0, <2>1, <2>2, <2>3, <2>4, AttendedStep DEF downVars
<1>3. CASE RunStopped(r)
  <2>1. /\ pc[r] = "select" /\ stopped /\ pc' = [pc EXCEPT ![r] = "returned"]
        /\ res' = [res EXCEPT ![r] = shutdownErr]
        /\ UNCHANGED <<state, next, subVars, downVars>>
    BY <1>3 DEF RunStopped, At, Goto, Return
  <2>2. /\ sdOnce /\ shutdownErr # "start failed"
        /\ pc[r] \notin DrainPath \cup {"returned"}
    BY <1>0, <2>1 DEF DrainPath, DrainInv, OneDrains, TypeOK, DrainTypes
  <2> QED  BY <1>0, <2>1, <2>2, AttendedStep DEF subVars, downVars
<1> QED  BY <1>1, <1>2, <1>3 DEF RunStep

LEMMA AttendedShutdown ==
    ASSUME DrainInv, Attended, NEW a \in Actors, ShutdownStep(a) \/ CallShutdown(a),
           crash' = "no"
    PROVE  Attended'
<1>0. /\ TypeOK /\ DOMAIN res = Actors /\ OneDrains
      /\ shutdownErr # "start failed"
      /\ pc[a] # "returned" => res[a] # "start failed"
  BY DEF DrainInv, TypeInv, TypeOK, ControlTypes, DrainTypes, Attended
<1>1. CASE Unsubscribe(a) \/ Teardown(a)
  <2>1. /\ pc[a] \in {"undo1", "undo2", "unwind1", "unwind2"}
        /\ UNCHANGED <<state, next, downVars>>
        /\ named' \in {named, {}}
    BY <1>1 DEF Unsubscribe, Teardown, At
  <2>2. \/ pc[a] = "undo1" /\ pc' = [pc EXCEPT ![a] = "undo2"] /\ res' = res
        \/ pc[a] = "unwind1" /\ pc' = [pc EXCEPT ![a] = "unwind2"] /\ res' = res
        \/ pc[a] = "unwind2" /\ pc' = [pc EXCEPT ![a] = "cancel"] /\ res' = res
        \/ /\ pc[a] = "undo2" /\ pc' = [pc EXCEPT ![a] = "returned"]
           /\ res' = [res EXCEPT ![a] = "start failed"]
    BY <1>1 DEF Unsubscribe, Teardown, At, Goto, Return
  <2>3. state = "Created" => named' = named
    BY <2>1 DEF Attended
  <2>4. /\ {"undo1", "undo2"} \subseteq Working
        /\ {"unwind1", "unwind2", "cancel"} \subseteq DrainPath
        /\ Working \cap DrainPath = {}
        /\ "returned" \notin Working \cup DrainPath
    BY DEF Working, Startup, DrainPath
  <2> QED  BY <1>0, <2>1, <2>2, <2>3, <2>4, AttendedStep DEF downVars
<1>2. CASE ShutdownOnce(a)
  <2>1. /\ pc[a] = "shutdown" /\ sdOnce' /\ pc[a] \notin DrainPath
        /\ UNCHANGED <<state, next, res, subVars, stopped>>
    BY <1>2 DEF ShutdownOnce, At, DrainPath
  <2>2. PICK l : pc' = [pc EXCEPT ![a] = l] /\ (sdOnce \/ l = "drain") /\ l # "returned"
    BY <1>2 DEF ShutdownOnce, Goto
  <2>3. "drain" \in DrainPath
    BY DEF DrainPath
  <2> QED  BY <1>0, <2>1, <2>2, <2>3, AttendedStep DEF subVars
<1>3. CASE CallShutdown(a) \/ AwaitStopped(a)
  <2>1. /\ pc[a] \in {"idle", "await"} /\ UNCHANGED <<state, next, subVars, downVars>>
    BY <1>3 DEF CallShutdown, AwaitStopped, At
  <2>2. PICK l \in {"shutdown", "returned"} : pc' = [pc EXCEPT ![a] = l]
    BY <1>3 DEF CallShutdown, AwaitStopped, Goto, Return
  <2>3. /\ res' = res \/ \E x : res' = [res EXCEPT ![a] = x]
        /\ res'[a] # "start failed"
    BY <1>0, <1>3, <2>1 DEF CallShutdown, AwaitStopped, Return
  <2>4. pc[a] \notin Working \cup DrainPath
    BY <2>1 DEF Working, Startup, DrainPath
  <2> QED  BY <1>0, <2>1, <2>2, <2>3, <2>4, AttendedStep DEF subVars, downVars
<1>4. CASE SetDraining(a) \/ CancelThinking(a) \/ Drained(a) \/ DrainTimeout(a) \/ SetStopped(a)
           \/ CloseStopped(a)
  <2>1. /\ pc[a] \in DrainPath /\ pc[a] # "returned"
        /\ UNCHANGED <<next, res, subVars, sdOnce>>
        /\ state' = state \/ state' \in {"Draining", "Stopped"}
        /\ stopped => stopped'
    BY <1>4 DEF SetDraining, CancelThinking, Drained, DrainTimeout, SetStopped, CloseStopped, At,
       DrainPath, downVars
  <2>2. PICK l : /\ pc' = [pc EXCEPT ![a] = l] /\ l # "returned"
                 /\ l \in DrainPath \/ stopped'
    BY <1>4 DEF SetDraining, CancelThinking, Drained, DrainTimeout, SetStopped, CloseStopped, Goto,
       DrainPath
  <2>3. sdOnce /\ pc[a] \notin Working
    BY <1>0, <2>1 DEF OneDrains, DrainPath, Working, Startup
  <2> QED  BY <1>0, <2>1, <2>2, <2>3, AttendedStep DEF subVars
<1>5. ~TornRead(a) /\ ~RacingTeardown(a)
  BY DEF TornRead, RacingTeardown
<1> QED  BY <1>1, <1>2, <1>3, <1>4, <1>5 DEF ShutdownStep

\* Whatever is called, and however early: an imp that was started always has
\* somebody to bring it down.
LEMMA AttendedInvariant == Spec => [](DrainInv /\ Attended)
<1>1. Init => Attended
  BY DEF Init, Attended
<1>2. ASSUME DrainInv, Attended, [Next]_vars PROVE Attended'
  <2>1. CASE UNCHANGED <<state, pc, res, next, named, sdOnce, stopped>>
    BY <1>2, <2>1 DEF Attended
  <2>2. CASE UNCHANGED vars
    BY <2>1, <2>2 DEF vars, subVars, downVars
  <2>3. ASSUME NEW r \in Runners, RunStep(r) \/ CtxDone(r) PROVE Attended'
    <3>1. CASE crash' = "no"
      BY <1>2, <2>3, <3>1, AttendedRun
    <3>2. CASE crash' # "no"
      <4>1. BootAgain(r) /\ pc' = pc
        BY <2>3, <3>2 DEF RunStep, CtxDone, Boot, BootAgain, CasStarting, Subscribe, ResolveConsumer,
           Consume, AppendChannel, SetRunning, SetFailed, RunStopped, At, Goto
      <4> QED  BY <2>1, <4>1 DEF BootAgain, subVars, downVars
    <3> QED  BY <3>1, <3>2
  <2>4. ASSUME NEW a \in Actors, ShutdownStep(a) \/ CallShutdown(a) PROVE Attended'
    <3>1. CASE crash' = "no"
      BY <1>2, <2>4, <3>1, AttendedShutdown
    <3>2. CASE crash' # "no"
      <4>1. TornRead(a) \/ RacingTeardown(a)
        BY <2>4, <3>2 DEF ShutdownStep, CallShutdown, Unsubscribe, Teardown, ShutdownOnce,
           SetDraining, CancelThinking, Drained, DrainTimeout, SetStopped, CloseStopped,
           AwaitStopped, At
      <4> QED  BY <2>1, <4>1 DEF TornRead, RacingTeardown, subVars, downVars
    <3> QED  BY <3>1, <3>2
  <2>5. ASSUME NEW c \in Chs, DispatchStep(c) PROVE Attended'
    BY <2>1, <2>5 DEF DispatchStep, Deliver, NoThink, RaiseGauge, Launch, Dispatch, subVars, downVars
  <2>6. ASSUME NEW t \in Thoughts, ThinkingEnds(t) \/ WgDone(t) PROVE Attended'
    BY <2>1, <2>6 DEF ThinkingEnds, WgDone, subVars, downVars
  <2>7. CASE WaiterEnters \/ WaiterWakes
    BY <2>1, <2>7 DEF WaiterEnters, WaiterWakes, subVars, downVars
  <2> QED  BY <1>2, <2>2, <2>3, <2>4, <2>5, <2>6, <2>7 DEF Next, Actors
<1> QED  BY <1>1, <1>2, DrainInvariant, PTL DEF Spec

\* spec.md:273 (SC-009), Shutdown "leaves no subscriptions", for callers that let
\* Run start the imp: when the last Run and Shutdown has returned, whoever it
\* was and whatever failed, nothing is subscribed and no ephemeral consumer is
\* left but where a JetStream call failed.
THEOREM LifecycleNothingLeftBehind ==
    EarlyShutdown = FALSE => (Spec => []NothingLeftBehind)
<1> SUFFICES ASSUME EarlyShutdown = FALSE PROVE Spec => []NothingLeftBehind
  OBVIOUS
<1>1. ASSUME StartInv, DrainInv /\ Attended PROVE NothingLeftBehind
  <2> SUFFICES ASSUME \A a \in Actors : pc[a] = "returned"
               PROVE  (\A c \in Chs : subs[c] = 0) /\ consumers \subseteq orphans
    BY DEF NothingLeftBehind
  <2>0. "returned" \notin Working \cup DrainPath \cup {"append", "consume"}
    BY DEF Working, Startup, DrainPath
  <2>1. CASE state = "Created"
    <3>1. next = 1 /\ named = {}
      BY <1>1, <2>1 DEF Attended
    <3>2. channels = {} /\ Current({"append"}) = {} /\ Current({"consume", "append"}) = {}
      BY <1>1, <2>0, <3>1 DEF StartInv, Binds, Current
    <3> QED  BY <1>1, <3>1, <3>2 DEF StartInv, Binds
  <2>2. CASE state # "Created"
    <3>1. stopped \/ \E a \in Actors : Unsubscribed(a) /\ TornDown(a)
      BY <1>1, <2>0, <2>2 DEF Attended, Unsubscribed, TornDown
    <3> QED  BY <1>1, <3>1 DEF StartInv, Unwound, StreamChs
  <2> QED  BY <2>1, <2>2
<1>2. Spec => []StartInv
  BY StartInvariant
<1> QED  BY <1>1, <1>2, AttendedInvariant, PTL
=============================================================================
