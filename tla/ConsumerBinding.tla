--------------------------- MODULE ConsumerBinding ---------------------------
(***************************************************************************)
(* NewImp's validation and stream.go bindStreamChannel and resolveConsumer *)
(* for imps that share a stream: replicas, releases with a changed         *)
(* declaration, restarts.  An imp has one stream channel here; ImpLifecycle*)
(* has the order of several channels and the unwinding.                    *)
(*                                                                         *)
(* Each call to the server is a step: it succeeds, fails, or takes effect  *)
(* and fails.  Nobody deletes or edits a durable consumer while imps use   *)
(* it; it may exist before the first imp starts.                           *)
(***************************************************************************)
EXTENDS SpecValidation, ChannelSource, FiniteSets

CONSTANTS
    Imps,       \* processes, each running one imp at a time
    Specs,      \* the ImpSpecs they may be started with
    Names,      \* durable consumer names
    Existing,   \* configurations of consumers made by others before the start
    MaxStarts,  \* bound: calls of NewImp
    MaxFaults,  \* bound: failing calls and crashes
    None

Accepted == {s \in Specs : validateSpec(s) = Valid}
Source(s) == s.channels[1].source
Sources == {Source(s) : s \in Accepted}

ASSUME SpecsTyped == \A s \in Specs : Typed(s)
ASSUME AcceptedHaveOneStream ==
    \A s \in Accepted : Len(s.channels) = 1 /\ Source(s).kind = "stream"
ASSUME DurablesNamed == \A src \in Sources : src.durable \in Names \cup {""}
ASSUME NamesNotEmpty == "" \notin Names
ASSUME NoneIsNoConfig ==
    None \notin Existing /\ \A src \in Sources : ServerConfig(buildConsumerConfig(src)) # None
ASSUME NoneIsNoSource == None \notin Sources
ASSUME AckWaits ==
    /\ DefaultAckWait \in Nat
    /\ \A src \in Sources : src.cc.wait \in Int
    /\ \A got \in Existing : got.wait \in Nat
ASSUME BindingBounds == MaxStarts \in Nat /\ MaxFaults \in Nat

VARIABLES
    durables,    \* name -> the consumer's configuration on the server, or None
    ephemerals,  \* imp -> ephemeral consumers it has on the server
    pc,          \* imp -> "down", "stream", "lookup", "create", "consume" or "up"
    spec,        \* imp -> the spec it was last started with, or None
    result,      \* imp -> why it is down
    creator,     \* name -> the source the consumer was created from (history)
    served,      \* durable sources some imp has consumed under (history)
    orphans,     \* imp -> ephemeral consumers a fault left behind (history)
    starts, faults

server == <<durables, ephemerals>>
history == <<creator, served, orphans>>
vars == <<server, pc, spec, result, history, starts, faults>>

Config(i) == buildConsumerConfig(Source(spec[i]))
Durable(i) == Source(spec[i]).durable
Ephemeral(i) == Durable(i) = ""

Init ==
    /\ durables \in [Names -> Existing \cup {None}]
    /\ ephemerals = [i \in Imps |-> 0]
    /\ pc = [i \in Imps |-> "down"]
    /\ spec = [i \in Imps |-> None]
    /\ result = [i \in Imps |-> Valid]
    /\ creator = [n \in Names |-> None]
    /\ served = {}
    /\ orphans = [i \in Imps |-> 0]
    /\ starts = 0 /\ faults = 0

Goto(i, l) == pc' = [pc EXCEPT ![i] = l] /\ UNCHANGED result
Down(i, err) == pc' = [pc EXCEPT ![i] = "down"] /\ result' = [result EXCEPT ![i] = <<err, 0>>]
Fault == faults < MaxFaults /\ faults' = faults + 1
NoFault == UNCHANGED faults

\* NewImp without a connection fails before it looks at the spec.
NewImpNil(i) ==
    /\ pc[i] = "down"
    /\ starts < MaxStarts
    /\ starts' = starts + 1
    /\ Down(i, "nats.Conn")
    /\ UNCHANGED <<server, spec, history, faults>>

\* NewImp validates the spec; Run follows when it is accepted.
NewImp(i, s) ==
    /\ pc[i] = "down"
    /\ starts < MaxStarts
    /\ starts' = starts + 1
    /\ spec' = [spec EXCEPT ![i] = s]
    /\ result' = [result EXCEPT ![i] = validateSpec(s)]
    /\ pc' = IF result'[i] = Valid THEN [pc EXCEPT ![i] = "stream"] ELSE pc
    /\ UNCHANGED <<server, history, faults>>

\* js.Stream: found, not found, or an error.
LookupStream(i) ==
    /\ pc[i] = "stream"
    /\ \/ NoFault /\ Goto(i, IF Ephemeral(i) THEN "create" ELSE "lookup")
       \/ Fault /\ \E err \in {"ErrStreamNotFound", "error"} : Down(i, err)
    /\ UNCHANGED <<server, spec, history, starts>>

\* stream.Consumer and the compatibility check on what it returned.
LookupConsumer(i) ==
    /\ pc[i] = "lookup"
    /\ LET got == durables[Durable(i)] IN
       \/ NoFault /\ got = None /\ Goto(i, "create")
       \/ NoFault /\ got # None /\ compatible(got, Config(i)) /\ Goto(i, "consume")
       \/ /\ NoFault /\ got # None /\ ~compatible(got, Config(i))
          /\ Down(i, "ErrConsumerIncompatible")
       \/ Fault /\ Down(i, "error")
    /\ UNCHANGED <<server, spec, history, starts>>

\* Mutant: the create reply is not waited for before the consumer is used.
CreateDurable_Blind(i) ==
    /\ pc[i] = "create" /\ ~Ephemeral(i)
    /\ LET n == Durable(i)
           want == ServerConfig(Config(i))
       IN  IF durables[n] = None /\ Creatable(Config(i))
           THEN /\ durables' = [durables EXCEPT ![n] = want]
                /\ creator' = [creator EXCEPT ![n] = Source(spec[i])]
           ELSE UNCHANGED <<durables, creator>>
    /\ NoFault /\ Goto(i, "consume")
    /\ UNCHANGED <<ephemerals, spec, served, orphans, starts>>

\* stream.CreateConsumer under the durable name: it makes the consumer, finds
\* one that another imp has made meanwhile with the same configuration, or is
\* refused ("exists" and "refused" are both ErrSubscriptionFailed, with their
\* cause).  Its reply may be lost.
CreateDurable(i) ==
    /\ pc[i] = "create" /\ ~Ephemeral(i)
    /\ LET n == Durable(i)
           want == ServerConfig(Config(i))
       IN  \/ /\ durables[n] = None /\ Creatable(Config(i))
              /\ durables' = [durables EXCEPT ![n] = want]
              /\ creator' = [creator EXCEPT ![n] = Source(spec[i])]
              /\ \/ NoFault /\ Goto(i, "consume")
                 \/ Fault /\ Down(i, "ErrSubscriptionFailed")
           \/ /\ durables[n] = want
              /\ NoFault /\ Goto(i, "consume")
              /\ UNCHANGED <<durables, creator>>
           \/ /\ durables[n] \notin {None, want}
              /\ NoFault /\ Down(i, "exists")
              /\ UNCHANGED <<durables, creator>>
           \/ /\ durables[n] = None /\ ~Creatable(Config(i))
              /\ NoFault /\ Down(i, "refused")
              /\ UNCHANGED <<durables, creator>>
           \/ Fault /\ Down(i, "ErrSubscriptionFailed") /\ UNCHANGED <<durables, creator>>
    /\ UNCHANGED <<ephemerals, spec, served, orphans, starts>>

\* The same without a name: the server makes a consumer every time.
CreateEphemeral(i) ==
    /\ pc[i] = "create" /\ Ephemeral(i)
    /\ \/ /\ Creatable(Config(i))
          /\ ephemerals' = [ephemerals EXCEPT ![i] = @ + 1]
          /\ \/ NoFault /\ Goto(i, "consume") /\ UNCHANGED orphans
             \/ /\ Fault /\ Down(i, "ErrSubscriptionFailed")
                /\ orphans' = [orphans EXCEPT ![i] = @ + 1]
       \/ /\ ~Creatable(Config(i)) /\ NoFault /\ Down(i, "refused")
          /\ UNCHANGED <<ephemerals, orphans>>
       \/ Fault /\ Down(i, "ErrSubscriptionFailed") /\ UNCHANGED <<ephemerals, orphans>>
    /\ UNCHANGED <<durables, spec, creator, served, starts>>

\* DeleteConsumer of an ephemeral consumer; its error is dropped.
DeleteEphemeral(i) ==
    IF Ephemeral(i)
    THEN \/ ephemerals' = [ephemerals EXCEPT ![i] = @ - 1] /\ UNCHANGED orphans
         \/ orphans' = [orphans EXCEPT ![i] = @ + 1] /\ UNCHANGED ephemerals
    ELSE UNCHANGED <<ephemerals, orphans>>

\* Mutant: the consumer is left when it cannot be consumed from.
Consume_NoRollback(i) ==
    /\ pc[i] = "consume"
    /\ \/ /\ NoFault /\ Goto(i, "up")
          /\ served' = IF Ephemeral(i) THEN served ELSE served \cup {Source(spec[i])}
       \/ /\ Fault /\ Down(i, "ErrSubscriptionFailed")
          /\ UNCHANGED served
    /\ UNCHANGED <<server, orphans, spec, creator, starts>>

\* consumer.Consume; when it fails, an ephemeral consumer is rolled back.
Consume(i) ==
    /\ pc[i] = "consume"
    /\ \/ /\ NoFault /\ Goto(i, "up")
          /\ served' = IF Ephemeral(i) THEN served ELSE served \cup {Source(spec[i])}
          /\ UNCHANGED <<ephemerals, orphans>>
       \/ /\ Fault /\ Down(i, "ErrSubscriptionFailed")
          /\ DeleteEphemeral(i)
          /\ UNCHANGED served
    /\ UNCHANGED <<durables, spec, creator, starts>>

\* Shutdown: teardownStreamConsumers deletes an ephemeral consumer.
Shutdown(i) ==
    /\ pc[i] = "up"
    /\ Down(i, "nil")
    /\ DeleteEphemeral(i)
    /\ UNCHANGED <<durables, spec, creator, served, starts, faults>>

\* The process dies, and an ephemeral consumer it has made stays.
Crash(i) ==
    /\ pc[i] # "down"
    /\ Fault /\ Down(i, "crash")
    /\ orphans' = [orphans EXCEPT ![i] =
                     IF pc[i] \in {"consume", "up"} /\ Ephemeral(i) THEN @ + 1 ELSE @]
    /\ UNCHANGED <<server, spec, creator, served, starts>>

Next == \E i \in Imps :
    \/ NewImpNil(i) \/ \E s \in Specs : NewImp(i, s)
    \/ LookupStream(i) \/ LookupConsumer(i)
    \/ CreateDurable(i) \/ CreateEphemeral(i) \/ Consume(i)
    \/ Shutdown(i) \/ Crash(i)

Spec == Init /\ [][Next]_vars

-----------------------------------------------------------------------------
(* Properties *)

Bound(i) == pc[i] \in {"consume", "up"}
Stored == Existing \cup {ServerConfig(buildConsumerConfig(src)) : src \in Sources}

\* Every variable keeps its type; an imp past NewImp has an accepted spec.
TypeOK ==
    /\ durables \in [Names -> Stored \cup {None}]
    /\ ephemerals \in [Imps -> Nat] /\ orphans \in [Imps -> Nat]
    /\ pc \in [Imps -> {"down", "stream", "lookup", "create", "consume", "up"}]
    /\ spec \in [Imps -> Specs \cup {None}]
    /\ DOMAIN result = Imps
    /\ \A i \in Imps : pc[i] # "down" => spec[i] \in Accepted /\ result[i] = Valid
    /\ \A i \in Imps : pc[i] = "lookup" => ~Ephemeral(i)
    /\ creator \in [Names -> Sources \cup {None}]
    /\ served \subseteq {src \in Sources : src.durable \in Names}
    /\ starts \in 0..MaxStarts /\ faults \in 0..MaxFaults

\* NewImp accepts exactly the specs whose declarations are complete and distinct,
\* and what an error blames is the first fault in declaration order: the ones
\* before it are accepted (validate.go:3-5).  Complete is not yet usable: a source
\* with a start sequence and a start time passes, and the server refuses it.
ValidationExact ==
    [][\A i \in Imps : starts' # starts /\ spec'[i] # spec[i] =>
          /\ pc'[i] = "stream" <=> WellFormed(spec'[i])
          /\ result'[i][2] > 0 => WellFormed(Before(spec'[i], result'[i]))]_vars

\* Whichever imp made the durable consumer and however their calls interleave,
\* an imp consumes only from one that filters, delivers, replays and redelivers
\* as it declared, waits for acks at least as long, and acks explicitly unless
\* it declared otherwise itself (stream.go:193-196).
BoundAsDeclared ==
    \A i \in Imps : Bound(i) /\ ~Ephemeral(i) =>
        LET got == durables[Durable(i)]
            want == Config(i)
        IN  /\ got # None
            /\ got.filter = want.filter
            /\ got.ack \in {AckExplicit, want.ack}
            /\ want.deliver # 0 => got.deliver = want.deliver
            /\ want.replay # 0 => got.replay = want.replay
            /\ got.wait >= want.wait
            /\ want.max # 0 => got.max = want.max

\* Replicas and restarts: an imp is never turned away from a durable consumer
\* that was created from its own declaration, even when both create it at once,
\* and the compatibility check never refuses a declaration that has been served
\* before.  Only for explicit acks: see UnchangedNeverRefused.
SameDeclarationWelcome ==
    [][\A i \in Imps :
          LET src == Source(spec[i])
              refused == result'[i][1] IN
          pc[i] \in {"lookup", "create"} /\ src.cc.ack = AckExplicit =>
             /\ refused \in {"ErrConsumerIncompatible", "exists"} => creator[src.durable] # src
             /\ refused = "ErrConsumerIncompatible" => src \notin served]_vars

\* FR-005b, "no orphaned consumer remains": on the server are the ephemeral
\* consumers of the imps that use them, and one per fault at most.
EphemeralsAccounted ==
    \A i \in Imps :
        ephemerals[i] = orphans[i] + IF Bound(i) /\ Ephemeral(i) THEN 1 ELSE 0

-----------------------------------------------------------------------------
(* What the documents say and the code does not do *)

\* FR-005a, the harness "MUST create it with the declared config" and bind to it
\* "if it already exists with a configuration compatible with the channel's
\* declared config": a restart with an unchanged declaration is not refused.
UnchangedNeverRefused ==
    [][\A i \in Imps : pc[i] = "lookup" /\ result'[i][1] = "ErrConsumerIncompatible" =>
          Source(spec[i]) \notin served]_vars

\* FR-005a, "MUST bind to D if it already exists with a configuration compatible
\* with the channel's declared config": not only if it existed at the lookup.
CompatibleNeverRefused ==
    [][\A i \in Imps : pc[i] = "create" /\ result'[i][1] = "exists" =>
          ~compatible(durables[Durable(i)], Config(i))]_vars
=============================================================================
