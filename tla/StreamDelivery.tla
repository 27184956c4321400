--------------------------- MODULE StreamDelivery ---------------------------
(***************************************************************************)
(* stream.go dispatchStream: the per-message pipeline of a stream channel  *)
(* (decode, extract, awareness, ack, verdict) against a durable JetStream  *)
(* consumer, and dispatch.go dispatch, the pipeline of a subject channel,  *)
(* which shares the imp's metrics and acks nothing.                        *)
(*                                                                         *)
(* The consumer is external: it delivers at least once, keeps what is not  *)
(* acked, redelivers what is NAKed or outlives AckWait, and gives up after *)
(* MaxDeliver.  Acks and NAKs travel, may be late and may be lost.  The    *)
(* consume callback is serial.  A crash loses the process: what the client *)
(* has buffered, the message in hand and the metrics; decoders and         *)
(* extractors run without a panic guard, so a panic of theirs is one.      *)
(***************************************************************************)
EXTENDS Integers, Sequences, FiniteSets

CONSTANTS
    N,              \* messages in the stream
    Poison,         \* messages no attempt succeeds on
    Verdicts,       \* the verdicts awareness may return
    AckPolicy,      \* ConsumerConfig.AckPolicy, passed through by the harness
    MaxDeliver,     \* ConsumerConfig.MaxDeliver; 0 = unlimited
    MaxAckPending,  \* ConsumerConfig.MaxAckPending
    MaxBuffer,      \* messages the client holds for the callback
    MaxFaults,      \* bound: crashes, lost acks and NAKs, passing failures
    MaxSubject,     \* bound: messages on the subject channel
    CounterMod,     \* a metrics counter wraps at this value
    None

Msgs == 1..N
Failures == {"DecodeFailures", "ExtractionFailures", "AwarenessPanics"}
VerdictCounters == {"IgnoredVerdicts", "NotesDelivered", "ThinksDispatched"}
Counters == Failures \cup VerdictCounters \cup {"NakTotal"}

ASSUME SizesNatural ==
    N \in Nat /\ MaxDeliver \in Nat /\ MaxFaults \in Nat /\ MaxSubject \in Nat
ASSUME LimitsPositive ==
    MaxAckPending \in Nat \ {0} /\ MaxBuffer \in Nat \ {0} /\ CounterMod \in Nat \ {0}
ASSUME PoisonInStream == Poison \subseteq Msgs
ASSUME VerdictsKnown == Verdicts \subseteq {"ignore", "note", "think", "zero"}
ASSUME AckPolicyKnown == AckPolicy \in {"explicit", "all"}
ASSUME NoneIsNoMessage == None \notin Msgs
ASSUME VerdictIsNotNone == None \notin Verdicts

VARIABLES
    status,      \* message -> "new", "out", "again", "acked" or "dropped"
    deliveries,  \* message -> its deliveries, when MaxDeliver limits them
    acks, naks,  \* acknowledgements under way to the consumer
    buffer,      \* delivered messages waiting for the callback
    cur,         \* the message the callback handles, or None
    step,        \* "idle", "pipeline", "ack" or "verdict"
    verdict,     \* the verdict in hand, or None
    metrics,     \* counter -> value, modulo CounterMod
    aware,       \* messages awareness has returned a verdict for (history)
    received,    \* message -> deliveries to this process, up to CounterMod (history)
    delivered,   \* all of these, modulo CounterMod (history)
    onSubject,   \* messages dispatched on the subject channel (history)
    notePanics,  \* panics of OnNote (history)
    faults       \* faults so far (bound)

consumer == <<status, deliveries>>
wire == <<acks, naks>>
callback == <<buffer, cur, step, verdict>>
history == <<aware, received, delivered, onSubject, notePanics>>
vars == <<consumer, wire, callback, metrics, history, faults>>

Init ==
    /\ status = [m \in Msgs |-> "new"]
    /\ deliveries = [m \in Msgs |-> 0]
    /\ acks = {}
    /\ naks = {}
    /\ buffer = <<>>
    /\ cur = None
    /\ step = "idle"
    /\ verdict = None
    /\ metrics = [c \in Counters |-> 0]
    /\ aware = {}
    /\ received = [m \in Msgs |-> 0]
    /\ delivered = 0
    /\ onSubject = 0
    /\ notePanics = 0
    /\ faults = 0

Inc(n) == (n + 1) % CounterMod
Count(S) == metrics' = [c \in Counters |-> IF c \in S THEN Inc(metrics[c]) ELSE metrics[c]]

Fault == faults < MaxFaults /\ faults' = faults + 1

-----------------------------------------------------------------------------
(* The consumer and the way to it *)

Pending == {m \in Msgs : status[m] \in {"out", "again"}}

\* New messages go out in stream order while MaxAckPending allows; redelivered
\* ones whenever the client has room.
Deliver(m) ==
    /\ \/ status[m] = "again"
       \/ /\ status[m] = "new"
          /\ \A x \in Msgs : status[x] = "new" => m <= x
          /\ Cardinality(Pending) < MaxAckPending
    /\ Len(buffer) < MaxBuffer
    /\ MaxDeliver # 0 => deliveries[m] < MaxDeliver
    /\ status' = [status EXCEPT ![m] = "out"]
    /\ deliveries' = [deliveries EXCEPT ![m] = IF MaxDeliver = 0 THEN 0 ELSE @ + 1]
    /\ buffer' = Append(buffer, m)
    /\ received' = [received EXCEPT ![m] = IF @ < CounterMod THEN @ + 1 ELSE @]
    /\ delivered' = Inc(delivered)
    /\ UNCHANGED <<wire, cur, step, verdict, metrics, aware, onSubject, notePanics, faults>>

\* No delivery is left: the message stays in the stream, unacknowledged.
GiveUp(m) ==
    /\ status[m] = "again"
    /\ MaxDeliver # 0 /\ deliveries[m] = MaxDeliver
    /\ status' = [status EXCEPT ![m] = "dropped"]
    /\ UNCHANGED <<deliveries, wire, callback, metrics, history, faults>>

\* AckWait elapses, whatever the client is doing with the message.
AckWaitExpires(m) ==
    /\ status[m] = "out"
    /\ status' = [status EXCEPT ![m] = "again"]
    /\ UNCHANGED <<deliveries, wire, callback, metrics, history, faults>>

\* An ack settles its message, under "all" every earlier delivered one as well.
AckArrives(m) ==
    /\ m \in acks
    /\ acks' = acks \ {m}
    /\ status' = [x \in Msgs |->
                    IF x = m \/ (AckPolicy = "all" /\ x < m /\ x \in Pending)
                    THEN "acked" ELSE status[x]]
    /\ UNCHANGED <<deliveries, naks, callback, metrics, history, faults>>

\* A NAK makes its message due again unless it is settled.
NakArrives(m) ==
    /\ m \in naks
    /\ naks' = naks \ {m}
    /\ status' = [status EXCEPT ![m] = IF @ = "out" THEN "again" ELSE @]
    /\ UNCHANGED <<deliveries, acks, callback, metrics, history, faults>>

\* An ack or a NAK never arrives, or msg.Nak returned an error.
WireLoses(m) ==
    /\ Fault
    /\ \/ m \in acks /\ acks' = acks \ {m} /\ UNCHANGED naks
       \/ m \in naks /\ naks' = naks \ {m} /\ UNCHANGED acks
    /\ UNCHANGED <<consumer, callback, metrics, history>>

-----------------------------------------------------------------------------
(* dispatchStream *)

\* The consume callback is called with the next message.
Take ==
    /\ step = "idle" /\ buffer # <<>>
    /\ cur' = Head(buffer)
    /\ buffer' = Tail(buffer)
    /\ step' = "pipeline"
    /\ UNCHANGED <<consumer, wire, verdict, metrics, history, faults>>

Done == cur' = None /\ step' = "idle" /\ verdict' = None

\* Mutant: an awareness panic is not counted in NakTotal.
Fails_PanicUncounted(failure) ==
    /\ step = "pipeline"
    /\ IF cur \in Poison THEN UNCHANGED faults ELSE Fault
    /\ Count({failure} \cup IF failure = "AwarenessPanics" THEN {} ELSE {"NakTotal"})
    /\ naks' = naks \cup {cur}
    /\ Done
    /\ UNCHANGED <<consumer, acks, buffer, history>>

\* Mutant: a failed message is acknowledged.
Fails_Acks(failure) ==
    /\ step = "pipeline"
    /\ IF cur \in Poison THEN UNCHANGED faults ELSE Fault
    /\ Count({failure, "NakTotal"})
    /\ acks' = acks \cup {cur}
    /\ Done
    /\ UNCHANGED <<consumer, naks, buffer, history>>

\* Mutant: a failed message is retried in place.
Fails_RetriesInPlace(failure) ==
    /\ step = "pipeline"
    /\ IF cur \in Poison THEN UNCHANGED faults ELSE Fault
    /\ Count({failure, "NakTotal"})
    /\ UNCHANGED <<consumer, wire, callback, history>>

\* Decode or ExtractEntity fails (an empty entity included) or awareness
\* panics: counted, NAKed, never acked.
Fails(failure) ==
    /\ step = "pipeline"
    /\ IF cur \in Poison THEN UNCHANGED faults ELSE Fault
    /\ Count({failure, "NakTotal"})
    /\ naks' = naks \cup {cur}
    /\ Done
    /\ UNCHANGED <<consumer, acks, buffer, history>>

\* Awareness returns a verdict.
Awareness(v) ==
    /\ step = "pipeline"
    /\ cur \notin Poison
    /\ verdict' = v
    /\ aware' = aware \cup {cur}
    /\ step' = "ack"
    /\ UNCHANGED <<consumer, wire, buffer, cur, metrics, received, delivered, onSubject, notePanics,
                   faults>>

\* msg.Ack, whatever the verdict.  Its error is logged and the verdict is acted
\* on all the same.
Ack ==
    /\ step = "ack"
    /\ \/ acks' = acks \cup {cur} /\ UNCHANGED faults
       \/ Fault /\ UNCHANGED acks
    /\ step' = "verdict"
    /\ UNCHANGED <<consumer, naks, buffer, cur, verdict, metrics, history>>

\* The counters a verdict raises; a Verdict{} that no constructor built has
\* none, and a panicking OnNote counts as an awareness panic.
VerdictCount(v, notePanicked) ==
    CASE v = "ignore" -> {"IgnoredVerdicts"}
      [] v = "note"   -> {"NotesDelivered"} \cup IF notePanicked THEN {"AwarenessPanics"} ELSE {}
      [] v = "think"  -> {"ThinksDispatched"}
      [] v = "zero"   -> {}

\* Mutant: a Note is counted when OnNote has returned.
Branch_CountAfterNote(notePanicked) ==
    /\ step = "verdict"
    /\ notePanicked => verdict = "note"
    /\ Count(IF notePanicked THEN {"AwarenessPanics"} ELSE VerdictCount(verdict, FALSE))
    /\ notePanics' = IF notePanicked THEN Inc(notePanics) ELSE notePanics
    /\ Done
    /\ UNCHANGED <<consumer, wire, buffer, aware, received, delivered, onSubject, faults>>

\* The switch on the verdict: launchThinking only starts a goroutine.
Branch(notePanicked) ==
    /\ step = "verdict"
    /\ notePanicked => verdict = "note"
    /\ Count(VerdictCount(verdict, notePanicked))
    /\ notePanics' = IF notePanicked THEN Inc(notePanics) ELSE notePanics
    /\ Done
    /\ UNCHANGED <<consumer, wire, buffer, aware, received, delivered, onSubject, faults>>

-----------------------------------------------------------------------------
(* dispatch: a subject channel of the same imp *)

SubjectFails(failure) ==
    /\ onSubject < MaxSubject
    /\ Count({failure})
    /\ onSubject' = onSubject + 1
    /\ UNCHANGED <<consumer, wire, callback, aware, received, delivered, notePanics, faults>>

SubjectVerdict(v, notePanicked) ==
    /\ onSubject < MaxSubject
    /\ notePanicked => v = "note"
    /\ Count(VerdictCount(v, notePanicked))
    /\ onSubject' = onSubject + 1
    /\ notePanics' = IF notePanicked THEN Inc(notePanics) ELSE notePanics
    /\ UNCHANGED <<consumer, wire, callback, aware, received, delivered, faults>>

\* The process stops and another starts and binds the same consumer.
Crash ==
    /\ Fault
    /\ buffer' = <<>>
    /\ Done
    /\ metrics' = [c \in Counters |-> 0]
    /\ received' = [m \in Msgs |-> 0]
    /\ delivered' = 0
    /\ onSubject' = 0
    /\ notePanics' = 0
    /\ UNCHANGED <<consumer, wire, aware>>

-----------------------------------------------------------------------------
DispatchStream ==
    \/ Take
    \/ \E failure \in Failures : Fails(failure)
    \/ \E v \in Verdicts : Awareness(v)
    \/ Ack
    \/ \E notePanicked \in BOOLEAN : Branch(notePanicked)

Dispatch ==
    \/ \E failure \in Failures : SubjectFails(failure)
    \/ \E v \in Verdicts, notePanicked \in BOOLEAN : SubjectVerdict(v, notePanicked)

Consumer(m) ==
    \/ Deliver(m) \/ GiveUp(m) \/ AckWaitExpires(m)
    \/ AckArrives(m) \/ NakArrives(m) \/ WireLoses(m)

Next == (\E m \in Msgs : Consumer(m)) \/ DispatchStream \/ Dispatch \/ Crash

Spec == Init /\ [][Next]_vars

-----------------------------------------------------------------------------
(* Properties *)

\* Every variable keeps its type, and nothing is in hand while idle.
TypeOK ==
    /\ status \in [Msgs -> {"new", "out", "again", "acked", "dropped"}]
    /\ deliveries \in [Msgs -> 0..MaxDeliver]
    /\ acks \subseteq Msgs /\ naks \subseteq Msgs
    /\ buffer \in Seq(Msgs) /\ Len(buffer) <= MaxBuffer
    /\ step \in {"idle", "pipeline", "ack", "verdict"}
    /\ cur \in Msgs \cup {None} /\ (step = "idle" <=> cur = None)
    /\ verdict \in Verdicts \cup {None} /\ (step \in {"ack", "verdict"} <=> verdict # None)
    /\ metrics \in [Counters -> 0..(CounterMod - 1)]
    /\ aware \subseteq Msgs
    /\ received \in [Msgs -> 0..CounterMod] /\ delivered \in 0..(CounterMod - 1)
    /\ onSubject \in 0..MaxSubject /\ notePanics \in 0..(CounterMod - 1)
    /\ faults \in 0..MaxFaults

\* Ack at awareness completion: the consumer considers a message settled only
\* when awareness has returned a verdict for it, whatever is lost, late,
\* redelivered or crashes.
AckedMeansAware == \A m \in Msgs : status[m] = "acked" => m \in aware

Outcomes ==
    metrics["DecodeFailures"] + metrics["ExtractionFailures"] + metrics["AwarenessPanics"]
      + metrics["IgnoredVerdicts"] + metrics["NotesDelivered"] + metrics["ThinksDispatched"]
Arrived == delivered + onSubject + notePanics
Accounted == Outcomes + Len(buffer) + IF step = "idle" THEN 0 ELSE 1

\* The metrics miss nothing: every delivery to this process, and every subject
\* message, ends in exactly one failure or verdict counter or is still on its
\* way there; verdict.go:14-15, "It is one of Ignore, Note(payload), or
\* Think(reason, entity)", is what the switch on the verdict relies on.
EveryDeliveryCounted == Arrived % CounterMod = Accounted % CounterMod

\* The sum of f over the messages.
SumOf(f) == LET upTo[n \in 0..N] == IF n = 0 THEN 0 ELSE upTo[n - 1] + f[n] IN upTo[N]

Received(S) == SumOf([m \in Msgs |-> IF m \in S THEN received[m] ELSE 0])

Waiting(S) ==
    Cardinality({i \in 1..Len(buffer) : buffer[i] \in S}) + IF cur \in S THEN 1 ELSE 0

\* Too few deliveries to this process for NakTotal to have wrapped.
NotWrapped == Received(Msgs) < CounterMod

\* stream-channel.md:106: a stuck message shows in NakTotal.  Of the messages
\* awareness never completed, every delivery to this process is in NakTotal or
\* still waits, even if the NAK was lost.
StuckSignal ==
    NotWrapped => Received(Msgs \ aware) <= metrics["NakTotal"] + Waiting(Msgs \ aware)

\* A message that can be handled is settled in the end, although poison ones
\* are NAKed and redelivered for ever in between.
HealthySettles == \A m \in Msgs \ Poison : <>(status[m] = "acked")
=============================================================================
