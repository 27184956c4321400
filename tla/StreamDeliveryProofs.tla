------------------------ MODULE StreamDeliveryProofs ------------------------
(***************************************************************************)
(* Proofs about StreamDelivery and NoteBridge for every number of          *)
(* messages, every set of poison ones and every limit.                     *)
(***************************************************************************)
EXTENDS NoteBridge, FiniteSetTheorems, SequenceTheorems, WellFoundedInduction, TLAPS

-----------------------------------------------------------------------------
(* What makes the properties inductive *)

\* For AckedMeansAware, under explicit acks.
AcksBacked == acks \subseteq aware
InHandAware == step \in {"ack", "verdict"} => cur \in aware
AckInv == AckedMeansAware /\ AcksBacked /\ InHandAware

\* For StuckSignal, with InHandAware: what is in NakTotal or
\* waits has a delivery of its own, and so has every place one message waits at.
NaksReceived == NotWrapped => metrics["NakTotal"] + Waiting(Msgs) <= Received(Msgs)
WaitingReceived == NotWrapped => \A m \in Msgs : Waiting({m}) <= received[m]
StuckInv == InHandAware /\ StuckSignal /\ NaksReceived /\ WaitingReceived

\* For PostsPerNote: a comment on its way or in hand has a note of its own, and
\* there is one on its way only for a post that failed or a crash.
Owed(m) == late[m] + (IF payload = "noted" /\ cur = m THEN 1 ELSE 0)
InHand ==
    /\ buffer \in Seq(Msgs)
    /\ step # "idle" => cur \in Msgs
    /\ payload # None => step \in {"ack", "verdict"}
NotesOwed ==
    /\ late \in [Msgs -> Nat] /\ due \in [Msgs -> Int]
    /\ \A m \in Msgs : Owed(m) <= due[m]
LateBounded ==
    /\ fails \in 0..MaxPostFails /\ faults \in 0..MaxFaults
    /\ \A m \in Msgs : late[m] <= fails + faults
NoteInv == InHand /\ NotesOwed /\ LateBounded

-----------------------------------------------------------------------------
\* Counting keeps every counter below its modulus.
LEMMA IncType == ASSUME NEW n \in 0..(CounterMod - 1) PROVE Inc(n) \in 0..(CounterMod - 1)
BY LimitsPositive DEF Inc

LEMMA CountType ==
    ASSUME metrics \in [Counters -> 0..(CounterMod - 1)], NEW S, Count(S)
    PROVE  metrics' \in [Counters -> 0..(CounterMod - 1)]
BY IncType DEF Count

\* A fault is counted within its bound.
LEMMA FaultType == ASSUME faults \in 0..MaxFaults, Fault PROVE faults' \in 0..MaxFaults
BY SizesNatural DEF Fault

\* The initial states are well typed.
LEMMA InitType == Init => TypeOK
BY SizesNatural, LimitsPositive, NoneIsNoMessage, VerdictsKnown
   DEF Init, TypeOK, Counters, Failures, VerdictCounters

\* A step of the consumer or of the wire keeps the types.
LEMMA ConsumerType == ASSUME TypeOK, NEW m \in Msgs, Consumer(m) PROVE TypeOK'
<1> USE SizesNatural, LimitsPositive DEF TypeOK, consumer, wire, callback, history
<1>1. CASE Deliver(m)
  <2>0. \A n \in 0..CounterMod : (IF n < CounterMod THEN n + 1 ELSE n) \in 0..CounterMod
    OBVIOUS
  <2>1. received' \in [Msgs -> 0..CounterMod] /\ delivered' \in 0..(CounterMod - 1)
    BY <1>1, <2>0, IncType DEF Deliver
  <2>2. buffer' \in Seq(Msgs) /\ Len(buffer') <= MaxBuffer
    BY <1>1 DEF Deliver
  <2>3. deliveries' \in [Msgs -> 0..MaxDeliver]
    BY <1>1 DEF Deliver
  <2>4. status' \in [Msgs -> {"new", "out", "again", "acked", "dropped"}]
    BY <1>1 DEF Deliver
  <2> QED  BY <1>1, <2>1, <2>2, <2>3, <2>4 DEF Deliver
<1>2. CASE GiveUp(m)
  BY <1>2 DEF GiveUp
<1>3. CASE AckWaitExpires(m)
  BY <1>3 DEF AckWaitExpires
<1>4. CASE AckArrives(m)
  BY <1>4 DEF AckArrives
<1>5. CASE NakArrives(m)
  BY <1>5 DEF NakArrives
<1>6. CASE WireLoses(m)
  BY <1>6, FaultType DEF WireLoses
<1> QED  BY <1>1, <1>2, <1>3, <1>4, <1>5, <1>6 DEF Consumer

\* A step of a stream channel's callback keeps the types.
LEMMA DispatchStreamType == ASSUME TypeOK, DispatchStream PROVE TypeOK'
<1> USE SizesNatural, LimitsPositive, NoneIsNoMessage DEF TypeOK, consumer, wire, callback, history
<1>1. CASE Take
  <2>1. Head(buffer) \in Msgs /\ Tail(buffer) \in Seq(Msgs) /\ Len(Tail(buffer)) <= MaxBuffer
    BY <1>1 DEF Take
  <2> QED  BY <1>1, <2>1 DEF Take
<1>2. ASSUME NEW failure \in Failures, Fails(failure) PROVE TypeOK'
  <2>1. cur \in Msgs
    BY <1>2 DEF Fails
  <2>2. faults' \in 0..MaxFaults
    BY <1>2, FaultType DEF Fails
  <2>3. metrics' \in [Counters -> 0..(CounterMod - 1)]
    BY <1>2, CountType DEF Fails
  <2> QED  BY <1>2, <2>1, <2>2, <2>3 DEF Fails, Done
<1>3. ASSUME NEW v \in Verdicts, Awareness(v) PROVE TypeOK'
  <2>1. cur \in Msgs /\ v # None
    BY <1>3, VerdictIsNotNone DEF Awareness
  <2> QED  BY <1>3, <2>1 DEF Awareness
<1>4. CASE Ack
  <2>1. faults' \in 0..MaxFaults
    BY <1>4, FaultType DEF Ack
  <2> QED  BY <1>4, <2>1 DEF Ack
<1>5. ASSUME NEW notePanicked \in BOOLEAN, Branch(notePanicked) PROVE TypeOK'
  <2>1. metrics' \in [Counters -> 0..(CounterMod - 1)]
    BY <1>5, CountType DEF Branch
  <2>2. notePanics' \in 0..(CounterMod - 1)
    BY <1>5, IncType DEF Branch
  <2> QED  BY <1>5, <2>1, <2>2 DEF Branch, Done
<1> QED  BY <1>1, <1>2, <1>3, <1>4, <1>5 DEF DispatchStream

\* A step of a subject channel's callback keeps the types.
LEMMA DispatchType == ASSUME TypeOK, Dispatch PROVE TypeOK'
<1> USE SizesNatural, LimitsPositive DEF TypeOK, consumer, wire, callback
<1>1. ASSUME NEW failure \in Failures, SubjectFails(failure) PROVE TypeOK'
  <2>1. metrics' \in [Counters -> 0..(CounterMod - 1)]
    BY <1>1, CountType DEF SubjectFails
  <2> QED  BY <1>1, <2>1 DEF SubjectFails
<1>2. ASSUME NEW v \in Verdicts, NEW notePanicked \in BOOLEAN, SubjectVerdict(v, notePanicked)
      PROVE  TypeOK'
  <2>1. metrics' \in [Counters -> 0..(CounterMod - 1)]
    BY <1>2, CountType DEF SubjectVerdict
  <2>2. notePanics' \in 0..(CounterMod - 1)
    BY <1>2, IncType DEF SubjectVerdict
  <2> QED  BY <1>2, <2>1, <2>2 DEF SubjectVerdict
<1> QED  BY <1>1, <1>2 DEF Dispatch

\* Types hold of every behaviour, whatever is lost, redelivered or crashes: in
\* particular no message has more than MaxDeliver deliveries and the callback
\* has a message exactly while it is at work.
THEOREM DeliveryTypeCorrect == Spec => []TypeOK
<1>1. TypeOK /\ [Next]_vars => TypeOK'
  <2> SUFFICES ASSUME TypeOK, [Next]_vars PROVE TypeOK'
    OBVIOUS
  <2>1. CASE Crash
    BY <2>1, FaultType, SizesNatural, LimitsPositive
       DEF TypeOK, Crash, Done, consumer, wire
  <2>2. CASE UNCHANGED vars
    BY <2>2 DEF TypeOK, vars, consumer, wire, callback, history
  <2> QED
    BY <2>1, <2>2, ConsumerType, DispatchStreamType, DispatchType DEF Next
<1> QED  BY <1>1, InitType, PTL DEF Spec

-----------------------------------------------------------------------------
\* With explicit acks a step of the consumer or of the wire settles no message
\* that awareness has not seen.
LEMMA ConsumerAcks ==
    ASSUME AckPolicy = "explicit", TypeOK, AckInv, NEW m \in Msgs, Consumer(m)
    PROVE  AckInv'
<1> USE DEF TypeOK, AckInv, AckedMeansAware, AcksBacked, InHandAware,
           consumer, wire, callback, history
<1>1. CASE Deliver(m)
  BY <1>1 DEF Deliver
<1>2. CASE GiveUp(m)
  BY <1>2 DEF GiveUp
<1>3. CASE AckWaitExpires(m)
  BY <1>3 DEF AckWaitExpires
<1>4. CASE AckArrives(m)
  BY <1>4 DEF AckArrives
<1>5. CASE NakArrives(m)
  BY <1>5 DEF NakArrives
<1>6. CASE WireLoses(m)
  BY <1>6 DEF WireLoses
<1> QED  BY <1>1, <1>2, <1>3, <1>4, <1>5, <1>6 DEF Consumer

\* The callback sends an ack only for a message awareness returned from.
LEMMA DispatchStreamAcks == ASSUME AckInv, DispatchStream PROVE AckInv'
<1> USE DEF AckInv, AckedMeansAware, AcksBacked, InHandAware, consumer, wire, callback, history
<1>1. CASE Take
  BY <1>1 DEF Take
<1>2. ASSUME NEW failure \in Failures, Fails(failure) PROVE AckInv'
  BY <1>2 DEF Fails, Done
<1>3. ASSUME NEW v \in Verdicts, Awareness(v) PROVE AckInv'
  BY <1>3 DEF Awareness
<1>4. CASE Ack
  BY <1>4 DEF Ack
<1>5. ASSUME NEW notePanicked \in BOOLEAN, Branch(notePanicked) PROVE AckInv'
  BY <1>5 DEF Branch, Done
<1> QED  BY <1>1, <1>2, <1>3, <1>4, <1>5 DEF DispatchStream

\* Ack at awareness completion, for every stream and every limit: under explicit
\* acks the consumer settles a message only when awareness has returned a
\* verdict for it.
THEOREM AckAtAwareness == AckPolicy = "explicit" => (Spec => []AckedMeansAware)
<1> SUFFICES ASSUME AckPolicy = "explicit" PROVE Spec => []AckedMeansAware
  OBVIOUS
<1>1. Init => AckInv
  BY DEF Init, AckInv, AckedMeansAware, AcksBacked, InHandAware
<1>2. TypeOK /\ AckInv /\ [Next]_vars => AckInv'
  <2> SUFFICES ASSUME TypeOK, AckInv, [Next]_vars PROVE AckInv'
    OBVIOUS
  <2> USE DEF AckInv, AckedMeansAware, AcksBacked, InHandAware, consumer, wire, callback
  <2>1. CASE Dispatch
    BY <2>1 DEF Dispatch, SubjectFails, SubjectVerdict
  <2>2. CASE Crash
    BY <2>2 DEF Crash, Done
  <2>3. CASE UNCHANGED vars
    BY <2>3 DEF vars, history
  <2> QED
    BY <2>1, <2>2, <2>3, ConsumerAcks, DispatchStreamAcks DEF Next
<1>3. AckInv => AckedMeansAware
  BY DEF AckInv
<1> QED  BY <1>1, <1>2, <1>3, DeliveryTypeCorrect, PTL DEF Spec

-----------------------------------------------------------------------------
(* The note bridge on top of it *)

\* The verdict in hand leaves it: its comment is posted or on its way, or not.
LEMMA Comes ==
    ASSUME NoteInv, payload' = None, faults' \in 0..MaxFaults, fails' \in 0..MaxPostFails,
           fails <= fails', faults <= faults',
           \/ UNCHANGED <<due, late>>
           \/ payload = "noted" /\ Posted(cur) /\ UNCHANGED late
           \/ payload = "noted" /\ GivenUp(cur) /\ fails + faults < fails' + faults' /\ UNCHANGED due
    PROVE  NotesOwed' /\ LateBounded'
<1> USE DEF NoteInv
<1>1. payload = "noted" => cur \in Msgs
  BY NoneIsNoPayload DEF InHand, Payloads
<1>2. late \in [Msgs -> Nat] /\ due \in [Msgs -> Int]
  BY DEF NotesOwed
<1>3. late' \in [Msgs -> Nat] /\ due' \in [Msgs -> Int]
  BY <1>1, <1>2 DEF Posted, GivenUp
<1>4. fails \in Nat /\ faults \in Nat /\ fails' \in Nat /\ faults' \in Nat
  BY SizesNatural, PostFailsNatural DEF LateBounded
<1>5. ASSUME NEW m \in Msgs PROVE Owed(m)' <= due'[m] /\ late'[m] <= fails' + faults'
  <2>1. late[m] \in Nat /\ due[m] \in Int /\ Owed(m) <= due[m] /\ late[m] <= fails + faults
    BY <1>2 DEF NotesOwed, LateBounded
  <2>2. Owed(m)' = late'[m] /\ late'[m] \in Nat
    BY <1>3, NoneIsNoPayload DEF Owed, Payloads
  <2>3. CASE UNCHANGED <<due, late>>
    BY <1>4, <2>1, <2>2, <2>3 DEF Owed
  <2>4. CASE payload = "noted" /\ Posted(cur) /\ UNCHANGED late
    <3>1. due'[m] = IF m = cur THEN due[m] - 1 ELSE due[m]
      BY <1>2, <2>4 DEF Posted
    <3> QED  BY <1>4, <2>1, <2>2, <2>4, <3>1 DEF Owed
  <2>5. CASE payload = "noted" /\ GivenUp(cur) /\ fails + faults < fails' + faults' /\ UNCHANGED due
    <3>1. late'[m] = IF m = cur THEN late[m] + 1 ELSE late[m]
      BY <1>2, <2>5 DEF GivenUp
    <3> QED  BY <1>4, <2>1, <2>2, <2>5, <3>1 DEF Owed
  <2> QED  BY <2>3, <2>4, <2>5
<1> QED  BY <1>3, <1>5 DEF NotesOwed, LateBounded

\* A comment that was given up on is posted.
LEMMA LateCommentInv == ASSUME NoteInv, NEW m \in Msgs, LateComment(m) PROVE NoteInv'
<1>1. /\ late[m] > 0 /\ late' = [late EXCEPT ![m] = @ - 1] /\ due' = [due EXCEPT ![m] = @ - 1]
      /\ UNCHANGED <<buffer, cur, step, payload, fails, faults>>
  BY DEF LateComment, Posted, vars, callback
<1>2. InHand'
  BY <1>1 DEF NoteInv, InHand
<1>3. late \in [Msgs -> Nat] /\ due \in [Msgs -> Int]
  BY DEF NoteInv, NotesOwed
<1>4. late' \in [Msgs -> Nat] /\ due' \in [Msgs -> Int]
  BY <1>1, <1>3
<1>5. ASSUME NEW x \in Msgs PROVE Owed(x)' <= due'[x] /\ late'[x] <= fails' + faults'
  <2>1. /\ late[x] \in Nat /\ due[x] \in Int /\ fails \in Nat /\ faults \in Nat
        /\ Owed(x) <= due[x] /\ late[x] <= fails + faults
    BY <1>3, SizesNatural, PostFailsNatural DEF NoteInv, NotesOwed, LateBounded
  <2>2. /\ late'[x] = IF x = m THEN late[x] - 1 ELSE late[x]
        /\ due'[x] = IF x = m THEN due[x] - 1 ELSE due[x]
    BY <1>1, <1>3
  <2> QED  BY <1>1, <2>1, <2>2 DEF Owed
<1> QED  BY <1>1, <1>2, <1>4, <1>5 DEF NoteInv, NotesOwed, LateBounded

\* Awareness notes the message in hand.
LEMMA NoteVerdictInv == ASSUME NoteInv, NEW p \in Payloads, NoteVerdict(p) PROVE NoteInv'
<1>1. /\ step = "pipeline" /\ step' = "ack" /\ payload' = p
      /\ UNCHANGED <<buffer, cur, late, fails, faults>>
  BY DEF NoteVerdict, Awareness
<1>2. payload = None /\ cur \in Msgs
  BY <1>1 DEF NoteInv, InHand
<1>3. InHand'
  BY <1>1, <1>2 DEF NoteInv, InHand
<1>4. late \in [Msgs -> Nat] /\ due \in [Msgs -> Int]
  BY DEF NoteInv, NotesOwed
<1>5. due' = [due EXCEPT ![cur] = IF p = "noted" /\ due[cur] < MaxDue THEN due[cur] + 1 ELSE due[cur]]
  BY <1>4 DEF NoteVerdict, Noting
<1>6. MaxDue \in Nat /\ fails \in Nat /\ faults \in Nat /\ MaxDue > fails + faults
  BY SizesNatural, PostFailsNatural DEF MaxDue, NoteInv, LateBounded
<1>7. due' \in [Msgs -> Int]
  BY <1>2, <1>4, <1>5
<1>8. ASSUME NEW m \in Msgs PROVE Owed(m)' <= due'[m]
  <2>1. late[m] \in Nat /\ due[m] \in Int /\ Owed(m) <= due[m] /\ late[m] <= fails + faults
    BY <1>4 DEF NoteInv, NotesOwed, LateBounded
  <2>2. late[m] <= due[m]
    BY <1>2, <2>1, NoneIsNoPayload DEF Owed, Payloads
  <2>3. due'[m] = IF m = cur /\ p = "noted" /\ due[m] < MaxDue THEN due[m] + 1 ELSE due[m]
    BY <1>2, <1>4, <1>5
  <2>4. Owed(m)' = late[m] + (IF p = "noted" /\ cur = m THEN 1 ELSE 0)
    BY <1>1 DEF Owed
  <2> QED  BY <1>6, <2>1, <2>2, <2>3, <2>4
<1> QED  BY <1>1, <1>3, <1>4, <1>7, <1>8 DEF NoteInv, NotesOwed, LateBounded

\* The steps that leave the bridge alone, or only call its hook.
LEMMA BridgeFrame ==
    ASSUME NoteInv, UNCHANGED <<payload, late, due, fails>>, payload # None => UNCHANGED cur,
           faults' \in 0..MaxFaults, faults <= faults'
    PROVE  NotesOwed' /\ LateBounded'
<1>1. \A m \in Msgs : Owed(m)' = Owed(m)
  BY NoneIsNoPayload DEF Owed, Payloads
<1>2. \A m \in Msgs : late[m] \in Nat
  BY DEF NoteInv, NotesOwed
<1>3. fails \in Nat /\ faults \in Nat /\ faults' \in Nat
  BY SizesNatural, PostFailsNatural DEF NoteInv, LateBounded
<1> QED  BY <1>1, <1>2, <1>3 DEF NoteInv, NotesOwed, LateBounded

\* A step has a fault or none.
LEMMA FaultCounts ==
    ASSUME NoteInv
    PROVE  /\ faults \in Nat
           /\ UNCHANGED faults => faults' \in 0..MaxFaults /\ faults <= faults'
           /\ Fault => faults' \in 0..MaxFaults /\ faults < faults' /\ faults <= faults'
BY SizesNatural DEF NoteInv, LateBounded, Fault

LEMMA NoteDispatchInv == ASSUME NoteInv, Dispatching PROVE NoteInv'
<1> USE DEF consumer, wire, callback, history
<1>1. CASE Take /\ UNCHANGED bridge
  <2>1. payload = None /\ UNCHANGED <<payload, late, due, fails, faults>>
    BY <1>1 DEF Take, bridge, NoteInv, InHand
  <2>2. InHand'
    BY <1>1, <2>1 DEF Take, NoteInv, InHand
  <2> QED  BY <2>1, <2>2, FaultCounts, BridgeFrame DEF NoteInv
<1>2. ASSUME NEW failure \in Failures, Fails(failure), UNCHANGED bridge PROVE NoteInv'
  <2>1. payload = None /\ UNCHANGED <<payload, late, due, fails>> /\ (Fault \/ UNCHANGED faults)
    BY <1>2 DEF Fails, bridge, NoteInv, InHand
  <2>2. InHand'
    BY <1>2, <2>1 DEF Fails, Done, NoteInv, InHand
  <2> QED  BY <2>1, <2>2, FaultCounts, BridgeFrame DEF NoteInv
<1>3. CASE Ack /\ UNCHANGED bridge
  <2>1. UNCHANGED <<buffer, cur>> /\ step = "ack" /\ step' = "verdict" /\ (Fault \/ UNCHANGED faults)
    BY <1>3 DEF Ack
  <2>2. UNCHANGED <<payload, late, due, fails>>
    BY <1>3 DEF bridge
  <2>3. InHand'
    BY <2>1, <2>2 DEF NoteInv, InHand
  <2> QED  BY <2>1, <2>2, <2>3, FaultCounts, BridgeFrame DEF NoteInv
<1>4. CASE CallOnNote
  <2>1. UNCHANGED <<buffer, cur, step, payload, late, due, fails, faults>>
    BY <1>4 DEF CallOnNote
  <2>2. InHand'
    BY <2>1 DEF NoteInv, InHand
  <2> QED  BY <2>1, <2>2, FaultCounts, BridgeFrame DEF NoteInv
<1>5. ASSUME NEW panicked \in BOOLEAN, HookReturns(panicked), fails' \in 0..MaxPostFails, fails <= fails',
             \/ UNCHANGED <<due, late>>
             \/ payload = "noted" /\ Posted(cur) /\ UNCHANGED late
             \/ payload = "noted" /\ GivenUp(cur) /\ fails < fails' /\ UNCHANGED due
      PROVE  NoteInv'
  <2>1. payload' = None /\ step' = "idle" /\ UNCHANGED <<buffer, faults>>
    BY <1>5 DEF HookReturns, Done
  <2>2. InHand'
    BY <1>5, <2>1 DEF NoteInv, InHand
  <2>3. fails < fails' => fails + faults < fails' + faults'
    <3>1. fails \in Nat /\ faults \in Nat /\ fails' \in Nat /\ faults' = faults
      BY <1>5, <2>1, SizesNatural, PostFailsNatural DEF NoteInv, LateBounded
    <3>2. \A a, b, c \in Nat : a < c => a + b < c + b
      OBVIOUS
    <3>3. fails < fails' => fails + faults < fails' + faults
      BY <3>1, <3>2
    <3> QED  BY <3>1, <3>3
  <2> QED  BY <1>5, <2>1, <2>2, <2>3, FaultCounts, Comes DEF NoteInv
<1>6. fails \in 0..MaxPostFails /\ fails <= fails
  BY PostFailsNatural DEF NoteInv, LateBounded
<1>7. PostFails => fails' \in 0..MaxPostFails /\ fails < fails' /\ fails <= fails'
  BY <1>6, PostFailsNatural DEF PostFails
<1>8. ASSUME NEW panicked \in BOOLEAN, PassOn(panicked) \/ Malformed(panicked) PROVE NoteInv'
  BY <1>5, <1>6, <1>8 DEF PassOn, Malformed
<1>9. ASSUME NEW panicked \in BOOLEAN, AddComment(panicked) PROVE NoteInv'
  <2>1. HookReturns(panicked) /\ payload = "noted" /\ Outcome
    BY <1>9 DEF AddComment
  <2>2. fails' \in 0..MaxPostFails /\ fails <= fails'
    BY <1>6, <1>7, <2>1 DEF Outcome
  <2> QED  BY <1>5, <1>7, <2>1, <2>2 DEF Outcome
<1> QED  BY <1>1, <1>2, <1>3, <1>4, <1>8, <1>9, NoteVerdictInv DEF Dispatching

LEMMA NoteCrashInv == ASSUME NoteInv, NoteCrash PROVE NoteInv'
<1>1. payload' = None /\ buffer' = << >> /\ step' = "idle" /\ UNCHANGED <<due, fails>> /\ Fault
  BY DEF NoteCrash, Crash, Done
<1>2. UNCHANGED late \/ (payload = "noted" /\ GivenUp(cur))
  BY DEF NoteCrash
<1>3. InHand'
  BY <1>1 DEF InHand
<1>4. fails \in 0..MaxPostFails /\ fails <= fails /\ fails + faults < fails' + faults'
  BY <1>1, FaultCounts, SizesNatural, PostFailsNatural DEF NoteInv, LateBounded
<1> QED  BY <1>1, <1>2, <1>3, <1>4, FaultCounts, Comes DEF NoteInv

LEMMA NoteConsumerInv == ASSUME NoteInv, NEW m \in Msgs, Consumer(m), UNCHANGED bridge PROVE NoteInv'
<1>1. UNCHANGED <<payload, late, due, fails, cur, step>> /\ (Fault \/ UNCHANGED faults)
  BY DEF Consumer, Deliver, GiveUp, AckWaitExpires, AckArrives, NakArrives, WireLoses, bridge, callback
<1>2. buffer' \in Seq(Msgs)
  <2>1. buffer \in Seq(Msgs)
    BY DEF NoteInv, InHand
  <2>2. buffer' = Append(buffer, m) \/ UNCHANGED buffer
    BY DEF Consumer, Deliver, GiveUp, AckWaitExpires, AckArrives, NakArrives, WireLoses, callback
  <2> QED  BY <2>1, <2>2
<1>3. InHand'
  BY <1>1, <1>2 DEF NoteInv, InHand
<1> QED  BY <1>1, <1>3, FaultCounts, BridgeFrame DEF NoteInv

\* Every comment on its way or in hand has a note of its own, beside those of the
\* comments already posted, in every behaviour of an imp with the bridge.
THEOREM NoteInvariant == NoteSpec => []NoteInv
<1>1. NoteInit => NoteInv
  <2> SUFFICES ASSUME NoteInit PROVE NoteInv
    OBVIOUS
  <2>1. InHand
    BY DEF NoteInit, Init, InHand
  <2>2. \A m \in Msgs : Owed(m) = 0 /\ due[m] = 0
    BY NoneIsNoPayload DEF NoteInit, Owed, Payloads
  <2>3. late = [m \in Msgs |-> 0] /\ due = [m \in Msgs |-> 0] /\ fails = 0 /\ faults = 0
    BY DEF NoteInit, Init
  <2> QED  BY <2>1, <2>2, <2>3, SizesNatural, PostFailsNatural DEF NoteInv, NotesOwed, LateBounded
<1>2. NoteInv /\ [NoteNext]_noteVars => NoteInv'
  <2> SUFFICES ASSUME NoteInv, [NoteNext]_noteVars PROVE NoteInv'
    OBVIOUS
  <2>1. CASE UNCHANGED noteVars
    <3>1. UNCHANGED <<buffer, cur, step, faults, payload, late, due, fails>>
      BY <2>1 DEF noteVars, vars, bridge, callback
    <3>2. InHand'
      BY <3>1 DEF NoteInv, InHand
    <3> QED  BY <3>1, <3>2, FaultCounts, BridgeFrame DEF NoteInv
  <2> QED
    BY <2>1, NoteConsumerInv, NoteDispatchInv, LateCommentInv, NoteCrashInv DEF NoteNext
<1> QED  BY <1>1, <1>2, PTL DEF NoteSpec

\* The bridge never comments more often on a message than awareness noted it,
\* for every stream and any number of redeliveries, whatever is lost, late,
\* given up on or taken by a crash.
THEOREM BridgePostsPerNote == NoteSpec => []PostsPerNote
<1>1. NoteInv => PostsPerNote
  <2> SUFFICES ASSUME NoteInv, NEW m \in Msgs PROVE due[m] >= 0
    BY DEF PostsPerNote
  <2>1. late[m] \in Nat /\ due[m] \in Int /\ Owed(m) <= due[m]
    BY DEF NoteInv, NotesOwed
  <2> QED  BY <2>1 DEF Owed
<1> QED  BY <1>1, NoteInvariant, PTL

-----------------------------------------------------------------------------
(* The metrics *)

\* Counters that wrap differ from the numbers they stand for by multiples of
\* CounterMod.
Congruent(a, b) == \E k \in Int : a - b = k * CounterMod
CountInv == Congruent(Arrived, Accounted)

LEMMA ModInt == CounterMod \in Int /\ CounterMod > 0
BY LimitsPositive

LEMMA IncIs ==
    ASSUME NEW n \in 0..(CounterMod - 1)
    PROVE  \E j \in Int : Inc(n) = n + 1 - j * CounterMod
<1>1. CASE n + 1 < CounterMod
  <2>1. Inc(n) = n + 1 - 0 * CounterMod
    BY <1>1, LimitsPositive DEF Inc
  <2> QED  BY <2>1
<1>2. CASE n + 1 = CounterMod
  <2>1. Inc(n) = n + 1 - 1 * CounterMod
    BY <1>2, LimitsPositive DEF Inc
  <2> QED  BY <2>1
<1> QED  BY <1>1, <1>2, LimitsPositive

\* Both sides move on by as much, but for multiples.
LEMMA Shift ==
    ASSUME NEW a \in Int, NEW b \in Int, NEW d \in Int, NEW i \in Int, NEW j \in Int, Congruent(a, b)
    PROVE  Congruent(a + d - i * CounterMod, b + d - j * CounterMod)
<1>1. PICK k \in Int : a - b = k * CounterMod
  BY DEF Congruent
<1>2. (a + d - i * CounterMod) - (b + d - j * CounterMod) = (k - i + j) * CounterMod
  BY <1>1, ModInt
<1>3. k - i + j \in Int
  OBVIOUS
<1> QED  BY <1>2, <1>3 DEF Congruent

LEMMA CongruentMod ==
    ASSUME NEW a \in Int, NEW b \in Int, Congruent(a, b)
    PROVE  a % CounterMod = b % CounterMod
<1>1. PICK k \in Int : a - b = k * CounterMod
  BY DEF Congruent
<1> DEFINE q == a \div CounterMod  p == b \div CounterMod
           r == a % CounterMod     s == b % CounterMod
<1>2. a = CounterMod * q + r /\ r \in 0..(CounterMod - 1) /\ q \in Int
  BY ModInt
<1>3. b = CounterMod * p + s /\ s \in 0..(CounterMod - 1) /\ p \in Int
  BY ModInt
<1> HIDE DEF q, p, r, s
<1>4. r - s = (k - q + p) * CounterMod
  BY <1>1, <1>2, <1>3, ModInt
<1>5. PICK t \in Int : t = k - q + p
  BY <1>2, <1>3
<1>6. t < 1
  <2> SUFFICES ASSUME t >= 1 PROVE FALSE
    BY <1>5
  <2>1. t * CounterMod >= CounterMod
    BY <1>5, ModInt
  <2> QED  BY <1>2, <1>3, <1>4, <1>5, <2>1, ModInt
<1>7. t > -1
  <2> SUFFICES ASSUME t <= -1 PROVE FALSE
    BY <1>5
  <2>1. t * CounterMod <= -CounterMod
    BY <1>5, ModInt
  <2> QED  BY <1>2, <1>3, <1>4, <1>5, <2>1, ModInt
<1>8. t = 0
  BY <1>5, <1>6, <1>7
<1>9. r = s
  BY <1>2, <1>3, <1>4, <1>5, <1>8, ModInt
<1> QED  BY <1>9 DEF r, s

\* How many of the six counters that account for a message are in S.
Raised(S) ==
    (IF "DecodeFailures" \in S THEN 1 ELSE 0) + (IF "ExtractionFailures" \in S THEN 1 ELSE 0)
      + (IF "AwarenessPanics" \in S THEN 1 ELSE 0) + (IF "IgnoredVerdicts" \in S THEN 1 ELSE 0)
      + (IF "NotesDelivered" \in S THEN 1 ELSE 0) + (IF "ThinksDispatched" \in S THEN 1 ELSE 0)

LEMMA RaisedBy ==
    /\ \A failure \in Failures : Raised({failure}) = 1 /\ Raised({failure, "NakTotal"}) = 1
    /\ \A v \in Verdicts, p \in BOOLEAN :
          v # "zero" /\ (p => v = "note") => Raised(VerdictCount(v, p)) = 1 + IF p THEN 1 ELSE 0
<1>1. ASSUME NEW failure \in Failures PROVE Raised({failure}) = 1 /\ Raised({failure, "NakTotal"}) = 1
  BY DEF Raised, Failures
<1>2. ASSUME NEW v \in Verdicts, NEW p \in BOOLEAN, v # "zero", p => v = "note"
      PROVE  Raised(VerdictCount(v, p)) = 1 + IF p THEN 1 ELSE 0
  <2>1. CASE p
    <3>1. VerdictCount(v, p) = {"NotesDelivered"} \cup {"AwarenessPanics"}
      BY <1>2, <2>1 DEF VerdictCount
    <3>2. Raised({"NotesDelivered"} \cup {"AwarenessPanics"}) = 2
      BY DEF Raised
    <3>3. Raised(VerdictCount(v, p)) = 2
      BY <3>1, <3>2
    <3>4. (IF p THEN 1 ELSE 0) = 1
      BY <2>1
    <3>5. 1 + (IF p THEN 1 ELSE 0) = 2
      BY <3>4
    <3> QED  BY <3>3, <3>5
  <2>2. CASE ~p
    <3>1. PICK c \in VerdictCounters : VerdictCount(v, p) = {c}
      <4>1. CASE v = "ignore"
        BY <4>1 DEF VerdictCount, VerdictCounters
      <4>2. CASE v = "note"
        <5>1. VerdictCount(v, p) = {"NotesDelivered"} \cup {}
          BY <2>2, <4>2 DEF VerdictCount
        <5> QED  BY <5>1 DEF VerdictCounters
      <4>3. CASE v = "think"
        BY <4>3 DEF VerdictCount, VerdictCounters
      <4> QED  BY <1>2, <4>1, <4>2, <4>3, VerdictsKnown
    <3>2. Raised({c}) = 1
      BY DEF Raised, VerdictCounters
    <3> QED  BY <2>2, <3>1, <3>2
  <2> QED  BY <2>1, <2>2
<1> QED  BY <1>1, <1>2

LEMMA CountedOne ==
    ASSUME TypeOK, NEW S, Count(S), NEW c \in Counters
    PROVE  \E j \in Int : metrics'[c] = metrics[c] + (IF c \in S THEN 1 ELSE 0) - j * CounterMod
<1>1. metrics[c] \in 0..(CounterMod - 1) /\ metrics[c] \in Int
  BY LimitsPositive DEF TypeOK
<1>2. CASE c \in S
  <2>1. metrics'[c] = Inc(metrics[c])
    BY <1>2 DEF Count
  <2> QED  BY <1>1, <1>2, <2>1, IncIs
<1>3. CASE c \notin S
  <2>1. metrics'[c] = metrics[c]
    BY <1>3 DEF Count
  <2>2. metrics'[c] = metrics[c] + 0 - 0 * CounterMod
    BY <1>1, <2>1, ModInt
  <2> QED  BY <1>3, <2>2
<1> QED  BY <1>2, <1>3

LEMMA OutcomesCount ==
    ASSUME TypeOK, NEW S, Count(S)
    PROVE  \E j \in Int : Outcomes' = Outcomes + Raised(S) - j * CounterMod
<1> DEFINE One(c) == IF c \in S THEN 1 ELSE 0
<1>0. \A c \in Counters : metrics[c] \in Int /\ One(c) \in Int
  BY LimitsPositive DEF TypeOK
<1>1. PICK a \in Int : metrics'["DecodeFailures"]
                         = metrics["DecodeFailures"] + One("DecodeFailures") - a * CounterMod
  BY CountedOne DEF Counters, Failures
<1>2. PICK b \in Int : metrics'["ExtractionFailures"]
                         = metrics["ExtractionFailures"] + One("ExtractionFailures") - b * CounterMod
  BY CountedOne DEF Counters, Failures
<1>3. PICK c \in Int : metrics'["AwarenessPanics"]
                         = metrics["AwarenessPanics"] + One("AwarenessPanics") - c * CounterMod
  BY CountedOne DEF Counters, Failures
<1>4. PICK d \in Int : metrics'["IgnoredVerdicts"]
                         = metrics["IgnoredVerdicts"] + One("IgnoredVerdicts") - d * CounterMod
  BY CountedOne DEF Counters, VerdictCounters
<1>5. PICK e \in Int : metrics'["NotesDelivered"]
                         = metrics["NotesDelivered"] + One("NotesDelivered") - e * CounterMod
  BY CountedOne DEF Counters, VerdictCounters
<1>6. PICK f \in Int : metrics'["ThinksDispatched"]
                         = metrics["ThinksDispatched"] + One("ThinksDispatched") - f * CounterMod
  BY CountedOne DEF Counters, VerdictCounters
<1>7. Raised(S) = One("DecodeFailures") + One("ExtractionFailures") + One("AwarenessPanics")
                    + One("IgnoredVerdicts") + One("NotesDelivered") + One("ThinksDispatched")
  BY DEF Raised
<1>8. /\ metrics["DecodeFailures"] \in Int /\ metrics["ExtractionFailures"] \in Int
      /\ metrics["AwarenessPanics"] \in Int /\ metrics["IgnoredVerdicts"] \in Int
      /\ metrics["NotesDelivered"] \in Int /\ metrics["ThinksDispatched"] \in Int
      /\ One("DecodeFailures") \in Int /\ One("ExtractionFailures") \in Int
      /\ One("AwarenessPanics") \in Int /\ One("IgnoredVerdicts") \in Int
      /\ One("NotesDelivered") \in Int /\ One("ThinksDispatched") \in Int
  BY <1>0 DEF Counters, Failures, VerdictCounters
<1> HIDE DEF One
<1>9. a + b + c + d + e + f \in Int
  OBVIOUS
<1>10. Outcomes' = Outcomes + Raised(S) - (a + b + c + d + e + f) * CounterMod
  BY <1>1, <1>2, <1>3, <1>4, <1>5, <1>6, <1>7, <1>8, ModInt DEF Outcomes
<1> QED  BY <1>9, <1>10

\* The sums are integers.
LEMMA SumTypes ==
    ASSUME TypeOK
    PROVE  Outcomes \in Int /\ Arrived \in Int /\ Accounted \in Int /\ Len(buffer) \in Int
           /\ delivered \in 0..(CounterMod - 1) /\ notePanics \in 0..(CounterMod - 1)
           /\ delivered \in Int /\ notePanics \in Int /\ onSubject \in Int
<1>1. \A c \in Counters : metrics[c] \in Int
  BY LimitsPositive DEF TypeOK
<1>2. Outcomes \in Int
  BY <1>1 DEF Outcomes, Counters, Failures, VerdictCounters
<1>3. Len(buffer) \in Int
  BY DEF TypeOK
<1> QED  BY <1>2, <1>3, SizesNatural, LimitsPositive DEF TypeOK, Arrived, Accounted

LEMMA CountStep ==
    ASSUME TypeOK, CountInv, NEW d \in Int, NEW i \in Int, NEW j \in Int,
           Arrived' = Arrived + d - i * CounterMod, Accounted' = Accounted + d - j * CounterMod
    PROVE  CountInv'
BY SumTypes, Shift DEF CountInv

LEMMA CountFrame ==
    ASSUME CountInv, UNCHANGED <<delivered, onSubject, notePanics, metrics, buffer, step>>
    PROVE  CountInv'
BY DEF CountInv, Arrived, Accounted, Outcomes

\* Whether it panicked or not, OnNote is counted as often as it did.
LEMMA PanicCounts ==
    ASSUME TypeOK, NEW p \in BOOLEAN, notePanics' = IF p THEN Inc(notePanics) ELSE notePanics
    PROVE  \E i \in Int : notePanics' = notePanics + (IF p THEN 1 ELSE 0) - i * CounterMod
<1>1. CASE p
  BY <1>1, SumTypes, IncIs
<1>2. CASE ~p
  <2>1. notePanics' = notePanics + 0 - 0 * CounterMod
    BY <1>2, SumTypes, ModInt
  <2> QED  BY <1>2, <2>1
<1> QED  BY <1>1, <1>2

LEMMA ConsumerCounts == ASSUME TypeOK, CountInv, NEW m \in Msgs, Consumer(m) PROVE CountInv'
<1>1. CASE Deliver(m)
  <2>1. /\ delivered' = Inc(delivered) /\ buffer' = Append(buffer, m)
        /\ UNCHANGED <<onSubject, notePanics, metrics, step>>
    BY <1>1 DEF Deliver
  <2>2. PICK i \in Int : delivered' = delivered + 1 - i * CounterMod
    BY <2>1, IncIs, SumTypes
  <2>3. Len(buffer') = Len(buffer) + 1
    BY <2>1 DEF TypeOK
  <2>4. Arrived' = Arrived + 1 - i * CounterMod
    <3>1. PICK w \in Int : w = i * CounterMod
      BY ModInt
    <3>2. Arrived' = (delivered + 1 - w) + onSubject + notePanics
      BY <2>1, <2>2, <3>1 DEF Arrived
    <3> QED  BY <3>1, <3>2, SumTypes DEF Arrived
  <2>5. Accounted' = Accounted + 1 - 0 * CounterMod
    BY <2>1, <2>3, SumTypes, ModInt DEF Accounted, Outcomes
  <2> QED  BY <2>4, <2>5, CountStep
<1>2. CASE ~Deliver(m)
  <2>1. UNCHANGED <<delivered, onSubject, notePanics, metrics, buffer, step>>
    BY <1>2 DEF Consumer, GiveUp, AckWaitExpires, AckArrives, NakArrives, WireLoses, callback, history
  <2> QED  BY <2>1, CountFrame
<1> QED  BY <1>1, <1>2

LEMMA DispatchStreamCounts ==
    ASSUME "zero" \notin Verdicts, TypeOK, CountInv, DispatchStream
    PROVE  CountInv'
<1>1. CASE Take
  <2>1. /\ buffer' = Tail(buffer) /\ step = "idle" /\ step' = "pipeline" /\ buffer # << >>
        /\ UNCHANGED <<delivered, onSubject, notePanics, metrics>>
    BY <1>1 DEF Take, history
  <2>2. Len(buffer') = Len(buffer) - 1
    BY <2>1 DEF TypeOK
  <2>3. Arrived' = Arrived + 0 - 0 * CounterMod
    BY <2>1, SumTypes, ModInt DEF Arrived
  <2>4. Accounted' = Accounted + 0 - 0 * CounterMod
    BY <2>1, <2>2, SumTypes, ModInt DEF Accounted, Outcomes
  <2> QED  BY <2>3, <2>4, CountStep
<1>2. ASSUME NEW failure \in Failures, Fails(failure) PROVE CountInv'
  <2>1. /\ step = "pipeline" /\ step' = "idle" /\ Count({failure, "NakTotal"})
        /\ UNCHANGED <<delivered, onSubject, notePanics, buffer>>
    BY <1>2 DEF Fails, Done, history
  <2>2. PICK j \in Int : Outcomes' = Outcomes + 1 - j * CounterMod
    BY <2>1, OutcomesCount, RaisedBy
  <2>3. Arrived' = Arrived + 0 - 0 * CounterMod
    BY <2>1, SumTypes, ModInt DEF Arrived
  <2>4. Accounted' = Accounted + 0 - j * CounterMod
    BY <2>1, <2>2, SumTypes, ModInt DEF Accounted
  <2> QED  BY <2>3, <2>4, CountStep
<1>3. ASSUME NEW v \in Verdicts, Awareness(v) PROVE CountInv'
  <2>1. /\ step = "pipeline" /\ step' = "ack"
        /\ UNCHANGED <<delivered, onSubject, notePanics, metrics, buffer>>
    BY <1>3 DEF Awareness
  <2> QED  BY <2>1 DEF CountInv, Arrived, Accounted, Outcomes
<1>4. CASE Ack
  <2>1. /\ step = "ack" /\ step' = "verdict"
        /\ UNCHANGED <<delivered, onSubject, notePanics, metrics, buffer>>
    BY <1>4 DEF Ack, history
  <2> QED  BY <2>1 DEF CountInv, Arrived, Accounted, Outcomes
<1>5. ASSUME NEW p \in BOOLEAN, Branch(p) PROVE CountInv'
  <2>1. /\ step = "verdict" /\ step' = "idle" /\ Count(VerdictCount(verdict, p))
        /\ p => verdict = "note"
        /\ notePanics' = IF p THEN Inc(notePanics) ELSE notePanics
        /\ UNCHANGED <<delivered, onSubject, buffer>>
    BY <1>5 DEF Branch, Done
  <2>2. verdict \in Verdicts /\ verdict # "zero"
    BY <2>1 DEF TypeOK
  <2>3. Raised(VerdictCount(verdict, p)) = 1 + IF p THEN 1 ELSE 0
    BY <2>1, <2>2, RaisedBy
  <2>4. PICK j \in Int : Outcomes' = Outcomes + (1 + IF p THEN 1 ELSE 0) - j * CounterMod
    BY <2>1, <2>3, OutcomesCount
  <2>5. PICK i \in Int : notePanics' = notePanics + (IF p THEN 1 ELSE 0) - i * CounterMod
    BY <2>1, PanicCounts
  <2>6. PICK d \in Int : d = IF p THEN 1 ELSE 0
    OBVIOUS
  <2>7. Arrived' = Arrived + d - i * CounterMod
    BY <2>1, <2>5, <2>6, SumTypes, ModInt DEF Arrived
  <2>8. Accounted' = Accounted + d - j * CounterMod
    <3>1. PICK w \in Int : w = j * CounterMod
      BY ModInt
    <3>2. Accounted' = (Outcomes + (1 + d) - w) + Len(buffer) + 0
      BY <2>1, <2>4, <2>6, <3>1 DEF Accounted
    <3>3. Accounted = Outcomes + Len(buffer) + 1
      BY <2>1 DEF Accounted
    <3>4. Outcomes \in Int /\ Len(buffer) \in Int
      BY SumTypes
    <3>5. Accounted' = Accounted + d - w
      BY <3>2, <3>3, <3>4
    <3> QED  BY <3>1, <3>5
  <2> QED  BY <2>7, <2>8, CountStep
<1> QED  BY <1>1, <1>2, <1>3, <1>4, <1>5 DEF DispatchStream

LEMMA DispatchCounts ==
    ASSUME "zero" \notin Verdicts, TypeOK, CountInv, Dispatch
    PROVE  CountInv'
<1>1. ASSUME NEW failure \in Failures, SubjectFails(failure) PROVE CountInv'
  <2>1. /\ Count({failure}) /\ onSubject' = onSubject + 1
        /\ UNCHANGED <<delivered, notePanics, buffer, step>>
    BY <1>1 DEF SubjectFails, callback
  <2>2. PICK j \in Int : Outcomes' = Outcomes + 1 - j * CounterMod
    BY <2>1, OutcomesCount, RaisedBy
  <2>3. Arrived' = Arrived + 1 - 0 * CounterMod
    BY <2>1, SumTypes, ModInt DEF Arrived
  <2>4. Accounted' = Accounted + 1 - j * CounterMod
    <3>1. PICK w \in Int : w = j * CounterMod
      BY ModInt
    <3>2. PICK busy \in Int : busy = IF step = "idle" THEN 0 ELSE 1
      OBVIOUS
    <3>3. Accounted' = (Outcomes + 1 - w) + Len(buffer) + busy
      BY <2>1, <2>2, <3>1, <3>2 DEF Accounted
    <3>4. Accounted = Outcomes + Len(buffer) + busy
      BY <3>2 DEF Accounted
    <3>5. Outcomes \in Int /\ Len(buffer) \in Int
      BY SumTypes
    <3>6. Accounted' = Accounted + 1 - w
      BY <3>3, <3>4, <3>5
    <3> QED  BY <3>1, <3>6
  <2> QED  BY <2>3, <2>4, CountStep
<1>2. ASSUME NEW v \in Verdicts, NEW p \in BOOLEAN, SubjectVerdict(v, p) PROVE CountInv'
  <2>1. /\ Count(VerdictCount(v, p)) /\ onSubject' = onSubject + 1 /\ v # "zero"
        /\ p => v = "note"
        /\ notePanics' = IF p THEN Inc(notePanics) ELSE notePanics
        /\ UNCHANGED <<delivered, buffer, step>>
    BY <1>2 DEF SubjectVerdict, callback
  <2>2. Raised(VerdictCount(v, p)) = 1 + IF p THEN 1 ELSE 0
    BY <2>1, RaisedBy
  <2>3. PICK j \in Int : Outcomes' = Outcomes + (1 + IF p THEN 1 ELSE 0) - j * CounterMod
    BY <2>1, <2>2, OutcomesCount
  <2>4. PICK i \in Int : notePanics' = notePanics + (IF p THEN 1 ELSE 0) - i * CounterMod
    BY <2>1, PanicCounts
  <2>5. PICK d \in Int : d = 1 + IF p THEN 1 ELSE 0
    OBVIOUS
  <2>6. Arrived' = Arrived + d - i * CounterMod
    BY <2>1, <2>4, <2>5, SumTypes, ModInt DEF Arrived
  <2>7. Accounted' = Accounted + d - j * CounterMod
    BY <2>1, <2>3, <2>5, SumTypes, ModInt DEF Accounted
  <2> QED  BY <2>6, <2>7, CountStep
<1> QED  BY <1>1, <1>2 DEF Dispatch

\* Before the first message and after a restart everything is zero.
LEMMA NothingCounted ==
    ASSUME NEW Z, Z = [c \in Counters |-> 0]
    PROVE  Congruent(0 + 0 + 0, Z["DecodeFailures"] + Z["ExtractionFailures"] + Z["AwarenessPanics"]
                      + Z["IgnoredVerdicts"] + Z["NotesDelivered"] + Z["ThinksDispatched"] + 0 + 0)
<1>1. \A c \in Counters : Z[c] = 0
  OBVIOUS
<1>2. /\ Z["DecodeFailures"] = 0 /\ Z["ExtractionFailures"] = 0 /\ Z["AwarenessPanics"] = 0
      /\ Z["IgnoredVerdicts"] = 0 /\ Z["NotesDelivered"] = 0 /\ Z["ThinksDispatched"] = 0
  BY <1>1 DEF Counters, Failures, VerdictCounters
<1>3. 0 = 0 * CounterMod
  BY ModInt
<1> QED  BY <1>2, <1>3 DEF Congruent

\* The metrics miss nothing, for every stream and every modulus the counters
\* wrap at: if awareness returns one of the three verdicts, every delivery and
\* every subject message is in exactly one failure or verdict counter or on its
\* way there.
THEOREM DeliveriesCounted == "zero" \notin Verdicts => (Spec => []EveryDeliveryCounted)
<1> SUFFICES ASSUME "zero" \notin Verdicts PROVE Spec => []EveryDeliveryCounted
  OBVIOUS
<1>1. Init => CountInv
  BY NothingCounted DEF Init, CountInv, Arrived, Accounted, Outcomes
<1>2. TypeOK /\ CountInv /\ [Next]_vars => CountInv'
  <2> SUFFICES ASSUME TypeOK, CountInv, [Next]_vars PROVE CountInv'
    OBVIOUS
  <2>1. CASE Crash
    <3>1. /\ metrics' = [c \in Counters |-> 0] /\ Len(buffer') = 0 /\ step' = "idle"
          /\ delivered' = 0 /\ onSubject' = 0 /\ notePanics' = 0
      BY <2>1 DEF Crash, Done
    <3> QED  BY <3>1, NothingCounted DEF CountInv, Arrived, Accounted, Outcomes
  <2>2. CASE UNCHANGED vars
    BY <2>2, CountFrame DEF vars, callback, history
  <2> QED
    BY <2>1, <2>2, ConsumerCounts, DispatchStreamCounts, DispatchCounts DEF Next
<1>3. TypeOK /\ CountInv => EveryDeliveryCounted
  BY SumTypes, CongruentMod DEF CountInv, EveryDeliveryCounted
<1> QED  BY <1>1, <1>2, <1>3, DeliveryTypeCorrect, PTL DEF Spec

-----------------------------------------------------------------------------
(* Sums over the messages *)

\* Every set of numbers that is not empty has a least one.
LEMMA LeastOf ==
    ASSUME NEW T \in SUBSET Nat, T # {}
    PROVE  \E m \in T : \A k \in T : m <= k
<1> DEFINE R == OpToRel(<, Nat)
<1>1. IsWellFoundedOn(R, Nat)
  BY NatLessThanWellFounded
<1>2. \A x, y \in Nat : x < y => <<x, y>> \in R
  BY DEF OpToRel
<1> HIDE DEF R
<1>3. PICK m \in T : \A k \in T : ~(<<k, m>> \in R)
  BY <1>1, WFMin
<1>4. \A k \in T : ~(k < m)
  <2> TAKE k \in T
  <2>1. k \in Nat /\ m \in Nat
    OBVIOUS
  <2> QED  BY <1>2, <1>3, <2>1, Zenon
<1> QED  BY <1>3, <1>4

\* Induction over the natural numbers, on the set of those that have a property.
LEMMA Inductive ==
    ASSUME NEW T \in SUBSET Nat, 0 \in T, \A k \in T : k + 1 \in T
    PROVE  T = Nat
<1> DEFINE bad == Nat \ T
<1> SUFFICES ASSUME bad # {} PROVE FALSE
  OBVIOUS
<1>1. PICK m \in bad : \A k \in bad : m <= k
  <2>1. bad \in SUBSET Nat
    OBVIOUS
  <2> HIDE DEF bad
  <2> QED  BY <2>1, LeastOf
<1>2. m \in Nat /\ m # 0 /\ m - 1 \in Nat
  OBVIOUS
<1>3. (m - 1) + 1 \in T
  BY <1>1, <1>2
<1> QED  BY <1>2, <1>3

\* g[n] is the sum of the first n values.
Partial(f, g, m) == g = [n \in 0..m |-> IF n = 0 THEN 0 ELSE g[n - 1] + f[n]]

LEMMA PartialExists == ASSUME NEW f PROVE \A m \in Nat : \E g : Partial(f, g, m)
<1> DEFINE T == {m \in Nat : \E g : Partial(f, g, m)}
<1>1. 0 \in T
  <2> DEFINE g == [n \in 0..0 |-> 0]
  <2>1. Partial(f, g, 0)
    <3>1. \A n \in 0..0 : n = 0
      OBVIOUS
    <3> QED  BY <3>1 DEF Partial
  <2> QED  BY <2>1
<1>2. ASSUME NEW k \in T PROVE k + 1 \in T
  <2>1. PICK g : Partial(f, g, k)
    OBVIOUS
  <2> DEFINE h == [n \in 0..(k + 1) |-> IF n = k + 1 THEN g[k] + f[k + 1] ELSE g[n]]
  <2>2. k \in Nat /\ k + 1 \in Nat
    OBVIOUS
  <2>3. \A n \in 0..k : g[n] = IF n = 0 THEN 0 ELSE g[n - 1] + f[n]
    BY <2>1 DEF Partial
  <2>4. ASSUME NEW n \in 0..(k + 1) PROVE h[n] = IF n = 0 THEN 0 ELSE h[n - 1] + f[n]
    <3>1. CASE n = k + 1
      <4>1. n # 0 /\ n - 1 = k /\ k \in 0..(k + 1) /\ k # k + 1
        BY <2>2, <3>1
      <4>2. h[n - 1] = g[k] /\ h[n] = g[k] + f[k + 1]
        BY <3>1, <4>1
      <4> QED  BY <3>1, <4>1, <4>2
    <3>2. CASE n = 0
      <4>1. 0 # k + 1 /\ 0 \in 0..k
        BY <2>2
      <4> QED  BY <2>3, <3>2, <4>1
    <3>3. CASE n # 0 /\ n # k + 1
      <4>1. n \in 0..k /\ n - 1 \in 0..(k + 1) /\ n - 1 # k + 1
        BY <2>2, <3>3
      <4>2. h[n - 1] = g[n - 1] /\ h[n] = g[n]
        BY <3>3, <4>1
      <4> QED  BY <2>3, <3>3, <4>1, <4>2
    <3> QED  BY <3>1, <3>2, <3>3
  <2>5. h = [n \in 0..(k + 1) |-> h[n]]
    OBVIOUS
  <2> HIDE DEF h
  <2>6. Partial(f, h, k + 1)
    BY <2>4, <2>5 DEF Partial
  <2> QED  BY <2>2, <2>6
<1>3. T = Nat
  <2>1. T \in SUBSET Nat
    OBVIOUS
  <2> HIDE DEF T
  <2> QED  BY <1>1, <1>2, <2>1, Inductive
<1> QED  BY <1>3

\* SumOf is the last of the partial sums.
LEMMA SumPartial == ASSUME NEW f PROVE \E g : Partial(f, g, N) /\ SumOf(f) = g[N]
<1> DEFINE g == CHOOSE g : Partial(f, g, N)
<1>1. Partial(f, g, N)
  BY PartialExists, SizesNatural
<1>2. SumOf(f) = g[N]
  BY DEF SumOf, Partial
<1> QED  BY <1>1, <1>2

\* Whatever starts at zero and grows by f ends at the sum of f.
LEMMA SumIs ==
    ASSUME NEW f, NEW e, e[0] = 0, \A n \in Msgs : e[n] = e[n - 1] + f[n]
    PROVE  SumOf(f) = e[N]
<1>1. PICK g : Partial(f, g, N) /\ SumOf(f) = g[N]
  BY SumPartial
<1>2. \A n \in 0..N : g[n] = IF n = 0 THEN 0 ELSE g[n - 1] + f[n]
  BY <1>1 DEF Partial
<1> DEFINE T == {n \in Nat : n <= N => g[n] = e[n]}
<1>3. 0 \in T
  <2>1. 0 \in 0..N
    BY SizesNatural
  <2> QED  BY <1>2, <2>1
<1>4. ASSUME NEW k \in T PROVE k + 1 \in T
  <2>1. k \in Nat /\ k + 1 \in Nat
    OBVIOUS
  <2> SUFFICES ASSUME k + 1 <= N PROVE g[k + 1] = e[k + 1]
    BY <2>1
  <2>2. k <= N /\ k + 1 \in 0..N /\ k + 1 \in Msgs /\ (k + 1) - 1 = k /\ k + 1 # 0
    BY <2>1, SizesNatural DEF Msgs
  <2>3. g[k] = e[k]
    BY <2>2
  <2>4. g[k + 1] = g[k] + f[k + 1]
    BY <1>2, <2>2
  <2>5. e[k + 1] = e[k] + f[k + 1]
    BY <2>2
  <2> QED  BY <2>3, <2>4, <2>5
<1>5. T = Nat
  <2>1. T \in SUBSET Nat
    OBVIOUS
  <2> HIDE DEF T
  <2> QED  BY <1>3, <1>4, <2>1, Inductive
<1>6. N \in T
  BY <1>5, SizesNatural
<1>7. N <= N
  BY SizesNatural
<1> QED  BY <1>1, <1>6, <1>7

\* The partial sums of natural numbers are natural numbers.
LEMMA SumSteps ==
    ASSUME NEW f \in [Msgs -> Nat]
    PROVE  \E g \in [0..N -> Nat] :
              g[0] = 0 /\ (\A n \in Msgs : g[n] = g[n - 1] + f[n]) /\ SumOf(f) = g[N]
<1>1. PICK g : Partial(f, g, N) /\ SumOf(f) = g[N]
  BY SumPartial
<1>2. \A n \in 0..N : g[n] = IF n = 0 THEN 0 ELSE g[n - 1] + f[n]
  BY <1>1 DEF Partial
<1> DEFINE T == {n \in Nat : n <= N => g[n] \in Nat}
<1>3. g[0] = 0
  <2>1. 0 \in 0..N
    BY SizesNatural
  <2> QED  BY <1>2, <2>1
<1>4. \A n \in Msgs : g[n] = g[n - 1] + f[n]
  <2>1. \A n \in Msgs : n \in 0..N /\ n # 0
    BY SizesNatural DEF Msgs
  <2> QED  BY <1>2, <2>1
<1>5. ASSUME NEW k \in T PROVE k + 1 \in T
  <2>1. k \in Nat /\ k + 1 \in Nat
    OBVIOUS
  <2> SUFFICES ASSUME k + 1 <= N PROVE g[k + 1] \in Nat
    BY <2>1
  <2>2. k <= N /\ k + 1 \in Msgs /\ (k + 1) - 1 = k
    BY <2>1, SizesNatural DEF Msgs
  <2>3. g[k] \in Nat /\ f[k + 1] \in Nat
    BY <2>2
  <2>4. g[k + 1] = g[k] + f[k + 1]
    BY <1>4, <2>2
  <2> QED  BY <2>3, <2>4
<1>6. T = Nat
  <2>1. T \in SUBSET Nat
    OBVIOUS
  <2>2. 0 \in T
    BY <1>3
  <2> HIDE DEF T
  <2> QED  BY <1>5, <2>1, <2>2, Inductive
<1>7. \A n \in 0..N : g[n] \in Nat
  <2> TAKE n \in 0..N
  <2>1. n \in Nat /\ n <= N
    BY SizesNatural
  <2>2. n \in T
    BY <1>6, <2>1
  <2> QED  BY <2>1, <2>2
<1>8. g = [n \in 0..N |-> g[n]]
  BY <1>1 DEF Partial
<1>9. g \in [0..N -> Nat]
  BY <1>7, <1>8
<1> QED  BY <1>1, <1>3, <1>4, <1>9

LEMMA SumNat == ASSUME NEW f \in [Msgs -> Nat] PROVE SumOf(f) \in Nat
<1>1. PICK g \in [0..N -> Nat] : SumOf(f) = g[N]
  BY SumSteps
<1>2. N \in 0..N
  BY SizesNatural
<1> QED  BY <1>1, <1>2

LEMMA SumZero == ASSUME NEW f, \A m \in Msgs : f[m] = 0 PROVE SumOf(f) = 0
<1> DEFINE e == [n \in 0..N |-> 0]
<1>1. N \in 0..N /\ 0 \in 0..N /\ \A n \in Msgs : n \in 0..N /\ n - 1 \in 0..N
  BY SizesNatural DEF Msgs
<1>2. e[0] = 0 /\ e[N] = 0 /\ \A n \in Msgs : e[n] = e[n - 1] + f[n]
  BY <1>1
<1> HIDE DEF e
<1> QED  BY <1>2, SumIs

\* A sum grows by what one of its values grows by.
LEMMA SumRaised ==
    ASSUME NEW f \in [Msgs -> Nat], NEW h, NEW m \in Msgs, NEW d \in Nat,
           h[m] = f[m] + d, \A x \in Msgs : x # m => h[x] = f[x]
    PROVE  SumOf(h) = SumOf(f) + d
<1>1. PICK g \in [0..N -> Nat] :
        g[0] = 0 /\ (\A n \in Msgs : g[n] = g[n - 1] + f[n]) /\ SumOf(f) = g[N]
  BY SumSteps
<1> DEFINE e == [n \in 0..N |-> g[n] + IF n < m THEN 0 ELSE d]
<1>2. /\ m \in Int /\ 0 < m /\ ~(N < m) /\ N \in 0..N /\ 0 \in 0..N
      /\ \A n \in Msgs : n \in 0..N /\ n - 1 \in 0..N /\ n \in Int
  BY SizesNatural DEF Msgs
<1>3. e[0] = 0 /\ e[N] = SumOf(f) + d
  BY <1>1, <1>2
<1>4. ASSUME NEW n \in Msgs PROVE e[n] = e[n - 1] + h[n]
  <2>1. e[n] = g[n] + (IF n < m THEN 0 ELSE d) /\ e[n - 1] = g[n - 1] + IF n - 1 < m THEN 0 ELSE d
    BY <1>2
  <2>2. g[n] \in Int /\ g[n - 1] \in Int /\ f[n] \in Int /\ g[n] = g[n - 1] + f[n]
    BY <1>1, <1>2
  <2>3. CASE n = m
    BY <1>2, <2>1, <2>2, <2>3
  <2>4. CASE n # m
    <3>1. h[n] = f[n] /\ (n < m <=> n - 1 < m)
      BY <1>2, <2>4
    <3> QED  BY <2>1, <2>2, <3>1
  <2> QED  BY <2>3, <2>4
<1> HIDE DEF e
<1> QED  BY <1>3, <1>4, SumIs

\* The values of r for the messages in S, and the places of b that S occupies.
SumIn(r, S) == SumOf([m \in Msgs |-> IF m \in S THEN r[m] ELSE 0])
Places(b, S) == {i \in 1..Len(b) : b[i] \in S}

LEMMA SumInNat == ASSUME NEW r \in [Msgs -> Nat], NEW S PROVE SumIn(r, S) \in Nat
<1>1. [m \in Msgs |-> IF m \in S THEN r[m] ELSE 0] \in [Msgs -> Nat]
  OBVIOUS
<1> QED  BY <1>1, SumNat DEF SumIn

LEMMA SumInRaised ==
    ASSUME NEW r \in [Msgs -> Nat], NEW S, NEW m \in Msgs, NEW h,
           h[m] = r[m] + 1, \A x \in Msgs : x # m => h[x] = r[x]
    PROVE  SumIn(h, S) = SumIn(r, S) + IF m \in S THEN 1 ELSE 0
<1> DEFINE f == [x \in Msgs |-> IF x \in S THEN r[x] ELSE 0]
           g == [x \in Msgs |-> IF x \in S THEN h[x] ELSE 0]
           d == IF m \in S THEN 1 ELSE 0
<1>1. f \in [Msgs -> Nat] /\ d \in Nat /\ r[m] \in Nat
  OBVIOUS
<1>2. g[m] = f[m] + d
  BY <1>1
<1>3. \A x \in Msgs : x # m => g[x] = f[x]
  OBVIOUS
<1>4. SumIn(h, S) = SumOf(g) /\ SumIn(r, S) = SumOf(f)
  BY DEF SumIn
<1> HIDE DEF f, g, d
<1>5. SumOf(g) = SumOf(f) + d
  BY <1>1, <1>2, <1>3, SumRaised
<1> QED  BY <1>4, <1>5 DEF d

LEMMA SumInWithout ==
    ASSUME NEW r \in [Msgs -> Nat], NEW S, NEW m \in Msgs, m \in S
    PROVE  SumIn(r, S) = SumIn(r, S \ {m}) + r[m]
<1> DEFINE f == [x \in Msgs |-> IF x \in S \ {m} THEN r[x] ELSE 0]
           g == [x \in Msgs |-> IF x \in S THEN r[x] ELSE 0]
<1>1. f \in [Msgs -> Nat] /\ r[m] \in Nat
  OBVIOUS
<1>2. g[m] = f[m] + r[m]
  BY <1>1
<1>3. \A x \in Msgs : x # m => g[x] = f[x]
  OBVIOUS
<1>4. SumIn(r, S) = SumOf(g) /\ SumIn(r, S \ {m}) = SumOf(f)
  BY DEF SumIn
<1> HIDE DEF f, g
<1> QED  BY <1>1, <1>2, <1>3, <1>4, SumRaised

LEMMA SumInBound ==
    ASSUME NEW r \in [Msgs -> Nat], NEW m \in Msgs PROVE r[m] <= SumIn(r, Msgs)
<1>1. SumIn(r, Msgs) = SumIn(r, Msgs \ {m}) + r[m] /\ SumIn(r, Msgs \ {m}) \in Nat /\ r[m] \in Nat
  BY SumInWithout, SumInNat
<1> QED  BY <1>1

LEMMA PlacesFinite ==
    ASSUME NEW b \in Seq(Msgs), NEW S
    PROVE  IsFiniteSet(Places(b, S)) /\ Cardinality(Places(b, S)) \in Nat
<1>1. IsFiniteSet(1..Len(b)) /\ Places(b, S) \in SUBSET (1..Len(b))
  BY FS_Interval DEF Places
<1>2. IsFiniteSet(Places(b, S))
  BY <1>1, FS_Subset
<1> QED  BY <1>2, FS_CardinalityType

LEMMA PlacesEmpty == ASSUME NEW S PROVE Cardinality(Places(<< >>, S)) = 0
<1>1. Places(<< >>, S) = {}
  BY DEF Places
<1> QED  BY <1>1, FS_EmptySet

LEMMA PlacesAppend ==
    ASSUME NEW b \in Seq(Msgs), NEW S, NEW m \in Msgs
    PROVE  Cardinality(Places(Append(b, m), S)) = Cardinality(Places(b, S)) + IF m \in S THEN 1 ELSE 0
<1> DEFINE l == Len(b) + 1
<1>1. /\ Len(b) \in Nat /\ Len(Append(b, m)) = l /\ Append(b, m)[l] = m
      /\ \A i \in 1..Len(b) : Append(b, m)[i] = b[i]
  OBVIOUS
<1>2. l \notin Places(b, S)
  BY <1>1 DEF Places
<1>3. \A i : i \in 1..l <=> (i \in 1..Len(b) \/ i = l)
  BY <1>1
<1>4. Places(Append(b, m), S) = IF m \in S THEN Places(b, S) \cup {l} ELSE Places(b, S)
  BY <1>1, <1>3 DEF Places
<1>5. IsFiniteSet(Places(b, S)) /\ Cardinality(Places(b, S)) \in Nat
  BY PlacesFinite
<1> HIDE DEF l
<1>6. Cardinality(Places(b, S) \cup {l}) = Cardinality(Places(b, S)) + 1
  BY <1>2, <1>5, FS_AddElement
<1> QED  BY <1>4, <1>5, <1>6

LEMMA PlacesTail ==
    ASSUME NEW b \in Seq(Msgs), NEW S, b # << >>
    PROVE  Cardinality(Places(b, S)) = Cardinality(Places(Tail(b), S)) + IF Head(b) \in S THEN 1 ELSE 0
<1> DEFINE P == Places(Tail(b), S)
           Q == Places(b, S) \ {1}
           f == [i \in P |-> i + 1]
<1>1. /\ Len(b) \in Nat \ {0} /\ Tail(b) \in Seq(Msgs) /\ Len(Tail(b)) = Len(b) - 1
      /\ Head(b) = b[1] /\ \A i \in 1..(Len(b) - 1) : Tail(b)[i] = b[i + 1]
  OBVIOUS
<1>2. \A i \in P : i \in Nat /\ i + 1 \in Q
  BY <1>1 DEF Places
<1>3. \A j \in Q : j - 1 \in P /\ (j - 1) + 1 = j
  <2> TAKE j \in Q
  <2>1. j \in 2..Len(b) /\ b[j] \in S
    BY <1>1 DEF Places
  <2>2. j - 1 \in 1..(Len(b) - 1) /\ (j - 1) + 1 = j
    BY <1>1, <2>1
  <2> QED  BY <1>1, <2>1, <2>2 DEF Places
<1>4. f \in Bijection(P, Q)
  <2>1. f \in [P -> Q]
    BY <1>2
  <2>2. \A x, y \in P : f[x] = f[y] => x = y
    BY <1>2
  <2>3. \A j \in Q : \E i \in P : f[i] = j
    BY <1>3
  <2> QED  BY <2>1, <2>2, <2>3 DEF Bijection, Injection, IsInjective, Surjection
<1>5. IsFiniteSet(P) /\ IsFiniteSet(Places(b, S)) /\ Cardinality(Places(b, S)) \in Nat
  BY <1>1, PlacesFinite
<1>6. Cardinality(Q) = Cardinality(P)
  BY <1>4, <1>5, FS_Bijection DEF ExistsBijection
<1>7. 1 \in Places(b, S) <=> Head(b) \in S
  BY <1>1 DEF Places
<1>8. Cardinality(Q) = IF 1 \in Places(b, S) THEN Cardinality(Places(b, S)) - 1
                       ELSE Cardinality(Places(b, S))
  BY <1>5, FS_RemoveElement
<1> HIDE DEF P, Q
<1> QED  BY <1>5, <1>6, <1>7, <1>8 DEF P

LEMMA PlacesWithout ==
    ASSUME NEW b \in Seq(Msgs), NEW S, NEW m \in S
    PROVE  Cardinality(Places(b, S)) = Cardinality(Places(b, S \ {m})) + Cardinality(Places(b, {m}))
<1> DEFINE P == Places(b, S \ {m})
           Q == Places(b, {m})
<1>1. Places(b, S) = P \cup Q /\ P \cap Q = {}
  BY DEF Places
<1>2. IsFiniteSet(P) /\ IsFiniteSet(Q)
  BY PlacesFinite
<1> HIDE DEF P, Q
<1>3. Cardinality(P \cup Q) = Cardinality(P) + Cardinality(Q) - Cardinality(P \cap Q)
  BY <1>2, FS_Union
<1>4. Cardinality(P \cap Q) = 0 /\ Cardinality(P) \in Nat /\ Cardinality(Q) \in Nat
  BY <1>1, <1>2, FS_EmptySet, FS_CardinalityType
<1> QED  BY <1>1, <1>3, <1>4 DEF P, Q

-----------------------------------------------------------------------------
(* A stuck message shows in NakTotal *)

Hand(c, S) == IF c \in S THEN 1 ELSE 0

LEMMA StuckTypes ==
    ASSUME TypeOK
    PROVE  /\ received \in [Msgs -> Nat] /\ buffer \in Seq(Msgs)
           /\ metrics["NakTotal"] \in 0..(CounterMod - 1) /\ metrics["NakTotal"] \in Nat
           /\ \A S : Received(S) = SumIn(received, S) /\ Received(S) \in Nat
           /\ \A S : /\ Waiting(S) = Cardinality(Places(buffer, S)) + Hand(cur, S)
                     /\ Cardinality(Places(buffer, S)) \in Nat
<1>1. received \in [Msgs -> Nat] /\ buffer \in Seq(Msgs)
  BY LimitsPositive DEF TypeOK
<1>2. "NakTotal" \in Counters
  BY DEF Counters
<1>3. metrics["NakTotal"] \in 0..(CounterMod - 1)
  BY <1>2 DEF TypeOK
<1>4. \A S : Received(S) = SumIn(received, S)
  BY DEF Received, SumIn
<1>5. \A S : Waiting(S) = Cardinality(Places(buffer, S)) + Hand(cur, S)
  BY DEF Waiting, Places, Hand
<1> QED  BY <1>1, <1>3, <1>4, <1>5, LimitsPositive, SumInNat, PlacesFinite

\* What StuckInv says of the numbers, for a process that has not had too many
\* deliveries: r of each message, b waiting, c in hand, k NAKs, a the aware.
Stuck(r, b, c, k, a) ==
    SumIn(r, Msgs) < CounterMod =>
        /\ SumIn(r, Msgs \ a) <= k + Cardinality(Places(b, Msgs \ a)) + Hand(c, Msgs \ a)
        /\ k + Cardinality(Places(b, Msgs)) + Hand(c, Msgs) <= SumIn(r, Msgs)
        /\ \A m \in Msgs : Cardinality(Places(b, {m})) + Hand(c, {m}) <= r[m]

LEMMA StuckInvIs ==
    TypeOK => (StuckInv <=> InHandAware /\ Stuck(received, buffer, cur, metrics["NakTotal"], aware))
<1> SUFFICES ASSUME TypeOK
             PROVE  StuckInv <=> InHandAware /\ Stuck(received, buffer, cur, metrics["NakTotal"], aware)
  OBVIOUS
<1>1. \A S : /\ Received(S) = SumIn(received, S)
             /\ Cardinality(Places(buffer, S)) \in Nat /\ Hand(cur, S) \in Nat
             /\ Waiting(S) = Cardinality(Places(buffer, S)) + Hand(cur, S)
  BY StuckTypes DEF Hand
<1>2. metrics["NakTotal"] \in Nat
  BY StuckTypes
<1>3. \A S : metrics["NakTotal"] + Waiting(S)
               = metrics["NakTotal"] + Cardinality(Places(buffer, S)) + Hand(cur, S)
  BY <1>1, <1>2
<1> QED  BY <1>1, <1>3 DEF StuckInv, StuckSignal, NaksReceived, WaitingReceived, NotWrapped, Stuck

LEMMA StuckDeliver ==
    ASSUME NEW r \in [Msgs -> 0..CounterMod], NEW b \in Seq(Msgs), NEW c, NEW k \in Nat, NEW a,
           Stuck(r, b, c, k, a), NEW m \in Msgs, NEW h \in [Msgs -> 0..CounterMod],
           h[m] = (IF r[m] < CounterMod THEN r[m] + 1 ELSE r[m]),
           \A x \in Msgs : x # m => h[x] = r[x]
    PROVE  Stuck(h, Append(b, m), c, k, a)
<1> SUFFICES ASSUME SumIn(h, Msgs) < CounterMod
             PROVE  /\ SumIn(h, Msgs \ a) <= k + Cardinality(Places(Append(b, m), Msgs \ a)) + Hand(c, Msgs \ a)
                    /\ k + Cardinality(Places(Append(b, m), Msgs)) + Hand(c, Msgs) <= SumIn(h, Msgs)
                    /\ \A x \in Msgs : Cardinality(Places(Append(b, m), {x})) + Hand(c, {x}) <= h[x]
  BY DEF Stuck
<1>1. r \in [Msgs -> Nat] /\ h \in [Msgs -> Nat] /\ CounterMod \in Nat
  BY LimitsPositive
<1>2. h[m] < CounterMod
  <2>1. h[m] <= SumIn(h, Msgs) /\ SumIn(h, Msgs) \in Nat /\ h[m] \in Nat
    BY <1>1, SumInBound, SumInNat
  <2> QED  BY <1>1, <2>1
<1>3. h[m] = r[m] + 1 /\ \A x \in Msgs : x # m => h[x] = r[x]
  BY <1>1, <1>2
<1>4. ASSUME NEW S
      PROVE  /\ SumIn(h, S) = SumIn(r, S) + Hand(m, S)
             /\ Cardinality(Places(Append(b, m), S)) = Cardinality(Places(b, S)) + Hand(m, S)
             /\ SumIn(r, S) \in Nat /\ Cardinality(Places(b, S)) \in Nat
             /\ Hand(m, S) \in Nat /\ Hand(c, S) \in Nat
  <2>1. SumIn(h, S) = SumIn(r, S) + Hand(m, S)
    <3>1. SumIn(h, S) = SumIn(r, S) + IF m \in S THEN 1 ELSE 0
      BY <1>1, <1>3, SumInRaised
    <3> QED  BY <3>1 DEF Hand
  <2>2. Cardinality(Places(Append(b, m), S)) = Cardinality(Places(b, S)) + Hand(m, S)
    BY PlacesAppend DEF Hand
  <2>3. SumIn(r, S) \in Nat /\ Cardinality(Places(b, S)) \in Nat
    BY <1>1, SumInNat, PlacesFinite
  <2>4. Hand(m, S) \in Nat /\ Hand(c, S) \in Nat
    BY DEF Hand
  <2> QED  BY <2>1, <2>2, <2>3, <2>4
<1>5. SumIn(r, Msgs) < CounterMod
  <2>1. SumIn(h, Msgs) = SumIn(r, Msgs) + Hand(m, Msgs) /\ SumIn(r, Msgs) \in Nat /\ Hand(m, Msgs) \in Nat
    BY <1>4
  <2> QED  BY <1>1, <2>1
<1>6. /\ SumIn(r, Msgs \ a) <= k + Cardinality(Places(b, Msgs \ a)) + Hand(c, Msgs \ a)
      /\ k + Cardinality(Places(b, Msgs)) + Hand(c, Msgs) <= SumIn(r, Msgs)
      /\ \A x \in Msgs : Cardinality(Places(b, {x})) + Hand(c, {x}) <= r[x]
  BY <1>5 DEF Stuck
<1>7. SumIn(h, Msgs \ a) <= k + Cardinality(Places(Append(b, m), Msgs \ a)) + Hand(c, Msgs \ a)
  <2> DEFINE S == Msgs \ a
  <2> HIDE DEF S
  <2>1. SumIn(r, S) <= k + Cardinality(Places(b, S)) + Hand(c, S)
    BY <1>6 DEF S
  <2>2. /\ SumIn(h, S) = SumIn(r, S) + Hand(m, S)
        /\ Cardinality(Places(Append(b, m), S)) = Cardinality(Places(b, S)) + Hand(m, S)
        /\ SumIn(r, S) \in Nat /\ Cardinality(Places(b, S)) \in Nat
        /\ Hand(m, S) \in Nat /\ Hand(c, S) \in Nat
    BY <1>4
  <2>3. SumIn(h, S) <= k + Cardinality(Places(Append(b, m), S)) + Hand(c, S)
    BY <2>1, <2>2
  <2> QED  BY <2>3 DEF S
<1>8. k + Cardinality(Places(Append(b, m), Msgs)) + Hand(c, Msgs) <= SumIn(h, Msgs)
  <2>1. /\ SumIn(h, Msgs) = SumIn(r, Msgs) + Hand(m, Msgs)
        /\ Cardinality(Places(Append(b, m), Msgs)) = Cardinality(Places(b, Msgs)) + Hand(m, Msgs)
        /\ SumIn(r, Msgs) \in Nat /\ Cardinality(Places(b, Msgs)) \in Nat
        /\ Hand(m, Msgs) \in Nat /\ Hand(c, Msgs) \in Nat
    BY <1>4
  <2> QED  BY <1>6, <2>1
<1>9. ASSUME NEW x \in Msgs PROVE Cardinality(Places(Append(b, m), {x})) + Hand(c, {x}) <= h[x]
  <2> DEFINE S == {x}
  <2>1. h[x] = r[x] + Hand(m, S) /\ r[x] \in Nat
    BY <1>1, <1>3 DEF Hand
  <2> HIDE DEF S
  <2>2. Cardinality(Places(b, S)) + Hand(c, S) <= r[x]
    BY <1>6 DEF S
  <2>3. /\ Cardinality(Places(Append(b, m), S)) = Cardinality(Places(b, S)) + Hand(m, S)
        /\ Cardinality(Places(b, S)) \in Nat /\ Hand(m, S) \in Nat /\ Hand(c, S) \in Nat
    BY <1>4
  <2>4. Cardinality(Places(Append(b, m), S)) + Hand(c, S) <= h[x]
    BY <2>1, <2>2, <2>3
  <2> QED  BY <2>4 DEF S
<1> QED  BY <1>7, <1>8, <1>9

\* The callback takes the first message that waits.
LEMMA StuckTake ==
    ASSUME NEW r, NEW b \in Seq(Msgs), NEW k \in Nat, NEW a, b # << >>, Stuck(r, b, None, k, a)
    PROVE  Stuck(r, Tail(b), Head(b), k, a)
<1>1. \A S : S \subseteq Msgs => Hand(None, S) = 0
  BY NoneIsNoMessage DEF Hand
<1>2. Tail(b) \in Seq(Msgs)
  OBVIOUS
<1>3. \A S : /\ Cardinality(Places(b, S)) = Cardinality(Places(Tail(b), S)) + Hand(Head(b), S)
             /\ Cardinality(Places(Tail(b), S)) \in Nat /\ Hand(Head(b), S) \in Nat
  BY <1>2, PlacesTail, PlacesFinite DEF Hand
<1>4. ASSUME NEW S, S \subseteq Msgs
      PROVE  /\ Cardinality(Places(b, S)) + Hand(None, S)
                  = Cardinality(Places(Tail(b), S)) + Hand(Head(b), S)
             /\ k + Cardinality(Places(b, S)) + Hand(None, S)
                  = k + Cardinality(Places(Tail(b), S)) + Hand(Head(b), S)
  BY <1>1, <1>3, <1>4
<1>5. \A m \in Msgs : {m} \subseteq Msgs
  OBVIOUS
<1>6. Msgs \ a \subseteq Msgs /\ Msgs \subseteq Msgs
  OBVIOUS
<1> QED  BY <1>4, <1>5, <1>6 DEF Stuck

LEMMA IncBelow == ASSUME NEW n \in 0..(CounterMod - 1), n + 1 < CounterMod PROVE Inc(n) = n + 1
BY LimitsPositive DEF Inc

\* The message in hand is NAKed, and NakTotal has room for it.
LEMMA StuckNak ==
    ASSUME NEW r \in [Msgs -> Nat], NEW b \in Seq(Msgs), NEW c \in Msgs, NEW a,
           NEW k \in 0..(CounterMod - 1), Stuck(r, b, c, k, a)
    PROVE  Stuck(r, b, None, Inc(k), a)
<1> SUFFICES ASSUME SumIn(r, Msgs) < CounterMod
             PROVE  /\ SumIn(r, Msgs \ a) <= Inc(k) + Cardinality(Places(b, Msgs \ a)) + Hand(None, Msgs \ a)
                    /\ Inc(k) + Cardinality(Places(b, Msgs)) + Hand(None, Msgs) <= SumIn(r, Msgs)
                    /\ \A m \in Msgs : Cardinality(Places(b, {m})) + Hand(None, {m}) <= r[m]
  BY DEF Stuck
<1>1. /\ SumIn(r, Msgs \ a) <= k + Cardinality(Places(b, Msgs \ a)) + Hand(c, Msgs \ a)
      /\ k + Cardinality(Places(b, Msgs)) + Hand(c, Msgs) <= SumIn(r, Msgs)
      /\ \A m \in Msgs : Cardinality(Places(b, {m})) + Hand(c, {m}) <= r[m]
  BY DEF Stuck
<1>2. /\ \A m \in Msgs : Hand(None, {m}) = 0 /\ Hand(c, {m}) \in {0, 1}
      /\ Hand(None, Msgs) = 0 /\ Hand(None, Msgs \ a) = 0
      /\ Hand(c, Msgs) = 1 /\ Hand(c, Msgs \ a) \in {0, 1}
  BY NoneIsNoMessage DEF Hand
<1>3. \A S : SumIn(r, S) \in Nat /\ Cardinality(Places(b, S)) \in Nat
  BY SumInNat, PlacesFinite
<1>4. k \in Nat /\ CounterMod \in Nat
  BY LimitsPositive
<1>5. SumIn(r, Msgs) \in Nat /\ Cardinality(Places(b, Msgs)) \in Nat
  BY <1>3
<1>6. k + 1 < CounterMod
  BY <1>1, <1>2, <1>4, <1>5
<1>7. Inc(k) = k + 1
  BY <1>6, IncBelow
<1>8. Inc(k) + Cardinality(Places(b, Msgs)) + Hand(None, Msgs) <= SumIn(r, Msgs)
  BY <1>1, <1>2, <1>4, <1>5, <1>7
<1>9. SumIn(r, Msgs \ a) <= Inc(k) + Cardinality(Places(b, Msgs \ a)) + Hand(None, Msgs \ a)
  <2>1. SumIn(r, Msgs \ a) \in Nat /\ Cardinality(Places(b, Msgs \ a)) \in Nat
    BY <1>3
  <2> QED  BY <1>1, <1>2, <1>4, <1>7, <2>1
<1>10. ASSUME NEW m \in Msgs PROVE Cardinality(Places(b, {m})) + Hand(None, {m}) <= r[m]
  <2>1. Cardinality(Places(b, {m})) \in Nat /\ r[m] \in Nat
    BY <1>3
  <2>2. Cardinality(Places(b, {m})) + Hand(c, {m}) <= r[m] /\ Hand(c, {m}) \in {0, 1}
        /\ Hand(None, {m}) = 0
    BY <1>1, <1>2
  <2> QED  BY <2>1, <2>2
<1> QED  BY <1>8, <1>9, <1>10

\* Awareness returns: the deliveries of its message, and the places where it
\* waits, no longer count.
LEMMA StuckAware ==
    ASSUME NEW r \in [Msgs -> Nat], NEW b \in Seq(Msgs), NEW c \in Msgs, NEW k \in Nat, NEW a,
           Stuck(r, b, c, k, a)
    PROVE  Stuck(r, b, c, k, a \cup {c})
<1>1. CASE c \in a
  <2>1. a \cup {c} = a
    BY <1>1
  <2> QED  BY <2>1
<1>2. CASE c \notin a
  <2> DEFINE S == Msgs \ a
             T == Msgs \ (a \cup {c})
  <2>1. c \in S /\ T = S \ {c}
    BY <1>2
  <2>2. Hand(c, S) = 1 /\ Hand(c, T) = 0 /\ Hand(c, {c}) = 1
    BY <2>1 DEF Hand
  <2> SUFFICES ASSUME SumIn(r, Msgs) < CounterMod
               PROVE  SumIn(r, T) <= k + Cardinality(Places(b, T)) + Hand(c, T)
    BY DEF Stuck
  <2>3. SumIn(r, S) <= k + Cardinality(Places(b, S)) + Hand(c, S)
    BY DEF Stuck
  <2>4. Cardinality(Places(b, {c})) + Hand(c, {c}) <= r[c]
    BY DEF Stuck
  <2> HIDE DEF S, T
  <2>5. SumIn(r, S) = SumIn(r, T) + r[c]
    BY <2>1, SumInWithout
  <2>6. Cardinality(Places(b, S)) = Cardinality(Places(b, T)) + Cardinality(Places(b, {c}))
    BY <2>1, PlacesWithout
  <2>7. /\ SumIn(r, T) \in Nat /\ Cardinality(Places(b, T)) \in Nat
        /\ Cardinality(Places(b, {c})) \in Nat /\ r[c] \in Nat
    BY SumInNat, PlacesFinite
  <2> QED  BY <2>2, <2>3, <2>4, <2>5, <2>6, <2>7
<1> QED  BY <1>1, <1>2

\* The callback is done with a message awareness returned for.
LEMMA StuckDone ==
    ASSUME NEW r \in [Msgs -> Nat], NEW b \in Seq(Msgs), NEW c \in Msgs, NEW k \in Nat, NEW a,
           c \in a, Stuck(r, b, c, k, a)
    PROVE  Stuck(r, b, None, k, a)
<1>1. /\ Hand(None, Msgs \ a) = Hand(c, Msgs \ a)
      /\ \A S : S \subseteq Msgs => Hand(None, S) = 0 /\ Hand(c, S) \in {0, 1}
  BY NoneIsNoMessage DEF Hand
<1>2. \A S : SumIn(r, S) \in Nat /\ Cardinality(Places(b, S)) \in Nat
  BY SumInNat, PlacesFinite
<1>3. ASSUME k + Cardinality(Places(b, Msgs)) + Hand(c, Msgs) <= SumIn(r, Msgs)
      PROVE  k + Cardinality(Places(b, Msgs)) + Hand(None, Msgs) <= SumIn(r, Msgs)
  <2>1. SumIn(r, Msgs) \in Nat /\ Cardinality(Places(b, Msgs)) \in Nat
        /\ Hand(None, Msgs) = 0 /\ Hand(c, Msgs) \in {0, 1}
    BY <1>1, <1>2
  <2> QED  BY <1>3, <2>1
<1>4. ASSUME NEW m \in Msgs, Cardinality(Places(b, {m})) + Hand(c, {m}) <= r[m]
      PROVE  Cardinality(Places(b, {m})) + Hand(None, {m}) <= r[m]
  <2>1. {m} \subseteq Msgs
    OBVIOUS
  <2>2. Cardinality(Places(b, {m})) \in Nat /\ r[m] \in Nat
        /\ Hand(None, {m}) = 0 /\ Hand(c, {m}) \in {0, 1}
    BY <1>1, <1>2, <2>1
  <2> QED  BY <1>4, <2>2
<1> QED  BY <1>1, <1>3, <1>4 DEF Stuck

\* A process that has had no delivery.
LEMMA StuckFresh == ASSUME NEW a, NEW r, r = [m \in Msgs |-> 0] PROVE Stuck(r, << >>, None, 0, a)
<1>1. \A S : S \subseteq Msgs => Hand(None, S) = 0 /\ Cardinality(Places(<< >>, S)) = 0
  BY NoneIsNoMessage, PlacesEmpty DEF Hand
<1>2. \A S : SumIn(r, S) = 0
  BY SumZero DEF SumIn
<1>3. \A m \in Msgs : {m} \subseteq Msgs /\ r[m] = 0
  OBVIOUS
<1>4. Msgs \subseteq Msgs /\ Msgs \ a \subseteq Msgs
  OBVIOUS
<1> QED  BY <1>1, <1>2, <1>3, <1>4 DEF Stuck

LEMMA StuckInvNext ==
    TypeOK' => (StuckInv' <=> /\ InHandAware'
                              /\ Stuck(received', buffer', cur', metrics'["NakTotal"], aware'))
<1>1. (TypeOK => (StuckInv <=> InHandAware /\ Stuck(received, buffer, cur, metrics["NakTotal"], aware)))'
  BY StuckInvIs, PTL
<1> QED  BY <1>1

\* A step that changes nothing StuckInv is about.
LEMMA StuckFrame ==
    ASSUME StuckInv, UNCHANGED <<received, buffer, cur, aware>>,
           metrics'["NakTotal"] = metrics["NakTotal"], InHandAware'
    PROVE  StuckInv'
BY DEF StuckInv, StuckSignal, NaksReceived, WaitingReceived, NotWrapped, Received, Waiting

\* Only the stream's failures count in NakTotal.
LEMMA NotNaks ==
    ASSUME TypeOK, NEW S, Count(S), "NakTotal" \notin S
    PROVE  metrics'["NakTotal"] = metrics["NakTotal"]
BY DEF Count, Counters

LEMMA VerdictsNotNaks ==
    ASSUME NEW v \in Verdicts, NEW p \in BOOLEAN PROVE "NakTotal" \notin VerdictCount(v, p)
BY VerdictsKnown DEF VerdictCount

LEMMA ConsumerStuck ==
    ASSUME TypeOK, TypeOK', StuckInv, NEW m \in Msgs, Consumer(m) PROVE StuckInv'
<1> USE DEF consumer, wire, callback, history
<1>1. CASE Deliver(m)
  <2>1. /\ UNCHANGED <<cur, step, metrics, aware>> /\ buffer' = Append(buffer, m)
        /\ received' = [received EXCEPT ![m] = IF received[m] < CounterMod THEN received[m] + 1
                                               ELSE received[m]]
    BY <1>1 DEF Deliver
  <2>2. received \in [Msgs -> 0..CounterMod] /\ received' \in [Msgs -> 0..CounterMod]
    BY DEF TypeOK
  <2>3. received'[m] = (IF received[m] < CounterMod THEN received[m] + 1 ELSE received[m])
    BY <2>1, <2>2
  <2>4. \A x \in Msgs : x # m => received'[x] = received[x]
    BY <2>1, <2>2
  <2>5. InHandAware /\ Stuck(received, buffer, cur, metrics["NakTotal"], aware)
    BY StuckInvIs
  <2>6. buffer \in Seq(Msgs) /\ metrics["NakTotal"] \in Nat
    BY StuckTypes
  <2>7. Stuck(received', Append(buffer, m), cur, metrics["NakTotal"], aware)
    BY <2>2, <2>3, <2>4, <2>5, <2>6, StuckDeliver
  <2>8. InHandAware'
    BY <2>1, <2>5 DEF InHandAware
  <2> QED  BY <2>1, <2>7, <2>8, StuckInvNext
<1>2. CASE ~Deliver(m)
  <2>1. UNCHANGED <<received, buffer, cur, step, aware, metrics>>
    BY <1>2 DEF Consumer, GiveUp, AckWaitExpires, AckArrives, NakArrives, WireLoses
  <2>2. InHandAware'
    BY <2>1 DEF StuckInv, InHandAware
  <2> QED  BY <2>1, <2>2, StuckFrame
<1> QED  BY <1>1, <1>2

LEMMA DispatchStreamStuck ==
    ASSUME TypeOK, TypeOK', StuckInv, DispatchStream PROVE StuckInv'
<1> USE DEF consumer, wire, callback, history
<1>0. /\ InHandAware /\ Stuck(received, buffer, cur, metrics["NakTotal"], aware)
      /\ received \in [Msgs -> Nat] /\ buffer \in Seq(Msgs)
      /\ metrics["NakTotal"] \in 0..(CounterMod - 1) /\ metrics["NakTotal"] \in Nat
      /\ (step # "idle" => cur \in Msgs) /\ (step = "idle" => cur = None)
  BY StuckInvIs, StuckTypes DEF TypeOK
<1>1. CASE Take
  <2>1. /\ cur = None /\ buffer # << >> /\ UNCHANGED <<received, metrics, aware>>
        /\ buffer' = Tail(buffer) /\ cur' = Head(buffer) /\ step' = "pipeline"
    BY <1>0, <1>1 DEF Take
  <2>2. Stuck(received, Tail(buffer), Head(buffer), metrics["NakTotal"], aware)
    BY <1>0, <2>1, StuckTake
  <2> QED  BY <2>1, <2>2, StuckInvNext DEF InHandAware
<1>2. ASSUME NEW failure \in Failures, Fails(failure) PROVE StuckInv'
  <2>1. /\ cur \in Msgs /\ cur' = None /\ step' = "idle" /\ UNCHANGED <<received, buffer, aware>>
        /\ Count({failure, "NakTotal"})
    BY <1>0, <1>2 DEF Fails, Done
  <2>2. metrics'["NakTotal"] = Inc(metrics["NakTotal"])
    BY <2>1 DEF Count, Counters
  <2>3. Stuck(received, buffer, None, Inc(metrics["NakTotal"]), aware)
    BY <1>0, <2>1, StuckNak
  <2> QED  BY <2>1, <2>2, <2>3, StuckInvNext DEF InHandAware
<1>3. ASSUME NEW v \in Verdicts, Awareness(v) PROVE StuckInv'
  <2>1. cur \in Msgs /\ aware' = aware \cup {cur} /\ UNCHANGED <<received, buffer, cur, metrics>>
    BY <1>0, <1>3 DEF Awareness
  <2>2. Stuck(received, buffer, cur, metrics["NakTotal"], aware \cup {cur})
    BY <1>0, <2>1, StuckAware
  <2> QED  BY <2>1, <2>2, StuckInvNext DEF InHandAware
<1>4. CASE Ack
  <2>1. UNCHANGED <<received, buffer, cur, aware, metrics>> /\ InHandAware'
    BY <1>0, <1>4 DEF Ack, InHandAware
  <2> QED  BY <2>1, StuckFrame
<1>5. ASSUME NEW p \in BOOLEAN, Branch(p) PROVE StuckInv'
  <2>1. /\ cur \in Msgs /\ cur \in aware /\ cur' = None /\ step' = "idle" /\ verdict \in Verdicts
        /\ UNCHANGED <<received, buffer, aware>> /\ Count(VerdictCount(verdict, p))
    BY <1>0, <1>5 DEF Branch, Done, InHandAware, TypeOK
  <2>2. metrics'["NakTotal"] = metrics["NakTotal"]
    BY <2>1, VerdictsNotNaks, NotNaks
  <2>3. Stuck(received, buffer, None, metrics["NakTotal"], aware)
    BY <1>0, <2>1, StuckDone
  <2> QED  BY <2>1, <2>2, <2>3, StuckInvNext DEF InHandAware
<1> QED  BY <1>1, <1>2, <1>3, <1>4, <1>5 DEF DispatchStream

LEMMA DispatchStuck == ASSUME TypeOK, StuckInv, Dispatch PROVE StuckInv'
<1> USE DEF consumer, wire, callback
<1>1. ASSUME UNCHANGED <<received, buffer, cur, step, aware>>,
             metrics'["NakTotal"] = metrics["NakTotal"]
      PROVE  StuckInv'
  <2>1. InHandAware'
    BY <1>1 DEF StuckInv, InHandAware
  <2> QED  BY <1>1, <2>1, StuckFrame
<1>2. ASSUME NEW failure \in Failures, SubjectFails(failure) PROVE StuckInv'
  <2>1. Count({failure}) /\ "NakTotal" \notin {failure} /\ UNCHANGED <<received, buffer, cur, step, aware>>
    BY <1>2 DEF SubjectFails, Failures
  <2> QED  BY <1>1, <2>1, NotNaks
<1>3. ASSUME NEW v \in Verdicts, NEW p \in BOOLEAN, SubjectVerdict(v, p) PROVE StuckInv'
  <2>1. Count(VerdictCount(v, p)) /\ UNCHANGED <<received, buffer, cur, step, aware>>
    BY <1>3 DEF SubjectVerdict
  <2> QED  BY <1>1, <2>1, NotNaks, VerdictsNotNaks
<1> QED  BY <1>2, <1>3 DEF Dispatch

\* A stuck message shows in NakTotal, for every stream, every limit on deliveries
\* and any counter: as long as the process has had too few deliveries for the
\* counter to wrap, what awareness never completed is in it or still waits.
THEOREM StuckShows == Spec => []StuckSignal
<1>1. Init => StuckInv
  <2> SUFFICES ASSUME Init PROVE StuckInv
    OBVIOUS
  <2>1. Stuck(received, << >>, None, 0, aware) /\ buffer = << >> /\ cur = None
    BY StuckFresh DEF Init
  <2>2. metrics["NakTotal"] = 0 /\ InHandAware
    BY DEF Init, Counters, InHandAware
  <2> QED  BY <2>1, <2>2, InitType, StuckInvIs
<1>2. TypeOK /\ TypeOK' /\ StuckInv /\ [Next]_vars => StuckInv'
  <2> SUFFICES ASSUME TypeOK, TypeOK', StuckInv, [Next]_vars PROVE StuckInv'
    OBVIOUS
  <2>1. CASE Crash
    <3>1. /\ received' = [m \in Msgs |-> 0] /\ buffer' = << >> /\ cur' = None /\ step' = "idle"
          /\ metrics' = [c \in Counters |-> 0]
      BY <2>1 DEF Crash, Done
    <3>2. metrics'["NakTotal"] = 0 /\ InHandAware'
      BY <3>1 DEF Counters, InHandAware
    <3>3. Stuck(received', << >>, None, 0, aware')
      BY <3>1, StuckFresh
    <3> QED  BY <3>1, <3>2, <3>3, StuckInvNext
  <2>2. CASE UNCHANGED vars
    <3>1. UNCHANGED <<received, buffer, cur, step, aware, metrics>>
      BY <2>2 DEF vars, callback, history
    <3>2. InHandAware'
      BY <3>1 DEF StuckInv, InHandAware
    <3> QED  BY <3>1, <3>2, StuckFrame
  <2> QED
    BY <2>1, <2>2, ConsumerStuck, DispatchStreamStuck, DispatchStuck DEF Next
<1>3. StuckInv => StuckSignal
  BY DEF StuckInv
<1> QED  BY <1>1, <1>2, <1>3, DeliveryTypeCorrect, PTL DEF Spec

-----------------------------------------------------------------------------
(* The bridge leaves the pipeline as it is *)

\* The verdict in hand is a Note, and the hook runs only in its branch.
PipeInv == TypeOK /\ (step \in {"ack", "verdict"} => verdict = "note") /\ (hook => step = "verdict")

LEMMA PipeDispatching == ASSUME PipeInv, Dispatching PROVE PipeInv'
<1> USE DEF PipeInv
<1>1. ASSUME Take \/ (\E failure \in Failures : Fails(failure)) \/ Ack, UNCHANGED bridge PROVE PipeInv'
  <2>1. TypeOK'
    BY <1>1, DispatchStreamType DEF DispatchStream
  <2>2. /\ UNCHANGED hook /\ ~hook
        /\ step' \in {"ack", "verdict"} => step \in {"ack", "verdict"} /\ UNCHANGED verdict
    BY <1>1 DEF bridge, Take, Fails, Ack, Done
  <2> QED  BY <2>1, <2>2
<1>2. ASSUME NEW p \in Payloads, NoteVerdict(p) PROVE PipeInv'
  <2>1. Awareness("note") /\ UNCHANGED hook
    BY <1>2 DEF NoteVerdict
  <2>2. TypeOK'
    BY <2>1, NoteIsVerdict, DispatchStreamType DEF DispatchStream
  <2> QED  BY <2>1, <2>2 DEF Awareness
<1>3. CASE CallOnNote
  <2>1. metrics' \in [Counters -> 0..(CounterMod - 1)]
    BY <1>3, CountType DEF CallOnNote, TypeOK
  <2>2. UNCHANGED <<consumer, wire, callback, history, faults>> /\ step = "verdict"
    BY <1>3 DEF CallOnNote
  <2>3. TypeOK'
    BY <2>1, <2>2 DEF TypeOK, consumer, wire, callback, history
  <2> QED  BY <2>2, <2>3 DEF callback
<1>4. ASSUME NEW panicked \in BOOLEAN, HookReturns(panicked) PROVE PipeInv'
  <2>1. /\ cur' = None /\ step' = "idle" /\ verdict' = None /\ hook' = FALSE
        /\ UNCHANGED <<consumer, wire, buffer, aware, received, delivered, onSubject, faults>>
    BY <1>4 DEF HookReturns, Done
  <2>2. metrics \in [Counters -> 0..(CounterMod - 1)] /\ notePanics \in 0..(CounterMod - 1)
    BY DEF TypeOK
  <2>3. metrics' \in [Counters -> 0..(CounterMod - 1)]
    BY <1>4, <2>2, CountType DEF HookReturns
  <2>4. notePanics' \in 0..(CounterMod - 1)
    BY <1>4, <2>2, IncType DEF HookReturns
  <2>5. TypeOK'
    BY <2>1, <2>3, <2>4, NoneIsNoMessage DEF TypeOK, consumer, wire
  <2> QED  BY <2>1, <2>5
<1> QED  BY <1>1, <1>2, <1>3, <1>4 DEF Dispatching, PassOn, Malformed, AddComment

THEOREM PipeInvariant == NoteSpec => []PipeInv
<1>1. NoteInit => PipeInv
  BY InitType DEF NoteInit, PipeInv, Init
<1>2. PipeInv /\ [NoteNext]_noteVars => PipeInv'
  <2> SUFFICES ASSUME PipeInv, [NoteNext]_noteVars PROVE PipeInv'
    OBVIOUS
  <2>1. ASSUME NEW m \in Msgs, Consumer(m), UNCHANGED bridge PROVE PipeInv'
    <3>1. TypeOK'
      BY <2>1, ConsumerType DEF PipeInv
    <3>2. UNCHANGED <<hook, step, verdict>>
      BY <2>1 DEF bridge, callback, Consumer, Deliver, GiveUp, AckWaitExpires, AckArrives, NakArrives, WireLoses
    <3> QED  BY <3>1, <3>2 DEF PipeInv
  <2>2. ASSUME UNCHANGED <<vars, hook>> PROVE PipeInv'
    BY <2>2 DEF PipeInv, TypeOK, vars, consumer, wire, callback, history
  <2>3. ASSUME NEW m \in Msgs, LateComment(m) PROVE PipeInv'
    BY <2>2, <2>3 DEF LateComment
  <2>4. CASE NoteCrash
    <3>1. Crash /\ hook' = FALSE
      BY <2>4 DEF NoteCrash
    <3>2. TypeOK'
      BY <3>1, FaultType, SizesNatural, LimitsPositive DEF PipeInv, TypeOK, Crash, Done, consumer, wire
    <3> QED  BY <3>1, <3>2 DEF PipeInv, Crash, Done
  <2>5. CASE UNCHANGED noteVars
    BY <2>2, <2>5 DEF noteVars, bridge
  <2> QED  BY <2>1, <2>3, <2>4, <2>5, PipeDispatching DEF NoteNext
<1> QED  BY <1>1, <1>2, PTL DEF NoteSpec

\* The metrics without the Note whose hook is running.
Settled == IF hook THEN [metrics EXCEPT !["NotesDelivered"] = Uncounted(@)] ELSE metrics

\* Counting and uncounting cancel.
LEMMA UncountedIs ==
    ASSUME NEW n \in 0..(CounterMod - 1) PROVE Uncounted(Inc(n)) = n /\ Inc(Uncounted(n)) = n
<1>1. \A k \in 0..(CounterMod - 1) : Inc(k) = IF k + 1 = CounterMod THEN 0 ELSE k + 1
  <2> TAKE k \in 0..(CounterMod - 1)
  <2>1. CASE k + 1 < CounterMod
    BY <2>1, IncBelow, LimitsPositive
  <2>2. CASE k + 1 = CounterMod
    BY <2>2, LimitsPositive DEF Inc
  <2> QED  BY <2>1, <2>2, LimitsPositive
<1>2. Uncounted(n) \in 0..(CounterMod - 1)
  BY LimitsPositive DEF Uncounted
<1>3. Uncounted(Inc(n)) = n
  BY <1>1, LimitsPositive DEF Uncounted
<1>4. Inc(Uncounted(n)) = n
  BY <1>1, <1>2, LimitsPositive DEF Uncounted
<1> QED  BY <1>3, <1>4

\* A step that leaves the metrics and the hook alone, outside a hook, is the
\* same step of the pipeline.
LEMMA PipelineConsumer ==
    ASSUME NEW m \in Msgs, Consumer(m), UNCHANGED bridge PROVE Pipeline!Consumer(m)
<1>0. UNCHANGED hook
  BY DEF bridge
<1>1. CASE Deliver(m)
  <2>1. UNCHANGED Settled
    BY <1>0, <1>1 DEF Deliver, Settled
  <2> QED  BY <1>1, <2>1 DEF Deliver, Pipeline!Deliver, Settled, Pending, Pipeline!Pending, Msgs, Pipeline!Msgs, Inc, Pipeline!Inc,
            wire, Pipeline!wire, Cardinality, Pipeline!Cardinality, Pipeline!Consumer
<1>2. CASE ~Deliver(m)
  <2>1. UNCHANGED Settled
    BY <1>0, <1>2 DEF Consumer, GiveUp, AckWaitExpires, AckArrives, NakArrives, WireLoses, Settled
  <2> QED  BY <1>2, <2>1 DEF Consumer, GiveUp, AckWaitExpires, AckArrives, NakArrives, WireLoses, Fault, Pending, Msgs,
      consumer, wire, callback, history, Settled, Pipeline!Consumer, Pipeline!GiveUp, Pipeline!AckWaitExpires, Pipeline!AckArrives,
      Pipeline!NakArrives, Pipeline!WireLoses, Pipeline!Fault, Pipeline!Pending, Pipeline!Msgs, Pipeline!consumer, Pipeline!wire,
      Pipeline!callback, Pipeline!history
<1> QED  BY <1>1, <1>2

\* The hook returns: the Note is counted, and a panic with it.
LEMMA HookSettles ==
    ASSUME PipeInv, hook, hook' = FALSE, NEW p \in BOOLEAN,
           metrics' = [c \in Counters |-> IF p /\ c = "AwarenessPanics" THEN Inc(metrics[c]) ELSE metrics[c]]
    PROVE  Settled' = [c \in Counters |-> IF c \in VerdictCount("note", p) THEN Inc(Settled[c]) ELSE Settled[c]]
<1>1. metrics \in [Counters -> 0..(CounterMod - 1)] /\ "NotesDelivered" \in Counters
  BY DEF PipeInv, TypeOK, Counters, VerdictCounters
<1>2. Settled' = metrics' /\ Settled = [metrics EXCEPT !["NotesDelivered"] = Uncounted(metrics["NotesDelivered"])]
  BY DEF Settled
<1>3. \A c : c \in VerdictCount("note", p) <=> c = "NotesDelivered" \/ (p /\ c = "AwarenessPanics")
  <2>1. VerdictCount("note", p) = {"NotesDelivered"} \cup IF p THEN {"AwarenessPanics"} ELSE {}
    BY DEF VerdictCount
  <2> QED  BY <2>1
<1>4. ASSUME NEW c \in Counters
      PROVE  metrics'[c] = IF c \in VerdictCount("note", p) THEN Inc(Settled[c]) ELSE Settled[c]
  <2>1. CASE c = "NotesDelivered"
    <3>1. metrics'[c] = metrics[c] /\ Settled[c] = Uncounted(metrics[c])
      BY <1>1, <1>2, <2>1
    <3> QED  BY <1>1, <1>3, <2>1, <3>1, UncountedIs
  <2>2. CASE c # "NotesDelivered"
    <3>1. Settled[c] = metrics[c]
      BY <1>1, <1>2, <2>2
    <3> QED  BY <1>3, <2>2, <3>1
  <2> QED  BY <2>1, <2>2
<1> QED  BY <1>2, <1>4

LEMMA PipelineDispatching ==
    ASSUME PipeInv, Dispatching PROVE Pipeline!DispatchStream \/ UNCHANGED Pipeline!vars
<1> USE DEF consumer, wire, callback, history
<1>1. ASSUME Take \/ (\E failure \in Failures : Fails(failure)) \/ Ack, UNCHANGED bridge
      PROVE  Pipeline!DispatchStream
  <2>1. Settled = metrics /\ Settled' = metrics'
    BY <1>1 DEF PipeInv, Settled, bridge, Take, Fails, Ack
  <2>2. CASE Take
    BY <2>1, <2>2 DEF Take, Pipeline!Take, Pipeline!DispatchStream, Pipeline!consumer, Pipeline!wire,
                      Pipeline!history, Settled
  <2>3. ASSUME NEW failure \in Failures, Fails(failure) PROVE Pipeline!Fails(failure)
    BY <2>1, <2>3 DEF Fails, Pipeline!Fails, Fault, Pipeline!Fault, Count, Pipeline!Count, Inc, Pipeline!Inc,
                      Done, Pipeline!Done, Pipeline!consumer, Pipeline!history, Settled,
                      Counters, Pipeline!Counters, Failures, Pipeline!Failures,
                      VerdictCounters, Pipeline!VerdictCounters
  <2>4. CASE Ack
    BY <2>1, <2>4 DEF Ack, Pipeline!Ack, Pipeline!DispatchStream, Fault, Pipeline!Fault, Pipeline!consumer,
                      Pipeline!history, Settled
  <2> QED  BY <1>1, <2>2, <2>3, <2>4 DEF Pipeline!DispatchStream, Failures, Pipeline!Failures
<1>2. ASSUME NEW p \in Payloads, NoteVerdict(p) PROVE Pipeline!DispatchStream
  <2>1. Awareness("note") /\ UNCHANGED hook
    BY <1>2 DEF NoteVerdict
  <2>2. UNCHANGED Settled
    BY <2>1 DEF Awareness, Settled
  <2>3. Pipeline!Awareness("note")
    BY <2>1, <2>2 DEF Awareness, Pipeline!Awareness, Pipeline!consumer, Pipeline!wire, Settled
  <2> QED  BY <2>3, NoteIsVerdict DEF Pipeline!DispatchStream
<1>3. CASE CallOnNote
  <2>1. /\ ~hook /\ hook' /\ UNCHANGED <<consumer, wire, callback, history, faults>>
        /\ metrics' = [c \in Counters |-> IF c = "NotesDelivered" THEN Inc(metrics[c]) ELSE metrics[c]]
    BY <1>3 DEF CallOnNote, Count
  <2>2. metrics \in [Counters -> 0..(CounterMod - 1)] /\ "NotesDelivered" \in Counters
    BY DEF PipeInv, TypeOK, Counters, VerdictCounters
  <2>3. Settled = metrics
    BY <2>1 DEF Settled
  <2>4. Settled' = [metrics' EXCEPT !["NotesDelivered"] = Uncounted(metrics'["NotesDelivered"])]
    BY <2>1 DEF Settled
  <2>5. metrics'["NotesDelivered"] = Inc(metrics["NotesDelivered"])
    BY <2>1, <2>2
  <2>6. Uncounted(metrics'["NotesDelivered"]) = metrics["NotesDelivered"]
    BY <2>2, <2>5, UncountedIs
  <2>7. Settled' = metrics
    BY <2>1, <2>2, <2>4, <2>6
  <2> QED  BY <2>1, <2>3, <2>7 DEF Pipeline!vars, Pipeline!consumer, Pipeline!wire, Pipeline!callback,
                                   Pipeline!history, Settled
<1>4. ASSUME NEW p \in BOOLEAN, HookReturns(p) PROVE Pipeline!DispatchStream
  <2>0. /\ metrics' = [c \in Counters |-> IF p /\ c = "AwarenessPanics" THEN Inc(metrics[c]) ELSE metrics[c]]
        /\ notePanics' = IF p THEN Inc(notePanics) ELSE notePanics
        /\ UNCHANGED <<consumer, wire, buffer, aware, received, delivered, onSubject, faults>>
    BY <1>4 DEF HookReturns, Count
  <2>1. step = "verdict" /\ verdict = "note" /\ hook /\ hook' = FALSE /\ Done
    BY <1>4 DEF PipeInv, HookReturns
  <2>2. Settled' = [c \in Counters |-> IF c \in VerdictCount("note", p) THEN Inc(Settled[c]) ELSE Settled[c]]
    BY <2>0, <2>1, HookSettles
  <2>3. Pipeline!Counters = Counters /\ Pipeline!VerdictCount(verdict, p) = VerdictCount("note", p)
    BY <2>1 DEF Counters, Pipeline!Counters, Failures, Pipeline!Failures, VerdictCounters,
                Pipeline!VerdictCounters, VerdictCount, Pipeline!VerdictCount
  <2>4. Pipeline!Count(Pipeline!VerdictCount(verdict, p))
    BY <2>2, <2>3 DEF Pipeline!Count, Settled, Inc, Pipeline!Inc
  <2>5. Pipeline!Branch(p)
    BY <1>4, <2>0, <2>1, <2>4 DEF Pipeline!Branch, Done, Pipeline!Done, Pipeline!consumer, Pipeline!wire,
                            Inc, Pipeline!Inc
  <2> QED  BY <2>5 DEF Pipeline!DispatchStream
<1> QED  BY <1>1, <1>2, <1>3, <1>4 DEF Dispatching, PassOn, Malformed, AddComment

\* The bridge adds nothing to the pipeline and takes nothing from it: every
\* behaviour of an imp with the note bridge is, for its consumer, its acks and
\* its metrics, one of StreamDelivery.
THEOREM BridgeRefinesPipeline == NoteSpec => ImplementsPipeline
<1>1. NoteInit => Pipeline!Init
  BY DEF NoteInit, Init, Pipeline!Init, Msgs, Pipeline!Msgs, Counters, Pipeline!Counters, Failures,
         Pipeline!Failures, VerdictCounters, Pipeline!VerdictCounters
<1>2. PipeInv /\ [NoteNext]_noteVars => [Pipeline!Next]_(Pipeline!vars)
  <2> SUFFICES ASSUME PipeInv, [NoteNext]_noteVars PROVE Pipeline!Next \/ UNCHANGED Pipeline!vars
    OBVIOUS
  <2>1. ASSUME NEW m \in Msgs, Consumer(m), UNCHANGED bridge PROVE Pipeline!Next
    BY <2>1, PipelineConsumer DEF Pipeline!Next, Msgs, Pipeline!Msgs
  <2>2. ASSUME UNCHANGED <<vars, hook>> PROVE UNCHANGED Pipeline!vars
    BY <2>2 DEF vars, consumer, wire, callback, history, Pipeline!vars, Pipeline!consumer, Pipeline!wire,
                Pipeline!callback, Pipeline!history
  <2>3. ASSUME NEW m \in Msgs, LateComment(m) PROVE UNCHANGED Pipeline!vars
    BY <2>2, <2>3 DEF LateComment
  <2>4. CASE NoteCrash
    <3>1. Crash /\ hook' = FALSE
      BY <2>4 DEF NoteCrash
    <3>2. Settled' = metrics'
      BY <3>1 DEF Settled
    <3>3. Pipeline!Crash
      BY <3>1, <3>2 DEF Crash, Pipeline!Crash, Fault, Pipeline!Fault, Done, Pipeline!Done, Settled, consumer, wire,
                  Pipeline!consumer, Pipeline!wire, Msgs, Pipeline!Msgs, Counters, Pipeline!Counters,
                  Failures, Pipeline!Failures, VerdictCounters, Pipeline!VerdictCounters
    <3> QED  BY <3>3 DEF Pipeline!Next
  <2>5. CASE UNCHANGED noteVars
    BY <2>2, <2>5 DEF noteVars, bridge
  <2>6. CASE Dispatching
    BY <2>6, PipelineDispatching DEF Pipeline!Next
  <2> QED  BY <2>1, <2>3, <2>4, <2>5, <2>6 DEF NoteNext
<1> QED  BY <1>1, <1>2, PipeInvariant, PTL DEF NoteSpec, ImplementsPipeline, Pipeline!Spec
=============================================================================
