--------------------------- MODULE ScheduleProofs ---------------------------
(***************************************************************************)
(* Proofs about Schedule for every set of callers, requests and removals:  *)
(* what the results of Register and Deregister say of the stored schedule, *)
(* and that ticks expire and roll up as their options ask, for every list  *)
(* of options.                                                             *)
(***************************************************************************)
EXTENDS Schedule, WellFoundedInduction, TLAPS

-----------------------------------------------------------------------------
(* What makes the properties inductive *)

\* For SlotAsReturned: what is under way, and what a one-shot
\* leaves, is accounted for wherever the results of calls will be read from.
Closed(S) == \A v \in S : Outcomes(v) \subseteq S
AllClosed ==
    /\ \A s \in Subjects : Closed(known[s]) /\ Closed(loose[s])
    /\ \A c \in Callers : Closed(overlap[c])
LooseKnown == \A s \in Subjects : loose[s] \subseteq known[s]
LateLoose == \A o \in late : May(o) \subseteq loose[o.subject]
CallsKnown == \A c \in Callers : ~Idle(c) => May(call[c]) \subseteq known[call[c].subject]
CallsOverlap ==
    \A c, d \in Callers :
        c # d /\ ~Idle(c) /\ ~Idle(d) /\ call[c].subject = call[d].subject
          => May(call[c]) \subseteq overlap[d]
ServedExplained ==
    \A c \in Callers :
        ~Idle(c) /\ call[c].stage = "reply" /\ call[c].err = "nil" /\ call[c].stream = Stream
          => schedules[call[c].subject] \in May(call[c]) \cup overlap[c] \cup loose[call[c].subject]
IInv ==
    /\ TypeOK /\ SlotAsReturned /\ AllClosed /\ LooseKnown /\ LateLoose
    /\ CallsKnown /\ CallsOverlap /\ ServedExplained

\* For TicksAsAsked and TicksKept: every tick comes of a request that was not
\* refused, is not of the future and has not outlived the TTL it carries.
TicksFrom ==
    \A t \in ticks :
        /\ \E a \in Requests : ~Refused(a) /\ t.asked = a.opts /\ t.ttl = Message(a).ttl
        /\ t.at \in 0..now /\ (t.ttl > 0 => now - t.at < t.ttl)

-----------------------------------------------------------------------------
\* What a value may become: itself, or nothing; and that again is no more.
LEMMA OutcomesFacts ==
    ASSUME NEW v
    PROVE  /\ v \in Outcomes(v)
           /\ Closed(Outcomes(v))
           /\ v \in Values => Outcomes(v) \subseteq Values
BY DEF Outcomes, Closed, Values

\* The same of what an operation may store.
LEMMA MayFacts ==
    ASSUME NEW o
    PROVE  /\ Closed(May(o))
           /\ o.value \in Values => May(o) \subseteq Values
           /\ o.stream = Stream => o.value \in May(o)
BY OutcomesFacts DEF May, Closed

\* Closed sets stay closed when they are joined.
LEMMA ClosedUnion ==
    ASSUME NEW S, NEW T, Closed(S), Closed(T)
    PROVE  Closed(S \cup T)
BY DEF Closed

-----------------------------------------------------------------------------
LEMMA InitIInv == Init => IInv
<1> SUFFICES ASSUME Init PROVE IInv
  OBVIOUS
<1> USE DEF Init
<1>1. TypeOK
  BY ScheduleBounds DEF TypeOK, Values
<1>2. AllClosed
  BY DEF AllClosed, Closed, Outcomes
<1>3. SlotAsReturned /\ LooseKnown /\ LateLoose
  BY DEF SlotAsReturned, LooseKnown, LateLoose
<1>4. CallsKnown /\ CallsOverlap /\ ServedExplained
  BY DEF CallsKnown, CallsOverlap, ServedExplained, Idle
<1> QED  BY <1>1, <1>2, <1>3, <1>4 DEF IInv

-----------------------------------------------------------------------------
\* A call begins: it is known before it is sent, and its neighbours count it.
LEMMA BeginIInv ==
    ASSUME IInv, NEW c \in Callers, Idle(c),
           NEW str \in {Stream} \cup {a.stream : a \in Removals}, NEW s \in Subjects,
           NEW v \in Values, NEW stage \in {"lookup", "send"},
           Begin(c, [stream |-> str, subject |-> s, value |-> v], stage),
           UNCHANGED <<server, late, faults>>, calls' \in 0..MaxCalls
    PROVE  IInv'
<1> DEFINE o == [stream |-> str, subject |-> s, value |-> v]
           new == [stream |-> str, subject |-> s, value |-> v, stage |-> stage, err |-> "nil"]
           m == May(o)
<1>1. new \in Operations /\ May(new) = m
  BY DEF Operations, May
<1>2. m \subseteq Values /\ Closed(m)
  BY MayFacts
<1> HIDE DEF o
<1>3. /\ call' = [call EXCEPT ![c] = new]
      /\ known' = [known EXCEPT ![s] = @ \cup m]
      /\ overlap' = [d \in Callers |->
                       IF d = c THEN UNION {May(call[e]) : e \in Concurrent(s)}
                       ELSE IF d \in Concurrent(s) THEN overlap[d] \cup m
                       ELSE overlap[d]]
      /\ loose' = loose
      /\ schedules' = schedules /\ late' = late /\ now' = now /\ faults' = faults
  BY DEF Begin, server, o
<1> HIDE DEF m, new
<1>4. \A e \in Concurrent(s) : May(call[e]) \subseteq Values /\ Closed(May(call[e]))
  <2> SUFFICES ASSUME NEW e \in Concurrent(s)
               PROVE  May(call[e]) \subseteq Values /\ Closed(May(call[e]))
    OBVIOUS
  <2>1. call[e] \in Operations
    BY DEF IInv, TypeOK, Concurrent, Idle
  <2>2. call[e].value \in Values
    BY <2>1 DEF Operations
  <2> QED  BY <2>2, MayFacts
<1>5. overlap' \in [Callers -> SUBSET Values] /\ \A d \in Callers : Closed(overlap'[d])
  <2>1. UNION {May(call[e]) : e \in Concurrent(s)} \subseteq Values
    BY <1>4
  <2>2. Closed(UNION {May(call[e]) : e \in Concurrent(s)})
    BY <1>4 DEF Closed
  <2>3. \A d \in Callers : overlap[d] \subseteq Values /\ Closed(overlap[d])
    BY DEF IInv, TypeOK, AllClosed
  <2>4. \A d \in Callers : Closed(overlap[d] \cup m)
    BY <2>3, <1>2, ClosedUnion
  <2> QED  BY <2>1, <2>2, <2>3, <2>4, <1>2, <1>3
<1>6. TypeOK'
  BY <1>1, <1>2, <1>3, <1>5 DEF IInv, TypeOK
<1>7. AllClosed'
  <2>1. \A t \in Subjects : Closed(known'[t])
    BY <1>2, <1>3, ClosedUnion DEF IInv, AllClosed, TypeOK
  <2> QED  BY <2>1, <1>3, <1>5 DEF IInv, AllClosed
<1>8. SlotAsReturned' /\ LooseKnown' /\ LateLoose'
  BY <1>3 DEF IInv, SlotAsReturned, LooseKnown, LateLoose, TypeOK, May
<1>9. CallsKnown'
  <2> SUFFICES ASSUME NEW d \in Callers, ~Idle(d)'
               PROVE  May(call'[d]) \subseteq known'[call'[d].subject]
    BY DEF CallsKnown, May
  <2>1. CASE d = c
    BY <2>1, <1>1, <1>3 DEF IInv, TypeOK, new
  <2>2. CASE d # c
    <3>1. call'[d] = call[d] /\ ~Idle(d)
      BY <2>2, <1>3 DEF IInv, TypeOK, Idle
    <3>2. May(call[d]) \subseteq known[call[d].subject] /\ call[d] \in Operations
      BY <3>1 DEF IInv, CallsKnown, TypeOK, Idle
    <3> QED  BY <3>1, <3>2, <1>3 DEF IInv, TypeOK, Operations
  <2> QED  BY <2>1, <2>2
<1>10. CallsOverlap'
  <2> SUFFICES ASSUME NEW d \in Callers, NEW e \in Callers, d # e, ~Idle(d)', ~Idle(e)',
                      call'[d].subject = call'[e].subject
               PROVE  May(call'[d]) \subseteq overlap'[e]
    BY DEF CallsOverlap, May
  <2>0. \A x \in Callers : x # c => call'[x] = call[x] /\ (~Idle(x)' => ~Idle(x))
    BY <1>3 DEF IInv, TypeOK, Idle
  <2>a. call'[c] = new /\ new.subject = s
    BY <1>3 DEF IInv, TypeOK, new
  <2>1. CASE e = c
    <3>1. d \in Concurrent(s)
      BY <2>1, <2>0, <2>a DEF Concurrent
    <3> QED  BY <2>1, <3>1, <2>0, <1>3
  <2>2. CASE d = c
    <3>1. e \in Concurrent(s) /\ e # c
      BY <2>2, <2>0, <2>a DEF Concurrent
    <3>2. overlap'[e] = overlap[e] \cup m
      BY <3>1, <1>3
    <3> QED  BY <2>2, <3>2, <2>a, <1>1
  <2>3. CASE d # c /\ e # c
    <3>1. May(call[d]) \subseteq overlap[e]
      BY <2>3, <2>0 DEF IInv, CallsOverlap
    <3>2. overlap[e] \subseteq overlap'[e]
      BY <2>3, <1>3
    <3> QED  BY <3>1, <3>2, <2>0, <2>3
  <2> QED  BY <2>1, <2>2, <2>3
<1>11. ServedExplained'
  <2> SUFFICES ASSUME NEW d \in Callers, ~Idle(d)', call'[d].stage = "reply",
                      call'[d].err = "nil", call'[d].stream = Stream
               PROVE  schedules'[call'[d].subject]
                        \in May(call'[d]) \cup overlap'[d] \cup loose'[call'[d].subject]
    BY DEF ServedExplained, May
  <2>1. d # c
    BY <1>3 DEF IInv, TypeOK, new
  <2>2. call'[d] = call[d] /\ ~Idle(d) /\ overlap[d] \subseteq overlap'[d]
    BY <2>1, <1>3 DEF IInv, TypeOK, Idle
  <2>3. schedules[call[d].subject] \in May(call[d]) \cup overlap[d] \cup loose[call[d].subject]
    BY <2>2 DEF IInv, ServedExplained
  <2> QED  BY <2>2, <2>3, <1>3
<1> QED  BY <1>6, <1>7, <1>8, <1>9, <1>10, <1>11 DEF IInv

\* Goto changes the stage and the error of one call, and nothing else.
LEMMA GotoFacts ==
    ASSUME IInv, NEW c \in Callers, ~Idle(c), NEW stage \in {"lookup", "send", "reply"},
           NEW err \in {"nil", "refused", "not found"}, Goto(c, stage, err)
    PROVE  /\ call'[c].stream = call[c].stream /\ call'[c].subject = call[c].subject
           /\ call'[c].value = call[c].value /\ call'[c].stage = stage /\ call'[c].err = err
           /\ \A d \in Callers : d # c => call'[d] = call[d]
           /\ call' \in [Callers -> Operations \cup {None}] /\ call'[c] \in Operations
<1> DEFINE new == [stream |-> call[c].stream, subject |-> call[c].subject,
                   value |-> call[c].value, stage |-> stage, err |-> err]
<1>1. call \in [Callers -> Operations \cup {None}] /\ call[c] \in Operations
  BY DEF IInv, TypeOK, Idle
<1>2. new \in Operations
  BY <1>1 DEF Operations
<1>3. new.stream = call[c].stream /\ new.value = call[c].value /\ new.subject = call[c].subject
      /\ new.stage = stage /\ new.err = err
  OBVIOUS
<1>4. call' = [call EXCEPT ![c] = new]
  BY DEF Goto
<1> HIDE DEF new
<1>5. call'[c] = new /\ \A d \in Callers : d # c => call'[d] = call[d]
  BY <1>1, <1>4
<1>6. call' \in [Callers -> Operations \cup {None}]
  BY <1>1, <1>2, <1>4
<1> QED  BY <1>2, <1>3, <1>5, <1>6

\* A step that moves a call on, and leaves what the calls are about alone, keeps
\* what is said of calls; only the store and the replies are left to look at.
LEMMA MoveOn ==
    ASSUME IInv, UNCHANGED <<late, history>>, NEW c \in Callers, ~Idle(c),
           NEW stage \in {"lookup", "send", "reply"},
           NEW err \in {"nil", "refused", "not found"}, Goto(c, stage, err)
    PROVE  AllClosed' /\ LooseKnown' /\ LateLoose' /\ CallsKnown' /\ CallsOverlap'
<1> USE DEF history
<1>1. ASSUME NEW d \in Callers, call'[d] # None
      PROVE  /\ call[d] # None /\ May(call'[d]) = May(call[d])
             /\ call'[d].subject = call[d].subject
  <2>1. CASE d # c
    BY <1>1, <2>1, GotoFacts
  <2>2. CASE d = c
    <3>1. call'[c] # None /\ call[c] # None
      BY GotoFacts, NoneIsNoOperation DEF Idle
    <3>2. call'[c].stream = call[c].stream /\ call'[c].subject = call[c].subject
          /\ call'[c].value = call[c].value
      BY GotoFacts
    <3> QED  BY <2>2, <3>1, <3>2 DEF May
  <2> QED  BY <2>1, <2>2
<1>2. AllClosed' /\ LooseKnown' /\ LateLoose'
  BY DEF IInv, AllClosed, LooseKnown, LateLoose, May
<1>3. CallsKnown'
  <2> SUFFICES ASSUME NEW d \in Callers, call'[d] # None
               PROVE  May(call'[d]) \subseteq known'[call'[d].subject]
    BY DEF CallsKnown, Idle, May
  <2>1. May(call[d]) \subseteq known[call[d].subject]
    BY <1>1 DEF IInv, CallsKnown, Idle
  <2> QED  BY <1>1, <2>1
<1>4. CallsOverlap'
  <2> SUFFICES ASSUME NEW d \in Callers, NEW e \in Callers, d # e, call'[d] # None,
                      call'[e] # None, call'[d].subject = call'[e].subject
               PROVE  May(call'[d]) \subseteq overlap'[e]
    BY DEF CallsOverlap, Idle, May
  <2>1. May(call[d]) \subseteq overlap[e]
    BY <1>1 DEF IInv, CallsOverlap, Idle
  <2> QED  BY <1>1, <2>1
<1> QED  BY <1>2, <1>3, <1>4

LEMMA LookupStreamIInv ==
    ASSUME IInv, NEW c \in Callers, LookupStream(c)
    PROVE  IInv'
<1>1. ~Idle(c) /\ call[c] \in Operations
  BY DEF LookupStream, IInv, TypeOK, Idle
<1>2. PICK stage \in {"send", "reply"}, err \in {"nil", "not found"} :
         Goto(c, stage, err) /\ (stage = "reply" => err = "not found")
  BY DEF LookupStream
<1>3. call'[c].stage = stage /\ call'[c].err = err /\ \A d \in Callers : d # c => call'[d] = call[d]
  BY <1>1, <1>2, GotoFacts
<1>4. call' \in [Callers -> Operations \cup {None}]
  BY <1>1, <1>2, GotoFacts
<1>5. TypeOK'
  BY <1>4 DEF LookupStream, IInv, TypeOK, server, history
<1>6. AllClosed' /\ LooseKnown' /\ LateLoose' /\ CallsKnown' /\ CallsOverlap'
  BY <1>1, <1>2, MoveOn DEF LookupStream
<1>7. SlotAsReturned'
  BY DEF LookupStream, IInv, SlotAsReturned, server, history
<1>8. ServedExplained'
  <2> SUFFICES ASSUME NEW d \in Callers, ~Idle(d)', call'[d].stage = "reply",
                      call'[d].err = "nil", call'[d].stream = Stream
               PROVE  schedules'[call'[d].subject]
                        \in May(call'[d]) \cup overlap'[d] \cup loose'[call'[d].subject]
    BY DEF ServedExplained, May
  <2>1. d # c
    BY <1>2, <1>3
  <2> QED  BY <2>1, <1>3 DEF LookupStream, IInv, ServedExplained, Idle, server, history
<1> QED  BY <1>5, <1>6, <1>7, <1>8 DEF IInv

\* The server serves a call: what it stores is known, and counted by everyone
\* whose reply is on its way.
LEMMA ServeIInv ==
    ASSUME IInv, NEW c \in Callers, Serve(c)
    PROVE  IInv'
<1> USE DEF Store
<1>1. call[c] \in Operations /\ call[c].stage = "send" /\ ~Idle(c)
  BY DEF Serve, IInv, TypeOK, Idle
<1>2. PICK err \in {"nil", "refused"} :
         Goto(c, "reply", err) /\ (err = "nil" => Acceptable(call[c]))
  BY DEF Serve
<1>3. /\ call'[c].stream = call[c].stream /\ call'[c].subject = call[c].subject
      /\ call'[c].value = call[c].value /\ call'[c].err = err
      /\ \A d \in Callers : d # c => call'[d] = call[d]
  BY <1>1, <1>2, GotoFacts
<1>4. call' \in [Callers -> Operations \cup {None}]
  BY <1>1, <1>2, GotoFacts
<1>5. TypeOK'
  BY <1>4, <1>1 DEF Serve, IInv, TypeOK, history, Operations
<1>6. AllClosed' /\ LooseKnown' /\ LateLoose' /\ CallsKnown' /\ CallsOverlap'
  BY <1>1, <1>2, MoveOn DEF Serve
<1>7. \/ schedules' = schedules
      \/ /\ call[c].stream = Stream
         /\ schedules' = [schedules EXCEPT ![call[c].subject] = call[c].value]
         /\ call[c].value \in May(call[c])
  BY MayFacts DEF Serve
<1>8. SlotAsReturned'
  BY <1>1, <1>7 DEF Serve, IInv, SlotAsReturned, CallsKnown, TypeOK, history
<1>9. ServedExplained'
  <2> SUFFICES ASSUME NEW d \in Callers, ~Idle(d)', call'[d].stage = "reply",
                      call'[d].err = "nil", call'[d].stream = Stream
               PROVE  schedules'[call'[d].subject]
                        \in May(call'[d]) \cup overlap[d] \cup loose[call'[d].subject]
    BY DEF ServedExplained, May, Serve, history
  <2>1. CASE d = c
    <3>1. Acceptable(call[c])
      BY <2>1, <1>2, <1>3
    <3>2. schedules' = [schedules EXCEPT ![call[c].subject] = call[c].value]
      BY <2>1, <3>1, <1>3 DEF Serve
    <3>3. schedules'[call'[c].subject] = call'[c].value
      BY <3>2, <1>1, <1>3 DEF IInv, TypeOK, Operations
    <3> QED  BY <2>1, <3>3, MayFacts
  <2>2. CASE d # c
    <3>1. call'[d] = call[d] /\ ~Idle(d) /\ call[d] \in Operations
      BY <2>2, <1>3 DEF Idle, IInv, TypeOK
    <3>2. schedules[call[d].subject] \in May(call[d]) \cup overlap[d] \cup loose[call[d].subject]
      BY <3>1 DEF IInv, ServedExplained
    <3>3. CASE schedules'[call[d].subject] = schedules[call[d].subject]
      BY <3>1, <3>2, <3>3
    <3>4. CASE schedules'[call[d].subject] # schedules[call[d].subject]
      <4>1. call[c].subject = call[d].subject /\ call[c].value \in May(call[c])
            /\ schedules'[call[d].subject] = call[c].value
        BY <3>4, <3>1, <1>1, <1>7 DEF IInv, TypeOK, Operations
      <4>2. May(call[c]) \subseteq overlap[d]
        BY <4>1, <3>1, <1>1, <2>2 DEF IInv, CallsOverlap
      <4> QED  BY <4>1, <4>2, <3>1
    <3> QED  BY <3>3, <3>4
  <2> QED  BY <2>1, <2>2
<1> QED  BY <1>5, <1>6, <1>8, <1>9 DEF IInv

\* A call ends: what was said of calls is said of fewer.
LEMMA EndFacts ==
    ASSUME IInv, NEW c \in Callers, End(c)
    PROVE  /\ call' \in [Callers -> Operations \cup {None}]
           /\ overlap' \in [Callers -> SUBSET Values]
           /\ call'[c] = None
           /\ \A d \in Callers : Closed(overlap'[d])
           /\ \A d \in Callers : d # c => call'[d] = call[d] /\ overlap'[d] = overlap[d]
<1>1. \A d \in Callers : d # c => call'[d] = call[d] /\ overlap'[d] = overlap[d]
  BY DEF End, IInv, TypeOK
<1>2. call'[c] = None /\ overlap'[c] = {}
  BY DEF End, IInv, TypeOK
<1>3. Closed({})
  BY DEF Closed
<1>4. \A d \in Callers : Closed(overlap'[d])
  BY <1>1, <1>2, <1>3 DEF IInv, AllClosed
<1>5. call' \in [Callers -> Operations \cup {None}] /\ overlap' \in [Callers -> SUBSET Values]
  BY DEF End, IInv, TypeOK
<1> QED  BY <1>1, <1>2, <1>4, <1>5

LEMMA EndCallsOverlap ==
    ASSUME IInv, NEW c \in Callers, End(c)
    PROVE  CallsOverlap'
<1> SUFFICES ASSUME NEW d \in Callers, NEW e \in Callers, d # e, call'[d] # None,
                    call'[e] # None, call'[d].subject = call'[e].subject
             PROVE  May(call'[d]) \subseteq overlap'[e]
  BY DEF CallsOverlap, Idle, May
<1>1. d # c /\ e # c
  BY EndFacts
<1>2. call'[d] = call[d] /\ call'[e] = call[e] /\ overlap'[e] = overlap[e]
  BY <1>1, EndFacts
<1>3. May(call[d]) \subseteq overlap[e]
  BY <1>2 DEF IInv, CallsOverlap, Idle
<1> QED  BY <1>2, <1>3

\* A call returns.  What is known of its subject shrinks to what it stored, what
\* overlapped it and what failed calls may store; every call still under way is
\* among those that overlapped it.
LEMMA ReturnIInv ==
    ASSUME IInv, NEW c \in Callers, Return(c)
    PROVE  IInv'
<1> DEFINE s == call[c].subject
           left == May(call[c]) \cup overlap[c] \cup loose[s]
<1>1. ~Idle(c) /\ call[c] \in Operations /\ call[c].stage = "reply" /\ End(c)
  BY DEF Return, IInv, TypeOK, Idle
<1>2. s \in Subjects /\ call[c].value \in Values
  BY <1>1 DEF Operations
<1>3. left \subseteq Values /\ Closed(left)
  <2>1. May(call[c]) \subseteq Values /\ Closed(May(call[c]))
    BY <1>2, MayFacts
  <2>2. overlap[c] \subseteq Values /\ Closed(overlap[c]) /\ loose[s] \subseteq Values /\ Closed(loose[s])
    BY <1>2 DEF IInv, TypeOK, AllClosed
  <2>3. Closed(May(call[c]) \cup overlap[c])
    BY <2>1, <2>2, ClosedUnion
  <2> QED  BY <2>1, <2>2, <2>3, ClosedUnion
<1>4. /\ late' = late /\ loose' = loose /\ schedules' = schedules
      /\ now' = now /\ calls' = calls /\ faults' = faults
  BY DEF Return, server
<1>5. \/ known' = known
      \/ /\ call[c].err = "nil" /\ call[c].stream = Stream
         /\ known' = [known EXCEPT ![s] = left]
  BY DEF Return
<1> HIDE DEF left
<1>6. TypeOK'
  BY <1>1, <1>2, <1>3, <1>4, <1>5, EndFacts DEF IInv, TypeOK
<1>7. AllClosed'
  <2>1. \A t \in Subjects : Closed(known'[t])
    BY <1>2, <1>3, <1>5 DEF IInv, TypeOK, AllClosed
  <2>2. \A d \in Callers : Closed(overlap'[d])
    BY <1>1, EndFacts
  <2> QED  BY <2>1, <2>2, <1>4 DEF IInv, AllClosed
<1>8. SlotAsReturned'
  <2>1. CASE known' = known
    BY <2>1, <1>4 DEF IInv, SlotAsReturned
  <2>2. CASE call[c].err = "nil" /\ call[c].stream = Stream /\ known' = [known EXCEPT ![s] = left]
    <3>1. schedules[s] \in left
      BY <2>2, <1>1 DEF IInv, ServedExplained, left
    <3> QED  BY <2>2, <3>1, <1>2, <1>4 DEF IInv, SlotAsReturned, TypeOK
  <2> QED  BY <1>5, <2>1, <2>2
<1>9. LooseKnown'
  <2>1. loose[s] \subseteq left
    BY DEF left
  <2> QED  BY <2>1, <1>2, <1>4, <1>5 DEF IInv, LooseKnown, TypeOK
<1>10. LateLoose'
  BY <1>4 DEF IInv, LateLoose, May
<1>11. CallsKnown'
  <2> SUFFICES ASSUME NEW d \in Callers, call'[d] # None
               PROVE  May(call'[d]) \subseteq known'[call'[d].subject]
    BY DEF CallsKnown, Idle, May
  <2>1. d # c /\ call'[d] = call[d] /\ ~Idle(d)
    BY <1>1, EndFacts DEF Idle
  <2>2. May(call[d]) \subseteq known[call[d].subject] /\ call[d].subject \in Subjects
    BY <2>1 DEF IInv, CallsKnown, TypeOK, Idle, Operations
  <2>3. CASE call[d].subject # s \/ known' = known
    BY <2>1, <2>2, <2>3, <1>5 DEF IInv, TypeOK
  <2>4. CASE call[d].subject = s /\ known' = [known EXCEPT ![s] = left]
    <3>1. May(call[d]) \subseteq overlap[c]
      BY <2>1, <2>4, <1>1 DEF IInv, CallsOverlap
    <3>2. known'[s] = left
      BY <2>4, <1>2 DEF IInv, TypeOK
    <3> QED  BY <3>1, <3>2, <2>1, <2>4 DEF left
  <2> QED  BY <2>3, <2>4, <1>5
<1>12. CallsOverlap'
  BY <1>1, EndCallsOverlap
<1>13. ServedExplained'
  <2> SUFFICES ASSUME NEW d \in Callers, call'[d] # None, call'[d].stage = "reply",
                      call'[d].err = "nil", call'[d].stream = Stream
               PROVE  schedules'[call'[d].subject]
                        \in May(call'[d]) \cup overlap'[d] \cup loose'[call'[d].subject]
    BY DEF ServedExplained, Idle, May
  <2>1. d # c /\ call'[d] = call[d] /\ overlap'[d] = overlap[d] /\ ~Idle(d)
    BY <1>1, EndFacts DEF Idle
  <2>2. schedules[call[d].subject] \in May(call[d]) \cup overlap[d] \cup loose[call[d].subject]
    BY <2>1 DEF IInv, ServedExplained
  <2> QED  BY <2>1, <2>2, <1>4
<1> QED  BY <1>6, <1>7, <1>8, <1>9, <1>10, <1>11, <1>12, <1>13 DEF IInv

\* A call is given up on: what it may store yet is loose, and was known.
LEMMA GiveUpIInv ==
    ASSUME IInv, NEW c \in Callers, GiveUp(c)
    PROVE  IInv'
<1> DEFINE s == call[c].subject
           m == May(call[c])
<1>1. ~Idle(c) /\ call[c] \in Operations /\ End(c)
  BY DEF GiveUp, IInv, TypeOK, Idle
<1>2. s \in Subjects /\ m \subseteq Values /\ Closed(m)
  BY <1>1, MayFacts DEF Operations
<1>3. /\ known' = known /\ schedules' = schedules /\ now' = now /\ calls' = calls
      /\ faults' \in 0..MaxFaults
      /\ loose' = [loose EXCEPT ![s] = @ \cup m]
      /\ late' \subseteq late \cup {call[c]}
  BY ScheduleBounds DEF GiveUp, server, IInv, TypeOK
<1> HIDE DEF m
<1>4. TypeOK'
  BY <1>1, <1>2, <1>3, EndFacts DEF IInv, TypeOK
<1>5. AllClosed'
  <2>1. \A t \in Subjects : Closed(loose'[t])
    BY <1>2, <1>3, ClosedUnion DEF IInv, TypeOK, AllClosed
  <2>2. \A d \in Callers : Closed(overlap'[d])
    BY <1>1, EndFacts
  <2> QED  BY <2>1, <2>2, <1>3 DEF IInv, AllClosed
<1>6. SlotAsReturned'
  BY <1>3 DEF IInv, SlotAsReturned
<1>7. LooseKnown'
  <2>1. m \subseteq known[s]
    BY <1>1 DEF IInv, CallsKnown, m
  <2> QED  BY <2>1, <1>2, <1>3 DEF IInv, LooseKnown, TypeOK
<1>8. LateLoose'
  <2> SUFFICES ASSUME NEW o \in late' PROVE May(o) \subseteq loose'[o.subject]
    BY DEF LateLoose, May
  <2>1. CASE o \in late
    <3>1. May(o) \subseteq loose[o.subject] /\ o.subject \in Subjects
      BY <2>1 DEF IInv, LateLoose, TypeOK, Operations
    <3> QED  BY <3>1, <1>3 DEF IInv, TypeOK
  <2>2. CASE o = call[c]
    BY <2>2, <1>2, <1>3 DEF IInv, TypeOK, m
  <2> QED  BY <2>1, <2>2, <1>3
<1>9. CallsKnown'
  <2> SUFFICES ASSUME NEW d \in Callers, call'[d] # None
               PROVE  May(call'[d]) \subseteq known'[call'[d].subject]
    BY DEF CallsKnown, Idle, May
  <2>1. call'[d] = call[d] /\ ~Idle(d)
    BY <1>1, EndFacts DEF Idle
  <2> QED  BY <2>1, <1>3 DEF IInv, CallsKnown
<1>10. CallsOverlap'
  BY <1>1, EndCallsOverlap
<1>11. ServedExplained'
  <2> SUFFICES ASSUME NEW d \in Callers, call'[d] # None, call'[d].stage = "reply",
                      call'[d].err = "nil", call'[d].stream = Stream
               PROVE  schedules'[call'[d].subject]
                        \in May(call'[d]) \cup overlap'[d] \cup loose'[call'[d].subject]
    BY DEF ServedExplained, Idle, May
  <2>1. call'[d] = call[d] /\ overlap'[d] = overlap[d] /\ ~Idle(d)
    BY <1>1, EndFacts DEF Idle
  <2>2. call[d].subject \in Subjects
    BY <2>1 DEF IInv, TypeOK, Idle, Operations
  <2>3. loose[call[d].subject] \subseteq loose'[call[d].subject]
    BY <2>2, <1>3 DEF IInv, TypeOK
  <2>4. schedules[call[d].subject] \in May(call[d]) \cup overlap[d] \cup loose[call[d].subject]
    BY <2>1 DEF IInv, ServedExplained
  <2> QED  BY <2>1, <2>3, <2>4, <1>3
<1> QED  BY <1>4, <1>5, <1>6, <1>7, <1>8, <1>9, <1>10, <1>11 DEF IInv

\* A step of the server alone keeps what is said of the calls.
LEMMA ServerStep ==
    ASSUME IInv, UNCHANGED <<call, history, calls, faults>>, late' \subseteq late,
           now' \in 0..MaxTime, schedules' \in [Subjects -> Values],
           \A s \in Subjects : schedules'[s] = schedules[s] \/ schedules'[s] \in loose[s]
                               \/ schedules'[s] \in Outcomes(schedules[s])
    PROVE  IInv'
<1> USE DEF history
<1>1. TypeOK'
  BY DEF IInv, TypeOK
<1>2. AllClosed' /\ LooseKnown'
  BY DEF IInv, AllClosed, LooseKnown
<1>3. LateLoose' /\ CallsKnown' /\ CallsOverlap'
  BY DEF IInv, LateLoose, CallsKnown, CallsOverlap, May, Idle
<1>4. SlotAsReturned'
  <2> SUFFICES ASSUME NEW s \in Subjects PROVE schedules'[s] \in known[s]
    BY DEF SlotAsReturned
  <2>1. schedules[s] \in known[s] /\ loose[s] \subseteq known[s] /\ Closed(known[s])
    BY DEF IInv, SlotAsReturned, LooseKnown, AllClosed
  <2> QED  BY <2>1 DEF Closed
<1>5. ServedExplained'
  <2> SUFFICES ASSUME NEW d \in Callers, ~Idle(d), call[d].stage = "reply",
                      call[d].err = "nil", call[d].stream = Stream
               PROVE  schedules'[call[d].subject]
                        \in May(call[d]) \cup overlap[d] \cup loose[call[d].subject]
    BY DEF ServedExplained, Idle, May
  <2> DEFINE s == call[d].subject
             X == May(call[d]) \cup overlap[d] \cup loose[s]
  <2>1. schedules[s] \in X
    BY DEF IInv, ServedExplained
  <2>2. s \in Subjects
    BY DEF IInv, TypeOK, Idle, Operations
  <2>3. Closed(May(call[d])) /\ Closed(overlap[d]) /\ Closed(loose[s])
    BY <2>2, MayFacts DEF IInv, AllClosed
  <2>4. Closed(X)
    BY <2>3, ClosedUnion
  <2> QED  BY <2>1, <2>2, <2>4 DEF Closed
<1> QED  BY <1>1, <1>2, <1>3, <1>4, <1>5 DEF IInv

LEMMA ServeLateIInv ==
    ASSUME IInv, NEW o \in late, ServeLate(o)
    PROVE  IInv'
<1>1. o.subject \in Subjects /\ o.value \in Values /\ May(o) \subseteq loose[o.subject]
  BY DEF IInv, TypeOK, LateLoose, Operations
<1>2. \/ schedules' = schedules
      \/ /\ o.stream = Stream
         /\ schedules' = [schedules EXCEPT ![o.subject] = o.value]
  BY DEF ServeLate, Store, Acceptable
<1>3. o.stream = Stream => o.value \in loose[o.subject]
  BY <1>1, MayFacts
<1>4. schedules' \in [Subjects -> Values]
  BY <1>1, <1>2 DEF IInv, TypeOK
<1>5. \A s \in Subjects : schedules'[s] = schedules[s] \/ schedules'[s] \in loose[s]
  BY <1>1, <1>2, <1>3 DEF IInv, TypeOK
<1>6. late' \subseteq late /\ now' \in 0..MaxTime /\ UNCHANGED <<call, history, calls, faults>>
  BY DEF ServeLate, IInv, TypeOK
<1> QED  BY <1>4, <1>5, <1>6, ServerStep

LEMMA FireIInv ==
    ASSUME IInv, NEW s \in Subjects, Fire(s)
    PROVE  IInv'
<1>1. \/ schedules' = schedules
      \/ /\ schedules[s] # None /\ schedules[s].pattern \in OneShots
         /\ schedules' = [schedules EXCEPT ![s] = None]
  BY DEF Fire
<1>2. schedules' \in [Subjects -> Values]
  BY <1>1 DEF IInv, TypeOK, Values
<1>3. \A t \in Subjects : schedules'[t] = schedules[t] \/ schedules'[t] \in Outcomes(schedules[t])
  BY <1>1 DEF IInv, TypeOK, Outcomes
<1>4. late' \subseteq late /\ now' \in 0..MaxTime /\ UNCHANGED <<call, history, calls, faults>>
  BY DEF Fire, IInv, TypeOK
<1> QED  BY <1>2, <1>3, <1>4, ServerStep

LEMMA PassIInv ==
    ASSUME IInv, Pass
    PROVE  IInv'
<1>1. now' \in 0..MaxTime
  BY ScheduleBounds DEF Pass, IInv, TypeOK
<1>2. schedules' \in [Subjects -> Values] /\ schedules' = schedules
  BY DEF Pass, IInv, TypeOK
<1>3. late' \subseteq late /\ UNCHANGED <<call, history, calls, faults>>
  BY DEF Pass
<1> QED  BY <1>1, <1>2, <1>3, ServerStep

\* A call that fails fast counts, and does nothing else.
LEMMA QuietIInv ==
    ASSUME IInv, UNCHANGED <<server, call, late, history, faults>>, calls' \in 0..MaxCalls
    PROVE  IInv'
<1>1. TypeOK'
  BY DEF IInv, TypeOK, server, history
<1>2. AllClosed' /\ LooseKnown' /\ SlotAsReturned'
  BY DEF IInv, AllClosed, LooseKnown, SlotAsReturned, server, history
<1>3. LateLoose' /\ CallsKnown' /\ CallsOverlap' /\ ServedExplained'
  BY DEF IInv, LateLoose, CallsKnown, CallsOverlap, ServedExplained, May, Idle, server, history
<1> QED  BY <1>1, <1>2, <1>3 DEF IInv

LEMMA RegisterIInv ==
    ASSUME IInv, NEW c \in Callers, NEW a \in Requests, Register(c, a)
    PROVE  IInv'
<1>1. UNCHANGED <<server, late, faults>> /\ Idle(c) /\ Count
  BY DEF Register
<1>0. calls' \in 0..MaxCalls
  BY <1>1, ScheduleBounds DEF Count, IInv, TypeOK
<1>2. CASE Refused(a)
  BY <1>1, <1>0, <1>2, QuietIInv DEF Register
<1>3. CASE ~Refused(a)
  <2>1. a.subject \in Subjects
    BY <1>3 DEF Refused, Subjects
  <2>2. Message(a) \in Values
    BY <1>3 DEF Values, Messages
  <2>3. Begin(c, [stream |-> Stream, subject |-> a.subject, value |-> Message(a)], "send")
    BY <1>3 DEF Register
  <2> QED  BY <2>1, <2>2, <2>3, <1>1, <1>0, BeginIInv
<1> QED  BY <1>2, <1>3

LEMMA DeregisterIInv ==
    ASSUME IInv, NEW c \in Callers, NEW a \in Removals, Deregister(c, a)
    PROVE  IInv'
<1>1. UNCHANGED <<server, late, faults>> /\ Idle(c) /\ Count
  BY DEF Deregister
<1>0. calls' \in 0..MaxCalls
  BY <1>1, ScheduleBounds DEF Count, IInv, TypeOK
<1>2. CASE a.stream = "" \/ a.subject = ""
  BY <1>1, <1>0, <1>2, QuietIInv DEF Deregister
<1>3. CASE ~(a.stream = "" \/ a.subject = "")
  <2>1. a.subject \in Subjects /\ None \in Values
    BY <1>3 DEF Subjects, Values
  <2>2. Begin(c, [stream |-> a.stream, subject |-> a.subject, value |-> None], "lookup")
    BY <1>3 DEF Deregister
  <2>3. a.stream \in {Stream} \cup {b.stream : b \in Removals}
    OBVIOUS
  <2> QED  BY <2>1, <2>2, <2>3, <1>1, <1>0, BeginIInv
<1> QED  BY <1>2, <1>3

-----------------------------------------------------------------------------
\* Every step keeps what is known of the stored schedules.
LEMMA NextIInv == IInv /\ [Next]_vars => IInv'
<1> SUFFICES ASSUME IInv, [Next]_vars PROVE IInv'
  OBVIOUS
<1>1. CASE UNCHANGED vars
  <2>1. UNCHANGED <<server, call, late, history, faults>> /\ calls' \in 0..MaxCalls
    BY <1>1 DEF vars, IInv, TypeOK
  <2> QED  BY <2>1, QuietIInv
<1>2. ASSUME NEW c \in Callers, NEW a \in Requests, Register(c, a) PROVE IInv'
  BY <1>2, RegisterIInv
<1>3. ASSUME NEW c \in Callers, NEW a \in Removals, Deregister(c, a) PROVE IInv'
  BY <1>3, DeregisterIInv
<1>4. ASSUME NEW c \in Callers, LookupStream(c) PROVE IInv'
  BY <1>4, LookupStreamIInv
<1>5. ASSUME NEW c \in Callers, Serve(c) PROVE IInv'
  BY <1>5, ServeIInv
<1>6. ASSUME NEW c \in Callers, Return(c) PROVE IInv'
  BY <1>6, ReturnIInv
<1>7. ASSUME NEW c \in Callers, GiveUp(c) PROVE IInv'
  BY <1>7, GiveUpIInv
<1>8. ASSUME NEW o \in late, ServeLate(o) PROVE IInv'
  BY <1>8, ServeLateIInv
<1>9. ASSUME NEW s \in Subjects, Fire(s) PROVE IInv'
  BY <1>9, FireIInv
<1>10. CASE Pass
  BY <1>10, PassIInv
<1> QED  BY <1>1, <1>2, <1>3, <1>4, <1>5, <1>6, <1>7, <1>8, <1>9, <1>10 DEF Next

\* Schedule's type invariant, for any callers, requests, streams and patterns.
THEOREM ScheduleTypes == Spec => []TypeOK
<1>1. IInv => TypeOK
  BY DEF IInv
<1> QED  BY InitIInv, NextIInv, <1>1, PTL DEF Spec

\* The results of Register and Deregister can be relied on: however calls race,
\* fail, or take effect after they were given up on, and whichever one-shots fire,
\* the stored schedule is one that the returned results allow.
THEOREM SlotMatchesReturns == Spec => []SlotAsReturned
<1>1. IInv => SlotAsReturned
  BY DEF IInv
<1> QED  BY InitIInv, NextIInv, <1>1, PTL DEF Spec

-----------------------------------------------------------------------------
(* Ticks *)

\* The TTL and the rollup a list of options asks for are the ones it gives.
UnderstoodAs(opts) ==
    LET cfg == registerConfig(opts) IN
    /\ cfg.ttl \in Int
    /\ IF cfg.ttlSet THEN AskedTTL(opts) = cfg.ttl /\ cfg.ttl # None
       ELSE AskedTTL(opts) = None /\ cfg.ttl = 0
    /\ cfg.rollup <=> AskedRollup(opts)

\* Every set of numbers that is not empty has a least one.
LEMMA LeastOf ==
    ASSUME NEW T \in SUBSET Nat, T # {}
    PROVE  \E m \in T : \A k \in T : m <= k
<1> DEFINE R == OpToRel(<, Nat)
<1>1. IsWellFoundedOn(R, Nat)
  BY NatLessThanWellFounded
<1>2. \A x, y \in Nat : x < y => <<x, y>> \in R
  BY DEF OpToRel
<1> HIDE DEF R
<1>3. PICK m \in T : \A k \in T : ~(<<k, m>> \in R)
  BY <1>1, WFMin
<1>4. T \subseteq Nat
  OBVIOUS
<1>5. \A k \in T : m <= k
  <2> TAKE k \in T
  <2>1. ~(k < m)
    <3>1. k \in Nat /\ m \in Nat
      BY <1>4
    <3> QED  BY <1>2, <1>3, <3>1, Zenon
  <2>2. k \in Int /\ m \in Int
    BY <1>4
  <2> QED  BY <2>1, <2>2
<1> QED  BY <1>5

\* Induction over the natural numbers, on the set of those that have a property.
LEMMA Inductive ==
    ASSUME NEW T \in SUBSET Nat, 0 \in T, \A k \in T : k + 1 \in T
    PROVE  T = Nat
<1> DEFINE bad == Nat \ T
<1> SUFFICES ASSUME bad # {} PROVE FALSE
  OBVIOUS
<1>1. PICK m \in bad : \A k \in bad : m <= k
  <2>1. bad \in SUBSET Nat
    OBVIOUS
  <2> HIDE DEF bad
  <2> QED  BY <2>1, LeastOf
<1>2. m \in Nat /\ m # 0
  OBVIOUS
<1>3. m - 1 \in Nat /\ m - 1 \notin bad
  BY <1>1, <1>2
<1>4. (m - 1) + 1 \in T
  BY <1>3
<1> QED  BY <1>2, <1>4

\* g[n] is the configuration the first n options make.
Folded(opts, g, m) ==
    g = [n \in 0..m |-> IF n = 0 THEN ZeroRegister ELSE WithOption(g[n - 1], opts[n])]

\* There is such a g for every number of options.
LEMMA FoldExists ==
    ASSUME NEW opts PROVE \A m \in Nat : \E g : Folded(opts, g, m)
<1> DEFINE T == {m \in Nat : \E g : Folded(opts, g, m)}
<1>1. 0 \in T
  <2> DEFINE g == [n \in 0..0 |-> ZeroRegister]
  <2>1. Folded(opts, g, 0)
    <3>1. \A n \in 0..0 : n = 0
      OBVIOUS
    <3> QED  BY <3>1 DEF Folded
  <2> QED  BY <2>1
<1>2. ASSUME NEW k \in T PROVE k + 1 \in T
  <2>1. PICK g : Folded(opts, g, k)
    OBVIOUS
  <2> DEFINE h == [n \in 0..(k + 1) |-> IF n = k + 1 THEN WithOption(g[k], opts[k + 1]) ELSE g[n]]
  <2>2. \A n \in 0..k : g[n] = IF n = 0 THEN ZeroRegister ELSE WithOption(g[n - 1], opts[n])
    BY <2>1 DEF Folded
  <2>3. k \in Nat /\ \A n \in 0..(k + 1) : n = k + 1 \/ n \in 0..k
    OBVIOUS
  <2>4. ASSUME NEW n \in 0..(k + 1)
        PROVE  h[n] = IF n = 0 THEN ZeroRegister ELSE WithOption(h[n - 1], opts[n])
    <3>1. CASE n = k + 1
      <4>1. n # 0 /\ n - 1 = k /\ k \in 0..(k + 1) /\ k # k + 1
        BY <2>3, <3>1
      <4>2. h[n - 1] = g[k]
        BY <4>1
      <4>3. h[n] = WithOption(g[k], opts[k + 1])
        BY <3>1
      <4> QED  BY <3>1, <4>1, <4>2, <4>3
    <3>2. CASE n = 0
      <4>1. 0 # k + 1 /\ 0 \in 0..k
        BY <2>3
      <4> QED  BY <2>2, <3>2, <4>1
    <3>3. CASE n # 0 /\ n # k + 1
      <4>1. n \in 0..k /\ n - 1 \in 0..(k + 1) /\ n - 1 # k + 1
        BY <2>3, <3>3
      <4>2. h[n - 1] = g[n - 1] /\ h[n] = g[n]
        BY <3>3, <4>1
      <4> QED  BY <2>2, <3>3, <4>1, <4>2
    <3> QED  BY <3>1, <3>2, <3>3
  <2>5. DOMAIN h = 0..(k + 1) /\ h = [n \in 0..(k + 1) |-> h[n]]
    OBVIOUS
  <2> HIDE DEF h
  <2>6. Folded(opts, h, k + 1)
    BY <2>4, <2>5 DEF Folded
  <2>7. k + 1 \in Nat
    BY <2>3
  <2> QED  BY <2>6, <2>7
<1>3. T = Nat
  <2>1. T \in SUBSET Nat
    OBVIOUS
  <2> HIDE DEF T
  <2> QED  BY <1>1, <1>2, <2>1, Inductive
<1> QED  BY <1>3

\* registerConfig is the last of the configurations the options make one after
\* the other.
LEMMA ConfigFolded ==
    ASSUME NEW opts, Len(opts) \in Nat
    PROVE  \E g : Folded(opts, g, Len(opts)) /\ registerConfig(opts) = g[Len(opts)]
<1> DEFINE f == CHOOSE g : Folded(opts, g, Len(opts))
<1>1. Folded(opts, f, Len(opts))
  BY FoldExists
<1>2. registerConfig(opts) = f[Len(opts)]
  BY DEF registerConfig, Folded
<1> QED  BY <1>1, <1>2

\* What the first n options make: the last TTL among them, if any, and whether
\* there is a rollup.
ReadUpTo(opts, c, n) ==
    /\ c = [ttl |-> c.ttl, ttlSet |-> c.ttlSet, rollup |-> c.rollup]
    /\ c.ttlSet \in BOOLEAN /\ c.rollup \in BOOLEAN
    /\ c.rollup <=> \E k \in 1..n : opts[k][1] = "rollup"
    /\ c.ttlSet => \E k \in 1..n : /\ opts[k][1] = "ttl" /\ c.ttl = opts[k][2]
                                   /\ \A j \in 1..n : opts[j][1] = "ttl" => j <= k
    /\ ~c.ttlSet => c.ttl = 0 /\ \A k \in 1..n : opts[k][1] # "ttl"

\* One more option.
LEMMA ReadOneMore ==
    ASSUME NEW opts, NEW c, NEW n \in Nat, ReadUpTo(opts, c, n),
           opts[n + 1][1] \in {"ttl", "rollup"}
    PROVE  ReadUpTo(opts, WithOption(c, opts[n + 1]), n + 1)
<1> DEFINE d == WithOption(c, opts[n + 1])
<1>0. 1..(n + 1) = 1..n \cup {n + 1} /\ \A j \in 1..n : j <= n + 1
  OBVIOUS
<1>1. CASE opts[n + 1][1] = "ttl"
  <2>1. d = [ttl |-> opts[n + 1][2], ttlSet |-> TRUE, rollup |-> c.rollup]
    <3>1. d = [c EXCEPT !.ttl = opts[n + 1][2], !.ttlSet = TRUE]
      BY <1>1 DEF WithOption
    <3> QED  BY <3>1 DEF ReadUpTo
  <2> HIDE DEF d
  <2>2. d.ttl = opts[n + 1][2] /\ d.ttlSet = TRUE /\ d.rollup = c.rollup
    BY <2>1
  <2>3. d.rollup <=> \E k \in 1..(n + 1) : opts[k][1] = "rollup"
    BY <1>0, <1>1, <2>2 DEF ReadUpTo
  <2>4. \A j \in 1..(n + 1) : j <= n + 1
    OBVIOUS
  <2>5. n + 1 \in 1..(n + 1)
    OBVIOUS
  <2>6. \E k \in 1..(n + 1) : /\ opts[k][1] = "ttl" /\ d.ttl = opts[k][2]
                              /\ \A j \in 1..(n + 1) : opts[j][1] = "ttl" => j <= k
    BY <1>1, <2>2, <2>4, <2>5
  <2>7. c.rollup \in BOOLEAN
    BY DEF ReadUpTo
  <2>8. ReadUpTo(opts, d, n + 1)
    BY <2>1, <2>2, <2>3, <2>6, <2>7 DEF ReadUpTo
  <2> QED  BY <2>8 DEF d
<1>2. CASE opts[n + 1][1] = "rollup"
  <2>1. d = [ttl |-> c.ttl, ttlSet |-> c.ttlSet, rollup |-> TRUE]
    <3>1. d = [c EXCEPT !.rollup = TRUE]
      BY <1>2 DEF WithOption
    <3> QED  BY <3>1 DEF ReadUpTo
  <2> HIDE DEF d
  <2>2. d.ttl = c.ttl /\ d.ttlSet = c.ttlSet /\ d.rollup = TRUE
    BY <2>1
  <2>3. d.rollup <=> \E k \in 1..(n + 1) : opts[k][1] = "rollup"
    BY <1>0, <1>2, <2>2
  <2>4. opts[n + 1][1] # "ttl"
    BY <1>2
  <2>5. d.ttlSet => \E k \in 1..(n + 1) : /\ opts[k][1] = "ttl" /\ d.ttl = opts[k][2]
                              /\ \A j \in 1..(n + 1) : opts[j][1] = "ttl" => j <= k
    BY <1>0, <2>2, <2>4 DEF ReadUpTo
  <2>6. ~d.ttlSet => d.ttl = 0 /\ \A k \in 1..(n + 1) : opts[k][1] # "ttl"
    BY <1>0, <2>2, <2>4 DEF ReadUpTo
  <2>7. c.ttlSet \in BOOLEAN
    BY DEF ReadUpTo
  <2>8. ReadUpTo(opts, d, n + 1)
    BY <2>1, <2>2, <2>3, <2>5, <2>6, <2>7 DEF ReadUpTo
  <2> QED  BY <2>8 DEF d
<1> QED  BY <1>1, <1>2

\* registerConfig makes of every list of options what it asks for.
LEMMA ConfigUnderstood ==
    ASSUME NEW a \in Requests
    PROVE  UnderstoodAs(a.opts)
<1> DEFINE opts == a.opts
<1>0. PICK l \in Nat : l = Len(opts) /\ DOMAIN opts = 1..l
  BY OptionsTyped
<1>1. PICK g : Folded(opts, g, l) /\ registerConfig(opts) = g[l]
  BY <1>0, ConfigFolded
<1>2. \A n \in 0..l : g[n] = IF n = 0 THEN ZeroRegister ELSE WithOption(g[n - 1], opts[n])
  BY <1>1 DEF Folded
<1> DEFINE T == {n \in Nat : n <= l => ReadUpTo(opts, g[n], n)}
<1>3. 0 \in T
  <2>1. g[0] = [ttl |-> 0, ttlSet |-> FALSE, rollup |-> FALSE]
    BY <1>0, <1>2 DEF ZeroRegister
  <2>2. 1..0 = {}
    OBVIOUS
  <2>3. ReadUpTo(opts, g[0], 0)
    BY <2>1, <2>2 DEF ReadUpTo
  <2> QED  BY <2>3
<1>4. ASSUME NEW n \in T PROVE n + 1 \in T
  <2>1. n \in Nat /\ n + 1 \in Nat
    OBVIOUS
  <2> SUFFICES ASSUME n + 1 <= l PROVE ReadUpTo(opts, g[n + 1], n + 1)
    BY <2>1
  <2>2. n <= l /\ n + 1 \in 0..l /\ n + 1 \in 1..l /\ n + 1 # 0 /\ (n + 1) - 1 = n
    BY <1>0, <2>1
  <2>3. ReadUpTo(opts, g[n], n)
    BY <2>2
  <2>4. g[n + 1] = WithOption(g[n], opts[n + 1])
    BY <1>2, <2>2
  <2>5. opts[n + 1][1] \in {"ttl", "rollup"}
    BY <1>0, <2>2, OptionsTyped
  <2> QED  BY <2>1, <2>3, <2>4, <2>5, ReadOneMore
<1>5. T = Nat
  <2>1. T \in SUBSET Nat
    OBVIOUS
  <2> HIDE DEF T
  <2> QED  BY <1>3, <1>4, <2>1, Inductive
<1>6. PICK c : c = registerConfig(opts) /\ ReadUpTo(opts, c, l)
  BY <1>0, <1>1, <1>5
<1> DEFINE set == {k \in DOMAIN opts : opts[k][1] = "ttl"}
<1>7. AskedTTL(opts) = IF set = {} THEN None ELSE opts[CHOOSE k \in set : \A j \in set : j <= k][2]
  BY DEF AskedTTL
<1>8. c.rollup <=> AskedRollup(opts)
  BY <1>0, <1>6 DEF ReadUpTo, AskedRollup
<1>9. CASE c.ttlSet
  <2>1. PICK k \in 1..l : /\ opts[k][1] = "ttl" /\ c.ttl = opts[k][2]
                          /\ \A j \in 1..l : opts[j][1] = "ttl" => j <= k
    BY <1>6, <1>9 DEF ReadUpTo
  <2>2. k \in set /\ \A j \in set : j <= k
    BY <1>0, <2>1
  <2>3. set \subseteq Int
    BY <1>0
  <2> HIDE DEF set
  <2>4. (CHOOSE m \in set : \A j \in set : j <= m) = k
    <3>1. PICK m \in set : m = (CHOOSE x \in set : \A j \in set : j <= x) /\ \A j \in set : j <= m
      BY <2>2
    <3>2. m <= k /\ k <= m /\ m \in Int /\ k \in Int
      BY <2>2, <2>3, <3>1
    <3>3. m = k
      BY <3>2
    <3> QED  BY <3>1, <3>3
  <2>5. AskedTTL(opts) = c.ttl
    BY <1>7, <2>1, <2>2, <2>4
  <2>6. c.ttl \in Int
    BY <1>0, <2>1, OptionsTyped
  <2> QED  BY <1>6, <1>8, <1>9, <2>5, <2>6, NoneIsNoTTL DEF UnderstoodAs
<1>10. CASE ~c.ttlSet
  <2>1. c.ttl = 0 /\ set = {}
    BY <1>0, <1>6, <1>10 DEF ReadUpTo
  <2>2. AskedTTL(opts) = None
    BY <1>7, <2>1
  <2> QED  BY <1>6, <1>8, <1>10, <2>1, <2>2 DEF UnderstoodAs
<1> QED  BY <1>9, <1>10

\* What a tick carries is what the request asked for.
LEMMA AskedIs ==
    ASSUME NEW a \in Requests, ~Refused(a)
    PROVE  /\ Message(a).ttl \in Int
           /\ AskedTTL(a.opts) = IF Message(a).ttl > 0 THEN Message(a).ttl ELSE None
           /\ AskedTTL(a.opts) # None => Message(a).ttl > 0
           /\ Message(a).ttl > 0 => AskedTTL(a.opts) # None
           /\ Message(a).rollup <=> AskedRollup(a.opts)
           /\ Message(a).asked = a.opts
<1> DEFINE cfg == registerConfig(a.opts)
<1>1. /\ cfg.ttl \in Int
      /\ cfg.ttlSet => AskedTTL(a.opts) = cfg.ttl /\ cfg.ttl # None
      /\ ~cfg.ttlSet => AskedTTL(a.opts) = None /\ cfg.ttl = 0
      /\ cfg.rollup <=> AskedRollup(a.opts)
  BY ConfigUnderstood DEF UnderstoodAs
<1>2. ~(cfg.ttlSet /\ cfg.ttl <= 0)
  BY DEF Refused
<1>3. /\ Message(a).ttl = IF cfg.ttl > 0 THEN cfg.ttl ELSE 0
      /\ Message(a).rollup = cfg.rollup /\ Message(a).asked = a.opts
  BY DEF Message
<1> HIDE DEF cfg
<1>4. CASE cfg.ttlSet
  <2>1. cfg.ttl > 0 /\ Message(a).ttl = cfg.ttl
    BY <1>1, <1>2, <1>3, <1>4
  <2> QED  BY <1>1, <1>3, <1>4, <2>1
<1>5. CASE ~cfg.ttlSet
  <2>1. Message(a).ttl = 0
    BY <1>1, <1>3, <1>5
  <2> QED  BY <1>1, <1>3, <1>5, <2>1
<1> QED  BY <1>4, <1>5

\* Callers, and late operations, take ticks away only by a purge of their subject.
LEMMA StoredTicks ==
    ASSUME NEW o \in Sent, Store(o) PROVE \/ UNCHANGED ticks
                                        \/ /\ Purges(o, o.subject)
                                           /\ ticks' = {t \in ticks : t.subject # o.subject}
<1>1. CASE o.stream = Stream /\ o.value = None
  BY <1>1 DEF Store, Purges
<1>2. CASE ~(o.stream = Stream /\ o.value = None)
  BY <1>2 DEF Store
<1> QED  BY <1>1, <1>2

LEMMA TicksLeft ==
    ASSUME [Next]_vars
    PROVE  \/ UNCHANGED <<now, ticks>> \/ Pass \/ \E s \in Subjects : Fire(s)
           \/ /\ UNCHANGED now
              /\ \E o \in Sent : Purges(o, o.subject) /\ ticks' = {t \in ticks : t.subject # o.subject}
<1>1. ASSUME NEW c \in Callers, Serve(c)
      PROVE  /\ UNCHANGED now
             /\ \/ UNCHANGED ticks
                \/ \E o \in Sent : Purges(o, o.subject) /\ ticks' = {t \in ticks : t.subject # o.subject}
  <2>1. call[c] \in Sent /\ UNCHANGED now /\ (UNCHANGED ticks \/ Store(call[c]))
    BY <1>1 DEF Serve, Sent
  <2> QED  BY <2>1, StoredTicks
<1>2. ASSUME NEW o \in late, ServeLate(o)
      PROVE  /\ UNCHANGED now
             /\ \/ UNCHANGED ticks
                \/ \E x \in Sent : Purges(x, x.subject) /\ ticks' = {t \in ticks : t.subject # x.subject}
  <2>1. o \in Sent /\ UNCHANGED now /\ (UNCHANGED ticks \/ Store(o))
    BY <1>2 DEF ServeLate, Sent
  <2> QED  BY <2>1, StoredTicks
<1>3. CASE ~(\E c \in Callers : Serve(c)) /\ ~(\E o \in late : ServeLate(o))
  BY <1>3 DEF Next, vars, server, Register, Deregister, LookupStream, Return, GiveUp
<1> QED  BY <1>1, <1>2, <1>3

\* The tick a schedule fires, and those that stay beside it.
LEMMA Fired ==
    ASSUME IInv, NEW s \in Subjects, Fire(s)
    PROVE  \E a, tick :
              /\ a \in Requests /\ ~Refused(a) /\ tick.asked = a.opts /\ tick.ttl = Message(a).ttl
              /\ tick.subject = Message(a).target /\ tick.at = now /\ tick \notin ticks
              /\ ticks' = {t \in ticks : Message(a).rollup => t.subject # Message(a).target} \cup {tick}
              /\ now' = now
<1>1. schedules[s] \in Messages
  BY DEF Fire, IInv, TypeOK, Values
<1>2. PICK a \in Requests : ~Refused(a) /\ schedules[s] = Message(a)
  BY <1>1 DEF Messages
<1> DEFINE m == Message(a)
           tick == [subject |-> m.target, scheduler |-> s, at |-> now, ttl |-> m.ttl,
                    asked |-> m.asked, next |-> IF m.pattern \in OneShots THEN "purge" ELSE "time"]
<1>3. ticks' = {t \in ticks : m.rollup => t.subject # m.target} \cup {tick} /\ now' = now
  BY <1>2 DEF Fire
<1>4. tick \notin ticks
  <2>1. tick.scheduler = s /\ tick.at = now
    OBVIOUS
  <2>2. \A t \in ticks : t.scheduler = s => t.at # now
    BY DEF Fire
  <2> QED  BY <2>1, <2>2
<1>5. tick.subject = m.target /\ tick.at = now /\ tick.ttl = m.ttl /\ tick.asked = a.opts
  <2>1. m.asked = a.opts
    BY <1>2, AskedIs
  <2> QED  BY <2>1
<1> HIDE DEF tick, m
<1>6. /\ tick.ttl = Message(a).ttl /\ tick.subject = Message(a).target
      /\ ticks' = {t \in ticks : Message(a).rollup => t.subject # Message(a).target} \cup {tick}
  BY <1>3, <1>5 DEF m
<1> QED  BY <1>2, <1>3, <1>4, <1>5, <1>6

LEMMA TicksFromStep ==
    ASSUME IInv, TicksFrom, [Next]_vars
    PROVE  TicksFrom'
<1>0. now \in Int /\ now >= 0
  BY ScheduleBounds DEF IInv, TypeOK
<1>1. CASE UNCHANGED <<now, ticks>>
  BY <1>1 DEF TicksFrom
<1>2. CASE Pass
  <2>1. now' = now + 1 /\ ticks' = {t \in ticks : t.ttl > 0 => now' - t.at < t.ttl}
    BY <1>2 DEF Pass
  <2> SUFFICES ASSUME NEW t \in ticks'
               PROVE  /\ \E a \in Requests : ~Refused(a) /\ t.asked = a.opts /\ t.ttl = Message(a).ttl
                      /\ t.at \in 0..now' /\ (t.ttl > 0 => now' - t.at < t.ttl)
    BY DEF TicksFrom
  <2>2. t \in ticks /\ (t.ttl > 0 => now' - t.at < t.ttl)
    BY <2>1
  <2>3. t.at \in 0..now
    BY <2>2 DEF TicksFrom
  <2>4. t.at \in 0..now'
    BY <1>0, <2>1, <2>3
  <2> QED  BY <2>2, <2>4 DEF TicksFrom
<1>3. ASSUME NEW s \in Subjects, Fire(s) PROVE TicksFrom'
  <2>1. PICK a, tick :
          /\ a \in Requests /\ ~Refused(a)
          /\ tick.asked = a.opts /\ tick.ttl = Message(a).ttl /\ tick.at = now
          /\ ticks' \subseteq ticks \cup {tick} /\ now' = now
    BY <1>3, Fired
  <2>2. tick.at \in 0..now /\ (tick.ttl > 0 => now - tick.at < tick.ttl)
    BY <1>0, <2>1
  <2> QED  BY <2>1, <2>2 DEF TicksFrom
<1>4. CASE ticks' \subseteq ticks /\ UNCHANGED now
  BY <1>4 DEF TicksFrom
<1> QED  BY <1>1, <1>2, <1>3, <1>4, TicksLeft

LEMMA TicksAsAskedStep ==
    ASSUME IInv, TicksFrom, TicksFrom', TicksAsAsked, [Next]_vars
    PROVE  TicksAsAsked'
<1>0. now \in Int /\ \A t \in ticks : t.at \in Int /\ t.at <= now
  BY ScheduleBounds DEF IInv, TypeOK, TicksFrom
<1>1. ASSUME NEW t \in ticks', AskedTTL(t.asked) # None PROVE now' - t.at < AskedTTL(t.asked)
  <2>1. PICK a \in Requests : ~Refused(a) /\ t.asked = a.opts /\ t.ttl = Message(a).ttl
    BY <1>1 DEF TicksFrom
  <2>2. t.ttl > 0 /\ AskedTTL(t.asked) = t.ttl
    BY <1>1, <2>1, AskedIs
  <2> QED  BY <1>1, <2>2 DEF TicksFrom
<1>2. ASSUME NEW t \in ticks', AskedRollup(t.asked), NEW u \in ticks', u.subject = t.subject
      PROVE  u.at >= t.at
  <2>1. CASE ticks' \subseteq ticks
    BY <1>2, <2>1 DEF TicksAsAsked
  <2>2. ASSUME NEW s \in Subjects, Fire(s) PROVE u.at >= t.at
    <3>1. PICK a, tick :
            /\ a \in Requests /\ ~Refused(a)
            /\ tick.asked = a.opts /\ tick.subject = Message(a).target /\ tick.at = now
            /\ ticks' = {x \in ticks : Message(a).rollup => x.subject # Message(a).target} \cup {tick}
      BY <2>2, Fired
    <3>2. CASE t = tick
      <4>1. Message(a).rollup
        BY <1>2, <3>1, <3>2, AskedIs
      <4>2. u = tick
        BY <1>2, <3>1, <3>2, <4>1
      <4> QED  BY <1>0, <3>1, <3>2, <4>2
    <3>3. CASE t # tick /\ u = tick
      BY <1>0, <1>2, <3>1, <3>3
    <3>4. CASE t # tick /\ u # tick
      BY <1>2, <3>1, <3>4 DEF TicksAsAsked
    <3> QED  BY <3>2, <3>3, <3>4
  <2>3. CASE Pass
    <3>1. ticks' \subseteq ticks
      BY <2>3 DEF Pass
    <3> QED  BY <2>1, <3>1
  <2> QED  BY <2>1, <2>2, <2>3, TicksLeft
<1> QED  BY <1>1, <1>2 DEF TicksAsAsked

\* register.go:26-28, for any requests and any lists of options: no tick outlives
\* the TTL asked for and a rollup tick has no older one beside it, however
\* schedules are replaced, removed and fired.
THEOREM TicksMatchOptions == Spec => []TicksAsAsked
<1>1. Init => TicksFrom /\ TicksAsAsked
  BY DEF Init, TicksFrom, TicksAsAsked
<1>2. IInv /\ TicksFrom /\ [Next]_vars => TicksFrom'
  BY TicksFromStep
<1>3. IInv /\ TicksFrom /\ TicksFrom' /\ TicksAsAsked /\ [Next]_vars => TicksAsAsked'
  BY TicksAsAskedStep
<1> QED  BY <1>1, <1>2, <1>3, InitIInv, NextIInv, PTL DEF Spec

\* register.go:28-30 and :109, for any requests and removals: a tick leaves the
\* stream only because its own TTL has passed, a rollup on its target took its
\* place, or a Deregister named the tick's subject (register.go:118).
THEOREM TicksStay == Spec => TicksKept
<1> DEFINE A == \A t \in ticks \ ticks' :
                  \/ AskedTTL(t.asked) # None /\ now' - t.at >= AskedTTL(t.asked)
                  \/ \E u \in ticks' \ ticks : u.subject = t.subject /\ AskedRollup(u.asked)
                  \/ \E o \in Sent : Purges(o, t.subject)
<1>1. IInv /\ TicksFrom /\ [Next]_vars => [A]_vars
  <2> SUFFICES ASSUME IInv, TicksFrom, [Next]_vars, NEW t \in ticks \ ticks'
               PROVE  \/ AskedTTL(t.asked) # None /\ now' - t.at >= AskedTTL(t.asked)
                      \/ \E u \in ticks' \ ticks : u.subject = t.subject /\ AskedRollup(u.asked)
                      \/ \E o \in Sent : Purges(o, t.subject)
    OBVIOUS
  <2>1. CASE Pass
    <3>1. PICK a \in Requests : ~Refused(a) /\ t.asked = a.opts /\ t.ttl = Message(a).ttl
      BY DEF TicksFrom
    <3>2. t.ttl > 0 /\ ~(now' - t.at < t.ttl) /\ now' = now + 1
      BY <2>1 DEF Pass
    <3>3. AskedTTL(t.asked) = t.ttl /\ AskedTTL(t.asked) # None /\ t.ttl \in Int
      BY <3>1, <3>2, AskedIs
    <3>4. now' \in Int /\ t.at \in Int
      BY <3>2, ScheduleBounds DEF IInv, TypeOK, TicksFrom
    <3> QED  BY <3>2, <3>3, <3>4
  <2>2. ASSUME NEW s \in Subjects, Fire(s)
        PROVE  \E u \in ticks' \ ticks : u.subject = t.subject /\ AskedRollup(u.asked)
    <3>1. PICK a, tick :
            /\ a \in Requests /\ ~Refused(a) /\ tick.asked = a.opts /\ tick.subject = Message(a).target
            /\ tick \notin ticks
            /\ ticks' = {x \in ticks : Message(a).rollup => x.subject # Message(a).target} \cup {tick}
      BY <2>2, Fired
    <3>2. Message(a).rollup /\ t.subject = Message(a).target
      BY <3>1
    <3>3. AskedRollup(tick.asked)
      BY <3>1, <3>2, AskedIs
    <3> QED  BY <3>1, <3>2, <3>3
  <2>3. ASSUME NEW o \in Sent, Purges(o, o.subject), ticks' = {x \in ticks : x.subject # o.subject}
        PROVE  Purges(o, t.subject)
    <3>1. t.subject = o.subject
      BY <2>3
    <3> QED  BY <2>3, <3>1
  <2> QED  BY <2>1, <2>2, <2>3, TicksLeft
<1>2. Init => TicksFrom
  BY DEF Init, TicksFrom
<1>3. IInv /\ TicksFrom /\ [Next]_vars => TicksFrom'
  BY TicksFromStep
<1> QED  BY <1>1, <1>2, <1>3, InitIInv, NextIInv, PTL DEF Spec, TicksKept
=============================================================================
