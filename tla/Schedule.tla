------------------------------ MODULE Schedule ------------------------------
(***************************************************************************)
(* schedule/register.go and schedule/tick.go: imps and operators that      *)
(* Register and Deregister schedules on the same subjects at the same time,*)
(* the server (external) that fires them, and the ticks in its stream.     *)
(*                                                                         *)
(* A call that is given up on (its context ends, the reply is lost) fails  *)
(* for its caller, and takes effect, has taken effect, or never will.      *)
(* Delivery leaves a tick in the stream.  Of the options, body, source and *)
(* time zone only change what a tick carries or when it fires.  Subjects   *)
(* have no wildcards, and no schedule is registered on a tick's target; a  *)
(* Deregister may name one, though.                                        *)
(***************************************************************************)
EXTENDS Integers, Sequences

CONSTANTS
    Callers,    \* goroutines that register and deregister
    Requests,   \* arguments of Register: subject, pattern, target, opts
    Removals,   \* arguments of Deregister: stream, subject
    Stream,     \* the stream that captures the schedule and tick subjects
    Streams,    \* the streams there are
    Parsed,     \* patterns the server can parse
    OneShots,   \* those that fire once ("@at")
    MaxTime,    \* bound: the last instant
    MaxCalls,   \* bound: calls of Register and Deregister
    MaxFaults,  \* bound: calls that are given up on
    None

Subjects == {a.subject : a \in Requests \cup Removals} \ {""}

ASSUME ScheduleBounds == MaxTime \in Nat /\ MaxCalls \in Nat /\ MaxFaults \in Nat
ASSUME OptionsTyped ==
    \A a \in Requests :
        /\ Len(a.opts) \in Nat /\ DOMAIN a.opts = 1..Len(a.opts)
        /\ \A k \in DOMAIN a.opts : a.opts[k][1] \in {"ttl", "rollup"} /\ a.opts[k][2] \in Int
ASSUME TargetsApart == \A a, b \in Requests : a.target # b.subject \/ a.target = ""
ASSUME NoneIsNoTTL == None \notin Int
ASSUME PatternsNotEmpty == "" \notin Parsed /\ OneShots \subseteq Parsed

VARIABLES
    now,        \* the server's clock
    schedules,  \* subject -> the schedule message stored there, or None
    ticks,      \* the ticks in the stream
    call,       \* caller -> the call it is in, or None
    late,       \* operations under way whose caller has given up
    known,      \* subject -> what may be stored there, from the results of calls
    overlap,    \* caller -> what calls that overlap its own may store
    loose,      \* subject -> what calls that failed may still store
    calls, faults

server == <<now, schedules, ticks>>
history == <<known, overlap, loose>>
vars == <<server, call, late, history, calls, faults>>

-----------------------------------------------------------------------------
(* Register's options and the message it builds *)

ZeroRegister == [ttl |-> 0, ttlSet |-> FALSE, rollup |-> FALSE]

\* WithTickTTL and WithRollup
WithOption(cfg, opt) ==
    CASE opt[1] = "ttl"    -> [cfg EXCEPT !.ttl = opt[2], !.ttlSet = TRUE]
      [] opt[1] = "rollup" -> [cfg EXCEPT !.rollup = TRUE]
registerConfig(opts) ==
    LET cfg[n \in 0..Len(opts)] ==
            IF n = 0 THEN ZeroRegister ELSE WithOption(cfg[n - 1], opts[n])
    IN  cfg[Len(opts)]

\* Mutant: a TTL that is not positive is let through.
Refused_AnyTTL(a) == a.subject = "" \/ a.pattern = "" \/ a.target = ""

\* What fails fast.
Refused(a) ==
    \/ a.subject = "" \/ a.pattern = "" \/ a.target = ""
    \/ registerConfig(a.opts).ttlSet /\ registerConfig(a.opts).ttl <= 0

\* The headers of the message; a ttl of 0 is no TTL header.  asked is history.
Message(a) ==
    [pattern |-> a.pattern, target |-> a.target,
     ttl |-> IF registerConfig(a.opts).ttl > 0 THEN registerConfig(a.opts).ttl ELSE 0,
     rollup |-> registerConfig(a.opts).rollup, asked |-> a.opts]

Messages == {Message(a) : a \in {b \in Requests : ~Refused(b)}}

-----------------------------------------------------------------------------
(* Calls.  An operation stores value under subject, if it is for the stream *)
(* that captures it; a Deregister stores None.                              *)

Values == Messages \cup {None}
Operations ==
    [stream : {Stream} \cup {a.stream : a \in Removals}, subject : Subjects, value : Values,
     stage : {"lookup", "send", "reply"}, err : {"nil", "refused", "not found"}]
ASSUME NoneIsNoOperation == None \notin Operations /\ None \notin Messages

Idle(c) == call[c] = None
\* What a stored value may have become: a one-shot is gone once it has fired.
Outcomes(v) == IF v # None /\ v.pattern \in OneShots THEN {v, None} ELSE {v}
May(o) == IF o.stream = Stream THEN Outcomes(o.value) ELSE {}

Init ==
    /\ now = 0
    /\ schedules = [s \in Subjects |-> None]
    /\ ticks = {}
    /\ call = [c \in Callers |-> None]
    /\ late = {}
    /\ known = [s \in Subjects |-> {None}]
    /\ overlap = [c \in Callers |-> {}]
    /\ loose = [s \in Subjects |-> {}]
    /\ calls = 0 /\ faults = 0

Concurrent(s) == {d \in Callers : ~Idle(d) /\ call[d].subject = s}

\* The call begins and the first request is sent.
Begin(c, o, stage) ==
    /\ call' = [call EXCEPT ![c] = [stream |-> o.stream, subject |-> o.subject,
                                    value |-> o.value, stage |-> stage, err |-> "nil"]]
    /\ known' = [known EXCEPT ![o.subject] = @ \cup May(o)]
    /\ overlap' = [d \in Callers |->
                     IF d = c THEN UNION {May(call[e]) : e \in Concurrent(o.subject)}
                     ELSE IF d \in Concurrent(o.subject) THEN overlap[d] \cup May(o)
                     ELSE overlap[d]]
    /\ UNCHANGED loose

Count == calls < MaxCalls /\ calls' = calls + 1

Register(c, a) ==
    /\ Idle(c) /\ Count
    /\ IF Refused(a)
       THEN UNCHANGED <<call, history>>
       ELSE Begin(c, [stream |-> Stream, subject |-> a.subject, value |-> Message(a)], "send")
    /\ UNCHANGED <<server, late, faults>>

Deregister(c, a) ==
    /\ Idle(c) /\ Count
    /\ IF a.stream = "" \/ a.subject = ""
       THEN UNCHANGED <<call, history>>
       ELSE Begin(c, [stream |-> a.stream, subject |-> a.subject, value |-> None], "lookup")
    /\ UNCHANGED <<server, late, faults>>

Goto(c, stage, err) ==
    call' = [call EXCEPT ![c] = [stream |-> call[c].stream, subject |-> call[c].subject,
                                 value |-> call[c].value, stage |-> stage, err |-> err]]

\* js.Stream of Deregister finds the stream, or fails the call.
LookupStream(c) ==
    /\ ~Idle(c) /\ call[c].stage = "lookup"
    /\ IF call[c].stream \in Streams THEN Goto(c, "send", "nil") ELSE Goto(c, "reply", "not found")
    /\ UNCHANGED <<server, late, history, calls, faults>>

\* Mutant: the purge is not limited to the subject.
Store_PurgesAll(o) ==
    /\ schedules' = IF o.stream # Stream THEN schedules
                    ELSE IF o.value = None THEN [s \in Subjects |-> None]
                    ELSE [schedules EXCEPT ![o.subject] = o.value]
    /\ ticks' = IF o.value = None THEN {} ELSE ticks

\* The server stores the schedule, in place of the one before, or purges the
\* subject, of ticks too; in another stream there is nothing to purge.
Store(o) ==
    IF o.stream = Stream
    THEN /\ schedules' = [schedules EXCEPT ![o.subject] = o.value]
         /\ ticks' = {t \in ticks : o.value = None => t.subject # o.subject}
    ELSE UNCHANGED <<schedules, ticks>>

\* A schedule whose pattern does not parse is refused.
Acceptable(o) == o.value # None => o.value.pattern \in Parsed

\* PublishMsg or Purge reaches the server, which replies.
Serve(c) ==
    /\ ~Idle(c) /\ call[c].stage = "send"
    /\ IF Acceptable(call[c])
       THEN Store(call[c]) /\ Goto(c, "reply", "nil")
       ELSE UNCHANGED <<schedules, ticks>> /\ Goto(c, "reply", "refused")
    /\ UNCHANGED <<now, late, history, calls, faults>>

End(c) == call' = [call EXCEPT ![c] = None] /\ overlap' = [overlap EXCEPT ![c] = {}]

\* Mutant: an error of the server is not returned.
Return_NoError(c) ==
    /\ ~Idle(c) /\ call[c].stage = "reply"
    /\ LET s == call[c].subject IN
       known' = IF call[c].stream # Stream THEN known
                ELSE [known EXCEPT ![s] = May(call[c]) \cup overlap[c] \cup loose[s]]
    /\ End(c)
    /\ UNCHANGED <<server, late, loose, calls, faults>>

\* The reply arrives: nil, and what may be stored is what the call stored and
\* what others may have stored since it began; or an error.
Return(c) ==
    /\ ~Idle(c) /\ call[c].stage = "reply"
    /\ LET s == call[c].subject IN
       known' = IF call[c].err # "nil" \/ call[c].stream # Stream THEN known
                ELSE [known EXCEPT ![s] = May(call[c]) \cup overlap[c] \cup loose[s]]
    /\ End(c)
    /\ UNCHANGED <<server, late, loose, calls, faults>>

\* The call fails without a reply; a request already sent may be served yet.
GiveUp(c) ==
    /\ ~Idle(c)
    /\ faults < MaxFaults /\ faults' = faults + 1
    /\ late' \in IF call[c].stage = "send" THEN {late, late \cup {call[c]}} ELSE {late}
    /\ loose' = [loose EXCEPT ![call[c].subject] = @ \cup May(call[c])]
    /\ End(c)
    /\ UNCHANGED <<server, known, calls>>

ServeLate(o) ==
    /\ late' = late \ {o}
    /\ IF Acceptable(o) THEN Store(o) ELSE UNCHANGED <<schedules, ticks>>
    /\ UNCHANGED <<now, call, history, calls, faults>>

-----------------------------------------------------------------------------
(* The server's clock and ticks *)

\* The schedule fires: a tick on its target, which a rollup clears first.  A
\* one-shot is removed, and says so in the Next header.
Fire(s) ==
    /\ schedules[s] # None
    /\ \A t \in ticks : t.scheduler = s => t.at # now
    /\ LET m == schedules[s]
           once == m.pattern \in OneShots
           tick == [subject |-> m.target, scheduler |-> s, at |-> now, ttl |-> m.ttl,
                    asked |-> m.asked, next |-> IF once THEN "purge" ELSE "time"]
       IN  /\ ticks' = {t \in ticks : m.rollup => t.subject # m.target} \cup {tick}
           /\ schedules' = IF once THEN [schedules EXCEPT ![s] = None] ELSE schedules
    /\ UNCHANGED <<now, call, late, history, calls, faults>>

\* Time passes, and ticks expire with it.
Pass ==
    /\ now < MaxTime
    /\ now' = now + 1
    /\ ticks' = {t \in ticks : t.ttl > 0 => now' - t.at < t.ttl}
    /\ UNCHANGED <<schedules, call, late, history, calls, faults>>

Next ==
    \/ \E c \in Callers :
          \/ \E a \in Requests : Register(c, a)
          \/ \E a \in Removals : Deregister(c, a)
          \/ LookupStream(c) \/ Serve(c) \/ Return(c) \/ GiveUp(c)
    \/ \E o \in late : ServeLate(o)
    \/ \E s \in Subjects : Fire(s)
    \/ Pass

Spec == Init /\ [][Next]_vars

-----------------------------------------------------------------------------
(* Properties *)

\* The TTL a list of options asks for (the last counts), or None.
AskedTTL(opts) ==
    LET set == {k \in DOMAIN opts : opts[k][1] = "ttl"}
    IN  IF set = {} THEN None ELSE opts[CHOOSE k \in set : \A j \in set : j <= k][2]
AskedRollup(opts) == \E k \in DOMAIN opts : opts[k][1] = "rollup"

\* Every variable keeps its type.
TypeOK ==
    /\ now \in 0..MaxTime /\ calls \in 0..MaxCalls /\ faults \in 0..MaxFaults
    /\ schedules \in [Subjects -> Values]
    /\ call \in [Callers -> Operations \cup {None}]
    /\ late \subseteq Operations
    /\ known \in [Subjects -> SUBSET Values]
    /\ loose \in [Subjects -> SUBSET Values]
    /\ overlap \in [Callers -> SUBSET Values]

\* What the callers' results say holds: however calls on a subject interleave,
\* replace each other, fail, or take effect after their caller gave up, the
\* schedule stored there is the one of the last call that returned nil, of one
\* that overlapped it or came later, or of one that failed.  So a Deregister that
\* returns nil with nothing beside it leaves no schedule, and a Register leaves
\* its own (register.go:57-59 and :108-109).
SlotAsReturned == \A s \in Subjects : schedules[s] \in known[s]

\* register.go:26-28: a tick that was asked to expire is in the stream only
\* while it has not, and a rollup tick has no older one beside it.
TicksAsAsked ==
    \A t \in ticks :
        /\ AskedTTL(t.asked) # None => now - t.at < AskedTTL(t.asked)
        /\ AskedRollup(t.asked) => \A u \in ticks : u.subject = t.subject => u.at >= t.at

\* The requests sent, by callers who wait for the reply and who do not.
Sent == late \cup {call[c] : c \in {d \in Callers : ~Idle(d) /\ call[d].stage = "send"}}
Purges(o, s) == o.stream = Stream /\ o.subject = s /\ o.value = None

\* register.go:28-30 and :109, the "full backlog accumulates" and "ticks already
\* emitted are unaffected": whatever is registered, replaced or deregistered, a
\* tick leaves the stream only by its own TTL, for a rollup on its target, or for
\* a Deregister that names the tick's subject instead of the schedule's.
TicksKept ==
    [][\A t \in ticks \ ticks' :
          \/ AskedTTL(t.asked) # None /\ now' - t.at >= AskedTTL(t.asked)
          \/ \E u \in ticks' \ ticks : u.subject = t.subject /\ AskedRollup(u.asked)
          \/ \E o \in Sent : Purges(o, t.subject)]_vars

=============================================================================
