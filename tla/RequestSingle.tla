--------------------------- MODULE RequestSingle ---------------------------
(***************************************************************************)
(* request.go requestSingle: request/reply calls under the caller's        *)
(* context and a derived one with the effective timeout.  The error of the *)
(* request is classified by reading the caller's context again, after the  *)
(* request has failed; either context may have ended in between.           *)
(***************************************************************************)
EXTENDS Integers, FiniteSets

CONSTANT Calls   \* concurrent requests of one imp

ASSUME CallsFinite == IsFiniteSet(Calls)

VARIABLES
    pc,       \* call -> "idle", "wait", "classify", "deadline" or "returned"
    ctx,      \* call -> Err() of the caller's context: "nil", "canceled" or "deadline"
    derived,  \* call -> Err() of the derived context
    ended,    \* call -> what ended the derived context: "none", "caller" or "timeout" (history)
    err,      \* call -> the error RequestWithContext returned
    res,      \* call -> what requestSingle returned
    RequestCalls, RequestNoResponders, RequestTimeouts

contexts == <<ctx, derived, ended>>
counters == <<RequestCalls, RequestNoResponders, RequestTimeouts>>
vars == <<pc, contexts, err, res, counters>>

Init ==
    /\ pc = [c \in Calls |-> "idle"]
    /\ ctx = [c \in Calls |-> "nil"]
    /\ derived = [c \in Calls |-> "nil"]
    /\ ended = [c \in Calls |-> "none"]
    /\ err = [c \in Calls |-> "nil"]
    /\ res = [c \in Calls |-> "none"]
    /\ RequestCalls = 0 /\ RequestNoResponders = 0 /\ RequestTimeouts = 0

Goto(c, l) == pc' = [pc EXCEPT ![c] = l]
Return(c, x) == Goto(c, "returned") /\ res' = [res EXCEPT ![c] = x]

\* RequestCalls is raised and the derived context made, which is born ended
\* when the caller's is.
Begin(c) ==
    /\ pc[c] = "idle"
    /\ Goto(c, "wait")
    /\ RequestCalls' = RequestCalls + 1
    /\ derived' = [derived EXCEPT ![c] = ctx[c]]
    /\ ended' = [ended EXCEPT ![c] = IF ctx[c] = "nil" THEN "none" ELSE "caller"]
    /\ UNCHANGED <<ctx, err, res, RequestNoResponders, RequestTimeouts>>

\* A reply.
Replied(c) ==
    /\ pc[c] = "wait"
    /\ Return(c, "ok")
    /\ UNCHANGED <<contexts, err, counters>>

\* RequestWithContext fails: the server says nobody listens, or the connection
\* refuses.
RequestFails(c) ==
    /\ pc[c] = "wait"
    /\ \/ err' = [err EXCEPT ![c] = "no responders"]
       \/ err' = [err EXCEPT ![c] = "substrate"]
    /\ Goto(c, "classify")
    /\ UNCHANGED <<contexts, res, counters>>

\* Mutant: the request is made with the caller's context.
RequestEnded_CallerCtx(c) ==
    /\ pc[c] = "wait"
    /\ ctx[c] # "nil"
    /\ err' = [err EXCEPT ![c] = ctx[c]]
    /\ Goto(c, "classify")
    /\ UNCHANGED <<contexts, res, counters>>

\* RequestWithContext fails with the error of the derived context.
RequestEnded(c) ==
    /\ pc[c] = "wait"
    /\ derived[c] # "nil"
    /\ err' = [err EXCEPT ![c] = derived[c]]
    /\ Goto(c, "classify")
    /\ UNCHANGED <<contexts, res, counters>>

\* The switch: ErrNoResponders, then cancellation of either, then a deadline.
Classify(c) ==
    /\ pc[c] = "classify"
    /\ \/ /\ err[c] = "no responders"
          /\ Return(c, "ErrNoResponders")
          /\ RequestNoResponders' = RequestNoResponders + 1
       \/ /\ err[c] # "no responders"
          /\ ctx[c] = "canceled" \/ err[c] = "canceled"
          /\ Return(c, "canceled")
          /\ UNCHANGED RequestNoResponders
       \/ /\ ctx[c] # "canceled" /\ err[c] = "deadline"
          /\ Goto(c, "deadline")
          /\ UNCHANGED <<res, RequestNoResponders>>
       \/ /\ ctx[c] # "canceled" /\ err[c] = "substrate"
          /\ Return(c, "substrate")
          /\ UNCHANGED RequestNoResponders
    /\ UNCHANGED <<contexts, err, RequestCalls, RequestTimeouts>>

\* Mutant: every deadline is taken for the framework's own.
Deadline_AlwaysOurs(c) ==
    /\ pc[c] = "deadline"
    /\ Return(c, "ErrRequestTimeout")
    /\ RequestTimeouts' = RequestTimeouts + 1
    /\ UNCHANGED <<contexts, err, RequestCalls, RequestNoResponders>>

\* Mutant: the caller's deadline is counted as a timeout too.
Deadline_CountsBoth(c) ==
    /\ pc[c] = "deadline"
    /\ Return(c, IF ctx[c] = "deadline" THEN "caller deadline" ELSE "ErrRequestTimeout")
    /\ RequestTimeouts' = RequestTimeouts + 1
    /\ UNCHANGED <<contexts, err, RequestCalls, RequestNoResponders>>

\* ctx.Err() decides whose deadline it was.
Deadline(c) ==
    /\ pc[c] = "deadline"
    /\ \/ /\ ctx[c] = "deadline"
          /\ Return(c, "caller deadline")
          /\ UNCHANGED RequestTimeouts
       \/ /\ ctx[c] # "deadline"
          /\ Return(c, "ErrRequestTimeout")
          /\ RequestTimeouts' = RequestTimeouts + 1
    /\ UNCHANGED <<contexts, err, RequestCalls, RequestNoResponders>>

-----------------------------------------------------------------------------
\* The derived context exists, is not cancelled by a return, and has not ended.
Live(c) == pc[c] \in {"wait", "classify", "deadline"} /\ derived[c] = "nil"

\* The caller's context ends, by cancellation or at its deadline, and ends the
\* derived one with the same error unless that has ended before.
CallerEnds(c, why) ==
    /\ ctx[c] = "nil"
    /\ ctx' = [ctx EXCEPT ![c] = why]
    /\ IF Live(c)
       THEN derived' = [derived EXCEPT ![c] = why] /\ ended' = [ended EXCEPT ![c] = "caller"]
       ELSE UNCHANGED <<derived, ended>>
    /\ UNCHANGED <<pc, err, res, counters>>

\* The effective timeout passes first.
Timeout(c) ==
    /\ Live(c)
    /\ derived' = [derived EXCEPT ![c] = "deadline"]
    /\ ended' = [ended EXCEPT ![c] = "timeout"]
    /\ UNCHANGED <<pc, ctx, err, res, counters>>

Step(c) == Begin(c) \/ Replied(c) \/ RequestFails(c) \/ RequestEnded(c) \/ Classify(c) \/ Deadline(c)

Next == \E c \in Calls :
    \/ Step(c)
    \/ CallerEnds(c, "canceled") \/ CallerEnds(c, "deadline")
    \/ Timeout(c)

Spec == Init /\ [][Next]_vars

\* The goroutine runs, RequestWithContext watches the derived context, and the
\* timer of that context fires; nobody need answer or cancel.
FairSpec == Spec /\ \A c \in Calls :
    /\ WF_vars(Timeout(c))
    /\ WF_vars(RequestEnded(c) \/ Classify(c) \/ Deadline(c))

-----------------------------------------------------------------------------
(* Properties *)

Results == {"none", "ok", "ErrNoResponders", "canceled", "caller deadline",
            "ErrRequestTimeout", "substrate"}

\* Every variable keeps its type.
TypeOK ==
    /\ pc \in [Calls -> {"idle", "wait", "classify", "deadline", "returned"}]
    /\ ctx \in [Calls -> {"nil", "canceled", "deadline"}]
    /\ derived \in [Calls -> {"nil", "canceled", "deadline"}]
    /\ ended \in [Calls -> {"none", "caller", "timeout"}]
    /\ err \in [Calls -> {"nil", "no responders", "substrate", "canceled", "deadline"}]
    /\ res \in [Calls -> Results]
    /\ RequestCalls \in Nat /\ RequestNoResponders \in Nat /\ RequestTimeouts \in Nat

\* ErrRequestTimeout blames the framework's own timeout only when it did end
\* the request, although the caller's context is read again, later and twice.
TimeoutIsOurs == \A c \in Calls : res[c] = "ErrRequestTimeout" => ended[c] = "timeout"

With(r) == Cardinality({c \in Calls : res[c] = r})

\* The failure counters agree with what callers were told: one timeout per
\* ErrRequestTimeout, one no-responders per ErrNoResponders, however the calls
\* interleave, and each call is counted as it starts.
CountersAgree ==
    /\ RequestTimeouts = With("ErrRequestTimeout")
    /\ RequestNoResponders = With("ErrNoResponders")
    /\ RequestCalls = Cardinality({c \in Calls : pc[c] # "idle"})

\* A request ends although nobody ever answers.
RequestReturns == \A c \in Calls : pc[c] = "wait" ~> pc[c] = "returned"

\* request.go:131-133, "The caller's ctx already had a deadline that beat ours:
\* surface it verbatim. Otherwise it was our derived deadline: produce
\* *ErrRequestTimeout.": a request the timeout ended is not blamed on the caller.
OwnTimeoutReported ==
    \A c \in Calls : err[c] = "deadline" /\ ended[c] = "timeout" =>
        res[c] # "caller deadline"
=============================================================================
