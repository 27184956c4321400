---------------------------- MODULE RequestMany ----------------------------
(***************************************************************************)
(* request.go requestMany: one scatter-gather request.  Replies arrive in  *)
(* the inbox channel while the call collects them; the window's timer, the *)
(* caller's context and the cap race with the arrivals in one select.      *)
(*                                                                         *)
(* A reply is its number in arrival order.  Calls share nothing but two    *)
(* manyCounters, so one call stands for each.  The branch for a closed channel *)
(* is not modelled: nats.go leaves a ChanSubscribe channel open.           *)
(***************************************************************************)
EXTENDS Integers, Sequences, SequencesExt

CONSTANTS
    maxReplies,  \* WithRequestManyMax; 0 = no cap
    MinBuffer,   \* the least size of the reply channel (64 in the code)
    MaxArrivals  \* bound: replies that arrive

Replies == 1..MaxArrivals

\* bufSize
BufSize == IF maxReplies < MinBuffer THEN MinBuffer ELSE maxReplies

ASSUME CapNatural == maxReplies \in Nat
ASSUME BufferPositive == MinBuffer \in Nat \ {0}
ASSUME RepliesNatural == MaxArrivals \in Nat

VARIABLES
    phase,        \* "idle", "publish", "select", "defer" or "returned"
    outcome,      \* what the call returns
    subscribed,   \* the inbox subscription exists
    replyCh,      \* the reply channel
    collected,    \* the replies collected
    windowOver,   \* the window's timer has fired
    ctxDone,      \* the caller's context is done
    arrived,      \* replies that reached the inbox (history)
    status,       \* those with a status header
    dropped,      \* those that met a full channel (history)
    late,         \* those that arrived after the window (history)
    RequestManyCalls,
    ManyNoResponders  \* what the call adds to RequestNoResponders

manyCounters == <<RequestManyCalls, ManyNoResponders>>
inbox == <<replyCh, arrived, status, dropped, late>>
manyVars == <<phase, outcome, subscribed, inbox, collected, windowOver, ctxDone, manyCounters>>

ManyInit ==
    /\ phase = "idle" /\ outcome = "none"
    /\ subscribed = FALSE
    /\ replyCh = <<>> /\ collected = <<>>
    /\ windowOver = FALSE /\ ctxDone = FALSE
    /\ arrived = 0 /\ status = {} /\ dropped = {} /\ late = {}
    /\ RequestManyCalls = 0 /\ ManyNoResponders = 0

Ends(x) == phase' = "defer" /\ outcome' = x

-----------------------------------------------------------------------------
(* The call *)

\* ChanSubscribe on a fresh inbox; nothing is deferred yet when it fails.
Subscribe ==
    /\ phase = "idle"
    /\ RequestManyCalls' = RequestManyCalls + 1
    /\ \/ phase' = "publish" /\ subscribed' = TRUE /\ UNCHANGED outcome
       \/ phase' = "returned" /\ outcome' = "error" /\ UNCHANGED subscribed
    /\ UNCHANGED <<inbox, collected, windowOver, ctxDone, ManyNoResponders>>

\* Mutant: the inbox is unsubscribed only when the request went out.
Publish_LeavesInbox ==
    /\ phase = "publish"
    /\ \/ phase' = "select" /\ UNCHANGED <<outcome, ManyNoResponders>>
       \/ phase' = "returned" /\ outcome' = "error" /\ UNCHANGED ManyNoResponders
    /\ UNCHANGED <<subscribed, inbox, collected, windowOver, ctxDone, RequestManyCalls>>

\* PublishMsg; the window starts when it has succeeded.
Publish ==
    /\ phase = "publish"
    /\ \/ phase' = "select" /\ UNCHANGED <<outcome, ManyNoResponders>>
       \/ /\ Ends("no responders")
          /\ ManyNoResponders' = ManyNoResponders + 1
       \/ Ends("error") /\ UNCHANGED ManyNoResponders
    /\ UNCHANGED <<subscribed, inbox, collected, windowOver, ctxDone, RequestManyCalls>>

\* Mutant: a status reply is collected like any other.
Receive_KeepsStatus ==
    /\ phase = "select"
    /\ replyCh # <<>>
    /\ replyCh' = Tail(replyCh)
    /\ collected' = Append(collected, Head(replyCh))
    /\ IF maxReplies > 0 /\ Len(collected') >= maxReplies THEN Ends("ok") ELSE UNCHANGED <<phase, outcome>>
    /\ UNCHANGED <<subscribed, arrived, status, dropped, late, windowOver, ctxDone, manyCounters>>

\* Mutant: the cap is checked before the reply is added.
Receive_CapLate ==
    LET r == Head(replyCh) IN
    /\ phase = "select"
    /\ replyCh # <<>>
    /\ replyCh' = Tail(replyCh)
    /\ IF r \in status
       THEN UNCHANGED <<phase, outcome, collected>>
       ELSE /\ collected' = Append(collected, r)
            /\ IF maxReplies > 0 /\ Len(collected) >= maxReplies THEN Ends("ok") ELSE UNCHANGED <<phase, outcome>>
    /\ UNCHANGED <<subscribed, arrived, status, dropped, late, windowOver, ctxDone, manyCounters>>

\* Mutant: a "no responders" status ends the collection.
Receive_StatusEnds ==
    LET r == Head(replyCh) IN
    /\ phase = "select"
    /\ replyCh # <<>>
    /\ replyCh' = Tail(replyCh)
    /\ IF r \in status
       THEN Ends("ok") /\ UNCHANGED collected
       ELSE /\ collected' = Append(collected, r)
            /\ IF maxReplies > 0 /\ Len(collected') >= maxReplies THEN Ends("ok") ELSE UNCHANGED <<phase, outcome>>
    /\ UNCHANGED <<subscribed, arrived, status, dropped, late, windowOver, ctxDone, manyCounters>>

\* select takes a reply: a status is skipped, data is collected up to the cap.
Receive ==
    LET r == Head(replyCh) IN
    /\ phase = "select"
    /\ replyCh # <<>>
    /\ replyCh' = Tail(replyCh)
    /\ IF r \in status
       THEN UNCHANGED <<phase, outcome, collected>>
       ELSE /\ collected' = Append(collected, r)
            /\ IF maxReplies > 0 /\ Len(collected') >= maxReplies THEN Ends("ok") ELSE UNCHANGED <<phase, outcome>>
    /\ UNCHANGED <<subscribed, arrived, status, dropped, late, windowOver, ctxDone, manyCounters>>

\* select takes the timer, even when replies are waiting.
Window ==
    /\ phase = "select"
    /\ windowOver
    /\ Ends("ok")
    /\ UNCHANGED <<subscribed, inbox, collected, windowOver, ctxDone, manyCounters>>

\* select takes the context: what was collected is returned with its error.
Cancelled ==
    /\ phase = "select"
    /\ ctxDone
    /\ Ends("canceled")
    /\ UNCHANGED <<subscribed, inbox, collected, windowOver, ctxDone, manyCounters>>

\* The deferred Unsubscribe.  It fails only on a connection that is closed or
\* draining, where the subscription is gone too; the error is only logged.
Unsubscribe ==
    /\ phase = "defer"
    /\ subscribed' = FALSE
    /\ phase' = "returned"
    /\ UNCHANGED <<outcome, inbox, collected, windowOver, ctxDone, manyCounters>>

-----------------------------------------------------------------------------
(* Its environment *)

\* A reply reaches the inbox; one that meets a full channel is dropped.
Arrive ==
    /\ subscribed /\ phase \in {"select", "defer"}
    /\ arrived < MaxArrivals
    /\ arrived' = arrived + 1
    /\ \E isStatus \in BOOLEAN : status' = IF isStatus THEN status \cup {arrived'} ELSE status
    /\ IF Len(replyCh) < BufSize
       THEN replyCh' = Append(replyCh, arrived') /\ UNCHANGED dropped
       ELSE dropped' = dropped \cup {arrived'} /\ UNCHANGED replyCh
    /\ late' = IF windowOver THEN late \cup {arrived'} ELSE late
    /\ UNCHANGED <<phase, outcome, subscribed, collected, windowOver, ctxDone, manyCounters>>

TimerFires ==
    /\ phase = "select"
    /\ ~windowOver
    /\ windowOver' = TRUE
    /\ UNCHANGED <<phase, outcome, subscribed, inbox, collected, ctxDone, manyCounters>>

CtxEnds ==
    /\ ~ctxDone
    /\ ctxDone' = TRUE
    /\ UNCHANGED <<phase, outcome, subscribed, inbox, collected, windowOver, manyCounters>>

-----------------------------------------------------------------------------
ManyStep == Subscribe \/ Publish \/ Receive \/ Window \/ Cancelled \/ Unsubscribe

ManyNext == ManyStep \/ Arrive \/ TimerFires \/ CtxEnds

ManySpec == ManyInit /\ [][ManyNext]_manyVars

\* The goroutine runs and the timer fires; a reply need not come.
FairManySpec == ManySpec /\ WF_manyVars(ManyStep) /\ WF_manyVars(TimerFires)

-----------------------------------------------------------------------------
(* Properties *)

\* Every variable keeps its type and the channel its capacity.
ManyTypeOK ==
    /\ phase \in {"idle", "publish", "select", "defer", "returned"}
    /\ outcome \in {"none", "ok", "no responders", "error", "canceled"}
    /\ subscribed \in BOOLEAN /\ windowOver \in BOOLEAN /\ ctxDone \in BOOLEAN
    /\ replyCh \in Seq(Replies) /\ Len(replyCh) <= BufSize /\ collected \in Seq(Replies)
    /\ arrived \in 0..MaxArrivals
    /\ status \subseteq Replies /\ dropped \subseteq Replies /\ late \subseteq Replies
    /\ RequestManyCalls \in Nat /\ ManyNoResponders \in Nat

Rising(s) == \A i, j \in DOMAIN s : i < j => s[i] < s[j]

\* Collected and waiting replies together are the data replies that found room,
\* each once and in arrival order: nothing between them is lost, repeated or
\* overtaken, and no status is passed to the caller.
CollectedInOrder ==
    /\ Rising(collected) /\ Rising(replyCh)
    /\ \A r \in ToSet(collected), w \in ToSet(replyCh) : r < w
    /\ ToSet(collected) \cup (ToSet(replyCh) \ status) = (1..arrived) \ (status \cup dropped)

\* The caller's cap is never exceeded, however many replies wait.
CapHonoured == maxReplies > 0 => Len(collected) <= maxReplies

\* Without an error the call gives up its window only for a full cap: silence
\* and "no responders" statuses are waited out.
EarlyReturnMeansFull == outcome = "ok" /\ ~windowOver => maxReplies > 0 /\ Len(collected) = maxReplies

\* The call returns although no reply ever comes, and on every path, a failed
\* publish included, its temporary inbox is gone then (request.go:162).
CallReturns == phase # "idle" ~> phase = "returned" /\ ~subscribed

\* request.go:160-161, "collects every reply that arrives within the effective
\* window": when the window has closed an uncapped call, its result holds every
\* data reply that arrived before.
EveryReplyInWindow ==
    outcome = "ok" /\ maxReplies = 0 =>
        (1..arrived) \ (status \cup late) \subseteq ToSet(collected)
=============================================================================
