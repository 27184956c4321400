----------------------------- MODULE NoteBridge -----------------------------
(***************************************************************************)
(* soulstream/notebridge.go as the OnNote hook of an imp whose stream      *)
(* channel is StreamDelivery: awareness notes an op, the message is acked, *)
(* and the bridge posts the note as a comment on the dispatch goroutine.   *)
(* next and onErr are set (a nil one drops what it would be told) and may  *)
(* panic, which invokeNote catches.  The comment goes to another stream    *)
(* over the owner's library (external): it is posted, refused, or given up *)
(* on at noteTimeout, and is then posted late or never.                    *)
(***************************************************************************)
EXTENDS StreamDelivery

CONSTANT MaxPostFails  \* bound: posts that fail

ASSUME PostFailsNatural == MaxPostFails \in Nat
ASSUME NoteIsVerdict == "note" \in Verdicts

VARIABLES
    payload,  \* what the Note verdict in hand carries, or None
    hook,     \* the OnNote hook is running
    late,     \* message -> comments that were given up on and may yet be posted
    due,      \* message -> its notes less its comments (history, see Noting)
    heard,    \* messages whose note was posted, reported or passed on (history)
    lost,     \* messages whose note a crash took (history)
    fails     \* posts that failed so far (bound)

bridge == <<payload, hook, late, due, heard, lost, fails>>
noteVars == <<vars, bridge>>

\* A Noted with all its fields, one without, another type.
Payloads == {"noted", "malformed", "other"}
ASSUME NoneIsNoPayload == None \notin Payloads

\* More comments than this are never on their way and in hand together.
MaxDue == MaxPostFails + MaxFaults + 1

\* A note that makes a comment is counted, unless MaxDue are already to come: due
\* is never more than all notes less all comments.
Noting(m) == due' = [due EXCEPT ![m] = IF @ < MaxDue THEN @ + 1 ELSE @]
Posted(m) == due' = [due EXCEPT ![m] = @ - 1]
GivenUp(m) == late' = [late EXCEPT ![m] = @ + 1]

NoteInit ==
    /\ Init
    /\ payload = None
    /\ hook = FALSE
    /\ late = [m \in Msgs |-> 0]
    /\ due = [m \in Msgs |-> 0]
    /\ heard = {}
    /\ lost = {}
    /\ fails = 0

\* Awareness returns Note(p).
NoteVerdict(p) ==
    /\ Awareness("note")
    /\ payload' = p
    /\ IF p = "noted" THEN Noting(cur) ELSE UNCHANGED due
    /\ UNCHANGED <<hook, late, heard, lost, fails>>

\* The verdict branch counts the note and calls the hook.
CallOnNote ==
    /\ step = "verdict" /\ ~hook
    /\ Count({"NotesDelivered"})
    /\ hook' = TRUE
    /\ UNCHANGED <<consumer, wire, callback, history, faults, payload, late, due, heard, lost,
                   fails>>

\* The hook returns, or next or onErr has panicked, which is caught and counted.
HookReturns(panicked) ==
    /\ hook /\ hook' = FALSE /\ payload' = None /\ Done
    /\ Count(IF panicked THEN {"AwarenessPanics"} ELSE {})
    /\ notePanics' = IF panicked THEN Inc(notePanics) ELSE notePanics
    /\ UNCHANGED <<consumer, wire, buffer, aware, received, delivered, onSubject, faults>>

Heard == heard' = heard \cup {cur}

\* Not a Noted: next is called.
PassOn(panicked) ==
    /\ payload = "other"
    /\ HookReturns(panicked) /\ Heard
    /\ UNCHANGED <<late, due, lost, fails>>

\* A field or the entity is empty: onErr is told.
Malformed(panicked) ==
    /\ payload = "malformed"
    /\ HookReturns(panicked) /\ Heard
    /\ UNCHANGED <<late, due, lost, fails>>

PostFails == fails < MaxPostFails /\ fails' = fails + 1

\* Mutant: the comment is posted once more when the first attempt fails.
Outcome_Retries ==
    \/ Heard /\ Posted(cur) /\ UNCHANGED <<late, fails>>
    \/ PostFails /\ Heard /\ Posted(cur) /\ GivenUp(cur)

\* Mutant: the error of the post is dropped.
Outcome_Silent ==
    \/ Heard /\ Posted(cur) /\ UNCHANGED <<late, fails>>
    \/ PostFails /\ UNCHANGED <<due, late, heard>>

\* The post succeeds; or it fails, having been posted or not, or to be posted
\* later, and onErr is told.
Outcome ==
    /\ Heard
    /\ \/ Posted(cur) /\ UNCHANGED <<late, fails>>
       \/ PostFails /\ (Posted(cur) \/ UNCHANGED due) /\ UNCHANGED late
       \/ PostFails /\ GivenUp(cur) /\ UNCHANGED due

AddComment(panicked) ==
    /\ payload = "noted"
    /\ HookReturns(panicked)
    /\ Outcome
    /\ panicked => fails' # fails
    /\ UNCHANGED lost

LateComment(m) ==
    /\ late[m] > 0
    /\ late' = [late EXCEPT ![m] = @ - 1]
    /\ Posted(m)
    /\ UNCHANGED <<vars, payload, hook, heard, lost, fails>>

\* A crash takes the note awareness has decided on and the bridge has not
\* brought home; a comment on its way may arrive yet.
NoteCrash ==
    /\ Crash
    /\ payload' = None /\ hook' = FALSE
    /\ lost' = IF payload = None THEN lost ELSE lost \cup {cur}
    /\ (hook /\ payload = "noted" /\ GivenUp(cur)) \/ UNCHANGED late
    /\ UNCHANGED <<due, heard, fails>>

Dispatching ==
    \/ (Take \/ (\E failure \in Failures : Fails(failure)) \/ Ack) /\ UNCHANGED bridge
    \/ \E p \in Payloads : NoteVerdict(p)
    \/ CallOnNote
    \/ \E panicked \in BOOLEAN : PassOn(panicked) \/ Malformed(panicked) \/ AddComment(panicked)

NoteNext ==
    \/ (\E m \in Msgs : Consumer(m)) /\ UNCHANGED bridge
    \/ Dispatching
    \/ \E m \in Msgs : LateComment(m)
    \/ NoteCrash

\* The dispatch goroutine runs while there is a message: AddComment ends by
\* noteTimeout, and the user's decoder, extractor, awareness, next and onErr, on
\* which nothing puts a limit, are assumed to end.  What is sent and not lost
\* arrives; AckWait ends; a message that can go out again and again does.
NoteSpec ==
    /\ NoteInit /\ [][NoteNext]_noteVars
    /\ WF_noteVars(Dispatching)
    /\ \A m \in Msgs :
          /\ SF_noteVars(Deliver(m) /\ UNCHANGED bridge)
          /\ WF_noteVars(AckWaitExpires(m) /\ UNCHANGED bridge)
          /\ WF_noteVars(AckArrives(m) /\ UNCHANGED bridge)
          /\ WF_noteVars(NakArrives(m) /\ UNCHANGED bridge)

-----------------------------------------------------------------------------
(* Properties *)

\* The bridge posts a note once: over all deliveries of a message there are never
\* more comments than there were well-formed notes, late posts included.
PostsPerNote == \A m \in Msgs : due[m] >= 0

\* notebridge.go:32-37: although the message is acked before the bridge runs
\* and is then never redelivered, every message awareness can handle has its
\* note posted, reported to onErr or passed to next, unless a crash took it.
NoteHeard == \A m \in Msgs \ Poison : <>(m \in heard \cup lost)

-----------------------------------------------------------------------------
\* While the hook runs its Note is counted already; seen as a single step, the
\* verdict branch counts it when the hook returns.
Uncounted(n) == IF n = 0 THEN CounterMod - 1 ELSE n - 1
Pipeline == INSTANCE StreamDelivery WITH
    metrics <- IF hook THEN [metrics EXCEPT !["NotesDelivered"] = Uncounted(@)] ELSE metrics

\* An imp with the bridge is an imp: whatever the bridge does, the pipeline
\* with its consumer, its acks and its counters behaves as it does without.
ImplementsPipeline == Pipeline!Spec
=============================================================================
