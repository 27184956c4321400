--------------------------- MODULE RequestProofs ---------------------------
(***************************************************************************)
(* Proofs about RequestSingle for every finite set of concurrent calls,    *)
(* and about RequestMany for every cap, buffer and number of replies.      *)
(***************************************************************************)
EXTENDS RequestSingle, RequestMany, FiniteSetTheorems, TLAPS

-----------------------------------------------------------------------------
(* What makes the properties inductive *)

\* For TimeoutIsOurs: a deadline the caller's context does not
\* have can only come from the timeout, and a caller that ended the derived
\* context has the same error for good.
ErrorsExplained == \A c \in Calls :
    /\ err[c] \in {"canceled", "deadline"} => derived[c] = err[c]
    /\ ended[c] = "caller" => ctx[c] = derived[c]
    /\ ended[c] = "timeout" => derived[c] = "deadline"
    /\ derived[c] # "nil" <=> ended[c] # "none"
    /\ pc[c] = "deadline" => err[c] = "deadline"
    /\ pc[c] = "idle" => ended[c] = "none"
    /\ pc[c] \in {"idle", "wait"} => err[c] = "nil" /\ res[c] = "none"
    /\ pc[c] \in {"classify", "deadline"} => res[c] = "none"
IInv == TypeOK /\ TimeoutIsOurs /\ ErrorsExplained

\* For RequestMany: a call that still collects has room for a reply
\* and no result, and what waits, has a status or was dropped has arrived.
Collecting ==
    phase \in {"idle", "publish", "select"} =>
        outcome = "none" /\ (maxReplies > 0 => Len(collected) < maxReplies)
Numbered == ToSet(replyCh) \cup status \cup dropped \subseteq 1..arrived
ManyInv == ManyTypeOK /\ CollectedInOrder /\ CapHonoured /\ EarlyReturnMeansFull /\ Collecting /\ Numbered

-----------------------------------------------------------------------------
\* The initial states satisfy the inductive invariant.
LEMMA InitIInv == Init => IInv
BY DEF Init, IInv, TypeOK, Results, TimeoutIsOurs, ErrorsExplained

\* Every step of a call, and every end of one of its contexts, preserves it.
LEMMA NextIInv == IInv /\ [Next]_vars => IInv'
<1> SUFFICES ASSUME IInv, [Next]_vars PROVE IInv'
  OBVIOUS
<1> USE DEF IInv, Goto, Return, contexts, counters
<1>1. ASSUME NEW c \in Calls, Begin(c) PROVE IInv'
  <2>1. RequestCalls' \in Nat
    <3>1. RequestCalls \in Nat
      BY DEF TypeOK
    <3>2. RequestCalls' = RequestCalls + 1
      BY <1>1 DEF Begin
    <3> QED  BY <3>1, <3>2
  <2>2. /\ derived' \in [Calls -> {"nil", "canceled", "deadline"}]
        /\ ended' \in [Calls -> {"none", "caller", "timeout"}]
    BY <1>1 DEF Begin, TypeOK
  <2>3. TypeOK'
    BY <1>1, <2>1, <2>2 DEF Begin, TypeOK
  <2>4. TimeoutIsOurs'
    BY <1>1 DEF Begin, TypeOK, TimeoutIsOurs, ErrorsExplained
  <2>5. ErrorsExplained'
    BY <1>1 DEF Begin, TypeOK, ErrorsExplained
  <2> QED  BY <2>3, <2>4, <2>5
<1>2. ASSUME NEW c \in Calls, Replied(c) PROVE IInv'
  <2>1. TypeOK'
    BY <1>2 DEF Replied, TypeOK, Results
  <2>2. TimeoutIsOurs'
    BY <1>2 DEF Replied, TypeOK, TimeoutIsOurs, ErrorsExplained
  <2>3. ErrorsExplained'
    BY <1>2 DEF Replied, TypeOK, ErrorsExplained
  <2> QED  BY <2>1, <2>2, <2>3
<1>3. ASSUME NEW c \in Calls, RequestFails(c) PROVE IInv'
  <2>1. TypeOK'
    BY <1>3 DEF RequestFails, TypeOK
  <2>2. TimeoutIsOurs'
    BY <1>3 DEF RequestFails, TimeoutIsOurs
  <2>3. PICK e \in {"no responders", "substrate"} : err' = [err EXCEPT ![c] = e]
    BY <1>3 DEF RequestFails
  <2>4. ErrorsExplained'
    BY <1>3, <2>3 DEF RequestFails, TypeOK, ErrorsExplained
  <2> QED  BY <2>1, <2>2, <2>4
<1>4. ASSUME NEW c \in Calls, RequestEnded(c) PROVE IInv'
  <2>1. TypeOK'
    BY <1>4 DEF RequestEnded, TypeOK
  <2>2. TimeoutIsOurs'
    BY <1>4 DEF RequestEnded, TimeoutIsOurs
  <2>3. ErrorsExplained'
    BY <1>4 DEF RequestEnded, TypeOK, ErrorsExplained
  <2> QED  BY <2>1, <2>2, <2>3
<1>5. ASSUME NEW c \in Calls, Classify(c) PROVE IInv'
  <2>1. pc[c] = "classify" /\ UNCHANGED <<ctx, derived, ended, err, RequestCalls, RequestTimeouts>>
    BY <1>5 DEF Classify
  <2>2. RequestNoResponders' \in Nat
    <3>1. RequestNoResponders \in Nat
      BY DEF TypeOK
    <3>2. UNCHANGED RequestNoResponders \/ RequestNoResponders' = RequestNoResponders + 1
      BY <1>5 DEF Classify
    <3> QED  BY <3>1, <3>2
  <2>3. CASE /\ pc' = [pc EXCEPT ![c] = "deadline"]
             /\ err[c] = "deadline"
             /\ UNCHANGED res
    <3>1. TypeOK'
      BY <2>1, <2>2, <2>3 DEF TypeOK
    <3>2. TimeoutIsOurs'
      BY <2>1, <2>3 DEF TimeoutIsOurs
    <3>3. ErrorsExplained'
      BY <2>1, <2>3 DEF TypeOK, ErrorsExplained
    <3> QED  BY <3>1, <3>2, <3>3
  <2>4. ASSUME NEW r \in {"ErrNoResponders", "canceled", "substrate"},
               pc' = [pc EXCEPT ![c] = "returned"],
               res' = [res EXCEPT ![c] = r]
        PROVE  IInv'
    <3>1. TypeOK'
      BY <2>1, <2>2, <2>4 DEF TypeOK, Results
    <3>2. TimeoutIsOurs'
      BY <2>1, <2>4 DEF TypeOK, TimeoutIsOurs
    <3>3. ErrorsExplained'
      BY <2>1, <2>4 DEF TypeOK, ErrorsExplained
    <3> QED  BY <3>1, <3>2, <3>3
  <2>5. \/ /\ pc' = [pc EXCEPT ![c] = "deadline"]
           /\ err[c] = "deadline"
           /\ UNCHANGED res
        \/ \E r \in {"ErrNoResponders", "canceled", "substrate"} :
              /\ pc' = [pc EXCEPT ![c] = "returned"]
              /\ res' = [res EXCEPT ![c] = r]
    BY <1>5, Zenon DEF Classify
  <2> QED  BY <2>3, <2>4, <2>5
<1>6. ASSUME NEW c \in Calls, Deadline(c) PROVE IInv'
  <2>1. /\ pc[c] = "deadline"
        /\ pc' = [pc EXCEPT ![c] = "returned"]
        /\ UNCHANGED <<ctx, derived, ended, err, RequestCalls, RequestNoResponders>>
    BY <1>6 DEF Deadline
  <2>2. RequestTimeouts' \in Nat
    <3>1. RequestTimeouts \in Nat
      BY DEF TypeOK
    <3>2. UNCHANGED RequestTimeouts \/ RequestTimeouts' = RequestTimeouts + 1
      BY <1>6 DEF Deadline
    <3> QED  BY <3>1, <3>2
  <2>3. CASE res' = [res EXCEPT ![c] = "caller deadline"]
    <3>1. TypeOK'
      BY <2>1, <2>2, <2>3 DEF TypeOK, Results
    <3>2. TimeoutIsOurs'
      BY <2>1, <2>3 DEF TypeOK, TimeoutIsOurs
    <3>3. ErrorsExplained'
      BY <2>1, <2>3 DEF TypeOK, ErrorsExplained
    <3> QED  BY <3>1, <3>2, <3>3
  <2>4. CASE ctx[c] # "deadline" /\ res' = [res EXCEPT ![c] = "ErrRequestTimeout"]
    \* the caller's context cannot have ended the derived one with a deadline
    <3>1. ended[c] = "timeout"
      <4>1. derived[c] = "deadline"
        BY <2>1 DEF ErrorsExplained
      <4>2. ended[c] # "none" /\ ended[c] # "caller"
        BY <4>1, <2>4 DEF ErrorsExplained
      <4> QED  BY <4>2 DEF TypeOK
    <3>2. TypeOK'
      BY <2>1, <2>2, <2>4 DEF TypeOK, Results
    <3>3. TimeoutIsOurs'
      BY <2>1, <2>4, <3>1 DEF TypeOK, TimeoutIsOurs
    <3>4. ErrorsExplained'
      BY <2>1, <2>4 DEF TypeOK, ErrorsExplained
    <3> QED  BY <3>2, <3>3, <3>4, SMTT(40)
  <2> QED  BY <1>6, <2>3, <2>4 DEF Deadline
<1>7. ASSUME NEW c \in Calls, NEW why \in {"canceled", "deadline"}, CallerEnds(c, why) PROVE IInv'
  <2>1. /\ ctx[c] = "nil"
        /\ ctx' = [ctx EXCEPT ![c] = why]
        /\ UNCHANGED <<pc, err, res, RequestCalls, RequestNoResponders, RequestTimeouts>>
    BY <1>7 DEF CallerEnds
  <2>2. CASE /\ Live(c)
             /\ derived' = [derived EXCEPT ![c] = why]
             /\ ended' = [ended EXCEPT ![c] = "caller"]
    <3>1. TypeOK'
      BY <2>1, <2>2 DEF TypeOK
    <3>2. TimeoutIsOurs'
      BY <2>1, <2>2 DEF Live, TypeOK, TimeoutIsOurs, ErrorsExplained
    <3>3. ErrorsExplained'
      BY <2>1, <2>2 DEF Live, TypeOK, ErrorsExplained
    <3> QED  BY <3>1, <3>2, <3>3
  <2>3. CASE UNCHANGED <<derived, ended>>
    <3>1. TypeOK'
      BY <2>1, <2>3 DEF TypeOK
    <3>2. TimeoutIsOurs'
      BY <2>1, <2>3 DEF TimeoutIsOurs
    <3>3. ended[c] # "caller"
      BY <2>1 DEF ErrorsExplained
    <3>4. ErrorsExplained'
      BY <2>1, <2>3, <3>3 DEF TypeOK, ErrorsExplained
    <3> QED  BY <3>1, <3>2, <3>4
  <2> QED  BY <1>7, <2>2, <2>3 DEF CallerEnds
<1>8. ASSUME NEW c \in Calls, Timeout(c) PROVE IInv'
  <2>1. TypeOK'
    BY <1>8 DEF Timeout, TypeOK
  <2>2. TimeoutIsOurs'
    BY <1>8 DEF Timeout, TypeOK, TimeoutIsOurs
  <2>3. ErrorsExplained'
    BY <1>8 DEF Timeout, Live, TypeOK, ErrorsExplained
  <2> QED  BY <2>1, <2>2, <2>3
<1>9. CASE UNCHANGED vars
  BY <1>9 DEF vars, TypeOK, TimeoutIsOurs, ErrorsExplained
<1> QED  BY <1>1, <1>2, <1>3, <1>4, <1>5, <1>6, <1>7, <1>8, <1>9 DEF Next, Step

\* The inductive invariant holds of every behaviour: every error a request ends
\* with is that of the context that ended it.
THEOREM RequestInvariant == Spec => []IInv
BY InitIInv, NextIInv, PTL DEF Spec

\* However many requests run at once and whichever context ends when, the
\* framework reports its own timeout only when that ended the request.
THEOREM RequestTimeoutIsOurs == Spec => []TimeoutIsOurs
<1>1. IInv => TimeoutIsOurs
  BY DEF IInv
<1> QED  BY <1>1, RequestInvariant, PTL

-----------------------------------------------------------------------------
(* The counters *)

\* A result, once given, is counted in the set of its result and in no other.
LEMMA ResultSet ==
    ASSUME TypeOK, NEW c \in Calls, NEW x, res[c] = "none", res' = [res EXCEPT ![c] = x],
           NEW r \in {"ErrRequestTimeout", "ErrNoResponders"}
    PROVE  With(r)' = IF x = r THEN With(r) + 1 ELSE With(r)
<1> DEFINE S == {d \in Calls : res[d] = r}
           T == {d \in Calls : res'[d] = r}
<1>1. IsFiniteSet(S) /\ c \notin S
  BY CallsFinite, FS_Subset
<1>2. T = IF x = r THEN S \cup {c} ELSE S
  BY DEF TypeOK
<1>3. Cardinality(S \cup {c}) = Cardinality(S) + 1
  BY <1>1, FS_AddElement
<1> QED  BY <1>2, <1>3 DEF With

\* No step that gives no result changes what was given.
LEMMA SameResults == ASSUME UNCHANGED res PROVE \A r : With(r)' = With(r)
BY DEF With

\* A call that is under way stays so.
LEMMA SameBegun ==
    ASSUME TypeOK, NEW c \in Calls, pc[c] # "idle", NEW l, l # "idle", pc' = [pc EXCEPT ![c] = l]
    PROVE  {d \in Calls : pc'[d] # "idle"} = {d \in Calls : pc[d] # "idle"}
BY DEF TypeOK

\* A call returns with a result that is counted, or with another.
LEMMA ReturnCounts ==
    ASSUME IInv, CountersAgree, NEW c \in Calls, NEW x, Return(c, x),
           pc[c] = "wait" \/ pc[c] = "classify" \/ pc[c] = "deadline",
           UNCHANGED RequestCalls,
           \/ /\ x = "ErrRequestTimeout"
              /\ RequestTimeouts' = RequestTimeouts + 1 /\ UNCHANGED RequestNoResponders
           \/ /\ x = "ErrNoResponders"
              /\ RequestNoResponders' = RequestNoResponders + 1 /\ UNCHANGED RequestTimeouts
           \/ /\ x # "ErrRequestTimeout" /\ x # "ErrNoResponders"
              /\ UNCHANGED <<RequestTimeouts, RequestNoResponders>>
    PROVE  CountersAgree'
<1> USE DEF IInv
<1>1. res[c] = "none" /\ res' = [res EXCEPT ![c] = x]
  BY DEF Return, ErrorsExplained
<1>2. {d \in Calls : pc'[d] # "idle"} = {d \in Calls : pc[d] # "idle"}
  BY SameBegun DEF Return, Goto
<1>3. /\ With("ErrRequestTimeout")' =
           IF x = "ErrRequestTimeout" THEN With("ErrRequestTimeout") + 1 ELSE With("ErrRequestTimeout")
      /\ With("ErrNoResponders")' =
           IF x = "ErrNoResponders" THEN With("ErrNoResponders") + 1 ELSE With("ErrNoResponders")
  BY <1>1, ResultSet
<1> QED  BY <1>2, <1>3 DEF CountersAgree

LEMMA CountersStep == ASSUME IInv, CountersAgree, [Next]_vars PROVE CountersAgree'
<1> USE DEF IInv
<1> DEFINE Begun == {d \in Calls : pc[d] # "idle"}
<1>1. ASSUME NEW c \in Calls, Begin(c) PROVE CountersAgree'
  <2>1. IsFiniteSet(Begun) /\ c \notin Begun
    BY <1>1, CallsFinite, FS_Subset DEF Begin
  <2>2. {d \in Calls : pc'[d] # "idle"} = Begun \cup {c}
    BY <1>1 DEF Begin, Goto, TypeOK
  <2>3. Cardinality(Begun \cup {c}) = Cardinality(Begun) + 1
    BY <2>1, FS_AddElement
  <2>4. UNCHANGED <<RequestTimeouts, RequestNoResponders>> /\ RequestCalls' = RequestCalls + 1
        /\ \A r : With(r)' = With(r)
    BY <1>1, SameResults DEF Begin
  <2> QED  BY <2>2, <2>3, <2>4 DEF CountersAgree
<1>2. ASSUME UNCHANGED <<res, counters>>,
             {d \in Calls : pc'[d] # "idle"} = {d \in Calls : pc[d] # "idle"}
      PROVE  CountersAgree'
  BY <1>2, SameResults DEF CountersAgree, counters
<1>3. ASSUME NEW c \in Calls, Replied(c) PROVE CountersAgree'
  BY <1>3, ReturnCounts DEF Replied, counters
<1>4. ASSUME NEW c \in Calls, RequestFails(c) \/ RequestEnded(c) PROVE CountersAgree'
  <2>1. UNCHANGED <<res, counters>> /\ pc' = [pc EXCEPT ![c] = "classify"] /\ pc[c] = "wait"
    BY <1>4 DEF RequestFails, RequestEnded, Goto
  <2> QED  BY <1>2, <2>1, SameBegun
<1>5. ASSUME NEW c \in Calls, Classify(c) PROVE CountersAgree'
  <2>1. pc[c] = "classify" /\ UNCHANGED <<RequestCalls, RequestTimeouts>>
    BY <1>5 DEF Classify
  <2>2. CASE Return(c, "ErrNoResponders") /\ RequestNoResponders' = RequestNoResponders + 1
    BY <2>1, <2>2, ReturnCounts
  <2>3. ASSUME NEW x \in {"canceled", "substrate"}, Return(c, x), UNCHANGED RequestNoResponders
        PROVE  CountersAgree'
    BY <2>1, <2>3, ReturnCounts
  <2>4. CASE Goto(c, "deadline") /\ UNCHANGED <<res, RequestNoResponders>>
    <3>1. {d \in Calls : pc'[d] # "idle"} = {d \in Calls : pc[d] # "idle"}
      BY <2>1, <2>4, SameBegun DEF Goto
    <3> QED  BY <1>2, <2>1, <2>4, <3>1 DEF counters
  <2> QED  BY <1>5, <2>2, <2>3, <2>4 DEF Classify
<1>6. ASSUME NEW c \in Calls, Deadline(c) PROVE CountersAgree'
  <2>1. pc[c] = "deadline" /\ UNCHANGED <<RequestCalls, RequestNoResponders>>
    BY <1>6 DEF Deadline
  <2>2. CASE Return(c, "caller deadline") /\ UNCHANGED RequestTimeouts
    BY <2>1, <2>2, ReturnCounts
  <2>3. CASE Return(c, "ErrRequestTimeout") /\ RequestTimeouts' = RequestTimeouts + 1
    BY <2>1, <2>3, ReturnCounts
  <2> QED  BY <1>6, <2>2, <2>3 DEF Deadline
<1>7. ASSUME NEW c \in Calls, NEW why, CallerEnds(c, why) \/ Timeout(c) PROVE CountersAgree'
  BY <1>2, <1>7 DEF CallerEnds, Timeout
<1>8. CASE UNCHANGED vars
  BY <1>2, <1>8 DEF vars
<1> QED  BY <1>1, <1>3, <1>4, <1>5, <1>6, <1>7, <1>8 DEF Next, Step

\* However many calls overlap, and whichever contexts end, the counters of the
\* metrics are the numbers of calls begun, and of ErrRequestTimeout and
\* ErrNoResponders returned.
THEOREM RequestCountersAgree == Spec => []CountersAgree
<1>1. Init => CountersAgree
  <2> SUFFICES ASSUME Init PROVE CountersAgree
    OBVIOUS
  <2>1. {c \in Calls : pc[c] # "idle"} = {} /\ {c \in Calls : res[c] = "ErrRequestTimeout"} = {}
        /\ {c \in Calls : res[c] = "ErrNoResponders"} = {}
    BY DEF Init
  <2> QED  BY <2>1, FS_EmptySet DEF Init, CountersAgree, With
<1>2. IInv /\ CountersAgree /\ [Next]_vars => CountersAgree'
  BY CountersStep
<1> QED  BY <1>1, <1>2, RequestInvariant, PTL DEF Spec

-----------------------------------------------------------------------------
(* RequestMany *)

\* The replies collected and waiting, and the order and numbers they have.
LEMMA ManyMembers == ASSUME NEW s PROVE \A x : x \in ToSet(s) <=> \E i \in DOMAIN s : x = s[i]
BY DEF ToSet

LEMMA ManyFrame ==
    ASSUME CollectedInOrder, Numbered,
           UNCHANGED <<collected, replyCh, arrived, status, dropped>>
    PROVE  CollectedInOrder' /\ Numbered'
BY DEF CollectedInOrder, Numbered, Rising, ToSet

\* A reply taken from the channel is less than all that wait behind it.
LEMMA ManyTake ==
    ASSUME NEW S, NEW s \in Seq(S), s # << >>, Rising(s), S \subseteq Int
    PROVE  /\ Tail(s) \in Seq(S) /\ Head(s) \in S /\ Rising(Tail(s))
           /\ ToSet(s) = {Head(s)} \cup ToSet(Tail(s))
           /\ \A x \in ToSet(Tail(s)) : Head(s) < x
<1>1. /\ Tail(s) \in Seq(S) /\ Head(s) \in S /\ Head(s) = s[1] /\ Len(s) \in Nat /\ Len(s) > 0
      /\ Len(Tail(s)) = Len(s) - 1 /\ DOMAIN s = 1..Len(s) /\ DOMAIN Tail(s) = 1..(Len(s) - 1)
  OBVIOUS
<1>2. \A i \in 1..(Len(s) - 1) : Tail(s)[i] = s[i + 1] /\ i + 1 \in DOMAIN s
  BY <1>1
<1>3. Rising(Tail(s))
  BY <1>1, <1>2 DEF Rising
<1>4. \A x \in ToSet(Tail(s)) : Head(s) < x
  BY <1>1, <1>2 DEF Rising, ToSet
<1>5. ASSUME NEW x PROVE x \in ToSet(s) <=> x = Head(s) \/ x \in ToSet(Tail(s))
  <2>1. ASSUME NEW i \in DOMAIN s, x = s[i] PROVE x = Head(s) \/ x \in ToSet(Tail(s))
    <3>1. CASE i = 1
      BY <1>1, <2>1, <3>1
    <3>2. CASE i # 1
      <4>1. i - 1 \in 1..(Len(s) - 1) /\ Tail(s)[i - 1] = s[i]
        BY <1>1, <1>2, <2>1, <3>2
      <4> QED  BY <1>1, <2>1, <4>1, ManyMembers
    <3> QED  BY <3>1, <3>2
  <2>2. ASSUME x = Head(s) \/ x \in ToSet(Tail(s)) PROVE x \in ToSet(s)
    <3>1. CASE x = Head(s)
      BY <1>1, <3>1, ManyMembers
    <3>2. CASE x \in ToSet(Tail(s))
      <4>1. PICK i \in 1..(Len(s) - 1) : x = Tail(s)[i]
        <5>1. \E i \in DOMAIN Tail(s) : x = Tail(s)[i]
          BY <3>2 DEF ToSet
        <5> QED  BY <1>1, <5>1
      <4>2. x = s[i + 1] /\ i + 1 \in DOMAIN s
        BY <1>2, <4>1
      <4> QED  BY <4>2, ManyMembers
    <3> QED  BY <2>2, <3>1, <3>2
  <2> QED  BY <2>1, <2>2, ManyMembers
<1> QED  BY <1>1, <1>3, <1>4, <1>5

\* A reply added to those that are all less than it.
LEMMA ManyAdd ==
    ASSUME NEW s \in Seq(Replies), NEW r \in Replies, Rising(s),
           Replies \subseteq Int,
           \A x \in ToSet(s) : x < r
    PROVE  /\ Append(s, r) \in Seq(Replies) /\ Rising(Append(s, r))
           /\ Len(Append(s, r)) = Len(s) + 1
           /\ ToSet(Append(s, r)) = ToSet(s) \cup {r}
<1> DEFINE t == Append(s, r)
<1>1. /\ t \in Seq(Replies) /\ Len(t) = Len(s) + 1 /\ Len(s) \in Nat
      /\ DOMAIN s = 1..Len(s) /\ DOMAIN t = 1..(Len(s) + 1)
  OBVIOUS
<1>2. t[Len(s) + 1] = r /\ \A i \in 1..Len(s) : t[i] = s[i]
  OBVIOUS
<1> HIDE DEF t
<1>3. \A i \in 1..Len(s) : s[i] < r
  BY <1>1 DEF ToSet
<1>4. Rising(t)
  BY <1>1, <1>2, <1>3 DEF Rising
<1>5. ASSUME NEW x PROVE x \in ToSet(t) <=> x \in ToSet(s) \/ x = r
  <2>1. x \in ToSet(t) => x \in ToSet(s) \/ x = r
    BY <1>1, <1>2, ManyMembers
  <2>2. x \in ToSet(s) \/ x = r => x \in ToSet(t)
    BY <1>1, <1>2, ManyMembers
  <2> QED  BY <2>1, <2>2
<1>6. ToSet(t) = ToSet(s) \cup {r}
  BY <1>5
<1> QED  BY <1>1, <1>4, <1>6 DEF t

\* The types of the inbox and of what was collected.
ManyInbox ==
    /\ replyCh \in Seq(Replies) /\ Len(replyCh) <= BufSize /\ collected \in Seq(Replies)
    /\ arrived \in 0..MaxArrivals
    /\ status \subseteq Replies /\ dropped \subseteq Replies /\ late \subseteq Replies

LEMMA ManyTypes ==
    ASSUME ManyInv
    PROVE  /\ Replies \subseteq Int /\ BufSize \in Nat /\ ManyInbox
           /\ Len(replyCh) \in Nat /\ Len(collected) \in Nat /\ arrived \in Int
<1>1. Replies \subseteq Int
  BY RepliesNatural DEF Replies
<1>2. BufSize \in Nat
  BY CapNatural, BufferPositive DEF BufSize
<1>3. ManyInbox
  BY DEF ManyInv, ManyTypeOK, ManyInbox
<1>4. Len(replyCh) \in Nat /\ Len(collected) \in Nat
  BY <1>3 DEF ManyInbox
<1>5. arrived \in Int
  BY <1>3, RepliesNatural DEF ManyInbox
<1> QED  BY <1>1, <1>2, <1>3, <1>4, <1>5

LEMMA ManyInboxFrame ==
    ASSUME ManyInv, UNCHANGED <<replyCh, collected, arrived, status, dropped, late>>
    PROVE  ManyInbox' /\ CollectedInOrder' /\ Numbered'
<1>1. ManyInbox'
  BY DEF ManyInv, ManyTypeOK, ManyInbox
<1> QED  BY <1>1, ManyFrame DEF ManyInv

\* A step before the collection begins, or that ends it.
LEMMA ManyControl ==
    ASSUME ManyInv,
           Subscribe \/ Publish \/ Window \/ Cancelled \/ Unsubscribe
    PROVE  ManyInv'
<1> USE DEF inbox, manyCounters, Ends
<1>1. UNCHANGED <<replyCh, collected, arrived, status, dropped, late, windowOver, ctxDone>>
  BY DEF Subscribe, Publish, Window, Cancelled, Unsubscribe
<1>2. ManyInbox' /\ CollectedInOrder' /\ Numbered'
  BY <1>1, ManyInboxFrame
<1>3. /\ phase' \in {"idle", "publish", "select", "defer", "returned"}
      /\ outcome' \in {"none", "ok", "no responders", "error", "canceled"}
  BY DEF ManyInv, ManyTypeOK, Subscribe, Publish, Window, Cancelled, Unsubscribe
<1>4. subscribed' \in BOOLEAN
  <2>1. subscribed' = subscribed \/ subscribed' = TRUE \/ subscribed' = FALSE
    BY DEF Subscribe, Publish, Window, Cancelled, Unsubscribe
  <2> QED  BY <2>1 DEF ManyInv, ManyTypeOK
<1>5. windowOver' \in BOOLEAN /\ ctxDone' \in BOOLEAN
  BY <1>1 DEF ManyInv, ManyTypeOK
<1>6. RequestManyCalls' \in Nat /\ ManyNoResponders' \in Nat
  <2>1. RequestManyCalls \in Nat /\ ManyNoResponders \in Nat
    BY DEF ManyInv, ManyTypeOK
  <2>2. /\ RequestManyCalls' = RequestManyCalls \/ RequestManyCalls' = RequestManyCalls + 1
        /\ ManyNoResponders' = ManyNoResponders \/ ManyNoResponders' = ManyNoResponders + 1
    BY DEF Subscribe, Publish, Window, Cancelled, Unsubscribe
  <2> QED  BY <2>1, <2>2
<1>7. ManyTypeOK'
  BY <1>2, <1>3, <1>4, <1>5, <1>6 DEF ManyTypeOK, ManyInbox
<1>8. CapHonoured'
  BY <1>1 DEF ManyInv, CapHonoured
<1>9. Collecting'
  BY <1>1 DEF ManyInv, Collecting, Subscribe, Publish, Window, Cancelled,
              Unsubscribe
<1>10. EarlyReturnMeansFull'
  <2>1. outcome' = "ok" => windowOver \/ outcome = "ok"
    BY DEF Subscribe, Publish, Window, Cancelled, Unsubscribe
  <2> QED  BY <1>1, <2>1 DEF ManyInv, EarlyReturnMeansFull
<1> QED  BY <1>2, <1>7, <1>8, <1>9, <1>10 DEF ManyInv

\* The timer and the context end.
LEMMA ManyEnds ==
    ASSUME ManyInv, TimerFires \/ CtxEnds \/ UNCHANGED manyVars
    PROVE  ManyInv'
<1> USE DEF inbox, manyCounters, manyVars
<1>1. /\ UNCHANGED <<replyCh, collected, arrived, status, dropped, late>>
      /\ UNCHANGED <<phase, outcome, RequestManyCalls, ManyNoResponders>>
  BY DEF TimerFires, CtxEnds
<1>2. subscribed' \in BOOLEAN
  BY DEF TimerFires, CtxEnds, ManyInv, ManyTypeOK
<1>3. windowOver' \in BOOLEAN /\ (windowOver => windowOver')
  BY DEF TimerFires, CtxEnds, ManyInv, ManyTypeOK
<1>4. ctxDone' \in BOOLEAN
  BY DEF TimerFires, CtxEnds, ManyInv, ManyTypeOK
<1>5. ManyInbox' /\ CollectedInOrder' /\ Numbered'
  BY <1>1, ManyInboxFrame
<1>6. ManyTypeOK'
  BY <1>1, <1>2, <1>3, <1>4, <1>5 DEF ManyInv, ManyTypeOK, ManyInbox
<1>7. CapHonoured' /\ Collecting'
  BY <1>1 DEF ManyInv, CapHonoured, Collecting
<1>8. EarlyReturnMeansFull'
  BY <1>1, <1>3 DEF ManyInv, EarlyReturnMeansFull
<1> QED  BY <1>5, <1>6, <1>7, <1>8 DEF ManyInv

\* The channel is drained by one; what is collected is the next data reply.
LEMMA ManyReceive == ASSUME ManyInv, Receive PROVE ManyInv'
<1> DEFINE r == Head(replyCh)
<1>1. /\ phase = "select" /\ replyCh # << >> /\ replyCh' = Tail(replyCh)
      /\ UNCHANGED <<subscribed, arrived, status, dropped, late, windowOver, ctxDone>>
      /\ UNCHANGED <<RequestManyCalls, ManyNoResponders>>
  BY DEF Receive, manyCounters
<1>2. Replies \subseteq Int /\ MaxArrivals \in Nat
  BY RepliesNatural DEF Replies
<1>3. /\ replyCh \in Seq(Replies) /\ collected \in Seq(Replies)
      /\ Len(replyCh) <= BufSize /\ BufSize \in Nat /\ Len(collected) \in Nat
  BY ManyTypes DEF ManyInbox
<1>4. /\ Rising(collected) /\ Rising(replyCh)
      /\ \A x \in ToSet(collected), w \in ToSet(replyCh) : x < w
      /\ ToSet(collected) \cup (ToSet(replyCh) \ status) = (1..arrived) \ (status \cup dropped)
      /\ ToSet(replyCh) \cup status \cup dropped \subseteq 1..arrived
  BY DEF ManyInv, CollectedInOrder, Numbered
<1>5. /\ replyCh' \in Seq(Replies) /\ r \in Replies /\ Rising(replyCh')
      /\ ToSet(replyCh) = {r} \cup ToSet(replyCh')
      /\ \A x \in ToSet(replyCh') : r < x
  BY <1>1, <1>2, <1>3, <1>4, ManyTake
<1>6. Len(replyCh') <= BufSize
  BY <1>1, <1>3
<1> HIDE DEF r
<1>7. Numbered'
  BY <1>1, <1>4, <1>5 DEF Numbered
<1>8. /\ phase' \in {"select", "defer"} /\ outcome' \in {"none", "ok"} /\ (phase' = "select" => outcome' = "none")
      /\ outcome = "none"
  BY <1>1 DEF Receive, Ends, ManyInv, Collecting
<1>9. CASE r \in status
  <2>1. UNCHANGED <<phase, outcome, collected>>
    BY <1>9 DEF Receive, r
  <2>2. CollectedInOrder'
    BY <1>1, <1>4, <1>5, <1>9, <2>1 DEF CollectedInOrder
  <2>3. ManyTypeOK'
    <3>1. ManyInbox'
      BY <1>1, <1>3, <1>5, <1>6, <2>1 DEF ManyInbox, ManyInv, ManyTypeOK
    <3> QED  BY <1>1, <2>1, <3>1 DEF ManyInbox, ManyInv, ManyTypeOK
  <2>4. CapHonoured' /\ Collecting'
    BY <2>1 DEF ManyInv, CapHonoured, Collecting
  <2>5. EarlyReturnMeansFull'
    BY <1>8, <2>1 DEF EarlyReturnMeansFull
  <2> QED  BY <1>7, <2>2, <2>3, <2>4, <2>5 DEF ManyInv
<1>10. CASE r \notin status
  <2>1. /\ collected' = Append(collected, r)
        /\ IF maxReplies > 0 /\ Len(collected') >= maxReplies THEN Ends("ok")
           ELSE UNCHANGED <<phase, outcome>>
    BY <1>10 DEF Receive, r
  <2>2. /\ collected' \in Seq(Replies) /\ Rising(collected')
        /\ Len(collected') = Len(collected) + 1
        /\ ToSet(collected') = ToSet(collected) \cup {r}
    <3>1. \A x \in ToSet(collected) : x < r
      BY <1>4, <1>5
    <3>2. /\ Append(collected, r) \in Seq(Replies) /\ Rising(Append(collected, r))
          /\ Len(Append(collected, r)) = Len(collected) + 1
          /\ ToSet(Append(collected, r)) = ToSet(collected) \cup {r}
      BY <1>2, <1>3, <1>4, <1>5, <3>1, ManyAdd
    <3> QED  BY <2>1, <3>2
  <2>3. CollectedInOrder'
    <3>1. \A x \in ToSet(collected'), w \in ToSet(replyCh') : x < w
      BY <1>4, <1>5, <2>2
    <3>2. ToSet(collected') \cup (ToSet(replyCh') \ status')
            = (1..arrived') \ (status' \cup dropped')
      BY <1>1, <1>4, <1>5, <1>10, <2>2
    <3> QED  BY <1>5, <2>2, <3>1, <3>2 DEF CollectedInOrder
  <2>4. ManyTypeOK'
    <3>1. ManyInbox'
      BY <1>1, <1>3, <1>5, <1>6, <2>2 DEF ManyInbox, ManyInv, ManyTypeOK
    <3> QED  BY <1>1, <1>8, <3>1 DEF ManyInbox, ManyInv, ManyTypeOK
  <2>5. maxReplies > 0 => Len(collected) < maxReplies
    BY <1>1 DEF ManyInv, Collecting
  <2>6. CapHonoured'
    BY <1>3, <2>2, <2>5, CapNatural DEF CapHonoured
  <2>7. Collecting'
    BY <1>1, <1>3, <1>8, <2>1, <2>2, CapNatural DEF Collecting, Ends
  <2>8. EarlyReturnMeansFull'
    BY <1>3, <1>8, <2>1, <2>2, <2>5, CapNatural DEF EarlyReturnMeansFull
  <2> QED  BY <1>7, <2>3, <2>4, <2>6, <2>7, <2>8 DEF ManyInv
<1> QED  BY <1>9, <1>10

\* The next reply reaches the inbox: its number is greater than all before.
LEMMA ManyArrive == ASSUME ManyInv, Arrive PROVE ManyInv'
<1> DEFINE n == arrived + 1
<1>1. /\ arrived < MaxArrivals /\ arrived' = n
      /\ status' = status \/ status' = status \cup {n}
      /\ late' = late \/ late' = late \cup {n}
      /\ UNCHANGED <<phase, outcome, subscribed, collected, windowOver, ctxDone>>
      /\ UNCHANGED <<RequestManyCalls, ManyNoResponders>>
  BY DEF Arrive, manyCounters
<1>2. \/ Len(replyCh) < BufSize /\ replyCh' = Append(replyCh, n) /\ dropped' = dropped
      \/ replyCh' = replyCh /\ dropped' = dropped \cup {n}
  BY DEF Arrive
<1>3. Replies \subseteq Int /\ MaxArrivals \in Nat /\ arrived \in Int /\ arrived \in 0..MaxArrivals
  BY ManyTypes, RepliesNatural DEF ManyInbox
<1>4. n \in Replies /\ n \in Int /\ n \in 0..MaxArrivals /\ 1..n = (1..arrived) \cup {n}
      /\ n \notin 1..arrived /\ \A x \in 1..arrived : x < n
  BY <1>1, <1>3 DEF Replies
<1>5. /\ replyCh \in Seq(Replies) /\ collected \in Seq(Replies) /\ Len(replyCh) \in Nat
      /\ Len(replyCh) <= BufSize /\ BufSize \in Nat /\ late \subseteq Replies
      /\ status \subseteq Replies /\ dropped \subseteq Replies
  BY ManyTypes DEF ManyInbox
<1>6. /\ Rising(collected) /\ Rising(replyCh)
      /\ \A x \in ToSet(collected), w \in ToSet(replyCh) : x < w
      /\ ToSet(collected) \cup (ToSet(replyCh) \ status) = (1..arrived) \ (status \cup dropped)
      /\ ToSet(replyCh) \cup status \cup dropped \subseteq 1..arrived
  BY DEF ManyInv, CollectedInOrder, Numbered
<1> HIDE DEF n
<1>7. PICK in \in {{}, {n}}, out \in {{}, {n}} :
        /\ ToSet(replyCh') = ToSet(replyCh) \cup in /\ dropped' = dropped \cup out
        /\ n \in in \cup out /\ (n \in in => n \notin out)
        /\ replyCh' \in Seq(Replies) /\ Rising(replyCh') /\ Len(replyCh') <= BufSize
  <2>1. CASE Len(replyCh) < BufSize /\ replyCh' = Append(replyCh, n) /\ dropped' = dropped
    <3>1. \A x \in ToSet(replyCh) : x < n
      BY <1>4, <1>6
    <3>2. /\ replyCh' \in Seq(Replies) /\ Rising(replyCh')
          /\ Len(replyCh') = Len(replyCh) + 1
          /\ ToSet(replyCh') = ToSet(replyCh) \cup {n}
      <4>1. /\ Append(replyCh, n) \in Seq(Replies) /\ Rising(Append(replyCh, n))
            /\ Len(Append(replyCh, n)) = Len(replyCh) + 1
            /\ ToSet(Append(replyCh, n)) = ToSet(replyCh) \cup {n}
        BY <1>3, <1>4, <1>5, <1>6, <3>1, ManyAdd
      <4> QED  BY <2>1, <4>1
    <3> QED  BY <1>5, <2>1, <3>2
  <2>2. CASE replyCh' = replyCh /\ dropped' = dropped \cup {n}
    BY <1>5, <1>6, <2>2
  <2> QED  BY <1>2, <2>1, <2>2
<1>8. ManyInbox'
  BY <1>1, <1>4, <1>5, <1>7 DEF ManyInbox
<1>9. ManyTypeOK'
  BY <1>1, <1>8 DEF ManyInbox, ManyInv, ManyTypeOK
<1>10. Numbered'
  BY <1>1, <1>4, <1>6, <1>7 DEF Numbered
<1>11. CollectedInOrder'
  <2>1. ToSet(collected) \subseteq 1..arrived
    BY <1>6
  <2>2. \A x \in ToSet(collected'), w \in ToSet(replyCh') : x < w
    <3>1. ASSUME NEW x \in ToSet(collected'), NEW w \in ToSet(replyCh') PROVE x < w
      <4>1. x \in ToSet(collected) /\ x < n
        BY <1>1, <1>4, <2>1, <3>1
      <4>2. w \in ToSet(replyCh) \/ w = n
        BY <1>7, <3>1
      <4> QED  BY <1>6, <4>1, <4>2
    <3> QED  BY <3>1
  <2>3. ToSet(collected') \cup (ToSet(replyCh') \ status')
          = (1..arrived') \ (status' \cup dropped')
    <3>1. CASE status' = status
      BY <1>1, <1>4, <1>6, <1>7, <2>1, <3>1
    <3>2. CASE status' = status \cup {n}
      BY <1>1, <1>4, <1>6, <1>7, <2>1, <3>2
    <3> QED  BY <1>1, <3>1, <3>2
  <2> QED  BY <1>1, <1>6, <1>7, <2>2, <2>3 DEF CollectedInOrder
<1>12. CapHonoured' /\ Collecting' /\ EarlyReturnMeansFull'
  BY <1>1 DEF ManyInv, CapHonoured, Collecting, EarlyReturnMeansFull
<1> QED  BY <1>9, <1>10, <1>11, <1>12 DEF ManyInv

LEMMA ManyInitInv == ASSUME ManyInit PROVE ManyInv
<1> USE DEF ManyInit
<1>1. BufSize \in Nat /\ BufSize >= 0
  BY CapNatural, BufferPositive DEF BufSize
<1>2. ToSet(replyCh) = {} /\ ToSet(collected) = {} /\ 1..arrived = {}
  BY DEF ToSet
<1>3. CollectedInOrder /\ Numbered
  BY <1>2 DEF CollectedInOrder, Rising, Numbered
<1>4. ManyInbox
  BY <1>1, RepliesNatural DEF ManyInbox
<1>5. subscribed \in BOOLEAN /\ windowOver \in BOOLEAN /\ ctxDone \in BOOLEAN
  OBVIOUS
<1>6. ManyTypeOK
  BY <1>4, <1>5 DEF ManyInbox, ManyTypeOK
<1>7. CapHonoured /\ Collecting /\ EarlyReturnMeansFull
  BY CapNatural DEF CapHonoured, Collecting, EarlyReturnMeansFull
<1> QED  BY <1>3, <1>6, <1>7 DEF ManyInv

\* The invariant of a call of RequestMany, for every cap, channel and number of
\* replies.
THEOREM ManyInvariant == ManySpec => []ManyInv
<1>1. ManyInit => ManyInv
  BY ManyInitInv
<1>2. ManyInv /\ [ManyNext]_manyVars => ManyInv'
  BY ManyControl, ManyEnds, ManyReceive, ManyArrive DEF ManyNext, ManyStep
<1> QED  BY <1>1, <1>2, PTL DEF ManySpec

\* request.go:160-162: whatever arrives when and however the select chooses, the
\* replies collected and waiting are the data replies that found room, each once
\* and in the order of their arrival, and no status is among those collected.
THEOREM ManyCollectedInOrder == ManySpec => []CollectedInOrder
<1>1. ManyInv => CollectedInOrder
  BY DEF ManyInv
<1>2. ManySpec => []ManyInv
  BY ManyInvariant
<1> QED  BY <1>1, <1>2, PTL

\* The caller's cap holds, however many replies wait in the channel.
THEOREM ManyCapHonoured == ManySpec => []CapHonoured
<1>1. ManyInv => CapHonoured
  BY DEF ManyInv
<1>2. ManySpec => []ManyInv
  BY ManyInvariant
<1> QED  BY <1>1, <1>2, PTL

\* A call that returns without an error before its window is over has collected
\* exactly its cap.
THEOREM ManyEarlyReturnMeansFull == ManySpec => []EarlyReturnMeansFull
<1>1. ManyInv => EarlyReturnMeansFull
  BY DEF ManyInv
<1>2. ManySpec => []ManyInv
  BY ManyInvariant
<1> QED  BY <1>1, <1>2, PTL
=============================================================================
