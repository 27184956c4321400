----------------------------- MODULE SleepBeacon -----------------------------
(***************************************************************************)
(* persist/beacon.go, and the keys of persist/store.go in the bucket they  *)
(* share: an imp that stamps its beacon on a heartbeat and at shutdown,    *)
(* crashes and restarts, and asks SleptFor once before it runs, on hosts   *)
(* whose wall clocks differ and are stepped, beside stores that write and  *)
(* delete their own keys.                                                  *)
(*                                                                         *)
(* A key is its sequence of tokens, what the KV store sees between dots:   *)
(* a name or an entity may have dots of its own.  real is true time.  A    *)
(* Put acknowledges, fails, or is given up on and lands later or never:    *)
(* those of one process in order, on its one connection, those of one that *)
(* ended at any time, over what its successors stamped.                    *)
(***************************************************************************)
EXTENDS Integers, Sequences, FiniteSets

CONSTANTS
    BeaconName,  \* the beacon's key
    Stores,      \* the names of the stores
    Entities,    \* entities, as the tokens they put into a key
    Offsets,     \* wall clock minus true time, on the hosts and over time
    MaxTime,     \* bound: the last instant
    MaxStray,    \* bound: stamps of ended processes that may yet land
    None

ASSUME KeyTokens ==
    BeaconName \in Seq(STRING) /\ Stores \subseteq Seq(STRING) /\ Entities \subseteq Seq(STRING)
\* What follows the dot of a key is a token at least, be it empty.
ASSUME EntityTokens == << >> \notin Entities
ASSUME OffsetsInt == Offsets \subseteq Int /\ Offsets # {}
ASSUME MaxTimeNat == MaxTime \in Nat
ASSUME MaxStrayNat == MaxStray \in Nat

\* Neither name continues the other, token by token.
Apart(n, m) == \E k \in 1..Len(n) : k <= Len(m) /\ n[k] # m[k]
NamesApart == \A n, m \in Stores \cup {BeaconName} : n # m => Apart(n, m)

VARIABLES
    real, offset,  \* true time, and what the wall clock adds to it
    bucket,        \* key -> the entry, or None
    late,          \* the last process's stamp that was given up on and may yet land
    stray,         \* those of the processes before it
    alive,         \* the process runs
    stoppedAt,     \* when it last stopped (history)
    acked,         \* when a Stamp last succeeded, or None (history)
    overtaken,     \* a stray older than acked is what the beacon has (history)
    slept          \* what SleptFor returned to the running imp: elapsed, ok, err

clock == <<real, offset>>
history == <<stoppedAt, acked, overtaken>>
puts == <<late, stray>>
vars == <<clock, bucket, puts, alive, history, slept>>

\* Mutant: the name of the store is left out of the key.
key_Unscoped(name, entity) == entity

\* Store.key
key(name, entity) == name \o entity
Keys == {BeaconName} \cup {key(n, e) : n \in Stores, e \in Entities}

now == real + offset
\* An entry has the name and entity it was written for; a stamp has the wall
\* clock and, as history, the true time it was taken.
StateOf(name, entity) == [name |-> name, entity |-> entity]
StampNow == [name |-> BeaconName, entity |-> << >>, stamp |-> now, at |-> real]
Entries == [name : Stores, entity : Entities]
Stamps == [name : {BeaconName}, entity : {<< >>}, stamp : Int, at : 0..MaxTime]
ASSUME NoneIsNoEntry == None \notin Entries \cup Stamps
Unasked == [elapsed |-> 0, ok |-> FALSE, err |-> "none"]
Put(k, entry) == bucket' = [bucket EXCEPT ![k] = entry]

Init ==
    /\ real = 0
    /\ offset \in Offsets
    /\ bucket = [k \in Keys |-> None]
    /\ late = None
    /\ stray = {}
    /\ alive = FALSE
    /\ stoppedAt = 0
    /\ acked = None
    /\ overtaken = FALSE
    /\ slept = Unasked

Tick ==
    /\ real < MaxTime
    /\ real' = real + 1
    /\ UNCHANGED <<offset, bucket, puts, alive, history, slept>>

\* The clock is set, or the next process runs on another host.
SetClock ==
    /\ offset' \in Offsets
    /\ UNCHANGED <<real, bucket, puts, alive, history, slept>>

\* Mutant: the imp stamps its beacon before it asks.
SleptFor_StampsFirst ==
    /\ ~alive
    /\ slept' = [elapsed |-> 0, ok |-> bucket[BeaconName] # None, err |-> "nil"]
    /\ alive' = TRUE
    /\ Put(BeaconName, StampNow)
    /\ UNCHANGED <<clock, puts, history>>

\* What SleptFor makes of what the backend returned: nothing there, a stamp, or
\* the entry of a store, which is no time.
Report(raw) ==
    CASE raw = None            -> [elapsed |-> 0, ok |-> FALSE, err |-> "nil"]
      [] raw \in Stamps        -> [elapsed |-> now - raw.stamp, ok |-> TRUE, err |-> "nil"]
      [] raw \in Entries       -> [elapsed |-> 0, ok |-> FALSE, err |-> "decode"]

\* Startup, on a connection of its own: SleptFor, then the imp runs.  With an
\* error it does not start.
SleptFor ==
    /\ ~alive
    /\ \/ slept' = Report(bucket[BeaconName])
       \/ slept' = [elapsed |-> 0, ok |-> FALSE, err |-> "get"]
    /\ alive' = (slept'.err = "nil")
    /\ stray' = stray \cup ({late} \ {None}) /\ late' = None
    /\ UNCHANGED <<clock, bucket, history>>

\* Mutant: the stamp is written in a format that drops the fraction.
Stamp_Truncated ==
    /\ LET rounded == [StampNow EXCEPT !.stamp = @ - (@ % 2)] IN
       \/ Put(BeaconName, rounded) /\ acked' = real /\ overtaken' = FALSE /\ late' = None
       \/ late' = rounded /\ Cardinality(stray) < MaxStray /\ UNCHANGED <<bucket, acked, overtaken>>
       \/ late' = None /\ UNCHANGED <<bucket, acked, overtaken>>
    /\ UNCHANGED stray

\* Stamp: the Put succeeds, is given up on, or fails.  On one connection an
\* earlier Put that was given up on has landed by now or never will.
Stamp ==
    /\ \/ Put(BeaconName, StampNow) /\ acked' = real /\ overtaken' = FALSE /\ late' = None
       \/ late' = StampNow /\ Cardinality(stray) < MaxStray /\ UNCHANGED <<bucket, acked, overtaken>>
       \/ late' = None /\ UNCHANGED <<bucket, acked, overtaken>>
    /\ UNCHANGED stray

Heartbeat ==
    /\ alive /\ Stamp
    /\ UNCHANGED <<clock, alive, stoppedAt, slept>>

\* A last stamp at shutdown, whatever becomes of it.
GracefulStop ==
    /\ alive /\ Stamp
    /\ alive' = FALSE
    /\ stoppedAt' = real
    /\ slept' = Unasked
    /\ UNCHANGED clock

Crash ==
    /\ alive
    /\ alive' = FALSE
    /\ stoppedAt' = real
    /\ slept' = Unasked
    /\ UNCHANGED <<clock, bucket, puts, acked, overtaken>>

\* The bucket takes a Put that was given up on, after a restart and over the
\* stamps of the new process perhaps.  (Of two strays alike one is kept.)
LateStamp(s) ==
    /\ \/ s = late /\ late' = None /\ overtaken' = FALSE /\ UNCHANGED stray
       \/ /\ s \in stray /\ stray' = stray \ {s} /\ UNCHANGED late
          /\ overtaken' = (acked # None /\ s.at < acked)
    /\ Put(BeaconName, s)
    /\ UNCHANGED <<clock, alive, stoppedAt, acked, slept>>

\* Update and Delete of a store write and clear the entity's key.
StoreUpdate(n, e) ==
    /\ alive
    /\ Put(key(n, e), StateOf(n, e))
    /\ UNCHANGED <<clock, puts, alive, history, slept>>

StoreDelete(n, e) ==
    /\ alive
    /\ Put(key(n, e), None)
    /\ UNCHANGED <<clock, puts, alive, history, slept>>

Next ==
    \/ Tick \/ SetClock \/ SleptFor \/ Heartbeat \/ GracefulStop \/ Crash
    \/ \E s \in stray \cup ({late} \ {None}) : LateStamp(s)
    \/ \E n \in Stores, e \in Entities : StoreUpdate(n, e) \/ StoreDelete(n, e)

Spec == Init /\ [][Next]_vars

-----------------------------------------------------------------------------
(* Properties *)

\* Every variable keeps its type.
TypeOK ==
    /\ real \in 0..MaxTime /\ offset \in Offsets
    /\ DOMAIN bucket = Keys /\ \A k \in Keys : bucket[k] # None => bucket[k] \in Entries \cup Stamps
    /\ late # None => late \in Stamps
    /\ stray \subseteq Stamps
    /\ alive \in BOOLEAN /\ overtaken \in BOOLEAN
    /\ stoppedAt \in 0..MaxTime
    /\ acked # None => acked \in 0..MaxTime
    /\ slept \in [elapsed : Int, ok : BOOLEAN, err : {"none", "nil", "get", "decode"}]

\* store.go:83-85 and beacon.go:23-24, several stores and a beacon share a
\* bucket: what is under the key of a name and entity was written for them.
\* It takes names of which none continues another, not only different ones.
NothingShared ==
    /\ bucket[BeaconName] # None => bucket[BeaconName].name = BeaconName
    /\ \A n \in Stores, e \in Entities :
          bucket[key(n, e)] # None => bucket[key(n, e)].name = n /\ bucket[key(n, e)].entity = e

\* Setting the clock, or another host's clock, accounts for a difference of d.
ClockSteps(d) == \E o, p \in Offsets : o - p >= d

Starts == ~alive /\ alive'

\* beacon.go:11-17 and :37-39: at a start SleptFor covers the time the imp was
\* down, crash or not, whatever stamps failed or came late, less only what the
\* clock was set back; and only an imp whose stamp never succeeded may be told
\* that it starts for the first time.
SleepCovered ==
    [][Starts /\ (slept'.ok \/ acked # None) =>
          slept'.ok /\ ClockSteps((real - stoppedAt) - slept'.elapsed)]_vars

\* And it exceeds the time since the last successful stamp, which the heartbeat
\* bounds, only by what the clock was set forward, unless the stamp it read had
\* been given up on by an earlier process and landed over that newer one.
SleepBounded ==
    [][Starts /\ slept'.ok /\ acked # None /\ ~overtaken =>
          ClockSteps(slept'.elapsed - (real - acked))]_vars

=============================================================================
