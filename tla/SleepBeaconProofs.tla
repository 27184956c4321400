-------------------------- MODULE SleepBeaconProofs --------------------------
(***************************************************************************)
(* Proofs about SleepBeacon for any stores, entities and clocks, as long   *)
(* as no name continues another: what is under a key was written for it,   *)
(* and what SleptFor reports is the time the imp was down, up to what the  *)
(* clock was set.                                                          *)
(***************************************************************************)
EXTENDS SleepBeacon, TLAPS

-----------------------------------------------------------------------------
(* What makes the properties inductive *)

\* Under the beacon's key there are stamps only, of a clock that was right up to
\* an offset and from when the imp ran, and so are those that may yet land.  The
\* beacon has the last one acknowledged or a newer one unless a stray has
\* overtaken it, and the last process's own late stamp is newer.
Taken(e) ==
    e # None =>
        /\ e \in Stamps /\ e.stamp - e.at \in Offsets
        /\ e.at <= real /\ (~alive => e.at <= stoppedAt)
BeaconHeld ==
    acked # None =>
        /\ bucket[BeaconName] # None /\ acked <= real
        /\ ~overtaken => bucket[BeaconName].at >= acked
        /\ late # None => late.at >= acked
Held == TypeOK /\ NothingShared /\ Taken(bucket[BeaconName]) /\ Taken(late) /\ BeaconHeld
StrayTaken == \A s \in stray : Taken(s)
IInv == Held /\ StrayTaken

-----------------------------------------------------------------------------
(* Keys *)

LEMMA KeyOf ==
    ASSUME NEW n \in Seq(STRING), NEW e \in Seq(STRING)
    PROVE  /\ key(n, e) \in Seq(STRING)
           /\ Len(key(n, e)) = Len(n) + Len(e) /\ Len(n) \in Nat /\ Len(e) \in Nat
           /\ \A k \in 1..Len(n) : key(n, e)[k] = n[k]
           /\ \A k \in 1..Len(e) : key(n, e)[Len(n) + k] = e[k]
<1>1. key(n, e) \in Seq(STRING) /\ Len(key(n, e)) = Len(n) + Len(e)
  BY DEF key
<1>2. Len(n) \in Nat /\ Len(e) \in Nat
  OBVIOUS
<1>3. \A k \in 1..Len(n) : key(n, e)[k] = n[k]
  BY <1>2 DEF key
<1>4. ASSUME NEW k \in 1..Len(e) PROVE key(n, e)[Len(n) + k] = e[k]
  BY <1>2 DEF key
<1> QED  BY <1>1, <1>2, <1>3, <1>4

\* A key has the tokens of its name first, so those of names that are apart
\* differ where the names do.
LEMMA KeysDiffer ==
    ASSUME NEW n \in Seq(STRING), NEW m \in Seq(STRING), Apart(n, m),
           NEW e \in Seq(STRING), NEW f \in Seq(STRING)
    PROVE  key(n, e) # key(m, f) /\ key(n, e) # m
<1>1. PICK k \in 1..Len(n) : k <= Len(m) /\ n[k] # m[k]
  BY DEF Apart
<1>2. k \in 1..Len(m)
  BY <1>1
<1>3. key(n, e)[k] = n[k] /\ key(m, f)[k] = m[k]
  BY <1>2, KeyOf
<1> QED  BY <1>1, <1>3

\* Under one name the entity is told by the key.
LEMMA KeyInjective ==
    ASSUME NEW n \in Seq(STRING), NEW e \in Seq(STRING), NEW f \in Seq(STRING),
           key(n, e) = key(n, f)
    PROVE  e = f
<1>0. /\ Len(key(n, e)) = Len(n) + Len(e) /\ Len(n) \in Nat /\ Len(e) \in Nat
      /\ Len(key(n, f)) = Len(n) + Len(f) /\ Len(f) \in Nat
  BY KeyOf
<1>1. Len(e) = Len(f)
  BY <1>0
<1>2. ASSUME NEW k \in 1..Len(e) PROVE e[k] = f[k]
  <2>1. key(n, e)[Len(n) + k] = e[k]
    BY KeyOf
  <2>2. k \in 1..Len(f)
    BY <1>1
  <2>3. key(n, f)[Len(n) + k] = f[k]
    BY <2>2, KeyOf
  <2> QED  BY <2>1, <2>3
<1> QED  BY <1>1, <1>2

LEMMA KeyNotName ==
    ASSUME NEW n \in Seq(STRING), NEW e \in Seq(STRING), e # << >>
    PROVE  key(n, e) # n
<1>1. Len(e) > 0
  OBVIOUS
<1> QED  BY <1>1, KeyOf

\* With names apart no two places of the bucket are one.
LEMMA KeysApart ==
    ASSUME NamesApart, NEW n \in Stores, NEW e \in Entities
    PROVE  /\ key(n, e) # BeaconName
           /\ \A m \in Stores, f \in Entities : key(n, e) = key(m, f) => n = m /\ e = f
<1>0. n \in Seq(STRING) /\ e \in Seq(STRING) /\ e # << >> /\ BeaconName \in Seq(STRING)
  BY KeyTokens, EntityTokens
<1>1. key(n, e) # BeaconName
  <2>1. CASE n = BeaconName
    BY <1>0, <2>1, KeyNotName
  <2>2. CASE n # BeaconName
    <3>1. Apart(n, BeaconName)
      BY <2>2 DEF NamesApart
    <3> QED  BY <1>0, <3>1, KeysDiffer
  <2> QED  BY <2>1, <2>2
<1>2. ASSUME NEW m \in Stores, NEW f \in Entities, key(n, e) = key(m, f) PROVE n = m /\ e = f
  <2>0. m \in Seq(STRING) /\ f \in Seq(STRING)
    BY KeyTokens
  <2>1. n = m
    <3> SUFFICES ASSUME n # m PROVE FALSE
      OBVIOUS
    <3>1. Apart(n, m)
      BY DEF NamesApart
    <3> QED  BY <1>0, <1>2, <2>0, <3>1, KeysDiffer
  <2> QED  BY <1>0, <1>2, <2>0, <2>1, KeyInjective
<1> QED  BY <1>1, <1>2

LEMMA KeyInKeys ==
    /\ BeaconName \in Keys
    /\ \A n \in Stores, e \in Entities : key(n, e) \in Keys
<1>1. BeaconName \in Keys
  <2> DEFINE S == {key(n, e) : n \in Stores, e \in Entities}
  <2>1. Keys = {BeaconName} \cup S
    BY DEF Keys
  <2> HIDE DEF S
  <2> QED  BY <2>1
<1>2. ASSUME NEW n \in Stores, NEW e \in Entities PROVE key(n, e) \in Keys
  <2>1. key(n, e) \in {key(m, f) : m \in Stores, f \in Entities}
    OBVIOUS
  <2> QED  BY <2>1 DEF Keys
<1> QED  BY <1>1, <1>2

-----------------------------------------------------------------------------
(* The beacon's stamps *)

\* A stamp taken now, by a running imp, is one.
LEMMA StampTaken ==
    ASSUME TypeOK
    PROVE  /\ StampNow \in Stamps /\ StampNow # None /\ StampNow.name = BeaconName
           /\ StampNow.stamp - StampNow.at = offset /\ StampNow.at = real
<1>1. real \in 0..MaxTime /\ real \in Int /\ offset \in Int
  BY OffsetsInt, MaxTimeNat DEF TypeOK
<1>2. StampNow \in Stamps
  BY <1>1 DEF StampNow, Stamps, now
<1>3. StampNow.stamp - StampNow.at = offset
  BY <1>1 DEF StampNow, now
<1> QED  BY <1>2, <1>3, NoneIsNoEntry DEF StampNow

\* A write of a stamp to the beacon's key.
LEMMA PutBeacon ==
    ASSUME NamesApart, IInv, NEW e \in Stamps, e # None, Put(BeaconName, e)
    PROVE  /\ bucket'[BeaconName] = e
           /\ DOMAIN bucket' = Keys
           /\ \A k \in Keys : bucket'[k] # None => bucket'[k] \in Entries \cup Stamps
           /\ NothingShared'
<1>0. /\ bucket' = [bucket EXCEPT ![BeaconName] = e] /\ DOMAIN bucket = Keys
      /\ \A k \in Keys : bucket[k] # None => bucket[k] \in Entries \cup Stamps
      /\ NothingShared
  BY DEF Put, IInv, Held, TypeOK
<1>1. \A k \in Keys : k # BeaconName => bucket'[k] = bucket[k]
  BY <1>0
<1>2. bucket'[BeaconName] = e /\ DOMAIN bucket' = Keys
  BY <1>0, KeyInKeys
<1>3. e.name = BeaconName
  BY DEF Stamps
<1>4. \A n \in Stores, f \in Entities : bucket'[key(n, f)] = bucket[key(n, f)]
  BY <1>1, KeyInKeys, KeysApart
<1>5. NothingShared'
  BY <1>0, <1>2, <1>3, <1>4 DEF NothingShared
<1>6. \A k \in Keys : bucket'[k] # None => bucket'[k] \in Entries \cup Stamps
  BY <1>0, <1>1, <1>2
<1> QED  BY <1>2, <1>5, <1>6

-----------------------------------------------------------------------------
(* The steps *)

BucketTypes == DOMAIN bucket = Keys /\ \A k \in Keys : bucket[k] # None => bucket[k] \in Entries \cup Stamps
Stands(e, r, a, s) ==
    e # None => /\ e \in Stamps /\ e.stamp - e.at \in Offsets /\ e.at <= r /\ (~a => e.at <= s)

\* The steps that write no key.
LEMMA BucketFrame ==
    ASSUME IInv, UNCHANGED bucket
    PROVE  BucketTypes' /\ NothingShared'
BY DEF IInv, Held, TypeOK, BucketTypes, NothingShared

LEMMA TickHeld == ASSUME IInv, Tick PROVE Held'
<1>0. /\ real' = real + 1 /\ real < MaxTime /\ real \in Nat /\ TypeOK
      /\ UNCHANGED <<offset, bucket, late, stray, alive, stoppedAt, acked, overtaken, slept>>
  BY MaxTimeNat DEF Tick, IInv, Held, TypeOK, history, puts
<1>1. BucketTypes' /\ NothingShared'
  BY <1>0, BucketFrame
<1>2. real' \in 0..MaxTime
  BY <1>0, MaxTimeNat
<1>3. TypeOK'
  BY <1>0, <1>1, <1>2 DEF TypeOK, BucketTypes
<1>4. Stands(bucket[BeaconName], real', alive, stoppedAt) /\ Stands(late, real', alive, stoppedAt)
  <2>1. ASSUME NEW e, Taken(e) PROVE Stands(e, real', alive, stoppedAt)
    <3>1. e # None => e.at \in Int
      BY <2>1, MaxTimeNat DEF Taken, Stamps
    <3> QED  BY <1>0, <2>1, <3>1 DEF Stands, Taken
  <2> QED  BY <2>1 DEF IInv, Held
<1>5. Taken(bucket[BeaconName])' /\ Taken(late)'
  BY <1>0, <1>4 DEF Taken, Stands
<1>6. BeaconHeld'
  <2>1. acked # None => acked \in Int
    BY <1>0, MaxTimeNat DEF TypeOK
  <2> QED  BY <1>0, <2>1 DEF IInv, Held, BeaconHeld
<1> QED  BY <1>1, <1>3, <1>5, <1>6 DEF Held

LEMMA SetClockHeld == ASSUME IInv, SetClock PROVE Held'
<1>0. /\ offset' \in Offsets /\ TypeOK
      /\ UNCHANGED <<real, bucket, late, stray, alive, stoppedAt, acked, overtaken, slept>>
  BY DEF SetClock, IInv, Held, history, puts
<1>1. BucketTypes' /\ NothingShared'
  BY <1>0, BucketFrame
<1>2. TypeOK'
  BY <1>0, <1>1 DEF TypeOK, BucketTypes
<1>3. Taken(bucket[BeaconName])' /\ Taken(late)' /\ BeaconHeld'
  BY <1>0 DEF IInv, Held, Taken, BeaconHeld
<1> QED  BY <1>1, <1>2, <1>3 DEF Held

\* SleptFor reports no time for want of a stamp, or the one the clocks give.
LEMMA ReportIs ==
    ASSUME IInv
    PROVE  LET raw == bucket[BeaconName] IN
           /\ raw = None => Report(raw) = [elapsed |-> 0, ok |-> FALSE, err |-> "nil"]
           /\ raw # None =>
                Report(raw) = [elapsed |-> (real + offset) - raw.stamp, ok |-> TRUE, err |-> "nil"]
<1>1. bucket[BeaconName] # None => bucket[BeaconName] \in Stamps
  BY DEF IInv, Held, Taken
<1>2. ASSUME NEW raw \in Stamps
      PROVE  Report(raw) = [elapsed |-> (real + offset) - raw.stamp, ok |-> TRUE, err |-> "nil"]
  <2>1. raw # None /\ raw \notin Entries
    <3>1. DOMAIN raw = {"name", "entity", "stamp", "at"}
      BY <1>2 DEF Stamps
    <3>2. raw \in Entries => DOMAIN raw = {"name", "entity"}
      BY DEF Entries
    <3> QED  BY <1>2, <3>1, <3>2, NoneIsNoEntry
  <2> QED  BY <1>2, <2>1 DEF Report, now
<1>3. Report(None) = [elapsed |-> 0, ok |-> FALSE, err |-> "nil"]
  <2>1. None \notin Stamps /\ None \notin Entries
    BY NoneIsNoEntry
  <2> QED  BY <2>1 DEF Report
<1> QED  BY <1>1, <1>2, <1>3

LEMMA SleptForHeld == ASSUME IInv, SleptFor PROVE Held'
<1>0. /\ ~alive /\ TypeOK
      /\ alive' = (slept'.err = "nil")
      /\ late' = None /\ stray' = stray \cup ({late} \ {None})
      /\ UNCHANGED <<real, offset, bucket, stoppedAt, acked, overtaken>>
  BY DEF SleptFor, IInv, Held, clock, history
<1>1. BucketTypes' /\ NothingShared'
  BY <1>0, BucketFrame
<1>2. slept' \in [elapsed : Int, ok : BOOLEAN, err : {"none", "nil", "get", "decode"}]
  <2>1. bucket[BeaconName] # None => (real + offset) - bucket[BeaconName].stamp \in Int
    BY <1>0, OffsetsInt, MaxTimeNat DEF IInv, Held, Taken, Stamps, TypeOK
  <2>2. Report(bucket[BeaconName]) \in
          [elapsed : Int, ok : BOOLEAN, err : {"none", "nil", "get", "decode"}]
    <3>1. CASE bucket[BeaconName] = None
      <4>1. Report(bucket[BeaconName]) = [elapsed |-> 0, ok |-> FALSE, err |-> "nil"]
        BY <3>1, ReportIs
      <4> QED  BY <4>1
    <3>2. CASE bucket[BeaconName] # None
      <4>1. PICK d \in Int : d = (real + offset) - bucket[BeaconName].stamp
        BY <2>1, <3>2
      <4>2. Report(bucket[BeaconName]) = [elapsed |-> d, ok |-> TRUE, err |-> "nil"]
        BY <3>2, <4>1, ReportIs
      <4> QED  BY <4>1, <4>2
    <3> QED  BY <3>1, <3>2
  <2>3. CASE slept' = Report(bucket[BeaconName])
    BY <2>2, <2>3
  <2>4. CASE slept' = [elapsed |-> 0, ok |-> FALSE, err |-> "get"]
    BY <2>4
  <2> QED  BY <2>3, <2>4 DEF SleptFor
<1>3. alive' \in BOOLEAN
  BY <1>0
<1>4. TypeOK'
  <2>1. stray' \subseteq Stamps
    BY <1>0 DEF TypeOK
  <2> QED  BY <1>0, <1>1, <1>2, <1>3, <2>1 DEF TypeOK, BucketTypes
<1>5. Stands(bucket[BeaconName], real, alive', stoppedAt)
  BY <1>0 DEF IInv, Held, Taken, Stands
<1>6. Taken(bucket[BeaconName])' /\ Taken(late)'
  BY <1>0, <1>5 DEF Taken, Stands
<1>7. BeaconHeld'
  BY <1>0 DEF IInv, Held, BeaconHeld
<1> QED  BY <1>1, <1>4, <1>6, <1>7 DEF Held

\* Stamp, by an imp that goes on or stops with it.
LEMMA StampHeld ==
    ASSUME NamesApart, IInv, Stamp, alive, UNCHANGED clock,
           alive' \in BOOLEAN,
           \/ alive' /\ UNCHANGED stoppedAt
           \/ ~alive' /\ stoppedAt' = real,
           slept' \in [elapsed : Int, ok : BOOLEAN, err : {"none", "nil", "get", "decode"}]
    PROVE  Held'
<1>0. TypeOK /\ UNCHANGED <<real, offset, stray>> /\ real \in Int /\ real \in 0..MaxTime
  BY MaxTimeNat DEF IInv, Held, clock, Stamp, TypeOK
<1>1. /\ StampNow \in Stamps /\ StampNow # None
      /\ StampNow.stamp - StampNow.at = offset /\ StampNow.at = real /\ offset \in Offsets
  BY <1>0, StampTaken DEF TypeOK
<1>2. /\ Stands(bucket[BeaconName], real, alive', stoppedAt') /\ Stands(late, real, alive', stoppedAt')
  <2>1. ASSUME NEW e, Taken(e) PROVE Stands(e, real, alive', stoppedAt')
    BY <2>1 DEF Taken, Stands
  <2> QED  BY <2>1 DEF IInv, Held
<1>3. Stands(StampNow, real, alive', stoppedAt') /\ Stands(None, real, alive', stoppedAt')
  BY <1>0, <1>1 DEF Stands
<1>4. CASE Put(BeaconName, StampNow) /\ acked' = real /\ overtaken' = FALSE /\ late' = None
  <2>1. /\ bucket'[BeaconName] = StampNow /\ BucketTypes' /\ NothingShared'
    BY <1>1, <1>4, PutBeacon DEF BucketTypes
  <2>2. TypeOK'
    <3>1. stoppedAt' \in 0..MaxTime
      BY <1>0 DEF TypeOK
    <3> QED  BY <1>0, <1>4, <2>1, <3>1 DEF TypeOK, BucketTypes
  <2>3. Stands(bucket'[BeaconName], real', alive', stoppedAt') /\ Stands(late', real', alive', stoppedAt')
    BY <1>0, <1>3, <1>4, <2>1
  <2>4. Taken(bucket[BeaconName])' /\ Taken(late)'
    BY <2>3 DEF Taken, Stands
  <2>5. BeaconHeld'
    BY <1>0, <1>1, <1>4, <2>1 DEF BeaconHeld
  <2> QED  BY <2>1, <2>2, <2>4, <2>5 DEF Held
<1>5. CASE late' \in {StampNow, None} /\ UNCHANGED <<bucket, acked, overtaken>>
  <2>1. BucketTypes' /\ NothingShared'
    BY <1>5, BucketFrame
  <2>2. TypeOK'
    <3>1. stoppedAt' \in 0..MaxTime /\ (late' # None => late' \in Stamps)
      BY <1>0, <1>1, <1>5 DEF TypeOK
    <3> QED  BY <1>0, <1>5, <2>1, <3>1 DEF TypeOK, BucketTypes
  <2>3. Stands(bucket'[BeaconName], real', alive', stoppedAt') /\ Stands(late', real', alive', stoppedAt')
    BY <1>0, <1>2, <1>3, <1>5
  <2>4. Taken(bucket[BeaconName])' /\ Taken(late)'
    BY <2>3 DEF Taken, Stands
  <2>5. BeaconHeld'
    BY <1>0, <1>1, <1>5 DEF BeaconHeld, IInv, Held
  <2> QED  BY <2>1, <2>2, <2>4, <2>5 DEF Held
<1> QED  BY <1>4, <1>5 DEF Stamp

LEMMA UnaskedType == Unasked \in [elapsed : Int, ok : BOOLEAN, err : {"none", "nil", "get", "decode"}]
BY DEF Unasked

LEMMA HeartbeatHeld == ASSUME NamesApart, IInv, Heartbeat PROVE Held'
<1>1. alive \in BOOLEAN /\ alive /\ UNCHANGED <<clock, alive, stoppedAt, slept>>
  BY DEF IInv, Held, TypeOK, Heartbeat
<1>2. slept' \in [elapsed : Int, ok : BOOLEAN, err : {"none", "nil", "get", "decode"}]
  BY <1>1 DEF IInv, Held, TypeOK
<1> QED  BY <1>1, <1>2, StampHeld DEF Heartbeat

LEMMA GracefulStopHeld == ASSUME NamesApart, IInv, GracefulStop PROVE Held'
BY StampHeld, UnaskedType DEF GracefulStop

LEMMA CrashHeld == ASSUME IInv, Crash PROVE Held'
<1>0. /\ alive' = FALSE /\ stoppedAt' = real /\ slept' = Unasked /\ TypeOK
      /\ UNCHANGED <<real, offset, bucket, late, stray, acked, overtaken>>
  BY DEF Crash, IInv, Held, clock, puts
<1>1. BucketTypes' /\ NothingShared'
  BY <1>0, BucketFrame
<1>2. TypeOK'
  BY <1>0, <1>1, UnaskedType DEF TypeOK, BucketTypes
<1>3. Stands(bucket[BeaconName], real, FALSE, real) /\ Stands(late, real, FALSE, real)
  BY DEF IInv, Held, Taken, Stands
<1>4. Taken(bucket[BeaconName])' /\ Taken(late)'
  BY <1>0, <1>3 DEF Taken, Stands
<1>5. BeaconHeld'
  BY <1>0 DEF IInv, Held, BeaconHeld
<1> QED  BY <1>1, <1>2, <1>4, <1>5 DEF Held

LEMMA LateStampHeld ==
    ASSUME NamesApart, IInv, NEW s \in stray \cup ({late} \ {None}), LateStamp(s)
    PROVE  Held'
<1>0. /\ s # None /\ s \in Stamps /\ Put(BeaconName, s) /\ TypeOK /\ Taken(s)
      /\ late' \in {late, None} /\ stray' \subseteq stray
      /\ UNCHANGED <<real, offset, alive, stoppedAt, acked, slept>>
  <2>1. s \in Stamps /\ Taken(s) /\ TypeOK
    BY DEF IInv, Held, StrayTaken, TypeOK
  <2>2. s # None
    BY <2>1, NoneIsNoEntry
  <2> QED  BY <2>1, <2>2 DEF LateStamp, clock
<1>1. bucket'[BeaconName] = s /\ BucketTypes' /\ NothingShared'
  BY <1>0, PutBeacon DEF BucketTypes
<1>2. overtaken' \in BOOLEAN
  BY DEF LateStamp
<1>3. TypeOK'
  BY <1>0, <1>1, <1>2 DEF TypeOK, BucketTypes
<1>4. Taken(bucket[BeaconName])'
  BY <1>0, <1>1 DEF Taken
<1>5. Taken(late)'
  BY <1>0 DEF IInv, Held, Taken
<1>6. BeaconHeld'
  <2>0. acked # None => acked <= real /\ (late # None => late.at >= acked)
    BY DEF IInv, Held, BeaconHeld
  <2>1. s.at \in Int /\ (acked # None => acked \in Int)
    BY <1>0, MaxTimeNat DEF Stamps, TypeOK
  <2>2. ~overtaken' /\ acked # None => s.at >= acked
    <3>1. CASE s = late
      BY <1>0, <2>0, <3>1
    <3>2. CASE overtaken' = (acked # None /\ s.at < acked)
      <4>1. ~overtaken' /\ acked # None => ~(s.at < acked)
        BY <3>2
      <4> QED  BY <2>1, <4>1
    <3> QED  BY <3>1, <3>2 DEF LateStamp
  <2>4. bucket'[BeaconName] # None
    BY <1>0, <1>1
  <2>5. ~overtaken' /\ acked # None => bucket'[BeaconName].at >= acked
    BY <1>1, <2>2
  <2> QED  BY <1>0, <2>0, <2>4, <2>5 DEF BeaconHeld
<1> QED  BY <1>1, <1>3, <1>4, <1>5, <1>6 DEF Held

\* A store writes or clears a key of its own.
LEMMA StoreHeld ==
    ASSUME NamesApart, IInv, NEW n \in Stores, NEW e \in Entities, StoreUpdate(n, e) \/ StoreDelete(n, e)
    PROVE  Held'
<1>0. TypeOK /\ UNCHANGED <<real, offset, late, stray, alive, stoppedAt, acked, overtaken, slept>>
  BY DEF IInv, Held, StoreUpdate, StoreDelete, clock, history, puts
<1>1. PICK v \in {StateOf(n, e), None} : bucket' = [bucket EXCEPT ![key(n, e)] = v]
  BY DEF StoreUpdate, StoreDelete, Put
<1>2. DOMAIN bucket = Keys /\ NothingShared
      /\ \A k \in Keys : bucket[k] # None => bucket[k] \in Entries \cup Stamps
  BY DEF IInv, Held, TypeOK
<1>3. \A k \in Keys : bucket'[k] = IF k = key(n, e) THEN v ELSE bucket[k]
  BY <1>1, <1>2
<1>4. DOMAIN bucket' = Keys
  BY <1>1, <1>2
<1>5. StateOf(n, e) \in Entries /\ StateOf(n, e).name = n /\ StateOf(n, e).entity = e
  BY DEF StateOf, Entries
<1>6. BucketTypes'
  BY <1>2, <1>3, <1>4, <1>5 DEF BucketTypes
<1>7. bucket'[BeaconName] = bucket[BeaconName]
  BY <1>3, KeyInKeys, KeysApart
<1>8. NothingShared'
  <2>1. ASSUME NEW m \in Stores, NEW f \in Entities, bucket'[key(m, f)] # None
        PROVE  bucket'[key(m, f)].name = m /\ bucket'[key(m, f)].entity = f
    <3>1. CASE key(m, f) = key(n, e)
      <4>1. n = m /\ e = f
        BY <3>1, KeysApart
      <4> QED  BY <1>3, <1>5, <2>1, <3>1, <4>1, KeyInKeys
    <3>2. CASE key(m, f) # key(n, e)
      BY <1>2, <1>3, <2>1, <3>2, KeyInKeys DEF NothingShared
    <3> QED  BY <3>1, <3>2
  <2> QED  BY <1>2, <1>7, <2>1 DEF NothingShared
<1>9. TypeOK'
  BY <1>0, <1>6 DEF TypeOK, BucketTypes
<1>10. Taken(bucket[BeaconName])' /\ Taken(late)' /\ BeaconHeld'
  BY <1>0, <1>7 DEF IInv, Held, Taken, BeaconHeld
<1> QED  BY <1>8, <1>9, <1>10 DEF Held

\* A stray is the late stamp of a process that ended, and stays what it was.
LEMMA NextStray == ASSUME IInv, TypeOK', [Next]_vars PROVE StrayTaken'
<1> SUFFICES ASSUME NEW s \in stray' PROVE Taken(s)'
  BY DEF StrayTaken
<1>1. s \in stray \cup {late} /\ Taken(s)
  <2>1. stray' \subseteq stray \cup {late}
    BY DEF Next, vars, puts, Tick, SetClock, SleptFor, Heartbeat, GracefulStop, Crash, Stamp, LateStamp,
       StoreUpdate, StoreDelete
  <2> QED  BY <2>1 DEF IInv, Held, StrayTaken
<1>2. /\ real' = real \/ real' = real + 1
      /\ ~alive' => IF alive THEN stoppedAt' = real ELSE stoppedAt' = stoppedAt
  BY DEF Next, vars, clock, history, Tick, SetClock, SleptFor, Heartbeat, GracefulStop, Crash, LateStamp,
     StoreUpdate, StoreDelete, IInv, Held, TypeOK
<1>3. real \in Int /\ stoppedAt \in Int /\ (s # None => s.at \in Int)
  BY <1>1, MaxTimeNat DEF IInv, Held, TypeOK, Taken, Stamps
<1>4. s # None => s.at <= real' /\ (~alive' => s.at <= stoppedAt')
  BY <1>1, <1>2, <1>3 DEF Taken
<1> QED  BY <1>1, <1>4 DEF Taken

-----------------------------------------------------------------------------
(* The specification *)

LEMMA InitIInv == ASSUME Init PROVE IInv
<1>1. TypeOK
  <2>1. BucketTypes
    BY DEF Init, BucketTypes
  <2>2. real \in 0..MaxTime /\ stoppedAt \in 0..MaxTime
    BY MaxTimeNat DEF Init
  <2>3. alive \in BOOLEAN /\ overtaken \in BOOLEAN
    BY DEF Init
  <2> QED  BY <2>1, <2>2, <2>3, UnaskedType DEF Init, TypeOK, BucketTypes
<1>2. NothingShared
  BY KeyInKeys DEF Init, NothingShared
<1>3. Taken(bucket[BeaconName]) /\ Taken(late) /\ BeaconHeld
  BY KeyInKeys DEF Init, Taken, BeaconHeld
<1>4. StrayTaken
  BY DEF Init, StrayTaken
<1> QED  BY <1>1, <1>2, <1>3, <1>4 DEF IInv, Held

LEMMA NextIInv == ASSUME NamesApart, IInv, [Next]_vars PROVE IInv'
<1>1. CASE UNCHANGED vars
  <2>1. BucketTypes' /\ NothingShared'
    BY <1>1, BucketFrame DEF vars
  <2>2. TypeOK'
    BY <1>1, <2>1 DEF IInv, Held, TypeOK, BucketTypes, vars, clock, history, puts
  <2>3. Taken(bucket[BeaconName])' /\ Taken(late)' /\ BeaconHeld'
    BY <1>1 DEF IInv, Held, Taken, BeaconHeld, vars, clock, history, puts
  <2> QED  BY <2>1, <2>2, <2>3, NextStray DEF IInv, Held
<1>2. CASE Next
  <2>1. Held'
    BY <1>2, TickHeld, SetClockHeld, SleptForHeld, HeartbeatHeld, GracefulStopHeld, CrashHeld,
       LateStampHeld, StoreHeld DEF Next
  <2> QED  BY <2>1, NextStray DEF IInv, Held
<1> QED  BY <1>1, <1>2

\* If no name continues another, stamps and the states of the stores keep out of
\* each other's way, and the beacon holds what it was last stamped with.
THEOREM BeaconInvariant == NamesApart => (Spec => []IInv)
<1> SUFFICES ASSUME NamesApart PROVE Spec => []IInv
  OBVIOUS
<1>1. Init => IInv
  BY InitIInv
<1>2. IInv /\ [Next]_vars => IInv'
  BY NextIInv
<1> QED  BY <1>1, <1>2, PTL DEF Spec

\* store.go:83-85 and beacon.go:23-24: in a shared bucket nobody reads what
\* another has written, however their names and entities are dotted.
THEOREM BeaconNothingShared == NamesApart => (Spec => []NothingShared)
<1> SUFFICES ASSUME NamesApart PROVE Spec => []NothingShared
  OBVIOUS
<1>1. IInv => NothingShared
  BY DEF IInv, Held
<1>2. Spec => []IInv
  BY BeaconInvariant
<1> QED  BY <1>1, <1>2, PTL

\* What a start is told.
LEMMA StartsWith ==
    ASSUME IInv, [Next]_vars, Starts
    PROVE  LET raw == bucket[BeaconName] IN
           /\ slept'.ok <=> raw # None
           /\ raw # None => slept'.elapsed = (real + offset) - raw.stamp
<1>1. SleptFor
  BY DEF Next, Starts, vars, Tick, SetClock, Heartbeat, GracefulStop, Crash, LateStamp,
     StoreUpdate, StoreDelete
<1>2. slept' = Report(bucket[BeaconName])
  <2>1. slept'.err = "nil"
    BY <1>1 DEF SleptFor, Starts
  <2>2. slept' # [elapsed |-> 0, ok |-> FALSE, err |-> "get"]
    BY <2>1
  <2> QED  BY <1>1, <2>2 DEF SleptFor
<1> QED  BY <1>2, ReportIs

\* beacon.go:11-17 and :37-39: SleptFor covers the time the imp was down but for
\* what the clock was set back, and says "first start" only if no stamp ever
\* succeeded.
THEOREM BeaconSleepCovered == NamesApart => (Spec => SleepCovered)
<1> SUFFICES ASSUME NamesApart PROVE Spec => SleepCovered
  OBVIOUS
<1> DEFINE A == Starts /\ (slept'.ok \/ acked # None) =>
                  slept'.ok /\ ClockSteps((real - stoppedAt) - slept'.elapsed)
<1>1. IInv /\ [Next]_vars => [A]_vars
  <2> SUFFICES ASSUME IInv, [Next]_vars, Starts, slept'.ok \/ acked # None
               PROVE  slept'.ok /\ ClockSteps((real - stoppedAt) - slept'.elapsed)
    OBVIOUS
  <2> DEFINE raw == bucket[BeaconName]
  <2>1. raw # None
    BY StartsWith DEF IInv, Held, BeaconHeld
  <2>2. slept'.ok /\ slept'.elapsed = (real + offset) - raw.stamp
    BY <2>1, StartsWith
  <2>3. raw \in Stamps /\ raw.stamp - raw.at \in Offsets /\ raw.at <= stoppedAt
    BY <2>1 DEF IInv, Held, Taken, Starts
  <2>4. /\ raw.stamp \in Int /\ raw.at \in Int /\ real \in Int /\ stoppedAt \in Int
        /\ offset \in Offsets /\ offset \in Int
    BY <2>3, OffsetsInt, MaxTimeNat DEF Stamps, IInv, Held, TypeOK
  <2>5. (raw.stamp - raw.at) - offset >= (real - stoppedAt) - ((real + offset) - raw.stamp)
    BY <2>3, <2>4
  <2> QED  BY <2>2, <2>3, <2>4, <2>5 DEF ClockSteps
<1>2. Spec => []IInv
  BY BeaconInvariant
<1> QED  BY <1>1, <1>2, PTL DEF Spec, SleepCovered

\* beacon.go:11-17: and it is no longer than the time since the last stamp that
\* succeeded, but for what the clock was set forward, unless the
\* stamp of an earlier process, given up on, landed over it.
THEOREM BeaconSleepBounded == NamesApart => (Spec => SleepBounded)
<1> SUFFICES ASSUME NamesApart PROVE Spec => SleepBounded
  OBVIOUS
<1> DEFINE A == Starts /\ slept'.ok /\ acked # None /\ ~overtaken =>
                  ClockSteps(slept'.elapsed - (real - acked))
<1>1. IInv /\ [Next]_vars => [A]_vars
  <2> SUFFICES ASSUME IInv, [Next]_vars, Starts, slept'.ok, acked # None, ~overtaken
               PROVE  ClockSteps(slept'.elapsed - (real - acked))
    OBVIOUS
  <2> DEFINE raw == bucket[BeaconName]
  <2>1. raw # None /\ raw.at >= acked
    BY DEF IInv, Held, BeaconHeld
  <2>2. slept'.elapsed = (real + offset) - raw.stamp
    BY <2>1, StartsWith
  <2>3. raw \in Stamps /\ raw.stamp - raw.at \in Offsets
    BY <2>1 DEF IInv, Held, Taken
  <2>4. /\ raw.stamp \in Int /\ raw.at \in Int /\ real \in Int /\ acked \in Int
        /\ offset \in Offsets /\ offset \in Int
    BY <2>3, OffsetsInt, MaxTimeNat DEF Stamps, IInv, Held, TypeOK
  <2>5. offset - (raw.stamp - raw.at) >= ((real + offset) - raw.stamp) - (real - acked)
    BY <2>1, <2>4
  <2> QED  BY <2>2, <2>3, <2>4, <2>5 DEF ClockSteps
<1>2. Spec => []IInv
  BY BeaconInvariant
<1> QED  BY <1>1, <1>2, PTL DEF Spec, SleepBounded
=============================================================================
