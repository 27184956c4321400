------------------------ MODULE ConsumerBindingProofs ------------------------
(***************************************************************************)
(* Proofs about ConsumerBinding for any imps, specs, durable names and     *)
(* number of faults: what an imp is bound to, who is turned away, and      *)
(* which ephemeral consumers are left.                                     *)
(***************************************************************************)
EXTENDS ConsumerBinding, SequenceTheorems, WellFoundedInduction, TLAPS

-----------------------------------------------------------------------------
(* What makes the properties inductive *)

\* The consumer an imp is bound to, or has been,
\* is the one it would create itself or one it is compatible with, and nobody
\* replaces it; a consumer made by an imp is as that imp declared it.
Suits(got, src) ==
    \/ got = ServerConfig(buildConsumerConfig(src))
    \/ compatible(got, buildConsumerConfig(src))
BoundSuits ==
    \A i \in Imps : Bound(i) /\ ~Ephemeral(i) =>
        durables[Durable(i)] # None /\ Suits(durables[Durable(i)], Source(spec[i]))
ServedSuits ==
    \A src \in served : durables[src.durable] # None /\ Suits(durables[src.durable], src)
CreatedAsDeclared ==
    \A n \in Names :
        creator[n] # None => durables[n] = ServerConfig(buildConsumerConfig(creator[n]))
IInv == TypeOK /\ EphemeralsAccounted /\ BoundSuits /\ ServedSuits /\ CreatedAsDeclared

-----------------------------------------------------------------------------
(* The operators *)

\* A consumer the server makes for a declaration is as declared, with defaults
\* where nothing was.
LEMMA CreatedFields ==
    ASSUME NEW src \in Sources
    PROVE  LET want == buildConsumerConfig(src)
               got == ServerConfig(want)
           IN  /\ got.filter = want.filter /\ got.ack = want.ack
               /\ got.deliver = want.deliver /\ got.replay = want.replay
               /\ want.wait \in Nat /\ got.wait \in Nat /\ got.wait >= want.wait
               /\ want.max # 0 => got.max = want.max
BY AckWaits DEF buildConsumerConfig, ServerConfig

\* So it is compatible with the declaration if that asks for explicit acks.
LEMMA CreatedCompatible ==
    ASSUME NEW src \in Sources, src.cc.ack = AckExplicit
    PROVE  compatible(ServerConfig(buildConsumerConfig(src)), buildConsumerConfig(src))
<1>1. buildConsumerConfig(src).ack = AckExplicit
  BY DEF buildConsumerConfig
<1> QED  BY <1>1, CreatedFields DEF compatible

\* What is on the server waits for acks some time.
LEMMA StoredWait == ASSUME NEW got \in Stored PROVE got.wait \in Nat
BY AckWaits, CreatedFields DEF Stored

\* A consumer that suits a declaration is one to consume from.
LEMMA SuitsAsDeclared ==
    ASSUME NEW src \in Sources, NEW got \in Stored, Suits(got, src)
    PROVE  LET want == buildConsumerConfig(src) IN
           /\ got.filter = want.filter
           /\ got.ack \in {AckExplicit, want.ack}
           /\ want.deliver # 0 => got.deliver = want.deliver
           /\ want.replay # 0 => got.replay = want.replay
           /\ got.wait >= want.wait
           /\ want.max # 0 => got.max = want.max
<1>1. CASE got = ServerConfig(buildConsumerConfig(src))
  BY <1>1, CreatedFields
<1>2. CASE compatible(got, buildConsumerConfig(src))
  BY <1>2, CreatedFields, StoredWait DEF compatible
<1> QED  BY <1>1, <1>2 DEF Suits

-----------------------------------------------------------------------------
(* The steps *)

\* An imp past NewImp has a source the assumptions are about.
LEMMA Sourced ==
    ASSUME TypeOK, NEW i \in Imps, pc[i] # "down"
    PROVE  Source(spec[i]) \in Sources /\ (~Ephemeral(i) => Durable(i) \in Names)
BY DurablesNamed DEF TypeOK, Sources, Ephemeral, Durable

Labels == {"down", "stream", "lookup", "create", "consume", "up"}

\* What a step of imp i to label l does: it changes no consumer there is, takes
\* i to a consumer only if that suits its declaration, and keeps the books.
MovesTo(i, l) ==
    /\ pc[i] # "down" /\ pc' = [pc EXCEPT ![i] = l]
    /\ UNCHANGED <<spec, starts>>
    /\ \/ result' = result
       \/ l = "down" /\ \E e : result' = [result EXCEPT ![i] = <<e, 0>>]
    /\ l = "lookup" => ~Ephemeral(i)
FillsIn(i, l) ==
    /\ durables' \in [Names -> Stored \cup {None}]
    /\ \A n \in Names : durables[n] # None => durables'[n] = durables[n]
    /\ l \in {"consume", "up"} /\ ~Ephemeral(i) =>
          /\ durables'[Durable(i)] # None
          /\ Suits(durables'[Durable(i)], Source(spec[i]))
    /\ creator' \in [Names -> Sources \cup {None}]
    /\ \A n \in Names :
          creator'[n] # None => durables'[n] = ServerConfig(buildConsumerConfig(creator'[n]))
    /\ \/ served' = served
       \/ l = "up" /\ ~Ephemeral(i) /\ served' = served \cup {Source(spec[i])}
CountsFor(i, l) ==
    /\ ephemerals' \in [Imps -> Nat] /\ orphans' \in [Imps -> Nat]
    /\ \A j \in Imps \ {i} : ephemerals'[j] = ephemerals[j] /\ orphans'[j] = orphans[j]
    /\ ephemerals'[i] = orphans'[i] + IF l \in {"consume", "up"} /\ Ephemeral(i) THEN 1 ELSE 0

\* The others are bound as they were, and who has been served suits as before.
LEMMA StepSuits ==
    ASSUME IInv, NEW i \in Imps, NEW l \in Labels, MovesTo(i, l), FillsIn(i, l)
    PROVE  BoundSuits' /\ ServedSuits'
<1>0. spec' = spec /\ pc' = [pc EXCEPT ![i] = l]
  BY DEF MovesTo
<1>1. BoundSuits'
  <2> SUFFICES ASSUME NEW j \in Imps, Bound(j)', ~Ephemeral(j)'
               PROVE  /\ durables'[Source(spec'[j]).durable] # None
                      /\ Suits(durables'[Source(spec'[j]).durable], Source(spec'[j]))
    BY DEF BoundSuits, Durable
  <2>0. pc'[j] \in {"consume", "up"} /\ ~Ephemeral(j) /\ spec'[j] = spec[j]
    BY <1>0 DEF Bound, Ephemeral, Durable
  <2>1. CASE j = i
    <3>1. l \in {"consume", "up"}
      BY <1>0, <2>0, <2>1 DEF IInv, TypeOK
    <3> QED  BY <2>0, <2>1, <3>1 DEF Durable, FillsIn
  <2>2. CASE j # i
    <3>1. pc[j] \in {"consume", "up"}
      BY <1>0, <2>0, <2>2 DEF IInv, TypeOK
    <3>2. /\ durables[Durable(j)] # None
          /\ Suits(durables[Durable(j)], Source(spec[j]))
      BY <2>0, <3>1 DEF IInv, BoundSuits, Bound
    <3>3. Durable(j) \in Names
      BY <2>0, <3>1, Sourced DEF IInv
    <3> QED  BY <2>0, <3>2, <3>3 DEF Durable, FillsIn
  <2> QED  BY <2>1, <2>2
<1>2. ServedSuits'
  <2> SUFFICES ASSUME NEW src \in served'
               PROVE  durables'[src.durable] # None /\ Suits(durables'[src.durable], src)
    BY DEF ServedSuits
  <2>1. CASE src \in served
    <3>1. durables[src.durable] # None /\ Suits(durables[src.durable], src)
      BY <2>1 DEF IInv, ServedSuits
    <3>2. src.durable \in Names
      BY <2>1 DEF IInv, TypeOK
    <3> QED  BY <3>1, <3>2 DEF FillsIn
  <2>2. CASE src \notin served
    BY <2>2 DEF FillsIn, Durable
  <2> QED  BY <2>1, <2>2
<1> QED  BY <1>1, <1>2

\* Ephemeral consumers stay accounted for.
LEMMA StepCounts ==
    ASSUME IInv, NEW i \in Imps, NEW l \in Labels, MovesTo(i, l), CountsFor(i, l)
    PROVE  EphemeralsAccounted'
<1> SUFFICES ASSUME NEW j \in Imps
             PROVE  ephemerals'[j] =
                      orphans'[j] + IF pc'[j] \in {"consume", "up"} /\ Source(spec'[j]).durable = ""
                                    THEN 1 ELSE 0
  BY DEF EphemeralsAccounted, Bound, Ephemeral, Durable
<1>0. spec'[j] = spec[j] /\ pc' = [pc EXCEPT ![i] = l] /\ pc \in [Imps -> Labels]
  BY DEF MovesTo, IInv, TypeOK, Labels
<1>1. CASE j = i
  BY <1>0, <1>1 DEF CountsFor, Ephemeral, Durable
<1>2. CASE j # i
  <2>1. ephemerals[j] =
          orphans[j] + IF pc[j] \in {"consume", "up"} /\ Source(spec[j]).durable = "" THEN 1 ELSE 0
    BY DEF IInv, EphemeralsAccounted, Bound, Ephemeral, Durable
  <2> QED  BY <1>0, <1>2, <2>1 DEF CountsFor
<1> QED  BY <1>1, <1>2

\* And every variable its type.
LEMMA StepTypeOK ==
    ASSUME IInv, NEW i \in Imps, NEW l \in Labels,
           MovesTo(i, l), FillsIn(i, l), CountsFor(i, l), faults' \in 0..MaxFaults
    PROVE  TypeOK'
<1>0. /\ spec' = spec /\ starts' = starts /\ pc' = [pc EXCEPT ![i] = l]
      /\ TypeOK
  BY DEF MovesTo, IInv
<1>1. pc' \in [Imps -> {"down", "stream", "lookup", "create", "consume", "up"}]
  BY <1>0 DEF TypeOK, Labels
<1>2. DOMAIN result' = Imps
  BY <1>0 DEF TypeOK, MovesTo
<1>3. ASSUME NEW j \in Imps, pc'[j] # "down"
      PROVE  spec'[j] \in Accepted /\ result'[j] = Valid
  <2>1. pc[j] # "down"
    BY <1>0, <1>3 DEF TypeOK, MovesTo
  <2>2. spec[j] \in Accepted /\ result[j] = Valid
    BY <1>0, <2>1 DEF TypeOK
  <2>3. result'[j] = result[j]
    BY <1>0, <1>3 DEF TypeOK, MovesTo
  <2> QED  BY <1>0, <2>2, <2>3
<1>4. ASSUME NEW j \in Imps, pc'[j] = "lookup"
      PROVE  Source(spec'[j]).durable # ""
  BY <1>0, <1>4 DEF TypeOK, MovesTo, Ephemeral, Durable
<1>5. served' \subseteq {src \in Sources : src.durable \in Names}
  <2>1. Source(spec[i]) \in Sources /\ (~Ephemeral(i) => Durable(i) \in Names)
    BY <1>0, Sourced DEF MovesTo
  <2> QED  BY <1>0, <2>1 DEF TypeOK, FillsIn, Durable
<1>6. spec' \in [Imps -> Specs \cup {None}] /\ starts' \in 0..MaxStarts
  BY <1>0 DEF TypeOK
<1> QED  BY <1>1, <1>2, <1>3, <1>4, <1>5, <1>6 DEF TypeOK, FillsIn, CountsFor, Ephemeral, Durable

LEMMA StepIInv ==
    ASSUME IInv, NEW i \in Imps, NEW l \in Labels,
           MovesTo(i, l), FillsIn(i, l), CountsFor(i, l), faults' \in 0..MaxFaults
    PROVE  IInv'
<1>1. CreatedAsDeclared'
  BY DEF CreatedAsDeclared, FillsIn
<1> QED  BY <1>1, StepTypeOK, StepCounts, StepSuits DEF IInv

\* The parts an action leaves alone.
LEMMA NothingFilled ==
    ASSUME IInv, UNCHANGED <<durables, creator, served>>, NEW i \in Imps, NEW l \in Labels,
           l \in {"consume", "up"} /\ ~Ephemeral(i) =>
               /\ durables[Durable(i)] # None
               /\ Suits(durables[Durable(i)], Source(spec[i]))
    PROVE  FillsIn(i, l)
<1>1. durables \in [Names -> Stored \cup {None}] /\ creator \in [Names -> Sources \cup {None}]
  BY DEF IInv, TypeOK
<1>2. \A n \in Names :
        creator[n] # None => durables[n] = ServerConfig(buildConsumerConfig(creator[n]))
  BY DEF IInv, CreatedAsDeclared
<1> QED  BY <1>1, <1>2 DEF FillsIn

LEMMA NothingCounted ==
    ASSUME IInv, UNCHANGED <<ephemerals, orphans>>, NEW i \in Imps, NEW l \in Labels,
           (l \in {"consume", "up"} <=> Bound(i)) \/ ~Ephemeral(i)
    PROVE  CountsFor(i, l)
<1>1. ephemerals \in [Imps -> Nat] /\ orphans \in [Imps -> Nat]
  BY DEF IInv, TypeOK
<1>2. ephemerals[i] = orphans[i] + IF Bound(i) /\ Ephemeral(i) THEN 1 ELSE 0
  BY DEF IInv, EphemeralsAccounted
<1> QED  BY <1>1, <1>2 DEF CountsFor

LEMMA FaultBound ==
    ASSUME IInv, Fault \/ NoFault
    PROVE  faults' \in 0..MaxFaults
BY BindingBounds DEF IInv, TypeOK, Fault, NoFault

LEMMA NewImpNilIInv ==
    ASSUME IInv, NEW i \in Imps, NewImpNil(i)
    PROVE  IInv'
<1>0. /\ pc[i] = "down" /\ pc' = [pc EXCEPT ![i] = "down"] /\ TypeOK
      /\ UNCHANGED <<durables, ephemerals, spec, creator, served, orphans, faults>>
      /\ result' = [result EXCEPT ![i] = <<"nats.Conn", 0>>]
      /\ starts' \in 0..MaxStarts
  BY BindingBounds DEF NewImpNil, Down, IInv, TypeOK, server, history
<1>1. pc' = pc
  BY <1>0 DEF TypeOK
<1>2. TypeOK'
  BY <1>0, <1>1 DEF TypeOK, Ephemeral, Durable
<1>3. EphemeralsAccounted'
  BY <1>0, <1>1 DEF IInv, EphemeralsAccounted, Bound, Ephemeral, Durable
<1>4. BoundSuits'
  BY <1>0, <1>1 DEF IInv, BoundSuits, Bound, Ephemeral, Durable
<1>5. ServedSuits' /\ CreatedAsDeclared'
  BY <1>0 DEF IInv, ServedSuits, CreatedAsDeclared
<1> QED  BY <1>2, <1>3, <1>4, <1>5 DEF IInv

LEMMA NewImpIInv ==
    ASSUME IInv, NEW i \in Imps, NEW s \in Specs, NewImp(i, s)
    PROVE  IInv'
<1>0. /\ pc[i] = "down" /\ spec' = [spec EXCEPT ![i] = s] /\ TypeOK
      /\ UNCHANGED <<durables, ephemerals, creator, served, orphans, faults>>
      /\ result' = [result EXCEPT ![i] = validateSpec(s)]
      /\ starts' \in 0..MaxStarts
  BY BindingBounds DEF NewImp, IInv, TypeOK, server, history
<1>1. pc' = [pc EXCEPT ![i] = IF validateSpec(s) = Valid THEN "stream" ELSE "down"]
  BY <1>0 DEF NewImp, TypeOK
<1>2. TypeOK'
  <2>1. ASSUME NEW j \in Imps, pc'[j] # "down"
        PROVE  spec'[j] \in Accepted /\ result'[j] = Valid
    <3>1. CASE j = i
      BY <1>0, <1>1, <2>1, <3>1 DEF TypeOK, Accepted
    <3>2. CASE j # i
      BY <1>0, <1>1, <2>1, <3>2 DEF TypeOK
    <3> QED  BY <3>1, <3>2
  <2>2. ASSUME NEW j \in Imps, pc'[j] = "lookup"
        PROVE  Source(spec'[j]).durable # ""
    BY <1>0, <1>1, <2>2 DEF TypeOK, Ephemeral, Durable
  <2>3. pc' \in [Imps -> {"down", "stream", "lookup", "create", "consume", "up"}]
    BY <1>0, <1>1 DEF TypeOK
  <2>4. spec' \in [Imps -> Specs \cup {None}] /\ DOMAIN result' = Imps
    BY <1>0 DEF TypeOK
  <2> QED  BY <1>0, <2>1, <2>2, <2>3, <2>4 DEF TypeOK, Ephemeral, Durable
<1>3. EphemeralsAccounted'
  <2> SUFFICES ASSUME NEW j \in Imps
               PROVE  ephemerals[j] =
                        orphans[j] + IF pc'[j] \in {"consume", "up"} /\ Source(spec'[j]).durable = ""
                                     THEN 1 ELSE 0
    BY <1>0 DEF EphemeralsAccounted, Bound, Ephemeral, Durable
  <2>1. ephemerals[j] =
          orphans[j] + IF pc[j] \in {"consume", "up"} /\ Source(spec[j]).durable = "" THEN 1 ELSE 0
    BY DEF IInv, EphemeralsAccounted, Bound, Ephemeral, Durable
  <2>2. CASE j = i
    BY <1>0, <1>1, <2>1, <2>2 DEF TypeOK
  <2>3. CASE j # i
    BY <1>0, <1>1, <2>1, <2>3 DEF TypeOK
  <2> QED  BY <2>2, <2>3
<1>4. BoundSuits'
  <2> SUFFICES ASSUME NEW j \in Imps, pc'[j] \in {"consume", "up"}, Source(spec'[j]).durable # ""
               PROVE  /\ durables'[Source(spec'[j]).durable] # None
                      /\ Suits(durables'[Source(spec'[j]).durable], Source(spec'[j]))
    BY DEF BoundSuits, Durable, Bound, Ephemeral
  <2>1. j # i /\ pc'[j] = pc[j] /\ spec'[j] = spec[j]
    BY <1>0, <1>1 DEF TypeOK
  <2> QED  BY <1>0, <2>1 DEF IInv, BoundSuits, Durable, Bound, Ephemeral
<1>5. ServedSuits' /\ CreatedAsDeclared'
  BY <1>0 DEF IInv, ServedSuits, CreatedAsDeclared
<1> QED  BY <1>2, <1>3, <1>4, <1>5 DEF IInv

LEMMA LookupStreamIInv ==
    ASSUME IInv, NEW i \in Imps, LookupStream(i)
    PROVE  IInv'
<1>0. /\ pc[i] = "stream" /\ ~Bound(i) /\ faults' \in 0..MaxFaults
      /\ UNCHANGED <<durables, ephemerals, spec, creator, served, orphans, starts>>
  BY FaultBound DEF LookupStream, server, history, Bound
<1>1. PICK l \in {"create", "lookup", "down"} : MovesTo(i, l)
  <2>1. CASE Goto(i, IF Ephemeral(i) THEN "create" ELSE "lookup")
    BY <1>0, <2>1 DEF Goto, MovesTo
  <2>2. CASE \E err \in {"ErrStreamNotFound", "error"} : Down(i, err)
    BY <1>0, <2>2 DEF Down, MovesTo
  <2> QED  BY <2>1, <2>2 DEF LookupStream
<1>2. l \in Labels
  BY DEF Labels
<1> QED  BY <1>0, <1>1, <1>2, NothingFilled, NothingCounted, StepIInv

LEMMA LookupConsumerIInv ==
    ASSUME IInv, NEW i \in Imps, LookupConsumer(i)
    PROVE  IInv'
<1>0. /\ pc[i] = "lookup" /\ ~Bound(i) /\ ~Ephemeral(i) /\ faults' \in 0..MaxFaults
      /\ UNCHANGED <<durables, ephemerals, spec, creator, served, orphans, starts>>
  BY FaultBound DEF LookupConsumer, server, history, Bound, IInv, TypeOK
<1>1. CASE Goto(i, "create") \/ \E err : Down(i, err)
  <2>1. PICK l \in {"create", "down"} : MovesTo(i, l)
    BY <1>0, <1>1 DEF Goto, Down, MovesTo
  <2>2. l \in Labels
    BY DEF Labels
  <2> QED  BY <1>0, <2>1, <2>2, NothingFilled, NothingCounted, StepIInv
<1>2. CASE /\ Goto(i, "consume") /\ durables[Durable(i)] # None
           /\ compatible(durables[Durable(i)], Config(i))
  <2>1. MovesTo(i, "consume") /\ "consume" \in Labels
    BY <1>0, <1>2 DEF Goto, MovesTo, Labels
  <2>2. Suits(durables[Durable(i)], Source(spec[i]))
    BY <1>2 DEF Suits, Config
  <2> QED  BY <1>0, <1>2, <2>1, <2>2, NothingFilled, NothingCounted, StepIInv
<1> QED  BY <1>1, <1>2 DEF LookupConsumer

LEMMA CreateDurableIInv ==
    ASSUME IInv, NEW i \in Imps, CreateDurable(i)
    PROVE  IInv'
<1>0. /\ pc[i] = "create" /\ ~Bound(i) /\ ~Ephemeral(i) /\ faults' \in 0..MaxFaults
      /\ UNCHANGED <<ephemerals, spec, served, orphans, starts>>
  BY FaultBound DEF CreateDurable, Bound
<1>1. Source(spec[i]) \in Sources /\ Durable(i) \in Names
  BY <1>0, Sourced DEF IInv
<1>2. CASE /\ UNCHANGED <<durables, creator>> /\ \E err : Down(i, err)
  <2>1. MovesTo(i, "down") /\ "down" \in Labels
    BY <1>0, <1>2 DEF Down, MovesTo, Labels
  <2> QED  BY <1>0, <1>2, <2>1, NothingFilled, NothingCounted, StepIInv
<1>3. CASE /\ durables[Durable(i)] = ServerConfig(Config(i))
           /\ Goto(i, "consume") /\ UNCHANGED <<durables, creator>>
  <2>1. MovesTo(i, "consume") /\ "consume" \in Labels
    BY <1>0, <1>3 DEF Goto, MovesTo, Labels
  <2>2. durables[Durable(i)] # None /\ Suits(durables[Durable(i)], Source(spec[i]))
    BY <1>1, <1>3, NoneIsNoConfig DEF Suits, Config
  <2> QED  BY <1>0, <1>3, <2>1, <2>2, NothingFilled, NothingCounted, StepIInv
<1>4. CASE /\ durables[Durable(i)] = None
           /\ durables' = [durables EXCEPT ![Durable(i)] = ServerConfig(Config(i))]
           /\ creator' = [creator EXCEPT ![Durable(i)] = Source(spec[i])]
           /\ Goto(i, "consume") \/ \E err : Down(i, err)
  <2>1. PICK l \in {"consume", "down"} : MovesTo(i, l)
    BY <1>0, <1>4 DEF Goto, Down, MovesTo
  <2>2. l \in Labels
    BY DEF Labels
  <2>3. ServerConfig(Config(i)) \in Stored /\ ServerConfig(Config(i)) # None
    BY <1>1, NoneIsNoConfig DEF Stored, Config
  <2>4. /\ durables \in [Names -> Stored \cup {None}]
        /\ creator \in [Names -> Sources \cup {None}]
    BY DEF IInv, TypeOK
  <2>5. /\ durables' \in [Names -> Stored \cup {None}]
        /\ creator' \in [Names -> Sources \cup {None}]
        /\ \A n \in Names : durables[n] # None => durables'[n] = durables[n]
    BY <1>1, <1>4, <2>3, <2>4
  <2>6. durables'[Durable(i)] # None /\ Suits(durables'[Durable(i)], Source(spec[i]))
    BY <1>1, <1>4, <2>3, <2>4 DEF Suits, Config
  <2>7. ASSUME NEW n \in Names, creator'[n] # None
        PROVE  durables'[n] = ServerConfig(buildConsumerConfig(creator'[n]))
    BY <1>1, <1>4, <2>4, <2>7 DEF IInv, CreatedAsDeclared, Config
  <2>8. FillsIn(i, l)
    BY <1>0, <2>5, <2>6, <2>7 DEF FillsIn
  <2> QED  BY <1>0, <2>1, <2>2, <2>8, NothingCounted, StepIInv
<1> QED  BY <1>2, <1>3, <1>4 DEF CreateDurable

LEMMA CreateEphemeralIInv ==
    ASSUME IInv, NEW i \in Imps, CreateEphemeral(i)
    PROVE  IInv'
<1>0. /\ pc[i] = "create" /\ ~Bound(i) /\ Ephemeral(i) /\ faults' \in 0..MaxFaults
      /\ UNCHANGED <<durables, spec, creator, served, starts>>
  BY FaultBound DEF CreateEphemeral, Bound
<1>1. PICK l \in {"consume", "down"} : MovesTo(i, l) /\ CountsFor(i, l)
  <2>1. /\ ephemerals \in [Imps -> Nat] /\ orphans \in [Imps -> Nat]
        /\ ephemerals[i] = orphans[i]
    BY <1>0 DEF IInv, TypeOK, EphemeralsAccounted
  <2>2. CASE /\ ephemerals' = [ephemerals EXCEPT ![i] = @ + 1]
             /\ Goto(i, "consume") /\ UNCHANGED orphans
    BY <1>0, <2>1, <2>2 DEF Goto, MovesTo, CountsFor
  <2>3. CASE /\ ephemerals' = [ephemerals EXCEPT ![i] = @ + 1]
             /\ Down(i, "ErrSubscriptionFailed") /\ orphans' = [orphans EXCEPT ![i] = @ + 1]
    <3>1. MovesTo(i, "down")
      BY <1>0, <2>3 DEF Down, MovesTo
    <3>2. CountsFor(i, "down")
      BY <2>1, <2>3 DEF CountsFor
    <3> QED  BY <3>1, <3>2
  <2>4. CASE (\E err : Down(i, err)) /\ UNCHANGED <<ephemerals, orphans>>
    <3>1. MovesTo(i, "down")
      BY <1>0, <2>4 DEF Down, MovesTo
    <3>2. CountsFor(i, "down")
      BY <2>1, <2>4 DEF CountsFor
    <3> QED  BY <3>1, <3>2
  <2> QED  BY <2>2, <2>3, <2>4 DEF CreateEphemeral
<1>2. l \in Labels
  BY DEF Labels
<1> QED  BY <1>0, <1>1, <1>2, NothingFilled, StepIInv

\* Deleting the ephemeral consumer of an imp that was bound to it.
LEMMA DeleteCounts ==
    ASSUME IInv, NEW i \in Imps, Bound(i), DeleteEphemeral(i)
    PROVE  CountsFor(i, "down")
<1>1. /\ ephemerals \in [Imps -> Nat] /\ orphans \in [Imps -> Nat]
      /\ ephemerals[i] = orphans[i] + IF Ephemeral(i) THEN 1 ELSE 0
  BY DEF IInv, TypeOK, EphemeralsAccounted
<1>2. CASE Ephemeral(i)
  BY <1>1, <1>2 DEF DeleteEphemeral, CountsFor
<1>3. CASE ~Ephemeral(i)
  BY <1>1, <1>3 DEF DeleteEphemeral, CountsFor
<1> QED  BY <1>2, <1>3

LEMMA ConsumeIInv ==
    ASSUME IInv, NEW i \in Imps, Consume(i)
    PROVE  IInv'
<1>0. /\ pc[i] = "consume" /\ Bound(i) /\ faults' \in 0..MaxFaults
      /\ UNCHANGED <<durables, spec, creator, starts>>
  BY FaultBound DEF Consume, Bound
<1>1. CASE /\ Goto(i, "up") /\ UNCHANGED <<ephemerals, orphans>>
           /\ served' = IF Ephemeral(i) THEN served ELSE served \cup {Source(spec[i])}
  <2>1. MovesTo(i, "up") /\ "up" \in Labels
    BY <1>0, <1>1 DEF Goto, MovesTo, Labels
  <2>2. FillsIn(i, "up")
    <3>1. /\ durables \in [Names -> Stored \cup {None}]
          /\ creator \in [Names -> Sources \cup {None}]
      BY DEF IInv, TypeOK
    <3>2. \A n \in Names :
            creator[n] # None => durables[n] = ServerConfig(buildConsumerConfig(creator[n]))
      BY DEF IInv, CreatedAsDeclared
    <3>3. ~Ephemeral(i) => /\ durables[Durable(i)] # None
                           /\ Suits(durables[Durable(i)], Source(spec[i]))
      BY <1>0 DEF IInv, BoundSuits
    <3> QED  BY <1>0, <1>1, <3>1, <3>2, <3>3 DEF FillsIn
  <2> QED  BY <1>0, <1>1, <2>1, <2>2, NothingCounted, StepIInv
<1>2. CASE Down(i, "ErrSubscriptionFailed") /\ DeleteEphemeral(i) /\ UNCHANGED served
  <2>1. MovesTo(i, "down") /\ "down" \in Labels
    BY <1>0, <1>2 DEF Down, MovesTo, Labels
  <2> QED  BY <1>0, <1>2, <2>1, NothingFilled, DeleteCounts, StepIInv
<1> QED  BY <1>1, <1>2 DEF Consume

LEMMA ShutdownIInv ==
    ASSUME IInv, NEW i \in Imps, Shutdown(i)
    PROVE  IInv'
<1>1. Bound(i) /\ faults' \in 0..MaxFaults
  BY DEF Shutdown, Bound, IInv, TypeOK
<1>2. MovesTo(i, "down") /\ "down" \in Labels
  BY DEF Shutdown, Down, MovesTo, Labels
<1> QED  BY <1>1, <1>2, NothingFilled, DeleteCounts, StepIInv DEF Shutdown

LEMMA CrashIInv ==
    ASSUME IInv, NEW i \in Imps, Crash(i)
    PROVE  IInv'
<1>1. MovesTo(i, "down") /\ "down" \in Labels /\ faults' \in 0..MaxFaults
  BY FaultBound DEF Crash, Down, MovesTo, Labels
<1>2. CountsFor(i, "down")
  <2>1. /\ ephemerals \in [Imps -> Nat] /\ orphans \in [Imps -> Nat]
        /\ ephemerals[i] = orphans[i] + IF Bound(i) /\ Ephemeral(i) THEN 1 ELSE 0
    BY DEF IInv, TypeOK, EphemeralsAccounted
  <2> QED  BY <2>1 DEF Crash, CountsFor, Bound, server
<1>3. FillsIn(i, "down")
  BY NothingFilled DEF Crash, server, Labels
<1> QED  BY <1>1, <1>2, <1>3, StepIInv

-----------------------------------------------------------------------------
(* The specification *)

LEMMA InitIInv == ASSUME Init PROVE IInv
<1>1. TypeOK
  BY BindingBounds DEF Init, TypeOK, Stored
<1>2. EphemeralsAccounted /\ BoundSuits
  BY DEF Init, EphemeralsAccounted, BoundSuits, Bound
<1>3. ServedSuits /\ CreatedAsDeclared
  BY DEF Init, ServedSuits, CreatedAsDeclared
<1> QED  BY <1>1, <1>2, <1>3 DEF IInv

LEMMA NextIInv == ASSUME IInv, [Next]_vars PROVE IInv'
<1>1. CASE UNCHANGED vars
  <2>1. TypeOK'
    BY <1>1 DEF IInv, TypeOK, vars, server, history, Ephemeral, Durable
  <2>2. EphemeralsAccounted'
    BY <1>1 DEF IInv, EphemeralsAccounted, vars, server, history, Bound, Ephemeral, Durable
  <2>3. BoundSuits'
    BY <1>1 DEF IInv, BoundSuits, vars, server, history, Bound, Ephemeral, Durable
  <2>4. ServedSuits' /\ CreatedAsDeclared'
    BY <1>1 DEF IInv, ServedSuits, CreatedAsDeclared, vars, server, history
  <2> QED  BY <2>1, <2>2, <2>3, <2>4 DEF IInv
<1>2. ASSUME NEW i \in Imps, NEW s \in Specs, NewImp(i, s) PROVE IInv'
  BY <1>2, NewImpIInv
<1>2a. ASSUME NEW i \in Imps, NewImpNil(i) PROVE IInv'
  BY <1>2a, NewImpNilIInv
<1>3. ASSUME NEW i \in Imps, LookupStream(i) \/ LookupConsumer(i) PROVE IInv'
  BY <1>3, LookupStreamIInv, LookupConsumerIInv
<1>4. ASSUME NEW i \in Imps, CreateDurable(i) \/ CreateEphemeral(i) PROVE IInv'
  BY <1>4, CreateDurableIInv, CreateEphemeralIInv
<1>5. ASSUME NEW i \in Imps, Consume(i) \/ Shutdown(i) \/ Crash(i) PROVE IInv'
  BY <1>5, ConsumeIInv, ShutdownIInv, CrashIInv
<1> QED  BY <1>1, <1>2, <1>2a, <1>3, <1>4, <1>5 DEF Next

\* Every variable keeps its type, and an imp past NewImp has a spec that passed
\* validation: the type invariant and the one that proves the rest.
THEOREM BindingInvariant == Spec => []IInv
<1>1. Init => IInv
  BY InitIInv
<1>2. IInv /\ [Next]_vars => IInv'
  BY NextIInv
<1> QED  BY <1>1, <1>2, PTL DEF Spec

\* stream.go:193-196: however the calls of the imps interleave, whatever calls
\* fail and whatever consumers were there before, an imp consumes only from a
\* consumer that is as it declared.
THEOREM SpecBoundAsDeclared == Spec => []BoundAsDeclared
<1>1. IInv => BoundAsDeclared
  <2> SUFFICES ASSUME IInv, NEW i \in Imps, Bound(i), ~Ephemeral(i)
               PROVE  LET got == durables[Durable(i)]
                          want == Config(i)
                      IN  /\ got # None
                          /\ got.filter = want.filter
                          /\ got.ack \in {AckExplicit, want.ack}
                          /\ want.deliver # 0 => got.deliver = want.deliver
                          /\ want.replay # 0 => got.replay = want.replay
                          /\ got.wait >= want.wait
                          /\ want.max # 0 => got.max = want.max
    BY DEF BoundAsDeclared
  <2>1. Source(spec[i]) \in Sources /\ Durable(i) \in Names
    BY Sourced DEF IInv, Bound
  <2>2. durables[Durable(i)] # None /\ Suits(durables[Durable(i)], Source(spec[i]))
    BY DEF IInv, BoundSuits
  <2>3. durables[Durable(i)] \in Stored
    BY <2>1, <2>2 DEF IInv, TypeOK
  <2> QED  BY <2>1, <2>2, <2>3, SuitsAsDeclared DEF Config
<1> QED  BY <1>1, BindingInvariant, PTL

\* FR-005b: no ephemeral consumer is left by Shutdown, by a failed Consume or
\* by a crash, other than one per fault.
THEOREM SpecEphemeralsAccounted == Spec => []EphemeralsAccounted
<1>1. IInv => EphemeralsAccounted
  BY DEF IInv
<1> QED  BY <1>1, BindingInvariant, PTL

\* Why an imp on its way to a consumer is turned away from one.
Refusals == {"ErrConsumerIncompatible", "exists"}

LEMMA RefusedWhy ==
    ASSUME TypeOK, [Next]_vars, NEW i \in Imps, pc[i] \in {"lookup", "create"},
           result'[i][1] \in Refusals
    PROVE  /\ ~Ephemeral(i) /\ durables[Durable(i)] # None
           /\ \/ /\ result'[i][1] = "ErrConsumerIncompatible"
                 /\ ~compatible(durables[Durable(i)], Config(i))
              \/ /\ result'[i][1] = "exists"
                 /\ durables[Durable(i)] # ServerConfig(Config(i))
<1>0. result[i] = Valid /\ DOMAIN result = Imps
  BY DEF TypeOK
<1>1. result'[i] # result[i]
  <2>1. result[i][1] \notin Refusals
    BY <1>0 DEF Valid, Refusals
  <2> QED  BY <2>1
<1>2. PICK j \in Imps :
        \/ NewImpNil(j) \/ \E s \in Specs : NewImp(j, s)
        \/ LookupStream(j) \/ LookupConsumer(j)
        \/ CreateDurable(j) \/ CreateEphemeral(j) \/ Consume(j)
        \/ Shutdown(j) \/ Crash(j)
  BY <1>1 DEF Next, vars
<1>3. PICK e : result' = result \/ result' = [result EXCEPT ![j] = e]
  <2>1. CASE NewImpNil(j) \/ \E s \in Specs : NewImp(j, s)
    BY <2>1 DEF NewImpNil, NewImp, Down
  <2>2. CASE LookupStream(j)
    BY <2>2 DEF LookupStream, Goto, Down
  <2>3. CASE LookupConsumer(j)
    BY <2>3 DEF LookupConsumer, Goto, Down
  <2>4. CASE CreateDurable(j)
    BY <2>4 DEF CreateDurable, Goto, Down
  <2>5. CASE CreateEphemeral(j)
    BY <2>5 DEF CreateEphemeral, Goto, Down
  <2>6. CASE Consume(j)
    BY <2>6 DEF Consume, Goto, Down
  <2>7. CASE Shutdown(j) \/ Crash(j)
    BY <2>7 DEF Shutdown, Crash, Down
  <2> QED  BY <1>2, <2>1, <2>2, <2>3, <2>4, <2>5, <2>6, <2>7
<1>4. j = i
  BY <1>0, <1>1, <1>3
<1>5. ~NewImpNil(i) /\ ~\E s \in Specs : NewImp(i, s)
  BY DEF NewImpNil, NewImp
<1>6. ~LookupStream(i) /\ ~Consume(i) /\ ~Shutdown(i)
  BY DEF LookupStream, Consume, Shutdown
<1>7. ASSUME NEW err, Down(i, err) PROVE err = result'[i][1]
  BY <1>0, <1>7 DEF Down
<1>8. ~Crash(i)
  BY <1>7 DEF Crash, Refusals
<1>9. ~CreateEphemeral(i)
  <2>1. ~Down(i, "refused") /\ ~Down(i, "ErrSubscriptionFailed")
    BY <1>7 DEF Refusals
  <2>2. ~Goto(i, "consume")
    BY <1>1 DEF Goto
  <2> QED  BY <2>1, <2>2 DEF CreateEphemeral
<1>10. CASE LookupConsumer(i)
  <2>1. ~Down(i, "error") /\ ~Goto(i, "create") /\ ~Goto(i, "consume")
    BY <1>1, <1>7 DEF Goto, Refusals
  <2>2. ~Ephemeral(i)
    BY <1>10 DEF LookupConsumer, TypeOK
  <2> QED  BY <1>7, <1>10, <2>1, <2>2 DEF LookupConsumer
<1>11. CASE CreateDurable(i)
  <2>1. ~Down(i, "refused") /\ ~Down(i, "ErrSubscriptionFailed") /\ ~Goto(i, "consume")
    BY <1>1, <1>7 DEF Goto, Refusals
  <2> QED  BY <1>7, <1>11, <2>1 DEF CreateDurable
<1> QED  BY <1>2, <1>4, <1>5, <1>6, <1>8, <1>9, <1>10, <1>11

\* Replicas and restarts: who declares explicit acks is never turned away from a
\* consumer made from its own declaration, nor found incompatible with one that
\* it, or another imp declared as it is, has consumed from.
THEOREM SpecSameDeclarationWelcome == Spec => SameDeclarationWelcome
<1> DEFINE Welcome == \A i \in Imps :
      LET src == Source(spec[i])
          refused == result'[i][1] IN
      pc[i] \in {"lookup", "create"} /\ src.cc.ack = AckExplicit =>
         /\ refused \in {"ErrConsumerIncompatible", "exists"} => creator[src.durable] # src
         /\ refused = "ErrConsumerIncompatible" => src \notin served
<1>1. IInv /\ [Next]_vars => [Welcome]_vars
  <2> SUFFICES ASSUME IInv, [Next]_vars,
                      NEW i \in Imps, pc[i] \in {"lookup", "create"},
                      Source(spec[i]).cc.ack = AckExplicit,
                      result'[i][1] \in Refusals
               PROVE  /\ creator[Source(spec[i]).durable] # Source(spec[i])
                      /\ result'[i][1] = "ErrConsumerIncompatible" => Source(spec[i]) \notin served
    BY DEF Refusals
  <2>0. TypeOK
    BY DEF IInv
  <2>1. /\ ~Ephemeral(i) /\ durables[Durable(i)] # None
        /\ \/ /\ result'[i][1] = "ErrConsumerIncompatible"
              /\ ~compatible(durables[Durable(i)], Config(i))
           \/ /\ result'[i][1] = "exists"
              /\ durables[Durable(i)] # ServerConfig(Config(i))
    BY <2>0, RefusedWhy
  <2>2. Source(spec[i]) \in Sources /\ Durable(i) \in Names
    BY <2>0, <2>1, Sourced
  <2>3. compatible(ServerConfig(Config(i)), Config(i))
    BY <2>2, CreatedCompatible DEF Config
  <2>4. creator[Durable(i)] # Source(spec[i])
    <3> SUFFICES ASSUME creator[Durable(i)] = Source(spec[i]) PROVE FALSE
      OBVIOUS
    <3>1. creator[Durable(i)] # None
      BY <2>2, NoneIsNoSource
    <3>2. durables[Durable(i)] = ServerConfig(Config(i))
      BY <2>2, <3>1 DEF IInv, CreatedAsDeclared, Config
    <3> QED  BY <2>1, <2>3, <3>2
  <2>5. ASSUME result'[i][1] = "ErrConsumerIncompatible", Source(spec[i]) \in served PROVE FALSE
    <3>1. Suits(durables[Durable(i)], Source(spec[i]))
      BY <2>5 DEF IInv, ServedSuits, Durable
    <3>2. ~compatible(durables[Durable(i)], Config(i))
      BY <2>1, <2>5
    <3> QED  BY <2>3, <3>1, <3>2 DEF Suits, Config
  <2> QED  BY <2>4, <2>5 DEF Durable
<1> QED  BY <1>1, BindingInvariant, PTL DEF Spec, SameDeclarationWelcome

\* FR-005a for imps that ack explicitly, the default: a restart with a declaration
\* that has been served before is not refused as incompatible, whoever made the
\* consumer and whatever was declared in between.
THEOREM ExplicitNeverRefused ==
    ASSUME \A src \in Sources : src.cc.ack = AckExplicit
    PROVE  Spec => UnchangedNeverRefused
<1> DEFINE Refused(i) == pc[i] = "lookup" /\ result'[i][1] = "ErrConsumerIncompatible"
           Welcome == \A i \in Imps :
              LET src == Source(spec[i])
                  refused == result'[i][1] IN
              pc[i] \in {"lookup", "create"} /\ src.cc.ack = AckExplicit =>
                 /\ refused \in {"ErrConsumerIncompatible", "exists"} => creator[src.durable] # src
                 /\ refused = "ErrConsumerIncompatible" => src \notin served
<1>1. ASSUME IInv, [Welcome]_vars
      PROVE  [\A i \in Imps : Refused(i) => Source(spec[i]) \notin served]_vars
  <2>1. ASSUME NEW i \in Imps, pc[i] = "lookup" PROVE Source(spec[i]).cc.ack = AckExplicit
    BY <1>1, <2>1 DEF IInv, TypeOK, Sources
  <2> QED  BY <1>1, <2>1
<1>2. Spec => [][Welcome]_vars
  BY SpecSameDeclarationWelcome DEF SameDeclarationWelcome
<1> QED  BY <1>1, <1>2, BindingInvariant, PTL DEF UnchangedNeverRefused

-----------------------------------------------------------------------------
(* Validation *)

\* Every set of numbers that is not empty has a least one.
LEMMA LeastOf ==
    ASSUME NEW T \in SUBSET Nat, T # {}
    PROVE  \E m \in T : \A k \in T : m <= k
<1> DEFINE R == OpToRel(<, Nat)
<1>1. IsWellFoundedOn(R, Nat)
  BY NatLessThanWellFounded
<1>2. \A x, y \in Nat : x < y => <<x, y>> \in R
  BY DEF OpToRel
<1> HIDE DEF R
<1>3. PICK m \in T : \A k \in T : ~(<<k, m>> \in R)
  BY <1>1, WFMin
<1>4. T \subseteq Nat
  OBVIOUS
<1>5. \A k \in T : m <= k
  <2> TAKE k \in T
  <2>1. ~(k < m)
    <3>1. k \in Nat /\ m \in Nat
      BY <1>4
    <3> QED  BY <1>2, <1>3, <3>1, Zenon
  <2>2. k \in Int /\ m \in Int
    BY <1>4
  <2> QED  BY <2>1, <2>2
<1> QED  BY <1>5

\* FirstOf returns Valid when no check fails, and the error of the first that
\* does otherwise.
LEMMA FirstOfIs ==
    ASSUME NEW n \in Nat, NEW errs, DOMAIN errs = 1..n
    PROVE  \/ FirstOf(errs) = Valid /\ \A k \in 1..n : errs[k] = Valid
           \/ \E r \in 1..n : /\ FirstOf(errs) = errs[r] /\ errs[r] # Valid
                              /\ \A q \in 1..(r - 1) : errs[q] = Valid
<1> DEFINE bad == {r \in 1..n : errs[r] # Valid}
<1>1. FirstOf(errs) = IF bad = {} THEN Valid ELSE errs[CHOOSE r \in bad : \A q \in bad : r <= q]
  BY DEF FirstOf
<1>2. CASE bad = {}
  BY <1>1, <1>2
<1>3. CASE bad # {}
  <2>1. PICK m \in bad : \A q \in bad : m <= q
    <3>1. bad \in SUBSET Nat
      OBVIOUS
    <3> HIDE DEF bad
    <3> QED  BY <1>3, <3>1, LeastOf
  <2>2. PICK r \in bad : r = (CHOOSE x \in bad : \A q \in bad : x <= q) /\ \A q \in bad : r <= q
    <3> HIDE DEF bad
    <3> QED  BY <2>1
  <2>3. FirstOf(errs) = errs[r]
    BY <1>1, <1>3, <2>2
  <2>4. \A q \in 1..(r - 1) : errs[q] = Valid
    <3> TAKE q \in 1..(r - 1)
    <3>1. q \in 1..n /\ ~(r <= q)
      OBVIOUS
    <3> QED  BY <2>2, <3>1
  <2> QED  BY <2>3, <2>4
<1> QED  BY <1>2, <1>3

\* The first error of four checks, and of six.
LEMMA FirstOfFour ==
    ASSUME NEW a, NEW b, NEW c, NEW d
    PROVE  FirstOf(<<a, b, c, d>>) =
             IF a # Valid THEN a ELSE IF b # Valid THEN b ELSE IF c # Valid THEN c ELSE d
<1> DEFINE t == <<a, b, c, d>>
<1>1. DOMAIN t = 1..4 /\ t[1] = a /\ t[2] = b /\ t[3] = c /\ t[4] = d
  OBVIOUS
<1> HIDE DEF t
<1>2. 4 \in Nat
  OBVIOUS
<1>3. \/ FirstOf(t) = Valid /\ \A k \in 1..4 : t[k] = Valid
      \/ \E r \in 1..4 : /\ FirstOf(t) = t[r] /\ t[r] # Valid
                         /\ \A q \in 1..(r - 1) : t[q] = Valid
  BY <1>1, <1>2, FirstOfIs
<1>4. CASE FirstOf(t) = Valid /\ \A k \in 1..4 : t[k] = Valid
  <2>1. a = Valid /\ b = Valid /\ c = Valid /\ d = Valid
    BY <1>1, <1>4
  <2> QED  BY <1>4, <2>1 DEF t
<1>5. ASSUME NEW r \in 1..4, FirstOf(t) = t[r], t[r] # Valid, \A q \in 1..(r - 1) : t[q] = Valid
      PROVE  FirstOf(t) =
             IF a # Valid THEN a ELSE IF b # Valid THEN b ELSE IF c # Valid THEN c ELSE d
  <2>1. r = 1 \/ r = 2 \/ r = 3 \/ r = 4
    OBVIOUS
  <2> QED  BY <1>1, <1>5, <2>1
<1> QED  BY <1>3, <1>4, <1>5 DEF t

LEMMA FirstOfSix ==
    ASSUME NEW a, NEW b, NEW c, NEW d, NEW e, NEW f
    PROVE  FirstOf(<<a, b, c, d, e, f>>) =
             IF a # Valid THEN a ELSE IF b # Valid THEN b ELSE IF c # Valid THEN c
             ELSE IF d # Valid THEN d ELSE IF e # Valid THEN e ELSE f
<1> DEFINE t == <<a, b, c, d, e, f>>
<1>1. DOMAIN t = 1..6 /\ t[1] = a /\ t[2] = b /\ t[3] = c /\ t[4] = d /\ t[5] = e /\ t[6] = f
  OBVIOUS
<1> HIDE DEF t
<1>2. 6 \in Nat
  OBVIOUS
<1>3. \/ FirstOf(t) = Valid /\ \A k \in 1..6 : t[k] = Valid
      \/ \E r \in 1..6 : /\ FirstOf(t) = t[r] /\ t[r] # Valid
                         /\ \A q \in 1..(r - 1) : t[q] = Valid
  BY <1>1, <1>2, FirstOfIs
<1>4. CASE FirstOf(t) = Valid /\ \A k \in 1..6 : t[k] = Valid
  <2>1. a = Valid /\ b = Valid /\ c = Valid /\ d = Valid /\ e = Valid /\ f = Valid
    BY <1>1, <1>4
  <2> QED  BY <1>4, <2>1 DEF t
<1>5. ASSUME NEW r \in 1..6, FirstOf(t) = t[r], t[r] # Valid, \A q \in 1..(r - 1) : t[q] = Valid
      PROVE  FirstOf(t) =
             IF a # Valid THEN a ELSE IF b # Valid THEN b ELSE IF c # Valid THEN c
             ELSE IF d # Valid THEN d ELSE IF e # Valid THEN e ELSE f
  <2>1. r = 1 \/ r = 2 \/ r = 3 \/ r = 4 \/ r = 5 \/ r = 6
    OBVIOUS
  <2> QED  BY <1>1, <1>5, <2>1
<1> QED  BY <1>3, <1>4, <1>5 DEF t

\* The fields the errors of a shape, and of a channel, name.
ShapeFields == {"StateShape.Name", "ErrDuplicateStateShape", "StateShape.Factory", "StateShape.Cap"}
ChannelFields == {"ChannelSpec.Name", "ChannelSpec.Decode", "ChannelSpec.ExtractEntity",
                  "ChannelSpec.Source", "SubjectSource.Subject", "StreamSource.Stream",
                  "StreamSource.FilterSubject"}

\* What the checks of one shape, of one source and of one channel accept.
ShapeOK(states, k) ==
    states[k].name # "" /\ ~SeenBefore(states, k) /\ states[k].factory /\ states[k].cap > 0
ChannelOK(channels, k) ==
    /\ channels[k].name # "" /\ ~SeenBefore(channels, k)
    /\ channels[k].decode /\ channels[k].extract /\ Bindable(channels[k].source)

\* The checks of a shape, of a source and of a channel fail exactly on one that
\* is unfit, and blame it by its index.
LEMMA ShapeErrIs ==
    ASSUME NEW states, NEW k, states[k].factory \in BOOLEAN, states[k].cap \in Int
    PROVE  \/ ShapeErr(states, k) = Valid /\ ShapeOK(states, k)
           \/ /\ ShapeErr(states, k) # Valid /\ ~ShapeOK(states, k)
              /\ \E f \in ShapeFields : ShapeErr(states, k) = <<f, k>>
<1> DEFINE a == Check(states[k].name = "", "StateShape.Name", k)
           b == Check(SeenBefore(states, k), "ErrDuplicateStateShape", k)
           c == Check(~states[k].factory, "StateShape.Factory", k)
           d == Check(states[k].cap <= 0, "StateShape.Cap", k)
<1>1. a = IF states[k].name = "" THEN <<"StateShape.Name", k>> ELSE Valid
  BY DEF Check
<1>2. b = IF SeenBefore(states, k) THEN <<"ErrDuplicateStateShape", k>> ELSE Valid
  BY DEF Check
<1>3. c = IF ~states[k].factory THEN <<"StateShape.Factory", k>> ELSE Valid
  BY DEF Check
<1>4. d = IF states[k].cap <= 0 THEN <<"StateShape.Cap", k>> ELSE Valid
  BY DEF Check
<1>5. ShapeErr(states, k) = FirstOf(<<a, b, c, d>>)
  BY DEF ShapeErr
<1> HIDE DEF a, b, c, d
<1>6. ShapeErr(states, k) = IF a # Valid THEN a ELSE IF b # Valid THEN b ELSE IF c # Valid THEN c ELSE d
  BY <1>5, FirstOfFour
<1>7. \A f \in ShapeFields : <<f, k>> # Valid
  BY DEF ShapeFields, Valid
<1>8. (states[k].cap <= 0) <=> ~(states[k].cap > 0)
  OBVIOUS
<1> QED  BY <1>1, <1>2, <1>3, <1>4, <1>6, <1>7, <1>8 DEF ShapeOK, ShapeFields

LEMMA SourceIs ==
    ASSUME NEW src, NEW k
    PROVE  \/ validateSource(src, k) = Valid /\ Bindable(src)
           \/ /\ validateSource(src, k) # Valid /\ ~Bindable(src)
              /\ \E f \in ChannelFields : validateSource(src, k) = <<f, k>>
<1> DEFINE a == Check(src.kind = "subject" /\ src.subject = "", "SubjectSource.Subject", k)
           b == Check(src.kind = "stream" /\ src.stream = "", "StreamSource.Stream", k)
           c == Check(src.kind = "stream" /\ src.filter = "", "StreamSource.FilterSubject", k)
           d == Check(src.kind \notin {"subject", "stream"}, "ChannelSpec.Source", k)
<1>1. a = IF src.kind = "subject" /\ src.subject = "" THEN <<"SubjectSource.Subject", k>> ELSE Valid
  BY DEF Check
<1>2. b = IF src.kind = "stream" /\ src.stream = "" THEN <<"StreamSource.Stream", k>> ELSE Valid
  BY DEF Check
<1>3. c = IF src.kind = "stream" /\ src.filter = "" THEN <<"StreamSource.FilterSubject", k>> ELSE Valid
  BY DEF Check
<1>4. d = IF src.kind \notin {"subject", "stream"} THEN <<"ChannelSpec.Source", k>> ELSE Valid
  BY DEF Check
<1>5. validateSource(src, k) = FirstOf(<<a, b, c, d>>)
  BY DEF validateSource
<1> HIDE DEF a, b, c, d
<1>6. validateSource(src, k) = IF a # Valid THEN a ELSE IF b # Valid THEN b ELSE IF c # Valid THEN c ELSE d
  BY <1>5, FirstOfFour
<1>7. \A f \in ChannelFields : <<f, k>> # Valid
  BY DEF ChannelFields, Valid
<1> QED  BY <1>1, <1>2, <1>3, <1>4, <1>6, <1>7 DEF Bindable, ChannelFields

LEMMA ChannelErrIs ==
    ASSUME NEW channels, NEW k, channels[k].decode \in BOOLEAN, channels[k].extract \in BOOLEAN
    PROVE  \/ ChannelErr(channels, k) = Valid /\ ChannelOK(channels, k)
           \/ /\ ChannelErr(channels, k) # Valid /\ ~ChannelOK(channels, k)
              /\ \E f \in ChannelFields : ChannelErr(channels, k) = <<f, k>>
<1> DEFINE a == Check(channels[k].name = "", "ChannelSpec.Name", k)
           b == Check(SeenBefore(channels, k), "ChannelSpec.Name", k)
           c == Check(~channels[k].decode, "ChannelSpec.Decode", k)
           d == Check(~channels[k].extract, "ChannelSpec.ExtractEntity", k)
           e == Check(channels[k].source.kind = "nil", "ChannelSpec.Source", k)
           g == validateSource(channels[k].source, k)
<1>1. a = IF channels[k].name = "" THEN <<"ChannelSpec.Name", k>> ELSE Valid
  BY DEF Check
<1>2. b = IF SeenBefore(channels, k) THEN <<"ChannelSpec.Name", k>> ELSE Valid
  BY DEF Check
<1>3. c = IF ~channels[k].decode THEN <<"ChannelSpec.Decode", k>> ELSE Valid
  BY DEF Check
<1>4. d = IF ~channels[k].extract THEN <<"ChannelSpec.ExtractEntity", k>> ELSE Valid
  BY DEF Check
<1>5. e = IF channels[k].source.kind = "nil" THEN <<"ChannelSpec.Source", k>> ELSE Valid
  BY DEF Check
<1>6. /\ \/ g = Valid /\ Bindable(channels[k].source)
         \/ /\ g # Valid /\ ~Bindable(channels[k].source)
            /\ \E f \in ChannelFields : g = <<f, k>>
  BY SourceIs
<1>7. channels[k].source.kind = "nil" => ~Bindable(channels[k].source)
  BY DEF Bindable
<1>8. ChannelErr(channels, k) = FirstOf(<<a, b, c, d, e, g>>)
  BY DEF ChannelErr
<1> HIDE DEF a, b, c, d, e, g
<1>9. ChannelErr(channels, k) =
        IF a # Valid THEN a ELSE IF b # Valid THEN b ELSE IF c # Valid THEN c
        ELSE IF d # Valid THEN d ELSE IF e # Valid THEN e ELSE g
  BY <1>8, FirstOfSix
<1>10. \A f \in ChannelFields : <<f, k>> # Valid
  BY DEF ChannelFields, Valid
<1> QED
  BY <1>1, <1>2, <1>3, <1>4, <1>5, <1>6, <1>7, <1>9, <1>10 DEF ChannelOK, ChannelFields

\* The whole list of shapes, of channels.
LEMMA StatesIs ==
    ASSUME NEW states, IsList(states),
           \A k \in DOMAIN states : states[k].factory \in BOOLEAN /\ states[k].cap \in Int
    PROVE  \/ validateStates(states) = Valid /\ \A k \in DOMAIN states : ShapeOK(states, k)
           \/ \E k \in DOMAIN states :
                 /\ \E f \in ShapeFields : validateStates(states) = <<f, k>>
                 /\ ~ShapeOK(states, k)
                 /\ \A j \in 1..(k - 1) : ShapeOK(states, j)
<1> DEFINE rows == [k \in DOMAIN states |-> ShapeErr(states, k)]
<1>1. Len(states) \in Nat /\ DOMAIN states = 1..Len(states)
  BY DEF IsList
<1>2. DOMAIN rows = 1..Len(states) /\ \A k \in 1..Len(states) : rows[k] = ShapeErr(states, k)
  BY <1>1
<1>3. validateStates(states) = FirstOf(rows)
  BY DEF validateStates
<1> HIDE DEF rows
<1>4. \/ FirstOf(rows) = Valid /\ \A k \in 1..Len(states) : rows[k] = Valid
      \/ \E r \in 1..Len(states) : /\ FirstOf(rows) = rows[r] /\ rows[r] # Valid
                                   /\ \A q \in 1..(r - 1) : rows[q] = Valid
  BY <1>1, <1>2, FirstOfIs
<1>5. \A k \in 1..Len(states) :
         \/ rows[k] = Valid /\ ShapeOK(states, k)
         \/ /\ rows[k] # Valid /\ ~ShapeOK(states, k)
            /\ \E f \in ShapeFields : rows[k] = <<f, k>>
  BY <1>1, <1>2, ShapeErrIs
<1>6. CASE FirstOf(rows) = Valid /\ \A k \in 1..Len(states) : rows[k] = Valid
  BY <1>1, <1>3, <1>5, <1>6
<1>7. ASSUME NEW r \in 1..Len(states), FirstOf(rows) = rows[r], rows[r] # Valid,
             \A q \in 1..(r - 1) : rows[q] = Valid
      PROVE  /\ \E f \in ShapeFields : validateStates(states) = <<f, r>>
             /\ ~ShapeOK(states, r) /\ \A j \in 1..(r - 1) : ShapeOK(states, j)
  <2>1. \A j \in 1..(r - 1) : j \in 1..Len(states)
    BY <1>1
  <2> QED  BY <1>3, <1>5, <1>7, <2>1
<1> QED  BY <1>1, <1>4, <1>6, <1>7

LEMMA ChannelsIs ==
    ASSUME NEW channels, IsList(channels),
           \A k \in DOMAIN channels : channels[k].decode \in BOOLEAN /\ channels[k].extract \in BOOLEAN
    PROVE  \/ validateChannels(channels) = Valid /\ \A k \in DOMAIN channels : ChannelOK(channels, k)
           \/ \E k \in DOMAIN channels :
                 /\ \E f \in ChannelFields : validateChannels(channels) = <<f, k>>
                 /\ ~ChannelOK(channels, k)
                 /\ \A j \in 1..(k - 1) : ChannelOK(channels, j)
<1> DEFINE rows == [k \in DOMAIN channels |-> ChannelErr(channels, k)]
<1>1. Len(channels) \in Nat /\ DOMAIN channels = 1..Len(channels)
  BY DEF IsList
<1>2. DOMAIN rows = 1..Len(channels) /\ \A k \in 1..Len(channels) : rows[k] = ChannelErr(channels, k)
  BY <1>1
<1>3. validateChannels(channels) = FirstOf(rows)
  BY DEF validateChannels
<1> HIDE DEF rows
<1>4. \/ FirstOf(rows) = Valid /\ \A k \in 1..Len(channels) : rows[k] = Valid
      \/ \E r \in 1..Len(channels) : /\ FirstOf(rows) = rows[r] /\ rows[r] # Valid
                                     /\ \A q \in 1..(r - 1) : rows[q] = Valid
  BY <1>1, <1>2, FirstOfIs
<1>5. \A k \in 1..Len(channels) :
         \/ rows[k] = Valid /\ ChannelOK(channels, k)
         \/ /\ rows[k] # Valid /\ ~ChannelOK(channels, k)
            /\ \E f \in ChannelFields : rows[k] = <<f, k>>
  BY <1>1, <1>2, ChannelErrIs
<1>6. CASE FirstOf(rows) = Valid /\ \A k \in 1..Len(channels) : rows[k] = Valid
  BY <1>1, <1>3, <1>5, <1>6
<1>7. ASSUME NEW r \in 1..Len(channels), FirstOf(rows) = rows[r], rows[r] # Valid,
             \A q \in 1..(r - 1) : rows[q] = Valid
      PROVE  /\ \E f \in ChannelFields : validateChannels(channels) = <<f, r>>
             /\ ~ChannelOK(channels, r) /\ \A j \in 1..(r - 1) : ChannelOK(channels, j)
  <2>1. \A j \in 1..(r - 1) : j \in 1..Len(channels)
    BY <1>1
  <2> QED  BY <1>3, <1>5, <1>7, <2>1
<1> QED  BY <1>1, <1>4, <1>6, <1>7

\* No name is seen before in a list exactly when no two are equal.
LEMMA NamesDistinct ==
    ASSUME NEW decls, IsList(decls)
    PROVE  DistinctNames(decls) <=>
             \A k \in DOMAIN decls : decls[k].name # "" /\ ~SeenBefore(decls, k)
<1>1. PICK n \in Nat : n = Len(decls) /\ DOMAIN decls = 1..n
  BY DEF IsList
<1>2. ASSUME DistinctNames(decls), NEW k \in 1..n PROVE decls[k].name # "" /\ ~SeenBefore(decls, k)
  <2>1. \A j \in 1..(k - 1) : j \in 1..n /\ j # k
    OBVIOUS
  <2> QED  BY <1>1, <1>2, <2>1 DEF DistinctNames, SeenBefore
<1>3. ASSUME \A k \in 1..n : decls[k].name # "" /\ ~SeenBefore(decls, k) PROVE DistinctNames(decls)
  <2>1. ASSUME NEW j \in 1..n, NEW k \in 1..n, decls[j].name = decls[k].name PROVE j = k
    <3>1. ~(j < k)
      <4> SUFFICES ASSUME j < k PROVE FALSE
        OBVIOUS
      <4>1. j \in 1..(k - 1)
        OBVIOUS
      <4> QED  BY <1>3, <2>1, <4>1 DEF SeenBefore
    <3>2. ~(k < j)
      <4> SUFFICES ASSUME k < j PROVE FALSE
        OBVIOUS
      <4>1. k \in 1..(j - 1)
        OBVIOUS
      <4> QED  BY <1>3, <2>1, <4>1 DEF SeenBefore
    <3> QED  BY <3>1, <3>2
  <2> QED  BY <1>1, <1>3, <2>1 DEF DistinctNames
<1> QED  BY <1>1, <1>2, <1>3

\* A list that is fit for use.
StatesOK(states) ==
    DistinctNames(states) /\ \A k \in DOMAIN states : states[k].factory /\ states[k].cap > 0
ChannelsOK(channels) ==
    /\ DistinctNames(channels)
    /\ \A k \in DOMAIN channels :
          channels[k].decode /\ channels[k].extract /\ Bindable(channels[k].source)

\* A list is fit for use exactly when the checks accept each of its elements.
LEMMA StatesOKIs ==
    ASSUME NEW states, IsList(states)
    PROVE  StatesOK(states) <=> \A k \in DOMAIN states : ShapeOK(states, k)
BY NamesDistinct DEF StatesOK, ShapeOK

LEMMA ChannelsOKIs ==
    ASSUME NEW channels, IsList(channels)
    PROVE  ChannelsOK(channels) <=> \A k \in DOMAIN channels : ChannelOK(channels, k)
BY NamesDistinct DEF ChannelsOK, ChannelOK

\* What comes before the k-th element.
LEMMA FrontOf ==
    ASSUME NEW decls, IsList(decls), NEW k \in DOMAIN decls
    PROVE  /\ IsList(SubSeq(decls, 1, k - 1)) /\ DOMAIN SubSeq(decls, 1, k - 1) = 1..(k - 1)
           /\ \A j \in 1..(k - 1) : SubSeq(decls, 1, k - 1)[j] = decls[j]
<1> DEFINE S == {decls[j] : j \in DOMAIN decls}
           f == SubSeq(decls, 1, k - 1)
<1>1. PICK n \in Nat : n = Len(decls) /\ DOMAIN decls = 1..n
  BY DEF IsList
<1>2. k \in 1..n /\ k - 1 \in Int /\ 1 \in Int
  BY <1>1
<1>3. \A j \in 1..(k - 1) : decls[j] \in S
  BY <1>1, <1>2
<1> HIDE DEF S
<1>4. /\ f \in Seq(S) /\ Len(f) = (IF 1 <= k - 1 THEN k - 1 - 1 + 1 ELSE 0)
      /\ \A i \in 1..(k - 1 - 1 + 1) : f[i] = decls[1 + i - 1]
  BY <1>2, <1>3, SubSeqProperties
<1> HIDE DEF f
<1>5. Len(f) = k - 1 /\ \A j \in 1..(k - 1) : f[j] = decls[j]
  BY <1>2, <1>4
<1>6. DOMAIN f = 1..Len(f) /\ Len(f) \in Nat
  BY <1>4, LenProperties
<1>7. /\ IsList(f) /\ DOMAIN f = 1..(k - 1) /\ \A j \in 1..(k - 1) : f[j] = decls[j]
  BY <1>5, <1>6 DEF IsList
<1> QED  BY <1>7 DEF f

\* If the checks accept what comes before the k-th, that part is fit for use.
LEMMA StatesFront ==
    ASSUME NEW states, IsList(states), NEW k \in DOMAIN states,
           \A j \in 1..(k - 1) : ShapeOK(states, j)
    PROVE  StatesOK(SubSeq(states, 1, k - 1))
<1> DEFINE f == SubSeq(states, 1, k - 1)
<1>1. /\ IsList(f) /\ DOMAIN f = 1..(k - 1) /\ \A j \in 1..(k - 1) : f[j] = states[j]
  BY FrontOf
<1>2. k \in Int
  BY DEF IsList
<1> HIDE DEF f
<1>3. ASSUME NEW j \in 1..(k - 1) PROVE ShapeOK(f, j)
  <2>1. \A i \in 1..(j - 1) : i \in 1..(k - 1)
    BY <1>2
  <2>2. SeenBefore(f, j) <=> SeenBefore(states, j)
    BY <1>1, <2>1 DEF SeenBefore
  <2> QED  BY <1>1, <2>2 DEF ShapeOK
<1>4. StatesOK(f)
  BY <1>1, <1>3, StatesOKIs
<1> QED  BY <1>4 DEF f

LEMMA ChannelsFront ==
    ASSUME NEW channels, IsList(channels), NEW k \in DOMAIN channels,
           \A j \in 1..(k - 1) : ChannelOK(channels, j)
    PROVE  ChannelsOK(SubSeq(channels, 1, k - 1))
<1> DEFINE f == SubSeq(channels, 1, k - 1)
<1>1. /\ IsList(f) /\ DOMAIN f = 1..(k - 1) /\ \A j \in 1..(k - 1) : f[j] = channels[j]
  BY FrontOf
<1>2. k \in Int
  BY DEF IsList
<1> HIDE DEF f
<1>3. ASSUME NEW j \in 1..(k - 1) PROVE ChannelOK(f, j)
  <2>1. \A i \in 1..(j - 1) : i \in 1..(k - 1)
    BY <1>2
  <2>2. SeenBefore(f, j) <=> SeenBefore(channels, j)
    BY <1>1, <2>1 DEF SeenBefore
  <2> QED  BY <1>1, <2>2 DEF ChannelOK
<1>4. ChannelsOK(f)
  BY <1>1, <1>3, ChannelsOKIs
<1> QED  BY <1>4 DEF f

\* What WellFormed asks, by parts.
Named(s) == s.name # "" /\ s.version # "" /\ s.awareness /\ s.thinking

LEMMA WellFormedIs ==
    ASSUME NEW s
    PROVE  WellFormed(s) <=> Named(s) /\ StatesOK(s.states) /\ ChannelsOK(s.channels)
BY DEF WellFormed, Named, StatesOK, ChannelsOK

\* validateSpec accepts the specs that are fit for use, and the declarations
\* before the one its error blames are.
LEMMA ValidateSpecExact ==
    ASSUME NEW s, Typed(s)
    PROVE  /\ validateSpec(s) = Valid <=> WellFormed(s)
           /\ validateSpec(s)[2] > 0 => WellFormed(Before(s, validateSpec(s)))
<1> DEFINE a == Check(s.name = "", "Name", 0)
           b == Check(s.version = "", "Version", 0)
           c == Check(~s.awareness, "Awareness", 0)
           d == Check(~s.thinking, "Thinking", 0)
           e == validateStates(s.states)
           g == validateChannels(s.channels)
           v == validateSpec(s)
<1>1. /\ a = IF s.name = "" THEN <<"Name", 0>> ELSE Valid
      /\ b = IF s.version = "" THEN <<"Version", 0>> ELSE Valid
      /\ c = IF ~s.awareness THEN <<"Awareness", 0>> ELSE Valid
      /\ d = IF ~s.thinking THEN <<"Thinking", 0>> ELSE Valid
  BY DEF Check
<1>2. \/ e = Valid /\ \A k \in DOMAIN s.states : ShapeOK(s.states, k)
      \/ \E k \in DOMAIN s.states :
            /\ \E f \in ShapeFields : e = <<f, k>>
            /\ ~ShapeOK(s.states, k)
            /\ \A j \in 1..(k - 1) : ShapeOK(s.states, j)
  BY StatesIs DEF Typed
<1>3. \/ g = Valid /\ \A k \in DOMAIN s.channels : ChannelOK(s.channels, k)
      \/ \E k \in DOMAIN s.channels :
            /\ \E f \in ChannelFields : g = <<f, k>>
            /\ ~ChannelOK(s.channels, k)
            /\ \A j \in 1..(k - 1) : ChannelOK(s.channels, j)
  BY ChannelsIs DEF Typed
<1>4. v = FirstOf(<<a, b, c, d, e, g>>)
  BY DEF validateSpec
<1> HIDE DEF a, b, c, d, e, g, v
<1>5. v = IF a # Valid THEN a ELSE IF b # Valid THEN b ELSE IF c # Valid THEN c
          ELSE IF d # Valid THEN d ELSE IF e # Valid THEN e ELSE g
  BY <1>4, FirstOfSix
<1>6. /\ StatesOK(s.states) <=> \A k \in DOMAIN s.states : ShapeOK(s.states, k)
      /\ ChannelsOK(s.channels) <=> \A k \in DOMAIN s.channels : ChannelOK(s.channels, k)
  BY StatesOKIs, ChannelsOKIs DEF Typed
<1>7. s.awareness \in BOOLEAN /\ s.thinking \in BOOLEAN /\ IsList(s.states) /\ IsList(s.channels)
  BY DEF Typed
<1>8. CASE ~Named(s)
  <2>1. v \in {<<"Name", 0>>, <<"Version", 0>>, <<"Awareness", 0>>, <<"Thinking", 0>>}
    BY <1>1, <1>5, <1>7, <1>8 DEF Named, Valid
  <2>2. v # Valid /\ v[2] = 0
    BY <2>1 DEF Valid
  <2>3. ~WellFormed(s)
    BY <1>8, WellFormedIs
  <2> QED  BY <2>2, <2>3 DEF v
<1>9. CASE Named(s) /\ e # Valid
  <2>1. v = e
    BY <1>1, <1>5, <1>9 DEF Named
  <2>2. PICK k \in DOMAIN s.states :
            /\ \E f \in ShapeFields : e = <<f, k>>
            /\ ~ShapeOK(s.states, k)
            /\ \A j \in 1..(k - 1) : ShapeOK(s.states, j)
    BY <1>2, <1>9
  <2>3. ~WellFormed(s)
    BY <1>6, <2>2, WellFormedIs
  <2>4. v[1] \in ShapeFields /\ v[2] = k
    BY <2>1, <2>2
  <2>5. Before(s, v) = [s EXCEPT !.states = SubSeq(s.states, 1, k - 1), !.channels = <<>>]
    BY <2>4 DEF Before, ShapeFields
  <2>6. /\ Before(s, v).name = s.name /\ Before(s, v).version = s.version
        /\ Before(s, v).awareness = s.awareness /\ Before(s, v).thinking = s.thinking
        /\ Before(s, v).states = SubSeq(s.states, 1, k - 1)
        /\ Before(s, v).channels = <<>>
    BY <2>5 DEF Typed
  <2>7. StatesOK(SubSeq(s.states, 1, k - 1))
    BY <1>7, <2>2, StatesFront
  <2>8. ChannelsOK(<<>>)
    BY DEF ChannelsOK, DistinctNames
  <2>9. WellFormed(Before(s, v))
    BY <1>9, <2>6, <2>7, <2>8, WellFormedIs DEF Named
  <2> QED  BY <1>9, <2>1, <2>3, <2>9 DEF v
<1>10. CASE Named(s) /\ e = Valid /\ g # Valid
  <2>1. v = g
    BY <1>1, <1>5, <1>10 DEF Named
  <2>2. PICK k \in DOMAIN s.channels :
            /\ \E f \in ChannelFields : g = <<f, k>>
            /\ ~ChannelOK(s.channels, k)
            /\ \A j \in 1..(k - 1) : ChannelOK(s.channels, j)
    BY <1>3, <1>10
  <2>3. ~WellFormed(s)
    BY <1>6, <2>2, WellFormedIs
  <2>4. v[1] \in ChannelFields /\ v[2] = k
    BY <2>1, <2>2
  <2>5. Before(s, v) = [s EXCEPT !.channels = SubSeq(s.channels, 1, k - 1)]
    BY <2>4 DEF Before, ChannelFields
  <2>6. /\ Before(s, v).name = s.name /\ Before(s, v).version = s.version
        /\ Before(s, v).awareness = s.awareness /\ Before(s, v).thinking = s.thinking
        /\ Before(s, v).states = s.states
        /\ Before(s, v).channels = SubSeq(s.channels, 1, k - 1)
    BY <2>5 DEF Typed
  <2>7. ChannelsOK(SubSeq(s.channels, 1, k - 1))
    BY <1>7, <2>2, ChannelsFront
  <2>8. StatesOK(s.states)
    <3>1. \A j \in DOMAIN s.states : ShapeOK(s.states, j)
      <4>1. \A f, j : f \in ShapeFields => <<f, j>> # Valid
        BY DEF ShapeFields, Valid
      <4> QED  BY <1>2, <1>10, <4>1
    <3> QED  BY <1>6, <3>1
  <2>9. WellFormed(Before(s, v))
    BY <1>10, <2>6, <2>7, <2>8, WellFormedIs DEF Named
  <2> QED  BY <1>10, <2>1, <2>3, <2>9 DEF v
<1>11. CASE Named(s) /\ e = Valid /\ g = Valid
  <2>1. v = Valid
    BY <1>1, <1>5, <1>11 DEF Named
  <2>2. \A f, j : f \in ShapeFields \cup ChannelFields => <<f, j>> # Valid
    BY DEF ShapeFields, ChannelFields, Valid
  <2>3. WellFormed(s)
    BY <1>2, <1>3, <1>6, <1>11, <2>2, WellFormedIs
  <2>4. ~(v[2] > 0)
    BY <2>1 DEF Valid
  <2> QED  BY <2>1, <2>3, <2>4 DEF v
<1> QED  BY <1>8, <1>9, <1>10, <1>11

\* NewImp accepts exactly the specs that are fit for use, however many shapes and
\* channels they declare, and blames the first fault in declaration order.
THEOREM BindingValidationExact == Spec => ValidationExact
<1> DEFINE Exact(i) ==
        starts' # starts /\ spec'[i] # spec[i] =>
          /\ pc'[i] = "stream" <=> WellFormed(spec'[i])
          /\ result'[i][2] > 0 => WellFormed(Before(spec'[i], result'[i]))
<1>1. IInv /\ [Next]_vars => [\A i \in Imps : Exact(i)]_vars
  <2> SUFFICES ASSUME IInv, Next PROVE \A i \in Imps : Exact(i)
    BY Zenon
  <2>1. ASSUME NEW j \in Imps, NEW s \in Specs, NewImp(j, s), NEW i \in Imps PROVE Exact(i)
    <3>0. pc \in [Imps -> {"down", "stream", "lookup", "create", "consume", "up"}]
          /\ DOMAIN spec = Imps /\ DOMAIN result = Imps
      BY DEF IInv, TypeOK
    <3>1. CASE i # j
      BY <2>1, <3>0, <3>1 DEF NewImp
    <3>2. CASE i = j
      <4>1. pc[i] = "down" /\ spec'[i] = s /\ result'[i] = validateSpec(s)
        BY <2>1, <3>0, <3>2 DEF NewImp
      <4>2. pc'[i] = IF validateSpec(s) = Valid THEN "stream" ELSE "down"
        BY <2>1, <3>0, <3>2, <4>1 DEF NewImp
      <4>3. /\ validateSpec(s) = Valid <=> WellFormed(s)
            /\ validateSpec(s)[2] > 0 => WellFormed(Before(s, validateSpec(s)))
        BY SpecsTyped, ValidateSpecExact
      <4> QED  BY <4>1, <4>2, <4>3
    <3> QED  BY <3>1, <3>2
  <2>2. CASE UNCHANGED starts \/ UNCHANGED spec
    BY <2>2
  <2>3. \/ \E j \in Imps, s \in Specs : NewImp(j, s)
        \/ UNCHANGED starts \/ UNCHANGED spec
    BY DEF Next, NewImpNil, LookupStream, LookupConsumer, CreateDurable, CreateEphemeral, Consume, Shutdown, Crash
  <2> QED  BY <2>1, <2>2, <2>3
<1> QED  BY <1>1, BindingInvariant, PTL DEF Spec, ValidationExact

-----------------------------------------------------------------------------
(* Channel options *)

\* Induction over the natural numbers, on the set of those that have a property.
LEMMA Inductive ==
    ASSUME NEW T \in SUBSET Nat, 0 \in T, \A k \in T : k + 1 \in T
    PROVE  T = Nat
<1> DEFINE bad == Nat \ T
<1> SUFFICES ASSUME bad # {} PROVE FALSE
  OBVIOUS
<1>1. PICK m \in bad : \A k \in bad : m <= k
  <2>1. bad \in SUBSET Nat
    OBVIOUS
  <2> HIDE DEF bad
  <2> QED  BY <2>1, LeastOf
<1>2. m \in Nat /\ m # 0
  OBVIOUS
<1>3. m - 1 \in Nat /\ m - 1 \notin bad
  BY <1>1, <1>2
<1>4. (m - 1) + 1 \in T
  BY <1>3
<1> QED  BY <1>2, <1>4

\* g[n] is what the first n options make of src.
Applied(src, opts, g, m) ==
    g = [n \in 0..m |-> IF n = 0 THEN src ELSE ApplyOption(g[n - 1], opts[n])]

\* There is such a g for every number of options.
LEMMA AppliedExists ==
    ASSUME NEW src, NEW opts PROVE \A m \in Nat : \E g : Applied(src, opts, g, m)
<1> DEFINE T == {m \in Nat : \E g : Applied(src, opts, g, m)}
<1>1. 0 \in T
  <2> DEFINE g == [n \in 0..0 |-> src]
  <2>1. Applied(src, opts, g, 0)
    <3>1. \A n \in 0..0 : n = 0
      OBVIOUS
    <3> QED  BY <3>1 DEF Applied
  <2> QED  BY <2>1
<1>2. ASSUME NEW k \in T PROVE k + 1 \in T
  <2>1. PICK g : Applied(src, opts, g, k)
    OBVIOUS
  <2> DEFINE h == [n \in 0..(k + 1) |-> IF n = k + 1 THEN ApplyOption(g[k], opts[k + 1]) ELSE g[n]]
  <2>2. \A n \in 0..k : g[n] = IF n = 0 THEN src ELSE ApplyOption(g[n - 1], opts[n])
    BY <2>1 DEF Applied
  <2>3. k \in Nat /\ \A n \in 0..(k + 1) : n = k + 1 \/ n \in 0..k
    OBVIOUS
  <2>4. ASSUME NEW n \in 0..(k + 1)
        PROVE  h[n] = IF n = 0 THEN src ELSE ApplyOption(h[n - 1], opts[n])
    <3>1. CASE n = k + 1
      <4>1. n # 0 /\ n - 1 = k /\ k \in 0..(k + 1) /\ k # k + 1
        BY <2>3, <3>1
      <4>2. h[n - 1] = g[k] /\ h[n] = ApplyOption(g[k], opts[k + 1])
        BY <3>1, <4>1
      <4> QED  BY <3>1, <4>1, <4>2
    <3>2. CASE n = 0
      <4>1. 0 # k + 1 /\ 0 \in 0..k
        BY <2>3
      <4> QED  BY <2>2, <3>2, <4>1
    <3>3. CASE n # 0 /\ n # k + 1
      <4>1. n \in 0..k /\ n - 1 \in 0..(k + 1) /\ n - 1 # k + 1
        BY <2>3, <3>3
      <4>2. h[n - 1] = g[n - 1] /\ h[n] = g[n]
        BY <3>3, <4>1
      <4> QED  BY <2>2, <3>3, <4>1, <4>2
    <3> QED  BY <3>1, <3>2, <3>3
  <2>5. DOMAIN h = 0..(k + 1) /\ h = [n \in 0..(k + 1) |-> h[n]]
    OBVIOUS
  <2> HIDE DEF h
  <2>6. Applied(src, opts, h, k + 1)
    BY <2>4, <2>5 DEF Applied
  <2> QED  BY <2>3, <2>6
<1>3. T = Nat
  <2>1. T \in SUBSET Nat
    OBVIOUS
  <2> HIDE DEF T
  <2> QED  BY <1>1, <1>2, <2>1, Inductive
<1> QED  BY <1>3

\* Option k is the last of those kinds among the first n.
LastOf(opts, kinds, n, k) ==
    /\ k \in 1..n /\ opts[k][1] \in kinds
    /\ \A j \in 1..n : opts[j][1] \in kinds => j <= k
NoneOf(opts, kinds, n) == \A k \in 1..n : opts[k][1] \notin kinds

\* value is that of the last option of the kind among the first n, or the zero.
Lasts(opts, kind, n, value, zero) ==
    \/ NoneOf(opts, {kind}, n) /\ value = zero
    \/ \E k \in 1..n : LastOf(opts, {kind}, n, k) /\ value = opts[k][2]

PolicyOf(kind) == IF kind = "seq" THEN DeliverByStartSequence ELSE DeliverByStartTime

Starts == {"seq", "time"}

\* One more option of another kind, and one of that kind.
LEMMA OtherOption ==
    ASSUME NEW opts, NEW kinds, NEW n \in Nat, opts[n + 1][1] \notin kinds
    PROVE  /\ NoneOf(opts, kinds, n) => NoneOf(opts, kinds, n + 1)
           /\ \A k \in 1..n : LastOf(opts, kinds, n, k) =>
                 k \in 1..(n + 1) /\ LastOf(opts, kinds, n + 1, k)
<1>1. 1..(n + 1) = 1..n \cup {n + 1}
  OBVIOUS
<1> QED  BY <1>1 DEF NoneOf, LastOf

LEMMA ThisOption ==
    ASSUME NEW opts, NEW kinds, NEW n \in Nat, opts[n + 1][1] \in kinds
    PROVE  n + 1 \in 1..(n + 1) /\ LastOf(opts, kinds, n + 1, n + 1)
BY DEF LastOf

\* What the first n options make of a source that is read from its start.
MadeOf(stream, target, opts, s, n) ==
    \E d, p, q, t :
       /\ s = StreamSource(stream, target, d, [ack |-> 0, wait |-> 0, max |-> 0, deliver |-> p,
                           replay |-> 0, seq |-> q, time |-> t, pending |-> 0])
       /\ Lasts(opts, "durable", n, d, "")
       /\ Lasts(opts, "seq", n, q, 0)
       /\ Lasts(opts, "time", n, t, 0)
       /\ \/ NoneOf(opts, Starts, n) /\ p = DeliverAll
          \/ \E k \in 1..n : LastOf(opts, Starts, n, k) /\ p = PolicyOf(opts[k][1])

LEMMA LastsOther ==
    ASSUME NEW opts, NEW kind, NEW n \in Nat, NEW value, NEW zero,
           Lasts(opts, kind, n, value, zero), opts[n + 1][1] # kind
    PROVE  Lasts(opts, kind, n + 1, value, zero)
<1>1. opts[n + 1][1] \notin {kind}
  OBVIOUS
<1> QED  BY <1>1, OtherOption DEF Lasts

LEMMA LastsThis ==
    ASSUME NEW opts, NEW kind, NEW n \in Nat, NEW zero, opts[n + 1][1] = kind
    PROVE  Lasts(opts, kind, n + 1, opts[n + 1][2], zero)
<1>1. opts[n + 1][1] \in {kind}
  OBVIOUS
<1> QED  BY <1>1, ThisOption DEF Lasts

LEMMA OptionMakes ==
    ASSUME NEW stream, NEW target, NEW opts, NEW s, NEW n \in Nat,
           MadeOf(stream, target, opts, s, n),
           opts[n + 1][1] \in {"durable", "seq", "time"}
    PROVE  MadeOf(stream, target, opts, ApplyOption(s, opts[n + 1]), n + 1)
<1> DEFINE opt == opts[n + 1]
           Cc(p, q, t) == [ack |-> 0, wait |-> 0, max |-> 0, deliver |-> p, replay |-> 0,
                           seq |-> q, time |-> t, pending |-> 0]
<1>1. PICK d, p, q, t :
         /\ s = StreamSource(stream, target, d, Cc(p, q, t))
         /\ Lasts(opts, "durable", n, d, "") /\ Lasts(opts, "seq", n, q, 0)
         /\ Lasts(opts, "time", n, t, 0)
         /\ \/ NoneOf(opts, Starts, n) /\ p = DeliverAll
            \/ \E k \in 1..n : LastOf(opts, Starts, n, k) /\ p = PolicyOf(opts[k][1])
  BY DEF MadeOf
<1>2. CASE opt[1] = "durable"
  <2>1. ApplyOption(s, opt) = StreamSource(stream, target, opt[2], Cc(p, q, t))
    <3>1. ApplyOption(s, opt) = [s EXCEPT !.durable = opt[2]]
      BY <1>2 DEF ApplyOption
    <3> QED  BY <1>1, <3>1 DEF StreamSource
  <2>2. /\ Lasts(opts, "durable", n + 1, opt[2], "") /\ Lasts(opts, "seq", n + 1, q, 0)
        /\ Lasts(opts, "time", n + 1, t, 0)
    BY <1>1, <1>2, LastsThis, LastsOther
  <2>3. opt[1] \notin Starts
    BY <1>2 DEF Starts
  <2>4. \/ NoneOf(opts, Starts, n + 1) /\ p = DeliverAll
        \/ \E k \in 1..(n + 1) : LastOf(opts, Starts, n + 1, k) /\ p = PolicyOf(opts[k][1])
    BY <1>1, <2>3, OtherOption
  <2> QED  BY <2>1, <2>2, <2>4 DEF MadeOf
<1>3. CASE opt[1] = "seq"
  <2>1. ApplyOption(s, opt) =
          StreamSource(stream, target, d, Cc(DeliverByStartSequence, opt[2], t))
    <3>1. ApplyOption(s, opt) = [s EXCEPT !.cc.deliver = DeliverByStartSequence, !.cc.seq = opt[2]]
      BY <1>3 DEF ApplyOption
    <3> QED  BY <1>1, <3>1 DEF StreamSource
  <2>2. /\ Lasts(opts, "durable", n + 1, d, "") /\ Lasts(opts, "seq", n + 1, opt[2], 0)
        /\ Lasts(opts, "time", n + 1, t, 0)
    BY <1>1, <1>3, LastsThis, LastsOther
  <2>3. opt[1] \in Starts /\ PolicyOf(opt[1]) = DeliverByStartSequence
    BY <1>3 DEF Starts, PolicyOf
  <2>4. \E k \in 1..(n + 1) :
           LastOf(opts, Starts, n + 1, k) /\ DeliverByStartSequence = PolicyOf(opts[k][1])
    BY <2>3, ThisOption
  <2> QED  BY <2>1, <2>2, <2>4 DEF MadeOf
<1>4. CASE opt[1] = "time"
  <2>1. ApplyOption(s, opt) =
          StreamSource(stream, target, d, Cc(DeliverByStartTime, q, opt[2]))
    <3>1. ApplyOption(s, opt) = [s EXCEPT !.cc.deliver = DeliverByStartTime, !.cc.time = opt[2]]
      BY <1>4 DEF ApplyOption
    <3> QED  BY <1>1, <3>1 DEF StreamSource
  <2>2. /\ Lasts(opts, "durable", n + 1, d, "") /\ Lasts(opts, "seq", n + 1, q, 0)
        /\ Lasts(opts, "time", n + 1, opt[2], 0)
    BY <1>1, <1>4, LastsThis, LastsOther
  <2>3. opt[1] \in Starts /\ PolicyOf(opt[1]) = DeliverByStartTime
    BY <1>4 DEF Starts, PolicyOf
  <2>4. \E k \in 1..(n + 1) :
           LastOf(opts, Starts, n + 1, k) /\ DeliverByStartTime = PolicyOf(opts[k][1])
    BY <2>3, ThisOption
  <2> QED  BY <2>1, <2>2, <2>4 DEF MadeOf
<1> QED  BY <1>2, <1>3, <1>4

\* The options a caller may pass, in any number: WithStartTime's is a pointer to
\* its argument and never nil.
ChannelOptions(opts) ==
    /\ Len(opts) \in Nat
    /\ \A k \in 1..Len(opts) :
          /\ opts[k] = <<opts[k][1], opts[k][2]>>
          /\ opts[k][1] \in {"durable", "seq", "time"}
          /\ opts[k][1] = "time" => opts[k][2] # 0

LEMMA OptionsMake ==
    ASSUME NEW stream, NEW target, NEW opts, ChannelOptions(opts)
    PROVE  MadeOf(stream, target, opts, Channel(stream, target, opts), Len(opts))
<1> DEFINE src == StreamSource(stream, target, "", ZeroConfig)
           g == CHOOSE f : Applied(src, opts, f, Len(opts))
<1>0. PICK l \in Nat : l = Len(opts)
  BY DEF ChannelOptions
<1>1. Applied(src, opts, g, l)
  BY <1>0, AppliedExists
<1>2. Channel(stream, target, opts) = g[l]
  BY <1>0 DEF Channel, WithOptions, Applied
<1> HIDE DEF g
<1>3. \A n \in 0..l : g[n] = IF n = 0 THEN src ELSE ApplyOption(g[n - 1], opts[n])
  BY <1>1 DEF Applied
<1> DEFINE T == {n \in Nat : n <= l => MadeOf(stream, target, opts, g[n], n)}
<1>4. 0 \in T
  <2>1. /\ g[0] = StreamSource(stream, target, "", [ack |-> 0, wait |-> 0, max |-> 0, deliver |-> 0,
                               replay |-> 0, seq |-> 0, time |-> 0, pending |-> 0])
        /\ 1..0 = {}
    <3>1. 0 \in 0..l /\ 1..0 = {}
      BY <1>0
    <3>2. g[0] = src
      BY <1>3, <3>1
    <3> QED  BY <3>1, <3>2 DEF ZeroConfig
  <2>2. /\ NoneOf(opts, Starts, 0) /\ Lasts(opts, "durable", 0, "", "")
        /\ Lasts(opts, "seq", 0, 0, 0) /\ Lasts(opts, "time", 0, 0, 0)
    BY <2>1 DEF NoneOf, Lasts
  <2>3. MadeOf(stream, target, opts, g[0], 0)
    BY <2>1, <2>2 DEF MadeOf, DeliverAll
  <2> QED  BY <2>3
<1>5. ASSUME NEW n \in T PROVE n + 1 \in T
  <2>1. n \in Nat /\ n + 1 \in Nat
    OBVIOUS
  <2> SUFFICES ASSUME n + 1 <= l PROVE MadeOf(stream, target, opts, g[n + 1], n + 1)
    BY <2>1
  <2>2. n <= l /\ n + 1 \in 0..l /\ n + 1 \in 1..l /\ n + 1 # 0 /\ (n + 1) - 1 = n
    BY <1>0, <2>1
  <2>3. MadeOf(stream, target, opts, g[n], n) /\ g[n + 1] = ApplyOption(g[n], opts[n + 1])
    BY <1>3, <2>2
  <2>4. opts[n + 1][1] \in {"durable", "seq", "time"}
    BY <1>0, <2>2 DEF ChannelOptions
  <2> QED  BY <2>1, <2>3, <2>4, OptionMakes
<1>6. T = Nat
  <2>1. T \in SUBSET Nat
    OBVIOUS
  <2> HIDE DEF T
  <2> QED  BY <1>4, <1>5, <2>1, Inductive
<1> QED  BY <1>0, <1>2, <1>6

\* There is an option of the kind; the last start sequence is not zero.
Asks(opts, kind) == \E k \in 1..Len(opts) : opts[k][1] = kind
AsksSequence(opts) ==
    \E k \in 1..Len(opts) : LastOf(opts, {"seq"}, Len(opts), k) /\ opts[k][2] # 0

\* What schedule.Channel makes of any list of options: the stream and the target
\* as they are, the last durable name, and a consumer the server agrees to make
\* exactly if no start sequence is mixed with a start time, in whatever order,
\* and the last option to set the start is not the sequence zero.
THEOREM OptionsUnderstood ==
    ASSUME NEW stream, NEW target, NEW opts, ChannelOptions(opts)
    PROVE  LET src == Channel(stream, target, opts) IN
           /\ src.stream = stream /\ src.filter = target
           /\ Lasts(opts, "durable", Len(opts), src.durable, "")
           /\ Creatable(buildConsumerConfig(src)) <=>
                 /\ ~(AsksSequence(opts) /\ Asks(opts, "time"))
                 /\ \A k \in 1..Len(opts) :
                       LastOf(opts, Starts, Len(opts), k) => opts[k] # <<"seq", 0>>
<1> DEFINE src == Channel(stream, target, opts)
           cfg == buildConsumerConfig(src)
<1>0. PICK l \in Nat : l = Len(opts)
  BY DEF ChannelOptions
<1>10. MadeOf(stream, target, opts, src, l)
  BY <1>0, OptionsMake
<1> HIDE DEF src
<1>1. PICK d, p, q, t :
         /\ src = StreamSource(stream, target, d, [ack |-> 0, wait |-> 0, max |-> 0, deliver |-> p,
                               replay |-> 0, seq |-> q, time |-> t, pending |-> 0])
         /\ Lasts(opts, "durable", l, d, "") /\ Lasts(opts, "seq", l, q, 0)
         /\ Lasts(opts, "time", l, t, 0)
         /\ \/ NoneOf(opts, Starts, l) /\ p = DeliverAll
            \/ \E k \in 1..l : LastOf(opts, Starts, l, k) /\ p = PolicyOf(opts[k][1])
  BY <1>10 DEF MadeOf
<1>2. /\ src.stream = stream /\ src.filter = target /\ src.durable = d
      /\ cfg.deliver = p /\ cfg.seq = q /\ cfg.time = t
  <2>1. /\ src.stream = stream /\ src.filter = target /\ src.durable = d
        /\ src.cc.deliver = p /\ src.cc.seq = q /\ src.cc.time = t
    BY <1>1 DEF StreamSource
  <2>2. cfg.deliver = src.cc.deliver /\ cfg.seq = src.cc.seq /\ cfg.time = src.cc.time
    BY DEF buildConsumerConfig
  <2> QED  BY <2>1, <2>2
<1> HIDE DEF cfg
<1>3. t # 0 <=> Asks(opts, "time")
  <2>1. \A k \in 1..l : opts[k][1] = "time" => opts[k][2] # 0
    BY <1>0 DEF ChannelOptions
  <2> QED  BY <1>0, <1>1, <2>1 DEF Lasts, NoneOf, LastOf, Asks
<1>4. q # 0 <=> AsksSequence(opts)
  <2>1. \A j, k \in 1..l : LastOf(opts, {"seq"}, l, j) /\ LastOf(opts, {"seq"}, l, k) => j = k
    BY DEF LastOf
  <2>2. CASE NoneOf(opts, {"seq"}, l) /\ q = 0
    BY <1>0, <2>2 DEF NoneOf, LastOf, AsksSequence
  <2>3. ASSUME NEW k \in 1..l, LastOf(opts, {"seq"}, l, k), q = opts[k][2]
        PROVE  q # 0 <=> AsksSequence(opts)
    BY <1>0, <2>1, <2>3 DEF AsksSequence
  <2> QED  BY <1>1, <2>2, <2>3 DEF Lasts
<1>5. \A j, k \in 1..l : LastOf(opts, Starts, l, j) /\ LastOf(opts, Starts, l, k) => j = k
  BY DEF LastOf
<1>6. Creatable(cfg) <=> (p = 3 <=> q # 0) /\ (p = 4 <=> t # 0)
  BY <1>2 DEF Creatable, DeliverByStartSequence, DeliverByStartTime
<1> DEFINE Fine ==
        /\ ~(AsksSequence(opts) /\ Asks(opts, "time"))
        /\ \A k \in 1..l : LastOf(opts, Starts, l, k) => opts[k] # <<"seq", 0>>
<1>7. ASSUME NoneOf(opts, Starts, l) /\ p = DeliverAll
      PROVE  Creatable(cfg) <=> Fine
  <2>1. /\ ~AsksSequence(opts) /\ ~Asks(opts, "time")
        /\ \A k \in 1..l : ~LastOf(opts, Starts, l, k)
    BY <1>0, <1>7 DEF NoneOf, LastOf, Starts, AsksSequence, Asks
  <2> QED  BY <1>3, <1>4, <1>6, <1>7, <2>1 DEF DeliverAll
<1>8. ASSUME NEW k \in 1..l, LastOf(opts, Starts, l, k), p = PolicyOf(opts[k][1])
      PROVE  Creatable(cfg) <=> Fine
  <2>0. /\ opts[k] = <<opts[k][1], opts[k][2]>>
        /\ opts[k][1] \in Starts
    BY <1>0, <1>8 DEF ChannelOptions, LastOf
  <2>1. CASE opts[k][1] = "seq"
    <3>1. LastOf(opts, {"seq"}, l, k) /\ p = 3
      BY <1>8, <2>1 DEF LastOf, Starts, PolicyOf, DeliverByStartSequence
    <3>2. q = opts[k][2]
      <4>1. ~NoneOf(opts, {"seq"}, l)
        BY <2>1 DEF NoneOf
      <4>2. PICK j \in 1..l : LastOf(opts, {"seq"}, l, j) /\ q = opts[j][2]
        BY <1>1, <4>1 DEF Lasts
      <4>3. j = k
        BY <3>1, <4>2 DEF LastOf
      <4> QED  BY <4>2, <4>3
    <3>3. (\A j \in 1..l : LastOf(opts, Starts, l, j) => opts[j] # <<"seq", 0>>) <=> q # 0
      <4>1. opts[k] = <<"seq", q>>
        BY <2>0, <2>1, <3>2
      <4> QED  BY <1>5, <1>8, <4>1
    <3> QED  BY <1>3, <1>4, <1>6, <3>1, <3>3
  <2>2. CASE opts[k][1] = "time"
    <3>1. p = 4 /\ Asks(opts, "time")
      BY <1>0, <1>8, <2>2 DEF PolicyOf, DeliverByStartTime, Asks
    <3>2. \A j \in 1..l : LastOf(opts, Starts, l, j) => opts[j] # <<"seq", 0>>
      BY <1>5, <1>8, <2>2
    <3> QED  BY <1>3, <1>4, <1>6, <3>1, <3>2
  <2> QED  BY <2>0, <2>1, <2>2 DEF Starts
<1>9. Creatable(cfg) <=> Fine
  BY <1>1, <1>7, <1>8
<1> QED  BY <1>0, <1>1, <1>2, <1>9 DEF src, cfg
=============================================================================
