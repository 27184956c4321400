--------------------------- MODULE SpecValidation ---------------------------
(***************************************************************************)
(* validate.go over the declarations of spec.go and channel.go: the checks *)
(* NewImp makes, in the order it makes them.  A callback is TRUE when it   *)
(* is set; a name is "" when it is empty; an error is the offending field  *)
(* and the index of the shape or channel it belongs to (0 for the spec).   *)
(***************************************************************************)
EXTENDS Integers, Sequences

Valid == <<"nil", 0>>
Check(bad, field, k) == IF bad THEN <<field, k>> ELSE Valid

\* The checks are made in order and the first error is returned.
FirstOf(errs) ==
    LET bad == {r \in DOMAIN errs : errs[r] # Valid}
    IN  IF bad = {} THEN Valid ELSE errs[CHOOSE r \in bad : \A q \in bad : r <= q]

SeenBefore(decls, k) == \E j \in 1..(k - 1) : decls[j].name = decls[k].name

\* Mutant: a cap of zero is let through.
ShapeErr_ZeroCap(states, k) == FirstOf(
    << Check(states[k].name = "", "StateShape.Name", k),
       Check(SeenBefore(states, k), "ErrDuplicateStateShape", k),
       Check(~states[k].factory, "StateShape.Factory", k),
       Check(states[k].cap < 0, "StateShape.Cap", k) >>)

ShapeErr(states, k) == FirstOf(
    << Check(states[k].name = "", "StateShape.Name", k),
       Check(SeenBefore(states, k), "ErrDuplicateStateShape", k),
       Check(~states[k].factory, "StateShape.Factory", k),
       Check(states[k].cap <= 0, "StateShape.Cap", k) >>)

validateStates(states) == FirstOf([k \in DOMAIN states |-> ShapeErr(states, k)])

\* The type switch; its default refuses a pointer to a source.
validateSource(src, k) == FirstOf(
    << Check(src.kind = "subject" /\ src.subject = "", "SubjectSource.Subject", k),
       Check(src.kind = "stream" /\ src.stream = "", "StreamSource.Stream", k),
       Check(src.kind = "stream" /\ src.filter = "", "StreamSource.FilterSubject", k),
       Check(src.kind \notin {"subject", "stream"}, "ChannelSpec.Source", k) >>)

ChannelErr(channels, k) == FirstOf(
    << Check(channels[k].name = "", "ChannelSpec.Name", k),
       Check(SeenBefore(channels, k), "ChannelSpec.Name", k),
       Check(~channels[k].decode, "ChannelSpec.Decode", k),
       Check(~channels[k].extract, "ChannelSpec.ExtractEntity", k),
       Check(channels[k].source.kind = "nil", "ChannelSpec.Source", k),
       validateSource(channels[k].source, k) >>)

validateChannels(channels) == FirstOf([k \in DOMAIN channels |-> ChannelErr(channels, k)])

validateSpec(spec) == FirstOf(
    << Check(spec.name = "", "Name", 0),
       Check(spec.version = "", "Version", 0),
       Check(~spec.awareness, "Awareness", 0),
       Check(~spec.thinking, "Thinking", 0),
       validateStates(spec.states),
       validateChannels(spec.channels) >>)

\* What the Go types give of an ImpSpec: slices of structs, a callback is set or
\* is not, a cap is an int.
IsList(x) == Len(x) \in Nat /\ DOMAIN x = 1..Len(x)
Typed(spec) ==
    /\ spec = [name |-> spec.name, version |-> spec.version, awareness |-> spec.awareness,
               thinking |-> spec.thinking, states |-> spec.states, channels |-> spec.channels]
    /\ spec.awareness \in BOOLEAN /\ spec.thinking \in BOOLEAN
    /\ IsList(spec.states) /\ IsList(spec.channels)
    /\ \A k \in DOMAIN spec.states :
          spec.states[k].factory \in BOOLEAN /\ spec.states[k].cap \in Int
    /\ \A k \in DOMAIN spec.channels :
          spec.channels[k].decode \in BOOLEAN /\ spec.channels[k].extract \in BOOLEAN

-----------------------------------------------------------------------------
(* What the rest of the harness relies on, without an order of checks *)

DistinctNames(decls) ==
    /\ \A k \in DOMAIN decls : decls[k].name # ""
    /\ \A j, k \in DOMAIN decls : decls[j].name = decls[k].name => j = k

Bindable(src) ==
    \/ src.kind = "subject" /\ src.subject # ""
    \/ src.kind = "stream" /\ src.stream # "" /\ src.filter # ""

WellFormed(spec) ==
    /\ spec.name # "" /\ spec.version # "" /\ spec.awareness /\ spec.thinking
    /\ DistinctNames(spec.states) /\ DistinctNames(spec.channels)
    /\ \A k \in DOMAIN spec.states : spec.states[k].factory /\ spec.states[k].cap > 0
    /\ \A k \in DOMAIN spec.channels :
          /\ spec.channels[k].decode /\ spec.channels[k].extract
          /\ Bindable(spec.channels[k].source)

\* The spec without what comes at or after the declaration an error blames.
Before(spec, err) ==
    IF err[1] \in {"StateShape.Name", "ErrDuplicateStateShape", "StateShape.Factory",
                   "StateShape.Cap"}
    THEN [spec EXCEPT !.states = SubSeq(@, 1, err[2] - 1), !.channels = <<>>]
    ELSE [spec EXCEPT !.channels = SubSeq(@, 1, err[2] - 1)]
=============================================================================
