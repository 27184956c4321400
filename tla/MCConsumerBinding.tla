-------------------------- MODULE MCConsumerBinding --------------------------
(* A TLC instance of ConsumerBinding: declarations that differ in each field *)
(* the compatibility check looks at and in some it does not, and specs that  *)
(* break each rule of the validation.                                        *)
EXTENDS ConsumerBinding, TLC

MySources ==
    {Channel("S", "f1", opts) : opts \in
        { << >>, << <<"seq", 1>> >>, << <<"durable", "D">> >>,
          << <<"durable", "D">>, <<"seq", 1>> >>,
          << <<"durable", "D">>, <<"seq", 1>>, <<"time", 1>> >> }}
    \cup {TopicChannel("topic", << <<"durable", "D">>, <<"time", 2>> >>)}
    \cup {StreamSource("S", f, "D", cc) :
             f \in {"f1", "f2"},
             cc \in { [ZeroConfig EXCEPT !.ack = AckAll], [ZeroConfig EXCEPT !.wait = 3],
                      [ZeroConfig EXCEPT !.max = 2, !.replay = 1] }}

MyExisting ==
    {ServerConfig(buildConsumerConfig(StreamSource("S", "f1", "D",
        [ZeroConfig EXCEPT !.deliver = DeliverNew, !.pending = 5]))),
     ServerConfig(buildConsumerConfig(StreamSource("S", "f1", "D",
        [ZeroConfig EXCEPT !.wait = 1])))}

Shape(name, factory, cap) == [name |-> name, factory |-> factory, cap |-> cap]
ChannelSpec(name, decode, extract, src) ==
    [name |-> name, decode |-> decode, extract |-> extract, source |-> src]

Good(src) ==
    [name |-> "imp", version |-> "1", awareness |-> TRUE, thinking |-> TRUE,
     states |-> <<Shape("s", TRUE, 1)>>, channels |-> <<ChannelSpec("c", TRUE, TRUE, src)>>]
Sample == Good(Channel("S", "f1", << >>))
SampleChannel == Sample.channels[1]

BadShapes == {Shape("", TRUE, 1), Shape("s", TRUE, 1), Shape("t", FALSE, 1), Shape("t", TRUE, 0)}
BadChannels ==
    {ChannelSpec("", TRUE, TRUE, [kind |-> "nil"]),
     ChannelSpec("d", FALSE, TRUE, SampleChannel.source),
     ChannelSpec("d", TRUE, FALSE, SampleChannel.source), SampleChannel}
    \cup {ChannelSpec("d", TRUE, TRUE, src) : src \in
             {[kind |-> "nil"], [kind |-> "pointer"], [kind |-> "subject", subject |-> ""],
              Channel("", "f1", << >>), Channel("S", "", << >>)}}
BadSpecs ==
    {[Sample EXCEPT !.name = ""], [Sample EXCEPT !.version = ""],
     [Sample EXCEPT !.awareness = FALSE], [Sample EXCEPT !.thinking = FALSE]}
    \cup {[Sample EXCEPT !.states = Append(@, b)] : b \in BadShapes}
    \cup {[Sample EXCEPT !.channels = Append(@, b)] : b \in BadChannels}
    \cup {[Sample EXCEPT !.channels = << b, b >>, !.states = << b >>] : b \in
             {[name |-> "", factory |-> FALSE, cap |-> 0, decode |-> FALSE, extract |-> FALSE,
               source |-> [kind |-> "nil"]]}}

Symmetry == Permutations(Imps)
MySpecs == {Good(src) : src \in MySources} \cup BadSpecs
=============================================================================
