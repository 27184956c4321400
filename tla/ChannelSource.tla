---------------------------- MODULE ChannelSource ----------------------------
(***************************************************************************)
(* The stream sources imps declare and the consumers they become:          *)
(* schedule.Channel and soulstream.TopicChannel with their options,        *)
(* buildConsumerConfig and compatDiff of stream.go, and the JetStream      *)
(* server's own rules (external).  Policies are the library's numbers, so  *)
(* that zero is "not declared", as it is in the code.                      *)
(***************************************************************************)
EXTENDS Integers, Sequences

CONSTANT DefaultAckWait  \* what the server gives a consumer without AckWait

AckExplicit == 0
AckAll == 1
DeliverAll == 0
DeliverNew == 2
DeliverByStartSequence == 3
DeliverByStartTime == 4

\* ConsumerConfig; time 0 is a nil OptStartTime.  Description is left out.
ZeroConfig == [ack |-> 0, wait |-> 0, max |-> 0, deliver |-> 0, replay |-> 0,
               seq |-> 0, time |-> 0, pending |-> 0]

StreamSource(stream, filter, durable, cc) ==
    [kind |-> "stream", stream |-> stream, filter |-> filter, durable |-> durable, cc |-> cc]

\* One channel option: WithDurable, WithStartSeq or WithStartTime.  The start
\* options set the policy with the position and leave the other position alone.
ApplyOption(src, opt) ==
    CASE opt[1] = "durable" -> [src EXCEPT !.durable = opt[2]]
      [] opt[1] = "seq"     -> [src EXCEPT !.cc.deliver = DeliverByStartSequence,
                                           !.cc.seq = opt[2]]
      [] opt[1] = "time"    -> [src EXCEPT !.cc.deliver = DeliverByStartTime,
                                           !.cc.time = opt[2]]

\* The options, applied one after the other.
WithOptions(src, opts) ==
    LET cfg[n \in 0..Len(opts)] == IF n = 0 THEN src ELSE ApplyOption(cfg[n - 1], opts[n])
    IN  cfg[Len(opts)]

\* schedule.Channel: the target subject is the filter, delivery is from the start.
Channel(stream, target, opts) ==
    WithOptions(StreamSource(stream, target, "", ZeroConfig), opts)

\* soulstream.TopicChannel: the same over the realm's stream and the topic's ops.
TopicChannel(path, opts) ==
    WithOptions(StreamSource("SOULSTREAM", path, "", ZeroConfig), opts)

\* A declared field is copied when it is not zero; the default of AckPolicy is
\* AckExplicit, the zero, and a negative AckWait counts as none.
buildConsumerConfig(src) ==
    [filter |-> src.filter, ack |-> src.cc.ack,
     wait |-> IF src.cc.wait > 0 THEN src.cc.wait ELSE 0,
     max |-> src.cc.max, deliver |-> src.cc.deliver, replay |-> src.cc.replay,
     seq |-> src.cc.seq, time |-> src.cc.time, pending |-> src.cc.pending]

\* Mutant: a default in the declaration must be the default on the server.
compatible_Exact(got, desired) ==
    /\ got.filter = desired.filter
    /\ got.ack = AckExplicit
    /\ got.deliver = desired.deliver /\ got.replay = desired.replay
    /\ got.wait = desired.wait /\ got.max = desired.max

\* compatDiff finds no difference.
compatible(got, desired) ==
    /\ got.filter = desired.filter
    /\ got.ack = AckExplicit
    /\ desired.deliver # 0 => got.deliver = desired.deliver
    /\ desired.replay # 0 => got.replay = desired.replay
    /\ desired.wait > 0 => got.wait >= desired.wait
    /\ desired.max # 0 => got.max = desired.max

-----------------------------------------------------------------------------
(* The server *)

\* The configuration the server stores for the one it is asked to create.
ServerConfig(c) ==
    [c EXCEPT !.wait = IF @ = 0 THEN DefaultAckWait ELSE @,
              !.max = IF @ = 0 THEN -1 ELSE @]

\* A start position must come with its policy, and only with it.
Creatable(c) ==
    /\ c.deliver = DeliverByStartSequence <=> c.seq # 0
    /\ c.deliver = DeliverByStartTime <=> c.time # 0
=============================================================================
