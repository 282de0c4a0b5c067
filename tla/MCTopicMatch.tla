---------------------------- MODULE MCTopicMatch ----------------------------
(* The functions without state of their own: the matching of topics and    *)
(* the packet codec.  In every behaviour one of the two runs, on one of    *)
(* its inputs, and the other rests.                                        *)
EXTENDS TopicMatch, PacketCodec

CONSTANTS FilterLength, TopicLength, BodyLength

Strings(chars, n) == UNION {[1 .. k -> chars] : k \in 0 .. n}

(* Strings for TopicMatch: all up to a length over the characters that the *)
(* functions tell apart.                                                   *)
MCFilters == Strings({"a", "/", "+", "#", "$"}, FilterLength)
MCTopics == Strings({"a", "/", "$"}, TopicLength) \ {<<>>}

(* Packets for PacketCodec.  Bytes are 0 to 7; the byte 2 is a wildcard    *)
(* where it is part of a topic.                                            *)
MCProto == <<1>>
MCConnectFlags ==
    [b \in Byte |-> CASE b = 0 -> {} [] b = 1 -> {"clean"} [] b = 2 -> {"will"}
                      [] b = 3 -> {"willbits"} [] b = 4 -> {"will", "willbits", "user", "password"}
                      [] b = 5 -> {"password"} [] b = 6 -> {"clean", "user"} [] b = 7 -> {"reserved"}]

Framed(type, qos, body) ==
    [type |-> type, qos |-> qos, flags |-> {"dup", "retain"}, bytes |-> EncodeLen(Len(body)) \o body]

Bodies == Strings({0, 1, 2}, BodyLength)

\* every body, and every sequence of length bytes
AnyPublish == {Framed("publish", q, b) : q \in 0 .. 3, b \in Bodies}
              \cup {[type |-> "publish", qos |-> 0, flags |-> {}, bytes |-> s] :
                      s \in Strings({0, 2, 4, 7}, 5)}

\* the largest messages, and one byte more
LargePublish ==
    {Framed("publish", 2, WriteStr([i \in 1 .. n |-> 1]) \o <<0, 1>> \o [i \in 1 .. k |-> 0]) :
        n \in 1 .. STR_MAX, k \in 0 .. PAYLOAD_MAX + 1}

\* lists of filters that are complete, cut off or too long
Lists == {Framed(type, 0, b) : type \in {"subscribe", "unsubscribe"}, b \in Bodies}
         \cup {Framed("subscribe", 0, <<0, 1>> \o x \o y) :
                 x \in {<<0, 1, 1, 2>>, <<0, 0, 1>>}, y \in Strings({0, 1, 3}, 4)}

\* CONNECTs with arbitrary ends, and with all fields, cut off or too long
Connects ==
    {Framed("connect", 0, <<0, 1, 1, l, b, 0, 1>> \o s) : l \in {1, 4}, b \in Byte, s \in Strings({0, 1}, 5)}
    \cup {LET all == <<0, 1, 1, 4, 4, 0, 1, 0, 0, 0, 1, 1, 0, 0, 0, 0, 0, 0, 0>>
          IN Framed("connect", 0, SubSeq(all, 1, n)) : n \in 0 .. 19}

MCPackets == AnyPublish \cup LargePublish \cup Lists \cup Connects

MCInit ==
    \/ MatchInit /\ packet = None /\ sent = None /\ at = 0 /\ rlen = 0 /\ mult = 1 /\ buf = None
       /\ pos = 0 /\ want = <<>> /\ got = <<>> /\ verdict = "bad"
    \/ CodecInit /\ fn = "topic" /\ filter = <<>> /\ topic = <<"a">> /\ fp = 1 /\ tp = 1 /\ ret = "invalid"

MCNext ==
    \/ MatchNext /\ UNCHANGED codecVars
    \/ CodecNext /\ UNCHANGED matchVars

MCSpec == MCInit /\ [][MCNext]_<<matchVars, codecVars>>
=============================================================================
