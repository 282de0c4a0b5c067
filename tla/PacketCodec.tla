----------------------------- MODULE PacketCodec -----------------------------
(***************************************************************************)
(* Packets on the wire: the receive loops of client.c and broker.c, the    *)
(* parsers and the PUBLISH builder of packet.c.  A packet is its type with *)
(* the bits of the first byte, and the bytes after it.  It is received     *)
(* length byte by length byte and parsed field by field, each of which is  *)
(* a step here.  A PUBLISH that is accepted is built again for a           *)
(* subscriber and read once more, either by the subscriber or by           *)
(* client_free, which parses the packets that were not acknowledged.       *)
(* Bytes go up to 2 * Half - 1; Half is 128 in the code.                   *)
(***************************************************************************)
EXTENDS Integers, Sequences, FiniteSets, TableScan

CONSTANTS
    Half,           \* the continuation bit of a length byte
    STR_MAX,        \* MQTT_TOPIC_MAX and the sizes of the other strings, with the final 0
    PAYLOAD_MAX,    \* MQTT_PAYLOAD_MAX and the size of will_payload
    PACKET_MAX,     \* MQTT_MAX_PACKET_SIZE
    OUT_MAX,        \* buffers for packets that are built, MQTT_MAX_PACKET_SIZE + 8
    TOPICS_MAX,     \* filters in one SUBSCRIBE or UNSUBSCRIBE
    Proto,          \* the bytes of the protocol name
    ProtoLevel,     \* the supported protocol level
    ConnectFlags,   \* the set bits of every value of the byte of connect flags
    Wild,           \* the bytes '+' and '#'
    Packets         \* what peers send: [type, qos, flags, bytes]

Byte == 0 .. 2 * Half - 1

Packet ==
    [type : {"connect", "publish", "subscribe", "unsubscribe"}, qos : 0 .. 3,
     flags : SUBSET {"dup", "retain"}, bytes : Seq(Byte)]

ASSUME CodecAssumption ==
    /\ Half \in Nat \ {0, 1} /\ {STR_MAX, PAYLOAD_MAX, PACKET_MAX, OUT_MAX, TOPICS_MAX} \subseteq Nat
    /\ Wild \subseteq Byte /\ ProtoLevel \in Byte /\ Proto \in Seq(Byte)
    /\ ConnectFlags \in [Byte -> SUBSET {"reserved", "clean", "will", "willbits", "user", "password"}]
    /\ Packets \subseteq Packet
    /\ None \notin Nat \cup Seq(Nat) \cup Packet \cup {"ok", "bad", "level"}
    /\ None \notin [topic : Seq(Byte), payload : Seq(Byte), qos : 0 .. 2, pid : Nat,
                    flags : SUBSET {"dup", "retain"}]

VARIABLES
    packet,    \* the packet that is received
    at,        \* bytes of it that have been read
    rlen,      \* remaining length so far, and its next multiplier
    mult,
    buf,       \* the body, None before it is complete
    pos,       \* the parser: bytes consumed,
    want,      \*   the fields that follow,
    got,       \*   and those that were read, as <<field, value>>
    verdict,   \* None, then "ok", "bad" or "level"
    sent       \* the message that the broker built into the packet, or None

codecVars == <<packet, at, rlen, mult, buf, pos, want, got, verdict, sent>>

----------------------------------------------------------------------------
(* Lengths, numbers and strings. *)

(* The multiplier of a length byte. *)
Power[i \in 0 .. 4] == IF i = 0 THEN 1 ELSE Half * Power[i - 1]

\* Mutant: a last digit of 1 is dropped.
EncodeLen_Short(n) ==
    LET left[i \in 0 .. 4] == IF i = 0 THEN n ELSE left[i - 1] \div Half
        k == First({i \in 1 .. 4 : left[i] <= 1})
    IN IF k = None THEN None
       ELSE [i \in 1 .. k |-> (left[i - 1] % Half) + (IF i < k THEN Half ELSE 0)]

(* packet_encode_remaining_len, least significant digit first; left is     *)
(* what is left of n after each digit.                                     *)
EncodeLen(n) ==
    LET left[i \in 0 .. 4] == IF i = 0 THEN n ELSE left[i - 1] \div Half
        k == First({i \in 1 .. 4 : left[i] = 0})
    IN IF k = None THEN None
       ELSE [i \in 1 .. k |-> (left[i - 1] % Half) + (IF i < k THEN Half ELSE 0)]

(* The byte at a position; past the end stands 1, which no test refuses. *)
At8(s, i) == IF i \in 1 .. Len(s) THEN s[i] ELSE 1

Digits(s, k) ==
    LET upTo[i \in 0 .. k] == IF i = 0 THEN 0 ELSE upTo[i - 1] + (At8(s, i) % Half) * Power[i - 1]
    IN upTo[k]

(* packet_decode_remaining_len: <<value, bytes>>, or None. *)
DecodeLen(s) ==
    LET k == First({i \in 1 .. 4 : i <= Len(s) /\ At8(s, i) < Half})
    IN IF k = None THEN None ELSE <<Digits(s, k), k>>

U16(s, i) == At8(s, i) * 2 * Half + At8(s, i + 1)

WriteU16(v) == <<v \div (2 * Half), v % (2 * Half)>>

WriteStr(s) == WriteU16(Len(s)) \o s

----------------------------------------------------------------------------
(* packet_build_publish.  A message has the fields topic, payload, qos,    *)
(* pid and flags (dup and retain).                                         *)
Body(m) ==
    WriteStr(m.topic) \o (IF m.qos > 0 THEN WriteU16(m.pid) ELSE <<>>) \o m.payload

HasWild(s) == \E i \in 1 .. Len(s) : s[i] \in Wild

BuildPublish(m) ==
    LET body == Body(m)
        head == EncodeLen(Len(body))
    IN IF \/ Len(m.topic) \notin 1 .. STR_MAX - 1 \/ HasWild(m.topic)
          \/ m.qos > 2 \/ (m.qos > 0 /\ m.pid = 0)
          \/ Len(m.payload) > PAYLOAD_MAX
          \/ head = None
          \/ 1 + Len(head) + Len(body) > OUT_MAX
       THEN None
       ELSE [type |-> "publish", qos |-> m.qos, flags |-> m.flags, bytes |-> head \o body]

\* The buffers for packets that are built hold the largest PUBLISH.
ASSUME BuffersAssumption ==
    LET n == STR_MAX + 3 + PAYLOAD_MAX
    IN EncodeLen(n) # None /\ 1 + Len(EncodeLen(n)) + n <= OUT_MAX

----------------------------------------------------------------------------
(* Receiving. *)

Arrive(p, m) ==
    /\ packet' = p /\ sent' = m
    /\ at' = 0 /\ rlen' = 0 /\ mult' = 1 /\ buf' = None
    /\ pos' = 0 /\ want' = <<>> /\ got' = <<>> /\ verdict' = None

CodecInit ==
    /\ packet \in Packets /\ sent = None
    /\ at = 0 /\ rlen = 0 /\ mult = 1 /\ buf = None
    /\ pos = 0 /\ want = <<>> /\ got = <<>> /\ verdict = None

Verdict(v) ==
    /\ verdict' = v
    /\ UNCHANGED <<packet, at, rlen, mult, buf, pos, want, got, sent>>

Receiving == verdict = None /\ buf = None /\ (sent # None => packet # None)

(* A byte of the remaining length, recv_packet and recv_mqtt_packet; a     *)
(* peer that sends no more is closed.                                      *)
RecvLen ==
    LET b == packet.bytes[at + 1]
        more == at = 0 \/ At8(packet.bytes, at) >= Half
    IN
    /\ Receiving
    /\ more
    /\ IF at >= Len(packet.bytes) \/ (at > 0 /\ mult * Half > Power[3])
       THEN Verdict("bad")
       ELSE /\ at' = at + 1
            /\ rlen' = rlen + (b % Half) * mult
            /\ mult' = mult * Half
            /\ UNCHANGED <<packet, buf, pos, want, got, verdict, sent>>

(* The fields at the beginning of a packet. *)
FirstFields ==
    CASE packet.type = "connect" -> <<"proto", "head">>
      [] packet.type = "publish" ->
            IF packet.qos > 0 THEN <<"topic", "pid", "payload">> ELSE <<"topic", "payload">>
      [] OTHER -> <<"pid", "topics">>

Parse(body) ==
    /\ buf' = body
    /\ want' = FirstFields
    /\ UNCHANGED <<packet, rlen, mult, pos, got, verdict, sent>>

(* The body, when the length is complete.  packet_parse_publish refuses    *)
(* QoS 3 before it reads.                                                  *)
RecvBody ==
    /\ Receiving
    /\ at > 0 /\ packet.bytes[at] < Half
    /\ IF \/ rlen > PACKET_MAX \/ at + rlen > Len(packet.bytes)
          \/ packet.type = "publish" /\ packet.qos = 3
       THEN Verdict("bad")
       ELSE Parse(SubSeq(packet.bytes, at + 1, at + rlen)) /\ at' = at + rlen

(* client_free decodes the packet from the inflight entry instead. *)
DecodeSaved ==
    LET len == DecodeLen(packet.bytes)
    IN
    /\ Receiving
    /\ sent # None /\ at = 0
    /\ IF len = None THEN Verdict("bad")
       ELSE /\ Parse([i \in 1 .. len[1] |-> At8(packet.bytes, len[2] + i)])
            /\ at' = len[2] + len[1]

----------------------------------------------------------------------------
(* Parsing. *)

Reads(fields) == verdict = None /\ buf # None /\ want # <<>> /\ Head(want) \in fields

(* A field was read: n bytes, and the fields that follow it. *)
Field(value, n, next) ==
    /\ got' = Append(got, <<Head(want), value>>)
    /\ pos' = pos + n
    /\ want' = next \o Tail(want)
    /\ UNCHANGED <<packet, at, rlen, mult, buf, verdict, sent>>

(* The test of read_str after the length. *)
StrFits(n) == pos + 2 + n <= Len(buf) /\ n < STR_MAX

(* read_str, with the test of the protocol name that follows it. *)
ReadStr ==
    LET n == U16(buf, pos + 1)
        s == [i \in 1 .. n |-> At8(buf, pos + 2 + i)]
    IN
    /\ Reads({"proto", "id", "willtopic", "user", "password", "topic", "filter"})
    /\ IF \/ pos + 2 > Len(buf) \/ ~StrFits(n)
          \/ \E i \in 1 .. n : s[i] = 0
          \/ Head(want) = "proto" /\ s # Proto
       THEN Verdict("bad")
       ELSE Field(s, 2 + n, <<>>)

\* Mutant: the last fields of a CONNECT are optional.
ConnectFields_Open(flags) ==
    (IF "will" \in flags THEN <<"willtopic", "willpayload">> ELSE <<>>)
    \o (IF "user" \in flags THEN <<"user">> ELSE <<>>)

(* The fields after the client identifier. *)
ConnectFields(flags) ==
    (IF "will" \in flags THEN <<"willtopic", "willpayload">> ELSE <<>>)
    \o (IF "user" \in flags THEN <<"user">> ELSE <<>>)
    \o (IF "password" \in flags THEN <<"password">> ELSE <<>>)
    \o <<"end">>

(* Level, flags and keep-alive of a CONNECT; "willbits" are the QoS and    *)
(* retain bits of the will.                                                *)
ReadHead ==
    LET level == At8(buf, pos + 1)
        flags == ConnectFlags[At8(buf, pos + 2)]
    IN
    /\ Reads({"head"})
    /\ IF pos + 4 > Len(buf) THEN Verdict("bad")
       ELSE IF level # ProtoLevel THEN Verdict("level")
       ELSE IF \/ "reserved" \in flags
               \/ "willbits" \in flags /\ "will" \notin flags
               \/ "password" \in flags /\ "user" \notin flags
            THEN Verdict("bad")
       ELSE Field(SubSeq(buf, pos + 1, pos + 4), 4, <<"id">> \o ConnectFields(flags))

ReadPid ==
    LET id == U16(buf, pos + 1)
    IN
    /\ Reads({"pid"})
    /\ IF pos + 2 > Len(buf) \/ id = 0 THEN Verdict("bad") ELSE Field(id, 2, <<>>)

(* The will's payload has its length, *)
ReadBlob ==
    LET n == U16(buf, pos + 1)
    IN
    /\ Reads({"willpayload"})
    /\ IF pos + 2 > Len(buf) \/ pos + 2 + n > Len(buf) \/ n > PAYLOAD_MAX
       THEN Verdict("bad")
       ELSE Field(SubSeq(buf, pos + 3, pos + 2 + n), 2 + n, <<>>)

(* that of a PUBLISH is what is left. *)
ReadPayload ==
    LET n == Len(buf) - pos
    IN
    /\ Reads({"payload"})
    /\ IF n > PAYLOAD_MAX THEN Verdict("bad") ELSE Field(SubSeq(buf, pos + 1, pos + n), n, <<>>)

ReadQos ==
    LET q == At8(buf, pos + 1)
    IN
    /\ Reads({"qos"})
    /\ IF pos >= Len(buf) \/ q > 2 THEN Verdict("bad") ELSE Field(q, 1, <<>>)

Count == Cardinality({i \in 1 .. Len(got) : got[i][1] = "filter"})

(* The loop of packet_parse_subscribe and packet_parse_unsubscribe. *)
NextTopic ==
    /\ Reads({"topics"})
    /\ IF IF pos < Len(buf) THEN Count >= TOPICS_MAX ELSE Count = 0
       THEN Verdict("bad")
       ELSE /\ want' = IF pos >= Len(buf) THEN <<>>
                       ELSE IF packet.type = "subscribe" THEN <<"filter", "qos", "topics">>
                       ELSE <<"filter", "topics">>
            /\ UNCHANGED <<packet, at, rlen, mult, buf, pos, got, verdict, sent>>

(* A CONNECT has nothing after its last field. *)
End ==
    /\ Reads({"end"})
    /\ IF pos # Len(buf) THEN Verdict("bad")
       ELSE /\ want' = <<>>
            /\ UNCHANGED <<packet, at, rlen, mult, buf, pos, got, verdict, sent>>

AcceptPacket ==
    /\ verdict = None /\ buf # None /\ want = <<>>
    /\ Verdict("ok")

----------------------------------------------------------------------------
Value(field) ==
    LET i == First({j \in 1 .. Len(got) : got[j][1] = field})
    IN IF i = None THEN 0 ELSE got[i][2]

Message(qos, id) ==
    [topic |-> Value("topic"), payload |-> Value("payload"), qos |-> qos,
     pid |-> IF qos > 0 THEN id ELSE 0, flags |-> packet.flags]

(* Identifiers that the subscriber's connection may give. *)
NextIds == {1, 4 * Half * Half - 1}

(* handle_publish refuses an empty topic and one with wildcards; the       *)
(* fan-out builds the packet at the QoS of the subscription if that is     *)
(* lower, without the retain flag.                                         *)
Forward ==
    /\ verdict = "ok" /\ packet.type = "publish" /\ sent = None
    /\ Value("topic") # <<>> /\ ~HasWild(Value("topic"))
    /\ \E q \in 0 .. packet.qos, id \in NextIds :
         LET m == [Message(q, id) EXCEPT !.flags = @ \ {"retain"}]
         IN Arrive(BuildPublish(m), m)

CodecNext ==
    \/ RecvLen \/ RecvBody \/ DecodeSaved
    \/ ReadStr \/ ReadHead \/ ReadPid \/ ReadBlob \/ ReadPayload \/ ReadQos
    \/ NextTopic \/ End \/ AcceptPacket \/ Forward

CodecSpec == CodecInit /\ [][CodecNext]_codecVars

----------------------------------------------------------------------------
(* Properties. *)

(* The bytes of a field. *)
Encoded(g) ==
    CASE g[1] = "pid" -> WriteU16(g[2])
      [] g[1] = "qos" -> <<g[2]>>
      [] g[1] \in {"head", "payload"} -> g[2]
      [] OTHER -> WriteStr(g[2])

AllEncoded ==
    LET upTo[i \in 0 .. Len(got)] == IF i = 0 THEN <<>> ELSE upTo[i - 1] \o Encoded(got[i])
    IN upTo[Len(got)]

(* No parser of packet.c consumes bytes past the end of the body or stores *)
(* more filters than the arrays of its caller hold, and a packet is        *)
(* accepted only if the fields that were read are the whole body: no byte  *)
(* is skipped, read twice or left over.                                    *)
ParsedExactly ==
    /\ buf # None => pos <= Len(buf) /\ Len(buf) <= PACKET_MAX /\ Count <= TOPICS_MAX
    /\ verdict = "ok" => AllEncoded = buf

(* A PUBLISH that the broker accepts fits the buffers of the fan-out at    *)
(* every QoS, and a subscriber, or client_free that saves it in the        *)
(* session, reads from it the message that was meant.                      *)
RelayedIntact ==
    sent # None =>
        /\ packet # None
        /\ verdict # None => verdict = "ok" /\ Message(packet.qos, Value("pid")) = sent
=============================================================================
