--------------------------- MODULE QosFlow_proofs ---------------------------
(***************************************************************************)
(* For every table size, every set of identifiers and every way in which   *)
(* packets are repeated and identifiers are used again, in both            *)
(* implementations: a QoS 2 message of the peer is published at most once, *)
(* and when its flow has ended it was published; a QoS 2 message to the    *)
(* peer is accepted at most once, and what the peer has not accepted the   *)
(* broker still tracks.                                                    *)
(*                                                                         *)
(* None of this is inductive.  The invariants say for each identifier      *)
(* which packets of the current flow, and which late ones of an earlier    *)
(* flow, can be on the way in which order, and what the tables and the     *)
(* history say of the message meanwhile.                                   *)
(***************************************************************************)
EXTENDS QosFlow, TableScan_proofs, SequenceTheorems, TLAPS

----------------------------------------------------------------------------
(* What is on the way. *)

ToPeer == [type : {"PUBLISH"}, pid : Pid, n : OutNo, qos : QoS]
          \cup [type : {"PUBREL"}, pid : Pid]
          \cup [type : {"PUBACK", "PUBREC", "PUBCOMP"}, pid : PeerPid]

ToBroker == [type : {"PUBLISH"}, pid : PeerPid, n : InNo, qos : QoS]
            \cup [type : {"PUBREL"}, pid : PeerPid]
            \cup [type : {"PUBACK", "PUBREC", "PUBCOMP"}, pid : Pid]

Is(m, type, pid) == m.type = type /\ m.pid = pid

Has(ch, type, pid) == \E i \in 1 .. Len(ch) : Is(ch[i], type, pid)

(* Of one identifier, packets of the first type are all before those of    *)
(* the second.                                                             *)
Ordered(ch, first, second, pid) ==
    \A i, j \in 1 .. Len(ch) : Is(ch[i], first, pid) /\ Is(ch[j], second, pid) => i < j

Single(ch, type, pid) ==
    \A i, j \in 1 .. Len(ch) : Is(ch[i], type, pid) /\ Is(ch[j], type, pid) => i = j

(* Two contents of a channel in which the packets of these types with an   *)
(* identifier are the same.                                                *)
Same(ch, new, types, pid) ==
    \A type \in types :
        /\ Has(new, type, pid) <=> Has(ch, type, pid)
        /\ Single(ch, type, pid) => Single(new, type, pid)
        /\ \A next \in types : Ordered(ch, type, next, pid) => Ordered(new, type, next, pid)

(* What the publisher of a message sends, and what the other end answers. *)
Requests == {"PUBLISH", "PUBREL"}
Answers == {"PUBACK", "PUBREC", "PUBCOMP"}

LEMMA AppendElements ==
    ASSUME NEW S, NEW ch \in Seq(S), NEW m \in S
    PROVE  /\ Append(ch, m) \in Seq(S)
           /\ Len(Append(ch, m)) = Len(ch) + 1 /\ Len(ch) \in Nat
           /\ Append(ch, m)[Len(ch) + 1] = m
           /\ \A i \in 1 .. Len(ch) : Append(ch, m)[i] = ch[i]
  OBVIOUS

LEMMA TailElements ==
    ASSUME NEW S, NEW ch \in Seq(S), ch # <<>>
    PROVE  /\ Tail(ch) \in Seq(S)
           /\ Len(ch) \in Nat \ {0} /\ Len(Tail(ch)) = Len(ch) - 1
           /\ Head(ch) = ch[1] /\ ch[1] \in S
           /\ \A i \in 1 .. Len(ch) - 1 : Tail(ch)[i] = ch[i + 1]
  OBVIOUS

LEMMA HasAppend ==
    ASSUME NEW S, NEW ch \in Seq(S), NEW m \in S, NEW type, NEW pid
    PROVE  Has(Append(ch, m), type, pid) <=> Has(ch, type, pid) \/ Is(m, type, pid)
<1> DEFINE new == Append(ch, m)
<1>1. /\ Len(new) = Len(ch) + 1 /\ Len(ch) \in Nat
      /\ new[Len(ch) + 1] = m
      /\ \A i \in 1 .. Len(ch) : new[i] = ch[i]
  BY AppendElements
<1> HIDE DEF new
<1>2. ASSUME Has(new, type, pid) PROVE Has(ch, type, pid) \/ Is(m, type, pid)
  BY <1>1, <1>2 DEF Has
<1>3. ASSUME Has(ch, type, pid) PROVE Has(new, type, pid)
  BY <1>1, <1>3 DEF Has
<1>4. ASSUME Is(m, type, pid) PROVE Has(new, type, pid)
  <2>1. Len(ch) + 1 \in 1 .. Len(new)
    BY <1>1
  <2> QED
    BY <2>1, <1>1, <1>4 DEF Has
<1>5. Has(new, type, pid) <=> Has(ch, type, pid) \/ Is(m, type, pid)
  BY <1>2, <1>3, <1>4
<1> QED
  BY <1>5 DEF new

LEMMA OrderedAppend ==
    ASSUME NEW S, NEW ch \in Seq(S), NEW m \in S, NEW first, NEW second, NEW pid,
           Ordered(ch, first, second, pid),
           Is(m, first, pid) => first # second /\ ~Has(ch, second, pid)
    PROVE  Ordered(Append(ch, m), first, second, pid)
<1> DEFINE new == Append(ch, m)
<1>1. /\ Len(new) = Len(ch) + 1 /\ Len(ch) \in Nat
      /\ new[Len(ch) + 1] = m
      /\ \A i \in 1 .. Len(ch) : new[i] = ch[i]
  BY AppendElements
<1> HIDE DEF new
<1>2. SUFFICES ASSUME NEW i \in 1 .. Len(new), NEW j \in 1 .. Len(new),
                      Is(new[i], first, pid), Is(new[j], second, pid)
               PROVE  i < j
  BY DEF Ordered, new
<1>3. CASE i \in 1 .. Len(ch) /\ j \in 1 .. Len(ch)
  BY <1>1, <1>2, <1>3 DEF Ordered
<1>4. CASE i = Len(ch) + 1
  <2>1. Is(m, first, pid) /\ first # second /\ ~Has(ch, second, pid)
    BY <1>1, <1>2, <1>4
  <2>2. j # Len(ch) + 1
    BY <2>1, <1>1, <1>2 DEF Is
  <2>3. j \in 1 .. Len(ch)
    BY <2>2, <1>1
  <2> QED
    BY <2>1, <2>3, <1>1, <1>2 DEF Has
<1>5. CASE i \in 1 .. Len(ch) /\ j = Len(ch) + 1
  BY <1>1, <1>5
<1> QED
  BY <1>1, <1>3, <1>4, <1>5

LEMMA SingleAppend ==
    ASSUME NEW S, NEW ch \in Seq(S), NEW m \in S, NEW type, NEW pid,
           Single(ch, type, pid), Is(m, type, pid) => ~Has(ch, type, pid)
    PROVE  Single(Append(ch, m), type, pid)
<1> DEFINE new == Append(ch, m)
<1>1. /\ Len(new) = Len(ch) + 1 /\ Len(ch) \in Nat
      /\ new[Len(ch) + 1] = m
      /\ \A i \in 1 .. Len(ch) : new[i] = ch[i]
  BY AppendElements
<1> HIDE DEF new
<1>2. SUFFICES ASSUME NEW i \in 1 .. Len(new), NEW j \in 1 .. Len(new),
                      Is(new[i], type, pid), Is(new[j], type, pid)
               PROVE  i = j
  BY DEF Single, new
<1>3. CASE i \in 1 .. Len(ch) /\ j \in 1 .. Len(ch)
  BY <1>1, <1>2, <1>3 DEF Single
<1>4. CASE i = Len(ch) + 1 /\ j \in 1 .. Len(ch)
  BY <1>1, <1>2, <1>4 DEF Has
<1>5. CASE i \in 1 .. Len(ch) /\ j = Len(ch) + 1
  BY <1>1, <1>2, <1>5 DEF Has
<1> QED
  BY <1>1, <1>3, <1>4, <1>5

LEMMA HasTail ==
    ASSUME NEW S, NEW ch \in Seq(S), ch # <<>>, NEW type, NEW pid
    PROVE  Has(ch, type, pid) <=> Has(Tail(ch), type, pid) \/ Is(Head(ch), type, pid)
<1> DEFINE new == Tail(ch)
<1>1. /\ Len(ch) \in Nat \ {0} /\ Len(new) = Len(ch) - 1
      /\ Head(ch) = ch[1]
      /\ \A i \in 1 .. Len(ch) - 1 : new[i] = ch[i + 1]
  BY TailElements
<1> HIDE DEF new
<1>2. ASSUME Has(ch, type, pid) PROVE Has(new, type, pid) \/ Is(Head(ch), type, pid)
  <2> PICK i \in 1 .. Len(ch) : Is(ch[i], type, pid)
    BY <1>2 DEF Has
  <2>1. CASE i = 1
    BY <2>1, <1>1
  <2>2. CASE i # 1
    <3>1. i - 1 \in 1 .. Len(new) /\ new[i - 1] = ch[i]
      BY <2>2, <1>1
    <3> QED
      BY <3>1 DEF Has
  <2> QED
    BY <2>1, <2>2
<1>3. ASSUME Has(new, type, pid) PROVE Has(ch, type, pid)
  <2> PICK i \in 1 .. Len(new) : Is(new[i], type, pid)
    BY <1>3 DEF Has
  <2>1. i + 1 \in 1 .. Len(ch) /\ new[i] = ch[i + 1]
    BY <1>1
  <2> QED
    BY <2>1 DEF Has
<1>4. ASSUME Is(Head(ch), type, pid) PROVE Has(ch, type, pid)
  <2>1. 1 \in 1 .. Len(ch)
    BY <1>1
  <2> QED
    BY <2>1, <1>1, <1>4 DEF Has
<1>5. Has(ch, type, pid) <=> Has(new, type, pid) \/ Is(Head(ch), type, pid)
  BY <1>2, <1>3, <1>4
<1> QED
  BY <1>5 DEF new

LEMMA OrderedTail ==
    ASSUME NEW S, NEW ch \in Seq(S), ch # <<>>, NEW first, NEW second, NEW pid,
           Ordered(ch, first, second, pid)
    PROVE  /\ Ordered(Tail(ch), first, second, pid)
           /\ Is(Head(ch), second, pid) => ~Has(ch, first, pid)
<1> DEFINE new == Tail(ch)
<1>1. /\ Len(ch) \in Nat \ {0} /\ Len(new) = Len(ch) - 1
      /\ Head(ch) = ch[1]
      /\ \A i \in 1 .. Len(ch) - 1 : new[i] = ch[i + 1]
  BY TailElements
<1> HIDE DEF new
<1>2. ASSUME NEW i \in 1 .. Len(new), NEW j \in 1 .. Len(new),
             Is(new[i], first, pid), Is(new[j], second, pid)
      PROVE  i < j
  <2>1. i + 1 \in 1 .. Len(ch) /\ j + 1 \in 1 .. Len(ch)
        /\ new[i] = ch[i + 1] /\ new[j] = ch[j + 1]
    BY <1>1
  <2>2. i + 1 < j + 1
    BY <2>1, <1>2 DEF Ordered
  <2> QED
    BY <2>2
<1>3. ASSUME Is(Head(ch), second, pid), Has(ch, first, pid) PROVE FALSE
  <2> PICK i \in 1 .. Len(ch) : Is(ch[i], first, pid)
    BY <1>3 DEF Has
  <2>1. 1 \in 1 .. Len(ch)
    BY <1>1
  <2>2. i < 1
    BY <2>1, <1>1, <1>3 DEF Ordered
  <2> QED
    BY <2>2
<1>4. Ordered(new, first, second, pid)
  BY <1>2 DEF Ordered
<1> QED
  BY <1>3, <1>4 DEF new

LEMMA SingleTail ==
    ASSUME NEW S, NEW ch \in Seq(S), ch # <<>>, NEW type, NEW pid, Single(ch, type, pid)
    PROVE  /\ Single(Tail(ch), type, pid)
           /\ Is(Head(ch), type, pid) => ~Has(Tail(ch), type, pid)
<1> DEFINE new == Tail(ch)
<1>1. /\ Len(ch) \in Nat \ {0} /\ Len(new) = Len(ch) - 1
      /\ Head(ch) = ch[1]
      /\ \A i \in 1 .. Len(ch) - 1 : new[i] = ch[i + 1]
  BY TailElements
<1> HIDE DEF new
<1>2. ASSUME NEW i \in 1 .. Len(new), NEW j \in 1 .. Len(new),
             Is(new[i], type, pid), Is(new[j], type, pid)
      PROVE  i = j
  <2>1. i + 1 \in 1 .. Len(ch) /\ j + 1 \in 1 .. Len(ch)
        /\ new[i] = ch[i + 1] /\ new[j] = ch[j + 1]
    BY <1>1
  <2>2. i + 1 = j + 1
    BY <2>1, <1>2 DEF Single
  <2> QED
    BY <2>2
<1>3. ASSUME Is(Head(ch), type, pid), Has(new, type, pid) PROVE FALSE
  <2> PICK i \in 1 .. Len(new) : Is(new[i], type, pid)
    BY <1>3 DEF Has
  <2>1. 1 \in 1 .. Len(ch) /\ i + 1 \in 1 .. Len(ch) /\ new[i] = ch[i + 1]
    BY <1>1
  <2>2. i + 1 = 1
    BY <2>1, <1>1, <1>3 DEF Single
  <2> QED
    BY <2>2
<1>4. Single(new, type, pid)
  BY <1>2 DEF Single
<1> QED
  BY <1>3, <1>4 DEF new

(* A packet of another type or identifier changes nothing for this one. *)
LEMMA SameAppend ==
    ASSUME NEW S, NEW ch \in Seq(S), NEW m \in S, NEW types, NEW pid,
           ~(m.type \in types /\ m.pid = pid)
    PROVE  Same(ch, Append(ch, m), types, pid)
<1> SUFFICES ASSUME NEW type \in types
             PROVE  /\ Has(Append(ch, m), type, pid) <=> Has(ch, type, pid)
                    /\ Single(ch, type, pid) => Single(Append(ch, m), type, pid)
                    /\ \A next \in types : Ordered(ch, type, next, pid) =>
                                           Ordered(Append(ch, m), type, next, pid)
  BY DEF Same
<1>1. ~Is(m, type, pid)
  BY DEF Is
<1> QED
  BY <1>1, HasAppend, SingleAppend, OrderedAppend

LEMMA SameTail ==
    ASSUME NEW S, NEW ch \in Seq(S), ch # <<>>, NEW types, NEW pid,
           ~(Head(ch).type \in types /\ Head(ch).pid = pid)
    PROVE  Same(ch, Tail(ch), types, pid)
<1> SUFFICES ASSUME NEW type \in types
             PROVE  /\ Has(Tail(ch), type, pid) <=> Has(ch, type, pid)
                    /\ Single(ch, type, pid) => Single(Tail(ch), type, pid)
                    /\ \A next \in types : Ordered(ch, type, next, pid) =>
                                           Ordered(Tail(ch), type, next, pid)
  BY DEF Same
<1>1. ~Is(Head(ch), type, pid)
  BY DEF Is
<1> QED
  BY <1>1, HasTail, SingleTail, OrderedTail

LEMMA SameSelf == \A ch, types, pid : Same(ch, ch, types, pid)
  BY DEF Same

----------------------------------------------------------------------------
(* The invariant. *)

(* The channels and the counters, which TypeOK says less of. *)
ChannelsOK ==
    /\ toPeer \in Seq(ToPeer)
    /\ toBroker \in Seq(ToBroker)
    /\ published \in [InNo -> 0 .. 2]

Known(pid) == \E i \in Qos2Ins : qos2_in[i] # None /\ qos2_in[i].pid = pid

(* A PUBLISH belongs to the flow of its identifier. *)
InMessages ==
    \A i \in 1 .. Len(toBroker) : toBroker[i].type = "PUBLISH" =>
        /\ flows[toBroker[i].pid] # None
        /\ toBroker[i].n = flows[toBroker[i].pid].n
        /\ toBroker[i].qos = flows[toBroker[i].pid].qos

(* So does an entry of qos2_in, and no identifier has two. *)
InEntries ==
    \A i \in Qos2Ins : qos2_in[i] # None =>
        /\ flows[qos2_in[i].pid] # None
        /\ qos2_in[i].n = flows[qos2_in[i].pid].n
        /\ flows[qos2_in[i].pid].qos = 2
        /\ \A j \in Qos2Ins : qos2_in[j] # None /\ qos2_in[j].pid = qos2_in[i].pid => i = j

(* Each flow has a message of its own, and what the peer has not sent yet  *)
(* has not been published.                                                 *)
InNumbers ==
    /\ \A pid \in PeerPid : flows[pid] # None =>
         /\ flows[pid].n \in DOMAIN load.in /\ flows[pid].n <= nIn
         /\ load.in[flows[pid].n] = flows[pid].qos
         /\ \A q \in PeerPid : flows[q] # None /\ flows[q].n = flows[pid].n => q = pid
    /\ \A n \in InNo : n > nIn => published[n] = 0

(* The broker has answered the PUBLISH of a QoS 2 message with PUBREC.     *)
Taken(pid) ==
    IF Known(pid)
    THEN published[flows[pid].n] = (IF kind = "client" THEN 1 ELSE 0)
    ELSE kind = "client" /\ published[flows[pid].n] = 0 /\ flows[pid].n \in dropped

Idle(pid) == ~Has(toPeer, "PUBACK", pid) /\ ~Has(toPeer, "PUBREC", pid)

Flow1(pid) ==
    /\ ~flows[pid].rel
    /\ ~Has(toPeer, "PUBREC", pid)
    /\ Single(toBroker, "PUBLISH", pid) /\ Single(toPeer, "PUBACK", pid)
    /\ Has(toPeer, "PUBACK", pid) =>
         ~Has(toBroker, "PUBLISH", pid) /\ published[flows[pid].n] >= 1

(* Late PUBRELs of the last flow come before the PUBLISH, and once there   *)
(* is a PUBREC they are gone, so that none can release this message.       *)
Flow2(pid) ==
    /\ ~Has(toPeer, "PUBACK", pid)
    /\ Ordered(toBroker, "PUBREL", "PUBLISH", pid)
    /\ Ordered(toPeer, "PUBCOMP", "PUBREC", pid)
    /\ IF Has(toPeer, "PUBREC", pid)
       THEN ~Has(toBroker, "PUBREL", pid) /\ Taken(pid)
       ELSE ~Known(pid) /\ published[flows[pid].n] = 0

(* A repeated PUBLISH comes before the PUBREL, and once there is a PUBCOMP *)
(* none is left that could publish the message again.                      *)
Flow2Rel(pid) ==
    /\ ~Has(toPeer, "PUBACK", pid)
    /\ Ordered(toBroker, "PUBLISH", "PUBREL", pid)
    /\ Ordered(toPeer, "PUBREC", "PUBCOMP", pid)
    /\ IF Has(toPeer, "PUBCOMP", pid)
       THEN /\ ~Has(toBroker, "PUBLISH", pid) /\ ~Known(pid)
            /\ \/ published[flows[pid].n] = 1
               \/ published[flows[pid].n] = 0 /\ flows[pid].n \in dropped
       ELSE Taken(pid)

Flow(pid) ==
    IF flows[pid] = None THEN Idle(pid)
    ELSE IF flows[pid].qos = 1 THEN Flow1(pid)
    ELSE IF flows[pid].rel THEN Flow2Rel(pid) ELSE Flow2(pid)

Flows == InMessages /\ InEntries /\ InNumbers /\ \A pid \in PeerPid : Flow(pid)

IInv == TypeOK /\ ChannelsOK /\ InboundOnce /\ (open => Flows)

----------------------------------------------------------------------------
LEMMA Constants ==
    /\ INFLIGHT_MAX \in Nat \ {0} /\ QOS2_IN_MAX \in Nat \ {0} /\ PID_MAX \in Nat \ {0}
    /\ Inflights \subseteq Nat /\ Qos2Ins \subseteq Nat
    /\ InNo \subseteq Nat \ {0} /\ OutNo \subseteq Nat \ {0}
    /\ None \notin Nat
<1>1. InNo \subseteq Nat \ {0}
  BY FlowAssumption DEF InNo
<1>2. OutNo \subseteq Nat \ {0}
  BY FlowAssumption DEF OutNo
<1> QED
  BY <1>1, <1>2, FlowAssumption DEF Inflights, Qos2Ins

(* The numbers of the messages of a behaviour. *)
LEMMA LoadNumbers ==
    ASSUME load \in Loads
    PROVE  /\ load.in \in Seq(QoS) /\ load.out \in Seq(QoS)
           /\ DOMAIN load.in \subseteq InNo /\ DOMAIN load.out \subseteq OutNo
           /\ DOMAIN load.in = 1 .. Len(load.in) /\ Len(load.in) \in Nat
           /\ \A n \in DOMAIN load.in : load.in[n] \in QoS
           /\ \A n \in DOMAIN load.out : load.out[n] \in QoS
<1>1. load \in [out : Seq(QoS), in : Seq(QoS)]
  BY FlowAssumption
<1>2. DOMAIN load.in \subseteq InNo /\ DOMAIN load.out \subseteq OutNo
  BY DEF InNo, OutNo
<1> QED
  BY <1>1, <1>2

LEMMA NextPidType == ASSUME next_packet_id \in 0 .. PID_MAX PROVE NextPid \in Pid
  BY Constants DEF NextPid, Pid

LEMMA FindsPid ==
    ASSUME NEW pid, InflightFind(pid) # None
    PROVE  /\ InflightFind(pid) \in Inflights
           /\ inflight[InflightFind(pid)] # None /\ inflight[InflightFind(pid)].pid = pid
<1> DEFINE I == {i \in Inflights : inflight[i] # None /\ inflight[i].pid = pid}
<1>1. I \subseteq Nat /\ First(I) # None
  BY Constants DEF InflightFind
<1>2. First(I) \in I
  BY <1>1, FirstFound, FirstEmpty
<1> QED
  BY <1>2 DEF InflightFind

LEMMA FindsPubrec ==
    ASSUME NEW pid, PubrecFind(pid) # None
    PROVE  /\ PubrecFind(pid) \in Inflights
           /\ inflight[PubrecFind(pid)] # None /\ inflight[PubrecFind(pid)].pid = pid
           /\ inflight[PubrecFind(pid)].qos = 2 /\ ~inflight[PubrecFind(pid)].waiting_pubcomp
<1> DEFINE I == {i \in Inflights : /\ inflight[i] # None
                                   /\ inflight[i].pid = pid
                                   /\ inflight[i].qos = 2
                                   /\ ~inflight[i].waiting_pubcomp}
<1>1. I \subseteq Nat /\ First(I) # None
  BY Constants DEF PubrecFind
<1>2. First(I) \in I
  BY <1>1, FirstFound, FirstEmpty
<1> QED
  BY <1>2 DEF PubrecFind

LEMMA FindsFree ==
    ASSUME InflightFree # None
    PROVE  InflightFree \in Inflights /\ inflight[InflightFree] = None
<1> DEFINE I == {i \in Inflights : inflight[i] = None}
<1>1. I \subseteq Nat /\ First(I) # None
  BY Constants DEF InflightFree
<1>2. First(I) \in I
  BY <1>1, FirstFound, FirstEmpty
<1> QED
  BY <1>2 DEF InflightFree

LEMMA FreeEntry == InflightFree \in Inflights \cup {None}
  BY FindsFree

LEMMA AckedEntry == ASSUME NEW pid PROVE InflightFind(pid) \in Inflights \cup {None}
  BY FindsPid

LEMMA InEntry ==
    ASSUME NEW pid
    PROVE  \/ /\ Qos2Find(pid) \in Qos2Ins
              /\ qos2_in[Qos2Find(pid)] # None /\ qos2_in[Qos2Find(pid)].pid = pid
              /\ Known(pid)
           \/ Qos2Find(pid) = None /\ ~Known(pid)
<1> DEFINE I == {i \in Qos2Ins : qos2_in[i] # None /\ qos2_in[i].pid = pid}
<1>1. I \subseteq Nat
  BY Constants
<1>2. CASE I = {}
  BY <1>2, FirstEmpty DEF Qos2Find, Known
<1>3. CASE I # {}
  <2>1. First(I) \in I
    BY <1>1, <1>3, FirstFound
  <2> QED
    BY <2>1 DEF Qos2Find, Known
<1> QED
  BY <1>2, <1>3

LEMMA FreeInEntry ==
    ASSUME Qos2Free # None
    PROVE  Qos2Free \in Qos2Ins /\ qos2_in[Qos2Free] = None
<1> DEFINE I == {i \in Qos2Ins : qos2_in[i] = None}
<1>1. I \subseteq Nat /\ First(I) # None
  BY Constants DEF Qos2Free
<1>2. First(I) \in I
  BY <1>1, FirstFound, FirstEmpty
<1> QED
  BY <1>2 DEF Qos2Free

----------------------------------------------------------------------------
(* Types. *)

LEMMA Packets ==
    /\ \A pid \in Pid, n \in OutNo, qos \in QoS : Publish(pid, n, qos) \in ToPeer
    /\ \A pid \in PeerPid, n \in InNo, qos \in QoS : Publish(pid, n, qos) \in ToBroker
    /\ \A pid \in Pid : Ack("PUBREL", pid) \in ToPeer
    /\ \A pid \in PeerPid : Ack("PUBREL", pid) \in ToBroker
    /\ \A pid \in PeerPid, type \in Answers : Ack(type, pid) \in ToPeer
    /\ \A pid \in Pid, type \in Answers : Ack(type, pid) \in ToBroker
  BY DEF Publish, Ack, ToPeer, ToBroker, Answers

LEMMA FromPeer ==
    ASSUME NEW m \in ToBroker
    PROVE  /\ m.type \in Requests \cup Answers
           /\ m.type = "PUBLISH" => m.pid \in PeerPid /\ m.n \in InNo /\ m.qos \in QoS
           /\ m.type = "PUBREL" => m.pid \in PeerPid
           /\ m.type \in Answers => m.pid \in Pid
  BY DEF ToBroker, Requests, Answers

LEMMA FromBroker ==
    ASSUME NEW m \in ToPeer
    PROVE  /\ m.type \in Requests \cup Answers
           /\ m.type = "PUBLISH" => m.pid \in Pid /\ m.n \in OutNo /\ m.qos \in QoS
           /\ m.type = "PUBREL" => m.pid \in Pid
           /\ m.type \in Answers => m.pid \in PeerPid
  BY DEF ToPeer, Requests, Answers

(* The part of TypeOK that says nothing of the channels. *)
TablesOK ==
    /\ kind \in Endpoint /\ load \in Loads /\ open \in BOOLEAN
    /\ next_packet_id \in 0 .. PID_MAX
    /\ sending \subseteq [out : Out, sent : BOOLEAN]
    /\ inflight \in [Inflights -> Entry \cup {None}]
    /\ qos2_in \in [Qos2Ins -> [pid : PeerPid, n : InNo] \cup {None}]
    /\ held \subseteq [pid : Pid, n : OutNo]
    /\ flows \in [PeerPid -> [n : InNo, qos : QoS, rel : BOOLEAN] \cup {None}]
    /\ nIn \in 0 .. Len(load.in)
    /\ shed \subseteq OutNo /\ completed \cup dropped \subseteq InNo

LEMMA PeerPids ==
    ASSUME NEW ch \in Seq(ToPeer)
    PROVE  \A i \in DOMAIN ch : ch[i].type \in {"PUBLISH", "PUBREL"} => ch[i].pid \in Pid
<1> SUFFICES ASSUME NEW i \in DOMAIN ch
             PROVE  ch[i].type \in {"PUBLISH", "PUBREL"} => ch[i].pid \in Pid
  OBVIOUS
<1>1. ch[i] \in ToPeer
  OBVIOUS
<1> QED
  BY <1>1, FromBroker

LEMMA BrokerPids ==
    ASSUME NEW ch \in Seq(ToBroker)
    PROVE  \A i \in DOMAIN ch : ch[i].type \in {"PUBLISH", "PUBREL"} => ch[i].pid \in PeerPid
<1> SUFFICES ASSUME NEW i \in DOMAIN ch
             PROVE  ch[i].type \in {"PUBLISH", "PUBREL"} => ch[i].pid \in PeerPid
  OBVIOUS
<1>1. ch[i] \in ToBroker
  OBVIOUS
<1> QED
  BY <1>1, FromPeer

LEMMA TypesWhole == TablesOK /\ ChannelsOK => TypeOK
  BY PeerPids, BrokerPids DEF TablesOK, ChannelsOK, TypeOK

LEMMA TypesWholeNext == TablesOK' /\ ChannelsOK' => TypeOK'
  BY PeerPids, BrokerPids DEF TablesOK, ChannelsOK, TypeOK

LEMMA OnceType ==
    ASSUME NEW S, NEW f \in [S -> 0 .. 2], NEW n \in S
    PROVE  /\ Once(f, n) \in [S -> 0 .. 2]
           /\ Once(f, n)[n] >= 1 /\ (f[n] = 0 => Once(f, n)[n] = 1)
           /\ \A k \in S : k # n => Once(f, n)[k] = f[k]
           /\ \A k \in S : Once(f, n)[k] >= f[k]
  BY DEF Once

LEMMA Received ==
    ASSUME ChannelsOK, toBroker # <<>>
    PROVE  /\ Head(toBroker) \in ToBroker
           /\ Tail(toBroker) \in Seq(ToBroker)
  BY DEF ChannelsOK

LEMMA PeerReceived ==
    ASSUME ChannelsOK, toPeer # <<>>
    PROVE  /\ Head(toPeer) \in ToPeer
           /\ Tail(toPeer) \in Seq(ToPeer)
  BY DEF ChannelsOK

LEMMA ClosedTypes ==
    ASSUME TablesOK, ChannelsOK, Closed,
           UNCHANGED <<kind, load, sending, peerVars, histVars>>
    PROVE  TablesOK' /\ ChannelsOK'
<1>1. /\ next_packet_id' \in 0 .. PID_MAX
      /\ inflight' \in [Inflights -> Entry \cup {None}]
      /\ qos2_in' \in [Qos2Ins -> [pid : PeerPid, n : InNo] \cup {None}]
  BY Constants DEF Closed, TablesOK
<1>2. toPeer' \in Seq(ToPeer) /\ toBroker' \in Seq(ToBroker) /\ published' = published
  BY DEF Closed, histVars
<1>3. open' \in BOOLEAN
  BY DEF Closed
<1> QED
  BY <1>1, <1>2, <1>3 DEF TablesOK, ChannelsOK, peerVars, histVars

LEMMA PublisherTypes ==
    ASSUME TablesOK, ChannelsOK, Deliver \/ Publisher \/ (\E i \in Inflights : Retry(i))
    PROVE  TablesOK' /\ ChannelsOK'
<1>1. CASE Deliver
  <2> DEFINE n == Len(outs) + 1
             m == [pid |-> NextPid, n |-> n, qos |-> load.out[n]]
  <2>1. n \in DOMAIN load.out /\ next_packet_id' = NextPid
        /\ sending' = sending \cup {[out |-> m, sent |-> FALSE]}
        /\ UNCHANGED <<kind, load, open, inflight, qos2_in, toPeer, toBroker, peerVars,
                       got, shed, published, completed, dropped>>
    BY <1>1 DEF Deliver
  <2>2. n \in OutNo /\ load.out[n] \in QoS
    BY <2>1, LoadNumbers DEF TablesOK
  <2>3. NextPid \in Pid
    BY NextPidType DEF TablesOK
  <2>4. [out |-> m, sent |-> FALSE] \in [out : Out, sent : BOOLEAN]
    BY <2>2, <2>3 DEF Out
  <2> HIDE DEF m, n
  <2>5. NextPid \in 0 .. PID_MAX
    BY <2>3, Constants DEF Pid
  <2> QED
    BY <2>1, <2>4, <2>5 DEF TablesOK, ChannelsOK, peerVars
<1>2. ASSUME NEW s \in sending, Send(s) PROVE TablesOK' /\ ChannelsOK'
  <2>1. s \in [out : Out, sent : BOOLEAN]
    BY DEF TablesOK
  <2>2. Publish(s.out.pid, s.out.n, s.out.qos) \in ToPeer
    BY <2>1, Packets DEF Out
  <2>3. toPeer' \in Seq(ToPeer)
    BY <1>2, <2>2 DEF Send, ChannelsOK
  <2>4. sending' \subseteq [out : Out, sent : BOOLEAN]
    BY <1>2, <2>1 DEF Send, TablesOK
  <2>5. UNCHANGED <<kind, load, open, next_packet_id, inflight, qos2_in, toBroker,
                   peerVars, histVars>>
    BY <1>2 DEF Send
  <2> QED
    BY <2>3, <2>4, <2>5 DEF TablesOK, ChannelsOK, peerVars, histVars
<1>3. ASSUME NEW s \in sending, Store(s) PROVE TablesOK' /\ ChannelsOK'
  <2>1. s \in [out : Out, sent : BOOLEAN]
    BY DEF TablesOK
  <2> DEFINE e == [pid |-> s.out.pid, n |-> s.out.n, qos |-> s.out.qos,
                   waiting_pubcomp |-> FALSE]
  <2>2. e \in Entry /\ s.out.n \in OutNo
    BY <2>1 DEF Entry, Out
  <2>3. /\ sending' \subseteq sending
        /\ \/ shed' = shed \cup {s.out.n} /\ inflight' = inflight
           \/ InflightFree # None /\ inflight' = [inflight EXCEPT ![InflightFree] = e] /\ shed' = shed
        /\ UNCHANGED <<kind, load, open, next_packet_id, qos2_in, toPeer, toBroker,
                       peerVars, outs, got, reused, published, completed, dropped>>
    BY <1>3 DEF Store
  <2> HIDE DEF e
  <2>4. inflight' \in [Inflights -> Entry \cup {None}] /\ shed' \subseteq OutNo
    BY <2>2, <2>3 DEF TablesOK
  <2> QED
    BY <2>3, <2>4 DEF TablesOK, ChannelsOK, peerVars
<1>4. ASSUME NEW i \in Inflights, Retry(i) PROVE TablesOK' /\ ChannelsOK'
  <2>1. inflight[i] \in Entry
    BY <1>4 DEF Retry, TablesOK
  <2>2. /\ Ack("PUBREL", inflight[i].pid) \in ToPeer
        /\ Publish(inflight[i].pid, inflight[i].n, inflight[i].qos) \in ToPeer
    BY <2>1, Packets DEF Entry
  <2>3. toPeer' \in Seq(ToPeer)
    BY <1>4, <2>2 DEF Retry, ChannelsOK
  <2>4. UNCHANGED <<kind, load, open, brokerVars, toBroker, peerVars, histVars>>
    BY <1>4 DEF Retry
  <2> QED
    BY <2>3, <2>4 DEF TablesOK, ChannelsOK, brokerVars, peerVars, histVars
<1> QED
  BY <1>1, <1>2, <1>3, <1>4 DEF Publisher

LEMMA EndpointTypes ==
    ASSUME TablesOK, ChannelsOK, Endpoints
    PROVE  TablesOK' /\ ChannelsOK'
<1> DEFINE m == Head(toBroker)
<1>0. /\ toBroker # <<>>
      /\ m \in ToBroker /\ Tail(toBroker) \in Seq(ToBroker)
      /\ m.type \in Requests \cup Answers
      /\ m.type = "PUBLISH" => m.pid \in PeerPid /\ m.n \in InNo /\ m.qos \in QoS
      /\ m.type = "PUBREL" => m.pid \in PeerPid
      /\ m.type \in Answers => m.pid \in Pid
  <2>1. toBroker # <<>>
    BY DEF Endpoints, InflightAck, Pubrec, Publish1, ClientPublish2, ClientPubrel,
           MeshPublish2, MeshPubrel, Receive
  <2> QED
    BY <2>1, Received, FromPeer
<1> HIDE DEF m
<1>1. ASSUME NEW type \in {"PUBACK", "PUBCOMP"}, InflightAck(type) PROVE TablesOK' /\ ChannelsOK'
  <2>1. /\ toBroker' = Tail(toBroker)
        /\ inflight' = IF InflightFind(m.pid) = None THEN inflight
                       ELSE [inflight EXCEPT ![InflightFind(m.pid)] = None]
        /\ UNCHANGED <<kind, load, open, next_packet_id, sending, qos2_in, toPeer,
                       peerVars, histVars>>
    BY <1>1 DEF InflightAck, Receive, m
  <2>2. inflight' \in [Inflights -> Entry \cup {None}]
    BY <2>1 DEF TablesOK
  <2> QED
    BY <1>0, <2>1, <2>2 DEF TablesOK, ChannelsOK, peerVars, histVars
<1>2. CASE Pubrec
  <2> DEFINE i == PubrecFind(m.pid)
  <2>1. /\ m.type = "PUBREC" /\ toBroker' = Tail(toBroker)
        /\ \/ toPeer' = toPeer /\ inflight' = inflight
           \/ /\ i # None
              /\ toPeer' = Append(toPeer, Ack("PUBREL", m.pid))
              /\ inflight' = [inflight EXCEPT ![i].waiting_pubcomp = TRUE]
        /\ UNCHANGED <<kind, load, open, next_packet_id, sending, qos2_in, peerVars, histVars>>
    BY <1>2 DEF Pubrec, Receive, m
  <2>2. i # None => i \in Inflights /\ inflight[i] # None
    BY FindsPubrec
  <2>3. m.pid \in Pid
    BY <1>0, <2>1 DEF Answers
  <2> HIDE DEF i
  <2>4. inflight' \in [Inflights -> Entry \cup {None}]
    <3>1. ASSUME i # None PROVE [inflight[i] EXCEPT !.waiting_pubcomp = TRUE] \in Entry
      <4>1. inflight[i] \in Entry
        BY <2>2, <3>1 DEF TablesOK
      <4> QED
        BY <4>1 DEF Entry
    <3> QED
      BY <2>1, <2>2, <3>1 DEF TablesOK
  <2>5. toPeer' \in Seq(ToPeer)
    <3>1. Ack("PUBREL", m.pid) \in ToPeer
      BY <2>3, Packets
    <3> QED
      BY <2>1, <3>1 DEF ChannelsOK
  <2> QED
    BY <1>0, <2>1, <2>4, <2>5 DEF TablesOK, ChannelsOK, peerVars, histVars
<1>3. CASE Publish1
  <2>1. /\ m.type = "PUBLISH" /\ toBroker' = Tail(toBroker)
        /\ published' = Once(published, m.n)
        /\ toPeer' = Append(toPeer, Ack("PUBACK", m.pid))
        /\ UNCHANGED <<kind, load, open, brokerVars, peerVars, outs, got, shed,
                       reused, completed, dropped>>
    BY <1>3 DEF Publish1, Receive, m
  <2>2. published' \in [InNo -> 0 .. 2]
    BY <1>0, <2>1, OnceType DEF ChannelsOK
  <2>3. toPeer' \in Seq(ToPeer)
    <3>1. Ack("PUBACK", m.pid) \in ToPeer
      BY <1>0, <2>1, Packets DEF Answers
    <3> QED
      BY <2>1, <3>1 DEF ChannelsOK
  <2> QED
    BY <1>0, <2>1, <2>2, <2>3 DEF TablesOK, ChannelsOK, brokerVars, peerVars
<1>4. ASSUME m.pid \in PeerPid, m.n \in InNo
      PROVE  Qos2Free # None =>
               [qos2_in EXCEPT ![Qos2Free] = [pid |-> m.pid, n |-> m.n]] \in
                 [Qos2Ins -> [pid : PeerPid, n : InNo] \cup {None}]
  <2>1. [pid |-> m.pid, n |-> m.n] \in [pid : PeerPid, n : InNo]
    BY <1>4
  <2> QED
    BY <2>1 DEF TablesOK
<1>5. CASE ClientPublish2
  <2>1. /\ m.type = "PUBLISH" /\ toBroker' = Tail(toBroker)
        /\ \/ UNCHANGED <<qos2_in, published, dropped>>
           \/ dropped' = dropped \cup {m.n} /\ UNCHANGED <<qos2_in, published>>
           \/ /\ Qos2Free # None
              /\ qos2_in' = [qos2_in EXCEPT ![Qos2Free] = [pid |-> m.pid, n |-> m.n]]
              /\ published' = Once(published, m.n)
              /\ dropped' = dropped
        /\ toPeer' = Append(toPeer, Ack("PUBREC", m.pid))
        /\ UNCHANGED <<kind, load, open, next_packet_id, sending, inflight, peerVars,
                       outs, got, shed, reused, completed>>
    BY <1>5 DEF ClientPublish2, Receive, m
  <2>2. published' \in [InNo -> 0 .. 2]
    BY <1>0, <2>1, OnceType DEF ChannelsOK
  <2>5. dropped' \subseteq InNo
    BY <1>0, <2>1 DEF TablesOK
  <2>3. toPeer' \in Seq(ToPeer)
    <3>1. Ack("PUBREC", m.pid) \in ToPeer
      BY <1>0, <2>1, Packets DEF Answers
    <3> QED
      BY <2>1, <3>1 DEF ChannelsOK
  <2>4. qos2_in' \in [Qos2Ins -> [pid : PeerPid, n : InNo] \cup {None}]
    BY <1>0, <1>4, <2>1 DEF TablesOK
  <2> QED
    BY <1>0, <2>1, <2>2, <2>3, <2>4, <2>5 DEF TablesOK, ChannelsOK, peerVars
<1>6. CASE ClientPubrel
  <2>1. /\ m.type = "PUBREL" /\ toBroker' = Tail(toBroker)
        /\ qos2_in' = IF Qos2Find(m.pid) = None THEN qos2_in
                      ELSE [qos2_in EXCEPT ![Qos2Find(m.pid)] = None]
        /\ toPeer' = Append(toPeer, Ack("PUBCOMP", m.pid))
        /\ UNCHANGED <<kind, load, open, next_packet_id, sending, inflight, peerVars, histVars>>
    BY <1>6 DEF ClientPubrel, Receive, m
  <2>2. toPeer' \in Seq(ToPeer)
    <3>1. Ack("PUBCOMP", m.pid) \in ToPeer
      BY <1>0, <2>1, Packets DEF Answers
    <3> QED
      BY <2>1, <3>1 DEF ChannelsOK
  <2>3. qos2_in' \in [Qos2Ins -> [pid : PeerPid, n : InNo] \cup {None}]
    BY <2>1 DEF TablesOK
  <2> QED
    BY <1>0, <2>1, <2>2, <2>3 DEF TablesOK, ChannelsOK, peerVars, histVars
<1>7. CASE MeshPublish2
  <2>1. CASE Qos2Find(m.pid) = None /\ Qos2Free = None
    <3>1. Closed /\ UNCHANGED <<kind, load, sending, peerVars, histVars>>
      BY <1>7, <2>1 DEF MeshPublish2, m
    <3> QED
      BY <3>1, ClosedTypes
  <2>2. CASE ~(Qos2Find(m.pid) = None /\ Qos2Free = None)
    <3>1. /\ m.type = "PUBLISH" /\ toBroker' = Tail(toBroker)
          /\ toPeer' = Append(toPeer, Ack("PUBREC", m.pid))
          /\ qos2_in' = IF Qos2Find(m.pid) # None THEN qos2_in
                        ELSE [qos2_in EXCEPT ![Qos2Free] = [pid |-> m.pid, n |-> m.n]]
          /\ UNCHANGED <<open, next_packet_id, inflight>>
          /\ UNCHANGED <<kind, load, sending, peerVars, histVars>>
      BY <1>7, <2>2 DEF MeshPublish2, m
    <3>2. toPeer' \in Seq(ToPeer)
      <4>1. Ack("PUBREC", m.pid) \in ToPeer
        BY <1>0, <3>1, Packets DEF Answers
      <4> QED
        BY <3>1, <4>1 DEF ChannelsOK
    <3>3. qos2_in' \in [Qos2Ins -> [pid : PeerPid, n : InNo] \cup {None}]
      BY <1>0, <1>4, <2>2, <3>1 DEF TablesOK
    <3> QED
      BY <1>0, <3>1, <3>2, <3>3 DEF TablesOK, ChannelsOK, peerVars, histVars
  <2> QED
    BY <2>1, <2>2
<1>8. CASE MeshPubrel
  <2> DEFINE i == Qos2Find(m.pid)
  <2>1. /\ m.type = "PUBREL" /\ toBroker' = Tail(toBroker)
        /\ \/ UNCHANGED <<qos2_in, published>>
           \/ /\ i # None
              /\ published' = Once(published, qos2_in[i].n)
              /\ qos2_in' = [qos2_in EXCEPT ![i] = None]
        /\ toPeer' = Append(toPeer, Ack("PUBCOMP", m.pid))
        /\ UNCHANGED <<kind, load, open, next_packet_id, sending, inflight, peerVars,
                       outs, got, shed, reused, completed, dropped>>
    BY <1>8 DEF MeshPubrel, Receive, m
  <2>2. i # None => i \in Qos2Ins /\ qos2_in[i] # None
    BY InEntry
  <2> HIDE DEF i
  <2>3. i # None => qos2_in[i].n \in InNo
    BY <2>2 DEF TablesOK
  <2>4. published' \in [InNo -> 0 .. 2]
    BY <2>1, <2>3, OnceType DEF ChannelsOK
  <2>5. qos2_in' \in [Qos2Ins -> [pid : PeerPid, n : InNo] \cup {None}]
    BY <2>1, <2>2 DEF TablesOK
  <2>6. toPeer' \in Seq(ToPeer)
    <3>1. Ack("PUBCOMP", m.pid) \in ToPeer
      BY <1>0, <2>1, Packets DEF Answers
    <3> QED
      BY <2>1, <3>1 DEF ChannelsOK
  <2> QED
    BY <1>0, <2>1, <2>4, <2>5, <2>6 DEF TablesOK, ChannelsOK, peerVars
<1> QED
  BY <1>1, <1>2, <1>3, <1>5, <1>6, <1>7, <1>8 DEF Endpoints

LEMMA PeerTypes ==
    ASSUME TablesOK, ChannelsOK, Peer
    PROVE  TablesOK' /\ ChannelsOK'
<1> DEFINE m == Head(toPeer)
<1>0. /\ toPeer # <<>>
      /\ m \in ToPeer /\ Tail(toPeer) \in Seq(ToPeer)
      /\ m.type \in Requests \cup Answers
      /\ m.type = "PUBLISH" => m.pid \in Pid /\ m.n \in OutNo /\ m.qos \in QoS
      /\ m.type = "PUBREL" => m.pid \in Pid
      /\ m.type \in Answers => m.pid \in PeerPid
  <2>1. toPeer # <<>>
    BY DEF Peer, PeerGetsPublish, PeerGetsPubrel, PeerGetsPubrec, PeerGetsAck, PeerReceive
  <2> QED
    BY <2>1, PeerReceived, FromBroker
<1> HIDE DEF m
<1>1. CASE PeerGetsPublish
  <2> DEFINE type == IF m.qos = 1 THEN "PUBACK" ELSE "PUBREC"
  <2>1. /\ m.type = "PUBLISH" /\ toPeer' = Tail(toPeer)
        /\ held' \subseteq held \cup {[pid |-> m.pid, n |-> m.n]}
        /\ toBroker' = Append(toBroker, Ack(type, m.pid))
        /\ UNCHANGED <<kind, load, open, brokerVars, flows, nIn, outs, shed, reused,
                       published, completed, dropped>>
    BY <1>1 DEF PeerGetsPublish, PeerReceive, PeerSend, m
  <2>2. toBroker' \in Seq(ToBroker)
    <3>1. Ack(type, m.pid) \in ToBroker
      BY <1>0, <2>1, Packets DEF Answers
    <3> QED
      BY <2>1, <3>1 DEF ChannelsOK
  <2>3. held' \subseteq [pid : Pid, n : OutNo]
    BY <1>0, <2>1 DEF TablesOK
  <2> QED
    BY <1>0, <2>1, <2>2, <2>3 DEF TablesOK, ChannelsOK, brokerVars
<1>2. CASE PeerGetsPubrel
  <2>1. /\ m.type = "PUBREL" /\ toPeer' = Tail(toPeer)
        /\ held' \subseteq held
        /\ toBroker' = Append(toBroker, Ack("PUBCOMP", m.pid))
        /\ UNCHANGED <<kind, load, open, brokerVars, flows, nIn, histVars>>
    BY <1>2 DEF PeerGetsPubrel, PeerReceive, PeerSend, m
  <2>2. toBroker' \in Seq(ToBroker)
    <3>1. Ack("PUBCOMP", m.pid) \in ToBroker
      BY <1>0, <2>1, Packets DEF Answers
    <3> QED
      BY <2>1, <3>1 DEF ChannelsOK
  <2> QED
    BY <1>0, <2>1, <2>2 DEF TablesOK, ChannelsOK, brokerVars, histVars
<1>3. CASE PeerGetsPubrec
  <2>1. /\ m.type = "PUBREC" /\ toPeer' = Tail(toPeer)
        /\ \/ UNCHANGED <<flows, toBroker>>
           \/ /\ flows[m.pid] # None
              /\ flows' = [flows EXCEPT ![m.pid].rel = TRUE]
              /\ toBroker' = Append(toBroker, Ack("PUBREL", m.pid))
        /\ UNCHANGED <<kind, load, open, brokerVars, held, nIn, histVars>>
    BY <1>3 DEF PeerGetsPubrec, PeerReceive, PeerSend, m
  <2>2. m.pid \in PeerPid
    BY <1>0, <2>1 DEF Answers
  <2>3. toBroker' \in Seq(ToBroker)
    <3> PICK a : a = Ack("PUBREL", m.pid)
      OBVIOUS
    <3>1. a \in ToBroker /\ toBroker \in Seq(ToBroker)
      BY <2>2, Packets DEF ChannelsOK
    <3>2. toBroker' = toBroker \/ toBroker' = Append(toBroker, a)
      BY <2>1
    <3> QED
      BY <3>1, <3>2, AppendElements
  <2>4. flows' \in [PeerPid -> [n : InNo, qos : QoS, rel : BOOLEAN] \cup {None}]
    <3>1. ASSUME flows[m.pid] # None
          PROVE  [flows[m.pid] EXCEPT !.rel = TRUE] \in [n : InNo, qos : QoS, rel : BOOLEAN]
      <4>1. flows[m.pid] \in [n : InNo, qos : QoS, rel : BOOLEAN]
        BY <2>2, <3>1 DEF TablesOK
      <4> QED
        BY <4>1
    <3> QED
      BY <2>1, <2>2, <3>1 DEF TablesOK
  <2> QED
    BY <1>0, <2>1, <2>3, <2>4 DEF TablesOK, ChannelsOK, brokerVars, histVars
<1>4. CASE PeerGetsAck
  <2>1. /\ m.type \in {"PUBACK", "PUBCOMP"} /\ toPeer' = Tail(toPeer)
        /\ \/ UNCHANGED <<flows, completed>>
           \/ /\ flows[m.pid] # None
              /\ flows' = [flows EXCEPT ![m.pid] = None]
              /\ completed' = completed \cup {flows[m.pid].n}
        /\ UNCHANGED <<kind, load, open, brokerVars, toBroker, held, nIn, outs, got,
                       shed, reused, published, dropped>>
    BY <1>4 DEF PeerGetsAck, PeerReceive, m
  <2>2. m.pid \in PeerPid
    BY <1>0, <2>1 DEF Answers
  <2>3. flows' \in [PeerPid -> [n : InNo, qos : QoS, rel : BOOLEAN] \cup {None}]
    BY <2>1 DEF TablesOK
  <2>4. completed' \subseteq InNo
    BY <2>1, <2>2 DEF TablesOK
  <2> QED
    BY <1>0, <2>1, <2>3, <2>4 DEF TablesOK, ChannelsOK, brokerVars
<1> QED
  BY <1>1, <1>2, <1>3, <1>4 DEF Peer

LEMMA PeerSendTypes ==
    ASSUME TablesOK, ChannelsOK, NEW pid \in PeerPid, PeerRetry(pid) \/ PeerPublish(pid)
    PROVE  TablesOK' /\ ChannelsOK'
<1>1. CASE PeerRetry(pid)
  <2>1. flows[pid] \in [n : InNo, qos : QoS, rel : BOOLEAN]
    BY <1>1 DEF PeerRetry, TablesOK
  <2> DEFINE m == IF flows[pid].rel THEN Ack("PUBREL", pid)
                  ELSE Publish(pid, flows[pid].n, flows[pid].qos)
  <2>2. m \in ToBroker
    BY <2>1, Packets
  <2>3. /\ toBroker' = Append(toBroker, m)
        /\ UNCHANGED <<kind, load, open, brokerVars, toPeer, peerVars, histVars>>
    BY <1>1 DEF PeerRetry, PeerSend
  <2> HIDE DEF m
  <2>4. toBroker' \in Seq(ToBroker)
    BY <2>2, <2>3 DEF ChannelsOK
  <2> QED
    BY <2>3, <2>4 DEF TablesOK, ChannelsOK, brokerVars, peerVars, histVars
<1>2. CASE PeerPublish(pid)
  <2> DEFINE n == nIn + 1
  <2>1. /\ n \in DOMAIN load.in /\ nIn' = n
        /\ flows' = [flows EXCEPT ![pid] = [n |-> n, qos |-> load.in[n], rel |-> FALSE]]
        /\ toBroker' = Append(toBroker, Publish(pid, n, load.in[n]))
        /\ UNCHANGED <<kind, load, open, brokerVars, toPeer, held, histVars>>
    BY <1>2 DEF PeerPublish, PeerSend
  <2>2. n \in InNo /\ load.in[n] \in QoS /\ n \in 0 .. Len(load.in)
    <3>1. load \in Loads
      BY DEF TablesOK
    <3> QED
      BY <2>1, <3>1, LoadNumbers
  <2> HIDE DEF n
  <2>3. toBroker' \in Seq(ToBroker)
    <3>1. Publish(pid, n, load.in[n]) \in ToBroker
      BY <2>2, Packets
    <3> QED
      BY <2>1, <3>1 DEF ChannelsOK
  <2>4. flows' \in [PeerPid -> [n : InNo, qos : QoS, rel : BOOLEAN] \cup {None}]
    BY <2>1, <2>2 DEF TablesOK
  <2> QED
    BY <2>1, <2>2, <2>3, <2>4 DEF TablesOK, ChannelsOK, brokerVars, histVars
<1> QED
  BY <1>1, <1>2

LEMMA TypesStutter ==
    ASSUME TablesOK, ChannelsOK, UNCHANGED vars
    PROVE  TablesOK' /\ ChannelsOK'
  BY DEF vars, brokerVars, peerVars, histVars, TablesOK, ChannelsOK

LEMMA BreakTypes == ASSUME TablesOK, ChannelsOK, Break PROVE TablesOK' /\ ChannelsOK'
  BY ClosedTypes DEF Break

LEMMA TypesNext == TypeOK /\ ChannelsOK /\ [Next]_vars => TypeOK' /\ ChannelsOK'
<1> SUFFICES ASSUME TypeOK, ChannelsOK, [Next]_vars PROVE TypeOK' /\ ChannelsOK'
  OBVIOUS
<1>1. TablesOK
  BY DEF TypeOK, TablesOK
<1>2. TablesOK' /\ ChannelsOK'
  BY <1>1, PublisherTypes, EndpointTypes, PeerTypes, PeerSendTypes, TypesStutter, BreakTypes
  DEF Next
<1> QED
  BY <1>2, TypesWholeNext

LEMMA TypesInit == Init => TypeOK /\ ChannelsOK
<1> SUFFICES ASSUME Init PROVE TypeOK /\ ChannelsOK
  OBVIOUS
<1>1. load \in Loads /\ kind \in Endpoint /\ toPeer = <<>> /\ toBroker = <<>>
  BY DEF Init
<1>2. toPeer \in Seq(ToPeer) /\ toBroker \in Seq(ToBroker)
  BY <1>1
<1>3. published \in [InNo -> 0 .. 2]
  BY DEF Init
<1>4. TablesOK
  <2>1. 0 \in 0 .. Len(load.in)
    BY <1>1, LoadNumbers
  <2> QED
    BY <2>1, Constants DEF Init, TablesOK
<1> QED
  BY <1>2, <1>3, <1>4, TypesWhole DEF ChannelsOK

----------------------------------------------------------------------------
(* What a step leaves alone. *)

LEMMA SameIn ==
    ASSUME NEW ch, NEW new, NEW pid, Same(ch, new, Requests, pid)
    PROVE  /\ Has(new, "PUBLISH", pid) <=> Has(ch, "PUBLISH", pid)
           /\ Has(new, "PUBREL", pid) <=> Has(ch, "PUBREL", pid)
           /\ Single(ch, "PUBLISH", pid) => Single(new, "PUBLISH", pid)
           /\ Ordered(ch, "PUBLISH", "PUBREL", pid) => Ordered(new, "PUBLISH", "PUBREL", pid)
           /\ Ordered(ch, "PUBREL", "PUBLISH", pid) => Ordered(new, "PUBREL", "PUBLISH", pid)
<1>1. "PUBLISH" \in Requests /\ "PUBREL" \in Requests
  BY DEF Requests
<1> QED
  BY <1>1 DEF Same

LEMMA SameAnswers ==
    ASSUME NEW ch, NEW new, NEW pid, Same(ch, new, Answers, pid)
    PROVE  /\ Has(new, "PUBACK", pid) <=> Has(ch, "PUBACK", pid)
           /\ Has(new, "PUBREC", pid) <=> Has(ch, "PUBREC", pid)
           /\ Has(new, "PUBCOMP", pid) <=> Has(ch, "PUBCOMP", pid)
           /\ Single(ch, "PUBACK", pid) => Single(new, "PUBACK", pid)
           /\ Ordered(ch, "PUBREC", "PUBCOMP", pid) => Ordered(new, "PUBREC", "PUBCOMP", pid)
           /\ Ordered(ch, "PUBCOMP", "PUBREC", pid) => Ordered(new, "PUBCOMP", "PUBREC", pid)
<1>1. "PUBACK" \in Answers /\ "PUBREC" \in Answers /\ "PUBCOMP" \in Answers
  BY DEF Answers
<1> QED
  BY <1>1 DEF Same

(* A flow whose packets, entry and message a step does not touch. *)
LEMMA FlowKept ==
    ASSUME NEW pid \in PeerPid, Flow(pid), kind' = kind,
           flows'[pid] = flows[pid], Known(pid)' <=> Known(pid),
           flows[pid] # None => published'[flows[pid].n] = published[flows[pid].n],
           dropped \subseteq dropped',
           Same(toBroker, toBroker', Requests, pid), Same(toPeer, toPeer', Answers, pid)
    PROVE  Flow(pid)'
<1>1. /\ Has(toBroker', "PUBLISH", pid) <=> Has(toBroker, "PUBLISH", pid)
      /\ Has(toBroker', "PUBREL", pid) <=> Has(toBroker, "PUBREL", pid)
      /\ Single(toBroker, "PUBLISH", pid) => Single(toBroker', "PUBLISH", pid)
      /\ Ordered(toBroker, "PUBLISH", "PUBREL", pid) => Ordered(toBroker', "PUBLISH", "PUBREL", pid)
      /\ Ordered(toBroker, "PUBREL", "PUBLISH", pid) => Ordered(toBroker', "PUBREL", "PUBLISH", pid)
  BY SameIn
<1>2. /\ Has(toPeer', "PUBACK", pid) <=> Has(toPeer, "PUBACK", pid)
      /\ Has(toPeer', "PUBREC", pid) <=> Has(toPeer, "PUBREC", pid)
      /\ Has(toPeer', "PUBCOMP", pid) <=> Has(toPeer, "PUBCOMP", pid)
      /\ Single(toPeer, "PUBACK", pid) => Single(toPeer', "PUBACK", pid)
      /\ Ordered(toPeer, "PUBREC", "PUBCOMP", pid) => Ordered(toPeer', "PUBREC", "PUBCOMP", pid)
      /\ Ordered(toPeer, "PUBCOMP", "PUBREC", pid) => Ordered(toPeer', "PUBCOMP", "PUBREC", pid)
  BY SameAnswers
<1>3. CASE flows[pid] = None
  BY <1>2, <1>3 DEF Flow, Idle
<1>4. CASE flows[pid] # None
  <2>1. Taken(pid) => Taken(pid)'
    BY <1>4 DEF Taken
  <2>2. Flow1(pid) => Flow1(pid)'
    BY <1>1, <1>2, <1>4 DEF Flow1
  <2>3. Flow2(pid) => Flow2(pid)'
    BY <1>1, <1>2, <1>4, <2>1 DEF Flow2
  <2>4. Flow2Rel(pid) => Flow2Rel(pid)'
    BY <1>1, <1>2, <1>4, <2>1 DEF Flow2Rel
  <2> QED
    BY <1>4, <2>2, <2>3, <2>4 DEF Flow
<1> QED
  BY <1>3, <1>4

(* The flow of a message that still is on the way to the broker. *)
Kept(pid) ==
    flows[pid] # None => /\ flows'[pid] # None
                         /\ flows'[pid].n = flows[pid].n /\ flows'[pid].qos = flows[pid].qos

LEMMA MessagesTail ==
    ASSUME ChannelsOK, InMessages, toBroker # <<>>, toBroker' = Tail(toBroker),
           \A pid \in PeerPid : Kept(pid)
    PROVE  InMessages'
<1>1. /\ Len(toBroker) \in Nat \ {0} /\ Len(toBroker') = Len(toBroker) - 1
      /\ \A i \in 1 .. Len(toBroker) - 1 : toBroker'[i] = toBroker[i + 1]
  BY TailElements DEF ChannelsOK
<1> SUFFICES ASSUME NEW i \in 1 .. Len(toBroker'), toBroker'[i].type = "PUBLISH"
             PROVE  /\ flows'[toBroker'[i].pid] # None
                    /\ toBroker'[i].n = flows'[toBroker'[i].pid].n
                    /\ toBroker'[i].qos = flows'[toBroker'[i].pid].qos
  BY DEF InMessages
<1> DEFINE m == toBroker[i + 1]
<1>2. i + 1 \in 1 .. Len(toBroker) /\ toBroker'[i] = m
  BY <1>1
<1>3. flows[m.pid] # None /\ m.n = flows[m.pid].n /\ m.qos = flows[m.pid].qos
  BY <1>2 DEF InMessages
<1>4. m.pid \in PeerPid
  <2>1. m \in ToBroker
    BY <1>2 DEF ChannelsOK
  <2> QED
    BY <2>1, <1>2, FromPeer
<1> HIDE DEF m
<1> QED
  BY <1>2, <1>3, <1>4 DEF Kept

LEMMA MessagesAppend ==
    ASSUME ChannelsOK, InMessages, NEW m \in ToBroker, toBroker' = Append(toBroker, m),
           \A pid \in PeerPid : Kept(pid),
           m.type = "PUBLISH" => /\ flows'[m.pid] # None
                                 /\ m.n = flows'[m.pid].n /\ m.qos = flows'[m.pid].qos
    PROVE  InMessages'
<1>1. /\ Len(toBroker') = Len(toBroker) + 1 /\ Len(toBroker) \in Nat
      /\ toBroker'[Len(toBroker) + 1] = m
      /\ \A i \in 1 .. Len(toBroker) : toBroker'[i] = toBroker[i]
  BY AppendElements DEF ChannelsOK
<1> SUFFICES ASSUME NEW i \in 1 .. Len(toBroker'), toBroker'[i].type = "PUBLISH"
             PROVE  /\ flows'[toBroker'[i].pid] # None
                    /\ toBroker'[i].n = flows'[toBroker'[i].pid].n
                    /\ toBroker'[i].qos = flows'[toBroker'[i].pid].qos
  BY DEF InMessages
<1>2. CASE i \in 1 .. Len(toBroker)
  <2> DEFINE k == toBroker[i]
  <2>1. toBroker'[i] = k
    BY <1>1, <1>2
  <2>2. flows[k.pid] # None /\ k.n = flows[k.pid].n /\ k.qos = flows[k.pid].qos
    BY <1>2, <2>1 DEF InMessages
  <2>3. k.pid \in PeerPid
    <3>1. k \in ToBroker
      BY <1>2 DEF ChannelsOK
    <3> QED
      BY <3>1, <2>1, FromPeer
  <2> HIDE DEF k
  <2> QED
    BY <2>1, <2>2, <2>3 DEF Kept
<1>3. CASE i = Len(toBroker) + 1
  BY <1>1, <1>3
<1> QED
  BY <1>1, <1>2, <1>3

LEMMA MessagesKept ==
    ASSUME ChannelsOK, InMessages, UNCHANGED toBroker,
           \A pid \in PeerPid : Has(toBroker, "PUBLISH", pid) => Kept(pid)
    PROVE  InMessages'
<1> SUFFICES ASSUME NEW i \in 1 .. Len(toBroker), toBroker[i].type = "PUBLISH"
             PROVE  /\ flows'[toBroker[i].pid] # None
                    /\ toBroker[i].n = flows'[toBroker[i].pid].n
                    /\ toBroker[i].qos = flows'[toBroker[i].pid].qos
  BY DEF InMessages
<1> DEFINE m == toBroker[i]
<1>1. flows[m.pid] # None /\ m.n = flows[m.pid].n /\ m.qos = flows[m.pid].qos
  BY DEF InMessages
<1>2. m.pid \in PeerPid
  <2>1. m \in ToBroker
    BY DEF ChannelsOK
  <2> QED
    BY <2>1, FromPeer
<1>3. Has(toBroker, "PUBLISH", m.pid)
  BY DEF Has, Is
<1> QED
  BY <1>1, <1>2, <1>3 DEF Kept

LEMMA EntriesKept ==
    ASSUME TypeOK, InEntries, UNCHANGED qos2_in,
           \A pid \in PeerPid : Known(pid) => Kept(pid)
    PROVE  InEntries' /\ \A pid : Known(pid)' <=> Known(pid)
<1>1. \A pid : Known(pid)' <=> Known(pid)
  BY DEF Known
<1>2. ASSUME NEW i \in Qos2Ins, qos2_in[i] # None
      PROVE  /\ flows'[qos2_in[i].pid] # None
             /\ qos2_in[i].n = flows'[qos2_in[i].pid].n
             /\ flows'[qos2_in[i].pid].qos = 2
  <2>1. qos2_in[i].pid \in PeerPid
    BY <1>2 DEF TypeOK
  <2>2. Known(qos2_in[i].pid)
    BY <1>2 DEF Known
  <2> QED
    BY <1>2, <2>1, <2>2 DEF InEntries, Kept
<1> QED
  BY <1>1, <1>2 DEF InEntries

LEMMA EntryPut ==
    ASSUME TypeOK, InEntries, UNCHANGED flows,
           NEW i \in Qos2Ins, qos2_in[i] = None,
           NEW pid \in PeerPid, ~Known(pid), flows[pid] # None, flows[pid].qos = 2,
           qos2_in' = [qos2_in EXCEPT ![i] = [pid |-> pid, n |-> flows[pid].n]]
    PROVE  /\ InEntries' /\ Known(pid)'
           /\ \A q : q # pid => (Known(q)' <=> Known(q))
<1> DEFINE e == [pid |-> pid, n |-> flows[pid].n]
<1>1. e # None
  <2>1. e \in [pid : PeerPid, n : InNo]
    BY DEF TypeOK
  <2> QED
    BY <2>1, FlowAssumption
<1>2. /\ qos2_in'[i] = e /\ e.pid = pid /\ e.n = flows[pid].n
      /\ \A j \in Qos2Ins : j # i => qos2_in'[j] = qos2_in[j]
  BY DEF TypeOK
<1> HIDE DEF e
<1>3. \A j \in Qos2Ins : qos2_in[j] # None => qos2_in[j].pid # pid
  BY DEF Known
<1>4. InEntries'
  <2> SUFFICES ASSUME NEW j \in Qos2Ins, qos2_in'[j] # None
               PROVE  /\ flows[qos2_in'[j].pid] # None
                      /\ qos2_in'[j].n = flows[qos2_in'[j].pid].n
                      /\ flows[qos2_in'[j].pid].qos = 2
                      /\ \A k \in Qos2Ins :
                           qos2_in'[k] # None /\ qos2_in'[k].pid = qos2_in'[j].pid => j = k
    BY DEF InEntries
  <2>1. CASE j = i
    BY <1>2, <1>3, <2>1
  <2>2. CASE j # i
    BY <1>2, <1>3, <2>2 DEF InEntries
  <2> QED
    BY <2>1, <2>2
<1>5. Known(pid)'
  BY <1>1, <1>2 DEF Known
<1>6. ASSUME NEW q, q # pid PROVE Known(q)' <=> Known(q)
  BY <1>1, <1>2, <1>6 DEF Known
<1> QED
  BY <1>4, <1>5, <1>6

LEMMA EntryFreed ==
    ASSUME TypeOK, InEntries, UNCHANGED flows,
           NEW i \in Qos2Ins, qos2_in[i] # None,
           NEW pid, qos2_in[i].pid = pid,
           qos2_in' = [qos2_in EXCEPT ![i] = None]
    PROVE  /\ InEntries' /\ ~Known(pid)'
           /\ \A q : q # pid => (Known(q)' <=> Known(q))
<1>1. /\ qos2_in'[i] = None
      /\ \A j \in Qos2Ins : j # i => qos2_in'[j] = qos2_in[j]
  BY DEF TypeOK
<1>2. InEntries'
  BY <1>1 DEF InEntries
<1>3. ~Known(pid)'
  BY <1>1 DEF Known, InEntries
<1>4. ASSUME NEW q, q # pid PROVE Known(q)' <=> Known(q)
  BY <1>1, <1>4 DEF Known
<1> QED
  BY <1>2, <1>3, <1>4

----------------------------------------------------------------------------
(* A step takes one packet from a channel, or adds one, and of the given   *)
(* types only with these identifiers.                                      *)
Touches(S, ch, new, types, pids) ==
    \/ new = ch
    \/ /\ ch # <<>> /\ new = Tail(ch)
       /\ Head(ch).type \in types => Head(ch).pid \in pids
    \/ \E m \in S : /\ new = Append(ch, m)
                    /\ m.type \in types => m.pid \in pids

LEMMA Untouched ==
    ASSUME NEW S, NEW ch \in Seq(S), NEW new, NEW types, NEW pids,
           Touches(S, ch, new, types, pids), NEW q, q \notin pids
    PROVE  Same(ch, new, types, q)
<1>1. CASE new = ch
  BY <1>1, SameSelf
<1>2. CASE ch # <<>> /\ new = Tail(ch) /\ (Head(ch).type \in types => Head(ch).pid \in pids)
  <2>1. ~(Head(ch).type \in types /\ Head(ch).pid = q)
    BY <1>2
  <2> QED
    BY <1>2, <2>1, SameTail
<1>3. ASSUME NEW m \in S, new = Append(ch, m), m.type \in types => m.pid \in pids
      PROVE  Same(ch, new, types, q)
  <2>1. ~(m.type \in types /\ m.pid = q)
    BY <1>3
  <2> QED
    BY <1>3, <2>1, SameAppend
<1> QED
  BY <1>1, <1>2, <1>3 DEF Touches

LEMMA OtherFlow ==
    ASSUME ChannelsOK, NEW pids,
           Touches(ToBroker, toBroker, toBroker', Requests, pids),
           Touches(ToPeer, toPeer, toPeer', Answers, pids),
           kind' = kind, dropped \subseteq dropped',
           NEW q \in PeerPid, q \notin pids, Flow(q),
           flows'[q] = flows[q], Known(q)' <=> Known(q),
           flows[q] # None => published'[flows[q].n] = published[flows[q].n]
    PROVE  Flow(q)'
<1>1. Same(toBroker, toBroker', Requests, q)
  BY Untouched DEF ChannelsOK
<1>2. Same(toPeer, toPeer', Answers, q)
  BY Untouched DEF ChannelsOK
<1> QED
  BY <1>1, <1>2, FlowKept

(* A step of the flows to the peer. *)
LEMMA OutboundStep ==
    ASSUME TypeOK, ChannelsOK, Flows,
           UNCHANGED <<kind, load, qos2_in, flows, nIn, published, dropped>>,
           Touches(ToBroker, toBroker, toBroker', Requests, {}),
           Touches(ToPeer, toPeer, toPeer', Answers, {})
    PROVE  Flows'
<1>1. \A pid \in PeerPid : Kept(pid)
  BY DEF Kept
<1>2. InMessages'
  <2>1. CASE UNCHANGED toBroker
    BY <1>1, <2>1, MessagesKept DEF Flows
  <2>2. CASE toBroker # <<>> /\ toBroker' = Tail(toBroker)
    BY <1>1, <2>2, MessagesTail DEF Flows
  <2>3. ASSUME NEW m \in ToBroker, toBroker' = Append(toBroker, m), m.type \notin Requests
        PROVE  InMessages'
    <3>1. m.type # "PUBLISH"
      BY <2>3 DEF Requests
    <3> QED
      BY <1>1, <2>3, <3>1, MessagesAppend DEF Flows
  <2> QED
    BY <2>1, <2>2, <2>3 DEF Touches
<1>3. InEntries' /\ \A pid : Known(pid)' <=> Known(pid)
  BY <1>1, EntriesKept DEF Flows
<1>4. InNumbers'
  BY DEF Flows, InNumbers
<1>5. ASSUME NEW q \in PeerPid PROVE Flow(q)'
  BY <1>3, OtherFlow DEF Flows
<1> QED
  BY <1>2, <1>3, <1>4, <1>5 DEF Flows

LEMMA OutboundFlows ==
    ASSUME TypeOK, ChannelsOK, Flows, open,
           \/ Deliver \/ Publisher \/ \E i \in Inflights : Retry(i)
           \/ InflightAck("PUBACK") \/ InflightAck("PUBCOMP") \/ Pubrec
           \/ PeerGetsPublish \/ PeerGetsPubrel
    PROVE  Flows' /\ UNCHANGED <<load, published, completed, dropped>>
<1>1. /\ UNCHANGED <<kind, load, qos2_in, flows, nIn, published, completed, dropped>>
      /\ Touches(ToBroker, toBroker, toBroker', Requests, {})
      /\ Touches(ToPeer, toPeer, toPeer', Answers, {})
  <2>a. TablesOK
    BY DEF TypeOK, TablesOK
  <2>1. CASE Deliver
    BY <2>1 DEF Deliver, peerVars, Touches
  <2>2. ASSUME NEW s \in sending, Send(s)
        PROVE  /\ UNCHANGED <<kind, load, qos2_in, flows, nIn, published, completed, dropped>>
               /\ Touches(ToBroker, toBroker, toBroker', Requests, {})
               /\ Touches(ToPeer, toPeer, toPeer', Answers, {})
    <3> DEFINE m == Publish(s.out.pid, s.out.n, s.out.qos)
    <3>1. m \in ToPeer
      <4>1. s \in [out : Out, sent : BOOLEAN]
        BY DEF TypeOK
      <4> QED
        BY <4>1, Packets DEF Out
    <3>2. m.type \notin Answers
      BY DEF Publish, Answers
    <3>3. toPeer' = Append(toPeer, m)
          /\ UNCHANGED <<kind, load, qos2_in, toBroker, flows, nIn, published, completed, dropped>>
      BY <2>2 DEF Send, peerVars, histVars
    <3> HIDE DEF m
    <3> QED
      BY <3>1, <3>2, <3>3 DEF Touches
  <2>3. ASSUME NEW s \in sending, Store(s)
        PROVE  /\ UNCHANGED <<kind, load, qos2_in, flows, nIn, published, completed, dropped>>
               /\ Touches(ToBroker, toBroker, toBroker', Requests, {})
               /\ Touches(ToPeer, toPeer, toPeer', Answers, {})
    BY <2>3 DEF Store, peerVars, Touches
  <2>4. ASSUME NEW i \in Inflights, Retry(i)
        PROVE  /\ UNCHANGED <<kind, load, qos2_in, flows, nIn, published, completed, dropped>>
               /\ Touches(ToBroker, toBroker, toBroker', Requests, {})
               /\ Touches(ToPeer, toPeer, toPeer', Answers, {})
    <3> PICK m \in ToPeer : m.type \notin Answers /\ toPeer' = Append(toPeer, m)
      <4>1. inflight[i] \in Entry
        BY <2>4 DEF Retry, TypeOK
      <4>2. /\ Ack("PUBREL", inflight[i].pid) \in ToPeer
            /\ Publish(inflight[i].pid, inflight[i].n, inflight[i].qos) \in ToPeer
        BY <4>1, Packets DEF Entry
      <4>3. /\ Ack("PUBREL", inflight[i].pid).type \notin Answers
            /\ Publish(inflight[i].pid, inflight[i].n, inflight[i].qos).type \notin Answers
        BY DEF Ack, Publish, Answers
      <4> QED
        BY <2>4, <4>2, <4>3 DEF Retry
    <3>1. UNCHANGED <<kind, load, qos2_in, toBroker, flows, nIn, published, completed, dropped>>
      BY <2>4 DEF Retry, brokerVars, peerVars, histVars
    <3> QED
      BY <3>1 DEF Touches
  <2>5. ASSUME NEW type \in {"PUBACK", "PUBCOMP"}, InflightAck(type)
        PROVE  /\ UNCHANGED <<kind, load, qos2_in, flows, nIn, published, completed, dropped>>
               /\ Touches(ToBroker, toBroker, toBroker', Requests, {})
               /\ Touches(ToPeer, toPeer, toPeer', Answers, {})
    <3>1. toBroker # <<>> /\ Head(toBroker).type \notin Requests /\ toBroker' = Tail(toBroker)
      BY <2>5 DEF InflightAck, Receive, Requests
    <3>2. UNCHANGED <<kind, load, qos2_in, toPeer, flows, nIn, published, completed, dropped>>
      BY <2>5 DEF InflightAck, peerVars, histVars
    <3> QED
      BY <3>1, <3>2 DEF Touches
  <2>6. CASE Pubrec
    <3> DEFINE m == Ack("PUBREL", Head(toBroker).pid)
    <3>1. toBroker # <<>> /\ Head(toBroker).type = "PUBREC" /\ toBroker' = Tail(toBroker)
      BY <2>6 DEF Pubrec, Receive
    <3>2. UNCHANGED <<kind, load, qos2_in, flows, nIn, published, completed, dropped>>
          /\ (toPeer' = toPeer \/ toPeer' = Append(toPeer, m))
      BY <2>6 DEF Pubrec, peerVars, histVars
    <3>3. m \in ToPeer
      <4>1. Head(toBroker) \in ToBroker
        BY <3>1, Received
      <4> QED
        BY <3>1, <4>1, FromPeer, Packets DEF Answers
    <3>4. m.type \notin Answers /\ Head(toBroker).type \notin Requests
      BY <3>1 DEF Ack, Answers, Requests
    <3> HIDE DEF m
    <3> QED
      BY <3>1, <3>2, <3>3, <3>4 DEF Touches
  <2>7. CASE PeerGetsPublish
    <3> DEFINE m == Ack(IF Head(toPeer).qos = 1 THEN "PUBACK" ELSE "PUBREC", Head(toPeer).pid)
    <3>1. toPeer # <<>> /\ Head(toPeer).type = "PUBLISH" /\ toPeer' = Tail(toPeer)
      BY <2>7 DEF PeerGetsPublish, PeerReceive
    <3>2. UNCHANGED <<kind, load, qos2_in, flows, nIn, published, completed, dropped>>
          /\ toBroker' = Append(toBroker, m)
      BY <2>7 DEF PeerGetsPublish, PeerSend, brokerVars
    <3>3. m \in ToBroker
      <4>1. Head(toPeer) \in ToPeer
        BY <3>1, PeerReceived
      <4> QED
        BY <3>1, <4>1, FromBroker, Packets DEF Answers
    <3>4. m.type \notin Requests /\ Head(toPeer).type \notin Answers
      BY <3>1 DEF Ack, Answers, Requests
    <3> HIDE DEF m
    <3> QED
      BY <3>1, <3>2, <3>3, <3>4 DEF Touches
  <2>8. CASE PeerGetsPubrel
    <3> DEFINE m == Ack("PUBCOMP", Head(toPeer).pid)
    <3>1. toPeer # <<>> /\ Head(toPeer).type = "PUBREL" /\ toPeer' = Tail(toPeer)
      BY <2>8 DEF PeerGetsPubrel, PeerReceive
    <3>2. UNCHANGED <<kind, load, qos2_in, flows, nIn, published, completed, dropped>>
          /\ toBroker' = Append(toBroker, m)
      BY <2>8 DEF PeerGetsPubrel, PeerSend, brokerVars, histVars
    <3>3. m \in ToBroker
      <4>1. Head(toPeer) \in ToPeer
        BY <3>1, PeerReceived
      <4> QED
        BY <3>1, <4>1, FromBroker, Packets DEF Answers
    <3>4. m.type \notin Requests /\ Head(toPeer).type \notin Answers
      BY <3>1 DEF Ack, Answers, Requests
    <3> HIDE DEF m
    <3> QED
      BY <3>1, <3>2, <3>3, <3>4 DEF Touches
  <2> QED
    BY <2>1, <2>2, <2>3, <2>4, <2>5, <2>6, <2>7, <2>8 DEF Publisher
<1>2. Flows'
  BY <1>1, OutboundStep
<1> QED
  BY <1>1, <1>2

----------------------------------------------------------------------------
(* The broker receives a packet of a flow of the peer. *)

LEMMA Vacuous ==
    ASSUME NEW ch, NEW type, NEW pid, ~Has(ch, type, pid)
    PROVE  /\ Single(ch, type, pid)
           /\ \A u : Ordered(ch, type, u, pid) /\ Ordered(ch, u, type, pid)
  BY DEF Has, Single, Ordered

LEMMA HeadPublish ==
    ASSUME ChannelsOK, InMessages, toBroker # <<>>, NEW m, m = Head(toBroker),
           m.type = "PUBLISH"
    PROVE  /\ m.pid \in PeerPid /\ m.n \in InNo
           /\ flows[m.pid] # None /\ m.n = flows[m.pid].n /\ m.qos = flows[m.pid].qos
           /\ Is(m, "PUBLISH", m.pid) /\ Has(toBroker, "PUBLISH", m.pid)
<1>1. m \in ToBroker /\ m = toBroker[1] /\ 1 \in 1 .. Len(toBroker)
  BY TailElements DEF ChannelsOK
<1>2. m.pid \in PeerPid /\ m.n \in InNo
  BY <1>1, FromPeer
<1>3. flows[m.pid] # None /\ m.n = flows[m.pid].n /\ m.qos = flows[m.pid].qos
  BY <1>1 DEF InMessages
<1>4. Is(m, "PUBLISH", m.pid) /\ Has(toBroker, "PUBLISH", m.pid)
  BY <1>1 DEF Is, Has
<1> QED
  BY <1>2, <1>3, <1>4

LEMMA KnownFlow ==
    ASSUME InEntries, NEW pid, Known(pid)
    PROVE  flows[pid] # None /\ flows[pid].qos = 2
  BY DEF Known, InEntries

(* What the step of one flow shows of the others and of the history. *)
LEMMA InboundStep ==
    ASSUME TypeOK, ChannelsOK, Flows, InboundOnce, toBroker # <<>>,
           NEW pid \in PeerPid, NEW m \in ToPeer, Head(toBroker).pid = pid, m.pid = pid,
           toBroker' = Tail(toBroker), toPeer' = Append(toPeer, m),
           UNCHANGED <<kind, load, flows, nIn, completed>>, dropped \subseteq dropped',
           InEntries', \A q : q # pid => (Known(q)' <=> Known(q)),
           \/ published' = published
           \/ /\ flows[pid] # None /\ published' = Once(published, flows[pid].n)
              /\ flows[pid].qos = 1 \/ published[flows[pid].n] = 0,
           Flow(pid)'
    PROVE  Flows' /\ InboundOnce'
<1> DEFINE n == flows[pid].n
<1>0. load \in Loads /\ completed \subseteq InNo
  BY DEF TypeOK
<1>1. DOMAIN load.in \subseteq InNo /\ InNo \subseteq Nat
  BY <1>0, LoadNumbers, Constants
<1>2. InMessages'
  BY MessagesTail DEF Flows, Kept
<1> DEFINE pids == {pid}
<1>t. /\ Touches(ToBroker, toBroker, toBroker', Requests, pids)
      /\ Touches(ToPeer, toPeer, toPeer', Answers, pids)
      /\ \A q : q # pid => q \notin pids
  BY DEF Touches
<1> HIDE DEF pids
<1>3. CASE published' = published
  <2>1. InNumbers' /\ InboundOnce'
    BY <1>3 DEF Flows, InNumbers, InboundOnce
  <2>2. ASSUME NEW q \in PeerPid, q # pid PROVE Flow(q)'
    BY <1>3, <1>t, <2>2, OtherFlow DEF Flows
  <2> QED
    BY <1>2, <2>1, <2>2 DEF Flows
<1>4. CASE /\ flows[pid] # None /\ published' = Once(published, n)
           /\ flows[pid].qos = 1 \/ published[n] = 0
  <2>1. n \in DOMAIN load.in /\ n <= nIn /\ load.in[n] = flows[pid].qos
    BY <1>4 DEF Flows, InNumbers
  <2>2. n \in InNo /\ published \in [InNo -> 0 .. 2]
    BY <1>1, <2>1 DEF ChannelsOK
  <2> HIDE DEF n
  <2>3. /\ published' \in [InNo -> 0 .. 2]
        /\ published[n] = 0 => published'[n] = 1
        /\ \A k \in InNo : k # n => published'[k] = published[k]
        /\ \A k \in InNo : published'[k] >= published[k]
    <3> DEFINE g == Once(published, n)
    <3>1. /\ g \in [InNo -> 0 .. 2]
          /\ published[n] = 0 => g[n] = 1
          /\ \A k \in InNo : k # n => g[k] = published[k]
          /\ \A k \in InNo : g[k] >= published[k]
      BY <2>2, OnceType
    <3> HIDE DEF g
    <3>2. published' = g
      BY <1>4 DEF g
    <3> QED
      BY <3>1, <3>2
  <2>4. \A k \in DOMAIN load.in : load.in[k] = 2 => published'[k] <= 1
    <3> SUFFICES ASSUME NEW k \in DOMAIN load.in, load.in[k] = 2 PROVE published'[k] <= 1
      OBVIOUS
    <3>1. CASE k # n
      BY <1>1, <2>3, <3>1 DEF InboundOnce
    <3>2. CASE k = n
      BY <1>4, <2>1, <2>3, <3>2 DEF n
    <3> QED
      BY <3>1, <3>2
  <2>5. \A k \in completed : published'[k] >= 1 \/ k \in dropped'
    BY <1>0, <1>1, <2>2, <2>3 DEF InboundOnce
  <2>6. \A k \in InNo : k > nIn => published'[k] = 0
    <3> SUFFICES ASSUME NEW k \in InNo, k > nIn PROVE published'[k] = 0
      OBVIOUS
    <3>1. nIn \in Nat /\ k # n
      BY <1>1, <2>1, <2>2 DEF TypeOK
    <3> QED
      BY <2>3, <3>1 DEF Flows, InNumbers
  <2>7. InNumbers'
    BY <2>6 DEF Flows, InNumbers
  <2>8. ASSUME NEW q \in PeerPid, q # pid PROVE Flow(q)'
    <3>1. flows[q] # None => published'[flows[q].n] = published[flows[q].n]
      <4> SUFFICES ASSUME flows[q] # None PROVE published'[flows[q].n] = published[flows[q].n]
        OBVIOUS
      <4>1. flows[q].n \in InNo /\ flows[q].n # n
        BY <1>1, <1>4, <2>8 DEF Flows, InNumbers, n
      <4> QED
        BY <2>3, <4>1
    <3> QED
      BY <1>t, <2>8, <3>1, OtherFlow DEF Flows
  <2> QED
    BY <1>2, <2>4, <2>5, <2>7, <2>8 DEF Flows, InboundOnce
<1> QED
  BY <1>3, <1>4 DEF n

LEMMA Publish1Step ==
    ASSUME TypeOK, ChannelsOK, Flows, InboundOnce, Publish1
    PROVE  Flows' /\ InboundOnce'
<1> DEFINE m == Head(toBroker)
<1> PICK pid : pid = m.pid
  OBVIOUS
<1> DEFINE a == Ack("PUBACK", pid)
<1>1. /\ toBroker # <<>> /\ m.type = "PUBLISH" /\ m.qos = 1 /\ toBroker' = Tail(toBroker)
      /\ published' = Once(published, m.n)
      /\ toPeer' = Append(toPeer, a)
      /\ UNCHANGED <<kind, load, qos2_in, flows, nIn, completed, dropped>>
  BY DEF Publish1, Receive, brokerVars, peerVars
<1>2. /\ pid \in PeerPid /\ m.n \in InNo
      /\ flows[pid] # None /\ m.n = flows[pid].n /\ flows[pid].qos = 1
      /\ Is(m, "PUBLISH", pid) /\ Has(toBroker, "PUBLISH", pid)
  BY <1>1, HeadPublish DEF Flows
<1>3. a \in ToPeer /\ a.pid = pid /\ Is(a, "PUBACK", pid)
      /\ ~Is(a, "PUBREC", pid)
  BY <1>2, Packets DEF Ack, Answers, Is
<1> HIDE DEF a
<1>4. InEntries' /\ \A q : Known(q)' <=> Known(q)
  BY <1>1, EntriesKept DEF Flows, Kept
<1>5. Flow1(pid)
  BY <1>2 DEF Flows, Flow
<1>6. published'[flows[pid].n] >= 1
  BY <1>1, <1>2, OnceType DEF ChannelsOK
<1>7. Single(toBroker', "PUBLISH", pid) /\ ~Has(toBroker', "PUBLISH", pid)
  BY <1>1, <1>2, <1>5, SingleTail DEF Flow1, ChannelsOK
<1>8. ~Has(toPeer, "PUBACK", pid) /\ ~Has(toPeer, "PUBREC", pid)
  BY <1>2, <1>5 DEF Flow1
<1>9. Single(toPeer', "PUBACK", pid) /\ ~Has(toPeer', "PUBREC", pid)
  BY <1>1, <1>3, <1>8, Vacuous, SingleAppend, HasAppend DEF ChannelsOK
<1>10. Flow1(pid)'
  BY <1>1, <1>5, <1>6, <1>7, <1>9 DEF Flow1
<1>11. Flow(pid)'
  BY <1>1, <1>2, <1>10 DEF Flow
<1> QED
  BY <1>1, <1>2, <1>3, <1>4, <1>11, InboundStep

(* A QoS 2 PUBLISH is answered with PUBREC. *)
LEMMA Publish2Flow ==
    ASSUME TypeOK, ChannelsOK, Flows, toBroker # <<>>,
           Head(toBroker).type = "PUBLISH", Head(toBroker).qos = 2,
           NEW pid, pid = Head(toBroker).pid,
           toBroker' = Tail(toBroker), toPeer' = Append(toPeer, Ack("PUBREC", pid)),
           UNCHANGED flows,
           Taken(pid) \/ (~Known(pid) /\ published[flows[pid].n] = 0) => Taken(pid)'
    PROVE  Flow(pid)'
<1> DEFINE m == Head(toBroker)
           a == Ack("PUBREC", pid)
<1>2. /\ pid \in PeerPid
      /\ flows[pid] # None /\ flows[pid].qos = 2
      /\ Is(m, "PUBLISH", pid) /\ Has(toBroker, "PUBLISH", pid)
  BY HeadPublish DEF Flows
<1>3. /\ a \in ToPeer /\ Is(a, "PUBREC", pid)
      /\ ~Is(a, "PUBACK", pid) /\ ~Is(a, "PUBCOMP", pid) /\ ~Is(m, "PUBREL", pid)
  BY <1>2, Packets DEF Ack, Answers, Is
<1>c. toBroker \in Seq(ToBroker) /\ toPeer \in Seq(ToPeer)
  BY DEF ChannelsOK
<1> HIDE DEF a, m
<1>4. /\ Has(toPeer', "PUBREC", pid)
      /\ Has(toPeer', "PUBACK", pid) <=> Has(toPeer, "PUBACK", pid)
      /\ Has(toPeer', "PUBCOMP", pid) <=> Has(toPeer, "PUBCOMP", pid)
  BY <1>3, <1>c, HasAppend DEF a
<1>5. Has(toBroker', "PUBREL", pid) <=> Has(toBroker, "PUBREL", pid)
  BY <1>3, <1>c, HasTail DEF m
<1>6. CASE flows[pid].rel
  <2>1. Flow2Rel(pid)
    BY <1>2, <1>6 DEF Flows, Flow
  <2>2. ~Has(toPeer, "PUBCOMP", pid) /\ Taken(pid)
    BY <1>2, <2>1 DEF Flow2Rel
  <2>3. Ordered(toBroker', "PUBLISH", "PUBREL", pid)
    BY <1>c, <2>1, OrderedTail DEF Flow2Rel
  <2>4. Ordered(toPeer', "PUBREC", "PUBCOMP", pid)
    BY <1>3, <1>c, <2>1, <2>2, OrderedAppend DEF Flow2Rel, a
  <2>5. Flow2Rel(pid)'
    BY <1>4, <2>1, <2>2, <2>3, <2>4 DEF Flow2Rel
  <2> QED
    BY <1>2, <1>6, <2>5 DEF Flow
<1>7. CASE ~flows[pid].rel
  <2>1. Flow2(pid)
    BY <1>2, <1>7 DEF Flows, Flow
  <2>2. Taken(pid)'
    BY <2>1 DEF Flow2
  <2>3. Ordered(toBroker', "PUBREL", "PUBLISH", pid) /\ ~Has(toBroker, "PUBREL", pid)
    BY <1>2, <1>c, <2>1, OrderedTail DEF Flow2, m
  <2>4. Ordered(toPeer', "PUBCOMP", "PUBREC", pid)
    BY <1>3, <1>c, <2>1, OrderedAppend DEF Flow2, a
  <2>5. Flow2(pid)'
    BY <1>4, <1>5, <2>1, <2>2, <2>3, <2>4 DEF Flow2
  <2> QED
    BY <1>2, <1>7, <2>5 DEF Flow
<1> QED
  BY <1>6, <1>7

LEMMA Publish2Step ==
    ASSUME TypeOK, ChannelsOK, Flows, InboundOnce,
           ClientPublish2 \/ (MeshPublish2 /\ open')
    PROVE  Flows' /\ InboundOnce'
<1> DEFINE m == Head(toBroker)
<1> PICK pid : pid = m.pid
  OBVIOUS
<1> DEFINE n == flows[pid].n
           i == Qos2Find(pid)
           j == Qos2Free
           a == Ack("PUBREC", pid)
<1>1. /\ toBroker # <<>> /\ m.type = "PUBLISH" /\ m.qos = 2 /\ toBroker' = Tail(toBroker)
      /\ toPeer' = Append(toPeer, a)
      /\ UNCHANGED <<kind, load, flows, nIn, completed>>
      /\ \/ UNCHANGED <<qos2_in, published, dropped>> /\ i # None
         \/ /\ kind = "client" /\ i = None
            /\ dropped' = dropped \cup {m.n} /\ UNCHANGED <<qos2_in, published>>
         \/ /\ j # None /\ i = None
            /\ qos2_in' = [qos2_in EXCEPT ![j] = [pid |-> pid, n |-> m.n]]
            /\ published' = IF kind = "client" THEN Once(published, m.n) ELSE published
            /\ dropped' = dropped
  <2>1. CASE ClientPublish2
    BY <2>1 DEF ClientPublish2, Receive, peerVars
  <2>2. CASE MeshPublish2 /\ open'
    <3>1. kind = "mesh" /\ ~(i = None /\ j = None)
      BY <2>2 DEF MeshPublish2, Closed
    <3> QED
      BY <2>2, <3>1 DEF MeshPublish2, peerVars, histVars
  <2> QED
    BY <2>1, <2>2
<1>2. /\ pid \in PeerPid /\ n \in InNo
      /\ flows[pid] # None /\ m.n = n /\ flows[pid].qos = 2
      /\ Has(toBroker, "PUBLISH", pid)
  BY <1>1, HeadPublish DEF Flows
<1>3. a \in ToPeer /\ a.pid = pid
  BY <1>2, Packets DEF Ack, Answers
<1>4. (i # None) <=> Known(pid)
  BY InEntry, Constants
<1>5. j # None => j \in Qos2Ins /\ qos2_in[j] = None
  BY FreeInEntry
<1>6. Taken(pid) \/ (~Known(pid) /\ published[n] = 0)
  <2>1. CASE flows[pid].rel
    <3>1. Flow2Rel(pid)
      BY <1>2, <2>1 DEF Flows, Flow
    <3> QED
      BY <1>2, <3>1 DEF Flow2Rel
  <2>2. CASE ~flows[pid].rel
    <3>1. Flow2(pid)
      BY <1>2, <2>2 DEF Flows, Flow
    <3> QED
      BY <1>2, <3>1 DEF Flow2
  <2> QED
    BY <2>1, <2>2
<1> HIDE DEF i, j, n, a
<1>7. CASE UNCHANGED <<qos2_in, published, dropped>> /\ i # None
  <2>1. InEntries' /\ \A q : Known(q)' <=> Known(q)
    BY <1>1, <1>7, EntriesKept DEF Flows, Kept
  <2>2. Taken(pid)'
    BY <1>1, <1>4, <1>6, <1>7, <2>1 DEF Taken
  <2>3. Flow(pid)'
    BY <1>1, <2>2, Publish2Flow DEF a
  <2> QED
    BY <1>1, <1>2, <1>3, <1>7, <2>1, <2>3, InboundStep
<1>8. CASE /\ kind = "client" /\ i = None
           /\ dropped' = dropped \cup {m.n} /\ UNCHANGED <<qos2_in, published>>
  <2>1. InEntries' /\ \A q : Known(q)' <=> Known(q)
    BY <1>1, <1>8, EntriesKept DEF Flows, Kept
  <2>2. published[n] = 0
    BY <1>4, <1>6, <1>8 DEF Taken, n
  <2>3. Taken(pid)'
    BY <1>1, <1>2, <1>4, <1>8, <2>1, <2>2 DEF Taken, n
  <2>4. Flow(pid)'
    BY <1>1, <2>3, Publish2Flow DEF a
  <2> QED
    BY <1>1, <1>2, <1>3, <1>8, <2>1, <2>4, InboundStep
<1>9. CASE /\ j # None /\ i = None
           /\ qos2_in' = [qos2_in EXCEPT ![j] = [pid |-> pid, n |-> m.n]]
           /\ published' = IF kind = "client" THEN Once(published, m.n) ELSE published
           /\ dropped' = dropped
  <2>0. qos2_in' = [qos2_in EXCEPT ![j] = [pid |-> pid, n |-> flows[pid].n]]
    BY <1>2, <1>9 DEF n
  <2>1. InEntries' /\ Known(pid)' /\ \A q : q # pid => (Known(q)' <=> Known(q))
    BY <1>1, <1>2, <1>4, <1>5, <1>9, <2>0, EntryPut DEF Flows
  <2>2. published[n] = 0
    BY <1>4, <1>6, <1>9 DEF Taken, n
  <2>3. published'[n] = IF kind = "client" THEN 1 ELSE 0
    <3>1. Once(published, n)[n] = 1
      BY <1>2, <2>2, OnceType DEF ChannelsOK
    <3> QED
      BY <1>2, <1>9, <2>2, <3>1
  <2>4. Taken(pid)'
    BY <1>1, <2>1, <2>3 DEF Taken, n
  <2>5. Flow(pid)'
    BY <1>1, <2>4, Publish2Flow DEF a
  <2>6. \/ published' = published
        \/ /\ flows[pid] # None /\ published' = Once(published, flows[pid].n)
           /\ published[flows[pid].n] = 0
    BY <1>2, <1>9, <2>2 DEF n
  <2> QED
    BY <1>1, <1>2, <1>3, <1>9, <2>1, <2>5, <2>6, InboundStep
<1> QED
  BY <1>1, <1>7, <1>8, <1>9

(* A PUBREL is answered with PUBCOMP, whether it releases something or is  *)
(* late.                                                                   *)
LEMMA PubrelFlow ==
    ASSUME TypeOK, ChannelsOK, Flows, toBroker # <<>>,
           Head(toBroker).type = "PUBREL", NEW pid \in PeerPid, pid = Head(toBroker).pid,
           toBroker' = Tail(toBroker), toPeer' = Append(toPeer, Ack("PUBCOMP", pid)),
           UNCHANGED <<kind, flows, dropped>>, ~Known(pid)',
           flows[pid] # None =>
             published'[flows[pid].n] = IF Known(pid) THEN 1 ELSE published[flows[pid].n]
    PROVE  Flow(pid)'
<1> DEFINE m == Head(toBroker)
           a == Ack("PUBCOMP", pid)
<1>c. toBroker \in Seq(ToBroker) /\ toPeer \in Seq(ToPeer)
  BY DEF ChannelsOK
<1>2. Is(m, "PUBREL", pid) /\ ~Is(m, "PUBLISH", pid)
  BY DEF Is
<1>3. /\ a \in ToPeer /\ Is(a, "PUBCOMP", pid)
      /\ ~Is(a, "PUBACK", pid) /\ ~Is(a, "PUBREC", pid)
  BY Packets DEF Ack, Answers, Is
<1> HIDE DEF a, m
<1>4. /\ Has(toPeer', "PUBCOMP", pid)
      /\ Has(toPeer', "PUBACK", pid) <=> Has(toPeer, "PUBACK", pid)
      /\ Has(toPeer', "PUBREC", pid) <=> Has(toPeer, "PUBREC", pid)
  BY <1>3, <1>c, HasAppend DEF a
<1>5. /\ Has(toBroker, "PUBREL", pid)
      /\ Has(toBroker', "PUBLISH", pid) <=> Has(toBroker, "PUBLISH", pid)
  BY <1>2, <1>c, HasTail DEF m
<1>p. Flow(pid)
  BY DEF Flows
<1>6. CASE flows[pid] = None
  BY <1>4, <1>6, <1>p DEF Flow, Idle
<1>7. CASE flows[pid] # None /\ flows[pid].qos = 1
  <2>1. Flow1(pid)
    BY <1>7, <1>p DEF Flow
  <2>2. ~Known(pid)
    BY <1>7, KnownFlow DEF Flows
  <2>3. Single(toBroker', "PUBLISH", pid)
    BY <1>c, <2>1, SingleTail DEF Flow1
  <2>4. Single(toPeer', "PUBACK", pid)
    BY <1>3, <1>c, <2>1, SingleAppend DEF Flow1, a
  <2>5. Flow1(pid)'
    BY <1>4, <1>5, <1>7, <2>1, <2>2, <2>3, <2>4 DEF Flow1
  <2> QED
    BY <1>7, <2>5 DEF Flow
<1>8. CASE flows[pid] # None /\ flows[pid].qos # 1 /\ flows[pid].rel
  <2>1. Flow2Rel(pid)
    BY <1>8, <1>p DEF Flow
  <2>2. Ordered(toBroker', "PUBLISH", "PUBREL", pid) /\ ~Has(toBroker, "PUBLISH", pid)
    BY <1>2, <1>c, <2>1, OrderedTail DEF Flow2Rel, m
  <2>3. Ordered(toPeer', "PUBREC", "PUBCOMP", pid)
    BY <1>3, <1>c, <2>1, OrderedAppend DEF Flow2Rel, a
  <2>4. \/ published'[flows[pid].n] = 1
        \/ published'[flows[pid].n] = 0 /\ flows[pid].n \in dropped
    BY <1>8, <2>1 DEF Flow2Rel, Taken
  <2>5. Flow2Rel(pid)'
    BY <1>4, <1>5, <2>1, <2>2, <2>3, <2>4 DEF Flow2Rel
  <2> QED
    BY <1>8, <2>5 DEF Flow
<1>9. CASE flows[pid] # None /\ flows[pid].qos # 1 /\ ~flows[pid].rel
  <2>1. Flow2(pid)
    BY <1>9, <1>p DEF Flow
  <2>2. ~Has(toPeer, "PUBREC", pid) /\ ~Known(pid) /\ published[flows[pid].n] = 0
    BY <1>5, <2>1 DEF Flow2
  <2>3. Ordered(toBroker', "PUBREL", "PUBLISH", pid)
    BY <1>c, <2>1, OrderedTail DEF Flow2
  <2>4. Ordered(toPeer', "PUBCOMP", "PUBREC", pid)
    BY <1>3, <1>c, <2>1, <2>2, OrderedAppend DEF Flow2, a
  <2>5. Flow2(pid)'
    BY <1>4, <1>9, <2>1, <2>2, <2>3, <2>4 DEF Flow2
  <2> QED
    BY <1>9, <2>5 DEF Flow
<1> QED
  BY <1>6, <1>7, <1>8, <1>9

LEMMA PubrelStep ==
    ASSUME TypeOK, ChannelsOK, Flows, InboundOnce, ClientPubrel \/ MeshPubrel
    PROVE  Flows' /\ InboundOnce'
<1> DEFINE m == Head(toBroker)
<1> PICK pid : pid = m.pid
  OBVIOUS
<1> DEFINE i == Qos2Find(pid)
           a == Ack("PUBCOMP", pid)
<1>1. /\ toBroker # <<>> /\ m.type = "PUBREL" /\ toBroker' = Tail(toBroker)
      /\ toPeer' = Append(toPeer, a)
      /\ UNCHANGED <<kind, load, flows, nIn, completed, dropped>>
      /\ qos2_in' = IF i = None THEN qos2_in ELSE [qos2_in EXCEPT ![i] = None]
      /\ published' = IF kind = "client" \/ i = None THEN published
                      ELSE Once(published, qos2_in[i].n)
  <2>1. CASE ClientPubrel
    BY <2>1 DEF ClientPubrel, Receive, peerVars, histVars
  <2>2. CASE MeshPubrel
    BY <2>2 DEF MeshPubrel, Receive, peerVars
  <2> QED
    BY <2>1, <2>2
<1>2. pid \in PeerPid
  <2>1. m \in ToBroker
    BY <1>1, Received
  <2> QED
    BY <1>1, <2>1, FromPeer
<1>3. a \in ToPeer /\ a.pid = pid
  BY <1>2, Packets DEF Ack, Answers
<1>4. \/ i \in Qos2Ins /\ qos2_in[i] # None /\ qos2_in[i].pid = pid /\ Known(pid)
      \/ i = None /\ ~Known(pid)
  BY InEntry
<1> HIDE DEF i, a
<1>5. CASE i = None /\ ~Known(pid)
  <2>1. InEntries' /\ \A q : Known(q)' <=> Known(q)
    BY <1>1, <1>5, EntriesKept DEF Flows, Kept
  <2>2. Flow(pid)'
    BY <1>1, <1>2, <1>5, <2>1, PubrelFlow DEF a
  <2> QED
    BY <1>1, <1>2, <1>3, <1>5, <2>1, <2>2, InboundStep
<1>6. CASE i \in Qos2Ins /\ qos2_in[i] # None /\ qos2_in[i].pid = pid /\ Known(pid)
  <2>0. i # None
    BY <1>6, Constants
  <2>1. InEntries' /\ ~Known(pid)' /\ \A q : q # pid => (Known(q)' <=> Known(q))
    BY <1>1, <1>6, <2>0, EntryFreed DEF Flows
  <2>2. flows[pid] # None /\ flows[pid].qos = 2 /\ qos2_in[i].n = flows[pid].n
    BY <1>6 DEF Flows, InEntries
  <2>3. flows[pid].n \in InNo
    BY <1>2, <2>2 DEF TypeOK
  <2>4. published[flows[pid].n] = IF kind = "client" THEN 1 ELSE 0
    <3>1. Taken(pid)
      BY <1>2, <1>6, <2>2 DEF Flows, Flow, Flow2, Flow2Rel
    <3> QED
      BY <1>6, <3>1 DEF Taken
  <2>5. published' = IF kind = "client" THEN published ELSE Once(published, flows[pid].n)
    BY <1>1, <2>0, <2>2
  <2>6. published'[flows[pid].n] = 1
    <3>1. published[flows[pid].n] = 0 => Once(published, flows[pid].n)[flows[pid].n] = 1
      BY <2>3, OnceType DEF ChannelsOK
    <3> QED
      BY <2>4, <2>5, <3>1
  <2>7. Flow(pid)'
    BY <1>1, <1>2, <1>6, <2>1, <2>6, PubrelFlow DEF a
  <2>8. \/ published' = published
        \/ /\ flows[pid] # None /\ published' = Once(published, flows[pid].n)
           /\ published[flows[pid].n] = 0
    BY <2>2, <2>4, <2>5
  <2> QED
    BY <1>1, <1>2, <1>3, <1>6, <2>1, <2>7, <2>8, InboundStep
<1> QED
  BY <1>4, <1>5, <1>6

----------------------------------------------------------------------------
(* The peer sends and receives packets of its flows. *)

LEMMA PeerPublishStep ==
    ASSUME TypeOK, ChannelsOK, Flows, InboundOnce, NEW pid \in PeerPid, PeerPublish(pid)
    PROVE  Flows' /\ InboundOnce'
<1> DEFINE n == nIn + 1
           m == Publish(pid, n, load.in[n])
           f == [n |-> n, qos |-> load.in[n], rel |-> FALSE]
           pids == {pid}
<1>1. /\ n \in DOMAIN load.in /\ flows[pid] = None /\ nIn' = n
      /\ flows' = [flows EXCEPT ![pid] = f]
      /\ toBroker' = Append(toBroker, m)
      /\ UNCHANGED <<kind, load, qos2_in, toPeer, published, completed, dropped>>
  BY DEF PeerPublish, PeerSend, brokerVars, histVars
<1>2. n \in InNo /\ load.in[n] \in QoS /\ InNo \subseteq Nat /\ nIn \in Nat /\ n > nIn
      /\ DOMAIN load.in \subseteq InNo
  <2>1. load \in Loads /\ nIn \in Nat
    BY DEF TypeOK
  <2> QED
    BY <1>1, <2>1, LoadNumbers, Constants
<1>3. f \in [n : InNo, qos : QoS, rel : BOOLEAN] /\ f # None
      /\ f.n = n /\ f.qos = load.in[n] /\ f.rel = FALSE
  <2>1. f \in [n : InNo, qos : QoS, rel : BOOLEAN]
    BY <1>2
  <2>2. f.n = n /\ f.qos = load.in[n] /\ f.rel = FALSE
    OBVIOUS
  <2> HIDE DEF f
  <2> QED
    BY <2>1, <2>2, FlowAssumption
<1>4. m \in ToBroker /\ m.type = "PUBLISH" /\ m.pid = pid /\ m.n = f.n /\ m.qos = f.qos
  BY <1>2, Packets DEF Publish
<1>5. Is(m, "PUBLISH", pid) /\ ~Is(m, "PUBREL", pid)
  BY <1>4 DEF Is
<1>t. /\ Touches(ToBroker, toBroker, toBroker', Requests, pids)
      /\ Touches(ToPeer, toPeer, toPeer', Answers, pids)
      /\ \A q : q # pid => q \notin pids
  BY <1>1, <1>4 DEF Touches
<1>c. toBroker \in Seq(ToBroker) /\ toPeer \in Seq(ToPeer)
  BY DEF ChannelsOK
<1> HIDE DEF pids, f, m, n
<1>6. flows'[pid] = f /\ \A q \in PeerPid : q # pid => flows'[q] = flows[q]
  BY <1>1 DEF TypeOK
<1>7. ~Has(toBroker, "PUBLISH", pid)
  BY <1>1 DEF Has, Is, Flows, InMessages
<1>8. ~Known(pid)
  BY <1>1, KnownFlow DEF Flows
<1>9. \A q \in PeerPid : Kept(q)
  BY <1>1, <1>6 DEF Kept
<1>10. InMessages'
  BY <1>1, <1>3, <1>4, <1>6, <1>9, MessagesAppend DEF Flows
<1>11. InEntries' /\ \A q : Known(q)' <=> Known(q)
  BY <1>1, <1>9, EntriesKept DEF Flows
<1>12. InNumbers'
  <2> SUFFICES /\ \A q \in PeerPid : flows'[q] # None =>
                    /\ flows'[q].n \in DOMAIN load.in /\ flows'[q].n <= n
                    /\ load.in[flows'[q].n] = flows'[q].qos
                    /\ \A r \in PeerPid : flows'[r] # None /\ flows'[r].n = flows'[q].n => r = q
               /\ \A k \in InNo : k > n => published[k] = 0
    BY <1>1 DEF InNumbers
  <2>1. \A k \in InNo : k > n => published[k] = 0
    BY <1>2 DEF Flows, InNumbers
  <2>2. ASSUME NEW q \in PeerPid, flows[q] # None
        PROVE  flows[q].n \in DOMAIN load.in /\ flows[q].n <= nIn /\ flows[q].n \in Nat
    BY <1>2, <2>2 DEF Flows, InNumbers
  <2>3. ASSUME NEW q \in PeerPid, flows'[q] # None
        PROVE  /\ flows'[q].n \in DOMAIN load.in /\ flows'[q].n <= n
               /\ load.in[flows'[q].n] = flows'[q].qos
               /\ \A r \in PeerPid : flows'[r] # None /\ flows'[r].n = flows'[q].n => r = q
    <3>1. CASE q = pid
      <4>1. ASSUME NEW r \in PeerPid, flows'[r] # None, flows'[r].n = flows'[q].n, r # q
            PROVE  FALSE
        <5>1. flows[r] # None /\ flows[r].n = n
          BY <1>3, <1>6, <3>1, <4>1
        <5> QED
          BY <1>2, <2>2, <5>1
      <4> QED
        BY <1>1, <1>2, <1>3, <1>6, <3>1, <4>1
    <3>2. CASE q # pid
      <4>1. flows'[q] = flows[q] /\ flows[q].n # n
        BY <1>2, <1>6, <2>2, <2>3, <3>2
      <4>2. \A r \in PeerPid : flows'[r] # None /\ flows'[r].n = flows[q].n => r = q
        BY <1>3, <1>6, <2>3, <4>1 DEF Flows, InNumbers
      <4> QED
        BY <1>2, <2>2, <2>3, <4>1, <4>2 DEF Flows, InNumbers
    <3> QED
      BY <3>1, <3>2
  <2> QED
    BY <2>1, <2>3
<1>13. ASSUME NEW q \in PeerPid, q # pid PROVE Flow(q)'
  BY <1>1, <1>6, <1>11, <1>13, <1>t, OtherFlow DEF Flows
<1>14. Flow(pid)'
  <2>1. ~Has(toPeer, "PUBACK", pid) /\ ~Has(toPeer, "PUBREC", pid)
    BY <1>1 DEF Flows, Flow, Idle
  <2>2. Single(toPeer, "PUBACK", pid) /\ Ordered(toPeer, "PUBCOMP", "PUBREC", pid)
    BY <2>1, Vacuous
  <2>3. Single(toBroker', "PUBLISH", pid) /\ Ordered(toBroker', "PUBREL", "PUBLISH", pid)
    <3>1. Single(toBroker, "PUBLISH", pid) /\ Ordered(toBroker, "PUBREL", "PUBLISH", pid)
      BY <1>7, Vacuous
    <3> QED
      BY <1>1, <1>4, <1>5, <1>7, <1>c, <3>1, SingleAppend, OrderedAppend
  <2>4. published[n] = 0
    BY <1>2 DEF Flows, InNumbers
  <2>5. CASE load.in[n] = 1
    <3>1. Flow1(pid)'
      BY <1>1, <1>3, <1>6, <2>1, <2>2, <2>3 DEF Flow1
    <3> QED
      BY <1>3, <1>6, <2>5, <3>1 DEF Flow
  <2>6. CASE load.in[n] = 2
    <3>1. Flow2(pid)'
      BY <1>1, <1>3, <1>6, <1>8, <1>11, <2>1, <2>2, <2>3, <2>4 DEF Flow2
    <3> QED
      BY <1>3, <1>6, <2>6, <3>1 DEF Flow
  <2> QED
    BY <1>2, <2>5, <2>6 DEF QoS
<1>15. InboundOnce'
  BY <1>1 DEF InboundOnce
<1> QED
  BY <1>10, <1>11, <1>12, <1>13, <1>14, <1>15 DEF Flows

LEMMA PeerRetryStep ==
    ASSUME TypeOK, ChannelsOK, Flows, InboundOnce, NEW pid \in PeerPid, PeerRetry(pid)
    PROVE  Flows' /\ InboundOnce'
<1> DEFINE m == IF flows[pid].rel THEN Ack("PUBREL", pid)
                ELSE Publish(pid, flows[pid].n, flows[pid].qos)
           pids == {pid}
<1>1. /\ flows[pid] # None /\ flows[pid].qos = 2
      /\ toBroker' = Append(toBroker, m)
      /\ UNCHANGED <<kind, load, qos2_in, toPeer, flows, nIn, published, completed, dropped>>
  BY DEF PeerRetry, PeerSend, brokerVars, peerVars, histVars
<1>2. /\ m \in ToBroker /\ m.pid = pid
      /\ IF flows[pid].rel THEN m.type = "PUBREL" ELSE m.type = "PUBLISH"
      /\ m.type = "PUBLISH" => m.n = flows[pid].n /\ m.qos = flows[pid].qos
  <2>1. flows[pid] \in [n : InNo, qos : QoS, rel : BOOLEAN]
    BY <1>1 DEF TypeOK
  <2> QED
    BY <2>1, Packets DEF Publish, Ack
<1>t. /\ Touches(ToBroker, toBroker, toBroker', Requests, pids)
      /\ Touches(ToPeer, toPeer, toPeer', Answers, pids)
      /\ \A q : q # pid => q \notin pids
  BY <1>1, <1>2 DEF Touches
<1>c. toBroker \in Seq(ToBroker)
  BY DEF ChannelsOK
<1> HIDE DEF pids, m
<1>3. InMessages'
  BY <1>1, <1>2, MessagesAppend DEF Flows, Kept
<1>4. InEntries' /\ \A q : Known(q)' <=> Known(q)
  BY <1>1, EntriesKept DEF Flows, Kept
<1>5. InNumbers' /\ InboundOnce'
  BY <1>1 DEF Flows, InNumbers, InboundOnce
<1>6. ASSUME NEW q \in PeerPid, q # pid PROVE Flow(q)'
  BY <1>1, <1>4, <1>6, <1>t, OtherFlow DEF Flows
<1>7. Taken(pid)' <=> Taken(pid)
  BY <1>1, <1>4 DEF Taken
<1>8. ASSUME flows[pid].rel PROVE Flow(pid)'
  <2>1. Flow2Rel(pid)
    BY <1>1, <1>8 DEF Flows, Flow
  <2>2. ~Is(m, "PUBLISH", pid)
    BY <1>2, <1>8 DEF Is
  <2>3. /\ Ordered(toBroker', "PUBLISH", "PUBREL", pid)
        /\ Has(toBroker', "PUBLISH", pid) <=> Has(toBroker, "PUBLISH", pid)
    BY <1>1, <1>2, <1>c, <2>1, <2>2, OrderedAppend, HasAppend DEF Flow2Rel
  <2>4. Flow2Rel(pid)'
    BY <1>1, <1>4, <1>7, <2>1, <2>3 DEF Flow2Rel
  <2> QED
    BY <1>1, <1>8, <2>4 DEF Flow
<1>9. ASSUME ~flows[pid].rel PROVE Flow(pid)'
  <2>1. Flow2(pid)
    BY <1>1, <1>9 DEF Flows, Flow
  <2>2. ~Is(m, "PUBREL", pid)
    BY <1>2, <1>9 DEF Is
  <2>3. /\ Ordered(toBroker', "PUBREL", "PUBLISH", pid)
        /\ Has(toBroker', "PUBREL", pid) <=> Has(toBroker, "PUBREL", pid)
    BY <1>1, <1>2, <1>c, <2>1, <2>2, OrderedAppend, HasAppend DEF Flow2
  <2>4. Flow2(pid)'
    BY <1>1, <1>4, <1>7, <2>1, <2>3 DEF Flow2
  <2> QED
    BY <1>1, <1>9, <2>4 DEF Flow
<1>10. Flow(pid)'
  BY <1>8, <1>9
<1> QED
  BY <1>3, <1>4, <1>5, <1>6, <1>10 DEF Flows

LEMMA HeadAnswer ==
    ASSUME ChannelsOK, toPeer # <<>>, NEW m, m = Head(toPeer), m.type \in Answers
    PROVE  m.pid \in PeerPid /\ Has(toPeer, m.type, m.pid) /\ Is(m, m.type, m.pid)
<1>1. m \in ToPeer /\ m = toPeer[1] /\ 1 \in 1 .. Len(toPeer)
  BY TailElements DEF ChannelsOK
<1> QED
  BY <1>1, FromBroker DEF Has, Is

LEMMA PeerPubrecStep ==
    ASSUME TypeOK, ChannelsOK, Flows, InboundOnce, PeerGetsPubrec
    PROVE  Flows' /\ InboundOnce'
<1> PICK m : m = Head(toPeer)
  OBVIOUS
<1> DEFINE pid == m.pid
           a == Ack("PUBREL", pid)
           pids == {pid}
<1>1. toPeer # <<>> /\ m.type = "PUBREC" /\ toPeer' = Tail(toPeer)
  BY DEF PeerGetsPubrec, PeerReceive
<1>2. pid \in PeerPid /\ Has(toPeer, "PUBREC", pid) /\ Is(m, "PUBREC", pid)
  BY <1>1, HeadAnswer DEF Answers
<1>c. toBroker \in Seq(ToBroker) /\ toPeer \in Seq(ToPeer)
  BY DEF ChannelsOK
<1>3. flows[pid] # None /\ flows[pid].qos = 2 /\ flows[pid] \in [n : InNo, qos : QoS, rel : BOOLEAN]
  <2>1. flows[pid] # None /\ flows[pid].qos # 1
    BY <1>2 DEF Flows, Flow, Idle, Flow1
  <2> QED
    BY <1>2, <2>1 DEF TypeOK, QoS
<1>4. /\ flows' = [flows EXCEPT ![pid].rel = TRUE]
      /\ toBroker' = Append(toBroker, a)
      /\ UNCHANGED <<kind, load, qos2_in, nIn, published, completed, dropped>>
  BY <1>3 DEF PeerGetsPubrec, PeerSend, brokerVars, histVars
<1> DEFINE f == [flows[pid] EXCEPT !.rel = TRUE]
<1>5. /\ f \in [n : InNo, qos : QoS, rel : BOOLEAN] /\ f # None
      /\ f.n = flows[pid].n /\ f.qos = 2 /\ f.rel = TRUE
  BY <1>3, FlowAssumption
<1>6. flows'[pid] = f /\ \A q \in PeerPid : q # pid => flows'[q] = flows[q]
  BY <1>2, <1>4 DEF TypeOK
<1>7. a \in ToBroker /\ a.pid = pid /\ a.type = "PUBREL" /\ ~Is(a, "PUBLISH", pid)
  BY <1>2, Packets DEF Ack, Is
<1>t. /\ Touches(ToBroker, toBroker, toBroker', Requests, pids)
      /\ Touches(ToPeer, toPeer, toPeer', Answers, pids)
      /\ \A q : q # pid => q \notin pids
  BY <1>1, <1>4, <1>7 DEF Touches
<1> HIDE DEF pids, a, f, pid
<1>8. \A q \in PeerPid : Kept(q)
  BY <1>3, <1>5, <1>6 DEF Kept
<1>9. InMessages'
  BY <1>4, <1>7, <1>8, MessagesAppend DEF Flows
<1>10. InEntries' /\ \A q : Known(q)' <=> Known(q)
  BY <1>4, <1>8, EntriesKept DEF Flows
<1>11. InNumbers' /\ InboundOnce'
  <2>1. \A q \in PeerPid : /\ flows'[q] # None <=> flows[q] # None
                           /\ flows[q] # None => /\ flows'[q].n = flows[q].n
                                                 /\ flows'[q].qos = flows[q].qos
    BY <1>3, <1>5, <1>6
  <2> QED
    BY <1>4, <2>1 DEF Flows, InNumbers, InboundOnce
<1>12. ASSUME NEW q \in PeerPid, q # pid PROVE Flow(q)'
  BY <1>4, <1>6, <1>10, <1>12, <1>t, OtherFlow DEF Flows
<1>13. ~Is(m, "PUBACK", pid) /\ ~Is(m, "PUBCOMP", pid)
  BY <1>2 DEF Is
<1>14. /\ Has(toPeer', "PUBACK", pid) <=> Has(toPeer, "PUBACK", pid)
       /\ Has(toPeer', "PUBCOMP", pid) <=> Has(toPeer, "PUBCOMP", pid)
       /\ Has(toBroker', "PUBLISH", pid) <=> Has(toBroker, "PUBLISH", pid)
  BY <1>1, <1>4, <1>7, <1>13, <1>c, HasTail, HasAppend
<1>15. Taken(pid)' <=> Taken(pid)
  BY <1>4, <1>5, <1>6, <1>10 DEF Taken
<1>16. Flow2Rel(pid)'
  <2>1. CASE flows[pid].rel
    <3>1. Flow2Rel(pid)
      BY <1>2, <1>3, <2>1 DEF Flows, Flow
    <3>2. Ordered(toBroker', "PUBLISH", "PUBREL", pid) /\ Ordered(toPeer', "PUBREC", "PUBCOMP", pid)
      BY <1>1, <1>4, <1>7, <1>c, <3>1, OrderedAppend, OrderedTail DEF Flow2Rel
    <3> QED
      BY <1>4, <1>5, <1>6, <1>10, <1>14, <1>15, <3>1, <3>2 DEF Flow2Rel
  <2>2. CASE ~flows[pid].rel
    <3>1. Flow2(pid)
      BY <1>2, <1>3, <2>2 DEF Flows, Flow
    <3>2. ~Has(toBroker, "PUBREL", pid) /\ Taken(pid) /\ ~Has(toPeer, "PUBACK", pid)
      BY <1>2, <3>1 DEF Flow2
    <3>3. ~Has(toPeer, "PUBCOMP", pid)
      BY <1>1, <1>2, <1>c, <3>1, OrderedTail DEF Flow2
    <3>4. Ordered(toBroker, "PUBLISH", "PUBREL", pid) /\ Ordered(toPeer, "PUBREC", "PUBCOMP", pid)
      BY <3>2, <3>3, Vacuous
    <3>5. Ordered(toBroker', "PUBLISH", "PUBREL", pid) /\ Ordered(toPeer', "PUBREC", "PUBCOMP", pid)
      BY <1>1, <1>4, <1>7, <1>c, <3>4, OrderedAppend, OrderedTail
    <3> QED
      BY <1>14, <1>15, <3>2, <3>3, <3>5 DEF Flow2Rel
  <2> QED
    BY <2>1, <2>2
<1>17. Flow(pid)'
  BY <1>5, <1>6, <1>16 DEF Flow
<1> QED
  BY <1>9, <1>10, <1>11, <1>12, <1>17 DEF Flows

LEMMA PeerAckStep ==
    ASSUME TypeOK, ChannelsOK, Flows, InboundOnce, PeerGetsAck
    PROVE  Flows' /\ InboundOnce'
<1> PICK m : m = Head(toPeer)
  OBVIOUS
<1> DEFINE pid == m.pid
           n == flows[pid].n
           pids == {pid}
<1>1. /\ toPeer # <<>> /\ m.type \in {"PUBACK", "PUBCOMP"} /\ toPeer' = Tail(toPeer)
      /\ UNCHANGED <<kind, load, qos2_in, toBroker, nIn, published, dropped>>
      /\ IF flows[pid] # None /\ (IF m.type = "PUBACK" THEN flows[pid].qos = 1 ELSE flows[pid].rel)
         THEN /\ flows' = [flows EXCEPT ![pid] = None]
              /\ completed' = completed \cup {n}
         ELSE UNCHANGED <<flows, completed>>
  BY DEF PeerGetsAck, PeerReceive, brokerVars
<1>2. /\ pid \in PeerPid
      /\ Has(toPeer, m.type, pid) /\ Is(m, m.type, pid) /\ ~Is(m, "PUBREC", pid)
  BY <1>1, HeadAnswer DEF Answers, Is
<1>c. toPeer \in Seq(ToPeer)
  BY DEF ChannelsOK
<1>t. /\ Touches(ToBroker, toBroker, toBroker', Requests, pids)
      /\ Touches(ToPeer, toPeer, toPeer', Answers, pids)
      /\ \A q : q # pid => q \notin pids
  BY <1>1 DEF Touches
<1>p. Flow(pid)
  BY <1>2 DEF Flows
<1> HIDE DEF pids, n, pid
<1>3. Has(toPeer', "PUBREC", pid) <=> Has(toPeer, "PUBREC", pid)
  BY <1>1, <1>2, <1>c, HasTail
<1>4. CASE UNCHANGED <<flows, completed>>
  <2>1. InMessages'
    BY <1>1, <1>4, MessagesKept DEF Flows, Kept
  <2>2. InEntries' /\ \A q : Known(q)' <=> Known(q)
    BY <1>1, <1>4, EntriesKept DEF Flows, Kept
  <2>3. InNumbers' /\ InboundOnce'
    BY <1>1, <1>4 DEF Flows, InNumbers, InboundOnce
  <2>4. ASSUME NEW q \in PeerPid, q # pid PROVE Flow(q)'
    BY <1>1, <1>4, <2>2, <2>4, <1>t, OtherFlow DEF Flows
  <2>5. Has(toPeer', "PUBACK", pid) => Has(toPeer, "PUBACK", pid)
    BY <1>1, <1>c, HasTail
  <2>6. Flow(pid)'
    <3>1. CASE flows[pid] = None
      BY <1>3, <1>4, <1>p, <2>5, <3>1 DEF Flow, Idle
    <3>2. CASE flows[pid] # None /\ flows[pid].qos = 1
      <4>1. Flow1(pid)
        BY <1>p, <3>2 DEF Flow
      <4>2. Single(toPeer', "PUBACK", pid)
        BY <1>1, <1>c, <4>1, SingleTail DEF Flow1
      <4>3. Flow1(pid)'
        BY <1>1, <1>3, <1>4, <2>5, <4>1, <4>2 DEF Flow1
      <4> QED
        BY <1>4, <3>2, <4>3 DEF Flow
    <3>3. CASE flows[pid] # None /\ flows[pid].qos # 1
      <4>1. flows[pid].rel = FALSE \/ flows[pid].rel = TRUE
        BY <1>2, <3>3 DEF TypeOK
      <4>2. m.type = "PUBCOMP" /\ ~flows[pid].rel
        <5>1. flows[pid].rel => Flow2Rel(pid)
          BY <1>p, <3>3 DEF Flow
        <5>2. ~flows[pid].rel => Flow2(pid)
          BY <1>p, <3>3 DEF Flow
        <5>3. ~Has(toPeer, "PUBACK", pid)
          BY <5>1, <5>2 DEF Flow2, Flow2Rel
        <5>4. m.type = "PUBCOMP"
          BY <1>1, <1>2, <5>3
        <5>5. flows[pid].rel => flows'[pid] = None
          BY <1>1, <1>2, <3>3, <5>4 DEF TypeOK
        <5> QED
          BY <1>4, <3>3, <5>4, <5>5
      <4>3. Flow2(pid)
        BY <1>p, <3>3, <4>2 DEF Flow
      <4>4. Ordered(toPeer', "PUBCOMP", "PUBREC", pid)
        BY <1>1, <1>c, <4>3, OrderedTail DEF Flow2
      <4>5. Taken(pid)' <=> Taken(pid)
        BY <1>1, <1>4, <2>2 DEF Taken
      <4>6. Flow2(pid)'
        BY <1>1, <1>3, <1>4, <2>2, <2>5, <4>3, <4>4, <4>5 DEF Flow2
      <4> QED
        BY <1>4, <3>3, <4>2, <4>6 DEF Flow
    <3> QED
      BY <3>1, <3>2, <3>3
  <2> QED
    BY <2>1, <2>2, <2>3, <2>4, <2>6 DEF Flows
<1>5. CASE /\ flows[pid] # None /\ IF m.type = "PUBACK" THEN flows[pid].qos = 1 ELSE flows[pid].rel
           /\ flows' = [flows EXCEPT ![pid] = None]
           /\ completed' = completed \cup {n}
  <2>1. flows'[pid] = None /\ \A q \in PeerPid : q # pid => flows'[q] = flows[q]
    BY <1>2, <1>5 DEF TypeOK
  <2>2. /\ ~Has(toBroker, "PUBLISH", pid) /\ ~Known(pid)
        /\ published[n] >= 1 \/ n \in dropped
        /\ ~Has(toPeer', "PUBACK", pid) /\ ~Has(toPeer', "PUBREC", pid)
    <3>1. CASE m.type = "PUBACK"
      <4>1. Flow1(pid) /\ flows[pid].qos = 1
        BY <1>p, <1>5, <3>1 DEF Flow
      <4>2. ~Known(pid)
        BY <4>1, KnownFlow DEF Flows
      <4>3. ~Has(toPeer', "PUBACK", pid)
        BY <1>1, <1>2, <1>c, <3>1, <4>1, SingleTail DEF Flow1
      <4> QED
        BY <1>2, <1>3, <3>1, <4>1, <4>2, <4>3 DEF Flow1, n
    <3>2. CASE m.type = "PUBCOMP"
      <4>1. Flow2Rel(pid)
        BY <1>p, <1>5, <3>2 DEF Flow, Flow1
      <4>2. ~Has(toPeer, "PUBREC", pid)
        BY <1>1, <1>2, <1>c, <3>2, <4>1, OrderedTail DEF Flow2Rel
      <4>3. ~Has(toPeer', "PUBACK", pid)
        BY <1>1, <1>c, <4>1, HasTail DEF Flow2Rel
      <4> QED
        BY <1>2, <1>3, <3>2, <4>1, <4>2, <4>3 DEF Flow2Rel, n
    <3> QED
      BY <1>1, <3>1, <3>2
  <2>3. InMessages'
    BY <1>1, <2>1, <2>2, MessagesKept DEF Flows, Kept
  <2>4. InEntries' /\ \A q : Known(q)' <=> Known(q)
    BY <1>1, <2>1, <2>2, EntriesKept DEF Flows, Kept
  <2>5. InNumbers'
    BY <1>1, <2>1 DEF Flows, InNumbers
  <2>6. InboundOnce'
    BY <1>1, <1>5, <2>2 DEF InboundOnce
  <2>7. ASSUME NEW q \in PeerPid, q # pid PROVE Flow(q)'
    BY <1>1, <2>1, <2>4, <2>7, <1>t, OtherFlow DEF Flows
  <2>8. Flow(pid)'
    BY <2>1, <2>2 DEF Flow, Idle
  <2> QED
    BY <2>3, <2>4, <2>5, <2>6, <2>7, <2>8 DEF Flows
<1> QED
  BY <1>1, <1>4, <1>5

----------------------------------------------------------------------------
LEMMA InitInv == Init => IInv
<1> SUFFICES ASSUME Init PROVE IInv
  OBVIOUS
<1>1. TypeOK /\ ChannelsOK
  BY TypesInit
<1>2. Len(toPeer) = 0 /\ Len(toBroker) = 0 /\ flows = [p \in PeerPid |-> None]
      /\ completed = {} /\ published = [n \in InNo |-> 0] /\ qos2_in = [i \in Qos2Ins |-> None]
  BY DEF Init
<1>3. DOMAIN load.in \subseteq InNo
  BY <1>1, LoadNumbers DEF TypeOK
<1>4. InboundOnce
  BY <1>2, <1>3 DEF InboundOnce
<1>5. InMessages /\ InEntries /\ InNumbers
  BY <1>2 DEF InMessages, InEntries, InNumbers
<1>6. \A pid \in PeerPid : Flow(pid)
  BY <1>2 DEF Flow, Idle, Has
<1> QED
  BY <1>1, <1>4, <1>5, <1>6 DEF IInv, Flows

(* Once the connection is closed nothing of its flows changes. *)
LEMMA ClosedStep ==
    ASSUME TypeOK, InboundOnce, [Next]_vars, ~open \/ ~open'
    PROVE  InboundOnce' /\ ~open'
<1>1. UNCHANGED <<load, published, completed, dropped>> /\ ~open'
  <2>1. CASE UNCHANGED vars
    BY <2>1 DEF vars, histVars
  <2>2. CASE Publisher
    <3>1. ASSUME NEW s \in sending, Send(s) \/ Store(s)
          PROVE  UNCHANGED <<load, open, published, completed, dropped>>
      BY <3>1 DEF Send, Store, histVars
    <3> QED
      BY <2>2, <3>1 DEF Publisher
  <2>3. CASE MeshPublish2 \/ Break
    <3>1. Closed
      BY <2>3 DEF MeshPublish2, Break
    <3> QED
      BY <2>3, <3>1 DEF MeshPublish2, Break, Closed, histVars
  <2>4. CASE Deliver \/ \E i \in Inflights : Retry(i)
    BY <2>4 DEF Deliver, Retry
  <2>5. CASE Endpoints
    BY <2>3, <2>5 DEF Endpoints, InflightAck, Pubrec, Publish1, ClientPublish2, ClientPubrel,
       MeshPubrel, Receive
  <2>6. CASE Peer
    BY <2>6 DEF Peer, PeerGetsPublish, PeerGetsPubrel, PeerGetsPubrec, PeerGetsAck, PeerReceive
  <2>7. ASSUME NEW p \in PeerPid, PeerRetry(p) \/ PeerPublish(p)
        PROVE  UNCHANGED <<load, published, completed, dropped>> /\ ~open'
    BY <2>7 DEF PeerRetry, PeerPublish
  <2> QED
    BY <2>1, <2>2, <2>3, <2>4, <2>5, <2>6, <2>7 DEF Next
<1> QED
  BY <1>1 DEF InboundOnce

LEMMA NextInv == IInv /\ [Next]_vars => IInv'
<1> SUFFICES ASSUME IInv, [Next]_vars PROVE IInv'
  OBVIOUS
<1>1. TypeOK /\ ChannelsOK /\ InboundOnce /\ TypeOK' /\ ChannelsOK'
  BY TypesNext DEF IInv
<1>2. CASE ~open \/ ~open'
  BY <1>1, <1>2, ClosedStep DEF IInv
<1>3. CASE open /\ open'
  <2>1. Flows
    BY <1>3 DEF IInv
  <2>2. Flows' /\ InboundOnce'
    <3>1. CASE UNCHANGED vars
      <4>1. UNCHANGED <<kind, load, qos2_in, flows, nIn, published, completed, dropped,
                        toPeer, toBroker>>
        BY <3>1 DEF vars, brokerVars, peerVars, histVars
      <4>2. Flows'
        BY <1>1, <2>1, <4>1, OutboundStep DEF Touches
      <4> QED
        BY <1>1, <4>1, <4>2 DEF InboundOnce
    <3>2. CASE \/ Deliver \/ Publisher \/ \E i \in Inflights : Retry(i)
               \/ InflightAck("PUBACK") \/ InflightAck("PUBCOMP") \/ Pubrec
               \/ PeerGetsPublish \/ PeerGetsPubrel
      BY <1>1, <1>3, <2>1, <3>2, OutboundFlows DEF InboundOnce
    <3>3. CASE Publish1 \/ ClientPublish2 \/ MeshPublish2 \/ ClientPubrel \/ MeshPubrel
      BY <1>1, <1>3, <2>1, <3>3, Publish1Step, Publish2Step, PubrelStep
    <3>4. CASE PeerGetsPubrec \/ PeerGetsAck
      BY <1>1, <2>1, <3>4, PeerPubrecStep, PeerAckStep
    <3>5. ASSUME NEW p \in PeerPid, PeerRetry(p) \/ PeerPublish(p)
          PROVE  Flows' /\ InboundOnce'
      BY <1>1, <2>1, <3>5, PeerRetryStep, PeerPublishStep
    <3>6. ~Break
      BY <1>3 DEF Break, Closed
    <3> QED
      BY <3>1, <3>2, <3>3, <3>4, <3>5, <3>6 DEF Next, Endpoints, Peer
  <2> QED
    BY <1>1, <2>2 DEF IInv
<1> QED
  BY <1>2, <1>3

(* The invariant of the flows of the peer (handle_publish and PUBREL of    *)
(* client.c, mesh_ingress_handle_client of broker.c).                      *)
THEOREM Invariant == Spec => []IInv
  BY InitInv, NextInv, PTL DEF Spec

(* The tables, channels and counters of a connection keep their types.     *)
THEOREM TypeCorrect == Spec => []TypeOK
<1>1. IInv => TypeOK
  BY DEF IInv
<1> QED
  BY Invariant, <1>1, PTL

(* No retransmission, no reuse of an identifier and no late PUBREL makes   *)
(* the broker publish a QoS 2 message twice, and the peer ends a flow only *)
(* when the message was published or dropped at the full table.            *)
THEOREM ExactlyOnceIn == Spec => []InboundOnce
<1>1. IInv => InboundOnce
  BY DEF IInv
<1> QED
  BY Invariant, <1>1, PTL

----------------------------------------------------------------------------
(* The flows to the peer.  Of an identifier that was never given out while *)
(* in use, only the last message that has it can still be anywhere.        *)

(* The messages that are handed to the connection, and how often the peer  *)
(* has accepted them.                                                      *)
HistoryOK ==
    /\ outs \in Seq(Out)
    /\ \A n \in 1 .. Len(outs) : n \in OutNo /\ outs[n].n = n
    /\ got \in [OutNo -> 0 .. 2]
    /\ \A n \in OutNo : n > Len(outs) => got[n] = 0

(* A copy of a message has the identifier and the QoS it was given.        *)
Labelled(e, all) == e.n \in 1 .. Len(all) /\ all[e.n].pid = e.pid /\ all[e.n].qos = e.qos

Labels ==
    /\ \A s \in sending : Labelled(s.out, outs)
    /\ \A i \in Inflights : inflight[i] # None =>
         Labelled(inflight[i], outs) /\ (inflight[i].waiting_pubcomp => inflight[i].qos = 2)
    /\ \A h \in held : h.n \in 1 .. Len(outs) /\ outs[h.n].pid = h.pid /\ outs[h.n].qos = 2
    /\ \A i \in 1 .. Len(toPeer) : toPeer[i].type = "PUBLISH" => Labelled(toPeer[i], outs)

(* Where the broker has a message.                                         *)
Pending(n) == \E s \in sending : s.out.n = n
Stored(n) == \E i \in Inflights : inflight[i] # None /\ inflight[i].n = n
Waiting(n) == \E i \in Inflights :
                inflight[i] # None /\ inflight[i].n = n /\ inflight[i].waiting_pubcomp

OneCopy ==
    /\ \A s, t \in sending : s.out.n = t.out.n => s = t
    /\ \A i, j \in Inflights :
         inflight[i] # None /\ inflight[j] # None /\ inflight[i].n = inflight[j].n => i = j
    /\ \A n \in 1 .. Len(outs) : ~(Pending(n) /\ Stored(n))

OutTypes == HistoryOK /\ Labels /\ OneCopy

LEMMA TrackedIs == \A n : Tracked(n) <=> Pending(n) \/ Stored(n)
  BY DEF Tracked, Pending, Stored

(* No message gets another number, identifier or QoS.                      *)
Grows ==
    /\ Len(outs) \in Nat /\ Len(outs') \in Nat /\ Len(outs') >= Len(outs)
    /\ \A n \in 1 .. Len(outs) : outs'[n] = outs[n]

LEMMA PacketsLabelled ==
    ASSUME ChannelsOK, Labels, Grows,
           \/ toPeer' = toPeer
           \/ toPeer # <<>> /\ toPeer' = Tail(toPeer)
           \/ toPeer' = <<>>
           \/ \E m \in ToPeer : toPeer' = Append(toPeer, m) /\ (m.type = "PUBLISH" => Labelled(m, outs))
    PROVE  \A i \in 1 .. Len(toPeer') : toPeer'[i].type = "PUBLISH" => Labelled(toPeer'[i], outs')
<1>0. ASSUME NEW m, Labelled(m, outs) PROVE Labelled(m, outs')
  BY <1>0 DEF Labelled, Grows
<1> SUFFICES ASSUME NEW i \in 1 .. Len(toPeer'), toPeer'[i].type = "PUBLISH"
             PROVE  Labelled(toPeer'[i], outs)
  BY <1>0
<1>1. CASE toPeer' = toPeer
  BY <1>1 DEF Labels
<1>2. CASE toPeer # <<>> /\ toPeer' = Tail(toPeer)
  <2>1. /\ Len(toPeer) \in Nat \ {0} /\ Len(toPeer') = Len(toPeer) - 1
        /\ \A j \in 1 .. Len(toPeer) - 1 : toPeer'[j] = toPeer[j + 1]
    BY <1>2, TailElements DEF ChannelsOK
  <2>2. i + 1 \in 1 .. Len(toPeer) /\ toPeer'[i] = toPeer[i + 1]
    BY <2>1
  <2> QED
    BY <2>2 DEF Labels
<1>3. CASE toPeer' = <<>>
  BY <1>3
<1>4. ASSUME NEW m \in ToPeer, toPeer' = Append(toPeer, m), m.type = "PUBLISH" => Labelled(m, outs)
      PROVE  Labelled(toPeer'[i], outs)
  <2>1. /\ Len(toPeer') = Len(toPeer) + 1 /\ Len(toPeer) \in Nat
        /\ toPeer'[Len(toPeer) + 1] = m
        /\ \A j \in 1 .. Len(toPeer) : toPeer'[j] = toPeer[j]
    BY <1>4, AppendElements DEF ChannelsOK
  <2>2. CASE i \in 1 .. Len(toPeer)
    BY <2>1, <2>2 DEF Labels
  <2>3. CASE i = Len(toPeer) + 1
    BY <1>4, <2>1, <2>3
  <2> QED
    BY <2>1, <2>2, <2>3
<1> QED
  BY <1>1, <1>2, <1>3, <1>4

(* The labels of what the broker and the peer have.                        *)
LEMMA CopiesLabelled ==
    ASSUME TypeOK, ChannelsOK, Labels, Grows,
           \A s \in sending' : (\E t \in sending : s.out = t.out)
                               \/ Labelled(s.out, outs'),
           \A i \in Inflights : inflight'[i] # None =>
               \/ inflight'[i] = inflight[i]
               \/ /\ Labelled(inflight'[i], outs)
                  /\ inflight'[i].waiting_pubcomp => inflight'[i].qos = 2,
           \A h \in held' : h \in held \/
               (h.n \in 1 .. Len(outs) /\ outs[h.n].pid = h.pid /\ outs[h.n].qos = 2),
           \/ toPeer' = toPeer
           \/ toPeer # <<>> /\ toPeer' = Tail(toPeer)
           \/ toPeer' = <<>>
           \/ \E m \in ToPeer : toPeer' = Append(toPeer, m) /\ (m.type = "PUBLISH" => Labelled(m, outs))
    PROVE  Labels'
<1>1. \A i \in 1 .. Len(toPeer') : toPeer'[i].type = "PUBLISH" => Labelled(toPeer'[i], outs')
  BY PacketsLabelled
<1>2. ASSUME NEW s \in sending' PROVE Labelled(s.out, outs')
  <2>1. CASE Labelled(s.out, outs')
    BY <2>1
  <2>2. ASSUME NEW t \in sending, s.out = t.out PROVE Labelled(s.out, outs')
    <3>1. Labelled(t.out, outs)
      BY DEF Labels
    <3> QED
      BY <2>2, <3>1 DEF Labelled, Grows
  <2> QED
    BY <2>1, <2>2
<1>3. ASSUME NEW i \in Inflights, inflight'[i] # None
      PROVE  Labelled(inflight'[i], outs') /\ (inflight'[i].waiting_pubcomp => inflight'[i].qos = 2)
  <2>1. Labelled(inflight'[i], outs) /\ (inflight'[i].waiting_pubcomp => inflight'[i].qos = 2)
    BY <1>3 DEF Labels
  <2> QED
    BY <2>1 DEF Labelled, Grows
<1>4. ASSUME NEW h \in held'
      PROVE  h.n \in 1 .. Len(outs') /\ outs'[h.n].pid = h.pid /\ outs'[h.n].qos = 2
  <2>1. h.n \in 1 .. Len(outs) /\ outs[h.n].pid = h.pid /\ outs[h.n].qos = 2
    BY DEF Labels
  <2> QED
    BY <2>1 DEF Grows
<1> QED
  BY <1>1, <1>2, <1>3, <1>4 DEF Labels

(* Steps that hand over no message and move none.                          *)
LEMMA CopiesKept ==
    ASSUME TypeOK, ChannelsOK, OutTypes, UNCHANGED outs,
           got' \in [OutNo -> 0 .. 2],
           \A n \in OutNo : n > Len(outs) => got'[n] = 0,
           \A s \in sending' : \E t \in sending : s.out = t.out,
           \A s, t \in sending' : s.out.n = t.out.n => s = t,
           \A i \in Inflights : inflight'[i] # None =>
             /\ inflight[i] # None
             /\ inflight'[i].n = inflight[i].n
             /\ inflight'[i].pid = inflight[i].pid /\ inflight'[i].qos = inflight[i].qos
             /\ inflight'[i].waiting_pubcomp => inflight[i].qos = 2,
           \A h \in held' : h \in held \/
             (h.n \in 1 .. Len(outs) /\ outs[h.n].pid = h.pid /\ outs[h.n].qos = 2),
           \/ toPeer' = toPeer
           \/ toPeer # <<>> /\ toPeer' = Tail(toPeer)
           \/ toPeer' = <<>>
           \/ \E m \in ToPeer : /\ toPeer' = Append(toPeer, m)
                                /\ m.type = "PUBLISH" => Labelled(m, outs)
    PROVE  OutTypes'
<1>1. HistoryOK /\ Labels /\ OneCopy
  BY DEF OutTypes
<1>2. HistoryOK'
  BY <1>1 DEF HistoryOK
<1>3. Grows
  BY <1>1 DEF Grows, HistoryOK
<1>4. Labels'
  <2>1. \A i \in Inflights : inflight'[i] # None =>
               \/ inflight'[i] = inflight[i]
               \/ /\ Labelled(inflight'[i], outs)
                  /\ inflight'[i].waiting_pubcomp => inflight'[i].qos = 2
    BY <1>1 DEF Labels, Labelled
  <2> QED
    BY <1>1, <1>3, <2>1, CopiesLabelled
<1>5. \A n : /\ Pending(n)' => Pending(n)
             /\ Stored(n)' => Stored(n)
  BY DEF Pending, Stored
<1>6. OneCopy'
  BY <1>1, <1>5 DEF OneCopy
<1> QED
  BY <1>2, <1>4, <1>6 DEF OutTypes

LEMMA DeliverCopies ==
    ASSUME TypeOK, ChannelsOK, OutTypes, Deliver
    PROVE  /\ OutTypes' /\ Grows
           /\ Len(outs') = Len(outs) + 1 /\ outs'[Len(outs) + 1].pid = NextPid
           /\ outs'[Len(outs) + 1].qos = load.out[Len(outs) + 1]
           /\ \A n : Pending(n)' <=> Pending(n) \/ n = Len(outs) + 1
<1> DEFINE n == Len(outs) + 1
           m == [pid |-> NextPid, n |-> n, qos |-> load.out[n]]
           s == [out |-> m, sent |-> FALSE]
<1>0. HistoryOK /\ Labels /\ OneCopy
  BY DEF OutTypes
<1>1. /\ n \in DOMAIN load.out
      /\ outs' = Append(outs, m) /\ sending' = sending \cup {s}
      /\ UNCHANGED <<inflight, held, toPeer, got>>
  BY DEF Deliver, peerVars
<1>2. m \in Out /\ n \in OutNo
  <2>1. n \in OutNo /\ load.out[n] \in QoS
    BY <1>1, LoadNumbers DEF TypeOK
  <2>2. NextPid \in Pid
    BY NextPidType DEF TypeOK
  <2> QED
    BY <2>1, <2>2 DEF Out
<1>3. m.n = n /\ m.pid = NextPid /\ m.qos = load.out[n] /\ s.out = m
  OBVIOUS
<1>4. Len(outs) \in Nat /\ n = Len(outs) + 1 /\ outs \in Seq(Out)
  BY <1>0 DEF HistoryOK
<1> HIDE DEF s, m, n
<1>5. /\ outs' \in Seq(Out) /\ Len(outs') = n /\ outs'[n] = m
      /\ \A k \in 1 .. Len(outs) : outs'[k] = outs[k]
  BY <1>1, <1>2, <1>4, AppendElements
<1>6. Grows
  BY <1>4, <1>5 DEF Grows
<1>7. HistoryOK'
  <2>1. \A k \in 1 .. Len(outs') : k \in OutNo /\ outs'[k].n = k
    <3> SUFFICES ASSUME NEW k \in 1 .. Len(outs') PROVE k \in OutNo /\ outs'[k].n = k
      OBVIOUS
    <3>1. CASE k \in 1 .. Len(outs)
      BY <1>0, <1>5, <3>1 DEF HistoryOK
    <3>2. CASE k = n
      BY <1>2, <1>3, <1>5, <3>2
    <3> QED
      BY <1>4, <1>5, <3>1, <3>2
  <2>2. \A k \in OutNo : k > Len(outs') => got'[k] = 0
    BY <1>0, <1>1, <1>4, <1>5, Constants DEF HistoryOK
  <2> QED
    BY <1>0, <1>1, <1>5, <2>1, <2>2 DEF HistoryOK
<1>8. Labels'
  <2>1. Labelled(m, outs')
    BY <1>2, <1>3, <1>4, <1>5 DEF Labelled
  <2>2. \A r \in sending' : (\E t \in sending : r.out = t.out) \/ Labelled(r.out, outs')
    BY <1>1, <1>3, <2>1
  <2> QED
    BY <1>0, <1>1, <1>6, <2>2, CopiesLabelled
<1>9. \A t \in sending : t.out.n # n
  BY <1>0, <1>4 DEF Labels, Labelled
<1>10. \A i \in Inflights : inflight[i] # None => inflight[i].n # n
  BY <1>0, <1>4 DEF Labels, Labelled
<1>11. \A k : (Pending(k)' <=> Pending(k) \/ k = n) /\ (Stored(k)' <=> Stored(k))
  BY <1>1, <1>3 DEF Pending, Stored
<1>12. OneCopy'
  <2>1. \A r, t \in sending' : r.out.n = t.out.n => r = t
    BY <1>0, <1>1, <1>3, <1>9 DEF OneCopy
  <2>2. ~Stored(n)
    BY <1>10 DEF Stored
  <2>3. \A k \in 1 .. Len(outs') : ~(Pending(k)' /\ Stored(k)')
    BY <1>0, <1>4, <1>5, <1>11, <2>2 DEF OneCopy
  <2> QED
    BY <1>0, <1>1, <2>1, <2>3 DEF OneCopy
<1>13. OutTypes'
  BY <1>7, <1>8, <1>12 DEF OutTypes
<1> QED
  BY <1>3, <1>4, <1>5, <1>6, <1>11, <1>13

LEMMA StoreCopies ==
    ASSUME TypeOK, ChannelsOK, OutTypes, NEW s \in sending, Store(s)
    PROVE  /\ OutTypes' /\ ~Pending(s.out.n)'
           /\ IF InflightFree = None THEN inflight' = inflight ELSE Stored(s.out.n)'
           /\ \A n : n # s.out.n => (Pending(n)' <=> Pending(n)) /\ (Stored(n)' <=> Stored(n))
           /\ \A n : Waiting(n)' <=> Waiting(n)
<1> DEFINE j == InflightFree
           e == [pid |-> s.out.pid, n |-> s.out.n, qos |-> s.out.qos, waiting_pubcomp |-> FALSE]
<1>0. HistoryOK /\ Labels /\ OneCopy
  BY DEF OutTypes
<1>1. /\ sending' = sending \ {s}
      /\ IF j = None THEN inflight' = inflight ELSE inflight' = [inflight EXCEPT ![j] = e]
      /\ UNCHANGED <<outs, held, toPeer, got>>
  BY DEF Store, peerVars
<1>2. /\ e.pid = s.out.pid /\ e.n = s.out.n /\ e.qos = s.out.qos /\ e.waiting_pubcomp = FALSE
  OBVIOUS
<1>3. Labelled(s.out, outs)
  BY <1>0 DEF Labels
<1>4. e # None
  <2>1. e \in Entry
    BY DEF TypeOK, Out, Entry
  <2> QED
    BY <2>1, FlowAssumption
<1>5. j # None => j \in Inflights /\ inflight[j] = None
  BY FindsFree
<1> HIDE DEF j, e
<1>6. j # None => /\ inflight'[j] = e
                  /\ \A i \in Inflights : i # j => inflight'[i] = inflight[i]
  BY <1>1, <1>5 DEF TypeOK
<1>7. ~Stored(s.out.n) /\ Pending(s.out.n)
  BY <1>0, <1>3 DEF OneCopy, Pending, Labelled
<1>8. \A n : (Pending(n)' <=> Pending(n) /\ n # s.out.n)
  BY <1>0, <1>1 DEF Pending, OneCopy
<1>9. IF j = None THEN \A n : Stored(n)' <=> Stored(n)
      ELSE \A n : Stored(n)' <=> Stored(n) \/ n = s.out.n
  <2>1. CASE j = None
    BY <1>1, <2>1 DEF Stored
  <2>2. ASSUME j # None, NEW n PROVE Stored(n)' <=> Stored(n) \/ n = s.out.n
    BY <1>2, <1>4, <1>5, <1>6, <2>2 DEF Stored
  <2> QED
    BY <2>1, <2>2
<1>10. ASSUME NEW n PROVE Waiting(n)' <=> Waiting(n)
  <2>1. CASE j = None
    BY <1>1, <2>1 DEF Waiting
  <2>2. CASE j # None
    BY <1>2, <1>5, <1>6, <2>2 DEF Waiting
  <2> QED
    BY <2>1, <2>2
<1>11. HistoryOK' /\ Grows
  BY <1>0, <1>1 DEF HistoryOK, Grows
<1>12. Labels'
  <2>1. Labelled(e, outs)
    BY <1>2, <1>3 DEF Labelled
  <2>2. \A i \in Inflights : inflight'[i] # None =>
               \/ inflight'[i] = inflight[i]
               \/ /\ Labelled(inflight'[i], outs)
                  /\ inflight'[i].waiting_pubcomp => inflight'[i].qos = 2
    BY <1>1, <1>2, <1>6, <2>1
  <2> QED
    BY <1>0, <1>1, <1>11, <2>2, CopiesLabelled
<1>13. OneCopy'
  <2>1. \A i, k \in Inflights :
          inflight'[i] # None /\ inflight'[k] # None /\ inflight'[i].n = inflight'[k].n => i = k
    <3>1. CASE j = None
      BY <1>0, <1>1, <3>1 DEF OneCopy
    <3>2. CASE j # None
      <4>1. \A i \in Inflights : inflight[i] # None => inflight[i].n # s.out.n
        BY <1>7 DEF Stored
      <4> QED
        BY <1>0, <1>2, <1>6, <3>2, <4>1 DEF OneCopy
    <3> QED
      BY <3>1, <3>2
  <2>2. \A n \in 1 .. Len(outs) : ~(Pending(n)' /\ Stored(n)')
    BY <1>0, <1>8, <1>9 DEF OneCopy
  <2> QED
    BY <1>0, <1>1, <2>1, <2>2 DEF OneCopy
<1> QED
  BY <1>1, <1>8, <1>9, <1>10, <1>11, <1>12, <1>13 DEF OutTypes, j

LEMMA SendCopies ==
    ASSUME TypeOK, ChannelsOK, OutTypes, NEW s \in sending, Send(s)
    PROVE  /\ OutTypes'
           /\ open \/ kind = "client" => \A n : Pending(n)' <=> Pending(n)
<1>0. HistoryOK /\ Labels /\ OneCopy
  BY DEF OutTypes
<1> DEFINE m == Publish(s.out.pid, s.out.n, s.out.qos)
           r == [s EXCEPT !.sent = TRUE]
<1>1. /\ UNCHANGED <<outs, got, inflight, held>>
      /\ toPeer' = IF open THEN Append(toPeer, m) ELSE toPeer
      /\ sending' = (sending \ {s}) \cup (IF open \/ kind = "client" THEN {r} ELSE {})
  BY DEF Send, peerVars, histVars
<1>2. s \in [out : Out, sent : BOOLEAN]
  BY DEF TypeOK
<1>3. m \in ToPeer /\ Labelled(m, outs)
  <2>1. Labelled(s.out, outs)
    BY <1>0 DEF Labels
  <2> QED
    BY <1>2, <2>1, Packets DEF Out, Labelled, Publish
<1>4. r.out = s.out
  BY <1>2
<1> HIDE DEF m, r
<1>5. \A t \in sending' : \E u \in sending : t.out = u.out
  BY <1>1, <1>4
<1>6. \A t, u \in sending' : t.out.n = u.out.n => t = u
  BY <1>0, <1>1, <1>4 DEF OneCopy
<1>7. got' \in [OutNo -> 0 .. 2] /\ \A n \in OutNo : n > Len(outs) => got'[n] = 0
  BY <1>0, <1>1 DEF HistoryOK
<1>8. \A i \in Inflights : inflight'[i] # None => (inflight'[i].waiting_pubcomp => inflight[i].qos = 2)
  BY <1>0, <1>1 DEF Labels
<1>9. OutTypes'
  BY <1>1, <1>3, <1>5, <1>6, <1>7, <1>8, CopiesKept
<1>10. ASSUME open \/ kind = "client", NEW n PROVE Pending(n)' <=> Pending(n)
  BY <1>1, <1>4, <1>10 DEF Pending
<1> QED
  BY <1>9, <1>10

LEMMA RetryCopies ==
    ASSUME TypeOK, ChannelsOK, OutTypes, NEW i \in Inflights, Retry(i)
    PROVE  OutTypes'
<1>0. HistoryOK /\ Labels /\ OneCopy
  BY DEF OutTypes
<1> DEFINE m == IF inflight[i].waiting_pubcomp THEN Ack("PUBREL", inflight[i].pid)
                ELSE Publish(inflight[i].pid, inflight[i].n, inflight[i].qos)
<1>1. /\ UNCHANGED <<outs, got, inflight, held, sending>>
      /\ toPeer' = Append(toPeer, m)
      /\ inflight[i] # None
  BY DEF Retry, brokerVars, peerVars, histVars
<1>2. m \in ToPeer /\ (m.type = "PUBLISH" => Labelled(m, outs))
  <2>1. Labelled(inflight[i], outs)
    BY <1>0, <1>1 DEF Labels
  <2>2. inflight[i] \in Entry
    BY <1>1 DEF TypeOK
  <2> QED
    BY <2>1, <2>2, Packets DEF Entry, Labelled, Publish, Ack
<1> HIDE DEF m
<1>3. got' \in [OutNo -> 0 .. 2] /\ \A n \in OutNo : n > Len(outs) => got'[n] = 0
  BY <1>0, <1>1 DEF HistoryOK
<1>4. \A k \in Inflights : inflight'[k] # None => (inflight'[k].waiting_pubcomp => inflight[k].qos = 2)
  BY <1>0, <1>1 DEF Labels
<1>5. \A t, u \in sending' : t.out.n = u.out.n => t = u
  BY <1>0, <1>1 DEF OneCopy
<1> QED
  BY <1>1, <1>2, <1>3, <1>4, <1>5, CopiesKept

LEMMA EndpointCopies ==
    ASSUME TypeOK, ChannelsOK, OutTypes, Endpoints \/ Break
    PROVE  OutTypes'
<1>0. HistoryOK /\ Labels /\ OneCopy
  BY DEF OutTypes
<1>a. /\ \A pid \in PeerPid, type \in Answers : Ack(type, pid) \in ToPeer
      /\ \A pid \in Pid : Ack("PUBREL", pid) \in ToPeer
      /\ \A pid, type : Ack(type, pid).type = type
  BY Packets DEF Ack
<1>b. ASSUME UNCHANGED <<outs, got, held, sending>>,
             \/ toPeer' = toPeer \/ toPeer' = <<>>
             \/ \E m \in ToPeer : toPeer' = Append(toPeer, m) /\ m.type # "PUBLISH",
             \A i \in Inflights : inflight'[i] # None =>
                /\ inflight[i] # None
                /\ inflight'[i].n = inflight[i].n
                /\ inflight'[i].pid = inflight[i].pid /\ inflight'[i].qos = inflight[i].qos
                /\ inflight'[i].waiting_pubcomp => inflight[i].qos = 2
      PROVE  OutTypes'
  <2>1. got' \in [OutNo -> 0 .. 2] /\ \A n \in OutNo : n > Len(outs) => got'[n] = 0
    BY <1>0, <1>b DEF HistoryOK
  <2>2. \A t, u \in sending' : t.out.n = u.out.n => t = u
    BY <1>0, <1>b DEF OneCopy
  <2>3. \/ toPeer' = toPeer
        \/ toPeer' = <<>>
        \/ \E m \in ToPeer : toPeer' = Append(toPeer, m) /\ (m.type = "PUBLISH" => Labelled(m, outs))
    BY <1>b
  <2> QED
    BY <1>b, <2>1, <2>2, <2>3, CopiesKept
<1>c. \A i \in Inflights : inflight[i] # None => (inflight[i].waiting_pubcomp => inflight[i].qos = 2)
  BY <1>0 DEF Labels
<1>d. ASSUME toBroker # <<>>
      PROVE  /\ Head(toBroker).type \in Requests => Head(toBroker).pid \in PeerPid
             /\ Head(toBroker).type \in Answers => Head(toBroker).pid \in Pid
  BY <1>d, Received, FromPeer DEF Requests
<1>1. ASSUME NEW type, InflightAck(type) PROVE OutTypes'
  <2> DEFINE i == InflightFind(Head(toBroker).pid)
  <2>1. /\ UNCHANGED <<outs, got, held, sending, toPeer>>
        /\ inflight' = IF i = None THEN inflight ELSE [inflight EXCEPT ![i] = None]
    BY <1>1 DEF InflightAck, peerVars, histVars
  <2> HIDE DEF i
  <2>2. \A k \in Inflights : inflight'[k] # None => inflight[k] # None /\ inflight'[k] = inflight[k]
    BY <2>1 DEF TypeOK
  <2> QED
    BY <1>b, <1>c, <2>1, <2>2
<1>2. CASE Pubrec
  <2> DEFINE i == PubrecFind(Head(toBroker).pid)
             m == Ack("PUBREL", Head(toBroker).pid)
  <2>1. /\ UNCHANGED <<outs, got, held, sending>>
        /\ toBroker # <<>> /\ Head(toBroker).type = "PUBREC"
        /\ IF i = None THEN UNCHANGED <<inflight, toPeer>>
           ELSE /\ toPeer' = Append(toPeer, m)
                /\ inflight' = [inflight EXCEPT ![i].waiting_pubcomp = TRUE]
    BY <1>2 DEF Pubrec, Receive, peerVars, histVars
  <2>2. m \in ToPeer /\ m.type # "PUBLISH"
    BY <1>a, <1>d, <2>1 DEF Answers
  <2>3. i # None => i \in Inflights /\ inflight[i] # None /\ inflight[i].qos = 2
    BY FindsPubrec
  <2> HIDE DEF i, m
  <2>4. \A k \in Inflights : inflight'[k] # None =>
                /\ inflight[k] # None
                /\ inflight'[k].n = inflight[k].n
                /\ inflight'[k].pid = inflight[k].pid /\ inflight'[k].qos = inflight[k].qos
                /\ inflight'[k].waiting_pubcomp => inflight[k].qos = 2
    <3>1. CASE i = None
      BY <1>c, <2>1, <3>1
    <3>2. CASE i # None
      <4> SUFFICES ASSUME NEW k \in Inflights, inflight'[k] # None
                   PROVE  /\ inflight[k] # None
                          /\ inflight'[k].n = inflight[k].n
                          /\ inflight'[k].pid = inflight[k].pid /\ inflight'[k].qos = inflight[k].qos
                          /\ inflight'[k].waiting_pubcomp => inflight[k].qos = 2
        OBVIOUS
      <4>1. CASE k = i
        <5>1. inflight[i] \in Entry
          BY <2>3, <3>2 DEF TypeOK
        <5>2. inflight'[i] = [inflight[i] EXCEPT !.waiting_pubcomp = TRUE]
          BY <2>1, <2>3, <3>2 DEF TypeOK
        <5> QED
          BY <2>3, <3>2, <4>1, <5>1, <5>2 DEF Entry
      <4>2. CASE k # i
        <5>1. inflight'[k] = inflight[k]
          BY <2>1, <3>2, <4>2 DEF TypeOK
        <5> QED
          BY <1>c, <4>2, <5>1
      <4> QED
        BY <4>1, <4>2
    <3> QED
      BY <3>1, <3>2
  <2> QED
    BY <1>b, <2>1, <2>2, <2>4
<1>3. CASE Publish1
  <2>1. /\ UNCHANGED <<outs, got, held, sending, inflight>>
        /\ toBroker # <<>> /\ Head(toBroker).type = "PUBLISH"
        /\ toPeer' = Append(toPeer, Ack("PUBACK", Head(toBroker).pid))
    BY <1>3 DEF Publish1, Receive, brokerVars, peerVars
  <2> QED
    BY <1>a, <1>b, <1>c, <1>d, <2>1 DEF Answers, Requests
<1>4. CASE ClientPublish2
  <2>1. /\ UNCHANGED <<outs, got, held, sending, inflight>>
        /\ toBroker # <<>> /\ Head(toBroker).type = "PUBLISH"
        /\ toPeer' = Append(toPeer, Ack("PUBREC", Head(toBroker).pid))
    BY <1>4 DEF ClientPublish2, Receive, peerVars
  <2> QED
    BY <1>a, <1>b, <1>c, <1>d, <2>1 DEF Answers, Requests
<1>5. CASE ClientPubrel \/ MeshPubrel
  <2>1. /\ UNCHANGED <<outs, got, held, sending, inflight>>
        /\ toBroker # <<>> /\ Head(toBroker).type = "PUBREL"
        /\ toPeer' = Append(toPeer, Ack("PUBCOMP", Head(toBroker).pid))
    BY <1>5 DEF ClientPubrel, MeshPubrel, Receive, peerVars, histVars
  <2> QED
    BY <1>a, <1>b, <1>c, <1>d, <2>1 DEF Answers, Requests
<1>6. ASSUME Closed, UNCHANGED <<sending, peerVars, histVars>> PROVE OutTypes'
  <2>1. UNCHANGED <<outs, got, held, sending>> /\ toPeer' = <<>>
        /\ (inflight' = inflight \/ inflight' = [i \in Inflights |-> None])
    BY <1>6 DEF Closed, peerVars, histVars
  <2> QED
    BY <1>b, <1>c, <2>1
<1>7. CASE MeshPublish2 /\ ~Closed
  <2>1. /\ UNCHANGED <<outs, got, held, sending, inflight>>
        /\ toBroker # <<>> /\ Head(toBroker).type = "PUBLISH"
        /\ toPeer' = Append(toPeer, Ack("PUBREC", Head(toBroker).pid))
    BY <1>7 DEF MeshPublish2, peerVars, histVars
  <2> QED
    BY <1>a, <1>b, <1>c, <1>d, <2>1 DEF Answers, Requests
<1>8. CASE MeshPublish2 /\ Closed
  BY <1>6, <1>8 DEF MeshPublish2
<1>9. CASE Break
  BY <1>6, <1>9 DEF Break
<1> QED
  BY <1>1, <1>2, <1>3, <1>4, <1>5, <1>7, <1>8, <1>9 DEF Endpoints

LEMMA PeerCopies ==
    ASSUME TypeOK, ChannelsOK, OutTypes,
           Peer \/ UNCHANGED vars \/ \E p \in PeerPid : PeerRetry(p) \/ PeerPublish(p)
    PROVE  OutTypes'
<1>0. HistoryOK /\ Labels /\ OneCopy
  BY DEF OutTypes
<1>b. ASSUME UNCHANGED <<outs, inflight, sending>>,
             got' \in [OutNo -> 0 .. 2], \A n \in OutNo : n > Len(outs) => got'[n] = 0,
             toPeer' = toPeer \/ (toPeer # <<>> /\ toPeer' = Tail(toPeer)),
             \A h \in held' : h \in held \/
               (h.n \in 1 .. Len(outs) /\ outs[h.n].pid = h.pid /\ outs[h.n].qos = 2)
      PROVE  OutTypes'
  <2>1. \A t, u \in sending' : t.out.n = u.out.n => t = u
    BY <1>0, <1>b DEF OneCopy
  <2>2. \A i \in Inflights : inflight'[i] # None => (inflight'[i].waiting_pubcomp => inflight[i].qos = 2)
    BY <1>0, <1>b DEF Labels
  <2> QED
    BY <1>b, <2>1, <2>2, CopiesKept
<1>c. got \in [OutNo -> 0 .. 2] /\ \A n \in OutNo : n > Len(outs) => got[n] = 0
  BY <1>0 DEF HistoryOK
<1>1. CASE PeerGetsPublish
  <2> PICK m : m = Head(toPeer)
    OBVIOUS
  <2> DEFINE new == m.qos = 1 \/ \A h \in held : h.pid # m.pid
  <2>1. /\ UNCHANGED <<outs, inflight, sending>>
        /\ toPeer # <<>> /\ m.type = "PUBLISH" /\ toPeer' = Tail(toPeer)
        /\ got' = IF new THEN Once(got, m.n) ELSE got
        /\ held' = IF new /\ m.qos = 2 THEN held \cup {[pid |-> m.pid, n |-> m.n]} ELSE held
    BY <1>1 DEF PeerGetsPublish, PeerReceive, brokerVars
  <2> HIDE DEF new
  <2>2. m.n \in OutNo /\ Labelled(m, outs)
    <3>1. m \in ToPeer /\ m = toPeer[1] /\ 1 \in 1 .. Len(toPeer)
      BY <2>1, TailElements DEF ChannelsOK
    <3> QED
      BY <1>0, <2>1, <3>1, FromBroker DEF Labels
  <2>3. \A h \in held' : h \in held \/
               (h.n \in 1 .. Len(outs) /\ outs[h.n].pid = h.pid /\ outs[h.n].qos = 2)
    BY <2>1, <2>2 DEF Labelled
  <2>4. got' \in [OutNo -> 0 .. 2] /\ \A n \in OutNo : n > Len(outs) => got'[n] = 0
    <3> DEFINE g == Once(got, m.n)
    <3>1. g \in [OutNo -> 0 .. 2] /\ \A n \in OutNo : n # m.n => g[n] = got[n]
      BY <1>c, <2>2, OnceType
    <3> HIDE DEF g
    <3>2. got' = g \/ got' = got
      BY <2>1 DEF g
    <3>3. \A n \in OutNo : n > Len(outs) => n # m.n
      <4>1. m.n \in 1 .. Len(outs) /\ Len(outs) \in Nat
        BY <1>0, <2>2 DEF Labelled, HistoryOK
      <4> QED
        BY <4>1
    <3> QED
      BY <1>c, <3>1, <3>2, <3>3
  <2> QED
    BY <1>b, <2>1, <2>3, <2>4
<1>2. CASE PeerGetsPubrel
  BY <1>b, <1>c, <1>2 DEF PeerGetsPubrel, PeerReceive, brokerVars, histVars
<1>3. CASE PeerGetsPubrec
  BY <1>b, <1>c, <1>3 DEF PeerGetsPubrec, PeerReceive, brokerVars, histVars
<1>4. CASE PeerGetsAck
  BY <1>b, <1>c, <1>4 DEF PeerGetsAck, PeerReceive, brokerVars, histVars
<1>5. CASE UNCHANGED vars
  BY <1>b, <1>c, <1>5 DEF vars, brokerVars, peerVars, histVars
<1>6. ASSUME NEW p \in PeerPid, PeerRetry(p) \/ PeerPublish(p) PROVE OutTypes'
  BY <1>b, <1>c, <1>6 DEF PeerRetry, PeerPublish, brokerVars, peerVars, histVars
<1> QED
  BY <1>1, <1>2, <1>3, <1>4, <1>5, <1>6 DEF Peer

LEMMA OutTypesNext ==
    ASSUME TypeOK, ChannelsOK, OutTypes, [Next]_vars
    PROVE  OutTypes'
<1>1. ASSUME NEW s \in sending, Send(s) \/ Store(s) PROVE OutTypes'
  BY <1>1, SendCopies, StoreCopies
<1> QED
  BY <1>1, DeliverCopies, RetryCopies, EndpointCopies, PeerCopies DEF Next, Publisher

----------------------------------------------------------------------------
Carries(ch, n) == \E i \in 1 .. Len(ch) : ch[i].type = "PUBLISH" /\ ch[i].n = n
HeldPid(pid) == \E h \in held : h.pid = pid
HeldNo(n) == \E h \in held : h.n = n

Latest(n) == \A k \in 1 .. Len(outs) : k > n => outs[k].pid # outs[n].pid

Out1(n) ==
    /\ ~Has(toPeer, "PUBREL", outs[n].pid) /\ ~Has(toBroker, "PUBCOMP", outs[n].pid)
    /\ ~HeldPid(outs[n].pid)
    /\ Has(toBroker, "PUBACK", outs[n].pid) \/ ~Tracked(n) => got[n] >= 1

(* Before PUBREC has released the entry there is no PUBREL, and the peer   *)
(* has the message exactly if it holds the identifier.                     *)
Out2(n) ==
    /\ ~Has(toPeer, "PUBREL", outs[n].pid) /\ ~Has(toBroker, "PUBCOMP", outs[n].pid)
    /\ ~Has(toBroker, "PUBACK", outs[n].pid)
    /\ IF HeldPid(outs[n].pid) THEN got[n] = 1
       ELSE got[n] = 0 /\ ~Has(toBroker, "PUBREC", outs[n].pid)

(* Then no PUBLISH follows a PUBREL, so that all that arrive find the      *)
(* identifier held, and it is held until PUBCOMP.                          *)
Out2Rel(n) ==
    /\ ~Has(toBroker, "PUBACK", outs[n].pid)
    /\ got[n] = 1
    /\ Ordered(toPeer, "PUBLISH", "PUBREL", outs[n].pid)
    /\ HeldPid(outs[n].pid) => ~Has(toBroker, "PUBCOMP", outs[n].pid) /\ Waiting(n)
    /\ Has(toPeer, "PUBLISH", outs[n].pid) => HeldPid(outs[n].pid)

Current(n) ==
    n \notin shed =>
      IF outs[n].qos = 1 THEN Out1(n)
      ELSE IF Waiting(n) \/ ~Tracked(n) THEN Out2Rel(n) ELSE Out2(n)

(* An earlier message with the identifier.                                 *)
Gone(n) ==
    /\ ~Tracked(n) /\ ~HeldNo(n) /\ ~Carries(toPeer, n)
    /\ n \notin shed => got[n] >= 1 /\ (outs[n].qos = 2 => got[n] = 1)

OutFlow(n) == IF Latest(n) THEN Current(n) ELSE Gone(n)

OutFlows == \A n \in 1 .. Len(outs) : outs[n].pid \notin reused => OutFlow(n)

LEMMA CarriesAppend ==
    ASSUME NEW S, NEW ch \in Seq(S), NEW m \in S, NEW n, Carries(Append(ch, m), n)
    PROVE  Carries(ch, n) \/ (m.type = "PUBLISH" /\ m.n = n)
<1> PICK i \in 1 .. Len(Append(ch, m)) : Append(ch, m)[i].type = "PUBLISH" /\ Append(ch, m)[i].n = n
  BY DEF Carries
<1>1. /\ Len(Append(ch, m)) = Len(ch) + 1 /\ Len(ch) \in Nat
      /\ Append(ch, m)[Len(ch) + 1] = m
      /\ \A j \in 1 .. Len(ch) : Append(ch, m)[j] = ch[j]
  BY AppendElements
<1>2. CASE i = Len(ch) + 1
  BY <1>1, <1>2
<1>3. CASE i \in 1 .. Len(ch)
  BY <1>1, <1>3 DEF Carries
<1> QED
  BY <1>1, <1>2, <1>3

LEMMA CarriesTail ==
    ASSUME NEW S, NEW ch \in Seq(S), ch # <<>>, NEW n, Carries(Tail(ch), n)
    PROVE  Carries(ch, n)
<1> PICK i \in 1 .. Len(Tail(ch)) : Tail(ch)[i].type = "PUBLISH" /\ Tail(ch)[i].n = n
  BY DEF Carries
<1>1. i + 1 \in 1 .. Len(ch) /\ Tail(ch)[i] = ch[i + 1]
  BY TailElements
<1> QED
  BY <1>1 DEF Carries

LEMMA CurrentKept ==
    ASSUME NEW n, NEW pid, outs[n].pid = pid, outs'[n] = outs[n], Current(n),
           got'[n] = got[n], n \in shed' <=> n \in shed,
           Tracked(n)' <=> Tracked(n), Waiting(n)' <=> Waiting(n),
           HeldPid(pid)' <=> HeldPid(pid),
           Same(toPeer, toPeer', Requests, pid), Same(toBroker, toBroker', Answers, pid)
    PROVE  Current(n)'
<1>1. /\ Has(toPeer', "PUBLISH", pid) <=> Has(toPeer, "PUBLISH", pid)
      /\ Has(toPeer', "PUBREL", pid) <=> Has(toPeer, "PUBREL", pid)
      /\ Ordered(toPeer, "PUBLISH", "PUBREL", pid) => Ordered(toPeer', "PUBLISH", "PUBREL", pid)
  BY SameIn
<1>2. /\ Has(toBroker', "PUBACK", pid) <=> Has(toBroker, "PUBACK", pid)
      /\ Has(toBroker', "PUBREC", pid) <=> Has(toBroker, "PUBREC", pid)
      /\ Has(toBroker', "PUBCOMP", pid) <=> Has(toBroker, "PUBCOMP", pid)
  BY SameAnswers
<1>3. HeldPid(outs[n].pid) <=> HeldPid(pid)
  OBVIOUS
<1>4. (\E h \in held' : h.pid = pid) <=> (\E h \in held : h.pid = pid)
  BY DEF HeldPid
<1>5. Out1(n) => Out1(n)'
  BY <1>1, <1>2, <1>4 DEF Out1, HeldPid
<1>6. Out2(n) => Out2(n)'
  BY <1>1, <1>2, <1>4 DEF Out2, HeldPid
<1>7. Out2Rel(n) => Out2Rel(n)'
  BY <1>1, <1>2, <1>4 DEF Out2Rel, HeldPid
<1> QED
  BY <1>5, <1>6, <1>7 DEF Current

(* Only the last message with an identifier is anywhere.                   *)
LEMMA OnlyLatest ==
    ASSUME OutTypes, OutFlows, NEW k \in 1 .. Len(outs), NEW n \in 1 .. Len(outs),
           outs[k].pid = outs[n].pid, outs[n].pid \notin reused, Latest(n),
           Tracked(k) \/ HeldNo(k) \/ Carries(toPeer, k)
    PROVE  k = n
<1>1. Latest(k)
  BY DEF OutFlows, OutFlow, Gone
<1>2. k \in Nat /\ n \in Nat
  OBVIOUS
<1> QED
  BY <1>1, <1>2 DEF Latest

(* A step of the messages with these identifiers.                          *)
LEMMA OutStep ==
    ASSUME TypeOK, ChannelsOK, OutTypes, OutFlows, UNCHANGED <<outs, reused>>, NEW pids,
           Touches(ToPeer, toPeer, toPeer', Requests, pids),
           Touches(ToBroker, toBroker, toBroker', Answers, pids),
           \A n \in 1 .. Len(outs) : outs[n].pid \notin pids =>
             /\ Tracked(n)' <=> Tracked(n)
             /\ Waiting(n)' <=> Waiting(n)
             /\ got'[n] = got[n]
             /\ n \in shed' <=> n \in shed,
           \A q : q \notin pids => (HeldPid(q)' <=> HeldPid(q)),
           \A n \in 1 .. Len(outs) : Gone(n) =>
             /\ ~Tracked(n)' /\ ~HeldNo(n)' /\ ~Carries(toPeer, n)'
             /\ got'[n] = got[n]
             /\ n \in shed' <=> n \in shed,
           \A n \in 1 .. Len(outs) :
             outs[n].pid \in pids /\ outs[n].pid \notin reused /\ Latest(n) /\ Current(n)
               => Current(n)'
    PROVE  OutFlows'
<1> SUFFICES ASSUME NEW n \in 1 .. Len(outs), outs[n].pid \notin reused PROVE OutFlow(n)'
  BY DEF OutFlows
<1>1. OutFlow(n) /\ (Latest(n)' <=> Latest(n))
  BY DEF OutFlows, Latest
<1>2. CASE ~Latest(n)
  <2>1. Gone(n)
    BY <1>1, <1>2 DEF OutFlow
  <2>2. Gone(n)'
    BY <2>1 DEF Gone
  <2> QED
    BY <1>1, <1>2, <2>2 DEF OutFlow
<1>3. CASE Latest(n) /\ outs[n].pid \in pids
  BY <1>1, <1>3 DEF OutFlow
<1>4. CASE Latest(n) /\ outs[n].pid \notin pids
  <2> PICK pid : pid = outs[n].pid
    OBVIOUS
  <2>1. Same(toPeer, toPeer', Requests, pid) /\ Same(toBroker, toBroker', Answers, pid)
    BY <1>4, Untouched DEF ChannelsOK
  <2>2. Current(n)'
    BY <1>1, <1>4, <2>1, CurrentKept DEF OutFlow
  <2> QED
    BY <1>1, <1>4, <2>2 DEF OutFlow
<1> QED
  BY <1>2, <1>3, <1>4

LEMMA CarriesNext ==
    ASSUME ChannelsOK, NEW n, ~Carries(toPeer, n),
           \/ toPeer' = toPeer
           \/ toPeer # <<>> /\ toPeer' = Tail(toPeer)
           \/ toPeer' = <<>>
           \/ \E m \in ToPeer : toPeer' = Append(toPeer, m) /\ ~(m.type = "PUBLISH" /\ m.n = n)
    PROVE  ~Carries(toPeer', n)
<1>1. ASSUME NEW m \in ToPeer, toPeer' = Append(toPeer, m), ~(m.type = "PUBLISH" /\ m.n = n)
      PROVE  ~Carries(toPeer', n)
  BY <1>1, CarriesAppend DEF ChannelsOK
<1>2. CASE toPeer # <<>> /\ toPeer' = Tail(toPeer)
  BY <1>2, CarriesTail DEF ChannelsOK
<1>3. CASE toPeer' = <<>>
  BY <1>3 DEF Carries
<1> QED
  BY <1>1, <1>2, <1>3

LEMMA PendingNotWaiting ==
    ASSUME OneCopy, NEW n \in 1 .. Len(outs), Pending(n)
    PROVE  ~Waiting(n) /\ ~Stored(n)
  BY DEF OneCopy, Waiting, Stored

LEMMA WaitingTracked == \A n : Waiting(n) => Tracked(n)
  BY DEF Waiting, Tracked

(* Of a message that waits for no PUBCOMP a PUBLISH may follow.            *)
LEMMA PublishAdded ==
    ASSUME ChannelsOK, NEW k, UNCHANGED <<outs, got, shed, held, toBroker>>,
           Tracked(k), ~Waiting(k), Tracked(k)', ~Waiting(k)', NEW m \in ToPeer, m.type = "PUBLISH",
           toPeer' = toPeer \/ toPeer' = Append(toPeer, m), Current(k)
    PROVE  Current(k)'
<1> PICK pid : pid = outs[k].pid
  OBVIOUS
<1>1. Has(toPeer', "PUBREL", pid) <=> Has(toPeer, "PUBREL", pid)
  <2>1. toPeer \in Seq(ToPeer) /\ ~Is(m, "PUBREL", pid)
    BY DEF ChannelsOK, Is
  <2>2. Has(Append(toPeer, m), "PUBREL", pid) <=> Has(toPeer, "PUBREL", pid)
    BY <2>1, HasAppend
  <2> QED
    BY <2>2
<1>2. Out1(k) => Out1(k)'
  BY <1>1 DEF Out1, HeldPid
<1>3. Out2(k) => Out2(k)'
  BY <1>1 DEF Out2, HeldPid
<1> QED
  BY <1>2, <1>3 DEF Current

LEMMA SendFlow ==
    ASSUME TypeOK, ChannelsOK, OutTypes, OutFlows, open \/ kind = "client",
           NEW s \in sending, Send(s)
    PROVE  OutFlows'
<1> PICK k, pid, m : k = s.out.n /\ pid = s.out.pid /\ m = Publish(s.out.pid, s.out.n, s.out.qos)
  OBVIOUS
<1> DEFINE pids == {pid}
<1>0. HistoryOK /\ Labels /\ OneCopy
  BY DEF OutTypes
<1>1. /\ UNCHANGED <<outs, got, shed, reused, inflight, held, toBroker>>
      /\ toPeer' = toPeer \/ toPeer' = Append(toPeer, m)
  BY DEF Send, peerVars, histVars
<1>2. m \in ToPeer /\ m.type = "PUBLISH" /\ m.pid = pid /\ m.n = k
  <2>1. s \in [out : Out, sent : BOOLEAN]
    BY DEF TypeOK
  <2> QED
    BY <2>1, Packets DEF Out, Publish
<1>3. k \in 1 .. Len(outs) /\ outs[k].pid = pid /\ Pending(k) /\ Tracked(k) /\ ~Waiting(k)
  <2>1. k \in 1 .. Len(outs) /\ outs[k].pid = pid
    BY <1>0 DEF Labels, Labelled
  <2>2. Pending(k)
    BY DEF Pending
  <2> QED
    BY <1>0, <2>1, <2>2, PendingNotWaiting, TrackedIs
<1>4. \A n : (Pending(n)' <=> Pending(n)) /\ (Stored(n)' <=> Stored(n)) /\ (Waiting(n)' <=> Waiting(n))
  BY <1>1, SendCopies DEF Stored, Waiting
<1>5. \A n : Tracked(n)' <=> Tracked(n)
  BY <1>4, TrackedIs DEF Tracked, Pending, Stored
<1>6. /\ Touches(ToPeer, toPeer, toPeer', Requests, pids)
      /\ Touches(ToBroker, toBroker, toBroker', Answers, pids)
      /\ pid \in pids /\ \A q : q \in pids => q = pid
  BY <1>1, <1>2 DEF Touches
<1> HIDE DEF pids
<1>7. \A q : HeldPid(q)' <=> HeldPid(q)
  BY <1>1 DEF HeldPid
<1>8. ASSUME NEW n \in 1 .. Len(outs), Gone(n)
      PROVE  ~Tracked(n)' /\ ~HeldNo(n)' /\ ~Carries(toPeer, n)'
  <2>1. n # k /\ ~Carries(toPeer, n) /\ ~HeldNo(n) /\ ~Tracked(n)
    BY <1>3, <1>8 DEF Gone
  <2>2. ~Carries(toPeer', n)
    BY <1>1, <1>2, <2>1, CarriesNext
  <2> QED
    BY <1>1, <1>5, <2>1, <2>2 DEF HeldNo
<1>9. ASSUME NEW n \in 1 .. Len(outs), outs[n].pid \in pids, outs[n].pid \notin reused,
             Latest(n), Current(n)
      PROVE  Current(n)'
  <2>1. n = k
    BY <1>3, <1>6, <1>9, OnlyLatest
  <2> QED
    BY <1>1, <1>2, <1>3, <1>4, <1>5, <1>9, <2>1, PublishAdded
<1> QED
  BY <1>1, <1>4, <1>5, <1>6, <1>7, <1>8, <1>9, OutStep

LEMMA RetryFlow ==
    ASSUME TypeOK, ChannelsOK, OutTypes, OutFlows, NEW i \in Inflights, Retry(i)
    PROVE  OutFlows'
<1> PICK k, pid, m : /\ k = inflight[i].n /\ pid = inflight[i].pid
                     /\ m = IF inflight[i].waiting_pubcomp THEN Ack("PUBREL", inflight[i].pid)
                            ELSE Publish(inflight[i].pid, inflight[i].n, inflight[i].qos)
  OBVIOUS
<1> DEFINE pids == {pid}
<1>0. HistoryOK /\ Labels /\ OneCopy
  BY DEF OutTypes
<1>1. /\ UNCHANGED <<outs, got, shed, reused, sending, inflight, held, toBroker>>
      /\ toPeer' = Append(toPeer, m) /\ inflight[i] # None
  BY DEF Retry, brokerVars, peerVars, histVars
<1>2. /\ m \in ToPeer /\ m.pid = pid
      /\ m.type = IF inflight[i].waiting_pubcomp THEN "PUBREL" ELSE "PUBLISH"
      /\ m.type = "PUBLISH" => m.n = k
  <2>1. inflight[i] \in Entry
    BY <1>1 DEF TypeOK
  <2> QED
    BY <2>1, Packets DEF Entry, Publish, Ack
<1>3. k \in 1 .. Len(outs) /\ outs[k].pid = pid /\ Stored(k) /\ Tracked(k)
  <2>1. k \in 1 .. Len(outs) /\ outs[k].pid = pid
    BY <1>0, <1>1 DEF Labels, Labelled
  <2>2. Stored(k)
    BY <1>1 DEF Stored
  <2> QED
    BY <2>1, <2>2, TrackedIs
<1>4. \A n : (Tracked(n)' <=> Tracked(n)) /\ (Waiting(n)' <=> Waiting(n))
  BY <1>1 DEF Tracked, Waiting
<1>5. IF inflight[i].waiting_pubcomp THEN Waiting(k) /\ outs[k].qos = 2 ELSE ~Waiting(k)
  <2>1. ASSUME inflight[i].waiting_pubcomp PROVE Waiting(k) /\ outs[k].qos = 2
    BY <1>0, <1>1, <2>1 DEF Waiting, Labels, Labelled
  <2>2. ASSUME ~inflight[i].waiting_pubcomp PROVE ~Waiting(k)
    BY <1>0, <1>1, <2>2 DEF Waiting, OneCopy
  <2> QED
    BY <2>1, <2>2
<1>6. /\ Touches(ToPeer, toPeer, toPeer', Requests, pids)
      /\ Touches(ToBroker, toBroker, toBroker', Answers, pids)
      /\ pid \in pids /\ \A q : q \in pids => q = pid
  BY <1>1, <1>2 DEF Touches
<1> HIDE DEF pids
<1>7. \A q : HeldPid(q)' <=> HeldPid(q)
  BY <1>1 DEF HeldPid
<1>8. ASSUME NEW n \in 1 .. Len(outs), Gone(n)
      PROVE  ~Tracked(n)' /\ ~HeldNo(n)' /\ ~Carries(toPeer, n)'
  <2>1. n # k /\ ~Carries(toPeer, n) /\ ~HeldNo(n) /\ ~Tracked(n)
    BY <1>3, <1>8 DEF Gone
  <2>2. ~Carries(toPeer', n)
    BY <1>1, <1>2, <2>1, CarriesNext
  <2> QED
    BY <1>1, <1>4, <2>1, <2>2 DEF HeldNo
<1>9. ASSUME NEW n \in 1 .. Len(outs), outs[n].pid \in pids, outs[n].pid \notin reused,
             Latest(n), Current(n)
      PROVE  Current(n)'
  <2>1. n = k
    BY <1>3, <1>6, <1>9, OnlyLatest
  <2>2. CASE ~inflight[i].waiting_pubcomp
    BY <1>1, <1>2, <1>3, <1>4, <1>5, <1>9, <2>1, <2>2, PublishAdded
  <2>3. CASE inflight[i].waiting_pubcomp /\ k \in shed
    BY <1>1, <2>1, <2>3 DEF Current
  <2>4. CASE inflight[i].waiting_pubcomp /\ k \notin shed
    <3>1. Out2Rel(k)
      BY <1>5, <1>9, <2>1, <2>4 DEF Current
    <3>2. toPeer \in Seq(ToPeer) /\ ~Is(m, "PUBLISH", pid)
      BY <1>2, <2>4 DEF ChannelsOK, Is
    <3>3. /\ Has(toPeer', "PUBLISH", pid) <=> Has(toPeer, "PUBLISH", pid)
          /\ Ordered(toPeer', "PUBLISH", "PUBREL", pid)
      BY <1>1, <1>2, <1>3, <3>1, <3>2, HasAppend, OrderedAppend DEF Out2Rel
    <3>4. Waiting(k)'
      BY <1>4, <1>5, <2>4
    <3>5. Out2Rel(k)'
      BY <1>1, <1>3, <3>1, <3>3, <3>4 DEF Out2Rel, HeldPid
    <3> QED
      BY <1>1, <1>5, <2>1, <2>4, <3>4, <3>5 DEF Current
  <2> QED
    BY <2>2, <2>3, <2>4
<1> QED
  BY <1>1, <1>4, <1>6, <1>7, <1>8, <1>9, OutStep

LEMMA StoreFlow ==
    ASSUME TypeOK, ChannelsOK, OutTypes, OutFlows, NEW s \in sending, Store(s)
    PROVE  OutFlows'
<1> PICK k, pid : k = s.out.n /\ pid = s.out.pid
  OBVIOUS
<1> DEFINE pids == {pid}
<1>0. HistoryOK /\ Labels /\ OneCopy
  BY DEF OutTypes
<1>1. /\ UNCHANGED <<outs, got, reused, held, toPeer, toBroker>>
      /\ IF InflightFree = None THEN shed' = shed \cup {k} ELSE shed' = shed
  BY DEF Store, peerVars
<1>3. k \in 1 .. Len(outs) /\ outs[k].pid = pid /\ Tracked(k)
  <2>1. k \in 1 .. Len(outs) /\ outs[k].pid = pid
    BY <1>0 DEF Labels, Labelled
  <2>2. Pending(k)
    BY DEF Pending
  <2> QED
    BY <2>1, <2>2, TrackedIs
<1>4. /\ InflightFree # None => Stored(k)'
      /\ \A n : n # k => (Pending(n)' <=> Pending(n)) /\ (Stored(n)' <=> Stored(n))
      /\ \A n : Waiting(n)' <=> Waiting(n)
  BY StoreCopies
<1>5. /\ InflightFree # None => Tracked(k)'
      /\ \A n : n # k => (Tracked(n)' <=> Tracked(n))
  BY <1>4 DEF Tracked, Pending, Stored
<1>6. /\ Touches(ToPeer, toPeer, toPeer', Requests, pids)
      /\ Touches(ToBroker, toBroker, toBroker', Answers, pids)
      /\ pid \in pids /\ \A q : q \in pids => q = pid
  BY <1>1 DEF Touches
<1> HIDE DEF pids
<1>7. \A q : HeldPid(q)' <=> HeldPid(q)
  BY <1>1 DEF HeldPid
<1>a. ASSUME NEW n, n # k PROVE n \in shed' <=> n \in shed
  BY <1>1, <1>a
<1>8. ASSUME NEW n \in 1 .. Len(outs), Gone(n)
      PROVE  ~Tracked(n)' /\ ~HeldNo(n)' /\ ~Carries(toPeer, n)' /\ (n \in shed' <=> n \in shed)
  <2>1. n # k /\ ~Carries(toPeer, n) /\ ~HeldNo(n) /\ ~Tracked(n)
    BY <1>3, <1>8 DEF Gone
  <2> QED
    BY <1>1, <1>5, <1>a, <2>1 DEF HeldNo
<1>b. ASSUME NEW n \in 1 .. Len(outs), outs[n].pid \notin pids
      PROVE  (Tracked(n)' <=> Tracked(n)) /\ (Waiting(n)' <=> Waiting(n)) /\ (n \in shed' <=> n \in shed)
  <2>1. n # k
    BY <1>3, <1>6, <1>b
  <2> QED
    BY <1>4, <1>5, <1>a, <2>1
<1>9. ASSUME NEW n \in 1 .. Len(outs), outs[n].pid \in pids, outs[n].pid \notin reused,
             Latest(n), Current(n)
      PROVE  Current(n)'
  <2>1. n = k
    BY <1>3, <1>6, <1>9, OnlyLatest
  <2>2. CASE InflightFree = None
    BY <1>1, <2>1, <2>2 DEF Current
  <2>3. CASE InflightFree # None
    <3>1. /\ Tracked(k)' <=> Tracked(k)
          /\ Waiting(k)' <=> Waiting(k)
          /\ shed' = shed
      BY <1>1, <1>3, <1>4, <1>5, <2>3
    <3>2. Out1(k) => Out1(k)'
      BY <1>1, <3>1 DEF Out1, HeldPid
    <3>3. Out2(k) => Out2(k)'
      BY <1>1, <3>1 DEF Out2, HeldPid
    <3>4. Out2Rel(k) => Out2Rel(k)'
      BY <1>1, <3>1 DEF Out2Rel, HeldPid
    <3> QED
      BY <1>1, <1>9, <2>1, <3>1, <3>2, <3>3, <3>4 DEF Current
  <2> QED
    BY <2>2, <2>3
<1> QED
  BY <1>1, <1>6, <1>7, <1>8, <1>9, <1>b, OutStep

LEMMA HeadAtBroker ==
    ASSUME ChannelsOK, toBroker # <<>>, NEW m, m = Head(toBroker), m.type \in Answers
    PROVE  m.pid \in Pid /\ Has(toBroker, m.type, m.pid) /\ m \in ToBroker
<1>1. m \in ToBroker /\ m = toBroker[1] /\ 1 \in 1 .. Len(toBroker)
  BY TailElements DEF ChannelsOK
<1> QED
  BY <1>1, FromPeer DEF Has, Is

LEMMA TakenAnswer ==
    ASSUME ChannelsOK, toBroker # <<>>, toBroker' = Tail(toBroker), NEW type, NEW pid
    PROVE  /\ Has(toBroker', type, pid) => Has(toBroker, type, pid)
           /\ Head(toBroker).type # type => (Has(toBroker', type, pid) <=> Has(toBroker, type, pid))
  BY HasTail DEF ChannelsOK, Is

(* PUBACK and PUBCOMP: the entry that is freed is that of the message.     *)
LEMMA AckFlow ==
    ASSUME TypeOK, ChannelsOK, OutTypes, OutFlows, NEW type \in {"PUBACK", "PUBCOMP"}, InflightAck(type)
    PROVE  OutFlows'
<1> PICK m, pid, i : m = Head(toBroker) /\ pid = m.pid /\ i = InflightFind(pid)
  OBVIOUS
<1> PICK k : k = inflight[i].n
  OBVIOUS
<1> DEFINE pids == {pid}
<1>0. HistoryOK /\ Labels /\ OneCopy
  BY DEF OutTypes
<1>1. /\ UNCHANGED <<outs, got, shed, reused, sending, held, toPeer>>
      /\ toBroker # <<>> /\ m.type = type /\ toBroker' = Tail(toBroker)
      /\ inflight' = IF i = None THEN inflight ELSE [inflight EXCEPT ![i] = None]
  BY DEF InflightAck, Receive, peerVars, histVars
<1>2. Has(toBroker, type, pid)
  BY <1>1, HeadAtBroker DEF Answers
<1>3. i # None => /\ i \in Inflights /\ inflight[i] # None
                  /\ k \in 1 .. Len(outs) /\ outs[k].pid = pid /\ Stored(k) /\ Tracked(k)
  <2> SUFFICES ASSUME i # None
               PROVE  /\ i \in Inflights /\ inflight[i] # None
                      /\ k \in 1 .. Len(outs) /\ outs[k].pid = pid /\ Stored(k) /\ Tracked(k)
    OBVIOUS
  <2>1. i \in Inflights /\ inflight[i] # None /\ inflight[i].pid = pid
    BY FindsPid
  <2>2. k \in 1 .. Len(outs) /\ outs[k].pid = pid
    BY <1>0, <2>1 DEF Labels, Labelled
  <2>3. Stored(k)
    BY <2>1 DEF Stored
  <2> QED
    BY <2>1, <2>2, <2>3, TrackedIs
<1>4. \A j \in Inflights : /\ j # i => inflight'[j] = inflight[j]
                           /\ i # None => inflight'[i] = None
                           /\ i = None => inflight'[j] = inflight[j]
  BY <1>1, <1>3 DEF TypeOK
<1>5. \A n : /\ Pending(n)' <=> Pending(n)
             /\ Stored(n)' => Stored(n)
             /\ Waiting(n)' => Waiting(n)
  <2>1. \A n : Pending(n)' <=> Pending(n)
    BY <1>1 DEF Pending
  <2>2. \A n : (Stored(n)' => Stored(n)) /\ (Waiting(n)' => Waiting(n))
    BY <1>3, <1>4 DEF Stored, Waiting
  <2> QED
    BY <2>1, <2>2
<1>6. \A n : i = None \/ n # k => (Stored(n)' <=> Stored(n)) /\ (Waiting(n)' <=> Waiting(n))
  BY <1>3, <1>4 DEF Stored, Waiting
<1>7. i # None => ~Stored(k)' /\ ~Pending(k)'
  <2>1. i # None => ~Pending(k)'
    BY <1>0, <1>3, <1>5 DEF OneCopy
  <2>2. i # None => ~Stored(k)'
    BY <1>0, <1>3, <1>4 DEF OneCopy, Stored
  <2> QED
    BY <2>1, <2>2
<1>8. \A n : /\ Tracked(n)' => Tracked(n)
             /\ i = None \/ n # k => (Tracked(n)' <=> Tracked(n))
  BY <1>5, <1>6 DEF Tracked, Pending, Stored
<1>9. i # None => ~Tracked(k)' /\ ~Waiting(k)'
  BY <1>7 DEF Tracked, Pending, Stored, Waiting
<1>10. /\ Touches(ToPeer, toPeer, toPeer', Requests, pids)
       /\ Touches(ToBroker, toBroker, toBroker', Answers, pids)
       /\ pid \in pids /\ \A q : q \in pids => q = pid
  BY <1>1 DEF Touches
<1> HIDE DEF pids
<1>11. \A q : HeldPid(q)' <=> HeldPid(q)
  BY <1>1 DEF HeldPid
<1>12. ASSUME NEW n \in 1 .. Len(outs), Gone(n)
       PROVE  ~Tracked(n)' /\ ~HeldNo(n)' /\ ~Carries(toPeer, n)'
  BY <1>1, <1>8, <1>12 DEF Gone, HeldNo
<1>13. ASSUME NEW n \in 1 .. Len(outs), outs[n].pid \notin pids
       PROVE  (Tracked(n)' <=> Tracked(n)) /\ (Waiting(n)' <=> Waiting(n))
  <2>1. i = None \/ n # k
    BY <1>3, <1>10, <1>13
  <2> QED
    BY <1>6, <1>8, <2>1
<1>14. ASSUME NEW n \in 1 .. Len(outs), outs[n].pid \in pids, outs[n].pid \notin reused,
              Latest(n), Current(n)
       PROVE  Current(n)'
  <2>1. outs[n].pid = pid /\ (i # None => n = k)
    BY <1>3, <1>10, <1>14, OnlyLatest
  <2>2. CASE n \in shed
    BY <1>1, <2>2 DEF Current
  <2>3. CASE n \notin shed /\ outs[n].qos = 1
    <3>1. Out1(n)
      BY <1>14, <2>3 DEF Current
    <3>2. got[n] >= 1
      BY <1>2, <2>1, <3>1 DEF Out1
    <3>3. ~Has(toBroker', "PUBCOMP", pid)
      BY <1>1, <2>1, <3>1, TakenAnswer DEF Out1
    <3>4. Out1(n)'
      BY <1>1, <2>1, <3>1, <3>2, <3>3 DEF Out1, HeldPid
    <3> QED
      BY <1>1, <2>3, <3>4 DEF Current
  <2>4. CASE n \notin shed /\ outs[n].qos # 1
    <3>1. ~Out2(n)
      BY <1>2, <2>1 DEF Out2
    <3>2. Out2Rel(n) /\ (Waiting(n) \/ ~Tracked(n))
      BY <1>14, <2>4, <3>1 DEF Current
    <3>3. type = "PUBCOMP" /\ ~HeldPid(pid)
      BY <1>2, <2>1, <3>2 DEF Out2Rel
    <3>4. ~Has(toBroker', "PUBACK", pid)
      BY <1>1, <2>1, <3>2, TakenAnswer DEF Out2Rel
    <3>5. Out2Rel(n)'
      BY <1>1, <2>1, <3>2, <3>3, <3>4 DEF Out2Rel, HeldPid
    <3>6. Waiting(n)' \/ ~Tracked(n)'
      <4>1. CASE i = None
        BY <1>6, <1>8, <3>2, <4>1
      <4>2. CASE i # None
        BY <1>9, <2>1, <4>2
      <4> QED
        BY <4>1, <4>2
    <3> QED
      BY <1>1, <2>4, <3>5, <3>6 DEF Current
  <2> QED
    BY <2>2, <2>3, <2>4
<1> QED
  BY <1>1, <1>10, <1>11, <1>12, <1>13, <1>14, OutStep

(* PUBREC: the entry that now stands for PUBREL is that of the message.    *)
LEMMA PubrecFlow ==
    ASSUME TypeOK, ChannelsOK, OutTypes, OutFlows, Pubrec
    PROVE  OutFlows'
<1> PICK r, pid, i : r = Head(toBroker) /\ pid = r.pid /\ i = PubrecFind(pid)
  OBVIOUS
<1> PICK k, m : k = inflight[i].n /\ m = Ack("PUBREL", pid)
  OBVIOUS
<1> DEFINE pids == {pid}
<1>0. HistoryOK /\ Labels /\ OneCopy
  BY DEF OutTypes
<1>1. /\ UNCHANGED <<outs, got, shed, reused, sending, held>>
      /\ toBroker # <<>> /\ r.type = "PUBREC" /\ toBroker' = Tail(toBroker)
      /\ IF i = None THEN UNCHANGED <<inflight, toPeer>>
         ELSE /\ toPeer' = Append(toPeer, m)
              /\ inflight' = [inflight EXCEPT ![i].waiting_pubcomp = TRUE]
  BY DEF Pubrec, Receive, peerVars, histVars
<1>2. Has(toBroker, "PUBREC", pid) /\ pid \in Pid
  BY <1>1, HeadAtBroker DEF Answers
<1>m. m \in ToPeer /\ m.type = "PUBREL" /\ m.pid = pid
  BY <1>2, Packets DEF Ack
<1>3. i # None => /\ i \in Inflights /\ inflight[i] # None
                  /\ k \in 1 .. Len(outs) /\ outs[k].pid = pid /\ outs[k].qos = 2
                  /\ Tracked(k) /\ ~Waiting(k)
  <2> SUFFICES ASSUME i # None
               PROVE  /\ i \in Inflights /\ inflight[i] # None
                      /\ k \in 1 .. Len(outs) /\ outs[k].pid = pid /\ outs[k].qos = 2
                      /\ Tracked(k) /\ ~Waiting(k)
    OBVIOUS
  <2>1. /\ i \in Inflights /\ inflight[i] # None /\ inflight[i].pid = pid
        /\ inflight[i].qos = 2 /\ ~inflight[i].waiting_pubcomp
    BY FindsPubrec
  <2>2. k \in 1 .. Len(outs) /\ outs[k].pid = pid /\ outs[k].qos = 2
    BY <1>0, <2>1 DEF Labels, Labelled
  <2>3. Tracked(k)
    BY <2>1 DEF Tracked
  <2>4. ~Waiting(k)
    BY <1>0, <2>1 DEF OneCopy, Waiting
  <2> QED
    BY <2>1, <2>2, <2>3, <2>4
<1>4. /\ i = None => inflight' = inflight
      /\ i # None => /\ inflight'[i] # None /\ inflight'[i].n = k /\ inflight'[i].waiting_pubcomp
                     /\ \A j \in Inflights : j # i => inflight'[j] = inflight[j]
  <2>1. CASE i # None
    <3>1. inflight'[i] = [inflight[i] EXCEPT !.waiting_pubcomp = TRUE]
          /\ \A j \in Inflights : j # i => inflight'[j] = inflight[j]
      BY <1>1, <1>3, <2>1 DEF TypeOK
    <3>2. inflight[i] \in Entry
      BY <1>3, <2>1 DEF TypeOK
    <3>3. inflight'[i] \in Entry /\ inflight'[i].n = k /\ inflight'[i].waiting_pubcomp
      BY <3>1, <3>2 DEF Entry
    <3> QED
      BY <2>1, <3>1, <3>3, FlowAssumption
  <2> QED
    BY <1>1, <2>1
<1>5. \A n : /\ Pending(n)' <=> Pending(n)
             /\ Stored(n)' <=> Stored(n)
             /\ i = None \/ n # k => (Waiting(n)' <=> Waiting(n))
  <2>1. \A n : Pending(n)' <=> Pending(n)
    BY <1>1 DEF Pending
  <2>2. \A n : Stored(n)' <=> Stored(n)
    <3>1. CASE i = None
      BY <1>4, <3>1 DEF Stored
    <3>2. CASE i # None
      <4>1. \A j \in Inflights : (inflight'[j] # None <=> inflight[j] # None)
                                 /\ (inflight[j] # None => inflight'[j].n = inflight[j].n)
        BY <1>3, <1>4, <3>2
      <4> QED
        BY <4>1 DEF Stored
    <3> QED
      BY <3>1, <3>2
  <2>3. \A n : i = None \/ n # k => (Waiting(n)' <=> Waiting(n))
    BY <1>3, <1>4 DEF Waiting
  <2> QED
    BY <2>1, <2>2, <2>3
<1>6. i # None => Waiting(k)'
  BY <1>3, <1>4 DEF Waiting
<1>8. \A n : Tracked(n)' <=> Tracked(n)
  BY <1>5 DEF Tracked, Pending, Stored
<1>10. /\ Touches(ToPeer, toPeer, toPeer', Requests, pids)
       /\ Touches(ToBroker, toBroker, toBroker', Answers, pids)
       /\ pid \in pids /\ \A q : q \in pids => q = pid
  BY <1>1, <1>m DEF Touches
<1> HIDE DEF pids
<1>11. \A q : HeldPid(q)' <=> HeldPid(q)
  BY <1>1 DEF HeldPid
<1>12. ASSUME NEW n \in 1 .. Len(outs), Gone(n)
       PROVE  ~Tracked(n)' /\ ~HeldNo(n)' /\ ~Carries(toPeer, n)'
  <2>1. ~Carries(toPeer', n)
    BY <1>1, <1>m, <1>12, CarriesNext DEF Gone
  <2> QED
    BY <1>1, <1>8, <1>12, <2>1 DEF Gone, HeldNo
<1>13. ASSUME NEW n \in 1 .. Len(outs), outs[n].pid \notin pids
       PROVE  Waiting(n)' <=> Waiting(n)
  BY <1>3, <1>5, <1>10, <1>13
<1>a. /\ Has(toBroker', "PUBACK", pid) <=> Has(toBroker, "PUBACK", pid)
      /\ Has(toBroker', "PUBCOMP", pid) <=> Has(toBroker, "PUBCOMP", pid)
  BY <1>1, TakenAnswer
<1>14. ASSUME NEW n \in 1 .. Len(outs), outs[n].pid \in pids, outs[n].pid \notin reused,
              Latest(n), Current(n)
       PROVE  Current(n)'
  <2>1. outs[n].pid = pid /\ (i # None => n = k)
    BY <1>3, <1>10, <1>14, OnlyLatest
  <2>2. CASE n \in shed
    BY <1>1, <2>2 DEF Current
  <2>3. CASE n \notin shed /\ i = None
    <3>0. UNCHANGED toPeer /\ (Waiting(n)' <=> Waiting(n))
      BY <1>1, <1>5, <2>3
    <3>1. Out1(n) => Out1(n)'
      BY <1>1, <1>8, <1>a, <2>1, <3>0 DEF Out1, HeldPid
    <3>2. Out2(n) => Out2(n)'
      BY <1>1, <1>2, <1>a, <2>1, <3>0 DEF Out2, HeldPid
    <3>3. Out2Rel(n) => Out2Rel(n)'
      BY <1>1, <1>a, <2>1, <3>0 DEF Out2Rel, HeldPid
    <3> QED
      BY <1>1, <1>8, <1>14, <2>3, <3>0, <3>1, <3>2, <3>3 DEF Current
  <2>4. CASE n \notin shed /\ i # None
    <3>1. Out2(n) /\ outs[n].qos = 2
      BY <1>3, <1>14, <2>1, <2>4 DEF Current
    <3>2. HeldPid(pid) /\ got[n] = 1 /\ ~Has(toPeer, "PUBREL", pid)
          /\ ~Has(toBroker, "PUBCOMP", pid) /\ ~Has(toBroker, "PUBACK", pid)
      BY <1>2, <2>1, <3>1 DEF Out2
    <3>3. Ordered(toPeer, "PUBLISH", "PUBREL", pid)
      BY <3>2, Vacuous
    <3>4. toPeer \in Seq(ToPeer) /\ ~Is(m, "PUBLISH", pid) /\ toPeer' = Append(toPeer, m)
      BY <1>1, <1>m, <2>4 DEF ChannelsOK, Is
    <3>5. Ordered(toPeer', "PUBLISH", "PUBREL", pid)
      BY <1>m, <3>3, <3>4, OrderedAppend
    <3>6. Waiting(n)'
      BY <1>6, <2>1, <2>4
    <3>7. Out2Rel(n)'
      BY <1>1, <1>a, <2>1, <3>2, <3>5, <3>6 DEF Out2Rel, HeldPid
    <3> QED
      BY <1>1, <3>1, <3>6, <3>7 DEF Current
  <2> QED
    BY <2>2, <2>3, <2>4
<1> QED
  BY <1>1, <1>8, <1>10, <1>11, <1>12, <1>13, <1>14, OutStep

LEMMA TakenRequest ==
    ASSUME ChannelsOK, toPeer # <<>>, toPeer' = Tail(toPeer), NEW type, NEW pid
    PROVE  Has(toPeer', type, pid) => Has(toPeer, type, pid)
  BY HasTail DEF ChannelsOK

LEMMA AddedAnswer ==
    ASSUME ChannelsOK, NEW a \in ToBroker, toBroker' = Append(toBroker, a), NEW type, NEW pid,
           a.type # type
    PROVE  Has(toBroker', type, pid) <=> Has(toBroker, type, pid)
<1>1. toBroker \in Seq(ToBroker) /\ ~Is(a, type, pid)
  BY DEF ChannelsOK, Is
<1> QED
  BY <1>1, HasAppend

(* A PUBLISH reaches the peer.                                             *)
LEMMA PublishFlow ==
    ASSUME TypeOK, ChannelsOK, OutTypes, OutFlows, PeerGetsPublish
    PROVE  OutFlows'
<1> PICK m : m = Head(toPeer)
  OBVIOUS
<1> PICK k, pid, a : /\ k = m.n /\ pid = m.pid
                     /\ a = Ack(IF m.qos = 1 THEN "PUBACK" ELSE "PUBREC", m.pid)
  OBVIOUS
<1> DEFINE pids == {pid}
           new == m.qos = 1 \/ ~HeldPid(pid)
           g == Once(got, k)
<1>0. HistoryOK /\ Labels /\ OneCopy
  BY DEF OutTypes
<1>1. /\ UNCHANGED <<outs, shed, reused, sending, inflight>>
      /\ toPeer # <<>> /\ m.type = "PUBLISH" /\ toPeer' = Tail(toPeer)
      /\ toBroker' = Append(toBroker, a)
      /\ IF new THEN got' = g ELSE got' = got
      /\ held' = IF new /\ m.qos = 2 THEN held \cup {[pid |-> pid, n |-> k]} ELSE held
  BY DEF PeerGetsPublish, PeerReceive, PeerSend, brokerVars, HeldPid
<1>2. m \in ToPeer /\ m = toPeer[1] /\ 1 \in 1 .. Len(toPeer)
  BY <1>1, TailElements DEF ChannelsOK
<1>3. /\ k \in 1 .. Len(outs) /\ outs[k].pid = pid /\ outs[k].qos = m.qos
      /\ k \in OutNo /\ m.qos \in QoS /\ pid \in Pid
      /\ Carries(toPeer, k) /\ Has(toPeer, "PUBLISH", pid)
  <2>1. Labelled(m, outs)
    BY <1>0, <1>1, <1>2 DEF Labels
  <2>2. Carries(toPeer, k) /\ Has(toPeer, "PUBLISH", pid)
    BY <1>1, <1>2 DEF Carries, Has, Is
  <2> QED
    BY <1>1, <1>2, <2>1, <2>2, FromBroker DEF Labelled
<1>4. /\ a \in ToBroker /\ a.pid = pid /\ a.type = IF m.qos = 1 THEN "PUBACK" ELSE "PUBREC"
  BY <1>3, Packets DEF Ack, Answers
<1>5. /\ g[k] >= 1 /\ (got[k] = 0 => g[k] = 1)
      /\ \A n \in OutNo : n # k => g[n] = got[n]
  BY <1>0, <1>3, OnceType DEF HistoryOK
<1> HIDE DEF g
<1>6. \A n \in 1 .. Len(outs) : n # k => got'[n] = got[n]
  BY <1>0, <1>1, <1>5 DEF HistoryOK
<1>7. /\ \A q : q # pid => (HeldPid(q)' <=> HeldPid(q))
      /\ HeldPid(pid)' <=> HeldPid(pid) \/ m.qos = 2
      /\ \A n : n # k => (HeldNo(n)' <=> HeldNo(n))
  <2>1. CASE new /\ m.qos = 2
    <3> PICK h : h = [pid |-> pid, n |-> k]
      OBVIOUS
    <3>1. held' = held \cup {h} /\ h.pid = pid /\ h.n = k
      BY <1>1, <2>1
    <3>2. \A q : HeldPid(q)' <=> HeldPid(q) \/ q = pid
      BY <3>1 DEF HeldPid
    <3>3. \A n : HeldNo(n)' <=> HeldNo(n) \/ n = k
      BY <3>1 DEF HeldNo
    <3> QED
      BY <2>1, <3>2, <3>3
  <2>2. CASE ~(new /\ m.qos = 2)
    <3>1. held' = held
      BY <1>1, <2>2
    <3> QED
      BY <2>2, <3>1 DEF HeldPid, HeldNo
  <2> QED
    BY <2>1, <2>2
<1>8. \A n : (Tracked(n)' <=> Tracked(n)) /\ (Waiting(n)' <=> Waiting(n))
  BY <1>1 DEF Tracked, Waiting
<1>9. /\ Touches(ToPeer, toPeer, toPeer', Requests, pids)
      /\ Touches(ToBroker, toBroker, toBroker', Answers, pids)
      /\ pid \in pids /\ \A q : q \in pids => q = pid
  BY <1>1, <1>4 DEF Touches
<1> HIDE DEF pids
<1>10. ASSUME NEW n \in 1 .. Len(outs), Gone(n)
       PROVE  ~Tracked(n)' /\ ~HeldNo(n)' /\ ~Carries(toPeer, n)' /\ got'[n] = got[n]
  <2>1. n # k /\ ~Carries(toPeer, n) /\ ~HeldNo(n) /\ ~Tracked(n)
    BY <1>3, <1>10 DEF Gone
  <2>2. ~Carries(toPeer', n)
    BY <1>1, <2>1, CarriesNext
  <2> QED
    BY <1>6, <1>7, <1>8, <2>1, <2>2
<1>11. ASSUME NEW n \in 1 .. Len(outs), outs[n].pid \notin pids
       PROVE  got'[n] = got[n]
  BY <1>3, <1>6, <1>9, <1>11
<1>a. Has(toPeer', "PUBREL", pid) => Has(toPeer, "PUBREL", pid)
  BY <1>1, TakenRequest
<1>b. /\ Has(toBroker', "PUBCOMP", pid) <=> Has(toBroker, "PUBCOMP", pid)
      /\ m.qos # 1 => (Has(toBroker', "PUBACK", pid) <=> Has(toBroker, "PUBACK", pid))
  BY <1>1, <1>4, AddedAnswer
<1>12. ASSUME NEW n \in 1 .. Len(outs), outs[n].pid \in pids, outs[n].pid \notin reused,
              Latest(n), Current(n)
       PROVE  Current(n)'
  <2>1. n = k
    BY <1>3, <1>9, <1>12, OnlyLatest
  <2>2. CASE k \in shed
    BY <1>1, <2>1, <2>2 DEF Current
  <2>3. CASE k \notin shed /\ m.qos = 1
    <3>1. Out1(k)
      BY <1>3, <1>12, <2>1, <2>3 DEF Current
    <3>2. got'[k] >= 1
      BY <1>1, <1>5, <2>3
    <3>3. ~HeldPid(pid)'
      BY <1>3, <1>7, <2>3, <3>1 DEF Out1
    <3>4. Out1(k)'
      BY <1>1, <1>3, <1>a, <1>b, <3>1, <3>2, <3>3 DEF Out1, HeldPid
    <3> QED
      BY <1>1, <1>3, <2>1, <2>3, <3>4 DEF Current
  <2>4. CASE k \notin shed /\ m.qos = 2
    <3>0. HeldPid(pid)'
      BY <1>7, <2>4
    <3>1. ASSUME Out2(k) PROVE Out2(k)'
      <4>1. got'[k] = 1
        <5>1. CASE HeldPid(pid)
          BY <1>1, <1>3, <2>4, <3>1, <5>1 DEF Out2
        <5>2. CASE ~HeldPid(pid)
          BY <1>1, <1>3, <1>5, <2>4, <3>1, <5>2 DEF Out2
        <5> QED
          BY <5>1, <5>2
      <4> QED
        BY <1>1, <1>3, <1>a, <1>b, <2>4, <3>0, <3>1, <4>1 DEF Out2, HeldPid
    <3>2. ASSUME Out2Rel(k) PROVE Out2Rel(k)'
      <4>1. HeldPid(pid) /\ got'[k] = 1
        BY <1>1, <1>3, <2>4, <3>2 DEF Out2Rel
      <4>2. Ordered(toPeer', "PUBLISH", "PUBREL", pid)
        BY <1>1, <1>3, <3>2, OrderedTail DEF ChannelsOK, Out2Rel
      <4>3. /\ ~Has(toBroker, "PUBACK", pid) /\ ~Has(toBroker, "PUBCOMP", pid) /\ Waiting(k)
        BY <1>3, <3>2, <4>1 DEF Out2Rel
      <4>4. ~Has(toBroker', "PUBACK", pid) /\ ~Has(toBroker', "PUBCOMP", pid) /\ Waiting(k)'
        BY <1>8, <1>b, <2>4, <4>3
      <4> QED
        BY <1>1, <1>3, <3>0, <4>1, <4>2, <4>4 DEF Out2Rel, HeldPid
    <3> QED
      BY <1>1, <1>3, <1>8, <1>12, <2>1, <2>4, <3>1, <3>2 DEF Current
  <2> QED
    BY <1>3, <2>2, <2>3, <2>4 DEF QoS
<1> QED
  BY <1>1, <1>7, <1>8, <1>9, <1>10, <1>11, <1>12, OutStep

(* A PUBREL reaches the peer.                                              *)
LEMMA ReleaseFlow ==
    ASSUME TypeOK, ChannelsOK, OutTypes, OutFlows, PeerGetsPubrel
    PROVE  OutFlows'
<1> PICK m : m = Head(toPeer)
  OBVIOUS
<1> PICK pid, a : pid = m.pid /\ a = Ack("PUBCOMP", m.pid)
  OBVIOUS
<1> DEFINE pids == {pid}
<1>1. /\ UNCHANGED <<outs, got, shed, reused, sending, inflight>>
      /\ toPeer # <<>> /\ m.type = "PUBREL" /\ toPeer' = Tail(toPeer)
      /\ toBroker' = Append(toBroker, a)
      /\ held' = {h \in held : h.pid # pid}
  BY DEF PeerGetsPubrel, PeerReceive, PeerSend, brokerVars, histVars
<1>2. m \in ToPeer /\ m = toPeer[1] /\ 1 \in 1 .. Len(toPeer)
  BY <1>1, TailElements DEF ChannelsOK
<1>3. pid \in Pid /\ Has(toPeer, "PUBREL", pid) /\ Is(m, "PUBREL", pid)
  <2>1. Has(toPeer, "PUBREL", pid) /\ Is(m, "PUBREL", pid)
    BY <1>1, <1>2 DEF Has, Is
  <2> QED
    BY <1>1, <1>2, <2>1, FromBroker
<1>4. a \in ToBroker /\ a.pid = pid /\ a.type = "PUBCOMP"
  BY <1>3, Packets DEF Ack, Answers
<1>7. /\ \A q : q # pid => (HeldPid(q)' <=> HeldPid(q))
      /\ ~HeldPid(pid)'
      /\ \A n : HeldNo(n)' => HeldNo(n)
  BY <1>1 DEF HeldPid, HeldNo
<1>8. \A n : (Tracked(n)' <=> Tracked(n)) /\ (Waiting(n)' <=> Waiting(n))
  BY <1>1 DEF Tracked, Waiting
<1>9. /\ Touches(ToPeer, toPeer, toPeer', Requests, pids)
      /\ Touches(ToBroker, toBroker, toBroker', Answers, pids)
      /\ pid \in pids /\ \A q : q \in pids => q = pid
  BY <1>1, <1>4 DEF Touches
<1> HIDE DEF pids
<1>10. ASSUME NEW n \in 1 .. Len(outs), Gone(n)
       PROVE  ~Tracked(n)' /\ ~HeldNo(n)' /\ ~Carries(toPeer, n)'
  <2>1. ~Carries(toPeer', n)
    BY <1>1, <1>10, CarriesNext DEF Gone
  <2> QED
    BY <1>7, <1>8, <1>10, <2>1 DEF Gone
<1>a. Has(toBroker', "PUBACK", pid) <=> Has(toBroker, "PUBACK", pid)
  BY <1>1, <1>4, AddedAnswer
<1>12. ASSUME NEW n \in 1 .. Len(outs), outs[n].pid \in pids, outs[n].pid \notin reused,
              Latest(n), Current(n)
       PROVE  Current(n)'
  <2>1. outs[n].pid = pid
    BY <1>9, <1>12
  <2>2. CASE n \in shed
    BY <1>1, <2>2 DEF Current
  <2>3. CASE n \notin shed
    <3>1. ~Out1(n) /\ ~Out2(n)
      BY <1>3, <2>1 DEF Out1, Out2
    <3>2. Out2Rel(n) /\ outs[n].qos # 1 /\ (Waiting(n) \/ ~Tracked(n))
      BY <1>12, <2>3, <3>1 DEF Current
    <3>3. /\ Ordered(toPeer', "PUBLISH", "PUBREL", pid) /\ ~Has(toPeer, "PUBLISH", pid)
      BY <1>1, <1>3, <2>1, <3>2, OrderedTail DEF ChannelsOK, Out2Rel
    <3>4. ~Has(toPeer', "PUBLISH", pid)
      BY <1>1, <3>3, TakenRequest
    <3>5. Out2Rel(n)'
      BY <1>1, <1>7, <1>a, <2>1, <3>2, <3>3, <3>4 DEF Out2Rel, HeldPid
    <3> QED
      BY <1>1, <1>8, <3>2, <3>5 DEF Current
  <2> QED
    BY <2>2, <2>3
<1> QED
  BY <1>1, <1>7, <1>8, <1>9, <1>10, <1>12, OutStep

(* A message is handed to the connection.                                  *)
LEMMA DeliverFlow ==
    ASSUME TypeOK, ChannelsOK, OutTypes, OutFlows, Deliver
    PROVE  OutFlows'
<1> PICK L, pid : L = Len(outs) + 1 /\ pid = NextPid
  OBVIOUS
<1>0. HistoryOK /\ Labels /\ OneCopy /\ HistoryOK' /\ OneCopy'
  BY DeliverCopies DEF OutTypes
<1>1. /\ UNCHANGED <<got, shed, inflight, held, toPeer, toBroker>>
      /\ reused' = IF InUse(pid) THEN reused \cup {pid} ELSE reused
  BY DEF Deliver, peerVars
<1>2. /\ Len(outs) \in Nat /\ Len(outs') = L /\ L \in 1 .. Len(outs') /\ outs'[L].pid = pid
      /\ \A n \in 1 .. Len(outs) : outs'[n] = outs[n]
      /\ \A n : Pending(n)' <=> Pending(n) \/ n = L
  BY DeliverCopies DEF Grows
<1>3. \A n : (Stored(n)' <=> Stored(n)) /\ (Waiting(n)' <=> Waiting(n))
  BY <1>1 DEF Stored, Waiting
<1>4. \A n \in 1 .. Len(outs) : Tracked(n)' <=> Tracked(n)
  <2>1. \A n \in 1 .. Len(outs) : n # L
    BY <1>2
  <2> QED
    BY <1>2, <1>3, <2>1 DEF Tracked, Pending, Stored
<1>5. \A q : (HeldPid(q)' <=> HeldPid(q)) /\ (HeldNo(q)' <=> HeldNo(q))
  BY <1>1 DEF HeldPid, HeldNo
<1> SUFFICES ASSUME NEW n \in 1 .. Len(outs'), outs'[n].pid \notin reused' PROVE OutFlow(n)'
  BY DEF OutFlows
<1>6. outs'[n].pid \notin reused
  BY <1>1
<1>7. ASSUME pid = outs'[n].pid
      PROVE  /\ \A s \in sending : s.out.pid # pid
             /\ \A i \in Inflights : inflight[i] # None => inflight[i].pid # pid
             /\ ~HeldPid(pid)
             /\ ~Has(toPeer, "PUBLISH", pid) /\ ~Has(toPeer, "PUBREL", pid)
             /\ ~Has(toBroker, "PUBACK", pid) /\ ~Has(toBroker, "PUBREC", pid)
             /\ ~Has(toBroker, "PUBCOMP", pid)
  <2>1. ~InUse(pid)
    BY <1>1, <1>7
  <2>2. DOMAIN toPeer = 1 .. Len(toPeer) /\ DOMAIN toBroker = 1 .. Len(toBroker)
    BY DEF ChannelsOK
  <2>3. /\ \A s \in sending : s.out.pid # pid
        /\ \A i \in Inflights : inflight[i] # None => inflight[i].pid # pid
        /\ ~HeldPid(pid)
    BY <2>1 DEF InUse, HeldPid
  <2>4. ~Has(toPeer, "PUBLISH", pid) /\ ~Has(toPeer, "PUBREL", pid)
    BY <2>1, <2>2 DEF InUse, Has, Is
  <2>5. ~Has(toBroker, "PUBACK", pid) /\ ~Has(toBroker, "PUBREC", pid)
        /\ ~Has(toBroker, "PUBCOMP", pid)
    BY <2>1, <2>2 DEF InUse, Has, Is
  <2> QED
    BY <2>3, <2>4, <2>5
<1>8. CASE n = L
  <2>0. pid = outs'[n].pid
    BY <1>2, <1>8
  <2>1. Latest(n)'
    BY <1>2, <1>8 DEF Latest
  <2>2. Pending(n)' /\ ~Waiting(n)' /\ Tracked(n)'
    <3>1. Pending(n)'
      BY <1>2, <1>8
    <3>2. ~Waiting(n)'
      BY <1>0, <3>1 DEF OneCopy, Waiting, Stored
    <3> QED
      BY <3>1, <3>2 DEF Pending, Tracked
  <2>3. got'[n] = 0
    <3>1. n \in OutNo /\ n > Len(outs)
      BY <1>0, <1>2, <1>8 DEF HistoryOK
    <3> QED
      BY <1>0, <1>1, <3>1 DEF HistoryOK
  <2>4. Out1(n)'
    BY <1>1, <1>5, <1>7, <2>0, <2>2 DEF Out1
  <2>5. Out2(n)'
    BY <1>1, <1>5, <1>7, <2>0, <2>3 DEF Out2
  <2> QED
    BY <2>1, <2>2, <2>4, <2>5 DEF OutFlow, Current
<1>9. CASE n # L /\ outs'[n].pid = pid
  <2>1. n \in 1 .. Len(outs) /\ outs'[n] = outs[n] /\ outs[n].pid = pid
    BY <1>2, <1>9
  <2>2. ~Latest(n)'
    <3>1. L > n /\ outs'[L].pid = outs'[n].pid /\ L \in 1 .. Len(outs')
      BY <1>2, <1>9, <2>1
    <3> QED
      BY <3>1 DEF Latest
  <2>3. ~Tracked(n)
    BY <1>0, <1>7, <2>1 DEF Tracked, Labels, Labelled
  <2>4. ~HeldNo(n)
    BY <1>0, <1>7, <2>1 DEF HeldNo, HeldPid, Labels
  <2>5. ~Carries(toPeer, n)
    BY <1>0, <1>7, <2>1 DEF Carries, Has, Is, Labels, Labelled
  <2>6. n \notin shed => got[n] >= 1 /\ (outs[n].qos = 2 => got[n] = 1)
    <3> SUFFICES ASSUME n \notin shed PROVE got[n] >= 1 /\ (outs[n].qos = 2 => got[n] = 1)
      OBVIOUS
    <3>1. OutFlow(n)
      BY <1>6, <2>1 DEF OutFlows
    <3>2. CASE Gone(n)
      BY <3>2 DEF Gone
    <3>3. CASE Current(n) /\ outs[n].qos = 1
      BY <2>3, <3>3 DEF Current, Out1
    <3>4. CASE Current(n) /\ outs[n].qos # 1
      BY <2>3, <3>4 DEF Current, Out2Rel
    <3> QED
      BY <3>1, <3>2, <3>3, <3>4 DEF OutFlow
  <2>7. Gone(n)'
    BY <1>1, <1>4, <1>5, <2>1, <2>3, <2>4, <2>5, <2>6 DEF Gone
  <2> QED
    BY <2>2, <2>7 DEF OutFlow
<1>10. CASE outs'[n].pid # pid
  <2>1. n \in 1 .. Len(outs) /\ outs'[n] = outs[n] /\ OutFlow(n)
    BY <1>2, <1>6, <1>10 DEF OutFlows
  <2>2. Latest(n)' <=> Latest(n)
    BY <1>2, <1>10, <2>1 DEF Latest
  <2>3. CASE Latest(n)
    <3> PICK q : q = outs[n].pid
      OBVIOUS
    <3>1. Same(toPeer, toPeer', Requests, q) /\ Same(toBroker, toBroker', Answers, q)
      BY <1>1, SameSelf
    <3>2. Current(n)'
      BY <1>1, <1>3, <1>4, <1>5, <2>1, <2>3, <3>1, CurrentKept DEF OutFlow
    <3> QED
      BY <2>2, <2>3, <3>2 DEF OutFlow
  <2>4. CASE ~Latest(n)
    <3>1. Gone(n)
      BY <2>1, <2>4 DEF OutFlow
    <3>2. Gone(n)'
      BY <1>1, <1>4, <1>5, <2>1, <3>1 DEF Gone
    <3> QED
      BY <2>2, <2>4, <3>2 DEF OutFlow
  <2> QED
    BY <2>3, <2>4
<1> QED
  BY <1>8, <1>9, <1>10

(* The connection of a client ends; what client_free saves stays.          *)
LEMMA ClosedFlow ==
    ASSUME TypeOK, ChannelsOK, OutTypes, OutFlows, Break, kind = "client"
    PROVE  OutFlows'
<1>1. /\ UNCHANGED <<outs, got, shed, reused, inflight, sending, held>>
      /\ toPeer' = <<>> /\ toBroker' = <<>>
  BY DEF Break, Closed, peerVars, histVars
<1>2. \A n : /\ Tracked(n)' <=> Tracked(n)
             /\ Waiting(n)' <=> Waiting(n)
             /\ HeldPid(n)' <=> HeldPid(n)
             /\ HeldNo(n)' <=> HeldNo(n)
  BY <1>1 DEF Tracked, Waiting, HeldPid, HeldNo
<1>3. \A type, pid : ~Has(toPeer', type, pid) /\ ~Has(toBroker', type, pid)
  BY <1>1 DEF Has
<1>4. \A n : ~Carries(toPeer', n)
  BY <1>1 DEF Carries
<1>5. \A pid : Ordered(toPeer', "PUBLISH", "PUBREL", pid)
  BY <1>3, Vacuous
<1> SUFFICES ASSUME NEW n \in 1 .. Len(outs), outs[n].pid \notin reused PROVE OutFlow(n)'
  BY <1>1 DEF OutFlows
<1>6. OutFlow(n) /\ (Latest(n)' <=> Latest(n))
  BY <1>1 DEF OutFlows, Latest
<1>7. Out1(n) => Out1(n)'
  BY <1>1, <1>2, <1>3 DEF Out1, HeldPid
<1>8. Out2(n) => Out2(n)'
  BY <1>1, <1>2, <1>3 DEF Out2, HeldPid
<1>9. Out2Rel(n) => Out2Rel(n)'
  BY <1>1, <1>2, <1>3, <1>5 DEF Out2Rel, HeldPid
<1>10. Current(n) => Current(n)'
  BY <1>1, <1>2, <1>7, <1>8, <1>9 DEF Current
<1>11. Gone(n) => Gone(n)'
  BY <1>1, <1>2, <1>4 DEF Gone
<1> QED
  BY <1>6, <1>10, <1>11 DEF OutFlow

(* The flows of the peer touch no packet of the other direction.           *)
LEMMA FrameFlow ==
    ASSUME TypeOK, ChannelsOK, OutTypes, OutFlows,
           UNCHANGED <<outs, got, shed, reused, sending, inflight, held>>,
           Touches(ToPeer, toPeer, toPeer', Requests, {}),
           Touches(ToBroker, toBroker, toBroker', Answers, {})
    PROVE  OutFlows'
<1> PICK pids : pids = {}
  OBVIOUS
<1>1. \A n : /\ Tracked(n)' <=> Tracked(n)
             /\ Waiting(n)' <=> Waiting(n)
             /\ HeldPid(n)' <=> HeldPid(n)
             /\ HeldNo(n)' <=> HeldNo(n)
  BY DEF Tracked, Waiting, HeldPid, HeldNo
<1>2. ASSUME NEW n \in 1 .. Len(outs), Gone(n) PROVE ~Carries(toPeer, n)'
  <2>1. \/ toPeer' = toPeer
        \/ toPeer # <<>> /\ toPeer' = Tail(toPeer)
        \/ \E m \in ToPeer : toPeer' = Append(toPeer, m) /\ m.type # "PUBLISH"
    BY DEF Touches, Requests
  <2>2. ~Carries(toPeer, n)
    BY <1>2 DEF Gone
  <2>3. ~Carries(toPeer', n)
    BY <2>1, <2>2, CarriesNext
  <2> QED
    BY <2>3
<1>3. /\ Touches(ToPeer, toPeer, toPeer', Requests, pids)
      /\ Touches(ToBroker, toBroker, toBroker', Answers, pids)
      /\ \A q : q \notin pids
  OBVIOUS
<1> QED
  BY <1>1, <1>2, <1>3, OutStep DEF Gone

LEMMA InboundFrame ==
    ASSUME TypeOK, ChannelsOK, open', 
           \/ Publish1 \/ ClientPublish2 \/ ClientPubrel \/ MeshPublish2 \/ MeshPubrel
           \/ PeerGetsPubrec \/ PeerGetsAck \/ UNCHANGED vars
           \/ \E p \in PeerPid : PeerRetry(p) \/ PeerPublish(p)
    PROVE  /\ UNCHANGED <<outs, got, shed, reused, sending, inflight, held>>
           /\ Touches(ToPeer, toPeer, toPeer', Requests, {})
           /\ Touches(ToBroker, toBroker, toBroker', Answers, {})
<1> DEFINE Frame == UNCHANGED <<outs, got, shed, reused, sending, inflight, held>>
           Goal == /\ Frame
                   /\ Touches(ToPeer, toPeer, toPeer', Requests, {})
                   /\ Touches(ToBroker, toBroker, toBroker', Answers, {})
<1>1. ASSUME NEW type \in Answers, NEW pid, pid = Head(toBroker).pid, toBroker # <<>>,
             Head(toBroker).type \in Requests,
             toPeer' = Append(toPeer, Ack(type, pid)), toBroker' = Tail(toBroker)
      PROVE  /\ Touches(ToPeer, toPeer, toPeer', Requests, {})
             /\ Touches(ToBroker, toBroker, toBroker', Answers, {})
  <2> PICK m : m = Ack(type, pid)
    OBVIOUS
  <2>1. Head(toBroker) \in ToBroker
    BY <1>1, Received
  <2>2. pid \in PeerPid
    BY <1>1, <2>1, FromPeer DEF Requests
  <2>3. m \in ToPeer /\ m.type \notin Requests
    BY <2>2, Packets DEF Ack, Requests, Answers
  <2>4. Head(toBroker).type \notin Answers
    BY <1>1 DEF Requests, Answers
  <2> QED
    BY <1>1, <2>3, <2>4 DEF Touches
<1>2. "PUBACK" \in Answers /\ "PUBREC" \in Answers /\ "PUBCOMP" \in Answers
      /\ "PUBLISH" \in Requests /\ "PUBREL" \in Requests
  BY DEF Answers, Requests
<1>3. CASE Publish1
  <2>1. Frame
    BY <1>3 DEF Publish1, brokerVars, peerVars
  <2>2. /\ toBroker # <<>> /\ Head(toBroker).type = "PUBLISH" /\ toBroker' = Tail(toBroker)
        /\ toPeer' = Append(toPeer, Ack("PUBACK", Head(toBroker).pid))
    BY <1>3 DEF Publish1, Receive
  <2> QED
    BY <1>1, <1>2, <2>1, <2>2
<1>4. CASE ClientPublish2
  <2>1. Frame
    BY <1>4 DEF ClientPublish2, peerVars
  <2>2. /\ toBroker # <<>> /\ Head(toBroker).type = "PUBLISH" /\ toBroker' = Tail(toBroker)
        /\ toPeer' = Append(toPeer, Ack("PUBREC", Head(toBroker).pid))
    BY <1>4 DEF ClientPublish2, Receive
  <2> QED
    BY <1>1, <1>2, <2>1, <2>2
<1>5. CASE ClientPubrel \/ MeshPubrel
  <2>1. Frame
    BY <1>5 DEF ClientPubrel, MeshPubrel, peerVars, histVars
  <2>2. /\ toBroker # <<>> /\ Head(toBroker).type = "PUBREL" /\ toBroker' = Tail(toBroker)
        /\ toPeer' = Append(toPeer, Ack("PUBCOMP", Head(toBroker).pid))
    BY <1>5 DEF ClientPubrel, MeshPubrel, Receive
  <2> QED
    BY <1>1, <1>2, <2>1, <2>2
<1>6. CASE MeshPublish2
  <2>0. ~Closed
    BY DEF Closed
  <2>1. Frame
    BY <1>6, <2>0 DEF MeshPublish2, peerVars, histVars
  <2>2. /\ toBroker # <<>> /\ Head(toBroker).type = "PUBLISH" /\ toBroker' = Tail(toBroker)
        /\ toPeer' = Append(toPeer, Ack("PUBREC", Head(toBroker).pid))
    BY <1>6, <2>0 DEF MeshPublish2
  <2> QED
    BY <1>1, <1>2, <2>1, <2>2
<1>7. ASSUME NEW m \in ToBroker, m.type \in Requests
      PROVE  m.type \notin Answers
  BY <1>7 DEF Requests, Answers
<1>8. CASE PeerGetsPubrec
  <2> PICK pid, m : pid = Head(toPeer).pid /\ m = Ack("PUBREL", pid)
    OBVIOUS
  <2>1. Frame
    BY <1>8 DEF PeerGetsPubrec, brokerVars, histVars
  <2>2. /\ toPeer # <<>> /\ Head(toPeer).type = "PUBREC" /\ toPeer' = Tail(toPeer)
        /\ toBroker' = toBroker \/ toBroker' = Append(toBroker, m)
    BY <1>8 DEF PeerGetsPubrec, PeerReceive, PeerSend
  <2>3. pid \in PeerPid
    <3>1. Head(toPeer) \in ToPeer
      BY <2>2, PeerReceived
    <3> QED
      BY <2>2, <3>1, FromBroker DEF Answers
  <2>4. m \in ToBroker /\ m.type \notin Answers /\ Head(toPeer).type \notin Requests
    BY <2>2, <2>3, Packets DEF Ack, Answers, Requests
  <2>5. /\ Touches(ToPeer, toPeer, toPeer', Requests, {})
        /\ Touches(ToBroker, toBroker, toBroker', Answers, {})
    BY <2>2, <2>4 DEF Touches
  <2> QED
    BY <2>1, <2>5
<1>9. CASE PeerGetsAck
  <2>1. Frame /\ toBroker' = toBroker
    BY <1>9 DEF PeerGetsAck, brokerVars
  <2>2. /\ toPeer # <<>> /\ Head(toPeer).type \notin Requests /\ toPeer' = Tail(toPeer)
    BY <1>9 DEF PeerGetsAck, PeerReceive, Requests
  <2> QED
    BY <2>1, <2>2 DEF Touches
<1>10. CASE UNCHANGED vars
  BY <1>10 DEF vars, brokerVars, peerVars, histVars, Touches
<1>11. ASSUME NEW p \in PeerPid, PeerRetry(p) \/ PeerPublish(p) PROVE Goal
  <2>1. Frame /\ toPeer' = toPeer
    BY <1>11 DEF PeerRetry, PeerPublish, brokerVars, peerVars, histVars
  <2>2. PICK m \in ToBroker : toBroker' = Append(toBroker, m) /\ m.type \notin Answers
    <3>1. CASE PeerPublish(p)
      <4> PICK m : m = Publish(p, nIn + 1, load.in[nIn + 1])
        OBVIOUS
      <4>1. nIn + 1 \in InNo /\ load.in[nIn + 1] \in QoS
        BY <3>1, LoadNumbers DEF PeerPublish, TypeOK
      <4>2. m \in ToBroker /\ m.type \notin Answers
        BY <4>1, Packets DEF Publish, Answers
      <4> QED
        BY <3>1, <4>2 DEF PeerPublish, PeerSend
    <3>2. CASE PeerRetry(p)
      <4> PICK m : m = IF flows[p].rel THEN Ack("PUBREL", p) ELSE Publish(p, flows[p].n, flows[p].qos)
        OBVIOUS
      <4>1. flows[p] \in [n : InNo, qos : QoS, rel : BOOLEAN]
        BY <3>2 DEF PeerRetry, TypeOK
      <4>2. flows[p].n \in InNo /\ flows[p].qos \in QoS
        BY <4>1
      <4>3. m \in ToBroker /\ m.type \notin Answers
        BY <4>2, Packets DEF Publish, Ack, Answers
      <4> QED
        BY <3>2, <4>3 DEF PeerRetry, PeerSend
    <3> QED
      BY <1>11, <3>1, <3>2
  <2> QED
    BY <2>1, <2>2 DEF Touches
<1> QED
  BY <1>3, <1>4, <1>5, <1>6, <1>8, <1>9, <1>10, <1>11

----------------------------------------------------------------------------
(* What the flows to the peer say of its messages.                         *)
OutTracked(n) == Tracked(n) \/ (got[n] >= 1 /\ \A h \in held : h.n # n)

FlowsTell == \A n \in Regular : (outs[n].qos = 2 => got[n] <= 1) /\ OutTracked(n)

LEMMA FlowsSay == OutTypes /\ OutFlows => FlowsTell
<1> SUFFICES ASSUME OutTypes, OutFlows, NEW n \in Regular
             PROVE  (outs[n].qos = 2 => got[n] <= 1) /\ OutTracked(n)
  BY DEF FlowsTell
<1>0. HistoryOK /\ Labels
  BY DEF OutTypes
<1>1. n \in 1 .. Len(outs) /\ n \notin shed /\ outs[n].pid \notin reused /\ n \in OutNo
  BY <1>0 DEF Regular, HistoryOK
<1>2. OutFlow(n) /\ got[n] \in 0 .. 2
  BY <1>0, <1>1 DEF OutFlows, HistoryOK
<1>3. HeldNo(n) => HeldPid(outs[n].pid)
  BY <1>0 DEF HeldNo, HeldPid, Labels
<1>4. CASE Gone(n)
  BY <1>1, <1>2, <1>4 DEF Gone, HeldNo, OutTracked
<1>5. CASE Current(n) /\ outs[n].qos = 1
  <2>1. Out1(n)
    BY <1>1, <1>5 DEF Current
  <2> QED
    BY <1>3, <1>5, <2>1 DEF Out1, HeldNo, OutTracked
<1>6. CASE Current(n) /\ outs[n].qos # 1 /\ Tracked(n)
  <2>1. Out2(n) \/ Out2Rel(n)
    BY <1>1, <1>6 DEF Current
  <2>2. got[n] <= 1
    BY <2>1 DEF Out2, Out2Rel
  <2> QED
    BY <1>6, <2>2 DEF OutTracked
<1>7. CASE Current(n) /\ outs[n].qos # 1 /\ ~Tracked(n)
  <2>1. Out2Rel(n) /\ ~Waiting(n)
    BY <1>1, <1>7, WaitingTracked DEF Current
  <2>2. got[n] = 1 /\ ~HeldPid(outs[n].pid)
    BY <2>1 DEF Out2Rel
  <2> QED
    BY <1>3, <2>2 DEF OutTracked, HeldNo
<1> QED
  BY <1>2, <1>4, <1>5, <1>6, <1>7 DEF OutFlow

(* The tables of a closed mesh client are empty, those of a client are not. *)
Remembered == open \/ kind = "client"

OInv == IInv /\ OutTypes /\ OutboundOnce /\ (Remembered => OutFlows)

LEMMA KindKept == [Next]_vars => kind' = kind
<1> SUFFICES ASSUME [Next]_vars PROVE kind' = kind
  OBVIOUS
<1>1. CASE UNCHANGED vars
  BY <1>1 DEF vars
<1>2. ASSUME NEW s \in sending, Send(s) \/ Store(s) PROVE kind' = kind
  BY <1>2 DEF Send, Store
<1>3. CASE Deliver \/ Break \/ \E i \in Inflights : Retry(i)
  BY <1>3 DEF Deliver, Break, Retry
<1>4. CASE Endpoints
  BY <1>4 DEF Endpoints, InflightAck, Pubrec, Publish1, ClientPublish2, ClientPubrel,
     MeshPublish2, MeshPubrel
<1>5. CASE Peer
  BY <1>5 DEF Peer, PeerGetsPublish, PeerGetsPubrel, PeerGetsPubrec, PeerGetsAck
<1>6. ASSUME NEW p \in PeerPid, PeerRetry(p) \/ PeerPublish(p) PROVE kind' = kind
  BY <1>6 DEF PeerRetry, PeerPublish
<1> QED
  BY <1>1, <1>2, <1>3, <1>4, <1>5, <1>6 DEF Next, Publisher

(* Only the end of the connection closes it, which a client does not do to *)
(* itself.                                                                 *)
LEMMA ClosedByBreak ==
    ASSUME ~open', kind' = "client" ,
           \/ Publish1 \/ ClientPublish2 \/ ClientPubrel \/ MeshPublish2 \/ MeshPubrel
           \/ PeerGetsPubrec \/ PeerGetsAck \/ UNCHANGED vars
           \/ \E p \in PeerPid : PeerRetry(p) \/ PeerPublish(p)
    PROVE  UNCHANGED vars
<1>1. ~Publish1 /\ ~ClientPublish2 /\ ~ClientPubrel /\ ~MeshPubrel
  BY DEF Publish1, ClientPublish2, ClientPubrel, MeshPubrel, Receive
<1>2. ~MeshPublish2
  BY DEF MeshPublish2
<1>3. ~PeerGetsPubrec /\ ~PeerGetsAck
  BY DEF PeerGetsPubrec, PeerGetsAck, PeerReceive
<1>4. \A p \in PeerPid : ~PeerRetry(p) /\ ~PeerPublish(p)
  BY DEF PeerRetry, PeerPublish
<1> QED
  BY <1>1, <1>2, <1>3, <1>4

LEMMA ClosedHistory ==
    ASSUME ~open', [Next]_vars
    PROVE  UNCHANGED <<outs, got, reused>> /\ shed \subseteq shed'
<1>1. CASE UNCHANGED vars
  BY <1>1 DEF vars, histVars
<1>2. ASSUME NEW s \in sending, Send(s) \/ Store(s)
      PROVE  UNCHANGED <<outs, got, reused>> /\ shed \subseteq shed'
  BY <1>2 DEF Send, Store, histVars
<1>3. CASE Deliver \/ Break \/ \E i \in Inflights : Retry(i)
  BY <1>3 DEF Deliver, Break, Retry, histVars
<1>4. CASE Endpoints
  BY <1>4 DEF Endpoints, InflightAck, Pubrec, Publish1, ClientPublish2, ClientPubrel,
     MeshPublish2, MeshPubrel, histVars
<1>5. CASE Peer
  BY <1>5 DEF Peer, PeerGetsPublish, PeerGetsPubrel, PeerGetsPubrec, PeerGetsAck, PeerReceive
<1>6. ASSUME NEW p \in PeerPid, PeerRetry(p) \/ PeerPublish(p)
      PROVE  UNCHANGED <<outs, got, reused>> /\ shed \subseteq shed'
  BY <1>6 DEF PeerRetry, PeerPublish
<1> QED
  BY <1>1, <1>2, <1>3, <1>4, <1>5, <1>6 DEF Next, Publisher

LEMMA InitOut == Init => OInv
<1> SUFFICES ASSUME Init PROVE OInv
  OBVIOUS
<1>1. IInv
  BY InitInv
<1>2. /\ outs = <<>> /\ got = [n \in OutNo |-> 0] /\ sending = {} /\ held = {}
      /\ inflight = [i \in Inflights |-> None] /\ Len(toPeer) = 0 /\ Len(outs) = 0
      /\ DOMAIN outs = {}
  BY DEF Init
<1>3. HistoryOK
  BY <1>2 DEF HistoryOK
<1>4. Labels /\ OneCopy
  BY <1>2 DEF Labels, OneCopy
<1>5. OutFlows /\ OutboundOnce
  BY <1>2 DEF OutFlows, OutboundOnce, Regular
<1> QED
  BY <1>1, <1>3, <1>4, <1>5 DEF OInv, OutTypes

LEMMA NextOut == OInv /\ [Next]_vars => OInv'
<1> SUFFICES ASSUME OInv, [Next]_vars PROVE OInv'
  OBVIOUS
<1>1. /\ IInv' /\ TypeOK /\ ChannelsOK /\ OutTypes /\ OutTypes' /\ OutboundOnce
      /\ Remembered => OutFlows
  BY NextInv, OutTypesNext DEF OInv, IInv
<1>2. CASE Remembered'
  <2>1. Remembered
    <3>1. kind' = kind
      BY KindKept
    <3>2. open' => open
      BY <1>1, ClosedStep DEF OInv, IInv
    <3> QED
      BY <1>2, <3>1, <3>2 DEF Remembered
  <2>2. OutFlows
    BY <1>1, <2>1
  <2>3. OutFlows'
    <3>1. CASE Deliver
      BY <1>1, <2>2, <3>1, DeliverFlow
    <3>2. ASSUME NEW s \in sending, Send(s) \/ Store(s) PROVE OutFlows'
      BY <1>1, <2>1, <2>2, <3>2, SendFlow, StoreFlow DEF Remembered
    <3>3. ASSUME NEW i \in Inflights, Retry(i) PROVE OutFlows'
      BY <1>1, <2>2, <3>3, RetryFlow
    <3>4. CASE InflightAck("PUBACK") \/ InflightAck("PUBCOMP") \/ Pubrec
      BY <1>1, <2>2, <3>4, AckFlow, PubrecFlow
    <3>5. CASE PeerGetsPublish \/ PeerGetsPubrel
      BY <1>1, <2>2, <3>5, PublishFlow, ReleaseFlow
    <3>6. CASE Break
      <4>1. kind = "client"
        BY <1>2, <3>6 DEF Remembered, Break, Closed
      <4> QED
        BY <1>1, <2>2, <3>6, <4>1, ClosedFlow
    <3>7. CASE \/ Publish1 \/ ClientPublish2 \/ ClientPubrel \/ MeshPublish2 \/ MeshPubrel
               \/ PeerGetsPubrec \/ PeerGetsAck \/ UNCHANGED vars
               \/ \E p \in PeerPid : PeerRetry(p) \/ PeerPublish(p)
      <4>1. CASE open'
        BY <1>1, <2>2, <3>7, <4>1, InboundFrame, FrameFlow
      <4>2. CASE ~open'
        <5>1. UNCHANGED vars
          BY <1>2, <3>7, <4>2, ClosedByBreak DEF Remembered
        <5>2. UNCHANGED <<outs, got, shed, reused, sending, inflight, held, toPeer, toBroker>>
          BY <5>1 DEF vars, brokerVars, peerVars, histVars
        <5> QED
          BY <1>1, <2>2, <5>2, FrameFlow DEF Touches
      <4> QED
        BY <4>1, <4>2
    <3> QED
      BY <3>1, <3>2, <3>3, <3>4, <3>5, <3>6, <3>7 DEF Next, Publisher, Endpoints, Peer
  <2>4. OutboundOnce'
    <3>1. (OutTypes /\ OutFlows => FlowsTell)'
      BY FlowsSay, PTL
    <3>2. FlowsTell'
      BY <1>1, <2>3, <3>1
    <3> QED
      BY <3>2 DEF OutboundOnce, FlowsTell
  <2> QED
    BY <1>1, <2>3, <2>4 DEF OInv
<1>3. CASE ~Remembered'
  <2>1. UNCHANGED <<outs, got, reused>> /\ shed \subseteq shed'
    BY <1>1, <1>3, ClosedHistory DEF Remembered
  <2>2. OutboundOnce'
    BY <1>1, <2>1 DEF OutboundOnce, Regular
  <2> QED
    BY <1>1, <1>3, <2>2 DEF OInv
<1> QED
  BY <1>2, <1>3

(* The invariant of the flows to the peer (client_inflight_store, _retry   *)
(* and _ack of client.c, and their mesh_inflight counterparts).            *)
THEOREM OutInvariant == Spec => []OInv
  BY InitOut, NextOut, PTL DEF Spec

(* However the acknowledgements, the retransmissions and the filling of    *)
(* the inflight table interleave, a peer that follows the protocol accepts *)
(* a QoS 2 message at most once, unless its identifier was given out while *)
(* in use or a full table shed it.                                         *)
THEOREM ExactlyOnceOut == Spec => []OutboundOnce
<1>1. OInv => OutboundOnce
  BY DEF OInv
<1> QED
  BY OutInvariant, <1>1, PTL

(* No entry of the inflight table is freed by the acknowledgement of       *)
(* another message: what the peer has not accepted, the broker still has.  *)
THEOREM NothingLost == Spec => []OutboundTracked
<1>1. OInv => OutboundTracked
  <2>1. OInv /\ Remembered => FlowsTell
    BY FlowsSay DEF OInv
  <2> QED
    BY <2>1 DEF Remembered, FlowsTell, OutTracked, OutboundTracked
<1> QED
  BY OutInvariant, <1>1, PTL
=============================================================================
