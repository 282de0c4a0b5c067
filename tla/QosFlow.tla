------------------------------ MODULE QosFlow ------------------------------
(***************************************************************************)
(* The QoS 1 and QoS 2 flows of one connection, in both directions.  The   *)
(* broker has two implementations of them: that of the client pool         *)
(* (src/src/client.c, topic.c), where each connection has a thread, and    *)
(* that of the mesh ingress (src/src/broker.c), where the broker thread    *)
(* serves all connections.  kind says which one the connection belongs to. *)
(*                                                                         *)
(* A message is delivered to the connection by the thread that publishes   *)
(* it (a client thread, the broker thread or a peer thread) in three       *)
(* steps: the packet identifier, the send, and the entry in the inflight   *)
(* table.  The thread of the connection receives packets and retransmits   *)
(* meanwhile.  Filling an inflight entry is one step here; that two        *)
(* publishers may find the same free entry is in ClientSession.            *)
(*                                                                         *)
(* The connection is a pair of FIFO channels until it breaks.  The peer is *)
(* a client that follows MQTT 3.1.1 and may retransmit.  The DUP flag,     *)
(* which nobody reads, is left out.                                        *)
(***************************************************************************)
EXTENDS Integers, FiniteSets, Sequences, TableScan

CONSTANTS
    Endpoint,        \* implementations looked at: "client", "mesh"
    INFLIGHT_MAX,    \* CLIENT_INFLIGHT_MAX, MESH_INGRESS_INFLIGHT_MAX
    QOS2_IN_MAX,     \* CLIENT_QOS2_IN_MAX, MESH_INGRESS_QOS2_IN_MAX
    PID_MAX,         \* largest packet identifier (65535)
    PeerPid,         \* identifiers the peer uses for its publishes
    Loads,           \* bounds: QoS of the messages to and from the peer, in turn
    ChanMax          \* bound: packets on the way when one is retransmitted

OutNo == UNION {DOMAIN w.out : w \in Loads}
InNo  == UNION {DOMAIN w.in : w \in Loads}
QoS   == {1, 2}
Pid   == 1 .. PID_MAX
Out   == [pid : Pid, n : OutNo, qos : QoS]
Entry == [pid : Pid, n : OutNo, qos : QoS, waiting_pubcomp : BOOLEAN]

ASSUME FlowAssumption ==
    /\ Endpoint \subseteq {"client", "mesh"}
    /\ INFLIGHT_MAX \in Nat \ {0} /\ QOS2_IN_MAX \in Nat \ {0} /\ PID_MAX \in Nat \ {0}
    /\ Loads \subseteq [out : Seq(QoS), in : Seq(QoS)]
    /\ ChanMax \in Nat \ {0}
    /\ None \notin Entry \cup [pid : PeerPid, n : InNo] \cup Nat
    /\ None \notin [n : InNo, qos : QoS, rel : BOOLEAN]

Inflights == 0 .. INFLIGHT_MAX - 1
Qos2Ins == 0 .. QOS2_IN_MAX - 1

VARIABLES
    kind, load, \* what the behaviour is about
    open,
    next_packet_id,
    sending,     \* publishes between identifier and inflight entry: [out, sent]
    inflight,
    qos2_in,     \* inbound QoS 2 publishes that wait for PUBREL: [pid, n]
    toPeer, toBroker,
    \* the peer
    held,        \* QoS 2 publishes it has received and that are not released: [pid, n]
    flows,       \* its own publishes that are not completed: [n, qos, rel]
    nIn,         \* number of its publishes
    \* history
    outs,        \* the messages to the peer, by number
    got,         \* how often the peer has accepted each of them (2: more than once)
    shed,        \* messages left out of a full inflight table, with a warning
    reused,      \* identifiers that were given out while still in use
    published,   \* how often each message of the peer was published (2: more often)
    completed,   \* messages of the peer whose flow has ended
    dropped      \* messages of the peer dropped at a full table, with a warning

brokerVars == <<next_packet_id, sending, inflight, qos2_in>>
peerVars == <<held, flows, nIn>>
histVars == <<outs, got, shed, reused, published, completed, dropped>>
vars == <<kind, load, open, brokerVars, toPeer, toBroker, peerVars, histVars>>

----------------------------------------------------------------------------
Publish(pid, n, qos) == [type |-> "PUBLISH", pid |-> pid, n |-> n, qos |-> qos]
Ack(type, pid) == [type |-> type, pid |-> pid]

Once(count, n) == [count EXCEPT ![n] = IF @ = 0 THEN 1 ELSE 2]

(* ++next_packet_id, skipping 0; ids in use are not looked at. *)
NextPid == (next_packet_id % PID_MAX) + 1

(* Something of an earlier message still carries the identifier. *)
InUse(pid) ==
    \/ \E s \in sending : s.out.pid = pid
    \/ \E i \in Inflights : inflight[i] # None /\ inflight[i].pid = pid
    \/ \E h \in held : h.pid = pid
    \/ \E i \in DOMAIN toPeer :
         toPeer[i].type \in {"PUBLISH", "PUBREL"} /\ toPeer[i].pid = pid
    \/ \E i \in DOMAIN toBroker :
         toBroker[i].type \in {"PUBACK", "PUBREC", "PUBCOMP"} /\ toBroker[i].pid = pid

InflightFree == First({i \in Inflights : inflight[i] = None})
\* Mutant: acknowledges the first entry in use.
InflightFind_First(pid) == First({i \in Inflights : inflight[i] # None})

InflightFind(pid) == First({i \in Inflights : inflight[i] # None /\ inflight[i].pid = pid})

(* The entry for which a PUBREC is due a PUBREL. *)
PubrecFind(pid) ==
    First({i \in Inflights : /\ inflight[i] # None
                             /\ inflight[i].pid = pid
                             /\ inflight[i].qos = 2
                             /\ ~inflight[i].waiting_pubcomp})

Qos2Find(pid) == First({i \in Qos2Ins : qos2_in[i] # None /\ qos2_in[i].pid = pid})
Qos2Free == First({i \in Qos2Ins : qos2_in[i] = None})

Init ==
    /\ kind \in Endpoint /\ load \in Loads
    /\ open = TRUE
    /\ next_packet_id = 0
    /\ sending = {}
    /\ inflight = [i \in Inflights |-> None]
    /\ qos2_in = [i \in Qos2Ins |-> None]
    /\ toPeer = <<>> /\ toBroker = <<>>
    /\ held = {}
    /\ flows = [p \in PeerPid |-> None]
    /\ outs = <<>> /\ nIn = 0
    /\ got = [n \in OutNo |-> 0]
    /\ published = [n \in InNo |-> 0]
    /\ shed = {} /\ reused = {} /\ completed = {} /\ dropped = {}

----------------------------------------------------------------------------
(* Messages to the peer. *)

(* add_qos_delivery_target_locked and broker_mesh_ingress_publish_remote:  *)
(* a subscription of the connection matches a publish.                     *)
Deliver ==
    LET n == Len(outs) + 1
        m == [pid |-> NextPid, n |-> n, qos |-> load.out[n]]
    IN
    /\ open
    /\ n \in DOMAIN load.out
    /\ next_packet_id' = NextPid
    /\ sending' = sending \cup {[out |-> m, sent |-> FALSE]}
    /\ outs' = Append(outs, m)
    /\ reused' = IF InUse(NextPid) THEN reused \cup {NextPid} ELSE reused
    /\ UNCHANGED <<kind, load, open, inflight, qos2_in, toPeer, toBroker, peerVars,
                   got, shed, published, completed, dropped>>

(* client_send or broker_send_all of the PUBLISH.  On a closed connection  *)
(* the mesh ingress gives up, the client pool goes on.                     *)
Send(s) ==
    /\ s \in sending /\ ~s.sent
    /\ toPeer' = IF open THEN Append(toPeer, Publish(s.out.pid, s.out.n, s.out.qos))
                 ELSE toPeer
    /\ sending' = (sending \ {s}) \cup
                  (IF open \/ kind = "client" THEN {[s EXCEPT !.sent = TRUE]} ELSE {})
    /\ UNCHANGED <<kind, load, open, next_packet_id, inflight, qos2_in, toBroker,
                   peerVars, histVars>>

(* client_inflight_store and mesh_inflight_store. *)
Store(s) ==
    /\ s \in sending /\ s.sent
    /\ sending' = sending \ {s}
    /\ IF InflightFree = None
       THEN /\ shed' = shed \cup {s.out.n}
            /\ UNCHANGED inflight
       ELSE /\ inflight' = [inflight EXCEPT ![InflightFree] =
                              [pid |-> s.out.pid, n |-> s.out.n, qos |-> s.out.qos,
                               waiting_pubcomp |-> FALSE]]
            /\ UNCHANGED shed
    /\ UNCHANGED <<kind, load, open, next_packet_id, qos2_in, toPeer, toBroker,
                   peerVars, outs, got, reused, published, completed, dropped>>

\* Mutant: retransmits nothing but PUBREL.
Retry_Pubrel(i) ==
    /\ open
    /\ Len(toPeer) + Len(toBroker) < ChanMax
    /\ inflight[i] # None /\ inflight[i].waiting_pubcomp
    /\ toPeer' = Append(toPeer, Ack("PUBREL", inflight[i].pid))
    /\ UNCHANGED <<kind, load, open, brokerVars, toBroker, peerVars, histVars>>

(* client_inflight_retry and mesh_inflight_retry, for an entry whose       *)
(* retransmission is due: the PUBLISH, or the PUBREL that replaced it.     *)
Retry(i) ==
    /\ open
    /\ Len(toPeer) + Len(toBroker) < ChanMax
    /\ inflight[i] # None
    /\ toPeer' = Append(toPeer,
                        IF inflight[i].waiting_pubcomp THEN Ack("PUBREL", inflight[i].pid)
                        ELSE Publish(inflight[i].pid, inflight[i].n, inflight[i].qos))
    /\ UNCHANGED <<kind, load, open, brokerVars, toBroker, peerVars, histVars>>

----------------------------------------------------------------------------
(* The thread of the connection receives a packet. *)

Receive(type) ==
    /\ open
    /\ toBroker # <<>>
    /\ Head(toBroker).type = type
    /\ toBroker' = Tail(toBroker)

(* client_inflight_ack and mesh_inflight_ack, for PUBACK and PUBCOMP: the  *)
(* first entry with the identifier, whatever its QoS and state.            *)
InflightAck(type) ==
    LET i == InflightFind(Head(toBroker).pid) IN
    /\ Receive(type)
    /\ inflight' = IF i = None THEN inflight ELSE [inflight EXCEPT ![i] = None]
    /\ UNCHANGED <<kind, load, open, next_packet_id, sending, qos2_in, toPeer,
                   peerVars, histVars>>

\* Mutant: the entry still stands for the PUBLISH.
Pubrec_Unmarked ==
    /\ Receive("PUBREC")
    /\ toPeer' = IF PubrecFind(Head(toBroker).pid) = None THEN toPeer
                 ELSE Append(toPeer, Ack("PUBREL", Head(toBroker).pid))
    /\ UNCHANGED <<kind, load, open, brokerVars, peerVars, histVars>>

(* PUBREC: the entry now stands for the PUBREL.  Without an entry that     *)
(* waits for it nothing is sent.                                           *)
Pubrec ==
    LET i == PubrecFind(Head(toBroker).pid) IN
    /\ Receive("PUBREC")
    /\ IF i = None THEN UNCHANGED <<inflight, toPeer>>
       ELSE /\ toPeer' = Append(toPeer, Ack("PUBREL", Head(toBroker).pid))
            /\ inflight' = [inflight EXCEPT ![i].waiting_pubcomp = TRUE]
    /\ UNCHANGED <<kind, load, open, next_packet_id, sending, qos2_in, peerVars, histVars>>

(* PUBLISH with QoS 1: topic_publish or mesh_publish_from_ingress, then    *)
(* PUBACK.                                                                 *)
Publish1 ==
    LET p == Head(toBroker) IN
    /\ Receive("PUBLISH")
    /\ p.qos = 1
    /\ published' = Once(published, p.n)
    /\ toPeer' = Append(toPeer, Ack("PUBACK", p.pid))
    /\ UNCHANGED <<kind, load, open, brokerVars, peerVars, outs, got, shed,
                   reused, completed, dropped>>

(* handle_publish with QoS 2: published at once, unless the identifier is  *)
(* known; at a full table the message is dropped.  PUBREC in any case.     *)
ClientPublish2 ==
    LET p == Head(toBroker) IN
    /\ kind = "client"
    /\ Receive("PUBLISH")
    /\ p.qos = 2
    /\ IF Qos2Find(p.pid) # None THEN UNCHANGED <<qos2_in, published, dropped>>
       ELSE IF Qos2Free = None
       THEN /\ dropped' = dropped \cup {p.n}
            /\ UNCHANGED <<qos2_in, published>>
       ELSE /\ qos2_in' = [qos2_in EXCEPT ![Qos2Free] = [pid |-> p.pid, n |-> p.n]]
            /\ published' = Once(published, p.n)
            /\ UNCHANGED dropped
    /\ toPeer' = Append(toPeer, Ack("PUBREC", p.pid))
    /\ UNCHANGED <<kind, load, open, next_packet_id, sending, inflight, peerVars,
                   outs, got, shed, reused, completed>>

\* Mutant: the identifier stays in the table.
ClientPubrel_Kept ==
    /\ kind = "client"
    /\ Receive("PUBREL")
    /\ toPeer' = Append(toPeer, Ack("PUBCOMP", Head(toBroker).pid))
    /\ UNCHANGED <<kind, load, open, brokerVars, peerVars, histVars>>

(* The PUBREL of a client frees the identifier; PUBCOMP in any case. *)
ClientPubrel ==
    LET pid == Head(toBroker).pid
        i == Qos2Find(pid)
    IN
    /\ kind = "client"
    /\ Receive("PUBREL")
    /\ qos2_in' = IF i = None THEN qos2_in ELSE [qos2_in EXCEPT ![i] = None]
    /\ toPeer' = Append(toPeer, Ack("PUBCOMP", pid))
    /\ UNCHANGED <<kind, load, open, next_packet_id, sending, inflight, peerVars, histVars>>

(* The connection ends and nothing of the channels survives; neither does, *)
(* with mesh_client_close, anything of the tables.  Those of a client are  *)
(* left to client_free.                                                    *)
Closed ==
    /\ open' = FALSE
    /\ toPeer' = <<>>
    /\ toBroker' = <<>>
    /\ IF kind = "mesh"
       THEN /\ inflight' = [i \in Inflights |-> None]
            /\ qos2_in' = [i \in Qos2Ins |-> None]
            /\ next_packet_id' = 0
       ELSE UNCHANGED <<inflight, qos2_in, next_packet_id>>

(* mesh_ingress_handle_client with QoS 2: kept until PUBREL; a full table  *)
(* closes the connection (mesh_client_close clears all of it).             *)
MeshPublish2 ==
    LET p == Head(toBroker) IN
    /\ kind = "mesh"
    /\ open
    /\ toBroker # <<>>
    /\ p.type = "PUBLISH" /\ p.qos = 2
    /\ IF Qos2Find(p.pid) = None /\ Qos2Free = None
       THEN Closed
       ELSE /\ toBroker' = Tail(toBroker)
            /\ toPeer' = Append(toPeer, Ack("PUBREC", p.pid))
            /\ qos2_in' = IF Qos2Find(p.pid) # None THEN qos2_in
                          ELSE [qos2_in EXCEPT ![Qos2Free] = [pid |-> p.pid, n |-> p.n]]
            /\ UNCHANGED <<open, next_packet_id, inflight>>
    /\ UNCHANGED <<kind, load, sending, peerVars, histVars>>

(* The PUBREL of a mesh client publishes what was kept. *)
MeshPubrel ==
    LET pid == Head(toBroker).pid
        i == Qos2Find(pid)
    IN
    /\ kind = "mesh"
    /\ Receive("PUBREL")
    /\ IF i = None THEN UNCHANGED <<qos2_in, published>>
       ELSE /\ published' = Once(published, qos2_in[i].n)
            /\ qos2_in' = [qos2_in EXCEPT ![i] = None]
    /\ toPeer' = Append(toPeer, Ack("PUBCOMP", pid))
    /\ UNCHANGED <<kind, load, open, next_packet_id, sending, inflight, peerVars,
                   outs, got, shed, reused, completed, dropped>>

(* The connection breaks, or the peer closes it. *)
Break ==
    /\ open
    /\ Closed
    /\ UNCHANGED <<kind, load, sending, peerVars, histVars>>

----------------------------------------------------------------------------
(* The peer. *)

PeerSend(p) == toBroker' = Append(toBroker, p)

PeerPublish(pid) ==
    LET n == nIn + 1 IN
    /\ open
    /\ n \in DOMAIN load.in
    /\ flows[pid] = None
    /\ nIn' = n
    /\ flows' = [flows EXCEPT ![pid] = [n |-> n, qos |-> load.in[n], rel |-> FALSE]]
    /\ PeerSend(Publish(pid, n, load.in[n]))
    /\ UNCHANGED <<kind, load, open, brokerVars, toPeer, held, histVars>>

(* Only QoS 2 packets are retransmitted within a connection: two PUBACKs   *)
(* of one identifier could not be told apart once it is used again.        *)
PeerRetry(pid) ==
    /\ open
    /\ Len(toPeer) + Len(toBroker) < ChanMax
    /\ flows[pid] # None /\ flows[pid].qos = 2
    /\ PeerSend(IF flows[pid].rel THEN Ack("PUBREL", pid)
                ELSE Publish(pid, flows[pid].n, flows[pid].qos))
    /\ UNCHANGED <<kind, load, open, brokerVars, toPeer, peerVars, histVars>>

PeerReceive(type) ==
    /\ open
    /\ toPeer # <<>>
    /\ Head(toPeer).type = type
    /\ toPeer' = Tail(toPeer)

(* A PUBLISH is accepted and acknowledged; a QoS 2 identifier is kept until *)
(* PUBREL, and known ones are not accepted again.                          *)
PeerGetsPublish ==
    LET p == Head(toPeer)
        new == p.qos = 1 \/ \A h \in held : h.pid # p.pid
    IN
    /\ PeerReceive("PUBLISH")
    /\ got' = IF new THEN Once(got, p.n) ELSE got
    /\ held' = IF new /\ p.qos = 2 THEN held \cup {[pid |-> p.pid, n |-> p.n]} ELSE held
    /\ PeerSend(Ack(IF p.qos = 1 THEN "PUBACK" ELSE "PUBREC", p.pid))
    /\ UNCHANGED <<kind, load, open, brokerVars, flows, nIn, outs, shed, reused,
                   published, completed, dropped>>

PeerGetsPubrel ==
    LET pid == Head(toPeer).pid IN
    /\ PeerReceive("PUBREL")
    /\ held' = {h \in held : h.pid # pid}
    /\ PeerSend(Ack("PUBCOMP", pid))
    /\ UNCHANGED <<kind, load, open, brokerVars, flows, nIn, histVars>>

PeerGetsPubrec ==
    LET pid == Head(toPeer).pid IN
    /\ PeerReceive("PUBREC")
    /\ IF flows[pid] # None /\ flows[pid].qos = 2
       THEN /\ flows' = [flows EXCEPT ![pid].rel = TRUE]
            /\ PeerSend(Ack("PUBREL", pid))
       ELSE UNCHANGED <<flows, toBroker>>
    /\ UNCHANGED <<kind, load, open, brokerVars, held, nIn, histVars>>

(* PUBACK or PUBCOMP ends a flow that waits for it. *)
PeerGetsAck ==
    LET p == Head(toPeer)
        f == flows[p.pid]
    IN
    /\ PeerReceive("PUBACK") \/ PeerReceive("PUBCOMP")
    /\ IF f # None /\ (IF p.type = "PUBACK" THEN f.qos = 1 ELSE f.rel)
       THEN /\ flows' = [flows EXCEPT ![p.pid] = None]
            /\ completed' = completed \cup {f.n}
       ELSE UNCHANGED <<flows, completed>>
    /\ UNCHANGED <<kind, load, open, brokerVars, toBroker, held, nIn, outs, got,
                   shed, reused, published, dropped>>

----------------------------------------------------------------------------
Publisher == \E s \in sending : Send(s) \/ Store(s)

Endpoints == \/ InflightAck("PUBACK") \/ InflightAck("PUBCOMP") \/ Pubrec
             \/ Publish1 \/ ClientPublish2 \/ ClientPubrel \/ MeshPublish2 \/ MeshPubrel

Peer == PeerGetsPublish \/ PeerGetsPubrel \/ PeerGetsPubrec \/ PeerGetsAck

Next == \/ Deliver
        \/ Publisher
        \/ Endpoints
        \/ \E i \in Inflights : Retry(i)
        \/ Break
        \/ Peer
        \/ \E p \in PeerPid : PeerRetry(p) \/ PeerPublish(p)

Spec == Init /\ [][Next]_vars

(* Publishers finish what they have begun, the thread of the connection    *)
(* receives and retransmits (CLIENT_INFLIGHT_RETRY_MS), and the peer reads *)
(* what it is sent.  Nobody has to publish, and the peer need not          *)
(* retransmit.                                                             *)
FairSpec == /\ Spec
            /\ WF_vars(Publisher)
            /\ WF_vars(Endpoints)
            /\ WF_vars(Peer)
            /\ \A i \in Inflights : WF_vars(Retry(i))

----------------------------------------------------------------------------
(* Properties. *)

(* The tables, the channels and the counters keep their types. *)
TypeOK ==
    /\ kind \in Endpoint /\ load \in Loads /\ open \in BOOLEAN
    /\ next_packet_id \in 0 .. PID_MAX
    /\ sending \subseteq [out : Out, sent : BOOLEAN]
    /\ inflight \in [Inflights -> Entry \cup {None}]
    /\ qos2_in \in [Qos2Ins -> [pid : PeerPid, n : InNo] \cup {None}]
    /\ \A i \in DOMAIN toPeer : toPeer[i].type \in {"PUBLISH", "PUBREL"} =>
                                toPeer[i].pid \in Pid
    /\ \A i \in DOMAIN toBroker : toBroker[i].type \in {"PUBLISH", "PUBREL"} =>
                                  toBroker[i].pid \in PeerPid
    /\ held \subseteq [pid : Pid, n : OutNo]
    /\ flows \in [PeerPid -> [n : InNo, qos : QoS, rel : BOOLEAN] \cup {None}]
    /\ nIn \in 0 .. Len(load.in)
    /\ shed \subseteq OutNo /\ completed \cup dropped \subseteq InNo

(* A QoS 2 message of the peer is published at most once, whatever is      *)
(* retransmitted and however identifiers are used again, and when its flow *)
(* has ended it was published, unless the full table of handle_publish     *)
(* dropped it; a QoS 1 message that is acknowledged was published.         *)
InboundOnce ==
    /\ \A n \in DOMAIN load.in : load.in[n] = 2 => published[n] <= 1
    /\ \A n \in completed : published[n] >= 1 \/ n \in dropped

(* A thread of the broker or the inflight table still has the message. *)
Tracked(n) ==
    \/ \E s \in sending : s.out.n = n
    \/ \E i \in Inflights : inflight[i] # None /\ inflight[i].n = n

(* Messages with an identifier of their own, that a full table has not     *)
(* pushed out.                                                             *)
Regular == {n \in DOMAIN outs : n \notin shed /\ outs[n].pid \notin reused}

(* A QoS 2 message is accepted at most once by a peer that follows the     *)
(* protocol: after PUBREC only PUBREL is retransmitted, also when PUBREC   *)
(* comes before the entry is stored.                                       *)
OutboundOnce == \A n \in Regular : outs[n].qos = 2 => got[n] <= 1

(* What the peer has not accepted, or has not been released from, the      *)
(* broker still tracks: no entry is freed by the acknowledgement of        *)
(* another message, early, late or repeated.  The tables of a closed       *)
(* client are what client_free saves; those of a mesh client are gone.     *)
OutboundTracked ==
    open \/ kind = "client" => \A n \in Regular :
        Tracked(n) \/ (got[n] >= 1 /\ \A h \in held : h.n # n)

(* Unless the connection ends, every inflight entry is freed in the end,   *)
(* where retransmission makes up for acknowledgements that arrive before   *)
(* the entry is stored, and every publish of the peer is completed, also   *)
(* if its identifier found no place in qos2_in.                            *)
FlowsEnd ==
    /\ \A n \in OutNo : Tracked(n) ~> ~open \/ ~Tracked(n)
    /\ \A n \in InNo : nIn >= n ~> ~open \/ n \in completed
=============================================================================
