--------------------------- MODULE ClientSession ---------------------------
(***************************************************************************)
(* Client connections and persistent sessions of the broker: the client    *)
(* pool and its threads (src/src/client.c), the session table              *)
(* (src/src/session.c) and the part of src/src/topic.c that they share,    *)
(* the subscription table and the fan-out of a publish.                    *)
(*                                                                         *)
(* Every accepted socket gets a pool slot and a thread.  pc[c] is where    *)
(* the thread of slot c is ("none": it has returned); a step is a critical *)
(* section of the code, or an access to memory that other threads use      *)
(* without a lock.  The threads share the pool (state, sock, client_id,    *)
(* inflight, next_packet_id), the table subs and the table sessions.       *)
(*                                                                         *)
(* QoS 0 and 1 are modelled; the QoS 2 handshakes and retained messages    *)
(* are not.  A message is a number, a topic and a QoS.                     *)
(***************************************************************************)
EXTENDS Integers, FiniteSets, Sequences, TableScan

CONSTANTS
    MQTT_MAX_CLIENTS,      \* slots of the client pool, and of the session table
    SESSION_QUEUE_MAX,     \* queued messages of a session
    SESSION_SUB_MAX,       \* subscriptions a session keeps
    CLIENT_INFLIGHT_MAX,   \* unacknowledged messages of a connection
    TOPIC_MAX_SUBS,        \* entries of the subscription table
    PID_MAX,               \* largest packet identifier (65535)
    ClientId,              \* non-empty client identifiers
    NoId,                  \* the empty client identifier
    Topic, Filter,         \* topic names and topic filters
    Match,                 \* topic_match, as a set of <<filter, topic>>
    Connects,              \* CONNECT packets: [id, clean, will]
    PubQoS, SubQoS,        \* QoS of the publishes and subscriptions clients ask for
    MaxConn,               \* bound: connections accepted
    MaxPub,                \* bound: publishes by clients (wills are on top)
    ConnectsOf             \* bound: accepted CONNECTs of each client identifier

Slot    == 0 .. MQTT_MAX_CLIENTS - 1
Session == 0 .. MQTT_MAX_CLIENTS - 1          \* SESSION_MAX = MQTT_MAX_CLIENTS
QueueIdx    == 0 .. SESSION_QUEUE_MAX - 1
InflightIdx == 0 .. CLIENT_INFLIGHT_MAX - 1
QoS   == 0 .. 1
MsgNo == Nat \ {0}
Msg   == [n : MsgNo, topic : Topic, qos : QoS]
Will  == [topic : Topic, qos : QoS]
Entry == [pid : 1 .. PID_MAX, msg : Msg]           \* a message with its identifier
Found == [to : Slot, at : Nat, e : Entry]          \* an entry of a table, and what is to go there
Conn  == [id : ClientId \cup {NoId}, clean : BOOLEAN, will : Will \cup {None}]

ASSUME SizesAssumption ==
    /\ MQTT_MAX_CLIENTS \in Nat \ {0}
    /\ SESSION_QUEUE_MAX \in Nat \ {0}
    /\ SESSION_SUB_MAX \in Nat \ {0}
    /\ CLIENT_INFLIGHT_MAX \in Nat \ {0}
    /\ TOPIC_MAX_SUBS \in Nat \ {0}
    /\ PID_MAX \in Nat \ {0}

ASSUME InputsAssumption ==
    /\ Match \subseteq Filter \X Topic
    /\ Connects \subseteq Conn
    /\ PubQoS \subseteq QoS
    /\ SubQoS \subseteq QoS
    /\ MaxConn \in Nat
    /\ MaxPub \in Nat
    /\ ConnectsOf \in [ClientId \cup {NoId} -> Nat]

ASSUME NamesAssumption ==
    /\ NoId \notin ClientId
    /\ None \notin Nat \cup Will \cup Conn \cup Msg \cup Entry \cup Found

VARIABLES
    \* the client pool (client_t)
    state,            \* CLIENT_STATE_FREE, _CONNECTED, _DISCONNECTING
    sock,             \* fd: "closed" (-1), "up", or "gone" when the peer has left
    client_id, clean_session, has_will,   \* has_will: the will, or None
    next_packet_id,
    inflight,         \* unacknowledged messages: None or [pid, msg]
    \* the threads
    pc,
    conn,             \* the parsed CONNECT
    sess,             \* session_t pointer: an index, or None
    idx,              \* loop counter of the restore, drain and save loops
    pub,              \* topic_publish in progress: [msg, targets, ret]
    put,              \* a free entry that was found and not yet written
    \* shared tables
    subs,             \* subscription table: set of [client, filter, qos]
    sessions,         \* session table
    \* the peers
    wire,             \* QoS 1 publishes a peer has been sent and not acknowledged
    \* history, read by the properties only
    nconn, npub, nid, \* counters: connections, messages, CONNECTs of an id
    cn,               \* number of the connection that has the slot
    fate,             \* what became of a connection's will
    durable,          \* <<id, filter>>: subscriptions of persistent sessions
    owed,             \* <<id, n, filter>>: messages durable subscribers are due
    acked,            \* <<id, n>>: acknowledged by the subscriber
    shed              \* <<id, n>>: dropped, with a warning, at a full table

poolVars == <<state, sock, client_id, clean_session, has_will,
              next_packet_id, inflight>>
threadVars == <<pc, conn, sess, idx, pub, put>>
bindVars == <<client_id, clean_session, has_will>>
histVars == <<nconn, npub, nid, cn, fate, durable, owed, acked, shed>>
vars == <<poolVars, threadVars, subs, sessions, wire, histVars>>

----------------------------------------------------------------------------
Lesser(a, b) == IF a < b THEN a ELSE b

(* The lowest FREE slot, which client_alloc claims. *)
FreeSlot == First({c \in Slot : state[c] = "FREE"})

(* client_inflight_store: the first unused entry. *)
InflightFree(c) == First({i \in InflightIdx : inflight[c][i] = None})

(* client_inflight_ack: the first entry with the identifier. *)
InflightFind(c, pid) ==
    First({i \in InflightIdx : inflight[c][i] # None /\ inflight[c][i].pid = pid})

(* Allocation of an outgoing identifier: ++next_packet_id, skipping 0. *)
NextPid(n) == (n % PID_MAX) + 1

EmptySession(used, id) ==
    [in_use |-> used, client_id |-> id, offline |-> FALSE, subs |-> <<>>,
     queue |-> [i \in QueueIdx |-> None], next_packet_id |-> 0]

SessionFind(id) ==
    First({i \in Session : sessions[i].in_use /\ sessions[i].client_id = id})

(* session_find_or_create: the session with the identifier, else the first *)
(* free entry, else NULL.                                                  *)
SessionSlot(id) ==
    IF SessionFind(id) # None THEN SessionFind(id)
    ELSE First({i \in Session : ~sessions[i].in_use})

\* Mutant: creates without having looked for the identifier.
SessionFindOrCreate_NoFind(id) ==
    LET s == First({i \in Session : ~sessions[i].in_use}) IN
    IF s = None THEN sessions
    ELSE [sessions EXCEPT ![s] = EmptySession(TRUE, id)]

SessionFindOrCreate(id) ==
    LET s == SessionSlot(id) IN
    IF s = None \/ SessionFind(id) # None THEN sessions
    ELSE [sessions EXCEPT ![s] = EmptySession(TRUE, id)]

SessionDelete(id) ==
    LET s == SessionFind(id) IN
    IF s = None THEN sessions ELSE [sessions EXCEPT ![s].in_use = FALSE]

(* session_enqueue looks for the first unused queue entry. *)
QueueFree(s) == First({i \in QueueIdx : s.queue[i] = None})

----------------------------------------------------------------------------
NoPub == [msg |-> None, targets |-> {}, ret |-> "none"]

(* client_pool_init, session_init and topic_init. *)
Init ==
    /\ state = [c \in Slot |-> "FREE"]
    /\ sock = [c \in Slot |-> "closed"]
    /\ client_id = [c \in Slot |-> NoId]
    /\ clean_session = [c \in Slot |-> FALSE]
    /\ has_will = [c \in Slot |-> None]
    /\ next_packet_id = [c \in Slot |-> 0]
    /\ inflight = [c \in Slot |-> [i \in InflightIdx |-> None]]
    /\ pc = [c \in Slot |-> "none"]
    /\ conn = [c \in Slot |-> None]
    /\ sess = [c \in Slot |-> None]
    /\ idx = [c \in Slot |-> 0]
    /\ pub = [c \in Slot |-> NoPub]
    /\ put = [c \in Slot |-> None]
    /\ subs = {}
    /\ sessions = [i \in Session |-> EmptySession(FALSE, NoId)]
    /\ wire = [c \in Slot |-> {}]
    /\ nconn = 0 /\ npub = 0
    /\ nid = [p \in ClientId \cup {NoId} |-> 0]
    /\ cn = [c \in Slot |-> 0]
    /\ fate = [n \in 1 .. MaxConn |-> "none"]
    /\ durable = {} /\ owed = {} /\ acked = {} /\ shed = {}

(* The thread of c moves to label l. *)
Goto(c, l) == pc' = [pc EXCEPT ![c] = l]

(* client_send(c, ...) of publishes P (pairs [pid, n]) or, P = {}, of a    *)
(* reply.  A closed socket fails; a peer that has left may or may not be   *)
(* noticed by send().  A failure sets the state of the slot, whatever it   *)
(* was.                                                                    *)
\* Mutant: an error gives the slot back at once.
Fails_Frees(c) == state' = [state EXCEPT ![c] = "FREE"]

Fails(c) == state' = [state EXCEPT ![c] = "DISCONNECTING"]

ClientSend(c, P) ==
    \/ /\ sock[c] = "up"
       /\ wire' = [wire EXCEPT ![c] = @ \cup P]
       /\ UNCHANGED state
    \/ /\ sock[c] = "gone"
       /\ UNCHANGED <<state, wire>>
    \/ /\ sock[c] # "up"
       /\ Fails(c)
       /\ UNCHANGED wire

----------------------------------------------------------------------------
(* Accepting a connection (client_alloc, under pool_lock). *)

Accept ==
    LET c == FreeSlot IN
    /\ nconn < MaxConn
    /\ c # None
    /\ state' = [state EXCEPT ![c] = "CONNECTED"]
    /\ sock' = [sock EXCEPT ![c] = "up"]
    /\ client_id' = [client_id EXCEPT ![c] = NoId]
    /\ clean_session' = [clean_session EXCEPT ![c] = FALSE]
    /\ has_will' = [has_will EXCEPT ![c] = None]
    /\ next_packet_id' = [next_packet_id EXCEPT ![c] = 0]
    /\ inflight' = [inflight EXCEPT ![c] = [i \in InflightIdx |-> None]]
    /\ Goto(c, "first")
    /\ wire' = [wire EXCEPT ![c] = {}]
    /\ nconn' = nconn + 1
    /\ cn' = [cn EXCEPT ![c] = nconn + 1]
    /\ UNCHANGED <<conn, sess, idx, pub, put, subs, sessions,
                   npub, nid, fate, durable, owed, acked, shed>>

(* The thread cannot be started: the slot is wiped and stays FREE. *)
AcceptFail ==
    LET c == FreeSlot IN
    /\ c # None
    /\ sock' = [sock EXCEPT ![c] = "closed"]
    /\ client_id' = [client_id EXCEPT ![c] = NoId]
    /\ clean_session' = [clean_session EXCEPT ![c] = FALSE]
    /\ has_will' = [has_will EXCEPT ![c] = None]
    /\ next_packet_id' = [next_packet_id EXCEPT ![c] = 0]
    /\ inflight' = [inflight EXCEPT ![c] = [i \in InflightIdx |-> None]]
    /\ UNCHANGED <<state, threadVars, subs, sessions, wire, histVars>>

(* The peer leaves: it closes, resets, or falls silent beyond keepalive. *)
PeerGone(c) ==
    /\ sock[c] = "up"
    /\ sock' = [sock EXCEPT ![c] = "gone"]
    /\ UNCHANGED <<state, client_id, clean_session, has_will, next_packet_id,
                   inflight, threadVars, subs, sessions, wire, histVars>>

----------------------------------------------------------------------------
(* CONNECT. *)

(* The first packet does not come, or is not a CONNECT. *)
FirstBad(c) ==
    /\ pc[c] = "first"
    /\ Goto(c, "free")
    /\ UNCHANGED <<poolVars, conn, sess, idx, pub, put, subs, sessions, wire,
                   histVars>>

(* handle_connect refuses: malformed, bad credentials, bad will, or no     *)
(* identifier and clean_session=0.  A refusal with a CONNACK may also find *)
(* the peer gone; the state becomes DISCONNECTING in any case.             *)
RejectConnect(c) ==
    /\ pc[c] = "first"
    /\ Goto(c, "loop")
    /\ Fails(c)
    /\ UNCHANGED <<sock, bindVars, next_packet_id, inflight, conn, sess, idx,
                   pub, put, subs, sessions, wire, histVars>>

ParseConnect(c, k) ==
    /\ pc[c] = "first"
    /\ k.id # NoId \/ k.clean
    /\ nid[k.id] < ConnectsOf[k.id]
    /\ conn' = [conn EXCEPT ![c] = k]
    /\ Goto(c, "takeover")
    /\ nid' = [nid EXCEPT ![k.id] = @ + 1]
    /\ UNCHANGED <<poolVars, sess, idx, pub, put, subs, sessions, wire,
                   nconn, npub, cn, fate, durable, owed, acked, shed>>

(* client_takeover, under pool_lock: other CONNECTED slots with this       *)
(* identifier are told to stop; nothing waits for them.                    *)
Kicked(c, d) ==
    /\ d # c
    /\ state[d] = "CONNECTED"
    /\ client_id[d] = conn[c].id

Takeover(c) ==
    /\ pc[c] = "takeover"
    /\ state' = [d \in Slot |-> IF Kicked(c, d) THEN "DISCONNECTING" ELSE state[d]]
    /\ Goto(c, "identify")
    /\ UNCHANGED <<sock, bindVars, next_packet_id, inflight, conn, sess, idx,
                   pub, put, subs, sessions, wire, histVars>>

Identify(c) ==
    /\ pc[c] = "identify"
    /\ client_id' = [client_id EXCEPT ![c] = conn[c].id]
    /\ clean_session' = [clean_session EXCEPT ![c] = conn[c].clean]
    /\ has_will' = [has_will EXCEPT ![c] = conn[c].will]
    /\ fate' = IF conn[c].will = None THEN fate
               ELSE [fate EXCEPT ![cn[c]] = "registered"]
    /\ Goto(c, "session")
    /\ UNCHANGED <<state, sock, next_packet_id, inflight, conn, sess, idx, pub,
                   put, subs, sessions, wire,
                   nconn, npub, nid, cn, durable, owed, acked, shed>>

(* History: durable subscriptions D are left, and what is due to them.     *)
KeepDurable(D) ==
    /\ durable' = D
    /\ owed' = {o \in owed : <<o[1], o[3]>> \in D}

(* session_delete or session_find_or_create, and the CONNACK.  Only a      *)
(* session that was found is restored.                                     *)
OpenSession(c) ==
    LET p == conn[c].id
        found == SessionFind(p)
    IN
    /\ pc[c] = "session"
    /\ ClientSend(c, {})
    /\ IF conn[c].clean
       THEN /\ sessions' = SessionDelete(p)
            /\ sess' = [sess EXCEPT ![c] = None]
            /\ Goto(c, "loop")
            /\ KeepDurable({d \in durable : d[1] # p})
       ELSE /\ sessions' = SessionFindOrCreate(p)
            /\ sess' = [sess EXCEPT ![c] = found]
            /\ Goto(c, IF found = None THEN "loop" ELSE "restore")
            /\ UNCHANGED <<durable, owed>>
    /\ idx' = [idx EXCEPT ![c] = 0]
    /\ UNCHANGED <<sock, bindVars, next_packet_id, inflight, conn, pub, put,
                   subs, nconn, npub, nid, cn, fate, acked, shed>>

(* topic_subscribe, under topic_lock: replaces the QoS of an existing      *)
(* entry, else takes a free entry, else fails.                             *)
TopicSubscribe(c, f, q) ==
    LET same == {s \in subs : s.client = c /\ s.filter = f}
        new  == [client |-> c, filter |-> f, qos |-> q]
    IN IF same # {} \/ Cardinality(subs) < TOPIC_MAX_SUBS
       THEN (subs \ same) \cup {new}
       ELSE subs

(* The restore loop reads the session without a lock. *)
RestoreSub(c) ==
    LET saved == sessions[sess[c]].subs IN
    /\ pc[c] = "restore"
    /\ idx[c] < Len(saved)
    /\ subs' = TopicSubscribe(c, saved[idx[c] + 1].filter, saved[idx[c] + 1].qos)
    /\ idx' = [idx EXCEPT ![c] = @ + 1]
    /\ UNCHANGED <<poolVars, pc, conn, sess, pub, put, sessions, wire, histVars>>

RestoreEnd(c) ==
    /\ pc[c] = "restore"
    /\ idx[c] >= Len(sessions[sess[c]].subs)
    /\ Goto(c, "online")
    /\ UNCHANGED <<poolVars, conn, sess, idx, pub, put, subs, sessions, wire,
                   histVars>>

Online(c) ==
    /\ pc[c] = "online"
    /\ sessions' = [sessions EXCEPT ![sess[c]].offline = FALSE]
    /\ idx' = [idx EXCEPT ![c] = 0]
    /\ Goto(c, "drain")
    /\ UNCHANGED <<poolVars, conn, sess, pub, put, subs, wire, histVars>>

\* Mutant: a drained message is not stored as inflight.
Drain_NoStore(c) ==
    LET i == idx[c]
        e == sessions[sess[c]].queue[i]
    IN
    /\ pc[c] = "drain"
    /\ idx' = [idx EXCEPT ![c] = @ + 1]
    /\ Goto(c, IF i + 1 = SESSION_QUEUE_MAX THEN "loop" ELSE "drain")
    /\ IF e = None
       THEN UNCHANGED <<state, wire, sessions>>
       ELSE /\ ClientSend(c, {[pid |-> e.pid, n |-> e.msg.n]})
            /\ sessions' = [sessions EXCEPT ![sess[c]].queue[i] = None]
    /\ UNCHANGED <<sock, bindVars, next_packet_id, inflight, conn, sess, pub,
                   put, subs, histVars>>

(* One round of session_drain: send, store as inflight, free the entry.    *)
(* The message keeps the identifier it was queued with.                    *)
Drain(c) ==
    LET i == idx[c]
        e == sessions[sess[c]].queue[i]
        j == InflightFree(c)
    IN
    /\ pc[c] = "drain"
    /\ idx' = [idx EXCEPT ![c] = @ + 1]
    /\ Goto(c, IF i + 1 = SESSION_QUEUE_MAX THEN "loop" ELSE "drain")
    /\ IF e = None
       THEN UNCHANGED <<state, wire, inflight, sessions, shed>>
       ELSE /\ ClientSend(c, {[pid |-> e.pid, n |-> e.msg.n]})
            /\ sessions' = [sessions EXCEPT ![sess[c]].queue[i] = None]
            /\ IF j = None
               THEN /\ shed' = shed \cup {<<client_id[c], e.msg.n>>}
                    /\ UNCHANGED inflight
               ELSE /\ inflight' = [inflight EXCEPT ![c][j] = e]
                    /\ UNCHANGED shed
    /\ UNCHANGED <<sock, bindVars, next_packet_id, conn, sess, pub, put, subs,
                   nconn, npub, nid, cn, fate, durable, owed, acked>>

----------------------------------------------------------------------------
(* topic_publish. *)

Matching(t) == {s \in subs : <<s.filter, t>> \in Match}

(* What a publish adds to the history: who is due the message. *)
Due(m) ==
    IF m.qos = 0 THEN {}
    ELSE {<<d[1], m.n, d[2]>> : d \in {e \in durable : <<e[2], m.topic>> \in Match}}

(* Fan-out, under topic_lock: one target for each client with a matching   *)
(* subscription (which of several it is depends on the table's order), and *)
(* a packet identifier for each target above QoS 0.                        *)
Fanout(c, m, ret) ==
    \E pick \in [{s.client : s \in Matching(m.topic)} -> Matching(m.topic)] :
        LET qos(d) == Lesser(m.qos, pick[d].qos)
            pid(d) == IF qos(d) = 0 THEN 0 ELSE NextPid(next_packet_id[d])
        IN
        /\ \A d \in DOMAIN pick : pick[d].client = d
        /\ pub' = [pub EXCEPT ![c] =
                     [msg |-> m, ret |-> ret,
                      targets |-> {[client |-> d, qos |-> qos(d), pid |-> pid(d)] :
                                     d \in DOMAIN pick}]]
        /\ next_packet_id' =
             [d \in Slot |-> IF d \in DOMAIN pick /\ qos(d) > 0
                             THEN pid(d) ELSE next_packet_id[d]]
        /\ owed' = owed \cup Due(m)

(* handle_publish. *)
Publish(c, t, q) ==
    /\ pc[c] = "loop"
    /\ state[c] = "CONNECTED"
    /\ npub < MaxPub
    /\ Fanout(c, [n |-> npub + 1, topic |-> t, qos |-> q], "loop")
    /\ npub' = npub + 1
    /\ Goto(c, "send")
    /\ UNCHANGED <<state, sock, bindVars, inflight, conn, sess, idx, put, subs,
                   sessions, wire, nconn, nid, cn, fate, durable, acked, shed>>

(* One target, after topic_lock is released: the send, and the search of   *)
(* client_inflight_store for a free entry of the target.                   *)
SendOne(c) ==
    \E t \in pub[c].targets :
        LET j == InflightFree(t.client)
            m == pub[c].msg
        IN
        /\ pc[c] = "send"
        /\ put[c] = None
        /\ ClientSend(t.client,
                      IF t.qos = 0 THEN {} ELSE {[pid |-> t.pid, n |-> m.n]})
        /\ pub' = [pub EXCEPT ![c].targets = @ \ {t}]
        /\ IF t.qos > 0 /\ j = None
           THEN shed' = shed \cup {<<client_id[t.client], m.n>>}
           ELSE UNCHANGED shed
        /\ IF t.qos > 0 /\ j # None
           THEN put' = [put EXCEPT ![c] =
                          [to |-> t.client, at |-> j, e |-> [pid |-> t.pid, msg |-> m]]]
           ELSE UNCHANGED put
        /\ UNCHANGED <<sock, bindVars, next_packet_id, inflight, pc, conn, sess,
                       idx, subs, sessions, nconn, npub, nid, cn, fate, durable,
                       owed, acked>>

(* client_inflight_store fills the entry it found; no lock is held. *)
StoreOne(c) ==
    /\ pc[c] = "send"
    /\ put[c] # None
    /\ inflight' = [inflight EXCEPT ![put[c].to][put[c].at] = put[c].e]
    /\ put' = [put EXCEPT ![c] = None]
    /\ UNCHANGED <<state, sock, bindVars, next_packet_id, pc, conn, sess, idx,
                   pub, subs, sessions, wire, histVars>>

(* session_offline_publish for one session: the first matching filter      *)
(* decides the QoS; the session's own counter gives the identifier.        *)
OfflineMatch(s, m) ==
    First({j \in DOMAIN s.subs : <<s.subs[j].filter, m.topic>> \in Match})

Queues(s, m) ==
    /\ s.in_use
    /\ s.offline
    /\ OfflineMatch(s, m) # None
    /\ Lesser(m.qos, s.subs[OfflineMatch(s, m)].qos) > 0

\* Mutant: does not skip identifier 0.
QueuePid_Zero(s) == s.next_packet_id

QueuePid(s) == IF s.next_packet_id = 0 THEN 1 ELSE s.next_packet_id

Queued(s, m) ==
    LET i == QueueFree(s)
        counted == [s EXCEPT !.next_packet_id = (QueuePid(s) + 1) % (PID_MAX + 1)]
    IN IF i = None THEN counted
       ELSE [counted EXCEPT !.queue[i] = [pid |-> QueuePid(s), msg |-> m]]

(* session_offline_publish, under session_lock, then the PUBACK of         *)
(* handle_publish or the return into client_free.                          *)
OfflinePublish(c) ==
    LET m == pub[c].msg IN
    /\ pc[c] = "send"
    /\ pub[c].targets = {}
    /\ put[c] = None
    /\ sessions' = [i \in Session |-> IF Queues(sessions[i], m)
                                      THEN Queued(sessions[i], m)
                                      ELSE sessions[i]]
    /\ shed' = shed \cup
         {<<sessions[i].client_id, m.n>> :
            i \in {k \in Session : /\ Queues(sessions[k], m)
                                   /\ QueueFree(sessions[k]) = None}}
    /\ IF pub[c].ret = "loop" /\ m.qos > 0
       THEN ClientSend(c, {})
       ELSE UNCHANGED <<state, wire>>
    /\ Goto(c, pub[c].ret)
    /\ pub' = [pub EXCEPT ![c] = NoPub]
    /\ UNCHANGED <<sock, bindVars, next_packet_id, inflight, conn, sess, idx,
                   put, subs, nconn, npub, nid, cn, fate, durable, owed, acked>>

----------------------------------------------------------------------------
(* The packet loop of client_thread_fn. *)

InLoop(c) == pc[c] = "loop" /\ state[c] = "CONNECTED"

(* handle_subscribe, one filter: topic_subscribe and the SUBACK. *)
Subscribe(c, f, q) ==
    /\ InLoop(c)
    /\ subs' = TopicSubscribe(c, f, q)
    /\ ClientSend(c, {})
    /\ KeepDurable(IF [client |-> c, filter |-> f, qos |-> 1] \in subs'
                      /\ ~clean_session[c]
                   THEN durable \cup {<<client_id[c], f>>}
                   ELSE durable \ {<<client_id[c], f>>})
    /\ UNCHANGED <<sock, bindVars, next_packet_id, inflight, threadVars, sessions,
                   nconn, npub, nid, cn, fate, acked, shed>>

TopicUnsubscribe(c, f) == {s \in subs : ~(s.client = c /\ s.filter = f)}

(* handle_unsubscribe, one filter, and the UNSUBACK. *)
Unsubscribe(c, f) ==
    /\ InLoop(c)
    /\ subs' = TopicUnsubscribe(c, f)
    /\ ClientSend(c, {})
    /\ KeepDurable(durable \ {<<client_id[c], f>>})
    /\ UNCHANGED <<sock, bindVars, next_packet_id, inflight, threadVars, sessions,
                   nconn, npub, nid, cn, fate, acked, shed>>

(* PUBACK: the peer acknowledges a publish it was sent; client_inflight_ack *)
(* frees the first entry with that identifier.                             *)
PubAck(c, w) ==
    LET i == InflightFind(c, w.pid) IN
    /\ InLoop(c)
    /\ w \in wire[c]
    /\ wire' = [wire EXCEPT ![c] = @ \ {w}]
    /\ inflight' = IF i = None THEN inflight ELSE [inflight EXCEPT ![c][i] = None]
    /\ acked' = acked \cup {<<client_id[c], w.n>>}
    /\ UNCHANGED <<state, sock, bindVars, next_packet_id, threadVars, subs,
                   sessions, nconn, npub, nid, cn, fate, durable, owed, shed>>

(* client_inflight_retry, on a receive timeout. *)
Retry(c) ==
    LET due == {inflight[c][i] : i \in InflightIdx} \ {None} IN
    /\ InLoop(c)
    /\ due # {}
    /\ ClientSend(c, {[pid |-> e.pid, n |-> e.msg.n] : e \in due})
    /\ UNCHANGED <<sock, bindVars, next_packet_id, inflight, threadVars, subs,
                   sessions, histVars>>

\* Mutant: DISCONNECT keeps the will.
Disconnect_KeepsWill(c) ==
    /\ InLoop(c)
    /\ Fails(c)
    /\ fate' = IF has_will[c] = None THEN fate
               ELSE [fate EXCEPT ![cn[c]] = "withdrawn"]
    /\ UNCHANGED <<sock, bindVars, next_packet_id, inflight,
                   threadVars, subs, sessions, wire, nconn, npub, nid, cn,
                   durable, owed, acked, shed>>

(* handle_pingreq. *)
Ping(c) ==
    /\ InLoop(c)
    /\ ClientSend(c, {})
    /\ UNCHANGED <<sock, bindVars, next_packet_id, inflight, threadVars, subs,
                   sessions, histVars>>

(* handle_disconnect. *)
Disconnect(c) ==
    /\ InLoop(c)
    /\ has_will' = [has_will EXCEPT ![c] = None]
    /\ Fails(c)
    /\ fate' = IF has_will[c] = None THEN fate
               ELSE [fate EXCEPT ![cn[c]] = "withdrawn"]
    /\ UNCHANGED <<sock, client_id, clean_session, next_packet_id, inflight,
                   threadVars, subs, sessions, wire, nconn, npub, nid, cn,
                   durable, owed, acked, shed>>

(* A protocol error: reserved type or flags, bad length, identifier 0,     *)
(* second CONNECT, QoS 3, invalid topic or filter.                         *)
ProtocolError(c) ==
    /\ InLoop(c)
    /\ Fails(c)
    /\ UNCHANGED <<sock, bindVars, next_packet_id, inflight, threadVars, subs,
                   sessions, wire, histVars>>

(* A receive error or the keepalive limit leaves the loop and the state as *)
(* it is.                                                                  *)
RecvError(c) ==
    /\ InLoop(c)
    /\ sock[c] = "gone"
    /\ Goto(c, "free")
    /\ UNCHANGED <<poolVars, conn, sess, idx, pub, put, subs, sessions, wire,
                   histVars>>

\* Mutant: the loop runs until the slot is free.
LoopExit_WhenFree(c) ==
    /\ pc[c] = "loop"
    /\ state[c] = "FREE"
    /\ Goto(c, "free")
    /\ UNCHANGED <<poolVars, conn, sess, idx, pub, put, subs, sessions, wire,
                   histVars>>

(* The loop notices, at a packet or a receive timeout, that the state has  *)
(* changed.                                                                *)
LoopExit(c) ==
    /\ pc[c] = "loop"
    /\ state[c] # "CONNECTED"
    /\ Goto(c, "free")
    /\ UNCHANGED <<poolVars, conn, sess, idx, pub, put, subs, sessions, wire,
                   histVars>>

----------------------------------------------------------------------------
(* client_free. *)

AfterWill(c) == IF clean_session[c] THEN "unsub" ELSE "persist"

\* Mutant: the will is forgotten.
FreeClose_NoWill(c) ==
    /\ pc[c] = "free"
    /\ sock' = [sock EXCEPT ![c] = "closed"]
    /\ wire' = [wire EXCEPT ![c] = {}]
    /\ Goto(c, AfterWill(c))
    /\ UNCHANGED <<state, bindVars, next_packet_id, inflight, conn, sess, idx,
                   pub, put, subs, sessions, histVars>>

FreeClose(c) ==
    /\ pc[c] = "free"
    /\ sock' = [sock EXCEPT ![c] = "closed"]
    /\ wire' = [wire EXCEPT ![c] = {}]
    /\ Goto(c, IF has_will[c] # None THEN "will" ELSE AfterWill(c))
    /\ UNCHANGED <<state, bindVars, next_packet_id, inflight, conn, sess, idx,
                   pub, put, subs, sessions, histVars>>

PublishWill(c) ==
    LET w == has_will[c] IN
    /\ pc[c] = "will"
    /\ Fanout(c, [n |-> npub + 1, topic |-> w.topic, qos |-> w.qos], AfterWill(c))
    /\ npub' = npub + 1
    /\ has_will' = [has_will EXCEPT ![c] = None]
    /\ fate' = [fate EXCEPT ![cn[c]] = IF @ = "registered" THEN "published"
                                       ELSE "wrong"]
    /\ Goto(c, "send")
    /\ UNCHANGED <<state, sock, client_id, clean_session, inflight, conn, sess,
                   idx, put, subs, sessions, wire,
                   nconn, nid, cn, durable, acked, shed>>

(* session_find_or_create for a persistent client; NULL when the table is  *)
(* full, and then nothing is saved.                                        *)
Persist(c) ==
    LET s == SessionSlot(client_id[c]) IN
    /\ pc[c] = "persist"
    /\ sessions' = SessionFindOrCreate(client_id[c])
    /\ sess' = [sess EXCEPT ![c] = s]
    /\ Goto(c, IF s = None THEN "unsub" ELSE "save")
    /\ KeepDurable(IF s = None THEN {d \in durable : d[1] # client_id[c]}
                   ELSE durable)
    /\ UNCHANGED <<poolVars, conn, idx, pub, put, subs, wire,
                   nconn, npub, nid, cn, fate, acked, shed>>

(* topic_get_client_subs: the client's entries in table order, at most     *)
(* SESSION_SUB_MAX.                                                        *)
ClientSubs(c) ==
    LET mine == {[filter |-> s.filter, qos |-> s.qos] :
                   s \in {t \in subs : t.client = c}}
        n == Lesser(Cardinality(mine), SESSION_SUB_MAX)
    IN {q \in [1 .. n -> mine] : \A i, j \in 1 .. n : q[i] = q[j] => i = j}

(* session_save_subs, without a lock. *)
SaveSubs(c) ==
    /\ pc[c] = "save"
    /\ \E saved \in ClientSubs(c) :
         /\ sessions' = [sessions EXCEPT ![sess[c]].subs = saved,
                                         ![sess[c]].offline = TRUE]
         /\ KeepDurable({d \in durable :
                           \/ d[1] # client_id[c]
                           \/ \E i \in DOMAIN saved : saved[i].filter = d[2]})
    /\ idx' = [idx EXCEPT ![c] = 0]
    /\ Goto(c, "inflights")
    /\ UNCHANGED <<poolVars, conn, sess, pub, put, subs, wire,
                   nconn, npub, nid, cn, fate, acked, shed>>

(* One inflight entry of client_free: session_enqueue looks for a free     *)
(* queue entry, then fills it; session_lock is not held.                   *)
SavePick(c) ==
    LET e == inflight[c][idx[c]]
        j == QueueFree(sessions[sess[c]])
    IN
    /\ pc[c] = "inflights"
    /\ put[c] = None
    /\ idx[c] < CLIENT_INFLIGHT_MAX
    /\ IF e # None /\ j # None
       THEN put' = [put EXCEPT ![c] = [to |-> sess[c], at |-> j, e |-> e]]
       ELSE UNCHANGED put
    /\ IF e # None /\ j = None
       THEN shed' = shed \cup {<<client_id[c], e.msg.n>>}
       ELSE UNCHANGED shed
    /\ idx' = [idx EXCEPT ![c] = @ + 1]
    /\ UNCHANGED <<poolVars, pc, conn, sess, pub, subs, sessions, wire,
                   nconn, npub, nid, cn, fate, durable, owed, acked>>

SaveWrite(c) ==
    /\ pc[c] = "inflights"
    /\ put[c] # None
    /\ sessions' = [sessions EXCEPT ![put[c].to].queue[put[c].at] = put[c].e]
    /\ put' = [put EXCEPT ![c] = None]
    /\ UNCHANGED <<poolVars, pc, conn, sess, idx, pub, subs, wire, histVars>>

SaveEnd(c) ==
    /\ pc[c] = "inflights"
    /\ put[c] = None
    /\ idx[c] = CLIENT_INFLIGHT_MAX
    /\ Goto(c, "unsub")
    /\ UNCHANGED <<poolVars, conn, sess, idx, pub, put, subs, sessions, wire,
                   histVars>>

\* Mutant: a persistent client keeps its table entries.
TopicUnsubscribeAll_Clean(c) == {s \in subs : s.client # c \/ ~clean_session[c]}

TopicUnsubscribeAll(c) == {s \in subs : s.client # c}

UnsubAll(c) ==
    /\ pc[c] = "unsub"
    /\ subs' = TopicUnsubscribeAll(c)
    /\ Goto(c, IF clean_session[c] THEN "forget" ELSE "release")
    /\ UNCHANGED <<poolVars, conn, sess, idx, pub, put, sessions, wire, histVars>>

DeleteSession(c) ==
    /\ pc[c] = "forget"
    /\ sessions' = SessionDelete(client_id[c])
    /\ Goto(c, "release")
    /\ UNCHANGED <<poolVars, conn, sess, idx, pub, put, subs, wire, histVars>>

(* state = FREE, without pool_lock; the thread returns and its locals end. *)
Release(c) ==
    /\ pc[c] = "release"
    /\ state' = [state EXCEPT ![c] = "FREE"]
    /\ Goto(c, "none")
    /\ conn' = [conn EXCEPT ![c] = None]
    /\ sess' = [sess EXCEPT ![c] = None]
    /\ idx' = [idx EXCEPT ![c] = 0]
    /\ UNCHANGED <<sock, bindVars, next_packet_id, inflight, pub, put, subs,
                   sessions, wire, histVars>>

----------------------------------------------------------------------------
(* What a thread does by itself, and what its peer makes it do. *)

Connecting(c) == \/ FirstBad(c) \/ RejectConnect(c)
                 \/ \E k \in Connects : ParseConnect(c, k)

Opening(c) == \/ Takeover(c) \/ Identify(c) \/ OpenSession(c)
              \/ RestoreSub(c) \/ RestoreEnd(c) \/ Online(c) \/ Drain(c)

Publishing(c) == SendOne(c) \/ StoreOne(c) \/ OfflinePublish(c)

Freeing(c) == \/ FreeClose(c) \/ PublishWill(c) \/ Persist(c) \/ SaveSubs(c)
              \/ SavePick(c) \/ SaveWrite(c) \/ SaveEnd(c)
              \/ UnsubAll(c) \/ DeleteSession(c) \/ Release(c)

Leaving(c) == RecvError(c) \/ LoopExit(c)

Handling(c) ==
    \/ \E t \in Topic, q \in PubQoS : Publish(c, t, q)
    \/ \E f \in Filter, q \in SubQoS : Subscribe(c, f, q)
    \/ \E f \in Filter : Unsubscribe(c, f)
    \/ \E w \in wire[c] : PubAck(c, w)
    \/ Retry(c) \/ Ping(c) \/ Disconnect(c) \/ ProtocolError(c)

Thread(c) == \/ Connecting(c) \/ Opening(c) \/ Publishing(c) \/ Freeing(c)
             \/ Leaving(c) \/ Handling(c)

Next == Accept \/ AcceptFail \/ \E c \in Slot : PeerGone(c) \/ Thread(c)

Spec == Init /\ [][Next]_vars

(* A thread does not stop between two statements, a receive ends within    *)
(* SO_RCVTIMEO, and the first packet is awaited for ten seconds.           *)
Fairness ==
    \A c \in Slot : /\ WF_vars(Connecting(c))
                    /\ WF_vars(Opening(c) \/ Publishing(c) \/ Freeing(c))
                    /\ WF_vars(Leaving(c))

FairSpec == Spec /\ Fairness

----------------------------------------------------------------------------
(* An environment in which messages are not lost (README, section 7). *)

(* While a CONNECT is served no publish is in progress, and the previous   *)
(* connection of the client has ended.                                     *)
Quiet ==
    \A c \in Slot :
        pc[c] \in {"takeover", "identify", "session", "restore", "online"} =>
            \A d \in Slot \ {c} :
                /\ pub[d].msg = None
                /\ client_id[d] = conn[c].id => pc[d] = "none"

(* The entry that was free when the thread of c found it. *)
PutEntry(c) == IF pc[c] = "send" THEN inflight[put[c].to][put[c].at]
               ELSE sessions[put[c].to].queue[put[c].at]

(* Another thread has filled it since. *)
Overwrites == \E c \in Slot : put[c] # None /\ put'[c] = None /\ PutEntry(c) # None

(* An acknowledgement ends a message with the same identifier. *)
AcksOther ==
    \E c \in Slot, i \in InflightIdx :
        /\ InLoop(c)
        /\ inflight[c][i] # None /\ inflight'[c][i] = None
        /\ <<client_id[c], inflight[c][i].msg.n>> \notin acked'

(* The subscription table has no room for a saved subscription. *)
RestoreRefused ==
    \E c \in Slot :
        /\ pc[c] = "restore" /\ idx'[c] = idx[c] + 1
        /\ \A s \in subs' : s.client = c => s.filter # sessions[sess[c]].subs[idx[c] + 1].filter

(* A thread still has the session that is deleted. *)
DeletesUsed ==
    \E c \in Slot, i \in Session :
        /\ pc[c] \in {"save", "inflights"} /\ sess[c] = i
        /\ sessions[i].in_use /\ ~sessions'[i].in_use

Undisturbed == Quiet' /\ ~(Overwrites \/ AcksOther \/ RestoreRefused \/ DeletesUsed)

UndisturbedSpec == Init /\ [][Next /\ Undisturbed]_vars

(* No two filters match one topic, or subscriptions are of QoS 1 only. *)
PlainFilters ==
    \A g, h \in Filter, t \in Topic :
        <<g, t>> \in Match /\ <<h, t>> \in Match => g = h \/ SubQoS \subseteq {1}

----------------------------------------------------------------------------
(* Properties. *)

Label == {"none", "first", "takeover", "identify", "session", "restore",
          "online", "drain", "loop", "send", "free", "will", "persist", "save",
          "inflights", "unsub", "forget", "release"}

Saved   == [filter : Filter, qos : QoS]
Target  == {t \in [client : Slot, qos : QoS, pid : 0 .. PID_MAX] :
               t.qos > 0 => t.pid > 0}

SessionRec ==
    [in_use : BOOLEAN, client_id : ClientId \cup {NoId}, offline : BOOLEAN,
     subs : Seq(Saved), queue : [QueueIdx -> Entry \cup {None}],
     next_packet_id : 0 .. PID_MAX]

(* Every variable of the pool, of the threads and of the two tables has    *)
(* its type: no step of a thread writes outside the fixed arrays.          *)
TypeOK ==
    /\ state \in [Slot -> {"FREE", "CONNECTED", "DISCONNECTING"}]
    /\ sock \in [Slot -> {"closed", "up", "gone"}]
    /\ client_id \in [Slot -> ClientId \cup {NoId}]
    /\ clean_session \in [Slot -> BOOLEAN]
    /\ has_will \in [Slot -> Will \cup {None}]
    /\ next_packet_id \in [Slot -> 0 .. PID_MAX]
    /\ inflight \in [Slot -> [InflightIdx -> Entry \cup {None}]]
    /\ pc \in [Slot -> Label]
    /\ conn \in [Slot -> Conn \cup {None}]
    /\ sess \in [Slot -> Session \cup {None}]
    /\ idx \in [Slot -> Nat]
    /\ pub \in [Slot -> [msg : Msg \cup {None}, targets : SUBSET Target,
                         ret : {"none", "loop", "persist", "unsub"}]]
    /\ put \in [Slot -> Found \cup {None}]
    /\ subs \in SUBSET [client : Slot, filter : Filter, qos : QoS]
    /\ IsFiniteSet(subs)
    /\ sessions \in [Session -> SessionRec]
    /\ npub \in Nat

(* A slot that a thread still runs on is never FREE, so client_alloc never *)
(* hands it to a second connection: no other thread's client_send,         *)
(* client_takeover or client_free may set it FREE under it.                *)
ThreadOwnsSlot == \A c \in Slot : pc[c] # "none" => state[c] # "FREE"

(* While a thread has entries in the subscription table. *)
MaySubscribe == {"restore", "online", "drain", "loop", "send", "free", "will",
                 "persist", "save", "inflights", "unsub"}

(* The subscription table never names a slot whose thread has left         *)
(* topic_unsubscribe_all behind: a connection leaves no dangling           *)
(* client_t pointer for the next fan-out, and the next connection in the   *)
(* slot inherits no subscription.                                          *)
SubsHaveThread == \A s \in subs : pc[s.client] \in MaySubscribe

(* Two sessions in use never share a client identifier, however CONNECTs,  *)
(* takeovers and disconnects of one identifier interleave: find and create *)
(* happen under one hold of session_lock.                                  *)
SessionKeysUnique ==
    \A i, j \in Session :
        /\ sessions[i].in_use
        /\ sessions[j].in_use
        /\ sessions[i].client_id = sessions[j].client_id
        => i = j

(* The broker still holds message n for client p: in the inflight table of *)
(* a connection that will save it, in a session queue, or in the hands of  *)
(* a thread.                                                               *)
HeldInflight(p, n) ==
    \E c \in Slot :
        /\ pc[c] \notin {"none", "unsub", "forget", "release"}
        /\ client_id[c] = p
        /\ ~clean_session[c]
        /\ \E i \in InflightIdx :
             /\ inflight[c][i] # None
             /\ inflight[c][i].msg.n = n
             /\ pc[c] = "inflights" => i >= idx[c]

HeldQueued(p, n) ==
    \E s \in Session :
        /\ sessions[s].in_use
        /\ sessions[s].client_id = p
        /\ \E i \in QueueIdx : /\ sessions[s].queue[i] # None
                               /\ sessions[s].queue[i].msg.n = n

InHand(n) ==
    \E c \in Slot : \/ pub[c].msg # None /\ pub[c].msg.n = n
                    \/ put[c] # None /\ put[c].e.msg.n = n

(* A QoS 1 message published while a client had a durable subscription is  *)
(* acknowledged by it, still held for it, or was dropped with a warning at *)
(* a full table.  In particular a publish that crosses the client's        *)
(* disconnect is not lost between the fan-out, which still sees the old    *)
(* connection, and the queueing for offline sessions.                      *)
NoSilentLoss ==
    \A o \in owed : \/ <<o[1], o[2]>> \in acked \cup shed
                    \/ HeldInflight(o[1], o[2])
                    \/ HeldQueued(o[1], o[2])
                    \/ InHand(o[2])

(* A will is published at most once, and never after the DISCONNECT of its *)
(* connection; both outcomes are final.                                    *)
WillFinal ==
    [][\A n \in DOMAIN fate :
          /\ fate'[n] # "wrong"
          /\ fate[n] \in {"published", "withdrawn"} => fate'[n] = fate[n]]_vars

(* A connection that was told to stop (takeover, failed send, protocol     *)
(* error, DISCONNECT) gets its thread to the end of client_free.           *)
StoppedEnds ==
    \A c \in Slot :
        (pc[c] # "none" /\ state[c] = "DISCONNECTING") ~> pc[c] = "none"

(* The will of a connection whose peer left or that was taken over is      *)
(* published, unless a DISCONNECT was read before.                         *)
WillPublished ==
    \A n \in 1 .. MaxConn :
        (\E c \in Slot : /\ cn[c] = n
                         /\ fate[n] = "registered"
                         /\ sock[c] # "up" \/ state[c] # "CONNECTED")
        ~> fate[n] \in {"published", "withdrawn"}

----------------------------------------------------------------------------
(* What comments of the code state and the code does not keep. *)

(* A slot without a thread is free for the next connection: client_free    *)
(* "returns the slot to the pool".                                         *)
SlotReturned == \A c \in Slot : pc[c] = "none" => state[c] = "FREE"

(* Once a CONNECT is served, no other connection with its identifier is    *)
(* CONNECTED: client_takeover is to "disconnect any existing client with   *)
(* the same client_id".                                                    *)
OneConnectionPerId ==
    \A c, d \in Slot :
        InLoop(c) /\ InLoop(d) /\ client_id[c] = client_id[d] => c = d

(* A session is marked offline only "while client is disconnected".        *)
OfflineMeansDisconnected ==
    \A c \in Slot, s \in Session :
        /\ InLoop(c)
        /\ ~clean_session[c]
        /\ sessions[s].in_use
        /\ sessions[s].client_id = client_id[c]
        => ~sessions[s].offline

(* "clean_session=1 must discard any existing session": none is left while *)
(* the clean connection is served.                                         *)
CleanDiscards ==
    \A c \in Slot : InLoop(c) /\ clean_session[c] => SessionFind(client_id[c]) = None

(* An entry of a session queue in use is sent before it is written again:  *)
(* "caller must hold session_lock" around session_enqueue.                 *)
QueueEntryKept ==
    [][\A s \in Session, i \in QueueIdx :
          sessions[s].queue[i] # None =>
              sessions'[s].queue[i] \in {None, sessions[s].queue[i]}]_vars

(* A packet identifier names one unacknowledged message of a connection:   *)
(* drain is to "allocate a new id" for messages queued while offline.      *)
InflightPidUnique ==
    \A c \in Slot, i, j \in InflightIdx :
        /\ inflight[c][i] # None
        /\ inflight[c][j] # None
        /\ inflight[c][i].pid = inflight[c][j].pid
        => inflight[c][i].msg.n = inflight[c][j].msg.n
=============================================================================
