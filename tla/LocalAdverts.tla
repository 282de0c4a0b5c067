---------------------------- MODULE LocalAdverts ----------------------------
(***************************************************************************)
(* What the P2P peers are told about the subscriptions of this node        *)
(* (CONFIG_MQTT_P2P_DYNAMIC).  Three parties call p2p_local_subscribe and  *)
(* p2p_local_unsubscribe: the client threads, when the subscriptions to a  *)
(* filter in the topic table (topic.c) begin, end or change their highest  *)
(* QoS; the broker thread, for the clients of the mesh ingress, which it   *)
(* keeps in a table of its own (broker.c); and the resync after a change   *)
(* of role (p2p_peer.c).                                                   *)
(*                                                                         *)
(* The topic table is the map of SubscriptionMap, which TopicTable         *)
(* implements.  It changes under topic_lock; the notification is sent      *)
(* after the unlock and is a step of its own.  The mesh clients are served *)
(* by the broker thread without a lock; that a peer thread may close one   *)
(* when a send to it fails is left out.                                    *)
(***************************************************************************)
EXTENDS Integers, FiniteSets, Sequences, TableScan

CONSTANTS
    TOPIC_MAX_SUBS,
    MESH_INGRESS_SUBS_PER_CLIENT,
    Client,        \* entries of the client pool; each has a thread
    Mesh,          \* entries of mesh_clients
    Filter,
    MeshFilter,    \* filters the clients of the mesh ingress subscribe to
    QoS,
    Broker,        \* the broker thread
    BATCH,         \* snapshots per call in p2p_resync_local_subscriptions
    MaxResync      \* bound: changes of role

ASSUME AdvertAssumption ==
    /\ TOPIC_MAX_SUBS \in Nat \ {0} /\ MESH_INGRESS_SUBS_PER_CLIENT \in Nat \ {0}
    /\ BATCH \in Nat \ {0} /\ MaxResync \in Nat
    /\ QoS \subseteq 0 .. 2 /\ None \notin QoS
    /\ Broker \notin Client /\ MeshFilter \subseteq Filter

Notifier == Client \cup {Broker}
Note == [filter : Filter, qos : QoS \cup {None}]
Resync == [left : SUBSET (Client \X Filter), more : BOOLEAN,
           batch : SUBSET [client : Client, filter : Filter, qos : QoS]]

ASSUME NullAssumption == None \notin Note /\ None \notin Resync

VARIABLES
    topic_subs, \* the topic table: QoS of a client's filter, or None
    mesh,       \* mesh_clients: QoS of a filter, or None
    note,       \* notification a thread still has to send: qos None withdraws
    ending,     \* clients in topic_unsubscribe_all, mesh clients in mesh_client_close
    resync,     \* p2p_resync_local_subscriptions, or None: the entries ahead of
                \* its cursor, whether it is before the end, what is left to send
    resyncs,
    advert      \* per filter the QoS the peers were last told, or None

advertVars == <<topic_subs, mesh, note, ending, resync, resyncs, advert>>

----------------------------------------------------------------------------
(* filter_stats_locked. *)
Having(f) == {c \in Client : topic_subs[c][f] # None}
Stats(f) == {topic_subs[c][f] : c \in Having(f)}

Entries == {e \in Client \X Filter : topic_subs[e[1]][e[2]] # None}

\* Mutant: only the first subscription and the last removal are announced.
Notice_Edges(f, old, new) ==
    IF new = {} THEN IF old = {} THEN None ELSE [filter |-> f, qos |-> None]
    ELSE IF old = {} THEN [filter |-> f, qos |-> Max(new)] ELSE None

\* Mutant: the end of the last subscription is not announced.
Notice_Never(f, old, new) ==
    IF new = {} THEN None
    ELSE IF old = {} \/ Max(new) # Max(old) THEN [filter |-> f, qos |-> Max(new)]
    ELSE None

(* What the peers have to be told when the QoS values of the subscriptions *)
(* to f change from old to new.                                            *)
Notice(f, old, new) ==
    IF new = {} THEN IF old = {} THEN None ELSE [filter |-> f, qos |-> None]
    ELSE IF old = {} \/ Max(new) # Max(old) THEN [filter |-> f, qos |-> Max(new)]
    ELSE None

(* A removed entry is not ahead of the cursor any more; where a new one    *)
(* lands, the map leaves open.                                             *)
PassResync(c, f, q) ==
    IF resync = None THEN UNCHANGED resync
    ELSE \E ahead \in {resync.left \ {<<c, f>>}, resync.left \cup {<<c, f>>}} :
           /\ q = None => <<c, f>> \notin ahead
           /\ topic_subs[c][f] # None /\ q # None => ahead = resync.left
           /\ ~resync.more => ahead = {}
           /\ resync' = [resync EXCEPT !.left = ahead]

(* Entry <<c, f>> of the table becomes q, None when it is removed. *)
Set(c, f, q) ==
    /\ PassResync(c, f, q)
    /\ topic_subs' = [topic_subs EXCEPT ![c][f] = q]
    /\ note' = [note EXCEPT ![c] =
         Notice(f, Stats(f), {topic_subs[d][f] : d \in Having(f) \ {c}}
                             \cup (IF q = None THEN {} ELSE {q}))]

AdvertInit ==
    /\ topic_subs = [c \in Client |-> [f \in Filter |-> None]]
    /\ mesh = [m \in Mesh |-> [f \in Filter |-> None]]
    /\ note = [x \in Notifier |-> None]
    /\ ending = {}
    /\ resync = None
    /\ resyncs = 0
    /\ advert = [f \in Filter |-> None]

(* topic_subscribe; a full table refuses. *)
Subscribe(c, f, q) ==
    /\ note[c] = None /\ c \notin ending
    /\ topic_subs[c][f] # None \/ Cardinality(Entries) < TOPIC_MAX_SUBS
    /\ Set(c, f, q)
    /\ UNCHANGED <<mesh, ending, resyncs, advert>>

(* topic_unsubscribe. *)
Unsubscribe(c, f) ==
    /\ note[c] = None /\ c \notin ending
    /\ topic_subs[c][f] # None
    /\ Set(c, f, None)
    /\ UNCHANGED <<mesh, ending, resyncs, advert>>

(* topic_unsubscribe_all: one entry and its notification in each round. *)
UnsubscribeAll(c) ==
    /\ note[c] = None /\ c \notin ending
    /\ ending' = ending \cup {c}
    /\ UNCHANGED <<topic_subs, mesh, note, resync, resyncs, advert>>

UnsubscribeNext(c) ==
    /\ note[c] = None /\ c \in ending
    /\ IF \E f \in Filter : topic_subs[c][f] # None
       THEN \E f \in Filter : /\ topic_subs[c][f] # None
                              /\ Set(c, f, None)
                              /\ UNCHANGED ending
       ELSE ending' = ending \ {c} /\ UNCHANGED <<topic_subs, note, resync>>
    /\ UNCHANGED <<mesh, resyncs, advert>>

----------------------------------------------------------------------------
(* Mesh ingress. *)

(* The broker thread serves one packet or one closed socket at a time. *)
BrokerIdle == note[Broker] = None /\ ending \cap Mesh = {}

(* mesh_client_subscribe, which announces every time. *)
MeshSubscribe(m, f, q) ==
    /\ BrokerIdle
    /\ \/ mesh[m][f] # None
       \/ Cardinality({g \in Filter : mesh[m][g] # None}) < MESH_INGRESS_SUBS_PER_CLIENT
    /\ mesh' = [mesh EXCEPT ![m][f] = q]
    /\ note' = [note EXCEPT ![Broker] = [filter |-> f, qos |-> q]]
    /\ UNCHANGED <<topic_subs, ending, resync, resyncs, advert>>

(* mesh_filter_can_withdraw, once the subscription of m is gone. *)
CanWithdraw(m, f) ==
    /\ \A n \in Mesh \ {m} : mesh[n][f] = None
    /\ Having(f) = {}

MeshRemove(m, f) ==
    /\ mesh' = [mesh EXCEPT ![m][f] = None]
    /\ note' = [note EXCEPT ![Broker] =
                  IF CanWithdraw(m, f) THEN [filter |-> f, qos |-> None] ELSE None]

(* mesh_client_unsubscribe. *)
MeshUnsubscribe(m, f) ==
    /\ BrokerIdle
    /\ mesh[m][f] # None
    /\ MeshRemove(m, f)
    /\ UNCHANGED <<topic_subs, ending, resync, resyncs, advert>>

(* mesh_client_close: one filter and its notification in each round. *)
MeshClose(m) ==
    /\ BrokerIdle
    /\ ending' = ending \cup {m}
    /\ UNCHANGED <<topic_subs, mesh, note, resync, resyncs, advert>>

\* Mutant: the subscriptions of a closed client are forgotten.
MeshCloseNext_Forget(m) ==
    /\ note[Broker] = None /\ m \in ending
    /\ mesh' = [mesh EXCEPT ![m] = [f \in Filter |-> None]]
    /\ ending' = ending \ {m}
    /\ UNCHANGED <<topic_subs, note, resync, resyncs, advert>>

MeshCloseNext(m) ==
    /\ note[Broker] = None /\ m \in ending
    /\ IF \E f \in Filter : mesh[m][f] # None
       THEN \E f \in Filter : /\ mesh[m][f] # None
                              /\ MeshRemove(m, f)
                              /\ UNCHANGED ending
       ELSE ending' = ending \ {m} /\ UNCHANGED <<mesh, note>>
    /\ UNCHANGED <<topic_subs, resync, resyncs, advert>>

----------------------------------------------------------------------------
(* p2p_local_subscribe and p2p_local_unsubscribe: the peers keep what they *)
(* are told last.                                                          *)
Notify(x) ==
    /\ note[x] # None
    /\ advert' = [advert EXCEPT ![note[x].filter] = note[x].qos]
    /\ note' = [note EXCEPT ![x] = None]
    /\ UNCHANGED <<topic_subs, mesh, ending, resync, resyncs>>

(* p2p_resync_local_subscriptions, after a change of role. *)
ResyncStart ==
    /\ resync = None
    /\ resyncs < MaxResync
    /\ resyncs' = resyncs + 1
    /\ resync' = [left |-> Entries, more |-> TRUE, batch |-> {}]
    /\ UNCHANGED <<topic_subs, mesh, note, ending, advert>>

(* topic_get_sub_snapshots_from: the next entries in the order of the      *)
(* table, at most BATCH.                                                   *)
ResyncSnapshot ==
    /\ resync # None
    /\ resync.batch = {}
    /\ IF resync.left = {} \/ ~resync.more THEN resync' = None
       ELSE \E got \in SUBSET resync.left :
              /\ \/ Cardinality(got) = BATCH
                 \/ Cardinality(got) < BATCH /\ got = resync.left
              /\ resync' = [left |-> resync.left \ got,
                            more |-> Cardinality(got) = BATCH,
                            batch |-> {[client |-> e[1], filter |-> e[2],
                                        qos |-> topic_subs[e[1]][e[2]]] : e \in got}]
    /\ UNCHANGED <<topic_subs, mesh, note, ending, resyncs, advert>>

ResyncSend ==
    /\ resync # None
    /\ \E m \in resync.batch :
         /\ advert' = [advert EXCEPT ![m.filter] = m.qos]
         /\ resync' = [resync EXCEPT !.batch = @ \ {m}]
    /\ UNCHANGED <<topic_subs, mesh, note, ending, resyncs>>

AdvertNext ==
    \/ \E c \in Client :
         \/ UnsubscribeAll(c) \/ UnsubscribeNext(c)
         \/ \E f \in Filter : Unsubscribe(c, f) \/ \E q \in QoS : Subscribe(c, f, q)
    \/ \E m \in Mesh :
         \/ MeshClose(m) \/ MeshCloseNext(m)
         \/ \E f \in MeshFilter :
              MeshUnsubscribe(m, f) \/ \E q \in QoS : MeshSubscribe(m, f, q)
    \/ \E x \in Notifier : Notify(x)
    \/ ResyncStart \/ ResyncSnapshot \/ ResyncSend

AdvertSpec == AdvertInit /\ [][AdvertNext]_advertVars

(* Nothing is left to send. *)
AllSent == (\A x \in Notifier : note[x] = None) /\ resync = None

(* An environment in which a subscription changes only after what was to   *)
(* be sent because of the previous change has been sent.                   *)
Serial == ~AllSent => UNCHANGED <<topic_subs, mesh>>

SerialSpec == AdvertInit /\ [][AdvertNext /\ Serial]_advertVars

----------------------------------------------------------------------------
(* Properties. *)

(* The tables keep their types; a pending notification is one of p2p.h. *)
AdvertTypeOK ==
    /\ topic_subs \in [Client -> [Filter -> QoS \cup {None}]]
    /\ mesh \in [Mesh -> [Filter -> QoS \cup {None}]]
    /\ note \in [Notifier -> Note \cup {None}]
    /\ ending \subseteq Client \cup Mesh
    /\ resync = None \/ (resync \in Resync /\ resync.left \subseteq Entries)
    /\ resyncs \in 0 .. MaxResync
    /\ advert \in [Filter -> QoS \cup {None}]

Wanted(f) == Having(f) # {} \/ \E m \in Mesh : mesh[m][f] # None

(* When nothing is left to send, a filter that mesh clients do not use is  *)
(* announced exactly if it has subscribers: "topic.c calls these when      *)
(* local subscriptions or publishes change so peers can maintain remote    *)
(* routing state".                                                         *)
AdvertExact ==
    AllSent => \A f \in Filter \ MeshFilter : advert[f] # None <=> Wanted(f)

(* No filter stays announced once its last subscriber is gone, whether the *)
(* topic table or the mesh ingress had it last.                            *)
NoStaleAdvert == AllSent => \A f \in Filter : advert[f] # None => Wanted(f)

(* The announced QoS is the highest one of the subscriptions: the single   *)
(* pass over the table in topic_subscribe and topic_unsubscribe tells a    *)
(* changed maximum from an unchanged one.  A resync announces every entry  *)
(* with its own QoS, so that the last one counts from then on.             *)
AdvertHighest ==
    AllSent /\ resyncs = 0 =>
        \A f \in Filter \ MeshFilter : Having(f) # {} => advert[f] = Max(Stats(f))
=============================================================================
