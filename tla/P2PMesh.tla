------------------------------ MODULE P2PMesh ------------------------------
(***************************************************************************)
(* Brokers that forward subscriptions and publishes to each other          *)
(* (src/src/p2p_peer.c): SUB and UNSUB spread from the owner of a          *)
(* subscription through the routers, publishes follow the routes they      *)
(* leave, the seen cache stops repetitions, and a publish with QoS above 0 *)
(* that has routes but no live connection is kept until one comes back.    *)
(*                                                                         *)
(* Every broker has a thread for each peer and local threads, one at a     *)
(* time here, for its clients.  todo is what a thread still has to do in   *)
(* the handler it is in, one step one element of it; a publish goes to its *)
(* next hops in one step.  A connection is a pair of FIFO channels; it may *)
(* break, each side notices for itself, and a new one is made when both    *)
(* have (how duplicates are resolved is in PeerLinks).                     *)
(*                                                                         *)
(* The route table is what P2PRouter shows of p2p_router.c, with room for  *)
(* all: for each owner a next hop and its filters.  Filters are topics     *)
(* (TopicMatch has the wildcards), the QoS of subscriptions is left out,   *)
(* and the roles do not change (Election).                                 *)
(***************************************************************************)
EXTENDS Integers, FiniteSets, Sequences, TableScan

CONSTANTS
    Node, Topic,
    P2P_SEEN_MAX,          \* entries of the seen cache
    SeenHash,              \* what the hash of seen_before makes of an origin
    P2P_PENDING_QOS_MAX,   \* entries of the table of pending publishes
    Scenes                 \* networks and bounds looked at

(* A scene: the connections, the routers, the owners of the topics' shards, *)
(* who subscribes, the publishes <<broker, topic, qos>> in turn, how often *)
(* a broker unsubscribes, which connections break and how often, and       *)
(* whether the subscriptions are already made and known to all.            *)
Scene == [links : SUBSET {{a, b} : a, b \in Node}, routers : SUBSET Node,
          owner : [Topic -> Node \cup {None}], subscribers : SUBSET Node,
          pubs : Seq(Node \X Topic \X (0 .. 2)), unsubs : Nat,
          weak : SUBSET {{a, b} : a, b \in Node}, breaks : Nat, known : BOOLEAN]

ASSUME MeshAssumption ==
    /\ P2P_SEEN_MAX \in Nat \ {0} /\ P2P_PENDING_QOS_MAX \in Nat \ {0}
    /\ SeenHash \in [Node -> Nat]
    /\ Scenes \subseteq Scene
    /\ \A s \in Scenes : s.known => s.links = {{a, b} : a \in Node, b \in Node} \ {{a} : a \in Node}
    /\ IsFiniteSet(Node) /\ IsFiniteSet(Topic)
    /\ None \notin Node \cup 0 .. P2P_PENDING_QOS_MAX - 1
    /\ None \notin [origin : Node, seq : Nat \ {0}, topic : Topic, qos : 0 .. 2]

SeenIdx == 0 .. P2P_SEEN_MAX - 1
PendingIdx == 0 .. P2P_PENDING_QOS_MAX - 1

VARIABLES
    scene,
    wire,        \* connections that are up
    conn,        \* peers in the connection table of a broker
    chan,        \* frames on their way
    todo,        \* rest of the handler of a thread; todo[n][n] is the local one
    subs,        \* local subscriptions
    route,       \* route[n][o]: next hop and filters of owner o
    pending, seen, local_seq,
    \* history
    npub, nunsub, nbreak,
    got, again,  \* <<broker, message>>: passed to the clients, more than once
    expect,      \* <<broker, message>>: to be passed to the clients
    kept,        \* <<broker, message>>: stored as pending and not sent since
    late         \* <<broker, message>>: stored and not looked at by a flush since

tables == <<subs, route, pending, seen, local_seq>>
links == <<wire, conn>>
counts == <<npub, nunsub, nbreak>>
history == <<got, again, expect, kept, late>>
vars == <<scene, links, chan, todo, tables, counts, history>>

Msg == [origin : Node, seq : Nat \ {0}, topic : Topic, qos : 0 .. 2]
NoRoute == [hop |-> None, subs |-> {}]
SubFrame(type, o, t) == [type |-> type, owner |-> o, filter |-> t]
PubFrame(m) == [type |-> "PUBLISH", msg |-> m]

Peers(n) == {p \in Node : {n, p} \in scene.links /\ p # n}

Init ==
    /\ scene \in Scenes
    /\ wire = scene.links
    /\ conn = [n \in Node |-> Peers(n)]
    /\ chan = [n \in Node |-> [p \in Node |-> <<>>]]
    /\ todo = [n \in Node |-> [p \in Node |-> <<>>]]
    /\ subs = [n \in Node |-> IF scene.known /\ n \in scene.subscribers THEN Topic ELSE {}]
    /\ route = [n \in Node |-> [o \in Node |->
                  IF n = o \/ subs[o] = {} THEN NoRoute ELSE [hop |-> o, subs |-> subs[o]]]]
    /\ pending = [n \in Node |-> [i \in PendingIdx |-> None]]
    /\ seen = [n \in Node |-> [i \in SeenIdx |-> None]]
    /\ local_seq = [n \in Node |-> 0]
    /\ npub = 0 /\ nunsub = 0 /\ nbreak = 0
    /\ got = {} /\ again = {} /\ expect = {} /\ kept = {} /\ late = {}

----------------------------------------------------------------------------
(* The elements of a handler. *)
Do(op, arg) == [op |-> op, arg |-> arg]
SendTo(p, frame) == Do("send", [to |-> p, frame |-> frame])
Tell(roles, frame, except) ==
    Do("tell", [to |-> roles, frame |-> frame, except |-> except])

(* Sends to the peers D: those with a live connection get the frame.  The  *)
(* connection of others may have broken without being noticed; such a send *)
(* fails or is lost in the socket buffer.  S are the sends that succeed.   *)
Live(n, D) == {p \in D \cap conn[n] : {n, p} \in wire}
Outcomes(n, D) == {S \in SUBSET (D \cap conn[n]) : Live(n, D) \subseteq S}
Put(n, D, frame) ==
    chan' = [chan EXCEPT ![n] = [p \in Node |->
               IF p \in Live(n, D) THEN Append(@[p], frame) ELSE @[p]]]

(* Any order of a set, for loops over a table. *)
Orders(D) == {s \in [1 .. Cardinality(D) -> D] : \A i, j \in DOMAIN s : s[i] = s[j] => i = j}

\* Mutant: back to where it came from, too.
Hops_Back(n, t, except) == {route[n][o].hop : o \in {p \in Node : t \in route[n][p].subs}}

\* Mutant: the search ends at the first matching route.
Hops_One(n, t, except) ==
    {h \in {route[n][o].hop : o \in {p \in Node : t \in route[n][p].subs}} \ {except} :
        h = route[n][CHOOSE p \in Node : t \in route[n][p].subs].hop}

(* p2p_router_find_next_hops. *)
Hops(n, t, except) ==
    {route[n][o].hop : o \in {p \in Node : t \in route[n][p].subs}} \ {except}

(* Nothing is on its way or left to do, and all connections are up. *)
Settled ==
    /\ wire = scene.links
    /\ \A n \in Node : conn[n] = Peers(n)
    /\ \A n, p \in Node : chan[n][p] = <<>> /\ todo[n][p] = <<>>

----------------------------------------------------------------------------
(* Local clients. *)

(* Tells the owner of the shard, unless it is the broker itself, and the   *)
(* routers.                                                                *)
Announce(n, frame) ==
    (IF scene.owner[frame.filter] \in {None, n} THEN <<>>
     ELSE <<SendTo(scene.owner[frame.filter], frame)>>)
    \o <<Tell(scene.routers, frame, None)>>

(* The first local subscription of a topic: p2p_local_subscribe. *)
LocalSubscribe(n, t) ==
    /\ n \in scene.subscribers
    /\ t \notin subs[n]
    /\ todo[n][n] = <<>>
    /\ subs' = [subs EXCEPT ![n] = @ \cup {t}]
    /\ todo' = [todo EXCEPT ![n][n] = Announce(n, SubFrame("SUB", n, t))]
    /\ UNCHANGED <<scene, links, chan, route, pending, seen, local_seq, counts, history>>

(* The end of the last one: p2p_local_unsubscribe. *)
LocalUnsubscribe(n, t) ==
    /\ nunsub < scene.unsubs
    /\ t \in subs[n]
    /\ todo[n][n] = <<>>
    /\ nunsub' = nunsub + 1
    /\ subs' = [subs EXCEPT ![n] = @ \ {t}]
    /\ todo' = [todo EXCEPT ![n][n] = Announce(n, SubFrame("UNSUB", n, t))]
    /\ expect' = {e \in expect : ~(e[1] = n /\ e[2].topic = t)}
    /\ UNCHANGED <<scene, links, chan, route, pending, seen, local_seq, npub, nbreak,
                   got, again, kept, late>>

(* topic_publish and topic_publish_remote: the message is passed to the    *)
(* clients of n, if there are subscriptions.                               *)
Delivers(n, m) ==
    /\ got' = IF m.topic \in subs[n] THEN got \cup {<<n, m>>} ELSE got
    /\ again' = IF m.topic \in subs[n] /\ <<n, m>> \in got
                THEN again \cup {<<n, m>>} ELSE again

(* p2p_publish_from_local: to the owner of the shard, else along the       *)
(* routes, else to every peer; and it is kept if there were routes.        *)
LocalPublish ==
    LET n == scene.pubs[npub + 1][1]
        t == scene.pubs[npub + 1][2]
        m == [origin |-> n, seq |-> local_seq[n] + 1, topic |-> t,
              qos |-> scene.pubs[npub + 1][3]]
        direct == {scene.owner[t]} \ {n, None}
        hops == Hops(n, t, None)
    IN
    /\ npub < Len(scene.pubs)
    /\ todo[n][n] = <<>>
    /\ npub' = npub + 1
    /\ local_seq' = [local_seq EXCEPT ![n] = @ + 1]
    /\ Delivers(n, m)
    /\ \E D \in Outcomes(n, direct), S \in Outcomes(n, hops) :
         IF D # {}
         THEN Put(n, direct, PubFrame(m)) /\ UNCHANGED todo
         ELSE IF S # {}
         THEN Put(n, hops, PubFrame(m)) /\ UNCHANGED todo
         ELSE /\ todo' = [todo EXCEPT ![n][n] =
                            <<Do("flood", m)>> \o (IF m.qos > 0 /\ hops # {}
                                                  THEN <<Do("store", m)>> ELSE <<>>)]
              /\ UNCHANGED chan
    /\ expect' = IF Settled
                 THEN expect \cup {<<p, m>> : p \in {q \in Node : t \in subs[q]}}
                 ELSE expect
    /\ UNCHANGED <<scene, links, subs, route, pending, seen, nunsub, nbreak, kept, late>>

----------------------------------------------------------------------------
(* The thread of peer p takes a frame (peer_loop). *)

Takes(n, p, type) ==
    /\ p \in conn[n]
    /\ todo[n][p] = <<>>
    /\ chan[p][n] # <<>>
    /\ Head(chan[p][n]).type = type

(* p2p_router_remote_subscribe: an owner that is new, or is heard of       *)
(* directly for the first time, gets the sender as its next hop.           *)
NewHop(n, o, p) == route[n][o].hop = None \/ (o = p /\ route[n][o].hop # o)

\* Mutant: every SUB is passed on.
SubChanged_Always(n, f, p) == TRUE

SubChanged(n, f, p) == NewHop(n, f.owner, p) \/ f.filter \notin route[n][f.owner].subs

\* Mutant: UNSUB is not passed on.
Passes_Sub(n, f, p) ==
    IF n \in scene.routers /\ f.type = "SUB"
    THEN <<Tell(scene.routers, f, p), Tell(Node \ scene.routers, f, p)>>
    ELSE <<>>

Passes(n, f, p) ==
    IF n \in scene.routers
    THEN <<Tell(scene.routers, f, p), Tell(Node \ scene.routers, f, p)>>
    ELSE <<>>

TakeSub(n, p) ==
    LET f == Head(chan[p][n])
        r == route[n][f.owner]
    IN
    /\ Takes(n, p, "SUB")
    /\ chan' = [chan EXCEPT ![p][n] = Tail(@)]
    /\ route' = [route EXCEPT ![n][f.owner] =
                   [hop |-> IF NewHop(n, f.owner, p) THEN p ELSE r.hop,
                    subs |-> r.subs \cup {f.filter}]]
    /\ todo' = [todo EXCEPT ![n][p] =
                  <<Do("flush", f.filter)>> \o (IF SubChanged(n, f, p) THEN Passes(n, f, p) ELSE <<>>)]
    /\ UNCHANGED <<scene, links, subs, pending, seen, local_seq, counts, history>>

(* A route without a filter; an owner without filters is forgotten. *)
Without(r, t) == IF r.subs \subseteq {t} THEN NoRoute ELSE [r EXCEPT !.subs = @ \ {t}]

(* p2p_router_remote_unsubscribe. *)
TakeUnsub(n, p) ==
    LET f == Head(chan[p][n]) IN
    /\ Takes(n, p, "UNSUB")
    /\ chan' = [chan EXCEPT ![p][n] = Tail(@)]
    /\ route' = [route EXCEPT ![n][f.owner] = Without(@, f.filter)]
    /\ todo' = [todo EXCEPT ![n][p] =
                  IF f.filter \in route[n][f.owner].subs THEN Passes(n, f, p) ELSE <<>>]
    /\ UNCHANGED <<scene, links, subs, pending, seen, local_seq, counts, history>>

(* seen_before: a direct-mapped cache; a collision evicts. *)
SeenAt(m) == (SeenHash[m.origin] + m.seq) % P2P_SEEN_MAX
SeenBefore(n, m) == seen[n][SeenAt(m)] = <<m.origin, m.seq>>

(* handle_publish: what is new is passed to the clients, and by a router   *)
(* along its routes, but not back.                                         *)
TakePublish(n, p) ==
    LET m == Head(chan[p][n]).msg
        out == IF n \in scene.routers THEN Live(n, Hops(n, m.topic, p)) ELSE {}
    IN
    /\ Takes(n, p, "PUBLISH")
    /\ IF SeenBefore(n, m)
       THEN /\ chan' = [chan EXCEPT ![p][n] = Tail(@)]
            /\ UNCHANGED <<seen, got, again>>
       ELSE /\ chan' = [[chan EXCEPT ![p][n] = Tail(@)] EXCEPT ![n] =
                          [q \in Node |-> IF q \in out THEN Append(@[q], PubFrame(m)) ELSE @[q]]]
            /\ seen' = [seen EXCEPT ![n][SeenAt(m)] = <<m.origin, m.seq>>]
            /\ Delivers(n, m)
    /\ UNCHANGED <<scene, links, todo, subs, route, pending, local_seq, counts, expect, kept, late>>

----------------------------------------------------------------------------
(* The rest of a handler. *)

(* Thread p of n is at an element op with argument arg, which is replaced  *)
(* by ops.                                                                 *)
At(n, p, op) == todo[n][p] # <<>> /\ Head(todo[n][p]).op = op
Arg(n, p) == Head(todo[n][p]).arg
Replace(n, p, ops) == todo' = [todo EXCEPT ![n][p] = ops \o Tail(@)]

(* send_sub_to_node_unlocked, send_frame_to_slot: failures are ignored. *)
DoSend(n, p) ==
    /\ At(n, p, "send")
    /\ Put(n, {Arg(n, p).to}, Arg(n, p).frame)
    /\ Replace(n, p, <<>>)
    /\ UNCHANGED <<scene, links, tables, counts, history>>

(* flood_publish_to_connected_peers. *)
DoFlood(n, p) ==
    /\ At(n, p, "flood")
    /\ Put(n, conn[n], PubFrame(Arg(n, p)))
    /\ Replace(n, p, <<>>)
    /\ UNCHANGED <<scene, links, tables, counts, history>>

(* pending_qos_store: a free entry, or else the first one. *)
PendingSlot(n) ==
    LET i == First({j \in PendingIdx : pending[n][j] = None})
    IN IF i = None THEN 0 ELSE i

DoStore(n, p) ==
    LET m == Arg(n, p) IN
    /\ At(n, p, "store")
    /\ pending' = [pending EXCEPT ![n][PendingSlot(n)] = m]
    /\ kept' = (kept \ {<<n, pending[n][PendingSlot(n)]>>}) \cup {<<n, m>>}
    /\ late' = late \cup {<<n, m>>}
    /\ Replace(n, p, <<>>)
    /\ UNCHANGED <<scene, links, chan, subs, route, seen, local_seq, counts,
                   got, again, expect>>

(* send_sub_to_peers_by_role: the peers are collected under peer_lock. *)
DoTell(n, p) ==
    /\ At(n, p, "tell")
    /\ \E s \in Orders((Arg(n, p).to \cap conn[n]) \ {Arg(n, p).except}) :
         Replace(n, p, [i \in DOMAIN s |-> SendTo(s[i], Arg(n, p).frame)])
    /\ UNCHANGED <<scene, links, chan, tables, counts, history>>

(* advertise_local_subs_to: only to routers. *)
DoAdvertise(n, p) ==
    /\ At(n, p, "advertise")
    /\ IF p \in scene.routers
       THEN \E s \in Orders(subs[n]) :
              Replace(n, p, [i \in DOMAIN s |-> SendTo(p, SubFrame("SUB", n, s[i]))])
       ELSE Replace(n, p, <<>>)
    /\ UNCHANGED <<scene, links, chan, tables, counts, history>>

\* Mutant: the flush after a SUB finds nothing.
Due_Filter(n, f) == {i \in PendingIdx : pending[n][i] # None /\ f = None}

Due(n, f) == {i \in PendingIdx : pending[n][i] # None /\ f \in {None, pending[n][i].topic}}

(* flush_pending_qos_for_filter copies the matching entries, all of them   *)
(* for None, under the lock, ...                                           *)
DoFlush(n, p) ==
    /\ At(n, p, "flush")
    /\ \E s \in Orders(Due(n, Arg(n, p))) :
         /\ \A i, j \in DOMAIN s : i < j => s[i] < s[j]
         /\ Replace(n, p, [i \in DOMAIN s |->
                             Do("resend", [at |-> s[i], msg |-> pending[n][s[i]]])])
    /\ late' = late \ {<<n, pending[n][i]>> : i \in Due(n, Arg(n, p))}
    /\ UNCHANGED <<scene, links, chan, tables, counts, got, again, expect, kept>>

\* Mutant: the entry is freed whether or not something was sent.
Resent_Always(S, n, p) == <<Do("clear", Arg(n, p).at)>>

(* What is left to do after the sends S of a pending publish. *)
Resent(S, n, p) == IF S = {} THEN <<>> ELSE <<Do("clear", Arg(n, p).at)>>

(* ... sends each along the routes of the moment, ... *)
DoResend(n, p) ==
    LET m == Arg(n, p).msg
        hops == Hops(n, m.topic, None)
    IN
    /\ At(n, p, "resend")
    /\ Put(n, hops, PubFrame(m))
    /\ \E S \in Outcomes(n, hops) :
         /\ Replace(n, p, Resent(S, n, p))
         /\ kept' = IF S = {} THEN kept ELSE kept \ {<<n, m>>}
    /\ UNCHANGED <<scene, links, tables, counts, got, again, expect, late>>

(* ... and frees the entry it was copied from. *)
DoClear(n, p) ==
    /\ At(n, p, "clear")
    /\ pending' = [pending EXCEPT ![n][Arg(n, p)] = None]
    /\ Replace(n, p, <<>>)
    /\ UNCHANGED <<scene, links, chan, subs, route, seen, local_seq, counts, history>>

(* The end of close_conn: the peer and what is reached over it is removed  *)
(* from the route table (p2p_router_remove_node).                          *)
DoRemove(n, p) ==
    /\ At(n, p, "remove")
    /\ route' = [route EXCEPT ![n] = [o \in Node |->
                   IF o = p \/ @[o].hop = p THEN NoRoute ELSE @[o]]]
    /\ Replace(n, p, <<>>)
    /\ UNCHANGED <<scene, links, chan, subs, pending, seen, local_seq, counts, history>>

----------------------------------------------------------------------------
(* Connections. *)

Break(l) ==
    /\ l \in wire \cap scene.weak
    /\ nbreak < scene.breaks
    /\ nbreak' = nbreak + 1
    /\ wire' = wire \ {l}
    /\ chan' = [n \in Node |-> [p \in Node |-> IF {n, p} = l THEN <<>> ELSE chan[n][p]]]
    /\ expect' = {}
    /\ UNCHANGED <<scene, conn, todo, tables, npub, nunsub, got, again, kept, late>>

(* recv_frame fails and the thread leaves its loop: close_conn. *)
Close(n, p) ==
    /\ p \in conn[n]
    /\ {n, p} \notin wire
    /\ todo[n][p] = <<>>
    /\ conn' = [conn EXCEPT ![n] = @ \ {p}]
    /\ todo' = [todo EXCEPT ![n][p] = <<Do("remove", None)>>]
    /\ UNCHANGED <<scene, wire, chan, tables, counts, history>>

(* connect_loop or accept_loop has a new connection, once the threads of   *)
(* the old one have ended.                                                 *)
Reconnect(l) ==
    /\ l \in scene.links \ wire
    /\ \A n, p \in l : n # p => p \notin conn[n] /\ todo[n][p] = <<>>
    /\ wire' = wire \cup {l}
    /\ UNCHANGED <<scene, conn, chan, todo, tables, counts, history>>

(* peer_loop after the exchange of HELLO. *)
Join(n, p) ==
    /\ {n, p} \in wire
    /\ n # p /\ p \notin conn[n]
    /\ todo[n][p] = <<>>
    /\ conn' = [conn EXCEPT ![n] = @ \cup {p}]
    /\ todo' = [todo EXCEPT ![n][p] = <<Do("advertise", None), Do("flush", None)>>]
    /\ UNCHANGED <<scene, wire, chan, tables, counts, history>>

----------------------------------------------------------------------------
Clients == \/ LocalPublish
           \/ \E n \in Node, t \in Topic : LocalSubscribe(n, t) \/ LocalUnsubscribe(n, t)

Handler(n, p) ==
    \/ DoSend(n, p) \/ DoFlood(n, p) \/ DoStore(n, p) \/ DoTell(n, p) \/ DoAdvertise(n, p) \/ DoFlush(n, p)
    \/ DoResend(n, p) \/ DoClear(n, p) \/ DoRemove(n, p)

Thread(n, p) ==
    \/ Handler(n, p)
    \/ TakeSub(n, p) \/ TakeUnsub(n, p) \/ TakePublish(n, p)
    \/ Join(n, p) \/ Close(n, p)

Threads == \E n, p \in Node : Thread(n, p)
Connections == \E l \in scene.links : Reconnect(l)

Next == \/ Clients
        \/ Threads
        \/ Connections
        \/ \E l \in scene.links : Break(l)

Spec == Init /\ [][Next]_vars

(* As long as a thread can go on, or connect_loop can make a connection,   *)
(* one of them does; more is not needed, since each has finitely much to   *)
(* do.  Clients need not do anything.                                      *)
FairSpec == Spec /\ WF_vars(Threads \/ Connections)

----------------------------------------------------------------------------
(* Properties. *)

(* The connections, the tables and what is left to do keep their types. *)
TypeOK ==
    /\ scene \in Scenes /\ wire \subseteq scene.links
    /\ \A n \in Node : conn[n] \subseteq Peers(n)
    /\ subs \in [Node -> SUBSET Topic]
    /\ route \in [Node -> [Node -> [hop : Node \cup {None}, subs : SUBSET Topic]]]
    /\ \A n, o \in Node : (route[n][o].hop = None) <=> (route[n][o].subs = {})
    /\ \A n \in Node, i \in PendingIdx :
         pending[n][i] # None => pending[n][i] \in Msg /\ pending[n][i].qos > 0
    /\ local_seq \in [Node -> Nat]
    /\ nbreak <= scene.breaks /\ nunsub <= scene.unsubs

(* A set of brokers that the rest of the network is connected with only by *)
(* the connection between n, which is in the set, and p.                   *)
Cut(S, n, p) ==
    /\ n \in S /\ p \notin S
    /\ \A l \in scene.links \ {{n, p}} : l \subseteq S \/ l \cap S = {}

(* No cycles: every connection is the only one between its two sides.      *)
Tree ==
    \A n, p \in Node : {n, p} \in scene.links /\ n # p => \E S \in SUBSET Node : Cut(S, n, p)

(* Once everything that was sent has been handled, a broker in a network   *)
(* without cycles knows exactly the subscriptions of the others; leaves    *)
(* learn those of a router only when somebody passes them on.              *)
RoutesExact ==
    Settled /\ Tree => \A n, o \in UNION scene.links :
        n # o => /\ route[n][o].subs \subseteq subs[o]
                 /\ n \in scene.routers => route[n][o].subs = subs[o]

(* A publish made while everything was settled has got to every broker     *)
(* with subscribers when everything is settled again.                      *)
Delivered == Settled => expect \subseteq got

(* Another publish has the same place in the seen cache. *)
Collides(m) ==
    \E o \in Node : \E k \in 1 .. local_seq[o] :
        <<o, k>> # <<m.origin, m.seq>> /\ SeenAt([origin |-> o, seq |-> k]) = SeenAt(m)

(* A broker passes a publish of another to its clients at most once, unless *)
(* the seen cache has lost it to another one; one of its own may come back *)
(* only in a network with cycles.                                          *)
DeliveredOnce ==
    \A e \in again : Collides(e[2]) \/ (e[1] = e[2].origin /\ ~Tree)

(* A publish that was stored as pending stays there until it is sent, by a *)
(* broker with one peer and a table that is never full: then an entry      *)
(* cannot be replaced between the copy and the clearing of a flush.        *)
PendingKept ==
    \A k \in kept :
        Cardinality(Peers(k[1])) = 1 /\ local_seq[k[1]] <= P2P_PENDING_QOS_MAX
            => \E i \in PendingIdx : pending[k[1]][i] = k[2]

(* Neither publishes nor SUB and UNSUB circulate for ever, in networks     *)
(* without cycles, and in others as long as nobody unsubscribes and no two *)
(* publishes have the same place in the seen caches.                       *)
Quiesces ==
    <>[](\/ \A n, p \in Node : chan[n][p] = <<>>
         \/ ~Tree /\ (nunsub > 0 \/ \E o \in Node : \E k \in 1 .. local_seq[o] :
                                    Collides([origin |-> o, seq |-> k])))

(* Routers send all their pending publishes in the end, if the subscribers *)
(* stay: the SUB of the peer that comes back flushes them.  Only one that  *)
(* was stored after the last flush is left.                                *)
PendingSent ==
    <>[](scene.unsubs = 0 => \A n \in scene.routers, i \in PendingIdx :
            pending[n][i] = None \/ <<n, pending[n][i]>> \in late)
=============================================================================
