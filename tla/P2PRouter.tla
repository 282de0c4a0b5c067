------------------------------ MODULE P2PRouter ------------------------------
(***************************************************************************)
(* The remote subscription table of the P2P router (src/src/p2p_router.c): *)
(* for every remote node its subscriptions and the peer that leads to it,  *)
(* and two route tables derived from them, a hash table with open          *)
(* addressing and tombstones for filters without wildcards and a list for  *)
(* the others.                                                             *)
(*                                                                         *)
(* Every operation runs under router_lock.  The refresh loop of a          *)
(* subscribe that changes the next hop takes one step for each route; job  *)
(* holds the lock meanwhile.  The QoS of a remote subscription does not    *)
(* influence the routes and is left out.                                   *)
(***************************************************************************)
EXTENDS Integers, FiniteSets, TableScan

CONSTANTS
    P2P_REMOTE_NODE_MAX,       \* remote nodes (P2P_PEER_MAX + 1)
    P2P_REMOTE_SUBS_PER_NODE,  \* subscriptions of a remote node
    Node,                      \* node identifiers
    Topic,                     \* topics, which are also the filters without wildcards
    Wild,                      \* filters with wildcards
    Match,                     \* topic_match, as a set of <<wildcard filter, topic>>
    Hash,                      \* hash_filter
    Deleted                    \* tombstone of the hash table

Filter   == Topic \cup Wild
NodeIdx  == 0 .. P2P_REMOTE_NODE_MAX - 1
SubIdx   == 0 .. P2P_REMOTE_SUBS_PER_NODE - 1
RouteMax == P2P_REMOTE_NODE_MAX * P2P_REMOTE_SUBS_PER_NODE
RouteIdx == 0 .. RouteMax - 1

Route(F) == [owner : Node, hop : Node, filter : F]
NodeRec == [owner : Node, hop : Node, subs : [SubIdx -> Filter \cup {None}]]
Job == [node : NodeIdx, at : SubIdx]

ASSUME SizesAssumption ==
    /\ P2P_REMOTE_NODE_MAX \in Nat \ {0}
    /\ P2P_REMOTE_SUBS_PER_NODE \in Nat \ {0}
    /\ RouteMax \in Nat \ {0}

ASSUME InputsAssumption ==
    /\ Topic \cap Wild = {}
    /\ Match \subseteq Wild \X Topic
    /\ Hash \in [Topic -> Nat]
    /\ None \notin Node \cup Filter \cup Route(Filter) \cup NodeRec \cup Job \cup Nat
    /\ Deleted \notin Route(Filter) \cup {None}

VARIABLES
    nodes,     \* remote_nodes
    exact,     \* exact_routes: a route, Deleted or None
    wild,      \* wildcard_routes: a route or None
    job        \* refresh loop in progress, or None

vars == <<nodes, exact, wild, job>>

----------------------------------------------------------------------------
(* find_node_locked. *)
FindNode(o) == First({i \in NodeIdx : nodes[i] # None /\ nodes[i].owner = o})

NodeFor(o) == IF FindNode(o) # None THEN FindNode(o)
              ELSE First({i \in NodeIdx : nodes[i] = None})

NewNode(o, h) == [owner |-> o, hop |-> h, subs |-> [s \in SubIdx |-> None]]

(* The subscription entry for filter f: the one that has it, else the      *)
(* first unused one.                                                       *)
SubSlot(subs, f) ==
    LET has == First({s \in SubIdx : subs[s] = f})
    IN IF has # None THEN has ELSE First({s \in SubIdx : subs[s] = None})

(* The probe sequence of a filter, and the part of it a scan gets to: it   *)
(* ends at the first entry that was never used.                            *)
Probe(f, s) == (Hash[f] + s) % RouteMax

Reached(f) ==
    {s \in RouteIdx : \A j \in 0 .. s - 1 : exact[Probe(f, j)] # None}

IsRoute(r, o, f) == r \notin {None, Deleted} /\ r.owner = o /\ r.filter = f

\* Mutant: takes the first free entry or tombstone without looking further.
ExactUpsert_NoScan(o, h, f) ==
    LET s == First({j \in Reached(f) : exact[Probe(f, j)] \in {None, Deleted}})
    IN IF s = None THEN exact
       ELSE [exact EXCEPT ![Probe(f, s)] = [owner |-> o, hop |-> h, filter |-> f]]

(* exact_route_upsert_locked. *)
ExactUpsert(o, h, f) ==
    LET hit == First({s \in Reached(f) : IsRoute(exact[Probe(f, s)], o, f)})
        gap == First({s \in Reached(f) : exact[Probe(f, s)] \in {None, Deleted}})
        s == IF hit # None THEN hit ELSE gap
    IN IF s = None THEN exact
       ELSE [exact EXCEPT ![Probe(f, s)] = [owner |-> o, hop |-> h, filter |-> f]]

\* Mutant: an existing route keeps its old next hop.
WildUpsert_NoUpdate(o, h, f) ==
    LET gap == First({k \in RouteIdx : wild[k] = None})
    IN IF gap = None \/ \E k \in RouteIdx : IsRoute(wild[k], o, f) THEN wild
       ELSE [wild EXCEPT ![gap] = [owner |-> o, hop |-> h, filter |-> f]]

(* wildcard_route_upsert_locked. *)
WildUpsert(o, h, f) ==
    LET hit == First({k \in RouteIdx : IsRoute(wild[k], o, f)})
        gap == First({k \in RouteIdx : wild[k] = None})
        k == IF hit # None THEN hit ELSE gap
    IN IF k = None THEN wild
       ELSE [wild EXCEPT ![k] = [owner |-> o, hop |-> h, filter |-> f]]

(* route_upsert_locked: each table takes the filters of its kind. *)
RouteUpsert(o, h, f) ==
    IF f \in Topic
    THEN exact' = ExactUpsert(o, h, f) /\ UNCHANGED wild
    ELSE wild' = WildUpsert(o, h, f) /\ UNCHANGED exact

(* Routes in use. *)
ExactUsed == {k \in RouteIdx : exact[k] \notin {None, Deleted}}
WildUsed  == {k \in RouteIdx : wild[k] # None}
Routes    == {exact[k] : k \in ExactUsed} \cup {wild[k] : k \in WildUsed}

\* Mutant: a removed entry becomes free.
ExactRemove_Free(R) ==
    [k \in RouteIdx |-> IF exact[k] \in R THEN None ELSE exact[k]]

\* Mutant: the routes of a filter that is given up stay in the table.
ExactRemove_Keep(R) == exact

(* exact_route_remove_locked and exact_routes_remove_node_locked: the      *)
(* entries of the routes in R become tombstones.                           *)
ExactRemove(R) ==
    [k \in RouteIdx |-> IF exact[k] \in R THEN Deleted ELSE exact[k]]

(* wildcard_route_remove_locked and wildcard_routes_remove_node_locked. *)
WildRemove(R) ==
    [k \in RouteIdx |-> IF wild[k] \in R THEN None ELSE wild[k]]

----------------------------------------------------------------------------
Init ==
    /\ nodes = [i \in NodeIdx |-> None]
    /\ exact = [k \in RouteIdx |-> None]
    /\ wild = [k \in RouteIdx |-> None]
    /\ job = None

(* p2p_router_remote_subscribe: owner o subscribes to f, heard from peer h. *)
(* The first peer heard from is the next hop, until the owner itself is    *)
(* heard; a new next hop is written to all routes of the node.             *)
RemoteSubscribe(o, f, h) ==
    LET n == NodeFor(o)
        known == FindNode(o) # None
        old == IF known THEN nodes[n] ELSE NewNode(o, h)
        rerouted == ~known \/ (h = o /\ old.hop # o)
        hop == IF rerouted THEN h ELSE old.hop
        s == SubSlot(old.subs, f)
    IN
    /\ job = None
    /\ n # None
    /\ IF s = None
       THEN /\ nodes' = [nodes EXCEPT ![n] = [old EXCEPT !.hop = hop]]
            /\ UNCHANGED <<exact, wild, job>>
       ELSE /\ nodes' = [nodes EXCEPT ![n] = [old EXCEPT !.hop = hop, !.subs[s] = f]]
            /\ IF rerouted
               THEN job' = [node |-> n, at |-> 0] /\ UNCHANGED <<exact, wild>>
               ELSE RouteUpsert(o, hop, f) /\ UNCHANGED job

\* Mutant: one round too many.
RefreshNext_Over(j) ==
    IF j.at = P2P_REMOTE_SUBS_PER_NODE THEN None ELSE [j EXCEPT !.at = @ + 1]

(* The loop of node_routes_refresh_locked goes on to the next entry. *)
RefreshNext(j) ==
    IF j.at + 1 = P2P_REMOTE_SUBS_PER_NODE THEN None ELSE [j EXCEPT !.at = @ + 1]

(* One round of node_routes_refresh_locked. *)
RefreshRoute ==
    LET node == nodes[job.node]
        f == node.subs[job.at]
    IN
    /\ job # None
    /\ IF f = None THEN UNCHANGED <<exact, wild>>
       ELSE RouteUpsert(node.owner, node.hop, f)
    /\ job' = RefreshNext(job)
    /\ UNCHANGED nodes

(* p2p_router_remote_unsubscribe; a node without subscriptions is cleared. *)
RemoteUnsubscribe(o, f) ==
    LET n == FindNode(o)
        left == [s \in SubIdx |-> IF nodes[n].subs[s] = f THEN None
                                  ELSE nodes[n].subs[s]]
        gone == {r \in Routes : r.owner = o /\ r.filter = f}
    IN
    /\ job = None
    /\ n # None
    /\ IF \E s \in SubIdx : nodes[n].subs[s] = f
       THEN exact' = ExactRemove(gone) /\ wild' = WildRemove(gone)
       ELSE UNCHANGED <<exact, wild>>
    /\ nodes' = [nodes EXCEPT ![n] = IF \A s \in SubIdx : left[s] = None THEN None
                                     ELSE [@ EXCEPT !.subs = left]]
    /\ UNCHANGED job

(* A remote node or a route that depends on node x. *)
Uses(r, x) == r.owner = x \/ r.hop = x

(* p2p_router_remove_node: the connection to peer x is lost. *)
RemoveNode(x) ==
    LET gone == {r \in Routes : Uses(r, x)} IN
    /\ job = None
    /\ nodes' = [i \in NodeIdx |-> IF nodes[i] # None /\ Uses(nodes[i], x)
                                   THEN None ELSE nodes[i]]
    /\ exact' = ExactRemove(gone)
    /\ wild' = WildRemove(gone)
    /\ UNCHANGED job

(* p2p_router_find_next_hops for a topic; hops are connected peers, so its *)
(* limit of P2P_PEER_MAX hops is not reached.  x is the node to leave out. *)
ExactHops(t) ==
    {exact[Probe(t, s)].hop :
       s \in {j \in Reached(t) : /\ exact[Probe(t, j)] \notin {None, Deleted}
                                 /\ exact[Probe(t, j)].filter = t}}

WildHops(t) ==
    {wild[k].hop : k \in {j \in RouteIdx : /\ wild[j] # None
                                           /\ <<wild[j].filter, t>> \in Match}}

FindNextHops(t, x) == (ExactHops(t) \cup WildHops(t)) \ {x}

Next == \/ \E o \in Node, f \in Filter, h \in Node : RemoteSubscribe(o, f, h)
        \/ \E o \in Node, f \in Filter : RemoteUnsubscribe(o, f)
        \/ \E x \in Node : RemoveNode(x)
        \/ RefreshRoute

Spec == Init /\ [][Next]_vars

----------------------------------------------------------------------------
(* Properties. *)

(* The three tables and the loop counter keep their types: no upsert or    *)
(* probe leaves the fixed arrays, and each table has its kind of filters.  *)
TypeOK ==
    /\ nodes \in [NodeIdx -> NodeRec \cup {None}]
    /\ exact \in [RouteIdx -> Route(Topic) \cup {None, Deleted}]
    /\ wild \in [RouteIdx -> Route(Wild) \cup {None}]
    /\ job \in Job \cup {None}

Subscribed(i, f) == nodes[i] # None /\ \E s \in SubIdx : nodes[i].subs[s] = f

(* No route outlives its subscription: p2p_router_remote_unsubscribe and   *)
(* p2p_router_remove_node take the routes of both tables with them, also   *)
(* after the next hop has changed.  A route leads over the next hop of its *)
(* node, or over an earlier one when the owner has since become a direct   *)
(* peer.                                                                   *)
NoOrphanRoutes ==
    \A r \in Routes :
        \E i \in NodeIdx : /\ Subscribed(i, r.filter)
                           /\ nodes[i].owner = r.owner
                           /\ r.hop = nodes[i].hop \/ nodes[i].hop = r.owner

(* The lookup of p2p_router_find_next_hops, which stops at the first entry *)
(* never used, gets to every route in the hash table, whatever insertions, *)
(* removals and reuse of tombstones went before.                           *)
LookupComplete ==
    \A k \in ExactUsed :
        \E s \in Reached(exact[k].filter) : Probe(exact[k].filter, s) = k

(* An owner and a filter have one route: a refresh or a reused tombstone   *)
(* never leaves a second copy with an old next hop.                        *)
OneRoute ==
    /\ \A j, k \in ExactUsed :
         exact[j].owner = exact[k].owner /\ exact[j].filter = exact[k].filter => j = k
    /\ \A j, k \in WildUsed :
         wild[j].owner = wild[k].owner /\ wild[j].filter = wild[k].filter => j = k

(* A publish is forwarded to the next hops of exactly the nodes with a     *)
(* matching subscription, except the node it came from.                    *)
Covers(f, t) == f = t \/ <<f, t>> \in Match

NextHopsExact ==
    job = None =>
        \A t \in Topic, x \in Node \cup {None} :
            FindNextHops(t, x) =
                {nodes[i].hop : i \in {j \in NodeIdx :
                                         \E f \in Filter : /\ Covers(f, t)
                                                           /\ Subscribed(j, f)}} \ {x}
=============================================================================
