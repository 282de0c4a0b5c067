------------------------------ MODULE Election ------------------------------
(***************************************************************************)
(* The router election of one broker (p2p_election.c): its table of the    *)
(* peers it has heard from, the role it gives itself, and the signature of *)
(* the topology that the shard cache and the resync are keyed by.          *)
(*                                                                         *)
(* The functions of the file run under p2p_lock, so that each is one step. *)
(* They are operators from broker to broker here: ElectionNet has several  *)
(* brokers that exchange announcements, ShardCache has the threads of one. *)
(* Node identifiers are numbers (memcmp is <).  What the clock and the     *)
(* other components decide is an input: the score of the broker itself,    *)
(* from the free slots, the uptime and the rate of publishes, the load of  *)
(* the router, and the entries that were last heard from more than         *)
(* P2P_PEER_TIMEOUT_MS ago.                                                *)
(***************************************************************************)
EXTENDS Integers, Sequences, FiniteSets, TableScan

CONSTANTS
    Node,               \* the node identifiers
    Score,              \* the scores that are announced
    Load,               \* the loads of a broker: see RouterTarget
    P2P_PEER_MAX,
    P2P_ROUTER_COUNT,   \* 0: the number of routers follows the load
    StaticSeedsOnly     \* CONFIG_MQTT_P2P_STATIC_SEEDS_ONLY

ASSUME ElectionAssumption ==
    /\ Node \subseteq Nat
    /\ IsFiniteSet(Node)
    /\ Score \subseteq Int
    /\ Load \subseteq [publishes : Nat, subs : Nat, exact : Nat, wild : Nat, nodes : Nat]
    /\ P2P_PEER_MAX \in Nat \ {0}
    /\ P2P_ROUTER_COUNT \in Nat
    /\ StaticSeedsOnly \in BOOLEAN
    /\ None \notin [id : Node, score : Score, role : {"LEAF", "ROUTER"}]
    /\ None \notin Nat

Role == {"LEAF", "ROUTER"}

(* An announcement, and an entry of the table. *)
Ann == [id : Node, score : Score, role : Role]

(* Slot 0 is the broker itself. *)
Slot == 0 .. P2P_PEER_MAX
PeerSlot == 1 .. P2P_PEER_MAX

InUse(peers) == {i \in Slot : peers[i] # None}
Entries(peers) == {peers[i] : i \in InUse(peers)}

(* The inputs of recompute_role_locked, for a table and for an empty one. *)
Input(peers) == [score : Score, load : Load, expired : SUBSET (InUse(peers) \ {0})]
Fresh == [score : Score, load : Load, expired : {{}}]

score_before(a, b) == \/ a.score > b.score
                      \/ a.score = b.score /\ a.id < b.id

(* The place of an entry in the sorted table, from 0. *)
Place(E, e) == Cardinality({d \in E : score_before(d, e)})

(* The entries of E in that order. *)
Sorted(E) == [k \in 1 .. Cardinality(E) |-> CHOOSE e \in E : Place(E, e) = k - 1]

----------------------------------------------------------------------------
(* The rounds of the loop "while ((1 << (r + 1)) <= n) r++". *)
ilog2_floor(n) == Cardinality({r \in 1 .. n : 2^r <= n})

Pressure(load) ==
    load.subs * 4 + load.exact * 2 + load.wild * 3 + load.nodes * 6

(* What a number of routers is worth; the free slots and the publishes     *)
(* weigh the same for every candidate.                                     *)
Reward(c, n, load) ==
    LET span == (n + c - 1) \div c IN
      (Pressure(load) * c) \div n
    + (IF c > 1 THEN ilog2_floor(c) * 10 ELSE 0)
    - (c * 14 + span * span * 3 + n * 2)

(* The number of routers for n active nodes. *)
RouterTarget(n, load) ==
    CASE n <= 1 -> n
      [] n > 1 /\ P2P_ROUTER_COUNT > 0 ->
            IF P2P_ROUTER_COUNT < n THEN P2P_ROUTER_COUNT ELSE n
      [] n > 1 /\ P2P_ROUTER_COUNT = 0 /\ n <= 5
               /\ (load.publishes > 0 \/ Pressure(load) > 0) -> n
      [] OTHER ->
            CHOOSE c \in 1 .. n :
                \A d \in 1 .. n : \/ Reward(c, n, load) > Reward(d, n, load)
                                  \/ Reward(c, n, load) = Reward(d, n, load) /\ c <= d

router_target_count ==
    [n \in 0 .. P2P_PEER_MAX + 1 |-> [l \in Load |-> RouterTarget(n, l)]]

----------------------------------------------------------------------------
(* A broker: its identifier, its table, its role and its signature.  The   *)
(* hash is abstracted to what is hashed.                                   *)
Broker == [id : Node, peers : [Slot -> Ann \cup {None}], role : Role,
           sig : Seq(Int)]

\* Mutant: the routers are the first entries of the table.
Elected_Unsorted(peers, id, k) ==
    \E i \in InUse(peers) : i < k /\ peers[i].id = id

(* The broker is among the first k of the sorted table. *)
Elected(peers, id, k) ==
    \E e \in Entries(peers) : e.id = id /\ Place(Entries(peers), e) < k

(* expire_old_peers and the update of slot 0, which still has the old role. *)
Refreshed(b, in) ==
    [i \in Slot |-> IF i = 0 THEN [b.peers[0] EXCEPT !.score = in.score, !.role = b.role]
                    ELSE IF i \in in.expired THEN None
                    ELSE b.peers[i]]

Ids(E) == [k \in 1 .. Len(E) |-> E[k].id]

\* Mutant: only the number of the entries is hashed.
StaticSig_Count(peers) == <<Cardinality(InUse(peers))>>

(* The signature of a static network: the identifiers in the order of the  *)
(* table.                                                                  *)
StaticSig(peers) ==
    LET I == InUse(peers)
        slot(k) == CHOOSE i \in I : Cardinality({j \in I : j < i}) = k - 1
    IN [k \in 1 .. Cardinality(I) |-> peers[slot(k)].id]

(* That of a dynamic one: the number of routers, and those of the sorted   *)
(* table.                                                                  *)
DynamicSig(peers, k) ==
    <<k>> \o Ids(SelectSeq(Sorted(Entries(peers)), LAMBDA e : e.role = "ROUTER"))

(* recompute_role_locked.  The signature is taken from the copy of the     *)
(* table that was sorted, where the broker still has its old role.         *)
Recompute(b, in) ==
    LET peers == Refreshed(b, in)
        k     == router_target_count[Cardinality(InUse(peers))][in.load]
        role  == IF StaticSeedsOnly \/ Elected(peers, b.id, k) THEN "ROUTER" ELSE "LEAF"
    IN [id    |-> b.id,
        peers |-> [peers EXCEPT ![0].role = role],
        role  |-> role,
        sig   |-> IF StaticSeedsOnly THEN StaticSig(peers) ELSE DynamicSig(peers, k)]

(* p2p_election_init. *)
InitBroker(id, in) ==
    Recompute([id |-> id, role |-> "ROUTER", sig |-> <<>>,
               peers |-> [i \in Slot |-> IF i = 0
                            THEN [id |-> id, score |-> 0, role |-> "LEAF"]
                            ELSE None]],
              in)

\* Mutant: the scan stops at the first free entry.
PeerSlotFor_Free(peers, id) ==
    First({i \in PeerSlot : peers[i] = None \/ peers[i].id = id})

(* The entry of a peer, else the first free one. *)
PeerSlotFor(peers, id) ==
    LET found == First({i \in PeerSlot : peers[i] # None /\ peers[i].id = id})
    IN IF found # None THEN found ELSE First({i \in PeerSlot : peers[i] = None})

(* p2p_election_update_peer.  An announcement of the broker itself and one *)
(* that finds the table full change nothing.                               *)
UpdatePeer(b, ann, in) ==
    LET i == PeerSlotFor(b.peers, ann.id)
    IN IF ann.id = b.id \/ i = None THEN b
       ELSE Recompute([b EXCEPT !.peers[i] = ann],
                      [in EXCEPT !.expired = @ \ {i}])

(* p2p_election_build_announce: what is sent after recompute_role_locked. *)
Announcement(b) == [id |-> b.id, score |-> b.peers[0].score, role |-> b.role]
=============================================================================
