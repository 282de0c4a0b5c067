-------------------------- MODULE Election_proofs --------------------------
(***************************************************************************)
(* The election of the routers (ElectionNet, p2p_election.c) and the shard *)
(* cache that is keyed by its signature (ShardCache, p2p_shard.c): both    *)
(* are built from the operators of Election.                               *)
(*                                                                         *)
(* The tables of the election never hold a peer twice, for every number of *)
(* brokers, table size, score and load and for every order, loss and       *)
(* repetition of announcements.  The argument is about one broker:         *)
(* recompute_role_locked only frees entries and changes the score and role *)
(* of slot 0, and p2p_election_update_peer writes a free slot only if no   *)
(* slot has the identifier.  What is proved along the way is the type of   *)
(* the tables and of the announcements.                                    *)
(*                                                                         *)
(* The cache is treated for every hash function, every size of its tables  *)
(* and every number of threads and keys.  Its hash table has no deletions: *)
(* an entry, once used, is never free again.  An entry is therefore        *)
(* reached by its probe for ever, and a store that reaches no entry of its *)
(* own key may write the first free one or, in a full table, any.          *)
(***************************************************************************)
EXTENDS ElectionNet, ShardCache, TableScan_proofs, TLAPS, FiniteSetTheorems


(* The part of the type invariant that uniqueness rests on, and uniqueness *)
(* itself, for broker b with identifier n.                                 *)
TableOK(b, n) ==
    /\ b.id = n
    /\ b.role \in Role
    /\ b.peers \in [Slot -> Ann \cup {None}]
    /\ b.peers[0] # None
    /\ b.peers[0].id = n
    /\ \A i, j \in Slot :
         b.peers[i] # None /\ b.peers[j] # None /\ b.peers[i].id = b.peers[j].id => i = j

IInv ==
    /\ DOMAIN brokers = Node
    /\ brokers = [n \in DOMAIN brokers |-> brokers[n]]
    /\ \A n \in Node : TableOK(brokers[n], n)
    /\ net \subseteq Ann

----------------------------------------------------------------------------
LEMMA Slots == 0 \in Slot /\ PeerSlot \subseteq Slot /\ Slot \subseteq Nat /\ 0 \notin PeerSlot
               /\ Slot = PeerSlot \cup {0}
  BY ElectionAssumption DEF Slot, PeerSlot

LEMMA NoneIsNoAnn == None \notin Ann
  BY ElectionAssumption DEF Ann, Role

(* recompute_role_locked keeps the table well formed: it frees entries and *)
(* rewrites the score and the role of slot 0.                              *)
LEMMA RecomputeOK ==
    ASSUME NEW n \in Node, NEW b, TableOK(b, n), NEW in, in.score \in Score
    PROVE  TableOK(Recompute(b, in), n)
<1> DEFINE p == Refreshed(b, in)
           r == Recompute(b, in)
<1>1. b.peers[0] \in Ann
  BY Slots DEF TableOK
<1>2. /\ p \in [Slot -> Ann \cup {None}]
      /\ p[0] \in Ann /\ p[0].id = n
      /\ \A i \in Slot : p[i] # None => b.peers[i] # None /\ p[i].id = b.peers[i].id
  BY <1>1, Slots DEF Refreshed, TableOK, Ann
<1>3. r.id = n /\ r.role \in Role
  BY DEF Recompute, TableOK, Role
<1>4. r.peers = [p EXCEPT ![0].role = r.role]
  BY DEF Recompute
<1> HIDE DEF p, r
<1>5. /\ r.peers \in [Slot -> Ann \cup {None}]
      /\ r.peers[0] \in Ann /\ r.peers[0].id = n
      /\ \A i \in Slot \ {0} : r.peers[i] = p[i]
  BY <1>2, <1>3, <1>4, Slots DEF Ann
<1>6. \A i \in Slot : r.peers[i] # None => b.peers[i] # None /\ r.peers[i].id = b.peers[i].id
  BY <1>1, <1>2, <1>5, NoneIsNoAnn DEF TableOK
<1>7. \A i, j \in Slot :
         r.peers[i] # None /\ r.peers[j] # None /\ r.peers[i].id = r.peers[j].id => i = j
  BY <1>6 DEF TableOK
<1>8. TableOK(r, n)
  BY <1>3, <1>5, <1>7, NoneIsNoAnn DEF TableOK
<1> QED
  BY <1>8 DEF r

(* p2p_election_init recomputes the role from a table with the broker      *)
(* alone.                                                                  *)
LEMMA InitIs ==
    ASSUME NEW n \in Node, NEW in \in Fresh
    PROVE  \E b : TableOK(b, n) /\ InitBroker(n, in) = Recompute(b, in)
<1>1. in.score \in Score
  BY DEF Fresh
<1> DEFINE e == [id |-> n, score |-> in.score, role |-> "LEAF"]
           b == [id |-> n, role |-> "ROUTER", sig |-> <<>>,
                 peers |-> [i \in Slot |-> IF i = 0 THEN e ELSE None]]
           z == [id |-> n, role |-> "ROUTER", sig |-> <<>>,
                 peers |-> [i \in Slot |-> IF i = 0
                              THEN [id |-> n, score |-> 0, role |-> "LEAF"]
                              ELSE None]]
<1>2. e \in Ann
  BY <1>1 DEF Ann, Role
<1>3. TableOK(b, n)
  BY <1>2, Slots, NoneIsNoAnn DEF TableOK, Role
<1>4. Refreshed(z, in) = Refreshed(b, in)
  <2>1. /\ z.peers[0] = [id |-> n, score |-> 0, role |-> "LEAF"]
        /\ b.peers[0] = e
        /\ z.role = b.role
        /\ \A i \in Slot \ {0} : z.peers[i] = b.peers[i]
    BY Slots
  <2>2. [z.peers[0] EXCEPT !.score = in.score, !.role = z.role]
          = [b.peers[0] EXCEPT !.score = in.score, !.role = b.role]
    <3>1. [z.peers[0] EXCEPT !.score = in.score] = e
      BY <2>1
    <3>2. [b.peers[0] EXCEPT !.score = in.score] = e
      BY <2>1
    <3> HIDE DEF b, z
    <3> QED
      BY <2>1, <3>1, <3>2
  <2> HIDE DEF b, z, e
  <2> QED
    BY <2>1, <2>2 DEF Refreshed
<1>5. Recompute(z, in) = Recompute(b, in)
  BY <1>4 DEF Recompute
<1> QED
  BY <1>3, <1>5 DEF InitBroker

LEMMA InitOK ==
    ASSUME NEW n \in Node, NEW in \in Fresh
    PROVE  TableOK(InitBroker(n, in), n)
  BY InitIs, RecomputeOK DEF Fresh

(* p2p_election_update_peer changes nothing, or recomputes the role from a *)
(* table: the slot it writes is the one of the peer, or a free one when    *)
(* the peer has none.                                                      *)
LEMMA UpdateIs ==
    ASSUME NEW n \in Node, NEW b, TableOK(b, n), NEW ann \in Ann,
           NEW in \in Input(b.peers)
    PROVE  \/ UpdatePeer(b, ann, in) = b
           \/ \E w, in2 : /\ TableOK(w, n) /\ in2.score \in Score /\ in2.load \in Load
                          /\ UpdatePeer(b, ann, in) = Recompute(w, in2)
<1> DEFINE s == PeerSlotFor(b.peers, ann.id)
           in2 == [in EXCEPT !.expired = @ \ {s}]
           w == [b EXCEPT !.peers[s] = ann]
<1>1. CASE ann.id = b.id \/ s = None
  BY <1>1 DEF UpdatePeer
<1>2. CASE ann.id # b.id /\ s # None
  <2> DEFINE Mine == {i \in PeerSlot : b.peers[i] # None /\ b.peers[i].id = ann.id}
             Free == {i \in PeerSlot : b.peers[i] = None}
  <2>1. Mine \subseteq Nat /\ Free \subseteq Nat
    BY Slots
  <2>2. /\ s \in PeerSlot
        /\ \/ b.peers[s] # None /\ b.peers[s].id = ann.id
           \/ \A i \in PeerSlot : b.peers[i] # None => b.peers[i].id # ann.id
    <3>1. CASE Mine # {}
      <4>1. First(Mine) \in Mine
        BY <2>1, <3>1, FirstFound
      <4>2. s = First(Mine)
        BY <4>1, <2>1, ElectionAssumption DEF PeerSlotFor
      <4> QED
        BY <4>1, <4>2
    <3>2. CASE Mine = {}
      <4>0. First(Mine) = None
        BY <3>2, FirstEmpty
      <4>1. s = First(Free)
        BY <4>0 DEF PeerSlotFor
      <4>2. Free # {}
        BY <1>2, <4>1, FirstEmpty
      <4>3. s \in Free
        BY <2>1, <4>1, <4>2, FirstFound
      <4> QED
        BY <3>2, <4>3
    <3> QED
      BY <3>1, <3>2
  <2> HIDE DEF s
  <2>3. /\ w.id = b.id /\ w.role = b.role
        /\ w.peers = [b.peers EXCEPT ![s] = ann]
    OBVIOUS
  <2>4. TableOK(w, n)
    <3> HIDE DEF w
    <3>1. w.peers \in [Slot -> Ann \cup {None}] /\ w.peers[s] = ann /\ s \in Slot \ {0}
      BY <2>2, <2>3, Slots DEF TableOK
    <3>2. \A i \in Slot \ {s} : w.peers[i] = b.peers[i]
      BY <2>3 DEF TableOK
    <3>3. \A i \in Slot \ {s} : b.peers[i] # None => b.peers[i].id # ann.id
      BY <1>2, <2>2, <3>1, Slots DEF TableOK, PeerSlot, Slot
    <3>4. \A i, j \in Slot :
            w.peers[i] # None /\ w.peers[j] # None /\ w.peers[i].id = w.peers[j].id => i = j
      BY <3>1, <3>2, <3>3 DEF TableOK
    <3> QED
      BY <2>3, <3>1, <3>2, <3>4, Slots DEF TableOK
  <2>5. in2.score \in Score /\ in2.load \in Load
    BY DEF Input
  <2>6. UpdatePeer(b, ann, in) = Recompute(w, in2)
    BY <1>2 DEF UpdatePeer, s
  <2> HIDE DEF w, in2
  <2> QED
    BY <2>4, <2>5, <2>6
<1> QED
  BY <1>1, <1>2

LEMMA UpdateOK ==
    ASSUME NEW n \in Node, NEW b, TableOK(b, n), NEW ann \in Ann,
           NEW in \in Input(b.peers)
    PROVE  TableOK(UpdatePeer(b, ann, in), n)
  BY UpdateIs, RecomputeOK

----------------------------------------------------------------------------
(* The initial brokers have well-formed tables, and no announcement is     *)
(* under way.                                                              *)
LEMMA InitInv == NetInit => IInv
<1> SUFFICES ASSUME NetInit PROVE IInv
  OBVIOUS
<1>1. PICK in \in [Node -> Fresh] : brokers = [n \in Node |-> InitBroker(n, in[n])]
  BY DEF NetInit
<1>2. \A n \in Node : TableOK(brokers[n], n)
  BY <1>1, InitOK
<1> QED
  BY <1>1, <1>2 DEF NetInit, IInv

(* Replacing one broker by a well-formed one keeps all of them so. *)
LEMMA Replaced ==
    ASSUME IInv, NEW n \in Node, NEW b, TableOK(b, n), brokers' = [brokers EXCEPT ![n] = b]
    PROVE  /\ DOMAIN brokers' = Node
           /\ brokers' = [m \in DOMAIN brokers' |-> brokers'[m]]
           /\ \A m \in Node : TableOK(brokers'[m], m)
  BY DEF IInv

(* Every step keeps the tables well formed. *)
LEMMA NextInv == IInv /\ [NetNext]_netVars => IInv'
<1> SUFFICES ASSUME IInv, [NetNext]_netVars PROVE IInv'
  OBVIOUS
<1>1. ASSUME NEW n \in Node, Broadcast(n) PROVE IInv'
  <2>1. PICK in \in Input(brokers[n].peers) :
            /\ brokers' = [brokers EXCEPT ![n] = Recompute(brokers[n], in)]
            /\ net' = net \cup {Announcement(brokers'[n])}
    BY <1>1 DEF Broadcast
  <2>2. TableOK(Recompute(brokers[n], in), n)
    BY RecomputeOK DEF IInv, Input
  <2>3. /\ DOMAIN brokers' = Node
        /\ brokers' = [m \in DOMAIN brokers' |-> brokers'[m]]
        /\ \A m \in Node : TableOK(brokers'[m], m)
    BY <2>1, <2>2, Replaced
  <2>4. brokers'[n].peers[0] \in Ann
    BY <2>3, Slots DEF TableOK
  <2>5. Announcement(brokers'[n]) \in Ann
    BY <2>3, <2>4 DEF Announcement, Ann, TableOK
  <2> QED
    BY <2>1, <2>3, <2>5 DEF IInv
<1>2. ASSUME NEW n \in Node, Restart(n) PROVE IInv'
  <2>1. PICK in \in Fresh : brokers' = [brokers EXCEPT ![n] = InitBroker(n, in)]
    BY <1>2 DEF Restart
  <2>2. TableOK(InitBroker(n, in), n)
    BY InitOK
  <2> QED
    BY <1>2, <2>1, <2>2, Replaced DEF IInv, Restart
<1>3. ASSUME NEW n \in Node, NEW ann \in net, Receive(n, ann) PROVE IInv'
  <2>1. PICK in \in Input(brokers[n].peers) :
            brokers' = [brokers EXCEPT ![n] = UpdatePeer(brokers[n], ann, in)]
    BY <1>3 DEF Receive
  <2>2. TableOK(UpdatePeer(brokers[n], ann, in), n)
    BY UpdateOK DEF IInv
  <2> QED
    BY <1>3, <2>1, <2>2, Replaced DEF IInv, Receive
<1>4. ASSUME NEW ann \in net, Lose(ann) PROVE IInv'
  BY <1>4 DEF Lose, IInv
<1>5. CASE UNCHANGED netVars
  BY <1>5 DEF netVars, IInv
<1> QED
  BY <1>1, <1>2, <1>3, <1>4, <1>5 DEF NetNext

(* The tables of all brokers are well formed in every reachable state of   *)
(* the network: what p2p_election.c writes is the broker itself in slot 0  *)
(* and announcements in the others.                                        *)
THEOREM TablesWellFormed == NetSpec => []IInv
  BY InitInv, NextInv, PTL DEF NetSpec

(* No broker ever counts a peer, or itself, twice (the scan of             *)
(* p2p_election_update_peer goes past free entries), whatever the network  *)
(* loses, delays, repeats or reorders and whichever brokers restart.       *)
THEOREM UniquePeers == NetSpec => []PeersUnique
<1>1. IInv => PeersUnique
  BY DEF IInv, TableOK, PeersUnique
<1> QED
  BY <1>1, TablesWellFormed, PTL
----------------------------------------------------------------------------
(* What router_target_count returns.                                       *)

LEMMA LogType ==
    ASSUME NEW c \in Nat PROVE ilog2_floor(c) \in Nat
<1> DEFINE R == {r \in 1 .. c : 2^r <= c}
<1>1. IsFiniteSet(1 .. c)
  BY FS_Interval
<1>2. R \in SUBSET (1 .. c)
  OBVIOUS
<1> HIDE DEF R
<1>3. Cardinality(R) \in Nat
  BY <1>1, <1>2, FS_Subset, FS_CardinalityType
<1> QED
  BY <1>3 DEF ilog2_floor, R

LEMMA RewardType ==
    ASSUME NEW n \in Nat \ {0}, NEW c \in 1 .. n, NEW l \in Load
    PROVE  Reward(c, n, l) \in Int
<1>1. Pressure(l) \in Nat
  BY ElectionAssumption DEF Pressure
<1> DEFINE span == (n + c - 1) \div c
           share == (Pressure(l) * c) \div n
           links == IF c > 1 THEN ilog2_floor(c) * 10 ELSE 0
<1>2. span \in Int
  OBVIOUS
<1>3. share \in Int
  <2> DEFINE x == Pressure(l) * c
  <2>1. x \in Int
    BY <1>1
  <2> HIDE DEF x
  <2>2. x \div n \in Int
    BY <2>1
  <2> QED
    BY <2>2 DEF x
<1>4. links \in Int
  BY LogType
<1>5. Reward(c, n, l) = share + links - (c * 14 + span * span * 3 + n * 2)
  BY DEF Reward
<1> HIDE DEF span, share, links
<1>6. span * span \in Int
  BY <1>2
<1> QED
  BY <1>2, <1>3, <1>4, <1>5, <1>6

(* At least one router, and at most all nodes; all the configured ones if  *)
(* there are as many nodes.                                                *)
LEMMA TargetRange ==
    ASSUME NEW n \in Nat \ {0}, NEW l \in Load
    PROVE  /\ RouterTarget(n, l) \in 1 .. n
           /\ P2P_ROUTER_COUNT > 0 =>
                RouterTarget(n, l) = n \/ RouterTarget(n, l) = P2P_ROUTER_COUNT
<1>0. P2P_ROUTER_COUNT \in Nat
  BY ElectionAssumption
<1>1. CASE n <= 1
  BY <1>1 DEF RouterTarget
<1>2. CASE n > 1 /\ P2P_ROUTER_COUNT > 0
  <2>1. RouterTarget(n, l) = IF P2P_ROUTER_COUNT < n THEN P2P_ROUTER_COUNT ELSE n
    BY <1>0, <1>2 DEF RouterTarget
  <2> QED
    BY <1>0, <1>2, <2>1
<1>3. CASE n > 1 /\ P2P_ROUTER_COUNT = 0 /\ n <= 5
           /\ (l.publishes > 0 \/ Pressure(l) > 0)
  <2>1. RouterTarget(n, l) = n
    BY <1>3 DEF RouterTarget
  <2> QED
    BY <1>3, <2>1
<1>4. CASE n > 1 /\ P2P_ROUTER_COUNT = 0
           /\ ~(n <= 5 /\ (l.publishes > 0 \/ Pressure(l) > 0))
  <2> DEFINE Best(c) == \A d \in 1 .. n :
                           \/ Reward(c, n, l) > Reward(d, n, l)
                           \/ Reward(c, n, l) = Reward(d, n, l) /\ c <= d
             f == [c \in 1 .. n |-> Reward(c, n, l)]
  <2>1. f \in [1 .. n -> Int]
    BY RewardType
  <2>2. \E c \in 1 .. n : \A d \in 1 .. n : f[c] > f[d] \/ (f[c] = f[d] /\ c <= d)
    BY <2>1, FirstBest
  <2>3. \E c \in 1 .. n : Best(c)
    BY <2>2
  <2>4. RouterTarget(n, l) = CHOOSE c \in 1 .. n : Best(c)
    BY <1>4 DEF RouterTarget
  <2> HIDE DEF Best
  <2>5. RouterTarget(n, l) \in 1 .. n
    BY <2>3, <2>4
  <2> QED
    BY <1>4, <2>5
<1> QED
  BY <1>0, <1>1, <1>2, <1>3, <1>4

----------------------------------------------------------------------------
(* The entries before the broker in its own table.                         *)
Before(peers) == {i \in InUse(peers) : score_before(peers[i], peers[0])}

(* The table of a broker: as TableOK, without the other fields. *)
Table(peers, n) ==
    /\ peers \in [Slot -> Ann \cup {None}]
    /\ peers[0] # None
    /\ peers[0].id = n
    /\ \A i, j \in Slot :
         peers[i] # None /\ peers[j] # None /\ peers[i].id = peers[j].id => i = j

(* A function that keeps different elements apart keeps the cardinality. *)
LEMMA SameSize ==
    ASSUME NEW S, NEW T, IsFiniteSet(S), NEW f \in [S -> T],
           \A x, y \in S : f[x] = f[y] => x = y, \A z \in T : \E x \in S : f[x] = z
    PROVE  Cardinality(T) = Cardinality(S)
<1>1. f \in Injection(S, T) /\ f \in Surjection(S, T)
  BY DEF Injection, Surjection, IsInjective
<1>2. ExistsBijection(S, T)
  BY <1>1 DEF ExistsBijection, Bijection
<1> QED
  BY <1>2, FS_Bijection

LEMMA SlotCard ==
    ASSUME NEW peers
    PROVE  /\ IsFiniteSet(InUse(peers)) /\ Cardinality(InUse(peers)) \in 0 .. P2P_PEER_MAX + 1
           /\ IsFiniteSet(Before(peers)) /\ Cardinality(Before(peers)) \in Nat
<1>1. IsFiniteSet(Slot) /\ Cardinality(Slot) = P2P_PEER_MAX + 1
  BY FS_Interval, ElectionAssumption DEF Slot
<1>2. InUse(peers) \in SUBSET Slot /\ Before(peers) \in SUBSET Slot
  BY DEF InUse, Before
<1> QED
  BY <1>1, <1>2, FS_Subset, FS_CardinalityType, ElectionAssumption

(* Sorting a copy of the table elects the broker if fewer than k entries   *)
(* are before it.                                                          *)
LEMMA ElectedBefore ==
    ASSUME NEW n \in Node, NEW peers, Table(peers, n), NEW k
    PROVE  Elected(peers, n, k) <=> Cardinality(Before(peers)) < k
<1> DEFINE E == Entries(peers)
           D == {d \in E : score_before(d, peers[0])}
           f == [i \in Before(peers) |-> peers[i]]
<1>1. f \in [Before(peers) -> D]
  BY DEF Before, Entries
<1>2. \A x, y \in Before(peers) : f[x] = f[y] => x = y
  BY DEF Before, InUse, Table
<1>3. \A z \in D : \E x \in Before(peers) : f[x] = z
  BY DEF Before, Entries
<1> HIDE DEF f
<1>4. Cardinality(D) = Cardinality(Before(peers))
  BY <1>1, <1>2, <1>3, SlotCard, SameSize
<1>5. Place(E, peers[0]) = Cardinality(Before(peers))
  BY <1>4 DEF Place
<1>6. peers[0] \in E /\ \A e \in E : e.id = n => e = peers[0]
  BY Slots DEF Table, Entries, InUse
<1> QED
  BY <1>5, <1>6, Slots DEF Elected, Table

(* The role of a broker is what its table and some load call for.  (In the *)
(* C code the load is that of the moment of the last recompute.)           *)
RoleOK(b) ==
    \E l \in Load : b.role = "ROUTER" <=>
                      \/ StaticSeedsOnly
                      \/ Cardinality(Before(b.peers)) < RouterTarget(Cardinality(InUse(b.peers)), l)

(* recompute_role_locked: the role it writes back to slot 0 has no part in *)
(* the order.                                                              *)
LEMMA RecomputeRole ==
    ASSUME NEW n \in Node, NEW b, TableOK(b, n), NEW in, in.score \in Score, in.load \in Load
    PROVE  RoleOK(Recompute(b, in))
<1> DEFINE p == Refreshed(b, in)
           r == Recompute(b, in)
           k == router_target_count[Cardinality(InUse(p))][in.load]
<1>1. b.peers[0] \in Ann
  BY Slots DEF TableOK
<1>2. /\ p \in [Slot -> Ann \cup {None}]
      /\ p[0] \in Ann /\ p[0].id = n
      /\ \A i \in Slot : p[i] # None => b.peers[i] # None /\ p[i].id = b.peers[i].id
  BY <1>1, Slots DEF Refreshed, TableOK, Ann
<1>3. Table(p, n)
  <2> HIDE DEF p
  <2> QED
    BY <1>2, NoneIsNoAnn DEF Table, TableOK
<1>4. /\ r.peers = [p EXCEPT ![0].role = r.role]
      /\ r.role \in Role
      /\ r.role = "ROUTER" <=> StaticSeedsOnly \/ Elected(p, n, k)
  BY DEF Recompute, TableOK, Role
<1>5. k = RouterTarget(Cardinality(InUse(p)), in.load)
  <2> DEFINE c == Cardinality(InUse(p))
  <2>1. c \in 0 .. P2P_PEER_MAX + 1
    BY SlotCard
  <2> HIDE DEF c
  <2>2. router_target_count[c][in.load] = RouterTarget(c, in.load)
    BY <2>1 DEF router_target_count
  <2> QED
    BY <2>2 DEF c
<1> HIDE DEF p, r, k
<1>6. /\ r.peers[0] \in Ann /\ r.peers[0].id = p[0].id /\ r.peers[0].score = p[0].score
      /\ \A i \in Slot \ {0} : r.peers[i] = p[i]
  BY <1>2, <1>4, Slots DEF Ann
<1>7. InUse(r.peers) = InUse(p)
  BY <1>2, <1>6, NoneIsNoAnn DEF InUse
<1>8. \A i \in Slot : score_before(r.peers[i], r.peers[0]) <=> score_before(p[i], p[0])
  BY <1>6 DEF score_before
<1>9. Before(r.peers) = Before(p)
  BY <1>7, <1>8 DEF Before, InUse
<1>10. Elected(p, n, k) <=> Cardinality(Before(p)) < k
  BY <1>3, ElectedBefore
<1>11. RoleOK(r)
  BY <1>4, <1>5, <1>7, <1>9, <1>10 DEF RoleOK
<1> QED
  BY <1>11 DEF r

AInv == IInv /\ \A n \in Node : RoleOK(brokers[n])

(* Every broker that recomputes gets a role that fits its new table, the   *)
(* others keep role and table.                                             *)
LEMMA RolesReplaced ==
    ASSUME AInv, NEW n \in Node, NEW b, RoleOK(b), brokers' = [brokers EXCEPT ![n] = b]
    PROVE  \A m \in Node : RoleOK(brokers'[m])
  BY DEF AInv, IInv

LEMMA NextRoles == AInv /\ [NetNext]_netVars => AInv'
<1> SUFFICES ASSUME AInv, [NetNext]_netVars PROVE AInv'
  OBVIOUS
<1>0. IInv /\ \A n \in Node : TableOK(brokers[n], n) /\ RoleOK(brokers[n])
  BY DEF AInv, IInv
<1>a. IInv'
  BY <1>0, NextInv
<1>1. ASSUME NEW n \in Node, Broadcast(n) PROVE \A m \in Node : RoleOK(brokers'[m])
  <2>1. PICK in \in Input(brokers[n].peers) :
            brokers' = [brokers EXCEPT ![n] = Recompute(brokers[n], in)]
    BY <1>1 DEF Broadcast
  <2>2. RoleOK(Recompute(brokers[n], in))
    BY <1>0, RecomputeRole DEF Input
  <2> QED
    BY <2>1, <2>2, RolesReplaced
<1>2. ASSUME NEW n \in Node, Restart(n) PROVE \A m \in Node : RoleOK(brokers'[m])
  <2>1. PICK in \in Fresh : brokers' = [brokers EXCEPT ![n] = InitBroker(n, in)]
    BY <1>2 DEF Restart
  <2>2. RoleOK(InitBroker(n, in))
    BY InitIs, RecomputeRole DEF Fresh
  <2> QED
    BY <2>1, <2>2, RolesReplaced
<1>3. ASSUME NEW n \in Node, NEW ann \in net, Receive(n, ann)
      PROVE  \A m \in Node : RoleOK(brokers'[m])
  <2>1. PICK in \in Input(brokers[n].peers) :
            brokers' = [brokers EXCEPT ![n] = UpdatePeer(brokers[n], ann, in)]
    BY <1>3 DEF Receive
  <2>2. ann \in Ann
    BY <1>0 DEF IInv
  <2>3. RoleOK(UpdatePeer(brokers[n], ann, in))
    BY <1>0, <2>2, UpdateIs, RecomputeRole
  <2> QED
    BY <2>1, <2>3, RolesReplaced
<1>4. ASSUME NEW ann \in net, Lose(ann) PROVE \A m \in Node : RoleOK(brokers'[m])
  BY <1>0, <1>4 DEF Lose
<1>5. CASE UNCHANGED netVars
  BY <1>0, <1>5, <1>a DEF netVars, AInv
<1> QED
  BY <1>1, <1>2, <1>3, <1>4, <1>5, <1>a DEF NetNext, AInv

LEMMA InitRoles == NetInit => AInv
<1> SUFFICES ASSUME NetInit PROVE AInv
  OBVIOUS
<1>1. PICK in \in [Node -> Fresh] : brokers = [n \in Node |-> InitBroker(n, in[n])]
  BY DEF NetInit
<1>2. \A n \in Node : RoleOK(InitBroker(n, in[n]))
  <2> TAKE n \in Node
  <2>1. in[n] \in Fresh
    OBVIOUS
  <2> QED
    BY <2>1, InitIs, RecomputeRole DEF Fresh
<1> QED
  BY <1>1, <1>2, InitInv DEF AInv

(* The place of a node in the whole network. *)
Ahead(n) == {m \in Node : score_before(Own(m), Own(n))}

LEMMA RankAhead ==
    ASSUME IInv, NEW n \in Node
    PROVE  Rank(n) = Cardinality(Ahead(n)) /\ IsFiniteSet(Ahead(n)) /\ Rank(n) \in Nat
<1> DEFINE D == {d \in {Own(m) : m \in Node} : score_before(d, Own(n))}
           f == [m \in Ahead(n) |-> Own(m)]
<1>1. Ahead(n) \in SUBSET Node
  BY DEF Ahead
<1>2. IsFiniteSet(Ahead(n)) /\ Cardinality(Ahead(n)) \in Nat
  BY <1>1, FS_Subset, FS_CardinalityType, ElectionAssumption
<1>3. \A m \in Node : Own(m).id = m
  BY DEF IInv, TableOK, Own
<1>4. f \in [Ahead(n) -> D] /\ \A z \in D : \E m \in Ahead(n) : f[m] = z
  BY DEF Ahead
<1>5. \A x, y \in Ahead(n) : f[x] = f[y] => x = y
  BY <1>3 DEF Ahead
<1> HIDE DEF f
<1>6. Cardinality(D) = Cardinality(Ahead(n))
  BY <1>2, <1>4, <1>5, SameSize
<1> QED
  BY <1>2, <1>6 DEF Rank, Place

(* With current scores the table of a node is a part of the network, and   *)
(* all of it if the table is complete.                                     *)
LEMMA TableRank ==
    ASSUME IInv, Settled, NEW n \in Node
    PROVE  LET p == brokers[n].peers IN
           /\ Cardinality(Before(p)) <= Rank(n)
           /\ Complete(n) => Cardinality(Before(p)) = Rank(n)
<1> DEFINE p == brokers[n].peers
           g == [i \in Before(p) |-> p[i].id]
           h == [i \in InUse(p) |-> p[i].id]
<1>0. Table(p, n)
  BY DEF IInv, TableOK, Table
<1>1. \A m \in Node : Own(m).id = m
  BY DEF IInv, TableOK, Own
<1>2. \A i \in InUse(p) : /\ i \in Slot /\ p[i] \in Ann /\ p[i].id \in Node
                          /\ p[i].score = Own(p[i].id).score
  BY <1>0 DEF Table, InUse, Settled, Entries, Ann
<1>3. Own(n) = p[0]
  BY DEF Own
<1> HIDE DEF p
<1>4. \A i \in InUse(p) : i \in Before(p) <=> p[i].id \in Ahead(n)
  BY <1>1, <1>2, <1>3 DEF Before, Ahead, score_before
<1>5. Before(p) \subseteq InUse(p)
  BY DEF Before
<1>6. \A i, j \in InUse(p) : p[i].id = p[j].id => i = j
  BY <1>0 DEF Table, InUse
<1>7. g \in [Before(p) -> Ahead(n)] /\ \A x, y \in Before(p) : g[x] = g[y] => x = y
  BY <1>4, <1>5, <1>6
<1>8. h \in [InUse(p) -> Node] /\ \A x, y \in InUse(p) : h[x] = h[y] => x = y
  BY <1>2, <1>6
<1>9. Cardinality(Before(p)) <= Rank(n)
  <2> HIDE DEF g
  <2>1. g \in Injection(Before(p), Ahead(n))
    BY <1>7 DEF Injection, IsInjective
  <2> QED
    BY <2>1, RankAhead, FS_Injection
<1>10. ASSUME Complete(n) PROVE Cardinality(Before(p)) = Rank(n)
  <2>1. \A m \in Node : \E i \in InUse(p) : h[i] = m
    <3> HIDE DEF h
    <3>1. h \in Injection(InUse(p), Node)
      BY <1>8 DEF Injection, IsInjective
    <3>2. Cardinality(InUse(p)) = Cardinality(Node)
      BY <1>10 DEF Complete, p
    <3>3. h \in Surjection(InUse(p), Node)
      BY <3>1, <3>2, FS_Injection, ElectionAssumption
    <3> QED
      BY <3>3 DEF Surjection
  <2>2. \A m \in Ahead(n) : \E i \in Before(p) : g[i] = m
    <3> TAKE m \in Ahead(n)
    <3>1. PICK i \in InUse(p) : p[i].id = m
      BY <2>1 DEF Ahead
    <3>2. i \in Before(p)
      BY <1>4, <3>1
    <3> QED
      BY <3>1, <3>2
  <2> HIDE DEF g
  <2> QED
    BY <1>7, <2>2, SlotCard, SameSize, RankAhead
<1> QED
  BY <1>9, <1>10 DEF p

(* The roles of the brokers follow from the tables as Agreement says. *)
LEMMA RolesAgree ==
    ASSUME AInv, ~StaticSeedsOnly PROVE Agreement
<1> SUFFICES ASSUME Settled, NEW n \in Node
             PROVE  /\ Rank(n) < AtLeast => brokers[n].role = "ROUTER"
                    /\ Complete(n) =>
                         \E l \in Load : brokers[n].role = "ROUTER"
                                        <=> Rank(n) < RouterTarget(Cardinality(Node), l)
  BY DEF Agreement
<1> DEFINE p == brokers[n].peers
           c == Cardinality(InUse(p))
           a == Cardinality(Before(p))
<1>0. IInv /\ Table(p, n)
  BY DEF AInv, IInv, TableOK, Table
<1>1. PICK l \in Load : brokers[n].role = "ROUTER" <=> a < RouterTarget(c, l)
  BY DEF AInv, RoleOK
<1>2. a <= Rank(n) /\ (Complete(n) => a = Rank(n) /\ c = Cardinality(Node))
  BY <1>0, TableRank DEF Complete
<1>3. a \in Nat /\ c \in Nat /\ Rank(n) \in Nat
  BY <1>0, SlotCard, RankAhead
\* the broker itself is in its table and not before itself
<1>4. a < c
  <2>1. 0 \in InUse(p) /\ 0 \notin Before(p)
    <3>1. 0 \in InUse(p) /\ p[0] \in Ann
      BY <1>0, Slots DEF Table, InUse
    <3>2. p[0].score \in Int /\ p[0].id \in Nat
      BY <3>1, ElectionAssumption DEF Ann
    <3> HIDE DEF p
    <3> QED
      BY <3>1, <3>2 DEF Before, score_before
  <2>2. Before(p) \in SUBSET InUse(p) /\ IsFiniteSet(InUse(p))
    BY SlotCard DEF Before
  <2>3. a <= c /\ (c = a => InUse(p) = Before(p))
    BY <2>2, FS_Subset
  <2> HIDE DEF a, c
  <2> QED
    BY <1>3, <2>1, <2>3
<1> HIDE DEF a, c, p
<1>5. /\ RouterTarget(c, l) \in 1 .. c
      /\ P2P_ROUTER_COUNT > 0 =>
            RouterTarget(c, l) = c \/ RouterTarget(c, l) = P2P_ROUTER_COUNT
  BY <1>3, <1>4, TargetRange
<1>6. Rank(n) < AtLeast => a < RouterTarget(c, l)
  BY <1>2, <1>3, <1>4, <1>5, ElectionAssumption DEF AtLeast
<1> QED
  BY <1>1, <1>2, <1>6

(* "Nodes independently sort the same table": in a network without static  *)
(* seeds, whatever announcements are lost, repeated or late and whichever  *)
(* brokers restart, every top node is a router as soon as the scores in    *)
(* the tables are current, also with full tables, and a node that knows    *)
(* all others has exactly the role that its place in the network gives it. *)
THEOREM RouterAgreement ==
    ASSUME ~StaticSeedsOnly PROVE NetSpec => []Agreement
<1>1. AInv => Agreement
  BY RolesAgree
<1> QED
  BY <1>1, InitRoles, NextRoles, PTL DEF NetSpec

----------------------------------------------------------------------------
(* The shard cache. *)


(* A hash is a natural number, and a cached record is not None. *)
CacheInputs ==
    /\ \A sig, k : Home(sig, k) \in Nat
    /\ \A sig, k, o : [sig |-> sig, key |-> k, owner |-> o] # None

(* No signature and key has two entries, and every entry is within reach   *)
(* of its probe.                                                           *)
OneEntry ==
    \A i, j \in CacheIdx :
        /\ owner_cache[i] # None /\ owner_cache[j] # None
        /\ owner_cache[i].sig = owner_cache[j].sig /\ owner_cache[i].key = owner_cache[j].key
        => i = j

InReach(i, sig, k) ==
    \E s \in CacheIdx : /\ Probe(sig, k, s) = i
                        /\ \A j \in 0 .. s - 1 : owner_cache[Probe(sig, k, j)] # None

EntriesReached ==
    \A i \in CacheIdx :
        owner_cache[i] # None => InReach(i, owner_cache[i].sig, owner_cache[i].key)

CInv == /\ DOMAIN owner_cache = CacheIdx
        /\ owner_cache = [i \in DOMAIN owner_cache |-> owner_cache[i]]
        /\ OneEntry
        /\ EntriesReached

----------------------------------------------------------------------------
LEMMA Indices == CacheIdx \subseteq Nat /\ 0 \in CacheIdx
  BY ShardAssumption DEF CacheIdx

(* The probes of a key go through the table once. *)
LEMMA Probes ==
    ASSUME CacheInputs, NEW sig, NEW k
    PROVE  /\ \A s \in CacheIdx : Probe(sig, k, s) \in CacheIdx
           /\ \A i \in CacheIdx : \E s \in CacheIdx : Probe(sig, k, s) = i
           /\ \A s, t \in CacheIdx : Probe(sig, k, s) = Probe(sig, k, t) => s = t
<1> DEFINE M == P2P_SHARD_OWNER_CACHE_SIZE
           h == Home(sig, k)
<1>1. M \in Nat \ {0} /\ h \in Nat /\ CacheIdx = 0 .. M - 1
  BY ShardAssumption DEF CacheInputs, CacheIdx
<1>2. \A s : Probe(sig, k, s) = (h + s) % M
  BY DEF Probe
<1> HIDE DEF M, h
<1>3. \A s \in CacheIdx : (h + s) % M \in CacheIdx
  BY <1>1
<1>4. \A i \in CacheIdx : \E s \in CacheIdx : (h + s) % M = i
  BY <1>1, ProbesReach
<1>5. \A s, t \in CacheIdx : (h + s) % M = (h + t) % M => s = t
  BY <1>1, ProbesDiffer
<1> QED
  BY <1>2, <1>3, <1>4, <1>5

(* The step at which a probe stops is the first that meets a match or an   *)
(* unused entry.                                                           *)
LEMMA FirstStop ==
    ASSUME NEW sig, NEW k, Stops(sig, k) # {}
    PROVE  Min(Stops(sig, k)) \in Stops(sig, k) /\ \A s \in Stops(sig, k) : Min(Stops(sig, k)) <= s
<1>1. Stops(sig, k) \subseteq Nat
  BY Indices DEF Stops
<1>2. First(Stops(sig, k)) = Min(Stops(sig, k))
  BY DEF First
<1> QED
  BY <1>1, <1>2, FirstFound

(* The entry shard_cache_store writes is within reach, and no other one    *)
(* has its signature and key.                                              *)
LEMMA StoreSlot ==
    ASSUME CacheInputs, CInv, NEW sig, NEW k
    PROVE  /\ CacheSlot(sig, k) \in CacheIdx
           /\ InReach(CacheSlot(sig, k), sig, k)
           /\ \A i \in CacheIdx : IsEntry(owner_cache[i], sig, k) => i = CacheSlot(sig, k)
<1> DEFINE p == CacheSlot(sig, k)
<1>1. CASE Stops(sig, k) = {}
  <2>1. p = Probe(sig, k, 0)
    BY <1>1 DEF CacheSlot
  <2>2. p \in CacheIdx /\ InReach(p, sig, k)
    BY <2>1, Indices, Probes DEF InReach
  <2>3. \A i \in CacheIdx : ~IsEntry(owner_cache[i], sig, k)
    BY <1>1, Probes DEF Stops
  <2> QED
    BY <2>2, <2>3
<1>2. CASE Stops(sig, k) # {}
  <2> DEFINE m == Min(Stops(sig, k))
  <2>1. m \in Stops(sig, k) /\ \A s \in Stops(sig, k) : m <= s
    BY <1>2, FirstStop
  <2>2. p = Probe(sig, k, m)
    BY <1>2 DEF CacheSlot
  <2> HIDE DEF m
  <2>3. m \in CacheIdx /\ (owner_cache[p] = None \/ IsEntry(owner_cache[p], sig, k))
    BY <2>1, <2>2 DEF Stops
  <2> HIDE DEF p
  <2>4. p \in CacheIdx
    BY <2>2, <2>3, Probes
  <2>5. \A j \in 0 .. m - 1 : owner_cache[Probe(sig, k, j)] # None
    <3> TAKE j \in 0 .. m - 1
    <3>1. j \in CacheIdx /\ j < m /\ ~(m <= j)
      BY <2>3, ShardAssumption DEF CacheIdx
    <3> QED
      BY <2>1, <3>1 DEF Stops
  <2>6. InReach(p, sig, k)
    BY <2>2, <2>3, <2>5 DEF InReach
  <2>7. ASSUME NEW i \in CacheIdx, IsEntry(owner_cache[i], sig, k) PROVE i = p
    <3>1. CASE IsEntry(owner_cache[p], sig, k)
      BY <2>4, <2>7, <3>1 DEF CInv, OneEntry, IsEntry
    <3>2. CASE owner_cache[p] = None
      <4>1. PICK s \in CacheIdx : /\ Probe(sig, k, s) = i
                                  /\ \A j \in 0 .. s - 1 : owner_cache[Probe(sig, k, j)] # None
        BY <2>7 DEF CInv, EntriesReached, InReach, IsEntry
      <4>2. s \in Stops(sig, k)
        BY <2>7, <4>1 DEF Stops
      <4>3. m <= s /\ ~(m \in 0 .. s - 1)
        BY <2>1, <2>2, <3>2, <4>1, <4>2
      <4>4. m = s
        BY <2>3, <4>3, Indices
      <4> QED
        BY <2>2, <4>1, <4>4
    <3> QED
      BY <2>3, <3>1, <3>2
  <2> QED
    BY <2>4, <2>6, <2>7 DEF p
<1> QED
  BY <1>1, <1>2

(* shard_cache_store keeps the table searchable. *)
LEMMA StoreKeeps ==
    ASSUME CacheInputs, CInv, NEW sig, NEW k, NEW o, NEW e,
           e = [sig |-> sig, key |-> k, owner |-> o],
           owner_cache' = [owner_cache EXCEPT ![CacheSlot(sig, k)] = e]
    PROVE  CInv'
<1> DEFINE p == CacheSlot(sig, k)
<1>1. e # None /\ e.sig = sig /\ e.key = k
  BY DEF CacheInputs
<1>2. /\ p \in CacheIdx
      /\ InReach(p, sig, k)
      /\ \A i \in CacheIdx : IsEntry(owner_cache[i], sig, k) => i = p
  BY StoreSlot
<1> HIDE DEF p
<1>3. /\ DOMAIN owner_cache' = CacheIdx
      /\ owner_cache' = [i \in DOMAIN owner_cache' |-> owner_cache'[i]]
      /\ owner_cache'[p] = e
      /\ \A i \in CacheIdx \ {p} : owner_cache'[i] = owner_cache[i]
  BY <1>2 DEF CInv, p
<1>4. \A i \in CacheIdx : owner_cache[i] # None => owner_cache'[i] # None
  BY <1>1, <1>3
<1>5. OneEntry'
  <2> SUFFICES ASSUME NEW i \in CacheIdx, NEW j \in CacheIdx,
                      owner_cache'[i] # None, owner_cache'[j] # None,
                      owner_cache'[i].sig = owner_cache'[j].sig,
                      owner_cache'[i].key = owner_cache'[j].key
               PROVE  i = j
    BY DEF OneEntry
  <2>1. CASE i = p
    BY <1>1, <1>2, <1>3, <2>1 DEF IsEntry
  <2>2. CASE j = p
    BY <1>1, <1>2, <1>3, <2>2 DEF IsEntry
  <2>3. CASE i # p /\ j # p
    BY <1>3, <2>3 DEF CInv, OneEntry
  <2> QED
    BY <2>1, <2>2, <2>3
\* what was within reach stays so
<1>6. ASSUME NEW i, NEW g, NEW c, InReach(i, g, c)
      PROVE  \E s \in CacheIdx : /\ Probe(g, c, s) = i
                                 /\ \A j \in 0 .. s - 1 : owner_cache'[Probe(g, c, j)] # None
  <2>1. PICK s \in CacheIdx : /\ Probe(g, c, s) = i
                              /\ \A j \in 0 .. s - 1 : owner_cache[Probe(g, c, j)] # None
    BY <1>6 DEF InReach
  <2>2. \A j \in 0 .. s - 1 : j \in CacheIdx
    BY ShardAssumption DEF CacheIdx
  <2>3. \A j \in 0 .. s - 1 : owner_cache'[Probe(g, c, j)] # None
    BY <1>4, <2>1, <2>2, Probes
  <2> QED
    BY <2>1, <2>3
<1>7. EntriesReached'
  <2> SUFFICES ASSUME NEW i \in CacheIdx, owner_cache'[i] # None,
                      NEW g, g = owner_cache'[i].sig, NEW c, c = owner_cache'[i].key
               PROVE  \E s \in CacheIdx :
                         /\ Probe(g, c, s) = i
                         /\ \A j \in 0 .. s - 1 : owner_cache'[Probe(g, c, j)] # None
    BY DEF EntriesReached, InReach, Probe
  <2>1. CASE i = p
    BY <1>1, <1>2, <1>3, <1>6, <2>1
  <2>2. CASE i # p
    <3>1. InReach(i, g, c)
      BY <1>3, <2>2 DEF CInv, EntriesReached
    <3> QED
      BY <1>6, <3>1
  <2> QED
    BY <2>1, <2>2
<1> QED
  BY <1>3, <1>5, <1>7 DEF CInv

(* shard_cache_lookup stops at the entry of its key and nowhere before. *)
LEMMA LookupFinds ==
    ASSUME CacheInputs, CInv PROVE EntryFound
<1> SUFFICES ASSUME NEW i \in CacheIdx, owner_cache[i] # None,
                    NEW g, g = owner_cache[i].sig, NEW c, c = owner_cache[i].key
             PROVE  CacheFind(g, c) = i
  BY DEF EntryFound
<1>1. PICK s \in CacheIdx : /\ Probe(g, c, s) = i
                            /\ \A j \in 0 .. s - 1 : owner_cache[Probe(g, c, j)] # None
  BY DEF CInv, EntriesReached, InReach
<1>2. s \in Stops(g, c)
  BY <1>1 DEF Stops, IsEntry
<1> DEFINE m == Min(Stops(g, c))
<1>3. m \in Stops(g, c) /\ m <= s
  BY <1>2, FirstStop
<1> HIDE DEF m
<1>4. m \in CacheIdx /\ s \in Nat /\ m \in Nat
  BY <1>3, Indices DEF Stops
<1>5. m = s
  <2> SUFFICES ASSUME m # s PROVE FALSE
    OBVIOUS
  <2>1. m \in 0 .. s - 1
    BY <1>3, <1>4
  <2>2. IsEntry(owner_cache[Probe(g, c, m)], g, c)
    BY <1>1, <1>3, <2>1 DEF Stops
  <2>3. Probe(g, c, m) = i
    BY <1>4, <2>2, Probes DEF CInv, OneEntry, IsEntry
  <2> QED
    BY <1>1, <1>4, <2>3, Probes
<1> QED
  BY <1>1, <1>2, <1>5 DEF CacheFind, m

(* Every entry of the shared cache is found by the lookup of its signature *)
(* and key, whatever threads look up, compute and store meanwhile and      *)
(* however often the table is full.                                        *)
THEOREM AllFound ==
    ASSUME CacheInputs PROVE Spec => []EntryFound
<1>1. Init => CInv
  <2> SUFFICES ASSUME Init PROVE CInv
    OBVIOUS
  <2>1. owner_cache = [i \in CacheIdx |-> None]
    BY DEF Init
  <2> QED
    BY <2>1 DEF CInv, OneEntry, EntriesReached
<1>2. CInv /\ [Next]_vars => CInv'
  <2> SUFFICES ASSUME CInv, [Next]_vars PROVE CInv'
    OBVIOUS
  <2>1. ASSUME NEW t \in Thread, Store(t) PROVE CInv'
    <3> DEFINE e == [sig |-> look[t].sig, key |-> look[t].key, owner |-> look[t].owner]
    <3>1. owner_cache' = [owner_cache EXCEPT ![CacheSlot(look[t].sig, look[t].key)] = e]
      BY <2>1 DEF Store
    <3> QED
      BY <3>1, StoreKeeps
  <2>2. CASE UNCHANGED owner_cache
    BY <2>2 DEF CInv, OneEntry, EntriesReached, InReach, Probe
  <2> QED
    BY <2>1, <2>2 DEF Next, vars, cacheVars, Announce, Hear, Lookup, CacheLookup, Snapshot
<1>3. CInv => EntryFound
  BY LookupFinds
<1> QED
  BY <1>1, <1>2, <1>3, PTL DEF Spec
----------------------------------------------------------------------------
(* The signature of a static network has the identifiers of the table.     *)

Below(I, i) == Cardinality({j \in I : j < i})

(* The slots of a set are numbered by how many are before them. *)
LEMMA Numbered ==
    ASSUME NEW I, I \subseteq Nat, IsFiniteSet(I)
    PROVE  /\ \A i \in I : Below(I, i) + 1 \in 1 .. Cardinality(I)
           /\ \A i, j \in I : Below(I, i) = Below(I, j) => i = j
           /\ \A k \in 1 .. Cardinality(I) : \E i \in I : Below(I, i) = k - 1
<1> DEFINE L(i) == {j \in I : j < i}
           f == [i \in I |-> Below(I, i) + 1]
<1>0. Cardinality(I) \in Nat
  BY FS_CardinalityType
<1>1. ASSUME NEW i \in I
      PROVE  IsFiniteSet(L(i)) /\ Below(I, i) \in Nat /\ Below(I, i) < Cardinality(I)
  <2>1. L(i) \in SUBSET I /\ i \in I /\ i \notin L(i)
    OBVIOUS
  <2>2. IsFiniteSet(L(i)) /\ Cardinality(L(i)) \in Nat /\ Cardinality(L(i)) <= Cardinality(I)
        /\ (Cardinality(I) = Cardinality(L(i)) => I = L(i))
    BY <2>1, FS_Subset, FS_CardinalityType
  <2> QED
    BY <1>0, <2>1, <2>2 DEF Below
<1>2. \A i \in I : Below(I, i) \in Nat /\ Below(I, i) < Cardinality(I)
  <2> TAKE i \in I
  <2> QED
    BY <1>1
<1>3. ASSUME NEW i \in I, NEW j \in I, i < j PROVE Below(I, i) # Below(I, j)
  <2>0. i \in Nat /\ j \in Nat /\ \A x \in I : x \in Nat
    OBVIOUS
  <2>a. \A x \in I : x < i => x < j
    BY <1>3, <2>0
  <2>b. ~(i < i)
    BY <2>0
  <2>1. L(i) \in SUBSET L(j) /\ i \in L(j) /\ i \notin L(i)
    BY <1>3, <2>a, <2>b, Zenon
  <2>2. IsFiniteSet(L(j))
    BY <1>1
  <2> HIDE DEF L
  <2>3. Cardinality(L(j)) # Cardinality(L(i))
    BY <2>1, <2>2, FS_Subset
  <2> QED
    BY <2>3 DEF Below, L
<1>4. \A i, j \in I : Below(I, i) = Below(I, j) => i = j
  <2> TAKE i, j \in I
  <2>1. i \in Nat /\ j \in Nat
    OBVIOUS
  <2> QED
    BY <1>3, <2>1
<1> HIDE DEF L
<1>5. \A i \in I : Below(I, i) + 1 \in 1 .. Cardinality(I)
  BY <1>0, <1>2
<1>6. f \in [I -> 1 .. Cardinality(I)]
  BY <1>5
<1>7. \A i, j \in I : f[i] = f[j] => i = j
  BY <1>2, <1>4
<1>8. IsFiniteSet(1 .. Cardinality(I)) /\ Cardinality(1 .. Cardinality(I)) = Cardinality(I)
  <2>1. 1 \in Int /\ Cardinality(I) \in Int
    BY <1>0
  <2> QED
    BY <1>0, <2>1, FS_Interval
<1> HIDE DEF f
<1>9. f \in Injection(I, 1 .. Cardinality(I))
  BY <1>6, <1>7 DEF Injection, IsInjective
<1>10. f \in Surjection(I, 1 .. Cardinality(I))
  BY <1>8, <1>9, FS_Injection
<1>11. \A k \in 1 .. Cardinality(I) : \E i \in I : Below(I, i) = k - 1
  <2> TAKE k \in 1 .. Cardinality(I)
  <2>1. PICK i \in I : f[i] = k
    BY <1>10 DEF Surjection
  <2> QED
    BY <1>2, <2>1 DEF f
<1> QED
  BY <1>4, <1>11, <1>5

LEMMA SigIds ==
    ASSUME NEW peers
    PROVE  Range(StaticSig(peers)) = {peers[i].id : i \in InUse(peers)}
<1> DEFINE I == InUse(peers)
           at(k) == CHOOSE i \in I : Below(I, i) = k - 1
<1>1. I \subseteq Nat /\ IsFiniteSet(I)
  <2>1. IsFiniteSet(Slot) /\ I \in SUBSET Slot
    BY FS_Interval, ElectionAssumption DEF Slot, InUse
  <2> QED
    BY <2>1, Slots, FS_Subset
<1>2. StaticSig(peers) = [k \in 1 .. Cardinality(I) |-> peers[at(k)].id]
  BY DEF StaticSig, Below
<1> HIDE DEF I
<1>3. \A k \in 1 .. Cardinality(I) : at(k) \in I /\ Below(I, at(k)) = k - 1
  BY <1>1, Numbered
<1> HIDE DEF at
<1>4. \A i \in I : \E k \in 1 .. Cardinality(I) : at(k) = i
  <2> TAKE i \in I
  <2> DEFINE k == Below(I, i) + 1
  <2>1. k \in 1 .. Cardinality(I)
    BY <1>1, Numbered
  <2>2. Below(I, i) \in Nat
    BY FS_Subset, FS_CardinalityType, <1>1 DEF Below
  <2>3. Below(I, at(k)) = Below(I, i)
    BY <1>3, <2>1, <2>2
  <2> QED
    BY <1>1, <1>3, <2>1, <2>3, Numbered
<1> QED
  BY <1>2, <1>3, <1>4 DEF Range, I

----------------------------------------------------------------------------
(* One owner in a static network.                                          *)

(* In a static network all entries are routers, and the signature is that  *)
(* of the table.                                                           *)
StaticBroker(b) ==
    /\ b = [id |-> b.id, peers |-> b.peers, role |-> b.role, sig |-> b.sig]
    /\ b.peers \in [Slot -> Ann \cup {None}]
    /\ b.peers[0] \in Ann
    /\ b.role = "ROUTER"
    /\ \A i \in InUse(b.peers) : b.peers[i].role = "ROUTER"
    /\ b.sig = StaticSig(b.peers)

(* A cached owner is the one that the signature of the entry calls for. *)
OwnerFits(e) == e # None => e.owner = OwnerAmong(Range(e.sig), e.key)

(* A lookup under way has the current signature, and the owner it has      *)
(* computed is that of the current table.                                  *)
LookFits(r, b) ==
    r # None =>
        \E k, s, o : /\ r = [key |-> k, sig |-> b.sig, step |-> s, owner |-> o]
                     /\ s = "store" => o = OwnerOf(b, k)

OInv ==
    /\ StaticBroker(broker)
    /\ DOMAIN owner_cache = CacheIdx
    /\ owner_cache = [i \in DOMAIN owner_cache |-> owner_cache[i]]
    /\ \A i \in CacheIdx : OwnerFits(owner_cache[i])
    /\ DOMAIN thread_cache = Thread
    /\ thread_cache = [t \in DOMAIN thread_cache |-> thread_cache[t]]
    /\ \A t \in Thread :
         /\ DOMAIN thread_cache[t] = RingIdx
         /\ thread_cache[t] = [i \in DOMAIN thread_cache[t] |-> thread_cache[t][i]]
         /\ \A i \in RingIdx : OwnerFits(thread_cache[t][i])
    /\ DOMAIN look = Thread
    /\ look = [t \in DOMAIN look |-> look[t]]
    /\ \A t \in Thread : LookFits(look[t], broker)

(* recompute_role_locked in a static network. *)
LEMMA StaticRecompute ==
    ASSUME StaticSeedsOnly, NEW b, NEW in, in.score \in Score, b.role = "ROUTER",
           b.peers[0] \in [id : Node, score : Int, role : Role],
           \A i \in PeerSlot : /\ b.peers[i] \in Ann \cup {None}
                               /\ b.peers[i] # None => b.peers[i].role = "ROUTER"
    PROVE  StaticBroker(Recompute(b, in))
<1> DEFINE p == Refreshed(b, in)
           r == Recompute(b, in)
<1>1. /\ p[0] \in Ann /\ p[0].role = "ROUTER"
      /\ p \in [Slot -> Ann \cup {None}]
      /\ \A i \in PeerSlot : p[i] # None => p[i].role = "ROUTER"
  <2> DEFINE z == [b.peers[0] EXCEPT !.score = in.score, !.role = b.role]
  <2>1. z \in Ann /\ z.role = "ROUTER"
    BY DEF Ann, Role
  <2> HIDE DEF z
  <2>2. p = [i \in Slot |-> IF i = 0 THEN z ELSE IF i \in in.expired THEN None ELSE b.peers[i]]
    BY DEF Refreshed, z
  <2> HIDE DEF p
  <2> QED
    BY <2>1, <2>2, Slots
<1>2. /\ r = [id |-> b.id, peers |-> [p EXCEPT ![0].role = "ROUTER"], role |-> "ROUTER",
              sig |-> StaticSig(p)]
  BY DEF Recompute
<1> HIDE DEF p, r
<1>3. [p EXCEPT ![0].role = "ROUTER"] = p
  <2>1. [p[0] EXCEPT !.role = "ROUTER"] = p[0]
    BY <1>1 DEF Ann
  <2>2. [p EXCEPT ![0] = p[0]] = p
    BY <1>1
  <2> QED
    BY <2>1, <2>2
<1>4. r.peers = p /\ r.role = "ROUTER" /\ r.sig = StaticSig(p) /\ r.id = b.id
  BY <1>2, <1>3
<1>5. \A i \in InUse(p) : p[i].role = "ROUTER"
  BY <1>1, Slots DEF InUse
<1>6. StaticBroker(r)
  BY <1>1, <1>2, <1>3, <1>4, <1>5 DEF StaticBroker
<1> QED
  BY <1>6 DEF r

(* p2p_election_init. *)
LEMMA StaticInit ==
    ASSUME StaticSeedsOnly, NEW in \in Fresh
    PROVE  StaticBroker(InitBroker(Self, in))
<1> DEFINE z == [id |-> Self, role |-> "ROUTER", sig |-> <<>>,
                 peers |-> [i \in Slot |-> IF i = 0
                              THEN [id |-> Self, score |-> 0, role |-> "LEAF"]
                              ELSE None]]
<1>1. /\ z.role = "ROUTER"
      /\ z.peers[0] = [id |-> Self, score |-> 0, role |-> "LEAF"]
      /\ \A i \in PeerSlot : z.peers[i] = None
  BY Slots
<1>2. InitBroker(Self, in) = Recompute(z, in)
  BY DEF InitBroker
<1> HIDE DEF z
<1>3. z.peers[0] \in [id : Node, score : Int, role : Role]
  BY <1>1, ShardAssumption DEF Role
<1>4. in.score \in Score
  BY DEF Fresh
<1> QED
  BY <1>1, <1>2, <1>3, <1>4, StaticRecompute

(* An entry of a static table is well typed. *)
LEMMA StaticEntries ==
    ASSUME NEW b, StaticBroker(b)
    PROVE  /\ b.peers[0] \in [id : Node, score : Int, role : Role]
           /\ \A i \in PeerSlot : /\ b.peers[i] \in Ann \cup {None}
                                  /\ b.peers[i] # None => b.peers[i].role = "ROUTER"
<1>1. Ann \subseteq [id : Node, score : Int, role : Role]
  BY ElectionAssumption DEF Ann
<1> QED
  BY <1>1, Slots DEF StaticBroker, InUse

(* p2p_election_update_peer. *)
LEMMA StaticUpdate ==
    ASSUME StaticSeedsOnly, NEW b, StaticBroker(b), NEW ann \in Ann, ann.role = "ROUTER",
           NEW in \in Input(b.peers)
    PROVE  StaticBroker(UpdatePeer(b, ann, in))
<1> DEFINE s == PeerSlotFor(b.peers, ann.id)
           w == [b EXCEPT !.peers[s] = ann]
           in2 == [in EXCEPT !.expired = @ \ {s}]
<1>1. CASE ann.id = b.id \/ s = None
  BY <1>1 DEF UpdatePeer
<1>2. CASE ann.id # b.id /\ s # None
  <2>1. UpdatePeer(b, ann, in) = Recompute(w, in2)
    BY <1>2 DEF UpdatePeer
  <2>2. in2.score \in Score
    BY DEF Input
  <2>3. s \in PeerSlot
    <3> DEFINE M == {i \in PeerSlot : b.peers[i] # None /\ b.peers[i].id = ann.id}
               F == {i \in PeerSlot : b.peers[i] = None}
    <3>1. PeerSlot \subseteq Nat
      BY Slots
    <3>2. First(M) \in PeerSlot \cup {None} /\ First(F) \in PeerSlot \cup {None}
      BY <3>1, FirstType
    <3> HIDE DEF M, F
    <3>3. s = First(M) \/ s = First(F)
      BY DEF PeerSlotFor, M, F
    <3> QED
      BY <1>2, <3>2, <3>3
  <2> HIDE DEF s, in2
  <2>4. w.role = b.role /\ w.peers = [b.peers EXCEPT ![s] = ann]
    <3> DEFINE v == [id |-> b.id, peers |-> b.peers, role |-> b.role, sig |-> b.sig]
    <3>1. b = v
      BY DEF StaticBroker
    <3> QED
      BY <3>1
  <2> HIDE DEF w
  <2>5. w.peers[0] = b.peers[0]
        /\ \A i \in PeerSlot : w.peers[i] = IF i = s THEN ann ELSE b.peers[i]
    BY <2>3, <2>4, Slots DEF StaticBroker
  <2>6. /\ w.peers[0] \in [id : Node, score : Int, role : Role]
        /\ \A i \in PeerSlot : /\ w.peers[i] \in Ann \cup {None}
                               /\ w.peers[i] # None => w.peers[i].role = "ROUTER"
    BY <2>5, StaticEntries
  <2>7. w.role = "ROUTER"
    BY <2>4 DEF StaticBroker
  <2> QED
    BY <2>1, <2>2, <2>6, <2>7, StaticRecompute
<1> QED
  BY <1>1, <1>2

(* The routers of a static network are the identifiers of its signature. *)
LEMMA StaticRouters ==
    ASSUME NEW b, StaticBroker(b)
    PROVE  Routers(b) = Range(b.sig) /\ Routers(b) # {}
<1>1. Range(b.sig) = {b.peers[i].id : i \in InUse(b.peers)}
  BY SigIds DEF StaticBroker
<1>2. Routers(b) = {b.peers[i].id : i \in InUse(b.peers)}
  BY DEF Routers, Entries, StaticBroker
<1>3. 0 \in InUse(b.peers)
  BY Slots, NoneIsNoAnn DEF InUse, StaticBroker
<1> QED
  BY <1>1, <1>2, <1>3

----------------------------------------------------------------------------
(* The tables change only between lookups: no lookup loses its signature. *)
LEMMA TopologyStep ==
    ASSUME OInv, Serial, StaticBroker(broker'), UNCHANGED <<cacheVars, look>>
    PROVE  OInv'
<1>1. \A t \in Thread : LookFits(look'[t], broker')
  <2>1. CASE broker' = broker
    BY <2>1 DEF OInv
  <2>2. CASE broker' # broker
    BY <2>2 DEF Serial, LookFits
  <2> QED
    BY <2>1, <2>2
<1> QED
  BY <1>1 DEF OInv, cacheVars, OwnerFits

(* The steps of one lookup that write no cache. *)
LEMMA LookStep ==
    ASSUME OInv, NEW t \in Thread, NEW r, look' = [look EXCEPT ![t] = r],
           UNCHANGED <<broker, cacheVars>>,
           LookFits(r, broker)
    PROVE  OInv'
<1>1. look'[t] = r /\ \A u \in Thread \ {t} : look'[u] = look[u]
  BY DEF OInv
<1>2. broker' = broker
  OBVIOUS
<1>4. \A u \in Thread : LookFits(look'[u], broker')
  BY <1>1, <1>2 DEF OInv
<1>5. DOMAIN look' = Thread /\ look' = [u \in DOMAIN look' |-> look'[u]]
  BY DEF OInv
<1> QED
  BY <1>4, <1>5 DEF OInv, cacheVars, OwnerFits

(* shard_cache_store and the ring of the thread get the owner that the     *)
(* signature calls for.                                                    *)
LEMMA OwnerStep ==
    ASSUME OInv, NEW t \in Thread, Store(t)
    PROVE  OInv'
<1> DEFINE e == [sig |-> look[t].sig, key |-> look[t].key, owner |-> look[t].owner]
<1>1. /\ look[t] # None /\ look[t].step = "store"
      /\ owner_cache' = [owner_cache EXCEPT ![CacheSlot(e.sig, e.key)] = e]
      /\ thread_cache' = [thread_cache EXCEPT ![t][thread_cache_pos[t]] = e]
      /\ look' = [look EXCEPT ![t] = None]
      /\ broker' = broker
  BY DEF Store
<1>2. PICK k, s, o : /\ look[t] = [key |-> k, sig |-> broker.sig, step |-> s, owner |-> o]
                     /\ s = "store" => o = OwnerOf(broker, k)
  BY <1>1 DEF OInv, LookFits
<1>3. e.sig = broker.sig /\ e.key = k /\ e.owner = OwnerOf(broker, k)
  BY <1>1, <1>2
<1> HIDE DEF e
<1>4. OwnerFits(e)
  BY <1>3, StaticRouters DEF OInv, OwnerFits, OwnerOf
<1>5. /\ DOMAIN owner_cache' = CacheIdx
      /\ owner_cache' = [i \in DOMAIN owner_cache' |-> owner_cache'[i]]
      /\ \A i \in CacheIdx : owner_cache'[i] \in {e, owner_cache[i]}
  BY <1>1 DEF OInv
<1>6. /\ DOMAIN thread_cache' = Thread
      /\ thread_cache' = [u \in DOMAIN thread_cache' |-> thread_cache'[u]]
      /\ thread_cache'[t] = [thread_cache[t] EXCEPT ![thread_cache_pos[t]] = e]
      /\ \A u \in Thread \ {t} : thread_cache'[u] = thread_cache[u]
  BY <1>1 DEF OInv
<1>7. ASSUME NEW u \in Thread
      PROVE  /\ DOMAIN thread_cache'[u] = RingIdx
             /\ thread_cache'[u] = [i \in DOMAIN thread_cache'[u] |-> thread_cache'[u][i]]
             /\ \A i \in RingIdx : thread_cache'[u][i] \in {e, thread_cache[u][i]}
  <2>1. /\ DOMAIN thread_cache[u] = RingIdx
        /\ thread_cache[u] = [i \in DOMAIN thread_cache[u] |-> thread_cache[u][i]]
    BY DEF OInv
  <2>2. CASE u = t
    BY <1>6, <2>1, <2>2
  <2>3. CASE u # t
    BY <1>6, <2>1, <2>3
  <2> QED
    BY <2>2, <2>3
<1>8. \A i \in CacheIdx : OwnerFits(owner_cache'[i])
  BY <1>4, <1>5 DEF OInv
<1>9. \A u \in Thread, i \in RingIdx : OwnerFits(thread_cache'[u][i])
  BY <1>4, <1>7 DEF OInv
<1>10. /\ DOMAIN look' = Thread /\ look' = [u \in DOMAIN look' |-> look'[u]]
       /\ look'[t] = None /\ \A u \in Thread \ {t} : look'[u] = look[u]
  BY <1>1 DEF OInv
<1>11. \A u \in Thread : LookFits(look'[u], broker')
  <2>1. LookFits(None, broker')
    BY DEF LookFits
  <2> QED
    BY <1>1, <1>10, <2>1 DEF OInv
<1>12. StaticBroker(broker')
  BY <1>1 DEF OInv
<1> QED
  BY <1>5, <1>6, <1>7, <1>8, <1>9, <1>10, <1>11, <1>12 DEF OInv

(* What the caches answer under the current signature is what the table    *)
(* says.                                                                   *)
LEMMA OwnersAgree ==
    ASSUME OInv PROVE OneOwner
<1> SUFFICES ASSUME NEW e \in CurrentEntries PROVE e.owner = Answer(e.key)
  BY DEF OneOwner
<1>1. e # None /\ e.sig = broker.sig
  BY DEF CurrentEntries
<1>2. \/ \E i \in CacheIdx : e = owner_cache[i]
      \/ \E t \in Thread, i \in RingIdx : e = thread_cache[t][i]
  BY DEF CurrentEntries, OInv, Range
<1>3. OwnerFits(e)
  BY <1>2 DEF OInv
<1>4. Routers(broker) = Range(broker.sig) /\ Routers(broker) # {}
  BY StaticRouters DEF OInv
<1> QED
  BY <1>1, <1>3, <1>4 DEF OwnerFits, Answer, OwnerOf

(* In a network of static seeds whose topology changes only between        *)
(* lookups, no two threads and no two times under the same signature name  *)
(* different owners of a shard, also after a topology comes back for which *)
(* the caches still have entries.                                          *)
THEOREM OneOwnerStatic ==
    ASSUME StaticSeedsOnly PROVE Spec /\ [][Serial]_vars => []OneOwner
<1>1. Init => OInv
  <2> SUFFICES ASSUME Init PROVE OInv
    OBVIOUS
  <2>1. StaticBroker(broker)
    BY StaticInit DEF Init
  <2> QED
    BY <2>1 DEF Init, OInv, OwnerFits, LookFits
<1>2. OInv /\ [Next]_vars /\ [Serial]_vars => OInv'
  <2> SUFFICES ASSUME OInv, [Next]_vars, [Serial]_vars PROVE OInv'
    OBVIOUS
  <2>0. StaticBroker(broker)
    BY DEF OInv
  <2>1. CASE Serial /\ Announce
    <3>1. PICK in \in Input(broker.peers) : broker' = Recompute(broker, in)
      BY <2>1 DEF Announce
    <3>2. in.score \in Score /\ broker.role = "ROUTER"
      BY <2>0 DEF Input, StaticBroker
    <3>3. StaticBroker(broker')
      BY <2>0, <3>1, <3>2, StaticEntries, StaticRecompute
    <3> QED
      BY <2>1, <3>3, TopologyStep DEF Announce
  <2>2. CASE Serial /\ Hear
    <3>1. PICK in \in Input(broker.peers), ann \in Ann :
             ann.role = "ROUTER" /\ broker' = UpdatePeer(broker, ann, in)
      BY <2>2 DEF Hear
    <3>2. StaticBroker(broker')
      BY <2>0, <3>1, StaticUpdate
    <3> QED
      BY <2>2, <3>2, TopologyStep DEF Hear
  <2>3. ASSUME NEW t \in Thread, NEW k \in Key, Lookup(t, k) PROVE OInv'
    <3> DEFINE r == [key |-> k, sig |-> broker.sig, step |-> "cache", owner |-> Self]
    <3>1. look' = [look EXCEPT ![t] = r] /\ UNCHANGED <<broker, cacheVars>>
      BY <2>3 DEF Lookup
    <3>2. LookFits(r, broker)
      <4>1. "cache" # "store"
        OBVIOUS
      <4> QED
        BY <4>1, Zenon DEF LookFits
    <3> HIDE DEF r
    <3> QED
      BY <3>1, <3>2, LookStep
  <2>4. ASSUME NEW t \in Thread, CacheLookup(t) PROVE OInv'
    <3> DEFINE r == IF CacheFind(look[t].sig, look[t].key) # None THEN None
                    ELSE [look[t] EXCEPT !.step = "snapshot"]
    <3>1. look[t] # None /\ look' = [look EXCEPT ![t] = r] /\ UNCHANGED <<broker, cacheVars>>
      BY <2>4 DEF CacheLookup
    <3>2. PICK k, s, o : look[t] = [key |-> k, sig |-> broker.sig, step |-> s, owner |-> o]
      BY <3>1 DEF OInv, LookFits
    <3>3. r = None \/ r = [key |-> k, sig |-> broker.sig, step |-> "snapshot", owner |-> o]
      BY <3>2
    <3> HIDE DEF r
    <3>4. LookFits(r, broker)
      BY <3>3 DEF LookFits
    <3> QED
      BY <3>1, <3>4, LookStep
  <2>5. ASSUME NEW t \in Thread, Snapshot(t) PROVE OInv'
    <3> DEFINE r == IF Routers(broker) = {} THEN None
                    ELSE [look[t] EXCEPT !.step = "store",
                                         !.owner = OwnerOf(broker, look[t].key)]
    <3>1. look[t] # None /\ look' = [look EXCEPT ![t] = r] /\ UNCHANGED <<broker, cacheVars>>
      BY <2>5 DEF Snapshot
    <3>2. PICK k, s, o : look[t] = [key |-> k, sig |-> broker.sig, step |-> s, owner |-> o]
      BY <3>1 DEF OInv, LookFits
    <3>3. \/ r = None
          \/ r = [key |-> k, sig |-> broker.sig, step |-> "store", owner |-> OwnerOf(broker, k)]
      <4>1. look[t].key = k
        BY <3>2
      <4> DEFINE c == OwnerOf(broker, k)
                 q == [key |-> k, sig |-> broker.sig, step |-> "store", owner |-> o]
      <4> HIDE DEF c, r
      <4>2. [look[t] EXCEPT !.step = "store"] = q
        BY <3>2
      <4>3. [q EXCEPT !.owner = c]
              = [key |-> k, sig |-> broker.sig, step |-> "store", owner |-> c]
        OBVIOUS
      <4>4. [look[t] EXCEPT !.step = "store", !.owner = c]
              = [[look[t] EXCEPT !.step = "store"] EXCEPT !.owner = c]
        OBVIOUS
      <4>5. [look[t] EXCEPT !.step = "store", !.owner = c]
              = [key |-> k, sig |-> broker.sig, step |-> "store", owner |-> c]
        BY <4>2, <4>3, <4>4, Zenon
      <4> QED
        BY <4>1, <4>5, Zenon DEF r, c
    <3> HIDE DEF r
    <3>4. LookFits(r, broker)
      BY <3>3 DEF LookFits
    <3> QED
      BY <3>1, <3>4, LookStep
  <2>6. ASSUME NEW t \in Thread, Store(t) PROVE OInv'
    BY <2>6, OwnerStep
  <2>7. CASE UNCHANGED vars
    BY <2>7 DEF vars, OInv, OwnerFits
  <2> QED
    BY <2>1, <2>2, <2>3, <2>4, <2>5, <2>6, <2>7 DEF Next
<1>3. OInv => OneOwner
  BY OwnersAgree
<1> QED
  BY <1>1, <1>2, <1>3, PTL DEF Spec
============================================================================
