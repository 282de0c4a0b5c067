-------------------------- MODULE P2PRouter_proofs --------------------------
(***************************************************************************)
(* Safety of P2PRouter for every size of the tables, every set of nodes    *)
(* and filters and every hash function.                                    *)
(*                                                                         *)
(* LookupComplete is inductive because a removed entry becomes a tombstone *)
(* and never free again; OneRoute needs it, since an upsert that has not   *)
(* found the route writes a second one unless the lookup is complete.      *)
(***************************************************************************)
EXTENDS P2PRouter, TableScan_proofs, TLAPS, FiniteSetTheorems

(* The refresh loop works on a node in use. *)
JobOK == job # None => nodes[job.node] # None

IInv == TypeOK /\ JobOK /\ NoOrphanRoutes /\ LookupComplete /\ OneRoute

----------------------------------------------------------------------------
(* Index sets are sets of naturals. *)
LEMMA IndexSets ==
    /\ NodeIdx \subseteq Nat /\ SubIdx \subseteq Nat /\ RouteIdx \subseteq Nat
    /\ RouteMax \in Nat \ {0}
    /\ None \notin Nat
  BY SizesAssumption, InputsAssumption DEF NodeIdx, SubIdx, RouteIdx

(* A probe stays inside the hash table. *)
LEMMA ProbeType ==
    ASSUME NEW f \in Topic, NEW s \in RouteIdx
    PROVE  Probe(f, s) \in RouteIdx
<1>1. Hash[f] \in Nat /\ s \in Nat /\ RouteMax \in Nat \ {0}
  BY InputsAssumption, IndexSets
<1>2. (Hash[f] + s) % RouteMax \in 0 .. RouteMax - 1
  BY <1>1
<1> QED
  BY <1>2 DEF Probe, RouteIdx

(* find_node_locked returns the node in use of the owner. *)
LEMMA FindNodeSpec ==
    ASSUME NEW o
    PROVE  /\ FindNode(o) # None => /\ FindNode(o) \in NodeIdx
                                    /\ nodes[FindNode(o)] # None
                                    /\ nodes[FindNode(o)].owner = o
           /\ FindNode(o) = None =>
                \A i \in NodeIdx : ~(nodes[i] # None /\ nodes[i].owner = o)
<1> DEFINE I == {i \in NodeIdx : nodes[i] # None /\ nodes[i].owner = o}
<1>1. I \subseteq Nat /\ FindNode(o) = First(I)
  BY IndexSets DEF FindNode
<1>2. CASE I = {}
  BY <1>1, <1>2, FirstEmpty
<1>3. CASE I # {}
  <2>1. First(I) \in I
    BY <1>1, <1>3, FirstFound
  <2>2. First(I) # None
    BY <1>1, <2>1, IndexSets
  <2> QED
    BY <1>1, <2>1, <2>2
<1> QED
  BY <1>2, <1>3

(* ... or, to create one, an unused entry. *)
LEMMA NodeForSpec ==
    ASSUME NEW o, NodeFor(o) # None
    PROVE  /\ NodeFor(o) \in NodeIdx
           /\ FindNode(o) # None => NodeFor(o) = FindNode(o)
           /\ FindNode(o) = None => nodes[NodeFor(o)] = None
<1> DEFINE I == {i \in NodeIdx : nodes[i] = None}
<1>1. CASE FindNode(o) # None
  BY <1>1, FindNodeSpec DEF NodeFor
<1>2. CASE FindNode(o) = None
  <2>1. NodeFor(o) = First(I) /\ I \subseteq Nat
    BY <1>2, IndexSets DEF NodeFor
  <2>2. I # {}
    BY <2>1, FirstEmpty
  <2>3. First(I) \in I
    BY <2>1, <2>2, FirstFound
  <2> QED
    BY <1>2, <2>1, <2>3
<1> QED
  BY <1>1, <1>2

(* A subscription goes to the entry that has its filter or to an unused    *)
(* one.                                                                    *)
LEMMA SubSlotSpec ==
    ASSUME NEW subs, NEW f, SubSlot(subs, f) # None
    PROVE  SubSlot(subs, f) \in SubIdx /\ subs[SubSlot(subs, f)] \in {f, None}
<1> DEFINE H == {s \in SubIdx : subs[s] = f}
           U == {s \in SubIdx : subs[s] = None}
<1>1. H \subseteq Nat /\ U \subseteq Nat
  BY IndexSets
<1>2. H # {} => First(H) \in H
  BY <1>1, FirstFound
<1>3. U # {} => First(U) \in U
  BY <1>1, FirstFound
<1>4. First({}) = None
  BY FirstEmpty
<1>5. SubSlot(subs, f) = IF First(H) # None THEN First(H) ELSE First(U)
  BY DEF SubSlot
<1> QED
  BY <1>2, <1>3, <1>4, <1>5

(* A new node has room for its first subscription. *)
LEMMA NewNodeSlot ==
    ASSUME NEW f, NEW o, NEW h
    PROVE  SubSlot(NewNode(o, h).subs, f) # None
<1> DEFINE S == NewNode(o, h).subs
           H == {s \in SubIdx : S[s] = f}
           U == {s \in SubIdx : S[s] = None}
<1>1. U = SubIdx /\ 0 \in SubIdx
  BY SizesAssumption DEF NewNode, SubIdx
<1>2. First(U) \in U
  BY <1>1, IndexSets, FirstFound
<1>3. First(U) # None
  BY <1>1, <1>2, IndexSets
<1>4. SubSlot(S, f) = IF First(H) # None THEN First(H) ELSE First(U)
  BY DEF SubSlot
<1> QED
  BY <1>3, <1>4
----------------------------------------------------------------------------
(* exact_route_upsert_locked changes nothing, or writes the route where    *)
(* the scan found it, or into a gap when the scan did not meet it.         *)
LEMMA ExactUpsertSpec ==
    ASSUME NEW o, NEW h, NEW f
    PROVE  \/ /\ ExactUpsert(o, h, f) = exact
              /\ \A s \in Reached(f) : /\ ~IsRoute(exact[Probe(f, s)], o, f)
                                       /\ exact[Probe(f, s)] \notin {None, Deleted}
           \/ \E s \in Reached(f) :
                /\ ExactUpsert(o, h, f) =
                     [exact EXCEPT ![Probe(f, s)] = [owner |-> o, hop |-> h, filter |-> f]]
                /\ \/ IsRoute(exact[Probe(f, s)], o, f)
                   \/ /\ exact[Probe(f, s)] \in {None, Deleted}
                      /\ \A j \in Reached(f) : ~IsRoute(exact[Probe(f, j)], o, f)
<1> DEFINE H == {s \in Reached(f) : IsRoute(exact[Probe(f, s)], o, f)}
           G == {s \in Reached(f) : exact[Probe(f, s)] \in {None, Deleted}}
           e == IF First(H) # None THEN First(H) ELSE First(G)
<1>1. H \subseteq Nat /\ G \subseteq Nat
  BY IndexSets DEF Reached
<1>2. H # {} => First(H) \in H
  BY <1>1, FirstFound
<1>3. G # {} => First(G) \in G
  BY <1>1, FirstFound
<1>4. First({}) = None
  BY FirstEmpty
<1>5. ExactUpsert(o, h, f) =
        IF e = None THEN exact
        ELSE [exact EXCEPT ![Probe(f, e)] = [owner |-> o, hop |-> h, filter |-> f]]
  BY DEF ExactUpsert
<1>6. CASE e = None
  <2>1. H = {} /\ G = {}
    BY <1>1, <1>2, <1>3, <1>6, IndexSets
  <2> HIDE DEF e
  <2> QED
    BY <1>5, <1>6, <2>1
<1>7. CASE e # None /\ H # {}
  <2>1. First(H) \in H /\ First(H) # None
    BY <1>1, <1>2, <1>7, IndexSets
  <2>2. e \in H
    BY <2>1
  <2> QED
    BY <1>5, <1>7, <2>2
<1>8. CASE e # None /\ H = {}
  <2>1. e = First(G) /\ G # {}
    BY <1>4, <1>8
  <2>2. e \in G
    BY <1>3, <2>1
  <2>3. \A j \in Reached(f) : ~IsRoute(exact[Probe(f, j)], o, f)
    BY <1>8
  <2> QED
    BY <1>5, <1>8, <2>2, <2>3
<1> HIDE DEF e
<1> QED
  BY <1>6, <1>7, <1>8

(* The same for wildcard_route_upsert_locked. *)
LEMMA WildUpsertSpec ==
    ASSUME NEW o, NEW h, NEW f
    PROVE  \/ /\ WildUpsert(o, h, f) = wild
              /\ \A k \in RouteIdx : ~IsRoute(wild[k], o, f) /\ wild[k] # None
           \/ \E k \in RouteIdx :
                /\ WildUpsert(o, h, f) =
                     [wild EXCEPT ![k] = [owner |-> o, hop |-> h, filter |-> f]]
                /\ \/ IsRoute(wild[k], o, f)
                   \/ /\ wild[k] = None
                      /\ \A j \in RouteIdx : ~IsRoute(wild[j], o, f)
<1> DEFINE H == {k \in RouteIdx : IsRoute(wild[k], o, f)}
           G == {k \in RouteIdx : wild[k] = None}
           e == IF First(H) # None THEN First(H) ELSE First(G)
<1>1. H \subseteq Nat /\ G \subseteq Nat
  BY IndexSets
<1>2. H # {} => First(H) \in H
  BY <1>1, FirstFound
<1>3. G # {} => First(G) \in G
  BY <1>1, FirstFound
<1>4. First({}) = None
  BY FirstEmpty
<1>5. WildUpsert(o, h, f) =
        IF e = None THEN wild
        ELSE [wild EXCEPT ![e] = [owner |-> o, hop |-> h, filter |-> f]]
  BY DEF WildUpsert
<1>6. CASE e = None
  <2>1. H = {} /\ G = {}
    BY <1>1, <1>2, <1>3, <1>6, IndexSets
  <2> HIDE DEF e
  <2> QED
    BY <1>5, <1>6, <2>1
<1>7. CASE e # None /\ H # {}
  <2>1. First(H) \in H /\ First(H) # None
    BY <1>1, <1>2, <1>7, IndexSets
  <2>2. e \in H
    BY <2>1
  <2> QED
    BY <1>5, <1>7, <2>2
<1>8. CASE e # None /\ H = {}
  <2>1. e = First(G) /\ G # {}
    BY <1>4, <1>8
  <2>2. e \in G
    BY <1>3, <2>1
  <2> QED
    BY <1>5, <1>8, <2>2
<1> HIDE DEF e
<1> QED
  BY <1>6, <1>7, <1>8

(* A step that frees no entry of the hash table, and whose new routes lie  *)
(* within reach, keeps the lookup complete.                                *)
LEMMA LookupKept ==
    ASSUME exact' \in [RouteIdx -> Route(Topic) \cup {None, Deleted}], LookupComplete,
           \A k \in RouteIdx : exact[k] # None => exact'[k] # None,
           \A k \in RouteIdx :
               \/ exact'[k] \in {exact[k], None, Deleted}
               \/ \E s \in Reached(exact'[k].filter) : Probe(exact'[k].filter, s) = k
    PROVE  LookupComplete'
<1>1. \A f \in Topic : Reached(f) \subseteq Reached(f)'
  <2> SUFFICES ASSUME NEW f \in Topic, NEW s \in RouteIdx,
                      \A j \in 0 .. s - 1 : exact[Probe(f, j)] # None,
                      NEW j \in 0 .. s - 1
               PROVE  exact'[Probe(f, j)] # None
    BY DEF Reached, Probe
  <2>1. j \in RouteIdx
    BY IndexSets DEF RouteIdx
  <2> QED
    BY <2>1, ProbeType
<1>2. ASSUME NEW k \in ExactUsed', NEW g, g = exact'[k].filter
      PROVE  \E s \in RouteIdx : /\ \A j \in 0 .. s - 1 : exact'[Probe(g, j)] # None
                                 /\ Probe(g, s) = k
  <2>1. \E s \in Reached(g) : Probe(g, s) = k
    BY <1>2 DEF ExactUsed, LookupComplete
  <2>2. g \in Topic
    BY <1>2 DEF ExactUsed, Route
  <2>3. \E s \in Reached(g)' : Probe(g, s) = k
    BY <1>1, <2>1, <2>2
  <2> QED
    BY <2>3 DEF Reached, Probe
<1>3. \A k \in ExactUsed' :
        \E s \in RouteIdx : /\ \A j \in 0 .. s - 1 : exact'[Probe(exact'[k].filter, j)] # None
                            /\ Probe(exact'[k].filter, s) = k
  BY <1>2
<1> QED
  BY <1>3 DEF LookupComplete, Reached, Probe
(* route_upsert_locked, whichever table it writes: the tables keep their   *)
(* types, the lookup stays complete, the route stays the only one of its   *)
(* owner and filter, and no other route appears.                           *)
LEMMA UpsertKeeps ==
    ASSUME TypeOK, LookupComplete, OneRoute,
           NEW o \in Node, NEW h \in Node, NEW f \in Filter,
           RouteUpsert(o, h, f)
    PROVE  /\ exact' \in [RouteIdx -> Route(Topic) \cup {None, Deleted}]
           /\ wild' \in [RouteIdx -> Route(Wild) \cup {None}]
           /\ LookupComplete'
           /\ OneRoute'
           /\ Routes' \subseteq Routes \cup {[owner |-> o, hop |-> h, filter |-> f]}
<1> DEFINE new == [owner |-> o, hop |-> h, filter |-> f]
<1>0. /\ exact \in [RouteIdx -> Route(Topic) \cup {None, Deleted}]
      /\ wild \in [RouteIdx -> Route(Wild) \cup {None}]
  BY DEF TypeOK
<1>n. new.owner = o /\ new.hop = h /\ new.filter = f
  OBVIOUS
<1>1. CASE f \in Topic
  <2>1. exact' = ExactUpsert(o, h, f) /\ wild' = wild
    BY <1>1 DEF RouteUpsert
  <2>2. CASE exact' = exact
    <3>1. LookupComplete' /\ OneRoute' /\ Routes' = Routes
      BY <2>1, <2>2 DEF LookupComplete, OneRoute, Routes, ExactUsed, WildUsed, Reached, Probe
    <3> QED
      BY <1>0, <2>1, <2>2, <3>1
  <2>3. ASSUME NEW s \in Reached(f),
               exact' = [exact EXCEPT ![Probe(f, s)] = new],
               \/ IsRoute(exact[Probe(f, s)], o, f)
               \/ /\ exact[Probe(f, s)] \in {None, Deleted}
                  /\ \A j \in Reached(f) : ~IsRoute(exact[Probe(f, j)], o, f)
        PROVE  /\ exact' \in [RouteIdx -> Route(Topic) \cup {None, Deleted}]
               /\ LookupComplete'
               /\ OneRoute'
               /\ Routes' \subseteq Routes \cup {new}
    <3> DEFINE p == Probe(f, s)
    <3>1. p \in RouteIdx
      BY <1>1, ProbeType DEF Reached
    <3>2. new \in Route(Topic) /\ new \notin {None, Deleted}
      BY <1>1, InputsAssumption DEF Route, Filter
    <3>3. exact' \in [RouteIdx -> Route(Topic) \cup {None, Deleted}]
      BY <1>0, <2>3, <3>2
    <3>4. \A k \in RouteIdx : exact'[k] = IF k = p THEN new ELSE exact[k]
      BY <1>0, <2>3
    <3>5. LookupComplete'
      <4>1. \A k \in RouteIdx : exact[k] # None => exact'[k] # None
        BY <3>2, <3>4
      <4>2. \A k \in RouteIdx :
               \/ exact'[k] \in {exact[k], None, Deleted}
               \/ \E j \in Reached(exact'[k].filter) : Probe(exact'[k].filter, j) = k
        BY <1>n, <3>4
      <4> QED
        BY <3>3, <4>1, <4>2, LookupKept
    <3>6. \A k \in ExactUsed : exact[k].owner = o /\ exact[k].filter = f => k = p
      <4> SUFFICES ASSUME NEW k \in ExactUsed, exact[k].owner = o, exact[k].filter = f
                   PROVE  k = p
        OBVIOUS
      <4>1. PICK j \in Reached(f) : Probe(f, j) = k
        BY DEF LookupComplete
      <4>2. IsRoute(exact[Probe(f, j)], o, f)
        BY <4>1 DEF IsRoute, ExactUsed
      <4>3. IsRoute(exact[p], o, f)
        BY <2>3, <4>2
      <4>4. p \in ExactUsed
        BY <3>1, <4>3 DEF IsRoute, ExactUsed
      <4> QED
        BY <4>3, <4>4 DEF OneRoute, IsRoute
    <3>7. ExactUsed' \subseteq ExactUsed \cup {p} /\ WildUsed' = WildUsed
      BY <2>1, <3>4 DEF ExactUsed, WildUsed
    <3> HIDE DEF p, new
    <3>8. OneRoute'
      <4>1. \A j, k \in ExactUsed' :
              exact'[j].owner = exact'[k].owner /\ exact'[j].filter = exact'[k].filter
              => j = k
        <5> SUFFICES ASSUME NEW j \in ExactUsed', NEW k \in ExactUsed',
                            exact'[j].owner = exact'[k].owner,
                            exact'[j].filter = exact'[k].filter
                     PROVE  j = k
          OBVIOUS
        <5>1. j \in RouteIdx /\ k \in RouteIdx
          BY DEF ExactUsed
        <5>2. CASE j = p /\ k # p
          BY <5>1, <5>2, <1>n, <3>4, <3>6, <3>7
        <5>3. CASE k = p /\ j # p
          BY <5>1, <5>3, <1>n, <3>4, <3>6, <3>7
        <5>4. CASE j # p /\ k # p
          BY <5>1, <5>4, <3>4, <3>7 DEF OneRoute
        <5> QED
          BY <5>2, <5>3, <5>4
      <4>2. \A j, k \in WildUsed' :
              wild'[j].owner = wild'[k].owner /\ wild'[j].filter = wild'[k].filter
              => j = k
        BY <2>1, <3>7 DEF OneRoute
      <4> QED
        BY <4>1, <4>2 DEF OneRoute
    <3>9. Routes' \subseteq Routes \cup {new}
      <4>1. \A k \in ExactUsed' : exact'[k] \in Routes \cup {new}
        BY <3>4, <3>7 DEF Routes, ExactUsed
      <4>2. \A k \in WildUsed' : wild'[k] \in Routes
        BY <2>1, <3>7 DEF Routes
      <4> QED
        BY <4>1, <4>2 DEF Routes
    <3> QED
      BY <3>3, <3>5, <3>8, <3>9
  <2> HIDE DEF new
  <2>4. \/ exact' = exact
        \/ \E s \in Reached(f) :
             /\ exact' = [exact EXCEPT ![Probe(f, s)] = new]
             /\ \/ IsRoute(exact[Probe(f, s)], o, f)
                \/ /\ exact[Probe(f, s)] \in {None, Deleted}
                   /\ \A j \in Reached(f) : ~IsRoute(exact[Probe(f, j)], o, f)
    BY <2>1, ExactUpsertSpec DEF new
  <2> QED
    BY <1>0, <2>1, <2>2, <2>3, <2>4 DEF new
<1>2. CASE f \notin Topic
  <2>1. wild' = WildUpsert(o, h, f) /\ exact' = exact /\ f \in Wild
    BY <1>2 DEF RouteUpsert, Filter
  <2>2. LookupComplete' /\ ExactUsed' = ExactUsed
    BY <2>1 DEF LookupComplete, ExactUsed, Reached, Probe
  <2>3. CASE wild' = wild
    BY <1>0, <2>1, <2>2, <2>3 DEF OneRoute, Routes, WildUsed
  <2>4. ASSUME NEW p \in RouteIdx,
               wild' = [wild EXCEPT ![p] = new],
               \/ IsRoute(wild[p], o, f)
               \/ wild[p] = None /\ \A j \in RouteIdx : ~IsRoute(wild[j], o, f)
        PROVE  /\ wild' \in [RouteIdx -> Route(Wild) \cup {None}]
               /\ OneRoute'
               /\ Routes' \subseteq Routes \cup {new}
    <3>1. new \in Route(Wild) /\ new # None
      BY <2>1, InputsAssumption DEF Route, Filter
    <3>2. \A k \in RouteIdx : wild'[k] = IF k = p THEN new ELSE wild[k]
      BY <1>0, <2>4
    <3>3. \A k \in WildUsed : wild[k] # Deleted
      BY <1>0, InputsAssumption DEF WildUsed, Route, Filter
    <3>4. \A k \in WildUsed : wild[k].owner = o /\ wild[k].filter = f => k = p
      <4> SUFFICES ASSUME NEW k \in WildUsed, wild[k].owner = o, wild[k].filter = f
                   PROVE  k = p
        OBVIOUS
      <4>1. IsRoute(wild[k], o, f) /\ k \in RouteIdx
        BY <3>3 DEF IsRoute, WildUsed
      <4>2. IsRoute(wild[p], o, f)
        BY <2>4, <4>1
      <4> QED
        BY <4>1, <4>2 DEF OneRoute, IsRoute, WildUsed
    <3>5. WildUsed' \subseteq WildUsed \cup {p}
      BY <3>2 DEF WildUsed
    <3>6. wild' \in [RouteIdx -> Route(Wild) \cup {None}]
      BY <1>0, <2>4, <3>1
    <3> HIDE DEF new
    <3>7. OneRoute'
      <4>1. \A j, k \in WildUsed' :
              wild'[j].owner = wild'[k].owner /\ wild'[j].filter = wild'[k].filter
              => j = k
        <5> SUFFICES ASSUME NEW j \in WildUsed', NEW k \in WildUsed',
                            wild'[j].owner = wild'[k].owner,
                            wild'[j].filter = wild'[k].filter
                     PROVE  j = k
          OBVIOUS
        <5>1. j \in RouteIdx /\ k \in RouteIdx
          BY DEF WildUsed
        <5>2. CASE j = p /\ k # p
          BY <5>1, <5>2, <1>n, <3>2, <3>4, <3>5
        <5>3. CASE k = p /\ j # p
          BY <5>1, <5>3, <1>n, <3>2, <3>4, <3>5
        <5>4. CASE j # p /\ k # p
          BY <5>1, <5>4, <3>2, <3>5 DEF OneRoute
        <5> QED
          BY <5>2, <5>3, <5>4
      <4> QED
        BY <2>1, <2>2, <4>1 DEF OneRoute
    <3>8. Routes' \subseteq Routes \cup {new}
      <4>1. \A k \in WildUsed' : wild'[k] \in Routes \cup {new}
        BY <3>2, <3>5 DEF Routes, WildUsed
      <4>2. \A k \in ExactUsed' : exact'[k] \in Routes
        BY <2>1, <2>2 DEF Routes
      <4> QED
        BY <4>1, <4>2 DEF Routes
    <3> QED
      BY <3>6, <3>7, <3>8
  <2> HIDE DEF new
  <2>5. \/ wild' = wild
        \/ \E p \in RouteIdx :
             /\ wild' = [wild EXCEPT ![p] = new]
             /\ \/ IsRoute(wild[p], o, f)
                \/ wild[p] = None /\ \A j \in RouteIdx : ~IsRoute(wild[j], o, f)
    BY <2>1, WildUpsertSpec DEF new
  <2> QED
    BY <1>0, <2>1, <2>2, <2>3, <2>4, <2>5 DEF new
<1> QED
  BY <1>1, <1>2

(* Removing the routes R from both tables leaves tombstones behind, so     *)
(* that the lookup stays complete, and the other routes alone.             *)
LEMMA RemoveKeeps ==
    ASSUME TypeOK, LookupComplete, OneRoute, NEW R, R \subseteq Routes,
           exact' = ExactRemove(R), wild' = WildRemove(R)
    PROVE  /\ exact' \in [RouteIdx -> Route(Topic) \cup {None, Deleted}]
           /\ wild' \in [RouteIdx -> Route(Wild) \cup {None}]
           /\ LookupComplete'
           /\ OneRoute'
           /\ Routes' \subseteq Routes \ R
<1>0. /\ exact \in [RouteIdx -> Route(Topic) \cup {None, Deleted}]
      /\ wild \in [RouteIdx -> Route(Wild) \cup {None}]
  BY DEF TypeOK
<1>1. \A k \in RouteIdx : exact'[k] = IF exact[k] \in R THEN Deleted ELSE exact[k]
  BY DEF ExactRemove
<1>2. \A k \in RouteIdx : wild'[k] = IF wild[k] \in R THEN None ELSE wild[k]
  BY DEF WildRemove
<1>3. exact' \in [RouteIdx -> Route(Topic) \cup {None, Deleted}]
  BY <1>0 DEF ExactRemove
<1>4. wild' \in [RouteIdx -> Route(Wild) \cup {None}]
  BY <1>0 DEF WildRemove
<1>5. LookupComplete'
  <2>1. \A k \in RouteIdx : exact[k] # None => exact'[k] # None
    BY <1>1, InputsAssumption
  <2>2. \A k \in RouteIdx :
           \/ exact'[k] \in {exact[k], None, Deleted}
           \/ \E j \in Reached(exact'[k].filter) : Probe(exact'[k].filter, j) = k
    BY <1>1
  <2> QED
    BY <1>3, <2>1, <2>2, LookupKept
<1>6. \A k \in ExactUsed' : k \in ExactUsed /\ exact'[k] = exact[k] /\ exact[k] \notin R
  BY <1>1 DEF ExactUsed
<1>7. \A k \in WildUsed' : k \in WildUsed /\ wild'[k] = wild[k] /\ wild[k] \notin R
  BY <1>2 DEF WildUsed
<1>8. OneRoute'
  BY <1>6, <1>7 DEF OneRoute
<1>9. Routes' \subseteq Routes \ R
  BY <1>6, <1>7 DEF Routes
<1> QED
  BY <1>3, <1>4, <1>5, <1>8, <1>9

(* A record that a route depends on. *)
Backs(node, r) ==
    /\ node # None
    /\ \E s \in SubIdx : node.subs[s] = r.filter
    /\ node.owner = r.owner
    /\ r.hop = node.hop \/ node.hop = r.owner

(* NoOrphanRoutes in terms of Backs. *)
LEMMA OrphanBacks ==
    NoOrphanRoutes <=> \A r \in Routes : \E i \in NodeIdx : Backs(nodes[i], r)
  BY DEF NoOrphanRoutes, Backs, Subscribed

----------------------------------------------------------------------------
(* p2p_router_remote_subscribe keeps the invariant. *)
LEMMA SubscribeStep ==
    ASSUME IInv, NEW o \in Node, NEW f \in Filter, NEW h \in Node,
           RemoteSubscribe(o, f, h)
    PROVE  IInv'
<1> DEFINE n == NodeFor(o)
           known == FindNode(o) # None
           old == IF known THEN nodes[n] ELSE NewNode(o, h)
           rerouted == ~known \/ (h = o /\ old.hop # o)
           hop == IF rerouted THEN h ELSE old.hop
           s == SubSlot(old.subs, f)
           rec == IF s = None THEN [old EXCEPT !.hop = hop]
                  ELSE [old EXCEPT !.hop = hop, !.subs[s] = f]
<1>0. TypeOK /\ JobOK /\ NoOrphanRoutes /\ LookupComplete /\ OneRoute
  BY DEF IInv
<1>1. /\ job = None
      /\ n # None
      /\ nodes' = [nodes EXCEPT ![n] = rec]
      /\ s = None => UNCHANGED <<exact, wild, job>>
      /\ s # None /\ rerouted =>
           job' = [node |-> n, at |-> 0] /\ UNCHANGED <<exact, wild>>
      /\ s # None /\ ~rerouted => RouteUpsert(o, hop, f) /\ UNCHANGED job
  BY DEF RemoteSubscribe
<1>2. n \in NodeIdx /\ nodes \in [NodeIdx -> NodeRec \cup {None}]
  BY <1>0, <1>1, NodeForSpec DEF TypeOK
<1>3. old \in NodeRec /\ old.owner = o
  <2>1. CASE known
    BY <1>0, <1>1, <2>1, FindNodeSpec, NodeForSpec DEF TypeOK
  <2>2. CASE ~known
    BY <2>2 DEF NewNode, NodeRec
  <2> QED
    BY <2>1, <2>2
<1>4. s # None => s \in SubIdx /\ old.subs[s] \in {f, None}
  BY SubSlotSpec
<1>5. hop \in Node
  BY <1>3 DEF NodeRec
<1>6. known => nodes[n] = old
  OBVIOUS
<1>7. ~known => nodes[n] = None
  BY <1>1, NodeForSpec
<1> HIDE DEF n, known, old, hop, s
<1>8. /\ rec \in NodeRec /\ rec.owner = o /\ rec.hop = hop /\ rec # None
      /\ \A j \in SubIdx : old.subs[j] # None => rec.subs[j] = old.subs[j]
      /\ s # None => rec.subs[s] = f
  <2>1. rec \in NodeRec /\ rec.owner = o /\ rec.hop = hop
    BY <1>3, <1>4, <1>5 DEF NodeRec
  <2>2. rec # None
    BY <2>1, InputsAssumption
  <2>3. \A j \in SubIdx : old.subs[j] # None => rec.subs[j] = old.subs[j]
    BY <1>3, <1>4 DEF NodeRec
  <2>4. s # None => rec.subs[s] = f
    BY <1>3, <1>4 DEF NodeRec
  <2> QED
    BY <2>1, <2>2, <2>3, <2>4
<1> HIDE DEF rec
<1>9. nodes' \in [NodeIdx -> NodeRec \cup {None}] /\ nodes'[n] = rec
      /\ \A i \in NodeIdx \ {n} : nodes'[i] = nodes[i]
  BY <1>1, <1>2, <1>8
<1>10. JobOK'
  <2>1. job' = None \/ (job' = [node |-> n, at |-> 0])
    BY <1>1
  <2> QED
    BY <1>8, <1>9, <2>1 DEF JobOK
<1>11. job' \in Job \cup {None}
  <2>1. 0 \in SubIdx
    BY SizesAssumption DEF SubIdx
  <2> QED
    BY <1>1, <1>2, <2>1 DEF Job
\* a route of a known node is still backed by it
<1>12. ASSUME NEW r \in Routes PROVE \E i \in NodeIdx : Backs(nodes'[i], r)
  <2>1. r.filter # None
    <3>1. r \in Route(Topic) \cup Route(Wild)
      BY <1>0 DEF TypeOK, Routes, ExactUsed, WildUsed
    <3> QED
      BY <3>1, InputsAssumption DEF Route, Filter
  <2>2. PICK i \in NodeIdx : Backs(nodes[i], r)
    BY <1>0, OrphanBacks
  <2>3. CASE i # n
    BY <1>9, <2>2, <2>3
  <2>4. CASE i = n
    <3>1. known /\ nodes[n] = old
      BY <1>6, <1>7, <2>2, <2>4 DEF Backs
    <3>2. hop = old.hop \/ hop = o
      BY <3>1 DEF hop
    <3>3. Backs(rec, r)
      BY <1>3, <1>8, <2>1, <2>2, <2>4, <3>1, <3>2 DEF Backs
    <3> QED
      BY <1>9, <2>4, <3>3
  <2> QED
    BY <2>3, <2>4
<1>13. CASE s = None \/ rerouted
  <2>1. exact' = exact /\ wild' = wild
    BY <1>1, <1>13
  <2>2. LookupComplete' /\ OneRoute' /\ Routes' = Routes
    BY <1>0, <2>1 DEF LookupComplete, OneRoute, Routes, ExactUsed, WildUsed, Reached, Probe
  <2>3. NoOrphanRoutes'
    BY <1>12, <2>2 DEF NoOrphanRoutes, Backs, Subscribed
  <2>4. TypeOK'
    BY <1>0, <1>9, <1>11, <2>1 DEF TypeOK
  <2> QED
    BY <1>10, <2>2, <2>3, <2>4 DEF IInv
<1>14. CASE s # None /\ ~rerouted
  <2> DEFINE new == [owner |-> o, hop |-> hop, filter |-> f]
  <2>1. RouteUpsert(o, hop, f)
    BY <1>1, <1>14
  <2>2. /\ exact' \in [RouteIdx -> Route(Topic) \cup {None, Deleted}]
        /\ wild' \in [RouteIdx -> Route(Wild) \cup {None}]
        /\ LookupComplete'
        /\ OneRoute'
        /\ Routes' \subseteq Routes \cup {new}
    BY <1>0, <1>5, <2>1, UpsertKeeps
  <2>3. Backs(rec, new)
    BY <1>4, <1>8, <1>14 DEF Backs
  <2>4. \A r \in Routes' : \E i \in NodeIdx : Backs(nodes'[i], r)
    BY <1>2, <1>9, <1>12, <2>2, <2>3
  <2>5. NoOrphanRoutes'
    BY <2>4 DEF NoOrphanRoutes, Backs, Subscribed
  <2>6. TypeOK'
    BY <1>9, <1>11, <2>2 DEF TypeOK
  <2> QED
    BY <1>10, <2>2, <2>5, <2>6 DEF IInv
<1> QED
  BY <1>13, <1>14

(* Routes carry an owner, a next hop and a filter. *)
LEMMA RouteFields ==
    ASSUME TypeOK, NEW r \in Routes
    PROVE  r.owner \in Node /\ r.hop \in Node /\ r.filter \in Filter /\ r.filter # None
<1>1. r \in Route(Topic) \cup Route(Wild)
  BY DEF TypeOK, Routes, ExactUsed, WildUsed
<1> QED
  BY <1>1, InputsAssumption DEF Route, Filter

(* A round of node_routes_refresh_locked keeps the invariant. *)
LEMMA RefreshStep ==
    ASSUME IInv, RefreshRoute
    PROVE  IInv'
<1> DEFINE node == nodes[job.node]
           f == node.subs[job.at]
           new == [owner |-> node.owner, hop |-> node.hop, filter |-> f]
<1>0. TypeOK /\ JobOK /\ NoOrphanRoutes /\ LookupComplete /\ OneRoute
  BY DEF IInv
<1>1. /\ job # None
      /\ f = None => UNCHANGED <<exact, wild>>
      /\ f # None => RouteUpsert(node.owner, node.hop, f)
      /\ job' = IF job.at + 1 = P2P_REMOTE_SUBS_PER_NODE THEN None
                ELSE [job EXCEPT !.at = @ + 1]
      /\ nodes' = nodes
  BY DEF RefreshRoute, RefreshNext
<1>2. job \in Job
  BY <1>0, <1>1 DEF TypeOK
<1>3. job.node \in NodeIdx /\ job.at \in SubIdx
  BY <1>2 DEF Job
<1>4. node \in NodeRec /\ node # None
  BY <1>0, <1>1, <1>3 DEF TypeOK, JobOK
<1>5. node.owner \in Node /\ node.hop \in Node /\ f \in Filter \cup {None}
  BY <1>3, <1>4 DEF NodeRec
<1>6. job' = None \/ (job' \in Job /\ job'.node = job.node)
  <2>1. CASE job.at + 1 = P2P_REMOTE_SUBS_PER_NODE
    BY <1>1, <2>1
  <2>2. CASE job.at + 1 # P2P_REMOTE_SUBS_PER_NODE
    <3>1. job.at + 1 \in SubIdx
      BY <1>3, <2>2, SizesAssumption DEF SubIdx
    <3>2. job' = [job EXCEPT !.at = @ + 1]
      BY <1>1, <2>2
    <3> QED
      BY <1>2, <3>1, <3>2 DEF Job
  <2> QED
    BY <2>1, <2>2
<1>7. JobOK'
  BY <1>1, <1>4, <1>6 DEF JobOK
<1> HIDE DEF node, f
<1>8. /\ exact' \in [RouteIdx -> Route(Topic) \cup {None, Deleted}]
      /\ wild' \in [RouteIdx -> Route(Wild) \cup {None}]
      /\ LookupComplete'
      /\ OneRoute'
      /\ f = None => Routes' = Routes
      /\ f # None => Routes' \subseteq Routes \cup {new}
  <2>1. CASE f = None
    <3>1. exact' = exact /\ wild' = wild
      BY <1>1, <2>1
    <3>2. LookupComplete' /\ OneRoute' /\ Routes' = Routes
      BY <1>0, <3>1 DEF LookupComplete, OneRoute, Routes, ExactUsed, WildUsed, Reached, Probe
    <3> QED
      BY <1>0, <2>1, <3>1, <3>2 DEF TypeOK
  <2>2. CASE f # None
    <3>1. f \in Filter /\ RouteUpsert(node.owner, node.hop, f)
      BY <1>1, <1>5, <2>2
    <3> QED
      BY <1>0, <1>5, <2>2, <3>1, UpsertKeeps
  <2> QED
    BY <2>1, <2>2
<1>9. f # None => Backs(node, new)
  BY <1>3, <1>4 DEF Backs, f
<1>10. \A r \in Routes : \E i \in NodeIdx : Backs(nodes[i], r)
  BY <1>0, OrphanBacks
<1>11. \A r \in Routes' : \E i \in NodeIdx : Backs(nodes'[i], r)
  <2> SUFFICES ASSUME NEW r \in Routes' PROVE \E i \in NodeIdx : Backs(nodes'[i], r)
    OBVIOUS
  <2>1. CASE r \in Routes
    BY <1>1, <1>10, <2>1
  <2>2. CASE r \notin Routes
    <3>1. f # None /\ r = new
      BY <1>8, <2>2
    <3>2. Backs(nodes[job.node], r)
      BY <1>9, <3>1 DEF node
    <3> QED
      BY <1>1, <1>3, <3>2
  <2> QED
    BY <2>1, <2>2
<1>12. NoOrphanRoutes'
  BY <1>11 DEF NoOrphanRoutes, Backs, Subscribed
<1>13. TypeOK'
  BY <1>0, <1>1, <1>6, <1>8 DEF TypeOK
<1> QED
  BY <1>7, <1>8, <1>12, <1>13 DEF IInv

(* p2p_router_remote_unsubscribe keeps the invariant: the node keeps the   *)
(* filters of the routes that stay.                                        *)
LEMMA UnsubscribeStep ==
    ASSUME IInv, NEW o \in Node, NEW f \in Filter, RemoteUnsubscribe(o, f)
    PROVE  IInv'
<1> DEFINE n == FindNode(o)
           left == [s \in SubIdx |-> IF nodes[n].subs[s] = f THEN None
                                     ELSE nodes[n].subs[s]]
           gone == {r \in Routes : r.owner = o /\ r.filter = f}
           rec == IF \A s \in SubIdx : left[s] = None THEN None
                  ELSE [nodes[n] EXCEPT !.subs = left]
           has == \E s \in SubIdx : nodes[n].subs[s] = f
<1>0. TypeOK /\ JobOK /\ NoOrphanRoutes /\ LookupComplete /\ OneRoute
  BY DEF IInv
<1>1. /\ job = None
      /\ n # None
      /\ has => exact' = ExactRemove(gone) /\ wild' = WildRemove(gone)
      /\ ~has => exact' = exact /\ wild' = wild
      /\ nodes' = [nodes EXCEPT ![n] = rec]
      /\ job' = job
  BY DEF RemoteUnsubscribe
<1>2. n \in NodeIdx /\ nodes[n] # None /\ nodes[n].owner = o
  BY <1>1, FindNodeSpec
<1>3. nodes \in [NodeIdx -> NodeRec \cup {None}] /\ nodes[n] \in NodeRec
  BY <1>0, <1>2 DEF TypeOK
<1> HIDE DEF n
<1>4. left \in [SubIdx -> Filter \cup {None}]
  BY <1>3 DEF NodeRec
<1>5. rec = None \/ ( /\ rec \in NodeRec /\ rec.subs = left
                      /\ rec.owner = nodes[n].owner /\ rec.hop = nodes[n].hop )
  BY <1>3, <1>4 DEF NodeRec
<1>6. nodes' \in [NodeIdx -> NodeRec \cup {None}] /\ nodes'[n] = rec
      /\ \A i \in NodeIdx \ {n} : nodes'[i] = nodes[i]
  BY <1>1, <1>2, <1>3, <1>5
<1>7. /\ exact' \in [RouteIdx -> Route(Topic) \cup {None, Deleted}]
      /\ wild' \in [RouteIdx -> Route(Wild) \cup {None}]
      /\ LookupComplete'
      /\ OneRoute'
      /\ Routes' \subseteq Routes
      /\ has => Routes' \subseteq Routes \ gone
  <2>1. CASE has
    BY <1>0, <1>1, <2>1, RemoveKeeps
  <2>2. CASE ~has
    <3>1. exact' = exact /\ wild' = wild
      BY <1>1, <2>2
    <3>2. LookupComplete' /\ OneRoute' /\ Routes' = Routes
      BY <1>0, <3>1 DEF LookupComplete, OneRoute, Routes, ExactUsed, WildUsed, Reached, Probe
    <3> QED
      BY <1>0, <2>2, <3>1, <3>2 DEF TypeOK
  <2> QED
    BY <2>1, <2>2
<1>8. ASSUME NEW r \in Routes' PROVE \E i \in NodeIdx : Backs(nodes'[i], r)
  <2>1. r \in Routes /\ r.filter # None
    BY <1>0, <1>7, RouteFields
  <2>2. PICK i \in NodeIdx : Backs(nodes[i], r)
    BY <1>0, <2>1, OrphanBacks
  <2>3. CASE i # n
    BY <1>6, <2>2, <2>3
  <2>4. CASE i = n
    <3>1. PICK s \in SubIdx : nodes[n].subs[s] = r.filter
      BY <2>2, <2>4 DEF Backs
    <3>2. r.owner = o
      BY <1>2, <2>2, <2>4 DEF Backs
    <3>3. r.filter # f
      <4> SUFFICES ASSUME r.filter = f PROVE FALSE
        OBVIOUS
      <4>1. has /\ r \in gone
        BY <2>1, <3>1, <3>2
      <4> QED
        BY <1>7, <4>1
    <3>4. left[s] = r.filter
      BY <3>1, <3>3
    <3>5. rec # None /\ rec \in NodeRec /\ rec.subs = left
          /\ rec.owner = nodes[n].owner /\ rec.hop = nodes[n].hop
      <4>1. rec = [nodes[n] EXCEPT !.subs = left]
        BY <2>1, <3>4
      <4>2. rec \in NodeRec /\ rec.subs = left
            /\ rec.owner = nodes[n].owner /\ rec.hop = nodes[n].hop
        BY <1>3, <1>4, <4>1 DEF NodeRec
      <4> QED
        BY <4>2, InputsAssumption
    <3> HIDE DEF rec, left
    <3>6. Backs(rec, r)
      BY <2>2, <2>4, <3>4, <3>5 DEF Backs
    <3> QED
      BY <1>2, <1>6, <3>6
  <2> QED
    BY <2>3, <2>4
<1>9. NoOrphanRoutes'
  BY <1>8 DEF NoOrphanRoutes, Backs, Subscribed
<1>10. TypeOK' /\ JobOK'
  BY <1>0, <1>1, <1>6, <1>7 DEF TypeOK, JobOK
<1> QED
  BY <1>7, <1>9, <1>10 DEF IInv

(* p2p_router_remove_node keeps the invariant: a route that neither comes  *)
(* from the lost node nor leads over it is backed by such a node record.   *)
LEMMA RemoveNodeStep ==
    ASSUME IInv, NEW x \in Node, RemoveNode(x)
    PROVE  IInv'
<1> DEFINE gone == {r \in Routes : Uses(r, x)}
<1>0. TypeOK /\ JobOK /\ NoOrphanRoutes /\ LookupComplete /\ OneRoute
  BY DEF IInv
<1>1. /\ job = None /\ job' = job
      /\ nodes' = [i \in NodeIdx |-> IF nodes[i] # None /\ Uses(nodes[i], x)
                                     THEN None ELSE nodes[i]]
      /\ exact' = ExactRemove(gone)
      /\ wild' = WildRemove(gone)
  BY DEF RemoveNode
<1>2. /\ exact' \in [RouteIdx -> Route(Topic) \cup {None, Deleted}]
      /\ wild' \in [RouteIdx -> Route(Wild) \cup {None}]
      /\ LookupComplete'
      /\ OneRoute'
      /\ Routes' \subseteq Routes \ gone
  BY <1>0, <1>1, RemoveKeeps
<1>3. nodes' \in [NodeIdx -> NodeRec \cup {None}]
  BY <1>0, <1>1 DEF TypeOK
<1>4. ASSUME NEW r \in Routes' PROVE \E i \in NodeIdx : Backs(nodes'[i], r)
  <2>1. r \in Routes /\ r.owner # x /\ r.hop # x
    BY <1>2 DEF Uses
  <2>2. PICK i \in NodeIdx : Backs(nodes[i], r)
    BY <1>0, <2>1, OrphanBacks
  <2>3. nodes[i] # None /\ ~Uses(nodes[i], x)
    BY <2>1, <2>2 DEF Backs, Uses
  <2>4. nodes'[i] = nodes[i]
    BY <1>1, <2>3
  <2> QED
    BY <2>2, <2>4
<1>5. NoOrphanRoutes'
  BY <1>4 DEF NoOrphanRoutes, Backs, Subscribed
<1>6. TypeOK' /\ JobOK'
  BY <1>0, <1>1, <1>2, <1>3 DEF TypeOK, JobOK
<1> QED
  BY <1>2, <1>5, <1>6 DEF IInv

(* Steps that change none of the tables. *)
LEMMA StutterStep ==
    ASSUME IInv, UNCHANGED vars
    PROVE  IInv'
  BY DEF IInv, vars, TypeOK, JobOK, NoOrphanRoutes, LookupComplete, OneRoute,
         Routes, ExactUsed, WildUsed, Reached, Probe, Subscribed

(* p2p_router_init leaves empty tables. *)
LEMMA InitInv == Init => IInv
<1> SUFFICES ASSUME Init PROVE IInv
  OBVIOUS
<1>1. TypeOK /\ JobOK
  BY DEF Init, TypeOK, JobOK
<1>2. ExactUsed = {} /\ WildUsed = {}
  BY DEF Init, ExactUsed, WildUsed
<1>3. Routes = {}
  BY <1>2 DEF Routes
<1> QED
  BY <1>1, <1>2, <1>3 DEF IInv, NoOrphanRoutes, LookupComplete, OneRoute

----------------------------------------------------------------------------
(* The inductive invariant holds in every reachable state of p2p_router.c. *)
THEOREM Invariant == Spec => []IInv
<1>1. Init => IInv
  BY InitInv
<1>2. IInv /\ [Next]_vars => IInv'
  <2> SUFFICES ASSUME IInv, [Next]_vars PROVE IInv'
    OBVIOUS
  <2>1. ASSUME NEW o \in Node, NEW f \in Filter, NEW h \in Node,
               RemoteSubscribe(o, f, h)
        PROVE  IInv'
    BY <2>1, SubscribeStep
  <2>2. ASSUME NEW o \in Node, NEW f \in Filter, RemoteUnsubscribe(o, f)
        PROVE  IInv'
    BY <2>2, UnsubscribeStep
  <2>3. ASSUME NEW x \in Node, RemoveNode(x) PROVE IInv'
    BY <2>3, RemoveNodeStep
  <2>4. CASE RefreshRoute
    BY <2>4, RefreshStep
  <2>5. CASE UNCHANGED vars
    BY <2>5, StutterStep
  <2> QED
    BY <2>1, <2>2, <2>3, <2>4, <2>5 DEF Next
<1> QED
  BY <1>1, <1>2, PTL DEF Spec

(* No upsert, probe or refresh leaves the fixed tables of p2p_router.c. *)
THEOREM TypeCorrect == Spec => []TypeOK
<1>1. IInv => TypeOK
  BY DEF IInv
<1> QED
  BY <1>1, Invariant, PTL

(* p2p_router_remote_unsubscribe and p2p_router_remove_node never leave a  *)
(* route to a subscription that is gone.                                   *)
THEOREM NoOrphans == Spec => []NoOrphanRoutes
<1>1. IInv => NoOrphanRoutes
  BY DEF IInv
<1> QED
  BY <1>1, Invariant, PTL

(* The probe of p2p_router_find_next_hops gets to every route of the hash  *)
(* table, for every hash function and every history of the table.          *)
THEOREM LookupFindsAll == Spec => []LookupComplete
<1>1. IInv => LookupComplete
  BY DEF IInv
<1> QED
  BY <1>1, Invariant, PTL

(* No owner and filter ever have two routes. *)
THEOREM SingleRoute == Spec => []OneRoute
<1>1. IInv => OneRoute
  BY DEF IInv
<1> QED
  BY <1>1, Invariant, PTL

----------------------------------------------------------------------------
(* The next hops of a publish.                                             *)

(* An owner has one node, a node has a filter once, and every subscription *)
(* has its route, except those that the refresh loop has still to write.   *)
NodesUnique ==
    \A i, j \in NodeIdx :
        nodes[i] # None /\ nodes[j] # None /\ nodes[i].owner = nodes[j].owner => i = j

SubsUnique ==
    \A i \in NodeIdx : \A s, t \in SubIdx :
        nodes[i] # None /\ nodes[i].subs[s] # None /\ nodes[i].subs[s] = nodes[i].subs[t]
            => s = t

RouteOf(node, s) == [owner |-> node.owner, hop |-> node.hop, filter |-> node.subs[s]]

Routed ==
    \A i \in NodeIdx, s \in SubIdx :
        nodes[i] # None /\ nodes[i].subs[s] # None =>
            \/ RouteOf(nodes[i], s) \in Routes
            \/ job # None /\ job.node = i /\ job.at <= s

RInv == IInv /\ NodesUnique /\ SubsUnique /\ Routed

(* The step of p2p_router_remote_subscribe that the README lists: the SUB  *)
(* makes the owner a direct peer but finds no place for the filter, so     *)
(* that the routes are not refreshed.                                      *)
RerouteRefused ==
    \E o \in Node, f \in Filter :
        /\ FindNode(o) # None
        /\ nodes[FindNode(o)].hop # o
        /\ SubSlot(nodes[FindNode(o)].subs, f) = None
        /\ RemoteSubscribe(o, f, o)

(* The sizes of the tables. *)
LEMMA IndexCards ==
    /\ IsFiniteSet(NodeIdx) /\ Cardinality(NodeIdx) = P2P_REMOTE_NODE_MAX
    /\ IsFiniteSet(SubIdx) /\ Cardinality(SubIdx) = P2P_REMOTE_SUBS_PER_NODE
    /\ IsFiniteSet(RouteIdx) /\ Cardinality(RouteIdx) = RouteMax
<1>1. \A m \in Nat \ {0} : IsFiniteSet(0 .. m - 1) /\ Cardinality(0 .. m - 1) = m
  <2> TAKE m \in Nat \ {0}
  <2>1. 0 \in Int /\ m - 1 \in Int /\ ~(0 > m - 1) /\ (m - 1) - 0 + 1 = m
    OBVIOUS
  <2> QED
    BY <2>1, FS_Interval
<1> QED
  BY <1>1, SizesAssumption DEF NodeIdx, SubIdx, RouteIdx

(* A table whose entries are routes of different subscriptions has no room *)
(* for another one only if there is none: RouteMax is the number of the    *)
(* subscriptions that all nodes can have, and one of these is not yet      *)
(* routed.                                                                 *)
LEMMA NotAllUsed ==
    ASSUME NEW T, NEW n \in NodeIdx, NEW s \in SubIdx,
           \A j, k \in RouteIdx :
               T[j].owner = T[k].owner /\ T[j].filter = T[k].filter => j = k,
           \A k \in RouteIdx : \E i \in NodeIdx, t \in SubIdx :
               <<i, t>> # <<n, s>> /\ nodes[i].owner = T[k].owner
                                  /\ nodes[i].subs[t] = T[k].filter
    PROVE  FALSE
<1> DEFINE All == NodeIdx \X SubIdx
           Others == All \ {<<n, s>>}
           Is(k, p) == nodes[p[1]].owner = T[k].owner /\ nodes[p[1]].subs[p[2]] = T[k].filter
           g == [k \in RouteIdx |-> CHOOSE p \in Others : Is(k, p)]
<1>1. \A k \in RouteIdx : \E p \in Others : Is(k, p)
  <2> TAKE k \in RouteIdx
  <2>1. PICK i \in NodeIdx, t \in SubIdx :
           <<i, t>> # <<n, s>> /\ nodes[i].owner = T[k].owner /\ nodes[i].subs[t] = T[k].filter
    OBVIOUS
  <2>2. <<i, t>> \in Others /\ Is(k, <<i, t>>)
    BY <2>1
  <2> QED
    BY <2>2
<1>2. \A k \in RouteIdx : g[k] \in Others /\ Is(k, g[k])
  BY <1>1
<1>3. g \in [RouteIdx -> Others]
  BY <1>2
<1> HIDE DEF g
<1>4. \A j, k \in RouteIdx : g[j] = g[k] => j = k
  BY <1>2
<1>5. /\ IsFiniteSet(NodeIdx) /\ Cardinality(NodeIdx) = P2P_REMOTE_NODE_MAX
      /\ IsFiniteSet(SubIdx) /\ Cardinality(SubIdx) = P2P_REMOTE_SUBS_PER_NODE
      /\ IsFiniteSet(RouteIdx) /\ Cardinality(RouteIdx) = RouteMax
  BY IndexCards
<1>6. IsFiniteSet(All) /\ Cardinality(All) = RouteMax
  BY <1>5, FS_Product DEF RouteMax
<1>7. <<n, s>> \in All
  OBVIOUS
<1> HIDE DEF All
<1>8. IsFiniteSet(Others) /\ Cardinality(Others) = RouteMax - 1
  BY <1>6, <1>7, FS_RemoveElement
<1> HIDE DEF Others
<1>9. Cardinality(Others) < Cardinality(RouteIdx)
  BY <1>5, <1>8, SizesAssumption
<1> QED
  BY <1>3, <1>4, <1>5, <1>8, <1>9, FS_PigeonHole

(* Subscription s of node n, whose record is node: no route of another     *)
(* subscription is taken for its own.                                      *)
Pending(n, s, o, f) ==
    nodes[n] = None \/ (nodes[n].owner = o /\ nodes[n].subs[s] \in {f, None})

(* exact_route_upsert_locked finds the route of the subscription or a      *)
(* place for it.                                                           *)
LEMMA ExactRoom ==
    ASSUME IInv, NEW n \in NodeIdx, NEW s \in SubIdx, NEW o \in Node, NEW f \in Topic,
           Pending(n, s, o, f)
    PROVE  \E q \in Reached(f) : \/ IsRoute(exact[Probe(f, q)], o, f)
                                 \/ exact[Probe(f, q)] \in {None, Deleted}
<1>0. TypeOK /\ NoOrphanRoutes /\ LookupComplete /\ OneRoute
  BY DEF IInv
<1> SUFFICES ASSUME \A q \in Reached(f) : /\ ~IsRoute(exact[Probe(f, q)], o, f)
                                          /\ exact[Probe(f, q)] \notin {None, Deleted}
             PROVE  FALSE
  OBVIOUS
<1>1. \A q \in RouteIdx : exact[Probe(f, q)] \notin {None, Deleted}
  <2> DEFINE G == {q \in RouteIdx : exact[Probe(f, q)] \in {None, Deleted}}
  <2> SUFFICES ASSUME G # {} PROVE FALSE
    OBVIOUS
  <2>1. G \subseteq Nat
    BY IndexSets
  <2>2. PICK q \in G : \A j \in G : q <= j
    BY <2>1, FirstFound
  <2>3. \A j \in 0 .. q - 1 : j \in RouteIdx /\ j \notin G
    BY <2>1, <2>2, IndexSets DEF RouteIdx
  <2>4. q \in Reached(f)
    BY <2>2, <2>3 DEF Reached
  <2> QED
    BY <2>2, <2>4
<1>2. \A k \in RouteIdx : k \in ExactUsed
  <2> TAKE k \in RouteIdx
  <2>1. \E q \in 0 .. RouteMax - 1 : (Hash[f] + q) % RouteMax = k
    BY ProbesReach, IndexSets, InputsAssumption DEF RouteIdx
  <2>2. PICK q \in RouteIdx : Probe(f, q) = k
    BY <2>1 DEF RouteIdx, Probe
  <2> QED
    BY <1>1, <2>2 DEF ExactUsed
<1>3. \A k \in RouteIdx : ~(exact[k].owner = o /\ exact[k].filter = f)
  <2> SUFFICES ASSUME NEW k \in RouteIdx, exact[k].owner = o, exact[k].filter = f PROVE FALSE
    OBVIOUS
  <2>1. PICK q \in Reached(f) : Probe(f, q) = k
    BY <1>0, <1>2 DEF LookupComplete
  <2> QED
    BY <1>2, <2>1 DEF IsRoute, ExactUsed
<1>4. \A j, k \in RouteIdx :
         exact[j].owner = exact[k].owner /\ exact[j].filter = exact[k].filter => j = k
  BY <1>0, <1>2 DEF OneRoute
<1>5. ASSUME NEW k \in RouteIdx
      PROVE  \E i \in NodeIdx, t \in SubIdx :
               <<i, t>> # <<n, s>> /\ nodes[i].owner = exact[k].owner
                                  /\ nodes[i].subs[t] = exact[k].filter
  <2>1. exact[k] \in Routes
    BY <1>2 DEF Routes
  <2>2. PICK i \in NodeIdx, t \in SubIdx :
           /\ nodes[i] # None /\ nodes[i].owner = exact[k].owner
           /\ nodes[i].subs[t] = exact[k].filter
    BY <1>0, <2>1 DEF NoOrphanRoutes, Subscribed
  <2>3. exact[k].filter # None
    BY <1>0, <2>1, RouteFields
  <2>4. <<i, t>> # <<n, s>>
    BY <1>3, <2>2, <2>3 DEF Pending
  <2> QED
    BY <2>2, <2>4
<1> QED
  BY <1>4, <1>5, NotAllUsed

(* The same for wildcard_route_upsert_locked. *)
LEMMA WildRoom ==
    ASSUME IInv, NEW n \in NodeIdx, NEW s \in SubIdx, NEW o \in Node, NEW f \in Wild,
           Pending(n, s, o, f)
    PROVE  \E k \in RouteIdx : IsRoute(wild[k], o, f) \/ wild[k] = None
<1>0. TypeOK /\ NoOrphanRoutes /\ OneRoute
  BY DEF IInv
<1> SUFFICES ASSUME \A k \in RouteIdx : ~IsRoute(wild[k], o, f) /\ wild[k] # None
             PROVE  FALSE
  OBVIOUS
<1>1. \A k \in RouteIdx : wild[k] \in Route(Wild) /\ wild[k] \in Routes /\ k \in WildUsed
  BY <1>0 DEF TypeOK, Routes, WildUsed
<1>2. \A k \in RouteIdx : ~(wild[k].owner = o /\ wild[k].filter = f)
  <2>1. \A r \in Route(Wild) : r # Deleted
    BY InputsAssumption DEF Route, Filter
  <2> QED
    BY <1>1, <2>1 DEF IsRoute
<1>4. \A j, k \in RouteIdx :
         wild[j].owner = wild[k].owner /\ wild[j].filter = wild[k].filter => j = k
  BY <1>0, <1>1 DEF OneRoute
<1>5. ASSUME NEW k \in RouteIdx
      PROVE  \E i \in NodeIdx, t \in SubIdx :
               <<i, t>> # <<n, s>> /\ nodes[i].owner = wild[k].owner
                                  /\ nodes[i].subs[t] = wild[k].filter
  <2>2. PICK i \in NodeIdx, t \in SubIdx :
           /\ nodes[i] # None /\ nodes[i].owner = wild[k].owner
           /\ nodes[i].subs[t] = wild[k].filter
    BY <1>0, <1>1 DEF NoOrphanRoutes, Subscribed
  <2>3. wild[k].filter # None
    BY <1>0, <1>1, RouteFields
  <2>4. <<i, t>> # <<n, s>>
    BY <1>2, <2>2, <2>3 DEF Pending
  <2> QED
    BY <2>2, <2>4
<1> QED
  BY <1>4, <1>5, NotAllUsed

(* route_upsert_locked writes the route of the subscription and leaves the *)
(* others alone.                                                           *)
LEMMA UpsertExact ==
    ASSUME IInv, NEW n \in NodeIdx, NEW s \in SubIdx,
           NEW o \in Node, NEW h \in Node, NEW f \in Filter,
           Pending(n, s, o, f), RouteUpsert(o, h, f)
    PROVE  /\ [owner |-> o, hop |-> h, filter |-> f] \in Routes'
           /\ \A r \in Routes : r.owner # o \/ r.filter # f => r \in Routes'
<1> DEFINE new == [owner |-> o, hop |-> h, filter |-> f]
<1>0. /\ exact \in [RouteIdx -> Route(Topic) \cup {None, Deleted}]
      /\ wild \in [RouteIdx -> Route(Wild) \cup {None}]
  BY DEF IInv, TypeOK
<1>1. new \notin {None, Deleted}
  BY InputsAssumption DEF Route
<1>2. CASE f \in Topic
  <2>1. exact' = ExactUpsert(o, h, f) /\ wild' = wild
    BY <1>2 DEF RouteUpsert
  <2>2. PICK q \in Reached(f) :
          /\ exact' = [exact EXCEPT ![Probe(f, q)] = new]
          /\ \/ IsRoute(exact[Probe(f, q)], o, f)
             \/ exact[Probe(f, q)] \in {None, Deleted}
    BY <1>2, <2>1, ExactRoom, ExactUpsertSpec
  <2> DEFINE p == Probe(f, q)
  <2>3. p \in RouteIdx
    BY <1>2, ProbeType DEF Reached
  <2> HIDE DEF p, new
  <2>4. \A k \in RouteIdx : exact'[k] = IF k = p THEN new ELSE exact[k]
    BY <1>0, <2>2 DEF p
  <2>5. new \in Routes'
    BY <1>1, <2>3, <2>4 DEF Routes, ExactUsed
  <2>6. \A k \in ExactUsed : exact[k].owner # o \/ exact[k].filter # f
                              => exact[k] \in Routes'
    <3> SUFFICES ASSUME NEW k \in ExactUsed, exact[k].owner # o \/ exact[k].filter # f
                 PROVE  k \in ExactUsed' /\ exact'[k] = exact[k]
      BY DEF Routes
    <3>1. k \in RouteIdx /\ exact[k] \notin {None, Deleted}
      BY DEF ExactUsed
    <3>2. k # p
      BY <2>2, <3>1 DEF p, IsRoute
    <3> QED
      BY <2>4, <3>1, <3>2 DEF ExactUsed
  <2>7. \A k \in WildUsed : wild[k] \in Routes'
    BY <2>1 DEF Routes, WildUsed
  <2> QED
    BY <2>5, <2>6, <2>7 DEF Routes, new
<1>3. CASE f \notin Topic
  <2>1. wild' = WildUpsert(o, h, f) /\ exact' = exact /\ f \in Wild
    BY <1>3 DEF RouteUpsert, Filter
  <2>2. PICK p \in RouteIdx :
          /\ wild' = [wild EXCEPT ![p] = new]
          /\ IsRoute(wild[p], o, f) \/ wild[p] = None
    BY <2>1, WildRoom, WildUpsertSpec
  <2> HIDE DEF new
  <2>4. \A k \in RouteIdx : wild'[k] = IF k = p THEN new ELSE wild[k]
    BY <1>0, <2>2
  <2>5. new \in Routes'
    BY <1>1, <2>4 DEF Routes, WildUsed
  <2>6. \A k \in WildUsed : wild[k].owner # o \/ wild[k].filter # f
                             => wild[k] \in Routes'
    <3> SUFFICES ASSUME NEW k \in WildUsed, wild[k].owner # o \/ wild[k].filter # f
                 PROVE  k \in WildUsed' /\ wild'[k] = wild[k]
      BY DEF Routes
    <3>1. k \in RouteIdx /\ wild[k] # None
      BY DEF WildUsed
    <3>2. k # p
      BY <2>2, <3>1 DEF IsRoute
    <3> QED
      BY <2>4, <3>1, <3>2 DEF WildUsed
  <2>7. \A k \in ExactUsed : exact[k] \in Routes'
    BY <2>1 DEF Routes, ExactUsed
  <2> QED
    BY <2>5, <2>6, <2>7 DEF Routes, new
<1> QED
  BY <1>2, <1>3

(* The removal of routes removes no other one. *)
LEMMA RemoveExact ==
    ASSUME NEW R, exact' = ExactRemove(R), wild' = WildRemove(R)
    PROVE  Routes \ R \subseteq Routes'
<1>1. \A k \in ExactUsed : exact[k] \notin R => k \in ExactUsed' /\ exact'[k] = exact[k]
  BY DEF ExactRemove, ExactUsed
<1>2. \A k \in WildUsed : wild[k] \notin R => k \in WildUsed' /\ wild'[k] = wild[k]
  BY DEF WildRemove, WildUsed
<1> QED
  BY <1>1, <1>2 DEF Routes

(* A filter that gets an unused entry is in no other. *)
LEMMA SubSlotFresh ==
    ASSUME NEW subs, NEW f, SubSlot(subs, f) # None
    PROVE  subs[SubSlot(subs, f)] = f \/ \A t \in SubIdx : subs[t] # f
<1> DEFINE H == {s \in SubIdx : subs[s] = f}
<1>1. H # {} => First(H) \in H /\ First(H) # None
  BY IndexSets, FirstFound
<1>2. First(H) # None => SubSlot(subs, f) = First(H)
  BY DEF SubSlot
<1> QED
  BY <1>1, <1>2

----------------------------------------------------------------------------
(* p2p_router_remote_subscribe: a new subscription is routed at once, or   *)
(* by the refresh loop that the step starts.                               *)
LEMMA SubscribeRouted ==
    ASSUME RInv, NEW o \in Node, NEW f \in Filter, NEW h \in Node,
           RemoteSubscribe(o, f, h), ~RerouteRefused
    PROVE  NodesUnique' /\ SubsUnique' /\ Routed'
<1> DEFINE n == NodeFor(o)
           known == FindNode(o) # None
           old == IF known THEN nodes[n] ELSE NewNode(o, h)
           rerouted == ~known \/ (h = o /\ old.hop # o)
           hop == IF rerouted THEN h ELSE old.hop
           s == SubSlot(old.subs, f)
           rec == IF s = None THEN [old EXCEPT !.hop = hop]
                  ELSE [old EXCEPT !.hop = hop, !.subs[s] = f]
<1>0. IInv /\ TypeOK /\ NodesUnique /\ SubsUnique /\ Routed
  BY DEF RInv, IInv
<1>1. /\ job = None
      /\ n # None
      /\ nodes' = [nodes EXCEPT ![n] = rec]
      /\ s = None => UNCHANGED <<exact, wild, job>>
      /\ s # None /\ rerouted =>
           job' = [node |-> n, at |-> 0] /\ UNCHANGED <<exact, wild>>
      /\ s # None /\ ~rerouted => RouteUpsert(o, hop, f) /\ UNCHANGED job
  BY DEF RemoteSubscribe
<1>2. n \in NodeIdx /\ nodes \in [NodeIdx -> NodeRec \cup {None}]
  BY <1>0, <1>1, NodeForSpec DEF TypeOK
<1>3. old \in NodeRec /\ old.owner = o
  <2>1. CASE known
    BY <1>0, <1>1, <2>1, FindNodeSpec, NodeForSpec DEF TypeOK
  <2>2. CASE ~known
    BY <2>2 DEF NewNode, NodeRec
  <2> QED
    BY <2>1, <2>2
<1>4. s # None => s \in SubIdx /\ old.subs[s] \in {f, None}
                  /\ (old.subs[s] = f \/ \A t \in SubIdx : old.subs[t] # f)
  BY SubSlotSpec, SubSlotFresh
<1>5. hop \in Node
  BY <1>3 DEF NodeRec
<1>6. known => nodes[n] = old /\ nodes[n] # None
  BY <1>1, FindNodeSpec, NodeForSpec
<1>7. ~known => /\ nodes[n] = None
                /\ \A t \in SubIdx : old.subs[t] = None
                /\ \A i \in NodeIdx : nodes[i] # None => nodes[i].owner # o
  BY <1>1, NodeForSpec, FindNodeSpec DEF NewNode
<1>8. s = None => known /\ ~rerouted
  <2> SUFFICES ASSUME s = None PROVE known /\ ~rerouted
    OBVIOUS
  <2>1. known
    BY NewNodeSlot
  <2>2. n = FindNode(o) /\ old = nodes[FindNode(o)]
    BY <1>1, <2>1, NodeForSpec
  <2>3. ASSUME h = o, old.hop # o PROVE FALSE
    <3>1. RerouteRefused
      BY <2>1, <2>2, <2>3 DEF RerouteRefused
    <3> QED
      BY <3>1
  <2> QED
    BY <2>1, <2>3
<1>9. ~rerouted => known /\ hop = old.hop
  OBVIOUS
<1> HIDE DEF n, known, old, hop, s, rerouted
<1>10. CASE s = None
  <2>1. rec = old
    <3>1. rec = [old EXCEPT !.hop = old.hop]
      BY <1>8, <1>9, <1>10
    <3> QED
      BY <1>3, <3>1 DEF NodeRec
  <2>2. nodes' = nodes
    BY <1>1, <1>2, <1>6, <1>8, <1>10, <2>1
  <2> HIDE DEF rec
  <2> QED
    BY <1>0, <1>1, <1>10, <2>2
       DEF NodesUnique, SubsUnique, Routed, Routes, ExactUsed, WildUsed
<1>11. CASE s # None
  <2>1. /\ rec \in NodeRec /\ rec.owner = o /\ rec.hop = hop /\ rec # None
        /\ rec.subs[s] = f
        /\ \A t \in SubIdx : t # s => rec.subs[t] = old.subs[t]
    <3>1. rec = [old EXCEPT !.hop = hop, !.subs[s] = f] /\ s \in SubIdx
      BY <1>4, <1>11
    <3>2. rec \in NodeRec
      BY <1>3, <1>5, <3>1 DEF NodeRec
    <3>3. rec # None
      BY <3>2, InputsAssumption
    <3> QED
      BY <1>3, <3>1, <3>2, <3>3 DEF NodeRec
  <2> HIDE DEF rec
  <2>2. nodes'[n] = rec /\ \A i \in NodeIdx \ {n} : nodes'[i] = nodes[i]
    BY <1>1, <1>2
  <2>3. \A i \in NodeIdx \ {n} : nodes[i] # None => nodes[i].owner # o
    BY <1>0, <1>2, <1>3, <1>6, <1>7 DEF NodesUnique
  <2>4. NodesUnique'
    <3> SUFFICES ASSUME NEW i \in NodeIdx, NEW j \in NodeIdx, nodes'[i] # None,
                        nodes'[j] # None, nodes'[i].owner = nodes'[j].owner
                 PROVE  i = j
      BY DEF NodesUnique
    <3>1. CASE i = n
      BY <2>1, <2>2, <2>3, <3>1
    <3>2. CASE j = n
      BY <2>1, <2>2, <2>3, <3>2
    <3>3. CASE i # n /\ j # n
      BY <1>0, <2>2, <3>3 DEF NodesUnique
    <3> QED
      BY <3>1, <3>2, <3>3
  <2>5. \A t, u \in SubIdx : old.subs[t] # None /\ old.subs[t] = old.subs[u] => t = u
    BY <1>0, <1>2, <1>6, <1>7 DEF SubsUnique
  <2>6. \A t \in SubIdx : t # s => rec.subs[t] # f
    BY <1>4, <1>11, <2>1, <2>5, InputsAssumption
  <2>7. SubsUnique'
    <3> SUFFICES ASSUME NEW i \in NodeIdx, NEW t \in SubIdx, NEW u \in SubIdx,
                        nodes'[i] # None, nodes'[i].subs[t] # None,
                        nodes'[i].subs[t] = nodes'[i].subs[u]
                 PROVE  t = u
      BY DEF SubsUnique
    <3>1. CASE i # n
      BY <1>0, <2>2, <3>1 DEF SubsUnique
    <3>2. CASE i = n
      BY <2>1, <2>2, <2>5, <2>6, <3>2
    <3> QED
      BY <3>1, <3>2
  <2>8. CASE rerouted
    <3>1. job' = [node |-> n, at |-> 0] /\ exact' = exact /\ wild' = wild
      BY <1>1, <1>11, <2>8
    <3>2. Routes' = Routes
      BY <3>1 DEF Routes, ExactUsed, WildUsed
    <3>3. job' # None
      BY <1>2, <3>1, SizesAssumption, InputsAssumption DEF Job, SubIdx
    <3>4. Routed'
      <4> SUFFICES ASSUME NEW i \in NodeIdx, NEW t \in SubIdx,
                          nodes'[i] # None, nodes'[i].subs[t] # None
                   PROVE  \/ RouteOf(nodes'[i], t) \in Routes'
                          \/ job' # None /\ job'.node = i /\ job'.at <= t
        BY DEF Routed, RouteOf
      <4>1. CASE i = n
        BY <3>1, <3>3, <4>1, IndexSets
      <4>2. CASE i # n
        BY <1>0, <1>1, <2>2, <3>2, <4>2 DEF Routed
      <4> QED
        BY <4>1, <4>2
    <3> QED
      BY <2>4, <2>7, <3>4
  <2>9. CASE ~rerouted
    <3>1. RouteUpsert(o, hop, f) /\ job' = job
      BY <1>1, <1>11, <2>9
    <3>2. Pending(n, s, o, f)
      BY <1>3, <1>4, <1>6, <1>9, <1>11, <2>9 DEF Pending
    <3>3. /\ [owner |-> o, hop |-> hop, filter |-> f] \in Routes'
          /\ \A r \in Routes : r.owner # o \/ r.filter # f => r \in Routes'
      BY <1>0, <1>2, <1>4, <1>5, <1>11, <3>1, <3>2, UpsertExact
    <3>4. Routed'
      <4> SUFFICES ASSUME NEW i \in NodeIdx, NEW t \in SubIdx,
                          nodes'[i] # None, nodes'[i].subs[t] # None
                   PROVE  RouteOf(nodes'[i], t) \in Routes'
        BY DEF Routed, RouteOf
      <4>1. CASE i # n
        <5>1. RouteOf(nodes[i], t) \in Routes /\ nodes'[i] = nodes[i]
          BY <1>0, <1>1, <2>2, <4>1 DEF Routed
        <5>2. RouteOf(nodes[i], t).owner # o
          BY <2>2, <2>3, <4>1 DEF RouteOf
        <5> QED
          BY <3>3, <5>1, <5>2
      <4>2. CASE i = n /\ t # s
        <5>1. RouteOf(nodes[n], t) \in Routes
          BY <1>0, <1>1, <1>2, <1>6, <1>9, <2>1, <2>2, <2>9, <4>2 DEF Routed
        <5>2. RouteOf(nodes'[n], t) = RouteOf(nodes[n], t)
          BY <1>3, <1>6, <1>9, <2>1, <2>2, <2>9, <4>2 DEF RouteOf
        <5>3. RouteOf(nodes'[n], t).filter # f
          BY <2>2, <2>6, <4>2 DEF RouteOf
        <5> QED
          BY <3>3, <4>2, <5>1, <5>2, <5>3
      <4>3. CASE i = n /\ t = s
        BY <2>1, <2>2, <3>3, <4>3 DEF RouteOf
      <4> QED
        BY <4>1, <4>2, <4>3
    <3> QED
      BY <2>4, <2>7, <3>4
  <2> QED
    BY <2>8, <2>9
<1> QED
  BY <1>10, <1>11

(* A round of node_routes_refresh_locked routes the entry it is at. *)
LEMMA RefreshRouted ==
    ASSUME RInv, RefreshRoute
    PROVE  NodesUnique' /\ SubsUnique' /\ Routed'
<1> DEFINE n == job.node
           s == job.at
           o == nodes[n].owner
           h == nodes[n].hop
           f == nodes[n].subs[s]
<1>0. IInv /\ TypeOK /\ JobOK /\ NodesUnique /\ SubsUnique /\ Routed
  BY DEF RInv, IInv
<1>1. /\ job # None
      /\ f = None => UNCHANGED <<exact, wild>>
      /\ f # None => RouteUpsert(o, h, f)
      /\ job' = IF s + 1 = P2P_REMOTE_SUBS_PER_NODE THEN None
                ELSE [job EXCEPT !.at = @ + 1]
      /\ nodes' = nodes
  BY DEF RefreshRoute, RefreshNext
<1>2. job \in Job /\ n \in NodeIdx /\ s \in SubIdx
  BY <1>0, <1>1 DEF TypeOK, Job
<1>3. nodes[n] \in NodeRec /\ nodes[n] # None
  BY <1>0, <1>1, <1>2 DEF TypeOK, JobOK
<1>4. o \in Node /\ h \in Node /\ f \in Filter \cup {None}
  BY <1>2, <1>3 DEF NodeRec
<1>5. NodesUnique' /\ SubsUnique'
  BY <1>0, <1>1 DEF NodesUnique, SubsUnique
\* an entry that the loop has still to write is not the one of this round
<1>6. \A t \in SubIdx : s <= t /\ t # s => job' # None /\ job'.node = n /\ job'.at <= t
  <2> SUFFICES ASSUME NEW t \in SubIdx, s <= t, t # s
               PROVE  job' # None /\ job'.node = n /\ job'.at <= t
    OBVIOUS
  <2>1. s + 1 # P2P_REMOTE_SUBS_PER_NODE /\ s + 1 \in SubIdx /\ s + 1 <= t
    BY <1>2, SizesAssumption DEF SubIdx
  <2>2. job' = [job EXCEPT !.at = @ + 1]
    BY <1>1, <2>1
  <2>3. job' \in Job /\ job'.node = n /\ job'.at = s + 1
    BY <1>2, <2>1, <2>2 DEF Job
  <2> QED
    BY <2>1, <2>3, InputsAssumption
<1> HIDE DEF n, s, o, h, f
<1>7. /\ f # None => [owner |-> o, hop |-> h, filter |-> f] \in Routes'
      /\ \A r \in Routes : r.owner # o \/ r.filter # f => r \in Routes'
  <2>1. CASE f = None
    BY <1>1, <2>1 DEF Routes, ExactUsed, WildUsed
  <2>2. CASE f # None
    <3>1. Pending(n, s, o, f)
      BY DEF Pending, o, f
    <3> QED
      BY <1>0, <1>1, <1>2, <1>4, <2>2, <3>1, UpsertExact
  <2> QED
    BY <2>1, <2>2
<1>8. ASSUME NEW i \in NodeIdx, NEW t \in SubIdx, nodes[i] # None, nodes[i].subs[t] # None
      PROVE  \/ RouteOf(nodes[i], t) \in Routes'
             \/ job' # None /\ job'.node = i /\ job'.at <= t
  <2>1. CASE i = n /\ t = s
    <3>1. RouteOf(nodes[i], t) = [owner |-> o, hop |-> h, filter |-> f] /\ f # None
      BY <1>8, <2>1 DEF RouteOf, o, h, f
    <3> QED
      BY <1>7, <3>1
  <2>2. CASE ~(i = n /\ t = s) /\ RouteOf(nodes[i], t) \in Routes
    <3>1. RouteOf(nodes[i], t).owner = nodes[i].owner
          /\ RouteOf(nodes[i], t).filter = nodes[i].subs[t]
      BY DEF RouteOf
    <3>2. nodes[i].owner # o \/ nodes[i].subs[t] # f
      <4> SUFFICES ASSUME nodes[i].owner = o, nodes[i].subs[t] = f PROVE FALSE
        OBVIOUS
      <4>1. i = n
        BY <1>0, <1>2, <1>3, <1>8 DEF NodesUnique, o
      <4>2. nodes[n].subs[t] = nodes[n].subs[s]
        BY <4>1 DEF f
      <4> QED
        BY <1>0, <1>2, <1>8, <2>2, <4>1, <4>2 DEF SubsUnique
    <3> QED
      BY <1>7, <2>2, <3>1, <3>2
  <2>3. CASE ~(i = n /\ t = s) /\ RouteOf(nodes[i], t) \notin Routes
    <3>1. n = i /\ s <= t
      BY <1>0, <1>8, <2>3 DEF Routed, n, s
    <3> QED
      BY <1>6, <2>3, <3>1
  <2> QED
    BY <2>1, <2>2, <2>3
<1>9. Routed'
  BY <1>1, <1>8 DEF Routed, RouteOf
<1> QED
  BY <1>5, <1>9

(* p2p_router_remote_unsubscribe takes only the routes of the filter away. *)
LEMMA UnsubscribeRouted ==
    ASSUME RInv, NEW o \in Node, NEW f \in Filter, RemoteUnsubscribe(o, f)
    PROVE  NodesUnique' /\ SubsUnique' /\ Routed'
<1> DEFINE n == FindNode(o)
           left == [s \in SubIdx |-> IF nodes[n].subs[s] = f THEN None
                                     ELSE nodes[n].subs[s]]
           gone == {r \in Routes : r.owner = o /\ r.filter = f}
           rec == IF \A s \in SubIdx : left[s] = None THEN None
                  ELSE [nodes[n] EXCEPT !.subs = left]
           has == \E s \in SubIdx : nodes[n].subs[s] = f
<1>0. TypeOK /\ NodesUnique /\ SubsUnique /\ Routed
  BY DEF RInv, IInv
<1>1. /\ job = None
      /\ n # None
      /\ has => exact' = ExactRemove(gone) /\ wild' = WildRemove(gone)
      /\ ~has => exact' = exact /\ wild' = wild
      /\ nodes' = [nodes EXCEPT ![n] = rec]
      /\ job' = job
  BY DEF RemoteUnsubscribe
<1>2. n \in NodeIdx /\ nodes[n] # None /\ nodes[n].owner = o
  BY <1>1, FindNodeSpec
<1>3. nodes \in [NodeIdx -> NodeRec \cup {None}] /\ nodes[n] \in NodeRec
  BY <1>0, <1>2 DEF TypeOK
<1> HIDE DEF n
<1>4. left \in [SubIdx -> Filter \cup {None}]
  BY <1>3 DEF NodeRec
<1>5. rec # None => /\ rec \in NodeRec /\ rec.subs = left
                    /\ rec.owner = o /\ rec.hop = nodes[n].hop
  BY <1>2, <1>3, <1>4 DEF NodeRec
<1>6. /\ nodes'[n] = rec
      /\ \A i \in NodeIdx \ {n} : nodes'[i] = nodes[i]
  BY <1>1, <1>2, <1>3
<1>7. \A s \in SubIdx : left[s] # None => left[s] = nodes[n].subs[s] /\ left[s] # f
  OBVIOUS
<1>8. \A r \in Routes : r.owner # o \/ r.filter # f => r \in Routes'
  <2>1. CASE has
    BY <1>1, <2>1, RemoveExact
  <2>2. CASE ~has
    BY <1>1, <2>2 DEF Routes, ExactUsed, WildUsed
  <2> QED
    BY <2>1, <2>2
<1> HIDE DEF rec, left, has, gone
<1>9. \A i \in NodeIdx : nodes'[i] # None =>
         /\ nodes[i] # None
         /\ nodes'[i].owner = nodes[i].owner /\ nodes'[i].hop = nodes[i].hop
         /\ \A s \in SubIdx : nodes'[i].subs[s] # None =>
              /\ nodes'[i].subs[s] = nodes[i].subs[s]
              /\ nodes[i].owner # o \/ nodes[i].subs[s] # f
  <2> SUFFICES ASSUME NEW i \in NodeIdx, nodes'[i] # None
               PROVE  /\ nodes[i] # None
                      /\ nodes'[i].owner = nodes[i].owner /\ nodes'[i].hop = nodes[i].hop
                      /\ \A s \in SubIdx : nodes'[i].subs[s] # None =>
                           /\ nodes'[i].subs[s] = nodes[i].subs[s]
                           /\ nodes[i].owner # o \/ nodes[i].subs[s] # f
    OBVIOUS
  <2>1. CASE i = n
    BY <1>2, <1>5, <1>6, <1>7, <2>1
  <2>2. CASE i # n
    <3>1. nodes'[i] = nodes[i]
      BY <1>6, <2>2
    <3>2. nodes[i].owner # o
      BY <1>0, <1>2, <2>2, <3>1 DEF NodesUnique
    <3> QED
      BY <3>1, <3>2
  <2> QED
    BY <2>1, <2>2
<1>10. NodesUnique'
  BY <1>0, <1>9 DEF NodesUnique
<1>11. SubsUnique'
  <2> SUFFICES ASSUME NEW i \in NodeIdx, NEW t \in SubIdx, NEW u \in SubIdx,
                      nodes'[i] # None, nodes'[i].subs[t] # None,
                      nodes'[i].subs[t] = nodes'[i].subs[u]
               PROVE  t = u
    BY DEF SubsUnique
  <2>1. nodes[i] # None /\ nodes[i].subs[t] # None /\ nodes[i].subs[t] = nodes[i].subs[u]
    BY <1>9
  <2> QED
    BY <1>0, <2>1 DEF SubsUnique
<1>12. Routed'
  <2> SUFFICES ASSUME NEW i \in NodeIdx, NEW t \in SubIdx,
                      nodes'[i] # None, nodes'[i].subs[t] # None
               PROVE  RouteOf(nodes'[i], t) \in Routes'
    BY DEF Routed, RouteOf
  <2>1. /\ nodes[i] # None /\ nodes[i].subs[t] # None
        /\ RouteOf(nodes'[i], t) = RouteOf(nodes[i], t)
        /\ nodes[i].owner # o \/ nodes[i].subs[t] # f
    BY <1>9 DEF RouteOf
  <2>2. RouteOf(nodes[i], t) \in Routes
    BY <1>0, <1>1, <2>1 DEF Routed
  <2>3. RouteOf(nodes[i], t).owner # o \/ RouteOf(nodes[i], t).filter # f
    BY <2>1 DEF RouteOf
  <2> QED
    BY <1>8, <2>1, <2>2, <2>3
<1> QED
  BY <1>10, <1>11, <1>12

(* p2p_router_remove_node takes only the routes of the nodes it clears. *)
LEMMA RemoveNodeRouted ==
    ASSUME RInv, NEW x \in Node, RemoveNode(x)
    PROVE  NodesUnique' /\ SubsUnique' /\ Routed'
<1> DEFINE gone == {r \in Routes : Uses(r, x)}
<1>0. TypeOK /\ NodesUnique /\ SubsUnique /\ Routed
  BY DEF RInv, IInv
<1>1. /\ job = None
      /\ nodes' = [i \in NodeIdx |-> IF nodes[i] # None /\ Uses(nodes[i], x)
                                     THEN None ELSE nodes[i]]
      /\ exact' = ExactRemove(gone)
      /\ wild' = WildRemove(gone)
  BY DEF RemoveNode
<1>2. Routes \ gone \subseteq Routes'
  BY <1>1, RemoveExact
<1>3. \A i \in NodeIdx : nodes'[i] # None => nodes'[i] = nodes[i] /\ ~Uses(nodes[i], x)
  BY <1>1
<1>4. NodesUnique'
  BY <1>0, <1>3 DEF NodesUnique
<1>5. SubsUnique'
  BY <1>0, <1>3 DEF SubsUnique
<1>6. Routed'
  <2> SUFFICES ASSUME NEW i \in NodeIdx, NEW t \in SubIdx,
                      nodes'[i] # None, nodes'[i].subs[t] # None
               PROVE  RouteOf(nodes'[i], t) \in Routes'
    BY DEF Routed, RouteOf
  <2>1. nodes'[i] = nodes[i] /\ ~Uses(nodes[i], x)
    BY <1>3
  <2>2. RouteOf(nodes[i], t) \in Routes
    BY <1>0, <1>1, <2>1 DEF Routed
  <2>3. RouteOf(nodes[i], t) \notin gone
    BY <2>1 DEF Uses, RouteOf
  <2> QED
    BY <1>2, <2>1, <2>2, <2>3
<1> QED
  BY <1>4, <1>5, <1>6

(* A route has the hop of the node it belongs to. *)
LEMMA RouteHop ==
    ASSUME RInv, job = None, NEW r \in Routes
    PROVE  \E i \in NodeIdx : Subscribed(i, r.filter) /\ nodes[i].hop = r.hop
<1>0. TypeOK /\ NoOrphanRoutes /\ OneRoute /\ Routed
  BY DEF RInv, IInv
<1>1. PICK i \in NodeIdx, s \in SubIdx : /\ nodes[i] # None /\ nodes[i].owner = r.owner
                                         /\ nodes[i].subs[s] = r.filter
  BY <1>0 DEF NoOrphanRoutes, Subscribed
<1> DEFINE q == RouteOf(nodes[i], s)
<1>2. q \in Routes /\ q.owner = r.owner /\ q.filter = r.filter /\ q.hop = nodes[i].hop
  <2>1. r.filter # None
    BY <1>0, RouteFields
  <2>2. q \in Routes
    BY <1>0, <1>1, <2>1 DEF Routed
  <2> QED
    BY <1>1, <2>2 DEF RouteOf
<1> HIDE DEF q
<1>3. /\ \A k \in ExactUsed : exact[k].filter \in Topic
      /\ \A k \in WildUsed : wild[k].filter \in Wild
  BY <1>0 DEF TypeOK, ExactUsed, WildUsed, Route
<1>4. CASE \E k \in ExactUsed : r = exact[k]
  <2>1. PICK k \in ExactUsed : r = exact[k]
    BY <1>4
  <2>2. PICK j \in ExactUsed : q = exact[j]
    BY <1>2, <1>3, <2>1, InputsAssumption DEF Routes
  <2>3. j = k
    BY <1>0, <1>2, <2>1, <2>2 DEF OneRoute
  <2> QED
    BY <1>1, <1>2, <2>1, <2>2, <2>3 DEF Subscribed
<1>5. CASE \E k \in WildUsed : r = wild[k]
  <2>1. PICK k \in WildUsed : r = wild[k]
    BY <1>5
  <2>2. PICK j \in WildUsed : q = wild[j]
    BY <1>2, <1>3, <2>1, InputsAssumption DEF Routes
  <2>3. j = k
    BY <1>0, <1>2, <2>1, <2>2 DEF OneRoute
  <2> QED
    BY <1>1, <1>2, <2>1, <2>2, <2>3 DEF Subscribed
<1> QED
  BY <1>4, <1>5 DEF Routes

(* p2p_router_find_next_hops finds the routes whose filters cover the      *)
(* topic: the probe stops after all that have it, and the list is read to  *)
(* its end.                                                                *)
LEMMA HopsFound ==
    ASSUME IInv, NEW t \in Topic
    PROVE  ExactHops(t) \cup WildHops(t) = {r.hop : r \in {q \in Routes : Covers(q.filter, t)}}
<1>0. TypeOK /\ LookupComplete
  BY DEF IInv
<1>1. /\ \A k \in ExactUsed : exact[k].filter \in Topic
      /\ \A k \in WildUsed : wild[k].filter \in Wild
  BY <1>0 DEF TypeOK, ExactUsed, WildUsed, Route
<1>2. \A f \in Topic : Covers(f, t) <=> f = t
  BY InputsAssumption DEF Covers
<1>3. \A f \in Wild : Covers(f, t) <=> <<f, t>> \in Match
  BY InputsAssumption DEF Covers
<1>4. ExactHops(t) = {exact[k].hop : k \in {j \in ExactUsed : exact[j].filter = t}}
  <2>1. ASSUME NEW s \in Reached(t), exact[Probe(t, s)] \notin {None, Deleted}
        PROVE  Probe(t, s) \in ExactUsed
    BY <2>1, ProbeType DEF ExactUsed, Reached
  <2>2. ASSUME NEW k \in ExactUsed, exact[k].filter = t
        PROVE  \E s \in Reached(t) : Probe(t, s) = k /\ exact[Probe(t, s)] \notin {None, Deleted}
    BY <1>0, <2>2 DEF LookupComplete, ExactUsed
  <2> QED
    BY <2>1, <2>2 DEF ExactHops
<1>5. WildHops(t) = {wild[k].hop : k \in {j \in WildUsed : <<wild[j].filter, t>> \in Match}}
  BY DEF WildHops, WildUsed
<1>6. ASSUME NEW h, h \in ExactHops(t) \cup WildHops(t)
      PROVE  \E q \in Routes : Covers(q.filter, t) /\ q.hop = h
  <2>1. CASE h \in ExactHops(t)
    BY <1>1, <1>2, <1>4, <2>1 DEF Routes
  <2>2. CASE h \in WildHops(t)
    BY <1>1, <1>3, <1>5, <2>2 DEF Routes
  <2> QED
    BY <1>6, <2>1, <2>2
<1>7. ASSUME NEW q \in Routes, Covers(q.filter, t)
      PROVE  q.hop \in ExactHops(t) \cup WildHops(t)
  <2>1. CASE \E k \in ExactUsed : q = exact[k]
    BY <1>1, <1>2, <1>4, <1>7, <2>1
  <2>2. CASE \E k \in WildUsed : q = wild[k]
    BY <1>1, <1>3, <1>5, <1>7, <2>2
  <2> QED
    BY <2>1, <2>2 DEF Routes
<1> QED
  BY <1>6, <1>7

(* Between two operations the hops that p2p_router_find_next_hops collects *)
(* are those of the nodes with a covering subscription.                    *)
LEMMA HopsExact ==
    ASSUME RInv PROVE NextHopsExact
<1> SUFFICES ASSUME job = None, NEW t \in Topic, NEW x
             PROVE  ExactHops(t) \cup WildHops(t) =
                       {nodes[i].hop : i \in {j \in NodeIdx :
                                                \E f \in Filter : /\ Covers(f, t)
                                                                  /\ Subscribed(j, f)}}
  BY DEF NextHopsExact, FindNextHops
<1>0. IInv /\ TypeOK /\ Routed
  BY DEF RInv, IInv
<1>1. ASSUME NEW q \in Routes, Covers(q.filter, t)
      PROVE  \E i \in NodeIdx : /\ \E f \in Filter : Covers(f, t) /\ Subscribed(i, f)
                                /\ q.hop = nodes[i].hop
  BY <1>0, <1>1, RouteHop, RouteFields
<1>2. ASSUME NEW i \in NodeIdx, NEW f \in Filter, Covers(f, t), Subscribed(i, f)
      PROVE  \E q \in Routes : Covers(q.filter, t) /\ q.hop = nodes[i].hop
  <2>1. PICK s \in SubIdx : nodes[i] # None /\ nodes[i].subs[s] = f
    BY <1>2 DEF Subscribed
  <2>2. RouteOf(nodes[i], s) \in Routes
    BY <1>0, <2>1, InputsAssumption DEF Routed
  <2> QED
    BY <1>2, <2>1, <2>2 DEF RouteOf
<1>3. ExactHops(t) \cup WildHops(t) = {r.hop : r \in {q \in Routes : Covers(q.filter, t)}}
  BY <1>0, HopsFound
<1> QED
  BY <1>1, <1>2, <1>3

(* Every step but a refused rerouting keeps the routes exact. *)
LEMMA RoutedStep ==
    ASSUME RInv, [Next]_vars, [~RerouteRefused]_vars PROVE RInv'
<1>0. IInv
  BY DEF RInv
<1>1. ASSUME NEW o \in Node, NEW f \in Filter, NEW h \in Node,
             RemoteSubscribe(o, f, h), ~RerouteRefused
      PROVE  RInv'
  BY <1>0, <1>1, SubscribeStep, SubscribeRouted DEF RInv
<1>2. ASSUME NEW o \in Node, NEW f \in Filter, RemoteUnsubscribe(o, f)
      PROVE  RInv'
  BY <1>0, <1>2, UnsubscribeStep, UnsubscribeRouted DEF RInv
<1>3. ASSUME NEW x \in Node, RemoveNode(x) PROVE RInv'
  BY <1>0, <1>3, RemoveNodeStep, RemoveNodeRouted DEF RInv
<1>4. CASE RefreshRoute
  BY <1>0, <1>4, RefreshStep, RefreshRouted DEF RInv
<1>5. CASE UNCHANGED vars
  <2>1. NodesUnique' /\ SubsUnique' /\ Routed'
    BY <1>5 DEF RInv, vars, NodesUnique, SubsUnique, Routed, RouteOf, Routes,
                ExactUsed, WildUsed
  <2> QED
    BY <1>0, <1>5, <2>1, StutterStep DEF RInv
<1> QED
  BY <1>1, <1>2, <1>3, <1>4, <1>5 DEF Next

(* p2p_router_init leaves no node. *)
LEMMA RoutedInit == Init => RInv
<1> SUFFICES ASSUME Init PROVE RInv
  OBVIOUS
<1>1. \A i \in NodeIdx : nodes[i] = None
  BY DEF Init
<1> QED
  BY <1>1, InitInv DEF RInv, NodesUnique, SubsUnique, Routed

(* p2p_router.c forwards a publish to the next hops of exactly the nodes   *)
(* with a covering subscription, for every size of the tables, every hash  *)
(* function and every history of subscribes, unsubscribes and lost peers   *)
(* in which no SUB that makes its owner a direct peer is refused for want  *)
(* of a subscription entry.                                                *)
THEOREM NextHops == Spec /\ [][~RerouteRefused]_vars => []NextHopsExact
<1>1. RInv /\ [Next]_vars /\ [~RerouteRefused]_vars => RInv'
  BY RoutedStep
<1>2. RInv => NextHopsExact
  BY HopsExact
<1> QED
  BY <1>1, <1>2, RoutedInit, PTL DEF Spec

(* An entry for every filter: no subscription is refused. *)
FiltersFit == IsFiniteSet(Filter) /\ Cardinality(Filter) <= P2P_REMOTE_SUBS_PER_NODE

(* A node whose entries have different filters has one for each filter,    *)
(* or room for it.                                                         *)
LEMMA FitSlot ==
    ASSUME FiltersFit, NEW subs \in [SubIdx -> Filter \cup {None}], NEW f \in Filter,
           \A s, t \in SubIdx : subs[s] # None /\ subs[s] = subs[t] => s = t
    PROVE  SubSlot(subs, f) # None
<1> SUFFICES ASSUME SubSlot(subs, f) = None PROVE FALSE
  OBVIOUS
<1> DEFINE H == {s \in SubIdx : subs[s] = f}
           U == {s \in SubIdx : subs[s] = None}
<1>1. H \subseteq Nat /\ U \subseteq Nat
  BY IndexSets
<1>2. H # {} => First(H) \in H
  BY <1>1, FirstFound
<1>3. U # {} => First(U) \in U
  BY <1>1, FirstFound
<1>4. SubSlot(subs, f) = IF First(H) # None THEN First(H) ELSE First(U)
  BY DEF SubSlot
<1>5. H = {} /\ U = {}
  BY <1>1, <1>2, <1>3, <1>4, IndexSets
<1>6. subs \in [SubIdx -> Filter \ {f}]
  BY <1>5
<1>7. IsFiniteSet(Filter \ {f}) /\ Cardinality(Filter \ {f}) = Cardinality(Filter) - 1
  BY FS_RemoveElement DEF FiltersFit
<1>8. IsFiniteSet(SubIdx) /\ Cardinality(SubIdx) = P2P_REMOTE_SUBS_PER_NODE
  BY IndexCards
<1>9. Cardinality(Filter) \in Nat
  BY FS_CardinalityType DEF FiltersFit
<1>10. Cardinality(Filter \ {f}) < Cardinality(SubIdx)
  BY <1>7, <1>8, <1>9, SizesAssumption DEF FiltersFit
<1>11. \E s, t \in SubIdx : s # t /\ subs[s] = subs[t]
  BY <1>6, <1>7, <1>8, <1>10, FS_PigeonHole
<1> QED
  BY <1>5, <1>11

(* A subscription table with an entry for every filter leaves no exception:*)
(* a publish goes to exactly the right next hops.                          *)
THEOREM NextHopsFit ==
    ASSUME FiltersFit PROVE Spec => []NextHopsExact
<1>1. RInv /\ [Next]_vars => RInv'
  <2> SUFFICES ASSUME RInv, [Next]_vars PROVE RInv'
    OBVIOUS
  <2>1. ~RerouteRefused
    <3> SUFFICES ASSUME NEW o \in Node, NEW f \in Filter, FindNode(o) # None,
                        SubSlot(nodes[FindNode(o)].subs, f) = None
                 PROVE  FALSE
      BY DEF RerouteRefused
    <3> DEFINE n == FindNode(o)
    <3>1. n \in NodeIdx /\ nodes[n] # None
      BY FindNodeSpec
    <3> HIDE DEF n
    <3>2. nodes[n] \in NodeRec
      BY <3>1 DEF RInv, IInv, TypeOK
    <3>3. nodes[n].subs \in [SubIdx -> Filter \cup {None}]
      BY <3>2 DEF NodeRec
    <3>4. \A s, t \in SubIdx :
            nodes[n].subs[s] # None /\ nodes[n].subs[s] = nodes[n].subs[t] => s = t
      BY <3>1 DEF RInv, SubsUnique
    <3> QED
      BY <3>3, <3>4, FitSlot DEF n
  <2> QED
    BY <2>1, RoutedStep
<1>2. RInv => NextHopsExact
  BY HopsExact
<1> QED
  BY <1>1, <1>2, RoutedInit, PTL DEF Spec
=============================================================================
