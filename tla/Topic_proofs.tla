----------------------------- MODULE Topic_proofs -----------------------------
(***************************************************************************)
(* The topic table and the matching of topics against filters.             *)
(*                                                                         *)
(* The lists of the table hold exactly the entries in use, for every size  *)
(* of the table, every hash function and all filters.  That a list ends,   *)
(* and what is on it, says nothing of the order of its entries, which is   *)
(* what insertion and removal preserve.  The inductive invariant gives the *)
(* order: the list is a path through its entries, each of them once.       *)
(*                                                                         *)
(* The matching functions compare characters, MQTT compares levels.  The   *)
(* inductive invariant says in which levels the pointers are, that the     *)
(* levels before them agree, and how much of the two levels has been read. *)
(***************************************************************************)
EXTENDS TopicTable, TopicMatch, TableScan_proofs, SequenceTheorems, FiniteSetTheorems, TLAPS

Link == SubIdx \cup {None}

(* p is the list, m entries in order, that starts at head and holds the    *)
(* entries of S.                                                           *)
IsPath(head, next, S, m, p) ==
    /\ m \in Nat
    /\ p \in [0 .. m - 1 -> S]
    /\ \A e \in S : \E j \in 0 .. m - 1 : p[j] = e
    /\ \A j, k \in 0 .. m - 1 : p[j] = p[k] => j = k
    /\ head = IF m = 0 THEN None ELSE p[0]
    /\ \A j \in 0 .. m - 1 : next[p[j]] = IF j = m - 1 THEN None ELSE p[j + 1]

Listed(head, next, S) == \E m, p : IsPath(head, next, S, m, p)

(* The entries in use of a chain, and those of the wildcard list. *)
InChain(sb) ==
    [b \in SubIdx |-> {i \in SubIdx : /\ sb[i] # None /\ sb[i].filter \in Topic
                                      /\ Bucket[sb[i].filter] = b}]
InWild(sb) == {i \in SubIdx : sb[i] # None /\ sb[i].filter \in Wild}

----------------------------------------------------------------------------
(* Following the links from a head computes something: the walk of the     *)
(* list loops exists and takes one link in each step.                      *)
LEMMA WalkIs ==
    ASSUME NEW head \in Link, NEW next \in [SubIdx -> Link]
    PROVE  /\ Walk(head, next) \in [0 .. TOPIC_MAX_SUBS -> Link]
           /\ Walk(head, next)[0] = head
           /\ \A n \in 1 .. TOPIC_MAX_SUBS :
                Walk(head, next)[n] = IF Walk(head, next)[n - 1] = None THEN None
                                      ELSE next[Walk(head, next)[n - 1]]
<1> DEFINE N == TOPIC_MAX_SUBS
           Step(x) == IF x = None THEN None ELSE next[x]
           Good(g, k) == /\ g \in [0 .. k -> Link] /\ g[0] = head
                         /\ \A n \in 1 .. k : g[n] = Step(g[n - 1])
           K == {k \in Nat : \E g : Good(g, k)}
<1>n. N \in Nat \ {0}
  BY TableAssumption
<1> HIDE DEF N
<1>s. \A x \in Link : Step(x) \in Link
  BY TableAssumption DEF Link
<1> HIDE DEF Step
<1>1. 0 \in K
  <2> DEFINE g == [n \in 0 .. 0 |-> head]
  <2>1. Good(g, 0)
    OBVIOUS
  <2> QED
    BY <2>1
<1>2. \A k \in Nat : k \in K => k + 1 \in K
  <2> SUFFICES ASSUME NEW k \in Nat, NEW g, Good(g, k)
               PROVE  \E h : Good(h, k + 1)
    OBVIOUS
  <2> DEFINE h == [n \in 0 .. k + 1 |-> IF n <= k THEN g[n] ELSE Step(g[k])]
  <2>1. h \in [0 .. k + 1 -> Link] /\ h[0] = head
    BY <1>s
  <2>2. \A n \in 1 .. k + 1 : h[n] = Step(h[n - 1])
    <3> TAKE n \in 1 .. k + 1
    <3>1. CASE n <= k
      BY <3>1
    <3>2. CASE n = k + 1
      BY <3>2
    <3> QED
      BY <3>1, <3>2
  <2> QED
    BY <2>1, <2>2
<1>3. N \in K
  <2> HIDE DEF K
  <2>1. Nat \subseteq K
    BY <1>1, <1>2, SetInduction
  <2> QED
    BY <2>1, <1>n
<1>4. PICK g : Good(g, N)
  BY <1>3
<1> DEFINE Rec(f) == f = [n \in 0 .. N |-> IF n = 0 THEN head
                                           ELSE IF f[n - 1] = None THEN None
                                                ELSE next[f[n - 1]]]
<1>5. Rec(g)
  BY <1>4, <1>n DEF Step
<1>6. Walk(head, next) = CHOOSE f : Rec(f)
  BY DEF Walk, N
<1>7. Rec(Walk(head, next))
  <2> HIDE DEF Rec
  <2> QED
    BY <1>5, <1>6
<1> DEFINE w == Walk(head, next)
<1>8. w = [n \in 0 .. N |-> IF n = 0 THEN head
                           ELSE IF w[n - 1] = None THEN None ELSE next[w[n - 1]]]
  BY <1>7
<1> HIDE DEF w
<1>9. /\ w[0] = head
      /\ \A n \in 1 .. N : w[n] = IF w[n - 1] = None THEN None ELSE next[w[n - 1]]
      /\ DOMAIN w = 0 .. N
  BY <1>8, <1>n
<1> DEFINE T == {n \in Nat : n <= N => w[n] \in Link}
<1>10. 0 \in T
  BY <1>9
<1>11. \A n \in Nat : n \in T => n + 1 \in T
  <2> SUFFICES ASSUME NEW n \in Nat, n \in T, n + 1 <= N PROVE w[n + 1] \in Link
    OBVIOUS
  <2>1. w[n] \in Link
    BY <1>n
  <2>2. n + 1 \in 1 .. N /\ (n + 1) - 1 = n
    BY <1>n
  <2>3. w[n + 1] = IF w[n] = None THEN None ELSE next[w[n]]
    BY <1>9, <2>2
  <2> QED
    BY <2>1, <2>3 DEF Link
<1>12. Nat \subseteq T
  <2> HIDE DEF T
  <2> QED
    BY <1>10, <1>11, SetInduction
<1>13. \A n \in 0 .. N : w[n] \in Link
  BY <1>12, <1>n
<1>14. w \in [0 .. N -> Link]
  BY <1>8, <1>9, <1>13
<1> QED
  BY <1>9, <1>14 DEF w, N

(* A path is no longer than the table. *)
LEMMA PathLength ==
    ASSUME NEW head, NEW next, NEW S \in SUBSET SubIdx, NEW m, NEW p,
           IsPath(head, next, S, m, p)
    PROVE  m \in 0 .. TOPIC_MAX_SUBS
<1>1. m \in Nat /\ TOPIC_MAX_SUBS \in Nat \ {0}
  BY TableAssumption DEF IsPath
<1>2. p \in Injection(0 .. m - 1, SubIdx)
  BY DEF IsPath, Injection, IsInjective
<1>3. IsFiniteSet(SubIdx) /\ Cardinality(SubIdx) = TOPIC_MAX_SUBS
  BY <1>1, FS_Interval DEF SubIdx
<1>4. Cardinality(0 .. m - 1) = m
  BY <1>1, FS_Interval
<1>5. Cardinality(0 .. m - 1) <= Cardinality(SubIdx)
  BY <1>2, <1>3, FS_Injection
<1> QED
  BY <1>1, <1>3, <1>4, <1>5

(* The walk along a path ends, and meets the entries of the path. *)
LEMMA PathWalk ==
    ASSUME NEW head \in Link, NEW next \in [SubIdx -> Link], NEW S \in SUBSET SubIdx,
           Listed(head, next, S)
    PROVE  /\ Walk(head, next)[TOPIC_MAX_SUBS] = None
           /\ OnList(head, next) = S
<1> DEFINE w == Walk(head, next)
           N == TOPIC_MAX_SUBS
<1>1. PICK m, p : IsPath(head, next, S, m, p)
  BY DEF Listed
<1>2. N \in Nat \ {0} /\ m \in 0 .. N /\ SubIdx = 0 .. N - 1 /\ None \notin SubIdx
  BY <1>1, PathLength, TableAssumption DEF SubIdx
<1>3. /\ w[0] = head
      /\ \A n \in 1 .. N : w[n] = IF w[n - 1] = None THEN None ELSE next[w[n - 1]]
  BY WalkIs
<1>o. OnList(head, next) = {w[n] : n \in SubIdx} \ {None}
  BY DEF OnList
<1> HIDE DEF w, N
<1>p. /\ \A j \in 0 .. m - 1 : p[j] \in S /\ p[j] # None
      /\ head = IF m = 0 THEN None ELSE p[0]
      /\ \A j \in 0 .. m - 1 : next[p[j]] = IF j = m - 1 THEN None ELSE p[j + 1]
      /\ \A e \in S : \E j \in 0 .. m - 1 : p[j] = e
  BY <1>1, <1>2 DEF IsPath
<1> DEFINE T == {n \in Nat : n <= N => w[n] = IF n < m THEN p[n] ELSE None}
<1>4. 0 \in T
  BY <1>2, <1>3, <1>p
<1>5. \A n \in Nat : n \in T => n + 1 \in T
  <2> SUFFICES ASSUME NEW n \in Nat, n \in T, n + 1 <= N
               PROVE  w[n + 1] = IF n + 1 < m THEN p[n + 1] ELSE None
    OBVIOUS
  <2>1. w[n] = IF n < m THEN p[n] ELSE None
    BY <1>2
  <2>2. n + 1 \in 1 .. N /\ (n + 1) - 1 = n
    BY <1>2
  <2>3. w[n + 1] = IF w[n] = None THEN None ELSE next[w[n]]
    BY <1>3, <2>2
  <2>4. CASE n < m
    <3>1. n \in 0 .. m - 1
      BY <2>4, <1>2
    <3>2. w[n + 1] = next[p[n]]
      BY <2>1, <2>3, <2>4, <1>p, <3>1
    <3> QED
      BY <3>1, <3>2, <1>p, <1>2
  <2>5. CASE ~(n < m)
    BY <2>1, <2>3, <2>5, <1>2
  <2> QED
    BY <2>4, <2>5
<1>6. Nat \subseteq T
  <2> HIDE DEF T
  <2> QED
    BY <1>4, <1>5, SetInduction
<1>7. \A n \in 0 .. N : w[n] = IF n < m THEN p[n] ELSE None
  BY <1>6, <1>2
<1>8. w[N] = None
  BY <1>7, <1>2
<1>9. \A e \in S : e # None /\ \E n \in SubIdx : w[n] = e
  <2> TAKE e \in S
  <2>1. PICK j \in 0 .. m - 1 : p[j] = e
    BY <1>p
  <2>2. j \in SubIdx /\ j \in 0 .. N /\ j < m
    BY <1>2
  <2> QED
    BY <2>1, <2>2, <1>7, <1>p
<1>10. \A n \in SubIdx : w[n] # None => w[n] \in S
  <2> TAKE n \in SubIdx
  <2>1. n \in 0 .. N /\ (n < m => n \in 0 .. m - 1)
    BY <1>2
  <2> QED
    BY <2>1, <1>7, <1>p
<1>11. {w[n] : n \in SubIdx} \ {None} = S
  BY <1>9, <1>10, Zenon
<1> QED
  BY <1>8, <1>11, <1>o DEF w, N

(* Links that are not of the list do not matter to it. *)
LEMMA PathFrame ==
    ASSUME NEW head, NEW next, NEW next2, NEW S, Listed(head, next, S),
           \A j \in S : next2[j] = next[j]
    PROVE  Listed(head, next2, S)
<1>1. PICK m, p : IsPath(head, next, S, m, p)
  BY DEF Listed
<1>2. IsPath(head, next2, S, m, p)
  BY <1>1 DEF IsPath
<1> QED
  BY <1>2 DEF Listed

(* exact_list_insert_locked and wildcard_list_insert_locked put an entry   *)
(* that is on no list in front.                                            *)
LEMMA PathInsert ==
    ASSUME NEW head \in Link, NEW next \in [SubIdx -> Link], NEW S \in SUBSET SubIdx,
           Listed(head, next, S), NEW i \in SubIdx \ S
    PROVE  Listed(i, [next EXCEPT ![i] = head], S \cup {i})
<1>1. PICK m, p : IsPath(head, next, S, m, p)
  BY DEF Listed
<1> DEFINE q == [j \in 0 .. m |-> IF j = 0 THEN i ELSE p[j - 1]]
           next2 == [next EXCEPT ![i] = head]
<1>2. /\ m \in Nat
      /\ \A j \in 0 .. m - 1 : p[j] \in S
      /\ \A e \in S : \E j \in 0 .. m - 1 : p[j] = e
      /\ \A j, k \in 0 .. m - 1 : p[j] = p[k] => j = k
      /\ head = IF m = 0 THEN None ELSE p[0]
      /\ \A j \in 0 .. m - 1 : next[p[j]] = IF j = m - 1 THEN None ELSE p[j + 1]
  BY <1>1 DEF IsPath
<1>3. m + 1 \in Nat /\ (m + 1) - 1 = m
  BY <1>2
<1>q. /\ q[0] = i
      /\ \A j \in 0 .. m : j # 0 => j - 1 \in 0 .. m - 1 /\ q[j] = p[j - 1]
      /\ \A j \in 0 .. m - 1 : j + 1 \in 0 .. m /\ q[j + 1] = p[j]
      /\ \A j \in 0 .. m : j = 0 \/ q[j] \in S
  BY <1>2
<1>t. q \in [0 .. m -> S \cup {i}]
  BY <1>2
<1>n. next2[i] = head /\ \A e \in S : next2[e] = next[e]
  OBVIOUS
<1> HIDE DEF q, next2
<1>4. \A e \in S \cup {i} : \E j \in 0 .. m : q[j] = e
  <2> TAKE e \in S \cup {i}
  <2>1. CASE e = i
    BY <2>1, <1>q, <1>2
  <2>2. CASE e \in S
    <3>1. PICK j \in 0 .. m - 1 : p[j] = e
      BY <1>2, <2>2
    <3> QED
      BY <3>1, <1>q
  <2> QED
    BY <2>1, <2>2
<1>5. \A j, k \in 0 .. m : q[j] = q[k] => j = k
  <2> SUFFICES ASSUME NEW j \in 0 .. m, NEW k \in 0 .. m, q[j] = q[k] PROVE j = k
    OBVIOUS
  <2>1. CASE j = 0 \/ k = 0
    BY <2>1, <1>q
  <2>2. CASE j # 0 /\ k # 0
    <3>1. p[j - 1] = p[k - 1] /\ j - 1 \in 0 .. m - 1 /\ k - 1 \in 0 .. m - 1
      BY <2>2, <1>q
    <3>2. j - 1 = k - 1
      BY <3>1, <1>2
    <3> QED
      BY <3>2, <1>2
  <2> QED
    BY <2>1, <2>2
<1>6. \A j \in 0 .. m : next2[q[j]] = IF j = m THEN None ELSE q[j + 1]
  <2> TAKE j \in 0 .. m
  <2>1. CASE j = 0
    <3>1. next2[q[j]] = head
      BY <2>1, <1>q, <1>n
    <3>2. CASE m = 0
      BY <3>1, <3>2, <2>1, <1>2
    <3>3. CASE m # 0
      <4>1. 0 \in 0 .. m - 1 /\ q[0 + 1] = p[0]
        BY <3>3, <1>q, <1>2
      <4> QED
        BY <4>1, <3>1, <3>3, <2>1, <1>2
    <3> QED
      BY <3>2, <3>3
  <2>2. CASE j # 0
    <3>1. j - 1 \in 0 .. m - 1 /\ q[j] = p[j - 1] /\ p[j - 1] \in S /\ (j - 1) + 1 = j
      BY <2>2, <1>q, <1>2
    <3>2. next2[q[j]] = IF j - 1 = m - 1 THEN None ELSE p[j]
      BY <3>1, <1>n, <1>2
    <3>3. CASE j = m
      BY <3>2, <3>3
    <3>4. CASE j # m
      <4>1. j \in 0 .. m - 1 /\ j - 1 # m - 1
        BY <3>4, <1>2
      <4> QED
        BY <4>1, <3>2, <3>4, <1>q
    <3> QED
      BY <3>3, <3>4
  <2> QED
    BY <2>1, <2>2
<1>7. i = IF m + 1 = 0 THEN None ELSE q[0]
  BY <1>2, <1>q
<1>8. IsPath(i, next2, S \cup {i}, m + 1, q)
  BY <1>3, <1>4, <1>5, <1>6, <1>7, <1>t DEF IsPath
<1> QED
  BY <1>8 DEF Listed, next2

(* exact_list_remove_locked and wildcard_list_remove_locked take an entry  *)
(* out of its list and leave the links of other lists alone.               *)
LEMMA PathRemove ==
    ASSUME NEW head \in Link, NEW next \in [SubIdx -> Link], NEW S \in SUBSET SubIdx,
           Listed(head, next, S), NEW i \in S
    PROVE  /\ Unlink(head, next, i) \in Link
           /\ Relink(head, next, i) \in [SubIdx -> Link]
           /\ \A j \in SubIdx \ S : Relink(head, next, i)[j] = next[j]
           /\ Listed(Unlink(head, next, i), Relink(head, next, i), S \ {i})
<1>1. PICK m, p : IsPath(head, next, S, m, p)
  BY DEF Listed
<1> DEFINE h2 == Unlink(head, next, i)
           next2 == Relink(head, next, i)
<1>2. /\ m \in Nat
      /\ \A j \in 0 .. m - 1 : p[j] \in S
      /\ \A e \in S : \E j \in 0 .. m - 1 : p[j] = e
      /\ \A j, k \in 0 .. m - 1 : p[j] = p[k] => j = k
      /\ head = IF m = 0 THEN None ELSE p[0]
      /\ \A j \in 0 .. m - 1 : next[p[j]] = IF j = m - 1 THEN None ELSE p[j + 1]
  BY <1>1 DEF IsPath
<1>3. PICK x \in 0 .. m - 1 : p[x] = i
  BY <1>2
<1>m. m \in Nat \ {0} /\ m - 1 \in Nat /\ x \in Nat /\ x <= m - 1
  BY <1>2, <1>3
<1>h. head = p[0] /\ 0 \in 0 .. m - 1
  BY <1>2, <1>m
<1>4. OnList(head, next) = S
  BY PathWalk
<1>5. /\ next2 \in [SubIdx -> Link]
      /\ \A j \in SubIdx : next2[j] = IF j \in S /\ next[j] = i THEN next[i] ELSE next[j]
  BY <1>4 DEF Relink
<1>6. h2 = IF x = 0 THEN next[i] ELSE head
  BY <1>3, <1>h, <1>2 DEF Unlink
<1>none. None \notin SubIdx
  BY TableAssumption
<1> HIDE DEF h2, next2
<1>7. \A j \in 0 .. m - 1 : next[p[j]] = i <=> j + 1 = x
  <2> TAKE j \in 0 .. m - 1
  <2>1. CASE j = m - 1
    BY <2>1, <1>2, <1>none, <1>m
  <2>2. CASE j # m - 1
    <3>1. next[p[j]] = p[j + 1] /\ j + 1 \in 0 .. m - 1
      BY <2>2, <1>2
    <3> QED
      BY <3>1, <1>2, <1>3
  <2> QED
    BY <2>1, <2>2
<1>8. \A j \in 0 .. m - 1 : next2[p[j]] = IF j + 1 = x THEN next[i] ELSE next[p[j]]
  BY <1>5, <1>7, <1>2
<1> DEFINE q == [j \in 0 .. m - 2 |-> IF j < x THEN p[j] ELSE p[j + 1]]
<1>q. \A j \in 0 .. m - 2 : /\ j \in 0 .. m - 1 /\ j + 1 \in 0 .. m - 1
                            /\ j < x => q[j] = p[j]
                            /\ ~(j < x) => q[j] = p[j + 1]
  BY <1>m
<1>9. q \in [0 .. m - 2 -> S \ {i}]
  <2>1. \A j \in 0 .. m - 2 : q[j] \in S \ {i}
    <3> TAKE j \in 0 .. m - 2
    <3>1. CASE j < x
      BY <3>1, <1>q, <1>2, <1>3
    <3>2. CASE ~(j < x)
      <4>1. j + 1 # x
        BY <3>2, <1>m
      <4> QED
        BY <4>1, <3>2, <1>q, <1>2, <1>3
    <3> QED
      BY <3>1, <3>2
  <2> QED
    BY <2>1
<1> HIDE DEF q
<1>10. \A e \in S \ {i} : \E j \in 0 .. m - 2 : q[j] = e
  <2> TAKE e \in S \ {i}
  <2>1. PICK j \in 0 .. m - 1 : p[j] = e
    BY <1>2
  <2>2. CASE j < x
    <3>1. j \in 0 .. m - 2
      BY <2>2, <1>m
    <3> QED
      BY <2>1, <2>2, <3>1, <1>q
  <2>3. CASE ~(j < x)
    <3>1. j # x
      BY <2>1, <1>3
    <3>2. j - 1 \in 0 .. m - 2 /\ ~(j - 1 < x) /\ (j - 1) + 1 = j
      BY <2>3, <3>1, <1>m
    <3> QED
      BY <2>1, <3>2, <1>q
  <2> QED
    BY <2>2, <2>3
<1>11. \A j, k \in 0 .. m - 2 : q[j] = q[k] => j = k
  <2> SUFFICES ASSUME NEW j \in 0 .. m - 2, NEW k \in 0 .. m - 2, q[j] = q[k] PROVE j = k
    OBVIOUS
  <2>1. CASE j < x /\ k < x
    BY <2>1, <1>q, <1>2
  <2>2. CASE j < x /\ ~(k < x)
    BY <2>2, <1>q, <1>2
  <2>3. CASE ~(j < x) /\ k < x
    BY <2>3, <1>q, <1>2
  <2>4. CASE ~(j < x) /\ ~(k < x)
    <3>1. p[j + 1] = p[k + 1] /\ j + 1 \in 0 .. m - 1 /\ k + 1 \in 0 .. m - 1
      BY <2>4, <1>q
    <3>2. j + 1 = k + 1
      BY <3>1, <1>2
    <3> QED
      BY <3>2
  <2> QED
    BY <2>1, <2>2, <2>3, <2>4
<1>n. next[i] = IF x = m - 1 THEN None ELSE p[x + 1]
  BY <1>2, <1>3
<1>12. h2 = IF m - 1 = 0 THEN None ELSE q[0]
  <2>1. CASE m = 1
    BY <2>1, <1>6, <1>n, <1>m
  <2>2. CASE m # 1
    <3>1. 0 \in 0 .. m - 2 /\ m - 1 # 0 /\ 0 + 1 = 1
      BY <2>2, <1>m
    <3>2. CASE x = 0
      <4>1. q[0] = p[1] /\ x # m - 1
        BY <3>1, <3>2, <1>q, <1>m
      <4> QED
        BY <4>1, <3>1, <3>2, <1>6, <1>n
    <3>3. CASE x # 0
      <4>1. q[0] = p[0]
        BY <3>1, <3>3, <1>q, <1>m
      <4> QED
        BY <4>1, <3>1, <3>3, <1>6, <1>h
    <3> QED
      BY <3>2, <3>3
  <2> QED
    BY <2>1, <2>2, <1>m
<1>13. \A j \in 0 .. (m - 1) - 1 :
         next2[q[j]] = IF j = (m - 1) - 1 THEN None ELSE q[j + 1]
  <2> SUFFICES ASSUME NEW j \in 0 .. m - 2
               PROVE  next2[q[j]] = IF j = m - 2 THEN None ELSE q[j + 1]
    BY <1>m
  <2>0. j \in 0 .. m - 1 /\ j + 1 \in 0 .. m - 1 /\ (j + 1) + 1 = j + 2
    BY <1>q
  <2>1. CASE j + 1 < x
    <3>1. q[j] = p[j] /\ j # m - 2 /\ j # m - 1 /\ j + 1 \in 0 .. m - 2
      BY <2>1, <1>q, <1>m
    <3>2. next2[q[j]] = p[j + 1]
      BY <2>0, <2>1, <3>1, <1>8, <1>2
    <3> QED
      BY <3>1, <3>2, <2>1, <1>q
  <2>2. CASE j + 1 = x
    <3>1. q[j] = p[j] /\ next2[q[j]] = next[i]
      BY <2>0, <2>2, <1>q, <1>8
    <3>2. CASE j = m - 2
      BY <3>1, <3>2, <2>2, <1>n, <1>m
    <3>3. CASE j # m - 2
      <4>1. x # m - 1 /\ j + 1 \in 0 .. m - 2 /\ ~(j + 1 < x) /\ x + 1 = (j + 1) + 1
        BY <2>2, <3>3, <1>m
      <4> QED
        BY <4>1, <3>1, <3>3, <1>n, <1>q
    <3> QED
      BY <3>2, <3>3
  <2>3. CASE ~(j < x)
    <3>1. q[j] = p[j + 1] /\ (j + 1) + 1 # x
      BY <2>0, <2>3, <1>q, <1>m
    <3>2. next2[q[j]] = next[p[j + 1]]
      BY <2>0, <3>1, <1>8
    <3>3. CASE j = m - 2
      BY <3>2, <3>3, <2>0, <1>2
    <3>4. CASE j # m - 2
      <4>1. j + 1 # m - 1 /\ j + 1 \in 0 .. m - 2 /\ ~(j + 1 < x)
        BY <2>3, <3>4, <1>m
      <4>2. q[j + 1] = p[(j + 1) + 1]
        BY <4>1, <1>q
      <4>3. next[p[j + 1]] = p[(j + 1) + 1]
        BY <4>1, <2>0, <1>2
      <4> QED
        BY <3>2, <3>4, <4>2, <4>3
    <3> QED
      BY <3>3, <3>4
  <2> QED
    BY <2>1, <2>2, <2>3, <1>m
<1>14. IsPath(h2, next2, S \ {i}, m - 1, q)
  <2>1. (m - 1) - 1 = m - 2
    BY <1>m
  <2> QED
    BY <2>1, <1>m, <1>9, <1>10, <1>11, <1>12, <1>13 DEF IsPath
<1>15. h2 \in Link
  BY <1>6 DEF Link
<1>16. \A j \in SubIdx \ S : next2[j] = next[j]
  BY <1>5
<1>17. Listed(h2, next2, S \ {i})
  BY <1>14 DEF Listed
<1> QED
  BY <1>5, <1>15, <1>16, <1>17 DEF h2, next2

----------------------------------------------------------------------------
(* The inductive invariant. *)

Sub == [client : Client, filter : Filter, qos : QoS]
Ret == [topic : Topic, payload : Payload \ {Empty}, qos : QoS]

(* A client has one entry for a filter. *)
SubsOK(sb) ==
    /\ sb \in [SubIdx -> Sub \cup {None}]
    /\ \A i, j \in SubIdx : /\ sb[i] # None /\ sb[j] # None
                            /\ sb[i].client = sb[j].client /\ sb[i].filter = sb[j].filter
                            => i = j

(* A topic has one retained message. *)
RetsOK(rs) ==
    /\ rs \in [RetIdx -> Ret \cup {None}]
    /\ \A i, j \in RetIdx : /\ rs[i] # None /\ rs[j] # None
                            /\ rs[i].topic = rs[j].topic
                            => i = j

LinksOK(sb, en, eh, wn, wh) ==
    /\ en \in [SubIdx -> Link] /\ eh \in [SubIdx -> Link]
    /\ wn \in [SubIdx -> Link] /\ wh \in Link
    /\ \A b \in SubIdx : Listed(eh[b], en, InChain(sb)[b])
    /\ Listed(wh, wn, InWild(sb))

TInv ==
    /\ SubsOK(subs)
    /\ LinksOK(subs, exact_next, exact_heads, wildcard_next, wildcard_head)
    /\ retains = None \/ RetsOK(retains)
    /\ ending \subseteq Client

LEMMA Constants ==
    /\ None \notin SubIdx /\ None \notin RetIdx /\ None \notin QoS
    /\ None \notin Sub /\ None \notin Ret /\ None \notin [RetIdx -> Ret \cup {None}]
    /\ SubIdx \subseteq Nat /\ RetIdx \subseteq Nat
    /\ \A f \in Filter : f \in Topic \/ f \in Wild
    /\ \A f : ~(f \in Topic /\ f \in Wild)
    /\ \A t \in Topic : Bucket[t] \in SubIdx
  BY TableAssumption DEF Sub, Ret, SubIdx, RetIdx, Filter

(* An entry in use has a client and a filter. *)
LEMMA InUse ==
    ASSUME NEW sb, SubsOK(sb), NEW i \in SubIdx, sb[i] # None
    PROVE  sb[i] \in Sub /\ sb[i].client \in Client /\ sb[i].filter \in Filter
           /\ sb[i].qos \in QoS
  BY DEF SubsOK, Sub

(* The lists of the initial state are empty. *)
LEMMA InitInv == ASSUME Init PROVE TInv
<1> USE DEF Init
<1>1. SubsOK(subs)
  BY DEF SubsOK
<1>2. \A b \in SubIdx : InChain(subs)[b] = {}
  BY DEF InChain
<1>3. InWild(subs) = {}
  BY DEF InWild
<1>4. \A next : Listed(None, next, {})
  <2> TAKE next
  <2>1. IsPath(None, next, {}, 0, [j \in {} |-> None])
    <3>1. 0 .. 0 - 1 = {}
      OBVIOUS
    <3> QED
      BY <3>1 DEF IsPath
  <2> QED
    BY <2>1 DEF Listed
<1>5. LinksOK(subs, exact_next, exact_heads, wildcard_next, wildcard_head)
  BY <1>2, <1>3, <1>4 DEF LinksOK, Link
<1> QED
  BY <1>1, <1>5 DEF TInv

(* A free entry is on no list. *)
LEMMA FreeOff ==
    ASSUME NEW sb, NEW i \in SubIdx, sb[i] = None
    PROVE  /\ \A b \in SubIdx : i \notin InChain(sb)[b]
           /\ i \notin InWild(sb)
  BY DEF InChain, InWild

(* What InChain and InWild are after an entry is written. *)
LEMMA FilledExact ==
    ASSUME NEW sb, SubsOK(sb), NEW i \in SubIdx, sb[i] = None, NEW r \in Sub,
           NEW sb2, sb2 = [sb EXCEPT ![i] = r],
           r.filter \in Topic
    PROVE  /\ InWild(sb2) = InWild(sb)
           /\ \A b, j \in SubIdx :
                j \in InChain(sb2)[b]
                  <=> ((j # i \/ b # Bucket[r.filter]) => j \in InChain(sb)[b])
<1>0. r.filter \in Filter /\ r # None
  BY Constants DEF Sub
<1>1. sb2[i] = r /\ \A j \in SubIdx : j # i => sb2[j] = sb[j]
  BY DEF SubsOK
<1> QED
  BY <1>0, <1>1, Constants DEF InChain, InWild

LEMMA FilledWild ==
    ASSUME NEW sb, SubsOK(sb), NEW i \in SubIdx, sb[i] = None, NEW r \in Sub,
           NEW sb2, sb2 = [sb EXCEPT ![i] = r],
           r.filter \notin Topic
    PROVE  /\ InChain(sb2) = InChain(sb)
           /\ \A j \in SubIdx : j \in InWild(sb2) <=> (j # i => j \in InWild(sb))
<1>0. r.filter \in Filter /\ r # None
  BY Constants DEF Sub
<1>1. sb2[i] = r /\ \A j \in SubIdx : j # i => sb2[j] = sb[j]
  BY DEF SubsOK
<1> QED
  BY <1>0, <1>1, Constants DEF InChain, InWild

(* ... and after an entry is freed. *)
LEMMA Freed ==
    ASSUME NEW sb, SubsOK(sb), NEW i \in SubIdx, sb[i] # None,
           NEW sb2, sb2 = [sb EXCEPT ![i] = None]
    PROVE  /\ SubsOK(sb2)
           /\ sb[i].filter \in Topic =>
                /\ InWild(sb2) = InWild(sb)
                /\ i \in InChain(sb)[Bucket[sb[i].filter]]
                /\ \A b, j \in SubIdx :
                     j \in InChain(sb2)[b] <=> j \in InChain(sb)[b] /\ (j # i \/ b # Bucket[sb[i].filter])
           /\ sb[i].filter \notin Topic =>
                /\ i \in InWild(sb)
                /\ \A j \in SubIdx : j \in InWild(sb2) <=> j \in InWild(sb) /\ j # i
                /\ InChain(sb2) = InChain(sb)
<1>0. sb[i].filter \in Filter
  BY InUse
<1>1. sb2[i] = None /\ \A j \in SubIdx : j # i => sb2[j] = sb[j]
  BY DEF SubsOK
<1>2. SubsOK(sb2)
  BY <1>1 DEF SubsOK
<1>3. ASSUME sb[i].filter \in Topic
      PROVE  /\ InWild(sb2) = InWild(sb)
             /\ i \in InChain(sb)[Bucket[sb[i].filter]]
             /\ \A b, j \in SubIdx :
                  j \in InChain(sb2)[b] <=> j \in InChain(sb)[b] /\ (j # i \/ b # Bucket[sb[i].filter])
  BY <1>0, <1>1, <1>3, Constants DEF InChain, InWild
<1>4. ASSUME sb[i].filter \notin Topic
      PROVE  /\ i \in InWild(sb)
             /\ \A j \in SubIdx : j \in InWild(sb2) <=> j \in InWild(sb) /\ j # i
             /\ InChain(sb2) = InChain(sb)
  BY <1>0, <1>1, <1>4, Constants DEF InChain, InWild
<1> QED
  BY <1>2, <1>3, <1>4

(* Writing an entry that was free keeps the lists, when it is inserted. *)
LEMMA InsertStep ==
    ASSUME TInv, NEW i \in SubIdx, subs[i] = None, NEW r \in Sub,
           subs' = [subs EXCEPT ![i] = r], ListInsert(i, r.filter)
    PROVE  LinksOK(subs, exact_next, exact_heads, wildcard_next, wildcard_head)'
<1>1. /\ SubsOK(subs)
      /\ exact_next \in [SubIdx -> Link] /\ exact_heads \in [SubIdx -> Link]
      /\ wildcard_next \in [SubIdx -> Link] /\ wildcard_head \in Link
      /\ \A b \in SubIdx : Listed(exact_heads[b], exact_next, InChain(subs)[b])
      /\ Listed(wildcard_head, wildcard_next, InWild(subs))
  BY DEF TInv, LinksOK
<1>2. /\ \A b \in SubIdx : InChain(subs)[b] \in SUBSET SubIdx
      /\ \A b \in SubIdx : InChain(subs')[b] \in SUBSET SubIdx
      /\ InWild(subs) \in SUBSET SubIdx /\ InWild(subs') \in SUBSET SubIdx
      /\ i \in Link
  BY DEF InChain, InWild, Link
<1>f. /\ \A b \in SubIdx : i \notin InChain(subs)[b]
      /\ i \notin InWild(subs)
  BY <1>1, FreeOff
<1>3. CASE r.filter \in Topic
  <2> DEFINE b0 == Bucket[r.filter]
  <2>0. b0 \in SubIdx
    BY <1>3, Constants
  <2>1. /\ exact_next' = [exact_next EXCEPT ![i] = exact_heads[b0]]
        /\ exact_heads' = [exact_heads EXCEPT ![b0] = i]
        /\ wildcard_next' = wildcard_next /\ wildcard_head' = wildcard_head
    BY <1>3 DEF ListInsert
  <2>2. /\ InWild(subs') = InWild(subs)
        /\ \A b, j \in SubIdx :
             j \in InChain(subs')[b] <=> ((j # i \/ b # b0) => j \in InChain(subs)[b])
    <3>1. InWild(subs') = InWild(subs)
      BY <1>1, <1>3, FilledExact, Zenon
    <3>2. \A b, j \in SubIdx :
             j \in InChain(subs')[b] <=> ((j # i \/ b # Bucket[r.filter]) => j \in InChain(subs)[b])
      BY <1>1, <1>3, FilledExact, Zenon
    <3> QED
      BY <3>1, <3>2
  <2> HIDE DEF b0
  <2>3. exact_next' \in [SubIdx -> Link] /\ exact_heads' \in [SubIdx -> Link]
    BY <1>1, <1>2, <2>0, <2>1
  <2>4. \A b \in SubIdx : Listed(exact_heads'[b], exact_next', InChain(subs')[b])
    <3> TAKE b \in SubIdx
    <3>1. CASE b = b0
      <4>0. InChain(subs')[b] = InChain(subs)[b] \cup {i}
        BY <3>1, <2>2, <1>2
      <4>1. Listed(i, [exact_next EXCEPT ![i] = exact_heads[b]], InChain(subs)[b] \cup {i})
        BY <1>1, <1>2, <1>f, PathInsert
      <4> QED
        BY <3>1, <4>0, <4>1, <2>1, <1>1
    <3>2. CASE b # b0
      <4>1. \A j \in InChain(subs)[b] : exact_next'[j] = exact_next[j]
        BY <1>1, <1>2, <1>f, <2>1
      <4>2. Listed(exact_heads[b], exact_next', InChain(subs)[b])
        BY <1>1, <4>1, PathFrame
      <4>3. InChain(subs')[b] = InChain(subs)[b]
        BY <3>2, <2>2, <1>2
      <4> QED
        BY <3>2, <4>2, <4>3, <2>1, <1>1
    <3> QED
      BY <3>1, <3>2
  <2> QED
    BY <1>1, <2>1, <2>2, <2>3, <2>4 DEF LinksOK
<1>4. CASE r.filter \notin Topic
  <2>1. /\ wildcard_next' = [wildcard_next EXCEPT ![i] = wildcard_head]
        /\ wildcard_head' = i
        /\ exact_next' = exact_next /\ exact_heads' = exact_heads
    BY <1>4 DEF ListInsert
  <2>w. /\ \A j \in SubIdx : j \in InWild(subs') <=> (j # i => j \in InWild(subs))
        /\ InChain(subs') = InChain(subs)
    <3>1. \A j \in SubIdx : j \in InWild(subs') <=> (j # i => j \in InWild(subs))
      BY <1>1, <1>4, FilledWild, Zenon
    <3>2. InChain(subs') = InChain(subs)
      BY <1>1, <1>4, FilledWild, Zenon
    <3> QED
      BY <3>1, <3>2
  <2>2. InWild(subs') = InWild(subs) \cup {i} /\ InChain(subs') = InChain(subs)
    BY <1>2, <2>w
  <2>3. wildcard_next' \in [SubIdx -> Link] /\ wildcard_head' \in Link
    BY <1>1, <1>2, <2>1
  <2>4. Listed(wildcard_head', wildcard_next', InWild(subs'))
    <3>1. Listed(i, [wildcard_next EXCEPT ![i] = wildcard_head], InWild(subs) \cup {i})
      BY <1>1, <1>2, <1>f, PathInsert
    <3> QED
      BY <3>1, <2>1, <2>2
  <2> QED
    BY <1>1, <2>1, <2>2, <2>3, <2>4 DEF LinksOK
<1> QED
  BY <1>3, <1>4

(* Freeing an entry keeps the table and the lists. *)
LEMMA DropStep ==
    ASSUME TInv, NEW i \in SubIdx, subs[i] # None, Drop(i)
    PROVE  /\ SubsOK(subs')
           /\ LinksOK(subs, exact_next, exact_heads, wildcard_next, wildcard_head)'
<1>1. /\ SubsOK(subs)
      /\ exact_next \in [SubIdx -> Link] /\ exact_heads \in [SubIdx -> Link]
      /\ wildcard_next \in [SubIdx -> Link] /\ wildcard_head \in Link
      /\ \A b \in SubIdx : Listed(exact_heads[b], exact_next, InChain(subs)[b])
      /\ Listed(wildcard_head, wildcard_next, InWild(subs))
  BY DEF TInv, LinksOK
<1>2. /\ \A b \in SubIdx : InChain(subs)[b] \in SUBSET SubIdx
      /\ \A b \in SubIdx : InChain(subs')[b] \in SUBSET SubIdx
      /\ InWild(subs) \in SUBSET SubIdx /\ InWild(subs') \in SUBSET SubIdx
  BY DEF InChain, InWild
<1>3. /\ subs' = [subs EXCEPT ![i] = None]
      /\ ListRemove(i)
  BY DEF Drop
<1>4. SubsOK(subs')
  BY <1>1, <1>3, Freed
<1>5. CASE subs[i].filter \in Topic
  <2> DEFINE b0 == Bucket[subs[i].filter]
  <2>0. b0 \in SubIdx
    BY <1>5, Constants
  <2>1. /\ exact_heads' = [exact_heads EXCEPT ![b0] = Unlink(exact_heads[b0], exact_next, i)]
        /\ exact_next' = Relink(exact_heads[b0], exact_next, i)
        /\ wildcard_next' = wildcard_next /\ wildcard_head' = wildcard_head
    BY <1>3, <1>5 DEF ListRemove
  <2>2. /\ InWild(subs') = InWild(subs)
        /\ i \in InChain(subs)[b0]
        /\ \A b, j \in SubIdx :
             j \in InChain(subs')[b] <=> j \in InChain(subs)[b] /\ (j # i \/ b # b0)
    BY <1>1, <1>3, <1>5, Freed
  <2>d. \A b \in SubIdx : b # b0 => \A j \in SubIdx : j \in InChain(subs)[b]
                                                 => j \notin InChain(subs)[b0]
    BY <2>0 DEF InChain
  <2> HIDE DEF b0
  <2>3. /\ Unlink(exact_heads[b0], exact_next, i) \in Link
        /\ exact_next' \in [SubIdx -> Link]
        /\ \A j \in SubIdx \ InChain(subs)[b0] : exact_next'[j] = exact_next[j]
        /\ Listed(Unlink(exact_heads[b0], exact_next, i), exact_next', InChain(subs)[b0] \ {i})
    <3> DEFINE head == exact_heads[b0]
    <3>1. head \in Link /\ Listed(head, exact_next, InChain(subs)[b0])
          /\ InChain(subs)[b0] \in SUBSET SubIdx
      BY <1>1, <1>2, <2>0
    <3> HIDE DEF head
    <3>2. /\ Unlink(head, exact_next, i) \in Link
          /\ Relink(head, exact_next, i) \in [SubIdx -> Link]
          /\ \A j \in SubIdx \ InChain(subs)[b0] : Relink(head, exact_next, i)[j] = exact_next[j]
          /\ Listed(Unlink(head, exact_next, i), Relink(head, exact_next, i),
                    InChain(subs)[b0] \ {i})
      BY <1>1, <2>2, <3>1, PathRemove
    <3> QED
      BY <3>2, <2>1 DEF head
  <2>4. \A b \in SubIdx : Listed(exact_heads'[b], exact_next', InChain(subs')[b])
    <3> TAKE b \in SubIdx
    <3>1. CASE b = b0
      <4>1. InChain(subs')[b] = InChain(subs)[b] \ {i}
        BY <3>1, <2>2, <1>2
      <4> QED
        BY <3>1, <4>1, <2>1, <2>3, <1>1
    <3>2. CASE b # b0
      <4>1. \A j \in InChain(subs)[b] : exact_next'[j] = exact_next[j]
        BY <3>2, <2>3, <2>d, <1>2
      <4>2. Listed(exact_heads[b], exact_next', InChain(subs)[b])
        BY <1>1, <4>1, PathFrame
      <4>3. InChain(subs')[b] = InChain(subs)[b]
        BY <3>2, <2>2, <1>2
      <4> QED
        BY <3>2, <4>2, <4>3, <2>1, <1>1
    <3> QED
      BY <3>1, <3>2
  <2>5. exact_heads' \in [SubIdx -> Link]
    BY <1>1, <2>0, <2>1, <2>3
  <2> QED
    BY <1>1, <1>4, <2>1, <2>2, <2>3, <2>4, <2>5 DEF LinksOK
<1>6. CASE subs[i].filter \notin Topic
  <2>1. /\ wildcard_head' = Unlink(wildcard_head, wildcard_next, i)
        /\ wildcard_next' = Relink(wildcard_head, wildcard_next, i)
        /\ exact_next' = exact_next /\ exact_heads' = exact_heads
    BY <1>3, <1>6 DEF ListRemove
  <2>2. /\ i \in InWild(subs)
        /\ InWild(subs') = InWild(subs) \ {i}
        /\ InChain(subs') = InChain(subs)
    <3>1. /\ i \in InWild(subs)
          /\ \A j \in SubIdx : j \in InWild(subs') <=> j \in InWild(subs) /\ j # i
          /\ InChain(subs') = InChain(subs)
      BY <1>1, <1>3, <1>6, Freed
    <3> QED
      BY <1>2, <3>1
  <2>3. /\ wildcard_head' \in Link
        /\ wildcard_next' \in [SubIdx -> Link]
        /\ Listed(wildcard_head', wildcard_next', InWild(subs) \ {i})
    BY <1>1, <1>2, <2>1, <2>2, PathRemove
  <2> QED
    BY <1>1, <1>4, <2>1, <2>2, <2>3 DEF LinksOK
<1> QED
  BY <1>5, <1>6

(* The entry a search of the table finds. *)
LEMMA EntryIs ==
    ASSUME SubsOK(subs), NEW c, NEW f
    PROVE  /\ Entry(c, f) = None \/ /\ Entry(c, f) \in SubIdx /\ subs[Entry(c, f)] # None
                                    /\ subs[Entry(c, f)].client = c
                                    /\ subs[Entry(c, f)].filter = f
           /\ Entry(c, f) = None => \A i \in SubIdx : \/ subs[i] = None
                                                      \/ subs[i].client # c
                                                      \/ subs[i].filter # f
<1> DEFINE I == {i \in SubIdx : subs[i] # None /\ subs[i].client = c /\ subs[i].filter = f}
<1>1. Entry(c, f) = First(I)
  BY DEF Entry
<1>2. I \subseteq SubIdx /\ I \subseteq Nat
  BY Constants
<1>3. CASE I = {}
  BY <1>1, <1>3, FirstEmpty
<1>4. CASE I # {}
  <2>1. First(I) \in I
    BY <1>2, <1>4, FirstFound
  <2> QED
    BY <1>1, <2>1, Constants
<1> QED
  BY <1>3, <1>4

(* topic_subscribe keeps the table and the lists. *)
LEMMA SubscribeInv ==
    ASSUME TInv, NEW c \in Client, NEW f \in Filter, NEW q \in QoS, Subscribe(c, f, q)
    PROVE  TInv'
<1> DEFINE i == SlotFor(c, f)
           r == [client |-> c, filter |-> f, qos |-> q]
<1>1. SubsOK(subs) /\ LinksOK(subs, exact_next, exact_heads, wildcard_next, wildcard_head)
  BY DEF TInv
<1>2. i # None => i \in SubIdx /\ \A j \in SubIdx : /\ subs[j] # None
                                                   /\ subs[j].client = c
                                                   /\ subs[j].filter = f => j = i
  <2>1. CASE Entry(c, f) # None
    BY <1>1, <2>1, EntryIs DEF SlotFor, SubsOK
  <2>2. CASE Entry(c, f) = None
    <3>1. First({k \in SubIdx : subs[k] = None}) \in SubIdx \cup {None}
      <4> DEFINE F == {k \in SubIdx : subs[k] = None}
      <4>1. F \subseteq SubIdx
        OBVIOUS
      <4> HIDE DEF F
      <4>2. First(F) \in SubIdx \cup {None}
        BY <4>1, Constants, FirstType
      <4> QED
        BY <4>2 DEF F
    <3> QED
      BY <1>1, <2>2, <3>1, EntryIs DEF SlotFor
  <2> QED
    BY <2>1, <2>2
<1>3. UNCHANGED <<retains, ending>>
  BY DEF Subscribe
<1>4. r \in Sub /\ r.filter = f /\ r.client = c
  BY DEF Sub
<1>5. CASE i = None
  BY <1>1, <1>3, <1>5 DEF Subscribe, table, links, TInv
<1>6. CASE i # None
  <2>1. /\ subs' = [subs EXCEPT ![i] = r]
        /\ IF subs[i] = None THEN ListInsert(i, f) ELSE UNCHANGED links
    BY <1>6 DEF Subscribe
  <2>2. i \in SubIdx
    BY <1>2, <1>6
  <2> HIDE DEF i, r
  <2>3. SubsOK(subs')
    <3>1. subs' \in [SubIdx -> Sub \cup {None}]
      BY <1>1, <1>4, <2>1, <2>2 DEF SubsOK
    <3>2. subs'[i] = r /\ \A j \in SubIdx : j # i => subs'[j] = subs[j]
      BY <1>1, <2>1, <2>2 DEF SubsOK
    <3>3. \A j \in SubIdx : subs'[j] # None /\ subs'[j].client = c /\ subs'[j].filter = f => j = i
      BY <1>2, <1>6, <3>2
    <3> QED
      BY <1>1, <1>4, <3>1, <3>2, <3>3 DEF SubsOK
  <2>4. CASE subs[i] = None
    <3>1. LinksOK(subs, exact_next, exact_heads, wildcard_next, wildcard_head)'
      BY <1>4, <2>1, <2>2, <2>4, InsertStep
    <3> QED
      BY <1>3, <2>3, <3>1 DEF TInv
  <2>5. CASE subs[i] # None
    <3>1. subs[i].client = c /\ subs[i].filter = f
      <4>1. Entry(c, f) = i
        <5>1. CASE Entry(c, f) = None
          <6> DEFINE F == {k \in SubIdx : subs[k] = None}
          <6>1. i = First(F)
            BY <5>1 DEF i, SlotFor
          <6>2. F # {} => First(F) \in F
            BY Constants, FirstFound
          <6> QED
            BY <6>1, <6>2, <2>5, <1>6, FirstEmpty
        <5> QED
          BY <5>1 DEF i, SlotFor
      <4> QED
        BY <1>1, <1>6, <4>1, EntryIs
    <3>2. UNCHANGED links
      BY <2>1, <2>5
    <3>3. subs'[i] = r /\ \A j \in SubIdx : j # i => subs'[j] = subs[j]
      BY <1>1, <2>1, <2>2 DEF SubsOK
    <3>4. r # None
      BY <1>4, Constants
    <3>5. InChain(subs') = InChain(subs) /\ InWild(subs') = InWild(subs)
      BY <1>4, <2>5, <3>1, <3>3, <3>4 DEF InChain, InWild
    <3>6. LinksOK(subs, exact_next, exact_heads, wildcard_next, wildcard_head)'
      BY <1>1, <3>2, <3>5 DEF LinksOK, links
    <3> QED
      BY <1>3, <2>3, <3>6 DEF TInv
  <2> QED
    BY <2>4, <2>5
<1> QED
  BY <1>5, <1>6

(* Every entry that is dropped is in use. *)
LEMMA DropInv ==
    ASSUME TInv, NEW i \in SubIdx, subs[i] # None, Drop(i), UNCHANGED retains,
           ending' \subseteq Client
    PROVE  TInv'
  BY DropStep DEF TInv

(* The entry of a topic in the store, and the entry a message goes to. *)
LEMMA RetainIs ==
    ASSUME RetsOK(RetainStore), NEW t
    PROVE  /\ RetainEntry(t) = None
              \/ /\ RetainEntry(t) \in RetIdx /\ RetainStore[RetainEntry(t)] # None
                 /\ RetainStore[RetainEntry(t)].topic = t
           /\ RetainEntry(t) = None => \A r \in RetIdx : \/ RetainStore[r] = None
                                                        \/ RetainStore[r].topic # t
           /\ RetainEntry(t) # None => RetainSlot(t) = RetainEntry(t)
           /\ RetainEntry(t) = None => \/ RetainSlot(t) = None
                                         /\ \A r \in RetIdx : RetainStore[r] # None
                                       \/ RetainSlot(t) \in RetIdx
                                         /\ RetainStore[RetainSlot(t)] = None
<1> DEFINE I == {r \in RetIdx : RetainStore[r] # None /\ RetainStore[r].topic = t}
           F == {r \in RetIdx : RetainStore[r] = None}
<1>1. RetainEntry(t) = First(I)
  BY DEF RetainEntry
<1>2. I \subseteq Nat /\ F \subseteq Nat
  BY Constants
<1>3. IF I = {} THEN First(I) = None ELSE First(I) \in I
  BY <1>2, FirstFound, FirstEmpty
<1>4. IF F = {} THEN First(F) = None ELSE First(F) \in F
  BY <1>2, FirstFound, FirstEmpty
<1>5. RetainSlot(t) = IF RetainEntry(t) # None THEN RetainEntry(t) ELSE First(F)
  BY DEF RetainSlot
<1> QED
  BY <1>1, <1>3, <1>4, <1>5, Constants

(* The store starts without messages. *)
LEMMA StoreOK == ASSUME TInv PROVE RetsOK(RetainStore)
<1>1. RetsOK([r \in RetIdx |-> None])
  BY DEF RetsOK
<1> QED
  BY <1>1 DEF TInv, RetainStore

(* A retained publish keeps one message for each topic. *)
LEMMA RetainedOK ==
    ASSUME TInv, NEW t \in Topic, NEW q \in PubQoS, NEW pl \in Payload
    PROVE  RetsOK(Retained(t, q, pl))
<1> DEFINE rs == Retained(t, q, pl)
           old == RetainStore
           x == RetainSlot(t)
           m == [topic |-> t, payload |-> pl, qos |-> q]
<1>1. RetsOK(old)
  BY StoreOK
<1>2. old \in [RetIdx -> Ret \cup {None}]
  BY <1>1 DEF RetsOK
<1>3. CASE pl = Empty
  <2>1. rs = [r \in RetIdx |-> IF r = RetainEntry(t) THEN None ELSE old[r]]
    BY <1>3 DEF Retained
  <2>2. rs \in [RetIdx -> Ret \cup {None}]
    BY <1>2, <2>1
  <2>3. \A r \in RetIdx : rs[r] # None => rs[r] = old[r]
    BY <2>1
  <2> HIDE DEF rs, old
  <2> QED
    BY <1>1, <2>2, <2>3 DEF RetsOK, rs
<1>4. CASE pl # Empty
  <2>1. rs = [r \in RetIdx |-> IF r = x THEN m ELSE old[r]]
    BY <1>4 DEF Retained
  <2>2. m \in Ret /\ m.topic = t
    BY <1>4, TableAssumption DEF Ret
  <2>3. \A r \in RetIdx : old[r] # None /\ old[r].topic = t => r = x
    BY <1>1, RetainIs DEF RetsOK
  <2> HIDE DEF old, m, x
  <2>4. rs \in [RetIdx -> Ret \cup {None}]
    BY <1>2, <2>1, <2>2
  <2>5. \A r \in RetIdx : rs[r] = IF r = x THEN m ELSE old[r]
    BY <2>1
  <2> HIDE DEF rs
  <2> QED
    BY <1>1, <2>2, <2>3, <2>4, <2>5 DEF RetsOK, rs
<1> QED
  BY <1>3, <1>4

(* Every step keeps the inductive invariant. *)
LEMMA StepInv == ASSUME TInv, [Next]_vars PROVE TInv'
<1>0. SubsOK(subs) /\ ending \subseteq Client
  BY DEF TInv
<1>1. ASSUME NEW c \in Client, NEW f \in Filter, NEW q \in QoS, Subscribe(c, f, q)
      PROVE  TInv'
  BY <1>1, SubscribeInv
<1>2. ASSUME NEW c \in Client, NEW f \in Filter, Unsubscribe(c, f) PROVE TInv'
  <2>1. CASE Entry(c, f) = None
    BY <1>2, <2>1 DEF Unsubscribe, table, links, TInv
  <2>2. CASE Entry(c, f) # None
    <3>1. Entry(c, f) \in SubIdx /\ subs[Entry(c, f)] # None
      BY <1>0, <2>2, EntryIs
    <3>2. Drop(Entry(c, f)) /\ UNCHANGED retains /\ ending' \subseteq Client
      BY <1>0, <1>2, <2>2 DEF Unsubscribe
    <3> QED
      BY <3>1, <3>2, DropInv
  <2> QED
    BY <2>1, <2>2
<1>3. ASSUME NEW c \in Client, UnsubscribeAll(c) PROVE TInv'
  BY <1>3 DEF UnsubscribeAll, table, links, TInv
<1>4. ASSUME NEW c \in Client, UnsubscribeNext(c) PROVE TInv'
  <2> DEFINE I == {j \in SubIdx : subs[j] # None /\ subs[j].client = c}
             i == First(I)
  <2>1. CASE i = None
    BY <1>0, <1>4, <2>1 DEF UnsubscribeNext, table, links, TInv
  <2>2. CASE i # None
    <3>1. I # {}
      BY <2>2, FirstEmpty
    <3>2. i \in SubIdx /\ subs[i] # None
      BY <3>1, FirstFound, Constants
    <3>3. Drop(i) /\ UNCHANGED retains /\ ending' \subseteq Client
      BY <1>0, <1>4, <2>2 DEF UnsubscribeNext
    <3> HIDE DEF i
    <3> QED
      BY <3>2, <3>3, DropInv
  <2> QED
    BY <2>1, <2>2
<1>5. ASSUME NEW t \in Topic, NEW q \in PubQoS, NEW pl \in Payload, NEW keep \in BOOLEAN,
             Publish(t, q, pl, keep)
      PROVE  TInv'
  <2>1. UNCHANGED <<table, ending>> /\ retains' = IF keep THEN Retained(t, q, pl) ELSE retains
    BY <1>5 DEF Publish
  <2>2. RetsOK(Retained(t, q, pl))
    BY RetainedOK
  <2>3. retains' = None \/ RetsOK(retains')
    BY <2>1, <2>2 DEF TInv
  <2> QED
    BY <2>1, <2>3 DEF table, links, TInv
<1>6. ASSUME PublishFailed PROVE TInv'
  BY <1>6 DEF PublishFailed, table, links, TInv
<1>7. ASSUME NEW c \in Client, NEW f \in Filter, NEW q \in QoS, DeliverRetained(c, f, q)
      PROVE  TInv'
  BY <1>7 DEF DeliverRetained, table, links, TInv
<1>8. CASE UNCHANGED vars
  BY <1>8 DEF vars, table, links, TInv
<1> QED
  BY <1>1, <1>2, <1>3, <1>4, <1>5, <1>6, <1>7, <1>8 DEF Next

(* The chains and the wildcard list of topic.c are paths through the       *)
(* entries that belong on them, whatever calls were made.                  *)
THEOREM Invariant == Spec => []TInv
<1>1. Init => TInv
  BY InitInv
<1>2. TInv /\ [Next]_vars => TInv'
  BY StepInv
<1> QED
  BY <1>1, <1>2, PTL DEF Spec

(* The variables keep their types. *)
THEOREM TypeCorrect == Spec => []TypeOK
<1>1. TInv => TypeOK
  BY DEF TInv, TypeOK, SubsOK, RetsOK, LinksOK, Link, Sub, Ret
<1> QED
  BY <1>1, Invariant, PTL

(* The chains and the wildcard list end and hold exactly the entries in    *)
(* use, whatever the order in which exact_list_insert_locked,              *)
(* wildcard_list_insert_locked and their counterparts are called.          *)
THEOREM Lists == Spec => []ListsExact
<1>1. TInv => ListsExact
  <2> SUFFICES ASSUME TInv PROVE ListsExact
    OBVIOUS
  <2>1. /\ exact_next \in [SubIdx -> Link] /\ exact_heads \in [SubIdx -> Link]
        /\ wildcard_next \in [SubIdx -> Link] /\ wildcard_head \in Link
        /\ \A b \in SubIdx : Listed(exact_heads[b], exact_next, InChain(subs)[b])
        /\ Listed(wildcard_head, wildcard_next, InWild(subs))
    BY DEF TInv, LinksOK
  <2>2. ASSUME NEW b \in SubIdx
        PROVE  /\ Walk(exact_heads[b], exact_next)[TOPIC_MAX_SUBS] = None
               /\ OnList(exact_heads[b], exact_next) =
                    {i \in SubIdx : /\ subs[i] # None /\ subs[i].filter \in Topic
                                    /\ Bucket[subs[i].filter] = b}
    <3>1. InChain(subs)[b] \in SUBSET SubIdx
      BY DEF InChain
    <3>2. /\ Walk(exact_heads[b], exact_next)[TOPIC_MAX_SUBS] = None
          /\ OnList(exact_heads[b], exact_next) = InChain(subs)[b]
      BY <2>1, <3>1, PathWalk
    <3> QED
      BY <3>2 DEF InChain
  <2>3. /\ Walk(wildcard_head, wildcard_next)[TOPIC_MAX_SUBS] = None
        /\ OnList(wildcard_head, wildcard_next) = InWild(subs)
    <3>1. InWild(subs) \in SUBSET SubIdx
      BY DEF InWild
    <3> QED
      BY <2>1, <3>1, PathWalk
  <2> QED
    BY <2>2, <2>3 DEF ListsExact, InWild
<1> QED
  BY <1>1, Invariant, PTL

----------------------------------------------------------------------------
(* The map of subscriptions. *)

EntryOf(sb, c, f) ==
    First({i \in SubIdx : sb[i] # None /\ sb[i].client = c /\ sb[i].filter = f})

MapOf(sb) ==
    [c \in Client |-> [f \in Filter |->
        IF EntryOf(sb, c, f) = None THEN None ELSE sb[EntryOf(sb, c, f)].qos]]

LEMMA MapsAre ==
    /\ SubMap = MapOf(subs)
    /\ SubMap' = MapOf(subs')
  BY DEF SubMap, MapOf, Entry, EntryOf

(* The map m has the QoS of the entry of a client and a filter. *)
Represents(m, sb) ==
    /\ m \in [Client -> [Filter -> QoS \cup {None}]]
    /\ \A i \in SubIdx : sb[i] # None => m[sb[i].client][sb[i].filter] = sb[i].qos
    /\ \A c \in Client, f \in Filter : m[c][f] # None =>
         \E i \in SubIdx : sb[i] # None /\ sb[i].client = c /\ sb[i].filter = f

LEMMA MapIs == ASSUME NEW sb, SubsOK(sb) PROVE Represents(MapOf(sb), sb)
<1>1. ASSUME NEW c \in Client, NEW f \in Filter
      PROVE  /\ EntryOf(sb, c, f) # None =>
                  /\ EntryOf(sb, c, f) \in SubIdx /\ sb[EntryOf(sb, c, f)] # None
                  /\ sb[EntryOf(sb, c, f)].client = c /\ sb[EntryOf(sb, c, f)].filter = f
             /\ EntryOf(sb, c, f) = None =>
                  \A i \in SubIdx : ~(sb[i] # None /\ sb[i].client = c /\ sb[i].filter = f)
  <2> DEFINE I == {i \in SubIdx : sb[i] # None /\ sb[i].client = c /\ sb[i].filter = f}
  <2>1. EntryOf(sb, c, f) = First(I) /\ I \subseteq Nat
    BY Constants DEF EntryOf
  <2>2. IF I = {} THEN First(I) = None ELSE First(I) \in I
    BY <2>1, FirstFound, FirstEmpty
  <2> QED
    BY <2>1, <2>2, Constants
<1>2. ASSUME NEW c \in Client, NEW f \in Filter
      PROVE  MapOf(sb)[c][f] = IF EntryOf(sb, c, f) = None THEN None
                               ELSE sb[EntryOf(sb, c, f)].qos
  BY DEF MapOf
<1>3. MapOf(sb) \in [Client -> [Filter -> QoS \cup {None}]]
  <2>1. \A c \in Client, f \in Filter :
          (IF EntryOf(sb, c, f) = None THEN None ELSE sb[EntryOf(sb, c, f)].qos) \in QoS \cup {None}
    BY <1>1, InUse
  <2> QED
    BY <2>1 DEF MapOf
<1>4. ASSUME NEW i \in SubIdx, sb[i] # None
      PROVE  MapOf(sb)[sb[i].client][sb[i].filter] = sb[i].qos
  <2> DEFINE c == sb[i].client
             f == sb[i].filter
  <2>1. c \in Client /\ f \in Filter
    BY <1>4, InUse
  <2>2. EntryOf(sb, c, f) # None
    BY <1>1, <1>4, <2>1
  <2>3. EntryOf(sb, c, f) = i
    BY <1>1, <1>4, <2>1, <2>2 DEF SubsOK
  <2> QED
    BY <1>2, <2>1, <2>2, <2>3
<1>5. ASSUME NEW c \in Client, NEW f \in Filter, MapOf(sb)[c][f] # None
      PROVE  \E i \in SubIdx : sb[i] # None /\ sb[i].client = c /\ sb[i].filter = f
  BY <1>1, <1>2, <1>5
<1> QED
  BY <1>3, <1>4, <1>5 DEF Represents

(* Entry i is the one that a subscription r may be written to. *)
Fits(sb, i, r) ==
    /\ sb[i] = None \/ (sb[i].client = r.client /\ sb[i].filter = r.filter)
    /\ \A j \in SubIdx : sb[j] # None /\ sb[j].client = r.client
                          /\ sb[j].filter = r.filter => j = i

SetAt(m, c, f, q) == [m EXCEPT ![c][f] = q]

(* Writing an entry sets the map at its client and filter. *)
LEMMA MapSet ==
    ASSUME NEW sb, SubsOK(sb), NEW i \in SubIdx, NEW r \in Sub, Fits(sb, i, r),
           NEW sb2, sb2 = [sb EXCEPT ![i] = r], SubsOK(sb2)
    PROVE  MapOf(sb2) = SetAt(MapOf(sb), r.client, r.filter, r.qos)
<1> DEFINE m == MapOf(sb)
           m2 == MapOf(sb2)
           n == [m EXCEPT ![r.client][r.filter] = r.qos]
<1>1. /\ sb2[i] = r /\ r # None /\ r.client \in Client /\ r.filter \in Filter /\ r.qos \in QoS
      /\ \A j \in SubIdx : j # i => sb2[j] = sb[j]
  BY Constants DEF SubsOK, Sub
<1>a. /\ m \in [Client -> [Filter -> QoS \cup {None}]]
      /\ \A j \in SubIdx : sb[j] # None => m[sb[j].client][sb[j].filter] = sb[j].qos
      /\ \A c \in Client, f \in Filter : m[c][f] # None =>
           \E j \in SubIdx : sb[j] # None /\ sb[j].client = c /\ sb[j].filter = f
  BY MapIs DEF Represents
<1>b. /\ m2 \in [Client -> [Filter -> QoS \cup {None}]]
      /\ \A j \in SubIdx : sb2[j] # None => m2[sb2[j].client][sb2[j].filter] = sb2[j].qos
      /\ \A c \in Client, f \in Filter : m2[c][f] # None =>
           \E j \in SubIdx : sb2[j] # None /\ sb2[j].client = c /\ sb2[j].filter = f
  <2>1. Represents(m2, sb2)
    BY MapIs, Zenon
  <2> QED
    BY <2>1, Zenon DEF Represents
<1>3. /\ n \in [Client -> [Filter -> QoS \cup {None}]]
      /\ \A c \in Client, f \in Filter :
           n[c][f] = IF c = r.client /\ f = r.filter THEN r.qos ELSE m[c][f]
  BY <1>1, <1>a, <1>b
<1>f. /\ sb[i] = None \/ (sb[i].client = r.client /\ sb[i].filter = r.filter)
      /\ \A j \in SubIdx : sb[j] # None /\ sb[j].client = r.client
                            /\ sb[j].filter = r.filter => j = i
  BY DEF Fits
<1> HIDE DEF m, m2, n
<1>4. \A c \in Client, f \in Filter : m2[c][f] = n[c][f]
  <2> TAKE c \in Client, f \in Filter
  <2>1. CASE c = r.client /\ f = r.filter
    BY <1>1, <1>a, <1>b, <1>3, <1>f, <2>1
  <2>2. CASE ~(c = r.client /\ f = r.filter)
    <3>1. ASSUME NEW j \in SubIdx, sb[j] # None, sb[j].client = c, sb[j].filter = f
          PROVE  m2[c][f] = m[c][f]
      <4>1. j # i
        BY <1>f, <2>2, <3>1
      <4> QED
        BY <1>1, <1>a, <1>b, <1>f, <3>1, <4>1
    <3>2. ASSUME ~ \E j \in SubIdx : sb[j] # None /\ sb[j].client = c /\ sb[j].filter = f
          PROVE  m2[c][f] = m[c][f]
      <4>1. m[c][f] = None
        BY <1>a, <1>b, <3>2
      <4>2. m2[c][f] = None
        BY <1>1, <1>a, <1>b, <2>2, <3>2
      <4> QED
        BY <4>1, <4>2
    <3> QED
      BY <1>3, <2>2, <3>1, <3>2
  <2> QED
    BY <2>1, <2>2
<1>5. \A c \in Client : m2[c] = n[c]
  BY <1>a, <1>b, <1>3, <1>4
<1>6. m2 = n
  BY <1>a, <1>b, <1>3, <1>5
<1> QED
  BY <1>6 DEF m, m2, n, SetAt

(* Freeing an entry clears it. *)
LEMMA MapClear ==
    ASSUME NEW sb, SubsOK(sb), NEW i \in SubIdx, sb[i] # None,
           NEW sb2, sb2 = [sb EXCEPT ![i] = None], SubsOK(sb2)
    PROVE  MapOf(sb2) = [MapOf(sb) EXCEPT ![sb[i].client][sb[i].filter] = None]
<1> DEFINE m == MapOf(sb)
           m2 == MapOf(sb2)
           x == sb[i].client
           y == sb[i].filter
           n == [m EXCEPT ![x][y] = None]
<1>1. /\ sb2[i] = None /\ x \in Client /\ y \in Filter
      /\ \A j \in SubIdx : j # i => sb2[j] = sb[j]
      /\ \A j \in SubIdx : sb[j] # None /\ sb[j].client = x /\ sb[j].filter = y => j = i
  BY InUse DEF SubsOK
<1>a. /\ m \in [Client -> [Filter -> QoS \cup {None}]]
      /\ \A j \in SubIdx : sb[j] # None => m[sb[j].client][sb[j].filter] = sb[j].qos
      /\ \A c \in Client, f \in Filter : m[c][f] # None =>
           \E j \in SubIdx : sb[j] # None /\ sb[j].client = c /\ sb[j].filter = f
  BY MapIs DEF Represents
<1>b. /\ m2 \in [Client -> [Filter -> QoS \cup {None}]]
      /\ \A j \in SubIdx : sb2[j] # None => m2[sb2[j].client][sb2[j].filter] = sb2[j].qos
      /\ \A c \in Client, f \in Filter : m2[c][f] # None =>
           \E j \in SubIdx : sb2[j] # None /\ sb2[j].client = c /\ sb2[j].filter = f
  <2>1. Represents(m2, sb2)
    BY MapIs, Zenon
  <2> QED
    BY <2>1, Zenon DEF Represents
<1>3. /\ n \in [Client -> [Filter -> QoS \cup {None}]]
      /\ \A c \in Client, f \in Filter :
           n[c][f] = IF c = x /\ f = y THEN None ELSE m[c][f]
  BY <1>1, <1>a, <1>b
<1>x. sb[i].client = x /\ sb[i].filter = y
  OBVIOUS
<1> HIDE DEF m, m2, n, x, y
<1>4. \A c \in Client, f \in Filter : m2[c][f] = n[c][f]
  <2> TAKE c \in Client, f \in Filter
  <2>1. CASE c = x /\ f = y
    BY <1>1, <1>a, <1>b, <1>3, <2>1
  <2>2. CASE ~(c = x /\ f = y)
    <3>1. ASSUME NEW j \in SubIdx, sb[j] # None, sb[j].client = c, sb[j].filter = f
          PROVE  m2[c][f] = m[c][f]
      <4>1. j # i
        BY <2>2, <3>1, <1>x
      <4> QED
        BY <1>1, <1>a, <1>b, <3>1, <4>1
    <3>2. ASSUME ~ \E j \in SubIdx : sb[j] # None /\ sb[j].client = c /\ sb[j].filter = f
          PROVE  m2[c][f] = m[c][f]
      BY <1>1, <1>a, <1>b, <3>2
    <3> QED
      BY <1>3, <2>2, <3>1, <3>2
  <2> QED
    BY <2>1, <2>2
<1>5. \A c \in Client : m2[c] = n[c]
  BY <1>a, <1>b, <1>3, <1>4
<1>6. m2 = n
  BY <1>a, <1>b, <1>3, <1>5
<1> QED
  BY <1>6 DEF m, m2, n, x, y

(* As many subscriptions as entries in use. *)
LEMMA Counted ==
    ASSUME NEW sb, SubsOK(sb)
    PROVE  LET K == {k \in Client \X Filter : MapOf(sb)[k[1]][k[2]] # None} IN
           /\ Cardinality(K) \in Nat
           /\ (\E i \in SubIdx : sb[i] = None) => Cardinality(K) < TOPIC_MAX_SUBS
           /\ (\A i \in SubIdx : sb[i] # None) => Cardinality(K) = TOPIC_MAX_SUBS
<1> DEFINE K == {k \in Client \X Filter : MapOf(sb)[k[1]][k[2]] # None}
           U == {i \in SubIdx : sb[i] # None}
           g == [i \in U |-> <<sb[i].client, sb[i].filter>>]
<1>1. IsFiniteSet(SubIdx) /\ Cardinality(SubIdx) = TOPIC_MAX_SUBS
  <2>1. TOPIC_MAX_SUBS \in Nat \ {0}
    BY TableAssumption
  <2>2. PICK last \in Nat : last = TOPIC_MAX_SUBS - 1
    BY <2>1
  <2>3. IsFiniteSet(0 .. last) /\ Cardinality(0 .. last) = IF 0 > last THEN 0 ELSE last - 0 + 1
    BY FS_Interval
  <2> QED
    BY <2>1, <2>2, <2>3 DEF SubIdx
<1>2. /\ IsFiniteSet(U) /\ Cardinality(U) <= TOPIC_MAX_SUBS
      /\ Cardinality(U) = TOPIC_MAX_SUBS => U = SubIdx
  <2>1. U \in SUBSET SubIdx
    OBVIOUS
  <2> HIDE DEF U
  <2> QED
    BY <1>1, <2>1, FS_Subset, Zenon
<1>3. /\ \A i \in SubIdx : sb[i] # None => /\ sb[i].client \in Client /\ sb[i].filter \in Filter
                                           /\ sb[i].qos \in QoS
      /\ \A i \in SubIdx : sb[i] # None => MapOf(sb)[sb[i].client][sb[i].filter] = sb[i].qos
      /\ \A c \in Client, f \in Filter : MapOf(sb)[c][f] # None =>
           \E i \in SubIdx : sb[i] # None /\ sb[i].client = c /\ sb[i].filter = f
      /\ None \notin QoS
  BY MapIs, InUse, Constants DEF Represents
<1>4. g \in [U -> K]
  <2>1. \A i \in U : <<sb[i].client, sb[i].filter>> \in K
    BY <1>3
  <2> HIDE DEF U, K
  <2> QED
    BY <2>1
<1>5. g \in Injection(U, K)
  <2>1. \A i, j \in U : g[i] = g[j] => i = j
    BY DEF SubsOK
  <2> QED
    BY <1>4, <2>1 DEF Injection, IsInjective
<1>6. g \in Surjection(U, K)
  <2>1. \A k \in K : \E i \in U : g[i] = k
    <3> TAKE k \in K
    <3>1. PICK i \in SubIdx : sb[i] # None /\ sb[i].client = k[1] /\ sb[i].filter = k[2]
      BY <1>3
    <3>2. k = <<k[1], k[2]>>
      OBVIOUS
    <3> QED
      BY <3>1, <3>2
  <2> QED
    BY <1>4, <2>1 DEF Surjection
<1>7. Cardinality(K) = Cardinality(U)
  <2> HIDE DEF g, U, K
  <2>1. ExistsBijection(U, K)
    BY <1>5, <1>6 DEF ExistsBijection, Bijection
  <2> QED
    BY <1>2, <2>1, FS_Bijection
<1>8. Cardinality(U) \in Nat
  BY <1>2, FS_CardinalityType
<1>9. (\E i \in SubIdx : sb[i] = None) => U # SubIdx
  OBVIOUS
<1>10. (\A i \in SubIdx : sb[i] # None) => U = SubIdx
  OBVIOUS
<1> HIDE DEF U, K
<1> QED
  BY <1>1, <1>2, <1>7, <1>8, <1>9, <1>10, TableAssumption DEF K

----------------------------------------------------------------------------
(* The map of retained messages. *)

Message == [payload : Payload, qos : QoS]

RetainOf(rs, t) == First({r \in RetIdx : rs[r] # None /\ rs[r].topic = t})

RMapOf(rs) ==
    [t \in Topic |-> IF RetainOf(rs, t) = None THEN None
                     ELSE [payload |-> rs[RetainOf(rs, t)].payload,
                           qos |-> rs[RetainOf(rs, t)].qos]]

LEMMA RMapsAre ==
    /\ RetainMap = RMapOf(RetainStore)
    /\ RetainMap' = RMapOf(RetainStore')
  BY DEF RetainMap, RMapOf, RetainEntry, RetainOf

(* The map m has the message of the entry of a topic. *)
Holds(m, rs) ==
    /\ m \in [Topic -> Message \cup {None}]
    /\ \A r \in RetIdx : rs[r] # None =>
         m[rs[r].topic] = [payload |-> rs[r].payload, qos |-> rs[r].qos]
    /\ \A t \in Topic : m[t] # None => \E r \in RetIdx : rs[r] # None /\ rs[r].topic = t

LEMMA RMapIs == ASSUME NEW rs, RetsOK(rs) PROVE Holds(RMapOf(rs), rs)
<1>0. \A r \in RetIdx : rs[r] # None =>
        /\ rs[r].topic \in Topic
        /\ [payload |-> rs[r].payload, qos |-> rs[r].qos] \in Message
  BY DEF RetsOK, Ret, Message
<1>1. ASSUME NEW t \in Topic
      PROVE  /\ RetainOf(rs, t) # None =>
                  /\ RetainOf(rs, t) \in RetIdx /\ rs[RetainOf(rs, t)] # None
                  /\ rs[RetainOf(rs, t)].topic = t
             /\ RetainOf(rs, t) = None =>
                  \A r \in RetIdx : ~(rs[r] # None /\ rs[r].topic = t)
  <2> DEFINE I == {r \in RetIdx : rs[r] # None /\ rs[r].topic = t}
  <2>1. RetainOf(rs, t) = First(I) /\ I \subseteq Nat
    BY Constants DEF RetainOf
  <2>2. IF I = {} THEN First(I) = None ELSE First(I) \in I
    BY <2>1, FirstFound, FirstEmpty
  <2> QED
    BY <2>1, <2>2, Constants
<1>2. ASSUME NEW t \in Topic
      PROVE  RMapOf(rs)[t] = IF RetainOf(rs, t) = None THEN None
                             ELSE [payload |-> rs[RetainOf(rs, t)].payload,
                                   qos |-> rs[RetainOf(rs, t)].qos]
  BY DEF RMapOf
<1>3. RMapOf(rs) \in [Topic -> Message \cup {None}]
  <2>1. \A t \in Topic : RMapOf(rs)[t] \in Message \cup {None}
    <3> TAKE t \in Topic
    <3>1. CASE RetainOf(rs, t) = None
      BY <1>2, <3>1
    <3>2. CASE RetainOf(rs, t) # None
      BY <1>0, <1>1, <1>2, <3>2
    <3> QED
      BY <3>1, <3>2
  <2> QED
    BY <2>1 DEF RMapOf
<1>4. ASSUME NEW r \in RetIdx, rs[r] # None
      PROVE  RMapOf(rs)[rs[r].topic] = [payload |-> rs[r].payload, qos |-> rs[r].qos]
  <2>1. rs[r].topic \in Topic
    BY <1>0, <1>4
  <2>2. RetainOf(rs, rs[r].topic) # None
    BY <1>1, <1>4, <2>1
  <2>3. RetainOf(rs, rs[r].topic) = r
    BY <1>1, <1>4, <2>1, <2>2 DEF RetsOK
  <2> QED
    BY <1>2, <2>1, <2>2, <2>3
<1>5. ASSUME NEW t \in Topic, RMapOf(rs)[t] # None
      PROVE  \E r \in RetIdx : rs[r] # None /\ rs[r].topic = t
  BY <1>1, <1>2, <1>5
<1> QED
  BY <1>3, <1>4, <1>5 DEF Holds

(* As many retained messages as entries in use. *)
LEMMA RCounted ==
    ASSUME NEW rs, RetsOK(rs)
    PROVE  LET K == {t \in Topic : RMapOf(rs)[t] # None} IN
           /\ Cardinality(K) \in Nat
           /\ (\E r \in RetIdx : rs[r] = None) => Cardinality(K) < TOPIC_RETAIN_MAX
           /\ (\A r \in RetIdx : rs[r] # None) => Cardinality(K) = TOPIC_RETAIN_MAX
<1> DEFINE K == {t \in Topic : RMapOf(rs)[t] # None}
           U == {r \in RetIdx : rs[r] # None}
           g == [r \in U |-> rs[r].topic]
<1>1. IsFiniteSet(RetIdx) /\ Cardinality(RetIdx) = TOPIC_RETAIN_MAX
  <2>1. TOPIC_RETAIN_MAX \in Nat \ {0}
    BY TableAssumption
  <2>2. PICK last \in Nat : last = TOPIC_RETAIN_MAX - 1
    BY <2>1
  <2>3. IsFiniteSet(0 .. last) /\ Cardinality(0 .. last) = IF 0 > last THEN 0 ELSE last - 0 + 1
    BY FS_Interval
  <2> QED
    BY <2>1, <2>2, <2>3 DEF RetIdx
<1>2. /\ IsFiniteSet(U) /\ Cardinality(U) <= TOPIC_RETAIN_MAX
      /\ Cardinality(U) = TOPIC_RETAIN_MAX => U = RetIdx
  <2>1. U \in SUBSET RetIdx
    OBVIOUS
  <2> HIDE DEF U
  <2> QED
    BY <1>1, <2>1, FS_Subset, Zenon
<1>3. /\ \A r \in RetIdx : rs[r] # None => rs[r].topic \in Topic /\ RMapOf(rs)[rs[r].topic] # None
      /\ \A t \in Topic : RMapOf(rs)[t] # None =>
           \E r \in RetIdx : rs[r] # None /\ rs[r].topic = t
  <2>1. Holds(RMapOf(rs), rs)
    BY RMapIs
  <2>2. \A r \in RetIdx : rs[r] # None =>
          /\ rs[r].topic \in Topic
          /\ [payload |-> rs[r].payload, qos |-> rs[r].qos] \in Message
    BY DEF RetsOK, Ret, Message
  <2>3. None \notin Message
    BY TableAssumption DEF Message
  <2>4. \A r \in RetIdx : rs[r] # None => rs[r].topic \in Topic /\ RMapOf(rs)[rs[r].topic] # None
    <3> SUFFICES ASSUME NEW r \in RetIdx, rs[r] # None
                 PROVE  rs[r].topic \in Topic /\ RMapOf(rs)[rs[r].topic] # None
      OBVIOUS
    <3> PICK m, e : m = RMapOf(rs) /\ e = [payload |-> rs[r].payload, qos |-> rs[r].qos]
      OBVIOUS
    <3>1. m[rs[r].topic] = e
      BY <2>1 DEF Holds
    <3>2. rs[r].topic \in Topic /\ e \in Message
      BY <2>2
    <3>3. e # None
      BY <2>3, <3>2
    <3> QED
      BY <3>1, <3>2, <3>3
  <2>5. \A t \in Topic : RMapOf(rs)[t] # None => \E r \in RetIdx : rs[r] # None /\ rs[r].topic = t
    BY <2>1 DEF Holds
  <2> QED
    BY <2>4, <2>5
<1>4. g \in [U -> K]
  <2>1. \A r \in U : rs[r].topic \in K
    BY <1>3
  <2> HIDE DEF U, K
  <2> QED
    BY <2>1
<1>5. g \in Injection(U, K)
  <2>1. \A i, j \in U : g[i] = g[j] => i = j
    BY DEF RetsOK
  <2> QED
    BY <1>4, <2>1 DEF Injection, IsInjective
<1>6. g \in Surjection(U, K)
  <2>1. \A k \in K : \E i \in U : g[i] = k
    BY <1>3
  <2> QED
    BY <1>4, <2>1 DEF Surjection
<1>7. Cardinality(K) = Cardinality(U)
  <2> HIDE DEF g, U, K
  <2>1. ExistsBijection(U, K)
    BY <1>5, <1>6 DEF ExistsBijection, Bijection
  <2> QED
    BY <1>2, <2>1, FS_Bijection
<1>8. Cardinality(U) \in Nat
  BY <1>2, FS_CardinalityType
<1>9. (\E r \in RetIdx : rs[r] = None) => U # RetIdx
  OBVIOUS
<1>10. (\A r \in RetIdx : rs[r] # None) => U = RetIdx
  OBVIOUS
<1> HIDE DEF U, K
<1> QED
  BY <1>1, <1>2, <1>7, <1>8, <1>9, <1>10, TableAssumption DEF K

(* Two stores that differ in the entry of one topic. *)
LEMMA RMapSet ==
    ASSUME NEW rs, RetsOK(rs), NEW rs2, RetsOK(rs2), NEW t \in Topic,
           \A r \in RetIdx : rs[r] # None /\ rs[r].topic # t => rs2[r] = rs[r],
           \A r \in RetIdx : rs2[r] # None /\ rs2[r].topic # t => rs2[r] = rs[r]
    PROVE  RMapOf(rs2) = [RMapOf(rs) EXCEPT ![t] = RMapOf(rs2)[t]]
<1> DEFINE m == RMapOf(rs)
           m2 == RMapOf(rs2)
<1>1. Holds(m, rs) /\ Holds(m2, rs2)
  BY RMapIs, Zenon
<1> HIDE DEF m, m2
<1>2. /\ m \in [Topic -> Message \cup {None}]
      /\ \A r \in RetIdx : rs[r] # None =>
           m[rs[r].topic] = [payload |-> rs[r].payload, qos |-> rs[r].qos]
      /\ \A u \in Topic : m[u] # None => \E r \in RetIdx : rs[r] # None /\ rs[r].topic = u
  BY <1>1 DEF Holds
<1>3. /\ m2 \in [Topic -> Message \cup {None}]
      /\ \A r \in RetIdx : rs2[r] # None =>
           m2[rs2[r].topic] = [payload |-> rs2[r].payload, qos |-> rs2[r].qos]
      /\ \A u \in Topic : m2[u] # None => \E r \in RetIdx : rs2[r] # None /\ rs2[r].topic = u
  BY <1>1 DEF Holds
<1>4. ASSUME NEW u \in Topic, u # t PROVE m2[u] = m[u]
  <2>1. CASE m[u] # None
    <3>1. PICK r \in RetIdx : rs[r] # None /\ rs[r].topic = u
      BY <1>2, <2>1
    <3>2. rs2[r] = rs[r]
      BY <1>4, <3>1
    <3>3. rs[r] # None /\ rs2[r] # None /\ rs[r].topic = u /\ rs2[r].topic = u
      BY <3>1, <3>2
    <3>4. m[u] = [payload |-> rs[r].payload, qos |-> rs[r].qos]
      BY <1>2, <3>3
    <3>5. m2[u] = [payload |-> rs2[r].payload, qos |-> rs2[r].qos]
      BY <1>3, <3>3
    <3> QED
      BY <3>2, <3>4, <3>5
  <2>2. CASE m[u] = None /\ m2[u] # None
    <3>1. PICK r \in RetIdx : rs2[r] # None /\ rs2[r].topic = u
      BY <1>3, <2>2
    <3>2. rs2[r] = rs[r]
      BY <1>4, <3>1
    <3>3. rs[r] # None /\ rs2[r] # None /\ rs[r].topic = u /\ rs2[r].topic = u
      BY <3>1, <3>2
    <3>4. m[u] = [payload |-> rs[r].payload, qos |-> rs[r].qos]
      BY <1>2, <3>3
    <3>5. m2[u] = [payload |-> rs2[r].payload, qos |-> rs2[r].qos]
      BY <1>3, <3>3
    <3> QED
      BY <3>2, <3>4, <3>5
  <2>3. CASE m[u] = None /\ m2[u] = None
    BY <2>3
  <2> QED
    BY <2>1, <2>2, <2>3
<1>5. m2 = [m EXCEPT ![t] = m2[t]]
  BY <1>2, <1>3, <1>4
<1> QED
  BY <1>5 DEF m, m2

----------------------------------------------------------------------------
(* Deliveries. *)

Applies(f, t) == f = t \/ <<f, t>> \in Match

(* The steps of a publish visit entries in use whose filter matches, and   *)
(* all of them.                                                            *)
LEMMA HitIs ==
    ASSUME TInv, NEW t \in Topic
    PROVE  /\ \A n \in Steps : Hit(t, n) => /\ Visit(t, n) \in SubIdx
                                            /\ subs[Visit(t, n)] # None
                                            /\ Applies(subs[Visit(t, n)].filter, t)
           /\ \A i \in SubIdx : subs[i] # None /\ Applies(subs[i].filter, t) =>
                \E n \in Steps : Hit(t, n) /\ Visit(t, n) = i
<1> DEFINE N == TOPIC_MAX_SUBS
           b == Bucket[t]
           xw == Walk(exact_heads[b], exact_next)
           ww == Walk(wildcard_head, wildcard_next)
<1>1. /\ SubsOK(subs) /\ exact_next \in [SubIdx -> Link] /\ exact_heads \in [SubIdx -> Link]
      /\ wildcard_next \in [SubIdx -> Link] /\ wildcard_head \in Link
      /\ \A c \in SubIdx : Listed(exact_heads[c], exact_next, InChain(subs)[c])
      /\ Listed(wildcard_head, wildcard_next, InWild(subs))
  BY DEF TInv, LinksOK
<1>2. N \in Nat \ {0} /\ SubIdx = 0 .. N - 1 /\ Steps = 0 .. 2 * N - 1 /\ b \in SubIdx
  BY TableAssumption DEF SubIdx, Steps
<1>3. xw \in [0 .. N -> Link] /\ ww \in [0 .. N -> Link]
  BY <1>1, <1>2, WalkIs
<1>4. {xw[n] : n \in SubIdx} \ {None} = InChain(subs)[b]
  <2>1. InChain(subs)[b] \in SUBSET SubIdx
    BY <1>2 DEF InChain
  <2>2. OnList(exact_heads[b], exact_next) = InChain(subs)[b]
    BY <1>1, <1>2, <2>1, PathWalk
  <2> QED
    BY <2>2 DEF OnList
<1>5. {ww[n] : n \in SubIdx} \ {None} = InWild(subs)
  <2>1. InWild(subs) \in SUBSET SubIdx
    BY DEF InWild
  <2>2. OnList(wildcard_head, wildcard_next) = InWild(subs)
    BY <1>1, <2>1, PathWalk
  <2> QED
    BY <2>2 DEF OnList
<1>6. \A n \in Steps : Visit(t, n) = IF n < N THEN xw[n] ELSE ww[n - N]
  BY DEF Visit
<1> HIDE DEF xw, ww
<1>7. ASSUME NEW n \in Steps, Hit(t, n)
      PROVE  /\ Visit(t, n) \in SubIdx /\ subs[Visit(t, n)] # None
             /\ Applies(subs[Visit(t, n)].filter, t)
  <2>1. /\ Visit(t, n) # None /\ subs[Visit(t, n)] # None
        /\ Applies(subs[Visit(t, n)].filter, t)
    BY <1>7 DEF Hit, Applies
  <2>2. Visit(t, n) \in Link
    <3>1. CASE n < N
      BY <1>2, <1>3, <1>6, <3>1
    <3>2. CASE ~(n < N)
      <4>1. n - N \in 0 .. N
        BY <1>2, <3>2
      <4> QED
        BY <1>3, <1>6, <3>2, <4>1
    <3> QED
      BY <3>1, <3>2
  <2> QED
    BY <2>1, <2>2 DEF Link
<1>8. ASSUME NEW i \in SubIdx, subs[i] # None, Applies(subs[i].filter, t)
      PROVE  \E n \in Steps : Hit(t, n) /\ Visit(t, n) = i
  <2>0. i # None /\ subs[i].filter \in Filter
    BY <1>1, <1>8, InUse, Constants
  <2>1. CASE subs[i].filter = t
    <3>1. i \in InChain(subs)[b]
      BY <1>2, <1>8, <2>1 DEF InChain
    <3>2. PICK n \in SubIdx : xw[n] = i
      BY <1>4, <3>1
    <3>3. n \in Steps /\ n < N
      BY <1>2
    <3>4. Visit(t, n) = i
      BY <1>6, <3>2, <3>3
    <3>5. Hit(t, n)
      BY <1>8, <2>0, <2>1, <3>3, <3>4 DEF Hit
    <3> QED
      BY <3>3, <3>4, <3>5
  <2>2. CASE <<subs[i].filter, t>> \in Match
    <3>1. i \in InWild(subs)
      BY <1>8, <2>2, TableAssumption DEF InWild
    <3>2. PICK n \in SubIdx : ww[n] = i
      BY <1>5, <3>1
    <3>3. n + N \in Steps /\ ~(n + N < N) /\ (n + N) - N = n
      BY <1>2
    <3>4. Visit(t, n + N) = i
      BY <1>6, <3>2, <3>3
    <3>5. Hit(t, n + N)
      BY <1>8, <2>0, <2>2, <3>3, <3>4 DEF Hit
    <3> QED
      BY <3>3, <3>4, <3>5
  <2> QED
    BY <1>8, <2>1, <2>2 DEF Applies
<1> QED
  BY <1>7, <1>8

(* Each client with a matching entry is served in one step. *)
LEMMA TargetsAre ==
    ASSUME TInv, NEW t \in Topic
    PROVE  /\ \A n \in Targets(t) : n \in Steps /\ Hit(t, n)
           /\ \A m, n \in Targets(t) :
                subs[Visit(t, m)].client = subs[Visit(t, n)].client => m = n
           /\ \A i \in SubIdx : subs[i] # None /\ Applies(subs[i].filter, t) =>
                \E n \in Targets(t) : subs[Visit(t, n)].client = subs[i].client
<1>0. Steps \subseteq Nat /\ \A n \in Steps : \A k \in 0 .. n - 1 : k \in Steps
  BY TableAssumption DEF Steps
<1>1. \A n \in Targets(t) : n \in Steps /\ Hit(t, n)
  BY DEF Targets
<1>2. \A n \in Targets(t) : \A k \in 0 .. n - 1 :
         Hit(t, k) => subs[Visit(t, k)].client # subs[Visit(t, n)].client
  BY DEF Targets
<1>3. ASSUME NEW m \in Targets(t), NEW n \in Targets(t),
             subs[Visit(t, m)].client = subs[Visit(t, n)].client
      PROVE  m = n
  <2>1. m \in Nat /\ n \in Nat /\ Hit(t, m) /\ Hit(t, n)
    BY <1>0, <1>1
  <2>2. CASE m < n
    <3>1. m \in 0 .. n - 1
      BY <2>1, <2>2
    <3> QED
      BY <1>2, <1>3, <2>1, <3>1
  <2>3. CASE n < m
    <3>1. n \in 0 .. m - 1
      BY <2>1, <2>3
    <3> QED
      BY <1>2, <1>3, <2>1, <3>1
  <2> QED
    BY <2>1, <2>2, <2>3
<1>4. ASSUME NEW i \in SubIdx, subs[i] # None, Applies(subs[i].filter, t)
      PROVE  \E n \in Targets(t) : subs[Visit(t, n)].client = subs[i].client
  <2> DEFINE I == {n \in Steps : Hit(t, n) /\ subs[Visit(t, n)].client = subs[i].client}
             n == First(I)
  <2>1. I # {} /\ I \subseteq Nat
    BY <1>0, <1>4, HitIs
  <2>2. n \in I /\ \A k \in I : n <= k
    BY <2>1, FirstFound
  <2> HIDE DEF n
  <2>3. \A k \in 0 .. n - 1 : Hit(t, k) => subs[Visit(t, k)].client # subs[i].client
    <3> SUFFICES ASSUME NEW k \in 0 .. n - 1, Hit(t, k),
                        subs[Visit(t, k)].client = subs[i].client
                 PROVE  FALSE
      OBVIOUS
    <3>1. k \in I
      BY <1>0, <2>2
    <3> QED
      BY <1>0, <2>1, <2>2, <3>1
  <2>4. n \in Targets(t)
    BY <2>2, <2>3 DEF Targets
  <2> QED
    BY <2>2, <2>4
<1> QED
  BY <1>1, <1>3, <1>4

(* topic_publish sends one message to every client with a matching         *)
(* subscription, and to no other.                                          *)
LEMMA FanoutHolds ==
    ASSUME TInv, NEW t \in Topic, NEW q, NEW pl
    PROVE  Abs!Fanout(t, q, pl, Messages(t, q, pl))
<1> DEFINE sent == Messages(t, q, pl)
           map == MapOf(subs)
           hits(c) == {f \in Filter : Abs!Covers(f, t) /\ map[c][f] # None}
<1>1. SubsOK(subs)
  BY DEF TInv
<1>2. Represents(map, subs) /\ map = SubMap
  BY <1>1, MapIs, MapsAre
<1> HIDE DEF map
<1>3. /\ \A i \in SubIdx : subs[i] # None =>
           /\ subs[i].client \in Client /\ subs[i].filter \in Filter /\ subs[i].qos \in QoS
           /\ map[subs[i].client][subs[i].filter] = subs[i].qos
           /\ map[subs[i].client][subs[i].filter] # None
      /\ \A c \in Client, f \in Filter : map[c][f] # None =>
           \E i \in SubIdx : subs[i] # None /\ subs[i].client = c /\ subs[i].filter = f
  BY <1>1, <1>2, InUse, Constants DEF Represents
<1>4. /\ DOMAIN sent = Targets(t)
      /\ \A n \in Targets(t) :
           /\ sent[n].client = subs[Visit(t, n)].client
           /\ sent[n].topic = t /\ sent[n].payload = pl /\ sent[n].retain = FALSE
           /\ sent[n].qos = Lower(q, subs[Visit(t, n)].qos)
  BY DEF Messages
<1> HIDE DEF sent
<1>5. \A n \in Targets(t) : /\ Visit(t, n) \in SubIdx /\ subs[Visit(t, n)] # None
                            /\ Applies(subs[Visit(t, n)].filter, t)
  BY HitIs, TargetsAre
<1>6. \A f : Abs!Covers(f, t) <=> Applies(f, t)
  BY DEF Abs!Covers, Applies
<1>7. \A n \in Targets(t) :
        /\ sent[n].client \in Client
        /\ subs[Visit(t, n)].filter \in hits(sent[n].client)
        /\ map[sent[n].client][subs[Visit(t, n)].filter] = subs[Visit(t, n)].qos
  BY <1>3, <1>4, <1>5, <1>6
<1>8. \A c \in Client : hits(c) # {} => \E n \in Targets(t) : sent[n].client = c
  <2> SUFFICES ASSUME NEW c \in Client, NEW f \in hits(c)
               PROVE  \E n \in Targets(t) : sent[n].client = c
    OBVIOUS
  <2>1. PICK i \in SubIdx : subs[i] # None /\ subs[i].client = c /\ subs[i].filter = f
    BY <1>3
  <2>2. Applies(subs[i].filter, t)
    BY <1>6, <2>1
  <2> QED
    BY <1>4, <2>1, <2>2, TargetsAre
<1>9. {sent[n].client : n \in DOMAIN sent} = {c \in Client : hits(c) # {}}
  BY <1>4, <1>7, <1>8
<1>10. \A m, n \in DOMAIN sent : sent[m].client = sent[n].client => m = n
  BY <1>4, TargetsAre
<1>11. \A n \in DOMAIN sent :
         /\ sent[n].topic = t /\ sent[n].payload = pl /\ ~sent[n].retain
         /\ \E f \in hits(sent[n].client) : sent[n].qos = Abs!Lower(q, map[sent[n].client][f])
  BY <1>4, <1>7 DEF Lower, Abs!Lower
<1> QED
  BY <1>2, <1>9, <1>10, <1>11 DEF Abs!Fanout, Abs!Filter, Filter, sent

----------------------------------------------------------------------------
(* Each step of the table is a step of the map, or leaves it alone. *)

LEMMA SameCardinality == \A S : Abs!Cardinality(S) = Cardinality(S)
  BY DEF Abs!Cardinality, Cardinality

LEMMA SubscribeMaps ==
    ASSUME TInv, TInv', NEW c \in Client, NEW f \in Filter, NEW q \in QoS, Subscribe(c, f, q)
    PROVE  Abs!Refuse(c, f) \/ Abs!Subscribe(c, f, q)
<1> DEFINE i == SlotFor(c, f)
           r == [client |-> c, filter |-> f, qos |-> q]
           F == {k \in SubIdx : subs[k] = None}
           K == {k \in Client \X Filter : MapOf(subs)[k[1]][k[2]] # None}
<1>1. SubsOK(subs) /\ SubsOK(subs')
  BY DEF TInv
<1>2. RetainMap' = RetainMap
  <2>1. RetainStore' = RetainStore
    BY DEF Subscribe, RetainStore
  <2> QED
    BY <2>1, RMapsAre
<1>3. IF F = {} THEN First(F) = None ELSE First(F) \in F
  BY Constants, FirstFound, FirstEmpty
<1>4. i = IF Entry(c, f) # None THEN Entry(c, f) ELSE First(F)
  BY DEF SlotFor
<1>5. /\ Cardinality(K) \in Nat
      /\ (\E k \in SubIdx : subs[k] = None) => Cardinality(K) < TOPIC_MAX_SUBS
      /\ (\A k \in SubIdx : subs[k] # None) => Cardinality(K) = TOPIC_MAX_SUBS
  BY <1>1, Counted
<1>6. Abs!Subscriptions = K
  BY MapsAre DEF Abs!Subscriptions, Abs!Filter, Filter
<1>7. Represents(MapOf(subs), subs)
  BY <1>1, MapIs
<1>8. CASE i = None
  <2>1. Entry(c, f) = None /\ F = {}
    BY <1>3, <1>4, <1>8, Constants
  <2>2. Cardinality(K) = TOPIC_MAX_SUBS
    BY <1>5, <2>1
  <2>3. SubMap[c][f] = None
    BY <1>1, <1>7, <2>1, EntryIs, MapsAre DEF Represents
  <2>4. subs' = subs /\ Did("refuse", <<>>)
    BY <1>8 DEF Subscribe, table
  <2>5. SubMap' = SubMap
    BY <2>4, MapsAre
  <2> HIDE DEF K
  <2> QED
    BY <1>2, <1>6, <2>2, <2>3, <2>4, <2>5, SameCardinality DEF Abs!Refuse, Abs!Did, Did
<1>9. CASE i # None
  <2>1. subs' = [subs EXCEPT ![i] = r] /\ Did("subscribe", <<>>)
    BY <1>9 DEF Subscribe
  <2>2. /\ i \in SubIdx
        /\ subs[i] = None \/ (subs[i].client = c /\ subs[i].filter = f)
        /\ \A j \in SubIdx : subs[j] # None /\ subs[j].client = c /\ subs[j].filter = f => j = i
    BY <1>1, <1>3, <1>4, <1>9, EntryIs DEF SubsOK
  <2>3. r \in Sub /\ r.client = c /\ r.filter = f /\ r.qos = q
    BY DEF Sub
  <2>4. SubMap[c][f] # None \/ Cardinality(K) < TOPIC_MAX_SUBS
    <3>1. CASE Entry(c, f) # None
      <4>1. SubMap[c][f] = subs[Entry(c, f)].qos /\ subs[Entry(c, f)].qos \in QoS
        BY <1>1, <1>7, <3>1, EntryIs, MapsAre, InUse DEF Represents
      <4> QED
        BY <4>1, Constants
    <3>2. CASE Entry(c, f) = None
      BY <1>3, <1>4, <1>5, <1>9, <3>2
    <3> QED
      BY <3>1, <3>2
  <2>5. MapOf(subs') = [MapOf(subs) EXCEPT ![c][f] = q]
    <3> HIDE DEF r, i
    <3>0. Fits(subs, i, r) /\ r \in Sub /\ i \in SubIdx /\ subs' = [subs EXCEPT ![i] = r]
      BY <2>1, <2>2, <2>3 DEF Fits
    <3>1. MapOf(subs') = SetAt(MapOf(subs), r.client, r.filter, r.qos)
      BY <1>1, <3>0, MapSet
    <3> QED
      BY <2>3, <3>1 DEF SetAt
  <2>6. SubMap' = [SubMap EXCEPT ![c][f] = q]
    BY <2>5, MapsAre
  <2>7. Did("subscribe", <<>>)
    BY <2>1
  <2> HIDE DEF K
  <2> QED
    BY <1>2, <1>6, <2>4, <2>6, <2>7, SameCardinality DEF Abs!Subscribe, Abs!Did, Did
<1> QED
  BY <1>8, <1>9

(* Dropping an entry takes its filter from its client. *)
LEMMA DropMaps ==
    ASSUME TInv, TInv', NEW i \in SubIdx, subs[i] # None, Drop(i), UNCHANGED retains,
           Did("unsubscribe", <<>>)
    PROVE  Abs!Unsubscribe(subs[i].client, subs[i].filter)
<1>1. SubsOK(subs) /\ SubsOK(subs')
  BY DEF TInv
<1>2. RetainMap' = RetainMap
  <2>1. RetainStore' = RetainStore
    BY DEF RetainStore
  <2> QED
    BY <2>1, RMapsAre
<1>3. subs' = [subs EXCEPT ![i] = None]
  BY DEF Drop
<1>4. MapOf(subs') = [MapOf(subs) EXCEPT ![subs[i].client][subs[i].filter] = None]
  BY <1>1, <1>3, MapClear
<1> QED
  BY <1>2, <1>4, MapsAre DEF Abs!Unsubscribe, Abs!Did, Did

LEMMA UnsubscribeMaps ==
    ASSUME TInv, TInv', NEW c \in Client, NEW f \in Filter, Unsubscribe(c, f)
    PROVE  Abs!Unsubscribe(c, f)
<1>1. SubsOK(subs)
  BY DEF TInv
<1>2. UNCHANGED retains /\ Did("unsubscribe", <<>>)
  BY DEF Unsubscribe
<1>3. CASE Entry(c, f) # None
  <2>1. /\ Entry(c, f) \in SubIdx /\ subs[Entry(c, f)] # None /\ Drop(Entry(c, f))
        /\ subs[Entry(c, f)].client = c /\ subs[Entry(c, f)].filter = f
    BY <1>1, <1>3, EntryIs DEF Unsubscribe
  <2> QED
    BY <1>2, <2>1, DropMaps
<1>4. CASE Entry(c, f) = None
  <2>1. subs' = subs
    BY <1>4 DEF Unsubscribe, table
  <2>2. RetainMap' = RetainMap
    <3>1. RetainStore' = RetainStore
      BY <1>2 DEF RetainStore
    <3> QED
      BY <3>1, RMapsAre
  <2>3. MapOf(subs)[c][f] = None
    BY <1>1, <1>4, EntryIs, MapIs DEF Represents
  <2>4. MapOf(subs) \in [Client -> [Filter -> QoS \cup {None}]]
    BY <1>1, MapIs DEF Represents
  <2>5. SubMap' = [SubMap EXCEPT ![c][f] = None]
    <3> DEFINE m == MapOf(subs)
    <3>1. m = SubMap /\ SubMap' = m
      BY <2>1, MapsAre
    <3>2. m[c][f] = None /\ m \in [Client -> [Filter -> QoS \cup {None}]]
      BY <2>3, <2>4
    <3> HIDE DEF m
    <3>3. [m[c] EXCEPT ![f] = None] = m[c]
      BY <3>2
    <3>4. [m EXCEPT ![c] = m[c]] = m
      BY <3>2
    <3>5. [m EXCEPT ![c][f] = None] = [m EXCEPT ![c] = [m[c] EXCEPT ![f] = None]]
      OBVIOUS
    <3> QED
      BY <3>1, <3>3, <3>4, <3>5
  <2> QED
    BY <1>2, <2>2, <2>5 DEF Abs!Unsubscribe, Abs!Did, Did
<1> QED
  BY <1>3, <1>4

(* A retained publish changes the message of its topic, as long as the     *)
(* store has room for it.                                                  *)
LEMMA RetainMaps ==
    ASSUME TInv, NEW t \in Topic, NEW q \in PubQoS, NEW pl \in Payload,
           RetainStore' = Retained(t, q, pl)
    PROVE  Abs!Retain(t, q, pl)
<1> DEFINE rs == RetainStore
           rs2 == Retained(t, q, pl)
           m == RMapOf(rs)
           m2 == RMapOf(rs2)
           x == RetainSlot(t)
           msg == [topic |-> t, payload |-> pl, qos |-> q]
           K == {u \in Topic : m[u] # None}
<1>1. RetsOK(rs) /\ RetsOK(rs2)
  BY StoreOK, RetainedOK
<1>2. RetainMap = m /\ RetainMap' = m2
  BY RMapsAre
<1>3. /\ Cardinality(K) \in Nat
      /\ (\E r \in RetIdx : rs[r] = None) => Cardinality(K) < TOPIC_RETAIN_MAX
      /\ (\A r \in RetIdx : rs[r] # None) => Cardinality(K) = TOPIC_RETAIN_MAX
  BY <1>1, RCounted
<1>4. Abs!RetainedTopics = K
  BY <1>2 DEF Abs!RetainedTopics
<1>5. Holds(m, rs) /\ Holds(m2, rs2)
  BY <1>1, RMapIs, Zenon
<1>6. /\ RetainEntry(t) = None
         \/ /\ RetainEntry(t) \in RetIdx /\ rs[RetainEntry(t)] # None
            /\ rs[RetainEntry(t)].topic = t
      /\ RetainEntry(t) = None => \A r \in RetIdx : rs[r] = None \/ rs[r].topic # t
      /\ RetainEntry(t) # None => x = RetainEntry(t)
      /\ RetainEntry(t) = None => \/ x = None /\ \A r \in RetIdx : rs[r] # None
                                  \/ x \in RetIdx /\ rs[x] = None
  BY <1>1, RetainIs
<1>7. m \in [Topic -> Message \cup {None}] /\ m2 \in [Topic -> Message \cup {None}]
      /\ None \notin Message
  BY <1>5, TableAssumption DEF Holds, Message
<1>8. CASE pl = Empty
  <2>1. rs2 = [r \in RetIdx |-> IF r = RetainEntry(t) THEN None ELSE rs[r]]
    BY <1>8 DEF Retained
  <2>2. /\ \A r \in RetIdx : rs[r] # None /\ rs[r].topic # t => rs2[r] = rs[r]
        /\ \A r \in RetIdx : rs2[r] # None /\ rs2[r].topic # t => rs2[r] = rs[r]
        /\ \A r \in RetIdx : ~(rs2[r] # None /\ rs2[r].topic = t)
    <3>1. \A r \in RetIdx : rs2[r] = IF r = RetainEntry(t) THEN None ELSE rs[r]
      BY <2>1
    <3>2. \A r \in RetIdx : rs[r] # None /\ rs[r].topic = t => r = RetainEntry(t)
      BY <1>1, <1>6 DEF RetsOK
    <3> HIDE DEF rs, rs2
    <3>3. \A r \in RetIdx : rs[r] # None /\ rs[r].topic # t => r # RetainEntry(t)
      BY <1>6, Constants
    <3>4. \A r \in RetIdx : rs2[r] # None => rs2[r] = rs[r] /\ r # RetainEntry(t)
      BY <3>1
    <3> QED
      BY <3>1, <3>2, <3>3, <3>4
  <2> HIDE DEF rs2
  <2>3. m2 = [m EXCEPT ![t] = m2[t]]
    BY <1>1, <2>2, RMapSet
  <2>4. m2[t] = None
    BY <1>5, <2>2 DEF Holds
  <2> QED
    BY <1>2, <1>8, <2>3, <2>4 DEF Abs!Retain
<1>9. CASE pl # Empty
  <2>1. rs2 = [r \in RetIdx |-> IF r = x THEN msg ELSE rs[r]]
    BY <1>9 DEF Retained
  <2>2. msg \in Ret /\ msg # None /\ msg.topic = t
    BY <1>9, TableAssumption, Constants DEF Ret
  <2>e. [payload |-> msg.payload, qos |-> msg.qos] = [payload |-> pl, qos |-> q]
    OBVIOUS
  <2> HIDE DEF x, msg
  <2>3. CASE x \in RetIdx
    <3>1. /\ \A r \in RetIdx : rs[r] # None /\ rs[r].topic # t => rs2[r] = rs[r]
          /\ \A r \in RetIdx : rs2[r] # None /\ rs2[r].topic # t => rs2[r] = rs[r]
          /\ rs2[x] = msg
      <4>1. \A r \in RetIdx : rs2[r] = IF r = x THEN msg ELSE rs[r]
        BY <2>1
      <4>2. rs[x] = None \/ rs[x].topic = t
        BY <1>6, <2>3, Constants
      <4> HIDE DEF rs, rs2
      <4> QED
        BY <2>2, <2>3, <4>1, <4>2
    <3>2. m[t] # None \/ Cardinality(K) < TOPIC_RETAIN_MAX
      <4>1. CASE RetainEntry(t) # None
        <5>1. m[t] = [payload |-> rs[RetainEntry(t)].payload, qos |-> rs[RetainEntry(t)].qos]
          BY <1>5, <1>6, <4>1 DEF Holds
        <5>2. rs[RetainEntry(t)] \in Ret
          BY <1>1, <1>6, <4>1 DEF RetsOK
        <5>3. [payload |-> rs[RetainEntry(t)].payload, qos |-> rs[RetainEntry(t)].qos] \in Message
          BY <5>2 DEF Ret, Message
        <5> QED
          BY <5>1, <5>3, <1>7
      <4>2. CASE RetainEntry(t) = None
        <5>1. x \in RetIdx /\ rs[x] = None
          BY <1>6, <2>3, <4>2, Constants
        <5> QED
          BY <1>3, <5>1
      <4> QED
        BY <4>1, <4>2
    <3> HIDE DEF rs2, K, m
    <3>3. m2 = [m EXCEPT ![t] = m2[t]]
      BY <1>1, <3>1, RMapSet DEF m
    <3>4. m2[t] = [payload |-> msg.payload, qos |-> msg.qos]
      BY <1>5, <2>2, <2>3, <3>1 DEF Holds
    <3>5. m2 = [m EXCEPT ![t] = [payload |-> pl, qos |-> q]]
      BY <2>e, <3>3, <3>4
    <3>6. (IF pl = Empty THEN None
           ELSE IF m[t] # None \/ Cardinality(K) < TOPIC_RETAIN_MAX
                THEN [payload |-> pl, qos |-> q]
           ELSE m[t]) = [payload |-> pl, qos |-> q]
      BY <1>9, <3>2
    <3> HIDE DEF m2
    <3> QED
      BY <1>2, <1>4, <3>5, <3>6, SameCardinality DEF Abs!Retain
  <2>4. CASE x \notin RetIdx
    <3>1. RetainEntry(t) = None /\ \A r \in RetIdx : rs[r] # None
      BY <1>6, <2>4
    <3>2. rs2 = rs
      BY <1>1, <2>1, <2>4 DEF RetsOK
    <3>3. m[t] = None
      BY <1>5, <1>6, <3>1 DEF Holds
    <3>4. ~(Cardinality(K) < TOPIC_RETAIN_MAX)
      BY <1>3, <3>1, TableAssumption
    <3>5. m2 = m
      BY <3>2
    <3> HIDE DEF m, m2, K
    <3>6. m = [m EXCEPT ![t] = m[t]]
      BY <1>7
    <3>7. (IF pl = Empty THEN None
           ELSE IF m[t] # None \/ Cardinality(K) < TOPIC_RETAIN_MAX
                THEN [payload |-> pl, qos |-> q]
           ELSE m[t]) = m[t]
      BY <1>9, <3>3, <3>4
    <3> QED
      BY <1>2, <1>4, <3>5, <3>6, <3>7, SameCardinality DEF Abs!Retain
  <2> QED
    BY <2>3, <2>4
<1> QED
  BY <1>8, <1>9

LEMMA PublishMaps ==
    ASSUME TInv, NEW t \in Topic, NEW q \in PubQoS, NEW pl \in Payload, NEW keep \in BOOLEAN,
           Publish(t, q, pl, keep)
    PROVE  Abs!Publish(t, q, pl, keep)
<1>1. /\ retains' = IF keep THEN Retained(t, q, pl) ELSE retains
      /\ out' = [op |-> "publish", sent |-> Messages(t, q, pl)]
      /\ subs' = subs
  BY DEF Publish, Did, table
<1>2. SubMap' = SubMap
  BY <1>1, MapsAre
<1>3. CASE keep
  <2>1. RetsOK(Retained(t, q, pl))
    BY RetainedOK
  <2>2. Retained(t, q, pl) # None
    BY <2>1, Constants DEF RetsOK
  <2>3. RetainStore' = Retained(t, q, pl)
    BY <1>1, <1>3, <2>2 DEF RetainStore
  <2> QED
    BY <2>3, RetainMaps, <1>1, <1>2, <1>3, FanoutHolds DEF Abs!Publish, Abs!Did
<1>4. CASE ~keep
  <2>1. RetainStore' = RetainStore
    BY <1>1, <1>4 DEF RetainStore
  <2>2. RetainMap' = RetainMap
    BY <2>1, RMapsAre
  <2> QED
    BY <2>2, <1>1, <1>2, <1>4, FanoutHolds DEF Abs!Publish, Abs!Did
<1> QED
  BY <1>3, <1>4

(* The retained messages sent for a new subscription are the matching ones. *)
LEMMA DeliverMaps ==
    ASSUME TInv, NEW c \in Client, NEW f \in Filter, NEW q \in QoS, DeliverRetained(c, f, q)
    PROVE  Abs!DeliverRetained(c, f, q)
<1> DEFINE rs == RetainStore
           m == RMapOf(rs)
           hits == {r \in RetIdx : rs[r] # None /\ Applies(f, rs[r].topic)}
           Mail(r) == [client |-> c, topic |-> rs[r].topic, payload |-> rs[r].payload,
                       qos |-> Lower(q, rs[r].qos), retain |-> TRUE]
           sent == [r \in hits |-> Mail(r)]
           topics == {t \in Topic : m[t] # None /\ Applies(f, t)}
           Post(t) == [client |-> c, topic |-> t, payload |-> m[t].payload,
                       qos |-> Lower(q, m[t].qos), retain |-> TRUE]
<1>1. out' = [op |-> "retained", sent |-> sent]
  BY DEF DeliverRetained, Did, Applies
<1>2. subs' = subs /\ retains' = retains
  BY DEF DeliverRetained, table
<1>3. SubMap' = SubMap /\ RetainMap' = RetainMap
  <2>1. RetainStore' = RetainStore
    BY <1>2 DEF RetainStore
  <2> QED
    BY <1>2, <2>1, MapsAre, RMapsAre
<1>4. RetsOK(rs) /\ RetainMap = m
  BY StoreOK, RMapsAre
<1>5. Holds(m, rs)
  BY <1>4, RMapIs
<1>6. /\ \A r \in RetIdx : rs[r] # None =>
           /\ rs[r].topic \in Topic
           /\ m[rs[r].topic] = [payload |-> rs[r].payload, qos |-> rs[r].qos]
           /\ m[rs[r].topic] # None
      /\ \A t \in Topic : m[t] # None => \E r \in RetIdx : rs[r] # None /\ rs[r].topic = t
  <2>1. \A r \in RetIdx : rs[r] # None =>
          /\ rs[r].topic \in Topic
          /\ [payload |-> rs[r].payload, qos |-> rs[r].qos] \in Message
    BY <1>4 DEF RetsOK, Ret, Message
  <2>2. None \notin Message
    BY TableAssumption DEF Message
  <2> QED
    BY <1>5, <2>1, <2>2 DEF Holds
<1>7. DOMAIN sent = hits /\ \A r \in hits : sent[r] = Mail(r)
  OBVIOUS
<1> HIDE DEF rs, m
<1>8. \A r \in hits : rs[r].topic \in topics /\ Mail(r) = Post(rs[r].topic)
  <2> TAKE r \in hits
  <2>1. m[rs[r].topic] = [payload |-> rs[r].payload, qos |-> rs[r].qos]
        /\ rs[r].topic \in topics
    BY <1>6
  <2>2. m[rs[r].topic].payload = rs[r].payload /\ m[rs[r].topic].qos = rs[r].qos
    BY <2>1
  <2> QED
    BY <2>1, <2>2
<1>9. \A t \in topics : \E r \in hits : rs[r].topic = t
  BY <1>6
<1>10. {sent[n] : n \in DOMAIN sent} = {Post(t) : t \in topics}
  <2>1. \A r \in hits : sent[r] = Post(rs[r].topic) /\ rs[r].topic \in topics
    BY <1>7, <1>8
  <2> HIDE DEF sent, hits, topics, Post
  <2> QED
    BY <1>7, <1>9, <2>1
<1>11. \A i, j \in DOMAIN sent : sent[i].topic = sent[j].topic => i = j
  BY <1>4, <1>7 DEF RetsOK, rs
<1>12. {t \in Abs!RetainedTopics : Abs!Covers(f, t)} = topics
  BY <1>4 DEF Abs!RetainedTopics, Abs!Covers, Applies
<1>13. out'.sent = sent
  BY <1>1
<1> HIDE DEF sent, topics, hits
<1>14. \A p, k : Abs!Lower(p, k) = Lower(p, k)
  BY DEF Abs!Lower, Lower
<1> QED
  BY <1>1, <1>3, <1>4, <1>10, <1>11, <1>12, <1>13, <1>14
     DEF Abs!DeliverRetained, Abs!Did

LEMMA InitMaps == ASSUME Init PROVE Abs!Init
<1>1. TInv
  BY InitInv
<1>2. Represents(MapOf(subs), subs) /\ Holds(RMapOf(RetainStore), RetainStore)
  BY <1>1, StoreOK, MapIs, RMapIs DEF TInv
<1>3. \A i \in SubIdx : subs[i] = None
  BY DEF Init
<1>4. \A r \in RetIdx : RetainStore[r] = None
  BY DEF Init, RetainStore
<1>5. \A c \in Client, f \in Filter : SubMap[c][f] = None
  BY <1>2, <1>3, MapsAre DEF Represents
<1>6. \A t \in Topic : RetainMap[t] = None
  BY <1>2, <1>4, RMapsAre DEF Holds
<1>7. SubMap = [c \in Client |-> [f \in Filter |-> None]]
  <2>1. \A c \in Client : SubMap[c] = [f \in Filter |-> None]
    <3> TAKE c \in Client
    <3>1. SubMap[c] \in [Filter -> QoS \cup {None}]
      BY <1>2, MapsAre DEF Represents
    <3> QED
      BY <1>5, <3>1
  <2>2. SubMap \in [Client -> [Filter -> QoS \cup {None}]]
    BY <1>2, MapsAre DEF Represents
  <2> QED
    BY <2>1, <2>2
<1>8. RetainMap = [t \in Topic |-> None]
  <2>1. RetainMap \in [Topic -> Message \cup {None}]
    BY <1>2, RMapsAre DEF Holds
  <2> QED
    BY <1>6, <2>1
<1> QED
  BY <1>7, <1>8 DEF Init, Abs!Init, Abs!Filter, Filter

LEMMA FailedMaps == ASSUME TInv, PublishFailed PROVE Abs!PublishFailed
<1>1. retains = None /\ retains' = retains /\ subs' = subs /\ Did("failed", <<>>)
  BY DEF PublishFailed, table
<1>2. RetainStore' = RetainStore /\ \A r \in RetIdx : RetainStore[r] = None
  BY <1>1 DEF RetainStore
<1>3. SubMap' = SubMap /\ RetainMap' = RetainMap
  BY <1>1, <1>2, MapsAre, RMapsAre
<1>4. Holds(RetainMap, RetainStore)
  BY StoreOK, RMapIs, RMapsAre
<1>5. Abs!RetainedTopics = {}
  BY <1>2, <1>4 DEF Holds, Abs!RetainedTopics
<1> QED
  BY <1>1, <1>3, <1>5 DEF Abs!PublishFailed, Abs!Did, Did

(* A step that keeps the table, the store and out keeps the maps. *)
LEMMA StutterMaps ==
    ASSUME UNCHANGED <<subs, retains, out>>
    PROVE  UNCHANGED Abs!vars
<1>1. SubMap' = SubMap
  BY MapsAre
<1>2. RetainStore' = RetainStore
  BY DEF RetainStore
<1>3. RetainMap' = RetainMap
  BY <1>2, RMapsAre
<1> QED
  BY <1>1, <1>3 DEF Abs!vars

LEMMA StepMaps == ASSUME TInv, [Next]_vars PROVE [Abs!Next]_Abs!vars
<1>0. TInv' /\ SubsOK(subs)
  BY StepInv DEF TInv
<1>f. Abs!Filter = Filter
  BY DEF Abs!Filter, Filter
<1>1. ASSUME NEW c \in Client, NEW f \in Filter, NEW q \in QoS, Subscribe(c, f, q)
      PROVE  Abs!Next
  <2>1. Abs!Refuse(c, f) \/ Abs!Subscribe(c, f, q)
    BY <1>0, <1>1, SubscribeMaps
  <2> QED
    BY <1>f, <2>1 DEF Abs!Next
<1>2. ASSUME NEW c \in Client, NEW f \in Filter, Unsubscribe(c, f) PROVE Abs!Next
  <2>1. Abs!Unsubscribe(c, f)
    BY <1>0, <1>2, UnsubscribeMaps
  <2> QED
    BY <1>f, <2>1 DEF Abs!Next
<1>3. ASSUME NEW c \in Client, UnsubscribeAll(c) PROVE UNCHANGED Abs!vars
  BY <1>3, StutterMaps DEF UnsubscribeAll, table
<1>4. ASSUME NEW c \in Client, UnsubscribeNext(c) PROVE [Abs!Next]_Abs!vars
  <2> DEFINE I == {j \in SubIdx : subs[j] # None /\ subs[j].client = c}
             i == First(I)
  <2>1. CASE i = None
    <3>1. UNCHANGED <<subs, retains, out>>
      BY <1>4, <2>1 DEF UnsubscribeNext, table
    <3> QED
      BY <3>1, StutterMaps
  <2>2. CASE i # None
    <3>1. I # {}
      BY <2>2, FirstEmpty
    <3>2. i \in SubIdx /\ subs[i] # None
      BY <3>1, FirstFound, Constants
    <3>3. Drop(i) /\ UNCHANGED retains /\ Did("unsubscribe", <<>>)
      BY <1>4, <2>2 DEF UnsubscribeNext
    <3> HIDE DEF i
    <3>4. Abs!Unsubscribe(subs[i].client, subs[i].filter)
      BY <1>0, <3>2, <3>3, DropMaps
    <3>5. subs[i].client \in Client /\ subs[i].filter \in Filter
      BY <1>0, <3>2, InUse
    <3> QED
      BY <1>f, <3>4, <3>5 DEF Abs!Next
  <2> QED
    BY <2>1, <2>2
<1>5. ASSUME NEW t \in Topic, NEW q \in PubQoS, NEW pl \in Payload, NEW keep \in BOOLEAN,
             Publish(t, q, pl, keep)
      PROVE  Abs!Next
  <2>1. Abs!Publish(t, q, pl, keep)
    BY <1>5, PublishMaps
  <2> QED
    BY <2>1 DEF Abs!Next
<1>6. ASSUME PublishFailed PROVE Abs!Next
  BY <1>6, FailedMaps DEF Abs!Next
<1>7. ASSUME NEW c \in Client, NEW f \in Filter, NEW q \in QoS, DeliverRetained(c, f, q)
      PROVE  Abs!Next
  <2>1. Abs!DeliverRetained(c, f, q)
    BY <1>7, DeliverMaps
  <2> QED
    BY <1>f, <2>1 DEF Abs!Next
<1>8. CASE UNCHANGED vars
  BY <1>8, StutterMaps DEF vars, table
<1> QED
  BY <1>1, <1>2, <1>3, <1>4, <1>5, <1>6, <1>7, <1>8 DEF Next

(* The table implements the maps that include/topic.h promises: every call *)
(* of topic.c is a step of SubscriptionMap or changes nothing there, so    *)
(* that a subscription is refused only by a full table and a publish gets  *)
(* to exactly the clients with a matching subscription, once.              *)
THEOREM Implementation == Spec => ImplementsMap
<1>1. Init => Abs!Init
  BY InitMaps
<1>2. TInv /\ [Next]_vars => [Abs!Next]_Abs!vars
  BY StepMaps
<1> QED
  BY <1>1, <1>2, Invariant, PTL DEF Spec, ImplementsMap, Abs!Spec

----------------------------------------------------------------------------
(* Strings and their levels. *)

Text == Seq(STRING \ {"0"})

(* The number of cuts before a position. *)
Rank(s, i) == Cardinality({d \in Cuts(s) : d < i})

(* The level k of s are the characters from a up to b. *)
LevelIs(s, k, a, b) ==
    /\ a \in 1 .. Len(s) + 1 /\ b \in a .. Len(s) + 1
    /\ a = 1 \/ s[a - 1] = "/"
    /\ b = Len(s) + 1 \/ s[b] = "/"
    /\ \A j \in a .. b - 1 : s[j] # "/"
    /\ k = Rank(s, a - 1) + 1

LEMMA CutFacts ==
    ASSUME NEW s \in Text
    PROVE  /\ Len(s) \in Nat
           /\ Cuts(s) \subseteq 0 .. Len(s) + 1
           /\ IsFiniteSet(Cuts(s))
           /\ 0 \in Cuts(s) /\ Len(s) + 1 \in Cuts(s)
           /\ \A i \in 1 .. Len(s) : i \in Cuts(s) <=> s[i] = "/"
<1>1. Len(s) \in Nat
  BY DEF Text
<1>2. Cuts(s) \subseteq 0 .. Len(s) + 1
  BY <1>1 DEF Cuts
<1>3. IsFiniteSet(0 .. Len(s) + 1)
  BY <1>1, FS_Interval
<1>4. IsFiniteSet(Cuts(s))
  BY <1>2, <1>3, FS_Subset
<1> QED
  BY <1>1, <1>2, <1>4 DEF Cuts

LEMMA RankFacts ==
    ASSUME NEW s \in Text
    PROVE  /\ \A i \in Int : Rank(s, i) \in Nat
           /\ Rank(s, 0) = 0
           /\ \A i, j \in Int : i <= j => Rank(s, i) <= Rank(s, j)
           /\ \A i \in Cuts(s) : Rank(s, i + 1) = Rank(s, i) + 1
           /\ \A i, j \in Int : i <= j /\ (\A k \in i .. j - 1 : k \notin Cuts(s))
                                => Rank(s, i) = Rank(s, j)
<1> DEFINE B(i) == {d \in Cuts(s) : d < i}
<1>1. Cuts(s) \subseteq Int /\ IsFiniteSet(Cuts(s)) /\ \A d \in Cuts(s) : d >= 0
  BY CutFacts
<1>2. \A i \in Int : IsFiniteSet(B(i))
  BY <1>1, FS_Subset
<1>3. \A i \in Int : Rank(s, i) \in Nat
  BY <1>2, FS_CardinalityType DEF Rank
<1>4. Rank(s, 0) = 0
  <2>1. B(0) = {}
    BY <1>1
  <2> QED
    BY <2>1, FS_EmptySet DEF Rank
<1>5. ASSUME NEW i \in Int, NEW j \in Int, i <= j PROVE Rank(s, i) <= Rank(s, j)
  <2>1. B(i) \subseteq B(j)
    BY <1>1, <1>5
  <2> QED
    BY <2>1, <1>2, FS_Subset DEF Rank
<1>6. ASSUME NEW i \in Cuts(s) PROVE Rank(s, i + 1) = Rank(s, i) + 1
  <2>1. i \in Int /\ B(i + 1) = B(i) \cup {i} /\ i \notin B(i)
    BY <1>1
  <2> QED
    BY <2>1, <1>2, FS_AddElement DEF Rank
<1>7. ASSUME NEW i \in Int, NEW j \in Int, i <= j, \A k \in i .. j - 1 : k \notin Cuts(s)
      PROVE  Rank(s, i) = Rank(s, j)
  <2>1. B(i) = B(j)
    BY <1>1, <1>7
  <2> QED
    BY <2>1 DEF Rank
<1> QED
  BY <1>3, <1>4, <1>5, <1>6, <1>7

LEMMA LevelCountIs ==
    ASSUME NEW s \in Text
    PROVE  LevelCount(s) = Rank(s, Len(s) + 1) /\ LevelCount(s) \in Nat \ {0}
<1>1. Cuts(s) \subseteq 0 .. Len(s) + 1 /\ Len(s) + 1 \in Cuts(s) /\ Len(s) \in Nat /\ 0 \in Cuts(s)
  BY CutFacts
<1>2. {d \in Cuts(s) : d < Len(s) + 2} = Cuts(s)
  BY <1>1
<1>3. Cardinality(Cuts(s)) = Rank(s, Len(s) + 2)
  BY <1>2 DEF Rank
<1>4. Rank(s, Len(s) + 2) = Rank(s, Len(s) + 1) + 1
  BY <1>1, RankFacts
<1>5. Rank(s, Len(s) + 1) \in Nat /\ Rank(s, 1) <= Rank(s, Len(s) + 1) /\ Rank(s, 1) = 1
  <2>1. Rank(s, 0 + 1) = Rank(s, 0) + 1 /\ Rank(s, 0) = 0
    BY <1>1, RankFacts
  <2> QED
    BY <2>1, <1>1, RankFacts
<1>6. LevelCount(s) = Rank(s, Len(s) + 1)
  BY <1>3, <1>4, <1>5 DEF LevelCount
<1> QED
  BY <1>5, <1>6

(* A cut is known by its rank. *)
LEMMA CutUnique ==
    ASSUME NEW s \in Text, NEW c \in Cuts(s), NEW d \in Cuts(s), Rank(s, c) = Rank(s, d)
    PROVE  c = d
<1>1. \A x, y \in Cuts(s) : x < y => Rank(s, x) < Rank(s, y)
  <2> SUFFICES ASSUME NEW x \in Cuts(s), NEW y \in Cuts(s), x < y PROVE Rank(s, x) < Rank(s, y)
    OBVIOUS
  <2>1. x \in Int /\ y \in Int /\ x + 1 <= y
    BY CutFacts
  <2>2. Rank(s, x + 1) = Rank(s, x) + 1 /\ Rank(s, x + 1) <= Rank(s, y) /\ Rank(s, x) \in Nat
    BY <2>1, RankFacts
  <2> QED
    BY <2>1, <2>2, RankFacts
<1>2. c \in Int /\ d \in Int
  BY CutFacts
<1>3. Rank(s, c) \in Nat /\ Rank(s, d) \in Nat
  BY <1>2, RankFacts
<1>4. ~(c < d) /\ ~(d < c)
  BY <1>1, <1>3
<1> QED
  BY <1>2, <1>4

(* There is a cut of every rank. *)
LEMMA CutExists ==
    ASSUME NEW s \in Text, NEW k \in 0 .. LevelCount(s)
    PROVE  \E c \in Cuts(s) : Rank(s, c) = k
<1>0. Len(s) \in Nat /\ Cuts(s) \subseteq 0 .. Len(s) + 1 /\ Len(s) + 1 \in Cuts(s)
  BY CutFacts
<1> DEFINE I == {i \in Nat : Rank(s, i) > k}
<1>1. Rank(s, Len(s) + 2) = LevelCount(s) + 1
  BY <1>0, RankFacts, LevelCountIs
<1>2. Len(s) + 2 \in I
  BY <1>0, <1>1, LevelCountIs
<1>3. PICK m \in I : \A j \in I : m <= j
  BY <1>2, FirstFound
<1>4. m # 0
  BY <1>3, RankFacts
<1>5. m - 1 \in Nat /\ Rank(s, m - 1) <= k
  <2>1. m - 1 \in Nat /\ m - 1 \notin I
    BY <1>3, <1>4
  <2> QED
    BY <2>1, RankFacts, LevelCountIs
<1>6. m - 1 \in Cuts(s)
  <2> SUFFICES ASSUME m - 1 \notin Cuts(s) PROVE FALSE
    OBVIOUS
  <2>1. Rank(s, m - 1) = Rank(s, m)
    BY <1>3, <1>5, RankFacts
  <2> QED
    BY <2>1, <1>3, <1>5, RankFacts, LevelCountIs
<1>7. Rank(s, m) = Rank(s, m - 1) + 1
  <2>1. Rank(s, (m - 1) + 1) = Rank(s, m - 1) + 1
    BY <1>6, RankFacts
  <2> QED
    BY <2>1, <1>3
<1>8. Rank(s, m - 1) = k
  BY <1>3, <1>5, <1>7, RankFacts, LevelCountIs
<1> QED
  BY <1>6, <1>8

(* What LevelIs says is level k. *)
LEMMA LevelAt ==
    ASSUME NEW s \in Text, NEW k, NEW a, NEW b, LevelIs(s, k, a, b)
    PROVE  /\ k \in 1 .. LevelCount(s)
           /\ Rank(s, b) = k
           /\ Level(s, k) = SubSeq(s, a, b - 1)
           /\ a - 1 \in Cuts(s) /\ b \in Cuts(s)
<1>1. /\ a \in 1 .. Len(s) + 1 /\ b \in a .. Len(s) + 1 /\ Len(s) \in Nat
      /\ a - 1 \in Cuts(s) /\ b \in Cuts(s)
  BY CutFacts DEF LevelIs
<1>2. \A j \in a .. b - 1 : j \notin Cuts(s)
  BY <1>1, CutFacts DEF LevelIs
<1>3. Rank(s, a) = Rank(s, a - 1) + 1
  <2>1. Rank(s, (a - 1) + 1) = Rank(s, a - 1) + 1
    BY <1>1, RankFacts
  <2> QED
    BY <2>1, <1>1
<1>4. Rank(s, b) = k /\ k - 1 = Rank(s, a - 1) /\ k \in Nat \ {0}
  <2>1. Rank(s, a) = Rank(s, b)
    BY <1>1, <1>2, RankFacts
  <2>2. Rank(s, a - 1) \in Nat
    BY <1>1, RankFacts
  <2> QED
    BY <2>1, <2>2, <1>3 DEF LevelIs
<1>5. k <= LevelCount(s)
  <2>1. Rank(s, b) <= Rank(s, Len(s) + 1)
    BY <1>1, RankFacts
  <2> QED
    BY <2>1, <1>4, LevelCountIs
<1> DEFINE from == CHOOSE c \in Cuts(s) : Cardinality({d \in Cuts(s) : d < c}) = k - 1
           to   == CHOOSE c \in Cuts(s) : Cardinality({d \in Cuts(s) : d < c}) = k
<1>6. from = a - 1
  <2>1. Cardinality({d \in Cuts(s) : d < a - 1}) = k - 1
    BY <1>4 DEF Rank
  <2>2. from \in Cuts(s) /\ Cardinality({d \in Cuts(s) : d < from}) = k - 1
    BY <1>1, <2>1
  <2>3. Rank(s, from) = Rank(s, a - 1)
    BY <2>1, <2>2 DEF Rank
  <2> HIDE DEF from
  <2> QED
    BY <1>1, <2>2, <2>3, CutUnique
<1>7. to = b
  <2>1. Cardinality({d \in Cuts(s) : d < b}) = k
    BY <1>4 DEF Rank
  <2>2. to \in Cuts(s) /\ Cardinality({d \in Cuts(s) : d < to}) = k
    BY <1>1, <2>1
  <2>3. Rank(s, to) = Rank(s, b)
    BY <2>1, <2>2 DEF Rank
  <2> HIDE DEF to
  <2> QED
    BY <1>1, <2>2, <2>3, CutUnique
<1>8. Level(s, k) = SubSeq(s, from + 1, to - 1)
  BY DEF Level
<1>9. (a - 1) + 1 = a
  BY <1>1
<1> HIDE DEF from, to
<1>10. Level(s, k) = SubSeq(s, a, b - 1)
  BY <1>6, <1>7, <1>8, <1>9
<1> QED
  BY <1>1, <1>4, <1>5, <1>10, LevelCountIs

(* Every level is somewhere. *)
LEMMA LevelExists ==
    ASSUME NEW s \in Text, NEW k \in 1 .. LevelCount(s)
    PROVE  \E a, b \in Nat : LevelIs(s, k, a, b)
<1>0. Len(s) \in Nat /\ LevelCount(s) \in Nat /\ Cuts(s) \subseteq 0 .. Len(s) + 1
  BY CutFacts, LevelCountIs
<1>1. PICK c \in Cuts(s) : Rank(s, c) = k - 1
  BY <1>0, CutExists
<1>2. PICK b \in Cuts(s) : Rank(s, b) = k
  BY <1>0, CutExists
<1>3. c < b
  <2> SUFFICES ASSUME b <= c PROVE FALSE
    BY <1>0
  <2>1. Rank(s, b) <= Rank(s, c)
    BY <1>0, RankFacts
  <2> QED
    BY <1>0, <1>1, <1>2, <2>1
<1>4. \A j \in c + 1 .. b - 1 : j \notin Cuts(s)
  <2> SUFFICES ASSUME NEW j \in c + 1 .. b - 1, j \in Cuts(s) PROVE FALSE
    OBVIOUS
  <2>1. j \in Int /\ c + 1 <= j /\ j + 1 <= b /\ c \in Int /\ b \in Int
    BY <1>0
  <2>2. Rank(s, c + 1) = k /\ Rank(s, j + 1) = Rank(s, j) + 1
    BY <1>1, RankFacts
  <2>3. Rank(s, c + 1) <= Rank(s, j) /\ Rank(s, j + 1) <= Rank(s, b)
    BY <2>1, RankFacts
  <2> QED
    BY <1>2, <2>1, <2>2, <2>3, RankFacts
<1>5. LevelIs(s, k, c + 1, b)
  <2>1. c \in Nat /\ b \in Nat /\ b <= Len(s) + 1 /\ (c + 1) - 1 = c
    BY <1>0
  <2>2. c + 1 \in 1 .. Len(s) + 1 /\ b \in c + 1 .. Len(s) + 1
    BY <1>0, <1>3, <2>1
  <2>3. c # 0 => c \in 1 .. Len(s) /\ s[c] = "/"
    <3>1. c # 0 => c \in 1 .. Len(s)
      BY <1>0, <1>3, <2>1
    <3> QED
      BY <3>1, CutFacts
  <2>4. b # Len(s) + 1 => s[b] = "/"
    <3>1. b # Len(s) + 1 => b \in 1 .. Len(s)
      BY <1>0, <2>1, <1>3
    <3> QED
      BY <3>1, CutFacts
  <2>5. \A j \in c + 1 .. b - 1 : s[j] # "/"
    <3>1. \A j \in c + 1 .. b - 1 : j \in 1 .. Len(s)
      BY <1>0, <2>1
    <3> QED
      BY <1>4, <3>1, CutFacts
  <2>6. k = Rank(s, (c + 1) - 1) + 1
    BY <1>1, <2>1
  <2> QED
    BY <2>1, <2>2, <2>3, <2>4, <2>5, <2>6 DEF LevelIs
<1> QED
  BY <1>0, <1>5

(* The characters of a level. *)
LEMMA LevelChars ==
    ASSUME NEW s \in Text, NEW k, NEW a, NEW b, LevelIs(s, k, a, b)
    PROVE  /\ a \in Nat \ {0} /\ b \in Nat /\ a <= b /\ b <= Len(s) + 1 /\ Len(s) \in Nat
           /\ Level(s, k) \in Text
           /\ b = a + Len(Level(s, k))
           /\ \A i \in 1 .. Len(Level(s, k)) : Level(s, k)[i] = s[a + i - 1]
<1>1. a \in Nat \ {0} /\ b \in Nat /\ a <= b /\ b <= Len(s) + 1 /\ Len(s) \in Nat
  BY CutFacts DEF LevelIs
<1>2. \A i \in a .. b - 1 : s[i] \in STRING \ {"0"}
  BY <1>1 DEF Text
<1>3. a \in Int /\ b - 1 \in Int
  BY <1>1
<1>4. /\ SubSeq(s, a, b - 1) \in Text
      /\ Len(SubSeq(s, a, b - 1)) = IF a <= b - 1 THEN (b - 1) - a + 1 ELSE 0
      /\ \A i \in 1 .. (b - 1) - a + 1 : SubSeq(s, a, b - 1)[i] = s[a + i - 1]
  BY <1>2, <1>3, SubSeqProperties DEF Text
<1>5. Level(s, k) = SubSeq(s, a, b - 1)
  BY LevelAt
<1> DEFINE l == SubSeq(s, a, b - 1)
           n == IF a <= b - 1 THEN (b - 1) - a + 1 ELSE 0
<1>6. n \in Nat /\ b = a + n /\ 1 .. n = 1 .. (b - 1) - a + 1
  BY <1>1
<1> HIDE DEF n
<1>7. l \in Text /\ Len(l) = n /\ \A i \in 1 .. n : l[i] = s[a + i - 1]
  BY <1>4, <1>6 DEF n
<1> HIDE DEF l
<1>8. b = a + Len(l) /\ \A i \in 1 .. Len(l) : l[i] = s[a + i - 1]
  BY <1>6, <1>7
<1>9. Level(s, k) = l
  BY <1>5 DEF l
<1> QED
  BY <1>1, <1>7, <1>8, <1>9

LEMMA OneElement ==
    ASSUME NEW S, NEW x \in S
    PROVE  <<x>> \in Seq(S) /\ Len(<<x>>) = 1 /\ <<x>>[1] = x
<1>1. <<x>> \in Seq(S)
  OBVIOUS
<1>2. Len(<<x>>) = 1
  OBVIOUS
<1>3. <<x>>[1] = x
  OBVIOUS
<1> QED
  BY <1>1, <1>2, <1>3

LEMMA IsOne ==
    ASSUME NEW S, NEW l \in Seq(S), NEW x
    PROVE  l = <<x>> <=> Len(l) = 1 /\ l[1] = x
<1>1. ASSUME l = <<x>> PROVE Len(l) = 1 /\ l[1] = x
  <2>1. <<x>> \in Seq({x}) /\ Len(<<x>>) = 1 /\ <<x>>[1] = x
    BY OneElement
  <2> QED
    BY <1>1, <2>1
<1>2. ASSUME Len(l) = 1, l[1] = x PROVE l = <<x>>
  <2>1. x \in S
    BY <1>2
  <2> DEFINE y == <<x>>
  <2>2. y \in Seq(S) /\ Len(y) = 1 /\ y[1] = x
    BY <2>1, OneElement
  <2> HIDE DEF y
  <2>3. ASSUME NEW i \in 1 .. Len(l) PROVE l[i] = y[i]
    <3>1. i = 1
      BY <1>2
    <3> QED
      BY <3>1, <2>2, <1>2
  <2>4. l = y
    BY <2>2, <2>3, <1>2, SeqEqual
  <2> QED
    BY <2>4 DEF y
<1> QED
  BY <1>1, <1>2

LEMMA LevelIsChar ==
    ASSUME NEW s \in Text, NEW k, NEW a, NEW b, LevelIs(s, k, a, b), NEW x
    PROVE  Level(s, k) = <<x>> <=> b = a + 1 /\ s[a] = x
<1>1. /\ a \in Nat /\ b \in Nat /\ Level(s, k) \in Seq(STRING \ {"0"})
      /\ b = a + Len(Level(s, k))
      /\ \A i \in 1 .. Len(Level(s, k)) : Level(s, k)[i] = s[a + i - 1]
  BY LevelChars DEF Text
<1>2. Level(s, k) = <<x>> <=> Len(Level(s, k)) = 1 /\ Level(s, k)[1] = x
  BY <1>1, IsOne
<1>3. PICK n \in Nat : n = Len(Level(s, k))
  BY <1>1
<1>4. n = 1 <=> b = a + 1
  BY <1>1, <1>3
<1>5. n = 1 => Level(s, k)[1] = s[a]
  <2>1. n = 1 => 1 \in 1 .. Len(Level(s, k)) /\ a + 1 - 1 = a
    BY <1>1, <1>3
  <2>2. 1 \in 1 .. Len(Level(s, k)) => Level(s, k)[1] = s[a + 1 - 1]
    BY <1>1
  <2> QED
    BY <2>1, <2>2
<1> QED
  BY <1>2, <1>3, <1>4, <1>5

LEMMA LevelsEqual ==
    ASSUME NEW s \in Text, NEW k, NEW a, NEW b, LevelIs(s, k, a, b),
           NEW u \in Text, NEW m, NEW c, NEW d, LevelIs(u, m, c, d)
    PROVE  Level(s, k) = Level(u, m) <=>
             b - a = d - c /\ \A i \in 0 .. b - a - 1 : s[a + i] = u[c + i]
<1>1. /\ a \in Nat \ {0} /\ b \in Nat /\ a <= b
      /\ Level(s, k) \in Text
      /\ b = a + Len(Level(s, k))
      /\ \A i \in 1 .. Len(Level(s, k)) : Level(s, k)[i] = s[a + i - 1]
  BY LevelChars
<1>2. /\ c \in Nat \ {0} /\ d \in Nat /\ c <= d
      /\ Level(u, m) \in Text
      /\ d = c + Len(Level(u, m))
      /\ \A i \in 1 .. Len(Level(u, m)) : Level(u, m)[i] = u[c + i - 1]
  BY LevelChars
<1>3. ASSUME Level(s, k) = Level(u, m)
      PROVE  b - a = d - c /\ \A i \in 0 .. b - a - 1 : s[a + i] = u[c + i]
  <2>1. b - a = d - c
    BY <1>1, <1>2, <1>3
  <2>2. ASSUME NEW i \in 0 .. b - a - 1 PROVE s[a + i] = u[c + i]
    <3>1. i + 1 \in 1 .. Len(Level(s, k)) /\ a + (i + 1) - 1 = a + i /\ c + (i + 1) - 1 = c + i
      BY <1>1, <1>2
    <3>2. Level(s, k)[i + 1] = s[a + (i + 1) - 1] /\ Level(u, m)[i + 1] = u[c + (i + 1) - 1]
      BY <1>1, <1>2, <2>1, <3>1
    <3> QED
      BY <3>1, <3>2, <1>3
  <2> QED
    BY <2>1, <2>2
<1>4. ASSUME b - a = d - c, \A i \in 0 .. b - a - 1 : s[a + i] = u[c + i]
      PROVE  Level(s, k) = Level(u, m)
  <2>1. ASSUME NEW i \in 1 .. Len(Level(s, k)) PROVE Level(s, k)[i] = Level(u, m)[i]
    <3>1. i - 1 \in 0 .. b - a - 1 /\ a + (i - 1) = a + i - 1 /\ c + (i - 1) = c + i - 1
      BY <1>1, <1>2
    <3>2. s[a + (i - 1)] = u[c + (i - 1)]
      BY <1>4, <3>1
    <3> QED
      BY <1>1, <1>2, <1>4, <3>1, <3>2
  <2>2. Len(Level(s, k)) = Len(Level(u, m))
    <3>1. /\ b = a + Len(Level(s, k)) /\ d = c + Len(Level(u, m))
          /\ a \in Nat /\ b \in Nat /\ c \in Nat /\ d \in Nat
          /\ Len(Level(s, k)) \in Nat /\ Len(Level(u, m)) \in Nat
      BY <1>1, <1>2 DEF Text
    <3> QED
      BY <1>4, <3>1
  <2> QED
    BY <1>1, <1>2, <2>1, <2>2, SeqEqual DEF Text
<1> QED
  BY <1>3, <1>4

(* topic_filter_valid, which looks at the neighbours of a wildcard, finds  *)
(* exactly what MQTT says of levels.                                       *)
LEMMA FilterValidIsWellFormed ==
    ASSUME NEW s \in Text
    PROVE  FilterValid(s) <=> WellFormed(s)
<1>0. Len(s) \in Nat /\ LevelCount(s) \in Nat \ {0}
  BY CutFacts, LevelCountIs
<1>1. ASSUME FilterValid(s) PROVE WellFormed(s)
  <2> SUFFICES ASSUME NEW n \in 1 .. LevelCount(s)
               PROVE  LET l == Level(s, n)
                          has(ch) == \E i \in 1 .. Len(l) : l[i] = ch
                      IN /\ has("+") => l = <<"+">>
                         /\ has("#") => l = <<"#">> /\ n = LevelCount(s)
    BY <1>1 DEF FilterValid, WellFormed
  <2>1. PICK a, b \in Nat : LevelIs(s, n, a, b)
    BY LevelExists
  <2>2. /\ a # 0 /\ a <= b /\ b <= Len(s) + 1
        /\ b = a + Len(Level(s, n))
        /\ \A i \in 1 .. Len(Level(s, n)) : Level(s, n)[i] = s[a + i - 1]
    BY <2>1, LevelChars
  <2>3. ASSUME NEW i \in 1 .. Len(Level(s, n)), Level(s, n)[i] \in {"+", "#"}
        PROVE  /\ s[a] = Level(s, n)[i] /\ b = a + 1
               /\ Level(s, n)[i] = "#" => n = LevelCount(s)
    <3> DEFINE p == a + i - 1
    <3>1. p \in a .. b - 1 /\ p \in 1 .. Len(s) /\ s[p] = Level(s, n)[i]
      BY <2>2, <2>3
    <3> HIDE DEF p
    <3>2. p = a
      <4> SUFFICES ASSUME p # a PROVE FALSE
        OBVIOUS
      <4>1. p - 1 \in a .. b - 1 /\ p # 1
        BY <3>1, <2>2
      <4>2. s[p - 1] # "/"
        BY <4>1, <2>1 DEF LevelIs
      <4> QED
        BY <4>1, <4>2, <3>1, <2>3, <1>1 DEF FilterValid
    <3>3. b = a + 1
      <4> SUFFICES ASSUME b # a + 1 PROVE FALSE
        OBVIOUS
      <4>a. a \in Nat /\ b \in Nat /\ Len(s) \in Nat /\ p = a
        BY <1>0, <3>2
      <4>b. a + 1 <= b - 1
        <5>1. a <= b - 1
          BY <3>1, <4>a
        <5> QED
          BY <4>a, <5>1
      <4>1. p + 1 \in a .. b - 1 /\ p # Len(s)
        BY <4>a, <4>b, <2>2
      <4>2. s[p + 1] # "/"
        BY <4>1, <2>1 DEF LevelIs
      <4> QED
        BY <4>1, <4>2, <3>1, <2>3, <1>1 DEF FilterValid
    <3>4. ASSUME Level(s, n)[i] = "#" PROVE n = LevelCount(s)
      <4>1. p = Len(s)
        BY <3>1, <3>4, <1>1 DEF FilterValid
      <4>2. b = Len(s) + 1
        BY <4>1, <3>2, <3>3
      <4> QED
        BY <4>2, <2>1, LevelAt, LevelCountIs
    <3> QED
      BY <3>1, <3>2, <3>3, <3>4
  <2>4. ASSUME NEW i \in 1 .. Len(Level(s, n)), Level(s, n)[i] \in {"+", "#"}
        PROVE  Level(s, n) = <<Level(s, n)[i]>>
    <3>1. PICK x : x = Level(s, n)[i]
      OBVIOUS
    <3>2. b = a + 1 /\ s[a] = x
      BY <2>3, <2>4, <3>1
    <3>3. Level(s, n) = <<x>>
      BY <2>1, <3>2, LevelIsChar
    <3> QED
      BY <3>1, <3>3
  <2> QED
    BY <2>3, <2>4
<1>2. ASSUME WellFormed(s) PROVE FilterValid(s)
  <2> SUFFICES ASSUME NEW p \in 1 .. Len(s), s[p] \in {"+", "#"}
               PROVE  /\ p = 1 \/ s[p - 1] = "/"
                      /\ p = Len(s) \/ s[p + 1] = "/"
                      /\ s[p] = "#" => p = Len(s)
    BY <1>2 DEF FilterValid, WellFormed
  <2> DEFINE n == Rank(s, p)
  <2>1. n \in 1 .. LevelCount(s)
    <3>1. Rank(s, 0 + 1) = Rank(s, 0) + 1 /\ Rank(s, 0) = 0
      BY RankFacts, CutFacts
    <3>2. Rank(s, 1) <= Rank(s, p) /\ Rank(s, p) <= Rank(s, Len(s) + 1) /\ Rank(s, p) \in Nat
      BY <1>0, RankFacts
    <3> QED
      BY <3>1, <3>2, LevelCountIs
  <2>2. PICK a, b \in Nat : LevelIs(s, n, a, b)
    BY <2>1, LevelExists
  <2>3. /\ a # 0 /\ a <= b /\ b <= Len(s) + 1
        /\ b = a + Len(Level(s, n))
        /\ \A i \in 1 .. Len(Level(s, n)) : Level(s, n)[i] = s[a + i - 1]
        /\ Rank(s, a - 1) = n - 1 /\ Rank(s, b) = n
        /\ a - 1 \in Cuts(s) /\ b \in Cuts(s)
    <3>1. Rank(s, a - 1) \in Nat /\ Rank(s, a - 1) + 1 = n
      BY <2>2, RankFacts DEF LevelIs
    <3>2. Rank(s, b) = n /\ a - 1 \in Cuts(s) /\ b \in Cuts(s)
      BY <2>2, LevelAt
    <3>3. /\ a # 0 /\ a <= b /\ b <= Len(s) + 1
          /\ b = a + Len(Level(s, n))
          /\ \A i \in 1 .. Len(Level(s, n)) : Level(s, n)[i] = s[a + i - 1]
      BY <2>2, LevelChars
    <3>4. Rank(s, a - 1) = n - 1
      BY <3>1
    <3> QED
      BY <3>2, <3>3, <3>4
  <2>4. a <= p
    <3> SUFFICES ASSUME p <= a - 1 PROVE FALSE
      BY <2>3
    <3>1. Rank(s, p) <= Rank(s, a - 1)
      BY <2>3, RankFacts
    <3> QED
      BY <3>1, <2>1, <2>3
  <2>5. p <= b
    <3> SUFFICES ASSUME b + 1 <= p PROVE FALSE
      OBVIOUS
    <3>1. Rank(s, b + 1) = Rank(s, b) + 1 /\ Rank(s, b + 1) <= Rank(s, p)
      BY <2>3, RankFacts
    <3> QED
      BY <3>1, <2>1, <2>3
  <2>6. p # b
    BY <2>3, CutFacts
  <2>7. Level(s, n)[p - a + 1] = s[p] /\ p - a + 1 \in 1 .. Len(Level(s, n))
    <3>1. p - a + 1 \in 1 .. Len(Level(s, n)) /\ a + (p - a + 1) - 1 = p
      BY <2>3, <2>4, <2>5, <2>6
    <3> QED
      BY <2>3, <3>1
  <2> HIDE DEF n
  <2>8. Level(s, n) = <<s[p]>> /\ (s[p] = "#" => n = LevelCount(s))
    BY <1>2, <2>1, <2>7 DEF WellFormed
  <2>9. b = a + 1 /\ p = a
    <3>1. Len(Level(s, n)) = 1
      BY <2>8
    <3> QED
      BY <3>1, <2>3, <2>4, <2>5, <2>6
  <2>10. (p = 1 \/ s[p - 1] = "/") /\ (p = Len(s) \/ s[p + 1] = "/")
    BY <2>2, <2>9, <1>0 DEF LevelIs
  <2>11. ASSUME s[p] = "#" PROVE p = Len(s)
    <3>1. Rank(s, b) = Rank(s, Len(s) + 1)
      BY <2>8, <2>11, <2>3, LevelCountIs
    <3>2. b = Len(s) + 1
      BY <3>1, <2>3, CutFacts, CutUnique
    <3> QED
      BY <3>2, <2>9, <1>0
  <2> QED
    BY <2>10, <2>11
<1> QED
  BY <1>1, <1>2

----------------------------------------------------------------------------
(* The walk of the matching functions. *)

Agree(flt, top, k) == Level(flt, k) \in {<<"+">>, Level(top, k)}

(* The pointers i and j are in the levels that begin at a and b, and the   *)
(* levels before them agree.  Either what has been read of the two levels  *)
(* is the same and without wildcards, or a '+' has taken the whole level   *)
(* of the topic.                                                           *)
Walking(flt, top, i, j, a, b) ==
    /\ a \in 1 .. Len(flt) + 1 /\ b \in 1 .. Len(top) + 1
    /\ i \in a .. Len(flt) + 1 /\ j \in b .. Len(top) + 1
    /\ a = 1 \/ flt[a - 1] = "/"
    /\ b = 1 \/ top[b - 1] = "/"
    /\ Rank(flt, a - 1) = Rank(top, b - 1)
    /\ \A k \in 1 .. Rank(flt, a - 1) : Agree(flt, top, k)
    /\ \/ /\ i - a = j - b
          /\ \A m \in 0 .. i - a - 1 : flt[a + m] = top[b + m] /\ flt[a + m] \notin {"/", "+", "#"}
       \/ /\ i = a + 1 /\ flt[a] = "+"
          /\ \A m \in b .. j - 1 : top[m] # "/"
          /\ j = Len(top) + 1 \/ top[j] = "/"

LEMMA WalkTypes ==
    ASSUME NEW flt \in Text, NEW top \in Text, NEW i, NEW j, NEW a, NEW b, Walking(flt, top, i, j, a, b)
    PROVE  /\ Len(flt) \in Nat /\ Len(top) \in Nat
           /\ a \in Nat \ {0} /\ b \in Nat \ {0} /\ i \in Nat /\ j \in Nat
           /\ a <= i /\ b <= j /\ i <= Len(flt) + 1 /\ j <= Len(top) + 1
           /\ Rank(flt, a - 1) \in Nat
           /\ Rank(top, b - 1) = Rank(flt, a - 1)
           /\ Rank(flt, a - 1) <= LevelCount(top)
<1>1. /\ Len(flt) \in Nat /\ Len(top) \in Nat
      /\ a \in Nat \ {0} /\ b \in Nat \ {0} /\ i \in Nat /\ j \in Nat
      /\ a <= i /\ b <= j /\ i <= Len(flt) + 1 /\ j <= Len(top) + 1 /\ b <= Len(top) + 1
      /\ Rank(top, b - 1) = Rank(flt, a - 1)
  BY CutFacts DEF Walking
<1>2. Rank(flt, a - 1) \in Nat
  BY <1>1, RankFacts
<1>3. Rank(top, b - 1) <= Rank(top, Len(top) + 1)
  BY <1>1, RankFacts
<1> QED
  BY <1>1, <1>2, <1>3, LevelCountIs

LEMMA LastLevel ==
    ASSUME NEW s \in Text, NEW k, NEW a, LevelIs(s, k, a, Len(s) + 1)
    PROVE  k = LevelCount(s)
  BY LevelAt, LevelCountIs

LEMMA LastIsHash ==
    ASSUME NEW s \in Text, NEW k, NEW a, NEW e, LevelIs(s, k, a, e), e = a + 1, s[a] = "#"
    PROVE  Level(s, k) = <<"#">>
  BY LevelIsChar

(* Where a level of the filter, or of the topic, ends. *)
LEMMA FilterLevel ==
    ASSUME NEW flt \in Text, NEW top \in Text, NEW i, NEW j, NEW a, NEW b, Walking(flt, top, i, j, a, b),
           i = Len(flt) + 1 \/ flt[i] = "/"
    PROVE  LevelIs(flt, Rank(flt, a - 1) + 1, a, i)
<1>0. a \in Nat \ {0} /\ i \in Nat /\ a <= i /\ i <= Len(flt) + 1 /\ Len(flt) \in Nat
  BY WalkTypes
<1>1. ASSUME NEW m \in a .. i - 1 PROVE flt[m] # "/"
  <2>1. m - a \in 0 .. i - a - 1 /\ a + (m - a) = m
    BY <1>0
  <2>2. CASE \A x \in 0 .. i - a - 1 : flt[a + x] \notin {"/", "+", "#"}
    BY <2>1, <2>2
  <2>3. CASE i = a + 1 /\ flt[a] = "+"
    <3>1. m = a
      BY <2>3, <1>0
    <3> QED
      BY <3>1, <2>3
  <2> QED
    BY <2>2, <2>3 DEF Walking
<1> QED
  BY <1>1, WalkTypes DEF LevelIs, Walking

LEMMA TopicLevel ==
    ASSUME NEW flt \in Text, NEW top \in Text, NEW i, NEW j, NEW a, NEW b, Walking(flt, top, i, j, a, b),
           j = Len(top) + 1 \/ top[j] = "/"
    PROVE  LevelIs(top, Rank(flt, a - 1) + 1, b, j)
<1>0. /\ a \in Nat \ {0} /\ i \in Nat /\ b \in Nat \ {0} /\ j \in Nat
      /\ b <= j /\ j <= Len(top) + 1 /\ Len(top) \in Nat
  BY WalkTypes
<1>1. ASSUME NEW m \in b .. j - 1 PROVE top[m] # "/"
  <2>1. CASE /\ i - a = j - b
             /\ \A x \in 0 .. i - a - 1 : flt[a + x] = top[b + x] /\ flt[a + x] \notin {"/", "+", "#"}
    <3>1. m - b \in 0 .. i - a - 1 /\ b + (m - b) = m
      BY <2>1, <1>0
    <3> QED
      BY <2>1, <3>1
  <2>2. CASE \A x \in b .. j - 1 : top[x] # "/"
    BY <2>2
  <2> QED
    BY <2>1, <2>2 DEF Walking
<1> QED
  BY <1>1, WalkTypes DEF LevelIs, Walking

(* Two levels that end together agree. *)
LEMMA LevelAgrees ==
    ASSUME NEW flt \in Text, NEW top \in Text, NEW i, NEW j, NEW a, NEW b, Walking(flt, top, i, j, a, b),
           i = Len(flt) + 1 \/ flt[i] = "/",
           j = Len(top) + 1 \/ top[j] = "/"
    PROVE  Agree(flt, top, Rank(flt, a - 1) + 1)
<1> DEFINE k == Rank(flt, a - 1) + 1
<1>1. LevelIs(flt, k, a, i) /\ LevelIs(top, k, b, j)
  BY FilterLevel, TopicLevel
<1> HIDE DEF k
<1>2. CASE /\ i - a = j - b
           /\ \A x \in 0 .. i - a - 1 : flt[a + x] = top[b + x] /\ flt[a + x] \notin {"/", "+", "#"}
  <2>1. Level(flt, k) = Level(top, k)
    BY <1>1, <1>2, LevelsEqual
  <2> QED
    BY <2>1 DEF Agree, k
<1>3. CASE i = a + 1 /\ flt[a] = "+"
  <2>1. Level(flt, k) = <<"+">>
    BY <1>1, <1>3, LevelIsChar
  <2> QED
    BY <2>1 DEF Agree, k
<1> QED
  BY <1>2, <1>3 DEF Walking

(* A wildcard of a valid filter is met where a level begins. *)
LEMMA WildcardFirst ==
    ASSUME NEW flt \in Text, NEW top \in Text, NEW i, NEW j, NEW a, NEW b, Walking(flt, top, i, j, a, b),
           FilterValid(flt), i <= Len(flt), flt[i] \in {"+", "#"}
    PROVE  i = a /\ j = b
<1>0. /\ a \in Nat \ {0} /\ i \in Nat /\ b \in Nat \ {0} /\ j \in Nat
      /\ a <= i /\ Len(flt) \in Nat
  BY WalkTypes
<1>1. i = 1 \/ flt[i - 1] = "/"
  BY <1>0 DEF FilterValid
<1>2. CASE /\ i - a = j - b
           /\ \A x \in 0 .. i - a - 1 : flt[a + x] \notin {"/", "+", "#"}
  <2> SUFFICES ASSUME i # a PROVE FALSE
    BY <1>0, <1>2
  <2>1. (i - 1) - a \in 0 .. i - a - 1 /\ a + ((i - 1) - a) = i - 1 /\ i # 1
    BY <1>0
  <2> QED
    BY <2>1, <1>1, <1>2
<1>3. CASE i = a + 1 /\ flt[a] = "+"
  <2>1. i - 1 = a /\ i # 1
    BY <1>0, <1>3
  <2> QED
    BY <2>1, <1>1, <1>3
<1> QED
  BY <1>2, <1>3 DEF Walking

----------------------------------------------------------------------------
(* The steps of the walk. *)

LEMMA WalkStart ==
    ASSUME NEW flt \in Text, NEW top \in Text
    PROVE  Walking(flt, top, 1, 1, 1, 1)
<1>1. Len(flt) \in Nat /\ Len(top) \in Nat /\ Rank(flt, 1 - 1) = 0 /\ Rank(top, 1 - 1) = 0
  BY CutFacts, RankFacts
<1> QED
  BY <1>1 DEF Walking

(* Both go on inside of their levels. *)
LEMMA WalkChar ==
    ASSUME NEW flt \in Text, NEW top \in Text, NEW i, NEW j, NEW a, NEW b, Walking(flt, top, i, j, a, b),
           FilterValid(flt), i <= Len(flt), j <= Len(top), flt[i] = top[j],
           flt[i] \notin {"/", "+", "#"}
    PROVE  Walking(flt, top, i + 1, j + 1, a, b)
<1>0. /\ Len(flt) \in Nat /\ Len(top) \in Nat
      /\ a \in Nat \ {0} /\ b \in Nat \ {0} /\ i \in Nat /\ j \in Nat
      /\ a <= i /\ b <= j
  BY WalkTypes
<1>1. /\ i - a = j - b
      /\ \A m \in 0 .. i - a - 1 : flt[a + m] = top[b + m] /\ flt[a + m] \notin {"/", "+", "#"}
  <2>1. ~(i = a + 1 /\ flt[a] = "+")
    BY <1>0 DEF FilterValid
  <2> QED
    BY <2>1 DEF Walking
<1>2. (i + 1) - a = (j + 1) - b
  BY <1>0, <1>1
<1>3. ASSUME NEW m \in 0 .. (i + 1) - a - 1
      PROVE  flt[a + m] = top[b + m] /\ flt[a + m] \notin {"/", "+", "#"}
  <2>1. CASE m = i - a
    <3>1. a + m = i /\ b + m = j
      BY <1>0, <1>1, <2>1
    <3> QED
      BY <3>1
  <2>2. CASE m # i - a
    <3>1. m \in 0 .. i - a - 1
      BY <1>0, <2>2
    <3> QED
      BY <3>1, <1>1
  <2> QED
    BY <2>1, <2>2
<1>4. i + 1 \in a .. Len(flt) + 1 /\ j + 1 \in b .. Len(top) + 1
  BY <1>0
<1> QED
  BY <1>2, <1>3, <1>4 DEF Walking

(* Both come to the next level. *)
LEMMA WalkSlash ==
    ASSUME NEW flt \in Text, NEW top \in Text, NEW i, NEW j, NEW a, NEW b, Walking(flt, top, i, j, a, b),
           i <= Len(flt), j <= Len(top), flt[i] = "/", top[j] = "/"
    PROVE  Walking(flt, top, i + 1, j + 1, i + 1, j + 1)
<1> DEFINE n == Rank(flt, a - 1)
<1>0. /\ Len(flt) \in Nat /\ Len(top) \in Nat
      /\ a \in Nat \ {0} /\ b \in Nat \ {0} /\ i \in Nat /\ j \in Nat
      /\ a <= i /\ b <= j /\ n \in Nat
  BY WalkTypes
<1>1. LevelIs(flt, n + 1, a, i) /\ LevelIs(top, n + 1, b, j) /\ Agree(flt, top, n + 1)
  BY FilterLevel, TopicLevel, LevelAgrees
<1>2. \A k \in 1 .. n : Agree(flt, top, k)
  BY DEF Walking
<1> HIDE DEF n
<1>3. Rank(flt, i) = n + 1 /\ Rank(top, j) = n + 1
  BY <1>1, LevelAt
<1>4. (i + 1) - 1 = i /\ (j + 1) - 1 = j
  BY <1>0
<1>5. \A k \in 1 .. n + 1 : Agree(flt, top, k)
  BY <1>0, <1>1, <1>2
<1>6. Rank(flt, (i + 1) - 1) = n + 1 /\ Rank(top, (j + 1) - 1) = n + 1
  BY <1>3, <1>4
<1>7. /\ i + 1 \in 1 .. Len(flt) + 1 /\ j + 1 \in 1 .. Len(top) + 1
      /\ i + 1 \in i + 1 .. Len(flt) + 1 /\ j + 1 \in j + 1 .. Len(top) + 1
      /\ flt[(i + 1) - 1] = "/" /\ top[(j + 1) - 1] = "/"
      /\ (i + 1) - (i + 1) = (j + 1) - (j + 1)
      /\ 0 .. (i + 1) - (i + 1) - 1 = {}
  BY <1>0, <1>4
<1> QED
  BY <1>5, <1>6, <1>7 DEF Walking

(* A '+' takes the rest of the level of the topic. *)
LEMMA SkipLevelEnd ==
    ASSUME NEW s \in Text, NEW i \in 1 .. Len(s) + 1
    PROVE  /\ SkipLevel(s, i) \in i .. Len(s) + 1
           /\ \A m \in i .. SkipLevel(s, i) - 1 : s[m] # "/"
           /\ SkipLevel(s, i) = Len(s) + 1 \/ s[SkipLevel(s, i)] = "/"
<1> DEFINE I == {j \in i .. Len(s) : s[j] = "/"}
<1>0. Len(s) \in Nat /\ i \in Nat
  BY CutFacts
<1>1. CASE I = {}
  <2>1. SkipLevel(s, i) = Len(s) + 1
    BY <1>1, FirstEmpty DEF SkipLevel
  <2>2. \A m \in i .. Len(s) : s[m] # "/"
    BY <1>1
  <2> QED
    BY <2>1, <2>2, <1>0
<1>2. CASE I # {}
  <2>1. I \subseteq Nat
    BY <1>0
  <2>2. First(I) \in I /\ \A j \in I : First(I) <= j
    BY <1>2, <2>1, FirstFound
  <2>3. SkipLevel(s, i) = First(I)
    BY <2>1, <2>2, StringsAssumption DEF SkipLevel
  <2>4. PICK e \in I : e = First(I)
    BY <2>2
  <2>5. e \in i .. Len(s) /\ s[e] = "/" /\ \A m \in i .. e - 1 : s[m] # "/"
    <3>1. \A m \in I : e <= m
      BY <2>2, <2>4
    <3>2. e \in i .. Len(s) /\ s[e] = "/"
      OBVIOUS
    <3>3. ASSUME NEW m \in i .. e - 1, s[m] = "/" PROVE FALSE
      <4>1. m \in I
        BY <3>2, <3>3, <1>0
      <4>2. e <= m
        BY <3>1, <4>1
      <4> QED
        BY <4>2, <3>2, <1>0
    <3> QED
      BY <3>2, <3>3
  <2> QED
    BY <1>0, <2>3, <2>4, <2>5
<1> QED
  BY <1>1, <1>2

LEMMA WalkPlus ==
    ASSUME NEW flt \in Text, NEW top \in Text, NEW a, NEW b, Walking(flt, top, a, b, a, b),
           a <= Len(flt), flt[a] = "+"
    PROVE  Walking(flt, top, a + 1, SkipLevel(top, b), a, b)
<1>0. /\ Len(flt) \in Nat /\ Len(top) \in Nat
      /\ a \in Nat \ {0} /\ b \in Nat \ {0} /\ b <= Len(top) + 1
  BY WalkTypes
<1>1. PICK e \in Nat : e = SkipLevel(top, b)
  BY <1>0, SkipLevelEnd
<1>2. /\ e \in b .. Len(top) + 1
      /\ \A m \in b .. e - 1 : top[m] # "/"
      /\ e = Len(top) + 1 \/ top[e] = "/"
  <2>1. b \in 1 .. Len(top) + 1
    BY <1>0
  <2> QED
    BY <1>1, <2>1, SkipLevelEnd
<1>3. a + 1 \in a .. Len(flt) + 1
  BY <1>0
<1>4. Walking(flt, top, a + 1, e, a, b)
  BY <1>2, <1>3 DEF Walking
<1> QED
  BY <1>1, <1>4

----------------------------------------------------------------------------
(* Where a walk ends with a match. *)

LEMMA MatchHash ==
    ASSUME NEW flt \in Text, NEW top \in Text, NEW i, NEW j, NEW a, NEW b, Walking(flt, top, i, j, a, b),
           FilterValid(flt), i <= Len(flt), flt[i] = "#"
    PROVE  LevelsMatch(flt, top) /\ i = Len(flt)
<1> DEFINE n == Rank(flt, a - 1)
<1>0. /\ Len(flt) \in Nat /\ i \in Nat \ {0} /\ n \in Nat /\ n <= LevelCount(top)
      /\ LevelCount(top) \in Nat
  BY WalkTypes, LevelCountIs
<1>1. i = Len(flt) /\ i = a
  BY WildcardFirst, WalkTypes DEF FilterValid
<1>2. LevelIs(flt, n + 1, a, Len(flt) + 1)
  BY <1>0, <1>1 DEF LevelIs, Walking
<1>3. n + 1 = LevelCount(flt)
  BY <1>2, LastLevel
<1>4. Level(flt, n + 1) = <<"#">>
  BY <1>1, <1>2, LevelIsChar
<1>5. \A k \in 1 .. n : Agree(flt, top, k)
  BY DEF Walking
<1> HIDE DEF n
<1>6. Last(flt) = <<"#">>
  BY <1>3, <1>4 DEF Last
<1>7. LevelCount(flt) - 1 = n
  BY <1>0, <1>3
<1> QED
  BY <1>0, <1>1, <1>5, <1>6, <1>7 DEF LevelsMatch, Agree

LEMMA MatchParent ==
    ASSUME NEW flt \in Text, NEW top \in Text, NEW i, NEW j, NEW a, NEW b, Walking(flt, top, i, j, a, b),
           i = Len(flt) - 1, flt[i] = "/", flt[i + 1] = "#", j = Len(top) + 1
    PROVE  LevelsMatch(flt, top)
<1> DEFINE n == Rank(flt, a - 1)
<1>0. /\ Len(flt) \in Nat /\ i \in Nat \ {0} /\ n \in Nat
      /\ LevelCount(top) \in Nat
  <2>1. Len(flt) \in Nat /\ i \in Nat /\ a <= i /\ a \in Nat \ {0}
    BY WalkTypes
  <2>2. Rank(flt, a - 1) \in Nat
    BY WalkTypes
  <2>3. LevelCount(top) \in Nat
    BY LevelCountIs
  <2> QED
    BY <2>1, <2>2, <2>3
<1>1. LevelIs(flt, n + 1, a, i) /\ LevelIs(top, n + 1, b, j) /\ Agree(flt, top, n + 1)
  BY FilterLevel, TopicLevel, LevelAgrees
<1>2. \A k \in 1 .. n : Agree(flt, top, k)
  BY DEF Walking
<1> HIDE DEF n
<1>3. n + 1 = LevelCount(top)
  BY <1>1, LastLevel
<1>4. LevelIs(flt, n + 2, i + 1, Len(flt) + 1)
  <2>1. Rank(flt, i) = n + 1 /\ (i + 1) - 1 = i
    BY <1>0, <1>1, LevelAt
  <2>2. Rank(flt, (i + 1) - 1) + 1 = n + 2
    BY <2>1, <1>0
  <2> QED
    BY <2>2, <1>0 DEF LevelIs
<1>5. n + 2 = LevelCount(flt)
  BY <1>4, LastLevel
<1>6. Level(flt, n + 2) = <<"#">>
  <2>1. ASSUME NEW c, NEW e, c = i + 1, e = Len(flt) + 1
        PROVE  e = c + 1 /\ flt[c] = "#"
    BY <1>0, <2>1
  <2> QED
    BY <1>4, <2>1, LastIsHash
<1>7. Last(flt) = <<"#">> /\ LevelCount(flt) - 1 = n + 1
  BY <1>0, <1>5, <1>6 DEF Last
<1>8. \A k \in 1 .. n + 1 : Agree(flt, top, k)
  BY <1>0, <1>1, <1>2
<1> QED
  BY <1>0, <1>3, <1>7, <1>8 DEF LevelsMatch, Agree

(* A level without a '#' is none of the last kind. *)
LEMMA WalkNotHash ==
    ASSUME NEW flt \in Text, NEW top \in Text, NEW i, NEW j, NEW a, NEW b, Walking(flt, top, i, j, a, b),
           i = Len(flt) + 1 \/ flt[i] = "/"
    PROVE  Level(flt, Rank(flt, a - 1) + 1) # <<"#">>
<1> DEFINE k == Rank(flt, a - 1) + 1
<1>1. LevelIs(flt, k, a, i)
  BY FilterLevel
<1> SUFFICES ASSUME Level(flt, k) = <<"#">> PROVE FALSE
  OBVIOUS
<1> HIDE DEF k
<1>2. i = a + 1 /\ flt[a] = "#"
  BY <1>1, LevelIsChar
<1>3. 0 \in 0 .. i - a - 1 /\ a + 0 = a
  <2>1. a \in Nat
    BY WalkTypes
  <2> QED
    BY <1>2, <2>1
<1> QED
  BY <1>2, <1>3 DEF Walking

LEMMA MatchEnds ==
    ASSUME NEW flt \in Text, NEW top \in Text, NEW i, NEW j, NEW a, NEW b, Walking(flt, top, i, j, a, b),
           i = Len(flt) + 1, j = Len(top) + 1
    PROVE  LevelsMatch(flt, top)
<1> DEFINE n == Rank(flt, a - 1)
<1>0. n \in Nat
  BY WalkTypes
<1>1. LevelIs(flt, n + 1, a, i) /\ LevelIs(top, n + 1, b, j) /\ Agree(flt, top, n + 1)
  BY FilterLevel, TopicLevel, LevelAgrees
<1>2. \A k \in 1 .. n : Agree(flt, top, k)
  BY DEF Walking
<1>3. Level(flt, n + 1) # <<"#">>
  BY WalkNotHash
<1> HIDE DEF n
<1>4. n + 1 = LevelCount(flt) /\ n + 1 = LevelCount(top)
  BY <1>1, LastLevel
<1>5. Last(flt) # <<"#">>
  BY <1>3, <1>4 DEF Last
<1>6. \A k \in 1 .. n + 1 : Agree(flt, top, k)
  BY <1>0, <1>1, <1>2
<1> QED
  BY <1>0, <1>4, <1>5, <1>6 DEF LevelsMatch, Agree

----------------------------------------------------------------------------
(* Where it ends without one. *)

(* The levels that the pointers are in, and their ends. *)
LEMMA LevelFrom ==
    ASSUME NEW s \in Text, NEW a \in 1 .. Len(s) + 1, a = 1 \/ s[a - 1] = "/"
    PROVE  /\ Rank(s, a - 1) + 1 \in 1 .. LevelCount(s)
           /\ \E e \in Nat : LevelIs(s, Rank(s, a - 1) + 1, a, e)
<1> DEFINE n == Rank(s, a - 1)
<1>0. Len(s) \in Nat /\ a - 1 \in Cuts(s) /\ (a - 1) + 1 = a
  BY CutFacts
<1>1. n + 1 \in 1 .. LevelCount(s)
  <2>1. Rank(s, (a - 1) + 1) = n + 1 /\ n \in Nat
    BY <1>0, RankFacts
  <2>2. Rank(s, a) <= Rank(s, Len(s) + 1)
    BY <1>0, RankFacts
  <2>3. n + 1 <= LevelCount(s)
    BY <1>0, <2>1, <2>2, LevelCountIs
  <2> QED
    BY <2>1, <2>3, LevelCountIs
<1>2. PICK c, e \in Nat : LevelIs(s, n + 1, c, e)
  BY <1>1, LevelExists
<1>3. c - 1 \in Cuts(s) /\ Rank(s, c - 1) = n
  <2>1. c - 1 \in Cuts(s)
    BY <1>2, LevelAt
  <2>2. n + 1 = Rank(s, c - 1) + 1
    BY <1>2 DEF LevelIs
  <2>3. n \in Nat /\ Rank(s, c - 1) \in Nat
    <3>1. a - 1 \in Int /\ c - 1 \in Int
      OBVIOUS
    <3> QED
      BY <3>1, RankFacts
  <2> QED
    BY <2>1, <2>2, <2>3
<1>4. c = a
  <2>1. c - 1 = a - 1
    BY <1>0, <1>3, CutUnique
  <2> QED
    BY <2>1
<1> QED
  BY <1>1, <1>2, <1>4

LEMMA LevelEnds ==
    ASSUME NEW flt \in Text, NEW top \in Text, NEW i, NEW j, NEW a, NEW b, Walking(flt, top, i, j, a, b)
    PROVE  /\ Rank(flt, a - 1) + 1 \in 1 .. LevelCount(flt)
           /\ Rank(flt, a - 1) + 1 \in 1 .. LevelCount(top)
           /\ \E e, d \in Nat :
                 /\ LevelIs(flt, Rank(flt, a - 1) + 1, a, e) /\ i <= e
                 /\ LevelIs(top, Rank(flt, a - 1) + 1, b, d) /\ j <= d
<1> DEFINE n == Rank(flt, a - 1) + 1
<1>0. Rank(top, b - 1) + 1 = n
  BY WalkTypes
<1>1. n \in 1 .. LevelCount(flt) /\ n \in 1 .. LevelCount(top)
  BY <1>0, LevelFrom DEF Walking
<1>2. PICK e \in Nat : LevelIs(flt, n, a, e)
  BY LevelFrom DEF Walking
<1>3. PICK d \in Nat : LevelIs(top, n, b, d)
  BY <1>0, LevelFrom DEF Walking
<1>4. /\ a <= e /\ (e = Len(flt) + 1 \/ flt[e] = "/")
      /\ b <= d /\ (d = Len(top) + 1 \/ top[d] = "/")
      /\ Len(flt) \in Nat /\ Len(top) \in Nat
      /\ a \in Nat /\ b \in Nat /\ i \in Nat /\ j \in Nat
      /\ i <= Len(flt) + 1 /\ j <= Len(top) + 1
  BY <1>2, <1>3, WalkTypes DEF LevelIs
<1>5. i <= e /\ j <= d
  <2>1. CASE /\ i - a = j - b
             /\ \A m \in 0 .. i - a - 1 : flt[a + m] = top[b + m] /\ flt[a + m] \notin {"/", "+", "#"}
    <3>1. i <= e
      <4> SUFFICES ASSUME e < i PROVE FALSE
        BY <1>4
      <4>1. e - a \in 0 .. i - a - 1 /\ a + (e - a) = e /\ e # Len(flt) + 1
        BY <1>4
      <4> QED
        BY <1>4, <2>1, <4>1
    <3>2. j <= d
      <4> SUFFICES ASSUME d < j PROVE FALSE
        BY <1>4
      <4>1. d - b \in 0 .. i - a - 1 /\ b + (d - b) = d /\ d # Len(top) + 1
        BY <1>4, <2>1
      <4> QED
        BY <1>4, <2>1, <4>1
    <3> QED
      BY <3>1, <3>2
  <2>2. CASE i = a + 1 /\ flt[a] = "+" /\ \A m \in b .. j - 1 : top[m] # "/"
    <3>1. i <= e
      <4>1. flt[a] # "/" /\ a # Len(flt) + 1
        BY <1>4, <2>2
      <4>2. e # a
        BY <1>4, <4>1
      <4> QED
        BY <1>4, <2>2, <4>2
    <3>2. j <= d
      <4> SUFFICES ASSUME d < j PROVE FALSE
        BY <1>4
      <4>1. d \in b .. j - 1 /\ d # Len(top) + 1
        BY <1>4
      <4> QED
        BY <1>4, <2>2, <4>1
    <3> QED
      BY <3>1, <3>2
  <2> QED
    BY <2>1, <2>2 DEF Walking
<1> QED
  BY <1>1, <1>2, <1>3, <1>5

LEMMA LastEnds ==
    ASSUME NEW s \in Text, NEW k, NEW a, NEW e, LevelIs(s, k, a, e), k = LevelCount(s)
    PROVE  e = Len(s) + 1
<1>1. Rank(s, e) = Rank(s, Len(s) + 1) /\ e \in Cuts(s) /\ Len(s) + 1 \in Cuts(s)
  BY LevelAt, LevelCountIs, CutFacts
<1> QED
  BY <1>1, CutUnique

LEMMA MatchAgrees ==
    ASSUME NEW flt, NEW top, LevelsMatch(flt, top), NEW k \in 1 .. LevelCount(flt),
           LevelCount(flt) \in Nat, Level(flt, k) # <<"#">> \/ k # LevelCount(flt)
    PROVE  Agree(flt, top, k) /\ k <= LevelCount(top)
<1>1. CASE Last(flt) = <<"#">>
  <2>1. k # LevelCount(flt)
    BY <1>1 DEF Last
  <2>2. k \in 1 .. LevelCount(flt) - 1
    BY <2>1
  <2> QED
    BY <1>1, <2>2 DEF LevelsMatch, Agree
<1>2. CASE Last(flt) # <<"#">>
  BY <1>2 DEF LevelsMatch, Agree
<1> QED
  BY <1>1, <1>2

(* A level of which characters have been read, or that goes on, is no      *)
(* wildcard.                                                               *)
LEMMA NotWild ==
    ASSUME NEW flt \in Text, NEW i, NEW k, NEW a, NEW e, LevelIs(flt, k, a, e), i \in a .. e,
           \A m \in 0 .. i - a - 1 : flt[a + m] \notin {"/", "+", "#"},
           i < e => flt[i] \notin {"+", "#"}
    PROVE  Level(flt, k) \notin {<<"+">>, <<"#">>}
<1> SUFFICES ASSUME NEW w \in {"+", "#"}, Level(flt, k) = <<w>> PROVE FALSE
  OBVIOUS
<1>0. a \in Nat /\ e \in Nat /\ a <= e
  BY LevelChars
<1>1. e = a + 1 /\ flt[a] = w
  BY LevelIsChar
<1>2. CASE i = a
  BY <1>0, <1>1, <1>2
<1>3. CASE i # a
  <2>1. 0 \in 0 .. i - a - 1 /\ a + 0 = a
    BY <1>0, <1>3
  <2> QED
    BY <1>1, <2>1
<1> QED
  BY <1>2, <1>3

LEMMA NoMatchChar ==
    ASSUME NEW flt \in Text, NEW top \in Text, NEW i, NEW j, NEW a, NEW b, Walking(flt, top, i, j, a, b),
           FilterValid(flt), i <= Len(flt), j <= Len(top), flt[i] # top[j], flt[i] \notin {"+", "#"}
    PROVE  ~LevelsMatch(flt, top)
<1> SUFFICES ASSUME LevelsMatch(flt, top) PROVE FALSE
  OBVIOUS
<1> DEFINE k == Rank(flt, a - 1) + 1
<1>1. PICK e, d \in Nat :
        LevelIs(flt, k, a, e) /\ i <= e /\ LevelIs(top, k, b, d) /\ j <= d
  BY LevelEnds
<1>2. k \in 1 .. LevelCount(flt)
  BY LevelEnds
<1> HIDE DEF k
<1>3. /\ a \in Nat /\ b \in Nat /\ i \in Nat /\ j \in Nat /\ a <= i /\ b <= j
      /\ Len(flt) \in Nat /\ Len(top) \in Nat
  BY WalkTypes
<1>4. CASE i = a + 1 /\ flt[a] = "+" /\ (j = Len(top) + 1 \/ top[j] = "/")
  <2>1. a \in 1 .. Len(flt) /\ a # Len(flt)
    <3>1. a # 0
      BY WalkTypes
    <3> QED
      BY <1>3, <1>4, <3>1
  <2>2. flt[a + 1] = "/"
    BY <1>4, <2>1 DEF FilterValid
  <2>3. top[j] = "/"
    BY <1>3, <1>4
  <2> QED
    BY <2>2, <2>3, <1>4
<1>5. CASE /\ i - a = j - b
           /\ \A x \in 0 .. i - a - 1 : flt[a + x] = top[b + x] /\ flt[a + x] \notin {"/", "+", "#"}
  <2>1. Level(flt, k) \notin {<<"+">>, <<"#">>}
    <3>1. i \in a .. e /\ LevelIs(flt, k, a, e)
      BY <1>1, <1>3, <1>5
    <3>2. \A m \in 0 .. i - a - 1 : flt[a + m] \notin {"/", "+", "#"}
      BY <1>1, <1>3, <1>5
    <3>3. i < e => flt[i] \notin {"+", "#"}
      BY <1>1, <1>3, <1>5
    <3> QED
      BY <3>1, <3>2, <3>3, NotWild
  <2>2. Level(flt, k) = Level(top, k)
    BY <1>2, <2>1, MatchAgrees, LevelCountIs DEF Agree
  <2>3. e - a = d - b /\ \A x \in 0 .. e - a - 1 : flt[a + x] = top[b + x]
    BY <1>1, <2>2, LevelsEqual
  <2>4. CASE i < e
    <3>1. i - a \in 0 .. e - a - 1 /\ a + (i - a) = i /\ b + (i - a) = j
      BY <1>3, <1>5, <2>4
    <3>2. flt[a + (i - a)] = top[b + (i - a)]
      BY <2>3, <3>1
    <3> QED
      BY <3>1, <3>2
  <2>5. CASE i = e
    <3>1. j = d
      BY <1>3, <1>5, <2>3, <2>5
    <3>2. flt[i] = "/" /\ top[j] = "/"
      BY <1>1, <1>3, <2>5, <3>1 DEF LevelIs
    <3> QED
      BY <3>2
  <2> QED
    BY <1>1, <1>3, <2>4, <2>5
<1> QED
  BY <1>4, <1>5 DEF Walking

LEMMA NoMatchLonger ==
    ASSUME NEW flt \in Text, NEW top \in Text, NEW i, NEW j, NEW a, NEW b, Walking(flt, top, i, j, a, b),
           i = Len(flt) + 1, j <= Len(top)
    PROVE  ~LevelsMatch(flt, top)
<1> SUFFICES ASSUME LevelsMatch(flt, top) PROVE FALSE
  OBVIOUS
<1> DEFINE k == Rank(flt, a - 1) + 1
<1>1. LevelIs(flt, k, a, i) /\ Level(flt, k) # <<"#">>
  BY FilterLevel, WalkNotHash
<1>2. PICK d \in Nat : LevelIs(top, k, b, d)
  BY LevelEnds
<1>3. (j = Len(top) + 1 \/ top[j] = "/") => LevelIs(top, k, b, j)
  BY TopicLevel
<1> HIDE DEF k
<1>4. k = LevelCount(flt) /\ k \in 1 .. LevelCount(flt)
  BY <1>1, LastLevel, LevelAt
<1>5. k = LevelCount(top)
  BY <1>1, <1>4 DEF LevelsMatch, Last
<1>6. /\ a \in Nat /\ b \in Nat /\ i \in Nat /\ j \in Nat /\ a <= i /\ b <= j
      /\ Len(flt) \in Nat /\ Len(top) \in Nat
  BY WalkTypes
<1>7. CASE i = a + 1 /\ flt[a] = "+" /\ (j = Len(top) + 1 \/ top[j] = "/")
  <2>1. j = Len(top) + 1
    BY <1>3, <1>5, <1>7, LastEnds
  <2> QED
    BY <2>1, <1>6
<1>8. CASE /\ i - a = j - b
           /\ \A x \in 0 .. i - a - 1 : flt[a + x] = top[b + x] /\ flt[a + x] \notin {"/", "+", "#"}
  <2>1. Level(flt, k) \notin {<<"+">>, <<"#">>}
    <3>1. i \in a .. i /\ LevelIs(flt, k, a, i)
      BY <1>1, <1>6, <1>8
    <3>2. \A m \in 0 .. i - a - 1 : flt[a + m] \notin {"/", "+", "#"}
      BY <1>1, <1>6, <1>8
    <3>3. i < i => flt[i] \notin {"+", "#"}
      BY <1>1, <1>6, <1>8
    <3> QED
      BY <3>1, <3>2, <3>3, NotWild
  <2>2. Level(flt, k) = Level(top, k)
    BY <1>4, <2>1, MatchAgrees, LevelCountIs DEF Agree
  <2>3. i - a = d - b
    BY <1>1, <1>2, <2>2, LevelsEqual
  <2>4. d = Len(top) + 1
    BY <1>2, <1>5, LastEnds
  <2> QED
    BY <1>6, <1>8, <2>3, <2>4
<1> QED
  BY <1>7, <1>8 DEF Walking

LEMMA EmptyLevel ==
    ASSUME NEW s \in Text, NEW k, NEW a, LevelIs(s, k, a, a)
    PROVE  Level(s, k) = <<>>
<1>1. /\ a \in Nat /\ a = a + Len(Level(s, k)) /\ Level(s, k) \in Seq(STRING \ {"0"})
  BY LevelChars DEF Text
<1>2. Len(Level(s, k)) \in Nat
  BY <1>1
<1>3. Len(Level(s, k)) = 0
  BY <1>1, <1>2
<1> QED
  BY <1>1, <1>3, EmptySeq

LEMMA NoMatchShorter ==
    ASSUME NEW flt \in Text, NEW top \in Text, NEW i, NEW j, NEW a, NEW b, Walking(flt, top, i, j, a, b),
           FilterValid(flt), i <= Len(flt), j = Len(top) + 1, flt[i] # "#", Last(top) # <<>>,
           ~(flt[i] = "/" /\ i + 1 = Len(flt) /\ flt[i + 1] = "#")
    PROVE  ~LevelsMatch(flt, top)
<1> SUFFICES ASSUME LevelsMatch(flt, top) PROVE FALSE
  OBVIOUS
<1> DEFINE k == Rank(flt, a - 1) + 1
<1>1. PICK e \in Nat : LevelIs(flt, k, a, e) /\ i <= e
  BY LevelEnds
<1>2. LevelIs(top, k, b, j) /\ k \in 1 .. LevelCount(flt)
  BY TopicLevel, LevelEnds
<1>3. flt[i] = "/" => LevelIs(flt, k, a, i)
  BY FilterLevel
<1>k. k \in Nat
  BY WalkTypes
<1> HIDE DEF k
<1>4. /\ a \in Nat \ {0} /\ b \in Nat /\ i \in Nat /\ j \in Nat /\ a <= i /\ b <= j
      /\ Len(flt) \in Nat /\ Len(top) \in Nat
      /\ LevelCount(flt) \in Nat
  BY WalkTypes, LevelCountIs
<1>5. k = LevelCount(top) /\ b # j
  <2>1. k = LevelCount(top)
    BY <1>2, LastLevel
  <2>2. b = j => Level(top, k) = <<>>
    BY <1>2, EmptyLevel
  <2> QED
    BY <2>1, <2>2 DEF Last
<1>6. CASE flt[i] = "/"
  <2>1. i \in Cuts(flt) /\ Rank(flt, i) = k
    BY <1>3, <1>6, LevelAt
  <2>2. i + 1 \in 1 .. Len(flt) + 1 /\ (i + 1) - 1 = i
    BY <1>4
  <2>3. /\ k + 1 \in 1 .. LevelCount(flt)
        /\ \E c \in Nat : LevelIs(flt, k + 1, i + 1, c)
    BY <1>6, <2>1, <2>2, LevelFrom
  <2>4. PICK c \in Nat : LevelIs(flt, k + 1, i + 1, c)
    BY <2>3
  <2>5. CASE Last(flt) = <<"#">>
    <3>1. LevelCount(flt) - 1 <= k
      BY <1>5, <2>5 DEF LevelsMatch
    <3>2. k + 1 = LevelCount(flt)
      BY <3>1, <2>3, <1>4, <1>k
    <3>3. Level(flt, k + 1) = <<"#">>
      BY <2>5, <3>2 DEF Last
    <3>4. c = (i + 1) + 1 /\ flt[i + 1] = "#"
      BY <2>4, <3>3, LevelIsChar
    <3>5. c = Len(flt) + 1
      BY <2>4, <3>2, LastEnds
    <3> QED
      BY <1>4, <1>6, <3>4, <3>5
  <2>6. CASE Last(flt) # <<"#">>
    <3>1. LevelCount(flt) = k
      BY <1>5, <2>6 DEF LevelsMatch
    <3> QED
      BY <3>1, <2>3, <1>k
  <2> QED
    BY <2>5, <2>6
<1>7. CASE flt[i] # "/"
  <2>1. ~(i = a + 1 /\ flt[a] = "+")
    BY <1>4, <1>7 DEF FilterValid
  <2>2. /\ i - a = j - b
        /\ \A x \in 0 .. i - a - 1 : flt[a + x] = top[b + x] /\ flt[a + x] \notin {"/", "+", "#"}
    BY <2>1 DEF Walking
  <2>3. i < e
    BY <1>1, <1>4, <1>7 DEF LevelIs
  <2>4. i # a
    BY <1>4, <1>5, <2>2
  <2>5. flt[i] # "+"
    BY <2>4, WildcardFirst
  <2>6. Level(flt, k) \notin {<<"+">>, <<"#">>}
    <3>1. i \in a .. e /\ LevelIs(flt, k, a, e)
      BY <1>1, <1>4, <2>2, <2>5
    <3>2. \A m \in 0 .. i - a - 1 : flt[a + m] \notin {"/", "+", "#"}
      BY <1>1, <1>4, <2>2, <2>5
    <3>3. i < e => flt[i] \notin {"+", "#"}
      BY <1>1, <1>4, <2>2, <2>5
    <3> QED
      BY <3>1, <3>2, <3>3, NotWild
  <2>7. Level(flt, k) = Level(top, k)
    BY <1>2, <1>4, <2>6, MatchAgrees DEF Agree
  <2>8. e - a = j - b
    BY <1>1, <1>2, <2>7, LevelsEqual
  <2> QED
    BY <1>4, <2>2, <2>3, <2>8
<1> QED
  BY <1>6, <1>7

----------------------------------------------------------------------------
(* The state machine. *)

MatchInv ==
    /\ fn \in Functions /\ filter \in Text /\ topic \in Text
    /\ PointersInBounds
    /\ ret = "invalid" <=> ~FilterValid(filter)
    /\ ret \in {None, "match"} => ~DollarRule(fn, filter, topic)
    /\ ret = None => \E a, b : Walking(filter, topic, fp, tp, a, b)
    /\ ret = "match" => LevelsMatch(filter, topic)
    /\ ret = "no" /\ fn \in {"topic", "broker"} /\ Last(topic) # <<>>
         => ~Matches(fn, filter, topic)

LEMMA AtFacts ==
    ASSUME NEW s \in Text, NEW i \in Nat \ {0}
    PROVE  /\ Len(s) \in Nat
           /\ i <= Len(s) => At(s, i) = s[i] /\ At(s, i) # "0"
           /\ At(s, i) = "0" <=> Len(s) < i
<1>1. Len(s) \in Nat
  BY CutFacts
<1>2. ASSUME i <= Len(s) PROVE At(s, i) = s[i] /\ At(s, i) # "0"
  <2>1. s[i] \in STRING \ {"0"}
    BY <1>1, <1>2 DEF Text
  <2> QED
    BY <1>1, <1>2, <2>1 DEF At
<1>3. ASSUME Len(s) < i PROVE At(s, i) = "0"
  BY <1>1, <1>3 DEF At
<1> QED
  BY <1>1, <1>2, <1>3

LEMMA MatchStart == MatchInit => MatchInv
<1> SUFFICES ASSUME MatchInit PROVE MatchInv
  OBVIOUS
<1>1. fn \in Functions /\ filter \in Text /\ topic \in Text /\ fp = 1 /\ tp = 1
  BY StringsAssumption DEF MatchInit, Text
<1>2. Len(filter) \in Nat /\ Len(topic) \in Nat
  BY <1>1, CutFacts
<1>3. Walking(filter, topic, fp, tp, 1, 1)
  BY <1>1, WalkStart
<1>4. None \notin {"match", "no", "invalid"}
  BY StringsAssumption
<1>5. ret = IF ~FilterValid(filter) THEN "invalid"
            ELSE IF DollarRule(fn, filter, topic) THEN "no" ELSE None
  BY DEF MatchInit
<1>6. PointersInBounds
  BY <1>1, <1>2, <1>5 DEF PointersInBounds
<1>7. ret = "no" => ~Matches(fn, filter, topic)
  BY <1>5, <1>4 DEF Matches
<1> QED
  BY <1>1, <1>3, <1>4, <1>5, <1>6, <1>7 DEF MatchInv

(* What is known in the loop. *)
LEMMA Running ==
    ASSUME MatchInv, ret = None
    PROVE  /\ filter \in Text /\ topic \in Text /\ FilterValid(filter)
           /\ fp \in Nat \ {0} /\ tp \in Nat \ {0}
           /\ fp <= Len(filter) + 1 /\ tp <= Len(topic) + 1
           /\ Len(filter) \in Nat /\ Len(topic) \in Nat
           /\ ~DollarRule(fn, filter, topic)
           /\ \E a, b : Walking(filter, topic, fp, tp, a, b)
<1>1. filter \in Text /\ topic \in Text /\ Len(filter) \in Nat /\ Len(topic) \in Nat
  BY CutFacts DEF MatchInv
<1>2. ret # "invalid"
  BY StringsAssumption
<1> QED
  BY <1>1, <1>2 DEF MatchInv, PointersInBounds

(* A return with a verdict that is right. *)
LEMMA MatchReturns ==
    ASSUME MatchInv, ret = None, ret' \in {"match", "no"}, UNCHANGED <<fn, filter, topic, fp, tp>>,
           ret' = "match" => LevelsMatch(filter, topic),
           ret' = "no" /\ fn \in {"topic", "broker"} /\ Last(topic) # <<>> => ~LevelsMatch(filter, topic)
    PROVE  MatchInv'
<1>1. filter \in Text /\ topic \in Text /\ FilterValid(filter) /\ ~DollarRule(fn, filter, topic)
  BY Running
<1>2. ret' # None /\ ret' # "invalid"
  BY StringsAssumption
<1>3. PointersInBounds'
  BY DEF MatchInv, PointersInBounds
<1> QED
  BY <1>1, <1>2, <1>3 DEF MatchInv, Matches

(* A step of the pointers. *)
LEMMA MatchMoves ==
    ASSUME MatchInv, ret = None, ret' = ret, UNCHANGED <<fn, filter, topic>>,
           NEW a, NEW b, Walking(filter, topic, fp', tp', a, b)
    PROVE  MatchInv'
<1>1. filter \in Text /\ topic \in Text /\ FilterValid(filter) /\ ~DollarRule(fn, filter, topic)
  BY Running
<1>2. ret' = None /\ None \notin {"match", "no", "invalid"}
  BY StringsAssumption
<1>3. /\ fp' \in Nat /\ tp' \in Nat /\ 1 <= fp' /\ 1 <= tp'
      /\ fp' <= Len(filter) + 1 /\ tp' <= Len(topic) + 1
  BY <1>1, WalkTypes
<1>4. PointersInBounds'
  BY <1>1, <1>2, <1>3, CutFacts DEF PointersInBounds
<1>5. Walking(filter', topic', fp', tp', a, b)
  OBVIOUS
<1> QED
  BY <1>1, <1>2, <1>4, <1>5 DEF MatchInv

LEMMA HashStep == MatchInv /\ Hash => MatchInv'
<1> SUFFICES ASSUME MatchInv, Hash PROVE MatchInv'
  OBVIOUS
<1>0. ret = None /\ At(filter, fp) = "#" /\ UNCHANGED <<fn, filter, topic, fp, tp>>
  BY DEF Hash, InLoop
<1>1. PICK a, b : Walking(filter, topic, fp, tp, a, b)
  BY <1>0, Running
<1>2. fp <= Len(filter) /\ filter[fp] = "#" /\ fp \in Nat \ {0} /\ Len(filter) \in Nat
  BY <1>0, Running, AtFacts
<1>3. LevelsMatch(filter, topic) /\ fp = Len(filter)
  BY <1>0, <1>1, <1>2, Running, MatchHash
<1>4. At(filter, fp + 1) = "0"
  BY <1>0, <1>2, <1>3, Running, AtFacts
<1>5. ret' = "match"
  BY <1>4 DEF Hash
<1> QED
  BY <1>0, <1>3, <1>5, MatchReturns

LEMMA PlusStep == MatchInv /\ Plus => MatchInv'
<1> SUFFICES ASSUME MatchInv, Plus PROVE MatchInv'
  OBVIOUS
<1>0. ret = None /\ At(filter, fp) = "+" /\ UNCHANGED <<fn, filter, topic>> /\ ret' = ret
  BY DEF Plus, InLoop
<1>1. PICK a, b : Walking(filter, topic, fp, tp, a, b)
  BY <1>0, Running
<1>2. /\ fp <= Len(filter) /\ filter[fp] = "+" /\ fp \in Nat \ {0} /\ Len(filter) \in Nat
      /\ tp \in 1 .. Len(topic) + 1 /\ Len(topic) \in Nat
  BY <1>0, Running, AtFacts
<1>3. fp = a /\ tp = b
  BY <1>0, <1>1, <1>2, Running, WildcardFirst
<1>4. PICK end \in Nat : end = SkipLevel(topic, tp)
  BY <1>0, <1>2, Running, SkipLevelEnd
<1>5. Walking(filter, topic, fp + 1, end, fp, tp)
  BY <1>0, <1>1, <1>2, <1>3, <1>4, Running, WalkPlus
<1>6. end \in Nat \ {0}
  BY <1>0, <1>2, <1>4, Running, SkipLevelEnd
<1>7. CASE At(filter, fp + 1) = "/" /\ At(topic, end) = "/" /\ fn = "peer"
  <2>1. fp + 1 <= Len(filter) /\ filter[fp + 1] = "/" /\ end <= Len(topic) /\ topic[end] = "/"
    BY <1>0, <1>2, <1>6, <1>7, Running, AtFacts
  <2>2. Walking(filter, topic, (fp + 1) + 1, end + 1, (fp + 1) + 1, end + 1)
    BY <1>0, <1>5, <2>1, Running, WalkSlash
  <2>3. fp' = (fp + 1) + 1 /\ tp' = end + 1
    BY <1>2, <1>4, <1>7 DEF Plus
  <2> QED
    BY <1>0, <2>2, <2>3, MatchMoves
<1>8. CASE ~(At(filter, fp + 1) = "/" /\ At(topic, end) = "/" /\ fn = "peer")
  <2>1. fp' = fp + 1 /\ tp' = end
    BY <1>4, <1>8 DEF Plus
  <2> QED
    BY <1>0, <1>5, <2>1, MatchMoves
<1> QED
  BY <1>7, <1>8

LEMMA CompareStep == MatchInv /\ Compare => MatchInv'
<1> SUFFICES ASSUME MatchInv, Compare PROVE MatchInv'
  OBVIOUS
<1>0. /\ ret = None /\ At(filter, fp) \notin {"0", "+", "#"} /\ At(topic, tp) # "0"
      /\ UNCHANGED <<fn, filter, topic>>
  BY DEF Compare, InLoop
<1>1. PICK a, b : Walking(filter, topic, fp, tp, a, b)
  BY <1>0, Running
<1>2. /\ fp <= Len(filter) /\ filter[fp] = At(filter, fp)
      /\ tp <= Len(topic) /\ topic[tp] = At(topic, tp)
      /\ filter[fp] \notin {"+", "#"}
  BY <1>0, Running, AtFacts
<1>3. CASE filter[fp] # topic[tp]
  <2>1. ~LevelsMatch(filter, topic)
    BY <1>0, <1>1, <1>2, <1>3, Running, NoMatchChar
  <2>2. ret' = "no" /\ UNCHANGED <<fp, tp>>
    BY <1>2, <1>3 DEF Compare
  <2> QED
    BY <1>0, <2>1, <2>2, MatchReturns
<1>4. CASE filter[fp] = topic[tp]
  <2>1. fp' = fp + 1 /\ tp' = tp + 1 /\ ret' = ret
    BY <1>2, <1>4 DEF Compare
  <2>2. CASE filter[fp] = "/"
    <3>1. Walking(filter, topic, fp + 1, tp + 1, fp + 1, tp + 1)
      BY <1>0, <1>1, <1>2, <1>4, <2>2, Running, WalkSlash
    <3> QED
      BY <1>0, <2>1, <3>1, MatchMoves
  <2>3. CASE filter[fp] # "/"
    <3>1. Walking(filter, topic, fp + 1, tp + 1, a, b)
      BY <1>0, <1>1, <1>2, <1>4, <2>3, Running, WalkChar
    <3> QED
      BY <1>0, <2>1, <3>1, MatchMoves
  <2> QED
    BY <2>2, <2>3
<1> QED
  BY <1>3, <1>4

LEMMA ReturnStep == MatchInv /\ Return => MatchInv'
<1> SUFFICES ASSUME MatchInv, Return PROVE MatchInv'
  OBVIOUS
<1>0. /\ ret = None /\ (At(filter, fp) = "0" \/ At(topic, tp) = "0")
      /\ ret' = (IF Accepts THEN "match" ELSE "no")
      /\ UNCHANGED <<fn, filter, topic, fp, tp>>
  BY DEF Return
<1>1. PICK a, b : Walking(filter, topic, fp, tp, a, b)
  BY <1>0, Running
<1>2. /\ filter \in Text /\ topic \in Text /\ FilterValid(filter)
      /\ Len(filter) \in Nat /\ Len(topic) \in Nat
      /\ fp \in Nat \ {0} /\ fp + 1 \in Nat \ {0} /\ fp + 2 \in Nat \ {0}
      /\ tp \in Nat \ {0}
      /\ fp <= Len(filter) + 1 /\ tp <= Len(topic) + 1
  BY <1>0, Running
<1>3. (fp = Len(filter) + 1 \/ tp = Len(topic) + 1)
  BY <1>0, <1>2, AtFacts
<1>4. ASSUME Accepts PROVE LevelsMatch(filter, topic)
  <2>1. CASE At(filter, fp) = "#"
    <3>1. fp <= Len(filter) /\ filter[fp] = "#"
      BY <1>2, <2>1, AtFacts
    <3> QED
      BY <1>1, <1>2, <3>1, MatchHash
  <2>2. CASE ParentHash
    <3>1. /\ fp <= Len(filter) /\ filter[fp] = "/"
          /\ fp + 1 <= Len(filter) /\ filter[fp + 1] = "#"
          /\ Len(filter) < fp + 2
      BY <1>2, <2>2, AtFacts DEF ParentHash
    <3>2. fp + 1 = Len(filter) /\ tp = Len(topic) + 1
      BY <1>2, <1>3, <3>1
    <3> QED
      BY <1>1, <1>2, <3>1, <3>2, MatchParent
  <2>3. CASE At(filter, fp) = "0" /\ At(topic, tp) = "0"
    <3>1. fp = Len(filter) + 1 /\ tp = Len(topic) + 1
      BY <1>2, <2>3, AtFacts
    <3> QED
      BY <1>1, <1>2, <3>1, MatchEnds
  <2> QED
    BY <1>4, <2>1, <2>2, <2>3 DEF Accepts
<1>5. ASSUME ~Accepts, fn \in {"topic", "broker"}, Last(topic) # <<>>
      PROVE  ~LevelsMatch(filter, topic)
  <2>1. CASE fp = Len(filter) + 1
    <3>1. At(filter, fp) = "0"
      BY <1>2, <2>1, AtFacts
    <3>2. tp <= Len(topic)
      BY <1>2, <1>5, <3>1, AtFacts DEF Accepts
    <3> QED
      BY <1>1, <1>2, <2>1, <3>2, NoMatchLonger
  <2>2. CASE fp # Len(filter) + 1
    <3>1. fp <= Len(filter) /\ tp = Len(topic) + 1 /\ At(filter, fp) = filter[fp] /\ At(topic, tp) = "0"
      BY <1>2, <1>3, <2>2, AtFacts
    <3>2. filter[fp] # "#"
      BY <1>5, <3>1 DEF Accepts
    <3>3. ~(filter[fp] = "/" /\ fp + 1 = Len(filter) /\ filter[fp + 1] = "#")
      <4> SUFFICES ASSUME filter[fp] = "/", fp + 1 = Len(filter), filter[fp + 1] = "#" PROVE FALSE
        OBVIOUS
      <4>1. At(filter, fp + 1) = "#" /\ At(filter, fp + 2) = "0"
        BY <1>2, AtFacts
      <4> QED
        BY <1>5, <3>1, <4>1 DEF Accepts, ParentHash
    <3> QED
      BY <1>1, <1>2, <1>5, <3>1, <3>2, <3>3, NoMatchShorter
  <2> QED
    BY <2>1, <2>2
<1>6. ret' \in {"match", "no"} /\ (ret' = "match" => Accepts) /\ (ret' = "no" => ~Accepts)
  BY <1>0
<1> QED
  BY <1>0, <1>4, <1>5, <1>6, MatchReturns

LEMMA MatchStep == MatchInv /\ [MatchNext]_matchVars => MatchInv'
<1> SUFFICES ASSUME MatchInv, [MatchNext]_matchVars PROVE MatchInv'
  OBVIOUS
<1>1. CASE UNCHANGED matchVars
  BY <1>1 DEF matchVars, MatchInv, PointersInBounds
<1> QED
  BY <1>1, HashStep, PlusStep, CompareStep, ReturnStep DEF MatchNext

LEMMA MatchInvariant == MatchSpec => []MatchInv
<1> QED
  BY MatchStart, MatchStep, PTL DEF MatchSpec

(* The loops of the four matching functions stay inside of their strings,  *)
(* whatever the filter and the topic are.                                  *)
THEOREM InBounds == MatchSpec => []PointersInBounds
<1>1. MatchInv => PointersInBounds
  BY DEF MatchInv
<1> QED
  BY <1>1, MatchInvariant, PTL

(* topic_filter_valid and the four matching functions accept nothing that  *)
(* MQTT does not.                                                          *)
THEOREM NoWrongMatch == MatchSpec => []Sound
<1>1. ASSUME MatchInv PROVE Sound
  <2>1. ret # "invalid" => WellFormed(filter)
    BY <1>1, FilterValidIsWellFormed DEF MatchInv
  <2> QED
    BY <1>1, <2>1 DEF MatchInv, Sound, Matches
<1> QED
  BY <1>1, MatchInvariant, PTL

(* topic_filter_valid, topic_match and mqtt_topic_match accept everything  *)
(* that MQTT does, but for topics with an empty last level.                *)
THEOREM NoMissedMatch == MatchSpec => []Complete
<1>1. ASSUME MatchInv PROVE Complete
  <2>1. ret = "invalid" => ~WellFormed(filter)
    BY <1>1, FilterValidIsWellFormed DEF MatchInv
  <2> QED
    BY <1>1, <2>1 DEF MatchInv, Complete
<1> QED
  BY <1>1, MatchInvariant, PTL

----------------------------------------------------------------------------
(* Keys of shards. *)

(* Strings with the same first levels have the same characters in them.    *)
LEMMA SamePrefix ==
    ASSUME NEW flt \in Text, NEW top \in Text, NEW M \in Nat,
           M <= LevelCount(flt), M <= LevelCount(top),
           \A k \in 1 .. M : Level(flt, k) = Level(top, k)
    PROVE  \E c \in Cuts(flt) \cap Cuts(top) :
              /\ Rank(flt, c) = M /\ Rank(top, c) = M
              /\ \A i \in 1 .. c - 1 : flt[i] = top[i]
<1> DEFINE Same(c, m) == /\ c \in Cuts(flt) \cap Cuts(top)
                         /\ Rank(flt, c) = m /\ Rank(top, c) = m
                         /\ \A i \in 1 .. c - 1 : flt[i] = top[i]
           S == {m \in Nat : m <= M => \E c : Same(c, m)}
<1>0. /\ Len(flt) \in Nat /\ Len(top) \in Nat
      /\ Cuts(flt) \subseteq 0 .. Len(flt) + 1 /\ Cuts(top) \subseteq 0 .. Len(top) + 1
      /\ LevelCount(flt) = Rank(flt, Len(flt) + 1) /\ LevelCount(flt) \in Nat
      /\ LevelCount(top) = Rank(top, Len(top) + 1) /\ LevelCount(top) \in Nat
  BY CutFacts, LevelCountIs
<1>1. 0 \in S
  <2>1. Same(0, 0)
    BY CutFacts, RankFacts
  <2> QED
    BY <2>1
<1>2. ASSUME NEW m \in Nat, m \in S PROVE m + 1 \in S
  <2> SUFFICES ASSUME m + 1 <= M PROVE \E c : Same(c, m + 1)
    OBVIOUS
  <2>1. PICK c : Same(c, m)
    BY <1>2
  <2>2. c \in Nat /\ c # Len(flt) + 1 /\ c # Len(top) + 1
    BY <1>0, <2>1
  <2>3. c <= Len(flt) /\ c <= Len(top)
    <3>1. c \in 0 .. Len(flt) + 1 /\ c \in 0 .. Len(top) + 1
      BY <1>0, <2>1
    <3> QED
      BY <1>0, <2>2, <3>1
  <2>4. PICK a \in Nat \ {0} : a = c + 1
    BY <2>2
  <2>5. /\ a \in 1 .. Len(flt) + 1 /\ a \in 1 .. Len(top) + 1 /\ a - 1 = c
        /\ a = 1 \/ (flt[a - 1] = "/" /\ top[a - 1] = "/")
    <3>1. c # 0 => flt[c] = "/" /\ top[c] = "/"
      BY <2>1, <2>2, <2>3, CutFacts
    <3> QED
      BY <1>0, <2>2, <2>3, <2>4, <3>1
  <2>6. PICK e \in Nat : LevelIs(flt, m + 1, a, e)
    <3>1. Rank(flt, a - 1) + 1 = m + 1
      BY <2>1, <2>5
    <3> QED
      BY <2>5, <3>1, LevelFrom
  <2>7. PICK d \in Nat : LevelIs(top, m + 1, a, d)
    <3>1. Rank(top, a - 1) + 1 = m + 1
      BY <2>1, <2>5
    <3> QED
      BY <2>5, <3>1, LevelFrom
  <2>8. /\ Rank(flt, e) = m + 1 /\ e \in Cuts(flt)
        /\ Rank(top, d) = m + 1 /\ d \in Cuts(top)
    BY <2>6, <2>7, LevelAt
  <2>9. Level(flt, m + 1) = Level(top, m + 1)
    OBVIOUS
  <2>10. e - a = d - a /\ \A i \in 0 .. e - a - 1 : flt[a + i] = top[a + i]
    <3>1. PICK n, b : n = m + 1 /\ b = a
      OBVIOUS
    <3>2. LevelIs(flt, n, a, e) /\ LevelIs(top, n, b, d) /\ Level(flt, n) = Level(top, n)
      BY <2>6, <2>7, <2>9, <3>1
    <3> HIDE DEF S, Same
    <3>3. e - a = d - b /\ \A i \in 0 .. e - a - 1 : flt[a + i] = top[b + i]
      BY ONLY <3>2, LevelsEqual, flt \in Text, top \in Text
    <3> QED
      BY <3>1, <3>3
  <2>11. e = d
    BY <2>10
  <2>12. ASSUME NEW i \in 1 .. e - 1 PROVE flt[i] = top[i]
    <3>1. CASE i < c
      BY <2>1, <2>2, <3>1
    <3>2. CASE i = c
      BY <2>5, <3>2, <2>2
    <3>3. CASE i > c
      <4>1. i - a \in 0 .. e - a - 1 /\ a + (i - a) = i
        BY <2>2, <2>4, <3>3
      <4>2. flt[a + (i - a)] = top[a + (i - a)]
        BY <2>10, <4>1
      <4> QED
        BY <4>1, <4>2
    <3> QED
      BY <2>2, <3>1, <3>2, <3>3
  <2>13. Same(e, m + 1)
    BY <2>8, <2>11, <2>12
  <2> QED
    BY <2>13
<1> HIDE DEF S
<1>3. M \in S
  BY <1>1, <1>2, SetInduction
<1> QED
  BY <1>3 DEF S

(* Separators at the end of a key. *)
Trim(k) ==
    LET first == First({i \in 1 .. Len(k) : \A j \in i .. Len(k) : k[j] = "/"})
    IN IF first = None THEN k ELSE SubSeq(k, 1, first - 1)

LEMMA ShardKeyTrims == \A s : ShardKey(s) = Trim(KeyCopied(s))
  BY DEF ShardKey, Trim

LEMMA PrefixChars ==
    ASSUME NEW s \in Text, NEW n \in 0 .. Len(s)
    PROVE  /\ SubSeq(s, 1, n) \in Text /\ Len(SubSeq(s, 1, n)) = n
           /\ \A i \in 1 .. n : SubSeq(s, 1, n)[i] = s[i]
<1>0. Len(s) \in Nat /\ n \in Nat
  BY CutFacts
<1>1. \A i \in 1 .. n : s[i] \in STRING \ {"0"}
  BY <1>0 DEF Text
<1> DEFINE l == SubSeq(s, 1, n)
<1>2. /\ l \in Text /\ Len(l) = IF 1 <= n THEN n - 1 + 1 ELSE 0
      /\ \A i \in 1 .. n - 1 + 1 : l[i] = s[1 + i - 1]
  BY <1>0, <1>1, SubSeqProperties DEF Text
<1> HIDE DEF l
<1>3. Len(l) = n
  BY <1>0, <1>2
<1>4. \A i \in 1 .. n : l[i] = s[i]
  BY <1>0, <1>2
<1> QED
  BY <1>2, <1>3, <1>4 DEF l

LEMMA TrimSlash ==
    ASSUME NEW u \in Text, NEW n \in Nat, n + 1 \in 1 .. Len(u), u[n + 1] = "/"
    PROVE  Trim(SubSeq(u, 1, n + 1)) = Trim(SubSeq(u, 1, n))
<1> DEFINE k == SubSeq(u, 1, n)
           l == SubSeq(u, 1, n + 1)
           E == {i \in 1 .. Len(k) : \A j \in i .. Len(k) : k[j] = "/"}
           F == {i \in 1 .. Len(l) : \A j \in i .. Len(l) : l[j] = "/"}
<1>0. Len(u) \in Nat /\ n \in 0 .. Len(u) /\ n + 1 \in 0 .. Len(u)
  BY CutFacts
<1>1. /\ k \in Text /\ Len(k) = n /\ \A i \in 1 .. n : k[i] = u[i]
      /\ l \in Text /\ Len(l) = n + 1 /\ \A i \in 1 .. n + 1 : l[i] = u[i]
  BY <1>0, PrefixChars
<1>2. Trim(k) = (IF First(E) = None THEN k ELSE SubSeq(k, 1, First(E) - 1))
  BY DEF Trim
<1>3. Trim(l) = (IF First(F) = None THEN l ELSE SubSeq(l, 1, First(F) - 1))
  BY DEF Trim
<1>4. E = {i \in 1 .. n : \A j \in i .. n : u[j] = "/"}
  BY <1>1
<1>5. F = {i \in 1 .. n + 1 : \A j \in i .. n + 1 : u[j] = "/"}
  BY <1>1
<1> HIDE DEF k, l, E, F
<1>6. F = E \cup {n + 1}
  BY <1>4, <1>5
<1>7. First(F) \in F /\ (\A j \in F : First(F) <= j) /\ First(F) # None
  <2>1. F \subseteq Nat /\ F # {}
    BY <1>5, <1>6
  <2>2. First(F) \in F /\ \A j \in F : First(F) <= j
    BY <2>1, FirstFound
  <2> QED
    BY <2>1, <2>2, StringsAssumption
<1>8. ASSUME NEW e \in 0 .. n
      PROVE  SubSeq(l, 1, e) = SubSeq(k, 1, e)
  <2>1. e \in 0 .. Len(l) /\ e \in 0 .. Len(k)
    BY <1>1
  <2> DEFINE x == SubSeq(l, 1, e)
             y == SubSeq(k, 1, e)
  <2>2. /\ x \in Text /\ Len(x) = e /\ \A i \in 1 .. e : x[i] = l[i]
        /\ y \in Text /\ Len(y) = e /\ \A i \in 1 .. e : y[i] = k[i]
    BY <1>1, <2>1, PrefixChars
  <2> HIDE DEF x, y
  <2>3. Len(x) = Len(y) /\ \A i \in 1 .. Len(x) : x[i] = y[i]
    BY <1>1, <2>2
  <2>4. x = y
    BY <2>2, <2>3, SeqEqual DEF Text
  <2> QED
    BY <2>4 DEF x, y
<1>9. CASE E = {}
  <2>1. First(E) = None /\ First(F) = n + 1
    BY <1>6, <1>7, <1>9, FirstEmpty
  <2>2. Trim(l) = SubSeq(l, 1, n)
    BY <1>3, <1>7, <2>1
  <2>3. SubSeq(l, 1, n) = SubSeq(k, 1, n)
    BY <1>8
  <2>4. SubSeq(k, 1, n) = k
    <3>1. SubSeq(k, 1, Len(k)) = k
      BY <1>1, SubSeqFull DEF Text
    <3> QED
      BY <1>1, <3>1
  <2> QED
    BY <1>2, <2>1, <2>2, <2>3, <2>4 DEF k, l
<1>10. CASE E # {}
  <2>1. E \subseteq Nat /\ \A i \in E : i <= n
    BY <1>4
  <2>2. First(E) \in E /\ \A j \in E : First(E) <= j
    BY <1>10, <2>1, FirstFound
  <2>3. First(F) = First(E) /\ First(E) # None
    <3>1. First(E) \in F /\ First(E) # n + 1
      BY <1>6, <2>1, <2>2
    <3>2. First(F) <= First(E)
      BY <1>7, <3>1
    <3>3. First(E) <= n /\ First(E) \in Nat
      BY <2>1, <2>2
    <3>4. First(F) # n + 1
      BY <3>2, <3>3
    <3>5. First(F) \in E
      BY <1>6, <1>7, <3>4
    <3>6. First(E) <= First(F) /\ First(F) \in Nat
      BY <2>1, <2>2, <3>5
    <3>7. First(F) = First(E)
      BY <3>2, <3>3, <3>6
    <3> QED
      BY <3>3, <3>7, StringsAssumption
  <2>4. First(E) - 1 \in 0 .. n
    BY <2>2, <1>4
  <2>5. SubSeq(l, 1, First(E) - 1) = SubSeq(k, 1, First(E) - 1)
    BY <1>8, <2>4
  <2> QED
    BY <1>2, <1>3, <2>3, <2>5 DEF k, l
<1> QED
  BY <1>9, <1>10

(* The separators up to one of them are the cuts before it but the first,  *)
(* and itself.                                                             *)
LEMMA SlashCount ==
    ASSUME NEW s \in Text, NEW i \in 1 .. Len(s), s[i] = "/"
    PROVE  Cardinality({j \in 1 .. i : s[j] = "/"}) = Rank(s, i)
<1> DEFINE D == {d \in Cuts(s) : d < i}
           E == {j \in 1 .. i : s[j] = "/"}
           B == D \ {0}
<1>0. /\ Len(s) \in Nat /\ i \in Nat /\ 0 \in Cuts(s) /\ IsFiniteSet(Cuts(s))
      /\ Cuts(s) \subseteq 0 .. Len(s) + 1
      /\ \A j \in 1 .. Len(s) : j \in Cuts(s) <=> s[j] = "/"
  BY CutFacts
<1>1. IsFiniteSet(D) /\ 0 \in D
  BY <1>0, FS_Subset
<1>2. IsFiniteSet(B) /\ Cardinality(B) = Cardinality(D) - 1
  BY <1>1, FS_RemoveElement
<1>3. i \notin B /\ E = B \cup {i}
  BY <1>0
<1> HIDE DEF B, E
<1>4. Cardinality(E) = Cardinality(B) + 1
  BY <1>2, <1>3, FS_AddElement
<1>5. Cardinality(D) \in Nat
  BY <1>1, FS_CardinalityType
<1>6. Cardinality(E) = Cardinality(D)
  BY <1>2, <1>4, <1>5
<1> QED
  BY <1>6 DEF E, Rank

(* Without wildcards the key is copied up to the cut after as many levels  *)
(* as make a key.                                                          *)
LEMMA KeyCopiedIs ==
    ASSUME NEW s \in Text, NEW c \in Cuts(s), c # 0, Rank(s, c) = P2P_SHARD_KEY_LEVELS,
           \A i \in 1 .. c - 1 : s[i] \notin {"+", "#"}
    PROVE  KeyCopied(s) = IF c = Len(s) + 1 THEN s ELSE SubSeq(s, 1, c)
<1> DEFINE E == {i \in 1 .. Len(s) :
                    \/ s[i] \in {"+", "#"}
                    \/ s[i] = "/" /\ Cardinality({j \in 1 .. i : s[j] = "/"}) = P2P_SHARD_KEY_LEVELS}
<1>0. /\ Len(s) \in Nat /\ c \in 1 .. Len(s) + 1
      /\ \A j \in 1 .. Len(s) : j \in Cuts(s) <=> s[j] = "/"
  BY CutFacts
<1>1. KeyCopied(s) = (IF First(E) = None THEN s
                      ELSE SubSeq(s, 1, IF s[First(E)] = "/" THEN First(E) ELSE First(E) - 1))
  BY DEF KeyCopied
<1>2. ASSUME NEW i \in E PROVE i >= c /\ i \in 1 .. Len(s)
  <2> SUFFICES ASSUME i < c PROVE FALSE
    BY <1>0
  <2>1. i \in 1 .. Len(s) /\ i \in 1 .. c - 1
    BY <1>0
  <2>2. s[i] = "/" /\ Cardinality({j \in 1 .. i : s[j] = "/"}) = P2P_SHARD_KEY_LEVELS
    BY <2>1
  <2>3. i \in Cuts(s) /\ Rank(s, i) = Rank(s, c)
    BY <1>0, <2>1, <2>2, SlashCount
  <2>4. i = c
    BY <2>3, CutUnique
  <2> QED
    BY <1>0, <2>4
<1>3. CASE c = Len(s) + 1
  <2>1. E = {}
    BY <1>0, <1>2, <1>3
  <2> HIDE DEF E
  <2>2. First(E) = None
    BY <2>1, FirstEmpty
  <2> QED
    BY <1>1, <1>3, <2>2
<1>4. CASE c # Len(s) + 1
  <2>1. c \in 1 .. Len(s) /\ s[c] = "/"
    BY <1>0, <1>4
  <2>2. c \in E
    BY <2>1, SlashCount
  <2>3. E \subseteq Nat
    BY <1>0
  <2> HIDE DEF E
  <2>4. First(E) \in E /\ First(E) <= c
    BY <2>2, <2>3, FirstFound
  <2>5. First(E) = c
    BY <1>0, <1>2, <2>4
  <2>6. First(E) # None
    BY <1>0, <2>5, StringsAssumption
  <2> QED
    BY <1>1, <1>4, <2>1, <2>5, <2>6
<1> QED
  BY <1>3, <1>4

(* A wildcard of a valid filter is a level. *)
LEMMA WildcardLevel ==
    ASSUME NEW s \in Text, FilterValid(s), NEW p \in 1 .. Len(s), s[p] \in {"+", "#"}
    PROVE  /\ Rank(s, p) \in 1 .. LevelCount(s)
           /\ Level(s, Rank(s, p)) = <<s[p]>>
<1>0. Len(s) \in Nat /\ p \in Nat \ {0} /\ p <= Len(s)
  BY CutFacts
<1>1. (p = 1 \/ s[p - 1] = "/") /\ (p = Len(s) \/ s[p + 1] = "/")
  BY DEF FilterValid
<1>2. p - 1 \in Cuts(s) /\ (p - 1) + 1 = p
  BY <1>0, <1>1, CutFacts
<1>3. Rank(s, p) = Rank(s, p - 1) + 1
  <2>1. Rank(s, (p - 1) + 1) = Rank(s, p - 1) + 1
    BY <1>2, RankFacts
  <2> QED
    BY <1>2, <2>1
<1>4. Rank(s, p) \in 1 .. LevelCount(s)
  <2>1. p \in 1 .. Len(s) + 1
    BY <1>0
  <2> QED
    BY <1>1, <1>3, <2>1, LevelFrom
<1>5. LevelIs(s, Rank(s, p), p, p + 1)
  <2>1. p \in 1 .. Len(s) + 1 /\ p + 1 \in p .. Len(s) + 1 /\ p .. (p + 1) - 1 = {p}
    BY <1>0
  <2>2. s[p] # "/"
    OBVIOUS
  <2>3. p + 1 = Len(s) + 1 \/ s[p + 1] = "/"
    BY <1>1
  <2> QED
    BY <1>1, <1>3, <2>1, <2>2, <2>3 DEF LevelIs
<1>6. Level(s, Rank(s, p)) = <<s[p]>>
  BY <1>5, LevelIsChar
<1> QED
  BY <1>4, <1>6

(* Strings that are the same up to a cut after as many levels as make a    *)
(* key have the same key; one of them may end where the other goes on.     *)
LEMMA EndingKey ==
    ASSUME NEW s \in Text, NEW u \in Text, NEW c \in Cuts(s), c \in Cuts(u), c # 0,
           Rank(s, c) = P2P_SHARD_KEY_LEVELS, Rank(u, c) = P2P_SHARD_KEY_LEVELS,
           \A i \in 1 .. c - 1 : s[i] = u[i] /\ s[i] \notin {"+", "#"},
           c = Len(s) + 1
    PROVE  ShardKey(s) = ShardKey(u)
<1>0. Len(s) \in Nat /\ Len(u) \in Nat /\ c \in Nat /\ c \in 1 .. Len(u) + 1
  BY CutFacts
<1>1. KeyCopied(s) = s /\ KeyCopied(u) = IF c = Len(u) + 1 THEN u ELSE SubSeq(u, 1, c)
  <2>1. \A i \in 1 .. c - 1 : u[i] \notin {"+", "#"}
    OBVIOUS
  <2>2. KeyCopied(s) = IF c = Len(s) + 1 THEN s ELSE SubSeq(s, 1, c)
    BY KeyCopiedIs
  <2>3. KeyCopied(u) = IF c = Len(u) + 1 THEN u ELSE SubSeq(u, 1, c)
    BY <2>1, KeyCopiedIs
  <2> QED
    BY <2>2, <2>3
<1>2. CASE c = Len(u) + 1
  <2>1. Len(s) = Len(u) /\ \A i \in 1 .. Len(s) : s[i] = u[i]
    BY <1>0, <1>2
  <2>2. s = u
    BY <2>1, SeqEqual DEF Text
  <2> QED
    BY <2>2
<1>3. CASE c # Len(u) + 1
  <2>1. c \in 1 .. Len(u) /\ c = Len(s) + 1 /\ Len(s) \in 0 .. Len(u)
    BY <1>0, <1>3
  <2>2. u[c] = "/"
    BY <2>1, CutFacts
  <2> DEFINE k == SubSeq(u, 1, Len(s))
  <2>3. k \in Text /\ Len(k) = Len(s) /\ \A i \in 1 .. Len(s) : k[i] = u[i]
    BY <2>1, PrefixChars
  <2> HIDE DEF k
  <2>4. Len(s) = Len(k) /\ \A i \in 1 .. Len(s) : s[i] = k[i]
    BY <1>0, <2>1, <2>3
  <2>5. s = k
    BY <2>3, <2>4, SeqEqual DEF Text
  <2>6. Trim(SubSeq(u, 1, Len(s) + 1)) = Trim(SubSeq(u, 1, Len(s)))
    <3>1. Len(s) + 1 \in 1 .. Len(u) /\ u[Len(s) + 1] = "/"
      BY <2>1, <2>2
    <3> QED
      BY <1>0, <3>1, TrimSlash
  <2>7. KeyCopied(u) = SubSeq(u, 1, Len(s) + 1)
    BY <1>1, <1>3
  <2> QED
    BY <1>1, <2>5, <2>6, <2>7, ShardKeyTrims DEF k
<1> QED
  BY <1>2, <1>3

LEMMA PrefixKey ==
    ASSUME NEW s \in Text, NEW u \in Text, NEW c \in Cuts(s), c \in Cuts(u), c # 0,
           Rank(s, c) = P2P_SHARD_KEY_LEVELS, Rank(u, c) = P2P_SHARD_KEY_LEVELS,
           \A i \in 1 .. c - 1 : s[i] = u[i] /\ s[i] \notin {"+", "#"}
    PROVE  ShardKey(s) = ShardKey(u)
<1>0. Len(s) \in Nat /\ Len(u) \in Nat /\ c \in 1 .. Len(s) + 1 /\ c \in 1 .. Len(u) + 1
  BY CutFacts
<1>1. CASE c = Len(s) + 1
  BY <1>1, EndingKey
<1>2. CASE c = Len(u) + 1
  <2>1. \A i \in 1 .. c - 1 : u[i] = s[i] /\ u[i] \notin {"+", "#"}
    OBVIOUS
  <2>2. ShardKey(u) = ShardKey(s)
    BY <1>2, <2>1, EndingKey
  <2> QED
    BY <2>2
<1>3. CASE c # Len(s) + 1 /\ c # Len(u) + 1
  <2>1. c \in 1 .. Len(s) /\ c \in 1 .. Len(u) /\ c \in 0 .. Len(s) /\ c \in 0 .. Len(u)
    BY <1>0, <1>3
  <2>2. s[c] = "/" /\ u[c] = "/"
    BY <2>1, CutFacts
  <2> DEFINE k == SubSeq(s, 1, c)
             l == SubSeq(u, 1, c)
  <2>3. /\ k \in Text /\ Len(k) = c /\ \A i \in 1 .. c : k[i] = s[i]
        /\ l \in Text /\ Len(l) = c /\ \A i \in 1 .. c : l[i] = u[i]
    BY <2>1, PrefixChars
  <2>4. KeyCopied(s) = k /\ KeyCopied(u) = l
    <3>1. \A i \in 1 .. c - 1 : u[i] \notin {"+", "#"}
      OBVIOUS
    <3>2. KeyCopied(s) = IF c = Len(s) + 1 THEN s ELSE SubSeq(s, 1, c)
      BY KeyCopiedIs
    <3>3. KeyCopied(u) = IF c = Len(u) + 1 THEN u ELSE SubSeq(u, 1, c)
      BY <3>1, KeyCopiedIs
    <3> QED
      BY <1>3, <3>2, <3>3
  <2> HIDE DEF k, l
  <2>5. \A i \in 1 .. c : s[i] = u[i]
    BY <1>0, <2>2
  <2>6. Len(k) = Len(l) /\ \A i \in 1 .. Len(k) : k[i] = l[i]
    BY <2>3, <2>5
  <2>7. k = l
    BY <2>3, <2>6, SeqEqual DEF Text
  <2> QED
    BY <2>4, <2>7, ShardKeyTrims
<1> QED
  BY <1>1, <1>2, <1>3

(* The levels of the key of a filter are those of the topics that match.   *)
LEMMA KeyLevels ==
    ASSUME NEW flt \in Text, NEW top \in Text, LevelsMatch(flt, top),
           NEW k \in 1 .. LevelCount(flt), Level(flt, k) \notin {<<"+">>, <<"#">>}
    PROVE  k <= LevelCount(top) /\ Level(flt, k) = Level(top, k)
<1>1. LevelCount(flt) \in Nat
  BY LevelCountIs
<1> QED
  BY <1>1, MatchAgrees DEF Agree

LEMMA SameKey ==
    ASSUME NEW flt \in Text, NEW top \in Text, FilterValid(flt), LevelsMatch(flt, top),
           \A n \in 1 .. LevelCount(flt) :
              n <= P2P_SHARD_KEY_LEVELS => Level(flt, n) \notin {<<"+">>, <<"#">>}
    PROVE  ShardKey(flt) = ShardKey(top)
<1> DEFINE P == P2P_SHARD_KEY_LEVELS
           N == LevelCount(flt)
<1>0. /\ P \in Nat \ {0}
      /\ N \in Nat \ {0} /\ N = Rank(flt, Len(flt) + 1)
      /\ LevelCount(top) \in Nat \ {0} /\ LevelCount(top) = Rank(top, Len(top) + 1)
  BY LevelCountIs, FunctionsAssumption
<1>1. \A k \in 1 .. N : k <= P => k <= LevelCount(top) /\ Level(flt, k) = Level(top, k)
  BY KeyLevels
<1> HIDE DEF P, N
<1>2. CASE P <= N
  <2>1. P <= LevelCount(top) /\ \A k \in 1 .. P : Level(flt, k) = Level(top, k)
    BY <1>0, <1>1, <1>2
  <2>2. PICK c \in Cuts(flt) \cap Cuts(top) :
              /\ Rank(flt, c) = P /\ Rank(top, c) = P
              /\ \A i \in 1 .. c - 1 : flt[i] = top[i]
    BY <1>0, <1>2, <2>1, SamePrefix DEF N
  <2>3. c # 0 /\ c \in 0 .. Len(flt) + 1 /\ Len(flt) \in Nat
    <3>1. Rank(flt, 0) = 0
      BY RankFacts
    <3> QED
      BY <1>0, <2>2, <3>1, CutFacts
  <2>4. ASSUME NEW i \in 1 .. c - 1, flt[i] \in {"+", "#"} PROVE FALSE
    <3>1. i \in 1 .. Len(flt) /\ i \in Int /\ c \in Int /\ i <= c
      BY <2>3
    <3>2. Rank(flt, i) \in 1 .. N /\ Level(flt, Rank(flt, i)) = <<flt[i]>>
      BY <2>4, <3>1, WildcardLevel DEF N
    <3>3. Rank(flt, i) <= P
      BY <2>2, <3>1, RankFacts
    <3>4. Level(flt, Rank(flt, i)) \notin {<<"+">>, <<"#">>}
      BY <3>2, <3>3 DEF N, P
    <3> QED
      BY <2>4, <3>2, <3>4
  <2>5. \A i \in 1 .. c - 1 : flt[i] = top[i] /\ flt[i] \notin {"+", "#"}
    BY <2>2, <2>4
  <2> QED
    BY <2>2, <2>3, <2>5, PrefixKey DEF P
<1>3. CASE P > N
  <2>1. N \in 1 .. N /\ \A k \in 1 .. N : k <= P
    BY <1>0, <1>3
  <2>2. Last(flt) # <<"#">>
    BY <2>1 DEF Last, N, P
  <2>3. LevelCount(top) = N
    BY <2>2 DEF LevelsMatch, N
  <2>4. \A k \in 1 .. N : Level(flt, k) = Level(top, k)
    BY <1>1, <2>1
  <2>5. PICK c \in Cuts(flt) \cap Cuts(top) :
              /\ Rank(flt, c) = N /\ Rank(top, c) = N
              /\ \A i \in 1 .. c - 1 : flt[i] = top[i]
    <3>1. N <= LevelCount(flt) /\ N <= LevelCount(top)
      BY <1>0, <2>3 DEF N
    <3> QED
      BY <1>0, <2>4, <3>1, SamePrefix
  <2>6. c = Len(flt) + 1
    <3>1. Len(flt) + 1 \in Cuts(flt) /\ Rank(flt, c) = Rank(flt, Len(flt) + 1)
      BY <1>0, <2>5, CutFacts
    <3> QED
      BY <2>5, <3>1, CutUnique
  <2>7. c = Len(top) + 1
    <3>1. Len(top) + 1 \in Cuts(top) /\ Rank(top, c) = Rank(top, Len(top) + 1)
      BY <1>0, <2>3, <2>5, CutFacts
    <3> QED
      BY <2>5, <3>1, CutUnique
  <2>8. Len(flt) = Len(top) /\ \A i \in 1 .. Len(flt) : flt[i] = top[i]
    <3>1. Len(flt) \in Nat /\ Len(top) \in Nat
      BY CutFacts
    <3> QED
      BY <2>5, <2>6, <2>7, <3>1
  <2>9. flt = top
    BY <2>8, SeqEqual DEF Text
  <2> QED
    BY <2>9
<1> QED
  BY <1>0, <1>2, <1>3

(* A filter and the topics that it matches have the same owner, unless the *)
(* filter has a wildcard among the levels that make the key: whatever the  *)
(* number of these levels is, and whether the strings end before it.       *)
THEOREM KeyAgrees == MatchSpec => []SameShard
<1>1. ASSUME MatchInv PROVE SameShard
  <2> SUFFICES ASSUME ret \in {"match", "no"}, LevelsMatch(filter, topic),
                      \A n \in 1 .. LevelCount(filter) :
                         n <= P2P_SHARD_KEY_LEVELS => Level(filter, n) \notin {<<"+">>, <<"#">>}
               PROVE  ShardKey(filter) = ShardKey(topic)
    BY DEF SameShard
  <2>1. FilterValid(filter) /\ filter \in Text /\ topic \in Text
    BY <1>1 DEF MatchInv
  <2> QED
    BY <2>1, SameKey
<1> QED
  BY <1>1, MatchInvariant, PTL
=============================================================================
