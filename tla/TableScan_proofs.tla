-------------------------- MODULE TableScan_proofs --------------------------
(* What a search of a table returns, and where the probes of a hash table go. *)
EXTENDS TableScan, TLAPS, WellFoundedInduction

(* A non-empty set of indices has a first one, and First finds it: what    *)
(* the scan "for (i = 0; ...) if (...) break" of the C code returns.       *)
LEMMA FirstFound ==
    ASSUME NEW I, I \subseteq Nat, I # {}
    PROVE  First(I) \in I /\ \A j \in I : First(I) <= j
<1>1. PICK x \in I : \A y \in I : ~(<<y, x>> \in OpToRel(<, Nat))
  BY NatLessThanWellFounded, WFMin
<1> DEFINE R == {r \in Nat \X Nat : r[1] < r[2]}
<1>a. OpToRel(<, Nat) = R
  BY DEF OpToRel
<1>b. \A y \in I : <<y, x>> \notin R
  BY <1>1, <1>a
<1>c. \A u, v \in Nat : u < v => <<u, v>> \in R
  OBVIOUS
<1>2. \A y \in I : x <= y
  <2> TAKE y \in I
  <2>1. x \in Nat /\ y \in Nat
    OBVIOUS
  <2>2. ~(y < x)
    BY <1>b, <1>c, <2>1
  <2> QED
    BY <2>1, <2>2
<1> DEFINE Least(i) == i \in I /\ \A j \in I : i =< j
<1>3. \E i : Least(i)
  BY <1>2
<1>4. First(I) = CHOOSE i : Least(i)
  BY DEF First, Min
<1>5. Least(CHOOSE i : Least(i))
  BY <1>3
<1>6. QED
  BY <1>4, <1>5

(* An empty search returns None. *)
LEMMA FirstEmpty == First({}) = None
  BY DEF First

(* A search of a table of n entries returns an index below n or None. *)
LEMMA FirstType ==
    ASSUME NEW I, NEW S, S \subseteq Nat, I \subseteq S
    PROVE  First(I) \in S \cup {None}
  BY FirstFound, FirstEmpty

----------------------------------------------------------------------------
(* Induction over the naturals for a set, which the library states only    *)
(* for an operator.                                                        *)
LEMMA SetInduction ==
    ASSUME NEW S, 0 \in S, \A n \in Nat : n \in S => n + 1 \in S
    PROVE  Nat \subseteq S
<1> SUFFICES ASSUME Nat \ S # {} PROVE FALSE
  OBVIOUS
<1> DEFINE m == First(Nat \ S)
<1>1. m \in Nat \ S /\ \A j \in Nat \ S : m <= j
  BY FirstFound
<1> HIDE DEF m
<1>2. m # 0 /\ m - 1 \in Nat
  BY <1>1
<1>3. m - 1 \in S
  BY <1>1, <1>2
<1>4. (m - 1) + 1 \in S
  BY <1>2, <1>3
<1> QED
  BY <1>1, <1>2, <1>4

(* A loop that keeps the best candidate so far, and the first of equal     *)
(* ones, ends with one.                                                    *)
LEMMA FirstBest ==
    ASSUME NEW n \in Nat \ {0}, NEW f \in [1 .. n -> Int]
    PROVE  \E c \in 1 .. n : \A d \in 1 .. n : f[c] > f[d] \/ (f[c] = f[d] /\ c <= d)
<1> DEFINE Best(c, m) == \A d \in 1 .. m : f[c] > f[d] \/ (f[c] = f[d] /\ c <= d)
           S == {m \in Nat : m \in 1 .. n => \E c \in 1 .. m : Best(c, m)}
<1>1. 0 \in S
  OBVIOUS
<1>2. ASSUME NEW m \in Nat, m \in S PROVE m + 1 \in S
  <2> SUFFICES ASSUME m + 1 \in 1 .. n PROVE \E c \in 1 .. m + 1 : Best(c, m + 1)
    OBVIOUS
  <2>1. CASE m = 0
    <3>1. Best(1, 1)
      BY <2>1
    <3> QED
      BY <2>1, <3>1
  <2>2. CASE m # 0
    <3>1. m \in 1 .. n
      BY <2>2
    <3>2. PICK c \in 1 .. m : Best(c, m)
      BY <1>2, <3>1
    <3>3. CASE f[m + 1] > f[c]
      <4>1. Best(m + 1, m + 1)
        BY <3>1, <3>2, <3>3
      <4> QED
        BY <4>1
    <3>4. CASE ~(f[m + 1] > f[c])
      <4>1. Best(c, m + 1)
        BY <3>1, <3>2, <3>4
      <4>2. c \in 1 .. m + 1
        OBVIOUS
      <4> QED
        BY <4>1, <4>2
    <3> QED
      BY <3>3, <3>4
  <2> QED
    BY <2>1, <2>2
<1> HIDE DEF S
<1>3. Nat \subseteq S
  BY <1>1, <1>2, SetInduction
<1>4. n \in S
  BY <1>3
<1> QED
  BY <1>4 DEF S

LEMMA Remainder ==
    ASSUME NEW M \in Nat \ {0}, NEW q \in Nat, NEW k \in 0 .. M - 1
    PROVE  (M * q + k) % M = k
  OBVIOUS

(* A probe of a table of M entries, (h + s) % M, is the entry r + s or     *)
(* r + s - M, where r is the home entry.                                   *)
LEMMA ProbeEntry ==
    ASSUME NEW M \in Nat \ {0}, NEW h \in Nat, NEW s \in 0 .. M - 1
    PROVE  /\ h % M \in 0 .. M - 1
           /\ (h + s) % M = IF (h % M) + s < M THEN (h % M) + s ELSE (h % M) + s - M
<1> DEFINE q == h \div M
           r == h % M
<1>1. q \in Nat /\ r \in 0 .. M - 1 /\ h = M * q + r
  OBVIOUS
<1> HIDE DEF q, r
<1>2. CASE r + s < M
  <2>1. h + s = M * q + (r + s) /\ r + s \in 0 .. M - 1
    BY <1>1, <1>2
  <2>2. (M * q + (r + s)) % M = r + s
    BY <1>1, <2>1, Remainder
  <2> QED
    BY <1>1, <1>2, <2>1, <2>2 DEF r
<1>3. CASE ~(r + s < M)
  <2>1. h + s = M * (q + 1) + (r + s - M) /\ r + s - M \in 0 .. M - 1 /\ q + 1 \in Nat
    BY <1>1, <1>3
  <2>2. (M * (q + 1) + (r + s - M)) % M = r + s - M
    BY <2>1, Remainder
  <2> QED
    BY <1>1, <1>3, <2>1, <2>2 DEF r
<1> QED
  BY <1>2, <1>3

(* The M probes get to every entry, and to each only once. *)
LEMMA ProbesReach ==
    ASSUME NEW M \in Nat \ {0}, NEW h \in Nat, NEW k \in 0 .. M - 1
    PROVE  \E s \in 0 .. M - 1 : (h + s) % M = k
<1> DEFINE r == h % M
           s == IF k >= r THEN k - r ELSE k - r + M
<1>1. r \in 0 .. M - 1
  OBVIOUS
<1> HIDE DEF r
<1>2. s \in 0 .. M - 1 /\ k = IF r + s < M THEN r + s ELSE r + s - M
  BY <1>1
<1> HIDE DEF s
<1> QED
  BY <1>2, ProbeEntry DEF r

LEMMA ProbesDiffer ==
    ASSUME NEW M \in Nat \ {0}, NEW h \in Nat, NEW s \in 0 .. M - 1, NEW t \in 0 .. M - 1,
           (h + s) % M = (h + t) % M
    PROVE  s = t
<1> DEFINE r == h % M
<1>1. /\ r \in 0 .. M - 1
      /\ (h + s) % M = IF r + s < M THEN r + s ELSE r + s - M
      /\ (h + t) % M = IF r + t < M THEN r + t ELSE r + t - M
  BY ProbeEntry
<1> HIDE DEF r
<1> QED
  BY <1>1
=============================================================================
