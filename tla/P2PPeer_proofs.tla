--------------------------- MODULE P2PPeer_proofs ---------------------------
(***************************************************************************)
(* What p2p_peer.c promises the brokers of a network (P2PMesh): the types  *)
(* of the tables, at most one delivery of a publish (DeliveredOnce), and   *)
(* that a pending publish is kept until it is sent (PendingKept).  And     *)
(* what the peers are told of the subscriptions of a broker (LocalAdverts):*)
(* the types and, in the environment Serial, no stale filter               *)
(* (NoStaleAdvert), exactly the filters in use (AdvertExact), with their   *)
(* highest QoS (AdvertHighest).                                            *)
(***************************************************************************)
EXTENDS P2PMesh, LocalAdverts, TableScan_proofs, SequenceTheorems, FiniteSetTheorems, TLAPS

(* What is on the way and what a thread has left to do. *)

SubFrames == [type : {"SUB", "UNSUB"}, owner : Node, filter : Topic]

(* The publishes made so far, and those of n. *)
Known == {m \in Msg : m.seq \in 1 .. local_seq[m.origin]}
Mine(n) == {m \in Known : m.origin = n}

(* Over the connection from p to n, in a network without cycles, goes only *)
(* what comes from the side of p.                                          *)
Away(p, n, o) ==
    /\ {p, n} \in scene.links /\ p # n
    /\ Tree => \A S \in SUBSET Node : Cut(S, p, n) => o \in S

PubFrames(p, n) == {f \in [type : {"PUBLISH"}, msg : Known] : Away(p, n, f.msg.origin)}
Frames(p, n) == SubFrames \cup PubFrames(p, n)

Ops(n) ==
    [op : {"send"}, arg : [to : Node, frame : SubFrames]]
    \cup [op : {"tell"}, arg : [to : SUBSET Node, frame : SubFrames, except : Node \cup {None}]]
    \cup [op : {"flood"}, arg : Mine(n)]
    \cup [op : {"store"}, arg : {m \in Mine(n) : m.qos > 0}]
    \cup [op : {"advertise", "remove"}, arg : {None}]
    \cup [op : {"flush"}, arg : Topic \cup {None}]
    \cup [op : {"resend"}, arg : [at : PendingIdx, msg : Mine(n)]]
    \cup [op : {"clear"}, arg : PendingIdx]

----------------------------------------------------------------------------
(* The invariant. *)

CountsOK == /\ scene \in Scenes /\ wire \subseteq scene.links
            /\ npub \in Nat /\ nunsub \in Nat /\ nbreak \in Nat
            /\ nbreak <= scene.breaks /\ nunsub <= scene.unsubs
            /\ local_seq \in [Node -> Nat]
ConnOK == conn \in [Node -> SUBSET Node] /\ \A n \in Node : conn[n] \subseteq Peers(n)
ChanOK == /\ DOMAIN chan = Node
          /\ \A n \in Node : DOMAIN chan[n] = Node
          /\ chan = [n \in Node |-> [p \in Node |-> chan[n][p]]]
          /\ \A n, p \in Node : chan[n][p] \in Seq(Frames(n, p))
TodoOK == /\ todo = [n \in Node |-> [p \in Node |-> todo[n][p]]]
          /\ \A n, p \in Node : todo[n][p] \in Seq(Ops(n))
RoutesOK == /\ subs \in [Node -> SUBSET Topic]
            /\ route \in [Node -> [Node -> [hop : Node \cup {None}, subs : SUBSET Topic]]]
            /\ \A n, o \in Node : (route[n][o].hop = None) <=> (route[n][o].subs = {})
PendingOK == /\ pending \in [Node -> [PendingIdx -> Msg \cup {None}]]
             /\ \A n \in Node, i \in PendingIdx :
                  pending[n][i] # None => pending[n][i] \in Mine(n) /\ pending[n][i].qos > 0
SeenOK == seen \in [Node -> [SeenIdx -> (Node \X Nat) \cup {None}]]

(* What a broker has passed on is in its seen cache, unless it is its own  *)
(* or another publish has taken the place.                                 *)
GotOK == /\ got \subseteq Node \X Known
         /\ \A n \in Node, m \in Known :
              <<n, m>> \in got => \/ n = m.origin
                                  \/ SeenBefore(n, m)
                                  \/ Collides(m)

MInv == /\ CountsOK /\ ConnOK /\ ChanOK /\ TodoOK /\ RoutesOK /\ PendingOK /\ SeenOK /\ GotOK
        /\ DeliveredOnce

----------------------------------------------------------------------------
LEMMA NodeFacts ==
    /\ None \notin Node /\ None \notin Msg
    /\ IsFiniteSet(Node) /\ IsFiniteSet(Topic) /\ IsFiniteSet(PendingIdx)
    /\ P2P_SEEN_MAX \in Nat \ {0} /\ P2P_PENDING_QOS_MAX \in Nat \ {0}
    /\ SeenHash \in [Node -> Nat] /\ Scenes \subseteq Scene
<1>1. P2P_PENDING_QOS_MAX - 1 \in Int
  BY MeshAssumption
<1>2. IsFiniteSet(PendingIdx)
  BY <1>1, FS_Interval DEF PendingIdx
<1> QED
  BY <1>2, MeshAssumption DEF Msg

LEMMA SeenAtType ==
    ASSUME NEW o \in Node, NEW k \in Nat, NEW m, m.origin = o, m.seq = k
    PROVE  SeenAt(m) \in SeenIdx
<1>1. SeenHash[o] \in Nat
  BY NodeFacts
<1> DEFINE h == SeenHash[o] + k
<1>a. h \in Nat /\ P2P_SEEN_MAX \in Nat \ {0} /\ 0 \in 0 .. P2P_SEEN_MAX - 1
  BY <1>1, NodeFacts
<1> HIDE DEF h
<1>b. h % P2P_SEEN_MAX \in 0 .. P2P_SEEN_MAX - 1
  BY <1>a, ProbeEntry
<1>2. (SeenHash[o] + k) % P2P_SEEN_MAX \in 0 .. P2P_SEEN_MAX - 1
  BY <1>b DEF h
<1> QED
  BY <1>2 DEF SeenAt, SeenIdx

(* Elements of sequences. *)
LEMMA SeqIn ==
    ASSUME NEW S, NEW k \in Nat, NEW s \in [1 .. k -> S]
    PROVE  s \in Seq(S)
  OBVIOUS

LEMMA SeqSub ==
    ASSUME NEW S, NEW T, S \subseteq T, NEW s \in Seq(S)
    PROVE  s \in Seq(T)
  OBVIOUS

LEMMA SeqTail ==
    ASSUME NEW S, NEW s \in Seq(S), s # <<>>
    PROVE  /\ Head(s) \in S /\ Tail(s) \in Seq(S)
           /\ Head(s) = s[1] /\ Len(s) \in Nat \ {0} /\ Len(Tail(s)) = Len(s) - 1
           /\ \A i \in 1 .. Len(s) - 1 : Tail(s)[i] = s[i + 1]
  OBVIOUS

LEMMA SeqCat ==
    ASSUME NEW S, NEW s \in Seq(S), NEW t \in Seq(S)
    PROVE  s \o t \in Seq(S)
  OBVIOUS

LEMMA SeqApp ==
    ASSUME NEW S, NEW s \in Seq(S), NEW e \in S
    PROVE  Append(s, e) \in Seq(S)
  OBVIOUS

LEMMA SeqOne ==
    ASSUME NEW S, NEW e \in S
    PROVE  <<e>> \in Seq(S) /\ <<>> \in Seq(S)
  OBVIOUS

(* An order of a finite set is a sequence of its elements. *)
LEMMA OrderSeq ==
    ASSUME NEW D, IsFiniteSet(D), NEW s \in Orders(D)
    PROVE  /\ s \in Seq(D) /\ DOMAIN s = 1 .. Len(s) /\ Len(s) \in Nat
           /\ \A i \in DOMAIN s : s[i] \in D
           /\ \A i, j \in DOMAIN s : s[i] = s[j] => i = j
<1>1. Cardinality(D) \in Nat
  BY FS_CardinalityType
<1>2. s \in [1 .. Cardinality(D) -> D] /\ \A i, j \in DOMAIN s : s[i] = s[j] => i = j
  BY DEF Orders
<1>3. s \in Seq(D)
  BY <1>1, <1>2, SeqIn
<1> QED
  BY <1>2, <1>3

----------------------------------------------------------------------------
(* The elements of a handler. *)

LEMMA OpKinds ==
    ASSUME NEW n, NEW e \in Ops(n)
    PROVE  /\ e.op = "send" => e.arg \in [to : Node, frame : SubFrames]
           /\ e.op = "tell" => e.arg \in [to : SUBSET Node, frame : SubFrames,
                                          except : Node \cup {None}]
           /\ e.op = "flood" => e.arg \in Mine(n)
           /\ e.op = "store" => e.arg \in Mine(n) /\ e.arg.qos > 0
           /\ e.op = "flush" => e.arg \in Topic \cup {None}
           /\ e.op = "resend" => e.arg \in [at : PendingIdx, msg : Mine(n)]
           /\ e.op = "clear" => e.arg \in PendingIdx
  BY DEF Ops

LEMMA OpIn ==
    ASSUME NEW n
    PROVE  /\ \A p \in Node, f \in SubFrames : SendTo(p, f) \in Ops(n)
           /\ \A R \in SUBSET Node, f \in SubFrames, p \in Node \cup {None} :
                Tell(R, f, p) \in Ops(n)
           /\ \A m \in Mine(n) : Do("flood", m) \in Ops(n)
           /\ \A m \in Mine(n) : m.qos > 0 => Do("store", m) \in Ops(n)
           /\ Do("advertise", None) \in Ops(n) /\ Do("remove", None) \in Ops(n)
           /\ \A t \in Topic \cup {None} : Do("flush", t) \in Ops(n)
           /\ \A i \in PendingIdx, m \in Mine(n) : Do("resend", [at |-> i, msg |-> m]) \in Ops(n)
           /\ \A i \in PendingIdx : Do("clear", i) \in Ops(n)
<1>1. \A p \in Node, f \in SubFrames : SendTo(p, f) \in Ops(n)
  <2> TAKE p \in Node, f \in SubFrames
  <2>1. [to |-> p, frame |-> f] \in [to : Node, frame : SubFrames]
    OBVIOUS
  <2> QED
    BY <2>1 DEF Ops, SendTo, Do
<1>2. \A R \in SUBSET Node, f \in SubFrames, p \in Node \cup {None} : Tell(R, f, p) \in Ops(n)
  <2> TAKE R \in SUBSET Node, f \in SubFrames, p \in Node \cup {None}
  <2>1. [to |-> R, frame |-> f, except |-> p]
          \in [to : SUBSET Node, frame : SubFrames, except : Node \cup {None}]
    OBVIOUS
  <2> QED
    BY <2>1 DEF Ops, Tell, Do
<1>3. \A i \in PendingIdx, m \in Mine(n) : Do("resend", [at |-> i, msg |-> m]) \in Ops(n)
  <2> TAKE i \in PendingIdx, m \in Mine(n)
  <2>1. [at |-> i, msg |-> m] \in [at : PendingIdx, msg : Mine(n)]
    OBVIOUS
  <2> QED
    BY <2>1 DEF Ops, Do
<1>4. /\ \A m \in Mine(n) : Do("flood", m) \in Ops(n)
      /\ \A m \in Mine(n) : m.qos > 0 => Do("store", m) \in Ops(n)
  BY DEF Ops, Do
<1>5. /\ Do("advertise", None) \in Ops(n) /\ Do("remove", None) \in Ops(n)
      /\ \A t \in Topic \cup {None} : Do("flush", t) \in Ops(n)
      /\ \A i \in PendingIdx : Do("clear", i) \in Ops(n)
  BY DEF Ops, Do
<1> QED
  BY <1>1, <1>2, <1>3, <1>4, <1>5

LEMMA FrameKinds ==
    ASSUME NEW p, NEW n, NEW f \in Frames(p, n)
    PROVE  /\ f.type \in {"SUB", "UNSUB"} => f \in SubFrames
           /\ f.type = "PUBLISH" => f.msg \in Known /\ Away(p, n, f.msg.origin)
  BY DEF Frames, SubFrames, PubFrames

LEMMA FrameIn ==
    ASSUME NEW p, NEW n
    PROVE  /\ \A f \in SubFrames : f \in Frames(p, n)
           /\ \A m \in Known : Away(p, n, m.origin) => PubFrame(m) \in Frames(p, n)
  BY DEF Frames, PubFrames, PubFrame

LEMMA SubFrameIn ==
    ASSUME NEW o \in Node, NEW t \in Topic
    PROVE  SubFrame("SUB", o, t) \in SubFrames /\ SubFrame("UNSUB", o, t) \in SubFrames
  BY DEF SubFrame, SubFrames

----------------------------------------------------------------------------
(* The direction of a publish. *)

(* The two ends of a connection. *)
LEMMA Ends == \A n, p : {n, p} = {p, n}
  OBVIOUS

(* A publish of n leaves n. *)
LEMMA AwayStart ==
    ASSUME ConnOK, NEW n \in Node, NEW q \in conn[n]
    PROVE  q \in Node /\ Away(n, q, n)
  BY DEF ConnOK, Peers, Away, Cut

(* What has come from p and goes on to another peer leaves its origin       *)
(* further behind, in a network without cycles.                            *)
LEMMA AwayOn ==
    ASSUME NEW p \in Node, NEW n \in Node, NEW q \in Node, NEW o,
           Away(p, n, o), {n, q} \in scene.links, q # n, q # p
    PROVE  Away(n, q, o)
<1> SUFFICES ASSUME Tree, NEW S \in SUBSET Node, Cut(S, n, q) PROVE o \in S
  BY DEF Away
<1>1. {p, n} \in scene.links /\ p # n
  BY DEF Away
<1>2. PICK T \in SUBSET Node : Cut(T, p, n)
  BY <1>1 DEF Tree
<1>3. {p, n} # {n, q}
  BY <1>1
<1>4. p \in S
  BY <1>1, <1>3 DEF Cut
<1>5. {n, q} \cap T = {}
  BY <1>2, <1>3 DEF Cut
<1>6. ASSUME NEW l \in scene.links \ {{p, n}}
      PROVE  l \subseteq S \cap T \/ l \cap (S \cap T) = {}
  <2>1. l \subseteq T \/ l \cap T = {}
    BY <1>2 DEF Cut
  <2>2. CASE l = {n, q}
    BY <1>5, <2>2
  <2>3. CASE l # {n, q}
    <3>1. l \subseteq S \/ l \cap S = {}
      BY <2>3 DEF Cut
    <3> QED
      BY <2>1, <3>1
  <2> QED
    BY <2>2, <2>3
<1>7. Cut(S \cap T, p, n)
  BY <1>2, <1>4, <1>6 DEF Cut
<1>8. o \in S \cap T
  BY <1>7 DEF Away
<1> QED
  BY <1>8

(* It does not come back. *)
LEMMA AwayGone ==
    ASSUME Tree, NEW p \in Node, NEW n \in Node, NEW o, Away(p, n, o)
    PROVE  o # n
  BY DEF Tree, Away, Cut

----------------------------------------------------------------------------
(* What a step leaves alone. *)

(* The network is the same, and publishes have only been added. *)
Grow == /\ scene' = scene
        /\ local_seq \in [Node -> Nat] /\ local_seq' \in [Node -> Nat]
        /\ \A n \in Node : local_seq[n] <= local_seq'[n]

LEMMA Growth ==
    ASSUME Grow
    PROVE  /\ Known \subseteq Known'
           /\ \A n : Mine(n) \subseteq Mine(n)'
           /\ \A n \in Node : Ops(n) \subseteq Ops(n)' /\ Peers(n)' = Peers(n)
           /\ Tree' <=> Tree
           /\ \A p, n \in Node, o \in Node : Away(p, n, o) => Away(p, n, o)'
           /\ \A p, n \in Node : Frames(p, n) \subseteq Frames(p, n)'
           /\ \A m : Collides(m) => Collides(m)'
<1>1. Known \subseteq Known'
  <2> SUFFICES ASSUME NEW m \in Known PROVE m \in Known'
    OBVIOUS
  <2>1. m \in Msg /\ m.origin \in Node /\ m.seq \in 1 .. local_seq[m.origin]
    BY DEF Known, Msg
  <2>2. m.seq \in 1 .. local_seq'[m.origin]
    BY <2>1 DEF Grow
  <2> QED
    BY <2>1, <2>2 DEF Known
<1>2. \A n : Mine(n) \subseteq Mine(n)'
  BY <1>1 DEF Mine
<1>3. \A n \in Node : Ops(n) \subseteq Ops(n)'
  BY <1>2 DEF Ops
<1>4. Tree' <=> Tree
  BY DEF Grow, Tree, Cut
<1>5. \A p, n \in Node, o \in Node : Away(p, n, o) => Away(p, n, o)'
  BY <1>4 DEF Grow, Away, Cut
<1>6. \A p, n \in Node : Frames(p, n) \subseteq Frames(p, n)'
  <2> SUFFICES ASSUME NEW p \in Node, NEW n \in Node, NEW f \in PubFrames(p, n)
               PROVE  f \in PubFrames(p, n)'
    BY DEF Frames
  <2>1. f \in [type : {"PUBLISH"}, msg : Known'] /\ f.msg.origin \in Node
    BY <1>1 DEF PubFrames, Known, Msg
  <2> QED
    BY <1>5, <2>1 DEF PubFrames
<1>7. \A m : Collides(m) => Collides(m)'
  <2> SUFFICES ASSUME NEW m, NEW o \in Node, NEW k \in 1 .. local_seq[o],
                      <<o, k>> # <<m.origin, m.seq>>,
                      SeenAt([origin |-> o, seq |-> k]) = SeenAt(m)
               PROVE  Collides(m)'
    BY DEF Collides
  <2>1. k \in 1 .. local_seq'[o]
    BY DEF Grow
  <2> QED
    BY <2>1 DEF Collides, SeenAt
<1>8. \A n \in Node : Peers(n)' = Peers(n)
  BY DEF Grow, Peers
<1> QED
  BY <1>1, <1>2, <1>3, <1>4, <1>5, <1>6, <1>7, <1>8

LEMMA Kept ==
    ASSUME MInv, Grow
    PROVE  /\ conn' = conn => ConnOK'
           /\ chan' = chan => ChanOK'
           /\ todo' = todo => TodoOK'
           /\ UNCHANGED <<subs, route>> => RoutesOK'
           /\ pending' = pending => PendingOK'
           /\ seen' = seen => SeenOK'
           /\ UNCHANGED <<got, seen, local_seq>> => GotOK'
           /\ again' = again => DeliveredOnce'
           /\ UNCHANGED <<wire, local_seq, npub, nunsub, nbreak>> => CountsOK'
<1>1. conn' = conn => ConnOK'
  BY Growth DEF MInv, ConnOK
<1>2. chan' = chan => ChanOK'
  <2> SUFFICES ASSUME chan' = chan PROVE ChanOK'
    OBVIOUS
  <2>1. \A n, p \in Node : chan[n][p] \in Seq(Frames(n, p)')
    BY Growth, SeqSub DEF MInv, ChanOK
  <2> QED
    BY <2>1 DEF MInv, ChanOK
<1>3. todo' = todo => TodoOK'
  <2> SUFFICES ASSUME todo' = todo PROVE TodoOK'
    OBVIOUS
  <2>1. \A n, p \in Node : todo[n][p] \in Seq(Ops(n)')
    BY Growth, SeqSub DEF MInv, TodoOK
  <2> QED
    BY <2>1 DEF MInv, TodoOK
<1>4. UNCHANGED <<subs, route>> => RoutesOK'
  BY DEF MInv, RoutesOK
<1>5. pending' = pending => PendingOK'
  BY Growth DEF MInv, PendingOK
<1>6. seen' = seen => SeenOK'
  BY DEF MInv, SeenOK
<1>7. UNCHANGED <<got, seen, local_seq>> => GotOK'
  <2> SUFFICES ASSUME UNCHANGED <<got, seen, local_seq>> PROVE GotOK'
    OBVIOUS
  <2>1. Known' = Known
    BY DEF Known
  <2>2. \A n, m : SeenBefore(n, m)' <=> SeenBefore(n, m)
    BY DEF SeenBefore, SeenAt
  <2> QED
    BY <2>1, <2>2, Growth DEF MInv, GotOK
<1>8. again' = again => DeliveredOnce'
  BY Growth DEF MInv, DeliveredOnce
<1>9. UNCHANGED <<wire, local_seq, npub, nunsub, nbreak>> => CountsOK'
  BY DEF MInv, CountsOK, Grow
<1> QED
  BY <1>1, <1>2, <1>3, <1>4, <1>5, <1>6, <1>7, <1>8, <1>9

(* One thread goes on to the rest s of its handler. *)
LEMMA TodoSet ==
    ASSUME MInv, Grow, NEW n \in Node, NEW p \in Node, NEW s \in Seq(Ops(n)'),
           todo' = [todo EXCEPT ![n][p] = s]
    PROVE  TodoOK'
<1>1. todo = [k \in Node |-> [q \in Node |-> todo[k][q]]]
  BY DEF MInv, TodoOK
<1>2. /\ todo' = [k \in Node |-> [q \in Node |-> todo'[k][q]]]
      /\ \A k, q \in Node : todo'[k][q] = IF k = n /\ q = p THEN s ELSE todo[k][q]
  BY <1>1
<1>3. \A k, q \in Node : todo[k][q] \in Seq(Ops(k)')
  BY Growth, SeqSub DEF MInv, TodoOK
<1>4. \A k, q \in Node : todo'[k][q] \in Seq(Ops(k)')
  BY <1>2, <1>3
<1> QED
  BY <1>2, <1>4 DEF TodoOK

LEMMA ReplaceOK ==
    ASSUME MInv, Grow, NEW n \in Node, NEW p \in Node, NEW ops \in Seq(Ops(n)),
           todo[n][p] # <<>>, Replace(n, p, ops)
    PROVE  TodoOK'
<1>1. todo[n][p] \in Seq(Ops(n)) /\ todo = [k \in Node |-> [q \in Node |-> todo[k][q]]]
  BY DEF MInv, TodoOK
<1>2. todo' = [todo EXCEPT ![n][p] = ops \o Tail(todo[n][p])]
  BY <1>1 DEF Replace
<1>3. ops \o Tail(todo[n][p]) \in Seq(Ops(n))
  BY <1>1, SeqTail, SeqCat
<1>4. ops \o Tail(todo[n][p]) \in Seq(Ops(n)')
  BY <1>3, Growth, SeqSub
<1> QED
  BY <1>2, <1>4, TodoSet

LEMMA GoneOK ==
    ASSUME MInv, Grow, NEW n \in Node, NEW p \in Node, NEW op, At(n, p, op), Replace(n, p, <<>>)
    PROVE  TodoOK'
<1>1. <<>> \in Seq(Ops(n)) /\ todo[n][p] # <<>>
  BY DEF At
<1> QED
  BY <1>1, ReplaceOK

(* What the thread is at. *)
LEMMA AtOp ==
    ASSUME MInv, NEW n \in Node, NEW p \in Node, NEW op, At(n, p, op)
    PROVE  /\ todo[n][p] # <<>>
           /\ op = "send" => Arg(n, p) \in [to : Node, frame : SubFrames]
           /\ op = "tell" => Arg(n, p) \in [to : SUBSET Node, frame : SubFrames,
                                             except : Node \cup {None}]
           /\ op = "flood" => Arg(n, p) \in Mine(n)
           /\ op = "store" => Arg(n, p) \in Mine(n) /\ Arg(n, p).qos > 0
           /\ op = "flush" => Arg(n, p) \in Topic \cup {None}
           /\ op = "resend" => Arg(n, p) \in [at : PendingIdx, msg : Mine(n)]
           /\ op = "clear" => Arg(n, p) \in PendingIdx
<1>1. todo[n][p] \in Seq(Ops(n)) /\ todo[n][p] # <<>>
  BY DEF MInv, TodoOK, At
<1>2. Head(todo[n][p]) \in Ops(n) /\ Head(todo[n][p]).op = op
  BY <1>1, SeqTail DEF At
<1> QED
  BY <1>1, <1>2, OpKinds DEF Arg

(* Sends of a frame that may go to every peer with a live connection. *)
LEMMA PutOK ==
    ASSUME MInv, Grow, NEW n \in Node, NEW D, NEW f, Put(n, D, f),
           \A q \in Live(n, D) : f \in Frames(n, q)'
    PROVE  ChanOK'
<1>1. chan = [k \in Node |-> [p \in Node |-> chan[k][p]]]
  BY DEF MInv, ChanOK
<1>2. chan' = [chan EXCEPT ![n] = [p \in Node |->
               IF p \in Live(n, D) THEN Append(chan[n][p], f) ELSE chan[n][p]]]
  BY <1>1 DEF Put
<1>3. /\ chan' = [k \in Node |-> [p \in Node |-> chan'[k][p]]]
      /\ \A k, p \in Node : chan'[k][p] = IF k = n /\ p \in Live(n, D)
                                         THEN Append(chan[k][p], f) ELSE chan[k][p]
  BY <1>1, <1>2
<1>4. \A k, p \in Node : chan[k][p] \in Seq(Frames(k, p)')
  BY Growth, SeqSub DEF MInv, ChanOK
<1>5. \A k, p \in Node : chan'[k][p] \in Seq(Frames(k, p)')
  <2> TAKE k, p \in Node
  <2>1. CASE k = n /\ p \in Live(n, D)
    <3>1. chan[n][p] \in Seq(Frames(n, p)') /\ f \in Frames(n, p)'
      BY <1>4, <2>1
    <3>2. Append(chan[n][p], f) \in Seq(Frames(n, p)')
      BY <3>1, SeqApp
    <3>3. chan'[k][p] = Append(chan[n][p], f)
      BY <1>3, <2>1
    <3> QED
      BY <2>1, <3>2, <3>3
  <2>2. CASE ~(k = n /\ p \in Live(n, D))
    BY <1>3, <1>4, <2>2
  <2> QED
    BY <2>1, <2>2
<1> QED
  BY <1>3, <1>5 DEF ChanOK

(* A frame is taken from a channel. *)
LEMMA TakeOK ==
    ASSUME MInv, Grow, NEW n \in Node, NEW p \in Node, chan[p][n] # <<>>,
           chan' = [chan EXCEPT ![p][n] = Tail(@)]
    PROVE  ChanOK'
<1>1. chan = [k \in Node |-> [q \in Node |-> chan[k][q]]]
  BY DEF MInv, ChanOK
<1>2. /\ chan' = [k \in Node |-> [q \in Node |-> chan'[k][q]]]
      /\ \A k, q \in Node : chan'[k][q] = IF k = p /\ q = n THEN Tail(chan[p][n]) ELSE chan[k][q]
  BY <1>1
<1>3. \A k, q \in Node : chan[k][q] \in Seq(Frames(k, q)')
  BY Growth, SeqSub DEF MInv, ChanOK
<1>4. \A k, q \in Node : chan'[k][q] \in Seq(Frames(k, q)')
  BY <1>2, <1>3, SeqTail
<1> QED
  BY <1>2, <1>4 DEF ChanOK

(* The frame a thread takes. *)
LEMMA TakesFrame ==
    ASSUME MInv, NEW n \in Node, NEW p \in Node, NEW type, Takes(n, p, type)
    PROVE  /\ chan[p][n] # <<>> /\ todo[n][p] = <<>>
           /\ p \in conn[n] /\ {n, p} \in scene.links /\ p # n
           /\ type \in {"SUB", "UNSUB"} => Head(chan[p][n]) \in SubFrames
           /\ type = "PUBLISH" => /\ Head(chan[p][n]).msg \in Known
                                  /\ Away(p, n, Head(chan[p][n]).msg.origin)
<1>1. chan[p][n] \in Seq(Frames(p, n)) /\ chan[p][n] # <<>>
  BY DEF MInv, ChanOK, Takes
<1>2. Head(chan[p][n]) \in Frames(p, n) /\ Head(chan[p][n]).type = type
  BY <1>1, SeqTail DEF Takes
<1>3. p \in conn[n] /\ {n, p} \in scene.links /\ p # n
  BY DEF Takes, MInv, ConnOK, Peers
<1> QED
  BY <1>1, <1>2, <1>3, FrameKinds DEF Takes

----------------------------------------------------------------------------
(* The steps. *)

LEMMA MeshStart == Init => MInv
<1> SUFFICES ASSUME Init PROVE MInv
  OBVIOUS
<1>1. scene \in Scene /\ scene \in Scenes
  BY NodeFacts DEF Init
<1>2. CountsOK
  <2>1. local_seq \in [Node -> Nat] /\ scene.breaks \in Nat /\ scene.unsubs \in Nat
    BY <1>1 DEF Init, Scene
  <2> QED
    BY <1>1, <2>1 DEF Init, CountsOK
<1>3. ConnOK
  BY DEF Init, ConnOK, Peers
<1>4. ChanOK
  BY SeqOne DEF Init, ChanOK
<1>5. TodoOK
  BY SeqOne DEF Init, TodoOK
<1>6. RoutesOK
  <2>1. subs \in [Node -> SUBSET Topic]
    BY DEF Init
  <2>2. \A n, o \in Node : route[n][o] = IF n = o \/ subs[o] = {} THEN [hop |-> None, subs |-> {}]
                                       ELSE [hop |-> o, subs |-> subs[o]]
    BY DEF Init, NoRoute
  <2>3. ASSUME NEW n \in Node, NEW o \in Node
        PROVE  /\ route[n][o] \in [hop : Node \cup {None}, subs : SUBSET Topic]
               /\ (route[n][o].hop = None) <=> (route[n][o].subs = {})
    <3>1. CASE n = o \/ subs[o] = {}
      <4>1. route[n][o] = [hop |-> None, subs |-> {}]
        BY <2>2, <3>1
      <4> QED
        BY <4>1
    <3>2. CASE ~(n = o \/ subs[o] = {})
      <4>1. route[n][o] = [hop |-> o, subs |-> subs[o]]
        BY <2>2, <3>2
      <4>2. subs[o] \in SUBSET Topic /\ subs[o] # {} /\ o # None
        BY <2>1, <3>2, NodeFacts
      <4> QED
        BY <4>1, <4>2
    <3> QED
      BY <3>1, <3>2
  <2>5. route = [n \in Node |-> [o \in Node |-> route[n][o]]]
    BY DEF Init
  <2>6. route \in [Node -> [Node -> [hop : Node \cup {None}, subs : SUBSET Topic]]]
    BY <2>3, <2>5
  <2>7. \A n, o \in Node : (route[n][o].hop = None) <=> (route[n][o].subs = {})
    BY <2>3, NodeFacts
  <2> QED
    BY <2>1, <2>6, <2>7 DEF RoutesOK
<1>7. PendingOK
  BY DEF Init, PendingOK
<1>8. SeenOK
  BY DEF Init, SeenOK
<1>9. GotOK /\ DeliveredOnce
  BY DEF Init, GotOK, DeliveredOnce
<1> QED
  BY <1>2, <1>3, <1>4, <1>5, <1>6, <1>7, <1>8, <1>9 DEF MInv

(* Steps without a publish leave the counts of publishes alone. *)
LEMMA Same ==
    ASSUME MInv, UNCHANGED <<scene, local_seq>>
    PROVE  Grow
  BY DEF Grow, MInv, CountsOK

(* The announcement of a local subscription. *)
LEMMA AnnounceOps ==
    ASSUME MInv, NEW n \in Node, NEW f \in SubFrames
    PROVE  Announce(n, f) \in Seq(Ops(n))
<1>1. scene \in Scene
  BY NodeFacts DEF MInv, CountsOK
<1>2. scene.owner[f.filter] \in Node \cup {None} /\ scene.routers \in SUBSET Node
  BY <1>1 DEF Scene, SubFrames
<1>3. Tell(scene.routers, f, None) \in Ops(n)
  BY <1>2, OpIn
<1>4. scene.owner[f.filter] \notin {None, n} => SendTo(scene.owner[f.filter], f) \in Ops(n)
  BY <1>2, OpIn
<1>5. <<Tell(scene.routers, f, None)>> \in Seq(Ops(n))
  BY <1>3, SeqOne
<1>6. (IF scene.owner[f.filter] \in {None, n} THEN <<>>
       ELSE <<SendTo(scene.owner[f.filter], f)>>) \in Seq(Ops(n))
  BY <1>4, SeqOne
<1> QED
  BY <1>5, <1>6, SeqCat DEF Announce

LEMMA LocalSubscribeStep ==
    ASSUME MInv, NEW n \in Node, NEW t \in Topic, LocalSubscribe(n, t)
    PROVE  MInv'
<1>1. /\ subs' = [subs EXCEPT ![n] = @ \cup {t}]
      /\ todo' = [todo EXCEPT ![n][n] = Announce(n, SubFrame("SUB", n, t))]
      /\ UNCHANGED <<scene, wire, conn, chan, route, pending, seen, local_seq,
                      npub, nunsub, nbreak, got, again>>
  BY DEF LocalSubscribe, links, counts, history
<1>2. Grow
  BY <1>1, Same
<1>3. TodoOK'
  <2>1. Announce(n, SubFrame("SUB", n, t)) \in Seq(Ops(n))
    BY SubFrameIn, AnnounceOps
  <2>2. Announce(n, SubFrame("SUB", n, t)) \in Seq(Ops(n)')
    BY <1>2, <2>1, Growth, SeqSub
  <2> QED
    BY <1>1, <1>2, <2>2, TodoSet
<1>4. RoutesOK'
  BY <1>1 DEF MInv, RoutesOK
<1> QED
  BY <1>1, <1>2, <1>3, <1>4, Kept DEF MInv

LEMMA LocalUnsubscribeStep ==
    ASSUME MInv, NEW n \in Node, NEW t \in Topic, LocalUnsubscribe(n, t)
    PROVE  MInv'
<1>1. /\ subs' = [subs EXCEPT ![n] = @ \ {t}]
      /\ todo' = [todo EXCEPT ![n][n] = Announce(n, SubFrame("UNSUB", n, t))]
      /\ nunsub' = nunsub + 1 /\ nunsub < scene.unsubs
      /\ UNCHANGED <<scene, wire, conn, chan, route, pending, seen, local_seq,
                      npub, nbreak, got, again>>
  BY DEF LocalUnsubscribe, links
<1>2. Grow
  BY <1>1, Same
<1>3. TodoOK'
  <2>1. Announce(n, SubFrame("UNSUB", n, t)) \in Seq(Ops(n))
    BY SubFrameIn, AnnounceOps
  <2>2. Announce(n, SubFrame("UNSUB", n, t)) \in Seq(Ops(n)')
    BY <1>2, <2>1, Growth, SeqSub
  <2> QED
    BY <1>1, <1>2, <2>2, TodoSet
<1>4. RoutesOK'
  BY <1>1 DEF MInv, RoutesOK
<1>5. CountsOK'
  <2>1. scene \in Scene
    BY NodeFacts DEF MInv, CountsOK
  <2> QED
    BY <1>1, <2>1 DEF MInv, CountsOK, Scene
<1> QED
  BY <1>1, <1>2, <1>3, <1>4, <1>5, Kept DEF MInv

(* The message of a local publish, which has a number of its own. *)
LEMMA PublishParts ==
    ASSUME MInv, LocalPublish
    PROVE  \E n \in Node, m \in Msg, stored \in BOOLEAN :
             LET rest == <<Do("flood", m)>> \o (IF stored THEN <<Do("store", m)>> ELSE <<>>) IN
             /\ stored => m.qos > 0
             /\ m.origin = n /\ m.seq = local_seq[n] + 1
             /\ todo[n][n] = <<>>
             /\ npub < Len(scene.pubs) /\ npub' = npub + 1
             /\ local_seq' = [local_seq EXCEPT ![n] = @ + 1]
             /\ Delivers(n, m)
             /\ UNCHANGED <<scene, wire, conn, subs, route, pending, seen, nunsub, nbreak, kept>>
             /\ \/ (\E D : Put(n, D, PubFrame(m))) /\ UNCHANGED todo
                \/ todo' = [todo EXCEPT ![n][n] = rest] /\ UNCHANGED chan
<1> DEFINE n == scene.pubs[npub + 1][1]
           t == scene.pubs[npub + 1][2]
           m == [origin |-> n, seq |-> local_seq[n] + 1, topic |-> t,
                 qos |-> scene.pubs[npub + 1][3]]
           direct == {scene.owner[t]} \ {n, None}
           hops == Hops(n, t, None)
           stored == m.qos > 0 /\ hops # {}
           rest == <<Do("flood", m)>> \o (IF stored THEN <<Do("store", m)>> ELSE <<>>)
<1>1. /\ npub < Len(scene.pubs) /\ npub' = npub + 1
      /\ todo[n][n] = <<>>
      /\ local_seq' = [local_seq EXCEPT ![n] = @ + 1]
      /\ Delivers(n, m)
      /\ UNCHANGED <<scene, wire, conn, subs, route, pending, seen, nunsub, nbreak, kept>>
  BY DEF LocalPublish, links
<1>2. \/ (\E D : Put(n, D, PubFrame(m))) /\ UNCHANGED todo
      \/ todo' = [todo EXCEPT ![n][n] = rest] /\ UNCHANGED chan
  <2>1. PICK D \in Outcomes(n, direct), S \in Outcomes(n, hops) :
           IF D # {}
           THEN Put(n, direct, PubFrame(m)) /\ UNCHANGED todo
           ELSE IF S # {}
           THEN Put(n, hops, PubFrame(m)) /\ UNCHANGED todo
           ELSE todo' = [todo EXCEPT ![n][n] = rest] /\ UNCHANGED chan
    BY DEF LocalPublish
  <2> QED
    BY <2>1
<1>3. n \in Node /\ t \in Topic /\ m.qos \in 0 .. 2
  <2>1. scene \in Scene
    BY NodeFacts DEF MInv, CountsOK
  <2>2. scene.pubs \in Seq(Node \X Topic \X (0 .. 2)) /\ npub + 1 \in 1 .. Len(scene.pubs)
    BY <1>1, <2>1 DEF Scene, MInv, CountsOK
  <2>3. scene.pubs[npub + 1] \in Node \X Topic \X (0 .. 2)
    BY <2>2
  <2> QED
    BY <2>3
<1>4. m \in Msg /\ m.origin = n /\ m.seq = local_seq[n] + 1
  BY <1>3 DEF Msg, MInv, CountsOK
<1>5. stored \in BOOLEAN /\ (stored => m.qos > 0)
  OBVIOUS
<1> HIDE DEF n, t, m, direct, hops, stored
<1> QED
  BY <1>1, <1>2, <1>3, <1>4, <1>5

LEMMA LocalPublishStep ==
    ASSUME MInv, LocalPublish
    PROVE  MInv'
<1> DEFINE Rest(m, stored) ==
             <<Do("flood", m)>> \o (IF stored THEN <<Do("store", m)>> ELSE <<>>)
<1>1. PICK n \in Node, m \in Msg, stored \in BOOLEAN :
         /\ stored => m.qos > 0
         /\ m.origin = n /\ m.seq = local_seq[n] + 1
         /\ npub' = npub + 1
         /\ local_seq' = [local_seq EXCEPT ![n] = @ + 1]
         /\ Delivers(n, m)
         /\ UNCHANGED <<scene, wire, conn, subs, route, pending, seen, nunsub, nbreak>>
         /\ \/ (\E D : Put(n, D, PubFrame(m))) /\ UNCHANGED todo
            \/ todo' = [todo EXCEPT ![n][n] = Rest(m, stored)] /\ UNCHANGED chan
  BY PublishParts
<1>4. local_seq[n] \in Nat
  BY DEF MInv, CountsOK
<1>5. Grow /\ local_seq'[n] = m.seq
  BY <1>1, <1>4 DEF Grow, MInv, CountsOK
<1>6. m \in Known' /\ m \in Mine(n)'
  BY <1>1, <1>4, <1>5 DEF Known, Mine
<1>7. ChanOK'
  <2>1. CASE \E D : Put(n, D, PubFrame(m))
    <3>1. PICK D : Put(n, D, PubFrame(m))
      BY <2>1
    <3>2. ASSUME NEW q \in Live(n, D) PROVE PubFrame(m) \in Frames(n, q)'
      <4>1. q \in conn[n]
        BY DEF Live
      <4>2. Away(n, q, n) /\ q \in Node
        BY <4>1, AwayStart DEF MInv
      <4>3. Away(n, q, n)'
        BY <1>5, <4>2, Growth
      <4>4. PubFrame(m) \in [type : {"PUBLISH"}, msg : Known'] /\ PubFrame(m).msg = m
        BY <1>6 DEF PubFrame
      <4> QED
        BY <1>1, <4>3, <4>4 DEF Frames, PubFrames
    <3> QED
      BY <1>5, <3>1, <3>2, PutOK
  <2>2. CASE UNCHANGED chan
    BY <1>5, <2>2, Kept
  <2> QED
    BY <1>1, <2>1, <2>2
<1>8. TodoOK'
  <2>1. CASE todo' = [todo EXCEPT ![n][n] = Rest(m, stored)]
    <3>1. Do("flood", m) \in Ops(n)' /\ (m.qos > 0 => Do("store", m) \in Ops(n)')
      BY <1>6 DEF Ops, Do
    <3>2. /\ <<Do("flood", m)>> \in Seq(Ops(n)')
          /\ (IF stored THEN <<Do("store", m)>> ELSE <<>>) \in Seq(Ops(n)')
      BY <1>1, <3>1, SeqOne
    <3>3. Rest(m, stored) \in Seq(Ops(n)')
      BY <3>2, SeqCat
    <3> HIDE DEF Rest
    <3> QED
      BY <1>5, <2>1, <3>3, TodoSet
  <2>2. CASE UNCHANGED todo
    BY <1>5, <2>2, Kept
  <2> QED
    BY <1>1, <2>1, <2>2
<1> HIDE DEF Rest
<1>9. CountsOK'
  BY <1>1, <1>5 DEF MInv, CountsOK, Grow
<1>10. \A k : <<k, m>> \notin got
  <2>1. m \notin Known
    BY <1>1, <1>4 DEF Known
  <2> QED
    BY <2>1 DEF MInv, GotOK
<1>11. GotOK'
  <2>1. got' \subseteq got \cup {<<n, m>>}
    BY <1>1 DEF Delivers
  <2>2. got' \subseteq Node \X Known'
    BY <1>5, <1>6, <2>1, Growth DEF MInv, GotOK
  <2>3. ASSUME NEW k \in Node, NEW d \in Known', <<k, d>> \in got'
        PROVE  k = d.origin \/ SeenBefore(k, d)' \/ Collides(d)'
    <3>1. CASE d = m
      BY <1>1, <1>10, <2>1, <2>3, <3>1
    <3>2. CASE d # m
      <4>1. <<k, d>> \in got
        BY <2>1, <2>3, <3>2
      <4>2. d \in Known
        BY <4>1 DEF MInv, GotOK
      <4>3. k = d.origin \/ SeenBefore(k, d) \/ Collides(d)
        BY <4>1, <4>2 DEF MInv, GotOK
      <4> QED
        BY <1>1, <1>5, <4>3, Growth DEF SeenBefore, SeenAt
    <3> QED
      BY <3>1, <3>2
  <2> QED
    BY <2>2, <2>3 DEF GotOK
<1>12. DeliveredOnce'
  <2>1. again' = again
    BY <1>1, <1>10 DEF Delivers
  <2> QED
    BY <1>5, <2>1, Kept
<1> QED
  BY <1>1, <1>5, <1>7, <1>8, <1>9, <1>11, <1>12, Kept DEF MInv

----------------------------------------------------------------------------
(* A handler that changes no table. *)
LEMMA HandlerStep ==
    ASSUME MInv, ChanOK', TodoOK',
           UNCHANGED <<scene, wire, conn, subs, route, pending, seen, local_seq,
                       npub, nunsub, nbreak, got, again>>
    PROVE  MInv'
<1>1. Grow
  BY Same
<1> QED
  BY <1>1, Kept DEF MInv

LEMMA PassesOps ==
    ASSUME MInv, NEW n \in Node, NEW p \in Node, NEW f \in SubFrames
    PROVE  Passes(n, f, p) \in Seq(Ops(n))
<1>1. scene \in Scene
  BY NodeFacts DEF MInv, CountsOK
<1>2. scene.routers \in SUBSET Node /\ Node \ scene.routers \in SUBSET Node
  BY <1>1 DEF Scene
<1>3. Tell(scene.routers, f, p) \in Ops(n) /\ Tell(Node \ scene.routers, f, p) \in Ops(n)
  BY <1>2, OpIn
<1>4. <<Tell(scene.routers, f, p), Tell(Node \ scene.routers, f, p)>> \in Seq(Ops(n))
  BY <1>3
<1> QED
  BY <1>4, SeqOne DEF Passes

(* One route is replaced. *)
LEMMA RouteSet ==
    ASSUME MInv, NEW n \in Node, NEW o \in Node,
           NEW new \in [hop : Node \cup {None}, subs : SUBSET Topic],
           (new.hop = None) <=> (new.subs = {}),
           route' = [route EXCEPT ![n][o] = new], subs' = subs
    PROVE  RoutesOK'
<1>1. /\ route' \in [Node -> [Node -> [hop : Node \cup {None}, subs : SUBSET Topic]]]
      /\ \A k, q \in Node : route'[k][q] = IF k = n /\ q = o THEN new ELSE route[k][q]
  BY DEF MInv, RoutesOK
<1>2. ASSUME NEW k \in Node, NEW q \in Node
      PROVE  (route'[k][q].hop = None) <=> (route'[k][q].subs = {})
  <2>1. CASE k = n /\ q = o
    <3>1. route'[k][q] = new
      BY <1>1, <2>1
    <3> QED
      BY <3>1
  <2>2. CASE ~(k = n /\ q = o)
    <3>1. route'[k][q] = route[k][q]
      BY <1>1, <2>2
    <3>2. (route[k][q].hop = None) <=> (route[k][q].subs = {})
      BY DEF MInv, RoutesOK
    <3> QED
      BY <3>1, <3>2
  <2> QED
    BY <2>1, <2>2
<1> QED
  BY <1>1, <1>2 DEF MInv, RoutesOK

LEMMA TakeSubStep ==
    ASSUME MInv, NEW n \in Node, NEW p \in Node, TakeSub(n, p)
    PROVE  MInv'
<1> DEFINE f == Head(chan[p][n])
           r == route[n][f.owner]
           hop == IF NewHop(n, f.owner, p) THEN p ELSE r.hop
           ops == <<Do("flush", f.filter)>> \o (IF SubChanged(n, f, p) THEN Passes(n, f, p) ELSE <<>>)
<1>1. /\ Takes(n, p, "SUB")
      /\ chan' = [chan EXCEPT ![p][n] = Tail(@)]
      /\ route' = [route EXCEPT ![n][f.owner] = [hop |-> hop, subs |-> r.subs \cup {f.filter}]]
      /\ todo' = [todo EXCEPT ![n][p] = ops]
      /\ UNCHANGED <<scene, wire, conn, subs, pending, seen, local_seq,
                      npub, nunsub, nbreak, got, again>>
  BY DEF TakeSub, links, counts, history
<1>2. f \in SubFrames /\ chan[p][n] # <<>>
  BY <1>1, TakesFrame
<1>3. f.owner \in Node /\ f.filter \in Topic
  BY <1>2 DEF SubFrames
<1>4. Grow
  BY <1>1, Same
<1>5. ChanOK'
  BY <1>1, <1>2, <1>4, TakeOK
<1>6. TodoOK'
  <2>1. Do("flush", f.filter) \in Ops(n)
    BY <1>3, OpIn
  <2>2. /\ <<Do("flush", f.filter)>> \in Seq(Ops(n))
        /\ (IF SubChanged(n, f, p) THEN Passes(n, f, p) ELSE <<>>) \in Seq(Ops(n))
    BY <1>2, <2>1, SeqOne, PassesOps
  <2>3. ops \in Seq(Ops(n))
    BY <2>2, SeqCat
  <2>4. ops \in Seq(Ops(n)')
    BY <1>4, <2>3, Growth, SeqSub
  <2> HIDE DEF ops
  <2> QED
    BY <1>1, <1>4, <2>4, TodoSet
<1>7. RoutesOK'
  <2>1. r \in [hop : Node \cup {None}, subs : SUBSET Topic]
    BY <1>3 DEF MInv, RoutesOK
  <2>2. hop \in Node
    BY <2>1 DEF NewHop
  <2>3. DEFINE new == [hop |-> hop, subs |-> r.subs \cup {f.filter}]
  <2>4. /\ new \in [hop : Node \cup {None}, subs : SUBSET Topic]
        /\ new.hop # None /\ new.subs # {}
    BY <1>3, <2>1, <2>2, NodeFacts
  <2> HIDE DEF new
  <2>5. route' = [route EXCEPT ![n][f.owner] = new]
    BY <1>1 DEF new
  <2> QED
    BY <1>1, <1>3, <2>4, <2>5, RouteSet
<1> QED
  BY <1>1, <1>4, <1>5, <1>6, <1>7, Kept DEF MInv

LEMMA TakeUnsubStep ==
    ASSUME MInv, NEW n \in Node, NEW p \in Node, TakeUnsub(n, p)
    PROVE  MInv'
<1> DEFINE f == Head(chan[p][n])
           new == Without(route[n][f.owner], f.filter)
           ops == IF f.filter \in route[n][f.owner].subs THEN Passes(n, f, p) ELSE <<>>
<1>1. /\ Takes(n, p, "UNSUB")
      /\ chan' = [chan EXCEPT ![p][n] = Tail(@)]
      /\ route' = [route EXCEPT ![n][f.owner] = Without(@, f.filter)]
      /\ todo' = [todo EXCEPT ![n][p] = ops]
      /\ UNCHANGED <<scene, wire, conn, subs, pending, seen, local_seq,
                      npub, nunsub, nbreak, got, again>>
  BY DEF TakeUnsub, links, counts, history
<1>2. f \in SubFrames /\ chan[p][n] # <<>>
  BY <1>1, TakesFrame
<1>3. f.owner \in Node /\ f.filter \in Topic
  BY <1>2 DEF SubFrames
<1>4. Grow
  BY <1>1, Same
<1>5. ChanOK'
  BY <1>1, <1>2, <1>4, TakeOK
<1>6. TodoOK'
  <2>1. ops \in Seq(Ops(n))
    BY <1>2, SeqOne, PassesOps
  <2>2. ops \in Seq(Ops(n)')
    BY <1>4, <2>1, Growth, SeqSub
  <2> HIDE DEF ops
  <2> QED
    BY <1>1, <1>4, <2>2, TodoSet
<1>7. RoutesOK'
  <2>1. /\ route[n][f.owner] \in [hop : Node \cup {None}, subs : SUBSET Topic]
        /\ (route[n][f.owner].hop = None) <=> (route[n][f.owner].subs = {})
    BY <1>3 DEF MInv, RoutesOK
  <2>2. /\ new \in [hop : Node \cup {None}, subs : SUBSET Topic]
        /\ (new.hop = None) <=> (new.subs = {})
    BY <2>1 DEF Without, NoRoute
  <2>3. route' = [route EXCEPT ![n][f.owner] = new]
    BY <1>1, <1>3 DEF MInv, RoutesOK
  <2> HIDE DEF f, new
  <2> QED
    BY <1>1, <1>3, <2>2, <2>3, RouteSet
<1> QED
  BY <1>1, <1>4, <1>5, <1>6, <1>7, Kept DEF MInv

LEMMA DoRemoveStep ==
    ASSUME MInv, NEW n \in Node, NEW p \in Node, DoRemove(n, p)
    PROVE  MInv'
<1>1. /\ At(n, p, "remove")
      /\ route' = [route EXCEPT ![n] = [o \in Node |->
                      IF o = p \/ @[o].hop = p THEN NoRoute ELSE @[o]]]
      /\ Replace(n, p, <<>>)
      /\ UNCHANGED <<scene, wire, conn, chan, subs, pending, seen, local_seq,
                      npub, nunsub, nbreak, got, again>>
  BY DEF DoRemove, links, counts, history
<1>2. Grow
  BY <1>1, Same
<1>3. TodoOK'
  BY <1>1, <1>2, GoneOK
<1>4. RoutesOK'
  <2>1. \A k, o \in Node : route'[k][o] = IF k = n /\ (o = p \/ route[k][o].hop = p) THEN NoRoute
                                         ELSE route[k][o]
    BY <1>1 DEF MInv, RoutesOK
  <2>2. NoRoute \in [hop : Node \cup {None}, subs : SUBSET Topic] /\ NoRoute.hop = None /\ NoRoute.subs = {}
    BY DEF NoRoute
  <2>3. route' = [k \in Node |-> [o \in Node |-> route'[k][o]]]
    BY <1>1 DEF MInv, RoutesOK
  <2>4. \A k, o \in Node : route'[k][o] \in [hop : Node \cup {None}, subs : SUBSET Topic]
    BY <2>1, <2>2 DEF MInv, RoutesOK
  <2>5. \A k, o \in Node : (route'[k][o].hop = None) <=> (route'[k][o].subs = {})
    BY <2>1, <2>2 DEF MInv, RoutesOK
  <2>6. route' \in [Node -> [Node -> [hop : Node \cup {None}, subs : SUBSET Topic]]]
    BY <2>3, <2>4
  <2> QED
    BY <1>1, <2>5, <2>6 DEF MInv, RoutesOK
<1> QED
  BY <1>1, <1>2, <1>3, <1>4, Kept DEF MInv

----------------------------------------------------------------------------
(* A publish that arrives: it was not here before, or another has taken    *)
(* its place in the seen cache, or it is of the broker itself and the      *)
(* network has a cycle.                                                    *)
LEMMA TakePublishStep ==
    ASSUME MInv, NEW n \in Node, NEW p \in Node, TakePublish(n, p)
    PROVE  MInv'
<1>1. PICK m \in Known, out \in SUBSET Node :
         /\ Away(p, n, m.origin)
         /\ \A q \in out : q \in conn[n] \ {p}
         /\ IF SeenBefore(n, m)
            THEN /\ chan' = [chan EXCEPT ![p][n] = Tail(@)]
                 /\ UNCHANGED <<seen, got, again>>
            ELSE /\ chan' = [[chan EXCEPT ![p][n] = Tail(@)] EXCEPT ![n] =
                               [q \in Node |-> IF q \in out THEN Append(@[q], PubFrame(m)) ELSE @[q]]]
                 /\ seen' = [seen EXCEPT ![n][SeenAt(m)] = <<m.origin, m.seq>>]
                 /\ Delivers(n, m)
  <2> DEFINE m == Head(chan[p][n]).msg
             out == IF n \in scene.routers THEN Live(n, Hops(n, m.topic, p)) ELSE {}
  <2>1. Takes(n, p, "PUBLISH")
    BY DEF TakePublish
  <2>2. m \in Known /\ Away(p, n, m.origin)
    BY <2>1, TakesFrame
  <2>3. \A q \in out : q \in conn[n] \ {p} /\ q \in Node
    BY DEF Live, Hops, MInv, ConnOK
  <2>4. IF SeenBefore(n, m)
        THEN /\ chan' = [chan EXCEPT ![p][n] = Tail(@)]
             /\ UNCHANGED <<seen, got, again>>
        ELSE /\ chan' = [[chan EXCEPT ![p][n] = Tail(@)] EXCEPT ![n] =
                           [q \in Node |-> IF q \in out THEN Append(@[q], PubFrame(m)) ELSE @[q]]]
             /\ seen' = [seen EXCEPT ![n][SeenAt(m)] = <<m.origin, m.seq>>]
             /\ Delivers(n, m)
    BY DEF TakePublish
  <2>5. out \in SUBSET Node
    BY <2>3
  <2> HIDE DEF m, out
  <2> QED
    BY <2>2, <2>3, <2>4, <2>5
<1>2. /\ Takes(n, p, "PUBLISH")
      /\ UNCHANGED <<scene, wire, conn, todo, subs, route, pending, local_seq,
                      npub, nunsub, nbreak>>
  BY DEF TakePublish, links, counts
<1>3. Grow
  BY <1>2, Same
<1>4. chan[p][n] # <<>>
  BY <1>2, TakesFrame
<1>5. m \in Msg /\ m.origin \in Node /\ m.seq \in 1 .. local_seq[m.origin] /\ m.seq \in Nat
  BY DEF Known, Msg, MInv, CountsOK
<1>6. CASE SeenBefore(n, m)
  <2>1. chan' = [chan EXCEPT ![p][n] = Tail(@)] /\ UNCHANGED <<seen, got, again>>
    BY <1>1, <1>6
  <2>2. ChanOK'
    BY <1>3, <1>4, <2>1, TakeOK
  <2> QED
    BY <1>2, <1>3, <2>1, <2>2, Kept DEF MInv
<1>7. CASE ~SeenBefore(n, m)
  <2>1. /\ chan' = [[chan EXCEPT ![p][n] = Tail(@)] EXCEPT ![n] =
                      [q \in Node |-> IF q \in out THEN Append(@[q], PubFrame(m)) ELSE @[q]]]
        /\ seen' = [seen EXCEPT ![n][SeenAt(m)] = <<m.origin, m.seq>>]
        /\ Delivers(n, m)
    BY <1>1, <1>7
  <2>2. ChanOK'
    <3>1. chan = [k \in Node |-> [q \in Node |-> chan[k][q]]]
      BY DEF MInv, ChanOK
    <3>2. n # p
      BY <1>2, TakesFrame
    <3>3. /\ chan' = [k \in Node |-> [q \in Node |-> chan'[k][q]]]
          /\ \A k, q \in Node :
               chan'[k][q] = IF k = p /\ q = n THEN Tail(chan[p][n])
                             ELSE IF k = n /\ q \in out THEN Append(chan[k][q], PubFrame(m))
                             ELSE chan[k][q]
      BY <2>1, <3>1, <3>2
    <3>4. \A k, q \in Node : chan[k][q] \in Seq(Frames(k, q)')
      BY <1>3, Growth, SeqSub DEF MInv, ChanOK
    <3>5. ASSUME NEW q \in out PROVE PubFrame(m) \in Frames(n, q)'
      <4>1. q \in Node /\ q \in conn[n] \ {p}
        BY <1>1
      <4>2. {n, q} \in scene.links /\ q # n
        BY <4>1 DEF MInv, ConnOK, Peers
      <4>3. Away(n, q, m.origin)
        BY <1>1, <4>1, <4>2, AwayOn
      <4>4. PubFrame(m) \in Frames(n, q)
        BY <4>3, FrameIn
      <4> QED
        BY <1>3, <4>1, <4>4, Growth
    <3>6. ASSUME NEW k \in Node, NEW q \in Node PROVE chan'[k][q] \in Seq(Frames(k, q)')
      <4>1. CASE k = p /\ q = n
        <5>1. Tail(chan[p][n]) \in Seq(Frames(p, n)')
          BY <1>4, <3>4, SeqTail
        <5> QED
          BY <3>3, <4>1, <5>1
      <4>2. CASE ~(k = p /\ q = n) /\ k = n /\ q \in out
        <5>1. Append(chan[n][q], PubFrame(m)) \in Seq(Frames(n, q)')
          BY <3>4, <3>5, <4>2, SeqApp
        <5> QED
          BY <3>3, <4>2, <5>1
      <4>3. CASE ~(k = p /\ q = n) /\ ~(k = n /\ q \in out)
        BY <3>3, <3>4, <4>3
      <4> QED
        BY <4>1, <4>2, <4>3
    <3> QED
      BY <3>3, <3>6 DEF ChanOK
  <2>3. SeenAt(m) \in SeenIdx
    BY <1>5, SeenAtType
  <2>4. SeenOK'
    <3>1. <<m.origin, m.seq>> \in Node \X Nat
      BY <1>5
    <3> QED
      BY <2>1, <2>3, <3>1 DEF MInv, SeenOK
  <2>5. Known' = Known
    BY <1>2 DEF Known
  <2>6. got' \subseteq got \cup {<<n, m>>}
    BY <2>1 DEF Delivers
  <2>7. SeenBefore(n, m)'
    BY <2>1, <2>3 DEF SeenBefore, SeenAt, MInv, SeenOK
  <2>8. ASSUME NEW k \in Node, NEW d \in Known, <<k, d>> \in got'
        PROVE  k = d.origin \/ SeenBefore(k, d)' \/ Collides(d)'
    <3>1. CASE k = n /\ d = m
      BY <2>7, <3>1
    <3>2. CASE ~(k = n /\ d = m)
      <4>1. k = d.origin \/ SeenBefore(k, d) \/ Collides(d)
        BY <2>6, <2>8, <3>2 DEF MInv, GotOK
      <4>2. CASE k = d.origin \/ Collides(d)
        BY <1>3, <4>2, Growth
      <4>3. CASE SeenBefore(k, d) /\ ~(k = n /\ SeenAt(d) = SeenAt(m))
        <5>1. d.origin \in Node /\ d.seq \in Nat
          BY DEF Known, Msg
        <5>2. SeenAt(d) \in SeenIdx
          BY <5>1, SeenAtType
        <5>3. seen'[k][SeenAt(d)] = seen[k][SeenAt(d)]
          BY <2>1, <4>3, <5>2 DEF MInv, SeenOK
        <5> QED
          BY <4>3, <5>3 DEF SeenBefore, SeenAt
      <4>4. CASE k = n /\ SeenAt(d) = SeenAt(m)
        <5>1. CASE <<m.origin, m.seq>> = <<d.origin, d.seq>>
          <6>1. SeenBefore(n, d)'
            BY <2>7, <5>1 DEF SeenBefore, SeenAt
          <6> QED
            BY <4>4, <6>1
        <5>2. CASE <<m.origin, m.seq>> # <<d.origin, d.seq>>
          <6>1. SeenAt([origin |-> m.origin, seq |-> m.seq]) = SeenAt(d)
            BY <4>4 DEF SeenAt
          <6>2. Collides(d)
            BY <1>5, <5>2, <6>1 DEF Collides
          <6> QED
            BY <1>3, <6>2, Growth
        <5> QED
          BY <5>1, <5>2
      <4> QED
        BY <4>1, <4>2, <4>3, <4>4
    <3> QED
      BY <3>1, <3>2
  <2>9. GotOK'
    <3>1. got' \subseteq Node \X Known'
      BY <2>5, <2>6 DEF MInv, GotOK
    <3> QED
      BY <2>5, <2>8, <3>1 DEF GotOK
  <2>10. DeliveredOnce'
    <3>1. again' = again \/ (again' = again \cup {<<n, m>>} /\ <<n, m>> \in got)
      BY <2>1 DEF Delivers
    <3>2. ASSUME <<n, m>> \in got
          PROVE  Collides(m) \/ (n = m.origin /\ ~Tree)
      <4>1. n = m.origin \/ Collides(m)
        BY <1>7, <3>2 DEF MInv, GotOK
      <4>2. Tree => n # m.origin
        BY <1>1, AwayGone
      <4> QED
        BY <4>1, <4>2
    <3>3. \A e \in again : Collides(e[2])' \/ (e[1] = e[2].origin /\ ~Tree')
      BY <1>3, Growth DEF MInv, DeliveredOnce
    <3>4. <<n, m>> \in got => Collides(m)' \/ (n = m.origin /\ ~Tree')
      BY <1>3, <3>2, Growth
    <3> QED
      BY <3>1, <3>3, <3>4 DEF DeliveredOnce
  <2> QED
    BY <1>2, <1>3, <2>2, <2>4, <2>9, <2>10, Kept DEF MInv
<1> QED
  BY <1>6, <1>7

(* A publish of n may go to every peer of n. *)
LEMMA OwnFrame ==
    ASSUME MInv, Grow, NEW n \in Node, NEW m \in Mine(n), NEW q \in conn[n]
    PROVE  PubFrame(m) \in Frames(n, q)'
<1>1. m \in Known /\ m.origin = n
  BY DEF Mine
<1>2. q \in Node /\ Away(n, q, m.origin)
  BY <1>1, AwayStart DEF MInv
<1>3. PubFrame(m) \in Frames(n, q)
  BY <1>1, <1>2, FrameIn
<1> QED
  BY <1>2, <1>3, Growth

----------------------------------------------------------------------------
(* The rest of a handler. *)

LEMMA DoSendStep ==
    ASSUME MInv, NEW n \in Node, NEW p \in Node, DoSend(n, p)
    PROVE  MInv'
<1>1. /\ At(n, p, "send") /\ Put(n, {Arg(n, p).to}, Arg(n, p).frame) /\ Replace(n, p, <<>>)
      /\ UNCHANGED <<scene, wire, conn, subs, route, pending, seen, local_seq,
                      npub, nunsub, nbreak, got, again>>
  BY DEF DoSend, links, tables, counts, history
<1>2. Grow
  BY <1>1, Same
<1>3. Arg(n, p).frame \in SubFrames
  BY <1>1, AtOp
<1>4. ASSUME NEW q \in Live(n, {Arg(n, p).to}) PROVE Arg(n, p).frame \in Frames(n, q)'
  <2>1. q \in Node
    BY DEF Live, MInv, ConnOK
  <2> QED
    BY <1>2, <1>3, <2>1, FrameIn, Growth
<1>5. ChanOK'
  BY <1>1, <1>2, <1>4, PutOK
<1>6. TodoOK'
  BY <1>1, <1>2, GoneOK
<1> QED
  BY <1>1, <1>5, <1>6, HandlerStep

LEMMA DoFloodStep ==
    ASSUME MInv, NEW n \in Node, NEW p \in Node, DoFlood(n, p)
    PROVE  MInv'
<1>1. /\ At(n, p, "flood") /\ Put(n, conn[n], PubFrame(Arg(n, p))) /\ Replace(n, p, <<>>)
      /\ UNCHANGED <<scene, wire, conn, subs, route, pending, seen, local_seq,
                      npub, nunsub, nbreak, got, again>>
  BY DEF DoFlood, links, tables, counts, history
<1>2. Grow
  BY <1>1, Same
<1>3. Arg(n, p) \in Mine(n)
  BY <1>1, AtOp
<1>4. ASSUME NEW q \in Live(n, conn[n]) PROVE PubFrame(Arg(n, p)) \in Frames(n, q)'
  BY <1>2, <1>3, OwnFrame DEF Live
<1>5. ChanOK'
  BY <1>1, <1>2, <1>4, PutOK
<1>6. TodoOK'
  BY <1>1, <1>2, GoneOK
<1> QED
  BY <1>1, <1>5, <1>6, HandlerStep

LEMMA SlotType ==
    ASSUME NEW n
    PROVE  PendingSlot(n) \in PendingIdx
<1>1. PendingIdx \subseteq Nat /\ 0 \in PendingIdx
  BY NodeFacts DEF PendingIdx
<1>2. First({j \in PendingIdx : pending[n][j] = None}) \in PendingIdx \cup {None}
  BY <1>1, FirstType
<1> QED
  BY <1>1, <1>2 DEF PendingSlot

(* One entry of the table of pending publishes is written. *)
LEMMA PendingSet ==
    ASSUME MInv, Grow, NEW n \in Node, NEW i \in PendingIdx, NEW m,
           m = None \/ (m \in Mine(n) /\ m.qos > 0),
           pending' = [pending EXCEPT ![n][i] = m]
    PROVE  PendingOK'
<1>1. m \in Msg \cup {None}
  BY DEF Mine, Known
<1>2. /\ pending' \in [Node -> [PendingIdx -> Msg \cup {None}]]
      /\ \A k \in Node, j \in PendingIdx :
           pending'[k][j] = IF k = n /\ j = i THEN m ELSE pending[k][j]
  BY <1>1 DEF MInv, PendingOK
<1>3. ASSUME NEW k \in Node, NEW j \in PendingIdx, pending'[k][j] # None
      PROVE  pending'[k][j] \in Mine(k)' /\ pending'[k][j].qos > 0
  <2>1. Mine(k) \subseteq Mine(k)'
    BY Growth
  <2>2. CASE k = n /\ j = i
    BY <1>2, <1>3, <2>1, <2>2
  <2>3. CASE ~(k = n /\ j = i)
    BY <1>2, <1>3, <2>1, <2>3 DEF MInv, PendingOK
  <2> QED
    BY <2>2, <2>3
<1> QED
  BY <1>2, <1>3 DEF PendingOK

LEMMA DoStoreStep ==
    ASSUME MInv, NEW n \in Node, NEW p \in Node, DoStore(n, p)
    PROVE  MInv'
<1>1. /\ At(n, p, "store") /\ Replace(n, p, <<>>)
      /\ pending' = [pending EXCEPT ![n][PendingSlot(n)] = Arg(n, p)]
      /\ UNCHANGED <<scene, wire, conn, chan, subs, route, seen, local_seq,
                      npub, nunsub, nbreak, got, again>>
  BY DEF DoStore, links, counts
<1>2. Grow
  BY <1>1, Same
<1>3. Arg(n, p) \in Mine(n) /\ Arg(n, p).qos > 0
  BY <1>1, AtOp
<1>4. PendingOK'
  BY <1>1, <1>2, <1>3, SlotType, PendingSet
<1>5. TodoOK'
  BY <1>1, <1>2, GoneOK
<1> QED
  BY <1>1, <1>2, <1>4, <1>5, Kept DEF MInv

LEMMA DoClearStep ==
    ASSUME MInv, NEW n \in Node, NEW p \in Node, DoClear(n, p)
    PROVE  MInv'
<1>1. /\ At(n, p, "clear") /\ Replace(n, p, <<>>)
      /\ pending' = [pending EXCEPT ![n][Arg(n, p)] = None]
      /\ UNCHANGED <<scene, wire, conn, chan, subs, route, seen, local_seq,
                      npub, nunsub, nbreak, got, again>>
  BY DEF DoClear, links, counts, history
<1>2. Grow
  BY <1>1, Same
<1>3. Arg(n, p) \in PendingIdx
  BY <1>1, AtOp
<1>4. PendingOK'
  BY <1>1, <1>2, <1>3, PendingSet
<1>5. TodoOK'
  BY <1>1, <1>2, GoneOK
<1> QED
  BY <1>1, <1>2, <1>4, <1>5, Kept DEF MInv

LEMMA DoTellStep ==
    ASSUME MInv, NEW n \in Node, NEW p \in Node, DoTell(n, p)
    PROVE  MInv'
<1> DEFINE D == (Arg(n, p).to \cap conn[n]) \ {Arg(n, p).except}
<1>1. PICK s \in Orders(D) : Replace(n, p, [i \in DOMAIN s |-> SendTo(s[i], Arg(n, p).frame)])
  BY DEF DoTell
<1>2. /\ At(n, p, "tell")
      /\ UNCHANGED <<scene, wire, conn, chan, subs, route, pending, seen, local_seq,
                      npub, nunsub, nbreak, got, again>>
  BY DEF DoTell, links, tables, counts, history
<1>3. Grow
  BY <1>2, Same
<1>4. Arg(n, p).frame \in SubFrames /\ todo[n][p] # <<>>
  BY <1>2, AtOp
<1>5. D \subseteq Node /\ IsFiniteSet(D)
  <2>1. D \subseteq Node
    BY DEF MInv, ConnOK
  <2> QED
    BY <2>1, NodeFacts, FS_Subset
<1>6. [i \in DOMAIN s |-> SendTo(s[i], Arg(n, p).frame)] \in Seq(Ops(n))
  <2>1. \A d \in D : SendTo(d, Arg(n, p).frame) \in Ops(n)
    BY <1>4, <1>5, OpIn
  <2>2. DOMAIN s = 1 .. Len(s) /\ Len(s) \in Nat /\ \A i \in DOMAIN s : s[i] \in D
    BY <1>1, <1>5, OrderSeq
  <2> HIDE DEF D
  <2> QED
    BY <2>1, <2>2
<1>7. TodoOK'
  BY <1>1, <1>3, <1>4, <1>6, ReplaceOK
<1>8. ChanOK'
  BY <1>2, <1>3, Kept
<1> QED
  BY <1>2, <1>7, <1>8, HandlerStep

LEMMA DoAdvertiseStep ==
    ASSUME MInv, NEW n \in Node, NEW p \in Node, DoAdvertise(n, p)
    PROVE  MInv'
<1>1. /\ At(n, p, "advertise")
      /\ UNCHANGED <<scene, wire, conn, chan, subs, route, pending, seen, local_seq,
                      npub, nunsub, nbreak, got, again>>
  BY DEF DoAdvertise, links, tables, counts, history
<1>2. Grow
  BY <1>1, Same
<1>3. TodoOK'
  <2>1. CASE p \in scene.routers
    <3>1. PICK s \in Orders(subs[n]) :
             Replace(n, p, [i \in DOMAIN s |-> SendTo(p, SubFrame("SUB", n, s[i]))])
      BY <2>1 DEF DoAdvertise
    <3>2. subs[n] \subseteq Topic /\ IsFiniteSet(subs[n])
      <4>1. subs[n] \subseteq Topic
        BY DEF MInv, RoutesOK
      <4> QED
        BY <4>1, NodeFacts, FS_Subset
    <3>3. \A t \in subs[n] : SendTo(p, SubFrame("SUB", n, t)) \in Ops(n)
      BY <3>2, SubFrameIn, OpIn
    <3>4. DOMAIN s = 1 .. Len(s) /\ Len(s) \in Nat /\ \A i \in DOMAIN s : s[i] \in subs[n]
      BY <3>1, <3>2, OrderSeq
    <3>5. [i \in DOMAIN s |-> SendTo(p, SubFrame("SUB", n, s[i]))] \in Seq(Ops(n))
      BY <3>3, <3>4
    <3> QED
      BY <1>1, <1>2, <3>1, <3>5, AtOp, ReplaceOK
  <2>2. CASE p \notin scene.routers
    BY <1>1, <1>2, <2>2, GoneOK DEF DoAdvertise
  <2> QED
    BY <2>1, <2>2
<1>4. ChanOK'
  BY <1>1, <1>2, Kept
<1> QED
  BY <1>1, <1>3, <1>4, HandlerStep

LEMMA DoFlushStep ==
    ASSUME MInv, NEW n \in Node, NEW p \in Node, DoFlush(n, p)
    PROVE  MInv'
<1> DEFINE D == Due(n, Arg(n, p))
<1>1. PICK s \in Orders(D) :
         Replace(n, p, [i \in DOMAIN s |-> Do("resend", [at |-> s[i], msg |-> pending[n][s[i]]])])
  BY DEF DoFlush
<1>2. /\ At(n, p, "flush")
      /\ UNCHANGED <<scene, wire, conn, chan, subs, route, pending, seen, local_seq,
                      npub, nunsub, nbreak, got, again>>
  BY DEF DoFlush, links, tables, counts
<1>3. Grow
  BY <1>2, Same
<1>4. D \subseteq PendingIdx /\ IsFiniteSet(D) /\ \A d \in D : pending[n][d] \in Mine(n)
  <2>1. D \subseteq PendingIdx /\ \A d \in D : pending[n][d] \in Mine(n)
    BY DEF Due, MInv, PendingOK
  <2> QED
    BY <2>1, NodeFacts, FS_Subset
<1>5. [i \in DOMAIN s |-> Do("resend", [at |-> s[i], msg |-> pending[n][s[i]]])] \in Seq(Ops(n))
  <2>1. \A d \in D : Do("resend", [at |-> d, msg |-> pending[n][d]]) \in Ops(n)
    BY <1>4, OpIn
  <2>2. DOMAIN s = 1 .. Len(s) /\ Len(s) \in Nat /\ \A i \in DOMAIN s : s[i] \in D
    BY <1>1, <1>4, OrderSeq
  <2> HIDE DEF D
  <2> QED
    BY <2>1, <2>2
<1>6. TodoOK'
  BY <1>1, <1>2, <1>3, <1>5, AtOp, ReplaceOK
<1>7. ChanOK'
  BY <1>2, <1>3, Kept
<1> QED
  BY <1>2, <1>6, <1>7, HandlerStep

LEMMA DoResendStep ==
    ASSUME MInv, NEW n \in Node, NEW p \in Node, DoResend(n, p)
    PROVE  MInv'
<1>1. PICK S : Replace(n, p, Resent(S, n, p))
  BY DEF DoResend
<1>2. /\ At(n, p, "resend")
      /\ Put(n, Hops(n, Arg(n, p).msg.topic, None), PubFrame(Arg(n, p).msg))
      /\ UNCHANGED <<scene, wire, conn, subs, route, pending, seen, local_seq,
                      npub, nunsub, nbreak, got, again>>
  BY DEF DoResend, links, tables, counts
<1>3. Grow
  BY <1>2, Same
<1>4. Arg(n, p) \in [at : PendingIdx, msg : Mine(n)] /\ todo[n][p] # <<>>
  BY <1>2, AtOp
<1>5. ChanOK'
  <2>1. Arg(n, p).msg \in Mine(n)
    BY <1>4
  <2>2. ASSUME NEW q \in Live(n, Hops(n, Arg(n, p).msg.topic, None))
        PROVE  PubFrame(Arg(n, p).msg) \in Frames(n, q)'
    BY <1>3, <2>1, OwnFrame DEF Live
  <2> QED
    BY <1>2, <1>3, <2>2, PutOK
<1>6. Resent(S, n, p) \in Seq(Ops(n))
  <2>1. Arg(n, p).at \in PendingIdx
    BY <1>4
  <2>2. Do("clear", Arg(n, p).at) \in Ops(n)
    BY <2>1, OpIn
  <2> QED
    BY <2>2, SeqOne DEF Resent
<1>7. TodoOK'
  BY <1>1, <1>3, <1>4, <1>6, ReplaceOK
<1> QED
  BY <1>2, <1>5, <1>7, HandlerStep

----------------------------------------------------------------------------
(* Connections. *)

LEMMA BreakStep ==
    ASSUME MInv, NEW l \in scene.links, Break(l)
    PROVE  MInv'
<1>1. /\ nbreak < scene.breaks /\ nbreak' = nbreak + 1 /\ wire' = wire \ {l}
      /\ chan' = [n \in Node |-> [p \in Node |-> IF {n, p} = l THEN <<>> ELSE chan[n][p]]]
      /\ UNCHANGED <<scene, conn, todo, subs, route, pending, seen, local_seq,
                      npub, nunsub, got, again>>
  BY DEF Break, tables
<1>2. Grow
  BY <1>1, Same
<1>3. ChanOK'
  <2>1. \A n, p \in Node : chan[n][p] \in Seq(Frames(n, p)')
    BY <1>2, Growth, SeqSub DEF MInv, ChanOK
  <2>2. \A n, p \in Node : chan'[n][p] \in Seq(Frames(n, p)')
    BY <1>1, <2>1
  <2> QED
    BY <1>1, <2>2 DEF ChanOK
<1>4. CountsOK'
  <2>1. scene.breaks \in Nat
    BY NodeFacts DEF MInv, CountsOK, Scene
  <2> QED
    BY <1>1, <2>1 DEF MInv, CountsOK
<1> QED
  BY <1>1, <1>2, <1>3, <1>4, Kept DEF MInv

LEMMA ReconnectStep ==
    ASSUME MInv, NEW l \in scene.links, Reconnect(l)
    PROVE  MInv'
<1>1. /\ wire' = wire \cup {l}
      /\ UNCHANGED <<scene, conn, chan, todo, subs, route, pending, seen, local_seq,
                      npub, nunsub, nbreak, got, again>>
  BY DEF Reconnect, tables, counts, history
<1>2. Grow
  BY <1>1, Same
<1>3. CountsOK'
  BY <1>1 DEF MInv, CountsOK
<1> QED
  BY <1>1, <1>2, <1>3, Kept DEF MInv

LEMMA CloseStep ==
    ASSUME MInv, NEW n \in Node, NEW p \in Node, Close(n, p)
    PROVE  MInv'
<1>1. /\ conn' = [conn EXCEPT ![n] = @ \ {p}]
      /\ todo' = [todo EXCEPT ![n][p] = <<Do("remove", None)>>]
      /\ UNCHANGED <<scene, wire, chan, subs, route, pending, seen, local_seq,
                      npub, nunsub, nbreak, got, again>>
  BY DEF Close, tables, counts, history
<1>2. Grow
  BY <1>1, Same
<1>3. TodoOK'
  <2>1. Do("remove", None) \in Ops(n)'
    BY <1>2, OpIn, Growth
  <2>2. <<Do("remove", None)>> \in Seq(Ops(n)')
    BY <2>1, SeqOne
  <2> QED
    BY <1>1, <1>2, <2>2, TodoSet
<1>4. ConnOK'
  BY <1>1 DEF MInv, ConnOK, Peers
<1> QED
  BY <1>1, <1>2, <1>3, <1>4, Kept DEF MInv

LEMMA JoinStep ==
    ASSUME MInv, NEW n \in Node, NEW p \in Node, Join(n, p)
    PROVE  MInv'
<1>1. /\ conn' = [conn EXCEPT ![n] = @ \cup {p}]
      /\ {n, p} \in wire /\ n # p
      /\ todo' = [todo EXCEPT ![n][p] = <<Do("advertise", None), Do("flush", None)>>]
      /\ UNCHANGED <<scene, wire, chan, subs, route, pending, seen, local_seq,
                      npub, nunsub, nbreak, got, again>>
  BY DEF Join, tables, counts, history
<1>2. Grow
  BY <1>1, Same
<1>3. TodoOK'
  <2>1. Do("advertise", None) \in Ops(n)' /\ Do("flush", None) \in Ops(n)'
    BY <1>2, OpIn, Growth
  <2>2. <<Do("advertise", None), Do("flush", None)>> \in Seq(Ops(n)')
    BY <2>1
  <2> QED
    BY <1>1, <1>2, <2>2, TodoSet
<1>4. ConnOK'
  <2>1. p \in Peers(n)
    BY <1>1 DEF Peers, MInv, CountsOK
  <2> QED
    BY <1>1, <2>1 DEF MInv, ConnOK, Peers
<1> QED
  BY <1>1, <1>2, <1>3, <1>4, Kept DEF MInv

LEMMA MeshIdle ==
    ASSUME MInv, UNCHANGED vars
    PROVE  MInv'
<1>1. UNCHANGED <<scene, wire, conn, chan, todo, subs, route, pending, seen, local_seq,
                  npub, nunsub, nbreak, got, again>>
  BY DEF vars, links, tables, counts, history
<1>2. Grow
  BY <1>1, Same
<1> QED
  BY <1>1, <1>2, Kept DEF MInv

LEMMA MeshStep == MInv /\ [Next]_vars => MInv'
<1> SUFFICES ASSUME MInv, [Next]_vars PROVE MInv'
  OBVIOUS
<1>1. CASE Clients
  BY <1>1, LocalPublishStep, LocalSubscribeStep, LocalUnsubscribeStep DEF Clients
<1>2. ASSUME NEW n \in Node, NEW p \in Node, Handler(n, p) PROVE MInv'
  BY <1>2, DoSendStep, DoFloodStep, DoStoreStep, DoTellStep, DoAdvertiseStep, DoFlushStep,
     DoResendStep, DoClearStep, DoRemoveStep DEF Handler
<1>3. ASSUME NEW n \in Node, NEW p \in Node, Thread(n, p) PROVE MInv'
  BY <1>2, <1>3, TakeSubStep, TakeUnsubStep, TakePublishStep, JoinStep, CloseStep DEF Thread
<1>4. CASE Threads
  BY <1>3, <1>4 DEF Threads
<1>5. CASE Connections
  BY <1>5, ReconnectStep DEF Connections
<1>6. CASE \E l \in scene.links : Break(l)
  BY <1>6, BreakStep
<1>7. CASE UNCHANGED vars
  BY <1>7, MeshIdle
<1> QED
  BY <1>1, <1>4, <1>5, <1>6, <1>7 DEF Next

(* The tables of a broker of the mesh (p2p_peer.c, p2p_router.c) hold what *)
(* they are declared for: connections to peers of the network, a next hop  *)
(* for exactly the owners with subscriptions, and pending publishes with   *)
(* QoS above 0.                                                            *)
THEOREM MeshTypes == Spec => []TypeOK
<1>1. MInv => TypeOK
  BY DEF MInv, CountsOK, ConnOK, RoutesOK, PendingOK, Mine, Known, TypeOK
<1> QED
  BY <1>1, MeshStart, MeshStep, PTL DEF Spec

(* seen_before keeps handle_publish from passing a publish to the clients  *)
(* twice, unless another publish has taken its place in the cache; that of *)
(* the broker itself, which is not in its cache, does not come back in a   *)
(* network without cycles.                                                 *)
THEOREM PassedOnce == Spec => []DeliveredOnce
<1>1. MInv => DeliveredOnce
  BY DEF MInv
<1> QED
  BY <1>1, MeshStart, MeshStep, PTL DEF Spec

----------------------------------------------------------------------------
(* Pending publishes of a broker with one peer.  Only the thread of that   *)
(* peer flushes, with at most one flush or one resend or clear for an      *)
(* entry left to do; a publish that is about to be stored is the last one  *)
(* of the broker, later than all that are stored.                          *)

Elems(s) == {s[i] : i \in DOMAIN s}

Small(n) == Cardinality(Peers(n)) = 1 /\ local_seq[n] <= P2P_PENDING_QOS_MAX

Slots == {"resend", "clear"}
SlotOf(e) == IF e.op = "resend" THEN e.arg.at ELSE e.arg

(* Two elements that are never both left to do. *)
Clash(d, e) ==
    \/ d.op = "store" /\ e.op = "store"
    \/ d.op = "flush" /\ e.op \in Slots \cup {"flush"}
    \/ e.op = "flush" /\ d.op \in Slots
    \/ d.op \in Slots /\ e.op \in Slots /\ SlotOf(d) = SlotOf(e)
Apart(s) == \A i, j \in DOMAIN s : i # j => ~Clash(s[i], s[j])

(* An element that the thread p of n may have left to do: an entry that it *)
(* is about to free holds what it has sent.                                *)
Fits(n, p, e) ==
    /\ e.op = "store" => /\ p = n /\ e.arg.seq = local_seq[n]
                         /\ \A j \in PendingIdx :
                              pending[n][j] # None => pending[n][j].seq < local_seq[n]
    /\ e.op \in Slots \cup {"flush"} => Peers(n) = {p}
    /\ e.op = "resend" => pending[n][e.arg.at] = e.arg.msg
    /\ e.op = "clear" => pending[n][e.arg] # None /\ <<n, pending[n][e.arg]>> \notin kept

Held(n) == \A m \in Msg : <<n, m>> \in kept => \E i \in PendingIdx : pending[n][i] = m
Numbered(n) ==
    \A i, j \in PendingIdx : i # j /\ pending[n][i] # None /\ pending[n][j] # None
        => pending[n][i].seq # pending[n][j].seq
ListOK(n, p) == Apart(todo[n][p]) /\ \A e \in Elems(todo[n][p]) : Fits(n, p, e)

KInv == /\ kept \subseteq Node \X Msg
        /\ \A n \in Node : Small(n) => /\ Held(n) /\ Numbered(n)
                                      /\ \A p \in Node : ListOK(n, p)

(* Elements that are no part of this. *)
Plain(e) == e.op \notin Slots \cup {"flush", "store"}

LEMMA PlainApart ==
    ASSUME NEW s, \A e \in Elems(s) : Plain(e)
    PROVE  Apart(s)
  BY DEF Apart, Elems, Plain, Clash

LEMMA PlainFits ==
    ASSUME NEW n, NEW p, NEW e, Plain(e)
    PROVE  Fits(n, p, e)
  BY DEF Fits, Plain, Slots

(* The elements after a replacement of the first one. *)
LEMMA ElemsAfter ==
    ASSUME NEW S, NEW s \in Seq(S), s # <<>>, NEW ops \in Seq(S)
    PROVE  /\ Elems(Tail(s)) \subseteq Elems(s)
           /\ Elems(ops \o Tail(s)) \subseteq Elems(ops) \cup Elems(Tail(s))
           /\ Head(s) \in Elems(s)
<1>1. \A i \in DOMAIN Tail(s) : i + 1 \in DOMAIN s /\ Tail(s)[i] = s[i + 1]
  BY SeqTail
<1>2. Elems(Tail(s)) \subseteq Elems(s)
  BY <1>1 DEF Elems
<1>3. \A i \in DOMAIN (ops \o Tail(s)) :
        \/ i \in DOMAIN ops /\ (ops \o Tail(s))[i] = ops[i]
        \/ i - Len(ops) \in DOMAIN Tail(s) /\ (ops \o Tail(s))[i] = Tail(s)[i - Len(ops)]
  BY SeqTail
<1>4. Elems(ops \o Tail(s)) \subseteq Elems(ops) \cup Elems(Tail(s))
  BY <1>3 DEF Elems
<1>5. 1 \in DOMAIN s /\ Head(s) = s[1]
  BY SeqTail
<1>6. Head(s) \in Elems(s)
  BY <1>5 DEF Elems
<1> QED
  BY <1>2, <1>4, <1>6

LEMMA ApartAfter ==
    ASSUME NEW S, NEW s \in Seq(S), s # <<>>, NEW ops \in Seq(S), Apart(s), Apart(ops),
           \A d \in Elems(ops), e \in Elems(Tail(s)) : Clash(d, e) => Clash(Head(s), e)
    PROVE  /\ Apart(ops \o Tail(s))
           /\ \A e \in Elems(Tail(s)) : ~Clash(Head(s), e)
<1>1. \A i \in DOMAIN Tail(s) : i + 1 \in DOMAIN s /\ Tail(s)[i] = s[i + 1] /\ i + 1 # 1 /\ i \in Nat
  BY SeqTail
<1>2. 1 \in DOMAIN s /\ Head(s) = s[1]
  BY SeqTail
<1>3. \A e \in Elems(Tail(s)) : ~Clash(Head(s), e)
  BY <1>1, <1>2 DEF Apart, Elems
<1>4. Apart(Tail(s))
  BY <1>1 DEF Apart
<1> DEFINE new == ops \o Tail(s)
<1>5. \A i \in DOMAIN new :
        \/ i \in DOMAIN ops /\ new[i] = ops[i]
        \/ i \notin DOMAIN ops /\ i - Len(ops) \in DOMAIN Tail(s) /\ new[i] = Tail(s)[i - Len(ops)]
  BY SeqTail
<1>6. Len(ops) \in Nat /\ DOMAIN new \subseteq Nat
  BY SeqTail
<1>7. \A d, e : Clash(d, e) <=> Clash(e, d)
  BY DEF Clash, Slots
<1>8. ASSUME NEW i \in DOMAIN new, NEW j \in DOMAIN new, i # j PROVE ~Clash(new[i], new[j])
  <2>1. CASE i \in DOMAIN ops /\ j \in DOMAIN ops
    BY <1>5, <1>8, <2>1 DEF Apart
  <2>2. CASE i \notin DOMAIN ops /\ j \notin DOMAIN ops
    <3>1. /\ i - Len(ops) \in DOMAIN Tail(s) /\ new[i] = Tail(s)[i - Len(ops)]
          /\ j - Len(ops) \in DOMAIN Tail(s) /\ new[j] = Tail(s)[j - Len(ops)]
      BY <1>5, <2>2
    <3>2. i - Len(ops) # j - Len(ops)
      BY <1>6, <1>8
    <3> QED
      BY <1>4, <3>1, <3>2 DEF Apart
  <2>3. CASE i \in DOMAIN ops /\ j \notin DOMAIN ops
    <3>1. new[i] \in Elems(ops) /\ new[j] \in Elems(Tail(s))
      BY <1>5, <2>3 DEF Elems
    <3> QED
      BY <1>3, <3>1
  <2>4. CASE i \notin DOMAIN ops /\ j \in DOMAIN ops
    <3>1. new[j] \in Elems(ops) /\ new[i] \in Elems(Tail(s))
      BY <1>5, <2>4 DEF Elems
    <3>2. ~Clash(new[j], new[i])
      BY <1>3, <3>1
    <3> QED
      BY <1>7, <3>2
  <2> QED
    BY <2>1, <2>2, <2>3, <2>4
<1>9. Apart(new)
  BY <1>8 DEF Apart
<1> QED
  BY <1>3, <1>9

LEMMA KeptStart == Init => KInv
<1> SUFFICES ASSUME Init PROVE KInv
  OBVIOUS
<1>1. kept = {} /\ \A n \in Node, i \in PendingIdx : pending[n][i] = None
  BY DEF Init
<1>2. \A n, p \in Node : todo[n][p] = <<>>
  BY DEF Init
<1>3. \A n, p \in Node : ListOK(n, p)
  BY <1>2 DEF ListOK, Apart, Elems
<1> QED
  BY <1>1, <1>3 DEF KInv, Held, Numbered

(* The lists and tables of n are as before. *)
LEMMA KeptSame ==
    ASSUME MInv, KInv, Grow, NEW n \in Node, Small(n)', todo'[n] = todo[n],
           pending'[n] = pending[n], local_seq'[n] = local_seq[n],
           \A m : <<n, m>> \in kept' <=> <<n, m>> \in kept
    PROVE  Held(n)' /\ Numbered(n)' /\ \A p \in Node : ListOK(n, p)'
<1>1. Peers(n)' = Peers(n)
  BY Growth
<1>2. Small(n)
  BY <1>1 DEF Small
<1>3. \A p, e : Fits(n, p, e) => Fits(n, p, e)'
  BY <1>1 DEF Fits
<1>4. \A p \in Node : ListOK(n, p)'
  BY <1>2, <1>3 DEF KInv, ListOK, Apart, Clash, SlotOf, Elems
<1> QED
  BY <1>2, <1>4 DEF KInv, Held, Numbered

(* Only the list of the thread p of n changes. *)
LEMMA KeptTodo ==
    ASSUME MInv, KInv, UNCHANGED <<scene, pending, kept, local_seq>>,
           NEW n \in Node, NEW p \in Node, NEW s, todo' = [todo EXCEPT ![n][p] = s],
           Small(n) => Apart(s) /\ \A e \in Elems(s) : Fits(n, p, e)
    PROVE  KInv'
<1>1. /\ \A k \in Node : k # n => todo'[k] = todo[k]
      /\ todo'[n][p] = s
      /\ \A q \in Node : q # p => todo'[n][q] = todo[n][q]
  BY DEF MInv, TodoOK
<1>2. Grow
  BY Same
<1>3. ASSUME NEW k \in Node, Small(k)'
      PROVE  Held(k)' /\ Numbered(k)' /\ \A q \in Node : ListOK(k, q)'
  <2>1. CASE k # n
    BY <1>1, <1>2, <1>3, <2>1, KeptSame
  <2>2. CASE k = n
    <3>1. Small(n) /\ Peers(n)' = Peers(n)
      BY <1>2, <1>3, <2>2, Growth DEF Small
    <3>2. \A q, e : Fits(n, q, e) => Fits(n, q, e)'
      BY <3>1 DEF Fits
    <3>3. ASSUME NEW q \in Node PROVE ListOK(n, q)'
      <4>1. CASE q = p
        <5>1. Apart(todo'[n][p]) /\ \A e \in Elems(todo'[n][p]) : Fits(n, p, e)
          BY <1>1, <3>1
        <5> QED
          BY <3>2, <4>1, <5>1 DEF ListOK, Apart, Clash, SlotOf, Elems
      <4>2. CASE q # p
        BY <1>1, <3>1, <3>2, <4>2 DEF KInv, ListOK, Apart, Clash, SlotOf, Elems
      <4> QED
        BY <4>1, <4>2
    <3> QED
      BY <2>2, <3>1, <3>3 DEF KInv, Held, Numbered
  <2> QED
    BY <2>1, <2>2
<1> QED
  BY <1>3 DEF KInv

(* The first element of a list is replaced. *)
LEMMA KeptReplace ==
    ASSUME MInv, KInv, UNCHANGED <<scene, pending, kept, local_seq>>,
           NEW n \in Node, NEW p \in Node, todo[n][p] # <<>>,
           NEW ops \in Seq(Ops(n)), Replace(n, p, ops),
           Small(n) => /\ Apart(ops) /\ \A e \in Elems(ops) : Fits(n, p, e)
                       /\ \A d \in Elems(ops) : \A e : Clash(d, e) => Clash(Head(todo[n][p]), e)
    PROVE  KInv'
<1>1. todo[n][p] \in Seq(Ops(n)) /\ todo = [k \in Node |-> [q \in Node |-> todo[k][q]]]
  BY DEF MInv, TodoOK
<1> DEFINE new == ops \o Tail(todo[n][p])
<1>2. todo' = [todo EXCEPT ![n][p] = new]
  BY <1>1 DEF Replace
<1>3. ASSUME Small(n) PROVE Apart(new) /\ \A e \in Elems(new) : Fits(n, p, e)
  <2>1. Apart(todo[n][p]) /\ \A e \in Elems(todo[n][p]) : Fits(n, p, e)
    BY <1>3 DEF KInv, ListOK
  <2>2. Apart(new)
    BY <1>1, <1>3, <2>1, ApartAfter
  <2>3. Elems(new) \subseteq Elems(ops) \cup Elems(todo[n][p])
    BY <1>1, ElemsAfter
  <2> QED
    BY <1>3, <2>1, <2>2, <2>3
<1> HIDE DEF new
<1> QED
  BY <1>2, <1>3, KeptTodo

LEMMA KeptPlain ==
    ASSUME MInv, KInv, UNCHANGED <<scene, pending, kept, local_seq>>,
           NEW n \in Node, NEW p \in Node, todo[n][p] # <<>>,
           NEW ops \in Seq(Ops(n)), Replace(n, p, ops), \A e \in Elems(ops) : Plain(e)
    PROVE  KInv'
<1>1. Apart(ops) /\ \A e \in Elems(ops) : Fits(n, p, e)
  BY PlainApart, PlainFits
<1>2. \A d \in Elems(ops) : \A e : ~Clash(d, e)
  BY DEF Plain, Clash
<1> QED
  BY <1>1, <1>2, KeptReplace

LEMMA KeptGone ==
    ASSUME MInv, KInv, UNCHANGED <<scene, pending, kept, local_seq>>,
           NEW n \in Node, NEW p \in Node, NEW op, At(n, p, op), Replace(n, p, <<>>)
    PROVE  KInv'
<1>1. <<>> \in Seq(Ops(n)) /\ todo[n][p] # <<>> /\ Elems(<<>>) = {}
  BY DEF At, Elems
<1> QED
  BY <1>1, KeptPlain

LEMMA KeptIdle ==
    ASSUME MInv, KInv, UNCHANGED <<scene, pending, kept, local_seq, todo>>
    PROVE  KInv'
<1>1. Grow
  BY Same
<1>2. \A n \in Node : Small(n)' => Held(n)' /\ Numbered(n)' /\ \A p \in Node : ListOK(n, p)'
  BY <1>1, KeptSame
<1> QED
  BY <1>2 DEF KInv

----------------------------------------------------------------------------
LEMMA KeptAnnounce ==
    ASSUME MInv, KInv, UNCHANGED <<scene, pending, kept, local_seq>>,
           NEW n \in Node, NEW f, todo' = [todo EXCEPT ![n][n] = Announce(n, f)]
    PROVE  KInv'
<1>1. \A e \in Elems(Announce(n, f)) : Plain(e)
  BY DEF Announce, SendTo, Tell, Do, Elems, Plain, Slots
<1>2. Apart(Announce(n, f)) /\ \A e \in Elems(Announce(n, f)) : Fits(n, n, e)
  BY <1>1, PlainApart, PlainFits
<1> QED
  BY <1>2, KeptTodo

LEMMA KeptLocalSubscribe ==
    ASSUME MInv, KInv, NEW n \in Node, NEW t \in Topic,
           LocalSubscribe(n, t) \/ LocalUnsubscribe(n, t)
    PROVE  KInv'
<1>1. CASE LocalSubscribe(n, t)
  <2>1. /\ UNCHANGED <<scene, pending, kept, local_seq>>
        /\ todo' = [todo EXCEPT ![n][n] = Announce(n, SubFrame("SUB", n, t))]
    BY <1>1 DEF LocalSubscribe, history
  <2> QED
    BY <2>1, KeptAnnounce
<1>2. CASE LocalUnsubscribe(n, t)
  <2>1. /\ UNCHANGED <<scene, pending, kept, local_seq>>
        /\ todo' = [todo EXCEPT ![n][n] = Announce(n, SubFrame("UNSUB", n, t))]
    BY <1>2 DEF LocalUnsubscribe
  <2> QED
    BY <2>1, KeptAnnounce
<1> QED
  BY <1>1, <1>2

(* The thread of a peer of a broker with one peer. *)
LEMMA OnlyPeer ==
    ASSUME NEW n, Small(n), NEW p \in Peers(n)
    PROVE  Peers(n) = {p}
<1>1. IsFiniteSet(Peers(n))
  <2>1. Peers(n) \subseteq Node
    BY DEF Peers
  <2> QED
    BY <2>1, NodeFacts, FS_Subset
<1>2. Cardinality(Peers(n)) = 1
  BY DEF Small
<1> QED
  BY <1>1, <1>2, FS_Singleton

LEMMA PassesPlain ==
    ASSUME NEW n, NEW p, NEW f
    PROVE  \A e \in Elems(Passes(n, f, p)) : Plain(e)
  BY DEF Passes, Tell, Do, Elems, Plain, Slots

LEMMA KeptTakeSub ==
    ASSUME MInv, KInv, NEW n \in Node, NEW p \in Node, TakeSub(n, p)
    PROVE  KInv'
<1> DEFINE f == Head(chan[p][n])
           rest == IF SubChanged(n, f, p) THEN Passes(n, f, p) ELSE <<>>
           ops == <<Do("flush", f.filter)>> \o rest
<1>1. /\ Takes(n, p, "SUB")
      /\ todo' = [todo EXCEPT ![n][p] = ops]
      /\ UNCHANGED <<scene, pending, kept, local_seq>>
  BY DEF TakeSub, history
<1>2. rest = <<>> \/ rest = Passes(n, f, p)
  OBVIOUS
<1>3. rest \in Seq(Ops(n))
  <2>1. Passes(n, f, p) \in Seq(Ops(n))
    BY <1>1, TakesFrame, PassesOps
  <2>2. <<>> \in Seq(Ops(n))
    OBVIOUS
  <2> HIDE DEF rest
  <2> QED
    BY <1>2, <2>1, <2>2
<1>4. \A i \in DOMAIN rest : Plain(rest[i])
  BY <1>2, PassesPlain DEF Elems
<1> HIDE DEF rest, f
<1>5. \A i \in DOMAIN ops : \/ i = 1 /\ ops[i] = Do("flush", f.filter)
                            \/ i # 1 /\ Plain(ops[i])
  <2>1. \A i \in DOMAIN ops : \/ i = 1 /\ ops[i] = Do("flush", f.filter)
                              \/ i # 1 /\ i - 1 \in DOMAIN rest /\ ops[i] = rest[i - 1]
    BY <1>3
  <2> QED
    BY <1>4, <2>1
<1>6. ASSUME Small(n) PROVE Apart(ops) /\ \A e \in Elems(ops) : Fits(n, p, e)
  <2>1. Peers(n) = {p}
    BY <1>1, <1>6, OnlyPeer DEF Takes, MInv, ConnOK
  <2>2. Fits(n, p, Do("flush", f.filter))
    BY <2>1 DEF Fits, Do, Slots
  <2>3. \A e \in Elems(ops) : Fits(n, p, e)
    BY <1>5, <2>2, PlainFits DEF Elems
  <2>4. \A i, j \in DOMAIN ops : i # j => ~Clash(ops[i], ops[j])
    BY <1>5 DEF Clash, Plain, Do, Slots
  <2> QED
    BY <2>3, <2>4 DEF Apart
<1> HIDE DEF ops
<1> QED
  BY <1>1, <1>6, KeptTodo

LEMMA KeptTakeUnsub ==
    ASSUME MInv, KInv, NEW n \in Node, NEW p \in Node, TakeUnsub(n, p)
    PROVE  KInv'
<1>1. /\ UNCHANGED <<scene, pending, kept, local_seq>>
      /\ \/ todo' = [todo EXCEPT ![n][p] = <<>>]
         \/ todo' = [todo EXCEPT ![n][p] = Passes(n, Head(chan[p][n]), p)]
  BY DEF TakeUnsub, history
<1>2. \A e \in Elems(<<>>) : Plain(e)
  BY DEF Elems
<1>3. PICK s : todo' = [todo EXCEPT ![n][p] = s] /\ \A e \in Elems(s) : Plain(e)
  BY <1>1, <1>2, PassesPlain
<1>4. Apart(s) /\ \A e \in Elems(s) : Fits(n, p, e)
  BY <1>3, PlainApart, PlainFits
<1> QED
  BY <1>1, <1>3, <1>4, KeptTodo

LEMMA KeptJoin ==
    ASSUME MInv, KInv, NEW n \in Node, NEW p \in Node, Join(n, p)
    PROVE  KInv'
<1> DEFINE ops == <<Do("advertise", None), Do("flush", None)>>
<1>1. /\ UNCHANGED <<scene, pending, kept, local_seq>>
      /\ {n, p} \in wire /\ n # p
      /\ todo' = [todo EXCEPT ![n][p] = ops]
  BY DEF Join, tables, history
<1>2. ASSUME Small(n) PROVE Apart(ops) /\ \A e \in Elems(ops) : Fits(n, p, e)
  <2>1. p \in Peers(n)
    BY <1>1 DEF Peers, MInv, CountsOK
  <2>2. Peers(n) = {p}
    BY <1>2, <2>1, OnlyPeer
  <2>3. DOMAIN ops = {1, 2} /\ ops[1] = Do("advertise", None) /\ ops[2] = Do("flush", None)
    OBVIOUS
  <2>4. Fits(n, p, Do("advertise", None)) /\ Fits(n, p, Do("flush", None))
    BY <2>2 DEF Fits, Do, Slots
  <2>5. \A e \in Elems(ops) : Fits(n, p, e)
    BY <2>3, <2>4 DEF Elems
  <2>6. Apart(ops)
    BY <2>3 DEF Apart, Clash, Do, Slots
  <2> QED
    BY <2>5, <2>6
<1> HIDE DEF ops
<1> QED
  BY <1>1, <1>2, KeptTodo

LEMMA KeptClose ==
    ASSUME MInv, KInv, NEW n \in Node, NEW p \in Node, Close(n, p)
    PROVE  KInv'
<1>1. /\ UNCHANGED <<scene, pending, kept, local_seq>>
      /\ todo' = [todo EXCEPT ![n][p] = <<Do("remove", None)>>]
  BY DEF Close, tables, history
<1>2. \A e \in Elems(<<Do("remove", None)>>) : Plain(e)
  BY DEF Elems, Do, Plain, Slots
<1>3. Apart(<<Do("remove", None)>>) /\ \A e \in Elems(<<Do("remove", None)>>) : Fits(n, p, e)
  BY <1>2, PlainApart, PlainFits
<1> QED
  BY <1>1, <1>3, KeptTodo

----------------------------------------------------------------------------
LEMMA KeptDoTell ==
    ASSUME MInv, KInv, NEW n \in Node, NEW p \in Node, DoTell(n, p)
    PROVE  KInv'
<1> DEFINE D == (Arg(n, p).to \cap conn[n]) \ {Arg(n, p).except}
<1>1. PICK s \in Orders(D) : Replace(n, p, [i \in DOMAIN s |-> SendTo(s[i], Arg(n, p).frame)])
  BY DEF DoTell
<1>2. At(n, p, "tell") /\ UNCHANGED <<scene, pending, kept, local_seq>>
  BY DEF DoTell, tables, history
<1>3. Arg(n, p).frame \in SubFrames /\ todo[n][p] # <<>>
  BY <1>2, AtOp
<1>4. D \subseteq Node /\ IsFiniteSet(D)
  <2>1. D \subseteq Node
    BY DEF MInv, ConnOK
  <2> QED
    BY <2>1, NodeFacts, FS_Subset
<1> DEFINE ops == [i \in DOMAIN s |-> SendTo(s[i], Arg(n, p).frame)]
<1>5. ops \in Seq(Ops(n))
  <2>1. \A d \in D : SendTo(d, Arg(n, p).frame) \in Ops(n)
    BY <1>3, <1>4, OpIn
  <2>2. DOMAIN s = 1 .. Len(s) /\ Len(s) \in Nat /\ \A i \in DOMAIN s : s[i] \in D
    BY <1>1, <1>4, OrderSeq
  <2> HIDE DEF D
  <2> QED
    BY <2>1, <2>2
<1>6. \A e \in Elems(ops) : Plain(e)
  BY DEF Elems, SendTo, Do, Plain, Slots
<1> QED
  BY <1>1, <1>2, <1>3, <1>5, <1>6, KeptPlain

LEMMA KeptDoAdvertise ==
    ASSUME MInv, KInv, NEW n \in Node, NEW p \in Node, DoAdvertise(n, p)
    PROVE  KInv'
<1>1. At(n, p, "advertise") /\ UNCHANGED <<scene, pending, kept, local_seq>>
  BY DEF DoAdvertise, tables, history
<1>2. CASE p \in scene.routers
  <2>1. PICK s \in Orders(subs[n]) :
           Replace(n, p, [i \in DOMAIN s |-> SendTo(p, SubFrame("SUB", n, s[i]))])
    BY <1>2 DEF DoAdvertise
  <2> DEFINE ops == [i \in DOMAIN s |-> SendTo(p, SubFrame("SUB", n, s[i]))]
  <2>2. subs[n] \subseteq Topic /\ IsFiniteSet(subs[n])
    <3>1. subs[n] \subseteq Topic
      BY DEF MInv, RoutesOK
    <3> QED
      BY <3>1, NodeFacts, FS_Subset
  <2>3. ops \in Seq(Ops(n))
    <3>1. \A t \in subs[n] : SendTo(p, SubFrame("SUB", n, t)) \in Ops(n)
      BY <2>2, SubFrameIn, OpIn
    <3>2. DOMAIN s = 1 .. Len(s) /\ Len(s) \in Nat /\ \A i \in DOMAIN s : s[i] \in subs[n]
      BY <2>1, <2>2, OrderSeq
    <3> QED
      BY <3>1, <3>2
  <2>4. \A e \in Elems(ops) : Plain(e)
    BY DEF Elems, SendTo, Do, Plain, Slots
  <2>5. todo[n][p] # <<>>
    BY <1>1 DEF At
  <2> QED
    BY <1>1, <2>1, <2>3, <2>4, <2>5, KeptPlain
<1>3. CASE p \notin scene.routers
  BY <1>1, <1>3, KeptGone DEF DoAdvertise
<1> QED
  BY <1>2, <1>3

(* A flush copies each entry once. *)
LEMMA KeptDoFlush ==
    ASSUME MInv, KInv, NEW n \in Node, NEW p \in Node, DoFlush(n, p)
    PROVE  KInv'
<1> DEFINE D == Due(n, Arg(n, p))
<1>1. PICK s \in Orders(D) :
         Replace(n, p, [i \in DOMAIN s |-> Do("resend", [at |-> s[i], msg |-> pending[n][s[i]]])])
  BY DEF DoFlush
<1> DEFINE ops == [i \in DOMAIN s |-> Do("resend", [at |-> s[i], msg |-> pending[n][s[i]]])]
<1>2. At(n, p, "flush") /\ UNCHANGED <<scene, pending, kept, local_seq>>
  BY DEF DoFlush, tables
<1>3. D \subseteq PendingIdx /\ IsFiniteSet(D) /\ \A d \in D : pending[n][d] \in Mine(n)
  <2>1. D \subseteq PendingIdx /\ \A d \in D : pending[n][d] \in Mine(n)
    BY DEF Due, MInv, PendingOK
  <2> QED
    BY <2>1, NodeFacts, FS_Subset
<1>4. /\ DOMAIN s = 1 .. Len(s) /\ Len(s) \in Nat /\ \A i \in DOMAIN s : s[i] \in D
      /\ \A i, j \in DOMAIN s : s[i] = s[j] => i = j
  BY <1>1, <1>3, OrderSeq
<1>5. ops \in Seq(Ops(n))
  <2>1. \A d \in D : Do("resend", [at |-> d, msg |-> pending[n][d]]) \in Ops(n)
    BY <1>3, OpIn
  <2> HIDE DEF D
  <2> QED
    BY <1>4, <2>1
<1>6. /\ todo[n][p] \in Seq(Ops(n)) /\ todo[n][p] # <<>>
      /\ Head(todo[n][p]).op = "flush"
      /\ Head(todo[n][p]) \in Elems(todo[n][p])
  BY <1>2, ElemsAfter, SeqOne DEF MInv, TodoOK, At
<1>7. \A i \in DOMAIN ops : /\ ops[i].op = "resend" /\ ops[i].arg.at = s[i]
                            /\ ops[i].arg.msg = pending[n][s[i]]
  BY DEF Do
<1>8. DOMAIN ops = DOMAIN s
  OBVIOUS
<1> HIDE DEF ops
<1>9. Apart(ops)
  BY <1>4, <1>7, <1>8 DEF Apart, Clash, Slots, SlotOf
<1>10. \A d \in Elems(ops) : \A e : Clash(d, e) => Clash(Head(todo[n][p]), e)
  BY <1>6, <1>7 DEF Elems, Clash, Slots
<1>11. ASSUME Small(n) PROVE \A e \in Elems(ops) : Fits(n, p, e)
  <2>1. Fits(n, p, Head(todo[n][p]))
    BY <1>6, <1>11 DEF KInv, ListOK
  <2>2. Peers(n) = {p}
    BY <1>6, <2>1 DEF Fits
  <2> QED
    BY <1>7, <2>2 DEF Elems, Fits
<1>12. Replace(n, p, ops)
  BY <1>1 DEF ops
<1> QED
  BY <1>2, <1>5, <1>6, <1>9, <1>10, <1>11, <1>12, KeptReplace

(* The entry still holds what is sent, and is freed afterwards. *)
LEMMA KeptDoResend ==
    ASSUME MInv, KInv, NEW n \in Node, NEW p \in Node, DoResend(n, p)
    PROVE  KInv'
<1>1. PICK S : /\ Replace(n, p, Resent(S, n, p))
               /\ kept' = IF S = {} THEN kept ELSE kept \ {<<n, Arg(n, p).msg>>}
  BY DEF DoResend
<1>2. At(n, p, "resend") /\ UNCHANGED <<scene, pending, local_seq>>
  BY DEF DoResend, tables
<1>3. CASE S = {}
  BY <1>1, <1>2, <1>3, KeptGone DEF Resent
<1>4. CASE S # {}
  <2>0. PICK i \in PendingIdx, m \in Mine(n) : Arg(n, p).at = i /\ Arg(n, p).msg = m
    BY <1>2, AtOp
  <2> DEFINE h == Head(todo[n][p])
             c == Do("clear", i)
             new == <<c>> \o Tail(todo[n][p])
  <2>1. /\ todo[n][p] \in Seq(Ops(n)) /\ todo[n][p] # <<>> /\ h.op = "resend" /\ h.arg = Arg(n, p)
        /\ todo = [k \in Node |-> [q \in Node |-> todo[k][q]]]
    BY <1>2 DEF MInv, TodoOK, At, Arg
  <2>2. m \in Msg /\ m # None
    BY NodeFacts DEF Mine, Known
  <2>3. /\ todo' = [todo EXCEPT ![n][p] = new]
        /\ kept' = kept \ {<<n, m>>}
    BY <1>1, <1>4, <2>0, <2>1 DEF Replace, Resent
  <2>4. /\ \A k \in Node : k # n => todo'[k] = todo[k]
        /\ todo'[n][p] = new
        /\ \A q \in Node : q # p => todo'[n][q] = todo[n][q]
    BY <2>1, <2>3
  <2>5. c \in Ops(n) /\ <<c>> \in Seq(Ops(n)) /\ Elems(<<c>>) = {c} /\ Apart(<<c>>)
    <3>1. c \in Ops(n)
      BY OpIn
    <3>2. Elems(<<c>>) = {c} /\ Apart(<<c>>)
      BY DEF Elems, Apart
    <3> QED
      BY <3>1, <3>2, SeqOne
  <2>6. \A e : Clash(c, e) => Clash(h, e)
    BY <2>0, <2>1 DEF Clash, Do, Slots, SlotOf
  <2>7. Grow
    BY <1>2, Same
  <2> HIDE DEF c
  <2>8. ASSUME NEW k \in Node, Small(k)'
        PROVE  Held(k)' /\ Numbered(k)' /\ \A q \in Node : ListOK(k, q)'
    <3>1. CASE k # n
      BY <1>2, <2>3, <2>4, <2>7, <2>8, <3>1, KeptSame
    <3>2. CASE k = n
      <4>1. Small(n) /\ Peers(n)' = Peers(n)
        BY <1>2, <2>7, <2>8, <3>2, Growth DEF Small
      <4>2. \A q \in Node : ListOK(n, q)
        BY <4>1 DEF KInv
      <4>3. \A q, e : Fits(n, q, e) => Fits(n, q, e)'
        BY <1>2, <2>3, <4>1 DEF Fits
      <4>4. Held(n)' /\ Numbered(n)'
        BY <1>2, <2>3, <4>1 DEF KInv, Held, Numbered
      <4>5. Fits(n, p, h)
        BY <2>1, <4>2, ElemsAfter DEF ListOK
      <4>6. Fits(n, p, c)'
        <5>1. pending[n][i] = m /\ Peers(n) = {p}
          BY <2>0, <2>1, <4>5 DEF Fits, Slots
        <5>2. c.op = "clear" /\ c.arg = i
          BY DEF c, Do
        <5>3. pending'[n][i] = m /\ Peers(n)' = {p} /\ <<n, m>> \notin kept'
          BY <1>2, <2>3, <4>1, <5>1
        <5> QED
          BY <2>2, <5>2, <5>3 DEF Fits
      <4>7. ListOK(n, p)'
        <5>1. Apart(new)
          BY <2>1, <2>5, <2>6, <4>2, ApartAfter DEF ListOK
        <5>2. \A e \in Elems(new) : e = c \/ e \in Elems(todo[n][p])
          <6>1. /\ Elems(new) \subseteq Elems(<<c>>) \cup Elems(Tail(todo[n][p]))
                /\ Elems(Tail(todo[n][p])) \subseteq Elems(todo[n][p])
            BY <2>1, <2>5, ElemsAfter
          <6> HIDE DEF new
          <6> QED
            BY <2>5, <6>1
        <5>3. \A e \in Elems(new) : Fits(n, p, e)'
          BY <4>2, <4>3, <4>6, <5>2 DEF ListOK
        <5> HIDE DEF new
        <5> QED
          BY <2>4, <5>1, <5>3 DEF ListOK, Apart, Clash, SlotOf, Elems
      <4>8. ASSUME NEW q \in Node, q # p PROVE ListOK(n, q)'
        BY <2>4, <4>2, <4>3, <4>8 DEF ListOK, Apart, Clash, SlotOf, Elems
      <4> QED
        BY <3>2, <4>4, <4>7, <4>8
    <3> QED
      BY <3>1, <3>2
  <2>9. kept' \subseteq Node \X Msg
    BY <2>3 DEF KInv
  <2>10. Msg' = Msg
    BY DEF Msg
  <2> QED
    BY <2>8, <2>9 DEF KInv
<1> QED
  BY <1>3, <1>4

(* The entry that is freed holds nothing that is to be kept. *)
LEMMA KeptDoClear ==
    ASSUME MInv, KInv, NEW n \in Node, NEW p \in Node, DoClear(n, p)
    PROVE  KInv'
<1>1. /\ At(n, p, "clear") /\ Replace(n, p, <<>>)
      /\ pending' = [pending EXCEPT ![n][Arg(n, p)] = None]
      /\ UNCHANGED <<scene, kept, local_seq>>
  BY DEF DoClear, history
<1>2. PICK i \in PendingIdx : Arg(n, p) = i
  BY <1>1, AtOp
<1>3. /\ todo[n][p] \in Seq(Ops(n)) /\ todo[n][p] # <<>>
      /\ Head(todo[n][p]).op = "clear" /\ Head(todo[n][p]).arg = i
      /\ todo = [k \in Node |-> [q \in Node |-> todo[k][q]]]
  BY <1>1, <1>2 DEF MInv, TodoOK, At, Arg
<1>4. todo' = [todo EXCEPT ![n][p] = Tail(todo[n][p])]
  <2>1. todo' = [todo EXCEPT ![n][p] = <<>> \o Tail(todo[n][p])]
    BY <1>1, <1>3 DEF Replace
  <2>2. <<>> \o Tail(todo[n][p]) = Tail(todo[n][p])
    BY <1>3, SeqTail
  <2> QED
    BY <2>1, <2>2
<1>5. /\ \A k \in Node : k # n => todo'[k] = todo[k] /\ pending'[k] = pending[k]
      /\ todo'[n][p] = Tail(todo[n][p])
      /\ \A q \in Node : q # p => todo'[n][q] = todo[n][q]
      /\ \A j \in PendingIdx : pending'[n][j] = IF j = i THEN None ELSE pending[n][j]
  BY <1>1, <1>2, <1>3, <1>4 DEF MInv, PendingOK
<1>6. Grow
  BY <1>1, Same
<1>7. ASSUME NEW k \in Node, Small(k)'
      PROVE  Held(k)' /\ Numbered(k)' /\ \A q \in Node : ListOK(k, q)'
  <2>1. CASE k # n
    BY <1>1, <1>5, <1>6, <1>7, <2>1, KeptSame
  <2>2. CASE k = n
    <3>1. Small(n) /\ Peers(n)' = Peers(n)
      BY <1>1, <1>6, <1>7, <2>2, Growth DEF Small
    <3>2. \A q \in Node : ListOK(n, q)
      BY <3>1 DEF KInv
    <3>3. /\ Peers(n) = {p} /\ <<n, pending[n][i]>> \notin kept
          /\ Apart(Tail(todo[n][p])) /\ Elems(Tail(todo[n][p])) \subseteq Elems(todo[n][p])
          /\ \A e \in Elems(Tail(todo[n][p])) : ~Clash(Head(todo[n][p]), e)
      <4>1. Fits(n, p, Head(todo[n][p]))
        BY <1>3, <3>2, ElemsAfter DEF ListOK
      <4>2. Elems(Tail(todo[n][p])) \subseteq Elems(todo[n][p])
        BY <1>3, SeqOne, ElemsAfter
      <4>3. Apart(todo[n][p]) /\ Apart(<<>>) /\ Elems(<<>>) = {} /\ <<>> \in Seq(Ops(n))
        BY <3>2 DEF ListOK, Apart, Elems
      <4>4. /\ Apart(<<>> \o Tail(todo[n][p]))
            /\ \A e \in Elems(Tail(todo[n][p])) : ~Clash(Head(todo[n][p]), e)
        BY <1>3, <4>3, ApartAfter
      <4>5. <<>> \o Tail(todo[n][p]) = Tail(todo[n][p])
        BY <1>3, SeqTail
      <4> QED
        BY <1>3, <4>1, <4>2, <4>4, <4>5 DEF Fits, Slots
    <3>4. Held(n)'
      <4> SUFFICES ASSUME NEW m \in Msg, <<n, m>> \in kept
                   PROVE  \E j \in PendingIdx : pending'[n][j] = m
        BY <1>1 DEF Held, Msg
      <4>1. PICK j \in PendingIdx : pending[n][j] = m
        BY <3>1 DEF KInv, Held
      <4>2. j # i
        BY <3>3, <4>1
      <4> QED
        BY <1>5, <4>1, <4>2
    <3>5. Numbered(n)'
      BY <1>5, <3>1 DEF KInv, Numbered
    <3>6. ASSUME NEW q \in Node, NEW e, Fits(n, q, e),
                 e.op \in Slots => SlotOf(e) \in PendingIdx \ {i}
          PROVE  Fits(n, q, e)'
      <4>1. e.op = "store" => /\ q = n /\ e.arg.seq = local_seq'[n]
                              /\ \A j \in PendingIdx :
                                   pending'[n][j] # None => pending'[n][j].seq < local_seq'[n]
        BY <1>1, <1>5, <3>6 DEF Fits
      <4>2. e.op = "resend" => pending'[n][e.arg.at] = e.arg.msg
        BY <1>5, <3>6 DEF Fits, Slots, SlotOf
      <4>3. e.op = "clear" => pending'[n][e.arg] # None /\ <<n, pending'[n][e.arg]>> \notin kept'
        BY <1>1, <1>5, <3>6 DEF Fits, Slots, SlotOf
      <4>4. e.op \in Slots \cup {"flush"} => Peers(n)' = {q}
        BY <3>1, <3>6 DEF Fits
      <4> QED
        BY <4>1, <4>2, <4>3, <4>4 DEF Fits
    <3>7. ASSUME NEW q \in Node, NEW e \in Elems(todo[n][q]), e.op \in Slots
          PROVE  SlotOf(e) \in PendingIdx
      <4>1. todo[n][q] \in Seq(Ops(n))
        BY DEF MInv, TodoOK
      <4>2. e \in Ops(n)
        BY <4>1 DEF Elems
      <4>3. /\ e.op = "resend" => e.arg \in [at : PendingIdx, msg : Mine(n)]
            /\ e.op = "clear" => e.arg \in PendingIdx
        BY <4>2, OpKinds
      <4> QED
        BY <3>7, <4>3 DEF Slots, SlotOf
    <3>8. ListOK(n, p)'
      <4>1. ASSUME NEW e \in Elems(Tail(todo[n][p])) PROVE Fits(n, p, e)'
        <5>1. e \in Elems(todo[n][p]) /\ ~Clash(Head(todo[n][p]), e)
          BY <3>3
        <5>2. e.op \in Slots => SlotOf(e) # i
          BY <1>3, <5>1 DEF Clash, Slots, SlotOf
        <5>3. Fits(n, p, e)
          BY <3>2, <5>1 DEF ListOK
        <5> QED
          BY <3>6, <3>7, <5>1, <5>2, <5>3
      <4> QED
        BY <1>5, <3>3, <4>1 DEF ListOK, Apart, Clash, SlotOf, Elems
    <3>9. ASSUME NEW q \in Node, q # p PROVE ListOK(n, q)'
      <4>1. ASSUME NEW e \in Elems(todo[n][q]) PROVE Fits(n, q, e)'
        <5>1. Fits(n, q, e)
          BY <3>2 DEF ListOK
        <5>2. e.op \notin Slots
          BY <3>3, <3>9, <5>1 DEF Fits
        <5> QED
          BY <3>6, <5>1, <5>2
      <4> QED
        BY <1>5, <3>2, <3>9, <4>1 DEF ListOK, Apart, Clash, SlotOf, Elems
    <3> QED
      BY <2>2, <3>4, <3>5, <3>8, <3>9
  <2> QED
    BY <2>1, <2>2
<1> QED
  BY <1>1, <1>7 DEF KInv, Msg

LEMMA Span ==
    ASSUME NEW b \in Nat
    PROVE  /\ IsFiniteSet(0 .. b) /\ Cardinality(0 .. b) = b + 1
           /\ IsFiniteSet(1 .. b) /\ Cardinality(1 .. b) = b
<1>1. IsFiniteSet(0 .. b) /\ Cardinality(0 .. b) = IF 0 > b THEN 0 ELSE b - 0 + 1
  BY FS_Interval
<1>2. IsFiniteSet(1 .. b) /\ Cardinality(1 .. b) = IF 1 > b THEN 0 ELSE b - 1 + 1
  BY FS_Interval
<1> QED
  BY <1>1, <1>2

(* A broker has made at most as many publishes as its table has entries:   *)
(* when the last one is to be stored, an entry is free.                    *)
LEMMA EntryFree ==
    ASSUME MInv, NEW n \in Node, Numbered(n), local_seq[n] <= P2P_PENDING_QOS_MAX,
           local_seq[n] \in Nat \ {0},
           \A j \in PendingIdx : pending[n][j] # None => pending[n][j].seq < local_seq[n]
    PROVE  /\ PendingSlot(n) \in PendingIdx
           /\ pending[n][PendingSlot(n)] = None
<1>1. \E j \in PendingIdx : pending[n][j] = None
  <2> SUFFICES ASSUME \A j \in PendingIdx : pending[n][j] # None PROVE FALSE
    OBVIOUS
  <2> DEFINE T == 1 .. local_seq[n] - 1
             f == [j \in PendingIdx |-> pending[n][j].seq]
  <2>1. f \in [PendingIdx -> T]
    <3>1. ASSUME NEW j \in PendingIdx PROVE pending[n][j].seq \in T
      <4>1. pending[n][j] \in Mine(n)
        BY DEF MInv, PendingOK
      <4>2. pending[n][j].seq \in 1 .. local_seq[n]
        BY <4>1 DEF Mine, Known
      <4> QED
        BY <4>2
    <3> QED
      BY <3>1
  <2>2. /\ IsFiniteSet(PendingIdx) /\ Cardinality(PendingIdx) = P2P_PENDING_QOS_MAX
    <3>1. P2P_PENDING_QOS_MAX - 1 \in Nat
      BY NodeFacts
    <3>2. IsFiniteSet(PendingIdx) /\ Cardinality(PendingIdx) = P2P_PENDING_QOS_MAX - 1 + 1
      BY <3>1, Span DEF PendingIdx
    <3> QED
      BY <3>2, NodeFacts
  <2>3. IsFiniteSet(T) /\ Cardinality(T) = local_seq[n] - 1
    <3>1. local_seq[n] - 1 \in Nat
      OBVIOUS
    <3> QED
      BY <3>1, Span
  <2>4. Cardinality(T) < Cardinality(PendingIdx)
    BY <2>2, <2>3, NodeFacts
  <2> HIDE DEF T, f
  <2>5. PICK x, y \in PendingIdx : x # y /\ f[x] = f[y]
    BY <2>1, <2>2, <2>3, <2>4, FS_PigeonHole
  <2> QED
    BY <2>5 DEF f, Numbered
<1> DEFINE I == {j \in PendingIdx : pending[n][j] = None}
<1>2. I \subseteq Nat /\ I # {} /\ None \notin PendingIdx
  BY <1>1, MeshAssumption DEF PendingIdx
<1>3. First(I) \in I
  BY <1>2, FirstFound
<1>4. PendingSlot(n) = First(I)
  BY <1>2, <1>3 DEF PendingSlot
<1> QED
  BY <1>3, <1>4

LEMMA KeptDoStore ==
    ASSUME MInv, KInv, NEW n \in Node, NEW p \in Node, DoStore(n, p)
    PROVE  KInv'
<1>1. PICK m \in Mine(n), i \in PendingIdx :
         /\ At(n, p, "store") /\ Replace(n, p, <<>>)
         /\ Arg(n, p) = m /\ PendingSlot(n) = i
         /\ pending' = [pending EXCEPT ![n][i] = m]
         /\ kept' = (kept \ {<<n, pending[n][i]>>}) \cup {<<n, m>>}
         /\ UNCHANGED <<scene, local_seq>>
  <2>1. At(n, p, "store")
    BY DEF DoStore
  <2>2. Arg(n, p) \in Mine(n) /\ PendingSlot(n) \in PendingIdx
    BY <2>1, AtOp, SlotType
  <2> QED
    BY <2>2 DEF DoStore
<1>2. /\ todo[n][p] \in Seq(Ops(n)) /\ todo[n][p] # <<>>
      /\ Head(todo[n][p]).op = "store" /\ Head(todo[n][p]).arg = m
      /\ todo = [k \in Node |-> [q \in Node |-> todo[k][q]]]
  BY <1>1 DEF MInv, TodoOK, At, Arg
<1>3. todo' = [todo EXCEPT ![n][p] = Tail(todo[n][p])]
  <2>1. todo' = [todo EXCEPT ![n][p] = <<>> \o Tail(todo[n][p])]
    BY <1>1, <1>2 DEF Replace
  <2>2. <<>> \o Tail(todo[n][p]) = Tail(todo[n][p])
    BY <1>2, SeqTail
  <2> QED
    BY <2>1, <2>2
<1>4. /\ \A k \in Node : k # n => todo'[k] = todo[k] /\ pending'[k] = pending[k]
      /\ todo'[n][p] = Tail(todo[n][p])
      /\ \A q \in Node : q # p => todo'[n][q] = todo[n][q]
      /\ \A j \in PendingIdx : pending'[n][j] = IF j = i THEN m ELSE pending[n][j]
  BY <1>1, <1>2, <1>3 DEF MInv, PendingOK
<1>5. Grow
  BY <1>1, Same
<1>6. m \in Msg /\ m # None /\ m.seq \in 1 .. local_seq[n] /\ local_seq[n] \in Nat
  BY NodeFacts DEF Mine, Known, MInv, CountsOK
<1>7. ASSUME NEW k \in Node, Small(k)'
      PROVE  Held(k)' /\ Numbered(k)' /\ \A q \in Node : ListOK(k, q)'
  <2>1. CASE k # n
    <3>1. \A d : <<k, d>> \in kept' <=> <<k, d>> \in kept
      BY <1>1, <2>1
    <3> QED
      BY <1>1, <1>4, <1>5, <1>7, <2>1, <3>1, KeptSame
  <2>2. CASE k = n
    <3>1. Small(n) /\ Peers(n)' = Peers(n)
      BY <1>1, <1>5, <1>7, <2>2, Growth DEF Small
    <3>2. (\A q \in Node : ListOK(n, q)) /\ Held(n) /\ Numbered(n)
      BY <3>1 DEF KInv
    <3>3. /\ p = n /\ m.seq = local_seq[n]
          /\ \A j \in PendingIdx : pending[n][j] # None => pending[n][j].seq < local_seq[n]
      <4>1. Fits(n, p, Head(todo[n][p]))
        BY <1>2, <3>2, SeqOne, ElemsAfter DEF ListOK
      <4> QED
        BY <1>2, <4>1 DEF Fits
    <3>4. pending[n][i] = None
      <4>1. local_seq[n] <= P2P_PENDING_QOS_MAX /\ local_seq[n] \in Nat \ {0}
        BY <1>6, <3>1 DEF Small
      <4> QED
        BY <1>1, <3>2, <3>3, <4>1, EntryFree
    <3>5. /\ Apart(Tail(todo[n][p])) /\ Elems(Tail(todo[n][p])) \subseteq Elems(todo[n][p])
          /\ \A e \in Elems(Tail(todo[n][p])) : e.op # "store"
      <4>1. Elems(Tail(todo[n][p])) \subseteq Elems(todo[n][p])
        BY <1>2, SeqOne, ElemsAfter
      <4>2. Apart(todo[n][p]) /\ Apart(<<>>) /\ Elems(<<>>) = {} /\ <<>> \in Seq(Ops(n))
        BY <3>2 DEF ListOK, Apart, Elems
      <4>3. /\ Apart(<<>> \o Tail(todo[n][p]))
            /\ \A e \in Elems(Tail(todo[n][p])) : ~Clash(Head(todo[n][p]), e)
        BY <1>2, <4>2, ApartAfter
      <4>4. <<>> \o Tail(todo[n][p]) = Tail(todo[n][p])
        BY <1>2, SeqTail
      <4> QED
        BY <1>2, <4>1, <4>3, <4>4 DEF Clash
    <3>6. Held(n)'
      <4> SUFFICES ASSUME NEW d \in Msg, <<n, d>> \in kept'
                   PROVE  \E j \in PendingIdx : pending'[n][j] = d
        BY DEF Held, Msg
      <4>1. CASE d = m
        BY <1>4, <4>1
      <4>2. CASE d # m
        <5>1. <<n, d>> \in kept
          BY <1>1, <4>2
        <5>2. PICK j \in PendingIdx : pending[n][j] = d
          BY <3>2, <5>1 DEF Held
        <5>3. j # i
          BY <3>4, <5>2, NodeFacts
        <5> QED
          BY <1>4, <5>2, <5>3
      <4> QED
        BY <4>1, <4>2
    <3>7. Numbered(n)'
      <4> SUFFICES ASSUME NEW x \in PendingIdx, NEW y \in PendingIdx, x # y,
                          pending'[n][x] # None, pending'[n][y] # None
                   PROVE  pending'[n][x].seq # pending'[n][y].seq
        BY DEF Numbered
      <4>0. \A j \in PendingIdx : pending[n][j] # None => pending[n][j].seq \in Int
        BY DEF MInv, PendingOK, Mine, Known
      <4>1. CASE x = i
        <5>1. pending'[n][x] = m /\ pending'[n][y] = pending[n][y] /\ pending[n][y] # None
          BY <1>4, <4>1
        <5> QED
          BY <1>6, <3>3, <4>0, <5>1
      <4>2. CASE y = i
        <5>1. pending'[n][y] = m /\ pending'[n][x] = pending[n][x] /\ pending[n][x] # None
          BY <1>4, <4>2
        <5> QED
          BY <1>6, <3>3, <4>0, <5>1
      <4>3. CASE x # i /\ y # i
        BY <1>4, <3>2, <4>3 DEF Numbered
      <4> QED
        BY <4>1, <4>2, <4>3
    <3>8. ASSUME NEW q \in Node, NEW e \in Elems(todo[n][q]), e.op # "store"
          PROVE  Fits(n, q, e)'
      <4>1. Fits(n, q, e)
        BY <3>2 DEF ListOK
      <4>2. /\ e.op = "resend" => e.arg \in [at : PendingIdx, msg : Mine(n)]
            /\ e.op = "clear" => e.arg \in PendingIdx
        <5>1. todo[n][q] \in Seq(Ops(n))
          BY DEF MInv, TodoOK
        <5>2. e \in Ops(n)
          BY <5>1 DEF Elems
        <5> QED
          BY <5>2, OpKinds
      <4>3. e.op = "resend" => pending'[n][e.arg.at] = e.arg.msg
        <5> SUFFICES ASSUME e.op = "resend" PROVE pending'[n][e.arg.at] = e.arg.msg
          OBVIOUS
        <5>1. e.arg.at \in PendingIdx /\ e.arg.msg # None /\ pending[n][e.arg.at] = e.arg.msg
          BY <4>1, <4>2, NodeFacts DEF Fits, Mine, Known
        <5> QED
          BY <1>4, <3>4, <5>1
      <4>4. e.op = "clear" => pending'[n][e.arg] # None /\ <<n, pending'[n][e.arg]>> \notin kept'
        <5> SUFFICES ASSUME e.op = "clear"
                     PROVE  pending'[n][e.arg] # None /\ <<n, pending'[n][e.arg]>> \notin kept'
          OBVIOUS
        <5>1. e.arg \in PendingIdx /\ pending[n][e.arg] # None /\ <<n, pending[n][e.arg]>> \notin kept
          BY <4>1, <4>2 DEF Fits
        <5>2. e.arg # i /\ pending'[n][e.arg] = pending[n][e.arg]
          BY <1>4, <3>4, <5>1
        <5>3. pending[n][e.arg] # m
          <6>1. pending[n][e.arg].seq < local_seq[n] /\ pending[n][e.arg].seq \in Int
            BY <3>3, <5>1 DEF MInv, PendingOK, Mine, Known
          <6> QED
            BY <1>6, <3>3, <6>1
        <5> QED
          BY <1>1, <5>1, <5>2, <5>3
      <4>5. e.op \in Slots \cup {"flush"} => Peers(n)' = {q}
        BY <3>1, <4>1 DEF Fits
      <4> QED
        BY <3>8, <4>3, <4>4, <4>5 DEF Fits
    <3>9. ListOK(n, p)'
      <4>1. \A e \in Elems(Tail(todo[n][p])) : Fits(n, p, e)'
        BY <3>5, <3>8
      <4> QED
        BY <1>4, <3>5, <4>1 DEF ListOK, Apart, Clash, SlotOf, Elems
    <3>10. ASSUME NEW q \in Node, q # p PROVE ListOK(n, q)'
      <4>1. ASSUME NEW e \in Elems(todo[n][q]) PROVE Fits(n, q, e)'
        <5>1. Fits(n, q, e)
          BY <3>2 DEF ListOK
        <5>2. e.op # "store"
          BY <3>3, <3>10, <5>1 DEF Fits
        <5> QED
          BY <3>8, <5>2
      <4> QED
        BY <1>4, <3>2, <3>10, <4>1 DEF ListOK, Apart, Clash, SlotOf, Elems
    <3> QED
      BY <2>2, <3>6, <3>7, <3>9, <3>10
  <2> QED
    BY <2>1, <2>2
<1>8. kept' \subseteq Node \X Msg
  BY <1>1, <1>6 DEF KInv
<1> QED
  BY <1>7, <1>8 DEF KInv, Msg

LEMMA KeptLocalPublish ==
    ASSUME MInv, KInv, LocalPublish
    PROVE  KInv'
<1> DEFINE Rest(m, stored) ==
             <<Do("flood", m)>> \o (IF stored THEN <<Do("store", m)>> ELSE <<>>)
<1>1. PICK n \in Node, m \in Msg, stored \in BOOLEAN :
         /\ m.seq = local_seq[n] + 1
         /\ todo[n][n] = <<>>
         /\ local_seq' = [local_seq EXCEPT ![n] = @ + 1]
         /\ UNCHANGED <<scene, pending, kept>>
         /\ UNCHANGED todo \/ todo' = [todo EXCEPT ![n][n] = Rest(m, stored)]
  BY PublishParts
<1>2. local_seq[n] \in Nat /\ local_seq'[n] = m.seq
      /\ \A k \in Node : k # n => local_seq'[k] = local_seq[k]
  BY <1>1 DEF MInv, CountsOK
<1>3. Grow
  BY <1>1 DEF Grow, MInv, CountsOK
<1>4. /\ \A k \in Node : k # n => todo'[k] = todo[k]
      /\ todo'[n][n] = <<>> \/ todo'[n][n] = Rest(m, stored)
      /\ \A q \in Node : q # n => todo'[n][q] = todo[n][q]
  <2> HIDE DEF Rest
  <2> QED
    BY <1>1 DEF MInv, TodoOK
<1>5. ASSUME NEW k \in Node, Small(k)'
      PROVE  Held(k)' /\ Numbered(k)' /\ \A q \in Node : ListOK(k, q)'
  <2>1. CASE k # n
    BY <1>1, <1>2, <1>3, <1>4, <1>5, <2>1, KeptSame
  <2>2. CASE k = n
    <3>1. Small(n) /\ Peers(n)' = Peers(n)
      BY <1>1, <1>2, <1>3, <1>5, <2>2, Growth, NodeFacts DEF Small
    <3>2. (\A q \in Node : ListOK(n, q)) /\ Held(n) /\ Numbered(n)
      BY <3>1 DEF KInv
    <3>3. Held(n)' /\ Numbered(n)'
      BY <1>1, <3>2 DEF Held, Numbered, Msg
    <3>4. ASSUME NEW q \in Node, q # n PROVE ListOK(n, q)'
      <4>1. ASSUME NEW e \in Elems(todo[n][q]) PROVE Fits(n, q, e)'
        <5>1. Fits(n, q, e)
          BY <3>2 DEF ListOK
        <5>2. e.op # "store"
          BY <3>4, <5>1 DEF Fits
        <5> QED
          BY <1>1, <3>1, <5>1, <5>2 DEF Fits
      <4> QED
        BY <1>4, <3>2, <3>4, <4>1 DEF ListOK, Apart, Clash, SlotOf, Elems
    <3>5. \A j \in PendingIdx : pending'[n][j] # None => pending'[n][j].seq < local_seq'[n]
      <4>1. \A j \in PendingIdx : pending[n][j] # None => pending[n][j].seq \in 1 .. local_seq[n]
        BY DEF MInv, PendingOK, Mine, Known
      <4> QED
        BY <1>1, <1>2, <4>1
    <3>6. Fits(n, n, Do("flood", m))' /\ Fits(n, n, Do("store", m))'
      BY <1>2, <3>5 DEF Fits, Do, Slots
    <3>7. \A i \in DOMAIN todo'[n][n] : \/ i = 1 /\ todo'[n][n][i] = Do("flood", m)
                                        \/ i = 2 /\ todo'[n][n][i] = Do("store", m)
      BY <1>4
    <3>8. ListOK(n, n)'
      <4>1. \A e \in Elems(todo'[n][n]) : Fits(n, n, e)'
        BY <3>6, <3>7 DEF Elems
      <4>2. \A i, j \in DOMAIN todo'[n][n] : i # j => ~Clash(todo'[n][n][i], todo'[n][n][j])
        BY <3>7 DEF Clash, Do, Slots
      <4> QED
        BY <4>1, <4>2 DEF ListOK, Apart, Clash, SlotOf, Elems
    <3> QED
      BY <2>2, <3>3, <3>4, <3>8
  <2> QED
    BY <2>1, <2>2
<1> QED
  BY <1>1, <1>5 DEF KInv, Msg

LEMMA KeptStep == MInv /\ KInv /\ [Next]_vars => KInv'
<1> SUFFICES ASSUME MInv, KInv, [Next]_vars PROVE KInv'
  OBVIOUS
<1>1. CASE Clients
  BY <1>1, KeptLocalPublish, KeptLocalSubscribe DEF Clients
<1>2. ASSUME NEW n \in Node, NEW p \in Node, DoSend(n, p) \/ DoFlood(n, p) \/ DoRemove(n, p)
      PROVE  KInv'
  <2>1. /\ UNCHANGED <<scene, pending, kept, local_seq>> /\ Replace(n, p, <<>>)
        /\ At(n, p, "send") \/ At(n, p, "flood") \/ At(n, p, "remove")
    BY <1>2 DEF DoSend, DoFlood, DoRemove, tables, history
  <2> QED
    BY <2>1, KeptGone
<1>3. ASSUME NEW n \in Node, NEW p \in Node, Handler(n, p) PROVE KInv'
  BY <1>2, <1>3, KeptDoStore, KeptDoTell, KeptDoAdvertise, KeptDoFlush, KeptDoResend, KeptDoClear
     DEF Handler
<1>4. ASSUME NEW n \in Node, NEW p \in Node, TakePublish(n, p) PROVE KInv'
  BY <1>4, KeptIdle DEF TakePublish
<1>5. CASE Threads
  BY <1>3, <1>4, <1>5, KeptTakeSub, KeptTakeUnsub, KeptJoin, KeptClose DEF Threads, Thread
<1>6. CASE Connections
  BY <1>6, KeptIdle DEF Connections, Reconnect, tables, history
<1>7. CASE \E l \in scene.links : Break(l)
  BY <1>7, KeptIdle DEF Break, tables
<1>8. CASE UNCHANGED vars
  BY <1>8, KeptIdle DEF vars, tables, history
<1> QED
  BY <1>1, <1>5, <1>6, <1>7, <1>8 DEF Next

(* pending_qos_store and flush_pending_qos_for_filter, which sends copies  *)
(* without the lock and frees their entries afterwards, never lose a       *)
(* publish before it is sent, at a broker with one peer and with no more   *)
(* publishes than entries.                                                 *)
THEOREM PendingNotLost == Spec => []PendingKept
<1>1. KInv => PendingKept
  <2> SUFFICES ASSUME KInv, NEW k \in kept, Small(k[1])
               PROVE  \E i \in PendingIdx : pending[k[1]][i] = k[2]
    BY DEF PendingKept, Small
  <2>1. k[1] \in Node /\ k[2] \in Msg /\ k = <<k[1], k[2]>>
    BY DEF KInv
  <2> QED
    BY <2>1 DEF KInv, Held
<1>2. Init => MInv /\ KInv
  BY MeshStart, KeptStart
<1>3. MInv /\ KInv /\ [Next]_vars => (MInv /\ KInv)'
  BY MeshStep, KeptStep
<1> QED
  BY <1>1, <1>2, <1>3, PTL DEF Spec

----------------------------------------------------------------------------
(* LocalAdverts. *)

(* Max of the QoS levels of a filter is one of them. *)
LEMMA MaxQoS ==
    ASSUME NEW S, S \subseteq QoS, S # {}
    PROVE  Max(S) \in S /\ Max(S) \in QoS /\ Max(S) # None
<1> USE AdvertAssumption
<1> DEFINE Best(x) == x \in S /\ \A y \in S : x >= y
<1>1. S \subseteq 0 .. 2
  OBVIOUS
<1>2. CASE 2 \in S
  <2>1. Best(2)
    BY <1>1, <1>2
  <2> QED
    BY <2>1 DEF Max
<1>3. CASE 2 \notin S /\ 1 \in S
  <2>1. Best(1)
    BY <1>1, <1>3
  <2> QED
    BY <2>1 DEF Max
<1>4. CASE 2 \notin S /\ 1 \notin S
  <2>1. \A x \in S : x = 0
    BY <1>1, <1>4
  <2>2. 0 \in S
    BY <2>1
  <2>3. Best(0)
    BY <2>1, <2>2
  <2> QED
    BY <2>3 DEF Max
<1> QED
  BY <1>2, <1>3, <1>4

(* The subscriptions to a filter have QoS levels. *)
LEMMA StatsType ==
    ASSUME AdvertTypeOK, NEW f \in Filter
    PROVE  /\ Stats(f) \subseteq QoS
           /\ Stats(f) = {} <=> Having(f) = {}
           /\ Having(f) # {} => Max(Stats(f)) \in QoS /\ Max(Stats(f)) # None
<1>1. Stats(f) \subseteq QoS
  BY DEF AdvertTypeOK, Stats, Having
<1>2. Stats(f) = {} <=> Having(f) = {}
  BY DEF Stats
<1> QED
  BY <1>1, <1>2, MaxQoS

(* After an entry <<c, f>> of the table has become q, Set has counted the  *)
(* subscriptions to f as the next state has them, and those to no other    *)
(* filter have changed.                                                    *)
LEMMA SetStats ==
    ASSUME AdvertTypeOK, NEW c \in Client, NEW f \in Filter, NEW q \in QoS \cup {None},
           Set(c, f, q)
    PROVE  /\ topic_subs' \in [Client -> [Filter -> QoS \cup {None}]]
           /\ note' = [note EXCEPT ![c] = Notice(f, Stats(f), Stats(f)')]
           /\ \A g \in Filter \ {f} : Having(g)' = Having(g) /\ Stats(g)' = Stats(g)
           /\ Having(f)' = (Having(f) \ {c}) \cup (IF q = None THEN {} ELSE {c})
           /\ Stats(f)' \subseteq QoS
           /\ Stats(f)' = {} <=> Having(f)' = {}
<1> DEFINE new == {topic_subs[d][f] : d \in Having(f) \ {c}} \cup (IF q = None THEN {} ELSE {q})
<1>1. topic_subs' = [topic_subs EXCEPT ![c][f] = q] /\ note' = [note EXCEPT ![c] = Notice(f, Stats(f), new)]
  BY DEF Set
<1>2. topic_subs \in [Client -> [Filter -> QoS \cup {None}]]
  BY DEF AdvertTypeOK
<1>3. topic_subs' \in [Client -> [Filter -> QoS \cup {None}]]
  BY <1>1, <1>2
<1>4. \A d \in Client, g \in Filter :
         topic_subs'[d][g] = IF d = c /\ g = f THEN q ELSE topic_subs[d][g]
  BY <1>1, <1>2
<1>5. \A g \in Filter \ {f} : Having(g)' = Having(g) /\ Stats(g)' = Stats(g)
  BY <1>4 DEF Having, Stats
<1>6. Having(f)' = (Having(f) \ {c}) \cup (IF q = None THEN {} ELSE {c})
  BY <1>4 DEF Having
<1>7. Stats(f)' = new
  <2>1. Stats(f)' = {topic_subs'[d][f] : d \in Having(f)'}
    BY DEF Stats
  <2>2. Stats(f)' \subseteq new
    <3> SUFFICES ASSUME NEW d \in Having(f)' PROVE topic_subs'[d][f] \in new
      BY <2>1
    <3>1. d \in Client
      BY DEF Having
    <3>2. CASE d = c
      BY <1>4, <1>6, <3>1, <3>2
    <3>3. CASE d # c
      <4>1. d \in Having(f) \ {c} /\ topic_subs'[d][f] = topic_subs[d][f]
        BY <1>4, <1>6, <3>1, <3>3
      <4> QED
        BY <4>1
    <3> QED
      BY <3>2, <3>3
  <2>3. new \subseteq Stats(f)'
    <3> SUFFICES ASSUME NEW v \in new PROVE v \in Stats(f)'
      OBVIOUS
    <3>1. CASE \E d \in Having(f) \ {c} : v = topic_subs[d][f]
      <4>1. PICK d \in Having(f) \ {c} : v = topic_subs[d][f]
        BY <3>1
      <4>2. d \in Client
        BY DEF Having
      <4>3. d \in Having(f)' /\ topic_subs'[d][f] = v
        BY <1>4, <1>6, <4>1, <4>2
      <4> QED
        BY <2>1, <4>3
    <3>2. CASE q # None /\ v = q
      <4>1. c \in Having(f)' /\ topic_subs'[c][f] = v
        BY <1>4, <1>6, <3>2
      <4> QED
        BY <2>1, <4>1
    <3> QED
      BY <3>1, <3>2
  <2> QED
    BY <2>2, <2>3
<1>8. Stats(f)' \subseteq QoS
  BY <1>3 DEF Stats, Having
<1>9. Stats(f)' = {} <=> Having(f)' = {}
  BY DEF Stats
<1> HIDE DEF new
<1> QED
  BY <1>1, <1>3, <1>5, <1>6, <1>7, <1>8, <1>9

(* What a change of the table asks to be sent is a notification or nothing. *)
LEMMA NoticeType ==
    ASSUME NEW f \in Filter, NEW old, NEW new, new \subseteq QoS
    PROVE  /\ Notice(f, old, new) \in Note \cup {None}
           /\ Notice(f, old, new) # None =>
                /\ Notice(f, old, new).filter = f
                /\ Notice(f, old, new).qos = IF new = {} THEN None ELSE Max(new)
           /\ Notice(f, old, new) = None =>
                \/ new = {} /\ old = {}
                \/ new # {} /\ old # {} /\ Max(new) = Max(old)
           /\ old = new => Notice(f, old, new) = None
<1> USE NullAssumption
<1>1. CASE new = {}
  <2>1. [filter |-> f, qos |-> None] \in Note
    BY DEF Note
  <2> QED
    BY <1>1, <2>1 DEF Notice
<1>2. CASE new # {}
  <2>1. Max(new) \in QoS
    BY <1>2, MaxQoS
  <2>2. [filter |-> f, qos |-> Max(new)] \in Note
    BY <2>1 DEF Note
  <2> HIDE DEF Note
  <2> QED
    BY <1>2, <2>2 DEF Notice
<1> QED
  BY <1>1, <1>2

----------------------------------------------------------------------------
(* Types. *)

LEMMA TypeInit == AdvertInit => AdvertTypeOK
  BY AdvertAssumption DEF AdvertInit, AdvertTypeOK

(* A change of one entry keeps the table and the cursor of a resync. *)
LEMMA SetType ==
    ASSUME AdvertTypeOK, NEW c \in Client, NEW f \in Filter, NEW q \in QoS \cup {None},
           Set(c, f, q)
    PROVE  /\ topic_subs' \in [Client -> [Filter -> QoS \cup {None}]]
           /\ note' \in [Notifier -> Note \cup {None}]
           /\ resync' = None \/ (resync' \in Resync /\ resync'.left \subseteq Entries')
<1>1. note' \in [Notifier -> Note \cup {None}]
  <2>1. Notice(f, Stats(f), Stats(f)') \in Note \cup {None}
    BY SetStats, NoticeType
  <2>2. note' = [note EXCEPT ![c] = Notice(f, Stats(f), Stats(f)')] /\ c \in Notifier
    BY SetStats DEF Notifier
  <2> QED
    BY <2>1, <2>2 DEF AdvertTypeOK
<1>2. resync' = None \/ (resync' \in Resync /\ resync'.left \subseteq Entries')
  <2>1. PassResync(c, f, q) /\ topic_subs' = [topic_subs EXCEPT ![c][f] = q]
    BY DEF Set
  <2>2. \A d \in Client, g \in Filter :
           topic_subs'[d][g] = IF d = c /\ g = f THEN q ELSE topic_subs[d][g]
    BY <2>1 DEF AdvertTypeOK
  <2>3. Entries \ {<<c, f>>} \subseteq Entries' /\ (q # None => <<c, f>> \in Entries')
    BY <2>2 DEF Entries
  <2>4. CASE resync = None
    BY <2>1, <2>4 DEF PassResync
  <2>5. CASE resync # None
    <3>1. resync \in Resync /\ resync.left \subseteq Entries
      BY <2>5 DEF AdvertTypeOK
    <3>2. PICK ahead \in {resync.left \ {<<c, f>>}, resync.left \cup {<<c, f>>}} :
             /\ q = None => <<c, f>> \notin ahead
             /\ resync' = [resync EXCEPT !.left = ahead]
      BY <2>1, <2>5 DEF PassResync
    <3>3. ahead \subseteq Client \X Filter
      BY <3>1, <3>2 DEF Resync
    <3>4. ahead \subseteq Entries'
      BY <2>3, <3>1, <3>2
    <3>5. resync' \in Resync /\ resync'.left = ahead
      BY <3>1, <3>2, <3>3 DEF Resync
    <3> QED
      BY <3>4, <3>5
  <2> QED
    BY <2>4, <2>5
<1> QED
  BY <1>1, <1>2, SetStats

LEMMA TypeStep == AdvertTypeOK /\ [AdvertNext]_advertVars => AdvertTypeOK'
<1> SUFFICES ASSUME AdvertTypeOK, [AdvertNext]_advertVars PROVE AdvertTypeOK'
  OBVIOUS
<1> USE AdvertAssumption
<1>1. ASSUME NEW c \in Client, UnsubscribeAll(c) PROVE AdvertTypeOK'
  BY <1>1 DEF UnsubscribeAll, AdvertTypeOK, Entries
<1>2. ASSUME NEW c \in Client, UnsubscribeNext(c) PROVE AdvertTypeOK'
  <2>1. CASE \E f \in Filter : topic_subs[c][f] # None
    <3>1. PICK f \in Filter : Set(c, f, None)
      BY <1>2, <2>1 DEF UnsubscribeNext
    <3>2. UNCHANGED <<mesh, ending, resyncs, advert>>
      BY <1>2, <2>1 DEF UnsubscribeNext
    <3> QED
      BY <3>1, <3>2, SetType DEF AdvertTypeOK
  <2>2. CASE ~\E f \in Filter : topic_subs[c][f] # None
    BY <1>2, <2>2 DEF UnsubscribeNext, AdvertTypeOK, Entries
  <2> QED
    BY <2>1, <2>2
<1>3. ASSUME NEW c \in Client, NEW f \in Filter, Unsubscribe(c, f) PROVE AdvertTypeOK'
  <2>1. Set(c, f, None) /\ UNCHANGED <<mesh, ending, resyncs, advert>>
    BY <1>3 DEF Unsubscribe
  <2> QED
    BY <2>1, SetType DEF AdvertTypeOK
<1>4. ASSUME NEW c \in Client, NEW f \in Filter, NEW q \in QoS, Subscribe(c, f, q)
      PROVE  AdvertTypeOK'
  <2>1. Set(c, f, q) /\ UNCHANGED <<mesh, ending, resyncs, advert>>
    BY <1>4 DEF Subscribe
  <2> QED
    BY <2>1, SetType DEF AdvertTypeOK
<1>5. ASSUME NEW m \in Mesh, MeshClose(m) PROVE AdvertTypeOK'
  BY <1>5 DEF MeshClose, AdvertTypeOK, Entries
<1>6. ASSUME NEW m \in Mesh, NEW f \in Filter, MeshRemove(m, f)
      PROVE  /\ mesh' \in [Mesh -> [Filter -> QoS \cup {None}]]
             /\ note' \in [Notifier -> Note \cup {None}]
  <2>1. [filter |-> f, qos |-> None] \in Note
    BY DEF Note
  <2> QED
    BY <1>6, <2>1 DEF MeshRemove, AdvertTypeOK, Notifier
<1>7. ASSUME NEW m \in Mesh, MeshCloseNext(m) PROVE AdvertTypeOK'
  <2>1. CASE \E f \in Filter : mesh[m][f] # None
    BY <1>6, <1>7, <2>1 DEF MeshCloseNext, AdvertTypeOK, Entries
  <2>2. CASE ~\E f \in Filter : mesh[m][f] # None
    BY <1>7, <2>2 DEF MeshCloseNext, AdvertTypeOK, Entries
  <2> QED
    BY <2>1, <2>2
<1>8. ASSUME NEW m \in Mesh, NEW f \in MeshFilter, MeshUnsubscribe(m, f) PROVE AdvertTypeOK'
  BY <1>6, <1>8 DEF MeshUnsubscribe, AdvertTypeOK, Entries
<1>9. ASSUME NEW m \in Mesh, NEW f \in MeshFilter, NEW q \in QoS, MeshSubscribe(m, f, q)
      PROVE  AdvertTypeOK'
  <2>1. [filter |-> f, qos |-> q] \in Note
    BY DEF Note
  <2> QED
    BY <1>9, <2>1 DEF MeshSubscribe, AdvertTypeOK, Entries, Notifier
<1>10. ASSUME NEW x \in Notifier, Notify(x) PROVE AdvertTypeOK'
  <2>1. note[x] \in Note
    BY <1>10 DEF Notify, AdvertTypeOK
  <2> QED
    BY <1>10, <2>1 DEF Notify, AdvertTypeOK, Entries, Note
<1>11. ASSUME ResyncStart PROVE AdvertTypeOK'
  <2>1. [left |-> Entries, more |-> TRUE, batch |-> {}] \in Resync
    BY DEF Resync, Entries
  <2> QED
    BY <1>11, <2>1 DEF ResyncStart, AdvertTypeOK, Entries
<1>12. ASSUME ResyncSnapshot PROVE AdvertTypeOK'
  <2>1. CASE resync.left = {} \/ ~resync.more
    BY <1>12, <2>1 DEF ResyncSnapshot, AdvertTypeOK, Entries
  <2>2. CASE ~(resync.left = {} \/ ~resync.more)
    <3> DEFINE B(taken) == {[client |-> e[1], filter |-> e[2],
                           qos |-> topic_subs[e[1]][e[2]]] : e \in taken}
    <3>1. PICK taken \in SUBSET resync.left :
             resync' = [left |-> resync.left \ taken,
                        more |-> Cardinality(taken) = BATCH, batch |-> B(taken)]
      BY <1>12, <2>2 DEF ResyncSnapshot
    <3>2. resync.left \subseteq Entries
      BY <1>12 DEF ResyncSnapshot, AdvertTypeOK
    <3>3. B(taken) \subseteq [client : Client, filter : Filter, qos : QoS]
      BY <3>2 DEF Entries, AdvertTypeOK
    <3>4. resync' \in Resync /\ resync'.left \subseteq Entries
      BY <3>1, <3>2, <3>3 DEF Resync, Entries
    <3> QED
      BY <1>12, <3>4 DEF ResyncSnapshot, AdvertTypeOK, Entries
  <2> QED
    BY <2>1, <2>2
<1>13. ASSUME ResyncSend PROVE AdvertTypeOK'
  <2>1. resync \in Resync /\ resync.left \subseteq Entries
    BY <1>13 DEF ResyncSend, AdvertTypeOK
  <2>2. PICK m \in resync.batch : /\ advert' = [advert EXCEPT ![m.filter] = m.qos]
                                  /\ resync' = [resync EXCEPT !.batch = @ \ {m}]
    BY <1>13 DEF ResyncSend
  <2>3. m.filter \in Filter /\ m.qos \in QoS
    BY <2>1, <2>2 DEF Resync
  <2>4. resync' \in Resync /\ resync'.left = resync.left
    BY <2>1, <2>2 DEF Resync
  <2> QED
    BY <1>13, <2>1, <2>2, <2>3, <2>4 DEF ResyncSend, AdvertTypeOK, Entries
<1>14. CASE UNCHANGED advertVars
  BY <1>14 DEF advertVars, AdvertTypeOK, Entries
<1> QED
  BY <1>1, <1>2, <1>3, <1>4, <1>5, <1>7, <1>8, <1>9, <1>10, <1>11, <1>12, <1>13, <1>14
     DEF AdvertNext

(* The tables of subscriptions, the notifications and a resync have their  *)
(* types in every behaviour, with any interleaving of the threads.         *)
THEOREM AdvertTypes == AdvertSpec => []AdvertTypeOK
<1> QED
  BY TypeInit, TypeStep, PTL DEF AdvertSpec

----------------------------------------------------------------------------
(* The environment Serial. *)

Pending(x, f) == note[x] # None /\ note[x].filter = f

(* A resync sends only what is subscribed. *)
BatchWanted == resync # None => \A e \in resync.batch : Having(e.filter) # {}

(* What a thread still has to announce is wanted. *)
NoteWanted == \A x \in Notifier :
                 note[x] # None /\ note[x].qos # None => Wanted(note[x].filter)

(* What the peers were told is wanted, or about to be withdrawn. *)
ToldWanted == \A f \in Filter :
                 advert[f] # None => \/ Wanted(f)
                                    \/ \E x \in Notifier : Pending(x, f) /\ note[x].qos = None

(* A mesh client has only the filters of the mesh. *)
MeshOnly == \A m \in Mesh : \A f \in Filter \ MeshFilter : mesh[m][f] = None

(* A notification of another filter tells what the table holds, *)
NoteExact == \A f \in Filter \ MeshFilter : \A x \in Notifier :
                Pending(x, f) =>
                    IF Having(f) = {} THEN note[x].qos = None
                    ELSE note[x].qos = Max(Stats(f))

(* and if there is none, the peers know it, *)
ToldExact == \A f \in Filter \ MeshFilter :
                \/ \E x \in Notifier : Pending(x, f)
                \/ advert[f] # None <=> Having(f) # {}

(* with the highest QoS before the first resync. *)
ToldHighest == resyncs = 0 =>
    /\ resync = None
    /\ \A f \in Filter \ MeshFilter :
          \/ \E x \in Notifier : Pending(x, f)
          \/ Having(f) # {} => advert[f] = Max(Stats(f))

AInv == /\ AdvertTypeOK /\ BatchWanted /\ NoteWanted /\ ToldWanted
        /\ MeshOnly /\ NoteExact /\ ToldExact /\ ToldHighest

LEMMA AdvertStart == AdvertInit => AInv
<1> SUFFICES ASSUME AdvertInit PROVE AInv
  OBVIOUS
<1>1. AdvertTypeOK
  BY TypeInit
<1>2. \A f \in Filter : Having(f) = {} /\ advert[f] = None
  BY DEF AdvertInit, Having
<1>3. /\ resync = None /\ \A x \in Notifier : note[x] = None
      /\ \A m \in Mesh, f \in Filter : mesh[m][f] = None
  BY DEF AdvertInit
<1>4. BatchWanted /\ NoteWanted /\ ToldWanted
  BY <1>2, <1>3 DEF BatchWanted, NoteWanted, ToldWanted
<1>5. MeshOnly /\ NoteExact
  BY <1>3 DEF MeshOnly, NoteExact, Pending
<1>6. ToldExact /\ ToldHighest
  BY <1>2, <1>3 DEF ToldExact, ToldHighest
<1> QED
  BY <1>1, <1>4, <1>5, <1>6 DEF AInv

(* A step that changes neither a table, nor a notification, nor what the   *)
(* peers know.                                                             *)
LEMMA Frame ==
    ASSUME AInv, AdvertTypeOK', BatchWanted', UNCHANGED <<topic_subs, mesh, note, advert>>,
           resyncs' = 0 => resyncs = 0 /\ resync' = None
    PROVE  AInv'
<1>1. \A f \in Filter : /\ Having(f)' = Having(f) /\ Stats(f)' = Stats(f)
                        /\ Wanted(f)' <=> Wanted(f)
  BY DEF Having, Stats, Wanted
<1>2. \A x \in Notifier, f \in Filter : Pending(x, f)' <=> Pending(x, f)
  BY DEF Pending
<1>3. \A x \in Notifier : note[x] # None => note[x].filter \in Filter
  BY NullAssumption DEF AInv, AdvertTypeOK, Note
<1>4. NoteWanted'
  BY <1>1, <1>3 DEF AInv, NoteWanted
<1>5. ToldWanted'
  BY <1>1, <1>2 DEF AInv, ToldWanted
<1>6. MeshOnly'
  BY DEF AInv, MeshOnly
<1>7. NoteExact'
  BY <1>1, <1>2 DEF AInv, NoteExact
<1>8. ToldExact'
  BY <1>1, <1>2 DEF AInv, ToldExact
<1>9. ToldHighest'
  BY <1>1, <1>2 DEF AInv, ToldHighest
<1> QED
  BY <1>4, <1>5, <1>6, <1>7, <1>8, <1>9 DEF AInv

(* A change of the topic table: by Serial everything has been sent before, *)
(* or the entry keeps its QoS.                                             *)
LEMMA SetStep ==
    ASSUME AInv, AdvertTypeOK', Serial, NEW c \in Client, NEW f \in Filter,
           NEW q \in QoS \cup {None}, Set(c, f, q), note[c] = None,
           UNCHANGED <<mesh, resyncs, advert>>
    PROVE  AInv'
<1>0. AdvertTypeOK /\ c \in Notifier
  BY DEF AInv, Notifier
<1> DEFINE n == Notice(f, Stats(f), Stats(f)')
<1>1. /\ note' = [note EXCEPT ![c] = n]
      /\ \A g \in Filter \ {f} : Having(g)' = Having(g) /\ Stats(g)' = Stats(g)
      /\ Stats(f)' \subseteq QoS
      /\ Stats(f)' = {} <=> Having(f)' = {}
  BY <1>0, SetStats
<1>2. /\ n # None => /\ n.filter = f
                     /\ n.qos = IF Stats(f)' = {} THEN None ELSE Max(Stats(f)')
      /\ n = None => \/ Stats(f)' = {} /\ Stats(f) = {}
                     \/ Stats(f)' # {} /\ Stats(f) # {} /\ Max(Stats(f)') = Max(Stats(f))
      /\ Stats(f) = Stats(f)' => n = None
  BY <1>1, NoticeType
<1> HIDE DEF n
<1>3. Stats(f) = {} <=> Having(f) = {}
  BY <1>0, StatsType
<1>4. Stats(f)' # {} => Max(Stats(f)') # None
  BY <1>1, MaxQoS
<1>5. CASE AllSent
  <2>1. (\A x \in Notifier : note[x] = None) /\ resync = None
    BY <1>5 DEF AllSent
  <2>2. resync' = None
    BY <2>1 DEF Set, PassResync
  <2>3. \A x \in Notifier, g \in Filter :
           Pending(x, g)' <=> x = c /\ g = f /\ n # None
    BY <1>0, <1>1, <1>2, <2>1 DEF Pending, AdvertTypeOK
  <2>4. note'[c] = n
    BY <1>0, <1>1 DEF AdvertTypeOK
  <2>5. \A x \in Notifier : note'[x] # None => x = c
    BY <1>0, <1>1, <2>1 DEF AdvertTypeOK
  <2>6. \A g \in Filter \ {f} : Wanted(g)' <=> Wanted(g)
    BY <1>1 DEF Wanted
  <2>7. BatchWanted'
    BY <2>2 DEF BatchWanted
  <2>8. NoteWanted'
    <3> SUFFICES ASSUME n # None, n.qos # None PROVE Wanted(f)'
      BY <1>2, <2>4, <2>5 DEF NoteWanted
    <3>1. Having(f)' # {}
      BY <1>1, <1>2
    <3> QED
      BY <3>1 DEF Wanted
  <2>9. ToldWanted'
    <3> SUFFICES ASSUME NEW g \in Filter, advert[g] # None, ~Wanted(g)'
                 PROVE  Pending(c, g)' /\ note'[c].qos = None
      BY <1>0 DEF ToldWanted
    <3>1. Wanted(g)
      BY <2>1 DEF AInv, ToldWanted, Pending
    <3>2. g = f
      BY <2>6, <3>1
    <3>3. Having(f)' = {} /\ Having(f) # {}
      BY <3>1, <3>2 DEF Wanted
    <3>4. n # None /\ n.qos = None
      BY <1>1, <1>2, <1>3, <3>3
    <3> QED
      BY <1>0, <2>3, <2>4, <3>2, <3>4
  <2>10. MeshOnly'
    BY DEF AInv, MeshOnly
  <2>11. NoteExact'
    BY <1>1, <1>2, <2>3, <2>4 DEF NoteExact
  <2>12. ToldExact'
    <3> SUFFICES ASSUME NEW g \in Filter \ MeshFilter,
                        \A x \in Notifier : ~Pending(x, g)'
                 PROVE  advert[g] # None <=> Having(g)' # {}
      BY DEF ToldExact
    <3>1. advert[g] # None <=> Having(g) # {}
      BY <2>1 DEF AInv, ToldExact, Pending
    <3>2. g = f => n = None
      BY <1>0, <2>3
    <3>3. Having(g)' # {} <=> Having(g) # {}
      BY <1>1, <1>2, <1>3, <3>2
    <3> QED
      BY <3>1, <3>3
  <2>13. ToldHighest'
    <3> SUFFICES ASSUME resyncs = 0, NEW g \in Filter \ MeshFilter,
                        \A x \in Notifier : ~Pending(x, g)', Having(g)' # {}
                 PROVE  advert[g] = Max(Stats(g)')
      BY <2>2 DEF ToldHighest
    <3>1. Having(g) # {} => advert[g] = Max(Stats(g))
      BY <2>1 DEF AInv, ToldHighest, Pending
    <3>2. g = f => n = None
      BY <1>0, <2>3
    <3>3. CASE g = f
      BY <1>1, <1>2, <1>3, <3>1, <3>2, <3>3
    <3>4. CASE g # f
      BY <1>1, <3>1, <3>4
    <3> QED
      BY <3>3, <3>4
  <2> QED
    BY <2>7, <2>8, <2>9, <2>10, <2>11, <2>12, <2>13 DEF AInv
<1>6. CASE ~AllSent
  <2>1. topic_subs' = topic_subs
    BY <1>6 DEF Serial
  <2>2. Stats(f)' = Stats(f)
    BY <2>1 DEF Stats, Having
  <2>3. note' = note
    BY <1>0, <1>1, <1>2, <2>2 DEF AdvertTypeOK
  <2>4. /\ resync' = None <=> resync = None
        /\ resync # None => resync'.batch = resync.batch
    <3>1. CASE resync = None
      BY <3>1 DEF Set, PassResync
    <3>2. CASE resync # None
      <4>1. resync \in Resync
        BY <1>0, <3>2 DEF AdvertTypeOK
      <4>2. PICK ahead \in {resync.left \ {<<c, f>>}, resync.left \cup {<<c, f>>}} :
               resync' = [resync EXCEPT !.left = ahead]
        BY <3>2 DEF Set, PassResync
      <4>3. ahead \subseteq Client \X Filter
        BY <4>1, <4>2 DEF Resync
      <4>4. resync' \in Resync /\ resync'.batch = resync.batch
        BY <4>1, <4>2, <4>3 DEF Resync
      <4> QED
        BY <3>2, <4>4, NullAssumption
    <3> QED
      BY <3>1, <3>2
  <2>5. BatchWanted'
    BY <2>1, <2>4 DEF AInv, BatchWanted, Having
  <2>6. resyncs' = 0 => resync' = None
    BY <2>4 DEF AInv, ToldHighest
  <2> QED
    BY <2>1, <2>3, <2>5, <2>6, Frame
<1> QED
  BY <1>5, <1>6

(* A subscription of a mesh client, in Serial: everything has been sent    *)
(* before, or the subscription is there already.                           *)
LEMMA MeshSubscribeStep ==
    ASSUME AInv, AdvertTypeOK', Serial, NEW m \in Mesh, NEW f \in MeshFilter, NEW q \in QoS,
           MeshSubscribe(m, f, q)
    PROVE  AInv'
<1>0. AdvertTypeOK /\ Broker \in Notifier /\ f \in Filter /\ q # None
  BY AdvertAssumption DEF AInv, Notifier
<1>1. /\ mesh' = [mesh EXCEPT ![m][f] = q]
      /\ note' = [note EXCEPT ![Broker] = [filter |-> f, qos |-> q]]
      /\ note[Broker] = None
      /\ UNCHANGED <<topic_subs, ending, resync, resyncs, advert>>
  BY DEF MeshSubscribe, BrokerIdle
<1>2. \A k \in Mesh, g \in Filter : mesh'[k][g] = IF k = m /\ g = f THEN q ELSE mesh[k][g]
  BY <1>0, <1>1 DEF AdvertTypeOK
<1>3. \A x \in Notifier : note'[x] = IF x = Broker THEN [filter |-> f, qos |-> q] ELSE note[x]
  BY <1>0, <1>1 DEF AdvertTypeOK
<1>4. \A g \in Filter : Having(g)' = Having(g) /\ Stats(g)' = Stats(g)
  BY <1>1 DEF Having, Stats
<1>5. Wanted(f)' /\ \A g \in Filter : Wanted(g) => Wanted(g)'
  BY <1>0, <1>2, <1>4 DEF Wanted
<1>6. \A x \in Notifier, g \in Filter : Pending(x, g) => Pending(x, g)' /\ note'[x] = note[x]
  BY <1>1, <1>3 DEF Pending
<1>7. \A x \in Notifier, g \in Filter \ MeshFilter :
         Pending(x, g)' => Pending(x, g) /\ note'[x] = note[x]
  BY <1>1, <1>3 DEF Pending
<1>8. BatchWanted'
  BY <1>1, <1>4 DEF AInv, BatchWanted, Having
<1>9. NoteWanted'
  <2> SUFFICES ASSUME NEW x \in Notifier, note'[x] # None, note'[x].qos # None
               PROVE  Wanted(note[x].filter)'
    BY DEF NoteWanted
  <2>1. CASE x = Broker
    BY <1>3, <1>5, <2>1
  <2>2. CASE x # Broker
    <3>1. note'[x] = note[x] /\ note[x] \in Note
      BY <1>0, <1>3, <2>2 DEF AdvertTypeOK
    <3>2. note[x].filter \in Filter /\ Wanted(note[x].filter)
      BY <3>1 DEF AInv, NoteWanted, Note
    <3> QED
      BY <1>5, <3>1, <3>2
  <2> QED
    BY <2>1, <2>2
<1>10. ToldWanted'
  BY <1>1, <1>5, <1>6 DEF AInv, ToldWanted
<1>11. MeshOnly'
  BY <1>2 DEF AInv, MeshOnly
<1>12. NoteExact'
  BY <1>4, <1>7 DEF AInv, NoteExact
<1>13. ToldExact' /\ ToldHighest'
  BY <1>1, <1>4, <1>6 DEF AInv, ToldExact, ToldHighest
<1> QED
  BY <1>8, <1>9, <1>10, <1>11, <1>12, <1>13 DEF AInv

(* The end of a subscription of a mesh client. *)
LEMMA MeshRemoveStep ==
    ASSUME AInv, AdvertTypeOK', Serial, NEW m \in Mesh, NEW f \in Filter, mesh[m][f] # None,
           MeshRemove(m, f), note[Broker] = None, UNCHANGED <<topic_subs, resync, resyncs, advert>>
    PROVE  AInv'
<1>0. AdvertTypeOK /\ Broker \in Notifier /\ f \in MeshFilter
  BY DEF AInv, Notifier, MeshOnly
<1> DEFINE n == IF CanWithdraw(m, f) THEN [filter |-> f, qos |-> None] ELSE None
<1>1. mesh' = [mesh EXCEPT ![m][f] = None] /\ note' = [note EXCEPT ![Broker] = n]
  BY DEF MeshRemove
<1>2. \A k \in Mesh, g \in Filter : mesh'[k][g] = IF k = m /\ g = f THEN None ELSE mesh[k][g]
  BY <1>0, <1>1 DEF AdvertTypeOK
<1>3. \A x \in Notifier : note'[x] = IF x = Broker THEN n ELSE note[x]
  BY <1>0, <1>1 DEF AdvertTypeOK
<1>4. n # None => n.filter = f /\ n.qos = None
  OBVIOUS
<1>5. \A g \in Filter : Having(g)' = Having(g) /\ Stats(g)' = Stats(g)
  BY DEF Having, Stats
<1>6. /\ \A g \in Filter \ {f} : Wanted(g)' <=> Wanted(g)
      /\ Wanted(f)' \/ n # None
  <2>1. \A g \in Filter \ {f} : Wanted(g)' <=> Wanted(g)
    BY <1>2, <1>5 DEF Wanted
  <2>2. CASE CanWithdraw(m, f)
    <3>1. [filter |-> f, qos |-> None] \in Note
      BY DEF Note
    <3> QED
      BY <2>1, <2>2, <3>1, NullAssumption
  <2>3. CASE ~CanWithdraw(m, f)
    BY <1>2, <1>5, <2>1, <2>3 DEF CanWithdraw, Wanted
  <2> QED
    BY <2>2, <2>3
<1> HIDE DEF n
<1>7. mesh' # mesh
  BY <1>2
<1>8. (\A x \in Notifier : note[x] = None) /\ resync = None
  BY <1>7 DEF Serial, AllSent
<1>9. \A x \in Notifier, g \in Filter \ MeshFilter : ~Pending(x, g) /\ ~Pending(x, g)'
  BY <1>0, <1>3, <1>4, <1>8 DEF Pending
<1>10. BatchWanted'
  BY <1>8 DEF BatchWanted
<1>11. NoteWanted'
  BY <1>3, <1>4, <1>8 DEF NoteWanted
<1>12. ToldWanted'
  <2> SUFFICES ASSUME NEW g \in Filter, advert[g] # None, ~Wanted(g)'
               PROVE  Pending(Broker, g)' /\ note'[Broker].qos = None
    BY <1>0 DEF ToldWanted
  <2>1. Wanted(g)
    BY <1>8 DEF AInv, ToldWanted, Pending
  <2>2. g = f /\ n # None
    BY <1>6, <2>1
  <2> QED
    BY <1>0, <1>3, <1>4, <2>2 DEF Pending
<1>13. MeshOnly'
  BY <1>2 DEF AInv, MeshOnly
<1>14. NoteExact'
  BY <1>9 DEF NoteExact
<1>15. ToldExact' /\ ToldHighest'
  BY <1>5, <1>9 DEF AInv, ToldExact, ToldHighest
<1> QED
  BY <1>10, <1>11, <1>12, <1>13, <1>14, <1>15 DEF AInv

(* A notification that is sent. *)
LEMMA NotifyStep ==
    ASSUME AInv, AdvertTypeOK', NEW x \in Notifier, Notify(x)
    PROVE  AInv'
<1> DEFINE f == note[x].filter
<1>0. AdvertTypeOK /\ note[x] \in Note /\ f \in Filter
  BY DEF AInv, AdvertTypeOK, Notify, Note
<1>1. /\ note[x] # None
      /\ advert' = [advert EXCEPT ![f] = note[x].qos]
      /\ note' = [note EXCEPT ![x] = None]
      /\ UNCHANGED <<topic_subs, mesh, ending, resync, resyncs>>
  BY DEF Notify
<1>2. \A g \in Filter : advert'[g] = IF g = f THEN note[x].qos ELSE advert[g]
  BY <1>0, <1>1 DEF AdvertTypeOK
<1>3. \A y \in Notifier : note'[y] = IF y = x THEN None ELSE note[y]
  BY <1>0, <1>1 DEF AdvertTypeOK
<1>4. \A g \in Filter : /\ Having(g)' = Having(g) /\ Stats(g)' = Stats(g)
                        /\ Wanted(g)' <=> Wanted(g)
  BY <1>1 DEF Having, Stats, Wanted
<1>5. /\ Pending(x, f)
      /\ \A y \in Notifier, g \in Filter :
           /\ Pending(y, g)' => Pending(y, g) /\ note'[y] = note[y]
           /\ Pending(y, g) /\ g # f => Pending(y, g)' /\ note'[y] = note[y]
  BY <1>1, <1>3 DEF Pending
<1> HIDE DEF f
<1>6. BatchWanted'
  BY <1>1, <1>4 DEF AInv, BatchWanted, Having
<1>7. NoteWanted'
  <2> SUFFICES ASSUME NEW y \in Notifier, note'[y] # None, note'[y].qos # None
               PROVE  Wanted(note[y].filter)'
    BY DEF NoteWanted
  <2>1. note'[y] = note[y] /\ note[y] \in Note
    BY <1>0, <1>3 DEF AdvertTypeOK
  <2>2. note[y].filter \in Filter /\ Wanted(note[y].filter)
    BY <2>1 DEF AInv, NoteWanted, Note
  <2> QED
    BY <1>4, <2>1, <2>2
<1>8. ToldWanted'
  <2> SUFFICES ASSUME NEW g \in Filter, advert'[g] # None, ~Wanted(g)'
               PROVE  \E y \in Notifier : Pending(y, g)' /\ note'[y].qos = None
    BY DEF ToldWanted
  <2>1. g # f
    <3>1. note[x].qos # None => Wanted(f)
      BY <1>1 DEF AInv, NoteWanted, f
    <3> QED
      BY <1>2, <1>4, <3>1
  <2>2. PICK y \in Notifier : Pending(y, g) /\ note[y].qos = None
    BY <1>2, <1>4, <2>1 DEF AInv, ToldWanted
  <2> QED
    BY <1>5, <2>1, <2>2
<1>9. MeshOnly'
  BY <1>1 DEF AInv, MeshOnly
<1>10. NoteExact'
  BY <1>4, <1>5 DEF AInv, NoteExact
<1>11. f \notin MeshFilter =>
         advert'[f] = IF Having(f) = {} THEN None ELSE Max(Stats(f))
  BY <1>0, <1>2, <1>5 DEF AInv, NoteExact
<1>12. ToldExact'
  <2> SUFFICES ASSUME NEW g \in Filter \ MeshFilter, \A y \in Notifier : ~Pending(y, g)'
               PROVE  advert'[g] # None <=> Having(g)' # {}
    BY DEF ToldExact
  <2>1. CASE g = f
    <3>1. Having(f) # {} => Max(Stats(f)) # None
      BY <1>0, StatsType
    <3> QED
      BY <1>4, <1>11, <2>1, <3>1
  <2>2. CASE g # f
    BY <1>2, <1>4, <1>5, <2>2 DEF AInv, ToldExact
  <2> QED
    BY <2>1, <2>2
<1>13. ToldHighest'
  <2> SUFFICES ASSUME resyncs = 0, NEW g \in Filter \ MeshFilter,
                      \A y \in Notifier : ~Pending(y, g)', Having(g)' # {}
               PROVE  advert'[g] = Max(Stats(g)')
    BY <1>1 DEF AInv, ToldHighest
  <2>1. CASE g = f
    BY <1>4, <1>11, <2>1
  <2>2. CASE g # f
    BY <1>2, <1>4, <1>5, <2>2 DEF AInv, ToldHighest
  <2> QED
    BY <2>1, <2>2
<1> QED
  BY <1>6, <1>7, <1>8, <1>9, <1>10, <1>12, <1>13 DEF AInv

(* What a resync sends is subscribed. *)
LEMMA ResyncSendStep ==
    ASSUME AInv, AdvertTypeOK', ResyncSend
    PROVE  AInv'
<1>0. AdvertTypeOK /\ resync \in Resync /\ resync # None
  BY DEF AInv, AdvertTypeOK, ResyncSend
<1>1. PICK e \in resync.batch : /\ advert' = [advert EXCEPT ![e.filter] = e.qos]
                                /\ resync' = [resync EXCEPT !.batch = @ \ {e}]
  BY DEF ResyncSend
<1>2. UNCHANGED <<topic_subs, mesh, note, ending, resyncs>>
  BY DEF ResyncSend
<1>3. e.filter \in Filter /\ e.qos # None /\ Having(e.filter) # {}
  BY <1>0, <1>1, AdvertAssumption DEF Resync, AInv, BatchWanted
<1>4. \A g \in Filter : advert'[g] = IF g = e.filter THEN e.qos ELSE advert[g]
  BY <1>0, <1>1, <1>3 DEF AdvertTypeOK
<1>5. \A g \in Filter : /\ Having(g)' = Having(g) /\ Stats(g)' = Stats(g)
                        /\ Wanted(g)' <=> Wanted(g)
  BY <1>2 DEF Having, Stats, Wanted
<1>6. \A y \in Notifier, g \in Filter : Pending(y, g)' <=> Pending(y, g)
  BY <1>2 DEF Pending
<1>7. BatchWanted'
  <2>1. resync'.batch \subseteq resync.batch
    BY <1>0, <1>1 DEF Resync
  <2> QED
    BY <1>0, <1>2, <2>1 DEF AInv, BatchWanted, Having
<1>8. NoteWanted'
  <2> SUFFICES ASSUME NEW y \in Notifier, note'[y] # None, note'[y].qos # None
               PROVE  Wanted(note[y].filter)'
    BY DEF NoteWanted
  <2>1. note' = note /\ note[y] \in Note
    BY <1>0, <1>2 DEF AdvertTypeOK
  <2>2. note[y].filter \in Filter /\ Wanted(note[y].filter)
    BY <2>1 DEF AInv, NoteWanted, Note
  <2> QED
    BY <1>5, <2>1, <2>2 DEF Wanted, Having
<1>9. ToldWanted'
  <2> SUFFICES ASSUME NEW g \in Filter, advert'[g] # None, ~Wanted(g)'
               PROVE  \E y \in Notifier : Pending(y, g)' /\ note'[y].qos = None
    BY DEF ToldWanted
  <2>1. g # e.filter
    BY <1>3, <1>5 DEF Wanted
  <2> QED
    BY <1>2, <1>4, <1>5, <1>6, <2>1 DEF AInv, ToldWanted
<1>10. MeshOnly'
  BY <1>2 DEF AInv, MeshOnly
<1>11. NoteExact'
  BY <1>2, <1>5, <1>6 DEF AInv, NoteExact
<1>12. ToldExact'
  BY <1>3, <1>4, <1>5, <1>6 DEF AInv, ToldExact
<1>13. ToldHighest'
  BY <1>0, <1>2 DEF AInv, ToldHighest
<1> QED
  BY <1>7, <1>8, <1>9, <1>10, <1>11, <1>12, <1>13 DEF AInv

----------------------------------------------------------------------------
LEMMA AdvertStep == AInv /\ [AdvertNext /\ Serial]_advertVars => AInv'
<1> SUFFICES ASSUME AInv, [AdvertNext /\ Serial]_advertVars PROVE AInv'
  OBVIOUS
<1>0. AdvertTypeOK'
  BY TypeStep DEF AInv
<1>1. ASSUME NEW c \in Client, UnsubscribeAll(c) PROVE AInv'
  <2>1. UNCHANGED <<topic_subs, mesh, note, resync, resyncs, advert>>
    BY <1>1 DEF UnsubscribeAll
  <2> QED
    BY <1>0, <2>1, Frame DEF AInv, BatchWanted, ToldHighest, Having
<1>2. ASSUME NEW c \in Client, UnsubscribeNext(c), Serial PROVE AInv'
  <2>1. CASE \E f \in Filter : topic_subs[c][f] # None
    <3>1. PICK f \in Filter : Set(c, f, None)
      BY <1>2, <2>1 DEF UnsubscribeNext
    <3>2. note[c] = None /\ UNCHANGED <<mesh, resyncs, advert>>
      BY <1>2 DEF UnsubscribeNext
    <3> QED
      BY <1>0, <1>2, <3>1, <3>2, SetStep
  <2>2. CASE ~\E f \in Filter : topic_subs[c][f] # None
    <3>1. UNCHANGED <<topic_subs, mesh, note, resync, resyncs, advert>>
      BY <1>2, <2>2 DEF UnsubscribeNext
    <3> QED
      BY <1>0, <3>1, Frame DEF AInv, BatchWanted, ToldHighest, Having
  <2> QED
    BY <2>1, <2>2
<1>3. ASSUME NEW c \in Client, NEW f \in Filter, Unsubscribe(c, f), Serial PROVE AInv'
  <2>1. Set(c, f, None) /\ note[c] = None /\ UNCHANGED <<mesh, resyncs, advert>>
    BY <1>3 DEF Unsubscribe
  <2> QED
    BY <1>0, <1>3, <2>1, SetStep
<1>4. ASSUME NEW c \in Client, NEW f \in Filter, NEW q \in QoS, Subscribe(c, f, q), Serial
      PROVE  AInv'
  <2>1. Set(c, f, q) /\ note[c] = None /\ UNCHANGED <<mesh, resyncs, advert>>
    BY <1>4 DEF Subscribe
  <2> QED
    BY <1>0, <1>4, <2>1, SetStep
<1>5. ASSUME NEW m \in Mesh, MeshClose(m) PROVE AInv'
  <2>1. UNCHANGED <<topic_subs, mesh, note, resync, resyncs, advert>>
    BY <1>5 DEF MeshClose
  <2> QED
    BY <1>0, <2>1, Frame DEF AInv, BatchWanted, ToldHighest, Having
<1>6. ASSUME NEW m \in Mesh, MeshCloseNext(m), Serial PROVE AInv'
  <2>1. CASE \E f \in Filter : mesh[m][f] # None
    <3>1. PICK f \in Filter : mesh[m][f] # None /\ MeshRemove(m, f)
      BY <1>6, <2>1 DEF MeshCloseNext
    <3>2. note[Broker] = None /\ UNCHANGED <<topic_subs, resync, resyncs, advert>>
      BY <1>6 DEF MeshCloseNext
    <3> QED
      BY <1>0, <1>6, <3>1, <3>2, MeshRemoveStep
  <2>2. CASE ~\E f \in Filter : mesh[m][f] # None
    <3>1. UNCHANGED <<topic_subs, mesh, note, resync, resyncs, advert>>
      BY <1>6, <2>2 DEF MeshCloseNext
    <3> QED
      BY <1>0, <3>1, Frame DEF AInv, BatchWanted, ToldHighest, Having
  <2> QED
    BY <2>1, <2>2
<1>7. ASSUME NEW m \in Mesh, NEW f \in MeshFilter, MeshUnsubscribe(m, f), Serial PROVE AInv'
  <2>1. /\ MeshRemove(m, f) /\ mesh[m][f] # None /\ note[Broker] = None
        /\ UNCHANGED <<topic_subs, resync, resyncs, advert>>
    BY <1>7 DEF MeshUnsubscribe, BrokerIdle
  <2>2. f \in Filter
    BY AdvertAssumption
  <2> QED
    BY <1>0, <1>7, <2>1, <2>2, MeshRemoveStep
<1>8. ASSUME NEW x \in Notifier, Notify(x) PROVE AInv'
  BY <1>0, <1>8, NotifyStep
<1>9. ASSUME ResyncStart PROVE AInv'
  <2>1. UNCHANGED <<topic_subs, mesh, note, advert>> /\ resyncs' = resyncs + 1
    BY <1>9 DEF ResyncStart
  <2>2. resyncs' # 0
    BY <2>1 DEF AInv, AdvertTypeOK
  <2>3. BatchWanted'
    BY <1>9 DEF ResyncStart, BatchWanted
  <2> QED
    BY <1>0, <2>1, <2>2, <2>3, Frame
<1>10. ASSUME ResyncSnapshot PROVE AInv'
  <2>1. UNCHANGED <<topic_subs, mesh, note, resyncs, advert>> /\ resync # None
    BY <1>10 DEF ResyncSnapshot
  <2>2. resyncs' # 0
    BY <2>1 DEF AInv, ToldHighest
  <2>3. BatchWanted'
    <3>1. CASE resync.left = {} \/ ~resync.more
      BY <1>10, <3>1 DEF ResyncSnapshot, BatchWanted
    <3>2. CASE ~(resync.left = {} \/ ~resync.more)
      <4> DEFINE B(taken) == {[client |-> e[1], filter |-> e[2],
                             qos |-> topic_subs[e[1]][e[2]]] : e \in taken}
      <4>1. PICK taken \in SUBSET resync.left :
               resync' = [left |-> resync.left \ taken,
                          more |-> Cardinality(taken) = BATCH, batch |-> B(taken)]
        BY <1>10, <3>2 DEF ResyncSnapshot
      <4>2. taken \subseteq Entries
        BY <2>1 DEF AInv, AdvertTypeOK
      <4>3. \A e \in B(taken) : Having(e.filter) # {}
        BY <4>2 DEF Entries, Having
      <4> QED
        BY <2>1, <4>1, <4>3 DEF BatchWanted, Having
    <3> QED
      BY <3>1, <3>2
  <2> QED
    BY <1>0, <2>1, <2>2, <2>3, Frame
<1>11. ASSUME ResyncSend PROVE AInv'
  BY <1>0, <1>11, ResyncSendStep
<1>12. CASE UNCHANGED advertVars
  <2>1. UNCHANGED <<topic_subs, mesh, note, resync, resyncs, advert>>
    BY <1>12 DEF advertVars
  <2> QED
    BY <1>0, <2>1, Frame DEF AInv, BatchWanted, ToldHighest, Having
<1>13. ASSUME NEW m \in Mesh, NEW f \in MeshFilter, NEW q \in QoS, MeshSubscribe(m, f, q),
              Serial
       PROVE  AInv'
  BY <1>0, <1>13, MeshSubscribeStep
<1> QED
  BY <1>1, <1>2, <1>3, <1>4, <1>5, <1>6, <1>7, <1>8, <1>9, <1>10, <1>11, <1>12, <1>13
     DEF AdvertNext

LEMMA AdvertInvariant == SerialSpec => []AInv
<1> QED
  BY AdvertStart, AdvertStep, PTL DEF SerialSpec

(* No filter stays announced once its last subscriber is gone: topic.c and *)
(* the mesh ingress of broker.c withdraw it when the other table has no    *)
(* subscription to it either.                                              *)
THEOREM NothingStale == SerialSpec => []NoStaleAdvert
<1>1. AInv => NoStaleAdvert
  BY DEF AInv, ToldWanted, NoStaleAdvert, AllSent, Pending
<1> QED
  BY <1>1, AdvertInvariant, PTL

(* The peers know exactly the filters that have subscribers, for filters   *)
(* that mesh clients do not use: a changed maximum, a first and a last     *)
(* subscription are told, by topic.c, and a resync adds nothing else.      *)
THEOREM AdvertsExact == SerialSpec => []AdvertExact
<1>1. ASSUME AInv, AllSent, NEW f \in Filter \ MeshFilter
      PROVE  advert[f] # None <=> Wanted(f)
  BY <1>1 DEF AInv, ToldExact, MeshOnly, AllSent, Pending, Wanted
<1>2. AInv => AdvertExact
  BY <1>1 DEF AdvertExact
<1> QED
  BY <1>2, AdvertInvariant, PTL

(* The QoS the peers know is the highest of the subscriptions, until a     *)
(* resync announces each entry with its own.                               *)
THEOREM HighestTold == SerialSpec => []AdvertHighest
<1>1. AInv => AdvertHighest
  BY DEF AInv, ToldHighest, AdvertHighest, AllSent, Pending
<1> QED
  BY <1>1, AdvertInvariant, PTL
=============================================================================
