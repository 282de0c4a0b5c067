------------------------ MODULE ClientSession_proofs ------------------------
(***************************************************************************)
(* Safety of ClientSession, for every size of the pool and of the tables   *)
(* and for every set of inputs.                                            *)
(*                                                                         *)
(* The invariants are proved together.  TypeOK needs to know what a thread *)
(* holds at each label (LocalsOK); that a thread that starts in a slot     *)
(* finds clean locals needs ThreadOwnsSlot, because client_alloc looks at  *)
(* the state of the slot only.                                             *)
(***************************************************************************)
EXTENDS ClientSession, TableScan_proofs, TLAPS, FiniteSetTheorems,
        SequenceTheorems

(* What the thread of a slot holds where it is.  *)
LocalsOK ==
    \A c \in Slot :
        /\ pc[c] \in {"takeover", "identify", "session"} => conn[c] \in Conn
        /\ pc[c] \in {"restore", "online", "drain", "save", "inflights"}
             => sess[c] \in Session
        /\ pc[c] = "drain" => idx[c] \in QueueIdx
        /\ pc[c] = "will" => has_will[c] \in Will
        /\ pc[c] = "send" => /\ pub[c].msg \in Msg
                             /\ pub[c].ret \in {"loop", "persist", "unsub"}
        /\ put[c] # None =>
             \/ pc[c] = "send" /\ put[c].at \in InflightIdx
             \/ pc[c] = "inflights" /\ put[c].at \in QueueIdx

(* The inductive invariant of the threads and tables. *)
IInv == TypeOK /\ LocalsOK /\ ThreadOwnsSlot /\ SubsHaveThread /\ SessionKeysUnique

----------------------------------------------------------------------------
(* Searches of fixed tables. *)

(* Index sets are sets of naturals. *)
LEMMA IndexSets ==
    /\ Slot \subseteq Nat /\ Session = Slot
    /\ QueueIdx \subseteq Nat /\ InflightIdx \subseteq Nat
    /\ None \notin Slot
  BY SizesAssumption, NamesAssumption
     DEF Slot, Session, QueueIdx, InflightIdx

(* client_alloc claims a slot that is FREE. *)
LEMMA FreeSlotFree ==
    ASSUME FreeSlot # None
    PROVE  FreeSlot \in Slot /\ state[FreeSlot] = "FREE"
<1> DEFINE I == {c \in Slot : state[c] = "FREE"}
<1>1. I \subseteq Nat
  BY IndexSets
<1>2. I # {}
  BY FirstEmpty DEF FreeSlot
<1>3. FreeSlot \in I
  BY <1>1, <1>2, FirstFound DEF FreeSlot
<1> QED
  BY <1>3

(* client_inflight_store finds an index of the inflight table. *)
LEMMA InflightFreeType ==
    ASSUME NEW c, InflightFree(c) # None
    PROVE  InflightFree(c) \in InflightIdx
<1> DEFINE I == {i \in InflightIdx : inflight[c][i] = None}
<1>1. First(I) \in InflightIdx \cup {None}
  BY IndexSets, FirstType
<1> QED
  BY <1>1 DEF InflightFree

(* client_inflight_ack finds an index of the inflight table. *)
LEMMA InflightFindType ==
    ASSUME NEW c, NEW pid, InflightFind(c, pid) # None
    PROVE  InflightFind(c, pid) \in InflightIdx
<1> DEFINE I == {i \in InflightIdx : inflight[c][i] # None /\ inflight[c][i].pid = pid}
<1>1. First(I) \in InflightIdx \cup {None}
  BY IndexSets, FirstType
<1> QED
  BY <1>1 DEF InflightFind

(* session_enqueue finds an index of the session's queue. *)
LEMMA QueueFreeType ==
    ASSUME NEW s, QueueFree(s) # None
    PROVE  QueueFree(s) \in QueueIdx
<1> DEFINE I == {i \in QueueIdx : s.queue[i] = None}
<1>1. First(I) \in QueueIdx \cup {None}
  BY IndexSets, FirstType
<1> QED
  BY <1>1 DEF QueueFree

(* session_find returns the session of the identifier, if there is one. *)
LEMMA SessionFindSpec ==
    ASSUME NEW id
    PROVE  /\ SessionFind(id) # None =>
                /\ SessionFind(id) \in Session
                /\ sessions[SessionFind(id)].in_use
                /\ sessions[SessionFind(id)].client_id = id
           /\ SessionFind(id) = None =>
                \A i \in Session : ~(sessions[i].in_use /\ sessions[i].client_id = id)
<1> DEFINE I == {i \in Session : sessions[i].in_use /\ sessions[i].client_id = id}
<1>1. I \subseteq Nat
  BY IndexSets
<1>2. I # {} => First(I) \in I
  BY <1>1, FirstFound
<1>3. I = {} => First(I) = None
  BY FirstEmpty
<1>4. I # {} => First(I) # None
  BY <1>2, IndexSets
<1>5. SessionFind(id) = First(I)
  BY DEF SessionFind
<1> QED
  BY <1>2, <1>3, <1>4, <1>5

(* session_find_or_create returns a session, or NULL; a session that it    *)
(* creates takes a free entry.                                             *)
LEMMA SessionSlotSpec ==
    ASSUME NEW id, SessionSlot(id) # None
    PROVE  /\ SessionSlot(id) \in Session
           /\ SessionFind(id) = None => ~sessions[SessionSlot(id)].in_use
<1> DEFINE I == {i \in Session : ~sessions[i].in_use}
<1>1. I \subseteq Nat
  BY IndexSets
<1>2. I # {} => First(I) \in I
  BY <1>1, FirstFound
<1>3. I = {} => First(I) = None
  BY FirstEmpty
<1>4. CASE SessionFind(id) # None
  BY <1>4, SessionFindSpec DEF SessionSlot
<1>5. CASE SessionFind(id) = None
  BY <1>5, <1>2, <1>3 DEF SessionSlot
<1> QED
  BY <1>4, <1>5

----------------------------------------------------------------------------
(* Types of what the operators build. *)

(* An allocated identifier is never 0 and never above PID_MAX. *)
LEMMA NextPidType ==
    ASSUME NEW n \in 0 .. PID_MAX
    PROVE  NextPid(n) \in 1 .. PID_MAX
  BY SizesAssumption DEF NextPid

(* session_init and session_create write a well-formed session. *)
LEMMA EmptySessionType ==
    ASSUME NEW b \in BOOLEAN, NEW id \in ClientId \cup {NoId}
    PROVE  EmptySession(b, id) \in SessionRec
<1>1. <<>> \in Seq(Saved)
  OBVIOUS
<1>2. 0 \in 0 .. PID_MAX
  BY SizesAssumption
<1> QED
  BY <1>1, <1>2 DEF EmptySession, SessionRec

(* session_find_or_create and session_delete keep the table well formed. *)
LEMMA SessionTableType ==
    ASSUME NEW id \in ClientId \cup {NoId}, sessions \in [Session -> SessionRec]
    PROVE  /\ SessionFindOrCreate(id) \in [Session -> SessionRec]
           /\ SessionDelete(id) \in [Session -> SessionRec]
<1>1. SessionFindOrCreate(id) \in [Session -> SessionRec]
  BY EmptySessionType, SessionSlotSpec DEF SessionFindOrCreate
<1>2. SessionDelete(id) \in [Session -> SessionRec]
  BY DEF SessionDelete, SessionRec
<1> QED
  BY <1>1, <1>2

(* A message queued for an offline session gets an identifier in range. *)
LEMMA QueuedType ==
    ASSUME NEW s \in SessionRec, NEW m \in Msg
    PROVE  Queued(s, m) \in SessionRec
<1>1. QueuePid(s) \in 1 .. PID_MAX
  BY SizesAssumption DEF QueuePid, SessionRec
<1>2. (QueuePid(s) + 1) % (PID_MAX + 1) \in 0 .. PID_MAX
  BY <1>1, SizesAssumption
<1>3. [pid |-> QueuePid(s), msg |-> m] \in Entry
  BY <1>1 DEF Entry
<1> QED
  BY <1>2, <1>3 DEF Queued, SessionRec

(* topic_subscribe keeps the subscription table well formed. *)
LEMMA TopicSubscribeType ==
    ASSUME subs \in SUBSET [client : Slot, filter : Filter, qos : QoS],
           IsFiniteSet(subs),
           NEW c \in Slot, NEW f \in Filter, NEW q \in QoS
    PROVE  /\ TopicSubscribe(c, f, q) \in SUBSET [client : Slot, filter : Filter, qos : QoS]
           /\ IsFiniteSet(TopicSubscribe(c, f, q))
<1> DEFINE same == {s \in subs : s.client = c /\ s.filter = f}
           new  == [client |-> c, filter |-> f, qos |-> q]
<1>1. IsFiniteSet(subs \ same)
  BY FS_Difference
<1>2. IsFiniteSet((subs \ same) \cup {new})
  BY <1>1, FS_AddElement
<1> QED
  BY <1>2 DEF TopicSubscribe

(* topic_get_client_subs returns a list of subscriptions. *)
LEMMA ClientSubsType ==
    ASSUME subs \in SUBSET [client : Slot, filter : Filter, qos : QoS],
           IsFiniteSet(subs), NEW c \in Slot, NEW saved \in ClientSubs(c)
    PROVE  saved \in Seq(Saved)
<1> DEFINE own  == {t \in subs : t.client = c}
           mine == {[filter |-> s.filter, qos |-> s.qos] : s \in own}
           n    == Lesser(Cardinality(mine), SESSION_SUB_MAX)
           g    == [s \in own |-> [filter |-> s.filter, qos |-> s.qos]]
<1>1. IsFiniteSet(own)
  BY FS_Subset
<1>2. IsFiniteSet(mine)
  <2>1. g \in Surjection(own, mine)
    BY DEF Surjection
  <2> QED
    BY <1>1, <2>1, FS_Surjection
<1>3. n \in Nat
  BY <1>2, FS_CardinalityType, SizesAssumption DEF Lesser
<1>4. mine \subseteq Saved
  BY DEF Saved
<1>5. saved \in [1 .. n -> mine]
  BY DEF ClientSubs
<1>6. saved \in [1 .. n -> Saved]
  BY <1>4, <1>5
<1>7. \A k \in 1 .. n : saved[k] \in Saved
  BY <1>6
<1>8. saved = [k \in 1 .. n |-> saved[k]]
  BY <1>5
<1> HIDE DEF n
<1> QED
  BY <1>3, <1>7, <1>8, IsASeq

(* The fan-out keeps identifiers in range and names clients of the pool. *)
LEMMA FanoutType ==
    ASSUME TypeOK, NEW c \in Slot, NEW m \in Msg,
           NEW ret \in {"loop", "persist", "unsub"}, Fanout(c, m, ret)
    PROVE  /\ pub' \in [Slot -> [msg : Msg \cup {None}, targets : SUBSET Target,
                                 ret : {"none", "loop", "persist", "unsub"}]]
           /\ pub'[c].msg = m /\ pub'[c].ret = ret
           /\ \A d \in Slot : d # c => pub'[d] = pub[d]
           /\ next_packet_id' \in [Slot -> 0 .. PID_MAX]
<1> DEFINE hit == Matching(m.topic)
           dom == {s.client : s \in hit}
<1>1. PICK pick \in [dom -> hit] :
        LET qos(d) == Lesser(m.qos, pick[d].qos)
            pid(d) == IF qos(d) = 0 THEN 0 ELSE NextPid(next_packet_id[d])
        IN /\ pub' = [pub EXCEPT ![c] =
                        [msg |-> m, ret |-> ret,
                         targets |-> {[client |-> d, qos |-> qos(d), pid |-> pid(d)] :
                                        d \in DOMAIN pick}]]
           /\ next_packet_id' =
                [d \in Slot |-> IF d \in DOMAIN pick /\ qos(d) > 0
                                THEN pid(d) ELSE next_packet_id[d]]
  BY DEF Fanout
<1> DEFINE q(d) == Lesser(m.qos, pick[d].qos)
           i(d) == IF q(d) = 0 THEN 0 ELSE NextPid(next_packet_id[d])
           tgt == {[client |-> d, qos |-> q(d), pid |-> i(d)] : d \in dom}
<1>a. hit \subseteq [client : Slot, filter : Filter, qos : QoS]
  BY DEF TypeOK, Matching
<1>b. next_packet_id \in [Slot -> 0 .. PID_MAX]
  BY DEF TypeOK
<1>c. m.qos \in {0, 1} /\ PID_MAX \in Nat
  BY SizesAssumption DEF Msg, QoS
<1>2. dom \subseteq Slot /\ DOMAIN pick = dom
  BY <1>a
<1>3. \A d \in dom : q(d) \in QoS
  <2> TAKE d \in dom
  <2>1. pick[d] \in hit
    OBVIOUS
  <2>2. pick[d].qos \in {0, 1}
    BY <1>a, <2>1 DEF QoS
  <2> QED
    BY <1>c, <2>2 DEF Lesser, QoS
<1>4. \A d \in dom : NextPid(next_packet_id[d]) \in 1 .. PID_MAX
  BY <1>2, <1>b, NextPidType
<1>5. \A d \in dom : i(d) \in 0 .. PID_MAX
  BY <1>4, <1>c
<1>6. tgt \subseteq Target
  <2> SUFFICES ASSUME NEW d \in dom
               PROVE  [client |-> d, qos |-> q(d), pid |-> i(d)] \in Target
    OBVIOUS
  <2>1. q(d) > 0 => i(d) > 0
    BY <1>3, <1>4, <1>c
  <2> QED
    BY <1>2, <1>3, <1>5, <2>1 DEF Target
<1>7. pub' = [pub EXCEPT ![c] = [msg |-> m, ret |-> ret, targets |-> tgt]]
  BY <1>1, <1>2
<1>8. next_packet_id' = [d \in Slot |-> IF d \in dom /\ q(d) > 0
                                        THEN i(d) ELSE next_packet_id[d]]
  BY <1>1, <1>2
<1>9. next_packet_id' \in [Slot -> 0 .. PID_MAX]
  BY <1>5, <1>8, <1>b
<1> HIDE DEF tgt
<1> QED
  BY <1>6, <1>7, <1>9 DEF TypeOK

(* client_send changes at most the state of its slot, to DISCONNECTING. *)
LEMMA ClientSendState ==
    ASSUME TypeOK, NEW c \in Slot, NEW P, ClientSend(c, P)
    PROVE  /\ state' \in [Slot -> {"FREE", "CONNECTED", "DISCONNECTING"}]
           /\ \A d \in Slot : state'[d] = state[d] \/ state'[d] = "DISCONNECTING"
  BY DEF TypeOK, ClientSend, Fails

----------------------------------------------------------------------------
(* Every step preserves the invariants. *)

(* The steps of the specification, one by one. *)
LEMMA TypeStep ==
    ASSUME TypeOK, LocalsOK, Next
    PROVE  TypeOK'
<1>1. CASE Accept
  BY <1>1, FreeSlotFree, SizesAssumption DEF Accept, Label, TypeOK, poolVars, threadVars,
       bindVars, histVars, Goto
<1>2. CASE AcceptFail
  BY <1>2, FreeSlotFree, SizesAssumption DEF AcceptFail, TypeOK, poolVars, threadVars,
       bindVars, histVars, Goto
<1>3. ASSUME NEW c \in Slot, PeerGone(c) \/ Thread(c)
      PROVE  TypeOK'
  <2>1. CASE FirstBad(c)
    BY <1>3, <2>1
       DEF FirstBad, Label, TypeOK, poolVars, threadVars, bindVars, histVars, Goto
  <2>2. CASE RejectConnect(c)
    BY <1>3, <2>2
       DEF RejectConnect, Label, Fails, TypeOK, poolVars, threadVars, bindVars, histVars, Goto
  <2>3. CASE \E k \in Connects : ParseConnect(c, k)
    BY <1>3, <2>3, InputsAssumption
       DEF ParseConnect, Label, TypeOK, poolVars, threadVars, bindVars, histVars, Goto
  <2>4. CASE Takeover(c)
    BY <1>3, <2>4
       DEF Takeover, Label, TypeOK, poolVars, threadVars, bindVars, histVars, Goto
  <2>5. CASE Identify(c)
    BY <1>3, <2>5
       DEF Identify, Label, LocalsOK, Conn, TypeOK, poolVars, threadVars, bindVars, histVars, Goto
  <2>6. CASE OpenSession(c)
    <3>1. conn[c].id \in ClientId \cup {NoId}
      BY <1>3, <2>6 DEF OpenSession, LocalsOK, Conn
    <3>2. sessions' \in [Session -> SessionRec]
      BY <2>6, <3>1, SessionTableType DEF OpenSession, TypeOK
    <3>3. state' \in [Slot -> {"FREE", "CONNECTED", "DISCONNECTING"}]
      BY <1>3, <2>6, ClientSendState DEF OpenSession
    <3>4. sess' \in [Slot -> Session \cup {None}]
      <4>1. SessionFind(conn[c].id) \in Session \cup {None}
        BY SessionFindSpec
      <4>2. \/ sess' = [sess EXCEPT ![c] = None]
            \/ sess' = [sess EXCEPT ![c] = SessionFind(conn[c].id)]
        BY <2>6 DEF OpenSession
      <4>3. sess \in [Slot -> Session \cup {None}]
        BY DEF TypeOK
      <4> QED
        BY <4>1, <4>2, <4>3
    <3>5. idx' \in [Slot -> Nat] /\ pc' \in [Slot -> Label]
      BY <1>3, <2>6 DEF OpenSession, Goto, Label, TypeOK
    <3>6. UNCHANGED <<sock, bindVars, next_packet_id, inflight, conn, pub, put, subs, npub>>
      BY <2>6 DEF OpenSession
    <3> QED
      BY <3>2, <3>3, <3>4, <3>5, <3>6 DEF TypeOK, bindVars
  <2>7. CASE RestoreSub(c)
    <3> DEFINE saved == sessions[sess[c]].subs
    <3>1. saved \in Seq(Saved)
      BY <1>3, <2>7 DEF RestoreSub, LocalsOK, TypeOK, SessionRec
    <3>2. idx[c] \in Nat /\ Len(saved) \in Nat /\ idx[c] < Len(saved)
      BY <1>3, <2>7, <3>1, LenProperties DEF RestoreSub, TypeOK
    <3>3. idx[c] + 1 \in 1 .. Len(saved)
      BY <3>2
    <3>4. saved[idx[c] + 1] \in Saved
      BY <3>1, <3>3, ElementOfSeq
    <3>5. saved[idx[c] + 1].filter \in Filter /\ saved[idx[c] + 1].qos \in QoS
      BY <3>4 DEF Saved
    <3>6. subs' = TopicSubscribe(c, saved[idx[c] + 1].filter, saved[idx[c] + 1].qos)
      BY <2>7 DEF RestoreSub
    <3>7. /\ subs' \in SUBSET [client : Slot, filter : Filter, qos : QoS]
          /\ IsFiniteSet(subs')
      BY <1>3, <3>5, <3>6, TopicSubscribeType DEF TypeOK
    <3>8. idx' \in [Slot -> Nat]
      BY <1>3, <2>7 DEF RestoreSub, TypeOK
    <3>9. UNCHANGED <<poolVars, pc, conn, sess, pub, put, sessions, npub>>
      BY <2>7 DEF RestoreSub, histVars
    <3> QED
      BY <3>7, <3>8, <3>9 DEF TypeOK, poolVars, bindVars
  <2>8. CASE RestoreEnd(c)
    BY <1>3, <2>8
       DEF RestoreEnd, Label, TypeOK, poolVars, threadVars, bindVars, histVars, Goto
  <2>9. CASE Online(c)
    <3>1. sess[c] \in Session
      BY <1>3, <2>9 DEF Online, LocalsOK
    <3>2. sessions' = [sessions EXCEPT ![sess[c]] =
                         [sessions[sess[c]] EXCEPT !.offline = FALSE]]
      BY <2>9, <3>1 DEF Online
    <3>3. [sessions[sess[c]] EXCEPT !.offline = FALSE] \in SessionRec
      <4>1. sessions[sess[c]] \in SessionRec
        BY <3>1 DEF TypeOK
      <4> QED
        BY <4>1 DEF SessionRec
    <3>4. sessions' \in [Session -> SessionRec]
      BY <3>2, <3>3 DEF TypeOK
    <3> QED
      BY <2>9, <3>4 DEF Online, Label, TypeOK, poolVars, threadVars, bindVars, histVars, Goto
  <2>10. CASE Drain(c)
    <3> DEFINE s == sess[c]
               e == sessions[s].queue[idx[c]]
    <3>1. s \in Session /\ idx[c] \in QueueIdx
      BY <1>3, <2>10 DEF Drain, LocalsOK
    <3>2. sessions[s] \in SessionRec /\ e \in Entry \cup {None}
      BY <3>1 DEF TypeOK, SessionRec
    <3>3. [sessions[s] EXCEPT !.queue[idx[c]] = None] \in SessionRec
      BY <3>1, <3>2 DEF SessionRec
    <3>4. sessions' \in [Session -> SessionRec]
      BY <2>10, <3>1, <3>3 DEF Drain, TypeOK
    <3>5. inflight' \in [Slot -> [InflightIdx -> Entry \cup {None}]]
      <4>1. CASE UNCHANGED inflight
        BY <4>1 DEF TypeOK
      <4>2. CASE e # None /\ InflightFree(c) # None
        <5>1. InflightFree(c) \in InflightIdx
          BY <4>2, InflightFreeType
        <5>2. inflight' = [inflight EXCEPT ![c][InflightFree(c)] = e]
          BY <2>10, <4>2 DEF Drain
        <5> QED
          BY <1>3, <3>2, <5>1, <5>2 DEF TypeOK
      <4> QED
        BY <2>10, <4>1, <4>2 DEF Drain
    <3>6. state' \in [Slot -> {"FREE", "CONNECTED", "DISCONNECTING"}]
      <4>1. CASE e = None
        BY <2>10, <4>1 DEF Drain, TypeOK
      <4>2. CASE e # None
        BY <1>3, <2>10, <4>2, ClientSendState DEF Drain
      <4> QED
        BY <4>1, <4>2
    <3>7. /\ UNCHANGED <<sock, bindVars, next_packet_id, conn, sess, pub, put, subs, npub>>
          /\ idx' = [idx EXCEPT ![c] = @ + 1]
          /\ pc' = [pc EXCEPT ![c] = "loop"] \/ pc' = [pc EXCEPT ![c] = "drain"]
      BY <2>10 DEF Drain, Goto
    <3>8. pc' \in [Slot -> Label]
      <4>1. pc \in [Slot -> Label] /\ "loop" \in Label /\ "drain" \in Label
        BY DEF TypeOK, Label
      <4> QED
        BY <3>7, <4>1
    <3>9. idx' \in [Slot -> Nat]
      BY <3>7 DEF TypeOK
    <3> QED
      BY <3>4, <3>5, <3>6, <3>7, <3>8, <3>9 DEF TypeOK, bindVars
  <2>11. CASE SendOne(c)
    <3>1. PICK t \in pub[c].targets :
            /\ pc[c] = "send"
            /\ ClientSend(t.client, IF t.qos = 0 THEN {}
                                   ELSE {[pid |-> t.pid, n |-> pub[c].msg.n]})
            /\ pub' = [pub EXCEPT ![c].targets = @ \ {t}]
            /\ IF t.qos > 0 /\ InflightFree(t.client) # None
               THEN put' = [put EXCEPT ![c] =
                              [to |-> t.client, at |-> InflightFree(t.client),
                               e |-> [pid |-> t.pid, msg |-> pub[c].msg]]]
               ELSE UNCHANGED put
            /\ UNCHANGED <<sock, bindVars, next_packet_id, inflight, pc, conn,
                           sess, idx, subs, sessions, npub>>
      BY <2>11 DEF SendOne
    <3>2. t \in Target /\ pub[c].msg \in Msg
      BY <1>3, <3>1 DEF TypeOK, LocalsOK
    <3>3. state' \in [Slot -> {"FREE", "CONNECTED", "DISCONNECTING"}]
      BY <3>1, <3>2, ClientSendState DEF Target
    <3>4. pub' \in [Slot -> [msg : Msg \cup {None}, targets : SUBSET Target,
                             ret : {"none", "loop", "persist", "unsub"}]]
      <4> DEFINE Pub == [msg : Msg \cup {None}, targets : SUBSET Target,
                         ret : {"none", "loop", "persist", "unsub"}]
                 r == [pub[c] EXCEPT !.targets = pub[c].targets \ {t}]
      <4>1. pub \in [Slot -> Pub] /\ pub' = [pub EXCEPT ![c] = r]
        BY <3>1 DEF TypeOK
      <4>2. r \in Pub
        BY <1>3, <4>1
      <4> HIDE DEF r, Pub
      <4>3. pub' \in [Slot -> Pub]
        BY <4>1, <4>2
      <4> QED
        BY <4>3 DEF Pub
    <3>5. put' \in [Slot -> Found \cup {None}]
      <4>1. CASE t.qos > 0 /\ InflightFree(t.client) # None
        <5>1. [pid |-> t.pid, msg |-> pub[c].msg] \in Entry
          BY <3>2, <4>1, SizesAssumption DEF Entry, Target
        <5>2. InflightFree(t.client) \in Nat
          BY <4>1, InflightFreeType, IndexSets
        <5> DEFINE r == [to |-> t.client, at |-> InflightFree(t.client),
                         e |-> [pid |-> t.pid, msg |-> pub[c].msg]]
        <5>3. r \in Found
          BY <3>2, <5>1, <5>2 DEF Target, Found
        <5>4. put' = [put EXCEPT ![c] = r]
          BY <3>1, <4>1
        <5> HIDE DEF r
        <5> QED
          BY <1>3, <5>3, <5>4 DEF TypeOK
      <4>2. CASE ~(t.qos > 0 /\ InflightFree(t.client) # None)
        BY <3>1, <4>2 DEF TypeOK
      <4> QED
        BY <4>1, <4>2
    <3> QED
      BY <3>1, <3>3, <3>4, <3>5 DEF TypeOK, bindVars
  <2>12. CASE StoreOne(c)
    BY <1>3, <2>12
       DEF StoreOne, LocalsOK, Found, TypeOK, poolVars, threadVars, bindVars, histVars, Goto
  <2>13. CASE OfflinePublish(c)
    BY <1>3, <2>13, QueuedType, ClientSendState
       DEF OfflinePublish, LocalsOK, NoPub, Label, TypeOK, poolVars, threadVars, bindVars, histVars, Goto
  <2>14. CASE FreeClose(c)
    BY <1>3, <2>14
       DEF FreeClose, Label, AfterWill, TypeOK, poolVars, threadVars, bindVars, histVars, Goto
  <2>15. CASE PublishWill(c)
    <3> DEFINE m == [n |-> npub + 1, topic |-> has_will[c].topic, qos |-> has_will[c].qos]
    <3>1. m \in Msg /\ npub + 1 \in Nat
      BY <1>3, <2>15 DEF PublishWill, LocalsOK, TypeOK, Will, Msg, MsgNo
    <3>2. AfterWill(c) \in {"persist", "unsub"}
      BY DEF AfterWill
    <3>3. Fanout(c, m, AfterWill(c))
      BY <2>15 DEF PublishWill
    <3>4. /\ pub' \in [Slot -> [msg : Msg \cup {None}, targets : SUBSET Target,
                                ret : {"none", "loop", "persist", "unsub"}]]
          /\ next_packet_id' \in [Slot -> 0 .. PID_MAX]
      BY <1>3, <3>1, <3>2, <3>3, FanoutType
    <3> HIDE DEF m
    <3> QED
      BY <2>15, <3>1, <3>4 DEF PublishWill, Label, TypeOK, poolVars, threadVars, bindVars,
           histVars, Goto
  <2>16. CASE Persist(c)
    BY <1>3, <2>16, SessionTableType, SessionSlotSpec
       DEF Persist, Label, TypeOK, poolVars, threadVars, bindVars, histVars, Goto
  <2>17. CASE SaveSubs(c)
    <3> DEFINE s == sess[c]
    <3>1. s \in Session /\ sessions[s] \in SessionRec
      BY <1>3, <2>17 DEF SaveSubs, LocalsOK, TypeOK
    <3>2. PICK saved \in ClientSubs(c) :
            sessions' = [sessions EXCEPT ![s].subs = saved, ![s].offline = TRUE]
      BY <2>17 DEF SaveSubs
    <3>3. saved \in Seq(Saved)
      BY <1>3, ClientSubsType DEF TypeOK
    <3>4. [sessions[s] EXCEPT !.subs = saved, !.offline = TRUE] \in SessionRec
      BY <3>1, <3>3 DEF SessionRec
    <3>5. sessions' \in [Session -> SessionRec]
      BY <3>1, <3>2, <3>4 DEF TypeOK
    <3> QED
      BY <2>17, <3>5 DEF SaveSubs, Label, TypeOK, poolVars, threadVars, bindVars, histVars, Goto
  <2>18. CASE SavePick(c)
    <3> DEFINE e == inflight[c][idx[c]]
               j == QueueFree(sessions[sess[c]])
    <3>0. sess[c] \in Session /\ idx[c] \in Nat /\ idx[c] < CLIENT_INFLIGHT_MAX
      BY <1>3, <2>18 DEF SavePick, LocalsOK, TypeOK
    <3>1. sess[c] \in Slot /\ idx[c] \in InflightIdx
      BY <3>0, IndexSets, SizesAssumption DEF InflightIdx
    <3>2. e \in Entry \cup {None}
      BY <1>3, <3>1 DEF TypeOK
    <3>3. j # None => j \in Nat
      BY QueueFreeType, IndexSets
    <3>4. put' \in [Slot -> Found \cup {None}]
      <4> DEFINE r == [to |-> sess[c], at |-> j, e |-> e]
      <4>1. CASE UNCHANGED put
        BY <4>1 DEF TypeOK
      <4>2. CASE e # None /\ j # None
        <5>1. r \in Found
          BY <3>1, <3>2, <3>3, <4>2 DEF Found
        <5>2. put' = [put EXCEPT ![c] = r]
          BY <2>18, <4>2 DEF SavePick
        <5> HIDE DEF r
        <5> QED
          BY <1>3, <5>1, <5>2 DEF TypeOK
      <4> QED
        BY <2>18, <4>1, <4>2 DEF SavePick
    <3>5. /\ UNCHANGED <<poolVars, pc, conn, sess, pub, subs, sessions, npub>>
          /\ idx' = [idx EXCEPT ![c] = @ + 1]
      BY <2>18 DEF SavePick
    <3> QED
      BY <3>4, <3>5 DEF TypeOK, poolVars
  <2>19. CASE SaveWrite(c)
    <3> DEFINE s == put[c].to
    <3>1. put[c] \in Found /\ put[c].at \in QueueIdx
      BY <1>3, <2>19 DEF SaveWrite, LocalsOK, TypeOK
    <3>2. s \in Session /\ put[c].e \in Entry
      BY <3>1, IndexSets DEF Found
    <3>3. sessions[s] \in SessionRec
      BY <3>2 DEF TypeOK
    <3>4. [sessions[s] EXCEPT !.queue[put[c].at] = put[c].e] \in SessionRec
      BY <3>1, <3>2, <3>3 DEF SessionRec
    <3>5. sessions' \in [Session -> SessionRec]
      BY <2>19, <3>2, <3>4 DEF SaveWrite, TypeOK
    <3> QED
      BY <2>19, <3>5 DEF SaveWrite, TypeOK, poolVars, threadVars, bindVars, histVars, Goto
  <2>20. CASE SaveEnd(c)
    BY <1>3, <2>20
       DEF SaveEnd, Label, TypeOK, poolVars, threadVars, bindVars, histVars, Goto
  <2>21. CASE UnsubAll(c)
    BY <1>3, <2>21, FS_Subset
       DEF UnsubAll, Label, TopicUnsubscribeAll, TypeOK, poolVars, threadVars, bindVars, histVars, Goto
  <2>22. CASE DeleteSession(c)
    BY <1>3, <2>22, SessionTableType
       DEF DeleteSession, Label, TypeOK, poolVars, threadVars, bindVars, histVars, Goto
  <2>23. CASE Release(c)
    BY <1>3, <2>23
       DEF Release, Label, TypeOK, poolVars, threadVars, bindVars, histVars, Goto
  <2>24. CASE RecvError(c)
    BY <1>3, <2>24
       DEF RecvError, Label, TypeOK, poolVars, threadVars, bindVars, histVars, Goto
  <2>25. CASE LoopExit(c)
    BY <1>3, <2>25
       DEF LoopExit, Label, TypeOK, poolVars, threadVars, bindVars, histVars, Goto
  <2>26. CASE \E t \in Topic, q \in PubQoS : Publish(c, t, q)
    <3>1. PICK t \in Topic, q \in PubQoS : Publish(c, t, q)
      BY <2>26
    <3> DEFINE m == [n |-> npub + 1, topic |-> t, qos |-> q]
    <3>2. m \in Msg /\ npub + 1 \in Nat
      BY InputsAssumption DEF TypeOK, Msg, MsgNo
    <3>3. Fanout(c, m, "loop")
      BY <3>1 DEF Publish
    <3>4. /\ pub' \in [Slot -> [msg : Msg \cup {None}, targets : SUBSET Target,
                                ret : {"none", "loop", "persist", "unsub"}]]
          /\ next_packet_id' \in [Slot -> 0 .. PID_MAX]
      BY <1>3, <3>2, <3>3, FanoutType
    <3> HIDE DEF m
    <3> QED
      BY <3>1, <3>2, <3>4 DEF Publish, Label, TypeOK, poolVars, threadVars, bindVars, histVars,
           Goto
  <2>27. CASE \E f \in Filter, q \in SubQoS : Subscribe(c, f, q)
    BY <1>3, <2>27, TopicSubscribeType, ClientSendState, InputsAssumption
       DEF Subscribe, TypeOK, poolVars, threadVars, bindVars, histVars, Goto
  <2>28. CASE \E f \in Filter : Unsubscribe(c, f)
    BY <1>3, <2>28, ClientSendState, FS_Subset
       DEF Unsubscribe, TopicUnsubscribe, TypeOK, poolVars, threadVars, bindVars, histVars, Goto
  <2>29. CASE \E w \in wire[c] : PubAck(c, w)
    BY <1>3, <2>29, InflightFindType
       DEF PubAck, TypeOK, poolVars, threadVars, bindVars, histVars, Goto
  <2>30. CASE Retry(c)
    BY <1>3, <2>30, ClientSendState
       DEF Retry, TypeOK, poolVars, threadVars, bindVars, histVars, Goto
  <2>31. CASE Ping(c)
    BY <1>3, <2>31, ClientSendState
       DEF Ping, TypeOK, poolVars, threadVars, bindVars, histVars, Goto
  <2>32. CASE Disconnect(c)
    BY <1>3, <2>32
       DEF Disconnect, Fails, TypeOK, poolVars, threadVars, bindVars, histVars, Goto
  <2>33. CASE ProtocolError(c)
    BY <1>3, <2>33
       DEF ProtocolError, Fails, TypeOK, poolVars, threadVars, bindVars, histVars, Goto
  <2>34. CASE PeerGone(c)
    BY <1>3, <2>34
       DEF PeerGone, TypeOK, poolVars, threadVars, bindVars, histVars, Goto
  <2> QED
    BY <1>3, <2>1, <2>2, <2>3, <2>4, <2>5, <2>6, <2>7, <2>8, <2>9, <2>10, <2>11, <2>12, <2>13,
         <2>14, <2>15, <2>16, <2>17, <2>18, <2>19, <2>20, <2>21, <2>22, <2>23, <2>24, <2>25,
         <2>26, <2>27, <2>28, <2>29, <2>30, <2>31, <2>32, <2>33, <2>34
       DEF Thread, Connecting, Opening, Publishing, Freeing, Leaving, Handling
<1> QED
  BY <1>1, <1>2, <1>3 DEF Next

(* Each label is entered with the locals that its code uses. *)
LEMMA LocalsStep ==
    ASSUME TypeOK, LocalsOK, ThreadOwnsSlot, Next
    PROVE  LocalsOK'
<1>0. /\ pc \in [Slot -> Label]
      /\ conn \in [Slot -> Conn \cup {None}]
      /\ sess \in [Slot -> Session \cup {None}]
      /\ idx \in [Slot -> Nat]
      /\ has_will \in [Slot -> Will \cup {None}]
      /\ pub \in [Slot -> [msg : Msg \cup {None}, targets : SUBSET Target,
                           ret : {"none", "loop", "persist", "unsub"}]]
      /\ put \in [Slot -> Found \cup {None}]
      /\ npub \in Nat
  BY DEF TypeOK
<1>1. CASE Accept
  BY <1>0, <1>1, FreeSlotFree DEF Accept, ThreadOwnsSlot, LocalsOK, poolVars, threadVars,
       bindVars, histVars, Goto
<1>2. CASE AcceptFail
  BY <1>0, <1>2, FreeSlotFree DEF AcceptFail, ThreadOwnsSlot, LocalsOK, poolVars, threadVars,
       bindVars, histVars, Goto
<1>3. ASSUME NEW c \in Slot, PeerGone(c) \/ Thread(c)
      PROVE  LocalsOK'
  <2>1. CASE FirstBad(c)
    BY <1>0, <1>3, <2>1
       DEF FirstBad, LocalsOK, poolVars, threadVars, bindVars, histVars, Goto
  <2>2. CASE RejectConnect(c)
    BY <1>0, <1>3, <2>2
       DEF RejectConnect, LocalsOK, poolVars, threadVars, bindVars, histVars, Goto
  <2>3. CASE \E k \in Connects : ParseConnect(c, k)
    BY <1>0, <1>3, <2>3, InputsAssumption
       DEF ParseConnect, LocalsOK, poolVars, threadVars, bindVars, histVars, Goto
  <2>4. CASE Takeover(c)
    BY <1>0, <1>3, <2>4
       DEF Takeover, LocalsOK, poolVars, threadVars, bindVars, histVars, Goto
  <2>5. CASE Identify(c)
    BY <1>0, <1>3, <2>5
       DEF Identify, Conn, LocalsOK, poolVars, threadVars, bindVars, histVars, Goto
  <2>6. CASE OpenSession(c)
    BY <1>0, <1>3, <2>6, SessionFindSpec
       DEF OpenSession, LocalsOK, poolVars, threadVars, bindVars, histVars, Goto
  <2>7. CASE RestoreSub(c)
    BY <1>0, <1>3, <2>7
       DEF RestoreSub, LocalsOK, poolVars, threadVars, bindVars, histVars, Goto
  <2>8. CASE RestoreEnd(c)
    BY <1>0, <1>3, <2>8
       DEF RestoreEnd, LocalsOK, poolVars, threadVars, bindVars, histVars, Goto
  <2>9. CASE Online(c)
    BY <1>0, <1>3, <2>9, IndexSets, SizesAssumption
       DEF Online, QueueIdx, LocalsOK, poolVars, threadVars, bindVars, histVars, Goto
  <2>10. CASE Drain(c)
    <3>1. pc[c] = "drain" /\ idx[c] \in QueueIdx /\ sess[c] \in Session
      BY <1>3, <2>10 DEF Drain, LocalsOK
    <3>2. put[c] = None
      BY <1>3, <3>1 DEF LocalsOK
    <3>3. idx[c] + 1 # SESSION_QUEUE_MAX => idx[c] + 1 \in QueueIdx
      BY <3>1, SizesAssumption DEF QueueIdx
    <3>4. /\ UNCHANGED <<has_will, conn, sess, pub, put>>
          /\ idx' = [idx EXCEPT ![c] = idx[c] + 1]
          /\ pc' = [pc EXCEPT ![c] = IF idx[c] + 1 = SESSION_QUEUE_MAX
                                    THEN "loop" ELSE "drain"]
      BY <1>0, <1>3, <2>10 DEF Drain, Goto, bindVars
    <3> QED
      BY <1>0, <1>3, <3>1, <3>2, <3>3, <3>4 DEF LocalsOK
  <2>11. CASE SendOne(c)
    BY <1>0, <1>3, <2>11, InflightFreeType
       DEF SendOne, LocalsOK, poolVars, threadVars, bindVars, histVars, Goto
  <2>12. CASE StoreOne(c)
    BY <1>0, <1>3, <2>12
       DEF StoreOne, LocalsOK, poolVars, threadVars, bindVars, histVars, Goto
  <2>13. CASE OfflinePublish(c)
    BY <1>0, <1>3, <2>13
       DEF OfflinePublish, NoPub, LocalsOK, poolVars, threadVars, bindVars, histVars, Goto
  <2>14. CASE FreeClose(c)
    BY <1>0, <1>3, <2>14
       DEF FreeClose, AfterWill, LocalsOK, poolVars, threadVars, bindVars, histVars, Goto
  <2>15. CASE PublishWill(c)
    <3> DEFINE m == [n |-> npub + 1, topic |-> has_will[c].topic, qos |-> has_will[c].qos]
    <3>1. pc[c] = "will" /\ m \in Msg
      BY <1>0, <1>3, <2>15 DEF PublishWill, LocalsOK, Will, Msg, MsgNo
    <3>2. AfterWill(c) \in {"persist", "unsub"} /\ Fanout(c, m, AfterWill(c))
      BY <2>15 DEF PublishWill, AfterWill
    <3>3. /\ pub'[c].msg = m /\ pub'[c].ret = AfterWill(c)
          /\ \A d \in Slot : d # c => pub'[d] = pub[d]
      BY <1>3, <3>1, <3>2, FanoutType
    <3>4. /\ UNCHANGED <<conn, sess, idx, put>>
          /\ has_will' = [has_will EXCEPT ![c] = None]
          /\ pc' = [pc EXCEPT ![c] = "send"]
      BY <2>15 DEF PublishWill, Goto
    <3>5. put[c] = None
      BY <1>3, <3>1 DEF LocalsOK
    <3> HIDE DEF m
    <3> QED
      BY <1>0, <1>3, <3>1, <3>2, <3>3, <3>4, <3>5 DEF LocalsOK
  <2>16. CASE Persist(c)
    BY <1>0, <1>3, <2>16, SessionSlotSpec
       DEF Persist, LocalsOK, poolVars, threadVars, bindVars, histVars, Goto
  <2>17. CASE SaveSubs(c)
    BY <1>0, <1>3, <2>17
       DEF SaveSubs, LocalsOK, poolVars, threadVars, bindVars, histVars, Goto
  <2>18. CASE SavePick(c)
    BY <1>0, <1>3, <2>18, QueueFreeType
       DEF SavePick, LocalsOK, poolVars, threadVars, bindVars, histVars, Goto
  <2>19. CASE SaveWrite(c)
    BY <1>0, <1>3, <2>19
       DEF SaveWrite, LocalsOK, poolVars, threadVars, bindVars, histVars, Goto
  <2>20. CASE SaveEnd(c)
    BY <1>0, <1>3, <2>20
       DEF SaveEnd, LocalsOK, poolVars, threadVars, bindVars, histVars, Goto
  <2>21. CASE UnsubAll(c)
    BY <1>0, <1>3, <2>21
       DEF UnsubAll, LocalsOK, poolVars, threadVars, bindVars, histVars, Goto
  <2>22. CASE DeleteSession(c)
    BY <1>0, <1>3, <2>22
       DEF DeleteSession, LocalsOK, poolVars, threadVars, bindVars, histVars, Goto
  <2>23. CASE Release(c)
    BY <1>0, <1>3, <2>23
       DEF Release, LocalsOK, poolVars, threadVars, bindVars, histVars, Goto
  <2>24. CASE RecvError(c)
    BY <1>0, <1>3, <2>24 DEF RecvError, InLoop, LocalsOK, poolVars, threadVars, bindVars,
         histVars, Goto
  <2>25. CASE LoopExit(c)
    BY <1>0, <1>3, <2>25
       DEF LoopExit, LocalsOK, poolVars, threadVars, bindVars, histVars, Goto
  <2>26. CASE \E t \in Topic, q \in PubQoS : Publish(c, t, q)
    <3>1. PICK t \in Topic, q \in PubQoS : Publish(c, t, q)
      BY <2>26
    <3> DEFINE m == [n |-> npub + 1, topic |-> t, qos |-> q]
    <3>2. m \in Msg
      BY InputsAssumption DEF TypeOK, Msg, MsgNo
    <3>3. Fanout(c, m, "loop")
      BY <3>1 DEF Publish
    <3> HIDE DEF m
    <3>4. /\ pub'[c].msg = m /\ pub'[c].ret = "loop"
          /\ \A d \in Slot : d # c => pub'[d] = pub[d]
      BY <1>3, <3>2, <3>3, FanoutType
    <3>5. /\ pc[c] = "loop" /\ pc' = [pc EXCEPT ![c] = "send"]
          /\ UNCHANGED <<conn, sess, idx, put, has_will>>
      BY <3>1 DEF Publish, Goto, bindVars
    <3> QED
      BY <1>0, <1>3, <3>2, <3>4, <3>5 DEF LocalsOK
  <2>27. CASE \E f \in Filter, q \in SubQoS : Subscribe(c, f, q)
    BY <1>0, <1>3, <2>27
       DEF Subscribe, LocalsOK, poolVars, threadVars, bindVars, histVars, Goto
  <2>28. CASE \E f \in Filter : Unsubscribe(c, f)
    BY <1>0, <1>3, <2>28
       DEF Unsubscribe, LocalsOK, poolVars, threadVars, bindVars, histVars, Goto
  <2>29. CASE \E w \in wire[c] : PubAck(c, w)
    BY <1>0, <1>3, <2>29
       DEF PubAck, LocalsOK, poolVars, threadVars, bindVars, histVars, Goto
  <2>30. CASE Retry(c)
    BY <1>0, <1>3, <2>30
       DEF Retry, LocalsOK, poolVars, threadVars, bindVars, histVars, Goto
  <2>31. CASE Ping(c)
    BY <1>0, <1>3, <2>31
       DEF Ping, LocalsOK, poolVars, threadVars, bindVars, histVars, Goto
  <2>32. CASE Disconnect(c)
    BY <1>0, <1>3, <2>32 DEF Disconnect, InLoop, LocalsOK, poolVars, threadVars, bindVars,
         histVars, Goto
  <2>33. CASE ProtocolError(c)
    BY <1>0, <1>3, <2>33
       DEF ProtocolError, LocalsOK, poolVars, threadVars, bindVars, histVars, Goto
  <2>34. CASE PeerGone(c)
    BY <1>0, <1>3, <2>34
       DEF PeerGone, LocalsOK, poolVars, threadVars, bindVars, histVars, Goto
  <2> QED
    BY <1>3, <2>1, <2>2, <2>3, <2>4, <2>5, <2>6, <2>7, <2>8, <2>9, <2>10, <2>11, <2>12, <2>13,
         <2>14, <2>15, <2>16, <2>17, <2>18, <2>19, <2>20, <2>21, <2>22, <2>23, <2>24, <2>25,
         <2>26, <2>27, <2>28, <2>29, <2>30, <2>31, <2>32, <2>33, <2>34
       DEF Thread, Connecting, Opening, Publishing, Freeing, Leaving, Handling
<1> QED
  BY <1>1, <1>2, <1>3 DEF Next

(* No step frees a slot whose thread is still running. *)
LEMMA OwnsStep ==
    ASSUME TypeOK, LocalsOK, ThreadOwnsSlot, Next
    PROVE  ThreadOwnsSlot'
<1>0. /\ pc \in [Slot -> Label]
      /\ state \in [Slot -> {"FREE", "CONNECTED", "DISCONNECTING"}]
  BY DEF TypeOK
<1>1. CASE Accept
  BY <1>0, <1>1, FreeSlotFree DEF Accept, ThreadOwnsSlot, Goto
<1>2. CASE AcceptFail
  BY <1>0, <1>2 DEF AcceptFail, ThreadOwnsSlot, threadVars
<1>3. ASSUME NEW c \in Slot, PeerGone(c) \/ Thread(c)
      PROVE  ThreadOwnsSlot'
  <2>1. CASE FirstBad(c)
    BY <1>0, <1>3, <2>1
       DEF FirstBad, ThreadOwnsSlot, poolVars, threadVars, Goto
  <2>2. CASE RejectConnect(c)
    BY <1>0, <1>3, <2>2
       DEF RejectConnect, ThreadOwnsSlot, poolVars, threadVars, Goto, Fails
  <2>3. CASE \E k \in Connects : ParseConnect(c, k)
    BY <1>0, <1>3, <2>3
       DEF ParseConnect, ThreadOwnsSlot, poolVars, threadVars, Goto
  <2>4. CASE Takeover(c)
    BY <1>0, <1>3, <2>4
       DEF Takeover, ThreadOwnsSlot, poolVars, threadVars, Goto
  <2>5. CASE Identify(c)
    BY <1>0, <1>3, <2>5
       DEF Identify, ThreadOwnsSlot, poolVars, threadVars, Goto
  <2>6. CASE OpenSession(c)
    BY <1>0, <1>3, <2>6, ClientSendState
       DEF OpenSession, ThreadOwnsSlot, poolVars, threadVars, Goto
  <2>7. CASE RestoreSub(c)
    BY <1>0, <1>3, <2>7
       DEF RestoreSub, ThreadOwnsSlot, poolVars, threadVars, Goto
  <2>8. CASE RestoreEnd(c)
    BY <1>0, <1>3, <2>8
       DEF RestoreEnd, ThreadOwnsSlot, poolVars, threadVars, Goto
  <2>9. CASE Online(c)
    BY <1>0, <1>3, <2>9
       DEF Online, ThreadOwnsSlot, poolVars, threadVars, Goto
  <2>10. CASE Drain(c)
    BY <1>0, <1>3, <2>10, ClientSendState
       DEF Drain, ThreadOwnsSlot, poolVars, threadVars, Goto
  <2>11. CASE SendOne(c)
    BY <1>0, <1>3, <2>11, ClientSendState
       DEF SendOne, ThreadOwnsSlot, poolVars, threadVars, Goto, Target, TypeOK
  <2>12. CASE StoreOne(c)
    BY <1>0, <1>3, <2>12
       DEF StoreOne, ThreadOwnsSlot, poolVars, threadVars, Goto
  <2>13. CASE OfflinePublish(c)
    BY <1>0, <1>3, <2>13, ClientSendState
       DEF OfflinePublish, ThreadOwnsSlot, poolVars, threadVars, Goto, LocalsOK
  <2>14. CASE FreeClose(c)
    BY <1>0, <1>3, <2>14
       DEF FreeClose, ThreadOwnsSlot, poolVars, threadVars, Goto, AfterWill
  <2>15. CASE PublishWill(c)
    BY <1>0, <1>3, <2>15
       DEF PublishWill, ThreadOwnsSlot, poolVars, threadVars, Goto
  <2>16. CASE Persist(c)
    BY <1>0, <1>3, <2>16
       DEF Persist, ThreadOwnsSlot, poolVars, threadVars, Goto
  <2>17. CASE SaveSubs(c)
    BY <1>0, <1>3, <2>17
       DEF SaveSubs, ThreadOwnsSlot, poolVars, threadVars, Goto
  <2>18. CASE SavePick(c)
    BY <1>0, <1>3, <2>18
       DEF SavePick, ThreadOwnsSlot, poolVars, threadVars, Goto
  <2>19. CASE SaveWrite(c)
    BY <1>0, <1>3, <2>19
       DEF SaveWrite, ThreadOwnsSlot, poolVars, threadVars, Goto
  <2>20. CASE SaveEnd(c)
    BY <1>0, <1>3, <2>20
       DEF SaveEnd, ThreadOwnsSlot, poolVars, threadVars, Goto
  <2>21. CASE UnsubAll(c)
    BY <1>0, <1>3, <2>21
       DEF UnsubAll, ThreadOwnsSlot, poolVars, threadVars, Goto
  <2>22. CASE DeleteSession(c)
    BY <1>0, <1>3, <2>22
       DEF DeleteSession, ThreadOwnsSlot, poolVars, threadVars, Goto
  <2>23. CASE Release(c)
    BY <1>0, <1>3, <2>23
       DEF Release, ThreadOwnsSlot, poolVars, threadVars, Goto
  <2>24. CASE RecvError(c)
    BY <1>0, <1>3, <2>24
       DEF RecvError, ThreadOwnsSlot, poolVars, threadVars, Goto, InLoop
  <2>25. CASE LoopExit(c)
    BY <1>0, <1>3, <2>25
       DEF LoopExit, ThreadOwnsSlot, poolVars, threadVars, Goto
  <2>26. CASE \E t \in Topic, q \in PubQoS : Publish(c, t, q)
    BY <1>0, <1>3, <2>26
       DEF Publish, ThreadOwnsSlot, poolVars, threadVars, Goto
  <2>27. CASE \E f \in Filter, q \in SubQoS : Subscribe(c, f, q)
    BY <1>0, <1>3, <2>27, ClientSendState
       DEF Subscribe, ThreadOwnsSlot, poolVars, threadVars, Goto, InLoop
  <2>28. CASE \E f \in Filter : Unsubscribe(c, f)
    BY <1>0, <1>3, <2>28, ClientSendState
       DEF Unsubscribe, ThreadOwnsSlot, poolVars, threadVars, Goto, InLoop
  <2>29. CASE \E w \in wire[c] : PubAck(c, w)
    BY <1>0, <1>3, <2>29
       DEF PubAck, ThreadOwnsSlot, poolVars, threadVars, Goto, InLoop
  <2>30. CASE Retry(c)
    BY <1>0, <1>3, <2>30, ClientSendState
       DEF Retry, ThreadOwnsSlot, poolVars, threadVars, Goto, InLoop
  <2>31. CASE Ping(c)
    BY <1>0, <1>3, <2>31, ClientSendState
       DEF Ping, ThreadOwnsSlot, poolVars, threadVars, Goto, InLoop
  <2>32. CASE Disconnect(c)
    BY <1>0, <1>3, <2>32
       DEF Disconnect, ThreadOwnsSlot, poolVars, threadVars, Goto, Fails, InLoop
  <2>33. CASE ProtocolError(c)
    BY <1>0, <1>3, <2>33
       DEF ProtocolError, ThreadOwnsSlot, poolVars, threadVars, Goto, Fails, InLoop
  <2>34. CASE PeerGone(c)
    BY <1>0, <1>3, <2>34
       DEF PeerGone, ThreadOwnsSlot, poolVars, threadVars, Goto
  <2> QED
    BY <1>3, <2>1, <2>2, <2>3, <2>4, <2>5, <2>6, <2>7, <2>8, <2>9, <2>10, <2>11, <2>12, <2>13,
         <2>14, <2>15, <2>16, <2>17, <2>18, <2>19, <2>20, <2>21, <2>22, <2>23, <2>24, <2>25,
         <2>26, <2>27, <2>28, <2>29, <2>30, <2>31, <2>32, <2>33, <2>34
       DEF Thread, Connecting, Opening, Publishing, Freeing, Leaving, Handling
<1> QED
  BY <1>1, <1>2, <1>3 DEF Next

(* A subscription belongs to a thread that will still remove it. *)
LEMMA SubsStep ==
    ASSUME TypeOK, LocalsOK, ThreadOwnsSlot, SubsHaveThread, Next
    PROVE  SubsHaveThread'
<1>0. /\ pc \in [Slot -> Label]
      /\ subs \in SUBSET [client : Slot, filter : Filter, qos : QoS]
  BY DEF TypeOK
<1>1. CASE Accept
  BY <1>0, <1>1, FreeSlotFree
     DEF Accept, ThreadOwnsSlot, SubsHaveThread, MaySubscribe, Goto
<1>2. CASE AcceptFail
  BY <1>2 DEF AcceptFail, SubsHaveThread, threadVars
<1>3. ASSUME NEW c \in Slot, PeerGone(c) \/ Thread(c)
      PROVE  SubsHaveThread'
  <2>1. CASE FirstBad(c)
    BY <1>0, <1>3, <2>1
       DEF FirstBad, SubsHaveThread, MaySubscribe, poolVars, threadVars, Goto
  <2>2. CASE RejectConnect(c)
    BY <1>0, <1>3, <2>2
       DEF RejectConnect, SubsHaveThread, MaySubscribe, poolVars, threadVars, Goto
  <2>3. CASE \E k \in Connects : ParseConnect(c, k)
    BY <1>0, <1>3, <2>3
       DEF ParseConnect, SubsHaveThread, MaySubscribe, poolVars, threadVars, Goto
  <2>4. CASE Takeover(c)
    BY <1>0, <1>3, <2>4
       DEF Takeover, SubsHaveThread, MaySubscribe, poolVars, threadVars, Goto
  <2>5. CASE Identify(c)
    BY <1>0, <1>3, <2>5
       DEF Identify, SubsHaveThread, MaySubscribe, poolVars, threadVars, Goto
  <2>6. CASE OpenSession(c)
    BY <1>0, <1>3, <2>6
       DEF OpenSession, SubsHaveThread, MaySubscribe, poolVars, threadVars, Goto
  <2>7. CASE RestoreSub(c)
    <3>1. UNCHANGED pc /\ pc[c] = "restore"
      BY <2>7 DEF RestoreSub
    <3>2. ASSUME NEW f, NEW q, NEW s \in TopicSubscribe(c, f, q)
          PROVE  s \in subs \/ s.client = c
      BY <3>2 DEF TopicSubscribe
    <3>3. \A s \in subs' : s \in subs \/ s.client = c
      BY <2>7, <3>2 DEF RestoreSub
    <3> QED
      BY <3>1, <3>3 DEF SubsHaveThread, MaySubscribe
  <2>8. CASE RestoreEnd(c)
    BY <1>0, <1>3, <2>8
       DEF RestoreEnd, SubsHaveThread, MaySubscribe, poolVars, threadVars, Goto
  <2>9. CASE Online(c)
    BY <1>0, <1>3, <2>9
       DEF Online, SubsHaveThread, MaySubscribe, poolVars, threadVars, Goto
  <2>10. CASE Drain(c)
    BY <1>0, <1>3, <2>10
       DEF Drain, SubsHaveThread, MaySubscribe, poolVars, threadVars, Goto
  <2>11. CASE SendOne(c)
    BY <1>0, <1>3, <2>11
       DEF SendOne, SubsHaveThread, MaySubscribe, poolVars, threadVars, Goto
  <2>12. CASE StoreOne(c)
    BY <1>0, <1>3, <2>12
       DEF StoreOne, SubsHaveThread, MaySubscribe, poolVars, threadVars, Goto
  <2>13. CASE OfflinePublish(c)
    BY <1>0, <1>3, <2>13
       DEF OfflinePublish, SubsHaveThread, MaySubscribe, poolVars, threadVars, Goto, LocalsOK
  <2>14. CASE FreeClose(c)
    BY <1>0, <1>3, <2>14
       DEF FreeClose, SubsHaveThread, MaySubscribe, poolVars, threadVars, Goto, AfterWill
  <2>15. CASE PublishWill(c)
    BY <1>0, <1>3, <2>15
       DEF PublishWill, SubsHaveThread, MaySubscribe, poolVars, threadVars, Goto
  <2>16. CASE Persist(c)
    BY <1>0, <1>3, <2>16
       DEF Persist, SubsHaveThread, MaySubscribe, poolVars, threadVars, Goto
  <2>17. CASE SaveSubs(c)
    BY <1>0, <1>3, <2>17
       DEF SaveSubs, SubsHaveThread, MaySubscribe, poolVars, threadVars, Goto
  <2>18. CASE SavePick(c)
    BY <1>0, <1>3, <2>18
       DEF SavePick, SubsHaveThread, MaySubscribe, poolVars, threadVars, Goto
  <2>19. CASE SaveWrite(c)
    BY <1>0, <1>3, <2>19
       DEF SaveWrite, SubsHaveThread, MaySubscribe, poolVars, threadVars, Goto
  <2>20. CASE SaveEnd(c)
    BY <1>0, <1>3, <2>20
       DEF SaveEnd, SubsHaveThread, MaySubscribe, poolVars, threadVars, Goto
  <2>21. CASE UnsubAll(c)
    BY <1>0, <1>3, <2>21
       DEF UnsubAll, SubsHaveThread, MaySubscribe, poolVars, threadVars, Goto, TopicUnsubscribeAll
  <2>22. CASE DeleteSession(c)
    BY <1>0, <1>3, <2>22
       DEF DeleteSession, SubsHaveThread, MaySubscribe, poolVars, threadVars, Goto
  <2>23. CASE Release(c)
    BY <1>0, <1>3, <2>23
       DEF Release, SubsHaveThread, MaySubscribe, poolVars, threadVars, Goto
  <2>24. CASE RecvError(c)
    BY <1>0, <1>3, <2>24
       DEF RecvError, SubsHaveThread, MaySubscribe, poolVars, threadVars, Goto, InLoop
  <2>25. CASE LoopExit(c)
    BY <1>0, <1>3, <2>25
       DEF LoopExit, SubsHaveThread, MaySubscribe, poolVars, threadVars, Goto
  <2>26. CASE \E t \in Topic, q \in PubQoS : Publish(c, t, q)
    BY <1>0, <1>3, <2>26
       DEF Publish, SubsHaveThread, MaySubscribe, poolVars, threadVars, Goto
  <2>27. CASE \E f \in Filter, q \in SubQoS : Subscribe(c, f, q)
    BY <1>0, <1>3, <2>27
       DEF Subscribe, SubsHaveThread, MaySubscribe, poolVars, threadVars, Goto, InLoop, TopicSubscribe
  <2>28. CASE \E f \in Filter : Unsubscribe(c, f)
    BY <1>0, <1>3, <2>28
       DEF Unsubscribe, SubsHaveThread, MaySubscribe, poolVars, threadVars, Goto, InLoop, TopicUnsubscribe
  <2>29. CASE \E w \in wire[c] : PubAck(c, w)
    BY <1>0, <1>3, <2>29
       DEF PubAck, SubsHaveThread, MaySubscribe, poolVars, threadVars, Goto, InLoop
  <2>30. CASE Retry(c)
    BY <1>0, <1>3, <2>30
       DEF Retry, SubsHaveThread, MaySubscribe, poolVars, threadVars, Goto, InLoop
  <2>31. CASE Ping(c)
    BY <1>0, <1>3, <2>31
       DEF Ping, SubsHaveThread, MaySubscribe, poolVars, threadVars, Goto, InLoop
  <2>32. CASE Disconnect(c)
    BY <1>0, <1>3, <2>32
       DEF Disconnect, SubsHaveThread, MaySubscribe, poolVars, threadVars, Goto, InLoop
  <2>33. CASE ProtocolError(c)
    BY <1>0, <1>3, <2>33
       DEF ProtocolError, SubsHaveThread, MaySubscribe, poolVars, threadVars, Goto, InLoop
  <2>34. CASE PeerGone(c)
    BY <1>0, <1>3, <2>34
       DEF PeerGone, SubsHaveThread, MaySubscribe, poolVars, threadVars, Goto
  <2> QED
    BY <1>3, <2>1, <2>2, <2>3, <2>4, <2>5, <2>6, <2>7, <2>8, <2>9, <2>10, <2>11, <2>12, <2>13,
         <2>14, <2>15, <2>16, <2>17, <2>18, <2>19, <2>20, <2>21, <2>22, <2>23, <2>24, <2>25,
         <2>26, <2>27, <2>28, <2>29, <2>30, <2>31, <2>32, <2>33, <2>34
       DEF Thread, Connecting, Opening, Publishing, Freeing, Leaving, Handling
<1> QED
  BY <1>1, <1>2, <1>3 DEF Next

(* A step that touches neither the keys of the sessions nor which are in   *)
(* use keeps the keys unique.                                              *)
LEMMA SameKeys ==
    ASSUME SessionKeysUnique,
           \A i \in Session : /\ sessions'[i].in_use => sessions[i].in_use
                              /\ sessions'[i].client_id = sessions[i].client_id
    PROVE  SessionKeysUnique'
  BY DEF SessionKeysUnique

(* A created session takes an identifier that no session in use has. *)
LEMMA CreateKeys ==
    ASSUME TypeOK, SessionKeysUnique, NEW id,
           sessions' = SessionFindOrCreate(id)
    PROVE  SessionKeysUnique'
<1>0. sessions \in [Session -> SessionRec]
  BY DEF TypeOK
<1>1. CASE SessionSlot(id) = None \/ SessionFind(id) # None
  BY <1>1, SameKeys DEF SessionFindOrCreate
<1>2. CASE SessionSlot(id) # None /\ SessionFind(id) = None
  <2>1. sessions' = [sessions EXCEPT ![SessionSlot(id)] = EmptySession(TRUE, id)]
    BY <1>2 DEF SessionFindOrCreate
  <2>2. \A i \in Session : ~(sessions[i].in_use /\ sessions[i].client_id = id)
    BY <1>2, SessionFindSpec
  <2>3. EmptySession(TRUE, id).client_id = id
    BY DEF EmptySession
  <2>4. SessionSlot(id) \in Session
    BY <1>2, SessionSlotSpec
  <2>5. \A i \in Session : IF i = SessionSlot(id)
                            THEN sessions'[i].client_id = id
                            ELSE sessions'[i] = sessions[i]
    BY <1>0, <2>1, <2>3
  <2> QED
    BY <2>2, <2>4, <2>5 DEF SessionKeysUnique
<1> QED
  BY <1>1, <1>2

(* session_delete only takes a session out of use. *)
LEMMA DeleteKeys ==
    ASSUME TypeOK, SessionKeysUnique, NEW id, sessions' = SessionDelete(id)
    PROVE  SessionKeysUnique'
<1>0. sessions \in [Session -> SessionRec]
  BY DEF TypeOK
<1>1. \A i \in Session : /\ sessions'[i].in_use => sessions[i].in_use
                         /\ sessions'[i].client_id = sessions[i].client_id
  BY <1>0 DEF SessionDelete, SessionRec
<1> QED
  BY <1>1, SameKeys

(* No step gives two sessions in use the same identifier. *)
LEMMA KeysStep ==
    ASSUME TypeOK, LocalsOK, SessionKeysUnique, Next
    PROVE  SessionKeysUnique'
<1>0. sessions \in [Session -> SessionRec]
  BY DEF TypeOK
<1>1. CASE Accept
  BY <1>1, SameKeys DEF Accept
<1>2. CASE AcceptFail
  BY <1>2, SameKeys DEF AcceptFail
<1>3. ASSUME NEW c \in Slot, PeerGone(c) \/ Thread(c)
      PROVE  SessionKeysUnique'
  <2>1. CASE FirstBad(c)
    BY <2>1, SameKeys DEF FirstBad
  <2>2. CASE RejectConnect(c)
    BY <2>2, SameKeys DEF RejectConnect
  <2>3. CASE \E k \in Connects : ParseConnect(c, k)
    BY <2>3, SameKeys DEF ParseConnect
  <2>4. CASE Takeover(c)
    BY <2>4, SameKeys DEF Takeover
  <2>5. CASE Identify(c)
    BY <2>5, SameKeys DEF Identify
  <2>6. CASE OpenSession(c)
    BY <2>6, CreateKeys, DeleteKeys DEF OpenSession
  <2>7. CASE RestoreSub(c)
    BY <2>7, SameKeys DEF RestoreSub
  <2>8. CASE RestoreEnd(c)
    BY <2>8, SameKeys DEF RestoreEnd
  <2>9. CASE Online(c)
    <3>1. \A i \in Session : /\ sessions'[i].in_use => sessions[i].in_use
                             /\ sessions'[i].client_id = sessions[i].client_id
      BY <1>0, <2>9 DEF Online, SessionRec
    <3> QED
      BY <3>1, SameKeys
  <2>10. CASE Drain(c)
    <3>1. \A i \in Session : /\ sessions'[i].in_use => sessions[i].in_use
                             /\ sessions'[i].client_id = sessions[i].client_id
      <4>1. sess[c] \in Session
        BY <2>10 DEF Drain, LocalsOK
      <4>2. CASE sessions[sess[c]].queue[idx[c]] = None
        BY <2>10, <4>2 DEF Drain
      <4>3. CASE sessions[sess[c]].queue[idx[c]] # None
        <5>1. sessions' = [sessions EXCEPT ![sess[c]].queue[idx[c]] = None]
          BY <2>10, <4>3 DEF Drain
        <5> QED
          BY <1>0, <4>1, <5>1 DEF SessionRec
      <4> QED
        BY <4>2, <4>3
    <3> QED
      BY <3>1, SameKeys
  <2>11. CASE SendOne(c)
    BY <2>11, SameKeys DEF SendOne
  <2>12. CASE StoreOne(c)
    BY <2>12, SameKeys DEF StoreOne
  <2>13. CASE OfflinePublish(c)
    <3>1. \A i \in Session : /\ sessions'[i].in_use => sessions[i].in_use
                             /\ sessions'[i].client_id = sessions[i].client_id
      BY <1>0, <2>13 DEF OfflinePublish, SessionRec, Queued
    <3> QED
      BY <3>1, SameKeys
  <2>14. CASE FreeClose(c)
    BY <2>14, SameKeys DEF FreeClose
  <2>15. CASE PublishWill(c)
    BY <2>15, SameKeys DEF PublishWill
  <2>16. CASE Persist(c)
    BY <2>16, CreateKeys DEF Persist
  <2>17. CASE SaveSubs(c)
    <3>1. \A i \in Session : /\ sessions'[i].in_use => sessions[i].in_use
                             /\ sessions'[i].client_id = sessions[i].client_id
      BY <1>0, <2>17 DEF SaveSubs, SessionRec
    <3> QED
      BY <3>1, SameKeys
  <2>18. CASE SavePick(c)
    BY <2>18, SameKeys DEF SavePick
  <2>19. CASE SaveWrite(c)
    <3>1. \A i \in Session : /\ sessions'[i].in_use => sessions[i].in_use
                             /\ sessions'[i].client_id = sessions[i].client_id
      BY <1>0, <2>19 DEF SaveWrite, SessionRec
    <3> QED
      BY <3>1, SameKeys
  <2>20. CASE SaveEnd(c)
    BY <2>20, SameKeys DEF SaveEnd
  <2>21. CASE UnsubAll(c)
    BY <2>21, SameKeys DEF UnsubAll
  <2>22. CASE DeleteSession(c)
    BY <2>22, DeleteKeys DEF DeleteSession
  <2>23. CASE Release(c)
    BY <2>23, SameKeys DEF Release
  <2>24. CASE RecvError(c)
    BY <2>24, SameKeys DEF RecvError
  <2>25. CASE LoopExit(c)
    BY <2>25, SameKeys DEF LoopExit
  <2>26. CASE \E t \in Topic, q \in PubQoS : Publish(c, t, q)
    BY <2>26, SameKeys DEF Publish
  <2>27. CASE \E f \in Filter, q \in SubQoS : Subscribe(c, f, q)
    BY <2>27, SameKeys DEF Subscribe
  <2>28. CASE \E f \in Filter : Unsubscribe(c, f)
    BY <2>28, SameKeys DEF Unsubscribe
  <2>29. CASE \E w \in wire[c] : PubAck(c, w)
    BY <2>29, SameKeys DEF PubAck
  <2>30. CASE Retry(c)
    BY <2>30, SameKeys DEF Retry
  <2>31. CASE Ping(c)
    BY <2>31, SameKeys DEF Ping
  <2>32. CASE Disconnect(c)
    BY <2>32, SameKeys DEF Disconnect
  <2>33. CASE ProtocolError(c)
    BY <2>33, SameKeys DEF ProtocolError
  <2>34. CASE PeerGone(c)
    BY <2>34, SameKeys DEF PeerGone
  <2> QED
    BY <1>3, <2>1, <2>2, <2>3, <2>4, <2>5, <2>6, <2>7, <2>8, <2>9, <2>10, <2>11, <2>12, <2>13,
         <2>14, <2>15, <2>16, <2>17, <2>18, <2>19, <2>20, <2>21, <2>22, <2>23, <2>24, <2>25,
         <2>26, <2>27, <2>28, <2>29, <2>30, <2>31, <2>32, <2>33, <2>34
       DEF Thread, Connecting, Opening, Publishing, Freeing, Leaving, Handling
<1> QED
  BY <1>1, <1>2, <1>3 DEF Next
----------------------------------------------------------------------------
(* client_pool_init, session_init and topic_init establish the invariant. *)
LEMMA InitInv == Init => IInv
<1> SUFFICES ASSUME Init PROVE IInv
  OBVIOUS
<1>1. TypeOK
  <2>1. \A i \in Session : sessions[i] \in SessionRec
    BY EmptySessionType DEF Init
  <2>2. sessions \in [Session -> SessionRec]
    BY <2>1 DEF Init
  <2>3. IsFiniteSet(subs)
    BY FS_EmptySet DEF Init
  <2>4. 0 \in 0 .. PID_MAX /\ 0 \in Nat
    BY SizesAssumption
  <2>5. pub \in [Slot -> [msg : Msg \cup {None}, targets : SUBSET Target,
                         ret : {"none", "loop", "persist", "unsub"}]]
    BY DEF Init, NoPub
  <2>6. /\ state \in [Slot -> {"FREE", "CONNECTED", "DISCONNECTING"}]
        /\ sock \in [Slot -> {"closed", "up", "gone"}]
        /\ client_id \in [Slot -> ClientId \cup {NoId}]
        /\ clean_session \in [Slot -> BOOLEAN]
        /\ has_will \in [Slot -> Will \cup {None}]
        /\ next_packet_id \in [Slot -> 0 .. PID_MAX]
        /\ inflight \in [Slot -> [InflightIdx -> Entry \cup {None}]]
    BY <2>4 DEF Init
  <2>7. /\ pc \in [Slot -> Label]
        /\ conn \in [Slot -> Conn \cup {None}]
        /\ sess \in [Slot -> Session \cup {None}]
        /\ idx \in [Slot -> Nat]
        /\ put \in [Slot -> Found \cup {None}]
        /\ subs \in SUBSET [client : Slot, filter : Filter, qos : QoS]
        /\ npub \in Nat
    BY <2>4 DEF Init, Label
  <2> QED
    BY <2>2, <2>3, <2>5, <2>6, <2>7 DEF TypeOK
<1>2. LocalsOK
  BY DEF Init, LocalsOK
<1>3. ThreadOwnsSlot /\ SubsHaveThread
  BY DEF Init, ThreadOwnsSlot, SubsHaveThread
<1>4. SessionKeysUnique
  BY DEF Init, SessionKeysUnique, EmptySession
<1> QED
  BY <1>1, <1>2, <1>3, <1>4 DEF IInv

(* A step that changes nothing keeps the invariant. *)
LEMMA StutterInv ==
    ASSUME IInv, UNCHANGED vars
    PROVE  IInv'
  BY DEF IInv, TypeOK, LocalsOK, ThreadOwnsSlot, SubsHaveThread,
         SessionKeysUnique, vars, poolVars, threadVars, histVars

(* Every reachable state satisfies the inductive invariant. *)
THEOREM Invariant == Spec => []IInv
<1>1. IInv /\ [Next]_vars => IInv'
  <2>1. ASSUME IInv, Next PROVE IInv'
    BY <2>1, TypeStep, LocalsStep, OwnsStep, SubsStep, KeysStep DEF IInv
  <2> QED
    BY <2>1, StutterInv
<1> QED
  BY <1>1, InitInv, PTL DEF Spec

(* Whatever the threads of client.c interleave, every variable keeps its   *)
(* type and no index leaves its table.                                     *)
THEOREM TypeCorrect == Spec => []TypeOK
  BY Invariant, PTL DEF IInv

(* client_alloc never gives a slot to a second connection while the thread *)
(* of the first still runs, in spite of the unlocked writes of c->state.   *)
THEOREM SlotOwnership == Spec => []ThreadOwnsSlot
  BY Invariant, PTL DEF IInv

(* The table of topic.c never holds a subscription of a connection whose   *)
(* client_free is past topic_unsubscribe_all.                              *)
THEOREM NoDanglingSubs == Spec => []SubsHaveThread
  BY Invariant, PTL DEF IInv

(* session_find_or_create never leaves two sessions of one identifier.     *)
THEOREM UniqueSessions == Spec => []SessionKeysUnique
  BY Invariant, PTL DEF IInv

----------------------------------------------------------------------------
(* Wills.                                                                  *)

(* The history of the wills.  Running threads have connections of their    *)
(* own; before handle_connect has stored the identifier there is no will;  *)
(* a will that a slot holds is registered and nothing else.                *)
WillsOK ==
    /\ nconn \in 0 .. MaxConn
    /\ cn \in [Slot -> 0 .. MaxConn]
    /\ fate \in [1 .. MaxConn -> {"none", "registered", "published", "withdrawn"}]
    /\ \A c \in Slot : pc[c] # "none" =>
         /\ cn[c] \in 1 .. nconn
         /\ pc[c] \in {"first", "takeover", "identify"} =>
              has_will[c] = None /\ fate[cn[c]] = "none"
         /\ has_will[c] # None => fate[cn[c]] = "registered"
         /\ \A d \in Slot : pc[d] # "none" /\ cn[c] = cn[d] => c = d
    /\ \A n \in 1 .. MaxConn : n > nconn => fate[n] = "none"

(* A step that touches no will: no thread starts or goes back to CONNECT.  *)
KeepsWills ==
    /\ UNCHANGED <<nconn, cn, fate, has_will>>
    /\ \A d \in Slot : pc'[d] # pc[d] =>
         pc[d] # "none" /\ (pc'[d] \in {"takeover", "identify"} => pc[d] \in {"first", "takeover"})
    /\ \A d \in Slot : pc'[d] = "first" => pc[d] = "first"

(* Only Identify, PublishWill and Disconnect touch a will that is          *)
(* registered, and only for the connection of the thread that runs.        *)
LEMMA KeepsWillsStep ==
    ASSUME TypeOK, LocalsOK, Next
    PROVE  \/ KeepsWills \/ Accept \/ AcceptFail
           \/ \E c \in Slot : Identify(c) \/ PublishWill(c) \/ Disconnect(c)
<1> SUFFICES ASSUME NEW c \in Slot, PeerGone(c) \/ Thread(c),
                    ~(Identify(c) \/ PublishWill(c) \/ Disconnect(c))
             PROVE  KeepsWills
  BY DEF Next
<1>0. pc \in [Slot -> Label]
  BY DEF TypeOK
<1>1. CASE PeerGone(c) \/ Connecting(c)
  BY <1>0, <1>1 DEF KeepsWills, PeerGone, Connecting, FirstBad, RejectConnect, ParseConnect,
     Goto, Fails, poolVars, threadVars, bindVars, histVars
<1>2. CASE Opening(c)
  BY <1>0, <1>2 DEF KeepsWills, Opening, Takeover, Identify, OpenSession, RestoreSub,
       RestoreEnd, Online, Drain,
     Goto, poolVars, threadVars, bindVars, histVars
<1>3. CASE Publishing(c)
  <2>1. pc[c] = "send" => pub[c].ret \in {"loop", "persist", "unsub"}
    BY DEF LocalsOK
  <2> QED
    BY <1>0, <1>3, <2>1 DEF KeepsWills, Publishing, SendOne, StoreOne, OfflinePublish,
     Goto, poolVars, threadVars, bindVars, histVars
<1>4. CASE Freeing(c)
  BY <1>0, <1>4 DEF KeepsWills, Freeing, FreeClose, PublishWill, Persist, SaveSubs, SavePick,
       SaveWrite, SaveEnd,
     UnsubAll, DeleteSession, Release, AfterWill, Goto, poolVars, threadVars, bindVars, histVars
<1>5. CASE Leaving(c)
  BY <1>0, <1>5 DEF KeepsWills, Leaving, RecvError, LoopExit, InLoop, Goto, poolVars,
       threadVars, bindVars, histVars
<1>6. CASE Handling(c)
  BY <1>0, <1>6 DEF KeepsWills, Handling, Publish, Subscribe, Unsubscribe, PubAck, Retry, Ping,
       Disconnect, ProtocolError,
     InLoop, Goto, poolVars, threadVars, bindVars, histVars
<1> QED
  BY <1>1, <1>2, <1>3, <1>4, <1>5, <1>6 DEF Thread

(* What a step may do to the fates of the wills. *)
FatesFinal ==
    \A n \in DOMAIN fate :
        /\ fate'[n] # "wrong"
        /\ fate[n] \in {"published", "withdrawn"} => fate'[n] = fate[n]

(* Every step keeps the wills of connections, and no will changes its fate *)
(* once it is published or withdrawn.                                      *)
LEMMA WillStep ==
    ASSUME TypeOK, LocalsOK, ThreadOwnsSlot, WillsOK, Next
    PROVE  WillsOK' /\ FatesFinal
<1>0. /\ pc \in [Slot -> Label]
      /\ has_will \in [Slot -> Will \cup {None}]
      /\ MaxConn \in Nat
  BY InputsAssumption DEF TypeOK
<1>1. CASE KeepsWills
  <2>1. \A d \in Slot : pc'[d] # "none" =>
          /\ pc[d] # "none"
          /\ pc'[d] \in {"first", "takeover", "identify"} => pc[d] \in {"first", "takeover", "identify"}
    BY <1>0, <1>1 DEF KeepsWills
  <2> QED
    BY <1>0, <1>1, <2>1 DEF KeepsWills, WillsOK, FatesFinal
<1>2. CASE Accept
  <2>1. PICK s \in Slot : /\ pc[s] = "none" /\ pc' = [pc EXCEPT ![s] = "first"]
                         /\ cn' = [cn EXCEPT ![s] = nconn + 1]
                         /\ has_will' = [has_will EXCEPT ![s] = None]
    BY <1>2, FreeSlotFree DEF Accept, ThreadOwnsSlot, Goto
  <2>2. nconn' = nconn + 1 /\ nconn < MaxConn /\ fate' = fate
    BY <1>2 DEF Accept
  <2>3. WillsOK'
    BY <1>0, <2>1, <2>2 DEF WillsOK
  <2> QED
    BY <1>0, <2>2, <2>3 DEF WillsOK, FatesFinal
<1>3. CASE AcceptFail
  <2>1. FreeSlot \in Slot /\ pc[FreeSlot] = "none"
    BY <1>3, FreeSlotFree DEF AcceptFail, ThreadOwnsSlot
  <2>2. /\ UNCHANGED <<pc, cn, nconn, fate>>
        /\ \A d \in Slot : pc[d] # "none" => has_will'[d] = has_will[d]
    BY <1>0, <1>3, <2>1 DEF AcceptFail, threadVars, histVars
  <2> QED
    BY <1>0, <2>2 DEF WillsOK, FatesFinal
<1>4. ASSUME NEW c \in Slot, Identify(c) PROVE WillsOK' /\ FatesFinal
  <2>1. /\ UNCHANGED <<cn, nconn>> /\ pc[c] = "identify" /\ pc' = [pc EXCEPT ![c] = "session"]
        /\ has_will' = [has_will EXCEPT ![c] = conn[c].will]
        /\ fate' = IF conn[c].will = None THEN fate ELSE [fate EXCEPT ![cn[c]] = "registered"]
    BY <1>4 DEF Identify, Goto
  <2>2. CASE conn[c].will = None
    BY <1>0, <2>1, <2>2 DEF WillsOK, FatesFinal
  <2>3. CASE conn[c].will # None
    <3>1. fate' = [fate EXCEPT ![cn[c]] = "registered"]
      BY <2>1, <2>3
    <3>2. cn[c] \in 1 .. nconn /\ fate[cn[c]] = "none"
      BY <2>1 DEF WillsOK
    <3>3. WillsOK'
      BY <1>0, <2>1, <3>1, <3>2 DEF WillsOK
    <3> QED
      BY <3>1, <3>2, <3>3 DEF WillsOK, FatesFinal
  <2> QED
    BY <2>2, <2>3
<1>5. ASSUME NEW c \in Slot, PublishWill(c) PROVE WillsOK' /\ FatesFinal
  <2>1. /\ UNCHANGED <<cn, nconn>> /\ pc[c] = "will" /\ pc' = [pc EXCEPT ![c] = "send"]
        /\ has_will' = [has_will EXCEPT ![c] = None]
        /\ fate' = [fate EXCEPT ![cn[c]] = IF @ = "registered" THEN "published" ELSE "wrong"]
    BY <1>5 DEF PublishWill, Goto
  <2>2. has_will[c] # None
    BY <2>1, NamesAssumption DEF LocalsOK
  <2>3. cn[c] \in 1 .. nconn /\ fate[cn[c]] = "registered"
    BY <2>1, <2>2 DEF WillsOK
  <2>4. fate' = [fate EXCEPT ![cn[c]] = "published"]
    BY <2>1, <2>3
  <2>5. WillsOK'
    BY <1>0, <2>1, <2>3, <2>4 DEF WillsOK
  <2> QED
    BY <2>3, <2>4, <2>5 DEF WillsOK, FatesFinal
<1>6. ASSUME NEW c \in Slot, Disconnect(c) PROVE WillsOK' /\ FatesFinal
  <2>1. /\ UNCHANGED <<cn, nconn, pc>> /\ pc[c] = "loop"
        /\ has_will' = [has_will EXCEPT ![c] = None]
        /\ fate' = IF has_will[c] = None THEN fate ELSE [fate EXCEPT ![cn[c]] = "withdrawn"]
    BY <1>6 DEF Disconnect, InLoop, threadVars
  <2>2. CASE has_will[c] = None
    BY <1>0, <2>1, <2>2 DEF WillsOK, FatesFinal
  <2>3. CASE has_will[c] # None
    <3>1. cn[c] \in 1 .. nconn /\ fate[cn[c]] = "registered"
      BY <2>1, <2>3 DEF WillsOK
    <3>2. fate' = [fate EXCEPT ![cn[c]] = "withdrawn"]
      BY <2>1, <2>3
    <3>3. WillsOK'
      BY <1>0, <2>1, <3>1, <3>2 DEF WillsOK
    <3> QED
      BY <3>1, <3>2, <3>3 DEF WillsOK, FatesFinal
  <2> QED
    BY <2>2, <2>3
<1> QED
  BY <1>1, <1>2, <1>3, <1>4, <1>5, <1>6, KeepsWillsStep

(* A will is published at most once and never after the DISCONNECT of its  *)
(* connection, whoever takes over, fails or leaves in between.             *)
THEOREM WillIsFinal == Spec => WillFinal
<1>1. Init => WillsOK
  BY InputsAssumption DEF Init, WillsOK
<1>2. IInv /\ WillsOK /\ [Next]_vars => WillsOK'
  <2>1. ASSUME WillsOK, UNCHANGED vars PROVE WillsOK'
    BY <2>1 DEF WillsOK, vars, poolVars, threadVars, histVars
  <2> QED
    BY <2>1, WillStep DEF IInv
<1>3. IInv /\ WillsOK /\ [Next]_vars => [FatesFinal]_vars
  BY WillStep DEF IInv
<1>4. WillFinal <=> [][FatesFinal]_vars
  BY DEF WillFinal, FatesFinal
<1> QED
  BY <1>1, <1>2, <1>3, <1>4, Invariant, PTL DEF Spec

----------------------------------------------------------------------------
(* No message is lost: the invariant.                                      *)

(* A thread runs on slot c. *)
Live(c) == pc[c] # "none"

(* The thread of a slot has not stored an identifier yet: handle_connect   *)
(* stores it after client_takeover.                                        *)
Before == {"first", "takeover", "identify"}

(* The thread of c serves identifier p. *)
Serves(c, p) == Live(c) /\ client_id[c] = p

(* A publish in progress: its message is held while the thread sends, it   *)
(* returns to client_free's clean-up as clean_session says, and            *)
(* session_enqueue was given the session of the thread.                    *)
PubOK ==
    \A c \in Slot :
        /\ pub[c].msg # None => pc[c] = "send"
        /\ pc[c] = "send" => (pub[c].ret = "unsub" => clean_session[c])
        /\ pc[c] = "send" => (pub[c].ret = "persist" => ~clean_session[c])
        /\ pc[c] = "inflights" /\ put[c] # None => put[c].to = sess[c]

(* The identifier and clean_session of a connection at each place of       *)
(* handle_connect, the packet loop and client_free: those of its CONNECT,  *)
(* and none before it.                                                     *)
IdOK ==
    \A c \in Slot :
        /\ pc[c] \in Before => client_id[c] = NoId
        /\ pc[c] \in {"takeover", "identify", "session"} => conn[c].id # NoId \/ conn[c].clean
        /\ pc[c] = "session" => client_id[c] = conn[c].id /\ clean_session[c] = conn[c].clean
        /\ pc[c] \in {"restore", "online", "drain", "persist", "save", "inflights"} => ~clean_session[c]
        /\ pc[c] = "forget" => clean_session[c]
        /\ pc[c] \in {"session", "restore", "online", "drain"} =>
             clean_session[c] \/ client_id[c] # NoId
        /\ pc[c] = "loop" \/ (pc[c] = "send" /\ pub[c].ret = "loop") =>
             state[c] # "CONNECTED" \/ clean_session[c] \/ client_id[c] # NoId

(* In a quiet environment, threads that run on two slots have different    *)
(* identifiers.                                                            *)
OneLive ==
    \A c, d \in Slot :
        Live(c) /\ Live(d) /\ client_id[c] = client_id[d] => c = d \/ client_id[c] = NoId

(* topic_subscribe: one entry per client and filter, at a QoS that was     *)
(* asked for.                                                              *)
SubsUnique ==
    /\ \A s, t \in subs : s.client = t.client /\ s.filter = t.filter => s = t
    /\ \A s \in subs : s.qos \in SubQoS

(* session_save_subs: one saved subscription per filter. *)
SavedUnique ==
    \A i \in Session :
       LET saved == sessions[i].subs IN
         /\ \A j, k \in DOMAIN saved : saved[j].filter = saved[k].filter => j = k
         /\ \A j \in DOMAIN saved : saved[j].qos \in SubQoS

(* A thread that restores, drains or saves has a session in use with its   *)
(* client's identifier.                                                    *)
SessOK ==
    \A c \in Slot :
        pc[c] \in {"restore", "online", "drain", "save", "inflights"} =>
            sessions[sess[c]].in_use /\ sessions[sess[c]].client_id = client_id[c]

(* Durable subscriptions are of identifiers that are not empty; a clean    *)
(* connection has such an identifier only until it discards the session;   *)
(* what is due is due to a durable subscription.                           *)
DurableOK ==
    /\ durable \subseteq ClientId \X Filter
    /\ \A o \in owed : <<o[1], o[3]>> \in durable
    /\ \A c \in Slot, d \in durable :
         Serves(c, d[1]) /\ clean_session[c] => pc[c] = "session"

(* Session i keeps a subscription to f at QoS 1. *)
Saves(i, f) == \E j \in DOMAIN sessions[i].subs : sessions[i].subs[j] = [filter |-> f, qos |-> 1]

(* session_offline_publish serves the subscription of p to f from session  *)
(* i.                                                                      *)
Stored(i, p, f) ==
    sessions[i].in_use /\ sessions[i].client_id = p /\ sessions[i].offline /\ Saves(i, f)

(* The subscriptions of a connection are restored and not yet saved. *)
Served == {"drain", "loop", "send", "free", "will", "persist", "save"}

(* Thread c has the subscriptions and messages of persistent client p. *)
Attached(c, p) == Serves(c, p) /\ ~clean_session[c] /\ pc[c] \in Served

(* The subscription of p to f is in the table of topic.c; while a session  *)
(* is being restored it also stays in the session.                         *)
InTable(p, f) ==
    \E c \in Slot :
        /\ Serves(c, p) /\ ~clean_session[c] /\ pc[c] \in Served \cup {"restore", "online"}
        /\ [client |-> c, filter |-> f, qos |-> 1] \in subs
        /\ pc[c] = "restore" => Saves(sess[c], f)

(* The thread has no part of the session in its hands, or no longer. *)
Away == {"session", "inflights", "unsub", "release"}

(* The subscription of p to f is in a session of p, and no connection of p *)
(* is served from the table: a restore loop has it still to come.          *)
InStore(p, f) ==
    \E i \in Session :
        /\ Stored(i, p, f)
        /\ \A c \in Slot : Serves(c, p) =>
             \/ pc[c] \in Away
             \/ pc[c] = "restore" /\ sess[c] = i /\
                \E j \in DOMAIN sessions[i].subs : j > idx[c] /\ sessions[i].subs[j] = [filter |-> f, qos |-> 1]

(* Every durable subscription is in the table or in a session that is      *)
(* served while the client is offline.                                     *)
SubscriptionKept == \A d \in durable : InTable(d[1], d[2]) \/ InStore(d[1], d[2])

(* A thread carries message n of p from the inflight table to the session  *)
(* queue.                                                                  *)
InSave(p, n) == \E c \in Slot : /\ pc[c] = "inflights" /\ client_id[c] = p
                                /\ put[c] # None /\ put[c].e.msg.n = n

(* A publish in progress will still come to the subscription of p to f:    *)
(* through the offline pass of session.c, or through a target or an entry  *)
(* of client_inflight_store that is not yet written.                       *)
Pending(p, n, f) ==
    \E d \in Slot :
        /\ pub[d].msg # None
        /\ pub[d].msg.n = n /\ pub[d].msg.qos = 1 /\ <<f, pub[d].msg.topic>> \in Match
        /\ \/ \E i \in Session : Stored(i, p, f)
           \/ \E c \in Slot :
                /\ Attached(c, p)
                /\ \/ \E t \in pub[d].targets : t.client = c /\ t.qos = 1
                   \/ put[d] # None /\ put[d].to = c /\ put[d].e.msg.n = n

(* A message that is due to a durable subscription is acknowledged, was    *)
(* shed with a warning, is held, or is on its way.                         *)
Accounted ==
    \A o \in owed : \/ <<o[1], o[2]>> \in acked \cup shed
                    \/ HeldInflight(o[1], o[2])
                    \/ HeldQueued(o[1], o[2])
                    \/ InSave(o[1], o[2])
                    \/ Pending(o[1], o[2], o[3])

(* The inductive invariant of NoSilentLoss. *)
NoLossInv ==
    /\ PubOK /\ IdOK /\ OneLive /\ SubsUnique /\ SavedUnique /\ SessOK /\ DurableOK
    /\ SubscriptionKept
    /\ Accounted

(* Every step keeps what is known of publishes in progress. *)
LEMMA PubStep ==
    ASSUME TypeOK, LocalsOK, ThreadOwnsSlot, PubOK, Next
    PROVE  PubOK'
<1>0. /\ pc \in [Slot -> Label]
      /\ put \in [Slot -> Found \cup {None}]
      /\ pub \in [Slot -> [msg : Msg \cup {None}, targets : SUBSET Target,
                           ret : {"none", "loop", "persist", "unsub"}]]
      /\ sess \in [Slot -> Session \cup {None}]
      /\ clean_session \in [Slot -> BOOLEAN]
  BY DEF TypeOK
<1>1. CASE Accept
  <2>1. FreeSlot \in Slot /\ pc[FreeSlot] = "none" /\ pc' = [pc EXCEPT ![FreeSlot] = "first"]
    BY <1>1, FreeSlotFree DEF Accept, ThreadOwnsSlot, Goto
  <2>2. UNCHANGED <<pub, put, sess>> /\ clean_session' = [clean_session EXCEPT ![FreeSlot] = FALSE]
    BY <1>1 DEF Accept
  <2> QED
    BY <1>0, <2>1, <2>2 DEF PubOK
<1>2. CASE AcceptFail
  <2>1. FreeSlot \in Slot /\ pc[FreeSlot] = "none"
    BY <1>2, FreeSlotFree DEF AcceptFail, ThreadOwnsSlot
  <2>2. UNCHANGED <<pc, pub, put, sess>> /\ clean_session' = [clean_session EXCEPT ![FreeSlot] = FALSE]
    BY <1>2 DEF AcceptFail, threadVars
  <2> QED
    BY <1>0, <2>1, <2>2 DEF PubOK
<1> SUFFICES ASSUME NEW c \in Slot, PeerGone(c) \/ Thread(c) PROVE PubOK'
  BY <1>1, <1>2 DEF Next
<1>3. CASE PeerGone(c) \/ Connecting(c)
  BY <1>0, <1>3 DEF PubOK, PeerGone, Connecting, FirstBad, RejectConnect, ParseConnect,
     Goto, Fails, poolVars, threadVars, bindVars
<1>4. CASE Opening(c)
  <2>1. CASE OpenSession(c)
    <3>1. /\ pc[c] = "session" /\ pc' \in {[pc EXCEPT ![c] = "loop"], [pc EXCEPT ![c] = "restore"]}
          /\ \A d \in Slot \ {c} : sess'[d] = sess[d]
          /\ UNCHANGED <<pub, put, clean_session>>
      BY <1>0, <2>1 DEF OpenSession, Goto, bindVars
    <3> QED
      BY <1>0, <3>1 DEF PubOK
  <2>2. CASE Drain(c)
    <3>1. /\ pc[c] = "drain" /\ pc' \in {[pc EXCEPT ![c] = "loop"], [pc EXCEPT ![c] = "drain"]}
          /\ UNCHANGED <<pub, put, sess, clean_session>>
      BY <1>0, <2>2 DEF Drain, Goto, bindVars
    <3> QED
      BY <1>0, <3>1 DEF PubOK
  <2>3. CASE Takeover(c) \/ Identify(c) \/ RestoreSub(c) \/ RestoreEnd(c) \/ Online(c)
    BY <1>0, <2>3 DEF PubOK, Takeover, Identify, RestoreSub, RestoreEnd, Online, Goto,
         poolVars, bindVars
  <2> QED
    BY <1>4, <2>1, <2>2, <2>3 DEF Opening
<1>5. CASE Publishing(c)
  <2>1. CASE SendOne(c)
    BY <1>0, <2>1 DEF PubOK, SendOne, bindVars
  <2>2. CASE StoreOne(c)
    BY <1>0, <2>2 DEF PubOK, StoreOne, bindVars
  <2>3. CASE OfflinePublish(c)
    BY <1>0, <2>3 DEF PubOK, LocalsOK, OfflinePublish, NoPub, Goto, bindVars
  <2> QED
    BY <1>5, <2>1, <2>2, <2>3 DEF Publishing
<1>6. CASE Freeing(c)
  <2>1. CASE PublishWill(c)
    <3>1. PICK m \in Msg : Fanout(c, m, AfterWill(c))
      <4>1. npub + 1 \in MsgNo /\ has_will[c] \in Will
        BY <2>1 DEF PublishWill, LocalsOK, TypeOK, MsgNo
      <4> QED
        BY <2>1, <4>1 DEF PublishWill, Msg, Will
    <3>2. AfterWill(c) \in {"loop", "persist", "unsub"}
      BY DEF AfterWill
    <3>3. /\ pub'[c].ret = AfterWill(c)
          /\ \A d \in Slot : d # c => pub'[d] = pub[d]
      BY <3>1, <3>2, FanoutType
    <3>4. UNCHANGED <<sess, put, clean_session>> /\ pc' = [pc EXCEPT ![c] = "send"] /\ pc[c] = "will"
      BY <2>1 DEF PublishWill, Goto
    <3> QED
      BY <1>0, <3>3, <3>4 DEF PubOK, AfterWill
  <2>2. CASE Persist(c)
    BY <1>0, <2>2 DEF PubOK, LocalsOK, Persist, Goto, poolVars
  <2>3. CASE SavePick(c)
    BY <1>0, <2>3 DEF PubOK, LocalsOK, SavePick, poolVars
  <2>4. CASE \/ FreeClose(c) \/ SaveSubs(c) \/ SaveWrite(c) \/ SaveEnd(c)
             \/ UnsubAll(c) \/ DeleteSession(c) \/ Release(c)
    BY <1>0, <2>4 DEF PubOK, LocalsOK, FreeClose, SaveSubs, SaveWrite, SaveEnd,
       UnsubAll, DeleteSession, Release, AfterWill, Goto, poolVars, threadVars, bindVars
  <2> QED
    BY <1>6, <2>1, <2>2, <2>3, <2>4 DEF Freeing
<1>7. CASE Leaving(c)
  BY <1>0, <1>7 DEF PubOK, Leaving, RecvError, LoopExit, InLoop, Goto, poolVars
<1>8. CASE Handling(c)
  <2>1. ASSUME NEW t \in Topic, NEW q \in PubQoS, Publish(c, t, q) PROVE PubOK'
    <3>1. PICK m \in Msg : Fanout(c, m, "loop")
      <4>1. npub + 1 \in MsgNo /\ q \in QoS
        BY <2>1, InputsAssumption DEF TypeOK, MsgNo
      <4> QED
        BY <2>1, <4>1 DEF Publish, Msg
    <3>3. /\ pub'[c].ret = "loop"
          /\ \A d \in Slot : d # c => pub'[d] = pub[d]
      BY <3>1, FanoutType
    <3>4. UNCHANGED <<sess, put, clean_session>> /\ pc' = [pc EXCEPT ![c] = "send"] /\ pc[c] = "loop"
      BY <2>1 DEF Publish, Goto, bindVars
    <3> QED
      BY <1>0, <3>3, <3>4 DEF PubOK
  <2>2. CASE \/ \E f \in Filter, q \in SubQoS : Subscribe(c, f, q)
             \/ \E f \in Filter : Unsubscribe(c, f)
             \/ \E w \in wire[c] : PubAck(c, w)
             \/ Retry(c) \/ Ping(c) \/ Disconnect(c) \/ ProtocolError(c)
    BY <1>0, <2>2 DEF PubOK, Subscribe, Unsubscribe, PubAck, Retry, Ping, Disconnect,
         ProtocolError,
       threadVars, bindVars
  <2> QED
    BY <1>8, <2>1, <2>2 DEF Handling
<1> QED
  BY <1>3, <1>4, <1>5, <1>6, <1>7, <1>8 DEF Thread

(* A step of the thread of c that begins to publish m. *)
Starts(c, m, ret) ==
    /\ Fanout(c, m, ret)
    /\ pub'[c].msg = m /\ pub'[c].ret = ret
    /\ \A d \in Slot : d # c => pub'[d] = pub[d]
    /\ \/ ret = "loop" /\ InLoop(c)
       \/ ret = AfterWill(c) /\ pc[c] = "will"
    /\ pc' = [pc EXCEPT ![c] = "send"]
    /\ UNCHANGED <<state, client_id, clean_session, inflight, conn, sess, idx, put,
                   subs, sessions, durable, acked, shed>>

(* A publish of a client and that of a will start in the same way. *)
LEMMA StartsPublish ==
    ASSUME TypeOK, LocalsOK, NEW c \in Slot,
           PublishWill(c) \/ \E t \in Topic, q \in PubQoS : Publish(c, t, q)
    PROVE  \E m \in Msg, ret \in {"loop", "persist", "unsub"} : Starts(c, m, ret)
<1>1. CASE PublishWill(c)
  <2> DEFINE m == [n |-> npub + 1, topic |-> has_will[c].topic, qos |-> has_will[c].qos]
  <2>1. m \in Msg
    BY <1>1 DEF PublishWill, LocalsOK, TypeOK, MsgNo, Msg, Will
  <2>2. Fanout(c, m, AfterWill(c))
    BY <1>1 DEF PublishWill
  <2>3. AfterWill(c) \in {"loop", "persist", "unsub"}
    BY DEF AfterWill
  <2> HIDE DEF m
  <2> QED
    BY <1>1, <2>1, <2>2, <2>3, FanoutType DEF PublishWill, Starts, Goto
<1>2. ASSUME NEW t \in Topic, NEW q \in PubQoS, Publish(c, t, q)
      PROVE  \E m \in Msg, ret \in {"loop", "persist", "unsub"} : Starts(c, m, ret)
  <2> DEFINE m == [n |-> npub + 1, topic |-> t, qos |-> q]
  <2>1. m \in Msg
    BY <1>2, InputsAssumption DEF TypeOK, MsgNo, Msg
  <2>2. Fanout(c, m, "loop")
    BY <1>2 DEF Publish
  <2> HIDE DEF m
  <2> QED
    BY <1>2, <2>1, <2>2, FanoutType DEF Publish, Starts, Goto, InLoop, bindVars
<1> QED
  BY <1>1, <1>2

(* What send() does to the states: no slot becomes CONNECTED. *)
LEMMA IdStep ==
    ASSUME TypeOK, LocalsOK, ThreadOwnsSlot, PubOK, IdOK, Next
    PROVE  IdOK'
<1>0. /\ pc \in [Slot -> Label]
      /\ state \in [Slot -> {"FREE", "CONNECTED", "DISCONNECTING"}]
      /\ client_id \in [Slot -> ClientId \cup {NoId}]
      /\ clean_session \in [Slot -> BOOLEAN]
      /\ conn \in [Slot -> Conn \cup {None}]
      /\ pub \in [Slot -> [msg : Msg \cup {None}, targets : SUBSET Target,
                           ret : {"none", "loop", "persist", "unsub"}]]
  BY DEF TypeOK
<1>1. CASE Accept
  <2>1. FreeSlot \in Slot /\ pc[FreeSlot] = "none" /\ pc' = [pc EXCEPT ![FreeSlot] = "first"]
    BY <1>1, FreeSlotFree DEF Accept, ThreadOwnsSlot, Goto
  <2>2. /\ UNCHANGED <<pub, conn>>
        /\ clean_session' = [clean_session EXCEPT ![FreeSlot] = FALSE]
        /\ client_id' = [client_id EXCEPT ![FreeSlot] = NoId]
        /\ state' = [state EXCEPT ![FreeSlot] = "CONNECTED"]
    BY <1>1 DEF Accept
  <2> QED
    BY <1>0, <2>1, <2>2 DEF IdOK, Before
<1>2. CASE AcceptFail
  <2>1. FreeSlot \in Slot /\ pc[FreeSlot] = "none"
    BY <1>2, FreeSlotFree DEF AcceptFail, ThreadOwnsSlot
  <2>2. /\ UNCHANGED <<pc, pub, state, conn>>
        /\ clean_session' = [clean_session EXCEPT ![FreeSlot] = FALSE]
        /\ client_id' = [client_id EXCEPT ![FreeSlot] = NoId]
    BY <1>2 DEF AcceptFail, threadVars
  <2> QED
    BY <1>0, <2>1, <2>2 DEF IdOK, Before
<1> SUFFICES ASSUME NEW c \in Slot, PeerGone(c) \/ Thread(c) PROVE IdOK'
  BY <1>1, <1>2 DEF Next
<1>3. CASE PeerGone(c) \/ Connecting(c)
  BY <1>0, <1>3 DEF IdOK, Before, PeerGone, Connecting, FirstBad, RejectConnect, ParseConnect,
     Goto, Fails, poolVars, threadVars, bindVars
<1>4. CASE Opening(c)
  <2>1. CASE OpenSession(c)
    <3>1. /\ pc[c] = "session"
          /\ \/ pc' = [pc EXCEPT ![c] = "loop"]
             \/ pc' = [pc EXCEPT ![c] = "restore"] /\ ~conn[c].clean
          /\ UNCHANGED <<pub, clean_session, client_id, conn>>
      BY <2>1 DEF OpenSession, Goto, bindVars
    <3>2. \A d \in Slot : state'[d] = "CONNECTED" => state[d] = "CONNECTED"
      BY <2>1, ClientSendState DEF OpenSession
    <3> QED
      BY <1>0, <3>1, <3>2 DEF IdOK, Before
  <2>2. CASE Drain(c)
    <3>1. /\ pc[c] = "drain" /\ pc' \in {[pc EXCEPT ![c] = "loop"], [pc EXCEPT ![c] = "drain"]}
          /\ UNCHANGED <<pub, clean_session, client_id, conn>>
      BY <2>2 DEF Drain, Goto, bindVars
    <3>2. \A d \in Slot : state'[d] = "CONNECTED" => state[d] = "CONNECTED"
      BY <1>0, <2>2, ClientSendState DEF Drain
    <3> QED
      BY <1>0, <3>1, <3>2 DEF IdOK, Before
  <2>3. CASE Takeover(c)
    BY <1>0, <2>3 DEF IdOK, Before, Takeover, Goto, bindVars
  <2>4. CASE Identify(c)
    BY <1>0, <2>4 DEF IdOK, Before, LocalsOK, Identify, Goto, Conn
  <2>5. CASE RestoreSub(c) \/ RestoreEnd(c) \/ Online(c)
    BY <1>0, <2>5 DEF IdOK, Before, RestoreSub, RestoreEnd, Online, Goto, poolVars
  <2> QED
    BY <1>4, <2>1, <2>2, <2>3, <2>4, <2>5 DEF Opening
<1>5. CASE Publishing(c)
  <2>1. CASE SendOne(c)
    <3>1. \A d \in Slot : state'[d] = "CONNECTED" => state[d] = "CONNECTED"
      <4>1. PICK t \in pub[c].targets : \E P : ClientSend(t.client, P)
        BY <2>1 DEF SendOne
      <4>2. t.client \in Slot
        BY <1>0, <4>1 DEF Target
      <4> QED
        BY <4>1, <4>2, ClientSendState
    <3>2. UNCHANGED <<pc, client_id, clean_session, conn>> /\ \A d \in Slot : pub'[d].ret = pub[d].ret
      BY <1>0, <2>1 DEF SendOne, bindVars
    <3> QED
      BY <1>0, <3>1, <3>2 DEF IdOK, Before
  <2>2. CASE StoreOne(c)
    BY <1>0, <2>2 DEF IdOK, Before, StoreOne, bindVars
  <2>3. CASE OfflinePublish(c)
    <3>1. \A d \in Slot : state'[d] = "CONNECTED" => state[d] = "CONNECTED"
      BY <1>0, <2>3, ClientSendState DEF OfflinePublish
    <3>2. /\ UNCHANGED <<client_id, clean_session, conn>>
          /\ \A d \in Slot \ {c} : pub'[d] = pub[d]
          /\ pc' = [pc EXCEPT ![c] = pub[c].ret] /\ pc[c] = "send"
          /\ pub[c].ret \in {"loop", "persist", "unsub"}
      BY <1>0, <2>3 DEF OfflinePublish, Goto, bindVars, LocalsOK
    <3> QED
      BY <1>0, <3>1, <3>2 DEF IdOK, Before, PubOK
  <2> QED
    BY <1>5, <2>1, <2>2, <2>3 DEF Publishing
<1>6. CASE Freeing(c)
  <2>1. CASE PublishWill(c)
    <3>1. PICK m \in Msg, ret \in {"loop", "persist", "unsub"} : Starts(c, m, ret)
      BY <2>1, StartsPublish
    <3> QED
      BY <1>0, <3>1 DEF Starts, IdOK, Before, InLoop, AfterWill
  <2>2. CASE \/ FreeClose(c) \/ Persist(c) \/ SaveSubs(c) \/ SavePick(c) \/ SaveWrite(c) \/ SaveEnd(c)
             \/ UnsubAll(c) \/ DeleteSession(c) \/ Release(c)
    BY <1>0, <2>2 DEF IdOK, Before, FreeClose, Persist, SaveSubs, SavePick, SaveWrite, SaveEnd,
       UnsubAll, DeleteSession, Release, AfterWill, Goto, poolVars, threadVars, bindVars
  <2> QED
    BY <1>6, <2>1, <2>2 DEF Freeing
<1>7. CASE Leaving(c)
  BY <1>0, <1>7 DEF IdOK, Before, Leaving, RecvError, LoopExit, InLoop, Goto, poolVars
<1>8. CASE Handling(c)
  <2>1. CASE \E t \in Topic, q \in PubQoS : Publish(c, t, q)
    <3>1. PICK m \in Msg, ret \in {"loop", "persist", "unsub"} : Starts(c, m, ret)
      BY <2>1, StartsPublish
    <3> QED
      BY <1>0, <3>1 DEF Starts, IdOK, Before, InLoop, AfterWill
  <2>2. CASE \/ \E f \in Filter, q \in SubQoS : Subscribe(c, f, q)
             \/ \E f \in Filter : Unsubscribe(c, f)
             \/ \E w \in wire[c] : PubAck(c, w)
             \/ Retry(c) \/ Ping(c) \/ Disconnect(c) \/ ProtocolError(c)
    <3>1. \A d \in Slot : state'[d] = "CONNECTED" => state[d] = "CONNECTED"
      BY <1>0, <2>2, ClientSendState DEF Subscribe, Unsubscribe, PubAck, Retry, Ping,
           Disconnect, ProtocolError, Fails
    <3>2. UNCHANGED <<pc, client_id, clean_session, conn, pub>>
      BY <2>2 DEF Subscribe, Unsubscribe, PubAck, Retry, Ping, Disconnect, ProtocolError,
           threadVars, bindVars
    <3> QED
      BY <1>0, <3>1, <3>2 DEF IdOK, Before
  <2> QED
    BY <1>8, <2>1, <2>2 DEF Handling
<1> QED
  BY <1>3, <1>4, <1>5, <1>6, <1>7, <1>8 DEF Thread

(* Identifiers of running threads. *)
LEMMA OneLiveStep ==
    ASSUME TypeOK, LocalsOK, ThreadOwnsSlot, OneLive, Next, Quiet'
    PROVE  OneLive'
<1>0. /\ pc \in [Slot -> Label]
      /\ client_id \in [Slot -> ClientId \cup {NoId}]
  BY DEF TypeOK
<1>1. CASE UNCHANGED client_id /\ \A d \in Slot : pc'[d] # "none" => pc[d] # "none"
  BY <1>1 DEF OneLive, Live
<1>2. CASE Accept
  <2>1. FreeSlot \in Slot
    BY <1>2, FreeSlotFree DEF Accept
  <2>2. /\ pc' = [pc EXCEPT ![FreeSlot] = "first"]
        /\ client_id' = [client_id EXCEPT ![FreeSlot] = NoId]
    BY <1>2 DEF Accept, Goto
  <2> QED
    BY <1>0, <2>1, <2>2 DEF OneLive, Live
<1>3. CASE AcceptFail
  <2>1. FreeSlot \in Slot
    BY <1>3, FreeSlotFree DEF AcceptFail
  <2>2. pc' = pc /\ client_id' = [client_id EXCEPT ![FreeSlot] = NoId]
    BY <1>3 DEF AcceptFail, threadVars
  <2> QED
    BY <1>0, <2>1, <2>2 DEF OneLive, Live
<1>4. ASSUME NEW c \in Slot, Identify(c) PROVE OneLive'
  <2>1. /\ pc[c] = "identify" /\ pc' = [pc EXCEPT ![c] = "session"]
        /\ client_id' = [client_id EXCEPT ![c] = conn[c].id]
        /\ conn' = conn
    BY <1>4 DEF Identify, Goto
  <2>2. \A d \in Slot \ {c} : client_id'[d] = conn[c].id => pc'[d] = "none"
    BY <1>0, <2>1 DEF Quiet
  <2> QED
    BY <1>0, <2>1, <2>2 DEF OneLive, Live
<1>5. ASSUME NEW c \in Slot, PeerGone(c) \/ Thread(c), ~Identify(c)
      PROVE  UNCHANGED client_id /\ \A d \in Slot : pc'[d] # "none" => pc[d] # "none"
  <2>1. CASE PeerGone(c) \/ Connecting(c)
    BY <1>0, <2>1 DEF PeerGone, Connecting, FirstBad, RejectConnect, ParseConnect, Goto,
         poolVars, threadVars, bindVars
  <2>2. CASE Opening(c)
    BY <1>0, <1>5, <2>2 DEF Opening, Takeover, OpenSession, RestoreSub, RestoreEnd, Online,
         Drain, Goto, poolVars, threadVars, bindVars
  <2>3. CASE Publishing(c) \/ Freeing(c)
    BY <1>0, <2>3 DEF Publishing, SendOne, StoreOne, OfflinePublish,
       Freeing, FreeClose, PublishWill, Persist, SaveSubs, SavePick, SaveWrite, SaveEnd, UnsubAll, DeleteSession, Release,
       AfterWill, Goto, poolVars, threadVars, bindVars
  <2>4. CASE Leaving(c) \/ Handling(c)
    BY <1>0, <2>4 DEF Leaving, RecvError, LoopExit, InLoop, Handling, Publish, Subscribe,
         Unsubscribe, PubAck, Retry, Ping,
       Disconnect, ProtocolError, Goto, poolVars, threadVars, bindVars
  <2> QED
    BY <1>5, <2>1, <2>2, <2>3, <2>4 DEF Thread
<1> QED
  BY <1>1, <1>2, <1>3, <1>4, <1>5 DEF Next

(* A step that changes queues and counters of the sessions at most. *)
KeepsSessions ==
    \A i \in Session :
        /\ sessions'[i].in_use = sessions[i].in_use
        /\ sessions'[i].client_id = sessions[i].client_id
        /\ sessions'[i].offline = sessions[i].offline
        /\ sessions'[i].subs = sessions[i].subs

(* Only the CONNECT, client_free's save and the deletion change more of a  *)
(* session than its queue and counter.                                     *)
LEMMA KeepsSessionsStep ==
    ASSUME TypeOK, LocalsOK, NEW c \in Slot, PeerGone(c) \/ Thread(c),
           ~(OpenSession(c) \/ Online(c) \/ Persist(c) \/ SaveSubs(c) \/ DeleteSession(c))
    PROVE  KeepsSessions
<1>0. sessions \in [Session -> SessionRec]
  BY DEF TypeOK
<1>1. CASE UNCHANGED sessions
  BY <1>1 DEF KeepsSessions
<1>2. CASE Drain(c)
  <2>1. sess[c] \in Session
    BY <1>2 DEF Drain, LocalsOK
  <2>2. CASE sessions' # sessions
    <3>1. sessions' = [sessions EXCEPT ![sess[c]].queue[idx[c]] = None]
      BY <1>2, <2>2 DEF Drain
    <3> QED
      BY <1>0, <2>1, <3>1 DEF KeepsSessions, SessionRec
  <2> QED
    BY <1>1, <2>2
<1>3. CASE OfflinePublish(c)
  BY <1>0, <1>3 DEF KeepsSessions, OfflinePublish, Queued, SessionRec
<1>4. CASE SaveWrite(c)
  <2>1. sessions' = [sessions EXCEPT ![put[c].to].queue[put[c].at] = put[c].e]
    BY <1>4 DEF SaveWrite
  <2> QED
    BY <1>0, <2>1 DEF KeepsSessions, SessionRec
<1>5. CASE ~(Drain(c) \/ OfflinePublish(c) \/ SaveWrite(c))
  <2>1. CASE PeerGone(c) \/ Connecting(c)
    BY <1>1, <2>1 DEF PeerGone, Connecting, FirstBad, RejectConnect, ParseConnect
  <2>2. CASE Opening(c) \/ Publishing(c)
    BY <1>1, <1>5, <2>2 DEF Opening, Takeover, Identify, RestoreSub, RestoreEnd, Publishing,
         SendOne, StoreOne
  <2>3. CASE Freeing(c)
    BY <1>1, <1>5, <2>3 DEF Freeing, FreeClose, PublishWill, SavePick, SaveEnd, UnsubAll,
         Release
  <2>4. CASE Leaving(c) \/ Handling(c)
    BY <1>1, <2>4 DEF Leaving, RecvError, LoopExit, Handling, Publish, Subscribe, Unsubscribe,
         PubAck, Retry, Ping,
       Disconnect, ProtocolError
  <2> QED
    BY <2>1, <2>2, <2>3, <2>4 DEF Thread
<1> QED
  BY <1>2, <1>3, <1>4, <1>5

(* session_find_or_create: sessions in use are kept, and the session that  *)
(* is returned is in use and has the identifier.                           *)
LEMMA CreateSpec ==
    ASSUME TypeOK, NEW id, sessions' = SessionFindOrCreate(id)
    PROVE  /\ \A i \in Session :
                sessions'[i] = sessions[i]
                \/ (~sessions[i].in_use /\ sessions'[i] = EmptySession(TRUE, id))
           /\ SessionSlot(id) # None =>
                /\ SessionSlot(id) \in Session
                /\ sessions'[SessionSlot(id)].in_use
                /\ sessions'[SessionSlot(id)].client_id = id
<1>0. sessions \in [Session -> SessionRec]
  BY DEF TypeOK
<1>1. CASE SessionSlot(id) = None \/ SessionFind(id) # None
  <2>1. sessions' = sessions
    BY <1>1 DEF SessionFindOrCreate
  <2>2. SessionSlot(id) # None => SessionSlot(id) = SessionFind(id) /\ SessionFind(id) # None
    BY <1>1 DEF SessionSlot
  <2>3. SessionFind(id) # None =>
          /\ SessionFind(id) \in Session
          /\ sessions[SessionFind(id)].in_use
          /\ sessions[SessionFind(id)].client_id = id
    BY SessionFindSpec
  <2>4. \A i \in Session : sessions'[i] = sessions[i]
    BY <2>1
  <2>5. SessionSlot(id) # None =>
          /\ SessionSlot(id) \in Session
          /\ sessions[SessionSlot(id)].in_use
          /\ sessions[SessionSlot(id)].client_id = id
    BY <2>2, <2>3
  <2> QED
    BY <2>4, <2>5
<1>2. CASE SessionSlot(id) # None /\ SessionFind(id) = None
  <2>1. sessions' = [sessions EXCEPT ![SessionSlot(id)] = EmptySession(TRUE, id)]
    BY <1>2 DEF SessionFindOrCreate
  <2>2. SessionSlot(id) \in Session /\ ~sessions[SessionSlot(id)].in_use
    BY <1>2, SessionSlotSpec
  <2>3. EmptySession(TRUE, id).client_id = id /\ EmptySession(TRUE, id).in_use
    BY DEF EmptySession
  <2> DEFINE s == SessionSlot(id)
             e == EmptySession(TRUE, id)
  <2>4. s \in Session /\ ~sessions[s].in_use /\ e.client_id = id /\ e.in_use
    BY <2>2, <2>3
  <2>5. sessions' = [sessions EXCEPT ![s] = e]
    BY <2>1
  <2> HIDE DEF s, e
  <2>6. sessions'[s] = e /\ \A i \in Session \ {s} : sessions'[i] = sessions[i]
    BY <1>0, <2>4, <2>5
  <2>7. \A i \in Session : sessions'[i] = sessions[i] \/ (~sessions[i].in_use /\ sessions'[i] = e)
    <3> TAKE i \in Session
    <3> QED
      BY <2>4, <2>6
  <2>8. s \in Session /\ sessions'[s].in_use /\ sessions'[s].client_id = id
    BY <2>4, <2>6
  <2> QED
    BY <2>7, <2>8 DEF s, e
<1> QED
  BY <1>1, <1>2

(* session_delete ends at most a session of the identifier. *)
LEMMA DeleteSpec ==
    ASSUME TypeOK, NEW id, sessions' = SessionDelete(id)
    PROVE  \A i \in Session :
             /\ sessions'[i].client_id = sessions[i].client_id
             /\ sessions'[i].offline = sessions[i].offline
             /\ sessions'[i].subs = sessions[i].subs
             /\ sessions'[i].queue = sessions[i].queue
             /\ sessions'[i].in_use => sessions[i].in_use
             /\ sessions[i].client_id # id => sessions'[i].in_use = sessions[i].in_use
<1>0. sessions \in [Session -> SessionRec]
  BY DEF TypeOK
<1>1. CASE SessionFind(id) = None
  BY <1>1 DEF SessionDelete
<1>2. CASE SessionFind(id) # None
  <2>1. sessions' = [sessions EXCEPT ![SessionFind(id)].in_use = FALSE]
    BY <1>2 DEF SessionDelete
  <2> DEFINE s == SessionFind(id)
  <2>2. s \in Session /\ sessions[s].client_id = id
    BY <1>2, SessionFindSpec
  <2>3. sessions' = [sessions EXCEPT ![s].in_use = FALSE]
    BY <2>1
  <2> HIDE DEF s
  <2>4. \A i \in Session : i # s => sessions'[i] = sessions[i]
    BY <1>0, <2>2, <2>3
  <2>5. sessions'[s] = [sessions[s] EXCEPT !.in_use = FALSE]
    BY <1>0, <2>2, <2>3
  <2>6. sessions[s] \in SessionRec
    BY <1>0, <2>2
  <2>7. /\ sessions'[s].client_id = sessions[s].client_id
        /\ sessions'[s].offline = sessions[s].offline
        /\ sessions'[s].subs = sessions[s].subs
        /\ sessions'[s].queue = sessions[s].queue
        /\ ~sessions'[s].in_use
    BY <2>5, <2>6 DEF SessionRec
  <2> QED
    BY <2>2, <2>4, <2>7
<1> QED
  BY <1>1, <1>2

(* topic_subscribe keeps one entry for a filter of a client. *)
LEMMA TopicSubscribeUnique ==
    ASSUME SubsUnique, NEW c, NEW f, NEW q \in SubQoS, subs' = TopicSubscribe(c, f, q)
    PROVE  SubsUnique'
  BY DEF SubsUnique, TopicSubscribe

(* topic_subscribe and the unsubscribes keep one entry per client and      *)
(* filter.                                                                 *)
LEMMA SubsUniqueStep ==
    ASSUME TypeOK, LocalsOK, SubsUnique, SavedUnique, Next
    PROVE  SubsUnique'
<1>1. CASE subs' \subseteq subs
  BY <1>1 DEF SubsUnique
<1>2. CASE Accept \/ AcceptFail
  BY <1>1, <1>2 DEF Accept, AcceptFail
<1> SUFFICES ASSUME NEW c \in Slot, PeerGone(c) \/ Thread(c) PROVE SubsUnique'
  BY <1>2 DEF Next
<1>3. CASE RestoreSub(c)
  <2> DEFINE saved == sessions[sess[c]].subs
  <2>1. sess[c] \in Session /\ idx[c] \in Nat /\ saved \in Seq(Saved)
    BY <1>3 DEF RestoreSub, LocalsOK, TypeOK, SessionRec
  <2>2. idx[c] + 1 \in DOMAIN saved
    BY <1>3, <2>1 DEF RestoreSub
  <2>3. saved[idx[c] + 1].qos \in SubQoS
    BY <2>1, <2>2 DEF SavedUnique
  <2>4. subs' = TopicSubscribe(c, saved[idx[c] + 1].filter, saved[idx[c] + 1].qos)
    BY <1>3 DEF RestoreSub
  <2> QED
    BY <2>3, <2>4, TopicSubscribeUnique
<1>4. CASE PeerGone(c) \/ Connecting(c)
  BY <1>1, <1>4 DEF PeerGone, Connecting, FirstBad, RejectConnect, ParseConnect
<1>5. CASE Opening(c) \/ Publishing(c)
  BY <1>1, <1>3, <1>5 DEF Opening, Takeover, Identify, OpenSession, RestoreEnd, Online, Drain,
       Publishing, SendOne, StoreOne, OfflinePublish
<1>6. CASE Freeing(c)
  BY <1>1, <1>6 DEF Freeing, FreeClose, PublishWill, Persist, SaveSubs, SavePick, SaveWrite,
       SaveEnd, UnsubAll,
     DeleteSession, Release, TopicUnsubscribeAll
<1>7. CASE Leaving(c) \/ Handling(c)
  BY <1>1, <1>7, TopicSubscribeUnique DEF Leaving, RecvError, LoopExit, Handling, Publish,
       Subscribe, Unsubscribe, PubAck, Retry, Ping,
       Disconnect, ProtocolError, TopicUnsubscribe
<1> QED
  BY <1>3, <1>4, <1>5, <1>6, <1>7 DEF Thread

(* session_save_subs stores each filter once. *)
LEMMA ClientSubsUnique ==
    ASSUME SubsUnique, NEW c, NEW saved \in ClientSubs(c)
    PROVE  \A j \in DOMAIN saved :
             /\ \E s \in subs : /\ s.client = c
                                /\ s.filter = saved[j].filter /\ s.qos = saved[j].qos
             /\ \A k \in DOMAIN saved : saved[j].filter = saved[k].filter => j = k
<1> DEFINE mine == {[filter |-> s.filter, qos |-> s.qos] : s \in {t \in subs : t.client = c}}
           n == Lesser(Cardinality(mine), SESSION_SUB_MAX)
<1>1. saved \in [1 .. n -> mine] /\ \A i, j \in 1 .. n : saved[i] = saved[j] => i = j
  BY DEF ClientSubs
<1>2. \A m \in mine : \E s \in subs : s.client = c /\ s.filter = m.filter /\ s.qos = m.qos
                                      /\ m = [filter |-> s.filter, qos |-> s.qos]
  OBVIOUS
<1>3. \A j \in DOMAIN saved : saved[j] \in mine
  BY <1>1
<1>4. \A l, m \in mine : l.filter = m.filter => l = m
  BY <1>2 DEF SubsUnique
<1> HIDE DEF n, mine
<1> QED
  BY <1>1, <1>2, <1>3, <1>4

(* Every step keeps one saved subscription per filter. *)
LEMMA SavedUniqueStep ==
    ASSUME TypeOK, LocalsOK, SubsUnique, SavedUnique, Next
    PROVE  SavedUnique'
<1>0. sessions \in [Session -> SessionRec]
  BY DEF TypeOK
<1>1. CASE KeepsSessions
  BY <1>1 DEF KeepsSessions, SavedUnique
<1>2. CASE Accept \/ AcceptFail
  BY <1>2 DEF Accept, AcceptFail, SavedUnique
<1>3. ASSUME NEW id, sessions' = SessionFindOrCreate(id) PROVE SavedUnique'
  <2>1. EmptySession(TRUE, id).subs = <<>>
    BY DEF EmptySession
  <2>2. \A i \in Session : sessions'[i] = sessions[i] \/ sessions'[i] = EmptySession(TRUE, id)
    BY <1>3, CreateSpec
  <2>3. \A i \in Session : sessions'[i].subs = sessions[i].subs \/ sessions'[i].subs = <<>>
    BY <2>1, <2>2
  <2> QED
    BY <2>3 DEF SavedUnique
<1>4. ASSUME NEW id, sessions' = SessionDelete(id) PROVE SavedUnique'
  BY <1>4, DeleteSpec DEF SavedUnique
<1> SUFFICES ASSUME NEW c \in Slot, PeerGone(c) \/ Thread(c) PROVE SavedUnique'
  BY <1>2 DEF Next
<1>5. CASE OpenSession(c) \/ Persist(c) \/ DeleteSession(c)
  BY <1>3, <1>4, <1>5 DEF OpenSession, Persist, DeleteSession
<1>6. CASE Online(c)
  BY <1>0, <1>6 DEF Online, SavedUnique, SessionRec
<1>7. CASE SaveSubs(c)
  <2>1. PICK saved \in ClientSubs(c) :
          sessions' = [sessions EXCEPT ![sess[c]].subs = saved, ![sess[c]].offline = TRUE]
    BY <1>7 DEF SaveSubs
  <2>2. \A i \in Session : sessions'[i].subs = IF i = sess[c] THEN saved ELSE sessions[i].subs
    BY <1>0, <2>1 DEF SessionRec
  <2>3. \A j \in DOMAIN saved : saved[j].qos \in SubQoS
    BY ClientSubsUnique DEF SubsUnique
  <2>4. \A j, k \in DOMAIN saved : saved[j].filter = saved[k].filter => j = k
    BY ClientSubsUnique
  <2> QED
    BY <2>2, <2>3, <2>4 DEF SavedUnique
<1> QED
  BY <1>1, <1>5, <1>6, <1>7, KeepsSessionsStep

(* The thread uses its session_t pointer. *)
HasSession == {"restore", "online", "drain", "save", "inflights"}

(* A session in use that keeps its identifier is still the one of the      *)
(* threads that have it.                                                   *)
LEMMA SessKept ==
    ASSUME SessOK,
           \A i \in Session : /\ sessions[i].in_use => sessions'[i].in_use
                              /\ sessions[i].in_use => sessions'[i].client_id = sessions[i].client_id,
           \A d \in Slot : pc'[d] \in HasSession =>
             /\ pc[d] \in HasSession
             /\ sess'[d] = sess[d] /\ sess[d] \in Session
             /\ client_id'[d] = client_id[d]
    PROVE  SessOK'
  BY DEF SessOK, HasSession

(* Every step leaves the threads the sessions they have, if none deletes   *)
(* the session of another.                                                 *)
LEMMA SessStep ==
    ASSUME TypeOK, LocalsOK, ThreadOwnsSlot, PubOK, IdOK, OneLive, SessOK, Next, ~DeletesUsed
    PROVE  SessOK'
<1>0. /\ pc \in [Slot -> Label]
      /\ client_id \in [Slot -> ClientId \cup {NoId}]
      /\ clean_session \in [Slot -> BOOLEAN]
      /\ sess \in [Slot -> Session \cup {None}]
      /\ sessions \in [Session -> SessionRec]
      /\ \A d \in Slot : pc[d] \in HasSession => sess[d] \in Session
  BY DEF TypeOK, LocalsOK, HasSession
<1>1. CASE Accept
  <2>1. FreeSlot \in Slot /\ pc' = [pc EXCEPT ![FreeSlot] = "first"]
    BY <1>1, FreeSlotFree DEF Accept, Goto
  <2>2. UNCHANGED <<sess, sessions>> /\ client_id' = [client_id EXCEPT ![FreeSlot] = NoId]
    BY <1>1 DEF Accept
  <2> QED
    BY <1>0, <2>1, <2>2 DEF SessOK
<1>2. CASE AcceptFail
  <2>1. FreeSlot \in Slot /\ pc[FreeSlot] = "none"
    BY <1>2, FreeSlotFree DEF AcceptFail, ThreadOwnsSlot
  <2>2. UNCHANGED <<pc, sess, sessions>> /\ client_id' = [client_id EXCEPT ![FreeSlot] = NoId]
    BY <1>2 DEF AcceptFail, threadVars
  <2> QED
    BY <1>0, <2>1, <2>2 DEF SessOK
<1> SUFFICES ASSUME NEW c \in Slot, PeerGone(c) \/ Thread(c) PROVE SessOK'
  BY <1>1, <1>2 DEF Next
<1>3. CASE OpenSession(c)
  <2>1. /\ pc[c] = "session" /\ client_id[c] = conn[c].id /\ clean_session[c] = conn[c].clean
        /\ UNCHANGED client_id
    BY <1>3 DEF OpenSession, IdOK, bindVars
  <2>2. CASE conn[c].clean
    <3>1. sessions' = SessionDelete(conn[c].id) /\ pc' = [pc EXCEPT ![c] = "loop"]
          /\ sess' = [sess EXCEPT ![c] = None]
      BY <1>3, <2>2 DEF OpenSession, Goto
    <3>2. ASSUME NEW d \in Slot, pc'[d] \in HasSession
          PROVE  sessions'[sess'[d]].in_use /\ sessions'[sess'[d]].client_id = client_id'[d]
      <4>1. d # c /\ pc[d] \in HasSession /\ sess'[d] = sess[d] /\ sess[d] \in Session
        BY <1>0, <2>1, <3>1, <3>2 DEF HasSession
      <4>2. sessions[sess[d]].in_use /\ sessions[sess[d]].client_id = client_id[d]
        BY <4>1 DEF SessOK, HasSession
      <4>3. sessions'[sess[d]].client_id = client_id[d]
        BY <3>1, <4>1, <4>2, DeleteSpec
      <4>4. CASE client_id[d] # conn[c].id
        BY <2>1, <3>1, <4>1, <4>2, <4>3, <4>4, DeleteSpec
      <4>5. CASE client_id[d] = conn[c].id
        <5>1. pc[d] \in {"save", "inflights"}
          <6>1. client_id[d] = NoId
            BY <2>1, <4>1, <4>5 DEF OneLive, Live, HasSession
          <6>2. pc[d] \in HasSession => ~clean_session[d]
            BY DEF IdOK, HasSession
          <6> QED
            BY <4>1, <6>1, <6>2 DEF IdOK, HasSession
        <5>2. sessions'[sess[d]].in_use
          BY <4>1, <4>2, <5>1 DEF DeletesUsed
        <5> QED
          BY <2>1, <4>1, <4>3, <5>2
      <4> QED
        BY <4>4, <4>5
    <3> QED
      BY <3>2 DEF SessOK, HasSession
  <2>3. CASE ~conn[c].clean
    <3>1. /\ sessions' = SessionFindOrCreate(conn[c].id)
          /\ sess' = [sess EXCEPT ![c] = SessionFind(conn[c].id)]
          /\ pc' = [pc EXCEPT ![c] = IF SessionFind(conn[c].id) = None THEN "loop" ELSE "restore"]
      BY <1>3, <2>3 DEF OpenSession, Goto
    <3>2. \A i \in Session : sessions[i].in_use => sessions'[i] = sessions[i]
      BY <3>1, CreateSpec
    <3>3. ASSUME NEW d \in Slot, pc'[d] \in HasSession
          PROVE  sessions'[sess'[d]].in_use /\ sessions'[sess'[d]].client_id = client_id'[d]
      <4>1. CASE d # c
        <5>1. pc[d] \in HasSession /\ sess'[d] = sess[d] /\ sess[d] \in Session
          BY <1>0, <3>1, <3>3, <4>1
        <5> QED
          BY <2>1, <3>2, <5>1 DEF SessOK, HasSession
      <4>2. CASE d = c
        <5>1. SessionFind(conn[c].id) # None /\ sess'[c] = SessionFind(conn[c].id)
          BY <1>0, <3>1, <3>3, <4>2 DEF HasSession
        <5> DEFINE i == SessionFind(conn[c].id)
        <5>2. i \in Session /\ sessions[i].in_use /\ sessions[i].client_id = conn[c].id
          BY <5>1, SessionFindSpec
        <5> HIDE DEF i
        <5>3. sessions'[i] = sessions[i]
          BY <3>2, <5>2
        <5>4. sess'[c] = i
          BY <5>1 DEF i
        <5> QED
          BY <2>1, <4>2, <5>2, <5>3, <5>4
      <4> QED
        BY <4>1, <4>2
    <3> QED
      BY <3>3 DEF SessOK, HasSession
  <2> QED
    BY <2>2, <2>3
<1>4. CASE Persist(c)
  <2>1. /\ sessions' = SessionFindOrCreate(client_id[c])
        /\ sess' = [sess EXCEPT ![c] = SessionSlot(client_id[c])]
        /\ pc' = [pc EXCEPT ![c] = IF SessionSlot(client_id[c]) = None THEN "unsub" ELSE "save"]
        /\ UNCHANGED client_id
    BY <1>4 DEF Persist, Goto, poolVars
  <2> DEFINE i == SessionSlot(client_id[c])
  <2>2. \A k \in Session : sessions[k].in_use => sessions'[k] = sessions[k]
    BY <2>1, CreateSpec
  <2>3. i # None => sessions'[i].in_use /\ sessions'[i].client_id = client_id[c]
    BY <2>1, CreateSpec
  <2>4. sess' = [sess EXCEPT ![c] = i] /\ pc' = [pc EXCEPT ![c] = IF i = None THEN "unsub" ELSE "save"]
    BY <2>1
  <2> HIDE DEF i
  <2>5. ASSUME NEW d \in Slot, pc'[d] \in HasSession
        PROVE  sessions'[sess'[d]].in_use /\ sessions'[sess'[d]].client_id = client_id'[d]
    <3>1. CASE d # c
      <4>1. pc[d] \in HasSession /\ sess'[d] = sess[d] /\ sess[d] \in Session
        BY <1>0, <2>4, <2>5, <3>1
      <4> QED
        BY <2>1, <2>2, <4>1 DEF SessOK, HasSession
    <3>2. CASE d = c
      <4>1. i # None /\ sess'[c] = i
        BY <1>0, <2>4, <2>5, <3>2 DEF HasSession
      <4> QED
        BY <2>1, <2>3, <3>2, <4>1
    <3> QED
      BY <3>1, <3>2
  <2> QED
    BY <2>5 DEF SessOK, HasSession
<1>5. CASE DeleteSession(c)
  <2>1. /\ sessions' = SessionDelete(client_id[c]) /\ pc' = [pc EXCEPT ![c] = "release"]
        /\ pc[c] = "forget" /\ UNCHANGED <<client_id, sess>>
    BY <1>5 DEF DeleteSession, Goto, poolVars
  <2>2. ASSUME NEW d \in Slot, pc'[d] \in HasSession
        PROVE  sessions'[sess[d]].in_use /\ sessions'[sess[d]].client_id = client_id[d]
    <3>1. d # c /\ pc[d] \in HasSession /\ sess[d] \in Session
      BY <1>0, <2>1, <2>2 DEF HasSession
    <3>2. sessions[sess[d]].in_use /\ sessions[sess[d]].client_id = client_id[d]
      BY <3>1 DEF SessOK, HasSession
    <3>3. sessions'[sess[d]].client_id = client_id[d]
      BY <2>1, <3>1, <3>2, DeleteSpec
    <3>4. CASE client_id[d] # client_id[c]
      BY <2>1, <3>1, <3>2, <3>3, <3>4, DeleteSpec
    <3>5. CASE client_id[d] = client_id[c]
      <4>1. client_id[d] = NoId
        BY <2>1, <3>1, <3>5 DEF OneLive, Live, HasSession
      <4>2. pc[d] \in {"save", "inflights"}
        BY <3>1, <4>1 DEF IdOK, HasSession
      <4>3. sessions'[sess[d]].in_use
        BY <3>1, <3>2, <4>2 DEF DeletesUsed
      <4> QED
        BY <3>3, <4>3
    <3> QED
      BY <3>4, <3>5
  <2> QED
    BY <2>1, <2>2 DEF SessOK, HasSession
<1>6. CASE Online(c) \/ SaveSubs(c)
  <2>1. /\ pc[c] \in HasSession /\ client_id' = client_id /\ sess' = sess
        /\ \A d \in Slot \ {c} : pc'[d] = pc[d]
    BY <1>0, <1>6 DEF Online, SaveSubs, Goto, poolVars, HasSession
  <2>2. \A i \in Session : sessions'[i].in_use = sessions[i].in_use /\ sessions'[i].client_id = sessions[i].client_id
    <3>1. CASE Online(c)
      BY <1>0, <3>1 DEF Online, SessionRec
    <3>2. CASE SaveSubs(c)
      <4>1. PICK saved : sessions' = [sessions EXCEPT ![sess[c]].subs = saved, ![sess[c]].offline = TRUE]
        BY <3>2 DEF SaveSubs
      <4> QED
        BY <1>0, <4>1 DEF SessionRec
    <3> QED
      BY <1>6, <3>1, <3>2
  <2> QED
    BY <1>0, <2>1, <2>2, SessKept
<1>7. CASE ~(OpenSession(c) \/ Online(c) \/ Persist(c) \/ SaveSubs(c) \/ DeleteSession(c))
  <2>1. \A i \in Session : sessions'[i].in_use = sessions[i].in_use /\ sessions'[i].client_id = sessions[i].client_id
    BY <1>7, KeepsSessionsStep DEF KeepsSessions
  <2>2. \A d \in Slot : pc'[d] \in HasSession =>
             /\ pc[d] \in HasSession
             /\ sess'[d] = sess[d]
             /\ client_id'[d] = client_id[d]
    <3>1. CASE PeerGone(c) \/ Connecting(c)
      BY <1>0, <3>1 DEF PeerGone, Connecting, FirstBad, RejectConnect, ParseConnect, Goto,
           poolVars, threadVars, bindVars, HasSession
    <3>2. CASE Opening(c)
      BY <1>0, <1>7, <3>2 DEF Opening, Takeover, Identify, RestoreSub, RestoreEnd, Drain, Goto,
           poolVars, bindVars, HasSession
    <3>3. CASE Publishing(c)
      BY <1>0, <3>3 DEF Publishing, SendOne, StoreOne, OfflinePublish, Goto, bindVars,
           HasSession, LocalsOK
    <3>4. CASE Freeing(c)
      BY <1>0, <1>7, <3>4 DEF Freeing, FreeClose, PublishWill, SavePick, SaveWrite, SaveEnd,
           UnsubAll, Release,
         AfterWill, Goto, poolVars, bindVars, HasSession
    <3>5. CASE Leaving(c) \/ Handling(c)
      BY <1>0, <3>5 DEF Leaving, RecvError, LoopExit, InLoop, Handling, Publish, Subscribe,
           Unsubscribe, PubAck, Retry, Ping,
         Disconnect, ProtocolError, Goto, poolVars, threadVars, bindVars, HasSession
    <3> QED
      BY <3>1, <3>2, <3>3, <3>4, <3>5 DEF Thread
  <2> QED
    BY <1>0, <2>1, <2>2, SessKept
<1> QED
  BY <1>3, <1>4, <1>5, <1>6, <1>7

(* A step that gives no thread an identifier and serves no CONNECT. *)
KeepsNames ==
    /\ UNCHANGED <<client_id, clean_session>>
    /\ \A d \in Slot : /\ pc'[d] # "none" => pc[d] # "none"
                       /\ pc[d] = "session" => pc'[d] = "session"

(* A thread takes an identifier in handle_connect only, and gives it up    *)
(* when it ends.                                                           *)
LEMMA KeepsNamesStep ==
    ASSUME TypeOK, LocalsOK, NEW c \in Slot, PeerGone(c) \/ Thread(c),
           ~(Identify(c) \/ OpenSession(c))
    PROVE  KeepsNames
<1>0. /\ pc \in [Slot -> Label]
      /\ \A d \in Slot : pc[d] = "send" => pub[d].ret # "none"
  BY DEF TypeOK, LocalsOK
<1>1. CASE PeerGone(c) \/ Connecting(c)
  BY <1>0, <1>1 DEF PeerGone, Connecting, FirstBad, RejectConnect, ParseConnect, Goto,
       poolVars, threadVars, bindVars, KeepsNames
<1>2. CASE Opening(c)
  BY <1>0, <1>2 DEF Opening, Takeover, RestoreSub, RestoreEnd, Online, Drain, Goto, poolVars,
       bindVars, KeepsNames
<1>3. CASE Publishing(c)
  BY <1>0, <1>3 DEF Publishing, SendOne, StoreOne, OfflinePublish, Goto, bindVars, KeepsNames
<1>4. CASE Freeing(c)
  BY <1>0, <1>4 DEF Freeing, FreeClose, PublishWill, Persist, SaveSubs, SavePick, SaveWrite,
       SaveEnd, UnsubAll,
     DeleteSession, Release, AfterWill, Goto, poolVars, bindVars, KeepsNames
<1>5. CASE Leaving(c) \/ Handling(c)
  BY <1>0, <1>5 DEF Leaving, RecvError, LoopExit, InLoop, Handling, Publish, Subscribe,
       Unsubscribe, PubAck, Retry, Ping,
         Disconnect, ProtocolError, Goto, poolVars, threadVars, bindVars, KeepsNames
<1> QED
  BY <1>1, <1>2, <1>3, <1>4, <1>5 DEF Thread

(* What is due is due to a durable subscription. *)
LEMMA DueDurable ==
    ASSUME durable \subseteq ClientId \X Filter, NEW m, NEW o \in Due(m)
    PROVE  /\ m.qos # 0 /\ o[2] = m.n
           /\ <<o[1], o[3]>> \in durable /\ <<o[3], m.topic>> \in Match
<1>1. m.qos # 0
  BY DEF Due
<1>2. PICK d \in durable : o = <<d[1], m.n, d[2]>> /\ <<d[2], m.topic>> \in Match
  BY <1>1 DEF Due
<1>3. d = <<d[1], d[2]>>
  OBVIOUS
<1> QED
  BY <1>1, <1>2, <1>3

(* Fewer durable subscriptions and unchanged identifiers keep DurableOK. *)
LEMMA DurableKept ==
    ASSUME DurableOK, KeepsNames, durable' \subseteq durable,
           \A o \in owed' : <<o[1], o[3]>> \in durable'
    PROVE  DurableOK'
  BY DEF DurableOK, KeepsNames, Serves, Live

(* Every step keeps DurableOK: subscriptions become durable in the packet  *)
(* loop, where the identifier of a persistent connection is not empty.     *)
LEMMA DurableStep ==
    ASSUME TypeOK, LocalsOK, ThreadOwnsSlot, IdOK, OneLive, DurableOK, Next
    PROVE  DurableOK'
<1>0. /\ pc \in [Slot -> Label]
      /\ client_id \in [Slot -> ClientId \cup {NoId}]
      /\ clean_session \in [Slot -> BOOLEAN]
      /\ NoId \notin ClientId
      /\ \A d \in durable : d[1] # NoId
  BY NamesAssumption DEF TypeOK, DurableOK
<1>1. CASE Accept
  <2>1. FreeSlot \in Slot
    BY <1>1, FreeSlotFree DEF Accept
  <2>2. /\ client_id' = [client_id EXCEPT ![FreeSlot] = NoId]
        /\ clean_session' = [clean_session EXCEPT ![FreeSlot] = FALSE]
        /\ pc' = [pc EXCEPT ![FreeSlot] = "first"]
        /\ UNCHANGED <<durable, owed>>
    BY <1>1 DEF Accept, Goto
  <2> QED
    BY <1>0, <2>1, <2>2 DEF DurableOK, Serves, Live
<1>2. CASE AcceptFail
  <2>1. FreeSlot \in Slot /\ pc[FreeSlot] = "none"
    BY <1>2, FreeSlotFree DEF AcceptFail, ThreadOwnsSlot
  <2>2. /\ client_id' = [client_id EXCEPT ![FreeSlot] = NoId]
        /\ clean_session' = [clean_session EXCEPT ![FreeSlot] = FALSE]
        /\ UNCHANGED <<pc, durable, owed>>
    BY <1>2 DEF AcceptFail, threadVars, histVars
  <2> QED
    BY <1>0, <2>1, <2>2 DEF DurableOK, Serves, Live
<1>3. ASSUME NEW c \in Slot, Identify(c) PROVE DurableOK'
  <2>1. /\ client_id' = [client_id EXCEPT ![c] = conn[c].id]
        /\ clean_session' = [clean_session EXCEPT ![c] = conn[c].clean]
        /\ pc' = [pc EXCEPT ![c] = "session"]
        /\ UNCHANGED <<durable, owed>>
    BY <1>3 DEF Identify, Goto
  <2> QED
    BY <1>0, <2>1 DEF DurableOK, Serves, Live
<1>4. ASSUME NEW c \in Slot, OpenSession(c) PROVE DurableOK'
  <2>1. /\ pc[c] = "session" /\ client_id[c] = conn[c].id /\ clean_session[c] = conn[c].clean
        /\ UNCHANGED <<client_id, clean_session>>
        /\ \A d \in Slot \ {c} : pc'[d] = pc[d]
    BY <1>0, <1>4 DEF OpenSession, IdOK, bindVars, Goto
  <2>2. CASE conn[c].clean
    <3>1. KeepDurable({d \in durable : d[1] # conn[c].id})
      BY <1>4, <2>2 DEF OpenSession
    <3> QED
      BY <2>1, <3>1 DEF DurableOK, Serves, Live, KeepDurable
  <2>3. CASE ~conn[c].clean
    BY <1>4, <2>1, <2>3 DEF DurableOK, Serves, Live, OpenSession
  <2> QED
    BY <2>2, <2>3
<1> SUFFICES ASSUME NEW c \in Slot, PeerGone(c) \/ Thread(c), ~(Identify(c) \/ OpenSession(c)) PROVE DurableOK'
  BY <1>1, <1>2, <1>3, <1>4 DEF Next
<1>5. KeepsNames
  BY KeepsNamesStep
<1>6. CASE UNCHANGED <<durable, owed>>
  BY <1>5, <1>6, DurableKept DEF DurableOK
<1>7. CASE PublishWill(c) \/ \E t \in Topic, q \in PubQoS : Publish(c, t, q)
  <2>1. PICK m \in Msg, ret \in {"loop", "persist", "unsub"} : Starts(c, m, ret)
    BY <1>7, StartsPublish
  <2>2. owed' = owed \cup Due(m) /\ durable' = durable
    BY <2>1 DEF Starts, Fanout
  <2>4. \A o \in owed' : <<o[1], o[3]>> \in durable'
    <3> TAKE o \in owed'
    <3>1. CASE o \in owed
      BY <2>2, <3>1 DEF DurableOK
    <3>2. CASE o \in Due(m)
      BY <2>2, <3>2, DueDurable DEF DurableOK
    <3> QED
      BY <2>2, <3>1, <3>2
  <2> QED
    BY <1>5, <2>2, <2>4, DurableKept
<1>8. CASE Persist(c) \/ SaveSubs(c) \/ \E f \in Filter : Unsubscribe(c, f)
  <2>1. \E D \in SUBSET durable : KeepDurable(D)
    BY <1>8 DEF Persist, SaveSubs, Unsubscribe, KeepDurable, DurableOK
  <2> QED
    BY <1>5, <2>1, DurableKept DEF KeepDurable
<1>9. ASSUME NEW f \in Filter, NEW q \in SubQoS, Subscribe(c, f, q) PROVE DurableOK'
  <2>1. CASE ~clean_session[c] /\ durable' = durable \cup {<<client_id[c], f>>}
    <3>1. pc[c] = "loop" /\ client_id[c] \in ClientId
      BY <1>0, <1>9, <2>1 DEF Subscribe, InLoop, IdOK
    <3>2. \A o \in owed' : <<o[1], o[3]>> \in durable'
      BY <1>9 DEF Subscribe, KeepDurable
    <3>3. \A d \in Slot : Live(d) /\ client_id[d] = client_id[c] => d = c
      BY <1>0, <3>1 DEF OneLive, Live
    <3>4. /\ UNCHANGED <<client_id, clean_session, pc>>
      BY <1>9 DEF Subscribe, bindVars, threadVars
    <3> QED
      BY <2>1, <3>1, <3>2, <3>3, <3>4 DEF DurableOK, Serves, Live
  <2>2. CASE durable' \subseteq durable
    BY <1>5, <1>9, <2>2, DurableKept DEF Subscribe, KeepDurable
  <2> QED
    BY <1>9, <2>1, <2>2 DEF Subscribe, KeepDurable
<1>10. UNCHANGED <<durable, owed>> \/ PublishWill(c) \/ (\E t \in Topic, q \in PubQoS : Publish(c, t, q))
       \/ Persist(c) \/ SaveSubs(c) \/ (\E f \in Filter : Unsubscribe(c, f))
       \/ \E f \in Filter, q \in SubQoS : Subscribe(c, f, q)
  <2>1. CASE PeerGone(c) \/ Connecting(c)
    BY <2>1 DEF PeerGone, Connecting, FirstBad, RejectConnect, ParseConnect, histVars
  <2>2. CASE Opening(c) \/ Publishing(c)
    BY <2>2 DEF Opening, Takeover, RestoreSub, RestoreEnd, Online, Drain, Publishing, SendOne,
         StoreOne, OfflinePublish, histVars
  <2>3. CASE Freeing(c)
    BY <2>3 DEF Freeing, FreeClose, SavePick, SaveWrite, SaveEnd, UnsubAll, DeleteSession,
         Release, histVars
  <2>4. CASE Leaving(c) \/ Handling(c)
    BY <2>4 DEF Leaving, RecvError, LoopExit, Handling, PubAck, Retry, Ping, Disconnect,
         ProtocolError, histVars
  <2> QED
    BY <2>1, <2>2, <2>3, <2>4 DEF Thread
<1> QED
  BY <1>6, <1>7, <1>8, <1>9, <1>10

----------------------------------------------------------------------------
(* Subscriptions of persistent sessions are kept.                          *)

(* How a thread moves when no subscription is touched. *)
Moves(d) ==
    /\ pc[d] \in Served \cup {"restore", "online"} /\ ~clean_session[d] /\ client_id[d] # NoId =>
         /\ client_id'[d] = client_id[d] /\ ~clean_session'[d]
         /\ pc'[d] \in Served \/ (pc'[d] = pc[d] /\ sess'[d] = sess[d])
    /\ pc'[d] # "none" /\ client_id'[d] # NoId =>
         /\ pc[d] # "none" /\ client_id'[d] = client_id[d]
         /\ \/ pc[d] \notin Away \cup {"restore"}
            \/ pc'[d] \in Away
            \/ pc'[d] = "restore" /\ pc[d] = "restore" /\ sess'[d] = sess[d] /\ idx'[d] = idx[d]

(* How the threads move in steps other than those of handle_connect and    *)
(* client_free that handle subscriptions.                                  *)
LEMMA MovesStep ==
    ASSUME TypeOK, LocalsOK, PubOK, IdOK, NEW c \in Slot, PeerGone(c) \/ Thread(c),
           ~(\/ Identify(c) \/ OpenSession(c) \/ RestoreSub(c) \/ RestoreEnd(c) \/ Online(c)
             \/ Persist(c) \/ SaveSubs(c) \/ UnsubAll(c) \/ DeleteSession(c)),
           NEW d \in Slot
    PROVE  Moves(d)
<1>0. /\ pc \in [Slot -> Label] /\ idx \in [Slot -> Nat] /\ sess \in [Slot -> Session \cup {None}]
      /\ \A e \in Slot : /\ pc[e] = "send" => pub[e].ret \in {"loop", "persist", "unsub"}
                         /\ pc[e] = "send" => (pub[e].ret = "unsub" => clean_session[e])
                         /\ pc[e] \in Before => client_id[e] = NoId
  BY DEF TypeOK, LocalsOK, PubOK, IdOK
<1>1. CASE d # c
  <2>1. pc'[d] = pc[d] /\ client_id'[d] = client_id[d] /\ clean_session'[d] = clean_session[d]
        /\ sess'[d] = sess[d] /\ idx'[d] = idx[d]
    <3>1. CASE PeerGone(c) \/ Connecting(c)
      BY <1>0, <1>1, <3>1 DEF PeerGone, Connecting, FirstBad, RejectConnect, ParseConnect,
           Goto, poolVars, threadVars, bindVars
    <3>2. CASE Opening(c) \/ Publishing(c)
      BY <1>0, <1>1, <3>2 DEF Opening, Takeover, Drain, Goto, poolVars, bindVars, Publishing,
           SendOne, StoreOne, OfflinePublish
    <3>4. CASE Freeing(c)
      BY <1>0, <1>1, <3>4, StartsPublish DEF Freeing, FreeClose, Starts, SavePick, SaveWrite,
           SaveEnd, Release, Goto, poolVars, bindVars
    <3>5. CASE Leaving(c) \/ Handling(c)
      BY <1>0, <1>1, <3>5, StartsPublish DEF Leaving, RecvError, LoopExit, InLoop, Handling,
           Starts, Subscribe, Unsubscribe, PubAck, Retry, Ping,
         Disconnect, ProtocolError, Goto, poolVars, threadVars, bindVars
    <3> QED
      BY <3>1, <3>2, <3>4, <3>5 DEF Thread
  <2> QED
    BY <2>1 DEF Moves, Served, Away
<1>2. CASE d = c
  <2>1. CASE PeerGone(c) \/ Connecting(c)
    BY <1>0, <1>2, <2>1 DEF PeerGone, Connecting, FirstBad, RejectConnect, ParseConnect, Goto,
         poolVars, threadVars, bindVars,
       Moves, Served, Away, Before
  <2>2. CASE Opening(c)
    BY <1>0, <1>2, <2>2 DEF Opening, Takeover, Drain, Goto, poolVars, bindVars, Moves, Served,
         Away, Before
  <2>3. CASE Publishing(c)
    BY <1>0, <1>2, <2>3 DEF Publishing, SendOne, StoreOne, OfflinePublish, Goto, bindVars,
         Moves, Served, Away
  <2>4. CASE Freeing(c)
    <3>1. CASE PublishWill(c)
      BY <1>0, <1>2, <3>1, StartsPublish DEF Starts, PublishWill, Moves, Served, Away
    <3>2. CASE FreeClose(c) \/ SavePick(c) \/ SaveWrite(c) \/ SaveEnd(c) \/ Release(c)
      BY <1>0, <1>2, <3>2 DEF FreeClose, AfterWill, SavePick, SaveWrite, SaveEnd, Release,
         Goto, poolVars, bindVars, Moves, Served, Away
    <3> QED
      BY <2>4, <3>1, <3>2 DEF Freeing
  <2>5. CASE Leaving(c)
    BY <1>0, <1>2, <2>5 DEF Leaving, RecvError, LoopExit, InLoop, Goto, poolVars, Moves,
         Served, Away
  <2>6. CASE Handling(c)
    <3>1. CASE \E t \in Topic, q \in PubQoS : Publish(c, t, q)
      BY <1>0, <1>2, <3>1, StartsPublish DEF Starts, Publish, Moves, Served, Away
    <3>2. UNCHANGED <<pc, client_id, clean_session, sess, idx>> \/ \E t \in Topic, q \in PubQoS : Publish(c, t, q)
      BY <2>6 DEF Handling, Subscribe, Unsubscribe, PubAck, Retry, Ping, Disconnect,
           ProtocolError, threadVars, bindVars
    <3> QED
      BY <1>0, <3>1, <3>2 DEF Moves, Served, Away
  <2> QED
    BY <2>1, <2>2, <2>3, <2>4, <2>5, <2>6 DEF Thread
<1> QED
  BY <1>1, <1>2

(* Subscriptions of threads that keep their place, and of sessions that    *)
(* keep theirs.                                                            *)
LEMMA TableKept ==
    ASSUME NEW p, NEW f, InTable(p, f),
           \A c \in Slot :
             /\ Serves(c, p) /\ ~clean_session[c] /\ pc[c] \in Served \cup {"restore", "online"}
             /\ [client |-> c, filter |-> f, qos |-> 1] \in subs
             /\ pc[c] = "restore" => Saves(sess[c], f)
             => /\ Serves(c, p)' /\ ~clean_session'[c] /\ pc'[c] \in Served \cup {"restore", "online"}
                /\ [client |-> c, filter |-> f, qos |-> 1] \in subs'
                /\ pc'[c] = "restore" => Saves(sess[c], f)'
    PROVE  InTable(p, f)'
<1>1. PICK c \in Slot :
             /\ Serves(c, p) /\ ~clean_session[c] /\ pc[c] \in Served \cup {"restore", "online"}
             /\ [client |-> c, filter |-> f, qos |-> 1] \in subs
             /\ pc[c] = "restore" => Saves(sess[c], f)
  BY DEF InTable
<1>2. /\ Serves(c, p)' /\ ~clean_session'[c] /\ pc'[c] \in Served \cup {"restore", "online"}
      /\ [client |-> c, filter |-> f, qos |-> 1] \in subs'
      /\ pc'[c] = "restore" => Saves(sess[c], f)'
  BY <1>1
<1> QED
  BY <1>2 DEF InTable

(* The thread of c may still subscribe to f of session i. *)
Restoring(c, i, f) ==
    /\ pc[c] = "restore" /\ sess[c] = i
    /\ \E j \in DOMAIN sessions[i].subs :
          j > idx[c] /\ sessions[i].subs[j] = [filter |-> f, qos |-> 1]

(* A subscription in a session stays there if the session is not touched   *)
(* and no thread comes to serve it.                                        *)
LEMMA StoreKept ==
    ASSUME NEW p, NEW f, InStore(p, f),
           \A i \in Session : Stored(i, p, f) => Stored(i, p, f)',
           \A c \in Slot, i \in Session : Stored(i, p, f) /\ Serves(c, p)' =>
             \/ pc'[c] \in Away
             \/ Restoring(c, i, f)'
             \/ Serves(c, p) /\ pc[c] \notin Away /\ ~Restoring(c, i, f)
    PROVE  InStore(p, f)'
<1>1. PICK i \in Session :
        /\ Stored(i, p, f)
        /\ \A c \in Slot : Serves(c, p) => pc[c] \in Away \/ Restoring(c, i, f)
  BY DEF InStore, Restoring
<1>2. Stored(i, p, f)'
  BY <1>1
<1>3. \A c \in Slot : Serves(c, p)' => pc'[c] \in Away \/ Restoring(c, i, f)'
  BY <1>1
<1> QED
  BY <1>2, <1>3 DEF InStore, Restoring

(* A step that touches neither tables nor saved subscriptions keeps every  *)
(* subscription where it is.                                               *)
LEMMA KeptByMoves ==
    ASSUME SubscriptionKept, DurableOK, durable' \subseteq durable, subs' = subs,
           KeepsSessions, \A d \in Slot : Moves(d) /\ (pc[d] = "restore" => sess[d] \in Session)
    PROVE  SubscriptionKept'
<1> SUFFICES ASSUME NEW d \in durable
             PROVE  InTable(d[1], d[2])' \/ InStore(d[1], d[2])'
  BY DEF SubscriptionKept
<1> DEFINE p == d[1]
           f == d[2]
<1>0. p # NoId
  BY NamesAssumption DEF DurableOK
<1>1. \A i \in Session : /\ Saves(i, f) => Saves(i, f)'
                         /\ Stored(i, p, f) => Stored(i, p, f)'
  BY DEF KeepsSessions, Saves, Stored
<1> HIDE DEF p, f
<1>2. CASE InTable(p, f)
  <2>1. InTable(p, f)'
    BY <1>0, <1>1, <1>2, TableKept DEF Moves, Serves, Live, Served
  <2> QED
    BY <2>1 DEF p, f
<1>3. CASE InStore(p, f)
  <2>1. ASSUME NEW c \in Slot, NEW i \in Session, Stored(i, p, f), Serves(c, p)'
        PROVE  \/ pc'[c] \in Away
               \/ Restoring(c, i, f)'
               \/ Serves(c, p) /\ pc[c] \notin Away /\ ~Restoring(c, i, f)
    <3>1. Serves(c, p)
      BY <1>0, <2>1 DEF Moves, Serves, Live
    <3>2. CASE pc'[c] = "restore" /\ pc[c] = "restore" /\ sess'[c] = sess[c] /\ idx'[c] = idx[c]
      <4>1. Restoring(c, i, f) => Restoring(c, i, f)'
        BY <3>2 DEF Restoring, KeepsSessions
      <4> QED
        BY <3>1, <3>2, <4>1 DEF Away
    <3>3. CASE pc[c] \notin Away \cup {"restore"}
      BY <3>1, <3>3 DEF Restoring
    <3> QED
      BY <1>0, <2>1, <3>1, <3>2, <3>3 DEF Moves, Serves, Live
  <2>2. InStore(p, f)'
    BY <1>1, <1>3, <2>1, StoreKept
  <2> QED
    BY <2>2 DEF p, f
<1> QED
  BY <1>2, <1>3 DEF SubscriptionKept, p, f

(* A thread that this step leaves alone. *)
Still(e) ==
    /\ pc'[e] = pc[e] /\ client_id'[e] = client_id[e] /\ clean_session'[e] = clean_session[e]
    /\ sess'[e] = sess[e] /\ idx'[e] = idx[e]

(* A thread that does not move is as far from the session as it was. *)
LEMMA StillStores ==
    ASSUME NEW e \in Slot, Still(e), NEW p, NEW f, NEW i \in Session, Serves(e, p)',
           sessions'[i].subs = sessions[i].subs
    PROVE  \/ pc'[e] \in Away
           \/ Restoring(e, i, f)'
           \/ Serves(e, p) /\ pc[e] \notin Away /\ ~Restoring(e, i, f)
  BY DEF Still, Restoring, Serves, Live

(* What the lemmas about single steps assume. *)
Base ==
    /\ TypeOK /\ LocalsOK /\ ThreadOwnsSlot /\ SessionKeysUnique
    /\ PubOK /\ IdOK /\ OneLive /\ SubsUnique /\ SavedUnique /\ SessOK /\ DurableOK

(* The identifier of a durable subscription is served by one thread. *)
LEMMA DurableName ==
    ASSUME Base, NEW d \in durable
    PROVE  /\ d = <<d[1], d[2]>> /\ d[1] \in ClientId /\ d[1] # NoId /\ d[2] \in Filter
           /\ \A c, e \in Slot : Serves(c, d[1]) /\ Serves(e, d[1]) => c = e
           /\ \A c \in Slot : Serves(c, d[1]) /\ clean_session[c] => pc[c] = "session"
<1>1. d = <<d[1], d[2]>> /\ d[1] \in ClientId /\ d[1] # NoId /\ d[2] \in Filter
  BY NamesAssumption DEF Base, DurableOK
<1>2. \A c, e \in Slot : Serves(c, d[1]) /\ Serves(e, d[1]) => c = e
  BY <1>1 DEF Base, OneLive, Serves
<1>3. \A c \in Slot : Serves(c, d[1]) /\ clean_session[c] => pc[c] = "session"
  BY DEF Base, DurableOK
<1> QED
  BY <1>1, <1>2, <1>3

(* handle_connect stores the identifier: in a quiet environment no other   *)
(* thread serves it, so that the subscriptions are in the session.         *)
LEMMA KeptIdentify ==
    ASSUME Base, SubscriptionKept, NEW c \in Slot, Identify(c)
    PROVE  SubscriptionKept'
<1>0. /\ pc[c] = "identify" /\ pc'[c] = "session"
      /\ \A e \in Slot \ {c} : Still(e)
      /\ UNCHANGED <<subs, sessions, durable, sess, idx>>
  BY DEF Identify, Goto, Still, Base, TypeOK
<1> SUFFICES ASSUME NEW d \in durable
             PROVE  InTable(d[1], d[2])' \/ InStore(d[1], d[2])'
  BY <1>0 DEF SubscriptionKept
<1>1. CASE InTable(d[1], d[2])
  <2>1. \A i : Saves(i, d[2]) => Saves(i, d[2])'
    BY <1>0 DEF Saves
  <2>2. \A e \in Slot : pc[e] = "restore" /\ Saves(sess[e], d[2]) => Saves(sess[e], d[2])'
    BY <1>0, <2>1
  <2> QED
    BY <1>0, <1>1, <2>2, TableKept DEF Still, Serves, Live, Served
<1>2. CASE InStore(d[1], d[2])
  <2>1. \A i \in Session : Stored(i, d[1], d[2]) => Stored(i, d[1], d[2])'
    BY <1>0 DEF Stored, Saves
  <2>2. \A e \in Slot, i \in Session : Serves(e, d[1])' =>
             \/ pc'[e] \in Away
             \/ Restoring(e, i, d[2])'
             \/ Serves(e, d[1]) /\ pc[e] \notin Away /\ ~Restoring(e, i, d[2])
    <3> TAKE e \in Slot, i \in Session
    <3>1. CASE e = c
      BY <1>0, <3>1 DEF Away
    <3>2. CASE e # c
      BY <1>0, <3>2, StillStores
    <3> QED
      BY <3>1, <3>2
  <2> QED
    BY <1>2, <2>1, <2>2, StoreKept
<1> QED
  BY <1>1, <1>2 DEF SubscriptionKept

(* session_delete ends the durable subscriptions of the client; a session  *)
(* that is found has every one of them still to be restored.               *)
LEMMA KeptOpen ==
    ASSUME Base, SubscriptionKept, NEW c \in Slot, OpenSession(c)
    PROVE  SubscriptionKept'
<1> DEFINE p0 == conn[c].id
<1>0. /\ pc[c] = "session" /\ client_id[c] = p0 /\ clean_session[c] = conn[c].clean
      /\ \A e \in Slot \ {c} : Still(e)
      /\ idx'[c] = 0 /\ client_id'[c] = p0
      /\ UNCHANGED <<subs, client_id, clean_session>> /\ durable' \subseteq durable
      /\ pc \in [Slot -> Label] /\ sess \in [Slot -> Session \cup {None}]
      /\ sessions \in [Session -> SessionRec]
  BY DEF OpenSession, Goto, Still, Base, TypeOK, IdOK, bindVars, KeepDurable
<1>1. ASSUME NEW d \in durable', d[1] # p0
      PROVE  InTable(d[1], d[2])' \/ InStore(d[1], d[2])'
  <2>1. \A i \in Session :
          /\ Stored(i, d[1], d[2]) => Stored(i, d[1], d[2])'
          /\ sessions[i].in_use => sessions'[i].subs = sessions[i].subs
    <3>1. CASE conn[c].clean
      <4>1. sessions' = SessionDelete(p0)
        BY <3>1 DEF OpenSession
      <4> QED
        BY <1>1, <4>1, DeleteSpec DEF Stored, Saves, Base
    <3>2. CASE ~conn[c].clean
      <4>1. sessions' = SessionFindOrCreate(p0)
        BY <3>2 DEF OpenSession
      <4>2. \A i \in Session : sessions[i].in_use => sessions'[i] = sessions[i]
        BY <4>1, CreateSpec DEF Base
      <4> QED
        BY <4>2 DEF Stored, Saves
    <3> QED
      BY <3>1, <3>2
  <2>2. CASE InTable(d[1], d[2])
    <3>1. \A e \in Slot : pc[e] = "restore" => sess[e] \in Session /\ sessions[sess[e]].in_use
      BY DEF Base, SessOK, LocalsOK
    <3>2. \A e \in Slot : pc[e] = "restore" /\ Saves(sess[e], d[2]) /\ Still(e) => Saves(sess[e], d[2])'
      BY <2>1, <3>1 DEF Saves, Still
    <3> HIDE DEF p0
    <3> QED
      BY <1>0, <1>1, <2>2, <3>2, TableKept DEF Still, Serves, Live, Served
  <2>3. CASE InStore(d[1], d[2])
    <3>1. \A e \in Slot, i \in Session : Stored(i, d[1], d[2]) /\ Serves(e, d[1])' =>
             \/ pc'[e] \in Away
             \/ Restoring(e, i, d[2])'
             \/ Serves(e, d[1]) /\ pc[e] \notin Away /\ ~Restoring(e, i, d[2])
      <4> TAKE e \in Slot, i \in Session
      <4>1. CASE e = c
        BY <1>0, <1>1, <4>1 DEF Serves
      <4>2. CASE e # c
        BY <1>0, <2>1, <4>2, StillStores DEF Stored
      <4> QED
        BY <4>1, <4>2
    <3> QED
      BY <2>1, <2>3, <3>1, StoreKept
  <2> QED
    BY <1>0, <2>2, <2>3 DEF SubscriptionKept
<1>2. ASSUME NEW d \in durable', d[1] = p0
      PROVE  InStore(d[1], d[2])'
  <2>1. ~conn[c].clean
    BY <1>2 DEF OpenSession, KeepDurable
  <2>2. d \in durable
    BY <1>0
  <2>3. \A e \in Slot : Serves(e, d[1]) => e = c
    BY <1>0, <1>2, <2>2, DurableName DEF Serves, Live
  <2>4. ~InTable(d[1], d[2])
    BY <1>0, <2>3 DEF InTable, Served
  <2>5. PICK i \in Session : Stored(i, d[1], d[2])
    BY <2>2, <2>4 DEF SubscriptionKept, InStore
  <2>6. SessionFind(p0) = i
    BY <1>2, <2>5, SessionFindSpec DEF Stored, Base, SessionKeysUnique
  <2>7. sessions' = sessions /\ sess' = [sess EXCEPT ![c] = i] /\ pc' = [pc EXCEPT ![c] = "restore"]
    <3>1. i # None
      BY IndexSets
    <3> QED
      BY <2>1, <2>6, <3>1 DEF OpenSession, SessionFindOrCreate, Goto
  <2>8. Stored(i, d[1], d[2])'
    BY <2>5, <2>7 DEF Stored, Saves
  <2>9. PICK j \in DOMAIN sessions[i].subs : sessions[i].subs[j] = [filter |-> d[2], qos |-> 1]
    BY <2>5 DEF Stored, Saves
  <2>10. j > 0
    BY <1>0, <2>9 DEF SessionRec
  <2>11. Restoring(c, i, d[2])'
    BY <1>0, <2>7, <2>9, <2>10 DEF Restoring
  <2>12. \A e \in Slot : Serves(e, d[1])' => e = c
    BY <1>0, <2>3 DEF Still, Serves, Live
  <2> QED
    BY <2>8, <2>11, <2>12 DEF InStore, Restoring
<1> QED
  BY <1>1, <1>2 DEF SubscriptionKept

(* topic_subscribe keeps what other clients have, and other filters. *)
LEMMA TopicSubscribeKeeps ==
    ASSUME NEW c, NEW f, NEW q, subs' = TopicSubscribe(c, f, q), NEW s \in subs,
           s.client # c \/ s.filter # f
    PROVE  s \in subs'
  BY DEF TopicSubscribe

(* The restore loop moves one subscription from the session into the       *)
(* table, unless the table is full.                                        *)
LEMMA KeptRestoreSub ==
    ASSUME Base, SubscriptionKept, NEW c \in Slot, RestoreSub(c), ~RestoreRefused
    PROVE  SubscriptionKept'
<1> DEFINE saved == sessions[sess[c]].subs
           k == idx[c] + 1
<1>0. /\ pc[c] = "restore" /\ sess[c] \in Session /\ idx[c] \in Nat /\ saved \in Seq(Saved)
      /\ k \in DOMAIN saved /\ idx' = [idx EXCEPT ![c] = k] /\ idx'[c] = k
      /\ \A e \in Slot \ {c} : Still(e)
      /\ subs' = TopicSubscribe(c, saved[k].filter, saved[k].qos)
      /\ UNCHANGED <<pc, client_id, clean_session, sess, sessions, durable>>
      /\ ~clean_session[c]
  BY DEF RestoreSub, Still, Base, LocalsOK, TypeOK, SessionRec, IdOK, poolVars, histVars
<1>1. [client |-> c, filter |-> saved[k].filter, qos |-> saved[k].qos] \in subs'
  <2>1. \E s \in subs' : s.client = c /\ s.filter = saved[k].filter
    BY <1>0 DEF RestoreRefused
  <2> QED
    BY <1>0, <2>1 DEF TopicSubscribe
<1>2. \A i, j \in DOMAIN saved : saved[i].filter = saved[j].filter => i = j
  BY <1>0 DEF Base, SavedUnique
<1> SUFFICES ASSUME NEW d \in durable
             PROVE  InTable(d[1], d[2])' \/ InStore(d[1], d[2])'
  BY <1>0 DEF SubscriptionKept
<1>3. \A i : Saves(i, d[2]) => Saves(i, d[2])'
  BY <1>0 DEF Saves
<1> HIDE DEF saved, k
<1>4. CASE InTable(d[1], d[2])
  <2>1. ASSUME NEW e \in Slot, [client |-> e, filter |-> d[2], qos |-> 1] \in subs,
               pc[e] = "restore" => Saves(sess[e], d[2])
        PROVE  [client |-> e, filter |-> d[2], qos |-> 1] \in subs'
    <3>1. CASE e # c \/ d[2] # saved[k].filter
      BY <1>0, <2>1, <3>1, TopicSubscribeKeeps
    <3>2. CASE e = c /\ d[2] = saved[k].filter
      <4>1. PICK j \in DOMAIN saved : saved[j] = [filter |-> d[2], qos |-> 1]
        BY <1>0, <2>1, <3>2 DEF Saves, saved
      <4>2. j = k
        BY <1>0, <1>2, <3>2, <4>1
      <4> QED
        BY <1>1, <3>2, <4>1, <4>2
    <3> QED
      BY <3>1, <3>2
  <2> QED
    BY <1>0, <1>3, <1>4, <2>1, TableKept DEF Serves, Live
<1>5. CASE InStore(d[1], d[2])
  <2>1. PICK i \in Session :
          /\ Stored(i, d[1], d[2])
          /\ \A e \in Slot : Serves(e, d[1]) => pc[e] \in Away \/ Restoring(e, i, d[2])
    BY <1>5 DEF InStore, Restoring
  <2>2. Stored(i, d[1], d[2])'
    BY <1>0, <2>1 DEF Stored, Saves
  <2>3. CASE Serves(c, d[1])
    <3>1. PICK j \in DOMAIN saved : sess[c] = i /\ j > idx[c] /\ saved[j] = [filter |-> d[2], qos |-> 1]
      BY <1>0, <2>1, <2>3 DEF Restoring, Away, saved
    <3>2. CASE j = k
      <4>1. [client |-> c, filter |-> d[2], qos |-> 1] \in subs'
        BY <1>1, <3>1, <3>2
      <4>2. Saves(sess[c], d[2])'
        BY <1>0, <2>1, <3>1, <1>3 DEF Stored
      <4>3. Serves(c, d[1])'
        BY <1>0, <2>3 DEF Serves, Live
      <4> QED
        BY <1>0, <4>1, <4>2, <4>3 DEF InTable
    <3>3. CASE j # k
      <4>1. j > k /\ saved' = saved
        BY <1>0, <3>1, <3>3 DEF k, saved
      <4>2. Restoring(c, i, d[2])'
        BY <1>0, <3>1, <4>1 DEF Restoring, saved
      <4>3. \A e \in Slot : Serves(e, d[1])' => e = c
        BY <1>0, <2>3, DurableName DEF Serves, Live
      <4> QED
        BY <2>2, <4>2, <4>3 DEF InStore, Restoring
    <3> QED
      BY <3>2, <3>3
  <2>4. CASE ~Serves(c, d[1])
    <3>1. \A e \in Slot : Serves(e, d[1])' => pc'[e] \in Away \/ Restoring(e, i, d[2])'
      <4> TAKE e \in Slot
      <4>1. CASE e # c /\ Serves(e, d[1])
        BY <1>0, <2>1, <4>1 DEF Still, Restoring
      <4> QED
        BY <1>0, <2>4, <4>1 DEF Serves, Live
    <3> QED
      BY <2>2, <3>1 DEF InStore, Restoring
  <2> QED
    BY <2>3, <2>4
<1> QED
  BY <1>4, <1>5 DEF SubscriptionKept

(* When the restore loop ends every subscription of the session is in the  *)
(* table, so that the offline flag may be cleared.                         *)
LEMMA KeptOnline ==
    ASSUME Base, SubscriptionKept, NEW c \in Slot, RestoreEnd(c) \/ Online(c)
    PROVE  SubscriptionKept'
<1>0. /\ pc[c] \in {"restore", "online"} /\ sess[c] \in Session /\ pc'[c] \in {"online", "drain"}
      /\ \A e \in Slot \ {c} : Still(e)
      /\ UNCHANGED <<subs, client_id, clean_session, sess, durable>>
      /\ \A i \in Session : /\ sessions'[i].in_use = sessions[i].in_use
                            /\ sessions'[i].client_id = sessions[i].client_id
                            /\ sessions'[i].subs = sessions[i].subs
                            /\ sessions'[i].offline = sessions[i].offline \/ (i = sess[c] /\ Online(c))
      /\ sessions[sess[c]].client_id = client_id[c]
  <2>1. sessions \in [Session -> SessionRec] /\ pc \in [Slot -> Label] /\ idx \in [Slot -> Nat]
    BY DEF Base, TypeOK
  <2>2. /\ pc[c] \in {"restore", "online"} /\ pc'[c] \in {"online", "drain"}
        /\ \A e \in Slot \ {c} : Still(e)
        /\ UNCHANGED <<subs, client_id, clean_session, sess, durable>>
    BY <2>1 DEF RestoreEnd, Online, Still, Goto, poolVars, histVars
  <2>3. sess[c] \in Session /\ sessions[sess[c]].client_id = client_id[c]
    BY <2>2 DEF Base, LocalsOK, SessOK
  <2>4. sessions' = sessions \/ (Online(c) /\ sessions' = [sessions EXCEPT ![sess[c]].offline = FALSE])
    BY DEF RestoreEnd, Online
  <2> QED
    BY <2>1, <2>2, <2>3, <2>4 DEF SessionRec
<1>1. \A i \in Session : \A f : ~Restoring(c, i, f)
  <2>1. CASE RestoreEnd(c)
    <3>1. sessions[sess[c]].subs \in Seq(Saved) /\ idx[c] \in Nat
      BY <1>0 DEF Base, TypeOK, SessionRec
    <3> QED
      BY <2>1, <3>1 DEF RestoreEnd, Restoring
  <2>2. CASE Online(c)
    BY <2>2 DEF Online, Restoring
  <2> QED
    BY <2>1, <2>2
<1> SUFFICES ASSUME NEW d \in durable
             PROVE  InTable(d[1], d[2])' \/ InStore(d[1], d[2])'
  BY <1>0 DEF SubscriptionKept
<1>2. CASE InTable(d[1], d[2])
  <2>1. \A e \in Slot : pc'[e] = "restore" /\ Saves(sess[e], d[2]) => e # c /\ Saves(sess[e], d[2])'
    BY <1>0 DEF Saves, Still, Base, LocalsOK
  <2> QED
    BY <1>0, <1>2, <2>1, TableKept DEF Still, Serves, Live, Served
<1>3. CASE InStore(d[1], d[2])
  <2>1. ~Serves(c, d[1])
    BY <1>0, <1>1, <1>3 DEF InStore, Away, Restoring
  <2>2. \A i \in Session : Stored(i, d[1], d[2]) => Stored(i, d[1], d[2])'
    <3>1. \A i \in Session : Stored(i, d[1], d[2]) => i # sess[c]
      BY <1>0, <2>1 DEF Stored, Serves, Live
    <3> QED
      BY <1>0, <3>1 DEF Stored, Saves
  <2>3. \A e \in Slot, i \in Session : Serves(e, d[1])' =>
             \/ pc'[e] \in Away
             \/ Restoring(e, i, d[2])'
             \/ Serves(e, d[1]) /\ pc[e] \notin Away /\ ~Restoring(e, i, d[2])
    <3> TAKE e \in Slot, i \in Session
    <3>1. CASE e = c
      BY <1>0, <2>1, <3>1 DEF Serves, Live
    <3>2. CASE e # c
      BY <1>0, <3>2, StillStores
    <3> QED
      BY <3>1, <3>2
  <2> QED
    BY <1>3, <2>2, <2>3, StoreKept
<1> QED
  BY <1>2, <1>3 DEF SubscriptionKept

(* session_find_or_create in client_free leaves sessions in use alone. *)
LEMMA KeptPersist ==
    ASSUME Base, SubscriptionKept, NEW c \in Slot, Persist(c)
    PROVE  SubscriptionKept'
<1>0. /\ pc[c] = "persist" /\ pc'[c] \in {"save", "unsub"}
      /\ \A e \in Slot \ {c} : Still(e)
      /\ UNCHANGED <<subs, client_id, clean_session>> /\ durable' \subseteq durable
      /\ sessions' = SessionFindOrCreate(client_id[c])
      /\ \A d \in durable' : d[1] = client_id[c] => pc'[c] = "save"
  BY DEF Persist, Goto, Still, Base, TypeOK, poolVars, KeepDurable
<1>1. \A i \in Session : sessions[i].in_use => sessions'[i] = sessions[i]
  BY <1>0, CreateSpec DEF Base
<1> SUFFICES ASSUME NEW d \in durable'
             PROVE  InTable(d[1], d[2])' \/ InStore(d[1], d[2])'
  BY DEF SubscriptionKept
<1>2. CASE InTable(d[1], d[2])
  <2>1. \A e \in Slot : pc[e] = "restore" => sess[e] \in Session /\ sessions[sess[e]].in_use
    BY DEF Base, LocalsOK, SessOK
  <2>2. \A e \in Slot : pc'[e] = "restore" /\ Saves(sess[e], d[2]) => Saves(sess[e], d[2])'
    BY <1>0, <1>1, <2>1 DEF Saves, Still
  <2> QED
    BY <1>0, <1>2, <2>2, TableKept DEF Still, Serves, Live, Served
<1>3. CASE InStore(d[1], d[2])
  <2>1. ~Serves(c, d[1])
    BY <1>0, <1>3 DEF InStore, Away
  <2>2. \A i \in Session : Stored(i, d[1], d[2]) => Stored(i, d[1], d[2])' /\ sessions'[i].subs = sessions[i].subs
    BY <1>1 DEF Stored, Saves
  <2>3. \A e \in Slot, i \in Session : Stored(i, d[1], d[2]) /\ Serves(e, d[1])' =>
             \/ pc'[e] \in Away
             \/ Restoring(e, i, d[2])'
             \/ Serves(e, d[1]) /\ pc[e] \notin Away /\ ~Restoring(e, i, d[2])
    <3> TAKE e \in Slot, i \in Session
    <3>1. CASE e = c
      BY <1>0, <2>1, <3>1 DEF Serves, Live
    <3>2. CASE e # c
      BY <1>0, <2>2, <3>2, StillStores
    <3> QED
      BY <3>1, <3>2
  <2> QED
    BY <1>3, <2>2, <2>3, StoreKept
<1> QED
  BY <1>0, <1>2, <1>3 DEF SubscriptionKept

(* session_save_subs stores every subscription of the client that is still *)
(* durable, and changes no other session.                                  *)
LEMMA SavedStored ==
    ASSUME Base, SubscriptionKept, NEW c \in Slot, SaveSubs(c)
    PROVE  /\ \A d \in durable' : d[1] = client_id[c] => Stored(sess[c], d[1], d[2])'
           /\ \A i \in Session : i # sess[c] => sessions'[i] = sessions[i]
           /\ sess[c] \in Session /\ sessions[sess[c]].client_id = client_id[c]
           /\ \A i \in Session : sessions'[i].queue = sessions[i].queue
           /\ \A i \in Session : /\ sessions'[i].in_use = sessions[i].in_use
                                 /\ sessions'[i].client_id = sessions[i].client_id
<1>0. /\ pc[c] = "save" /\ sess[c] \in Session /\ sess' = sess
      /\ sessions[sess[c]].in_use /\ sessions[sess[c]].client_id = client_id[c]
      /\ sessions \in [Session -> SessionRec]
      /\ subs \subseteq [client : Slot, filter : Filter, qos : QoS]
      /\ durable' \subseteq durable
  BY DEF SaveSubs, Base, LocalsOK, SessOK, TypeOK, KeepDurable
<1>1. PICK saved \in ClientSubs(c) :
        /\ sessions' = [sessions EXCEPT ![sess[c]].subs = saved, ![sess[c]].offline = TRUE]
        /\ durable' = {d \in durable : \/ d[1] # client_id[c]
                                       \/ \E i \in DOMAIN saved : saved[i].filter = d[2]}
  BY DEF SaveSubs, KeepDurable
<1>2. /\ \A i \in Session : i # sess[c] => sessions'[i] = sessions[i]
      /\ sessions'[sess[c]].subs = saved /\ sessions'[sess[c]].offline
      /\ \A i \in Session : /\ sessions'[i].queue = sessions[i].queue
                            /\ sessions'[i].in_use = sessions[i].in_use
                            /\ sessions'[i].client_id = sessions[i].client_id
  BY <1>0, <1>1 DEF SessionRec
<1>3. ASSUME NEW d \in durable', d[1] = client_id[c]
      PROVE  Stored(sess[c], d[1], d[2])'
  <2>1. PICK j \in DOMAIN saved : saved[j].filter = d[2]
    BY <1>1, <1>3
  <2>2. d \in durable /\ Serves(c, d[1])
    BY <1>0, <1>3 DEF Serves, Live
  <2>3. InTable(d[1], d[2])
    BY <1>0, <2>2 DEF SubscriptionKept, InStore, Away
  <2>4. [client |-> c, filter |-> d[2], qos |-> 1] \in subs
    BY <2>2, <2>3, DurableName DEF InTable
  <2>5. PICK s \in subs : s.client = c /\ s.filter = saved[j].filter /\ s.qos = saved[j].qos
    BY ClientSubsUnique DEF Base
  <2>6. s = [client |-> c, filter |-> d[2], qos |-> 1]
    BY <2>1, <2>4, <2>5 DEF Base, SubsUnique
  <2>7. saved \in Seq(Saved)
    BY ClientSubsType DEF Base, TypeOK
  <2>8. saved[j] = [filter |-> d[2], qos |-> 1]
    <3>1. saved[j] \in Saved
      BY <2>1, <2>7
    <3> QED
      BY <2>1, <2>5, <2>6, <3>1 DEF Saved
  <2> QED
    BY <1>0, <1>2, <1>3, <2>8 DEF Stored, Saves
<1> QED
  BY <1>0, <1>2, <1>3

(* session_save_subs takes over what the table has of the client. *)
LEMMA KeptSaveSubs ==
    ASSUME Base, SubscriptionKept, NEW c \in Slot, SaveSubs(c)
    PROVE  SubscriptionKept'
<1>0. /\ pc[c] = "save" /\ pc'[c] = "inflights"
      /\ \A e \in Slot \ {c} : Still(e)
      /\ UNCHANGED <<subs, client_id, clean_session>> /\ durable' \subseteq durable
  BY DEF SaveSubs, Goto, Still, Base, TypeOK, poolVars, KeepDurable
<1> SUFFICES ASSUME NEW d \in durable'
             PROVE  InTable(d[1], d[2])' \/ InStore(d[1], d[2])'
  BY DEF SubscriptionKept
<1>1. CASE d[1] = client_id[c]
  <2>1. Stored(sess[c], d[1], d[2])' /\ sess'[c] \in Session
    BY <1>1, SavedStored DEF SaveSubs
  <2>2. \A e \in Slot : Serves(e, d[1])' => e = c
    BY <1>0, <1>1, DurableName DEF Still, Serves, Live
  <2>3. PICK i \in Session : Stored(i, d[1], d[2])'
    BY <2>1
  <2>4. \A e \in Slot : Serves(e, d[1])' => pc'[e] \in Away
    BY <1>0, <2>2 DEF Away
  <2> QED
    BY <2>3, <2>4 DEF InStore
<1>2. CASE d[1] # client_id[c]
  <2>1. CASE InTable(d[1], d[2])
    <3>1. \A e \in Slot : pc[e] = "restore" /\ Serves(e, d[1]) => sess[e] \in Session /\ sess[e] # sess[c]
      BY <1>0, <1>2 DEF Base, LocalsOK, SessOK, Serves
    <3>2. \A e \in Slot : pc'[e] = "restore" /\ Serves(e, d[1]) /\ Saves(sess[e], d[2]) => Saves(sess[e], d[2])'
      BY <1>0, <3>1, SavedStored DEF Saves, Still
    <3> QED
      BY <1>0, <1>2, <2>1, <3>2, TableKept DEF Still, Serves, Live, Served
  <2>2. CASE InStore(d[1], d[2])
    <3>1. \A i \in Session : Stored(i, d[1], d[2]) => Stored(i, d[1], d[2])' /\ sessions'[i].subs = sessions[i].subs
      BY <1>2, SavedStored DEF Stored, Saves
    <3>2. \A e \in Slot, i \in Session : Stored(i, d[1], d[2]) /\ Serves(e, d[1])' =>
             \/ pc'[e] \in Away
             \/ Restoring(e, i, d[2])'
             \/ Serves(e, d[1]) /\ pc[e] \notin Away /\ ~Restoring(e, i, d[2])
      <4> TAKE e \in Slot, i \in Session
      <4>1. CASE e = c
        BY <1>0, <1>2, <4>1 DEF Serves, Live
      <4>2. CASE e # c
        BY <1>0, <3>1, <4>2, StillStores
      <4> QED
        BY <4>1, <4>2
    <3> QED
      BY <2>2, <3>1, <3>2, StoreKept
  <2> QED
    BY <1>0, <2>1, <2>2 DEF SubscriptionKept
<1> QED
  BY <1>1, <1>2

(* topic_unsubscribe_all and session_delete come after the subscriptions   *)
(* are saved or given up.                                                  *)
LEMMA KeptForget ==
    ASSUME Base, SubscriptionKept, NEW c \in Slot, UnsubAll(c) \/ DeleteSession(c)
    PROVE  SubscriptionKept'
<1>0. /\ pc[c] \in {"unsub", "forget"}
      /\ pc[c] = "forget" => DeleteSession(c)
      /\ pc'[c] = IF clean_session[c] /\ pc[c] = "unsub" THEN "forget" ELSE "release"
      /\ pc[c] = "forget" => clean_session[c]
      /\ \A e \in Slot \ {c} : Still(e)
      /\ UNCHANGED <<client_id, clean_session, durable, sess>>
      /\ \A s \in subs : s.client # c => s \in subs'
  BY DEF UnsubAll, DeleteSession, Goto, Still, Base, TypeOK, poolVars, histVars, IdOK,
       TopicUnsubscribeAll
<1>1. \A i \in Session : /\ sessions'[i].client_id = sessions[i].client_id
                         /\ sessions'[i].offline = sessions[i].offline
                         /\ sessions'[i].subs = sessions[i].subs
                         /\ \/ sessions'[i].in_use = sessions[i].in_use
                            \/ sessions[i].client_id = client_id[c] /\ pc[c] = "forget"
  <2>1. CASE UnsubAll(c)
    BY <2>1 DEF UnsubAll
  <2>2. CASE DeleteSession(c)
    BY <2>2, DeleteSpec DEF DeleteSession, Base
  <2> QED
    BY <2>1, <2>2
<1> SUFFICES ASSUME NEW d \in durable
             PROVE  InTable(d[1], d[2])' \/ InStore(d[1], d[2])'
  BY <1>0 DEF SubscriptionKept
<1>2. Serves(c, d[1]) => pc[c] = "unsub" /\ ~clean_session[c]
  BY <1>0, DurableName
<1>3. CASE InTable(d[1], d[2])
  <2>1. \A e \in Slot : pc[e] = "restore" => sess[e] \in Session
    BY DEF Base, LocalsOK
  <2>2. \A e \in Slot : pc[e] = "restore" /\ Saves(sess[e], d[2]) => Saves(sess[e], d[2])'
    BY <1>0, <1>1, <2>1 DEF Saves
  <2> QED
    BY <1>0, <1>3, <2>2, TableKept DEF Still, Serves, Live, Served
<1>4. CASE InStore(d[1], d[2])
  <2>1. \A i \in Session : Stored(i, d[1], d[2]) => Stored(i, d[1], d[2])'
    BY <1>0, <1>1, <1>2 DEF Stored, Saves, Serves, Live
  <2>2. \A e \in Slot, i \in Session : Serves(e, d[1])' =>
             \/ pc'[e] \in Away
             \/ Restoring(e, i, d[2])'
             \/ Serves(e, d[1]) /\ pc[e] \notin Away /\ ~Restoring(e, i, d[2])
    <3> TAKE e \in Slot, i \in Session
    <3>1. CASE e = c
      BY <1>0, <1>2, <3>1 DEF Serves, Live, Away
    <3>2. CASE e # c
      BY <1>0, <1>1, <3>2, StillStores
    <3> QED
      BY <3>1, <3>2
  <2> QED
    BY <1>4, <2>1, <2>2, StoreKept
<1> QED
  BY <1>3, <1>4 DEF SubscriptionKept

(* SUBSCRIBE and UNSUBSCRIBE change one filter of one client, in the table *)
(* and in the history.                                                     *)
LEMMA KeptSubscribe ==
    ASSUME Base, SubscriptionKept, NEW c \in Slot, NEW f \in Filter,
           Unsubscribe(c, f) \/ \E q \in SubQoS : Subscribe(c, f, q)
    PROVE  SubscriptionKept'
<1>0. /\ pc[c] = "loop"
      /\ UNCHANGED <<pc, client_id, clean_session, sess, idx, sessions>>
      /\ \A s \in subs : s.client # c \/ s.filter # f => s \in subs'
      /\ \A d \in durable' : \/ d \in durable /\ d # <<client_id[c], f>>
                             \/ /\ d = <<client_id[c], f>> /\ ~clean_session[c]
                                /\ [client |-> c, filter |-> f, qos |-> 1] \in subs'
  <2>1. CASE Unsubscribe(c, f)
    BY <2>1 DEF Unsubscribe, InLoop, threadVars, bindVars, TopicUnsubscribe, KeepDurable
  <2>2. ASSUME NEW q \in SubQoS, Subscribe(c, f, q)
        PROVE  <1>0!1 /\ <1>0!2 /\ <1>0!3 /\ <1>0!4
    <3>1. subs' = TopicSubscribe(c, f, q)
      BY <2>2 DEF Subscribe
    <3>2. \A s \in subs : s.client # c \/ s.filter # f => s \in subs'
      BY <3>1, TopicSubscribeKeeps
    <3> QED
      BY <2>2, <3>2 DEF Subscribe, InLoop, threadVars, bindVars, KeepDurable
  <2> QED
    BY <2>1, <2>2
<1> SUFFICES ASSUME NEW d \in durable'
             PROVE  InTable(d[1], d[2])' \/ InStore(d[1], d[2])'
  BY DEF SubscriptionKept
<1>1. \A i : Saves(i, d[2]) => Saves(i, d[2])'
  BY <1>0 DEF Saves
<1>2. CASE d = <<client_id[c], f>> /\ ~clean_session[c] /\ [client |-> c, filter |-> f, qos |-> 1] \in subs'
  BY <1>0, <1>2 DEF InTable, Served, Serves, Live
<1>3. CASE d \in durable /\ d # <<client_id[c], f>>
  <2>0. d = <<d[1], d[2]>>
    BY <1>3, DurableName
  <2>1. CASE InTable(d[1], d[2])
    <3>1. ASSUME NEW e \in Slot, Serves(e, d[1]), [client |-> e, filter |-> d[2], qos |-> 1] \in subs
          PROVE  [client |-> e, filter |-> d[2], qos |-> 1] \in subs'
      <4>1. e # c \/ d[2] # f
        BY <1>3, <2>0, <3>1 DEF Serves
      <4> QED
        BY <1>0, <3>1, <4>1
    <3>2. InTable(d[1], d[2])'
      BY <1>0, <1>1, <2>1, <3>1, TableKept DEF Serves, Live
    <3> QED
      BY <3>2
  <2>2. CASE InStore(d[1], d[2])
    BY <1>0, <2>2 DEF InStore, Stored, Saves, Serves, Live
  <2> QED
    BY <1>3, <2>1, <2>2 DEF SubscriptionKept
<1> QED
  BY <1>0, <1>2, <1>3

(* A slot that client_alloc hands out serves nobody. *)
LEMMA KeptAccept ==
    ASSUME Base, SubscriptionKept, Accept \/ AcceptFail
    PROVE  SubscriptionKept'
<1>0. PICK c \in Slot :
        /\ pc[c] = "none" /\ client_id'[c] = NoId
        /\ \A e \in Slot \ {c} : Still(e)
        /\ UNCHANGED <<subs, sessions, durable, sess, idx>>
  BY FreeSlotFree DEF Accept, AcceptFail, Base, TypeOK, ThreadOwnsSlot, Still, Goto,
       threadVars, histVars
<1> SUFFICES ASSUME NEW d \in durable
             PROVE  InTable(d[1], d[2])' \/ InStore(d[1], d[2])'
  BY <1>0 DEF SubscriptionKept
<1>1. \A i : Saves(i, d[2]) => Saves(i, d[2])'
  BY <1>0 DEF Saves
<1>2. d[1] # NoId
  BY DurableName
<1>3. CASE InTable(d[1], d[2])
  BY <1>0, <1>1, <1>3, TableKept DEF Still, Serves, Live, Served
<1>4. CASE InStore(d[1], d[2])
  <2>1. \A i \in Session : Stored(i, d[1], d[2]) => Stored(i, d[1], d[2])'
    BY <1>0, <1>1 DEF Stored
  <2>2. \A e \in Slot, i \in Session : Serves(e, d[1])' =>
             \/ pc'[e] \in Away
             \/ Restoring(e, i, d[2])'
             \/ Serves(e, d[1]) /\ pc[e] \notin Away /\ ~Restoring(e, i, d[2])
    <3> TAKE e \in Slot, i \in Session
    <3>1. CASE e = c
      BY <1>0, <1>2, <3>1 DEF Serves
    <3>2. CASE e # c
      BY <1>0, <3>2, StillStores
    <3> QED
      BY <3>1, <3>2
  <2> QED
    BY <1>4, <2>1, <2>2, StoreKept
<1> QED
  BY <1>3, <1>4 DEF SubscriptionKept

(* Every step keeps the durable subscriptions, unless the table has no     *)
(* room for one that is restored.                                          *)
LEMMA KeptStep ==
    ASSUME Base, SubscriptionKept, Next, ~RestoreRefused
    PROVE  SubscriptionKept'
<1>1. CASE Accept \/ AcceptFail
  BY <1>1, KeptAccept
<1> SUFFICES ASSUME NEW c \in Slot, PeerGone(c) \/ Thread(c) PROVE SubscriptionKept'
  BY <1>1 DEF Next
<1>2. CASE \/ Identify(c) \/ OpenSession(c) \/ RestoreSub(c) \/ RestoreEnd(c) \/ Online(c)
           \/ Persist(c) \/ SaveSubs(c) \/ UnsubAll(c) \/ DeleteSession(c)
  BY <1>2, KeptIdentify, KeptOpen, KeptRestoreSub, KeptOnline, KeptPersist, KeptSaveSubs,
       KeptForget
<1>3. CASE (\E f \in Filter : Unsubscribe(c, f)) \/ (\E f \in Filter, q \in SubQoS : Subscribe(c, f, q))
  BY <1>3, KeptSubscribe
<1>4. CASE /\ ~(\/ Identify(c) \/ OpenSession(c) \/ RestoreSub(c) \/ RestoreEnd(c) \/ Online(c)
                \/ Persist(c) \/ SaveSubs(c) \/ UnsubAll(c) \/ DeleteSession(c))
           /\ ~((\E f \in Filter : Unsubscribe(c, f)) \/ (\E f \in Filter, q \in SubQoS : Subscribe(c, f, q)))
  <2>1. \A d \in Slot : Moves(d) /\ (pc[d] = "restore" => sess[d] \in Session)
    BY <1>4, MovesStep DEF Base, LocalsOK
  <2>2. KeepsSessions
    BY <1>4, KeepsSessionsStep DEF Base
  <2>3. UNCHANGED <<subs, durable>>
    <3>1. CASE PeerGone(c) \/ Connecting(c)
      BY <3>1 DEF PeerGone, Connecting, FirstBad, RejectConnect, ParseConnect, histVars
    <3>2. CASE Opening(c) \/ Publishing(c)
      BY <1>4, <3>2 DEF Opening, Takeover, Drain, Publishing, SendOne, StoreOne,
           OfflinePublish, histVars
    <3>3. CASE Freeing(c)
      BY <1>4, <3>3 DEF Freeing, FreeClose, PublishWill, SavePick, SaveWrite, SaveEnd, Release,
           histVars
    <3>4. CASE Leaving(c) \/ Handling(c)
      BY <1>4, <3>4 DEF Leaving, RecvError, LoopExit, Handling, Publish, PubAck, Retry, Ping,
           Disconnect, ProtocolError, histVars
    <3> QED
      BY <3>1, <3>2, <3>3, <3>4 DEF Thread
  <2> QED
    BY <2>1, <2>2, <2>3, KeptByMoves DEF Base
<1> QED
  BY <1>2, <1>3, <1>4

----------------------------------------------------------------------------
(* Messages that are due are kept.                                         *)

(* client_free has saved the messages of the connection, or there is none. *)
Gone == {"none", "unsub", "forget", "release"}

(* What becomes of a message that is due. *)
Safe(p, n, f) ==
    \/ <<p, n>> \in acked \cup shed
    \/ HeldInflight(p, n)
    \/ HeldQueued(p, n)
    \/ InSave(p, n)
    \/ Pending(p, n, f)

(* A thread that holds messages keeps them. *)
Holds(c) ==
    pc[c] \notin Gone /\ ~clean_session[c] /\ client_id[c] # NoId =>
      /\ client_id'[c] = client_id[c] /\ ~clean_session'[c] /\ pc'[c] \notin Gone
      /\ pc'[c] = "inflights" => idx'[c] = 0 \/ (pc[c] = "inflights" /\ idx'[c] = idx[c])

(* Messages stay in the inflight table of a thread that keeps them. *)
LEMMA InflightKept ==
    ASSUME NEW p, NEW n, HeldInflight(p, n), p # NoId, \A c \in Slot : Holds(c),
           \A c \in Slot, i \in InflightIdx :
             /\ Serves(c, p) /\ ~clean_session[c]
             /\ inflight[c][i] # None /\ inflight[c][i].msg.n = n
             => inflight'[c][i] # None /\ inflight'[c][i].msg.n = n
    PROVE  HeldInflight(p, n)'
<1>1. PICK c \in Slot, i \in InflightIdx :
        /\ pc[c] \notin Gone /\ client_id[c] = p /\ ~clean_session[c]
        /\ inflight[c][i] # None /\ inflight[c][i].msg.n = n
        /\ pc[c] = "inflights" => i >= idx[c]
  BY DEF HeldInflight, Gone
<1>2. /\ pc'[c] \notin Gone /\ client_id'[c] = p /\ ~clean_session'[c]
      /\ pc'[c] = "inflights" => idx'[c] = 0 \/ (pc[c] = "inflights" /\ idx'[c] = idx[c])
  BY <1>1 DEF Holds
<1>3. inflight'[c][i] # None /\ inflight'[c][i].msg.n = n
  BY <1>1 DEF Serves, Live, Gone
<1>4. i >= 0
  BY IndexSets
<1> QED
  BY <1>1, <1>2, <1>3, <1>4 DEF HeldInflight, Gone

(* Messages stay in the queue of a session that keeps them. *)
LEMMA QueuedKept ==
    ASSUME NEW p, NEW n, HeldQueued(p, n),
           \A i \in Session, j \in QueueIdx :
             /\ sessions[i].in_use /\ sessions[i].client_id = p
             /\ sessions[i].queue[j] # None /\ sessions[i].queue[j].msg.n = n
             => /\ sessions'[i].in_use /\ sessions'[i].client_id = p
                /\ sessions'[i].queue[j] # None /\ sessions'[i].queue[j].msg.n = n
    PROVE  HeldQueued(p, n)'
<1>1. PICK i \in Session, j \in QueueIdx :
        /\ sessions[i].in_use /\ sessions[i].client_id = p
        /\ sessions[i].queue[j] # None /\ sessions[i].queue[j].msg.n = n
  BY DEF HeldQueued
<1>2. /\ sessions'[i].in_use /\ sessions'[i].client_id = p
      /\ sessions'[i].queue[j] # None /\ sessions'[i].queue[j].msg.n = n
  BY <1>1
<1> QED
  BY <1>2 DEF HeldQueued

(* A message that is being saved stays in the hands of its thread. *)
LEMMA InSaveKept ==
    ASSUME NEW p, NEW n, InSave(p, n),
           \A c \in Slot : pc[c] = "inflights" /\ client_id[c] = p /\ put[c] # None =>
              pc'[c] = "inflights" /\ client_id'[c] = p /\ put'[c] = put[c]
    PROVE  InSave(p, n)'
<1>1. PICK c \in Slot : /\ pc[c] = "inflights" /\ client_id[c] = p
                        /\ put[c] # None /\ put[c].e.msg.n = n
  BY DEF InSave
<1>2. pc'[c] = "inflights" /\ client_id'[c] = p /\ put'[c] = put[c]
  BY <1>1
<1> QED
  BY <1>1, <1>2 DEF InSave

(* The copy of the message in d is on its way to thread c. *)
Aimed(d, c, n) ==
    \/ \E t \in pub[d].targets : t.client = c /\ t.qos = 1
    \/ put[d] # None /\ put[d].to = c /\ put[d].e.msg.n = n

(* Thread d publishes message n, which matches f. *)
Sends(d, n, f) ==
    pub[d].msg # None /\ pub[d].msg.n = n /\ pub[d].msg.qos = 1 /\ <<f, pub[d].msg.topic>> \in Match

(* What is pending, in terms of its parts. *)
LEMMA PendingIs ==
    ASSUME NEW p, NEW n, NEW f
    PROVE  Pending(p, n, f) <=>
             \E d \in Slot : /\ Sends(d, n, f)
                             /\ \/ \E i \in Session : Stored(i, p, f)
                                \/ \E c \in Slot : Attached(c, p) /\ Aimed(d, c, n)
  BY DEF Pending, Sends, Aimed

(* A pending message stays pending if the publish goes on, the session is  *)
(* kept and the targets that remain are kept.                              *)
LEMMA PendingKept ==
    ASSUME NEW p, NEW n, NEW f, Pending(p, n, f),
           \A d \in Slot : Sends(d, n, f) => Sends(d, n, f)',
           \A i \in Session : Stored(i, p, f) => Stored(i, p, f)',
           \A c, d \in Slot : Sends(d, n, f) /\ Attached(c, p) /\ Aimed(d, c, n) =>
              \/ (\E i \in Session : Stored(i, p, f)')
              \/ Attached(c, p)' /\ Aimed(d, c, n)'
    PROVE  Pending(p, n, f)'
<1>1. PICK d \in Slot : /\ Sends(d, n, f)
                        /\ \/ \E i \in Session : Stored(i, p, f)
                           \/ \E c \in Slot : Attached(c, p) /\ Aimed(d, c, n)
  BY PendingIs
<1>2. Sends(d, n, f)'
  BY <1>1
<1>3. \/ \E i \in Session : Stored(i, p, f)'
      \/ \E c \in Slot : Attached(c, p)' /\ Aimed(d, c, n)'
  BY <1>1
<1> QED
  BY <1>2, <1>3 DEF Pending, Sends, Aimed

(* While a message is pending no CONNECT of another thread is served. *)
LEMMA PendingQuiet ==
    ASSUME PubOK, Quiet, NEW p, NEW n, NEW f, Pending(p, n, f), NEW c \in Slot
    PROVE  pc[c] \notin {"takeover", "identify", "session", "restore", "online"}
<1>1. PICK d \in Slot : pub[d].msg # None
  BY DEF Pending
<1>2. pc[d] = "send"
  BY <1>1 DEF PubOK
<1> QED
  BY <1>1, <1>2 DEF Quiet

(* What is accounted for, in terms of one message. *)
LEMMA AccountedIs == Accounted <=> \A o \in owed : Safe(o[1], o[2], o[3])
  BY DEF Accounted, Safe

(* The client of a message that is due. *)
LEMMA OwedName ==
    ASSUME Base, NEW o \in owed
    PROVE  <<o[1], o[3]>> \in durable /\ o[1] # NoId
<1>1. <<o[1], o[3]>> \in durable
  BY DEF Base, DurableOK
<1> QED
  BY <1>1, DurableName

(* Steps that touch no message. *)
Calm ==
    /\ UNCHANGED <<sessions, pub, put, acked, shed>> /\ owed' \subseteq owed
    /\ \A c \in Slot :
         /\ Holds(c)
         /\ pc[c] # "none" => inflight'[c] = inflight[c]
         /\ pc[c] = "inflights" => pc'[c] = "inflights" /\ client_id'[c] = client_id[c]
         /\ pc[c] \in Served /\ ~clean_session[c] => pc'[c] \in Served /\ client_id'[c] = client_id[c] /\ ~clean_session'[c]

(* A step that touches no message loses none. *)
LEMMA CalmKeeps ==
    ASSUME Base, Accounted, Calm
    PROVE  Accounted'
<1> SUFFICES ASSUME NEW o \in owed' PROVE Safe(o[1], o[2], o[3])'
  BY DEF Accounted, Safe
<1> DEFINE p == o[1]
           n == o[2]
           f == o[3]
<1>0. o \in owed /\ p # NoId /\ Safe(p, n, f)
  BY OwedName, AccountedIs DEF Calm
<1> HIDE DEF p, n, f
<1>1. CASE <<p, n>> \in acked \cup shed
  BY <1>1 DEF Calm, Safe, p, n
<1>2. CASE HeldInflight(p, n)
  <2>1. HeldInflight(p, n)'
    BY <1>0, <1>2, InflightKept DEF Calm, Serves, Live
  <2> QED
    BY <2>1 DEF Safe, p, n
<1>3. CASE HeldQueued(p, n)
  <2>1. HeldQueued(p, n)'
    BY <1>3, QueuedKept DEF Calm
  <2> QED
    BY <2>1 DEF Safe, p, n
<1>4. CASE InSave(p, n)
  <2>1. InSave(p, n)'
    BY <1>4, InSaveKept DEF Calm
  <2> QED
    BY <2>1 DEF Safe, p, n
<1>5. CASE Pending(p, n, f)
  <2>1. \A i \in Session : Stored(i, p, f) => Stored(i, p, f)'
    BY DEF Stored, Saves, Calm
  <2>2. \A c \in Slot : Attached(c, p) => Attached(c, p)'
    BY DEF Attached, Serves, Live, Calm, Served
  <2>3. \A d \in Slot : Sends(d, n, f) => Sends(d, n, f)'
    BY DEF Sends, Calm
  <2>4. \A c, d \in Slot : Aimed(d, c, n) => Aimed(d, c, n)'
    BY DEF Aimed, Calm
  <2>5. Pending(p, n, f)'
    BY <1>5, <2>1, <2>2, <2>3, <2>4, PendingKept
  <2> QED
    BY <2>5 DEF Safe, p, n, f
<1> QED
  BY <1>0, <1>1, <1>2, <1>3, <1>4, <1>5 DEF Safe

(* The steps of a thread that touch no message. *)
LEMMA CalmStep ==
    ASSUME Base, NEW c \in Slot,
           \/ PeerGone(c) \/ Connecting(c) \/ Takeover(c) \/ Identify(c) \/ RestoreSub(c) \/ RestoreEnd(c)
           \/ FreeClose(c) \/ UnsubAll(c) \/ Release(c) \/ Leaving(c)
           \/ (\E f \in Filter, q \in SubQoS : Subscribe(c, f, q))
           \/ (\E f \in Filter : Unsubscribe(c, f))
           \/ Retry(c) \/ Ping(c) \/ Disconnect(c) \/ ProtocolError(c)
    PROVE  Calm
<1>0. /\ pc \in [Slot -> Label] /\ idx \in [Slot -> Nat]
      /\ client_id \in [Slot -> ClientId \cup {NoId}]
      /\ \A d \in Slot : pc[d] \in Before => client_id[d] = NoId
  BY DEF Base, TypeOK, IdOK
<1>1. CASE PeerGone(c) \/ Connecting(c)
  BY <1>0, <1>1 DEF PeerGone, Connecting, FirstBad, RejectConnect, ParseConnect, Goto,
       poolVars, threadVars, bindVars, histVars,
     Calm, Holds, Gone, Served, Before
<1>2. CASE Takeover(c) \/ RestoreSub(c) \/ RestoreEnd(c)
  BY <1>0, <1>2 DEF Takeover, RestoreSub, RestoreEnd, Goto, poolVars, bindVars, histVars, Calm,
       Holds, Gone, Served
<1>3. CASE Identify(c)
  BY <1>0, <1>3 DEF Identify, Goto, Calm, Holds, Gone, Served, Before
<1>4. CASE FreeClose(c) \/ UnsubAll(c) \/ Release(c)
  BY <1>0, <1>4 DEF FreeClose, UnsubAll, Release, AfterWill, Goto, poolVars, bindVars,
       histVars, Calm, Holds, Gone, Served
<1>5. CASE Leaving(c)
  BY <1>0, <1>5 DEF Leaving, RecvError, LoopExit, InLoop, Goto, poolVars, histVars, Calm,
       Holds, Gone, Served
<1>6. CASE \/ (\E f \in Filter, q \in SubQoS : Subscribe(c, f, q))
           \/ (\E f \in Filter : Unsubscribe(c, f))
           \/ Retry(c) \/ Ping(c) \/ Disconnect(c) \/ ProtocolError(c)
  <2>1. UNCHANGED <<pc, idx, client_id, clean_session, inflight, sessions, pub, put, acked, shed>> /\ owed' \subseteq owed
    BY <1>6 DEF Subscribe, Unsubscribe, KeepDurable, Retry, Ping, Disconnect, ProtocolError,
         threadVars, bindVars, histVars
  <2> QED
    BY <1>0, <2>1 DEF Calm, Holds, Gone, Served
<1> QED
  BY <1>1, <1>2, <1>3, <1>4, <1>5, <1>6

(* A slot that client_alloc hands out holds no message. *)
LEMMA CalmAccept ==
    ASSUME Base, Accept \/ AcceptFail
    PROVE  Calm
<1>0. PICK c \in Slot :
        /\ pc[c] = "none" /\ pc'[c] \in {"none", "first"}
        /\ \A e \in Slot \ {c} : /\ pc'[e] = pc[e] /\ client_id'[e] = client_id[e] /\ idx'[e] = idx[e]
                                 /\ clean_session'[e] = clean_session[e] /\ inflight'[e] = inflight[e]
        /\ UNCHANGED <<sessions, pub, put, acked, shed, owed>>
  BY FreeSlotFree DEF Accept, AcceptFail, Base, TypeOK, ThreadOwnsSlot, Goto, threadVars,
       histVars
<1> QED
  BY <1>0 DEF Calm, Holds, Gone, Served

(* Steps that keep every message where it is, for identifiers p that are   *)
(* not concerned.                                                          *)
LEMMA AccOpen ==
    ASSUME Base, Quiet, Accounted, NEW c \in Slot, OpenSession(c)
    PROVE  Accounted'
<1> SUFFICES ASSUME NEW o \in owed' PROVE Safe(o[1], o[2], o[3])'
  BY DEF Accounted, Safe
<1> DEFINE p == o[1]
           n == o[2]
           f == o[3]
<1>0. o \in owed /\ p # NoId /\ Safe(p, n, f)
  BY OwedName, AccountedIs DEF OpenSession, KeepDurable
<1>p. conn[c].clean => p # conn[c].id
  BY OwedName DEF OpenSession, KeepDurable
<1>f. /\ pc \in [Slot -> Label] /\ pc[c] = "session" /\ pc'[c] \in {"loop", "restore"}
      /\ \A e \in Slot \ {c} : pc'[e] = pc[e] /\ idx'[e] = idx[e]
      /\ UNCHANGED <<client_id, clean_session, inflight, pub, put, acked, shed>>
  BY DEF OpenSession, Base, TypeOK, Goto, bindVars
<1>s. \A i \in Session : sessions[i].in_use /\ sessions[i].client_id = p =>
        sessions'[i].in_use /\ sessions'[i].client_id = p /\ sessions'[i].queue = sessions[i].queue
  <2>1. CASE conn[c].clean
    <3>1. sessions' = SessionDelete(conn[c].id)
      BY <2>1 DEF OpenSession
    <3> QED
      BY <1>p, <2>1, <3>1, DeleteSpec DEF Base
  <2>2. CASE ~conn[c].clean
    <3>1. sessions' = SessionFindOrCreate(conn[c].id)
      BY <2>2 DEF OpenSession
    <3>2. \A i \in Session : sessions[i].in_use => sessions'[i] = sessions[i]
      BY <3>1, CreateSpec DEF Base
    <3> QED
      BY <3>2
  <2> QED
    BY <2>1, <2>2
<1> HIDE DEF p, n, f
<1>1. CASE <<p, n>> \in acked \cup shed
  BY <1>1, <1>f DEF Safe, p, n
<1>2. CASE HeldInflight(p, n)
  <2>1. \A e \in Slot : Holds(e)
    BY <1>f DEF Holds, Gone
  <2>2. HeldInflight(p, n)'
    BY <1>0, <1>2, <1>f, <2>1, InflightKept
  <2> QED
    BY <2>2 DEF Safe, p, n
<1>3. CASE HeldQueued(p, n)
  <2>1. HeldQueued(p, n)'
    BY <1>3, <1>s, QueuedKept
  <2> QED
    BY <2>1 DEF Safe, p, n
<1>4. CASE InSave(p, n)
  <2>1. InSave(p, n)'
    BY <1>4, <1>f, InSaveKept
  <2> QED
    BY <2>1 DEF Safe, p, n
<1>5. CASE Pending(p, n, f)
  BY <1>5, <1>f, PendingQuiet DEF Base
<1> QED
  BY <1>0, <1>1, <1>2, <1>3, <1>4, <1>5 DEF Safe

(* The offline flag is cleared while nothing is being published, so that   *)
(* no message falls between the two passes of topic_publish.               *)
LEMMA AccOnline ==
    ASSUME Base, Quiet, Accounted, NEW c \in Slot, Online(c)
    PROVE  Accounted'
<1> SUFFICES ASSUME NEW o \in owed' PROVE Safe(o[1], o[2], o[3])'
  BY DEF Accounted, Safe
<1> DEFINE p == o[1]
           n == o[2]
           f == o[3]
<1>0. o \in owed /\ p # NoId /\ Safe(p, n, f)
  BY OwedName, AccountedIs DEF Online, histVars
<1>f. /\ pc \in [Slot -> Label] /\ pc[c] = "online" /\ pc'[c] = "drain"
      /\ \A e \in Slot \ {c} : pc'[e] = pc[e] /\ idx'[e] = idx[e]
      /\ UNCHANGED <<client_id, clean_session, inflight, pub, put, acked, shed>>
  BY DEF Online, Base, TypeOK, Goto, poolVars, histVars
<1>s. \A i \in Session :
        /\ sessions'[i].in_use = sessions[i].in_use /\ sessions'[i].client_id = sessions[i].client_id
        /\ sessions'[i].queue = sessions[i].queue
  BY DEF Online, Base, TypeOK, SessionRec
<1> HIDE DEF p, n, f
<1>1. CASE <<p, n>> \in acked \cup shed
  BY <1>1, <1>f DEF Safe, p, n
<1>2. CASE HeldInflight(p, n)
  <2>1. \A e \in Slot : Holds(e)
    BY <1>f DEF Holds, Gone
  <2>2. HeldInflight(p, n)'
    BY <1>0, <1>2, <1>f, <2>1, InflightKept
  <2> QED
    BY <2>2 DEF Safe, p, n
<1>3. CASE HeldQueued(p, n)
  <2>1. HeldQueued(p, n)'
    BY <1>3, <1>s, QueuedKept
  <2> QED
    BY <2>1 DEF Safe, p, n
<1>4. CASE InSave(p, n)
  <2>1. InSave(p, n)'
    BY <1>4, <1>f, InSaveKept
  <2> QED
    BY <2>1 DEF Safe, p, n
<1>5. CASE Pending(p, n, f)
  BY <1>5, <1>f, PendingQuiet DEF Base
<1> QED
  BY <1>0, <1>1, <1>2, <1>3, <1>4, <1>5 DEF Safe

(* A step that changes queues only leaves the saved subscriptions. *)
LEMMA StoredSame ==
    ASSUME KeepsSessions, NEW p, NEW f, NEW i \in Session, Stored(i, p, f)
    PROVE  Stored(i, p, f)'
  BY DEF KeepsSessions, Stored, Saves

(* session_drain moves a message from the queue into the inflight table,   *)
(* or sheds it when that is full.                                          *)
LEMMA AccDrain ==
    ASSUME Base, Accounted, NEW c \in Slot, Drain(c)
    PROVE  Accounted'
<1> SUFFICES ASSUME NEW o \in owed' PROVE Safe(o[1], o[2], o[3])'
  BY DEF Accounted, Safe
<1> DEFINE p == o[1]
           n == o[2]
           f == o[3]
           s == sess[c]
           i == idx[c]
           e == sessions[s].queue[i]
           j == InflightFree(c)
<1>0. o \in owed /\ p # NoId /\ Safe(p, n, f)
  BY OwedName, AccountedIs DEF Drain
<1>f. /\ pc \in [Slot -> Label] /\ pc[c] = "drain" /\ pc'[c] \in {"drain", "loop"}
      /\ \A d \in Slot \ {c} : pc'[d] = pc[d] /\ idx'[d] = idx[d]
      /\ UNCHANGED <<client_id, clean_session, pub, put, acked>> /\ shed \subseteq shed'
  BY DEF Drain, Base, TypeOK, Goto, bindVars
<1>s. /\ s \in Session /\ i \in QueueIdx /\ sessions[s].in_use /\ sessions[s].client_id = client_id[c]
      /\ ~clean_session[c]
  BY <1>f DEF Base, LocalsOK, SessOK, IdOK
<1>t. /\ inflight \in [Slot -> [InflightIdx -> Entry \cup {None}]]
      /\ sessions \in [Session -> SessionRec]
  BY DEF Base, TypeOK
<1>k. KeepsSessions
  BY <1>f, KeepsSessionsStep DEF Base, Thread, Opening, OpenSession, Online, Persist, SaveSubs,
       DeleteSession
<1>i. \A d \in Slot, k \in InflightIdx : inflight[d][k] # None => inflight'[d][k] = inflight[d][k]
  <2>1. CASE UNCHANGED inflight
    BY <2>1
  <2>2. CASE j # None /\ inflight' = [inflight EXCEPT ![c][j] = e]
    <3> DEFINE J == {k \in InflightIdx : inflight[c][k] = None}
    <3>1. j \in InflightIdx
      BY <2>2, InflightFreeType
    <3>2. inflight[c][j] = None
      <4>1. J \subseteq Nat /\ J # {}
        BY <2>2, IndexSets, FirstEmpty DEF InflightFree
      <4>2. First(J) \in J
        BY <4>1, FirstFound
      <4> QED
        BY <4>2 DEF InflightFree
    <3> HIDE DEF j, e
    <3> QED
      BY <1>t, <2>2, <3>1, <3>2
  <2> QED
    BY <2>1, <2>2 DEF Drain
<1>q. \/ UNCHANGED sessions
      \/ /\ e # None /\ sessions' = [sessions EXCEPT ![s].queue[i] = None]
         /\ \/ <<client_id[c], e.msg.n>> \in shed'
            \/ j \in InflightIdx /\ inflight' = [inflight EXCEPT ![c][j] = e]
  BY InflightFreeType DEF Drain
<1> HIDE DEF p, n, f, s, i, e, j
<1>h. \A d \in Slot : Holds(d)
  BY <1>f DEF Holds, Gone
<1>1. CASE <<p, n>> \in acked \cup shed
  BY <1>1, <1>f DEF Safe, p, n
<1>2. CASE HeldInflight(p, n)
  <2>1. HeldInflight(p, n)'
    BY <1>0, <1>2, <1>h, <1>i, InflightKept
  <2> QED
    BY <2>1 DEF Safe, p, n
<1>3. CASE HeldQueued(p, n)
  <2>1. CASE p = client_id[c] /\ e # None /\ e.msg.n = n /\ ~UNCHANGED sessions
    <3>1. CASE <<client_id[c], e.msg.n>> \in shed'
      BY <2>1, <3>1 DEF Safe, p, n
    <3>2. CASE j \in InflightIdx /\ inflight' = [inflight EXCEPT ![c][j] = e]
      <4>1. inflight'[c][j] = e
        BY <1>t, <3>2
      <4>2. HeldInflight(p, n)'
        BY <1>f, <1>s, <2>1, <3>2, <4>1 DEF HeldInflight
      <4> QED
        BY <4>2 DEF Safe, p, n
    <3> QED
      BY <1>q, <2>1, <3>1, <3>2
  <2>2. CASE ~(p = client_id[c] /\ e # None /\ e.msg.n = n /\ ~UNCHANGED sessions)
    <3>1. \A k \in Session, l \in QueueIdx :
             /\ sessions[k].in_use /\ sessions[k].client_id = p
             /\ sessions[k].queue[l] # None /\ sessions[k].queue[l].msg.n = n
             => /\ sessions'[k].in_use /\ sessions'[k].client_id = p
                /\ sessions'[k].queue[l] # None /\ sessions'[k].queue[l].msg.n = n
      <4> SUFFICES ASSUME NEW k \in Session, NEW l \in QueueIdx,
                          sessions[k].in_use, sessions[k].client_id = p,
                          sessions[k].queue[l] # None, sessions[k].queue[l].msg.n = n
                   PROVE  /\ sessions'[k].in_use /\ sessions'[k].client_id = p
                          /\ sessions'[k].queue[l] = sessions[k].queue[l]
        OBVIOUS
      <4>1. CASE UNCHANGED sessions
        BY <4>1
      <4>2. CASE e # None /\ sessions' = [sessions EXCEPT ![s].queue[i] = None]
        <5>1. ~(k = s /\ l = i) \/ UNCHANGED sessions
          BY <1>s, <2>2, <4>2 DEF e
        <5>2. sessions'[k].queue[l] = sessions[k].queue[l]
          BY <1>s, <1>t, <4>2, <5>1 DEF SessionRec
        <5> QED
          BY <1>k, <5>2 DEF KeepsSessions
      <4> QED
        BY <1>q, <4>1, <4>2
    <3>2. HeldQueued(p, n)'
      BY <1>3, <3>1, QueuedKept
    <3> QED
      BY <3>2 DEF Safe, p, n
  <2> QED
    BY <2>1, <2>2
<1>4. CASE InSave(p, n)
  <2>1. InSave(p, n)'
    BY <1>4, <1>f, InSaveKept
  <2> QED
    BY <2>1 DEF Safe, p, n
<1>5. CASE Pending(p, n, f)
  <2>1. \A d \in Slot : Sends(d, n, f) => Sends(d, n, f)'
    BY <1>f DEF Sends
  <2>2. \A d, g \in Slot : Attached(g, p) /\ Aimed(d, g, n) => Attached(g, p)' /\ Aimed(d, g, n)'
    BY <1>f DEF Attached, Aimed, Serves, Live, Served
  <2>3. Pending(p, n, f)'
    BY <1>5, <1>k, <2>1, <2>2, StoredSame, PendingKept
  <2> QED
    BY <2>3 DEF Safe, p, n, f
<1> QED
  BY <1>0, <1>1, <1>2, <1>3, <1>4, <1>5 DEF Safe

(* A durable subscriber that is connected is among the targets, at QoS 1.  *)
LEMMA FanoutHits ==
    ASSUME PlainFilters, Base, NEW c \in Slot, NEW m \in Msg, NEW ret, Fanout(c, m, ret),
           pub'[c].msg = m,
           NEW e \in Slot, NEW f \in Filter, [client |-> e, filter |-> f, qos |-> 1] \in subs,
           m.qos = 1, <<f, m.topic>> \in Match
    PROVE  \E t \in pub'[c].targets : t.client = e /\ t.qos = 1
<1> DEFINE hit == Matching(m.topic)
           dom == {s.client : s \in hit}
<1>1. PICK pick \in [dom -> hit] :
        LET qos(d) == Lesser(m.qos, pick[d].qos)
            pid(d) == IF qos(d) = 0 THEN 0 ELSE NextPid(next_packet_id[d])
        IN /\ \A d \in DOMAIN pick : pick[d].client = d
           /\ pub' = [pub EXCEPT ![c] =
                        [msg |-> m, ret |-> ret,
                         targets |-> {[client |-> d, qos |-> qos(d), pid |-> pid(d)] :
                                        d \in DOMAIN pick}]]
  BY DEF Fanout
<1> DEFINE q(d) == Lesser(m.qos, pick[d].qos)
           i(d) == IF q(d) = 0 THEN 0 ELSE NextPid(next_packet_id[d])
<1>2. DOMAIN pub = Slot
  BY DEF Base, TypeOK
<1>3. pub'[c].targets = {[client |-> d, qos |-> q(d), pid |-> i(d)] : d \in dom}
  BY <1>1, <1>2
<1>4. e \in dom
  <2>1. [client |-> e, filter |-> f, qos |-> 1] \in hit
    BY DEF Matching
  <2>2. [client |-> e, filter |-> f, qos |-> 1].client = e
    OBVIOUS
  <2> QED
    BY <2>1, <2>2
<1>5. pick[e].client = e /\ pick[e] \in subs /\ <<pick[e].filter, m.topic>> \in Match
  BY <1>1, <1>4 DEF Matching
<1>6. pick[e].qos = 1
  <2>0. pick[e].filter \in Filter /\ m.topic \in Topic /\ pick[e].qos \in SubQoS
    BY <1>5 DEF Base, TypeOK, SubsUnique, Msg
  <2>1. CASE pick[e].filter = f
    BY <1>5, <2>1 DEF Base, SubsUnique
  <2>2. CASE SubQoS \subseteq {1}
    BY <2>0, <2>2
  <2> QED
    BY <1>5, <2>0, <2>1, <2>2 DEF PlainFilters
<1>7. q(e) = 1
  BY <1>6 DEF Lesser
<1>8. [client |-> e, qos |-> q(e), pid |-> i(e)] \in pub'[c].targets
  BY <1>3, <1>4
<1> HIDE DEF q, i, dom, hit
<1> QED
  BY <1>7, <1>8

(* topic_publish: every durable subscription that matches becomes a        *)
(* target, or is served by the offline pass.                               *)
LEMMA AccStarts ==
    ASSUME PlainFilters, Base, SubscriptionKept, Quiet', Accounted,
           NEW c \in Slot, NEW m \in Msg, NEW ret \in {"loop", "persist", "unsub"}, Starts(c, m, ret)
    PROVE  Accounted'
<1>f. /\ pc \in [Slot -> Label] /\ pc[c] \in {"loop", "will"} /\ pc'[c] = "send"
      /\ \A d \in Slot \ {c} : pc'[d] = pc[d] /\ pub'[d] = pub[d]
      /\ UNCHANGED <<client_id, clean_session, inflight, idx, put, sessions, acked, shed>>
      /\ pub'[c].msg = m /\ m # None
      /\ owed' = owed \cup Due(m)
      /\ pub[c].msg = None
  BY NamesAssumption DEF Starts, Base, TypeOK, PubOK, InLoop, Fanout
<1> SUFFICES ASSUME NEW o \in owed' PROVE Safe(o[1], o[2], o[3])'
  BY DEF Accounted, Safe
<1> DEFINE p == o[1]
           n == o[2]
           f == o[3]
<1>s. \A i \in Session : Stored(i, p, f) => Stored(i, p, f)'
  BY <1>f DEF Stored, Saves
<1>a. \A e \in Slot : Attached(e, p) => Attached(e, p)'
  BY <1>f DEF Attached, Serves, Live, Served
<1>1. CASE o \in owed
  <2>0. p # NoId /\ Safe(p, n, f)
    BY <1>1, OwedName, AccountedIs
  <2> HIDE DEF p, n, f
  <2>1. CASE <<p, n>> \in acked \cup shed
    BY <2>1, <1>f DEF Safe, p, n
  <2>2. CASE HeldInflight(p, n)
    <3>1. \A d \in Slot : Holds(d)
      BY <1>f DEF Holds, Gone
    <3>2. HeldInflight(p, n)'
      BY <2>0, <2>2, <1>f, <3>1, InflightKept
    <3> QED
      BY <3>2 DEF Safe, p, n
  <2>3. CASE HeldQueued(p, n)
    <3>1. HeldQueued(p, n)'
      BY <2>3, <1>f, QueuedKept
    <3> QED
      BY <3>1 DEF Safe, p, n
  <2>4. CASE InSave(p, n)
    <3>1. InSave(p, n)'
      BY <2>4, <1>f, InSaveKept
    <3> QED
      BY <3>1 DEF Safe, p, n
  <2>5. CASE Pending(p, n, f)
    <3>1. \A d \in Slot : Sends(d, n, f) => d # c /\ Sends(d, n, f)'
      BY <1>f DEF Sends
    <3>2. \A e, d \in Slot : d # c /\ Aimed(d, e, n) => Aimed(d, e, n)'
      BY <1>f DEF Aimed
    <3>3. Pending(p, n, f)'
      BY <2>5, <1>s, <1>a, <3>1, <3>2, PendingKept
    <3> QED
      BY <3>3 DEF Safe, p, n, f
  <2> QED
    BY <2>0, <2>1, <2>2, <2>3, <2>4, <2>5 DEF Safe
<1>2. CASE o \in Due(m)
  <2>1. m.qos = 1 /\ n = m.n /\ <<p, f>> \in durable /\ <<f, m.topic>> \in Match
    BY <1>2, DueDurable DEF Base, DurableOK, Msg, QoS
  <2>2. Sends(c, n, f)'
    BY <1>f, <2>1 DEF Sends
  <2>3. f \in Filter
    BY <2>1 DEF Base, DurableOK
  <2> HIDE DEF p, n, f
  <2>4. InTable(p, f) \/ InStore(p, f)
    BY <2>1 DEF SubscriptionKept
  <2>5. CASE InStore(p, f)
    <3>1. \E i \in Session : Stored(i, p, f)'
      BY <1>s, <2>5 DEF InStore, p, f
    <3>2. Pending(p, n, f)'
      BY <2>2, <3>1 DEF Pending, Sends, Aimed
    <3> QED
      BY <3>2 DEF Safe, p, n, f
  <2>6. CASE InTable(p, f)
    <3>1. PICK e \in Slot :
            /\ Serves(e, p) /\ ~clean_session[e] /\ pc[e] \in Served \cup {"restore", "online"}
            /\ [client |-> e, filter |-> f, qos |-> 1] \in subs
      BY <2>6 DEF InTable
    <3>2. pc[e] \notin {"restore", "online"}
      BY <1>f DEF Quiet
    <3>3. Attached(e, p)'
      BY <1>a, <3>1, <3>2 DEF Attached, p
    <3>4. \E t \in pub'[c].targets : t.client = e /\ t.qos = 1
      BY <1>f, <2>1, <2>3, <3>1, FanoutHits DEF Starts
    <3>5. Pending(p, n, f)'
      BY <2>2, <3>3, <3>4 DEF Pending, Sends
    <3> QED
      BY <3>5 DEF Safe, p, n, f
  <2> QED
    BY <2>4, <2>5, <2>6
<1> QED
  BY <1>f, <1>1, <1>2

(* A target is sent to and its message goes to a free inflight entry, or   *)
(* is shed when there is none.                                             *)
LEMMA AccSendOne ==
    ASSUME Base, Accounted, NEW c \in Slot, SendOne(c)
    PROVE  Accounted'
<1> SUFFICES ASSUME NEW o \in owed' PROVE Safe(o[1], o[2], o[3])'
  BY DEF Accounted, Safe
<1> DEFINE p == o[1]
           n == o[2]
           f == o[3]
<1>0. o \in owed /\ p # NoId /\ Safe(p, n, f)
  BY OwedName, AccountedIs DEF SendOne
<1>1. PICK t \in pub[c].targets :
        /\ pc[c] = "send" /\ put[c] = None
        /\ pub' = [pub EXCEPT ![c].targets = @ \ {t}]
        /\ UNCHANGED <<pc, idx, client_id, clean_session, inflight, sessions, acked>>
        /\ shed \subseteq shed'
        /\ \A e \in Slot \ {c} : put'[e] = put[e]
        /\ t.qos > 0 => \/ <<client_id[t.client], pub[c].msg.n>> \in shed'
                        \/ put'[c] # None /\ put'[c].to = t.client /\ put'[c].e.msg = pub[c].msg
  <2>1. put \in [Slot -> Found \cup {None}]
    BY DEF Base, TypeOK
  <2>2. PICK t \in pub[c].targets :
        /\ pc[c] = "send" /\ put[c] = None
        /\ pub' = [pub EXCEPT ![c].targets = @ \ {t}]
        /\ UNCHANGED <<pc, idx, client_id, clean_session, inflight, sessions, acked>>
        /\ IF t.qos > 0 /\ InflightFree(t.client) = None
           THEN shed' = shed \cup {<<client_id[t.client], pub[c].msg.n>>}
           ELSE UNCHANGED shed
        /\ IF t.qos > 0 /\ InflightFree(t.client) # None
           THEN put' = [put EXCEPT ![c] = [to |-> t.client, at |-> InflightFree(t.client),
                                           e |-> [pid |-> t.pid, msg |-> pub[c].msg]]]
           ELSE UNCHANGED put
    BY DEF SendOne, bindVars
  <2>3. t.client \in Slot /\ t.pid \in 0 .. PID_MAX /\ (t.qos > 0 => t.pid \in 1 .. PID_MAX) /\ t.qos \in QoS /\ pub[c].msg \in Msg
    BY <2>2, SizesAssumption DEF Base, TypeOK, LocalsOK, Target
  <2>4. CASE t.qos > 0 /\ InflightFree(t.client) # None
    <3> DEFINE new == [to |-> t.client, at |-> InflightFree(t.client), e |-> [pid |-> t.pid, msg |-> pub[c].msg]]
    <3>1. InflightFree(t.client) \in Nat
      BY <2>4, InflightFreeType, IndexSets
    <3>2. new \in Found
      BY <2>3, <2>4, <3>1 DEF Found, Entry
    <3>3. new # None
      BY <3>2, NamesAssumption
    <3>4. new.to = t.client /\ new.e.msg = pub[c].msg
      OBVIOUS
    <3> HIDE DEF new
    <3>5. put' = [put EXCEPT ![c] = new] /\ shed' = shed
      BY <2>2, <2>4 DEF new
    <3>6. put'[c] = new /\ \A e \in Slot \ {c} : put'[e] = put[e]
      BY <2>1, <3>5
    <3> QED
      BY <2>2, <3>3, <3>4, <3>5, <3>6
  <2>5. CASE ~(t.qos > 0 /\ InflightFree(t.client) # None)
    BY <2>2, <2>5
  <2> QED
    BY <2>4, <2>5
<1>t. pub \in [Slot -> [msg : Msg \cup {None}, targets : SUBSET Target,
                         ret : {"none", "loop", "persist", "unsub"}]]
  BY DEF Base, TypeOK
<1>2. /\ \A d \in Slot : pub'[d].msg = pub[d].msg
      /\ \A d \in Slot \ {c} : pub'[d] = pub[d]
      /\ pub'[c].targets = pub[c].targets \ {t}
  BY <1>1, <1>t
<1> HIDE DEF p, n, f
<1>3. CASE <<p, n>> \in acked \cup shed
  BY <1>1, <1>3 DEF Safe, p, n
<1>4. CASE HeldInflight(p, n)
  <2>1. \A d \in Slot : Holds(d)
    BY <1>1 DEF Holds, Gone
  <2>2. HeldInflight(p, n)'
    BY <1>0, <1>1, <1>4, <2>1, InflightKept
  <2> QED
    BY <2>2 DEF Safe, p, n
<1>5. CASE HeldQueued(p, n)
  <2>1. HeldQueued(p, n)'
    BY <1>1, <1>5, QueuedKept
  <2> QED
    BY <2>1 DEF Safe, p, n
<1>6. CASE InSave(p, n)
  <2>1. InSave(p, n)'
    BY <1>1, <1>6, InSaveKept
  <2> QED
    BY <2>1 DEF Safe, p, n
<1>7. CASE Pending(p, n, f) /\ <<p, n>> \notin shed'
  <2>1. \A d \in Slot : Sends(d, n, f) => Sends(d, n, f)'
    BY <1>2 DEF Sends
  <2>2. \A i \in Session : Stored(i, p, f) => Stored(i, p, f)'
    BY <1>1 DEF Stored, Saves
  <2>3. ASSUME NEW e \in Slot, NEW d \in Slot, Sends(d, n, f), Attached(e, p), Aimed(d, e, n)
        PROVE  Attached(e, p)' /\ Aimed(d, e, n)'
    <3>1. Attached(e, p)'
      BY <1>1, <2>3 DEF Attached, Serves, Live
    <3>2. CASE d # c
      BY <1>1, <1>2, <2>3, <3>1, <3>2 DEF Aimed
    <3>3. CASE d = c
      <4>1. PICK u \in pub[c].targets : u.client = e /\ u.qos = 1
        BY <1>1, <2>3, <3>3 DEF Aimed
      <4>2. CASE u # t
        BY <1>2, <3>1, <3>3, <4>1, <4>2 DEF Aimed
      <4>3. CASE u = t
        <5>1. client_id[t.client] = p /\ pub[c].msg.n = n
          BY <2>3, <3>3, <4>1, <4>3 DEF Attached, Serves, Sends
        <5>2. put'[c] # None /\ put'[c].to = e /\ put'[c].e.msg.n = n
          BY <1>1, <1>7, <4>1, <4>3, <5>1
        <5> QED
          BY <3>1, <3>3, <5>2 DEF Aimed
      <4> QED
        BY <4>2, <4>3
    <3> QED
      BY <3>2, <3>3
  <2>4. Pending(p, n, f)'
    BY <1>7, <2>1, <2>2, <2>3, PendingKept
  <2> QED
    BY <2>4 DEF Safe, p, n, f
<1> QED
  BY <1>0, <1>3, <1>4, <1>5, <1>6, <1>7 DEF Safe, p, n

(* client_inflight_store writes the entry it found, if no other thread has *)
(* filled it since.                                                        *)
LEMMA AccStoreOne ==
    ASSUME Base, Accounted, NEW c \in Slot, StoreOne(c), ~Overwrites
    PROVE  Accounted'
<1> SUFFICES ASSUME NEW o \in owed' PROVE Safe(o[1], o[2], o[3])'
  BY DEF Accounted, Safe
<1> DEFINE p == o[1]
           n == o[2]
           f == o[3]
<1>0. o \in owed /\ p # NoId /\ Safe(p, n, f)
  BY OwedName, AccountedIs DEF StoreOne, histVars
<1>f. /\ pc[c] = "send" /\ put[c] # None
      /\ inflight' = [inflight EXCEPT ![put[c].to][put[c].at] = put[c].e]
      /\ put' = [put EXCEPT ![c] = None]
      /\ UNCHANGED <<pc, idx, client_id, clean_session, pub, sessions, acked, shed>>
  BY DEF StoreOne, bindVars, histVars
<1>t. /\ inflight \in [Slot -> [InflightIdx -> Entry \cup {None}]]
      /\ put \in [Slot -> Found \cup {None}]
      /\ put[c].to \in Slot /\ put[c].e \in Entry /\ put[c].at \in InflightIdx
  BY <1>f DEF Base, TypeOK, LocalsOK, Found
<1>n. inflight[put[c].to][put[c].at] = None
  <2>1. put'[c] = None
    BY <1>f, <1>t
  <2> QED
    BY <1>f, <2>1 DEF Overwrites, PutEntry
<1>i. \A d \in Slot, k \in InflightIdx : inflight[d][k] # None => inflight'[d][k] = inflight[d][k]
  BY <1>f, <1>t, <1>n
<1>w. inflight'[put[c].to][put[c].at] = put[c].e /\ put[c].e # None
  BY <1>f, <1>t, NamesAssumption
<1>h. \A d \in Slot : Holds(d)
  BY <1>f DEF Holds
<1> HIDE DEF p, n, f
<1>1. CASE <<p, n>> \in acked \cup shed
  BY <1>1, <1>f DEF Safe, p, n
<1>2. CASE HeldInflight(p, n)
  <2>1. HeldInflight(p, n)'
    BY <1>0, <1>2, <1>h, <1>i, InflightKept
  <2> QED
    BY <2>1 DEF Safe, p, n
<1>3. CASE HeldQueued(p, n)
  <2>1. HeldQueued(p, n)'
    BY <1>3, <1>f, QueuedKept
  <2> QED
    BY <2>1 DEF Safe, p, n
<1>4. CASE InSave(p, n)
  <2>1. \A e \in Slot : e # c => put'[e] = put[e]
    BY <1>f, <1>t
  <2>2. InSave(p, n)'
    BY <1>4, <1>f, <2>1, InSaveKept
  <2> QED
    BY <2>2 DEF Safe, p, n
<1>5. CASE Pending(p, n, f) /\ ~HeldInflight(p, n)'
  <2>1. \A d \in Slot : Sends(d, n, f) => Sends(d, n, f)'
    BY <1>f DEF Sends
  <2>2. \A i \in Session : Stored(i, p, f) => Stored(i, p, f)'
    BY <1>f DEF Stored, Saves
  <2>3. ASSUME NEW e \in Slot, NEW d \in Slot, Attached(e, p), Aimed(d, e, n)
        PROVE  Attached(e, p)' /\ Aimed(d, e, n)'
    <3>1. Attached(e, p)'
      BY <1>f, <2>3 DEF Attached, Serves, Live
    <3>2. CASE d # c \/ \E t \in pub[d].targets : t.client = e /\ t.qos = 1
      BY <1>f, <1>t, <2>3, <3>1, <3>2 DEF Aimed
    <3>3. CASE d = c /\ put[c].to = e /\ put[c].e.msg.n = n
      <4>1. /\ pc'[e] \notin {"none", "unsub", "forget", "release", "inflights"}
            /\ client_id'[e] = p /\ ~clean_session'[e]
        BY <3>1 DEF Attached, Serves, Served
      <4>2. HeldInflight(p, n)'
        BY <1>t, <1>w, <3>3, <4>1 DEF HeldInflight
      <4> QED
        BY <1>5, <4>2
    <3> QED
      BY <2>3, <3>2, <3>3 DEF Aimed
  <2>4. Pending(p, n, f)'
    BY <1>5, <2>1, <2>2, <2>3, PendingKept
  <2> QED
    BY <2>4 DEF Safe, p, n, f
<1> QED
  BY <1>0, <1>1, <1>2, <1>3, <1>4, <1>5 DEF Safe, p, n

(* session_enqueue keeps what is queued, and queues the message if there   *)
(* is room.                                                                *)
LEMMA QueuedSpec ==
    ASSUME NEW s \in SessionRec, NEW m \in Msg
    PROVE  /\ \A j \in QueueIdx : s.queue[j] # None => Queued(s, m).queue[j] = s.queue[j]
           /\ QueueFree(s) # None =>
                \E j \in QueueIdx : /\ Queued(s, m).queue[j] # None
                                    /\ Queued(s, m).queue[j].msg = m
<1> DEFINE I == {i \in QueueIdx : s.queue[i] = None}
           counted == [s EXCEPT !.next_packet_id = (QueuePid(s) + 1) % (PID_MAX + 1)]
           e == [pid |-> QueuePid(s), msg |-> m]
<1>1. CASE QueueFree(s) = None
  <2>1. Queued(s, m) = counted
    BY <1>1 DEF Queued
  <2>2. Queued(s, m).queue = s.queue
    BY <2>1 DEF SessionRec
  <2> QED
    BY <1>1, <2>2
<1>2. CASE QueueFree(s) # None
  <2> DEFINE k == QueueFree(s)
  <2>1. k \in QueueIdx /\ s.queue[k] = None
    <3>1. I \subseteq Nat /\ I # {}
      BY <1>2, IndexSets, FirstEmpty DEF QueueFree
    <3>2. First(I) \in I
      BY <3>1, FirstFound
    <3> QED
      BY <3>2 DEF QueueFree
  <2>2. e # None /\ e.msg = m
    <3>1. QueuePid(s) \in 1 .. PID_MAX
      BY SizesAssumption DEF QueuePid, SessionRec
    <3> QED
      BY <3>1, NamesAssumption DEF Entry
  <2>3. Queued(s, m) = [counted EXCEPT !.queue[k] = e]
    BY <1>2 DEF Queued
  <2>4. counted.queue = s.queue /\ s.queue \in [QueueIdx -> Entry \cup {None}]
    BY DEF SessionRec
  <2>5. counted \in [in_use : BOOLEAN, client_id : ClientId \cup {NoId}, offline : BOOLEAN,
                     subs : Seq(Saved), queue : [QueueIdx -> Entry \cup {None}], next_packet_id : Nat]
    <3>1. QueuePid(s) \in 1 .. PID_MAX
      BY SizesAssumption DEF QueuePid, SessionRec
    <3>2. (QueuePid(s) + 1) % (PID_MAX + 1) \in Nat
      BY <3>1, SizesAssumption
    <3> QED
      BY <3>2 DEF SessionRec
  <2> HIDE DEF k, e, counted
  <2>6. Queued(s, m).queue = [s.queue EXCEPT ![k] = e]
    BY <2>3, <2>4, <2>5
  <2>7. Queued(s, m).queue[k] = e /\ \A j \in QueueIdx : j # k => Queued(s, m).queue[j] = s.queue[j]
    BY <2>1, <2>4, <2>6
  <2> QED
    BY <2>1, <2>2, <2>7
<1> QED
  BY <1>1, <1>2

(* A session that stores a durable subscription queues the message. *)
LEMMA StoredQueues ==
    ASSUME PlainFilters, Base, NEW i \in Session, NEW p, NEW f \in Filter, Stored(i, p, f),
           NEW m \in Msg, m.qos = 1, <<f, m.topic>> \in Match
    PROVE  Queues(sessions[i], m)
<1> DEFINE s == sessions[i]
           J == {j \in DOMAIN s.subs : <<s.subs[j].filter, m.topic>> \in Match}
           k == OfflineMatch(s, m)
<1>1. s \in SessionRec /\ s.subs \in Seq(Saved)
  BY DEF Base, TypeOK, SessionRec
<1>2. PICK j \in DOMAIN s.subs : s.subs[j] = [filter |-> f, qos |-> 1]
  BY DEF Stored, Saves
<1>3. j \in J
  BY <1>2
<1>4. J \subseteq Nat /\ J # {}
  <2>1. DOMAIN s.subs = 1 .. Len(s.subs) /\ Len(s.subs) \in Nat
    BY <1>1
  <2> QED
    BY <1>3, <2>1
<1>5. First(J) \in J /\ k = First(J)
  BY <1>4, FirstFound DEF OfflineMatch
<1>6. k \in DOMAIN s.subs /\ <<s.subs[k].filter, m.topic>> \in Match /\ k \in Nat
  BY <1>4, <1>5
<1>7. k # None
  BY <1>6, NamesAssumption
<1>8. s.subs[k].qos = 1
  <2>0. s.subs[k].filter \in Filter /\ m.topic \in Topic /\ s.subs[k].qos \in SubQoS
    <3>1. s.subs[k] \in Saved
      BY <1>1, <1>6
    <3> QED
      BY <1>6, <3>1 DEF Saved, Msg, Base, SavedUnique
  <2>1. CASE s.subs[k].filter = f
    <3>1. k = j
      BY <1>2, <1>6, <2>1 DEF Base, SavedUnique
    <3> QED
      BY <1>2, <3>1
  <2>2. CASE SubQoS \subseteq {1}
    BY <2>0, <2>2
  <2> QED
    BY <1>6, <2>0, <2>1, <2>2 DEF PlainFilters
<1>9. Lesser(m.qos, s.subs[k].qos) > 0
  BY <1>8 DEF Lesser
<1> QED
  BY <1>7, <1>9 DEF Queues, Stored

(* session_offline_publish queues the message for a client whose           *)
(* subscription is in its session, or sheds it when the queue is full; the *)
(* publish ends with nothing left to do.                                   *)
LEMMA AccOffline ==
    ASSUME PlainFilters, Base, Accounted, NEW c \in Slot, OfflinePublish(c)
    PROVE  Accounted'
<1> SUFFICES ASSUME NEW o \in owed' PROVE Safe(o[1], o[2], o[3])'
  BY DEF Accounted, Safe
<1> DEFINE p == o[1]
           n == o[2]
           f == o[3]
           m == pub[c].msg
<1>0. o \in owed /\ p # NoId /\ Safe(p, n, f) /\ f \in Filter
  <2>1. o \in owed
    BY DEF OfflinePublish
  <2>2. <<p, f>> \in durable /\ p # NoId
    BY <2>1, OwedName
  <2> QED
    BY <2>1, <2>2, AccountedIs DEF Base, DurableOK
<1>f. /\ pc[c] = "send" /\ pub[c].targets = {} /\ put[c] = None
      /\ pc'[c] \in {"loop", "persist", "unsub"} /\ (pc'[c] = "unsub" => clean_session[c])
      /\ \A d \in Slot \ {c} : pc'[d] = pc[d] /\ pub'[d] = pub[d]
      /\ UNCHANGED <<client_id, clean_session, inflight, idx, put, acked>> /\ shed \subseteq shed'
      /\ m \in Msg
  BY DEF OfflinePublish, Base, TypeOK, LocalsOK, PubOK, Goto, bindVars
<1>t. sessions \in [Session -> SessionRec]
  BY DEF Base, TypeOK
<1>s. /\ sessions' = [i \in Session |-> IF Queues(sessions[i], m) THEN Queued(sessions[i], m) ELSE sessions[i]]
      /\ \A i \in Session : Queues(sessions[i], m) /\ QueueFree(sessions[i]) = None =>
                               <<sessions[i].client_id, m.n>> \in shed'
  BY DEF OfflinePublish
<1>k. KeepsSessions
  BY <1>f, KeepsSessionsStep DEF Base, Thread, Publishing, OpenSession, Online, Persist,
       SaveSubs, DeleteSession
<1>q. \A i \in Session, j \in QueueIdx :
         sessions[i].queue[j] # None => sessions'[i].queue[j] = sessions[i].queue[j]
  <2> TAKE i \in Session, j \in QueueIdx
  <2>1. sessions[i].queue[j] # None => Queued(sessions[i], m).queue[j] = sessions[i].queue[j]
    BY <1>f, <1>t, QueuedSpec
  <2> QED
    BY <1>s, <2>1
<1> HIDE DEF p, n, f, m
<1>h. \A d \in Slot : Holds(d)
  BY <1>f DEF Holds, Gone
<1>1. CASE <<p, n>> \in acked \cup shed
  BY <1>1, <1>f DEF Safe, p, n
<1>2. CASE HeldInflight(p, n)
  <2>1. HeldInflight(p, n)'
    BY <1>0, <1>2, <1>f, <1>h, InflightKept
  <2> QED
    BY <2>1 DEF Safe, p, n
<1>3. CASE HeldQueued(p, n)
  <2>1. HeldQueued(p, n)'
    BY <1>3, <1>k, <1>q, QueuedKept DEF KeepsSessions
  <2> QED
    BY <2>1 DEF Safe, p, n
<1>4. CASE InSave(p, n)
  <2>1. InSave(p, n)'
    BY <1>4, <1>f, InSaveKept
  <2> QED
    BY <2>1 DEF Safe, p, n
<1>5. CASE Pending(p, n, f)
  <2>1. PICK d \in Slot : /\ Sends(d, n, f)
                          /\ \/ \E i \in Session : Stored(i, p, f)
                             \/ \E e \in Slot : Attached(e, p) /\ Aimed(d, e, n)
    BY <1>5, PendingIs
  <2>2. CASE d = c
    <3>1. PICK i \in Session : Stored(i, p, f)
      BY <1>f, <2>1, <2>2 DEF Aimed
    <3>2. m.n = n /\ m.qos = 1 /\ <<f, m.topic>> \in Match
      BY <2>1, <2>2 DEF Sends, m
    <3>3. Queues(sessions[i], m)
      BY <1>0, <1>f, <3>1, <3>2, StoredQueues
    <3>4. CASE QueueFree(sessions[i]) = None
      <4>1. <<p, n>> \in shed'
        BY <1>s, <3>1, <3>2, <3>3, <3>4 DEF Stored
      <4> QED
        BY <4>1 DEF Safe, p, n
    <3>5. CASE QueueFree(sessions[i]) # None
      <4>1. sessions'[i] = Queued(sessions[i], m)
        BY <1>s, <3>3
      <4>2. \E j \in QueueIdx : sessions'[i].queue[j] # None /\ sessions'[i].queue[j].msg = m
        BY <1>f, <1>t, <3>5, <4>1, QueuedSpec
      <4>3. HeldQueued(p, n)'
        BY <1>k, <3>1, <3>2, <4>2 DEF HeldQueued, Stored, KeepsSessions
      <4> QED
        BY <4>3 DEF Safe, p, n
    <3> QED
      BY <3>4, <3>5
  <2>3. CASE d # c
    <3>1. Sends(d, n, f)'
      BY <1>f, <2>1, <2>3 DEF Sends
    <3>2. \A i \in Session : Stored(i, p, f) => Stored(i, p, f)'
      BY <1>k, StoredSame
    <3>3. \A e \in Slot : Attached(e, p) /\ Aimed(d, e, n) => Attached(e, p)' /\ Aimed(d, e, n)'
      BY <1>f, <2>3 DEF Attached, Aimed, Serves, Live, Served
    <3>4. Pending(p, n, f)'
      BY <2>1, <3>1, <3>2, <3>3 DEF Pending, Sends, Aimed
    <3> QED
      BY <3>4 DEF Safe, p, n, f
  <2> QED
    BY <2>2, <2>3
<1> QED
  BY <1>0, <1>1, <1>2, <1>3, <1>4, <1>5 DEF Safe

(* client_inflight_ack ends the message that was acknowledged, if no other *)
(* has its identifier.                                                     *)
LEMMA AccPubAck ==
    ASSUME Base, Accounted, NEW c \in Slot, NEW w \in wire[c], PubAck(c, w), ~AcksOther
    PROVE  Accounted'
<1> SUFFICES ASSUME NEW o \in owed' PROVE Safe(o[1], o[2], o[3])'
  BY DEF Accounted, Safe
<1> DEFINE p == o[1]
           n == o[2]
           f == o[3]
           k == InflightFind(c, w.pid)
<1>0. o \in owed /\ p # NoId /\ Safe(p, n, f)
  BY OwedName, AccountedIs DEF PubAck
<1>f. /\ InLoop(c)
      /\ UNCHANGED <<pc, idx, client_id, clean_session, pub, put, sessions, shed>> /\ acked \subseteq acked'
      /\ inflight' = IF k = None THEN inflight ELSE [inflight EXCEPT ![c][k] = None]
  BY DEF PubAck, bindVars, threadVars
<1>t. inflight \in [Slot -> [InflightIdx -> Entry \cup {None}]] /\ (k # None => k \in InflightIdx)
  BY InflightFindType DEF Base, TypeOK
<1> HIDE DEF p, n, f, k
<1>h. \A d \in Slot : Holds(d)
  BY <1>f DEF Holds
<1>1. CASE <<p, n>> \in acked \cup shed
  BY <1>1, <1>f DEF Safe, p, n
<1>2. CASE HeldInflight(p, n) /\ <<p, n>> \notin acked'
  <2>1. ASSUME NEW d \in Slot, NEW i \in InflightIdx, Serves(d, p),
               inflight[d][i] # None, inflight[d][i].msg.n = n
        PROVE  inflight'[d][i] = inflight[d][i]
    <3>1. CASE k # None /\ d = c /\ i = k
      <4>1. inflight'[c][i] = None
        BY <1>f, <1>t, <3>1
      <4>2. client_id[c] = p
        BY <2>1, <3>1 DEF Serves
      <4> QED
        BY <1>f, <1>2, <2>1, <3>1, <4>1, <4>2 DEF AcksOther
    <3>2. CASE ~(k # None /\ d = c /\ i = k)
      BY <1>f, <1>t, <3>2
    <3> QED
      BY <3>1, <3>2
  <2>2. HeldInflight(p, n)'
    BY <1>0, <1>2, <1>h, <2>1, InflightKept
  <2> QED
    BY <2>2 DEF Safe, p, n
<1>3. CASE HeldQueued(p, n)
  <2>1. HeldQueued(p, n)'
    BY <1>3, <1>f, QueuedKept
  <2> QED
    BY <2>1 DEF Safe, p, n
<1>4. CASE InSave(p, n)
  <2>1. InSave(p, n)'
    BY <1>4, <1>f, InSaveKept
  <2> QED
    BY <2>1 DEF Safe, p, n
<1>5. CASE Pending(p, n, f)
  <2>1. Pending(p, n, f)'
    BY <1>5, <1>f DEF Pending, Stored, Saves, Attached, Serves, Live
  <2> QED
    BY <2>1 DEF Safe, p, n, f
<1> QED
  BY <1>0, <1>1, <1>2, <1>3, <1>4, <1>5 DEF Safe, p, n

(* client_free takes one inflight message to the session queue, or sheds   *)
(* it when the queue is full.                                              *)
LEMMA AccSavePick ==
    ASSUME Base, Accounted, NEW c \in Slot, SavePick(c)
    PROVE  Accounted'
<1> SUFFICES ASSUME NEW o \in owed' PROVE Safe(o[1], o[2], o[3])'
  BY DEF Accounted, Safe
<1> DEFINE p == o[1]
           n == o[2]
           f == o[3]
           e == inflight[c][idx[c]]
           j == QueueFree(sessions[sess[c]])
<1>0. o \in owed /\ p # NoId /\ Safe(p, n, f)
  BY OwedName, AccountedIs DEF SavePick
<1>f. /\ pc[c] = "inflights" /\ put[c] = None
      /\ UNCHANGED <<pc, client_id, clean_session, inflight, pub, sessions, acked>> /\ shed \subseteq shed'
      /\ idx'[c] = idx[c] + 1 /\ idx[c] \in Nat
      /\ \A d \in Slot \ {c} : idx'[d] = idx[d] /\ put'[d] = put[d]
  BY DEF SavePick, Base, TypeOK, poolVars
<1>e. e # None => \/ <<client_id[c], e.msg.n>> \in shed'
                  \/ put'[c] # None /\ put'[c].e = e
  <2> SUFFICES ASSUME e # None, j # None PROVE put'[c] # None /\ put'[c].e = e
    BY DEF SavePick
  <2>1. /\ put \in [Slot -> Found \cup {None}]
        /\ inflight \in [Slot -> [InflightIdx -> Entry \cup {None}]]
        /\ sess[c] \in Session
    BY <1>f DEF Base, TypeOK, LocalsOK
  <2>2. idx[c] \in InflightIdx
    BY <1>f, SizesAssumption DEF SavePick, InflightIdx
  <2>3. e \in Entry
    BY <2>1, <2>2
  <2>4. j \in Nat
    BY QueueFreeType, IndexSets
  <2>5. sess[c] \in Slot
    BY <2>1, IndexSets
  <2> DEFINE new == [to |-> sess[c], at |-> j, e |-> e]
  <2>6. new \in Found /\ new.e = e
    BY <2>3, <2>4, <2>5 DEF Found
  <2>7. new # None
    BY <2>6, NamesAssumption
  <2>8. put' = [put EXCEPT ![c] = new]
    BY DEF SavePick
  <2> HIDE DEF new, e, j
  <2> QED
    BY <2>1, <2>6, <2>7, <2>8
<1> HIDE DEF p, n, f, j
<1>1. CASE <<p, n>> \in acked \cup shed
  BY <1>1, <1>f DEF Safe, p, n
<1>2. CASE HeldInflight(p, n)
  <2>1. PICK d \in Slot, i \in InflightIdx :
          /\ pc[d] \notin Gone /\ client_id[d] = p /\ ~clean_session[d]
          /\ inflight[d][i] # None /\ inflight[d][i].msg.n = n
          /\ pc[d] = "inflights" => i >= idx[d]
    BY <1>2 DEF HeldInflight, Gone
  <2>2. CASE d = c /\ i = idx[c]
    <3>1. e # None /\ e.msg.n = n /\ client_id[c] = p
      BY <2>1, <2>2
    <3> HIDE DEF e
    <3>2. CASE <<client_id[c], e.msg.n>> \in shed'
      BY <3>1, <3>2 DEF Safe, p, n
    <3>3. CASE put'[c] # None /\ put'[c].e = e
      <4>1. InSave(p, n)'
        BY <1>f, <3>1, <3>3 DEF InSave
      <4> QED
        BY <4>1 DEF Safe, p, n
    <3> QED
      BY <1>e, <3>1, <3>2, <3>3
  <2>3. CASE ~(d = c /\ i = idx[c])
    <3>1. pc[d] = "inflights" => i >= idx'[d]
      <4>1. i \in Nat
        BY IndexSets
      <4> QED
        BY <1>f, <2>1, <2>3, <4>1
    <3>2. HeldInflight(p, n)'
      BY <1>f, <2>1, <3>1 DEF HeldInflight, Gone
    <3> QED
      BY <3>2 DEF Safe, p, n
  <2> QED
    BY <2>2, <2>3
<1>3. CASE HeldQueued(p, n)
  <2>1. HeldQueued(p, n)'
    BY <1>3, <1>f, QueuedKept
  <2> QED
    BY <2>1 DEF Safe, p, n
<1>4. CASE InSave(p, n)
  <2>1. InSave(p, n)'
    BY <1>4, <1>f, InSaveKept
  <2> QED
    BY <2>1 DEF Safe, p, n
<1>5. CASE Pending(p, n, f)
  <2>1. \A d \in Slot : Sends(d, n, f) => Sends(d, n, f)'
    BY <1>f DEF Sends
  <2>2. \A i \in Session : Stored(i, p, f) => Stored(i, p, f)'
    BY <1>f DEF Stored, Saves
  <2>3. \A d, g \in Slot : Attached(g, p) /\ Aimed(d, g, n) => Attached(g, p)' /\ Aimed(d, g, n)'
    BY <1>f DEF Attached, Aimed, Serves, Live
  <2>4. Pending(p, n, f)'
    BY <1>5, <2>1, <2>2, <2>3, PendingKept
  <2> QED
    BY <2>4 DEF Safe, p, n, f
<1> QED
  BY <1>0, <1>1, <1>2, <1>3, <1>4, <1>5 DEF Safe

(* session_enqueue writes the queue entry it found, if no other thread has *)
(* filled it since.                                                        *)
LEMMA AccSaveWrite ==
    ASSUME Base, Accounted, NEW c \in Slot, SaveWrite(c), ~Overwrites
    PROVE  Accounted'
<1> SUFFICES ASSUME NEW o \in owed' PROVE Safe(o[1], o[2], o[3])'
  BY DEF Accounted, Safe
<1> DEFINE p == o[1]
           n == o[2]
           f == o[3]
           s == sess[c]
           k == put[c].at
           e == put[c].e
<1>0. o \in owed /\ p # NoId /\ Safe(p, n, f)
  BY OwedName, AccountedIs DEF SaveWrite, histVars
<1>f. /\ pc[c] = "inflights" /\ put[c] # None /\ put[c].to = s
      /\ UNCHANGED <<pc, idx, client_id, clean_session, inflight, pub, acked, shed>>
      /\ sessions' = [sessions EXCEPT ![s].queue[k] = e]
      /\ put'[c] = None
      /\ \A d \in Slot \ {c} : put'[d] = put[d]
  BY DEF SaveWrite, Base, TypeOK, PubOK, poolVars, histVars
<1>t. /\ sessions \in [Session -> SessionRec]
      /\ s \in Session /\ k \in QueueIdx /\ e \in Entry /\ e # None
      /\ sessions[s].in_use /\ sessions[s].client_id = client_id[c]
  BY <1>f, NamesAssumption DEF Base, TypeOK, LocalsOK, SessOK, Found
<1>k. KeepsSessions
  BY <1>f, KeepsSessionsStep DEF Base, Thread, Freeing, OpenSession, Online, Persist, SaveSubs,
       DeleteSession
<1>n. sessions[s].queue[k] = None
  BY <1>f DEF Overwrites, PutEntry
<1>w. sessions'[s].queue[k] = e
  BY <1>f, <1>t DEF SessionRec
<1>q. \A i \in Session, j \in QueueIdx :
         sessions[i].queue[j] # None => sessions'[i].queue[j] = sessions[i].queue[j]
  BY <1>f, <1>t, <1>n DEF SessionRec
<1> HIDE DEF p, n, f, s, k
<1>1. CASE <<p, n>> \in acked \cup shed
  BY <1>1, <1>f DEF Safe, p, n
<1>2. CASE HeldInflight(p, n)
  <2>1. \A d \in Slot : Holds(d)
    BY <1>f DEF Holds
  <2>2. HeldInflight(p, n)'
    BY <1>0, <1>2, <1>f, <2>1, InflightKept
  <2> QED
    BY <2>2 DEF Safe, p, n
<1>3. CASE HeldQueued(p, n)
  <2>1. HeldQueued(p, n)'
    BY <1>3, <1>k, <1>q, QueuedKept DEF KeepsSessions
  <2> QED
    BY <2>1 DEF Safe, p, n
<1>4. CASE InSave(p, n)
  <2>1. PICK d \in Slot : /\ pc[d] = "inflights" /\ client_id[d] = p
                          /\ put[d] # None /\ put[d].e.msg.n = n
    BY <1>4 DEF InSave
  <2>2. CASE d = c
    <3>1. HeldQueued(p, n)'
      BY <1>k, <1>t, <1>w, <2>1, <2>2 DEF HeldQueued, KeepsSessions
    <3> QED
      BY <3>1 DEF Safe, p, n
  <2>3. CASE d # c
    <3>1. InSave(p, n)'
      BY <1>f, <2>1, <2>3 DEF InSave
    <3> QED
      BY <3>1 DEF Safe, p, n
  <2> QED
    BY <2>2, <2>3
<1>5. CASE Pending(p, n, f)
  <2>1. \A d \in Slot : Sends(d, n, f) => Sends(d, n, f)' /\ d # c
    BY <1>f DEF Sends, Base, PubOK
  <2>2. \A d, g \in Slot : d # c /\ Attached(g, p) /\ Aimed(d, g, n) => Attached(g, p)' /\ Aimed(d, g, n)'
    BY <1>f DEF Attached, Aimed, Serves, Live
  <2>3. Pending(p, n, f)'
    BY <1>5, <1>k, <2>1, <2>2, StoredSame, PendingKept
  <2> QED
    BY <2>3 DEF Safe, p, n, f
<1> QED
  BY <1>0, <1>1, <1>2, <1>3, <1>4, <1>5 DEF Safe

(* When client_free leaves its inflight table every message of it has been *)
(* saved or shed.                                                          *)
LEMMA AccSaveEnd ==
    ASSUME Base, Accounted, NEW c \in Slot, SaveEnd(c)
    PROVE  Accounted'
<1> SUFFICES ASSUME NEW o \in owed' PROVE Safe(o[1], o[2], o[3])'
  BY DEF Accounted, Safe
<1> DEFINE p == o[1]
           n == o[2]
           f == o[3]
<1>0. o \in owed /\ p # NoId /\ Safe(p, n, f)
  BY OwedName, AccountedIs DEF SaveEnd, histVars
<1>f. /\ pc[c] = "inflights" /\ put[c] = None /\ idx[c] = CLIENT_INFLIGHT_MAX
      /\ UNCHANGED <<idx, client_id, clean_session, inflight, pub, put, sessions, acked, shed>>
      /\ \A d \in Slot \ {c} : pc'[d] = pc[d]
  BY DEF SaveEnd, Base, TypeOK, Goto, poolVars, histVars
<1> HIDE DEF p, n, f
<1>1. CASE <<p, n>> \in acked \cup shed
  BY <1>1, <1>f DEF Safe, p, n
<1>2. CASE HeldInflight(p, n)
  <2>1. \A i \in InflightIdx : ~(i >= idx[c])
    BY <1>f, SizesAssumption DEF InflightIdx
  <2>2. HeldInflight(p, n)'
    BY <1>2, <1>f, <2>1 DEF HeldInflight
  <2> QED
    BY <2>2 DEF Safe, p, n
<1>3. CASE HeldQueued(p, n)
  <2>1. HeldQueued(p, n)'
    BY <1>3, <1>f, QueuedKept
  <2> QED
    BY <2>1 DEF Safe, p, n
<1>4. CASE InSave(p, n)
  <2>1. InSave(p, n)'
    BY <1>4, <1>f, InSaveKept
  <2> QED
    BY <2>1 DEF Safe, p, n
<1>5. CASE Pending(p, n, f)
  <2>1. \A d \in Slot : Sends(d, n, f) => Sends(d, n, f)'
    BY <1>f DEF Sends
  <2>2. \A i \in Session : Stored(i, p, f) => Stored(i, p, f)'
    BY <1>f DEF Stored, Saves
  <2>3. \A d, g \in Slot : Attached(g, p) /\ Aimed(d, g, n) => Attached(g, p)' /\ Aimed(d, g, n)'
    BY <1>f DEF Attached, Aimed, Serves, Live, Served
  <2>4. Pending(p, n, f)'
    BY <1>5, <2>1, <2>2, <2>3, PendingKept
  <2> QED
    BY <2>4 DEF Safe, p, n, f
<1> QED
  BY <1>0, <1>1, <1>2, <1>3, <1>4, <1>5 DEF Safe

(* Without a free session the subscriptions of the client end, and what is *)
(* due to them with them.                                                  *)
LEMMA AccPersist ==
    ASSUME Base, Accounted, NEW c \in Slot, Persist(c)
    PROVE  Accounted'
<1> SUFFICES ASSUME NEW o \in owed' PROVE Safe(o[1], o[2], o[3])'
  BY DEF Accounted, Safe
<1> DEFINE p == o[1]
           n == o[2]
           f == o[3]
           s == SessionSlot(client_id[c])
<1>0. o \in owed /\ p # NoId /\ Safe(p, n, f)
  BY OwedName, AccountedIs DEF Persist, KeepDurable
<1>p. s = None => p # client_id[c]
  BY OwedName DEF Persist, KeepDurable
<1>f. /\ pc[c] = "persist" /\ pc'[c] = IF s = None THEN "unsub" ELSE "save"
      /\ UNCHANGED <<idx, client_id, clean_session, inflight, pub, put, acked, shed>>
      /\ \A d \in Slot \ {c} : pc'[d] = pc[d]
  BY DEF Persist, Base, TypeOK, Goto, poolVars
<1>s. \A i \in Session : sessions[i].in_use => sessions'[i] = sessions[i]
  BY CreateSpec DEF Persist, Base
<1> HIDE DEF p, n, f, s
<1>1. CASE <<p, n>> \in acked \cup shed
  BY <1>1, <1>f DEF Safe, p, n
<1>2. CASE HeldInflight(p, n)
  <2>1. HeldInflight(p, n)'
    BY <1>2, <1>f, <1>p DEF HeldInflight
  <2> QED
    BY <2>1 DEF Safe, p, n
<1>3. CASE HeldQueued(p, n)
  <2>1. HeldQueued(p, n)'
    BY <1>3, <1>s, QueuedKept
  <2> QED
    BY <2>1 DEF Safe, p, n
<1>4. CASE InSave(p, n)
  <2>1. InSave(p, n)'
    BY <1>4, <1>f, InSaveKept
  <2> QED
    BY <2>1 DEF Safe, p, n
<1>5. CASE Pending(p, n, f)
  <2>1. \A d \in Slot : Sends(d, n, f) => Sends(d, n, f)'
    BY <1>f DEF Sends
  <2>2. \A i \in Session : Stored(i, p, f) => Stored(i, p, f)'
    BY <1>s DEF Stored, Saves
  <2>3. \A d, g \in Slot : Attached(g, p) /\ Aimed(d, g, n) => Attached(g, p)' /\ Aimed(d, g, n)'
    BY <1>f, <1>p DEF Attached, Aimed, Serves, Live, Served
  <2>4. Pending(p, n, f)'
    BY <1>5, <2>1, <2>2, <2>3, PendingKept
  <2> QED
    BY <2>4 DEF Safe, p, n, f
<1> QED
  BY <1>0, <1>1, <1>2, <1>3, <1>4, <1>5 DEF Safe

(* session_save_subs marks the session offline: a publish in progress that *)
(* aims at this connection will find the session in its offline pass.      *)
LEMMA AccSaveSubs ==
    ASSUME Base, SubscriptionKept, Accounted, NEW c \in Slot, SaveSubs(c)
    PROVE  Accounted'
<1> SUFFICES ASSUME NEW o \in owed' PROVE Safe(o[1], o[2], o[3])'
  BY DEF Accounted, Safe
<1> DEFINE p == o[1]
           n == o[2]
           f == o[3]
<1>0. o \in owed /\ p # NoId /\ Safe(p, n, f) /\ <<p, f>> \in durable'
  BY OwedName, AccountedIs DEF SaveSubs, KeepDurable
<1>f. /\ pc[c] = "save" /\ pc'[c] = "inflights" /\ idx'[c] = 0
      /\ UNCHANGED <<client_id, clean_session, inflight, pub, put, sess, acked, shed>>
      /\ \A d \in Slot \ {c} : pc'[d] = pc[d] /\ idx'[d] = idx[d]
  BY DEF SaveSubs, Base, TypeOK, Goto, poolVars
<1>s. /\ p = client_id[c] => Stored(sess[c], p, f)'
      /\ \A i \in Session : i # sess[c] => sessions'[i] = sessions[i]
      /\ sess[c] \in Session /\ sessions[sess[c]].client_id = client_id[c]
      /\ \A i \in Session : /\ sessions'[i].queue = sessions[i].queue
                            /\ sessions'[i].in_use = sessions[i].in_use
                            /\ sessions'[i].client_id = sessions[i].client_id
  BY <1>0, SavedStored
<1> HIDE DEF p, n, f
<1>1. CASE <<p, n>> \in acked \cup shed
  BY <1>1, <1>f DEF Safe, p, n
<1>2. CASE HeldInflight(p, n)
  <2>1. \A d \in Slot : Holds(d)
    BY <1>f DEF Holds, Gone
  <2>2. HeldInflight(p, n)'
    BY <1>0, <1>2, <1>f, <2>1, InflightKept
  <2> QED
    BY <2>2 DEF Safe, p, n
<1>3. CASE HeldQueued(p, n)
  <2>1. HeldQueued(p, n)'
    BY <1>3, <1>s, QueuedKept
  <2> QED
    BY <2>1 DEF Safe, p, n
<1>4. CASE InSave(p, n)
  <2>1. InSave(p, n)'
    BY <1>4, <1>f, InSaveKept
  <2> QED
    BY <2>1 DEF Safe, p, n
<1>5. CASE Pending(p, n, f)
  <2>1. \A d \in Slot : Sends(d, n, f) => Sends(d, n, f)'
    BY <1>f DEF Sends
  <2>p. p = client_id[c] => \E i \in Session : Stored(i, p, f)'
    <3>1. Stored(sess[c], p, f)' <=> \E i \in {sess[c]} : Stored(i, p, f)'
      BY <1>f DEF Stored, Saves
    <3> QED
      BY <1>s, <3>1
  <2>2. PICK d \in Slot : /\ Sends(d, n, f)
                          /\ \/ \E i \in Session : Stored(i, p, f)
                             \/ \E e \in Slot : Attached(e, p) /\ Aimed(d, e, n)
    BY <1>5, PendingIs
  <2>3. CASE p = client_id[c]
    <3>1. Pending(p, n, f)'
      BY <2>1, <2>2, <2>3, <2>p DEF Pending, Sends, Aimed
    <3> QED
      BY <3>1 DEF Safe, p, n, f
  <2>4. CASE p # client_id[c]
    <3>1. \A i \in Session : Stored(i, p, f) => Stored(i, p, f)'
      BY <1>s, <2>4 DEF Stored, Saves
    <3>2. \A g, e \in Slot : Attached(e, p) /\ Aimed(g, e, n) => Attached(e, p)' /\ Aimed(g, e, n)'
      BY <1>f, <2>4 DEF Attached, Aimed, Serves, Live
    <3>3. Pending(p, n, f)'
      BY <1>5, <2>1, <3>1, <3>2, PendingKept
    <3> QED
      BY <3>3 DEF Safe, p, n, f
  <2> QED
    BY <2>3, <2>4
<1> QED
  BY <1>0, <1>1, <1>2, <1>3, <1>4, <1>5 DEF Safe

(* session_delete discards the messages of a clean connection, to which    *)
(* none is due.                                                            *)
LEMMA AccDelete ==
    ASSUME Base, Accounted, NEW c \in Slot, DeleteSession(c)
    PROVE  Accounted'
<1> SUFFICES ASSUME NEW o \in owed' PROVE Safe(o[1], o[2], o[3])'
  BY DEF Accounted, Safe
<1> DEFINE p == o[1]
           n == o[2]
           f == o[3]
<1>0. o \in owed /\ p # NoId /\ Safe(p, n, f) /\ <<p, f>> \in durable
  BY OwedName, AccountedIs DEF DeleteSession, histVars
<1>f. /\ pc[c] = "forget" /\ pc'[c] = "release" /\ clean_session[c]
      /\ UNCHANGED <<idx, client_id, clean_session, inflight, pub, put, acked, shed>>
      /\ \A d \in Slot \ {c} : pc'[d] = pc[d]
  BY DEF DeleteSession, Base, TypeOK, IdOK, Goto, poolVars, histVars
<1>p. p # client_id[c]
  <2>1. Serves(c, client_id[c])
    BY <1>f DEF Serves, Live
  <2>2. p = <<p, f>>[1]
    OBVIOUS
  <2> QED
    BY <1>0, <1>f, <2>1, <2>2, DurableName
<1>s. \A i \in Session : sessions[i].client_id = p =>
        /\ sessions'[i].client_id = p
        /\ sessions'[i].offline = sessions[i].offline /\ sessions'[i].subs = sessions[i].subs
        /\ sessions'[i].queue = sessions[i].queue
        /\ sessions'[i].in_use = sessions[i].in_use
  BY <1>p, DeleteSpec DEF DeleteSession, Base
<1> HIDE DEF p, n, f
<1>1. CASE <<p, n>> \in acked \cup shed
  BY <1>1, <1>f DEF Safe, p, n
<1>2. CASE HeldInflight(p, n)
  <2>1. HeldInflight(p, n)'
    BY <1>2, <1>f DEF HeldInflight
  <2> QED
    BY <2>1 DEF Safe, p, n
<1>3. CASE HeldQueued(p, n)
  <2>1. HeldQueued(p, n)'
    BY <1>3, <1>s, QueuedKept
  <2> QED
    BY <2>1 DEF Safe, p, n
<1>4. CASE InSave(p, n)
  <2>1. InSave(p, n)'
    BY <1>4, <1>f, InSaveKept
  <2> QED
    BY <2>1 DEF Safe, p, n
<1>5. CASE Pending(p, n, f)
  <2>1. \A d \in Slot : Sends(d, n, f) => Sends(d, n, f)'
    BY <1>f DEF Sends
  <2>2. \A i \in Session : Stored(i, p, f) => Stored(i, p, f)'
    BY <1>s DEF Stored, Saves
  <2>3. \A d, g \in Slot : Attached(g, p) /\ Aimed(d, g, n) => Attached(g, p)' /\ Aimed(d, g, n)'
    BY <1>f, <1>p DEF Attached, Aimed, Serves, Live, Served
  <2>4. Pending(p, n, f)'
    BY <1>5, <2>1, <2>2, <2>3, PendingKept
  <2> QED
    BY <2>4 DEF Safe, p, n, f
<1> QED
  BY <1>0, <1>1, <1>2, <1>3, <1>4, <1>5 DEF Safe

(* No step of an undisturbed execution loses a message. *)
LEMMA AccStep ==
    ASSUME PlainFilters, Base, Quiet, SubscriptionKept, Accounted, Next, Undisturbed
    PROVE  Accounted'
<1>0. Quiet' /\ ~Overwrites /\ ~AcksOther
  BY DEF Undisturbed
<1>1. CASE Accept \/ AcceptFail
  BY <1>1, CalmAccept, CalmKeeps
<1> SUFFICES ASSUME NEW c \in Slot, PeerGone(c) \/ Thread(c) PROVE Accounted'
  BY <1>1 DEF Next
<1>2. CASE \/ PeerGone(c) \/ Connecting(c) \/ Takeover(c) \/ Identify(c) \/ RestoreSub(c) \/ RestoreEnd(c)
           \/ FreeClose(c) \/ UnsubAll(c) \/ Release(c) \/ Leaving(c)
           \/ (\E f \in Filter, q \in SubQoS : Subscribe(c, f, q))
           \/ (\E f \in Filter : Unsubscribe(c, f))
           \/ Retry(c) \/ Ping(c) \/ Disconnect(c) \/ ProtocolError(c)
  BY <1>2, CalmStep, CalmKeeps
<1>3. CASE OpenSession(c) \/ Online(c) \/ Drain(c)
  BY <1>3, AccOpen, AccOnline, AccDrain
<1>4. CASE PublishWill(c) \/ \E t \in Topic, q \in PubQoS : Publish(c, t, q)
  <2>1. PICK m \in Msg, ret \in {"loop", "persist", "unsub"} : Starts(c, m, ret)
    BY <1>4, StartsPublish DEF Base
  <2> QED
    BY <1>0, <2>1, AccStarts
<1>5. CASE Publishing(c)
  BY <1>0, <1>5, AccSendOne, AccStoreOne, AccOffline DEF Publishing
<1>6. CASE Persist(c) \/ SaveSubs(c) \/ SavePick(c) \/ SaveWrite(c) \/ SaveEnd(c) \/ DeleteSession(c)
  BY <1>0, <1>6, AccPersist, AccSaveSubs, AccSavePick, AccSaveWrite, AccSaveEnd, AccDelete
<1>7. CASE \E w \in wire[c] : PubAck(c, w)
  BY <1>0, <1>7, AccPubAck
<1> QED
  BY <1>2, <1>3, <1>4, <1>5, <1>6, <1>7 DEF Thread, Opening, Freeing, Handling

(* Initially nothing is subscribed and nothing is due. *)
LEMMA LossInit == Init => Quiet /\ NoLossInv
<1> SUFFICES ASSUME Init PROVE Quiet /\ NoLossInv
  OBVIOUS
<1>1. Quiet /\ PubOK /\ IdOK /\ OneLive /\ SessOK
  BY DEF Init, NoPub, Quiet, PubOK, IdOK, OneLive, SessOK, Live, Before
<1>2. SubsUnique /\ DurableOK /\ SubscriptionKept /\ Accounted
  BY DEF Init, SubsUnique, DurableOK, SubscriptionKept, Accounted
<1>3. SavedUnique
  BY DEF Init, SavedUnique, EmptySession
<1> QED
  BY <1>1, <1>2, <1>3 DEF NoLossInv

(* The invariant is kept by every step of an undisturbed execution. *)
LEMMA LossStep ==
    ASSUME PlainFilters, IInv, Quiet, NoLossInv, Next, Undisturbed
    PROVE  Quiet' /\ NoLossInv'
<1>0. Quiet' /\ ~RestoreRefused /\ ~DeletesUsed
  BY DEF Undisturbed
<1>1. Base /\ SubscriptionKept /\ Accounted
  BY DEF IInv, NoLossInv, Base
<1>2. PubOK' /\ IdOK' /\ OneLive' /\ SessOK' /\ DurableOK'
  BY <1>0, <1>1, PubStep, IdStep, OneLiveStep, SessStep, DurableStep DEF Base
<1>3. SubsUnique' /\ SavedUnique'
  BY <1>1, SubsUniqueStep, SavedUniqueStep DEF Base
<1>4. SubscriptionKept' /\ Accounted'
  BY <1>0, <1>1, KeptStep, AccStep
<1> QED
  BY <1>0, <1>2, <1>3, <1>4 DEF NoLossInv

(* A step that changes nothing keeps the invariant. *)
LEMMA LossStutter ==
    ASSUME IInv, Quiet, NoLossInv, UNCHANGED vars
    PROVE  Quiet' /\ NoLossInv'
<1>0. Base /\ SubscriptionKept /\ Accounted
  BY DEF IInv, NoLossInv, Base
<1> USE DEF vars, poolVars, threadVars, histVars
<1>1. Quiet' /\ PubOK' /\ IdOK' /\ OneLive' /\ SessOK'
  BY DEF NoLossInv, Quiet, PubOK, IdOK, OneLive, SessOK, Live
<1>2. SubsUnique' /\ SavedUnique' /\ DurableOK'
  BY DEF NoLossInv, SubsUnique, SavedUnique, DurableOK, Serves, Live
<1>3. SubscriptionKept'
  <2>1. \A c \in Slot : Moves(c) /\ (pc[c] = "restore" => sess[c] \in Session)
    BY <1>0 DEF Moves, Base, LocalsOK
  <2>2. KeepsSessions /\ DurableOK
    BY <1>0 DEF KeepsSessions, Base
  <2> QED
    BY <1>0, <2>1, <2>2, KeptByMoves
<1>4. Accounted'
  <2>1. Calm
    BY DEF Calm, Holds
  <2> QED
    BY <1>0, <2>1, CalmKeeps
<1> QED
  BY <1>1, <1>2, <1>3, <1>4 DEF NoLossInv

(* What is accounted for is not lost. *)
LEMMA AccountedHeld == Accounted => NoSilentLoss
  BY DEF Accounted, NoSilentLoss, InHand, InSave, Pending

(* topic_publish, the inflight tables and the session queues lose no QoS 1 *)
(* message of a durable subscription: however publishes, receipts,         *)
(* disconnects, reconnects and wills interleave, it is acknowledged, held, *)
(* or was shed with a warning. The premises leave out the ways in which    *)
(* the code does lose messages (README, section 7); where filters overlap  *)
(* their subscriptions are of QoS 1.                                       *)
THEOREM DurableDelivery ==
    ASSUME PlainFilters
    PROVE  UndisturbedSpec => []NoSilentLoss
<1>1. Init => IInv /\ Quiet /\ NoLossInv
  BY InitInv, LossInit
<1>2. (IInv /\ Quiet /\ NoLossInv) /\ [Next /\ Undisturbed]_vars => (IInv /\ Quiet /\ NoLossInv)'
  <2>1. ASSUME IInv, Quiet, NoLossInv, UNCHANGED vars PROVE (IInv /\ Quiet /\ NoLossInv)'
    BY <2>1, StutterInv, LossStutter
  <2>2. ASSUME IInv, Quiet, NoLossInv, Next, Undisturbed PROVE (IInv /\ Quiet /\ NoLossInv)'
    <3>1. IInv'
      BY <2>2, TypeStep, LocalsStep, OwnsStep, SubsStep, KeysStep DEF IInv
    <3> QED
      BY <2>2, <3>1, LossStep
  <2> QED
    BY <2>1, <2>2
<1>3. IInv /\ Quiet /\ NoLossInv => NoSilentLoss
  BY AccountedHeld DEF NoLossInv
<1> QED
  BY <1>1, <1>2, <1>3, PTL DEF UndisturbedSpec
=============================================================================
