--------------------------------- MODULE Wire_proofs ---------------------------------
(***************************************************************************)
(* The connections between two brokers and the packets that travel on a    *)
(* connection.                                                             *)
(*                                                                         *)
(* Every entry of the connection table has an open socket and the thread   *)
(* that will close it, for every size of the table, every number of        *)
(* connections and every way in which the network breaks them.             *)
(* SlotServed is not inductive.  A thread that has been through close_conn *)
(* must not leave an entry behind, and a socket that waits in the backlog  *)
(* of accept must not have a thread yet: with the two, the entry that      *)
(* close_conn clears is the only one the thread can have had, even if      *)
(* close_duplicate_conns has given it to another connection meanwhile.     *)
(*                                                                         *)
(* No parser of packets leaves its buffer or skips a byte, and a PUBLISH   *)
(* that the broker accepts is read again as it was meant, for all packets, *)
(* every base of the length digits and all sizes of the buffers.  What is  *)
(* proved of the second reading is a fact about the arithmetic of the      *)
(* first: the digits that were written, what of the length is left after   *)
(* each of them, and where in the body the parser finds each field.        *)
(***************************************************************************)
EXTENDS PeerLinks, PacketCodec, TableScan_proofs, SequenceTheorems, FiniteSetTheorems, TLAPS

(***************************************************************************)
(* Connections.                                                            *)
(***************************************************************************)

ConnRec == [fd : Tcp \cup {None}, in_use : BOOLEAN, outbound : BOOLEAN, connected : BOOLEAN]
ThreadRec == [at : Labels, slot : Slot \cup {None}, fd : Tcp \cup {None}]

(* A thread has an entry of the table from alloc_conn to its end. *)
ThreadHasSlot ==
    \A b \in Broker, k \in Tcp :
        IF thread[b][k].at = "none" THEN thread[b][k] = NoThread
        ELSE thread[b][k].slot \in Slot

(* The thread of an entry in use has not been through close_conn. *)
NotClosed ==
    \A b \in Broker, s \in Slot : conns[b][s].in_use =>
        thread[b][conns[b][s].fd].at \notin {"none", "clear", "clear_only", "remove"}

(* A connection that is not accepted yet has no thread. *)
QueuedFresh == \A b \in Broker : \A k \in queued[b] : thread[b][k] = NoThread

IInv == TypeOK /\ ThreadHasSlot /\ SlotServed /\ NotClosed /\ QueuedFresh

----------------------------------------------------------------------------
LEMMA Slots == Slot \subseteq Nat /\ 0 \in Slot
  BY LinkAssumption DEF Slot

LEMMA Others == \A b \in Broker : Other(b) \in Broker /\ Other(b) # b
  BY DEF Broker, Other

(* The table holds no free entry twice: what alloc_conn finds is free. *)
LEMMA AllocSlot ==
    ASSUME NEW b \in Broker, First({i \in Slot : ~conns[b][i].in_use}) # None
    PROVE  LET s == First({i \in Slot : ~conns[b][i].in_use})
           IN s \in Slot /\ ~conns[b][s].in_use
<1> DEFINE I == {i \in Slot : ~conns[b][i].in_use}
<1>1. I \subseteq Nat
  BY Slots
<1>2. I # {}
  BY FirstEmpty
<1>3. First(I) \in I
  BY <1>1, <1>2, FirstFound
<1> QED
  BY <1>3

----------------------------------------------------------------------------
LEMMA InitInv == Init => IInv
<1> SUFFICES ASSUME Init PROVE IInv
  OBVIOUS
<1> PICK x \in Scenes :
      LET up == x.first # None IN
      /\ scene = x
      /\ queued = [b \in Broker |-> {}] /\ lost = {}
      /\ open = [b \in Broker |-> IF up THEN {1} ELSE {}]
      /\ conns = [b \in Broker |-> [s \in Slot |->
                  IF up /\ s = 0 THEN [fd |-> 1, in_use |-> TRUE, connected |-> TRUE,
                                       outbound |-> b = x.first]
                  ELSE NoConn]]
      /\ send_slots = [b \in Broker |-> [s \in Slot |-> IF up /\ s = 0 THEN 1 ELSE None]]
      /\ thread = [b \in Broker |-> [k \in Tcp |->
                     IF up /\ k = 1 THEN [at |-> "loop", slot |-> 0, fd |-> 1] ELSE NoThread]]
      /\ routes = [b \in Broker |-> up]
  BY DEF Init
<1>0. 1 \in Tcp /\ None \notin Tcp
  BY LinkAssumption
<1>1. TypeOK
  <2>1. conns \in [Broker -> [Slot -> ConnRec]]
    BY <1>0 DEF ConnRec, NoConn
  <2>2. thread \in [Broker -> [Tcp -> ThreadRec]]
    BY <1>0, Slots DEF ThreadRec, NoThread, Labels
  <2>3. \A b \in Broker, s \in Slot : conns[b][s].in_use <=> conns[b][s].fd # None
    BY <1>0 DEF NoConn
  <2> QED
    BY <1>0, <2>1, <2>2, <2>3 DEF TypeOK, ConnRec, ThreadRec
<1>2. ThreadHasSlot
  BY Slots DEF ThreadHasSlot, NoThread
<1>3. SlotServed /\ NotClosed
  BY <1>0 DEF SlotServed, NotClosed, NoConn
<1>4. QueuedFresh
  BY DEF QueuedFresh
<1> QED
  BY <1>1, <1>2, <1>3, <1>4 DEF IInv

(* A step of a broker that leaves the entries and the sockets alone and    *)
(* moves thread k to a label before close_conn.                            *)
LEMMA Moved ==
    ASSUME IInv, NEW b \in Broker, NEW k \in Tcp,
           thread[b][k].at \notin {"none", "clear", "clear_only", "remove"},
           NEW t \in ThreadRec, t.slot = thread[b][k].slot,
           t.at \notin {"none", "clear", "clear_only", "remove"},
           thread' = [thread EXCEPT ![b][k] = t],
           send_slots' \in [Broker -> [Slot -> Tcp \cup {None}]],
           routes' \in [Broker -> BOOLEAN],
           UNCHANGED <<scene, net, open, conns>>
    PROVE  IInv'
<1>1. thread \in [Broker -> [Tcp -> ThreadRec]]
  BY DEF IInv, TypeOK, ThreadRec
<1>2. /\ thread' \in [Broker -> [Tcp -> ThreadRec]]
      /\ thread'[b][k] = t
      /\ \A c \in Broker, j \in Tcp : <<c, j>> # <<b, k>> => thread'[c][j] = thread[c][j]
  BY <1>1
<1>3. TypeOK'
  BY <1>2 DEF IInv, TypeOK, ThreadRec, net
<1>4. ThreadHasSlot' /\ QueuedFresh'
  BY <1>2 DEF IInv, ThreadHasSlot, QueuedFresh, net, TypeOK, NoThread
<1>5. SlotServed' /\ NotClosed'
  BY <1>2 DEF IInv, SlotServed, NotClosed, TypeOK
<1> QED
  BY <1>3, <1>4, <1>5 DEF IInv

(* A step that leaves the entries, the sockets and the threads alone. *)
LEMMA Idle ==
    ASSUME IInv, send_slots' \in [Broker -> [Slot -> Tcp \cup {None}]],
           lost' \subseteq Tcp, UNCHANGED <<scene, queued, open, conns, thread, routes>>
    PROVE  IInv'
  BY DEF IInv, TypeOK, ThreadHasSlot, SlotServed, NotClosed, QueuedFresh

(* alloc_conn for a connection that has no thread yet. *)
LEMMA Allocated ==
    ASSUME IInv, NEW b \in Broker, NEW k \in Tcp, thread[b][k] = NoThread,
           NEW outbound \in BOOLEAN, NEW ch, Alloc(b, k, outbound, ch),
           queued' \in [Broker -> SUBSET Tcp], k \notin queued'[b],
           \A c \in Broker : \A j \in queued'[c] : thread[c][j] = NoThread,
           lost' \subseteq Tcp, UNCHANGED <<scene, send_slots, routes>>
    PROVE  IInv'
<1> DEFINE s == First({i \in Slot : ~conns[b][i].in_use})
           e == [fd |-> k, in_use |-> TRUE, outbound |-> outbound, connected |-> FALSE]
           t == [at |-> "wait", slot |-> s, fd |-> k]
<1>1. CASE s = None
  <2>1. UNCHANGED <<open, conns, thread>>
    BY <1>1 DEF Alloc
  <2> QED
    BY <2>1 DEF IInv, TypeOK, ThreadHasSlot, SlotServed, NotClosed, QueuedFresh
<1>2. CASE s # None
  <2>1. s \in Slot /\ ~conns[b][s].in_use
    BY <1>2, AllocSlot
  <2>2. /\ open' = [open EXCEPT ![b] = open[b] \cup {k}]
        /\ conns' = [conns EXCEPT ![b][s] = e]
        /\ thread' = [thread EXCEPT ![b][k] = t]
    BY <1>2 DEF Alloc
  <2>3. /\ thread \in [Broker -> [Tcp -> ThreadRec]]
        /\ conns \in [Broker -> [Slot -> ConnRec]]
        /\ open \in [Broker -> SUBSET Tcp]
    BY DEF IInv, TypeOK, ThreadRec, ConnRec
  <2>4. t \in ThreadRec /\ e \in ConnRec /\ k # None
    BY <2>1, LinkAssumption DEF ThreadRec, ConnRec, Labels
  <2> HIDE DEF s
  <2>5. /\ conns' \in [Broker -> [Slot -> ConnRec]]
        /\ conns'[b][s] = e
        /\ \A c \in Broker, i \in Slot : <<c, i>> # <<b, s>> => conns'[c][i] = conns[c][i]
    BY <2>1, <2>2, <2>3, <2>4
  <2>6. /\ thread' \in [Broker -> [Tcp -> ThreadRec]]
        /\ thread'[b][k] = t
        /\ \A c \in Broker, j \in Tcp : <<c, j>> # <<b, k>> => thread'[c][j] = thread[c][j]
    BY <2>2, <2>3, <2>4
  <2>7. open' \in [Broker -> SUBSET Tcp] /\ k \in open'[b]
        /\ \A c \in Broker : open[c] \subseteq open'[c]
    BY <2>2, <2>3
  <2>8. TypeOK'
    <3>1. \A c \in Broker, i \in Slot : conns'[c][i].in_use <=> conns'[c][i].fd # None
      <4> TAKE c \in Broker, i \in Slot
      <4>1. CASE <<c, i>> = <<b, s>>
        BY <4>1, <2>5, <2>4
      <4>2. CASE <<c, i>> # <<b, s>>
        <5>1. conns'[c][i] = conns[c][i]
          BY <4>2, <2>5
        <5> QED
          BY <5>1 DEF IInv, TypeOK
      <4> QED
        BY <4>1, <4>2
    <3> QED
      BY <2>5, <2>6, <2>7, <3>1 DEF IInv, TypeOK, ThreadRec, ConnRec
  <2>9. ThreadHasSlot' /\ QueuedFresh'
    <3>1. ThreadHasSlot'
      BY <2>6, <2>1 DEF IInv, ThreadHasSlot
    <3>2. \A c \in Broker : \A j \in queued'[c] : j \in Tcp /\ <<c, j>> # <<b, k>>
      OBVIOUS
    <3>3. QueuedFresh'
      BY <3>2, <2>6 DEF QueuedFresh
    <3> QED
      BY <3>1, <3>3
  <2>10. \A c \in Broker, i \in Slot : conns'[c][i].in_use =>
            /\ conns'[c][i].fd \in open'[c]
            /\ thread'[c][conns'[c][i].fd].slot = i
            /\ thread'[c][conns'[c][i].fd].at \notin {"none", "clear", "clear_only", "remove"}
    <3> TAKE c \in Broker, i \in Slot
    <3>1. CASE <<c, i>> = <<b, s>>
      BY <3>1, <2>5, <2>6, <2>7
    <3>2. CASE <<c, i>> # <<b, s>>
      <4> HAVE conns'[c][i].in_use
      <4>1. conns'[c][i] = conns[c][i]
        BY <3>2, <2>5
      <4>2. /\ conns[c][i].fd \in open[c]
            /\ thread[c][conns[c][i].fd].slot = i
            /\ thread[c][conns[c][i].fd].at \notin {"none", "clear", "clear_only", "remove"}
        BY <4>1 DEF IInv, SlotServed, NotClosed
      <4>3. <<c, conns[c][i].fd>> # <<b, k>>
        BY <4>2 DEF NoThread
      <4>4. thread'[c][conns[c][i].fd] = thread[c][conns[c][i].fd]
        BY <2>6, <4>3, <4>2, <2>3
      <4> QED
        BY <4>1, <4>2, <4>4, <2>7
    <3> QED
      BY <3>1, <3>2
  <2>11. SlotServed' /\ NotClosed'
    BY <2>10 DEF SlotServed, NotClosed
  <2> QED
    BY <2>8, <2>9, <2>11 DEF IInv
<1> QED
  BY <1>1, <1>2

(* Entries D of the table of b are cleared and their sockets closed, and   *)
(* the threads of b change only such that an entry in use keeps its own.   *)
LEMMA Cleared ==
    ASSUME IInv, NEW b \in Broker, NEW D, D \subseteq Slot,
           conns' = [conns EXCEPT ![b] = [s \in Slot |-> IF s \in D THEN NoConn ELSE conns[b][s]]],
           open' = [open EXCEPT ![b] = open[b] \ {conns[b][s].fd : s \in D}],
           send_slots' \in [Broker -> [Slot -> Tcp \cup {None}]],
           NEW k \in Tcp, thread[b][k].at # "none",
           NEW t \in ThreadRec, thread' = [thread EXCEPT ![b][k] = t],
           t.slot = thread[b][k].slot, t.at # "none",
           \/ t.at \notin {"none", "clear", "clear_only", "remove"}
           \/ thread[b][k].slot \in D,
           UNCHANGED <<scene, net, routes>>
    PROVE  IInv'
<1>1. /\ thread \in [Broker -> [Tcp -> ThreadRec]]
      /\ conns \in [Broker -> [Slot -> ConnRec]]
      /\ open \in [Broker -> SUBSET Tcp]
  BY DEF IInv, TypeOK, ThreadRec, ConnRec
<1>2. /\ thread' \in [Broker -> [Tcp -> ThreadRec]]
      /\ thread'[b][k] = t
      /\ \A c \in Broker, j \in Tcp : <<c, j>> # <<b, k>> => thread'[c][j] = thread[c][j]
  BY <1>1
<1>3. NoConn \in ConnRec /\ ~NoConn.in_use /\ NoConn.fd = None
  BY DEF NoConn, ConnRec
<1>4. /\ conns' \in [Broker -> [Slot -> ConnRec]]
      /\ \A s \in Slot : conns'[b][s] = IF s \in D THEN NoConn ELSE conns[b][s]
      /\ \A c \in Broker \ {b} : conns'[c] = conns[c]
  BY <1>1, <1>3
<1>5. /\ open' \in [Broker -> SUBSET Tcp]
      /\ open'[b] = open[b] \ {conns[b][s].fd : s \in D}
      /\ \A c \in Broker \ {b} : open'[c] = open[c]
  BY <1>1
<1>6. TypeOK'
  <2>1. \A c \in Broker, i \in Slot : conns'[c][i].in_use <=> conns'[c][i].fd # None
    BY <1>3, <1>4 DEF IInv, TypeOK
  <2> QED
    BY <1>2, <1>4, <1>5, <2>1 DEF IInv, TypeOK, ThreadRec, ConnRec, net
<1>7. ThreadHasSlot' /\ QueuedFresh'
  BY <1>2 DEF IInv, ThreadHasSlot, QueuedFresh, net, TypeOK, NoThread
<1>8. \A c \in Broker, i \in Slot : conns'[c][i].in_use =>
          /\ conns'[c][i].fd \in open'[c]
          /\ thread'[c][conns'[c][i].fd].slot = i
          /\ thread'[c][conns'[c][i].fd].at \notin {"none", "clear", "clear_only", "remove"}
  <2> TAKE c \in Broker, i \in Slot
  <2> HAVE conns'[c][i].in_use
  <2>1. conns'[c][i] = conns[c][i] /\ (c = b => i \notin D)
    BY <1>3, <1>4
  <2>2. /\ conns[c][i].fd \in open[c]
        /\ thread[c][conns[c][i].fd].slot = i
        /\ thread[c][conns[c][i].fd].at \notin {"none", "clear", "clear_only", "remove"}
    BY <2>1 DEF IInv, SlotServed, NotClosed
  <2>3. conns[c][i].fd \in open'[c]
    <3>1. CASE c # b
      BY <3>1, <2>2, <1>5
    <3>2. CASE c = b
      <4>1. ASSUME NEW s \in D, conns[b][s].fd = conns[b][i].fd PROVE FALSE
        <5>1. conns[b][s].in_use
          BY <4>1, <2>1, <3>2 DEF IInv, TypeOK
        <5>2. thread[b][conns[b][s].fd].slot = s
          BY <5>1 DEF IInv, SlotServed
        <5> QED
          BY <5>2, <4>1, <2>2, <2>1, <3>2
      <4> QED
        BY <4>1, <3>2, <2>2, <1>5
    <3> QED
      BY <3>1, <3>2
  <2>4. conns[c][i].fd \in Tcp
    BY <2>2, <1>1
  <2>5. CASE <<c, conns[c][i].fd>> = <<b, k>>
    BY <2>5, <2>1, <2>2, <2>3, <1>2
  <2>6. CASE <<c, conns[c][i].fd>> # <<b, k>>
    <3>1. thread'[c][conns[c][i].fd] = thread[c][conns[c][i].fd]
      BY <2>6, <2>4, <1>2
    <3> QED
      BY <3>1, <2>1, <2>2, <2>3
  <2> QED
    BY <2>5, <2>6
<1>9. SlotServed'
  <2> SUFFICES ASSUME NEW c \in Broker, NEW i \in Slot, conns'[c][i].in_use
               PROVE  conns'[c][i].fd \in open'[c] /\ thread'[c][conns'[c][i].fd].slot = i
    BY Zenon DEF SlotServed
  <2> QED
    BY <1>8, Zenon
<1>10. NotClosed'
  BY <1>8, Zenon DEF NotClosed
<1> QED
  BY <1>6, <1>7, <1>9, <1>10 DEF IInv

(* A thread that has been through close_conn ends or goes on to the next   *)
(* label: no entry is left to it.                                          *)
LEMMA Ends ==
    ASSUME IInv, NEW b \in Broker, NEW k \in Tcp,
           thread[b][k].at \in {"clear", "clear_only", "remove"},
           NEW t \in ThreadRec, thread' = [thread EXCEPT ![b][k] = t],
           t = NoThread \/ (t.at = "remove" /\ t.slot \in Slot),
           send_slots' \in [Broker -> [Slot -> Tcp \cup {None}]],
           routes' \in [Broker -> BOOLEAN],
           UNCHANGED <<scene, net, open, conns>>
    PROVE  IInv'
<1>1. thread \in [Broker -> [Tcp -> ThreadRec]]
  BY DEF IInv, TypeOK, ThreadRec
<1>2. /\ thread' \in [Broker -> [Tcp -> ThreadRec]]
      /\ thread'[b][k] = t
      /\ \A c \in Broker, j \in Tcp : <<c, j>> # <<b, k>> => thread'[c][j] = thread[c][j]
  BY <1>1
<1>3. TypeOK'
  BY <1>2 DEF IInv, TypeOK, ThreadRec, net
<1>4. ThreadHasSlot' /\ QueuedFresh'
  BY <1>2 DEF IInv, ThreadHasSlot, QueuedFresh, net, TypeOK, NoThread
<1>5. SlotServed' /\ NotClosed'
  <2>1. \A c \in Broker, i \in Slot : conns[c][i].in_use =>
           <<c, conns[c][i].fd>> # <<b, k>> /\ conns[c][i].fd \in Tcp
    BY DEF IInv, NotClosed, SlotServed, TypeOK
  <2> QED
    BY <1>2, <2>1 DEF IInv, SlotServed, NotClosed
<1> QED
  BY <1>3, <1>4, <1>5 DEF IInv

----------------------------------------------------------------------------
(* One step for each action of the thread of connection k. *)
LEMMA ThreadStep ==
    ASSUME IInv, NEW b \in Broker, NEW k \in Tcp, Thread(b, k)
    PROVE  IInv'
<1> DEFINE th == thread[b][k]
<1>0. /\ thread \in [Broker -> [Tcp -> ThreadRec]]
      /\ conns \in [Broker -> [Slot -> ConnRec]]
      /\ send_slots \in [Broker -> [Slot -> Tcp \cup {None}]]
      /\ routes \in [Broker -> BOOLEAN]
      /\ th \in ThreadRec
      /\ th.at # "none" => th.slot \in Slot
  BY DEF IInv, TypeOK, ThreadRec, ConnRec, ThreadHasSlot
<1>a. ASSUME NEW s \in Slot, SlotUpdate(b, s)
      PROVE  send_slots' \in [Broker -> [Slot -> Tcp \cup {None}]]
  BY <1>0, <1>a DEF SlotUpdate, ConnRec
<1>b. ASSUME NEW l \in Labels, Goto(b, k, l)
      PROVE  \E t \in ThreadRec : /\ thread' = [thread EXCEPT ![b][k] = t]
                                  /\ t.at = l /\ t.slot = th.slot
  <2> DEFINE t == [th EXCEPT !.at = l]
  <2>1. t \in ThreadRec /\ t.at = l /\ t.slot = th.slot
    BY <1>0 DEF ThreadRec
  <2>2. thread' = [thread EXCEPT ![b][k] = t]
    BY <1>0, <1>b DEF Goto
  <2> QED
    BY <2>1, <2>2
<1>c. ASSUME th.slot \in Slot, Receives(b, k, "loop")
      PROVE  \E t \in ThreadRec : /\ thread' = [thread EXCEPT ![b][k] = t]
                                  /\ t.at = "loop" /\ t.slot = th.slot
  <2> DEFINE t == [th EXCEPT !.at = "loop", !.fd = Conn(b, k).fd]
  <2>1. Conn(b, k).fd \in Tcp \cup {None}
    BY <1>0, <1>c DEF Conn, Slot_, ConnRec
  <2>2. t \in ThreadRec /\ t.at = "loop" /\ t.slot = th.slot
    BY <1>0, <2>1 DEF ThreadRec, Labels
  <2>3. thread' = [thread EXCEPT ![b][k] = t]
    BY <1>0, <1>c DEF Receives
  <2> QED
    BY <2>2, <2>3
<1> HIDE DEF th
<1>1. ASSUME RecvHello(b, k) PROVE IInv'
  <2>1. PICK l \in {"check", "close"} : Goto(b, k, l)
    BY <1>1 DEF RecvHello
  <2>2. th.at = "wait"
    BY <1>1 DEF RecvHello, At, th
  <2>3. PICK t \in ThreadRec : /\ thread' = [thread EXCEPT ![b][k] = t]
                              /\ t.at = l /\ t.slot = th.slot
    BY <1>b, <2>1 DEF Labels
  <2>4. UNCHANGED <<scene, net, open, conns, send_slots, routes>>
    BY <1>1 DEF RecvHello
  <2> QED
    BY <1>0, <2>1, <2>2, <2>3, <2>4, Moved DEF th
<1>2. ASSUME RecvFails(b, k) PROVE IInv'
  <2>1. Goto(b, k, "close") /\ th.at \in {"wait", "loop"}
    BY <1>2 DEF RecvFails, At, th
  <2>3. PICK t \in ThreadRec : /\ thread' = [thread EXCEPT ![b][k] = t]
                              /\ t.at = "close" /\ t.slot = th.slot
    BY <1>b, <2>1 DEF Labels
  <2>4. UNCHANGED <<scene, net, open, conns, send_slots, routes>>
    BY <1>2 DEF RecvFails
  <2> QED
    BY <1>0, <2>1, <2>3, <2>4, Moved DEF th
<1>3. ASSUME Check(b, k) PROVE IInv'
  <2>1. PICK l \in {"join", "dup", "close"} : Goto(b, k, l)
    BY <1>3 DEF Check
  <2>2. th.at = "check"
    BY <1>3 DEF Check, At, th
  <2>3. PICK t \in ThreadRec : /\ thread' = [thread EXCEPT ![b][k] = t]
                              /\ t.at = l /\ t.slot = th.slot
    BY <1>b, <2>1 DEF Labels
  <2>4. UNCHANGED <<scene, net, open, conns, send_slots, routes>>
    BY <1>3 DEF Check
  <2> QED
    BY <1>0, <2>1, <2>2, <2>3, <2>4, Moved DEF th
<1>4. ASSUME CloseDuplicates(b, k) PROVE IInv'
  <2> DEFINE dup == {s \in Slot \ {Slot_(b, k)} : conns[b][s].in_use /\ conns[b][s].connected}
  <2>1. /\ Goto(b, k, "join") /\ th.at = "dup"
        /\ conns' = [conns EXCEPT ![b] = [s \in Slot |-> IF s \in dup THEN NoConn ELSE conns[b][s]]]
        /\ open' = [open EXCEPT ![b] = open[b] \ {conns[b][s].fd : s \in dup}]
        /\ send_slots' = [send_slots EXCEPT ![b] =
                            [s \in Slot |-> IF s \in dup THEN None ELSE send_slots[b][s]]]
        /\ UNCHANGED <<scene, net, routes>>
    BY <1>4 DEF CloseDuplicates, Close, At, th
  <2>2. dup \subseteq Slot
    OBVIOUS
  <2> HIDE DEF dup
  <2>3. send_slots' \in [Broker -> [Slot -> Tcp \cup {None}]]
    BY <2>1, <1>0
  <2>4. PICK t \in ThreadRec : /\ thread' = [thread EXCEPT ![b][k] = t]
                              /\ t.at = "join" /\ t.slot = th.slot
    BY <1>b, <2>1 DEF Labels
  <2> QED
    BY <2>1, <2>2, <2>3, <2>4, Cleared DEF th
<1>5. ASSUME Join(b, k) PROVE IInv'
  <2>1. /\ Goto(b, k, "update") /\ th.at = "join"
        /\ conns' = [conns EXCEPT ![b][th.slot].connected = TRUE]
        /\ UNCHANGED <<scene, net, open, send_slots, routes>>
    BY <1>5 DEF Join, At, th, Slot_
  <2>2. th.slot \in Slot
    BY <1>0, <2>1
  <2> DEFINE e == [conns[b][th.slot] EXCEPT !.connected = TRUE]
  <2>a. e \in ConnRec /\ e.in_use = conns[b][th.slot].in_use /\ e.fd = conns[b][th.slot].fd
    <3>1. conns[b][th.slot] \in ConnRec
      BY <1>0, <2>2
    <3> QED
      BY <3>1 DEF ConnRec
  <2>b. conns' = [conns EXCEPT ![b][th.slot] = e]
    BY <1>0, <2>1, <2>2
  <2> HIDE DEF e
  <2>3. /\ conns' \in [Broker -> [Slot -> ConnRec]]
        /\ \A c \in Broker, i \in Slot : /\ conns'[c][i].in_use = conns[c][i].in_use
                                         /\ conns'[c][i].fd = conns[c][i].fd
    BY <1>0, <2>2, <2>a, <2>b
  <2>c. PICK t \in ThreadRec : /\ thread' = [thread EXCEPT ![b][k] = t]
                              /\ t.at = "update" /\ t.slot = th.slot
    BY <1>b, <2>1 DEF Labels
  <2>4. /\ thread' \in [Broker -> [Tcp -> ThreadRec]]
        /\ thread'[b][k] = t
        /\ \A c \in Broker, j \in Tcp : <<c, j>> # <<b, k>> => thread'[c][j] = thread[c][j]
    BY <1>0, <2>c
  <2>5. TypeOK'
    <3>1. \A c \in Broker, i \in Slot : conns'[c][i].in_use <=> conns'[c][i].fd # None
      BY <2>3 DEF IInv, TypeOK
    <3> QED
      BY <2>1, <2>3, <2>4, <3>1 DEF IInv, TypeOK, ThreadRec, ConnRec, net
  <2>6. ThreadHasSlot' /\ QueuedFresh'
    BY <2>1, <2>2, <2>4, <2>c DEF IInv, ThreadHasSlot, QueuedFresh, net, TypeOK, NoThread, th
  <2>7. SlotServed' /\ NotClosed'
    <3> SUFFICES ASSUME NEW c \in Broker, NEW i \in Slot, conns'[c][i].in_use
                 PROVE  /\ conns'[c][i].fd \in open'[c]
                        /\ thread'[c][conns'[c][i].fd].slot = i
                        /\ thread'[c][conns'[c][i].fd].at \notin
                             {"none", "clear", "clear_only", "remove"}
      BY DEF SlotServed, NotClosed
    <3>1. /\ conns[c][i].fd \in open[c] /\ conns[c][i].fd \in Tcp
          /\ thread[c][conns[c][i].fd].slot = i
          /\ thread[c][conns[c][i].fd].at \notin {"none", "clear", "clear_only", "remove"}
      BY <2>3 DEF IInv, SlotServed, NotClosed, TypeOK
    <3>2. conns'[c][i].fd = conns[c][i].fd /\ open'[c] = open[c]
      BY <2>1, <2>3
    <3>3. CASE <<c, conns[c][i].fd>> = <<b, k>>
      BY <3>1, <3>2, <3>3, <2>4, <2>c DEF th
    <3>4. CASE <<c, conns[c][i].fd>> # <<b, k>>
      BY <3>1, <3>2, <3>4, <2>4
    <3> QED
      BY <3>3, <3>4
  <2> QED
    BY <2>5, <2>6, <2>7 DEF IInv
<1>6. ASSUME Update(b, k) PROVE IInv'
  <2>1. /\ th.at = "update" /\ th.slot \in Slot /\ SlotUpdate(b, th.slot)
        /\ Receives(b, k, "loop") /\ UNCHANGED <<scene, net, open, conns, routes>>
    BY <1>6, <1>0 DEF Update, At, th, Slot_
  <2>2. send_slots' \in [Broker -> [Slot -> Tcp \cup {None}]]
    BY <1>a, <2>1
  <2>3. PICK t \in ThreadRec : /\ thread' = [thread EXCEPT ![b][k] = t]
                              /\ t.at = "loop" /\ t.slot = th.slot
    BY <1>c, <2>1
  <2>4. routes' \in [Broker -> BOOLEAN]
    BY <1>0, <2>1 DEF IInv, TypeOK
  <2> QED
    BY <2>1, <2>2, <2>3, <2>4, Moved DEF th
<1>7. ASSUME RecvFrame(b, k) PROVE IInv'
  <2>1. /\ th.at = "loop" /\ th.slot \in Slot
        /\ SlotUpdate(b, th.slot) \/ UNCHANGED send_slots
        /\ routes' = [routes EXCEPT ![b] = TRUE] \/ UNCHANGED routes
        /\ Receives(b, k, "loop") /\ UNCHANGED <<scene, net, open, conns>>
    BY <1>7, <1>0 DEF RecvFrame, At, th, Slot_
  <2>2. /\ send_slots' \in [Broker -> [Slot -> Tcp \cup {None}]]
        /\ routes' \in [Broker -> BOOLEAN]
    BY <1>0, <1>a, <2>1
  <2> QED
    BY <1>c, <2>1, <2>2, Moved DEF th
<1>8. ASSUME CloseConn(b, k) PROVE IInv'
  <2> DEFINE D == {th.slot}
  <2>1. /\ th.at = "close" /\ th.slot \in Slot
        /\ conns' = [conns EXCEPT ![b][th.slot] = NoConn]
        /\ open' = [open EXCEPT ![b] = open[b] \ {conns[b][th.slot].fd}]
        /\ UNCHANGED <<scene, net, send_slots, routes>>
    BY <1>8, <1>0 DEF CloseConn, Close, At, th, Slot_, Conn
  <2>2. PICK l \in {"clear", "clear_only"} : Goto(b, k, l)
    BY <1>8 DEF CloseConn
  <2>3. /\ conns' = [conns EXCEPT ![b] = [s \in Slot |-> IF s \in D THEN NoConn ELSE conns[b][s]]]
        /\ open' = [open EXCEPT ![b] = open[b] \ {conns[b][s].fd : s \in D}]
        /\ D \subseteq Slot
    BY <1>0, <2>1
  <2> HIDE DEF D
  <2>4. th.slot \in D
    BY DEF D
  <2>5. PICK t \in ThreadRec : /\ thread' = [thread EXCEPT ![b][k] = t]
                              /\ t.at = l /\ t.slot = th.slot
    BY <1>b, <2>2 DEF Labels
  <2> QED
    BY <1>0, <2>1, <2>2, <2>3, <2>4, <2>5, Cleared DEF th
<1>9. ASSUME ClearSlot(b, k) PROVE IInv'
  <2>1. /\ th.at \in {"clear", "clear_only"} /\ th.slot \in Slot
        /\ send_slots' = [send_slots EXCEPT ![b][th.slot] = None]
        /\ UNCHANGED <<scene, net, open, conns, routes>>
    BY <1>9, <1>0 DEF ClearSlot, At, th, Slot_
  <2>2. PICK t \in {NoThread, [th EXCEPT !.at = "remove"]} : thread' = [thread EXCEPT ![b][k] = t]
    BY <1>9 DEF ClearSlot, th
  <2>3. t \in ThreadRec /\ (t = NoThread \/ (t.at = "remove" /\ t.slot \in Slot))
    <3>1. CASE t = NoThread
      BY <3>1 DEF ThreadRec, NoThread, Labels
    <3>2. CASE t = [th EXCEPT !.at = "remove"]
      <4>1. th \in ThreadRec
        BY <1>0
      <4> HIDE DEF th
      <4>2. t \in ThreadRec /\ t.at = "remove" /\ t.slot = th.slot
        BY <3>2, <4>1 DEF ThreadRec, Labels
      <4> QED
        BY <2>1, <4>2
    <3> QED
      BY <3>1, <3>2
  <2>4. send_slots' \in [Broker -> [Slot -> Tcp \cup {None}]]
    BY <1>0, <2>1
  <2> QED
    BY <1>0, <2>1, <2>2, <2>3, <2>4, Ends DEF th
<1>10. ASSUME RemoveNode(b, k) PROVE IInv'
  <2>1. /\ th.at = "remove" /\ thread' = [thread EXCEPT ![b][k] = NoThread]
        /\ routes' = [routes EXCEPT ![b] = FALSE]
        /\ UNCHANGED <<scene, net, open, conns, send_slots>>
    BY <1>10 DEF RemoveNode, At, th
  <2>2. NoThread \in ThreadRec /\ routes' \in [Broker -> BOOLEAN]
    BY <1>0, <2>1 DEF ThreadRec, NoThread, Labels
  <2> QED
    BY <1>0, <2>1, <2>2, Ends DEF th
<1> QED
  BY <1>1, <1>2, <1>3, <1>4, <1>5, <1>6, <1>7, <1>8, <1>9, <1>10 DEF Thread

(* Connecting, accepting, sending HELLO and breaking connections. *)
LEMMA NextInv == IInv /\ [Next]_vars => IInv'
<1> SUFFICES ASSUME IInv, [Next]_vars PROVE IInv'
  OBVIOUS
<1>0. /\ queued \in [Broker -> SUBSET Tcp] /\ lost \subseteq Tcp
      /\ send_slots \in [Broker -> [Slot -> Tcp \cup {None}]]
      /\ \A b \in Broker : \A k \in queued[b] : thread[b][k] = NoThread
  BY DEF IInv, TypeOK, QueuedFresh
<1>1. ASSUME NEW b \in Broker, NEW k \in Tcp, Connect(b, k) PROVE IInv'
  <2>1. \A c \in Broker : thread[c][k] = NoThread /\ k \notin queued[c]
    BY <1>1 DEF Connect, Unused
  <2>2. PICK ch : Alloc(b, k, TRUE, ch)
    BY <1>1 DEF Connect
  <2>3. /\ queued' \in [Broker -> SUBSET Tcp] /\ k \notin queued'[b]
        /\ \A c \in Broker : queued'[c] \subseteq queued[c] \cup {k}
    BY <1>0, <1>1, <2>1, Others DEF Connect
  <2>4. lost' \subseteq Tcp /\ UNCHANGED <<scene, send_slots, routes>>
    BY <1>0, <1>1 DEF Connect
  <2> QED
    BY <1>0, <2>1, <2>2, <2>3, <2>4, Allocated
<1>2. ASSUME NEW b \in Broker, NEW k \in Tcp, Accept(b, k) PROVE IInv'
  <2>1. thread[b][k] = NoThread
    BY <1>0, <1>2 DEF Accept
  <2>2. Alloc(b, k, FALSE, chan) /\ UNCHANGED <<scene, lost, send_slots, routes>>
    BY <1>2 DEF Accept
  <2>3. /\ queued' \in [Broker -> SUBSET Tcp] /\ k \notin queued'[b]
        /\ \A c \in Broker : queued'[c] \subseteq queued[c]
    BY <1>0, <1>2 DEF Accept
  <2> QED
    BY <1>0, <2>1, <2>2, <2>3, Allocated
<1>3. ASSUME NEW b \in Broker, SendCurrentHello(b) PROVE IInv'
  BY <1>0, <1>3, Idle DEF SendCurrentHello, net
<1>4. ASSUME NEW k \in Tcp, Break(k) PROVE IInv'
  BY <1>0, <1>4, Idle DEF Break
<1>5. CASE UNCHANGED vars
  BY <1>0, <1>5, Idle DEF vars, net
<1> QED
  BY <1>1, <1>2, <1>3, <1>4, <1>5, ThreadStep DEF Next, Connects, Accepts

----------------------------------------------------------------------------
(* The tables of connections, threads and sockets keep their types, and    *)
(* the invariant above holds in every reachable state.                     *)
THEOREM Invariant == Spec => []IInv
  BY InitInv, NextInv, PTL DEF Spec

(* No entry of conns is ever in use without an open socket and a thread    *)
(* that will close it (alloc_conn, close_conn, close_duplicate_conns).     *)
THEOREM Served == Spec => []SlotServed
<1>1. IInv => SlotServed
  BY DEF IInv
<1> QED
  BY <1>1, Invariant, PTL

(* The connection table never holds anything but entries (alloc_conn,      *)
(* peer_loop), and one has a socket exactly while it is in use.            *)
THEOREM TypeCorrect == Spec => []TypeOK
<1>1. IInv => TypeOK
  BY DEF IInv
<1> QED
  BY <1>1, Invariant, PTL

----------------------------------------------------------------------------
(***************************************************************************)
(* Packets.                                                                *)
(***************************************************************************)
----------------------------------------------------------------------------
(* Division. *)

LEMMA Division ==
    ASSUME NEW h \in Nat \ {0}, NEW n \in Nat
    PROVE  /\ n \div h \in Nat /\ n % h \in 0 .. h - 1
           /\ n = h * (n \div h) + (n % h)
  OBVIOUS

LEMMA DivisionUnique ==
    ASSUME NEW h \in Nat \ {0}, NEW q \in Nat, NEW r \in 0 .. h - 1
    PROVE  (h * q + r) \div h = q /\ (h * q + r) % h = r
  OBVIOUS

LEMMA DivisionMonotone ==
    ASSUME NEW h \in Nat \ {0}, NEW n \in Nat, NEW m \in Nat, m <= n
    PROVE  m \div h <= n \div h
  OBVIOUS

LEMMA DivisionBound ==
    ASSUME NEW h \in Nat \ {0}, NEW n \in Nat, NEW b \in Nat, n < h * b
    PROVE  n \div h < b
  OBVIOUS

LEMMA HalfIs ==
    /\ Half \in Nat \ {0} /\ Half >= 2
    /\ STR_MAX \in Nat /\ PAYLOAD_MAX \in Nat /\ PACKET_MAX \in Nat
    /\ OUT_MAX \in Nat /\ TOPICS_MAX \in Nat
  BY CodecAssumption

LEMMA NotNone ==
    /\ \A s \in Seq(Byte) : s # None
    /\ \A p \in Packet : p # None
    /\ None \notin {"ok", "bad", "level"}
<1>1. \A s \in Seq(Byte) : s \in Seq(Nat)
  <2>1. Byte \subseteq Nat
    BY HalfIs DEF Byte
  <2> QED
    BY <2>1, SeqMonotonic
<1> QED
  BY <1>1, CodecAssumption

LEMMA Powers ==
    /\ Power[0] = 1 /\ Power[1] = Half /\ Power[2] = Half * Half
    /\ Power[3] = Half * (Half * Half) /\ Power[4] = Half * (Half * (Half * Half))
<1> DEFINE Rec(f) == f = [i \in 0 .. 4 |-> IF i = 0 THEN 1 ELSE Half * f[i - 1]]
           g == [i \in 0 .. 4 |-> IF i = 0 THEN 1
                                  ELSE IF i = 1 THEN Half
                                  ELSE IF i = 2 THEN Half * Half
                                  ELSE IF i = 3 THEN Half * (Half * Half)
                                  ELSE Half * (Half * (Half * Half))]
<1>1. Rec(g)
  <2>1. ASSUME NEW i \in 0 .. 4 PROVE g[i] = IF i = 0 THEN 1 ELSE Half * g[i - 1]
    <3>1. i = 0 \/ i = 1 \/ i = 2 \/ i = 3 \/ i = 4
      OBVIOUS
    <3> QED
      BY <3>1, HalfIs
  <2> QED
    BY <2>1
<1>2. Power = CHOOSE f : Rec(f)
  BY DEF Power
<1>3. Rec(Power)
  <2> HIDE DEF Rec
  <2> QED
    BY <1>1, <1>2
<1>4. Power = [i \in 0 .. 4 |-> IF i = 0 THEN 1 ELSE Half * Power[i - 1]]
  BY <1>3
<1>5. Power[0] = 1 /\ \A i \in 1 .. 4 : Power[i] = Half * Power[i - 1]
  <2> DEFINE p == Power
  <2> HIDE DEF p
  <2>1. p = [i \in 0 .. 4 |-> IF i = 0 THEN 1 ELSE Half * p[i - 1]]
    BY <1>4 DEF p
  <2>2. p[0] = 1 /\ \A i \in 1 .. 4 : p[i] = Half * p[i - 1]
    BY <2>1
  <2> QED
    BY <2>2 DEF p
<1>6. /\ Power[1] = Half * Power[0] /\ Power[2] = Half * Power[1]
      /\ Power[3] = Half * Power[2] /\ Power[4] = Half * Power[3]
  <2>1. /\ 1 \in 1 .. 4 /\ 2 \in 1 .. 4 /\ 3 \in 1 .. 4 /\ 4 \in 1 .. 4
        /\ 1 - 1 = 0 /\ 2 - 1 = 1 /\ 3 - 1 = 2 /\ 4 - 1 = 3
    OBVIOUS
  <2> QED
    BY <1>5, <2>1
<1> QED
  BY <1>5, <1>6, HalfIs

----------------------------------------------------------------------------
(* Lengths on the wire. *)

(* What is left of n after each digit. *)
Left(n) ==
    LET left[i \in 0 .. 4] == IF i = 0 THEN n ELSE left[i - 1] \div Half
    IN left

LEMMA LeftIs ==
    ASSUME NEW n \in Nat
    PROVE  /\ Left(n)[0] = n
           /\ \A i \in 1 .. 4 : Left(n)[i] = Left(n)[i - 1] \div Half
           /\ \A i \in 0 .. 4 : Left(n)[i] \in Nat
<1> DEFINE Rec(f) == f = [i \in 0 .. 4 |-> IF i = 0 THEN n ELSE f[i - 1] \div Half]
           a == n \div Half
           b == a \div Half
           c == b \div Half
           g == [i \in 0 .. 4 |-> IF i = 0 THEN n
                                  ELSE IF i = 1 THEN a
                                  ELSE IF i = 2 THEN b
                                  ELSE IF i = 3 THEN c
                                  ELSE c \div Half]
<1>0. a \in Nat /\ b \in Nat /\ c \in Nat /\ c \div Half \in Nat
  BY HalfIs, Division
<1>1. Rec(g)
  <2>1. ASSUME NEW i \in 0 .. 4 PROVE g[i] = IF i = 0 THEN n ELSE g[i - 1] \div Half
    <3>1. i = 0 \/ i = 1 \/ i = 2 \/ i = 3 \/ i = 4
      OBVIOUS
    <3> HIDE DEF a, b, c
    <3>2. /\ 1 - 1 = 0 /\ 2 - 1 = 1 /\ 3 - 1 = 2 /\ 4 - 1 = 3
          /\ a = n \div Half /\ b = a \div Half /\ c = b \div Half
      BY DEF a, b, c
    <3> QED
      BY <3>1, <3>2
  <2> QED
    BY <2>1
<1>2. Left(n) = CHOOSE f : Rec(f)
  BY DEF Left
<1>3. Rec(Left(n))
  <2> HIDE DEF Rec
  <2> QED
    BY <1>1, <1>2
<1> DEFINE l == Left(n)
<1>4. l = [i \in 0 .. 4 |-> IF i = 0 THEN n ELSE l[i - 1] \div Half]
  BY <1>3
<1> HIDE DEF l
<1>5. l[0] = n /\ \A i \in 1 .. 4 : l[i] = l[i - 1] \div Half
  BY <1>4
<1>6. /\ l[1] = l[0] \div Half /\ l[2] = l[1] \div Half
      /\ l[3] = l[2] \div Half /\ l[4] = l[3] \div Half
  <2>1. /\ 1 \in 1 .. 4 /\ 2 \in 1 .. 4 /\ 3 \in 1 .. 4 /\ 4 \in 1 .. 4
        /\ 1 - 1 = 0 /\ 2 - 1 = 1 /\ 3 - 1 = 2 /\ 4 - 1 = 3
    OBVIOUS
  <2> QED
    BY <1>5, <2>1
<1>7. l[0] \in Nat /\ l[1] \in Nat /\ l[2] \in Nat /\ l[3] \in Nat /\ l[4] \in Nat
  BY <1>0, <1>5, <1>6
<1>8. \A i \in 0 .. 4 : l[i] \in Nat
  <2>1. \A i \in 0 .. 4 : i = 0 \/ i = 1 \/ i = 2 \/ i = 3 \/ i = 4
    OBVIOUS
  <2> QED
    BY <1>7, <2>1
<1> QED
  BY <1>5, <1>8 DEF l

LEMMA EncodeIs ==
    ASSUME NEW n \in Nat
    PROVE  LET k == First({i \in 1 .. 4 : Left(n)[i] = 0}) IN
           EncodeLen(n) = IF k = None THEN None
                          ELSE [i \in 1 .. k |-> (Left(n)[i - 1] % Half) + (IF i < k THEN Half ELSE 0)]
  BY DEF EncodeLen, Left

(* The bytes of a length and what they say of it. *)
LEMMA EncodeFacts ==
    ASSUME NEW n \in Nat, EncodeLen(n) # None
    PROVE  \E k \in 1 .. 4 :
              /\ EncodeLen(n) \in Seq(Byte) /\ Len(EncodeLen(n)) = k
              /\ Left(n)[k] = 0 /\ \A i \in 1 .. k - 1 : Left(n)[i] # 0
              /\ \A i \in 1 .. k : /\ EncodeLen(n)[i] % Half = Left(n)[i - 1] % Half
                                   /\ EncodeLen(n)[i] < Half <=> i = k
<1> DEFINE I == {i \in 1 .. 4 : Left(n)[i] = 0}
           k == First(I)
           e == EncodeLen(n)
<1>1. k # None /\ e = [i \in 1 .. k |-> (Left(n)[i - 1] % Half) + (IF i < k THEN Half ELSE 0)]
  BY EncodeIs
<1>2. k \in I /\ \A j \in I : k <= j
  <2>1. I # {}
    BY <1>1, FirstEmpty
  <2>2. I \subseteq Nat
    OBVIOUS
  <2> HIDE DEF I
  <2> QED
    BY <2>1, <2>2, FirstFound
<1>3. k \in 1 .. 4 /\ Left(n)[k] = 0 /\ \A i \in 1 .. k - 1 : Left(n)[i] # 0
  BY <1>2
<1> HIDE DEF k, e
<1>4. ASSUME NEW i \in 1 .. k
      PROVE  /\ e[i] \in Byte /\ e[i] % Half = Left(n)[i - 1] % Half
             /\ e[i] < Half <=> i = k
  <2>1. i - 1 \in 0 .. 4
    BY <1>3
  <2>2. PICK r : r = Left(n)[i - 1] % Half /\ r \in 0 .. Half - 1
    BY <2>1, LeftIs, HalfIs, Division
  <2>3. e[i] = r + (IF i < k THEN Half ELSE 0)
    BY <1>1, <2>2
  <2>4. CASE i = k
    <3>1. e[i] = r
      BY <1>3, <2>2, <2>3, <2>4
    <3>2. (Half * 0 + r) % Half = r
      BY <2>2, HalfIs, DivisionUnique
    <3>3. Half * 0 + r = r
      BY <2>2, HalfIs
    <3> QED
      BY <2>2, <2>4, <3>1, <3>2, <3>3, HalfIs DEF Byte
  <2>5. CASE i < k
    <3>1. e[i] = Half * 1 + r
      BY <2>2, <2>3, <2>5, HalfIs
    <3>2. (Half * 1 + r) % Half = r
      BY <2>2, HalfIs, DivisionUnique
    <3> QED
      BY <1>3, <2>2, <2>5, <3>1, <3>2, HalfIs DEF Byte
  <2> QED
    BY <1>3, <2>4, <2>5
<1>5. e \in Seq(Byte) /\ Len(e) = k
  <2>1. DOMAIN e = 1 .. k /\ e \in [1 .. k -> Byte]
    BY <1>1, <1>4
  <2> QED
    BY <1>3, <2>1
<1> QED
  BY <1>3, <1>4, <1>5 DEF e

(* Shorter bodies have no longer lengths. *)
LEMMA EncodeShorter ==
    ASSUME NEW n \in Nat, NEW m \in Nat, m <= n, EncodeLen(n) # None
    PROVE  EncodeLen(m) # None /\ Len(EncodeLen(m)) <= Len(EncodeLen(n))
<1>1. \A i \in 0 .. 4 : Left(n)[i] \in Nat /\ Left(m)[i] \in Nat
  BY LeftIs
<1>2. \A i \in 1 .. 4 : Left(m)[i - 1] <= Left(n)[i - 1] => Left(m)[i] <= Left(n)[i]
  <2> TAKE i \in 1 .. 4
  <2>1. i - 1 \in 0 .. 4
    OBVIOUS
  <2>2. Left(m)[i] = Left(m)[i - 1] \div Half /\ Left(n)[i] = Left(n)[i - 1] \div Half
    BY LeftIs
  <2> QED
    BY <1>1, <2>1, <2>2, HalfIs, DivisionMonotone
<1>3. Left(m)[0] <= Left(n)[0]
  BY LeftIs
<1>4. /\ Left(m)[1] <= Left(n)[1] /\ Left(m)[2] <= Left(n)[2]
      /\ Left(m)[3] <= Left(n)[3] /\ Left(m)[4] <= Left(n)[4]
  <2>1. /\ 1 \in 1 .. 4 /\ 2 \in 1 .. 4 /\ 3 \in 1 .. 4 /\ 4 \in 1 .. 4
        /\ 1 - 1 = 0 /\ 2 - 1 = 1 /\ 3 - 1 = 2 /\ 4 - 1 = 3
    OBVIOUS
  <2>2. Left(m)[1] <= Left(n)[1]
    BY <1>2, <1>3, <2>1
  <2>3. Left(m)[2] <= Left(n)[2]
    BY <1>2, <2>1, <2>2
  <2>4. Left(m)[3] <= Left(n)[3]
    BY <1>2, <2>1, <2>3
  <2>5. Left(m)[4] <= Left(n)[4]
    BY <1>2, <2>1, <2>4
  <2> QED
    BY <2>2, <2>3, <2>4, <2>5
<1>5. PICK k \in 1 .. 4 : Left(n)[k] = 0 /\ Len(EncodeLen(n)) = k
  BY EncodeFacts
<1>6. Left(m)[k] = 0
  <2>1. k = 1 \/ k = 2 \/ k = 3 \/ k = 4
    OBVIOUS
  <2>2. Left(m)[k] <= Left(n)[k] /\ Left(m)[k] \in Nat
    BY <1>1, <1>4, <2>1
  <2> QED
    BY <1>5, <2>2
<1> DEFINE I == {i \in 1 .. 4 : Left(m)[i] = 0}
           j == First(I)
<1>7. j \in I /\ j <= k
  <2>1. k \in I /\ I \subseteq Nat
    BY <1>6
  <2> HIDE DEF I
  <2> QED
    BY <2>1, FirstFound
<1>8. j # None
  BY <1>7, CodecAssumption
<1>9. EncodeLen(m) = [i \in 1 .. j |-> (Left(m)[i - 1] % Half) + (IF i < j THEN Half ELSE 0)]
  BY <1>8, EncodeIs
<1> HIDE DEF j
<1>10. EncodeLen(m) # None
  <2>1. ASSUME NEW i \in 1 .. j PROVE (Left(m)[i - 1] % Half) + (IF i < j THEN Half ELSE 0) \in Byte
    <3>1. i - 1 \in 0 .. 4
      BY <1>7
    <3>2. Left(m)[i - 1] % Half \in 0 .. Half - 1
      BY <1>1, <3>1, HalfIs, Division
    <3> QED
      BY <3>2, HalfIs DEF Byte
  <2>2. EncodeLen(m) \in [1 .. j -> Byte] /\ j \in Nat
    BY <1>7, <1>9, <2>1
  <2>3. EncodeLen(m) \in Seq(Byte)
    BY <2>2
  <2> QED
    BY <2>3, NotNone
<1>11. PICK x \in 1 .. 4 : Left(m)[x] = 0 /\ Len(EncodeLen(m)) = x /\ \A i \in 1 .. x - 1 : Left(m)[i] # 0
  BY <1>10, EncodeFacts
<1>12. x <= k
  <2> SUFFICES ASSUME k < x PROVE FALSE
    OBVIOUS
  <2>1. k \in 1 .. x - 1
    OBVIOUS
  <2> QED
    BY <1>6, <1>11, <2>1
<1> QED
  BY <1>5, <1>10, <1>11, <1>12

LEMMA PowerIs ==
    /\ \A i \in 0 .. 4 : Power[i] \in Nat \ {0}
    /\ \A i \in 1 .. 4 : Power[i] = Half * Power[i - 1]
<1>1. \A i \in 0 .. 4 : i = 0 \/ i = 1 \/ i = 2 \/ i = 3 \/ i = 4
  OBVIOUS
<1>2. /\ Power[0] \in Nat \ {0} /\ Power[1] \in Nat \ {0} /\ Power[2] \in Nat \ {0}
      /\ Power[3] \in Nat \ {0} /\ Power[4] \in Nat \ {0}
  BY Powers, HalfIs
<1>3. \A i \in 1 .. 4 : Power[i] = Half * Power[i - 1]
  <2>1. \A i \in 1 .. 4 : i = 1 \/ i = 2 \/ i = 3 \/ i = 4
    OBVIOUS
  <2>2. 1 - 1 = 0 /\ 2 - 1 = 1 /\ 3 - 1 = 2 /\ 4 - 1 = 3
    OBVIOUS
  <2>3. Half * 1 = Half
    BY HalfIs
  <2> QED
    BY <2>1, <2>2, <2>3, Powers
<1> QED
  BY <1>1, <1>2, <1>3

LEMMA Rearrange ==
    ASSUME NEW m \in Nat, NEW h \in Nat, NEW q \in Nat, NEW r \in Nat
    PROVE  m * (h * q + r) = (r * m) + (h * m) * q
  OBVIOUS

(* What is left, in units of its multiplier, is a digit and what is left   *)
(* after it.                                                               *)
LEMMA DigitStep ==
    ASSUME NEW n \in Nat, NEW i \in 1 .. 4
    PROVE  \E x, y, z \in Nat : /\ x = Power[i - 1] * Left(n)[i - 1]
                                /\ y = (Left(n)[i - 1] % Half) * Power[i - 1]
                                /\ z = Power[i] * Left(n)[i]
                                /\ x = y + z
<1>1. i - 1 \in 0 .. 4 /\ i \in 0 .. 4
  OBVIOUS
<1>2. PICK l \in Nat : l = Left(n)[i - 1]
  BY <1>1, LeftIs
<1>3. PICK q \in Nat, r \in Nat : q = l \div Half /\ r = l % Half /\ l = Half * q + r
  <2>1. l \div Half \in Nat /\ l % Half \in Nat /\ l = Half * (l \div Half) + (l % Half)
    BY HalfIs, Division
  <2> QED
    BY <2>1
<1>4. q = Left(n)[i]
  BY <1>2, <1>3, LeftIs
<1>5. PICK m \in Nat : m = Power[i - 1]
  BY <1>1, PowerIs
<1>6. Power[i] = Half * m
  BY <1>5, PowerIs
<1>7. m * l = (r * m) + (Half * m) * q
  <2>1. m * (Half * q + r) = (r * m) + (Half * m) * q
    BY HalfIs, Rearrange
  <2> QED
    BY <1>3, <2>1
<1>8. m * l \in Nat /\ r * m \in Nat /\ (Half * m) * q \in Nat
  BY HalfIs
<1>9. /\ Power[i - 1] * Left(n)[i - 1] = m * l
      /\ (Left(n)[i - 1] % Half) * Power[i - 1] = r * m
      /\ Power[i] * Left(n)[i] = (Half * m) * q
  <2>1. Left(n)[i - 1] % Half = r
    BY <1>2, <1>3
  <2> QED
    BY <1>2, <1>4, <1>5, <1>6, <2>1
<1> QED
  BY <1>7, <1>8, <1>9

(* packet_decode_remaining_len reads what packet_encode_remaining_len has  *)
(* written, whatever follows.                                              *)
LEMMA DecodeEncoded ==
    ASSUME NEW n \in Nat, EncodeLen(n) # None, NEW s \in Seq(Byte),
           Len(EncodeLen(n)) <= Len(s), \A i \in 1 .. Len(EncodeLen(n)) : s[i] = EncodeLen(n)[i]
    PROVE  DecodeLen(s) = <<n, Len(EncodeLen(n))>>
<1>1. PICK k \in 1 .. 4 :
              /\ Len(EncodeLen(n)) = k
              /\ Left(n)[k] = 0
              /\ \A i \in 1 .. k : /\ EncodeLen(n)[i] % Half = Left(n)[i - 1] % Half
                                   /\ EncodeLen(n)[i] < Half <=> i = k
  BY EncodeFacts
<1>2. \A i \in 1 .. k : At8(s, i) = EncodeLen(n)[i] /\ i <= Len(s) /\ i \in 1 .. 4
  BY <1>1 DEF At8
<1> DEFINE I == {i \in 1 .. 4 : i <= Len(s) /\ At8(s, i) < Half}
<1>3. k \in I /\ \A i \in I : k <= i
  <2>1. k \in I
    BY <1>1, <1>2
  <2>2. ASSUME NEW i \in I, i < k PROVE FALSE
    <3>1. i \in 1 .. k
      BY <2>2
    <3> QED
      BY <1>1, <1>2, <2>2, <3>1
  <2> QED
    BY <2>1, <2>2
<1>4. First(I) = k /\ k # None
  <2>1. I \subseteq Nat
    OBVIOUS
  <2> HIDE DEF I
  <2>2. First(I) \in I /\ First(I) <= k
    BY <1>3, <2>1, FirstFound
  <2>3. First(I) \in Nat /\ k <= First(I)
    BY <1>3, <2>1, <2>2
  <2>4. First(I) = k
    BY <2>2, <2>3
  <2> QED
    BY <2>4, CodecAssumption
<1>5. DecodeLen(s) = <<Digits(s, k), k>>
  BY <1>4 DEF DecodeLen
<1> DEFINE Rec(f) == f = [i \in 0 .. k |-> IF i = 0 THEN 0
                                           ELSE f[i - 1] + (At8(s, i) % Half) * Power[i - 1]]
           g == [i \in 0 .. k |-> n - Power[i] * Left(n)[i]]
<1>6. \A i \in 1 .. k : At8(s, i) % Half = Left(n)[i - 1] % Half
  BY <1>1, <1>2
<1>7. Rec(g)
  <2>1. g[0] = 0
    BY Powers, LeftIs
  <2>2. ASSUME NEW i \in 1 .. k PROVE g[i] = g[i - 1] + (At8(s, i) % Half) * Power[i - 1]
    <3>0. i \in 1 .. 4 /\ i - 1 \in 0 .. k /\ i \in 0 .. k /\ i - 1 \in 0 .. 4 /\ i \in 0 .. 4
      OBVIOUS
    <3>1. PICK x \in Nat, y \in Nat, z \in Nat :
             /\ x = Power[i - 1] * Left(n)[i - 1]
             /\ y = (Left(n)[i - 1] % Half) * Power[i - 1]
             /\ z = Power[i] * Left(n)[i]
             /\ x = y + z
      BY <3>0, DigitStep
    <3>3. g[i] = n - z /\ g[i - 1] = n - x /\ (At8(s, i) % Half) * Power[i - 1] = y
      BY <1>6, <3>0, <3>1
    <3>4. n - z = (n - x) + y
      BY <3>1
    <3> HIDE DEF g
    <3> QED
      BY <3>3, <3>4
  <2> HIDE DEF g
  <2>3. ASSUME NEW i \in 0 .. k
        PROVE  g[i] = IF i = 0 THEN 0 ELSE g[i - 1] + (At8(s, i) % Half) * Power[i - 1]
    <3>1. i = 0 \/ i \in 1 .. k
      OBVIOUS
    <3> QED
      BY <2>1, <2>2, <3>1
  <2>4. g = [i \in 0 .. k |-> g[i]]
    BY DEF g
  <2> QED
    BY <2>3, <2>4
<1> DEFINE w == CHOOSE f : Rec(f)
<1>8. Digits(s, k) = w[k]
  BY DEF Digits
<1>9. Rec(w)
  <2> HIDE DEF Rec
  <2> QED
    BY <1>7
<1> HIDE DEF w
<1>10. /\ w[0] = 0
       /\ \A i \in 1 .. k : w[i] = w[i - 1] + (Left(n)[i - 1] % Half) * Power[i - 1]
  BY <1>6, <1>9
<1> DEFINE G(i) == w[i] = n - Power[i] * Left(n)[i]
<1>11. G(0)
  BY <1>10, Powers, LeftIs
<1>12. ASSUME NEW i \in 1 .. k, G(i - 1) PROVE G(i)
  <2>1. g[i] = g[i - 1] + (At8(s, i) % Half) * Power[i - 1] /\ i - 1 \in 0 .. k /\ i \in 0 .. k
    <3> HIDE DEF g
    <3>1. i - 1 \in 0 .. k /\ i \in 0 .. k /\ i # 0
      OBVIOUS
    <3> QED
      BY <1>7, <3>1
  <2>2. w[i] = g[i - 1] + (At8(s, i) % Half) * Power[i - 1]
    <3>1. w[i - 1] = g[i - 1]
      BY <1>12, <2>1
    <3> HIDE DEF g
    <3> QED
      BY <1>6, <1>10, <3>1
  <2>3. w[i] = g[i]
    <3> HIDE DEF g
    <3> QED
      BY <2>1, <2>2
  <2> QED
    BY <2>1, <2>3
<1>13. G(k)
  <2> HIDE DEF G
  <2>1. k = 1 \/ k = 2 \/ k = 3 \/ k = 4
    OBVIOUS
  <2>2. 1 - 1 = 0 /\ 2 - 1 = 1 /\ 3 - 1 = 2 /\ 4 - 1 = 3
    OBVIOUS
  <2>3. G(1)
    <3>1. 1 \in 1 .. k
      OBVIOUS
    <3> QED
      BY <1>11, <1>12, <2>2, <3>1
  <2>4. k >= 2 => G(2)
    <3>1. k >= 2 => 2 \in 1 .. k
      OBVIOUS
    <3> QED
      BY <1>12, <2>2, <2>3, <3>1
  <2>5. k >= 3 => G(3)
    <3>1. k >= 3 => 3 \in 1 .. k /\ k >= 2
      OBVIOUS
    <3> QED
      BY <1>12, <2>2, <2>4, <3>1
  <2>6. k >= 4 => G(4)
    <3>1. k >= 4 => 4 \in 1 .. k /\ k >= 3
      OBVIOUS
    <3> QED
      BY <1>12, <2>2, <2>5, <3>1
  <2> QED
    BY <2>1, <2>3, <2>4, <2>5, <2>6
<1>14. w[k] = n
  <2>1. Power[k] \in Nat /\ k \in 0 .. 4
    BY PowerIs
  <2>2. Power[k] * 0 = 0
    BY <2>1
  <2>3. w[k] = n - Power[k] * 0
    BY <1>1, <1>13
  <2> QED
    BY <2>2, <2>3
<1> QED
  BY <1>1, <1>5, <1>8, <1>14

----------------------------------------------------------------------------
(* Numbers and strings. *)

Word == 0 .. 4 * Half * Half - 1

LEMMA Twice ==
    ASSUME NEW a \in Nat, NEW h \in Nat
    PROVE  a * 2 * h = (2 * h) * a
  OBVIOUS

LEMMA WordBound ==
    ASSUME NEW a \in Byte, NEW b \in Byte
    PROVE  a * 2 * Half + b \in Word
<1>1. a \in Nat /\ b \in Nat /\ a <= 2 * Half - 1 /\ b <= 2 * Half - 1
  BY HalfIs DEF Byte
<1> DEFINE w == 2 * Half
<1>2. w \in Nat /\ w >= 1 /\ w * w = 4 * Half * Half /\ a * 2 * Half = a * w
  BY <1>1, HalfIs
<1>3. a <= w - 1 /\ b <= w - 1
  BY <1>1
<1> HIDE DEF w
<1>4. a * w \in Nat /\ a * w <= (w - 1) * w
  BY <1>1, <1>2, <1>3
<1>5. (w - 1) * w = w * w - w
  BY <1>2
<1>6. PICK x \in Nat, y \in Nat : x = a * w /\ y = w * w
  BY <1>2, <1>4
<1>7. x + b <= y - 1
  BY <1>1, <1>2, <1>3, <1>4, <1>5, <1>6
<1>8. x + b \in 0 .. y - 1
  BY <1>1, <1>6, <1>7
<1> QED
  BY <1>2, <1>6, <1>8 DEF Word

(* What read_u16 reads is what write_u16 would have written. *)
LEMMA ReadWrite ==
    ASSUME NEW s \in Seq(Byte), NEW i \in Nat \ {0}, i + 1 <= Len(s)
    PROVE  /\ U16(s, i) \in Word /\ U16(s, i) \in Nat
           /\ WriteU16(U16(s, i)) = <<s[i], s[i + 1]>>
<1>1. i \in 1 .. Len(s) /\ i + 1 \in 1 .. Len(s) /\ s[i] \in Byte /\ s[i + 1] \in Byte
  <2>1. i \in 1 .. Len(s) /\ i + 1 \in 1 .. Len(s)
    OBVIOUS
  <2> QED
    BY <2>1, ElementOfSeq
<1>2. PICK a \in Byte, b \in Byte : a = s[i] /\ b = s[i + 1]
  BY <1>1
<1>3. U16(s, i) = a * 2 * Half + b
  BY <1>1, <1>2 DEF U16, At8
<1>4. a \in Nat /\ b \in 0 .. 2 * Half - 1 /\ 2 * Half \in Nat \ {0}
  BY HalfIs DEF Byte
<1>5. a * 2 * Half + b = (2 * Half) * a + b
  BY <1>4, HalfIs
<1>6. ((2 * Half) * a + b) \div (2 * Half) = a /\ ((2 * Half) * a + b) % (2 * Half) = b
  BY <1>4, DivisionUnique
<1>7. U16(s, i) \in Word /\ U16(s, i) \in Nat
  <2>1. U16(s, i) \in Word
    BY <1>3, WordBound
  <2> QED
    BY <2>1 DEF Word
<1> QED
  BY <1>2, <1>3, <1>5, <1>6, <1>7 DEF WriteU16

(* What write_u16 writes is what read_u16 reads. *)
LEMMA WriteRead ==
    ASSUME NEW v \in Word
    PROVE  /\ WriteU16(v) \in Seq(Byte) /\ Len(WriteU16(v)) = 2
           /\ \A s \in Seq(Byte), i \in Nat \ {0} :
                 /\ i + 1 <= Len(s) /\ s[i] = WriteU16(v)[1] /\ s[i + 1] = WriteU16(v)[2]
                 => U16(s, i) = v
<1> DEFINE w == 2 * Half
<1>1. w \in Nat \ {0} /\ v \in Nat /\ v < w * w
  BY HalfIs DEF Word
<1>2. PICK a \in Nat, b \in Nat : a = v \div w /\ b = v % w /\ v = w * a + b /\ b < w
  <2> HIDE DEF w
  <2>1. v \div w \in Nat /\ v % w \in 0 .. w - 1 /\ v = w * (v \div w) + (v % w)
    BY <1>1, Division
  <2>2. v % w \in Nat /\ v % w < w
    BY <1>1, <2>1
  <2> QED
    BY <2>1, <2>2
<1>3. a < w
  <2> HIDE DEF w
  <2> QED
    BY <1>1, <1>2, DivisionBound
<1>4. a \in Byte /\ b \in Byte /\ a * 2 * Half = w * a
  <2>1. a * 2 * Half = w * a
    BY HalfIs, Twice
  <2> HIDE DEF w
  <2>2. a \in 0 .. w - 1 /\ b \in 0 .. w - 1
    BY <1>1, <1>2, <1>3
  <2>3. Byte = 0 .. w - 1
    BY DEF Byte, w
  <2> QED
    BY <2>1, <2>2, <2>3
<1>5. WriteU16(v) = <<a, b>>
  BY <1>2 DEF WriteU16
<1>6. WriteU16(v) \in Seq(Byte) /\ Len(WriteU16(v)) = 2 /\ WriteU16(v)[1] = a /\ WriteU16(v)[2] = b
  BY <1>4, <1>5
<1>7. ASSUME NEW s \in Seq(Byte), NEW i \in Nat \ {0}, i + 1 <= Len(s), s[i] = a, s[i + 1] = b
      PROVE  U16(s, i) = v
  <2>1. i \in 1 .. Len(s) /\ i + 1 \in 1 .. Len(s)
    BY <1>7
  <2>2. U16(s, i) = a * 2 * Half + b
    BY <1>7, <2>1 DEF U16, At8
  <2> HIDE DEF w
  <2> QED
    BY <1>2, <1>4, <2>2
<1> QED
  BY <1>6, <1>7

LEMMA Piece ==
    ASSUME NEW s \in Seq(Byte), NEW a \in Nat, NEW n \in Nat, a + n <= Len(s)
    PROVE  /\ SubSeq(s, a + 1, a + n) \in Seq(Byte) /\ Len(SubSeq(s, a + 1, a + n)) = n
           /\ \A i \in 1 .. n : SubSeq(s, a + 1, a + n)[i] = s[a + i]
<1> DEFINE y == SubSeq(s, a + 1, a + n)
<1>1. \A i \in a + 1 .. a + n : i \in 1 .. Len(s) /\ s[i] \in Byte
  <2>1. \A i \in a + 1 .. a + n : i \in 1 .. Len(s)
    BY LenProperties
  <2> QED
    BY <2>1, ElementOfSeq
<1>2. a + 1 \in Int /\ a + n \in Int
  OBVIOUS
<1>3. /\ y \in Seq(Byte)
      /\ Len(y) = IF a + 1 <= a + n THEN a + n - (a + 1) + 1 ELSE 0
      /\ \A i \in 1 .. a + n - (a + 1) + 1 : y[i] = s[a + 1 + i - 1]
  BY <1>1, <1>2, SubSeqProperties
<1> HIDE DEF y
<1>4. a + n - (a + 1) + 1 = n /\ (a + 1 <= a + n <=> n # 0)
  OBVIOUS
<1>5. Len(y) = n
  BY <1>3, <1>4
<1>6. ASSUME NEW i \in 1 .. n PROVE y[i] = s[a + i]
  <2>1. a + 1 + i - 1 = a + i
    OBVIOUS
  <2> QED
    BY <1>3, <1>4, <2>1
<1> QED
  BY <1>3, <1>5, <1>6 DEF y

(* After p bytes of s stands the length n of l, and l. *)
StringAt(s, p, n, l) ==
    /\ s \in Seq(Byte) /\ p \in Nat /\ n \in Nat
    /\ p + 2 + n <= Len(s) /\ n = U16(s, p + 1)
    /\ l \in Seq(Byte) /\ Len(l) = n /\ \A i \in 1 .. n : l[i] = s[p + 2 + i]

(* A string is written as it was read, with its length. *)
LEMMA StringIs ==
    ASSUME NEW s \in Seq(Byte), NEW p \in Nat, NEW n \in Nat,
           p + 2 + n <= Len(s), n = U16(s, p + 1),
           NEW l \in Seq(Byte), Len(l) = n, \A i \in 1 .. n : l[i] = s[p + 2 + i]
    PROVE  WriteStr(l) = SubSeq(s, p + 1, p + (2 + n))
<1>0. Len(s) \in Nat /\ p + 1 \in Nat \ {0} /\ (p + 1) + 1 = p + 2 /\ (p + 1) + 1 <= Len(s)
  OBVIOUS
<1>1. n \in Word /\ WriteU16(n) = <<s[p + 1], s[p + 2]>>
  BY <1>0, ReadWrite
<1>2. WriteU16(n) \in Seq(Byte) /\ Len(WriteU16(n)) = 2
  BY <1>1, WriteRead
<1> DEFINE x == WriteStr(l)
           y == SubSeq(s, p + 1, p + (2 + n))
<1>3. /\ x \in Seq(Byte) /\ Len(x) = 2 + n
      /\ \A i \in 1 .. 2 + n : x[i] = IF i <= 2 THEN WriteU16(n)[i] ELSE l[i - 2]
  <2> DEFINE u == WriteU16(n)
  <2>1. u \in Seq(Byte) /\ Len(u) = 2
    BY <1>2
  <2> HIDE DEF u
  <2>2. /\ u \o l \in Seq(Byte) /\ Len(u \o l) = Len(u) + Len(l)
        /\ \A i \in 1 .. Len(u) + Len(l) : (u \o l)[i] = IF i <= Len(u) THEN u[i] ELSE l[i - Len(u)]
    BY <2>1, ConcatProperties
  <2>3. x = u \o l
    BY DEF WriteStr, u
  <2> QED
    BY <2>1, <2>2, <2>3 DEF u
<1>4. /\ y \in Seq(Byte) /\ Len(y) = 2 + n
      /\ \A i \in 1 .. 2 + n : y[i] = s[p + i]
  <2>1. PICK k \in Nat : k = 2 + n /\ p + k <= Len(s)
    OBVIOUS
  <2>2. /\ SubSeq(s, p + 1, p + k) \in Seq(Byte) /\ Len(SubSeq(s, p + 1, p + k)) = k
        /\ \A i \in 1 .. k : SubSeq(s, p + 1, p + k)[i] = s[p + i]
    BY <2>1, Piece
  <2> QED
    BY <2>1, <2>2
<1> HIDE DEF x, y
<1>5. \A i \in 1 .. 2 + n : x[i] = y[i]
  <2> TAKE i \in 1 .. 2 + n
  <2>1. CASE i = 1
    BY <1>1, <1>3, <1>4, <2>1
  <2>2. CASE i = 2
    BY <1>1, <1>3, <1>4, <2>2
  <2>3. CASE i > 2
    <3>1. i - 2 \in 1 .. n /\ p + 2 + (i - 2) = p + i
      BY <2>3
    <3>2. l[i - 2] = s[p + i]
      BY <3>1
    <3> QED
      BY <1>3, <1>4, <2>3, <3>2
  <2> QED
    BY <2>1, <2>2, <2>3
<1>6. Len(x) = Len(y) /\ \A i \in 1 .. Len(x) : x[i] = y[i]
  BY <1>3, <1>4, <1>5
<1>7. x = y
  BY <1>3, <1>4, <1>6, SeqEqual
<1> QED
  BY <1>7 DEF x, y

LEMMA StringRead ==
    ASSUME NEW s, NEW p, NEW n, NEW l, StringAt(s, p, n, l)
    PROVE  WriteStr(l) = SubSeq(s, p + 1, p + (2 + n))
<1>1. /\ s \in Seq(Byte) /\ p \in Nat /\ n \in Nat
      /\ p + 2 + n <= Len(s) /\ n = U16(s, p + 1)
      /\ l \in Seq(Byte) /\ Len(l) = n /\ \A i \in 1 .. n : l[i] = s[p + 2 + i]
  BY DEF StringAt
<1> QED
  BY <1>1, StringIs, SMTT(30)

----------------------------------------------------------------------------
(* The bytes of the fields that were read. *)

AllOf(g) ==
    LET upTo[i \in 0 .. Len(g)] == IF i = 0 THEN <<>> ELSE upTo[i - 1] \o Encoded(g[i])
    IN upTo[Len(g)]

(* The bytes after each field. *)
UpTo(u, g, n) == /\ DOMAIN u = 0 .. n /\ u[0] = <<>>
                 /\ \A i \in 1 .. n : u[i] = u[i - 1] \o Encoded(g[i])

LEMMA AllIs ==
    ASSUME NEW S, NEW g \in Seq(S)
    PROVE  \E u : UpTo(u, g, Len(g)) /\ AllOf(g) = u[Len(g)]
<1> DEFINE N == Len(g)
           K == {k \in Nat : \E u : UpTo(u, g, k)}
<1>n. N \in Nat
  OBVIOUS
<1> HIDE DEF N
<1>1. 0 \in K
  <2> DEFINE u == [n \in 0 .. 0 |-> <<>>]
  <2>1. UpTo(u, g, 0)
    BY DEF UpTo
  <2> QED
    BY <2>1
<1>2. \A k \in Nat : k \in K => k + 1 \in K
  <2> SUFFICES ASSUME NEW k \in Nat, NEW u, UpTo(u, g, k)
               PROVE  \E h : UpTo(h, g, k + 1)
    OBVIOUS
  <2> DEFINE x == u[k] \o Encoded(g[k + 1])
             h == [n \in 0 .. k + 1 |-> IF n <= k THEN u[n] ELSE x]
  <2>1. DOMAIN h = 0 .. k + 1 /\ h[0] = <<>>
    BY DEF UpTo
  <2>2. \A n \in 1 .. k + 1 : h[n] = h[n - 1] \o Encoded(g[n])
    <3> TAKE n \in 1 .. k + 1
    <3>1. CASE n <= k
      <4>1. n \in 1 .. k /\ n \in 0 .. k + 1 /\ n - 1 \in 0 .. k + 1 /\ n - 1 <= k
        BY <3>1
      <4>2. h[n] = u[n] /\ h[n - 1] = u[n - 1]
        BY <3>1, <4>1
      <4> QED
        BY <4>1, <4>2 DEF UpTo
    <3>2. CASE n = k + 1
      <4>1. n \in 0 .. k + 1 /\ n - 1 \in 0 .. k + 1 /\ n - 1 = k /\ ~(n <= k)
        BY <3>2
      <4>2. h[n] = x /\ h[n - 1] = u[k]
        <5> HIDE DEF x
        <5> QED
          BY <4>1
      <4> QED
        BY <3>2, <4>2
    <3> QED
      BY <3>1, <3>2
  <2> HIDE DEF h
  <2>3. UpTo(h, g, k + 1)
    BY <2>1, <2>2 DEF UpTo
  <2> QED
    BY <2>3
<1>3. N \in K
  <2> HIDE DEF K
  <2>1. Nat \subseteq K
    BY <1>1, <1>2, SetInduction
  <2> QED
    BY <2>1, <1>n
<1>4. PICK v : UpTo(v, g, N)
  BY <1>3
<1> DEFINE Rec(f) == f = [i \in 0 .. N |-> IF i = 0 THEN <<>> ELSE f[i - 1] \o Encoded(g[i])]
           w == [i \in 0 .. N |-> v[i]]
<1>5. Rec(w)
  <2>1. ASSUME NEW i \in 0 .. N
        PROVE  w[i] = IF i = 0 THEN <<>> ELSE w[i - 1] \o Encoded(g[i])
    <3>1. CASE i = 0
      BY <1>4, <3>1 DEF UpTo
    <3>2. CASE i # 0
      <4>1. i \in 1 .. N /\ i - 1 \in 0 .. N
        BY <1>n, <3>2
      <4> QED
        BY <1>4, <3>2, <4>1 DEF UpTo
    <3> QED
      BY <3>1, <3>2
  <2> HIDE DEF w
  <2>2. w = [i \in 0 .. N |-> w[i]]
    BY DEF w
  <2> QED
    BY <2>1, <2>2
<1> DEFINE c == CHOOSE f : Rec(f)
<1>6. AllOf(g) = c[N]
  BY DEF AllOf, N
<1>7. Rec(c)
  <2> HIDE DEF Rec
  <2> QED
    BY <1>5
<1> HIDE DEF c
<1>8. UpTo(c, g, N)
  BY <1>7, <1>n DEF UpTo
<1> QED
  BY <1>6, <1>8 DEF N

(* The bytes up to a field depend on the fields before it. *)
LEMMA UpToSame ==
    ASSUME NEW g, NEW h, NEW u, NEW v, NEW n \in Nat,
           UpTo(u, g, n), UpTo(v, h, n + 1), \A i \in 1 .. n : h[i] = g[i]
    PROVE  v[n] = u[n]
<1> DEFINE T == {k \in Nat : k <= n => v[k] = u[k]}
<1>1. 0 \in T
  BY DEF UpTo
<1>2. \A k \in Nat : k \in T => k + 1 \in T
  <2> SUFFICES ASSUME NEW k \in Nat, k \in T, k + 1 <= n PROVE v[k + 1] = u[k + 1]
    OBVIOUS
  <2>1. k + 1 \in 1 .. n /\ k + 1 \in 1 .. n + 1 /\ (k + 1) - 1 = k /\ k <= n
    OBVIOUS
  <2>2. u[k + 1] = u[k] \o Encoded(g[k + 1]) /\ v[k + 1] = v[k] \o Encoded(h[k + 1])
    BY <2>1 DEF UpTo
  <2> QED
    BY <2>1, <2>2
<1>3. Nat \subseteq T
  <2> HIDE DEF T
  <2> QED
    BY <1>1, <1>2, SetInduction
<1> QED
  BY <1>3

LEMMA AllEmpty == AllOf(<<>>) = <<>>
<1>1. <<>> \in Seq({}) /\ Len(<<>>) = 0
  OBVIOUS
<1>2. PICK u : UpTo(u, <<>>, 0) /\ AllOf(<<>>) = u[0]
  BY <1>1, AllIs
<1> QED
  BY <1>2 DEF UpTo

LEMMA AllAppend ==
    ASSUME NEW S, NEW g \in Seq(S), NEW x \in S
    PROVE  AllOf(Append(g, x)) = AllOf(g) \o Encoded(x)
<1> DEFINE h == Append(g, x)
           n == Len(g)
<1>0. n \in Nat
  BY LenProperties
<1>1. h \in Seq(S) /\ Len(h) = n + 1 /\ h[n + 1] = x /\ \A i \in 1 .. n : h[i] = g[i]
  BY AppendProperties
<1> HIDE DEF h
<1>2. PICK u : UpTo(u, g, n) /\ AllOf(g) = u[n]
  BY AllIs
<1>3. PICK v : UpTo(v, h, n + 1) /\ AllOf(h) = v[n + 1]
  BY <1>1, AllIs
<1> HIDE DEF n
<1>4. n + 1 \in Nat /\ n <= n + 1 /\ n + 1 \in 1 .. n + 1 /\ (n + 1) - 1 = n
  BY <1>0
<1>5. v[n] = u[n]
  <2>1. UpTo(u, g, n) /\ UpTo(v, h, n + 1) /\ \A i \in 1 .. n : h[i] = g[i]
    BY <1>1, <1>2, <1>3
  <2> QED
    BY <1>0, <2>1, UpToSame
<1>6. v[n + 1] = v[n] \o Encoded(h[n + 1])
  BY <1>3, <1>4 DEF UpTo
<1>7. AllOf(h) = AllOf(g) \o Encoded(x)
  BY <1>1, <1>2, <1>3, <1>5, <1>6
<1> QED
  BY <1>7 DEF h

(* A field that was read adds its bytes. *)
LEMMA FieldBytes ==
    ASSUME NEW S, NEW g \in Seq(S), NEW x \in S, NEW s \in Seq(Byte), NEW p \in Nat, NEW n \in Nat,
           p + n <= Len(s), AllOf(g) = SubSeq(s, 1, p), Encoded(x) = SubSeq(s, p + 1, p + n)
    PROVE  AllOf(Append(g, x)) = SubSeq(s, 1, p + n)
<1>1. Len(s) \in Nat
  OBVIOUS
<1>2. 1 \in 1 .. Len(s) + 1 /\ p \in 1 - 1 .. Len(s) /\ p + n \in p .. Len(s)
  BY <1>1
<1>3. SubSeq(s, 1, p) \o SubSeq(s, p + 1, p + n) = SubSeq(s, 1, p + n)
  BY <1>2, ConcatAdjacentSubSeq
<1> QED
  BY <1>3, AllAppend
----------------------------------------------------------------------------
(* The invariant. *)

Names == {"proto", "id", "willtopic", "user", "password", "topic", "filter", "head",
          "pid", "willpayload", "payload", "qos", "topics", "end"}

Values == Nat \cup Seq(Byte)

(* A message that the broker may build, and that can be received. *)
Relayable(m) ==
    /\ m \in [topic : Seq(Byte), payload : Seq(Byte), qos : 0 .. 2, pid : Nat,
              flags : SUBSET {"dup", "retain"}]
    /\ Len(m.topic) \in Word \ {0} /\ Len(m.topic) < STR_MAX /\ ~HasWild(m.topic)
    /\ \A i \in 1 .. Len(m.topic) : m.topic[i] # 0
    /\ Len(m.payload) <= PAYLOAD_MAX
    /\ m.pid \in Word /\ (m.qos > 0 <=> m.pid # 0)
    /\ Len(Body(m)) <= PACKET_MAX /\ Len(Body(m)) < Power[3]

SentSound == sent # None => Relayable(sent) /\ packet = BuildPublish(sent)

(* What is left to receive of the length of a packet that was built. *)
Remains(n) == rlen + Power[at] * Left(n)[at] = n /\ at <= Len(EncodeLen(n))

ReceiveSound ==
    buf = None =>
        /\ at \in 0 .. 3 /\ at <= Len(packet.bytes)
        /\ mult = Power[at] /\ rlen \in Nat /\ rlen < mult
        /\ pos = 0 /\ got = <<>> /\ want = <<>> /\ verdict # "ok"
        /\ sent # None => verdict = None /\ Remains(Len(Body(sent)))

(* The fields that the last one can be; the filters are read one by one,   *)
(* and no more of them than fit.                                           *)
EndFields == {"head", "end", "payload", "topics"}

WantIn(w) ==
    /\ w \in Seq(Names)
    /\ w # <<>> => w[Len(w)] \in EndFields
    /\ \A i \in 2 .. Len(w) : w[i] # "filter"

WantSound == WantIn(want) /\ (Reads({"filter"}) => Count < TOPICS_MAX)

ParseSound ==
    buf # None =>
        /\ buf \in Seq(Byte) /\ Len(buf) <= PACKET_MAX
        /\ pos \in 0 .. Len(buf) /\ got \in Seq(Names \X Values)
        /\ AllOf(got) = SubSeq(buf, 1, pos)
        /\ want = <<>> => pos = Len(buf)
        /\ Count <= TOPICS_MAX
        /\ verdict = "ok" => want = <<>>
        /\ WantSound
        /\ IF sent = None THEN Len(buf) < Power[3] ELSE buf = Body(sent) /\ verdict \in {None, "ok"}

(* The values of the fields of a PUBLISH. *)
TopicValue(t) ==
    /\ t \in Seq(Byte) /\ Len(t) \in Word /\ Len(t) < STR_MAX /\ \A i \in 1 .. Len(t) : t[i] # 0
    /\ sent # None => t = sent.topic

PidValue(i) == i \in Word \ {0} /\ (sent # None => i = sent.pid)

PayloadValue(p) == p \in Seq(Byte) /\ Len(p) <= PAYLOAD_MAX /\ (sent # None => p = sent.payload)

(* How far a PUBLISH has been read. *)
BeforeTopic == want = FirstFields /\ got = <<>> /\ pos = 0

BeforePid ==
    \E t \in Seq(Byte) :
        /\ TopicValue(t) /\ packet.qos > 0
        /\ want = <<"pid", "payload">> /\ got = <<<<"topic", t>>>> /\ pos = 2 + Len(t)

BeforePayload ==
    \/ \E t \in Seq(Byte) :
          /\ TopicValue(t) /\ packet.qos = 0
          /\ want = <<"payload">> /\ got = <<<<"topic", t>>>> /\ pos = 2 + Len(t)
    \/ \E t \in Seq(Byte), i \in Word :
          /\ TopicValue(t) /\ PidValue(i) /\ packet.qos > 0
          /\ want = <<"payload">> /\ got = <<<<"topic", t>>, <<"pid", i>>>>
          /\ pos = 4 + Len(t)

AllRead ==
    \/ \E t \in Seq(Byte), p \in Seq(Byte) :
          /\ TopicValue(t) /\ PayloadValue(p) /\ packet.qos = 0
          /\ want = <<>> /\ got = <<<<"topic", t>>, <<"payload", p>>>>
          /\ pos = 2 + Len(t) + Len(p)
    \/ \E t \in Seq(Byte), i \in Word, p \in Seq(Byte) :
          /\ TopicValue(t) /\ PidValue(i) /\ PayloadValue(p) /\ packet.qos > 0
          /\ want = <<>> /\ got = <<<<"topic", t>>, <<"pid", i>>, <<"payload", p>>>>
          /\ pos = 4 + Len(t) + Len(p)

PublishAt == BeforeTopic \/ BeforePid \/ BeforePayload \/ AllRead

PublishSound == buf # None /\ packet.type = "publish" => packet.qos \in 0 .. 2 /\ PublishAt

CodecInv ==
    /\ packet \in Packet
    /\ SentSound /\ ReceiveSound /\ ParseSound /\ PublishSound

----------------------------------------------------------------------------
(* Packets that are built. *)

(* The parts of the body of a PUBLISH, where the parser finds them. *)
BodyParts(m, b) ==
    LET n == Len(m.topic)
        w == IF m.qos > 0 THEN 2 ELSE 0
    IN /\ b \in Seq(Byte) /\ Len(b) = ((2 + n) + w) + Len(m.payload)
       /\ U16(b, 1) = n /\ \A i \in 1 .. n : b[2 + i] = m.topic[i]
       /\ m.qos > 0 => U16(b, 3 + n) = m.pid
       /\ \A i \in 1 .. Len(m.payload) : b[((2 + n) + w) + i] = m.payload[i]

LEMMA Joined ==
    ASSUME NEW u \in Seq(Byte), NEW v \in Seq(Byte), NEW k \in Nat, NEW l \in Nat,
           k = Len(u), l = Len(v), NEW j, j = u \o v
    PROVE  /\ j \in Seq(Byte) /\ Len(j) = k + l
           /\ \A i \in 1 .. k : j[i] = u[i]
           /\ \A i \in 1 .. l : j[k + i] = v[i]
<1>1. /\ u \o v \in Seq(Byte) /\ Len(u \o v) = Len(u) + Len(v)
      /\ \A i \in 1 .. Len(u) + Len(v) : (u \o v)[i] = IF i <= Len(u) THEN u[i] ELSE v[i - Len(u)]
  BY ConcatProperties
<1>4. /\ j \in Seq(Byte) /\ Len(j) = k + l
      /\ \A i \in 1 .. k + l : j[i] = IF i <= k THEN u[i] ELSE v[i - k]
  BY <1>1
<1>5. ASSUME NEW i \in 1 .. k PROVE j[i] = u[i]
  <2>1. i \in 1 .. k + l /\ i <= k
    OBVIOUS
  <2> QED
    BY <1>4, <2>1
<1>6. ASSUME NEW i \in 1 .. l PROVE j[k + i] = v[i]
  <2>1. k + i \in 1 .. k + l /\ ~(k + i <= k) /\ (k + i) - k = i
    OBVIOUS
  <2> QED
    BY <1>4, <2>1
<1> QED
  BY <1>4, <1>5, <1>6

LEMMA BodyIs ==
    ASSUME NEW m, m.topic \in Seq(Byte), Len(m.topic) \in Word, m.payload \in Seq(Byte),
           m.qos \in 0 .. 2, m.pid \in Word
    PROVE  BodyParts(m, Body(m))
<1> DEFINE t == m.topic
           p == m.payload
           x == WriteU16(Len(t))
           y == IF m.qos > 0 THEN WriteU16(m.pid) ELSE <<>>
           a == x \o t
           c == a \o y
           b == c \o p
<1>1. /\ x \in Seq(Byte) /\ Len(x) = 2
      /\ \A s \in Seq(Byte), i \in Nat \ {0} :
            i + 1 <= Len(s) /\ s[i] = x[1] /\ s[i + 1] = x[2] => U16(s, i) = Len(t)
  BY WriteRead
<1>2. /\ y \in Seq(Byte) /\ Len(y) = (IF m.qos > 0 THEN 2 ELSE 0)
      /\ m.qos > 0 => \A s \in Seq(Byte), i \in Nat \ {0} :
            i + 1 <= Len(s) /\ s[i] = y[1] /\ s[i + 1] = y[2] => U16(s, i) = m.pid
  <2>1. CASE m.qos > 0
    <3>1. y = WriteU16(m.pid)
      BY <2>1
    <3> HIDE DEF y
    <3> QED
      BY <2>1, <3>1, WriteRead
  <2>2. CASE ~(m.qos > 0)
    <3>1. y = <<>>
      BY <2>2
    <3> HIDE DEF y
    <3> QED
      BY <2>2, <3>1, EmptySeq
  <2> QED
    BY <2>1, <2>2
<1>3. b = Body(m)
  BY DEF Body, WriteStr
<1> DEFINE w == IF m.qos > 0 THEN 2 ELSE 0
<1>4. PICK n \in Nat, l \in Nat : n = Len(t) /\ l = Len(p)
  BY LenProperties
<1>5. w \in Nat /\ (m.qos > 0 => w = 2) /\ Len(y) = w
  BY <1>2
<1> HIDE DEF x, y
<1>t. t \in Seq(Byte) /\ p \in Seq(Byte)
  OBVIOUS
<1> HIDE DEF t, p, w
<1>6. /\ a \in Seq(Byte) /\ Len(a) = 2 + n
      /\ \A i \in 1 .. 2 : a[i] = x[i]
      /\ \A i \in 1 .. n : a[2 + i] = t[i]
  <2>1. 2 \in Nat /\ 2 = Len(x) /\ n = Len(t) /\ a = x \o t
    BY <1>1, <1>4
  <2>2. x \in Seq(Byte) /\ t \in Seq(Byte)
    BY <1>1, <1>t
  <2>3. PICK z \in Nat : z = 2 /\ z = Len(x)
    BY <2>1
  <2> HIDE DEF a
  <2>4. /\ a \in Seq(Byte) /\ Len(a) = z + n
        /\ \A i \in 1 .. z : a[i] = x[i]
        /\ \A i \in 1 .. n : a[z + i] = t[i]
    <3>1. z = Len(x) /\ n = Len(t) /\ a = x \o t
      BY <2>1, <2>3
    <3> QED
      BY ONLY <2>2, <3>1, z \in Nat, n \in Nat, Joined
  <2> QED
    BY <2>3, <2>4
<1> HIDE DEF a
<1>7. /\ c \in Seq(Byte) /\ Len(c) = (2 + n) + w
      /\ \A i \in 1 .. 2 + n : c[i] = a[i]
      /\ \A i \in 1 .. w : c[(2 + n) + i] = y[i]
  <2>1. 2 + n \in Nat /\ 2 + n = Len(a) /\ w = Len(y) /\ c = a \o y
    BY <1>5, <1>6
  <2> HIDE DEF c
  <2> QED
    BY <1>2, <1>5, <1>6, <2>1, Joined
<1> HIDE DEF c
<1> DEFINE k == (2 + n) + w
<1>8. /\ b \in Seq(Byte) /\ Len(b) = k + l
      /\ \A i \in 1 .. k : b[i] = c[i]
      /\ \A i \in 1 .. l : b[k + i] = p[i]
  <2>1. k \in Nat /\ k = Len(c) /\ l = Len(p) /\ b = c \o p
    BY <1>4, <1>5, <1>7
  <2>2. c \in Seq(Byte) /\ p \in Seq(Byte)
    BY <1>7, <1>t
  <2> HIDE DEF k, b
  <2> QED
    BY <2>1, <2>2, Joined
<1> HIDE DEF b
<1>9. b[1] = x[1] /\ b[2] = x[2]
  <2>1. /\ 1 \in 1 .. 2 /\ 2 \in 1 .. 2 /\ 1 \in 1 .. 2 + n /\ 2 \in 1 .. 2 + n
        /\ 1 \in 1 .. k /\ 2 \in 1 .. k
    BY <1>5
  <2> QED
    BY <1>6, <1>7, <1>8, <2>1
<1>10. U16(b, 1) = n
  <2>1. b \in Seq(Byte) /\ 1 \in Nat \ {0} /\ 1 + 1 <= Len(b) /\ b[1] = x[1] /\ b[1 + 1] = x[2]
    BY <1>5, <1>8, <1>9
  <2>2. U16(b, 1) = Len(t)
    BY ONLY <1>1, <2>1
  <2> QED
    BY <1>4, <2>2
<1>11. ASSUME NEW i \in 1 .. n PROVE b[2 + i] = t[i]
  <2>1. 2 + i \in 1 .. 2 + n /\ 2 + i \in 1 .. k
    BY <1>5
  <2> QED
    BY <1>6, <1>7, <1>8, <2>1
<1>12. m.qos > 0 => U16(b, 3 + n) = m.pid
  <2> SUFFICES ASSUME m.qos > 0 PROVE U16(b, 3 + n) = m.pid
    OBVIOUS
  <2>1. w = 2
    BY <1>5
  <2>2. /\ 3 + n \in Nat \ {0} /\ (3 + n) + 1 <= Len(b)
        /\ 3 + n \in 1 .. k /\ (3 + n) + 1 \in 1 .. k
        /\ 3 + n = (2 + n) + 1 /\ (3 + n) + 1 = (2 + n) + 2
        /\ 1 \in 1 .. w /\ 2 \in 1 .. w
    BY <1>8, <2>1
  <2>3. b[3 + n] = c[3 + n] /\ b[(3 + n) + 1] = c[(3 + n) + 1]
    BY <1>8, <2>2
  <2>4. c[3 + n] = y[1] /\ c[(3 + n) + 1] = y[2]
    <3>1. c[(2 + n) + 1] = y[1] /\ c[(2 + n) + 2] = y[2]
      BY <1>7, <2>2
    <3> QED
      BY <2>2, <3>1
  <2> QED
    <3>1. b[3 + n] = y[1] /\ b[(3 + n) + 1] = y[2]
      BY <2>3, <2>4
    <3>2. b \in Seq(Byte) /\ 3 + n \in Nat \ {0} /\ (3 + n) + 1 <= Len(b) /\ m.pid \in Word
      BY <1>8, <2>2
    <3> QED
      BY ONLY <1>2, <3>1, <3>2, m.qos > 0
<1>14. BodyParts(m, b)
  <2>1. n = Len(m.topic) /\ w = (IF m.qos > 0 THEN 2 ELSE 0) /\ l = Len(m.payload)
    BY <1>4 DEF t, p, w
  <2> QED
    BY <1>8, <1>10, <1>11, <1>12, <2>1 DEF BodyParts, t, p
<1> QED
  BY <1>3, <1>14

(* A length below the largest multiplier has at most three bytes. *)
LEMMA LeftSmall ==
    ASSUME NEW n \in Nat, n < Power[3]
    PROVE  Left(n)[3] = 0
<1>1. Half \in Nat \ {0} /\ Half * Half \in Nat /\ 1 \in Nat /\ Half * 1 = Half
  BY HalfIs
<1>2. /\ 1 \in 1 .. 4 /\ 2 \in 1 .. 4 /\ 3 \in 1 .. 4 /\ 1 \in 0 .. 4 /\ 2 \in 0 .. 4 /\ 3 \in 0 .. 4
      /\ 1 - 1 = 0 /\ 2 - 1 = 1 /\ 3 - 1 = 2
  OBVIOUS
<1>3. PICK a \in Nat, b \in Nat, c \in Nat : a = Left(n)[1] /\ b = Left(n)[2] /\ c = Left(n)[3]
  BY <1>2, LeftIs
<1>4. a = n \div Half /\ b = a \div Half /\ c = b \div Half
  <2>1. Left(n)[0] = n /\ \A i \in 1 .. 4 : Left(n)[i] = Left(n)[i - 1] \div Half
    BY LeftIs
  <2> QED
    BY <1>2, <1>3, <2>1
<1>5. n < Half * (Half * Half)
  BY Powers
<1>6. a < Half * Half
  BY <1>1, <1>4, <1>5, DivisionBound
<1>7. b < Half
  BY <1>1, <1>4, <1>6, DivisionBound
<1>8. c < 1
  BY <1>1, <1>4, <1>7, DivisionBound
<1> QED
  BY <1>3, <1>8

(* A packet p that was built, with n bytes after the k bytes of its length. *)
BuiltParts(m, p, n, k) ==
    /\ p \in Packet /\ p # None /\ p.type = "publish" /\ p.qos = m.qos /\ p.flags = m.flags
    /\ k \in 1 .. 3 /\ Len(EncodeLen(n)) = k
    /\ Left(n)[k] = 0 /\ \A i \in 1 .. k - 1 : Left(n)[i] # 0
    /\ Len(p.bytes) = k + n
    /\ \A i \in 1 .. k : /\ p.bytes[i] % Half = Left(n)[i - 1] % Half
                         /\ p.bytes[i] < Half <=> i = k
    /\ \A i \in 1 .. n : p.bytes[k + i] = Body(m)[i]
    /\ DecodeLen(p.bytes) = <<n, k>>

LEMMA PartsLength ==
    ASSUME NEW m, NEW b, BodyParts(m, b)
    PROVE  /\ b \in Seq(Byte) /\ Len(b) \in Nat
           /\ Len(b) = ((2 + Len(m.topic)) + (IF m.qos > 0 THEN 2 ELSE 0)) + Len(m.payload)
<1>1. b \in Seq(Byte)
  BY Zenon DEF BodyParts
<1>2. Len(b) = ((2 + Len(m.topic)) + (IF m.qos > 0 THEN 2 ELSE 0)) + Len(m.payload)
  BY Zenon DEF BodyParts
<1>3. Len(b) \in Nat
  BY <1>1, LenProperties
<1> QED
  BY <1>1, <1>2, <1>3

LEMMA RelayableBody ==
    ASSUME NEW m, Relayable(m)
    PROVE  BodyParts(m, Body(m)) /\ Body(m) \in Seq(Byte) /\ Len(Body(m)) \in Nat
<1>1. /\ m.topic \in Seq(Byte) /\ Len(m.topic) \in Word /\ m.payload \in Seq(Byte)
      /\ m.qos \in 0 .. 2 /\ m.pid \in Word
  BY DEF Relayable
<1>2. BodyParts(m, Body(m))
  BY <1>1, BodyIs
<1> QED
  BY <1>2, PartsLength

LEMMA BuiltIs ==
    ASSUME NEW m, Relayable(m)
    PROVE  \E k \in 1 .. 3 : BuiltParts(m, BuildPublish(m), Len(Body(m)), k)
<1> DEFINE b == Body(m)
           n == Len(b)
           e == EncodeLen(n)
           M == STR_MAX + 3 + PAYLOAD_MAX
<1>1. b \in Seq(Byte) /\ n \in Nat /\ n <= M
  <2>1. BodyParts(m, b) /\ b \in Seq(Byte) /\ n \in Nat
    BY RelayableBody
  <2>2. PICK t \in Nat, l \in Nat : t = Len(m.topic) /\ l = Len(m.payload)
    BY DEF Relayable
  <2>3. t < STR_MAX /\ l <= PAYLOAD_MAX
    BY <2>2 DEF Relayable
  <2>4. PICK w \in Nat : w = (IF m.qos > 0 THEN 2 ELSE 0) /\ w <= 2
    <3>1. (IF m.qos > 0 THEN 2 ELSE 0) \in {0, 2}
      OBVIOUS
    <3> QED
      BY <3>1
  <2> HIDE DEF b
  <2>5. Len(b) = ((2 + t) + w) + l
    BY <2>1, <2>2, <2>4, PartsLength
  <2> HIDE DEF n
  <2>6. n <= STR_MAX + 3 + PAYLOAD_MAX
    <3>1. n = ((2 + t) + w) + l
      BY <2>5 DEF n
    <3> QED
      BY <2>1, <2>3, <2>4, <3>1, HalfIs
  <2> QED
    BY <2>1, <2>6
<1>2. EncodeLen(M) # None /\ 1 + Len(EncodeLen(M)) + M <= OUT_MAX
  BY BuffersAssumption
<1>3. M \in Nat
  BY HalfIs
<1> HIDE DEF M, b
<1>4. e # None /\ Len(e) <= Len(EncodeLen(M))
  <2> HIDE DEF n
  <2> QED
    BY <1>1, <1>2, <1>3, EncodeShorter
<1>5. PICK k \in 1 .. 4 :
              /\ e \in Seq(Byte) /\ Len(e) = k
              /\ Left(n)[k] = 0 /\ \A i \in 1 .. k - 1 : Left(n)[i] # 0
              /\ \A i \in 1 .. k : /\ e[i] % Half = Left(n)[i - 1] % Half
                                   /\ e[i] < Half <=> i = k
  <2> HIDE DEF n
  <2> QED
    BY <1>1, <1>4, EncodeFacts
<1>6. k <= 3
  <2>1. n < Power[3]
    BY DEF Relayable, b
  <2>2. Left(n)[3] = 0
    BY <1>1, <2>1, LeftSmall
  <2> SUFFICES ASSUME 3 < k PROVE FALSE
    OBVIOUS
  <2>3. 3 \in 1 .. k - 1
    OBVIOUS
  <2> QED
    BY <1>5, <2>2, <2>3
<1>7. 1 + Len(e) + n <= OUT_MAX
  <2> HIDE DEF n
  <2>1. PICK j \in Nat : j = Len(EncodeLen(M))
    <3>1. PICK j \in 1 .. 4 : Len(EncodeLen(M)) = j
      BY <1>2, <1>3, EncodeFacts
    <3> QED
      BY <3>1
  <2>2. k <= j /\ 1 + j + M <= OUT_MAX /\ Len(e) = k
    BY <1>2, <1>4, <1>5, <2>1
  <2> QED
    BY <1>1, <1>3, <2>1, <2>2, HalfIs
<1> DEFINE p == BuildPublish(m)
           s == e \o b
<1>8. p = [type |-> "publish", qos |-> m.qos, flags |-> m.flags, bytes |-> s]
  <2>1. /\ Len(m.topic) \in 1 .. STR_MAX - 1 /\ ~HasWild(m.topic)
        /\ m.qos <= 2 /\ ~(m.qos > 0 /\ m.pid = 0) /\ ~(Len(m.payload) > PAYLOAD_MAX)
    <3>1. Len(m.topic) \in Nat \ {0} /\ Len(m.payload) \in Nat
      BY DEF Relayable, Word
    <3> QED
      BY <3>1, HalfIs DEF Relayable
  <2>2. ~(1 + Len(e) + n > OUT_MAX)
    <3> HIDE DEF n, e
    <3> QED
      BY <1>1, <1>5, <1>7, HalfIs
  <2>3. BuildPublish(m) =
          IF \/ Len(m.topic) \notin 1 .. STR_MAX - 1 \/ HasWild(m.topic)
             \/ m.qos > 2 \/ (m.qos > 0 /\ m.pid = 0)
             \/ Len(m.payload) > PAYLOAD_MAX
             \/ e = None
             \/ 1 + Len(e) + n > OUT_MAX
          THEN None
          ELSE [type |-> "publish", qos |-> m.qos, flags |-> m.flags, bytes |-> s]
    BY DEF BuildPublish, b
  <2>4. m.qos \in 0 .. 2
    BY DEF Relayable
  <2> HIDE DEF e, n, s
  <2>5. ~(m.qos > 2)
    BY <2>4
  <2> QED
    BY <1>4, <2>1, <2>2, <2>3, <2>5
<1>9. /\ s \in Seq(Byte) /\ Len(s) = k + n
      /\ \A i \in 1 .. k : s[i] = e[i]
      /\ \A i \in 1 .. n : s[k + i] = b[i]
  <2>1. k = Len(e) /\ s = e \o b /\ k \in Nat /\ e \in Seq(Byte) /\ n = Len(b)
    BY <1>5
  <2> HIDE DEF n, e, s
  <2> QED
    BY ONLY <1>1, <2>1, Joined
<1> HIDE DEF s
<1>10. p \in Packet /\ p # None /\ p.type = "publish" /\ p.qos = m.qos /\ p.flags = m.flags /\ p.bytes = s
  <2>1. m.qos \in 0 .. 3 /\ m.flags \in SUBSET {"dup", "retain"}
    BY DEF Relayable
  <2>2. p \in Packet
    BY <1>8, <1>9, <2>1 DEF Packet
  <2> QED
    BY <1>8, <2>2, CodecAssumption
<1>11. DecodeLen(s) = <<n, k>>
  <2>1. k <= Len(s)
    BY <1>1, <1>9
  <2> HIDE DEF n
  <2> QED
    BY <1>1, <1>4, <1>5, <1>9, <2>1, DecodeEncoded
<1>12. BuiltParts(m, p, n, k)
  <2>1. k \in 1 .. 3 /\ Len(EncodeLen(n)) = k
    BY <1>5, <1>6
  <2> HIDE DEF p
  <2> QED
    BY <1>5, <1>9, <1>10, <1>11, <2>1 DEF BuiltParts, b
<1> QED
  BY <1>6, <1>12 DEF b

----------------------------------------------------------------------------
(* The fields. *)

CountOf(g) == Cardinality({i \in 1 .. Len(g) : g[i][1] = "filter"})

LEMMA CountAppend ==
    ASSUME NEW S, NEW g \in Seq(S), NEW x \in S
    PROVE  /\ CountOf(g) \in Nat
           /\ CountOf(Append(g, x)) = IF x[1] = "filter" THEN CountOf(g) + 1 ELSE CountOf(g)
<1> DEFINE h == Append(g, x)
           I == {i \in 1 .. Len(g) : g[i][1] = "filter"}
           J == {i \in 1 .. Len(h) : h[i][1] = "filter"}
<1>1. PICK n \in Nat : n = Len(g)
  BY LenProperties
<1>2. Len(h) = n + 1 /\ h[n + 1] = x /\ \A i \in 1 .. n : h[i] = g[i]
  BY <1>1, AppendProperties
<1>3. IsFiniteSet(I) /\ Cardinality(I) \in Nat
  <2>1. 1 \in Int /\ n \in Int
    BY <1>1
  <2>2. IsFiniteSet(1 .. n)
    BY <2>1, FS_Interval
  <2>3. I \subseteq 1 .. n
    BY <1>1
  <2> HIDE DEF I
  <2> QED
    BY <2>2, <2>3, FS_Subset, FS_CardinalityType
<1>4. n + 1 \notin I
  BY <1>1
<1>5. J = IF x[1] = "filter" THEN I \cup {n + 1} ELSE I
  <2> HIDE DEF h
  <2>1. ASSUME NEW i \in 1 .. n PROVE i \in J <=> i \in I
    BY <1>1, <1>2
  <2>2. n + 1 \in J <=> x[1] = "filter"
    BY <1>1, <1>2
  <2>3. \A i : i \in J => i \in 1 .. n \/ i = n + 1
    BY <1>1, <1>2
  <2>4. \A i : i \in I => i \in 1 .. n
    BY <1>1
  <2> HIDE DEF I, J
  <2>5. CASE x[1] = "filter"
    <3>1. \A i : i \in J <=> i \in I \cup {n + 1}
      BY <2>1, <2>2, <2>3, <2>4, <2>5
    <3>2. J = I \cup {n + 1}
      BY <3>1
    <3> QED
      BY <2>5, <3>2
  <2>6. CASE x[1] # "filter"
    <3>1. \A i : i \in J <=> i \in I
      BY <2>1, <2>2, <2>3, <2>4, <2>6
    <3>2. J = I
      BY <3>1
    <3> QED
      BY <2>6, <3>2
  <2> QED
    BY <2>5, <2>6
<1> HIDE DEF I, J
<1>6. Cardinality(I \cup {n + 1}) = Cardinality(I) + 1
  BY <1>3, <1>4, FS_AddElement
<1>7. CountOf(g) = Cardinality(I) /\ CountOf(h) = Cardinality(J)
  BY DEF CountOf, I, J
<1> QED
  BY <1>3, <1>5, <1>6, <1>7

(* The fields that remain after one was read and others were put before    *)
(* them.                                                                   *)
LEMMA WantNext ==
    ASSUME NEW w, WantIn(w), w # <<>>, NEW next \in Seq(Names),
           next # <<>> => next[Len(next)] \in EndFields,
           \A i \in 1 .. Len(next) : next[i] # "filter"
    PROVE  LET v == next \o Tail(w)
           IN /\ WantIn(v) /\ \A i \in 1 .. Len(v) : v[i] # "filter"
              /\ v = <<>> => next = <<>> /\ Head(w) \in EndFields
<1> DEFINE t == Tail(w)
           v == next \o t
<1>1. PICK l \in Nat \ {0}, n \in Nat : l = Len(w) /\ n = Len(next)
  BY EmptySeq, LenProperties DEF WantIn
<1>2. t \in Seq(Names) /\ Len(t) = l - 1 /\ \A i \in 1 .. l - 1 : t[i] = w[i + 1]
  BY <1>1, HeadTailProperties DEF WantIn
<1> HIDE DEF t
<1>3. /\ v \in Seq(Names) /\ Len(v) = n + (l - 1)
      /\ \A i \in 1 .. n + (l - 1) : v[i] = IF i <= n THEN next[i] ELSE t[i - n]
  <2>1. /\ next \o t \in Seq(Names) /\ Len(next \o t) = Len(next) + Len(t)
        /\ \A i \in 1 .. Len(next) + Len(t) :
              (next \o t)[i] = IF i <= Len(next) THEN next[i] ELSE t[i - Len(next)]
    BY <1>2, ConcatProperties
  <2>2. Len(next) + Len(t) = n + (l - 1)
    BY <1>1, <1>2
  <2>3. /\ v \in Seq(Names) /\ Len(v) = Len(next) + Len(t)
        /\ \A i \in 1 .. Len(next) + Len(t) : v[i] = IF i <= Len(next) THEN next[i] ELSE t[i - Len(next)]
    BY <2>1 DEF v
  <2> HIDE DEF v
  <2> QED
    BY <1>1, <2>2, <2>3
<1> HIDE DEF v
<1>4. ASSUME NEW i \in 1 .. n + (l - 1)
      PROVE  v[i] # "filter"
  <2>1. CASE i <= n
    <3>1. i \in 1 .. n
      BY <2>1
    <3> QED
      BY <1>1, <1>3, <2>1, <3>1
  <2>2. CASE ~(i <= n)
    <3>1. i - n \in 1 .. l - 1 /\ (i - n) + 1 \in 2 .. l
      BY <1>1, <2>2
    <3>2. v[i] = w[(i - n) + 1]
      BY <1>2, <1>3, <2>2, <3>1
    <3> QED
      BY <1>1, <3>1, <3>2 DEF WantIn
  <2> QED
    BY <2>1, <2>2
<1>5. ASSUME v # <<>> PROVE v[n + (l - 1)] \in EndFields
  <2>1. n + (l - 1) \in 1 .. n + (l - 1)
    BY <1>1, <1>3, <1>5, EmptySeq
  <2>2. CASE l = 1
    <3>1. n + (l - 1) = n /\ n \in 1 .. n
      BY <2>1, <2>2
    <3>2. v[n] = next[n]
      BY <1>3, <2>1, <3>1
    <3>3. next # <<>>
      BY <1>1, <3>1, EmptySeq
    <3> QED
      BY <1>1, <3>1, <3>2, <3>3
  <2>3. CASE l # 1
    <3>1. ~(n + (l - 1) <= n) /\ (n + (l - 1)) - n = l - 1 /\ l - 1 \in 1 .. l - 1 /\ (l - 1) + 1 = l
      BY <1>1, <2>3
    <3>2. v[n + (l - 1)] = w[l]
      BY <1>2, <1>3, <2>1, <3>1
    <3> QED
      BY <1>1, <3>2 DEF WantIn
  <2> QED
    BY <2>2, <2>3
<1>6. ASSUME v = <<>> PROVE next = <<>> /\ Head(w) \in EndFields
  <2>1. n + (l - 1) = 0
    BY <1>3, <1>6, EmptySeq
  <2>2. n = 0 /\ l = 1
    BY <1>1, <2>1
  <2>3. next = <<>>
    BY <1>1, <2>2, EmptySeq
  <2>4. Head(w) = w[l]
    BY <1>1, <2>2 DEF WantIn
  <2> QED
    BY <1>1, <2>3, <2>4 DEF WantIn
<1>7. WantIn(v)
  <2>1. \A i \in 2 .. Len(v) : i \in 1 .. n + (l - 1)
    BY <1>1, <1>3
  <2> QED
    BY <1>3, <1>4, <1>5, <2>1 DEF WantIn
<1> QED
  BY <1>3, <1>4, <1>6, <1>7 DEF v, t

(* The fields at the beginning. *)
LEMMA FirstFieldsIs ==
    ASSUME packet \in Packet
    PROVE  /\ WantIn(FirstFields) /\ FirstFields # <<>> /\ Head(FirstFields) # "filter"
           /\ packet.type = "publish" =>
                FirstFields = IF packet.qos > 0 THEN <<"topic", "pid", "payload">> ELSE <<"topic", "payload">>
<1>1. CASE packet.type = "connect"
  <2>1. FirstFields = <<"proto", "head">>
    BY <1>1 DEF FirstFields
  <2> QED
    BY <1>1, <2>1 DEF WantIn, Names, EndFields
<1>2. CASE packet.type = "publish" /\ packet.qos > 0
  <2>1. FirstFields = <<"topic", "pid", "payload">>
    BY <1>2 DEF FirstFields
  <2> QED
    BY <1>2, <2>1 DEF WantIn, Names, EndFields
<1>3. CASE packet.type = "publish" /\ ~(packet.qos > 0)
  <2>1. FirstFields = <<"topic", "payload">>
    BY <1>3 DEF FirstFields
  <2> QED
    BY <1>3, <2>1 DEF WantIn, Names, EndFields
<1>4. CASE packet.type # "connect" /\ packet.type # "publish"
  <2>1. FirstFields = <<"pid", "topics">>
    BY <1>4 DEF FirstFields
  <2> QED
    BY <1>4, <2>1 DEF WantIn, Names, EndFields
<1> QED
  BY <1>1, <1>2, <1>3, <1>4

LEMMA ConnectIs ==
    ASSUME NEW flags
    PROVE  LET next == <<"id">> \o ConnectFields(flags)
           IN /\ next \in Seq(Names) /\ next # <<>> /\ next[Len(next)] \in EndFields
              /\ \A i \in 1 .. Len(next) : next[i] # "filter"
<1> DEFINE N == Names \ {"filter"}
           a == IF "will" \in flags THEN <<"willtopic", "willpayload">> ELSE <<>>
           b == IF "user" \in flags THEN <<"user">> ELSE <<>>
           c == IF "password" \in flags THEN <<"password">> ELSE <<>>
           e == <<"end">>
           i == <<"id">>
<1>1. a \in Seq(N) /\ b \in Seq(N) /\ c \in Seq(N) /\ e \in Seq(N) /\ i \in Seq(N)
  <2>1. <<"willtopic", "willpayload">> \in Seq(N) /\ <<>> \in Seq(N)
    BY DEF Names
  <2>2. <<"user">> \in Seq(N) /\ <<"password">> \in Seq(N) /\ <<"end">> \in Seq(N) /\ <<"id">> \in Seq(N)
    BY DEF Names
  <2> HIDE DEF N
  <2> QED
    BY <2>1, <2>2
<1>2. Len(e) = 1 /\ e[1] = "end" /\ Len(i) = 1
  OBVIOUS
<1> HIDE DEF N, a, b, c, e, i
<1>3. ConnectFields(flags) = ((a \o b) \o c) \o e
  BY DEF ConnectFields, a, b, c, e
<1> DEFINE x == (a \o b) \o c
           y == x \o e
           z == i \o y
<1>4. x \in Seq(N)
  BY <1>1, ConcatProperties
<1> HIDE DEF x
<1>5. PICK n \in Nat : n = Len(x)
  BY <1>4, LenProperties
<1>6. y \in Seq(N) /\ Len(y) = n + 1 /\ y[n + 1] = "end"
  <2>1. /\ x \o e \in Seq(N) /\ Len(x \o e) = Len(x) + Len(e)
        /\ \A j \in 1 .. Len(x) + Len(e) : (x \o e)[j] = IF j <= Len(x) THEN x[j] ELSE e[j - Len(x)]
    BY <1>1, <1>4, ConcatProperties
  <2>2. /\ y \in Seq(N) /\ Len(y) = n + 1
        /\ \A j \in 1 .. n + 1 : y[j] = IF j <= n THEN x[j] ELSE e[j - n]
    BY <1>2, <1>5, <2>1
  <2> HIDE DEF y
  <2>3. n + 1 \in 1 .. n + 1 /\ ~(n + 1 <= n) /\ (n + 1) - n = 1
    BY <1>5
  <2> QED
    BY <1>2, <2>2, <2>3
<1> HIDE DEF y
<1>7. z \in Seq(N) /\ Len(z) = 1 + (n + 1) /\ z[1 + (n + 1)] = "end"
  <2>1. /\ i \o y \in Seq(N) /\ Len(i \o y) = Len(i) + Len(y)
        /\ \A j \in 1 .. Len(i) + Len(y) : (i \o y)[j] = IF j <= Len(i) THEN i[j] ELSE y[j - Len(i)]
    BY <1>1, <1>6, ConcatProperties
  <2>2. /\ z \in Seq(N) /\ Len(z) = 1 + (n + 1)
        /\ \A j \in 1 .. 1 + (n + 1) : z[j] = IF j <= 1 THEN i[j] ELSE y[j - 1]
    BY <1>2, <1>5, <1>6, <2>1
  <2> HIDE DEF z
  <2>3. 1 + (n + 1) \in 1 .. 1 + (n + 1) /\ ~(1 + (n + 1) <= 1) /\ (1 + (n + 1)) - 1 = n + 1
    BY <1>5
  <2> QED
    BY <1>6, <2>2, <2>3
<1>8. z = <<"id">> \o ConnectFields(flags)
  BY <1>3 DEF i, y, x
<1> HIDE DEF z
<1>9. \A j \in 1 .. Len(z) : z[j] \in N
  BY <1>7, ElementOfSeq
<1>10. \A j \in 1 .. Len(z) : z[j] # "filter"
  BY <1>9 DEF N
<1>11. z \in Seq(Names)
  <2>1. N \subseteq Names
    BY DEF N
  <2> QED
    BY <1>7, <2>1, SeqMonotonic
<1>12. z[Len(z)] \in EndFields /\ z # <<>>
  <2>1. Len(z) # 0
    BY <1>5, <1>7
  <2> QED
    BY <1>7, <2>1, EmptySeq DEF EndFields
<1> QED
  BY <1>8, <1>10, <1>11, <1>12

----------------------------------------------------------------------------
(* The steps. *)

(* A packet that is refused. *)
LEMMA RefuseInv ==
    ASSUME CodecInv, sent = None, NEW v \in {"bad", "level"}, Verdict(v)
    PROVE  CodecInv'
<1>1. /\ verdict' = v /\ v # None /\ v # "ok"
      /\ UNCHANGED <<packet, at, rlen, mult, buf, pos, want, got, sent>>
  BY NotNone DEF Verdict
<1>2. packet' \in Packet /\ SentSound'
  BY <1>1 DEF CodecInv, SentSound
<1>3. ReceiveSound'
  BY <1>1 DEF CodecInv, ReceiveSound
<1>4. ParseSound'
  <2>1. ~Reads({"filter"})'
    BY <1>1 DEF Reads
  <2>2. Count' = Count
    BY <1>1 DEF Count
  <2>3. ParseSound
    BY DEF CodecInv
  <2> QED
    BY <1>1, <2>1, <2>2, <2>3 DEF ParseSound, WantSound
<1>5. PublishSound'
  BY <1>1 DEF CodecInv, PublishSound, PublishAt, BeforeTopic, BeforePid, BeforePayload, AllRead,
             TopicValue, PidValue, PayloadValue, FirstFields
<1> QED
  BY <1>2, <1>3, <1>4, <1>5 DEF CodecInv

(* The body is complete. *)
LEMMA ParseInv ==
    ASSUME CodecInv, verdict = None, buf = None, NEW body \in Seq(Byte), Parse(body),
           Len(body) <= PACKET_MAX, packet.type = "publish" => packet.qos \in 0 .. 2,
           IF sent = None THEN Len(body) < Power[3] ELSE body = Body(sent)
    PROVE  CodecInv'
<1>1. /\ buf' = body /\ want' = FirstFields /\ buf' # None
      /\ UNCHANGED <<packet, rlen, mult, pos, got, verdict, sent>>
  BY NotNone DEF Parse
<1>2. packet \in Packet /\ pos = 0 /\ got = <<>>
  BY DEF CodecInv, ReceiveSound
<1>3. packet' \in Packet /\ SentSound'
  BY <1>1 DEF CodecInv, SentSound
<1>4. ReceiveSound'
  BY <1>1 DEF ReceiveSound
<1>5. ParseSound'
  <2>1. WantIn(want)' /\ want' # <<>> /\ ~Reads({"filter"})'
    <3>1. WantIn(FirstFields) /\ FirstFields # <<>> /\ Head(FirstFields) # "filter"
      BY <1>2, FirstFieldsIs
    <3> QED
      BY <1>1, <3>1 DEF Reads, WantIn
  <2>2. Count' = 0
    <3>1. Count' = Cardinality({})
      BY <1>1, <1>2 DEF Count
    <3> QED
      BY <3>1, FS_EmptySet
  <2>3. AllOf(got)' = SubSeq(buf, 1, pos)'
    <3>1. SubSeq(body, 1, 0) = <<>>
      BY SubSeqEmpty
    <3> QED
      BY <1>1, <1>2, <3>1, AllEmpty
  <2>4. Len(body) \in Nat
    BY LenProperties
  <2> QED
    BY <1>1, <1>2, <2>1, <2>2, <2>3, <2>4, NotNone, HalfIs DEF ParseSound, WantSound
<1>6. PublishSound'
  <2>1. PublishAt'
    BY <1>1, <1>2 DEF PublishAt, BeforeTopic, FirstFields
  <2> QED
    BY <1>1, <2>1 DEF PublishSound
<1> QED
  BY <1>1, <1>3, <1>4, <1>5, <1>6 DEF CodecInv

(* A field was read. *)
LEMMA FieldInv ==
    ASSUME CodecInv, verdict = None, buf # None, want # <<>>,
           NEW value \in Values, NEW n \in Nat, NEW next \in Seq(Names), Field(value, n, next),
           pos + n <= Len(buf), Encoded(<<Head(want), value>>) = SubSeq(buf, pos + 1, pos + n),
           next # <<>> => next[Len(next)] \in EndFields,
           \A i \in 1 .. Len(next) : next[i] # "filter",
           Head(want) \in EndFields /\ next = <<>> => pos + n = Len(buf)
    PROVE  packet' \in Packet /\ SentSound' /\ ReceiveSound' /\ ParseSound'
<1> DEFINE x == <<Head(want), value>>
           v == next \o Tail(want)
<1>1. /\ got' = Append(got, x) /\ pos' = pos + n /\ want' = v
      /\ UNCHANGED <<packet, at, rlen, mult, buf, verdict, sent>>
  BY DEF Field
<1>2. /\ buf \in Seq(Byte) /\ Len(buf) <= PACKET_MAX /\ Len(buf) \in Nat
      /\ pos \in Nat /\ got \in Seq(Names \X Values)
      /\ AllOf(got) = SubSeq(buf, 1, pos) /\ Count <= TOPICS_MAX
      /\ WantIn(want) /\ (Reads({"filter"}) => Count < TOPICS_MAX)
      /\ IF sent = None THEN Len(buf) < Power[3] ELSE buf = Body(sent) /\ verdict \in {None, "ok"}
  BY DEF CodecInv, ParseSound, WantSound
<1>3. Head(want) \in Names
  BY <1>2, HeadTailProperties DEF WantIn
<1>4. x \in Names \X Values /\ x[1] = Head(want)
  BY <1>3
<1>5. /\ WantIn(v) /\ \A i \in 1 .. Len(v) : v[i] # "filter"
      /\ v = <<>> => next = <<>> /\ Head(want) \in EndFields
  BY <1>2, WantNext
<1> HIDE DEF x, v
<1>6. packet' \in Packet /\ SentSound' /\ ReceiveSound'
  BY <1>1 DEF CodecInv, SentSound, ReceiveSound
<1>7. got' \in Seq(Names \X Values)
  BY <1>1, <1>2, <1>4, AppendProperties
<1>8. AllOf(got)' = SubSeq(buf, 1, pos)'
  <2>1. AllOf(Append(got, x)) = SubSeq(buf, 1, pos + n)
    <3>1. /\ got \in Seq(Names \X Values) /\ x \in Names \X Values
          /\ buf \in Seq(Byte) /\ pos \in Nat /\ n \in Nat /\ pos + n <= Len(buf)
          /\ AllOf(got) = SubSeq(buf, 1, pos) /\ Encoded(x) = SubSeq(buf, pos + 1, pos + n)
      BY <1>2, <1>4 DEF x
    <3> QED
      BY ONLY <3>1, FieldBytes
  <2> QED
    BY <1>1, <2>1
<1>9. Count' <= TOPICS_MAX
  <2>1. Count \in Nat /\ Count' = IF x[1] = "filter" THEN Count + 1 ELSE Count
    <3>1. CountOf(got) \in Nat /\ CountOf(Append(got, x)) = IF x[1] = "filter" THEN CountOf(got) + 1 ELSE CountOf(got)
      BY <1>2, <1>4, CountAppend
    <3>2. Count = CountOf(got) /\ Count' = CountOf(Append(got, x))
      BY <1>1 DEF Count, CountOf
    <3> QED
      BY <3>1, <3>2
  <2>2. x[1] = "filter" => Count < TOPICS_MAX
    BY <1>2, <1>4 DEF Reads
  <2> HIDE DEF Count
  <2> QED
    BY <1>2, <2>1, <2>2, HalfIs
<1>10. WantSound'
  <2>1. ~Reads({"filter"})'
    <3>1. v # <<>> => Head(v) = v[1] /\ 1 \in 1 .. Len(v)
      BY <1>5, EmptySeq DEF WantIn
    <3> QED
      BY <1>1, <1>5, <3>1 DEF Reads
  <2> QED
    BY <1>1, <1>5, <2>1 DEF WantSound, WantIn
<1>11. want' = <<>> => pos' = Len(buf')
  BY <1>1, <1>5
<1>12. pos' \in 0 .. Len(buf')
  BY <1>1, <1>2
<1> QED
  BY <1>1, <1>2, <1>6, <1>7, <1>8, <1>9, <1>10, <1>11, <1>12, NotNone DEF ParseSound

(* A string that was read. *)
LEMMA StrIs ==
    ASSUME NEW b \in Seq(Byte), NEW p \in Nat, p + 2 <= Len(b), p + 2 + U16(b, p + 1) <= Len(b)
    PROVE  LET n == U16(b, p + 1)
               s == [i \in 1 .. n |-> At8(b, p + 2 + i)]
           IN /\ n \in Word /\ n \in Nat /\ s \in Seq(Byte) /\ Len(s) = n
              /\ \A i \in 1 .. n : s[i] = b[p + 2 + i]
              /\ WriteStr(s) = SubSeq(b, p + 1, p + (2 + n))
<1>1. Len(b) \in Nat /\ p + 1 \in Nat \ {0} /\ (p + 1) + 1 <= Len(b)
  BY LenProperties
<1>2. PICK n \in Nat : n = U16(b, p + 1) /\ n \in Word
  BY <1>1, ReadWrite
<1>3. p + 2 + n <= Len(b)
  BY <1>2
<1> DEFINE s == [i \in 1 .. n |-> At8(b, p + 2 + i)]
<1>4. ASSUME NEW i \in 1 .. n PROVE At8(b, p + 2 + i) = b[p + 2 + i] /\ b[p + 2 + i] \in Byte
  <2>1. p + 2 + i \in 1 .. Len(b)
    BY <1>1, <1>3
  <2> QED
    BY <2>1, ElementOfSeq DEF At8
<1>5. s \in [1 .. n -> Byte] /\ \A i \in 1 .. n : s[i] = b[p + 2 + i]
  BY <1>4
<1> HIDE DEF s
<1>6. s \in Seq(Byte) /\ Len(s) = n
  BY <1>5
<1>7. WriteStr(s) = SubSeq(b, p + 1, p + (2 + n))
  <2>1. StringAt(b, p, n, s)
    BY <1>2, <1>3, <1>5, <1>6 DEF StringAt
  <2> QED
    BY ONLY <2>1, StringRead
<1> QED
  BY <1>2, <1>5, <1>6, <1>7 DEF s

(* A packet that the broker built is a PUBLISH. *)
LEMMA SentIs ==
    ASSUME CodecInv, sent # None
    PROVE  /\ packet.type = "publish" /\ Relayable(sent)
           /\ \E k \in 1 .. 3 : BuiltParts(sent, packet, Len(Body(sent)), k)
<1>1. Relayable(sent) /\ packet = BuildPublish(sent)
  BY DEF CodecInv, SentSound
<1>2. PICK k \in 1 .. 3 : BuiltParts(sent, packet, Len(Body(sent)), k)
  BY <1>1, BuiltIs
<1>3. packet.type = "publish"
  BY <1>2 DEF BuiltParts
<1> QED
  BY <1>1, <1>2, <1>3

(* The fields of a PUBLISH. *)
LEMMA PublishHead ==
    ASSUME CodecInv, buf # None, want # <<>>, packet.type = "publish"
    PROVE  Head(want) \in {"topic", "pid", "payload"}
<1>1. PublishAt /\ packet \in Packet
  BY DEF CodecInv, PublishSound
<1>2. FirstFields = IF packet.qos > 0 THEN <<"topic", "pid", "payload">> ELSE <<"topic", "payload">>
  BY <1>1, FirstFieldsIs
<1>3. \/ want = FirstFields \/ want = <<"pid", "payload">> \/ want = <<"payload">> \/ want = <<>>
  BY <1>1 DEF PublishAt, BeforeTopic, BeforePid, BeforePayload, AllRead
<1> QED
  BY <1>2, <1>3

(* A field that no PUBLISH has. *)
LEMMA OtherField ==
    ASSUME CodecInv, buf # None, want # <<>>, Head(want) \notin {"topic", "pid", "payload"}
    PROVE  sent = None /\ packet.type # "publish"
  BY SentIs, PublishHead

LEMMA OtherInv ==
    ASSUME packet.type # "publish", packet' = packet, packet' \in Packet,
           SentSound', ReceiveSound', ParseSound'
    PROVE  CodecInv'
  BY DEF CodecInv, PublishSound

LEMMA ReadHeadInv ==
    ASSUME CodecInv, ReadHead
    PROVE  CodecInv'
<1> DEFINE flags == ConnectFlags[At8(buf, pos + 2)]
           value == SubSeq(buf, pos + 1, pos + 4)
           next == <<"id">> \o ConnectFields(flags)
<1>1. verdict = None /\ buf # None /\ want # <<>> /\ Head(want) = "head"
  BY DEF ReadHead, Reads
<1>2. sent = None /\ packet.type # "publish"
  BY <1>1, OtherField
<1>3. \/ \E v \in {"bad", "level"} : Verdict(v)
      \/ pos + 4 <= Len(buf) /\ Field(value, 4, next)
  <2>1. Len(buf) \in Nat /\ pos \in Nat
    BY <1>1 DEF CodecInv, ParseSound
  <2> QED
    BY <2>1 DEF ReadHead
<1>4. CASE \E v \in {"bad", "level"} : Verdict(v)
  BY <1>2, <1>4, RefuseInv
<1>5. CASE pos + 4 <= Len(buf) /\ Field(value, 4, next)
  <2>1. buf \in Seq(Byte) /\ pos \in Nat /\ Len(buf) \in Nat
    BY <1>1 DEF CodecInv, ParseSound
  <2>2. value \in Seq(Byte)
    <3>1. \A i \in pos + 1 .. pos + 4 : buf[i] \in Byte
      <4>1. \A i \in pos + 1 .. pos + 4 : i \in 1 .. Len(buf)
        BY <1>5, <2>1
      <4> QED
        BY <2>1, <4>1, ElementOfSeq
    <3> QED
      BY <2>1, <3>1, SubSeqProperties
  <2>3. value \in Values /\ 4 \in Nat
    BY <2>2 DEF Values
  <2>4. Encoded(<<Head(want), value>>) = value
    BY <1>1 DEF Encoded
  <2>5. /\ next \in Seq(Names) /\ next # <<>> /\ next[Len(next)] \in EndFields
        /\ \A i \in 1 .. Len(next) : next[i] # "filter"
    BY ConnectIs
  <2> HIDE DEF value, next
  <2>7. packet' \in Packet /\ SentSound' /\ ReceiveSound' /\ ParseSound'
    BY <1>1, <1>5, <2>3, <2>4, <2>5, FieldInv DEF value
  <2>8. packet' = packet
    BY <1>5 DEF Field
  <2> QED
    BY <1>2, <2>7, <2>8, OtherInv
<1> QED
  BY <1>3, <1>4, <1>5

LEMMA PlainField ==
    ASSUME CodecInv, verdict = None, buf # None, want # <<>>, Head(want) \notin EndFields,
           NEW value \in Values, NEW n \in Nat, Field(value, n, <<>>),
           pos + n <= Len(buf), Encoded(<<Head(want), value>>) = SubSeq(buf, pos + 1, pos + n)
    PROVE  packet' \in Packet /\ SentSound' /\ ReceiveSound' /\ ParseSound'
<1>1. PICK next : next = <<>>
  OBVIOUS
<1>2. next \in Seq(Names) /\ Len(next) = 0 /\ \A i \in 1 .. Len(next) : next[i] # "filter"
  BY <1>1
<1>3. Field(value, n, next)
  BY <1>1
<1> QED
  BY <1>1, <1>2, <1>3, FieldInv

LEMMA ReadBlobInv ==
    ASSUME CodecInv, ReadBlob
    PROVE  CodecInv'
<1>1. verdict = None /\ buf # None /\ want # <<>> /\ Head(want) = "willpayload"
  BY DEF ReadBlob, Reads
<1>2. sent = None /\ packet.type # "publish"
  BY <1>1, OtherField
<1>3. buf \in Seq(Byte) /\ pos \in Nat /\ Len(buf) \in Nat
  BY <1>1 DEF CodecInv, ParseSound
<1> DEFINE n == U16(buf, pos + 1)
           value == SubSeq(buf, pos + 3, pos + 2 + n)
<1>4. \/ Verdict("bad")
      \/ ~(pos + 2 > Len(buf)) /\ ~(pos + 2 + n > Len(buf)) /\ Field(value, 2 + n, <<>>)
  BY DEF ReadBlob
<1>5. CASE Verdict("bad")
  BY <1>2, <1>5, RefuseInv
<1>6. CASE ~(pos + 2 > Len(buf)) /\ ~(pos + 2 + n > Len(buf)) /\ Field(value, 2 + n, <<>>)
  <2>1. pos + 2 <= Len(buf)
    BY <1>3, <1>6
  <2>2. n \in Nat
    <3>1. pos + 1 \in Nat \ {0} /\ (pos + 1) + 1 <= Len(buf)
      BY <1>3, <2>1
    <3> QED
      BY <1>3, <3>1, ReadWrite
  <2>3. PICK k \in Nat : k = n
    BY <2>2
  <2>4. pos + 2 + k <= Len(buf)
    <3> HIDE DEF n
    <3> QED
      BY <1>3, <1>6, <2>3
  <2>5. value \in Seq(Byte) /\ Len(value) = k /\ \A i \in 1 .. k : value[i] = buf[pos + 2 + i]
    <3>1. value = SubSeq(buf, (pos + 2) + 1, (pos + 2) + k)
      <4>1. pos + 3 = (pos + 2) + 1
        BY <1>3
      <4> QED
        BY <2>3, <4>1
    <3> HIDE DEF value
    <3>2. pos + 2 \in Nat
      BY <1>3
    <3> QED
      BY <1>3, <2>4, <3>1, <3>2, Piece
  <2> HIDE DEF value
  <2>6. WriteStr(value) = SubSeq(buf, pos + 1, pos + (2 + k))
    <3>1. k = U16(buf, pos + 1)
      BY <2>3
    <3>2. /\ buf \in Seq(Byte) /\ pos \in Nat /\ k \in Nat
          /\ pos + 2 + k <= Len(buf) /\ k = U16(buf, pos + 1)
          /\ value \in Seq(Byte) /\ Len(value) = k /\ \A i \in 1 .. k : value[i] = buf[pos + 2 + i]
      BY <1>3, <2>4, <2>5, <3>1
    <3> HIDE DEF n
    <3>3. StringAt(buf, pos, k, value)
      BY <3>2 DEF StringAt
    <3> QED
      BY ONLY <3>3, StringRead
  <2>7. value \in Values /\ 2 + k \in Nat /\ Field(value, 2 + k, <<>>) /\ pos + (2 + k) <= Len(buf)
    BY <1>3, <1>6, <2>3, <2>4, <2>5 DEF Values
  <2>8. Encoded(<<Head(want), value>>) = SubSeq(buf, pos + 1, pos + (2 + k)) /\ Head(want) \notin EndFields
    BY <1>1, <2>6 DEF Encoded, EndFields
  <2>9. packet' \in Packet /\ SentSound' /\ ReceiveSound' /\ ParseSound'
    BY <1>1, <2>7, <2>8, PlainField
  <2>10. packet' = packet
    BY <1>6 DEF Field
  <2> QED
    BY <1>2, <2>9, <2>10, OtherInv
<1> QED
  BY <1>4, <1>5, <1>6

LEMMA ReadQosInv ==
    ASSUME CodecInv, ReadQos
    PROVE  CodecInv'
<1>1. verdict = None /\ buf # None /\ want # <<>> /\ Head(want) = "qos"
  BY DEF ReadQos, Reads
<1>2. sent = None /\ packet.type # "publish"
  BY <1>1, OtherField
<1>3. buf \in Seq(Byte) /\ pos \in Nat /\ Len(buf) \in Nat
  BY <1>1 DEF CodecInv, ParseSound
<1> DEFINE q == At8(buf, pos + 1)
<1>4. Verdict("bad") \/ (~(pos >= Len(buf)) /\ Field(q, 1, <<>>))
  BY DEF ReadQos
<1>5. CASE Verdict("bad")
  BY <1>2, <1>5, RefuseInv
<1>6. CASE ~(pos >= Len(buf)) /\ Field(q, 1, <<>>)
  <2>1. pos + 1 \in 1 .. Len(buf) /\ pos + 1 <= Len(buf) /\ 1 \in Nat
    BY <1>3, <1>6
  <2>2. q = buf[pos + 1] /\ q \in Byte
    BY <1>3, <2>1, ElementOfSeq DEF At8
  <2>3. q \in Values
    BY <2>2, HalfIs DEF Byte, Values
  <2>4. <<q>> = SubSeq(buf, pos + 1, pos + 1)
    <3>1. pos + 1 \in pos + 1 .. Len(buf)
      BY <1>3, <2>1
    <3>2. SubSeq(buf, pos + 1, pos + 1) = <<buf[pos + 1]>> \o SubSeq(buf, (pos + 1) + 1, pos + 1)
      BY <1>3, <2>1, <3>1, SubSeqRecursiveFirst
    <3>3. SubSeq(buf, (pos + 1) + 1, pos + 1) = <<>>
      BY <1>3, SubSeqEmpty
    <3>4. <<q>> \in Seq(Byte)
      BY <2>2
    <3> QED
      BY <2>2, <3>2, <3>3, <3>4, ConcatEmptySeq
  <2>5. Encoded(<<Head(want), q>>) = SubSeq(buf, pos + 1, pos + 1) /\ Head(want) \notin EndFields
    BY <1>1, <2>4 DEF Encoded, EndFields
  <2> HIDE DEF q
  <2>6. packet' \in Packet /\ SentSound' /\ ReceiveSound' /\ ParseSound'
    BY <1>1, <1>6, <2>1, <2>3, <2>5, PlainField
  <2>7. packet' = packet
    BY <1>6 DEF Field
  <2> QED
    BY <1>2, <2>6, <2>7, OtherInv
<1> QED
  BY <1>4, <1>5, <1>6

(* The fields that follow are known. *)
LEMMA WantInv ==
    ASSUME CodecInv, verdict = None, buf # None, packet.type # "publish",
           NEW w, WantIn(w), want' = w, w = <<>> => pos = Len(buf),
           w # <<>> => Head(w) # "filter" \/ Count < TOPICS_MAX,
           UNCHANGED <<packet, at, rlen, mult, buf, pos, got, verdict, sent>>
    PROVE  CodecInv'
<1>1. packet' \in Packet /\ SentSound'
  BY DEF CodecInv, SentSound
<1>2. ReceiveSound'
  BY DEF ReceiveSound
<1>3. ParseSound'
  <2>1. Count' = Count
    BY DEF Count
  <2>2. WantSound'
    BY <2>1 DEF WantSound, WantIn, Reads
  <2>3. AllOf(got)' = AllOf(got)
    OBVIOUS
  <2> QED
    BY <2>1, <2>2, <2>3, NotNone DEF CodecInv, ParseSound
<1> QED
  BY <1>1, <1>2, <1>3, OtherInv

LEMMA NextTopicInv ==
    ASSUME CodecInv, NextTopic
    PROVE  CodecInv'
<1>1. verdict = None /\ buf # None /\ want # <<>> /\ Head(want) = "topics"
  BY DEF NextTopic, Reads
<1>2. sent = None /\ packet.type # "publish"
  BY <1>1, OtherField
<1>3. pos \in 0 .. Len(buf) /\ Len(buf) \in Nat /\ Count \in Nat
  <2>1. pos \in 0 .. Len(buf) /\ buf \in Seq(Byte) /\ got \in Seq(Names \X Values)
    BY <1>1 DEF CodecInv, ParseSound
  <2>2. PICK x : x \in Names \X Values
    <3>1. <<"qos", 0>> \in Names \X Values
      BY DEF Names, Values
    <3> QED
      BY <3>1
  <2>3. Count \in Nat
    BY <2>1, <2>2, CountAppend DEF Count, CountOf
  <2> QED
    BY <2>1, <2>3
<1>4. \/ Verdict("bad")
      \/ /\ pos < Len(buf) => Count < TOPICS_MAX
         /\ want' = IF pos >= Len(buf) THEN <<>>
                    ELSE IF packet.type = "subscribe" THEN <<"filter", "qos", "topics">>
                    ELSE <<"filter", "topics">>
         /\ UNCHANGED <<packet, at, rlen, mult, buf, pos, got, verdict, sent>>
  <2> HIDE DEF Count
  <2> QED
    BY <1>3, HalfIs DEF NextTopic
<1>5. CASE Verdict("bad")
  BY <1>2, <1>5, RefuseInv
<1>6. CASE /\ pos < Len(buf) => Count < TOPICS_MAX
           /\ want' = IF pos >= Len(buf) THEN <<>>
                      ELSE IF packet.type = "subscribe" THEN <<"filter", "qos", "topics">>
                      ELSE <<"filter", "topics">>
           /\ UNCHANGED <<packet, at, rlen, mult, buf, pos, got, verdict, sent>>
  <2>1. CASE pos >= Len(buf)
    <3>1. want' = <<>>
      BY <1>6, <2>1
    <3>2. WantIn(<<>>)
      BY DEF WantIn
    <3>3. pos = Len(buf)
      BY <1>3, <2>1
    <3> QED
      BY <1>1, <1>2, <1>6, <3>1, <3>2, <3>3, WantInv
  <2>2. CASE ~(pos >= Len(buf)) /\ packet.type = "subscribe"
    <3>1. want' = <<"filter", "qos", "topics">>
      BY <1>6, <2>2
    <3>2. WantIn(<<"filter", "qos", "topics">>) /\ <<"filter", "qos", "topics">> # <<>>
      BY DEF WantIn, Names, EndFields
    <3>3. Count < TOPICS_MAX
      BY <1>3, <1>6, <2>2
    <3> QED
      BY <1>1, <1>2, <1>6, <3>1, <3>2, <3>3, WantInv
  <2>3. CASE ~(pos >= Len(buf)) /\ packet.type # "subscribe"
    <3>1. want' = <<"filter", "topics">>
      BY <1>6, <2>3
    <3>2. WantIn(<<"filter", "topics">>) /\ <<"filter", "topics">> # <<>>
      BY DEF WantIn, Names, EndFields
    <3>3. Count < TOPICS_MAX
      BY <1>3, <1>6, <2>3
    <3> QED
      BY <1>1, <1>2, <1>6, <3>1, <3>2, <3>3, WantInv
  <2> QED
    BY <2>1, <2>2, <2>3
<1> QED
  BY <1>4, <1>5, <1>6

LEMMA EndInv ==
    ASSUME CodecInv, End
    PROVE  CodecInv'
<1>1. verdict = None /\ buf # None /\ want # <<>> /\ Head(want) = "end"
  BY DEF End, Reads
<1>2. sent = None /\ packet.type # "publish"
  BY <1>1, OtherField
<1>3. \/ Verdict("bad")
      \/ /\ pos = Len(buf) /\ want' = <<>>
         /\ UNCHANGED <<packet, at, rlen, mult, buf, pos, got, verdict, sent>>
  BY DEF End
<1>4. CASE Verdict("bad")
  BY <1>2, <1>4, RefuseInv
<1>5. CASE /\ pos = Len(buf) /\ want' = <<>>
           /\ UNCHANGED <<packet, at, rlen, mult, buf, pos, got, verdict, sent>>
  <2>1. WantIn(<<>>)
    BY DEF WantIn
  <2> QED
    BY <1>1, <1>2, <1>5, <2>1, WantInv
<1> QED
  BY <1>3, <1>4, <1>5

(* A message that was built is what is in the body. *)
LEMMA SentFacts ==
    ASSUME CodecInv, buf # None, sent # None
    PROVE  /\ BodyParts(sent, buf) /\ buf = Body(sent) /\ Relayable(sent) /\ verdict \in {None, "ok"}
           /\ packet.type = "publish" /\ packet.qos = sent.qos /\ packet.flags = sent.flags
<1>1. /\ packet.type = "publish" /\ Relayable(sent)
      /\ \E k \in 1 .. 3 : BuiltParts(sent, packet, Len(Body(sent)), k)
  BY SentIs
<1>2. packet.qos = sent.qos /\ packet.flags = sent.flags
  BY <1>1 DEF BuiltParts
<1>3. buf = Body(sent) /\ verdict \in {None, "ok"}
  BY DEF CodecInv, ParseSound
<1>4. BodyParts(sent, Body(sent))
  BY <1>1, RelayableBody
<1> QED
  BY <1>1, <1>2, <1>3, <1>4

LEMMA Tails ==
    /\ <<>> \o Tail(<<"topic", "pid", "payload">>) = <<"pid", "payload">>
    /\ <<>> \o Tail(<<"topic", "payload">>) = <<"payload">>
    /\ <<>> \o Tail(<<"pid", "payload">>) = <<"payload">>
    /\ <<>> \o Tail(<<"payload">>) = <<>>
<1>1. /\ Tail(<<"topic", "pid", "payload">>) = <<"pid", "payload">>
      /\ Tail(<<"topic", "payload">>) = <<"payload">>
      /\ Tail(<<"pid", "payload">>) = <<"payload">>
      /\ Tail(<<"payload">>) = <<>>
  OBVIOUS
<1>2. <<"pid", "payload">> \in Seq(Names) /\ <<"payload">> \in Seq(Names) /\ <<>> \in Seq(Names)
  BY DEF Names
<1>3. \A s \in Seq(Names) : <<>> \o s = s
  BY ConcatEmptySeq
<1> QED
  BY <1>1, <1>2, <1>3

LEMMA Appends ==
    ASSUME NEW a, NEW b, NEW c
    PROVE  /\ Append(<<>>, a) = <<a>> /\ Append(<<a>>, b) = <<a, b>>
           /\ Append(<<a, b>>, c) = <<a, b, c>>
<1> DEFINE S == {a, b, c}
<1>1. /\ <<>> \in Seq(S) /\ <<a>> \in Seq(S) /\ <<a, b>> \in Seq(S) /\ <<a, b, c>> \in Seq(S)
      /\ a \in S /\ b \in S /\ c \in S
  OBVIOUS
<1> HIDE DEF S
<1>2. Append(<<>>, a) = <<a>>
  <2>1. /\ Append(<<>>, a) \in Seq(S) /\ Len(Append(<<>>, a)) = 1 /\ Append(<<>>, a)[1] = a
    BY <1>1, AppendProperties
  <2> QED
    BY <1>1, <2>1, SeqEqual
<1>3. Append(<<a>>, b) = <<a, b>>
  <2> DEFINE y == Append(<<a>>, b)
             z == <<a, b>>
  <2>1. y \in Seq(S) /\ Len(y) = 2 /\ y[1] = a /\ y[2] = b
    BY <1>1, AppendProperties
  <2>2. z \in Seq(S) /\ Len(z) = 2 /\ z[1] = a /\ z[2] = b
    BY <1>1
  <2> HIDE DEF y, z
  <2>3. \A i \in 1 .. 2 : y[i] = z[i]
    <3>1. \A i \in 1 .. 2 : i = 1 \/ i = 2
      OBVIOUS
    <3> QED
      BY <2>1, <2>2, <3>1
  <2>4. y = z
    BY <2>1, <2>2, <2>3, SeqEqual
  <2> QED
    BY <2>4 DEF y, z
<1>4. Append(<<a, b>>, c) = <<a, b, c>>
  <2> DEFINE y == Append(<<a, b>>, c)
             z == <<a, b, c>>
  <2>1. y \in Seq(S) /\ Len(y) = 3 /\ y[1] = a /\ y[2] = b /\ y[3] = c
    BY <1>1, AppendProperties
  <2>2. z \in Seq(S) /\ Len(z) = 3 /\ z[1] = a /\ z[2] = b /\ z[3] = c
    BY <1>1
  <2> HIDE DEF y, z
  <2>3. \A i \in 1 .. 3 : y[i] = z[i]
    <3>1. \A i \in 1 .. 3 : i = 1 \/ i = 2 \/ i = 3
      OBVIOUS
    <3> QED
      BY <2>1, <2>2, <3>1
  <2>4. y = z
    BY <2>1, <2>2, <2>3, SeqEqual
  <2> QED
    BY <2>4 DEF y, z
<1> QED
  BY <1>2, <1>3, <1>4

(* The stages in which a field of a PUBLISH is read. *)
LEMMA StageOf ==
    ASSUME CodecInv, buf # None, want # <<>>, packet.type = "publish"
    PROVE  /\ packet.qos \in 0 .. 2
           /\ FirstFields = IF packet.qos > 0 THEN <<"topic", "pid", "payload">> ELSE <<"topic", "payload">>
           /\ Head(want) = "topic" => BeforeTopic
           /\ Head(want) = "pid" => BeforePid
           /\ Head(want) = "payload" => BeforePayload
<1>1. PublishAt /\ packet \in Packet /\ packet.qos \in 0 .. 2
  BY DEF CodecInv, PublishSound
<1>2. FirstFields = IF packet.qos > 0 THEN <<"topic", "pid", "payload">> ELSE <<"topic", "payload">>
  BY <1>1, FirstFieldsIs
<1>3. /\ BeforeTopic => Head(want) = "topic"
      /\ BeforePid => Head(want) = "pid"
      /\ BeforePayload => Head(want) = "payload"
      /\ ~AllRead
  BY <1>2 DEF BeforeTopic, BeforePid, BeforePayload, AllRead
<1> QED
  BY <1>1, <1>2, <1>3 DEF PublishAt

LEMMA ReadStrInv ==
    ASSUME CodecInv, ReadStr
    PROVE  CodecInv'
<1> DEFINE n == U16(buf, pos + 1)
           s == [i \in 1 .. n |-> At8(buf, pos + 2 + i)]
           Str == {"proto", "id", "willtopic", "user", "password", "topic", "filter"}
           Refused == \/ pos + 2 > Len(buf) \/ ~StrFits(n)
                      \/ \E i \in 1 .. n : s[i] = 0
                      \/ Head(want) = "proto" /\ s # Proto
<1>1. verdict = None /\ buf # None /\ want # <<>> /\ Head(want) \in Str
  BY DEF ReadStr, Reads
<1>2. buf \in Seq(Byte) /\ pos \in Nat /\ Len(buf) \in Nat
  BY <1>1 DEF CodecInv, ParseSound
<1>3. (Refused /\ Verdict("bad")) \/ (~Refused /\ Field(s, 2 + n, <<>>))
  BY DEF ReadStr
<1>4. CASE Refused /\ Verdict("bad")
  <2>1. CASE sent = None
    BY <1>4, <2>1, RefuseInv
  <2>2. CASE sent # None
    <3>1. /\ BodyParts(sent, buf) /\ Relayable(sent) /\ packet.type = "publish"
      BY <1>1, <2>2, SentFacts
    <3>2. Head(want) = "topic" /\ pos = 0
      <4>1. Head(want) = "topic"
        BY <1>1, <3>1, PublishHead
      <4> QED
        BY <1>1, <3>1, <4>1, StageOf DEF BeforeTopic
    <3>3. PICK k \in Nat : k = Len(sent.topic) /\ k < STR_MAX
      BY <3>1 DEF Relayable, Word
    <3>4. n = k
      BY <3>1, <3>2, <3>3 DEF BodyParts
    <3>5. 2 + k <= Len(buf)
      <4>1. Len(buf) = ((2 + Len(sent.topic)) + (IF sent.qos > 0 THEN 2 ELSE 0)) + Len(sent.payload)
        BY <3>1, PartsLength
      <4>2. PICK w \in Nat, l \in Nat : w = (IF sent.qos > 0 THEN 2 ELSE 0) /\ l = Len(sent.payload)
        <5>1. (IF sent.qos > 0 THEN 2 ELSE 0) \in Nat /\ Len(sent.payload) \in Nat
          BY <3>1 DEF Relayable
        <5> QED
          BY <5>1
      <4>3. Len(buf) = ((2 + k) + w) + l
        BY <3>3, <4>1, <4>2
      <4> QED
        BY <1>2, <4>3
    <3> HIDE DEF n
    <3>6. ~(pos + 2 > Len(buf)) /\ StrFits(n)
      BY <1>2, <3>2, <3>3, <3>4, <3>5, HalfIs DEF StrFits
    <3>7. \A i \in 1 .. n : s[i] # 0
      <4> TAKE i \in 1 .. n
      <4>1. 2 + i \in 1 .. Len(buf) /\ pos + 2 + i = 2 + i /\ i \in 1 .. k
        BY <1>2, <3>2, <3>4, <3>5
      <4>2. s[i] = buf[2 + i]
        BY <4>1 DEF At8
      <4>3. buf[2 + i] = sent.topic[i]
        BY <3>1, <3>3, <4>1 DEF BodyParts
      <4>4. sent.topic[i] # 0
        BY <3>1, <3>3, <4>1 DEF Relayable
      <4> QED
        BY <4>2, <4>3, <4>4
    <3> HIDE DEF s
    <3> QED
      BY <1>4, <3>2, <3>6, <3>7
  <2> QED
    BY <2>1, <2>2
<1>5. CASE ~Refused /\ Field(s, 2 + n, <<>>)
  <2>1. pos + 2 <= Len(buf)
    <3> HIDE DEF n, s
    <3> QED
      BY <1>2, <1>5
  <2>2. PICK k \in Nat : k = n
    <3>1. pos + 1 \in Nat \ {0} /\ (pos + 1) + 1 <= Len(buf)
      BY <1>2, <2>1
    <3> QED
      BY <1>2, <3>1, ReadWrite
  <2>3. pos + 2 + k <= Len(buf) /\ k < STR_MAX
    BY <1>5, <2>2 DEF StrFits
  <2>4. /\ n \in Word /\ s \in Seq(Byte) /\ Len(s) = n
        /\ \A i \in 1 .. n : s[i] = buf[pos + 2 + i]
        /\ WriteStr(s) = SubSeq(buf, pos + 1, pos + (2 + n))
    BY <1>2, <2>1, <2>2, <2>3, StrIs
  <2>5. \A i \in 1 .. n : s[i] # 0
    BY <1>5
  <2> HIDE DEF s, n
  <2>6. s \in Values /\ 2 + n \in Nat /\ pos + (2 + n) <= Len(buf)
    BY <1>2, <2>2, <2>3, <2>4 DEF Values
  <2>7. Encoded(<<Head(want), s>>) = SubSeq(buf, pos + 1, pos + (2 + n)) /\ Head(want) \notin EndFields
    BY <1>1, <2>4 DEF Encoded, EndFields
  <2>8. packet' \in Packet /\ SentSound' /\ ReceiveSound' /\ ParseSound'
    BY <1>1, <1>5, <2>6, <2>7, PlainField
  <2>9. /\ got' = Append(got, <<Head(want), s>>) /\ pos' = pos + (2 + n) /\ want' = <<>> \o Tail(want)
        /\ packet' = packet /\ sent' = sent /\ buf' = buf
    BY <1>5 DEF Field
  <2>10. CASE packet.type # "publish"
    BY <2>8, <2>9, <2>10, OtherInv
  <2>11. CASE packet.type = "publish"
    <3>1. Head(want) = "topic"
      BY <1>1, <2>11, PublishHead
    <3>2. /\ packet.qos \in 0 .. 2 /\ got = <<>> /\ pos = 0
          /\ want = IF packet.qos > 0 THEN <<"topic", "pid", "payload">> ELSE <<"topic", "payload">>
      BY <1>1, <2>11, <3>1, StageOf DEF BeforeTopic
    <3>3. PICK t \in Seq(Byte) : t = s /\ Len(t) = k
      BY <2>2, <2>4
    <3>4. got' = <<<<"topic", t>>>>
      <4>1. Append(<<>>, <<"topic", t>>) = <<<<"topic", t>>>>
        BY Appends
      <4> QED
        BY <2>9, <3>1, <3>2, <3>3, <4>1
    <3>5. pos' = 2 + Len(t)
      BY <2>2, <2>9, <3>2, <3>3
    <3>6. want' = IF packet.qos > 0 THEN <<"pid", "payload">> ELSE <<"payload">>
      BY <2>9, <3>2, Tails
    <3>7. sent # None => t = sent.topic
      <4> SUFFICES ASSUME sent # None PROVE t = sent.topic
        OBVIOUS
      <4>1. BodyParts(sent, buf) /\ Relayable(sent)
        BY <1>1, SentFacts
      <4>2. sent.topic \in Seq(Byte)
        BY <4>1 DEF Relayable
      <4>3. U16(buf, 1) = Len(sent.topic) /\ \A i \in 1 .. Len(sent.topic) : buf[2 + i] = sent.topic[i]
        BY <4>1, Zenon DEF BodyParts
      <4>4. k = Len(sent.topic)
        <5>1. n = U16(buf, 1)
          BY <3>2 DEF n
        <5> QED
          BY <2>2, <4>3, <5>1
      <4>5. ASSUME NEW i \in 1 .. k PROVE t[i] = sent.topic[i]
        <5>1. pos + 2 + i = 2 + i
          BY <2>2, <3>2
        <5> QED
          BY <2>2, <2>4, <3>3, <4>3, <4>4, <5>1
      <4> QED
        BY <3>3, <4>2, <4>4, <4>5, SeqEqual
    <3>8. TopicValue(t)'
      BY <2>2, <2>3, <2>4, <2>5, <2>9, <3>3, <3>7 DEF TopicValue
    <3>9. PublishAt'
      <4>1. CASE packet.qos > 0
        <5>1. packet'.qos > 0 /\ want' = <<"pid", "payload">>
          BY <2>9, <3>6, <4>1
        <5>2. BeforePid'
          BY <3>4, <3>5, <3>8, <5>1 DEF BeforePid
        <5> QED
          BY <5>2 DEF PublishAt
      <4>2. CASE ~(packet.qos > 0)
        <5>1. packet'.qos = 0 /\ want' = <<"payload">>
          BY <2>9, <3>2, <3>6, <4>2
        <5>2. BeforePayload'
          BY <3>4, <3>5, <3>8, <5>1 DEF BeforePayload
        <5> QED
          BY <5>2 DEF PublishAt
      <4> QED
        BY <4>1, <4>2
    <3>10. PublishSound'
      BY <2>9, <3>2, <3>9 DEF PublishSound
    <3> QED
      BY <2>8, <3>10 DEF CodecInv
  <2> QED
    BY <2>10, <2>11
<1> QED
  BY <1>3, <1>4, <1>5

(* A number that was read. *)
LEMMA PidIs ==
    ASSUME NEW b \in Seq(Byte), NEW p \in Nat, p + 2 <= Len(b)
    PROVE  U16(b, p + 1) \in Word /\ WriteU16(U16(b, p + 1)) = SubSeq(b, p + 1, p + 2)
<1>1. Len(b) \in Nat /\ p + 1 \in Nat \ {0} /\ (p + 1) + 1 <= Len(b) /\ (p + 1) + 1 = p + 2
  BY LenProperties
<1>2. U16(b, p + 1) \in Word /\ WriteU16(U16(b, p + 1)) = <<b[p + 1], b[p + 2]>>
  BY <1>1, ReadWrite
<1>3. b[p + 1] \in Byte /\ b[p + 2] \in Byte
  <2>1. p + 1 \in 1 .. Len(b) /\ p + 2 \in 1 .. Len(b)
    BY <1>1
  <2> QED
    BY <2>1, ElementOfSeq
<1> DEFINE y == SubSeq(b, p + 1, p + 2)
           z == <<b[p + 1], b[p + 2]>>
<1>4. y \in Seq(Byte) /\ Len(y) = 2 /\ \A i \in 1 .. 2 : y[i] = b[p + i]
  <2>1. 2 \in Nat
    OBVIOUS
  <2> QED
    BY <2>1, Piece
<1>5. z \in Seq(Byte) /\ Len(z) = 2 /\ z[1] = b[p + 1] /\ z[2] = b[p + 2]
  BY <1>3
<1> HIDE DEF y, z
<1>6. \A i \in 1 .. 2 : y[i] = z[i]
  <2>1. \A i \in 1 .. 2 : i = 1 \/ i = 2
    OBVIOUS
  <2> QED
    BY <1>4, <1>5, <2>1
<1>7. y = z
  BY <1>4, <1>5, <1>6, SeqEqual
<1> QED
  BY <1>2, <1>7 DEF y, z

(* The length of a body that was built. *)
LEMMA SentLength ==
    ASSUME NEW m, NEW b, Relayable(m), BodyParts(m, b)
    PROVE  \E t, l, n \in Nat :
              /\ t = Len(m.topic) /\ l = Len(m.payload) /\ n = Len(b) /\ l <= PAYLOAD_MAX
              /\ m.qos > 0 => n = (4 + t) + l
              /\ ~(m.qos > 0) => n = (2 + t) + l
<1>1. PICK t \in Nat, l \in Nat : t = Len(m.topic) /\ l = Len(m.payload) /\ l <= PAYLOAD_MAX
  BY DEF Relayable
<1>2. Len(b) \in Nat /\ Len(b) = ((2 + Len(m.topic)) + (IF m.qos > 0 THEN 2 ELSE 0)) + Len(m.payload)
  BY PartsLength
<1>3. Len(b) = ((2 + t) + (IF m.qos > 0 THEN 2 ELSE 0)) + l
  BY <1>1, <1>2
<1>4. m.qos > 0 => Len(b) = (4 + t) + l
  BY <1>3
<1>5. ~(m.qos > 0) => Len(b) = (2 + t) + l
  BY <1>3
<1> QED
  BY <1>1, <1>2, <1>4, <1>5

LEMMA ReadPidInv ==
    ASSUME CodecInv, ReadPid
    PROVE  CodecInv'
<1> DEFINE id == U16(buf, pos + 1)
           Refused == pos + 2 > Len(buf) \/ id = 0
<1>1. verdict = None /\ buf # None /\ want # <<>> /\ Head(want) = "pid"
  BY DEF ReadPid, Reads
<1>2. buf \in Seq(Byte) /\ pos \in Nat /\ Len(buf) \in Nat
  BY <1>1 DEF CodecInv, ParseSound
<1>3. (Refused /\ Verdict("bad")) \/ (~Refused /\ Field(id, 2, <<>>))
  BY DEF ReadPid
<1>4. ASSUME sent # None
      PROVE  pos + 2 <= Len(buf) /\ id = sent.pid /\ id # 0
  <2>1. BodyParts(sent, buf) /\ Relayable(sent) /\ packet.type = "publish" /\ packet.qos = sent.qos
    BY <1>1, <1>4, SentFacts
  <2>2. BeforePid
    BY <1>1, <2>1, StageOf
  <2>3. PICK t \in Nat, l \in Nat, n \in Nat :
              /\ t = Len(sent.topic) /\ l = Len(sent.payload) /\ n = Len(buf) /\ l <= PAYLOAD_MAX
              /\ sent.qos > 0 => n = (4 + t) + l
              /\ ~(sent.qos > 0) => n = (2 + t) + l
    BY <2>1, SentLength
  <2>4. pos = 2 + t /\ sent.qos > 0
    BY <1>4, <2>1, <2>2, <2>3 DEF BeforePid, TopicValue
  <2>5. pos + 2 <= Len(buf)
    <3>1. n = (4 + t) + l /\ pos = 2 + t
      BY <2>3, <2>4
    <3>2. pos + 2 <= n
      BY <3>1
    <3> QED
      BY <2>3, <3>2
  <2>6. U16(buf, 3 + Len(sent.topic)) = sent.pid
    BY <2>1, <2>4, Zenon DEF BodyParts
  <2>7. pos + 1 = 3 + Len(sent.topic)
    BY <2>3, <2>4
  <2>8. sent.pid # 0
    BY <2>1, <2>4 DEF Relayable
  <2> QED
    BY <2>5, <2>6, <2>7, <2>8
<1>5. CASE Refused /\ Verdict("bad")
  <2>1. sent = None
    BY <1>2, <1>4, <1>5
  <2> QED
    BY <1>5, <2>1, RefuseInv
<1>6. CASE ~Refused /\ Field(id, 2, <<>>)
  <2>1. pos + 2 <= Len(buf) /\ 2 \in Nat /\ id # 0
    BY <1>2, <1>6
  <2>2. PICK i \in Word : i = id /\ WriteU16(i) = SubSeq(buf, pos + 1, pos + 2)
    BY <1>2, <2>1, PidIs
  <2> HIDE DEF id
  <2>3. i \in Values /\ Field(i, 2, <<>>)
    BY <1>6, <2>2 DEF Word, Values
  <2>4. Encoded(<<Head(want), i>>) = SubSeq(buf, pos + 1, pos + 2) /\ Head(want) \notin EndFields
    BY <1>1, <2>2 DEF Encoded, EndFields
  <2>5. packet' \in Packet /\ SentSound' /\ ReceiveSound' /\ ParseSound'
    BY <1>1, <2>1, <2>3, <2>4, PlainField
  <2>6. /\ got' = Append(got, <<"pid", i>>) /\ pos' = pos + 2 /\ want' = <<>> \o Tail(want)
        /\ packet' = packet /\ sent' = sent
    BY <1>1, <2>3 DEF Field
  <2>7. CASE packet.type # "publish"
    BY <2>5, <2>6, <2>7, OtherInv
  <2>8. CASE packet.type = "publish"
    <3>1. packet.qos \in 0 .. 2 /\ BeforePid
      BY <1>1, <2>8, StageOf
    <3>2. PICK t \in Seq(Byte) :
              /\ TopicValue(t) /\ packet.qos > 0
              /\ want = <<"pid", "payload">> /\ got = <<<<"topic", t>>>> /\ pos = 2 + Len(t)
      BY <3>1 DEF BeforePid
    <3>3. want' = <<"payload">>
      BY <2>6, <3>2, Tails
    <3>4. got' = <<<<"topic", t>>, <<"pid", i>>>>
      BY <2>6, <3>2, Appends
    <3>5. pos' = 4 + Len(t)
      BY <2>6, <3>2, LenProperties
    <3>6. TopicValue(t)' /\ PidValue(i)'
      BY <1>4, <2>1, <2>2, <2>6, <3>2 DEF TopicValue, PidValue
    <3>7. BeforePayload'
      BY <2>6, <3>2, <3>3, <3>4, <3>5, <3>6 DEF BeforePayload
    <3>8. PublishSound'
      BY <2>6, <3>1, <3>7 DEF PublishSound, PublishAt
    <3> QED
      BY <2>5, <3>8 DEF CodecInv
  <2> QED
    BY <2>7, <2>8
<1> QED
  BY <1>3, <1>5, <1>6

LEMMA AcceptPacketInv ==
    ASSUME CodecInv, AcceptPacket
    PROVE  CodecInv'
<1>1. /\ buf # None /\ want = <<>> /\ verdict' = "ok"
      /\ UNCHANGED <<packet, at, rlen, mult, buf, pos, want, got, sent>>
  BY DEF AcceptPacket, Verdict
<1>2. packet' \in Packet /\ SentSound' /\ ReceiveSound'
  BY <1>1 DEF CodecInv, SentSound, ReceiveSound
<1>3. ParseSound'
  <2>1. ~Reads({"filter"})' /\ Count' = Count
    BY <1>1 DEF Reads, Count
  <2>2. ParseSound
    BY DEF CodecInv
  <2> QED
    BY <1>1, <2>1, <2>2 DEF ParseSound, WantSound
<1>4. PublishSound'
  BY <1>1 DEF CodecInv, PublishSound, PublishAt, BeforeTopic, BeforePid, BeforePayload, AllRead,
              TopicValue, PidValue, PayloadValue, FirstFields
<1> QED
  BY <1>2, <1>3, <1>4 DEF CodecInv

LEMMA ReadPayloadInv ==
    ASSUME CodecInv, ReadPayload
    PROVE  CodecInv'
<1>1. verdict = None /\ buf # None /\ want # <<>> /\ Head(want) = "payload"
  BY DEF ReadPayload, Reads
<1>2. buf \in Seq(Byte) /\ pos \in Nat /\ Len(buf) \in Nat /\ pos <= Len(buf)
  BY <1>1 DEF CodecInv, ParseSound
<1>3. PICK n \in Nat : n = Len(buf) - pos /\ pos + n = Len(buf)
  BY <1>2
<1>4. \/ n > PAYLOAD_MAX /\ Verdict("bad")
      \/ ~(n > PAYLOAD_MAX) /\ Field(SubSeq(buf, pos + 1, pos + n), n, <<>>)
  BY <1>3 DEF ReadPayload
<1>5. ASSUME sent # None
      PROVE  ~(n > PAYLOAD_MAX) /\ n = Len(sent.payload) /\ \A i \in 1 .. n : buf[pos + i] = sent.payload[i]
  <2>1. BodyParts(sent, buf) /\ Relayable(sent) /\ packet.type = "publish" /\ packet.qos = sent.qos
    BY <1>1, <1>5, SentFacts
  <2>2. BeforePayload /\ packet.qos \in 0 .. 2
    BY <1>1, <2>1, StageOf
  <2>3. PICK t \in Nat, l \in Nat, k \in Nat :
              /\ t = Len(sent.topic) /\ l = Len(sent.payload) /\ k = Len(buf) /\ l <= PAYLOAD_MAX
              /\ sent.qos > 0 => k = (4 + t) + l
              /\ ~(sent.qos > 0) => k = (2 + t) + l
    BY <2>1, SentLength
  <2>4. \/ pos = 2 + t /\ sent.qos = 0
        \/ pos = 4 + t /\ sent.qos > 0
    BY <1>5, <2>1, <2>2, <2>3 DEF BeforePayload, TopicValue
  <2> DEFINE w == IF sent.qos > 0 THEN 2 ELSE 0
  <2>5. /\ w \in Nat /\ pos = (2 + t) + w /\ k = pos + l
        /\ w = IF sent.qos > 0 THEN 2 ELSE 0
    <3>1. CASE pos = 2 + t /\ sent.qos = 0
      <4>1. ~(sent.qos > 0)
        BY <3>1
      <4>2. w = 0 /\ k = (2 + t) + l
        BY <2>3, <4>1
      <4> QED
        BY <3>1, <4>2
    <3>2. CASE pos = 4 + t /\ sent.qos > 0
      <4>1. w = 2 /\ k = (4 + t) + l
        BY <2>3, <3>2
      <4>2. 4 + t = (2 + t) + 2
        OBVIOUS
      <4> QED
        BY <3>2, <4>1, <4>2
    <3> QED
      BY <2>4, <3>1, <3>2
  <2> HIDE DEF w
  <2>6. n = l
    <3>1. pos + n = pos + l
      BY <1>3, <2>3, <2>5
    <3> QED
      BY <1>2, <3>1
  <2>7. \A i \in 1 .. Len(sent.payload) :
           buf[((2 + Len(sent.topic)) + (IF sent.qos > 0 THEN 2 ELSE 0)) + i] = sent.payload[i]
    BY <2>1, Zenon DEF BodyParts
  <2>8. ASSUME NEW i \in 1 .. n PROVE buf[pos + i] = sent.payload[i]
    <3>1. pos + i = ((2 + t) + (IF sent.qos > 0 THEN 2 ELSE 0)) + i
      BY <2>5
    <3>2. ((2 + Len(sent.topic)) + (IF sent.qos > 0 THEN 2 ELSE 0)) + i = pos + i
      BY <2>3, <3>1
    <3> QED
      BY <2>3, <2>6, <2>7, <3>2
  <2> QED
    BY <2>3, <2>6, <2>8, HalfIs
<1>6. CASE n > PAYLOAD_MAX /\ Verdict("bad")
  BY <1>5, <1>6, RefuseInv
<1>7. CASE ~(n > PAYLOAD_MAX) /\ Field(SubSeq(buf, pos + 1, pos + n), n, <<>>)
  <2>0. /\ SubSeq(buf, pos + 1, pos + n) \in Seq(Byte) /\ Len(SubSeq(buf, pos + 1, pos + n)) = n
        /\ \A i \in 1 .. n : SubSeq(buf, pos + 1, pos + n)[i] = buf[pos + i]
    <3>1. pos + n <= Len(buf)
      BY <1>2, <1>3
    <3> QED
      BY <1>2, <3>1, Piece
  <2>1. PICK p \in Seq(Byte) : /\ p = SubSeq(buf, pos + 1, pos + n) /\ Len(p) = n
                               /\ \A i \in 1 .. n : p[i] = buf[pos + i]
    BY <2>0
  <2>2. PICK next : next = <<>>
    OBVIOUS
  <2>3. next \in Seq(Names) /\ \A i \in 1 .. Len(next) : next[i] # "filter"
    BY <2>2
  <2>4. p \in Values /\ Field(p, n, next) /\ pos + n <= Len(buf)
    BY <1>2, <1>3, <1>7, <2>1, <2>2 DEF Values
  <2>5. Encoded(<<Head(want), p>>) = SubSeq(buf, pos + 1, pos + n)
    BY <1>1, <2>1 DEF Encoded
  <2>6. packet' \in Packet /\ SentSound' /\ ReceiveSound' /\ ParseSound'
    BY <1>1, <1>3, <2>2, <2>3, <2>4, <2>5, FieldInv
  <2>7. /\ got' = Append(got, <<"payload", p>>) /\ pos' = pos + n /\ want' = <<>> \o Tail(want)
        /\ packet' = packet /\ sent' = sent
    BY <1>1, <2>2, <2>4 DEF Field
  <2>8. CASE packet.type # "publish"
    BY <2>6, <2>7, <2>8, OtherInv
  <2>9. CASE packet.type = "publish"
    <3>1. packet.qos \in 0 .. 2 /\ BeforePayload
      BY <1>1, <2>9, StageOf
    <3>2. want = <<"payload">>
      BY <3>1 DEF BeforePayload
    <3>3. want' = <<>>
      BY <2>7, <3>2, Tails
    <3>4. sent # None => p = sent.payload
      <4> SUFFICES ASSUME sent # None PROVE p = sent.payload
        OBVIOUS
      <4>1. sent.payload \in Seq(Byte)
        BY <1>1, SentFacts DEF Relayable
      <4>2. Len(p) = Len(sent.payload) /\ \A i \in 1 .. Len(p) : p[i] = sent.payload[i]
        BY <1>5, <2>1
      <4> QED
        BY <4>1, <4>2, SeqEqual
    <3>5. PayloadValue(p)'
      BY <1>7, <2>1, <2>7, <3>4, HalfIs DEF PayloadValue
    <3>6. CASE packet.qos = 0
      <4>1. PICK t \in Seq(Byte) : TopicValue(t) /\ got = <<<<"topic", t>>>> /\ pos = 2 + Len(t)
        BY <3>1, <3>6 DEF BeforePayload
      <4>2. got' = <<<<"topic", t>>, <<"payload", p>>>>
        BY <2>7, <4>1, Appends
      <4>3. pos' = 2 + Len(t) + Len(p)
        BY <2>1, <2>7, <4>1
      <4>4. TopicValue(t)'
        BY <2>7, <4>1 DEF TopicValue
      <4>5. AllRead'
        BY <2>7, <3>3, <3>5, <3>6, <4>2, <4>3, <4>4 DEF AllRead
      <4> QED
        BY <2>6, <2>7, <3>1, <4>5 DEF CodecInv, PublishSound, PublishAt
    <3>7. CASE packet.qos # 0
      <4>1. PICK t \in Seq(Byte), i \in Word :
                  TopicValue(t) /\ PidValue(i) /\ got = <<<<"topic", t>>, <<"pid", i>>>> /\ pos = 4 + Len(t)
        BY <3>1, <3>7 DEF BeforePayload
      <4>2. got' = <<<<"topic", t>>, <<"pid", i>>, <<"payload", p>>>>
        BY <2>7, <4>1, Appends
      <4>3. pos' = 4 + Len(t) + Len(p)
        BY <2>1, <2>7, <4>1
      <4>4. TopicValue(t)' /\ PidValue(i)'
        BY <2>7, <4>1 DEF TopicValue, PidValue
      <4>5. packet'.qos > 0
        BY <2>7, <3>1, <3>7
      <4>6. AllRead'
        BY <2>7, <3>3, <3>5, <4>2, <4>3, <4>4, <4>5 DEF AllRead
      <4> QED
        BY <2>6, <2>7, <3>1, <4>6 DEF CodecInv, PublishSound, PublishAt
    <3> QED
      BY <3>6, <3>7
  <2> QED
    BY <2>8, <2>9
<1> QED
  BY <1>4, <1>6, <1>7

LEMMA DigitBound ==
    ASSUME NEW r \in Nat, NEW m \in Nat \ {0}, NEW d \in 0 .. Half - 1, r < m
    PROVE  /\ r + d * m \in Nat /\ r + d * m < Half * m
<1>1. PICK h \in Nat : h = Half - 1 /\ Half = h + 1
  BY HalfIs
<1>2. d * m \in Nat /\ h * m \in Nat /\ d * m <= h * m /\ Half * m = h * m + m
  BY <1>1
<1> QED
  BY <1>2

LEMMA RecvLenInv ==
    ASSUME CodecInv, RecvLen
    PROVE  CodecInv'
<1>1. /\ verdict = None /\ buf = None /\ packet \in Packet /\ packet.bytes \in Seq(Byte)
      /\ at = 0 \/ At8(packet.bytes, at) >= Half
  BY DEF RecvLen, Receiving, CodecInv, Packet
<1>2. /\ at \in 0 .. 3 /\ mult = Power[at] /\ rlen \in Nat /\ rlen < mult /\ Len(packet.bytes) \in Nat
      /\ sent # None => Remains(Len(Body(sent)))
  BY <1>1, LenProperties DEF CodecInv, ReceiveSound
<1>3. mult \in Nat \ {0}
  BY <1>2, PowerIs
<1> DEFINE more == at + 1 <= Len(packet.bytes) /\ at + 1 <= 3
<1>4. CASE more /\ ~(at >= Len(packet.bytes) \/ (at > 0 /\ mult * Half > Power[3]))
  <2>1. /\ at' = at + 1 /\ rlen' = rlen + (packet.bytes[at + 1] % Half) * mult
        /\ mult' = mult * Half
        /\ UNCHANGED <<packet, buf, pos, want, got, verdict, sent>>
    BY <1>4 DEF RecvLen
  <2>2. packet.bytes[at + 1] \in Byte
    <3>1. at + 1 \in 1 .. Len(packet.bytes)
      BY <1>2, <1>4
    <3> QED
      BY <1>1, <3>1, ElementOfSeq
  <2>3. PICK d \in 0 .. Half - 1 : d = packet.bytes[at + 1] % Half
    <3>1. PICK b \in Nat : b = packet.bytes[at + 1]
      BY <2>2, HalfIs DEF Byte
    <3>2. b % Half \in 0 .. Half - 1
      BY HalfIs, Division
    <3> QED
      BY <3>1, <3>2
  <2>4. at + 1 \in 1 .. 4 /\ (at + 1) - 1 = at
    BY <1>2
  <2>5. mult' = Power[at + 1]
    <3>1. Power[at + 1] = Half * Power[at]
      BY <2>4, PowerIs
    <3>2. mult * Half = Half * mult
      BY <1>3, HalfIs
    <3> QED
      BY <1>2, <2>1, <3>1, <3>2
  <2>6. rlen' \in Nat /\ rlen' < mult'
    <3>1. rlen + d * mult \in Nat /\ rlen + d * mult < Half * mult
      BY <1>2, <1>3, DigitBound
    <3>2. Half * mult = mult * Half
      BY <1>3, HalfIs
    <3> QED
      BY <2>1, <2>3, <3>1, <3>2
  <2>7. at' \in 0 .. 3 /\ at' <= Len(packet.bytes)
    BY <1>2, <1>4, <2>1
  <2>8. ASSUME sent # None PROVE Remains(Len(Body(sent)))'
    <3>1. PICK k \in 1 .. 3 : BuiltParts(sent, packet, Len(Body(sent)), k)
      BY <2>8, SentIs
    <3>2. Body(sent) \in Seq(Byte) /\ Len(Body(sent)) \in Nat
      BY <2>8, SentIs, RelayableBody
    <3>3. PICK n \in Nat : n = Len(Body(sent))
      BY <3>2
    <3>4. /\ Len(EncodeLen(n)) = k
          /\ \A i \in 1 .. k : /\ packet.bytes[i] % Half = Left(n)[i - 1] % Half
                               /\ packet.bytes[i] < Half <=> i = k
          /\ Len(packet.bytes) = k + n
      BY <3>1, <3>3 DEF BuiltParts
    <3>5. rlen + Power[at] * Left(n)[at] = n /\ at <= k
      BY <1>2, <2>8, <3>3, <3>4 DEF Remains
    <3>6. at + 1 <= k
      <4>1. CASE at = 0
        BY <4>1
      <4>2. CASE at # 0
        <5>1. at \in 1 .. Len(packet.bytes) /\ at \in 1 .. k
          BY <1>2, <3>4, <3>5, <4>2
        <5>2. packet.bytes[at] >= Half /\ packet.bytes[at] \in Byte
          BY <1>1, <4>2, <5>1, ElementOfSeq DEF At8
        <5>3. at # k
          BY <3>4, <5>1, <5>2, HalfIs DEF Byte
        <5> QED
          BY <1>2, <3>5, <5>3
      <4> QED
        BY <4>1, <4>2
    <3>7. d = Left(n)[at] % Half
      BY <1>2, <2>3, <2>4, <3>4, <3>6
    <3>8. PICK x \in Nat, y \in Nat, z \in Nat :
              /\ x = Power[at] * Left(n)[at] /\ y = d * Power[at]
              /\ z = Power[at + 1] * Left(n)[at + 1] /\ x = y + z
      <4>1. PICK i \in 1 .. 4 : i = at + 1 /\ i - 1 = at
        BY <2>4
      <4>2. \E x, y, z \in Nat :
               /\ x = Power[i - 1] * Left(n)[i - 1]
               /\ y = (Left(n)[i - 1] % Half) * Power[i - 1]
               /\ z = Power[i] * Left(n)[i]
               /\ x = y + z
        BY DigitStep
      <4> QED
        BY <3>7, <4>1, <4>2
    <3>9. rlen' + Power[at'] * Left(n)[at'] = n
      <4>1. rlen' = rlen + y
        BY <1>2, <2>1, <2>3, <3>8
      <4>2. Power[at'] * Left(n)[at'] = z
        BY <2>1, <3>8
      <4>3. rlen + x = n
        BY <3>5, <3>8
      <4>4. (rlen + y) + z = n
        BY <1>2, <3>8, <4>3
      <4> QED
        BY <4>1, <4>2, <4>4
    <3>10. at' <= Len(EncodeLen(n))
      BY <2>1, <3>4, <3>6
    <3>11. Remains(n)'
      BY <3>9, <3>10 DEF Remains
    <3> QED
      BY <2>1, <3>3, <3>11
  <2>9. ReceiveSound'
    BY <1>1, <2>1, <2>5, <2>6, <2>7, <2>8 DEF CodecInv, ReceiveSound
  <2>10. packet' \in Packet /\ SentSound' /\ ParseSound' /\ PublishSound'
    BY <1>1, <2>1 DEF CodecInv, SentSound, ParseSound, PublishSound
  <2> QED
    BY <2>9, <2>10 DEF CodecInv
<1>5. sent # None => more /\ ~(at >= Len(packet.bytes) \/ (at > 0 /\ mult * Half > Power[3]))
  <2> SUFFICES ASSUME sent # None
               PROVE  more /\ ~(at >= Len(packet.bytes) \/ (at > 0 /\ mult * Half > Power[3]))
    OBVIOUS
  <2>1. PICK k \in 1 .. 3 : BuiltParts(sent, packet, Len(Body(sent)), k)
    BY SentIs
  <2>2. Body(sent) \in Seq(Byte) /\ Len(Body(sent)) \in Nat
    BY SentIs, RelayableBody
  <2>3. PICK n \in Nat : n = Len(Body(sent))
    BY <2>2
  <2>4. /\ Len(EncodeLen(n)) = k /\ Len(packet.bytes) = k + n
        /\ \A i \in 1 .. k : packet.bytes[i] < Half <=> i = k
    BY <2>1, <2>3 DEF BuiltParts
  <2>5. at <= k
    BY <1>2, <2>3, <2>4 DEF Remains
  <2>6. at + 1 <= k
    <3>1. CASE at = 0
      BY <3>1
    <3>2. CASE at # 0
      <4>1. at \in 1 .. Len(packet.bytes) /\ at \in 1 .. k
        BY <1>2, <2>4, <2>5, <3>2
      <4>2. packet.bytes[at] >= Half /\ packet.bytes[at] \in Byte
        BY <1>1, <3>2, <4>1, ElementOfSeq DEF At8
      <4>3. at # k
        BY <2>4, <4>1, <4>2, HalfIs DEF Byte
      <4> QED
        BY <1>2, <2>5, <4>3
    <3> QED
      BY <3>1, <3>2
  <2>7. mult * Half <= Power[3]
    <3>1. at = 0 \/ at = 1 \/ at = 2
      BY <1>2, <2>6
    <3>2. Power[0] * Half <= Power[3] /\ Power[1] * Half <= Power[3] /\ Power[2] * Half <= Power[3]
      <4>1. /\ Power[1] = Half * Power[0] /\ Power[2] = Half * Power[1] /\ Power[3] = Half * Power[2]
            /\ Power[0] \in Nat \ {0} /\ Power[1] \in Nat \ {0} /\ Power[2] \in Nat \ {0}
        <5>1. /\ 1 \in 1 .. 4 /\ 2 \in 1 .. 4 /\ 3 \in 1 .. 4
              /\ 0 \in 0 .. 4 /\ 1 \in 0 .. 4 /\ 2 \in 0 .. 4
              /\ 1 - 1 = 0 /\ 2 - 1 = 1 /\ 3 - 1 = 2
          OBVIOUS
        <5> QED
          BY <5>1, PowerIs
      <4>2. \A a \in Nat : a * Half = Half * a /\ a <= Half * a
        BY HalfIs
      <4>3. Power[0] <= Power[1] /\ Power[1] <= Power[2] /\ Power[2] <= Power[3]
        BY <4>1, <4>2
      <4>4. Power[0] * Half = Power[1] /\ Power[1] * Half = Power[2] /\ Power[2] * Half = Power[3]
        BY <4>1, <4>2
      <4>5. Power[3] \in Nat
        BY PowerIs
      <4> QED
        BY <4>1, <4>3, <4>4, <4>5
    <3> QED
      BY <1>2, <3>1, <3>2
  <2>8. mult * Half \in Nat /\ Power[3] \in Nat
    BY <1>3, HalfIs, PowerIs
  <2> QED
    BY <1>2, <2>4, <2>6, <2>7, <2>8
<1>6. CASE at >= Len(packet.bytes) \/ (at > 0 /\ mult * Half > Power[3])
  <2>1. Verdict("bad")
    BY <1>6 DEF RecvLen
  <2> QED
    BY <1>5, <1>6, <2>1, RefuseInv
<1>7. ~(at >= Len(packet.bytes) \/ (at > 0 /\ mult * Half > Power[3])) => more
  <2> SUFFICES ASSUME ~(at >= Len(packet.bytes)), ~(at > 0 /\ mult * Half > Power[3])
               PROVE  more
    OBVIOUS
  <2>1. at + 1 <= Len(packet.bytes)
    BY <1>2
  <2>2. at # 3
    <3> SUFFICES ASSUME at = 3 PROVE FALSE
      OBVIOUS
    <3>1. PICK p \in Nat \ {0} : p = Power[3]
      BY PowerIs
    <3>2. p * Half > p
      BY HalfIs
    <3> QED
      BY <1>2, <3>1, <3>2
  <2> QED
    BY <1>2, <2>1, <2>2
<1> QED
  BY <1>4, <1>6, <1>7

LEMMA PowerUpTo ==
    \A i \in 0 .. 3 : Power[i] <= Power[3]
<1>1. /\ Power[1] = Half * Power[0] /\ Power[2] = Half * Power[1] /\ Power[3] = Half * Power[2]
      /\ Power[0] \in Nat \ {0} /\ Power[1] \in Nat \ {0} /\ Power[2] \in Nat \ {0}
      /\ Power[3] \in Nat \ {0}
  <2>1. /\ 1 \in 1 .. 4 /\ 2 \in 1 .. 4 /\ 3 \in 1 .. 4
        /\ 0 \in 0 .. 4 /\ 1 \in 0 .. 4 /\ 2 \in 0 .. 4 /\ 3 \in 0 .. 4
        /\ 1 - 1 = 0 /\ 2 - 1 = 1 /\ 3 - 1 = 2
    OBVIOUS
  <2> QED
    BY <2>1, PowerIs
<1>2. \A a \in Nat : a <= Half * a
  BY HalfIs
<1>3. Power[0] <= Power[1] /\ Power[1] <= Power[2] /\ Power[2] <= Power[3]
  BY <1>1, <1>2
<1>4. \A i \in 0 .. 3 : i = 0 \/ i = 1 \/ i = 2 \/ i = 3
  OBVIOUS
<1>5. Power[0] <= Power[3] /\ Power[1] <= Power[3] /\ Power[2] <= Power[3] /\ Power[3] <= Power[3]
  BY <1>1, <1>3
<1> QED
  BY <1>4, <1>5

(* A packet that was built arrives with its body. *)
LEMMA ArrivedBody ==
    ASSUME CodecInv, sent # None, buf = None, at > 0, packet.bytes[at] < Half
    PROVE  /\ packet.bytes \in Seq(Byte) /\ at + rlen = Len(packet.bytes)
           /\ rlen <= PACKET_MAX /\ packet.qos \in 0 .. 2
           /\ SubSeq(packet.bytes, at + 1, at + rlen) = Body(sent)
<1>1. PICK k \in 1 .. 3 : BuiltParts(sent, packet, Len(Body(sent)), k)
  BY SentIs
<1>2. Body(sent) \in Seq(Byte) /\ Relayable(sent)
  BY SentIs, RelayableBody
<1>3. PICK n \in Nat : n = Len(Body(sent)) /\ n <= PACKET_MAX
  BY <1>2, LenProperties DEF Relayable
<1>4. /\ Len(EncodeLen(n)) = k /\ Len(packet.bytes) = k + n /\ Left(n)[k] = 0
      /\ \A i \in 1 .. k : packet.bytes[i] < Half <=> i = k
      /\ \A i \in 1 .. n : packet.bytes[k + i] = Body(sent)[i]
      /\ packet.qos = sent.qos
  BY <1>1, <1>3 DEF BuiltParts
<1>5. packet.bytes \in Seq(Byte) /\ packet.qos \in 0 .. 2
  BY <1>2, <1>4 DEF CodecInv, Packet, Relayable
<1>6. rlen \in Nat /\ at \in 0 .. 3 /\ rlen + Power[at] * Left(n)[at] = n /\ at <= k
  BY <1>3, <1>4 DEF CodecInv, ReceiveSound, Remains
<1>7. at = k
  BY <1>4, <1>6
<1>8. rlen = n
  <2>1. PICK p \in Nat : p = Power[k]
    BY PowerIs
  <2>2. rlen + p * 0 = n
    BY <1>4, <1>6, <1>7, <2>1
  <2> QED
    BY <1>6, <2>2
<1>9. SubSeq(packet.bytes, k + 1, k + n) = Body(sent)
  <2>1. k \in Nat /\ k + n <= Len(packet.bytes)
    BY <1>4
  <2>2. PICK y \in Seq(Byte) : /\ y = SubSeq(packet.bytes, k + 1, k + n) /\ Len(y) = n
                               /\ \A i \in 1 .. n : y[i] = packet.bytes[k + i]
    <3>1. /\ SubSeq(packet.bytes, k + 1, k + n) \in Seq(Byte)
          /\ Len(SubSeq(packet.bytes, k + 1, k + n)) = n
          /\ \A i \in 1 .. n : SubSeq(packet.bytes, k + 1, k + n)[i] = packet.bytes[k + i]
      BY <1>5, <2>1, Piece
    <3> QED
      BY <3>1
  <2>3. Len(y) = Len(Body(sent)) /\ \A i \in 1 .. Len(y) : y[i] = Body(sent)[i]
    BY <1>3, <1>4, <2>2
  <2>4. y = Body(sent)
    BY <1>2, <2>3, SeqEqual
  <2> QED
    BY <2>2, <2>4
<1> QED
  BY <1>3, <1>4, <1>5, <1>7, <1>8, <1>9

LEMMA RecvBodyInv ==
    ASSUME CodecInv, RecvBody
    PROVE  CodecInv'
<1>1. /\ verdict = None /\ buf = None /\ packet \in Packet /\ packet.bytes \in Seq(Byte)
      /\ at > 0 /\ packet.bytes[at] < Half
  BY DEF RecvBody, Receiving, CodecInv, Packet
<1>2. at \in 0 .. 3 /\ at \in Nat /\ mult = Power[at] /\ rlen \in Nat /\ rlen < mult
  BY <1>1 DEF CodecInv, ReceiveSound
<1> DEFINE bad == \/ rlen > PACKET_MAX \/ at + rlen > Len(packet.bytes)
                  \/ packet.type = "publish" /\ packet.qos = 3
<1>3. sent # None => ~bad
  <2> SUFFICES ASSUME sent # None PROVE ~bad
    OBVIOUS
  <2>1. at + rlen = Len(packet.bytes) /\ rlen <= PACKET_MAX /\ packet.qos \in 0 .. 2
    BY <1>1, ArrivedBody
  <2> QED
    BY <1>2, <2>1, HalfIs
<1>4. CASE bad
  <2>1. Verdict("bad")
    BY <1>4 DEF RecvBody
  <2> QED
    BY <1>3, <1>4, <2>1, RefuseInv
<1>5. CASE ~bad
  <2>1. PICK body : body = SubSeq(packet.bytes, at + 1, at + rlen)
    OBVIOUS
  <2>2. Parse(body)
    BY <1>5, <2>1 DEF RecvBody
  <2>3. at + rlen <= Len(packet.bytes) /\ rlen <= PACKET_MAX
    BY <1>1, <1>2, <1>5, HalfIs, LenProperties
  <2>4. body \in Seq(Byte) /\ Len(body) = rlen
    BY <1>1, <1>2, <2>1, <2>3, Piece
  <2>5. packet.type = "publish" => packet.qos \in 0 .. 2
    BY <1>1, <1>5 DEF Packet
  <2>6. IF sent = None THEN Len(body) < Power[3] ELSE body = Body(sent)
    <3>1. CASE sent = None
      <4>1. Power[at] <= Power[3] /\ Power[at] \in Nat /\ Power[3] \in Nat
        BY <1>2, PowerUpTo, PowerIs
      <4> QED
        BY <1>2, <2>4, <3>1, <4>1
    <3>2. CASE sent # None
      BY <1>1, <2>1, <3>2, ArrivedBody
    <3> QED
      BY <3>1, <3>2
  <2> QED
    BY <1>1, <2>2, <2>3, <2>4, <2>5, <2>6, ParseInv
<1> QED
  BY <1>4, <1>5

LEMMA DecodeSavedInv ==
    ASSUME CodecInv, DecodeSaved
    PROVE  CodecInv'
<1>1. verdict = None /\ buf = None /\ sent # None /\ packet \in Packet /\ packet.bytes \in Seq(Byte)
  BY DEF DecodeSaved, Receiving, CodecInv, Packet
<1>2. PICK k \in 1 .. 3 : BuiltParts(sent, packet, Len(Body(sent)), k)
  BY <1>1, SentIs
<1>3. Body(sent) \in Seq(Byte) /\ Relayable(sent)
  BY <1>1, SentIs, RelayableBody
<1>4. PICK n \in Nat : n = Len(Body(sent)) /\ n <= PACKET_MAX
  BY <1>3, LenProperties DEF Relayable
<1>5. /\ Len(packet.bytes) = k + n
      /\ \A i \in 1 .. n : packet.bytes[k + i] = Body(sent)[i]
      /\ packet.qos = sent.qos /\ DecodeLen(packet.bytes) = <<n, k>>
  BY <1>2, <1>4 DEF BuiltParts
<1>6. PICK body : body = [i \in 1 .. n |-> At8(packet.bytes, k + i)]
  OBVIOUS
<1>7. <<n, k>> # None
  <2>1. <<n, k>> \in Seq(Nat)
    OBVIOUS
  <2> QED
    BY <2>1, CodecAssumption
<1>8. Parse(body)
  <2>1. DecodeLen(packet.bytes)[1] = n /\ DecodeLen(packet.bytes)[2] = k
    BY <1>5
  <2>2. DecodeLen(packet.bytes) # None
    BY <1>5, <1>7
  <2> QED
    BY <1>6, <2>1, <2>2 DEF DecodeSaved
<1>9. body = Body(sent)
  <2>1. \A i \in 1 .. n : At8(packet.bytes, k + i) = Body(sent)[i]
    BY <1>5 DEF At8
  <2>2. \A i \in 1 .. n : Body(sent)[i] \in Byte
    BY <1>3, <1>4, ElementOfSeq
  <2>3. body = [i \in 1 .. n |-> Body(sent)[i]]
    BY <1>6, <2>1
  <2>4. body \in Seq(Byte) /\ Len(body) = n /\ \A i \in 1 .. n : body[i] = Body(sent)[i]
    BY <2>2, <2>3
  <2> QED
    BY <1>3, <1>4, <2>4, SeqEqual
<1>10. packet.qos \in 0 .. 2
  BY <1>3, <1>5 DEF Relayable
<1> QED
  BY <1>1, <1>3, <1>4, <1>8, <1>9, <1>10, ParseInv

----------------------------------------------------------------------------
(* A PUBLISH that was accepted. *)

LEMMA ValueIs ==
    ASSUME NEW field, NEW k \in 1 .. Len(got), got[k][1] = field,
           \A j \in 1 .. k - 1 : got[j][1] # field
    PROVE  Value(field) = got[k][2]
<1> DEFINE I == {j \in 1 .. Len(got) : got[j][1] = field}
           i == First(I)
<1>1. I \subseteq Nat /\ k \in I
  OBVIOUS
<1>2. i \in I /\ i <= k
  <2> HIDE DEF I
  <2> QED
    BY <1>1, FirstFound
<1>3. i = k
  <2>1. i \in Nat /\ i \notin 1 .. k - 1
    BY <1>2
  <2> HIDE DEF i
  <2> QED
    BY <1>2, <2>1
<1>4. i # None
  <2>1. k \in Nat
    OBVIOUS
  <2> QED
    BY <1>3, <2>1, CodecAssumption
<1>5. Value(field) = got[i][2]
  BY <1>4 DEF Value
<1> QED
  BY <1>3, <1>5

(* Its topic t and payload p. *)
WasRead(t, p) ==
    /\ TopicValue(t) /\ PayloadValue(p)
    /\ Value("topic") = t /\ Value("payload") = p
    /\ packet.qos > 0 => PidValue(Value("pid")) /\ Len(buf) = (4 + Len(t)) + Len(p)
    /\ ~(packet.qos > 0) => Len(buf) = (2 + Len(t)) + Len(p)

LEMMA AcceptedIs ==
    ASSUME CodecInv, verdict = "ok", packet.type = "publish"
    PROVE  /\ packet.qos \in 0 .. 2 /\ buf \in Seq(Byte) /\ Len(buf) <= PACKET_MAX
           /\ sent = None => Len(buf) < Power[3]
           /\ \E t \in Seq(Byte), p \in Seq(Byte) : WasRead(t, p)
<1>1. buf # None
  BY DEF CodecInv, ReceiveSound
<1>2. /\ packet.qos \in 0 .. 2 /\ buf \in Seq(Byte) /\ Len(buf) <= PACKET_MAX
      /\ sent = None => Len(buf) < Power[3]
      /\ want = <<>> /\ pos = Len(buf) /\ PublishAt
  BY <1>1 DEF CodecInv, ParseSound, PublishSound
<1>3. AllRead
  <2>1. FirstFields = IF packet.qos > 0 THEN <<"topic", "pid", "payload">> ELSE <<"topic", "payload">>
    BY FirstFieldsIs DEF CodecInv
  <2>2. want = FirstFields \/ want = <<"pid", "payload">> \/ want = <<"payload">> \/ AllRead
    BY <1>2 DEF PublishAt, BeforeTopic, BeforePid, BeforePayload
  <2> QED
    BY <1>2, <2>1, <2>2
<1>4. CASE packet.qos = 0
  <2>1. PICK t \in Seq(Byte), p \in Seq(Byte) :
                /\ TopicValue(t) /\ PayloadValue(p)
                /\ got = <<<<"topic", t>>, <<"payload", p>>>> /\ pos = 2 + Len(t) + Len(p)
    BY <1>3, <1>4 DEF AllRead
  <2>2. Len(got) = 2 /\ got[1] = <<"topic", t>> /\ got[2] = <<"payload", p>>
    BY <2>1
  <2>3. Value("topic") = got[1][2]
    <3>1. 1 \in 1 .. Len(got) /\ got[1][1] = "topic" /\ \A j \in 1 .. 1 - 1 : got[j][1] # "topic"
      BY <2>2
    <3> QED
      BY ONLY <3>1, ValueIs
  <2>4. Value("payload") = got[2][2]
    <3>1. 2 \in 1 .. Len(got) /\ got[2][1] = "payload" /\ \A j \in 1 .. 2 - 1 : got[j][1] # "payload"
      BY <2>2
    <3> QED
      BY ONLY <3>1, ValueIs
  <2>5. WasRead(t, p)
    BY <1>2, <1>4, <2>1, <2>2, <2>3, <2>4 DEF WasRead
  <2> QED
    BY <1>2, <2>5
<1>5. CASE packet.qos # 0
  <2>1. PICK t \in Seq(Byte), i \in Word, p \in Seq(Byte) :
                /\ TopicValue(t) /\ PidValue(i) /\ PayloadValue(p)
                /\ got = <<<<"topic", t>>, <<"pid", i>>, <<"payload", p>>>>
                /\ pos = 4 + Len(t) + Len(p)
    BY <1>3, <1>5 DEF AllRead
  <2>2. Len(got) = 3 /\ got[1] = <<"topic", t>> /\ got[2] = <<"pid", i>> /\ got[3] = <<"payload", p>>
    BY <2>1
  <2>3. Value("topic") = got[1][2]
    <3>1. 1 \in 1 .. Len(got) /\ got[1][1] = "topic" /\ \A j \in 1 .. 1 - 1 : got[j][1] # "topic"
      BY <2>2
    <3> QED
      BY ONLY <3>1, ValueIs
  <2>4. Value("pid") = got[2][2]
    <3>1. 2 \in 1 .. Len(got) /\ got[2][1] = "pid" /\ \A j \in 1 .. 2 - 1 : got[j][1] # "pid"
      BY <2>2
    <3> QED
      BY ONLY <3>1, ValueIs
  <2>5. Value("payload") = got[3][2]
    <3>1. 3 \in 1 .. Len(got) /\ got[3][1] = "payload" /\ \A j \in 1 .. 3 - 1 : got[j][1] # "payload"
      <4>1. \A j \in 1 .. 3 - 1 : j = 1 \/ j = 2
        OBVIOUS
      <4> QED
        BY <2>2, <4>1
    <3> QED
      BY ONLY <3>1, ValueIs
  <2>6. WasRead(t, p)
    BY <1>2, <1>5, <2>1, <2>2, <2>3, <2>4, <2>5 DEF WasRead
  <2> QED
    BY <1>2, <2>6
<1> QED
  BY <1>2, <1>4, <1>5

LEMMA ForwardInv ==
    ASSUME CodecInv, Forward
    PROVE  CodecInv'
<1>1. /\ verdict = "ok" /\ packet.type = "publish" /\ sent = None
      /\ Value("topic") # <<>> /\ ~HasWild(Value("topic"))
  BY DEF Forward
<1>2. PICK q \in 0 .. packet.qos, id \in NextIds :
              Arrive(BuildPublish([Message(q, id) EXCEPT !.flags = @ \ {"retain"}]),
                     [Message(q, id) EXCEPT !.flags = @ \ {"retain"}])
  BY DEF Forward
<1>3. PICK m : m = [Message(q, id) EXCEPT !.flags = @ \ {"retain"}]
  OBVIOUS
<1>4. Arrive(BuildPublish(m), m)
  BY <1>2, <1>3
<1>5. /\ packet.qos \in 0 .. 2 /\ buf \in Seq(Byte) /\ Len(buf) <= PACKET_MAX /\ Len(buf) < Power[3]
      /\ \E t \in Seq(Byte), p \in Seq(Byte) : WasRead(t, p)
  BY <1>1, AcceptedIs
<1>6. PICK t \in Seq(Byte), p \in Seq(Byte) : WasRead(t, p)
  BY <1>5
<1>7. q \in 0 .. 2 /\ q <= packet.qos
  BY <1>5
<1>8. /\ m.topic = t /\ m.payload = p /\ m.qos = q /\ m.pid = (IF q > 0 THEN id ELSE 0)
      /\ m.flags = packet.flags \ {"retain"}
      /\ m = [topic |-> t, payload |-> p, qos |-> q, pid |-> IF q > 0 THEN id ELSE 0,
              flags |-> packet.flags \ {"retain"}]
  BY <1>3, <1>6 DEF Message, WasRead
<1>9. id \in Word /\ id # 0
  BY HalfIs DEF NextIds, Word
<1>10. packet.flags \in SUBSET {"dup", "retain"}
  BY DEF CodecInv, Packet
<1>11. m \in [topic : Seq(Byte), payload : Seq(Byte), qos : 0 .. 2, pid : Nat,
              flags : SUBSET {"dup", "retain"}]
  BY <1>7, <1>8, <1>9, <1>10, HalfIs DEF Word
<1>12. m.pid \in Word /\ (m.qos > 0 <=> m.pid # 0)
  BY <1>7, <1>8, <1>9, HalfIs DEF Word
<1>13. TopicValue(t) /\ PayloadValue(p) /\ Value("topic") = t
  BY <1>6 DEF WasRead
<1>14. BodyParts(m, Body(m)) /\ Body(m) \in Seq(Byte)
  <2>1. BodyParts(m, Body(m))
    BY <1>7, <1>8, <1>12, <1>13, BodyIs DEF TopicValue
  <2> QED
    BY <2>1, PartsLength
<1>15. Len(Body(m)) <= Len(buf) /\ Len(Body(m)) \in Nat
  <2>1. PICK a \in Nat, b \in Nat, n \in Nat : a = Len(t) /\ b = Len(p) /\ n = Len(buf)
    BY <1>5, LenProperties
  <2>2. Len(Body(m)) = ((2 + Len(m.topic)) + (IF m.qos > 0 THEN 2 ELSE 0)) + Len(m.payload)
    BY <1>14, PartsLength
  <2>3. Len(Body(m)) = ((2 + a) + (IF q > 0 THEN 2 ELSE 0)) + b
    BY <1>8, <2>1, <2>2
  <2>4. CASE q > 0
    <3>1. packet.qos > 0
      BY <1>5, <1>7, <2>4
    <3>2. n = (4 + a) + b
      BY <1>6, <2>1, <3>1 DEF WasRead
    <3>3. Len(Body(m)) = (4 + a) + b
      BY <2>3, <2>4
    <3> QED
      BY <2>1, <3>2, <3>3
  <2>5. CASE ~(q > 0)
    <3>1. n = (4 + a) + b \/ n = (2 + a) + b
      BY <1>6, <2>1 DEF WasRead
    <3>2. Len(Body(m)) = (2 + a) + b
      BY <2>3, <2>5
    <3> QED
      BY <2>1, <3>1, <3>2
  <2> QED
    BY <2>4, <2>5
<1>16. Relayable(m)
  <2>1. Len(m.topic) \in Word \ {0} /\ Len(m.topic) < STR_MAX /\ ~HasWild(m.topic)
    <3>1. t # <<>> /\ ~HasWild(t)
      BY <1>1, <1>13
    <3>2. Len(t) # 0
      BY <3>1, EmptySeq
    <3> QED
      BY <1>8, <1>13, <3>1, <3>2 DEF TopicValue
  <2>2. \A i \in 1 .. Len(m.topic) : m.topic[i] # 0
    BY <1>8, <1>13 DEF TopicValue
  <2>3. Len(m.payload) <= PAYLOAD_MAX
    BY <1>8, <1>13 DEF PayloadValue
  <2>4. Len(Body(m)) <= PACKET_MAX /\ Len(Body(m)) < Power[3]
    <3>1. Len(buf) \in Nat /\ Power[3] \in Nat
      BY <1>5, LenProperties, PowerIs
    <3> QED
      BY <1>5, <1>15, <3>1, HalfIs
  <2> QED
    BY <1>11, <1>12, <2>1, <2>2, <2>3, <2>4 DEF Relayable
<1>17. PICK k \in 1 .. 3 : BuiltParts(m, BuildPublish(m), Len(Body(m)), k)
  BY <1>16, BuiltIs
<1>18. /\ packet' = BuildPublish(m) /\ sent' = m /\ m # None
       /\ at' = 0 /\ rlen' = 0 /\ mult' = 1 /\ buf' = None
       /\ pos' = 0 /\ want' = <<>> /\ got' = <<>> /\ verdict' = None
  BY <1>4, <1>11, CodecAssumption DEF Arrive
<1>19. packet' \in Packet /\ SentSound'
  BY <1>16, <1>17, <1>18 DEF BuiltParts, SentSound
<1>20. Remains(Len(Body(m)))'
  <2>1. PICK n \in Nat : n = Len(Body(m))
    BY <1>15
  <2>2. Len(EncodeLen(n)) = k
    BY <1>17, <2>1 DEF BuiltParts
  <2>3. Left(n)[0] = n
    BY LeftIs
  <2>4. 0 + Power[0] * Left(n)[0] = n
    BY <2>3, Powers
  <2>5. Remains(n)'
    BY <1>18, <2>2, <2>4 DEF Remains
  <2> QED
    BY <1>18, <2>1, <2>5
<1>21. ReceiveSound'
  <2>1. at' \in 0 .. 3 /\ mult' = Power[at'] /\ rlen' \in Nat /\ rlen' < mult'
    BY <1>18, Powers
  <2>2. at' <= Len(packet.bytes)'
    <3>1. Len(BuildPublish(m).bytes) \in Nat
      BY <1>15, <1>17 DEF BuiltParts
    <3> QED
      BY <1>18, <3>1
  <2>3. verdict' # "ok"
    BY <1>18, NotNone
  <2> QED
    BY <1>18, <1>20, <2>1, <2>2, <2>3 DEF ReceiveSound
<1>22. ParseSound' /\ PublishSound'
  BY <1>18 DEF ParseSound, PublishSound
<1> QED
  BY <1>19, <1>21, <1>22 DEF CodecInv

----------------------------------------------------------------------------
(* Init establishes the invariant and every step keeps it. *)

LEMMA CodecInitInv == CodecInit => CodecInv
<1> SUFFICES ASSUME CodecInit PROVE CodecInv
  OBVIOUS
<1>1. packet \in Packet /\ packet.bytes \in Seq(Byte) /\ Len(packet.bytes) \in Nat
  BY CodecAssumption, LenProperties DEF CodecInit, Packet
<1>2. SentSound /\ ParseSound /\ PublishSound
  BY DEF CodecInit, SentSound, ParseSound, PublishSound
<1>3. ReceiveSound
  BY <1>1, Powers, NotNone DEF CodecInit, ReceiveSound
<1> QED
  BY <1>1, <1>2, <1>3 DEF CodecInv

LEMMA CodecNextInv == CodecInv /\ [CodecNext]_codecVars => CodecInv'
<1> SUFFICES ASSUME CodecInv, [CodecNext]_codecVars PROVE CodecInv'
  OBVIOUS
<1>1. CASE RecvLen
  BY <1>1, RecvLenInv
<1>2. CASE RecvBody
  BY <1>2, RecvBodyInv
<1>3. CASE DecodeSaved
  BY <1>3, DecodeSavedInv
<1>4. CASE ReadStr
  BY <1>4, ReadStrInv
<1>5. CASE ReadHead
  BY <1>5, ReadHeadInv
<1>6. CASE ReadPid
  BY <1>6, ReadPidInv
<1>7. CASE ReadBlob
  BY <1>7, ReadBlobInv
<1>8. CASE ReadPayload
  BY <1>8, ReadPayloadInv
<1>9. CASE ReadQos
  BY <1>9, ReadQosInv
<1>10. CASE NextTopic
  BY <1>10, NextTopicInv
<1>11. CASE End
  BY <1>11, EndInv
<1>12. CASE AcceptPacket
  BY <1>12, AcceptPacketInv
<1>13. CASE Forward
  BY <1>13, ForwardInv
<1>14. CASE UNCHANGED codecVars
  <2>1. UNCHANGED <<packet, at, rlen, mult, buf, pos, want, got, verdict, sent>>
    BY <1>14 DEF codecVars
  <2>2. packet' \in Packet /\ SentSound' /\ ReceiveSound'
    BY <2>1 DEF CodecInv, SentSound, ReceiveSound, Remains
  <2>3. ParseSound'
    <3>1. (Reads({"filter"})' <=> Reads({"filter"})) /\ Count' = Count /\ ParseSound
      BY <2>1 DEF Reads, Count, CodecInv
    <3> QED
      BY <2>1, <3>1 DEF ParseSound, WantSound
  <2>4. PublishSound'
    BY <2>1 DEF CodecInv, PublishSound, PublishAt, BeforeTopic, BeforePid, BeforePayload, AllRead,
               TopicValue, PidValue, PayloadValue, FirstFields
  <2> QED
    BY <2>2, <2>3, <2>4 DEF CodecInv
<1> QED
  BY <1>1, <1>2, <1>3, <1>4, <1>5, <1>6, <1>7, <1>8, <1>9, <1>10, <1>11, <1>12, <1>13, <1>14
     DEF CodecNext

(* What packet.c and the receive loops know of a packet at each byte of its *)
(* length and at each field.                                                *)
THEOREM CodecInvariant == CodecSpec => []CodecInv
<1>1. CodecInit => CodecInv
  BY CodecInitInv
<1>2. CodecInv /\ [CodecNext]_codecVars => CodecInv'
  BY CodecNextInv
<1> QED
  BY <1>1, <1>2, PTL DEF CodecSpec

(* Every parser stays inside the body and the arrays of its caller, and    *)
(* accepts only packets whose fields are the whole body.                   *)
THEOREM ExactParse == CodecSpec => []ParsedExactly
<1>1. CodecInv => ParsedExactly
  <2> SUFFICES ASSUME CodecInv PROVE ParsedExactly
    OBVIOUS
  <2>1. ParseSound
    BY DEF CodecInv
  <2>2. buf # None => pos <= Len(buf) /\ Len(buf) <= PACKET_MAX /\ Count <= TOPICS_MAX
    BY <2>1 DEF ParseSound
  <2>3. verdict = "ok" => AllEncoded = buf
    <3> SUFFICES ASSUME verdict = "ok" PROVE AllEncoded = buf
      OBVIOUS
    <3>1. buf # None
      BY DEF CodecInv, ReceiveSound
    <3>2. buf \in Seq(Byte) /\ pos = Len(buf) /\ AllOf(got) = SubSeq(buf, 1, pos)
      BY <2>1, <3>1 DEF ParseSound
    <3>3. SubSeq(buf, 1, Len(buf)) = buf
      BY <3>2, SubSeqFull
    <3>4. AllEncoded = AllOf(got)
      BY DEF AllEncoded, AllOf
    <3> QED
      BY <3>2, <3>3, <3>4
  <2> QED
    BY <2>2, <2>3 DEF ParsedExactly
<1> QED
  BY <1>1, CodecInvariant, PTL

(* A PUBLISH that the broker accepts is built again within the buffers of  *)
(* the fan-out, and is read as the message that was meant.                 *)
THEOREM RelayIsIntact == CodecSpec => []RelayedIntact
<1>1. CodecInv => RelayedIntact
  <2> SUFFICES ASSUME CodecInv, sent # None
               PROVE  packet # None /\ (verdict # None => verdict = "ok" /\ Message(packet.qos, Value("pid")) = sent)
    BY DEF RelayedIntact
  <2>1. packet # None
    BY NotNone DEF CodecInv
  <2>2. verdict # None => buf # None
    BY DEF CodecInv, ReceiveSound
  <2>3. verdict # None => verdict = "ok"
    BY <2>2, SentFacts
  <2>4. ASSUME verdict = "ok"
        PROVE  Message(packet.qos, Value("pid")) = sent
    <3>1. /\ packet.type = "publish" /\ packet.qos = sent.qos /\ packet.flags = sent.flags
          /\ Relayable(sent)
      BY <2>2, <2>4, NotNone, SentFacts
    <3>2. /\ packet.qos \in 0 .. 2
          /\ \E t \in Seq(Byte), p \in Seq(Byte) : WasRead(t, p)
      BY <2>4, <3>1, AcceptedIs
    <3>3. PICK t \in Seq(Byte), p \in Seq(Byte) : WasRead(t, p)
      BY <3>2
    <3>4. t = sent.topic /\ p = sent.payload /\ Value("topic") = t /\ Value("payload") = p
      BY <3>3 DEF WasRead, TopicValue, PayloadValue
    <3>5. (IF packet.qos > 0 THEN Value("pid") ELSE 0) = sent.pid
      <4>1. CASE packet.qos > 0
        BY <3>3, <4>1 DEF WasRead, PidValue
      <4>2. CASE ~(packet.qos > 0)
        BY <3>1, <4>2 DEF Relayable
      <4> QED
        BY <4>1, <4>2
    <3>6. sent = [topic |-> sent.topic, payload |-> sent.payload, qos |-> sent.qos,
                  pid |-> sent.pid, flags |-> sent.flags]
      BY <3>1 DEF Relayable
    <3> QED
      BY <3>1, <3>4, <3>5, <3>6 DEF Message
  <2> QED
    BY <2>1, <2>3, <2>4
<1> QED
  BY <1>1, CodecInvariant, PTL
======================================================================================
