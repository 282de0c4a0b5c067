----------------------------- MODULE PeerLinks -----------------------------
(***************************************************************************)
(* How two brokers come to have a connection (src/src/p2p_peer.c): each    *)
(* connects to the other when it sees no connection, accepts those of the  *)
(* other, exchanges HELLO on each, and closes all but one of them, by a    *)
(* rule that both apply for themselves.                                    *)
(*                                                                         *)
(* A connection has a thread at both ends, which works on an entry of      *)
(* conns.  close_duplicate_conns clears the entry of a thread that is      *)
(* blocked in recv.  The thread goes on with the entry, whoever has it by  *)
(* then, once the other end sends something or closes; until then the      *)
(* blocked call keeps the socket open, as it does on POSIX.                *)
(*                                                                         *)
(* Sockets are named by their connection and have a new name each; a name  *)
(* is used again when nothing is left of the connection.  Both brokers are *)
(* routers with a subscription; what they tell each other about it is one  *)
(* frame, SUB.                                                             *)
(***************************************************************************)
EXTENDS Integers, Sequences, TableScan

CONSTANTS
    P2P_PEER_MAX,    \* entries of conns
    Tcp,             \* names of connections
    Scenes           \* situations looked at

Broker == {1, 2}     \* ordered as their node identifiers
Slot == 0 .. P2P_PEER_MAX - 1

(* A situation: how they find each other (static seeds or discovery), who  *)
(* has made a connection that is in use at the beginning, and a bound for  *)
(* the connections that the network breaks.                                *)
Scene == [mode : {"seed", "discover"}, first : Broker \cup {None}, breaks : Nat]

ASSUME LinkAssumption ==
    /\ P2P_PEER_MAX \in Nat \ {0}
    /\ Tcp \subseteq Nat /\ 1 \in Tcp
    /\ Scenes \subseteq Scene
    /\ None \notin Tcp

VARIABLES
    scene,
    queued,      \* queued[b]: connections of the other that b has not accepted yet
    lost,        \* connections broken by the network
    open,        \* open[b]: sockets that b has not closed
    chan,        \* chan[b][k]: frames of b on k that are not read yet
    conns,       \* conns[b][s]: entries of the connection table
    send_slots,  \* send_slots[b][s]: the socket for senders, or None
    thread,      \* thread[b][k]: the thread of connection k at b
    routes,      \* routes[b]: b knows the subscription of the other
    nbreak

net == <<queued, lost>>
vars == <<scene, net, open, chan, conns, send_slots, thread, routes, nbreak>>

NoConn == [fd |-> None, in_use |-> FALSE, outbound |-> FALSE, connected |-> FALSE]
NoThread == [at |-> "none", slot |-> None, fd |-> None]

Other(b) == 3 - b

Init ==
    \E x \in Scenes :
    LET up == x.first # None IN
    /\ scene = x
    /\ queued = [b \in Broker |-> {}] /\ lost = {}
    /\ open = [b \in Broker |-> IF up THEN {1} ELSE {}]
    /\ chan = [b \in Broker |-> [k \in Tcp |-> <<>>]]
    /\ conns = [b \in Broker |-> [s \in Slot |->
                  IF up /\ s = 0 THEN [fd |-> 1, in_use |-> TRUE, connected |-> TRUE,
                                       outbound |-> b = x.first]
                  ELSE NoConn]]
    /\ send_slots = [b \in Broker |-> [s \in Slot |-> IF up /\ s = 0 THEN 1 ELSE None]]
    /\ thread = [b \in Broker |-> [k \in Tcp |->
                   IF up /\ k = 1 THEN [at |-> "loop", slot |-> 0, fd |-> 1] ELSE NoThread]]
    /\ routes = [b \in Broker |-> up]
    /\ nbreak = 0

----------------------------------------------------------------------------
(* The network. *)

Blocked(b, k) == \E j \in Tcp : thread[b][j].at \in {"wait", "loop"} /\ thread[b][j].fd = k

(* The end of b is closed, and no blocked call keeps it. *)
Gone(b, k) == k \notin open[b] /\ ~Blocked(b, k) /\ k \notin queued[b]

Unused(k) ==
    /\ \A b \in Broker : /\ k \notin open[b] \cup queued[b] /\ thread[b][k] = NoThread
                         /\ ~Blocked(b, k)
                         /\ \A s \in Slot : send_slots[b][s] # k

(* plat_close of sockets: what is unread is discarded, unless a blocked    *)
(* call will still read it.                                                *)
Close(b, K) ==
    /\ open' = [open EXCEPT ![b] = @ \ K]
    /\ chan' = [chan EXCEPT ![Other(b)] = [k \in Tcp |->
                  IF k \in K /\ ~Blocked(b, k) THEN <<>> ELSE @[k]]]

(* What b finds when it reads from k. *)
HasFrame(b, k) == k # None /\ k \notin lost /\ chan[Other(b)][k] # <<>>
HasEnd(b, k) ==
    IF k = None \/ k \in lost THEN TRUE ELSE Gone(Other(b), k) /\ chan[Other(b)][k] = <<>>

Frame(b, k) == Head(chan[Other(b)][k])
Took(b, k) == chan' = [chan EXCEPT ![Other(b)][k] = Tail(@)]

Sent(ch, b, k, f) ==
    IF k = None \/ k \notin open[b] \/ k \in lost \/ Gone(Other(b), k) THEN ch
    ELSE [ch EXCEPT ![b][k] = Append(@, f)]

Break(k) ==
    /\ nbreak < scene.breaks
    /\ k \notin lost
    /\ \A b \in Broker : k \in open[b]
    /\ nbreak' = nbreak + 1
    /\ lost' = lost \cup {k}
    /\ chan' = [b \in Broker |-> [chan[b] EXCEPT ![k] = <<>>]]
    /\ UNCHANGED <<scene, queued, open, conns, send_slots, thread, routes>>

----------------------------------------------------------------------------
(* New connections. *)

ConnExists(b, except) ==
    \E s \in Slot \ {except} : conns[b][s].in_use /\ conns[b][s].connected

(* addr_conn_exists: entries of accepted connections have port 0. *)
AddrConnExists(b) == \E s \in Slot : conns[b][s].in_use /\ conns[b][s].outbound

(* alloc_conn, spawn_peer and the HELLO that peer_loop begins with; without *)
(* a free entry the socket is closed.                                      *)
Alloc(b, k, outbound, ch) ==
    LET s == First({i \in Slot : ~conns[b][i].in_use}) IN
    IF s = None THEN UNCHANGED <<open, conns, thread>> /\ chan' = ch
    ELSE /\ open' = [open EXCEPT ![b] = @ \cup {k}]
         /\ conns' = [conns EXCEPT ![b][s] = [fd |-> k, in_use |-> TRUE,
                                              outbound |-> outbound, connected |-> FALSE]]
         /\ thread' = [thread EXCEPT ![b][k] = [at |-> "wait", slot |-> s, fd |-> k]]
         /\ chan' = IF k \in lost /\ ~outbound THEN ch ELSE [ch EXCEPT ![b][k] = <<"HELLO">>]

(* connect_to_addr and connect_to_peer, as connect_loop calls them. *)
Connect(b, k) ==
    /\ ~AddrConnExists(b)
    /\ scene.mode = "discover" => ~ConnExists(b, None)
    /\ Unused(k)
    /\ \A j \in Tcp : Unused(j) => k <= j
    /\ lost' = lost \ {k}
    /\ queued' = [queued EXCEPT ![Other(b)] = @ \cup {k}]
    /\ Alloc(b, k, TRUE, [c \in Broker |-> [chan[c] EXCEPT ![k] = <<>>]])
    /\ UNCHANGED <<scene, send_slots, routes, nbreak>>

(* accept_loop. *)
Accept(b, k) ==
    /\ k \in queued[b]
    /\ queued' = [queued EXCEPT ![b] = @ \ {k}]
    /\ Alloc(b, k, FALSE, chan)
    /\ UNCHANGED <<scene, lost, send_slots, routes, nbreak>>

----------------------------------------------------------------------------
(* The thread of connection k at b: peer_loop with its entry c. *)

At(b, k, label) == thread[b][k].at = label
Slot_(b, k) == thread[b][k].slot
Conn(b, k) == conns[b][Slot_(b, k)]
Goto(b, k, label) == thread' = [thread EXCEPT ![b][k].at = label]

(* The next recv, on the socket the entry has now. *)
Receives(b, k, label) ==
    thread' = [thread EXCEPT ![b][k].at = label, ![b][k].fd = Conn(b, k).fd]

(* The first frame must be a HELLO. *)
RecvHello(b, k) ==
    /\ At(b, k, "wait")
    /\ HasFrame(b, thread[b][k].fd)
    /\ Took(b, thread[b][k].fd)
    /\ Goto(b, k, IF Frame(b, thread[b][k].fd) = "HELLO" THEN "check" ELSE "close")
    /\ UNCHANGED <<scene, net, open, conns, send_slots, routes, nbreak>>

RecvFails(b, k) ==
    /\ At(b, k, "wait") \/ At(b, k, "loop")
    /\ HasEnd(b, thread[b][k].fd)
    /\ Goto(b, k, "close")
    /\ UNCHANGED <<scene, net, open, chan, conns, send_slots, routes, nbreak>>

\* Mutant: each broker keeps the connection it knew first.
KeepNew_Never(b, outbound) == FALSE

(* Of two connections both brokers keep the one that the lower has made. *)
KeepNew(b, outbound) == IF b < Other(b) THEN outbound ELSE ~outbound

Check(b, k) ==
    /\ At(b, k, "check")
    /\ Goto(b, k, IF ~ConnExists(b, Slot_(b, k)) THEN "join"
                  ELSE IF KeepNew(b, Conn(b, k).outbound) THEN "dup" ELSE "close")
    /\ UNCHANGED <<scene, net, open, chan, conns, send_slots, routes, nbreak>>

\* Mutant: the sockets are closed and the entries stay in use.
CloseDuplicates_Kept(b, k) ==
    LET dup == {s \in Slot \ {Slot_(b, k)} : conns[b][s].in_use /\ conns[b][s].connected} IN
    /\ At(b, k, "dup")
    /\ Close(b, {conns[b][s].fd : s \in dup})
    /\ Goto(b, k, "join")
    /\ UNCHANGED <<scene, net, conns, send_slots, routes, nbreak>>

(* close_duplicate_conns. *)
CloseDuplicates(b, k) ==
    LET dup == {s \in Slot \ {Slot_(b, k)} : conns[b][s].in_use /\ conns[b][s].connected} IN
    /\ At(b, k, "dup")
    /\ Close(b, {conns[b][s].fd : s \in dup})
    /\ conns' = [conns EXCEPT ![b] = [s \in Slot |-> IF s \in dup THEN NoConn ELSE @[s]]]
    /\ send_slots' = [send_slots EXCEPT ![b] = [s \in Slot |-> IF s \in dup THEN None ELSE @[s]]]
    /\ Goto(b, k, "join")
    /\ UNCHANGED <<scene, net, routes, nbreak>>

(* The entry is marked, without a lock. *)
Join(b, k) ==
    /\ At(b, k, "join")
    /\ conns' = [conns EXCEPT ![b][Slot_(b, k)].connected = TRUE]
    /\ Goto(b, k, "update")
    /\ UNCHANGED <<scene, net, open, chan, send_slots, routes, nbreak>>

(* send_slot_update. *)
SlotUpdate(b, s) ==
    send_slots' = [send_slots EXCEPT ![b][s] =
                     IF conns[b][s].connected THEN conns[b][s].fd ELSE None]

(* send_slot_update and advertise_local_subs_to. *)
Update(b, k) ==
    /\ At(b, k, "update")
    /\ SlotUpdate(b, Slot_(b, k))
    /\ chan' = Sent(chan, b, IF Conn(b, k).connected THEN Conn(b, k).fd ELSE None, "SUB")
    /\ Receives(b, k, "loop")
    /\ UNCHANGED <<scene, net, open, conns, routes, nbreak>>

(* A frame in the loop: HELLO refreshes send_slots, SUB the routes. *)
RecvFrame(b, k) ==
    LET fd == thread[b][k].fd IN
    /\ At(b, k, "loop")
    /\ HasFrame(b, fd)
    /\ Took(b, fd)
    /\ IF Frame(b, fd) = "HELLO" THEN SlotUpdate(b, Slot_(b, k)) /\ UNCHANGED routes
       ELSE routes' = [routes EXCEPT ![b] = TRUE] /\ UNCHANGED send_slots
    /\ Receives(b, k, "loop")
    /\ UNCHANGED <<scene, net, open, conns, nbreak>>

(* close_conn: the entry is cleared under peer_lock, ... *)
CloseConn(b, k) ==
    /\ At(b, k, "close")
    /\ Close(b, {Conn(b, k).fd})
    /\ conns' = [conns EXCEPT ![b][Slot_(b, k)] = NoConn]
    /\ Goto(b, k, IF Conn(b, k).connected THEN "clear" ELSE "clear_only")
    /\ UNCHANGED <<scene, net, send_slots, routes, nbreak>>

(* ... then its part in send_slots; and if there is no other connection    *)
(* now, ...                                                                *)
ClearSlot(b, k) ==
    /\ At(b, k, "clear") \/ At(b, k, "clear_only")
    /\ send_slots' = [send_slots EXCEPT ![b][Slot_(b, k)] = None]
    /\ thread' = [thread EXCEPT ![b][k] =
                    IF @.at = "clear" /\ ~ConnExists(b, None) THEN [@ EXCEPT !.at = "remove"]
                    ELSE NoThread]
    /\ UNCHANGED <<scene, net, open, chan, conns, routes, nbreak>>

(* ... the routes. *)
RemoveNode(b, k) ==
    /\ At(b, k, "remove")
    /\ routes' = [routes EXCEPT ![b] = FALSE]
    /\ thread' = [thread EXCEPT ![b][k] = NoThread]
    /\ UNCHANGED <<scene, net, open, chan, conns, send_slots, nbreak>>

(* send_current_hello_to_peers, by the first part of send_slots in use;    *)
(* HELLOs that are not read yet count as one.                              *)
SendCurrentHello(b) ==
    LET used == {s \in Slot : send_slots[b][s] # None}
        k == send_slots[b][First(used)]
    IN
    /\ \E s \in Slot : conns[b][s].connected
    /\ used # {}
    /\ chan[b][k] = <<>>
    /\ Sent(chan, b, k, "HELLO") # chan
    /\ chan' = Sent(chan, b, k, "HELLO")
    /\ UNCHANGED <<scene, net, open, conns, send_slots, thread, routes, nbreak>>

----------------------------------------------------------------------------
Thread(b, k) ==
    \/ RecvHello(b, k) \/ RecvFails(b, k) \/ Check(b, k)
    \/ CloseDuplicates(b, k) \/ Join(b, k) \/ Update(b, k) \/ RecvFrame(b, k)
    \/ CloseConn(b, k) \/ ClearSlot(b, k) \/ RemoveNode(b, k)

Connects(b) == \E k \in Tcp : Connect(b, k)
Accepts(b) == \E k \in Tcp : Accept(b, k)

Next ==
    \/ \E b \in Broker : Connects(b) \/ Accepts(b) \/ SendCurrentHello(b)
    \/ \E b \in Broker, k \in Tcp : Thread(b, k)
    \/ \E k \in Tcp : Break(k)

Spec == Init /\ [][Next]_vars

(* connect_loop and accept_loop run for ever, and every thread goes on. *)
FairSpec ==
    /\ Spec
    /\ \A b \in Broker : WF_vars(Connects(b)) /\ WF_vars(Accepts(b)) /\ WF_vars(SendCurrentHello(b))
    /\ \A b \in Broker, k \in Tcp : WF_vars(Thread(b, k))

----------------------------------------------------------------------------
(* Properties. *)

Labels == {"none", "wait", "check", "dup", "join", "update", "loop",
           "close", "clear", "clear_only", "remove"}

(* The tables and the threads keep their types; an entry has a socket      *)
(* exactly while it is in use.                                             *)
TypeOK ==
    /\ scene \in Scenes
    /\ queued \in [Broker -> SUBSET Tcp] /\ lost \subseteq Tcp
    /\ open \in [Broker -> SUBSET Tcp]
    /\ conns \in [Broker -> [Slot -> [fd : Tcp \cup {None}, in_use : BOOLEAN,
                                      outbound : BOOLEAN, connected : BOOLEAN]]]
    /\ \A b \in Broker, s \in Slot : conns[b][s].in_use <=> conns[b][s].fd # None
    /\ send_slots \in [Broker -> [Slot -> Tcp \cup {None}]]
    /\ thread \in [Broker -> [Tcp -> [at : Labels, slot : Slot \cup {None},
                                      fd : Tcp \cup {None}]]]
    /\ routes \in [Broker -> BOOLEAN]

(* Every entry in use has an open socket and a thread that will close the  *)
(* entry: although close_duplicate_conns clears entries under the threads  *)
(* that work on them, and those threads close what they find there later,  *)
(* no connection keeps an entry that nobody serves (close_conn,            *)
(* close_duplicate_conns, alloc_conn).                                     *)
SlotServed ==
    \A b \in Broker, s \in Slot : conns[b][s].in_use =>
        /\ conns[b][s].fd \in open[b]
        /\ thread[b][conns[b][s].fd].slot = s

(* b uses connection k. *)
Uses(b, k) == \E s \in Slot : /\ conns[b][s].in_use /\ conns[b][s].connected
                              /\ conns[b][s].fd = k

Linked == \E k \in Tcp : k \notin lost /\ Uses(1, k) /\ Uses(2, k)

(* Once the network stops breaking connections the brokers come to use one *)
(* and the same connection for good: connecting from both sides, keeping   *)
(* one of two connections by what each finds in its own table, closing     *)
(* duplicates and clearing entries late do not undo each other for ever    *)
(* (connect_loop, accept_loop, keep_new in peer_loop, close_conn).         *)
StaysLinked == <>[]Linked

(* Three stronger statements that the code does not keep: that both can also *)
(* send on this connection, although close_conn clears the part of         *)
(* send_slots after another connection may have taken the entry; ...       *)
Sendable == \E k \in Tcp : /\ k \notin lost /\ Uses(1, k) /\ Uses(2, k)
                           /\ \A b \in Broker : \E s \in Slot : send_slots[b][s] = k
StaysSendable == <>[]Sendable

(* ... that there is one connection only, although two threads may both    *)
(* look for others before either has marked its entry; ...                 *)
SingleLink ==
    <>[](\A b \in Broker : \A i, j \in Slot :
            conns[b][i].connected /\ conns[b][j].connected => i = j)

(* ... and that the routes through the peer are there in the end, although *)
(* close_conn removes the node after it has looked for other connections.  *)
RoutesKept == <>[](\A b \in Broker : routes[b])
=============================================================================
