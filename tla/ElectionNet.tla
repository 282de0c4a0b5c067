---------------------------- MODULE ElectionNet ----------------------------
(***************************************************************************)
(* Brokers that elect routers from announcements (p2p_discover.c and the   *)
(* HELLO frames of p2p_peer.c).  An announcement is a UDP broadcast: it is *)
(* lost, heard late, after a newer one, or twice.  Nothing but the tables  *)
(* of the brokers makes them agree.                                        *)
(***************************************************************************)
EXTENDS Election

CONSTANT NetMax      \* bound on the announcements under way

ASSUME NetAssumption == NetMax \in Nat

VARIABLES
    brokers,    \* the election state of every broker
    net         \* the announcements under way

netVars == <<brokers, net>>

NetInit ==
    /\ \E in \in [Node -> Fresh] : brokers = [n \in Node |-> InitBroker(n, in[n])]
    /\ net = {}

(* One round of p2p_announce_loop, or a HELLO to a peer. *)
Broadcast(n) ==
    \E in \in Input(brokers[n].peers) :
        /\ brokers' = [brokers EXCEPT ![n] = Recompute(@, in)]
        /\ net' = net \cup {Announcement(brokers'[n])}
        /\ Cardinality(net') <= NetMax

(* p2p_listen_loop, or peer_loop at a HELLO. *)
Receive(n, ann) ==
    /\ \E in \in Input(brokers[n].peers) :
         brokers' = [brokers EXCEPT ![n] = UpdatePeer(@, ann, in)]
    /\ UNCHANGED net

Lose(ann) ==
    /\ net' = net \ {ann}
    /\ UNCHANGED brokers

(* A broker whose identifier is that of its hardware starts again. *)
Restart(n) ==
    /\ \E in \in Fresh :
         brokers' = [brokers EXCEPT ![n] = InitBroker(n, in)]
    /\ UNCHANGED net

NetNext == \/ \E n \in Node : Broadcast(n) \/ Restart(n)
           \/ \E ann \in net : Lose(ann) \/ \E n \in Node : Receive(n, ann)

NetSpec == NetInit /\ [][NetNext]_netVars

----------------------------------------------------------------------------
(* Properties. *)

(* Every broker keeps the type of its state: no entry is written past the  *)
(* table, whoever announces itself.                                        *)
NetTypeOK ==
    /\ brokers \in [Node -> Broker]
    /\ net \subseteq Ann

(* A peer has one entry, and the broker itself only slot 0: a peer whose   *)
(* entry moved to an earlier slot after an expiry would count twice, and   *)
(* the last routers would not be elected.                                  *)
PeersUnique ==
    \A n \in Node, i, j \in Slot :
        LET peers == brokers[n].peers IN
        /\ peers[0] # None /\ peers[0].id = n
        /\ peers[i] # None /\ peers[j] # None /\ peers[i].id = peers[j].id => i = j

Own(n) == brokers[n].peers[0]

(* Every score in a table is the one its node has now. *)
Settled ==
    \A n \in Node : \A e \in Entries(brokers[n].peers) : e.score = Own(e.id).score

Rank(n) == Place({Own(m) : m \in Node}, Own(n))

Complete(n) == Cardinality(InUse(brokers[n].peers)) = Cardinality(Node)

(* The routers that every load of a broker and every table call for. *)
AtLeast == IF P2P_ROUTER_COUNT > 0 THEN P2P_ROUTER_COUNT ELSE 1

(* "Nodes independently sort the same table; the top nodes become          *)
(* routers": once the scores in the tables are current, every one of the   *)
(* top nodes is a router, also where tables are full or entries expired,   *)
(* so that the network is never without one; and a node that knows all     *)
(* others is a router exactly if its place is before the number it aims    *)
(* at.                                                                     *)
Agreement ==
    Settled =>
        \A n \in Node :
            /\ Rank(n) < AtLeast => brokers[n].role = "ROUTER"
            /\ Complete(n) =>
                 \E l \in Load : brokers[n].role = "ROUTER"
                                <=> Rank(n) < RouterTarget(Cardinality(Node), l)
=============================================================================
