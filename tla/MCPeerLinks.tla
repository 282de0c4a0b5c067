---------------------------- MODULE MCPeerLinks ----------------------------
(* Values for the constants of PeerLinks. *)
EXTENDS PeerLinks

MCTcp == 1 .. 2

(* Both start without a connection, with static seeds or with discovery. *)
MCStart == {[mode |-> m, first |-> None, breaks |-> 0] : m \in {"seed", "discover"}}

(* A connection in use breaks, and both make another. *)
MCBroken == {[mode |-> "discover", first |-> b, breaks |-> 1] : b \in Broker}

MCScenes == MCStart \cup MCBroken
=============================================================================
