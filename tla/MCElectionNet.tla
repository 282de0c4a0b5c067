--------------------------- MODULE MCElectionNet ---------------------------
(* Values for the constants of ElectionNet. *)
EXTENDS ElectionNet

\* a broker without traffic
MCIdle == [publishes |-> 0, subs |-> 0, exact |-> 0, wild |-> 0, nodes |-> 0]
MCLoad == {MCIdle}

(* The roles in the announcements and in the tables, and the signature     *)
(* that depends on them, have no effect on the election.                   *)
NoRole(a) == IF a = None THEN None ELSE <<a.id, a.score>>
MCView == <<[n \in Node |-> <<brokers[n].role,
                              [i \in Slot |-> NoRole(brokers[n].peers[i])]>>],
            {NoRole(a) : a \in net}>>
=============================================================================
