----------------------------- MODULE MCQosFlow -----------------------------
(* Values for the constants of QosFlow. *)
EXTENDS QosFlow

MCBoth == {"client", "mesh"}

\* three messages in one direction, or one in each
MCLoads == {[out |-> s, in |-> <<>>] : s \in {<<2, 1, 2>>, <<1, 2, 1>>}}
           \cup {[out |-> <<>>, in |-> s] : s \in {<<2, 2, 2>>, <<1, 2, 1>>}}
           \cup {[out |-> <<2>>, in |-> <<2>>]}
=============================================================================
