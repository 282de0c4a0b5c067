---------------------------- MODULE MCShardCache ----------------------------
(* Values for the constants of ShardCache. *)
EXTENDS ShardCache

CONSTANTS ta, tb, ka, kb

MCThread == {ta, tb}
MCKey == {ka, kb}
MCOneKey == {ka}
MCKeyHash == [k \in Key |-> IF k = ka THEN 1 ELSE 0]
\* every probe starts at the same entry
MCHome(sig, k) == 1
MCIdle == [publishes |-> 0, subs |-> 0, exact |-> 0, wild |-> 0, nodes |-> 0]
MCLoad == {MCIdle}
MCSymmetry == Permutations(Thread)
=============================================================================
