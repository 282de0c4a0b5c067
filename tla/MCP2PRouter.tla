---------------------------- MODULE MCP2PRouter ----------------------------
(* Values for the constants of P2PRouter. *)
EXTENDS P2PRouter, TLC

CONSTANTS n1, n2, n3, t1, t2, w

MCNode == {n1, n2, n3}
MCTopic == {t1, t2}
MCOneTopic == {t1}
MCWild == {w}
MCMatch == {<<w, t1>>}
\* every topic starts at the last of four entries: probes collide and wrap
MCHash == [t \in Topic |-> 3]
MCSymmetry == Permutations(MCNode)
=============================================================================
