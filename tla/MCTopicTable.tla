---------------------------- MODULE MCTopicTable ----------------------------
(* Values for the constants of TopicTable. *)
EXTENDS TopicTable, TLC

CONSTANTS c1, c2, t1, t2, w, v

MCClient == {c1, c2}
MCTopic == {t1, t2}
MCOneTopic == {t1}
MCWild == {w}
MCMatch == {<<w, t1>>}
MCPayload == {Empty, v}
MCEmpty == {Empty}
\* all topics share a chain
MCBucket == [t \in Topic |-> 0]
MCSymmetry == Permutations(Client)
=============================================================================
