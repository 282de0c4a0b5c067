-------------------------- MODULE MCClientSession --------------------------
(* Values for the constants of ClientSession. *)
EXTENDS ClientSession

CONSTANTS a, per, f, t

MCClientId == {a, per}
MCFilter == {f}
MCTopic == {t}
MCMatch == {<<f, t>>}

Persistent(i) == [id |-> i, clean |-> FALSE, will |-> None]
Clean(i) == [id |-> i, clean |-> TRUE, will |-> None]
WithWill(k) == [k EXCEPT !.will = [topic |-> t, qos |-> 1]]

\* how often each identifier may connect
Upto(n, m) == [i \in MCClientId \cup {NoId} |-> IF i = per THEN n ELSE m]
MCOnce == Upto(1, 1)
MCTwice == Upto(2, 1)
MCOften == Upto(3, 3)

\* one persistent subscriber and one clean publisher
MCSubPub == {Persistent(per), Clean(a)}
\* one identifier, with and without clean_session
MCOneId == {Persistent(per), Clean(per)}
\* a client with a will, an anonymous one and a persistent one with the
\* identifier of the first
MCMixed == {WithWill(Clean(per)), Persistent(per), Clean(NoId)}
\* one persistent client
MCSelf == {Persistent(per)}

(* The environment of the run redelivery. *)
QuietStep == Quiet'
=============================================================================
