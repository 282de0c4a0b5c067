-------------------------- MODULE SubscriptionMap --------------------------
(***************************************************************************)
(* What the topic table promises (include/topic.h): a map from clients and *)
(* filters to QoS, a map from topics to retained messages, both of bounded *)
(* size, and the deliveries that follow from them.  The last operation and *)
(* its result are visible in out.                                          *)
(***************************************************************************)
EXTENDS Integers, FiniteSets

CONSTANTS None, Client, Topic, Wild, Match, QoS, PubQoS, Payload, Empty,
          TOPIC_MAX_SUBS, TOPIC_RETAIN_MAX

VARIABLES
    sub,        \* QoS of a subscription, or None
    retained,   \* retained message of a topic, or None
    out         \* the last operation and the messages it sends

vars == <<sub, retained, out>>

Filter == Topic \cup Wild

Covers(f, t) == f = t \/ <<f, t>> \in Match

Lower(p, q) == IF p < q THEN p ELSE q

Subscriptions == {k \in Client \X Filter : sub[k[1]][k[2]] # None}
RetainedTopics == {t \in Topic : retained[t] # None}

Did(op, sent) == out' = [op |-> op, sent |-> sent]

Init ==
    /\ sub = [c \in Client |-> [f \in Filter |-> None]]
    /\ retained = [t \in Topic |-> None]
    /\ out = [op |-> "init", sent |-> <<>>]

Subscribe(c, f, q) ==
    /\ Did("subscribe", <<>>)
    /\ \/ sub[c][f] # None
       \/ Cardinality(Subscriptions) < TOPIC_MAX_SUBS
    /\ sub' = [sub EXCEPT ![c][f] = q]
    /\ UNCHANGED retained

(* Only a new subscription is refused, and only when the table is full. *)
Refuse(c, f) ==
    /\ Did("refuse", <<>>)
    /\ sub[c][f] = None
    /\ Cardinality(Subscriptions) = TOPIC_MAX_SUBS
    /\ UNCHANGED <<sub, retained>>

Unsubscribe(c, f) ==
    /\ Did("unsubscribe", <<>>)
    /\ sub' = [sub EXCEPT ![c][f] = None]
    /\ UNCHANGED retained

(* One message for every client with a matching subscription, at a QoS no  *)
(* higher than that of one of them.                                        *)
Fanout(t, q, pl, sent) ==
    LET hits(c) == {f \in Filter : Covers(f, t) /\ sub[c][f] # None}
    IN /\ {sent[n].client : n \in DOMAIN sent} = {c \in Client : hits(c) # {}}
       /\ \A m, n \in DOMAIN sent : sent[m].client = sent[n].client => m = n
       /\ \A n \in DOMAIN sent :
            /\ sent[n].topic = t /\ sent[n].payload = pl /\ ~sent[n].retain
            /\ \E f \in hits(sent[n].client) : sent[n].qos = Lower(q, sub[sent[n].client][f])

Retain(t, q, pl) ==
    retained' = [retained EXCEPT ![t] =
        IF pl = Empty THEN None
        ELSE IF @ # None \/ Cardinality(RetainedTopics) < TOPIC_RETAIN_MAX
             THEN [payload |-> pl, qos |-> q]
        ELSE @]

Publish(t, q, pl, keep) ==
    /\ Did("publish", out'.sent)
    /\ Fanout(t, q, pl, out'.sent)
    /\ IF keep THEN Retain(t, q, pl) ELSE UNCHANGED retained
    /\ UNCHANGED sub

(* No memory for the store of retained messages. *)
PublishFailed ==
    /\ Did("failed", <<>>)
    /\ RetainedTopics = {}
    /\ UNCHANGED <<sub, retained>>

(* The retained messages that match a filter, each once. *)
DeliverRetained(c, f, q) ==
    LET sent == out'.sent
        hits == {t \in RetainedTopics : Covers(f, t)}
    IN /\ Did("retained", sent)
       /\ {sent[n] : n \in DOMAIN sent} =
            {[client |-> c, topic |-> t, payload |-> retained[t].payload,
              qos |-> Lower(q, retained[t].qos), retain |-> TRUE] : t \in hits}
       /\ \A m, n \in DOMAIN sent : sent[m].topic = sent[n].topic => m = n
       /\ UNCHANGED <<sub, retained>>

Next == \/ \E c \in Client, f \in Filter :
             \/ Refuse(c, f)
             \/ Unsubscribe(c, f)
             \/ \E q \in QoS : Subscribe(c, f, q) \/ DeliverRetained(c, f, q)
        \/ \E t \in Topic, q \in PubQoS, pl \in Payload, keep \in BOOLEAN :
             Publish(t, q, pl, keep)
        \/ PublishFailed

Spec == Init /\ [][Next]_vars
=============================================================================
