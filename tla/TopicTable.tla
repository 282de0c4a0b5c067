----------------------------- MODULE TopicTable -----------------------------
(***************************************************************************)
(* The topic table (src/src/topic.c): subscriptions in a fixed array whose *)
(* entries are linked into hash chains (filters without wildcards) and one *)
(* list (the others), and the retained messages.                           *)
(*                                                                         *)
(* Each action is one critical section of topic_lock.  The sends that      *)
(* follow the unlock are recorded in out; ClientSession models them step   *)
(* by step, and LocalAdverts the notifications to P2P peers.               *)
(***************************************************************************)
EXTENDS Integers, TableScan

CONSTANTS
    TOPIC_MAX_SUBS,
    TOPIC_RETAIN_MAX,
    Client,        \* entries of the client pool; each has a thread
    Topic,         \* topics, which are also the filters without wildcards
    Wild,          \* filters with wildcards
    Match,         \* topic_match, as a set of <<wildcard filter, topic>>
    Bucket,        \* topic_hash(filter) % TOPIC_MAX_SUBS
    QoS,
    PubQoS,        \* the QoS of the publishes
    Payload,
    Empty          \* the payload of length 0

Filter == Topic \cup Wild
SubIdx == 0 .. TOPIC_MAX_SUBS - 1
RetIdx == 0 .. TOPIC_RETAIN_MAX - 1

ASSUME TableAssumption ==
    /\ TOPIC_MAX_SUBS \in Nat \ {0} /\ TOPIC_RETAIN_MAX \in Nat \ {0}
    /\ Topic \cap Wild = {} /\ Match \subseteq Wild \X Topic
    /\ Bucket \in [Topic -> SubIdx]
    /\ QoS \subseteq 0 .. 2 /\ PubQoS \subseteq QoS /\ Empty \in Payload
    /\ None \notin SubIdx /\ None \notin RetIdx /\ None \notin QoS
    /\ None \notin [client : Client, filter : Filter, qos : QoS]
    /\ None \notin [payload : Payload, qos : QoS]
    /\ None \notin [topic : Topic, payload : Payload \ {Empty}, qos : QoS]
    /\ None \notin [RetIdx -> [topic : Topic, payload : Payload \ {Empty}, qos : QoS]
                              \cup {None}]

VARIABLES
    subs,          \* an entry in use [client, filter, qos], or None
    exact_next, exact_heads,
    wildcard_next, wildcard_head,
    retains,       \* the store, None before it is allocated
    ending,        \* clients inside the loop of topic_unsubscribe_all
    out            \* the last operation and the messages it sends

links == <<exact_next, exact_heads, wildcard_next, wildcard_head>>
table == <<subs, links>>
vars  == <<subs, links, retains, ending, out>>

Did(op, sent) == out' = [op |-> op, sent |-> sent]

----------------------------------------------------------------------------
(* Lists. *)

(* The entries from head on, in order.  A list of more than TOPIC_MAX_SUBS *)
(* entries is a cycle.                                                     *)
Walk(head, next) ==
    LET at[n \in 0 .. TOPIC_MAX_SUBS] ==
          IF n = 0 THEN head
          ELSE IF at[n - 1] = None THEN None ELSE next[at[n - 1]]
    IN at

OnList(head, next) == {Walk(head, next)[n] : n \in SubIdx} \ {None}

(* exact_list_insert_locked and wildcard_list_insert_locked. *)
ListInsert(i, f) ==
    IF f \in Topic
    THEN /\ exact_next' = [exact_next EXCEPT ![i] = exact_heads[Bucket[f]]]
         /\ exact_heads' = [exact_heads EXCEPT ![Bucket[f]] = i]
         /\ UNCHANGED <<wildcard_next, wildcard_head>>
    ELSE /\ wildcard_next' = [wildcard_next EXCEPT ![i] = wildcard_head]
         /\ wildcard_head' = i
         /\ UNCHANGED <<exact_next, exact_heads>>

\* Mutant: the list is cut where the entry was.
Unlink_Cut(head, next, i) ==
    IF head = i THEN None ELSE head

(* The head and the links of a list without entry i: the link that led to  *)
(* it now leads past it.                                                   *)
Unlink(head, next, i) == IF head = i THEN next[i] ELSE head

Relink(head, next, i) ==
    LET before == {j \in OnList(head, next) : next[j] = i}
    IN [j \in SubIdx |-> IF j \in before THEN next[i] ELSE next[j]]

(* exact_list_remove_locked and wildcard_list_remove_locked. *)
ListRemove(i) ==
    LET f == subs[i].filter IN
    IF f \in Topic
    THEN LET head == exact_heads[Bucket[f]] IN
         /\ exact_heads' = [exact_heads EXCEPT ![Bucket[f]] = Unlink(head, exact_next, i)]
         /\ exact_next' = Relink(head, exact_next, i)
         /\ UNCHANGED <<wildcard_next, wildcard_head>>
    ELSE /\ wildcard_head' = Unlink(wildcard_head, wildcard_next, i)
         /\ wildcard_next' = Relink(wildcard_head, wildcard_next, i)
         /\ UNCHANGED <<exact_next, exact_heads>>

----------------------------------------------------------------------------
(* The table. *)

(* The entry of a client and a filter. *)
Entry(c, f) ==
    First({i \in SubIdx : subs[i] # None /\ subs[i].client = c /\ subs[i].filter = f})

(* The entry topic_subscribe writes: that of the client and the filter,    *)
(* else the first free one.                                                *)
SlotFor(c, f) ==
    IF Entry(c, f) # None THEN Entry(c, f) ELSE First({i \in SubIdx : subs[i] = None})

(* topic_init. *)
Init ==
    /\ subs = [i \in SubIdx |-> None]
    /\ exact_next = [i \in SubIdx |-> None]
    /\ exact_heads = [b \in SubIdx |-> None]
    /\ wildcard_next = [i \in SubIdx |-> None]
    /\ wildcard_head = None
    /\ retains = None
    /\ ending = {}
    /\ out = [op |-> "init", sent |-> <<>>]

(* The thread of client c is between two calls. *)
Idle(c) == c \notin ending

(* topic_subscribe. *)
Subscribe(c, f, q) ==
    LET i == SlotFor(c, f) IN
    /\ Idle(c)
    /\ IF i = None
       THEN /\ UNCHANGED table
            /\ Did("refuse", <<>>)
       ELSE /\ subs' = [subs EXCEPT ![i] = [client |-> c, filter |-> f, qos |-> q]]
            /\ IF subs[i] = None THEN ListInsert(i, f) ELSE UNCHANGED links
            /\ Did("subscribe", <<>>)
    /\ UNCHANGED <<retains, ending>>

(* Entry i is taken out of its list and freed. *)
Drop(i) ==
    /\ ListRemove(i)
    /\ subs' = [subs EXCEPT ![i] = None]

(* topic_unsubscribe. *)
Unsubscribe(c, f) ==
    LET i == Entry(c, f) IN
    /\ Idle(c)
    /\ IF i # None THEN Drop(i) ELSE UNCHANGED table
    /\ Did("unsubscribe", <<>>)
    /\ UNCHANGED <<retains, ending>>

(* topic_unsubscribe_all: one entry in each round of its loop; the P2P     *)
(* build releases the lock after each.                                     *)
UnsubscribeAll(c) ==
    /\ Idle(c)
    /\ ending' = ending \cup {c}
    /\ UNCHANGED <<table, retains, out>>

UnsubscribeNext(c) ==
    LET i == First({j \in SubIdx : subs[j] # None /\ subs[j].client = c}) IN
    /\ c \in ending
    /\ IF i # None
       THEN Drop(i) /\ Did("unsubscribe", <<>>) /\ UNCHANGED ending
       ELSE ending' = ending \ {c} /\ UNCHANGED <<table, out>>
    /\ UNCHANGED retains

----------------------------------------------------------------------------
(* Publishing. *)

Lower(p, q) == IF p < q THEN p ELSE q

(* What a publish to t visits in step n: the chain of the topic, then the  *)
(* list of wildcards.                                                      *)
Steps == 0 .. 2 * TOPIC_MAX_SUBS - 1

Visit(t, n) ==
    IF n < TOPIC_MAX_SUBS
    THEN Walk(exact_heads[Bucket[t]], exact_next)[n]
    ELSE Walk(wildcard_head, wildcard_next)[n - TOPIC_MAX_SUBS]

Hit(t, n) ==
    /\ Visit(t, n) # None
    /\ subs[Visit(t, n)] # None
    /\ IF n < TOPIC_MAX_SUBS THEN subs[Visit(t, n)].filter = t
       ELSE <<subs[Visit(t, n)].filter, t>> \in Match

\* Mutant: a client with two matching subscriptions gets two messages.
Targets_Twice(t) == {n \in Steps : Hit(t, n)}

(* A client is served by the first of its entries. *)
Targets(t) ==
    {n \in Steps :
       /\ Hit(t, n)
       /\ \A k \in 0 .. n - 1 :
            Hit(t, k) => subs[Visit(t, k)].client # subs[Visit(t, n)].client}

(* topic_publish_qos0_locked and topic_publish_qos_locked: the messages,   *)
(* by the step that finds the client, which is the order of the sends.     *)
Messages(t, q, pl) ==
    [n \in Targets(t) |->
        [client |-> subs[Visit(t, n)].client, topic |-> t, payload |-> pl,
         qos |-> Lower(q, subs[Visit(t, n)].qos), retain |-> FALSE]]

RetainStore == IF retains = None THEN [r \in RetIdx |-> None] ELSE retains

(* The entry of a topic. *)
RetainEntry(t) == First({r \in RetIdx : RetainStore[r] # None /\ RetainStore[r].topic = t})

(* That entry, else the first free one. *)
RetainSlot(t) ==
    IF RetainEntry(t) # None THEN RetainEntry(t)
    ELSE First({r \in RetIdx : RetainStore[r] = None})

(* An empty payload frees the entry; a full store drops the message. *)
Retained(t, q, pl) ==
    IF pl = Empty
    THEN [r \in RetIdx |-> IF r = RetainEntry(t) THEN None ELSE RetainStore[r]]
    ELSE [r \in RetIdx |-> IF r = RetainSlot(t) THEN [topic |-> t, payload |-> pl, qos |-> q]
                           ELSE RetainStore[r]]

(* topic_publish and topic_publish_remote up to the sends. *)
Publish(t, q, pl, keep) ==
    /\ retains' = IF keep THEN Retained(t, q, pl) ELSE retains
    /\ Did("publish", Messages(t, q, pl))
    /\ UNCHANGED <<table, ending>>

(* retain_store_ensure finds no memory. *)
PublishFailed ==
    /\ retains = None
    /\ Did("failed", <<>>)
    /\ UNCHANGED <<table, retains, ending>>

(* topic_deliver_retained, for a filter just subscribed to.  A SUBSCRIBE   *)
(* may name a filter twice, so that q is not always the QoS of the entry.  *)
DeliverRetained(c, f, q) ==
    LET hits == {r \in RetIdx : /\ RetainStore[r] # None
                                /\ \/ RetainStore[r].topic = f
                                   \/ <<f, RetainStore[r].topic>> \in Match}
    IN
    /\ Idle(c)
    /\ Entry(c, f) # None
    /\ Did("retained",
           [r \in hits |->
              [client |-> c, topic |-> RetainStore[r].topic,
               payload |-> RetainStore[r].payload,
               qos |-> Lower(q, RetainStore[r].qos), retain |-> TRUE]])
    /\ UNCHANGED <<table, retains, ending>>

Next == \/ \E c \in Client :
             \/ UnsubscribeAll(c)
             \/ UnsubscribeNext(c)
             \/ \E f \in Filter :
                  \/ Unsubscribe(c, f)
                  \/ \E q \in QoS : Subscribe(c, f, q) \/ DeliverRetained(c, f, q)
        \/ \E t \in Topic, q \in PubQoS, pl \in Payload, keep \in BOOLEAN :
             Publish(t, q, pl, keep)
        \/ PublishFailed

Spec == Init /\ [][Next]_vars

----------------------------------------------------------------------------
(* Properties. *)

(* The table, the lists and the store keep their types. *)
TypeOK ==
    /\ subs \in [SubIdx -> [client : Client, filter : Filter, qos : QoS] \cup {None}]
    /\ exact_next \in [SubIdx -> SubIdx \cup {None}]
    /\ exact_heads \in [SubIdx -> SubIdx \cup {None}]
    /\ wildcard_next \in [SubIdx -> SubIdx \cup {None}]
    /\ wildcard_head \in SubIdx \cup {None}
    /\ retains = None \/ retains \in [RetIdx -> [topic : Topic, payload : Payload \ {Empty},
                                                 qos : QoS] \cup {None}]
    /\ ending \subseteq Client

(* The chains and the wildcard list end, and hold exactly the entries in   *)
(* use, each on its own list: entries that are freed and reused in any     *)
(* order never leave a cycle, a dangling link or an entry on two lists.    *)
ListsExact ==
    /\ \A b \in SubIdx :
         /\ Walk(exact_heads[b], exact_next)[TOPIC_MAX_SUBS] = None
         /\ OnList(exact_heads[b], exact_next) =
              {i \in SubIdx : /\ subs[i] # None /\ subs[i].filter \in Topic
                              /\ Bucket[subs[i].filter] = b}
    /\ Walk(wildcard_head, wildcard_next)[TOPIC_MAX_SUBS] = None
    /\ OnList(wildcard_head, wildcard_next) =
         {i \in SubIdx : subs[i] # None /\ subs[i].filter \in Wild}

(* The maps of SubscriptionMap. *)
SubMap ==
    [c \in Client |-> [f \in Filter |->
        IF Entry(c, f) = None THEN None ELSE subs[Entry(c, f)].qos]]

RetainMap ==
    [t \in Topic |->
        IF RetainEntry(t) = None THEN None
        ELSE [payload |-> RetainStore[RetainEntry(t)].payload,
              qos |-> RetainStore[RetainEntry(t)].qos]]

(* The hash chains, the list and the store implement the two maps that     *)
(* include/topic.h promises, and every publish and every delivery of       *)
(* retained messages reaches exactly the matching clients, once.           *)
Abs == INSTANCE SubscriptionMap WITH sub <- SubMap, retained <- RetainMap

ImplementsMap == Abs!Spec
=============================================================================
