----------------------------- MODULE TopicMatch -----------------------------
(***************************************************************************)
(* Matching of topics against filters.  The repository has four matching   *)
(* functions, one for each place where it is needed:                       *)
(*   "topic"   topic_match         (topic.c: local fan-out, retained)      *)
(*   "broker"  mqtt_topic_match    (broker.c: mesh-ingress clients)        *)
(*   "router"  topic_match         (p2p_router.c: next hops)               *)
(*   "peer"    topic_match_local   (p2p_peer.c: pending QoS publishes)     *)
(* They walk the filter and the topic with two pointers.  Here a call is a *)
(* run of the state machine, one step for each round of the loop, and its  *)
(* result is compared with the level-by-level definition of MQTT 3.1.1.    *)
(***************************************************************************)
EXTENDS Integers, Sequences, FiniteSets, TableScan

CONSTANTS
    Functions,     \* matching functions to call
    Filters,       \* strings offered as filters, valid or not
    Topics,        \* topic names
    P2P_SHARD_KEY_LEVELS

ASSUME FunctionsAssumption ==
    /\ P2P_SHARD_KEY_LEVELS \in Nat \ {0}
    /\ Functions \subseteq {"topic", "broker", "router", "peer"}

(* Strings of C have no 0 inside; "0" stands for the one at their end.     *)
ASSUME StringsAssumption ==
    /\ Filters \cup Topics \subseteq Seq(STRING \ {"0"})
    /\ None \notin Nat \cup {"match", "no", "invalid"}

VARIABLES
    fn,        \* the function called
    filter,    \* its arguments, as sequences of characters
    topic,
    fp,        \* the pointers into them; Len + 1 is the terminating 0
    tp,
    ret        \* None before the return, then "match", "no" or "invalid"

matchVars == <<fn, filter, topic, fp, tp, ret>>

----------------------------------------------------------------------------
(* topic_filter_valid. *)
FilterValid(s) ==
    /\ Len(s) > 0
    /\ \A p \in 1 .. Len(s) :
         /\ s[p] = "#" => p = Len(s) /\ (p = 1 \/ s[p - 1] = "/")
         /\ s[p] = "+" => /\ p = 1 \/ s[p - 1] = "/"
                          /\ p = Len(s) \/ s[p + 1] = "/"

(* The character under a pointer. *)
At(s, i) == IF i > Len(s) THEN "0" ELSE s[i]

\* Mutant: one character too far.
SkipLevel_Past(s, i) ==
    LET slash == First({j \in i .. Len(s) : s[j] = "/"})
    IN IF slash = None THEN Len(s) + 2 ELSE slash + 1

(* The pointer after the rest of the level at i, which may be empty. *)
SkipLevel(s, i) ==
    LET slash == First({j \in i .. Len(s) : s[j] = "/"})
    IN IF slash = None THEN Len(s) + 1 ELSE slash

(* Only topic.c refuses wildcards for topics that start with '$'. *)
DollarRule(g, flt, top) ==
    g = "topic" /\ At(top, 1) = "$" /\ At(flt, 1) \in {"+", "#"}

MatchInit ==
    /\ fn \in Functions
    /\ filter \in Filters
    /\ topic \in Topics
    /\ fp = 1
    /\ tp = 1
    /\ ret = IF ~FilterValid(filter) THEN "invalid"
             ELSE IF DollarRule(fn, filter, topic) THEN "no" ELSE None

InLoop == ret = None /\ At(filter, fp) # "0" /\ At(topic, tp) # "0"

(* A '#' in the loop matches what is left of the topic. *)
Hash ==
    /\ InLoop
    /\ At(filter, fp) = "#"
    /\ ret' = IF fn = "peer" /\ At(filter, fp + 1) # "0" THEN "no" ELSE "match"
    /\ UNCHANGED <<fn, filter, topic, fp, tp>>

(* A '+' skips a level; topic_match_local takes the separator with it. *)
Plus ==
    LET end == SkipLevel(topic, tp)
        both == fn = "peer" /\ At(filter, fp + 1) = "/" /\ At(topic, end) = "/"
    IN
    /\ InLoop
    /\ At(filter, fp) = "+"
    /\ fp' = IF both THEN fp + 2 ELSE fp + 1
    /\ tp' = IF both THEN end + 1 ELSE end
    /\ UNCHANGED <<fn, filter, topic, ret>>

(* Other characters have to be equal. *)
Compare ==
    /\ InLoop
    /\ At(filter, fp) \notin {"#", "+"}
    /\ IF At(filter, fp) = At(topic, tp)
       THEN fp' = fp + 1 /\ tp' = tp + 1 /\ UNCHANGED ret
       ELSE ret' = "no" /\ UNCHANGED <<fp, tp>>
    /\ UNCHANGED <<fn, filter, topic>>

\* Mutant: only topic_match_local has the rule.
ParentHash_Peer ==
    fn = "peer" /\ At(filter, fp) = "/" /\ At(filter, fp + 1) = "#"

(* "x/#" after x, the parent level. *)
ParentHash ==
    /\ fn # "router"
    /\ At(filter, fp) = "/" /\ At(filter, fp + 1) = "#" /\ At(filter, fp + 2) = "0"
    /\ fn # "peer" => At(topic, tp) = "0"

\* Mutant: the topic may go on where the filter has ended.
Accepts_Prefix ==
    \/ fn # "peer" /\ At(filter, fp) = "#"
    \/ ParentHash
    \/ At(filter, fp) = "0"

(* What is accepted after the loop. *)
Accepts ==
    \/ fn # "peer" /\ At(filter, fp) = "#"
    \/ ParentHash
    \/ At(filter, fp) = "0" /\ At(topic, tp) = "0"

Return ==
    /\ ret = None
    /\ At(filter, fp) = "0" \/ At(topic, tp) = "0"
    /\ ret' = IF Accepts THEN "match" ELSE "no"
    /\ UNCHANGED <<fn, filter, topic, fp, tp>>

MatchNext == Hash \/ Plus \/ Compare \/ Return

MatchSpec == MatchInit /\ [][MatchNext]_matchVars

----------------------------------------------------------------------------
(* The definition of MQTT 3.1.1, section 4.7: a string is a sequence of    *)
(* levels separated by '/'.                                                *)
Cuts(s) == {0, Len(s) + 1} \cup {i \in 1 .. Len(s) : s[i] = "/"}

LevelCount(s) == Cardinality(Cuts(s)) - 1

Level(s, n) ==
    LET from == CHOOSE c \in Cuts(s) : Cardinality({d \in Cuts(s) : d < c}) = n - 1
        to   == CHOOSE c \in Cuts(s) : Cardinality({d \in Cuts(s) : d < c}) = n
    IN SubSeq(s, from + 1, to - 1)

Last(s) == Level(s, LevelCount(s))

LevelsMatch(flt, top) ==
    LET n == LevelCount(flt)
        rest == Last(flt) = <<"#">>
    IN /\ \A i \in 1 .. (IF rest THEN n - 1 ELSE n) :
            i <= LevelCount(top) /\ Level(flt, i) \in {<<"+">>, Level(top, i)}
       /\ IF rest THEN LevelCount(top) >= n - 1 ELSE LevelCount(top) = n

(* '#' is the last level and '+' a whole level. *)
WellFormed(flt) ==
    /\ Len(flt) > 0
    /\ \A n \in 1 .. LevelCount(flt) :
         LET l == Level(flt, n)
             has(ch) == \E i \in 1 .. Len(l) : l[i] = ch
         IN /\ has("+") => l = <<"+">>
            /\ has("#") => l = <<"#">> /\ n = LevelCount(flt)

Matches(g, flt, top) == LevelsMatch(flt, top) /\ ~DollarRule(g, flt, top)

----------------------------------------------------------------------------
(* The characters that shard_key_from_str copies: up to a wildcard or the  *)
(* last separator that counts.                                             *)
KeyCopied(s) ==
    LET stop == First({i \in 1 .. Len(s) :
                    \/ s[i] \in {"+", "#"}
                    \/ s[i] = "/" /\ Cardinality({j \in 1 .. i : s[j] = "/"}) = P2P_SHARD_KEY_LEVELS})
    IN IF stop = None THEN s
       ELSE SubSeq(s, 1, IF s[stop] = "/" THEN stop ELSE stop - 1)

\* Mutant: the separators at the end are kept.
ShardKey_Slashes(s) == KeyCopied(s)

(* shard_key_from_str, the key of a topic and of a filter. *)
ShardKey(s) ==
    LET k == KeyCopied(s)
        ends == {i \in 1 .. Len(k) : \A j \in i .. Len(k) : k[j] = "/"}
        first == First(ends)
    IN IF first = None THEN k ELSE SubSeq(k, 1, first - 1)

----------------------------------------------------------------------------
(* Properties. *)

(* The pointers of the four loops never pass the terminating 0 of their    *)
(* strings.                                                                *)
PointersInBounds ==
    /\ fp \in 1 .. Len(filter) + 1
    /\ tp \in 1 .. Len(topic) + 1
    /\ ret \in {None, "match", "no", "invalid"}

(* topic_filter_valid lets only well-formed filters through, and no        *)
(* function reports a match that MQTT does not define, so no message is    *)
(* delivered or forwarded to a subscriber that did not ask for it; only    *)
(* the '$' rule is left to topic.c.                                        *)
Sound ==
    /\ ret # "invalid" => WellFormed(filter)
    /\ ret = "match" => Matches(fn, filter, topic)

(* topic_filter_valid refuses no well-formed filter, and topic_match and   *)
(* mqtt_topic_match find every match, unless the topic ends with an empty  *)
(* level.                                                                  *)
Complete ==
    /\ ret = "invalid" => ~WellFormed(filter)
    /\ ret = "no" /\ fn \in {"topic", "broker"} /\ Last(topic) # <<>>
       => ~Matches(fn, filter, topic)

(* p2p_shard_owner_for_filter and p2p_shard_owner_for_topic name the same  *)
(* owner for a filter and every topic that it matches, unless the filter   *)
(* has a wildcard among the levels that make the key.                      *)
SameShard ==
    ret \in {"match", "no"} /\ LevelsMatch(filter, topic)
    /\ (\A n \in 1 .. LevelCount(filter) :
           n <= P2P_SHARD_KEY_LEVELS => Level(filter, n) \notin {<<"+">>, <<"#">>})
    => ShardKey(filter) = ShardKey(topic)

(* "return 1 if topic matches filter (supports + and #)", for all topics.  *)
TopicComplete == ret = "no" /\ fn = "topic" => ~Matches(fn, filter, topic)

(* p2p_router_find_next_hops finds the routes of all filters that match:   *)
(* the matching function of the router accepts what topic.c of the         *)
(* subscriber's node accepts.                                              *)
RouterComplete ==
    ret = "no" /\ fn = "router" /\ Last(topic) # <<>> => ~Matches(fn, filter, topic)
=============================================================================
