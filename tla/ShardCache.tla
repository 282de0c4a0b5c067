----------------------------- MODULE ShardCache -----------------------------
(***************************************************************************)
(* The owner of a shard (p2p_shard.c): a router of the election table,     *)
(* chosen by a hash of the key.  The answers are cached under the          *)
(* signature of the topology, in a hash table shared by all threads and in *)
(* a ring of each thread.  A lookup reads the signature, the caches and    *)
(* the table under three locks, one after the other, while the election    *)
(* goes on.                                                                *)
(***************************************************************************)
EXTENDS Election, SequencesExt

CONSTANTS
    Self,           \* the identifier of this broker
    Thread,
    Key,            \* shard keys other than the empty one
    KeyHash,        \* fnv1a32 of a key
    Home(_, _),     \* shard_cache_key_hash of a signature and a key
    P2P_SHARD_OWNER_CACHE_SIZE,
    RingSize        \* entries of thread_cache, 8

CacheIdx == 0 .. P2P_SHARD_OWNER_CACHE_SIZE - 1
RingIdx == 0 .. RingSize - 1

ASSUME ShardAssumption ==
    /\ Self \in Node
    /\ P2P_SHARD_OWNER_CACHE_SIZE \in Nat \ {0} /\ RingSize \in Nat \ {0}
    /\ KeyHash \in [Key -> Nat]

VARIABLES
    broker,         \* the election state
    owner_cache, thread_cache, thread_cache_pos,
    look            \* the lookup a thread is in, or None

vars == <<broker, owner_cache, thread_cache, thread_cache_pos, look>>
cacheVars == <<owner_cache, thread_cache, thread_cache_pos>>

IsEntry(e, sig, k) == e # None /\ e.sig = sig /\ e.key = k

(* The entry that is probed in step s. *)
Probe(sig, k, s) == (Home(sig, k) + s) % P2P_SHARD_OWNER_CACHE_SIZE

(* The steps of a probe that come to a match or to an unused entry. *)
Stops(sig, k) ==
    {s \in CacheIdx : LET e == owner_cache[Probe(sig, k, s)]
                      IN e = None \/ IsEntry(e, sig, k)}

(* shard_cache_lookup: the index of the entry, or None. *)
CacheFind(sig, k) ==
    IF Stops(sig, k) = {} THEN None
    ELSE LET i == Probe(sig, k, Min(Stops(sig, k)))
         IN IF owner_cache[i] = None THEN None ELSE i

RingFind(t, sig, k) == First({i \in RingIdx : IsEntry(thread_cache[t][i], sig, k)})

\* Mutant: an entry with the same key is not looked for.
CacheSlot_Unused(sig, k) ==
    LET unused == {s \in CacheIdx : owner_cache[Probe(sig, k, s)] = None}
    IN Probe(sig, k, IF unused = {} THEN 0 ELSE Min(unused))

(* shard_cache_store: the entry of the key, an unused one, or the home     *)
(* entry of a full table.                                                  *)
CacheSlot(sig, k) == Probe(sig, k, IF Stops(sig, k) = {} THEN 0 ELSE Min(Stops(sig, k)))

RingNext(i) == (i + 1) % RingSize

(* The routers of p2p_election_snapshot, and the one the key belongs to. *)
Routers(b) == {e.id : e \in {d \in Entries(b.peers) : d.role = "ROUTER"}}

OwnerAmong(R, k) == SetToSortSeq(R, <)[(KeyHash[k] % Cardinality(R)) + 1]

OwnerOf(b, k) == OwnerAmong(Routers(b), k)

----------------------------------------------------------------------------
Init ==
    /\ \E in \in Fresh : broker = InitBroker(Self, in)
    /\ owner_cache = [i \in CacheIdx |-> None]
    /\ thread_cache = [t \in Thread |-> [i \in RingIdx |-> None]]
    /\ thread_cache_pos = [t \in Thread |-> 0]
    /\ look = [t \in Thread |-> None]

(* An announcement is sent: build_announce recomputes the role. *)
Announce ==
    /\ \E in \in Input(broker.peers) : broker' = Recompute(broker, in)
    /\ UNCHANGED <<cacheVars, look>>

(* An announcement is heard; a broker of a static network is a router. *)
Hear ==
    /\ \E in \in Input(broker.peers), ann \in Ann :
         /\ StaticSeedsOnly => ann.role = "ROUTER"
         /\ broker' = UpdatePeer(broker, ann, in)
    /\ UNCHANGED <<cacheVars, look>>

(* shard_owner_id_from_key reads the signature and misses thread_cache; a  *)
(* hit changes nothing.                                                    *)
Lookup(t, k) ==
    /\ look[t] = None
    /\ RingFind(t, broker.sig, k) = None
    /\ look' = [look EXCEPT ![t] = [key |-> k, sig |-> broker.sig, step |-> "cache",
                                    owner |-> Self]]
    /\ UNCHANGED <<broker, cacheVars>>

CacheLookup(t) ==
    /\ look[t] # None
    /\ look[t].step = "cache"
    /\ look' = [look EXCEPT ![t] = IF CacheFind(@.sig, @.key) # None THEN None
                                   ELSE [@ EXCEPT !.step = "snapshot"]]
    /\ UNCHANGED <<broker, cacheVars>>

(* Without any router the broker is the owner, and nothing is cached. *)
Snapshot(t) ==
    /\ look[t] # None
    /\ look[t].step = "snapshot"
    /\ look' = [look EXCEPT ![t] = IF Routers(broker) = {} THEN None
                                   ELSE [@ EXCEPT !.step = "store",
                                                  !.owner = OwnerOf(broker, look[t].key)]]
    /\ UNCHANGED <<broker, cacheVars>>

Store(t) ==
    LET e == [sig |-> look[t].sig, key |-> look[t].key, owner |-> look[t].owner] IN
    /\ look[t] # None
    /\ look[t].step = "store"
    /\ owner_cache' = [owner_cache EXCEPT ![CacheSlot(e.sig, e.key)] = e]
    /\ thread_cache' = [thread_cache EXCEPT ![t][thread_cache_pos[t]] = e]
    /\ thread_cache_pos' = [thread_cache_pos EXCEPT ![t] = RingNext(@)]
    /\ look' = [look EXCEPT ![t] = None]
    /\ UNCHANGED broker

Next == \/ Announce \/ Hear
        \/ \E t \in Thread : \/ CacheLookup(t) \/ Snapshot(t) \/ Store(t)
                             \/ \E k \in Key : Lookup(t, k)

Spec == Init /\ [][Next]_vars

(* An environment in which the topology changes only between lookups. *)
Serial == broker' # broker => \A t \in Thread : look[t] = None

----------------------------------------------------------------------------
(* Properties. *)

Cached == [sig : Seq(Int), key : Key, owner : Node]

(* The caches and the locals of the threads keep their types: no probe and *)
(* no position of a ring leaves its array.                                 *)
TypeOK ==
    /\ broker \in Broker
    /\ owner_cache \in [CacheIdx -> Cached \cup {None}]
    /\ thread_cache \in [Thread -> [RingIdx -> Cached \cup {None}]]
    /\ thread_cache_pos \in [Thread -> RingIdx]
    /\ look \in [Thread -> [key : Key, sig : Seq(Int), owner : Node,
                            step : {"cache", "snapshot", "store"}] \cup {None}]

(* Every entry of the shared table is found by the lookup of its signature *)
(* and key: two threads that miss together write one entry, and the        *)
(* eviction from a full table breaks no probe.                             *)
EntryFound ==
    \A i \in CacheIdx :
        owner_cache[i] # None => CacheFind(owner_cache[i].sig, owner_cache[i].key) = i

CurrentEntries ==
    {e \in Range(owner_cache) \cup UNION {Range(thread_cache[t]) : t \in Thread} :
        e # None /\ e.sig = broker.sig}

Answer(k) == IF Routers(broker) = {} THEN Self ELSE OwnerOf(broker, k)

(* A shard has "one primary owner broker": what the caches answer under    *)
(* the current signature is what shard_owner_id_from_key computes from the *)
(* current table, so that no two threads of the broker name different      *)
(* owners, whatever the topology went through before.                      *)
OneOwner == \A e \in CurrentEntries : e.owner = Answer(e.key)
=============================================================================
