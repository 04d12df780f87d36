--------------------------- MODULE ManagedBackend ---------------------------
(***************************************************************************)
(* The backend of the answer cache (app/cache/backend.py): in memory or in *)
(* Redis, chosen at start.  Callers are the tasks of the gateway, which    *)
(* read the version counter before every lookup and every store.  A call   *)
(* of the in-memory backend is one step, made under its lock; one of Redis *)
(* is a step per round trip, and any of them may fail.                     *)
(*                                                                         *)
(* A value is a payload, a vector of the index the key of its answer, and  *)
(* the index that of one namespace.  Ticks are seconds.                    *)
(***************************************************************************)
EXTENDS Integers, SequencesExt

CONSTANTS
    Tasks,              \* the callers
    Answers,            \* the keys of answers, as numbers for Redis to order
    Values,
    max_entries,        \* DEFAULT_MAX_ENTRIES of the in-memory backend
    index_max_entries,  \* settings.cache.semantic_max_entries
    ttl,                \* settings.cache.ttl_seconds; the counter has none
    MaxTime,            \* bound: the last tick
    Backends,           \* which backends a start may come up with
    None

Counter == 0   \* the key of the knowledge base version
Keys == Answers \cup {Counter}
Never == 0     \* an expires_at of zero

Entries == [key : Keys, value : Values, expires_at : Nat]
Strings == [value : Values, expires_at : Nat]

ASSUME BackendAssumption ==
    /\ Answers \subseteq Nat \ {0} /\ IsFiniteSet(Answers)
    /\ IsFiniteSet(Tasks)
    /\ {max_entries, index_max_entries, ttl} \subseteq Nat \ {0}
    /\ MaxTime \in Nat
    /\ Backends \subseteq {"memory", "redis"}
    /\ None \notin Values /\ None \notin Strings /\ None \notin {"memory", "redis"}

VARIABLES
    using,     \* the backend in use, None before start
    entries,   \* InMemoryCacheBackend._entries, the least recently used first
    index,     \* InMemoryCacheBackend._index, oldest first
    db,        \* Redis: the value of each key
    hash,      \* Redis: the vectors, and when they expire
    order,     \* Redis: when each vector was added, and when that expires
    task,      \* each task: what it does next and with which key
    reply,     \* the key and the result of its last get
    untrimmed, \* whether a trim was given up since the index was last counted
    now

vars == <<using, entries, index, db, hash, order, task, reply, untrimmed, now>>
memory == <<entries, index>>
redis == <<db, hash, order>>

Live(expires_at) == expires_at = Never \/ now < expires_at

-----------------------------------------------------------------------------
(* The in-memory backend *)

Holds(k) == \E i \in DOMAIN entries : entries[i].key = k

Place(k) == CHOOSE i \in DOMAIN entries : entries[i].key = k

Without(k) == IF Holds(k) THEN RemoveAt(entries, Place(k)) ELSE entries

IndexWithout(k) ==
    IF k \in ToSet(index) THEN RemoveAt(index, CHOOSE i \in DOMAIN index : index[i] = k) ELSE index

(* The last n of a sequence: popitem(last=False) until no more are left.   *)
Newest(s, n) == IF Len(s) > n THEN SubSeq(s, Len(s) - n + 1, Len(s)) ELSE s

(* Mutation: expiry is not looked at. *)
MemoryValueExpired(k) == IF Holds(k) THEN entries[Place(k)].value ELSE None

Usable(k) == Holds(k) /\ Live(entries[Place(k)].expires_at)

MemoryValue(k) == IF Usable(k) THEN entries[Place(k)].value ELSE None

(* Mutation: a hit does not count as a use. *)
GetWithoutMove(k) == entries

(* get: an expired entry is removed, another becomes the most recent.      *)
AfterGet(k) == IF Usable(k) THEN Append(Without(k), entries[Place(k)]) ELSE Without(k)

Expiry(k) == IF k = Counter THEN Never ELSE now + ttl

AfterSet(k, v) ==
    Newest(Append(Without(k), [key |-> k, value |-> v, expires_at |-> Expiry(k)]), max_entries)

AfterIndexAdd(k) == Newest(Append(IndexWithout(k), k), index_max_entries)

-----------------------------------------------------------------------------
(* Redis *)

RedisValue(k) == IF db[k] = None THEN None ELSE db[k].value

Nothing == [of |-> {}, expires_at |-> Never]
NoOrder == [of |-> <<>>, expires_at |-> Never]

Vectors == hash.of
Added == order.of

(* What Redis keeps when the clock moves: a key whose time has come is     *)
(* gone at once.                                                           *)
Surviving(x, gone) == IF x.expires_at = Never \/ now' < x.expires_at THEN x ELSE gone

(* ZRANGE 0 excess-1: the oldest, equally old ones by key. *)
Oldest(n) ==
    {k \in DOMAIN Added :
        Cardinality({j \in DOMAIN Added : \/ Added[j] < Added[k]
                                          \/ Added[j] = Added[k] /\ j < k}) < n}

(* HDEL and ZREM in one transaction. *)
HdelZrem(ks) ==
    /\ hash' = [hash EXCEPT !.of = Vectors \ ks]
    /\ order' = [order EXCEPT !.of = [k \in DOMAIN Added \ ks |-> Added[k]]]

-----------------------------------------------------------------------------
NoReply == <<None, None>>
Idle == [pc |-> "idle", key |-> None, excess |-> 0, stale |-> {}]

Init ==
    /\ using = None
    /\ entries = <<>> /\ index = <<>>
    /\ db = [k \in Keys |-> None] /\ hash = Nothing /\ order = NoOrder
    /\ task = [t \in Tasks |-> Idle]
    /\ reply = [t \in Tasks |-> NoReply]
    /\ untrimmed = FALSE
    /\ now = 0

(* start, open_backend: Redis if it is configured, its driver installed    *)
(* and the server reachable, and a new in-memory backend otherwise.        *)
start ==
    /\ using = None
    /\ using' \in Backends
    /\ UNCHANGED <<memory, redis, task, reply, untrimmed, now>>

At(t, place) == using # None /\ task[t].pc = place
Goto(t, place, k) == task' = [task EXCEPT ![t] = [Idle EXCEPT !.pc = place, !.key = k]]
Used(t) == reply' = [reply EXCEPT ![t] = NoReply]

(* get, through whichever backend is in use. *)
GetBy(t, k) ==
    /\ reply' = [reply EXCEPT ![t] =
          <<k, IF using = "memory" THEN MemoryValue(k) ELSE RedisValue(k)>>]
    /\ entries' = IF using = "memory" THEN AfterGet(k) ELSE entries
    /\ UNCHANGED <<index, redis, untrimmed, now, using>>

SetBy(t, k, v) ==
    /\ Used(t)
    /\ IF using = "memory"
       THEN entries' = AfterSet(k, v) /\ UNCHANGED <<index, redis>>
       ELSE /\ db' = [db EXCEPT ![k] = [value |-> v, expires_at |-> Expiry(k)]]
            /\ UNCHANGED <<memory, hash, order>>
    /\ UNCHANGED <<untrimmed, now, using>>

(* The gateway resolves the version before it looks up or stores. *)
resolve(t) == At(t, "idle") /\ GetBy(t, Counter) /\ Goto(t, "resolved", None)

(* A bump writes the version it read plus one. *)
bump(t) == At(t, "resolved") /\ (\E v \in Values : SetBy(t, Counter, v)) /\ Goto(t, "idle", None)

get(t) == At(t, "resolved") /\ \E k \in Answers : GetBy(t, k) /\ Goto(t, "got", k)

(* A hit is served and a miss is computed: the lookup is over. *)
finish(t) ==
    /\ At(t, "got")
    /\ Goto(t, "idle", None)
    /\ Used(t)
    /\ UNCHANGED <<using, memory, redis, untrimmed, now>>

(* An unusable answer is deleted, and the lookup goes on. *)
delete(t) ==
    LET k == task[t].key IN
    /\ At(t, "got") /\ reply[t][2] # None
    /\ IF using = "memory"
       THEN entries' = Without(k) /\ UNCHANGED <<index, redis>>
       ELSE db' = [db EXCEPT ![k] = None] /\ UNCHANGED <<memory, hash, order>>
    /\ Goto(t, "resolved", None)
    /\ Used(t)
    /\ UNCHANGED <<using, untrimmed, now>>

(* A vector whose answer is gone is removed, and the lookup goes on. *)
index_remove(t) ==
    LET k == task[t].key IN
    /\ At(t, "got") /\ reply[t][2] = None
    /\ IF using = "memory"
       THEN index' = IndexWithout(k) /\ UNCHANGED <<entries, redis>>
       ELSE HdelZrem({k}) /\ UNCHANGED <<memory, db>>
    /\ Goto(t, "resolved", None)
    /\ Used(t)
    /\ UNCHANGED <<using, untrimmed, now>>

set(t) ==
    /\ At(t, "resolved")
    /\ \E k \in Answers, v \in Values : SetBy(t, k, v) /\ Goto(t, "index_add", k)

(* index_add: Redis adds to the hash and to the order, and refreshes the   *)
(* expiry of both, in one transaction; the trim follows.                   *)
index_add(t) ==
    LET k == task[t].key IN
    /\ At(t, "index_add")
    /\ IF using = "memory"
       THEN index' = AfterIndexAdd(k) /\ Goto(t, "idle", None) /\ UNCHANGED <<entries, redis>>
       ELSE /\ hash' = [of |-> Vectors \cup {k}, expires_at |-> now + ttl]
            /\ order' = [of |-> [j \in DOMAIN Added \cup {k} |-> IF j = k THEN now ELSE Added[j]],
                         expires_at |-> now + ttl]
            /\ Goto(t, "zcard", None)
            /\ UNCHANGED <<memory, db>>
    /\ UNCHANGED <<using, reply, untrimmed, now>>

(* Mutation: one entry too many is tolerated. *)
CountOneShort(t) ==
    LET excess == Cardinality(DOMAIN Added) - index_max_entries - 1 IN
    /\ At(t, "zcard")
    /\ task' = [task EXCEPT ![t] = IF excess <= 0 THEN Idle
                                   ELSE [Idle EXCEPT !.pc = "zrange", !.excess = excess]]
    /\ untrimmed' = FALSE
    /\ UNCHANGED <<using, memory, redis, reply, now>>

(* _trim counts the entries ... *)
zcard(t) ==
    LET excess == Cardinality(DOMAIN Added) - index_max_entries IN
    /\ At(t, "zcard")
    /\ task' = [task EXCEPT ![t] = IF excess <= 0 THEN Idle
                                   ELSE [Idle EXCEPT !.pc = "zrange", !.excess = excess]]
    /\ untrimmed' = FALSE
    /\ UNCHANGED <<using, memory, redis, reply, now>>

(* ... asks for as many of the oldest ... *)
zrange(t) ==
    LET stale == Oldest(task[t].excess) IN
    /\ At(t, "zrange")
    /\ task' = [task EXCEPT ![t] = IF stale = {} THEN Idle
                                   ELSE [Idle EXCEPT !.pc = "trim", !.stale = stale]]
    /\ UNCHANGED <<using, memory, redis, reply, untrimmed, now>>

(* ... and removes them. *)
trim(t) ==
    /\ At(t, "trim")
    /\ HdelZrem(task[t].stale)
    /\ Goto(t, "idle", None)
    /\ UNCHANGED <<using, memory, db, reply, untrimmed, now>>

(* A call of Redis fails, and the gateway gives up what it was doing.      *)
_call_fails(t) ==
    /\ using = "redis" /\ task[t].pc # "idle"
    /\ Goto(t, "idle", None)
    /\ untrimmed' = (untrimmed \/ task[t].pc \in {"zcard", "zrange", "trim"})
    /\ Used(t)
    /\ UNCHANGED <<using, memory, redis, now>>

(* clear, or a Redis that restarts without its data. *)
clear ==
    /\ using # None
    /\ IF using = "memory"
       THEN entries' = <<>> /\ index' = <<>> /\ UNCHANGED redis
       ELSE /\ db' = [k \in Keys |-> None] /\ hash' = Nothing /\ order' = NoOrder
            /\ UNCHANGED memory
    /\ UNCHANGED <<using, task, reply, untrimmed, now>>

Tick ==
    /\ now < MaxTime
    /\ now' = now + 1
    /\ db' = [k \in Keys |-> IF db[k] = None THEN None ELSE Surviving(db[k], None)]
    /\ hash' = Surviving(hash, Nothing)
    /\ order' = Surviving(order, NoOrder)
    /\ UNCHANGED <<using, memory, task, reply, untrimmed>>

Next ==
    \/ start
    \/ \E t \in Tasks :
          \/ resolve(t) \/ bump(t) \/ get(t) \/ finish(t) \/ delete(t) \/ index_remove(t)
          \/ set(t) \/ index_add(t) \/ zcard(t) \/ zrange(t) \/ trim(t) \/ _call_fails(t)
    \/ clear
    \/ Tick

Spec == Init /\ [][Next]_vars

-----------------------------------------------------------------------------
(* Properties *)

TypeOK ==
    /\ using \in {"memory", "redis", None}
    /\ entries \in Seq(Entries) /\ Len(entries) <= max_entries
    /\ index \in Seq(Answers) /\ Len(index) <= index_max_entries
    /\ db \in [Keys -> Strings \cup {None}]
    /\ Vectors \subseteq Answers /\ DOMAIN Added \subseteq Answers
    /\ \A t \in Tasks : task[t].key \in Answers \cup {None}
    /\ reply \in [Tasks -> (Keys \cup {None}) \X (Values \cup {None})]

(* Whichever backend a start comes up with, the gateway gets what it       *)
(* relies on: a get returns the value last set, or nothing once it has     *)
(* expired, been evicted, deleted or cleared.                              *)
InForce(k) ==
    {e.value : e \in {x \in ToSet(entries) : using = "memory" /\ x.key = k /\ Live(x.expires_at)}}
    \cup {d.value : d \in {x \in {db[k]} \ {None} : using = "redis"}}

Stored == [k \in Keys |-> IF InForce(k) = {} THEN None ELSE CHOOSE v \in InForce(k) : TRUE]

Store == INSTANCE LossyStore WITH Callers <- Tasks, stored <- Stored

ImplementsLossyStore == Store!Spec

(* The counter "must outlive the entries it invalidates"                   *)
(* (cache/versions.py): although it is one more entry among those the      *)
(* in-memory backend evicts, no eviction ever reaches it, because every    *)
(* lookup and every store reads it first and fewer tasks run than entries  *)
(* fit.                                                                    *)
CounterIsNeverEvicted ==
    [][Holds(Counter) => Holds(Counter)' \/ entries' = <<>>]_vars

(* The two structures of a Redis namespace hold the same vectors, although *)
(* trims and removals overlap, fail half way and meet an expiry.  "This    *)
(* bounds the cost of a miss as much as it bounds memory"                  *)
(* (settings.semantic_max_entries): when no add is under way and none was  *)
(* left untrimmed, the index is within its bound, although the count, the  *)
(* range and the removal of a trim are separate calls.                     *)
IndexIsWhole ==
    /\ Vectors = DOMAIN Added
    /\ (\A t \in Tasks : task[t].pc \notin {"zcard", "zrange", "trim"}) /\ ~untrimmed =>
         Cardinality(Vectors) <= index_max_entries /\ Len(index) <= index_max_entries
=============================================================================
