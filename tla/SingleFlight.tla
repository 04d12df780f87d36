---------------------------- MODULE SingleFlight ----------------------------
(***************************************************************************)
(* AsyncTTLCache (app/core/cache.py), the in-process cache with            *)
(* single-flight loading that holds query embeddings, and the callers of   *)
(* EmbeddingService.embed_text that share it.                              *)
(*                                                                         *)
(* The callers are tasks of one event loop: a step runs from one await to  *)
(* the next.  The cache's lock is anyio.Lock: first come first served, and *)
(* released straight into the hands of the longest waiter.  An event is    *)
(* named after the caller that registered it.                              *)
(***************************************************************************)
EXTENDS Naturals, Sequences, SequencesExt

CONSTANTS
    Callers,       \* the tasks
    Keys,          \* the texts they ask for
    MaxSizes,      \* the values of resilience.embedding_cache_size; 0 disables the cache
    TTL,           \* resilience.embedding_cache_ttl_seconds, in ticks
    MaxTime,       \* bound: the last tick of the clock
    Operations,    \* what they call: get_or_load ("read"), "get", "clear"
    LoadsFail,     \* whether a load may raise
    Cancellation,  \* whether a request deadline may cancel a task
    None           \* no caller

ASSUME FlightAssumption ==
    /\ MaxSizes \subseteq Nat
    /\ Operations \subseteq {"read", "get", "clear"}
    /\ TTL \in Nat \ {0}
    /\ MaxTime \in Nat
    /\ LoadsFail \in BOOLEAN
    /\ Cancellation \in BOOLEAN
    /\ None \notin Callers

VARIABLES
    pc,       \* where each caller is
    key,      \* what it asks for
    event,    \* the event it found in flight, None before that
    outcome,  \* how its own load ended: "none", "ok", "error" or "cancelled"
    entries,  \* _entries, least recently used first
    loading,  \* _loading: the caller whose event is registered for a key
    fired,    \* the callers whose event has been set
    owner,    \* _lock: the caller that holds it
    queue,    \* _lock: the callers waiting for it, in order of arrival
    now,      \* the clock
    max_size, \* _max_size, fixed at construction
    loads     \* how many loads of a key have returned a value

vars == <<pc, key, event, outcome, entries, loading, fired, owner, queue, now,
          max_size, loads>>

Entries == [key : Keys, expires_at : Nat]

(* A caller holds the lock or is queued for it in these places. *)
Locking == {"get", "read", "pop", "set", "clear"}
Ended == {"done", "failed", "cancelled"}
Places == {"idle", "wait", "load", "load_uncached"} \cup Locking \cup Ended

enabled == max_size > 0

-----------------------------------------------------------------------------
(* anyio.Lock *)

Acquire(c) ==
    IF owner = None
    THEN owner' = c /\ UNCHANGED queue
    ELSE queue' = Append(queue, c) /\ UNCHANGED owner

Release ==
    IF queue = <<>>
    THEN owner' = None /\ UNCHANGED queue
    ELSE owner' = Head(queue) /\ queue' = Tail(queue)

(* Leaving one `async with` and entering the next with no await between. *)
ReleaseAndAcquire(c) ==
    IF queue = <<>>
    THEN UNCHANGED <<owner, queue>>
    ELSE owner' = Head(queue) /\ queue' = Append(Tail(queue), c)

-----------------------------------------------------------------------------
(* The table *)

Holds(k) == \E i \in DOMAIN entries : entries[i].key = k

(* Where an entry is, of a key that has one. *)
Place(k) == CHOOSE i \in DOMAIN entries : entries[i].key = k

Without(k) == IF Holds(k) THEN RemoveAt(entries, Place(k)) ELSE entries
Live(k) == Holds(k) /\ entries[Place(k)].expires_at > now

(* _read: an expired entry is deleted, a live one becomes the most recent. *)
_read(k) == IF Live(k) THEN Append(Without(k), entries[Place(k)]) ELSE Without(k)

(* _write: the new entry is the most recent; the least recent one makes    *)
(* room for it.                                                            *)
_write(k) ==
    LET written == Append(Without(k), [key |-> k, expires_at |-> now + TTL])
    IN  IF Len(written) > max_size THEN Tail(written) ELSE written

-----------------------------------------------------------------------------
Init ==
    /\ pc = [c \in Callers |-> "idle"]
    /\ key \in [Callers -> Keys]
    /\ event = [c \in Callers |-> None]
    /\ outcome = [c \in Callers |-> "none"]
    /\ entries = <<>>
    /\ loading = [k \in Keys |-> None]
    /\ fired = {}
    /\ owner = None
    /\ queue = <<>>
    /\ now = 0
    /\ max_size \in MaxSizes
    /\ loads = [k \in Keys |-> 0]

Goto(c, place) == pc' = [pc EXCEPT ![c] = place]

(* get_or_load, get or clear is called and asks for the lock.  A disabled  *)
(* cache goes straight to the loader.                                      *)
Call(c) ==
    /\ pc[c] = "idle"
    /\ IF enabled
       THEN /\ \E place \in Operations : Goto(c, place)
            /\ Acquire(c)
       ELSE /\ Goto(c, "load_uncached")
            /\ UNCHANGED <<owner, queue>>
    /\ UNCHANGED <<key, event, outcome, entries, loading, fired, now, max_size, loads>>

LoadUncached(c) ==
    /\ pc[c] = "load_uncached"
    /\ \/ Goto(c, "done") /\ loads' = [loads EXCEPT ![key[c]] = @ + 1]
       \/ LoadsFail /\ Goto(c, "failed") /\ UNCHANGED loads
    /\ UNCHANGED <<key, event, outcome, entries, loading, fired, owner, queue, now, max_size>>

(* get: one read under the lock. *)
Get(c) ==
    /\ pc[c] = "get" /\ owner = c
    /\ entries' = _read(key[c])
    /\ Goto(c, "done")
    /\ Release
    /\ UNCHANGED <<key, event, outcome, loading, fired, now, max_size, loads>>

Clear(c) ==
    /\ pc[c] = "clear" /\ owner = c
    /\ entries' = <<>>
    /\ Goto(c, "done")
    /\ Release
    /\ UNCHANGED <<key, event, outcome, loading, fired, now, max_size, loads>>

(* Mutation: a miss loads without looking for a load in flight. *)
ReadIgnoringFlights(c) ==
    /\ pc[c] = "read" /\ owner = c
    /\ entries' = _read(key[c])
    /\ IF Live(key[c])
       THEN Goto(c, "done") /\ UNCHANGED loading
       ELSE Goto(c, "load") /\ loading' = [loading EXCEPT ![key[c]] = c]
    /\ Release
    /\ UNCHANGED <<key, event, outcome, fired, now, max_size, loads>>

(* One turn of get_or_load's loop under the lock: a live entry is          *)
(* returned, a load in flight is waited for, otherwise this caller's load  *)
(* is registered.                                                          *)
Read(c) ==
    LET k == key[c] IN
    /\ pc[c] = "read" /\ owner = c
    /\ entries' = _read(k)
    /\ \/ Live(k) /\ Goto(c, "done") /\ UNCHANGED <<event, loading>>
       \/ /\ ~Live(k) /\ loading[k] # None
          /\ Goto(c, "wait")
          /\ event' = [event EXCEPT ![c] = loading[k]]
          /\ UNCHANGED loading
       \/ /\ ~Live(k) /\ loading[k] = None
          /\ Goto(c, "load")
          /\ loading' = [loading EXCEPT ![k] = c]
          /\ UNCHANGED event
    /\ Release
    /\ UNCHANGED <<key, outcome, fired, now, max_size, loads>>

(* The event waited for has been set: back to the top of the loop. *)
Wake(c) ==
    /\ pc[c] = "wait" /\ event[c] \in fired
    /\ Goto(c, "read")
    /\ Acquire(c)
    /\ UNCHANGED <<key, event, outcome, entries, loading, fired, now, max_size, loads>>

(* The loader returns or raises; either way the finally block asks for the *)
(* lock.                                                                   *)
LoadEnds(c) ==
    /\ pc[c] = "load"
    /\ \/ /\ outcome' = [outcome EXCEPT ![c] = "ok"]
          /\ loads' = [loads EXCEPT ![key[c]] = @ + 1]
       \/ /\ LoadsFail
          /\ outcome' = [outcome EXCEPT ![c] = "error"]
          /\ UNCHANGED loads
    /\ Goto(c, "pop")
    /\ Acquire(c)
    /\ UNCHANGED <<key, event, entries, loading, fired, now, max_size>>

(* Mutation: waiters are woken only by a load that succeeded. *)
PopWakesOnSuccess(c) ==
    /\ pc[c] = "pop" /\ owner = c
    /\ fired' = IF outcome[c] = "ok" THEN fired \cup {c} ELSE fired
    /\ loading' = [loading EXCEPT ![key[c]] = None]
    /\ Goto(c, IF outcome[c] = "ok" THEN "set" ELSE "failed")
    /\ IF outcome[c] = "ok" THEN ReleaseAndAcquire(c) ELSE Release
    /\ UNCHANGED <<key, event, outcome, entries, now, max_size, loads>>

(* Mutation: the error path leaves the lock held. *)
PopKeepsTheLockOnError(c) ==
    /\ pc[c] = "pop" /\ owner = c
    /\ fired' = fired \cup {c}
    /\ loading' = [loading EXCEPT ![key[c]] = None]
    /\ Goto(c, IF outcome[c] = "ok" THEN "set" ELSE "failed")
    /\ IF outcome[c] = "ok" THEN ReleaseAndAcquire(c) ELSE UNCHANGED <<owner, queue>>
    /\ UNCHANGED <<key, event, outcome, entries, now, max_size, loads>>

(* The finally block: the registration goes, its event is set, and a       *)
(* loaded value goes on to `set`, which asks for the lock again.           *)
Pop(c) ==
    LET k == key[c] IN
    /\ pc[c] = "pop" /\ owner = c
    /\ fired' = fired \cup ({loading[k]} \ {None})
    /\ loading' = [loading EXCEPT ![k] = None]
    /\ \/ outcome[c] = "ok" /\ Goto(c, "set") /\ ReleaseAndAcquire(c)
       \/ outcome[c] = "error" /\ Goto(c, "failed") /\ Release
       \/ outcome[c] = "cancelled" /\ Goto(c, "cancelled") /\ Release
    /\ UNCHANGED <<key, event, outcome, entries, now, max_size, loads>>

Set(c) ==
    /\ pc[c] = "set" /\ owner = c
    /\ entries' = _write(key[c])
    /\ Goto(c, "done")
    /\ Release
    /\ UNCHANGED <<key, event, outcome, loading, fired, now, max_size, loads>>

(* The request's deadline passes.  A cancelled scope raises at every await *)
(* until it is left: a task waiting for the event or in the lock's queue   *)
(* leaves at once; one inside the loader is thrown out of the finally      *)
(* block's wait for the lock as well, unless the lock reaches it first.    *)
Cancel(c) ==
    /\ Cancellation
    /\ \/ /\ pc[c] \in {"wait", "load", "load_uncached"}
          /\ Goto(c, "cancelled")
          /\ UNCHANGED <<outcome, owner, queue>>
       \/ /\ pc[c] \in Locking /\ owner # c
          /\ Goto(c, "cancelled")
          /\ \E i \in DOMAIN queue : queue[i] = c /\ queue' = RemoveAt(queue, i)
          /\ UNCHANGED <<outcome, owner>>
       \/ /\ pc[c] = "load" /\ owner # None
          /\ Goto(c, "pop")
          /\ outcome' = [outcome EXCEPT ![c] = "cancelled"]
          /\ Acquire(c)
    /\ UNCHANGED <<key, event, entries, loading, fired, now, max_size, loads>>

Tick ==
    /\ now < MaxTime
    /\ now' = now + 1
    /\ UNCHANGED <<pc, key, event, outcome, entries, loading, fired, owner, queue,
                   max_size, loads>>

Progress(c) ==
    \/ Get(c) \/ Clear(c) \/ Read(c) \/ Wake(c) \/ LoadUncached(c)
    \/ LoadEnds(c) \/ Pop(c) \/ Set(c)

Next == Tick \/ \E c \in Callers : Call(c) \/ Progress(c) \/ Cancel(c)

(* The event loop runs every ready task, and a load ends: the embedding    *)
(* client has a timeout and a bounded number of retries.                   *)
Fairness == \A c \in Callers : WF_vars(Progress(c))

Spec == Init /\ [][Next]_vars /\ Fairness

-----------------------------------------------------------------------------
(* Properties *)

(* The table holds at most max_size entries and one entry per key. *)
TableIsBounded ==
    /\ Len(entries) <= max_size
    /\ \A i, j \in DOMAIN entries : entries[i].key = entries[j].key => i = j

(* Every variable has its type, and the table its bound, whatever expires, *)
(* is loaded and is cleared at the same time.                              *)
TypeOK ==
    /\ pc \in [Callers -> Places]
    /\ key \in [Callers -> Keys]
    /\ event \in [Callers -> Callers \cup {None}]
    /\ outcome \in [Callers -> {"none", "ok", "error", "cancelled"}]
    /\ entries \in Seq(Entries)
    /\ loading \in [Keys -> Callers \cup {None}]
    /\ fired \subseteq Callers
    /\ owner \in Callers \cup {None}
    /\ queue \in Seq(Callers)
    /\ now \in 0 .. MaxTime
    /\ max_size \in MaxSizes
    /\ loads \in [Keys -> Nat]
    /\ TableIsBounded

(* No two loads of one key run at the same time: a miss that finds a load  *)
(* in flight does not start another.                                       *)
OneLoadAtATime ==
    \A c, d \in Callers :
        c # d /\ key[c] = key[d] => ~(pc[c] = "load" /\ pc[d] = "load")

(* No lost wake-up: the event a caller waits for has been set, or is still *)
(* registered by a caller that is loading the key or about to pop the      *)
(* registration, and so will set it, whether that load fails or not.       *)
(* Loaders cancelled before they could pop are excluded: their event is    *)
(* registered and nobody will set it, which EveryCallEnds shows.           *)
NoLostWakeup ==
    \A c \in Callers : pc[c] = "wait" =>
        LET loader == event[c]
        IN  \/ loader \in fired
            \/ /\ loading[key[c]] = loader /\ key[loader] = key[c]
               /\ pc[loader] \in {"load", "pop", "cancelled"}

(* Nobody outside a locked section keeps the lock, nobody is queued twice, *)
(* and nobody queues for a free lock.                                      *)
LockIsHandedOn ==
    /\ owner = None => queue = <<>>
    /\ owner # None => pc[owner] \in Locking
    /\ \A i \in DOMAIN queue : pc[queue[i]] \in Locking /\ queue[i] # owner
    /\ IsInjective(queue)

(* Every call ends.  (core/cache.py: "If that load fails, the waiter       *)
(* retries the load itself".)                                              *)
EveryCallEnds ==
    \A c \in Callers : pc[c] # "idle" ~> pc[c] \in Ended

(* A call ends if no call for its key is cancelled, whatever is cancelled, *)
(* fails, expires or is cleared elsewhere.                                 *)
EveryCallEndsUnlessCancelled ==
    \A c \in Callers :
        [](\A d \in Callers : key[d] = key[c] =>
              pc[d] # "cancelled" /\ outcome[d] # "cancelled")
        => (pc[c] # "idle" ~> pc[c] \in Ended)

(* "Concurrent misses on the same key wait for one in-flight load rather   *)
(* than each starting their own" (core/cache.py): where nothing expires,   *)
(* is evicted or fails, a key is loaded at most once.                      *)
ConcurrentMissesShareOneLoad ==
    \A k \in Keys : loads[k] <= 1
=============================================================================
