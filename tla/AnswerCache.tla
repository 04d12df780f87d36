---------------------------- MODULE AnswerCache ----------------------------
(***************************************************************************)
(* The answer cache (app/cache): CachedRagAgent in front of the graph, the *)
(* gateway that decides hit, miss or store, the knowledge base version the *)
(* entries are keyed under, and the ingestion pipeline that advances it.   *)
(*                                                                         *)
(* Several processes (API replicas, the offline ingestion command) share   *)
(* one backend, as they do with Redis.  A step is one call of the backend, *)
(* the vector store or the conversation memory; between two calls anything *)
(* else may run.  The run of the graph is what AgentRun promises: a legal  *)
(* result or an exception.                                                 *)
(*                                                                         *)
(* A question is a query normalised to something other than blank, a text  *)
(* in the corpus is an ingested batch, and the model and prompt versions   *)
(* are those of one deployment, so that a version is the knowledge base's. *)
(***************************************************************************)
EXTENDS AgentResult, FiniteSets, Sequences

CONSTANTS
    Processes,        \* the processes that share the backend
    Requests,         \* the chat requests
    Ingests,          \* the ingestions
    Batches,          \* the batches the chunks of one ingestion are written in
    Questions,        \* the normalised queries
    Similar,          \* the pairs of questions above similarity_threshold
    Sessions,         \* the conversations
    RequestAt,        \* the process that serves a request
    IngestAt,         \* the process that runs an ingestion
    semantic_enabled, \* settings.cache
    ttl,              \* settings.cache.ttl_seconds, in ticks
    MaxTime,          \* bound: the last tick
    BackendFails,     \* whether a call of the backend or an embedding may raise
    UpsertsFail,      \* whether a write to the vector store may raise
    Evictions,        \* which the backend may drop singly: "answers", "vectors"
    Flushes,          \* bound: how often the backend may lose all it holds
    None

Versions == 0 .. Cardinality(Ingests)
Chunks == Ingests \X Batches

(* answer_key: the version is part of the key. *)
Keys == Versions \X Questions

(* What CachedAnswer holds that matters here.  The last four fields are    *)
(* not in the code: what the corpus held when the answer's documents were  *)
(* retrieved, whether the run saw earlier turns of a conversation, whether *)
(* another request of its session was under way together with its own, and *)
(* the version its own lookup had resolved.                                *)
Entries == [answer : Answers, verdict : Verdicts, toolFailed : BOOLEAN,
            version : Versions, expires_at : Nat,
            basis : SUBSET Chunks, context : BOOLEAN, overlapped : BOOLEAN,
            lookedUp : Versions \cup {None}]

(* What a request carries to the store: the parts of its run's result that *)
(* an entry keeps.                                                         *)
Carried == [answer : Answers, verdict : Verdicts, toolFailed : BOOLEAN]

ASSUME CacheAssumption ==
    /\ Similar \subseteq Questions \X Questions
    /\ RequestAt \in [Requests -> Processes]
    /\ IngestAt \in [Ingests -> Processes]
    /\ ttl \in Nat \ {0}
    /\ MaxTime \in Nat
    /\ {semantic_enabled, BackendFails, UpsertsFail} \subseteq BOOLEAN
    /\ Evictions \subseteq {"answers", "vectors"}
    /\ Flushes \in Nat
    /\ IsFiniteSet(Ingests)
    /\ None \notin Versions /\ None \notin Keys /\ None \notin Entries
    /\ None \notin Sessions /\ None \notin Ingests

VARIABLES
    kb,         \* the backend's kb-version key, None until it is first written
    last_known, \* KnowledgeBaseVersion._last_known of each process
    entries,    \* the backend's answers
    index,      \* the backend's vectors, as the keys they stand for
    now,        \* the clock
    flushes,    \* how often the backend has lost everything
    history,    \* the sessions the conversation memory holds turns of
    corpus,     \* the vector store: the batches written to it
    request,    \* each request: where it is and what it carries
    ingest,     \* each ingestion: where it is and the version it read
    locked,     \* KnowledgeBaseVersion._lock of each process: who holds it
    announced   \* the ingestions whose bump has returned

vars == <<kb, last_known, entries, index, now, flushes, history, corpus,
          request, ingest, locked, announced>>

backendVars == <<kb, entries, index, flushes>>
ingestVars == <<corpus, ingest, locked, announced>>

Ended == {"served", "answered", "raised"}
Places == {"idle", "resolve", "exact", "discard", "semantic", "probe", "unindex",
           "remember", "load", "retrieve", "finish", "store", "set", "index_add"} \cup Ended

(* A request at a place, carrying nothing.  Two fields are not in the      *)
(* code: known, the ingestions announced when its lookup resolved the      *)
(* version, and overlapped, whether another request of its session has     *)
(* been under way together with it.                                        *)
Bare(place, q, s) ==
    [pc |-> place, question |-> q, session |-> s, overlapped |-> FALSE, standalone |-> FALSE,
     version |-> None, lookedUp |-> None, known |-> {}, key |-> None,
     candidates |-> {}, basis |-> {}, context |-> FALSE, result |-> None]

-----------------------------------------------------------------------------
(* The gateway's decisions *)

(* KnowledgeBaseVersion.current: a backend that holds no version answers   *)
(* with the last one this process saw.                                     *)
current(p) == IF kb = None THEN last_known[p] ELSE kb

is_live(e) == now < e.expires_at
matches(e, v) == e.version = v

(* _read: an answer is used only while it is live and of the version asked *)
(* for.                                                                    *)
Usable(e, v) == is_live(e) /\ matches(e, v)

(* Mutation: a failed tool call does not count against an answer. *)
StorableDespiteTools(res) == res.answer # "empty" /\ Accepts(res.verdict)

(* _refuse: only an answer the critic stood behind is kept. *)
Storable(res) == res.answer # "empty" /\ Accepts(res.verdict) /\ ~res.toolFailed

(* Mutation: the version is written back as it was read. *)
SameVersion(v) == v

(* bump: the version after the one read. *)
NextVersion(v) == v + 1

(* _ranked_candidates: the indexed questions close enough to this one. *)
Candidates(q, v) == {k \in index : k[1] = v /\ <<q, k[2]>> \in Similar}

_entry(r) ==
    [answer |-> request[r].result.answer, verdict |-> request[r].result.verdict,
     toolFailed |-> request[r].result.toolFailed,
     version |-> request[r].version, expires_at |-> now + ttl,
     basis |-> request[r].basis, context |-> request[r].context,
     overlapped |-> request[r].overlapped,
     lookedUp |-> request[r].lookedUp]

-----------------------------------------------------------------------------
Init ==
    /\ kb = None
    /\ last_known = [p \in Processes |-> 0]
    /\ entries = [k \in Keys |-> None]
    /\ index = {}
    /\ now = 0
    /\ flushes = 0
    /\ history = {}
    /\ corpus = {}
    /\ request \in [Requests -> {Bare("idle", q, s) : q \in Questions, s \in Sessions \cup {None}}]
    /\ ingest = [i \in Ingests |-> [pc |-> "writing", read |-> None]]
    /\ locked = [p \in Processes |-> None]
    /\ announced = {}

(* Request r moves to a place, with these changes to what it carries. *)
Goto(r, place) == request' = [request EXCEPT ![r].pc = place]

End(r, place) ==
    request' = [request EXCEPT ![r] = Bare(place, request[r].question, request[r].session)]

HasHistory(r) == request[r].session \in history

(* Mutation: every question is taken to stand alone. *)
AlwaysStandalone(r) == TRUE

_is_standalone(r) == ~HasHistory(r)

UnderWay(r) == request[r].pc \notin {"idle"} \cup Ended

Companions(r) ==
    {q \in Requests \ {r} :
        UnderWay(q) /\ request[q].session = request[r].session /\ request[r].session # None}

(* invoke: does the question stand alone?  Nothing keeps two requests of a *)
(* session apart.                                                          *)
Begin(r) ==
    /\ request[r].pc = "idle"
    /\ request' = [q \in Requests |->
          IF q = r THEN [request[r] EXCEPT
                            !.pc = IF _is_standalone(r) THEN "resolve" ELSE "load",
                            !.standalone = _is_standalone(r),
                            !.overlapped = Companions(r) # {}]
          ELSE [request[q] EXCEPT !.overlapped = @ \/ q \in Companions(r)]]
    /\ UNCHANGED <<kb, last_known, entries, index, now, flushes, history, ingestVars>>

(* A failure anywhere in the lookup is a miss. *)
LookupFails(r) ==
    /\ BackendFails
    /\ request[r].pc \in {"resolve", "exact", "discard", "semantic", "probe", "unindex"}
    /\ request' = [request EXCEPT ![r].pc = "load", ![r].key = None, ![r].candidates = {}]
    /\ UNCHANGED <<kb, last_known, entries, index, now, flushes, history, ingestVars>>

(* VersionResolver.resolve, for the lookup. *)
Resolve(r) ==
    LET p == RequestAt[r] IN
    /\ request[r].pc = "resolve"
    /\ last_known' = [last_known EXCEPT ![p] = current(p)]
    /\ request' = [request EXCEPT ![r].pc = "exact", ![r].lookedUp = current(p),
                                  ![r].key = <<current(p), request[r].question>>,
                                  ![r].known = announced]
    /\ UNCHANGED <<kb, entries, index, now, flushes, history, ingestVars>>

AfterExact == IF semantic_enabled THEN "semantic" ELSE "load"

(* _read, of the exact key or a candidate's: what it finds, and where the  *)
(* request goes.  An unusable answer is then deleted.                      *)
Found(k, v) == IF entries[k] # None /\ Usable(entries[k], v) THEN entries[k] ELSE None
PlaceAfter(k, v, missed) ==
    IF entries[k] = None THEN missed ELSE IF Found(k, v) # None THEN "remember" ELSE "discard"

_exact(r) ==
    LET k == request[r].key  v == request[r].lookedUp IN
    /\ request[r].pc = "exact"
    /\ request' = [request EXCEPT ![r].pc = PlaceAfter(k, v, AfterExact),
                                  ![r].result = Found(k, v)]
    /\ UNCHANGED <<kb, last_known, entries, index, now, flushes, history, ingestVars>>

(* The deletion in _read is a call of its own: by now the key may hold     *)
(* something else.                                                         *)
Discard(r) ==
    /\ request[r].pc = "discard"
    /\ entries' = [entries EXCEPT ![request[r].key] = None]
    /\ Goto(r, IF request[r].key \in request[r].candidates THEN "unindex" ELSE AfterExact)
    /\ UNCHANGED <<kb, last_known, index, now, flushes, history, ingestVars>>

(* _semantic: the index is read once, the question embedded, and the       *)
(* candidates ranked ...                                                   *)
_semantic(r) ==
    /\ request[r].pc = "semantic"
    /\ request' = [request EXCEPT
          ![r].pc = "probe",
          ![r].candidates = Candidates(request[r].question, request[r].lookedUp)]
    /\ UNCHANGED <<kb, last_known, entries, index, now, flushes, history, ingestVars>>

(* ... then each is tried, the best first: which one that is, the model    *)
(* leaves open.                                                            *)
Probe(r) ==
    /\ request[r].pc = "probe"
    /\ \/ \E k \in request[r].candidates :
             request' = [request EXCEPT ![r].pc = PlaceAfter(k, request[r].lookedUp, "unindex"),
                                        ![r].key = k,
                                        ![r].result = Found(k, request[r].lookedUp)]
       \/ request[r].candidates = {} /\ Goto(r, "load")
    /\ UNCHANGED <<kb, last_known, entries, index, now, flushes, history, ingestVars>>

(* Mutation: the dead candidate stays on the list. *)
UnindexKeepsCandidate(r) ==
    /\ request[r].pc = "unindex"
    /\ index' = index \ {request[r].key}
    /\ Goto(r, "probe")
    /\ UNCHANGED <<kb, last_known, entries, now, flushes, history, ingestVars>>

(* index_remove: the vector outlived its answer. *)
Unindex(r) ==
    /\ request[r].pc = "unindex"
    /\ index' = index \ {request[r].key}
    /\ request' = [request EXCEPT ![r].pc = "probe",
                                  ![r].candidates = @ \ {request[r].key}]
    /\ UNCHANGED <<kb, last_known, entries, now, flushes, history, ingestVars>>

(* A turn of the request's session is recorded. *)
Recorded(r) == history \cup ({request[r].session} \ {None})

(* A hit: _remember, and the answer goes out. *)
_remember(r) ==
    /\ request[r].pc = "remember"
    /\ history' = Recorded(r)
    /\ Goto(r, "served")
    /\ UNCHANGED <<kb, last_known, entries, index, now, flushes, ingestVars>>

(* A miss: the graph runs.  Its memory loader reads the conversation ...   *)
LoadMemory(r) ==
    /\ request[r].pc = "load"
    /\ request' = [request EXCEPT ![r].pc = "retrieve", ![r].context = HasHistory(r),
                                  ![r].key = None, ![r].candidates = {}]
    /\ UNCHANGED <<kb, last_known, entries, index, now, flushes, history, ingestVars>>

(* ... the retrieval its answer rests on sees the corpus of that moment    *)
(* (of several retrievals, the last) ...                                   *)
Retrieve(r) ==
    /\ request[r].pc = "retrieve"
    /\ request' = [request EXCEPT ![r].pc = "finish", ![r].basis = corpus]
    /\ UNCHANGED <<kb, last_known, entries, index, now, flushes, history, ingestVars>>

(* What the run may end with, as far as an entry keeps it. *)
Outcomes == {[answer |-> res.answer, verdict |-> res.verdict, toolFailed |-> res.toolFailed] :
                res \in LegalResults}

StorableOutcomes == {res \in Outcomes : Storable(res)}

(* ... and it ends with a legal result, its memory writer having recorded  *)
(* the turn.  store then refuses the answer or goes on with it.            *)
Finish(r) ==
    /\ request[r].pc = "finish"
    /\ history' = Recorded(r)
    /\ \/ \E res \in StorableOutcomes :
             /\ request[r].standalone
             /\ request' = [request EXCEPT ![r].pc = "store", ![r].result = res]
       \/ End(r, "answered")
    /\ UNCHANGED <<kb, last_known, entries, index, now, flushes, ingestVars>>

(* store: the version is resolved again, and the question embedded. *)
StoreResolve(r) ==
    LET p == RequestAt[r] IN
    /\ request[r].pc = "store"
    /\ last_known' = [last_known EXCEPT ![p] = current(p)]
    /\ request' = [request EXCEPT ![r].pc = "set", ![r].version = current(p)]
    /\ UNCHANGED <<kb, entries, index, now, flushes, history, ingestVars>>

StoreSet(r) ==
    /\ request[r].pc = "set"
    /\ entries' = [entries EXCEPT ![<<request[r].version, request[r].question>>] = _entry(r)]
    /\ IF semantic_enabled THEN Goto(r, "index_add") ELSE End(r, "answered")
    /\ UNCHANGED <<kb, last_known, index, now, flushes, history, ingestVars>>

StoreIndex(r) ==
    /\ request[r].pc = "index_add"
    /\ index' = index \cup {<<request[r].version, request[r].question>>}
    /\ End(r, "answered")
    /\ UNCHANGED <<kb, last_known, entries, now, flushes, history, ingestVars>>

(* A failure anywhere in the store leaves the answer to be returned. *)
StoreFails(r) ==
    /\ BackendFails
    /\ request[r].pc \in {"store", "set", "index_add"}
    /\ End(r, "answered")
    /\ UNCHANGED <<kb, last_known, entries, index, now, flushes, history, ingestVars>>

(* The run raises, or the request's deadline passes. *)
Abandon(r) ==
    /\ UnderWay(r)
    /\ End(r, "raised")
    /\ UNCHANGED <<kb, last_known, entries, index, now, flushes, history, ingestVars>>

-----------------------------------------------------------------------------
(* Ingestion *)

Written(i) == {b \in Batches : <<i, b>> \in corpus}

(* Indexer: the batches are written concurrently, in any order. *)
_index_batch(i, b) ==
    /\ ingest[i].pc = "writing"
    /\ b \notin Written(i)
    /\ corpus' = corpus \cup {<<i, b>>}
    /\ ingest' = [ingest EXCEPT ![i].pc =
                     IF Written(i) \cup {b} = Batches THEN "announce" ELSE "writing"]
    /\ UNCHANGED <<backendVars, last_known, now, history, request, locked, announced>>

(* One write fails: the others are cancelled and nothing is announced ...  *)
IngestFails(i) ==
    /\ UpsertsFail
    /\ ingest[i].pc = "writing"
    /\ ingest' = [ingest EXCEPT ![i].pc = "failed"]
    /\ UNCHANGED <<backendVars, last_known, now, history, request, corpus, locked, announced>>

(* ... but the rows of a call given up may be committed after that.        *)
LateWrite(i, b) ==
    /\ UpsertsFail
    /\ ingest[i].pc = "failed"
    /\ b \notin Written(i)
    /\ corpus' = corpus \cup {<<i, b>>}
    /\ UNCHANGED <<backendVars, last_known, now, history, request, ingest, locked, announced>>

(* Mutation: the version is bumped before everything is written. *)
BumpReadEarly(i) ==
    LET p == IngestAt[i] IN
    /\ ingest[i].pc \in {"writing", "announce"} /\ locked[p] = None
    /\ locked' = [locked EXCEPT ![p] = i]
    /\ last_known' = [last_known EXCEPT ![p] = current(p)]
    /\ ingest' = [ingest EXCEPT ![i] = [pc |-> "bump", read |-> current(p)]]
    /\ UNCHANGED <<backendVars, now, history, request, corpus, announced>>

(* bump takes its process's lock and reads the version ... *)
BumpRead(i) ==
    LET p == IngestAt[i] IN
    /\ ingest[i].pc = "announce" /\ locked[p] = None
    /\ locked' = [locked EXCEPT ![p] = i]
    /\ last_known' = [last_known EXCEPT ![p] = current(p)]
    /\ ingest' = [ingest EXCEPT ![i] = [pc |-> "bump", read |-> current(p)]]
    /\ UNCHANGED <<backendVars, now, history, request, corpus, announced>>

(* Mutation: a bump that has written keeps the lock. *)
BumpWriteKeepsTheLock(i) ==
    LET p == IngestAt[i]  next == NextVersion(ingest[i].read) IN
    /\ ingest[i].pc = "bump"
    /\ kb' = next
    /\ last_known' = [last_known EXCEPT ![p] = next]
    /\ announced' = announced \cup {i}
    /\ ingest' = [ingest EXCEPT ![i] = [pc |-> "done", read |-> None]]
    /\ UNCHANGED <<entries, index, flushes, now, history, request, corpus, locked>>

(* ... then writes the next one and lets the lock go. *)
BumpWrite(i) ==
    LET p == IngestAt[i]  next == NextVersion(ingest[i].read) IN
    /\ ingest[i].pc = "bump"
    /\ kb' = next
    /\ last_known' = [last_known EXCEPT ![p] = next]
    /\ locked' = [locked EXCEPT ![p] = None]
    /\ announced' = announced \cup {i}
    /\ ingest' = [ingest EXCEPT ![i] = [pc |-> "done", read |-> None]]
    /\ UNCHANGED <<entries, index, flushes, now, history, request, corpus>>

(* The read or the write fails, the write perhaps after it took effect;    *)
(* _announce swallows the error, and the ingestion has succeeded.          *)
BumpFails(i) ==
    LET p == IngestAt[i] IN
    /\ BackendFails
    /\ \/ ingest[i].pc = "announce" /\ locked[p] = None /\ UNCHANGED <<kb, locked>>
       \/ /\ ingest[i].pc = "bump"
          /\ kb' \in {kb, NextVersion(ingest[i].read)}
          /\ locked' = [locked EXCEPT ![p] = None]
    /\ ingest' = [ingest EXCEPT ![i] = [pc |-> "done", read |-> None]]
    /\ UNCHANGED <<last_known, entries, index, flushes, now, history, request, corpus, announced>>

-----------------------------------------------------------------------------
(* The backend *)

(* An answer expires, or is the least recently used one of a full backend. *)
Evict(k) ==
    /\ "answers" \in Evictions
    /\ entries[k] # None
    /\ entries' = [entries EXCEPT ![k] = None]
    /\ UNCHANGED <<kb, last_known, index, now, flushes, history, request, ingestVars>>

(* A vector is trimmed, or expires. *)
Trim(k) ==
    /\ "vectors" \in Evictions
    /\ k \in index
    /\ index' = index \ {k}
    /\ UNCHANGED <<kb, last_known, entries, now, flushes, history, request, ingestVars>>

(* Redis restarts without its data, or clear flushes it. *)
Flush ==
    /\ flushes < Flushes
    /\ flushes' = flushes + 1
    /\ kb' = None
    /\ entries' = [k \in Keys |-> None]
    /\ index' = {}
    /\ UNCHANGED <<last_known, now, history, request, ingestVars>>

Tick ==
    /\ now < MaxTime
    /\ now' = now + 1
    /\ UNCHANGED <<backendVars, last_known, history, request, ingestVars>>

-----------------------------------------------------------------------------
Serve(r) ==
    \/ LookupFails(r) \/ Resolve(r) \/ _exact(r) \/ Discard(r) \/ _semantic(r)
    \/ Probe(r) \/ Unindex(r) \/ _remember(r)
    \/ LoadMemory(r) \/ Retrieve(r) \/ Finish(r)
    \/ StoreResolve(r) \/ StoreSet(r) \/ StoreIndex(r) \/ StoreFails(r)

Ingest(i) ==
    \/ \E b \in Batches : _index_batch(i, b) \/ LateWrite(i, b)
    \/ IngestFails(i) \/ BumpRead(i) \/ BumpWrite(i) \/ BumpFails(i)

Next ==
    \/ \E r \in Requests : Begin(r) \/ Serve(r) \/ Abandon(r)
    \/ \E i \in Ingests : Ingest(i)
    \/ \E k \in Keys : Evict(k) \/ Trim(k)
    \/ Flush
    \/ Tick

(* Where a request may wait for ever: a question's embedding may wait for  *)
(* a load that nobody will end (core/cache.py), a retrieval for a vector   *)
(* store that never answers (retrieval/chroma.py), and a run retrieves.    *)
MayHang == {"semantic", "retrieve", "finish", "store"}

(* Every other call ends: those of the backend have a timeout, those of    *)
(* the memory stay in the process, and the event loop runs ready tasks.    *)
(* Nothing is assumed of the deadline, which is lifted once a stream has   *)
(* begun, nor of the ingestions.                                           *)
Fairness == \A r \in Requests : WF_vars(request[r].pc \notin MayHang /\ Serve(r))

Spec == Init /\ [][Next]_vars /\ Fairness

-----------------------------------------------------------------------------
(* Properties *)

TypeOK ==
    /\ kb \in Versions \cup {None}
    /\ last_known \in [Processes -> Versions]
    /\ entries \in [Keys -> Entries \cup {None}]
    /\ index \subseteq Keys
    /\ now \in 0 .. MaxTime
    /\ flushes \in 0 .. Flushes
    /\ history \subseteq Sessions
    /\ corpus \subseteq Chunks
    /\ \A r \in Requests :
          /\ request[r].pc \in Places
          /\ request[r].version \in Versions \cup {None}
          /\ request[r].lookedUp \in Versions \cup {None}
          /\ request[r].key \in Keys \cup {None}
          /\ request[r].candidates \subseteq Keys
          /\ request[r].result \in Entries \cup Carried \cup {None}
    /\ ingest \in [Ingests -> [pc : {"writing", "announce", "bump", "done", "failed"},
                               read : Versions \cup {None}]]
    /\ locked \in [Processes -> Ingests \cup {None}]
    /\ announced \subseteq Ingests

Served(r) == request[r].pc = "served"

HasSeen(e, ingests) == ingests \X Batches \subseteq e.basis

(* An answer served from the cache has seen every ingestion announced when *)
(* the request looked it up, provided the run that produced it stored it   *)
(* under the version it had itself looked up.  With two ingestions it      *)
(* holds although bumps are neither atomic nor unique across processes,    *)
(* lookups and stores take several steps, and any of them may fail half    *)
(* way; a third, in another process, can put the version back.             *)
ServedAnswersAreCurrent ==
    \A r \in Requests : Served(r) =>
        LET e == request[r].result IN
        e.lookedUp = e.version => HasSeen(e, request[r].known)

(* "An entry is only valid under the three conditions that produced it"    *)
(* (README.md), "Whether this answer was produced under the versions now   *)
(* in force" (cache/base.py): the same without the proviso.                *)
ServedAnswersAreValid ==
    \A r \in Requests : Served(r) => HasSeen(request[r].result, request[r].known)

(* "Only answers the critic stood behind are stored" (cache/gateway.py),   *)
(* and only a stored one is served: whatever happens between the verdict   *)
(* and the hit, a served answer was accepted.                              *)
ServedAnswersWereAccepted ==
    \A r \in Requests : Served(r) =>
        LET e == request[r].result IN
        e.answer \notin {"empty", "no_context"} /\ Accepts(e.verdict) /\ ~e.toolFailed

(* "which leaves the cache holding exactly the questions that are          *)
(* self-contained" (cache/agent.py): a stored answer was written with no   *)
(* earlier turn of a conversation in sight, unless another request of its  *)
(* session was under way together with its own.  The docstring says it     *)
(* without that condition, and so it does not hold: a request that began   *)
(* alone reads its memory in the run, when another may have spoken.        *)
StoredAnswersStandAlone ==
    \A k \in Keys :
        entries[k] # None /\ entries[k].context => entries[k].overlapped

(* "the knowledge base, incremented whenever ingestion writes to the       *)
(* index" (cache/versions.py): an ingestion that is over and has written   *)
(* anything has advanced the version.                                      *)
WritesAreAnnounced ==
    \A i \in Ingests :
        ingest[i].pc \in {"done", "failed"} /\ Written(i) # {} => i \in announced

(* Every request comes to an end, although the backend may fail at any     *)
(* call and answers and vectors vanish while a lookup walks through them,  *)
(* unless its run or an embedding of its question keeps it for ever.       *)
EveryRequestEndsUnlessItHangs ==
    \A r \in Requests :
        []<>(request[r].pc \notin MayHang) =>
            (request[r].pc # "idle" ~> request[r].pc \in Ended)

(* No ingestion is left waiting: the lock of bump is held only by an       *)
(* ingestion that is still between its read and its write, whichever call  *)
(* failed.  A lock kept would stop every later ingestion of the process.   *)
LocksAreReleased ==
    \A p \in Processes : locked[p] # None =>
        ingest[locked[p]].pc = "bump" /\ IngestAt[locked[p]] = p

(* How far an ingestion has come, in the terms of IndexUpdate: one whose   *)
(* bump has failed has succeeded all the same.                             *)
Progress(i) ==
    IF i \in announced THEN "announced"
    ELSE IF ingest[i].pc \in {"done", "failed"} THEN ingest[i].pc ELSE "writing"

Update == INSTANCE IndexUpdate WITH
    Updates <- Ingests,
    wanted <- [i \in Ingests |-> {i} \X Batches],
    stage <- [i \in Ingests |-> Progress(i)]

(* "After indexing, not before" (DocumentIngestionPipeline._announce): the *)
(* ingestions the cache lives with do what Ingestion is shown to do, with  *)
(* the version's lock, its reads and its writes in between, whichever call *)
(* of the backend fails.                                                   *)
IngestionsAreIndexUpdates == Update!Spec
=============================================================================
