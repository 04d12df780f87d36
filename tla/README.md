# A TLA+ verification of Agentic-RAG

Agentic-RAG is a FastAPI service that answers questions over ingested documents.
A question runs through a LangGraph graph (analyse, plan, call tools, retrieve,
generate, criticise, perhaps plan again), behind a cache of accepted answers and
in front of a conversation memory. This directory models the parts of `src/app`
in which order, concurrency, failure and limits decide what a client sees, checks
them with TLC on small instances and proves the central properties with TLAPS for
every value of the constants.

## 1. Inventory

| Component (`src/app/...`) | State | Operations | Used by / uses | What makes it correct |
|---|---|---|---|---|
| RAG graph: `agents/graph.py`, `agents/nodes/*`, `agents/rag.py` | `RAGState` of one run | eight nodes, three routers, `invoke` | chat request → graph → chat service, tools, retrieval, memory | ends within a step bound; reports the verdict on the answer it reports; answers from fresh grounds; judges a refusal as one |
| Chat request: `api/v1/chat.py`, `cache/agent.py`, `agents/rag.py` (events), `core/handlers.py` | the response being sent | `chat`, `_stream`, `stream_events`, error handlers | client → middleware → endpoint → cached agent | exactly one response, complete, ending in the last draft |
| Request deadline: `core/timeout.py` | `started`, the cancel scope | `guarded_send`, `_send_timeout` | wraps every handler; cancels any await below it | never cuts a response off; a hung handler is given up |
| Answer cache: `cache/gateway.py`, `cache/agent.py`, `cache/base.py`, `cache/keys.py` | entries and vectors in the backend | `lookup`, `store`, `_is_standalone`, `_remember` | in front of the graph; uses backend, versions, embeddings, memory | serves only accepted answers of the corpus in force, and stores none that leans on a conversation |
| Knowledge base version: `cache/versions.py` | a counter in the backend, a lock and the last known value per process | `current`, `bump` | read by every lookup and store, bumped by ingestion | an ingestion invalidates what it outdates |
| Cache backends: `cache/memory.py`, `cache/redis.py`, `cache/backend.py` | an LRU table and an index, or Redis keys, a hash and a sorted set | get, set, delete, `index_*`, `clear`, start | the gateway and the version | a get returns the last value or nothing; the counter survives; the index is bounded |
| Query embedding cache: `core/cache.py`, `services/embeddings.py` | table, in-flight events, lock | `get_or_load`, `get`, `set`, `clear` | every retrieval and semantic lookup | one load at a time, no lost wake-up, every call ends |
| Conversation memory: `memory/store.py`, `agents/nodes/memory_*.py`, `api/v1/memory.py` | sessions: window, summary, facts, counters | append, snapshot, `set_summary`, `merge_user_context`, clear | loader and writer of every run, `_remember`, reset endpoint | bounded; no turn is lost before a summary tells of it; a reset forgets |
| Retrieval: `retrieval/{factory,vector,hybrid,retriever,similarity,query}.py` | none beyond one search | similarity, MMR, hybrid fusion | retriever node → factory → store | pages without duplicates; fusion keeps agreement |
| Compression: `retrieval/compression.py`, `compressors.py` | none | four stages | wraps a retriever | drops only weak or redundant hits and never a good result whole |
| Ingestion: `ingestion/*`, `api/v1/upload.py` | the upload's directory, the task group, the limiter, the vector store | validate, spool, read, chunk, index in batches, announce | endpoint or command → pipeline → indexer → vector store; bumps the version | success and announcement only when every row is stored; the limiter is exact; directories are removed; every upload ends |
| Retry: `core/retry.py`, `retrieval/chroma.py:_invoke` | attempts | `with_retry`, `is_transient` | vector store | bounded attempts, only for what may pass |
| Lifecycle: `core/container.py`, `core/bootstrap.py`, `main.py`, `agents/server.py`, `ingestion/__main__.py` | components in their order, the agent server's shared container and lock | startup, shutdown, `make_graph` | everything | a component runs only while what it uses runs; one shared container, complete before it is used; nothing is held after a shutdown |
| Chat service and tools: `services/llm.py`, `tools/*` | none | `complete`, `structured`, tool calls | the nodes | seen by their callers: a reply, a failure or an exception |
| Cache metrics, observability, settings, prompts, filters, loading and chunking, schemas | counters, static data | | | nothing the rest depends on |

How they interact. All tasks of a process share one event loop, so a step runs
from one `await` to the next and interleaving happens at awaits only. Several
processes (replicas, the offline ingestion command) share one Redis and one vector
store. The deadline middleware cancels a request at whichever await it is in,
inside every component below it.

What is hard here: work cancelled while others wait for it (`core/cache.py`);
state read before a run and used after it (summary, version, history); several
calls to a shared backend with failures between them; two or three writers for one
response; the critique loop and what a later pass sees of an earlier one; batches
written concurrently, of which some fail, some are cancelled and some run on in
threads nobody can stop; limits and thresholds at their edges. PROJECT.json lists the hazards with their lines.

## 2. Modules

| Module | Models | Notes |
|---|---|---|
| `AgentResult`, `AgentRun` | abstract: what a run promises its caller | used by `RagGraph` (implements it) and `AnswerCache` (relies on it) |
| `RagGraph`, `RagGraphProofs` | one run of the graph | one action per node; `Raise` for exceptions no node catches |
| `ChatRequest`, `ChatRequestProofs` | one POST /chat up to the last byte | handler, middleware and server as the three writers |
| `SingleFlight`, `SingleFlightProofs` | `AsyncTTLCache` and its callers | the anyio lock with its queue, the events, cancellation |
| `ConversationMemory`, `ConversationMemoryProofs` | `InMemoryStore` under concurrent runs | turns are (run, role); a summary is the set of turns it tells of |
| `AnswerCache`, `AnswerCacheProofs` | cached agent, gateway, versions, ingestion | extends `AgentResult`; one step per backend call; its ingestions implement `IndexUpdate` |
| `LossyStore` | abstract: what the cache relies on of a backend | implemented by `ManagedBackend` |
| `ManagedBackend`, `ManagedBackendProofs` | in-memory LRU and Redis behind one interface | one step per locked call or round trip |
| `IndexUpdate` | abstract: what an ingestion promises | implemented by `Ingestion` and by the ingestions of `AnswerCache` |
| `Retry` | which errors of a call are retried | operators only, extended by `Ingestion` |
| `Lifecycle` | containers: start, failed start, use, shutdown | the three deployments; extended by `Ingestion`, proved about in `IngestionProofs` |
| `Ingestion`, `IngestionProofs` | uploads and the ingestion command, down to the calls of the vector store | composes `Lifecycle` and `Retry` |
| `Retrieval`, `RetrievalProofs` | one search with its fusion and compression | exact rational scores; recursion as functions |
| `MC_*` | the instances for TLC | constants and symmetry only |

State and actions keep the names of the code wherever TLA+ allows
(`_critic_router`, `set_summary`, `_above_threshold`, `turns_recorded`, `kb` for
the `kb-version` key). Operators whose comment begins with *Mutation* are not part
of the models: each is a plausible bug used to show that a property can fail.

**RagGraph.** `node` is the node to run next; routers are the operators
`_plan_router`, `_after_tools_router` and `_critic_router`. Documents and tool
results are counts, an answer is one of four kinds of text, and every value also
carries the pass that wrote it, so that a stale one can be told from a fresh one.
A failed model call is the fallback the node writes; any other exception is
`Raise`. `GeneratorHasGrounds` and `CriticHasGrounds` are two operators because the two
nodes decide for themselves whether there is something to answer from. What the memory nodes do to the store is `ConversationMemory`.

**ChatRequest.** `pc` walks through `chat`, the cached agent and the events of the
run; `sent` is what the client receives. `Start` is `guarded_send` for the start
of a response, `Expire` and `Abandon` are the cancel scope. A deadline that passes
while the task is already about to resume is delivered at its next await: if that
is the sending of the start, the message is not sent and, since `started` is
already set, the middleware stays silent and the server's error page answers.

**SingleFlight.** A caller is in one of the places between awaits of
`get_or_load`; the lock is first come first served and is handed straight to the
next waiter; an event is named after the caller that registered it. A task
cancelled while it must wait for the lock in the `finally` block leaves at once,
as anyio raises again inside a cancelled scope.

**ConversationMemory.** Each store method is one step. The loader reads, the
writer appends two turns, asks how many wait, takes a snapshot, summarises and
writes back, with other runs, hits, evictions, a reset or a deadline in between.
`disturbed` marks sessions whose requests overlapped or failed, for which some
properties are not claimed. `Remembered` is all there is of a session: window, summary
and facts.

**AnswerCache.** A request checks for history, resolves the version, reads the
exact entry, walks the semantic candidates, runs the graph, and stores; an
ingestion writes its batches and bumps the version under its process's lock. A
process's backend may fail at every call, drop entries or lose everything. Requests of
one session may overlap, which is noted in `overlapped`; what an ingestion gave up when
it failed may be committed later (`LateWrite`).

**ManagedBackend.** `entries` is the LRU table, `db`, `hash` and `order` the Redis
keys of one namespace. `resolve`, `get`, `set`, `index_add`, `zcard`, `zrange` and
`trim` follow the calls of the gateway in their order; `_call_fails` ends any of
the Redis ones.

**Lifecycle.** `deployment` is one of `api` (the lifespan in `main.py`), `cli`
(`python -m app.ingestion`) and `agent_server` (`agents/server.py`). `Order` is the
order of registration, which depends on whether there is a key; a step is the start
or the close of one component. `live` is what has been started and not closed,
`opened` the clients and connections that are held: closing the gateway closes the
backend, which was registered on its own as well. `Main` runs the lifespan or the
command; `Callers` are the overlapping first calls of `make_graph`, with its lock
and the container they share, each of which may be cancelled.

**Retry.** `Wrapped` is what `_invoke` makes of an error before `with_retry` sees it
and `Reraises` the decision whether an attempt was the last. A backoff is a state
of its own, of unspecified length.

**Ingestion.** `pc` takes a document through `upload` (or through the command's next
source), `_spool`, `_reject_if_not_a_pdf`, the loader, the chunker, the index and
`_announce`; the files of a run are of every kind the endpoint tells apart. A job is
one batch in the indexer's task group: it waits for a token, embeds, calls the
store, backs off and calls again. `remote` tells whether a call is awaited over HTTP
or in a worker thread: cancelling a group ends the tasks that await a token, an
embedding, a backoff or a server, while one that awaits a thread stays, token and all,
until the thread has ended. `late` are the batches whose request to a server was
cancelled or lost: the server may commit the rows at any later time, even after the
document has failed (`LateCommit`), or never.
`doomed` are the uploads whose deadline has passed; each leaves when what it awaits
lets it. `Shutdown` waits, as the server does, for the requests in progress.

**Retrieval.** The factory's choice, `prepare`, the search, MMR one selection at a
time, the threshold, the fusion and the four compression stages are the steps of
one search. Embeddings are integer points on a circle, so every cosine is exact.
Sorting is `Ranked`, the sequence a strict order puts a set in, and filtering is
`Chosen`, what a sequence has at some positions; the loops of the compressors are the
recursive functions `KeptOf` and `Spent` of the number of hits gone through.

## 3. Runs

Every run finishes within a minute or so on two cores, but for `cache_fresh` (four
million states, two to three minutes).

| Run | Expect | Instance | Shows |
|---|---|---|---|
| `graph` | pass | two revisions, plans of up to two tool calls of which one runs, up to one document, confidences 0..2 | every run ends whose retrievals do; `StepsAreBounded`; the reported verdict is on the reported answer, and a rejected one is reported only when the budget is spent; fresh grounds; generator and critic agree whether there were any; revisions answer a verdict; `ImplementsAgentRun` |
| `chat` | pass | up to two drafts and two other stages, streamed or not | one response whoever writes it, complete, ending in the last draft shown, never cut off once begun; every client is answered |
| `single_flight` | pass | three tasks, two keys, a table of none or one, an expiry, failing loads, cancellation anywhere | one load at a time; no lost wake-up; the lock is handed on; every call ends unless a call for its key is cancelled |
| `memory` | pass | four requests, two of them under way at a time, two sessions, room for one, window and threshold of four, one reset, failures and deadlines | the store is bounded and its counters agree; in an undisturbed session no turn is lost where `KeepsUp` (see 6), and no summary shrinks; what a reset at rest forgot, facts included, stays forgotten |
| `cache_fresh` | pass | two requests, two processes, two ingestions, expiry, eviction, any call failing | served answers are accepted and current (see 6); stored ones stand alone unless their requests overlapped others of the session; locks released; `IngestionsAreIndexUpdates`, late writes included |
| `cache_progress` | pass | as above with one ingestion, the semantic index, lost entries, vectors and a lost backend | every request ends unless it hangs in its run or in an embedding |
| `backend` | pass | two tasks, three answers and the counter in a table of three, an index of one, one expiry, both backends | implements `LossyStore`; the counter is never evicted; the Redis index is whole: hash and sorted set agree, and it is bounded at rest |
| `retrieval` | pass | three documents on five embeddings and three contents, five deployments, every sparse ranking | pages, fusion, redundancy, the better copy kept of hits in score order, context that is never emptied |
| `ingestion` | pass | two documents of two and one batches with a row in common on two tokens, two attempts, a file of every kind, both kinds of store, three deployments, two callers of the agent server, deadlines anywhere | the limiter is exact; directories are removed and not under a reader; nothing is used closed; containers are orderly; `ImplementsIndexUpdate`, late commits included; every upload ends, and every source of the command with a store on disk |
| `cancelled_load` | violation | two tasks, one key | a cancelled load leaves every later caller waiting |
| `memory_overlap` | violation | three overlapping runs of one session | one summary replaces another |
| `cache_late_store` | violation | two requests, two ingestions | an answer stored under a version newer than its run |

**Why the bounds are enough.** Each is one more than the smallest at which its case
occurs. Two revisions are the first budget with a pass that is neither the first
nor the last, and two planned calls with a limit of one let a call be cut. Three
tasks on a key are a loader, a waiter and one that arrives between the removal of
the registration and the write. Three exchanges in a window of four turns push turns
out of it, a fourth request is there to be served from the cache or to fail in between,
and two sessions in a store for one evict each other. Two requests under way at a time
overlap in every pair of places; three of them overlap in `memory_overlap` only, and any
number in the proofs. In the cache, one
request that fills and one that reads meet at most one ingestion before and one
during the run. Three batches on two tokens make one wait, and two batches of a
document let one fail while the other is anywhere; two attempts are one that is
retried and one that is not; two callers are one that starts the container and one
that waits for it. Three answers and a counter exceed a table of
three, and an index of one makes every second add trim. One tick past the lifetime
reaches every comparison with the clock.

Symmetry is used over interchangeable tasks, requests and values, never with a
liveness property. Deadlock is not checked where the system may stop (all
requests over, all bounds reached), which is everywhere but in `Retrieval`, whose
finished searches stutter.

**Fairness.** What is assumed to end is what the code bounds. A call of a model, a tool
or the cache's backend has a timeout and bounded attempts (`services/llm.py`,
`agents/nodes/tools.py`, `core/retry.py`), a worker thread ends, a lock or token is
handed on, and the event loop runs every ready task. Two things are not bounded: a call
of a remote vector store (`_invoke`, `retrieval/chroma.py:207-228`, awaits it without a
timeout, and its settings have none), and the embedding of a question, which may wait
for a load nobody will end (`cancelled_load`). So:

- `RagGraph` has no fairness on the retriever, which does both;
  `EndsUnlessRetrievalHangs` has the end of its waits as a premise.
- `AnswerCache` has none at the places in `MayHang`: the two embeddings of a question,
  the retrieval and the rest of the run. Nothing is assumed of the deadline, which does
  not cover a stream that has begun. `EveryRequestEndsUnlessItHangs` is about all that
  happens elsewhere, the walk through the semantic candidates above all.
- `Ingestion` has none on a call of a server. `EveryUploadEnds` relies on the deadline
  instead, which is fair for uploads to a remote store and not assumed otherwise; a
  source of the command, which has no deadline, is claimed to end only where the store
  is on disk. Embeddings of documents do not go through the query cache and have the
  timeout of the HTTP client.
- `SingleFlight` is about the cache itself, with loads that end; nothing makes a
  deadline pass.
- `ChatRequest`: timers fire and what is to be sent is sent, and *nothing* is assumed of
  the agent, so that `EveryClientIsAnswered` holds although a run may hang.

The others claim no liveness.

## 4. Proofs

TLAPS checks eight modules, with Z3, Zenon and LS4, from the named assumptions on
the constants alone (each module's `...Assumption`), which the settings' validators
justify, and, in four theorems, from a condition in their statement:
`CurrentHolds` (`OneIngester`), `CounterSurvives` (fewer tasks than entries),
`NoSilentApproval` (a confidence floor above zero) and `StrategiesAreServed` (`hybrid`
is nobody's default). Two more prove properties that name their condition themselves:
`NoTurnIsLost` is about sessions whose summary keeps up (`KeepsUp`), and
`StoredAnswersStandAlone` about answers whose requests did not overlap. What each
condition is for is said below; where it does not hold there are instances on which
TLC refutes the property.

- **`RagGraphProofs`**: the inductive invariant is `GraphInv`: types; the planner
  is entered the first time without a verdict and later only after one of
  insufficient context with budget left (`PlannerEntry`); what plan, documents,
  tool results and answer carry the current pass at which node (`PlanProgress`,
  `AnswerProgress`); and the length of the trace as a function of pass and node
  (`StepCount`). None of the properties is inductive without them: that the answer
  is of the last pass, say, needs to know that no path reaches the critic without
  the generator. From it: `TypeCorrect`, `LoopExit`, `FreshGrounds`, `Refusal`,
  `BoundedRun`, `RevisionsAreEarned` (an action property) and `Implements` (every
  step of the graph is a step or a stutter of `AgentRun`). Type invariants, here and
  below, are proved and not left to a run. `NoSilentApproval` adds
  the assumption `MinConfidence > 0`, without which it is false (see 6).
- **`SingleFlightProofs`**: the inductive invariant is `FlightInv`: a task between
  registering a load and removing the registration owns it, and a waiter holds
  somebody's event. It gives `SingleLoad` and `WakeupsAreKept` for any number of
  tasks and keys, with failures and cancellation; a loader cancelled before it could
  pop keeps its registration, which `NoLostWakeup` excludes and `EveryCallEnds` does
  not. `LockInv`
  is `Orderly` of the callers inside a locked section, the owner and the queue: they
  are the owner and those queued, each once, and nobody queues for a free lock; it is
  kept by entering, leaving and being cancelled in the queue, and gives `LockHolds`.
  `TableInv` (one entry per key, none too many) and `CountInv` complete the types in
  `FlightTyped`.
- **`ChatRequestProofs`**: the inductive invariant is `ChatInv`: what is on the wire
  follows from where the request is (`WireFollowsControl`), and the deadline is
  lifted once anything is on it (`DeadlineFollowsStart`). One lemma per kind of
  step: quiet ones, parts of the body, starts, the outer layers, and the cancel
  scope. It gives `ClientsGetOneResponse`, `ResponsesEnd`,
  `DeadlineSparesResponses` and `ChatTypes` for runs of any length. `AnswerIsShown`
  adds that what the run's state holds as its answer is the draft shown last, and that
  a result on the wire repeats the draft before it; it gives `ResultsAreShown`.
- **`IngestionProofs`**: five invariants. `BatchInv` adds to `LimiterIsExact` that
  a batch is pending only while its document is indexed (`JobsFollow`), without
  which a new task group could overwrite tasks that hold tokens. `DirectoriesFollow`
  says where the handler is when its directory exists and its file is read.
  `UpdateInv` adds to `BatchInv` what ties documents and batches to the store: every
  batch of an indexed document has a task, a written batch has its row, a cancelled
  one a reason (`RowsFollow`), and a document being announced has all its rows
  (`DocumentsFollow`), and that what a server has yet to commit are rows of batches
  that had a task (`LateFollows`). That a group which is over, with no failure and no deadline,
  has written everything (`AllWritten`) is where they meet. They give `LimiterHolds`,
  `WorkspacesHold` and `ImplementsUpdate`, the refinement of `IndexUpdate`, for any
  number of documents, batches, tokens and attempts. A late commit maps to a `Write` of
  an ingestion that is writing or has failed, or to a stutter if a retry has written
  the rows already: an ingestion that succeeds has all of its rows by then. `NothingClosedHolds` needs the
  containers as well: a document is taken up only while the process serves
  (`DocumentsAreServed`), and then everything registered is live. Of the containers
  `LifecycleInv` says that what one has started is the beginning of its order of
  registration (`IsPrefix`), that `opened` follows from it, that `Main` serves a
  complete container (`MainFollows`) and that the shared one is complete, and built by
  nobody but the holder of the lock (`SharingFollows`). A start adds the next of the
  order and a close takes the last, so that a component is live only while what it was
  constructed with is, whichever of the three orders it is: `ContainersHold`.
  `CountsFollow`, that a batch which is to call again has attempts left, completes the
  types (`IngestionTypes`): no upload is spooled beyond its limit, and no batch calls
  the store more than `retry_attempts` times.
- **`ConversationMemoryProofs`**: `MemoryInv` has the types, sessions in the order of
  their use without duplicates, counters that agree, and that a session holds nothing
  but what its own runs have said, each turn once. It gives `MemoryTypes` and
  `CountersHold`. `ForgetInv`, that nothing forgotten is stored or carried by a run
  still under way, gives `ResetForgetsHolds`. `OneRunKnows` says that in an
  undisturbed session at most one run is under way, and that it knows the summary
  stored until it replaces it, hence `SummariesOnlyGrowHolds`. `TurnsAreCovered` says
  that every turn of such a session is in its summary or among the last `n` of the
  window, where `n` is at most what may be waiting at the place the run has reached.
  It gives `NoTurnIsLostHolds` without further assumptions: calls fail, answers are
  blank, sessions are evicted, and the property itself says in which sessions the
  summary keeps up (`KeepsUp`): those of a window of at least four turns with a
  threshold below it, or with an even threshold equal to it as long as the turns came in
  whole exchanges (`InPairs` is the parity that makes the difference: the number that
  waits then meets the threshold before it exceeds the window). The shipped 6 and 6 are
  of the second kind; section 6 says what is lost outside.
- **`AnswerCacheProofs`**: `IngestInv` is about ingestions: an ingestion between the
  read and the write of its bump holds the lock, and the version never exceeds the
  number of ingestions that are over. It gives `LocksHold`. `CacheInv` adds what a
  request carries at each place, and that only answers fit to be served are stored or
  carried by a request about to store; it gives `CacheTypes` and `AcceptedHolds`. `AloneInv`
  says that two requests of a session that are under way together are both marked as
  overlapped (`Apart`), and that a standalone request in whose session a turn has been
  recorded is one of those (`Unheard`), because only a request of the session records
  one; it gives `StandAloneHolds`, for any overlap of any number of requests. `FreshInv` says that there is one counter
  although processes remember it (`OneCounter`), that what is announced is written,
  and that an answer of the version in force has seen all of it; it gives
  `CurrentHolds` when all ingestions share a process and the backend is never emptied
  (`OneIngester`), for any number of processes that serve. `ProgressInv` ties an
  announcement to the bump that ends an ingestion, and the bump to the rows written
  before it; with it every step of requests, ingestions and backend is a step or a
  stutter of `IndexUpdate` (`ImplementsUpdate`), without any of those conditions.
- **`ManagedBackendProofs`**: `BackendInv` has the types, one entry per key in the
  table, and a hash and a sorted set with the same vectors and the same expiry. It is
  enough for `ImplementsStore`: the value `LossyStore` has for a key is the one in
  force, and get, set, delete, eviction, expiry and restart are its steps or stutters.
  `TrimInv` accounts for whatever exceeds the bound of the index: an add not yet
  counted, a count or a range not yet acted upon that covers it, or a trim given up.
  That overlapping trims are enough rests on `OldestFacts`: the range of a trim holds
  as many of the vectors as it asked for, or all. It gives `IndexHolds`. `CounterInv`
  says that every entry used since the counter has a task of its own that used it and
  has not read the version again (`UsedBy`, an injection), and that the counter has no
  lifetime. A full table with the counter in front would need as many tasks as it has
  entries (`FullTable`, by counting), hence `CounterSurvives` for fewer: the code's
  table has 4096.

- **`RetrievalProofs`**: first the algorithms, for lists of any length. A recursive
  function is shown to exist and to have its property at every argument by the
  least-number principle (`SetInduction`, `Recursion`, from the well-foundedness of
  the naturals): the induction theorems of the library take an operator as a parameter,
  which no prover here instantiates. `RankedFacts` and `ChosenFacts` say that sorting
  and filtering give sequences without duplicates, in order, of exactly what was
  asked. On them rest `SearchFacts` (the store's hits fall in score), `FuseFacts` (the
  fused ranking is of the documents of both lists, falls in score, and keeps what they
  agree on, because a share shrinks as a rank grows), `RedundancyFacts` (what the sweep
  keeps is pairwise different, and what it drops resembles something kept before it)
  and `BudgetFacts` (the lengths kept add up to no more than the budget, and the first
  hit always stays). The inductive invariant of a search is `SearchInv`: what is asked
  of the store follows from query and settings (`AskedFollows`), no document is held
  twice, in the hits or in what MMR has not yet selected (`FoundOnce`), and what
  belongs to another stage is empty (`NothingElsewhere`). It gives `RetrievalTypes`,
  `ResultsArePages`, `AgreementIsKept`, `CopiesAreDropped` and `GoodHitsLeaveContext`
  for any store, embeddings, settings and queries. `BestCopiesAreKept` needs `Sorted`
  as well, that hits found by similarity or fused stay in the order of their scores
  up to the redundancy stage; for the hits of MMR it is false (section 6).
  `StrategiesAreServed` says that the deviation of `EveryStrategyIsServed` is confined
  to settings that make `hybrid` the default.

Only model-checked: every liveness property (fairness is out of the prover's reach),
and `ServedAnswersAreCurrent` where two processes ingest, which holds at the bounds of
`cache_fresh` (two ingestions) and fails beyond them (section 6). Every invariant and
every action or refinement property of the passing runs is stated by a theorem. The
runs that expect a violation have none.

## 5. Findings

Three claims of the repository that the code does not keep, each with a run.

1. `cancelled_load`: `core/cache.py:99`. A loader cancelled by the deadline must
   take the lock in its `finally` block; inside a cancelled scope waiting raises
   again, so the registration stays and its event is never set.
2. `memory_overlap`: `agents/nodes/memory_writer.py:79`. The summary is folded from
   what the loader read, and replaces what another run has written since.
3. `cache_late_store`: `cache/gateway.py:258`. The version is resolved when the run
   is over; an ingestion in between makes an outdated answer current.

## 6. Known deviations without a run

The first group is stated as a property in the module, for TLC to refute under the
named conditions; the second is only described.

- `NoRetrievalMeansNoDocuments` (`RagGraph`): a later plan without retrieval skips
  the retriever, and the documents of the earlier pass stay.
- `ListedCallsRun` (`RagGraph`): calls listed without the flag do not run, although
  `wants_tools` is documented the other way.
- `UnavailableCriticNeverApproves` (`RagGraph`): with `min_confidence` 0 the
  stand-in verdict is accepted.
- `ConcurrentMissesShareOneLoad` (`SingleFlight`): between the removal of the
  registration and the write (`core/cache.py:102`) the lock is free, and a third caller
  that gets it there starts a second load after the first.
- `CutOffMeansTimeout` (`ChatRequest`): a deadline that passes just as the response
  starts ends in the server's 500, not the middleware's 504.
- `WritesAreAnnounced` (`AnswerCache`, `UpsertsFail`): an ingestion that fails after
  its first batch has changed the index and announces nothing.
- `StoredAnswersStandAlone` (`AnswerCache`) without its exception for overlapping
  requests, which is how `cache/agent.py:14-19` puts it: two requests of a new session
  begin together, both find no history, one ends and records its turns, and the memory
  loader of the other reads them before its run; its answer is stored. Nothing in the
  code keeps two requests of a session apart.
- `ServedAnswersAreCurrent` (`AnswerCache`) with two processes and three ingestions:
  the lock of `bump` is per process, so that a bump delayed between its read and its
  write (`cache/versions.py:101-103`) puts the version back to one that has entries,
  which its docstring calls harmless.
- `ServedAnswersAreCurrent` with `Flushes > 0`: a backend that loses its counter
  lets each process go on from its own memory of it, and old versions recur.
- `NoTurnIsLost` without `KeepsUp`: the validator at `config/settings.py:130-136` says
  that a threshold above the window would let turns leave it unsummarised, and accepts
  one that is equal. With 3 and 3 a run records two turns before it asks how many
  wait, and the first turn of the session leaves the window with nothing failing; so
  it does with a window of two after a cache hit. With the default 6 and 6 one blank
  answer makes the number of turns odd and a turn is lost afterwards; with 4 and 4 an
  eviction between the two turns of a run does the same. (Drop `KeepsUp` from the
  property: `MC_ConversationMemory` with one session, three runs, one under way at a
  time, `short_term_turns = summary_after_turns = 3`, no failures and no reset is refuted
  in nine states.)
- `RejectionsAreNotRetried` (`Retry`): `_invoke` wraps every error in a
  `DependencyError` before `with_retry` sees it, so that a rejection is retried too,
  against its docstring and the repository's README.
- `FailedStartsAreClosed` (`Lifecycle`): the startup is outside the `try` of
  `main.py:54` and of the ingestion command, and a failed or cancelled first call of
  the agent server leaves its container behind; nothing closes what had started.
- `EveryStrategyIsServed` (`Retrieval`, `HybridByDefault` and `AskDefault`): with
  `hybrid` as the default strategy the dense side of a hybrid search resolves its
  own to `hybrid` too, and rejects it (`retrieval/hybrid.py:78`). With any other
  default it holds (`StrategiesAreServed`).
- `HigherScoringCopyIsKept` (`Retrieval`): under MMR the first of two copies need
  not be the higher-scoring one. Where hits come in the order of their scores it is
  (`BestCopiesAreKept`).
- `AgreedBestIsNotWeak` (`Retrieval`, `ShippedFusion` and `AskHybrid`): fused scores
  are at most 1/61, below the shipped relevance bar of 0.15, so compression drops
  every hit of a hybrid search with a sparse side.

Described only: a source of the ingestion command waits for ever if a remote store
never answers, which nothing bounds (`retrieval/chroma.py:221`); what such a store commits
after an upload has failed stays unannounced; a reset during a run is undone by the run's own writes; a stream
whose last draft is blank shows the rejected one before it and ends in an empty
result; the Redis backend raises `DependencyError` on reads although `CacheBackend`
says implementations do not; a lifetime below one second becomes 0 for Redis;
in-memory index namespaces of old versions are never removed; endpoints of an
unconfigured deployment answer 502 where `core/bootstrap.py` says 503; a failing
batch leaves the task group as an `ExceptionGroup`, so that the client gets a 500 and
not the 502 of a `DependencyError`; what a failed or timed-out upload has written
stays in the store unannounced, so that cached answers of before go on being served;
an embedding that fails is not retried by `with_retry`, which only sees the call of
the store; at shutdown the gateway closes the backend before the version and
the pipeline that use it are closed (nothing calls them any more).

## 7. What is not modelled

- Text: prompts, parsing of model replies, sentence splitting, chunking, filters,
  the calculator. Properties depend on what was decided, not on the words.
- Models and the network: a call returns, fails or, where nothing bounds it, hangs. A
  request to a remote vector store may take effect after it was given up (`late`,
  `LateWrite`); the delayed effect of a Redis command that timed out is left out.
- In the cache: a disabled cache, a blank query, an unreadable payload (each a miss
  or a skip) and model and prompt versions (constant in a deployment).
- In the memory: facts overwritten under their own key.
- In retrieval: stores that return hits without the vectors MMR needs.
- In the ingestion: an interrupt of the command from the keyboard; which waiter gets
  the next token or the agent server's lock (any may, which includes the order the
  library keeps).
- In the lifecycle: readiness, which only reads; `build_agent_container`,
  `build_retrieval_container` and the store's `delete`, which nothing calls.
- Metrics, traces, logs and costs: nothing reads them.
- Disconnecting clients of non-streamed requests: nothing is cancelled.

## 8. Plan

Done in this order: the graph and its abstract run; the embedding cache; memory;
the answer cache; the backends; retrieval; the chat request; their first proofs;
ingestion with retries and the lifecycle, and its proofs; the remaining safety
properties of all of them, `Retrieval` last; the ingestions of `AnswerCache` as
`IndexUpdate`. What would come next is composition: the backend of `AnswerCache`
replaced by `LossyStore`, and `ChatRequest` over `AgentRun`.
