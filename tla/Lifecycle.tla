----------------------------- MODULE Lifecycle ------------------------------
(***************************************************************************)
(* How the program comes up and goes down (app/core/container.py): a       *)
(* container of components, started in the order they were registered in   *)
(* and closed in the reverse order, in each of the three deployments.      *)
(*                                                                         *)
(*   api          main.py: the lifespan of the HTTP application            *)
(*   cli          ingestion/__main__.py: python -m app.ingestion           *)
(*   agent_server agents/server.py: the factory the LangGraph server calls *)
(*                for every run, which builds the container on the first   *)
(*                                                                         *)
(* A step is one start or one close.  A container is named after the task  *)
(* that builds it: Main, or the caller of the factory.                     *)
(***************************************************************************)
EXTENDS Naturals, Sequences, FiniteSets

CONSTANTS
    Main,    \* the task that runs the lifespan or the command
    Callers, \* the tasks that call make_graph
    None

ASSUME LifecycleAssumption == Main \notin Callers /\ None \notin Callers \cup {Main}

VARIABLES
    deployment, \* which of the three this process is
    keyed,      \* whether OPENAI__API_KEY is set
    stage,      \* where each task is with its container
    live,       \* the components started and not closed, of each container
    opened,     \* the clients and connections held, of each container
    container,  \* the agent server's _container: the task that built it
    holder      \* the agent server's _lock

lifecycleVars == <<deployment, keyed, stage, live, opened, container, holder>>

Tasks == Callers \cup {Main}
Builders == IF deployment = "agent_server" THEN Callers ELSE {Main}

-----------------------------------------------------------------------------
(* The containers *)

(* build_ingestion_container: as it is, key or no key. *)
build_ingestion_container ==
    <<"embeddings", "store", "backend", "knowledge_base", "loader", "chunker", "indexer",
      "pipeline">>

(* build_container: without a key there is nothing but the memory. *)
build_container ==
    IF ~keyed
    THEN <<"memory">>
    ELSE <<"memory", "embeddings", "chat", "store", "factory", "backend", "knowledge_base",
           "loader", "chunker", "indexer", "pipeline", "agent", "gateway", "cached_agent">>

Order == IF deployment = "cli" THEN build_ingestion_container ELSE build_container
Registered(component) == \E i \in 1 .. Len(Order) : Order[i] = component

(* What a component is constructed with, and calls while it is in use. *)
ConstructedWith ==
    {<<"store", "embeddings">>, <<"factory", "store">>, <<"factory", "embeddings">>,
     <<"knowledge_base", "backend">>, <<"indexer", "store">>, <<"pipeline", "loader">>,
     <<"pipeline", "chunker">>, <<"pipeline", "indexer">>, <<"pipeline", "knowledge_base">>,
     <<"agent", "memory">>, <<"agent", "chat">>, <<"agent", "factory">>,
     <<"gateway", "backend">>, <<"gateway", "knowledge_base">>, <<"gateway", "embeddings">>,
     <<"cached_agent", "agent">>, <<"cached_agent", "gateway">>, <<"cached_agent", "memory">>}

Uses(component) == {pair[2] : pair \in {p \in ConstructedWith : p[1] = component}}

(* The components whose start acquires something. *)
Resources == {"embeddings", "chat", "store", "backend"}

(* What a close releases: the gateway closes the backend it was given. *)
Closes(component) ==
    IF component = "gateway" THEN {"backend"} ELSE {component} \cap Resources

(* Which starts may raise: the clients of OpenAI without a key, the vector *)
(* store whenever it cannot be reached.  The backend falls back to memory. *)
MayFail(component) ==
    component = "store" \/ (component \in {"embeddings", "chat"} /\ ~keyed)
MayStart(component) == component \in {"embeddings", "chat"} => keyed

-----------------------------------------------------------------------------
LifecycleInit ==
    /\ deployment \in {"api", "cli", "agent_server"}
    /\ keyed \in BOOLEAN
    /\ stage = [t \in Tasks |-> "idle"]
    /\ live = [t \in Tasks |-> {}]
    /\ opened = [t \in Tasks |-> {}]
    /\ container = None
    /\ holder = None

Move(t, place) == stage' = [stage EXCEPT ![t] = place]

(* lifespan, ingest_sources: build the container and begin to start it. *)
Begin ==
    /\ deployment # "agent_server"
    /\ stage[Main] = "idle"
    /\ Move(Main, "starting")
    /\ UNCHANGED <<deployment, keyed, live, opened, container, holder>>

(* make_graph: ask for the lock. *)
Call(t) ==
    /\ deployment = "agent_server"
    /\ t \in Callers
    /\ stage[t] = "idle"
    /\ Move(t, "waiting")
    /\ UNCHANGED <<deployment, keyed, live, opened, container, holder>>

(* What a caller gets of a started container: make_graph resolves the      *)
(* agent, which a container built without a key does not have.             *)
Given == IF Registered("agent") THEN "serving" ELSE "refused"

(* _started_container: there is one, and the lock is given back at once. *)
Reuse(t) ==
    /\ stage[t] = "waiting"
    /\ holder = None
    /\ container # None
    /\ Move(t, Given)
    /\ UNCHANGED <<deployment, keyed, live, opened, container, holder>>

(* Mutation: the container is shared before it has started. *)
SharesTooEarly(t) ==
    /\ stage[t] = "waiting"
    /\ holder = None
    /\ container = None
    /\ container' = t
    /\ Move(t, "starting")
    /\ UNCHANGED <<deployment, keyed, live, opened, holder>>

(* _started_container: there is none, and this task builds it. *)
Build(t) ==
    /\ stage[t] = "waiting"
    /\ holder = None
    /\ container = None
    /\ holder' = t
    /\ Move(t, "starting")
    /\ UNCHANGED <<deployment, keyed, live, opened, container>>

(* Container.startup: the next component, in registration order. *)
StartNext(t) ==
    /\ stage[t] = "starting"
    /\ Cardinality(live[t]) < Len(Order)
    /\ LET component == Order[Cardinality(live[t]) + 1]
       IN  /\ MayStart(component)
           /\ live' = [live EXCEPT ![t] = @ \cup {component}]
           /\ opened' = [opened EXCEPT ![t] = @ \cup ({component} \cap Resources)]
    /\ UNCHANGED <<deployment, keyed, stage, container, holder>>

Released(t) == IF holder = t THEN None ELSE holder

(* A start that raises ends the startup, outside the try of the lifespan   *)
(* and of the command: nothing is closed.  A store whose collection cannot *)
(* be opened keeps its client.                                             *)
StartFails(t) ==
    /\ stage[t] = "starting"
    /\ Cardinality(live[t]) < Len(Order)
    /\ LET component == Order[Cardinality(live[t]) + 1]
       IN  /\ MayFail(component)
           /\ \E held \in {{}, {component} \cap {"store"}} :
                opened' = [opened EXCEPT ![t] = @ \cup held]
    /\ Move(t, "failed")
    /\ holder' = Released(t)
    /\ UNCHANGED <<deployment, keyed, live, container>>

(* Every component has started: the application serves, or the factory     *)
(* keeps the container and gives the lock back.                            *)
Started(t) ==
    /\ stage[t] = "starting"
    /\ Cardinality(live[t]) = Len(Order)
    /\ Move(t, IF t = Main THEN "serving" ELSE Given)
    /\ container' = IF t = Main THEN container ELSE t
    /\ holder' = Released(t)
    /\ UNCHANGED <<deployment, keyed, live, opened>>

(* The run a caller was started for is cancelled, in the queue for the     *)
(* lock or while it starts the container.                                  *)
CancelCaller(t) ==
    /\ t \in Callers
    /\ stage[t] \in {"waiting", "starting"}
    /\ Move(t, "cancelled")
    /\ holder' = Released(t)
    /\ UNCHANGED <<deployment, keyed, live, opened, container>>

(* The lifespan's finally and the command's. *)
BeginShutdown ==
    /\ stage[Main] = "serving"
    /\ Move(Main, "closing")
    /\ UNCHANGED <<deployment, keyed, live, opened, container, holder>>

(* The component to close next, of those still open: in reverse order. *)
ToClose(open) == Order[Cardinality(open)]

(* Container.shutdown. *)
CloseNext ==
    /\ stage[Main] = "closing"
    /\ live[Main] # {}
    /\ LET component == ToClose(live[Main])
       IN  /\ live' = [live EXCEPT ![Main] = @ \ {component}]
           /\ opened' = [opened EXCEPT ![Main] = @ \ Closes(component)]
    /\ UNCHANGED <<deployment, keyed, stage, container, holder>>

Stopped ==
    /\ stage[Main] = "closing"
    /\ live[Main] = {}
    /\ Move(Main, "stopped")
    /\ UNCHANGED <<deployment, keyed, live, opened, container, holder>>

(* Every step but the decision to shut down, which is Ingestion's. *)
LifecycleNext ==
    \/ Begin \/ CloseNext \/ Stopped
    \/ \E t \in Tasks :
         Call(t) \/ Reuse(t) \/ Build(t) \/ StartNext(t) \/ StartFails(t) \/ Started(t)
         \/ CancelCaller(t)

-----------------------------------------------------------------------------
LifecycleTypeOK ==
    /\ deployment \in {"api", "cli", "agent_server"}
    /\ keyed \in BOOLEAN
    /\ stage \in [Tasks -> {"idle", "waiting", "starting", "serving", "refused", "failed",
                            "cancelled", "closing", "stopped"}]
    /\ \A t \in Tasks : opened[t] \subseteq Resources
    /\ {container, holder} \subseteq Callers \cup {None}

(* Container.startup and shutdown: a component is started after everything *)
(* it was constructed with and closed before any of it, in each container  *)
(* and wherever its start or shutdown has come to; a process that has shut *)
(* down holds no client.  agents/server.py, "Build and start the           *)
(* application container once, then reuse it": however the first calls     *)
(* overlap, fail or are cancelled, callers that are given the graph have   *)
(* one container, started to its last component, and nobody builds more.   *)
ContainersAreOrderly ==
    /\ \A t \in Tasks : \A component \in live[t] : Uses(component) \subseteq live[t]
    /\ stage[Main] = "stopped" => opened[Main] = {}
    /\ (\E t \in Callers : stage[t] = "serving") =>
         /\ container # None
         /\ Cardinality(live[container]) = Len(Order)
         /\ \A t \in Callers : stage[t] # "starting"

(* What a reader of the finally blocks of main.py and of the ingestion     *)
(* command might expect, and the code does not do: a start that fails half *)
(* way closes what had been started.                                       *)
FailedStartsAreClosed == \A t \in Tasks : stage[t] = "failed" => opened[t] = {}
=============================================================================
