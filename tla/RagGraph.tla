------------------------------ MODULE RagGraph ------------------------------
(***************************************************************************)
(* One run of the agentic RAG graph (app/agents): the eight nodes, the     *)
(* edges and routers between them, and the state threaded through them.    *)
(*                                                                         *)
(* A node is one action.  Its model call, retrieval or tool calls are the  *)
(* nondeterminism inside it, failures included.  Prompts and texts are     *)
(* abstracted: a document list and a tool result list are kept as counts.  *)
(* Every value a node writes also carries the pass that wrote it, the      *)
(* value of `revisions` at that time, which the code does not record.      *)
(***************************************************************************)
EXTENDS Integers, Sequences

CONSTANTS
    MaxRevisions,         \* settings.agent.max_revisions
    MinConfidence,        \* settings.agent.min_confidence, in steps of the scale
    MaxConfidence,        \* the confidence 1.0 on that scale
    MemoryEnabled,        \* settings.memory.enabled
    ToolsEnabled,         \* settings.tools.enabled
    MaxCallsPerTurn,      \* settings.tools.max_calls_per_turn
    MaxPlannedCalls,      \* bound: the most tool calls a plan lists
    MaxDocuments,         \* bound: the most documents one retrieval returns
    Nothing               \* None, for the plan and the critique not yet made

ASSUME GraphAssumption ==
    /\ MaxRevisions \in Nat
    /\ MaxConfidence \in Nat \ {0}
    /\ MinConfidence \in 0 .. MaxConfidence
    /\ MemoryEnabled \in BOOLEAN
    /\ ToolsEnabled \in BOOLEAN
    /\ MaxCallsPerTurn \in Nat \ {0}
    /\ MaxPlannedCalls \in Nat
    /\ MaxDocuments \in Nat

VARIABLES
    node,          \* the node to run next, "END", or "raised"
    memory,        \* RAGState.memory: "none", "empty" or "snapshot"
    analysis,      \* RAGState.analysis: "none", "fallback" or "model"
    plan,          \* RAGState.plan
    tool_results,  \* RAGState.tool_results, as counts of ok and failed calls
    documents,     \* RAGState.documents, as a count
    answer,        \* RAGState.answer
    critique,      \* RAGState.critique
    revisions,     \* RAGState.revisions
    trace          \* RAGState.trace, as the names of the nodes that ran

vars == <<node, memory, analysis, plan, tool_results, documents, answer,
          critique, revisions, trace>>

Nodes == {"memory_loader", "query_analyzer", "planner", "tools", "retriever",
          "generator", "critic", "memory_writer"}

(* A value from before the first pass carries pass -1. *)
Passes == -1 .. MaxRevisions

Plans == [retrieval_needed : BOOLEAN, tools_needed : BOOLEAN,
          tool_calls : 0 .. MaxPlannedCalls, pass : Passes]

ToolResults == [ok : Nat, failed : Nat, pass : Passes]
Documents == [count : 0 .. MaxDocuments, pass : Passes]
Answers == [text : {"empty", "no_context", "failed", "text"}, pass : Passes]
Critiques == [sufficient : BOOLEAN, grounded : BOOLEAN,
              confidence : 0 .. MaxConfidence,
              by : {"model", "rule", "unavailable"}, pass : Passes]

ASSUME NothingAssumption == Nothing \notin Plans \cup Critiques

Min2(a, b) == IF a <= b THEN a ELSE b

-----------------------------------------------------------------------------
(* Routing *)

(* Mutated routers, for the mutation tests of the properties below. *)
RetrievalOnlyWithoutTools(p) ==
    IF p = Nothing \/ (p.retrieval_needed /\ p.tool_calls = 0) THEN "retriever" ELSE "generator"
ReplansOnAnyRejection(c, revs) ==
    IF c # Nothing /\ revs < MaxRevisions
       /\ ~(c.sufficient /\ c.grounded /\ c.confidence >= MinConfidence)
    THEN "planner" ELSE "memory_writer"
NeverCountsRevisions == revisions
AnyToolResultIsGrounds == documents.count > 0 \/ tool_results.ok + tool_results.failed > 0

wants_tools(p) == p.tool_calls > 0 /\ p.tools_needed

accepts(c) ==
    /\ c.sufficient
    /\ c.grounded
    /\ c.confidence >= MinConfidence

_after_tools_router(p) ==
    IF p = Nothing \/ p.retrieval_needed THEN "retriever" ELSE "generator"

_plan_router(p) ==
    IF p # Nothing /\ wants_tools(p) THEN "tools" ELSE _after_tools_router(p)

_critic_router(c, revs) ==
    IF /\ c # Nothing
       /\ ~accepts(c)
       /\ ~c.sufficient
       /\ revs < MaxRevisions
    THEN "planner"
    ELSE "memory_writer"

(* The generator and the critic each decide for themselves whether there   *)
(* are grounds for an answer: documents, or tool calls that succeeded.     *)
GeneratorHasGrounds == documents.count > 0 \/ tool_results.ok > 0
CriticHasGrounds == documents.count > 0 \/ tool_results.ok > 0

-----------------------------------------------------------------------------
(* The nodes *)

initial_state ==
    /\ memory = "none"
    /\ analysis = "none"
    /\ plan = Nothing
    /\ tool_results = [ok |-> 0, failed |-> 0, pass |-> -1]
    /\ documents = [count |-> 0, pass |-> -1]
    /\ answer = [text |-> "empty", pass |-> -1]
    /\ critique = Nothing
    /\ revisions = 0
    /\ trace = <<>>

Init == initial_state /\ node = "memory_loader"

(* Node n ran and the graph moves on to next. *)
Step(n, next) ==
    /\ node = n
    /\ node' = next
    /\ trace' = Append(trace, n)

MemoryLoader ==
    /\ Step("memory_loader", "query_analyzer")
    /\ memory' \in IF MemoryEnabled THEN {"empty", "snapshot"} ELSE {"empty"}
    /\ UNCHANGED <<analysis, plan, tool_results, documents, answer, critique, revisions>>

QueryAnalyzer ==
    /\ Step("query_analyzer", "planner")
    /\ analysis' \in {"fallback", "model"}
    /\ UNCHANGED <<memory, plan, tool_results, documents, answer, critique, revisions>>

(* The plans a model can return. *)
PlansOf(pass) == [retrieval_needed : BOOLEAN, tools_needed : BOOLEAN,
                  tool_calls : 0 .. MaxPlannedCalls, pass : {pass}]

(* The plan a planner falls back on when its model call fails. *)
FallbackPlan(pass) ==
    [retrieval_needed |-> TRUE, tools_needed |-> FALSE, tool_calls |-> 0, pass |-> pass]

NextRevision == IF critique = Nothing THEN revisions ELSE revisions + 1

Planner ==
    /\ revisions' = NextRevision
    /\ plan' \in PlansOf(NextRevision) \cup {FallbackPlan(NextRevision)}
    /\ Step("planner", _plan_router(plan'))
    /\ UNCHANGED <<memory, analysis, tool_results, documents, answer, critique>>

(* Mutation: without fail_after, a call that never returns. *)
ToolsWithoutTimeout ==
    /\ Step("tools", IF plan.tool_calls > 1 THEN "waiting for a tool" ELSE _after_tools_router(plan))
    /\ tool_results' = [ok |-> 1, failed |-> 0, pass |-> revisions]
    /\ UNCHANGED <<memory, analysis, plan, documents, answer, critique, revisions>>

(* Calls run one after another; each ends in a result, ok or not. *)
Tools ==
    /\ Step("tools", _after_tools_router(plan))
    /\ IF ~ToolsEnabled \/ plan.tool_calls = 0
       THEN tool_results' = [ok |-> 0, failed |-> 0, pass |-> revisions]
       ELSE LET allowed == Min2(plan.tool_calls, MaxCallsPerTurn)
            IN  \E ok \in 0 .. allowed :
                   tool_results' = [ok |-> ok, failed |-> allowed - ok, pass |-> revisions]
    /\ UNCHANGED <<memory, analysis, plan, documents, answer, critique, revisions>>

Retriever ==
    /\ Step("retriever", "generator")
    /\ \E found \in IF plan.retrieval_needed THEN 0 .. MaxDocuments ELSE {0} :
          documents' = [count |-> found, pass |-> revisions]
    /\ UNCHANGED <<memory, analysis, plan, tool_results, answer, critique, revisions>>

(* Mutation: a failed model call leaves the earlier answer in place. *)
GeneratorKeepsOldAnswer ==
    /\ Step("generator", "critic")
    /\ answer' \in {answer, [text |-> IF GeneratorHasGrounds THEN "text" ELSE "no_context", pass |-> revisions]}
    /\ UNCHANGED <<memory, analysis, plan, tool_results, documents, critique, revisions>>

Generator ==
    /\ Step("generator", "critic")
    /\ \E text \in IF GeneratorHasGrounds THEN {"text", "empty", "failed"} ELSE {"no_context"} :
          answer' = [text |-> text, pass |-> revisions]
    /\ UNCHANGED <<memory, analysis, plan, tool_results, documents, critique, revisions>>

(* Mutation: the model is asked even when there is nothing to judge by. *)
AsksTheModelRegardless ==
    [sufficient : BOOLEAN, grounded : BOOLEAN, confidence : 0 .. MaxConfidence,
     by : {"model"}, pass : {revisions}]

(* The verdict without grounds is fixed; with them it is the model's, or   *)
(* the stand-in for a critic that could not be called.                     *)
CriticVerdicts ==
    IF CriticHasGrounds
    THEN [sufficient : BOOLEAN, grounded : BOOLEAN, confidence : 0 .. MaxConfidence,
          by : {"model"}, pass : {revisions}]
         \cup {[sufficient |-> TRUE, grounded |-> TRUE, confidence |-> 0,
                by |-> "unavailable", pass |-> revisions]}
    ELSE {[sufficient |-> FALSE, grounded |-> TRUE, confidence |-> MaxConfidence,
           by |-> "rule", pass |-> revisions]}

Critic ==
    /\ critique' \in CriticVerdicts
    /\ Step("critic", _critic_router(critique', revisions))
    /\ UNCHANGED <<memory, analysis, plan, tool_results, documents, answer, revisions>>

(* What the writer does to the store is ConversationMemory's subject. *)
MemoryWriter ==
    /\ Step("memory_writer", "END")
    /\ UNCHANGED <<memory, analysis, plan, tool_results, documents, answer, critique, revisions>>

(* The nodes that call a model or the retriever turn DependencyError into  *)
(* state; any other exception ends the run.                                *)
Raise ==
    /\ node \in {"query_analyzer", "planner", "retriever", "generator", "critic"}
    /\ node' = "raised"
    /\ UNCHANGED <<memory, analysis, plan, tool_results, documents, answer,
                   critique, revisions, trace>>

Finished == node \in {"END", "raised"}

Next == \/ MemoryLoader \/ QueryAnalyzer \/ Planner \/ Tools
        \/ Retriever \/ Generator \/ Critic \/ MemoryWriter \/ Raise

(* Every node but the retriever ends: model calls have request_timeout and *)
(* max_retries (llm.py:71), tool calls run under fail_after (tools.py:77), *)
(* and the memory is a dictionary.  Nothing is assumed of the retriever:   *)
(* it waits for an embedding another task may be loading (core/cache.py:94)*)
(* and for a store whose HTTP calls have no timeout (chroma.py:221).       *)
Fairness == WF_vars(Next /\ node # "retriever")

Spec == Init /\ [][Next]_vars /\ Fairness

-----------------------------------------------------------------------------
(* Properties *)

TypeOK ==
    /\ node \in Nodes \cup {"END", "raised"}
    /\ memory \in {"none", "empty", "snapshot"}
    /\ analysis \in {"none", "fallback", "model"}
    /\ plan \in Plans \cup {Nothing}
    /\ tool_results \in ToolResults
    /\ documents \in Documents
    /\ answer \in Answers
    /\ critique \in Critiques \cup {Nothing}
    /\ revisions \in 0 .. MaxRevisions
    /\ trace \in Seq(Nodes)

Leaving == node \in {"memory_writer", "END"}

(* When the run leaves the loop, the verdict it reports is the verdict on  *)
(* the answer it reports: both were written in the last pass, whatever     *)
(* earlier passes answered and were told (rag.py _metadata pairs them);    *)
(* and it gives up on insufficient context only once every revision the    *)
(* settings allow has been spent (graph.py _critic_router).                *)
VerdictIsOnTheAnswer ==
    Leaving => /\ critique # Nothing
               /\ critique.pass = revisions
               /\ answer.pass = revisions
               /\ critique.sufficient \/ revisions = MaxRevisions

(* The generator answers from what the current plan asked for: when the    *)
(* plan wants documents or tools, the ones in the state were fetched in    *)
(* this pass, never left over from an earlier one.                         *)
RequestedGroundsAreFresh ==
    node = "generator" =>
        /\ plan # Nothing /\ plan.pass = revisions
        /\ plan.retrieval_needed => documents.pass = revisions
        /\ wants_tools(plan) => tool_results.pass = revisions

(* Generator and critic agree on whether there was anything to answer from, *)
(* although each decides it for itself, in two nodes with a model call in   *)
(* between (generator.py:53-60, critic.py:41-44): the refusal of a pass is  *)
(* met by the fixed verdict of that pass and by no model's, and an answer   *)
(* of the model never by the fixed one, whatever earlier passes left behind *)
(* and whichever tool calls of a turn failed.                               *)
RefusalsAreJudgedAsRefusals ==
    critique # Nothing /\ critique.pass = answer.pass =>
        (answer.text = "no_context" <=> critique.by = "rule")

(* The loop is bounded: no run takes more than 5 (max_revisions + 1) + 3   *)
(* steps of the graph, which is what LangGraph's recursion limit has to    *)
(* leave room for.                                                         *)
StepsAreBounded == Len(trace) <= 5 * (MaxRevisions + 1) + 3

(* A critic that cannot run must not silently approve (critic.py): the     *)
(* stand-in verdict is never an accepting one.                             *)
UnavailableCriticNeverApproves ==
    critique # Nothing /\ critique.by = "unavailable" => ~accepts(critique)

(* A revision is spent only in answer to a verdict of insufficient context *)
(* on the pass just finished, one revision per verdict (planner.py,        *)
(* graph.py: a grounding failure is not fixed by retrieving again).        *)
RevisionsAnswerAVerdict ==
    [][revisions' # revisions =>
          /\ revisions' = revisions + 1
          /\ critique # Nothing
          /\ ~critique.sufficient
          /\ critique.pass = revisions]_vars

(* A run comes to an end unless one of its retrievals never does: the loop *)
(* of critic and planner cannot go on for ever, and no other node waits.   *)
(* That every retrieval ends is the premise, because the code does not     *)
(* bound its calls.                                                        *)
RetrievalsEnd == []<>(node # "retriever")
EndsUnlessRetrievalHangs == RetrievalsEnd => <>Finished

(* What the caller gets, in the terms of AgentRun. *)
ReportedResult ==
    [answer |-> answer.text,
     verdict |-> [sufficient |-> critique.sufficient, grounded |-> critique.grounded,
                  confidence |-> critique.confidence],
     documents |-> documents.count > 0,
     toolOk |-> tool_results.ok > 0,
     toolFailed |-> tool_results.failed > 0]

Run == INSTANCE AgentRun WITH
    phase <- CASE node = "END" -> "answered" [] node = "raised" -> "failed"
               [] OTHER -> "running",
    result <- IF node = "END" THEN ReportedResult ELSE "none"

(* The graph implements AgentRun: what it returns is a legal result, it    *)
(* returns once, and never after an exception.                             *)
ImplementsAgentRun == Run!Spec

(* Claims of the repository's comments that the graph does not keep. *)

(* "A plan that says retrieval is not needed produces an empty document    *)
(* set rather than a skipped step" (nodes/retriever.py).                   *)
NoRetrievalMeansNoDocuments ==
    node = "generator" /\ ~plan.retrieval_needed => documents.count = 0

(* "A model that lists calls without setting the flag clearly has [asked   *)
(* for something]; the calls are the substance" (models.py wants_tools):   *)
(* listed calls have run when the generator starts.                        *)
ListedCallsRun ==
    node = "generator" /\ ToolsEnabled /\ plan.tool_calls > 0 =>
        tool_results.pass = revisions
=============================================================================
