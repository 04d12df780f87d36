--------------------------- MODULE RagGraphProofs ---------------------------
(***************************************************************************)
(* Proofs about RagGraph, for any budget of revisions, any confidence      *)
(* scale and threshold, and any size of plans and retrievals.              *)
(*                                                                         *)
(* None of the properties is inductive by itself: what holds when the run  *)
(* leaves the loop depends on what each node found when it started.  GraphInv*)
(* says, node by node, what every earlier node of the same pass has left   *)
(* behind, and all the properties follow from it.                          *)
(***************************************************************************)
EXTENDS RagGraph, TLAPS

(* The planner is entered once without a verdict, and otherwise with a     *)
(* verdict of insufficient context on the pass just ended and a revision   *)
(* left to spend.                                                          *)
PlannerEntry ==
    /\ node \in {"memory_loader", "query_analyzer"} => critique = Nothing /\ revisions = 0
    /\ node = "planner" =>
          \/ critique = Nothing /\ revisions = 0
          \/ /\ critique # Nothing
             /\ ~critique.sufficient
             /\ critique.pass = revisions
             /\ revisions < MaxRevisions

(* Inside a pass the plan is this pass's, and each stage the plan asked    *)
(* for that lies behind the current node has run in this pass.             *)
PlanProgress ==
    /\ node \in {"tools", "retriever", "generator"} => plan # Nothing /\ plan.pass = revisions
    /\ node \in {"retriever", "generator"} => (wants_tools(plan) => tool_results.pass = revisions)
    /\ node = "generator" => (plan.retrieval_needed => documents.pass = revisions)

(* Until the critic of a pass has run, the verdict is of an earlier one;   *)
(* a verdict and an answer of one pass were decided on the same grounds.   *)
Agreement ==
    /\ node \in {"tools", "retriever", "generator", "critic"} =>
          (critique # Nothing => critique.pass < revisions)
    /\ RefusalsAreJudgedAsRefusals

(* From the critic on, the answer is this pass's and agrees with the       *)
(* grounds; after the critic, so does the verdict.                         *)
AnswerProgress ==
    /\ node \in {"critic", "memory_writer", "END"} =>
          /\ answer.pass = revisions
          /\ answer.text = "no_context" <=> ~GeneratorHasGrounds
    /\ Leaving =>
          /\ critique # Nothing
          /\ critique.pass = revisions
          /\ critique.sufficient \/ revisions = MaxRevisions
          /\ ~CriticHasGrounds => /\ ~critique.sufficient
                                  /\ critique.grounded
                                  /\ critique.confidence = MaxConfidence

(* How many nodes can have run when a node is about to run. *)
StepCount ==
    /\ node = "memory_loader" => Len(trace) = 0
    /\ node = "query_analyzer" => Len(trace) <= 1
    /\ node = "planner" => Len(trace) <= 2 + 5 * NextRevision
    /\ node = "tools" => Len(trace) <= 3 + 5 * revisions
    /\ node = "retriever" => Len(trace) <= 4 + 5 * revisions
    /\ node = "generator" => Len(trace) <= 5 + 5 * revisions
    /\ node = "critic" => Len(trace) <= 6 + 5 * revisions
    /\ node = "memory_writer" => Len(trace) <= 7 + 5 * revisions
    /\ node = "END" => Len(trace) <= 8 + 5 * revisions
    /\ node = "raised" => Len(trace) <= 8 + 5 * MaxRevisions

GraphInv == TypeOK /\ PlannerEntry /\ PlanProgress /\ AnswerProgress /\ Agreement /\ StepCount


(* A node's step appends exactly that node to the trace. *)
LEMMA AppendOne ==
    ASSUME NEW n \in Nodes, trace \in Seq(Nodes), trace' = Append(trace, n)
    PROVE  /\ trace' \in Seq(Nodes)
           /\ Len(trace') = Len(trace) + 1
  OBVIOUS

(* What each node can write has the type of the field it writes. *)
LEMMA PlanTypes ==
    ASSUME NEW r \in Passes
    PROVE  PlansOf(r) \cup {FallbackPlan(r)} \subseteq Plans
<1>1. ASSUME NEW p \in PlansOf(r) PROVE p \in Plans
  BY DEF PlansOf, Plans
<1>2. FallbackPlan(r) \in Plans
  BY GraphAssumption DEF FallbackPlan, Plans
<1> QED
  BY <1>1, <1>2

LEMMA AnswerTypes ==
    ASSUME NEW r \in Passes, NEW text \in {"empty", "no_context", "failed", "text"}
    PROVE  [text |-> text, pass |-> r] \in Answers
  BY DEF Answers

LEMMA VerdictTypes ==
    ASSUME revisions \in Passes
    PROVE  CriticVerdicts \subseteq Critiques
<1>1. ASSUME NEW c \in [sufficient : BOOLEAN, grounded : BOOLEAN,
                         confidence : 0 .. MaxConfidence,
                         by : {"model"}, pass : {revisions}]
      PROVE  c \in Critiques
  BY DEF Critiques
<1>2. ASSUME NEW confidence \in 0 .. MaxConfidence, NEW by \in {"rule", "unavailable"},
             NEW b \in BOOLEAN
      PROVE  [sufficient |-> b, grounded |-> TRUE, confidence |-> confidence,
              by |-> by, pass |-> revisions] \in Critiques
  BY DEF Critiques
<1>3. 0 \in 0 .. MaxConfidence /\ MaxConfidence \in 0 .. MaxConfidence
  BY GraphAssumption
<1> QED
  BY <1>1, <1>2, <1>3 DEF CriticVerdicts

(* The types survive every step: the revision count stays within the       *)
(* budget because the planner is only entered with a revision to spend.    *)
LEMMA TypeStep == GraphInv /\ [Next]_vars => TypeOK'
<1> SUFFICES ASSUME GraphInv, [Next]_vars PROVE TypeOK'
  OBVIOUS
<1> USE DEF GraphInv
<1>0. revisions \in Passes
  BY DEF TypeOK, Passes
<1>1. CASE MemoryLoader
  BY GraphAssumption, <1>1, AppendOne DEF MemoryLoader, Step, TypeOK, Nodes
<1>2. CASE QueryAnalyzer
  BY <1>2, AppendOne DEF QueryAnalyzer, Step, TypeOK, Nodes
<1>3. CASE Planner
  <2>1. NextRevision \in 0 .. MaxRevisions
    BY GraphAssumption, <1>3 DEF Planner, Step, TypeOK, PlannerEntry, NextRevision
  <2>2. plan' \in Plans
    <3>1. NextRevision \in Passes
      BY <2>1 DEF Passes
    <3>2. PlansOf(NextRevision) \cup {FallbackPlan(NextRevision)} \subseteq Plans
      BY <3>1, PlanTypes
    <3> QED
      BY <1>3, <3>2 DEF Planner
  <2>3. node' \in Nodes /\ trace' \in Seq(Nodes)
    BY <1>3, AppendOne DEF Planner, Step, TypeOK, Nodes, _plan_router, _after_tools_router
  <2> QED
    BY <1>3, <2>1, <2>2, <2>3 DEF Planner, TypeOK
<1>4. CASE Tools
  <2>1. tool_results' \in ToolResults
    <3>1. plan \in Plans
      BY <1>4 DEF Tools, Step, TypeOK, PlanProgress
    <3> DEFINE allowed == Min2(plan.tool_calls, MaxCallsPerTurn)
    <3>2. allowed \in Nat
      BY GraphAssumption, <3>1 DEF Min2, Plans
    <3> QED
      BY <1>0, <1>4, <3>2 DEF Tools, ToolResults
  <2>2. node' \in Nodes /\ trace' \in Seq(Nodes)
    BY <1>4, AppendOne DEF Tools, Step, TypeOK, Nodes, _after_tools_router
  <2> QED
    BY <1>4, <2>1, <2>2 DEF Tools, TypeOK
<1>5. CASE Retriever
  <2>1. documents' \in Documents
    BY GraphAssumption, <1>0, <1>5 DEF Retriever, Documents
  <2> QED
    BY <1>5, <2>1, AppendOne DEF Retriever, Step, TypeOK, Nodes
<1>6. CASE Generator
  <2>1. answer' \in Answers
    BY <1>0, <1>6, AnswerTypes DEF Generator
  <2> QED
    BY <1>6, <2>1, AppendOne DEF Generator, Step, TypeOK, Nodes
<1>7. CASE Critic
  <2>1. critique' \in Critiques
    BY <1>0, <1>7, VerdictTypes DEF Critic
  <2>2. node' \in Nodes /\ trace' \in Seq(Nodes)
    BY <1>7, AppendOne DEF Critic, Step, TypeOK, Nodes, _critic_router
  <2> QED
    BY <1>7, <2>1, <2>2 DEF Critic, TypeOK
<1>8. CASE MemoryWriter
  BY <1>8, AppendOne DEF MemoryWriter, Step, TypeOK, Nodes
<1>9. CASE Raise
  BY <1>9 DEF Raise, TypeOK
<1>10. CASE UNCHANGED vars
  BY <1>10 DEF vars, TypeOK
<1> QED
  BY <1>1, <1>2, <1>3, <1>4, <1>5, <1>6, <1>7, <1>8, <1>9, <1>10 DEF Next

(* The planner is re-entered only from the critic, on its fresh verdict. *)
LEMMA EntryStep == GraphInv /\ [Next]_vars => PlannerEntry'
<1> SUFFICES ASSUME GraphInv, [Next]_vars PROVE PlannerEntry'
  OBVIOUS
<1> USE DEF GraphInv, PlannerEntry
<1>1. CASE MemoryLoader
  BY <1>1 DEF MemoryLoader, Step
<1>2. CASE QueryAnalyzer
  BY <1>2 DEF QueryAnalyzer, Step
<1>3. CASE Planner
  BY <1>3 DEF Planner, Step, _plan_router, _after_tools_router
<1>4. CASE Tools
  BY <1>4 DEF Tools, Step, _after_tools_router
<1>5. CASE Retriever
  BY <1>5 DEF Retriever, Step
<1>6. CASE Generator
  BY <1>6 DEF Generator, Step
<1>7. CASE Critic
  <2>1. critique'.pass = revisions
    BY <1>7 DEF Critic, CriticVerdicts
  <2>2. node' = _critic_router(critique', revisions) /\ revisions' = revisions
    BY <1>7 DEF Critic, Step
  <2> QED
    BY <2>1, <2>2 DEF _critic_router
<1>8. CASE MemoryWriter
  BY <1>8 DEF MemoryWriter, Step
<1>9. CASE Raise
  BY <1>9 DEF Raise
<1>10. CASE UNCHANGED vars
  BY <1>10 DEF vars
<1> QED
  BY <1>1, <1>2, <1>3, <1>4, <1>5, <1>6, <1>7, <1>8, <1>9, <1>10 DEF Next

(* Each stage hands the next one a plan of the current pass and what that  *)
(* plan asked of the stages before.                                        *)
LEMMA PlanStep == GraphInv /\ [Next]_vars => PlanProgress'
<1> SUFFICES ASSUME GraphInv, [Next]_vars PROVE PlanProgress'
  OBVIOUS
<1> USE DEF GraphInv, PlanProgress, wants_tools
<1>1. CASE MemoryLoader
  BY <1>1 DEF MemoryLoader, Step
<1>2. CASE QueryAnalyzer
  BY <1>2 DEF QueryAnalyzer, Step
<1>3. CASE Planner
  <2>1. NextRevision \in Passes
    BY <1>3, GraphAssumption DEF Planner, Step, TypeOK, PlannerEntry, NextRevision, Passes
  <2>2. plan' \in Plans
    BY <1>3, <2>1, PlanTypes DEF Planner
  <2>3. plan' # Nothing
    BY <2>2, NothingAssumption
  <2>4. plan'.pass = NextRevision
    BY <1>3 DEF Planner, PlansOf, FallbackPlan
  <2>5. node' = _plan_router(plan') /\ revisions' = NextRevision
    BY <1>3 DEF Planner, Step
  <2> QED
    BY <2>3, <2>4, <2>5 DEF _plan_router, _after_tools_router
<1>4. CASE Tools
  <2>1. tool_results'.pass = revisions
    BY <1>4 DEF Tools
  <2>2. node' = _after_tools_router(plan) /\ UNCHANGED <<plan, revisions, documents>> /\ node = "tools"
    BY <1>4 DEF Tools, Step
  <2> QED
    BY <2>1, <2>2 DEF _after_tools_router
<1>5. CASE Retriever
  BY <1>5 DEF Retriever, Step
<1>6. CASE Generator
  BY <1>6 DEF Generator, Step
<1>7. CASE Critic
  BY <1>7 DEF Critic, Step, _critic_router
<1>8. CASE MemoryWriter
  BY <1>8 DEF MemoryWriter, Step
<1>9. CASE Raise
  BY <1>9 DEF Raise
<1>10. CASE UNCHANGED vars
  BY <1>10 DEF vars
<1> QED
  BY <1>1, <1>2, <1>3, <1>4, <1>5, <1>6, <1>7, <1>8, <1>9, <1>10 DEF Next

(* The answer, its grounds and its verdict stay together to the end. *)
LEMMA AnswerStep == GraphInv /\ [Next]_vars => AnswerProgress'
<1> SUFFICES ASSUME GraphInv, [Next]_vars PROVE AnswerProgress'
  OBVIOUS
<1> USE DEF GraphInv, AnswerProgress, Leaving
<1>1. CASE MemoryLoader
  BY <1>1 DEF MemoryLoader, Step
<1>2. CASE QueryAnalyzer
  BY <1>2 DEF QueryAnalyzer, Step
<1>3. CASE Planner
  BY <1>3 DEF Planner, Step, _plan_router, _after_tools_router
<1>4. CASE Tools
  BY <1>4 DEF Tools, Step, _after_tools_router
<1>5. CASE Retriever
  BY <1>5 DEF Retriever, Step
<1>6. CASE Generator
  <2>1. answer'.pass = revisions /\ (answer'.text = "no_context" <=> ~GeneratorHasGrounds)
    BY <1>6 DEF Generator
  <2>2. GeneratorHasGrounds' = GeneratorHasGrounds
    BY <1>6 DEF Generator, GeneratorHasGrounds
  <2> QED
    BY <1>6, <2>1, <2>2 DEF Generator, Step
<1>7. CASE Critic
  <2>1. critique' \in Critiques
    BY <1>7, VerdictTypes DEF Critic, TypeOK, Passes
  <2>2. critique' # Nothing /\ critique'.sufficient \in BOOLEAN
    BY <2>1, NothingAssumption DEF Critiques
  <2>3. critique'.pass = revisions
    BY <1>7 DEF Critic, CriticVerdicts
  <2>4. ~CriticHasGrounds => /\ ~critique'.sufficient
                             /\ critique'.grounded
                             /\ critique'.confidence = MaxConfidence
    BY <1>7 DEF Critic, CriticVerdicts
  <2>5. CriticHasGrounds' = CriticHasGrounds /\ GeneratorHasGrounds' = GeneratorHasGrounds
    BY <1>7 DEF Critic, CriticHasGrounds, GeneratorHasGrounds
  <2>6. /\ node = "critic"
        /\ node' = _critic_router(critique', revisions)
        /\ UNCHANGED <<answer, revisions>>
    BY <1>7 DEF Critic, Step
  <2>7. node' = "memory_writer" => critique'.sufficient \/ revisions = MaxRevisions
    <3>1. ~critique'.sufficient => ~accepts(critique')
      BY DEF accepts
    <3>2. revisions < MaxRevisions \/ revisions = MaxRevisions
      BY GraphAssumption DEF TypeOK
    <3> QED
      BY <2>2, <2>6, <3>1, <3>2 DEF _critic_router
  <2>8. node' \in {"planner", "memory_writer"}
    BY <2>6 DEF _critic_router
  <2> QED
    BY <2>2, <2>3, <2>4, <2>5, <2>6, <2>7, <2>8
<1>8. CASE MemoryWriter
  BY <1>8 DEF MemoryWriter, Step, GeneratorHasGrounds, CriticHasGrounds
<1>9. CASE Raise
  BY <1>9 DEF Raise
<1>10. CASE UNCHANGED vars
  BY <1>10 DEF vars, GeneratorHasGrounds, CriticHasGrounds
<1> QED
  BY <1>1, <1>2, <1>3, <1>4, <1>5, <1>6, <1>7, <1>8, <1>9, <1>10 DEF Next

(* The critic judges the answer of its own pass on the grounds its         *)
(* generator had: nothing between the two nodes touches them.              *)
LEMMA AgreementStep == GraphInv /\ [Next]_vars => Agreement'
<1> SUFFICES ASSUME GraphInv, [Next]_vars PROVE Agreement'
  OBVIOUS
<1> USE DEF GraphInv, Agreement, RefusalsAreJudgedAsRefusals
<1>0. revisions \in Int /\ (critique # Nothing => critique.pass \in Int)
  BY GraphAssumption DEF TypeOK, Critiques, Passes
<1>1. CASE MemoryLoader
  BY <1>1 DEF MemoryLoader, Step
<1>2. CASE QueryAnalyzer
  BY <1>2 DEF QueryAnalyzer, Step
<1>3. CASE Planner
  <2>1. critique # Nothing => critique.pass = revisions /\ revisions' = revisions + 1
    BY <1>3 DEF Planner, Step, PlannerEntry, NextRevision
  <2>2. UNCHANGED <<critique, answer>>
    BY <1>3 DEF Planner
  <2> QED
    BY <1>0, <2>1, <2>2
<1>4. CASE Tools
  BY <1>4 DEF Tools, Step, _after_tools_router
<1>5. CASE Retriever
  BY <1>5 DEF Retriever, Step
<1>6. CASE Generator
  <2>1. answer'.pass = revisions
    BY <1>6 DEF Generator
  <2>2. critique # Nothing => critique.pass < revisions
    BY <1>6 DEF Generator, Step
  <2>3. UNCHANGED <<critique, revisions>>
    BY <1>6 DEF Generator
  <2> QED
    BY <1>0, <2>1, <2>2, <2>3
<1>7. CASE Critic
  <2>1. node' \in {"planner", "memory_writer"}
    BY <1>7 DEF Critic, Step, _critic_router
  <2>2. critique'.by = "rule" <=> ~CriticHasGrounds
    BY <1>7 DEF Critic, CriticVerdicts
  <2>3. answer'.text = "no_context" <=> ~GeneratorHasGrounds
    BY <1>7 DEF Critic, Step, AnswerProgress
  <2> QED
    BY <2>1, <2>2, <2>3 DEF GeneratorHasGrounds, CriticHasGrounds
<1>8. CASE MemoryWriter
  BY <1>8 DEF MemoryWriter, Step
<1>9. CASE Raise
  BY <1>9 DEF Raise
<1>10. CASE UNCHANGED vars
  BY <1>10 DEF vars
<1> QED
  BY <1>1, <1>2, <1>3, <1>4, <1>5, <1>6, <1>7, <1>8, <1>9, <1>10 DEF Next

(* A pass takes at most five steps and costs a revision to repeat. *)
LEMMA CountStep == GraphInv /\ [Next]_vars => StepCount'
<1> SUFFICES ASSUME GraphInv, [Next]_vars PROVE StepCount'
  OBVIOUS
<1> USE GraphAssumption DEF GraphInv, StepCount
<1>0. revisions \in Nat /\ revisions <= MaxRevisions /\ trace \in Seq(Nodes) /\ Len(trace) \in Nat
  BY DEF TypeOK
<1>1. CASE MemoryLoader
  BY <1>0, <1>1, AppendOne DEF MemoryLoader, Step, Nodes
<1>2. CASE QueryAnalyzer
  <2>1. Len(trace') = Len(trace) + 1
    BY <1>0, <1>2, AppendOne DEF QueryAnalyzer, Step, Nodes
  <2>2. node = "query_analyzer" /\ node' = "planner" /\ UNCHANGED <<critique, revisions>>
    BY <1>2 DEF QueryAnalyzer, Step
  <2>3. NextRevision' = revisions
    BY <2>2 DEF NextRevision, PlannerEntry
  <2> QED
    BY <1>0, <2>1, <2>2, <2>3
<1>3. CASE Planner
  <2>1. Len(trace') = Len(trace) + 1
    BY <1>0, <1>3, AppendOne DEF Planner, Step, Nodes
  <2>2. /\ node = "planner"
        /\ node' \in {"tools", "retriever", "generator"}
        /\ revisions' = NextRevision
    BY <1>3 DEF Planner, Step, _plan_router, _after_tools_router
  <2>3. NextRevision \in Nat
    BY <1>0 DEF NextRevision
  <2> QED
    BY <1>0, <2>1, <2>2, <2>3
<1>4. CASE Tools
  <2>1. Len(trace') = Len(trace) + 1
    BY <1>0, <1>4, AppendOne DEF Tools, Step, Nodes
  <2>2. node = "tools" /\ node' \in {"retriever", "generator"} /\ revisions' = revisions
    BY <1>4 DEF Tools, Step, _after_tools_router
  <2> QED
    BY <1>0, <2>1, <2>2
<1>5. CASE Retriever
  BY <1>0, <1>5, AppendOne DEF Retriever, Step, Nodes
<1>6. CASE Generator
  BY <1>0, <1>6, AppendOne DEF Generator, Step, Nodes
<1>7. CASE Critic
  <2>1. Len(trace') = Len(trace) + 1
    BY <1>0, <1>7, AppendOne DEF Critic, Step, Nodes
  <2>2. /\ node = "critic"
        /\ node' = _critic_router(critique', revisions)
        /\ revisions' = revisions
    BY <1>7 DEF Critic, Step
  <2>3. CASE node' = "planner"
    <3>1. critique' # Nothing
      BY <2>2, <2>3 DEF _critic_router
    <3>2. NextRevision' = revisions + 1
      BY <2>2, <3>1 DEF NextRevision
    <3> QED
      BY <1>0, <2>1, <2>2, <2>3, <3>2
  <2>4. CASE node' = "memory_writer"
    BY <1>0, <2>1, <2>2, <2>4
  <2> QED
    BY <2>2, <2>3, <2>4 DEF _critic_router
<1>8. CASE MemoryWriter
  BY <1>0, <1>8, AppendOne DEF MemoryWriter, Step, Nodes
<1>9. CASE Raise
  <2>1. NextRevision <= revisions + 1 /\ NextRevision \in Nat
    BY <1>0 DEF NextRevision
  <2>2. node = "planner" => NextRevision <= MaxRevisions
    BY <1>0, GraphAssumption DEF NextRevision, PlannerEntry
  <2>3. node' = "raised" /\ Len(trace') = Len(trace)
    BY <1>9 DEF Raise
  <2>4. node \in {"query_analyzer", "planner", "retriever", "generator", "critic"}
    BY <1>9 DEF Raise
  <2>5. Len(trace) <= 8 + 5 * MaxRevisions
    BY <1>0, <2>1, <2>2, <2>4
  <2> QED
    BY <1>0, <2>3, <2>5, <1>9 DEF Raise
<1>10. CASE UNCHANGED vars
  BY <1>10 DEF vars, NextRevision
<1> QED
  BY <1>1, <1>2, <1>3, <1>4, <1>5, <1>6, <1>7, <1>8, <1>9, <1>10 DEF Next

(* GraphInv holds of the state a run starts from. *)
LEMMA InitInv == Init => GraphInv
<1> SUFFICES ASSUME Init PROVE GraphInv
  OBVIOUS
<1>1. TypeOK
  <2>1. -1 \in Passes /\ 0 \in 0 .. MaxDocuments /\ 0 \in 0 .. MaxRevisions
    BY GraphAssumption DEF Passes
  <2>2. tool_results \in ToolResults
    BY <2>1 DEF Init, initial_state, ToolResults
  <2>3. documents \in Documents
    BY <2>1 DEF Init, initial_state, Documents
  <2>4. answer \in Answers
    BY <2>1 DEF Init, initial_state, Answers
  <2> QED
    BY <2>1, <2>2, <2>3, <2>4 DEF Init, initial_state, TypeOK, Nodes
<1> QED
  BY <1>1 DEF Init, initial_state, GraphInv, PlannerEntry, PlanProgress, AnswerProgress,
              Agreement, RefusalsAreJudgedAsRefusals, Leaving, StepCount

(* GraphInv is an invariant of the graph. *)
LEMMA GraphInvariant == Spec => []GraphInv
<1>1. GraphInv /\ [Next]_vars => GraphInv'
  BY TypeStep, EntryStep, PlanStep, AnswerStep, AgreementStep, CountStep DEF GraphInv
<1> QED
  BY InitInv, <1>1, PTL DEF Spec

(* Every field of the state keeps its type; in particular no run ever      *)
(* counts more revisions than the settings allow.                          *)
THEOREM TypeCorrect == Spec => []TypeOK
<1>1. GraphInv => TypeOK
  BY DEF GraphInv
<1> QED
  BY GraphInvariant, <1>1, PTL

(* When the run leaves the loop its verdict is the verdict on its answer,  *)
(* and it gave up on insufficient context only with the budget spent.      *)
THEOREM LoopExit == Spec => []VerdictIsOnTheAnswer
<1>1. GraphInv => VerdictIsOnTheAnswer
  BY DEF GraphInv, AnswerProgress, Leaving, VerdictIsOnTheAnswer
<1> QED
  BY GraphInvariant, <1>1, PTL

(* The generator starts with everything its plan asked for, fetched in the *)
(* current pass.                                                           *)
THEOREM FreshGrounds == Spec => []RequestedGroundsAreFresh
<1>1. GraphInv => RequestedGroundsAreFresh
  BY DEF GraphInv, PlanProgress, RequestedGroundsAreFresh
<1> QED
  BY GraphInvariant, <1>1, PTL

(* A refusal meets the fixed verdict of its pass, an answer never does.    *)
THEOREM Refusal == Spec => []RefusalsAreJudgedAsRefusals
<1>1. GraphInv => RefusalsAreJudgedAsRefusals
  BY DEF GraphInv, Agreement
<1> QED
  BY GraphInvariant, <1>1, PTL

(* No run takes more than 5 (max_revisions + 1) + 3 steps. *)
THEOREM BoundedRun == Spec => []StepsAreBounded
<1>1. GraphInv => StepsAreBounded
  <2> SUFFICES ASSUME GraphInv PROVE StepsAreBounded
    OBVIOUS
  <2>1. /\ revisions \in Nat /\ MaxRevisions \in Nat /\ revisions <= MaxRevisions
        /\ trace \in Seq(Nodes)
        /\ node \in Nodes \cup {"END", "raised"}
    BY GraphAssumption DEF GraphInv, TypeOK
  <2>2. Len(trace) \in Nat
    BY <2>1
  <2>3. node = "planner" => NextRevision \in Nat /\ NextRevision <= MaxRevisions
    BY <2>1 DEF GraphInv, PlannerEntry, NextRevision
  <2> QED
    BY <2>1, <2>2, <2>3 DEF GraphInv, StepCount, StepsAreBounded, Nodes
<1> QED
  BY GraphInvariant, <1>1, PTL

(* Every revision answers a verdict of insufficient context on the pass    *)
(* just finished.                                                          *)
THEOREM RevisionsAreEarned == Spec => RevisionsAnswerAVerdict
<1> DEFINE Earned == revisions' # revisions =>
                        /\ revisions' = revisions + 1
                        /\ critique # Nothing
                        /\ ~critique.sufficient
                        /\ critique.pass = revisions
<1>1. GraphInv /\ [Next]_vars => [Earned]_vars
  <2> SUFFICES ASSUME GraphInv, Next, revisions' # revisions PROVE Earned
    OBVIOUS
  <2>1. Planner
    BY DEF Next, MemoryLoader, QueryAnalyzer, Tools, Retriever, Generator, Critic,
           MemoryWriter, Raise
  <2>2. node = "planner" /\ revisions' = NextRevision
    BY <2>1 DEF Planner, Step
  <2>3. critique # Nothing /\ revisions' = revisions + 1
    BY <2>2 DEF NextRevision
  <2> QED
    BY <2>2, <2>3 DEF GraphInv, PlannerEntry
<1> QED
  BY GraphInvariant, <1>1, PTL DEF Spec, RevisionsAnswerAVerdict

(* With a positive threshold, the stand-in verdict of a critic that could  *)
(* not be called is never an accepting one.                                *)
THEOREM NoSilentApproval ==
    ASSUME MinConfidence > 0
    PROVE  Spec => []UnavailableCriticNeverApproves
<1> DEFINE StandIn == critique # Nothing /\ critique.by = "unavailable" => critique.confidence = 0
<1>1. Init => StandIn
  BY DEF Init, initial_state
<1>2. StandIn /\ [Next]_vars => StandIn'
  <2> SUFFICES ASSUME StandIn, [Next]_vars PROVE StandIn'
    OBVIOUS
  <2>1. CASE Critic
    BY <2>1 DEF Critic, CriticVerdicts
  <2>2. CASE UNCHANGED critique
    BY <2>2
  <2> QED
    BY <2>1, <2>2 DEF Next, vars, MemoryLoader, QueryAnalyzer, Planner, Tools, Retriever,
                      Generator, MemoryWriter, Raise
<1>3. StandIn => UnavailableCriticNeverApproves
  BY GraphAssumption DEF UnavailableCriticNeverApproves, accepts
<1> QED
  BY <1>1, <1>2, <1>3, PTL DEF Spec

(* The graph implements AgentRun: a run returns once, with a legal result, *)
(* and returns nothing after an exception.                                 *)
THEOREM Implements == Spec => ImplementsAgentRun
<1>1. Init => Run!Init
  BY DEF Init, Run!Init, Run!NoResult
<1>2. GraphInv /\ GraphInv' /\ [Next]_vars => [Run!Next]_(Run!vars)
  <2> SUFFICES ASSUME GraphInv, GraphInv', Next PROVE [Run!Next]_(Run!vars)
    BY DEF vars, Run!vars, ReportedResult
  <2>1. CASE MemoryWriter
    <3>1. node = "memory_writer" /\ node' = "END"
      BY <2>1 DEF MemoryWriter, Step
    <3>2. ReportedResult' \in Run!LegalResults
      <4>1. critique' \in Critiques /\ documents' \in Documents /\ tool_results' \in ToolResults
            /\ answer' \in Answers
        BY <3>1 DEF GraphInv, TypeOK, AnswerProgress, Leaving
      <4> DEFINE verdict == [sufficient |-> critique'.sufficient,
                             grounded |-> critique'.grounded,
                             confidence |-> critique'.confidence]
      <4>2. verdict \in Run!Verdicts
        BY <4>1 DEF Critiques, Run!Verdicts
      <4>3. answer'.text \in Run!Answers
        BY <4>1 DEF Answers, Run!Answers
      <4>4. ReportedResult' =
              [answer |-> answer'.text, verdict |-> verdict,
               documents |-> documents'.count > 0, toolOk |-> tool_results'.ok > 0,
               toolFailed |-> tool_results'.failed > 0]
        BY DEF ReportedResult
      <4>5. ReportedResult' \in Run!Results
        BY <4>2, <4>3, <4>4 DEF Run!Results
      <4>6. /\ answer'.text = "no_context" <=> ~(documents'.count > 0 \/ tool_results'.ok > 0)
            /\ answer'.text = "no_context" =>
                  /\ ~critique'.sufficient
                  /\ critique'.grounded
                  /\ critique'.confidence = MaxConfidence
        BY <3>1 DEF GraphInv, AnswerProgress, Leaving, GeneratorHasGrounds,
                       CriticHasGrounds
      <4>7. critique'.sufficient \in BOOLEAN /\ critique'.grounded \in BOOLEAN
        BY <4>1 DEF Critiques
      <4>8. answer'.text = "no_context" =>
               verdict = [sufficient |-> FALSE, grounded |-> TRUE, confidence |-> MaxConfidence]
        BY <4>6, <4>7
      <4> HIDE DEF verdict
      <4>9. Run!Legal(ReportedResult')
        BY <4>4, <4>6, <4>8 DEF Run!Legal
      <4> QED
        BY <4>5, <4>9 DEF Run!LegalResults
    <3> QED
      BY <3>1, <3>2 DEF Run!Next, Run!Answer
  <2>2. CASE Raise
    BY <2>2 DEF Raise, Run!Next, Run!Fail
  <2>3. ASSUME ~MemoryWriter, ~Raise PROVE UNCHANGED Run!vars
    <3>1. node \notin {"END", "raised"} /\ node' \notin {"END", "raised"}
      BY <2>3 DEF Next, MemoryLoader, QueryAnalyzer, Planner, Tools, Retriever, Generator,
                  Critic, Step, _plan_router, _after_tools_router, _critic_router
    <3> QED
      BY <3>1 DEF Run!vars
  <2> QED
    BY <2>1, <2>2, <2>3
<1> QED
  BY GraphInvariant, <1>1, <1>2, PTL DEF Spec, ImplementsAgentRun, Run!Spec

=============================================================================
