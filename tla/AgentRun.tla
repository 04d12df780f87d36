------------------------------ MODULE AgentRun ------------------------------
(***************************************************************************)
(* What one run of the agentic RAG graph promises its caller: it either    *)
(* fails with an exception or ends with a result, and a result carries the *)
(* critic's verdict on the answer it reports.  RagGraph implements this    *)
(* specification; AnswerCache relies on it for the run it wraps.           *)
(***************************************************************************)
EXTENDS AgentResult

VARIABLES
    phase,  \* "running", "answered" or "failed"
    result  \* what the run returned, NoResult until it has

vars == <<phase, result>>

NoResult == "none"

Init == /\ phase = "running"
        /\ result = NoResult

Answer == /\ phase = "running"
          /\ phase' = "answered"
          /\ result' \in LegalResults

Fail == /\ phase = "running"
        /\ phase' = "failed"
        /\ UNCHANGED result

Next == Answer \/ Fail

Spec == Init /\ [][Next]_vars
=============================================================================
