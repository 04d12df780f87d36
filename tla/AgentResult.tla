---------------------------- MODULE AgentResult ----------------------------
(***************************************************************************)
(* What a completed run of the graph can report: an answer, the critic's   *)
(* verdict on it, and what the answer was drawn from.                      *)
(***************************************************************************)
EXTENDS Naturals

CONSTANTS
    MaxConfidence,  \* the confidence 1.0, on a scale of MaxConfidence steps
    MinConfidence   \* settings.agent.min_confidence on the same scale

ASSUME ConfidenceAssumption ==
    /\ MaxConfidence \in Nat \ {0}
    /\ MinConfidence \in 0 .. MaxConfidence

(* The texts a run can return, told apart only as far as the system tells  *)
(* them apart: the fixed refusal, the fixed apology for a failed model     *)
(* call, the model's own text, and nothing at all (a blank model reply).   *)
Answers == {"no_context", "failed", "text", "empty"}

Verdicts == [sufficient : BOOLEAN, grounded : BOOLEAN, confidence : 0 .. MaxConfidence]

(* Critique.accepts (agents/models.py). *)
Accepts(verdict) ==
    /\ verdict.sufficient
    /\ verdict.grounded
    /\ verdict.confidence >= MinConfidence

Results == [answer : Answers, verdict : Verdicts,
            documents : BOOLEAN, toolOk : BOOLEAN, toolFailed : BOOLEAN]

(* The refusal goes out exactly when nothing was retrieved and no tool     *)
(* succeeded, and its verdict is fixed: insufficient, fully confident.     *)
Legal(r) ==
    /\ (r.answer = "no_context") <=> ~(r.documents \/ r.toolOk)
    /\ r.answer = "no_context" =>
          r.verdict = [sufficient |-> FALSE, grounded |-> TRUE, confidence |-> MaxConfidence]

LegalResults == {r \in Results : Legal(r)}
============================================================================
