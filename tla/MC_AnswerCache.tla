--------------------------- MODULE MC_AnswerCache ---------------------------
(* AnswerCache for TLC: two processes, the first of which serves the       *)
(* requests.  The second ingestion runs in the second process, as the      *)
(* offline ingestion command does, the others in the first.                *)
EXTENDS AnswerCache, TLC

CONSTANTS p1, p2, i2

(* Every question is close to every other. *)
AllSimilar == Questions \X Questions

FirstServes == [r \in Requests |-> p1]

SecondIngestElsewhere == [i \in Ingests |-> IF i = i2 THEN p2 ELSE p1]

Symmetric == Permutations(Requests)
=============================================================================
