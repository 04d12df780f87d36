---------------------------- MODULE MC_Ingestion ----------------------------
(* Ingestion for TLC: two documents of up to two batches and a limiter of  *)
(* two tokens, with a file of every kind the endpoint tells apart.         *)
EXTENDS Ingestion

Pdf(name, batches) ==
    [name |-> name, named |-> TRUE, parts |-> 1, magic |-> TRUE, readable |-> TRUE,
     batches |-> batches]

Good == Pdf("a", <<"x", "y">>)
Short == Pdf("a", <<"x">>)

Rejected ==
    {Pdf("b", <<>>), [Good EXCEPT !.named = FALSE], [Good EXCEPT !.parts = 0],
     [Good EXCEPT !.parts = 3], [Good EXCEPT !.magic = FALSE], [Good EXCEPT !.readable = FALSE]}

(* Three batches, one of them of a row two documents share, on two tokens; *)
(* and next to a good file one that is turned away or comes to nothing.    *)
Workloads ==
    {<<Good, Short>>} \cup {<<f, Short>> : f \in Rejected} \cup {<<Short, f>> : f \in Rejected}
=============================================================================
