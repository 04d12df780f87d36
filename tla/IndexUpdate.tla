---------------------------- MODULE IndexUpdate -----------------------------
(***************************************************************************)
(* What ingesting a document promises the rest of the system               *)
(* (app/ingestion/pipeline.py): it only adds rows of its own to the vector *)
(* store, it announces a new knowledge base version once and only when     *)
(* all of them are there, it reports success only then, and once it has    *)
(* announced or succeeded it writes nothing more.  What it gave up when it *)
(* failed may still reach the store: those rows are its own too.           *)
(***************************************************************************)
CONSTANTS
    Updates \* the ingestions

VARIABLES
    corpus, \* the rows of the vector store
    wanted, \* the rows each ingestion is to write
    stage   \* how far each ingestion has come

Init ==
    /\ corpus = {}
    /\ stage = [u \in Updates |-> "writing"]

Stored(u) == wanted[u] \subseteq corpus

Write(u) ==
    /\ stage[u] \in {"writing", "failed"}
    /\ corpus \subseteq corpus'
    /\ corpus' \ corpus \subseteq wanted[u]
    /\ UNCHANGED stage

(* A write and the failure it ends in may be one step: the last call of an *)
(* ingestion that is called off can still reach the store.                 *)
Fail(u) ==
    /\ stage[u] \in {"writing", "announced"}
    /\ corpus \subseteq corpus'
    /\ corpus' \ corpus \subseteq (IF stage[u] = "writing" THEN wanted[u] ELSE {})
    /\ stage' = [stage EXCEPT ![u] = "failed"]

Announce(u) ==
    /\ stage[u] = "writing"
    /\ wanted[u] # {}
    /\ Stored(u)
    /\ stage' = [stage EXCEPT ![u] = "announced"]
    /\ UNCHANGED corpus

Complete(u) ==
    /\ stage[u] \in {"writing", "announced"}
    /\ Stored(u)
    /\ stage' = [stage EXCEPT ![u] = "done"]
    /\ UNCHANGED corpus

Next ==
    /\ UNCHANGED wanted
    /\ \E u \in Updates : Write(u) \/ Fail(u) \/ Announce(u) \/ Complete(u)

Spec == Init /\ [][Next]_<<corpus, wanted, stage>>
=============================================================================
