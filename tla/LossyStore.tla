----------------------------- MODULE LossyStore -----------------------------
(***************************************************************************)
(* What the answer cache relies on of a backend (CacheBackend,             *)
(* app/cache/base.py): a key-value store that may forget anything at any   *)
(* time, but answers a get with the value last set or not at all.          *)
(***************************************************************************)
CONSTANTS Callers, Keys, Values, None

VARIABLES
    stored, \* the value each key has
    reply   \* the key and the result of each caller's last get, until it acts on it

Init ==
    /\ stored = [k \in Keys |-> None]
    /\ reply = [c \in Callers |-> <<None, None>>]

Kept(k) == stored'[k] \in {stored[k], None}

Get(c) ==
    /\ \E k \in Keys : reply' = [reply EXCEPT ![c] = <<k, stored[k]>>]
    /\ \A k \in Keys : Kept(k)

Used == UNCHANGED reply \/ \E c \in Callers : reply' = [reply EXCEPT ![c] = <<None, None>>]

Set(k) ==
    /\ stored'[k] \in Values
    /\ \A other \in Keys \ {k} : Kept(other)
    /\ Used

Forget == (\A k \in Keys : Kept(k)) /\ Used

Next ==
    \/ \E c \in Callers : Get(c)
    \/ \E k \in Keys : Set(k)
    \/ Forget

Spec == Init /\ [][Next]_<<stored, reply>>
=============================================================================
