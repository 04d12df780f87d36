----------------------- MODULE MC_ConversationMemory -----------------------
(* ConversationMemory for TLC: a few requests on one or two sessions.      *)
(* Requests are interchangeable, and so are sessions.                      *)
EXTENDS ConversationMemory, TLC

Symmetric == Permutations(Sessions) \cup Permutations(Runs)
=============================================================================
