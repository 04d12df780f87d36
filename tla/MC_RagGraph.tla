---------------------------- MODULE MC_RagGraph ----------------------------
(* RagGraph for TLC: a scale of two confidence steps, two revisions, plans *)
(* of up to two tool calls and retrievals of one document.          *)
EXTENDS RagGraph
=============================================================================
