--------------------------- MODULE MC_ChatRequest ---------------------------
(* ChatRequest for TLC: runs of up to two drafts and two other stages.     *)
EXTENDS ChatRequest
=============================================================================
