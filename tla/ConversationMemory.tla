------------------------- MODULE ConversationMemory -------------------------
(***************************************************************************)
(* InMemoryStore (app/memory/store.py) and the tasks that use it: the      *)
(* memory loader and memory writer nodes of concurrent graph runs, the     *)
(* cache's _remember on a hit, and the reset-memory endpoint.              *)
(*                                                                         *)
(* Every store method runs under the store's lock, so one call is one      *)
(* step; between two calls other tasks run.  A turn is a run and a role, a *)
(* fact of the user is the run it was learned in.                          *)
(* A summary is the set of turns it tells of: the summariser is assumed to *)
(* keep all that its prompt contains, so that nothing below is lost by a   *)
(* careless model.                                                         *)
(***************************************************************************)
EXTENDS Naturals, Sequences, SequencesExt, FiniteSets

CONSTANTS
    Sessions,          \* the conversations
    Runs,              \* the requests
    short_term_turns,  \* settings.memory
    summary_after_turns,
    max_user_facts,
    max_sessions,
    MaxUnderWay,       \* bound: how many requests are under way at once
    Failures,          \* whether answers may be blank, summaries fail, deadlines pass
    Resets,            \* bound: how often reset-memory is called
    None

Turns == Runs \X {"user", "assistant"}
Facts == Runs \X {"fact"}

(* said is not in the code: the turns recorded since the session began. *)
_Session == [turns : Seq(Turns), summary : SUBSET Turns, facts : Seq(Facts),
             turns_recorded : Nat, turns_summarised : Nat, said : SUBSET Turns]

ASSUME MemoryAssumption ==
    /\ short_term_turns \in Nat \ {0}
    /\ summary_after_turns \in Nat \ {0}
    /\ summary_after_turns <= short_term_turns
    /\ max_user_facts \in Nat \ {0}
    /\ max_sessions \in Nat \ {0}
    /\ MaxUnderWay \in Nat \ {0}
    /\ Failures \in BOOLEAN
    /\ Resets \in Nat
    /\ None \notin _Session

VARIABLES
    sessions,   \* _sessions
    lru,        \* the order of _sessions, least recently written first
    pc,         \* where each run is
    session,    \* the session it belongs to
    memory,     \* the summary its loader read (RAGState.memory.summary)
    transcript, \* the turns the summariser is given
    forgotten,  \* what a reset no run was in the way of has forgotten
    resets,     \* how many resets there have been
    disturbed   \* the sessions whose requests overlapped, failed or were reset

vars == <<sessions, lru, pc, session, memory, transcript, forgotten, resets, disturbed>>

Fresh == [turns |-> <<>>, summary |-> {}, facts |-> <<>>,
          turns_recorded |-> 0, turns_summarised |-> 0, said |-> {}]

Ended == {"done", "cancelled"}
Places == {"idle", "user", "assistant", "hit_user", "hit_assistant", "pending",
           "snapshot", "summarise", "extract"} \cup Ended

LastOf(s, n) == IF Len(s) <= n THEN s ELSE SubSeq(s, Len(s) - n + 1, Len(s))

-----------------------------------------------------------------------------
(* The store *)

(* _session: the session as it is, or a new one. *)
Opened(s) == IF sessions[s] = None THEN Fresh ELSE sessions[s]

(* Mutation: a full store makes no room for a new session. *)
NeverEvicts(s) == {}

(* _session: the session that makes room for a new one. *)
Evicted(s) ==
    IF sessions[s] = None /\ Len(lru) >= max_sessions THEN {Head(lru)} ELSE {}

(* The order without a session, which need not be in it. *)
Without(s) ==
    IF sessions[s] = None THEN lru ELSE RemoveAt(lru, CHOOSE i \in DOMAIN lru : lru[i] = s)

(* What every writing method does: open the session, making it the most    *)
(* recently used, and leave value in it.                                   *)
Write(s, value) ==
    /\ sessions' = [t \in Sessions |-> IF t = s THEN value
                                       ELSE IF t \in Evicted(s) THEN None ELSE sessions[t]]
    /\ lru' = Append(IF Evicted(s) = {} THEN Without(s) ELSE Tail(lru), s)

(* Mutation: a turn that falls out of the window is not counted. *)
AppendedUncounted(s, turn) ==
    [Opened(s) EXCEPT !.turns = LastOf(Append(@, turn), short_term_turns),
                      !.turns_recorded = IF @ < short_term_turns THEN @ + 1 ELSE @,
                      !.said = @ \cup {turn}]

append(s, turn) ==
    [Opened(s) EXCEPT !.turns = LastOf(Append(@, turn), short_term_turns),
                      !.turns_recorded = @ + 1,
                      !.said = @ \cup {turn}]

set_summary(s, summary) ==
    [Opened(s) EXCEPT !.summary = summary, !.turns_summarised = Opened(s).turns_recorded]

merge_user_context(s, run) ==
    [Opened(s) EXCEPT !.facts = LastOf(Append(@, <<run, "fact">>), max_user_facts)]

turns_since_summary(s) ==
    IF sessions[s] = None THEN 0
    ELSE sessions[s].turns_recorded - sessions[s].turns_summarised

SummaryOf(s) == IF sessions[s] = None THEN {} ELSE sessions[s].summary
WindowOf(s) == IF sessions[s] = None THEN {} ELSE ToSet(sessions[s].turns)
FactsOf(s) == IF sessions[s] = None THEN {} ELSE ToSet(sessions[s].facts)

(* All that is remembered of a session. *)
Remembered(s) == WindowOf(s) \cup SummaryOf(s) \cup FactsOf(s)

-----------------------------------------------------------------------------
Init ==
    /\ sessions = [s \in Sessions |-> None]
    /\ lru = <<>>
    /\ pc = [r \in Runs |-> "idle"]
    /\ session \in [Runs -> Sessions]
    /\ memory = [r \in Runs |-> {}]
    /\ transcript = [r \in Runs |-> {}]
    /\ forgotten = [s \in Sessions |-> {}]
    /\ resets = 0
    /\ disturbed = {}

Goto(r, place) == pc' = [pc EXCEPT ![r] = place] /\ UNCHANGED <<memory, transcript>>

(* The run is over, and with it what it held. *)
Leave(r, place) ==
    /\ pc' = [pc EXCEPT ![r] = place]
    /\ memory' = [memory EXCEPT ![r] = {}]
    /\ transcript' = [transcript EXCEPT ![r] = {}]

(* What is remembered of a session, beside its store, is whether anything  *)
(* out of the ordinary has happened in it.                                 *)
Disturb(r) == disturbed' = disturbed \cup {session[r]}

UnderWay == {r \in Runs : pc[r] \notin {"idle"} \cup Ended}
Overlaps(r) == \E q \in UnderWay \ {r} : session[q] = session[r]

(* A request arrives; another one of its session may still be under way. *)
Arrive(r) ==
    /\ pc[r] = "idle"
    /\ Cardinality(UnderWay) < MaxUnderWay
    /\ disturbed' = IF Overlaps(r) THEN disturbed \cup {session[r]} ELSE disturbed

(* The memory loader takes its snapshot; the run then answers. *)
Load(r) ==
    /\ Arrive(r)
    /\ memory' = [memory EXCEPT ![r] = SummaryOf(session[r])]
    /\ pc' = [pc EXCEPT ![r] = "user"]
    /\ UNCHANGED <<sessions, lru, session, transcript, forgotten, resets>>

(* A request served from the cache goes straight to _remember; the cache   *)
(* is asked only where the session has no history.                         *)
Hit(r) ==
    /\ Arrive(r)
    /\ WindowOf(session[r]) = {}
    /\ Goto(r, "hit_user")
    /\ UNCHANGED <<sessions, lru, session, forgotten, resets>>

AppendUser(r) ==
    /\ pc[r] \in {"user", "hit_user"}
    /\ Write(session[r], append(session[r], <<r, "user">>))
    /\ Goto(r, IF pc[r] = "user" THEN "assistant" ELSE "hit_assistant")
    /\ UNCHANGED <<session, forgotten, resets, disturbed>>

(* A blank answer is not appended. *)
AppendAssistant(r) ==
    /\ pc[r] \in {"assistant", "hit_assistant"}
    /\ \/ Write(session[r], append(session[r], <<r, "assistant">>))
       \/ Failures /\ UNCHANGED <<sessions, lru>>
    /\ Goto(r, IF pc[r] = "assistant" THEN "pending" ELSE "done")
    /\ UNCHANGED <<session, forgotten, resets, disturbed>>

(* Mutation: the turns waiting are compared with the window. *)
WaitsForTheWindow(r) ==
    /\ pc[r] = "pending"
    /\ Goto(r, IF turns_since_summary(session[r]) <= short_term_turns
               THEN "extract" ELSE "snapshot")
    /\ UNCHANGED <<sessions, lru, session, forgotten, resets, disturbed>>

(* _maybe_summarise: are enough turns waiting? *)
CheckPending(r) ==
    /\ pc[r] = "pending"
    /\ Goto(r, IF turns_since_summary(session[r]) < summary_after_turns
               THEN "extract" ELSE "snapshot")
    /\ UNCHANGED <<sessions, lru, session, forgotten, resets, disturbed>>

TakeSnapshot(r) ==
    /\ pc[r] = "snapshot"
    /\ transcript' = [transcript EXCEPT ![r] = WindowOf(session[r])]
    /\ pc' = [pc EXCEPT ![r] = "summarise"]
    /\ UNCHANGED <<sessions, lru, session, memory, forgotten, resets, disturbed>>

(* Mutation: the previous summary is left out of the prompt. *)
SummariseAfresh(r) ==
    /\ pc[r] = "summarise"
    /\ Write(session[r], set_summary(session[r], transcript[r]))
    /\ Goto(r, "extract")
    /\ UNCHANGED <<session, forgotten, resets, disturbed>>

(* The model folds the transcript into the summary the loader had read,    *)
(* and the result replaces the stored one; or the call fails, with the     *)
(* error expected of it or with another, which ends the writer.            *)
Summarise(r) ==
    /\ pc[r] = "summarise"
    /\ \/ /\ Write(session[r], set_summary(session[r], memory[r] \cup transcript[r]))
          /\ Goto(r, "extract")
          /\ UNCHANGED disturbed
       \/ /\ Failures
          /\ Goto(r, "extract") \/ Leave(r, "done")
          /\ UNCHANGED <<sessions, lru>>
          /\ Disturb(r)
    /\ UNCHANGED <<session, forgotten, resets>>

(* _maybe_extract: a fact is learned, or none is (nothing found, the call  *)
(* failed, or extraction is off).                                          *)
Extract(r) ==
    /\ pc[r] = "extract"
    /\ \/ Write(session[r], merge_user_context(session[r], r))
       \/ UNCHANGED <<sessions, lru>>
    /\ Leave(r, "done")
    /\ UNCHANGED <<session, forgotten, resets, disturbed>>

(* The request's deadline passes between two calls. *)
Cancel(r) ==
    /\ Failures
    /\ r \in UnderWay
    /\ Leave(r, "cancelled")
    /\ Disturb(r)
    /\ UNCHANGED <<sessions, lru, session, forgotten, resets>>

(* Nothing is under way in session s. *)
AtRest(s) == \A r \in UnderWay : session[r] # s

(* Mutation: what is known of the user is kept. *)
ResetKeepsTheFacts(s) ==
    /\ resets < Resets /\ sessions[s] # None
    /\ resets' = resets + 1
    /\ forgotten' = [forgotten EXCEPT ![s] = IF AtRest(s) THEN Remembered(s) ELSE @]
    /\ sessions' = [sessions EXCEPT ![s].turns = <<>>, ![s].summary = {}]
    /\ disturbed' = disturbed \cup {s}
    /\ UNCHANGED <<lru, pc, session, memory, transcript>>

(* POST /reset-memory. *)
reset_memory(s) ==
    /\ resets < Resets
    /\ resets' = resets + 1
    /\ forgotten' = [forgotten EXCEPT ![s] = IF AtRest(s) THEN Remembered(s) ELSE @]
    /\ sessions' = [sessions EXCEPT ![s] = None]
    /\ lru' = Without(s)
    /\ disturbed' = disturbed \cup {s}
    /\ UNCHANGED <<pc, session, memory, transcript>>

Next ==
    \/ \E r \in Runs :
          \/ Load(r) \/ Hit(r) \/ AppendUser(r) \/ AppendAssistant(r) \/ CheckPending(r)
          \/ TakeSnapshot(r) \/ Summarise(r) \/ Extract(r) \/ Cancel(r)
    \/ \E s \in Sessions : reset_memory(s)

Spec == Init /\ [][Next]_vars

-----------------------------------------------------------------------------
(* Properties *)

(* The store never holds more sessions than it may, and its order lists    *)
(* exactly the sessions it holds, each once, whatever runs and resets do   *)
(* to a session behind each other's back.                                  *)
StoreIsBounded ==
    /\ Len(lru) <= max_sessions
    /\ IsInjective(lru)
    /\ ToSet(lru) = {s \in Sessions : sessions[s] # None}

(* Every variable has its type. *)
TypeOK ==
    /\ DOMAIN sessions = Sessions
    /\ \A s \in Sessions : sessions[s] = None \/ sessions[s] \in _Session
    /\ lru \in Seq(Sessions)
    /\ pc \in [Runs -> Places]
    /\ session \in [Runs -> Sessions]
    /\ memory \in [Runs -> SUBSET Turns]
    /\ transcript \in [Runs -> SUBSET Turns]
    /\ forgotten \in [Sessions -> SUBSET (Turns \cup Facts)]
    /\ resets \in 0 .. Resets
    /\ disturbed \subseteq Sessions

(* The books of the store balance when several runs, resets and evictions  *)
(* meet in one session: it stays within its bound, never more turns are    *)
(* summarised than recorded, so that the number waiting is never negative, *)
(* and the window is exactly the last turns of those recorded.             *)
CountersAgree ==
    /\ StoreIsBounded
    /\ \A s \in Sessions : sessions[s] # None =>
          LET e == sessions[s] IN
          /\ e.turns_summarised <= e.turns_recorded
          /\ e.turns_recorded = Cardinality(e.said)
          /\ Len(e.turns) = (IF e.turns_recorded <= short_term_turns
                             THEN e.turns_recorded ELSE short_term_turns)

(* Every answer was recorded with its question, and every question, unless *)
(* its run is about to, with an answer: none was blank, and the session    *)
(* was not evicted between the two.                                        *)
InWholeExchanges(s) ==
    \A r \in Runs : session[r] = s /\ pc[r] \notin {"assistant", "hit_assistant"} =>
        (<<r, "user">> \in sessions[s].said <=> <<r, "assistant">> \in sessions[s].said)

(* Whether the summary keeps up with the window.  A run adds two turns at  *)
(* a time and checks afterwards, so that a threshold equal to the window   *)
(* is met in time only if it is even and no turn came singly; and the      *)
(* exchange of a hit waits with that of the next run.                      *)
KeepsUp(s) ==
    /\ short_term_turns >= 4
    /\ \/ summary_after_turns < short_term_turns
       \/ summary_after_turns % 2 = 0 /\ InWholeExchanges(s)

(* No turn is lost: what was said in a session whose requests follow one   *)
(* another undisturbed is in its window or in its summary, whatever goes   *)
(* on in other sessions, where the summary keeps up with the window.       *)
(* config/settings.py:130-136 takes any threshold up to the window to be   *)
(* enough for that: it is not where KeepsUp does not hold.  With both at   *)
(* 3 a second exchange drops a turn though nothing fails, with both at 6,  *)
(* as shipped, one blank answer is enough.                                 *)
NoTurnIsLost ==
    \A s \in Sessions \ disturbed : sessions[s] # None /\ KeepsUp(s) =>
        sessions[s].said \subseteq WindowOf(s) \cup SummaryOf(s)

(* The summary of such a session, rewritten, still tells what it told. *)
SummariesOnlyGrow ==
    [][\A s \in Sessions \ disturbed' :
          sessions[s] # None /\ sessions'[s] # None => SummaryOf(s) \subseteq SummaryOf(s)']_vars

(* The same of every session (memory/store.py: the lock is there because   *)
(* "a read-modify-write of the summary would otherwise interleave").       *)
SummariesNeverShrink ==
    [][\A s \in Sessions :
          sessions[s] # None /\ sessions'[s] # None => SummaryOf(s) \subseteq SummaryOf(s)']_vars

(* "that nothing be remembered, and after this call nothing is" (api/v1/   *)
(* memory.py), "including its summary and user facts" (memory/store.py):   *)
(* what a reset forgot while no run of the session was under way never     *)
(* comes back, through no other session, eviction or late write.           *)
ResetForgets == \A s \in Sessions : Remembered(s) \cap forgotten[s] = {}
=============================================================================
