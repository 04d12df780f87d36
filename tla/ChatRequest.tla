---------------------------- MODULE ChatRequest ----------------------------
(***************************************************************************)
(* One POST /chat, from the timeout middleware to the last byte: the       *)
(* endpoint (api/v1/chat.py), the agent behind its cache (cache/agent.py), *)
(* the events of the run it wraps (agents/rag.py) and the deadline around  *)
(* all of it (core/timeout.py).  Three parties may write the response: the *)
(* handler, the middleware that gives up on it, and the server's own error *)
(* page, and a client must get exactly one.                                *)
(*                                                                         *)
(* A step goes from one await to the next.  What a run decides is RagGraph *)
(* and what the cache holds is AnswerCache; here a run is the drafts it    *)
(* writes, numbered in their order, and the stages it reports.             *)
(***************************************************************************)
EXTENDS Naturals, Sequences

CONSTANTS
    MaxDrafts,  \* bound: drafts of a run, settings.agent.max_revisions + 1
    MaxStages   \* bound: reported stages of a run other than the generator's

ASSUME ChatAssumption ==
    /\ MaxDrafts \in Nat \ {0}
    /\ MaxStages \in Nat

VARIABLES
    streaming,   \* payload.stream
    pc,          \* where the request is
    standalone,  \* _is_standalone, decided before the run
    draft,       \* drafts the run has written
    stages,      \* stages reported, bounded by MaxStages
    answer,      \* RAGState.answer, or the answer of the hit
    started,     \* started, in the middleware
    deadline,    \* cancel_scope.deadline: "set", or "lifted" (math.inf)
    cancel,      \* "none"; "called", the deadline has passed while the task
                 \* was about to resume; "due", its next await raises
    gone,        \* the client of a stream has disconnected
    sent         \* the messages the client is sent

vars == <<streaming, pc, standalone, draft, stages, answer, started, deadline,
          cancel, gone, sent>>

run == <<standalone, draft, stages, answer>>

Blank == 0
Cached == MaxDrafts + 1
Answers == 0 .. Cached

(* The statuses the three writers use.  Those of AppError (core/exceptions)*)
(* are 422, 404, 500 and 502, told apart by nothing here.                  *)
OK == 200
AppErrorStatus == 502
InternalError == 500
GatewayTimeout == 504

Kinds == {"start", "stage", "answer", "result", "error", "json"}
Terminal == {"result", "error", "json"}
Message(kind, value) == [kind |-> kind, value |-> value]

Handling == {"resolve", "open", "standalone", "lookup", "remember", "hit_stage",
             "hit_answer", "run", "draft", "store", "result", "body",
             "envelope", "failed"}
Outside == {"timeout", "timeout_body", "server", "server_body", "done"}

Init ==
    /\ streaming \in BOOLEAN
    /\ pc = "resolve"
    /\ standalone = FALSE
    /\ draft = 0
    /\ stages = 0
    /\ answer = Blank
    /\ started = FALSE
    /\ deadline = "set"
    /\ cancel = "none"
    /\ gone = FALSE
    /\ sent = <<>>

-----------------------------------------------------------------------------
(* Cancellation, as anyio delivers it *)

(* A step of the handler, from where it awaited to its next await.  A      *)
(* deadline that passed when the task was already about to resume is       *)
(* noticed there.                                                          *)
Await(from, to) ==
    /\ pc = from
    /\ pc' = to
    /\ cancel # "due"
    /\ cancel' = IF cancel = "called" THEN "due" ELSE "none"
    /\ UNCHANGED <<streaming, gone>>

(* Mutation: the scope is opened around the run of the graph only. *)
ExpiresOnlyInTheRun ==
    /\ pc = "run"
    /\ deadline = "set"
    /\ cancel = "none"
    /\ cancel' = "called"
    /\ UNCHANGED <<streaming, pc, run, started, deadline, gone, sent>>

(* The deadline passes: the scope of move_on_after is cancelled. *)
Expire ==
    /\ pc \in Handling
    /\ deadline = "set"
    /\ cancel = "none"
    /\ cancel' = "called"
    /\ UNCHANGED <<streaming, pc, run, started, deadline, gone, sent>>

(* The cancelled handler unwinds to the middleware, which answers for it   *)
(* if the handler had not started to.  If it had tried to, and its message *)
(* was cut off, nobody below the server's error page answers.              *)
Abandon ==
    /\ pc \in Handling
    /\ cancel # "none"
    /\ pc' = IF started THEN "server" ELSE "timeout"
    /\ UNCHANGED <<streaming, run, started, deadline, cancel, gone, sent>>

-----------------------------------------------------------------------------
(* Sending *)

(* Mutations of guarded_send and of the rendering of failures. *)
StartsWithoutLifting(from, status, to) ==
    /\ Await(from, to)
    /\ started' = TRUE
    /\ sent' = IF cancel = "called" THEN sent ELSE Append(sent, Message("start", status))
    /\ UNCHANGED <<run, deadline>>
StartsUnnoticed(from, status, to) ==
    /\ Await(from, to)
    /\ sent' = Append(sent, Message("start", status))
    /\ UNCHANGED <<run, started, deadline>>

(* guarded_send of http.response.start.  The flag and the deadline are set *)
(* before the message goes out, so that a cancellation already called      *)
(* keeps the message from being sent and is too late to be taken back.     *)
Start(from, status, to) ==
    /\ Await(from, to)
    /\ started' = TRUE
    /\ deadline' = "lifted"
    /\ sent' = IF cancel = "called" THEN sent ELSE Append(sent, Message("start", status))
    /\ UNCHANGED run

(* guarded_send of a part of the body. *)
Body(from, kind, value, to) ==
    /\ Await(from, to)
    /\ sent' = Append(sent, Message(kind, value))
    /\ UNCHANGED <<started, deadline>>

(* A step of the handler that sends nothing. *)
Quiet(from, to) ==
    /\ Await(from, to)
    /\ UNCHANGED <<started, deadline, sent>>

-----------------------------------------------------------------------------
(* The endpoint and the agent behind its cache *)

(* get_agent and chat.  A stream is started before anything is asked of    *)
(* the agent; otherwise the agent is invoked first.                        *)
Chat ==
    /\ Quiet("resolve", IF streaming THEN "open" ELSE "standalone")
    /\ UNCHANGED run

(* A component missing from the container (_require), or a payload that    *)
(* does not validate (validation_error_handler).                           *)
Reject ==
    /\ Quiet("resolve", "envelope")
    /\ UNCHANGED run

OpenStream == Start("open", OK, "standalone")

(* Whether the session has a history: the cache is consulted or passed by. *)
CheckStandalone ==
    \E alone \in BOOLEAN :
        /\ Quiet("standalone", IF alone THEN "lookup" ELSE "run")
        /\ standalone' = alone
        /\ UNCHANGED <<draft, stages, answer>>

Lookup ==
    \/ /\ Quiet("lookup", "run")
       /\ UNCHANGED run
    \/ /\ Quiet("lookup", "remember")
       /\ answer' = Cached
       /\ UNCHANGED <<standalone, draft, stages>>

(* _remember never raises. *)
Remember ==
    /\ Quiet("remember", IF streaming THEN "hit_stage" ELSE "result")
    /\ UNCHANGED run

HitStage ==
    /\ Body("hit_stage", "stage", 0, "hit_answer")
    /\ UNCHANGED run

HitAnswer ==
    /\ Body("hit_answer", "answer", answer, "result")
    /\ UNCHANGED run

(* A node other than the generator ends; a stream reports its stage. *)
OtherStage ==
    /\ stages < MaxStages
    /\ stages' = stages + 1
    /\ IF streaming THEN Body("run", "stage", 0, "run") ELSE Quiet("run", "run")
    /\ UNCHANGED <<standalone, draft, answer>>

(* Mutation: the drafts of later passes are not reported. *)
ShowsFirstDraftOnly ==
    \E text \in {Blank, draft + 1} :
        /\ draft < MaxDrafts
        /\ draft' = draft + 1
        /\ answer' = text
        /\ IF streaming
           THEN Body("run", "stage", 0, IF text = Blank \/ draft > 0 THEN "run" ELSE "draft")
           ELSE Quiet("run", "run")
        /\ UNCHANGED <<standalone, stages>>

(* The generator ends: a stage and, unless the model's reply was blank, an *)
(* answer.                                                                 *)
GeneratorStage ==
    \E text \in {Blank, draft + 1} :
        /\ draft < MaxDrafts
        /\ draft' = draft + 1
        /\ answer' = text
        /\ IF streaming
           THEN Body("run", "stage", 0, IF text = Blank THEN "run" ELSE "draft")
           ELSE Quiet("run", "run")
        /\ UNCHANGED <<standalone, stages>>

ShowDraft ==
    /\ Body("draft", "answer", answer, "run")
    /\ UNCHANGED run

(* The run is over and its last answer stands (RagGraph: never without a   *)
(* draft); the gateway is offered it before the result goes out.           *)
RunEnds ==
    /\ draft > 0
    /\ Quiet("run", IF standalone THEN "store" ELSE "result")
    /\ UNCHANGED run

Store ==
    /\ Quiet("store", "result")
    /\ UNCHANGED run

(* The result: the last event of a stream, or the response to an invoke. *)
Result ==
    /\ IF streaming THEN Body("result", "result", answer, "done")
                    ELSE Start("result", OK, "body")
    /\ UNCHANGED run

ResultBody ==
    /\ Body("body", "json", answer, "done")
    /\ UNCHANGED run

-----------------------------------------------------------------------------
(* Failures *)

Fallible == {"lookup", "run", "store", "result"}

(* Mutation: only application errors become an event of the stream. *)
FailsThroughTheStream ==
    \E from \in Fallible, to \in {"failed", "envelope", "server"} :
        /\ to = "failed" => streaming
        /\ to = "envelope" => ~streaming
        /\ Quiet(from, to)
        /\ UNCHANGED run

(* The lookup, the run, the store or the rendering of the result raises.   *)
(* In a stream every exception is caught by _stream.  Otherwise an         *)
(* AppError meets app_error_handler, below the middleware, and any other   *)
(* exception passes the middleware on its way to the server's error page.  *)
Fail ==
    \E from \in Fallible, to \in {"failed", "envelope", "server"} :
        /\ streaming <=> to = "failed"
        /\ Quiet(from, to)
        /\ UNCHANGED run

(* The error event, the only way left to tell a streaming client; after an *)
(* error status, the envelope.                                             *)
ErrorEvent ==
    /\ Body("failed", "error", 0, "done")
    /\ UNCHANGED run

(* app_error_handler and the other handlers below the middleware. *)
Envelope ==
    /\ Start("envelope", AppErrorStatus, "failed")
    /\ UNCHANGED run

(* A client that goes away cancels its stream. *)
Disconnect ==
    /\ streaming
    /\ pc \in Handling
    /\ started
    /\ cancel = "none"
    /\ gone' = TRUE
    /\ pc' = "done"
    /\ UNCHANGED <<streaming, run, started, deadline, cancel, sent>>

-----------------------------------------------------------------------------
(* Outside the cancelled scope *)

Outer(from, kind, value, to) ==
    /\ pc = from
    /\ pc' = to
    /\ sent' = Append(sent, Message(kind, value))
    /\ UNCHANGED <<streaming, run, started, deadline, cancel, gone>>

(* _send_timeout. *)
SendTimeout == Outer("timeout", "start", GatewayTimeout, "timeout_body")
SendTimeoutBody == Outer("timeout_body", "error", 0, "done")

(* unhandled_error_handler, called by the outermost layer, which answers   *)
(* only if no response has started: for an exception, or for a request     *)
(* that came back without a response.                                      *)
ServerError ==
    IF sent = <<>>
    THEN Outer("server", "start", InternalError, "server_body")
    ELSE /\ pc = "server"
         /\ pc' = "done"
         /\ UNCHANGED <<streaming, run, started, deadline, cancel, gone, sent>>
ServerErrorBody == Outer("server_body", "error", 0, "done")

Agent == \/ CheckStandalone \/ Lookup \/ Remember \/ OtherStage \/ GeneratorStage
         \/ RunEnds \/ Store \/ Fail

Transport == \/ Chat \/ Reject \/ OpenStream \/ HitStage \/ HitAnswer
             \/ ShowDraft \/ Result \/ ResultBody \/ ErrorEvent \/ Envelope
             \/ SendTimeout \/ SendTimeoutBody \/ ServerError \/ ServerErrorBody

Next == Agent \/ Transport \/ Expire \/ Abandon \/ Disconnect

(* What comes in is handled and what is to be sent is sent, and the event  *)
(* loop runs its timers.  Nothing is assumed of the agent: a model call, a *)
(* lookup or a tool may hang for ever.                                     *)
Fairness == WF_vars(Transport) /\ WF_vars(Expire) /\ WF_vars(Abandon)

Spec == Init /\ [][Next]_vars /\ Fairness

-----------------------------------------------------------------------------
(* Properties *)

TypeOK ==
    /\ streaming \in BOOLEAN
    /\ pc \in Handling \cup Outside
    /\ standalone \in BOOLEAN
    /\ draft \in 0 .. MaxDrafts
    /\ stages \in 0 .. MaxStages
    /\ answer \in Answers
    /\ started \in BOOLEAN
    /\ deadline \in {"set", "lifted"}
    /\ cancel \in {"none", "called", "due"}
    /\ gone \in BOOLEAN
    /\ sent \in Seq([kind : Kinds, value : Nat])

(* The client is sent one response, whichever of handler, middleware and   *)
(* server writes it: its first message, and only that, is a start          *)
(* (timeout.py: 504 only if nothing has started).                          *)
OneResponse ==
    \A i \in 1 .. Len(sent) : sent[i].kind = "start" <=> i = 1

(* Nothing follows the terminal event, and a response whose client has     *)
(* waited for it ends with one: result, error or the whole body.           *)
ResponsesAreComplete ==
    /\ \A i \in 1 .. Len(sent) : sent[i].kind \in Terminal => i = Len(sent) /\ pc = "done"
    /\ pc = "done" /\ ~gone => sent # <<>> /\ sent[Len(sent)].kind \in Terminal

(* The deadline covers the time to the first byte only: a request that is  *)
(* cut off has sent nothing of its own, however close the race between     *)
(* the deadline and the first message (timeout.py:15).                     *)
DeadlineEndsAtTheFirstByte ==
    cancel # "none" /\ sent # <<>> => sent[1].value \in {GatewayTimeout, InternalError}

(* The result a stream ends with is the last draft it has shown, never an  *)
(* earlier, rejected one, unless the last draft was blank (rag.py          *)
(* stream_events shows drafts as they are written, before their verdict).  *)
ResultIsTheLastDraft ==
    \A i \in 1 .. Len(sent) :
        streaming /\ sent[i].kind = "result" /\ sent[i].value # Blank =>
            \E j \in 1 .. i - 1 :
                /\ sent[j] = Message("answer", sent[i].value)
                /\ \A k \in j + 1 .. i - 1 : sent[k].kind # "answer"

(* A handler that hangs is given up: every client hears something, and one *)
(* that does not stream gets its whole response, whatever the agent does.  *)
EveryClientIsAnswered ==
    <>(sent # <<>> /\ (streaming \/ pc = "done"))

(* "tell the client so" (timeout.py:3): a request that was cut off is told *)
(* it took too long.                                                       *)
CutOffMeansTimeout ==
    pc = "done" /\ cancel # "none" => sent[1].value = GatewayTimeout
============================================================================
