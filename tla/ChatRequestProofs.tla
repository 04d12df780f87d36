------------------------- MODULE ChatRequestProofs -------------------------
(***************************************************************************)
(* Proofs that every /chat request is sent one response, that the response *)
(* is complete and ends in the last draft shown, and that the deadline     *)
(* never cuts a response off, for runs of any length.                      *)
(***************************************************************************)
EXTENDS ChatRequest, TLAPS

(* Where nothing has been sent: before the response is started, and in the *)
(* hands of the middleware or the server.                                  *)
Unsent ==
    \/ pc \in {"resolve", "open", "envelope", "timeout", "server"}
    \/ ~streaming /\ pc \in {"standalone", "lookup", "remember", "run", "store", "result"}

(* Where a start has gone out. *)
UnderWay ==
    \/ pc \in {"hit_stage", "hit_answer", "draft", "body", "failed"}
    \/ streaming /\ pc \in {"standalone", "lookup", "remember", "run", "store", "result"}

(* What is on the wire follows from where the request is; a start that is  *)
(* missing where the handler has made one was cut off.                     *)
WireFollowsControl ==
    /\ Unsent => sent = <<>>
    /\ UnderWay => sent # <<>> \/ cancel = "due"
    /\ pc \in {"timeout_body", "server_body"} => sent # <<>>
    /\ pc \in {"open", "hit_stage", "hit_answer", "draft"} => streaming

(* The flag, the deadline and the wire agree; a request being cut off has  *)
(* sent nothing.                                                           *)
DeadlineFollowsStart ==
    /\ pc \in Handling /\ sent # <<>> => deadline = "lifted"
    /\ pc \in Handling /\ cancel # "none" => sent = <<>>
    /\ pc \in {"resolve", "open"} => ~started

ChatInv ==
    /\ TypeOK
    /\ OneResponse
    /\ ResponsesAreComplete
    /\ DeadlineEndsAtTheFirstByte
    /\ WireFollowsControl
    /\ DeadlineFollowsStart

Messages == [kind : Kinds, value : Nat]

(* Appending one message: what the provers need to know of the wire. *)
LEMMA AppendStep ==
    ASSUME NEW s \in Seq(Messages), NEW m \in Messages
    PROVE  /\ Append(s, m) \in Seq(Messages)
           /\ Append(s, m) # <<>>
           /\ Len(Append(s, m)) = Len(s) + 1
           /\ Append(s, m)[Len(s) + 1] = m
           /\ \A i \in 1 .. Len(s) : Append(s, m)[i] = s[i]
           /\ s = <<>> <=> Len(s) = 0
           /\ Len(s) \in Nat
  OBVIOUS

(* The steps of the handler that send nothing. *)
QuietActions == \/ Chat \/ Reject \/ CheckStandalone \/ Lookup \/ Remember
                \/ RunEnds \/ Store \/ Fail
                \/ ~streaming /\ (OtherStage \/ GeneratorStage)

(* They keep the wire, and so what is said of it, where they go.           *)
LEMMA QuietStep == ChatInv /\ QuietActions => ChatInv'
  <1> SUFFICES ASSUME ChatInv, QuietActions PROVE ChatInv'
    OBVIOUS
  <1> USE DEF QuietActions, Quiet, Await, run, Fallible, Handling, Outside,
              Chat, Reject, CheckStandalone, Lookup, Remember, RunEnds, Store, Fail,
              OtherStage, GeneratorStage
  <1>1. TypeOK'
    BY ChatAssumption DEF ChatInv, TypeOK, Answers, Cached, Blank
  <1>2. OneResponse'
    BY DEF ChatInv, OneResponse
  <1>3. WireFollowsControl'
    BY DEF ChatInv, TypeOK, WireFollowsControl, DeadlineFollowsStart, Unsent, UnderWay
  <1>4. DeadlineFollowsStart'
    BY DEF ChatInv, TypeOK, WireFollowsControl, DeadlineFollowsStart, Unsent, UnderWay
  <1>5. DeadlineEndsAtTheFirstByte'
    BY DEF ChatInv, TypeOK, DeadlineEndsAtTheFirstByte, DeadlineFollowsStart
  <1>6. ResponsesAreComplete'
    BY DEF ChatInv, TypeOK, ResponsesAreComplete
  <1> QED
    BY <1>1, <1>2, <1>3, <1>4, <1>5, <1>6 DEF ChatInv

(* The steps of the handler that send a part of the body. *)
BodyActions == \/ HitStage \/ HitAnswer \/ ShowDraft \/ ResultBody \/ ErrorEvent
               \/ streaming /\ (OtherStage \/ GeneratorStage \/ Result)

(* Each is taken where a start has gone out, so that by WireFollowsControl *)
(* the wire is not empty and no deadline is left to interfere.             *)
LEMMA BodyStep == ChatInv /\ BodyActions => ChatInv'
  <1> SUFFICES ASSUME ChatInv, BodyActions PROVE ChatInv'
    OBVIOUS
  <1> USE DEF BodyActions, Body, Await, run, Handling, Outside, Kinds, Terminal, Message, Messages,
              HitStage, HitAnswer, ShowDraft, ResultBody, ErrorEvent,
              OtherStage, GeneratorStage, Result
  <1>1. /\ UnderWay
        /\ cancel = "none" /\ cancel' = "none"
        /\ sent # <<>>
    BY DEF ChatInv, TypeOK, WireFollowsControl, DeadlineFollowsStart, UnderWay
  <1>2. PICK m \in Messages :
            /\ sent' = Append(sent, m)
            /\ m.kind # "start"
            /\ IF m.kind \in Terminal THEN pc' = "done" ELSE pc' \in Handling /\ UnderWay'
    BY ChatAssumption DEF ChatInv, TypeOK, Answers, Cached, UnderWay, WireFollowsControl
  <1>3. sent \in Seq(Messages) /\ sent[Len(sent)].kind \notin Terminal
    BY <1>1 DEF ChatInv, TypeOK, ResponsesAreComplete
  <1>4. TypeOK'
    BY <1>2, <1>3, AppendStep, ChatAssumption DEF ChatInv, TypeOK, Answers, Cached, Blank
  <1>5. OneResponse'
    BY <1>1, <1>2, <1>3, AppendStep DEF ChatInv, OneResponse
  <1>6. WireFollowsControl'
    BY <1>1, <1>2, <1>3, AppendStep DEF ChatInv, TypeOK, WireFollowsControl, Unsent, UnderWay
  <1>7. DeadlineFollowsStart' /\ DeadlineEndsAtTheFirstByte'
    BY <1>1, <1>2 DEF ChatInv, TypeOK, DeadlineFollowsStart, DeadlineEndsAtTheFirstByte
  <1>8. ResponsesAreComplete'
    BY <1>1, <1>2, <1>3, AppendStep DEF ChatInv, ResponsesAreComplete
  <1> QED
    BY <1>4, <1>5, <1>6, <1>7, <1>8 DEF ChatInv

(* The steps of the handler that start the response. *)
StartActions == \/ OpenStream \/ Envelope
                \/ ~streaming /\ Result

(* Nothing has been sent there.  If the deadline has passed, nothing is    *)
(* sent here either, and the cancellation is due at once.                  *)
LEMMA StartStep == ChatInv /\ StartActions => ChatInv'
  <1> SUFFICES ASSUME ChatInv, StartActions PROVE ChatInv'
    OBVIOUS
  <1> USE DEF StartActions, Start, Await, run, Handling, Outside, Kinds, Terminal, Message, Messages,
              OpenStream, Envelope, Result, OK, AppErrorStatus
  <1>1. /\ sent = <<>>
        /\ \/ cancel = "none" /\ cancel' = "none"
           \/ cancel = "called" /\ cancel' = "due" /\ sent' = sent
    BY DEF ChatInv, TypeOK, WireFollowsControl, Unsent
  <1>2. CASE cancel = "called"
    <2>1. sent' = <<>> /\ cancel' = "due"
      BY <1>1, <1>2
    <2>2. TypeOK'
      BY <2>1 DEF ChatInv, TypeOK
    <2>3. OneResponse' /\ ResponsesAreComplete' /\ DeadlineEndsAtTheFirstByte'
      BY <2>1 DEF OneResponse, ResponsesAreComplete, DeadlineEndsAtTheFirstByte
    <2>4. WireFollowsControl' /\ DeadlineFollowsStart'
      BY <2>1 DEF ChatInv, TypeOK, WireFollowsControl, DeadlineFollowsStart, Unsent, UnderWay
    <2> QED
      BY <2>2, <2>3, <2>4 DEF ChatInv
  <1>3. CASE cancel # "called"
    <2>1. PICK m \in Messages : m.kind = "start" /\ sent' = Append(sent, m)
      BY <1>3
    <2>2. cancel' = "none" /\ sent \in Seq(Messages)
      BY <1>1, <1>3 DEF ChatInv, TypeOK
    <2>3. TypeOK'
      <3>1. sent' \in Seq([kind : Kinds, value : Nat])
        BY <2>1, <2>2, AppendStep
      <3> QED
        BY <2>2, <3>1 DEF ChatInv, TypeOK
    <2>4. OneResponse' /\ ResponsesAreComplete' /\ DeadlineEndsAtTheFirstByte'
      BY <1>1, <2>1, <2>2, AppendStep DEF OneResponse, ResponsesAreComplete, DeadlineEndsAtTheFirstByte
    <2>5. WireFollowsControl' /\ DeadlineFollowsStart'
      <3>1. sent' # <<>>
        BY <2>1, <2>2, AppendStep
      <3> QED
        BY <2>2, <3>1 DEF ChatInv, TypeOK, WireFollowsControl, DeadlineFollowsStart, Unsent, UnderWay
    <2> QED
      BY <2>3, <2>4, <2>5 DEF ChatInv
  <1> QED
    BY <1>2, <1>3

(* The steps outside the handler. *)
OuterActions == SendTimeout \/ SendTimeoutBody \/ ServerError \/ ServerErrorBody

(* The middleware and the server start a response only on an empty wire.   *)
LEMMA OuterStep == ChatInv /\ OuterActions => ChatInv'
  <1> SUFFICES ASSUME ChatInv, OuterActions PROVE ChatInv'
    OBVIOUS
  <1> USE DEF OuterActions, Outer, run, Handling, Outside, Kinds, Terminal, Message, Messages,
              SendTimeout, SendTimeoutBody, ServerError, ServerErrorBody, GatewayTimeout, InternalError
  <1>1. sent \in Seq(Messages)
    BY DEF ChatInv, TypeOK
  <1>2. PICK m \in Messages :
            /\ sent' = Append(sent, m)
            /\ \/ /\ m.kind = "start" /\ sent = <<>> /\ m.value \in {GatewayTimeout, InternalError}
                  /\ pc' \in {"timeout_body", "server_body"}
               \/ m.kind = "error" /\ sent # <<>> /\ pc' = "done"
    BY DEF ChatInv, WireFollowsControl, Unsent
  <1>3. TypeOK'
    BY <1>1, <1>2, AppendStep DEF ChatInv, TypeOK
  <1>4. OneResponse'
    BY <1>1, <1>2, AppendStep DEF ChatInv, OneResponse
  <1>5. ResponsesAreComplete'
    BY <1>1, <1>2, AppendStep DEF ChatInv, ResponsesAreComplete
  <1>6. DeadlineEndsAtTheFirstByte'
    BY <1>1, <1>2, AppendStep DEF ChatInv, DeadlineEndsAtTheFirstByte
  <1>7. WireFollowsControl' /\ DeadlineFollowsStart'
    BY <1>1, <1>2, AppendStep DEF ChatInv, WireFollowsControl, DeadlineFollowsStart, Unsent, UnderWay
  <1> QED
    BY <1>3, <1>4, <1>5, <1>6, <1>7 DEF ChatInv

(* The deadline passing, the handler unwinding and the client leaving. *)
LEMMA ScopeStep == ChatInv /\ (Expire \/ Abandon \/ Disconnect) => ChatInv'
  <1> SUFFICES ASSUME ChatInv, Expire \/ Abandon \/ Disconnect PROVE ChatInv'
    OBVIOUS
  <1> USE DEF Expire, Abandon, Disconnect, run, Handling, Outside
  <1>1. TypeOK'
    BY DEF ChatInv, TypeOK
  <1>2. OneResponse'
    BY DEF ChatInv, OneResponse
  <1>3. ResponsesAreComplete'
    BY DEF ChatInv, ResponsesAreComplete, Terminal
  <1>4. DeadlineEndsAtTheFirstByte'
    BY DEF ChatInv, DeadlineEndsAtTheFirstByte, DeadlineFollowsStart
  <1>5. WireFollowsControl'
    BY DEF ChatInv, WireFollowsControl, DeadlineFollowsStart, Unsent, UnderWay
  <1>6. DeadlineFollowsStart'
    BY DEF ChatInv, DeadlineFollowsStart
  <1> QED
    BY <1>1, <1>2, <1>3, <1>4, <1>5, <1>6 DEF ChatInv

(* The invariant holds of every request, however its run, its client and   *)
(* the deadline interleave.                                                *)
THEOREM ChatInvariant == Spec => []ChatInv
  <1>1. Init => ChatInv
    <2> SUFFICES ASSUME Init PROVE ChatInv
      OBVIOUS
    <2> USE DEF Init
    <2>1. TypeOK
      <3>1. sent \in Seq([kind : Kinds, value : Nat])
        OBVIOUS
      <3>2. answer \in Answers /\ draft \in 0 .. MaxDrafts /\ stages \in 0 .. MaxStages
        BY ChatAssumption DEF Answers, Cached, Blank
      <3> QED
        BY <3>1, <3>2 DEF TypeOK, Handling, Outside
    <2>2. OneResponse /\ ResponsesAreComplete /\ DeadlineEndsAtTheFirstByte
      BY DEF OneResponse, ResponsesAreComplete, DeadlineEndsAtTheFirstByte
    <2>3. WireFollowsControl /\ DeadlineFollowsStart
      BY DEF WireFollowsControl, DeadlineFollowsStart, Unsent, UnderWay
    <2> QED
      BY <2>1, <2>2, <2>3 DEF ChatInv
  <1>2. ChatInv /\ [Next]_vars => ChatInv'
    <2> SUFFICES ASSUME ChatInv, [Next]_vars PROVE ChatInv'
      OBVIOUS
    <2>1. CASE QuietActions \/ BodyActions \/ StartActions \/ OuterActions
      BY <2>1, QuietStep, BodyStep, StartStep, OuterStep
    <2>2. CASE Expire \/ Abandon \/ Disconnect
      BY <2>2, ScopeStep
    <2>3. CASE UNCHANGED vars
      BY <2>3 DEF vars, ChatInv, TypeOK, OneResponse, ResponsesAreComplete, DeadlineEndsAtTheFirstByte,
         WireFollowsControl, DeadlineFollowsStart, Unsent, UnderWay
    <2>4. Agent \/ Transport => QuietActions \/ BodyActions \/ StartActions \/ OuterActions
      BY DEF Agent, Transport, QuietActions, BodyActions, StartActions, OuterActions
    <2> QED
      BY <2>1, <2>2, <2>3, <2>4 DEF Next
  <1> QED
    BY <1>1, <1>2, PTL DEF Spec

(* Whoever answers, the client is sent one response. *)
THEOREM ClientsGetOneResponse == Spec => []OneResponse
  BY ChatInvariant, PTL DEF ChatInv

(* The response ends with its one terminal message unless the client left. *)
THEOREM ResponsesEnd == Spec => []ResponsesAreComplete
  BY ChatInvariant, PTL DEF ChatInv

(* No response is cut off by the deadline once it has begun. *)
THEOREM DeadlineSparesResponses == Spec => []DeadlineEndsAtTheFirstByte
  BY ChatInvariant, PTL DEF ChatInv

(* Every variable keeps its type. *)
THEOREM ChatTypes == Spec => []TypeOK
  BY ChatInvariant, PTL DEF ChatInv

-----------------------------------------------------------------------------
(* Drafts and results *)

(* The last answer among the messages s is v. *)
LastShown(s, v) ==
    \E j \in 1 .. Len(s) :
        s[j] = Message("answer", v) /\ \A k \in j + 1 .. Len(s) : s[k].kind # "answer"

(* ResultIsTheLastDraft, of the messages s of a stream. *)
ResultsFit(s) ==
    \A i \in 1 .. Len(s) :
        s[i].kind = "result" /\ s[i].value # Blank =>
            \E j \in 1 .. i - 1 :
                s[j] = Message("answer", s[i].value) /\ \A k \in j + 1 .. i - 1 : s[k].kind # "answer"

(* While a stream runs, its state's answer is the last one shown.          *)
AnswerIsShown ==
    /\ streaming /\ pc \in {"run", "store", "result"} /\ answer # Blank => LastShown(sent, answer)
    /\ pc \in {"resolve", "open", "standalone", "lookup"} => answer = Blank
    /\ streaming => ResultsFit(sent)

LEMMA ShowingShows ==
    ASSUME NEW s \in Seq(Messages), NEW m \in Messages, NEW v, m = Message("answer", v)
    PROVE  LastShown(Append(s, m), v)
  BY AppendStep DEF LastShown

LEMMA AppendKeepsShown ==
    ASSUME NEW s \in Seq(Messages), NEW m \in Messages, NEW v, LastShown(s, v), m.kind # "answer"
    PROVE  LastShown(Append(s, m), v)
  <1>1. PICK j \in 1 .. Len(s) :
            s[j] = Message("answer", v) /\ \A k \in j + 1 .. Len(s) : s[k].kind # "answer"
    BY DEF LastShown
  <1>2. PICK t : t = Append(s, m)
    OBVIOUS
  <1>3. /\ Len(t) = Len(s) + 1 /\ t[Len(s) + 1] = m /\ Len(s) \in Nat
        /\ \A i \in 1 .. Len(s) : t[i] = s[i]
    BY <1>2, AppendStep
  <1>4. j \in 1 .. Len(t) /\ t[j] = Message("answer", v)
    BY <1>1, <1>3
  <1>5. \A k \in j + 1 .. Len(t) : t[k].kind # "answer"
    BY <1>1, <1>3
  <1> QED
    BY <1>2, <1>4, <1>5 DEF LastShown

LEMMA AppendKeepsResults ==
    ASSUME NEW s \in Seq(Messages), NEW m \in Messages, ResultsFit(s),
           m.kind = "result" /\ m.value # Blank => LastShown(s, m.value)
    PROVE  ResultsFit(Append(s, m))
  <1>1. PICK t : t = Append(s, m)
    OBVIOUS
  <1>2. /\ Len(t) = Len(s) + 1 /\ t[Len(s) + 1] = m /\ Len(s) \in Nat
        /\ \A i \in 1 .. Len(s) : t[i] = s[i]
    BY <1>1, AppendStep
  <1>3. ASSUME NEW i \in 1 .. Len(t), t[i].kind = "result", t[i].value # Blank
        PROVE  \E j \in 1 .. i - 1 :
                  /\ t[j] = Message("answer", t[i].value)
                  /\ \A k \in j + 1 .. i - 1 : t[k].kind # "answer"
    <2>1. CASE i \in 1 .. Len(s)
      <3>1. t[i] = s[i]
        BY <1>2, <2>1
      <3>2. PICK j \in 1 .. i - 1 :
              /\ s[j] = Message("answer", s[i].value)
              /\ \A k \in j + 1 .. i - 1 : s[k].kind # "answer"
        BY <1>3, <2>1, <3>1 DEF ResultsFit
      <3>3. \A k \in 1 .. i - 1 : t[k] = s[k]
        BY <1>2, <2>1
      <3>4. \A k \in j + 1 .. i - 1 : t[k].kind # "answer"
        BY <2>1, <3>2, <3>3
      <3> QED
        BY <3>1, <3>2, <3>3, <3>4
    <2>2. CASE i = Len(s) + 1
      <3>1. t[i] = m
        BY <1>2, <2>2
      <3>2. PICK j \in 1 .. Len(s) :
              /\ s[j] = Message("answer", m.value)
              /\ \A k \in j + 1 .. Len(s) : s[k].kind # "answer"
        BY <1>3, <3>1 DEF LastShown
      <3>3. i - 1 = Len(s)
        BY <1>2, <2>2
      <3>4. t[j] = Message("answer", t[i].value)
        BY <1>2, <3>1, <3>2
      <3>5. \A k \in j + 1 .. Len(s) : t[k].kind # "answer"
        BY <1>2, <3>2
      <3> QED
        BY <3>2, <3>3, <3>4, <3>5
    <2> QED
      BY <1>2, <2>1, <2>2
  <1>4. ResultsFit(t)
    BY <1>3 DEF ResultsFit
  <1> QED
    BY <1>1, <1>4

(* A message that is neither an answer nor a result. *)
Plain(m) == m \in Messages /\ m.kind \notin {"answer", "result"}

(* A step of a stream that sends such a message. *)
LEMMA OtherMessage ==
    ASSUME ChatInv, AnswerIsShown, streaming, NEW m \in Messages, sent' = Append(sent, m),
           m.kind \notin {"answer", "result"}
    PROVE  /\ ResultsFit(sent')
           /\ \A v : LastShown(sent, v) => LastShown(sent', v)
  <1>1. sent \in Seq(Messages)
    BY DEF ChatInv, TypeOK, Messages
  <1> QED
    BY <1>1, AppendKeepsShown, AppendKeepsResults DEF AnswerIsShown

(* What the steps that send make of the stream.                            *)
LEMMA DraftSends ==
    ASSUME ChatInv, AnswerIsShown, streaming, sent' # sent, Agent \/ Transport
    PROVE  /\ ResultsFit(sent')
           /\ pc' \in {"run", "store", "result"} /\ answer' # Blank => LastShown(sent', answer')
  <1>1. sent \in Seq(Messages) /\ answer \in Nat
    BY ChatAssumption DEF ChatInv, TypeOK, Messages, Answers, Cached
  <1>2. CASE ShowDraft \/ HitAnswer
    <2>1. PICK m \in Messages : m = Message("answer", answer)
      BY <1>1 DEF Message, Messages, Kinds
    <2>2. sent' = Append(sent, m) /\ answer' = answer
      BY <1>2, <2>1 DEF ShowDraft, HitAnswer, Body, run
    <2>3. m.kind = "answer"
      BY <2>1 DEF Message
    <2> QED
      BY <1>1, <2>1, <2>2, <2>3, ShowingShows, AppendKeepsResults DEF AnswerIsShown
  <1>3. CASE Result
    <2>1. PICK m \in Messages : m = Message("result", answer)
      BY <1>1 DEF Message, Messages, Kinds
    <2>2. sent' = Append(sent, m) /\ pc = "result" /\ pc' = "done"
      BY <1>3, <2>1 DEF Result, Body, Await
    <2>3. m.value = answer /\ (answer # Blank => LastShown(sent, answer))
      BY <2>1, <2>2 DEF Message, AnswerIsShown
    <2>4. ResultsFit(Append(sent, m))
      BY <1>1, <2>3, AppendKeepsResults DEF AnswerIsShown
    <2> QED
      BY <2>2, <2>4
  <1>4. CASE OtherStage
    <2>1. PICK m \in Messages : m = Message("stage", 0)
      BY DEF Message, Messages, Kinds
    <2>2. sent' = Append(sent, m) /\ answer' = answer /\ pc = "run" /\ m.kind = "stage"
      BY <1>4, <2>1 DEF OtherStage, Body, Await, Message
    <2> QED
      BY <2>2, OtherMessage DEF AnswerIsShown
  <1>5. CASE GeneratorStage
    <2>1. PICK m \in Messages : m = Message("stage", 0)
      BY DEF Message, Messages, Kinds
    <2>2. sent' = Append(sent, m) /\ m.kind = "stage" /\ (pc' = "draft" \/ answer' = Blank)
      BY <1>5, <2>1 DEF GeneratorStage, Body, Await, Message
    <2> QED
      BY <2>2, OtherMessage
  <1>6. CASE OpenStream \/ Envelope \/ HitStage \/ ResultBody \/ ErrorEvent
             \/ SendTimeout \/ SendTimeoutBody \/ ServerError \/ ServerErrorBody
    <2>1. /\ Plain(Message("start", OK)) /\ Plain(Message("start", AppErrorStatus))
          /\ Plain(Message("start", GatewayTimeout)) /\ Plain(Message("start", InternalError))
          /\ Plain(Message("stage", 0)) /\ Plain(Message("json", answer))
          /\ Plain(Message("error", 0))
      BY <1>1 DEF Plain, Message, Messages, Kinds, OK, AppErrorStatus, GatewayTimeout, InternalError
    <2>2. PICK m : Plain(m) /\ sent' = Append(sent, m)
      <3>1. CASE OpenStream \/ Envelope
        BY <2>1, <3>1, <1>6 DEF OpenStream, Envelope, Start
      <3>2. CASE HitStage \/ ResultBody \/ ErrorEvent
        BY <2>1, <3>2 DEF HitStage, ResultBody, ErrorEvent, Body
      <3>3. CASE SendTimeout \/ SendTimeoutBody \/ ServerError \/ ServerErrorBody
        BY <2>1, <3>3 DEF SendTimeout, SendTimeoutBody, ServerError, ServerErrorBody, Outer
      <3> QED
        BY <1>6, <3>1, <3>2, <3>3
    <2>3. m \in Messages /\ m.kind \notin {"answer", "result"}
      BY <2>2 DEF Plain
    <2>4. pc' \notin {"run", "store", "result"}
      BY <1>6 DEF OpenStream, Envelope, HitStage, ResultBody, ErrorEvent, SendTimeout,
         SendTimeoutBody, ServerError, ServerErrorBody, Start, Body, Outer, Await
    <2> QED
      BY <2>2, <2>3, <2>4, OtherMessage
  <1>7. CASE Chat \/ Reject \/ CheckStandalone \/ Lookup \/ Remember \/ RunEnds \/ Store \/ Fail
    BY <1>7 DEF Chat, Reject, CheckStandalone, Lookup, Remember, RunEnds, Store, Fail, Quiet
  <1> QED
    BY <1>2, <1>3, <1>4, <1>5, <1>6, <1>7 DEF Agent, Transport

(* A step that sends nothing leaves the run with the answer it had shown.  *)
LEMMA DraftSilent ==
    ASSUME ChatInv, AnswerIsShown, streaming, sent' = sent, [Next]_vars
    PROVE  pc' \in {"run", "store", "result"} /\ answer' # Blank => LastShown(sent', answer')
  <1>1. CASE OtherStage \/ GeneratorStage \/ ShowDraft \/ HitAnswer \/ HitStage \/ Result
             \/ ResultBody \/ ErrorEvent
    <2>1. PICK m : sent' = Append(sent, m)
      BY <1>1 DEF OtherStage, GeneratorStage, ShowDraft, HitAnswer, HitStage, Result, ResultBody,
         ErrorEvent, Body
    <2>2. sent \in Seq(Messages)
      BY DEF ChatInv, TypeOK, Messages
    <2> QED
      BY <2>1, <2>2
  <1>2. CASE Chat \/ Reject \/ CheckStandalone \/ Lookup \/ Remember \/ RunEnds \/ Store \/ Fail
             \/ OpenStream \/ Envelope
    BY <1>2 DEF Chat, Reject, CheckStandalone, Lookup, Remember, RunEnds, Store, Fail, OpenStream,
       Envelope, Start, Quiet, Await, run, AnswerIsShown, Fallible
  <1>3. CASE SendTimeout \/ SendTimeoutBody \/ ServerError \/ ServerErrorBody \/ Expire
             \/ Abandon \/ Disconnect \/ UNCHANGED vars
    BY <1>3 DEF SendTimeout, SendTimeoutBody, ServerError, ServerErrorBody, Outer, Expire,
       Abandon, Disconnect, vars, run, AnswerIsShown
  <1> QED
    BY <1>1, <1>2, <1>3 DEF Next, Agent, Transport

LEMMA DraftStep == ChatInv /\ AnswerIsShown /\ [Next]_vars => AnswerIsShown'
  <1> SUFFICES ASSUME ChatInv, AnswerIsShown, [Next]_vars PROVE AnswerIsShown'
    OBVIOUS
  <1>1. streaming' = streaming
    BY DEF Next, Agent, Transport, Expire, Abandon, Disconnect, vars, Chat, Reject,
       CheckStandalone, Lookup, Remember, RunEnds, Store, Fail, OpenStream, Envelope, HitStage,
       HitAnswer, ShowDraft, Result, ResultBody, ErrorEvent, OtherStage, GeneratorStage,
       SendTimeout, SendTimeoutBody, ServerError, ServerErrorBody, Outer, Start, Body, Quiet, Await
  <1>2. pc' \in {"resolve", "open", "standalone", "lookup"} => answer' = Blank
    <2>1. CASE Agent
      BY <2>1 DEF Agent, CheckStandalone, Lookup, Remember, RunEnds, Store, Fail, OtherStage,
         GeneratorStage, Quiet, Body, Await, AnswerIsShown
    <2>2. CASE Transport
      BY <2>2 DEF Transport, Chat, Reject, OpenStream, HitStage, HitAnswer, ShowDraft, Result,
         ResultBody, ErrorEvent, Envelope, SendTimeout, SendTimeoutBody, ServerError,
         ServerErrorBody, Outer, Start, Body, Quiet, Await, run, AnswerIsShown
    <2>3. CASE Expire \/ Abandon \/ Disconnect \/ UNCHANGED vars
      BY <2>3 DEF Expire, Abandon, Disconnect, vars, run, AnswerIsShown
    <2> QED
      BY <2>1, <2>2, <2>3 DEF Next
  <1>3. CASE ~streaming
    BY <1>1, <1>2, <1>3 DEF AnswerIsShown
  <1>4. CASE streaming /\ sent' = sent
    BY <1>1, <1>2, <1>4, DraftSilent DEF AnswerIsShown
  <1>5. CASE streaming /\ sent' # sent
    <2>1. Agent \/ Transport
      BY <1>5 DEF Next, Expire, Abandon, Disconnect, vars
    <2> QED
      BY <1>1, <1>2, <1>5, <2>1, DraftSends DEF AnswerIsShown
  <1> QED
    BY <1>3, <1>4, <1>5

(* The result a stream ends with is the last draft it has shown, unless    *)
(* that draft was blank: for runs of any number of drafts and stages,      *)
(* whichever write of the response the deadline or the client cuts short.  *)
THEOREM ResultsAreShown == Spec => []ResultIsTheLastDraft
  <1>1. Init => AnswerIsShown
    BY DEF Init, AnswerIsShown, ResultsFit
  <1>2. AnswerIsShown => ResultIsTheLastDraft
    BY DEF AnswerIsShown, ResultsFit, ResultIsTheLastDraft
  <1> QED
    BY <1>1, <1>2, DraftStep, ChatInvariant, PTL DEF Spec
============================================================================
