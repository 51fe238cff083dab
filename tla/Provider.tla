------------------------------ MODULE Provider ------------------------------
(***************************************************************************)
(* One request to a model: the clients of internal/llm/provider (anthropic,*)
(* openai, copilot, gemini; azure, bedrock and vertexai are made of these),*)
(* which ask again when the server is busy, and who reads their answer.    *)
(*                                                                         *)
(* stream: a goroutine reads the server's stream and offers events on an   *)
(* unbuffered channel to the agent (internal/llm/agent/agent.go:           *)
(* streamAndHandleEvents, processEvent).  send: the caller waits itself    *)
(* (generateTitle, Summarize).  AgentTurn is about what the agent makes of *)
(* a stream that ends in one way or another; this module is about which    *)
(* ends there are.                                                         *)
(*                                                                         *)
(* Text is counted in deltas, a tool call is a number.  The SDKs and the   *)
(* server are external: an HTTP status comes before anything of the answer,*)
(* a broken connection at any time, and a call whose context is cancelled  *)
(* fails.                                                                  *)
(***************************************************************************)
EXTENDS Naturals, Sequences, SequencesExt

CONSTANTS
  Clients,     \* those of AllClients to look at
  MaxRetries,  \* 8 in the code
  MaxTexts,    \* bound: deltas of text in an answer
  MaxCalls     \* bound: tool calls in an answer, and of those kept twice

AllClients == {"anthropic", "openai", "copilot", "copilot claude", "gemini"}

ASSUME ProviderAssumption ==
  /\ Clients \subseteq AllClients
  /\ MaxRetries \in Nat \ {0} /\ MaxTexts \in Nat /\ MaxCalls \in Nat

VARIABLES
  client,     \* which client it is; "copilot claude": with a model of Anthropic
  mode,       \* "stream" or "send"
  token,      \* the token the SDK's client of Copilot was made with
  cancelled,  \* ctx
  pc,         \* the loop of stream or send
  attempts,   \* counted up to MaxRetries + 1: nothing tells more apart
  said,       \* the server: what it has said in this attempt
  ended,      \* the server: how its last answer ended
  got,        \* what the client has made of it
  event,      \* the event offered on the channel, and where the loop goes on
  agent,      \* the one who waits: streamAndHandleEvents, or the caller of send
  msg         \* its message: text, tool calls, whether EventComplete was handled

request == <<client, mode>>
server  == <<said, ended>>
vars    == <<request, token, cancelled, pc, attempts, server, got, event, agent, msg>>

Copilot == {"copilot", "copilot claude"}
OpenAI  == {"openai"} \cup Copilot

Outcomes == {"completed", "silent", "error", "failed", "canceled", "panicked"}
NoEvent  == [type |-> "none", then |-> "reading"]
Nothing  == [texts |-> 0, calls |-> <<>>, open |-> "", stopped |-> FALSE, any |-> FALSE]
Fresh    == [calls |-> <<>>, current |-> 0, finished |-> FALSE, mixed |-> FALSE]

TypeOK ==
  /\ client \in Clients /\ mode \in {"stream", "send"}
  /\ token \in {"good", "expired"} /\ cancelled \in BOOLEAN
  /\ pc \in {"call", "reading", "offer", "final", "waiting", "returned", "crashed"}
  /\ attempts \in 0 .. MaxRetries + 1
  /\ said.texts \in 0 .. MaxTexts /\ said.calls \in Seq(1 .. MaxCalls)
  /\ said.open \in {"", "text", "text filled", "tool", "tool filled"}
  /\ {said.stopped, said.any} \subseteq BOOLEAN
  /\ ended \in {"", "eof", "empty", "refused", "limit", "unauthorized", "canceled"}
  /\ got.calls \in Seq(0 .. MaxCalls) /\ got.current \in 0 .. MaxCalls
  /\ {got.finished, got.mixed} \subseteq BOOLEAN
  /\ event.type \in {"none", "other", "text", "call", "complete", "error"}
  /\ agent \in {"creating", "receiving", "handled"} \cup Outcomes
  /\ msg.text \in 0 .. MaxTexts /\ msg.calls \in Seq(0 .. MaxCalls) /\ msg.complete \in BOOLEAN

Init ==
  /\ client \in Clients /\ mode \in {"stream", "send"}
  /\ token = "good" /\ cancelled = FALSE
  /\ pc = "call" /\ attempts = 0
  /\ said = Nothing /\ ended = "" /\ got = Fresh /\ event = NoEvent
  /\ agent = IF mode = "stream" THEN "creating" ELSE "receiving"
  /\ msg = [text |-> 0, calls |-> <<>>, complete |-> FALSE]

Waiting == agent \notin Outcomes
Over    == ~Waiting \/ pc = "crashed"

\* The goroutine offers an event (eventChan <- ...), and goes on when it is taken.
Offer(e)              == event' = e /\ pc' = "offer"
Of(type, then)        == [type |-> type, then |-> then]
CallOf(call)          == [type |-> "call", call |-> call, then |-> "reading"]
Complete(calls, then) == [type |-> "complete", calls |-> calls, then |-> then]
Error(error)          == [type |-> "error", error |-> error, then |-> "returned"]

\* send returns to its caller.
Return(outcome) == pc' = "returned" /\ agent' = outcome

---------------------------------------------------------------------------
(* shouldRetry: "retry", or the error it returns *)

\* Mutant of AnthropicVerdicts: the attempts are not looked at.
AnthropicAlwaysRetries(status) == IF status = "limit" THEN {"retry"} ELSE {status}

\* 429 and 529.
AnthropicVerdicts(status) ==
  IF status # "limit" THEN {status}
  ELSE IF attempts > MaxRetries THEN {"max retries"} ELSE {"retry"}

\* 429 and 500.
OpenAIVerdicts(status) ==
  IF status # "limit" THEN {status}
  ELSE IF attempts > MaxRetries THEN {"max retries"} ELSE {"retry"}

\* Mutant of CopilotVerdicts: whatever is no status is asked again.
CopilotRetriesAll(status) ==
  IF status = "limit" /\ attempts > MaxRetries THEN {"max retries"} ELSE {"retry"}

\* 401: a new token, if there is a GitHub token to exchange, goes to the options,
\* which nothing reads: the SDK's client keeps the old one.  It is asked again,
\* however often that was.
CopilotVerdicts(status) ==
  IF status = "unauthorized" THEN {"retry", "refused"} ELSE OpenAIVerdicts(status)

\* The attempts come first, then the words of the error.
GeminiVerdicts(status) ==
  IF attempts > MaxRetries THEN {"max retries"}
  ELSE IF status = "limit" THEN {"retry"} ELSE {status}

Verdicts(status) ==
  CASE client = "anthropic" -> AnthropicVerdicts(status)
    [] client = "openai"    -> OpenAIVerdicts(status)
    [] client \in Copilot   -> CopilotVerdicts(status)
    [] client = "gemini"    -> GeminiVerdicts(status)

---------------------------------------------------------------------------
(* The server and the SDK *)

\* How an attempt may fail: by a status, a broken connection, the context.
Failures ==
  {"refused"} \cup
  IF cancelled THEN {"canceled"}
  ELSE IF said # Nothing THEN {s \in {"limit"} : client = "gemini"}
  ELSE IF token = "expired" THEN {"unauthorized"} ELSE {"limit"}

Fails(status) == status \in Failures /\ ended' = status

\* The stream ends well, having said something or nothing at all.
Ends == pc = "reading" /\ mode = "stream" /\ (said = Nothing => ~cancelled /\ token = "good")

\* There is more to come of the answer.
Speaks == Ends /\ ~said.stopped

SaysText == Speaks /\ said.texts < MaxTexts
SaysCall == Speaks /\ Len(said.calls) < MaxCalls

WithText    == [said EXCEPT !.texts = @ + 1, !.any = TRUE]
WithCall(c) == [said EXCEPT !.calls = Append(@, c), !.any = TRUE]
NextCall    == Len(said.calls) + 1

---------------------------------------------------------------------------
(* stream and send: the loop *)

\* The loop's head.  Gemini announces its content before it asks.
Call ==
  /\ pc = "call"
  /\ attempts' = IF attempts > MaxRetries THEN attempts ELSE attempts + 1
  /\ said' = Nothing /\ got' = Fresh
  /\ IF client = "gemini" /\ mode = "stream"
     THEN Offer(Of("other", "reading")) ELSE pc' = "reading" /\ UNCHANGED event
  /\ UNCHANGED <<request, token, cancelled, ended, agent, msg>>

\* The timer of the backoff.
Again ==
  /\ pc = "waiting" /\ ~(client = "gemini" /\ mode = "stream")
  /\ pc' = "call"
  /\ UNCHANGED <<request, token, cancelled, attempts, server, got, event, agent, msg>>

\* Mutant of AnthropicCancelled: ctx.Err() is compared the wrong way round.
AnthropicCancelledSilent ==
  /\ client = "anthropic" /\ mode = "stream" /\ pc = "waiting" /\ cancelled
  /\ pc' = "returned"
  /\ UNCHANGED <<request, token, cancelled, attempts, server, got, event, agent, msg>>

\* ctx.Done during the backoff of a stream.
AnthropicCancelled ==
  /\ client = "anthropic" /\ mode = "stream" /\ pc = "waiting" /\ cancelled
  /\ Offer(Error("canceled"))
  /\ UNCHANGED <<request, token, cancelled, attempts, server, got, agent, msg>>

\* The same in OpenAI and Copilot: the error is offered if there is none, so the
\* channel is closed without a word.
OpenAICancelled ==
  /\ client \in OpenAI /\ mode = "stream" /\ pc = "waiting" /\ cancelled
  /\ pc' = "returned"
  /\ UNCHANGED <<request, token, cancelled, attempts, server, got, event, agent, msg>>

GeminiCancelled ==
  /\ client = "gemini" /\ mode = "stream" /\ pc = "waiting" /\ cancelled
  /\ Offer(Error("canceled"))
  /\ UNCHANGED <<request, token, cancelled, attempts, server, got, agent, msg>>

\* The timer of Gemini's backoff: the break leaves the select only, and the
\* response that came with the error is nil.
GeminiGoesOn ==
  /\ client = "gemini" /\ mode = "stream" /\ pc = "waiting"
  /\ pc' = "crashed"
  /\ UNCHANGED <<request, token, cancelled, attempts, server, got, event, agent, msg>>

---------------------------------------------------------------------------
(* stream: how an attempt fails *)

Failed(status) == pc = "reading" /\ mode = "stream" /\ Fails(status)

\* It waits and asks again, or tells the agent and closes the channel.
RetryOrTell(v) ==
  IF v = "retry" THEN pc' = "waiting" /\ UNCHANGED event ELSE Offer(Error(v))

AnthropicFails ==
  /\ client = "anthropic"
  /\ \E status \in Failures :
       Failed(status) /\ \E v \in AnthropicVerdicts(status) : RetryOrTell(v)
  /\ UNCHANGED <<request, token, cancelled, attempts, said, got, agent, msg>>

OpenAIFails ==
  /\ client = "openai"
  /\ \E status \in Failures :
       Failed(status) /\ \E v \in OpenAIVerdicts(status) : RetryOrTell(v)
  /\ UNCHANGED <<request, token, cancelled, attempts, said, got, agent, msg>>

\* "shouldRetry is not catching the max retries": it does not for a 401.  What the
\* agent is told then is the error it returned, nil.
CopilotFails ==
  /\ client \in Copilot
  /\ \E status \in Failures :
       /\ Failed(status)
       /\ \E v \in CopilotVerdicts(status) :
            RetryOrTell(IF v = "retry" /\ attempts > MaxRetries THEN "nil" ELSE v)
  /\ UNCHANGED <<request, token, cancelled, attempts, said, got, agent, msg>>

GeminiFails ==
  /\ client = "gemini"
  /\ \E status \in Failures :
       Failed(status) /\ \E v \in GeminiVerdicts(status) : RetryOrTell(v)
  /\ UNCHANGED <<request, token, cancelled, attempts, said, got, agent, msg>>

---------------------------------------------------------------------------
(* stream: what the server says *)

\* A block of text or of a tool call begins, is filled and ends.  Of a block of
\* thought nothing is kept (processEvent appends Content, and it is in Thinking).
AnthropicBlockStart ==
  /\ client = "anthropic" /\ Speaks /\ said.open = ""
  /\ \/ /\ SaysText
        /\ said' = [said EXCEPT !.open = "text", !.any = TRUE]
        /\ Offer(Of("other", "reading"))
     \/ /\ SaysCall
        /\ said' = [WithCall(NextCall) EXCEPT !.open = "tool"]
        /\ Offer(CallOf(NextCall))
  /\ UNCHANGED <<request, token, cancelled, attempts, ended, got, agent, msg>>

AnthropicBlockDelta ==
  /\ client = "anthropic" /\ Speaks
  /\ \/ /\ said.open \in {"text", "text filled"} /\ SaysText
        /\ said' = [WithText EXCEPT !.open = "text filled"]
        /\ Offer(Of("text", "reading"))
     \/ /\ said.open = "tool"
        /\ said' = [said EXCEPT !.open = "tool filled"]
        /\ Offer(Of("other", "reading"))
  /\ UNCHANGED <<request, token, cancelled, attempts, ended, got, agent, msg>>

AnthropicBlockStop ==
  /\ client = "anthropic" /\ Speaks /\ said.open \in {"text filled", "tool filled"}
  /\ said' = [said EXCEPT !.open = ""]
  /\ Offer(Of("other", "reading"))
  /\ UNCHANGED <<request, token, cancelled, attempts, ended, got, agent, msg>>

\* MessageStopEvent.  The stream is read on: it may still break.
AnthropicMessageStop ==
  /\ client = "anthropic" /\ Speaks /\ said.open = "" /\ said.any
  /\ said' = [said EXCEPT !.stopped = TRUE]
  /\ Offer(Complete(said.calls, "reading"))
  /\ UNCHANGED <<request, token, cancelled, attempts, ended, got, agent, msg>>

\* Without an error, or io.EOF: the channel is closed.
AnthropicEnds ==
  /\ client = "anthropic" /\ Ends
  /\ ended' = "eof"
  /\ pc' = "returned"
  /\ UNCHANGED <<request, token, cancelled, attempts, said, got, event, agent, msg>>

\* A chunk with text, or with a choice that has none.
OpenAIText ==
  /\ client \in OpenAI
  /\ \/ SaysText /\ said' = WithText /\ Offer(Of("text", "reading"))
     \/ Speaks /\ ~said.any /\ said' = [said EXCEPT !.any = TRUE] /\ UNCHANGED <<pc, event>>
  /\ UNCHANGED <<request, token, cancelled, attempts, ended, got, agent, msg>>

\* The SDK's accumulator collects the tool calls.
OpenAICall ==
  /\ client \in {"openai", "copilot"} /\ SaysCall
  /\ said' = WithCall(NextCall)
  /\ UNCHANGED <<request, token, cancelled, pc, attempts, ended, got, event, agent, msg>>

\* The adapter for Anthropic's models has its own tool calls.  It expects them one
\* after the other: an id it does not know begins a call, what comes without an id
\* is the rest of its arguments, and a call is kept when the next one begins.
CopilotListens == client = "copilot claude" /\ Speaks /\ ~got.finished
CopilotBegins(c) ==
  [got EXCEPT !.current = c, !.calls = IF got.current = 0 THEN @ ELSE Append(@, got.current)]

\* One call, or more in a delta, of which only the first is looked at.
CopilotCall ==
  /\ CopilotListens /\ SaysCall
  /\ \E n \in NextCall .. MaxCalls :
       /\ said' = [said EXCEPT !.calls = @ \o [i \in 1 .. n - Len(@) |-> Len(said.calls) + i], !.any = TRUE]
       /\ got' = [CopilotBegins(NextCall) EXCEPT !.mixed = @ \/ n > NextCall]
  /\ UNCHANGED <<request, token, cancelled, pc, attempts, ended, event, agent, msg>>

\* What it does not expect.  Arguments are dropped when the id comes with them
\* again, and taken for the current call's when they are another's; a call whose id
\* comes later is no call; a call that has been before is begun anew.
CopilotDelta ==
  /\ CopilotListens
  /\ \/ got.current # 0 /\ got' = [got EXCEPT !.mixed = TRUE] /\ UNCHANGED said
     \/ SaysCall /\ said' = WithCall(NextCall) /\ got' = [got EXCEPT !.mixed = TRUE]
     \/ /\ Len(got.calls) <= MaxCalls
        /\ \E c \in ToSet(said.calls) \ {got.current} : got' = [CopilotBegins(c) EXCEPT !.mixed = TRUE]
        /\ UNCHANGED said
  /\ UNCHANGED <<request, token, cancelled, pc, attempts, ended, event, agent, msg>>

\* Mutant of CopilotFinish: the last call is not kept.
CopilotFinishLosesLast ==
  /\ CopilotListens
  /\ got' = [got EXCEPT !.finished = TRUE]
  /\ said' = [said EXCEPT !.any = TRUE]
  /\ UNCHANGED <<request, token, cancelled, pc, attempts, ended, event, agent, msg>>

\* The last one when the model says that it wants its tools: once more each time it
\* says so, and the empty one when there is none.  No call comes after that.
CopilotFinish ==
  /\ client = "copilot claude" /\ Speaks /\ Len(got.calls) <= MaxCalls
  /\ got' = [got EXCEPT !.finished = TRUE, !.calls = Append(@, got.current),
                        !.mixed = @ \/ got.finished \/ got.current = 0]
  /\ said' = [said EXCEPT !.any = TRUE]
  /\ UNCHANGED <<request, token, cancelled, pc, attempts, ended, event, agent, msg>>

\* acc.ChatCompletion.Choices[0] of an answer without one: an index out of range,
\* in a goroutine nobody recovers.
OpenAIEnds ==
  /\ client \in OpenAI /\ Ends
  /\ ended' = IF said.any THEN "eof" ELSE "empty"
  /\ IF said.any
     THEN Offer(Complete(IF got.finished THEN got.calls ELSE said.calls, "returned"))
     ELSE pc' = "crashed" /\ UNCHANGED event
  /\ UNCHANGED <<request, token, cancelled, attempts, said, got, agent, msg>>

\* A response with text, with a call, with one it has already brought, or with
\* nothing: Gemini keeps one of two equal calls.
GeminiResponse ==
  /\ client = "gemini"
  /\ \/ SaysText /\ said' = WithText /\ Offer(Of("text", "reading")) /\ UNCHANGED got
     \/ /\ SaysCall
        /\ \E c \in 1 .. NextCall :
             /\ said' = WithCall(c)
             /\ got' = [got EXCEPT !.calls = IF Contains(@, c) THEN @ ELSE Append(@, c)]
        /\ UNCHANGED <<pc, event>>
     \/ Speaks /\ ~said.any /\ said' = [said EXCEPT !.any = TRUE] /\ UNCHANGED <<got, pc, event>>
  /\ UNCHANGED <<request, token, cancelled, attempts, ended, agent, msg>>

GeminiEnds ==
  /\ client = "gemini" /\ Ends
  /\ ended' = IF said.any THEN "eof" ELSE "empty"
  /\ Offer(Of("other", "final"))
  /\ UNCHANGED <<request, token, cancelled, attempts, said, got, agent, msg>>

\* Without any response the loop begins anew, at once and however often.
GeminiFinal ==
  /\ pc = "final"
  /\ IF said.any THEN Offer(Complete(got.calls, "returned")) ELSE pc' = "call" /\ UNCHANGED event
  /\ UNCHANGED <<request, token, cancelled, attempts, server, got, agent, msg>>

---------------------------------------------------------------------------
(* send *)

\* Gemini's send assigns the content for every part: the last one stays.
Kept(texts) == IF client = "gemini" /\ texts > 0 THEN 1 ELSE texts

Answered(texts, n) ==
  /\ msg' = [text |-> Kept(texts), calls |-> [i \in 1 .. n |-> i], complete |-> TRUE]
  /\ said' = [said EXCEPT !.texts = texts, !.calls = [i \in 1 .. n |-> i], !.any = TRUE]
  /\ ended' = "eof"
  /\ Return("completed")

SendAnswered ==
  /\ mode = "send" /\ pc = "reading" /\ ~cancelled /\ token = "good"
  /\ \E texts \in 0 .. MaxTexts, n \in 0 .. MaxCalls : Answered(texts, n)
  /\ UNCHANGED <<request, token, cancelled, attempts, got, event>>

\* Choices[0] of none: in the caller's goroutine, which recovers.
SendEmpty ==
  /\ mode = "send" /\ pc = "reading" /\ ~cancelled /\ token = "good" /\ client \in OpenAI
  /\ ended' = "empty"
  /\ Return("panicked")
  /\ UNCHANGED <<request, token, cancelled, attempts, said, got, event, msg>>

SendFails ==
  /\ mode = "send" /\ pc = "reading"
  /\ \E status \in Failures :
       /\ Fails(status)
       /\ \E v \in Verdicts(status) :
            CASE v = "retry"    -> pc' = "waiting" /\ UNCHANGED agent
              [] v = "canceled" -> Return("canceled")
              [] OTHER          -> Return("error")
  /\ UNCHANGED <<request, token, cancelled, attempts, said, got, event, msg>>

SendCancelled ==
  /\ mode = "send" /\ pc = "waiting" /\ cancelled
  /\ Return("canceled")
  /\ UNCHANGED <<request, token, cancelled, attempts, server, got, event, msg>>

---------------------------------------------------------------------------
(* streamAndHandleEvents *)

\* The assistant message is created, or not: nobody reads the channel then.
CreateMessage ==
  /\ agent = "creating"
  /\ agent' \in {"receiving", IF cancelled THEN "canceled" ELSE "failed"}
  /\ UNCHANGED <<request, token, cancelled, pc, attempts, server, got, event, msg>>

\* processEvent.  The message is stored after each change, and the usage after the
\* last: that may fail when the message has the event already.
Handle ==
  \/ /\ event.type = "error"
     /\ agent' = CASE event.error = "canceled" -> "canceled"
                   [] event.error = "nil"      -> "panicked"
                   [] OTHER                    -> "error"
     /\ UNCHANGED msg
  \/ /\ event.type # "error"
     /\ agent' \in {"handled"} \cup
                   IF event.type # "other" \/ client = "anthropic" THEN {"failed"} ELSE {}
     /\ msg' = CASE event.type = "text"     -> [msg EXCEPT !.text = @ + 1]
                 [] event.type = "call"     -> [msg EXCEPT !.calls = Append(@, event.call)]
                 [] event.type = "complete" -> [msg EXCEPT !.calls = event.calls, !.complete = TRUE]
                 [] event.type = "other"    -> msg

\* An event is taken.  One that finds the context cancelled is not handled.
Receive ==
  /\ agent = "receiving" /\ pc = "offer"
  /\ pc' = event.then
  /\ event' = NoEvent
  /\ IF cancelled THEN agent' = "canceled" /\ UNCHANGED msg ELSE Handle
  /\ UNCHANGED <<request, token, cancelled, attempts, server, got>>

\* After each event the context is looked at again.
NextEvent ==
  /\ agent = "handled"
  /\ agent' = IF cancelled THEN "canceled" ELSE "receiving"
  /\ UNCHANGED <<request, token, cancelled, pc, attempts, server, got, event, msg>>

\* The channel is closed.
Closed ==
  /\ agent = "receiving" /\ pc = "returned" /\ mode = "stream"
  /\ agent' = IF msg.complete THEN "completed" ELSE "silent"
  /\ UNCHANGED <<request, token, cancelled, pc, attempts, server, got, event, msg>>

---------------------------------------------------------------------------

Cancel ==
  /\ ~cancelled /\ ~Over
  /\ cancelled' = TRUE
  /\ UNCHANGED <<request, token, pc, attempts, server, got, event, agent, msg>>

TokenExpires ==
  /\ client \in Copilot /\ token = "good" /\ ~Over
  /\ token' = "expired"
  /\ UNCHANGED <<request, cancelled, pc, attempts, server, got, event, agent, msg>>

Loop ==
  \/ Call \/ Again
  \/ AnthropicCancelled \/ OpenAICancelled \/ GeminiCancelled \/ GeminiGoesOn
  \/ AnthropicFails \/ OpenAIFails \/ CopilotFails \/ GeminiFails
  \/ AnthropicBlockStart \/ AnthropicBlockDelta \/ AnthropicBlockStop
  \/ AnthropicMessageStop \/ AnthropicEnds
  \/ OpenAIText \/ OpenAICall \/ CopilotCall \/ CopilotDelta \/ CopilotFinish \/ OpenAIEnds
  \/ GeminiResponse \/ GeminiEnds \/ GeminiFinal
  \/ SendAnswered \/ SendEmpty \/ SendFails \/ SendCancelled

Reader == CreateMessage \/ Receive \/ NextEvent \/ Closed

\* Once the program has crashed nothing happens any more.
Next ==
  /\ pc # "crashed"
  /\ Loop \/ Reader \/ Cancel \/ TokenExpires

\* The goroutines run, timers fire and the server answers, in some way, or the
\* connection breaks.
Fairness == WF_vars(Loop /\ pc # "crashed") /\ WF_vars(Reader /\ pc # "crashed")

Spec == Init /\ [][Next]_vars /\ Fairness

---------------------------------------------------------------------------
(* Properties *)

\* Every request comes to an end, however busy the server is: the retries are
\* counted.  Only two loops are not: Copilot's send with a token that has expired
\* and can be exchanged, but is not replaced, and Gemini's stream that says
\* nothing, over and over.
RetriesEnd ==
  \/ <>Over
  \/ []<>(pc = "call" /\ ended = "unauthorized" /\ client \in Copilot /\ mode = "send")
  \/ []<>(pc = "call" /\ ended = "empty" /\ client = "gemini" /\ mode = "stream")

\* A cancelled request ends, whatever the client is doing: reading, waiting to
\* ask again, offering an event.
CancelEnds == cancelled ~> Over

\* What the agent has at the end is the last answer and nothing else: all of its
\* text, nothing of an attempt before, and every call the model made.  Gemini's
\* equal calls are one, and of what its send got only the last text is there.  The
\* calls of Anthropic's models by Copilot are those the model made only if they came
\* one after the other and one finish behind them; else calls are lost, or there twice.
AnswerComplete ==
  agent = "completed" =>
    /\ client # "gemini" \/ mode = "stream" => msg.text = said.texts
    /\ ~got.mixed => /\ ToSet(msg.calls) = ToSet(said.calls)
                     /\ client # "gemini" \/ mode = "send" => msg.calls = said.calls

Answer == INSTANCE ModelAnswer WITH
  Calls   <- 1 .. MaxCalls,
  streams <- mode = "stream",
  merges  <- client = "gemini",
  mixed   <- got.mixed,
  answer  <- [texts |-> said.texts, calls |-> said.calls],
  message <- msg,
  outcome <- IF Waiting THEN "none" ELSE agent

\* A request is the abstract one, with all its attempts: what was taken of an answer
\* is never left behind by an attempt made again, parts come in their order, and
\* what is complete, or has ended, stays as it is.
AnswerTaken == Answer!Spec

\* A request ends as what it was.  A channel closed without a word is a stream of
\* Anthropic's that broke off without an error, or a cancelled wait of OpenAI's
\* and Copilot's; an error the client tells after the answer is a broken end of
\* Anthropic's, the agent's own, that a database failed, may follow any answer; the
\* agent panics for Copilot's expired token, the caller of send for no choice; the
\* program crashes for an answer without one, and for Gemini's busy server.
EndsAsItWas ==
  /\ agent = "silent" => \/ client = "anthropic" /\ ended = "eof" /\ ~said.stopped
                         \/ client \in OpenAI /\ cancelled /\ ended \in {"limit", "unauthorized"}
  /\ agent = "canceled" => cancelled
  /\ agent = "error" /\ msg.complete => client = "anthropic" /\ ended = "refused"
  /\ agent = "panicked" => \/ client \in Copilot /\ token = "expired" /\ attempts > MaxRetries
                           \/ client \in OpenAI /\ mode = "send" /\ ended = "empty"
  /\ pc = "crashed" => \/ client \in OpenAI /\ ended = "empty"
                       \/ client = "gemini" /\ ended = "limit"

=============================================================================
