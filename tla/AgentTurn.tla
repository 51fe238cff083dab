----------------------------- MODULE AgentTurn -----------------------------
(***************************************************************************)
(* The generation loop of one session (internal/llm/agent/agent.go:        *)
(* processGeneration, streamAndHandleEvents, processEvent, Summarize): the *)
(* provider streams an assistant message, its tool calls are run one after *)
(* the other, their results are stored as one tool message, and the        *)
(* history goes back to the provider until an answer needs no tool.        *)
(*                                                                         *)
(* Two runs of the session may overlap, because Cancel frees the session   *)
(* while the cancelled goroutine winds down, and a summary may be made     *)
(* beside a run.  AgentRequests models how the requests are admitted; here *)
(* a run may start once every other run has ended or is cancelled.         *)
(*                                                                         *)
(* The text of messages is left out.  A tool call keeps whether its input  *)
(* is JSON: ToolUseStart announces a call without any, and a model may     *)
(* write what is none; the clients of the providers differ in what they    *)
(* make of such a call in a later request.  The user may change the model  *)
(* between two runs, so the same conversation may go to any client.  How a *)
(* stream ends is Provider's subject; here the calls of an answer are      *)
(* different ones.                                                         *)
(***************************************************************************)
EXTENDS Naturals, Sequences, FiniteSets, Functions

CONSTANTS
  Runs,       \* the runs of the session, 1 .. n in the order they start
  MaxCalls,   \* bound: tool calls of one assistant message
  MaxTurns,   \* bound: requests the runs send to the provider
  Summarizes  \* BOOLEAN: whether the user compacts the session once

ASSUME BoundsAssumption ==
  MaxCalls \in Nat /\ MaxTurns \in Nat /\ Summarizes \in BOOLEAN

VARIABLES
  messages,   \* the messages table, oldest first
  summaryId,  \* session.SummaryMessageID: an index of messages, 0 for none
  pc,         \* where each run's goroutine is
  cancelled,  \* the runs whose context is cancelled
  history,    \* [Runs -> msgHistory, the messages the next request sends]
  msg,        \* [Runs -> assistantMsg, the message being streamed]
  at,         \* [Runs -> the index of assistantMsg in messages]
  results,    \* [Runs -> toolResults]
  next,       \* [Runs -> index of the tool call the loop is at]
  executed,   \* history: the tool calls whose tool has run
  denied,     \* history: the tool calls whose permission was denied
  asked,      \* history: [Runs -> requests the run has sent]
  disturbed,  \* history: the clients for which requests overlapped, or a turn was
              \* cut short that they send calls of, or results of calls they do not
  cut,        \* history: runs that could not store how their message ended
  unstored,   \* history: runs that could not store the results of their tools
  summarizer, \* Summarize's goroutine
  summaryAt   \* the index of the message it has stored

runVars == <<pc, cancelled, history, msg, at, results, next>>
ghosts  == <<executed, denied, asked, disturbed, cut, unstored>>
summary == <<summaryId, summarizer, summaryAt>>
vars    == <<messages, runVars, ghosts, summary>>

Roles         == {"user", "assistant", "tool"}
FinishReasons == {"", "stop", "end_turn", "tool_use", "canceled", "permission_denied"}
CallIds       == Nat \X (1 .. MaxCalls)   \* index of the message, position
Calls         == [id : CallIds, input : BOOLEAN]
Results       == [id : CallIds, content : {"output", "missing", "denied", "canceled"}]

IsMessage(m) ==
  /\ DOMAIN m = {"role", "calls", "results", "finish"}
  /\ m.role \in Roles /\ m.finish \in FinishReasons
  /\ m.calls \in Seq(Calls) /\ Len(m.calls) <= MaxCalls
  /\ m.results \in Seq(Results) /\ Len(m.results) <= MaxCalls

Clients       == {"anthropic", "openai", "gemini"}

Message(role, finish) == [role |-> role, calls |-> <<>>, results |-> <<>>, finish |-> finish]

\* What the user asks, what assistantMsg is at first, the tool message, the summary.
Question   == Message("user", "stop")
Blank      == Message("assistant", "")
Answers(x) == [Message("tool", "stop") EXCEPT !.results = x]
Compaction == Message("assistant", "end_turn")

States == {"idle", "listed", "loop", "streaming", "completed", "tools", "call", "done"}

TypeOK ==
  /\ \A i \in DOMAIN messages : IsMessage(messages[i])
  /\ summaryId \in 0 .. Len(messages)
  /\ pc \in [Runs -> States]
  /\ cancelled \subseteq Runs
  /\ \A r \in Runs : /\ \A i \in DOMAIN history[r] : IsMessage(history[r][i])
                     /\ IsMessage(msg[r])
                     /\ at[r] \in 0 .. Len(messages)
                     /\ results[r] \in Seq(Results)
                     /\ next[r] \in 1 .. MaxCalls + 1
  /\ executed \subseteq CallIds /\ denied \subseteq CallIds
  /\ asked \in [Runs -> Nat]
  /\ disturbed \subseteq Clients
  /\ cut \subseteq Runs /\ unstored \subseteq Runs
  /\ summaryAt \in 0 .. Len(messages)
  /\ summarizer \in {"idle", "sent", "stored", "done"}

Init ==
  /\ messages = <<>>
  /\ summaryId = 0
  /\ pc = [r \in Runs |-> "idle"]
  /\ cancelled = {}
  /\ history = [r \in Runs |-> <<>>]
  /\ msg = [r \in Runs |-> Blank]
  /\ at = [r \in Runs |-> 0]
  /\ results = [r \in Runs |-> <<>>]
  /\ next = [r \in Runs |-> 1]
  /\ executed = {} /\ denied = {}
  /\ asked = [r \in Runs |-> 0]
  /\ disturbed = {}
  /\ cut = {} /\ unstored = {}
  /\ summarizer = "idle"
  /\ summaryAt = 0

---------------------------------------------------------------------------
(* The conversation *)

Working(r) == pc[r] \notin {"idle", "done"}

\* Bound: no run starts, and no answer asks for another turn, beyond this.
TurnsLeft == FoldFunctionOnSet(LAMBDA a, b : a + b, 0, asked, Runs) < MaxTurns

\* What processGeneration sends: from the summary on, the summary as the user.
Window ==
  IF summaryId = 0 THEN messages
  ELSE <<[messages[summaryId] EXCEPT !.role = "user"]>>
         \o SubSeq(messages, summaryId + 1, Len(messages))

Ids(calls) == [i \in DOMAIN calls |-> calls[i].id]

\* convertMessages: Anthropic's client leaves out a call whose input is no JSON,
\* those of OpenAI (and Copilot) and Gemini do not.
AnthropicSends(m) ==
  LET arrived == {i \in DOMAIN m.calls : m.calls[i].input}
      nth(k)  == CHOOSE i \in arrived : Cardinality({j \in arrived : j <= i}) = k
  IN [k \in 1 .. Cardinality(arrived) |-> m.calls[nth(k)]]
OpenAISends(m)    == m.calls
GeminiSends(m)    == m.calls

SentCalls(client, m) ==
  CASE client = "anthropic" -> AnthropicSends(m)
    [] client = "openai"    -> OpenAISends(m)
    [] client = "gemini"    -> GeminiSends(m)

\* What a provider accepts: the calls of an assistant message are answered,
\* all and in order, by the next message, and nothing else is answered.
Paired(client, h) ==
  /\ \A i \in DOMAIN h : SentCalls(client, h[i]) # <<>> =>
       i < Len(h) /\ h[i + 1].role = "tool"
  /\ \A i \in DOMAIN h : h[i].role = "tool" =>
       i > 1 /\ Ids(h[i].results) = Ids(SentCalls(client, h[i - 1]))

\* AddFinish on the message in memory, and Update of the stored one.
Finished(m, reason) == [m EXCEPT !.finish = reason]
Stored(r, m) == [messages EXCEPT ![at[r]] = m]

Goto(r, l) == pc' = [pc EXCEPT ![r] = l]

\* processGeneration returns: its local variables are gone.
Exit(r) ==
  /\ Goto(r, "done")
  /\ history' = [history EXCEPT ![r] = <<>>]
  /\ msg' = [msg EXCEPT ![r] = Blank]
  /\ results' = [results EXCEPT ![r] = <<>>]
  /\ next' = [next EXCEPT ![r] = 1]

---------------------------------------------------------------------------
(* processGeneration *)

\* A user presses enter.  List; then the session's SummaryMessageID.
Start(r) ==
  /\ pc[r] = "idle" /\ TurnsLeft
  /\ \A q \in 1 .. r - 1 : pc[q] # "idle"
  /\ \A q \in Runs : Working(q) => q \in cancelled
  /\ history' = [history EXCEPT ![r] = Window]
  /\ Goto(r, "listed")
  /\ disturbed' = IF (\E q \in Runs : Working(q)) \/ summarizer \in {"sent", "stored"}
                  THEN Clients ELSE disturbed
  /\ UNCHANGED <<messages, cancelled, msg, at, results, next, executed, denied, asked, cut, unstored, summary>>

CreateUserMessage(r) ==
  /\ pc[r] = "listed" /\ r \notin cancelled
  /\ messages' = Append(messages, Question)
  /\ history' = [history EXCEPT ![r] = Append(@, Question)]
  /\ Goto(r, "loop")
  /\ UNCHANGED <<cancelled, msg, at, results, next, ghosts, summary>>

\* The head of the loop: StreamResponse and the empty assistant message.
Request(r) ==
  /\ pc[r] = "loop" /\ r \notin cancelled
  /\ messages' = Append(messages, Blank)
  /\ at' = [at EXCEPT ![r] = Len(messages) + 1]
  /\ msg' = [msg EXCEPT ![r] = Blank]
  /\ asked' = [asked EXCEPT ![r] = @ + 1]
  /\ Goto(r, "streaming")
  /\ UNCHANGED <<cancelled, history, results, next, executed, denied, disturbed, cut, unstored, summary>>

\* An error of List, Get or Create of the user's message, cancelled or not, or
\* ctx.Done at the head of the loop.
StopBeforeRequest(r) ==
  /\ pc[r] = "listed" \/ (pc[r] = "loop" /\ r \in cancelled)
  /\ Exit(r)
  /\ UNCHANGED <<messages, cancelled, at, ghosts, summary>>

\* Create of the empty assistant message fails: the provider has been asked.
RequestFails(r) ==
  /\ pc[r] = "loop"
  /\ asked' = [asked EXCEPT ![r] = @ + 1]
  /\ Exit(r)
  /\ UNCHANGED <<messages, cancelled, at, executed, denied, disturbed, cut, unstored, summary>>

---------------------------------------------------------------------------
(* streamAndHandleEvents: the provider's events *)

Update(r, m) ==
  /\ msg' = [msg EXCEPT ![r] = m]
  /\ messages' = Stored(r, m)

\* The run ends and leaves calls unanswered that these clients will send.
LeavesCallsOpen(r) == {c \in Clients : SentCalls(c, msg[r]) # <<>>}

ToolUseStart(r) ==
  /\ pc[r] = "streaming" /\ r \notin cancelled
  /\ Len(msg[r].calls) < MaxCalls
  /\ Update(r, [msg[r] EXCEPT !.calls =
                  Append(@, [id |-> <<at[r], Len(@) + 1>>, input |-> FALSE])])
  /\ UNCHANGED <<pc, cancelled, history, at, results, next, ghosts, summary>>

\* Mutant of StreamComplete: the finished message is not saved.
StreamCompleteUnsaved(r) ==
  /\ pc[r] = "streaming" /\ r \notin cancelled /\ TurnsLeft
  /\ msg' = [msg EXCEPT ![r].finish = "tool_use",
                         ![r].calls = <<[id |-> <<at[r], 1>>, input |-> TRUE]>>]
  /\ Goto(r, "completed")
  /\ UNCHANGED <<messages, cancelled, history, at, results, next, ghosts, summary>>

\* EventComplete: SetToolCalls, AddFinish, Update.  A provider reports
\* tool_use only with calls, whose input may be no JSON.
StreamComplete(r) ==
  /\ pc[r] = "streaming" /\ r \notin cancelled
  /\ \E n \in Len(msg[r].calls) .. MaxCalls, f \in {"end_turn", "tool_use"} :
       /\ f = "tool_use" => n > 0 /\ TurnsLeft
       /\ \E json \in [1 .. n -> BOOLEAN] :
            Update(r, [msg[r] EXCEPT !.finish = f, !.calls =
                         [i \in 1 .. n |-> [id |-> <<at[r], i>>, input |-> json[i]]]])
  /\ Goto(r, "completed")
  /\ UNCHANGED <<cancelled, history, at, results, next, ghosts, summary>>

\* TrackUsage succeeded, the context is alive and the stream is closed.
StartTools(r) ==
  /\ pc[r] = "completed" /\ r \notin cancelled
  /\ Goto(r, "tools")
  /\ UNCHANGED <<messages, cancelled, history, msg, at, results, next, ghosts, summary>>

\* The provider closes the channel without EventComplete or EventError (an
\* Anthropic stream at EOF; an OpenAI one cancelled during a retry's wait).  Calls
\* without input are then run.
StreamClosedEarly(r) ==
  /\ pc[r] = "streaming"
  /\ cut' = cut \cup {r}
  /\ Goto(r, "tools")
  /\ UNCHANGED <<messages, cancelled, history, msg, at, results, next, executed, denied, asked, disturbed,
                 unstored, summary>>

\* EventError, or a failed Update or TrackUsage, with the context alive.
\* finishMessage uses that same context, so its Update may still fail.
StreamFails(r) ==
  /\ pc[r] \in {"streaming", "completed"} /\ r \notin cancelled
  /\ \/ messages' = Stored(r, Finished(msg[r], "canceled")) /\ UNCHANGED cut
     \/ cut' = cut \cup {r} /\ UNCHANGED messages
  /\ disturbed' = disturbed \cup LeavesCallsOpen(r)
  /\ Exit(r)
  /\ UNCHANGED <<cancelled, at, executed, denied, asked, unstored, summary>>

\* Mutant of CancelledInStream: the finish is stored with the cancelled context.
CancelledInStreamUnsaved(r) ==
  /\ pc[r] \in {"streaming", "completed"} /\ r \in cancelled
  /\ disturbed' = disturbed \cup LeavesCallsOpen(r)
  /\ Exit(r)
  /\ UNCHANGED <<messages, cancelled, at, executed, denied, asked, cut, unstored, summary>>

\* The cancellation is seen while streaming: processGeneration stores the
\* finish with a context of its own.
CancelledInStream(r) ==
  /\ pc[r] \in {"streaming", "completed"} /\ r \in cancelled
  /\ messages' = Stored(r, Finished(msg[r], "canceled"))
  /\ disturbed' = disturbed \cup LeavesCallsOpen(r)
  /\ Exit(r)
  /\ UNCHANGED <<cancelled, at, executed, denied, asked, cut, unstored, summary>>

---------------------------------------------------------------------------
(* streamAndHandleEvents: the tool loop *)

Result(c, content) == [id |-> c.id, content |-> content]

\* toolResults[i] = x, in a slice as long as the calls.
With(seq, i, x) ==
  [k \in 1 .. (IF i > Len(seq) THEN i ELSE Len(seq)) |-> IF k = i THEN x ELSE seq[k]]

\* Mutant of CanceledFrom: j starts at 0.
CanceledFromFirst(r, i) ==
  [k \in DOMAIN msg[r].calls |-> Result(msg[r].calls[k], "canceled")]

\* toolResults[j] for j >= i: canceled by user.
CanceledFrom(r, i) ==
  [k \in DOMAIN msg[r].calls |->
     IF k < i THEN results[r][k] ELSE Result(msg[r].calls[k], "canceled")]

ToolsLeft(r) == pc[r] = "tools" /\ next[r] <= Len(msg[r].calls)

Call(r) == msg[r].calls[next[r]]

ToolsCancelled(r) ==
  /\ ToolsLeft(r) /\ r \in cancelled
  /\ results' = [results EXCEPT ![r] = CanceledFrom(r, next[r])]
  /\ next' = [next EXCEPT ![r] = Len(msg[r].calls) + 1]
  /\ Update(r, Finished(msg[r], "canceled"))
  /\ UNCHANGED <<pc, cancelled, history, at, ghosts, summary>>

ToolNotFound(r) ==
  /\ ToolsLeft(r) /\ r \notin cancelled
  /\ results' = [results EXCEPT ![r] = With(@, next[r], Result(Call(r), "missing"))]
  /\ next' = [next EXCEPT ![r] = @ + 1]
  /\ UNCHANGED <<messages, pc, cancelled, history, msg, at, ghosts, summary>>

\* tool.Run begins.  Whatever it waits for (the user's permission, a command),
\* the context may be cancelled meanwhile.
StartTool(r) ==
  /\ ToolsLeft(r) /\ r \notin cancelled
  /\ Goto(r, "call")
  /\ UNCHANGED <<messages, cancelled, history, msg, at, results, next, ghosts, summary>>

RunTool(r) ==
  /\ pc[r] = "call"
  /\ Goto(r, "tools")
  /\ executed' = executed \cup {Call(r).id}
  /\ results' = [results EXCEPT ![r] = With(@, next[r], Result(Call(r), "output"))]
  /\ next' = [next EXCEPT ![r] = @ + 1]
  /\ UNCHANGED <<messages, cancelled, history, msg, at, denied, asked, disturbed, cut, unstored, summary>>

\* Mutant of ToolDenied: the message is not finished, so the turn goes on.
ToolDeniedUnfinished(r) ==
  /\ pc[r] = "call"
  /\ Goto(r, "tools")
  /\ denied' = denied \cup {Call(r).id}
  /\ results' = [results EXCEPT ![r] =
                    With(CanceledFrom(r, next[r]), next[r], Result(Call(r), "denied"))]
  /\ next' = [next EXCEPT ![r] = @ + 1]
  /\ UNCHANGED <<messages, cancelled, history, msg, at, executed, asked, disturbed, cut, unstored, summary>>

\* The user denies the tool's permission.  The break only leaves the select,
\* so the loop goes on with the next call and overwrites its result.  The finish
\* is stored with the run's context, which fails if it is cancelled.
ToolDenied(r) ==
  /\ pc[r] = "call"
  /\ Goto(r, "tools")
  /\ denied' = denied \cup {Call(r).id}
  /\ results' = [results EXCEPT ![r] =
                    With(CanceledFrom(r, next[r]), next[r], Result(Call(r), "denied"))]
  /\ next' = [next EXCEPT ![r] = @ + 1]
  /\ msg' = [msg EXCEPT ![r] = Finished(msg[r], "permission_denied")]
  /\ messages' = IF r \in cancelled THEN messages ELSE Stored(r, msg'[r])
  /\ UNCHANGED <<cancelled, history, at, executed, asked, disturbed, cut, unstored, summary>>

\* Mutant of StoreResults: the next request lacks the assistant message.
StoreResultsOnly(r) ==
  /\ pc[r] = "tools" /\ ~ToolsLeft(r) /\ results[r] # <<>>
  /\ messages' = Append(messages, Answers(results[r]))
  /\ history' = [history EXCEPT ![r] = Append(@, Answers(results[r]))]
  /\ Goto(r, "loop")
  /\ UNCHANGED <<cancelled, msg, at, results, next, ghosts, summary>>

\* The tool message, and the decision to go on.  It answers also the calls that one
\* client does not send.
StoreResults(r) ==
  /\ pc[r] = "tools" /\ ~ToolsLeft(r)
  /\ messages' = IF results[r] = <<>> THEN messages ELSE Append(messages, Answers(results[r]))
  /\ disturbed' = disturbed \cup {c \in Clients : SentCalls(c, msg[r]) # msg[r].calls}
  /\ IF msg[r].finish = "tool_use" /\ results[r] # <<>>
     THEN /\ history' = [history EXCEPT ![r] = @ \o <<msg[r], Answers(results[r])>>]
          /\ results' = [results EXCEPT ![r] = <<>>]
          /\ next' = [next EXCEPT ![r] = 1]
          /\ Goto(r, "loop")
          /\ UNCHANGED msg
     ELSE Exit(r)
  /\ UNCHANGED <<cancelled, at, executed, denied, asked, cut, unstored, summary>>

\* Create of the tool message fails: the run ends with an error, and what its tools
\* did is told nowhere.
StoreResultsFails(r) ==
  /\ pc[r] = "tools" /\ ~ToolsLeft(r) /\ results[r] # <<>>
  /\ unstored' = unstored \cup {r}
  /\ disturbed' = disturbed \cup LeavesCallsOpen(r)
  /\ Exit(r)
  /\ UNCHANGED <<messages, cancelled, at, executed, denied, asked, cut, summary>>

---------------------------------------------------------------------------
(* The user's Cancel, and Summarize *)

Cancel(r) ==
  /\ Working(r) /\ r \notin cancelled
  /\ cancelled' = cancelled \cup {r}
  /\ UNCHANGED <<messages, pc, history, msg, at, results, next, ghosts, summary>>

SummarizeStart ==
  /\ Summarizes /\ summarizer = "idle" /\ messages # <<>>
  /\ \A r \in Runs : Working(r) => r \in cancelled
  /\ summarizer' = "sent"
  /\ disturbed' = IF \E r \in Runs : Working(r) THEN Clients ELSE disturbed
  /\ UNCHANGED <<messages, runVars, executed, denied, asked, cut, unstored, summaryId, summaryAt>>

SummaryCreate ==
  /\ summarizer = "sent"
  /\ summarizer' = "stored"
  /\ messages' = Append(messages, Compaction)
  /\ summaryAt' = Len(messages) + 1
  /\ UNCHANGED <<runVars, ghosts, summaryId>>

SummarySave ==
  /\ summarizer = "stored"
  /\ summarizer' = "done"
  /\ summaryId' = summaryAt
  /\ UNCHANGED <<messages, runVars, ghosts, summaryAt>>

SummarizeFails ==
  /\ summarizer \in {"sent", "stored"}
  /\ summarizer' = "done"
  /\ UNCHANGED <<messages, runVars, ghosts, summaryId, summaryAt>>

---------------------------------------------------------------------------

RunStep(r) ==
  \/ CreateUserMessage(r) \/ Request(r) \/ StopBeforeRequest(r)
  \/ ToolUseStart(r) \/ StreamComplete(r) \/ StartTools(r)
  \/ StreamClosedEarly(r) \/ StreamFails(r) \/ CancelledInStream(r)
  \/ ToolsCancelled(r) \/ ToolNotFound(r) \/ StartTool(r) \/ RunTool(r) \/ ToolDenied(r)
  \/ RequestFails(r) \/ StoreResults(r) \/ StoreResultsFails(r)

Next ==
  \/ \E r \in Runs : Start(r) \/ RunStep(r) \/ Cancel(r)
  \/ SummarizeStart \/ SummaryCreate \/ SummarySave \/ SummarizeFails

Spec == Init /\ [][Next]_vars

---------------------------------------------------------------------------
(* Properties *)

\* The conversation a request sends is one the provider accepts, and so is the
\* stored one whenever nothing works on it (what Summarize sends, what the next
\* run and a restart find): no tool call without its results, no results without
\* their call.  It holds for whichever client it goes to, whichever wrote it,
\* until requests overlap, or the run ends without results for calls this client
\* sends (an error, a cancellation while streaming, results that could not be
\* stored), or there are results of calls it does not send, as Anthropic's those
\* whose input is no JSON: disturbed.
ConversationPaired ==
  \A c \in Clients \ disturbed :
    /\ \A r \in Runs : pc[r] \in {"loop", "streaming"} => Paired(c, history[r])
    /\ (\A r \in Runs : ~Working(r)) => Paired(c, messages)

\* What a request sends is what is stored: the conversation in memory and the
\* one a restart would load never drift apart, across summaries too.
HistoryIsStored ==
  disturbed # Clients => \A r \in Runs : pc[r] = "loop" => history[r] = Window

\* Stored results tell what happened: canceled means the tool did not run,
\* and every tool that ran is reported once its run is over, even when a later
\* call was denied or the user cancelled, unless the database failed just then (unstored).
ResultsTruthful ==
  LET all == UNION {{messages[i].results[k] : k \in DOMAIN messages[i].results} :
                      i \in DOMAIN messages} IN
  /\ \A x \in all : /\ x.content = "output" => x.id \in executed
                    /\ x.content = "denied" => x.id \in denied
                    /\ x.content \in {"canceled", "missing", "denied"} => x.id \notin executed
  /\ \A e \in executed :
       (\A r \in Runs : Working(r) \/ r \in unstored => at[r] # e[1]) =>
         [id |-> e, content |-> "output"] \in all

\* The stored message of a run that is over says how it ended (the UI shows
\* it as being written otherwise), unless the stream closed without an end or
\* an error met a cancellation: the runs in cut.
EndedMessageFinished ==
  \A r \in Runs : pc[r] = "done" /\ at[r] # 0 /\ r \notin cut => messages[at[r]].finish # ""

\* After a denial the run sends nothing more to the provider.
NoRequestAfterDenial ==
  [][\A r \in Runs : asked'[r] # asked[r] =>
       \A i \in DOMAIN msg[r].calls : msg[r].calls[i].id \notin denied]_vars

=============================================================================
