--------------------------- MODULE AgentRequests ---------------------------
(***************************************************************************)
(* The request table of the coder agent (internal/llm/agent/agent.go) and  *)
(* the session row its goroutines update (internal/session/session.go).    *)
(*                                                                         *)
(* agent.activeRequests is a sync.Map from a session id (or the id with    *)
(* the suffix "-summarize") to the cancel function of the request that     *)
(* owns it.  Run and Summarize look the session up, store their cancel     *)
(* function and start a goroutine; the goroutine deletes the KEY, whoever  *)
(* owns it by then.  Cancel deletes the key at once and lets the goroutine *)
(* wind down on its own.                                                   *)
(*                                                                         *)
(* The goroutines, and the title goroutine a first message starts, change  *)
(* the session row by Get, edit, Save, with nothing that orders them.      *)
(***************************************************************************)
EXTENDS Naturals, FiniteSets

CONSTANTS
  Sessions,    \* the sessions of the coder agent
  Runs,        \* the goroutines agent.Run may start, each at most once
  Summaries,   \* the goroutines agent.Summarize may start, each at most once
  None,        \* no request
  NoRow,       \* no session row in hand
  MaxCharges,  \* bound: how often one request reads the session row to add usage
  MaxUpdates   \* bound: how often the user changes the model

Requests == Runs \cup Summaries

ASSUME RequestsAssumption ==
  /\ Runs \cap Summaries = {}
  /\ None \notin Requests
  /\ MaxCharges \in Nat /\ MaxUpdates \in Nat

Kind(r) == IF r \in Runs THEN "run" ELSE "summarize"

\* The keys of activeRequests: sessionID and sessionID + "-summarize".
Keys == Sessions \X {"run", "summarize"}

\* A session row: the columns UpdateSession overwrites.
Rows == [title : BOOLEAN, summary : Summaries \cup {None}, cost : Nat]
ASSUME NoRowAssumption == NoRow \notin Rows

\* Who holds a row between Get and Save: a request's own goroutine, or the
\* title goroutine a run has started.
Writers == (Requests \X {"self"}) \cup (Runs \X {"title"})

VARIABLES
  activeRequests,  \* [Keys -> request that owns the key, or None]
  pc,              \* where each request's goroutine is
  owner,           \* the session a request was made for
  cancelled,       \* the requests whose context is cancelled
  charges,         \* how often a request has read the row to add usage
  titling,         \* the runs whose title goroutine has not finished
  hasMessages,     \* the sessions with at least one stored message
  row,             \* the sessions table
  held,            \* [Writers -> the row read by Get and not yet saved]
  model,           \* which provider the agent uses (Update swaps it)
  ideal,           \* history: the rows, had every edit been made in place
  raced,           \* history: sessions run again before a cancelled run left
  overlapped       \* history: sessions of which two writers held the row

table == <<activeRequests, pc, owner, cancelled, raced>>
rows  == <<row, held, ideal, overlapped, charges>>
vars  == <<table, rows, titling, hasMessages, model>>

RunStates       == {"starting", "listed", "running", "calling", "returned", "published", "panicked"}
SummarizeStates == {"checked", "summarizing", "finished"}

TypeOK ==
  /\ activeRequests \in [Keys -> Requests \cup {None}]
  /\ pc \in [Requests -> {"idle"} \cup RunStates \cup SummarizeStates]
  /\ owner \in [Requests -> Sessions \cup {None}]
  /\ cancelled \subseteq Requests
  /\ charges \in [Requests -> Nat]
  /\ titling \subseteq Runs
  /\ hasMessages \subseteq Sessions
  /\ row \in [Sessions -> Rows]
  /\ held \in [Writers -> Rows \cup {NoRow}]
  /\ model \in Nat
  /\ ideal \in [Sessions -> Rows]
  /\ raced \subseteq Sessions
  /\ overlapped \subseteq Sessions

Init ==
  /\ activeRequests = [k \in Keys |-> None]
  /\ pc = [r \in Requests |-> "idle"]
  /\ owner = [r \in Requests |-> None]
  /\ cancelled = {}
  /\ charges = [r \in Requests |-> 0]
  /\ titling = {}
  /\ hasMessages = {}
  /\ row = [s \in Sessions |-> [title |-> FALSE, summary |-> None, cost |-> 0]]
  /\ held = [w \in Writers |-> NoRow]
  /\ model = 0
  /\ ideal = row
  /\ raced = {}
  /\ overlapped = {}

---------------------------------------------------------------------------
(* Queries *)

\* Mutant of KeyOf: every request deletes the summarize key.
KeyOfSummarize(r) == <<owner[r], "summarize">>

KeyOf(r) == <<owner[r], Kind(r)>>

\* Mutant of IsSessionBusy: asks for the wrong key.
IsSessionSummarizing(s) == activeRequests[<<s, "summarize">>] # None

IsSessionBusy(s) == activeRequests[<<s, "run">>] # None

\* Mutant of IsBusy: overlooks the run keys.
IsSummarizing == \E s \in Sessions : activeRequests[<<s, "summarize">>] # None

IsBusy == \E k \in Keys : activeRequests[k] # None

\* The goroutine works on the session and may still change it.
Working(r) == pc[r] \in {"starting", "listed", "running", "calling", "summarizing"}

\* The goroutine has not yet deleted its key.
Live(r) == Working(r) \/ pc[r] = "returned"

---------------------------------------------------------------------------
(* The session row: Get, edit, Save *)

SessionOf(w) == owner[w[1]]

\* The columns a writer changes in the row it holds.
Edited(w, r) ==
  CASE w[2] = "title"       -> [r EXCEPT !.title = TRUE]
    [] w[1] \in Summaries   -> [r EXCEPT !.summary = w[1], !.cost = @ + 1]
    [] OTHER                -> [r EXCEPT !.cost = @ + 1]

HoldsRow(w) == held[w] # NoRow

Get(w) ==
  /\ held' = [held EXCEPT ![w] = row[SessionOf(w)]]
  /\ overlapped' = IF \E v \in Writers \ {w} : HoldsRow(v) /\ SessionOf(v) = SessionOf(w)
                   THEN overlapped \cup {SessionOf(w)}
                   ELSE overlapped
  /\ UNCHANGED <<row, ideal>>

\* Mutant of Save: UpdateSession does not carry SummaryMessageID over.
SaveWithoutSummary(w) ==
  /\ row' = [row EXCEPT ![SessionOf(w)] =
                [Edited(w, held[w]) EXCEPT !.summary = IF w[1] \in Summaries THEN w[1] ELSE None]]
  /\ ideal' = [ideal EXCEPT ![SessionOf(w)] = Edited(w, @)]
  /\ held' = [held EXCEPT ![w] = NoRow]
  /\ UNCHANGED overlapped

\* UpdateSession writes every column of the row the writer read earlier.
Save(w) ==
  /\ row' = [row EXCEPT ![SessionOf(w)] = Edited(w, held[w])]
  /\ ideal' = [ideal EXCEPT ![SessionOf(w)] = Edited(w, @)]
  /\ held' = [held EXCEPT ![w] = NoRow]
  /\ UNCHANGED overlapped

Drop(w) ==
  /\ held' = [held EXCEPT ![w] = NoRow]
  /\ UNCHANGED <<row, ideal, overlapped>>

Self(r)  == <<r, "self">>
Title(r) == <<r, "title">>

---------------------------------------------------------------------------
(* The user: Run, Cancel, Update.  All three are called by the one         *)
(* goroutine that runs the TUI's Update loop, so the busy check and the    *)
(* store of Run are one step.                                              *)

Run(r, s) ==
  /\ pc[r] = "idle"
  /\ ~IsSessionBusy(s)
  /\ activeRequests' = [activeRequests EXCEPT ![<<s, "run">>] = r]
  /\ pc' = [pc EXCEPT ![r] = "starting"]
  /\ owner' = [owner EXCEPT ![r] = s]
  /\ raced' = IF \E q \in Runs : Live(q) /\ q \in cancelled /\ owner[q] = s
              THEN raced \cup {s} ELSE raced
  /\ UNCHANGED <<cancelled, rows, titling, hasMessages, model>>

\* LoadAndDelete of both keys, each followed by its cancel function.
Cancel(s) ==
  LET keys == {s} \X {"run", "summarize"} IN
  /\ activeRequests' = [k \in Keys |-> IF k \in keys THEN None ELSE activeRequests[k]]
  /\ cancelled' = cancelled \cup ({activeRequests[k] : k \in keys} \ {None})
  /\ UNCHANGED <<pc, owner, raced, rows, titling, hasMessages, model>>

Update ==
  /\ ~IsBusy
  /\ model < MaxUpdates
  /\ model' = model + 1
  /\ UNCHANGED <<table, rows, titling, hasMessages>>

---------------------------------------------------------------------------
(* The goroutine of Run *)

Goto(r, l) == pc' = [pc EXCEPT ![r] = l]

\* List; a session without messages gets a title goroutine.
ListMessages(r) ==
  /\ pc[r] = "starting" /\ r \notin cancelled
  /\ Goto(r, "listed")
  /\ titling' = IF owner[r] \in hasMessages THEN titling ELSE titling \cup {r}
  /\ UNCHANGED <<activeRequests, owner, cancelled, raced, rows, hasMessages, model>>

CreateUserMessage(r) ==
  /\ pc[r] = "listed" /\ r \notin cancelled
  /\ Goto(r, "running")
  /\ hasMessages' = hasMessages \cup {owner[r]}
  /\ UNCHANGED <<activeRequests, owner, cancelled, raced, rows, titling, model>>

\* TrackUsage, and agentTool.Run adding a child's cost, read the row ...
UsageGet(r) ==
  /\ pc[r] = "running" /\ r \notin cancelled
  /\ ~HoldsRow(Self(r))
  /\ charges[r] < MaxCharges
  /\ Get(Self(r))
  /\ charges' = [charges EXCEPT ![r] = @ + 1]
  /\ UNCHANGED <<table, titling, hasMessages, model>>

\* ... and save it, unless the context was cancelled in between.
UsageSave(r) ==
  /\ pc[r] = "running" /\ r \notin cancelled
  /\ HoldsRow(Self(r))
  /\ Save(Self(r))
  /\ UNCHANGED <<table, charges, titling, hasMessages, model>>

\* A failed Save ends the turn in TrackUsage; in agentTool.Run only the tool.
UsageSaveFails(r) ==
  /\ pc[r] = "running" /\ HoldsRow(Self(r))
  /\ Drop(Self(r))
  /\ \E l \in {"running", "returned"} : Goto(r, l)
  /\ UNCHANGED <<activeRequests, owner, cancelled, raced, charges, titling, hasMessages, model>>

\* The run waits for somebody else: the provider's next event, or a tool, which may
\* wait for the user, a command or a language server.  There is no bound on how
\* often it does, as the model may always ask for another tool.
CallOut(r) ==
  /\ pc[r] = "running" /\ ~HoldsRow(Self(r))
  /\ Goto(r, "calling")
  /\ UNCHANGED <<activeRequests, owner, cancelled, raced, rows, titling, hasMessages, model>>

\* It has come back, with whatever result.
CallBack(r) ==
  /\ pc[r] = "calling"
  /\ Goto(r, "running")
  /\ UNCHANGED <<activeRequests, owner, cancelled, raced, rows, titling, hasMessages, model>>

\* processGeneration returns: the answer, an error, or the cancellation.
Return(r) ==
  /\ r \in Runs /\ Working(r) /\ pc[r] # "calling"
  /\ ~HoldsRow(Self(r))
  /\ Goto(r, "returned")
  /\ UNCHANGED <<activeRequests, owner, cancelled, raced, rows, titling, hasMessages, model>>

\* activeRequests.Delete(sessionID), whoever owns the key by now; cancel();
\* Publish.  The goroutine then sends on the unbuffered events channel: the
\* TUI never receives from it, so there it stays.
PublishResult(r) ==
  /\ pc[r] = "returned"
  /\ activeRequests' = [activeRequests EXCEPT ![KeyOf(r)] = None]
  /\ cancelled' = cancelled \cup {r}
  /\ Goto(r, "published")
  /\ UNCHANGED <<owner, raced, rows, titling, hasMessages, model>>

\* A panic below processGeneration.  RecoverPanic's cleanup only sends an
\* error event: neither Delete nor cancel runs.
Panic(r) ==
  /\ r \in Runs /\ Working(r)
  /\ Goto(r, "panicked")
  /\ Drop(Self(r))
  /\ UNCHANGED <<activeRequests, owner, cancelled, raced, charges, titling, hasMessages, model>>

---------------------------------------------------------------------------
(* The title goroutine of a run; its context is never cancelled *)

TitleGet(r) ==
  /\ r \in titling /\ ~HoldsRow(Title(r))
  /\ Get(Title(r))
  /\ UNCHANGED <<table, charges, titling, hasMessages, model>>

TitleSave(r) ==
  /\ HoldsRow(Title(r))
  /\ Save(Title(r))
  /\ titling' = titling \ {r}
  /\ UNCHANGED <<table, charges, hasMessages, model>>

\* The provider fails or answers with an empty title.
TitleFails(r) ==
  /\ r \in titling
  /\ Drop(Title(r))
  /\ titling' = titling \ {r}
  /\ UNCHANGED <<table, charges, hasMessages, model>>

---------------------------------------------------------------------------
(* Summarize: called from a goroutine of its own, so its check and its     *)
(* store are two steps                                                     *)

SummarizeCheck(q, s) ==
  /\ pc[q] = "idle" /\ ~IsSessionBusy(s)
  /\ owner' = [owner EXCEPT ![q] = s]
  /\ Goto(q, "checked")
  /\ UNCHANGED <<activeRequests, cancelled, raced, rows, titling, hasMessages, model>>

SummarizeStore(q) ==
  /\ pc[q] = "checked"
  /\ activeRequests' = [activeRequests EXCEPT ![KeyOf(q)] = q]
  /\ Goto(q, "summarizing")
  /\ UNCHANGED <<owner, cancelled, raced, rows, titling, hasMessages, model>>

\* The summary came back: Get the session it is for.
SummaryGet(q) ==
  /\ pc[q] = "summarizing" /\ q \notin cancelled
  /\ owner[q] \in hasMessages
  /\ ~HoldsRow(Self(q)) /\ charges[q] = 0
  /\ Get(Self(q))
  /\ charges' = [charges EXCEPT ![q] = @ + 1]
  /\ UNCHANGED <<table, titling, hasMessages, model>>

\* After the summary message is created: SummaryMessageID and the cost.
SummarySave(q) ==
  /\ pc[q] = "summarizing" /\ q \notin cancelled
  /\ HoldsRow(Self(q))
  /\ Save(Self(q))
  /\ UNCHANGED <<table, charges, titling, hasMessages, model>>

\* Mutant of SummarizeEnd: an error return that skips the Delete.
SummarizeEndWithoutDelete(q) ==
  /\ pc[q] = "summarizing"
  /\ Drop(Self(q))
  /\ cancelled' = cancelled \cup {q}
  /\ Goto(q, "finished")
  /\ UNCHANGED <<activeRequests, owner, raced, charges, titling, hasMessages, model>>

\* The deferred cancel() and Delete, after success or any of the error returns.
SummarizeEnd(q) ==
  /\ pc[q] = "summarizing"
  /\ Drop(Self(q))
  /\ activeRequests' = [activeRequests EXCEPT ![KeyOf(q)] = None]
  /\ cancelled' = cancelled \cup {q}
  /\ Goto(q, "finished")
  /\ UNCHANGED <<owner, raced, charges, titling, hasMessages, model>>

---------------------------------------------------------------------------

\* What a run's goroutine does on its own.
RunStep(r) ==
  \/ ListMessages(r) \/ CreateUserMessage(r) \/ CallOut(r)
  \/ UsageGet(r) \/ UsageSave(r) \/ UsageSaveFails(r)
  \/ Return(r) \/ PublishResult(r)

TitleStep(r) == TitleGet(r) \/ TitleSave(r) \/ TitleFails(r)

SummarizeStep(q) ==
  SummarizeStore(q) \/ SummaryGet(q) \/ SummarySave(q) \/ SummarizeEnd(q)

Next ==
  \/ \E s \in Sessions : Cancel(s)
  \/ \E r \in Runs, s \in Sessions : Run(r, s)
  \/ \E q \in Summaries, s \in Sessions : SummarizeCheck(q, s)
  \/ \E r \in Runs : RunStep(r) \/ CallBack(r) \/ TitleStep(r) \/ Panic(r)
  \/ \E q \in Summaries : SummarizeStep(q)
  \/ Update

\* Goroutines are scheduled and the database answers.  Nobody has to press a key,
\* and nothing makes a provider or a tool come back: permission.go:106 waits without
\* a timeout, gemini.go:367 asks again for ever, transport.go:225 waits for a server.
Fairness == \A r \in Runs : WF_vars(RunStep(r))

Spec == Init /\ [][Next]_vars /\ Fairness

---------------------------------------------------------------------------
(* Properties *)

\* A key of activeRequests points to a request of that session that has not
\* ended (or has panicked): the UI never shows a session busy, and Run never
\* refuses one, for a request that is over.
SlotHeldByLiveRequest ==
  \A k \in Keys : LET r == activeRequests[k] IN
    r # None => /\ KeyOf(r) = k
                /\ Live(r) \/ pc[r] = "panicked"

\* The user can still cancel a run that works on a session, and no second run
\* starts beside it: it owns the session's key.  The deletion by key breaks
\* this once the user sends a message while a cancelled run is winding down;
\* raced holds exactly those sessions.
UncancelledRunHoldsSlot ==
  \A r \in Runs : Live(r) /\ r \notin cancelled /\ owner[r] \notin raced
                    => activeRequests[<<owner[r], "run">>] = r

\* Cancel reaches every run that works on a session.  Without the exception it
\* does not hold: the goroutine of a cancelled run deletes the key of the run
\* that was started after it.
CancelReachesRun ==
  \A r \in Runs : Working(r) /\ r \notin cancelled
                    => activeRequests[<<owner[r], "run">>] = r

\* No usage, title or summary is lost or resurrected: the stored row is the
\* one in-place updates would have given, as long as no two Get-Save windows
\* of the session overlapped (the title goroutine's window spans a model call).
RowExact == \A s \in Sessions \ overlapped : row[s] = ideal[s]

\* agent.Update never swaps the provider under a run that is neither
\* cancelled nor orphaned.
NoModelChangeUnderRun ==
  [][model' # model =>
       \A r \in Runs : Working(r) /\ owner[r] \notin raced => r \in cancelled]_vars

\* A session that nobody cancels is busy for ever only because its run panicked (the
\* key then stays until the user cancels), or because of what the run calls: one
\* call that never comes back, or one after the other without end.
SessionFreed ==
  \A s \in Sessions :
    LET r == activeRequests[<<s, "run">>] IN
    \/ []<>(~IsSessionBusy(s))
    \/ <>[](IsSessionBusy(s) /\ pc[r] = "panicked")
    \/ []<>(IsSessionBusy(s) /\ pc[r] = "calling")

=============================================================================
