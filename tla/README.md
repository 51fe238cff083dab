# A verification model of opencode

This directory holds TLA+ specifications of the concurrent core of
*opencode* (`src/github-repo`), a terminal assistant that talks to a language
model, lets the model call tools (shell, files, sub-agents, language servers)
and keeps sessions in a database. Every definition translates code of the
repository; `PROJECT.json` maps each one to its lines.

## The system

One process. The TUI's `Update` loop (`internal/tui/tui.go`) reacts to keys and
events one at a time. Everything slow runs in goroutines that are started and
cancelled by the loop, and that talk back through a broker whose subscribers
have bounded, lossy channels.

```
   keys                      Run / Cancel / Summarize / Update
 user ──► TUI Update loop ─────────────────────────────────────► agent (goroutines)
            ▲      │ Grant / Deny                                  │     │
    events  │      ▼                                     messages, │     │ tool calls,
  broker + subscription ◄── permission service ◄── Request ────────┼─────┤ one after
            ▲                                      (tools wait)    │     ▼ the other
            └───────────── sessions, messages (database) ◄─────────┘   tools
                                                         shell │ files │ patch │ agent │ LSP
                                                               history (database)
                       watcher (files on disk) ──► LSP client ──► language servers
```

### Inventory

| Part | State | Operations | Interacts with | Hard because | Correct means |
|---|---|---|---|---|---|
| Request table, `agent.go` | `activeRequests`: key → cancel function; the provider | `Run`, `Cancel`, `Summarize`, `Update`, the goroutines' end, panics | TUI (calls), session rows | `Cancel` frees the key before the goroutine leaves; the goroutine deletes by key; two keys per session | a run can be cancelled while it works, no two work side by side, a session becomes free again, the provider is not swapped under a run |
| Session rows, `session.go` | title, tokens, cost, summary pointer | `Get`, edit, `Save` by run, title goroutine, summary, agent tool | database | no transaction spans Get and Save | no edit is lost or undone |
| Generation loop, `agent.go`, `message/` | stored messages, conversation in memory, the message being streamed, tool results | stream events, tool loop, finish, compaction | provider, tools, permissions | ends in many ways at many points; memory and table are written separately | the conversation sent is well formed and is the stored one; results tell what happened; denial and cancellation stop the run |
| Permissions, `permission.go`, `tui.go`, `dialog/permission.go` | pending channels, session permissions, the one dialog | `Request`, `Grant`, `GrantPersistant`, `Deny` | tools wait; broker; TUI | events lost or late, one dialog for all, answers late and repeated, sends that block the UI | nothing runs without consent, no answer is lost, a request that waits can be answered, the UI does not block |
| Broker and subscriptions, `pubsub/broker.go`, `cmd/root.go` | subscribers, buffers, the UI's channel | `Publish`, `Subscribe`, forwarding, clean-up | every service, TUI | lossy by design; channels closed beside senders | order kept, nothing twice; no send on a closed channel while the program runs |
| Chat, `tui.go`, `page/chat.go`, `components/chat/` | the session held by the application model, the page, the editor and the list; the list of messages; the overlay | keys, messages of commands, events | broker, agent, database | commands overtake each other; an event goes to the page on display only | what is shown is what is stored, one session everywhere, the overlay goes away |
| Shell, `shell.go`, `bash.go` | one process, queue, `isAlive`, `cwd` | `Exec`, poll, timeout, death, replacement | bash tool of all sessions | state is passed through files, bash may hang or die at any point, cancelled commands go on | results are true, one shell, the directory survives, every call returns |
| File tools, `view.go`, `write.go`, `edit.go`, `file.go` | read records; the disk | check, read, ask, write, record | permissions, history, the user's editor | a check long before its write, records shared by sessions | a change nobody has seen is not overwritten |
| File history, `history/file.go` | versions of a file per session | `Create`, `CreateVersion`, `GetByPathAndSession` | file tools, database | order by seconds, numbers from other sessions' rows, bounded retries | a session keeps its initial version and both sides of each change |
| Patch tool, `tools/patch.go`, `diff/patch.go` | the files and what was loaded of them, the commit | check, load, parse, ask, apply, store | as file tools | several files in the random order of maps, may stop half-way; positions and chunks | all or nothing; a file gets what the patch says, and nothing else is overwritten |
| LSP client, `lsp/transport.go`, `client.go`, `app/lsp.go` | `handlers`, the pipes, start and shutdown | `Call`, `Notify`, `handleMessages`, `Shutdown` | servers, watcher, tools | servers die or stay silent; messages in two writes without a lock | calls return, requests are answered, the program ends |
| LSP documents and watcher, `client.go`, `watcher.go` | `openFiles`, versions, timers | `OpenFile`, `NotifyChange`, file events, debouncing, preloading | disk, tools, server | table, file and server are touched in three steps without a lock; timers replace each other | opened once, versions rise, the last change arrives |
| Provider clients, `provider/` | attempts, what has been read of the answer | `stream`, `send`, `shouldRetry` | agent (unbuffered channel), servers | retries, backoff, an answer that breaks off, five clients that differ in all of it | every request ends, as what it was, and what the agent has then is the last answer and nothing else |

`PROJECT.json` lists every component with its status, and the hazards of the
code, each at its line with the properties that cover it.

## The modules

Each component module keeps the order of the code: one action per stretch that
runs without waiting, its guard from the conditions and early returns.
Variables that exist only for the properties are commented `history:`; no
guard reads them but those of the bounds (`MaxTurns`, `MaxPresses`, `MaxUser`,
`MaxFailures`, `MaxOthers` count what has happened). A definition named as the
*mutant* of another is a plausible mistake in that place; it is never part of
the specification, and shows that the property it is paired with in
`PROJECT.json` can fail.

**AgentRequests** — `activeRequests` maps `<<session, "run">>` and
`<<session, "summarize">>` to the request that owns the key. `Run` is one step
(it is called in the `Update` loop); `Summarize` runs in a command of its own,
so its check and its `Store` are two. `RunStep` are the steps of a run's
goroutine: `ListMessages` (which may start the title goroutine),
`CreateUserMessage`, `UsageGet` / `UsageSave`, `Return` (finished, failed or
cancelled) and `PublishResult` (the deletion of the key). `Panic` is
`RecoverPanic`, which leaves the key. A run is "calling" while a provider, a tool or the
user has it: it may stay there for ever. `held` is a row between `Get` and `Save`;
`ideal` is the row had each edit been made in place.

**AgentTurn** — one session's conversation. `messages` is the table, `history`
a run's `msgHistory`, `msg` its `assistantMsg`. The provider is any stream:
`ToolUseStart`, `StreamComplete`, `StreamFails`, `StreamClosedEarly` in any
order the clients can produce; a call of a complete answer may have an input that is
no JSON (`input`), which Anthropic's client does not send. `StopBeforeRequest` and
`RequestFails` are the ways out before the stream, `StoreResultsFails` the tool message
that cannot be created after the tools ran. `StartTool`, `RunTool`, `ToolDenied`,
`ToolNotFound` and `ToolsCancelled` are the tool loop. The user may change the
model between two runs, so the same table may go to any client: `SentCalls` is
what each client's conversion sends of a message's calls, and
`ConversationPaired` is asked of each.

**Provider** — one request to a model. `Call`, `Again` and the steps named after
a client are the loop of `stream` in `anthropic.go`, `openai.go`, `copilot.go`
and `gemini.go` (azure, bedrock and vertexai are made of these), the steps named
`Send...` that of `send`; `event` is what lies on the unbuffered channel.
`Verdicts` is `shouldRetry`. `CreateMessage`, `Receive`, `NextEvent` and `Closed`
are `streamAndHandleEvents` with `processEvent`. The server says anything its
protocol allows and ends with an answer, a status or a broken connection. Copilot's
adapter for Anthropic's models gets calls one after the other (`CopilotCall`) or mixed
up (`CopilotDelta`: several in a delta, one begun again; `CopilotFinish` again), and
`mixed` records it.

**ModelAnswer** is what whoever asks a model may rely on, with no retries, clients
or channels in it: an answer that only grows, a message taken from it part by
part, the completion that finds everything taken, and one end. `Provider`
implements it: `AnswerTaken` is the abstract specification with `answer <- said`,
`message <- msg` and the agent's end as `outcome`. A new attempt is a stutter,
so one made after a part was taken, or a part taken twice, is no step of it.

**Permission** — a request's way: `Request` → `Publish` (bounded channel) →
`Show` (one dialog) → `Press` (a command returns a message) → `Respond` →
`Send` → `Receive` → `Return` (the deferred `Delete`). `update` is where the
`Update` loop stands: while it is "sending" to a full channel the TUI does
nothing else. `Lose` is the drop after two seconds.

**Consent** is what a tool and the user may rely on: who is not free must be
asked (`Ask`), a verdict is given once (`Pass`, `Decide`), and to a request that was
asked about by an answer to it. `Permission` implements it: `ConsentService` is
the abstract specification in which `asked` are the requests that had to ask
(`Asked`: known by where the goroutine is, and when it has returned by the answer)
and `verdict` is what their goroutines have got (`Verdict`). So nobody who was asked
is passed by what another answer has allowed since.

**LossyChannels** is what a subscriber may rely on: of the events offered on a
topic it receives some, each at most once and in order. **Events** is how they
reach the UI: `Publish` copies the subscribers (`publishing`) and offers later,
outside the lock; the subscription's buffer drops what finds it full; a
forwarding goroutine (`sub`, `held`) hands each event to the UI's channel and
gives up after two seconds; `main` is the clean-up of `cmd/root.go`, which
cancels the subscriptions, waits up to five seconds and closes the channel.
`Events` implements `LossyChannels`: `TopicsInOrder` is the abstract
specification with `sent <- offered`, `got <- received`.

**Tui** composes `Events` with the chat: which session the application model
(`selected`), the page (`current`), the editor and the list (`shown`) hold.
`inFlight` are the messages of commands, delivered in any order. `SessionSelected` may
fail to load the messages of the new session, and then shows those of the old one
(`unloaded`). A message goes
to the page on display and only there (`Receive`, `Command`); the agent is a
source of stored versions, events and ends of runs. The steps of `Tui` call
those of `Events` (`Publish`, `Receive`), so that each of its behaviours is one
of `Events` (`ChatUsesEvents`).

**Shell** — `Call` is the bash tool's side, `Process` is `processCommands` and
the poll of `execCommand`, `Reap`/`CloseQueue` the goroutine that waits for the
process. `Make` reads the directory of the shell that is to be replaced, and
`NewPersistentShell` starts the process later. Between `TakeCommand` and `Written` or
`WriteFails` the shell is in `stdin.Write` (`writing`), where no timer runs. bash is external: `BeginCommand`, `FinishCommand`, `Exit`, at any time
or never.

**FileHistory** holds the rows of one file and what the queries and
`createWithVersion` may return; **FileTools** extends it with the tools, the
disk and the read record. `write` and the three forms of `edit` share the
phases check, read, ask, write, history, record; where they differ the action
says so (`MayChange`, `Respond`, `Stored`). One clock serves file times and
seconds of rows; since instants may be equal and only their order matters, a
coarser clock of rows is included.

**Patch** is the algorithm of `diff/patch.go` as operators: `FindContextCore`
with its three comparisons, `FindContext` at the end of a file, `Seek` for
"@@" lines, `ParseUpdateFile`, the cutting of a section into chunks (`Chunk`,
`Collected`) and `GetUpdatedFile` (`Apply`, `ApplyAll`). The loops are recursive
functions of how far they have come. `Described` is the reference they are compared
with, and knows neither chunks nor positions in the new file: each line of the old
one (`Slot`) is left out if a section marks it "-" and followed by what the sections
mark "+" there; `Marked` are the sections' lines, each with how many lines of the
file stand before it. **PatchTool** extends it with the tool: `todo` is what a loop over a map has
left, taken in any order; `Proceed` begins the next loop; `Ask`, `Write`,
`RemoveFile` and `Store` do one file each; a write may fail (`ApplyFails`), and so may each
call to the history (`Store`); others change files in between. The patch tells files apart
by the names it uses (`Paths`), the disk and the history by the absolute path (`absPath`).

**LspClient** — every goroutine is at an operation (`op`) and, while that sends
a message, at a stage of it: the channel is registered, the header is written,
the body is written, the answer awaited. `frame` and `garbled` say what two
writers at once make of stdin. `Read` is `handleMessages`, which leaves also when the
server lives, at a message it cannot unmarshal (`ReaderEnds`), `Start` what
`createAndStartLSPClient` does, `Main` is `App.Shutdown` and the end of the
program, `Server` is external: it reads, answers, asks and dies, or keeps silent.

**LspDocuments** — one file: `disk` is the number of its last change, `text`
what the server has. An operation on the document goes through the table, the
file and the server in separate steps (`Begin` … `Finish`), whoever does it:
tool, timer, preloading goroutine. `Debounce` replaces the timer of a key,
`Fire` takes its entry out of the map and runs.

**AgentRequestsProofs**, **AgentTurnProofs**, **PermissionProofs**,
**ProviderProofs**, **FileToolsProofs**, **EventsProofs** (of Events and Tui),
**ToolProofs** (of Shell and PatchTool) and **LspProofs** (of LspClient and
LspDocuments) extend their components with the theorems. Where two components
are extended by one module the names of the second say so: `PatchSpec`,
`DocumentsSpec`. **MC...** modules give the constants of the `.cfg` files and the
constraints.

How they fit: `AgentRequests` decides which runs exist and overlap; `AgentTurn`
assumes exactly that a run may start when the others have ended or are
cancelled, and takes its streams as `ModelAnswer` says: parts in their order, nothing of an
attempt given up, complete at most once, each call once (that Copilot's adapter may
double one is `Provider`'s subject). They end in any of the ways `Provider`
finds, save the panics, which are `Panic` of `AgentRequests`. A tool call of
`AgentTurn` that asks is a request of `Permission` and relies on `Consent`, a
bash call is an `Exec` of `Shell`, a write or edit is a call of `FileTools`, a
patch one of `PatchTool`, where the permission is an unbounded wait. Requests of
`Permission`, calls of `Shell` and of `FileTools` come in any order and number
the agent can produce, cancelled runs still winding down included. `Permission`
has a queue of its own in place of `Events`: one topic whose buffer may drop and
lose, which is what `LossyChannels` allows. `LspDocuments` takes a server that
lives and reads whole messages in order; what happens otherwise is `LspClient`.

## The runs

| Run | What it asks | Bounds, and why they do |
|---|---|---|
| `agent_requests` | who owns the keys; are rows exact | 2 runs, 1 summary, 1 session, each reads the row once. A key needs two runs to be stolen, a row two writers to be lost; a run's goroutine, its title goroutine and the summary are three. Sessions share only `IsBusy`; the theorems cover any number |
| `agent_cancel` | expected violation, see below | same |
| `agent_turn` | results, finish reasons, pairing for every client, denial, cancellation; memory and table agree across a compaction | 2 runs, 2 calls per answer, 2 requests and a compaction: one call before and one after the denied or cancelled one, one request that follows results or the summary. `FewCalls`: three calls in all; `FewBroken`: one call at most of the complete answers has an input that is no JSON, as one is enough for the clients to differ; `FewAtOnce`: where two runs overlap, so that nothing is said of the conversation any more, no summary is made beside them. 1.9 million states |
| `provider` | how requests end, that they end; what the agent takes of the answer implements `ModelAnswer` | every client, stream and send; 2 retries in place of the 8 of the code: one that is followed by another and one that is the last; 2 deltas of text and 2 calls: one before a break and one after, a call that is repeated, a first and a last call, two calls to mix up. 40,000 states |
| `permission` | the way of a request implements `Consent`; delivery, reachability, the UI resumes | 3 requests: two of one scope, one of another session; a channel of 2, 3 answers (a channel of capacity one blocks at the third, or at the second while the waiter has not taken the first) |
| `permission_timeout` | expected violation | a channel of 1, 1 answer |
| `tui` | what is shown, one session, the overlay; the way of events implements `LossyChannels` | 2 sessions, 2 stored versions, 3 inputs, buffers of 1. `FewEvents`: two events on their way (one fills each buffer, the next is dropped). `ShortLives`: the program ends after at most one input, as the end does not depend on more, and a session whose messages could not be loaded is left again after at most one input more. 1.2 million states |
| `shell` | truth of results, one shell, directory, return | 3 commands (running, queued, blocked at a queue of 1), 2 shells, 2 directories. `InOrder`: the calls begin in one order, as they differ in nothing; `LastStays`: the shell that the bound on shells lets nobody replace does not die. 240,000 states |
| `files` | unseen changes are kept, both sides and the initial version are stored | 2 calls, 1 view, 2 sessions, the 3 attempts of the code, one database failure, one change by others, 2 instants. `FewAtOnce`: others change the file beside one session, or two sessions and the failing database come without others; a session's history does not read the record, and the record knows no session. 1.2 million states |
| `patch` | the algorithm against its description; all or nothing; what is overwritten; the history | every update of one section of up to three lines or two of up to two, at the end or not, on four files of one to three lines (two equal lines, one with white space): long enough for a context that is found at the wrong place, for touching sections and for sections longer than the file; patches of two files, the first of which has two names, that add, delete, update, move onto and from each other and themselves, with one change by others (`Alone`: only where a patch names the second file) and a history any of whose calls may fail. 180,000 states |
| `lsp_client` | what becomes of calls, requests and the shutdown | 1 goroutine that notifies beside start, main, watcher and reader; requests with the ids 0 and 1, a message that cannot be read at any time; one or two calls of Shutdown. 210,000 states |
| `lsp_documents` | the server's text and the protocol | 2 further changes of the file, a tool, two timers (one that fires while the next waits), the preloading goroutine. `FewVersions`: three versions sent, one more than it takes to swap two. 1 million states |

`CHECK_DEADLOCK FALSE` stands in every configuration because every bounded
system stops: the requests, calls and answers are used up.

Bounds that are constants: `MaxCharges`, `MaxUpdates` (AgentRequests),
`MaxCalls`, `MaxTurns` (AgentTurn), `BufferSize`, `MaxPresses` (Permission),
`BufferSize`, `OutputSize`, `MaxSessions`, `MaxWrites`, `MaxInputs` (Tui),
`MaxShells`, `QueueSize` (Shell), `MaxNow`, `MaxUser`, `MaxFailures` (FileTools),
`MaxOthers` (PatchTool), `MaxChanges` (LspDocuments), `MaxRetries` (a constant of
the code), `MaxTexts`, `MaxCalls` (Provider). `Requests`, `Runs`,
`Execs`, `Calls` are used once each. In `MCFileTools` calls and sessions, in
`MCLspDocuments` tools and timers are symmetric: nothing in the specification
names one, and these runs check no liveness.

The type invariant of every component is proved (below) and not checked again by
a run; adding it to a configuration checks it, for whoever changes a module.

### Properties that hold with an exception

Some properties name a condition under which the code does not keep them. Each
condition is a history variable, or a state, that says precisely what has
happened:

- `raced` (AgentRequests): a run was started while a cancelled one of the
  session was still winding down. `CancelReachesRun` is the property without the
  exception, and is violated.
- `overlapped`: two Get–Save windows of one row overlapped. The title
  goroutine's window spans a model call, so this is the normal case of a first
  message that uses tools; the row then loses an edit.
- `disturbed`, `cut`, `unstored` (AgentTurn): requests of one session overlapped, or a
  turn ended with calls unanswered that the client in question sends, or with results
  of calls it does not send; a run could not store how its message ended; a run could
  not create the tool message after its tools ran.
- "calling" (`SessionFreed`): the run that has the session waits for a provider, a tool
  or the user. Nothing in the code bounds that wait, and a cancellation does not end it;
  it frees the key, which is another disjunct.
- The disjuncts of `RetriesEnd` and `EndsAsItWas` (Provider) name the clients and
  the ends for which the code does not keep them; they are listed below. `mixed`: the
  calls reached Copilot's adapter in another way than one after the other. An error of
  the database behind the complete answer is an end of its own.
- `crowded`, `slow`, repeated presses (Permission): two requests waited at
  once, an event was lost, a dialog was answered twice.
- `unseen`, `unloaded`, `raced`, `refused`, `dropped` (Tui): a message event came while
  the log page was shown; the messages of the session could not be loaded; the user went on while a change of session was under way;
  Summarize refused what the overlay was put up for; an event was dropped.
- `raced`, `unsettled` (Shell): two calls found no live shell at the same time; a call
  read the directory of the dead shell before the result of its last command was in.
  `ExecReturns` excepts the calls whose shell is in `stdin.Write` for ever.
- `failed`, `together`, `FarBehind` (FileTools): an error of `CreateVersion` was
  only logged (one of `Create` ends the call with an error, and leaves the changed file
  without a row); two calls of one session at the history at once; a row from which numbers are counted so far behind that the attempts
  run out.
- `touched`, `Meet`, `unstored` (PatchTool): others changed a file after the check; a
  file has two names in the patch, or moves to where another change is, or to where it
  is itself; a version could not be stored. "failed": a file could not be written or
  removed, and the patch is half done.
- `garbled`, a dead server, a reader that has ended, `Stranded`, `"main" \in asked`
  (LspClient): a header was written between header and body of another message; the
  reader met a message it could not unmarshal; Shutdown waits for an answer nobody will
  bring, for one the living server keeps to itself, or for a watcher registered after
  all were cancelled.
- `overlapped`, `excused` (LspDocuments): two operations on the document were
  under way at once; the file was replaced by a rename, or the server does not
  want its changes.

### What the violated properties show

1. `agent_cancel` — `activeRequests.Delete(sessionID)` at the end of a run
   deletes whoever owns the key (`agent.go:224`). Cancel, send again at once:
   the second run can no longer be cancelled, and a third may start beside it.
2. `permission_timeout` — "Wait for the response with a timeout"
   (`permission.go:105`) has no timeout: a replaced request waits for ever.

### What else the models show

- The `break` after a denial leaves only the `select` (`agent.go:410`): the loop
  goes on with the calls it has just marked as canceled, and runs them. Their
  results are then overwritten by the true ones, so that `ResultsTruthful` holds,
  and nothing more is sent (`NoRequestAfterDenial`).
- Copilot exchanges an expired token for a new one, which reaches the options but
  not the SDK's client: every further attempt is refused as well. Its `send` counts
  no attempts for that status and goes on for ever; its `stream` gives up after
  them with an error that is nil, at which the agent panics.
- Gemini's `stream` begins anew, at once and however often, when the server ends
  without any response; the `break` of its backoff leaves the `select` only, and
  the program crashes at the response it has not got. Its `send` keeps the last
  part of a text.
- OpenAI's and Copilot's clients take the first choice of an answer that may have
  none. Cancelled while they wait, they close the channel without an event, and
  the agent takes that for an answer; so it does when Anthropic's stream ends
  without its last event.
- A patch that moves a file to its own path loses it: `ApplyCommit` writes the new
  content and then removes the file (`diff/patch.go:636`). The exception `Meet`
  had overlooked that case, and the proof of `AllOrNothing` did not go through.
- Copilot's adapter for Anthropic's models looks at the first call of a delta, drops
  arguments that come for an id it has met, and appends the last call again at a second
  finish: calls are lost or doubled unless they come one after the other.
- `TrackUsage` runs after the complete message is stored, so that with every client a
  run may end with an error whose answer is complete.
- A patch that names one file twice, relatively and absolutely, passes the check for
  duplicates; both changes are made of the same old content, the second undoes the
  first, and the call reports both.
- A patch succeeds without versions when the history fails: its errors are logged.
- A session whose messages cannot be loaded shows those of the session before, and
  choosing it again loads nothing, since it is the one shown.
- One command behind a bash that does not read keeps `execCommand` in the write, with
  no timer running, and all calls queued behind it.
- One message of a server that does not unmarshal, a request with a string as its id
  for instance, ends the reader: no call is answered any more, and Shutdown waits for
  ever for a server that lives.
- A client whose reader has left stays at its channel for ever: nothing on the
  goroutine's side looks at the context while it offers an event.

## Fairness

- AgentRequests: weak fairness of the steps of each run's goroutine that wait for
  nobody. Nothing makes a provider or a tool return (`permission.go:106`,
  `gemini.go:367`, `lsp/transport.go:225` and `diff/patch.go:213` may keep it for
  ever), so a call may stay out. The title goroutine, summaries and the user owe nothing.
- Permission: weak fairness of the `Update` loop and of each waiting goroutine;
  none of the user's keys. `RequestEnds` would follow from a timeout alone.
- Shell: weak fairness of the callers, of `processCommands` with its timer, of
  the goroutine that waits for the process, and of a write once bash is gone or has
  come to the command (`WriteEnds`); none of bash, which need not read. `ExecReturns`
  therefore rests on the timeout alone, which `bash.go` sets for every command and
  which begins after the write.
- Provider: weak fairness of the client's loop and of its reader: both are
  goroutines, the timers of the backoff fire, and a server answers, in some way, or
  its connection breaks (the SDKs' calls end). Nothing makes a server answer well.
- LspClient: weak fairness of each goroutine's sends and receives, of the
  reader, of start and of main, until the program has ended; and of the watcher once
  it is cancelled, as its loop selects on the context. Nothing makes the server live,
  read or answer, or the user quit.
- AgentTurn, Events, Tui, FileTools, PatchTool, LspDocuments: only safety is
  checked. The abstract specifications (`LossyChannels`, `Consent`, `ModelAnswer`)
  state no fairness: a lossy channel owes nothing, a user need not answer, and what a
  request is owed is said by `RetriesEnd` and `CancelEnds`.

## What is proved

TLAPS checks the theorems for every value of the constants, from the assumptions
named in the modules: goroutines of different roles are different, `None` and
the like are none of the values they stand beside, bounds and capacities are
naturals, the text of a patch, its sections and the contents of files are
sequences, each line of a section has one of three marks. That is what the code gives them by
the types of its values; no assumption speaks of a state.

**AgentRequestsProofs.** `TypeInv` adds `Owned` to the types: whatever has
started has a session, and a row in hand belongs to a request that has started.
`SlotInv` joins `SlotHeldByLiveRequest`, `UncancelledRunHoldsSlot` and
`CancelledRunLeftAlone`. The middle one is not inductive: a run that ends
deletes its key, and that is its own key only if no cancelled run lives beside
an uncancelled one outside `raced`, which is what the third conjunct says.
`RowInv` joins `RowExact` with `RowHeldOnce`: outside `overlapped` a row has at
most one writer, who holds what is stored, so his `Save` is an edit in place.
Results: `TypeCorrect`, `SlotsAreLive`, `RunsHoldSlots`, `ExclusiveRuns` (two
uncancelled runs never share a session, outside `raced`), `ModelStable`,
`RowsAreExact`.

**AgentTurnProofs.** `Typed` adds to the types where a run is (`Position`: the ids
of the calls in hand are those of its own message, which answers nothing), how
far its results are (`Progress`) and that two runs never hold one message
(`Apart`); each action keeps it, lets the table only grow and leaves the other
runs alone (`Grows`, `Only`). `ResultsTruthful` is not inductive: that a call
answered as canceled has not run, and never will, needs that no run works on a
message whose results are stored (`Settled`), that the results in hand are true
already and cancel everything from the loop's call on (`LocalTrue`), that nothing
ahead of the loop has run (`Ahead`), and that what has run is stored, still in
the hands of its run, or was lost with a tool message that could not be created
(`Kept`, `Holding`): `TruthInv`. `DenialInv` says that a message with a
denied call is still in the tool loop, with a finish that ends the run; so at the
head of the loop nobody has one. `FinishInv` follows the finish of a message from
the end of its stream. `HistoryInv` says of each place in the loop how the conversation in memory and the
table differ there (`HistoryOf`): not at all at its head, by the message being made
while a run is busy; that holds as long as one run works at a time and none beside
a summary (`Alone`), which `disturbed` records. `PairedInv` says for each client that
the table is paired up to the message being made and that what the run sends is
paired (`PairedUpTo`, `PairedOf`); it rests on `HistoryInv`, and on `Typed` and
`TruthInv` for the ids of the calls and of the results in hand.
Results: `TypeCorrect`, `StoredResultsTruthful`, `DeniedTurnAsksNothing`,
`EndedMessagesFinished`, `HistoryStored`, `ConversationStaysPaired`.

**ProviderProofs.** `AnswerComplete` and `EndsAsItWas` speak of the end only, so
`RequestInv` says what holds on the way: a wait to ask again has its reason, and
before a new attempt nothing was said (`Waits`); the event on the channel is true
(`Announced`); what the client has collected of the calls (`Collected`) and what the
agent and the event hold of the text (`TextKept`) is what this attempt of the server
said; a message is complete only when the answer was, after which nothing but a
broken end can come (`Finished`); `Outcome` is the two properties and that the ends
stay. The refinement `ImplementsModelAnswer` needs three facts more (`TakenInv`):
behind a complete message only Anthropic's stream is still read, to its end
(`StaysComplete`); a request that is not a stream has taken nothing before its reply
(`SendQuiet`); the calls of Anthropic's stream are taken one by one, each before the
next is made (`CallsTaken`). A step is then one of the server's (`Say`), one of the
reader's (`TakeText`, `TakeCall`, `Complete`), a reply, an end, or, with all the steps
that ask again, nothing. `AnswerComplete` is an invariant of `ModelAnswer`, so the run
checks the refinement in its place; `CompleteHasAll` is needed to prove it.
Results: `TypeCorrect`, `CompleteHasAll`, `EndsTold`, `ImplementsModelAnswer`.

**PermissionProofs.** `TypeInv` adds that the answers are finitely many (their
numbers are cardinalities) and that a dialog on the screen holds a request.
`ConsentInv` follows an answer along its way: what is under way was pressed
(`UnderWayPressed`), what a channel holds is the user's answer to that request
(`ChannelsHonest`), what is remembered was allowed for that scope
(`PermissionsGiven`); `AnswersAreTheUsers` is inductive beside these. `DeliveryInv`
says that a waiting request is in the map (`Registered`), so no answer finds it
missing, and that an answer not yet received is under way (`Delivered`).
`ReachInv` says that while requests come one at a time and answers once
(`Untroubled`), the event of a waiting request is the only one (`EventFresh`), an
answer on its way finds its request waiting (`AnswerAwaited`), a dialog nobody has
answered is that of a waiting request (`DialogAwaited`), and so a request nobody has
answered is on its way or on the screen (`Visible`); with `DeliveryInv` that gives
`WaitingIsReachable`.
The refinement `ImplementsConsent` rests on `ConsentInv` and on one fact more
(`PutToUser`): a request whose event is under way, or that is on the screen, has not
passed unasked, and one that is allowed has an answer. A press is then an answer to
a request that was asked about. `Request` maps to `Pass` or `Ask`, `Press` to
`Answer`, `Remember` to `Remember`, `Receive` to `Decide`; publishing, the
screen, lost events, sends that block and the goroutine's return are stutters. `AnswersAreTheUsers` is an invariant of
`Consent`, so the run checks the refinement in its place.
Results: `TypeCorrect`, `ConsentGiven`, `AnswersArrive`, `WaitingReached`,
`ImplementsConsent`.

**EventsProofs.** The refinement: `ImplementsLossyChannels` says that every
behaviour of `Events` is one of `LossyChannels` (`TopicsInOrder`). A step that
receives an event maps to `Receive` only if its number lies between the last one
received and the last one offered, which is not visible in the channel's head
alone; `OrderInv` (theorem `InOrder`) therefore says of everything under way on a
topic, in the buffer, in the forwarding goroutine's hands and in the UI's channel,
that its numbers rise and lie behind what was received. `NoEarlyPanic` rests on
`TeardownInv`: no channel is closed before the program has ended.

For the chat, `ChatUsesEvents`: `Spec => EventsSpec`, a step of it is one
of the brokers or leaves them alone. With it both results carry over to the
composition: `ChatReceivesInOrder`, `ChatNoEarlyPanic`. The chat's own properties
rest on it too. `SessionInv`: a change of session comes alone, finds the chat page,
and leaves the parts apart only while it is under way. `OverlayInv`: while the
dialog of a summary is up, the summary is asked for, or runs, or its end is
somewhere on the way of the topic. `ScreenInv`: every version announced was stored
(`AnnouncedStored`), what is under way of one message is in the order of its
versions (`InVersions`, from the order of the topic) and ends with the last
(`LastOnWay`), the list has each message once (`ListSound`), and what it lacks is on
its way (`ListFollows`). Results: `ChatTypeCorrect`, `SameSession`, `OverlayGoes`,
`ScreenShowsStored`.

**ToolProofs, the shell.** `Typed` adds that a call that got a shell has one. `OneMaker`
strengthens `OneLiveShell`: outside `raced` one call at most makes a shell, and
none is alive while it does. `CommandInv` follows a command: before it is sent it
is nowhere; a waiting one is in its shell's queue or with `execCommand`, in one
place and once (`Queued`); what was sent and has not begun is in one input,
once, and awaited or interrupted (`Sent`); what has begun was awaited, and its
status file is there only when it has ended (`Evaluated`); a process that has ended
reads nothing (`Dead`). From these
`ResultsTrue` and `WorksForSomebody`: neither is inductive alone, since a refused
command could otherwise still lie in bash's input. `DirectoryStays`: of every shell, unless one
of its results was given up, `cwd` is where bash is, or the result that will say so
is on its way (`Follows`); and a call that replaces a shell alone and read the
directory when no result was to come has read just that (`ReadWhere`).

**ToolProofs, the patch tool.** `CommitInv` says that the changes are those of the
patch's hunks; `AllowedInv` that nothing is written before each file is allowed;
`MovingInv` that one file at most is at both its places; `MadeInv` that a file whose
turn is over is as the patch says, where neither others nor another change of the
patch interfere, under whatever name: `PatchAllOrNothing`. `ReadInv` says loop by loop that what was
checked is still as it was read and loaded, and that nothing is where a file is
added: `PatchOverwritesRead`. `StoredInv` does the history: `PatchBothSides`. Also
`PatchTypeCorrect`.

**ToolProofs, the patch algorithm.** `UpdatedAsDescribed` is about operators, for every
file and all sections of any length: if the places a patch was parsed to fit the file
(`UpdateFits`: each section is where its old lines fit, and behind the one before),
`GetUpdatedFile` returns `Described`, and never refuses a chunk. Line by line of the
sections, `Good` says what the loop has in hand: the chunks so far applied to the file,
the one not yet complete applied too, are the slots of the lines passed (`Agree`), and
the position in the old file is where the section is. `GoodStep` does one line, by what
it is marked, `GoodPlace` a section after another. That what `ParseUpdateFile` accepts
fits is `SectionFits`, from what the three comparisons find (`CoreFits`,
`ContextFits`) and that `Seek` never goes back (`SeekFits`). `PatchUpdates` is then the
property of the tool: `LoadedInv` says that what is loaded is a sequence and stays as it
was parsed against, `UpdatesInv` that every change to be made is what
`GetUpdatedFile` made of it.

These are inductions over sequences. The library states induction with an operator as
a parameter, which the provers cannot instantiate; here it is stated of a set
(`AllNumbers`: a set of naturals with 0 and with n + 1 for each n is all of them;
`UpTo`, the same up to a bound), which follows from the least-element fact
`WFMin` of the order of the naturals, a fact without an operator parameter. In the same
way `Iterates` gives the recursive functions their equations, by constructing one
that satisfies them.

**FileToolsProofs.** `UnseenStays`: while something is unseen the file's time is
behind the read record, so no call or view is past its check (`UnseenInv`).
`InitialKept`: a session has its initial version as soon as it has any, because
`createWithVersion` tries that number first (`InitialFirst`), and a call past its
lookup has it (`CallInitial`). `BothSidesKept`: `SidesInv` says of a call at the
history what of its two sides is there so far (`Sides`), that two calls of one
session there have been noticed (`Met`), and that the number in hand comes from a row
no older than the session's own (`Counted`); if all the attempts from such a number
are taken, that row is as far behind as `FarBehind` says (lemma `NoneLeft`).

**LspProofs, the client.** `WaitingServed`: `ServedInv` says of each caller that its
channel is in the table from its registration until it has its answer
(`HasChannel`), that once its message is whole the answer is owed, on its way or
in the channel (`HasAnswer`), and that a header written last belongs to a goroutine
that writes its body next (`HeaderIsLast`); all that as long as the server lives and
the reader has met nothing it cannot unmarshal.

**LspProofs, the documents.** `ProtocolHolds`: while no two operations have overlapped,
one goroutine at most is between its look-up and its end (`Alone`), its step says
how table and server differ (`Progress`), and at rest they agree (`Agree`).
`LastChangeSeen`: a timer in the map is in use and for its key (`TimersMapped`);
while the watcher lives and nothing is excused, either the last change is coming, as
an event or with a timer (`Coming`), or the operation under way has read the file as
it is (`UpToDate`) and at rest the server has it (`Followed`). One operation at a time
(`Alone`) is needed here too: of two, the one that read first may be sent last.

The type invariant is proved for every component; for Events it is part of `OrderInv`.

Every invariant and every action property of the passing runs is a theorem. Only
model-checked: every liveness property (`SessionFreed`, `UpdateResumes`,
`ExecReturns`, `RequestsAnswered`, `ShutdownEnds`, `RetriesEnd`, `CancelEnds`), because
the prover does not reason about fairness and ENABLED. No module declares a RECURSIVE
operator.

## Not modelled

- The text of messages, commands, files and diffs: messages keep calls, results
  and finish reasons, files are sets or short sequences of lines, commands keep
  where they end.
- More than one path in FileTools and LspDocuments (calls for different paths
  share locks, not data) and reading limits of `view`: a partial view records the
  whole file as read, as the model's view does.
- Data races on `isAlive`, `sessionPermissions` and `mcpTools`: reads and writes
  of one word or slice header are taken as atomic.
- Killing the children of bash (`killChildren`): that it ends a command is one
  of the things bash may do, that it ends background jobs of other commands is
  not seen by any property.
- A process crash: sessions and messages survive it row by row, and nothing is
  repaired at the next start; `ConversationPaired` says of the states
  without a run what a restart finds.
- The SDKs of the providers: a status comes before anything of an answer, a stream
  that has begun breaks off without a status (Gemini's alone may end with one), and
  a call whose context is cancelled fails. How long the backoff is, and the
  conversion of messages into a request but for which calls it sends.
- In the file tools: a change by others that gives the file an older time (a copy that
  keeps its times), which no check of the modification time can notice.
- LSP: the restart of a client after a panic of its watcher, the table of
  diagnostics and its handlers, pipes that fill up (a server that stops reading
  is one that does not answer), `CloseFile`, which only a shutdown reaches, and the
  edits of `util/edit.go`, which only a server's `workspace/applyEdit` reaches.
- In the patch tool: paths outside the working directory, the report.
- TUI: dialogs but for what they return, custom commands, the choice of files and
  models, rendering, layout and themes. Prompts, completions, formats,
  configuration, read-only tools, generated code: see `PROJECT.json` for the
  reason of each.

## Plan

What could come next, in this order:

1. The queue of Permission replaced by `Events`, so that both share one broker.
2. The run of AgentTurn composed with `ModelAnswer` in one module.
3. The diagnostics of LspDocuments and the tool that waits for them.
