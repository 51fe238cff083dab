------------------------------ MODULE LspClient ------------------------------
(***************************************************************************)
(* The client of one language server: its messages over the server's pipes *)
(* (internal/lsp/transport.go), how it is started and how the application  *)
(* shuts it down (lsp/client.go, internal/app/lsp.go, app.go).             *)
(*                                                                         *)
(* Every goroutine writes a message by itself, in two writes and without a *)
(* lock: another's header in between garbles all that follows.  One        *)
(* goroutine reads what the server sends, gives each response to the call  *)
(* that waits for it, and answers the server's own requests.               *)
(*                                                                         *)
(* The pipes never fill.  The server may die at any time; while it lives   *)
(* it may answer each request it has read whole, once, in any order, or    *)
(* keep silent, and it may send what the client cannot read.  What the     *)
(* notifications say is the subject of LspDocuments.                       *)
(***************************************************************************)
EXTENDS Naturals, Sequences

CONSTANTS
  Notifiers,      \* goroutines that send notifications: tools, timers
  ServerRequests  \* the ids of the server's requests

ASSUME ClientAssumption ==
  /\ Notifiers \cap {"start", "main", "watcher", "reader", "nobody"} = {}
  /\ ServerRequests \subseteq Nat

VARIABLES
  kind,       \* detectServerType
  op,         \* what each goroutine is at
  stage,      \* how far it is with the message of op
  handlers,   \* the goroutines whose call has a channel in c.handlers
  result,     \* the response in that channel
  answering,  \* the id of the server's request that the reader answers, or 0
  frame,      \* whose header stdin ends with
  garbled,    \* whether the server can make nothing of stdin any more
  server,     \* "up" or "down"
  asked,      \* the calls it has read and not answered
  stdout,     \* what it has sent and the reader has not read
  sent,       \* its requests so far
  owed,       \* those that are not answered
  opened,     \* whether openFiles has an entry
  registered, \* whether watcherCancelFuncs has the watcher's function
  cancelled,  \* whether that was called
  working,    \* the counter of watcherWG
  published,  \* whether LSPClients has the client
  again       \* whether Shutdown is called once more

calls  == <<handlers, result>>
pipe   == <<frame, garbled>>
peer   == <<server, asked, stdout, sent, owed>>
app    == <<registered, cancelled, working, published, again>>
vars   == <<kind, op, stage, calls, answering, pipe, peer, opened, app>>

Goroutines == Notifiers \cup {"start", "main", "watcher", "reader"}
Callers    == {"start", "main"}

Calls == {"initialize", "symbol", "documentSymbol", "shutdown"}
Notes == {"initialized", "Initialized", "didOpen", "cancelRequest", "note", "response"}
Ops   == Calls \cup Notes \cup
         {"rest", "ping", "walk", "stuck", "failed", "register", "add", "publish", "done",
          "cancel", "wait", "copy", "exited", "read", "ended", "watch"}

Answers   == {"ok", "error"}
Responses == [type : {"response"}, to : Callers, result : Answers]
Requests  == [type : {"request"}, id : ServerRequests]

TypeOK ==
  /\ kind \in {"typescript", "other"}
  /\ op \in [Goroutines -> Ops]
  /\ stage \in [Goroutines -> {"none", "register", "header", "body", "wait"}]
  /\ handlers \subseteq Callers
  /\ result \in [Callers -> Answers \cup {"none"}]
  /\ answering \in ServerRequests \cup {0}
  /\ frame \in Goroutines \cup {"nobody"} /\ garbled \in BOOLEAN
  /\ server \in {"up", "down"}
  /\ asked \subseteq Callers
  /\ stdout \in Seq(Responses \cup Requests)
  /\ sent \subseteq ServerRequests /\ owed \subseteq sent
  /\ {opened, registered, cancelled, published, again} \subseteq BOOLEAN
  /\ working \in {0, 1}

\* Where a goroutine begins with o: a call stores its channel, a notification
\* and a response are written at once, anything else is no message.
First(o) == IF o \in Calls THEN "register" ELSE IF o \in Notes THEN "header" ELSE "none"

Goto(g, o) ==
  /\ op' = [op EXCEPT ![g] = o]
  /\ stage' = [stage EXCEPT ![g] = First(o)]

Proceed(g, s) == stage' = [stage EXCEPT ![g] = s] /\ UNCHANGED op

\* NewClient has started the server, and the reader.
Init ==
  /\ kind \in {"typescript", "other"}
  /\ op = [g \in Goroutines |->
             CASE g = "start" -> "initialize" [] g = "reader" -> "read" [] OTHER -> "rest"]
  /\ stage = [g \in Goroutines |-> First(op[g])]
  /\ handlers = {} /\ result = [g \in Callers |-> "none"]
  /\ answering = 0
  /\ frame = "nobody" /\ garbled = FALSE
  /\ server = "up" /\ asked = {} /\ stdout = <<>> /\ sent = {} /\ owed = {}
  /\ opened = FALSE
  /\ registered = FALSE /\ cancelled = FALSE /\ working = 0 /\ published = FALSE
  /\ again \in BOOLEAN

---------------------------------------------------------------------------
(* What follows a message, sent or answered well or not *)

\* InitializeLSPClient, WaitForServerReady and pingTypeScriptServer for "start".
After(g, ok) ==
  CASE op[g] = "initialize"     -> IF ok THEN {"initialized"} ELSE {"failed"}
    [] op[g] = "initialized"    -> IF ok THEN {"Initialized"} ELSE {"failed"}
    [] op[g] = "Initialized"    -> IF ~ok THEN {"failed"}
                                   ELSE {"ping"} \cup (IF kind = "typescript" THEN {"didOpen"} ELSE {})
    [] op[g] = "didOpen"        -> {"didOpen", "ping"}
    [] op[g] = "symbol"         -> IF ok THEN {"register"}
                                   ELSE IF kind = "other" THEN {"ping"}
                                   ELSE IF opened THEN {"documentSymbol", "walk"} ELSE {"walk"}
    [] op[g] = "documentSymbol" -> IF ok THEN {"register"} ELSE {"documentSymbol", "walk"}
    [] op[g] = "cancelRequest"  -> IF ok THEN {"register"} ELSE {"ping"}
    [] op[g] = "shutdown"       -> {IF again THEN "cancel" ELSE "exited"}
    [] op[g] = "note"           -> {"rest"}
    [] op[g] = "response"       -> {"read"}

\* The message is done with; a call's deferred function removes its channel.
\* Close lets the server end.
Finish(g, ok) ==
  /\ \E o \in After(g, ok) :
       /\ Goto(g, o)
       /\ server' = IF o = "failed" THEN "down" ELSE server
  /\ handlers' = handlers \ {g}
  /\ result' = [c \in Callers |-> IF c = g THEN "none" ELSE result[c]]
  /\ opened' = (opened \/ (op[g] = "didOpen" /\ ok))
  /\ again' = (again /\ op[g] # "shutdown")
  /\ UNCHANGED <<registered, cancelled, working, published>>

---------------------------------------------------------------------------
(* Call, Notify and WriteMessage *)

Register(g) ==
  /\ stage[g] = "register"
  /\ handlers' = handlers \cup {g}
  /\ Proceed(g, "header")
  /\ UNCHANGED <<kind, result, answering, pipe, peer, opened, app>>

WriteHeader(g) ==
  /\ stage[g] = "header" /\ server = "up"
  /\ garbled' = (garbled \/ frame # "nobody")
  /\ frame' = g
  /\ Proceed(g, "body")
  /\ UNCHANGED <<kind, calls, answering, peer, opened, app>>

\* The server reads the message, unless it has lost the frame.
Reads(g) == ~garbled /\ frame = g

\* Mutant of WriteCall: the channel is removed when the request is sent.
WriteCallAndForget(g) ==
  /\ stage[g] = "body" /\ server = "up" /\ op[g] \in Calls
  /\ asked' = IF Reads(g) THEN asked \cup {g} ELSE asked
  /\ frame' = "nobody"
  /\ handlers' = handlers \ {g}
  /\ Proceed(g, "wait")
  /\ UNCHANGED <<kind, result, answering, garbled, server, stdout, sent, owed, opened, app>>

\* The last write of a call: now it waits, whatever becomes of its context.
WriteCall(g) ==
  /\ stage[g] = "body" /\ server = "up" /\ op[g] \in Calls
  /\ asked' = IF Reads(g) THEN asked \cup {g} ELSE asked
  /\ frame' = "nobody"
  /\ Proceed(g, "wait")
  /\ UNCHANGED <<kind, calls, answering, garbled, server, stdout, sent, owed, opened, app>>

WriteNote(g) ==
  /\ stage[g] = "body" /\ server = "up" /\ op[g] \in Notes
  /\ owed' = IF op[g] = "response" /\ Reads(g) THEN owed \ {answering} ELSE owed
  /\ answering' = IF op[g] = "response" THEN 0 ELSE answering
  /\ frame' = "nobody"
  /\ Finish(g, TRUE)
  /\ UNCHANGED <<kind, garbled, asked, stdout, sent>>

\* The pipe is broken.
WriteFails(g) ==
  /\ stage[g] \in {"header", "body"} /\ server = "down"
  /\ answering' = IF op[g] = "response" THEN 0 ELSE answering
  /\ Finish(g, FALSE)
  /\ UNCHANGED <<kind, pipe, asked, stdout, sent, owed>>

Receive(g) ==
  /\ stage[g] = "wait" /\ result[g] # "none"
  /\ Finish(g, result[g] = "ok")
  /\ UNCHANGED <<kind, answering, pipe, asked, stdout, sent, owed>>

---------------------------------------------------------------------------
(* handleMessages *)

Reading == op["reader"] = "read" /\ stdout # <<>>

ReadResponse ==
  /\ Reading /\ Head(stdout).type = "response"
  /\ stdout' = Tail(stdout)
  /\ LET r == Head(stdout) IN
       result' = IF r.to \in handlers THEN [result EXCEPT ![r.to] = r.result] ELSE result
  /\ UNCHANGED <<kind, op, stage, handlers, answering, pipe, server, asked, sent, owed, opened, app>>

\* Mutant of ReadRequest: a request without a handler is passed over.
ReadHandledRequest ==
  /\ Reading /\ Head(stdout).type = "request" /\ Head(stdout).id # 0
  /\ stdout' = Tail(stdout)
  /\ IF op["start"] = "initialized" THEN UNCHANGED <<op, stage, answering>>
     ELSE answering' = Head(stdout).id /\ Goto("reader", "response")
  /\ UNCHANGED <<kind, calls, pipe, server, asked, sent, owed, opened, app>>

\* A request is handled, or its method is unknown, and is answered in any case.
ReadRequest ==
  /\ Reading /\ Head(stdout).type = "request" /\ Head(stdout).id # 0
  /\ stdout' = Tail(stdout)
  /\ answering' = Head(stdout).id
  /\ Goto("reader", "response")
  /\ UNCHANGED <<kind, calls, pipe, server, asked, sent, owed, opened, app>>

\* A request with the id 0 counts as a notification, which nobody handles.
TakeForNotification ==
  /\ Reading /\ Head(stdout).type = "request" /\ Head(stdout).id = 0
  /\ stdout' = Tail(stdout)
  /\ UNCHANGED <<kind, op, stage, calls, answering, pipe, server, asked, sent, owed, opened, app>>

\* ReadMessage fails: at the end of the stream, or at a message of a living server
\* that it cannot read, such as one whose id is a string; or a panic is recovered.
\* The loop returns, and the calls that wait are not told.
ReaderEnds ==
  /\ op["reader"] = "read"
  /\ Goto("reader", "ended")
  /\ UNCHANGED <<kind, calls, answering, pipe, peer, opened, app>>

---------------------------------------------------------------------------
(* The server *)

ServerAnswers(g, r) ==
  /\ server = "up" /\ g \in asked
  /\ asked' = asked \ {g}
  /\ stdout' = Append(stdout, [type |-> "response", to |-> g, result |-> r])
  /\ UNCHANGED <<kind, op, stage, calls, answering, pipe, server, sent, owed, opened, app>>

\* A server makes no request before it is initialized.
ServerAsks(q) ==
  /\ server = "up" /\ q \notin sent
  /\ op["start"] # "initialize"
  /\ sent' = sent \cup {q} /\ owed' = owed \cup {q}
  /\ stdout' = Append(stdout, [type |-> "request", id |-> q])
  /\ UNCHANGED <<kind, op, stage, calls, answering, pipe, server, asked, opened, app>>

ServerDies ==
  /\ server = "up" /\ server' = "down"
  /\ UNCHANGED <<kind, op, stage, calls, answering, pipe, asked, stdout, sent, owed, opened, app>>

---------------------------------------------------------------------------
(* createAndStartLSPClient *)

\* WaitForServerReady asks again, or gives up: between pings only.
Ping ==
  /\ op["start"] = "ping"
  /\ \E o \in {"symbol", "register"} : Goto("start", o)
  /\ UNCHANGED <<kind, calls, answering, pipe, peer, opened, app>>

\* pingTypeScriptServer still holds openFilesMu for reading when OpenFile locks
\* it: the goroutine waits for itself.  Without a file to open it goes on.
Walk ==
  /\ op["start"] = "walk"
  /\ \E o \in {"stuck", "cancelRequest"} : Goto("start", o)
  /\ UNCHANGED <<kind, calls, answering, pipe, peer, opened, app>>

RegisterCancel ==
  /\ op["start"] = "register"
  /\ registered' = TRUE
  /\ Goto("start", "add")
  /\ UNCHANGED <<kind, calls, answering, pipe, peer, opened, cancelled, working, published, again>>

AddToGroup ==
  /\ op["start"] = "add"
  /\ working' = 1
  /\ Goto("start", "publish")
  /\ UNCHANGED <<kind, calls, answering, pipe, peer, opened, registered, cancelled, published, again>>

\* LSPClients, and the watcher's goroutine.
Publish ==
  /\ op["start"] = "publish"
  /\ published' = TRUE
  /\ op' = [op EXCEPT !["start"] = "done", !["watcher"] = "watch"]
  /\ UNCHANGED <<kind, stage, calls, answering, pipe, peer, opened, registered, cancelled, working, again>>

\* Tools, timers and the watcher itself send notifications.
Notify(g) ==
  /\ published /\ op[g] = "rest"
  /\ Goto(g, "note")
  /\ UNCHANGED <<kind, calls, answering, pipe, peer, opened, app>>

\* Mutant of StopWatching: the deferred Done is missing.
StopWatchingSilently ==
  /\ op["watcher"] = "watch"
  /\ Goto("watcher", "done")
  /\ UNCHANGED <<kind, calls, answering, pipe, peer, opened, app>>

\* WatchWorkspace returns when its context is cancelled, or a created file is
\* gone when it is looked at.
StopWatching ==
  /\ op["watcher"] = "watch"
  /\ working' = 0
  /\ Goto("watcher", "done")
  /\ UNCHANGED <<kind, calls, answering, pipe, peer, opened, registered, cancelled, published, again>>

---------------------------------------------------------------------------
(* Shutdown *)

Quit ==
  /\ op["main"] = "rest"
  /\ Goto("main", "cancel")
  /\ UNCHANGED <<kind, calls, answering, pipe, peer, opened, app>>

CancelWatchers ==
  /\ op["main"] = "cancel"
  /\ cancelled' = (cancelled \/ registered)
  /\ Goto("main", "wait")
  /\ UNCHANGED <<kind, calls, answering, pipe, peer, opened, registered, working, published, again>>

WaitForWatchers ==
  /\ op["main"] = "wait" /\ working = 0
  /\ Goto("main", "copy")
  /\ UNCHANGED <<kind, calls, answering, pipe, peer, opened, app>>

\* The interactive program calls Shutdown twice: its cleanup and a defer.
ShutdownClients ==
  /\ op["main"] = "copy"
  /\ Goto("main", IF published THEN "shutdown" ELSE IF again THEN "cancel" ELSE "exited")
  /\ again' = (again /\ published)
  /\ UNCHANGED <<kind, calls, answering, pipe, peer, opened, registered, cancelled, working, published>>

---------------------------------------------------------------------------

Send(g)  == Register(g) \/ WriteHeader(g) \/ WriteCall(g) \/ WriteNote(g) \/ WriteFails(g)
Read     == ReadResponse \/ ReadRequest \/ TakeForNotification
Start    == Ping \/ Walk \/ RegisterCancel \/ AddToGroup \/ Publish
Main     == CancelWatchers \/ WaitForWatchers \/ ShutdownClients
Server   == \E g \in Callers, r \in Answers : ServerAnswers(g, r)

Step ==
  \/ \E g \in Goroutines : Send(g)
  \/ \E g \in Callers : Receive(g)
  \/ \E g \in Notifiers : Notify(g)
  \/ \E q \in ServerRequests : ServerAsks(q)
  \/ Read \/ ReaderEnds \/ Start \/ Main \/ Server \/ ServerDies \/ StopWatching \/ Quit

\* The process ends with main.
Next == op["main"] # "exited" /\ Step

Exited == op["main"] = "exited"

\* Goroutines run, and so read what they can and write what they have; a watcher
\* that is not cancelled may watch for ever.  Nothing makes a server answer.
Fairness ==
  /\ \A g \in Goroutines : WF_vars(~Exited /\ Send(g))
  /\ \A g \in Callers : WF_vars(~Exited /\ Receive(g))
  /\ WF_vars(~Exited /\ Read) /\ WF_vars(~Exited /\ Start) /\ WF_vars(~Exited /\ Main)
  /\ WF_vars(~Exited /\ cancelled /\ StopWatching)

Spec == Init /\ [][Next]_vars /\ Fairness

---------------------------------------------------------------------------
(* Properties *)

\* Where the answer to the call of g is.
UnderWay(g) ==
  \/ g \in asked
  \/ \E i \in DOMAIN stdout : stdout[i].type = "response" /\ stdout[i].to = g
  \/ result[g] # "none"

\* The answer to a call is never lost on the way, whatever else is read and
\* written meanwhile: a call that waits has its channel in the table, and as long
\* as stdin is in order the server has the request or the answer is under way; it
\* arrives while the reader reads.  A server may keep silent, and a message that
\* cannot be read ends the reader.
WaitingIsServed ==
  \A g \in Callers : stage[g] = "wait" /\ server = "up" /\ op["reader"] # "ended" =>
    g \in handlers /\ (UnderWay(g) \/ garbled)

\* Each request of the server is answered in the end; not one with the id 0, and
\* none once a message could not be read.
RequestsAnswered ==
  \A q \in ServerRequests \ {0} :
    q \in owed ~>
      (q \notin owed \/ server = "down" \/ garbled \/ op["reader"] = "ended" \/ Exited)

\* Shutdown has to wait for ever: for an answer nobody will bring, as the server
\* is dead or has not read the request, or the reader is gone; or for a watcher
\* that was registered after all were cancelled.
Stranded ==
  \/ stage["main"] = "wait" /\ (server = "down" \/ garbled \/ op["reader"] = "ended")
  \/ op["main"] = "wait" /\ registered /\ ~cancelled

\* Once the user quits, the program ends, or is stranded in one of these ways, or
\* a living server never answers the shutdown request: the timeout Shutdown gives
\* Call is not looked at.
ShutdownEnds ==
  \/ op["main"] = "cancel" ~> Exited \/ Stranded
  \/ <>[]("main" \in asked)

=============================================================================
