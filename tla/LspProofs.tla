------------------------------ MODULE LspProofs ------------------------------
(***************************************************************************)
(* Proofs about the language servers.                                      *)
(*                                                                         *)
(* LspClient, for any goroutines that notify and any requests of the       *)
(* server: as long as the server lives and stdin is in order, no answer to *)
(* a call is lost on its way.                                              *)
(*                                                                         *)
(* LspDocuments, for any tools, timers, registrations and number of        *)
(* changes: operations on a document that do not overlap keep the          *)
(* protocol, and the last change arrives.                                  *)
(***************************************************************************)
EXTENDS LspClient, LspDocuments, TLAPS

\* What each goroutine can be at.
OpsOf(g) ==
  CASE g = "start"   -> {"initialize", "initialized", "Initialized", "didOpen", "symbol",
                         "documentSymbol", "cancelRequest", "ping", "walk", "stuck", "failed",
                         "register", "add", "publish", "done"}
    [] g = "main"    -> {"rest", "cancel", "wait", "copy", "shutdown", "exited"}
    [] g = "watcher" -> {"rest", "watch", "done"}
    [] g = "reader"  -> {"read", "response", "ended"}
    [] OTHER         -> {"rest", "note"}

\* How far it can be with that.
StagesOf(o) ==
  IF o \in Calls THEN {"register", "header", "body", "wait"}
  ELSE IF o \in Notes THEN {"header", "body"} ELSE {"none"}

Fits(g) == op[g] \in OpsOf(g) /\ stage[g] \in StagesOf(op[g])

StageFits == \A g \in Goroutines : Fits(g)

Typed == TypeOK /\ StageFits

\* Every goroutine's operations are operations, and only callers call.
LEMMA OpsFit ==
  ASSUME NEW g \in Goroutines, NEW o \in OpsOf(g)
  PROVE  o \in Ops /\ First(o) \in StagesOf(o)
         /\ First(o) \in {"none", "register", "header"} /\ (o \in Calls => g \in Callers)
BY DEF Goroutines, OpsOf, Ops, Calls, Notes, First, StagesOf, Callers

\* A goroutine that begins with one of its operations fits it.
LEMMA GotoFits ==
  ASSUME Typed, NEW g \in Goroutines, NEW o \in OpsOf(g), Goto(g, o)
  PROVE  /\ op' \in [Goroutines -> Ops]
         /\ stage' \in [Goroutines -> {"none", "register", "header", "body", "wait"}]
         /\ StageFits'
<1>1. o \in Ops /\ First(o) \in StagesOf(o) /\ First(o) \in {"none", "register", "header"}
  BY OpsFit
<1>2. op' = [op EXCEPT ![g] = o] /\ stage' = [stage EXCEPT ![g] = First(o)]
  BY DEF Goto
<1>3. ASSUME NEW h \in Goroutines PROVE Fits(h)'
  <2>1. CASE h = g BY <1>1, <1>2, <2>1 DEF Typed, TypeOK, Fits
  <2>2. CASE h # g BY <1>2, <2>2 DEF Typed, TypeOK, StageFits, Fits
  <2>. QED BY <2>1, <2>2
<1>. QED BY <1>1, <1>2, <1>3 DEF Typed, TypeOK, StageFits

\* So does one that gets further with its message.
LEMMA ProceedFits ==
  ASSUME Typed, NEW g \in Goroutines, NEW s \in StagesOf(op[g]), Proceed(g, s)
  PROVE  /\ op' \in [Goroutines -> Ops]
         /\ stage' \in [Goroutines -> {"none", "register", "header", "body", "wait"}]
         /\ StageFits'
<1>1. s \in {"none", "register", "header", "body", "wait"}
  BY DEF StagesOf
<1>2. op' = op /\ stage' = [stage EXCEPT ![g] = s]
  BY DEF Proceed
<1>3. ASSUME NEW h \in Goroutines PROVE Fits(h)'
  <2>1. CASE h = g BY <1>2, <2>1 DEF Typed, TypeOK, StageFits, Fits
  <2>2. CASE h # g BY <1>2, <2>2 DEF Typed, TypeOK, StageFits, Fits
  <2>. QED BY <2>1, <2>2
<1>. QED BY <1>1, <1>2, <1>3 DEF Typed, TypeOK, StageFits

\* What follows a message is an operation of the same goroutine, and never the
\* end of the reader.
LEMMA AfterFits ==
  ASSUME Typed, NEW g \in Goroutines, op[g] \in Calls \cup Notes, NEW ok \in BOOLEAN,
         NEW o \in After(g, ok)
  PROVE  o \in OpsOf(g) /\ o # "ended"
<1>1. op[g] \in OpsOf(g)
  BY DEF Typed, StageFits, Fits
<1>2. g \in Notifiers => OpsOf(g) = {"rest", "note"}
  BY ClientAssumption DEF OpsOf
<1>3. CASE g = "start"
  BY <1>1, <1>3 DEF OpsOf, Calls, Notes, After
<1>4. CASE g = "main"
  BY <1>1, <1>4 DEF OpsOf, Calls, Notes, After
<1>5. CASE g \in {"watcher", "reader"} \cup Notifiers
  BY <1>1, <1>2, <1>5 DEF OpsOf, Calls, Notes, After
<1>. QED BY <1>3, <1>4, <1>5 DEF Goroutines

\* A message that is done with keeps the types.
LEMMA FinishFits ==
  ASSUME Typed, NEW g \in Goroutines, op[g] \in Calls \cup Notes, NEW ok \in BOOLEAN,
         Finish(g, ok)
  PROVE  /\ op' \in [Goroutines -> Ops]
         /\ stage' \in [Goroutines -> {"none", "register", "header", "body", "wait"}]
         /\ StageFits'
         /\ handlers' \subseteq Callers
         /\ result' \in [Callers -> Answers \cup {"none"}]
         /\ server' \in {"up", "down"}
         /\ {opened', registered', cancelled', published', again'} \subseteq BOOLEAN
         /\ working' \in {0, 1}
<1>1. PICK o \in After(g, ok) : Goto(g, o) /\ server' = IF o = "failed" THEN "down" ELSE server
  BY DEF Finish
<1>2. o \in OpsOf(g)
  BY AfterFits
<1>3. /\ op' \in [Goroutines -> Ops]
      /\ stage' \in [Goroutines -> {"none", "register", "header", "body", "wait"}]
      /\ StageFits'
  BY <1>1, <1>2, GotoFits
<1>4. handlers' \subseteq Callers /\ result' \in [Callers -> Answers \cup {"none"}]
  BY DEF Finish, Typed, TypeOK
<1>5. server' \in {"up", "down"}
  BY <1>1 DEF Typed, TypeOK
<1>6. {opened', registered', cancelled', published', again'} \subseteq BOOLEAN /\ working' \in {0, 1}
  BY DEF Finish, Typed, TypeOK
<1>. QED BY <1>3, <1>4, <1>5, <1>6

\* A message that is being written or waited for is a message.
LEMMA StagedMessage ==
  ASSUME Typed, NEW g \in Goroutines, stage[g] # "none"
  PROVE  op[g] \in Calls \cup Notes
BY DEF Typed, StageFits, Fits, StagesOf

\* Types hold at first.
LEMMA InitTyped == Init => Typed
<1> SUFFICES ASSUME Init PROVE Typed
  OBVIOUS
<1>1. ASSUME NEW g \in Goroutines
      PROVE  op[g] \in OpsOf(g) /\ stage[g] = First(op[g])
  <2>1. op[g] = CASE g = "start" -> "initialize" [] g = "reader" -> "read" [] OTHER -> "rest"
    BY DEF Init
  <2>2. stage[g] = First(op[g])
    BY DEF Init
  <2>. QED BY <2>1, <2>2 DEF OpsOf
<1>2. StageFits
  BY <1>1, OpsFit DEF StageFits, Fits
<1>3. op \in [Goroutines -> Ops]
  <2>1. DOMAIN op = Goroutines /\ op = [g \in Goroutines |-> op[g]]
    BY DEF Init
  <2>. QED BY <1>1, <2>1, OpsFit
<1>4. stage \in [Goroutines -> {"none", "register", "header", "body", "wait"}]
  <2>1. stage = [g \in Goroutines |-> First(op[g])]
    BY DEF Init
  <2>. QED BY <1>1, <2>1, OpsFit
<1>5. TypeOK
  <2>1. stdout \in Seq(Responses \cup Requests)
    BY DEF Init
  <2>2. result \in [Callers -> Answers \cup {"none"}]
    BY DEF Init
  <2>3. {opened, registered, cancelled, published, again} \subseteq BOOLEAN /\ garbled \in BOOLEAN
    BY DEF Init
  <2>4. kind \in {"typescript", "other"} /\ handlers \subseteq Callers /\ answering \in ServerRequests \cup {0}
    BY DEF Init
  <2>5. frame \in Goroutines \cup {"nobody"} /\ server \in {"up", "down"} /\ asked \subseteq Callers
        /\ sent \subseteq ServerRequests /\ owed \subseteq sent /\ working \in {0, 1}
    BY DEF Init
  <2>. QED BY <1>3, <1>4, <2>1, <2>2, <2>3, <2>4, <2>5 DEF TypeOK
<1>. QED BY <1>2, <1>5 DEF Typed

\* Writing keeps the types.
LEMMA SendTyped ==
  ASSUME Typed, NEW g \in Goroutines, Send(g)
  PROVE  Typed'
<1>1. CASE Register(g)
  <2>1. op[g] \in Calls /\ "header" \in StagesOf(op[g])
    BY <1>1 DEF Register, Typed, StageFits, Fits, StagesOf
  <2>2. g \in Callers
    BY <2>1, OpsFit DEF Typed, StageFits, Fits
  <2>3. Proceed(g, "header")
    BY <1>1 DEF Register
  <2>4. handlers' \subseteq Callers
    BY <1>1, <2>2 DEF Register, Typed, TypeOK
  <2>. QED BY <1>1, <2>1, <2>3, <2>4, ProceedFits DEF Register, Typed, TypeOK, pipe, peer, app
<1>2. CASE WriteHeader(g)
  <2>1. "body" \in StagesOf(op[g])
    BY <1>2, StagedMessage DEF WriteHeader, StagesOf
  <2>2. Proceed(g, "body")
    BY <1>2 DEF WriteHeader
  <2>3. frame' \in Goroutines \cup {"nobody"} /\ garbled' \in BOOLEAN
    BY <1>2 DEF WriteHeader
  <2>. QED BY <1>2, <2>1, <2>2, <2>3, ProceedFits DEF WriteHeader, Typed, TypeOK, calls, peer, app
<1>3. CASE WriteCall(g)
  <2>1. "wait" \in StagesOf(op[g])
    BY <1>3 DEF WriteCall, StagesOf
  <2>2. Proceed(g, "wait")
    BY <1>3 DEF WriteCall
  <2>3. asked' \subseteq Callers
    <3>1. g \in Callers
      BY <1>3, OpsFit DEF WriteCall, Typed, StageFits, Fits
    <3>. QED BY <1>3, <3>1 DEF WriteCall, Typed, TypeOK
  <2>4. frame' \in Goroutines \cup {"nobody"}
    BY <1>3 DEF WriteCall
  <2>. QED BY <1>3, <2>1, <2>2, <2>3, <2>4, ProceedFits DEF WriteCall, Typed, TypeOK, calls, app
<1>4. CASE WriteNote(g)
  <2>1. Finish(g, TRUE) /\ op[g] \in Calls \cup Notes
    BY <1>4 DEF WriteNote
  <2>2. owed' \subseteq sent /\ answering' \in ServerRequests \cup {0}
        /\ frame' \in Goroutines \cup {"nobody"}
    BY <1>4 DEF WriteNote, Typed, TypeOK
  <2>. QED BY <1>4, <2>1, <2>2, FinishFits DEF WriteNote, Typed, TypeOK
<1>5. CASE WriteFails(g)
  <2>1. Finish(g, FALSE) /\ op[g] \in Calls \cup Notes
    BY <1>5, StagedMessage DEF WriteFails
  <2>2. answering' \in ServerRequests \cup {0}
    BY <1>5 DEF WriteFails, Typed, TypeOK
  <2>. QED BY <1>5, <2>1, <2>2, FinishFits DEF WriteFails, pipe, Typed, TypeOK
<1>. QED BY <1>1, <1>2, <1>3, <1>4, <1>5 DEF Send

\* What the server sends keeps its type.
LEMMA StdoutTyped ==
  ASSUME Typed, NEW m \in Responses \cup Requests
  PROVE  Append(stdout, m) \in Seq(Responses \cup Requests)
BY DEF Typed, TypeOK

\* What is read is a response or a request, and the rest keeps its type.
LEMMA HeadTyped ==
  ASSUME Typed, stdout # <<>>
  PROVE  Head(stdout) \in Responses \cup Requests /\ Tail(stdout) \in Seq(Responses \cup Requests)
BY DEF Typed, TypeOK

\* The reader keeps the types.
LEMMA ReadTyped ==
  ASSUME Typed, Read
  PROVE  Typed'
<1>0. "reader" \in Goroutines /\ OpsOf("reader") = {"read", "response", "ended"}
  BY DEF Goroutines, OpsOf
<1>1. CASE ReadResponse
  <2>1. Head(stdout) \in Responses
    BY <1>1, HeadTyped DEF ReadResponse, Reading, Responses, Requests
  <2>2. result' \in [Callers -> Answers \cup {"none"}]
    BY <1>1, <2>1 DEF ReadResponse, Responses, Typed, TypeOK
  <2>3. stdout' \in Seq(Responses \cup Requests)
    BY <1>1, HeadTyped DEF ReadResponse, Reading
  <2>4. TypeOK'
    BY <1>1, <2>2, <2>3 DEF ReadResponse, Typed, TypeOK, pipe, app
  <2>. QED BY <1>1, <2>4 DEF ReadResponse, Typed, StageFits, Fits
<1>2. CASE ReadRequest
  <2>1. Head(stdout) \in Requests /\ stdout' \in Seq(Responses \cup Requests)
    BY <1>2, HeadTyped DEF ReadRequest, Reading, Responses, Requests
  <2>2. answering' \in ServerRequests \cup {0}
    BY <1>2, <2>1 DEF ReadRequest, Requests
  <2>3. Goto("reader", "response")
    BY <1>2 DEF ReadRequest
  <2>. QED BY <1>0, <1>2, <2>1, <2>2, <2>3, GotoFits DEF ReadRequest, Typed, TypeOK, calls, pipe, app
<1>3. CASE TakeForNotification
  <2>1. stdout' \in Seq(Responses \cup Requests)
    BY <1>3, HeadTyped DEF TakeForNotification, Reading
  <2>2. TypeOK'
    BY <1>3, <2>1 DEF TakeForNotification, Typed, TypeOK, calls, pipe, app
  <2>. QED BY <1>3, <2>2 DEF TakeForNotification, Typed, StageFits, Fits
<1>. QED BY <1>1, <1>2, <1>3 DEF Read

\* So does its end.
LEMMA ReaderEndsTyped ==
  ASSUME Typed, ReaderEnds
  PROVE  Typed'
<1>0. "reader" \in Goroutines /\ OpsOf("reader") = {"read", "response", "ended"}
  BY DEF Goroutines, OpsOf
<1>1. Goto("reader", "ended")
  BY DEF ReaderEnds
<1>. QED BY <1>0, <1>1, GotoFits DEF ReaderEnds, Typed, TypeOK, calls, pipe, peer, app

\* So does the start of a client.
LEMMA StartTyped ==
  ASSUME Typed, Start
  PROVE  Typed'
<1>0. "start" \in Goroutines /\ {"symbol", "register", "stuck", "cancelRequest", "add", "publish"} \subseteq OpsOf("start")
  BY DEF Goroutines, OpsOf
<1>1. CASE Ping
  BY <1>0, <1>1, GotoFits DEF Ping, Typed, TypeOK, calls, pipe, peer, app
<1>2. CASE Walk
  BY <1>0, <1>2, GotoFits DEF Walk, Typed, TypeOK, calls, pipe, peer, app
<1>3. CASE RegisterCancel
  <2>1. Goto("start", "add") /\ registered' = TRUE
    BY <1>3 DEF RegisterCancel
  <2>. QED BY <1>0, <1>3, <2>1, GotoFits DEF RegisterCancel, Typed, TypeOK, calls, pipe, peer
<1>4. CASE AddToGroup
  <2>1. Goto("start", "publish") /\ working' = 1
    BY <1>4 DEF AddToGroup
  <2>. QED BY <1>0, <1>4, <2>1, GotoFits DEF AddToGroup, Typed, TypeOK, calls, pipe, peer
<1>5. CASE Publish
  <2>1. /\ op["start"] = "publish" /\ published' = TRUE
        /\ op' = [op EXCEPT !["start"] = "done", !["watcher"] = "watch"] /\ stage' = stage
    BY <1>5 DEF Publish
  <2>2. stage["start"] = "none" /\ stage["watcher"] = "none"
    BY <1>0, <2>1 DEF Typed, StageFits, Fits, StagesOf, OpsOf, Goroutines, Calls, Notes
  <2>3. ASSUME NEW g \in Goroutines PROVE Fits(g)'
    <3>1. CASE g = "start"
      BY <2>1, <2>2, <3>1 DEF Typed, TypeOK, Fits, StagesOf, OpsOf, Calls, Notes
    <3>2. CASE g = "watcher"
      BY <2>1, <2>2, <3>2 DEF Typed, TypeOK, Fits, StagesOf, OpsOf, Calls, Notes
    <3>3. CASE g # "start" /\ g # "watcher"
      BY <2>1, <3>3 DEF Typed, TypeOK, StageFits, Fits
    <3>. QED BY <3>1, <3>2, <3>3
  <2>4. op' \in [Goroutines -> Ops]
    BY <2>1 DEF Typed, TypeOK, Ops
  <2>5. TypeOK'
    BY <1>5, <2>1, <2>4 DEF Publish, Typed, TypeOK, calls, pipe, peer
  <2>. QED BY <2>3, <2>5 DEF Typed, StageFits
<1>. QED BY <1>1, <1>2, <1>3, <1>4, <1>5 DEF Start

\* So does the shutdown.
LEMMA MainTyped ==
  ASSUME Typed, Main \/ Quit
  PROVE  Typed'
<1>0. "main" \in Goroutines /\ {"cancel", "wait", "copy", "shutdown", "exited"} \subseteq OpsOf("main")
  BY DEF Goroutines, OpsOf
<1>1. CASE Quit
  <2>1. Goto("main", "cancel")
    BY <1>1 DEF Quit
  <2>. QED BY <1>0, <1>1, <2>1, GotoFits DEF Quit, Typed, TypeOK, calls, pipe, peer, app
<1>2. CASE CancelWatchers
  <2>1. Goto("main", "wait") /\ cancelled' \in BOOLEAN
    BY <1>2 DEF CancelWatchers
  <2>. QED BY <1>0, <1>2, <2>1, GotoFits DEF CancelWatchers, Typed, TypeOK, calls, pipe, peer
<1>3. CASE WaitForWatchers
  <2>1. Goto("main", "copy")
    BY <1>3 DEF WaitForWatchers
  <2>. QED BY <1>0, <1>3, <2>1, GotoFits DEF WaitForWatchers, Typed, TypeOK, calls, pipe, peer, app
<1>4. CASE ShutdownClients
  <2>1. PICK o \in {"shutdown", "cancel", "exited"} : Goto("main", o)
    BY <1>4 DEF ShutdownClients
  <2>2. again' \in BOOLEAN
    BY <1>4 DEF ShutdownClients
  <2>. QED BY <1>0, <1>4, <2>1, <2>2, GotoFits DEF ShutdownClients, Typed, TypeOK, calls, pipe, peer
<1>. QED BY <1>1, <1>2, <1>3, <1>4 DEF Main

\* So do the server, the watcher and those who notify.
LEMMA OthersTyped ==
  ASSUME Typed, Server \/ ServerDies \/ StopWatching \/ (\E q \in ServerRequests : ServerAsks(q))
                \/ (\E g \in Notifiers : Notify(g)) \/ (\E g \in Callers : Receive(g))
  PROVE  Typed'
<1>1. ASSUME NEW g \in Callers, NEW r \in Answers, ServerAnswers(g, r) PROVE Typed'
  <2>1. [type |-> "response", to |-> g, result |-> r] \in Responses
    BY DEF Responses
  <2>2. stdout' \in Seq(Responses \cup Requests)
    BY <1>1, <2>1, StdoutTyped DEF ServerAnswers
  <2>3. asked' \subseteq Callers
    BY <1>1 DEF ServerAnswers, Typed, TypeOK
  <2>4. TypeOK'
    BY <1>1, <2>2, <2>3 DEF ServerAnswers, Typed, TypeOK, calls, pipe, app
  <2>. QED BY <1>1, <2>4 DEF ServerAnswers, Typed, StageFits, Fits
<1>2. CASE ServerDies
  <2>1. TypeOK'
    BY <1>2 DEF ServerDies, Typed, TypeOK, calls, pipe, app
  <2>. QED BY <1>2, <2>1 DEF ServerDies, Typed, StageFits, Fits
<1>3. CASE StopWatching
  <2>1. "watcher" \in Goroutines /\ "done" \in OpsOf("watcher")
    BY DEF Goroutines, OpsOf
  <2>2. Goto("watcher", "done") /\ working' = 0
    BY <1>3 DEF StopWatching
  <2>. QED BY <1>3, <2>1, <2>2, GotoFits DEF StopWatching, Typed, TypeOK, calls, pipe, peer
<1>4. ASSUME NEW q \in ServerRequests, ServerAsks(q) PROVE Typed'
  <2>1. [type |-> "request", id |-> q] \in Requests
    BY DEF Requests
  <2>2. stdout' \in Seq(Responses \cup Requests)
    BY <1>4, <2>1, StdoutTyped DEF ServerAsks
  <2>3. sent' \subseteq ServerRequests /\ owed' \subseteq sent'
    BY <1>4 DEF ServerAsks, Typed, TypeOK
  <2>4. TypeOK'
    BY <1>4, <2>2, <2>3 DEF ServerAsks, Typed, TypeOK, calls, pipe, app
  <2>. QED BY <1>4, <2>4 DEF ServerAsks, Typed, StageFits, Fits
<1>5. ASSUME NEW g \in Notifiers, Notify(g) PROVE Typed'
  <2>1. g \in Goroutines /\ "note" \in OpsOf(g)
    BY ClientAssumption DEF Goroutines, OpsOf
  <2>2. Goto(g, "note")
    BY <1>5 DEF Notify
  <2>. QED BY <1>5, <2>1, <2>2, GotoFits DEF Notify, Typed, TypeOK, calls, pipe, peer, app
<1>6. ASSUME NEW g \in Callers, Receive(g) PROVE Typed'
  <2>1. g \in Goroutines
    BY DEF Callers, Goroutines
  <2>2. op[g] \in Calls \cup Notes
    BY <1>6, <2>1, StagedMessage DEF Receive
  <2>3. PICK ok \in BOOLEAN : Finish(g, ok)
    BY <1>6 DEF Receive
  <2>. QED BY <1>6, <2>1, <2>2, <2>3, FinishFits DEF Receive, pipe, Typed, TypeOK
<1>. QED BY <1>1, <1>2, <1>3, <1>4, <1>5, <1>6 DEF Server

\* Every step keeps the types.
LEMMA NextTyped == Typed /\ [Next]_vars => Typed'
<1> SUFFICES ASSUME Typed, [Next]_vars PROVE Typed'
  OBVIOUS
<1>1. CASE UNCHANGED vars
  <2>1. TypeOK'
    BY <1>1 DEF Typed, TypeOK, vars, calls, pipe, peer, app
  <2>. QED BY <1>1, <2>1 DEF Typed, StageFits, Fits, vars
<1>2. CASE Next
  BY <1>2, SendTyped, ReadTyped, ReaderEndsTyped, StartTyped, MainTyped, OthersTyped DEF Next, Step
<1>. QED BY <1>1, <1>2

\* What each goroutine is at, and how far it is with its message, is always one
\* of its own operations and a stage of it, for any goroutines and requests.
THEOREM TypeCorrect == Spec => []TypeOK
<1>1. Typed => TypeOK
  BY DEF Typed
<1>. QED BY InitTyped, NextTyped, <1>1, PTL DEF Spec

---------------------------------------------------------------------------
(* No answer is lost *)

\* Unless stdin is garbled, whoever has written a header and no body yet wrote
\* the last header.
HeaderIsLast == \A g \in Goroutines : stage[g] = "body" /\ ~garbled => frame = g

\* A call's channel is in the table from the first write to the answer.
HasChannel(g) == stage[g] \in {"header", "body", "wait"} /\ op[g] \in Calls => g \in handlers

\* The answer to a call that waits has not been lost.
HasAnswer(g) == stage[g] = "wait" /\ ~garbled => UnderWay(g)

ServedInv ==
  /\ Typed /\ HeaderIsLast
  /\ \A g \in Callers : HasChannel(g) /\ HasAnswer(g)

\* The invariant implies the property.
LEMMA ServedImplies == ServedInv => WaitingIsServed
<1> SUFFICES ASSUME ServedInv, NEW g \in Callers, stage[g] = "wait"
             PROVE  g \in handlers /\ (UnderWay(g) \/ garbled)
  BY DEF WaitingIsServed
<1>1. g \in Goroutines
  BY DEF Callers, Goroutines
<1>2. op[g] \in Calls
  BY <1>1 DEF ServedInv, Typed, StageFits, Fits, StagesOf
<1>. QED BY <1>2 DEF ServedInv, HasChannel, HasAnswer

\* Nobody waits at first.
LEMMA InitServed == Init => ServedInv
<1> SUFFICES ASSUME Init PROVE ServedInv
  OBVIOUS
<1>1. Typed
  BY InitTyped
<1>2. \A g \in Goroutines : stage[g] \in {"none", "register", "header"} /\ op[g] \notin Notes
  BY OpsFit DEF Init, First, Notes, Calls
<1>3. \A g \in Goroutines : stage[g] \in {"none", "register"}
  BY <1>2 DEF Init, First
<1>4. HeaderIsLast
  BY <1>3 DEF HeaderIsLast
<1>5. \A g \in Callers : HasChannel(g) /\ HasAnswer(g)
  BY <1>3 DEF HasChannel, HasAnswer, Callers, Goroutines
<1>. QED BY <1>1, <1>4, <1>5 DEF ServedInv

\* Whether a response to g is among the messages of s.
InTransit(s, g) == \E i \in DOMAIN s : s[i].type = "response" /\ s[i].to = g

\* What is appended does not displace a response.
LEMMA InAppend ==
  ASSUME NEW S, NEW s \in Seq(S), NEW m \in S, NEW g
  PROVE  /\ InTransit(s, g) => InTransit(Append(s, m), g)
         /\ m.type = "response" /\ m.to = g => InTransit(Append(s, m), g)
<1>1. DOMAIN Append(s, m) = 1 .. Len(s) + 1 /\ Append(s, m)[Len(s) + 1] = m
      /\ \A i \in DOMAIN s : i \in 1 .. Len(s) + 1 /\ Append(s, m)[i] = s[i]
  OBVIOUS
<1>2. Len(s) + 1 \in DOMAIN Append(s, m)
  BY <1>1
<1>. QED BY <1>1, <1>2 DEF InTransit

\* Only the first message is read.
LEMMA InTail ==
  ASSUME NEW S, NEW s \in Seq(S), s # <<>>, NEW g, InTransit(s, g)
  PROVE  InTransit(Tail(s), g) \/ (Head(s).type = "response" /\ Head(s).to = g)
<1>1. PICK i \in DOMAIN s : s[i].type = "response" /\ s[i].to = g
  BY DEF InTransit
<1>2. CASE i = 1
  BY <1>1, <1>2
<1>3. CASE i # 1
  <2>1. i - 1 \in DOMAIN Tail(s) /\ Tail(s)[i - 1] = s[i]
    BY <1>3
  <2>. QED BY <1>1, <2>1 DEF InTransit
<1>. QED BY <1>2, <1>3

\* What the property needs besides the types.
Served == HeaderIsLast /\ \A g \in Callers : HasChannel(g) /\ HasAnswer(g)

\* A goroutine that begins with something else takes nothing away.
LEMMA GotoServed ==
  ASSUME ServedInv, NEW g \in Goroutines, NEW o \in OpsOf(g), Goto(g, o), UNCHANGED <<handlers, result, frame, garbled, asked, stdout>>,
         server' \in {server, "down"}
  PROVE  Served'
<1>1. op' = [op EXCEPT ![g] = o] /\ stage' = [stage EXCEPT ![g] = First(o)]
      /\ op \in [Goroutines -> Ops] /\ DOMAIN stage = Goroutines
  BY DEF Goto, ServedInv, Typed, TypeOK
<1>2. First(o) \in {"none", "register", "header"} /\ (First(o) = "header" => o \notin Calls)
  BY OpsFit DEF First
<1>3. HeaderIsLast'
  BY <1>1, <1>2 DEF ServedInv, HeaderIsLast
<1>5. ASSUME NEW h \in Callers PROVE HasChannel(h)' /\ HasAnswer(h)'
  <2>0. h \in Goroutines
    BY DEF Callers, Goroutines
  <2>1. CASE h = g
    BY <1>1, <1>2, <2>0, <2>1 DEF HasChannel, HasAnswer
  <2>2. CASE h # g
    <3>1. stage'[h] = stage[h] /\ op'[h] = op[h]
      BY <1>1, <2>0, <2>2
    <3>. QED BY <3>1 DEF ServedInv, HasChannel, HasAnswer, UnderWay
  <2>. QED BY <2>1, <2>2
<1>. QED BY <1>3, <1>5 DEF Served

\* Nor does one whose message is done with.
LEMMA FinishServed ==
  ASSUME ServedInv, NEW g \in Goroutines, op[g] \in Calls \cup Notes, NEW ok \in BOOLEAN,
         Finish(g, ok), UNCHANGED <<garbled, asked, stdout>>,
         frame' = frame \/ stage[g] = "body"
  PROVE  Served'
<1>1. PICK o \in After(g, ok) : Goto(g, o) /\ server' = IF o = "failed" THEN "down" ELSE server
  BY DEF Finish
<1>2. o \in OpsOf(g) /\ o # "ended"
  BY AfterFits DEF ServedInv
<1>3. op' = [op EXCEPT ![g] = o] /\ stage' = [stage EXCEPT ![g] = First(o)]
      /\ op \in [Goroutines -> Ops] /\ DOMAIN stage = Goroutines
  BY <1>1 DEF Goto, ServedInv, Typed, TypeOK
<1>4. First(o) \in {"none", "register", "header"} /\ (First(o) = "header" => o \notin Calls)
  BY <1>2, OpsFit DEF First
<1>5. HeaderIsLast'
  BY <1>3, <1>4 DEF ServedInv, HeaderIsLast
<1>7. ASSUME NEW h \in Callers PROVE HasChannel(h)' /\ HasAnswer(h)'
  <2>0. h \in Goroutines
    BY DEF Callers, Goroutines
  <2>1. CASE h = g
    BY <1>3, <1>4, <2>0, <2>1 DEF HasChannel, HasAnswer
  <2>2. CASE h # g
    <3>1. stage'[h] = stage[h] /\ op'[h] = op[h]
      BY <1>3, <2>0, <2>2
    <3>2. handlers' = handlers \ {g} /\ result'[h] = result[h]
      BY <2>2 DEF Finish
    <3>. QED BY <2>2, <3>1, <3>2 DEF ServedInv, HasChannel, HasAnswer, UnderWay
  <2>. QED BY <2>1, <2>2
<1>. QED BY <1>5, <1>7 DEF Served

\* A step of nobody's message that keeps every answer in its place, or brings it
\* one place on.
LEMMA AnswersServed ==
  ASSUME ServedInv, UNCHANGED <<op, stage, handlers, frame, garbled>>,
         server' \in {server, "down"},
         \A g \in Callers : stage[g] = "wait" /\ UnderWay(g) => UnderWay(g)'
  PROVE  Served'
<1>1. HeaderIsLast'
  BY DEF ServedInv, HeaderIsLast
<1>2. \A g \in Callers : HasChannel(g)' /\ HasAnswer(g)'
  BY DEF ServedInv, HasChannel, HasAnswer
<1>. QED BY <1>1, <1>2 DEF Served

\* Writing loses no answer: only the writer of the last header has its message
\* read, and is a caller whose channel is in the table.
LEMMA SendServed ==
  ASSUME ServedInv, NEW g \in Goroutines, Send(g)
  PROVE  Served'
<1>0. op \in [Goroutines -> Ops] /\ DOMAIN stage = Goroutines
  BY DEF ServedInv, Typed, TypeOK
<1>1. CASE Register(g)
  <2>1. stage' = [stage EXCEPT ![g] = "header"] /\ op' = op /\ handlers' = handlers \cup {g}
    BY <1>1 DEF Register, Proceed
  <2>2. HeaderIsLast'
    BY <1>0, <1>1, <2>1 DEF Register, pipe, peer, ServedInv, HeaderIsLast
  <2>3. ASSUME NEW h \in Callers PROVE HasChannel(h)' /\ HasAnswer(h)'
    BY <1>0, <1>1, <2>1 DEF Register, pipe, peer, ServedInv, HasChannel, HasAnswer, UnderWay
  <2>. QED BY <2>2, <2>3 DEF Served
<1>2. CASE WriteHeader(g)
  <2>1. stage' = [stage EXCEPT ![g] = "body"] /\ op' = op /\ frame' = g
        /\ garbled' = (garbled \/ frame # "nobody")
    BY <1>2 DEF WriteHeader, Proceed
  <2>2. HeaderIsLast'
    <3> SUFFICES ASSUME NEW h \in Goroutines, stage'[h] = "body", ~garbled' PROVE h = g
      BY <2>1 DEF HeaderIsLast
    <3>1. h # "nobody"
      BY ClientAssumption DEF Goroutines
    <3>. QED BY <1>0, <2>1, <3>1 DEF ServedInv, HeaderIsLast
  <2>4. ASSUME NEW h \in Callers PROVE HasChannel(h)' /\ HasAnswer(h)'
    <3>1. h \in Goroutines
      BY DEF Callers, Goroutines
    <3>2. HasChannel(h)'
      BY <1>0, <1>2, <2>1, <3>1 DEF WriteHeader, calls, ServedInv, HasChannel
    <3>3. UnderWay(h)' = UnderWay(h)
      BY <1>2 DEF WriteHeader, calls, peer, UnderWay
    <3>4. HasAnswer(h)'
      BY <1>0, <2>1, <3>1, <3>3 DEF ServedInv, HasAnswer
    <3>. QED BY <3>2, <3>4
  <2>. QED BY <2>2, <2>4 DEF Served
<1>3. CASE WriteCall(g)
  <2>1. stage' = [stage EXCEPT ![g] = "wait"] /\ op' = op /\ frame' = "nobody" /\ garbled' = garbled
    BY <1>3 DEF WriteCall, Proceed
  <2>2. HeaderIsLast'
    BY <1>0, <1>3, <2>1 DEF WriteCall, ServedInv, HeaderIsLast
  <2>3. ASSUME NEW h \in Callers PROVE HasChannel(h)' /\ HasAnswer(h)'
    <3>1. h \in Goroutines
      BY DEF Callers, Goroutines
    <3>2. HasChannel(h)'
      BY <1>0, <1>3, <2>1, <3>1 DEF WriteCall, calls, ServedInv, HasChannel
    <3>3. UnderWay(h) => UnderWay(h)'
      BY <1>3 DEF WriteCall, calls, UnderWay
    <3>4. CASE h = g
      <4>1. ~garbled => g \in asked'
        BY <1>3 DEF WriteCall, Reads, ServedInv, HeaderIsLast
      <4>. QED BY <2>1, <3>2, <3>4, <4>1 DEF HasAnswer, UnderWay
    <3>5. CASE h # g
      BY <1>0, <2>1, <3>1, <3>2, <3>3, <3>5 DEF ServedInv, HasAnswer
    <3>. QED BY <3>4, <3>5
  <2>. QED BY <2>2, <2>3 DEF Served
<1>4. CASE WriteNote(g)
  BY <1>4, FinishServed DEF WriteNote
<1>5. CASE WriteFails(g)
  <2>1. op[g] \in Calls \cup Notes
    BY <1>5, StagedMessage DEF WriteFails, ServedInv
  <2>. QED BY <1>5, <2>1, FinishServed DEF WriteFails, pipe
<1>. QED BY <1>1, <1>2, <1>3, <1>4, <1>5 DEF Send

\* Nor does reading: a response finds its channel, a request is no response.
LEMMA ReadServed ==
  ASSUME ServedInv, Read
  PROVE  Served'
<1>0. Typed /\ "reader" \in Goroutines /\ OpsOf("reader") = {"read", "response", "ended"}
  BY DEF ServedInv, Goroutines, OpsOf
<1>1. stdout \in Seq(Responses \cup Requests)
  BY <1>0 DEF Typed, TypeOK
<1>2. CASE ReadResponse
  <2>1. Head(stdout) \in Responses
    BY <1>0, <1>2, HeadTyped DEF ReadResponse, Reading, Responses, Requests
  <2>2. ASSUME NEW g \in Callers, stage[g] = "wait", UnderWay(g) PROVE UnderWay(g)'
    <3>1. g \in handlers
      <4>1. op[g] \in Calls
        BY <1>0, <2>2 DEF Typed, StageFits, Fits, StagesOf, Callers, Goroutines
      <4>. QED BY <2>2, <4>1 DEF ServedInv, HasChannel
    <3>2. CASE InTransit(stdout, g)
      <4>1. InTransit(Tail(stdout), g) \/ Head(stdout).to = g
        BY <1>1, <1>2, <3>2, InTail DEF ReadResponse, Reading
      <4>2. Head(stdout).to = g => result'[g] # "none"
        BY <1>0, <1>2, <2>1, <3>1 DEF ReadResponse, Responses, Answers, Typed, TypeOK
      <4>. QED BY <1>2, <4>1, <4>2 DEF ReadResponse, UnderWay, InTransit
    <3>3. CASE g \in asked
      BY <1>2, <3>3 DEF ReadResponse, UnderWay
    <3>4. CASE result[g] # "none"
      BY <1>0, <1>2, <2>1, <3>4 DEF ReadResponse, UnderWay, Responses, Answers, Typed, TypeOK
    <3>. QED BY <2>2, <3>2, <3>3, <3>4 DEF UnderWay, InTransit
  <2>. QED BY <1>2, <2>2, AnswersServed DEF ReadResponse, pipe
<1>3. CASE stdout # <<>> /\ Head(stdout).type = "request" /\ stdout' = Tail(stdout)
           /\ UNCHANGED <<calls, pipe, server, asked>>
           /\ (UNCHANGED <<op, stage>> \/ Goto("reader", "response"))
  <2>1. ASSUME NEW g \in Callers, UnderWay(g) PROVE UnderWay(g)'
    <3>1. CASE InTransit(stdout, g)
      <4>1. InTransit(Tail(stdout), g)
        BY <1>1, <1>3, <3>1, InTail
      <4>. QED BY <1>3, <4>1 DEF UnderWay, InTransit
    <3>2. CASE g \in asked \/ result[g] # "none"
      BY <1>3, <3>2 DEF UnderWay, calls
    <3>. QED BY <2>1, <3>1, <3>2 DEF UnderWay, InTransit
  <2>2. CASE UNCHANGED <<op, stage>>
    BY <1>3, <2>1, <2>2, AnswersServed DEF calls, pipe
  <2>3. CASE Goto("reader", "response")
    <3>1. op' = [op EXCEPT !["reader"] = "response"] /\ stage' = [stage EXCEPT !["reader"] = "header"]
      BY <2>3 DEF Goto, First, Calls, Notes
    <3>2. op \in [Goroutines -> Ops] /\ DOMAIN stage = Goroutines
      BY <1>0 DEF Typed, TypeOK
    <3>3. HeaderIsLast'
      BY <1>0, <1>3, <3>1, <3>2 DEF pipe, ServedInv, HeaderIsLast
    <3>4. ASSUME NEW h \in Callers PROVE HasChannel(h)' /\ HasAnswer(h)'
      <4>1. h # "reader" /\ op'[h] = op[h] /\ stage'[h] = stage[h]
        BY <3>1, <3>2 DEF Callers, Goroutines
      <4>. QED BY <1>3, <2>1, <4>1 DEF ServedInv, HasChannel, HasAnswer, calls, pipe
    <3>. QED BY <3>3, <3>4 DEF Served
  <2>. QED BY <1>3, <2>2, <2>3
<1>4. CASE ReadRequest
  BY <1>3, <1>4 DEF ReadRequest, Reading
<1>5. CASE TakeForNotification
  BY <1>3, <1>5 DEF TakeForNotification, Reading
<1>. QED BY <1>2, <1>4, <1>5 DEF Read

\* Nor does anything else.
LEMMA OthersServed ==
  ASSUME ServedInv, Step, ~Read, \A g \in Goroutines : ~Send(g)
  PROVE  Served'
<1>0. Typed /\ stdout \in Seq(Responses \cup Requests) /\ op \in [Goroutines -> Ops]
  BY DEF ServedInv, Typed, TypeOK
<1>1. ASSUME NEW g \in Callers, NEW r \in Answers, ServerAnswers(g, r) PROVE Served'
  <2>1. [type |-> "response", to |-> g, result |-> r] \in Responses \cup Requests
    BY DEF Responses
  <2>2. InTransit(stdout', g) /\ \A h \in Callers : InTransit(stdout, h) => InTransit(stdout', h)
    BY <1>0, <1>1, <2>1, InAppend DEF ServerAnswers
  <2>3. \A h \in Callers : UnderWay(h) => UnderWay(h)'
    BY <1>1, <2>2 DEF ServerAnswers, UnderWay, InTransit, calls
  <2>. QED BY <1>1, <2>3, AnswersServed DEF ServerAnswers, calls, pipe
<1>2. ASSUME NEW q \in ServerRequests, ServerAsks(q) PROVE Served'
  <2>1. [type |-> "request", id |-> q] \in Responses \cup Requests
    BY DEF Requests
  <2>2. \A h \in Callers : InTransit(stdout, h) => InTransit(stdout', h)
    BY <1>0, <1>2, <2>1, InAppend DEF ServerAsks
  <2>3. \A h \in Callers : UnderWay(h) => UnderWay(h)'
    BY <1>2, <2>2 DEF ServerAsks, UnderWay, InTransit, calls
  <2>. QED BY <1>2, <2>3, AnswersServed DEF ServerAsks, calls, pipe
<1>3. CASE ServerDies
  <2>1. \A h \in Callers : UnderWay(h) => UnderWay(h)'
    BY <1>3 DEF ServerDies, UnderWay, calls
  <2>. QED BY <1>3, <2>1, AnswersServed DEF ServerDies, calls, pipe
<1>4. ASSUME NEW g \in Callers, Receive(g) PROVE Served'
  <2>1. g \in Goroutines
    BY DEF Callers, Goroutines
  <2>2. op[g] \in Calls \cup Notes
    BY <1>0, <1>4, <2>1, StagedMessage DEF Receive
  <2>3. PICK ok \in BOOLEAN : Finish(g, ok)
    BY <1>4 DEF Receive
  <2>. QED BY <1>4, <2>1, <2>2, <2>3, FinishServed DEF Receive, pipe
<1>5. ASSUME NEW g \in Notifiers, Notify(g) PROVE Served'
  <2>1. g \in Goroutines /\ "note" \in OpsOf(g)
    BY ClientAssumption DEF Goroutines, OpsOf
  <2>. QED BY <1>5, <2>1, GotoServed DEF Notify, calls, pipe, peer
<1>6. CASE StopWatching
  <2>1. "watcher" \in Goroutines /\ "done" \in OpsOf("watcher")
    BY DEF Goroutines, OpsOf
  <2>. QED BY <1>6, <2>1, GotoServed DEF StopWatching, calls, pipe, peer
<1>7. CASE Quit \/ Main
  <2>1. "main" \in Goroutines /\ {"cancel", "wait", "copy", "shutdown", "exited"} \subseteq OpsOf("main")
    BY DEF Goroutines, OpsOf
  <2>2. PICK o \in {"cancel", "wait", "copy", "shutdown", "exited"} : Goto("main", o)
    BY <1>7 DEF Quit, Main, CancelWatchers, WaitForWatchers, ShutdownClients
  <2>3. UNCHANGED <<calls, pipe, peer>>
    BY <1>7 DEF Quit, Main, CancelWatchers, WaitForWatchers, ShutdownClients
  <2>. QED BY <2>1, <2>2, <2>3, GotoServed DEF calls, pipe, peer
<1>8. CASE Start
  <2>1. "start" \in Goroutines
        /\ {"symbol", "register", "stuck", "cancelRequest", "add", "publish"} \subseteq OpsOf("start")
    BY DEF Goroutines, OpsOf
  <2>2. CASE Ping \/ Walk \/ RegisterCancel \/ AddToGroup
    <3>1. PICK o \in {"symbol", "register", "stuck", "cancelRequest", "add", "publish"} : Goto("start", o)
      BY <2>2 DEF Ping, Walk, RegisterCancel, AddToGroup
    <3>2. UNCHANGED <<calls, pipe, peer>>
      BY <2>2 DEF Ping, Walk, RegisterCancel, AddToGroup
    <3>. QED BY <2>1, <3>1, <3>2, GotoServed DEF calls, pipe, peer
  <2>3. CASE Publish
    <3>1. /\ op["start"] = "publish" /\ stage' = stage
          /\ op' = [op EXCEPT !["start"] = "done", !["watcher"] = "watch"]
          /\ UNCHANGED <<handlers, result, frame, garbled, server, asked, stdout>>
      BY <2>3 DEF Publish, calls, pipe, peer
    <3>2. HeaderIsLast'
      BY <1>0, <3>1 DEF ServedInv, HeaderIsLast, Goroutines
    <3>3. ASSUME NEW h \in Callers PROVE HasChannel(h)' /\ HasAnswer(h)'
      <4>1. op'[h] \in Calls => op'[h] = op[h]
        BY <1>0, <3>1 DEF Callers, Calls, Goroutines
      <4>2. UnderWay(h)' = UnderWay(h)
        BY <3>1 DEF UnderWay
      <4>. QED BY <3>1, <4>1, <4>2 DEF ServedInv, HasChannel, HasAnswer
    <3>. QED BY <3>2, <3>3 DEF Served
  <2>. QED BY <1>8, <2>2, <2>3 DEF Start
<1>9. CASE Server
  BY <1>1, <1>9 DEF Server
<1>11. CASE ReaderEnds
  <2>1. "reader" \in Goroutines /\ "ended" \in OpsOf("reader")
    BY DEF Goroutines, OpsOf
  <2>. QED BY <1>11, <2>1, GotoServed DEF ReaderEnds, calls, pipe, peer
<1>10. CASE (\E q \in ServerRequests : ServerAsks(q)) \/ (\E g \in Callers : Receive(g))
            \/ (\E g \in Notifiers : Notify(g))
  BY <1>2, <1>4, <1>5, <1>10
<1>. QED BY <1>3, <1>6, <1>7, <1>8, <1>9, <1>10, <1>11 DEF Step

\* The invariant is kept.
LEMMA NextServed == ServedInv /\ [Next]_vars => ServedInv'
<1> SUFFICES ASSUME ServedInv, [Next]_vars PROVE ServedInv'
  OBVIOUS
<1>1. Typed'
  BY NextTyped DEF ServedInv
<1>2. Served'
  <2>1. CASE UNCHANGED vars
    <3>1. \A h \in Callers : UnderWay(h) => UnderWay(h)'
      BY <2>1 DEF vars, calls, peer, UnderWay
    <3>. QED BY <2>1, <3>1, AnswersServed DEF vars, calls, pipe, peer
  <2>2. CASE Next
    BY <2>2, SendServed, ReadServed, OthersServed DEF Next
  <2>. QED BY <2>1, <2>2
<1>. QED BY <1>1, <1>2 DEF ServedInv, Served

\* A call that waits has its channel in the table, and unless stdin is garbled the
\* server has the request or the answer is under way, as long as the server lives
\* and no message that cannot be read has ended the reader: neither
\* the other goroutines that write, nor the server's own requests, nor the
\* deferred functions of other calls lose it (Call, handleMessages and
\* WriteMessage of transport.go).
THEOREM WaitingServed == Spec => []WaitingIsServed
BY InitServed, NextServed, ServedImplies, PTL DEF Spec

---------------------------------------------------------------------------
(* Types of the documents *)


\* Goroutines have distinct roles.
LEMMA Roles ==
  /\ "watcher" \in Actors /\ "preload" \in Actors
  /\ Tools \subseteq Actors /\ Timers \subseteq Actors
  /\ "watcher" \notin Timers /\ "preload" \notin Timers /\ "none" \notin Timers
BY DocumentsAssumption DEF Actors

\* The numbers are numbers.
LEMMA Numbers ==
  ASSUME DocumentsTypeOK
  PROVE  /\ changes \in Nat /\ MaxChanges \in Nat /\ 0 \in 0 .. changes
         /\ openFiles \in Nat /\ textVersion \in Nat
<1>1. MaxChanges \in Nat /\ changes \in 1 .. MaxChanges
  BY DocumentsAssumption DEF DocumentsTypeOK
<1>2. openFiles \in Nat /\ textVersion \in Nat
  BY DEF DocumentsTypeOK
<1>. QED BY <1>1, <1>2

\* Where a goroutine goes on is one of the labels.
LEMMA GotoTyped ==
  ASSUME DocumentsTypeOK, NEW g \in Actors, NEW l \in Labels, MoveTo(g, l)
  PROVE  at' \in [Actors -> Labels]
BY DEF DocumentsTypeOK, MoveTo

\* An operation that ends leaves typed variables.
LEMMA FinishTyped ==
  ASSUME DocumentsTypeOK, NEW g \in Actors, EndOperation(g)
  PROVE  /\ at' \in [Actors -> Labels]
         /\ content' \in [Actors -> 0 .. changes] /\ version' \in [Actors -> Nat]
<1>1. at' \in [Actors -> Labels]
  <2>1. CASE g \in Timers
    BY <2>1 DEF EndOperation, MoveTo, DocumentsTypeOK, Labels
  <2>2. CASE g \notin Timers /\ g = "watcher"
    BY <2>2 DEF EndOperation, MoveTo, DocumentsTypeOK, Labels
  <2>3. CASE g \notin Timers /\ g # "watcher"
    BY <2>3 DEF EndOperation, MoveTo, DocumentsTypeOK, Labels
  <2>. QED BY <2>1, <2>2, <2>3
<1>2. 0 \in 0 .. changes
  BY Numbers
<1>. QED BY <1>1, <1>2 DEF DocumentsTypeOK, EndOperation

\* So does one that begins.
LEMMA BeginTyped ==
  ASSUME DocumentsTypeOK, NEW g \in Actors, Begin(g)
  PROVE  overlapped' \in BOOLEAN /\ excused' \subseteq {"overlap", "replaced", "not registered"}
BY DEF DocumentsTypeOK, Begin

\* Setting a timer does, and changes nobody else's place but that of timers that
\* wait or rest.
LEMMA DebounceTyped ==
  ASSUME DocumentsTypeOK, NEW k \in Keys, NEW l \in Labels, Debounce(k, "watcher", l)
  PROVE  /\ at' \in [Actors -> Labels]
         /\ debounceMap' \in [Keys -> Timers \cup {"none"}] /\ key' \in [Timers -> Keys]
         /\ at'["watcher"] = l
         /\ \A h \in Actors \ {"watcher"} :
              at'[h] = at[h] \/ (at[h] \in {"rest", "pending"} /\ at'[h] \in {"rest", "pending"})
<1>1. PICK t \in Timers :
        /\ at[t] = "rest" \/ (t = debounceMap[k] /\ at[t] = "pending")
        /\ debounceMap' = [debounceMap EXCEPT ![k] = t]
        /\ key' = [key EXCEPT ![t] = k]
        /\ at' = [h \in Actors |->
                    CASE h = "watcher" -> l
                      [] h = t -> "pending"
                      [] h = debounceMap[k] /\ h # t /\ at[h] = "pending" -> "rest"
                      [] OTHER -> at[h]]
  BY DEF Debounce
<1>2. debounceMap' \in [Keys -> Timers \cup {"none"}] /\ key' \in [Timers -> Keys]
  BY <1>1 DEF DocumentsTypeOK
<1>3. at'["watcher"] = l
  <2>1. "watcher" # t /\ "watcher" # debounceMap[k]
    BY Roles DEF DocumentsTypeOK
  <2>. QED BY <1>1, <2>1, Roles
<1>4. ASSUME NEW h \in Actors \ {"watcher"}
      PROVE  at'[h] = at[h] \/ (at[h] \in {"rest", "pending"} /\ at'[h] \in {"rest", "pending"})
  <2>1. CASE h = t
    BY <1>1, <2>1
  <2>2. CASE h # t /\ h = debounceMap[k] /\ at[h] = "pending"
    BY <1>1, <2>2
  <2>3. CASE h # t /\ ~(h = debounceMap[k] /\ at[h] = "pending")
    BY <1>1, <2>3
  <2>. QED BY <2>1, <2>2, <2>3
<1>5. at' \in [Actors -> Labels]
  <2>. DEFINE Place(h) == CASE h = "watcher" -> l
                            [] h = t -> "pending"
                            [] h = debounceMap[k] /\ h # t /\ at[h] = "pending" -> "rest"
                            [] OTHER -> at[h]
  <2>1. at' = [h \in Actors |-> Place(h)]
    BY <1>1
  <2>. HIDE DEF Place
  <2>2. \A h \in Actors : at'[h] \in Labels
    BY <1>3, <1>4 DEF DocumentsTypeOK, Labels
  <2>. QED BY <2>1, <2>2
<1>. QED BY <1>2, <1>3, <1>4, <1>5

\* Types hold at first.
LEMMA DocumentsInitTyped == DocumentsInit => DocumentsTypeOK
<1> SUFFICES ASSUME DocumentsInit PROVE DocumentsTypeOK
  OBVIOUS
<1>1. disk \in 0 .. changes /\ changes \in 1 .. MaxChanges /\ text \in 0 .. changes
  BY DocumentsAssumption DEF DocumentsInit
<1>2. events \in Seq({"create", "write", "remove", "rename"})
  BY DEF DocumentsInit
<1>3. debounceMap \in [Keys -> Timers \cup {"none"}] /\ key \in [Timers -> Keys]
  BY DEF DocumentsInit, Keys
<1>4. at \in [Actors -> Labels]
  BY DEF DocumentsInit, Labels
<1>5. content \in [Actors -> 0 .. changes] /\ version \in [Actors -> Nat]
  BY DEF DocumentsInit
<1>6. {watching, eager, misused, overlapped} \subseteq BOOLEAN
  BY DEF DocumentsInit
<1>7. kinds \in WatchKinds \cup {{"create", "change", "delete"}}
      /\ openFiles \in Nat /\ textVersion \in Nat
      /\ excused \subseteq {"overlap", "replaced", "not registered"}
  BY DEF DocumentsInit
<1>. QED BY <1>1, <1>2, <1>3, <1>4, <1>5, <1>6, <1>7 DEF DocumentsTypeOK

\* The operations on the document keep the types.
LEMMA OperateTyped ==
  ASSUME DocumentsTypeOK, NEW g \in Actors, Operate(g)
  PROVE  DocumentsTypeOK'
<1>1. CASE CheckOpen(g)
  <2>1. CASE openFiles # 0
    BY <1>1, <2>1, FinishTyped DEF CheckOpen, DocumentsTypeOK, disks, watch, timers, document
  <2>2. CASE openFiles = 0
    <3>1. MoveTo(g, "read to open") /\ Begin(g)
      BY <1>1, <2>2 DEF CheckOpen
    <3>2. at' \in [Actors -> Labels]
      BY <3>1, GotoTyped DEF Labels, Busy
    <3>. QED BY <1>1, <2>2, <3>1, <3>2, BeginTyped
             DEF CheckOpen, DocumentsTypeOK, disks, watch, timers, document, local
  <2>. QED BY <2>1, <2>2
<1>2. CASE ReadFile(g)
  <2>1. CASE disk = 0
    BY <1>2, <2>1, FinishTyped DEF ReadFile, DocumentsTypeOK, disks, watch, timers, document
  <2>2. CASE disk # 0
    <3>1. PICK l \in {"did open", "bump"} : MoveTo(g, l)
      BY <1>2, <2>2 DEF ReadFile
    <3>2. at' \in [Actors -> Labels]
      BY <3>1, GotoTyped DEF Labels, Busy
    <3>3. content' \in [Actors -> 0 .. changes]
      BY <1>2, <2>2 DEF ReadFile, DocumentsTypeOK
    <3>. QED BY <1>2, <2>2, <3>2, <3>3 DEF ReadFile, DocumentsTypeOK, disks, watch, timers, document
  <2>. QED BY <2>1, <2>2
<1>3. CASE DidOpen(g)
  <2>1. at' \in [Actors -> Labels]
    BY <1>3, GotoTyped DEF DidOpen, Labels, Busy
  <2>2. misused' \in BOOLEAN /\ text' \in 0 .. changes /\ textVersion' \in Nat
    BY <1>3 DEF DidOpen, DocumentsTypeOK
  <2>. QED BY <1>3, <2>1, <2>2 DEF DidOpen, DocumentsTypeOK, disks, watch, timers, local
<1>4. CASE Record(g)
  BY <1>4, FinishTyped DEF Record, DocumentsTypeOK, disks, watch, timers, document
<1>5. CASE Bump(g)
  <2>1. CASE openFiles = 0
    BY <1>5, <2>1, FinishTyped DEF Bump, DocumentsTypeOK, disks, watch, timers, document
  <2>2. CASE openFiles # 0
    <3>1. at' \in [Actors -> Labels]
      BY <1>5, <2>2, GotoTyped DEF Bump, Labels, Busy
    <3>2. openFiles' \in Nat /\ version' \in [Actors -> Nat]
      <4>1. openFiles' = openFiles + 1
        BY <1>5, <2>2 DEF Bump
      <4>2. version' = [version EXCEPT ![g] = openFiles + 1]
        BY <1>5, <2>2 DEF Bump
      <4>3. openFiles + 1 \in Nat
        BY Numbers
      <4>. QED BY <4>1, <4>2, <4>3 DEF DocumentsTypeOK
    <3>3. UNCHANGED <<disks, events, watch, timers, content, document, misused, overlapped, excused>>
      BY <1>5, <2>2 DEF Bump
    <3>. QED BY <3>1, <3>2, <3>3 DEF DocumentsTypeOK, disks, watch, timers, document
  <2>. QED BY <2>1, <2>2
<1>6. CASE DidChange(g)
  <2>1. misused' \in BOOLEAN /\ text' \in 0 .. changes /\ textVersion' \in Nat
    BY <1>6 DEF DidChange, DocumentsTypeOK
  <2>2. EndOperation(g)
    BY <1>6 DEF DidChange
  <2>. QED BY <1>6, <2>1, <2>2, FinishTyped DEF DidChange, DocumentsTypeOK, disks, watch, timers
<1>7. CASE IsFileOpen(g)
  <2>1. CASE openFiles = 0
    <3>1. at' \in [Actors -> Labels]
      BY <1>7, <2>1, GotoTyped DEF IsFileOpen, Labels
    <3>. QED BY <1>7, <2>1, <3>1 DEF IsFileOpen, DocumentsTypeOK, disks, watch, timers, document, local
  <2>2. CASE openFiles # 0 /\ g = "preload"
    BY <1>7, <2>2, FinishTyped DEF IsFileOpen, DocumentsTypeOK, disks, watch, timers, document
  <2>3. CASE openFiles # 0 /\ g # "preload"
    <3>1. MoveTo(g, "read to change") /\ Begin(g)
      BY <1>7, <2>3 DEF IsFileOpen
    <3>2. at' \in [Actors -> Labels]
      BY <3>1, GotoTyped DEF Labels, Busy
    <3>. QED BY <1>7, <2>3, <3>1, <3>2, BeginTyped
             DEF IsFileOpen, DocumentsTypeOK, disks, watch, timers, document, local
  <2>. QED BY <2>1, <2>2, <2>3
<1>. QED BY <1>1, <1>2, <1>3, <1>4, <1>5, <1>6, <1>7 DEF Operate

\* Intervals of numbers.
LEMMA Intervals ==
  ASSUME NEW n \in Nat, NEW m \in Nat
  PROVE  /\ 0 .. n \subseteq 0 .. n + 1
         /\ {0, n + 1} \subseteq 0 .. n + 1
         /\ n < m => n + 1 \in 1 .. m
OBVIOUS

\* Sequences of events.
LEMMA QueueTyped ==
  ASSUME NEW S, NEW s \in Seq(S), NEW t \in Seq(S)
  PROVE  /\ s \o t \in Seq(S) /\ <<>> \in Seq(S)
         /\ s # <<>> => Tail(s) \in Seq(S)
OBVIOUS

\* What is not an operation on the document: it keeps the types, and leaves the
\* document and those who operate on it alone.
Aside ==
  /\ UNCHANGED <<openFiles, document, misused, overlapped, local>>
  /\ \A h \in Actors : at[h] \in Busy \/ at'[h] \in Busy => at'[h] = at[h]

\* A goroutine that is at no operation goes on to none.
LEMMA GotoAside ==
  ASSUME DocumentsTypeOK, NEW g \in Actors, NEW l \in Labels \ Busy, at[g] \notin Busy, MoveTo(g, l)
  PROVE  /\ at' \in [Actors -> Labels]
         /\ \A h \in Actors : at[h] \in Busy \/ at'[h] \in Busy => at'[h] = at[h]
BY DEF DocumentsTypeOK, MoveTo

\* Setting a timer touches no operation.
LEMMA DebounceAside ==
  ASSUME DocumentsTypeOK, NEW k \in Keys, Debounce(k, "watcher", "rest"), at["watcher"] \notin Busy
  PROVE  /\ at' \in [Actors -> Labels]
         /\ debounceMap' \in [Keys -> Timers \cup {"none"}] /\ key' \in [Timers -> Keys]
         /\ \A h \in Actors : at[h] \in Busy \/ at'[h] \in Busy => at'[h] = at[h]
<1>1. "rest" \in Labels /\ {"rest", "pending"} \cap Busy = {}
  BY DEF Labels, Busy
<1>. QED BY <1>1, DebounceTyped

\* Changes of the file.
LEMMA ChangedAside ==
  ASSUME DocumentsTypeOK, NEW f \in {0, changes + 1}, NEW es \in Seq({"create", "write", "remove", "rename"}),
         Changed(f, es), excused' \subseteq {"overlap", "replaced", "not registered"}
  PROVE  DocumentsTypeOK' /\ Aside
<1>1. changes' = changes + 1 /\ disk' = f /\ changes < MaxChanges
  BY DEF Changed
<1>2. /\ disk' \in 0 .. changes' /\ changes' \in 1 .. MaxChanges
      /\ 0 .. changes \subseteq 0 .. changes'
  <2>1. changes \in Nat /\ MaxChanges \in Nat
    BY Numbers
  <2>2. /\ 0 .. changes \subseteq 0 .. changes + 1 /\ {0, changes + 1} \subseteq 0 .. changes + 1
        /\ changes + 1 \in 1 .. MaxChanges
    BY <1>1, <2>1, Intervals
  <2>. QED BY <1>1, <2>2
<1>3. events' \in Seq({"create", "write", "remove", "rename"})
  <2>1. events \o es \in Seq({"create", "write", "remove", "rename"})
    BY QueueTyped DEF DocumentsTypeOK
  <2>. QED BY <2>1 DEF Changed, DocumentsTypeOK
<1>4. UNCHANGED <<watch, timers, at, local, openFiles, document, misused, overlapped>>
  BY DEF Changed
<1>5. content' \in [Actors -> 0 .. changes'] /\ text' \in 0 .. changes'
  BY <1>2, <1>4 DEF DocumentsTypeOK, local, document
<1>6. DocumentsTypeOK'
  BY <1>2, <1>3, <1>4, <1>5 DEF DocumentsTypeOK, watch, timers, local, document
<1>. QED BY <1>4, <1>6 DEF Aside

\* The watcher.
LEMMA WatcherAside ==
  ASSUME DocumentsTypeOK, OnCreate \/ Stat \/ OnWrite \/ OnRemove
  PROVE  DocumentsTypeOK' /\ Aside
<1>0. /\ "watcher" \in Actors /\ {"rest", "open", "stat"} \subseteq Labels \ Busy
      /\ Keys = {"created", "changed"}
  BY Roles DEF Labels, Busy, Keys
<1>1. ASSUME events # <<>>
      PROVE  Tail(events) \in Seq({"create", "write", "remove", "rename"})
  BY <1>1, QueueTyped DEF DocumentsTypeOK
<1>2. CASE OnCreate
  <2>1. MoveTo("watcher", "open") \/ MoveTo("watcher", "stat")
    BY <1>2 DEF OnCreate, MoveTo
  <2>2. at["watcher"] \notin Busy
    BY <1>2 DEF OnCreate, Takes, Busy
  <2>3. /\ at' \in [Actors -> Labels]
        /\ \A h \in Actors : at[h] \in Busy \/ at'[h] \in Busy => at'[h] = at[h]
    BY <1>0, <2>1, <2>2, GotoAside
  <2>4. events' \in Seq({"create", "write", "remove", "rename"})
    BY <1>1, <1>2 DEF OnCreate, Takes
  <2>. QED BY <1>2, <2>3, <2>4 DEF OnCreate, Aside, DocumentsTypeOK, disks, watch, timers, local, document
<1>3. CASE Stat
  <2>1. at["watcher"] \notin Busy
    BY <1>3 DEF Stat, Busy
  <2>2. UNCHANGED <<disks, kinds, eager, local, openFiles, document, misused, overlapped, excused>>
    BY <1>3 DEF Stat
  <2>3. CASE Debounce("created", "watcher", "rest") /\ UNCHANGED <<watching, events>>
    BY <1>0, <2>1, <2>2, <2>3, DebounceAside DEF Aside, DocumentsTypeOK, disks, local, document
  <2>4. CASE MoveTo("watcher", "rest") /\ UNCHANGED timers
             /\ watching' \in BOOLEAN /\ (events' = events \/ events' = <<>>)
    <3>1. /\ at' \in [Actors -> Labels]
          /\ \A h \in Actors : at[h] \in Busy \/ at'[h] \in Busy => at'[h] = at[h]
      BY <1>0, <2>1, <2>4, GotoAside
    <3>2. events' \in Seq({"create", "write", "remove", "rename"})
      BY <2>4, QueueTyped DEF DocumentsTypeOK
    <3>. QED BY <2>2, <2>4, <3>1, <3>2 DEF Aside, DocumentsTypeOK, disks, timers, local, document
  <2>5. watching \in BOOLEAN
    BY DEF DocumentsTypeOK
  <2>. QED BY <1>3, <2>3, <2>4, <2>5 DEF Stat
<1>4. CASE OnWrite
  <2>1. at["watcher"] = "rest" /\ events' = Tail(events) /\ events # <<>>
        /\ UNCHANGED <<disks, watch, local, openFiles, document, misused, overlapped>>
    BY <1>4 DEF OnWrite, Takes
  <2>2. CASE Debounce("changed", "watcher", "rest") /\ UNCHANGED excused
    BY <1>0, <1>1, <2>1, <2>2, DebounceAside DEF Aside, DocumentsTypeOK, disks, watch, local, document, Busy
  <2>3. CASE excused' = excused \cup {"not registered"} /\ UNCHANGED <<timers, at>>
    BY <1>1, <2>1, <2>3 DEF Aside, DocumentsTypeOK, disks, watch, timers, local, document
  <2>. QED BY <1>4, <2>2, <2>3 DEF OnWrite
<1>5. CASE OnRemove
  <2>1. at["watcher"] = "rest" /\ events' = Tail(events) /\ events # <<>>
        /\ UNCHANGED <<disks, watch, local, openFiles, document, misused, overlapped, excused>>
    BY <1>5 DEF OnRemove, Takes
  <2>2. CASE Debounce("created", "watcher", "rest")
    BY <1>0, <1>1, <2>1, <2>2, DebounceAside DEF Aside, DocumentsTypeOK, disks, watch, local, document, Busy
  <2>3. CASE UNCHANGED <<timers, at>>
    BY <1>1, <2>1, <2>3 DEF Aside, DocumentsTypeOK, disks, watch, timers, local, document
  <2>. QED BY <1>5, <2>2, <2>3 DEF OnRemove
<1>. QED BY <1>2, <1>3, <1>4, <1>5

\* Timers that fire and clean up, tools that begin, registrations.
LEMMA OthersAside ==
  ASSUME DocumentsTypeOK,
         \/ \E g \in Tools : ToolBegins(g)
         \/ \E t \in Timers : Fire(t) \/ Cleanup(t)
         \/ \E k \in WatchKinds : AddRegistrations(k)
  PROVE  DocumentsTypeOK' /\ Aside
<1>0. {"is open", "open", "handle", "rest", "cleanup"} \subseteq Labels \ Busy
  BY DEF Labels, Busy
<1>1. ASSUME NEW g \in Tools, ToolBegins(g) PROVE DocumentsTypeOK' /\ Aside
  <2>1. at[g] \notin Busy /\ g \in Actors
    BY <1>1, Roles DEF ToolBegins, Busy
  <2>2. PICK l \in {"open", "is open"} : MoveTo(g, l)
    BY <1>1 DEF ToolBegins
  <2>3. /\ at' \in [Actors -> Labels]
        /\ \A h \in Actors : at[h] \in Busy \/ at'[h] \in Busy => at'[h] = at[h]
    BY <1>0, <2>1, <2>2, GotoAside
  <2>. QED BY <1>1, <2>3 DEF ToolBegins, Aside, DocumentsTypeOK, disks, watch, timers, local, document
<1>2. ASSUME NEW t \in Timers, Fire(t) PROVE DocumentsTypeOK' /\ Aside
  <2>1. at[t] \notin Busy /\ t \in Actors /\ MoveTo(t, "handle")
    BY <1>2, Roles DEF Fire, Busy
  <2>2. /\ at' \in [Actors -> Labels]
        /\ \A h \in Actors : at[h] \in Busy \/ at'[h] \in Busy => at'[h] = at[h]
    BY <1>0, <2>1, GotoAside
  <2>. QED BY <1>2, <2>2 DEF Fire, Aside, DocumentsTypeOK, disks, watch, timers, local, document
<1>3. ASSUME NEW t \in Timers, Cleanup(t) PROVE DocumentsTypeOK' /\ Aside
  <2>1. at[t] \notin Busy /\ t \in Actors /\ MoveTo(t, "rest")
    BY <1>3, Roles DEF Cleanup, Busy
  <2>2. /\ at' \in [Actors -> Labels]
        /\ \A h \in Actors : at[h] \in Busy \/ at'[h] \in Busy => at'[h] = at[h]
    BY <1>0, <2>1, GotoAside
  <2>3. debounceMap' \in [Keys -> Timers \cup {"none"}] /\ key' \in [Timers -> Keys]
    BY <1>3 DEF Cleanup, DocumentsTypeOK, Keys
  <2>. QED BY <1>3, <2>2, <2>3 DEF Cleanup, Aside, DocumentsTypeOK, disks, watch, local, document
<1>4. ASSUME NEW k \in WatchKinds, AddRegistrations(k) PROVE DocumentsTypeOK' /\ Aside
  <2>1. at["preload"] \notin Busy /\ "preload" \in Actors
    BY <1>4, Roles DEF AddRegistrations, Busy
  <2>2. MoveTo("preload", "is open") \/ MoveTo("preload", "rest")
    BY <1>4 DEF AddRegistrations, MoveTo
  <2>3. /\ at' \in [Actors -> Labels]
        /\ \A h \in Actors : at[h] \in Busy \/ at'[h] \in Busy => at'[h] = at[h]
    BY <1>0, <2>1, <2>2, GotoAside
  <2>. QED BY <1>4, <2>3 DEF AddRegistrations, Aside, DocumentsTypeOK, disks, timers, local, document
<1>. QED BY <1>1, <1>2, <1>3, <1>4

\* A timer that has fired begins an operation, or has nothing to do.
LEMMA HandleTyped ==
  ASSUME DocumentsTypeOK, NEW t \in Timers, HandleFileEvent(t)
  PROVE  /\ DocumentsTypeOK'
         /\ Aside \/ (MoveTo(t, "read to change") /\ Begin(t) /\ openFiles # 0
                      /\ UNCHANGED <<openFiles, document, misused, local>>)
<1>1. t \in Actors /\ at[t] \notin Busy
      /\ UNCHANGED <<disks, events, watch, timers, local, openFiles, document, misused>>
  BY Roles DEF HandleFileEvent, Busy
<1>2. CASE MoveTo(t, "read to change") /\ Begin(t) /\ openFiles # 0
  <2>1. at' \in [Actors -> Labels]
    BY <1>1, <1>2, GotoTyped DEF Labels, Busy
  <2>2. overlapped' \in BOOLEAN /\ excused' \subseteq {"overlap", "replaced", "not registered"}
    BY <1>1, <1>2, BeginTyped
  <2>. QED BY <1>1, <1>2, <2>1, <2>2 DEF DocumentsTypeOK, disks, watch, timers, local, document
<1>3. CASE MoveTo(t, "cleanup") /\ UNCHANGED overlapped
           /\ excused' \subseteq excused \cup {"overlap"}
  <2>1. "cleanup" \in Labels \ Busy
    BY DEF Labels, Busy
  <2>2. /\ at' \in [Actors -> Labels]
        /\ \A h \in Actors : at[h] \in Busy \/ at'[h] \in Busy => at'[h] = at[h]
    BY <1>1, <1>3, <2>1, GotoAside
  <2>. QED BY <1>1, <1>3, <2>2 DEF Aside, DocumentsTypeOK, disks, watch, timers, local, document
<1>. QED BY <1>2, <1>3 DEF HandleFileEvent

\* The file is changed.
LEMMA FileAside ==
  ASSUME DocumentsTypeOK, WriteInPlace \/ Replace \/ Remove("remove") \/ Remove("rename")
  PROVE  DocumentsTypeOK' /\ Aside
<1>. DEFINE Kinds == {"create", "write", "remove", "rename"}
<1>0. <<"create", "write">> \in Seq(Kinds) /\ <<"write">> \in Seq(Kinds) /\ <<"create">> \in Seq(Kinds)
      /\ <<"remove">> \in Seq(Kinds) /\ <<"rename">> \in Seq(Kinds)
  OBVIOUS
<1>1. excused \subseteq {"overlap", "replaced", "not registered"}
  BY DEF DocumentsTypeOK
<1>2. CASE WriteInPlace
  <2>1. PICK es \in Seq(Kinds) : Changed(changes + 1, es)
    BY <1>0, <1>2 DEF WriteInPlace
  <2>. QED BY <1>1, <1>2, <2>1, ChangedAside DEF WriteInPlace
<1>3. CASE Replace
  <2>1. excused' \subseteq {"overlap", "replaced", "not registered"}
    BY <1>1, <1>3 DEF Replace
  <2>. QED BY <1>0, <1>3, <2>1, ChangedAside DEF Replace
<1>4. CASE Remove("remove")
  BY <1>0, <1>1, <1>4, ChangedAside DEF Remove
<1>5. CASE Remove("rename")
  BY <1>0, <1>1, <1>5, ChangedAside DEF Remove
<1>. QED BY <1>2, <1>3, <1>4, <1>5

\* Every step is an operation's, begins one, or is aside.
LEMMA DocumentsNextTyped ==
  ASSUME DocumentsTypeOK, DocumentsNext
  PROVE  /\ DocumentsTypeOK'
         /\ \/ Aside
            \/ \E g \in Actors : Operate(g)
            \/ \E t \in Timers :
                 /\ MoveTo(t, "read to change") /\ Begin(t) /\ openFiles # 0 /\ at[t] = "handle"
                 /\ UNCHANGED <<openFiles, document, misused, local>>
<1>1. CASE \E g \in Actors : Operate(g)
  BY <1>1, OperateTyped
<1>2. CASE \/ \E g \in Tools : ToolBegins(g)
           \/ \E t \in Timers : Fire(t) \/ Cleanup(t)
           \/ \E k \in WatchKinds : AddRegistrations(k)
  BY <1>2, OthersAside
<1>3. ASSUME NEW t \in Timers, HandleFileEvent(t)
      PROVE  /\ DocumentsTypeOK'
             /\ Aside \/ (MoveTo(t, "read to change") /\ Begin(t) /\ openFiles # 0 /\ at[t] = "handle"
                          /\ UNCHANGED <<openFiles, document, misused, local>>)
  <2>1. at[t] = "handle"
    BY <1>3 DEF HandleFileEvent
  <2>. QED BY <1>3, <2>1, HandleTyped
<1>4. CASE OnCreate \/ Stat \/ OnWrite \/ OnRemove
  BY <1>4, WatcherAside
<1>5. CASE WriteInPlace \/ Replace \/ Remove("remove") \/ Remove("rename")
  BY <1>5, FileAside
<1>. QED BY <1>1, <1>2, <1>3, <1>4, <1>5 DEF DocumentsNext

\* The variables have their types, for any tools, timers and registrations.
THEOREM DocumentsTypeCorrect == DocumentsSpec => []DocumentsTypeOK
<1>1. DocumentsTypeOK /\ [DocumentsNext]_documentVars => DocumentsTypeOK'
  <2>1. DocumentsTypeOK /\ UNCHANGED documentVars => DocumentsTypeOK'
    BY DEF DocumentsTypeOK, documentVars, disks, watch, timers, local, document
  <2>. QED BY <2>1, DocumentsNextTyped
<1>. QED BY <1>1, DocumentsInitTyped, PTL DEF DocumentsSpec

---------------------------------------------------------------------------
(* The protocol *)

\* At most one operation on the document is under way.
Alone == \A g, h \in Actors : at[g] \in Busy /\ at[h] \in Busy => g = h

\* Between operations the client's entry and the server's document agree.
Agree == (openFiles = 0 <=> text = 0) /\ (openFiles # 0 => textVersion = openFiles)

\* What the operation of g has done so far.
Progress(g) ==
  /\ at[g] \in {"read to open", "did open"} => openFiles = 0 /\ text = 0
  /\ at[g] = "record" => openFiles = 0 /\ text # 0 /\ textVersion = 1
  /\ at[g] \in {"read to change", "bump"} => openFiles # 0 /\ text # 0 /\ textVersion = openFiles
  /\ at[g] = "did change" => text # 0 /\ version[g] = openFiles /\ openFiles = textVersion + 1
  /\ at[g] \in {"did open", "bump", "did change"} => content[g] # 0

Orderly ==
  /\ Alone
  /\ \A g \in Actors : at[g] \in Busy => Progress(g)
  /\ (\A g \in Actors : at[g] \notin Busy) => Agree

ProtocolInv == DocumentsTypeOK /\ (overlapped \/ (Orderly /\ ~misused))

\* The only operation begins, gets on or ends.
LEMMA OrderlyMove ==
  ASSUME DocumentsTypeOK, NEW g \in Actors, \A h \in Actors \ {g} : at[h] \notin Busy,
         NEW l, at' = [at EXCEPT ![g] = l],
         l \in Busy => Progress(g)', l \notin Busy => Agree'
  PROVE  Orderly'
<1>1. at'[g] = l /\ \A h \in Actors \ {g} : at'[h] \notin Busy
  BY DEF DocumentsTypeOK
<1>2. Alone'
  BY <1>1 DEF Alone, Busy
<1>3. \A h \in Actors : at'[h] \in Busy => Progress(h)'
  BY <1>1
<1>4. (\A h \in Actors : at'[h] \notin Busy) => Agree'
  BY <1>1
<1>. QED BY <1>2, <1>3, <1>4 DEF Orderly, Busy

\* An operation that ends leaves its goroutine at none.
LEMMA FinishMove ==
  ASSUME NEW g \in Actors, EndOperation(g)
  PROVE  \E l : l \notin Busy /\ at' = [at EXCEPT ![g] = l]
<1>1. CASE g \in Timers
  BY <1>1 DEF EndOperation, MoveTo, Busy
<1>2. CASE g \notin Timers /\ g = "watcher"
  <2>1. at' = [at EXCEPT ![g] = "stat"] /\ "stat" \notin Busy
    BY <1>2 DEF EndOperation, MoveTo, Busy
  <2>. QED BY <2>1
<1>3. CASE g \notin Timers /\ g # "watcher"
  BY <1>3 DEF EndOperation, MoveTo, Busy
<1>. QED BY <1>1, <1>2, <1>3

\* Nothing but the goroutines' other places changes.
LEMMA AsideOrderly ==
  ASSUME Orderly, UNCHANGED <<openFiles, text, textVersion>>,
         \A h \in Actors : at[h] \in Busy \/ at'[h] \in Busy =>
           at'[h] = at[h] /\ content'[h] = content[h] /\ version'[h] = version[h]
  PROVE  Orderly'
<1>1. Alone'
  BY DEF Orderly, Alone, Busy
<1>2. ASSUME NEW h \in Actors, at'[h] \in Busy PROVE Progress(h)'
  BY <1>2 DEF Orderly, Progress
<1>3. ASSUME \A h \in Actors : at'[h] \notin Busy PROVE Agree'
  BY <1>3 DEF Orderly, Agree
<1>. QED BY <1>1, <1>2, <1>3 DEF Orderly, Busy

\* An operation that begins alone.
LEMMA BeginAlone ==
  ASSUME NEW g \in Actors, Begin(g), ~overlapped'
  PROVE  ~overlapped /\ \A h \in Actors \ {g} : at[h] \notin Busy
BY DEF Begin

\* The operations, when they are alone.
LEMMA OperateOrderly ==
  ASSUME DocumentsTypeOK, Orderly, ~misused, NEW g \in Actors, Operate(g), ~overlapped'
  PROVE  Orderly' /\ ~misused'
<1>0. at[g] \in Busy => \A h \in Actors \ {g} : at[h] \notin Busy
  BY DEF Orderly, Alone
<1>1. CASE CheckOpen(g)
  <2>0. at[g] = "open" /\ UNCHANGED <<openFiles, document, misused>>
    BY <1>1 DEF CheckOpen
  <2>1. CASE openFiles # 0
    <3>1. EndOperation(g) /\ at[g] \notin Busy
      BY <1>1, <2>1 DEF CheckOpen, Busy
    <3>2. PICK l : l \notin Busy /\ at' = [at EXCEPT ![g] = l]
      BY <3>1, FinishMove
    <3>3. \A h \in Actors : at[h] \in Busy \/ at'[h] \in Busy =>
            at'[h] = at[h] /\ content'[h] = content[h] /\ version'[h] = version[h]
      BY <3>1, <3>2 DEF EndOperation, DocumentsTypeOK
    <3>. QED BY <2>0, <3>3, AsideOrderly DEF document
  <2>2. CASE openFiles = 0
    <3>1. Begin(g) /\ at' = [at EXCEPT ![g] = "read to open"]
      BY <1>1, <2>2 DEF CheckOpen, MoveTo
    <3>2. \A h \in Actors \ {g} : at[h] \notin Busy
      BY <3>1, BeginAlone
    <3>3. \A h \in Actors : at[h] \notin Busy
      BY <2>0, <3>2 DEF Busy
    <3>4. at'[g] = "read to open" /\ openFiles' = 0 /\ text' = 0
      BY <2>0, <2>2, <3>1, <3>3 DEF DocumentsTypeOK, Orderly, Agree, document
    <3>5. Progress(g)' /\ "read to open" \in Busy
      BY <3>4 DEF Progress, Busy
    <3>. QED BY <2>0, <3>1, <3>2, <3>5, OrderlyMove
  <2>. QED BY <2>1, <2>2
<1>2. CASE ReadFile(g)
  <2>1. at[g] \in Busy /\ UNCHANGED <<openFiles, text, textVersion, misused>>
    BY <1>2 DEF ReadFile, Busy, document
  <2>2. Progress(g)
    BY <2>1 DEF Orderly
  <2>3. CASE disk = 0
    <3>1. PICK l : l \notin Busy /\ at' = [at EXCEPT ![g] = l]
      BY <1>2, <2>3, FinishMove DEF ReadFile
    <3>2. Agree'
      BY <1>2, <2>1, <2>2 DEF ReadFile, Progress, Agree
    <3>. QED BY <1>0, <2>1, <3>1, <3>2, OrderlyMove
  <2>4. CASE disk # 0
    <3>1. content'[g] # 0
      BY <1>2, <2>4 DEF ReadFile, DocumentsTypeOK
    <3>2. CASE at[g] = "read to open"
      <4>1. at' = [at EXCEPT ![g] = "did open"]
        BY <1>2, <2>4, <3>2 DEF ReadFile, MoveTo
      <4>2. at'[g] = "did open" /\ openFiles' = 0 /\ text' = 0
        BY <2>1, <2>2, <3>2, <4>1 DEF DocumentsTypeOK, Progress
      <4>3. Progress(g)' /\ "did open" \in Busy
        BY <3>1, <4>2 DEF Progress, Busy
      <4>. QED BY <1>0, <2>1, <4>1, <4>3, OrderlyMove
    <3>3. CASE at[g] = "read to change"
      <4>1. at' = [at EXCEPT ![g] = "bump"]
        BY <1>2, <2>4, <3>3 DEF ReadFile, MoveTo
      <4>2. at'[g] = "bump" /\ openFiles' # 0 /\ text' # 0 /\ textVersion' = openFiles'
        BY <2>1, <2>2, <3>3, <4>1 DEF DocumentsTypeOK, Progress
      <4>3. Progress(g)' /\ "bump" \in Busy
        BY <3>1, <4>2 DEF Progress, Busy
      <4>. QED BY <1>0, <2>1, <4>1, <4>3, OrderlyMove
    <3>. QED BY <1>2, <3>2, <3>3 DEF ReadFile
  <2>. QED BY <2>3, <2>4
<1>3. CASE DidOpen(g)
  <2>1. at[g] = "did open" /\ at[g] \in Busy /\ openFiles' = openFiles
        /\ misused' = (misused \/ text # 0) /\ text' = content[g] /\ textVersion' = 1
        /\ at' = [at EXCEPT ![g] = "record"]
    BY <1>3 DEF DidOpen, MoveTo, Busy
  <2>2. openFiles = 0 /\ text = 0 /\ content[g] # 0
    BY <2>1 DEF Orderly, Progress
  <2>3. at'[g] = "record"
    BY <2>1 DEF DocumentsTypeOK
  <2>4. Progress(g)' /\ "record" \in Busy
    BY <2>1, <2>2, <2>3 DEF Progress, Busy
  <2>. QED BY <1>0, <2>1, <2>2, <2>4, OrderlyMove
<1>4. CASE Record(g)
  <2>1. at[g] = "record" /\ at[g] \in Busy /\ openFiles' = 1 /\ EndOperation(g)
        /\ UNCHANGED <<text, textVersion, misused>>
    BY <1>4 DEF Record, Busy, document
  <2>2. text # 0 /\ textVersion = 1
    BY <2>1 DEF Orderly, Progress
  <2>3. PICK l : l \notin Busy /\ at' = [at EXCEPT ![g] = l]
    BY <2>1, FinishMove
  <2>4. Agree'
    BY <2>1, <2>2 DEF Agree
  <2>. QED BY <1>0, <2>1, <2>3, <2>4, OrderlyMove
<1>5. CASE Bump(g)
  <2>1. at[g] = "bump" /\ at[g] \in Busy /\ UNCHANGED <<text, textVersion, misused>>
    BY <1>5 DEF Bump, Busy, document
  <2>2. openFiles # 0 /\ text # 0 /\ textVersion = openFiles /\ content[g] # 0
    BY <2>1 DEF Orderly, Progress
  <2>3. openFiles' = openFiles + 1 /\ version' = [version EXCEPT ![g] = openFiles + 1]
        /\ content' = content /\ at' = [at EXCEPT ![g] = "did change"]
    BY <1>5, <2>2 DEF Bump, MoveTo
  <2>4. at'[g] = "did change" /\ version'[g] = openFiles + 1
    BY <2>3 DEF DocumentsTypeOK
  <2>5. Progress(g)' /\ "did change" \in Busy
    BY <2>1, <2>2, <2>3, <2>4 DEF Progress, Busy
  <2>. QED BY <1>0, <2>1, <2>3, <2>5, OrderlyMove
<1>6. CASE DidChange(g)
  <2>1. at[g] = "did change" /\ at[g] \in Busy /\ openFiles' = openFiles /\ EndOperation(g)
        /\ misused' = (misused \/ text = 0 \/ version[g] <= textVersion)
        /\ text' = content[g] /\ textVersion' = version[g]
    BY <1>6 DEF DidChange, Busy
  <2>2. text # 0 /\ content[g] # 0 /\ version[g] = openFiles /\ openFiles = textVersion + 1
    BY <2>1 DEF Orderly, Progress
  <2>3. ~(version[g] <= textVersion) /\ openFiles # 0
    BY <2>2, Numbers
  <2>4. PICK l : l \notin Busy /\ at' = [at EXCEPT ![g] = l]
    BY <2>1, FinishMove
  <2>5. Agree'
    BY <2>1, <2>2, <2>3 DEF Agree
  <2>. QED BY <1>0, <2>1, <2>2, <2>3, <2>4, <2>5, OrderlyMove
<1>7. CASE IsFileOpen(g)
  <2>0. at[g] = "is open" /\ at[g] \notin Busy /\ UNCHANGED <<openFiles, text, textVersion, misused>>
    BY <1>7 DEF IsFileOpen, Busy, document
  <2>1. CASE openFiles = 0
    <3>1. at' = [at EXCEPT ![g] = "open"] /\ UNCHANGED local
      BY <1>7, <2>1 DEF IsFileOpen, MoveTo
    <3>2. \A h \in Actors : at[h] \in Busy \/ at'[h] \in Busy =>
            at'[h] = at[h] /\ content'[h] = content[h] /\ version'[h] = version[h]
      BY <2>0, <3>1 DEF DocumentsTypeOK, Busy, local
    <3>. QED BY <2>0, <3>2, AsideOrderly
  <2>2. CASE openFiles # 0 /\ g = "preload"
    <3>1. EndOperation(g)
      BY <1>7, <2>2 DEF IsFileOpen
    <3>2. PICK l : l \notin Busy /\ at' = [at EXCEPT ![g] = l]
      BY <3>1, FinishMove
    <3>3. \A h \in Actors : at[h] \in Busy \/ at'[h] \in Busy =>
            at'[h] = at[h] /\ content'[h] = content[h] /\ version'[h] = version[h]
      BY <2>0, <3>1, <3>2 DEF EndOperation, DocumentsTypeOK
    <3>. QED BY <2>0, <3>3, AsideOrderly
  <2>3. CASE openFiles # 0 /\ g # "preload"
    <3>1. Begin(g) /\ at' = [at EXCEPT ![g] = "read to change"]
      BY <1>7, <2>3 DEF IsFileOpen, MoveTo
    <3>2. \A h \in Actors \ {g} : at[h] \notin Busy
      BY <3>1, BeginAlone
    <3>3. Agree
      BY <2>0, <3>2 DEF Orderly
    <3>4. at'[g] = "read to change"
      BY <3>1 DEF DocumentsTypeOK
    <3>5. Progress(g)' /\ "read to change" \in Busy
      BY <2>0, <2>3, <3>3, <3>4 DEF Progress, Agree, Busy
    <3>. QED BY <2>0, <3>1, <3>2, <3>5, OrderlyMove
  <2>. QED BY <2>1, <2>2, <2>3
<1>. QED BY <1>1, <1>2, <1>3, <1>4, <1>5, <1>6, <1>7 DEF Operate

\* The invariant is kept: once two operations have overlapped it says no more.
LEMMA NextProtocol == ProtocolInv /\ [DocumentsNext]_documentVars => ProtocolInv'
<1> SUFFICES ASSUME ProtocolInv, [DocumentsNext]_documentVars, ~overlapped'
             PROVE  DocumentsTypeOK' /\ Orderly' /\ ~misused'
  BY DocumentsNextTyped DEF ProtocolInv, DocumentsTypeOK, documentVars, disks, watch, timers, local, document
<1>1. CASE UNCHANGED documentVars
  <2>1. DocumentsTypeOK'
    BY <1>1 DEF ProtocolInv, DocumentsTypeOK, documentVars, disks, watch, timers, local, document
  <2>2. ~overlapped /\ UNCHANGED <<openFiles, text, textVersion, misused, at, content, version>>
    BY <1>1 DEF documentVars, document, local
  <2>. QED BY <2>1, <2>2, AsideOrderly DEF ProtocolInv
<1>2. CASE DocumentsNext
  <2>1. DocumentsTypeOK' /\ DocumentsTypeOK
    BY <1>2, DocumentsNextTyped DEF ProtocolInv
  <2>2. CASE Aside
    BY <2>1, <2>2, AsideOrderly DEF Aside, ProtocolInv, document, local
  <2>3. ASSUME NEW g \in Actors, Operate(g) PROVE Orderly' /\ ~misused'
    <3>1. ~overlapped
      <4>1. overlapped' = overlapped \/ Begin(g)
        BY <2>3 DEF Operate, CheckOpen, ReadFile, DidOpen, Record, Bump, DidChange, IsFileOpen
      <4>. QED BY <4>1, BeginAlone
    <3>. QED BY <2>1, <2>3, <3>1, OperateOrderly DEF ProtocolInv
  <2>4. ASSUME NEW t \in Timers, MoveTo(t, "read to change"), Begin(t), openFiles # 0, at[t] = "handle",
               UNCHANGED <<openFiles, document, misused, local>>
        PROVE  Orderly' /\ ~misused'
    <3>1. t \in Actors /\ ~overlapped /\ (\A h \in Actors \ {t} : at[h] \notin Busy)
      BY <2>4, Roles, BeginAlone
    <3>2. Orderly /\ ~misused
      BY <3>1 DEF ProtocolInv
    <3>3. Agree
      BY <2>4, <3>1, <3>2 DEF Orderly, Busy
    <3>4. at' = [at EXCEPT ![t] = "read to change"]
      BY <2>4 DEF MoveTo
    <3>5. at'[t] = "read to change"
      BY <2>1, <3>1, <3>4 DEF DocumentsTypeOK
    <3>6. Progress(t)' /\ "read to change" \in Busy
      BY <2>4, <3>3, <3>5 DEF Progress, Agree, Busy, document
    <3>. QED BY <2>1, <2>4, <3>1, <3>2, <3>4, <3>6, OrderlyMove
  <2>. QED BY <1>2, <2>1, <2>2, <2>3, <2>4, DocumentsNextTyped
<1>. QED BY <1>1, <1>2

\* However the tools, the watcher and its timers take turns at OpenFile and
\* NotifyChange, the server is told to open a document that is not open, and
\* versions that grow, until two of these operations have overlapped.
THEOREM ProtocolHolds == DocumentsSpec => []ProtocolKept
<1>1. DocumentsInit => ProtocolInv
  <2>1. DocumentsInit => Alone /\ Agree /\ (\A g \in Actors : at[g] \notin Busy) /\ ~misused
    BY DEF DocumentsInit, Alone, Agree, Busy
  <2>. QED BY <2>1, DocumentsInitTyped DEF ProtocolInv, Orderly
<1>2. ProtocolInv => ProtocolKept
  BY DEF ProtocolInv, ProtocolKept
<1>. QED BY <1>1, <1>2, NextProtocol, PTL DEF DocumentsSpec

---------------------------------------------------------------------------
(* The last change *)

\* The timer of a key is in use, and for that key.
TimersMapped ==
  \A k \in Keys : debounceMap[k] # "none" =>
    at[debounceMap[k]] # "rest" /\ key[debounceMap[k]] = k

\* A change the watcher will bring to the server, if the document is open then.
Coming ==
  \/ \E i \in DOMAIN events : events[i] = "write"
  \/ \E t \in Timers : at[t] \in {"pending", "handle"} /\ key[t] = "changed"

\* What g has read and the server is to get, or has got before it is recorded.
UpToDate(g) ==
  /\ at[g] \in {"did open", "bump", "did change"} => content[g] = disk
  /\ at[g] = "record" => text = disk

\* The server's text of an open document is the file's, or will be.
Followed ==
  \/ disk = 0 \/ Coming
  \/ /\ \A g \in Actors : UpToDate(g)
     /\ openFiles # 0 /\ (\A g \in Actors : at[g] \notin Busy) => text = disk

SeesInv ==
  /\ DocumentsTypeOK /\ TimersMapped
  /\ excused = {} => Alone
  /\ excused = {} /\ watching => Followed

\* The invariant says what it is for.
LEMMA SeesImplies == SeesInv => ServerSeesFile
<1> SUFFICES ASSUME SeesInv, Quiet, watching, openFiles # 0, disk # 0, excused = {}
             PROVE  text = disk
  BY DEF ServerSeesFile
<1>1. Followed
  BY DEF SeesInv
<1>2. \A g \in Actors : at[g] = "rest" /\ at[g] \notin Busy
  BY DEF Quiet, Busy
<1>3. ~Coming
  <2>1. DOMAIN events = {}
    BY DEF Quiet
  <2>. QED BY <1>2, <2>1, Roles DEF Coming
<1>. QED BY <1>1, <1>2, <1>3 DEF Followed

\* A timer in use stays in use, and the map and the keys are left alone.
LEMMA MapKept ==
  ASSUME DocumentsTypeOK, TimersMapped, UNCHANGED timers,
         \A t \in Timers : at'[t] = "rest" => at[t] = "rest"
  PROVE  TimersMapped'
BY DEF DocumentsTypeOK, TimersMapped, timers

\* What is coming stays coming when no write is taken and no timer of a change
\* is stopped or begins to handle it.
LEMMA ComingKept ==
  ASSUME Coming, UNCHANGED <<events, key>>,
         \A t \in Timers : at[t] \in {"pending", "handle"} => at'[t] \in {"pending", "handle"}
  PROVE  Coming'
BY DEF Coming

\* A new timer takes the place of the one of its own key, and of no other.
LEMMA DebounceMapped ==
  ASSUME DocumentsTypeOK, TimersMapped, NEW k \in Keys, Debounce(k, "watcher", "rest")
  PROVE  /\ TimersMapped'
         /\ \E t \in Timers : at'[t] = "pending" /\ key'[t] = k
         /\ \A t \in Timers : key[t] # k /\ at[t] \in {"pending", "handle"} =>
              at'[t] = at[t] /\ key'[t] = key[t]
<1>1. PICK t \in Timers :
        /\ at[t] = "rest" \/ (t = debounceMap[k] /\ at[t] = "pending")
        /\ debounceMap' = [debounceMap EXCEPT ![k] = t]
        /\ key' = [key EXCEPT ![t] = k]
        /\ at' = [h \in Actors |->
                    CASE h = "watcher" -> "rest"
                      [] h = t -> "pending"
                      [] h = debounceMap[k] /\ h # t /\ at[h] = "pending" -> "rest"
                      [] OTHER -> at[h]]
  BY DEF Debounce
<1>2. at'[t] = "pending" /\ key'[t] = k /\ debounceMap'[k] = t
  <2>1. t # "watcher" /\ t \in Actors
    BY Roles
  <2>. QED BY <1>1, <2>1 DEF DocumentsTypeOK
<1>3. debounceMap[k] \in Timers => key[debounceMap[k]] = k
  BY Roles DEF TimersMapped
<1>4. ASSUME NEW s \in Timers, key[s] # k, at[s] # "rest"
      PROVE  at'[s] = at[s] /\ key'[s] = key[s] /\ s # t
  <2>1. s # t /\ s # debounceMap[k] /\ s # "watcher" /\ s \in Actors
    BY <1>1, <1>3, <1>4, Roles
  <2>. QED BY <1>1, <2>1 DEF DocumentsTypeOK
<1>5. ASSUME NEW j \in Keys, debounceMap'[j] # "none"
      PROVE  at'[debounceMap'[j]] # "rest" /\ key'[debounceMap'[j]] = j
  <2>1. CASE j = k
    BY <1>2, <2>1
  <2>2. CASE j # k
    <3>1. debounceMap'[j] = debounceMap[j] /\ debounceMap[j] \in Timers
      BY <1>1, <1>5, <2>2 DEF DocumentsTypeOK
    <3>2. at[debounceMap[j]] # "rest" /\ key[debounceMap[j]] = j
      BY <1>5, <3>1 DEF TimersMapped
    <3>. QED BY <1>4, <2>2, <3>1, <3>2
  <2>. QED BY <2>1, <2>2
<1>6. TimersMapped'
  BY <1>5 DEF TimersMapped
<1>. QED BY <1>2, <1>4, <1>6

\* A timer for new files leaves what is coming alone; one for changes brings one.
LEMMA DebounceComing ==
  ASSUME DocumentsTypeOK, TimersMapped, NEW k \in Keys, Debounce(k, "watcher", "rest")
  PROVE  /\ k = "changed" => Coming'
         /\ (\E i \in DOMAIN events' : events'[i] = "write") => Coming'
         /\ (\E t \in Timers : at[t] \in {"pending", "handle"} /\ key[t] = "changed") => Coming'
<1>1. k = "changed" => Coming'
  BY DebounceMapped DEF Coming
<1>2. ASSUME NEW t \in Timers, at[t] \in {"pending", "handle"}, key[t] = "changed", k # "changed"
      PROVE  Coming'
  <2>1. at'[t] = at[t] /\ key'[t] = key[t]
    BY <1>2, DebounceMapped
  <2>. QED BY <1>2, <2>1 DEF Coming
<1>. QED BY <1>1, <1>2 DEF Coming

---------------------------------------------------------------------------
(* Operations begin, go on and end *)

\* g begins to read the file for the document.
Begins(g) == Begin(g) /\ \E l \in {"read to open", "read to change"} : MoveTo(g, l)

\* From then on nothing it was excused for matters.
LEMMA BeginsFollowed ==
  ASSUME DocumentsTypeOK, NEW g \in Actors, Begins(g), excused' = {}
  PROVE  Alone' /\ Followed'
<1>1. PICK l \in {"read to open", "read to change"} : MoveTo(g, l)
  BY DEF Begins
<1>2. \A h \in Actors \ {g} : at[h] \notin Busy
  BY DEF Begins, Begin
<1>3. at'[g] = l /\ \A h \in Actors \ {g} : at'[h] \notin Busy
  BY <1>1, <1>2 DEF MoveTo, DocumentsTypeOK
<1>4. l \in Busy /\ l \notin {"did open", "bump", "did change", "record"}
  BY DEF Busy
<1>5. Alone'
  BY <1>3 DEF Alone, Busy
<1>6. ASSUME NEW h \in Actors PROVE UpToDate(h)'
  <2>1. at'[h] \notin {"did open", "bump", "did change", "record"}
    BY <1>3, <1>4 DEF Busy
  <2>. QED BY <2>1 DEF UpToDate
<1>7. ~(\A h \in Actors : at'[h] \notin Busy)
  BY <1>3, <1>4
<1>8. Followed'
  BY <1>6, <1>7 DEF Followed, Busy
<1>. QED BY <1>5, <1>8

\* The only operation gets on or ends.
LEMMA FollowedMove ==
  ASSUME DocumentsTypeOK, Followed, NEW g \in Actors, \A h \in Actors \ {g} : at[h] \notin Busy,
         NEW l, at' = [at EXCEPT ![g] = l], at[g] \notin {"pending", "handle"},
         UNCHANGED <<disk, events, key>>,
         disk = 0 \/ Coming \/ (UpToDate(g)' /\ (l \notin Busy /\ openFiles' # 0 => text' = disk'))
  PROVE  Followed'
<1>1. at'[g] = l /\ \A h \in Actors \ {g} : at'[h] = at[h] /\ at'[h] \notin Busy
  BY DEF DocumentsTypeOK
<1>2. CASE disk = 0
  BY <1>2 DEF Followed
<1>3. CASE Coming
  <2>1. \A t \in Timers : at[t] \in {"pending", "handle"} => at'[t] = at[t]
    BY <1>1, Roles
  <2>2. Coming'
    BY <1>3, <2>1, ComingKept
  <2>. QED BY <2>2 DEF Followed
<1>4. CASE UpToDate(g)' /\ (l \notin Busy /\ openFiles' # 0 => text' = disk')
  <2>1. ASSUME NEW h \in Actors \ {g} PROVE UpToDate(h)'
    <3>1. at'[h] \notin {"did open", "bump", "did change", "record"}
      BY <1>1 DEF Busy
    <3>. QED BY <3>1 DEF UpToDate
  <2>2. \A h \in Actors : UpToDate(h)'
    BY <1>4, <2>1
  <2>. QED BY <1>1, <1>4, <2>2 DEF Followed, Busy
<1>. QED BY <1>2, <1>3, <1>4

\* Nothing but the goroutines' other places changes.
LEMMA AsideFollowed ==
  ASSUME Followed, UNCHANGED <<disk, openFiles, text>>, Coming => Coming',
         \A h \in Actors : at[h] \in Busy \/ at'[h] \in Busy =>
           at'[h] = at[h] /\ content'[h] = content[h]
  PROVE  Followed'
<1>1. CASE disk = 0 \/ Coming
  BY <1>1 DEF Followed
<1>2. CASE /\ \A g \in Actors : UpToDate(g)
           /\ openFiles # 0 /\ (\A g \in Actors : at[g] \notin Busy) => text = disk
  <2>1. ASSUME NEW h \in Actors PROVE UpToDate(h)'
    BY <1>2 DEF UpToDate, Busy
  <2>2. openFiles' # 0 /\ (\A g \in Actors : at'[g] \notin Busy) => text' = disk'
    BY <1>2
  <2>. QED BY <2>1, <2>2 DEF Followed, Busy
<1>. QED BY <1>1, <1>2 DEF Followed


\* An operation begins, or nobody else does and what was excused stays so.
LEMMA OperateExcused ==
  ASSUME DocumentsTypeOK, NEW g \in Actors, Operate(g)
  PROVE  \/ Begins(g)
         \/ excused' = excused /\ \A h \in Actors : at'[h] \in Busy => at[h] \in Busy
<1>1. CASE CheckOpen(g)
  <2>1. CASE openFiles # 0
    <3>1. PICK l : l \notin Busy /\ at' = [at EXCEPT ![g] = l]
      BY <1>1, <2>1, FinishMove DEF CheckOpen
    <3>. QED BY <1>1, <2>1, <3>1 DEF CheckOpen, DocumentsTypeOK
  <2>2. CASE openFiles = 0
    BY <1>1, <2>2 DEF CheckOpen, Begins
  <2>. QED BY <2>1, <2>2
<1>2. CASE at[g] \in Busy
  <2>1. excused' = excused /\ \A h \in Actors \ {g} : at'[h] = at[h]
    BY <1>2 DEF Operate, CheckOpen, ReadFile, DidOpen, Record, Bump, DidChange, IsFileOpen,
                EndOperation, MoveTo, DocumentsTypeOK, Busy
  <2>. QED BY <1>2, <2>1
<1>3. CASE IsFileOpen(g)
  <2>1. CASE openFiles = 0
    BY <1>3, <2>1 DEF IsFileOpen, MoveTo, DocumentsTypeOK, Busy
  <2>2. CASE openFiles # 0 /\ g = "preload"
    <3>1. PICK l : l \notin Busy /\ at' = [at EXCEPT ![g] = l]
      BY <1>3, <2>2, FinishMove DEF IsFileOpen
    <3>. QED BY <1>3, <2>2, <3>1 DEF IsFileOpen, DocumentsTypeOK
  <2>3. CASE openFiles # 0 /\ g # "preload"
    BY <1>3, <2>3 DEF IsFileOpen, Begins
  <2>. QED BY <2>1, <2>2, <2>3
<1>4. ReadFile(g) \/ DidOpen(g) \/ Record(g) \/ Bump(g) \/ DidChange(g) => at[g] \in Busy
  BY DEF ReadFile, DidOpen, Record, Bump, DidChange, Busy
<1>. QED BY <1>1, <1>2, <1>3, <1>4 DEF Operate

\* What operations leave alone, be they alone or not.
LEMMA OperateMapped ==
  ASSUME DocumentsTypeOK, TimersMapped, NEW g \in Actors, Operate(g)
  PROVE  TimersMapped' /\ UNCHANGED <<disk, events, key, watching>>
<1>1. UNCHANGED <<disks, events, watch, timers>>
  BY DEF Operate, CheckOpen, ReadFile, DidOpen, Record, Bump, DidChange, IsFileOpen
<1>2. /\ \A h \in Actors \ {g} : at'[h] = at[h]
      /\ g \in Timers => at'[g] # "rest"
  BY DEF Operate, CheckOpen, ReadFile, DidOpen, Record, Bump, DidChange, IsFileOpen,
         EndOperation, MoveTo, DocumentsTypeOK
<1>. QED BY <1>1, <1>2, MapKept, Roles DEF disks, watch, timers

\* An operation that is alone reads the file as it is, and hands over what it read;
\* a change in the meantime is coming.
LEMMA OperateFollowed ==
  ASSUME DocumentsTypeOK, Alone, Followed, NEW g \in Actors, Operate(g), ~Begins(g), TimersMapped
  PROVE  Followed'
<1>0. /\ at[g] \in Busy => \A h \in Actors \ {g} : at[h] \notin Busy
      /\ UNCHANGED <<disk, events, key>>
      /\ at[g] \notin {"pending", "handle"}
  BY OperateMapped DEF Alone, Operate, CheckOpen, ReadFile, DidOpen, Record, Bump, DidChange, IsFileOpen
<1>1. CASE disk = 0
  BY <1>0, <1>1 DEF Followed
<1>2. CASE Coming
  <2>1. \A h \in Actors \ {g} : at'[h] = at[h]
    BY DEF Operate, CheckOpen, ReadFile, DidOpen, Record, Bump, DidChange, IsFileOpen,
           EndOperation, MoveTo, DocumentsTypeOK
  <2>2. Coming'
    BY <1>0, <1>2, <2>1, ComingKept, Roles
  <2>. QED BY <2>2 DEF Followed
<1>3. CASE disk # 0 /\ ~Coming
  <2>1. /\ \A h \in Actors : UpToDate(h)
        /\ openFiles # 0 /\ (\A h \in Actors : at[h] \notin Busy) => text = disk
    BY <1>3 DEF Followed
  <2>2. CASE (CheckOpen(g) /\ openFiles # 0) \/ (IsFileOpen(g) /\ openFiles # 0 /\ g = "preload")
    <3>1. EndOperation(g) /\ at[g] \notin Busy /\ UNCHANGED <<openFiles, text>>
      BY <2>2 DEF CheckOpen, IsFileOpen, Busy, document
    <3>2. PICK l : l \notin Busy /\ at' = [at EXCEPT ![g] = l]
      BY <3>1, FinishMove
    <3>3. \A h \in Actors : at[h] \in Busy \/ at'[h] \in Busy =>
            at'[h] = at[h] /\ content'[h] = content[h]
      BY <3>1, <3>2 DEF EndOperation, DocumentsTypeOK
    <3>. QED BY <1>0, <1>3, <3>1, <3>3, AsideFollowed
  <2>3. CASE IsFileOpen(g) /\ openFiles = 0
    <3>1. UNCHANGED <<openFiles, text, content>> /\ at' = [at EXCEPT ![g] = "open"] /\ at[g] \notin Busy
      BY <2>3 DEF IsFileOpen, MoveTo, Busy, document, local
    <3>2. \A h \in Actors : at[h] \in Busy \/ at'[h] \in Busy =>
            at'[h] = at[h] /\ content'[h] = content[h]
      BY <3>1 DEF DocumentsTypeOK, Busy
    <3>. QED BY <1>0, <1>3, <3>1, <3>2, AsideFollowed
  <2>4. CASE ReadFile(g)
    <3>1. PICK l \in {"did open", "bump"} :
            at' = [at EXCEPT ![g] = l] /\ content' = [content EXCEPT ![g] = disk] /\ at[g] \in Busy
      BY <1>3, <2>4 DEF ReadFile, MoveTo, Busy
    <3>2. at'[g] = l /\ content'[g] = disk
      BY <3>1 DEF DocumentsTypeOK
    <3>3. UpToDate(g)' /\ l \in Busy
      BY <1>0, <3>1, <3>2 DEF UpToDate, Busy
    <3>. QED BY <1>0, <3>1, <3>3, FollowedMove
  <2>5. CASE DidOpen(g)
    <3>1. at[g] = "did open" /\ at[g] \in Busy /\ text' = content[g] /\ at' = [at EXCEPT ![g] = "record"]
      BY <2>5 DEF DidOpen, MoveTo, Busy
    <3>2. text' = disk /\ at'[g] = "record"
      BY <2>1, <3>1 DEF UpToDate, DocumentsTypeOK
    <3>3. UpToDate(g)' /\ "record" \in Busy
      BY <1>0, <3>2 DEF UpToDate, Busy
    <3>. QED BY <1>0, <3>1, <3>3, FollowedMove
  <2>6. CASE Record(g)
    <3>1. at[g] = "record" /\ at[g] \in Busy /\ text' = text /\ EndOperation(g)
      BY <2>6 DEF Record, Busy, document
    <3>2. PICK l : l \notin Busy /\ at' = [at EXCEPT ![g] = l]
      BY <3>1, FinishMove
    <3>3. text' = disk' /\ UpToDate(g)'
      BY <1>0, <2>1, <3>1, <3>2 DEF UpToDate, DocumentsTypeOK, Busy
    <3>. QED BY <1>0, <3>1, <3>2, <3>3, FollowedMove
  <2>7. CASE Bump(g)
    <3>1. at[g] = "bump" /\ at[g] \in Busy
      BY <2>7 DEF Bump, Busy
    <3>2. CASE openFiles = 0
      <4>1. PICK l : l \notin Busy /\ at' = [at EXCEPT ![g] = l]
        BY <2>7, <3>2, FinishMove DEF Bump
      <4>2. openFiles' = 0 /\ UpToDate(g)'
        BY <2>7, <3>2, <4>1 DEF Bump, UpToDate, DocumentsTypeOK, Busy
      <4>. QED BY <1>0, <3>1, <4>1, <4>2, FollowedMove
    <3>3. CASE openFiles # 0
      <4>1. at' = [at EXCEPT ![g] = "did change"] /\ content' = content
        BY <2>7, <3>3 DEF Bump, MoveTo
      <4>2. at'[g] = "did change"
        BY <4>1 DEF DocumentsTypeOK
      <4>3. UpToDate(g)' /\ "did change" \in Busy
        BY <1>0, <2>1, <3>1, <4>1, <4>2 DEF UpToDate, Busy
      <4>. QED BY <1>0, <3>1, <4>1, <4>3, FollowedMove
    <3>. QED BY <3>2, <3>3
  <2>8. CASE DidChange(g)
    <3>1. at[g] = "did change" /\ at[g] \in Busy /\ text' = content[g] /\ EndOperation(g)
      BY <2>8 DEF DidChange, Busy
    <3>2. PICK l : l \notin Busy /\ at' = [at EXCEPT ![g] = l]
      BY <3>1, FinishMove
    <3>3. text' = disk' /\ UpToDate(g)'
      BY <1>0, <2>1, <3>1, <3>2 DEF UpToDate, DocumentsTypeOK, Busy
    <3>. QED BY <1>0, <3>1, <3>2, <3>3, FollowedMove
  <2>9. /\ ~(CheckOpen(g) /\ openFiles = 0)
        /\ ~(IsFileOpen(g) /\ openFiles # 0 /\ g # "preload")
    BY DEF CheckOpen, IsFileOpen, Begins
  <2>. QED BY <2>2, <2>3, <2>4, <2>5, <2>6, <2>7, <2>8, <2>9 DEF Operate
<1>. QED BY <1>1, <1>2, <1>3

---------------------------------------------------------------------------
(* Every step *)

\* A timer that fired either begins or has nothing to bring to the document.
LEMMA HandleSees ==
  ASSUME SeesInv, NEW t \in Timers, HandleFileEvent(t), ~Begins(t)
  PROVE  /\ TimersMapped' /\ excused \subseteq excused' /\ watching' = watching
         /\ \A h \in Actors : at'[h] \in Busy => at[h] \in Busy
         /\ excused' = {} /\ watching => Followed'
<1>1. /\ at[t] = "handle" /\ MoveTo(t, "cleanup") /\ ~(key[t] = "changed" /\ openFiles # 0)
      /\ excused' = IF \E h \in Actors : at[h] \in Busy THEN excused \cup {"overlap"} ELSE excused
      /\ UNCHANGED <<disk, events, watching, timers, key, content, openFiles, text>>
  BY DEF HandleFileEvent, Begins, disks, watch, timers, local, document
<1>2. DocumentsTypeOK /\ t \in Actors
  BY Roles DEF SeesInv
<1>3. at'[t] = "cleanup" /\ \A h \in Actors \ {t} : at'[h] = at[h]
  BY <1>1, <1>2 DEF MoveTo, DocumentsTypeOK
<1>4. TimersMapped'
  BY <1>1, <1>2, <1>3, MapKept, Roles DEF SeesInv
<1>5. \A h \in Actors : at[h] \in Busy \/ at'[h] \in Busy => at'[h] = at[h] /\ content'[h] = content[h]
  BY <1>1, <1>3 DEF Busy
<1>6. ASSUME excused' = {}, watching PROVE Followed'
  <2>1. Followed /\ \A h \in Actors : at[h] \notin Busy
    BY <1>1, <1>6 DEF SeesInv
  <2>2. CASE key[t] # "changed"
    <3>1. Coming => Coming'
      BY <1>1, <1>3, <2>2, Roles DEF Coming
    <3>. QED BY <1>1, <1>5, <2>1, <3>1, AsideFollowed
  <2>3. CASE openFiles = 0
    <3>1. \A h \in Actors : at'[h] \notin Busy
      BY <1>5, <2>1
    <3>2. \A h \in Actors : UpToDate(h)'
      BY <3>1 DEF UpToDate, Busy
    <3>. QED BY <1>1, <2>3, <3>2 DEF Followed
  <2>. QED BY <1>1, <2>2, <2>3
<1>. QED BY <1>1, <1>4, <1>5, <1>6


\* The watcher takes an event, or looks whether the file is there: a write it takes
\* becomes a timer or is excused, and its other timers leave that one alone.
LEMMA WatcherSees ==
  ASSUME SeesInv, OnCreate \/ Stat \/ OnWrite \/ OnRemove
  PROVE  /\ TimersMapped' /\ excused \subseteq excused'
         /\ excused' = {} /\ watching' => watching /\ (Followed => Followed')
<1>1. DocumentsTypeOK /\ TimersMapped /\ "created" \in Keys /\ "changed" \in Keys
  BY DEF SeesInv, Keys
<1>2. /\ UNCHANGED <<disk, openFiles, text>>
      /\ \A h \in Actors : at[h] \in Busy \/ at'[h] \in Busy =>
           at'[h] = at[h] /\ content'[h] = content[h]
  <2>1. Aside
    BY <1>1, WatcherAside
  <2>2. disk' = disk
    BY DEF OnCreate, Stat, OnWrite, OnRemove, disks
  <2>. QED BY <2>1, <2>2 DEF Aside, document, local
<1>3. ASSUME UNCHANGED timers, NEW l, MoveTo("watcher", l) \/ UNCHANGED at
      PROVE  /\ TimersMapped'
             /\ \A t \in Timers : at'[t] = at[t] /\ key'[t] = key[t]
  <2>1. \A t \in Timers : at'[t] = at[t]
    BY <1>1, <1>3, Roles DEF MoveTo, DocumentsTypeOK
  <2>. QED BY <1>1, <1>3, <2>1, MapKept DEF timers
<1>4. ASSUME events # <<>>, events' = Tail(events), Head(events) # "write",
             NEW i \in DOMAIN events, events[i] = "write"
      PROVE  \E j \in DOMAIN events' : events'[j] = "write"
  <2>1. events \in Seq({"create", "write", "remove", "rename"})
    BY <1>1 DEF DocumentsTypeOK
  <2>2. i # 1
    BY <1>4
  <2>3. i - 1 \in DOMAIN Tail(events) /\ Tail(events)[i - 1] = events[i]
    BY <1>4, <2>1, <2>2
  <2>. QED BY <1>4, <2>3
<1>5. CASE OnCreate
  <2>1. /\ events # <<>> /\ events' = Tail(events) /\ Head(events) # "write"
        /\ UNCHANGED timers /\ excused' = excused /\ watching' = watching
        /\ \E l \in {"open", "stat"} : MoveTo("watcher", l)
    BY <1>5 DEF OnCreate, Takes, watch
  <2>2. Coming => Coming'
    BY <1>3, <1>4, <2>1 DEF Coming
  <2>. QED BY <1>2, <1>3, <2>1, <2>2, AsideFollowed
<1>6. CASE Stat
  <2>1. excused' = excused
    BY <1>6 DEF Stat
  <2>2. CASE watching' = FALSE /\ MoveTo("watcher", "rest") /\ UNCHANGED timers
    BY <1>3, <2>1, <2>2
  <2>3. CASE Debounce("created", "watcher", "rest") /\ UNCHANGED <<watching, events>>
    <3>1. Coming => Coming'
      BY <1>1, <2>3, DebounceComing DEF Coming
    <3>. QED BY <1>1, <1>2, <2>1, <2>3, <3>1, AsideFollowed, DebounceMapped
  <2>4. CASE MoveTo("watcher", "rest") /\ UNCHANGED timers /\ UNCHANGED <<watching, events>>
    <3>1. Coming => Coming'
      BY <1>3, <2>4 DEF Coming
    <3>. QED BY <1>2, <1>3, <2>1, <2>4, <3>1, AsideFollowed
  <2>. QED BY <1>6, <2>2, <2>3, <2>4 DEF Stat
<1>7. CASE OnWrite
  <2>1. watching' = watching
    BY <1>7 DEF OnWrite, watch
  <2>2. CASE Debounce("changed", "watcher", "rest") /\ UNCHANGED excused
    <3>1. Coming' /\ TimersMapped'
      BY <1>1, <2>2, DebounceComing, DebounceMapped
    <3>. QED BY <2>1, <2>2, <3>1 DEF Followed
  <2>3. CASE excused' = excused \cup {"not registered"} /\ UNCHANGED <<timers, at>>
    BY <1>3, <2>1, <2>3
  <2>. QED BY <1>7, <2>2, <2>3 DEF OnWrite
<1>8. CASE OnRemove
  <2>1. /\ events # <<>> /\ events' = Tail(events) /\ Head(events) # "write"
        /\ excused' = excused /\ watching' = watching
    BY <1>8 DEF OnRemove, Takes, watch
  <2>2. CASE Debounce("created", "watcher", "rest")
    <3>1. Coming => Coming'
      BY <1>1, <1>4, <2>1, <2>2, DebounceComing DEF Coming
    <3>. QED BY <1>1, <1>2, <2>1, <2>2, <3>1, AsideFollowed, DebounceMapped
  <2>3. CASE UNCHANGED <<timers, at>>
    <3>1. Coming => Coming'
      BY <1>3, <1>4, <2>1, <2>3 DEF Coming
    <3>. QED BY <1>2, <1>3, <2>1, <2>3, <3>1, AsideFollowed
  <2>. QED BY <1>8, <2>2, <2>3 DEF OnRemove
<1>. QED BY <1>5, <1>6, <1>7, <1>8

\* The file changes: while the watcher is there a write is coming, a rename to it
\* is excused, and a file that is gone has nothing to be seen.
LEMMA FileSees ==
  ASSUME SeesInv, WriteInPlace \/ Replace \/ Remove("remove") \/ Remove("rename")
  PROVE  /\ TimersMapped' /\ excused \subseteq excused' /\ watching' = watching
         /\ \A h \in Actors : at'[h] = at[h]
         /\ excused' = {} /\ watching => Followed'
<1>1. UNCHANGED <<watch, timers, at>> /\ excused \subseteq excused'
  BY DEF WriteInPlace, Replace, Remove, Changed
<1>2. TimersMapped'
  BY <1>1, MapKept DEF SeesInv
<1>3. ASSUME WriteInPlace, watching PROVE Followed'
  <2>1. PICK es \in {<<"create", "write">>, <<"write">>} : events' = events \o es
    BY <1>3 DEF WriteInPlace, Changed
  <2>2. events \in Seq({"create", "write", "remove", "rename"})
    BY DEF SeesInv, DocumentsTypeOK
  <2>3. Len(events') \in DOMAIN events' /\ events'[Len(events')] = "write"
    <3>1. CASE es = <<"write">>
      BY <2>1, <2>2, <3>1
    <3>2. CASE es = <<"create", "write">>
      BY <2>1, <2>2, <3>2
    <3>. QED BY <2>1, <3>1, <3>2
  <2>. QED BY <2>3 DEF Followed, Coming
<1>4. Replace => excused' # {}
  BY DEF Replace
<1>5. Remove("remove") \/ Remove("rename") => Followed'
  BY DEF Remove, Changed, Followed
<1>. QED BY <1>1, <1>2, <1>3, <1>4, <1>5 DEF watch

\* The other steps change neither the file nor what is coming.
LEMMA OthersSee ==
  ASSUME SeesInv,
         \/ \E g \in Tools : ToolBegins(g)
         \/ \E t \in Timers : Fire(t) \/ Cleanup(t)
         \/ \E k \in WatchKinds : AddRegistrations(k)
  PROVE  /\ TimersMapped' /\ excused' = excused /\ watching' = watching
         /\ Followed => Followed'
<1>1. DocumentsTypeOK /\ TimersMapped
  BY DEF SeesInv
<1>2. UNCHANGED <<disks, events, watching, excused>>
  BY DEF ToolBegins, Fire, Cleanup, AddRegistrations, watch
<1>3. /\ UNCHANGED <<disk, openFiles, text>>
      /\ \A h \in Actors : at[h] \in Busy \/ at'[h] \in Busy =>
           at'[h] = at[h] /\ content'[h] = content[h]
  <2>1. Aside
    BY <1>1, OthersAside
  <2>. QED BY <1>2, <2>1 DEF Aside, disks, document, local
<1>4. TimersMapped' /\ (Coming => Coming')
  <2>1. CASE \/ \E g \in Tools : ToolBegins(g)
             \/ \E k \in WatchKinds : AddRegistrations(k)
    <3>1. PICK g \in Tools \cup {"preload"} : UNCHANGED timers /\ \E l : MoveTo(g, l)
      BY <2>1 DEF ToolBegins, AddRegistrations
    <3>2. g \notin Timers
      BY Roles, DocumentsAssumption
    <3>3. \A t \in Timers : at'[t] = at[t]
      <4>1. PICK l : MoveTo(g, l)
        BY <3>1
      <4>. QED BY <1>1, <3>2, <4>1, Roles DEF MoveTo, DocumentsTypeOK
    <3>. QED BY <1>1, <1>2, <3>1, <3>3, MapKept, ComingKept DEF timers
  <2>2. ASSUME NEW t \in Timers, Fire(t) PROVE TimersMapped' /\ (Coming => Coming')
    <3>1. at'[t] = "handle" /\ (\A s \in Timers \ {t} : at'[s] = at[s]) /\ UNCHANGED timers
      BY <1>1, <2>2, Roles DEF Fire, MoveTo, DocumentsTypeOK
    <3>. QED BY <1>1, <1>2, <3>1, MapKept, ComingKept DEF timers
  <2>3. ASSUME NEW t \in Timers, Cleanup(t) PROVE TimersMapped' /\ (Coming => Coming')
    <3>1. /\ at[t] = "cleanup" /\ at' = [at EXCEPT ![t] = "rest"]
          /\ debounceMap' = [debounceMap EXCEPT ![key[t]] = "none"]
          /\ key' = [key EXCEPT ![t] = "changed"]
      BY <2>3 DEF Cleanup, MoveTo
    <3>2. \A s \in Timers \ {t} : at'[s] = at[s] /\ key'[s] = key[s]
      BY <1>1, <3>1, Roles DEF DocumentsTypeOK
    <3>3. Coming => Coming'
      BY <1>2, <3>1, <3>2 DEF Coming
    <3>4. ASSUME NEW k \in Keys, debounceMap'[k] # "none"
          PROVE  at'[debounceMap'[k]] # "rest" /\ key'[debounceMap'[k]] = k
      <4>1. key[t] \in Keys /\ k # key[t] /\ debounceMap'[k] = debounceMap[k] /\ debounceMap[k] \in Timers
        BY <1>1, <3>1, <3>4 DEF DocumentsTypeOK
      <4>2. at[debounceMap[k]] # "rest" /\ key[debounceMap[k]] = k
        BY <1>1, <3>4, <4>1 DEF TimersMapped
      <4>. QED BY <3>2, <4>1, <4>2
    <3>. QED BY <3>3, <3>4 DEF TimersMapped
  <2>. QED BY <2>1, <2>2, <2>3
<1>. QED BY <1>2, <1>3, <1>4, AsideFollowed

\* The invariant is kept.
LEMMA NextSees == SeesInv /\ [DocumentsNext]_documentVars => SeesInv'
<1> SUFFICES ASSUME SeesInv, [DocumentsNext]_documentVars PROVE SeesInv'
  OBVIOUS
<1>0. DocumentsTypeOK /\ TimersMapped
  BY DEF SeesInv
<1>1. CASE UNCHANGED documentVars
  BY <1>1 DEF SeesInv, DocumentsTypeOK, TimersMapped, Alone, Followed, Coming, UpToDate, Busy,
              documentVars, disks, watch, timers, local, document
<1>2. CASE DocumentsNext
  <2>0. DocumentsTypeOK'
    BY <1>0, <1>2, DocumentsNextTyped
  <2>1. ASSUME excused \subseteq excused', \A h \in Actors : at'[h] \in Busy => at[h] \in Busy
        PROVE  excused' = {} => Alone'
    BY <2>1 DEF SeesInv, Alone, Busy
  <2>2. ASSUME NEW g \in Actors, Operate(g) PROVE SeesInv'
    <3>1. TimersMapped' /\ watching' = watching
      BY <1>0, <2>2, OperateMapped
    <3>2. CASE Begins(g)
      BY <1>0, <2>0, <3>1, <3>2, BeginsFollowed DEF SeesInv
    <3>3. CASE ~Begins(g)
      <4>1. excused' = excused /\ \A h \in Actors : at'[h] \in Busy => at[h] \in Busy
        BY <1>0, <2>2, <3>3, OperateExcused
      <4>2. ASSUME excused' = {}, watching' PROVE Followed'
        BY <1>0, <2>2, <3>1, <3>3, <4>1, <4>2, OperateFollowed DEF SeesInv
      <4>. QED BY <2>0, <2>1, <3>1, <4>1, <4>2 DEF SeesInv
    <3>. QED BY <3>2, <3>3
  <2>3. ASSUME NEW t \in Timers, HandleFileEvent(t) PROVE SeesInv'
    <3>1. CASE Begins(t)
      <4>1. /\ t \in Actors /\ UNCHANGED <<watching, timers>>
            /\ \A s \in Timers : at'[s] = "rest" => at[s] = "rest"
        BY <1>0, <2>3, <3>1, Roles DEF HandleFileEvent, Begins, MoveTo, DocumentsTypeOK, watch
      <4>2. TimersMapped'
        BY <1>0, <4>1, MapKept
      <4>. QED BY <1>0, <2>0, <3>1, <4>1, <4>2, BeginsFollowed DEF SeesInv
    <3>2. CASE ~Begins(t)
      BY <2>0, <2>1, <2>3, <3>2, HandleSees DEF SeesInv
    <3>. QED BY <3>1, <3>2
  <2>4. CASE OnCreate \/ Stat \/ OnWrite \/ OnRemove
    <3>1. \A h \in Actors : at'[h] \in Busy => at[h] \in Busy
      BY <1>0, <2>4, WatcherAside DEF Aside
    <3>2. ASSUME excused' = {}, watching' PROVE Followed'
      <4>1. excused = {} /\ watching /\ (Followed => Followed')
        BY <2>4, <3>2, WatcherSees
      <4>. QED BY <4>1 DEF SeesInv
    <3>. QED BY <2>0, <2>1, <2>4, <3>1, <3>2, WatcherSees DEF SeesInv
  <2>5. CASE WriteInPlace \/ Replace \/ Remove("remove") \/ Remove("rename")
    BY <2>0, <2>1, <2>5, FileSees DEF SeesInv
  <2>6. CASE \/ \E g \in Tools : ToolBegins(g)
             \/ \E t \in Timers : Fire(t) \/ Cleanup(t)
             \/ \E k \in WatchKinds : AddRegistrations(k)
    <3>1. \A h \in Actors : at'[h] \in Busy => at[h] \in Busy
      BY <1>0, <2>6, OthersAside DEF Aside
    <3>. QED BY <2>0, <2>1, <2>6, <3>1, OthersSee DEF SeesInv
  <2>. QED BY <1>2, <2>2, <2>3, <2>4, <2>5, <2>6 DEF DocumentsNext
<1>. QED BY <1>1, <1>2

\* When a server and its files have come to rest, the server has the last change of
\* the open document, for any tools, timers, bursts of events and registrations,
\* but for the losses that are excused by name.
THEOREM LastChangeSeen == DocumentsSpec => []ServerSeesFile
<1>1. DocumentsInit => SeesInv
  <2>1. DocumentsInit => TimersMapped
    BY DEF DocumentsInit, TimersMapped
  <2>2. DocumentsInit => Alone /\ Followed
    BY DEF DocumentsInit, Alone, Followed, UpToDate, Busy
  <2>. QED BY <2>1, <2>2, DocumentsInitTyped DEF SeesInv
<1>. QED BY <1>1, NextSees, SeesImplies, PTL DEF DocumentsSpec

=============================================================================
