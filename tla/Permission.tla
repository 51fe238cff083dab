----------------------------- MODULE Permission -----------------------------
(***************************************************************************)
(* Permission requests (internal/permission/permission.go) on their way to *)
(* the user and back: a tool's goroutine publishes the request and waits   *)
(* on a channel of its own; the broker (internal/pubsub/broker.go) and the *)
(* subscription (cmd/root.go) bring it to the TUI, which has one dialog    *)
(* for all requests (internal/tui/tui.go); a key press returns a command   *)
(* whose message, PermissionResponseMsg, comes back to the TUI's Update    *)
(* loop later, and only then is the waiting goroutine answered.            *)
(*                                                                         *)
(* Requests of different sessions meet here, and those of a cancelled run  *)
(* and of its successor: Request does not look at a context.               *)
(***************************************************************************)
EXTENDS Naturals, Sequences, FiniteSets

CONSTANTS
  Requests,    \* the calls of Request
  Opts,        \* [Requests -> the session, tool (with its action) and path asked for]
  Dir,         \* [paths -> directories]: filepath.Dir, "." replaced
  None,        \* no request
  BufferSize,  \* bound: the capacity of a subscription channel
  MaxPresses   \* bound: how many answers the user gives

Sessions == {Opts[r].session : r \in Requests}
Scope(r) == [session |-> Opts[r].session, tool |-> Opts[r].tool, dir |-> Dir[Opts[r].path]]
Scopes   == {Scope(r) : r \in Requests}

ASSUME PermissionAssumption ==
  /\ None \notin Requests
  /\ BufferSize \in Nat /\ MaxPresses \in Nat

Actions  == {"allow", "allow_session", "deny"}
\* A key press, and its message to Update: n numbers those of a request.
Messages == [id : Requests, action : Actions, n : 1 .. MaxPresses]

VARIABLES
  autoApproveSessions, \* the session of a non-interactive run
  sessionPermissions,  \* the scopes allowed for their session
  pendingRequests,     \* the requests with a channel in the map
  respCh,              \* [Requests -> the channel's buffer, of capacity 1]
  pc,                  \* where each goroutine in Request is
  events,              \* the events on their way to the TUI, oldest first
  dialog,              \* the request the permission dialog holds
  showPermissions,     \* whether the dialog is on the screen
  responses,           \* PermissionResponseMsg on their way to Update
  update,              \* what the Update loop is doing with one of them
  pressed,             \* history: all the answers the user gave
  slow,                \* history: requests whose event a full channel lost
  crowded              \* history: two requests have waited at the same time

service == <<autoApproveSessions, sessionPermissions, pendingRequests, respCh, pc>>
tui     == <<dialog, showPermissions, responses, update>>
ghosts  == <<pressed, slow, crowded>>
vars    == <<service, events, tui, ghosts>>

States == {"idle", "asking", "waiting", "allowed", "refused", "granted", "denied"}

Buffers == {<<>>, <<TRUE>>, <<FALSE>>}

Idle == [at |-> "idle"]
Handling(l, m) == [at |-> l, msg |-> m]
Updates == {Idle} \cup {Handling(l, m) : l \in {"sending", "remembering"}, m \in Messages}

TypeOK ==
  /\ autoApproveSessions \subseteq Sessions
  /\ sessionPermissions \subseteq Scopes
  /\ pendingRequests \subseteq Requests
  /\ respCh \in [Requests -> Buffers]
  /\ pc \in [Requests -> States]
  /\ events \in Seq(Requests) /\ Len(events) <= BufferSize
  /\ dialog \in Requests \cup {None}
  /\ showPermissions \in BOOLEAN
  /\ responses \subseteq Messages
  /\ update \in Updates
  /\ pressed \subseteq Messages
  /\ slow \subseteq Requests
  /\ crowded \in BOOLEAN

\* Without a TUI the one session is approved beforehand; with one, none is.
Init ==
  /\ \E auto \in SUBSET Sessions : Cardinality(auto) <= 1 /\ autoApproveSessions = auto
  /\ sessionPermissions = {}
  /\ pendingRequests = {}
  /\ respCh = [r \in Requests |-> <<>>]
  /\ pc = [r \in Requests |-> "idle"]
  /\ events = <<>>
  /\ dialog = None
  /\ showPermissions = FALSE
  /\ responses = {}
  /\ update = Idle
  /\ pressed = {}
  /\ slow = {}
  /\ crowded = FALSE

Goto(r, l) == pc' = [pc EXCEPT ![r] = l]

Presses(r) == Cardinality({m \in pressed : m.id = r})
Answers(r) == {m.action : m \in {a \in pressed : a.id = r}}

---------------------------------------------------------------------------
(* Request: the tool's goroutine *)

\* Mutant of Remembered: the session is not compared.
RememberedInAnySession(r) ==
  \E p \in sessionPermissions : p.tool = Scope(r).tool /\ p.dir = Scope(r).dir

Remembered(r) == Scope(r) \in sessionPermissions

\* A session without the TUI makes requests only if it is the approved one.
Request(r) ==
  /\ pc[r] = "idle"
  /\ autoApproveSessions # {} => Opts[r].session \in autoApproveSessions
  /\ IF Opts[r].session \in autoApproveSessions \/ Remembered(r)
     THEN Goto(r, "granted") ELSE Goto(r, "asking")
  /\ UNCHANGED <<autoApproveSessions, sessionPermissions, pendingRequests, respCh, events, tui, ghosts>>

\* pendingRequests.Store and Publish, which drops the event if the
\* subscription's buffer is full.
Publish(r) ==
  /\ pc[r] = "asking"
  /\ pendingRequests' = pendingRequests \cup {r}
  /\ Goto(r, "waiting")
  /\ IF Len(events) < BufferSize
     THEN events' = Append(events, r) /\ UNCHANGED slow
     ELSE slow' = slow \cup {r} /\ UNCHANGED events
  /\ crowded' = (crowded \/ pendingRequests # {})
  /\ UNCHANGED <<autoApproveSessions, sessionPermissions, respCh, tui, pressed>>

\* resp := <-respCh
Receive(r) ==
  /\ pc[r] = "waiting" /\ respCh[r] # <<>>
  /\ Goto(r, IF Head(respCh[r]) THEN "allowed" ELSE "refused")
  /\ respCh' = [respCh EXCEPT ![r] = <<>>]
  /\ UNCHANGED <<autoApproveSessions, sessionPermissions, pendingRequests, events, tui, ghosts>>

\* The deferred Delete, and the tool goes on or returns ErrorPermissionDenied.
Return(r) ==
  /\ pc[r] \in {"allowed", "refused"}
  /\ pendingRequests' = pendingRequests \ {r}
  /\ Goto(r, IF pc[r] = "allowed" THEN "granted" ELSE "denied")
  /\ UNCHANGED <<autoApproveSessions, sessionPermissions, respCh, events, tui, ghosts>>

---------------------------------------------------------------------------
(* The subscription: setupSubscriber and the message handler, in order *)

\* The TUI did not take the event for two seconds.
Lose ==
  /\ events # <<>>
  /\ slow' = slow \cup {Head(events)}
  /\ events' = Tail(events)
  /\ UNCHANGED <<service, tui, pressed, crowded>>

---------------------------------------------------------------------------
(* The TUI's Update loop *)

\* Event[PermissionRequest]: the one dialog now holds this request.
Show ==
  /\ update = Idle /\ events # <<>>
  /\ dialog' = Head(events)
  /\ showPermissions' = TRUE
  /\ events' = Tail(events)
  /\ UNCHANGED <<service, responses, update, ghosts>>

\* A key press on the dialog returns a command that carries its request.
Press(action) ==
  /\ update = Idle /\ showPermissions
  /\ Cardinality(pressed) < MaxPresses
  /\ LET m == [id |-> dialog, action |-> action, n |-> Presses(dialog) + 1] IN
       responses' = responses \cup {m} /\ pressed' = pressed \cup {m}
  /\ UNCHANGED <<service, events, dialog, showPermissions, update, slow, crowded>>

\* Every response closes the dialog, whichever request it holds by now.
Close ==
  /\ update' = Idle
  /\ showPermissions' = FALSE

\* Mutant of Respond: the case of a denial is missing.
RespondUnlessDenied(m) ==
  /\ update = Idle /\ m \in responses
  /\ responses' = responses \ {m}
  /\ IF m.id \in pendingRequests /\ m.action # "deny"
     THEN update' = Handling("sending", m) /\ UNCHANGED showPermissions
     ELSE Close
  /\ UNCHANGED <<service, events, dialog, ghosts>>

\* PermissionResponseMsg: pendingRequests.Load in Grant, GrantPersistant or Deny.
Respond(m) ==
  /\ update = Idle /\ m \in responses
  /\ responses' = responses \ {m}
  /\ CASE m.id \in pendingRequests     -> /\ update' = Handling("sending", m)
                                          /\ UNCHANGED showPermissions
       [] m.id \notin pendingRequests /\ m.action = "allow_session" ->
                                          /\ update' = Handling("remembering", m)
                                          /\ UNCHANGED showPermissions
       [] OTHER                        -> Close
  /\ UNCHANGED <<service, events, dialog, ghosts>>

\* Mutant of Send: the answer goes to the request the dialog holds by now.
SendToDialog ==
  /\ update.at = "sending" /\ respCh[dialog] = <<>>
  /\ respCh' = [respCh EXCEPT ![dialog] = <<update.msg.action # "deny">>]
  /\ IF update.msg.action = "allow_session"
     THEN update' = Handling("remembering", update.msg) /\ UNCHANGED showPermissions
     ELSE Close
  /\ UNCHANGED <<autoApproveSessions, sessionPermissions, pendingRequests, pc, events, dialog, responses, ghosts>>

\* Mutant of Send: the channel is made without a buffer.
SendUnbuffered ==
  /\ update.at = "sending" /\ pc[update.msg.id] = "waiting" /\ respCh[update.msg.id] = <<>>
  /\ respCh' = [respCh EXCEPT ![update.msg.id] = <<update.msg.action # "deny">>]
  /\ IF update.msg.action = "allow_session"
     THEN update' = Handling("remembering", update.msg) /\ UNCHANGED showPermissions
     ELSE Close
  /\ UNCHANGED <<autoApproveSessions, sessionPermissions, pendingRequests, pc, events, dialog, responses, ghosts>>

\* The send: Update, and with it the whole TUI, waits while the buffer is full.
Send ==
  /\ update.at = "sending" /\ respCh[update.msg.id] = <<>>
  /\ respCh' = [respCh EXCEPT ![update.msg.id] = <<update.msg.action # "deny">>]
  /\ IF update.msg.action = "allow_session"
     THEN update' = Handling("remembering", update.msg) /\ UNCHANGED showPermissions
     ELSE Close
  /\ UNCHANGED <<autoApproveSessions, sessionPermissions, pendingRequests, pc, events, dialog, responses, ghosts>>

\* GrantPersistant appends the permission whether or not anyone still waited.
Remember ==
  /\ update.at = "remembering"
  /\ sessionPermissions' = sessionPermissions \cup {Scope(update.msg.id)}
  /\ Close
  /\ UNCHANGED <<autoApproveSessions, pendingRequests, respCh, pc, events, dialog, responses, ghosts>>

---------------------------------------------------------------------------

Waiter(r) == Publish(r) \/ Receive(r) \/ Return(r)

Loop == Show \/ (\E m \in Messages : Respond(m)) \/ Send \/ Remember

Next ==
  \/ \E r \in Requests : Request(r) \/ Waiter(r)
  \/ Lose
  \/ Loop
  \/ \E action \in Actions : Press(action)

\* Goroutines and the TUI's loop are scheduled, and what reaches the loop is
\* finite; the user need not answer.
Fairness == WF_vars(Loop) /\ \A r \in Requests : WF_vars(Waiter(r))

Spec == Init /\ [][Next]_vars /\ Fairness

---------------------------------------------------------------------------
(* Properties *)

\* A tool runs only with consent: of the user for this very request, of the
\* user for its session, tool and directory, or of a non-interactive start;
\* and it is denied only if the user denied this request.  Late, repeated and
\* reordered answers never reach another request.
AnswersAreTheUsers ==
  \A r \in Requests :
    /\ pc[r] \in {"allowed", "granted"} =>
         \/ Answers(r) \cap {"allow", "allow_session"} # {}
         \/ \E q \in Requests : Scope(q) = Scope(r) /\ "allow_session" \in Answers(q)
         \/ Opts[r].session \in autoApproveSessions
    /\ pc[r] \in {"refused", "denied"} => "deny" \in Answers(r)

\* A request the user is asked about: until its goroutine is through it is known by
\* where that is, and afterwards by its answer.
Asked(r) == pc[r] \notin {"idle", "granted"} \/ Answers(r) # {}

Verdict(r) ==
  CASE pc[r] \in {"allowed", "granted"} -> "granted"
    [] pc[r] \in {"refused", "denied"}  -> "denied"
    [] OTHER                            -> "none"

Consents == INSTANCE Consent WITH
  SessionOf  <- [r \in Requests |-> Opts[r].session],
  ScopeOf    <- [r \in Requests |-> Scope(r)],
  approved   <- autoApproveSessions,
  asked      <- {r \in Requests : Asked(r)},
  answers    <- {[id |-> m.id, action |-> m.action] : m \in pressed},
  remembered <- sessionPermissions,
  verdict    <- [r \in Requests |-> Verdict(r)]

\* Whatever happens to dialogs, events and late answers, the service is the
\* abstract one: who must ask is asked, a verdict is given once and never changed,
\* and to a request that was asked about only by an answer to this request.
ConsentService == Consents!Spec

\* A waiting request is on its way, on the screen or being answered, as long
\* as no two requests waited at once, no event was lost to a full channel and
\* no dialog was answered twice.
Reachable(r) ==
  \/ \E i \in DOMAIN events : events[i] = r
  \/ dialog = r /\ showPermissions
  \/ \E m \in responses : m.id = r
  \/ update # Idle /\ update.msg.id = r
  \/ respCh[r] # <<>>

WaitingIsReachable ==
  ~crowded /\ slow = {} /\ (\A r \in Requests : Presses(r) <= 1) =>
    \A r \in Requests : pc[r] = "waiting" => Reachable(r)

\* No answer is lost, even if the dialog was replaced or closed meanwhile: while
\* a request the user has answered still waits, an answer is on its way to it.
AnswerIsUnderWay ==
  \A r \in Requests : pc[r] = "waiting" /\ Presses(r) > 0 =>
    \/ \E m \in responses : m.id = r
    \/ update.at = "sending" /\ update.msg.id = r
    \/ respCh[r] # <<>>

\* The Update loop gets over every answer, so the TUI keeps responding, unless
\* a request is answered three times before its goroutine has left Request.
UpdateResumes ==
  update # Idle ~> update = Idle \/ \E q \in Requests : Presses(q) >= 3

\* Request waits for the response with a timeout: a waiting request ends.  It
\* does not hold: a request whose dialog was replaced waits for ever.
RequestEnds ==
  \A r \in Requests : pc[r] = "waiting" ~> pc[r] \in {"granted", "denied"}

=============================================================================
