-------------------------------- MODULE Tui --------------------------------
(***************************************************************************)
(* The chat of the terminal UI: which session the application model, the   *)
(* chat page, its editor and its list of messages hold (internal/tui/      *)
(* tui.go, page/chat.go, components/chat/editor.go and list.go), and the   *)
(* overlay that says a summary is being made.                              *)
(*                                                                         *)
(* Update handles one message at a time.  Messages come from the keyboard, *)
(* from the commands Update returns, each of which runs in a goroutine of  *)
(* its own, so that their messages arrive in any order, and from the       *)
(* services, through Events.  A message that is not for the application    *)
(* model goes to the page on display, and only there.                      *)
(*                                                                         *)
(* The agent is what the UI sees of it: AgentRequests and AgentTurn model  *)
(* it.  The text of messages is left out; of a stored message its version  *)
(* is kept, 1 when it is created.  Dialogs are left out but for what they  *)
(* return.                                                                 *)
(***************************************************************************)
EXTENDS Events

CONSTANTS
  MaxSessions,  \* bound: sessions the user creates
  MaxWrites,    \* bound: messages and versions the agent stores
  MaxInputs     \* bound: what the user does

ASSUME TopicsAssumption ==
  /\ {"message", "agent"} \subseteq Topics
  /\ MaxSessions \in Nat /\ MaxWrites \in Nat /\ MaxInputs \in Nat

VARIABLES
  stored,       \* [Sessions -> the versions of its messages in the database]
  created,      \* how many sessions there are
  running,      \* [Sessions -> goroutines of Run]
  summarizing,  \* [Sessions -> goroutines of Summarize]
  active,       \* the keys of activeRequests
  inFlight,     \* the messages of commands, and Summarize calls, under way
  page,         \* currentPage
  selected,     \* selectedSession of the application model
  current,      \* session of the chat page
  editor,       \* session of the editor
  shown,        \* session of the list of messages
  list,         \* its messages, as far as they are of that session
  unloaded,     \* whether they could not be loaded: what precedes them on the screen are then
                \* the messages of the session before
  compacting,   \* isCompacting
  inputs,       \* how often the user has done something
  unseen,       \* history: whether the log page was shown when a message event came
  raced,        \* history: whether the user went on while a change of session was under way
  refused       \* history: whether Summarize refused what the overlay was put up for

agentVars == <<stored, created, running, summarizing, active>>
screen    == <<page, selected, current, editor, shown, list, unloaded, compacting>>
ghosts    == <<unseen, raced, refused>>
vars      == <<eventVars, agentVars, inFlight, screen, inputs, ghosts>>

NoSession == 0
Sessions  == 1 .. MaxSessions
Requests  == {"run", "summary"}

MessageEvents == [session : Sessions, index : 1 .. MaxWrites, version : 1 .. MaxWrites]
AgentEvents   == [kind : {"response", "error", "summary"}]

\* The UI's own messages: chat.SessionSelectedMsg, dialog.SessionSelectedMsg,
\* SessionClearedMsg, SendMsg, startCompactSessionMsg, and the call of Summarize.
OfSession(kind, s) == [kind |-> kind, session |-> s]
Bare(kind)         == OfSession(kind, NoSession)

TypeOK ==
  /\ EventsTypeOK
  /\ created \in 0 .. MaxSessions
  /\ \A s \in Sessions : stored[s] \in Seq(Nat) /\ running[s] \in Nat /\ summarizing[s] \in Nat
  /\ active \subseteq Sessions \X Requests
  /\ inFlight \subseteq [kind : {"selected", "picked", "cleared", "send", "compact", "summarize"},
                         session : 0 .. created]
  /\ page \in {"chat", "logs"}
  /\ {selected, current, editor, shown} \subseteq 0 .. created
  /\ list \in Seq([index : Nat, version : Nat])
  /\ {compacting, unloaded} \subseteq BOOLEAN
  /\ inputs \in 0 .. MaxInputs
  /\ {unseen, raced, refused} \subseteq BOOLEAN

Init ==
  /\ EventsInit
  /\ stored = [s \in Sessions |-> <<>>]
  /\ created = 0
  /\ running = [s \in Sessions |-> 0] /\ summarizing = [s \in Sessions |-> 0]
  /\ active = {}
  /\ inFlight = {}
  /\ page = "chat"
  /\ selected = NoSession /\ current = NoSession /\ editor = NoSession /\ shown = NoSession
  /\ list = <<>> /\ unloaded = FALSE
  /\ compacting = FALSE
  /\ inputs = 0
  /\ unseen = FALSE /\ raced = FALSE /\ refused = FALSE

---------------------------------------------------------------------------
(* The agent and the database *)

Writes == Cardinality({e \in MessageEvents :
  e.index \in DOMAIN stored[e.session] /\ e.version <= stored[e.session][e.index]})

\* A goroutine of the session that is not in the middle of a Publish.
Free(s) ==
  Cardinality({e \in publishing["message"] : e.session = s}) < running[s] + summarizing[s]

\* Create, by a run or a summary.
CreateMessage(s) ==
  /\ Free(s) /\ Writes < MaxWrites
  /\ stored' = [stored EXCEPT ![s] = Append(@, 1)]
  /\ Publish("message", [session |-> s, index |-> Len(stored[s]) + 1, version |-> 1])
  /\ UNCHANGED <<created, running, summarizing, active, inFlight, screen, inputs, ghosts>>

\* Update, of the message a run is streaming.
UpdateMessage(s) ==
  /\ Free(s) /\ running[s] > 0 /\ stored[s] # <<>> /\ Writes < MaxWrites
  /\ LET last == Len(stored[s]) IN
       /\ \A e \in publishing["message"] : e.session = s => e.index # last
       /\ stored' = [stored EXCEPT ![s] = [@ EXCEPT ![last] = stored[s][last] + 1]]
       /\ Publish("message", [session |-> s, index |-> last, version |-> stored[s][last] + 1])
  /\ UNCHANGED <<created, running, summarizing, active, inFlight, screen, inputs, ghosts>>

\* The goroutine of Run deletes the session's key, whose it may be, and
\* publishes its result.
RunEnds(s) ==
  /\ running[s] > 0 /\ Free(s)
  /\ running' = [running EXCEPT ![s] = @ - 1]
  /\ active' = active \ {<<s, "run">>}
  /\ \E k \in {"response", "error"} : Publish("agent", [kind |-> k])
  /\ UNCHANGED <<stored, created, summarizing, inFlight, screen, inputs, ghosts>>

\* Summarize's goroutine publishes how it ended.  Its progress is left out.
SummaryEnds(s) ==
  /\ summarizing[s] > 0 /\ Free(s)
  /\ summarizing' = [summarizing EXCEPT ![s] = @ - 1]
  /\ active' = active \ {<<s, "summary">>}
  /\ \E k \in {"summary", "error"} : Publish("agent", [kind |-> k])
  /\ UNCHANGED <<stored, created, running, inFlight, screen, inputs, ghosts>>

Agent == \E s \in Sessions : CreateMessage(s) \/ UpdateMessage(s) \/ RunEnds(s) \/ SummaryEnds(s)

IsBusy           == active # {}
IsSessionBusy(s) == <<s, "run">> \in active

---------------------------------------------------------------------------
(* Messages of the services: program.Send and Update *)

\* What the list makes of a message event: Created appends a message it does not
\* have, Updated replaces one it has.
Listed(e) ==
  LET at == {i \in DOMAIN list : list[i].index = e.index}
      m  == [index |-> e.index, version |-> e.version]
      own == e.session = shown
  IN CASE own /\ at = {} /\ e.version = 1 -> Append(list, m)
       [] own /\ at # {} /\ e.version > 1 -> [i \in DOMAIN list |-> IF i \in at THEN m ELSE list[i]]
       [] OTHER                           -> list

MessageEvent(e) ==
  /\ IF page = "chat" THEN list' = Listed(e) /\ UNCHANGED unseen
     ELSE unseen' = TRUE /\ UNCHANGED list
  /\ UNCHANGED <<inFlight, compacting, refused>>

\* Mutant of AgentEvent: only an error takes the overlay away.
AgentEventErrorOnly(e) ==
  /\ IF e.kind = "error" THEN compacting' = FALSE /\ refused' = FALSE
     ELSE UNCHANGED <<compacting, refused>>
  /\ UNCHANGED <<inFlight, list, unseen>>

\* Any error and any summary take the overlay away.  A response may find the
\* selected session near the context limit and start a summary.
AgentEvent(e) ==
  /\ IF e.kind \in {"error", "summary"} THEN compacting' = FALSE /\ refused' = FALSE
     ELSE UNCHANGED <<compacting, refused>>
  /\ \/ UNCHANGED inFlight
     \/ /\ e.kind = "response" /\ selected # NoSession
        /\ inFlight' = inFlight \cup {Bare("compact")}
  /\ UNCHANGED <<list, unseen>>

\* After the program has ended nothing is made of a message, nor here of the events
\* of other topics.
Receive ==
  LET item == Head(output)
      e    == item.event
  IN /\ Deliver
     /\ CASE main = "running" /\ item.topic = "message" -> MessageEvent(e)
          [] main = "running" /\ item.topic = "agent"   -> AgentEvent(e)
          [] OTHER -> UNCHANGED <<inFlight, list, compacting, unseen, refused>>
     /\ UNCHANGED <<agentVars, page, selected, current, editor, shown, unloaded, inputs, raced>>

---------------------------------------------------------------------------
(* Messages of commands *)

\* A change of session under way.
Changing == \E m \in inFlight : m.kind \in {"selected", "picked", "cleared"}

Arrives(m) == main = "running" /\ m \in inFlight

\* Mutant of SessionSelected: the list is not loaded.
SessionSelectedUnloaded(m) ==
  /\ Arrives(m) /\ m.kind = "selected"
  /\ inFlight' = inFlight \ {m}
  /\ selected' = m.session
  /\ IF page = "chat" THEN current' = m.session /\ editor' = m.session /\ shown' = m.session
     ELSE UNCHANGED <<current, editor, shown>>
  /\ UNCHANGED <<eventVars, agentVars, page, list, unloaded, compacting, inputs, ghosts>>

\* chat.SessionSelectedMsg: the application model, and then the page on display.
\* The list is loaded unless it shows the session already.  When that fails the list
\* has the new session all the same, and keeps the messages it had.
SessionSelected(m) ==
  /\ Arrives(m) /\ m.kind = "selected"
  /\ inFlight' = inFlight \ {m}
  /\ selected' = m.session
  /\ IF page = "chat"
     THEN /\ current' = m.session /\ editor' = m.session /\ shown' = m.session
          /\ \/ m.session = shown /\ UNCHANGED <<list, unloaded>>
             \/ /\ m.session # shown /\ unloaded' = FALSE
                /\ list' = [i \in DOMAIN stored[m.session] |->
                              [index |-> i, version |-> stored[m.session][i]]]
             \/ m.session # shown /\ unloaded' = TRUE /\ list' = <<>>
     ELSE UNCHANGED <<current, editor, shown, list, unloaded>>
  /\ UNCHANGED <<eventVars, agentVars, page, compacting, inputs, ghosts>>

\* dialog.SessionSelectedMsg
SessionPicked(m) ==
  /\ Arrives(m) /\ m.kind = "picked"
  /\ inFlight' = (inFlight \ {m}) \cup
       (IF page = "chat" THEN {OfSession("selected", m.session)} ELSE {})
  /\ UNCHANGED <<eventVars, agentVars, screen, inputs, ghosts>>

\* Of the components only the list heeds it.
SessionCleared(m) ==
  /\ Arrives(m) /\ m.kind = "cleared"
  /\ inFlight' = inFlight \ {m}
  /\ IF page = "chat" THEN shown' = NoSession /\ list' = <<>> /\ unloaded' = FALSE
     ELSE UNCHANGED <<shown, list, unloaded>>
  /\ UNCHANGED <<eventVars, agentVars, page, selected, current, editor, compacting, inputs, ghosts>>

\* Run, unless the session is busy: then the error is shown and the text lost.
Run(s) ==
  IF IsSessionBusy(s) THEN UNCHANGED <<running, active>>
  ELSE /\ running' = [running EXCEPT ![s] = @ + 1]
       /\ active' = active \cup {<<s, "run">>}

\* Mutant of Send: the new session is not announced.
SendUnannounced(m) ==
  LET s == IF current = NoSession THEN created + 1 ELSE current IN
  /\ Arrives(m) /\ m.kind = "send" /\ s \in Sessions /\ page = "chat"
  /\ Run(s)
  /\ current' = s
  /\ created' = IF current = NoSession THEN s ELSE created
  /\ inFlight' = inFlight \ {m}
  /\ UNCHANGED <<eventVars, stored, summarizing, page, selected, editor, shown, list, unloaded,
                 compacting, inputs, ghosts>>

\* SendMsg.  The chat page creates a session if it has none; the log page drops
\* the message, text and all.
Send(m) ==
  LET s == IF current = NoSession THEN created + 1 ELSE current IN
  /\ Arrives(m) /\ m.kind = "send" /\ s \in Sessions
  /\ IF page = "chat"
     THEN /\ Run(s)
          /\ current' = s
          /\ created' = IF current = NoSession THEN s ELSE created
          /\ inFlight' = (inFlight \ {m}) \cup
               (IF current = NoSession THEN {OfSession("selected", s)} ELSE {})
          /\ raced' = (raced \/ (current = NoSession /\ Changing))
     ELSE /\ inFlight' = inFlight \ {m}
          /\ UNCHANGED <<running, active, current, created, raced>>
  /\ UNCHANGED <<eventVars, stored, summarizing, page, selected, editor, shown, list, unloaded,
                 compacting, inputs, unseen, refused>>

\* startCompactSessionMsg: the overlay, and the command that calls Summarize for
\* the session the application model has selected.
StartCompact(m) ==
  /\ Arrives(m) /\ m.kind = "compact"
  /\ compacting' = (selected # NoSession)
  /\ inFlight' = (inFlight \ {m}) \cup
       (IF selected = NoSession THEN {} ELSE {OfSession("summarize", selected)})
  /\ refused' = (refused /\ selected # NoSession)
  /\ UNCHANGED <<eventVars, agentVars, page, selected, current, editor, shown, list, unloaded,
                 inputs, unseen, raced>>

\* Summarize.  Its error is ignored.
Summarize(m) ==
  LET s == m.session IN
  /\ m \in inFlight /\ m.kind = "summarize"
  /\ inFlight' = inFlight \ {m}
  /\ IF IsSessionBusy(s) THEN refused' = compacting /\ UNCHANGED <<summarizing, active>>
     ELSE /\ summarizing' = [summarizing EXCEPT ![s] = @ + 1]
          /\ active' = active \cup {<<s, "summary">>}
          /\ UNCHANGED refused
  /\ UNCHANGED <<eventVars, stored, created, running, screen, inputs, unseen, raced>>

Command == \E m \in inFlight :
  \/ SessionSelected(m) \/ SessionPicked(m) \/ SessionCleared(m)
  \/ Send(m) \/ StartCompact(m) \/ Summarize(m)

---------------------------------------------------------------------------
(* The user *)

Input == main = "running" /\ inputs < MaxInputs /\ inputs' = inputs + 1

\* The user goes to another session or page: a race, if a change is under way.
GoesOn == raced' = (raced \/ Changing)

\* enter in the editor, which asks about its own session only
Enter ==
  /\ Input /\ page = "chat"
  /\ ~IsSessionBusy(editor)
  /\ inFlight' = inFlight \cup {Bare("send")}
  /\ UNCHANGED <<eventVars, agentVars, screen, ghosts>>

\* ctrl+n
NewSession ==
  /\ Input /\ page = "chat" /\ GoesOn
  /\ current' = NoSession
  /\ inFlight' = inFlight \cup {Bare("cleared")}
  /\ UNCHANGED <<eventVars, agentVars, page, selected, editor, shown, list, unloaded,
                 compacting, unseen, refused>>

\* ctrl+s and a choice
PickSession(s) ==
  /\ Input /\ page = "chat" /\ s <= created /\ GoesOn
  /\ inFlight' = inFlight \cup {OfSession("picked", s)}
  /\ UNCHANGED <<eventVars, agentVars, screen, unseen, refused>>

\* The command "Compact Session"
Compact ==
  /\ Input /\ page = "chat"
  /\ inFlight' = inFlight \cup {Bare("compact")}
  /\ UNCHANGED <<eventVars, agentVars, screen, ghosts>>

\* esc: Cancel frees both keys of the session; what runs ends later.
Cancel ==
  /\ Input /\ page = "chat" /\ current # NoSession
  /\ active' = active \ {<<current, r>> : r \in Requests}
  /\ UNCHANGED <<eventVars, stored, created, running, summarizing, inFlight, screen, ghosts>>

\* ctrl+l, and esc on the log page: moveToPage.
MoveToPage(p) ==
  /\ Input /\ page # p /\ ~IsBusy /\ GoesOn
  /\ page' = p
  /\ UNCHANGED <<eventVars, agentVars, inFlight, selected, current, editor, shown, list, unloaded,
                 compacting, unseen, refused>>

User ==
  \/ Enter \/ NewSession \/ Compact \/ Cancel
  \/ \E s \in Sessions : PickSession(s)
  \/ \E p \in {"chat", "logs"} : MoveToPage(p)

---------------------------------------------------------------------------

Transmit ==
  /\ \/ \E t \in Topics : Transport(t) \/ \E e \in publishing[t] : Offer(t, e)
     \/ Teardown
  /\ UNCHANGED <<agentVars, inFlight, screen, inputs, ghosts>>

Next == Agent \/ Receive \/ Command \/ User \/ Transmit

Spec == Init /\ [][Next]_vars

---------------------------------------------------------------------------
(* Properties *)

InTransit(t) ==
  Len(queue[t]) + Cardinality({i \in DOMAIN output : output[i].topic = t})
    + (IF held[t] = Nothing THEN 0 ELSE 1)

\* Once all message events have come in, the list shows the session as it is
\* stored: every message, in its last version, whenever the session was opened
\* or left.  Only an event that was dropped, or that came while the log page was
\* shown, is missed, and that for good; and a session whose messages could not be
\* loaded when it was selected stays without them until another is shown.
ScreenIsStored ==
  \/ main # "running" \/ shown = NoSession \/ unloaded \/ unseen \/ "message" \in dropped
  \/ publishing["message"] # {} \/ InTransit("message") > 0
  \/ {list[i] : i \in DOMAIN list} =
       {[index |-> i, version |-> stored[shown][i]] : i \in DOMAIN stored[shown]}

\* When no change of session is under way, what the user sees is what the next
\* message goes to, and the editor and the application model (whose session is
\* compacted) have the same session, or an older one while the page has none;
\* unless the user went on while a change was under way.
OneSession ==
  main # "running" \/ Changing \/ raced \/
  (shown = current /\ (current # NoSession => selected = current /\ editor = current))

\* The overlay is up only as long as a summary is asked for, being made, or its
\* end on the way to the UI; unless Summarize refused or the event was dropped.
OverlayEnds ==
  compacting /\ main = "running" =>
    \/ \E m \in inFlight : m.kind = "summarize"
    \/ \E s \in Sessions : summarizing[s] > 0
    \/ \E e \in publishing["agent"] : e.kind # "response"
    \/ InTransit("agent") > 0 \/ "agent" \in dropped
    \/ refused

=============================================================================
