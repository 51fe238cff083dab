------------------------------- MODULE Events -------------------------------
(***************************************************************************)
(* How events reach the terminal UI: the brokers (internal/pubsub/         *)
(* broker.go), the goroutines that forward each subscription to the one    *)
(* channel of the UI, and the way they are taken down (cmd/root.go).       *)
(*                                                                         *)
(* There is one broker per topic, with one subscription.  Publish copies   *)
(* the subscribers under the lock and sends without it; it never waits: an *)
(* event that finds the subscription's buffer full is dropped, and one the *)
(* UI does not take within two seconds too.                                *)
(***************************************************************************)
EXTENDS Naturals, Sequences, FiniteSets

CONSTANTS
  Topics,
  Payloads,    \* what an event carries
  BufferSize,  \* of a subscription's channel (64 in the code)
  OutputSize   \* of the UI's channel (100 in the code)

ASSUME SizesAssumption == BufferSize \in Nat \ {0} /\ OutputSize \in Nat \ {0}

VARIABLES
  publishing,  \* [Topics -> the events whose Publish has copied the subscribers]
  offered,     \* history: [Topics -> how many events were offered]
  queue,       \* [Topics -> the subscription's channel]
  sub,         \* [Topics -> where the forwarding goroutine is]
  held,        \* [Topics -> the event it forwards, or Nothing]
  closed,      \* the topics whose subscription's channel is closed
  output,      \* the channel of the UI
  received,    \* history: [Topics -> the number of the event the UI received last,
               \* and how many it received]
  main,        \* where the main goroutine is
  dropped,     \* history: the topics an event of which was dropped
  panicked     \* history: the topics a Publish of which sent on a closed channel

eventVars ==
  <<publishing, offered, queue, sub, held, closed, output, received, main, dropped, panicked>>

Places == {"starting", "waiting", "sending", "done"}
Stages == {"running", "exited", "cancelled", "closed", "done"}

\* Numbers are history: they say which of the events offered an event is.
Numbered == [number : Nat \ {0}, event : Payloads]
Items    == [topic : Topics, number : Nat \ {0}, event : Payloads]
Nothing  == [number |-> 0]

EventsTypeOK ==
  /\ publishing \in [Topics -> SUBSET Payloads]
  /\ offered \in [Topics -> Nat]
  /\ queue \in [Topics -> Seq(Numbered)]
  /\ sub \in [Topics -> Places]
  /\ held \in [Topics -> Numbered \cup {Nothing}]
  /\ \A t \in Topics : sub[t] = "sending" <=> held[t] # Nothing
  /\ closed \subseteq Topics
  /\ output \in Seq(Items)
  /\ received \in [Topics -> [last : Nat, count : Nat]]
  /\ main \in Stages
  /\ dropped \subseteq Topics /\ panicked \subseteq Topics

EventsInit ==
  /\ publishing = [t \in Topics |-> {}]
  /\ offered = [t \in Topics |-> 0]
  /\ queue = [t \in Topics |-> <<>>]
  /\ sub = [t \in Topics |-> "starting"]
  /\ held = [t \in Topics |-> Nothing]
  /\ closed = {}
  /\ output = <<>>
  /\ received = [t \in Topics |-> [last |-> 0, count |-> 0]]
  /\ main = "running"
  /\ dropped = {} /\ panicked = {}

---------------------------------------------------------------------------
(* The broker *)

Counted(t) == offered' = [offered EXCEPT ![t] = @ + 1]
Dropped(t) == dropped' = dropped \cup {t}

\* The subscription is in the broker's map.
Subscribed(t) == sub[t] # "starting" /\ t \notin closed

\* Publish, until it has copied the subscribers.  Without any, it is over.
Publish(t, e) ==
  /\ e \in Payloads \ publishing[t]
  /\ IF Subscribed(t)
     THEN publishing' = [publishing EXCEPT ![t] = @ \cup {e}] /\ UNCHANGED <<offered, dropped>>
     ELSE Counted(t) /\ Dropped(t) /\ UNCHANGED publishing
  /\ UNCHANGED <<queue, sub, held, closed, output, received, main, panicked>>

\* Publish's send.  On a channel closed meanwhile it panics.
Offer(t, e) ==
  /\ e \in publishing[t]
  /\ publishing' = [publishing EXCEPT ![t] = @ \ {e}]
  /\ Counted(t)
  /\ IF t \notin closed /\ Len(queue[t]) < BufferSize
     THEN /\ queue' = [queue EXCEPT ![t] = Append(@, [number |-> offered[t] + 1, event |-> e])]
          /\ UNCHANGED dropped
     ELSE Dropped(t) /\ UNCHANGED queue
  /\ panicked' = IF t \in closed THEN panicked \cup {t} ELSE panicked
  /\ UNCHANGED <<sub, held, closed, output, received, main>>

\* Mutant of Unsubscribe: a subscription whose buffer is full is dropped.
UnsubscribeSlow(t) ==
  /\ Subscribed(t)
  /\ main \notin {"running", "exited"} \/ Len(queue[t]) = BufferSize
  /\ closed' = closed \cup {t}
  /\ UNCHANGED <<publishing, offered, queue, sub, held, output, received, main, dropped, panicked>>

\* Subscribe's goroutine, when the context is cancelled.
Unsubscribe(t) ==
  /\ main \notin {"running", "exited"} /\ Subscribed(t)
  /\ closed' = closed \cup {t}
  /\ UNCHANGED <<publishing, offered, queue, sub, held, output, received, main, dropped, panicked>>

---------------------------------------------------------------------------
(* setupSubscriber's goroutine *)

Subscribe(t) ==
  /\ sub[t] = "starting"
  /\ sub' = [sub EXCEPT ![t] = "waiting"]
  /\ UNCHANGED <<publishing, offered, queue, held, closed, output, received, main, dropped, panicked>>

Take(t) ==
  /\ sub[t] = "waiting" /\ queue[t] # <<>>
  /\ held' = [held EXCEPT ![t] = Head(queue[t])]
  /\ queue' = [queue EXCEPT ![t] = Tail(@)]
  /\ sub' = [sub EXCEPT ![t] = "sending"]
  /\ UNCHANGED <<publishing, offered, closed, output, received, main, dropped, panicked>>

OutputOpen == main \in {"running", "exited", "cancelled"}

\* Mutant of Forward: the event is sent again.
ForwardAgain(t) ==
  /\ sub[t] = "sending" /\ OutputOpen /\ Len(output) < OutputSize
  /\ output' = Append(output,
       [topic |-> t, number |-> held[t].number, event |-> held[t].event])
  /\ UNCHANGED <<publishing, offered, queue, sub, held, closed, received, main, dropped, panicked>>

Forward(t) ==
  /\ sub[t] = "sending" /\ OutputOpen /\ Len(output) < OutputSize
  /\ output' = Append(output,
       [topic |-> t, number |-> held[t].number, event |-> held[t].event])
  /\ held' = [held EXCEPT ![t] = Nothing]
  /\ sub' = [sub EXCEPT ![t] = "waiting"]
  /\ UNCHANGED <<publishing, offered, queue, closed, received, main, dropped, panicked>>

\* Two seconds have passed.
DropSlow(t) ==
  /\ sub[t] = "sending" /\ Len(output) = OutputSize
  /\ held' = [held EXCEPT ![t] = Nothing]
  /\ sub' = [sub EXCEPT ![t] = "waiting"]
  /\ Dropped(t)
  /\ UNCHANGED <<publishing, offered, queue, closed, output, received, main, panicked>>

\* The context is cancelled or the subscription's channel is closed; or the send
\* on the UI's closed channel panics, which is recovered.
StopForwarding(t) ==
  /\ sub[t] \in {"waiting", "sending"} /\ main \notin {"running", "exited"}
  /\ sub' = [sub EXCEPT ![t] = "done"]
  /\ held' = [held EXCEPT ![t] = Nothing]
  /\ Dropped(t)
  /\ UNCHANGED <<publishing, offered, queue, closed, output, received, main, panicked>>

---------------------------------------------------------------------------
(* The UI's message handler, and the main goroutine *)

\* The handler sends the message to the program, which has no use for it after
\* it has ended.
Deliver ==
  /\ output # <<>> /\ main # "done"
  /\ received' = [received EXCEPT ![Head(output).topic] =
       [last |-> Head(output).number, count |-> @.count + 1]]
  /\ output' = Tail(output)
  /\ UNCHANGED <<publishing, offered, queue, sub, held, closed, main, dropped, panicked>>

\* program.Run returns.
Exit ==
  /\ main = "running" /\ main' = "exited"
  /\ UNCHANGED <<publishing, offered, queue, sub, held, closed, output, received, dropped, panicked>>

\* Cleanup: after app.Shutdown, cancelSubs cancels the context ...
CancelSubscriptions ==
  /\ main = "exited" /\ main' = "cancelled"
  /\ UNCHANGED <<publishing, offered, queue, sub, held, closed, output, received, dropped, panicked>>

\* ... and closes the UI's channel when the forwarding goroutines are done, or
\* after five seconds.
CloseOutput ==
  /\ main = "cancelled" /\ main' = "closed"
  /\ UNCHANGED <<publishing, offered, queue, sub, held, closed, output, received, dropped, panicked>>

\* tuiCancel, and the handler has seen it or the closed channel.
Join ==
  /\ main = "closed" /\ main' = "done"
  /\ UNCHANGED <<publishing, offered, queue, sub, held, closed, output, received, dropped, panicked>>

Teardown == Exit \/ CancelSubscriptions \/ CloseOutput \/ Join

Transport(t) == Unsubscribe(t) \/ Subscribe(t) \/ Take(t) \/ Forward(t) \/ DropSlow(t) \/ StopForwarding(t)

EventsNext ==
  \/ \E t \in Topics : Transport(t) \/ \E e \in Payloads : Publish(t, e) \/ Offer(t, e)
  \/ Deliver
  \/ Teardown

EventsSpec == EventsInit /\ [][EventsNext]_eventVars

---------------------------------------------------------------------------
(* Properties *)

Channels == INSTANCE LossyChannels WITH
  sent <- offered, got <- received

\* The way to the UI is a lossy channel for each topic: events may be dropped, in
\* the subscription's buffer or by a slow UI, and topics overtake each other, but
\* the events of one topic arrive in order and at most once, also while
\* everything is taken down.
TopicsInOrder == Channels!Spec

\* A Publish sends on a closed channel, which panics, only after the program has
\* ended; never because of a slow UI or a full buffer.
PanicOnlyAtTeardown == panicked # {} => main \notin {"running", "exited"}

=============================================================================
