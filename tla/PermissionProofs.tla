-------------------------- MODULE PermissionProofs --------------------------
(***************************************************************************)
(* Theorems about Permission, for any requests, any capacity of the        *)
(* subscription channel and any number of answers: who is granted what     *)
(* (AnswersAreTheUsers), what becomes of those who wait                    *)
(* (WaitingIsReachable, AnswerIsUnderWay), and that all of it implements   *)
(* the abstract service Consent (ConsentService).                          *)
(***************************************************************************)
EXTENDS Permission, FiniteSetTheorems, SequenceTheorems, TLAPS

---------------------------------------------------------------------------
(* Types *)

TypeInv ==
  /\ TypeOK
  /\ IsFiniteSet(pressed)
  /\ showPermissions => dialog \in Requests

\* The answers a request was given are among all of them, so the next one is
\* numbered within the bound.
LEMMA PressesBounded ==
  ASSUME TypeInv, NEW r \in Requests
  PROVE  Presses(r) \in Nat /\ Presses(r) <= Cardinality(pressed) /\ Cardinality(pressed) \in Nat
<1> DEFINE of == {m \in pressed : m.id = r}
<1>1. IsFiniteSet(pressed)
  BY DEF TypeInv
<1>2. of \subseteq pressed
  OBVIOUS
<1>3. IsFiniteSet(of) /\ Cardinality(of) <= Cardinality(pressed)
  BY <1>1, <1>2, FS_Subset
<1>4. Cardinality(of) \in Nat /\ Cardinality(pressed) \in Nat
  BY <1>1, <1>3, FS_CardinalityType
<1> QED
  BY <1>3, <1>4 DEF Presses

\* A request has an answer exactly when its count of answers is positive.
LEMMA PressedAtAll ==
  ASSUME TypeInv, NEW r \in Requests
  PROVE  Presses(r) > 0 <=> \E m \in pressed : m.id = r
<1> DEFINE of == {m \in pressed : m.id = r}
<1>1. IsFiniteSet(of)
  <2>1. of \subseteq pressed /\ IsFiniteSet(pressed)
    BY DEF TypeInv
  <2> QED
    BY <2>1, FS_Subset
<1>2. Cardinality(of) \in Nat
  BY <1>1, FS_CardinalityType
<1>3. Cardinality(of) = 0 <=> of = {}
  BY <1>1, FS_EmptySet
<1>4. Presses(r) > 0 <=> of # {}
  BY <1>2, <1>3 DEF Presses
<1> QED
  BY <1>4

\* Taking the oldest event away.
LEMMA TailTyped ==
  ASSUME TypeInv, events # <<>>
  PROVE  /\ Head(events) \in Requests /\ Tail(events) \in Seq(Requests)
         /\ Len(Tail(events)) <= BufferSize
<1>1. events \in Seq(Requests) /\ Len(events) <= BufferSize
  BY DEF TypeInv, TypeOK
<1>2. Len(Tail(events)) = Len(events) - 1 /\ Len(events) \in Nat
  BY <1>1, HeadTailProperties, LenProperties
<1>3. Head(events) \in Requests /\ Tail(events) \in Seq(Requests)
  BY <1>1, HeadTailProperties
<1> QED
  BY <1>1, <1>2, <1>3, PermissionAssumption

\* The two forms of what the Update loop has in hand: nothing ...
LEMMA IdleTyped == Idle \in Updates
BY DEF Updates

\* ... and an answer it handles.
LEMMA HandlingTyped ==
  ASSUME NEW m \in Messages
  PROVE  Handling("sending", m) \in Updates /\ Handling("remembering", m) \in Updates
BY DEF Updates

\* What the Update loop has in hand while it handles an answer.
LEMMA HandledTyped ==
  ASSUME TypeInv, update.at \in {"sending", "remembering"}
  PROVE  /\ update.msg \in Messages
         /\ update.msg.id \in Requests /\ update.msg.action \in Actions
<1>1. update # Idle
  BY DEF Idle
<1>2. PICK l \in {"sending", "remembering"}, m \in Messages : update = Handling(l, m)
  BY <1>1 DEF TypeInv, TypeOK, Updates
<1>3. update.msg = m
  BY <1>2 DEF Handling
<1> QED
  BY <1>3 DEF Messages

\* The initial state has the types.
LEMMA TypeInit == Init => TypeInv
<1> SUFFICES ASSUME Init PROVE TypeInv
  OBVIOUS
<1>1. IsFiniteSet(pressed)
  BY FS_EmptySet DEF Init
<1>2. TypeOK
  <2>1. events \in Seq(Requests) /\ Len(events) <= BufferSize
    BY PermissionAssumption, EmptySeq DEF Init
  <2>2. respCh \in [Requests -> Buffers]
    BY DEF Init, Buffers
  <2> QED
    BY <2>1, <2>2, IdleTyped DEF Init, TypeOK, States
<1> QED
  BY <1>1, <1>2 DEF Init, TypeInv

\* Every step keeps the types.
LEMMA TypeNext == TypeInv /\ [Next]_vars => TypeInv'
<1> SUFFICES ASSUME TypeInv, [Next]_vars PROVE TypeInv'
  OBVIOUS
<1> USE PermissionAssumption
<1>1. ASSUME NEW r \in Requests, Request(r) PROVE TypeInv'
  BY <1>1 DEF TypeInv, TypeOK, Request, Goto, States, tui, ghosts
<1>2. ASSUME NEW r \in Requests, Publish(r) PROVE TypeInv'
  <2>1. events \in Seq(Requests) /\ Len(events) <= BufferSize
    BY DEF TypeInv, TypeOK
  <2>2. events' \in Seq(Requests) /\ Len(events') <= BufferSize
    BY <1>2, <2>1 DEF Publish
  <2> QED
    BY <1>2, <2>2 DEF TypeInv, TypeOK, Publish, Goto, States, tui
<1>3. ASSUME NEW r \in Requests, Receive(r) PROVE TypeInv'
  BY <1>3 DEF TypeInv, TypeOK, Receive, Goto, States, Buffers, tui, ghosts
<1>4. ASSUME NEW r \in Requests, Return(r) PROVE TypeInv'
  BY <1>4 DEF TypeInv, TypeOK, Return, Goto, States, tui, ghosts
<1>5. CASE Lose
  BY <1>5, TailTyped DEF TypeInv, TypeOK, Lose, service, tui
<1>6. CASE Show
  BY <1>6, TailTyped DEF TypeInv, TypeOK, Show, service, ghosts
<1>7. ASSUME NEW m \in Messages, Respond(m) PROVE TypeInv'
  BY <1>7, IdleTyped, HandlingTyped DEF TypeInv, TypeOK, Respond, Close, service, ghosts
<1>8. CASE Send
  BY <1>8, IdleTyped, HandlingTyped, HandledTyped
     DEF TypeInv, TypeOK, Send, Buffers, Close, ghosts
<1>9. CASE Remember
  BY <1>9, IdleTyped, HandledTyped DEF TypeInv, TypeOK, Remember, Close, Scopes, ghosts
<1>10. ASSUME NEW action \in Actions, Press(action) PROVE TypeInv'
  <2> DEFINE m == [id |-> dialog, action |-> action, n |-> Presses(dialog) + 1]
  <2>1. dialog \in Requests
    BY <1>10 DEF Press, TypeInv
  <2>2. Presses(dialog) + 1 \in 1 .. MaxPresses
    BY <1>10, <2>1, PressesBounded DEF Press
  <2>3. m \in Messages
    BY <2>1, <2>2 DEF Messages
  <2>4. pressed' = pressed \cup {m} /\ responses' = responses \cup {m}
    BY <1>10 DEF Press
  <2>5. IsFiniteSet(pressed')
    BY <2>4, FS_AddElement DEF TypeInv
  <2> QED
    BY <1>10, <2>3, <2>4, <2>5 DEF TypeInv, TypeOK, Press, service
<1>11. CASE UNCHANGED vars
  BY <1>11 DEF TypeInv, TypeOK, vars, service, tui, ghosts
<1> QED
  BY <1>1, <1>2, <1>3, <1>4, <1>5, <1>6, <1>7, <1>8, <1>9, <1>10, <1>11
     DEF Next, Waiter, Loop

\* The types, and that the answers are finitely many, hold throughout.
THEOREM TypeInvariant == Spec => []TypeInv
BY TypeInit, TypeNext, PTL DEF Spec

\* Every variable keeps its type: no buffer overflows, no answer is numbered
\* beyond the bound.
THEOREM TypeCorrect == Spec => []TypeOK
<1>1. TypeInv => TypeOK
  BY DEF TypeInv
<1> QED
  BY <1>1, TypeInvariant, PTL

---------------------------------------------------------------------------
(* Consent *)

\* An answer under way, to Update or in its hands, is one the user gave; the
\* loop remembers only an answer that allows the session.
UnderWayPressed ==
  /\ responses \subseteq pressed
  /\ update.at \in {"sending", "remembering"} => update.msg \in pressed
  /\ update.at = "remembering" => update.msg.action = "allow_session"

\* What a request's channel holds is an answer to that request.
ChannelsHonest ==
  \A r \in Requests :
    /\ respCh[r] = <<TRUE>> => Answers(r) \cap {"allow", "allow_session"} # {}
    /\ respCh[r] = <<FALSE>> => "deny" \in Answers(r)

\* Every scope in sessionPermissions was allowed for a request of that scope.
PermissionsGiven ==
  \A p \in sessionPermissions :
    \E q \in Requests : Scope(q) = p /\ "allow_session" \in Answers(q)

ConsentInv ==
  TypeInv /\ UnderWayPressed /\ ChannelsHonest /\ PermissionsGiven /\ AnswersAreTheUsers

\* The only element of a channel is the one received.
LEMMA HeadOfOne == ASSUME NEW x PROVE Head(<<x>>) = x
OBVIOUS

\* A channel with an answer is not empty, and consent is not a denial.
LEMMA AnswersDiffer == <<TRUE>> # <<FALSE>> /\ <<>> # <<TRUE>> /\ <<>> # <<FALSE>>
<1>1. <<TRUE>>[1] # <<FALSE>>[1]
  OBVIOUS
<1>2. <<>> # <<TRUE>> /\ <<>> # <<FALSE>>
  OBVIOUS
<1> QED
  BY <1>1, <1>2, Zenon

\* No step takes an answer back.
LEMMA AnswersGrow ==
  ASSUME [Next]_vars, NEW r \in Requests
  PROVE  pressed \subseteq pressed' /\ Answers(r) \subseteq Answers(r)'
<1>1. pressed \subseteq pressed'
  BY DEF Next, Waiter, Loop, Request, Publish, Receive, Return, Lose, Show, Press,
         Respond, Send, Remember, ghosts, vars
<1> QED
  BY <1>1 DEF Answers

\* Initially nobody has answered and nothing is remembered.
LEMMA ConsentInit == Init => ConsentInv
<1> SUFFICES ASSUME Init PROVE ConsentInv
  OBVIOUS
<1>1. UnderWayPressed
  BY DEF Init, UnderWayPressed, Idle
<1>2. ChannelsHonest
  BY DEF Init, ChannelsHonest
<1>3. PermissionsGiven /\ AnswersAreTheUsers
  BY DEF Init, PermissionsGiven, AnswersAreTheUsers
<1> QED
  BY <1>1, <1>2, <1>3, TypeInit DEF ConsentInv

\* Only Press creates an answer under way, and it is in pressed.
LEMMA UnderWayNext ==
  ASSUME TypeInv, UnderWayPressed, [Next]_vars
  PROVE  UnderWayPressed'
<1>1. ASSUME NEW r \in Requests, Request(r) \/ Waiter(r) PROVE UnderWayPressed'
  BY <1>1 DEF UnderWayPressed, Request, Waiter, Publish, Receive, Return, tui, ghosts
<1>2. CASE Lose \/ Show
  BY <1>2 DEF UnderWayPressed, Lose, Show, tui, ghosts
<1>3. ASSUME NEW m \in Messages, Respond(m) PROVE UnderWayPressed'
  BY <1>3 DEF UnderWayPressed, Respond, Close, Handling, Idle, ghosts
<1>4. CASE Send
  BY <1>4 DEF UnderWayPressed, Send, Close, Handling, Idle, ghosts
<1>5. CASE Remember
  BY <1>5 DEF UnderWayPressed, Remember, Close, Idle, ghosts
<1>6. ASSUME NEW action \in Actions, Press(action) PROVE UnderWayPressed'
  BY <1>6 DEF UnderWayPressed, Press
<1>7. CASE UNCHANGED vars
  BY <1>7 DEF UnderWayPressed, vars, tui, ghosts
<1> QED
  BY <1>1, <1>2, <1>3, <1>4, <1>5, <1>6, <1>7 DEF Next, Loop

\* Only Send puts something into a channel: an answer to that request.
LEMMA ChannelsNext ==
  ASSUME TypeInv, UnderWayPressed, ChannelsHonest, [Next]_vars
  PROVE  ChannelsHonest'
<1> SUFFICES ASSUME NEW r \in Requests
             PROVE  /\ respCh'[r] = <<TRUE>> => Answers(r)' \cap {"allow", "allow_session"} # {}
                    /\ respCh'[r] = <<FALSE>> => "deny" \in Answers(r)'
  BY DEF ChannelsHonest
<1>1. Answers(r) \subseteq Answers(r)'
  BY AnswersGrow
<1>2. CASE respCh'[r] = respCh[r]
  BY <1>1, <1>2 DEF ChannelsHonest
<1>3. CASE Send /\ update.msg.id = r
  <2>1. update.msg \in pressed /\ update.msg.action \in Actions
    BY <1>3, HandledTyped DEF UnderWayPressed, Send
  <2>2. update.msg.action \in Answers(r)
    BY <1>3, <2>1 DEF Answers
  <2>3. respCh'[r] = <<update.msg.action # "deny">>
    BY <1>3 DEF Send, TypeInv, TypeOK
  <2>4. CASE update.msg.action = "deny"
    <3>1. (update.msg.action # "deny") = FALSE
      BY <2>4
    <3>2. respCh'[r] = <<FALSE>>
      BY <2>3, <3>1, Zenon
    <3> QED
      BY <1>1, <2>2, <2>4, <3>2, AnswersDiffer, Zenon
  <2>5. CASE update.msg.action \in {"allow", "allow_session"}
    <3>1. (update.msg.action # "deny") = TRUE
      BY <2>5
    <3>2. respCh'[r] = <<TRUE>>
      BY <2>3, <3>1, Zenon
    <3>3. Answers(r)' \cap {"allow", "allow_session"} # {}
      BY <1>1, <2>2, <2>5
    <3> QED
      BY <3>2, <3>3, AnswersDiffer, Zenon
  <2> QED
    BY <2>1, <2>4, <2>5 DEF Actions
<1>4. CASE \E q \in Requests : Receive(q)
  <2>1. respCh'[r] = respCh[r] \/ respCh'[r] = <<>>
    BY <1>4 DEF Receive, TypeInv, TypeOK
  <2> QED
    BY <1>2, <2>1, AnswersDiffer, Zenon
<1>5. CASE Send /\ update.msg.id # r
  BY <1>2, <1>5 DEF Send, TypeInv, TypeOK
<1>6. CASE ~Send /\ \A q \in Requests : ~Receive(q)
  <2>1. UNCHANGED respCh
    BY <1>6 DEF Next, Waiter, Loop, Request, Publish, Return, Lose, Show, Press,
                Respond, Remember, service, vars
  <2> QED
    BY <1>2, <2>1
<1> QED
  BY <1>2, <1>3, <1>4, <1>5, <1>6

\* Only Remember adds a scope: that of an answer allowing the session.
LEMMA PermissionsNext ==
  ASSUME TypeInv, UnderWayPressed, PermissionsGiven, [Next]_vars
  PROVE  PermissionsGiven'
<1> SUFFICES ASSUME NEW p \in sessionPermissions'
             PROVE  \E q \in Requests : Scope(q) = p /\ "allow_session" \in Answers(q)'
  BY DEF PermissionsGiven, Scope
<1>1. CASE p \in sessionPermissions
  BY <1>1, AnswersGrow DEF PermissionsGiven
<1>2. CASE Remember /\ p = Scope(update.msg.id)
  <2>1. /\ update.msg \in pressed /\ update.msg.action = "allow_session"
        /\ update.msg.id \in Requests
    BY <1>2, HandledTyped DEF UnderWayPressed, Remember
  <2>2. "allow_session" \in Answers(update.msg.id)
    BY <2>1 DEF Answers
  <2> QED
    BY <1>2, <2>1, <2>2, AnswersGrow
<1>3. CASE ~Remember
  <2>1. UNCHANGED sessionPermissions
    BY <1>3 DEF Next, Waiter, Loop, Request, Publish, Receive, Return, Lose, Show,
                Press, Respond, Send, service, vars
  <2> QED
    BY <1>1, <2>1
<1> QED
  BY <1>1, <1>2, <1>3 DEF Remember

\* A step keeps consent: who is granted received TRUE or found the scope remembered.
LEMMA ConsentNext ==
  ASSUME TypeInv, ChannelsHonest, PermissionsGiven, AnswersAreTheUsers, [Next]_vars
  PROVE  AnswersAreTheUsers'
<1> DEFINE Consent(r) ==
      \/ Answers(r) \cap {"allow", "allow_session"} # {}
      \/ \E q \in Requests : Scope(q) = Scope(r) /\ "allow_session" \in Answers(q)
      \/ Opts[r].session \in autoApproveSessions
<1>1. UNCHANGED autoApproveSessions
  BY DEF Next, Waiter, Loop, Request, Publish, Receive, Return, Lose, Show, Press,
         Respond, Send, Remember, service, vars
<1>2. SUFFICES ASSUME NEW r \in Requests
               PROVE  /\ pc'[r] \in {"allowed", "granted"} => Consent(r)
                      /\ pc'[r] \in {"refused", "denied"} => "deny" \in Answers(r)
  <2>1. ASSUME NEW r \in Requests, Consent(r)
        PROVE  \/ Answers(r)' \cap {"allow", "allow_session"} # {}
               \/ \E q \in Requests : Scope(q) = Scope(r) /\ "allow_session" \in Answers(q)'
               \/ Opts[r].session \in autoApproveSessions'
    BY <1>1, <2>1, AnswersGrow
  <2> QED
    BY <1>2, <2>1, AnswersGrow DEF AnswersAreTheUsers, Scope
<1>3. CASE pc'[r] = pc[r]
  BY <1>3 DEF AnswersAreTheUsers
<1>4. CASE Request(r)
  <2>1. pc'[r] \in {"granted", "asking"}
    BY <1>4 DEF Request, Goto, TypeInv, TypeOK
  <2>2. pc'[r] = "granted" => Opts[r].session \in autoApproveSessions \/ Remembered(r)
    BY <1>4 DEF Request, Goto, TypeInv, TypeOK
  <2>3. Remembered(r) => Consent(r)
    BY DEF Remembered, PermissionsGiven
  <2> QED
    BY <2>1, <2>2, <2>3
<1>5. CASE Publish(r)
  BY <1>5 DEF Publish, Goto, TypeInv, TypeOK
<1>6. CASE Receive(r)
  <2>1. respCh[r] = <<TRUE>> \/ respCh[r] = <<FALSE>>
    BY <1>6 DEF Receive, TypeInv, TypeOK, Buffers
  <2>2. pc'[r] = IF Head(respCh[r]) THEN "allowed" ELSE "refused"
    BY <1>6 DEF Receive, Goto, TypeInv, TypeOK
  <2>3. CASE respCh[r] = <<TRUE>>
    <3>1. Head(respCh[r])
      BY <2>3, HeadOfOne, Zenon
    <3>2. pc'[r] = "allowed"
      BY <2>2, <3>1
    <3> QED
      BY <2>3, <3>2 DEF ChannelsHonest
  <2>4. CASE respCh[r] = <<FALSE>>
    <3>1. ~Head(respCh[r])
      BY <2>4, HeadOfOne, Zenon
    <3>2. pc'[r] = "refused"
      BY <2>2, <3>1
    <3> QED
      BY <2>4, <3>2 DEF ChannelsHonest
  <2> QED
    BY <2>1, <2>3, <2>4
<1>7. CASE Return(r)
  BY <1>7 DEF Return, Goto, TypeInv, TypeOK, AnswersAreTheUsers
<1>8. CASE ~Request(r) /\ ~Waiter(r)
  <2>1. ASSUME NEW q \in Requests, Request(q) \/ Waiter(q) PROVE pc'[r] = pc[r]
    <3>1. q # r
      BY <1>8, <2>1
    <3>2. \E l : Goto(q, l)
      BY <2>1 DEF Waiter, Request, Publish, Receive, Return
    <3> QED
      BY <3>1, <3>2 DEF Goto, TypeInv, TypeOK
  <2>2. pc'[r] = pc[r]
    BY <2>1 DEF Next, Loop, Lose, Show, Press, Respond, Send, Remember, service, vars
  <2> QED
    BY <1>3, <2>2
<1> QED
  BY <1>4, <1>5, <1>6, <1>7, <1>8 DEF Waiter

\* Answers, channels and remembered scopes are the user's throughout.
THEOREM ConsentInvariant == Spec => []ConsentInv
<1>1. ConsentInv /\ [Next]_vars => ConsentInv'
  BY TypeNext, UnderWayNext, ChannelsNext, PermissionsNext, ConsentNext DEF ConsentInv
<1> QED
  BY <1>1, ConsentInit, PTL DEF Spec

\* A tool runs only with consent, and is denied only by the user, however late,
\* repeated or out of order the answers come.
THEOREM ConsentGiven == Spec => []AnswersAreTheUsers
<1>1. ConsentInv => AnswersAreTheUsers
  BY DEF ConsentInv
<1> QED
  BY <1>1, ConsentInvariant, PTL

---------------------------------------------------------------------------
(* No answer is lost *)

\* A request that has not been published is nowhere yet, and is unanswered; a
\* request that waits has its channel in the map.
Registered ==
  \A r \in Requests :
    /\ pc[r] \in {"idle", "asking"} =>
         /\ \A i \in DOMAIN events : events[i] # r
         /\ showPermissions => dialog # r
         /\ \A m \in pressed : m.id # r
    /\ pc[r] = "waiting" => r \in pendingRequests

Answered(r) == \E m \in pressed : m.id = r

\* AnswerIsUnderWay, without counting the answers.
Delivered ==
  \A r \in Requests : pc[r] = "waiting" /\ Answered(r) =>
    \/ \E m \in responses : m.id = r
    \/ update.at = "sending" /\ update.msg.id = r
    \/ respCh[r] # <<>>

DeliveryInv == TypeInv /\ Registered /\ Delivered

\* Initially no request waits.
LEMMA DeliveryInit == Init => DeliveryInv
<1> SUFFICES ASSUME Init PROVE DeliveryInv
  OBVIOUS
<1>1. Registered
  BY EmptySeq DEF Init, Registered
<1>2. Delivered
  BY DEF Init, Delivered
<1> QED
  BY <1>1, <1>2, TypeInit DEF DeliveryInv

\* The events after the oldest, and with one more.
LEMMA EventsOf ==
  ASSUME TypeInv
  PROVE  /\ events # <<>> =>
              /\ \E i \in DOMAIN events : Head(events) = events[i]
              /\ \A j \in DOMAIN Tail(events) : \E i \in DOMAIN events : Tail(events)[j] = events[i]
         /\ \A r \in Requests : \A j \in DOMAIN Append(events, r) :
              \/ Append(events, r)[j] = r
              \/ \E i \in DOMAIN events : Append(events, r)[j] = events[i]
<1>1. events \in Seq(Requests)
  BY DEF TypeInv, TypeOK
<1>2. ASSUME events # <<>>
      PROVE  /\ \E i \in DOMAIN events : Head(events) = events[i]
             /\ \A j \in DOMAIN Tail(events) : \E i \in DOMAIN events : Tail(events)[j] = events[i]
  <2>1. Head(events) = events[1] /\ 1 \in DOMAIN events
    BY <1>1, <1>2
  <2>2. ASSUME NEW j \in DOMAIN Tail(events)
        PROVE  j + 1 \in DOMAIN events /\ Tail(events)[j] = events[j + 1]
    BY <1>1, <1>2, <2>2, HeadTailProperties, LenProperties
  <2> QED
    BY <2>1, <2>2
<1>3. ASSUME NEW r \in Requests, NEW j \in DOMAIN Append(events, r)
      PROVE  \/ Append(events, r)[j] = r
             \/ \E i \in DOMAIN events : Append(events, r)[j] = events[i]
  <2>1. Append(events, r) \in Seq(Requests) /\ Len(Append(events, r)) = Len(events) + 1
    BY <1>1, AppendProperties
  <2>2. j \in 1 .. Len(events) + 1 /\ Len(events) \in Nat
    BY <1>1, <2>1, LenProperties
  <2>3. CASE j = Len(events) + 1
    BY <1>1, <2>3, AppendProperties
  <2>4. CASE j \in 1 .. Len(events)
    BY <1>1, <2>4, AppendProperties, LenProperties
  <2> QED
    BY <2>2, <2>3, <2>4
<1> QED
  BY <1>2, <1>3

\* Every step keeps a waiting request registered with its channel.
LEMMA RegisteredNext ==
  ASSUME TypeInv, Registered, [Next]_vars
  PROVE  Registered'
<1>1. ASSUME NEW r \in Requests, Request(r) PROVE Registered'
  BY <1>1 DEF Registered, Request, Goto, TypeInv, TypeOK, tui, ghosts
<1>2. ASSUME NEW r \in Requests, Publish(r) PROVE Registered'
  <2>1. ASSUME NEW q \in Requests, q # r,
               \A i \in DOMAIN events : events[i] # q
        PROVE  \A i \in DOMAIN events' : events'[i] # q
    BY <1>2, <2>1, EventsOf DEF Publish
  <2> QED
    BY <1>2, <2>1 DEF Registered, Publish, Goto, TypeInv, TypeOK, tui
<1>3. ASSUME NEW r \in Requests, Receive(r) PROVE Registered'
  BY <1>3 DEF Registered, Receive, Goto, TypeInv, TypeOK, tui, ghosts
<1>4. ASSUME NEW r \in Requests, Return(r) PROVE Registered'
  BY <1>4 DEF Registered, Return, Goto, TypeInv, TypeOK, tui, ghosts
<1>5. CASE Lose
  BY <1>5, EventsOf DEF Registered, Lose, service, tui
<1>6. CASE Show
  BY <1>6, EventsOf DEF Registered, Show, service, ghosts
<1>7. ASSUME NEW m \in Messages, Respond(m) PROVE Registered'
  BY <1>7 DEF Registered, Respond, Close, service, ghosts
<1>8. CASE Send \/ Remember
  BY <1>8 DEF Registered, Send, Remember, Close, ghosts
<1>9. ASSUME NEW action \in Actions, Press(action) PROVE Registered'
  <2>1. \A m \in pressed' : m \in pressed \/ m.id = dialog
    BY <1>9 DEF Press
  <2> QED
    BY <1>9, <2>1 DEF Registered, Press, service
<1>10. CASE UNCHANGED vars
  BY <1>10 DEF Registered, vars, service, tui, ghosts
<1> QED
  BY <1>1, <1>2, <1>3, <1>4, <1>5, <1>6, <1>7, <1>8, <1>9, <1>10 DEF Next, Waiter, Loop

\* Every step keeps an answer of a waiting request on its way.
LEMMA DeliveredNext ==
  ASSUME TypeInv, Registered, Delivered, [Next]_vars
  PROVE  Delivered'
<1>1. ASSUME NEW r \in Requests, Request(r) PROVE Delivered'
  BY <1>1 DEF Delivered, Answered, Request, Goto, TypeInv, TypeOK, tui, ghosts
<1>2. ASSUME NEW r \in Requests, Publish(r) PROVE Delivered'
  BY <1>2 DEF Delivered, Answered, Registered, Publish, Goto, TypeInv, TypeOK, tui
<1>3. ASSUME NEW r \in Requests, Receive(r) PROVE Delivered'
  BY <1>3 DEF Delivered, Answered, Receive, Goto, TypeInv, TypeOK, tui, ghosts
<1>4. ASSUME NEW r \in Requests, Return(r) PROVE Delivered'
  BY <1>4 DEF Delivered, Answered, Return, Goto, TypeInv, TypeOK, tui, ghosts
<1>5. CASE Lose \/ Show
  BY <1>5 DEF Delivered, Answered, Lose, Show, service, tui, ghosts
<1>6. ASSUME NEW m \in Messages, Respond(m) PROVE Delivered'
  <2>1. m.id \in pendingRequests => update'.at = "sending" /\ update'.msg = m
    BY <1>6 DEF Respond, Handling
  <2>2. update.at # "sending"
    BY <1>6 DEF Respond, Idle
  <2> QED
    BY <1>6, <2>1, <2>2 DEF Delivered, Answered, Registered, Respond, service, ghosts
<1>7. CASE Send
  <2>1. update.msg.id \in Requests
    BY <1>7, HandledTyped DEF Send
  <2>2. respCh'[update.msg.id] # <<>>
    BY <1>7, <2>1 DEF Send, TypeInv, TypeOK
  <2>3. \A r \in Requests : r # update.msg.id => respCh'[r] = respCh[r]
    BY <1>7 DEF Send, TypeInv, TypeOK
  <2> QED
    BY <1>7, <2>2, <2>3 DEF Delivered, Answered, Send, ghosts
<1>8. CASE Remember
  BY <1>8 DEF Delivered, Answered, Remember, ghosts
<1>9. ASSUME NEW action \in Actions, Press(action) PROVE Delivered'
  <2>1. \A m \in pressed' : m \in pressed \/ m.id = dialog
    BY <1>9 DEF Press
  <2>2. responses \subseteq responses' /\ \E m \in responses' : m.id = dialog
    <3> DEFINE m == [id |-> dialog, action |-> action, n |-> Presses(dialog) + 1]
    <3>1. responses' = responses \cup {m} /\ m.id = dialog
      BY <1>9 DEF Press
    <3> QED
      BY <3>1
  <2> QED
    BY <1>9, <2>1, <2>2 DEF Delivered, Answered, Press, service
<1>10. CASE UNCHANGED vars
  BY <1>10 DEF Delivered, Answered, vars, service, tui, ghosts
<1> QED
  BY <1>1, <1>2, <1>3, <1>4, <1>5, <1>6, <1>7, <1>8, <1>9, <1>10 DEF Next, Waiter, Loop

\* Waiting requests are registered, and their answers under way, throughout.
THEOREM DeliveryInvariant == Spec => []DeliveryInv
<1>1. DeliveryInv /\ [Next]_vars => DeliveryInv'
  BY TypeNext, RegisteredNext, DeliveredNext DEF DeliveryInv
<1> QED
  BY <1>1, DeliveryInit, PTL DEF Spec

\* No answer is lost, whatever dialogs were replaced or closed meanwhile.
THEOREM AnswersArrive == Spec => []AnswerIsUnderWay
<1>1. DeliveryInv => AnswerIsUnderWay
  <2> SUFFICES ASSUME DeliveryInv,
                      NEW r \in Requests, pc[r] = "waiting", Presses(r) > 0
               PROVE  \/ \E m \in responses : m.id = r
                      \/ update.at = "sending" /\ update.msg.id = r
                      \/ respCh[r] # <<>>
    BY DEF AnswerIsUnderWay
  <2>1. Answered(r)
    BY PressedAtAll DEF DeliveryInv, Answered
  <2> QED
    BY <2>1 DEF DeliveryInv, Delivered
<1> QED
  BY <1>1, DeliveryInvariant, PTL

---------------------------------------------------------------------------
(* Every waiting request can be answered *)

\* The user has answered each request once at most.
AnsweredOnce == \A m1, m2 \in pressed : m1.id = m2.id => m1 = m2

\* None of what leaves a request without its dialog has happened.
Untroubled == ~crowded /\ slow = {} /\ AnsweredOnce

\* The answers to a request are numbered by their count, so a new one is new.
NumbersCount == \A m \in pressed : m.n <= Presses(m.id)

\* An event under way is the only one, of a request that waits, that nobody has
\* answered and that is not on the screen.
EventFresh ==
  \A i \in DOMAIN events :
    /\ i = 1
    /\ pc[events[i]] = "waiting" /\ ~Answered(events[i])
    /\ showPermissions => dialog # events[i]

\* An answer on its way to Update, or to the channel, finds its request waiting
\* and the channel empty, and is in one place.
AnswerAwaited ==
  /\ \A m \in responses : pc[m.id] = "waiting" /\ respCh[m.id] = <<>>
  /\ update.at = "sending" => pc[update.msg.id] = "waiting" /\ respCh[update.msg.id] = <<>>
  /\ update.at \in {"sending", "remembering"} => update.msg \notin responses

\* A dialog nobody has answered is that of a request that waits; while an answer
\* is remembered there is none.
DialogAwaited ==
  showPermissions /\ ~Answered(dialog) =>
    pc[dialog] = "waiting" /\ update.at # "remembering"

\* A request that waits unanswered is on its way or on the screen.
Visible ==
  \A r \in Requests : pc[r] = "waiting" /\ ~Answered(r) =>
    (\E i \in DOMAIN events : events[i] = r) \/ (dialog = r /\ showPermissions)

VisibleInv ==
  /\ \A q, r \in pendingRequests : q = r
  /\ EventFresh /\ AnswerAwaited /\ DialogAwaited /\ Visible

ReachInv == NumbersCount /\ (Untroubled => VisibleInv)

\* What the other invariants give: the types, that a channel with something in it
\* belongs to an answered request, and that what waits is registered.
Known == ConsentInv /\ DeliveryInv

\* A channel that holds something holds an answer.
LEMMA FullIsAnswered ==
  ASSUME Known, NEW r \in Requests, respCh[r] # <<>>
  PROVE  Answered(r)
<1>1. respCh[r] \in Buffers
  BY DEF Known, DeliveryInv, TypeInv, TypeOK
<1>2. \E a \in Actions : a \in Answers(r)
  <2>1. respCh[r] = <<TRUE>> \/ respCh[r] = <<FALSE>>
    BY <1>1 DEF Buffers
  <2> QED
    BY <2>1 DEF Known, ConsentInv, ChannelsHonest, Actions
<1> QED
  BY <1>2 DEF Answers, Answered

\* No step takes back what makes trouble: who is untroubled after a step was so
\* before it.
LEMMA TroubleStays ==
  ASSUME [Next]_vars, Untroubled'
  PROVE  Untroubled
<1>1. slow \subseteq slow'
  BY DEF Next, Waiter, Loop, Request, Publish, Receive, Return, Lose, Show, Press,
         Respond, Send, Remember, ghosts, vars
<1>3. crowded => crowded'
  <2>1. ASSUME NEW r \in Requests, Publish(r) PROVE crowded => crowded'
    BY <2>1, Zenon DEF Publish
  <2>2. CASE UNCHANGED crowded
    BY <2>2, Zenon
  <2> QED
    BY <2>1, <2>2 DEF Next, Waiter, Loop, Request, Receive, Return, Lose, Show, Press,
                Respond, Send, Remember, ghosts, vars
<1>2. pressed \subseteq pressed'
  BY DEF Next, Waiter, Loop, Request, Publish, Receive, Return, Lose, Show, Press,
         Respond, Send, Remember, ghosts, vars
<1> QED
  BY <1>1, <1>2, <1>3 DEF Untroubled, AnsweredOnce

\* With one answer counted for each request there is one.
LEMMA OnceCounted ==
  ASSUME TypeInv, \A r \in Requests : Presses(r) <= 1
  PROVE  AnsweredOnce
<1> SUFFICES ASSUME NEW m1 \in pressed, NEW m2 \in pressed, m1.id = m2.id, m1 # m2
             PROVE  FALSE
  BY DEF AnsweredOnce
<1> DEFINE of == {m \in pressed : m.id = m1.id}
<1>1. m1.id \in Requests
  BY DEF TypeInv, TypeOK, Messages
<1>2. of \subseteq pressed /\ IsFiniteSet(pressed)
  BY DEF TypeInv
<1>3. IsFiniteSet(of)
  BY <1>2, FS_Subset
<1>4. {m1, m2} \subseteq of
  OBVIOUS
<1>5. Cardinality({m1, m2}) <= Cardinality(of)
  BY <1>3, <1>4, FS_Subset
<1>6. Cardinality({m1, m2}) = 2
  <2>1. IsFiniteSet({m1}) /\ Cardinality({m1}) = 1
    BY FS_Singleton
  <2>2. {m1} \cup {m2} = {m1, m2} /\ m2 \notin {m1}
    OBVIOUS
  <2>3. Cardinality({m1} \cup {m2}) = Cardinality({m1}) + 1
    BY <2>1, <2>2, FS_AddElement
  <2> QED
    BY <2>1, <2>2, <2>3
<1>7. Presses(m1.id) = Cardinality(of) /\ Cardinality(of) \in Nat
  BY <1>3, FS_CardinalityType DEF Presses
<1> QED
  BY <1>1, <1>5, <1>6, <1>7

\* A key press is one more answer to the dialog's request, and to no other.
LEMMA PressCounts ==
  ASSUME TypeInv, NumbersCount, NEW action \in Actions, Press(action)
  PROVE  LET m == [id |-> dialog, action |-> action, n |-> Presses(dialog) + 1]
         IN /\ m \notin pressed /\ pressed' = pressed \cup {m} /\ dialog \in Requests
            /\ Presses(dialog)' = Presses(dialog) + 1
            /\ \A r \in Requests : r # dialog => Presses(r)' = Presses(r)
<1> DEFINE m == [id |-> dialog, action |-> action, n |-> Presses(dialog) + 1]
<1>1. dialog \in Requests /\ Presses(dialog) \in Nat
  BY PressesBounded DEF Press, TypeInv
<1>2. m \notin pressed
  BY <1>1 DEF NumbersCount
<1>3. pressed' = pressed \cup {m} /\ dialog' = dialog
  BY DEF Press
<1>4. Presses(dialog)' = Presses(dialog) + 1
  <2> DEFINE of == {a \in pressed : a.id = dialog}
  <2>1. IsFiniteSet(of)
    <3>1. of \subseteq pressed /\ IsFiniteSet(pressed)
      BY DEF TypeInv
    <3> QED
      BY <3>1, FS_Subset
  <2>2. {a \in pressed' : a.id = dialog} = of \cup {m} /\ m \notin of
    BY <1>2, <1>3
  <2> HIDE DEF m, of
  <2>3. Cardinality(of \cup {m}) = Cardinality(of) + 1
    BY <2>1, <2>2, FS_AddElement
  <2> QED
    BY <1>3, <2>2, <2>3 DEF Presses, of
<1>5. ASSUME NEW r \in Requests, r # dialog PROVE Presses(r)' = Presses(r)
  <2>1. {a \in pressed' : a.id = r} = {a \in pressed : a.id = r}
    BY <1>3, <1>5
  <2> QED
    BY <2>1 DEF Presses
<1> QED
  BY <1>1, <1>2, <1>3, <1>4, <1>5

\* The numbers of the answers stay within their count.
LEMMA NumbersNext ==
  ASSUME TypeInv, NumbersCount, [Next]_vars
  PROVE  NumbersCount'
<1>1. CASE UNCHANGED pressed
  BY <1>1 DEF NumbersCount, Presses
<1>2. ASSUME NEW action \in Actions, Press(action) PROVE NumbersCount'
  <2> DEFINE m == [id |-> dialog, action |-> action, n |-> Presses(dialog) + 1]
  <2>1. /\ pressed' = pressed \cup {m} /\ dialog \in Requests
        /\ Presses(dialog)' = Presses(dialog) + 1 /\ Presses(dialog) \in Nat
        /\ \A r \in Requests : r # dialog => Presses(r)' = Presses(r)
    BY <1>2, PressCounts, PressesBounded
  <2>2. \A a \in pressed : a.id \in Requests /\ a.n \in Nat
    BY DEF TypeInv, TypeOK, Messages
  <2>4. dialog' = dialog
    BY <1>2 DEF Press
  <2>3. ASSUME NEW a \in pressed' PROVE a.n <= Presses(a.id)'
    <3>1. CASE a = m
      BY <2>1, <2>4, <3>1
    <3>2. CASE a \in pressed /\ a.id = dialog
      <4>1. a.n <= Presses(dialog)
        BY <3>2 DEF NumbersCount
      <4>2. Presses(a.id)' = Presses(dialog)'
        BY <2>4, <3>2 DEF Presses
      <4> QED
        BY <2>1, <2>2, <3>2, <4>1, <4>2
    <3>3. CASE a \in pressed /\ a.id # dialog
      BY <2>1, <2>2, <3>3 DEF NumbersCount
    <3> QED
      BY <2>1, <3>1, <3>2, <3>3
  <2> QED
    BY <2>3 DEF NumbersCount
<1> QED
  BY <1>1, <1>2 DEF Next, Waiter, Loop, Request, Publish, Receive, Return, Lose, Show,
     Respond, Send, Remember, ghosts, vars

\* Two requests are never in the map together.
LEMMA PendingNext ==
  ASSUME TypeInv, VisibleInv, [Next]_vars, Untroubled'
  PROVE  (\A q, r \in pendingRequests : q = r)'
<1>1. ASSUME NEW r \in Requests, Publish(r) PROVE (\A p, q \in pendingRequests : p = q)'
  <2>1. pendingRequests = {}
    BY <1>1 DEF Publish, Untroubled
  <2> QED
    BY <1>1, <2>1 DEF Publish
<1>2. CASE pendingRequests' \subseteq pendingRequests
  BY <1>2 DEF VisibleInv
<1> QED
  BY <1>1, <1>2 DEF Next, Waiter, Loop, Request, Receive, Return, Lose, Show, Press,
     Respond, Send, Remember, vars, service

\* Answers under way belong to answered requests, and requests that wait are in
\* the map.
LEMMA UnderWayKnown ==
  ASSUME Known
  PROVE  /\ TypeInv
         /\ \A m \in responses : m.id \in Requests /\ Answered(m.id)
         /\ update.at \in {"sending", "remembering"} =>
              update.msg \in pressed /\ update.msg.id \in Requests /\ Answered(update.msg.id)
         /\ \A r \in Requests : pc[r] = "waiting" => r \in pendingRequests
         /\ \A r \in Requests : pc[r] \in {"idle", "asking"} =>
              ~Answered(r) /\ ~(showPermissions /\ dialog = r)
         /\ showPermissions => dialog \in Requests
         /\ \A i \in DOMAIN events : events[i] \in Requests
<1>1. TypeInv /\ UnderWayPressed /\ Registered
  BY DEF Known, ConsentInv, DeliveryInv
<1>2. \A m \in pressed : m.id \in Requests /\ Answered(m.id)
  BY <1>1 DEF TypeInv, TypeOK, Messages, Answered
<1>3. \A i \in DOMAIN events : events[i] \in Requests
  BY <1>1, ElementOfSeq, LenProperties DEF TypeInv, TypeOK
<1>4. \A r \in Requests : pc[r] \in {"idle", "asking"} =>
        ~Answered(r) /\ ~(showPermissions /\ dialog = r)
  BY <1>1 DEF Registered, Answered
<1> QED
  BY <1>1, <1>2, <1>3, <1>4 DEF UnderWayPressed, Registered, TypeInv

\* A step of another kind than a key press answers nothing.
LEMMA AnsweredSame ==
  ASSUME pressed' = pressed, NEW r
  PROVE  Answered(r)' <=> Answered(r)
BY DEF Answered

\* A key press answers the dialog's request only, and that for the first time.
LEMMA PressAnswers ==
  ASSUME Known, NumbersCount, Untroubled', NEW action \in Actions, Press(action)
  PROVE  /\ ~Answered(dialog) /\ dialog \in Requests
         /\ \A r : Answered(r)' <=> Answered(r) \/ r = dialog
         /\ \A m \in responses' : m \in responses \/ m.id = dialog
<1> DEFINE m == [id |-> dialog, action |-> action, n |-> Presses(dialog) + 1]
<1>1. m \notin pressed /\ pressed' = pressed \cup {m} /\ dialog \in Requests
  BY PressCounts DEF Known, DeliveryInv
<1>2. m.id = dialog /\ responses' = responses \cup {m}
  BY DEF Press
<1>3. ~Answered(dialog)
  <2> SUFFICES ASSUME NEW a \in pressed, a.id = dialog PROVE FALSE
    BY DEF Answered
  <2>1. a \in pressed' /\ m \in pressed' /\ a # m
    BY <1>1
  <2> QED
    BY <1>2, <2>1 DEF Untroubled, AnsweredOnce
<1> HIDE DEF m
<1> QED
  BY <1>1, <1>2, <1>3 DEF Answered

\* An event under way stays the only one, of a waiting request.
LEMMA FreshNext ==
  ASSUME Known, NumbersCount, VisibleInv, [Next]_vars, Untroubled'
  PROVE  EventFresh'
<1> USE UnderWayKnown DEF VisibleInv
<1>1. ASSUME NEW r \in Requests, Request(r) PROVE EventFresh'
  BY <1>1, AnsweredSame DEF EventFresh, Request, Goto, TypeInv, TypeOK, tui, ghosts
<1>2. ASSUME NEW r \in Requests, Publish(r) PROVE EventFresh'
  <2>1. pendingRequests = {} /\ events' = Append(events, r)
    BY <1>2 DEF Publish, Untroubled
  <2>2. events = <<>>
    <3> SUFFICES ASSUME events # <<>> PROVE FALSE
      OBVIOUS
    <3>1. 1 \in DOMAIN events
      BY LenProperties DEF TypeInv, TypeOK
    <3> QED
      BY <2>1, <3>1 DEF EventFresh
  <2>3. events' = <<r>>
    BY <2>1, <2>2
  <2>4. pc'[r] = "waiting" /\ ~Answered(r)' /\ ~(showPermissions' /\ dialog' = r)
    BY <1>2, AnsweredSame DEF Publish, Goto, TypeInv, TypeOK, tui
  <2> QED
    BY <2>3, <2>4 DEF EventFresh
<1>3. ASSUME NEW r \in Requests, Receive(r) PROVE EventFresh'
  <2>1. Answered(r)
    BY <1>3, FullIsAnswered DEF Receive
  <2> QED
    BY <1>3, <2>1, AnsweredSame DEF EventFresh, Receive, Goto, TypeInv, TypeOK, tui, ghosts
<1>4. ASSUME NEW r \in Requests, Return(r) PROVE EventFresh'
  BY <1>4, AnsweredSame DEF EventFresh, Return, Goto, TypeInv, TypeOK, tui, ghosts
<1>5. CASE Lose \/ Show
  <2>1. events' = Tail(events) /\ events # <<>>
    BY <1>5 DEF Lose, Show
  <2>2. Len(events) = 1
    <3>1. Len(events) \in Nat /\ DOMAIN events = 1 .. Len(events) /\ Len(events) # 0
      BY <2>1, LenProperties, EmptySeq DEF TypeInv, TypeOK
    <3>2. Len(events) \in DOMAIN events
      BY <3>1
    <3> QED
      BY <3>2 DEF EventFresh
  <2>3. events' = <<>>
    BY <2>1, <2>2 DEF TypeInv, TypeOK
  <2> QED
    BY <2>3 DEF EventFresh
<1>6. ASSUME NEW m \in Messages, Respond(m) PROVE EventFresh'
  BY <1>6, AnsweredSame DEF EventFresh, Respond, Close, service, ghosts
<1>7. CASE Send \/ Remember
  BY <1>7, AnsweredSame DEF EventFresh, Send, Remember, Close, ghosts
<1>8. ASSUME NEW action \in Actions, Press(action) PROVE EventFresh'
  BY <1>8, PressAnswers DEF EventFresh, Press, service
<1>9. CASE UNCHANGED vars
  BY <1>9, AnsweredSame DEF EventFresh, vars, service, tui, ghosts
<1> QED
  BY <1>1, <1>2, <1>3, <1>4, <1>5, <1>6, <1>7, <1>8, <1>9 DEF Next, Waiter, Loop

\* An answer under way stays awaited: it is in one place, and with it no other for
\* its request.
LEMMA AwaitedNext ==
  ASSUME Known, NumbersCount, VisibleInv, Untroubled, [Next]_vars, Untroubled'
  PROVE  AnswerAwaited'
<1> USE UnderWayKnown DEF VisibleInv
<1>1. ASSUME NEW r \in Requests, Request(r) PROVE AnswerAwaited'
  BY <1>1 DEF AnswerAwaited, Request, Goto, TypeInv, TypeOK, tui, ghosts
<1>2. ASSUME NEW r \in Requests, Publish(r) PROVE AnswerAwaited'
  BY <1>2 DEF AnswerAwaited, Publish, Goto, TypeInv, TypeOK, tui
<1>3. ASSUME NEW r \in Requests, Receive(r) PROVE AnswerAwaited'
  BY <1>3 DEF AnswerAwaited, Receive, Goto, TypeInv, TypeOK, tui, ghosts
<1>4. ASSUME NEW r \in Requests, Return(r) PROVE AnswerAwaited'
  BY <1>4 DEF AnswerAwaited, Return, Goto, TypeInv, TypeOK, tui, ghosts
<1>5. CASE Lose \/ Show
  BY <1>5 DEF AnswerAwaited, Lose, Show, service, tui, ghosts
<1>6. ASSUME NEW m \in Messages, Respond(m) PROVE AnswerAwaited'
  <2>1. m \in responses /\ responses' = responses \ {m} /\ m.id \in pendingRequests
    BY <1>6 DEF Respond, AnswerAwaited
  <2>2. update' = Handling("sending", m) /\ UNCHANGED <<pc, respCh>>
    BY <1>6, <2>1 DEF Respond, service
  <2>3. update'.at = "sending" /\ update'.msg = m
    BY <2>2 DEF Handling
  <2> QED
    BY <2>1, <2>2, <2>3 DEF AnswerAwaited
<1>7. CASE Send
  <2>1. \A m \in responses : m.id # update.msg.id
    BY <1>7 DEF Send, AnswerAwaited, Untroubled, AnsweredOnce, Known, ConsentInv, UnderWayPressed
  <2>2. \A r \in Requests : r # update.msg.id => respCh'[r] = respCh[r]
    BY <1>7 DEF Send, TypeInv, TypeOK
  <2>3. update' = Idle \/ update' = Handling("remembering", update.msg)
    BY <1>7 DEF Send, Close
  <2>4. update'.at # "sending" /\ (update'.at = "remembering" => update'.msg = update.msg)
    BY <2>3 DEF Idle, Handling
  <2> QED
    BY <1>7, <2>1, <2>2, <2>4 DEF AnswerAwaited, Send
<1>8. CASE Remember
  BY <1>8 DEF AnswerAwaited, Remember, Close, Idle
<1>9. ASSUME NEW action \in Actions, Press(action) PROVE AnswerAwaited'
  <2>1. ~Answered(dialog) /\ dialog \in Requests
        /\ \A m \in responses' : m \in responses \/ m.id = dialog
    BY <1>9, PressAnswers
  <2>2. pc[dialog] = "waiting"
    BY <1>9, <2>1 DEF Press, DialogAwaited
  <2>3. respCh[dialog] = <<>>
    BY <2>1, FullIsAnswered
  <2> QED
    BY <1>9, <2>1, <2>2, <2>3 DEF AnswerAwaited, Press, service, Idle
<1>10. CASE UNCHANGED vars
  BY <1>10 DEF AnswerAwaited, vars, service, tui, ghosts
<1> QED
  BY <1>1, <1>2, <1>3, <1>4, <1>5, <1>6, <1>7, <1>8, <1>9, <1>10 DEF Next, Waiter, Loop

\* A dialog nobody has answered stays that of a waiting request.
LEMMA DialogNext ==
  ASSUME Known, NumbersCount, VisibleInv, [Next]_vars, Untroubled'
  PROVE  DialogAwaited'
<1> USE UnderWayKnown DEF VisibleInv
<1>1. ASSUME NEW r \in Requests, Request(r) PROVE DialogAwaited'
  BY <1>1, AnsweredSame DEF DialogAwaited, Request, Goto, TypeInv, TypeOK, tui, ghosts
<1>2. ASSUME NEW r \in Requests, Publish(r) PROVE DialogAwaited'
  BY <1>2, AnsweredSame DEF DialogAwaited, Publish, Goto, TypeInv, TypeOK, tui
<1>3. ASSUME NEW r \in Requests, Receive(r) PROVE DialogAwaited'
  <2>1. Answered(r)
    BY <1>3, FullIsAnswered DEF Receive
  <2> QED
    BY <1>3, <2>1, AnsweredSame DEF DialogAwaited, Receive, Goto, TypeInv, TypeOK, tui, ghosts
<1>4. ASSUME NEW r \in Requests, Return(r) PROVE DialogAwaited'
  BY <1>4, AnsweredSame DEF DialogAwaited, Return, Goto, TypeInv, TypeOK, tui, ghosts
<1>5. CASE Lose
  BY <1>5, AnsweredSame DEF DialogAwaited, Lose, service, tui
<1>6. CASE Show
  <2>1. pc[Head(events)] = "waiting"
    BY <1>6, EventsOf DEF Show, EventFresh
  <2> QED
    BY <1>6, <2>1 DEF DialogAwaited, Show, service, Idle
<1>7. ASSUME NEW m \in Messages, Respond(m) PROVE DialogAwaited'
  <2>1. m \in responses /\ m.id \in pendingRequests
    BY <1>7 DEF Respond, AnswerAwaited
  <2>2. update' = Handling("sending", m)
    BY <1>7, <2>1 DEF Respond
  <2>3. update'.at # "remembering"
    BY <2>2 DEF Handling
  <2> QED
    BY <1>7, <2>1, <2>3, AnsweredSame DEF DialogAwaited, Respond, service, ghosts
<1>8. CASE Send
  <2>1. update.msg.id \in pendingRequests /\ Answered(update.msg.id)
    BY <1>8 DEF Send, AnswerAwaited
  <2> QED
    BY <1>8, <2>1, AnsweredSame DEF DialogAwaited, Send, Close, ghosts
<1>9. CASE Remember
  BY <1>9 DEF DialogAwaited, Remember, Close
<1>10. ASSUME NEW action \in Actions, Press(action) PROVE DialogAwaited'
  BY <1>10, PressAnswers DEF DialogAwaited, Press
<1>11. CASE UNCHANGED vars
  BY <1>11, AnsweredSame DEF DialogAwaited, vars, service, tui, ghosts
<1> QED
  BY <1>1, <1>2, <1>3, <1>4, <1>5, <1>6, <1>7, <1>8, <1>9, <1>10, <1>11 DEF Next, Waiter, Loop

\* Only one request waits: an answer that closes the dialog is its own, and an
\* event that replaces it too.
LEMMA VisibleNext ==
  ASSUME Known, NumbersCount, VisibleInv, [Next]_vars, Untroubled'
  PROVE  Visible'
<1> USE UnderWayKnown DEF VisibleInv
<1>1. ASSUME NEW r \in Requests, Request(r) PROVE Visible'
  BY <1>1, AnsweredSame DEF Visible, Request, Goto, TypeInv, TypeOK, tui, ghosts
<1>2. ASSUME NEW r \in Requests, Publish(r) PROVE Visible'
  <2>1. pendingRequests = {} /\ events' = Append(events, r)
    BY <1>2 DEF Publish, Untroubled
  <2>2. \E i \in DOMAIN events' : events'[i] = r
    <3>1. /\ Len(events) + 1 \in DOMAIN Append(events, r)
          /\ Append(events, r)[Len(events) + 1] = r
      BY AppendProperties, LenProperties DEF TypeInv, TypeOK
    <3> QED
      BY <2>1, <3>1
  <2>3. \A q \in Requests : pc'[q] = "waiting" => q = r
    BY <1>2, <2>1 DEF Publish, Goto, TypeInv, TypeOK
  <2> QED
    BY <2>2, <2>3 DEF Visible
<1>3. ASSUME NEW r \in Requests, Receive(r) PROVE Visible'
  BY <1>3, AnsweredSame DEF Visible, Receive, Goto, TypeInv, TypeOK, tui, ghosts
<1>4. ASSUME NEW r \in Requests, Return(r) PROVE Visible'
  BY <1>4, AnsweredSame DEF Visible, Return, Goto, TypeInv, TypeOK, tui, ghosts
<1>5. CASE Lose
  BY <1>5 DEF Lose, Untroubled
<1>6. CASE Show
  <2>1. pc[Head(events)] = "waiting" /\ Head(events) \in Requests
    BY <1>6, EventsOf DEF Show, EventFresh
  <2>2. \A r \in Requests : pc[r] = "waiting" => r = Head(events)
    BY <2>1
  <2> QED
    BY <1>6, <2>2 DEF Visible, Show, service
<1>7. ASSUME NEW m \in Messages, Respond(m) PROVE Visible'
  <2>1. m \in responses /\ m.id \in pendingRequests
    BY <1>7 DEF Respond, AnswerAwaited
  <2> QED
    BY <1>7, <2>1, AnsweredSame DEF Visible, Respond, service, ghosts
<1>8. CASE Send
  <2>1. update.msg.id \in pendingRequests /\ Answered(update.msg.id)
    BY <1>8 DEF Send, AnswerAwaited
  <2>2. \A r \in Requests : ~(pc[r] = "waiting" /\ ~Answered(r))
    BY <2>1
  <2> QED
    BY <1>8, <2>2, AnsweredSame DEF Visible, Send, ghosts
<1>9. CASE Remember
  <2>1. \A r \in Requests : pc[r] = "waiting" /\ ~Answered(r) => \E i \in DOMAIN events : events[i] = r
    BY <1>9 DEF Visible, DialogAwaited, Remember
  <2> QED
    BY <1>9, <2>1, AnsweredSame DEF Visible, Remember, ghosts
<1>10. ASSUME NEW action \in Actions, Press(action) PROVE Visible'
  BY <1>10, PressAnswers DEF Visible, Press, service
<1>11. CASE UNCHANGED vars
  BY <1>11, AnsweredSame DEF Visible, vars, service, tui, ghosts
<1> QED
  BY <1>1, <1>2, <1>3, <1>4, <1>5, <1>6, <1>7, <1>8, <1>9, <1>10, <1>11 DEF Next, Waiter, Loop

\* Initially nothing is asked and nothing answered.
LEMMA ReachInit == Init => ReachInv
BY EmptySeq DEF Init, ReachInv, NumbersCount, VisibleInv, EventFresh, AnswerAwaited, DialogAwaited,
   Visible, Answered, Idle

\* Outside trouble, whoever waits is visible, throughout.
THEOREM ReachInvariant == Spec => []ReachInv
<1>1. Known /\ ReachInv /\ [Next]_vars => ReachInv'
  <2> SUFFICES ASSUME Known, ReachInv, [Next]_vars PROVE ReachInv'
    OBVIOUS
  <2>1. NumbersCount'
    BY NumbersNext DEF ReachInv, Known, DeliveryInv
  <2>2. ASSUME Untroubled' PROVE VisibleInv'
    <3>1. Untroubled /\ VisibleInv /\ NumbersCount /\ TypeInv
      BY <2>2, TroubleStays DEF ReachInv, Known, DeliveryInv
    <3>2. (\A q, r \in pendingRequests : q = r)'
      BY <2>2, <3>1, PendingNext
    <3>3. EventFresh' /\ AnswerAwaited' /\ DialogAwaited' /\ Visible'
      BY <2>2, <3>1, FreshNext, AwaitedNext, DialogNext, VisibleNext
    <3> QED
      BY <3>2, <3>3 DEF VisibleInv
  <2> QED
    BY <2>1, <2>2 DEF ReachInv
<1>2. Spec => []Known
  BY ConsentInvariant, DeliveryInvariant, PTL DEF Known
<1> QED
  BY <1>1, <1>2, ReachInit, PTL DEF Spec

\* A waiting request is on its way, on the screen or being answered, unless two
\* requests waited at once, an event was lost or a dialog was answered twice.
THEOREM WaitingReached == Spec => []WaitingIsReachable
<1>1. Known /\ ReachInv => WaitingIsReachable
  <2> SUFFICES ASSUME Known, ReachInv, ~crowded, slow = {}, \A q \in Requests : Presses(q) <= 1,
                      NEW r \in Requests, pc[r] = "waiting"
               PROVE  Reachable(r)
    BY DEF WaitingIsReachable
  <2>1. Untroubled
    BY OnceCounted DEF Untroubled, Known, DeliveryInv
  <2>2. CASE Answered(r)
    <3>1. \/ \E m \in responses : m.id = r
          \/ update.at = "sending" /\ update.msg.id = r
          \/ respCh[r] # <<>>
      BY <2>2 DEF Known, DeliveryInv, Delivered
    <3> QED
      BY <3>1 DEF Reachable, Idle
  <2>3. CASE ~Answered(r)
    BY <2>1, <2>3 DEF ReachInv, VisibleInv, Visible, Reachable
  <2> QED
    BY <2>2, <2>3
<1>2. Spec => []Known
  BY ConsentInvariant, DeliveryInvariant, PTL DEF Known
<1> QED
  BY <1>1, <1>2, ReachInvariant, PTL

---------------------------------------------------------------------------
(* The abstract service *)

\* A request that is shown, or soon to be, has not passed unasked; and one that is
\* allowed has an answer.
Put(r) == (\E i \in DOMAIN events : events[i] = r) \/ (showPermissions /\ dialog = r)

PutToUser ==
  \A r \in Requests :
    /\ Put(r) /\ pc[r] = "granted" => Answers(r) # {}
    /\ pc[r] = "allowed" => Answers(r) # {}

\* A request has answers if one was pressed for it.
LEMMA HasAnswers == \A r \in Requests : Answers(r) # {} <=> \E m \in pressed : m.id = r
BY DEF Answers

\* A request that is allowed found an answer in its channel.
LEMMA ChannelAnswered ==
  ASSUME TypeInv, ChannelsHonest, NEW r \in Requests, respCh[r] # <<>>
  PROVE  /\ respCh[r] \in {<<TRUE>>, <<FALSE>>}
         /\ Head(respCh[r]) => Answers(r) \cap {"allow", "allow_session"} # {}
         /\ ~Head(respCh[r]) => "deny" \in Answers(r)
<1>1. respCh[r] = <<TRUE>> \/ respCh[r] = <<FALSE>>
  BY DEF TypeInv, TypeOK, Buffers
<1>2. CASE respCh[r] = <<TRUE>>
  <2>1. Head(respCh[r])
    BY <1>2, HeadOfOne, Zenon
  <2> QED
    BY <1>2, <2>1 DEF ChannelsHonest
<1>3. CASE respCh[r] = <<FALSE>>
  <2>1. ~Head(respCh[r])
    BY <1>3, HeadOfOne, Zenon
  <2> QED
    BY <1>3, <2>1 DEF ChannelsHonest
<1> QED
  BY <1>1, <1>2, <1>3

\* Where a goroutine goes.
LEMMA Went ==
  ASSUME TypeInv, NEW r \in Requests, NEW l, Goto(r, l)
  PROVE  pc'[r] = l /\ \A q \in Requests : q # r => pc'[q] = pc[q]
BY DEF Goto, TypeInv, TypeOK

\* Every step keeps that.
LEMMA PutNext ==
  ASSUME Known, PutToUser, [Next]_vars
  PROVE  PutToUser'
<1> USE DEF Known, DeliveryInv, ConsentInv
<1>0. \A r \in Requests : Answers(r) \subseteq Answers(r)'
  BY AnswersGrow
<1>1. ASSUME NEW r \in Requests, Request(r) PROVE PutToUser'
  <2>1. UNCHANGED <<events, showPermissions, dialog>> /\ Answers(r)' = Answers(r)
    BY <1>1 DEF Request, tui, ghosts, Answers
  <2>2. pc[r] = "idle" /\ ~Put(r)
    BY <1>1 DEF Request, Registered, Put
  <2>3. pc'[r] \in {"granted", "asking"} /\ \A q \in Requests : q # r => pc'[q] = pc[q]
    BY <1>1, Went DEF Request
  <2> QED
    BY <1>0, <2>1, <2>2, <2>3 DEF PutToUser, Put
<1>2. ASSUME NEW r \in Requests, Publish(r) PROVE PutToUser'
  <2>1. UNCHANGED <<showPermissions, dialog>>
    BY <1>2 DEF Publish, tui
  <2>2. \A q \in Requests : q # r /\ Put(q)' => Put(q)
    BY <1>2, <2>1, EventsOf DEF Publish, Put
  <2>3. pc'[r] = "waiting" /\ \A q \in Requests : q # r => pc'[q] = pc[q]
    BY <1>2, Went DEF Publish
  <2> QED
    BY <1>0, <2>2, <2>3 DEF PutToUser
<1>3. ASSUME NEW r \in Requests, Receive(r) PROVE PutToUser'
  <2>1. UNCHANGED <<events, showPermissions, dialog>>
    BY <1>3 DEF Receive, tui
  <2>2. pc'[r] = "allowed" => Answers(r) # {}
    BY <1>3, ChannelAnswered, Went DEF Receive
  <2>3. pc'[r] \in {"allowed", "refused"} /\ \A q \in Requests : q # r => pc'[q] = pc[q]
    BY <1>3, Went DEF Receive
  <2> QED
    BY <1>0, <2>1, <2>2, <2>3 DEF PutToUser, Put
<1>4. ASSUME NEW r \in Requests, Return(r) PROVE PutToUser'
  <2>1. UNCHANGED <<events, showPermissions, dialog>>
    BY <1>4 DEF Return, tui
  <2>2. pc'[r] = "granted" => Answers(r) # {}
    BY <1>4, Went DEF Return, PutToUser
  <2>3. pc'[r] \in {"granted", "denied"} /\ \A q \in Requests : q # r => pc'[q] = pc[q]
    BY <1>4, Went DEF Return
  <2> QED
    BY <1>0, <2>1, <2>2, <2>3 DEF PutToUser, Put
<1>5. CASE Lose \/ Show
  <2>1. ASSUME NEW q \in Requests, Put(q)' PROVE Put(q)
    <3>1. /\ events' = Tail(events)
          /\ \E i \in DOMAIN events : Head(events) = events[i]
          /\ \A j \in DOMAIN Tail(events) : \E i \in DOMAIN events : Tail(events)[j] = events[i]
      BY <1>5, EventsOf DEF Lose, Show
    <3>2. (showPermissions' /\ dialog' = q) => \/ showPermissions /\ dialog = q
                                             \/ Head(events) = q
      BY <1>5 DEF Lose, Show, tui
    <3>3. CASE \E j \in DOMAIN events' : events'[j] = q
      BY <3>1, <3>3 DEF Put
    <3>4. CASE showPermissions' /\ dialog' = q
      BY <3>1, <3>2, <3>4 DEF Put
    <3> QED
      BY <2>1, <3>3, <3>4 DEF Put
  <2>2. UNCHANGED pc
    BY <1>5 DEF Lose, Show, service
  <2> QED
    BY <1>0, <2>1, <2>2 DEF PutToUser
<1>6. CASE (\E m \in Messages : Respond(m)) \/ Send \/ Remember \/ \E action \in Actions : Press(action)
  <2>1. UNCHANGED <<pc, events, dialog>> /\ (showPermissions' => showPermissions)
    BY <1>6 DEF Respond, Send, Remember, Press, Close, service
  <2> QED
    BY <1>0, <2>1 DEF PutToUser, Put
<1>7. CASE UNCHANGED vars
  BY <1>0, <1>7 DEF PutToUser, Put, vars, service, tui
<1> QED
  BY <1>1, <1>2, <1>3, <1>4, <1>5, <1>6, <1>7 DEF Next, Waiter, Loop

\* What a place of the goroutine comes to.
VerdictAt(l) ==
  IF l \in {"allowed", "granted"} THEN "granted"
  ELSE IF l \in {"refused", "denied"} THEN "denied" ELSE "none"

\* The answers of one request, as the abstract service has them.
Given == {[id |-> m.id, action |-> m.action] : m \in pressed}

LEMMA GivenTo ==
  \A r \in Requests : \A action : action \in Answers(r) => [id |-> r, action |-> action] \in Given
BY DEF Answers, Given

\* What the abstract service sees of a goroutine that moves.
LEMMA MoveSeen ==
  ASSUME TypeInv, NEW r \in Requests, NEW l, Goto(r, l), UNCHANGED pressed
  PROVE  /\ {q \in Requests : Asked(q)}' =
              {q \in Requests : IF q = r THEN l \notin {"idle", "granted"} \/ Answers(r) # {} ELSE Asked(q)}
         /\ [q \in Requests |-> Verdict(q)]' =
              [[q \in Requests |-> Verdict(q)] EXCEPT ![r] = VerdictAt(l)]
<1>1. pc'[r] = l /\ \A q \in Requests : q # r => pc'[q] = pc[q]
  BY Went
<1>2. \A q \in Requests : Answers(q)' = Answers(q)
  BY DEF Answers
<1>3. Verdict(r)' = VerdictAt(l)
  BY <1>1 DEF Verdict, VerdictAt
<1>4. \A q \in Requests : q # r => Verdict(q)' = Verdict(q)
  BY <1>1 DEF Verdict
<1>5. \A q \in Requests : Asked(q)' <=> IF q = r THEN l \notin {"idle", "granted"} \/ Answers(r) # {} ELSE Asked(q)
  BY <1>1, <1>2 DEF Asked
<1>6. {q \in Requests : Asked(q)}' = {q \in Requests : Asked(q)'}
  OBVIOUS
<1>7. [q \in Requests |-> Verdict(q)]' = [q \in Requests |-> Verdict(q)']
  OBVIOUS
<1> QED
  BY <1>3, <1>4, <1>5, <1>6, <1>7

\* A goroutine that moves without a verdict, and was asked about and still is.
LEMMA MoveUnseen ==
  ASSUME TypeInv, NEW r \in Requests, NEW l, Goto(r, l), UNCHANGED pressed
  PROVE  /\ VerdictAt(l) = Verdict(r) => [q \in Requests |-> Verdict(q)]' = [q \in Requests |-> Verdict(q)]
         /\ Asked(r) /\ (l \notin {"idle", "granted"} \/ Answers(r) # {}) =>
              {q \in Requests : Asked(q)}' = {q \in Requests : Asked(q)}
         /\ l \notin {"idle", "granted"} =>
              {q \in Requests : Asked(q)}' = {q \in Requests : Asked(q)} \cup {r}
<1> DEFINE before == [q \in Requests |-> Verdict(q)]
           asked  == {q \in Requests : Asked(q)}
           after  == {q \in Requests : IF q = r THEN l \notin {"idle", "granted"} \/ Answers(r) # {} ELSE Asked(q)}
<1>1. before' = [before EXCEPT ![r] = VerdictAt(l)] /\ asked' = after
  BY MoveSeen
<1>2. [before EXCEPT ![r] = Verdict(r)] = before
  OBVIOUS
<1>3. ASSUME Asked(r), l \notin {"idle", "granted"} \/ Answers(r) # {} PROVE after = asked
  BY <1>3
<1>4. ASSUME l \notin {"idle", "granted"} PROVE after = asked \cup {r}
  BY <1>4
<1> QED
  BY <1>1, <1>2, <1>3, <1>4

\* What it sees of a step that leaves the goroutines and the answers alone: nothing.
LEMMA StaySeen ==
  ASSUME UNCHANGED <<pc, pressed>>
  PROVE  UNCHANGED <<{q \in Requests : Asked(q)}, [q \in Requests |-> Verdict(q)], Given>>
BY DEF Asked, Answers, Verdict, Given

\* Initially it is the abstract service's initial state.
LEMMA InitConsents == Init => Consents!Init
<1> SUFFICES ASSUME Init PROVE Consents!Init
  OBVIOUS
<1>1. autoApproveSessions \subseteq {[q \in Requests |-> Opts[q].session][r] : r \in Requests}
  BY DEF Init, Sessions
<1>2. {r \in Requests : Asked(r)} = {}
  BY DEF Init, Asked, Answers
<1>3. [r \in Requests |-> Verdict(r)] = [r \in Requests |-> "none"]
  BY DEF Init, Verdict
<1> QED
  BY <1>1, <1>2, <1>3 DEF Init, Consents!Init

\* Request: the goroutine passes, or the user is to be asked.
LEMMA RequestConsents ==
  ASSUME Known, NEW r \in Requests, Request(r)
  PROVE  Consents!Pass(r) \/ Consents!Ask(r)
<1> USE DEF Known, DeliveryInv, ConsentInv
<1>1. UNCHANGED <<autoApproveSessions, sessionPermissions, pressed>> /\ Given' = Given
  BY DEF Request, ghosts, Given
<1>2. ~Asked(r) /\ Verdict(r) = "none" /\ Answers(r) = {}
  <2>1. Answers(r) = {}
    BY HasAnswers DEF Request, Registered
  <2> QED
    BY <2>1 DEF Request, Asked, Verdict
<1>3. Consents!New(r)
  BY <1>2 DEF Consents!New
<1>4. Consents!Free(r) <=> Opts[r].session \in autoApproveSessions \/ Remembered(r)
  BY DEF Consents!Free, Remembered
<1>5. CASE Opts[r].session \in autoApproveSessions \/ Remembered(r)
  <2>1. Goto(r, "granted")
    BY <1>5 DEF Request
  <2>2. {q \in Requests : Asked(q)}' = {q \in Requests : Asked(q)}
    BY <1>1, <1>2, <2>1, MoveSeen
  <2>3. [q \in Requests |-> Verdict(q)]' = [[q \in Requests |-> Verdict(q)] EXCEPT ![r] = "granted"]
    BY <1>1, <2>1, MoveSeen DEF VerdictAt
  <2> QED
    BY <1>1, <1>3, <1>4, <1>5, <2>2, <2>3 DEF Consents!Pass, Given
<1>6. CASE ~(Opts[r].session \in autoApproveSessions \/ Remembered(r))
  <2>1. Goto(r, "asking")
    BY <1>6 DEF Request
  <2>2. {q \in Requests : Asked(q)}' = {q \in Requests : Asked(q)} \cup {r}
    BY <1>1, <2>1, MoveUnseen
  <2>3. VerdictAt("asking") = "none"
    BY DEF VerdictAt
  <2>4. [q \in Requests |-> Verdict(q)]' = [q \in Requests |-> Verdict(q)]
    BY <1>1, <1>2, <2>1, <2>3, MoveUnseen
  <2> QED
    BY <1>1, <1>3, <1>4, <1>6, <2>2, <2>4 DEF Consents!Ask, Given
<1> QED
  BY <1>5, <1>6

\* Receive: the verdict, by an answer to this request.
LEMMA ReceiveConsents ==
  ASSUME Known, NEW r \in Requests, Receive(r)
  PROVE  Consents!Decide(r)
<1> USE DEF Known, DeliveryInv, ConsentInv
<1>1. UNCHANGED <<autoApproveSessions, sessionPermissions, pressed>> /\ Given' = Given
  BY DEF Receive, ghosts, Given
<1>2. Asked(r) /\ Verdict(r) = "none"
  BY DEF Receive, Asked, Verdict
<1>3. respCh[r] # <<>>
  BY DEF Receive
<1>4. Goto(r, "allowed") \/ Goto(r, "refused")
  BY DEF Receive
<1>5. {q \in Requests : Asked(q)}' = {q \in Requests : Asked(q)}
  BY <1>1, <1>2, <1>4, MoveUnseen
<1>6. CASE Head(respCh[r])
  <2>1. Goto(r, "allowed")
    BY <1>6 DEF Receive
  <2>2. [q \in Requests |-> Verdict(q)]' = [[q \in Requests |-> Verdict(q)] EXCEPT ![r] = "granted"]
    BY <1>1, <2>1, MoveSeen DEF VerdictAt
  <2>3. Answers(r) \cap {"allow", "allow_session"} # {}
    BY <1>3, <1>6, ChannelAnswered
  <2>4. Consents!Answered(r, "allow") \/ Consents!Answered(r, "allow_session")
    BY <2>3, GivenTo DEF Consents!Answered, Given
  <2> QED
    BY <1>1, <1>2, <1>5, <2>2, <2>4 DEF Consents!Decide, Given
<1>7. CASE ~Head(respCh[r])
  <2>1. Goto(r, "refused")
    BY <1>7 DEF Receive
  <2>2. [q \in Requests |-> Verdict(q)]' = [[q \in Requests |-> Verdict(q)] EXCEPT ![r] = "denied"]
    BY <1>1, <2>1, MoveSeen DEF VerdictAt
  <2>3. Consents!Answered(r, "deny")
    BY <1>3, <1>7, ChannelAnswered, GivenTo DEF Consents!Answered, Given
  <2> QED
    BY <1>1, <1>2, <1>5, <2>2, <2>3 DEF Consents!Decide, Given
<1> QED
  BY <1>6, <1>7

\* Publish and Return: nothing new.
LEMMA WaiterStutters ==
  ASSUME Known, PutToUser, NEW r \in Requests, Publish(r) \/ Return(r)
  PROVE  UNCHANGED Consents!vars
<1> USE DEF Known, DeliveryInv, ConsentInv
<1>1. UNCHANGED <<autoApproveSessions, sessionPermissions, pressed>> /\ Given' = Given
  BY DEF Publish, Return, ghosts, Given
<1>2. Asked(r)
  BY DEF Publish, Return, Asked
<1>3. \/ Goto(r, "waiting") /\ Verdict(r) = "none"
      \/ Goto(r, "denied") /\ Verdict(r) = "denied"
      \/ Goto(r, "granted") /\ Verdict(r) = "granted" /\ Answers(r) # {}
  BY DEF Publish, Return, Verdict, PutToUser
<1>4. VerdictAt("waiting") = "none" /\ VerdictAt("denied") = "denied" /\ VerdictAt("granted") = "granted"
  BY DEF VerdictAt
<1>5. {q \in Requests : Asked(q)}' = {q \in Requests : Asked(q)}
  BY <1>1, <1>2, <1>3, MoveUnseen
<1>6. [q \in Requests |-> Verdict(q)]' = [q \in Requests |-> Verdict(q)]
  BY <1>1, <1>3, <1>4, MoveUnseen
<1> QED
  BY <1>1, <1>5, <1>6 DEF Consents!vars, Given

\* Press: an answer to the request the dialog holds, which was asked about.
LEMMA PressConsents ==
  ASSUME Known, PutToUser, NEW action \in Actions, Press(action)
  PROVE  \E r \in Requests : Consents!Answer(r, action)
<1> USE DEF Known, DeliveryInv, ConsentInv
<1>1. UNCHANGED <<autoApproveSessions, sessionPermissions, pc>> /\ dialog \in Requests /\ showPermissions
  BY DEF Press, service, TypeInv
<1> DEFINE m == [id |-> dialog, action |-> action, n |-> Presses(dialog) + 1]
<1>2. pressed' = pressed \cup {m}
  BY DEF Press
<1>3. Given' = Given \cup {[id |-> dialog, action |-> action]}
  <2>1. m.id = dialog /\ m.action = action
    OBVIOUS
  <2> HIDE DEF m
  <2> QED
    BY <1>2, <2>1 DEF Given
<1>4. \A q \in Requests : q # dialog => Answers(q)' = Answers(q)
  BY <1>2 DEF Answers
<1>5. Answers(dialog)' # {}
  <2>1. m \in pressed' /\ m.id = dialog
    BY <1>2
  <2> HIDE DEF m
  <2>2. dialog' = dialog
    BY DEF Press
  <2> QED
    BY <2>1, <2>2 DEF Answers
<1>6. Asked(dialog)
  <2>1. pc[dialog] \notin {"idle", "asking"}
    BY <1>1 DEF Registered
  <2>2. pc[dialog] = "granted" => Answers(dialog) # {}
    BY <1>1 DEF PutToUser, Put
  <2> QED
    BY <2>1, <2>2 DEF Asked
<1>7. {q \in Requests : Asked(q)}' = {q \in Requests : Asked(q)}
  <2>1. \A q \in Requests : q # dialog => (Asked(q)' <=> Asked(q))
    BY <1>1, <1>4 DEF Asked
  <2>2. dialog' = dialog
    BY DEF Press
  <2>3. Asked(dialog)'
    BY <1>5 DEF Asked
  <2>4. \A q \in Requests : Asked(q)' <=> Asked(q)
    BY <1>6, <2>1, <2>2, <2>3
  <2> QED
    BY <2>4
<1>8. [q \in Requests |-> Verdict(q)]' = [q \in Requests |-> Verdict(q)]
  BY <1>1 DEF Verdict
<1>9. Consents!Answer(dialog, action)
  BY <1>1, <1>3, <1>6, <1>7, <1>8 DEF Consents!Answer, Given
<1> QED
  BY <1>1, <1>9

\* Remember: the scope of a request the user allowed for its session.
LEMMA RememberConsents ==
  ASSUME Known, Remember
  PROVE  \E r \in Requests : Consents!Remember(r)
<1> USE DEF Known, DeliveryInv, ConsentInv
<1>1. /\ update.msg \in pressed /\ update.msg.action = "allow_session"
      /\ update.msg.id \in Requests
  BY HandledTyped DEF UnderWayPressed, Remember
<1>2. "allow_session" \in Answers(update.msg.id)
  BY <1>1 DEF Answers
<1>3. Consents!Answered(update.msg.id, "allow_session")
  BY <1>1, <1>2, GivenTo DEF Consents!Answered, Given
<1>4. UNCHANGED <<autoApproveSessions, pc, pressed>>
      /\ sessionPermissions' = sessionPermissions \cup {Scope(update.msg.id)}
  BY DEF Remember, ghosts
<1>5. Consents!Remember(update.msg.id)
  BY <1>1, <1>3, <1>4, StaySeen DEF Consents!Remember, Given
<1> QED
  BY <1>1, <1>5

\* Every step is a step of the abstract service, or none of its.
LEMMA NextConsents ==
  ASSUME Known, PutToUser, [Next]_vars
  PROVE  [Consents!Next]_(Consents!vars)
<1>1. ASSUME NEW r \in Requests, Request(r) PROVE Consents!Next
  BY <1>1, RequestConsents DEF Consents!Next
<1>2. ASSUME NEW r \in Requests, Receive(r) PROVE Consents!Next
  BY <1>2, ReceiveConsents DEF Consents!Next
<1>3. ASSUME NEW r \in Requests, Publish(r) \/ Return(r) PROVE UNCHANGED Consents!vars
  BY <1>3, WaiterStutters
<1>4. ASSUME NEW action \in Actions, Press(action) PROVE Consents!Next
  BY <1>4, PressConsents DEF Consents!Next, Actions
<1>5. CASE Remember
  BY <1>5, RememberConsents DEF Consents!Next
<1>6. CASE Lose \/ Show \/ (\E m \in Messages : Respond(m)) \/ Send \/ UNCHANGED vars
  <2>1. UNCHANGED <<autoApproveSessions, sessionPermissions, pc, pressed>>
    BY <1>6 DEF Lose, Show, Respond, Send, vars, service, ghosts
  <2> QED
    BY <2>1, StaySeen DEF Consents!vars, Given
<1> QED
  BY <1>1, <1>2, <1>3, <1>4, <1>5, <1>6 DEF Next, Waiter, Loop

\* The dialog, the broker, the subscription and the Update loop with its late answers
\* implement the abstract service: a verdict is given once, by an answer to the
\* very request if the user was asked, and else because nobody had to be asked.
THEOREM ImplementsConsent == Spec => ConsentService
<1>1. Init => PutToUser
  BY EmptySeq DEF Init, PutToUser, Put
<1>2. Known /\ PutToUser /\ [Next]_vars => PutToUser'
  BY PutNext
<1>3. Known /\ PutToUser /\ [Next]_vars => [Consents!Next]_(Consents!vars)
  BY NextConsents
<1>4. Spec => []Known
  BY ConsentInvariant, DeliveryInvariant, PTL DEF Known
<1> QED
  BY <1>1, <1>2, <1>3, <1>4, InitConsents, PTL DEF Spec, ConsentService, Consents!Spec

=============================================================================
