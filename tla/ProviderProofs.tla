---------------------------- MODULE ProviderProofs ----------------------------
(***************************************************************************)
(* Proofs about Provider, for any clients, retries and answers: a request  *)
(* that completes has all of the last answer (AnswerComplete), each end is *)
(* what it says (EndsAsItWas), and the whole request, with its attempts,   *)
(* implements ModelAnswer (AnswerTaken).                                   *)
(*                                                                         *)
(* The first two speak of the end only.  The invariant says what holds on the way:  *)
(* what the agent's message and the event on the channel make together is  *)
(* what the server has said in this attempt, because an attempt that is    *)
(* made again has said nothing; and after a complete answer only a broken  *)
(* connection is left.                                                     *)
(***************************************************************************)
EXTENDS Provider, TLAPS

\* The calls of an answer, and those a client has kept of it: 0 is Copilot's empty one.
Calls    == Seq(1 .. MaxCalls)
Picked   == Seq(0 .. MaxCalls)
Answers  == [texts : Nat, calls : Calls, open : {"", "text", "text filled", "tool", "tool filled"},
             stopped : BOOLEAN, any : BOOLEAN]
Results  == [calls : Picked, current : Nat, finished : BOOLEAN, mixed : BOOLEAN]
Messages == [text : Nat, calls : Picked, complete : BOOLEAN]

\* The parts of TypeOK.
ControlTyped ==
  /\ client \in Clients /\ mode \in {"stream", "send"} /\ token \in {"good", "expired"}
  /\ pc \in {"call", "reading", "offer", "final", "waiting", "returned", "crashed"}
  /\ attempts \in 0 .. MaxRetries + 1
  /\ ended \in {"", "eof", "empty", "refused", "limit", "unauthorized", "canceled"}
  /\ event.type \in {"none", "other", "text", "call", "complete", "error"}
  /\ agent \in {"creating", "receiving", "handled"} \cup Outcomes

AnswerTyped ==
  /\ said.texts \in 0 .. MaxTexts /\ said.calls \in Seq(1 .. MaxCalls)
  /\ said.open \in {"", "text", "text filled", "tool", "tool filled"}
  /\ {said.stopped, said.any} \subseteq BOOLEAN
  /\ got.calls \in Seq(0 .. MaxCalls) /\ got.current \in 0 .. MaxCalls
  /\ {got.finished, got.mixed} \subseteq BOOLEAN

MessageTyped ==
  msg.text \in 0 .. MaxTexts /\ msg.calls \in Seq(0 .. MaxCalls) /\ msg.complete \in BOOLEAN

LEMMA TypeParts ==
  /\ TypeOK => ControlTyped /\ AnswerTyped /\ MessageTyped /\ cancelled \in BOOLEAN
  /\ ControlTyped' /\ AnswerTyped' /\ MessageTyped' /\ cancelled' \in BOOLEAN => TypeOK'
BY DEF TypeOK, ControlTyped, AnswerTyped, MessageTyped

\* The records have their fields, and an event what it carries.
Typed ==
  /\ TypeOK
  /\ said \in Answers /\ got \in Results /\ msg \in Messages
  /\ pc = "offer" =>
       /\ event.type # "none" /\ event.then \in {"reading", "final", "returned"}
       /\ event.type = "call" => event.call \in 1 .. MaxCalls
       /\ event.type = "complete" => event.calls \in Picked

\* An answer's calls are kept, unless they came mixed up: of Gemini's, what they are.
CallsKept(calls) ==
  ~got.mixed => ToSet(calls) = ToSet(said.calls) /\ (client # "gemini" => calls = said.calls)

\* A wait to ask again has its reason, and before a new attempt there was nothing.
Waits ==
  /\ pc = "waiting" => ended = "limit" \/ (ended = "unauthorized" /\ client \in Copilot)
  /\ mode = "stream" /\ (pc = "call" \/ (pc = "waiting" /\ client # "gemini")) =>
       said.texts = 0 /\ said.calls = <<>> /\ ~got.mixed
  /\ said.texts > 0 \/ said.calls # <<>> \/ said.stopped \/ said.open # "" => said.any
  /\ pc = "final" => mode = "stream" /\ client = "gemini"
  /\ pc = "crashed" => \/ client \in OpenAI /\ ended = "empty"
                       \/ client = "gemini" /\ ended = "limit"

\* What the event on the channel says is so.
Announced ==
  pc = "offer" =>
    /\ mode = "stream"
    /\ event.then = "final" => client = "gemini" /\ event.type = "other"
    /\ event.then = "returned" => event.type \in {"error", "complete"}
    /\ event.type = "error" =>
         /\ event.then = "returned"
         /\ event.error = "canceled" => cancelled
         /\ event.error = "nil" => client \in Copilot /\ token = "expired" /\ attempts > MaxRetries
    /\ event.type = "complete" =>
         /\ CallsKept(event.calls)
         /\ event.then = "returned" \/ (client = "anthropic" /\ said.stopped)

\* What the client has collected of the calls.
Collected ==
  /\ got.mixed \/ got.current # 0 => mode = "stream" /\ client = "copilot claude" /\ said.any
  /\ mode = "stream" =>
    /\ client # "copilot claude" => ~got.finished
    /\ client = "copilot claude" /\ ~got.mixed =>
         said.calls = IF got.current # 0 /\ ~got.finished THEN Append(got.calls, got.current)
                      ELSE got.calls
    /\ client = "gemini" => ToSet(got.calls) = ToSet(said.calls)

\* While the agent waits it has all the text, but for that on the channel.
TextKept ==
  mode = "stream" /\ Waiting =>
    IF pc = "offer" /\ event.type = "text" THEN said.texts = msg.text + 1 ELSE said.texts = msg.text

\* A message is complete when the answer was, and nothing but a broken end comes then.
Finished ==
  mode = "stream" /\ Waiting =>
    /\ msg.complete =>
         /\ CallsKept(msg.calls) /\ agent # "creating"
         /\ \/ pc = "returned"
            \/ /\ client = "anthropic" /\ said.stopped
               /\ \/ pc = "reading"
                  \/ pc = "offer" /\ event.type = "error" /\ event.error = ended
                     /\ ended \in {"refused", "canceled"}
    /\ said.stopped => /\ client = "anthropic"
                       /\ msg.complete \/ (pc = "offer" /\ event.type = "complete")
    /\ pc = "returned" => \/ msg.complete
                          \/ client = "anthropic" /\ ended = "eof" /\ ~said.stopped
                          \/ client \in OpenAI /\ cancelled /\ ended \in {"limit", "unauthorized"}

\* The caller of send waits for one answer.
Sends ==
  mode = "send" =>
    /\ Waiting => agent = "receiving"
    /\ msg.complete => agent = "completed"

\* The outcome, and that nothing changes what it was.
Outcome ==
  /\ AnswerComplete /\ EndsAsItWas
  /\ agent \in {"completed", "silent", "panicked"} \/ (agent = "error" /\ msg.complete) => pc = "returned"

RequestInv ==
  Typed /\ Waits /\ Announced /\ Collected /\ TextKept /\ Finished /\ Sends /\ Outcome

\* Nothing but the goroutine's own doing: the agent, its message, the context.
Frame == UNCHANGED <<request, token, cancelled, agent, msg>>

---------------------------------------------------------------------------
(* Values *)

\* The empty answer.
LEMMA Empties ==
  /\ Nothing \in Answers
  /\ Nothing.texts = 0 /\ Nothing.calls = <<>> /\ Nothing.open = "" /\ ~Nothing.stopped /\ ~Nothing.any
  /\ Fresh \in Results
  /\ Fresh.calls = <<>> /\ Fresh.current = 0 /\ ~Fresh.finished /\ ~Fresh.mixed
<1>1. <<>> \in Calls /\ <<>> \in Picked
  BY DEF Calls, Picked
<1>2. Nothing \in Answers
  BY <1>1 DEF Nothing, Answers
<1>3. Fresh \in Results
  BY <1>1 DEF Fresh, Results
<1>. QED BY <1>2, <1>3 DEF Nothing, Fresh

\* What an event carries.
LEMMA Events ==
  /\ \A type, then : Of(type, then).type = type /\ Of(type, then).then = then
  /\ \A c : CallOf(c).type = "call" /\ CallOf(c).call = c /\ CallOf(c).then = "reading"
  /\ \A cs, then : /\ Complete(cs, then).type = "complete" /\ Complete(cs, then).calls = cs
                   /\ Complete(cs, then).then = then
  /\ \A e : Error(e).type = "error" /\ Error(e).error = e /\ Error(e).then = "returned"
BY DEF Of, CallOf, Complete, Error

\* What is offered.
LEMMA Offers ==
  /\ \A type, then : Offer(Of(type, then)) =>
       pc' = "offer" /\ event'.type = type /\ event'.then = then
  /\ \A c : Offer(CallOf(c)) =>
       pc' = "offer" /\ event'.type = "call" /\ event'.call = c /\ event'.then = "reading"
  /\ \A cs, then : Offer(Complete(cs, then)) =>
       pc' = "offer" /\ event'.type = "complete" /\ event'.calls = cs /\ event'.then = then
BY Events DEF Offer

\* The numbers.
LEMMA Bounds == MaxRetries \in Nat \ {0} /\ MaxTexts \in Nat /\ MaxCalls \in Nat
BY ProviderAssumption

\* A sequence over a set is one over a larger set.
LEMMA SeqWider ==
  ASSUME NEW S, NEW T, S \subseteq T, NEW s \in Seq(S)
  PROVE  s \in Seq(T)
<1>1. Len(s) \in Nat /\ DOMAIN s = 1 .. Len(s) /\ s = [i \in 1 .. Len(s) |-> s[i]]
  OBVIOUS
<1>2. \A i \in 1 .. Len(s) : s[i] \in T
  OBVIOUS
<1>3. [i \in 1 .. Len(s) |-> s[i]] \in Seq(T)
  BY <1>1, <1>2
<1>. QED BY <1>1, <1>3

\* What an answer has may be kept of it.
LEMMA CallsPicked == \A cs \in Calls : cs \in Picked
<1>1. 1 .. MaxCalls \subseteq 0 .. MaxCalls
  BY Bounds
<1>. QED BY <1>1, SeqWider DEF Calls, Picked

\* An element of a sequence.
LEMMA ElementOf ==
  ASSUME NEW S, NEW s \in Seq(S), NEW e \in ToSet(s)
  PROVE  e \in S /\ s # <<>>
<1>1. PICK i \in DOMAIN s : e = s[i]
  BY DEF ToSet
<1>2. i \in 1 .. Len(s)
  BY <1>1
<1>. QED BY <1>1, <1>2

\* The next call of an answer is one of them.
LEMMA NextFits ==
  ASSUME Typed, SaysCall
  PROVE  NextCall \in 1 .. MaxCalls /\ NextCall # 0 /\ \A c \in 1 .. NextCall : c \in 1 .. MaxCalls
<1>1. said.calls \in Calls
  BY DEF Typed, Answers
<1>2. Len(said.calls) \in Nat /\ Len(said.calls) < MaxCalls
  BY <1>1 DEF SaysCall, Calls
<1>. QED BY <1>2, Bounds DEF NextCall

\* The elements of a sequence with one more, or with none.
LEMMA SetOfAppend ==
  ASSUME NEW S, NEW s \in Seq(S), NEW e \in S
  PROVE  /\ Append(s, e) \in Seq(S) /\ ToSet(Append(s, e)) = ToSet(s) \cup {e}
         /\ Contains(s, e) <=> e \in ToSet(s)
<1>1. Append(s, e) \in Seq(S) /\ DOMAIN Append(s, e) = 1 .. Len(s) + 1 /\ DOMAIN s = 1 .. Len(s)
  OBVIOUS
<1>2. Append(s, e)[Len(s) + 1] = e /\ \A i \in 1 .. Len(s) : Append(s, e)[i] = s[i]
  OBVIOUS
<1>3. Len(s) \in Nat
  OBVIOUS
<1>4. ToSet(Append(s, e)) \subseteq ToSet(s) \cup {e}
  BY <1>1, <1>2, <1>3 DEF ToSet
<1>5. ToSet(s) \subseteq ToSet(Append(s, e)) /\ e \in ToSet(Append(s, e))
  BY <1>1, <1>2, <1>3 DEF ToSet
<1>6. Contains(s, e) <=> e \in ToSet(s)
  BY <1>1 DEF Contains, ToSet
<1>. QED BY <1>1, <1>4, <1>5, <1>6

\* A sequence is a prefix of what begins with it.
LEMMA ConcatPrefix ==
  ASSUME NEW S, NEW s \in Seq(S), NEW t \in Seq(S)
  PROVE  IsPrefix(s, s \o t)
<1>1. /\ Len(s) \in Nat /\ Len(t) \in Nat /\ Len(s \o t) = Len(s) + Len(t) /\ s \o t \in Seq(S)
      /\ \A i \in 1 .. Len(s) : (s \o t)[i] = s[i]
  OBVIOUS
<1>2. Len(s) <= Len(s \o t)
  BY <1>1
<1> DEFINE u == s \o t
<1>3. u \in Seq(S) /\ Len(s) <= Len(u) /\ \A i \in 1 .. Len(s) : u[i] = s[i]
  BY <1>1, <1>2
<1> HIDE DEF u
<1>4. SubSeq(s, 1, Len(s)) = SubSeq(u, 1, Len(s))
  BY <1>1, <1>3
<1>. QED BY <1>3, <1>4 DEF IsPrefix, u

---------------------------------------------------------------------------
(* Steps of the goroutine *)

\* While the goroutine is at work nothing has come to its end.
LEMMA OutcomeKept ==
  ASSUME RequestInv, Frame, pc # "returned", Waits'
  PROVE  Outcome'
<1>1. /\ agent \notin {"completed", "silent", "panicked"} /\ ~(agent = "error" /\ msg.complete)
      /\ agent = "canceled" => cancelled
  BY DEF RequestInv, Outcome, EndsAsItWas
<1>2. agent' = agent /\ msg' = msg /\ cancelled' = cancelled
  BY DEF Frame
<1>3. pc' = "crashed" => \/ client' \in OpenAI /\ ended' = "empty"
                         \/ client' = "gemini" /\ ended' = "limit"
  BY DEF Waits
<1>. QED BY <1>1, <1>2, <1>3 DEF Outcome, AnswerComplete, EndsAsItWas

\* Send knows of no stream.
LEMMA SendsKept ==
  ASSUME Sends, Frame
  PROVE  Sends'
BY DEF Frame, Sends, Waiting, request

\* A stream has not completed while it waits, is asked, or is read without an end.
LEMMA NotComplete ==
  ASSUME RequestInv, mode = "stream", Waiting,
         pc \in {"call", "waiting", "final"} \/ (pc = "reading" /\ ~(client = "anthropic" /\ said.stopped))
  PROVE  ~msg.complete /\ ~said.stopped
BY DEF RequestInv, Finished

\* A part of the answer is read, and offered to the agent or kept.
Says ==
  /\ mode = "stream" /\ pc = "reading" /\ ~said.stopped
  /\ UNCHANGED <<attempts, ended>>
  /\ said' \in Answers /\ said'.texts <= MaxTexts /\ said'.any
  /\ got' \in Results /\ got'.current <= MaxCalls
  /\ \/ pc' = "reading" /\ event' = event /\ said'.texts = said.texts /\ ~said'.stopped
     \/ /\ pc' = "offer" /\ event'.then = "reading"
        /\ \/ event'.type = "text" /\ said'.texts = said.texts + 1 /\ ~said'.stopped
           \/ event'.type = "other" /\ said'.texts = said.texts /\ ~said'.stopped
           \/ /\ event'.type = "call" /\ said'.texts = said.texts /\ ~said'.stopped
              /\ event'.call \in 1 .. MaxCalls
           \/ /\ event'.type = "complete" /\ said'.texts = said.texts /\ said'.stopped
              /\ event'.calls = said'.calls /\ client = "anthropic"

\* Numbers within a bound.
LEMMA Within == \A n, m \in Nat : n <= m => n \in 0 .. m
OBVIOUS

\* An answer, and what the client has made of it, within the bounds.
LEMMA AnswersFit ==
  ASSUME NEW s \in Answers, NEW g \in Results, s.texts <= MaxTexts, g.current <= MaxCalls
  PROVE  /\ s.texts \in 0 .. MaxTexts /\ s.calls \in Seq(1 .. MaxCalls)
         /\ s.open \in {"", "text", "text filled", "tool", "tool filled"}
         /\ {s.stopped, s.any} \subseteq BOOLEAN
         /\ g.calls \in Seq(0 .. MaxCalls) /\ g.current \in 0 .. MaxCalls
         /\ {g.finished, g.mixed} \subseteq BOOLEAN
<1>1. /\ s.texts \in Nat /\ s.calls \in Calls /\ g.calls \in Picked /\ g.current \in Nat
      /\ s.open \in {"", "text", "text filled", "tool", "tool filled"}
      /\ s.stopped \in BOOLEAN /\ s.any \in BOOLEAN /\ g.finished \in BOOLEAN /\ g.mixed \in BOOLEAN
  BY DEF Answers, Results
<1>2. s.texts \in 0 .. MaxTexts /\ g.current \in 0 .. MaxCalls
  BY <1>1, Bounds, Within
<1>. QED BY <1>1, <1>2 DEF Calls, Picked

LEMMA SaysStep ==
  ASSUME RequestInv, Frame, Says, Collected'
  PROVE  RequestInv'
<1>0. /\ client' = client /\ mode' = mode /\ agent' = agent /\ msg' = msg /\ cancelled' = cancelled
      /\ token' = token /\ attempts' = attempts /\ ended' = ended
  BY DEF Frame, request, Says
<1>1. Waiting => ~msg.complete
  BY NotComplete DEF Says
<1>2. Typed'
  <2>1. said' \in Answers /\ got' \in Results /\ said'.texts <= MaxTexts /\ got'.current <= MaxCalls
    BY DEF Says
  <2>2. /\ pc' \in {"reading", "offer"}
        /\ event'.type \in {"none", "other", "text", "call", "complete", "error"}
    BY DEF RequestInv, Typed, TypeOK, Says
  <2>3. TypeOK'
    <3>1. ControlTyped /\ MessageTyped /\ cancelled \in BOOLEAN
      BY TypeParts DEF RequestInv, Typed
    <3>2. ControlTyped'
      BY <1>0, <2>2, <3>1 DEF ControlTyped
    <3>3. AnswerTyped'
      BY <2>1, AnswersFit DEF AnswerTyped
    <3>4. MessageTyped' /\ cancelled' \in BOOLEAN
      BY <1>0, <3>1 DEF MessageTyped
    <3>. QED BY <3>2, <3>3, <3>4, TypeParts
  <2>4. pc' = "offer" =>
          /\ event'.type # "none" /\ event'.then \in {"reading", "final", "returned"}
          /\ event'.type = "call" => event'.call \in 1 .. MaxCalls
          /\ event'.type = "complete" => event'.calls \in Picked
    BY <2>1, CallsPicked DEF Says, Answers
  <2>5. msg' \in Messages
    BY <1>0 DEF RequestInv, Typed
  <2>. QED BY <2>1, <2>3, <2>4, <2>5 DEF Typed
<1>3. Waits'
  BY <1>0 DEF Waits, Says
<1>4. Announced'
  BY <1>0 DEF Announced, CallsKept, Says
<1>5. TextKept'
  <2>1. mode = "stream" /\ Waiting => said.texts = msg.text
    BY DEF RequestInv, TextKept, Says
  <2>2. pc' = "offer" /\ event'.type = "text" => said'.texts = said.texts + 1
    BY DEF Says
  <2>3. ~(pc' = "offer" /\ event'.type = "text") => said'.texts = said.texts
    BY DEF Says
  <2>. QED BY <1>0, <2>1, <2>2, <2>3 DEF TextKept, Waiting
<1>6. Finished'
  BY <1>0, <1>1 DEF Finished, Waiting, Says
<1>7. pc # "returned"
  BY DEF Says
<1>. QED BY <1>2, <1>3, <1>4, <1>5, <1>6, <1>7, OutcomeKept, SendsKept DEF RequestInv

\* The goroutine goes on without a word of the answer.
LEMMA QuietStep ==
  ASSUME RequestInv, Frame, UNCHANGED <<attempts, said, got>>, pc \in {"waiting", "final", "reading"},
         ended' \in {"", "eof", "empty", "refused", "limit", "unauthorized", "canceled"},
         \/ /\ pc' \in {"call", "waiting", "returned", "crashed"} /\ event' = event
         \/ /\ pc' = "offer"
            /\ event'.type \in {"other", "error", "complete"}
            /\ event'.then \in {"final", "returned"}
            /\ event'.type = "complete" => event'.calls \in Picked,
         Waits', Announced', Finished'
  PROVE  RequestInv'
<1>0. /\ client' = client /\ mode' = mode /\ agent' = agent /\ msg' = msg /\ cancelled' = cancelled
      /\ token' = token /\ attempts' = attempts /\ said' = said /\ got' = got
  BY DEF Frame, request
<1>1. Typed'
  <2>1. pc' \in {"call", "waiting", "returned", "crashed", "offer"}
        /\ event'.type \in {"none", "other", "text", "call", "complete", "error"}
    BY DEF RequestInv, Typed, TypeOK
  <2>2. TypeOK'
    <3>1. ControlTyped /\ AnswerTyped /\ MessageTyped /\ cancelled \in BOOLEAN
      BY TypeParts DEF RequestInv, Typed
    <3>2. ControlTyped'
      BY <1>0, <2>1, <3>1 DEF ControlTyped
    <3>3. AnswerTyped' /\ MessageTyped' /\ cancelled' \in BOOLEAN
      BY <1>0, <3>1 DEF AnswerTyped, MessageTyped
    <3>. QED BY <3>2, <3>3, TypeParts
  <2>3. said' \in Answers /\ got' \in Results /\ msg' \in Messages
    BY <1>0 DEF RequestInv, Typed
  <2>4. pc' = "offer" =>
          /\ event'.type # "none" /\ event'.then \in {"reading", "final", "returned"}
          /\ event'.type # "call"
          /\ event'.type = "complete" => event'.calls \in Picked
    OBVIOUS
  <2>. QED BY <2>2, <2>3, <2>4 DEF Typed
<1>2. Collected'
  BY <1>0 DEF RequestInv, Collected
<1>3. TextKept'
  BY <1>0 DEF RequestInv, TextKept, Waiting
<1>. QED BY <1>1, <1>2, <1>3, OutcomeKept, SendsKept DEF RequestInv

\* What an attempt that fails comes to.
Fate(status, v) ==
  /\ v = "retry" => status = "limit" \/ (status = "unauthorized" /\ client \in Copilot)
  /\ v = "canceled" => status = "canceled"
  /\ v = "nil" => client \in Copilot /\ status = "unauthorized" /\ attempts > MaxRetries
  /\ client = "anthropic" /\ status # "limit" => v = status

\* An attempt fails with a reason.
LEMMA Reasons ==
  ASSUME Waits, NEW status \in Failures
  PROVE  /\ status \in {"refused", "canceled", "limit", "unauthorized"}
         /\ status = "canceled" => cancelled
         /\ status = "unauthorized" => token = "expired"
         /\ status \in {"limit", "unauthorized"} /\ client # "gemini" =>
              said.texts = 0 /\ said.calls = <<>> /\ ~said.stopped /\ ~said.any
BY Empties DEF Failures

\* It is made again or the agent is told.
LEMMA FailStep ==
  ASSUME RequestInv, Frame, UNCHANGED <<attempts, said, got>>, mode = "stream", pc = "reading",
         NEW status \in Failures, ended' = status, NEW v, Fate(status, v), RetryOrTell(v)
  PROVE  RequestInv'
<1>0. /\ client' = client /\ mode' = mode /\ agent' = agent /\ msg' = msg /\ cancelled' = cancelled
      /\ token' = token /\ attempts' = attempts /\ said' = said /\ got' = got
  BY DEF Frame, request
<1>1. /\ status \in {"refused", "canceled", "limit", "unauthorized"}
      /\ status = "canceled" => cancelled
      /\ status = "unauthorized" => token = "expired"
      /\ status \in {"limit", "unauthorized"} /\ client # "gemini" =>
           said.texts = 0 /\ said.calls = <<>> /\ ~said.stopped /\ ~got.mixed
  BY Reasons DEF RequestInv, Collected
<1>2. Waiting /\ msg.complete => client = "anthropic" /\ said.stopped /\ CallsKept(msg.calls) /\ agent # "creating"
  BY DEF RequestInv, Finished
<1>3. Waiting /\ said.stopped => client = "anthropic" /\ msg.complete
  BY DEF RequestInv, Finished
<1>4. CASE v = "retry"
  <2>1. pc' = "waiting" /\ event' = event
    BY <1>4 DEF RetryOrTell
  <2>2. status = "limit" \/ (status = "unauthorized" /\ client \in Copilot)
    BY <1>4 DEF Fate
  <2>3. Waits'
    BY <1>0, <1>1, <2>1, <2>2 DEF RequestInv, Waits, Copilot
  <2>4. Announced'
    BY <2>1 DEF Announced
  <2>5. Waiting => ~msg.complete /\ ~said.stopped
    BY <1>1, <1>2, <1>3, <2>2 DEF Copilot
  <2>6. Finished'
    BY <1>0, <2>1, <2>5 DEF Finished, Waiting
  <2>. QED BY <1>1, <2>1, <2>3, <2>4, <2>6, QuietStep
<1>5. CASE v # "retry"
  <2>1. /\ pc' = "offer" /\ event'.type = "error" /\ event'.error = v /\ event'.then = "returned"
    BY <1>5, Events DEF RetryOrTell, Offer
  <2>2. Waits'
    BY <1>0, <2>1 DEF RequestInv, Waits
  <2>3. Announced'
    BY <1>0, <1>1, <2>1 DEF Announced, Fate
  <2>4. Waiting /\ msg.complete => v = status /\ status \in {"refused", "canceled"}
    BY <1>1, <1>2 DEF Fate
  <2>5. CallsKept(msg.calls) => CallsKept(msg.calls)'
    BY <1>0 DEF CallsKept
  <2>6. Finished'
    BY <1>0, <1>2, <1>3, <2>1, <2>4, <2>5 DEF Finished, Waiting
  <2>. QED BY <1>1, <2>1, <2>2, <2>3, <2>6, QuietStep
<1>. QED BY <1>4, <1>5

\* However a client's attempt fails.
LEMMA Failing ==
  ASSUME RequestInv, AnthropicFails \/ OpenAIFails \/ CopilotFails \/ GeminiFails
  PROVE  RequestInv'
<1>1. Frame /\ UNCHANGED <<attempts, said, got>>
  BY DEF AnthropicFails, OpenAIFails, CopilotFails, GeminiFails, Frame
<1>0. Failures \subseteq {"refused", "canceled", "limit", "unauthorized"}
  BY DEF Failures
<1>2. ASSUME NEW status \in Failures, NEW v \in OpenAIVerdicts(status)
      PROVE  /\ v = "retry" => status = "limit" /\ ~(attempts > MaxRetries)
             /\ v \in {"canceled", "nil"} => status = v
  BY <1>0 DEF OpenAIVerdicts
<1>4. CASE AnthropicFails
  <2>1. PICK status \in Failures : Failed(status) /\ \E v \in AnthropicVerdicts(status) : RetryOrTell(v)
    BY <1>4 DEF AnthropicFails
  <2>2. PICK v \in AnthropicVerdicts(status) : RetryOrTell(v)
    BY <2>1
  <2>3. Fate(status, v)
    BY <1>0, <1>4, <2>2 DEF AnthropicFails, AnthropicVerdicts, Fate
  <2>. QED BY <1>1, <2>1, <2>2, <2>3, FailStep DEF Failed, Fails
<1>5. CASE OpenAIFails
  <2>1. PICK status \in Failures : Failed(status) /\ \E v \in OpenAIVerdicts(status) : RetryOrTell(v)
    BY <1>5 DEF OpenAIFails
  <2>2. PICK v \in OpenAIVerdicts(status) : RetryOrTell(v)
    BY <2>1
  <2>3. Fate(status, v)
    BY <1>2, <1>0, <1>5, <2>2 DEF OpenAIFails, Fate
  <2>. QED BY <1>1, <2>1, <2>2, <2>3, FailStep DEF Failed, Fails
<1>6. CASE CopilotFails
  <2>1. PICK status \in Failures :
          /\ Failed(status)
          /\ \E v \in CopilotVerdicts(status) :
               RetryOrTell(IF v = "retry" /\ attempts > MaxRetries THEN "nil" ELSE v)
    BY <1>6 DEF CopilotFails
  <2>2. PICK v \in CopilotVerdicts(status) :
               RetryOrTell(IF v = "retry" /\ attempts > MaxRetries THEN "nil" ELSE v)
    BY <2>1
  <2>3. client \in Copilot /\ client # "anthropic"
    BY <1>6 DEF CopilotFails, Copilot
  <2>4. Fate(status, IF v = "retry" /\ attempts > MaxRetries THEN "nil" ELSE v)
    <3>1. CASE status = "unauthorized"
      BY <2>2, <2>3, <3>1 DEF CopilotVerdicts, Fate
    <3>2. CASE status # "unauthorized"
      <4>1. v \in OpenAIVerdicts(status)
        BY <2>2, <3>2 DEF CopilotVerdicts
      <4>2. ~(v = "retry" /\ attempts > MaxRetries)
        BY <1>2, <4>1
      <4>. QED BY <1>2, <1>0, <2>3, <4>1, <4>2 DEF Fate
    <3>. QED BY <3>1, <3>2
  <2>. QED BY <1>1, <2>1, <2>2, <2>4, FailStep DEF Failed, Fails
<1>7. CASE GeminiFails
  <2>1. PICK status \in Failures : Failed(status) /\ \E v \in GeminiVerdicts(status) : RetryOrTell(v)
    BY <1>7 DEF GeminiFails
  <2>2. PICK v \in GeminiVerdicts(status) : RetryOrTell(v)
    BY <2>1
  <2>3. Fate(status, v)
    BY <1>0, <1>7, <2>2 DEF GeminiFails, GeminiVerdicts, Fate
  <2>. QED BY <1>1, <2>1, <2>2, <2>3, FailStep DEF Failed, Fails
<1>. QED BY <1>4, <1>5, <1>6, <1>7

\* An attempt begins.
LEMMA Calling ==
  ASSUME RequestInv, Call
  PROVE  RequestInv'
<1>0. /\ client' = client /\ mode' = mode /\ agent' = agent /\ msg' = msg /\ cancelled' = cancelled
      /\ token' = token /\ ended' = ended /\ said' = Nothing /\ got' = Fresh
      /\ pc = "call" /\ Frame
  BY DEF Call, Frame, request
<1>1. \/ pc' = "reading" /\ event' = event
      \/ /\ pc' = "offer" /\ event'.type = "other" /\ event'.then = "reading" /\ mode = "stream"
  BY Events DEF Call, Offer
<1>2. Typed'
  <2>1. attempts' \in 0 .. MaxRetries + 1
    <3>1. attempts \in 0 .. MaxRetries + 1
      BY DEF RequestInv, Typed, TypeOK
    <3>2. attempts' = IF attempts > MaxRetries THEN attempts ELSE attempts + 1
      BY DEF Call
    <3>. QED BY <3>1, <3>2, Bounds
  <2>2. /\ pc' \in {"reading", "offer"}
        /\ event'.type \in {"none", "other", "text", "call", "complete", "error"}
    BY <1>1 DEF RequestInv, Typed, TypeOK
  <2>3. said' \in Answers /\ got' \in Results /\ said'.texts <= MaxTexts /\ got'.current <= MaxCalls
    <3>1. Nothing.texts <= MaxTexts /\ Fresh.current <= MaxCalls
      <4>1. 0 <= MaxTexts /\ 0 <= MaxCalls
        BY Bounds
      <4>. QED BY <4>1, Empties
    <3>. QED BY <1>0, <3>1, Empties
  <2>4. TypeOK'
    <3>1. ControlTyped /\ MessageTyped /\ cancelled \in BOOLEAN
      BY TypeParts DEF RequestInv, Typed
    <3>2. ControlTyped'
      BY <1>0, <2>1, <2>2, <3>1 DEF ControlTyped
    <3>3. AnswerTyped'
      BY <2>3, AnswersFit DEF AnswerTyped
    <3>4. MessageTyped' /\ cancelled' \in BOOLEAN
      BY <1>0, <3>1 DEF MessageTyped
    <3>. QED BY <3>2, <3>3, <3>4, TypeParts
  <2>5. msg' \in Messages
    BY <1>0 DEF RequestInv, Typed
  <2>. QED BY <1>1, <2>3, <2>4, <2>5 DEF Typed
<1>3. Waits'
  <2>1. ~(said'.texts > 0 \/ said'.calls # <<>> \/ said'.stopped \/ said'.open # "")
    <3>1. ~(0 > 0)
      OBVIOUS
    <3>. QED BY <1>0, <3>1, Empties
  <2>. QED BY <1>0, <1>1, <2>1 DEF Waits
<1>4. Announced'
  BY <1>1, <1>0 DEF Announced
<1>5. Collected'
  BY <1>0, Empties DEF Collected
<1>6. TextKept'
  BY <1>0, <1>1, Empties DEF RequestInv, Waits, TextKept, Waiting
<1>7. Finished'
  <2>1. mode = "stream" /\ Waiting => ~msg.complete
    BY <1>0, NotComplete
  <2>. QED BY <1>0, <1>1, <2>1, Empties DEF Finished, Waiting
<1>. QED BY <1>0, <1>2, <1>3, <1>4, <1>5, <1>6, <1>7, OutcomeKept, SendsKept DEF RequestInv

\* A wait is over: it is asked again, or the request is given up.
LEMMA WaitOver ==
  ASSUME RequestInv,
         Again \/ AnthropicCancelled \/ OpenAICancelled \/ GeminiCancelled \/ GeminiGoesOn
  PROVE  RequestInv'
<1>0. /\ client' = client /\ mode' = mode /\ agent' = agent /\ msg' = msg /\ cancelled' = cancelled
      /\ token' = token /\ attempts' = attempts /\ said' = said /\ got' = got /\ ended' = ended
      /\ pc = "waiting" /\ Frame
  BY DEF Again, AnthropicCancelled, OpenAICancelled, GeminiCancelled, GeminiGoesOn, Frame, request, server
<1>1. ended' \in {"", "eof", "empty", "refused", "limit", "unauthorized", "canceled"}
  BY <1>0 DEF RequestInv, Typed, TypeOK
<1>2. mode = "stream" /\ Waiting => ~msg.complete /\ ~said.stopped
  BY <1>0, NotComplete
<1>3. CASE Again
  <2>1. pc' = "call" /\ event' = event /\ ~(client = "gemini" /\ mode = "stream")
    BY <1>3 DEF Again
  <2>2. Waits' /\ Announced'
    BY <1>0, <2>1 DEF RequestInv, Waits, Announced
  <2>3. Finished'
    BY <1>0, <1>2, <2>1 DEF Finished, Waiting
  <2>. QED BY <1>0, <1>1, <2>1, <2>2, <2>3, QuietStep
<1>4. CASE AnthropicCancelled \/ GeminiCancelled
  <2>1. /\ pc' = "offer" /\ event'.type = "error" /\ event'.error = "canceled"
        /\ event'.then = "returned" /\ cancelled /\ mode = "stream"
    BY <1>4, Events DEF AnthropicCancelled, GeminiCancelled, Offer
  <2>2. Waits' /\ Announced'
    BY <1>0, <2>1 DEF RequestInv, Waits, Announced
  <2>3. Finished'
    BY <1>0, <1>2, <2>1 DEF Finished, Waiting
  <2>. QED BY <1>0, <1>1, <2>1, <2>2, <2>3, QuietStep
<1>5. CASE OpenAICancelled
  <2>1. pc' = "returned" /\ event' = event /\ client \in OpenAI /\ cancelled
    BY <1>5 DEF OpenAICancelled
  <2>2. Waits' /\ Announced'
    BY <1>0, <2>1 DEF RequestInv, Waits, Announced
  <2>3. ended \in {"limit", "unauthorized"}
    BY <1>0 DEF RequestInv, Waits
  <2>4. Finished'
    BY <1>0, <1>2, <2>1, <2>3 DEF Finished, Waiting
  <2>. QED BY <1>0, <1>1, <2>1, <2>2, <2>4, QuietStep
<1>6. CASE GeminiGoesOn
  <2>1. pc' = "crashed" /\ event' = event /\ client = "gemini"
    BY <1>6 DEF GeminiGoesOn
  <2>2. ended = "limit"
    BY <1>0, <2>1 DEF RequestInv, Waits, Copilot
  <2>3. Waits' /\ Announced'
    BY <1>0, <2>1, <2>2 DEF RequestInv, Waits, Announced
  <2>4. Finished'
    BY <1>0, <1>2, <2>1 DEF Finished, Waiting
  <2>. QED BY <1>0, <1>1, <2>1, <2>3, <2>4, QuietStep
<1>. QED BY <1>3, <1>4, <1>5, <1>6

\* The stream ends.
LEMMA Ending ==
  ASSUME RequestInv, AnthropicEnds \/ OpenAIEnds \/ GeminiEnds \/ GeminiFinal
  PROVE  RequestInv'
<1>0. /\ client' = client /\ mode' = mode /\ agent' = agent /\ msg' = msg /\ cancelled' = cancelled
      /\ token' = token /\ attempts' = attempts /\ said' = said /\ got' = got
      /\ pc \in {"reading", "final"} /\ mode = "stream" /\ Frame
  BY DEF RequestInv, Waits, AnthropicEnds, OpenAIEnds, GeminiEnds, GeminiFinal, Ends, Frame, request, server
<1>1. CASE AnthropicEnds
  <2>1. pc' = "returned" /\ event' = event /\ ended' = "eof" /\ client = "anthropic" /\ pc = "reading"
    BY <1>1 DEF AnthropicEnds, Ends
  <2>2. Waits' /\ Announced'
    BY <1>0, <2>1 DEF RequestInv, Waits, Announced
  <2>3. Waiting => /\ msg.complete => CallsKept(msg.calls) /\ agent # "creating"
                   /\ said.stopped => msg.complete
    BY <1>0, <2>1 DEF RequestInv, Finished
  <2>4. CallsKept(msg.calls) => CallsKept(msg.calls)'
    BY <1>0 DEF CallsKept
  <2>5. Finished'
    BY <1>0, <2>1, <2>3, <2>4 DEF Finished, Waiting
  <2>. QED BY <1>0, <2>1, <2>2, <2>5, QuietStep
<1>2. CASE OpenAIEnds
  <2>1. /\ client \in {"openai", "copilot", "copilot claude"} /\ client # "anthropic" /\ pc = "reading"
    BY <1>2 DEF OpenAIEnds, Ends, OpenAI, Copilot
  <2>2. Waiting => ~msg.complete /\ ~said.stopped
    BY <1>0, <2>1, NotComplete
  <2>3. CASE said.any
    <3>1. PICK cs : cs = (IF got.finished THEN got.calls ELSE said.calls)
      OBVIOUS
    <3>2. /\ pc' = "offer" /\ event'.type = "complete" /\ event'.then = "returned" /\ event'.calls = cs
          /\ ended' = "eof"
      BY <1>2, <2>3, <3>1, Events DEF OpenAIEnds, Offer
    <3>3. got.mixed \/ cs = said.calls
      BY <1>0, <2>1, <3>1 DEF RequestInv, Collected
    <3>4. Waits'
      BY <1>0, <3>2 DEF RequestInv, Waits
    <3>5. Announced'
      BY <1>0, <3>2, <3>3 DEF Announced, CallsKept
    <3>6. Finished'
      BY <1>0, <2>2, <3>2 DEF Finished, Waiting
    <3>7. cs \in Picked
      BY <3>1, CallsPicked DEF RequestInv, Typed, Answers, Results
    <3>. QED BY <1>0, <2>1, <3>2, <3>4, <3>5, <3>6, <3>7, QuietStep
  <2>4. CASE ~said.any
    <3>1. pc' = "crashed" /\ event' = event /\ ended' = "empty" /\ client \in OpenAI
      BY <1>2, <2>4 DEF OpenAIEnds
    <3>2. Waits' /\ Announced'
      BY <1>0, <3>1 DEF RequestInv, Waits, Announced
    <3>3. Finished'
      BY <1>0, <2>2, <3>1 DEF Finished, Waiting
    <3>. QED BY <1>0, <2>1, <3>1, <3>2, <3>3, QuietStep
  <2>. QED BY <2>3, <2>4
<1>3. CASE GeminiEnds
  <2>1. /\ pc' = "offer" /\ event'.type = "other" /\ event'.then = "final" /\ ended' \in {"eof", "empty"}
        /\ client = "gemini" /\ pc = "reading"
    BY <1>3, Events DEF GeminiEnds, Ends, Offer
  <2>2. Waits' /\ Announced'
    BY <1>0, <2>1 DEF RequestInv, Waits, Announced
  <2>3. Waiting => ~msg.complete /\ ~said.stopped
    BY <1>0, <2>1, NotComplete
  <2>4. Finished'
    BY <1>0, <2>1, <2>3 DEF Finished, Waiting
  <2>. QED BY <1>0, <2>1, <2>2, <2>4, QuietStep
<1>4. CASE GeminiFinal
  <2>1. pc = "final" /\ client = "gemini" /\ ended' = ended
    BY <1>4 DEF GeminiFinal, RequestInv, Waits, server
  <2>2. Waiting => ~msg.complete /\ ~said.stopped
    BY <1>0, <2>1, NotComplete
  <2>3. ended' \in {"", "eof", "empty", "refused", "limit", "unauthorized", "canceled"}
    BY <2>1 DEF RequestInv, Typed, TypeOK
  <2>4. CASE said.any
    <3>1. pc' = "offer" /\ event'.type = "complete" /\ event'.then = "returned" /\ event'.calls = got.calls
      BY <1>4, <2>4, Events DEF GeminiFinal, Offer
    <3>2. Waits'
      BY <1>0, <2>1, <3>1 DEF RequestInv, Waits
    <3>3. ToSet(got.calls) = ToSet(said.calls)
      BY <1>0, <2>1 DEF RequestInv, Collected
    <3>4. Announced'
      BY <1>0, <2>1, <3>1, <3>3 DEF Announced, CallsKept
    <3>5. Finished'
      BY <1>0, <2>2, <3>1 DEF Finished, Waiting
    <3>6. got.calls \in Picked
      BY DEF RequestInv, Typed, Results
    <3>. QED BY <1>0, <2>3, <3>1, <3>2, <3>4, <3>5, <3>6, QuietStep
  <2>5. CASE ~said.any
    <3>1. pc' = "call" /\ event' = event
      BY <1>4, <2>5 DEF GeminiFinal
    <3>2. said.texts = 0 /\ said.calls = <<>> /\ ~got.mixed
      <4>1. said.texts \in Nat /\ ~got.mixed
        BY <2>5 DEF RequestInv, Typed, Answers, Collected
      <4>2. ~(said.texts > 0) /\ said.calls = <<>>
        BY <2>5 DEF RequestInv, Waits
      <4>. QED BY <4>1, <4>2
    <3>3. Waits' /\ Announced'
      BY <1>0, <2>1, <3>1, <3>2 DEF RequestInv, Waits, Announced
    <3>4. Finished'
      BY <1>0, <2>2, <3>1 DEF Finished, Waiting
    <3>. QED BY <1>0, <2>3, <3>1, <3>3, <3>4, QuietStep
  <2>. QED BY <2>4, <2>5
<1>. QED BY <1>1, <1>2, <1>3, <1>4

\* The answer with one more of something.
LEMMA More ==
  ASSUME RequestInv
  PROVE  /\ said \in Answers /\ said.texts <= MaxTexts /\ said.texts \in Nat
         /\ got \in Results /\ got.current <= MaxCalls
         /\ SaysText => WithText \in Answers /\ WithText.texts <= MaxTexts /\ WithText.any
                        /\ WithText.texts = said.texts + 1 /\ WithText.calls = said.calls
                        /\ WithText.stopped = said.stopped
         /\ SaysCall => \A c \in 1 .. NextCall :
              /\ WithCall(c) \in Answers /\ WithCall(c).texts = said.texts /\ WithCall(c).any
              /\ WithCall(c).calls = Append(said.calls, c) /\ WithCall(c).stopped = said.stopped
              /\ ToSet(WithCall(c).calls) = ToSet(said.calls) \cup {c}
<1>1. said \in Answers /\ got \in Results
  BY DEF RequestInv, Typed
<1>2. said.texts \in Nat /\ said.calls \in Calls
  BY <1>1 DEF Answers
<1>3. said.texts <= MaxTexts /\ got.current <= MaxCalls
  <2>1. said.texts \in 0 .. MaxTexts /\ got.current \in 0 .. MaxCalls
    BY DEF RequestInv, Typed, TypeOK
  <2>. QED BY <2>1, Bounds
<1>4. ASSUME SaysText
      PROVE  WithText \in Answers /\ WithText.texts <= MaxTexts /\ WithText.any
             /\ WithText.texts = said.texts + 1 /\ WithText.calls = said.calls
             /\ WithText.stopped = said.stopped
  <2>1. said.texts + 1 \in Nat /\ said.texts + 1 <= MaxTexts
    BY <1>2, <1>4, Bounds DEF SaysText
  <2>. QED BY <1>1, <2>1 DEF WithText, Answers
<1>5. ASSUME SaysCall, NEW c \in 1 .. NextCall
      PROVE  /\ WithCall(c) \in Answers /\ WithCall(c).texts = said.texts /\ WithCall(c).any
             /\ WithCall(c).calls = Append(said.calls, c) /\ WithCall(c).stopped = said.stopped
             /\ ToSet(WithCall(c).calls) = ToSet(said.calls) \cup {c}
  <2>1. c \in 1 .. MaxCalls
    BY <1>5, NextFits DEF RequestInv
  <2>2. Append(said.calls, c) \in Calls /\ ToSet(Append(said.calls, c)) = ToSet(said.calls) \cup {c}
    BY <1>2, <2>1, SetOfAppend DEF Calls
  <2>. QED BY <1>1, <2>2 DEF WithCall, Answers
<1>. QED BY <1>1, <1>2, <1>3, <1>4, <1>5

\* Anthropic's blocks.
LEMMA AnthropicSays ==
  ASSUME RequestInv,
         AnthropicBlockStart \/ AnthropicBlockDelta \/ AnthropicBlockStop \/ AnthropicMessageStop
  PROVE  RequestInv'
<1>0. /\ client = "anthropic" /\ mode = "stream" /\ pc = "reading" /\ ~said.stopped
      /\ UNCHANGED <<attempts, ended>> /\ got' = got /\ Frame
  BY DEF AnthropicBlockStart, AnthropicBlockDelta, AnthropicBlockStop, AnthropicMessageStop,
         Speaks, Ends, Frame
<1>1. got' \in Results /\ got'.current <= MaxCalls
  BY <1>0, More
<1>2. Collected'
  <2>1. client' = client /\ mode' = mode
    BY <1>0 DEF Frame, request
  <2>. QED BY <1>0, <2>1 DEF RequestInv, Collected
<1>3. CASE AnthropicBlockStart
  <2>1. CASE SaysText /\ said' = [said EXCEPT !.open = "text", !.any = TRUE] /\ Offer(Of("other", "reading"))
    <3>1. /\ said' \in Answers /\ said'.texts = said.texts /\ said'.any /\ ~said'.stopped
      BY <1>0, <2>1, More DEF Answers
    <3>2. pc' = "offer" /\ event'.type = "other" /\ event'.then = "reading"
      BY <2>1, Offers
    <3>3. said'.texts <= MaxTexts
      BY <3>1, More
    <3>. QED BY <1>0, <1>1, <1>2, <3>1, <3>2, <3>3, SaysStep DEF Says
  <2>2. CASE SaysCall /\ said' = [WithCall(NextCall) EXCEPT !.open = "tool"] /\ Offer(CallOf(NextCall))
    <3>1. NextCall \in 1 .. NextCall /\ NextCall \in 1 .. MaxCalls
      BY <2>2, NextFits DEF RequestInv
    <3>2. /\ WithCall(NextCall) \in Answers /\ WithCall(NextCall).texts = said.texts
          /\ WithCall(NextCall).any /\ ~WithCall(NextCall).stopped
      BY <1>0, <2>2, <3>1, More
    <3>3. said' \in Answers /\ said'.texts = said.texts /\ said'.any /\ ~said'.stopped
      BY <2>2, <3>2 DEF Answers
    <3>4. pc' = "offer" /\ event'.type = "call" /\ event'.then = "reading" /\ event'.call = NextCall
      BY <2>2, Offers
    <3>5. said'.texts <= MaxTexts
      BY <3>3, More
    <3>. QED BY <1>0, <1>1, <1>2, <3>1, <3>3, <3>4, <3>5, SaysStep DEF Says
  <2>. QED BY <1>3, <2>1, <2>2 DEF AnthropicBlockStart
<1>4. CASE AnthropicBlockDelta
  <2>1. CASE SaysText /\ said' = [WithText EXCEPT !.open = "text filled"] /\ Offer(Of("text", "reading"))
    <3>1. /\ said' \in Answers /\ said'.texts = WithText.texts /\ said'.any = WithText.any
          /\ said'.stopped = WithText.stopped
      BY <2>1, More DEF Answers
    <3>2. pc' = "offer" /\ event'.type = "text" /\ event'.then = "reading"
      BY <2>1, Offers
    <3>3. said'.texts <= MaxTexts /\ said'.texts = said.texts + 1
      BY <2>1, <3>1, More
    <3>4. said'.any /\ ~said'.stopped
      BY <1>0, <2>1, <3>1, More
    <3>. QED BY <1>0, <1>1, <1>2, <3>1, <3>2, <3>3, <3>4, SaysStep DEF Says
  <2>2. CASE /\ said.open = "tool" /\ said' = [said EXCEPT !.open = "tool filled"]
             /\ Offer(Of("other", "reading"))
    <3>1. /\ said' \in Answers /\ said'.texts = said.texts /\ said'.any = said.any /\ ~said'.stopped
      BY <1>0, <2>2, More DEF Answers
    <3>2. pc' = "offer" /\ event'.type = "other" /\ event'.then = "reading"
      BY <2>2, Offers
    <3>3. said'.texts <= MaxTexts
      BY <3>1, More
    <3>4. said.any
      BY <2>2 DEF RequestInv, Waits
    <3>. QED BY <1>0, <1>1, <1>2, <3>1, <3>2, <3>3, <3>4, SaysStep DEF Says
  <2>. QED BY <1>4, <2>1, <2>2 DEF AnthropicBlockDelta
<1>5. CASE AnthropicBlockStop
  <2>0. said.open \in {"text filled", "tool filled"} /\ said' = [said EXCEPT !.open = ""]
        /\ Offer(Of("other", "reading"))
    BY <1>5 DEF AnthropicBlockStop
  <2>1. /\ said' \in Answers /\ said'.texts = said.texts /\ said'.any = said.any /\ ~said'.stopped
    BY <1>0, <2>0, More DEF Answers
  <2>2. pc' = "offer" /\ event'.type = "other" /\ event'.then = "reading"
    BY <2>0, Offers
  <2>3. said'.texts <= MaxTexts
    BY <2>1, More
  <2>4. said.any
    BY <2>0 DEF RequestInv, Waits
  <2>. QED BY <1>0, <1>1, <1>2, <2>1, <2>2, <2>3, <2>4, SaysStep DEF Says
<1>6. CASE AnthropicMessageStop
  <2>0. said.any /\ said' = [said EXCEPT !.stopped = TRUE] /\ Offer(Complete(said.calls, "reading"))
    BY <1>6 DEF AnthropicMessageStop
  <2>1. /\ said' \in Answers /\ said'.texts = said.texts /\ said'.any = said.any /\ said'.stopped
        /\ said'.calls = said.calls
    BY <2>0, More DEF Answers
  <2>2. pc' = "offer" /\ event'.type = "complete" /\ event'.then = "reading" /\ event'.calls = said'.calls
    BY <2>0, <2>1, Offers
  <2>3. said'.texts <= MaxTexts
    BY <2>1, More
  <2>. QED BY <1>0, <1>1, <1>2, <2>0, <2>1, <2>2, <2>3, SaysStep DEF Says
<1>. QED BY <1>3, <1>4, <1>5, <1>6

\* The calls of an answer with more behind them.
LEMMA Longer ==
  ASSUME RequestInv, NEW n \in NextCall .. MaxCalls
  PROVE  /\ said.calls \o [i \in 1 .. n - Len(said.calls) |-> Len(said.calls) + i] \in Calls
         /\ IsPrefix(said.calls, said.calls \o [i \in 1 .. n - Len(said.calls) |-> Len(said.calls) + i])
         /\ n = NextCall => said.calls \o [i \in 1 .. n - Len(said.calls) |-> Len(said.calls) + i]
                              = Append(said.calls, NextCall)
<1> DEFINE len == Len(said.calls)
           more == [i \in 1 .. n - len |-> len + i]
<1>1. said.calls \in Calls /\ len \in Nat /\ n \in Nat /\ len < n /\ n <= MaxCalls
  <2>1. said.calls \in Calls
    BY DEF RequestInv, Typed, Answers
  <2>. QED BY <2>1, Bounds DEF Calls, NextCall
<1>2. more \in Seq(1 .. MaxCalls) /\ Len(more) = n - len /\ \A i \in 1 .. n - len : more[i] = len + i
  <2>1. n - len \in Nat /\ \A i \in 1 .. n - len : len + i \in 1 .. MaxCalls
    BY <1>1, Bounds
  <2>2. more \in [1 .. n - len -> 1 .. MaxCalls]
    BY <2>1
  <2>. QED BY <2>1, <2>2
<1> HIDE DEF more
<1>3. said.calls \o more \in Calls
  BY <1>1, <1>2 DEF Calls
<1>4. IsPrefix(said.calls, said.calls \o more)
  BY <1>1, <1>2, ConcatPrefix DEF Calls
<1>5. ASSUME n = NextCall
      PROVE  said.calls \o more = Append(said.calls, NextCall)
  <2>1. Len(more) = 1 /\ more[1] = NextCall
    BY <1>1, <1>2, <1>5 DEF NextCall
  <2>2. NextCall \in 1 .. MaxCalls /\ len + 1 = NextCall
    BY <1>1, <1>5, Bounds DEF NextCall
  <2> DEFINE u == said.calls \o more
             v == Append(said.calls, NextCall)
  <2>3. /\ u \in Seq(1 .. MaxCalls) /\ Len(u) = len + 1
        /\ \A i \in 1 .. len : u[i] = said.calls[i]
    <3>1. said.calls \in Seq(1 .. MaxCalls) /\ len \in Nat
      BY <1>1 DEF Calls
    <3>2. u \in Seq(1 .. MaxCalls) /\ Len(u) = len + Len(more)
      BY <1>2, <3>1
    <3>3. \A i \in 1 .. len : u[i] = said.calls[i]
      BY <1>2, <3>1
    <3>. QED BY <2>1, <3>2, <3>3
  <2>4. u[len + 1] = NextCall
    BY <1>1, <1>2, <2>1 DEF Calls
  <2>5. /\ v \in Seq(1 .. MaxCalls) /\ Len(v) = len + 1
        /\ \A i \in 1 .. len : v[i] = said.calls[i]
        /\ v[len + 1] = NextCall
    BY <1>1, <2>2 DEF Calls
  <2> HIDE DEF u, v
  <2>6. \A i \in 1 .. len + 1 : u[i] = v[i]
    BY <1>1, <2>3, <2>4, <2>5
  <2>7. u = v
    BY <2>3, <2>5, <2>6
  <2>. QED BY <2>7 DEF u, v
<1>. QED BY <1>3, <1>4, <1>5 DEF more

\* What the adapter has collected when another call begins.
LEMMA Begins ==
  ASSUME RequestInv, CopilotListens, NEW c \in 1 .. MaxCalls
  PROVE  /\ CopilotBegins(c).calls \in Picked /\ CopilotBegins(c).current = c
         /\ CopilotBegins(c).finished = got.finished /\ CopilotBegins(c).mixed = got.mixed
         /\ CopilotBegins(c) \in Results /\ c \in Nat /\ c # 0 /\ c <= MaxCalls
         /\ ~got.mixed => CopilotBegins(c).calls = said.calls
<1>1. got \in Results /\ got.calls \in Picked /\ got.current \in 0 .. MaxCalls
  BY DEF RequestInv, Typed, TypeOK, Results
<1>6. c \in Nat /\ c # 0 /\ c <= MaxCalls
  BY Bounds
<1>2. PICK cs : cs = IF got.current = 0 THEN got.calls ELSE Append(got.calls, got.current)
  OBVIOUS
<1>3. cs \in Picked
  <2>1. got.calls \in Seq(0 .. MaxCalls) /\ Append(got.calls, got.current) \in Seq(0 .. MaxCalls)
    BY <1>1 DEF Picked
  <2>. QED BY <1>2, <2>1 DEF Picked
<1>4. CopilotBegins(c) = [got EXCEPT !.current = c, !.calls = cs]
  BY <1>1, <1>2 DEF CopilotBegins, Results
<1>5. ~got.mixed => cs = said.calls
  BY <1>2 DEF RequestInv, Collected, CopilotListens, Speaks, Ends
<1>. QED BY <1>1, <1>3, <1>4, <1>5, <1>6 DEF Results

\* Deltas and calls of OpenAI's clients.
LEMMA OpenAISays ==
  ASSUME RequestInv, OpenAIText \/ OpenAICall \/ CopilotCall \/ CopilotDelta \/ CopilotFinish
  PROVE  RequestInv'
<1>0. /\ client \in {"openai", "copilot", "copilot claude"} /\ mode = "stream" /\ pc = "reading"
      /\ ~said.stopped /\ UNCHANGED <<attempts, ended>> /\ Frame
      /\ client' = client /\ mode' = mode
  BY DEF OpenAIText, OpenAICall, CopilotCall, CopilotDelta, CopilotFinish, CopilotListens, SaysText, SaysCall,
         Speaks, Ends, Frame, OpenAI, Copilot, request
<1>1. CASE OpenAIText
  <2>0. got' = got
    BY <1>1 DEF OpenAIText
  <2>4. got' \in Results /\ got'.current <= MaxCalls
    BY <2>0, More
  <2>5. CASE SaysText /\ said' = WithText /\ Offer(Of("text", "reading"))
    <3>1. /\ WithText \in Answers /\ WithText.texts <= MaxTexts /\ WithText.any
          /\ WithText.texts = said.texts + 1 /\ WithText.calls = said.calls /\ ~WithText.stopped
      BY <1>0, <2>5, More
    <3>2. pc' = "offer" /\ event'.type = "text" /\ event'.then = "reading"
      BY <2>5, Offers
    <3>3. Collected'
      BY <1>0, <2>0, <2>5, <3>1 DEF RequestInv, Collected
    <3>. QED BY <1>0, <2>4, <2>5, <3>1, <3>2, <3>3, SaysStep DEF Says
  <2>6. CASE said' = [said EXCEPT !.any = TRUE] /\ UNCHANGED <<pc, event>>
    <3>1. /\ said' \in Answers /\ said'.texts = said.texts /\ said'.any /\ ~said'.stopped
          /\ said'.calls = said.calls /\ said'.texts <= MaxTexts
      BY <1>0, <2>6, More DEF Answers
    <3>2. Collected'
      BY <1>0, <2>0, <3>1 DEF RequestInv, Collected
    <3>. QED BY <1>0, <2>4, <2>6, <3>1, <3>2, SaysStep DEF Says
  <2>. QED BY <1>1, <2>5, <2>6 DEF OpenAIText
<1>2. CASE OpenAICall
  <2>0. SaysCall /\ said' = WithCall(NextCall) /\ pc' = pc /\ event' = event
    BY <1>2 DEF OpenAICall
  <2>1. NextCall \in 1 .. NextCall /\ NextCall \in 1 .. MaxCalls /\ NextCall # 0
    BY <2>0, NextFits DEF RequestInv
  <2>2. /\ WithCall(NextCall) \in Answers /\ WithCall(NextCall).texts = said.texts
        /\ WithCall(NextCall).any /\ ~WithCall(NextCall).stopped
        /\ WithCall(NextCall).calls = Append(said.calls, NextCall)
    BY <1>0, <2>0, <2>1, More
  <2>3. said.texts <= MaxTexts
    BY More
  <2>4. client # "copilot claude" /\ client # "gemini" /\ got' = got
    BY <1>2 DEF OpenAICall
  <2>5. Collected'
    BY <1>0, <2>4 DEF RequestInv, Collected
  <2>6. got' \in Results /\ got'.current <= MaxCalls
    BY <2>4, More
  <2>. QED BY <1>0, <2>0, <2>2, <2>3, <2>5, <2>6, SaysStep DEF Says
<1>4. CASE CopilotCall
  <2>0. CopilotListens /\ SaysCall /\ pc' = pc /\ event' = event /\ client = "copilot claude" /\ ~got.finished
    BY <1>4 DEF CopilotCall, CopilotListens
  <2>1. NextCall \in 1 .. MaxCalls
    BY <2>0, NextFits DEF RequestInv
  <2>2. PICK n \in NextCall .. MaxCalls :
          /\ said' = [said EXCEPT !.calls = @ \o [i \in 1 .. n - Len(@) |-> Len(said.calls) + i], !.any = TRUE]
          /\ got' = [CopilotBegins(NextCall) EXCEPT !.mixed = @ \/ n > NextCall]
    BY <1>4 DEF CopilotCall
  <2>3. PICK cs : cs = said.calls \o [i \in 1 .. n - Len(said.calls) |-> Len(said.calls) + i]
    OBVIOUS
  <2>4. cs \in Calls /\ (n = NextCall => cs = Append(said.calls, NextCall))
    BY <2>3, Longer
  <2>5. said' = [said EXCEPT !.calls = cs, !.any = TRUE]
    BY <2>2, <2>3, More DEF Answers
  <2>6. /\ said' \in Answers /\ said'.texts = said.texts /\ said'.any /\ ~said'.stopped
        /\ said'.calls = cs /\ said'.texts <= MaxTexts
    BY <1>0, <2>4, <2>5, More DEF Answers
  <2>7. n \in Nat /\ NextCall \in Nat /\ (~(n > NextCall) => n = NextCall)
    BY <2>1, Bounds
  <2>8. /\ got' \in Results /\ got'.current = NextCall /\ got'.calls = CopilotBegins(NextCall).calls
        /\ ~got'.finished /\ (~got'.mixed => ~got.mixed /\ n = NextCall)
    BY <2>0, <2>1, <2>2, <2>7, Begins DEF Results
  <2>9. Collected'
    BY <1>0, <2>0, <2>1, <2>4, <2>6, <2>8, Begins DEF Collected
  <2>10. got'.current <= MaxCalls
    BY <2>1, <2>8, Bounds
  <2>. QED BY <1>0, <2>0, <2>6, <2>8, <2>9, <2>10, SaysStep DEF Says
<1>5. CASE CopilotDelta
  <2>0. CopilotListens /\ pc' = pc /\ event' = event /\ client = "copilot claude" /\ ~got.finished
    BY <1>5 DEF CopilotDelta, CopilotListens
  <2>1. /\ got \in Results /\ said \in Answers /\ got.current <= MaxCalls /\ got.current \in Nat
        /\ said.texts <= MaxTexts
    BY More DEF Results
  <2>2. CASE got.current # 0 /\ got' = [got EXCEPT !.mixed = TRUE] /\ said' = said
    <3>1. said.any
      BY <2>2 DEF RequestInv, Collected
    <3>2. /\ got' \in Results /\ got'.current = got.current /\ got'.mixed /\ got'.finished = got.finished
      BY <2>1, <2>2 DEF Results
    <3>3. Collected'
      BY <1>0, <2>0, <2>2, <3>1, <3>2 DEF Collected
    <3>. QED BY <1>0, <2>0, <2>1, <2>2, <3>1, <3>2, <3>3, SaysStep DEF Says
  <2>3. CASE SaysCall /\ said' = WithCall(NextCall) /\ got' = [got EXCEPT !.mixed = TRUE]
    <3>0. NextCall \in 1 .. NextCall
      BY <2>3, NextFits DEF RequestInv
    <3>1. /\ said' \in Answers /\ said'.texts = said.texts /\ said'.any /\ ~said'.stopped
      BY <1>0, <2>3, <3>0, More
    <3>2. /\ got' \in Results /\ got'.current = got.current /\ got'.mixed /\ got'.finished = got.finished
      BY <2>1, <2>3 DEF Results
    <3>3. Collected'
      BY <1>0, <2>0, <3>1, <3>2 DEF Collected
    <3>. QED BY <1>0, <2>0, <2>1, <3>1, <3>2, <3>3, SaysStep DEF Says
  <2>4. CASE /\ \E c \in ToSet(said.calls) \ {got.current} : got' = [CopilotBegins(c) EXCEPT !.mixed = TRUE]
             /\ said' = said
    <3>1. PICK c \in ToSet(said.calls) : got' = [CopilotBegins(c) EXCEPT !.mixed = TRUE]
      BY <2>4
    <3>2. said.calls \in Seq(1 .. MaxCalls)
      BY <2>1 DEF Answers, Calls
    <3>3. c \in 1 .. MaxCalls /\ said.calls # <<>>
      BY <3>1, <3>2, ElementOf
    <3>4. said.any
      BY <3>3 DEF RequestInv, Waits
    <3>5. /\ got' \in Results /\ got'.current = c /\ got'.mixed /\ got'.finished = got.finished
      BY <2>0, <3>1, <3>3, Begins DEF Results
    <3>6. c <= MaxCalls
      BY <3>3, Bounds
    <3>7. Collected'
      BY <1>0, <2>0, <2>4, <3>4, <3>5 DEF Collected
    <3>. QED BY <1>0, <2>0, <2>1, <2>4, <3>4, <3>5, <3>6, <3>7, SaysStep DEF Says
  <2>. QED BY <1>5, <2>2, <2>3, <2>4 DEF CopilotDelta
<1>3. CASE CopilotFinish
  <2>0. /\ client = "copilot claude" /\ pc' = pc /\ event' = event
        /\ got' = [got EXCEPT !.finished = TRUE, !.calls = Append(@, got.current),
                              !.mixed = @ \/ got.finished \/ got.current = 0]
        /\ said' = [said EXCEPT !.any = TRUE]
    BY <1>3 DEF CopilotFinish
  <2>1. got \in Results /\ said \in Answers /\ got.calls \in Picked /\ got.current <= MaxCalls
        /\ got.current \in 0 .. MaxCalls /\ got.current \in Nat /\ said.texts <= MaxTexts
    BY More DEF Results, Answers, RequestInv, Typed, TypeOK
  <2>2. Append(got.calls, got.current) \in Picked
    BY <2>1 DEF Picked
  <2>3. /\ got' \in Results /\ got'.current = got.current /\ got'.finished
        /\ got'.calls = Append(got.calls, got.current)
        /\ ~got'.mixed => ~got.mixed /\ ~got.finished /\ got.current # 0
    BY <2>0, <2>1, <2>2 DEF Results
  <2>4. /\ said' \in Answers /\ said'.texts = said.texts /\ said'.any /\ ~said'.stopped
        /\ said'.calls = said.calls
    BY <1>0, <2>0, <2>1 DEF Answers
  <2>5. Collected'
    <3>1. ~got.mixed /\ ~got.finished /\ got.current # 0 => said.calls = Append(got.calls, got.current)
      BY <1>0, <2>0 DEF RequestInv, Collected
    <3>. QED BY <1>0, <2>0, <2>3, <2>4, <3>1 DEF Collected
  <2>. QED BY <1>0, <2>0, <2>1, <2>3, <2>4, <2>5, SaysStep DEF Says
<1>. QED BY <1>1, <1>2, <1>3, <1>4, <1>5

\* A response of Gemini's.
LEMMA GeminiSays ==
  ASSUME RequestInv, GeminiResponse
  PROVE  RequestInv'
<1>0. /\ client = "gemini" /\ mode = "stream" /\ pc = "reading"
      /\ ~said.stopped /\ UNCHANGED <<attempts, ended>> /\ Frame
      /\ client' = client /\ mode' = mode
  BY DEF GeminiResponse, SaysText, SaysCall, Speaks, Ends, Frame, request
<1>1. /\ said \in Answers /\ said.texts <= MaxTexts /\ said.calls \in Calls
      /\ got \in Results /\ got.current <= MaxCalls /\ got.calls \in Picked
  BY More DEF Answers, Results
<1>2. ToSet(got.calls) = ToSet(said.calls) /\ ~got.finished /\ ~got.mixed /\ got.current = 0
  BY <1>0 DEF RequestInv, Collected
<1>3. CASE SaysText /\ said' = WithText /\ Offer(Of("text", "reading")) /\ UNCHANGED got
  <2>1. /\ WithText \in Answers /\ WithText.texts <= MaxTexts /\ WithText.any
        /\ WithText.texts = said.texts + 1 /\ WithText.calls = said.calls /\ ~WithText.stopped
    BY <1>0, <1>3, More
  <2>2. pc' = "offer" /\ event'.type = "text" /\ event'.then = "reading"
    BY <1>3, Offers
  <2>3. Collected'
    BY <1>0, <1>2, <1>3, <2>1 DEF Collected
  <2>. QED BY <1>0, <1>1, <1>3, <2>1, <2>2, <2>3, SaysStep DEF Says
<1>4. CASE /\ SaysCall
           /\ \E c \in 1 .. NextCall :
                /\ said' = WithCall(c)
                /\ got' = [got EXCEPT !.calls = IF Contains(@, c) THEN @ ELSE Append(@, c)]
           /\ UNCHANGED <<pc, event>>
  <2>1. PICK c \in 1 .. NextCall :
          /\ said' = WithCall(c)
          /\ got' = [got EXCEPT !.calls = IF Contains(@, c) THEN @ ELSE Append(@, c)]
    BY <1>4
  <2>2. /\ WithCall(c) \in Answers /\ WithCall(c).texts = said.texts
        /\ WithCall(c).any /\ ~WithCall(c).stopped
        /\ ToSet(WithCall(c).calls) = ToSet(said.calls) \cup {c}
    BY <1>0, <1>4, More
  <2>3. PICK cs : cs = IF Contains(got.calls, c) THEN got.calls ELSE Append(got.calls, c)
    OBVIOUS
  <2>4. cs \in Picked /\ ToSet(cs) = ToSet(got.calls) \cup {c}
    <3>1. c \in 0 .. MaxCalls
      BY <1>4, NextFits, Bounds DEF RequestInv
    <3>2. /\ Append(got.calls, c) \in Picked /\ ToSet(Append(got.calls, c)) = ToSet(got.calls) \cup {c}
          /\ Contains(got.calls, c) <=> c \in ToSet(got.calls)
      BY <1>1, <3>1, SetOfAppend DEF Picked
    <3>. QED BY <1>1, <2>3, <3>2
  <2>5. got' = [got EXCEPT !.calls = cs]
    BY <1>1, <2>1, <2>3 DEF Results
  <2>6. got' \in Results /\ got'.current = got.current /\ got'.calls = cs /\ got'.finished = got.finished
        /\ got'.mixed = got.mixed
    BY <1>1, <2>4, <2>5 DEF Results
  <2>7. Collected'
    BY <1>0, <1>2, <2>1, <2>2, <2>4, <2>6 DEF Collected
  <2>. QED BY <1>0, <1>1, <1>4, <2>1, <2>2, <2>6, <2>7, SaysStep DEF Says
<1>5. CASE Speaks /\ said' = [said EXCEPT !.any = TRUE] /\ UNCHANGED <<got, pc, event>>
  <2>1. /\ said' \in Answers /\ said'.texts = said.texts /\ said'.any /\ said'.stopped = said.stopped
        /\ said'.calls = said.calls
    BY <1>1, <1>5 DEF Answers
  <2>2. Collected'
    BY <1>0, <1>2, <1>5, <2>1 DEF Collected
  <2>. QED BY <1>0, <1>1, <1>5, <2>1, <2>2, SaysStep DEF Says
<1>. QED BY <1>3, <1>4, <1>5 DEF GeminiResponse

---------------------------------------------------------------------------
(* Send *)

\* A send that goes on waiting or returns.
LEMMA Sending ==
  ASSUME RequestInv, SendAnswered \/ SendEmpty \/ SendFails \/ SendCancelled
  PROVE  RequestInv'
<1>0. /\ mode = "send" /\ mode' = "send" /\ client' = client /\ cancelled' = cancelled /\ token' = token
      /\ attempts' = attempts /\ got' = got /\ event' = event
      /\ pc \in {"reading", "waiting"}
  BY DEF SendAnswered, SendEmpty, SendFails, SendCancelled, request
<1>1. agent \notin {"completed", "silent", "panicked"} /\ ~(agent = "error" /\ msg.complete)
      /\ (agent = "canceled" => cancelled) /\ ~msg.complete
  BY <1>0 DEF RequestInv, Outcome, EndsAsItWas, Sends
<1>2. ASSUME pc' \in {"waiting", "returned"},
             agent' \in {"creating", "receiving", "handled"} \cup Outcomes,
             ended' \in {"", "eof", "empty", "refused", "limit", "unauthorized", "canceled"},
             said' \in Answers, said'.texts <= MaxTexts, msg' \in Messages, msg'.text <= MaxTexts
      PROVE  Typed' /\ Announced' /\ Collected' /\ TextKept' /\ Finished'
  <2>1. got' \in Results /\ got'.current <= MaxCalls
    BY <1>0, More
  <2>2. msg'.text \in 0 .. MaxTexts /\ msg'.calls \in Seq(0 .. MaxCalls) /\ msg'.complete \in BOOLEAN
    <3>1. msg'.text \in Nat /\ msg'.calls \in Picked /\ msg'.complete \in BOOLEAN
      BY <1>2 DEF Messages
    <3>. QED BY <1>2, <3>1, Bounds, Within DEF Picked
  <2>3. TypeOK'
    BY <1>0, <1>2, <2>1, <2>2, AnswersFit DEF RequestInv, Typed, TypeOK
  <2>4. Typed'
    BY <1>0, <1>2, <2>1, <2>3 DEF RequestInv, Typed
  <2>. QED BY <1>0, <1>2, <2>4 DEF RequestInv, Announced, Collected, TextKept, Finished
<1>3. /\ said \in Answers /\ said.texts <= MaxTexts /\ msg \in Messages /\ msg.text <= MaxTexts
  <2>1. msg \in Messages /\ msg.text \in 0 .. MaxTexts
    BY DEF RequestInv, Typed, TypeOK
  <2>2. msg.text <= MaxTexts
    BY <2>1, Bounds
  <2>. QED BY <2>1, <2>2, More
<1>4. CASE SendAnswered
  <2>1. PICK texts \in 0 .. MaxTexts, n \in 0 .. MaxCalls : Answered(texts, n)
    BY <1>4 DEF SendAnswered
  <2>2. PICK calls : calls = [i \in 1 .. n |-> i]
    OBVIOUS
  <2>3. calls \in Calls /\ calls \in Picked
    <3>1. calls \in Calls
      BY <2>1, <2>2, Bounds DEF Calls
    <3>. QED BY <3>1, CallsPicked
  <2>4. Kept(texts) \in Nat /\ Kept(texts) <= MaxTexts /\ (client # "gemini" => Kept(texts) = texts)
    <3>1. texts \in Nat /\ texts <= MaxTexts /\ (texts > 0 => 1 <= MaxTexts)
      BY <2>1, Bounds
    <3>. QED BY <3>1 DEF Kept
  <2>5. /\ msg' = [text |-> Kept(texts), calls |-> calls, complete |-> TRUE]
        /\ said' = [said EXCEPT !.texts = texts, !.calls = calls, !.any = TRUE]
        /\ ended' = "eof" /\ pc' = "returned" /\ agent' = "completed"
    BY <2>1, <2>2 DEF Answered, Return
  <2>6. msg' \in Messages /\ msg'.text = Kept(texts) /\ msg'.calls = calls /\ msg'.complete
    BY <2>3, <2>4, <2>5 DEF Messages
  <2>7. /\ said' \in Answers /\ said'.texts = texts /\ said'.calls = calls /\ said'.any
    <3>1. texts \in Nat
      BY <2>1, Bounds
    <3>. QED BY <1>3, <2>3, <2>5, <3>1 DEF Answers
  <2>8. Waits' /\ Sends'
    BY <1>0, <2>5, <2>7 DEF Waits, Sends, Waiting, Outcomes
  <2>9. Outcome'
    <3>1. AnswerComplete'
      BY <1>0, <2>4, <2>6, <2>7 DEF AnswerComplete
    <3>2. EndsAsItWas'
      BY <2>5 DEF EndsAsItWas
    <3>. QED BY <2>5, <3>1, <3>2 DEF Outcome
  <2>10. texts <= MaxTexts
    BY <2>1, Bounds
  <2>. QED BY <1>2, <2>4, <2>5, <2>6, <2>7, <2>8, <2>9, <2>10 DEF RequestInv, Outcomes
<1>5. CASE SendEmpty \/ SendFails \/ SendCancelled
  <2>1. said' = said /\ msg' = msg
    BY <1>5 DEF SendEmpty, SendFails, SendCancelled, server
  <2>2. CASE SendEmpty
    <3>1. pc' = "returned" /\ agent' = "panicked" /\ ended' = "empty" /\ client \in OpenAI
      BY <2>2 DEF SendEmpty, Return
    <3>2. Waits'
      BY <1>0, <2>1, <3>1 DEF RequestInv, Waits
    <3>0. Sends'
      BY <1>0, <1>1, <2>1, <3>1 DEF Sends, Waiting, Outcomes
    <3>3. Outcome'
      BY <1>0, <3>1 DEF Outcome, AnswerComplete, EndsAsItWas
    <3>. QED BY <1>2, <1>3, <2>1, <3>0, <3>1, <3>2, <3>3 DEF RequestInv, Outcomes
  <2>3. CASE SendFails
    <3>1. PICK status \in Failures : /\ ended' = status
                                     /\ \E v \in Verdicts(status) :
                                          CASE v = "retry"    -> pc' = "waiting" /\ UNCHANGED agent
                                            [] v = "canceled" -> Return("canceled")
                                            [] OTHER          -> Return("error")
      BY <2>3 DEF SendFails, Fails
    <3>2. PICK v \in Verdicts(status) : CASE v = "retry"    -> pc' = "waiting" /\ UNCHANGED agent
                                          [] v = "canceled" -> Return("canceled")
                                          [] OTHER          -> Return("error")
      BY <3>1
    <3>3. /\ status \in {"refused", "canceled", "limit", "unauthorized"}
          /\ status = "canceled" => cancelled
      BY Reasons DEF RequestInv
    <3>4. /\ v = "retry" => status = "limit" \/ (status = "unauthorized" /\ client \in Copilot)
          /\ v = "canceled" => status = "canceled"
      <4>1. client \in {"anthropic", "openai", "gemini"} \cup Copilot
        BY ProviderAssumption DEF RequestInv, Typed, TypeOK, AllClients, Copilot
      <4>2. CASE client = "anthropic"
        <5>1. v \in AnthropicVerdicts(status)
          BY <3>2, <4>2 DEF Verdicts, Copilot
        <5>. QED BY <3>3, <5>1 DEF AnthropicVerdicts
      <4>3. CASE client = "openai"
        <5>1. v \in OpenAIVerdicts(status)
          BY <3>2, <4>3 DEF Verdicts, Copilot
        <5>. QED BY <3>3, <5>1 DEF OpenAIVerdicts
      <4>4. CASE client \in Copilot
        <5>1. v \in CopilotVerdicts(status)
          BY <3>2, <4>4 DEF Verdicts, Copilot
        <5>. QED BY <3>3, <4>4, <5>1 DEF CopilotVerdicts, OpenAIVerdicts
      <4>5. CASE client = "gemini"
        <5>1. v \in GeminiVerdicts(status)
          BY <3>2, <4>5 DEF Verdicts, Copilot
        <5>. QED BY <3>3, <5>1 DEF GeminiVerdicts
      <4>. QED BY <4>1, <4>2, <4>3, <4>4, <4>5
    <3>5. \/ pc' = "waiting" /\ agent' = agent /\ v = "retry"
          \/ pc' = "returned" /\ agent' = "canceled" /\ v = "canceled"
          \/ pc' = "returned" /\ agent' = "error"
      BY <3>2 DEF Return
    <3>6. Waits'
      BY <1>0, <2>1, <3>1, <3>4, <3>5 DEF RequestInv, Waits
    <3>7. Sends'
      BY <1>0, <1>1, <2>1, <3>5 DEF RequestInv, Sends, Waiting, Outcomes
    <3>8. Outcome'
      BY <1>0, <1>1, <2>1, <3>3, <3>4, <3>5 DEF Outcome, AnswerComplete, EndsAsItWas
    <3>9. agent' \in {"creating", "receiving", "handled"} \cup Outcomes
      BY <3>5 DEF RequestInv, Typed, TypeOK, Outcomes
    <3>. QED BY <1>2, <1>3, <2>1, <3>1, <3>3, <3>5, <3>6, <3>7, <3>8, <3>9 DEF RequestInv
  <2>4. CASE SendCancelled
    <3>1. pc' = "returned" /\ agent' = "canceled" /\ ended' = ended /\ cancelled
      BY <2>4 DEF SendCancelled, Return, server
    <3>2. Waits'
      BY <1>0, <2>1, <3>1 DEF RequestInv, Waits
    <3>0. Sends'
      BY <1>0, <1>1, <2>1, <3>1 DEF Sends, Waiting, Outcomes
    <3>3. Outcome'
      BY <1>0, <3>1 DEF Outcome, AnswerComplete, EndsAsItWas
    <3>4. ended' \in {"", "eof", "empty", "refused", "limit", "unauthorized", "canceled"}
      BY <3>1 DEF RequestInv, Typed, TypeOK
    <3>. QED BY <1>2, <1>3, <2>1, <3>0, <3>1, <3>2, <3>3, <3>4 DEF RequestInv, Outcomes
  <2>. QED BY <1>5, <2>2, <2>3, <2>4
<1>. QED BY <1>4, <1>5

---------------------------------------------------------------------------
(* The reader *)

\* Once the agent's wait is over in a stream, nothing more is claimed of what is read.
LEMMA ReaderDone ==
  ASSUME RequestInv, mode = "stream", ~Waiting', UNCHANGED <<request, token, cancelled, attempts, server, got>>,
         agent' \in Outcomes, msg' \in Messages, msg'.text <= MaxTexts,
         \/ pc' = pc /\ event' = event
         \/ pc = "offer" /\ pc' = event.then /\ event' = NoEvent,
         Outcome'
  PROVE  RequestInv'
<1>0. /\ client' = client /\ mode' = mode /\ token' = token /\ cancelled' = cancelled
      /\ attempts' = attempts /\ said' = said /\ ended' = ended /\ got' = got
  BY DEF request, server
<1>1. Typed'
  <2>1. msg'.text \in 0 .. MaxTexts /\ msg'.calls \in Seq(0 .. MaxCalls) /\ msg'.complete \in BOOLEAN
    <3>1. msg'.text \in Nat /\ msg'.calls \in Picked /\ msg'.complete \in BOOLEAN
      BY DEF Messages
    <3>. QED BY <3>1, Bounds, Within DEF Picked
  <2>2. /\ pc' \in {"call", "reading", "offer", "final", "waiting", "returned", "crashed"}
        /\ event'.type \in {"none", "other", "text", "call", "complete", "error"}
        /\ pc' = "offer" => event' = event /\ pc = "offer"
    <3>1. /\ pc \in {"call", "reading", "offer", "final", "waiting", "returned", "crashed"}
          /\ event.type \in {"none", "other", "text", "call", "complete", "error"}
          /\ pc = "offer" => event.then \in {"reading", "final", "returned"}
      BY DEF RequestInv, Typed, TypeOK
    <3>2. NoEvent.type = "none"
      BY DEF NoEvent
    <3>. QED BY <3>1, <3>2
  <2>3. TypeOK'
    BY <1>0, <2>1, <2>2 DEF RequestInv, Typed, TypeOK
  <2>. QED BY <1>0, <2>2, <2>3 DEF RequestInv, Typed
<1>2. CASE pc' = pc /\ event' = event
  <2>1. Waits' /\ Collected'
    BY <1>0, <1>2 DEF RequestInv, Waits, Collected
  <2>2. Announced'
    BY <1>0, <1>2 DEF RequestInv, Announced, CallsKept
  <2>. QED BY <1>0, <1>1, <2>1, <2>2 DEF RequestInv, TextKept, Finished, Sends
<1>3. CASE pc = "offer" /\ pc' = event.then
  <2>1. pc' \in {"reading", "final", "returned"} /\ (pc' = "final" => client = "gemini")
    BY <1>3 DEF RequestInv, Typed, Announced
  <2>2. Waits' /\ Announced' /\ Collected'
    BY <1>0, <2>1 DEF RequestInv, Waits, Announced, Collected
  <2>. QED BY <1>0, <1>1, <2>2 DEF RequestInv, TextKept, Finished, Sends
<1>. QED BY <1>2, <1>3

\* The message as it is.
LEMMA MessageFits ==
  ASSUME RequestInv
  PROVE  /\ msg \in Messages /\ msg.text <= MaxTexts /\ msg.text \in Nat /\ msg.calls \in Picked
<1>1. msg \in Messages /\ msg.text \in 0 .. MaxTexts
  BY DEF RequestInv, Typed, TypeOK
<1>2. msg.text <= MaxTexts
  BY <1>1, Bounds
<1>. QED BY <1>1, <1>2 DEF Messages

\* The message is created or not, and the agent goes on to the next event.
LEMMA ReaderWaits ==
  ASSUME RequestInv, CreateMessage \/ NextEvent
  PROVE  RequestInv'
<1>0. /\ UNCHANGED <<request, token, cancelled, pc, attempts, server, got, event, msg>>
      /\ client' = client /\ mode' = mode /\ said' = said /\ ended' = ended
      /\ agent \in {"creating", "handled"}
  BY DEF CreateMessage, NextEvent, request, server
<1>1. Waiting
  BY <1>0 DEF Waiting, Outcomes
<1>2. mode = "stream"
  BY <1>0, <1>1 DEF RequestInv, Sends, Typed, TypeOK
<1>3. CASE agent' = "receiving"
  <2>1. Waiting' /\ agent' \notin Outcomes
    BY <1>3 DEF Waiting, Outcomes
  <2>2. Typed' /\ Waits'
    <3>1. TypeOK /\ agent' \in {"creating", "receiving", "handled"} \cup Outcomes
      BY <1>3 DEF RequestInv, Typed
    <3>2. TypeOK'
      <4>1. ControlTyped'
        BY <1>0, <3>1, TypeParts DEF ControlTyped, request, server
      <4>2. AnswerTyped' /\ MessageTyped' /\ cancelled' \in BOOLEAN
        BY <1>0, <3>1, TypeParts DEF AnswerTyped, MessageTyped, server
      <4>. QED BY <4>1, <4>2, TypeParts
    <3>. QED BY <1>0, <3>2 DEF RequestInv, Typed, Waits, server
  <2>5. Collected' /\ TextKept'
    BY <1>0, <1>1, <1>3 DEF RequestInv, Collected, TextKept
  <2>6. Announced'
    BY <1>0 DEF RequestInv, Announced, CallsKept
  <2>3. Finished'
    BY <1>0, <1>1, <1>3 DEF RequestInv, Finished, CallsKept
  <2>4. Sends' /\ Outcome'
    BY <1>0, <1>2, <1>3 DEF RequestInv, Sends, Outcome, AnswerComplete, EndsAsItWas
  <2>. QED BY <2>2, <2>3, <2>4, <2>5, <2>6 DEF RequestInv
<1>4. CASE agent' \in {"canceled", "failed"}
  <2>1. agent' = "canceled" => cancelled
    BY <1>0, <1>4 DEF CreateMessage, NextEvent
  <2>3. Outcome'
    BY <1>0, <1>4, <2>1 DEF RequestInv, Outcome, AnswerComplete, EndsAsItWas
  <2>4. agent' \in Outcomes /\ ~Waiting'
    BY <1>4 DEF Outcomes, Waiting
  <2>. QED BY <1>0, <1>2, <2>3, <2>4, MessageFits, ReaderDone
<1>. QED BY <1>3, <1>4 DEF CreateMessage, NextEvent

\* The channel is closed.
LEMMA Closing ==
  ASSUME RequestInv, Closed
  PROVE  RequestInv'
<1>0. /\ UNCHANGED <<request, token, cancelled, pc, attempts, server, got, event, msg>>
      /\ client' = client /\ mode' = mode /\ said' = said /\ ended' = ended
      /\ agent = "receiving" /\ pc = "returned" /\ mode = "stream"
      /\ agent' = IF msg.complete THEN "completed" ELSE "silent"
  BY DEF Closed, request, server
<1>1. Waiting
  BY <1>0 DEF Waiting, Outcomes
<1>2. CASE msg.complete
  <2>1. agent' = "completed" /\ msg.text = said.texts /\ CallsKept(msg.calls)
    BY <1>0, <1>1, <1>2 DEF RequestInv, TextKept, Finished
  <2>2. AnswerComplete' /\ EndsAsItWas'
    BY <1>0, <2>1 DEF AnswerComplete, EndsAsItWas, CallsKept
  <2>3. Outcome'
    BY <1>0, <2>2 DEF Outcome
  <2>. QED BY <1>0, <2>1, <2>3, MessageFits, ReaderDone DEF Outcomes, Waiting
<1>3. CASE ~msg.complete
  <2>1. /\ agent' = "silent"
        /\ \/ client = "anthropic" /\ ended = "eof" /\ ~said.stopped
           \/ client \in OpenAI /\ cancelled /\ ended \in {"limit", "unauthorized"}
    BY <1>0, <1>1, <1>3 DEF RequestInv, Finished
  <2>2. AnswerComplete' /\ EndsAsItWas'
    BY <1>0, <2>1 DEF AnswerComplete, EndsAsItWas
  <2>3. Outcome'
    BY <1>0, <2>2 DEF Outcome
  <2>. QED BY <1>0, <2>1, <2>3, MessageFits, ReaderDone DEF Outcomes, Waiting
<1>. QED BY <1>2, <1>3

\* An event is handled, and the database may fail then.
LEMMA Grown ==
  ASSUME RequestInv, Receive, agent' \in {"handled", "failed"}
  PROVE  /\ event.type \in {"other", "text", "call", "complete"} /\ ~msg.complete
         /\ msg' = CASE event.type = "text"     -> [msg EXCEPT !.text = @ + 1]
                     [] event.type = "call"     -> [msg EXCEPT !.calls = Append(@, event.call)]
                     [] event.type = "complete" -> [msg EXCEPT !.calls = event.calls, !.complete = TRUE]
                     [] event.type = "other"    -> msg
         /\ msg' \in Messages /\ msg'.text = said.texts
         /\ event.type = "complete" => msg'.complete /\ msg'.calls = event.calls
         /\ event.type # "complete" => ~msg'.complete
<1>0. agent = "receiving" /\ pc = "offer"
  BY DEF Receive
<1>1. Waiting /\ mode = "stream"
  BY <1>0 DEF RequestInv, Announced, Waiting, Outcomes
<1>2. /\ event.type # "error"
      /\ msg' = CASE event.type = "text"     -> [msg EXCEPT !.text = @ + 1]
                  [] event.type = "call"     -> [msg EXCEPT !.calls = Append(@, event.call)]
                  [] event.type = "complete" -> [msg EXCEPT !.calls = event.calls, !.complete = TRUE]
                  [] event.type = "other"    -> msg
  <2>1. Handle
    BY DEF Receive
  <2>2. event.type # "error"
    BY <2>1 DEF Handle
  <2>. QED BY <2>1, <2>2 DEF Handle
<1>3. ~msg.complete
  BY <1>0, <1>1, <1>2 DEF RequestInv, Finished
<1>5. event.type \in {"other", "text", "call", "complete"}
  <2>1. event.type # "none"
    BY <1>0 DEF RequestInv, Typed
  <2>. QED BY <1>2, <2>1 DEF RequestInv, Typed, TypeOK
<1>6. /\ msg' \in Messages /\ msg'.text = said.texts
      /\ event.type = "complete" => msg'.complete /\ msg'.calls = event.calls
      /\ event.type # "complete" => ~msg'.complete
  <2>1. event.type # "text" => said.texts = msg.text
    BY <1>0, <1>1 DEF RequestInv, TextKept
  <2>2. event.type = "text" => said.texts = msg.text + 1
    BY <1>0, <1>1 DEF RequestInv, TextKept
  <2>3. CASE event.type = "text"
    <3>1. msg' = [msg EXCEPT !.text = @ + 1]
      BY <1>2, <2>3
    <3>. QED BY <1>3, <2>2, <2>3, <3>1, MessageFits DEF Messages
  <2>4. CASE event.type = "call"
    <3>1. msg' = [msg EXCEPT !.calls = Append(@, event.call)] /\ event.call \in 0 .. MaxCalls
      BY <1>0, <1>2, <2>4, Bounds DEF RequestInv, Typed
    <3>2. Append(msg.calls, event.call) \in Picked
      BY <3>1, MessageFits, SetOfAppend DEF Picked
    <3>. QED BY <1>3, <2>1, <2>4, <3>1, <3>2, MessageFits DEF Messages
  <2>5. CASE event.type = "complete"
    <3>1. msg' = [msg EXCEPT !.calls = event.calls, !.complete = TRUE] /\ event.calls \in Picked
      BY <1>0, <1>2, <2>5 DEF RequestInv, Typed
    <3>. QED BY <2>1, <2>5, <3>1, MessageFits DEF Messages
  <2>6. CASE event.type = "other"
    <3>1. msg' = msg
      BY <1>2, <2>6
    <3>. QED BY <1>3, <2>1, <2>6, <3>1, MessageFits
  <2>. QED BY <1>5, <2>3, <2>4, <2>5, <2>6
<1>. QED BY <1>2, <1>3, <1>5, <1>6

\* An event is taken while the context is cancelled, or tells of an error, or the
\* database fails: the wait is over.
LEMMA ReceiveLast ==
  ASSUME RequestInv, Receive, agent' # "handled"
  PROVE  RequestInv'
<1>0. /\ UNCHANGED <<request, token, cancelled, attempts, server, got>>
      /\ client' = client /\ mode' = mode /\ said' = said /\ ended' = ended
      /\ cancelled' = cancelled /\ token' = token /\ attempts' = attempts
      /\ agent = "receiving" /\ pc = "offer" /\ pc' = event.then /\ event' = NoEvent
  BY DEF Receive, request, server
<1>1. Waiting /\ mode = "stream"
  BY <1>0 DEF RequestInv, Announced, Waiting, Outcomes
<1>2. \/ msg' = msg /\ agent' \in {"canceled", "panicked", "error"}
      \/ agent' = "failed"
  <2>1. CASE cancelled
    BY <2>1 DEF Receive
  <2>2. CASE ~cancelled /\ event.type = "error"
    BY <2>2 DEF Receive, Handle
  <2>3. CASE ~cancelled /\ event.type # "error"
    BY <2>3 DEF Receive, Handle
  <2>. QED BY <2>1, <2>2, <2>3
<1>10. msg' \in Messages /\ msg'.text <= MaxTexts
  <2>1. said.texts <= MaxTexts
    BY More
  <2>. QED BY <1>2, <2>1, Grown, MessageFits
<1>3. pc' # "crashed"
  BY <1>0 DEF RequestInv, Typed
<1>4. event.type = "error" => /\ event.then = "returned"
                              /\ event.error = "canceled" => cancelled
                              /\ event.error = "nil" => client \in Copilot /\ token = "expired" /\ attempts > MaxRetries
  BY <1>0 DEF RequestInv, Announced
<1>5. agent' = "canceled" => cancelled
  BY <1>4 DEF Receive, Handle
<1>6. agent' = "panicked" => event.type = "error" /\ event.error = "nil"
  BY DEF Receive, Handle
<1>7. agent' = "error" /\ msg.complete => /\ event.type = "error" /\ client = "anthropic" /\ ended = "refused"
  <2>1. msg.complete => /\ client = "anthropic" /\ event.type = "error" /\ event.error = ended
                        /\ ended \in {"refused", "canceled"}
    BY <1>0, <1>1 DEF RequestInv, Finished
  <2>2. agent' = "error" => event.type # "error" \/ event.error # "canceled"
    BY DEF Receive, Handle
  <2>. QED BY <2>1, <2>2
<1>8. Outcome'
  BY <1>0, <1>2, <1>3, <1>4, <1>5, <1>6, <1>7 DEF Outcome, AnswerComplete, EndsAsItWas
<1>9. agent' \in Outcomes /\ ~Waiting'
  BY <1>2 DEF Outcomes, Waiting
<1>. QED BY <1>0, <1>1, <1>8, <1>9, <1>10, ReaderDone

\* An event is handled.
LEMMA ReceiveNext ==
  ASSUME RequestInv, Receive, agent' = "handled"
  PROVE  RequestInv'
<1>0. /\ client' = client /\ mode' = mode /\ said' = said /\ ended' = ended /\ got' = got
      /\ cancelled' = cancelled /\ token' = token /\ attempts' = attempts
      /\ agent = "receiving" /\ pc = "offer" /\ pc' = event.then /\ event' = NoEvent
  BY DEF Receive, request, server
<1>1. Waiting /\ mode = "stream" /\ Waiting'
  BY <1>0 DEF RequestInv, Announced, Waiting, Outcomes
<1>2. event.type \in {"other", "text", "call", "complete"} /\ ~msg.complete
  BY Grown
<1>3. ~msg.complete
  BY <1>2
<1>4. pc' \in {"reading", "final", "returned"} /\ (pc' = "final" => client = "gemini")
      /\ (pc' = "returned" => event.type = "complete")
  BY <1>0, <1>2 DEF RequestInv, Typed, Announced
<1>6. /\ msg' \in Messages /\ msg'.text = said.texts
      /\ event.type = "complete" => msg'.complete /\ msg'.calls = event.calls
      /\ event.type # "complete" => ~msg'.complete
  BY Grown
<1>7. Typed'
  <2>1. msg'.text \in 0 .. MaxTexts /\ msg'.calls \in Seq(0 .. MaxCalls) /\ msg'.complete \in BOOLEAN
    <3>1. said.texts \in 0 .. MaxTexts
      BY DEF RequestInv, Typed, TypeOK
    <3>. QED BY <1>6, <3>1 DEF Messages, Picked
  <2>2. event'.type = "none"
    BY <1>0 DEF NoEvent
  <2>3. TypeOK'
    <3>1. ControlTyped /\ AnswerTyped /\ cancelled \in BOOLEAN
      BY TypeParts DEF RequestInv, Typed
    <3>2. ControlTyped'
      BY <1>0, <1>4, <2>2, <3>1 DEF ControlTyped, Receive
    <3>3. AnswerTyped' /\ cancelled' \in BOOLEAN
      BY <1>0, <3>1 DEF AnswerTyped, Receive
    <3>4. MessageTyped'
      BY <2>1 DEF MessageTyped
    <3>. QED BY <3>2, <3>3, <3>4, TypeParts
  <2>. QED BY <1>0, <1>4, <1>6, <2>3 DEF RequestInv, Typed
<1>8. Waits' /\ Announced' /\ Collected'
  BY <1>0, <1>1, <1>4 DEF RequestInv, Waits, Announced, Collected
<1>9. TextKept'
  BY <1>0, <1>4, <1>6 DEF TextKept
<1>10. Finished'
  <2>1. event.type = "complete" => /\ CallsKept(event.calls)
                                   /\ event.then = "returned" \/ (client = "anthropic" /\ said.stopped)
    BY <1>0 DEF RequestInv, Announced
  <2>2. said.stopped => client = "anthropic" /\ event.type = "complete"
    BY <1>0, <1>1, <1>3 DEF RequestInv, Finished
  <2>3. event.type = "complete" => CallsKept(msg.calls)'
    BY <1>0, <1>6, <2>1 DEF CallsKept
  <2>4. event.type = "complete" => pc' \in {"reading", "returned"}
    BY <1>0, <1>4 DEF RequestInv, Announced
  <2>. QED BY <1>0, <1>4, <1>6, <2>1, <2>2, <2>3, <2>4 DEF Finished
<1>11. Sends' /\ Outcome'
  BY <1>0, <1>1, <1>4 DEF Sends, Outcome, AnswerComplete, EndsAsItWas
<1>. QED BY <1>7, <1>8, <1>9, <1>10, <1>11 DEF RequestInv

---------------------------------------------------------------------------
(* Every step *)

\* Somebody cancels, or Copilot's token expires.
LEMMA Around ==
  ASSUME RequestInv, Cancel \/ TokenExpires
  PROVE  RequestInv'
<1>0. /\ UNCHANGED <<request, pc, attempts, server, got, event, agent, msg>>
      /\ cancelled \in BOOLEAN /\ cancelled' \in BOOLEAN /\ (cancelled => cancelled')
      /\ token' \in {"good", "expired"} /\ (token = "expired" => token' = "expired")
      /\ client' = client /\ mode' = mode /\ said' = said /\ ended' = ended
  BY DEF Cancel, TokenExpires, RequestInv, Typed, TypeOK, request, server
<1>1. Typed'
  <2>1. TypeOK'
    <3>1. ControlTyped /\ AnswerTyped /\ MessageTyped
      BY TypeParts DEF RequestInv, Typed
    <3>2. ControlTyped'
      BY <1>0, <3>1 DEF ControlTyped, request
    <3>3. AnswerTyped' /\ MessageTyped'
      BY <1>0, <3>1 DEF AnswerTyped, MessageTyped
    <3>. QED BY <1>0, <3>2, <3>3, TypeParts
  <2>. QED BY <1>0, <2>1 DEF RequestInv, Typed, request, server
<1>2. Waits' /\ Collected' /\ TextKept' /\ Sends'
  <2>1. Waits'
    BY <1>0 DEF RequestInv, Waits
  <2>2. Collected'
    BY <1>0 DEF RequestInv, Collected
  <2>3. TextKept' /\ Sends'
    BY <1>0 DEF RequestInv, TextKept, Waiting, Sends
  <2>. QED BY <2>1, <2>2, <2>3
<1>3. Announced'
  BY <1>0 DEF RequestInv, Announced, CallsKept
<1>4. Finished'
  BY <1>0 DEF RequestInv, Finished, Waiting, CallsKept
<1>5. Outcome'
  BY <1>0 DEF RequestInv, Outcome, AnswerComplete, EndsAsItWas
<1>. QED BY <1>1, <1>2, <1>3, <1>4, <1>5 DEF RequestInv

\* The invariant is kept.
LEMMA NextRequest == RequestInv /\ [Next]_vars => RequestInv'
<1>1. RequestInv /\ UNCHANGED vars => RequestInv'
  <2> SUFFICES ASSUME RequestInv, UNCHANGED vars PROVE RequestInv'
    OBVIOUS
  <2>1. UNCHANGED <<client, mode, token, cancelled, pc, attempts, said, ended, got, event, agent, msg>>
    BY DEF vars, request, server
  <2>2. TypeOK'
    <3>1. ControlTyped /\ AnswerTyped /\ MessageTyped /\ cancelled \in BOOLEAN
      BY TypeParts DEF RequestInv, Typed
    <3>2. client' = client /\ mode' = mode /\ token' = token /\ pc' = pc
      BY <2>1
    <3>3. attempts' = attempts /\ ended' = ended /\ event' = event /\ agent' = agent
      BY <2>1
    <3>4. ControlTyped'
      <4>1. /\ client' \in Clients /\ mode' \in {"stream", "send"} /\ token' \in {"good", "expired"}
            /\ pc' \in {"call", "reading", "offer", "final", "waiting", "returned", "crashed"}
        BY <3>1, <3>2 DEF ControlTyped
      <4>2. attempts' \in 0 .. MaxRetries + 1 /\ event'.type = event.type
        BY <3>1, <3>3 DEF ControlTyped
      <4>3. /\ ended' \in {"", "eof", "empty", "refused", "limit", "unauthorized", "canceled"}
            /\ agent' \in {"creating", "receiving", "handled"} \cup Outcomes
        BY <3>1, <3>3 DEF ControlTyped
      <4>. QED BY <3>1, <4>1, <4>2, <4>3 DEF ControlTyped
    <3>5. AnswerTyped' /\ MessageTyped' /\ cancelled' \in BOOLEAN
      BY <2>1, <3>1 DEF AnswerTyped, MessageTyped
    <3>. QED BY <3>4, <3>5, TypeParts
  <2>3. Typed' /\ Waits' /\ Collected'
    <3>1. Typed'
      <4>1. Typed
        BY DEF RequestInv
      <4>2. said' \in Answers /\ got' \in Results /\ msg' \in Messages
        BY <2>1, <4>1 DEF Typed
      <4>3. pc' = pc /\ event' = event
        BY <2>1
      <4>. QED BY <2>2, <4>1, <4>2, <4>3 DEF Typed
    <3>2. Waits'
      BY <2>1 DEF RequestInv, Waits
    <3>3. Collected'
      BY <2>1 DEF RequestInv, Collected
    <3>. QED BY <3>1, <3>2, <3>3
  <2>4. Announced'
    BY <2>1 DEF RequestInv, Announced, CallsKept
  <2>5. TextKept' /\ Sends'
    BY <2>1 DEF RequestInv, TextKept, Sends, Waiting
  <2>6. Finished'
    BY <2>1 DEF RequestInv, Finished, CallsKept, Waiting
  <2>7. Outcome'
    BY <2>1 DEF RequestInv, Outcome, AnswerComplete, EndsAsItWas
  <2>. QED BY <2>2, <2>3, <2>4, <2>5, <2>6, <2>7 DEF RequestInv
<1>2. RequestInv /\ Reader => RequestInv'
  BY ReaderWaits, Closing, ReceiveLast, ReceiveNext DEF Reader
<1>3. RequestInv /\ Loop => RequestInv'
  BY Calling, WaitOver, Failing, AnthropicSays, OpenAISays, GeminiSays, Ending, Sending DEF Loop
<1>. QED BY <1>1, <1>2, <1>3, Around DEF Next

\* It holds at first.
LEMMA InitRequest == Init => RequestInv
<1> SUFFICES ASSUME Init PROVE RequestInv
  OBVIOUS
<1>0. /\ said = Nothing /\ got = Fresh /\ msg = [text |-> 0, calls |-> <<>>, complete |-> FALSE]
      /\ pc = "call" /\ event = NoEvent /\ ended = "" /\ attempts = 0 /\ token = "good" /\ cancelled = FALSE
      /\ client \in Clients /\ mode \in {"stream", "send"}
      /\ agent = IF mode = "stream" THEN "creating" ELSE "receiving"
  BY DEF Init
<1>1. msg \in Messages /\ msg.text = 0 /\ msg.calls = <<>> /\ ~msg.complete /\ <<>> \in Picked
  <2>1. <<>> \in Picked
    BY DEF Picked
  <2>. QED BY <1>0, <2>1 DEF Messages
<1>2. Typed
  <2>1. 0 \in 0 .. MaxTexts /\ 0 \in 0 .. MaxRetries + 1 /\ 0 <= MaxTexts /\ 0 <= MaxCalls
    BY Bounds
  <2>2. said \in Answers /\ got \in Results /\ said.texts <= MaxTexts /\ got.current <= MaxCalls
    BY <1>0, <2>1, Empties
  <2>3. event.type = "none"
    BY <1>0 DEF NoEvent
  <2>4. TypeOK
    BY <1>0, <1>1, <2>1, <2>2, <2>3, AnswersFit DEF TypeOK, Picked
  <2>. QED BY <1>0, <1>1, <2>2, <2>4 DEF Typed
<1>3. Waits
  <2>1. ~(said.texts > 0 \/ said.calls # <<>> \/ said.stopped \/ said.open # "")
    <3>1. ~(0 > 0)
      OBVIOUS
    <3>. QED BY <1>0, <3>1, Empties
  <2>. QED BY <1>0, <2>1, Empties DEF Waits
<1>4. Announced /\ Collected /\ TextKept
  BY <1>0, <1>1, Empties DEF Announced, Collected, TextKept
<1>5. Finished /\ Sends
  BY <1>0, <1>1, Empties DEF Finished, Sends, Waiting
<1>6. Outcome
  BY <1>0 DEF Outcome, AnswerComplete, EndsAsItWas
<1>. QED BY <1>2, <1>3, <1>4, <1>5, <1>6 DEF RequestInv

\* The variables have their types, for any clients, retries and answers.
THEOREM TypeCorrect == Spec => []TypeOK
<1>1. RequestInv => TypeOK
  BY DEF RequestInv, Typed
<1>. QED BY <1>1, InitRequest, NextRequest, PTL DEF Spec

\* A request that completes has the whole of the last answer and nothing of an
\* attempt before, whichever client made it and however often it asked; but for the
\* last text of Gemini's send, and for calls that Copilot's adapter got mixed up.
THEOREM CompleteHasAll == Spec => []AnswerComplete
<1>1. RequestInv => AnswerComplete
  BY DEF RequestInv, Outcome
<1>. QED BY <1>1, InitRequest, NextRequest, PTL DEF Spec

\* Every end of a request says what happened: a silent end, an error, a panic and
\* a crash come from what they are known to come from, and from nothing else.  When
\* the agent's own database fails, also behind the whole answer, is an end apart.
THEOREM EndsTold == Spec => []EndsAsItWas
<1>1. RequestInv => EndsAsItWas
  BY DEF RequestInv, Outcome
<1>. QED BY <1>1, InitRequest, NextRequest, PTL DEF Spec

---------------------------------------------------------------------------
(* The abstract request *)

\* What is complete is not asked for again: the goroutine is through, or reads the rest
\* of a stream of Anthropic's that has said its end.
StaysComplete ==
  msg.complete => \/ pc = "returned"
                  \/ client = "anthropic" /\ said.stopped /\ pc \in {"reading", "offer"}

\* Until send returns nothing was said, and it returns only once.
SendQuiet ==
  mode = "send" /\ pc # "returned" => Waiting /\ said.texts = 0 /\ said.calls = <<>>

\* The calls of Anthropic's are taken one by one; the others' come at the end.
CallsTaken ==
  mode = "stream" /\ Waiting /\ ~msg.complete =>
    IF pc = "offer" /\ event.type = "call"
    THEN client = "anthropic" /\ said.calls = Append(msg.calls, event.call)
    ELSE client = "anthropic" => said.calls = msg.calls

TakenInv == StaysComplete /\ SendQuiet /\ CallsTaken

\* A step of the goroutine that adds nothing to the answer.
QuietSteps ==
  \/ Again \/ AnthropicCancelled \/ OpenAICancelled \/ GeminiCancelled \/ GeminiGoesOn
  \/ AnthropicFails \/ OpenAIFails \/ CopilotFails \/ GeminiFails
  \/ AnthropicEnds \/ OpenAIEnds \/ GeminiEnds \/ GeminiFinal

\* A step that may add to it.
SpeakingSteps ==
  \/ AnthropicBlockStart \/ AnthropicBlockDelta \/ AnthropicBlockStop \/ AnthropicMessageStop
  \/ OpenAIText \/ OpenAICall \/ CopilotCall \/ CopilotDelta \/ CopilotFinish \/ GeminiResponse

SendSteps == SendAnswered \/ SendEmpty \/ SendFails \/ SendCancelled

LEMMA LoopParts == Loop => Call \/ QuietSteps \/ SpeakingSteps \/ SendSteps
BY DEF Loop, QuietSteps, SpeakingSteps, SendSteps

\* What is offered is of a type.
LEMMA OfferedTypes ==
  /\ \A then : Offer(Of("other", then)) => pc' = "offer" /\ event'.type = "other"
  /\ \A then : Offer(Of("text", then)) => pc' = "offer" /\ event'.type = "text"
  /\ \A cs, then : Offer(Complete(cs, then)) => pc' = "offer" /\ event'.type = "complete"
  /\ \A c : Offer(CallOf(c)) => pc' = "offer" /\ event'.type = "call" /\ event'.call = c
BY Offers

\* A client that gives up or asks again does not offer a call, and after a complete
\* answer of Anthropic's it does not ask again.
LEMMA Quiet ==
  ASSUME RequestInv, QuietSteps
  PROVE  /\ UNCHANGED <<client, mode, cancelled, said, got, agent, msg>>
         /\ pc \in {"waiting", "final", "reading"}
         /\ mode = "stream" \/ pc' = "call"
         /\ pc # "offer" /\ (pc' = "offer" => event'.type # "call")
         /\ client = "anthropic" /\ said.stopped /\ pc = "reading" => pc' \in {"reading", "offer", "returned"}
<1>1. CASE Again
  BY <1>1 DEF Again, request, server
<1>2. CASE AnthropicCancelled \/ OpenAICancelled \/ GeminiCancelled \/ GeminiGoesOn
  BY <1>2, Events DEF AnthropicCancelled, OpenAICancelled, GeminiCancelled, GeminiGoesOn, Offer, request, server
<1>3. CASE AnthropicFails
  <2>1. PICK status \in Failures : Failed(status) /\ \E v \in AnthropicVerdicts(status) : RetryOrTell(v)
    BY <1>3 DEF AnthropicFails
  <2>2. PICK v \in AnthropicVerdicts(status) : RetryOrTell(v)
    BY <2>1
  <2>3. UNCHANGED <<client, mode, cancelled, said, got, agent, msg>> /\ mode = "stream" /\ pc = "reading"
    BY <1>3, <2>1 DEF AnthropicFails, Failed, request
  <2>4. v = "retry" => status = "limit"
    BY <2>1, Reasons DEF AnthropicVerdicts, RequestInv
  <2>5. status = "limit" => ~said.stopped
    BY <1>3, Reasons DEF AnthropicFails, RequestInv
  <2>6. v # "retry" => pc' = "offer" /\ event'.type = "error"
    BY <2>2, Events DEF RetryOrTell, Offer
  <2>7. v = "retry" => pc' = "waiting"
    BY <2>2 DEF RetryOrTell
  <2>. QED BY <2>3, <2>4, <2>5, <2>6, <2>7
<1>4. CASE OpenAIFails \/ CopilotFails \/ GeminiFails
  <2>1. /\ UNCHANGED <<client, mode, cancelled, said, got, agent, msg>> /\ mode = "stream" /\ pc = "reading"
        /\ \E v : RetryOrTell(v)
    BY <1>4 DEF OpenAIFails, CopilotFails, GeminiFails, Failed, request
  <2>2. client # "anthropic"
    BY <1>4 DEF OpenAIFails, CopilotFails, GeminiFails, Copilot
  <2>3. pc' = "offer" => event'.type = "error"
    BY <2>1, Events DEF RetryOrTell, Offer
  <2>. QED BY <2>1, <2>2, <2>3
<1>5. CASE AnthropicEnds \/ OpenAIEnds \/ GeminiEnds
  <2>1. /\ UNCHANGED <<client, mode, cancelled, said, got, agent, msg>> /\ mode = "stream" /\ pc = "reading"
        /\ client = "anthropic" => pc' = "returned"
    BY <1>5 DEF AnthropicEnds, OpenAIEnds, GeminiEnds, Ends, OpenAI, Copilot, request
  <2>2. pc' = "offer" => event'.type # "call"
    BY <1>5, OfferedTypes DEF AnthropicEnds, OpenAIEnds, GeminiEnds
  <2>. QED BY <2>1, <2>2
<1>6. CASE GeminiFinal
  <2>1. mode = "stream" /\ client = "gemini"
    BY <1>6 DEF GeminiFinal, RequestInv, Waits
  <2>. QED BY <1>6, <2>1, Events DEF GeminiFinal, Offer, request, server
<1>. QED BY <1>1, <1>2, <1>3, <1>4, <1>5, <1>6 DEF QuietSteps

\* What is said: some text, some calls, or nothing new; Anthropic's calls are offered.
Said ==
  /\ said'.texts = said.texts \/ said'.texts = said.texts + 1
  /\ \/ said'.calls = said.calls
     \/ \E c \in 1 .. MaxCalls : said'.calls = Append(said.calls, c)
     \/ said'.calls \in Calls /\ IsPrefix(said.calls, said'.calls)
  /\ got'.mixed \in BOOLEAN /\ (got.mixed => got'.mixed)

LEMMA Speaking ==
  ASSUME RequestInv, SpeakingSteps
  PROVE  /\ UNCHANGED <<client, mode, cancelled, agent, msg>> /\ Said
         /\ mode = "stream" /\ pc = "reading" /\ ~said.stopped /\ pc' \in {"reading", "offer"}
         /\ IF pc' = "offer" /\ event'.type = "call"
            THEN client = "anthropic" /\ said'.calls = Append(said.calls, event'.call)
            ELSE client = "anthropic" => said'.calls = said.calls
<1>1. said \in Answers /\ got \in Results /\ got.mixed \in BOOLEAN
  BY DEF RequestInv, Typed, Results
<1>2. /\ WithText.texts = said.texts + 1 /\ WithText.calls = said.calls
      /\ \A c : WithCall(c).texts = said.texts /\ WithCall(c).calls = Append(said.calls, c)
  BY <1>1 DEF WithText, WithCall, Answers
<1>3. SaysCall => NextCall \in 1 .. MaxCalls /\ \A c \in 1 .. NextCall : c \in 1 .. MaxCalls
  BY NextFits DEF RequestInv
<1>4. CASE AnthropicBlockStart
  <2>1. /\ UNCHANGED <<client, mode, cancelled, agent, msg>>
        /\ client = "anthropic" /\ mode = "stream" /\ pc = "reading" /\ ~said.stopped
        /\ got'.mixed = got.mixed
    BY <1>4 DEF AnthropicBlockStart, Speaks, Ends, request
  <2>2. CASE said' = [said EXCEPT !.open = "text", !.any = TRUE] /\ Offer(Of("other", "reading"))
    <3>1. said'.texts = said.texts /\ said'.calls = said.calls
      BY <1>1, <2>2 DEF Answers
    <3>2. pc' = "offer" /\ event'.type = "other"
      BY <2>2, OfferedTypes
    <3>. QED BY <1>1, <2>1, <3>1, <3>2 DEF Said
  <2>3. CASE SaysCall /\ said' = [WithCall(NextCall) EXCEPT !.open = "tool"] /\ Offer(CallOf(NextCall))
    <3>1. said'.calls = Append(said.calls, NextCall) /\ said'.texts = said.texts
      BY <1>1, <2>3 DEF WithCall, Answers
    <3>2. pc' = "offer" /\ event'.type = "call" /\ event'.call = NextCall
      BY <2>3, OfferedTypes
    <3>. QED BY <1>1, <1>3, <2>1, <2>3, <3>1, <3>2 DEF Said
  <2>. QED BY <1>4, <2>2, <2>3 DEF AnthropicBlockStart
<1>5. CASE AnthropicBlockDelta
  <2>1. /\ UNCHANGED <<client, mode, cancelled, agent, msg>>
        /\ client = "anthropic" /\ mode = "stream" /\ pc = "reading" /\ ~said.stopped
        /\ got'.mixed = got.mixed
    BY <1>5 DEF AnthropicBlockDelta, Speaks, Ends, request
  <2>2. CASE said' = [WithText EXCEPT !.open = "text filled"] /\ Offer(Of("text", "reading"))
    <3>1. said'.texts = said.texts + 1 /\ said'.calls = said.calls
      BY <1>1, <2>2 DEF WithText, Answers
    <3>2. pc' = "offer" /\ event'.type = "text"
      BY <2>2, OfferedTypes
    <3>. QED BY <1>1, <2>1, <3>1, <3>2 DEF Said
  <2>3. CASE said' = [said EXCEPT !.open = "tool filled"] /\ Offer(Of("other", "reading"))
    <3>1. said'.texts = said.texts /\ said'.calls = said.calls
      BY <1>1, <2>3 DEF Answers
    <3>2. pc' = "offer" /\ event'.type = "other"
      BY <2>3, OfferedTypes
    <3>. QED BY <1>1, <2>1, <3>1, <3>2 DEF Said
  <2>. QED BY <1>5, <2>2, <2>3 DEF AnthropicBlockDelta
<1>6. CASE AnthropicBlockStop \/ AnthropicMessageStop
  <2>1. /\ UNCHANGED <<client, mode, cancelled, agent, msg>>
        /\ client = "anthropic" /\ mode = "stream" /\ pc = "reading" /\ ~said.stopped
        /\ got'.mixed = got.mixed
    BY <1>6 DEF AnthropicBlockStop, AnthropicMessageStop, Speaks, Ends, request
  <2>2. said'.texts = said.texts /\ said'.calls = said.calls
    BY <1>1, <1>6 DEF AnthropicBlockStop, AnthropicMessageStop, Answers
  <2>3. pc' = "offer" /\ event'.type # "call"
    BY <1>6, OfferedTypes DEF AnthropicBlockStop, AnthropicMessageStop
  <2>. QED BY <1>1, <2>1, <2>2, <2>3 DEF Said
<1>7. CASE OpenAIText
  <2>1. /\ UNCHANGED <<client, mode, cancelled, agent, msg>> /\ client # "anthropic" /\ got' = got
        /\ mode = "stream" /\ pc = "reading" /\ ~said.stopped
    BY <1>7 DEF OpenAIText, OpenAI, Copilot, SaysText, Speaks, Ends, request
  <2>2. CASE said' = WithText /\ Offer(Of("text", "reading"))
    BY <1>1, <1>2, <2>1, <2>2, OfferedTypes DEF Said
  <2>3. CASE said' = [said EXCEPT !.any = TRUE] /\ UNCHANGED <<pc, event>>
    <3>1. said'.texts = said.texts /\ said'.calls = said.calls /\ pc' = "reading"
      BY <1>1, <2>1, <2>3 DEF Answers
    <3>. QED BY <1>1, <2>1, <3>1 DEF Said
  <2>. QED BY <1>7, <2>2, <2>3 DEF OpenAIText
<1>8. CASE OpenAICall
  <2>1. client # "anthropic" /\ pc' = "reading" /\ got' = got
    BY <1>8 DEF OpenAICall, SaysCall, Speaks, Ends
  <2>. QED BY <1>1, <1>2, <1>3, <1>8, <2>1 DEF OpenAICall, SaysCall, Speaks, Ends, Said, request
<1>10. CASE CopilotCall
  <2>1. /\ UNCHANGED <<client, mode, cancelled, agent, msg>> /\ client # "anthropic"
        /\ mode = "stream" /\ pc = "reading" /\ ~said.stopped /\ pc' = "reading"
        /\ CopilotListens /\ SaysCall
    BY <1>10 DEF CopilotCall, CopilotListens, Speaks, Ends, request
  <2>2. PICK n \in NextCall .. MaxCalls :
          /\ said' = [said EXCEPT !.calls = @ \o [i \in 1 .. n - Len(@) |-> Len(said.calls) + i], !.any = TRUE]
          /\ got' = [CopilotBegins(NextCall) EXCEPT !.mixed = @ \/ n > NextCall]
    BY <1>10 DEF CopilotCall
  <2>3. PICK cs : cs = said.calls \o [i \in 1 .. n - Len(said.calls) |-> Len(said.calls) + i]
    OBVIOUS
  <2>4. cs \in Calls /\ IsPrefix(said.calls, cs)
    BY <2>3, Longer
  <2>5. said' = [said EXCEPT !.calls = cs, !.any = TRUE]
    BY <1>1, <2>2, <2>3 DEF Answers
  <2>6. said'.texts = said.texts /\ said'.calls = cs
    BY <1>1, <2>5 DEF Answers
  <2>7. got'.mixed = (got.mixed \/ n > NextCall)
    BY <1>1, <1>3, <2>1, <2>2, Begins DEF Results
  <2>. QED BY <1>1, <2>1, <2>4, <2>6, <2>7 DEF Said
<1>11. CASE CopilotDelta
  <2>1. /\ UNCHANGED <<client, mode, cancelled, agent, msg>> /\ client # "anthropic"
        /\ mode = "stream" /\ pc = "reading" /\ ~said.stopped /\ pc' = "reading"
        /\ CopilotListens
    BY <1>11 DEF CopilotDelta, CopilotListens, Speaks, Ends, request
  <2>2. CASE got' = [got EXCEPT !.mixed = TRUE] /\ said' = said
    <3>1. got'.mixed
      BY <1>1, <2>2 DEF Results
    <3>. QED BY <2>1, <2>2, <3>1 DEF Said
  <2>3. CASE SaysCall /\ said' = WithCall(NextCall) /\ got' = [got EXCEPT !.mixed = TRUE]
    <3>1. got'.mixed
      BY <1>1, <2>3 DEF Results
    <3>. QED BY <1>2, <1>3, <2>1, <2>3, <3>1 DEF Said
  <2>4. CASE /\ \E c \in ToSet(said.calls) \ {got.current} : got' = [CopilotBegins(c) EXCEPT !.mixed = TRUE]
             /\ said' = said
    <3>1. PICK c \in ToSet(said.calls) : got' = [CopilotBegins(c) EXCEPT !.mixed = TRUE]
      BY <2>4
    <3>2. said.calls \in Seq(1 .. MaxCalls)
      BY <1>1 DEF Answers, Calls
    <3>3. c \in 1 .. MaxCalls
      BY <3>1, <3>2, ElementOf
    <3>4. got'.mixed
      BY <2>1, <3>1, <3>3, Begins DEF Results
    <3>. QED BY <2>1, <2>4, <3>4 DEF Said
  <2>. QED BY <1>11, <2>2, <2>3, <2>4 DEF CopilotDelta
<1>12. CASE CopilotFinish
  <2>1. /\ UNCHANGED <<client, mode, cancelled, agent, msg>> /\ client # "anthropic"
        /\ mode = "stream" /\ pc = "reading" /\ ~said.stopped /\ pc' = "reading"
    BY <1>12 DEF CopilotFinish, Speaks, Ends, request
  <2>2. /\ got' = [got EXCEPT !.finished = TRUE, !.calls = Append(@, got.current),
                              !.mixed = @ \/ got.finished \/ got.current = 0]
        /\ said' = [said EXCEPT !.any = TRUE]
    BY <1>12 DEF CopilotFinish
  <2>3. said'.texts = said.texts /\ said'.calls = said.calls
    BY <1>1, <2>2 DEF Answers
  <2>4. got'.mixed = (got.mixed \/ got.finished \/ got.current = 0)
    BY <1>1, <2>2 DEF Results
  <2>. QED BY <2>1, <2>3, <2>4 DEF Said
<1>9. CASE GeminiResponse
  <2>1. /\ UNCHANGED <<client, mode, cancelled, agent, msg>> /\ client = "gemini"
        /\ mode = "stream" /\ pc = "reading" /\ ~said.stopped
    BY <1>9 DEF GeminiResponse, SaysText, SaysCall, Speaks, Ends, request
  <2>5. got'.mixed = got.mixed
    BY <1>1, <1>9 DEF GeminiResponse, Results
  <2>2. CASE said' = WithText /\ Offer(Of("text", "reading"))
    BY <1>1, <1>2, <2>1, <2>2, <2>5, OfferedTypes DEF Said
  <2>3. CASE SaysCall /\ (\E c \in 1 .. NextCall : said' = WithCall(c)) /\ UNCHANGED <<pc, event>>
    BY <1>1, <1>2, <1>3, <2>1, <2>3, <2>5 DEF Said
  <2>4. CASE said' = [said EXCEPT !.any = TRUE] /\ UNCHANGED <<pc, event>>
    <3>1. said'.texts = said.texts /\ said'.calls = said.calls
      BY <1>1, <2>4 DEF Answers
    <3>. QED BY <1>1, <2>1, <2>4, <2>5, <3>1 DEF Said
  <2>. QED BY <1>9, <2>2, <2>3, <2>4 DEF GeminiResponse
<1>. QED BY <1>4, <1>5, <1>6, <1>7, <1>8, <1>9, <1>10, <1>11, <1>12 DEF SpeakingSteps

\* An event is taken: the goroutine goes on, and the message grows by what it says,
\* unless the agent gives up.
LEMMA Taking ==
  ASSUME RequestInv, TakenInv, Receive
  PROVE  /\ mode = "stream" /\ Waiting /\ pc = "offer"
         /\ UNCHANGED <<client, mode, cancelled, said, got>>
         /\ pc' \in {"reading", "final", "returned"} /\ (pc' = "final" => client = "gemini")
         /\ \/ agent' \in {"canceled", "panicked", "error"} /\ msg' = msg
            \/ /\ agent' \in {"handled", "failed"} /\ ~msg.complete
               /\ \/ event.type = "other" /\ msg' = msg
                  \/ event.type = "text" /\ msg' = [msg EXCEPT !.text = @ + 1]
                  \/ event.type = "call" /\ msg' = [msg EXCEPT !.calls = Append(@, event.call)]
                  \/ event.type = "complete" /\ msg' = [msg EXCEPT !.calls = event.calls, !.complete = TRUE]
<1>0. /\ UNCHANGED <<client, mode, cancelled, said, got>>
      /\ agent = "receiving" /\ pc = "offer" /\ pc' = event.then
  BY DEF Receive, request, server
<1>1. Waiting /\ mode = "stream"
  BY <1>0 DEF RequestInv, Announced, Waiting, Outcomes
<1>2. pc' \in {"reading", "final", "returned"} /\ (pc' = "final" => client = "gemini")
  BY <1>0 DEF RequestInv, Typed, Announced
<1>3. CASE agent' \notin {"handled", "failed"}
  <2>1. CASE cancelled
    BY <1>0, <1>1, <1>2, <1>3, <2>1 DEF Receive
  <2>2. CASE ~cancelled
    <3>1. Handle
      BY <2>2 DEF Receive
    <3>2. event.type = "error"
      BY <1>3, <3>1 DEF Handle
    <3>. QED BY <1>0, <1>1, <1>2, <1>3, <3>1, <3>2 DEF Handle
  <2>. QED BY <2>1, <2>2
<1>4. CASE agent' \in {"handled", "failed"}
  <2>1. event.type \in {"other", "text", "call", "complete"} /\ ~msg.complete
    BY <1>4, Grown
  <2>2. msg' = CASE event.type = "text"     -> [msg EXCEPT !.text = @ + 1]
                 [] event.type = "call"     -> [msg EXCEPT !.calls = Append(@, event.call)]
                 [] event.type = "complete" -> [msg EXCEPT !.calls = event.calls, !.complete = TRUE]
                 [] event.type = "other"    -> msg
    BY <1>4, Grown
  <2>5. CASE event.type = "text"
    BY <1>0, <1>1, <1>2, <1>4, <2>1, <2>2, <2>5
  <2>6. CASE event.type = "call"
    BY <1>0, <1>1, <1>2, <1>4, <2>1, <2>2, <2>6
  <2>7. CASE event.type = "complete"
    BY <1>0, <1>1, <1>2, <1>4, <2>1, <2>2, <2>7
  <2>8. CASE event.type = "other"
    BY <1>0, <1>1, <1>2, <1>4, <2>1, <2>2, <2>8
  <2>. QED BY <2>1, <2>5, <2>6, <2>7, <2>8
<1>. QED BY <1>3, <1>4

\* Every step keeps what was taken beside what was said.
LEMMA TakenNext == RequestInv /\ TakenInv /\ [Next]_vars => TakenInv'
<1> SUFFICES ASSUME RequestInv, TakenInv, [Next]_vars PROVE TakenInv'
  OBVIOUS
<1>1. CASE Call
  <2>1. /\ UNCHANGED <<client, mode, agent, msg>> /\ pc = "call" /\ said' = Nothing
        /\ pc' \in {"offer", "reading"} /\ (pc' = "offer" => event'.type # "call")
    BY <1>1, OfferedTypes DEF Call, Offer, request
  <2>2. ~msg.complete /\ (mode = "send" => Waiting)
    BY <2>1 DEF TakenInv, StaysComplete, SendQuiet
  <2>3. mode = "stream" => said.calls = <<>>
    BY <2>1 DEF RequestInv, Waits
  <2>4. mode = "stream" /\ Waiting /\ client = "anthropic" => msg.calls = <<>>
    BY <2>1, <2>2, <2>3 DEF TakenInv, CallsTaken
  <2>. QED BY <2>1, <2>2, <2>4, Empties DEF TakenInv, StaysComplete, SendQuiet, CallsTaken, Waiting
<1>2. CASE QuietSteps
  <2>1. msg.complete => client = "anthropic" /\ said.stopped /\ pc = "reading"
    BY <1>2, Quiet DEF TakenInv, StaysComplete
  <2>. QED BY <1>2, <2>1, Quiet DEF TakenInv, StaysComplete, SendQuiet, CallsTaken, Waiting
<1>3. CASE SpeakingSteps
  <2>1. ~msg.complete
    BY <1>3, Speaking DEF TakenInv, StaysComplete
  <2>. QED BY <1>3, <2>1, Speaking DEF TakenInv, StaysComplete, SendQuiet, CallsTaken, Waiting
<1>4. CASE SendSteps
  <2>1. mode = "send" /\ mode' = "send" /\ pc # "returned"
    BY <1>4 DEF SendSteps, SendAnswered, SendEmpty, SendFails, SendCancelled, request
  <2>2. Waiting /\ ~msg.complete /\ said.texts = 0 /\ said.calls = <<>>
    BY <2>1 DEF TakenInv, SendQuiet, RequestInv, Sends, Waiting, Outcomes
  <2>3. pc' = "returned" \/ (pc' = "waiting" /\ UNCHANGED <<said, agent, msg>>)
    BY <1>4 DEF SendSteps, SendAnswered, Answered, SendEmpty, SendFails, SendCancelled, Return
  <2>. QED BY <2>1, <2>2, <2>3 DEF TakenInv, StaysComplete, SendQuiet, CallsTaken, Waiting
<1>5. CASE CreateMessage \/ NextEvent
  <2>1. UNCHANGED <<client, mode, said, msg, pc, event>> /\ Waiting
    BY <1>5 DEF CreateMessage, NextEvent, Waiting, Outcomes, request, server
  <2>2. mode = "stream"
    BY <1>5, <2>1 DEF CreateMessage, NextEvent, RequestInv, Sends, Typed, TypeOK
  <2>. QED BY <2>1, <2>2 DEF TakenInv, StaysComplete, SendQuiet, CallsTaken
<1>6. CASE Closed
  <2>1. UNCHANGED <<mode, msg, pc>> /\ mode = "stream" /\ pc = "returned" /\ ~Waiting'
    BY <1>6 DEF Closed, Waiting, Outcomes, request
  <2>. QED BY <2>1 DEF TakenInv, StaysComplete, SendQuiet, CallsTaken
<1>7. CASE Receive
  <2>1. /\ mode = "stream" /\ Waiting /\ pc = "offer" /\ UNCHANGED <<client, mode, said>>
        /\ pc' \in {"reading", "final", "returned"} /\ (pc' = "final" => client = "gemini")
    BY <1>7, Taking
  <2>2. CASE msg' = msg /\ (agent' \in {"canceled", "panicked", "error"} \/ event.type = "other")
    <3>1. StaysComplete'
      BY <2>1, <2>2 DEF TakenInv, StaysComplete
    <3>2. event.type = "other" => event.type # "call"
      OBVIOUS
    <3>3. agent' \in {"canceled", "panicked", "error"} => ~Waiting'
      BY DEF Waiting, Outcomes
    <3>. QED BY <2>1, <2>2, <3>1, <3>2, <3>3 DEF TakenInv, SendQuiet, CallsTaken
  <2>3. CASE ~msg.complete /\ event.type = "text" /\ msg' = [msg EXCEPT !.text = @ + 1]
    <3>1. msg'.calls = msg.calls /\ ~msg'.complete
      BY <2>3, MessageFits DEF Messages
    <3>. QED BY <2>1, <2>3, <3>1 DEF TakenInv, StaysComplete, SendQuiet, CallsTaken
  <2>4. CASE ~msg.complete /\ event.type = "call" /\ msg' = [msg EXCEPT !.calls = Append(@, event.call)]
    <3>1. msg'.calls = Append(msg.calls, event.call) /\ ~msg'.complete
      BY <2>4, MessageFits DEF Messages
    <3>. QED BY <2>1, <2>4, <3>1 DEF TakenInv, StaysComplete, SendQuiet, CallsTaken
  <2>5. CASE event.type = "complete" /\ msg' = [msg EXCEPT !.calls = event.calls, !.complete = TRUE]
    <3>1. msg'.complete
      BY <2>5, MessageFits DEF Messages
    <3>2. event.then = "returned" \/ (client = "anthropic" /\ said.stopped)
      BY <2>1, <2>5 DEF RequestInv, Announced
    <3>3. pc' = event.then
      BY <1>7 DEF Receive
    <3>. QED BY <2>1, <3>1, <3>2, <3>3 DEF TakenInv, StaysComplete, SendQuiet, CallsTaken
  <2>. QED BY <1>7, <2>2, <2>3, <2>4, <2>5, Taking
<1>8. CASE Cancel \/ TokenExpires
  BY <1>8 DEF Cancel, TokenExpires, TakenInv, StaysComplete, SendQuiet, CallsTaken, Waiting, request, server
<1>9. CASE UNCHANGED vars
  BY <1>9 DEF vars, TakenInv, StaysComplete, SendQuiet, CallsTaken, Waiting, request, server
<1>. QED BY <1>1, <1>2, <1>3, <1>4, <1>5, <1>6, <1>7, <1>8, <1>9, LoopParts DEF Next, Reader

\* The answer and the outcome, as the abstract request has them.
Heard == [texts |-> said.texts, calls |-> said.calls]
Out   == IF Waiting THEN "none" ELSE agent

\* A step that changes none of what the abstract request is made of.
LEMMA Unheard ==
  ASSUME UNCHANGED <<client, mode, cancelled, msg, Heard, Out>>, got'.mixed = got.mixed
  PROVE  UNCHANGED Answer!vars
BY DEF Answer!vars, Heard, Out

\* The wait ends.
LEMMA EndsHow ==
  ASSUME UNCHANGED <<client, mode, cancelled, msg, Heard>>, got'.mixed = got.mixed, Waiting, agent' \in Outcomes,
         agent' = "completed" => msg.complete,
         agent' \in {"silent", "panicked"} => ~msg.complete,
         agent' = "canceled" => cancelled
  PROVE  Answer!Next
<1>1. Out = "none" /\ Out' = agent'
  BY DEF Out, Waiting
<1>2. Answer!End(agent')
  BY <1>1 DEF Answer!End, Heard, Out
<1>. QED BY <1>2 DEF Answer!Next, Outcomes

\* The goroutine's steps: the answer grows, or nothing is seen.
LEMMA LoopAnswer ==
  ASSUME RequestInv, TakenInv, Call \/ QuietSteps \/ SpeakingSteps
  PROVE  [Answer!Next]_(Answer!vars)
<1>1. said \in Answers
  BY DEF RequestInv, Typed
<1>2. UNCHANGED <<client, mode, cancelled, agent, msg>> /\ Out' = Out
  BY Quiet, Speaking DEF Call, request, Out, Waiting
<1>3. CASE Call
  <2>1. said' = Nothing /\ said.texts = 0 /\ said.calls = <<>>
    BY <1>3 DEF Call, RequestInv, Waits, Typed, TypeOK, TakenInv, SendQuiet
  <2>2. Heard' = Heard
    BY <2>1, Empties DEF Heard
  <2>3. ~got.mixed /\ got.mixed \in BOOLEAN /\ got' = Fresh /\ Fresh.mixed \in BOOLEAN
    BY <1>3 DEF Call, RequestInv, Waits, Collected, Typed, TypeOK, Fresh
  <2>. QED BY <1>2, <2>2, <2>3, Empties, Unheard
<1>4. CASE QuietSteps
  BY <1>2, <1>4, Quiet, Unheard DEF Heard
<1>5. CASE SpeakingSteps
  <2>1. Said /\ mode = "stream" /\ pc = "reading" /\ ~said.stopped
    BY <1>5, Speaking
  <2>2. ~msg.complete
    BY <2>1 DEF TakenInv, StaysComplete
  <2>3. said.texts \in Nat /\ said.calls \in Calls
    BY <1>1 DEF Answers
  <2>4. said'.texts \in Nat /\ said'.texts >= said.texts
    BY <2>1, <2>3 DEF Said
  <2>5. said'.calls \in Calls /\ IsPrefix(said.calls, said'.calls)
    <3>1. CASE said'.calls = said.calls
      BY <2>3, <3>1 DEF Calls, IsPrefix
    <3>2. ASSUME NEW c \in 1 .. MaxCalls, said'.calls = Append(said.calls, c)
          PROVE  said'.calls \in Calls /\ IsPrefix(said.calls, said'.calls)
      <4>1. <<c>> \in Calls /\ Append(said.calls, c) = said.calls \o <<c>> /\ said.calls \o <<c>> \in Calls
        BY <2>3 DEF Calls
      <4>. QED BY <2>3, <3>2, <4>1, ConcatPrefix DEF Calls
    <3>. QED BY <2>1, <3>1, <3>2 DEF Said
  <2>6. got'.mixed \in BOOLEAN /\ (got.mixed => got'.mixed)
    BY <2>1 DEF Said
  <2>7. Answer!IsPrefix(said.calls, said'.calls)
    BY <2>5 DEF IsPrefix, Answer!IsPrefix
  <2>8. /\ Heard'.texts = said'.texts /\ Heard'.calls = said'.calls
        /\ Heard.texts = said.texts /\ Heard.calls = said.calls
        /\ Heard' = [texts |-> Heard'.texts, calls |-> Heard'.calls]
    BY DEF Heard
  <2>9. Answer!Say
    BY <1>2, <2>1, <2>2, <2>4, <2>5, <2>6, <2>7, <2>8 DEF Answer!Say, Heard, Out, Calls
  <2>. QED BY <2>9 DEF Answer!Next
<1>. QED BY <1>3, <1>4, <1>5

\* send: the answer comes at once, or the wait ends, or nothing is seen.
LEMMA SendAnswer ==
  ASSUME RequestInv, RequestInv', TakenInv, SendSteps
  PROVE  [Answer!Next]_(Answer!vars)
<1>1. UNCHANGED <<client, mode, cancelled, got>> /\ mode = "send" /\ pc # "returned"
  BY DEF SendSteps, SendAnswered, SendEmpty, SendFails, SendCancelled, request
<1>2. Waiting /\ ~msg.complete
  BY <1>1 DEF TakenInv, SendQuiet, RequestInv, Sends, Waiting, Outcomes
<1>3. CASE SendAnswered
  <2>1. PICK texts \in 0 .. MaxTexts, n \in 0 .. MaxCalls : Answered(texts, n)
    BY <1>3 DEF SendAnswered
  <2> DEFINE calls == [i \in 1 .. n |-> i]
  <2>2. texts \in Nat /\ calls \in Seq(1 .. MaxCalls)
    <3>1. n \in Nat /\ \A i \in 1 .. n : i \in 1 .. MaxCalls
      BY Bounds
    <3>2. calls \in [1 .. n -> 1 .. MaxCalls]
      BY <3>1
    <3>. QED BY <3>1, <3>2, Bounds
  <2>3. /\ msg' = [text |-> Kept(texts), calls |-> calls, complete |-> TRUE]
        /\ said' = [said EXCEPT !.texts = texts, !.calls = calls, !.any = TRUE]
        /\ agent' = "completed"
    BY <2>1 DEF Answered, Return
  <2> HIDE DEF calls
  <2>4. Heard' = [texts |-> texts, calls |-> calls]
    <3>1. said \in Answers
      BY DEF RequestInv, Typed
    <3>. QED BY <2>3, <3>1 DEF Heard, Answers
  <2>5. Out = "none" /\ Out' = "completed"
    BY <1>2, <2>3 DEF Out, Waiting, Outcomes
  <2>6. IF client = "gemini" THEN Kept(texts) = 0 <=> texts = 0 ELSE Kept(texts) = texts
    BY <2>2 DEF Kept
  <2>7. ~cancelled
    BY <1>3 DEF SendAnswered
  <2>8. Answer!Reply
    BY <1>1, <1>2, <2>2, <2>3, <2>4, <2>5, <2>6, <2>7 DEF Answer!Reply, Answer!Open, Heard, Out
  <2>. QED BY <2>8 DEF Answer!Next
<1>4. CASE ~SendAnswered
  <2>1. UNCHANGED msg /\ Heard' = Heard /\ (agent' = agent \/ agent' \in {"panicked", "canceled", "error"})
    BY <1>4 DEF SendSteps, SendEmpty, SendFails, SendCancelled, Return, Heard, server
  <2>2. CASE agent' = agent
    <3>1. Out' = Out
      BY <2>2 DEF Out, Waiting
    <3>. QED BY <1>1, <2>1, <3>1, Unheard
  <2>3. CASE agent' \in {"panicked", "canceled", "error"}
    <3>1. agent' = "canceled" => cancelled'
      BY DEF RequestInv, Outcome, EndsAsItWas
    <3>. QED BY <1>1, <1>2, <2>1, <2>3, <3>1, EndsHow DEF Outcomes
  <2>. QED BY <2>1, <2>2, <2>3
<1>. QED BY <1>3, <1>4

\* The agent takes an event.
LEMMA ReceiveAnswer ==
  ASSUME RequestInv, RequestInv', TakenInv, Receive
  PROVE  [Answer!Next]_(Answer!vars)
<1>1. /\ mode = "stream" /\ Waiting /\ pc = "offer"
      /\ UNCHANGED <<client, mode, cancelled, got>> /\ Heard' = Heard
  BY Taking DEF Heard
<1>2. CASE agent' \in {"canceled", "panicked", "error"} /\ msg' = msg
  <2>1. agent' = "canceled" => cancelled'
    BY DEF RequestInv, Outcome, EndsAsItWas
  <2>2. agent' = "panicked" => ~msg.complete
    <3>1. agent' = "panicked" => event.type = "error" /\ event.error = "nil"
      BY DEF Receive, Handle
    <3>. QED BY <1>1, <3>1 DEF RequestInv, Finished
  <2>. QED BY <1>1, <1>2, <2>1, <2>2, EndsHow DEF Outcomes
<1>3. CASE agent' \in {"handled", "failed"} /\ ~msg.complete
  <2>1. Out = "none" /\ Out' = IF agent' = "handled" THEN "none" ELSE "failed"
    BY <1>1, <1>3 DEF Out, Waiting, Outcomes
  <2>0. Answer!Keep
    BY <2>1 DEF Answer!Keep, Out
  <2>2. Answer!Open
    BY <1>3, <2>1 DEF Answer!Open, Out
  <2>3. CASE msg' = msg
    <3>1. CASE agent' = "handled"
      BY <1>1, <2>1, <2>3, <3>1, Unheard
    <3>2. CASE agent' = "failed"
      BY <1>1, <2>3, <3>2, EndsHow DEF Outcomes
    <3>. QED BY <1>3, <3>1, <3>2
  <2>4. CASE event.type = "text" /\ msg' = [msg EXCEPT !.text = @ + 1]
    <3>1. said.texts = msg.text + 1 /\ msg.text \in Nat
      BY <1>1, <2>4, MessageFits DEF RequestInv, TextKept
    <3>2. Answer!TakeText
      BY <1>1, <2>0, <2>2, <2>4, <3>1 DEF Answer!TakeText, Heard, Out
    <3>. QED BY <3>2 DEF Answer!Next
  <2>5. CASE event.type = "call" /\ msg' = [msg EXCEPT !.calls = Append(@, event.call)]
    <3>1. said.calls = Append(msg.calls, event.call) /\ msg.calls \in Picked /\ event.call \in 0 .. MaxCalls
      BY <1>1, <1>3, <2>5, MessageFits, Bounds DEF TakenInv, CallsTaken, RequestInv, Typed
    <3>2. Len(msg.calls) < Len(said.calls) /\ said.calls[Len(msg.calls) + 1] = event.call
      BY <3>1 DEF Picked
    <3>3. Answer!TakeCall
      BY <1>1, <2>0, <2>2, <2>5, <3>2 DEF Answer!TakeCall, Heard, Out
    <3>. QED BY <3>3 DEF Answer!Next
  <2>6. CASE event.type = "complete" /\ msg' = [msg EXCEPT !.calls = event.calls, !.complete = TRUE]
    <3>1. said.texts = msg.text
      BY <1>1, <2>6 DEF RequestInv, TextKept
    <3>2. ~got.mixed =>
            /\ ToSet(event.calls) = ToSet(said.calls)
            /\ (client # "gemini" => event.calls = said.calls)
      BY <1>1, <2>6 DEF RequestInv, Announced, CallsKept
    <3>3. msg' = [text |-> msg.text, calls |-> event.calls, complete |-> TRUE]
      BY <2>6, MessageFits DEF Messages
    <3>4. msg'.calls = event.calls
      BY <3>3
    <3>6. ~got.mixed => /\ Answer!ToSet(msg'.calls) = Answer!ToSet(said.calls)
                        /\ (client # "gemini" => msg'.calls = said.calls)
      BY <3>2, <3>4 DEF ToSet, Answer!ToSet
    <3>7. got'.mixed = got.mixed
      BY <1>1
    <3>5. Answer!Complete
      BY <1>1, <2>0, <2>2, <3>1, <3>3, <3>4, <3>6, <3>7
         DEF Answer!Complete, Heard
    <3>. QED BY <3>5 DEF Answer!Next
  <2>. QED BY <1>3, <2>3, <2>4, <2>5, <2>6, Taking
<1>. QED BY <1>2, <1>3, Taking

\* Every step is one of the abstract request, or none of its.
LEMMA NextAnswer ==
  ASSUME RequestInv, TakenInv, [Next]_vars
  PROVE  [Answer!Next]_(Answer!vars)
<1>0. RequestInv'
  BY NextRequest
<1>1. CASE Loop
  BY <1>0, <1>1, LoopParts, LoopAnswer, SendAnswer
<1>2. CASE CreateMessage \/ NextEvent
  <2>1. UNCHANGED <<client, mode, cancelled, got, msg>> /\ Heard' = Heard /\ Waiting
    BY <1>2 DEF CreateMessage, NextEvent, Heard, Waiting, Outcomes, request, server
  <2>2. CASE agent' = "receiving"
    <3>1. Out' = Out
      BY <2>1, <2>2 DEF Out, Waiting, Outcomes
    <3>. QED BY <2>1, <3>1, Unheard
  <2>3. CASE agent' \in {"canceled", "failed"}
    <3>1. agent' = "canceled" => cancelled
      BY <1>2 DEF CreateMessage, NextEvent
    <3>. QED BY <2>1, <2>3, <3>1, EndsHow DEF Outcomes
  <2>. QED BY <1>2, <2>2, <2>3 DEF CreateMessage, NextEvent
<1>3. CASE Closed
  <2>1. /\ UNCHANGED <<client, mode, cancelled, got, msg>> /\ Heard' = Heard /\ Waiting
        /\ agent' = IF msg.complete THEN "completed" ELSE "silent"
    BY <1>3 DEF Closed, Heard, Waiting, Outcomes, request, server
  <2>. QED BY <2>1, EndsHow DEF Outcomes
<1>4. CASE Receive
  BY <1>0, <1>4, ReceiveAnswer
<1>5. CASE Cancel
  <2>1. /\ UNCHANGED <<client, mode, got, msg>> /\ Heard' = Heard /\ Out' = Out /\ Out = "none"
        /\ cancelled' = TRUE
    BY <1>5 DEF Cancel, Over, Heard, Out, Waiting, request, server
  <2>2. Answer!Cancel
    BY <2>1 DEF Answer!Cancel, Heard, Out
  <2>. QED BY <2>2 DEF Answer!Next
<1>6. CASE TokenExpires \/ UNCHANGED vars
  <2>1. UNCHANGED <<client, mode, cancelled, got, msg>> /\ Heard' = Heard /\ Out' = Out
    BY <1>6 DEF TokenExpires, vars, Heard, Out, Waiting, request, server
  <2>. QED BY <2>1, Unheard
<1>. QED BY <1>1, <1>2, <1>3, <1>4, <1>5, <1>6 DEF Next, Reader

\* Every client, with its retries and whatever breaks, implements the abstract request
\* that AgentTurn takes its streams from: nothing taken belongs to an attempt that was
\* given up, what is complete has all (the calls unless they came mixed up), and a
\* wait ends once.
THEOREM ImplementsModelAnswer == Spec => AnswerTaken
<1>1. Init => TakenInv
  <2> SUFFICES ASSUME Init PROVE TakenInv
    OBVIOUS
  <2>1. /\ said.texts = 0 /\ said.calls = <<>> /\ msg.calls = <<>> /\ ~msg.complete
        /\ pc = "call" /\ (mode = "send" => agent = "receiving")
    BY Empties DEF Init
  <2>. QED BY <2>1 DEF TakenInv, StaysComplete, SendQuiet, CallsTaken, Waiting, Outcomes
<1>2. Init => Answer!Init
  <2> SUFFICES ASSUME Init PROVE Answer!Init
    OBVIOUS
  <2>1. Heard = [texts |-> 0, calls |-> <<>>]
    BY Empties DEF Init, Heard
  <2>2. Out = "none" /\ got.mixed = FALSE
    BY DEF Init, Fresh, Out, Waiting, Outcomes
  <2>. QED BY <2>1, <2>2 DEF Init, Answer!Init, Heard, Out
<1>3. RequestInv /\ TakenInv /\ [Next]_vars => [Answer!Next]_(Answer!vars)
  BY NextAnswer
<1>. QED BY <1>1, <1>2, <1>3, InitRequest, NextRequest, TakenNext, PTL
     DEF Spec, AnswerTaken, Answer!Spec

=============================================================================
