-------------------------- MODULE AgentTurnProofs --------------------------
(***************************************************************************)
(* Proofs about AgentTurn, for any number of runs, calls and requests:     *)
(* stored results tell what happened, a denied turn asks nothing more, the *)
(* message of a run that is over says how it ended, what a run sends is    *)
(* what is stored, and in it every call has its result.                    *)
(***************************************************************************)
EXTENDS AgentTurn, FiniteSetTheorems, TLAPS

Messages ==
  {m \in [role : Roles, calls : Seq(Calls), results : Seq(Results), finish : FinishReasons] :
     Len(m.calls) <= MaxCalls /\ Len(m.results) <= MaxCalls}

Busy(r)    == pc[r] \in {"streaming", "completed", "tools", "call"}
InTools(r) == pc[r] \in {"tools", "call"}

Types ==
  /\ messages \in Seq(Messages)
  /\ summaryId \in 0 .. Len(messages) /\ summaryAt \in 0 .. Len(messages)
  /\ summarizer \in {"idle", "sent", "stored", "done"}
  /\ pc \in [Runs -> States] /\ cancelled \subseteq Runs
  /\ history \in [Runs -> Seq(Messages)] /\ msg \in [Runs -> Messages]
  /\ at \in [Runs -> Nat] /\ results \in [Runs -> Seq(Results)] /\ next \in [Runs -> Nat \ {0}]
  /\ executed \subseteq CallIds /\ denied \subseteq CallIds
  /\ asked \in [Runs -> Nat] /\ disturbed \subseteq Clients
  /\ cut \subseteq Runs /\ unstored \subseteq Runs

Position(r) ==
  /\ msg[r].results = <<>>
  /\ \A i \in DOMAIN msg[r].calls : msg[r].calls[i].id = <<at[r], i>>
  /\ at[r] <= Len(messages)
  /\ at[r] # 0 => messages[at[r]].results = <<>>
  /\ Busy(r) => at[r] # 0

Progress(r) ==
  /\ next[r] <= Len(msg[r].calls) + 1
  /\ pc[r] = "call" => next[r] <= Len(msg[r].calls)
  /\ next[r] - 1 <= Len(results[r]) /\ Len(results[r]) <= Len(msg[r].calls)
  /\ ~InTools(r) => results[r] = <<>> /\ next[r] = 1

Apart == \A r, q \in Runs : r # q /\ at[r] = at[q] => at[r] = 0

Typed ==
  /\ Types
  /\ \A r \in Runs : Position(r) /\ Progress(r)
  /\ Apart

---------------------------------------------------------------------------
(* Types *)

LEMMA MessageTyped ==
  ASSUME NEW role \in Roles, NEW finish \in FinishReasons
  PROVE  Message(role, finish) \in Messages
<1>1. <<>> \in Seq(Calls) /\ <<>> \in Seq(Results) /\ Len(<<>>) = 0
  OBVIOUS
<1>2. MaxCalls \in Nat
  BY BoundsAssumption
<1>. QED BY <1>1, <1>2 DEF Message, Messages

\* The messages that are made.
LEMMA MadeTyped ==
  /\ Question \in Messages /\ Question.calls = <<>> /\ Question.results = <<>>
  /\ Blank \in Messages /\ Blank.calls = <<>> /\ Blank.results = <<>> /\ Blank.finish = ""
  /\ Compaction \in Messages /\ Compaction.calls = <<>> /\ Compaction.results = <<>>
<1>1. {"user", "assistant"} \subseteq Roles /\ {"stop", "", "end_turn"} \subseteq FinishReasons
  BY DEF Roles, FinishReasons
<1>2. Question \in Messages
  BY <1>1, MessageTyped DEF Question
<1>3. Blank \in Messages
  BY <1>1, MessageTyped DEF Blank
<1>5. Compaction \in Messages
  BY <1>1, MessageTyped DEF Compaction
<1>4. /\ Question.calls = <<>> /\ Question.results = <<>>
      /\ Blank.calls = <<>> /\ Blank.results = <<>> /\ Blank.finish = ""
      /\ Compaction.calls = <<>> /\ Compaction.results = <<>>
  BY DEF Question, Blank, Compaction, Message
<1>. QED BY <1>2, <1>3, <1>4, <1>5

LEMMA AnswersTyped ==
  ASSUME NEW x \in Seq(Results), Len(x) <= MaxCalls
  PROVE  Answers(x) \in Messages /\ Answers(x).calls = <<>> /\ Answers(x).results = x
<1>. DEFINE m == [role |-> "tool", calls |-> <<>>, results |-> x, finish |-> "stop"]
<1>1. Answers(x) = m
  BY DEF Answers, Message
<1>2. <<>> \in Seq(Calls) /\ Len(<<>>) = 0 /\ MaxCalls \in Nat
  BY BoundsAssumption
<1>3. "tool" \in Roles /\ "stop" \in FinishReasons
  BY DEF Roles, FinishReasons
<1>4. m \in Messages
  BY <1>2, <1>3 DEF Messages
<1>. QED BY <1>1, <1>4

LEMMA EmptySequence == DOMAIN <<>> = {} /\ Len(<<>>) = 0
OBVIOUS

LEMMA WindowTyped ==
  ASSUME Types
  PROVE  Window \in Seq(Messages)
<1>1. CASE summaryId = 0
  BY <1>1 DEF Types, Window
<1>2. CASE summaryId # 0
  <2>1. messages \in Seq(Messages) /\ summaryId \in 1 .. Len(messages)
    BY <1>2 DEF Types
  <2>2. messages[summaryId] \in Messages
    BY <2>1
  <2>3. [messages[summaryId] EXCEPT !.role = "user"] \in Messages
    BY <2>2 DEF Messages, Roles
  <2>4. SubSeq(messages, summaryId + 1, Len(messages)) \in Seq(Messages)
    BY <2>1
  <2>5. <<[messages[summaryId] EXCEPT !.role = "user"]>> \in Seq(Messages)
    BY <2>3
  <2>. QED BY <1>2, <2>4, <2>5 DEF Window
<1>. QED BY <1>1, <1>2

\* A result is put into its place.
LEMMA WithResult ==
  ASSUME NEW seq \in Seq(Results), NEW x \in Results, NEW i \in 1 .. Len(seq) + 1
  PROVE  /\ With(seq, i, x) \in Seq(Results)
         /\ Len(With(seq, i, x)) = IF i > Len(seq) THEN i ELSE Len(seq)
         /\ With(seq, i, x)[i] = x
         /\ \A k \in 1 .. Len(seq) : k # i => With(seq, i, x)[k] = seq[k]
<1>. DEFINE n == IF i > Len(seq) THEN i ELSE Len(seq)
<1>1. n \in Nat /\ i \in 1 .. n /\ 1 .. Len(seq) \subseteq 1 .. n
  OBVIOUS
<1>2. With(seq, i, x) = [k \in 1 .. n |-> IF k = i THEN x ELSE seq[k]]
  BY DEF With
<1>3. \A k \in 1 .. n : k # i => k \in 1 .. Len(seq)
  OBVIOUS
<1>4. \A k \in 1 .. n : (IF k = i THEN x ELSE seq[k]) \in Results
  BY <1>3
<1>5. With(seq, i, x) \in [1 .. n -> Results]
  BY <1>2, <1>4
<1>6. With(seq, i, x) \in Seq(Results) /\ Len(With(seq, i, x)) = n
  BY <1>1, <1>5
<1>. QED BY <1>1, <1>2, <1>6

\* A run at a call: what is in hand.
LEMMA CallTyped ==
  ASSUME Typed, NEW r \in Runs
  PROVE  /\ msg[r] \in Messages /\ msg[r].calls \in Seq(Calls) /\ Len(msg[r].calls) <= MaxCalls
         /\ results[r] \in Seq(Results) /\ next[r] \in Nat \ {0} /\ at[r] \in Nat
         /\ \A i \in 1 .. Len(msg[r].calls) :
              msg[r].calls[i] \in Calls /\ msg[r].calls[i].id = <<at[r], i>>
              /\ <<at[r], i>> \in CallIds
<1>1. /\ msg[r] \in Messages /\ results[r] \in Seq(Results) /\ next[r] \in Nat \ {0} /\ at[r] \in Nat
  BY DEF Typed, Types
<1>2. msg[r].calls \in Seq(Calls) /\ Len(msg[r].calls) <= MaxCalls
  BY <1>1 DEF Messages
<1>3. \A i \in 1 .. Len(msg[r].calls) :
        msg[r].calls[i] \in Calls /\ msg[r].calls[i].id = <<at[r], i>>
  BY <1>2 DEF Typed, Position
<1>4. \A i \in 1 .. Len(msg[r].calls) : <<at[r], i>> \in CallIds
  BY <1>1, <1>2, BoundsAssumption DEF CallIds
<1>. QED BY <1>1, <1>2, <1>3, <1>4

\* The calls from i on are canceled.
LEMMA CanceledResults ==
  ASSUME Typed, NEW r \in Runs, NEW i \in 1 .. Len(msg[r].calls), i - 1 <= Len(results[r])
  PROVE  /\ CanceledFrom(r, i) \in Seq(Results)
         /\ Len(CanceledFrom(r, i)) = Len(msg[r].calls)
         /\ \A k \in 1 .. Len(msg[r].calls) : k < i => CanceledFrom(r, i)[k] = results[r][k]
         /\ \A k \in 1 .. Len(msg[r].calls) : k >= i =>
              CanceledFrom(r, i)[k].id = <<at[r], k>> /\ CanceledFrom(r, i)[k].content = "canceled"
<1>. DEFINE n == Len(msg[r].calls)
<1>1. /\ msg[r].calls \in Seq(Calls) /\ results[r] \in Seq(Results)
      /\ \A k \in 1 .. n : msg[r].calls[k].id = <<at[r], k>> /\ <<at[r], k>> \in CallIds
  BY CallTyped
<1>2. DOMAIN msg[r].calls = 1 .. n /\ n \in Nat
  BY <1>1
<1>3. CanceledFrom(r, i) = [k \in 1 .. n |-> IF k < i THEN results[r][k]
                                             ELSE [id |-> <<at[r], k>>, content |-> "canceled"]]
  BY <1>1, <1>2 DEF CanceledFrom, Result
<1>4. \A k \in 1 .. n : k < i => results[r][k] \in Results
  BY <1>1
<1>5. \A k \in 1 .. n : [id |-> <<at[r], k>>, content |-> "canceled"] \in Results
  BY <1>1 DEF Results
<1>6. CanceledFrom(r, i) \in [1 .. n -> Results]
  BY <1>3, <1>4, <1>5
<1>. QED BY <1>2, <1>3, <1>6

---------------------------------------------------------------------------
(* Steps *)

\* The table only grows, and no results in it change.
Grows ==
  /\ messages' \in Seq(Messages) /\ Len(messages) <= Len(messages')
  /\ \A i \in 1 .. Len(messages) : messages'[i].results = messages[i].results

\* The step is one of r's.
Only(r) ==
  \A q \in Runs \ {r} :
    /\ pc'[q] = pc[q] /\ msg'[q] = msg[q] /\ at'[q] = at[q]
    /\ results'[q] = results[q] /\ next'[q] = next[q]

LEMMA Lengths ==
  ASSUME Types, Grows
  PROVE  /\ Len(messages) \in Nat /\ Len(messages') \in Nat /\ Len(messages) <= Len(messages')
         /\ \A q \in Runs : at[q] \in Nat
<1>1. messages \in Seq(Messages) /\ \A q \in Runs : at[q] \in Nat
  BY DEF Types
<1>2. messages' \in Seq(Messages) /\ Len(messages) <= Len(messages')
  BY DEF Grows
<1>. QED BY <1>1, <1>2

LEMMA GotoTyped ==
  ASSUME Types, NEW r \in Runs, NEW l \in States, Goto(r, l)
  PROVE  pc' \in [Runs -> States] /\ pc'[r] = l /\ \A q \in Runs \ {r} : pc'[q] = pc[q]
BY DEF Types, Goto

LEMMA SameMessages ==
  ASSUME Types, messages' = messages
  PROVE  Grows /\ Len(messages') = Len(messages)
<1>1. Len(messages) \in Nat /\ messages \in Seq(Messages)
  BY DEF Types
<1>. QED BY <1>1 DEF Grows

LEMMA AppendGrows ==
  ASSUME Types, NEW m \in Messages, messages' = Append(messages, m)
  PROVE  /\ Grows /\ Len(messages') = Len(messages) + 1 /\ messages'[Len(messages) + 1] = m
         /\ \A i \in 1 .. Len(messages) : messages'[i] = messages[i]
<1>1. Len(messages) \in Nat /\ messages \in Seq(Messages)
  BY DEF Types
<1>2. /\ messages' \in Seq(Messages) /\ Len(messages') = Len(messages) + 1
      /\ messages'[Len(messages) + 1] = m
      /\ \A i \in 1 .. Len(messages) : messages'[i] = messages[i]
  BY <1>1
<1>. QED BY <1>1, <1>2 DEF Grows

LEMMA RangesKept ==
  ASSUME Types, Grows
  PROVE  summaryId \in 0 .. Len(messages') /\ summaryAt \in 0 .. Len(messages')
<1>1. Len(messages) \in Nat /\ Len(messages') \in Nat /\ Len(messages) <= Len(messages')
  BY DEF Types, Grows
<1>. QED BY <1>1 DEF Types

\* A run without a message in hand.
LEMMA EmptyHanded ==
  ASSUME NEW r \in Runs, msg'[r] = Blank, results'[r] = <<>>, next'[r] = 1, pc'[r] # "call"
  PROVE  /\ msg'[r].results = <<>> /\ msg'[r].calls = <<>> /\ DOMAIN msg'[r].calls = {}
         /\ Progress(r)'
<1>1. msg'[r].results = <<>> /\ msg'[r].calls = <<>>
  BY MadeTyped
<1>2. DOMAIN msg'[r].calls = {} /\ Len(msg'[r].calls) = 0 /\ Len(results'[r]) = 0
  BY <1>1, EmptySequence
<1>. QED BY <1>1, <1>2 DEF Progress

\* A run stores its message anew.
LEMMA StoredGrows ==
  ASSUME Typed, NEW r \in Runs, at[r] # 0, NEW m \in Messages, m.results = <<>>,
         messages' = Stored(r, m)
  PROVE  /\ Grows /\ Len(messages') = Len(messages) /\ at[r] \in 1 .. Len(messages)
         /\ messages'[at[r]] = m
         /\ \A i \in 1 .. Len(messages) : i # at[r] => messages'[i] = messages[i]
<1>1. Len(messages) \in Nat /\ messages \in Seq(Messages) /\ at[r] \in 1 .. Len(messages)
  BY DEF Typed, Types, Position
<1>2. messages[at[r]].results = <<>>
  BY DEF Typed, Position
<1>3. /\ messages' \in Seq(Messages) /\ Len(messages') = Len(messages) /\ messages'[at[r]] = m
      /\ \A i \in 1 .. Len(messages) : i # at[r] => messages'[i] = messages[i]
  BY <1>1 DEF Stored
<1>. QED BY <1>1, <1>2, <1>3 DEF Grows

\* processGeneration returns.
LEMMA ExitTyped ==
  ASSUME Types, NEW r \in Runs, Exit(r)
  PROVE  /\ pc' \in [Runs -> States] /\ history' \in [Runs -> Seq(Messages)]
         /\ msg' \in [Runs -> Messages] /\ results' \in [Runs -> Seq(Results)]
         /\ next' \in [Runs -> Nat \ {0}]
         /\ pc'[r] = "done" /\ msg'[r] = Blank /\ results'[r] = <<>> /\ next'[r] = 1
         /\ \A q \in Runs \ {r} : /\ pc'[q] = pc[q] /\ msg'[q] = msg[q]
                                  /\ results'[q] = results[q] /\ next'[q] = next[q]
<1>1. Goto(r, "done") /\ "done" \in States
  BY DEF Exit, States
<1>2. <<>> \in Seq(Messages) /\ <<>> \in Seq(Results)
  OBVIOUS
<1>3. Blank \in Messages
  BY MadeTyped
<1>4. /\ pc' \in [Runs -> States] /\ pc'[r] = "done"
      /\ \A q \in Runs \ {r} : pc'[q] = pc[q]
  BY <1>1, GotoTyped
<1>5. history' \in [Runs -> Seq(Messages)]
  BY <1>2 DEF Exit, Types
<1>6. /\ msg' \in [Runs -> Messages] /\ msg'[r] = Blank
      /\ \A q \in Runs \ {r} : msg'[q] = msg[q]
  BY <1>3 DEF Exit, Types
<1>7. /\ results' \in [Runs -> Seq(Results)] /\ results'[r] = <<>>
      /\ \A q \in Runs \ {r} : results'[q] = results[q]
  BY <1>2 DEF Exit, Types
<1>8. /\ next' \in [Runs -> Nat \ {0}] /\ next'[r] = 1
      /\ \A q \in Runs \ {r} : next'[q] = next[q]
  BY DEF Exit, Types
<1>. QED BY <1>4, <1>5, <1>6, <1>7, <1>8

\* What a step of one run must keep for all to be in order again.
LEMMA StepTyped ==
  ASSUME Typed, Types', NEW r \in Runs, Grows, Only(r), Position(r)', Progress(r)',
         at'[r] = at[r] \/ at'[r] > Len(messages)
  PROVE  Typed'
<1>1. Len(messages) \in Nat /\ \A q \in Runs : at[q] \in Nat /\ at[q] <= Len(messages)
  <2>1. Len(messages) \in Nat /\ \A q \in Runs : at[q] \in Nat
    BY Lengths DEF Typed
  <2>2. \A q \in Runs : at[q] <= Len(messages)
    BY <2>1 DEF Typed, Position
  <2>. QED BY <2>1, <2>2
<1>2. ASSUME NEW q \in Runs \ {r} PROVE Position(q)' /\ Progress(q)'
  <2>1. Position(q) /\ Progress(q)
    BY DEF Typed
  <2>2. /\ pc'[q] = pc[q] /\ msg'[q] = msg[q] /\ at'[q] = at[q]
        /\ results'[q] = results[q] /\ next'[q] = next[q]
    BY DEF Only
  <2>3. at[q] # 0 => messages'[at[q]].results = messages[at[q]].results
    BY <1>1 DEF Grows
  <2>4. at[q] <= Len(messages')
    BY <1>1 DEF Grows, Types
  <2>5. Position(q)'
    BY <2>1, <2>2, <2>3, <2>4 DEF Position, Busy
  <2>6. Progress(q)'
    BY <2>1, <2>2 DEF Progress, InTools
  <2>. QED BY <2>5, <2>6
<1>3. \A q \in Runs \ {r} : at'[q] = at[q]
  BY DEF Only
<1>4. Apart
  BY DEF Typed
<1>5. Apart'
  BY <1>1, <1>3, <1>4 DEF Apart
<1>. QED BY <1>2, <1>5 DEF Typed

\* A step of the summary.
LEMMA SummaryTyped ==
  ASSUME Typed, Types', Grows, UNCHANGED runVars
  PROVE  Typed'
<1>1. Len(messages) \in Nat /\ \A q \in Runs : at[q] \in Nat /\ at[q] <= Len(messages)
  BY DEF Typed, Types, Position
<1>2. ASSUME NEW q \in Runs PROVE Position(q)' /\ Progress(q)'
  <2>1. Position(q) /\ Progress(q)
    BY DEF Typed
  <2>2. UNCHANGED <<pc, msg, at, results, next>>
    BY DEF runVars
  <2>3. at[q] # 0 => messages'[at[q]].results = messages[at[q]].results
    BY <1>1 DEF Grows
  <2>4. at[q] <= Len(messages')
    BY <1>1 DEF Grows, Types
  <2>5. Position(q)'
    BY <2>1, <2>2, <2>3, <2>4 DEF Position, Busy
  <2>6. Progress(q)'
    BY <2>1, <2>2 DEF Progress, InTools
  <2>. QED BY <2>5, <2>6
<1>3. Apart'
  BY DEF Typed, Apart, runVars
<1>. QED BY <1>2, <1>3 DEF Typed

---------------------------------------------------------------------------
(* The types, action by action *)

LEMMA StartTyped ==
  ASSUME Typed, NEW r \in Runs, Start(r)
  PROVE  Typed' /\ Grows /\ Only(r)
<1>1. Types /\ "listed" \in States
  BY DEF Typed, States
<1>2. Grows /\ Len(messages') = Len(messages)
  BY <1>1, SameMessages DEF Start
<1>3. pc' \in [Runs -> States] /\ pc'[r] = "listed" /\ \A q \in Runs \ {r} : pc'[q] = pc[q]
  BY <1>1, GotoTyped DEF Start
<1>4. history' \in [Runs -> Seq(Messages)]
  BY <1>1, WindowTyped DEF Start, Types
<1>5. disturbed' \subseteq Clients
  BY <1>1 DEF Start, Types
<1>6. Types'
  BY <1>1, <1>3, <1>4, <1>5 DEF Types, Start, summary
<1>7. Only(r)
  BY <1>3 DEF Only, Start
<1>8. Position(r)' /\ Progress(r)'
  BY <1>1, <1>3 DEF Typed, Position, Progress, Start, Busy, InTools
<1>. QED BY <1>2, <1>6, <1>7, <1>8, StepTyped DEF Start

LEMMA CreateUserMessageTyped ==
  ASSUME Typed, NEW r \in Runs, CreateUserMessage(r)
  PROVE  Typed' /\ Grows /\ Only(r)
<1>1. Types /\ "loop" \in States /\ Question \in Messages
  BY MadeTyped DEF Typed, States
<1>2. /\ Grows /\ Len(messages') = Len(messages) + 1
      /\ \A i \in 1 .. Len(messages) : messages'[i] = messages[i]
  BY <1>1, AppendGrows DEF CreateUserMessage
<1>3. pc' \in [Runs -> States] /\ pc'[r] = "loop" /\ \A q \in Runs \ {r} : pc'[q] = pc[q]
  BY <1>1, GotoTyped DEF CreateUserMessage
<1>4. history' \in [Runs -> Seq(Messages)]
  <2>1. Append(history[r], Question) \in Seq(Messages)
    BY <1>1 DEF Types
  <2>. QED BY <1>1, <2>1 DEF CreateUserMessage, Types
<1>5. Len(messages) \in Nat /\ at[r] \in Nat /\ at[r] <= Len(messages)
  BY DEF Typed, Types, Position
<1>6. Types'
  BY <1>1, <1>2, <1>3, <1>4, RangesKept DEF Types, CreateUserMessage, ghosts, summary, Grows
<1>7. Only(r)
  BY <1>3 DEF Only, CreateUserMessage
<1>8. Position(r)' /\ Progress(r)'
  BY <1>2, <1>3, <1>5 DEF Typed, Position, Progress, CreateUserMessage, Busy, InTools
<1>. QED BY <1>2, <1>6, <1>7, <1>8, StepTyped DEF CreateUserMessage

LEMMA RequestTyped ==
  ASSUME Typed, NEW r \in Runs, Request(r)
  PROVE  Typed' /\ Grows /\ Only(r)
<1>1. Types /\ "streaming" \in States /\ Blank \in Messages
  BY MadeTyped DEF Typed, States
<1>2. /\ Grows /\ Len(messages') = Len(messages) + 1 /\ messages'[Len(messages) + 1] = Blank
  BY <1>1, AppendGrows DEF Request
<1>3. pc' \in [Runs -> States] /\ pc'[r] = "streaming" /\ \A q \in Runs \ {r} : pc'[q] = pc[q]
  BY <1>1, GotoTyped DEF Request
<1>4. Len(messages) \in Nat
  BY <1>1 DEF Types
<1>5. at' \in [Runs -> Nat] /\ at'[r] = Len(messages) + 1 /\ \A q \in Runs \ {r} : at'[q] = at[q]
  <2>1. at \in [Runs -> Nat] /\ at' = [at EXCEPT ![r] = Len(messages) + 1]
    BY <1>1 DEF Types, Request
  <2>. QED BY <1>4, <2>1
<1>6. msg' \in [Runs -> Messages] /\ msg'[r] = Blank /\ \A q \in Runs \ {r} : msg'[q] = msg[q]
  <2>1. msg \in [Runs -> Messages] /\ msg' = [msg EXCEPT ![r] = Blank]
    BY <1>1 DEF Types, Request
  <2>. QED BY <1>1, <2>1
<1>7. asked' \in [Runs -> Nat]
  <2>1. asked \in [Runs -> Nat] /\ asked' = [asked EXCEPT ![r] = @ + 1]
    BY <1>1 DEF Types, Request
  <2>. QED BY <2>1
<1>8. Types'
  BY <1>1, <1>2, <1>3, <1>5, <1>6, <1>7, RangesKept DEF Types, Request, summary, Grows
<1>9. Only(r)
  BY <1>3, <1>5, <1>6 DEF Only, Request
<1>10. results'[r] = <<>> /\ next'[r] = 1
  BY DEF Request, Typed, Progress, InTools
<1>11. Position(r)' /\ Progress(r)'
  <2>1. /\ msg'[r].results = <<>> /\ DOMAIN msg'[r].calls = {} /\ Progress(r)'
    BY <1>3, <1>6, <1>10, EmptyHanded
  <2>2. at'[r] = Len(messages') /\ at'[r] # 0 /\ messages'[at'[r]] = Blank
    BY <1>2, <1>4, <1>5
  <2>4. messages'[at'[r]].results = <<>>
    BY <2>2, MadeTyped
  <2>3. at'[r] <= Len(messages')
    BY <1>2, <1>4, <2>2
  <2>. QED BY <2>1, <2>2, <2>3, <2>4 DEF Position
<1>. QED BY <1>2, <1>4, <1>5, <1>8, <1>9, <1>11, StepTyped

LEMMA FinishedTyped ==
  ASSUME NEW m \in Messages, NEW f \in FinishReasons
  PROVE  /\ [m EXCEPT !.finish = f] \in Messages /\ [m EXCEPT !.finish = f].finish = f
         /\ [m EXCEPT !.finish = f].calls = m.calls /\ [m EXCEPT !.finish = f].results = m.results
BY DEF Messages

\* The message in hand, with a reason to stop.
LEMMA FinishTyped ==
  ASSUME Typed, NEW r \in Runs, NEW f \in FinishReasons
  PROVE  \E m \in Messages : /\ m = [msg[r] EXCEPT !.finish = f]
                             /\ m.finish = f /\ m.calls = msg[r].calls /\ m.results = <<>>
<1>1. msg[r] \in Messages /\ msg[r].results = <<>>
  BY DEF Typed, Types, Position
<1>. DEFINE m == [msg[r] EXCEPT !.finish = f]
<1>2. m \in Messages /\ m.finish = f /\ m.calls = msg[r].calls /\ m.results = msg[r].results
  BY <1>1, FinishedTyped
<1>3. m.results = <<>>
  BY <1>1, <1>2
<1>. HIDE DEF m
<1>4. m = [msg[r] EXCEPT !.finish = f]
  BY DEF m
<1>. QED BY <1>2, <1>3, <1>4, Zenon

\* A run leaves processGeneration, having stored its message or not.
LEMMA LeaveTyped ==
  ASSUME Typed, NEW r \in Runs, Exit(r), Grows, at' = at, cancelled' = cancelled,
         UNCHANGED <<executed, denied, summary>>, asked' \in [Runs -> Nat],
         disturbed' \subseteq Clients, cut' \subseteq Runs, unstored' \subseteq Runs
  PROVE  Typed' /\ Only(r)
<1>1. Types
  BY DEF Typed
<1>2. /\ pc' \in [Runs -> States] /\ history' \in [Runs -> Seq(Messages)]
      /\ msg' \in [Runs -> Messages] /\ results' \in [Runs -> Seq(Results)]
      /\ next' \in [Runs -> Nat \ {0}]
      /\ pc'[r] = "done" /\ msg'[r] = Blank /\ results'[r] = <<>> /\ next'[r] = 1
      /\ \A q \in Runs \ {r} : /\ pc'[q] = pc[q] /\ msg'[q] = msg[q]
                               /\ results'[q] = results[q] /\ next'[q] = next[q]
  BY <1>1, ExitTyped
<1>3. Types'
  BY <1>1, <1>2, RangesKept DEF Types, Grows, summary
<1>4. Only(r)
  BY <1>2 DEF Only
<1>5. msg'[r].results = <<>> /\ DOMAIN msg'[r].calls = {} /\ Progress(r)'
  BY <1>2, EmptyHanded
<1>6. /\ Len(messages) \in Nat /\ Len(messages') \in Nat /\ Len(messages) <= Len(messages')
      /\ at[r] \in Nat /\ at[r] <= Len(messages)
      /\ at[r] # 0 => messages[at[r]].results = <<>>
  BY <1>3 DEF Typed, Types, Position, Grows
<1>7. at[r] # 0 => messages'[at[r]].results = <<>>
  BY <1>6 DEF Grows
<1>8. Position(r)'
  BY <1>2, <1>5, <1>6, <1>7 DEF Position, Busy
<1>. QED BY <1>3, <1>4, <1>5, <1>8, StepTyped

LEMMA StopBeforeRequestTyped ==
  ASSUME Typed, NEW r \in Runs, StopBeforeRequest(r)
  PROVE  Typed' /\ Grows /\ Only(r)
<1>1. Grows
  BY SameMessages DEF Typed, StopBeforeRequest
<1>2. asked' \in [Runs -> Nat] /\ disturbed' \subseteq Clients /\ cut' \subseteq Runs /\ unstored' \subseteq Runs
  BY DEF Typed, Types, StopBeforeRequest, ghosts
<1>. QED BY <1>1, <1>2, LeaveTyped DEF StopBeforeRequest, ghosts

LEMMA RequestFailsTyped ==
  ASSUME Typed, NEW r \in Runs, RequestFails(r)
  PROVE  Typed' /\ Grows /\ Only(r)
<1>1. Grows
  BY SameMessages DEF Typed, RequestFails
<1>2. disturbed' \subseteq Clients /\ cut' \subseteq Runs /\ unstored' \subseteq Runs
  BY DEF Typed, Types, RequestFails
<1>3. asked' \in [Runs -> Nat]
  <2>1. asked \in [Runs -> Nat] /\ asked' = [asked EXCEPT ![r] = @ + 1]
    BY DEF Typed, Types, RequestFails
  <2>. QED BY <2>1
<1>. QED BY <1>1, <1>2, <1>3, LeaveTyped DEF RequestFails

LEMMA StoreResultsFailsTyped ==
  ASSUME Typed, NEW r \in Runs, StoreResultsFails(r)
  PROVE  Typed' /\ Grows /\ Only(r)
<1>1. Grows
  BY SameMessages DEF Typed, StoreResultsFails
<1>2. asked' \in [Runs -> Nat] /\ disturbed' \subseteq Clients /\ cut' \subseteq Runs /\ unstored' \subseteq Runs
  BY DEF Typed, Types, StoreResultsFails, LeavesCallsOpen
<1>. QED BY <1>1, <1>2, LeaveTyped DEF StoreResultsFails

LEMMA StreamFailsTyped ==
  ASSUME Typed, NEW r \in Runs, StreamFails(r)
  PROVE  Typed' /\ Grows /\ Only(r)
<1>1. PICK m \in Messages : /\ m = [msg[r] EXCEPT !.finish = "canceled"]
                            /\ m.finish = "canceled" /\ m.calls = msg[r].calls /\ m.results = <<>>
  BY FinishTyped DEF FinishReasons
<1>2. messages' = Stored(r, m) \/ messages' = messages
  BY <1>1 DEF StreamFails, Finished
<1>3. at[r] # 0
  BY DEF Typed, Position, Busy, StreamFails
<1>4. Grows
  BY <1>1, <1>2, <1>3, StoredGrows, SameMessages DEF Typed
<1>5. asked' \in [Runs -> Nat] /\ disturbed' \subseteq Clients /\ cut' \subseteq Runs /\ unstored' \subseteq Runs
  BY DEF Typed, Types, StreamFails, LeavesCallsOpen, Finished
<1>6. /\ Exit(r) /\ at' = at /\ cancelled' = cancelled
      /\ UNCHANGED <<executed, denied, summary>>
  BY DEF StreamFails, Finished
<1>. QED BY <1>4, <1>5, <1>6, LeaveTyped

LEMMA CancelledInStreamTyped ==
  ASSUME Typed, NEW r \in Runs, CancelledInStream(r)
  PROVE  Typed' /\ Grows /\ Only(r)
<1>1. PICK m \in Messages : /\ m = [msg[r] EXCEPT !.finish = "canceled"]
                            /\ m.finish = "canceled" /\ m.calls = msg[r].calls /\ m.results = <<>>
  BY FinishTyped DEF FinishReasons
<1>2. messages' = Stored(r, m)
  BY <1>1 DEF CancelledInStream, Finished
<1>3. at[r] # 0
  BY DEF Typed, Position, Busy, CancelledInStream
<1>4. Grows
  BY <1>1, <1>2, <1>3, StoredGrows
<1>5. asked' \in [Runs -> Nat] /\ disturbed' \subseteq Clients /\ cut' \subseteq Runs /\ unstored' \subseteq Runs
  BY DEF Typed, Types, CancelledInStream, LeavesCallsOpen, Finished
<1>6. /\ Exit(r) /\ at' = at /\ cancelled' = cancelled
      /\ UNCHANGED <<executed, denied, summary>>
  BY DEF CancelledInStream, Finished
<1>. QED BY <1>4, <1>5, <1>6, LeaveTyped

\* Only the place in the code changes.
LEMMA PlaceTyped ==
  ASSUME Typed, NEW r \in Runs, NEW l \in {"tools", "call"}, Goto(r, l), Busy(r),
         l = "call" => next[r] <= Len(msg[r].calls),
         UNCHANGED <<messages, cancelled, history, msg, at, results, next, executed, denied, asked, summary>>,
         disturbed' \subseteq Clients, cut' \subseteq Runs, unstored' \subseteq Runs
  PROVE  Typed' /\ Grows /\ Only(r)
<1>1. Types /\ l \in States
  BY DEF Typed, States
<1>2. Grows
  BY <1>1, SameMessages
<1>3. pc' \in [Runs -> States] /\ pc'[r] = l /\ \A q \in Runs \ {r} : pc'[q] = pc[q]
  BY <1>1, GotoTyped
<1>4. Types'
  BY <1>1, <1>3 DEF Types, summary
<1>5. Only(r)
  BY <1>3 DEF Only
<1>6. Position(r)' /\ Progress(r)'
  BY <1>3 DEF Typed, Position, Progress, Busy, InTools
<1>. QED BY <1>2, <1>4, <1>5, <1>6, StepTyped

LEMMA StartToolsTyped ==
  ASSUME Typed, NEW r \in Runs, StartTools(r)
  PROVE  Typed' /\ Grows /\ Only(r)
<1>1. disturbed' \subseteq Clients /\ cut' \subseteq Runs /\ unstored' \subseteq Runs
  BY DEF Typed, Types, StartTools, ghosts
<1>. QED BY <1>1, PlaceTyped DEF StartTools, Busy, ghosts

LEMMA StreamClosedEarlyTyped ==
  ASSUME Typed, NEW r \in Runs, StreamClosedEarly(r)
  PROVE  Typed' /\ Grows /\ Only(r)
<1>1. disturbed' \subseteq Clients /\ cut' \subseteq Runs /\ unstored' \subseteq Runs
  BY DEF Typed, Types, StreamClosedEarly
<1>. QED BY <1>1, PlaceTyped DEF StreamClosedEarly, Busy

LEMMA StartToolTyped ==
  ASSUME Typed, NEW r \in Runs, StartTool(r)
  PROVE  Typed' /\ Grows /\ Only(r)
<1>1. disturbed' \subseteq Clients /\ cut' \subseteq Runs /\ unstored' \subseteq Runs
  BY DEF Typed, Types, StartTool, ghosts
<1>. QED BY <1>1, PlaceTyped DEF StartTool, ToolsLeft, Busy, ghosts

LEMMA ToolUseStartTyped ==
  ASSUME Typed, NEW r \in Runs, ToolUseStart(r)
  PROVE  Typed' /\ Grows /\ Only(r)
<1>. DEFINE n == Len(msg[r].calls)
            c == [id |-> <<at[r], n + 1>>, input |-> FALSE]
            calls == Append(msg[r].calls, c)
            m == [msg[r] EXCEPT !.calls = calls]
<1>0. /\ msg[r] \in Messages /\ msg[r].calls \in Seq(Calls) /\ at[r] \in Nat
      /\ \A i \in 1 .. n : msg[r].calls[i].id = <<at[r], i>>
  BY CallTyped
<1>1. n \in Nat /\ n < MaxCalls
  BY <1>0 DEF ToolUseStart
<1>2. c \in Calls
  BY <1>0, <1>1, BoundsAssumption DEF Calls, CallIds
<1>3. /\ calls \in Seq(Calls) /\ Len(calls) = n + 1
      /\ \A i \in 1 .. n : calls[i] = msg[r].calls[i]
      /\ calls[n + 1] = c
  BY <1>0, <1>2
<1>. HIDE DEF calls
<1>15. msg[r] \in Messages /\ calls \in Seq(Calls) /\ Len(calls) <= MaxCalls
  BY <1>0, <1>1, <1>3, BoundsAssumption
<1>4. m \in Messages /\ m.calls = calls /\ m.results = msg[r].results
  BY <1>15 DEF Messages
<1>5. messages' = Stored(r, m) /\ msg' = [msg EXCEPT ![r] = m]
  BY DEF ToolUseStart, Update, calls
<1>6. \A i \in 1 .. n + 1 : m.calls[i].id = <<at[r], i>>
  <2>1. \A i \in 1 .. n : m.calls[i].id = <<at[r], i>>
    BY <1>0, <1>3, <1>4
  <2>2. m.calls[n + 1].id = <<at[r], n + 1>>
    BY <1>3, <1>4
  <2>3. \A i \in 1 .. n + 1 : i \in 1 .. n \/ i = n + 1
    BY <1>1
  <2>. QED BY <2>1, <2>2, <2>3
<1>7. DOMAIN m.calls = 1 .. n + 1 /\ Len(m.calls) = n + 1
  BY <1>1, <1>3, <1>4
<1>. HIDE DEF m, c
<1>8. at[r] # 0 /\ m.results = <<>> /\ Types
  BY <1>4 DEF Typed, Position, Busy, ToolUseStart
<1>9. Grows /\ Len(messages') = Len(messages) /\ messages'[at[r]] = m
  BY <1>4, <1>5, <1>8, StoredGrows
<1>10. msg' \in [Runs -> Messages] /\ msg'[r] = m /\ \A q \in Runs \ {r} : msg'[q] = msg[q]
  BY <1>4, <1>5, <1>8 DEF Types
<1>11. Types'
  BY <1>8, <1>9, <1>10, RangesKept DEF Types, Grows, ToolUseStart, ghosts, summary
<1>12. Only(r)
  BY <1>10 DEF Only, ToolUseStart
<1>13. Position(r)'
  BY <1>6, <1>7, <1>8, <1>9, <1>10 DEF Typed, Position, Busy, ToolUseStart
<1>14. Progress(r)'
  BY <1>1, <1>7, <1>10 DEF Typed, Progress, InTools, ToolUseStart
<1>. QED BY <1>9, <1>11, <1>12, <1>13, <1>14, StepTyped DEF ToolUseStart

LEMMA StreamCompleteTyped ==
  ASSUME Typed, NEW r \in Runs, StreamComplete(r)
  PROVE  Typed' /\ Grows /\ Only(r)
<1>1. PICK n \in Len(msg[r].calls) .. MaxCalls, f \in {"end_turn", "tool_use"} :
        \E json \in [1 .. n -> BOOLEAN] :
          Update(r, [msg[r] EXCEPT !.finish = f, !.calls =
                       [i \in 1 .. n |-> [id |-> <<at[r], i>>, input |-> json[i]]]])
  BY DEF StreamComplete
<1>0. PICK json \in [1 .. n -> BOOLEAN] :
        Update(r, [msg[r] EXCEPT !.finish = f, !.calls =
                     [i \in 1 .. n |-> [id |-> <<at[r], i>>, input |-> json[i]]]])
  BY <1>1
<1>. DEFINE calls == [i \in 1 .. n |-> [id |-> <<at[r], i>>, input |-> json[i]]]
            m == [msg[r] EXCEPT !.finish = f, !.calls = calls]
<1>2. /\ msg[r] \in Messages /\ Len(msg[r].calls) \in Nat /\ at[r] \in Nat /\ n \in Nat /\ n <= MaxCalls
      /\ Len(msg[r].calls) <= n
  BY CallTyped, BoundsAssumption
<1>3. \A i \in 1 .. n : [id |-> <<at[r], i>>, input |-> json[i]] \in Calls
  BY <1>2, BoundsAssumption DEF Calls, CallIds
<1>4. calls \in Seq(Calls) /\ Len(calls) = n /\ DOMAIN calls = 1 .. n
      /\ \A i \in 1 .. n : calls[i].id = <<at[r], i>>
  BY <1>2, <1>3
<1>. HIDE DEF calls
<1>5. f \in FinishReasons
  BY DEF FinishReasons
<1>6. m \in Messages /\ m.calls = calls /\ m.results = msg[r].results
  BY <1>2, <1>4, <1>5 DEF Messages
<1>7. messages' = Stored(r, m) /\ msg' = [msg EXCEPT ![r] = m]
  BY <1>0 DEF Update, calls
<1>. HIDE DEF m
<1>8. at[r] # 0 /\ m.results = <<>> /\ Types
  BY <1>6 DEF Typed, Position, Busy, StreamComplete
<1>9. Grows /\ Len(messages') = Len(messages) /\ messages'[at[r]] = m
  BY <1>6, <1>7, <1>8, StoredGrows
<1>10. msg' \in [Runs -> Messages] /\ msg'[r] = m /\ \A q \in Runs \ {r} : msg'[q] = msg[q]
  BY <1>6, <1>7, <1>8 DEF Types
<1>11. /\ Goto(r, "completed") /\ "completed" \in States
       /\ UNCHANGED <<cancelled, history, at, results, next, ghosts, summary>>
  BY DEF StreamComplete, States
<1>12. pc' \in [Runs -> States] /\ pc'[r] = "completed" /\ \A q \in Runs \ {r} : pc'[q] = pc[q]
  BY <1>8, <1>11, GotoTyped
<1>13. Types'
  BY <1>8, <1>9, <1>10, <1>11, <1>12, RangesKept DEF Types, Grows, ghosts, summary
<1>14. Only(r)
  BY <1>10, <1>11, <1>12 DEF Only
<1>15. Position(r)'
  BY <1>4, <1>6, <1>8, <1>9, <1>10, <1>11, <1>12 DEF Typed, Position, Busy
<1>16. results[r] = <<>> /\ next[r] = 1 /\ Len(results[r]) = 0
  BY EmptySequence DEF Typed, Progress, InTools, StreamComplete
<1>17. Progress(r)'
  BY <1>2, <1>4, <1>6, <1>10, <1>11, <1>12, <1>16 DEF Progress, InTools
<1>. QED BY <1>9, <1>11, <1>13, <1>14, <1>15, <1>17, StepTyped

\* The result of the call the loop is at.
LEMMA ResultTyped ==
  ASSUME Typed, NEW r \in Runs, NEW content \in {"output", "missing", "denied", "canceled"},
         next[r] <= Len(msg[r].calls)
  PROVE  /\ next[r] \in 1 .. Len(msg[r].calls) /\ next[r] \in 1 .. Len(results[r]) + 1
         /\ Call(r).id = <<at[r], next[r]>> /\ Call(r).id \in CallIds
         /\ [id |-> Call(r).id, content |-> content] \in Results
<1>1. /\ msg[r].calls \in Seq(Calls) /\ results[r] \in Seq(Results) /\ next[r] \in Nat \ {0}
  BY CallTyped
<1>5. \A i \in 1 .. Len(msg[r].calls) :
        msg[r].calls[i].id = <<at[r], i>> /\ <<at[r], i>> \in CallIds
  BY CallTyped
<1>2. next[r] - 1 <= Len(results[r])
  BY DEF Typed, Progress
<1>4. Len(msg[r].calls) \in Nat /\ Len(results[r]) \in Nat
  BY <1>1
<1>3. next[r] \in 1 .. Len(msg[r].calls) /\ next[r] \in 1 .. Len(results[r]) + 1
  BY <1>1, <1>2, <1>4
<1>. QED BY <1>3, <1>5 DEF Call, Results

\* A result is put into its place and the loop goes on.
LEMMA NextCallTyped ==
  ASSUME Typed, Types', NEW r \in Runs, Grows, at' = at, NEW seq \in Seq(Results),
         msg'[r].calls = msg[r].calls, msg'[r].results = <<>>, \A q \in Runs \ {r} : msg'[q] = msg[q],
         next[r] <= Len(msg[r].calls), Len(seq) <= Len(msg[r].calls), next[r] <= Len(seq),
         results' = [results EXCEPT ![r] = seq], next' = [next EXCEPT ![r] = @ + 1],
         pc'[r] = "tools", \A q \in Runs \ {r} : pc'[q] = pc[q], InTools(r)
  PROVE  Typed' /\ Only(r)
<1>8. /\ msg[r].calls \in Seq(Calls) /\ next[r] \in Nat \ {0} /\ at[r] \in Nat
  BY CallTyped
<1>9. /\ results \in [Runs -> Seq(Results)] /\ next \in [Runs -> Nat \ {0}]
      /\ messages \in Seq(Messages) /\ messages' \in Seq(Messages)
  BY DEF Typed, Types, Grows
<1>1. /\ results \in [Runs -> Seq(Results)] /\ next \in [Runs -> Nat \ {0}]
      /\ Len(msg[r].calls) \in Nat /\ next[r] \in Nat \ {0} /\ at[r] \in Nat
      /\ Len(messages) \in Nat /\ Len(messages') \in Nat /\ Len(messages) <= Len(messages')
  BY <1>8, <1>9 DEF Grows
<1>2. results'[r] = seq /\ next'[r] = next[r] + 1
  BY <1>1
<1>3. \A q \in Runs \ {r} : results'[q] = results[q] /\ next'[q] = next[q]
  BY <1>1
<1>4. Only(r)
  BY <1>3 DEF Only
<1>5. Progress(r)'
  BY <1>1, <1>2 DEF Progress, InTools
<1>6. at[r] # 0 => messages'[at[r]].results = messages[at[r]].results
  BY <1>1 DEF Typed, Position, Grows
<1>7. Position(r)'
  BY <1>1, <1>6 DEF Typed, Position, Busy, InTools
<1>. QED BY <1>4, <1>5, <1>7, StepTyped

LEMMA AdvanceTyped ==
  ASSUME Types, NEW r \in Runs, NEW seq \in Seq(Results),
         results' = [results EXCEPT ![r] = seq], next' = [next EXCEPT ![r] = @ + 1]
  PROVE  results' \in [Runs -> Seq(Results)] /\ next' \in [Runs -> Nat \ {0}]
<1>1. results' \in [Runs -> Seq(Results)]
  BY DEF Types
<1>2. next[r] + 1 \in Nat \ {0}
  BY DEF Types
<1>3. next' \in [Runs -> Nat \ {0}]
  BY <1>2 DEF Types
<1>. QED BY <1>1, <1>3

LEMMA ToolNotFoundTyped ==
  ASSUME Typed, NEW r \in Runs, ToolNotFound(r)
  PROVE  Typed' /\ Grows /\ Only(r)
<1>. DEFINE x == [id |-> Call(r).id, content |-> "missing"]
            seq == With(results[r], next[r], x)
<1>1. next[r] <= Len(msg[r].calls) /\ InTools(r) /\ pc[r] = "tools"
  BY DEF ToolNotFound, ToolsLeft, InTools
<1>2. x \in Results /\ next[r] \in 1 .. Len(msg[r].calls) /\ next[r] \in 1 .. Len(results[r]) + 1
  BY <1>1, ResultTyped
<1>3. Types /\ results[r] \in Seq(Results) /\ Len(results[r]) <= Len(msg[r].calls)
  BY CallTyped DEF Typed, Progress
<1>4. seq \in Seq(Results) /\ Len(seq) <= Len(msg[r].calls) /\ next[r] <= Len(seq)
  BY <1>2, <1>3, WithResult
<1>5. results' = [results EXCEPT ![r] = seq] /\ next' = [next EXCEPT ![r] = @ + 1]
  BY DEF ToolNotFound, Result
<1>. HIDE DEF seq
<1>6. Grows
  BY <1>3, SameMessages DEF ToolNotFound
<1>7. Types'
  BY <1>3, <1>4, <1>5 DEF Types, ToolNotFound, ghosts, summary
<1>8. UNCHANGED <<pc, msg, at>> /\ msg[r].results = <<>>
  BY DEF ToolNotFound, Typed, Position
<1>. QED BY <1>1, <1>4, <1>5, <1>6, <1>7, <1>8, NextCallTyped

LEMMA RunToolTyped ==
  ASSUME Typed, NEW r \in Runs, RunTool(r)
  PROVE  Typed' /\ Grows /\ Only(r)
<1>. DEFINE x == [id |-> Call(r).id, content |-> "output"]
            seq == With(results[r], next[r], x)
<1>1. next[r] <= Len(msg[r].calls) /\ InTools(r) /\ Goto(r, "tools") /\ "tools" \in States
  BY DEF RunTool, InTools, Typed, Progress, States
<1>2. /\ x \in Results /\ next[r] \in 1 .. Len(msg[r].calls) /\ next[r] \in 1 .. Len(results[r]) + 1
      /\ Call(r).id \in CallIds
  BY <1>1, ResultTyped
<1>3. Types /\ results[r] \in Seq(Results) /\ Len(results[r]) <= Len(msg[r].calls)
  BY CallTyped DEF Typed, Progress
<1>4. seq \in Seq(Results) /\ Len(seq) <= Len(msg[r].calls) /\ next[r] <= Len(seq)
  BY <1>2, <1>3, WithResult
<1>5. results' = [results EXCEPT ![r] = seq] /\ next' = [next EXCEPT ![r] = @ + 1]
  BY DEF RunTool, Result
<1>6. executed' = executed \cup {Call(r).id}
  BY DEF RunTool
<1>. HIDE DEF seq
<1>7. Grows
  BY <1>3, SameMessages DEF RunTool
<1>8. pc' \in [Runs -> States] /\ pc'[r] = "tools" /\ \A q \in Runs \ {r} : pc'[q] = pc[q]
  BY <1>1, <1>3, GotoTyped
<1>9. UNCHANGED <<messages, cancelled, history, msg, at, denied, asked, disturbed, cut, unstored, summary>>
      /\ msg[r].results = <<>>
  BY DEF RunTool, Typed, Position
<1>10. /\ results' \in [Runs -> Seq(Results)] /\ next' \in [Runs -> Nat \ {0}]
       /\ executed' \subseteq CallIds
  BY <1>2, <1>3, <1>4, <1>5, <1>6, AdvanceTyped DEF Types
<1>11. Types'
  BY <1>3, <1>8, <1>9, <1>10 DEF Types, summary
<1>. QED BY <1>1, <1>4, <1>5, <1>7, <1>8, <1>9, <1>11, NextCallTyped

\* What ToolDenied makes of the results.
LEMMA DeniedResults ==
  ASSUME Typed, NEW r \in Runs, NEW seq, NEW x, next[r] <= Len(msg[r].calls),
         x = [id |-> Call(r).id, content |-> "denied"],
         seq = With(CanceledFrom(r, next[r]), next[r], x)
  PROVE  /\ seq \in Seq(Results) /\ Len(seq) = Len(msg[r].calls)
         /\ seq[next[r]].id = <<at[r], next[r]>> /\ seq[next[r]].content = "denied"
         /\ \A k \in 1 .. Len(msg[r].calls) : k < next[r] => seq[k] = results[r][k]
         /\ \A k \in 1 .. Len(msg[r].calls) : k > next[r] =>
              seq[k].id = msg[r].calls[k].id /\ seq[k].content = "canceled"
<1>. DEFINE c == CanceledFrom(r, next[r])
<1>1. /\ x \in Results /\ next[r] \in 1 .. Len(msg[r].calls) /\ next[r] \in 1 .. Len(results[r]) + 1
      /\ Call(r).id = <<at[r], next[r]>>
  BY ResultTyped
<1>2. /\ c \in Seq(Results) /\ Len(c) = Len(msg[r].calls)
      /\ \A k \in 1 .. Len(msg[r].calls) : k < next[r] => c[k] = results[r][k]
      /\ \A k \in 1 .. Len(msg[r].calls) : k >= next[r] =>
           c[k].id = <<at[r], k>> /\ c[k].content = "canceled"
  <2>1. next[r] - 1 <= Len(results[r])
    BY DEF Typed, Progress
  <2>. QED BY <1>1, <2>1, CanceledResults
<1>. HIDE DEF c
<1>3. seq = With(c, next[r], x)
  BY DEF c
<1>4. next[r] \in 1 .. Len(c) + 1 /\ ~(next[r] > Len(c)) /\ Len(c) \in Nat
  BY <1>1, <1>2
<1>5. /\ seq \in Seq(Results) /\ Len(seq) = Len(c) /\ seq[next[r]] = x
      /\ \A k \in 1 .. Len(c) : k # next[r] => seq[k] = c[k]
  <2>1. c \in Seq(Results) /\ x \in Results /\ next[r] \in 1 .. Len(c) + 1
    BY <1>1, <1>2, <1>4
  <2>2. /\ seq \in Seq(Results) /\ seq[next[r]] = x
        /\ Len(seq) = IF next[r] > Len(c) THEN next[r] ELSE Len(c)
        /\ \A k \in 1 .. Len(c) : k # next[r] => seq[k] = c[k]
    <3>1. /\ With(c, next[r], x) \in Seq(Results) /\ With(c, next[r], x)[next[r]] = x
          /\ Len(With(c, next[r], x)) = IF next[r] > Len(c) THEN next[r] ELSE Len(c)
          /\ \A k \in 1 .. Len(c) : k # next[r] => With(c, next[r], x)[k] = c[k]
      BY <2>1, WithResult
    <3>. QED BY <1>3, <3>1, Zenon
  <2>. QED BY <1>4, <2>2
<1>6. x.id = <<at[r], next[r]>> /\ x.content = "denied"
  BY <1>1
<1>7. next[r] \in Nat /\ \A k \in 1 .. Len(c) : k # next[r] => seq[k] = c[k]
  BY <1>2, <1>4, <1>5, CallTyped
<1>8. /\ \A k \in 1 .. Len(c) : k < next[r] => seq[k] = results[r][k]
      /\ \A k \in 1 .. Len(c) : k > next[r] => seq[k].id = msg[r].calls[k].id /\ seq[k].content = "canceled"
  <2>1. ASSUME NEW k \in 1 .. Len(c), k # next[r]
        PROVE  /\ k < next[r] => seq[k] = results[r][k]
               /\ k > next[r] => seq[k].id = msg[r].calls[k].id /\ seq[k].content = "canceled"
    <3>1. seq[k] = c[k] /\ k \in 1 .. Len(msg[r].calls) /\ next[r] \in Nat
      BY <1>2, <1>7, <2>1
    <3>2. msg[r].calls[k].id = <<at[r], k>>
      BY <3>1, CallTyped
    <3>. QED BY <1>2, <3>1, <3>2
  <2>. QED BY <1>7, <2>1
<1>. QED BY <1>2, <1>5, <1>6, <1>8

LEMMA ToolDeniedTyped ==
  ASSUME Typed, NEW r \in Runs, ToolDenied(r)
  PROVE  Typed' /\ Grows /\ Only(r)
<1>. DEFINE x == [id |-> Call(r).id, content |-> "denied"]
            seq == With(CanceledFrom(r, next[r]), next[r], x)
<1>1. next[r] <= Len(msg[r].calls) /\ InTools(r) /\ Goto(r, "tools") /\ "tools" \in States /\ Types
  BY DEF ToolDenied, InTools, Typed, Progress, States
<1>2. /\ next[r] \in 1 .. Len(msg[r].calls) /\ Call(r).id \in CallIds
  BY <1>1, ResultTyped
<1>3. seq \in Seq(Results) /\ Len(seq) = Len(msg[r].calls)
  BY <1>1, DeniedResults
<1>4. results' = [results EXCEPT ![r] = seq] /\ next' = [next EXCEPT ![r] = @ + 1]
  BY DEF ToolDenied, Result, Finished
<1>. HIDE DEF seq
<1>5. PICK m \in Messages : /\ m = [msg[r] EXCEPT !.finish = "permission_denied"]
                            /\ m.finish = "permission_denied" /\ m.calls = msg[r].calls /\ m.results = <<>>
  BY FinishTyped DEF FinishReasons
<1>6. msg' = [msg EXCEPT ![r] = m] /\ denied' = denied \cup {Call(r).id}
  BY <1>5 DEF ToolDenied, Finished
<1>7. msg' \in [Runs -> Messages] /\ msg'[r] = m /\ \A q \in Runs \ {r} : msg'[q] = msg[q]
  BY <1>1, <1>5, <1>6 DEF Types
<1>8. messages' = messages \/ messages' = Stored(r, m)
  BY <1>7 DEF ToolDenied, Finished
<1>9. at[r] # 0
  BY <1>1 DEF Typed, Position, Busy, InTools
<1>10. Grows
  BY <1>1, <1>5, <1>8, <1>9, SameMessages, StoredGrows
<1>11. pc' \in [Runs -> States] /\ pc'[r] = "tools" /\ \A q \in Runs \ {r} : pc'[q] = pc[q]
  BY <1>1, GotoTyped
<1>12. UNCHANGED <<cancelled, history, at, executed, asked, disturbed, cut, unstored, summary>>
  BY DEF ToolDenied
<1>13. /\ results' \in [Runs -> Seq(Results)] /\ next' \in [Runs -> Nat \ {0}]
       /\ denied' \subseteq CallIds
  BY <1>1, <1>2, <1>3, <1>4, <1>6, AdvanceTyped DEF Types
<1>15. messages' \in Seq(Messages) /\ summaryId \in 0 .. Len(messages') /\ summaryAt \in 0 .. Len(messages')
  BY <1>1, <1>10, RangesKept DEF Grows
<1>16. Types'
  BY <1>1, <1>7, <1>11, <1>12, <1>13, <1>15 DEF Types, summary
<1>14. next[r] <= Len(seq) /\ Len(seq) <= Len(msg[r].calls)
  BY <1>1, <1>2, <1>3
<1>. QED BY <1>1, <1>3, <1>4, <1>5, <1>7, <1>10, <1>11, <1>12, <1>14, <1>16, NextCallTyped

LEMMA ToolsCancelledTyped ==
  ASSUME Typed, NEW r \in Runs, ToolsCancelled(r)
  PROVE  Typed' /\ Grows /\ Only(r)
<1>. DEFINE n == Len(msg[r].calls)
            seq == CanceledFrom(r, next[r])
<1>1. next[r] <= n /\ pc[r] = "tools" /\ InTools(r) /\ Types
  BY DEF ToolsCancelled, ToolsLeft, InTools, Typed
<1>2. next[r] \in 1 .. n /\ next[r] - 1 <= Len(results[r]) /\ n \in Nat
  <2>1. msg[r].calls \in Seq(Calls) /\ next[r] \in Nat \ {0}
    BY CallTyped
  <2>. QED BY <1>1, <2>1 DEF Typed, Progress
<1>3. seq \in Seq(Results) /\ Len(seq) = n
  BY <1>2, CanceledResults
<1>4. PICK m \in Messages : /\ m = [msg[r] EXCEPT !.finish = "canceled"]
                            /\ m.finish = "canceled" /\ m.calls = msg[r].calls /\ m.results = <<>>
  BY FinishTyped DEF FinishReasons
<1>5. msg' = [msg EXCEPT ![r] = m] /\ messages' = Stored(r, m)
  BY <1>4 DEF ToolsCancelled, Update, Finished
<1>6. /\ results' = [results EXCEPT ![r] = seq] /\ next' = [next EXCEPT ![r] = n + 1]
      /\ UNCHANGED <<pc, cancelled, history, at, ghosts, summary>>
  BY DEF ToolsCancelled, Finished
<1>. HIDE DEF seq
<1>7. at[r] # 0
  BY <1>1 DEF Typed, Position, Busy, InTools
<1>8. Grows
  BY <1>4, <1>5, <1>7, StoredGrows
<1>9. msg' \in [Runs -> Messages] /\ msg'[r] = m /\ \A q \in Runs \ {r} : msg'[q] = msg[q]
  BY <1>1, <1>4, <1>5 DEF Types
<1>10. /\ results' \in [Runs -> Seq(Results)] /\ next' \in [Runs -> Nat \ {0}]
       /\ results'[r] = seq /\ next'[r] = n + 1
       /\ \A q \in Runs \ {r} : results'[q] = results[q] /\ next'[q] = next[q]
  BY <1>1, <1>2, <1>3, <1>6 DEF Types
<1>11. messages' \in Seq(Messages) /\ summaryId \in 0 .. Len(messages') /\ summaryAt \in 0 .. Len(messages')
  BY <1>1, <1>8, RangesKept DEF Grows
<1>12. Types'
  BY <1>1, <1>6, <1>9, <1>10, <1>11 DEF Types, ghosts, summary
<1>13. Only(r)
  BY <1>6, <1>9, <1>10 DEF Only
<1>14. Progress(r)'
  BY <1>1, <1>2, <1>3, <1>4, <1>6, <1>9, <1>10 DEF Progress, InTools
<1>15. /\ Len(messages) \in Nat /\ Len(messages') \in Nat /\ Len(messages) <= Len(messages')
       /\ at[r] \in Nat /\ at[r] <= Len(messages) /\ messages[at[r]].results = <<>>
  BY <1>1, <1>7, <1>8 DEF Typed, Types, Position, Grows
<1>16. messages'[at[r]].results = <<>>
  BY <1>7, <1>8, <1>15 DEF Grows
<1>17. \A i \in DOMAIN m.calls : m.calls[i].id = <<at[r], i>>
  BY <1>4 DEF Typed, Position
<1>18. Position(r)'
  BY <1>4, <1>6, <1>7, <1>9, <1>15, <1>16, <1>17 DEF Position
<1>. QED BY <1>6, <1>8, <1>12, <1>13, <1>14, <1>18, StepTyped

\* The run goes on to another turn, or leaves.
LEMMA StoreResultsTyped ==
  ASSUME Typed, NEW r \in Runs, StoreResults(r)
  PROVE  Typed' /\ Grows /\ Only(r)
<1>. DEFINE a == Answers(results[r])
<1>1. Types /\ msg[r] \in Messages /\ results[r] \in Seq(Results) /\ Len(results[r]) <= MaxCalls
  <2>1. /\ msg[r] \in Messages /\ msg[r].calls \in Seq(Calls) /\ results[r] \in Seq(Results)
        /\ Len(msg[r].calls) <= MaxCalls /\ Len(results[r]) <= Len(msg[r].calls)
    BY CallTyped DEF Typed, Progress
  <2>2. Len(msg[r].calls) \in Nat /\ Len(results[r]) \in Nat /\ MaxCalls \in Nat
    BY <2>1, BoundsAssumption
  <2>. QED BY <2>1, <2>2 DEF Typed
<1>2. a \in Messages
  BY <1>1, AnswersTyped
<1>. HIDE DEF a
<1>3. messages' = messages \/ messages' = Append(messages, a)
  BY DEF StoreResults, a
<1>4. Grows
  BY <1>1, <1>2, <1>3, SameMessages, AppendGrows
<1>5. /\ disturbed' \subseteq Clients /\ cut' \subseteq Runs /\ unstored' \subseteq Runs
      /\ at' = at /\ asked' \in [Runs -> Nat]
      /\ cancelled' = cancelled /\ UNCHANGED <<executed, denied, summary>>
  BY <1>1 DEF Types, StoreResults
<1>6. CASE Exit(r)
  BY <1>4, <1>5, <1>6, LeaveTyped
<1>7. CASE ~Exit(r)
  <2>1. /\ history' = [history EXCEPT ![r] = @ \o <<msg[r], a>>]
        /\ results' = [results EXCEPT ![r] = <<>>] /\ next' = [next EXCEPT ![r] = 1]
        /\ Goto(r, "loop") /\ msg' = msg
    BY <1>7 DEF StoreResults, a
  <2>2. pc' \in [Runs -> States] /\ pc'[r] = "loop" /\ \A q \in Runs \ {r} : pc'[q] = pc[q]
    BY <1>1, <2>1, GotoTyped DEF States
  <2>3. <<msg[r], a>> \in Seq(Messages) /\ history[r] \in Seq(Messages)
    BY <1>1, <1>2 DEF Types
  <2>4. history' \in [Runs -> Seq(Messages)]
    BY <1>1, <2>1, <2>3 DEF Types
  <2>5. /\ results' \in [Runs -> Seq(Results)] /\ next' \in [Runs -> Nat \ {0}]
        /\ results'[r] = <<>> /\ next'[r] = 1
        /\ \A q \in Runs \ {r} : results'[q] = results[q] /\ next'[q] = next[q]
    <3>1. <<>> \in Seq(Results) /\ 1 \in Nat \ {0}
      OBVIOUS
    <3>. QED BY <1>1, <2>1, <3>1 DEF Types
  <2>6. messages' \in Seq(Messages) /\ summaryId \in 0 .. Len(messages') /\ summaryAt \in 0 .. Len(messages')
    BY <1>1, <1>4, RangesKept DEF Grows
  <2>7. executed' = executed /\ denied' = denied /\ UNCHANGED <<summaryId, summaryAt, summarizer>>
    BY <1>5 DEF summary
  <2>8. Types'
    BY <1>1, <1>5, <2>1, <2>2, <2>4, <2>5, <2>6, <2>7 DEF Types
  <2>9. Only(r)
    BY <1>5, <2>1, <2>2, <2>5 DEF Only
  <2>10. Len(msg[r].calls) \in Nat /\ Len(results'[r]) = 0
    <3>1. msg[r].calls \in Seq(Calls)
      BY CallTyped
    <3>. QED BY <2>5, <3>1, EmptySequence
  <2>11. Progress(r)'
    BY <2>1, <2>2, <2>5, <2>10 DEF Progress, InTools
  <2>12. /\ Len(messages) \in Nat /\ Len(messages') \in Nat /\ Len(messages) <= Len(messages')
         /\ at[r] \in Nat /\ at[r] <= Len(messages)
         /\ at[r] # 0 => messages[at[r]].results = <<>>
    BY <2>6, <1>4 DEF Typed, Types, Position, Grows
  <2>13. at[r] # 0 => messages'[at[r]].results = <<>>
    BY <1>4, <2>12 DEF Grows
  <2>14. Position(r)'
    BY <1>5, <2>1, <2>2, <2>12, <2>13 DEF Typed, Position, Busy
  <2>. QED BY <1>4, <1>5, <2>8, <2>9, <2>11, <2>14, StepTyped
<1>. QED BY <1>6, <1>7

LEMMA CancelTyped ==
  ASSUME Typed, NEW r \in Runs, Cancel(r)
  PROVE  Typed' /\ Grows /\ Only(r)
<1>1. Grows
  BY SameMessages DEF Typed, Cancel
<1>2. cancelled' \subseteq Runs
  BY DEF Typed, Types, Cancel
<1>3. UNCHANGED <<messages, pc, history, msg, at, results, next, ghosts, summary>>
  BY DEF Cancel
<1>4. Types'
  BY <1>2, <1>3 DEF Typed, Types, ghosts, summary
<1>5. Only(r)
  BY <1>3 DEF Only
<1>6. Position(r)' /\ Progress(r)'
  BY <1>3 DEF Typed, Position, Progress, Busy, InTools
<1>. QED BY <1>1, <1>3, <1>4, <1>5, <1>6, StepTyped

\* The steps of the summary leave the runs alone.
Summarizing == SummarizeStart \/ SummaryCreate \/ SummarySave \/ SummarizeFails

LEMMA SummarizingTyped ==
  ASSUME Typed, Summarizing
  PROVE  /\ Typed' /\ Grows /\ UNCHANGED <<runVars, executed, denied, asked, cut, unstored>>
         /\ messages' = messages \/ messages' = Append(messages, Compaction)
<1>1. Types /\ Compaction \in Messages
  BY MadeTyped DEF Typed
<1>2. messages' = messages \/ messages' = Append(messages, Compaction)
  BY DEF Summarizing, SummarizeStart, SummaryCreate, SummarySave, SummarizeFails
<1>3. Grows
  BY <1>1, <1>2, SameMessages, AppendGrows
<1>4. UNCHANGED <<runVars, executed, denied, asked, cut, unstored>>
  BY DEF Summarizing, SummarizeStart, SummaryCreate, SummarySave, SummarizeFails, ghosts
<1>5. disturbed' \subseteq Clients
  BY <1>1 DEF Types, Summarizing, SummarizeStart, SummaryCreate, SummarySave, SummarizeFails, ghosts
<1>6. summaryId \in 0 .. Len(messages') /\ summaryAt \in 0 .. Len(messages')
  BY <1>1, <1>3, RangesKept
<1>7. /\ summaryId' \in 0 .. Len(messages') /\ summaryAt' \in 0 .. Len(messages')
      /\ summarizer' \in {"idle", "sent", "stored", "done"}
  <2>1. Len(messages) \in Nat
    BY <1>1 DEF Types
  <2>2. CASE SummaryCreate
    <3>1. Len(messages') = Len(messages) + 1
      BY <1>1, <2>2, AppendGrows DEF SummaryCreate
    <3>. QED BY <1>6, <2>1, <2>2, <3>1 DEF SummaryCreate
  <2>3. CASE SummarizeStart \/ SummarySave \/ SummarizeFails
    BY <1>6, <2>3 DEF SummarizeStart, SummarySave, SummarizeFails, summary
  <2>. QED BY <2>2, <2>3 DEF Summarizing
<1>8. Types'
  BY <1>1, <1>3, <1>4, <1>5, <1>7 DEF Types, Grows, runVars
<1>. QED BY <1>2, <1>3, <1>4, <1>8, SummaryTyped

LEMMA InitTyped == Init => Typed
<1>. SUFFICES ASSUME Init PROVE Typed
  OBVIOUS
<1>1. <<>> \in Seq(Messages) /\ <<>> \in Seq(Results) /\ <<>> \in Seq(Calls)
  OBVIOUS
<1>2. "idle" \in States
  BY DEF States
<1>3. Types
  <2>1. /\ messages \in Seq(Messages) /\ summaryId \in 0 .. Len(messages)
        /\ summaryAt \in 0 .. Len(messages) /\ summarizer \in {"idle", "sent", "stored", "done"}
    BY <1>1, EmptySequence DEF Init
  <2>2. pc \in [Runs -> States] /\ history \in [Runs -> Seq(Messages)]
    BY <1>1, <1>2 DEF Init
  <2>3. msg \in [Runs -> Messages]
    BY MadeTyped DEF Init
  <2>4. at \in [Runs -> Nat] /\ asked \in [Runs -> Nat] /\ next \in [Runs -> Nat \ {0}]
    BY DEF Init
  <2>5. results \in [Runs -> Seq(Results)]
    BY <1>1 DEF Init
  <2>6. /\ cancelled \subseteq Runs /\ cut \subseteq Runs /\ unstored \subseteq Runs /\ disturbed \subseteq Clients
        /\ executed \subseteq CallIds /\ denied \subseteq CallIds
    BY DEF Init
  <2>. QED BY <2>1, <2>2, <2>3, <2>4, <2>5, <2>6 DEF Types
<1>4. ASSUME NEW r \in Runs PROVE Position(r) /\ Progress(r)
  <2>1. /\ pc[r] = "idle" /\ at[r] = 0 /\ results[r] = <<>> /\ next[r] = 1 /\ msg[r] = Blank
        /\ messages = <<>>
    BY DEF Init
  <2>2. msg[r].results = <<>> /\ msg[r].calls = <<>>
    BY <2>1, MadeTyped
  <2>3. DOMAIN msg[r].calls = {} /\ Len(msg[r].calls) = 0 /\ Len(results[r]) = 0 /\ Len(messages) = 0
    BY <2>1, <2>2, EmptySequence
  <2>. QED BY <2>1, <2>2, <2>3 DEF Position, Progress, Busy, InTools
<1>5. Apart
  BY DEF Init, Apart
<1>. QED BY <1>3, <1>4, <1>5 DEF Typed

\* A step of a run.
LEMMA RunTyped ==
  ASSUME Typed, NEW r \in Runs, Start(r) \/ RunStep(r) \/ Cancel(r)
  PROVE  Typed' /\ Grows /\ Only(r)
<1>1. CASE Start(r)
  BY <1>1, StartTyped
<1>2. CASE CreateUserMessage(r)
  BY <1>2, CreateUserMessageTyped
<1>3. CASE Request(r)
  BY <1>3, RequestTyped
<1>4. CASE StopBeforeRequest(r)
  BY <1>4, StopBeforeRequestTyped
<1>5. CASE ToolUseStart(r)
  BY <1>5, ToolUseStartTyped
<1>6. CASE StreamComplete(r)
  BY <1>6, StreamCompleteTyped
<1>7. CASE StartTools(r)
  BY <1>7, StartToolsTyped
<1>8. CASE StreamClosedEarly(r)
  BY <1>8, StreamClosedEarlyTyped
<1>9. CASE StreamFails(r)
  BY <1>9, StreamFailsTyped
<1>10. CASE CancelledInStream(r)
  BY <1>10, CancelledInStreamTyped
<1>11. CASE ToolsCancelled(r)
  BY <1>11, ToolsCancelledTyped
<1>12. CASE ToolNotFound(r)
  BY <1>12, ToolNotFoundTyped
<1>13. CASE StartTool(r)
  BY <1>13, StartToolTyped
<1>14. CASE RunTool(r)
  BY <1>14, RunToolTyped
<1>15. CASE ToolDenied(r)
  BY <1>15, ToolDeniedTyped
<1>16. CASE StoreResults(r)
  BY <1>16, StoreResultsTyped
<1>17. CASE Cancel(r)
  BY <1>17, CancelTyped
<1>18. CASE RequestFails(r)
  BY <1>18, RequestFailsTyped
<1>19. CASE StoreResultsFails(r)
  BY <1>19, StoreResultsFailsTyped
<1>. QED BY <1>1, <1>2, <1>3, <1>4, <1>5, <1>6, <1>7, <1>8, <1>9, <1>10, <1>11, <1>12, <1>13,
            <1>14, <1>15, <1>16, <1>17, <1>18, <1>19 DEF RunStep

LEMMA StutterTyped ==
  ASSUME Typed, UNCHANGED vars
  PROVE  Typed'
BY DEF Typed, Types, Position, Progress, Apart, Busy, InTools, vars, runVars, ghosts, summary

LEMMA NextTyped ==
  ASSUME Typed, [Next]_vars
  PROVE  Typed'
<1>1. CASE \E r \in Runs : Start(r) \/ RunStep(r) \/ Cancel(r)
  BY <1>1, RunTyped
<1>2. CASE Summarizing
  BY <1>2, SummarizingTyped
<1>3. CASE UNCHANGED vars
  BY <1>3, StutterTyped
<1>. QED BY <1>1, <1>2, <1>3 DEF Next, Summarizing

LEMMA MessageShape ==
  ASSUME NEW m \in Messages
  PROVE  IsMessage(m)
BY DEF Messages, IsMessage

LEMMA TypedTypeOK == Typed => TypeOK
<1>. SUFFICES ASSUME Typed PROVE TypeOK
  OBVIOUS
<1>1. Types
  BY DEF Typed
<1>2. \A i \in DOMAIN messages : IsMessage(messages[i])
  BY <1>1, MessageShape DEF Types
<1>3. ASSUME NEW r \in Runs
      PROVE  /\ \A i \in DOMAIN history[r] : IsMessage(history[r][i])
             /\ IsMessage(msg[r])
             /\ at[r] \in 0 .. Len(messages)
             /\ results[r] \in Seq(Results)
             /\ next[r] \in 1 .. MaxCalls + 1
  <2>1. history[r] \in Seq(Messages) /\ msg[r] \in Messages
    BY <1>1 DEF Types
  <2>2. \A i \in DOMAIN history[r] : IsMessage(history[r][i])
    BY <2>1, MessageShape
  <2>3. IsMessage(msg[r])
    BY <2>1, MessageShape
  <2>4. /\ Len(messages) \in Nat /\ at[r] \in Nat /\ results[r] \in Seq(Results)
        /\ next[r] \in Nat \ {0} /\ MaxCalls \in Nat
    BY <1>1, BoundsAssumption DEF Types
  <2>5. msg[r].calls \in Seq(Calls) /\ Len(msg[r].calls) <= MaxCalls
    BY <2>1 DEF Messages
  <2>6. Len(msg[r].calls) \in Nat
    BY <2>5
  <2>7. at[r] <= Len(messages) /\ next[r] <= Len(msg[r].calls) + 1
    BY DEF Typed, Position, Progress
  <2>. QED BY <2>2, <2>3, <2>4, <2>5, <2>6, <2>7
<1>. QED BY <1>1, <1>2, <1>3 DEF Types, TypeOK

\* Types: every run, table and history is of its type (AgentTurn's TypeOK).
THEOREM TypeCorrect == Spec => []TypeOK
<1>1. Spec => []Typed
  BY InitTyped, NextTyped, PTL DEF Spec
<1>. QED BY <1>1, TypedTypeOK, PTL

---------------------------------------------------------------------------
(* What a step leaves alone *)

\* EventComplete stores some calls and a reason to stop.
LEMMA CompleteUpdates ==
  ASSUME NEW r \in Runs, StreamComplete(r)
  PROVE  \E calls : \E f \in {"end_turn", "tool_use"} :
           Update(r, [msg[r] EXCEPT !.finish = f, !.calls = calls])
<1>1. PICK n \in Len(msg[r].calls) .. MaxCalls, f \in {"end_turn", "tool_use"} :
        \E json \in [1 .. n -> BOOLEAN] :
          Update(r, [msg[r] EXCEPT !.finish = f, !.calls =
                       [i \in 1 .. n |-> [id |-> <<at[r], i>>, input |-> json[i]]]])
  BY DEF StreamComplete
<1>2. PICK json \in [1 .. n -> BOOLEAN] :
        Update(r, [msg[r] EXCEPT !.finish = f, !.calls =
                     [i \in 1 .. n |-> [id |-> <<at[r], i>>, input |-> json[i]]]])
  BY <1>1
<1>3. DEFINE calls == [i \in 1 .. n |-> [id |-> <<at[r], i>>, input |-> json[i]]]
<1>4. Update(r, [msg[r] EXCEPT !.finish = f, !.calls = calls])
  BY <1>2
<1> HIDE DEF calls
<1>. QED BY <1>4

\* A run that is over takes no step.
LEMMA NotOver ==
  ASSUME NEW r \in Runs, Start(r) \/ RunStep(r) \/ Cancel(r)
  PROVE  pc[r] # "done"
BY DEF Start, RunStep, Cancel, Working, CreateUserMessage, Request, StopBeforeRequest, RequestFails,
       StoreResultsFails, ToolUseStart, StreamComplete, StartTools, StreamClosedEarly, StreamFails,
       CancelledInStream, ToolsCancelled, ToolNotFound, StartTool, RunTool, ToolDenied, StoreResults,
       ToolsLeft, Finished, Result

\* The other runs' messages are as they were.
Touches(r) ==
  \A i \in 1 .. Len(messages) : i # at[r] => messages'[i] = messages[i]

\* A run that writes its message anew touches no other.
LEMMA StoredTouches ==
  ASSUME Types, NEW r \in Runs, NEW m, messages' = Stored(r, m)
  PROVE  Touches(r)
<1>1. messages \in Seq(Messages) /\ DOMAIN messages = 1 .. Len(messages)
  BY DEF Types
<1>. QED BY <1>1 DEF Stored, Touches

LEMMA AppendTouches ==
  ASSUME Types, NEW r \in Runs, NEW m \in Messages, messages' = Append(messages, m)
  PROVE  \A i \in 1 .. Len(messages) : messages'[i] = messages[i]
BY AppendGrows

\* What StoreResults does to the table.
LEMMA StoreResultsAppends ==
  ASSUME Typed, NEW r \in Runs, StoreResults(r)
  PROVE  /\ results[r] \in Seq(Results) /\ Answers(results[r]) \in Messages
         /\ Answers(results[r]).results = results[r]
         /\ messages' = IF results[r] = <<>> THEN messages
                        ELSE Append(messages, Answers(results[r]))
<1>1. /\ msg[r].calls \in Seq(Calls) /\ results[r] \in Seq(Results)
      /\ Len(msg[r].calls) <= MaxCalls /\ Len(results[r]) <= Len(msg[r].calls)
  BY CallTyped DEF Typed, Progress
<1>2. Len(msg[r].calls) \in Nat /\ Len(results[r]) \in Nat /\ MaxCalls \in Nat
  BY <1>1, BoundsAssumption
<1>3. Len(results[r]) <= MaxCalls
  BY <1>1, <1>2
<1>. QED BY <1>1, <1>3, AnswersTyped DEF StoreResults

LEMMA RunTouches ==
  ASSUME Typed, NEW r \in Runs, Start(r) \/ RunStep(r) \/ Cancel(r)
  PROVE  Touches(r) /\ cut \subseteq cut' /\ unstored \subseteq unstored'
<1>1. Types
  BY DEF Typed
<1>2. cut \subseteq cut' /\ unstored \subseteq unstored'
  BY DEF Start, RunStep, Cancel, CreateUserMessage, Request, StopBeforeRequest, RequestFails,
         StoreResultsFails, ToolUseStart,
         StreamComplete, StartTools, StreamClosedEarly, StreamFails, CancelledInStream,
         ToolsCancelled, ToolNotFound, StartTool, RunTool, ToolDenied, StoreResults, ghosts,
         Finished, Result
<1>3. CASE messages' = messages
  BY <1>2, <1>3 DEF Touches
<1>4. CASE \E m : messages' = Stored(r, m)
  BY <1>1, <1>2, <1>4, StoredTouches
<1>5. CASE \E m \in Messages : messages' = Append(messages, m)
  BY <1>1, <1>2, <1>5, AppendTouches DEF Touches
<1>6. CASE Start(r) \/ StopBeforeRequest(r) \/ RequestFails(r) \/ StoreResultsFails(r)
             \/ StartTools(r) \/ StreamClosedEarly(r)
             \/ ToolNotFound(r) \/ StartTool(r) \/ RunTool(r) \/ Cancel(r)
  <2>1. messages' = messages
    BY <1>6 DEF Start, StopBeforeRequest, RequestFails, StoreResultsFails, StartTools, StreamClosedEarly, ToolNotFound, StartTool,
                RunTool, Cancel, Result
  <2>. QED BY <1>2, <1>3, <2>1
<1>7. CASE ToolUseStart(r) \/ StreamComplete(r) \/ ToolsCancelled(r)
  <2>1. \E m : messages' = Stored(r, m)
    BY <1>7 DEF ToolUseStart, StreamComplete, ToolsCancelled, Update, Finished
  <2>. QED BY <1>2, <1>4, <2>1
<1>8. CASE StreamFails(r) \/ CancelledInStream(r) \/ ToolDenied(r)
  <2>1. messages' = messages \/ \E m : messages' = Stored(r, m)
    BY <1>8 DEF StreamFails, CancelledInStream, ToolDenied, Finished, Result
  <2>. QED BY <1>2, <1>3, <1>4, <2>1
<1>9. CASE CreateUserMessage(r) \/ Request(r) \/ StoreResults(r)
  <2>1. Question \in Messages /\ Blank \in Messages
    BY MadeTyped
  <2>2. messages' = messages \/ \E m \in Messages : messages' = Append(messages, m)
    BY <1>9, <2>1, StoreResultsAppends DEF CreateUserMessage, Request
  <2>. QED BY <1>2, <1>3, <1>5, <2>2
<1>. QED BY <1>6, <1>7, <1>8, <1>9 DEF RunStep

---------------------------------------------------------------------------
(* The message of a run that is over *)

Ends(r) ==
  /\ pc[r] \in {"idle", "listed"} => at[r] = 0
  /\ pc[r] \in {"completed", "tools", "call", "loop", "done"} /\ at[r] # 0 /\ r \notin cut =>
       messages[at[r]].finish # ""

FinishInv == \A r \in Runs : Ends(r)

\* The other runs' messages say what they said.
LEMMA OthersEnd ==
  ASSUME Typed, FinishInv, NEW r \in Runs, Only(r), Touches(r), cut \subseteq cut', Ends(r)'
  PROVE  FinishInv'
<1>1. ASSUME NEW q \in Runs \ {r} PROVE Ends(q)'
  <2>1. pc'[q] = pc[q] /\ at'[q] = at[q] /\ Ends(q)
    BY DEF Only, FinishInv
  <2>2. at[q] # 0 => at[q] # at[r] /\ at[q] \in 1 .. Len(messages)
    <3>1. at[q] \in Nat /\ at[q] <= Len(messages) /\ Len(messages) \in Nat
      BY DEF Typed, Types, Position
    <3>. QED BY <3>1 DEF Typed, Apart
  <2>3. at[q] # 0 => messages'[at[q]] = messages[at[q]]
    BY <2>2 DEF Touches
  <2>. QED BY <2>1, <2>3 DEF Ends
<1>. QED BY <1>1 DEF FinishInv

\* A run whose message stays as it is.
LEMMA SameEnd ==
  ASSUME Typed, FinishInv, NEW r \in Runs, Only(r), Touches(r), cut \subseteq cut', at' = at,
         at[r] # 0 => messages'[at[r]] = messages[at[r]],
         \/ pc'[r] = pc[r]
         \/ pc[r] = "idle" /\ pc'[r] = "listed"
         \/ pc[r] \notin {"idle", "streaming"} /\ pc'[r] \in {"completed", "tools", "call", "loop", "done"}
  PROVE  FinishInv'
<1>1. Ends(r)
  BY DEF FinishInv
<1>2. Ends(r)'
  BY <1>1 DEF Ends, Typed, Types, States
<1>. QED BY <1>2, OthersEnd

\* A run that stores a reason to stop.
LEMMA StoresEnd ==
  ASSUME Typed, FinishInv, NEW r \in Runs, Only(r), Touches(r), cut \subseteq cut', at' = at,
         at[r] # 0, NEW m \in Messages, m.finish # "", m.results = <<>>, messages' = Stored(r, m),
         pc'[r] \notin {"idle", "listed"}
  PROVE  FinishInv'
<1>1. messages'[at[r]] = m
  BY StoredGrows
<1>2. Ends(r)'
  BY <1>1 DEF Ends
<1>. QED BY <1>2, OthersEnd

LEMMA FinishStep ==
  ASSUME Typed, FinishInv, NEW r \in Runs, Start(r) \/ RunStep(r) \/ Cancel(r)
  PROVE  FinishInv'
<1>1. Only(r) /\ Touches(r) /\ cut \subseteq cut' /\ Types
  BY RunTyped, RunTouches DEF Typed
<1>2. Ends(r) /\ pc[r] \in States /\ (Busy(r) => at[r] # 0)
  BY DEF FinishInv, Typed, Types, Position
<1>3. CASE Start(r) \/ StopBeforeRequest(r) \/ RequestFails(r) \/ StoreResultsFails(r)
             \/ StartTools(r) \/ ToolNotFound(r)
             \/ StartTool(r) \/ RunTool(r) \/ Cancel(r)
  <2>1. messages' = messages /\ at' = at
    BY <1>3 DEF Start, StopBeforeRequest, RequestFails, StoreResultsFails, StartTools, ToolNotFound,
                StartTool, RunTool, Cancel, Result
  <2>2. pc \in [Runs -> States]
    BY <1>1 DEF Types
  <2>3. \/ pc'[r] = pc[r]
        \/ pc[r] = "idle" /\ pc'[r] = "listed"
        \/ pc[r] \notin {"idle", "streaming"} /\ pc'[r] \in {"completed", "tools", "call", "loop", "done"}
    BY <1>3, <2>2 DEF Start, StopBeforeRequest, RequestFails, StoreResultsFails, StartTools,
                      ToolNotFound, StartTool, RunTool, Cancel, ToolsLeft, Exit, Goto, Result
  <2>. QED BY <1>1, <2>1, <2>3, SameEnd
<1>4. CASE CreateUserMessage(r) \/ StoreResults(r)
  <2>1. at' = at /\ pc[r] \in {"listed", "tools"}
    BY <1>4 DEF CreateUserMessage, StoreResults
  <2>2. pc'[r] \in {"loop", "done"}
    <3>1. pc \in [Runs -> States]
      BY <1>1 DEF Types
    <3>. QED BY <1>4, <3>1 DEF CreateUserMessage, StoreResults, Exit, Goto
  <2>3. messages' = messages \/ \E m \in Messages : messages' = Append(messages, m)
    BY <1>4, MadeTyped, StoreResultsAppends DEF CreateUserMessage
  <2>4. at[r] # 0 => at[r] \in 1 .. Len(messages)
    BY DEF Typed, Types, Position
  <2>5. at[r] # 0 => messages'[at[r]] = messages[at[r]]
    BY <1>1, <2>3, <2>4, AppendTouches
  <2>. QED BY <1>1, <2>1, <2>2, <2>5, SameEnd
<1>5. CASE Request(r) \/ ToolUseStart(r)
  <2>1. pc'[r] = "streaming"
    <3>1. pc \in [Runs -> States]
      BY <1>1 DEF Types
    <3>. QED BY <1>5, <3>1 DEF Request, ToolUseStart, Goto
  <2>2. Ends(r)'
    BY <2>1 DEF Ends
  <2>. QED BY <1>1, <2>2, OthersEnd
<1>6. CASE StreamClosedEarly(r)
  <2>1. pc'[r] = "tools" /\ r \in cut'
    <3>1. pc \in [Runs -> States]
      BY <1>1 DEF Types
    <3>. QED BY <1>6, <3>1 DEF StreamClosedEarly, Goto
  <2>2. Ends(r)'
    BY <2>1 DEF Ends
  <2>. QED BY <1>1, <2>2, OthersEnd
<1>7. CASE StreamComplete(r)
  <2>0. PICK calls : \E f \in {"end_turn", "tool_use"} :
          Update(r, [msg[r] EXCEPT !.finish = f, !.calls = calls])
    BY <1>7, CompleteUpdates
  <2>1. PICK f \in {"end_turn", "tool_use"} : Update(r, [msg[r] EXCEPT !.finish = f, !.calls = calls])
    BY <2>0
  <2>. DEFINE m == [msg[r] EXCEPT !.finish = f, !.calls = calls]
  <2>2. messages' = Stored(r, m) /\ msg' = [msg EXCEPT ![r] = m]
    BY <2>1 DEF Update
  <2>3. msg[r] \in Messages /\ f # ""
    BY <1>1 DEF Types
  <2>4. m.finish # "" 
    BY <2>3 DEF Messages
  <2>. HIDE DEF m
  <2>5. messages'[at[r]] = m
    <3>1. at[r] \in 1 .. Len(messages) /\ messages \in Seq(Messages)
      BY <1>2, <1>7 DEF Typed, Types, Position, Busy, StreamComplete
    <3>. QED BY <2>2, <3>1 DEF Stored
  <2>6. pc'[r] = "completed" /\ at' = at
    <3>1. pc \in [Runs -> States]
      BY <1>1 DEF Types
    <3>. QED BY <1>7, <3>1 DEF StreamComplete, Goto
  <2>7. Ends(r)'
    BY <2>4, <2>5, <2>6 DEF Ends
  <2>. QED BY <1>1, <2>7, OthersEnd
<1>8. CASE StreamFails(r) \/ CancelledInStream(r)
  <2>1. PICK m \in Messages : /\ m = [msg[r] EXCEPT !.finish = "canceled"]
                              /\ m.finish = "canceled" /\ m.calls = msg[r].calls /\ m.results = <<>>
    BY FinishTyped DEF FinishReasons
  <2>2. messages' = Stored(r, m) \/ r \in cut'
    BY <1>8, <2>1 DEF StreamFails, CancelledInStream, Finished
  <2>3. pc'[r] = "done" /\ at' = at /\ at[r] # 0
    <3>1. Exit(r) /\ at' = at /\ Busy(r)
      BY <1>8 DEF StreamFails, CancelledInStream, Finished, Busy
    <3>. QED BY <1>1, <1>2, <3>1, ExitTyped
  <2>4. CASE messages' = Stored(r, m)
    BY <1>1, <2>1, <2>3, <2>4, StoresEnd
  <2>5. CASE r \in cut'
    <3>1. Ends(r)'
      BY <2>3, <2>5 DEF Ends
    <3>. QED BY <1>1, <3>1, OthersEnd
  <2>. QED BY <2>2, <2>4, <2>5
<1>9. CASE ToolsCancelled(r) \/ ToolDenied(r)
  <2>1. \E m \in Messages : /\ m.finish # "" /\ m.results = <<>>
                            /\ messages' = messages \/ messages' = Stored(r, m)
    <3>1. PICK c \in Messages : /\ c = [msg[r] EXCEPT !.finish = "canceled"]
                                /\ c.finish = "canceled" /\ c.calls = msg[r].calls /\ c.results = <<>>
      BY FinishTyped DEF FinishReasons
    <3>2. PICK d \in Messages : /\ d = [msg[r] EXCEPT !.finish = "permission_denied"]
                                /\ d.finish = "permission_denied" /\ d.calls = msg[r].calls /\ d.results = <<>>
      BY FinishTyped DEF FinishReasons
    <3>3. ToolsCancelled(r) => messages' = Stored(r, c)
      BY <3>1 DEF ToolsCancelled, Update, Finished
    <3>4. ToolDenied(r) => messages' = messages \/ messages' = Stored(r, d)
      <4>1. msg \in [Runs -> Messages]
        BY <1>1 DEF Types
      <4>. QED BY <3>2, <4>1 DEF ToolDenied, Finished, Result
    <3>. QED BY <1>9, <3>1, <3>2, <3>3, <3>4
  <2>2. pc[r] \in {"tools", "call"} /\ pc'[r] = "tools" /\ at' = at
    <3>1. pc \in [Runs -> States]
      BY <1>1 DEF Types
    <3>. QED BY <1>9, <3>1 DEF ToolsCancelled, ToolsLeft, ToolDenied, Goto, Finished, Result
  <2>3. at[r] # 0
    BY <1>2, <2>2 DEF Busy
  <2>4. CASE messages' = messages
    BY <1>1, <2>2, <2>4, SameEnd
  <2>5. CASE messages' # messages
    BY <1>1, <2>1, <2>2, <2>3, <2>5, StoresEnd
  <2>. QED BY <2>4, <2>5
<1>. QED BY <1>3, <1>4, <1>5, <1>6, <1>7, <1>8, <1>9 DEF RunStep

LEMMA FinishNext ==
  ASSUME Typed, FinishInv, [Next]_vars
  PROVE  FinishInv'
<1>1. CASE \E r \in Runs : Start(r) \/ RunStep(r) \/ Cancel(r)
  BY <1>1, FinishStep
<1>2. CASE Summarizing
  <2>1. UNCHANGED <<runVars, cut>> /\ (messages' = messages \/ messages' = Append(messages, Compaction))
    BY <1>2, SummarizingTyped
  <2>2. Types /\ Compaction \in Messages
    BY MadeTyped DEF Typed
  <2>3. \A r \in Runs : at[r] # 0 => at[r] \in 1 .. Len(messages)
    BY DEF Typed, Types, Position
  <2>4. \A r \in Runs : at[r] # 0 => messages'[at[r]] = messages[at[r]]
    BY <2>1, <2>2, <2>3, AppendTouches
  <2>. QED BY <2>1, <2>4 DEF FinishInv, Ends, runVars
<1>3. CASE UNCHANGED vars
  BY <1>3 DEF FinishInv, Ends, vars, runVars, ghosts
<1>. QED BY <1>1, <1>2, <1>3 DEF Next, Summarizing

\* The stored message of a run that is over says how it ended (agent.go's
\* finishMessage), but for the runs that could not store it.
THEOREM EndedMessagesFinished == Spec => []EndedMessageFinished
<1>1. Init => FinishInv
  BY DEF Init, FinishInv, Ends
<1>2. Typed /\ FinishInv /\ [Next]_vars => FinishInv'
  BY FinishNext
<1>3. FinishInv => EndedMessageFinished
  BY DEF FinishInv, Ends, EndedMessageFinished
<1>4. Spec => []Typed
  BY InitTyped, NextTyped, PTL DEF Spec
<1>. QED BY <1>1, <1>2, <1>3, <1>4, PTL DEF Spec

---------------------------------------------------------------------------
(* A denied turn *)

AnyDenied(r) == \E i \in DOMAIN msg[r].calls : msg[r].calls[i].id \in denied

Denials(r) ==
  /\ pc[r] \in {"streaming", "completed"} => \A d \in denied : d[1] # at[r]
  /\ AnyDenied(r) => InTools(r) /\ msg[r].finish \in {"permission_denied", "canceled"}

DenialInv ==
  /\ \A d \in denied : d[1] <= Len(messages)
  /\ \A r \in Runs : Denials(r)

\* A step that denies nothing.
LEMMA NothingDenied ==
  ASSUME Typed, DenialInv, NEW r \in Runs, Grows, Only(r), denied' = denied, Denials(r)'
  PROVE  DenialInv'
<1>1. \A d \in denied : d[1] <= Len(messages')
  <2>1. Len(messages) \in Nat /\ Len(messages') \in Nat /\ Len(messages) <= Len(messages')
    BY DEF Typed, Types, Grows
  <2>2. \A d \in denied : d[1] \in Nat
    BY DEF Typed, Types, CallIds
  <2>. QED BY <2>1, <2>2 DEF DenialInv
<1>2. ASSUME NEW q \in Runs \ {r} PROVE Denials(q)'
  <2>1. Denials(q) /\ pc'[q] = pc[q] /\ at'[q] = at[q] /\ msg'[q] = msg[q]
    BY DEF DenialInv, Only
  <2>. QED BY <2>1 DEF Denials, AnyDenied, InTools
<1>. QED BY <1>1, <1>2 DEF DenialInv

\* A step of a run whose message is not yet, or no more, about a denial.
LEMMA DenialFree ==
  ASSUME Typed, DenialInv, NEW r \in Runs, Grows, Only(r), denied' = denied,
         ~AnyDenied(r)', pc'[r] \notin {"streaming", "completed"}
  PROVE  DenialInv'
<1>1. Denials(r)'
  BY DEF Denials
<1>. QED BY <1>1, NothingDenied

LEMMA DenialStep ==
  ASSUME Typed, DenialInv, NEW r \in Runs, Start(r) \/ RunStep(r) \/ Cancel(r)
  PROVE  DenialInv'
<1>1. Typed' /\ Grows /\ Only(r) /\ Types
  BY RunTyped DEF Typed
<1>2. Denials(r) /\ pc \in [Runs -> States] /\ msg \in [Runs -> Messages]
  BY <1>1 DEF DenialInv, Types
<1>3. \A i \in DOMAIN msg'[r].calls : msg'[r].calls[i].id = <<at'[r], i>>
  BY <1>1 DEF Typed, Position
<1>4. DOMAIN Blank.calls = {}
  BY MadeTyped, EmptySequence
<1>5. CASE Start(r) \/ CreateUserMessage(r)
  <2>1. /\ pc[r] \in {"idle", "listed"} /\ pc'[r] \in {"listed", "loop"}
        /\ msg' = msg /\ denied' = denied
    BY <1>2, <1>5 DEF Start, CreateUserMessage, Goto, ghosts
  <2>2. ~AnyDenied(r)'
    BY <1>2, <2>1 DEF Denials, AnyDenied, InTools
  <2>. QED BY <1>1, <2>1, <2>2, DenialFree
<1>6. CASE Request(r)
  <2>1. pc'[r] = "streaming" /\ denied' = denied
    BY <1>2, <1>6 DEF Request, Goto
  <2>2. msg'[r] = Blank /\ at'[r] = Len(messages) + 1
    BY <1>1, <1>6 DEF Types, Request
  <2>3. ~AnyDenied(r)'
    BY <1>4, <2>2 DEF AnyDenied
  <2>4. \A d \in denied : d[1] # at'[r]
    <3>1. Len(messages) \in Nat /\ \A d \in denied : d[1] \in Nat /\ d[1] <= Len(messages)
      BY <1>1 DEF Types, DenialInv, CallIds
    <3>. QED BY <2>2, <3>1
  <2>5. Denials(r)'
    BY <2>1, <2>3, <2>4 DEF Denials
  <2>. QED BY <1>1, <2>1, <2>5, NothingDenied
<1>7. CASE ToolUseStart(r) \/ StreamComplete(r)
  <2>1. /\ pc[r] = "streaming" /\ pc'[r] \in {"streaming", "completed"}
        /\ denied' = denied /\ at' = at
    BY <1>2, <1>7 DEF ToolUseStart, StreamComplete, Goto, ghosts
  <2>2. \A d \in denied : d[1] # at[r]
    BY <1>2, <2>1 DEF Denials
  <2>3. ~AnyDenied(r)'
    BY <1>3, <2>1, <2>2 DEF AnyDenied
  <2>4. Denials(r)'
    BY <2>1, <2>2, <2>3 DEF Denials
  <2>. QED BY <1>1, <2>1, <2>4, NothingDenied
<1>8. CASE StartTools(r) \/ StreamClosedEarly(r)
  <2>1. /\ pc[r] \notin {"tools", "call"} /\ pc'[r] = "tools" /\ msg' = msg /\ denied' = denied
    BY <1>2, <1>8 DEF StartTools, StreamClosedEarly, Goto, ghosts
  <2>2. ~AnyDenied(r)'
    BY <1>2, <2>1 DEF Denials, AnyDenied, InTools
  <2>. QED BY <1>1, <2>1, <2>2, DenialFree
<1>9. CASE Exit(r) /\ denied' = denied
  <2>1. pc'[r] = "done" /\ msg'[r] = Blank
    BY <1>1, <1>9, ExitTyped
  <2>2. ~AnyDenied(r)'
    BY <1>4, <2>1 DEF AnyDenied
  <2>. QED BY <1>1, <1>9, <2>1, <2>2, DenialFree
<1>10. CASE StopBeforeRequest(r) \/ RequestFails(r) \/ StoreResultsFails(r) \/ StreamFails(r)
              \/ CancelledInStream(r)
  <2>1. Exit(r) /\ denied' = denied
    BY <1>10 DEF StopBeforeRequest, RequestFails, StoreResultsFails, StreamFails, CancelledInStream, ghosts, Finished
  <2>. QED BY <1>9, <2>1
<1>11. CASE StoreResults(r)
  <2>1. CASE Exit(r)
    BY <1>9, <1>11, <2>1 DEF StoreResults, ghosts
  <2>2. CASE ~Exit(r)
    <3>1. msg[r].finish = "tool_use" /\ pc'[r] = "loop" /\ msg' = msg /\ denied' = denied
      BY <1>2, <1>11, <2>2 DEF StoreResults, Goto, ghosts
    <3>2. ~AnyDenied(r)'
      BY <1>2, <3>1 DEF Denials, AnyDenied
    <3>. QED BY <1>1, <3>1, <3>2, DenialFree
  <2>. QED BY <2>1, <2>2
<1>12. CASE ToolNotFound(r) \/ StartTool(r) \/ RunTool(r)
  <2>1. /\ InTools(r) /\ pc'[r] \in {"tools", "call"} /\ msg' = msg /\ denied' = denied
    BY <1>2, <1>12 DEF ToolNotFound, StartTool, RunTool, ToolsLeft, InTools, Goto, Result, ghosts
  <2>2. Denials(r)'
    BY <1>2, <2>1 DEF Denials, AnyDenied, InTools
  <2>. QED BY <1>1, <2>1, <2>2, NothingDenied
<1>13. CASE ToolsCancelled(r)
  <2>1. pc'[r] = "tools" /\ denied' = denied
    BY <1>2, <1>13 DEF ToolsCancelled, ToolsLeft, ghosts, Finished
  <2>2. msg'[r].finish = "canceled"
    <3>1. PICK m \in Messages : /\ m = [msg[r] EXCEPT !.finish = "canceled"]
                                /\ m.finish = "canceled" /\ m.calls = msg[r].calls /\ m.results = <<>>
      BY FinishTyped DEF FinishReasons
    <3>2. msg' = [msg EXCEPT ![r] = m]
      BY <1>13, <3>1 DEF ToolsCancelled, Update, Finished
    <3>. QED BY <1>2, <3>1, <3>2
  <2>3. Denials(r)'
    BY <2>1, <2>2 DEF Denials, InTools
  <2>. QED BY <1>1, <2>1, <2>3, NothingDenied
<1>14. CASE ToolDenied(r)
  <2>1. pc[r] = "call" /\ pc'[r] = "tools" /\ at' = at /\ denied' = denied \cup {Call(r).id}
    BY <1>2, <1>14 DEF ToolDenied, Goto, Result, Finished
  <2>2. Call(r).id = <<at[r], next[r]>> /\ at[r] # 0
    <3>1. next[r] <= Len(msg[r].calls)
      BY <2>1 DEF Typed, Progress
    <3>2. at[r] # 0
      BY <2>1 DEF Typed, Position, Busy
    <3>. QED BY <3>1, <3>2, ResultTyped
  <2>3. PICK m \in Messages : /\ m = [msg[r] EXCEPT !.finish = "permission_denied"]
                              /\ m.finish = "permission_denied" /\ m.calls = msg[r].calls /\ m.results = <<>>
    BY FinishTyped DEF FinishReasons
  <2>4. msg'[r] = m
    BY <1>2, <1>14, <2>3 DEF ToolDenied, Finished, Result
  <2>5. Denials(r)'
    BY <2>1, <2>3, <2>4 DEF Denials, InTools
  <2>6. ASSUME NEW q \in Runs \ {r} PROVE Denials(q)'
    <3>1. Denials(q) /\ pc'[q] = pc[q] /\ msg'[q] = msg[q] /\ at'[q] = at[q]
      BY <1>1 DEF DenialInv, Only
    <3>2. at[q] # at[r]
      BY <2>2 DEF Typed, Apart
    <3>3. \A i \in DOMAIN msg[q].calls : msg[q].calls[i].id # <<at[r], next[r]>>
      BY <3>2 DEF Typed, Position
    <3>4. AnyDenied(q)' => AnyDenied(q)
      BY <2>1, <2>2, <3>1, <3>3 DEF AnyDenied
    <3>5. \A d \in denied' : d \in denied \/ d[1] = at[r]
      BY <2>1, <2>2
    <3>. QED BY <2>1, <3>1, <3>2, <3>4, <3>5 DEF Denials, InTools
  <2>7. \A d \in denied' : d[1] <= Len(messages')
    <3>1. Len(messages) \in Nat /\ Len(messages') \in Nat /\ Len(messages) <= Len(messages')
      BY <1>1 DEF Types, Grows
    <3>2. \A d \in denied : d[1] \in Nat /\ d[1] <= Len(messages)
      BY <1>1 DEF Types, CallIds, DenialInv
    <3>3. at[r] \in Nat /\ at[r] <= Len(messages)
      BY <1>1 DEF Types, Typed, Position
    <3>. QED BY <2>1, <2>2, <3>1, <3>2, <3>3
  <2>. QED BY <2>5, <2>6, <2>7 DEF DenialInv
<1>15. CASE Cancel(r)
  <2>1. UNCHANGED <<pc, msg, at, denied>>
    BY <1>15 DEF Cancel, ghosts
  <2>2. Denials(r)'
    BY <1>2, <2>1 DEF Denials, AnyDenied, InTools
  <2>. QED BY <1>1, <2>1, <2>2, NothingDenied
<1>. QED BY <1>5, <1>6, <1>7, <1>8, <1>10, <1>11, <1>12, <1>13, <1>14, <1>15 DEF RunStep

LEMMA DenialNext ==
  ASSUME Typed, DenialInv, [Next]_vars
  PROVE  DenialInv'
<1>1. CASE \E r \in Runs : Start(r) \/ RunStep(r) \/ Cancel(r)
  BY <1>1, DenialStep
<1>2. CASE Summarizing
  <2>1. Grows /\ UNCHANGED <<runVars, denied>>
    BY <1>2, SummarizingTyped
  <2>2. Len(messages) \in Nat /\ Len(messages') \in Nat /\ Len(messages) <= Len(messages')
    BY <2>1 DEF Typed, Types, Grows
  <2>3. \A d \in denied : d[1] \in Nat /\ d[1] <= Len(messages)
    BY DEF Typed, Types, CallIds, DenialInv
  <2>4. \A d \in denied' : d[1] <= Len(messages')
    BY <2>1, <2>2, <2>3
  <2>5. \A r \in Runs : Denials(r)'
    BY <2>1 DEF DenialInv, Denials, AnyDenied, InTools, runVars
  <2>. QED BY <2>4, <2>5 DEF DenialInv
<1>3. CASE UNCHANGED vars
  BY <1>3 DEF DenialInv, Denials, AnyDenied, InTools, vars, runVars, ghosts
<1>. QED BY <1>1, <1>2, <1>3 DEF Next, Summarizing

\* A request is only sent from the head of the loop.
LEMMA OnlyRequestAsks ==
  ASSUME Typed, [Next]_vars, NEW r \in Runs, asked'[r] # asked[r]
  PROVE  pc[r] = "loop"
<1>1. CASE \E q \in Runs : Request(q) \/ RequestFails(q)
  <2>1. PICK q \in Runs : Request(q) \/ RequestFails(q)
    BY <1>1
  <2>2. q = r
    BY <2>1 DEF Request, RequestFails, Typed, Types
  <2>. QED BY <2>1, <2>2 DEF Request, RequestFails
<1>2. CASE ~\E q \in Runs : Request(q) \/ RequestFails(q)
  <2>1. asked' = asked
    <3>1. ASSUME NEW q \in Runs, RunStep(q) PROVE asked' = asked
      <4>1. ~Request(q) /\ ~RequestFails(q)
        BY <1>2
      <4>. QED BY <3>1, <4>1 DEF RunStep, CreateUserMessage, StopBeforeRequest, StoreResultsFails, ToolUseStart,
             StreamComplete, StartTools, StreamClosedEarly, StreamFails, CancelledInStream,
             ToolsCancelled, ToolNotFound, StartTool, RunTool, ToolDenied, StoreResults, ghosts
    <3>2. ASSUME NEW q \in Runs, Start(q) \/ Cancel(q) PROVE asked' = asked
      BY <3>2 DEF Start, Cancel, ghosts
    <3>3. CASE Summarizing \/ UNCHANGED vars
      BY <3>3 DEF Summarizing, SummarizeStart, SummaryCreate, SummarySave, SummarizeFails, ghosts, vars
    <3>. QED BY <3>1, <3>2, <3>3 DEF Next, Summarizing
  <2>. QED BY <2>1
<1>. QED BY <1>1, <1>2

\* After the user denied a permission the turn asks the provider nothing more
\* (agent.go stops a run whose message is not finished with tool_use).
THEOREM DeniedTurnAsksNothing == Spec => NoRequestAfterDenial
<1>1. Init => DenialInv
  <2>1. DOMAIN Blank.calls = {}
    BY MadeTyped, EmptySequence
  <2>. QED BY <2>1 DEF Init, DenialInv, Denials, AnyDenied
<1>2. Typed /\ DenialInv /\ [Next]_vars => DenialInv'
  BY DenialNext
<1>3. Typed /\ DenialInv /\ [Next]_vars =>
        [\A r \in Runs : asked'[r] # asked[r] =>
           \A i \in DOMAIN msg[r].calls : msg[r].calls[i].id \notin denied]_vars
  <2>1. SUFFICES ASSUME Typed, DenialInv, [Next]_vars, NEW r \in Runs, asked'[r] # asked[r]
                 PROVE  \A i \in DOMAIN msg[r].calls : msg[r].calls[i].id \notin denied
    OBVIOUS
  <2>2. pc[r] = "loop"
    BY <2>1, OnlyRequestAsks
  <2>. QED BY <2>1, <2>2 DEF DenialInv, Denials, AnyDenied, InTools
<1>4. Spec => []Typed
  BY InitTyped, NextTyped, PTL DEF Spec
<1>. QED BY <1>1, <1>2, <1>3, <1>4, PTL DEF Spec, NoRequestAfterDenial

---------------------------------------------------------------------------
(* Stored results tell what happened *)

AllResults ==
  {x \in Results : \E i \in 1 .. Len(messages) : \E k \in 1 .. Len(messages[i].results) :
                     x = messages[i].results[k]}

Truth(x) ==
  /\ x.content = "output" => x.id \in executed
  /\ x.content = "denied" => x.id \in denied
  /\ x.content # "output" => x.id \notin executed

\* A stored result is true, and of a message no run works on.
Settled(x) ==
  Truth(x) /\ x.id[1] <= Len(messages) /\ \A q \in Runs : Busy(q) => x.id[1] # at[q]

LocalTrue(r) ==
  \A k \in 1 .. Len(results[r]) :
    /\ results[r][k].id = <<at[r], k>>
    /\ Truth(results[r][k])
    /\ k >= next[r] => results[r][k].content = "canceled"

Ahead(r) ==
  Busy(r) => \A e \in executed : e[1] = at[r] => e[2] < next[r]

\* A run has its results in hand, or could not store them.
Holding(q) == InTools(q) \/ (q \in unstored /\ pc[q] = "done")

\* A tool that ran is reported, or its run has the result in hand.
Kept(e) ==
  /\ e[1] <= Len(messages)
  /\ \/ [id |-> e, content |-> "output"] \in AllResults
     \/ \E q \in Runs : Holding(q) /\ at[q] = e[1]

TruthInv ==
  /\ \A x \in AllResults : Settled(x)
  /\ \A r \in Runs : LocalTrue(r) /\ Ahead(r)
  /\ \A e \in executed : Kept(e)

LEMMA Numbers ==
  ASSUME Types
  PROVE  /\ Len(messages) \in Nat /\ \A r \in Runs : at[r] \in Nat /\ next[r] \in Nat
         /\ \A e \in CallIds : e[1] \in Nat /\ e[2] \in Nat \ {0} /\ e = <<e[1], e[2]>>
         /\ \A x \in Results : x.id \in CallIds
         /\ \A i \in 1 .. Len(messages) :
              /\ messages[i].results \in Seq(Results)
              /\ \A k \in 1 .. Len(messages[i].results) : messages[i].results[k] \in Results
<1>1. messages \in Seq(Messages) /\ Len(messages) \in Nat
  BY DEF Types
<1>2. \A r \in Runs : at[r] \in Nat /\ next[r] \in Nat
  BY DEF Types
<1>3. \A e \in CallIds : e[1] \in Nat /\ e[2] \in Nat \ {0} /\ e = <<e[1], e[2]>>
  BY BoundsAssumption DEF CallIds
<1>4. \A i \in 1 .. Len(messages) : messages[i].results \in Seq(Results)
  BY <1>1 DEF Messages
<1>5. \A i \in 1 .. Len(messages) : \A k \in 1 .. Len(messages[i].results) :
        messages[i].results[k] \in Results
  BY <1>4
<1>6. \A x \in Results : x.id \in CallIds
  BY DEF Results
<1>. QED BY <1>1, <1>2, <1>3, <1>4, <1>5, <1>6

\* What is stored stays stored.
LEMMA StaysStored ==
  ASSUME Types, Grows
  PROVE  AllResults \subseteq AllResults'
<1>1. Len(messages) \in Nat /\ Len(messages') \in Nat /\ Len(messages) <= Len(messages')
  BY DEF Types, Grows
<1>2. ASSUME NEW x \in AllResults PROVE x \in AllResults'
  <2>1. x \in Results
    BY DEF AllResults
  <2>2. PICK i \in 1 .. Len(messages) : \E k \in 1 .. Len(messages[i].results) : x = messages[i].results[k]
    BY DEF AllResults
  <2>3. i \in 1 .. Len(messages') /\ messages'[i].results = messages[i].results
    BY <1>1 DEF Grows
  <2>. QED BY <2>1, <2>2, <2>3 DEF AllResults
<1>. QED BY <1>2

\* A step that puts no result into the table.
Unreporting ==
  \A i \in Len(messages) + 1 .. Len(messages') : messages'[i].results = <<>>

LEMMA SameStored ==
  ASSUME Types, Grows, Unreporting
  PROVE  AllResults' = AllResults
<1>1. Len(messages) \in Nat /\ Len(messages') \in Nat /\ Len(messages) <= Len(messages')
  BY DEF Types, Grows
<1>2. ASSUME NEW x \in AllResults' PROVE x \in AllResults
  <2>1. x \in Results
    BY DEF AllResults
  <2>2. PICK i \in 1 .. Len(messages') : \E k \in 1 .. Len(messages'[i].results) : x = messages'[i].results[k]
    BY DEF AllResults
  <2>3. messages'[i].results # <<>>
    BY <2>2, EmptySequence
  <2>4. i \in 1 .. Len(messages)
    BY <1>1, <2>3 DEF Unreporting
  <2>5. messages'[i].results = messages[i].results
    BY <2>4 DEF Grows
  <2>. QED BY <2>1, <2>2, <2>4, <2>5 DEF AllResults
<1>. QED BY <1>2, StaysStored

\* The results of r are stored.
LEMMA ResultsStored ==
  ASSUME Types, NEW m \in Messages, messages' = Append(messages, m), NEW x
  PROVE  x \in AllResults' <=>
           x \in AllResults \/ \E k \in 1 .. Len(m.results) : x = m.results[k]
<1>1. /\ Grows /\ Len(messages') = Len(messages) + 1 /\ messages'[Len(messages) + 1] = m
      /\ \A i \in 1 .. Len(messages) : messages'[i] = messages[i]
  BY AppendGrows
<1>5. Len(messages) \in Nat
  BY DEF Types
<1>2. x \in AllResults => x \in AllResults'
  BY <1>1, StaysStored
<1>3. ASSUME NEW k \in 1 .. Len(m.results), x = m.results[k] PROVE x \in AllResults'
  <2>1. m.results \in Seq(Results)
    BY DEF Messages
  <2>2. x \in Results
    BY <1>3, <2>1
  <2>3. Len(messages) + 1 \in 1 .. Len(messages')
    BY <1>1, <1>5
  <2>. QED BY <1>1, <1>3, <2>2, <2>3 DEF AllResults
<1>4. ASSUME x \in AllResults' PROVE x \in AllResults \/ \E k \in 1 .. Len(m.results) : x = m.results[k]
  <2>1. x \in Results
    BY <1>4 DEF AllResults
  <2>2. PICK i \in 1 .. Len(messages') : \E k \in 1 .. Len(messages'[i].results) : x = messages'[i].results[k]
    BY <1>4 DEF AllResults
  <2>3. CASE i = Len(messages) + 1
    BY <1>1, <2>2, <2>3
  <2>4. CASE i # Len(messages) + 1
    <3>1. i \in 1 .. Len(messages) /\ messages'[i] = messages[i]
      BY <1>1, <1>5, <2>4
    <3>. QED BY <2>1, <2>2, <3>1 DEF AllResults
  <2>. QED BY <2>3, <2>4
<1>. QED BY <1>2, <1>3, <1>4

\* Only StoreResults puts results into the table.
LEMMA RunUnreporting ==
  ASSUME Typed, NEW r \in Runs, Start(r) \/ RunStep(r) \/ Cancel(r), ~StoreResults(r)
  PROVE  Unreporting
<1>1. Types /\ messages \in Seq(Messages) /\ Len(messages) \in Nat
  BY DEF Typed, Types
<1>2. CASE messages' = messages
  BY <1>1, <1>2 DEF Unreporting
<1>3. ASSUME NEW m, messages' = Stored(r, m) PROVE Unreporting
  <2>1. Len(messages') = Len(messages)
    BY <1>1, <1>3 DEF Stored
  <2>. QED BY <1>1, <2>1 DEF Unreporting
<1>4. ASSUME NEW m \in Messages, m.results = <<>>, messages' = Append(messages, m) PROVE Unreporting
  <2>1. Len(messages') = Len(messages) + 1 /\ messages'[Len(messages) + 1] = m
    BY <1>1, <1>4, AppendGrows
  <2>. QED BY <1>1, <1>4, <2>1 DEF Unreporting
<1>5. CASE Start(r) \/ StopBeforeRequest(r) \/ RequestFails(r) \/ StoreResultsFails(r)
             \/ StartTools(r) \/ StreamClosedEarly(r)
             \/ ToolNotFound(r) \/ StartTool(r) \/ RunTool(r) \/ Cancel(r)
  <2>1. messages' = messages
    BY <1>5 DEF Start, StopBeforeRequest, RequestFails, StoreResultsFails, StartTools, StreamClosedEarly, ToolNotFound, StartTool,
                RunTool, Cancel, Result
  <2>. QED BY <1>2, <2>1
<1>6. CASE ToolUseStart(r) \/ StreamComplete(r) \/ ToolsCancelled(r)
  <2>1. \E m : messages' = Stored(r, m)
    BY <1>6 DEF ToolUseStart, StreamComplete, ToolsCancelled, Update, Finished
  <2>. QED BY <1>3, <2>1
<1>7. CASE StreamFails(r) \/ CancelledInStream(r) \/ ToolDenied(r)
  <2>1. messages' = messages \/ \E m : messages' = Stored(r, m)
    BY <1>7 DEF StreamFails, CancelledInStream, ToolDenied, Finished, Result
  <2>. QED BY <1>2, <1>3, <2>1
<1>8. CASE CreateUserMessage(r) \/ Request(r)
  <2>1. \E m \in Messages : m.results = <<>> /\ messages' = Append(messages, m)
    BY <1>8, MadeTyped DEF CreateUserMessage, Request
  <2>. QED BY <1>4, <2>1
<1>. QED BY <1>5, <1>6, <1>7, <1>8 DEF RunStep

\* A step that neither runs, denies nor reports a call.
LEMMA QuietTrue ==
  ASSUME Typed, Typed', TruthInv, NEW r \in Runs, Grows, Only(r), Unreporting,
         executed' = executed, denied' = denied,
         Busy(r)' => \/ at'[r] > Len(messages)
                     \/ Busy(r) /\ at'[r] = at[r] /\ next'[r] = next[r],
         \/ results'[r] = <<>>
         \/ results'[r] = results[r] /\ next'[r] = next[r] /\ at'[r] = at[r],
         pc[r] # "done", unstored \subseteq unstored',
         InTools(r) => Holding(r)' /\ at'[r] = at[r]
  PROVE  TruthInv'
<1>1. AllResults' = AllResults
  BY SameStored DEF Typed
<1>2. /\ Len(messages) \in Nat /\ Len(messages') \in Nat /\ Len(messages) <= Len(messages')
      /\ \A q \in Runs : at'[q] \in Nat
  <2>1. \A q \in Runs : at'[q] \in Nat
    BY DEF Typed, Types
  <2>. QED BY <2>1, Lengths DEF Typed
<1>3. \A q \in Runs : /\ Busy(q)' => at'[q] > Len(messages) \/ (Busy(q) /\ at'[q] = at[q])
                      /\ Holding(q) => Holding(q)' /\ at'[q] = at[q]
  BY DEF Only, Busy, InTools, Holding
<1>4. \A e \in executed : e[1] \in Nat /\ e[1] <= Len(messages)
  BY Numbers DEF Typed, Types, TruthInv, Kept
<1>5. ASSUME NEW x \in AllResults PROVE Settled(x)'
  <2>1. Settled(x)
    BY DEF TruthInv
  <2>2. x.id[1] \in Nat
    BY Numbers DEF Typed, AllResults
  <2>. QED BY <1>2, <1>3, <2>1, <2>2 DEF Settled, Truth
<1>6. LocalTrue(r)'
  <2>1. LocalTrue(r)
    BY DEF TruthInv
  <2>2. CASE results'[r] = <<>>
    BY <2>2, EmptySequence DEF LocalTrue
  <2>3. CASE results'[r] # <<>>
    BY <2>1, <2>3 DEF LocalTrue, Truth
  <2>. QED BY <2>2, <2>3
<1>7. Ahead(r)'
  <2>1. Ahead(r)
    BY DEF TruthInv
  <2>. QED BY <1>2, <1>4, <2>1 DEF Ahead
<1>8. ASSUME NEW q \in Runs \ {r} PROVE LocalTrue(q)' /\ Ahead(q)'
  BY DEF TruthInv, LocalTrue, Truth, Ahead, Only, Busy
<1>9. ASSUME NEW e \in executed PROVE Kept(e)'
  <2>1. Kept(e) /\ e[1] <= Len(messages')
    BY <1>2, <1>4 DEF TruthInv
  <2>. QED BY <1>1, <1>3, <2>1 DEF Kept
<1>. QED BY <1>1, <1>5, <1>6, <1>7, <1>8, <1>9 DEF TruthInv

\* A step of the tool loop.
LEMMA LoopTrue ==
  ASSUME Typed, Typed', TruthInv, NEW r \in Runs, Grows, Only(r), Unreporting,
         executed' = executed \/ executed' = executed \cup {<<at[r], next[r]>>},
         denied' = denied \/ denied' = denied \cup {<<at[r], next[r]>>},
         InTools(r), InTools(r)', at' = at, LocalTrue(r)', Ahead(r)', unstored \subseteq unstored'
  PROVE  TruthInv'
<1>1. AllResults' = AllResults
  BY SameStored DEF Typed
<1>2. /\ Len(messages) \in Nat /\ Len(messages') \in Nat /\ Len(messages) <= Len(messages')
      /\ at[r] \in Nat /\ at[r] <= Len(messages) /\ at[r] # 0
  BY DEF Typed, Types, Grows, Position, Busy, InTools
<1>3. \A q \in Runs \ {r} : at[q] # at[r]
  BY <1>2 DEF Typed, Apart
<1>4. \A q \in Runs : (Busy(q)' => Busy(q)) /\ (Holding(q) => Holding(q)')
  BY DEF Only, Busy, InTools, Holding
<1>5. ASSUME NEW x \in AllResults PROVE Settled(x)'
  <2>1. Settled(x)
    BY DEF TruthInv
  <2>2. x.id[1] \in Nat
    BY Numbers DEF Typed, AllResults
  <2>3. x.id[1] # at[r]
    BY <2>1 DEF Settled, Busy, InTools
  <2>4. x.id # <<at[r], next[r]>>
    BY <2>3
  <2>5. Truth(x)'
    BY <2>1, <2>4 DEF Settled, Truth
  <2>. QED BY <1>2, <1>4, <2>1, <2>2, <2>5 DEF Settled
<1>6. ASSUME NEW q \in Runs \ {r} PROVE LocalTrue(q)' /\ Ahead(q)'
  <2>1. /\ LocalTrue(q) /\ Ahead(q) /\ at[q] # at[r] /\ (Busy(q)' => Busy(q))
        /\ results'[q] = results[q] /\ next'[q] = next[q]
    BY <1>3, <1>4 DEF TruthInv, Only
  <2>2. LocalTrue(q)'
    <3>1. ASSUME NEW k \in 1 .. Len(results[q])
          PROVE  /\ results[q][k].id = <<at[q], k>>
                 /\ Truth(results[q][k]) /\ k >= next[q] => results[q][k].content = "canceled"
                 /\ results[q][k].id # <<at[r], next[r]>>
      BY <2>1 DEF LocalTrue
    <3>. QED BY <2>1, <3>1 DEF LocalTrue, Truth
  <2>3. Ahead(q)'
    BY <2>1 DEF Ahead
  <2>. QED BY <2>2, <2>3
<1>7. ASSUME NEW e \in executed' PROVE Kept(e)'
  <2>1. CASE e \in executed
    <3>1. Kept(e) /\ e[1] \in Nat
      BY <2>1, Numbers DEF TruthInv, Typed, Types
    <3>2. e[1] <= Len(messages')
      BY <1>2, <3>1 DEF Kept
    <3>. QED BY <1>1, <1>4, <3>1, <3>2 DEF Kept
  <2>2. CASE e = <<at[r], next[r]>>
    BY <1>2, <2>2 DEF Kept, Holding
  <2>. QED BY <2>1, <2>2
<1>. QED BY <1>1, <1>5, <1>6, <1>7 DEF TruthInv

\* What is known of the calls of a run in the tool loop.
LEMMA InTheLoop ==
  ASSUME Typed, TruthInv, NEW r \in Runs, InTools(r)
  PROVE  /\ \A e \in executed : e[1] = at[r] => e[2] < next[r]
         /\ \A k \in Nat : k >= next[r] => <<at[r], k>> \notin executed
         /\ \A k \in 1 .. Len(results[r]) :
              /\ results[r][k].id = <<at[r], k>> /\ Truth(results[r][k])
              /\ k >= next[r] => results[r][k].content = "canceled"
         /\ next[r] \in Nat /\ Len(results[r]) \in Nat /\ Len(msg[r].calls) \in Nat
         /\ at[r] # 0
<1>1. \A e \in executed : e[1] = at[r] => e[2] < next[r]
  BY DEF TruthInv, Ahead, Busy, InTools
<1>2. next[r] \in Nat /\ results[r] \in Seq(Results) /\ msg[r].calls \in Seq(Calls)
  BY CallTyped
<1>3. \A k \in Nat : k >= next[r] => <<at[r], k>> \notin executed
  BY <1>1, <1>2
<1>4. \A k \in 1 .. Len(results[r]) :
        /\ results[r][k].id = <<at[r], k>> /\ Truth(results[r][k])
        /\ k >= next[r] => results[r][k].content = "canceled"
  BY DEF TruthInv, LocalTrue
<1>5. at[r] # 0
  BY DEF Typed, Position, Busy, InTools
<1>. QED BY <1>1, <1>2, <1>3, <1>4, <1>5

\* The loop writes the result of its call, and what it cancels after it.
LEMMA LoopStepTrue ==
  ASSUME Typed, TruthInv, NEW r \in Runs, RunStep(r), ~StoreResults(r),
         InTools(r), InTools(r)', at' = at,
         executed' = executed \/ executed' = executed \cup {<<at[r], next[r]>>},
         denied' = denied \/ denied' = denied \cup {<<at[r], next[r]>>},
         next'[r] > next[r], NEW seq \in Seq(Results), results'[r] = seq,
         \A k \in 1 .. Len(seq) : seq[k].id = <<at[r], k>>,
         \A k \in 1 .. Len(seq) : k < next[r] => k \in 1 .. Len(results[r]) /\ seq[k] = results[r][k],
         \A k \in 1 .. Len(seq) : k > next[r] => seq[k].content = "canceled",
         \/ seq[next[r]].content = "output" /\ <<at[r], next[r]>> \in executed'
         \/ seq[next[r]].content = "denied" /\ <<at[r], next[r]>> \in denied' /\ executed' = executed
         \/ seq[next[r]].content \in {"missing", "canceled"} /\ executed' = executed
  PROVE  TruthInv'
<1>1. Typed' /\ Grows /\ Only(r) /\ Unreporting /\ unstored \subseteq unstored'
  BY RunTyped, RunUnreporting, RunTouches
<1>2. ASSUME NEW k \in 1 .. Len(seq)
      PROVE  /\ seq[k].content = "output" => <<at[r], k>> \in executed'
             /\ seq[k].content = "denied" => <<at[r], k>> \in denied'
             /\ seq[k].content # "output" => <<at[r], k>> \notin executed'
  <2>1. CASE k < next[r]
    <3>1. seq[k] = results[r][k] /\ results[r][k].id = <<at[r], k>> /\ Truth(results[r][k])
      BY <2>1, InTheLoop
    <3>2. <<at[r], k>> # <<at[r], next[r]>>
      BY <2>1, InTheLoop
    <3>. QED BY <3>1, <3>2 DEF Truth
  <2>2. CASE k = next[r]
    <3>1. <<at[r], k>> \notin executed
      BY <2>2, InTheLoop
    <3>. QED BY <2>2, <3>1
  <2>3. CASE k > next[r]
    <3>1. <<at[r], k>> \notin executed /\ <<at[r], k>> # <<at[r], next[r]>>
      BY <2>3, InTheLoop
    <3>. QED BY <2>3, <3>1
  <2>4. next[r] \in Nat
    BY InTheLoop
  <2>. QED BY <2>1, <2>2, <2>3, <2>4
<1>3. LocalTrue(r)'
  <2>1. next[r] \in Nat /\ next'[r] \in Nat
    BY <1>1, InTheLoop, Numbers DEF Typed, Types
  <2>2. \A k \in 1 .. Len(seq) : k >= next'[r] => seq[k].content = "canceled"
    <3>1. Len(seq) \in Nat
      OBVIOUS
    <3>. QED BY <2>1, <3>1
  <2>3. ASSUME NEW k \in 1 .. Len(results'[r])
        PROVE  /\ results'[r][k].id = <<at'[r], k>> /\ results'[r][k] = seq[k]
               /\ k >= next'[r] => results'[r][k].content = "canceled"
    BY <2>2
  <2>4. ASSUME NEW k \in 1 .. Len(results'[r])
        PROVE  Truth(results[r][k])'
    <3>1. k \in 1 .. Len(seq) /\ results'[r][k] = seq[k] /\ seq[k].id = <<at[r], k>>
      BY <2>3
    <3>2. /\ seq[k].content = "output" => <<at[r], k>> \in executed'
          /\ seq[k].content = "denied" => <<at[r], k>> \in denied'
          /\ seq[k].content # "output" => <<at[r], k>> \notin executed'
      BY <1>2, <3>1
    <3>. QED BY <3>1, <3>2 DEF Truth
  <2>. QED BY <2>3, <2>4 DEF LocalTrue
<1>4. Ahead(r)'
  <2>1. next[r] \in Nat /\ next'[r] \in Nat
    BY <1>1, InTheLoop, Numbers DEF Typed, Types
  <2>2. \A e \in executed : e[1] = at[r] => e[2] < next[r] /\ e[2] \in Nat
    BY InTheLoop, Numbers DEF Typed, Types
  <2>3. \A e \in executed' : e \in executed \/ (e[1] = at[r] /\ e[2] = next[r])
    OBVIOUS
  <2>4. \A e \in executed' : e[1] = at[r] => e[2] < next'[r]
    BY <2>1, <2>2, <2>3
  <2>. QED BY <2>4 DEF Ahead
<1>. QED BY <1>1, <1>3, <1>4, LoopTrue

\* One result is written.
LEMMA OneResultTrue ==
  ASSUME Typed, TruthInv, NEW r \in Runs, RunStep(r), ~StoreResults(r),
         InTools(r), InTools(r)', at' = at, next[r] <= Len(msg[r].calls),
         NEW content \in {"output", "missing"},
         executed' = IF content = "output" THEN executed \cup {<<at[r], next[r]>>} ELSE executed,
         denied' = denied, next'[r] = next[r] + 1,
         results'[r] = With(results[r], next[r], [id |-> Call(r).id, content |-> content])
  PROVE  TruthInv'
<1>. DEFINE x == [id |-> Call(r).id, content |-> content]
            seq == With(results[r], next[r], x)
<1>1. /\ x \in Results /\ next[r] \in 1 .. Len(results[r]) + 1 /\ Call(r).id = <<at[r], next[r]>>
      /\ results[r] \in Seq(Results)
  BY ResultTyped, CallTyped
<1>2. x.content = content /\ x.id = <<at[r], next[r]>>
  BY <1>1
<1>. HIDE DEF x
<1>3. /\ seq \in Seq(Results)
      /\ Len(seq) = IF next[r] > Len(results[r]) THEN next[r] ELSE Len(results[r])
      /\ seq[next[r]] = x
      /\ \A k \in 1 .. Len(results[r]) : k # next[r] => seq[k] = results[r][k]
  <2>1. /\ results[r] \in Seq(Results) /\ x \in Results
        /\ next[r] \in 1 .. Len(results[r]) + 1
    BY <1>1
  <2>. QED BY <2>1, WithResult
<1>4. results'[r] = seq
  BY DEF x
<1>. HIDE DEF seq
<1>5. next[r] \in Nat /\ Len(results[r]) \in Nat
  BY InTheLoop
<1>6. \A k \in 1 .. Len(seq) : k # next[r] => k \in 1 .. Len(results[r]) /\ seq[k] = results[r][k]
  BY <1>1, <1>3, <1>5
<1>7. \A k \in 1 .. Len(seq) : seq[k].id = <<at[r], k>>
  <2>1. ASSUME NEW k \in 1 .. Len(seq) PROVE seq[k].id = <<at[r], k>>
    <3>1. CASE k = next[r]
      BY <1>2, <1>3, <3>1
    <3>2. CASE k # next[r]
      BY <1>6, <3>2, InTheLoop
    <3>. QED BY <3>1, <3>2
  <2>. QED BY <2>1
<1>8. \A k \in 1 .. Len(seq) : k > next[r] => seq[k].content = "canceled"
  BY <1>5, <1>6, InTheLoop
<1>9. \/ seq[next[r]].content = "output" /\ <<at[r], next[r]>> \in executed'
      \/ seq[next[r]].content \in {"missing", "canceled"} /\ executed' = executed
  BY <1>2, <1>3
<1>10. \A k \in 1 .. Len(seq) : k < next[r] => k \in 1 .. Len(results[r]) /\ seq[k] = results[r][k]
  BY <1>5, <1>6
<1>11. next'[r] > next[r]
  BY <1>5
<1>. QED BY <1>3, <1>4, <1>7, <1>8, <1>9, <1>10, <1>11, LoopStepTrue

LEMMA ToolNotFoundTrue ==
  ASSUME Typed, TruthInv, NEW r \in Runs, ToolNotFound(r)
  PROVE  TruthInv'
<1>1. /\ RunStep(r) /\ ~StoreResults(r) /\ InTools(r) /\ next[r] <= Len(msg[r].calls)
  BY DEF RunStep, ToolNotFound, StoreResults, ToolsLeft, InTools
<1>2. UNCHANGED <<pc, at, executed, denied>>
  BY DEF ToolNotFound, ghosts, Result
<1>3. InTools(r)'
  BY <1>1, <1>2 DEF InTools
<1>4. /\ next'[r] = next[r] + 1
      /\ results'[r] = With(results[r], next[r], [id |-> Call(r).id, content |-> "missing"])
  <2>1. results \in [Runs -> Seq(Results)] /\ next \in [Runs -> Nat \ {0}]
    BY DEF Typed, Types
  <2>. QED BY <2>1 DEF ToolNotFound, Result
<1>. QED BY <1>1, <1>2, <1>3, <1>4, OneResultTrue

LEMMA RunToolTrue ==
  ASSUME Typed, TruthInv, NEW r \in Runs, RunTool(r)
  PROVE  TruthInv'
<1>1. /\ RunStep(r) /\ ~StoreResults(r) /\ InTools(r) /\ next[r] <= Len(msg[r].calls)
  BY DEF RunStep, RunTool, StoreResults, InTools, Typed, Progress
<1>2. UNCHANGED <<at, denied>> /\ executed' = executed \cup {<<at[r], next[r]>>}
  BY <1>1, ResultTyped DEF RunTool, Result
<1>3. InTools(r)'
  BY DEF InTools, RunTool, Goto, Typed, Types, Result
<1>4. /\ next'[r] = next[r] + 1
      /\ results'[r] = With(results[r], next[r], [id |-> Call(r).id, content |-> "output"])
  <2>1. results \in [Runs -> Seq(Results)] /\ next \in [Runs -> Nat \ {0}]
    BY DEF Typed, Types
  <2>. QED BY <2>1 DEF RunTool, Result
<1>. QED BY <1>1, <1>2, <1>3, <1>4, OneResultTrue

LEMMA ToolDeniedTrue ==
  ASSUME Typed, TruthInv, NEW r \in Runs, ToolDenied(r)
  PROVE  TruthInv'
<1>. DEFINE x == [id |-> Call(r).id, content |-> "denied"]
            seq == With(CanceledFrom(r, next[r]), next[r], x)
            n == Len(msg[r].calls)
<1>1. /\ RunStep(r) /\ ~StoreResults(r) /\ InTools(r) /\ next[r] <= n
  BY DEF RunStep, ToolDenied, StoreResults, InTools, Typed, Progress
<1>2. UNCHANGED <<at, executed>> /\ denied' = denied \cup {<<at[r], next[r]>>}
  BY <1>1, ResultTyped DEF ToolDenied, Result, Finished
<1>3. InTools(r)'
  BY DEF InTools, ToolDenied, Goto, Typed, Types, Result, Finished
<1>4. next'[r] = next[r] + 1 /\ results'[r] = seq
  <2>1. results \in [Runs -> Seq(Results)] /\ next \in [Runs -> Nat \ {0}]
    BY DEF Typed, Types
  <2>. QED BY <2>1 DEF ToolDenied, Result, Finished
<1>12. /\ seq = With(CanceledFrom(r, next[r]), next[r], x)
       /\ x = [id |-> Call(r).id, content |-> "denied"]
  OBVIOUS
<1>. HIDE DEF seq, x
<1>5. /\ seq \in Seq(Results) /\ Len(seq) = n
      /\ seq[next[r]].id = <<at[r], next[r]>> /\ seq[next[r]].content = "denied"
      /\ \A k \in 1 .. n : k < next[r] => seq[k] = results[r][k]
      /\ \A k \in 1 .. n : k > next[r] => seq[k].id = msg[r].calls[k].id /\ seq[k].content = "canceled"
  <2>1. next[r] <= Len(msg[r].calls) /\ n = Len(msg[r].calls)
    BY <1>1
  <2>2. seq \in Seq(Results) /\ Len(seq) = Len(msg[r].calls)
    BY <1>12, <2>1, DeniedResults
  <2>3. seq[next[r]].id = <<at[r], next[r]>> /\ seq[next[r]].content = "denied"
    BY <1>12, <2>1, DeniedResults
  <2>4. \A k \in 1 .. Len(msg[r].calls) : k < next[r] => seq[k] = results[r][k]
    BY <1>12, <2>1, DeniedResults
  <2>5. \A k \in 1 .. Len(msg[r].calls) : k > next[r] =>
          seq[k].id = msg[r].calls[k].id /\ seq[k].content = "canceled"
    BY <1>12, <2>1, DeniedResults
  <2>. QED BY <2>1, <2>2, <2>3, <2>4, <2>5
<1>6. next[r] \in Nat /\ Len(results[r]) \in Nat /\ n \in Nat /\ next[r] - 1 <= Len(results[r])
  BY <1>1, InTheLoop DEF Typed, Progress
<1>7. \A k \in 1 .. Len(seq) : k < next[r] => k \in 1 .. Len(results[r]) /\ seq[k] = results[r][k]
  BY <1>5, <1>6
<1>8. \A k \in 1 .. Len(seq) : k > next[r] =>
        seq[k].content = "canceled" /\ seq[k].id = <<at[r], k>>
  <2>1. \A k \in 1 .. n : msg[r].calls[k].id = <<at[r], k>>
    BY CallTyped
  <2>. QED BY <1>5, <1>6, <2>1
<1>9. \A k \in 1 .. Len(seq) : seq[k].id = <<at[r], k>>
  <2>1. ASSUME NEW k \in 1 .. Len(seq) PROVE seq[k].id = <<at[r], k>>
    <3>1. CASE k < next[r]
      BY <1>1, <1>7, <3>1, InTheLoop
    <3>2. CASE k = next[r]
      BY <1>5, <3>2
    <3>3. CASE k > next[r]
      BY <1>8, <3>3
    <3>. QED BY <1>6, <3>1, <3>2, <3>3
  <2>. QED BY <2>1
<1>10. /\ seq[next[r]].content = "denied" /\ <<at[r], next[r]>> \in denied' /\ executed' = executed
  BY <1>2, <1>5
<1>11. next'[r] > next[r]
  BY <1>4, <1>6
<1>. QED BY <1>1, <1>2, <1>3, <1>4, <1>5, <1>7, <1>8, <1>9, <1>10, <1>11, LoopStepTrue

LEMMA ToolsCancelledTrue ==
  ASSUME Typed, TruthInv, NEW r \in Runs, ToolsCancelled(r)
  PROVE  TruthInv'
<1>. DEFINE seq == CanceledFrom(r, next[r])
            n == Len(msg[r].calls)
<1>1. /\ RunStep(r) /\ ~StoreResults(r) /\ InTools(r) /\ next[r] <= n
  BY DEF RunStep, ToolsCancelled, StoreResults, InTools, ToolsLeft
<1>2. UNCHANGED <<pc, at, executed, denied>>
  BY DEF ToolsCancelled, ghosts, Finished
<1>3. InTools(r)'
  BY <1>1, <1>2 DEF InTools
<1>4. next'[r] = n + 1 /\ results'[r] = seq
  <2>1. results \in [Runs -> Seq(Results)] /\ next \in [Runs -> Nat \ {0}]
    BY DEF Typed, Types
  <2>. QED BY <2>1 DEF ToolsCancelled, Finished
<1>5. next[r] \in 1 .. n /\ Len(results[r]) \in Nat /\ n \in Nat /\ next[r] - 1 <= Len(results[r])
  <2>1. next[r] \in Nat /\ Len(results[r]) \in Nat /\ n \in Nat /\ next[r] \in Nat \ {0}
    BY <1>1, InTheLoop, CallTyped
  <2>. QED BY <1>1, <2>1 DEF Typed, Progress
<1>6. /\ seq \in Seq(Results) /\ Len(seq) = n
      /\ \A k \in 1 .. n : k < next[r] => seq[k] = results[r][k]
      /\ \A k \in 1 .. n : k >= next[r] => seq[k].id = <<at[r], k>> /\ seq[k].content = "canceled"
  BY <1>5, CanceledResults
<1>. HIDE DEF seq
<1>7. \A k \in 1 .. Len(seq) : k < next[r] => k \in 1 .. Len(results[r]) /\ seq[k] = results[r][k]
  BY <1>5, <1>6
<1>8. \A k \in 1 .. Len(seq) : k >= next[r] =>
        seq[k].content = "canceled" /\ seq[k].id = <<at[r], k>>
  BY <1>5, <1>6
<1>9. \A k \in 1 .. Len(seq) : seq[k].id = <<at[r], k>>
  <2>1. ASSUME NEW k \in 1 .. Len(seq) PROVE seq[k].id = <<at[r], k>>
    <3>1. CASE k < next[r]
      BY <1>1, <1>7, <3>1, InTheLoop
    <3>2. CASE k >= next[r]
      BY <1>8, <3>2
    <3>. QED BY <1>5, <3>1, <3>2
  <2>. QED BY <2>1
<1>10. seq[next[r]].content = "canceled" /\ executed' = executed
  BY <1>2, <1>5, <1>6
<1>11. next'[r] > next[r]
  BY <1>4, <1>5
<1>12. \A k \in 1 .. Len(seq) : k > next[r] => seq[k].content = "canceled"
  BY <1>5, <1>8
<1>. QED BY <1>1, <1>2, <1>3, <1>4, <1>6, <1>7, <1>9, <1>10, <1>11, <1>12, LoopStepTrue

\* The results of a run come into the table: what ran is reported there.
LEMMA StoreResultsTrue ==
  ASSUME Typed, TruthInv, NEW r \in Runs, StoreResults(r)
  PROVE  TruthInv'
<1>. DEFINE n == Len(results[r])
<1>1. Typed' /\ Grows /\ Only(r) /\ Types
  BY RunTyped DEF RunStep, Typed
<1>2. /\ pc[r] = "tools" /\ InTools(r) /\ at[r] # 0 /\ at' = at /\ executed' = executed /\ denied' = denied
      /\ ~(next[r] <= Len(msg[r].calls))
  BY InTheLoop DEF StoreResults, ToolsLeft, InTools, ghosts
<1>3. pc'[r] \in {"loop", "done"} /\ results'[r] = <<>>
  <2>1. CASE Exit(r)
    BY <1>1, <2>1, ExitTyped
  <2>2. CASE ~Exit(r)
    BY <1>1, <2>2 DEF StoreResults, Goto, Types
  <2>. QED BY <2>1, <2>2
<1>4. /\ Len(messages) \in Nat /\ Len(messages') \in Nat /\ Len(messages) <= Len(messages')
      /\ at[r] \in Nat /\ at[r] <= Len(messages)
  <2>1. at[r] <= Len(messages)
    BY DEF Typed, Position
  <2>. QED BY <1>1, <2>1, Lengths
<1>5. \A q \in Runs : Busy(q)' => q # r /\ Busy(q) /\ at[q] # at[r]
  <2>1. \A q \in Runs \ {r} : at[q] # at[r]
    BY <1>2 DEF Typed, Apart
  <2>. QED BY <1>1, <1>3, <2>1 DEF Only, Busy
<1>6. \A x : x \in AllResults' <=> x \in AllResults \/ \E k \in 1 .. n : x = results[r][k]
  <2>1. CASE results[r] = <<>>
    <3>1. messages' = messages /\ n = 0
      BY <2>1, StoreResultsAppends, EmptySequence
    <3>2. AllResults' = AllResults
      BY <3>1 DEF AllResults
    <3>. QED BY <3>1, <3>2
  <2>2. CASE results[r] # <<>>
    <3>1. PICK m \in Messages : m.results = results[r] /\ messages' = Append(messages, m)
      BY <2>2, StoreResultsAppends
    <3>. QED BY <1>1, <3>1, ResultsStored
  <2>. QED BY <2>1, <2>2
<1>7. ASSUME NEW x \in AllResults' PROVE Settled(x)'
  <2>1. CASE x \in AllResults
    <3>1. Settled(x) /\ x.id[1] \in Nat
      BY <1>1, <2>1, Numbers DEF TruthInv, AllResults
    <3>. QED BY <1>2, <1>4, <1>5, <3>1 DEF Settled, Truth
  <2>2. CASE x \notin AllResults
    <3>1. PICK k \in 1 .. n : x = results[r][k]
      BY <1>6, <2>2
    <3>2. x.id = <<at[r], k>> /\ Truth(x)
      BY <1>2, <3>1, InTheLoop
    <3>3. x.id[1] = at[r]
      BY <3>2
    <3>. QED BY <1>2, <1>4, <1>5, <3>2, <3>3 DEF Settled, Truth
  <2>. QED BY <2>1, <2>2
<1>8. LocalTrue(r)' /\ Ahead(r)'
  <2>1. LocalTrue(r)'
    BY <1>3, EmptySequence DEF LocalTrue
  <2>2. Ahead(r)'
    BY <1>5 DEF Ahead
  <2>. QED BY <2>1, <2>2
<1>9. ASSUME NEW q \in Runs \ {r} PROVE LocalTrue(q)' /\ Ahead(q)'
  <2>1. LocalTrue(q) /\ Ahead(q)
    BY DEF TruthInv
  <2>2. at'[q] = at[q] /\ results'[q] = results[q] /\ next'[q] = next[q] /\ pc'[q] = pc[q]
    BY <1>1 DEF Only
  <2>3. LocalTrue(q)'
    BY <1>2, <2>1, <2>2 DEF LocalTrue, Truth
  <2>4. Ahead(q)'
    BY <1>2, <2>1, <2>2 DEF Ahead, Busy
  <2>. QED BY <2>3, <2>4
<1>10. ASSUME NEW e \in executed PROVE Kept(e)'
  <2>1. Kept(e) /\ e \in CallIds
    BY <1>1 DEF TruthInv, Types
  <2>2. /\ e[1] \in Nat /\ e[2] \in Nat \ {0} /\ e = <<e[1], e[2]>> /\ e[1] <= Len(messages')
    BY <1>1, <1>4, <2>1, Numbers DEF Kept
  <2>3. CASE [id |-> e, content |-> "output"] \in AllResults
    <3>1. [id |-> e, content |-> "output"] \in AllResults'
      BY <1>6, <2>3
    <3>. QED BY <2>2, <3>1 DEF Kept
  <2>4. CASE e[1] = at[r]
    <3>1. e[2] < next[r] /\ next[r] \in Nat /\ n \in Nat
      BY <1>2, <2>4, InTheLoop
    <3>2. next[r] - 1 <= n
      BY DEF Typed, Progress
    <3>3. e[2] \in 1 .. n
      BY <2>2, <3>1, <3>2
    <3>4. results[r][e[2]].id = <<at[r], e[2]>> /\ Truth(results[r][e[2]])
      BY <1>2, <3>3, InTheLoop
    <3>5. results[r][e[2]].id = e
      BY <2>2, <2>4, <3>4
    <3>6. results[r][e[2]].content = "output"
      BY <3>4, <3>5 DEF Truth
    <3>7. results[r][e[2]] \in Results
      <4>1. results[r] \in Seq(Results)
        BY CallTyped
      <4>. QED BY <3>3, <4>1
    <3>8. results[r][e[2]] = [id |-> e, content |-> "output"]
      BY <3>5, <3>6, <3>7 DEF Results
    <3>9. [id |-> e, content |-> "output"] \in AllResults'
      BY <1>6, <3>3, <3>8
    <3>. QED BY <2>2, <3>9 DEF Kept
  <2>5. CASE \E q \in Runs \ {r} : Holding(q) /\ at[q] = e[1]
    <3>1. PICK q \in Runs \ {r} : Holding(q) /\ at[q] = e[1]
      BY <2>5
    <3>2. unstored' = unstored
      BY DEF StoreResults
    <3>3. Holding(q)' /\ at'[q] = e[1]
      BY <1>1, <3>1, <3>2 DEF Only, InTools, Holding
    <3>. QED BY <2>2, <3>3 DEF Kept
  <2>. QED BY <2>1, <2>3, <2>4, <2>5 DEF Kept
<1>. QED BY <1>2, <1>7, <1>8, <1>9, <1>10 DEF TruthInv

\* The other steps of a run leave the results alone.
LEMMA QuietStep ==
  ASSUME Typed, TruthInv, NEW r \in Runs, Start(r) \/ RunStep(r) \/ Cancel(r),
         ~StoreResults(r), ~ToolNotFound(r), ~RunTool(r), ~ToolDenied(r), ~ToolsCancelled(r)
  PROVE  TruthInv'
<1>1. Typed' /\ Grows /\ Only(r) /\ Unreporting /\ Types /\ pc[r] # "done" /\ unstored \subseteq unstored'
  BY RunTyped, RunUnreporting, RunTouches, NotOver DEF Typed
<1>2. pc \in [Runs -> States] /\ at \in [Runs -> Nat] /\ Len(messages) \in Nat
  BY <1>1 DEF Types
<1>3. CASE Start(r) \/ CreateUserMessage(r) \/ Request(r)
  <2>1. /\ executed' = executed /\ denied' = denied /\ results' = results
        /\ pc[r] \in {"idle", "listed", "loop"}
    BY <1>3 DEF Start, CreateUserMessage, Request, ghosts
  <2>2. results'[r] = <<>> /\ ~InTools(r)
    BY <2>1 DEF Typed, Progress, InTools
  <2>3. Busy(r)' => at'[r] > Len(messages)
    <3>1. Request(r) => at'[r] = Len(messages) + 1
      BY <1>2 DEF Request
    <3>2. ~Request(r) => pc'[r] \in {"listed", "loop"}
      BY <1>2, <1>3 DEF Start, CreateUserMessage, Goto
    <3>. QED BY <1>2, <3>1, <3>2 DEF Busy
  <2>. QED BY <1>1, <2>1, <2>2, <2>3, QuietTrue
<1>6. CASE StoreResultsFails(r)
  <2>1. Exit(r) /\ executed' = executed /\ denied' = denied /\ r \in unstored' /\ at' = at
    BY <1>6 DEF StoreResultsFails
  <2>2. pc'[r] = "done" /\ results'[r] = <<>>
    BY <1>1, <2>1, ExitTyped
  <2>3. ~Busy(r)' /\ Holding(r)'
    BY <2>1, <2>2 DEF Busy, Holding
  <2>. QED BY <1>1, <2>1, <2>2, <2>3, QuietTrue
<1>4. CASE StopBeforeRequest(r) \/ RequestFails(r) \/ StreamFails(r) \/ CancelledInStream(r)
  <2>1. Exit(r) /\ executed' = executed /\ denied' = denied /\ ~InTools(r)
    BY <1>4 DEF StopBeforeRequest, RequestFails, StreamFails, CancelledInStream, InTools, ghosts, Finished
  <2>2. pc'[r] = "done" /\ results'[r] = <<>>
    BY <1>1, <2>1, ExitTyped
  <2>3. ~Busy(r)'
    BY <2>2 DEF Busy
  <2>. QED BY <1>1, <2>1, <2>2, <2>3, QuietTrue
<1>5. CASE ToolUseStart(r) \/ StreamComplete(r) \/ StartTools(r) \/ StreamClosedEarly(r)
             \/ StartTool(r) \/ Cancel(r)
  <2>1. UNCHANGED <<at, results, next, executed, denied>>
    BY <1>5 DEF ToolUseStart, StreamComplete, StartTools, StreamClosedEarly, StartTool, Cancel, ghosts
  <2>2. (Busy(r)' => Busy(r)) /\ (InTools(r) => InTools(r)') /\ (InTools(r)' => Holding(r)')
    <3>0. InTools(r)' => Holding(r)'
      BY DEF Holding
    <3>1. CASE ToolUseStart(r) \/ StreamComplete(r) \/ Cancel(r)
      BY <1>2, <3>0, <3>1 DEF ToolUseStart, StreamComplete, Cancel, Goto, Busy, InTools
    <3>2. CASE StartTools(r) \/ StreamClosedEarly(r) \/ StartTool(r)
      BY <1>2, <3>0, <3>2 DEF StartTools, StreamClosedEarly, StartTool, Goto, Busy, InTools, ToolsLeft
    <3>. QED BY <1>5, <3>0, <3>1, <3>2
  <2>. QED BY <1>1, <2>1, <2>2, QuietTrue
<1>. QED BY <1>3, <1>4, <1>5, <1>6 DEF RunStep

LEMMA TruthNext ==
  ASSUME Typed, TruthInv, [Next]_vars
  PROVE  TruthInv'
<1>1. ASSUME NEW r \in Runs, Start(r) \/ RunStep(r) \/ Cancel(r) PROVE TruthInv'
  BY <1>1, StoreResultsTrue, ToolNotFoundTrue, RunToolTrue, ToolDeniedTrue, ToolsCancelledTrue, QuietStep
<1>2. CASE Summarizing
  <2>1. /\ Grows /\ UNCHANGED <<runVars, executed, denied, unstored>> /\ Types
        /\ messages' = messages \/ messages' = Append(messages, Compaction)
    BY <1>2, SummarizingTyped DEF Typed
  <2>2. UNCHANGED <<pc, at, results, next, executed, denied, unstored>>
    BY <2>1 DEF runVars
  <2>3. /\ Len(messages) \in Nat /\ Len(messages') \in Nat /\ Len(messages) <= Len(messages')
    BY <2>1 DEF Types, Grows
  <2>4. Unreporting
    <3>1. CASE messages' = messages
      BY <2>3, <3>1 DEF Unreporting
    <3>2. CASE messages' = Append(messages, Compaction)
      <4>1. Compaction \in Messages /\ Compaction.results = <<>>
        BY MadeTyped
      <4>2. Len(messages') = Len(messages) + 1 /\ messages'[Len(messages) + 1] = Compaction
        BY <2>1, <3>2, <4>1, AppendGrows
      <4>3. \A i \in Len(messages) + 1 .. Len(messages') : i = Len(messages) + 1
        BY <2>3, <4>2
      <4>. QED BY <4>1, <4>2, <4>3 DEF Unreporting
    <3>. QED BY <2>1, <3>1, <3>2
  <2>5. AllResults' = AllResults
    BY <2>1, <2>4, SameStored
  <2>6. ASSUME NEW x \in AllResults PROVE Settled(x)'
    <3>1. Settled(x) /\ x.id[1] \in Nat
      BY <2>1, Numbers DEF TruthInv, AllResults
    <3>. QED BY <2>2, <2>3, <3>1 DEF Settled, Truth, Busy
  <2>7. ASSUME NEW r \in Runs PROVE LocalTrue(r)' /\ Ahead(r)'
    <3>1. LocalTrue(r) /\ Ahead(r)
      BY DEF TruthInv
    <3>. QED BY <2>2, <3>1 DEF LocalTrue, Ahead, Truth, Busy
  <2>8. ASSUME NEW e \in executed PROVE Kept(e)'
    <3>1. Kept(e) /\ e[1] \in Nat
      BY <2>1, Numbers DEF TruthInv, Types
    <3>2. e[1] <= Len(messages')
      BY <2>3, <3>1 DEF Kept
    <3>. QED BY <2>2, <2>5, <3>1, <3>2 DEF Kept, Holding, InTools
  <2>. QED BY <2>2, <2>5, <2>6, <2>7, <2>8 DEF TruthInv
<1>3. CASE UNCHANGED vars
  <2>1. UNCHANGED <<messages, pc, at, results, next, executed, denied, unstored>>
    BY <1>3 DEF vars, runVars, ghosts
  <2>2. AllResults' = AllResults
    BY <2>1 DEF AllResults
  <2>3. ASSUME NEW x \in AllResults PROVE Settled(x)'
    BY <2>1 DEF TruthInv, Settled, Truth, Busy
  <2>4. ASSUME NEW r \in Runs PROVE LocalTrue(r)' /\ Ahead(r)'
    <3>1. LocalTrue(r) /\ Ahead(r)
      BY DEF TruthInv
    <3>. QED BY <2>1, <3>1 DEF LocalTrue, Ahead, Truth, Busy
  <2>5. ASSUME NEW e \in executed PROVE Kept(e)'
    BY <2>1, <2>2 DEF TruthInv, Kept, Holding, InTools
  <2>. QED BY <2>1, <2>2, <2>3, <2>4, <2>5 DEF TruthInv
<1>. QED BY <1>1, <1>2, <1>3 DEF Next, Summarizing

LEMMA TruthInit == Init => TruthInv
<1>. SUFFICES ASSUME Init PROVE TruthInv
  OBVIOUS
<1>1. AllResults = {}
  <2>1. Len(messages) = 0
    BY EmptySequence DEF Init
  <2>. QED BY <2>1 DEF AllResults
<1>2. \A r \in Runs : Len(results[r]) = 0 /\ pc[r] = "idle"
  BY EmptySequence DEF Init
<1>3. executed = {}
  BY DEF Init
<1>. QED BY <1>1, <1>2, <1>3 DEF TruthInv, LocalTrue, Ahead

LEMMA TruthResults ==
  ASSUME Typed, TruthInv
  PROVE  ResultsTruthful
<1>. DEFINE all == UNION {{messages[i].results[k] : k \in DOMAIN messages[i].results} :
                            i \in DOMAIN messages}
<1>1. Types /\ DOMAIN messages = 1 .. Len(messages)
  BY DEF Typed, Types
<1>2. \A i \in 1 .. Len(messages) : DOMAIN messages[i].results = 1 .. Len(messages[i].results)
  BY <1>1, Numbers
<1>3. \A x : x \in all <=> x \in AllResults
  <2>1. \A x : x \in all <=> \E i \in 1 .. Len(messages) : \E k \in 1 .. Len(messages[i].results) :
                              x = messages[i].results[k]
    <3>1. \A x : x \in all <=> \E i \in DOMAIN messages :
                   x \in {messages[i].results[k] : k \in DOMAIN messages[i].results}
      OBVIOUS
    <3>2. ASSUME NEW x, NEW i \in 1 .. Len(messages)
          PROVE  x \in {messages[i].results[k] : k \in DOMAIN messages[i].results}
                   <=> \E k \in 1 .. Len(messages[i].results) : x = messages[i].results[k]
      BY <1>2
    <3>. HIDE DEF all
    <3>. QED BY <1>1, <3>1, <3>2
  <2>2. \A i \in 1 .. Len(messages) : \A k \in 1 .. Len(messages[i].results) :
          messages[i].results[k] \in Results
    BY <1>1, Numbers
  <2>3. \A x : x \in AllResults <=>
          x \in Results /\ \E i \in 1 .. Len(messages) : \E k \in 1 .. Len(messages[i].results) :
                             x = messages[i].results[k]
    BY DEF AllResults
  <2>. HIDE DEF all
  <2>. QED BY <2>1, <2>2, <2>3
<1>. HIDE DEF all
<1>4. \A x \in all : /\ x.content = "output" => x.id \in executed
                     /\ x.content = "denied" => x.id \in denied
                     /\ x.content \in {"canceled", "missing", "denied"} => x.id \notin executed
  BY <1>3 DEF TruthInv, Settled, Truth
<1>5. \A e \in executed :
        (\A r \in Runs : Working(r) \/ r \in unstored => at[r] # e[1]) =>
          [id |-> e, content |-> "output"] \in all
  BY <1>3 DEF TruthInv, Kept, Holding, InTools, Working
<1>. QED BY <1>4, <1>5 DEF ResultsTruthful, all

\* Stored results tell what happened, whatever was denied or cancelled between
\* (agent.go's tool loop, and the tool message it ends with); what a run's tools did
\* is told nowhere if the tool message could not be created.
THEOREM StoredResultsTruthful == Spec => []ResultsTruthful
<1>1. Typed /\ TruthInv /\ [Next]_vars => TruthInv'
  BY TruthNext
<1>2. Typed /\ TruthInv => ResultsTruthful
  BY TruthResults
<1>3. Spec => []Typed
  BY InitTyped, NextTyped, PTL DEF Spec
<1>. QED BY <1>1, <1>2, <1>3, TruthInit, PTL DEF Spec

---------------------------------------------------------------------------
(* The conversation a run sends *)

\* What is done of r's part: what it has is what a restart would load.
HistoryOf(r) ==
  /\ pc[r] \in {"listed", "loop"} => history[r] = Window
  /\ Busy(r) =>
       /\ at[r] = Len(messages) /\ summaryId < at[r]
       /\ Window = Append(history[r], messages[at[r]])
       /\ messages[at[r]].role = "assistant" /\ msg[r].role = "assistant"
       /\ messages[at[r]].calls = msg[r].calls
       /\ messages[at[r]] = msg[r] \/ msg[r].finish = "permission_denied"

\* At most one run works, and none beside a summary.
Alone ==
  /\ \A r, q \in Runs : Working(r) /\ Working(q) => r = q
  /\ \A r \in Runs : Working(r) => summarizer \notin {"sent", "stored"}

HistoryInv == disturbed # Clients => Alone /\ \A r \in Runs : HistoryOf(r)

\* What is sent of the messages ms when they are summed up by the one at s.
Since(ms, s) ==
  IF s = 0 THEN ms
  ELSE <<[ms[s] EXCEPT !.role = "user"]>> \o SubSeq(ms, s + 1, Len(ms))

\* What a run sends, so.
LEMMA WindowSince == Window = Since(messages, summaryId)
BY DEF Window, Since

\* Sequences are the same element by element.
LEMMA SameSequence ==
  ASSUME NEW S, NEW a \in Seq(S), NEW b \in Seq(S), Len(a) = Len(b),
         \A i \in 1 .. Len(a) : a[i] = b[i]
  PROVE  a = b
OBVIOUS

\* From a summary on, message by message.
LEMMA SinceShape ==
  ASSUME NEW ms \in Seq(Messages), NEW s \in 1 .. Len(ms)
  PROVE  /\ Since(ms, s) \in Seq(Messages) /\ Len(Since(ms, s)) = Len(ms) - s + 1
         /\ Since(ms, s)[1] = [ms[s] EXCEPT !.role = "user"]
         /\ \A i \in 2 .. Len(Since(ms, s)) : Since(ms, s)[i] = ms[s + i - 1]
<1> DEFINE first == [ms[s] EXCEPT !.role = "user"]
           rest  == SubSeq(ms, s + 1, Len(ms))
<1>1. Len(ms) \in Nat /\ s # 0
  OBVIOUS
<1>2. first \in Messages
  <2>1. ms[s] \in Messages
    OBVIOUS
  <2>. QED BY <2>1 DEF Messages, Roles
<1>3. /\ rest \in Seq(Messages) /\ Len(rest) = Len(ms) - s
      /\ \A i \in 1 .. Len(rest) : rest[i] = ms[s + i]
  BY <1>1
<1>4. Since(ms, s) = <<first>> \o rest
  BY <1>1 DEF Since
<1> HIDE DEF first, rest
<1>5. /\ Since(ms, s) \in Seq(Messages) /\ Len(Since(ms, s)) = Len(rest) + 1 /\ Since(ms, s)[1] = first
      /\ \A i \in 2 .. Len(Since(ms, s)) : Since(ms, s)[i] = rest[i - 1]
  BY <1>2, <1>3, <1>4
<1>6. \A i \in 2 .. Len(Since(ms, s)) : i - 1 \in 1 .. Len(rest) /\ s + (i - 1) = s + i - 1
  BY <1>1, <1>3, <1>5
<1>. QED BY <1>1, <1>3, <1>5, <1>6 DEF first

\* A message more.
LEMMA SinceAppended ==
  ASSUME NEW ms \in Seq(Messages), NEW s \in 0 .. Len(ms), NEW m \in Messages
  PROVE  Since(Append(ms, m), s) = Append(Since(ms, s), m)
<1> DEFINE ns == Append(ms, m)
<1>1. /\ ns \in Seq(Messages) /\ Len(ns) = Len(ms) + 1 /\ ns[Len(ns)] = m /\ Len(ms) \in Nat
      /\ \A i \in 1 .. Len(ms) : ns[i] = ms[i]
  OBVIOUS
<1> HIDE DEF ns
<1>2. CASE s = 0
  BY <1>2 DEF Since, ns
<1>3. CASE s # 0
  <2> DEFINE w == Since(ms, s)
             v == Since(ns, s)
             u == Append(w, m)
  <2>0. s \in 1 .. Len(ms) /\ s \in 1 .. Len(ns)
    BY <1>1, <1>3
  <2>1. /\ w \in Seq(Messages) /\ Len(w) = Len(ms) - s + 1
        /\ w[1] = [ms[s] EXCEPT !.role = "user"]
        /\ \A i \in 2 .. Len(w) : w[i] = ms[s + i - 1]
    BY <2>0, SinceShape
  <2>2. /\ v \in Seq(Messages) /\ Len(v) = Len(ns) - s + 1
        /\ v[1] = [ns[s] EXCEPT !.role = "user"]
        /\ \A i \in 2 .. Len(v) : v[i] = ns[s + i - 1]
    BY <1>1, <2>0, SinceShape
  <2> HIDE DEF w, v
  <2>3. /\ u \in Seq(Messages) /\ Len(u) = Len(w) + 1 /\ u[Len(u)] = m
        /\ \A i \in 1 .. Len(w) : u[i] = w[i]
    BY <2>1
  <2> HIDE DEF u
  <2>4. Len(v) = Len(u) /\ Len(w) \in Nat \ {0} /\ 1 \in 1 .. Len(w)
    BY <1>1, <2>0, <2>1, <2>2, <2>3
  <2>5. v[1] = u[1]
    BY <1>1, <2>0, <2>1, <2>2, <2>3, <2>4
  <2>6. ASSUME NEW i \in 2 .. Len(u) PROVE v[i] = u[i]
    <3>1. v[i] = ns[s + i - 1]
      BY <2>2, <2>4
    <3>2. CASE i = Len(u)
      <4>1. s + i - 1 = Len(ns)
        BY <1>1, <2>0, <2>1, <2>3, <3>2
      <4>. QED BY <1>1, <2>3, <3>1, <3>2, <4>1
    <3>3. CASE i # Len(u)
      <4>1. i \in 2 .. Len(w) /\ i \in 1 .. Len(w)
        BY <2>3, <2>4, <3>3
      <4>2. s + i - 1 \in 1 .. Len(ms)
        BY <1>1, <2>0, <2>1, <4>1
      <4>. QED BY <1>1, <2>1, <2>3, <3>1, <4>1, <4>2
    <3>. QED BY <3>2, <3>3
  <2>7. ASSUME NEW i \in 1 .. Len(u) PROVE v[i] = u[i]
    <3>1. i = 1 \/ i \in 2 .. Len(u)
      BY <2>3, <2>4
    <3>. QED BY <2>5, <2>6, <3>1
  <2>8. v = u
    BY <2>2, <2>3, <2>4, <2>7, SameSequence
  <2>. QED BY <2>8 DEF v, u, w, ns
<1>. QED BY <1>2, <1>3

\* The last message anew.
LEMMA SinceReplaced ==
  ASSUME NEW ms \in Seq(Messages), NEW s \in 0 .. Len(ms), s < Len(ms), NEW m \in Messages,
         NEW h \in Seq(Messages), Since(ms, s) = Append(h, ms[Len(ms)])
  PROVE  Since([ms EXCEPT ![Len(ms)] = m], s) = Append(h, m)
<1> DEFINE ns == [ms EXCEPT ![Len(ms)] = m]
           w  == Since(ms, s)
           v  == Since(ns, s)
           u  == Append(h, m)
<1>1. /\ ns \in Seq(Messages) /\ Len(ns) = Len(ms) /\ ns[Len(ms)] = m /\ Len(ms) \in Nat \ {0}
      /\ \A i \in 1 .. Len(ms) : i # Len(ms) => ns[i] = ms[i]
  OBVIOUS
<1>2. /\ u \in Seq(Messages) /\ Len(u) = Len(h) + 1 /\ u[Len(u)] = m /\ Len(h) \in Nat
      /\ \A i \in 1 .. Len(h) : u[i] = h[i]
  OBVIOUS
<1>3. Len(w) = Len(u) /\ \A i \in 1 .. Len(h) : w[i] = h[i]
  <2>1. ms[Len(ms)] \in Messages
    BY <1>1
  <2>. QED BY <1>2, <2>1
<1> HIDE DEF ns, u
<1>4. CASE s = 0
  <2>1. w = ms /\ v = ns
    BY <1>4 DEF Since
  <2> HIDE DEF w, v
  <2>2. ASSUME NEW i \in 1 .. Len(u) PROVE v[i] = u[i]
    <3>1. CASE i = Len(u)
      BY <1>1, <1>2, <1>3, <2>1, <3>1
    <3>2. CASE i # Len(u)
      <4>1. Len(u) = Len(h) + 1 /\ Len(h) \in Nat
        BY <1>2
      <4>2. i \in 1 .. Len(h)
        BY <3>2, <4>1
      <4>. QED BY <1>1, <1>2, <1>3, <2>1, <3>2, <4>2
    <3>. QED BY <3>1, <3>2
  <2>3. Len(v) = Len(u)
    BY <1>1, <1>3, <2>1
  <2>4. v = u
    BY <1>1, <1>2, <2>1, <2>2, <2>3, SameSequence
  <2>. QED BY <2>4 DEF v, u, ns
<1>5. CASE s # 0
  <2>0. s \in 1 .. Len(ms) /\ s \in 1 .. Len(ns) /\ s # Len(ms)
    BY <1>1, <1>5
  <2>1. /\ Len(w) = Len(ms) - s + 1
        /\ w[1] = [ms[s] EXCEPT !.role = "user"]
        /\ \A i \in 2 .. Len(w) : w[i] = ms[s + i - 1]
    BY <2>0, SinceShape
  <2>2. /\ v \in Seq(Messages) /\ Len(v) = Len(ns) - s + 1
        /\ v[1] = [ns[s] EXCEPT !.role = "user"]
        /\ \A i \in 2 .. Len(v) : v[i] = ns[s + i - 1]
    BY <1>1, <2>0, SinceShape
  <2> HIDE DEF w, v
  <2>3. Len(u) = Len(ms) - s + 1
    BY <1>3, <2>1
  <2>4. Len(v) = Len(u) /\ 1 \in 1 .. Len(h)
    BY <1>1, <1>2, <1>3, <2>0, <2>1, <2>2
  <2>5. v[1] = u[1]
    BY <1>1, <1>2, <1>3, <2>0, <2>1, <2>2, <2>4
  <2>6. ASSUME NEW i \in 2 .. Len(u) PROVE v[i] = u[i]
    <3>1. v[i] = ns[s + i - 1]
      BY <2>2, <2>4
    <3>2. CASE i = Len(u)
      <4>1. i = Len(ms) - s + 1 /\ Len(ms) \in Nat /\ s \in Nat
        BY <1>1, <2>0, <2>3, <3>2
      <4>2. s + i - 1 = Len(ms)
        BY <4>1
      <4>. QED BY <1>1, <1>2, <3>1, <3>2, <4>2
    <3>3. CASE i # Len(u)
      <4>1. i \in 2 .. Len(w) /\ i \in 1 .. Len(h)
        BY <1>2, <1>3, <3>3
      <4>2. s + i - 1 \in 1 .. Len(ms) /\ s + i - 1 # Len(ms)
        BY <1>1, <1>2, <1>3, <2>0, <2>1, <3>3
      <4>. QED BY <1>1, <1>2, <1>3, <2>1, <3>1, <4>1, <4>2
    <3>. QED BY <3>2, <3>3
  <2>7. ASSUME NEW i \in 1 .. Len(u) PROVE v[i] = u[i]
    <3>1. i = 1 \/ i \in 2 .. Len(u)
      BY <1>2
    <3>. QED BY <2>5, <2>6, <3>1
  <2>8. v = u
    BY <1>2, <2>2, <2>4, <2>7, SameSequence
  <2>. QED BY <2>8 DEF v, u, ns
<1>. QED BY <1>4, <1>5

\* The same of what the runs send.
LEMMA WindowAppended ==
  ASSUME Types, NEW m \in Messages, messages' = Append(messages, m), summaryId' = summaryId
  PROVE  Window' = Append(Window, m)
<1>1. messages \in Seq(Messages) /\ summaryId \in 0 .. Len(messages)
  BY DEF Types
<1>. QED BY <1>1, SinceAppended, WindowSince DEF Window, Since

\* The last message anew.
LEMMA WindowReplaced ==
  ASSUME Types, NEW m \in Messages, NEW h \in Seq(Messages), summaryId < Len(messages),
         messages' = [messages EXCEPT ![Len(messages)] = m], summaryId' = summaryId,
         Window = Append(h, messages[Len(messages)])
  PROVE  Window' = Append(h, m)
<1>1. messages \in Seq(Messages) /\ summaryId \in 0 .. Len(messages)
  BY DEF Types
<1>2. Window' = Since(messages', summaryId')
  BY DEF Window, Since
<1>3. Since(messages, summaryId) = Append(h, messages[Len(messages)])
  BY WindowSince
<1>. QED BY <1>1, <1>2, <1>3, SinceReplaced

\* Nothing new.
LEMMA WindowSame ==
  ASSUME messages' = messages, summaryId' = summaryId
  PROVE  Window' = Window
BY DEF Window

\* A step between the first event of a stream and the last result of its calls.
BusyStep(r) ==
  \/ ToolUseStart(r) \/ StreamComplete(r) \/ StartTools(r) \/ StreamClosedEarly(r)
  \/ ToolsCancelled(r) \/ ToolNotFound(r) \/ StartTool(r) \/ RunTool(r) \/ ToolDenied(r)

\* It stores the message in hand, or does not change it, but for the finish.
LEMMA BusyStepStores ==
  ASSUME Typed, NEW r \in Runs, BusyStep(r)
  PROVE  /\ Busy(r) /\ Busy(r)' /\ UNCHANGED <<at, history, summaryId>>
         /\ msg'[r] \in Messages /\ msg'[r].role = msg[r].role
         /\ \/ messages' = Stored(r, msg'[r])
            \/ /\ messages' = messages /\ msg'[r].calls = msg[r].calls
               /\ msg'[r] = msg[r] \/ msg'[r].finish = "permission_denied"
<1>1. /\ pc \in [Runs -> States] /\ msg \in [Runs -> Messages] /\ msg[r] \in Messages
      /\ msg' \in [Runs -> Messages]
  <2>1. Typed'
    BY RunTyped DEF BusyStep, RunStep
  <2>. QED BY <2>1 DEF Typed, Types
<1>2. UNCHANGED <<at, history, summaryId>>
  BY DEF BusyStep, ToolUseStart, StreamComplete, StartTools, StreamClosedEarly, ToolsCancelled,
         ToolNotFound, StartTool, RunTool, ToolDenied, Update, Finished, Result, summary
<1>3. Busy(r) /\ Busy(r)'
  <2>1. Busy(r)
    BY DEF BusyStep, ToolUseStart, StreamComplete, StartTools, StreamClosedEarly, ToolsCancelled,
           ToolNotFound, StartTool, RunTool, ToolDenied, ToolsLeft, Finished, Result, Busy
  <2>2. pc' = pc \/ Goto(r, "completed") \/ Goto(r, "tools") \/ Goto(r, "call")
    <3>1. CASE ToolUseStart(r) \/ StreamComplete(r) \/ StartTools(r) \/ StreamClosedEarly(r)
      BY <3>1 DEF ToolUseStart, StreamComplete, StartTools, StreamClosedEarly
    <3>2. CASE ToolsCancelled(r) \/ ToolNotFound(r) \/ StartTool(r) \/ RunTool(r)
      BY <3>2 DEF ToolsCancelled, ToolNotFound, StartTool, RunTool, Finished, Result
    <3>3. CASE ToolDenied(r)
      BY <3>3 DEF ToolDenied, Finished, Result
    <3>. QED BY <3>1, <3>2, <3>3 DEF BusyStep
  <2>. QED BY <1>1, <2>1, <2>2 DEF Busy, Goto
<1>4. CASE StartTools(r) \/ StreamClosedEarly(r) \/ ToolNotFound(r) \/ StartTool(r) \/ RunTool(r)
  <2>1. UNCHANGED <<messages, msg>>
    BY <1>4 DEF StartTools, StreamClosedEarly, ToolNotFound, StartTool, RunTool, Result
  <2>. QED BY <1>1, <1>2, <1>3, <2>1
<1>5. CASE ToolUseStart(r) \/ StreamComplete(r) \/ ToolsCancelled(r)
  <2>1. \E calls, f : \/ Update(r, [msg[r] EXCEPT !.calls = calls])
                      \/ Update(r, [msg[r] EXCEPT !.finish = f, !.calls = calls])
                      \/ Update(r, [msg[r] EXCEPT !.finish = f])
    <3>1. CASE ToolUseStart(r)
      <4>1. Update(r, [msg[r] EXCEPT !.calls =
                  Append(msg[r].calls, [id |-> <<at[r], Len(msg[r].calls) + 1>>, input |-> FALSE])])
        BY <3>1 DEF ToolUseStart
      <4>. QED BY <4>1
    <3>2. CASE StreamComplete(r)
      BY <3>2, CompleteUpdates
    <3>3. CASE ToolsCancelled(r)
      <4>1. Update(r, [msg[r] EXCEPT !.finish = "canceled"])
        BY <3>3 DEF ToolsCancelled, Finished
      <4>. QED BY <4>1
    <3>. QED BY <1>5, <3>1, <3>2, <3>3
  <2>2. PICK m : Update(r, m) /\ m.role = msg[r].role
    <3>1. PICK calls, f : \/ Update(r, [msg[r] EXCEPT !.calls = calls])
                          \/ Update(r, [msg[r] EXCEPT !.finish = f, !.calls = calls])
                          \/ Update(r, [msg[r] EXCEPT !.finish = f])
      BY <2>1
    <3>2. /\ [msg[r] EXCEPT !.calls = calls].role = msg[r].role
          /\ [msg[r] EXCEPT !.finish = f, !.calls = calls].role = msg[r].role
          /\ [msg[r] EXCEPT !.finish = f].role = msg[r].role
      BY <1>1 DEF Messages
    <3>. QED BY <3>1, <3>2
  <2>3. msg'[r] = m /\ messages' = Stored(r, m)
    BY <1>1, <2>2 DEF Update
  <2>. QED BY <1>1, <1>2, <1>3, <2>2, <2>3
<1>6. CASE ToolDenied(r)
  <2>1. PICK m \in Messages : /\ m = [msg[r] EXCEPT !.finish = "permission_denied"]
                              /\ m.finish = "permission_denied" /\ m.calls = msg[r].calls
    BY FinishTyped DEF FinishReasons
  <2>2. m.role = msg[r].role
    BY <1>1, <2>1 DEF Messages
  <2>3. msg'[r] = m /\ (messages' = messages \/ messages' = Stored(r, msg'[r]))
    BY <1>1, <1>6, <2>1 DEF ToolDenied, Finished, Result
  <2>. QED BY <1>1, <1>2, <1>3, <2>1, <2>2, <2>3
<1>. QED BY <1>4, <1>5, <1>6 DEF BusyStep

\* Every step of a run keeps its conversation that of the table.
LEMMA HistoryStep ==
  ASSUME Typed, NEW r \in Runs, HistoryOf(r), RunStep(r)
  PROVE  HistoryOf(r)'
<1>1. /\ Types /\ pc \in [Runs -> States] /\ history \in [Runs -> Seq(Messages)]
      /\ messages \in Seq(Messages) /\ Len(messages) \in Nat /\ summaryId \in 0 .. Len(messages)
      /\ msg[r] \in Messages
  BY DEF Typed, Types
<1>2. CASE CreateUserMessage(r)
  <2>1. history'[r] = Append(Window, Question) /\ pc'[r] = "loop"
    BY <1>1, <1>2 DEF CreateUserMessage, HistoryOf, Goto
  <2>2. Window' = Append(Window, Question)
    BY <1>1, <1>2, MadeTyped, WindowAppended DEF CreateUserMessage, summary
  <2>. QED BY <2>1, <2>2 DEF HistoryOf, Busy
<1>3. CASE Request(r)
  <2>1. Window' = Append(Window, Blank)
    BY <1>1, <1>3, MadeTyped, WindowAppended DEF Request, summary
  <2>2. Len(messages') = Len(messages) + 1 /\ messages'[Len(messages) + 1] = Blank
    BY <1>1, <1>3, MadeTyped, AppendGrows DEF Request
  <2>3. /\ pc'[r] = "streaming" /\ at'[r] = Len(messages) + 1 /\ msg'[r] = Blank
        /\ history' = history /\ summaryId' = summaryId
    BY <1>1, <1>3 DEF Request, Goto, Typed, Types, summary
  <2>4. history[r] = Window
    BY <1>3 DEF Request, HistoryOf
  <2>5. Blank.role = "assistant"
    BY DEF Blank, Message
  <2>. QED BY <1>1, <2>1, <2>2, <2>3, <2>4, <2>5 DEF HistoryOf
<1>4. CASE StopBeforeRequest(r) \/ RequestFails(r) \/ StoreResultsFails(r) \/ StreamFails(r)
             \/ CancelledInStream(r)
  <2>1. Exit(r)
    BY <1>4 DEF StopBeforeRequest, RequestFails, StoreResultsFails, StreamFails, CancelledInStream, Finished
  <2>2. pc'[r] = "done"
    BY <1>1, <2>1, ExitTyped
  <2>. QED BY <2>2 DEF HistoryOf, Busy
<1>5. CASE BusyStep(r)
  <2>0. DEFINE m == msg'[r]
  <2>1. /\ Busy(r) /\ Busy(r)' /\ UNCHANGED <<at, history, summaryId>>
        /\ m \in Messages /\ m.role = msg[r].role
        /\ \/ messages' = Stored(r, m)
           \/ /\ messages' = messages /\ m.calls = msg[r].calls
              /\ m = msg[r] \/ m.finish = "permission_denied"
    BY <1>5, BusyStepStores
  <2>2. /\ at[r] = Len(messages) /\ summaryId < at[r]
        /\ Window = Append(history[r], messages[at[r]])
        /\ messages[at[r]].role = "assistant" /\ msg[r].role = "assistant"
        /\ messages[at[r]].calls = msg[r].calls
        /\ messages[at[r]] = msg[r] \/ msg[r].finish = "permission_denied"
    BY <2>1 DEF HistoryOf
  <2>3. pc'[r] \notin {"listed", "loop"}
    BY <2>1 DEF Busy
  <2>4. CASE messages' = Stored(r, m)
    <3>1. messages' = [messages EXCEPT ![Len(messages)] = m]
      BY <2>2, <2>4 DEF Stored
    <3>2. Window' = Append(history[r], m)
      <4>1. history[r] \in Seq(Messages)
        BY <1>1
      <4>. HIDE DEF m
      <4>. QED BY <1>1, <2>1, <2>2, <3>1, <4>1, WindowReplaced
    <3>3. Len(messages') = Len(messages) /\ messages'[Len(messages)] = m
      <4>1. Len(messages) \in 1 .. Len(messages)
        BY <1>1, <2>2
      <4>. HIDE DEF m
      <4>. QED BY <1>1, <2>1, <3>1, <4>1
    <3>. QED BY <2>1, <2>2, <2>3, <3>2, <3>3 DEF HistoryOf
  <2>5. CASE messages' = messages /\ m.calls = msg[r].calls /\ (m = msg[r] \/ m.finish = "permission_denied")
    <3>1. Window' = Window
      BY <2>1, <2>5, WindowSame
    <3>2. messages[at[r]] = m \/ m.finish = "permission_denied"
      BY <2>2, <2>5
    <3>. QED BY <2>1, <2>2, <2>3, <2>5, <3>1, <3>2 DEF HistoryOf
  <2>. QED BY <2>1, <2>4, <2>5
<1>6. CASE StoreResults(r)
  <2>1. /\ Answers(results[r]) \in Messages
        /\ messages' = IF results[r] = <<>> THEN messages ELSE Append(messages, Answers(results[r]))
    BY <1>6, StoreResultsAppends
  <2>2. CASE Exit(r)
    <3>1. pc'[r] = "done"
      BY <1>1, <2>2, ExitTyped
    <3>. QED BY <3>1 DEF HistoryOf, Busy
  <2>3. CASE ~Exit(r)
    <3>. DEFINE a == Answers(results[r])
    <3>1. /\ history' = [history EXCEPT ![r] = history[r] \o <<msg[r], a>>]
          /\ msg[r].finish = "tool_use" /\ results[r] # <<>> /\ Goto(r, "loop")
      BY <1>6, <2>3 DEF StoreResults
    <3>2. pc'[r] = "loop" /\ history'[r] = history[r] \o <<msg[r], a>>
      BY <1>1, <3>1 DEF Goto
    <3>3. Window = Append(history[r], msg[r])
      <4>1. Busy(r)
        BY <1>6 DEF StoreResults, Busy
      <4>. QED BY <3>1, <4>1 DEF HistoryOf
    <3>4. Window' = Append(Window, a)
      <4>1. summaryId' = summaryId
        BY <1>6 DEF StoreResults, summary
      <4>. QED BY <1>1, <2>1, <3>1, <4>1, WindowAppended
    <3>5. history[r] \o <<msg[r], a>> = Append(Append(history[r], msg[r]), a)
      <4>1. history[r] \in Seq(Messages)
        BY <1>1
      <4>. HIDE DEF a
      <4>. QED BY <1>1, <4>1
    <3>. QED BY <3>2, <3>3, <3>4, <3>5 DEF HistoryOf, Busy
  <2>. QED BY <2>2, <2>3
<1>. QED BY <1>2, <1>3, <1>4, <1>5, <1>6 DEF RunStep, BusyStep

\* Once requests have overlapped for a client it stays so.
LEMMA DisturbedGrows ==
  ASSUME Typed, [Next]_vars
  PROVE  disturbed \subseteq disturbed'
<1>1. disturbed \subseteq Clients
  BY DEF Typed, Types
<1>2. ASSUME NEW r \in Runs, Start(r) \/ RunStep(r) \/ Cancel(r) PROVE disturbed \subseteq disturbed'
  BY <1>1, <1>2 DEF Start, RunStep, Cancel, CreateUserMessage, Request, StopBeforeRequest, RequestFails,
         StoreResultsFails, ToolUseStart,
         StreamComplete, StartTools, StreamClosedEarly, StreamFails, CancelledInStream,
         ToolsCancelled, ToolNotFound, StartTool, RunTool, ToolDenied, StoreResults, ghosts,
         Finished, Result
<1>3. CASE Summarizing
  BY <1>1, <1>3 DEF Summarizing, SummarizeStart, SummaryCreate, SummarySave, SummarizeFails, ghosts
<1>4. CASE UNCHANGED vars
  BY <1>4 DEF vars, ghosts
<1>. QED BY <1>2, <1>3, <1>4 DEF Next, Summarizing

\* A run takes its steps between its start and its end.
LEMMA RunWorks ==
  ASSUME Typed, NEW r \in Runs, RunStep(r)
  PROVE  Working(r) /\ UNCHANGED summary
<1>1. CASE BusyStep(r)
  <2>1. Busy(r)
    BY <1>1, BusyStepStores
  <2>2. UNCHANGED summary
    BY <1>1 DEF BusyStep, ToolUseStart, StreamComplete, StartTools, StreamClosedEarly, ToolsCancelled,
           ToolNotFound, StartTool, RunTool, ToolDenied, Finished, Result
  <2>. QED BY <2>1, <2>2 DEF Busy, Working
<1>2. CASE ~BusyStep(r)
  BY <1>2 DEF BusyStep, RunStep, CreateUserMessage, Request, StopBeforeRequest, RequestFails,
              StoreResultsFails, StreamFails,
              CancelledInStream, StoreResults, Working, Finished
<1>. QED BY <1>1, <1>2

\* A run that does not work has no conversation to lose.
LEMMA IdleHistory ==
  ASSUME NEW r \in Runs, ~Working(r)
  PROVE  HistoryOf(r) /\ ~Busy(r) /\ pc[r] \notin {"listed", "loop"}
BY DEF Working, HistoryOf, Busy

LEMMA HistoryNext ==
  ASSUME Typed, HistoryInv, [Next]_vars
  PROVE  HistoryInv'
<1>1. SUFFICES ASSUME disturbed' # Clients PROVE Alone' /\ \A r \in Runs : HistoryOf(r)'
  BY DEF HistoryInv
<1>2. Alone /\ \A r \in Runs : HistoryOf(r)
  <2>1. disturbed \subseteq disturbed' /\ disturbed' \subseteq Clients
    <3>1. Typed'
      BY NextTyped
    <3>. QED BY <3>1, DisturbedGrows DEF Typed, Types
  <2>. QED BY <1>1, <2>1 DEF HistoryInv
<1>3. ASSUME NEW r \in Runs, Start(r) PROVE Alone' /\ \A q \in Runs : HistoryOf(q)'
  <2>1. \A q \in Runs \ {r} : ~Working(q) /\ pc'[q] = pc[q]
    <3>1. Only(r)
      BY <1>3, RunTyped
    <3>. QED BY <1>1, <1>3, <3>1 DEF Start, Only
  <2>2. /\ summarizer' \notin {"sent", "stored"} /\ pc[r] = "idle" /\ pc'[r] = "listed"
        /\ history'[r] = Window /\ Window' = Window
    <3>1. pc \in [Runs -> States] /\ history \in [Runs -> Seq(Messages)]
      BY DEF Typed, Types
    <3>2. Window' = Window
      BY <1>3, WindowSame DEF Start, summary
    <3>. QED BY <1>1, <1>3, <3>1, <3>2 DEF Start, Goto, summary
  <2>3. Alone'
    BY <2>1, <2>2 DEF Alone, Working
  <2>4. \A q \in Runs : HistoryOf(q)'
    BY <2>1, <2>2 DEF HistoryOf, Busy, Working
  <2>. QED BY <2>3, <2>4
<1>4. ASSUME NEW r \in Runs, RunStep(r) PROVE Alone' /\ \A q \in Runs : HistoryOf(q)'
  <2>1. Working(r) /\ UNCHANGED summary
    BY <1>4, RunWorks
  <2>2. \A q \in Runs \ {r} : ~Working(q) /\ pc'[q] = pc[q]
    <3>1. Only(r)
      BY <1>4, RunTyped
    <3>. QED BY <1>2, <2>1, <3>1 DEF Only, Alone
  <2>3. HistoryOf(r)'
    BY <1>2, <1>4, HistoryStep
  <2>4. Alone'
    BY <1>2, <2>1, <2>2 DEF Alone, Working, summary
  <2>5. \A q \in Runs \ {r} : HistoryOf(q)'
    BY <2>2 DEF HistoryOf, Busy, Working
  <2>. QED BY <2>3, <2>4, <2>5
<1>5. ASSUME NEW r \in Runs, Cancel(r) PROVE Alone' /\ \A q \in Runs : HistoryOf(q)'
  <2>1. UNCHANGED <<messages, pc, history, msg, at, summary>>
    BY <1>5 DEF Cancel
  <2>2. Window' = Window
    BY <2>1, WindowSame DEF summary
  <2>. QED BY <1>2, <2>1, <2>2 DEF Alone, Working, HistoryOf, Busy, summary
<1>6. CASE Summarizing
  <2>1. \A r \in Runs : ~Working(r)
    <3>1. CASE SummarizeStart
      BY <1>1, <3>1 DEF SummarizeStart
    <3>2. CASE summarizer \in {"sent", "stored"}
      BY <1>2, <3>2 DEF Alone
    <3>. QED BY <1>6, <3>1, <3>2 DEF Summarizing, SummaryCreate, SummarySave, SummarizeFails
  <2>2. pc' = pc
    BY <1>6, SummarizingTyped DEF runVars
  <2>. QED BY <2>1, <2>2 DEF Alone, HistoryOf, Busy, Working
<1>7. CASE UNCHANGED vars
  <2>1. UNCHANGED <<messages, pc, history, msg, at, summary>>
    BY <1>7 DEF vars, runVars
  <2>2. Window' = Window
    BY <2>1, WindowSame DEF summary
  <2>. QED BY <1>2, <2>1, <2>2 DEF Alone, Working, HistoryOf, Busy, summary
<1>. QED BY <1>3, <1>4, <1>5, <1>6, <1>7 DEF Next, Summarizing

\* What is in hand at first.
LEMMA HistoryInit == Init => HistoryInv
<1>. SUFFICES ASSUME Init PROVE HistoryInv
  OBVIOUS
<1>1. \A r \in Runs : ~Working(r)
  BY DEF Init, Working
<1>2. Alone
  BY <1>1 DEF Alone
<1>3. \A r \in Runs : HistoryOf(r)
  BY <1>1, IdleHistory
<1>. QED BY <1>2, <1>3 DEF HistoryInv

\* The conversation in a run's memory (msgHistory in processGeneration) is the
\* one List and the summary would give it again, whatever the provider, the
\* tools, the user and the errors did since, unless the requests of the session
\* overlapped for every client.
THEOREM HistoryStored == Spec => []HistoryIsStored
<1>1. Typed /\ HistoryInv /\ [Next]_vars => Typed' /\ HistoryInv'
  BY NextTyped, HistoryNext
<1>2. Init => Typed /\ HistoryInv
  BY InitTyped, HistoryInit
<1>3. HistoryInv => HistoryIsStored
  BY DEF HistoryInv, HistoryOf, HistoryIsStored
<1>. QED BY <1>1, <1>2, <1>3, PTL DEF Spec

---------------------------------------------------------------------------
(* Calls and their results *)

\* The first n messages of h are paired, and none of their calls is answered later.
PairedUpTo(c, h, n) ==
  /\ \A i \in 1 .. n : SentCalls(c, h[i]) # <<>> => i < n /\ h[i + 1].role = "tool"
  /\ \A i \in 1 .. n : h[i].role = "tool" =>
       i > 1 /\ Ids(h[i].results) = Ids(SentCalls(c, h[i - 1]))

\* Paired is PairedUpTo of all.
LEMMA PairedAll ==
  ASSUME NEW c, NEW h \in Seq(Messages)
  PROVE  Paired(c, h) <=> PairedUpTo(c, h, Len(h))
<1>1. DOMAIN h = 1 .. Len(h)
  OBVIOUS
<1>. QED BY <1>1 DEF Paired, PairedUpTo

\* What is said of a client and the run that may be working.
PairedOf(c, r) ==
  /\ ~Busy(r) => PairedUpTo(c, messages, Len(messages))
  /\ Busy(r) => /\ PairedUpTo(c, messages, Len(messages) - 1)
                /\ Paired(c, history[r])

PairedInv ==
  \A c \in Clients \ disturbed :
    /\ (\A r \in Runs : ~Busy(r)) => PairedUpTo(c, messages, Len(messages))
    /\ \A r \in Runs : Busy(r) => PairedOf(c, r)

\* What is sent of a message depends on its calls only.
LEMMA SentAlike ==
  ASSUME NEW c \in Clients, NEW m, NEW n, m.calls = n.calls
  PROVE  SentCalls(c, m) = SentCalls(c, n)
BY DEF SentCalls, AnthropicSends, OpenAISends, GeminiSends, Clients

\* Nothing is sent of no calls.
LEMMA SentNothing ==
  ASSUME NEW c \in Clients, NEW m, m.calls = <<>>
  PROVE  SentCalls(c, m) = <<>>
<1>1. AnthropicSends(m) = <<>>
  <2> DEFINE arrived == {i \in DOMAIN m.calls : m.calls[i].input}
             nth(k)  == CHOOSE i \in arrived : Cardinality({j \in arrived : j <= i}) = k
  <2>1. AnthropicSends(m) = [k \in 1 .. Cardinality(arrived) |-> m.calls[nth(k)]]
    BY DEF AnthropicSends
  <2>2. Cardinality(arrived) = 0
    BY FS_EmptySet
  <2> HIDE DEF arrived, nth
  <2>3. 1 .. Cardinality(arrived) = {}
    BY <2>2
  <2>. QED BY <2>1, <2>3
<1>. QED BY <1>1 DEF SentCalls, OpenAISends, GeminiSends, Clients

\* The pairs of a beginning depend on it only.  What may follow:
LEMMA PairedSame ==
  ASSUME NEW c, NEW g, NEW h, NEW n \in Nat, \A i \in 1 .. n : g[i] = h[i], PairedUpTo(c, h, n)
  PROVE  PairedUpTo(c, g, n)
<1>1. ASSUME NEW i \in 1 .. n, SentCalls(c, g[i]) # <<>> PROVE i < n /\ g[i + 1].role = "tool"
  <2>1. i < n /\ h[i + 1].role = "tool"
    BY <1>1 DEF PairedUpTo
  <2>2. i + 1 \in 1 .. n
    BY <2>1
  <2>. QED BY <2>1, <2>2
<1>2. ASSUME NEW i \in 1 .. n, g[i].role = "tool"
      PROVE  i > 1 /\ Ids(g[i].results) = Ids(SentCalls(c, g[i - 1]))
  <2>1. i > 1 /\ Ids(h[i].results) = Ids(SentCalls(c, h[i - 1]))
    BY <1>2 DEF PairedUpTo
  <2>2. i - 1 \in 1 .. n
    BY <2>1
  <2>. QED BY <2>1, <2>2
<1>. QED BY <1>1, <1>2 DEF PairedUpTo

\* A message without calls.
LEMMA PairedOn ==
  ASSUME NEW c, NEW h, NEW n \in Nat, PairedUpTo(c, h, n),
         SentCalls(c, h[n + 1]) = <<>>, h[n + 1].role # "tool"
  PROVE  PairedUpTo(c, h, n + 1)
<1>1. \A i \in 1 .. n + 1 : i # n + 1 => i \in 1 .. n
  OBVIOUS
<1>2. ASSUME NEW i \in 1 .. n + 1, SentCalls(c, h[i]) # <<>> PROVE i < n + 1 /\ h[i + 1].role = "tool"
  <2>1. i \in 1 .. n
    BY <1>1, <1>2
  <2>. QED BY <1>2, <2>1 DEF PairedUpTo
<1>3. ASSUME NEW i \in 1 .. n + 1, h[i].role = "tool"
      PROVE  i > 1 /\ Ids(h[i].results) = Ids(SentCalls(c, h[i - 1]))
  <2>1. i \in 1 .. n
    BY <1>1, <1>3
  <2>. QED BY <1>3, <2>1 DEF PairedUpTo
<1>. QED BY <1>2, <1>3 DEF PairedUpTo

\* A message with calls, and their results.
LEMMA PairedAnswered ==
  ASSUME NEW c, NEW h, NEW n \in Nat, PairedUpTo(c, h, n), h[n + 1].role # "tool",
         h[n + 2].role = "tool", SentCalls(c, h[n + 2]) = <<>>,
         Ids(h[n + 2].results) = Ids(SentCalls(c, h[n + 1]))
  PROVE  PairedUpTo(c, h, n + 2)
<1>1. \A i \in 1 .. n + 2 : i = n + 2 \/ i = n + 1 \/ i \in 1 .. n
  OBVIOUS
<1>2. ASSUME NEW i \in 1 .. n + 2, SentCalls(c, h[i]) # <<>> PROVE i < n + 2 /\ h[i + 1].role = "tool"
  <2>1. CASE i \in 1 .. n
    BY <1>2, <2>1 DEF PairedUpTo
  <2>2. CASE i = n + 1
    <3>1. i + 1 = n + 2 /\ i < n + 2
      BY <2>2
    <3>. QED BY <3>1
  <2>. QED BY <1>1, <1>2, <2>1, <2>2
<1>3. ASSUME NEW i \in 1 .. n + 2, h[i].role = "tool"
      PROVE  i > 1 /\ Ids(h[i].results) = Ids(SentCalls(c, h[i - 1]))
  <2>1. CASE i \in 1 .. n
    BY <1>3, <2>1 DEF PairedUpTo
  <2>2. CASE i = n + 2
    <3>1. i - 1 = n + 1 /\ i > 1
      BY <2>2
    <3>. QED BY <2>2, <3>1
  <2>. QED BY <1>1, <1>3, <2>1, <2>2
<1>. QED BY <1>2, <1>3 DEF PairedUpTo

\* What is sent from a summary on is paired if all of it is.
LEMMA SincePaired ==
  ASSUME NEW c \in Clients, NEW ms \in Seq(Messages), NEW s \in 0 .. Len(ms),
         PairedUpTo(c, ms, Len(ms))
  PROVE  Since(ms, s) \in Seq(Messages) /\ Paired(c, Since(ms, s))
<1> DEFINE w == Since(ms, s)
<1>1. CASE s = 0
  BY <1>1, PairedAll DEF Since
<1>2. CASE s # 0
  <2>0. s \in 1 .. Len(ms) /\ Len(ms) \in Nat
    BY <1>2
  <2>1. /\ w \in Seq(Messages) /\ Len(w) = Len(ms) - s + 1
        /\ w[1] = [ms[s] EXCEPT !.role = "user"]
        /\ \A i \in 2 .. Len(w) : w[i] = ms[s + i - 1]
    BY <2>0, SinceShape
  <2>2. ms[s] \in Messages /\ w[1].role = "user" /\ w[1].calls = ms[s].calls
    <3>1. ms[s] \in Messages
      BY <2>0
    <3>. QED BY <2>1, <3>1 DEF Messages
  <2> HIDE DEF w
  <2>3. \A i \in 1 .. Len(w) : s + i - 1 \in 1 .. Len(ms) /\ s + i - 1 \in Nat
    BY <2>0, <2>1
  <2>4. ASSUME NEW i \in 1 .. Len(w) PROVE SentCalls(c, w[i]) = SentCalls(c, ms[s + i - 1])
    <3>1. CASE i = 1
      <4>1. s + i - 1 = s
        BY <2>0, <3>1
      <4>. QED BY <2>2, <3>1, <4>1, SentAlike
    <3>2. CASE i # 1
      <4>1. i \in 2 .. Len(w)
        BY <3>2
      <4>. QED BY <2>1, <4>1
    <3>. QED BY <3>1, <3>2
  <2>5. ASSUME NEW i \in 1 .. Len(w), SentCalls(c, w[i]) # <<>>
        PROVE  i < Len(w) /\ w[i + 1].role = "tool"
    <3>1. s + i - 1 < Len(ms) /\ ms[(s + i - 1) + 1].role = "tool"
      BY <2>3, <2>4, <2>5 DEF PairedUpTo
    <3>2. i < Len(w) /\ i + 1 \in 2 .. Len(w) /\ (s + i - 1) + 1 = s + (i + 1) - 1
      BY <2>0, <2>1, <3>1
    <3>3. w[i + 1] = ms[s + (i + 1) - 1]
      BY <2>1, <3>2
    <3>. QED BY <3>1, <3>2, <3>3
  <2>6. ASSUME NEW i \in 1 .. Len(w), w[i].role = "tool"
        PROVE  i > 1 /\ Ids(w[i].results) = Ids(SentCalls(c, w[i - 1]))
    <3>1. i # 1 /\ i \in 2 .. Len(w) /\ i - 1 \in 1 .. Len(w)
      BY <2>2, <2>6
    <3>2. w[i] = ms[s + i - 1]
      BY <2>1, <3>1
    <3>3. Ids(w[i].results) = Ids(SentCalls(c, ms[(s + i - 1) - 1]))
      BY <2>3, <2>6, <3>2 DEF PairedUpTo
    <3>4. (s + i - 1) - 1 = s + (i - 1) - 1 /\ i > 1
      BY <2>0, <3>1
    <3>. QED BY <2>4, <3>1, <3>3, <3>4
  <2>7. PairedUpTo(c, w, Len(w))
    BY <2>5, <2>6 DEF PairedUpTo
  <2>. QED BY <2>1, <2>7, PairedAll DEF w
<1>. QED BY <1>1, <1>2

\* The results of a finished loop answer its calls.
LEMMA ResultsAnswer ==
  ASSUME Typed, NEW r \in Runs, LocalTrue(r), StoreResults(r)
  PROVE  /\ Len(results[r]) = Len(msg[r].calls) /\ Ids(results[r]) = Ids(msg[r].calls)
         /\ results[r] = <<>> => msg[r].calls = <<>>
<1>1. /\ msg[r].calls \in Seq(Calls) /\ results[r] \in Seq(Results) /\ next[r] \in Nat \ {0}
      /\ \A k \in 1 .. Len(msg[r].calls) : msg[r].calls[k].id = <<at[r], k>>
  BY CallTyped
<1>2. Len(results[r]) = Len(msg[r].calls)
  <2>1. next[r] - 1 <= Len(results[r]) /\ Len(results[r]) <= Len(msg[r].calls)
    BY DEF Typed, Progress
  <2>2. ~(next[r] <= Len(msg[r].calls))
    BY DEF StoreResults, ToolsLeft
  <2>3. Len(results[r]) \in Nat /\ Len(msg[r].calls) \in Nat
    BY <1>1
  <2>. QED BY <1>1, <2>1, <2>2, <2>3
<1>3. DOMAIN results[r] = 1 .. Len(results[r]) /\ DOMAIN msg[r].calls = 1 .. Len(results[r])
  BY <1>1, <1>2
<1>4. \A k \in 1 .. Len(results[r]) : results[r][k].id = msg[r].calls[k].id
  BY <1>1, <1>2 DEF LocalTrue
<1>5. Ids(results[r]) = Ids(msg[r].calls)
  BY <1>3, <1>4 DEF Ids
<1>6. ASSUME results[r] = <<>> PROVE msg[r].calls = <<>>
  BY <1>1, <1>2, <1>6, EmptySequence
<1>. QED BY <1>2, <1>5, <1>6

\* A run's step pairs what it adds, unless it leaves calls open for the client.
LEMMA PairedStep ==
  ASSUME Typed, NEW r \in Runs, HistoryOf(r), LocalTrue(r), RunStep(r),
         NEW c \in Clients \ disturbed', PairedOf(c, r)
  PROVE  PairedOf(c, r)'
<1>1. /\ Types /\ pc \in [Runs -> States] /\ history \in [Runs -> Seq(Messages)]
      /\ messages \in Seq(Messages) /\ Len(messages) \in Nat /\ summaryId \in 0 .. Len(messages)
      /\ msg[r] \in Messages /\ Len(messages) - 1 + 1 = Len(messages)
  BY DEF Typed, Types
<1>2. CASE CreateUserMessage(r)
  <2>1. /\ Len(messages') = Len(messages) + 1 /\ messages'[Len(messages) + 1] = Question
        /\ \A i \in 1 .. Len(messages) : messages'[i] = messages[i]
    BY <1>1, <1>2, MadeTyped, AppendGrows DEF CreateUserMessage
  <2>2. PairedUpTo(c, messages, Len(messages))
    BY <1>2 DEF PairedOf, CreateUserMessage, Busy
  <2>3. PairedUpTo(c, messages', Len(messages))
    BY <1>1, <2>1, <2>2, PairedSame
  <2>4. SentCalls(c, Question) = <<>> /\ Question.role # "tool"
    BY MadeTyped, SentNothing DEF Question, Message
  <2>5. PairedUpTo(c, messages', Len(messages) + 1)
    BY <1>1, <2>1, <2>3, <2>4, PairedOn
  <2>6. ~Busy(r)'
    BY <1>1, <1>2 DEF CreateUserMessage, Goto, Busy
  <2>. QED BY <2>1, <2>5, <2>6 DEF PairedOf
<1>3. CASE Request(r)
  <2>1. /\ Len(messages') = Len(messages) + 1
        /\ \A i \in 1 .. Len(messages) : messages'[i] = messages[i]
    BY <1>1, <1>3, MadeTyped, AppendGrows DEF Request
  <2>2. PairedUpTo(c, messages, Len(messages)) /\ history[r] = Window
    BY <1>3 DEF PairedOf, Request, Busy, HistoryOf
  <2>3. PairedUpTo(c, messages', Len(messages))
    BY <1>1, <2>1, <2>2, PairedSame
  <2>4. Paired(c, history[r])
    BY <1>1, <2>2, SincePaired, WindowSince
  <2>5. Len(messages') - 1 = Len(messages) /\ history' = history /\ pc'[r] = "streaming"
    BY <1>1, <1>3, <2>1 DEF Request, Goto
  <2>. QED BY <2>3, <2>4, <2>5 DEF PairedOf, Busy
<1>4. CASE StopBeforeRequest(r) \/ RequestFails(r)
  <2>1. messages' = messages /\ ~Busy(r)
    BY <1>4 DEF StopBeforeRequest, RequestFails, Busy
  <2>2. ~Busy(r)'
    <3>1. pc'[r] = "done"
      BY <1>1, <1>4, ExitTyped DEF StopBeforeRequest, RequestFails
    <3>. QED BY <3>1 DEF Busy
  <2>. QED BY <2>1, <2>2 DEF PairedOf
<1>5. CASE StreamFails(r) \/ CancelledInStream(r) \/ StoreResultsFails(r)
  <2>1. Exit(r) /\ Busy(r) /\ disturbed' = disturbed \cup LeavesCallsOpen(r)
    BY <1>5 DEF StreamFails, CancelledInStream, StoreResultsFails, Busy, Finished
  <2>2. ~Busy(r)'
    <3>1. pc'[r] = "done"
      BY <1>1, <2>1, ExitTyped
    <3>. QED BY <3>1 DEF Busy
  <2>3. /\ at[r] = Len(messages) /\ messages[at[r]].role = "assistant" /\ msg[r].role = "assistant"
        /\ messages[at[r]].calls = msg[r].calls
    BY <2>1 DEF HistoryOf
  <2>4. at[r] # 0 /\ Len(messages) \in 1 .. Len(messages)
    BY <1>1, <2>1, <2>3 DEF Typed, Position
  <2>5. SentCalls(c, msg[r]) = <<>>
    BY <2>1 DEF LeavesCallsOpen
  <2>6. PICK m \in Messages : /\ m = [msg[r] EXCEPT !.finish = "canceled"]
                              /\ m.calls = msg[r].calls /\ m.results = <<>>
    BY FinishTyped DEF FinishReasons
  <2>7. m.role = "assistant"
    BY <1>1, <2>3, <2>6 DEF Messages
  <2>8. messages' = messages \/ messages' = Stored(r, m)
    BY <1>5, <2>6 DEF StreamFails, CancelledInStream, StoreResultsFails, Finished
  <2>9. /\ Len(messages') = Len(messages)
        /\ messages'[Len(messages)] \in {messages[Len(messages)], m}
        /\ \A i \in 1 .. Len(messages) : i # Len(messages) => messages'[i] = messages[i]
    <3>1. CASE messages' = Stored(r, m)
      <4>1. /\ Len(messages') = Len(messages) /\ messages'[at[r]] = m
            /\ \A i \in 1 .. Len(messages) : i # at[r] => messages'[i] = messages[i]
        BY <2>4, <2>6, <3>1, StoredGrows
      <4>. QED BY <2>3, <4>1
    <3>2. CASE messages' = messages
      BY <3>2
    <3>. QED BY <2>8, <3>1, <3>2
  <2>10. messages'[Len(messages)].role # "tool" /\ SentCalls(c, messages'[Len(messages)]) = <<>>
    <3>1. SentCalls(c, m) = SentCalls(c, msg[r])
      BY <2>6, SentAlike
    <3>2. messages[Len(messages)].calls = msg[r].calls /\ messages[Len(messages)].role = "assistant"
      BY <2>3
    <3>3. SentCalls(c, messages[Len(messages)]) = SentCalls(c, msg[r])
      BY <3>2, SentAlike
    <3>. QED BY <2>5, <2>7, <2>9, <3>1, <3>2, <3>3
  <2>11. PairedUpTo(c, messages', Len(messages) - 1)
    <3>0. Len(messages) \in Nat \ {0}
      BY <1>1, <2>4
    <3>1. Len(messages) - 1 \in Nat /\ \A i \in 1 .. Len(messages) - 1 : messages'[i] = messages[i]
      <4>1. \A i \in 1 .. Len(messages) - 1 : i \in 1 .. Len(messages) /\ i # Len(messages)
        BY <3>0
      <4>. QED BY <2>9, <3>0, <4>1
    <3>2. PairedUpTo(c, messages, Len(messages) - 1)
      BY <2>1 DEF PairedOf
    <3>. QED BY <3>1, <3>2, PairedSame
  <2>12. PairedUpTo(c, messages', Len(messages))
    <3> DEFINE n == Len(messages) - 1
    <3>1. n \in Nat /\ n + 1 = Len(messages)
      <4>1. Len(messages) \in Nat \ {0}
        BY <1>1, <2>4
      <4>. QED BY <4>1
    <3>2. /\ PairedUpTo(c, messages', n)
          /\ messages'[n + 1].role # "tool" /\ SentCalls(c, messages'[n + 1]) = <<>>
      BY <2>10, <2>11, <3>1
    <3> HIDE DEF n
    <3>3. PairedUpTo(c, messages', n + 1)
      BY <3>1, <3>2, PairedOn
    <3>. QED BY <3>1, <3>3
  <2>. QED BY <2>2, <2>9, <2>12 DEF PairedOf
<1>6. CASE BusyStep(r)
  <2>1. /\ Busy(r) /\ Busy(r)' /\ UNCHANGED <<at, history>> /\ msg'[r] \in Messages
        /\ \/ messages' = Stored(r, msg'[r])
           \/ messages' = messages
    BY <1>6, BusyStepStores
  <2>2. at[r] = Len(messages) /\ Len(messages) - 1 \in Nat
    BY <1>1, <2>1 DEF HistoryOf, Typed, Position
  <2>3. Len(messages') = Len(messages) /\ \A i \in 1 .. Len(messages) - 1 : messages'[i] = messages[i]
    <3>1. CASE messages' = Stored(r, msg'[r])
      <4>1. messages' = [messages EXCEPT ![Len(messages)] = msg'[r]]
        BY <2>2, <3>1 DEF Stored
      <4>2. DOMAIN messages = 1 .. Len(messages)
        BY <1>1
      <4>3. \A i \in 1 .. Len(messages) - 1 : i \in 1 .. Len(messages) /\ i # Len(messages)
        <5>1. Len(messages) \in Nat
          BY <1>1
        <5>. QED BY <5>1
      <4>4. \A i \in 1 .. Len(messages) - 1 : messages'[i] = messages[i]
        BY <4>1, <4>2, <4>3
      <4>5. Len(messages') = Len(messages)
        BY <1>1, <2>1, <4>1
      <4>. QED BY <4>4, <4>5
    <3>2. CASE messages' = messages
      BY <3>2
    <3>. QED BY <2>1, <3>1, <3>2
  <2>4. PairedUpTo(c, messages', Len(messages') - 1)
    <3>1. PairedUpTo(c, messages, Len(messages) - 1)
      BY <2>1 DEF PairedOf
    <3>2. PairedUpTo(c, messages', Len(messages) - 1)
      BY <2>2, <2>3, <3>1, PairedSame
    <3>. QED BY <2>3, <3>2
  <2>5. Paired(c, history'[r])
    BY <2>1 DEF PairedOf
  <2>. QED BY <2>1, <2>4, <2>5 DEF PairedOf
<1>7. CASE StoreResults(r)
  <2>. DEFINE a == Answers(results[r])
              n == Len(messages) - 1
  <2>1. /\ a \in Messages /\ a.results = results[r]
        /\ messages' = IF results[r] = <<>> THEN messages ELSE Append(messages, a)
    BY <1>7, StoreResultsAppends
  <2>2. a.role = "tool" /\ a.calls = <<>>
    BY DEF Answers, Message
  <2> HIDE DEF a
  <2>3. Busy(r) /\ ~Busy(r)'
    <3>1. pc'[r] \in {"loop", "done"}
      BY <1>1, <1>7 DEF StoreResults, Exit, Goto
    <3>. QED BY <1>7, <3>1 DEF StoreResults, Busy
  <2>4. /\ at[r] = Len(messages) /\ messages[at[r]].role = "assistant" /\ messages[at[r]].calls = msg[r].calls
        /\ n \in Nat
    BY <1>1, <2>3 DEF HistoryOf, Typed, Position
  <2>5. SentCalls(c, messages[n + 1]) = msg[r].calls /\ messages[n + 1].role # "tool"
    <3>1. SentCalls(c, msg[r]) = msg[r].calls
      BY <1>7 DEF StoreResults
    <3>. QED BY <1>1, <2>4, <3>1, SentAlike
  <2>6. PairedUpTo(c, messages, n)
    BY <2>3 DEF PairedOf
  <2>7. CASE results[r] = <<>>
    <3>1. msg[r].calls = <<>>
      BY <1>7, <2>7, ResultsAnswer
    <3>2. PairedUpTo(c, messages, n + 1)
      BY <2>4, <2>5, <2>6, <3>1, PairedOn
    <3>. QED BY <1>1, <2>1, <2>3, <2>7, <3>2 DEF PairedOf
  <2>8. CASE results[r] # <<>>
    <3>1. /\ Len(messages') = n + 2 /\ messages'[n + 2] = a
          /\ \A i \in 1 .. Len(messages) : messages'[i] = messages[i]
      BY <1>1, <2>1, <2>8, AppendGrows
    <3>2. messages'[n + 1] = messages[n + 1] /\ \A i \in 1 .. n : messages'[i] = messages[i]
      BY <1>1, <2>4, <3>1
    <3>3. PairedUpTo(c, messages', n)
      BY <2>4, <2>6, <3>2, PairedSame
    <3>4. Ids(messages'[n + 2].results) = Ids(SentCalls(c, messages'[n + 1]))
      BY <1>7, <2>1, <2>5, <3>1, <3>2, ResultsAnswer
    <3>5. SentCalls(c, messages'[n + 2]) = <<>>
      BY <2>2, <3>1, SentNothing
    <3> HIDE DEF n
    <3>6. PairedUpTo(c, messages', n + 2)
      BY <2>2, <2>4, <2>5, <3>1, <3>2, <3>3, <3>4, <3>5, PairedAnswered
    <3>. QED BY <2>3, <3>1, <3>6 DEF PairedOf
  <2>. QED BY <2>7, <2>8
<1>. QED BY <1>2, <1>3, <1>4, <1>5, <1>6, <1>7 DEF RunStep, BusyStep

\* The steps of a run and of the summary keep all paired that was.
LEMMA PairedNext ==
  ASSUME Typed, TruthInv, HistoryInv, PairedInv, [Next]_vars
  PROVE  PairedInv'
<1>0. disturbed \subseteq disturbed' /\ Types /\ Typed' /\ HistoryInv'
  BY DisturbedGrows, NextTyped, HistoryNext DEF Typed
<1> SUFFICES ASSUME NEW c \in Clients \ disturbed'
             PROVE  /\ (\A r \in Runs : ~Busy(r)') => PairedUpTo(c, messages, Len(messages))'
                    /\ \A r \in Runs : Busy(r)' => PairedOf(c, r)'
  BY DEF PairedInv
<1>1. /\ c \in Clients \ disturbed /\ Alone /\ \A r \in Runs : HistoryOf(r)
      /\ (\A r \in Runs : ~Busy(r)) => PairedUpTo(c, messages, Len(messages))
      /\ \A r \in Runs : Busy(r) => PairedOf(c, r)
  <2>1. disturbed # Clients
    BY <1>0
  <2>. QED BY <1>0, <2>1 DEF HistoryInv, PairedInv
<1>2. ASSUME NEW r \in Runs, RunStep(r)
      PROVE  /\ (\A q \in Runs : ~Busy(q)') => PairedUpTo(c, messages, Len(messages))'
             /\ \A q \in Runs : Busy(q)' => PairedOf(c, q)'
  <2>1. \A q \in Runs \ {r} : ~Working(q) /\ ~Busy(q) /\ ~Busy(q)'
    <3>1. Working(r) /\ Only(r)
      BY <1>2, RunWorks, RunTyped
    <3>. QED BY <1>1, <3>1 DEF Only, Alone, Busy, Working
  <2>2. PairedOf(c, r)
    <3>1. CASE Busy(r)
      BY <1>1, <3>1
    <3>2. CASE ~Busy(r)
      BY <1>1, <2>1, <3>2 DEF PairedOf
    <3>. QED BY <3>1, <3>2
  <2>3. PairedOf(c, r)'
    <3>1. LocalTrue(r) /\ HistoryOf(r)
      BY <1>1 DEF TruthInv
    <3>. QED BY <1>2, <2>2, <3>1, PairedStep
  <2>. QED BY <2>1, <2>3 DEF PairedOf
<1>3. ASSUME UNCHANGED <<messages, history, msg>>,
             \A r \in Runs : Busy(r)' <=> Busy(r)
      PROVE  /\ (\A q \in Runs : ~Busy(q)') => PairedUpTo(c, messages, Len(messages))'
             /\ \A q \in Runs : Busy(q)' => PairedOf(c, q)'
  BY <1>1, <1>3 DEF PairedOf
<1>4. ASSUME NEW r \in Runs, Start(r)
      PROVE  /\ (\A q \in Runs : ~Busy(q)') => PairedUpTo(c, messages, Len(messages))'
             /\ \A q \in Runs : Busy(q)' => PairedOf(c, q)'
  <2>1. Only(r) /\ pc[r] = "idle" /\ pc'[r] = "listed" /\ messages' = messages
    <3>1. pc \in [Runs -> States]
      BY <1>0 DEF Types
    <3>. QED BY <1>4, <3>1, RunTyped DEF Start, Goto
  <2>2. \A q \in Runs : ~Busy(q) /\ ~Busy(q)'
    <3>1. \A q \in Runs : ~Working(q)
      BY <1>4 DEF Start
    <3>. QED BY <2>1, <3>1 DEF Busy, Working, Only
  <2>. QED BY <1>1, <2>1, <2>2
<1>5. ASSUME NEW r \in Runs, Cancel(r)
      PROVE  /\ (\A q \in Runs : ~Busy(q)') => PairedUpTo(c, messages, Len(messages))'
             /\ \A q \in Runs : Busy(q)' => PairedOf(c, q)'
  BY <1>3, <1>5 DEF Cancel, Busy
<1>6. CASE Summarizing
  <2>1. pc' = pc /\ UNCHANGED <<history, msg>> /\ (messages' = messages \/ messages' = Append(messages, Compaction))
    BY <1>6, SummarizingTyped DEF runVars
  <2>2. \A r \in Runs : ~Busy(r)
    <3>1. \A r \in Runs : ~Working(r)
      <4>1. CASE SummarizeStart
        <5>1. disturbed' # Clients
          OBVIOUS
        <5>. QED BY <4>1, <5>1 DEF SummarizeStart
      <4>2. CASE summarizer \in {"sent", "stored"}
        BY <1>1, <4>2 DEF Alone
      <4>. QED BY <1>6, <4>1, <4>2 DEF Summarizing, SummaryCreate, SummarySave, SummarizeFails
    <3>. QED BY <3>1 DEF Working, Busy
  <2>3. PairedUpTo(c, messages, Len(messages))
    BY <1>1, <2>2
  <2>4. CASE messages' = Append(messages, Compaction)
    <3>1. /\ Len(messages') = Len(messages) + 1 /\ messages'[Len(messages) + 1] = Compaction
          /\ \A i \in 1 .. Len(messages) : messages'[i] = messages[i]
      BY <1>0, <2>4, MadeTyped, AppendGrows DEF Types
    <3>2. SentCalls(c, Compaction) = <<>> /\ Compaction.role # "tool"
      BY MadeTyped, SentNothing DEF Compaction, Message
    <3>3. Len(messages) \in Nat
      BY <1>0 DEF Types
    <3>4. PairedUpTo(c, messages', Len(messages))
      BY <2>3, <3>1, <3>3, PairedSame
    <3>5. PairedUpTo(c, messages', Len(messages) + 1)
      BY <3>1, <3>2, <3>3, <3>4, PairedOn
    <3>. QED BY <2>1, <2>2, <3>1, <3>5 DEF Busy
  <2>. QED BY <2>1, <2>2, <2>3, <2>4 DEF Busy
<1>7. CASE UNCHANGED vars
  BY <1>3, <1>7 DEF vars, runVars, Busy
<1>. QED BY <1>2, <1>4, <1>5, <1>6, <1>7 DEF Next, Summarizing

\* What is paired at first.
LEMMA PairedInit == Init => PairedInv
<1>. SUFFICES ASSUME Init, NEW c \in Clients PROVE PairedUpTo(c, messages, Len(messages))
                                                  /\ \A r \in Runs : ~Busy(r)
  BY DEF PairedInv
<1>1. Len(messages) = 0
  BY EmptySequence DEF Init
<1>2. PairedUpTo(c, messages, Len(messages))
  BY <1>1 DEF PairedUpTo
<1>3. \A r \in Runs : ~Busy(r)
  BY DEF Init, Busy
<1>. QED BY <1>2, <1>3

\* What a run sends, and what the next will find, pairs the calls with their
\* results, for every client until calls it sends were left open (an error, a
\* cancellation while streaming, results that could not be stored), results of calls
\* it does not send were stored, or requests overlapped (agent.go's loop, with
\* convertMessages of the providers).
THEOREM ConversationStaysPaired == Spec => []ConversationPaired
<1>1. Typed /\ TruthInv /\ HistoryInv /\ PairedInv /\ [Next]_vars
        => Typed' /\ TruthInv' /\ HistoryInv' /\ PairedInv'
  BY NextTyped, TruthNext, HistoryNext, PairedNext
<1>2. Init => Typed /\ TruthInv /\ HistoryInv /\ PairedInv
  BY InitTyped, TruthInit, HistoryInit, PairedInit
<1>3. Typed /\ HistoryInv /\ PairedInv => ConversationPaired
  <2> SUFFICES ASSUME Typed, HistoryInv, PairedInv, NEW c \in Clients \ disturbed
               PROVE  /\ \A r \in Runs : pc[r] \in {"loop", "streaming"} => Paired(c, history[r])
                      /\ (\A r \in Runs : ~Working(r)) => Paired(c, messages)
    BY DEF ConversationPaired
  <2>1. messages \in Seq(Messages) /\ summaryId \in 0 .. Len(messages)
    BY DEF Typed, Types
  <2>2. Alone /\ \A r \in Runs : HistoryOf(r)
    BY DEF HistoryInv
  <2>3. ASSUME NEW r \in Runs, pc[r] = "loop" PROVE Paired(c, history[r])
    <3>1. \A q \in Runs : ~Busy(q)
      BY <2>2, <2>3 DEF Alone, Working, Busy
    <3>2. PairedUpTo(c, messages, Len(messages)) /\ history[r] = Window
      BY <2>2, <2>3, <3>1 DEF PairedInv, HistoryOf
    <3>. QED BY <2>1, <3>2, SincePaired, WindowSince
  <2>4. ASSUME NEW r \in Runs, pc[r] = "streaming" PROVE Paired(c, history[r])
    BY <2>4 DEF PairedInv, PairedOf, Busy
  <2>5. ASSUME \A r \in Runs : ~Working(r) PROVE Paired(c, messages)
    <3>1. \A r \in Runs : ~Busy(r)
      BY <2>5 DEF Working, Busy
    <3>. QED BY <2>1, <3>1, PairedAll DEF PairedInv
  <2>. QED BY <2>3, <2>4, <2>5
<1>. QED BY <1>1, <1>2, <1>3, PTL DEF Spec

=============================================================================
