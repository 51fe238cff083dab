------------------------------ MODULE ToolProofs ------------------------------
(***************************************************************************)
(* Proofs about two tools that change the world outside the program.       *)
(*                                                                         *)
(* Shell, for any number of calls, shells and directories and any capacity *)
(* of the queue: what a result says of its command is true, bash works for *)
(* the call that waits or for one that was given up, there is one shell    *)
(* unless two calls made one at the same time, and a shell that replaces   *)
(* another starts where bash left off, but for what is named there.        *)
(*                                                                         *)
(* PatchTool, for any patches, files, versions and number of changes by    *)
(* others: a patch is all or nothing, it overwrites what was read only,    *)
(* both sides of each change are in the history, and an update makes of    *)
(* the file what its sections describe.  The last is about the algorithm   *)
(* of Patch, whose functions are recursive: it rests on induction in a     *)
(* form without an operator as a parameter, AllNumbers.                    *)
(***************************************************************************)
EXTENDS Shell, PatchTool, WellFoundedInduction, NaturalsInduction, SequenceTheorems, TLAPS

---------------------------------------------------------------------------
(* The shell: types *)

\* A call that has been given a shell has one, and one that makes a shell knows where.
Given == \A e \in Execs :
  /\ pc[e] \in {"found", "sending", "waiting"} => shellOf[e] \in Shells
  /\ pc[e] = "making" => startDir[e] \in Dirs

Typed == TypeOK /\ Given

\* What is left of a queue, and its head, are of its elements.
LEMMA QueueTyped ==
  ASSUME NEW S, NEW q \in Seq(S), q # <<>>
  PROVE  Head(q) \in S /\ Tail(q) \in Seq(S) /\ Len(Tail(q)) = Len(q) - 1 /\ Len(q) \in Nat
OBVIOUS

\* A command behind the others is of the elements, and the queue one longer.
LEMMA AppendTyped ==
  ASSUME NEW S, NEW q \in Seq(S), NEW x \in S
  PROVE  Append(q, x) \in Seq(S) /\ Len(Append(q, x)) = Len(q) + 1 /\ Len(q) \in Nat
OBVIOUS

\* Shells are numbers, and not None.
LEMMA ShellNumbers ==
  /\ MaxShells \in Nat /\ QueueSize \in Nat \ {0}
  /\ \A s \in Shells : s \in Nat /\ s \in 1 .. MaxShells /\ s # None
  /\ Home \in Dirs
BY ShellAssumption DEF Shells

\* Types hold at first.
LEMMA InitTyped == Init => Typed
<1> SUFFICES ASSUME Init PROVE Typed
  OBVIOUS
<1>1. started \in 0 .. MaxShells
  BY ShellNumbers DEF Init
<1>2. <<>> \in Seq(Execs) /\ Len(<<>>) = 0 /\ 0 <= QueueSize
  BY ShellNumbers
<1>3. commandQueue \in [Shells -> Seq(Execs)] /\ input \in [Shells -> Seq(Execs)]
      /\ \A s \in Shells : Len(commandQueue[s]) <= QueueSize
  BY <1>2 DEF Init
<1>. QED BY <1>1, <1>3, ShellNumbers DEF Init, Typed, TypeOK, Given, Results

\* A call that returns, or goes on without a shell or with one it has.
LEMMA GotoTyped ==
  ASSUME Typed, NEW e, NEW l, Goto(e, l), UNCHANGED shellOf,
         startDir' \in [Execs -> Dirs \cup {None}],
         \A f \in Execs \ {e} : startDir'[f] = startDir[f],
         l = "making" => startDir'[e] \in Dirs,
         l \in {"idle", "making", "done"} \/ (l \in {"found", "sending", "waiting"} /\ shellOf[e] \in Shells)
  PROVE  /\ pc' \in [Execs -> {"idle", "making", "found", "sending", "waiting", "done"}]
         /\ Given'
<1>1. pc' = [pc EXCEPT ![e] = l] /\ shellOf' = shellOf
  BY DEF Goto
<1>. QED BY <1>1 DEF Typed, TypeOK, Given

\* A call that returns keeps the types.
LEMMA ReturnTyped ==
  ASSUME Typed, NEW e, NEW r \in Results, Return(e, r), UNCHANGED shellOf,
         startDir' \in [Execs -> Dirs \cup {None}],
         \A f \in Execs \ {e} : startDir'[f] = startDir[f]
  PROVE  /\ pc' \in [Execs -> {"idle", "making", "found", "sending", "waiting", "done"}]
         /\ Given' /\ result' \in [Execs -> Results]
<1>1. Goto(e, "done") /\ result' = [result EXCEPT ![e] = r]
  BY DEF Return
<1>. QED BY <1>1, GotoTyped DEF Typed, TypeOK

\* The calls of the bash tool keep the types.
LEMMA CallTyped ==
  ASSUME Typed, NEW e \in Execs, GetPersistentShell(e) \/ Call(e)
  PROVE  Typed'
<1>1. CASE GetPersistentShell(e)
  <2>1. CASE LiveInstance
    <3>1. shellInstance \in Shells
      BY <2>1 DEF LiveInstance, Typed, TypeOK
    <3>2. shellOf' = [shellOf EXCEPT ![e] = shellInstance] /\ pc' = [pc EXCEPT ![e] = "found"]
          /\ UNCHANGED <<shells, bash, result, startDir, races>>
      BY <1>1, <2>1 DEF GetPersistentShell, Goto
    <3>3. Given'
      BY <3>1, <3>2 DEF Typed, TypeOK, Given
    <3>. QED BY <3>1, <3>2, <3>3 DEF Typed, TypeOK, shells, bash, races
  <2>2. CASE ~LiveInstance
    <3>1. /\ Goto(e, "making") /\ UNCHANGED shellOf /\ raced' \in BOOLEAN
          /\ startDir' = [startDir EXCEPT ![e] = StartDir] /\ unsettled' \subseteq Execs
          /\ UNCHANGED <<shells, bash, result>>
      BY <1>1, <2>2 DEF GetPersistentShell, Make, Typed, TypeOK
    <3>2. StartDir \in Dirs
      BY ShellNumbers DEF StartDir, Typed, TypeOK
    <3>3. startDir'[e] \in Dirs /\ startDir' \in [Execs -> Dirs \cup {None}]
          /\ \A f \in Execs \ {e} : startDir'[f] = startDir[f]
      BY <3>1, <3>2 DEF Typed, TypeOK
    <3>. QED BY <3>1, <3>3, GotoTyped DEF Typed, TypeOK, shells, bash
  <2>. QED BY <2>1, <2>2
<1>2. CASE NewPersistentShell(e)
  <2> DEFINE n == started + 1
  <2>1. /\ n \in Shells /\ started' = n /\ shellInstance' = n
        /\ isAlive' = [isAlive EXCEPT ![n] = TRUE]
        /\ cwd' = [cwd EXCEPT ![n] = startDir[e]] /\ dir' = [dir EXCEPT ![n] = startDir[e]]
        /\ shellOf' = [shellOf EXCEPT ![e] = n] /\ pc' = [pc EXCEPT ![e] = "found"]
        /\ startDir' = [startDir EXCEPT ![e] = None]
        /\ UNCHANGED <<exited, closed, commandQueue, executing, writing, input, evaluating,
                       statusFile, begun, finished, result, raced, unsettled>>
    BY <1>2 DEF NewPersistentShell, Goto, races
  <2>2. startDir[e] \in Dirs
    BY <1>2 DEF NewPersistentShell, Typed, Given
  <2>3. n \in 0 .. MaxShells
    BY <2>1, ShellNumbers
  <2> HIDE DEF n
  <2>4. Given'
    BY <2>1 DEF Typed, TypeOK, Given
  <2>. QED BY <2>1, <2>2, <2>3, <2>4 DEF Typed, TypeOK
<1>3. CASE StartFails(e)
  BY <1>3, ReturnTyped DEF StartFails, Typed, TypeOK, bash, races, Results
<1>4. CASE CheckAlive(e)
  <2>1. shellOf[e] \in Shells
    BY <1>4 DEF CheckAlive, Typed, Given
  <2>2. CASE isAlive[shellOf[e]]
    BY <1>4, <2>1, <2>2, GotoTyped DEF CheckAlive, Typed, TypeOK, shells, bash, races
  <2>3. CASE ~isAlive[shellOf[e]]
    BY <1>4, <2>3, ReturnTyped DEF CheckAlive, Typed, TypeOK, shells, bash, races, Results
  <2>. QED BY <2>2, <2>3
<1>5. CASE Send(e)
  <2> DEFINE s == shellOf[e]
  <2>1. s \in Shells
    BY <1>5 DEF Send, Typed, Given
  <2>2. CASE s \in closed /\ Return(e, "panicked") /\ UNCHANGED commandQueue
    BY <1>5, <2>2, ReturnTyped DEF Send, Typed, TypeOK, bash, races, Results
  <2>3. CASE /\ s \notin closed /\ Len(commandQueue[s]) < QueueSize
             /\ commandQueue' = [commandQueue EXCEPT ![s] = Append(@, e)]
             /\ Goto(e, "waiting") /\ UNCHANGED result
    <3>1. commandQueue[s] \in Seq(Execs)
      BY <2>1 DEF Typed, TypeOK
    <3>2. Append(commandQueue[s], e) \in Seq(Execs) /\ Len(Append(commandQueue[s], e)) <= QueueSize
      BY <2>3, <3>1, AppendTyped, ShellNumbers
    <3>3. \A t \in Shells : commandQueue'[t] \in Seq(Execs) /\ Len(commandQueue'[t]) <= QueueSize
      BY <2>1, <2>3, <3>2 DEF Typed, TypeOK
    <3>. QED BY <1>5, <2>1, <2>3, <3>3, GotoTyped DEF Send, Typed, TypeOK, bash, races
  <2>. QED BY <1>5, <2>2, <2>3 DEF Send
<1>. QED BY <1>1, <1>2, <1>3, <1>4, <1>5 DEF Call

\* So do the goroutine that feeds a shell, the one that waits for it, and bash.
LEMMA ShellTyped ==
  ASSUME Typed, NEW s \in Shells,
         \/ Process(s) \/ WriteReturns(s) \/ Reap(s) \/ CloseQueue(s) \/ BeginCommand(s) \/ Exit(s)
         \/ \E d \in Dirs : FinishCommand(s, d)
  PROVE  Typed'
<1>1. CASE TakeCommand(s)
  <2> DEFINE e == Head(commandQueue[s])
  <2>1. commandQueue[s] \in Seq(Execs) /\ commandQueue[s] # <<>> /\ Len(commandQueue[s]) <= QueueSize
    BY <1>1 DEF TakeCommand, Typed, TypeOK
  <2>2. e \in Execs /\ Tail(commandQueue[s]) \in Seq(Execs) /\ Len(Tail(commandQueue[s])) <= QueueSize
    BY <2>1, QueueTyped, ShellNumbers
  <2>3. commandQueue' = [commandQueue EXCEPT ![s] = Tail(@)]
    BY <1>1 DEF TakeCommand
  <2>4. commandQueue' \in [Shells -> Seq(Execs)] /\ \A t \in Shells : Len(commandQueue'[t]) <= QueueSize
    BY <2>2, <2>3 DEF Typed, TypeOK
  <2>5. CASE isAlive[s] /\ s \notin exited
    <3>1. Append(input[s], e) \in Seq(Execs)
      BY <2>2, AppendTyped DEF Typed, TypeOK
    <3>2. executing' = [executing EXCEPT ![s] = e] /\ input' = [input EXCEPT ![s] = Append(@, e)]
          /\ writing' = writing \cup {s} /\ UNCHANGED <<pc, result>>
      BY <1>1, <2>5 DEF TakeCommand
    <3> HIDE DEF e
    <3>. QED BY <1>1, <2>2, <2>4, <3>1, <3>2 DEF TakeCommand, Typed, TypeOK, Given, races
  <2>6. CASE ~(isAlive[s] /\ s \notin exited)
    <3>1. PICK r \in Results : Return(e, r)
      BY <1>1, <2>6 DEF TakeCommand, Results
    <3>2. UNCHANGED <<executing, writing, input, shellOf, startDir>>
      BY <1>1, <2>6 DEF TakeCommand
    <3> HIDE DEF e
    <3>. QED BY <1>1, <2>2, <2>4, <3>1, <3>2, ReturnTyped DEF TakeCommand, Typed, TypeOK, races
  <2>. QED BY <2>5, <2>6
<1>2. CASE CommandCompleted(s) \/ CommandInterrupted(s)
  <2>1. PICK r \in {"completed", "interrupted"} : executing[s] # None /\ Deliver(s, r)
    BY <1>2 DEF CommandCompleted, CommandInterrupted, Waiting
  <2> DEFINE e == executing[s]
  <2>2. e \in Execs /\ r \in Results
    BY <2>1 DEF Typed, TypeOK, Results
  <2>3. Return(e, r) /\ UNCHANGED <<shellOf, startDir>>
    BY <2>1 DEF Deliver
  <2>4. cwd' \in [Shells -> Dirs]
    BY <2>1, <2>2 DEF Deliver, Typed, TypeOK
  <2>5. statusFile' \in [Execs -> Dirs \cup {None}] /\ executing' \in [Shells -> Execs \cup {None}]
    BY <2>1, <2>2 DEF Deliver, Typed, TypeOK
  <2> HIDE DEF e
  <2>. QED BY <2>1, <2>2, <2>3, <2>4, <2>5, ReturnTyped DEF Deliver, Typed, TypeOK, races
<1>3. CASE Reap(s) \/ CloseQueue(s)
  BY <1>3 DEF Reap, CloseQueue, Typed, TypeOK, Given, bash, callers, races
<1>4. CASE BeginCommand(s)
  <2>1. input[s] \in Seq(Execs) /\ input[s] # <<>>
    BY <1>4 DEF BeginCommand, Typed, TypeOK
  <2>2. Head(input[s]) \in Execs /\ Tail(input[s]) \in Seq(Execs)
    BY <2>1, QueueTyped
  <2>. QED BY <1>4, <2>2 DEF BeginCommand, Typed, TypeOK, Given, shells, callers, races
<1>5. CASE Exit(s)
  <2>1. <<>> \in Seq(Execs)
    OBVIOUS
  <2>. QED BY <1>5, <2>1 DEF Exit, Typed, TypeOK, Given, callers, races
<1>6. CASE \E d \in Dirs : FinishCommand(s, d)
  BY <1>6 DEF FinishCommand, Typed, TypeOK, Given, shells, callers, races
<1>7. CASE Written(s)
  BY <1>7 DEF Written, Typed, TypeOK, Given, bash, callers, races
<1>8. CASE WriteFails(s)
  <2> DEFINE e == executing[s]
  <2>2. Return(e, "unwritten") /\ UNCHANGED <<shellOf, startDir>> /\ "unwritten" \in Results
    BY <1>8 DEF WriteFails, Results
  <2>3. /\ statusFile' \in [Execs -> Dirs \cup {None}] /\ executing' \in [Shells -> Execs \cup {None}]
        /\ writing' \subseteq Shells
    BY <1>8 DEF WriteFails, Typed, TypeOK
  <2> HIDE DEF e
  <2>. QED BY <1>8, <2>2, <2>3, ReturnTyped DEF WriteFails, Typed, TypeOK, races
<1>. QED BY <1>1, <1>2, <1>3, <1>4, <1>5, <1>6, <1>7, <1>8 DEF Process, WriteReturns

\* Every step keeps the types.
LEMMA NextTyped == Typed /\ [Next]_vars => Typed'
<1> SUFFICES ASSUME Typed, [Next]_vars PROVE Typed'
  OBVIOUS
<1>1. CASE \E e \in Execs : GetPersistentShell(e) \/ Call(e)
  BY <1>1, CallTyped
<1>2. CASE \E s \in Shells : \/ Process(s) \/ WriteReturns(s) \/ Reap(s) \/ CloseQueue(s)
                             \/ BeginCommand(s) \/ Exit(s)
                             \/ \E d \in Dirs : FinishCommand(s, d)
  BY <1>2, ShellTyped
<1>3. CASE UNCHANGED vars
  BY <1>3 DEF vars, shells, bash, callers, races, Typed, TypeOK, Given
<1>. QED BY <1>1, <1>2, <1>3 DEF Next

\* Every variable of the shell keeps its type, and a call that goes on with a
\* shell has one.
THEOREM TypeInvariant == Spec => []Typed
BY InitTyped, NextTyped, PTL DEF Spec

\* Every variable of the shell keeps its type: no queue exceeds its capacity.
THEOREM TypeCorrect == Spec => []TypeOK
<1>1. Typed => TypeOK
  BY DEF Typed
<1>. QED BY <1>1, TypeInvariant, PTL

---------------------------------------------------------------------------
(* There is one shell *)

\* Who makes a shell does so alone, and finds none alive.
OneMaker ==
  /\ ~raced => \A e \in Execs : pc[e] = "making" =>
       /\ \A f \in Execs : pc[f] = "making" => f = e
       /\ \A s \in Shells : ~isAlive[s]
  /\ OneLiveShell

\* No call makes a shell at first.
LEMMA InitOneMaker == Init => OneMaker
BY DEF Init, OneMaker, OneLiveShell

\* A step that makes nobody a maker, and no shell alive.
LEMMA OneMakerKept ==
  ASSUME OneMaker, UNCHANGED <<raced, shellInstance>>,
         \A e \in Execs : pc'[e] = "making" => pc[e] = "making",
         \A s \in Shells : isAlive'[s] => isAlive[s]
  PROVE  OneMaker'
BY DEF OneMaker, OneLiveShell

\* Every step keeps one shell.
LEMMA NextOneMaker == Typed /\ OneMaker /\ [Next]_vars => OneMaker'
<1> SUFFICES ASSUME Typed, OneMaker, [Next]_vars PROVE OneMaker'
  OBVIOUS
<1>1. ASSUME NEW e \in Execs, GetPersistentShell(e) PROVE OneMaker'
  <2>1. CASE LiveInstance
    BY <1>1, <2>1, OneMakerKept DEF GetPersistentShell, Goto, shells, races, Typed, TypeOK
  <2>2. CASE ~LiveInstance
    <3>1. /\ pc' = [pc EXCEPT ![e] = "making"] /\ UNCHANGED shells
          /\ raced' = (raced \/ \E f \in Execs : pc[f] = "making")
      BY <1>1, <2>2 DEF GetPersistentShell, Make, Goto
    <3>2. ~raced => \A s \in Shells : ~isAlive[s]
      BY <2>2, ShellNumbers DEF OneMaker, OneLiveShell, LiveInstance
    <3>. QED BY <3>1, <3>2 DEF OneMaker, OneLiveShell, shells, Typed, TypeOK
  <2>. QED BY <2>1, <2>2
<1>2. ASSUME NEW e \in Execs, NewPersistentShell(e) PROVE OneMaker'
  BY <1>2 DEF NewPersistentShell, Goto, races, OneMaker, OneLiveShell, Typed, TypeOK
<1>3. ASSUME NEW e \in Execs, StartFails(e) PROVE OneMaker'
  BY <1>3 DEF StartFails, Return, Goto, races, OneMaker, OneLiveShell, Typed, TypeOK
<1>4. ASSUME NEW e \in Execs, CheckAlive(e) \/ Send(e) PROVE OneMaker'
  BY <1>4, OneMakerKept DEF CheckAlive, Send, Return, Goto, shells, races, Typed, TypeOK
<1>5. ASSUME NEW s \in Shells, Process(s) \/ WriteFails(s) PROVE OneMaker'
  <2>1. /\ UNCHANGED <<raced, shellInstance, isAlive>>
        /\ \/ UNCHANGED pc
           \/ \E e : pc' = [pc EXCEPT ![e] = "done"]
    BY <1>5 DEF Process, TakeCommand, CommandCompleted, CommandInterrupted, Deliver, WriteFails, Return,
           Goto, races
  <2>2. \A e \in Execs : pc'[e] = "making" => pc[e] = "making"
    BY <2>1 DEF Typed, TypeOK
  <2>. QED BY <2>1, <2>2, OneMakerKept
<1>6. ASSUME NEW s \in Shells,
             \/ Written(s) \/ Reap(s) \/ CloseQueue(s) \/ BeginCommand(s) \/ Exit(s)
             \/ \E d \in Dirs : FinishCommand(s, d)
      PROVE  OneMaker'
  <2>1. UNCHANGED <<raced, shellInstance, pc>> /\ \A t \in Shells : isAlive'[t] => isAlive[t]
    BY <1>6 DEF Written, Reap, CloseQueue, BeginCommand, Exit, FinishCommand, shells, callers,
                races, Typed, TypeOK
  <2>. QED BY <2>1, OneMakerKept
<1>7. CASE UNCHANGED vars
  BY <1>7, OneMakerKept DEF vars, shells, callers, races
<1>. QED BY <1>1, <1>2, <1>3, <1>4, <1>5, <1>6, <1>7 DEF Next, Call, WriteReturns

\* As long as no two calls find the shell dead at the same time, at most one shell
\* is alive, and it is the one that the next call gets.
THEOREM OneShell == Spec => []OneLiveShell
<1>1. OneMaker => OneLiveShell
  BY DEF OneMaker
<1>. QED BY <1>1, InitOneMaker, NextOneMaker, TypeInvariant, PTL DEF Spec

---------------------------------------------------------------------------
(* What becomes of a command *)

In(x, q) == \E i \in DOMAIN q : q[i] = x
Distinct(q) == \A i, j \in DOMAIN q : q[i] = q[j] => i = j

\* The head of a queue of distinct elements is in it, and not in its tail.
LEMMA TailOf ==
  ASSUME NEW S, NEW q \in Seq(S), q # <<>>, Distinct(q)
  PROVE  /\ In(Head(q), q) /\ Distinct(Tail(q))
         /\ \A x : In(x, Tail(q)) <=> In(x, q) /\ x # Head(q)
<1>1. /\ Len(q) \in Nat \ {0} /\ DOMAIN q = 1 .. Len(q) /\ Head(q) = q[1]
      /\ DOMAIN Tail(q) = 1 .. Len(q) - 1
      /\ \A i \in 1 .. Len(q) - 1 : Tail(q)[i] = q[i + 1]
  OBVIOUS
<1>2. In(Head(q), q)
  BY <1>1 DEF In
<1>3. Distinct(Tail(q))
  <2> SUFFICES ASSUME NEW i \in DOMAIN Tail(q), NEW j \in DOMAIN Tail(q), Tail(q)[i] = Tail(q)[j]
               PROVE  i = j
    BY DEF Distinct
  <2>1. i + 1 \in DOMAIN q /\ j + 1 \in DOMAIN q /\ q[i + 1] = q[j + 1]
    BY <1>1
  <2>2. i + 1 = j + 1
    BY <2>1 DEF Distinct
  <2>. QED BY <1>1, <2>2
<1>4. ASSUME NEW x, In(x, Tail(q)) PROVE In(x, q) /\ x # Head(q)
  <2>1. PICK i \in DOMAIN Tail(q) : Tail(q)[i] = x
    BY <1>4 DEF In
  <2>2. i + 1 \in DOMAIN q /\ q[i + 1] = x /\ i + 1 # 1 /\ 1 \in DOMAIN q
    BY <1>1, <2>1
  <2>. QED BY <1>1, <2>2 DEF In, Distinct
<1>5. ASSUME NEW x, In(x, q), x # Head(q) PROVE In(x, Tail(q))
  <2>1. PICK i \in DOMAIN q : q[i] = x
    BY <1>5 DEF In
  <2>2. i \in 2 .. Len(q)
    BY <1>1, <1>5, <2>1
  <2>3. i - 1 \in DOMAIN Tail(q) /\ Tail(q)[i - 1] = x
    BY <1>1, <2>1, <2>2
  <2>. QED BY <2>3 DEF In
<1>. QED BY <1>2, <1>3, <1>4, <1>5

\* An element that is not in a queue joins it.
LEMMA AppendOf ==
  ASSUME NEW S, NEW q \in Seq(S), NEW y \in S, Distinct(q), ~In(y, q)
  PROVE  /\ Distinct(Append(q, y))
         /\ \A x : In(x, Append(q, y)) <=> In(x, q) \/ x = y
<1>1. /\ Len(q) \in Nat /\ DOMAIN q = 1 .. Len(q)
      /\ DOMAIN Append(q, y) = 1 .. Len(q) + 1
      /\ \A i \in 1 .. Len(q) : Append(q, y)[i] = q[i]
      /\ Append(q, y)[Len(q) + 1] = y
  OBVIOUS
<1>2. \A i \in 1 .. Len(q) : q[i] # y
  BY <1>1 DEF In
<1>3. Distinct(Append(q, y))
  BY <1>1, <1>2 DEF Distinct
<1>4. \A x : In(x, Append(q, y)) <=> In(x, q) \/ x = y
  BY <1>1 DEF In
<1>. QED BY <1>3, <1>4

\* execCommand waits for the command, or has given it up.
Awaited(s, e) == executing[s] = e \/ result[e] = "interrupted"

\* A call has no result before it is done, and one that waits is in its shell's
\* queue or with execCommand, in one place only; what is being written is with it.
Queued ==
  /\ \A s \in writing : executing[s] # None
  /\ \A e \in Execs : pc[e] # "done" => result[e] = "none"
  /\ \A s \in Shells : executing[s] # None =>
       pc[executing[s]] = "waiting" /\ shellOf[executing[s]] = s
  /\ \A s \in Shells : Distinct(commandQueue[s])
  /\ \A s \in Shells, e \in Execs : In(e, commandQueue[s]) =>
       pc[e] = "waiting" /\ shellOf[e] = s /\ executing[s] # e

\* A command that was written and has not begun is in one input, once.
Sent ==
  /\ \A s \in Shells : Distinct(input[s])
  /\ \A s \in Shells, e \in Execs : In(e, input[s]) =>
       shellOf[e] = s /\ e \notin begun /\ Awaited(s, e)

\* One that has begun was awaited, and its files are there only when it has ended.
Evaluated ==
  /\ finished \subseteq begun
  /\ \A e \in begun : \/ result[e] \in {"completed", "interrupted", "unwritten"}
                      \/ shellOf[e] \in Shells /\ executing[shellOf[e]] = e
  /\ \A s \in Shells, e \in Execs : evaluating[s] = e =>
       shellOf[e] = s /\ e \in begun \ finished /\ Awaited(s, e)
  /\ \A e \in Execs : statusFile[e] # None => e \in finished
  /\ \A e \in Execs : result[e] = "completed" => e \in finished

\* A process that has ended neither reads nor evaluates.
Dead == \A s \in exited : evaluating[s] = None /\ \A e \in Execs : ~In(e, input[s])

CommandInv == Queued /\ Sent /\ Evaluated /\ Dead

\* The invariant says what the properties do.
LEMMA InvGivesResults == Typed /\ CommandInv => ResultsTruthful /\ OnlyAwaitedOrAbandoned
<1> SUFFICES ASSUME Typed, CommandInv PROVE ResultsTruthful /\ OnlyAwaitedOrAbandoned
  OBVIOUS
<1>1. ResultsTruthful
  <2> SUFFICES ASSUME NEW e \in Execs, result[e] \in {"dead", "panicked"}, e \in begun
               PROVE  FALSE
    BY DEF ResultsTruthful, CommandInv, Evaluated
  <2>1. shellOf[e] \in Shells /\ executing[shellOf[e]] = e
    BY DEF CommandInv, Evaluated
  <2>2. e # None
    BY ShellAssumption
  <2>3. pc[e] = "waiting"
    BY <2>1, <2>2 DEF CommandInv, Queued
  <2>. QED BY <2>3 DEF CommandInv, Queued
<1>2. OnlyAwaitedOrAbandoned
  BY DEF OnlyAwaitedOrAbandoned, CommandInv, Sent, Evaluated, Awaited, In
<1>. QED BY <1>1, <1>2

\* Nothing has been written at first.
LEMMA InitCommand == Init => CommandInv
<1> SUFFICES ASSUME Init PROVE CommandInv
  OBVIOUS
<1>1. \A e \in Execs : e # None
  BY ShellAssumption
<1>2. Queued
  BY <1>1 DEF Init, Queued, In, Distinct
<1>3. Sent /\ Evaluated /\ Dead
  BY <1>1 DEF Init, Sent, Evaluated, Dead, In, Distinct
<1>. QED BY <1>2, <1>3 DEF CommandInv


\* A call that has not sent its command yet has none anywhere.
LEMMA NotSent ==
  ASSUME Typed, CommandInv, NEW e \in Execs, pc[e] \in {"idle", "making", "found", "sending"}
  PROVE  /\ e \notin begun
         /\ \A s \in Shells : /\ ~In(e, commandQueue[s]) /\ ~In(e, input[s])
                              /\ executing[s] # e /\ evaluating[s] # e
<1>1. result[e] = "none" /\ e # None
  BY ShellAssumption DEF CommandInv, Queued
<1>2. \A s \in Shells : executing[s] # e /\ ~In(e, commandQueue[s])
  BY <1>1 DEF CommandInv, Queued
<1>3. e \notin begun
  BY <1>1, <1>2 DEF CommandInv, Evaluated
<1>4. \A s \in Shells : ~In(e, input[s]) /\ evaluating[s] # e
  BY <1>1, <1>2, <1>3 DEF CommandInv, Sent, Evaluated, Awaited
<1>. QED BY <1>2, <1>3, <1>4

\* Such a call goes on, perhaps to wait in the queue of its shell.
LEMMA CallStep ==
  ASSUME Typed, CommandInv, NEW e \in Execs, pc[e] \in {"idle", "making", "found", "sending"},
         NEW l, Goto(e, l), UNCHANGED <<executing, input, evaluating, statusFile, begun, finished>>,
         UNCHANGED <<writing, exited>>,
         \A f \in Execs \ {e} : shellOf'[f] = shellOf[f] /\ result'[f] = result[f],
         result'[e] # "completed" /\ (l # "done" => result'[e] = "none"),
         \A s \in Shells : Distinct(commandQueue'[s]),
         \A s \in Shells, f \in Execs : In(f, commandQueue'[s]) =>
           In(f, commandQueue[s]) \/ (f = e /\ l = "waiting" /\ s = shellOf'[e])
  PROVE  CommandInv'
<1>1. /\ e \notin begun
      /\ \A s \in Shells : /\ ~In(e, commandQueue[s]) /\ ~In(e, input[s])
                           /\ executing[s] # e /\ evaluating[s] # e
  BY NotSent
<1>2. pc'[e] = l /\ \A f \in Execs \ {e} : pc'[f] = pc[f]
  BY DEF Goto, Typed, TypeOK
<1>3. \A s \in Shells : executing[s] \in Execs \cup {None}
  BY DEF Typed, TypeOK
<1>4. Queued'
  <2>1. \A f \in Execs : pc'[f] # "done" => result'[f] = "none"
    BY <1>2 DEF CommandInv, Queued
  <2>2. \A s \in Shells : executing'[s] # None =>
          pc'[executing'[s]] = "waiting" /\ shellOf'[executing'[s]] = s
    BY <1>1, <1>2, <1>3 DEF CommandInv, Queued
  <2>3. ASSUME NEW s \in Shells, NEW f \in Execs, In(f, commandQueue'[s])
        PROVE  pc'[f] = "waiting" /\ shellOf'[f] = s /\ executing'[s] # f
    <3>1. CASE f = e
      BY <1>1, <1>2, <2>3, <3>1
    <3>2. CASE f # e
      BY <1>2, <2>3, <3>2 DEF CommandInv, Queued
    <3>. QED BY <3>1, <3>2
  <2>. QED BY <2>1, <2>2, <2>3 DEF CommandInv, Queued
<1>5. Sent'
  <2>1. ASSUME NEW s \in Shells, NEW f \in Execs, In(f, input[s])
        PROVE  shellOf'[f] = s /\ f \notin begun /\ (executing[s] = f \/ result'[f] = "interrupted")
    BY <1>1, <2>1 DEF CommandInv, Sent, Awaited
  <2>. QED BY <2>1 DEF CommandInv, Sent, Awaited
<1>6. Evaluated'
  <2>1. \A f \in begun : f \in Execs \ {e}
    BY <1>1 DEF Typed, TypeOK
  <2>2. \A f \in begun : \/ result'[f] \in {"completed", "interrupted", "unwritten"}
                         \/ shellOf'[f] \in Shells /\ executing[shellOf'[f]] = f
    BY <2>1 DEF CommandInv, Evaluated
  <2>3. \A s \in Shells, f \in Execs : evaluating[s] = f =>
          shellOf'[f] = s /\ f \in begun \ finished /\ (executing[s] = f \/ result'[f] = "interrupted")
    BY <1>1 DEF CommandInv, Evaluated, Awaited
  <2>4. \A f \in Execs : result'[f] = "completed" => f \in finished
    BY DEF CommandInv, Evaluated
  <2>. QED BY <2>2, <2>3, <2>4 DEF CommandInv, Evaluated, Awaited
<1>. QED BY <1>4, <1>5, <1>6 DEF CommandInv, Dead

\* The calls of the bash tool.
LEMMA CallCommand ==
  ASSUME Typed, CommandInv, NEW e \in Execs, GetPersistentShell(e) \/ Call(e)
  PROVE  CommandInv'
<1>0. /\ pc[e] \in {"idle", "making", "found", "sending"} => result[e] = "none"
      /\ \A s \in Shells : Distinct(commandQueue[s])
  BY DEF CommandInv, Queued
<1>1. CASE GetPersistentShell(e)
  <2>1. PICK l \in {"making", "found"} : Goto(e, l)
    BY <1>1 DEF GetPersistentShell, Make
  <2>2. /\ pc[e] = "idle" /\ UNCHANGED <<executing, writing, exited, commandQueue, bash, result>>
        /\ \A f \in Execs \ {e} : shellOf'[f] = shellOf[f]
    BY <1>1 DEF GetPersistentShell, shells, Typed, TypeOK
  <2>. QED BY <1>0, <2>1, <2>2, CallStep DEF bash
<1>2. CASE NewPersistentShell(e)
  <2>1. PICK l \in {"found"} : Goto(e, l)
    BY <1>2 DEF NewPersistentShell
  <2>2. /\ pc[e] = "making" /\ UNCHANGED <<executing, writing, exited, commandQueue, result>>
        /\ UNCHANGED <<input, evaluating, statusFile, begun, finished>>
        /\ \A f \in Execs \ {e} : shellOf'[f] = shellOf[f]
    BY <1>2 DEF NewPersistentShell, Typed, TypeOK
  <2>. QED BY <1>0, <2>1, <2>2, CallStep DEF bash
<1>3. CASE StartFails(e)
  <2>1. /\ pc[e] = "making" /\ Goto(e, "done")
        /\ UNCHANGED <<executing, writing, exited, commandQueue, bash, shellOf>>
        /\ result' = [result EXCEPT ![e] = "panicked"]
    BY <1>3 DEF StartFails, Return
  <2>2. result'[e] = "panicked" /\ \A f \in Execs \ {e} : result'[f] = result[f]
    BY <2>1 DEF Typed, TypeOK
  <2>. QED BY <1>0, <2>1, <2>2, CallStep DEF bash
<1>4. CASE CheckAlive(e)
  <2>1. pc[e] = "found" /\ UNCHANGED <<executing, writing, exited, commandQueue, bash, shellOf>>
    BY <1>4 DEF CheckAlive, shells
  <2>2. CASE Goto(e, "sending") /\ UNCHANGED result
    BY <1>0, <2>1, <2>2, CallStep DEF bash
  <2>3. CASE Return(e, "dead")
    <3>1. /\ Goto(e, "done")
          /\ result'[e] = "dead" /\ \A f \in Execs \ {e} : result'[f] = result[f]
      BY <2>3 DEF Return, Typed, TypeOK
    <3>. QED BY <1>0, <2>1, <3>1, CallStep DEF bash
  <2>. QED BY <1>4, <2>2, <2>3 DEF CheckAlive
<1>5. CASE Send(e)
  <2> DEFINE s == shellOf[e]
  <2>1. pc[e] = "sending" /\ UNCHANGED <<executing, writing, exited, bash, shellOf>> /\ s \in Shells
    BY <1>5 DEF Send, Typed, Given
  <2>2. CASE Return(e, "panicked") /\ UNCHANGED commandQueue
    <3>1. /\ Goto(e, "done")
          /\ result'[e] = "panicked" /\ \A f \in Execs \ {e} : result'[f] = result[f]
      BY <2>2 DEF Return, Typed, TypeOK
    <3>. QED BY <1>0, <2>1, <2>2, <3>1, CallStep DEF bash
  <2>3. CASE /\ commandQueue' = [commandQueue EXCEPT ![s] = Append(@, e)]
             /\ Goto(e, "waiting") /\ UNCHANGED result
    <3>1. commandQueue[s] \in Seq(Execs) /\ Distinct(commandQueue[s]) /\ ~In(e, commandQueue[s])
      BY <1>0, <2>1, NotSent DEF Typed, TypeOK
    <3>2. /\ Distinct(Append(commandQueue[s], e))
          /\ \A f : In(f, Append(commandQueue[s], e)) <=> In(f, commandQueue[s]) \/ f = e
      BY <3>1, AppendOf
    <3>3. /\ commandQueue'[s] = Append(commandQueue[s], e)
          /\ \A t \in Shells \ {s} : commandQueue'[t] = commandQueue[t]
      BY <2>1, <2>3 DEF Typed, TypeOK
    <3>4. /\ \A t \in Shells : Distinct(commandQueue'[t])
          /\ \A t \in Shells, f \in Execs : In(f, commandQueue'[t]) =>
               In(f, commandQueue[t]) \/ (f = e /\ t = shellOf'[e])
      BY <1>0, <2>1, <3>2, <3>3
    <3>. QED BY <1>0, <2>1, <2>3, <3>4, CallStep DEF bash
  <2>. QED BY <1>5, <2>2, <2>3 DEF Send
<1>. QED BY <1>1, <1>2, <1>3, <1>4, <1>5 DEF Call


\* Where nothing of a command changes.
LEMMA CommandKept ==
  ASSUME CommandInv, UNCHANGED <<commandQueue, executing, exited, bash, callers>>,
         writing' \subseteq writing
  PROVE  CommandInv'
BY DEF CommandInv, Queued, Sent, Evaluated, Dead, Awaited, bash, callers

\* The next command is written, or refused.
LEMMA TakeCommandKept ==
  ASSUME Typed, CommandInv, NEW s \in Shells, TakeCommand(s)
  PROVE  CommandInv'
<1>1. /\ commandQueue[s] \in Seq(Execs) /\ commandQueue[s] # <<>> /\ Distinct(commandQueue[s])
      /\ executing[s] = None
  BY DEF TakeCommand, Free, Typed, TypeOK, CommandInv, Queued
<1>0. PICK e \in Execs : e = Head(commandQueue[s])
  BY <1>1, QueueTyped
<1>2. e # None
  BY ShellAssumption
<1>3. /\ In(e, commandQueue[s]) /\ Distinct(Tail(commandQueue[s]))
      /\ \A f : In(f, Tail(commandQueue[s])) <=> In(f, commandQueue[s]) /\ f # e
  BY <1>0, <1>1, TailOf
<1>4. commandQueue' = [commandQueue EXCEPT ![s] = Tail(commandQueue[s])]
      /\ UNCHANGED <<evaluating, statusFile, begun, finished, shellOf>>
  BY DEF TakeCommand
<1>5. /\ pc[e] = "waiting" /\ shellOf[e] = s /\ result[e] = "none"
      /\ \A t \in Shells : executing[t] # e /\ (t # s => ~In(e, commandQueue[t]))
  BY <1>1, <1>2, <1>3 DEF CommandInv, Queued
<1>6. e \notin begun /\ \A t \in Shells : ~In(e, input[t]) /\ evaluating[t] # e
  BY <1>2, <1>5 DEF CommandInv, Sent, Evaluated, Awaited
<1>7. /\ \A t \in Shells : Distinct(commandQueue'[t]) /\ ~In(e, commandQueue'[t])
      /\ \A t \in Shells, f \in Execs : In(f, commandQueue'[t]) => In(f, commandQueue[t])
  <2>1. commandQueue'[s] = Tail(commandQueue[s]) /\ \A t \in Shells \ {s} : commandQueue'[t] = commandQueue[t]
    BY <1>4 DEF Typed, TypeOK
  <2>. QED BY <1>3, <1>5, <2>1 DEF CommandInv, Queued
<1>8. CASE isAlive[s] /\ s \notin exited
  <2>1. /\ executing' = [executing EXCEPT ![s] = e] /\ input' = [input EXCEPT ![s] = Append(input[s], e)]
        /\ writing' = writing \cup {s} /\ UNCHANGED <<pc, result, exited>>
    BY <1>0, <1>8 DEF TakeCommand
  <2>2. executing'[s] = e /\ \A t \in Shells \ {s} : executing'[t] = executing[t]
    BY <2>1 DEF Typed, TypeOK
  <2>3. Queued'
    <3>1. \A t \in Shells : executing'[t] # None =>
            pc[executing'[t]] = "waiting" /\ shellOf[executing'[t]] = t
      BY <1>5, <2>2 DEF CommandInv, Queued
    <3>2. \A t \in Shells, f \in Execs : In(f, commandQueue'[t]) =>
            pc[f] = "waiting" /\ shellOf[f] = t /\ executing'[t] # f
      BY <1>7, <2>2 DEF CommandInv, Queued
    <3>3. \A t \in writing' : executing'[t] # None
      BY <1>2, <2>1, <2>2 DEF CommandInv, Queued, Typed, TypeOK
    <3>. QED BY <1>4, <1>7, <2>1, <3>1, <3>2, <3>3 DEF CommandInv, Queued
  <2>4. \A t \in Shells, f \in Execs : Awaited(t, f) => Awaited(t, f)'
    BY <1>1, <2>1, <2>2, ShellAssumption DEF Awaited
  <2>5. Sent'
    <3>1. input[s] \in Seq(Execs) /\ Distinct(input[s])
      BY DEF Typed, TypeOK, CommandInv, Sent
    <3>2. Distinct(Append(input[s], e)) /\ \A f : In(f, Append(input[s], e)) <=> In(f, input[s]) \/ f = e
      BY <1>2, <1>6, <3>1, AppendOf
    <3>3. input'[s] = Append(input[s], e) /\ \A t \in Shells \ {s} : input'[t] = input[t]
      BY <2>1 DEF Typed, TypeOK
    <3>4. Awaited(s, e)'
      BY <2>2 DEF Awaited
    <3>5. \A t \in Shells, f \in Execs : In(f, input'[t]) => In(f, input[t]) \/ (f = e /\ t = s)
      BY <3>2, <3>3
    <3>6. \A t \in Shells, f \in Execs : In(f, input'[t]) =>
            shellOf[f] = t /\ f \notin begun /\ Awaited(t, f)'
      BY <1>5, <1>6, <2>4, <3>4, <3>5 DEF CommandInv, Sent
    <3>7. \A t \in Shells : Distinct(input'[t])
      BY <3>2, <3>3 DEF CommandInv, Sent
    <3>. QED BY <1>4, <3>6, <3>7 DEF Sent
  <2>6. Evaluated'
    <3>1. \A f \in begun : \/ result[f] \in {"completed", "interrupted", "unwritten"}
                           \/ shellOf[f] \in Shells /\ executing'[shellOf[f]] = f
      BY <1>1, <1>2, <2>2, ShellAssumption DEF CommandInv, Evaluated, Typed, TypeOK
    <3>2. \A t \in Shells, f \in Execs : evaluating[t] = f =>
            shellOf[f] = t /\ f \in begun \ finished /\ Awaited(t, f)'
      BY <2>4 DEF CommandInv, Evaluated
    <3>. QED BY <1>4, <2>1, <3>1, <3>2 DEF CommandInv, Evaluated
  <2>7. Dead'
    <3>1. \A t \in exited : input'[t] = input[t]
      BY <1>8, <2>1 DEF Typed, TypeOK
    <3>. QED BY <1>4, <2>1, <3>1 DEF CommandInv, Dead
  <2>. QED BY <2>3, <2>5, <2>6, <2>7 DEF CommandInv
<1>9. CASE ~(isAlive[s] /\ s \notin exited)
  <2>0. UNCHANGED <<executing, writing, exited, input>>
    BY <1>9 DEF TakeCommand
  <2>1. PICK r \in {"dead", "unwritten"} : Return(e, r)
    BY <1>0, <1>9 DEF TakeCommand
  <2>2. /\ pc'[e] = "done" /\ result'[e] # "completed"
        /\ \A f \in Execs \ {e} : pc'[f] = pc[f] /\ result'[f] = result[f]
    BY <2>1, Zenon DEF Return, Goto, Typed, TypeOK
  <2>3. \A t \in Shells : executing[t] \in Execs \cup {None}
    BY DEF Typed, TypeOK
  <2>4. Queued'
    <3>1. \A f \in Execs : pc'[f] # "done" => result'[f] = "none"
      BY <2>2 DEF CommandInv, Queued
    <3>2. \A t \in Shells : executing[t] # None =>
            pc'[executing[t]] = "waiting" /\ shellOf[executing[t]] = t
      BY <1>5, <2>2, <2>3 DEF CommandInv, Queued
    <3>3. \A t \in Shells, f \in Execs : In(f, commandQueue'[t]) =>
            pc'[f] = "waiting" /\ shellOf[f] = t /\ executing[t] # f
      BY <1>7, <2>2 DEF CommandInv, Queued
    <3>. QED BY <1>4, <1>7, <2>0, <3>1, <3>2, <3>3 DEF CommandInv, Queued
  <2>5. Sent'
    <3>1. \A t \in Shells, f \in Execs : In(f, input[t]) =>
            shellOf[f] = t /\ f \notin begun /\ (executing[t] = f \/ result'[f] = "interrupted")
      BY <1>6, <2>2 DEF CommandInv, Sent, Awaited
    <3>. QED BY <1>4, <2>0, <3>1 DEF CommandInv, Sent, Awaited
  <2>6. Evaluated'
    <3>1. \A f \in begun : f \in Execs \ {e}
      BY <1>6 DEF Typed, TypeOK
    <3>2. \A f \in begun : \/ result'[f] \in {"completed", "interrupted", "unwritten"}
                           \/ shellOf[f] \in Shells /\ executing[shellOf[f]] = f
      BY <2>2, <3>1 DEF CommandInv, Evaluated
    <3>3. \A t \in Shells, f \in Execs : evaluating[t] = f =>
            shellOf[f] = t /\ f \in begun \ finished /\ (executing[t] = f \/ result'[f] = "interrupted")
      BY <1>6, <2>2 DEF CommandInv, Evaluated, Awaited
    <3>4. \A f \in Execs : result'[f] = "completed" => f \in finished
      BY <2>2 DEF CommandInv, Evaluated
    <3>. QED BY <1>4, <2>0, <3>2, <3>3, <3>4 DEF CommandInv, Evaluated, Awaited
  <2>. QED BY <1>4, <2>0, <2>4, <2>5, <2>6 DEF CommandInv, Dead
<1>. QED BY <1>8, <1>9

\* execCommand ends, for a command that has, gives it up, or could not write it.
LEMMA DeliverKept ==
  ASSUME Typed, CommandInv, NEW s \in Shells,
         CommandCompleted(s) \/ CommandInterrupted(s) \/ WriteFails(s)
  PROVE  CommandInv'
<1>0. executing[s] \in Execs /\ executing[s] # None
  BY DEF CommandCompleted, CommandInterrupted, WriteFails, Waiting, CommandInv, Queued, Typed, TypeOK
<1>2. PICK e \in Execs : e = executing[s] /\ e # None
  BY <1>0
<1>1. PICK r \in {"completed", "interrupted", "unwritten"} :
        /\ (Deliver(s, r) /\ s \notin writing) \/ (WriteFails(s) /\ r = "unwritten")
        /\ r = "completed" => statusFile[e] # None
        /\ r = "unwritten" => s \in exited
  <2>1. CASE CommandCompleted(s)
    BY <1>2, <2>1 DEF CommandCompleted, HasStatus, Waiting
  <2>2. CASE CommandInterrupted(s)
    BY <2>2 DEF CommandInterrupted, Waiting
  <2>3. CASE WriteFails(s)
    BY <2>3 DEF WriteFails
  <2>. QED BY <2>1, <2>2, <2>3
<1>3. /\ statusFile' = [statusFile EXCEPT ![e] = None]
      /\ executing' = [executing EXCEPT ![s] = None]
      /\ Return(e, r)
      /\ UNCHANGED <<commandQueue, exited, input, evaluating, begun, finished, shellOf>>
      /\ writing' \subseteq writing \ {s}
  <2>2. CASE WriteFails(s) /\ r = "unwritten"
    BY <1>2, <2>2 DEF WriteFails
  <2>3. CASE Deliver(s, r) /\ s \notin writing
    BY <1>2, <2>3 DEF Deliver
  <2>. QED BY <1>1, <2>2, <2>3
<1>4. /\ pc'[e] = "done" /\ result'[e] = r
      /\ \A f \in Execs \ {e} : pc'[f] = pc[f] /\ result'[f] = result[f]
  BY <1>2, <1>3 DEF Return, Goto, Typed, TypeOK
<1>5. executing'[s] = None /\ \A t \in Shells \ {s} : executing'[t] = executing[t]
  BY <1>3 DEF Typed, TypeOK
<1>6. \A t \in Shells : executing[t] \in Execs \cup {None}
  BY DEF Typed, TypeOK
<1>7. /\ pc[e] = "waiting" /\ shellOf[e] = s /\ result[e] = "none"
      /\ \A t \in Shells : ~In(e, commandQueue[t]) /\ (t # s => executing[t] # e)
  BY <1>1, <1>2 DEF CommandInv, Queued
<1>8. r = "completed" => e \in finished
  BY <1>1, <1>2 DEF CommandInv, Evaluated
<1>9. statusFile'[e] = None /\ \A f \in Execs \ {e} : statusFile'[f] = statusFile[f]
  BY <1>2, <1>3 DEF Typed, TypeOK
<1>10. Queued'
  <2>1. \A f \in Execs : pc'[f] # "done" => result'[f] = "none"
    BY <1>4 DEF CommandInv, Queued
  <2>2. \A t \in Shells : executing'[t] # None =>
          pc'[executing'[t]] = "waiting" /\ shellOf[executing'[t]] = t
    BY <1>4, <1>5, <1>6, <1>7 DEF CommandInv, Queued
  <2>3. \A t \in Shells, f \in Execs : In(f, commandQueue[t]) =>
          pc'[f] = "waiting" /\ shellOf[f] = t /\ executing'[t] # f
    BY <1>4, <1>5, <1>7, ShellAssumption DEF CommandInv, Queued
  <2>. QED BY <1>3, <1>5, <2>1, <2>2, <2>3 DEF CommandInv, Queued
<1>14. r = "unwritten" => \A t \in Shells : ~In(e, input[t]) /\ evaluating[t] # e
  BY <1>1, <1>2, <1>7 DEF CommandInv, Dead, Sent, Evaluated
<1>11. ASSUME NEW t \in Shells, NEW f \in Execs, Awaited(t, f),
              f = e => e \notin finished /\ r # "unwritten"
       PROVE  Awaited(t, f)'
  <2>1. CASE f = e
    BY <1>4, <1>8, <1>11, <2>1 DEF Awaited
  <2>2. CASE f # e
    BY <1>4, <1>5, <1>11, <2>2, <1>2 DEF Awaited
  <2>. QED BY <2>1, <2>2
<1>12. Sent'
  <2>1. \A t \in Shells, f \in Execs : In(f, input[t]) =>
          shellOf[f] = t /\ f \notin begun /\ Awaited(t, f)'
    BY <1>11, <1>14 DEF CommandInv, Sent, Evaluated
  <2>. QED BY <1>3, <2>1 DEF CommandInv, Sent
<1>13. Evaluated'
  <2>1. \A f \in begun : \/ result'[f] \in {"completed", "interrupted", "unwritten"}
                         \/ shellOf[f] \in Shells /\ executing'[shellOf[f]] = f
    <3>1. ASSUME NEW f \in begun
          PROVE  \/ result'[f] \in {"completed", "interrupted", "unwritten"}
                 \/ shellOf[f] \in Shells /\ executing'[shellOf[f]] = f
      <4>1. CASE f = e
        BY <1>4, <4>1
      <4>2. CASE f # e
        BY <1>4, <1>5, <4>2, <1>2 DEF CommandInv, Evaluated, Typed, TypeOK
      <4>. QED BY <4>1, <4>2
    <3>. QED BY <3>1
  <2>2. \A t \in Shells, f \in Execs : evaluating[t] = f =>
          shellOf[f] = t /\ f \in begun \ finished /\ Awaited(t, f)'
    BY <1>11, <1>14 DEF CommandInv, Evaluated
  <2>3. \A f \in Execs : statusFile'[f] # None => f \in finished
    BY <1>9 DEF CommandInv, Evaluated
  <2>4. \A f \in Execs : result'[f] = "completed" => f \in finished
    BY <1>4, <1>8 DEF CommandInv, Evaluated
  <2>. QED BY <1>3, <2>1, <2>2, <2>3, <2>4 DEF CommandInv, Evaluated
<1>. QED BY <1>3, <1>10, <1>12, <1>13 DEF CommandInv, Dead

\* bash begins what it was sent first.
LEMMA BeginKept ==
  ASSUME Typed, CommandInv, NEW s \in Shells, BeginCommand(s)
  PROVE  CommandInv'
<1>1. input[s] \in Seq(Execs) /\ input[s] # <<>> /\ Distinct(input[s])
  BY DEF BeginCommand, Typed, TypeOK, CommandInv, Sent
<1>2. PICK e \in Execs : e = Head(input[s])
  BY <1>1, QueueTyped
<1>3. /\ In(e, input[s]) /\ Distinct(Tail(input[s]))
      /\ \A f : In(f, Tail(input[s])) <=> In(f, input[s]) /\ f # e
  BY <1>1, <1>2, TailOf
<1>4. /\ evaluating' = [evaluating EXCEPT ![s] = e]
      /\ input' = [input EXCEPT ![s] = Tail(input[s])]
      /\ begun' = begun \cup {e}
      /\ UNCHANGED <<commandQueue, executing, writing, exited, pc, shellOf, result, statusFile, finished>>
      /\ s \notin exited
  BY <1>2 DEF BeginCommand, Running, shells, callers
<1>5. shellOf[e] = s /\ e \notin begun /\ Awaited(s, e)
  BY <1>3 DEF CommandInv, Sent
<1>6. /\ input'[s] = Tail(input[s]) /\ \A t \in Shells \ {s} : input'[t] = input[t]
      /\ evaluating'[s] = e /\ \A t \in Shells \ {s} : evaluating'[t] = evaluating[t]
  BY <1>4 DEF Typed, TypeOK
<1>7. Queued'
  BY <1>4 DEF CommandInv, Queued
<1>8. Sent'
  <2>1. \A t \in Shells : Distinct(input'[t])
    BY <1>3, <1>6 DEF CommandInv, Sent
  <2>2. \A t \in Shells, f \in Execs : In(f, input'[t]) => In(f, input[t]) /\ f # e
    <3>1. \A f \in Execs : In(f, input'[s]) => In(f, input[s]) /\ f # e
      BY <1>3, <1>6
    <3>2. \A t \in Shells \ {s}, f \in Execs : In(f, input'[t]) => In(f, input[t]) /\ f # e
      BY <1>5, <1>6 DEF CommandInv, Sent
    <3>. QED BY <3>1, <3>2
  <2>. QED BY <1>4, <2>1, <2>2 DEF CommandInv, Sent, Awaited
<1>9. Evaluated'
  <2>1. e \notin finished /\ finished' \subseteq begun'
    BY <1>4, <1>5 DEF CommandInv, Evaluated
  <2>2. \A f \in begun' : \/ result[f] \in {"completed", "interrupted", "unwritten"}
                          \/ shellOf[f] \in Shells /\ executing[shellOf[f]] = f
    BY <1>4, <1>5 DEF CommandInv, Evaluated, Awaited
  <2>3. \A t \in Shells, f \in Execs : evaluating'[t] = f =>
          shellOf[f] = t /\ f \in begun' \ finished /\ Awaited(t, f)
    BY <1>4, <1>5, <1>6, <2>1 DEF CommandInv, Evaluated
  <2>. QED BY <1>4, <2>1, <2>2, <2>3 DEF CommandInv, Evaluated, Awaited
<1>10. Dead'
  BY <1>4, <1>6 DEF CommandInv, Dead, Typed, TypeOK
<1>. QED BY <1>7, <1>8, <1>9, <1>10 DEF CommandInv

\* The command ends and its files appear.
LEMMA FinishKept ==
  ASSUME Typed, CommandInv, NEW s \in Shells, NEW d \in Dirs, FinishCommand(s, d)
  PROVE  CommandInv'
<1>1. PICK e \in Execs : e = evaluating[s] /\ e # None
  BY DEF FinishCommand, Typed, TypeOK
<1>2. /\ statusFile' = [statusFile EXCEPT ![e] = d]
      /\ finished' = finished \cup {e}
      /\ evaluating' = [evaluating EXCEPT ![s] = None]
      /\ UNCHANGED <<commandQueue, executing, writing, exited, pc, shellOf, result, input, begun>>
  BY <1>1 DEF FinishCommand, shells, callers
<1>3. shellOf[e] = s /\ e \in begun
  BY <1>1 DEF CommandInv, Evaluated
<1>4. /\ evaluating'[s] = None /\ \A t \in Shells \ {s} : evaluating'[t] = evaluating[t]
      /\ \A f \in Execs \ {e} : statusFile'[f] = statusFile[f]
  BY <1>2 DEF Typed, TypeOK
<1>5. Queued' /\ Sent'
  BY <1>2 DEF CommandInv, Queued, Sent, Awaited
<1>6. Evaluated'
  <2>1. \A t \in Shells, f \in Execs : evaluating'[t] = f =>
          shellOf[f] = t /\ f \in begun \ finished' /\ Awaited(t, f)
    BY <1>2, <1>3, <1>4, ShellAssumption DEF CommandInv, Evaluated
  <2>2. \A f \in Execs : statusFile'[f] # None => f \in finished'
    BY <1>2, <1>4 DEF CommandInv, Evaluated
  <2>. QED BY <1>2, <1>3, <2>1, <2>2 DEF CommandInv, Evaluated, Awaited
<1>7. Dead'
  BY <1>2, <1>4 DEF CommandInv, Dead, Typed, TypeOK
<1>. QED BY <1>5, <1>6, <1>7 DEF CommandInv

\* bash exits, with what it had not evaluated.
LEMMA ExitKept ==
  ASSUME Typed, CommandInv, NEW s \in Shells, Exit(s)
  PROVE  CommandInv'
<1>1. /\ evaluating' = [evaluating EXCEPT ![s] = None]
      /\ input' = [input EXCEPT ![s] = <<>>]
      /\ UNCHANGED <<commandQueue, executing, writing, pc, shellOf, result, statusFile, begun, finished>>
      /\ exited' = exited \cup {s}
  BY DEF Exit, callers
<1>2. /\ evaluating'[s] = None /\ \A t \in Shells \ {s} : evaluating'[t] = evaluating[t]
      /\ input'[s] = <<>> /\ \A t \in Shells \ {s} : input'[t] = input[t]
  BY <1>1 DEF Typed, TypeOK
<1>3. Distinct(<<>>) /\ \A f : ~In(f, <<>>)
  BY DEF Distinct, In
<1>4. Queued'
  BY <1>1 DEF CommandInv, Queued
<1>5. Sent'
  <2>1. \A t \in Shells : Distinct(input'[t]) /\ \A f \in Execs : In(f, input'[t]) => In(f, input[t])
    BY <1>2, <1>3 DEF CommandInv, Sent
  <2>. QED BY <1>1, <2>1 DEF CommandInv, Sent, Awaited
<1>6. Evaluated'
  <2>1. \A t \in Shells, f \in Execs : evaluating'[t] = f =>
          shellOf[f] = t /\ f \in begun \ finished /\ Awaited(t, f)
    BY <1>2, ShellAssumption DEF CommandInv, Evaluated
  <2>. QED BY <1>1, <2>1 DEF CommandInv, Evaluated, Awaited
<1>7. Dead'
  BY <1>1, <1>2, <1>3 DEF CommandInv, Dead, Typed, TypeOK
<1>. QED BY <1>4, <1>5, <1>6, <1>7 DEF CommandInv

\* Every step keeps the invariant.
LEMMA NextCommand == Typed /\ CommandInv /\ [Next]_vars => CommandInv'
<1> SUFFICES ASSUME Typed, CommandInv, [Next]_vars PROVE CommandInv'
  OBVIOUS
<1>1. CASE \E e \in Execs : GetPersistentShell(e) \/ Call(e)
  BY <1>1, CallCommand
<1>2. ASSUME NEW s \in Shells, Process(s) \/ WriteFails(s) PROVE CommandInv'
  BY <1>2, TakeCommandKept, DeliverKept DEF Process
<1>3. ASSUME NEW s \in Shells, Written(s) \/ Reap(s) \/ CloseQueue(s) PROVE CommandInv'
  BY <1>3, CommandKept DEF Written, Reap, CloseQueue
<1>4. ASSUME NEW s \in Shells, BeginCommand(s) \/ Exit(s) \/ \E d \in Dirs : FinishCommand(s, d)
      PROVE  CommandInv'
  BY <1>4, BeginKept, ExitKept, FinishKept
<1>5. CASE UNCHANGED vars
  BY <1>5, CommandKept DEF vars, shells
<1>. QED BY <1>1, <1>2, <1>3, <1>4, <1>5 DEF Next, WriteReturns

\* The invariant of the commands.
THEOREM CommandInvariant == Spec => [](Typed /\ CommandInv)
<1>1. Typed /\ CommandInv /\ [Next]_vars => (Typed /\ CommandInv)'
  BY NextTyped, NextCommand
<1>. QED BY <1>1, InitTyped, InitCommand, PTL DEF Spec

\* What the model is told about a command is true (Exec, processCommands and
\* execCommand of shell.go): one reported complete ran to its end, one refused
\* never ran.
THEOREM ResultsTrue == Spec => []ResultsTruthful
BY CommandInvariant, InvGivesResults, PTL

\* bash works for the call that waits, or for one that was given up as
\* interrupted (execCommand of shell.go).
THEOREM WorksForSomebody == Spec => []OnlyAwaitedOrAbandoned
BY CommandInvariant, InvGivesResults, PTL

---------------------------------------------------------------------------
(* The directory *)

\* A result of the shell's commands was given up.
GivenUp(s) == \E e \in Execs : shellOf[e] = s /\ result[e] \in {"interrupted", "unwritten"}

\* The successor would start where bash is, or will once the result that is on its
\* way has been read.
Follows(s) ==
  LET e == executing[s] IN
  IF e # None /\ statusFile[e] # None THEN statusFile[e] = dir[s] ELSE cwd[s] = dir[s]

\* Calls are given shells that have been started.
Started ==
  /\ shellInstance # None => shellInstance <= started
  /\ \A e \in Execs : shellOf[e] # None => shellOf[e] <= started

DirectoryInv == Started /\ \A s \in Shells : GivenUp(s) \/ Follows(s)

\* Every shell would start at home.
LEMMA InitDirectory == Init => DirectoryInv
BY DEF Init, DirectoryInv, Started, GivenUp, Follows

\* Where neither results nor directories change.
LEMMA DirectorySame ==
  ASSUME DirectoryInv,
         UNCHANGED <<shellInstance, started, executing, cwd, dir, statusFile, shellOf, result>>
  PROVE  DirectoryInv'
BY DEF DirectoryInv, Started, GivenUp, Follows

\* A call that gets no result of a command changes nothing for the shells.
LEMMA DirectoryResult ==
  ASSUME Typed, DirectoryInv, NEW e \in Execs, result[e] = "none",
         UNCHANGED <<started, executing, cwd, dir, statusFile>>,
         shellInstance' \in {shellInstance, None},
         \A f \in Execs \ {e} : shellOf'[f] = shellOf[f] /\ result'[f] = result[f],
         shellOf'[e] \in {shellOf[e], shellInstance, None}
  PROVE  DirectoryInv'
<1>1. Started'
  BY DEF DirectoryInv, Started
<1>2. ASSUME NEW s \in Shells PROVE GivenUp(s)' \/ Follows(s)'
  <2>1. GivenUp(s) => GivenUp(s)'
    BY DEF GivenUp
  <2>2. Follows(s) => Follows(s)'
    BY DEF Follows
  <2> QED
    BY <2>1, <2>2 DEF DirectoryInv
<1> QED
  BY <1>1, <1>2 DEF DirectoryInv

\* The calls of the bash tool; a new shell starts where its predecessor would.
LEMMA DirectoryCall ==
  ASSUME Typed, CommandInv, DirectoryInv, NEW e \in Execs, GetPersistentShell(e) \/ Call(e)
  PROVE  DirectoryInv'
<1>0. pc[e] # "done" => result[e] = "none"
  BY DEF CommandInv, Queued
<1>1. CASE GetPersistentShell(e)
  <2>1. /\ pc[e] = "idle" /\ UNCHANGED <<shells, bash, result>>
        /\ shellOf' = shellOf \/ shellOf' = [shellOf EXCEPT ![e] = shellInstance]
    BY <1>1 DEF GetPersistentShell, Make
  <2> QED
    BY <1>0, <2>1, DirectoryResult DEF shells, bash, Typed, TypeOK
<1>2. CASE StartFails(e) \/ CheckAlive(e) \/ Send(e)
  <2>1. /\ pc[e] # "done" /\ UNCHANGED <<started, executing, cwd, bash, shellOf>>
        /\ shellInstance' \in {shellInstance, None}
        /\ result' = result \/ \E r \in Results : result' = [result EXCEPT ![e] = r]
    BY <1>2 DEF StartFails, CheckAlive, Send, Return, shells, Results
  <2>2. \A f \in Execs \ {e} : result'[f] = result[f]
    BY <2>1 DEF Typed, TypeOK
  <2> QED
    BY <1>0, <2>1, <2>2, DirectoryResult DEF bash
<1>3. CASE NewPersistentShell(e)
  <2> DEFINE n == started + 1
  <2>1. /\ pc[e] = "making" /\ n \in Shells /\ started' = n /\ shellInstance' = n
        /\ cwd' = [cwd EXCEPT ![n] = startDir[e]] /\ dir' = [dir EXCEPT ![n] = startDir[e]]
        /\ shellOf' = [shellOf EXCEPT ![e] = n]
        /\ UNCHANGED <<executing, statusFile, result>>
    BY <1>3 DEF NewPersistentShell
  <2>2. started \in Nat /\ started < n
    BY ShellNumbers DEF Typed, TypeOK
  <2>3. executing[n] = None
    <3> SUFFICES ASSUME executing[n] # None PROVE FALSE
      OBVIOUS
    <3>1. executing[n] \in Execs /\ shellOf[executing[n]] = n
      BY <2>1 DEF Typed, TypeOK, CommandInv, Queued
    <3>2. n <= started
      BY <2>1, <3>1, ShellNumbers DEF DirectoryInv, Started
    <3> HIDE DEF n
    <3> QED
      BY <2>1, <2>2, <3>2, ShellNumbers
  <2> HIDE DEF n
  <2>4. Started'
    <3>1. ASSUME NEW f \in Execs, shellOf'[f] # None PROVE shellOf'[f] <= n
      <4>1. CASE f = e
        BY <2>1, <2>2, <4>1, ShellNumbers DEF Typed, TypeOK
      <4>2. CASE f # e
        <5>1. shellOf'[f] = shellOf[f] /\ shellOf[f] \in Shells /\ shellOf[f] <= started
          BY <2>1, <3>1, <4>2 DEF Typed, TypeOK, DirectoryInv, Started
        <5>2. shellOf[f] \in Nat /\ n \in Nat
          BY <2>1, <5>1, ShellNumbers
        <5> QED
          BY <2>2, <5>1, <5>2
      <4> QED
        BY <4>1, <4>2
    <3>2. n <= n
      BY <2>1, ShellNumbers
    <3> QED
      BY <2>1, <3>1, <3>2 DEF Started
  <2>5. ASSUME NEW s \in Shells PROVE GivenUp(s)' \/ Follows(s)'
    <3>1. CASE s = n
      <4>1. cwd'[n] = startDir[e] /\ dir'[n] = startDir[e] /\ executing'[n] = None
        BY <2>1, <2>3 DEF Typed, TypeOK
      <4> QED
        BY <3>1, <4>1 DEF Follows
    <3>2. CASE s # n
      <4>1. cwd'[s] = cwd[s] /\ dir'[s] = dir[s] /\ executing'[s] = executing[s] /\ statusFile' = statusFile
        BY <2>1, <3>2 DEF Typed, TypeOK
      <4>2. Follows(s) => Follows(s)'
        BY <4>1 DEF Follows
      <4>3. GivenUp(s) => GivenUp(s)'
        <5>1. \A f \in Execs : result[f] \in {"interrupted", "unwritten"} => f # e
          BY <1>0, <2>1
        <5> QED
          BY <2>1, <5>1 DEF GivenUp, Typed, TypeOK
      <4> QED
        BY <4>2, <4>3 DEF DirectoryInv
    <3> QED
      BY <3>1, <3>2
  <2> QED
    BY <2>4, <2>5 DEF DirectoryInv
<1> QED
  BY <1>1, <1>2, <1>3 DEF Call

\* The next command has not ended.
LEMMA DirectoryTake ==
  ASSUME Typed, CommandInv, DirectoryInv, NEW s \in Shells, TakeCommand(s)
  PROVE  DirectoryInv'
<1>1. /\ commandQueue[s] \in Seq(Execs) /\ commandQueue[s] # <<>> /\ executing[s] = None
      /\ Distinct(commandQueue[s])
  BY DEF TakeCommand, Free, Typed, TypeOK, CommandInv, Queued
<1>2. PICK e \in Execs : e = Head(commandQueue[s])
  BY <1>1, QueueTyped
<1>3. In(e, commandQueue[s])
  BY <1>1, <1>2, TailOf
<1>4. pc[e] = "waiting" /\ shellOf[e] = s /\ result[e] = "none" /\ e # None
  BY <1>3, ShellAssumption DEF CommandInv, Queued
<1>5. statusFile[e] = None
  <2>1. e \notin begun
    BY <1>1, <1>4 DEF CommandInv, Evaluated
  <2> QED
    BY <2>1 DEF CommandInv, Evaluated
<1>6. UNCHANGED <<shellInstance, started, cwd, dir, statusFile, shellOf>>
  BY DEF TakeCommand
<1>7. CASE (\E r : Return(e, r)) /\ UNCHANGED executing
  <2>1. \A f \in Execs \ {e} : result'[f] = result[f]
    BY <1>7 DEF Return, Typed, TypeOK
  <2> QED
    BY <1>4, <1>6, <1>7, <2>1, DirectoryResult
<1>8. CASE executing' = [executing EXCEPT ![s] = e] /\ UNCHANGED result
  <2>1. executing'[s] = e /\ \A t \in Shells : t # s => executing'[t] = executing[t]
    BY <1>8 DEF Typed, TypeOK
  <2>2. Started'
    BY <1>6 DEF DirectoryInv, Started
  <2>3. ASSUME NEW t \in Shells PROVE GivenUp(t)' \/ Follows(t)'
    <3>1. GivenUp(t) => GivenUp(t)'
      BY <1>6, <1>8 DEF GivenUp
    <3>2. t # s /\ Follows(t) => Follows(t)'
      BY <1>6, <2>1 DEF Follows
    <3>3. Follows(s) => Follows(s)'
      BY <1>1, <1>5, <1>6, <2>1 DEF Follows
    <3> QED
      BY <3>1, <3>2, <3>3 DEF DirectoryInv
  <2> QED
    BY <2>2, <2>3 DEF DirectoryInv
<1> QED
  BY <1>2, <1>7, <1>8 DEF TakeCommand

\* A result is read with its directory, or given up.
LEMMA DirectoryDeliver ==
  ASSUME Typed, CommandInv, DirectoryInv, NEW s \in Shells,
         CommandCompleted(s) \/ CommandInterrupted(s) \/ WriteFails(s)
  PROVE  DirectoryInv'
<1> DEFINE e == executing[s]
<1>1. e \in Execs /\ e # None /\ shellOf[e] = s /\ result[e] = "none"
  BY DEF CommandCompleted, CommandInterrupted, WriteFails, Waiting, Typed, TypeOK, CommandInv, Queued
<1>2. PICK r : /\ Deliver(s, r) \/ (WriteFails(s) /\ r = "unwritten")
               /\ r \in {"interrupted", "unwritten"} \/ (Deliver(s, r) /\ statusFile[e] # None)
  BY DEF CommandCompleted, CommandInterrupted, HasStatus
<1>3. /\ \/ cwd' = cwd
         \/ statusFile[e] # None /\ cwd' = [cwd EXCEPT ![s] = statusFile[e]]
      /\ statusFile' = [statusFile EXCEPT ![e] = None]
      /\ executing' = [executing EXCEPT ![s] = None]
      /\ result' = [result EXCEPT ![e] = r]
      /\ UNCHANGED <<shellInstance, started, dir, shellOf>>
  BY <1>2 DEF Deliver, WriteFails, Return
<1> HIDE DEF e
<1>4. Started'
  BY <1>3 DEF DirectoryInv, Started
<1>5. result'[e] = r /\ \A f \in Execs : f # e => result'[f] = result[f] /\ statusFile'[f] = statusFile[f]
  BY <1>1, <1>3 DEF Typed, TypeOK
<1>6. ASSUME NEW t \in Shells, t # s PROVE GivenUp(t)' \/ Follows(t)'
  <2>1. executing'[t] = executing[t] /\ cwd'[t] = cwd[t]
    BY <1>3, <1>6 DEF Typed, TypeOK
  <2>2. executing[t] # e
    BY <1>1, <1>6 DEF CommandInv, Queued
  <2>3. executing[t] # None => statusFile'[executing[t]] = statusFile[executing[t]]
    BY <1>5, <2>2 DEF Typed, TypeOK
  <2>4. Follows(t) => Follows(t)'
    BY <1>3, <2>1, <2>3 DEF Follows
  <2>5. GivenUp(t) => GivenUp(t)'
    BY <1>1, <1>3, <1>5 DEF GivenUp
  <2> QED
    BY <2>4, <2>5 DEF DirectoryInv
<1>7. CASE r \in {"interrupted", "unwritten"}
  <2>1. GivenUp(s)'
    BY <1>1, <1>3, <1>5, <1>7 DEF GivenUp
  <2> QED
    BY <1>4, <1>6, <2>1 DEF DirectoryInv
<1>8. CASE Deliver(s, r) /\ statusFile[e] # None
  <2>1. executing'[s] = None /\ cwd'[s] = statusFile[e]
    BY <1>3, <1>8 DEF Deliver, Typed, TypeOK, e
  <2>2. Follows(s) => Follows(s)'
    BY <1>1, <1>3, <1>8, <2>1 DEF Follows, e
  <2>3. GivenUp(s) => GivenUp(s)'
    BY <1>1, <1>3, <1>5 DEF GivenUp
  <2>4. GivenUp(s)' \/ Follows(s)'
    BY <2>2, <2>3 DEF DirectoryInv
  <2> QED
    BY <1>4, <1>6, <2>4 DEF DirectoryInv
<1> QED
  BY <1>2, <1>7, <1>8

\* What ends is awaited, and its directory is on its way, or was given up.
LEMMA DirectoryFinish ==
  ASSUME Typed, CommandInv, DirectoryInv, NEW s \in Shells, NEW d \in Dirs, FinishCommand(s, d)
  PROVE  DirectoryInv'
<1> DEFINE e == evaluating[s]
<1>1. e \in Execs /\ e # None /\ shellOf[e] = s /\ Awaited(s, e)
  BY DEF FinishCommand, Typed, TypeOK, CommandInv, Evaluated
<1>2. /\ dir' = [dir EXCEPT ![s] = d] /\ statusFile' = [statusFile EXCEPT ![e] = d]
      /\ UNCHANGED <<shellInstance, started, executing, cwd, shellOf, result>>
  BY DEF FinishCommand, shells, callers
<1> HIDE DEF e
<1>3. /\ dir'[s] = d /\ statusFile'[e] = d /\ d # None
      /\ \A f \in Execs : f # e => statusFile'[f] = statusFile[f]
  BY <1>1, <1>2, ShellAssumption DEF Typed, TypeOK
<1>4. Started'
  BY <1>2 DEF DirectoryInv, Started
<1>5. ASSUME NEW t \in Shells, t # s PROVE GivenUp(t)' \/ Follows(t)'
  <2>1. dir'[t] = dir[t]
    BY <1>2, <1>5 DEF Typed, TypeOK
  <2>2. executing[t] # e
    BY <1>1, <1>5 DEF CommandInv, Queued
  <2>3. executing[t] # None => statusFile'[executing[t]] = statusFile[executing[t]]
    BY <1>3, <2>2 DEF Typed, TypeOK
  <2>4. Follows(t) => Follows(t)'
    BY <1>2, <2>1, <2>3 DEF Follows
  <2>5. GivenUp(t) => GivenUp(t)'
    BY <1>2 DEF GivenUp
  <2> QED
    BY <2>4, <2>5 DEF DirectoryInv
<1>6. GivenUp(s)' \/ Follows(s)'
  <2>1. CASE executing[s] = e
    BY <1>1, <1>2, <1>3, <2>1 DEF Follows
  <2>2. CASE result[e] = "interrupted"
    BY <1>1, <1>2, <2>2 DEF GivenUp
  <2> QED
    BY <1>1, <2>1, <2>2 DEF Awaited
<1> QED
  BY <1>4, <1>5, <1>6 DEF DirectoryInv

\* Every step keeps the invariant.
LEMMA NextDirectory == Typed /\ CommandInv /\ DirectoryInv /\ [Next]_vars => DirectoryInv'
<1> SUFFICES ASSUME Typed, CommandInv, DirectoryInv, [Next]_vars PROVE DirectoryInv'
  OBVIOUS
<1>1. CASE \E e \in Execs : GetPersistentShell(e) \/ Call(e)
  BY <1>1, DirectoryCall
<1>2. ASSUME NEW s \in Shells, Process(s) \/ WriteFails(s) PROVE DirectoryInv'
  BY <1>2, DirectoryTake, DirectoryDeliver DEF Process
<1>3. ASSUME NEW s \in Shells, Written(s) \/ Reap(s) \/ CloseQueue(s) \/ BeginCommand(s) \/ Exit(s)
      PROVE  DirectoryInv'
  BY <1>3, DirectorySame DEF Written, Reap, CloseQueue, BeginCommand, Exit, shells, bash, callers
<1>4. ASSUME NEW s \in Shells, NEW d \in Dirs, FinishCommand(s, d) PROVE DirectoryInv'
  BY <1>4, DirectoryFinish
<1>5. CASE UNCHANGED vars
  BY <1>5, DirectorySame DEF vars, shells, bash, callers
<1> QED
  BY <1>1, <1>2, <1>3, <1>4, <1>5 DEF Next, WriteReturns

\* A call that is done stays as it is.
LEMMA DoneStays ==
  ASSUME Typed, CommandInv, [Next]_vars, NEW e \in Execs, pc[e] = "done"
  PROVE  shellOf'[e] = shellOf[e] /\ result'[e] = result[e]
<1>1. ASSUME NEW f \in Execs, GetPersistentShell(f) \/ Call(f)
      PROVE  shellOf'[e] = shellOf[e] /\ result'[e] = result[e]
  <2>1. f # e
    BY <1>1 DEF GetPersistentShell, Call, NewPersistentShell, StartFails, CheckAlive, Send
  <2>2. /\ shellOf' = shellOf \/ \E x : shellOf' = [shellOf EXCEPT ![f] = x]
        /\ result' = result \/ \E x : result' = [result EXCEPT ![f] = x]
    BY <1>1 DEF GetPersistentShell, Call, NewPersistentShell, StartFails, CheckAlive, Send, Return
  <2> QED
    BY <2>1, <2>2 DEF Typed, TypeOK
<1>2. ASSUME NEW s \in Shells, TakeCommand(s)
      PROVE  shellOf'[e] = shellOf[e] /\ result'[e] = result[e]
  <2>1. commandQueue[s] \in Seq(Execs) /\ commandQueue[s] # <<>> /\ Distinct(commandQueue[s])
    BY <1>2 DEF TakeCommand, Typed, TypeOK, CommandInv, Queued
  <2>2. PICK f \in Execs : f = Head(commandQueue[s])
    BY <2>1, QueueTyped
  <2>3. In(f, commandQueue[s])
    BY <2>1, <2>2, TailOf
  <2>4. f # e
    BY <2>3 DEF CommandInv, Queued
  <2>5. UNCHANGED shellOf /\ (result' = result \/ \E x : result' = [result EXCEPT ![f] = x])
    BY <1>2, <2>2 DEF TakeCommand, Return
  <2> QED
    BY <2>4, <2>5 DEF Typed, TypeOK
<1>3. ASSUME NEW s \in Shells, CommandCompleted(s) \/ CommandInterrupted(s) \/ WriteFails(s)
      PROVE  shellOf'[e] = shellOf[e] /\ result'[e] = result[e]
  <2>1. executing[s] # e
    BY <1>3 DEF CommandInv, Queued, CommandCompleted, CommandInterrupted, WriteFails, Waiting
  <2>2. UNCHANGED shellOf /\ \E x : result' = [result EXCEPT ![executing[s]] = x]
    BY <1>3 DEF CommandCompleted, CommandInterrupted, WriteFails, Deliver, Return
  <2> QED
    BY <2>1, <2>2 DEF Typed, TypeOK
<1>4. ASSUME NEW s \in Shells, \/ Written(s) \/ Reap(s) \/ CloseQueue(s) \/ BeginCommand(s) \/ Exit(s)
                               \/ \E d \in Dirs : FinishCommand(s, d)
      PROVE  shellOf'[e] = shellOf[e] /\ result'[e] = result[e]
  BY <1>4 DEF Written, Reap, CloseQueue, BeginCommand, Exit, FinishCommand, callers
<1>5. CASE UNCHANGED vars
  BY <1>5 DEF vars, callers
<1> QED
  BY <1>1, <1>2, <1>3, <1>4, <1>5 DEF Next, Process, WriteReturns

\* A result that was given up stays so.
LEMMA GivenUpStays ==
  ASSUME Typed, CommandInv, [Next]_vars, NEW s \in Shells, GivenUp(s)
  PROVE  GivenUp(s)'
<1>1. PICK e \in Execs : shellOf[e] = s /\ result[e] \in {"interrupted", "unwritten"}
  BY DEF GivenUp
<1>2. pc[e] = "done"
  BY <1>1 DEF CommandInv, Queued
<1> QED
  BY <1>1, <1>2, DoneStays DEF GivenUp

\* A call that replaces a shell alone has read where bash is, and bash stays there.
ReadWhere ==
  ~raced /\ shellInstance # None =>
    \A e \in Execs : pc[e] = "making" =>
      \/ e \in unsettled \/ GivenUp(shellInstance)
      \/ /\ startDir[e] = dir[shellInstance]
         /\ executing[shellInstance] = None /\ ~isAlive[shellInstance]

\* Nobody makes a shell at first.
LEMMA InitReadWhere == Init => ReadWhere
BY DEF Init, ReadWhere

\* A step that leaves calls and directory as they are, and gives the dead shell nothing to do.
LEMMA ReadSame ==
  ASSUME Typed, CommandInv, ReadWhere, [Next]_vars,
         UNCHANGED <<shellInstance, startDir, raced, unsettled>>,
         \A e \in Execs : pc'[e] = "making" => pc[e] = "making",
         \A s \in Shells : executing[s] = None /\ ~isAlive[s] =>
           \/ executing'[s] = None /\ ~isAlive'[s] /\ dir'[s] = dir[s]
           \/ GivenUp(s)
  PROVE  ReadWhere'
<1> SUFFICES ASSUME ~raced, shellInstance # None, NEW e \in Execs, pc[e] = "making", e \notin unsettled,
                    ~GivenUp(shellInstance)'
             PROVE  /\ startDir[e] = dir'[shellInstance]
                    /\ executing'[shellInstance] = None /\ ~isAlive'[shellInstance]
  BY DEF ReadWhere
<1>1. shellInstance \in Shells
  BY DEF Typed, TypeOK
<1>2. ~GivenUp(shellInstance)
  BY <1>1, GivenUpStays
<1> QED
  BY <1>1, <1>2 DEF ReadWhere

\* Every step keeps that.
LEMMA NextReadWhere ==
  Typed /\ CommandInv /\ OneMaker /\ DirectoryInv /\ ReadWhere /\ [Next]_vars => ReadWhere'
<1> SUFFICES ASSUME Typed, CommandInv, OneMaker, DirectoryInv, ReadWhere, [Next]_vars PROVE ReadWhere'
  OBVIOUS
<1>1. ASSUME NEW e \in Execs, GetPersistentShell(e) PROVE ReadWhere'
  <2>1. CASE LiveInstance
    <3>1. UNCHANGED <<shells, bash, startDir, races>> /\ pc' = [pc EXCEPT ![e] = "found"]
      BY <1>1, <2>1 DEF GetPersistentShell, Goto
    <3>2. \A f \in Execs : pc'[f] = "making" => pc[f] = "making"
      BY <3>1 DEF Typed, TypeOK
    <3> QED
      BY <3>1, <3>2, ReadSame DEF shells, bash, races
  <2>2. CASE ~LiveInstance
    <3>1. /\ pc' = [pc EXCEPT ![e] = "making"] /\ startDir' = [startDir EXCEPT ![e] = StartDir]
          /\ raced' = (raced \/ \E f \in Execs : pc[f] = "making")
          /\ unsettled' = IF shellInstance # None /\ executing[shellInstance] # None
                          THEN unsettled \cup {e} ELSE unsettled
          /\ UNCHANGED <<shells, bash, shellOf, result>>
      BY <1>1, <2>2 DEF GetPersistentShell, Make, Goto
    <3> SUFFICES ASSUME ~raced', shellInstance # None, NEW f \in Execs, pc'[f] = "making",
                        f \notin unsettled', ~GivenUp(shellInstance)'
                 PROVE  /\ startDir'[f] = dir[shellInstance]
                        /\ executing[shellInstance] = None /\ ~isAlive[shellInstance]
      BY <3>1 DEF ReadWhere, shells, bash
    <3>2. f = e
      BY <3>1 DEF Typed, TypeOK
    <3>3. startDir'[f] = cwd[shellInstance]
      BY <3>1, <3>2 DEF StartDir, Typed, TypeOK
    <3>4. executing[shellInstance] = None
      BY <3>1, <3>2
    <3>5. shellInstance \in Shells /\ ~GivenUp(shellInstance)
      BY <3>1 DEF GivenUp, shells, Typed, TypeOK
    <3>6. Follows(shellInstance)
      BY <3>5 DEF DirectoryInv
    <3> QED
      BY <2>2, <3>3, <3>4, <3>6 DEF Follows, LiveInstance
  <2> QED
    BY <2>1, <2>2
<1>2. ASSUME NEW e \in Execs, NewPersistentShell(e) PROVE ReadWhere'
  <2>1. pc[e] = "making" /\ pc' = [pc EXCEPT ![e] = "found"] /\ raced' = raced
    BY <1>2 DEF NewPersistentShell, Goto, races
  <2>2. ~raced => \A f \in Execs : pc'[f] # "making"
    BY <2>1 DEF OneMaker, Typed, TypeOK
  <2> QED
    BY <2>1, <2>2 DEF ReadWhere
<1>3. ASSUME NEW e \in Execs, StartFails(e) PROVE ReadWhere'
  BY <1>3 DEF StartFails, ReadWhere
<1>4. ASSUME NEW e \in Execs, CheckAlive(e) \/ Send(e) PROVE ReadWhere'
  <2>1. /\ UNCHANGED <<shellInstance, startDir, races, executing, isAlive, bash>>
        /\ \E l \in {"sending", "waiting", "done"} : pc' = [pc EXCEPT ![e] = l]
    BY <1>4 DEF CheckAlive, Send, Return, Goto, shells
  <2>2. \A f \in Execs : pc'[f] = "making" => pc[f] = "making"
    BY <2>1 DEF Typed, TypeOK
  <2> QED
    BY <2>1, <2>2, ReadSame DEF races, bash
<1>5. ASSUME NEW s \in Shells, Process(s) \/ WriteFails(s) PROVE ReadWhere'
  <2>1. /\ UNCHANGED <<shellInstance, startDir, races, isAlive, dir>>
        /\ \/ UNCHANGED pc
           \/ \E e : pc' = [pc EXCEPT ![e] = "done"]
    BY <1>5 DEF Process, TakeCommand, CommandCompleted, CommandInterrupted, WriteFails, Deliver, Return, Goto
  <2>2. \A f \in Execs : pc'[f] = "making" => pc[f] = "making"
    BY <2>1 DEF Typed, TypeOK
  <2>3. \/ UNCHANGED executing \/ executing' = [executing EXCEPT ![s] = None]
        \/ isAlive[s] /\ \E e : executing' = [executing EXCEPT ![s] = e]
    BY <1>5 DEF Process, TakeCommand, CommandCompleted, CommandInterrupted, WriteFails, Deliver
  <2>4. \A u \in Shells : executing[u] = None /\ ~isAlive[u] => executing'[u] = None
    BY <2>3 DEF Typed, TypeOK
  <2> QED
    BY <2>1, <2>2, <2>4, ReadSame DEF races
<1>6. ASSUME NEW s \in Shells, Written(s) \/ Reap(s) \/ CloseQueue(s) \/ BeginCommand(s) \/ Exit(s)
      PROVE  ReadWhere'
  <2>1. UNCHANGED <<shellInstance, startDir, raced, unsettled, pc, executing, dir>>
        /\ \A u \in Shells : isAlive'[u] => isAlive[u]
    BY <1>6 DEF Written, Reap, CloseQueue, BeginCommand, Exit, shells, bash, callers, races, Typed, TypeOK
  <2> QED
    BY <2>1, ReadSame
<1>7. ASSUME NEW s \in Shells, NEW d \in Dirs, FinishCommand(s, d) PROVE ReadWhere'
  <2>1. evaluating[s] \in Execs /\ shellOf[evaluating[s]] = s /\ Awaited(s, evaluating[s])
    BY <1>7 DEF FinishCommand, CommandInv, Evaluated, Typed, TypeOK
  <2>2. executing[s] = None => GivenUp(s)
    BY <2>1, ShellAssumption DEF Awaited, GivenUp
  <2>3. UNCHANGED <<shellInstance, startDir, raced, unsettled, pc, executing, isAlive>>
        /\ \A u \in Shells \ {s} : dir'[u] = dir[u]
    BY <1>7 DEF FinishCommand, shells, callers, races, Typed, TypeOK
  <2> QED
    BY <2>2, <2>3, ReadSame
<1>8. CASE UNCHANGED vars
  BY <1>8, ReadSame DEF vars, shells, bash, callers, races
<1> QED
  BY <1>1, <1>2, <1>3, <1>4, <1>5, <1>6, <1>7, <1>8 DEF Next, Call, WriteReturns

\* Only a new shell replaces another, and it starts where the call that makes it read.
LEMMA ReplacedWhere ==
  ASSUME Typed, [Next]_vars, shellInstance # None, shellInstance' \notin {None, shellInstance}
  PROVE  \E e \in Execs : pc[e] = "making" /\ pc'[e] = "found" /\ dir'[shellInstance'] = startDir[e]
<1>1. ASSUME NEW e \in Execs, NewPersistentShell(e)
      PROVE  pc[e] = "making" /\ pc'[e] = "found" /\ dir'[shellInstance'] = startDir[e]
  <2>1. /\ started + 1 \in Shells /\ shellInstance' = started + 1
        /\ dir' = [dir EXCEPT ![started + 1] = startDir[e]]
        /\ pc[e] = "making" /\ pc' = [pc EXCEPT ![e] = "found"]
    BY <1>1 DEF NewPersistentShell, Goto
  <2> QED
    BY <2>1 DEF Typed, TypeOK
<1>2. ASSUME NEW e \in Execs, GetPersistentShell(e) \/ StartFails(e) \/ CheckAlive(e) \/ Send(e)
      PROVE  FALSE
  BY <1>2 DEF GetPersistentShell, StartFails, CheckAlive, Send, shells
<1>3. ASSUME NEW s \in Shells,
             TakeCommand(s) \/ CommandCompleted(s) \/ CommandInterrupted(s) \/ WriteFails(s)
      PROVE  FALSE
  BY <1>3 DEF TakeCommand, CommandCompleted, CommandInterrupted, WriteFails, Deliver
<1>4. ASSUME NEW s \in Shells, Written(s) \/ Reap(s) \/ CloseQueue(s) \/ BeginCommand(s) \/ Exit(s)
      PROVE  FALSE
  BY <1>4 DEF Written, Reap, CloseQueue, BeginCommand, Exit, shells
<1>5. ASSUME NEW s \in Shells, NEW d \in Dirs, FinishCommand(s, d) PROVE FALSE
  BY <1>5 DEF FinishCommand, shells
<1>6. CASE UNCHANGED vars
  BY <1>6 DEF vars, shells
<1> QED
  BY <1>1, <1>2, <1>3, <1>4, <1>5, <1>6 DEF Next, Call, Process, WriteReturns

\* A shell that replaces another starts where bash left off (GetPersistentShell,
\* newPersistentShell and execCommand of shell.go), unless its directory was read
\* before the last result came in, a command had been given up or could not be written,
\* or two calls replaced the shell: DirectoryKept.
THEOREM DirectoryStays == Spec => DirectoryKept
<1> DEFINE Step ==
      shellInstance # None /\ shellInstance' \notin {None, shellInstance} =>
        LET s == shellInstance IN
          \/ dir'[shellInstance'] = dir[s]
          \/ raced
          \/ \E e \in Execs : pc[e] = "making" /\ pc'[e] = "found" /\ e \in unsettled
          \/ \E e \in Execs : shellOf[e] = s /\ result[e] \in {"interrupted", "unwritten"}
<1>1. Typed /\ CommandInv /\ ReadWhere /\ [Next]_vars => Step
  <2> SUFFICES ASSUME Typed, CommandInv, ReadWhere, [Next]_vars,
                      shellInstance # None, shellInstance' \notin {None, shellInstance}, ~raced,
                      ~GivenUp(shellInstance)
               PROVE  \/ dir'[shellInstance'] = dir[shellInstance]
                      \/ \E e \in Execs : pc[e] = "making" /\ pc'[e] = "found" /\ e \in unsettled
    BY DEF GivenUp
  <2> QED
    BY ReplacedWhere DEF ReadWhere
<1>2. Typed /\ CommandInv /\ OneMaker /\ DirectoryInv /\ ReadWhere /\ [Next]_vars
        => (OneMaker /\ DirectoryInv /\ ReadWhere)'
  BY NextOneMaker, NextDirectory, NextReadWhere
<1>3. Spec => [][Step]_vars
  <2> HIDE DEF Step
  <2>1. Typed /\ CommandInv /\ ReadWhere /\ [Next]_vars => [Step]_vars
    BY <1>1
  <2>2. Init => OneMaker /\ DirectoryInv /\ ReadWhere
    BY InitOneMaker, InitDirectory, InitReadWhere
  <2> QED
    BY <1>2, <2>1, <2>2, CommandInvariant, PTL DEF Spec
<1> QED
  BY <1>3 DEF DirectoryKept

---------------------------------------------------------------------------
(* The patch tool: what the inductive invariants are made of *)

\* The hunks of a patch are of the forms the tool knows.
TextTyped ==
  /\ IsSequence(text)
  /\ \A h \in Hunks : /\ h.path \in Paths /\ h.type \in {"add", "delete", "update"}
                      /\ h.type = "update" => h.move \in Paths \cup {NoMove} /\ InSections(h)

\* Every file is there, or not, and has its versions.
FilesTyped == disk = [f \in Files |-> disk[f]] /\ history = [f \in Files |-> history[f]]

\* A loop goes through the files that are its own.
LoopTyped ==
  /\ phase = "check" => todo \subseteq FilesNeeded
  /\ phase = "check added" => todo \subseteq FilesAdded
  /\ phase \in {"ask", "apply", "store"} => todo \subseteq DOMAIN commit

PatchTyped == PatchTypeOK /\ TextTyped /\ FilesTyped /\ LoopTyped

\* What each change is once there are changes; there are none before.
Planned == {"ask", "apply", "store", "denied", "failed", "done"}

CommitInv ==
  /\ phase \notin Planned => commit = <<>>
  /\ phase \in Planned =>
       /\ DOMAIN commit = {h.path : h \in Hunks}
       /\ FilesNeeded \cap FilesAdded = {}
       /\ \A p \in DOMAIN commit :
            /\ commit[p].move \in Paths \cup {NoMove}
            /\ commit[p].type = "delete" => commit[p].move = NoMove

\* Nothing is changed before all is allowed.
Applying == {"apply", "store", "failed", "done"}

AllowedInv ==
  /\ phase \notin Applying => written = {}
  /\ phase = "ask" => DOMAIN commit \subseteq approved \cup todo
  /\ phase \in Applying => approved = DOMAIN commit

\* One file at most is where it moves to and where it was.
MovingInv ==
  /\ moving # {} => phase = "apply"
  /\ moving \subseteq todo
  /\ \A p, q \in moving : p = q
  /\ \A p \in moving : commit[p].move # NoMove

\* A file that moves is where it moves to, and a change is made, but for what
\* others did and for changes that meet.
Arrived(p) == Meet(p) \/ \A f \in Target(p) \ touched : disk[f] = commit[p].new

Made(p) == absPath[p] \in touched \/ Meet(p) \/ (disk[absPath[p]] = After(p) /\ Arrived(p))

MadeInv ==
  /\ \A p \in moving : Arrived(p)
  /\ phase \in {"apply", "store", "done"} =>
       \A p \in DOMAIN commit : (phase = "apply" /\ p \in todo) \/ Made(p)

PatchInv == CommitInv /\ AllowedInv /\ MovingInv /\ MadeInv

\* What was read and loaded is on the disk, and nothing where a file is added,
\* unless others or the call changed it since.
Reading == {"check", "check added", "load", "parse", "ask", "apply"}

ReadInv ==
  phase \in Reading => \A f \in Files \ (touched \cup written) : ~Unchecked(f) =>
    IF \E p \in FilesAdded : absPath[p] = f THEN disk[f] = Absent
    ELSE \A p \in FilesNeeded : absPath[p] = f =>
           /\ record[f] = "current"
           /\ \/ phase \in {"check", "check added"}
              \/ phase = "load" /\ p \in todo
              \/ p \in DOMAIN loaded /\ loaded[p] = disk[f]

\* The history of a change whose versions are stored.
Stored(p) ==
  p \notin unstored =>
    /\ commit[p].new \in history[absPath[p]]
    /\ commit[p].type # "add" => commit[p].old \in history[absPath[p]]

StoredInv ==
  phase \in {"store", "done"} =>
    \A p \in DOMAIN commit : (phase = "store" /\ p \in todo) \/ Stored(p)
---------------------------------------------------------------------------
(* The patch tool: types *)

\* The files of a patch are files.
LEMMA PathsOfHunks ==
  ASSUME TextTyped
  PROVE  FilesNeeded \subseteq Paths /\ FilesAdded \subseteq Paths /\ {h.path : h \in Hunks} \subseteq Paths
BY DEF TextTyped, FilesNeeded, FilesAdded

\* The patch stays what it is, and so the files it is about.
LEMMA TextKept ==
  ASSUME [PatchNext]_patchVars
  PROVE  text' = text /\ Hunks' = Hunks /\ FilesNeeded' = FilesNeeded /\ FilesAdded' = FilesAdded
<1>1. text' = text
  <2>1. CASE Parse
    BY <2>1 DEF Parse
  <2>2. CASE Proceed \/ ApplyFails \/ UNCHANGED patchVars
    BY <2>2 DEF Proceed, ApplyFails, patchVars, call
  <2>3. CASE \E p \in Paths : Check(p) \/ CheckAdded(p) \/ Load(p) \/ Ask(p)
    BY <2>3 DEF Check, CheckAdded, Load, Ask
  <2>4. CASE \E p \in Paths : Write(p) \/ RemoveFile(p) \/ Store(p)
    BY <2>4 DEF Write, RemoveFile, Store
  <2>5. CASE \E f \in Files, new \in Others \cup {Absent} : OthersChange(f, new)
    BY <2>5 DEF OthersChange, call
  <2> QED
    BY <2>1, <2>2, <2>3, <2>4, <2>5 DEF PatchNext
<1>2. Hunks' = Hunks
  BY <1>1 DEF Hunks
<1> QED
  BY <1>1, <1>2 DEF FilesNeeded, FilesAdded

\* Types hold at first.
LEMMA InitPatchTyped == PatchInit => PatchTyped /\ CommitInv
<1> SUFFICES ASSUME PatchInit PROVE PatchTyped /\ CommitInv
  OBVIOUS
<1>1. PICK c \in Cases : disk = c.disk /\ record = c.record /\ history = c.history /\ text = c.text
  BY DEF PatchInit
<1>2. TextTyped
  <2>1. IsSequence(text)
    BY <1>1, ToolAssumption
  <2>2. \A i \in DOMAIN text :
          /\ text[i].path \in Paths /\ text[i].type \in {"add", "delete", "update"}
          /\ text[i].type = "update" => text[i].move \in Paths \cup {NoMove} /\ InSections(text[i])
    BY <1>1, ToolAssumption
  <2> QED
    BY <2>1, <2>2 DEF TextTyped, Hunks
<1>3. FilesTyped
  BY <1>1, ToolAssumption DEF FilesTyped
<1>4. PatchTypeOK
  <2>1. record \in [Files -> {"never", "current", "modified"}]
    BY <1>1, ToolAssumption
  <2>2. others \in 0 .. MaxOthers
    BY ToolAssumption DEF PatchInit
  <2>3. todo \subseteq Paths
    BY <1>2, PathsOfHunks DEF PatchInit
  <2>4. DOMAIN loaded = {} /\ DOMAIN commit = {}
    BY DEF PatchInit
  <2> QED
    BY <2>1, <2>2, <2>3, <2>4 DEF PatchInit, PatchTypeOK
<1>5. LoopTyped
  BY DEF PatchInit, LoopTyped
<1>6. CommitInv
  BY DEF PatchInit, CommitInv, Planned
<1> QED
  BY <1>2, <1>3, <1>4, <1>5, <1>6 DEF PatchTyped

\* A change at a path leaves files and versions what they are.
LEMMA FilesPut ==
  ASSUME FilesTyped, NEW l \in Files, NEW f,
         disk' = [disk EXCEPT ![l] = f], history' = history
  PROVE  FilesTyped'
BY DEF FilesTyped

\* Parsing ends in changes for the paths of the patch, none twice, or with the call.
LEMMA ParseEnds ==
  ASSUME Parse
  PROVE  \/ /\ phase' = "ask" /\ todo' = {h.path : h \in Hunks}
            /\ commit' = [p \in {h.path : h \in Hunks} |-> Change(CHOOSE h \in Hunks : h.path = p)]
            /\ \A i \in DOMAIN text : Status(i) = "ok"
            /\ \A h \in UpdateHunks : Updated(h).status = "ok"
         \/ /\ phase' \in {"rejected", "panicked", "hanging"} /\ todo' = {}
            /\ commit' = commit
<1> DEFINE bad == {i \in DOMAIN text : Status(i) # "ok"}
           fine == bad = {} /\ Fuzz <= 3 /\ \A h \in UpdateHunks : Updated(h).status = "ok"
<1>1. CASE fine
  <2>1. \A i \in DOMAIN text : Status(i) = "ok"
    BY <1>1
  <2>2. \A h \in UpdateHunks : Updated(h).status = "ok"
    BY <1>1
  <2> QED
    BY <1>1, <2>1, <2>2 DEF Parse
<1>2. CASE ~fine
  <2> DEFINE end == CASE bad # {} /\ Status(Least(bad)) = "panic" -> "panicked"
                      [] bad # {} /\ Status(Least(bad)) = "hang" -> "hanging"
                      [] OTHER -> "rejected"
  <2>1. End(end) /\ commit' = commit
    BY <1>2 DEF Parse
  <2>2. end \in {"rejected", "panicked", "hanging"}
    OBVIOUS
  <2> HIDE DEF end
  <2> QED
    BY <2>1, <2>2 DEF End
<1> QED
  BY <1>1, <1>2

\* A hunk is taken for a path that has one, and its change is of its type.
LEMMA ChangeTyped ==
  ASSUME TextTyped, NEW p \in {h.path : h \in Hunks}
  PROVE  LET c == Change(CHOOSE h \in Hunks : h.path = p)
         IN c.move \in Paths \cup {NoMove} /\ (c.type = "delete" => c.move = NoMove)
<1> DEFINE h == CHOOSE g \in Hunks : g.path = p
<1>1. h \in Hunks
  OBVIOUS
<1> HIDE DEF h
<1>2. h.type \in {"add", "delete", "update"} /\ (h.type = "update" => h.move \in Paths \cup {NoMove})
  BY <1>1 DEF TextTyped
<1>3. Change(h).move \in Paths \cup {NoMove} /\ (Change(h).type = "delete" => Change(h).move = NoMove)
  BY <1>2 DEF Change
<1> QED
  BY <1>3 DEF h

\* No path is in two hunks when all are parsed.
LEMMA PathsOnce ==
  ASSUME TextTyped, \A i \in DOMAIN text : Status(i) = "ok"
  PROVE  FilesNeeded \cap FilesAdded = {}
<1> SUFFICES ASSUME NEW p \in FilesNeeded, p \in FilesAdded PROVE FALSE
  OBVIOUS
<1>1. PICK i \in DOMAIN text : text[i].path = p /\ text[i].type # "add"
  BY DEF FilesNeeded, Hunks
<1>2. PICK j \in DOMAIN text : text[j].path = p /\ text[j].type = "add"
  BY DEF FilesAdded, Hunks
<1>3. i \in 1 .. Len(text) /\ j \in 1 .. Len(text) /\ Len(text) \in Nat
  BY DEF TextTyped, IsSequence
<1>4. i \in 1 .. j - 1 \/ j \in 1 .. i - 1
  BY <1>1, <1>2, <1>3
<1>5. Status(i) = "error" \/ Status(j) = "error"
  BY <1>1, <1>2, <1>4 DEF Status
<1> QED
  BY <1>5

\* The types of the variables are kept.
LEMMA PatchTypeKept ==
  ASSUME PatchTyped, CommitInv, [PatchNext]_patchVars
  PROVE  PatchTypeOK'
<1> USE DEF PatchTypeOK
<1>0. FilesNeeded \subseteq Paths /\ FilesAdded \subseteq Paths /\ {h.path : h \in Hunks} \subseteq Paths
  BY PathsOfHunks DEF PatchTyped
<1>1. CASE Parse
  <2>1. approved = {} /\ unstored = {} /\ DOMAIN commit = {}
    BY <1>1 DEF PatchTyped, CommitInv, Parse, Planned
  <2>2. UNCHANGED <<disk, record, history, text, loaded, moving, others, ghosts>>
    BY <1>1 DEF Parse
  <2>3. CASE /\ phase' = "ask" /\ todo' = {h.path : h \in Hunks}
             /\ commit' = [p \in {h.path : h \in Hunks} |-> Change(CHOOSE h \in Hunks : h.path = p)]
    <3>1. DOMAIN commit' = {h.path : h \in Hunks}
      BY <2>3
    <3>2. approved' \subseteq DOMAIN commit' /\ unstored' \subseteq DOMAIN commit'
      BY <2>1, <2>2 DEF ghosts
    <3> QED
      BY <1>0, <2>2, <2>3, <3>1, <3>2 DEF PatchTyped, ghosts
  <2>4. CASE phase' \in {"rejected", "panicked", "hanging"} /\ todo' = {} /\ commit' = commit
    BY <2>2, <2>4 DEF PatchTyped, ghosts, Ended
  <2> QED
    BY <1>1, <2>3, <2>4, ParseEnds
<1>2. CASE Proceed
  BY <1>0, <1>2 DEF Proceed, PatchTyped, ghosts, Then, Ended
<1>3. CASE ApplyFails \/ UNCHANGED patchVars
  BY <1>3 DEF ApplyFails, End, Ended, PatchTyped, patchVars, call, ghosts
<1>4. ASSUME NEW p \in Paths, Check(p) \/ CheckAdded(p) \/ Load(p) \/ Ask(p) PROVE PatchTypeOK'
  <2>1. CASE Check(p) \/ CheckAdded(p)
    BY <2>1 DEF Check, CheckAdded, End, Ended, PatchTyped, ghosts
  <2>2. CASE Load(p)
    <3>1. UNCHANGED <<disk, record, history, text, commit, moving, others, ghosts>>
      BY <2>2 DEF Load
    <3>2. DOMAIN loaded' \subseteq Paths
      BY <2>2 DEF Load, PatchTyped
    <3>3. todo' \subseteq Paths /\ phase' \in {"load", "rejected"}
      BY <2>2 DEF Load, PatchTyped, End
    <3> QED
      BY <3>1, <3>2, <3>3 DEF PatchTyped, ghosts, Ended
  <2>3. CASE Ask(p)
    <3>1. p \in DOMAIN commit
      BY <2>3 DEF Ask, PatchTyped, LoopTyped
    <3> QED
      BY <2>3, <3>1 DEF Ask, End, Ended, PatchTyped
  <2> QED
    BY <1>4, <2>1, <2>2, <2>3
<1>5. ASSUME NEW p \in Paths, Write(p) \/ RemoveFile(p) \/ Store(p) PROVE PatchTypeOK'
  <2>1. ASSUME NEW q \in Paths, NEW f, Put(q, f)
        PROVE  written' \subseteq Files /\ record' \in [Files -> {"never", "current", "modified"}]
    <3>1. absPath[q] \in Files
      BY ToolAssumption
    <3>2. written' = written \cup {absPath[q]}
          /\ record' = [record EXCEPT ![absPath[q]] = IF @ = "current" THEN "modified" ELSE @]
      BY <2>1 DEF Put
    <3> QED
      BY <3>1, <3>2 DEF PatchTyped
  <2>2. CASE Write(p)
    <3>1. phase = "apply" /\ p \in DOMAIN commit
      BY <2>2 DEF Write, PatchTyped, LoopTyped
    <3>2. commit[p].move # NoMove => commit[p].move \in Paths
      BY <3>1 DEF CommitInv, Planned
    <3>3. written' \subseteq Files /\ record' \in [Files -> {"never", "current", "modified"}]
      BY <2>1, <2>2, <3>2 DEF Write
    <3> QED
      BY <2>2, <3>3 DEF Write, PatchTyped
  <2>3. CASE RemoveFile(p)
    <3>1. written' \subseteq Files /\ record' \in [Files -> {"never", "current", "modified"}]
      BY <2>1, <2>3 DEF RemoveFile
    <3> QED
      BY <2>3, <3>1 DEF RemoveFile, PatchTyped
  <2>4. CASE Store(p)
    <3>1. p \in DOMAIN commit /\ p \in todo
      BY <2>4 DEF Store, PatchTyped, LoopTyped
    <3>2. unstored' \in {unstored, unstored \cup {p}}
      BY <2>4 DEF Store
    <3>3. record' = [record EXCEPT ![absPath[p]] = "current"] /\ todo' = todo \ {p}
          /\ UNCHANGED <<phase, loaded, commit, moving, others, approved, written, touched>>
      BY <2>4 DEF Store
    <3> QED
      BY <3>1, <3>2, <3>3 DEF PatchTyped
  <2> QED
    BY <1>5, <2>2, <2>3, <2>4
<1>6. ASSUME NEW l \in Files, NEW f, OthersChange(l, f) PROVE PatchTypeOK'
  <2>1. others' \in 0 .. MaxOthers
    <3>1. others < MaxOthers /\ others' = others + 1
      BY <1>6 DEF OthersChange
    <3>2. others \in 0 .. MaxOthers /\ MaxOthers \in Nat
      BY ToolAssumption DEF PatchTyped
    <3> HIDE DEF PatchTypeOK
    <3> QED
      BY <3>1, <3>2
  <2>2. record' \in [Files -> {"never", "current", "modified"}]
    BY <1>6 DEF OthersChange, PatchTyped
  <2>3. touched' \subseteq Files
    BY <1>6 DEF OthersChange, PatchTyped
  <2>4. UNCHANGED <<call, approved, written, unstored>>
    BY <1>6 DEF OthersChange
  <2> QED
    BY <2>1, <2>2, <2>3, <2>4 DEF PatchTyped, call
<1> HIDE DEF PatchTypeOK
<1> QED
  BY <1>1, <1>2, <1>3, <1>4, <1>5, <1>6 DEF PatchNext
\* What the history has after a change, and whether a version could not be stored.
Kept(p, old, found, failed) ==
  old \cup UNION {Versions(p, found, failed)[k] : k \in DOMAIN Versions(p, found, failed) \ failed}

Lost(p, found, failed) ==
  \E k \in DOMAIN Versions(p, found, failed) \cap failed : Versions(p, found, failed)[k] # {}

\* A change leaves both sides in the history, or one could not be stored.
LEMMA VersionsOf ==
  ASSUME NEW p, NEW old, NEW failed \in SUBSET {"lookup", "create", "between", "new"},
         NEW found \in {Absent} \cup old, ~Lost(p, found, failed)
  PROVE  /\ commit[p].new \in Kept(p, old, found, failed)
         /\ commit[p].type # "add" => commit[p].old \in Kept(p, old, found, failed)
<1> DEFINE c == commit[p]
           create == c.type # "add" /\ found = Absent
           created == IF create THEN {c.old} ELSE {}
           between == IF /\ c.type # "add" /\ ~(create /\ "create" \in failed)
                         /\ (IF found = Absent THEN Empty ELSE found) # c.old
                      THEN {c.old} ELSE {}
           versions == [create |-> created, between |-> between, new |-> {c.new}]
           new == Kept(p, old, found, failed)
<1>1. Versions(p, found, failed) = versions
  BY DEF Versions
<1>2. DOMAIN versions = {"create", "between", "new"}
      /\ versions["create"] = created /\ versions["between"] = between /\ versions["new"] = {c.new}
  OBVIOUS
<1>3. c.type # "add" => c.old \in created \/ (found \in old /\ (found = c.old \/ c.old \in between))
  OBVIOUS
<1> HIDE DEF versions, created, between, create, c
<1>4. \A k \in DOMAIN versions \cap failed : versions[k] = {}
  BY <1>1 DEF Lost
<1>5. \A k \in DOMAIN versions : versions[k] \subseteq new
  BY <1>1, <1>4 DEF Kept
<1>6. created \subseteq new /\ between \subseteq new /\ c.new \in new /\ old \subseteq new
  BY <1>2, <1>5 DEF Kept
<1> HIDE DEF new
<1> QED
  BY <1>3, <1>6 DEF c, new

\* Files and versions keep their form.
LEMMA FilesKept ==
  ASSUME PatchTyped, CommitInv, [PatchNext]_patchVars
  PROVE  FilesTyped'
<1>0. FilesTyped
  BY DEF PatchTyped
<1>1. CASE UNCHANGED <<disk, history>>
  BY <1>0, <1>1 DEF FilesTyped
<1>2. CASE Parse \/ Proceed \/ ApplyFails \/ UNCHANGED patchVars
  BY <1>1, <1>2 DEF Parse, Proceed, ApplyFails, patchVars
<1>3. ASSUME NEW p \in Paths, Check(p) \/ CheckAdded(p) \/ Load(p) \/ Ask(p) PROVE FilesTyped'
  BY <1>1, <1>3 DEF Check, CheckAdded, Load, Ask
<1>4. ASSUME NEW p \in Paths, Write(p) PROVE FilesTyped'
  <2>1. p \in DOMAIN commit /\ phase = "apply" /\ history' = history
    BY <1>4 DEF Write, PatchTyped, LoopTyped
  <2>2. commit[p].move # NoMove => commit[p].move \in Paths
    BY <2>1 DEF CommitInv, Planned
  <2>3. \E q \in Paths, f \in {commit[p].new} : disk' = [disk EXCEPT ![absPath[q]] = f]
    BY <1>4, <2>2 DEF Write, Put
  <2> QED
    BY <1>0, <2>1, <2>3, FilesPut, ToolAssumption
<1>5. ASSUME NEW p \in Paths, RemoveFile(p) PROVE FilesTyped'
  BY <1>0, <1>5, FilesPut, ToolAssumption DEF RemoveFile, Put
<1>6. ASSUME NEW l \in Files, NEW f, OthersChange(l, f) PROVE FilesTyped'
  BY <1>0, <1>6, FilesPut DEF OthersChange
<1>7. ASSUME NEW p \in Paths, Store(p) PROVE FilesTyped'
  <2>1. disk' = disk /\ \E new : history' = [history EXCEPT ![absPath[p]] = new]
    BY <1>7 DEF Store
  <2>2. history' = [q \in Files |-> history'[q]]
    BY <1>0, <2>1 DEF FilesTyped
  <2> QED
    BY <1>0, <2>1, <2>2 DEF FilesTyped
<1> QED
  BY <1>2, <1>3, <1>4, <1>5, <1>6, <1>7 DEF PatchNext

\* A loop keeps to its files.
LEMMA LoopKept ==
  ASSUME PatchTyped, CommitInv, [PatchNext]_patchVars
  PROVE  LoopTyped'
<1>0. LoopTyped /\ FilesNeeded' = FilesNeeded /\ FilesAdded' = FilesAdded /\ todo \subseteq Paths
  BY TextKept DEF PatchTyped, PatchTypeOK
<1>1. CASE todo' = {}
  BY <1>1 DEF LoopTyped
<1>2. CASE phase' = phase /\ todo' \subseteq todo /\ commit' = commit
  BY <1>0, <1>2 DEF LoopTyped
<1>3. CASE Parse
  <2>1. todo' = {} \/ (phase' = "ask" /\ todo' \subseteq DOMAIN commit')
    BY <1>3, ParseEnds
  <2> QED
    BY <1>1, <2>1 DEF LoopTyped
<1>4. CASE Proceed
  BY <1>0, <1>4 DEF Proceed, Then, LoopTyped
<1>5. CASE ApplyFails \/ UNCHANGED patchVars
  BY <1>1, <1>2, <1>5 DEF ApplyFails, End, patchVars, call
<1>6. ASSUME NEW p \in Paths, Check(p) \/ CheckAdded(p) \/ Load(p) \/ Ask(p) PROVE LoopTyped'
  BY <1>1, <1>2, <1>6 DEF Check, CheckAdded, Load, Ask, End
<1>7. ASSUME NEW p \in Paths, Write(p) \/ RemoveFile(p) \/ Store(p) PROVE LoopTyped'
  BY <1>2, <1>7 DEF Write, RemoveFile, Store
<1>8. ASSUME NEW l \in Files, NEW f, OthersChange(l, f) PROVE LoopTyped'
  BY <1>2, <1>8 DEF OthersChange, call
<1> QED
  BY <1>3, <1>4, <1>5, <1>6, <1>7, <1>8 DEF PatchNext

\* The changes are made at once, and stay.
LEMMA CommitKept ==
  ASSUME PatchTyped, CommitInv, [PatchNext]_patchVars
  PROVE  CommitInv'
<1>0. Hunks' = Hunks /\ FilesNeeded' = FilesNeeded /\ FilesAdded' = FilesAdded
  BY TextKept
<1>1. CASE commit' = commit /\ (phase' \in Planned <=> phase \in Planned)
  BY <1>0, <1>1 DEF CommitInv
<1>2. CASE Parse
  <2>0. phase \notin Planned
    BY <1>2 DEF Parse, Planned
  <2>1. CASE commit' = commit /\ phase' \in {"rejected", "panicked", "hanging"}
    BY <1>1, <2>0, <2>1 DEF Planned
  <2>2. CASE /\ phase' = "ask"
             /\ commit' = [p \in {h.path : h \in Hunks} |-> Change(CHOOSE h \in Hunks : h.path = p)]
             /\ \A i \in DOMAIN text : Status(i) = "ok"
    <3>1. DOMAIN commit' = {h.path : h \in Hunks}
      BY <2>2
    <3>2. ASSUME NEW p \in DOMAIN commit'
          PROVE  commit'[p].move \in Paths \cup {NoMove} /\ (commit'[p].type = "delete" => commit'[p].move = NoMove)
      <4>1. commit'[p] = Change(CHOOSE h \in Hunks : h.path = p)
        BY <2>2, <3>1
      <4> QED
        BY <3>1, <4>1, ChangeTyped DEF PatchTyped
    <3>3. FilesNeeded \cap FilesAdded = {}
      BY <2>2, PathsOnce DEF PatchTyped
    <3>4. phase' \in Planned
      BY <2>2 DEF Planned
    <3> QED
      BY <1>0, <3>1, <3>2, <3>3, <3>4 DEF CommitInv
  <2> QED
    BY <1>2, <2>1, <2>2, ParseEnds
<1>3. CASE Proceed \/ ApplyFails \/ UNCHANGED patchVars
  BY <1>1, <1>3 DEF Proceed, Then, ApplyFails, End, patchVars, call, Planned
<1>4. ASSUME NEW p \in Paths, Check(p) \/ CheckAdded(p) \/ Load(p) \/ Ask(p) PROVE CommitInv'
  BY <1>1, <1>4 DEF Check, CheckAdded, Load, Ask, End, Planned
<1>5. ASSUME NEW p \in Paths, Write(p) \/ RemoveFile(p) \/ Store(p) PROVE CommitInv'
  BY <1>1, <1>5 DEF Write, RemoveFile, Store
<1>6. ASSUME NEW l \in Files, NEW f, OthersChange(l, f) PROVE CommitInv'
  BY <1>1, <1>6 DEF OthersChange, call
<1> QED
  BY <1>2, <1>3, <1>4, <1>5, <1>6 DEF PatchNext

\* Types are kept, and changes are those of the patch.
LEMMA NextPatchTyped == PatchTyped /\ CommitInv /\ [PatchNext]_patchVars => PatchTyped' /\ CommitInv'
<1> SUFFICES ASSUME PatchTyped, CommitInv, [PatchNext]_patchVars PROVE PatchTyped' /\ CommitInv'
  OBVIOUS
<1>1. TextTyped'
  BY TextKept DEF PatchTyped, TextTyped
<1> QED
  BY <1>1, PatchTypeKept, FilesKept, LoopKept, CommitKept DEF PatchTyped
---------------------------------------------------------------------------
(* The patch tool: all or nothing *)

\* Nothing is allowed, changed or moving at first.
LEMMA InitPatchInv == PatchInit => AllowedInv /\ MovingInv /\ MadeInv
BY DEF PatchInit, AllowedInv, MovingInv, MadeInv, Applying

\* A call that ends leaves nothing moving and does not go on to apply.
LEMMA AllowedKept ==
  ASSUME PatchTyped, CommitInv, AllowedInv, [PatchNext]_patchVars
  PROVE  AllowedInv'
<1>0. approved \subseteq DOMAIN commit
  BY DEF PatchTyped, PatchTypeOK
<1>1. CASE UNCHANGED <<phase, commit, approved, written, todo>>
  BY <1>1 DEF AllowedInv
<1>2. CASE Parse
  BY <1>2, ParseEnds DEF AllowedInv, Parse, Applying, ghosts
<1>3. CASE Proceed
  BY <1>0, <1>3 DEF AllowedInv, Proceed, Then, Applying, ghosts
<1>4. CASE ApplyFails \/ UNCHANGED patchVars
  BY <1>4 DEF AllowedInv, ApplyFails, End, Applying, patchVars, call, ghosts
<1>5. ASSUME NEW p \in Paths, Check(p) \/ CheckAdded(p) \/ Load(p) PROVE AllowedInv'
  BY <1>5 DEF AllowedInv, Check, CheckAdded, Load, End, Applying, ghosts
<1>6. ASSUME NEW p \in Paths, Ask(p) PROVE AllowedInv'
  BY <1>6 DEF AllowedInv, Ask, End, Applying
<1>7. ASSUME NEW p \in Paths, Write(p) \/ RemoveFile(p) \/ Store(p) PROVE AllowedInv'
  BY <1>7 DEF AllowedInv, Write, RemoveFile, Store, Applying, ghosts
<1>8. ASSUME NEW l \in Files, NEW f, OthersChange(l, f) PROVE AllowedInv'
  BY <1>1, <1>8 DEF OthersChange, call
<1> QED
  BY <1>2, <1>3, <1>4, <1>5, <1>6, <1>7, <1>8 DEF PatchNext

\* At most one file moves at a time.
LEMMA MovingKept ==
  ASSUME PatchTyped, CommitInv, MovingInv, [PatchNext]_patchVars
  PROVE  MovingInv'
<1>1. CASE UNCHANGED <<phase, commit, moving, todo>>
  BY <1>1 DEF MovingInv
<1>2. CASE moving' = {}
  BY <1>2 DEF MovingInv
<1>3. CASE Parse
  BY <1>2, <1>3 DEF Parse, MovingInv
<1>4. CASE Proceed \/ ApplyFails \/ UNCHANGED patchVars
  BY <1>1, <1>2, <1>4 DEF Proceed, ApplyFails, patchVars, call
<1>5. ASSUME NEW p \in Paths, Check(p) \/ CheckAdded(p) \/ Load(p) \/ Ask(p) PROVE MovingInv'
  BY <1>2, <1>5 DEF Check, CheckAdded, Load, Ask, MovingInv
<1>6. ASSUME NEW p \in Paths, Write(p) PROVE MovingInv'
  BY <1>2, <1>6 DEF Write, MovingInv
<1>7. ASSUME NEW p \in Paths, RemoveFile(p) \/ Store(p) PROVE MovingInv'
  BY <1>2, <1>7 DEF RemoveFile, Store, MovingInv
<1>8. ASSUME NEW l \in Files, NEW f, OthersChange(l, f) PROVE MovingInv'
  BY <1>1, <1>8 DEF OthersChange, call
<1> QED
  BY <1>3, <1>4, <1>5, <1>6, <1>7, <1>8 DEF PatchNext

\* Where a change moves its file is where there are files.
LEMMA TargetFiles ==
  ASSUME NEW p \in DOMAIN commit, commit[p].move \in Paths \cup {NoMove}
  PROVE  Target(p) \subseteq Files
BY ToolAssumption DEF Target

\* What has arrived or is made stays so when the call changes another file, as
\* long as that file's change does not meet it.
LEMMA ArrivedKept ==
  ASSUME FilesTyped, NEW p \in DOMAIN commit, NEW l, NEW f,
         UNCHANGED <<commit, touched>>,
         disk' = [disk EXCEPT ![l] = f],
         commit[p].move \in Paths \cup {NoMove},
         l \in Target(p) => Meet(p) \/ f = commit[p].new,
         Arrived(p)
  PROVE  Arrived(p)'
<1>1. (Meet(p)' <=> Meet(p)) /\ Target(p)' = Target(p)
  BY DEF Meet, Target
<1>2. CASE Meet(p)
  BY <1>1, <1>2 DEF Arrived
<1>3. CASE ~Meet(p)
  <2>1. \A g \in Target(p) \ touched : disk[g] = commit[p].new
    BY <1>3 DEF Arrived
  <2>2. \A g \in Files : disk'[g] = IF g = l THEN f ELSE disk[g]
    BY DEF FilesTyped
  <2>3. \A g \in Target(p) \ touched : disk'[g] = commit[p].new
    BY <1>3, <2>1, <2>2, TargetFiles
  <2> QED
    BY <1>1, <2>3 DEF Arrived
<1> QED
  BY <1>2, <1>3

LEMMA MadeKept ==
  ASSUME FilesTyped, NEW p \in DOMAIN commit, p \in Paths, NEW l, NEW f,
         UNCHANGED <<commit, touched>>,
         disk' = [disk EXCEPT ![l] = f],
         commit[p].move \in Paths \cup {NoMove},
         l \in Target(p) => Meet(p) \/ f = commit[p].new,
         l = absPath[p] => Meet(p) \/ f = After(p),
         Made(p)
  PROVE  Made(p)'
<1>1. (Meet(p)' <=> Meet(p)) /\ After(p)' = After(p)
  BY DEF Meet, After, Target
<1>2. CASE absPath[p] \in touched \/ Meet(p)
  BY <1>1, <1>2 DEF Made
<1>3. CASE disk[absPath[p]] = After(p) /\ Arrived(p) /\ ~Meet(p)
  <2>1. Arrived(p)'
    BY <1>3, ArrivedKept
  <2>2. absPath[p] \in Files
    BY ToolAssumption
  <2>3. disk'[absPath[p]] = After(p)
    BY <1>3, <2>2 DEF FilesTyped
  <2> QED
    BY <1>1, <2>1, <2>3 DEF Made
<1> QED
  BY <1>2, <1>3 DEF Made

\* Others that change a file excuse what it concerns.
LEMMA MadeByOthers ==
  ASSUME FilesTyped, NEW p \in DOMAIN commit, p \in Paths, NEW l \in Files, NEW f,
         commit' = commit, touched' = touched \cup {l}, disk' = [disk EXCEPT ![l] = f],
         commit[p].move \in Paths \cup {NoMove}
  PROVE  (Arrived(p) => Arrived(p)') /\ (Made(p) => Made(p)')
<1>1. (Meet(p)' <=> Meet(p)) /\ After(p)' = After(p) /\ Target(p)' = Target(p)
  BY DEF Meet, After, Target
<1>2. absPath[p] \in Files /\ \A g \in Files : g # l => disk'[g] = disk[g]
  BY ToolAssumption DEF FilesTyped
<1>3. Arrived(p) => Arrived(p)'
  BY <1>1, <1>2, TargetFiles DEF Arrived
<1>4. Made(p) => Made(p)'
  BY <1>1, <1>2, <1>3 DEF Made
<1> QED
  BY <1>3, <1>4
\* Each change is made when the loop has come by its file.
LEMMA MadeInvKept ==
  ASSUME PatchTyped, CommitInv, MovingInv, MadeInv, [PatchNext]_patchVars
  PROVE  MadeInv'
<1>0. FilesTyped /\ todo \subseteq Paths /\ \A p \in Paths : absPath[p] \in Files
  BY ToolAssumption DEF PatchTyped, PatchTypeOK
<1>1. ASSUME UNCHANGED <<disk, commit, touched>>
      PROVE  \A p : (Arrived(p)' <=> Arrived(p)) /\ (Made(p)' <=> Made(p))
  BY <1>1 DEF Arrived, Made, Meet, After, Target
<1>2. CASE /\ UNCHANGED <<disk, commit, touched>> /\ moving' = {}
           /\ phase' \notin {"apply", "store", "done"}
  BY <1>2 DEF MadeInv
<1>3. CASE UNCHANGED <<disk, commit, touched, moving, phase, todo>>
  BY <1>1, <1>3 DEF MadeInv
<1>4. CASE Parse
  <2>1. moving' = {} /\ phase' \notin {"apply", "store", "done"}
    BY <1>4, ParseEnds DEF Parse, MovingInv
  <2> QED
    BY <2>1 DEF MadeInv
<1>5. CASE Proceed
  <2>1. UNCHANGED <<disk, commit, touched>> /\ moving' = {} /\ todo = {}
    BY <1>5 DEF Proceed, ghosts
  <2>2. CASE phase = "ask" /\ phase' = "apply" /\ todo' = DOMAIN commit
    BY <2>1, <2>2 DEF MadeInv
  <2>3. CASE phase \in {"apply", "store"} /\ phase' \in {"store", "done"}
    BY <1>1, <2>1, <2>3 DEF MadeInv
  <2>4. CASE phase' \notin {"apply", "store", "done"}
    BY <1>2, <2>1, <2>4
  <2> QED
    BY <1>5, <2>2, <2>3, <2>4 DEF Proceed, Then
<1>6. CASE ApplyFails \/ UNCHANGED patchVars
  BY <1>2, <1>3, <1>6 DEF ApplyFails, End, patchVars, call, ghosts
<1>7. ASSUME NEW p \in Paths, Check(p) \/ CheckAdded(p) \/ Load(p) \/ Ask(p) PROVE MadeInv'
  BY <1>2, <1>7 DEF Check, CheckAdded, Load, Ask, End, MovingInv, ghosts
<1>8. ASSUME NEW p \in Paths, Store(p) PROVE MadeInv'
  <2>1. UNCHANGED <<disk, commit, touched, phase, moving>> /\ phase = "store"
    BY <1>8 DEF Store
  <2> QED
    BY <1>1, <2>1 DEF MadeInv, MovingInv
<1>9. ASSUME NEW l \in Files, NEW f, OthersChange(l, f) PROVE MadeInv'
  <2>1. UNCHANGED <<phase, todo, commit, moving>> /\ disk' = [disk EXCEPT ![l] = f]
    BY <1>9 DEF OthersChange, call
  <2>2. CASE phase \notin {"apply", "store", "done"}
    BY <2>1, <2>2 DEF MadeInv, MovingInv
  <2>3. CASE phase \in {"apply", "store", "done"}
    <3>1. touched' = touched \cup {l}
      BY <1>9, <2>3 DEF OthersChange, Unchecked
    <3>2. \A p \in DOMAIN commit : p \in Paths /\ commit[p].move \in Paths \cup {NoMove}
      BY <2>3, PathsOfHunks DEF CommitInv, Planned, PatchTyped
    <3>3. \A p \in DOMAIN commit : (Arrived(p) => Arrived(p)') /\ (Made(p) => Made(p)')
      BY <1>0, <2>1, <3>1, <3>2, MadeByOthers
    <3>4. moving \subseteq DOMAIN commit
      BY DEF MovingInv, PatchTyped, LoopTyped
    <3> QED
      BY <2>1, <3>3, <3>4 DEF MadeInv
  <2> QED
    BY <2>2, <2>3
<1>10. ASSUME NEW p \in Paths, Write(p) \/ RemoveFile(p) PROVE MadeInv'
  <2>1. phase = "apply" /\ p \in todo /\ phase' = phase /\ UNCHANGED <<commit, touched>>
    BY <1>10 DEF Write, RemoveFile
  <2>2. \A q \in DOMAIN commit :
          /\ q \in Paths /\ commit[q].move \in Paths \cup {NoMove}
          /\ commit[q].type = "delete" => commit[q].move = NoMove
    BY <2>1, PathsOfHunks DEF CommitInv, Planned, PatchTyped
  <2>3. p \in DOMAIN commit /\ moving \subseteq todo /\ todo \subseteq DOMAIN commit
    BY <2>1 DEF MovingInv, PatchTyped, LoopTyped
  <2>4. CASE Write(p) /\ commit[p].move = NoMove
    <3>1. /\ disk' = [disk EXCEPT ![absPath[p]] = commit[p].new] /\ todo' = todo \ {p} /\ moving' = {}
          /\ commit[p].type # "delete"
      BY <2>4 DEF Write, Put
    <3>2. After(p) = commit[p].new
      BY <2>4, <3>1 DEF After
    <3>3. ASSUME NEW q \in DOMAIN commit, q # p, Made(q) PROVE Made(q)'
      <4>1. absPath[p] \in {absPath[q]} \cup Target(q) => Meet(q)
        BY <2>3, <3>3 DEF Meet
      <4> QED
        BY <1>0, <2>1, <2>2, <3>1, <3>3, <4>1, MadeKept
    <3>4. Made(p)'
      <4>1. disk'[absPath[p]] = commit[p].new
        BY <1>0, <3>1 DEF FilesTyped
      <4>2. Target(p)' = {}
        BY <2>1, <2>4 DEF Target
      <4> QED
        BY <2>1, <2>4, <3>2, <4>1, <4>2 DEF Made, Arrived, After
    <3> QED
      BY <2>1, <3>1, <3>3, <3>4 DEF MadeInv
  <2>5. CASE Write(p) /\ commit[p].move # NoMove
    <3>0. Target(p) = {absPath[commit[p].move]} /\ absPath[commit[p].move] \in Files
      BY <1>0, <2>2, <2>3, <2>5 DEF Target
    <3>1. /\ disk' = [disk EXCEPT ![absPath[commit[p].move]] = commit[p].new] /\ todo' = todo /\ moving' = {p}
      BY <2>5 DEF Write, Put
    <3>2. ASSUME NEW q \in DOMAIN commit, q # p, Made(q) PROVE Made(q)'
      <4>1. absPath[commit[p].move] \in {absPath[q]} \cup Target(q) => Meet(q)
        BY <2>3, <3>0, <3>2 DEF Meet
      <4> QED
        BY <1>0, <2>1, <2>2, <3>1, <3>2, <4>1, MadeKept
    <3>3. disk'[absPath[commit[p].move]] = commit[p].new /\ Target(p)' = Target(p)
      BY <1>0, <2>1, <3>0, <3>1 DEF FilesTyped, Target
    <3>4. Arrived(p)'
      BY <2>1, <3>0, <3>3 DEF Arrived
    <3> QED
      BY <2>1, <2>3, <3>1, <3>2, <3>4 DEF MadeInv
  <2>6. CASE RemoveFile(p)
    <3>1. /\ disk' = [disk EXCEPT ![absPath[p]] = Absent] /\ todo' = todo \ {p} /\ moving' = {}
          /\ IF commit[p].type = "delete" THEN moving = {} ELSE p \in moving
      BY <2>6 DEF RemoveFile, Put
    <3>2. ASSUME NEW q \in DOMAIN commit, q # p, Made(q) PROVE Made(q)'
      <4>1. absPath[p] \in {absPath[q]} \cup Target(q) => Meet(q)
        BY <2>3, <3>2 DEF Meet
      <4> QED
        BY <1>0, <2>1, <2>2, <3>1, <3>2, <4>1, MadeKept
    <3>3. Arrived(p) /\ After(p) = Absent
      <4>1. CASE commit[p].type = "delete"
        BY <2>2, <2>3, <4>1 DEF Arrived, After, Target
      <4>2. CASE p \in moving
        BY <4>2 DEF MadeInv, MovingInv, After
      <4> QED
        BY <3>1, <4>1, <4>2
    <3>4. Arrived(p)'
      <4>1. absPath[p] \in Target(p) => Meet(p)
        BY <2>3 DEF Meet
      <4> QED
        BY <1>0, <2>1, <2>2, <2>3, <3>1, <3>3, <4>1, ArrivedKept
    <3>5. Made(p)'
      <4>1. disk'[absPath[p]] = Absent
        BY <1>0, <2>2, <2>3, <3>1 DEF FilesTyped
      <4> QED
        BY <2>1, <3>3, <3>4, <4>1 DEF Made, After
    <3> QED
      BY <2>1, <3>1, <3>2, <3>5 DEF MadeInv
  <2> QED
    BY <1>10, <2>4, <2>5, <2>6
<1> QED
  BY <1>4, <1>5, <1>6, <1>7, <1>8, <1>9, <1>10 DEF PatchNext

\* The invariant holds in every state of the specification.
THEOREM PatchInvariant == PatchSpec => [](PatchTyped /\ PatchInv)
<1>1. PatchInit => PatchTyped /\ PatchInv
  BY InitPatchTyped, InitPatchInv DEF PatchInv
<1>2. PatchTyped /\ PatchInv /\ [PatchNext]_patchVars => PatchTyped' /\ PatchInv'
  BY NextPatchTyped, AllowedKept, MovingKept, MadeInvKept DEF PatchInv
<1> QED
  BY <1>1, <1>2, PTL DEF PatchSpec

\* Every variable of the patch tool's call, the files, records and versions keep
\* their types, and no change is made that was not allowed.
THEOREM PatchTypeCorrect == PatchSpec => []PatchTypeOK
BY PatchInvariant, PTL DEF PatchTyped

\* A patch that is refused has changed nothing, one that succeeds all as it says
\* (patchTool.Run, patch.go:189-286), unless two of its changes meet in one file, of
\* two names say, or others changed it: AllOrNothing.
THEOREM PatchAllOrNothing == PatchSpec => []AllOrNothing
<1>1. PatchTyped /\ PatchInv => AllOrNothing
  <2> SUFFICES ASSUME PatchTyped, PatchInv PROVE AllOrNothing
    OBVIOUS
  <2>1. written # {} => approved = DOMAIN commit
    BY DEF PatchInv, AllowedInv
  <2>2. phase \in Ended \ {"failed", "done"} => written = {}
    BY DEF PatchInv, AllowedInv, Applying, Ended
  <2>3. ASSUME phase = "done", NEW p \in DOMAIN commit
        PROVE  \/ absPath[p] \in touched \/ Meet(p)
               \/ disk[absPath[p]] = After(p) /\ \A f \in Target(p) \ touched : disk[f] = commit[p].new
    <3>1. Made(p)
      BY <2>3 DEF PatchInv, MadeInv
    <3> QED
      BY <3>1 DEF Made, Arrived
  <2> QED
    BY <2>1, <2>2, <2>3 DEF AllOrNothing
<1> QED
  BY <1>1, PatchInvariant, PTL
---------------------------------------------------------------------------
(* The patch tool: what it overwrites *)

\* Of one file, as in ReadInv.
IsAdded(f) == \E p \in FilesAdded : absPath[p] = f

Loaded(p, f) ==
  \/ phase \in {"check", "check added"}
  \/ phase = "load" /\ p \in todo
  \/ p \in DOMAIN loaded /\ loaded[p] = disk[f]

ReadOrAbsent(f) ==
  /\ IsAdded(f) => disk[f] = Absent
  /\ ~IsAdded(f) => \A p \in FilesNeeded : absPath[p] = f => record[f] = "current" /\ Loaded(p, f)

LEMMA ReadOf ==
  ReadInv <=> (phase \in Reading =>
                 \A f \in Files \ (touched \cup written) : ~Unchecked(f) => ReadOrAbsent(f))
BY DEF ReadInv, ReadOrAbsent, IsAdded, Loaded

\* All files are still to be checked at first.
LEMMA InitRead == PatchInit /\ PatchTyped => ReadInv
<1> SUFFICES ASSUME PatchInit, PatchTyped PROVE ReadInv
  OBVIOUS
<1>1. phase = "check" /\ todo = FilesNeeded /\ FilesNeeded \subseteq Paths /\ FilesAdded \subseteq Paths
  BY PathsOfHunks DEF PatchInit, PatchTyped
<1>2. ASSUME NEW f \in Files, ~Unchecked(f) PROVE ReadOrAbsent(f)
  BY <1>1, <1>2 DEF Unchecked, ReadOrAbsent, IsAdded
<1> QED
  BY <1>2, ReadOf

\* What was read stays read until it is changed.
LEMMA ReadKept ==
  ASSUME PatchTyped, PatchInv, ReadInv, [PatchNext]_patchVars
  PROVE  ReadInv'
<1>0. /\ FilesTyped /\ LoopTyped /\ FilesNeeded' = FilesNeeded /\ FilesAdded' = FilesAdded
      /\ record \in [Files -> {"never", "current", "modified"}] /\ todo \subseteq Paths
      /\ FilesNeeded \subseteq Paths /\ FilesAdded \subseteq Paths
  BY TextKept, PathsOfHunks DEF PatchTyped, PatchTypeOK
<1>1. CASE phase' \notin Reading
  BY <1>1 DEF ReadInv
<1>2. CASE phase' \in Reading
  <2> SUFFICES ASSUME NEW f \in Files, f \notin touched', f \notin written', ~Unchecked(f)'
               PROVE  ReadOrAbsent(f)'
    <3>1. (phase' \in Reading =>
             \A f \in Files \ (touched' \cup written') : ~Unchecked(f)' => ReadOrAbsent(f)') => ReadInv'
      BY <1>0 DEF ReadInv, ReadOrAbsent, IsAdded, Loaded
    <3> QED
      BY <1>2, <3>1
  <2>0. IsAdded(f)' <=> IsAdded(f)
    BY <1>0 DEF IsAdded
  <2>1. ASSUME phase \in Reading, touched \subseteq touched', written \subseteq written', ~Unchecked(f)
        PROVE  ReadOrAbsent(f)
    BY <2>1, ReadOf
  <2>2. CASE Parse
    <3>1. UNCHANGED <<disk, record, loaded, touched, written>> /\ phase = "parse" /\ phase' = "ask"
      BY <1>2, <2>2, ParseEnds DEF Parse, ghosts, Reading
    <3>2. ~Unchecked(f)
      BY <3>1 DEF Unchecked
    <3> QED
      BY <1>0, <2>0, <2>1, <3>1, <3>2 DEF ReadOrAbsent, Loaded, Reading
  <2>3. CASE Proceed
    <3>1. UNCHANGED <<disk, record, loaded, touched, written>> /\ todo = {}
      BY <2>3 DEF Proceed, ghosts
    <3>2. \/ phase = "check" /\ phase' = "check added" /\ todo' = FilesAdded
          \/ phase = "check added" /\ phase' = "load" /\ todo' = FilesNeeded
          \/ phase = "load" /\ phase' = "parse"
          \/ phase = "ask" /\ phase' = "apply"
      BY <1>2, <2>3 DEF Proceed, Then, Reading
    <3>3. ~Unchecked(f)
      BY <1>0, <3>1, <3>2 DEF Unchecked
    <3> QED
      BY <1>0, <2>0, <2>1, <3>1, <3>2, <3>3 DEF ReadOrAbsent, Loaded, Reading
  <2>4. CASE ApplyFails
    BY <1>2, <2>4 DEF ApplyFails, End, Reading
  <2>5. CASE UNCHANGED patchVars
    <3>1. UNCHANGED <<disk, record, loaded, touched, written, phase, todo>>
      BY <2>5 DEF patchVars, call, ghosts
    <3>2. ~Unchecked(f)
      BY <1>0, <3>1 DEF Unchecked
    <3> QED
      BY <1>0, <1>2, <2>0, <2>1, <3>1, <3>2 DEF ReadOrAbsent, Loaded
  <2>6. ASSUME NEW q \in Paths, Check(q) PROVE ReadOrAbsent(f)'
    <3>1. UNCHANGED <<disk, record, loaded, touched, written, phase>> /\ phase = "check"
          /\ todo' = todo \ {q} /\ record[absPath[q]] = "current"
      BY <1>2, <2>6 DEF Check, End, ghosts, Reading
    <3>2. ~IsAdded(f)
      BY <1>0, <3>1 DEF Unchecked, IsAdded
    <3>3. CASE Unchecked(f)
      <4>1. absPath[q] = f
        BY <1>0, <3>1, <3>3 DEF Unchecked
      <4> QED
        BY <2>0, <3>1, <3>2, <4>1 DEF ReadOrAbsent, Loaded
    <3>4. CASE ~Unchecked(f)
      BY <1>0, <2>0, <2>1, <3>1, <3>4 DEF ReadOrAbsent, Loaded, Reading
    <3> QED
      BY <3>3, <3>4
  <2>7. ASSUME NEW q \in Paths, CheckAdded(q) PROVE ReadOrAbsent(f)'
    <3>1. UNCHANGED <<disk, record, loaded, touched, written, phase>> /\ phase = "check added"
          /\ todo' = todo \ {q} /\ disk[absPath[q]] = Absent /\ q \in FilesAdded
      BY <1>0, <1>2, <2>7 DEF CheckAdded, End, ghosts, Reading, LoopTyped
    <3>2. CASE Unchecked(f)
      <4>1. absPath[q] = f
        BY <1>0, <3>1, <3>2 DEF Unchecked
      <4>2. IsAdded(f)
        BY <3>1, <4>1 DEF IsAdded
      <4> QED
        BY <2>0, <3>1, <4>1, <4>2 DEF ReadOrAbsent
    <3>3. CASE ~Unchecked(f)
      BY <1>0, <2>0, <2>1, <3>1, <3>3 DEF ReadOrAbsent, Loaded, Reading
    <3> QED
      BY <3>2, <3>3
  <2>8. ASSUME NEW q \in Paths, Load(q) PROVE ReadOrAbsent(f)'
    <3>1. /\ UNCHANGED <<disk, record, touched, written, phase>> /\ phase = "load"
          /\ todo' = todo \ {q}
          /\ loaded' = [r \in DOMAIN loaded \cup {q} |-> IF r = q THEN disk[absPath[q]] ELSE loaded[r]]
      BY <1>2, <2>8 DEF Load, End, ghosts, Reading
    <3>2. q \in DOMAIN loaded' /\ loaded'[q] = disk[absPath[q]]
      BY <3>1
    <3>3. \A p \in DOMAIN loaded : p # q => p \in DOMAIN loaded' /\ loaded'[p] = loaded[p]
      BY <3>1
    <3>4. ReadOrAbsent(f)
      BY <2>1, <3>1 DEF Unchecked, Reading
    <3>5. ASSUME NEW p \in FilesNeeded, absPath[p] = f, Loaded(p, f) PROVE Loaded(p, f)'
      BY <3>1, <3>2, <3>3, <3>5 DEF Loaded
    <3> QED
      BY <1>0, <2>0, <3>1, <3>4, <3>5 DEF ReadOrAbsent
  <2>9. ASSUME NEW q \in Paths, Ask(q) PROVE ReadOrAbsent(f)'
    <3>1. UNCHANGED <<disk, record, loaded, touched, written, phase>> /\ phase = "ask"
      BY <1>2, <2>9 DEF Ask, End, Reading
    <3>2. ~Unchecked(f)
      BY <3>1 DEF Unchecked
    <3> QED
      BY <1>0, <2>0, <2>1, <3>1, <3>2 DEF ReadOrAbsent, Loaded, Reading
  <2>10. ASSUME NEW q \in Paths, Write(q) \/ RemoveFile(q) PROVE ReadOrAbsent(f)'
    <3>1. UNCHANGED <<loaded, touched, phase>> /\ phase = "apply"
      BY <2>10 DEF Write, RemoveFile
    <3>2. PICK l, new : Put(l, new)
      BY <2>10 DEF Write, RemoveFile
    <3>3. written' = written \cup {absPath[l]} /\ absPath[l] # f
      BY <3>2 DEF Put
    <3>4. disk'[f] = disk[f] /\ record'[f] = record[f]
      BY <1>0, <3>2, <3>3 DEF Put, FilesTyped
    <3>5. ~Unchecked(f)
      BY <3>1 DEF Unchecked
    <3> QED
      BY <1>0, <2>0, <2>1, <3>1, <3>3, <3>4, <3>5 DEF ReadOrAbsent, Loaded, Reading
  <2>11. ASSUME NEW q \in Paths, Store(q) PROVE FALSE
    BY <1>2, <2>11 DEF Store, Reading
  <2>12. ASSUME NEW l \in Files, NEW new, OthersChange(l, new) PROVE ReadOrAbsent(f)'
    <3>1. UNCHANGED <<loaded, phase, todo, written>> /\ touched \subseteq touched'
      BY <2>12 DEF OthersChange, call
    <3>2. ~Unchecked(f)
      BY <1>0, <3>1 DEF Unchecked
    <3>3. l # f
      BY <2>12, <3>2 DEF OthersChange
    <3>4. disk'[f] = disk[f] /\ record'[f] = record[f]
      BY <1>0, <2>12, <3>3 DEF OthersChange, FilesTyped
    <3> QED
      BY <1>0, <1>2, <2>0, <2>1, <3>1, <3>2, <3>4 DEF ReadOrAbsent, Loaded
  <2> QED
    BY <2>2, <2>3, <2>4, <2>5, <2>6, <2>7, <2>8, <2>9, <2>10, <2>11, <2>12 DEF PatchNext
<1> QED
  BY <1>1, <1>2

\* What was read is read in every state of the specification.
THEOREM ReadInvariant == PatchSpec => [](PatchTyped /\ PatchInv /\ ReadInv)
<1>1. PatchInit => ReadInv
  BY InitRead, InitPatchTyped
<1>2. PatchTyped /\ PatchInv /\ ReadInv /\ [PatchNext]_patchVars => ReadInv'
  BY ReadKept
<1> QED
  BY <1>1, <1>2, PatchInvariant, PTL DEF PatchSpec

\* What a patch overwrites or removes is what was read and loaded, or no file
\* (patchTool.Run, patch.go:101-165, 260-286); but for what others did after the check,
\* the place a file moves to, and what the patch itself has written before under another
\* name: OverwritesOnlyWhatWasRead.
THEOREM PatchOverwritesRead == PatchSpec => OverwritesOnlyWhatWasRead
<1> DEFINE Known(f) == \E p \in DOMAIN commit : absPath[p] = f /\
                         IF p \in FilesNeeded THEN record[f] = "current" /\ disk[f] = loaded[p]
                         ELSE disk[f] = Absent
           Step ==
             \A f \in Files : phase = "apply" /\ disk'[f] # disk[f] /\ f \notin touched' =>
               \/ f \in written \/ \E q \in DOMAIN commit : f \in Target(q)
               \/ Known(f)
<1>1. PatchTyped /\ PatchInv /\ ReadInv /\ [PatchNext]_patchVars => Step
  <2> SUFFICES ASSUME PatchTyped, PatchInv, ReadInv, [PatchNext]_patchVars,
                      NEW f \in Files, phase = "apply", disk'[f] # disk[f], f \notin touched',
                      f \notin written, \A q \in DOMAIN commit : f \notin Target(q)
               PROVE  Known(f)
    OBVIOUS
  <2>0. FilesTyped /\ LoopTyped /\ FilesNeeded \cap FilesAdded = {} /\ DOMAIN commit = FilesNeeded \cup FilesAdded
    <3>1. DOMAIN commit = {h.path : h \in Hunks} /\ FilesNeeded \cap FilesAdded = {}
      BY DEF PatchInv, CommitInv, Planned
    <3>2. {h.path : h \in Hunks} = FilesNeeded \cup FilesAdded
      BY DEF FilesNeeded, FilesAdded
    <3> QED
      BY <3>1, <3>2 DEF PatchTyped
  <2>1. f \notin touched /\ \E p \in DOMAIN commit : absPath[p] = f
    <3>1. CASE Parse \/ Proceed \/ ApplyFails \/ UNCHANGED patchVars
      BY <3>1 DEF Parse, Proceed, ApplyFails, patchVars
    <3>2. ASSUME NEW q \in Paths, Check(q) \/ CheckAdded(q) \/ Load(q) \/ Ask(q) \/ Store(q) PROVE FALSE
      BY <3>2 DEF Check, CheckAdded, Load, Ask, Store
    <3>3. ASSUME NEW q \in Paths, Write(q) PROVE q \in DOMAIN commit /\ absPath[q] = f /\ f \notin touched
      <4>1. q \in DOMAIN commit /\ touched' = touched
        BY <2>0, <3>3 DEF Write, LoopTyped
      <4>2. commit[q].move = NoMove
        <5> SUFFICES ASSUME commit[q].move # NoMove PROVE FALSE
          OBVIOUS
        <5>1. disk' = [disk EXCEPT ![absPath[commit[q].move]] = commit[q].new]
          BY <3>3 DEF Write, Put
        <5>2. absPath[commit[q].move] \in Target(q)
          BY DEF Target
        <5> QED
          BY <2>0, <4>1, <5>1, <5>2 DEF FilesTyped
      <4>3. disk' = [disk EXCEPT ![absPath[q]] = commit[q].new]
        BY <3>3, <4>2 DEF Write, Put
      <4> QED
        BY <2>0, <4>1, <4>3 DEF FilesTyped
    <3>4. ASSUME NEW q \in Paths, RemoveFile(q) PROVE q \in DOMAIN commit /\ absPath[q] = f /\ f \notin touched
      <4>1. q \in DOMAIN commit /\ touched' = touched /\ disk' = [disk EXCEPT ![absPath[q]] = Absent]
        BY <2>0, <3>4 DEF RemoveFile, Put, LoopTyped
      <4> QED
        BY <2>0, <4>1 DEF FilesTyped
    <3>5. ASSUME NEW l \in Files, NEW new, OthersChange(l, new) PROVE FALSE
      <4>1. l = f
        BY <2>0, <3>5 DEF OthersChange, FilesTyped
      <4> QED
        BY <3>5, <4>1 DEF OthersChange, Unchecked
    <3> QED
      BY <3>1, <3>2, <3>3, <3>4, <3>5 DEF PatchNext
  <2>2. ReadOrAbsent(f)
    BY <2>1, ReadOf DEF Reading, Unchecked
  <2>3. CASE IsAdded(f)
    BY <2>0, <2>2, <2>3 DEF ReadOrAbsent, IsAdded
  <2>4. CASE ~IsAdded(f)
    <3>1. PICK p \in FilesNeeded : absPath[p] = f
      BY <2>0, <2>1, <2>4 DEF IsAdded
    <3>2. record[f] = "current" /\ Loaded(p, f)
      BY <2>2, <2>4, <3>1 DEF ReadOrAbsent
    <3> QED
      BY <2>0, <3>1, <3>2 DEF Loaded
  <2> QED
    BY <2>3, <2>4
<1>2. PatchSpec => [][Step]_patchVars
  <2> HIDE DEF Step
  <2>1. PatchTyped /\ PatchInv /\ ReadInv /\ [PatchNext]_patchVars => [Step]_patchVars
    BY <1>1
  <2> QED
    BY <2>1, ReadInvariant, PTL DEF PatchSpec
<1> QED
  BY <1>2 DEF OverwritesOnlyWhatWasRead

---------------------------------------------------------------------------
(* The patch tool: the history *)

\* Of a file whose versions are stored nothing changes after.
LEMMA StoredKept ==
  ASSUME PatchTyped, PatchInv, StoredInv, [PatchNext]_patchVars
  PROVE  StoredInv'
<1>0. FilesTyped
  BY DEF PatchTyped
<1>1. CASE phase' \notin {"store", "done"}
  BY <1>1 DEF StoredInv
<1>2. CASE UNCHANGED <<phase, todo, commit, history, unstored>>
  BY <1>2 DEF StoredInv, Stored
<1>3. CASE Parse
  BY <1>1, <1>3, ParseEnds
<1>4. CASE Proceed
  <2>1. UNCHANGED <<commit, history, unstored>> /\ todo = {}
    BY <1>4 DEF Proceed, ghosts
  <2>2. CASE phase = "apply" /\ phase' = "store" /\ todo' = DOMAIN commit
    BY <2>1, <2>2 DEF StoredInv
  <2>3. CASE phase = "store" /\ phase' = "done"
    BY <2>1, <2>3 DEF StoredInv, Stored
  <2> QED
    BY <1>1, <1>4, <2>2, <2>3 DEF Proceed, Then
<1>5. CASE ApplyFails \/ UNCHANGED patchVars
  BY <1>1, <1>2, <1>5 DEF ApplyFails, End, patchVars, call, ghosts
<1>6. ASSUME NEW p \in Paths, Check(p) \/ CheckAdded(p) \/ Load(p) \/ Ask(p) PROVE StoredInv'
  BY <1>1, <1>6 DEF Check, CheckAdded, Load, Ask, End
<1>7. ASSUME NEW p \in Paths, Write(p) \/ RemoveFile(p) PROVE StoredInv'
  BY <1>1, <1>7 DEF Write, RemoveFile
<1>8. ASSUME NEW l \in Files, NEW f, OthersChange(l, f) PROVE StoredInv'
  BY <1>2, <1>8 DEF OthersChange, call
<1>9. ASSUME NEW p \in Paths, Store(p) PROVE StoredInv'
  <2> DEFINE f == absPath[p]
             old == history[f]
  <2>1. todo' = todo \ {p} /\ UNCHANGED <<phase, commit>> /\ phase = "store"
    BY <1>9 DEF Store
  <2> DEFINE With(failed, found) ==
               /\ history' = [history EXCEPT ![f] = Kept(p, @, found, failed)]
               /\ unstored' = IF Lost(p, found, failed) THEN unstored \cup {p} ELSE unstored
  <2>0. PICK failed \in SUBSET {"lookup", "create", "between", "new"} :
          \E found \in Found(f, failed) : With(failed, found)
    BY <1>9 DEF Store, Kept, Lost
  <2>2. PICK found \in Found(f, failed) : With(failed, found)
    BY <2>0
  <2>3. found \in {Absent} \cup old
    BY DEF Found
  <2> DEFINE new == Kept(p, old, found, failed)
  <2>4. Lost(p, found, failed) \/ (commit[p].new \in new /\ (commit[p].type # "add" => commit[p].old \in new))
    <3> HIDE DEF old
    <3> QED
      BY <2>3, VersionsOf
  <2>5. f \in Files
    BY ToolAssumption
  <2>6. history'[f] = new /\ (\A g \in Files : history[g] \subseteq history'[g])
        /\ unstored \subseteq unstored'
    <3>1. history' = [history EXCEPT ![f] = new]
      BY <2>2
    <3>2. unstored \subseteq unstored'
      BY <2>2
    <3>3. old \subseteq new
      BY DEF Kept
    <3> HIDE DEF new
    <3> QED
      BY <1>0, <2>5, <3>1, <3>2, <3>3 DEF FilesTyped
  <2>7. Stored(p)'
    <3>1. CASE Lost(p, found, failed)
      <4>1. p \in unstored'
        BY <2>2, <3>1
      <4> QED
        BY <4>1 DEF Stored
    <3>2. CASE commit[p].new \in new /\ (commit[p].type # "add" => commit[p].old \in new)
      BY <2>1, <2>6, <3>2 DEF Stored
    <3> QED
      BY <2>4, <3>1, <3>2
  <2>8. ASSUME NEW q \in DOMAIN commit, Stored(q) PROVE Stored(q)'
    <3>1. absPath[q] \in Files
      BY ToolAssumption DEF PatchTyped, PatchTypeOK
    <3> HIDE DEF new
    <3> QED
      BY <2>1, <2>6, <2>8, <3>1 DEF Stored
  <2> QED
    BY <2>1, <2>7, <2>8 DEF StoredInv
<1> QED
  BY <1>3, <1>4, <1>5, <1>6, <1>7, <1>8, <1>9 DEF PatchNext

\* A patch that succeeds leaves both sides of each change in the history
\* (patchTool.Run, patch.go:288-346), unless a version could not be stored, of which the
\* tool says nothing: BothSidesStored.
THEOREM PatchBothSides == PatchSpec => []BothSidesStored
<1>1. PatchInit => StoredInv
  BY DEF PatchInit, StoredInv
<1>2. PatchTyped /\ PatchInv /\ StoredInv /\ [PatchNext]_patchVars => StoredInv'
  BY StoredKept
<1>3. StoredInv => BothSidesStored
  BY DEF StoredInv, Stored, BothSidesStored
<1> QED
  BY <1>1, <1>2, <1>3, PatchInvariant, PTL DEF PatchSpec

---------------------------------------------------------------------------
(* Induction *)

\* A set of numbers that has 0, and with each number the next, has them all.
LEMMA AllNumbers ==
  ASSUME NEW I, 0 \in I, \A n \in Nat : n \in I => n + 1 \in I
  PROVE  Nat \subseteq I
<1> DEFINE R == OpToRel(<, Nat)
           Rest == Nat \ I
<1>1. IsWellFoundedOn(R, Nat)
  BY NatLessThanWellFounded DEF R
<1>2. SUFFICES ASSUME Rest # {} PROVE FALSE
  OBVIOUS
<1>3. Rest \subseteq Nat
  OBVIOUS
<1>4. PICK x \in Rest : \A y \in Rest : ~(<<y, x>> \in R)
  <2> HIDE DEF R, Rest
  <2> QED
    BY <1>1, <1>2, <1>3, WFMin
<1> HIDE DEF R
<1>5. x \in Nat /\ x \notin I
  BY <1>4
<1>6. x # 0
  BY <1>5
<1>7. x - 1 \in Nat /\ (x - 1) + 1 = x
  BY <1>5, <1>6
<1>8. x - 1 \in Rest
  BY <1>5, <1>7
<1>9. <<x - 1, x>> \in R
  BY <1>5, <1>7 DEF OpToRel, R
<1> QED
  BY <1>4, <1>8, <1>9

\* What holds of 0, and with each number up to n of the next, holds of them all.
LEMMA UpTo ==
  ASSUME NEW n \in Nat, NEW I, 0 \in I, \A m \in 1 .. n : m - 1 \in I => m \in I
  PROVE  0 .. n \subseteq I
<1> DEFINE J == {m \in Nat : m <= n => m \in I}
<1>1. 0 \in J
  OBVIOUS
<1>2. ASSUME NEW m \in Nat, m \in J PROVE m + 1 \in J
  <2>1. CASE m + 1 <= n
    <3>1. m + 1 \in 1 .. n /\ (m + 1) - 1 = m /\ m <= n
      BY <2>1
    <3> QED
      BY <1>2, <3>1
  <2>2. CASE ~(m + 1 <= n)
    BY <2>2
  <2> QED
    BY <2>1, <2>2
<1>3. Nat \subseteq J
  <2> HIDE DEF J
  <2> QED
    BY <1>1, <1>2, AllNumbers
<1> QED
  BY <1>3

\* Recursion: there is a function that begins with a and goes on with next.
Iterates(f, n, S, a, next) ==
  f \in [0 .. n -> S] /\ f[0] = a /\ \A m \in 1 .. n : f[m] = next[<<m, f[m - 1]>>]

\* Such a function there is.
LEMMA Recursion ==
  ASSUME NEW n \in Nat, NEW S, NEW a \in S, NEW next \in [(1 .. n) \X S -> S]
  PROVE  \E f : Iterates(f, n, S, a, next)
<1> DEFINE Begins(k, f) == /\ f \in [0 .. k -> S] /\ f[0] = a
                           /\ \A m \in 1 .. k : f[m] = next[<<m, f[m - 1]>>]
           I == {k \in Nat : \E f : Begins(k, f)}
<1>1. 0 \in I
  <2>1. Begins(0, [m \in 0 .. 0 |-> a])
    OBVIOUS
  <2> HIDE DEF Begins
  <2> QED
    BY <2>1
<1>2. ASSUME NEW k \in 1 .. n, k - 1 \in I PROVE k \in I
  <2>1. PICK f : Begins(k - 1, f)
    BY <1>2
  <2>2. k \in Nat /\ k - 1 \in 0 .. k - 1 /\ \A m \in 0 .. k : m # k => m \in 0 .. k - 1
    OBVIOUS
  <2> DEFINE b == next[<<k, f[k - 1]>>]
             g == [m \in 0 .. k |-> IF m = k THEN b ELSE f[m]]
  <2>3. b \in S
    BY <2>1, <2>2
  <2> HIDE DEF b
  <2>4. g \in [0 .. k -> S]
    BY <2>1, <2>2, <2>3
  <2>5. g[0] = a
    BY <2>1, <2>2
  <2>6. ASSUME NEW m \in 1 .. k PROVE g[m] = next[<<m, g[m - 1]>>]
    <3>1. m \in 0 .. k /\ m - 1 \in 0 .. k /\ m - 1 # k
      BY <2>2
    <3>2. g[m - 1] = f[m - 1]
      BY <3>1
    <3>3. CASE m = k
      BY <3>1, <3>2, <3>3 DEF b
    <3>4. CASE m # k
      <4>1. m \in 1 .. k - 1 /\ g[m] = f[m]
        BY <2>2, <3>1, <3>4
      <4>2. f[m] = next[<<m, f[m - 1]>>]
        BY <2>1, <4>1
      <4> QED
        BY <3>2, <4>1, <4>2
    <3> QED
      BY <3>3, <3>4
  <2>7. Begins(k, g)
    <3> HIDE DEF g
    <3> QED
      BY <2>4, <2>5, <2>6
  <2> HIDE DEF Begins, g
  <2> QED
    BY <2>2, <2>7
<1>3. n \in I
  <2> HIDE DEF I
  <2>1. 0 .. n \subseteq I
    BY <1>1, <1>2, UpTo
  <2> QED
    BY <2>1
<1> QED
  BY <1>3 DEF Iterates

---------------------------------------------------------------------------
(* Sequences of sequences *)

Flat(seqs) ==
  LET flatten[i \in 1 .. Len(seqs)] == IF i = 1 THEN seqs[i] ELSE flatten[i - 1] \o seqs[i]
  IN flatten

\* The folding that FlattenSeq makes, one sequence after the other.
LEMMA FlatFunction ==
  ASSUME NEW X, NEW n \in Nat, NEW seqs \in [1 .. n -> Seq(X)]
  PROVE  /\ Len(seqs) = n /\ Flat(seqs) \in [1 .. n -> Seq(X)]
         /\ \A i \in 1 .. n : Flat(seqs)[i] = IF i = 1 THEN seqs[i] ELSE Flat(seqs)[i - 1] \o seqs[i]
<1> DEFINE next == [p \in (1 .. n) \X Seq(X) |-> p[2] \o seqs[p[1]]]
           Body(g) == [i \in 1 .. n |-> IF i = 1 THEN seqs[i] ELSE g[i - 1] \o seqs[i]]
<1>1. Len(seqs) = n
  OBVIOUS
<1>2. next \in [(1 .. n) \X Seq(X) -> Seq(X)] /\ <<>> \in Seq(X)
  OBVIOUS
<1>3. PICK f \in [0 .. n -> Seq(X)] : f[0] = <<>> /\ \A m \in 1 .. n : f[m] = next[<<m, f[m - 1]>>]
  <2> HIDE DEF next
  <2> DEFINE S == Seq(X)
             a == <<>>
  <2>1. next \in [(1 .. n) \X S -> S] /\ a \in S
    BY <1>2
  <2> HIDE DEF next, S, a, Body
  <2>2. \E f : Iterates(f, n, S, a, next)
    BY <2>1, Recursion
  <2> QED
    BY <2>2 DEF Iterates, S, a
<1>4. ASSUME NEW m \in 1 .. n PROVE f[m] = f[m - 1] \o seqs[m]
  <2>1. m - 1 \in 0 .. n
    OBVIOUS
  <2>2. f[m - 1] \in Seq(X)
    BY <1>3, <2>1
  <2> QED
    BY <1>3, <2>2
<1> DEFINE g == [i \in 1 .. n |-> f[i]]
<1>5. ASSUME NEW i \in 1 .. n PROVE g[i] = IF i = 1 THEN seqs[i] ELSE g[i - 1] \o seqs[i]
  <2>1. CASE i = 1
    <3>1. f[1] = f[0] \o seqs[1] /\ seqs[1] \in Seq(X)
      <4>1. 1 \in 1 .. n /\ 1 - 1 = 0
        BY <2>1
      <4> QED
        BY <1>4, <4>1
    <3>2. f[1] = seqs[1]
      BY <1>3, <3>1
    <3> QED
      BY <2>1, <3>2
  <2>2. CASE i # 1
    <3>1. i - 1 \in 1 .. n
      BY <2>2
    <3> QED
      BY <1>4, <2>2, <3>1
  <2> QED
    BY <2>1, <2>2
<1>6. g = Body(g)
  <2>1. \A i \in 1 .. n : g[i] = Body(g)[i]
    BY <1>5
  <2>2. g = [i \in 1 .. n |-> g[i]]
    BY Zenon
  <2> HIDE DEF g
  <2> QED
    BY <2>1, <2>2
<1>7. Flat(seqs) = Body(Flat(seqs))
  <2>1. \E h : h = Body(h)
    <3> HIDE DEF g, Body
    <3> QED
      BY <1>6
  <2> QED
    BY <1>1, <2>1 DEF Flat
<1> HIDE DEF next, g
<1>8. \A i \in 1 .. n : Flat(seqs)[i] = IF i = 1 THEN seqs[i] ELSE Flat(seqs)[i - 1] \o seqs[i]
  BY <1>7
<1>9. Flat(seqs) = [i \in 1 .. n |-> Flat(seqs)[i]]
  BY <1>7
<1> HIDE DEF Body
<1>10. \A i \in 1 .. n : Flat(seqs)[i] \in Seq(X)
  <2> DEFINE I == {m \in 0 .. n : m # 0 => Flat(seqs)[m] \in Seq(X)}
  <2>1. 0 \in I
    OBVIOUS
  <2>2. ASSUME NEW m \in 1 .. n, m - 1 \in I PROVE m \in I
    <3>1. m # 1 => Flat(seqs)[m - 1] \in Seq(X)
      BY <2>2
    <3>2. Flat(seqs)[m] = IF m = 1 THEN seqs[m] ELSE Flat(seqs)[m - 1] \o seqs[m]
      BY <1>8
    <3>3. seqs[m] \in Seq(X)
      OBVIOUS
    <3>4. Flat(seqs)[m] \in Seq(X)
      <4> HIDE DEF I
      <4> QED
        BY <3>1, <3>2, <3>3
    <3> QED
      BY <3>4
  <2>3. 0 .. n \subseteq I
    <3> HIDE DEF I
    <3> QED
      BY <2>1, <2>2, UpTo
  <2> QED
    BY <2>3
<1> QED
  BY <1>1, <1>8, <1>9, <1>10

\* The sequences up to the n-th, and the n-th.
LEMMA FlattenStep ==
  ASSUME NEW X, NEW n \in Nat \ {0}, NEW seqs \in [1 .. n -> Seq(X)]
  PROVE  /\ FlattenSeq(seqs) = FlattenSeq([i \in 1 .. n - 1 |-> seqs[i]]) \o seqs[n]
         /\ FlattenSeq(seqs) \in Seq(X)
<1> DEFINE front == [i \in 1 .. n - 1 |-> seqs[i]]
<1>1. n - 1 \in Nat /\ n \in 1 .. n /\ front \in [1 .. n - 1 -> Seq(X)]
  OBVIOUS
<1>2. /\ Len(seqs) = n /\ Flat(seqs) \in [1 .. n -> Seq(X)]
      /\ \A i \in 1 .. n : Flat(seqs)[i] = IF i = 1 THEN seqs[i] ELSE Flat(seqs)[i - 1] \o seqs[i]
  BY FlatFunction
<1>3. /\ Len(front) = n - 1 /\ Flat(front) \in [1 .. n - 1 -> Seq(X)]
      /\ \A i \in 1 .. n - 1 : Flat(front)[i] = IF i = 1 THEN front[i] ELSE Flat(front)[i - 1] \o front[i]
  <2> HIDE DEF front
  <2> QED
    BY <1>1, FlatFunction
<1>4. FlattenSeq(seqs) = Flat(seqs)[n]
  BY <1>2 DEF FlattenSeq, Flat
<1>5. CASE n = 1
  <2>1. front = <<>> /\ FlattenSeq(front) = <<>>
    BY <1>5 DEF FlattenSeq
  <2> QED
    BY <1>1, <1>2, <1>4, <1>5, <2>1
<1>6. CASE n # 1
  <2>1. FlattenSeq(front) = Flat(front)[n - 1]
    BY <1>1, <1>3, <1>6 DEF FlattenSeq, Flat
  <2> DEFINE I == {m \in 0 .. n - 1 : m # 0 => Flat(front)[m] = Flat(seqs)[m]}
  <2>2. 0 \in I
    BY <1>1
  <2>3. ASSUME NEW m \in 1 .. n - 1, m - 1 \in I PROVE m \in I
    <3>1. m \in 1 .. n /\ front[m] = seqs[m]
      BY <1>1
    <3>2. m # 1 => Flat(front)[m - 1] = Flat(seqs)[m - 1]
      BY <2>3
    <3> HIDE DEF front
    <3>3. Flat(seqs)[m] = IF m = 1 THEN seqs[m] ELSE Flat(seqs)[m - 1] \o seqs[m]
      BY <1>2, <3>1
    <3>4. Flat(front)[m] = IF m = 1 THEN front[m] ELSE Flat(front)[m - 1] \o front[m]
      BY <1>3
    <3>5. Flat(front)[m] = Flat(seqs)[m]
      BY <3>1, <3>2, <3>3, <3>4
    <3> QED
      BY <3>5
  <2>4. 0 .. n - 1 \subseteq I
    <3> HIDE DEF I
    <3> QED
      BY <1>1, <2>2, <2>3, UpTo
  <2>5. n - 1 \in 0 .. n - 1 /\ n - 1 # 0
    BY <1>1, <1>6
  <2>6. Flat(front)[n - 1] = Flat(seqs)[n - 1]
    BY <2>4, <2>5
  <2>7. Flat(seqs)[n] = Flat(seqs)[n - 1] \o seqs[n] /\ Flat(seqs)[n] \in Seq(X)
    BY <1>1, <1>2, <1>6
  <2>8. FlattenSeq(seqs) = FlattenSeq(front) \o seqs[n] /\ FlattenSeq(seqs) \in Seq(X)
    <3> HIDE DEF front, I
    <3> QED
      BY <1>4, <2>1, <2>6, <2>7
  <2> QED
    BY <2>8
<1> QED
  BY <1>5, <1>6

\* All of them together are a sequence of the same elements.
LEMMA FlattenTyped ==
  ASSUME NEW X, NEW n \in Nat, NEW seqs \in [1 .. n -> Seq(X)]
  PROVE  FlattenSeq(seqs) \in Seq(X)
<1>1. CASE n = 0
  <2>1. seqs = <<>>
    BY <1>1
  <2> QED
    BY <2>1 DEF FlattenSeq
<1> QED
  BY <1>1, FlattenStep

---------------------------------------------------------------------------
(* The chunks of a section *)

LineMarks     == {"keep", "delete", "add"}
LinesOf(X)    == [mark : LineMarks, line : X]
Chunks(X)     == [at : Nat, del : Nat, ins : Seq(X)]
Collections(X) ==
  {c \in [mode : LineMarks, old : Nat, del : Nat, ins : Seq(X), chunks : Seq(Chunks(X))] :
     c.del <= c.old /\ (c.mode = "keep" => c.del = 0 /\ c.ins = <<>>)}

\* The chunk being collected.
Pending(c) == [at |-> c.old - c.del, del |-> c.del, ins |-> c.ins]

\* A chunk that is collected is one, and so are those that are done.
LEMMA FlushTyped ==
  ASSUME NEW X, NEW c \in Collections(X)
  PROVE  Flush(c) \in Seq(Chunks(X)) /\ Pending(c) \in Chunks(X)
<1>1. /\ c.old \in Nat /\ c.del \in Nat /\ c.ins \in Seq(X) /\ c.chunks \in Seq(Chunks(X))
      /\ c.old - c.del \in Nat
  BY DEF Collections
<1>2. Pending(c) \in Chunks(X)
  BY <1>1 DEF Pending, Chunks
<1>3. Flush(c) = IF c.ins = <<>> /\ c.del = 0 THEN c.chunks ELSE Append(c.chunks, Pending(c))
  BY DEF Flush, Pending
<1> QED
  BY <1>1, <1>2, <1>3

\* What one more line does.
LEMMA ChunkStep ==
  ASSUME NEW X, NEW c \in Collections(X), NEW l \in LinesOf(X), NEW d, d = Chunk(c, l)
  PROVE  /\ d \in Collections(X)
         /\ l.mark = "keep" => d.old = c.old + 1 /\ d.del = 0 /\ d.ins = <<>> /\ d.chunks = Flush(c)
         /\ l.mark = "delete" => /\ d.old = c.old + 1 /\ d.del = c.del + 1
                                 /\ d.ins = c.ins /\ d.chunks = c.chunks
         /\ l.mark = "add" => /\ d.old = c.old /\ d.del = c.del
                              /\ d.ins = Append(c.ins, l.line) /\ d.chunks = c.chunks
<1>1. /\ c.old \in Nat /\ c.del \in Nat /\ c.ins \in Seq(X) /\ c.chunks \in Seq(Chunks(X))
      /\ c.del <= c.old /\ c.mode \in LineMarks
      /\ c = [mode |-> c.mode, old |-> c.old, del |-> c.del, ins |-> c.ins, chunks |-> c.chunks]
      /\ c.mode = "keep" => c.del = 0 /\ c.ins = <<>>
  BY DEF Collections
<1>2. l.mark \in LineMarks /\ l.line \in X
  BY DEF LinesOf
<1>3. Flush(c) \in Seq(Chunks(X)) /\ (c.mode = "keep" => Flush(c) = c.chunks)
  BY <1>1, FlushTyped DEF Flush
<1>4. CASE l.mark = "keep"
  <2>1. d = [mode |-> "keep", old |-> c.old + 1, del |-> 0, ins |-> <<>>, chunks |-> Flush(c)]
    BY <1>1, <1>3, <1>4 DEF Chunk
  <2>2. d \in [mode : LineMarks, old : Nat, del : Nat, ins : Seq(X), chunks : Seq(Chunks(X))]
    BY <1>1, <1>3, <2>1 DEF LineMarks
  <2> QED
    BY <1>1, <1>4, <2>1, <2>2 DEF Collections
<1>5. CASE l.mark = "delete"
  <2>1. d = [mode |-> "delete", old |-> c.old + 1, del |-> c.del + 1, ins |-> c.ins, chunks |-> c.chunks]
    BY <1>1, <1>5 DEF Chunk
  <2>2. d \in [mode : LineMarks, old : Nat, del : Nat, ins : Seq(X), chunks : Seq(Chunks(X))]
    BY <1>1, <2>1 DEF LineMarks
  <2> QED
    BY <1>1, <1>5, <2>1, <2>2 DEF Collections
<1>6. CASE l.mark = "add"
  <2>1. d = [mode |-> "add", old |-> c.old, del |-> c.del, ins |-> Append(c.ins, l.line), chunks |-> c.chunks]
    BY <1>1, <1>6 DEF Chunk
  <2>2. d \in [mode : LineMarks, old : Nat, del : Nat, ins : Seq(X), chunks : Seq(Chunks(X))]
    BY <1>1, <1>2, <2>1 DEF LineMarks
  <2> QED
    BY <1>1, <1>6, <2>1, <2>2 DEF Collections
<1> QED
  BY <1>2, <1>4, <1>5, <1>6 DEF LineMarks

\* Line by line.
LEMMA CollectedFunction ==
  ASSUME NEW X, NEW place, place.at \in Nat, place.lines \in Seq(LinesOf(X))
  PROVE  /\ Collected(place)[0] =
              [mode |-> "keep", old |-> place.at, del |-> 0, ins |-> <<>>, chunks |-> <<>>]
         /\ \A j \in 1 .. Len(place.lines) :
              Collected(place)[j] = Chunk(Collected(place)[j - 1], place.lines[j])
         /\ \A j \in 0 .. Len(place.lines) : Collected(place)[j] \in Collections(X)
<1> DEFINE n == Len(place.lines)
           S == Collections(X)
           a == [mode |-> "keep", old |-> place.at, del |-> 0, ins |-> <<>>, chunks |-> <<>>]
           next == [p \in (1 .. n) \X S |-> Chunk(p[2], place.lines[p[1]])]
           Body(g) == [j \in 0 .. n |-> IF j = 0 THEN a ELSE Chunk(g[j - 1], place.lines[j])]
<1>1. n \in Nat /\ \A j \in 1 .. n : place.lines[j] \in LinesOf(X)
  OBVIOUS
<1>2. a \in S
  <2>1. a \in [mode : LineMarks, old : Nat, del : Nat, ins : Seq(X), chunks : Seq(Chunks(X))]
    BY DEF LineMarks
  <2> QED
    BY <2>1 DEF Collections
<1>3. \A c \in S, j \in 1 .. n : Chunk(c, place.lines[j]) \in S
  BY <1>1, ChunkStep
<1>4. next \in [(1 .. n) \X S -> S]
  <2> HIDE DEF S
  <2> QED
    BY <1>3
<1>5. PICK f : Iterates(f, n, S, a, next)
  <2> HIDE DEF n, S, a, next
  <2> QED
    BY <1>1, <1>2, <1>4, Recursion
<1>6. /\ f \in [0 .. n -> S] /\ f[0] = a
      /\ \A j \in 1 .. n : f[j] = Chunk(f[j - 1], place.lines[j])
  <2>1. f \in [0 .. n -> S] /\ f[0] = a /\ \A j \in 1 .. n : f[j] = next[<<j, f[j - 1]>>]
    <3> HIDE DEF n, S, a, next
    <3> QED
      BY <1>5 DEF Iterates
  <2>2. ASSUME NEW j \in 1 .. n PROVE f[j] = Chunk(f[j - 1], place.lines[j])
    <3>1. j - 1 \in 0 .. n
      BY <1>1
    <3> HIDE DEF n, S, a
    <3>2. f[j - 1] \in S
      BY <2>1, <3>1
    <3>3. next[<<j, f[j - 1]>>] = Chunk(f[j - 1], place.lines[j])
      BY <3>2
    <3> HIDE DEF next
    <3> QED
      BY <2>1, <3>3
  <2> HIDE DEF n, S, a, next
  <2> QED
    BY <2>1, <2>2
<1> HIDE DEF S, next
<1>7. f = Body(f)
  <2> HIDE DEF n, a
  <2>1. f = [j \in 0 .. n |-> f[j]]
    BY <1>6
  <2>2. \A j \in 0 .. n : f[j] = IF j = 0 THEN a ELSE Chunk(f[j - 1], place.lines[j])
    <3>1. \A j \in 0 .. n : j # 0 => j \in 1 .. n
      BY <1>1
    <3> QED
      BY <1>6, <3>1
  <2> QED
    BY <2>1, <2>2
<1>8. Collected(place) = Body(Collected(place))
  <2>1. \E g : g = Body(g)
    <3> HIDE DEF Body
    <3> QED
      BY <1>7
  <2> QED
    BY <2>1 DEF Collected
<1>9. Collected(place)[0] = a
  BY <1>1, <1>8
<1>10. \A j \in 1 .. n : Collected(place)[j] = Chunk(Collected(place)[j - 1], place.lines[j])
  <2>1. \A j \in 1 .. n : j \in 0 .. n /\ j # 0
    BY <1>1
  <2> QED
    BY <1>8, <2>1
<1> HIDE DEF Body
<1>11. \A j \in 0 .. n : Collected(place)[j] \in S
  <2> DEFINE I == {j \in 0 .. n : Collected(place)[j] \in S}
  <2> HIDE DEF n, a
  <2>1. 0 \in I
    BY <1>1, <1>2, <1>9
  <2>2. ASSUME NEW j \in 1 .. n, j - 1 \in I PROVE j \in I
    <3>1. Chunk(Collected(place)[j - 1], place.lines[j]) \in S
      BY <1>3, <2>2
    <3>2. j \in 0 .. n
      BY <1>1
    <3> QED
      BY <1>10, <3>1, <3>2
  <2>3. 0 .. n \subseteq I
    <3> HIDE DEF I
    <3> QED
      BY <1>1, <2>1, <2>2, UpTo
  <2> QED
    BY <2>3
<1> QED
  BY <1>9, <1>10, <1>11 DEF S

---------------------------------------------------------------------------
(* The chunks are applied *)

Updates(X) == [status : {"ok", "error"}, dest : Seq(X), index : Nat]

\* What a chunk adds, and when it is refused.
LEMMA ApplyTyped ==
  ASSUME NEW X, NEW file \in Seq(X), NEW u \in Updates(X), NEW c \in Chunks(X)
  PROVE  /\ Apply(file, u, c) \in Updates(X)
         /\ Apply(file, u, c).status = "ok" =>
              /\ u.status = "ok" /\ c.at <= Len(file) /\ u.index <= c.at
              /\ Apply(file, u, c).dest = u.dest \o SubSeq(file, u.index + 1, c.at) \o c.ins
              /\ Apply(file, u, c).index = c.at + c.del
         /\ u.status = "ok" /\ c.at <= Len(file) /\ u.index <= c.at => Apply(file, u, c).status = "ok"
<1> DEFINE refused == u.status # "ok" \/ c.at > Len(file) \/ u.index > c.at
           dest == u.dest \o SubSeq(file, u.index + 1, c.at) \o c.ins
<1>1. /\ u.status \in {"ok", "error"} /\ u.dest \in Seq(X) /\ u.index \in Nat
      /\ u = [status |-> u.status, dest |-> u.dest, index |-> u.index]
  BY DEF Updates
<1>2. c.at \in Nat /\ c.del \in Nat /\ c.ins \in Seq(X) /\ Len(file) \in Nat
  BY DEF Chunks
<1>3. CASE refused
  <2>1. Apply(file, u, c) = [status |-> "error", dest |-> u.dest, index |-> u.index]
    BY <1>1, <1>3 DEF Apply
  <2>2. ~(u.status = "ok" /\ c.at <= Len(file) /\ u.index <= c.at)
    BY <1>1, <1>2, <1>3
  <2> QED
    BY <1>1, <2>1, <2>2 DEF Updates
<1>4. CASE ~refused
  <2>1. Apply(file, u, c) = [status |-> u.status, dest |-> dest, index |-> c.at + c.del]
    BY <1>1, <1>4 DEF Apply
  <2>2. dest \in Seq(X)
    <3>1. SubSeq(file, u.index + 1, c.at) \in Seq(X)
      BY <1>1, <1>2, <1>4
    <3> QED
      BY <1>1, <1>2, <3>1
  <2> HIDE DEF dest
  <2>3. Apply(file, u, c) \in Updates(X)
    BY <1>1, <1>2, <2>1, <2>2 DEF Updates
  <2>4. /\ Apply(file, u, c).status = u.status
        /\ Apply(file, u, c).dest = dest /\ Apply(file, u, c).index = c.at + c.del
    BY <2>1
  <2>5. u.status = "ok" /\ c.at <= Len(file) /\ u.index <= c.at
    BY <1>1, <1>2, <1>4
  <2> QED
    BY <2>3, <2>4, <2>5 DEF dest
<1> QED
  BY <1>3, <1>4

\* A chunk that begins where another does is applied as that one is.
LEMMA ApplyLike ==
  ASSUME NEW X, NEW file \in Seq(X), NEW u \in Updates(X), NEW p \in Chunks(X), NEW q \in Chunks(X),
         p.at = q.at, Apply(file, u, p).status = "ok"
  PROVE  /\ Apply(file, u, q).status = "ok"
         /\ Apply(file, u, q).dest = u.dest \o SubSeq(file, u.index + 1, p.at) \o q.ins
         /\ Apply(file, u, q).index = q.at + q.del
<1>1. u.status = "ok" /\ q.at <= Len(file) /\ u.index <= q.at
  BY ApplyTyped
<1>2. Apply(file, u, q).status = "ok"
  BY <1>1, ApplyTyped
<1>3. u = [status |-> u.status, dest |-> u.dest, index |-> u.index]
  BY DEF Updates
<1> DEFINE dest == u.dest \o SubSeq(file, u.index + 1, q.at) \o q.ins
<1>4. ~(u.status # "ok" \/ q.at > Len(file) \/ u.index > q.at)
  BY <1>1 DEF Updates, Chunks
<1>5. Apply(file, u, q) = [status |-> u.status, dest |-> dest, index |-> q.at + q.del]
  BY <1>3, <1>4 DEF Apply
<1> HIDE DEF dest
<1>6. Apply(file, u, q).dest = dest /\ Apply(file, u, q).index = q.at + q.del
  BY <1>5
<1> QED
  BY <1>2, <1>6 DEF dest

Applied(file, chunks) ==
  LET u[m \in 0 .. Len(chunks)] ==
        IF m = 0 THEN [status |-> "ok", dest |-> <<>>, index |-> 0]
        ELSE Apply(file, u[m - 1], chunks[m])
  IN u

\* Chunk by chunk.
LEMMA AppliedFunction ==
  ASSUME NEW X, NEW file \in Seq(X), NEW chunks \in Seq(Chunks(X))
  PROVE  /\ Applied(file, chunks)[0] = [status |-> "ok", dest |-> <<>>, index |-> 0]
         /\ \A m \in 1 .. Len(chunks) :
              Applied(file, chunks)[m] = Apply(file, Applied(file, chunks)[m - 1], chunks[m])
         /\ \A m \in 0 .. Len(chunks) : Applied(file, chunks)[m] \in Updates(X)
<1> DEFINE n == Len(chunks)
           S == Updates(X)
           a == [status |-> "ok", dest |-> <<>>, index |-> 0]
           next == [p \in (1 .. n) \X S |-> Apply(file, p[2], chunks[p[1]])]
           Body(g) == [m \in 0 .. n |-> IF m = 0 THEN a ELSE Apply(file, g[m - 1], chunks[m])]
<1>1. n \in Nat /\ \A m \in 1 .. n : chunks[m] \in Chunks(X)
  OBVIOUS
<1>2. a \in S
  BY DEF Updates
<1>3. \A u \in S, m \in 1 .. n : Apply(file, u, chunks[m]) \in S
  BY <1>1, ApplyTyped
<1>4. next \in [(1 .. n) \X S -> S]
  <2> HIDE DEF S
  <2> QED
    BY <1>3
<1>5. PICK f : Iterates(f, n, S, a, next)
  <2> HIDE DEF n, S, a, next
  <2> QED
    BY <1>1, <1>2, <1>4, Recursion
<1>6. /\ f \in [0 .. n -> S] /\ f[0] = a
      /\ \A m \in 1 .. n : f[m] = Apply(file, f[m - 1], chunks[m])
  <2>1. f \in [0 .. n -> S] /\ f[0] = a /\ \A m \in 1 .. n : f[m] = next[<<m, f[m - 1]>>]
    <3> HIDE DEF n, S, a, next
    <3> QED
      BY <1>5 DEF Iterates
  <2>2. ASSUME NEW m \in 1 .. n PROVE f[m] = Apply(file, f[m - 1], chunks[m])
    <3>1. m - 1 \in 0 .. n
      BY <1>1
    <3> HIDE DEF n, S, a
    <3>2. f[m - 1] \in S
      BY <2>1, <3>1
    <3>3. next[<<m, f[m - 1]>>] = Apply(file, f[m - 1], chunks[m])
      BY <3>2
    <3> HIDE DEF next
    <3> QED
      BY <2>1, <3>3
  <2> HIDE DEF n, S, a, next
  <2> QED
    BY <2>1, <2>2
<1> HIDE DEF S, next
<1>7. f = Body(f)
  <2> HIDE DEF n, a
  <2>1. f = [m \in 0 .. n |-> f[m]]
    BY <1>6
  <2>2. \A m \in 0 .. n : f[m] = IF m = 0 THEN a ELSE Apply(file, f[m - 1], chunks[m])
    <3>1. \A m \in 0 .. n : m # 0 => m \in 1 .. n
      BY <1>1
    <3> QED
      BY <1>6, <3>1
  <2> QED
    BY <2>1, <2>2
<1>8. Applied(file, chunks) = Body(Applied(file, chunks))
  <2>1. \E g : g = Body(g)
    <3> HIDE DEF Body
    <3> QED
      BY <1>7
  <2> QED
    BY <2>1 DEF Applied
<1>9. Applied(file, chunks)[0] = a
  BY <1>1, <1>8
<1>10. \A m \in 1 .. n : Applied(file, chunks)[m] = Apply(file, Applied(file, chunks)[m - 1], chunks[m])
  <2>1. \A m \in 1 .. n : m \in 0 .. n /\ m # 0
    BY <1>1
  <2> QED
    BY <1>8, <2>1
<1> HIDE DEF Body
<1>11. \A m \in 0 .. n : Applied(file, chunks)[m] \in S
  <2> DEFINE I == {m \in 0 .. n : Applied(file, chunks)[m] \in S}
  <2> HIDE DEF n, a
  <2>1. 0 \in I
    BY <1>1, <1>2, <1>9
  <2>2. ASSUME NEW m \in 1 .. n, m - 1 \in I PROVE m \in I
    <3>1. Apply(file, Applied(file, chunks)[m - 1], chunks[m]) \in S
      BY <1>3, <2>2
    <3>2. m \in 0 .. n
      BY <1>1
    <3> QED
      BY <1>10, <3>1, <3>2
  <2>3. 0 .. n \subseteq I
    <3> HIDE DEF I
    <3> QED
      BY <1>1, <2>1, <2>2, UpTo
  <2> QED
    BY <2>3
<1> QED
  BY <1>9, <1>10, <1>11 DEF S

\* One chunk more.
LEMMA ApplyAllStep ==
  ASSUME NEW X, NEW file \in Seq(X), NEW chunks \in Seq(Chunks(X)), NEW c \in Chunks(X)
  PROVE  /\ ApplyAll(file, chunks) \in Updates(X)
         /\ ApplyAll(file, Append(chunks, c)) = Apply(file, ApplyAll(file, chunks), c)
<1> DEFINE n == Len(chunks)
           more == Append(chunks, c)
<1>1. /\ n \in Nat /\ more \in Seq(Chunks(X)) /\ Len(more) = n + 1 /\ more[n + 1] = c
      /\ \A m \in 1 .. n : more[m] = chunks[m]
  OBVIOUS
<1>2. \A cs : ApplyAll(file, cs) = Applied(file, cs)[Len(cs)]
  BY DEF ApplyAll, Applied
<1>3. /\ Applied(file, chunks)[0] = [status |-> "ok", dest |-> <<>>, index |-> 0]
      /\ \A m \in 1 .. n : Applied(file, chunks)[m] = Apply(file, Applied(file, chunks)[m - 1], chunks[m])
      /\ \A m \in 0 .. n : Applied(file, chunks)[m] \in Updates(X)
  BY AppliedFunction
<1> HIDE DEF more
<1>4. /\ Applied(file, more)[0] = [status |-> "ok", dest |-> <<>>, index |-> 0]
      /\ \A m \in 1 .. n + 1 : Applied(file, more)[m] = Apply(file, Applied(file, more)[m - 1], more[m])
  BY <1>1, AppliedFunction
<1> HIDE DEF n
<1>5. Applied(file, more)[n] = Applied(file, chunks)[n]
  <2> DEFINE I == {m \in 0 .. n : Applied(file, more)[m] = Applied(file, chunks)[m]}
  <2>1. 0 \in I
    BY <1>1, <1>3, <1>4
  <2>2. ASSUME NEW m \in 1 .. n, m - 1 \in I PROVE m \in I
    <3>1. m \in 0 .. n /\ m \in 1 .. n + 1 /\ more[m] = chunks[m]
      BY <1>1
    <3>2. Applied(file, more)[m - 1] = Applied(file, chunks)[m - 1]
      BY <2>2
    <3>3. Applied(file, more)[m] = Applied(file, chunks)[m]
      <4> HIDE DEF I
      <4> QED
        BY <1>3, <1>4, <3>1, <3>2
    <3> QED
      BY <3>1, <3>3
  <2>3. 0 .. n \subseteq I
    <3> HIDE DEF I
    <3> QED
      BY <1>1, <2>1, <2>2, UpTo
  <2> QED
    BY <1>1, <2>3
<1>6. ApplyAll(file, chunks) = Applied(file, chunks)[n] /\ ApplyAll(file, chunks) \in Updates(X)
  <2>1. n \in 0 .. n
    BY <1>1
  <2>2. ApplyAll(file, chunks) = Applied(file, chunks)[n]
    BY <1>2 DEF n
  <2> QED
    BY <1>3, <2>1, <2>2
<1>7. ApplyAll(file, more) = Apply(file, Applied(file, more)[n], c)
  <2>1. n + 1 \in 1 .. n + 1 /\ (n + 1) - 1 = n
    BY <1>1
  <2> QED
    BY <1>1, <1>2, <1>4, <2>1
<1> QED
  BY <1>5, <1>6, <1>7 DEF more

---------------------------------------------------------------------------
(* What the marks make of the file's lines *)

MarkedLines(X) == [mark : LineMarks, line : X, before : Nat]

\* The lines of the file up to the i-th, as they are described.
Upto(file, marked, i) == FlattenSeq([n \in 1 .. i + 1 |-> Slot(file, marked, n - 1)])

\* What a mark more adds behind a line of the file.
LEMMA AddedStep ==
  ASSUME NEW X, NEW marked \in Seq(MarkedLines(X)), NEW x \in MarkedLines(X), NEW i \in Nat
  PROVE  /\ Added(marked, i) \in Seq(X)
         /\ Added(Append(marked, x), i) =
              Added(marked, i) \o (IF x.mark = "add" /\ x.before = i THEN <<x.line>> ELSE <<>>)
<1> DEFINE Of(y) == IF y.mark = "add" /\ y.before = i THEN <<y.line>> ELSE <<>>
           n == Len(marked)
           more == Append(marked, x)
           these == [m \in 1 .. n |-> Of(marked[m])]
           those == [m \in 1 .. n + 1 |-> Of(more[m])]
<1>1. n \in Nat /\ DOMAIN marked = 1 .. n /\ DOMAIN more = 1 .. n + 1 /\ more[n + 1] = x
  OBVIOUS
<1>2. \A m \in 1 .. n : more[m] = marked[m] /\ marked[m] \in MarkedLines(X)
  OBVIOUS
<1>3. \A y \in MarkedLines(X) : Of(y) \in Seq(X)
  BY DEF MarkedLines
<1>4. Added(marked, i) = FlattenSeq(these) /\ Added(more, i) = FlattenSeq(those)
  BY <1>1 DEF Added
<1> HIDE DEF n, more, Of
<1>5. these \in [1 .. n -> Seq(X)]
  BY <1>2, <1>3
<1>6. those \in [1 .. n + 1 -> Seq(X)]
  <2>1. \A m \in 1 .. n + 1 : m \in 1 .. n \/ m = n + 1
    BY <1>1
  <2> QED
    BY <1>1, <1>2, <1>3, <2>1
<1>7. [m \in 1 .. (n + 1) - 1 |-> those[m]] = these
  <2>1. (n + 1) - 1 = n /\ \A m \in 1 .. n : m \in 1 .. n + 1
    BY <1>1
  <2> QED
    BY <1>2, <2>1
<1>8. those[n + 1] = Of(x)
  BY <1>1
<1> HIDE DEF these
<1>9. FlattenSeq(these) \in Seq(X)
  BY <1>1, <1>5, FlattenTyped
<1>10. FlattenSeq(those) = FlattenSeq(these) \o Of(x)
  <2>1. n + 1 \in Nat \ {0}
    BY <1>1
  <2>2. FlattenSeq(those) = FlattenSeq([m \in 1 .. (n + 1) - 1 |-> those[m]]) \o those[n + 1]
    <3> HIDE DEF those
    <3> QED
      BY <1>6, <2>1, FlattenStep
  <2> HIDE DEF those
  <2> QED
    BY <1>7, <1>8, <2>2
<1> QED
  BY <1>4, <1>9, <1>10 DEF more, Of

\* What a mark more deletes.
LEMMA DeletedStep ==
  ASSUME NEW X, NEW marked \in Seq(MarkedLines(X)), NEW x \in MarkedLines(X), NEW i \in Nat
  PROVE  Deleted(Append(marked, x), i) <=> Deleted(marked, i) \/ (x.mark = "delete" /\ x.before = i - 1)
<1> DEFINE more == Append(marked, x)
           n == Len(marked)
<1>1. n \in Nat /\ DOMAIN marked = 1 .. n /\ DOMAIN more = 1 .. n + 1 /\ more[n + 1] = x
  OBVIOUS
<1>2. \A m \in 1 .. n : more[m] = marked[m]
  OBVIOUS
<1> HIDE DEF more, n
<1>3. \A m \in 1 .. n + 1 : m \in 1 .. n \/ m = n + 1
  BY <1>1
<1>4. \A m \in 1 .. n : m \in 1 .. n + 1
  BY <1>1
<1>5. n + 1 \in 1 .. n + 1
  BY <1>1
<1>6. Deleted(more, i) <=> Deleted(marked, i) \/ (x.mark = "delete" /\ x.before = i - 1)
  BY <1>1, <1>2, <1>3, <1>4, <1>5 DEF Deleted
<1> QED
  BY <1>6 DEF more

\* What becomes of a line of the file is a sequence of lines.
LEMMA SlotTyped ==
  ASSUME NEW X, NEW file \in Seq(X), NEW marked \in Seq(MarkedLines(X)), NEW i \in 0 .. Len(file)
  PROVE  Slot(file, marked, i) \in Seq(X) /\ Added(marked, i) \in Seq(X)
<1>1. Added(marked, i) \in Seq(X)
  <2> DEFINE these == [m \in 1 .. Len(marked) |->
                        IF marked[m].mark = "add" /\ marked[m].before = i THEN <<marked[m].line>> ELSE <<>>]
  <2>1. these \in [1 .. Len(marked) -> Seq(X)] /\ Len(marked) \in Nat
    <3>1. \A m \in 1 .. Len(marked) : marked[m] \in MarkedLines(X)
      OBVIOUS
    <3>2. \A m \in 1 .. Len(marked) : marked[m].line \in X
      BY <3>1 DEF MarkedLines
    <3> QED
      BY <3>2
  <2>2. Added(marked, i) = FlattenSeq(these)
    BY DEF Added
  <2> HIDE DEF these
  <2> QED
    BY <2>1, <2>2, FlattenTyped
<1>2. i # 0 => file[i] \in X
  OBVIOUS
<1> QED
  BY <1>1, <1>2 DEF Slot

\* Line by line of the file.
LEMMA UptoStep ==
  ASSUME NEW X, NEW file \in Seq(X), NEW marked \in Seq(MarkedLines(X)), NEW i \in 0 .. Len(file)
  PROVE  /\ Upto(file, marked, i) \in Seq(X)
         /\ i = 0 => Upto(file, marked, i) = Added(marked, 0)
         /\ i # 0 => Upto(file, marked, i) = Upto(file, marked, i - 1) \o Slot(file, marked, i)
<1> DEFINE slots == [n \in 1 .. i + 1 |-> Slot(file, marked, n - 1)]
<1>1. i \in Nat /\ i + 1 \in Nat \ {0} /\ (i + 1) - 1 = i /\ \A n \in 1 .. i + 1 : n - 1 \in 0 .. Len(file)
  OBVIOUS
<1>2. slots \in [1 .. i + 1 -> Seq(X)]
  BY <1>1, SlotTyped
<1>3. slots[i + 1] = Slot(file, marked, i)
  BY <1>1
<1>4. [n \in 1 .. (i + 1) - 1 |-> slots[n]] = [n \in 1 .. i |-> Slot(file, marked, n - 1)]
  <2>1. \A n \in 1 .. i : n \in 1 .. i + 1
    BY <1>1
  <2> QED
    BY <1>1, <2>1
<1>5. Upto(file, marked, i) = FlattenSeq(slots)
  BY DEF Upto
<1> HIDE DEF slots
<1>6. FlattenSeq(slots) = FlattenSeq([n \in 1 .. (i + 1) - 1 |-> slots[n]]) \o slots[i + 1]
      /\ FlattenSeq(slots) \in Seq(X)
  BY <1>1, <1>2, FlattenStep
<1>7. CASE i = 0
  <2>1. [n \in 1 .. i |-> Slot(file, marked, n - 1)] = <<>>
    BY <1>7
  <2>2. Slot(file, marked, i) = Added(marked, 0) /\ Slot(file, marked, i) \in Seq(X)
    BY <1>7, SlotTyped DEF Slot
  <2>3. FlattenSeq(<<>>) = <<>>
    BY DEF FlattenSeq
  <2> QED
    BY <1>3, <1>4, <1>5, <1>6, <1>7, <2>1, <2>2, <2>3
<1>8. CASE i # 0
  <2>1. (i - 1) + 1 = i
    BY <1>1
  <2>2. Upto(file, marked, i - 1) = FlattenSeq([n \in 1 .. i |-> Slot(file, marked, n - 1)])
    BY <2>1 DEF Upto
  <2> QED
    BY <1>3, <1>4, <1>5, <1>6, <1>8, <2>2
<1> QED
  BY <1>7, <1>8

\* So far the file is as it is described, and from there on nothing is said of it.
Agree(file, marked, i, dest) ==
  /\ dest = Upto(file, marked, i)
  /\ \A q \in i + 1 .. Len(file) : ~Deleted(marked, q) /\ Added(marked, q) = <<>>

\* Up to there the descriptions are the same.
LEMMA UptoSame ==
  ASSUME NEW file, NEW marked, NEW more, NEW i \in Nat,
         \A q \in 0 .. i : (q # 0 => (Deleted(marked, q) <=> Deleted(more, q))) /\ Added(marked, q) = Added(more, q)
  PROVE  Upto(file, more, i) = Upto(file, marked, i)
<1>1. \A q \in 0 .. i : Slot(file, more, q) = Slot(file, marked, q)
  BY DEF Slot
<1>2. \A n \in 1 .. i + 1 : n - 1 \in 0 .. i
  OBVIOUS
<1> QED
  BY <1>1, <1>2 DEF Upto

\* The lines nothing is said of are copied.
LEMMA AgreeFurther ==
  ASSUME NEW X, NEW file \in Seq(X), NEW marked \in Seq(MarkedLines(X)), NEW i \in 0 .. Len(file),
         NEW b \in i .. Len(file), NEW dest, Agree(file, marked, i, dest)
  PROVE  Agree(file, marked, b, dest \o SubSeq(file, i + 1, b)) /\ dest \in Seq(X)
<1> DEFINE I == {k \in 0 .. b - i : Upto(file, marked, i + k) = dest \o SubSeq(file, i + 1, i + k)}
<1>1. i \in Nat /\ b \in Nat /\ i <= b /\ b <= Len(file) /\ Len(file) \in Nat /\ b - i \in Nat
  OBVIOUS
<1>2. dest = Upto(file, marked, i) /\ dest \in Seq(X)
  BY UptoStep DEF Agree
<1>3. 0 \in I
  <2>1. SubSeq(file, i + 1, i + 0) = <<>> /\ i + 0 = i
    BY <1>1
  <2>2. dest \o <<>> = dest
    BY <1>2
  <2> QED
    BY <1>1, <1>2, <2>1, <2>2
<1>4. ASSUME NEW k \in 1 .. b - i, k - 1 \in I PROVE k \in I
  <2>1. /\ i + k \in 0 .. Len(file) /\ i + k # 0 /\ (i + k) - 1 = i + (k - 1)
        /\ i + k \in i + 1 .. Len(file) /\ k \in 0 .. b - i
    BY <1>1
  <2>2. Upto(file, marked, i + (k - 1)) = dest \o SubSeq(file, i + 1, i + (k - 1))
    BY <1>4
  <2>3. Upto(file, marked, i + k) = Upto(file, marked, i + (k - 1)) \o Slot(file, marked, i + k)
    <3> DEFINE e == i + k
    <3>1. e \in 0 .. Len(file) /\ e # 0 /\ e - 1 = i + (k - 1)
      BY <2>1
    <3> HIDE DEF e
    <3>2. Upto(file, marked, e) = Upto(file, marked, e - 1) \o Slot(file, marked, e)
      BY <3>1, UptoStep
    <3> QED
      BY <3>1, <3>2 DEF e
  <2>4. Slot(file, marked, i + k) = <<file[i + k]>>
    <3>1. ~Deleted(marked, i + k) /\ Added(marked, i + k) = <<>>
      BY <2>1 DEF Agree
    <3>2. Slot(file, marked, i + k) = <<file[i + k]>> \o <<>>
      BY <2>1, <3>1 DEF Slot
    <3> QED
      BY <3>2
  <2>5. SubSeq(file, i + 1, i + k) = SubSeq(file, i + 1, i + (k - 1)) \o <<file[i + k]>>
    BY <1>1, <2>1
  <2>6. (dest \o SubSeq(file, i + 1, i + (k - 1))) \o <<file[i + k]>>
          = dest \o (SubSeq(file, i + 1, i + (k - 1)) \o <<file[i + k]>>)
    <3> DEFINE s == SubSeq(file, i + 1, i + (k - 1))
               t == <<file[i + k]>>
    <3>1. s \in Seq(X) /\ t \in Seq(X)
      BY <1>1, <2>1
    <3> HIDE DEF s, t
    <3>2. (dest \o s) \o t = dest \o (s \o t)
      BY <1>2, <3>1, ConcatAssociative, SMTT(60)
    <3> QED
      BY <3>2 DEF s, t
  <2>7. Upto(file, marked, i + k) = dest \o SubSeq(file, i + 1, i + k)
    <3> HIDE DEF I
    <3> QED
      BY <2>2, <2>3, <2>4, <2>5, <2>6
  <2> QED
    BY <2>1, <2>7
<1>5. b - i \in I
  <2> HIDE DEF I
  <2>1. 0 .. b - i \subseteq I
    <3> DEFINE n == b - i
    <3>1. n \in Nat /\ \A k \in 1 .. n : k - 1 \in I => k \in I
      BY <1>1, <1>4
    <3> HIDE DEF n
    <3>2. 0 .. n \subseteq I
      BY <1>3, <3>1, UpTo
    <3> QED
      BY <3>2 DEF n
  <2>2. b - i \in 0 .. b - i
    BY <1>1
  <2> QED
    BY <2>1, <2>2
<1>6. i + (b - i) = b
  BY <1>1
<1>7. Upto(file, marked, b) = dest \o SubSeq(file, i + 1, b)
  BY <1>5, <1>6
<1>8. \A q \in b + 1 .. Len(file) : q \in i + 1 .. Len(file)
  BY <1>1
<1> QED
  BY <1>2, <1>7, <1>8 DEF Agree

\* What the next line of a section adds to that: a line to keep nothing, one to add
\* itself, and one to delete that the file's next line is left out.
LEMMA AgreeStep ==
  ASSUME NEW X, NEW file \in Seq(X), NEW marked \in Seq(MarkedLines(X)), NEW x \in MarkedLines(X),
         NEW i \in 0 .. Len(file), NEW dest, Agree(file, marked, i, dest)
  PROVE  /\ x.mark = "keep" => Agree(file, Append(marked, x), i, dest)
         /\ x.mark = "add" /\ x.before = i => Agree(file, Append(marked, x), i, dest \o <<x.line>>)
         /\ x.mark = "delete" /\ x.before = i /\ i < Len(file) => Agree(file, Append(marked, x), i + 1, dest)
<1> DEFINE more == Append(marked, x)
<1>1. /\ dest = Upto(file, marked, i) /\ dest \in Seq(X)
      /\ \A q \in i + 1 .. Len(file) : ~Deleted(marked, q) /\ Added(marked, q) = <<>>
  BY UptoStep DEF Agree
<1>2. /\ more \in Seq(MarkedLines(X)) /\ i \in Nat /\ Len(file) \in Nat /\ i <= Len(file)
      /\ x.mark \in LineMarks /\ x.line \in X /\ x.before \in Nat
  BY DEF MarkedLines
<1>3. \A q \in Nat :
        /\ Added(more, q) = Added(marked, q) \o (IF x.mark = "add" /\ x.before = q THEN <<x.line>> ELSE <<>>)
        /\ Added(marked, q) \in Seq(X)
        /\ Deleted(more, q) <=> Deleted(marked, q) \/ (x.mark = "delete" /\ x.before = q - 1)
  BY AddedStep, DeletedStep
<1> HIDE DEF more
<1>4. \A q \in Nat : ~(x.mark = "add" /\ x.before = q) => Added(more, q) = Added(marked, q)
  <2>1. ASSUME NEW q \in Nat, ~(x.mark = "add" /\ x.before = q) PROVE Added(more, q) = Added(marked, q)
    <3>1. Added(more, q) = Added(marked, q) \o <<>> /\ Added(marked, q) \in Seq(X)
      BY <1>3, <2>1
    <3> QED
      BY <3>1, ConcatEmptySeq
  <2> QED
    BY <2>1
<1>5. /\ \A q \in 0 .. i : q \in Nat
      /\ \A q \in i + 1 .. Len(file) : q \in Nat /\ q # i
  BY <1>2
<1>6. ASSUME x.mark = "keep" PROVE Agree(file, more, i, dest)
  <2>1. \A q \in Nat : Added(more, q) = Added(marked, q) /\ (Deleted(more, q) <=> Deleted(marked, q))
    BY <1>3, <1>4, <1>6
  <2>2. Upto(file, more, i) = Upto(file, marked, i)
    BY <1>2, <1>5, <2>1, UptoSame
  <2> QED
    BY <1>1, <1>5, <2>1, <2>2 DEF Agree
<1>7. ASSUME x.mark = "add", x.before = i PROVE Agree(file, more, i, dest \o <<x.line>>)
  <2>1. \A q \in Nat : Deleted(more, q) <=> Deleted(marked, q)
    BY <1>3, <1>7
  <2>2. \A q \in Nat : q # i => Added(more, q) = Added(marked, q)
    BY <1>4, <1>7
  <2>3. Added(more, i) = Added(marked, i) \o <<x.line>> /\ Added(marked, i) \in Seq(X)
    BY <1>2, <1>3, <1>7
  <2>4. Upto(file, more, i) = Upto(file, marked, i) \o <<x.line>>
    <3>1. CASE i = 0
      <4>1. Upto(file, more, i) = Added(more, 0) /\ Upto(file, marked, i) = Added(marked, 0)
        BY <1>2, <3>1, UptoStep
      <4> QED
        BY <2>3, <3>1, <4>1
    <3>2. CASE i # 0
      <4>1. i - 1 \in Nat /\ i - 1 \in 0 .. Len(file) /\ \A q \in 0 .. i - 1 : q \in Nat /\ q # i
        BY <1>2, <3>2
      <4>2. Upto(file, more, i - 1) = Upto(file, marked, i - 1)
        <5> DEFINE p == i - 1
        <5>1. /\ p \in Nat
              /\ \A q \in 0 .. p : (q # 0 => (Deleted(marked, q) <=> Deleted(more, q)))
                                   /\ Added(marked, q) = Added(more, q)
          BY <2>1, <2>2, <4>1
        <5> HIDE DEF p
        <5>2. Upto(file, more, p) = Upto(file, marked, p)
          BY <5>1, UptoSame
        <5> QED
          BY <5>2 DEF p
      <4>3. /\ Upto(file, more, i) = Upto(file, more, i - 1) \o Slot(file, more, i)
            /\ Upto(file, marked, i) = Upto(file, marked, i - 1) \o Slot(file, marked, i)
        BY <1>2, <3>2, UptoStep
      <4> DEFINE own == IF Deleted(marked, i) THEN <<>> ELSE <<file[i]>>
                 up  == Upto(file, marked, i - 1)
      <4>4. /\ Slot(file, more, i) = own \o Added(more, i)
            /\ Slot(file, marked, i) = own \o Added(marked, i)
        BY <1>2, <2>1, <3>2 DEF Slot
      <4>5. own \in Seq(X) /\ up \in Seq(X) /\ <<x.line>> \in Seq(X)
        BY <1>2, <3>2, <4>1, UptoStep
      <4>6. own \o Added(marked, i) \in Seq(X)
        BY <2>3, <4>5
      <4> HIDE DEF own, up
      <4>7. own \o (Added(marked, i) \o <<x.line>>) = (own \o Added(marked, i)) \o <<x.line>>
        BY <2>3, <4>5, ConcatAssociative, SMTT(60)
      <4>8. up \o ((own \o Added(marked, i)) \o <<x.line>>) = (up \o (own \o Added(marked, i))) \o <<x.line>>
        BY <4>5, <4>6, ConcatAssociative, SMTT(60)
      <4> QED
        BY <2>3, <4>2, <4>3, <4>4, <4>7, <4>8 DEF up
    <3> QED
      BY <3>1, <3>2
  <2> QED
    BY <1>1, <1>5, <2>1, <2>2, <2>4 DEF Agree
<1>8. ASSUME x.mark = "delete", x.before = i, i < Len(file) PROVE Agree(file, more, i + 1, dest)
  <2>1. \A q \in Nat : Added(more, q) = Added(marked, q)
    BY <1>4, <1>8
  <2>2. \A q \in Nat : q # i + 1 => (Deleted(more, q) <=> Deleted(marked, q))
    <3>1. \A q \in Nat : q # i + 1 => q - 1 # i
      BY <1>2
    <3> QED
      BY <1>3, <1>8, <3>1
  <2> DEFINE e == i + 1
  <2>3. e \in 0 .. Len(file) /\ e # 0 /\ e \in Nat /\ e - 1 = i /\ e \in i + 1 .. Len(file)
    BY <1>2, <1>8
  <2>4. Deleted(more, e) /\ Added(more, e) = <<>>
    BY <1>1, <1>3, <1>8, <2>1, <2>3
  <2>5. Slot(file, more, e) = <<>>
    <3>1. Slot(file, more, e) = <<>> \o Added(more, e)
      BY <2>4 DEF Slot
    <3> QED
      BY <2>4, <3>1
  <2>6. Upto(file, more, i) = Upto(file, marked, i)
    <3>1. \A q \in 0 .. i : q \in Nat /\ q # i + 1
      BY <1>2
    <3> QED
      BY <1>2, <2>1, <2>2, <3>1, UptoSame
  <2>7. \A q \in e + 1 .. Len(file) : q \in Nat /\ q # i + 1 /\ q \in i + 1 .. Len(file)
    BY <1>2
  <2> HIDE DEF e
  <2>8. Upto(file, more, e) = Upto(file, more, i) \o Slot(file, more, e)
    BY <1>2, <2>3, UptoStep
  <2>9. Upto(file, more, e) = dest
    <3>1. dest \o <<>> = dest
      BY <1>1, ConcatEmptySeq
    <3> QED
      BY <1>1, <2>5, <2>6, <2>8, <3>1
  <2>10. Agree(file, more, e, dest)
    BY <1>1, <2>1, <2>2, <2>7, <2>9 DEF Agree
  <2> QED
    BY <2>10 DEF e
<1> QED
  BY <1>6, <1>7, <1>8 DEF more

\* The chunks so far make of the file what the marks so far describe.
Good(file, chunks, marked) ==
  ApplyAll(file, chunks).status = "ok" =>
    /\ ApplyAll(file, chunks).index <= Len(file)
    /\ Agree(file, marked, ApplyAll(file, chunks).index, ApplyAll(file, chunks).dest)

\* One line more of a section.
LEMMA GoodStep ==
  ASSUME NEW X, NEW file \in Seq(X), NEW before \in Seq(Chunks(X)), NEW marked \in Seq(MarkedLines(X)),
         NEW c \in Collections(X), NEW l \in LinesOf(X), NEW x,
         x = [mark |-> l.mark, line |-> l.line, before |-> c.old],
         c.old <= Len(file), l.mark # "add" => c.old < Len(file),
         Good(file, before \o Flush(c), marked)
  PROVE  x \in MarkedLines(X) /\ Good(file, before \o Flush(Chunk(c, l)), Append(marked, x))
<1> DEFINE d == Chunk(c, l)
<1>1. /\ d \in Collections(X)
      /\ l.mark = "keep" => d.old = c.old + 1 /\ d.del = 0 /\ d.ins = <<>> /\ d.chunks = Flush(c)
      /\ l.mark = "delete" => /\ d.old = c.old + 1 /\ d.del = c.del + 1
                              /\ d.ins = c.ins /\ d.chunks = c.chunks
      /\ l.mark = "add" => /\ d.old = c.old /\ d.del = c.del
                           /\ d.ins = Append(c.ins, l.line) /\ d.chunks = c.chunks
  BY ChunkStep
<1> HIDE DEF d
<1>2. /\ c.old \in Nat /\ c.del \in Nat /\ c.ins \in Seq(X) /\ c.chunks \in Seq(Chunks(X))
      /\ c.del <= c.old /\ l.mark \in LineMarks /\ l.line \in X /\ Len(file) \in Nat
      /\ c.old \in 0 .. Len(file)
  BY DEF Collections, LinesOf
<1>3. x \in MarkedLines(X) /\ x.mark = l.mark /\ x.line = l.line /\ x.before = c.old
  BY <1>2 DEF MarkedLines
<1>4. Pending(c) \in Chunks(X) /\ Flush(c) \in Seq(Chunks(X)) /\ Pending(d) \in Chunks(X)
  BY <1>1, FlushTyped
<1>5. ASSUME NEW e \in {c, d}
      PROVE  Flush(e) = IF e.ins = <<>> /\ e.del = 0 THEN e.chunks ELSE Append(e.chunks, Pending(e))
  BY DEF Flush, Pending
<1>6. \A cs \in Seq(Chunks(X)) : ApplyAll(file, cs) \in Updates(X)
  BY <1>4, ApplyAllStep
<1>7. /\ Append(c.ins, l.line) = c.ins \o <<l.line>> /\ Append(c.ins, l.line) # <<>>
      /\ <<l.line>> \in Seq(X)
  <2> DEFINE ins  == c.ins
             line == l.line
  <2>1. ins \in Seq(X) /\ line \in X
    BY <1>2
  <2> HIDE DEF ins, line
  <2>2. Append(ins, line) = ins \o <<line>> /\ Append(ins, line) # <<>> /\ <<line>> \in Seq(X)
    BY <2>1, AppendIsConcat, AppendProperties
  <2> QED
    BY <2>2 DEF ins, line
<1>8. CASE l.mark = "keep"
  <2>1. Flush(d) = Flush(c)
    BY <1>1, <1>5, <1>8
  <2>2. before \o Flush(c) \in Seq(Chunks(X))
    BY <1>4
  <2> DEFINE u == ApplyAll(file, before \o Flush(c))
  <2>3. u \in Updates(X)
    BY <1>6, <2>2
  <2>4. ASSUME u.status = "ok" PROVE u.index <= Len(file) /\ Agree(file, Append(marked, x), u.index, u.dest)
    <3>1. u.index <= Len(file) /\ Agree(file, marked, u.index, u.dest)
      BY <2>4 DEF Good
    <3> HIDE DEF u
    <3>2. u.index \in 0 .. Len(file)
      BY <1>2, <2>3, <3>1 DEF Updates
    <3> QED
      BY <1>3, <1>8, <3>1, <3>2, AgreeStep
  <2>5. Good(file, before \o Flush(d), Append(marked, x))
    BY <2>1, <2>4 DEF Good
  <2> QED
    BY <1>3, <2>5 DEF d
<1>9. CASE l.mark # "keep"
  <2> DEFINE base == before \o c.chunks
             u == ApplyAll(file, base)
             p == Pending(d)
             w == u.dest \o SubSeq(file, u.index + 1, p.at)
             v == Apply(file, u, p)
  <2>1. l.mark \in {"delete", "add"} /\ d.chunks = c.chunks
    BY <1>1, <1>2, <1>9 DEF LineMarks
  <2>2. ~(d.ins = <<>> /\ d.del = 0)
    <3>1. CASE l.mark = "delete"
      BY <1>1, <1>2, <3>1
    <3>2. CASE l.mark = "add"
      BY <1>1, <1>7, <3>2
    <3> QED
      BY <2>1, <3>1, <3>2
  <2>3. base \in Seq(Chunks(X))
    BY <1>2
  <2>4. \A e \in Chunks(X) : before \o Append(c.chunks, e) = Append(base, e)
    BY <1>2, SMTT(30)
  <2>5. before \o Flush(d) = Append(base, p)
    BY <1>4, <1>5, <2>1, <2>2, <2>4
  <2>6. p.at = c.old - c.del /\ p.at \in Nat /\ p.del = d.del /\ p.ins = d.ins
    <3>1. (d.old = c.old + 1 /\ d.del = c.del + 1) \/ (d.old = c.old /\ d.del = c.del)
      BY <1>1, <2>1
    <3>2. c.old \in Nat /\ c.del \in Nat
      BY <1>2
    <3>3. d.old - d.del = c.old - c.del
      BY <3>1, <3>2, SMTT(30)
    <3>4. c.old - c.del \in Nat
      BY <1>2
    <3> QED
      BY <3>3, <3>4 DEF Pending
  <2>7. u \in Updates(X) /\ p \in Chunks(X) /\ v = ApplyAll(file, Append(base, p))
    <3>1. p \in Chunks(X)
      BY <1>4
    <3> HIDE DEF base, p
    <3> QED
      BY <2>3, <3>1, ApplyAllStep
  <2> HIDE DEF base, p, u
  <2>8. ASSUME v.status = "ok"
        PROVE  v.index <= Len(file) /\ Agree(file, Append(marked, x), v.index, v.dest)
    <3>1. /\ u.status = "ok" /\ p.at <= Len(file) /\ u.index <= p.at
          /\ v.dest = w \o d.ins /\ v.index = p.at + d.del
      <4>1. /\ u.status = "ok" /\ p.at <= Len(file) /\ u.index <= p.at
            /\ v.dest = u.dest \o SubSeq(file, u.index + 1, p.at) \o p.ins
            /\ v.index = p.at + p.del
        BY <2>7, <2>8, ApplyTyped
      <4> QED
        BY <2>6, <4>1
    <3>2. u.dest \in Seq(X) /\ u.index \in Nat /\ w \in Seq(X)
      <4>1. u.dest \in Seq(X) /\ u.index \in Nat
        BY <2>7 DEF Updates
      <4>2. SubSeq(file, u.index + 1, p.at) \in Seq(X)
        BY <1>2, <2>6, <3>1, <4>1
      <4> QED
        BY <4>1, <4>2
    <3> HIDE DEF v
    <3>3. Agree(file, marked, c.old, w \o c.ins)
      <4>1. CASE c.ins = <<>> /\ c.del = 0
        <5>1. ApplyAll(file, before \o Flush(c)) = u
          BY <1>5, <4>1 DEF u, base
        <5>2. u.index <= Len(file) /\ Agree(file, marked, u.index, u.dest)
          BY <3>1, <5>1 DEF Good
        <5>3. u.index \in 0 .. Len(file) /\ p.at \in u.index .. Len(file) /\ p.at = c.old
          BY <1>2, <2>6, <3>1, <3>2, <4>1
        <5>4. Agree(file, marked, p.at, w)
          BY <5>2, <5>3, AgreeFurther
        <5>5. w \o c.ins = w
          <6> HIDE DEF w
          <6> QED
            BY <3>2, <4>1, ConcatEmptySeq
        <5> QED
          BY <5>3, <5>4, <5>5
      <4>2. CASE ~(c.ins = <<>> /\ c.del = 0)
        <5> DEFINE q == Pending(c)
        <5>1. before \o Flush(c) = Append(base, q)
          BY <1>4, <1>5, <2>4, <4>2
        <5>2. q.at = p.at /\ q.del = c.del /\ q.ins = c.ins /\ q.at + q.del = c.old
          BY <1>2, <2>6 DEF Pending
        <5> HIDE DEF q
        <5>3. q \in Chunks(X)
          BY <1>4 DEF q
        <5>4. ApplyAll(file, Append(base, q)) = Apply(file, u, q)
          BY <2>3, <5>3, ApplyAllStep DEF u
        <5>5. /\ Apply(file, u, q).status = "ok"
              /\ Apply(file, u, q).dest = w \o c.ins /\ Apply(file, u, q).index = c.old
          <6>1. /\ Apply(file, u, q).status = "ok"
                /\ Apply(file, u, q).dest = u.dest \o SubSeq(file, u.index + 1, p.at) \o q.ins
                /\ Apply(file, u, q).index = q.at + q.del
            BY <2>7, <2>8, <5>2, <5>3, ApplyLike DEF v
          <6> QED
            BY <5>2, <6>1 DEF w
        <5> QED
          BY <5>1, <5>4, <5>5 DEF Good
      <4> QED
        BY <4>1, <4>2
    <3> HIDE DEF w
    <3>4. CASE l.mark = "add"
      <4>1. v.index = c.old
        BY <1>1, <1>2, <2>6, <3>1, <3>4
      <4>2. v.dest = (w \o c.ins) \o <<l.line>>
        <5>1. d.ins = c.ins \o <<l.line>>
          BY <1>1, <1>7, <3>4
        <5>2. w \o (c.ins \o <<l.line>>) = (w \o c.ins) \o <<l.line>>
          <6> DEFINE ins  == c.ins
                     more == <<l.line>>
          <6>1. ins \in Seq(X) /\ more \in Seq(X) /\ w \in Seq(X)
            BY <1>2, <1>7, <3>2
          <6> HIDE DEF ins, more
          <6>2. w \o (ins \o more) = (w \o ins) \o more
            BY <6>1, ConcatAssociative, SMTT(60)
          <6> QED
            BY <6>2 DEF ins, more
        <5> QED
          BY <3>1, <5>1, <5>2
      <4>3. Agree(file, Append(marked, x), c.old, (w \o c.ins) \o <<x.line>>)
        BY <1>2, <1>3, <3>3, <3>4, AgreeStep
      <4> QED
        BY <1>2, <1>3, <4>1, <4>2, <4>3
    <3>5. CASE l.mark = "delete"
      <4>1. v.index = c.old + 1 /\ c.old < Len(file) /\ c.old + 1 <= Len(file)
        BY <1>1, <1>2, <2>6, <3>1, <3>5
      <4>2. v.dest = w \o c.ins
        BY <1>1, <3>1, <3>5
      <4>3. Agree(file, Append(marked, x), c.old + 1, w \o c.ins)
        BY <1>2, <1>3, <3>3, <3>5, <4>1, AgreeStep
      <4> QED
        BY <4>1, <4>2, <4>3
    <3> QED
      BY <2>1, <3>4, <3>5
  <2>9. Good(file, before \o Flush(d), Append(marked, x))
    BY <2>5, <2>7, <2>8 DEF Good
  <2> QED
    BY <1>3, <2>9 DEF d
<1> QED
  BY <1>8, <1>9

---------------------------------------------------------------------------
(* How many of the file's lines a section has *)

Count(lines, j) == Len(Old(SubSeq(lines, 1, j)))

\* Line by line of the section.
LEMMA CountStep ==
  ASSUME NEW X, NEW lines \in Seq(LinesOf(X)), NEW j \in 0 .. Len(lines)
  PROVE  /\ Count(lines, j) \in Nat
         /\ j = 0 => Count(lines, j) = 0
         /\ j # 0 => Count(lines, j) = Count(lines, j - 1) + (IF lines[j].mark = "add" THEN 0 ELSE 1)
<1> DEFINE Of(l) == IF l.mark = "add" THEN <<>> ELSE <<l.line>>
           these == [m \in 1 .. j |-> Of(lines[m])]
<1>1. j \in Nat /\ j <= Len(lines) /\ \A m \in 1 .. j : lines[m] \in LinesOf(X)
  OBVIOUS
<1>2. \A l \in LinesOf(X) : Of(l) \in Seq(X)
  BY DEF LinesOf
<1>3. \A k \in 0 .. j : Old(SubSeq(lines, 1, k)) = FlattenSeq([m \in 1 .. k |-> Of(lines[m])])
  <2> SUFFICES ASSUME NEW k \in 0 .. j
               PROVE  Old(SubSeq(lines, 1, k)) = FlattenSeq([m \in 1 .. k |-> Of(lines[m])])
    OBVIOUS
  <2>1. /\ k \in Nat /\ k <= Len(lines) /\ DOMAIN SubSeq(lines, 1, k) = 1 .. k
        /\ \A m \in 1 .. k : SubSeq(lines, 1, k)[m] = lines[m]
    BY <1>1
  <2> QED
    BY <2>1 DEF Old
<1> HIDE DEF Of
<1>4. these \in [1 .. j -> Seq(X)]
  BY <1>1, <1>2
<1>5. CASE j = 0
  <2>1. these = <<>> /\ Old(SubSeq(lines, 1, 0)) = FlattenSeq(these)
    BY <1>1, <1>3, <1>5
  <2>2. Old(SubSeq(lines, 1, 0)) = <<>>
    BY <2>1 DEF FlattenSeq
  <2> QED
    BY <1>5, <2>2 DEF Count
<1>6. CASE j # 0
  <2> DEFINE front == [m \in 1 .. j - 1 |-> these[m]]
  <2>1. j \in Nat \ {0} /\ j - 1 \in Nat /\ j - 1 \in 0 .. j /\ j \in 0 .. j /\ \A m \in 1 .. j - 1 : m \in 1 .. j
    BY <1>1, <1>6
  <2>2. front = [m \in 1 .. j - 1 |-> Of(lines[m])] /\ these[j] = Of(lines[j]) /\ front \in [1 .. j - 1 -> Seq(X)]
    BY <1>4, <2>1
  <2> HIDE DEF these
  <2>3. FlattenSeq(these) = FlattenSeq(front) \o these[j]
    BY <1>4, <2>1, FlattenStep
  <2>4. FlattenSeq(front) \in Seq(X)
    <3> DEFINE k == j - 1
    <3>1. k \in Nat /\ front \in [1 .. k -> Seq(X)]
      BY <2>1, <2>2
    <3> HIDE DEF k, front
    <3> QED
      BY <3>1, FlattenTyped
  <2> HIDE DEF front
  <2>5. Old(SubSeq(lines, 1, j)) = FlattenSeq(these) /\ Old(SubSeq(lines, 1, j - 1)) = FlattenSeq(front)
    BY <1>3, <2>1, <2>2 DEF these
  <2>6. Of(lines[j]) \in Seq(X) /\ Len(Of(lines[j])) = IF lines[j].mark = "add" THEN 0 ELSE 1
    <3>1. lines[j] \in LinesOf(X)
      BY <1>1, <1>6
    <3>2. Of(lines[j]) \in Seq(X)
      BY <1>2, <3>1
    <3> QED
      BY <3>2 DEF Of
  <2>7. Len(FlattenSeq(these)) = Len(FlattenSeq(front)) + Len(Of(lines[j])) /\ Len(FlattenSeq(front)) \in Nat
    BY <2>2, <2>3, <2>4, <2>6
  <2> QED
    BY <1>6, <2>5, <2>6, <2>7 DEF Count
<1> QED
  BY <1>5, <1>6

\* It has no fewer as the section goes on.
LEMMA CountGrows ==
  ASSUME NEW X, NEW lines \in Seq(LinesOf(X)), NEW j \in 0 .. Len(lines)
  PROVE  Count(lines, j) <= Len(Old(lines)) /\ Len(Old(lines)) \in Nat
<1> DEFINE n == Len(lines)
           I == {k \in 0 .. n : \A i \in 0 .. k : Count(lines, i) <= Count(lines, k)}
<1>1. n \in Nat /\ n \in 0 .. n
  OBVIOUS
<1>2. \A k \in 0 .. n : Count(lines, k) \in Nat
  BY CountStep
<1>3. \A k \in 1 .. n : Count(lines, k - 1) <= Count(lines, k)
  <2>1. ASSUME NEW k \in 1 .. n PROVE Count(lines, k - 1) <= Count(lines, k)
    <3>1. k \in 0 .. n /\ k - 1 \in 0 .. n /\ k # 0
      BY <1>1
    <3>2. Count(lines, k) = Count(lines, k - 1) + (IF lines[k].mark = "add" THEN 0 ELSE 1)
      BY <3>1, CountStep
    <3>3. Count(lines, k - 1) \in Nat
      BY <1>2, <3>1
    <3> QED
      BY <3>2, <3>3
  <2> QED
    BY <2>1
<1> HIDE DEF n
<1>4. 0 \in I
  BY <1>1, <1>2
<1>5. ASSUME NEW k \in 1 .. n, k - 1 \in I PROVE k \in I
  <2>1. k \in 0 .. n /\ k - 1 \in 0 .. n
    BY <1>1
  <2>2. \A i \in 0 .. k - 1 : Count(lines, i) <= Count(lines, k - 1)
    BY <1>5
  <2>3. ASSUME NEW i \in 0 .. k PROVE Count(lines, i) <= Count(lines, k)
    <3>1. i \in 0 .. n /\ (i = k \/ i \in 0 .. k - 1)
      BY <1>1
    <3>2. Count(lines, i) \in Nat /\ Count(lines, k - 1) \in Nat /\ Count(lines, k) \in Nat
      BY <1>2, <2>1, <3>1
    <3> QED
      BY <1>3, <2>2, <3>1, <3>2
  <2> QED
    BY <2>1, <2>3
<1>6. n \in I
  <2> HIDE DEF I
  <2>1. 0 .. n \subseteq I
    BY <1>1, <1>4, <1>5, UpTo
  <2> QED
    BY <1>1, <2>1
<1>7. Old(SubSeq(lines, 1, n)) = Old(lines)
  <2>1. SubSeq(lines, 1, Len(lines)) = lines
    OBVIOUS
  <2> QED
    BY <2>1 DEF n
<1>8. Count(lines, j) <= Count(lines, n)
  BY <1>6 DEF n
<1> QED
  BY <1>1, <1>2, <1>7, <1>8 DEF Count

---------------------------------------------------------------------------
(* A section makes of the file what its lines say *)

\* Where a section may stand in the file.
Places(X, file) ==
  {p \in [at : Nat, lines : Seq(LinesOf(X))] : p.at + Len(Old(p.lines)) <= Len(file)}

\* A section that fits where it was found keeps chunks and marks in step.
LEMMA GoodPlace ==
  ASSUME NEW X, NEW file \in Seq(X), NEW before \in Seq(Chunks(X)), NEW marked \in Seq(MarkedLines(X)),
         NEW place \in Places(X, file), Good(file, before, marked)
  PROVE  /\ ChunksOf(place) \in Seq(Chunks(X)) /\ Marks(place) \in Seq(MarkedLines(X))
         /\ Good(file, before \o ChunksOf(place), marked \o Marks(place))
<1> DEFINE lines == place.lines
           n == Len(lines)
           c == Collected(place)
           ms == Marks(place)
<1>1. /\ place.at \in Nat /\ lines \in Seq(LinesOf(X)) /\ n \in Nat /\ Len(file) \in Nat
      /\ place.at + Len(Old(lines)) <= Len(file)
  BY DEF Places
<1>2. /\ c[0] = [mode |-> "keep", old |-> place.at, del |-> 0, ins |-> <<>>, chunks |-> <<>>]
      /\ \A j \in 1 .. n : c[j] = Chunk(c[j - 1], lines[j])
      /\ \A j \in 0 .. n : c[j] \in Collections(X)
  BY <1>1, CollectedFunction
<1>3. \A j \in 1 .. n + 1 : Before(place, j) = place.at + Count(lines, j - 1)
  BY DEF Before, Count
<1> HIDE DEF c, lines
<1>4. \A j \in 0 .. n :
        /\ Count(lines, j) \in Nat /\ Len(Old(lines)) \in Nat /\ Count(lines, j) <= Len(Old(lines))
        /\ j = 0 => Count(lines, j) = 0
        /\ j # 0 => Count(lines, j) = Count(lines, j - 1) + (IF lines[j].mark = "add" THEN 0 ELSE 1)
  BY <1>1, CountStep, CountGrows
<1>5. \A j \in 1 .. n : lines[j] \in LinesOf(X)
  BY <1>1
<1>6. /\ DOMAIN ms = 1 .. n /\ Len(ms) = n
      /\ \A j \in 1 .. n : ms[j] = [mark |-> lines[j].mark, line |-> lines[j].line, before |-> Before(place, j)]
  <2>1. ms = [j \in 1 .. n |-> [mark |-> lines[j].mark, line |-> lines[j].line, before |-> Before(place, j)]]
    BY <1>1 DEF Marks, lines
  <2> QED
    BY <1>1, <2>1
<1>7. ms \in Seq(MarkedLines(X))
  <2>1. \A j \in 1 .. n : ms[j] \in MarkedLines(X)
    <3>1. ASSUME NEW j \in 1 .. n PROVE ms[j] \in MarkedLines(X)
      <4>1. lines[j].mark \in LineMarks /\ lines[j].line \in X
        BY <1>5 DEF LinesOf
      <4>2. j \in 1 .. n + 1 /\ j - 1 \in 0 .. n
        BY <1>1
      <4>3. Before(place, j) \in Nat
        <5>1. Before(place, j) = place.at + Count(lines, j - 1) /\ Count(lines, j - 1) \in Nat
          BY <1>3, <1>4, <4>2
        <5> QED
          BY <1>1, <5>1
      <4> QED
        BY <1>6, <4>1, <4>3 DEF MarkedLines
    <3> QED
      BY <3>1
  <2>2. ms = [j \in 1 .. n |-> ms[j]]
    BY <1>1 DEF Marks, lines
  <2> HIDE DEF ms, n
  <2>3. ms \in [1 .. n -> MarkedLines(X)]
    BY <2>1, <2>2
  <2> QED
    BY <1>1, <2>3
<1> HIDE DEF ms
<1> DEFINE I == {j \in 0 .. n : /\ c[j].old = place.at + Count(lines, j)
                                /\ Good(file, before \o Flush(c[j]), marked \o SubSeq(ms, 1, j))}
<1>8. 0 \in I
  <2>1. Flush(c[0]) = <<>> /\ c[0].old = place.at
    BY <1>2 DEF Flush
  <2>2. SubSeq(ms, 1, 0) = <<>>
    BY <1>7
  <2>3. before \o <<>> = before /\ marked \o <<>> = marked
    OBVIOUS
  <2>4. 0 \in 0 .. n
    BY <1>1
  <2>5. Count(lines, 0) = 0
    BY <1>4, <2>4
  <2>6. c[0].old = place.at + Count(lines, 0)
    BY <1>1, <2>1, <2>5
  <2>7. Good(file, before \o Flush(c[0]), marked \o SubSeq(ms, 1, 0))
    BY <2>1, <2>2, <2>3
  <2> QED
    BY <2>4, <2>6, <2>7
<1>9. ASSUME NEW j \in 1 .. n, j - 1 \in I PROVE j \in I
  <2> DEFINE l == lines[j]
             x == ms[j]
             b == c[j - 1]
             sofar == marked \o SubSeq(ms, 1, j - 1)
  <2>1. j \in 0 .. n /\ j - 1 \in 0 .. n /\ j # 0 /\ j \in 1 .. n + 1
    BY <1>1
  <2>2. b.old = place.at + Count(lines, j - 1) /\ Good(file, before \o Flush(b), sofar)
    BY <1>9
  <2>3. x = [mark |-> l.mark, line |-> l.line, before |-> b.old]
    <3>1. Before(place, j) = b.old
      BY <1>3, <2>1, <2>2
    <3> QED
      BY <1>6, <3>1
  <2> HIDE DEF I, n
  <2>4. l \in LinesOf(X) /\ b \in Collections(X) /\ c[j] = Chunk(b, l) /\ c[j] \in Collections(X)
    BY <1>2, <1>5, <2>1
  <2>5. Count(lines, j) = Count(lines, j - 1) + (IF l.mark = "add" THEN 0 ELSE 1)
    BY <1>4, <2>1
  <2>6. b.old <= Len(file) /\ (l.mark # "add" => b.old < Len(file))
    <3>1. /\ Count(lines, j - 1) \in Nat /\ Count(lines, j) <= Len(Old(lines))
          /\ Len(Old(lines)) \in Nat /\ Count(lines, j) \in Nat
      BY <1>4, <2>1
    <3> HIDE DEF l, b
    <3> QED
      BY <1>1, <2>2, <2>5, <3>1
  <2>7. sofar \in Seq(MarkedLines(X))
    <3>1. SubSeq(ms, 1, j - 1) \in Seq(MarkedLines(X))
      BY <1>1, <1>6, <1>7, <2>1
    <3> QED
      BY <3>1
  <2>8. Append(sofar, x) = marked \o SubSeq(ms, 1, j)
    <3>1. SubSeq(ms, 1, j) = SubSeq(ms, 1, j - 1) \o <<ms[j]>>
      BY <1>1, <1>6, <1>7, <2>1
    <3> DEFINE s == SubSeq(ms, 1, j - 1)
    <3>2. s \in Seq(MarkedLines(X)) /\ x \in MarkedLines(X) /\ <<x>> \in Seq(MarkedLines(X))
      BY <1>6, <1>7, <2>1
    <3> HIDE DEF s, x
    <3>3. marked \o (s \o <<x>>) = (marked \o s) \o <<x>>
      BY <3>2, ConcatAssociative, SMTT(60)
    <3>4. Append(marked \o s, x) = (marked \o s) \o <<x>>
      BY <3>2
    <3> QED
      BY <3>1, <3>3, <3>4 DEF s, x
  <2>9. Good(file, before \o Flush(Chunk(b, l)), Append(sofar, x))
    <3> HIDE DEF l, x, b, sofar
    <3> QED
      BY <2>2, <2>3, <2>4, <2>6, <2>7, GoodStep
  <2>10. c[j].old = place.at + Count(lines, j)
    <3>1. c[j].old = IF l.mark = "add" THEN b.old ELSE b.old + 1
      <4>1. l.mark \in LineMarks
        BY <2>4 DEF LinesOf
      <4> HIDE DEF l, b
      <4> QED
        BY <2>4, <4>1, ChunkStep DEF LineMarks
    <3>2. Count(lines, j - 1) \in Nat /\ place.at \in Nat
      BY <1>1, <1>4, <2>1
    <3>3. b.old = place.at + Count(lines, j - 1)
      BY <2>2
    <3> HIDE DEF l, b, c
    <3>4. CASE l.mark = "add"
      <4>1. c[j].old = b.old
        BY <3>1, <3>4
      <4>2. Count(lines, j) = Count(lines, j - 1)
        BY <2>5, <3>2, <3>4
      <4> QED
        BY <3>3, <4>1, <4>2
    <3>5. CASE l.mark # "add"
      <4>1. c[j].old = b.old + 1
        BY <3>1, <3>5
      <4>2. Count(lines, j) = Count(lines, j - 1) + 1
        BY <2>5, <3>5
      <4> QED
        BY <3>2, <3>3, <4>1, <4>2
    <3> QED
      BY <3>4, <3>5
  <2>11. Good(file, before \o Flush(c[j]), marked \o SubSeq(ms, 1, j))
    BY <2>4, <2>8, <2>9
  <2> QED
    BY <2>1, <2>10, <2>11 DEF I
<1>10. n \in I
  <2> HIDE DEF I, n
  <2>1. 0 .. n \subseteq I
    BY <1>1, <1>8, <1>9, UpTo
  <2>2. n \in 0 .. n
    BY <1>1
  <2> QED
    BY <2>1, <2>2
<1>11. ChunksOf(place) = Flush(c[n])
  BY DEF ChunksOf, c, lines
<1>12. SubSeq(ms, 1, n) = ms
  BY <1>1, <1>6, <1>7
<1>13. ChunksOf(place) \in Seq(Chunks(X))
  <2>1. n \in 0 .. n
    BY <1>1
  <2> HIDE DEF n
  <2>2. c[n] \in Collections(X)
    BY <1>2, <2>1
  <2> QED
    BY <1>11, <2>2, FlushTyped
<1>14. Good(file, before \o ChunksOf(place), marked \o ms)
  BY <1>10, <1>11, <1>12
<1> QED
  BY <1>7, <1>13, <1>14 DEF ms

\* Without sections nothing is done and nothing is described.
LEMMA GoodAtFirst ==
  ASSUME NEW X, NEW file \in Seq(X)
  PROVE  Good(file, <<>>, <<>>)
<1>1. ApplyAll(file, <<>>) = [status |-> "ok", dest |-> <<>>, index |-> 0]
  <2>1. <<>> \in Seq(Chunks(X)) /\ Len(<<>>) = 0
    OBVIOUS
  <2>2. Applied(file, <<>>)[0] = [status |-> "ok", dest |-> <<>>, index |-> 0]
    <3> DEFINE none == <<>>
    <3>1. none \in Seq(Chunks(X))
      BY <2>1
    <3> HIDE DEF none
    <3>2. Applied(file, none)[0] = [status |-> "ok", dest |-> <<>>, index |-> 0]
      BY <3>1, AppliedFunction
    <3> QED
      BY <3>2 DEF none
  <2> QED
    BY <2>1, <2>2 DEF ApplyAll, Applied
<1>2. \A i \in Nat : ~Deleted(<<>>, i) /\ Added(<<>>, i) = <<>>
  <2>1. \A i \in Nat : [m \in DOMAIN <<>> |-> IF <<>>[m].mark = "add" /\ <<>>[m].before = i
                                              THEN <<<<>>[m].line>> ELSE <<>>] = <<>>
    OBVIOUS
  <2>2. FlattenSeq(<<>>) = <<>>
    BY DEF FlattenSeq
  <2>3. \A i \in Nat : Added(<<>>, i) = <<>>
    BY <2>1, <2>2 DEF Added
  <2>4. \A i \in Nat : ~Deleted(<<>>, i)
    BY DEF Deleted
  <2> QED
    BY <2>3, <2>4
<1>3. <<>> = Upto(file, <<>>, 0)
  <2> DEFINE none == <<>>
  <2>1. none \in Seq(MarkedLines(X)) /\ 0 \in 0 .. Len(file)
    OBVIOUS
  <2>2. Added(none, 0) = <<>>
    BY <1>2
  <2> HIDE DEF none
  <2>3. Upto(file, none, 0) = Added(none, 0)
    BY <2>1, UptoStep
  <2> QED
    BY <2>2, <2>3 DEF none
<1>4. \A q \in 0 + 1 .. Len(file) : q \in Nat
  OBVIOUS
<1>5. Len(file) \in Nat
  OBVIOUS
<1>6. Agree(file, <<>>, 0, <<>>)
  BY <1>2, <1>3, <1>4 DEF Agree
<1> QED
  BY <1>1, <1>5, <1>6 DEF Good

\* The file that sections make of a file is the one their lines describe: without the
\* lines to delete, with those to add where they stand, and with no other difference.
THEOREM UpdatedAsDescribed ==
  ASSUME NEW X, NEW file \in Seq(X), NEW places \in Seq(Places(X, file)),
         GetUpdatedFile(file, places).status = "ok"
  PROVE  GetUpdatedFile(file, places).new = Described(file, places)
<1> DEFINE n == Len(places)
           chunks == [k \in 1 .. n |-> ChunksOf(places[k])]
           marks  == [k \in 1 .. n |-> Marks(places[k])]
           cs(k)  == FlattenSeq([q \in 1 .. k |-> chunks[q]])
           ms(k)  == FlattenSeq([q \in 1 .. k |-> marks[q]])
           I == {k \in 0 .. n : Good(file, cs(k), ms(k))}
<1>1. n \in Nat /\ DOMAIN places = 1 .. n /\ \A k \in 1 .. n : places[k] \in Places(X, file)
  OBVIOUS
<1>2. \A p \in Places(X, file) : ChunksOf(p) \in Seq(Chunks(X)) /\ Marks(p) \in Seq(MarkedLines(X))
  <2>1. <<>> \in Seq(Chunks(X)) /\ <<>> \in Seq(MarkedLines(X))
    OBVIOUS
  <2> QED
    BY <2>1, GoodAtFirst, GoodPlace
<1>3. chunks \in [1 .. n -> Seq(Chunks(X))] /\ marks \in [1 .. n -> Seq(MarkedLines(X))]
  BY <1>1, <1>2
<1>4. \A k \in 1 .. n : chunks[k] = ChunksOf(places[k]) /\ marks[k] = Marks(places[k])
  OBVIOUS
<1>5. /\ FlattenSeq([k \in DOMAIN places |-> ChunksOf(places[k])]) = FlattenSeq(chunks)
      /\ Marked(places) = FlattenSeq(marks)
  BY <1>1 DEF Marked
<1> HIDE DEF n, chunks, marks
<1>6. \A k \in 0 .. n : cs(k) \in Seq(Chunks(X)) /\ ms(k) \in Seq(MarkedLines(X))
  <2> SUFFICES ASSUME NEW k \in 0 .. n
               PROVE  cs(k) \in Seq(Chunks(X)) /\ ms(k) \in Seq(MarkedLines(X))
    OBVIOUS
  <2> DEFINE a == [q \in 1 .. k |-> chunks[q]]
             b == [q \in 1 .. k |-> marks[q]]
  <2>1. k \in Nat /\ a \in [1 .. k -> Seq(Chunks(X))] /\ b \in [1 .. k -> Seq(MarkedLines(X))]
    BY <1>1, <1>3
  <2> HIDE DEF a, b
  <2>2. FlattenSeq(a) \in Seq(Chunks(X)) /\ FlattenSeq(b) \in Seq(MarkedLines(X))
    BY <2>1, FlattenTyped
  <2> QED
    BY <2>2 DEF a, b
<1>7. ASSUME NEW Y, NEW s \in [1 .. n -> Seq(Y)], NEW k \in 1 .. n
      PROVE  FlattenSeq([q \in 1 .. k |-> s[q]]) = FlattenSeq([q \in 1 .. k - 1 |-> s[q]]) \o s[k]
  <2> DEFINE a == [q \in 1 .. k |-> s[q]]
  <2>1. k \in Nat \ {0} /\ a \in [1 .. k -> Seq(Y)] /\ a[k] = s[k]
        /\ [q \in 1 .. k - 1 |-> a[q]] = [q \in 1 .. k - 1 |-> s[q]]
    BY <1>1
  <2> HIDE DEF a
  <2>2. FlattenSeq(a) = FlattenSeq([q \in 1 .. k - 1 |-> a[q]]) \o a[k]
    BY <2>1, FlattenStep
  <2> QED
    BY <2>1, <2>2 DEF a
<1>8. 0 \in I
  <2>1. [q \in 1 .. 0 |-> chunks[q]] = <<>> /\ [q \in 1 .. 0 |-> marks[q]] = <<>>
    OBVIOUS
  <2>2. cs(0) = <<>> /\ ms(0) = <<>>
    BY <2>1 DEF FlattenSeq
  <2>3. 0 \in 0 .. n
    BY <1>1
  <2>4. Good(file, cs(0), ms(0))
    <3> HIDE DEF cs, ms
    <3> QED
      BY <2>2, GoodAtFirst
  <2> QED
    BY <2>3, <2>4
<1>9. ASSUME NEW k \in 1 .. n, k - 1 \in I PROVE k \in I
  <2>1. k \in 0 .. n /\ k - 1 \in 0 .. n
    BY <1>1
  <2>2. Good(file, cs(k - 1), ms(k - 1))
    BY <1>9
  <2>3. cs(k) = cs(k - 1) \o chunks[k] /\ ms(k) = ms(k - 1) \o marks[k]
    BY <1>3, <1>7
  <2>4. cs(k - 1) \in Seq(Chunks(X)) /\ ms(k - 1) \in Seq(MarkedLines(X))
    BY <1>6, <2>1
  <2>5. places[k] \in Places(X, file) /\ chunks[k] = ChunksOf(places[k]) /\ marks[k] = Marks(places[k])
    BY <1>1, <1>4
  <2>6. Good(file, cs(k), ms(k))
    <3> HIDE DEF I, cs, ms
    <3> QED
      BY <2>2, <2>3, <2>4, <2>5, GoodPlace
  <2> QED
    BY <2>1, <2>6
<1>10. Good(file, cs(n), ms(n)) /\ cs(n) \in Seq(Chunks(X)) /\ ms(n) \in Seq(MarkedLines(X))
  <2>1. n \in 0 .. n
    BY <1>1
  <2>2. 0 .. n \subseteq I
    <3> HIDE DEF I
    <3> QED
      BY <1>1, <1>8, <1>9, UpTo
  <2> QED
    BY <1>6, <2>1, <2>2
<1>11. [q \in 1 .. n |-> chunks[q]] = chunks /\ [q \in 1 .. n |-> marks[q]] = marks
  BY <1>3
<1> HIDE DEF I
<1>12. cs(n) = FlattenSeq(chunks) /\ ms(n) = Marked(places)
  BY <1>5, <1>11
<1> HIDE DEF cs, ms
<1> DEFINE u == ApplyAll(file, cs(n))
<1>13. /\ GetUpdatedFile(file, places).status = u.status
       /\ GetUpdatedFile(file, places).new = u.dest \o SubSeq(file, u.index + 1, Len(file))
  BY <1>5, <1>12 DEF GetUpdatedFile
<1>14. u \in Updates(X)
  <2>1. \A c \in Chunks(X) : ApplyAll(file, cs(n)) \in Updates(X)
    BY <1>10, ApplyAllStep
  <2>2. [at |-> 0, del |-> 0, ins |-> <<>>] \in Chunks(X)
    BY DEF Chunks
  <2> QED
    BY <2>1, <2>2
<1>15. u.index <= Len(file) /\ Agree(file, ms(n), u.index, u.dest)
  BY <1>10, <1>13 DEF Good
<1> HIDE DEF u
<1>16. Agree(file, ms(n), Len(file), u.dest \o SubSeq(file, u.index + 1, Len(file)))
  <2>1. Len(file) \in Nat /\ u.index \in Nat
    BY <1>14 DEF Updates
  <2>2. u.index \in 0 .. Len(file) /\ Len(file) \in u.index .. Len(file)
    BY <1>15, <2>1
  <2> QED
    BY <1>10, <1>15, <2>2, AgreeFurther
<1> QED
  BY <1>12, <1>13, <1>16 DEF Agree, Upto, Described

---------------------------------------------------------------------------
(* Where a section is found it fits *)

\* The least of some numbers is one of them.
LEMMA LeastIsOne ==
  ASSUME NEW S, S \subseteq Nat, S # {}
  PROVE  Least(S) \in S
<1> DEFINE R == OpToRel(<, Nat)
<1>1. IsWellFoundedOn(R, Nat)
  BY NatLessThanWellFounded DEF R
<1>2. PICK x \in S : \A y \in S : ~(<<y, x>> \in R)
  <2> HIDE DEF R
  <2> QED
    BY <1>1, WFMin
<1>3. \A y \in S : x <= y
  <2>1. ASSUME NEW y \in S PROVE x <= y
    <3>1. x \in Nat /\ y \in Nat
      OBVIOUS
    <3>2. ~(y < x)
      BY <1>2, <3>1 DEF OpToRel, R
    <3> QED
      BY <3>1, <3>2
  <2> QED
    BY <2>1
<1> QED
  BY <1>3 DEF Least

\* The place after a "@@" line is in the file.
LEMMA SeekFits ==
  ASSUME NEW X, NEW file \in Seq(X), NEW def, NEW index \in 0 .. Len(file)
  PROVE  Seek(file, def, index).at \in 0 .. Len(file) /\ Seek(file, def, index).fuzz \in Nat
<1> DEFINE before == 1 .. index
           after  == index + 1 .. Len(file)
           Alike(i) == TrimSpace(file[i]) = TrimSpace(def)
           same == {i \in after : file[i] = def}
           alike == {i \in after : Alike(i)}
<1>1. \A i \in after : i \in Nat /\ i \in 0 .. Len(file)
  OBVIOUS
<1> DEFINE found == Seek(file, def, index)
<1>2. \/ found = At(index, 0)
      \/ same # {} /\ found = At(Least(same), 0)
      \/ alike # {} /\ found = At(Least(alike), 1)
  BY DEF Seek
<1>3. same # {} => Least(same) \in 0 .. Len(file)
  <2>1. same \subseteq Nat
    BY <1>1
  <2>2. same # {} => Least(same) \in same
    <3> HIDE DEF same
    <3> QED
      BY <2>1, LeastIsOne
  <2> QED
    BY <1>1, <2>2
<1>4. alike # {} => Least(alike) \in 0 .. Len(file)
  <2>1. alike \subseteq Nat
    BY <1>1
  <2>2. alike # {} => Least(alike) \in alike
    <3> HIDE DEF alike
    <3> QED
      BY <2>1, LeastIsOne
  <2> QED
    BY <1>1, <2>2
<1> HIDE DEF same, alike, found
<1>5. found.at \in 0 .. Len(file) /\ found.fuzz \in Nat
  BY <1>2, <1>3, <1>4 DEF At
<1> QED
  BY <1>5 DEF found

\* An answer that, if it is a place, is one where the context fits.
Fits(found, file, context) ==
  \/ found.status \in {"error", "panic"}
  \/ found.status = "ok" /\ found.at \in Nat /\ found.at + Len(context) <= Len(file) /\ found.fuzz \in Nat

\* A context that is found fits where it is.
LEMMA CoreFits ==
  ASSUME NEW X, NEW file \in Seq(X), NEW context \in Seq(X), NEW start \in 0 .. Len(file)
  PROVE  Fits(FindContextCore(file, context, start), file, context)
<1> DEFINE Fit(S) == S # {} /\ S \subseteq {i \in start .. Len(file) : i + Len(context) <= Len(file)}
           found == FindContextCore(file, context, start)
<1>1. \/ context = <<>> /\ found = At(start, 0)
      \/ found = Nowhere
      \/ \E S : Fit(S) /\ (found = At(Least(S), 0) \/ found = At(Least(S), 1))
  <2> DEFINE exact == Matches(file, context, start, LAMBDA a, b : a = b)
             right == Matches(file, context, start, LAMBDA a, b : TrimRight(a) = TrimRight(b))
             both  == Matches(file, context, start, LAMBDA a, b : TrimSpace(a) = TrimSpace(b))
  <2>1. /\ exact # {} => Fit(exact)
        /\ right # {} => Fit(right)
        /\ both # {} => Fit(both)
    BY DEF Matches
  <2>2. found = CASE context = <<>> -> At(start, 0)
                  [] context # <<>> /\ exact # {} -> At(Least(exact), 0)
                  [] context # <<>> /\ exact = {} /\ right # {} -> At(Least(right), 1)
                  [] context # <<>> /\ exact = {} /\ right = {} /\ both # {} -> At(Least(both), 1)
                  [] OTHER -> Nowhere
    BY DEF FindContextCore
  <2> HIDE DEF exact, right, both, found, Fit
  <2> QED
    BY <2>1, <2>2
<1> HIDE DEF found
<1>2. ASSUME NEW S, Fit(S) PROVE Least(S) \in Nat /\ Least(S) + Len(context) <= Len(file)
  <2>1. S # {} /\ S \subseteq Nat
    BY <1>2
  <2>2. Least(S) \in S
    BY <2>1, LeastIsOne
  <2> QED
    BY <1>2, <2>1, <2>2
<1> HIDE DEF Fit
<1>3. start \in Nat /\ start <= Len(file) /\ (context = <<>> => start + Len(context) <= Len(file))
  OBVIOUS
<1>4. CASE context = <<>> /\ found = At(start, 0)
  BY <1>3, <1>4 DEF Fits, At, found
<1>5. CASE found = Nowhere
  BY <1>5 DEF Fits, Nowhere, found
<1>6. CASE \E S : Fit(S) /\ (found = At(Least(S), 0) \/ found = At(Least(S), 1))
  <2>1. PICK S : Fit(S) /\ (found = At(Least(S), 0) \/ found = At(Least(S), 1))
    BY <1>6
  <2>2. Least(S) \in Nat /\ Least(S) + Len(context) <= Len(file)
    BY <1>2, <2>1
  <2>3. found.status = "ok" /\ found.at = Least(S) /\ found.fuzz \in Nat
    BY <2>1 DEF At
  <2> QED
    BY <2>2, <2>3 DEF Fits, found
<1> QED
  BY <1>1, <1>4, <1>5, <1>6

\* So it does when it is sought at the end of the file first.
LEMMA ContextFits ==
  ASSUME NEW X, NEW file \in Seq(X), NEW context \in Seq(X), NEW start \in 0 .. Len(file), NEW eof \in BOOLEAN
  PROVE  Fits(FindContext(file, context, start, eof), file, context)
<1> DEFINE end == Len(file) - Len(context)
           last == FindContextCore(file, context, end)
           any  == FindContextCore(file, context, start)
           found == FindContext(file, context, start, eof)
<1>1. Fits(any, file, context)
  BY CoreFits
<1>2. ~(Len(context) > Len(file)) => Fits(last, file, context)
  <2>1. ~(Len(context) > Len(file)) => end \in 0 .. Len(file)
    OBVIOUS
  <2> HIDE DEF end
  <2> QED
    BY <2>1, CoreFits
<1>3. found = IF ~eof THEN any
              ELSE IF Len(context) > Len(file) THEN [status |-> "panic"]
              ELSE CASE last.status = "ok" -> last
                     [] last.status # "ok" /\ any.status = "ok" -> At(any.at, any.fuzz + 10000)
                     [] OTHER -> Nowhere
  BY DEF FindContext
<1> HIDE DEF last, any, found
<1>4. any.status = "ok" => Fits(At(any.at, any.fuzz + 10000), file, context)
  BY <1>1 DEF Fits, At
<1>5. Fits(Nowhere, file, context) /\ Fits([status |-> "panic"], file, context)
  BY DEF Fits, Nowhere
<1>6. Fits(found, file, context)
  BY <1>1, <1>2, <1>3, <1>4, <1>5
<1> QED
  BY <1>6 DEF found

\* The lines of a section that the file has are lines.
LEMMA OldTyped ==
  ASSUME NEW X, NEW lines \in Seq(LinesOf(X))
  PROVE  Old(lines) \in Seq(X)
<1> DEFINE these == [j \in 1 .. Len(lines) |-> IF lines[j].mark = "add" THEN <<>> ELSE <<lines[j].line>>]
<1>1. \A j \in 1 .. Len(lines) : lines[j].line \in X
  <2>1. \A j \in 1 .. Len(lines) : lines[j] \in LinesOf(X)
    OBVIOUS
  <2> QED
    BY <2>1 DEF LinesOf
<1>2. Len(lines) \in Nat /\ these \in [1 .. Len(lines) -> Seq(X)]
  BY <1>1
<1>3. Old(lines) = FlattenSeq(these)
  BY DEF Old
<1> HIDE DEF these
<1> QED
  BY <1>2, <1>3, FlattenTyped

\* The states of the parser: the sections taken so far fit where they were found.
Parsers(X, file) ==
  [status : {"ok", "error", "panic", "hang"}, index : 0 .. Len(file), fuzz : Nat,
   places : Seq(Places(X, file))]

\* One section more, found or not.
LEMMA SectionFits ==
  ASSUME NEW X, NEW file \in Seq(X), NEW s \in Parsers(X, file), NEW section,
         section.lines \in Seq(LinesOf(X))
  PROVE  ParseSection(file, s, section) \in Parsers(X, file)
<1> DEFINE lines == section.lines
           from  == Seek(file, section.def, s.index)
           found == FindContext(file, Old(lines), from.at, section.end = "eof")
           index == found.at + Len(Old(lines))
           place == [at |-> found.at, lines |-> lines]
           status == CASE section.end # "junk" -> "ok"
                       [] section.end = "junk" -> IF index = 0 THEN "hang" ELSE "error"
           next == ParseSection(file, s, section)
<1>1. /\ s.status \in {"ok", "error", "panic", "hang"} /\ s.index \in 0 .. Len(file) /\ s.fuzz \in Nat
      /\ s.places \in Seq(Places(X, file)) /\ Len(file) \in Nat
      /\ s = [status |-> s.status, index |-> s.index, fuzz |-> s.fuzz, places |-> s.places]
  BY DEF Parsers
<1>2. Old(lines) \in Seq(X) /\ Len(Old(lines)) \in Nat
  BY OldTyped
<1>3. from.at \in 0 .. Len(file) /\ from.fuzz \in Nat
  BY <1>1, SeekFits
<1>4. Fits(found, file, Old(lines))
  <2> HIDE DEF from, lines
  <2>1. (section.end = "eof") \in BOOLEAN
    OBVIOUS
  <2> QED
    BY <1>2, <1>3, <2>1, ContextFits
<1>5. \/ s.status # "ok" /\ next = s
      \/ /\ s.status = "ok" /\ found.status # "ok"
         /\ next = [status |-> found.status, index |-> s.index, fuzz |-> s.fuzz, places |-> s.places]
      \/ /\ s.status = "ok" /\ found.status = "ok"
         /\ next = [status |-> status, index |-> index, fuzz |-> s.fuzz + from.fuzz + found.fuzz,
                    places |-> Append(s.places, place)]
  <2>1. next = CASE s.status # "ok" -> s
                 [] s.status = "ok" /\ found.status # "ok" -> [s EXCEPT !.status = found.status]
                 [] s.status = "ok" /\ found.status = "ok" ->
                      [status |-> status, index |-> index, fuzz |-> s.fuzz + from.fuzz + found.fuzz,
                       places |-> Append(s.places, place)]
    BY DEF ParseSection, Placed
  <2> HIDE DEF next, found, from, index, place, status, lines
  <2>2. [s EXCEPT !.status = found.status]
          = [status |-> found.status, index |-> s.index, fuzz |-> s.fuzz, places |-> s.places]
    BY <1>1, SMTT(30)
  <2> QED
    BY <2>1, <2>2
<1>6. status \in {"ok", "error", "panic", "hang"}
  OBVIOUS
<1>7. CASE s.status # "ok" /\ next = s
  BY <1>7
<1>8. CASE /\ s.status = "ok" /\ found.status # "ok"
           /\ next = [status |-> found.status, index |-> s.index, fuzz |-> s.fuzz, places |-> s.places]
  <2>1. found.status \in {"error", "panic"}
    BY <1>4, <1>8 DEF Fits
  <2> HIDE DEF next, found
  <2>2. next \in Parsers(X, file)
    BY <1>1, <1>8, <2>1 DEF Parsers
  <2> QED
    BY <2>2 DEF next
<1>9. CASE /\ s.status = "ok" /\ found.status = "ok"
           /\ next = [status |-> status, index |-> index, fuzz |-> s.fuzz + from.fuzz + found.fuzz,
                      places |-> Append(s.places, place)]
  <2>1. found.at \in Nat /\ found.at + Len(Old(lines)) <= Len(file) /\ found.fuzz \in Nat
    BY <1>4, <1>9 DEF Fits
  <2>2. index \in 0 .. Len(file) /\ s.fuzz + from.fuzz + found.fuzz \in Nat
    <3> DEFINE size == Len(Old(lines))
    <3>1. size \in Nat /\ index = found.at + size /\ found.at + size <= Len(file)
      BY <1>2, <2>1
    <3>2. s.fuzz \in Nat /\ from.fuzz \in Nat /\ Len(file) \in Nat
      BY <1>1, <1>3
    <3>3. found.at \in Nat /\ found.fuzz \in Nat
      BY <2>1
    <3> HIDE DEF found, from, lines, size, index
    <3>4. index \in 0 .. Len(file)
      BY <3>1, <3>2, <3>3
    <3>5. s.fuzz + from.fuzz + found.fuzz \in Nat
      BY <3>2, <3>3
    <3> QED
      BY <3>4, <3>5
  <2>3. place \in Places(X, file)
    <3> HIDE DEF found
    <3> QED
      BY <2>1 DEF Places
  <2>4. Append(s.places, place) \in Seq(Places(X, file))
    <3> HIDE DEF place
    <3> QED
      BY <1>1, <2>3
  <2> HIDE DEF next, found, from, index, place, status
  <2>5. next \in Parsers(X, file)
    BY <1>1, <1>6, <1>9, <2>2, <2>4 DEF Parsers
  <2> QED
    BY <2>5 DEF next
<1> QED
  BY <1>5, <1>7, <1>8, <1>9

ParserAt(file, sections) ==
  LET parsed[k \in 0 .. Len(sections)] ==
        IF k = 0 THEN [status |-> "ok", index |-> 0, fuzz |-> 0, places |-> <<>>]
        ELSE ParseSection(file, parsed[k - 1], sections[k])
  IN parsed

\* All sections, section by section.
LEMMA UpdateFits ==
  ASSUME NEW X, NEW file \in Seq(X), NEW sections, Len(sections) \in Nat,
         \A k \in 1 .. Len(sections) : sections[k].lines \in Seq(LinesOf(X))
  PROVE  ParseUpdateFile(file, sections) \in Parsers(X, file)
<1> DEFINE n == Len(sections)
           S == Parsers(X, file)
           a == [status |-> "ok", index |-> 0, fuzz |-> 0, places |-> <<>>]
           next == [p \in (1 .. n) \X S |-> ParseSection(file, p[2], sections[p[1]])]
           Body(g) == [k \in 0 .. n |-> IF k = 0 THEN a ELSE ParseSection(file, g[k - 1], sections[k])]
<1>1. n \in Nat /\ \A k \in 1 .. n : sections[k].lines \in Seq(LinesOf(X))
  OBVIOUS
<1>2. a \in S
  <2>1. 0 \in 0 .. Len(file) /\ <<>> \in Seq(Places(X, file))
    OBVIOUS
  <2> QED
    BY <2>1 DEF Parsers
<1>3. \A s \in S, k \in 1 .. n : ParseSection(file, s, sections[k]) \in S
  BY <1>1, SectionFits
<1>4. next \in [(1 .. n) \X S -> S]
  <2> HIDE DEF S
  <2> QED
    BY <1>3
<1>5. PICK f : Iterates(f, n, S, a, next)
  <2> HIDE DEF n, S, a, next
  <2> QED
    BY <1>1, <1>2, <1>4, Recursion
<1>6. f \in [0 .. n -> S] /\ f[0] = a /\ \A k \in 1 .. n : f[k] = ParseSection(file, f[k - 1], sections[k])
  <2>1. f \in [0 .. n -> S] /\ f[0] = a /\ \A k \in 1 .. n : f[k] = next[<<k, f[k - 1]>>]
    <3> HIDE DEF n, S, a, next
    <3> QED
      BY <1>5 DEF Iterates
  <2>2. ASSUME NEW k \in 1 .. n PROVE f[k] = ParseSection(file, f[k - 1], sections[k])
    <3>1. k - 1 \in 0 .. n
      BY <1>1
    <3> HIDE DEF n, S, a
    <3>2. f[k - 1] \in S
      BY <2>1, <3>1
    <3>3. next[<<k, f[k - 1]>>] = ParseSection(file, f[k - 1], sections[k])
      BY <3>2
    <3> HIDE DEF next
    <3> QED
      BY <2>1, <3>3
  <2> HIDE DEF n, S, a, next
  <2> QED
    BY <2>1, <2>2
<1> HIDE DEF S, next
<1>7. f = Body(f)
  <2> HIDE DEF n, a
  <2>1. f = [k \in 0 .. n |-> f[k]]
    BY <1>6
  <2>2. \A k \in 0 .. n : f[k] = IF k = 0 THEN a ELSE ParseSection(file, f[k - 1], sections[k])
    <3>1. \A k \in 0 .. n : k # 0 => k \in 1 .. n
      BY <1>1
    <3> QED
      BY <1>6, <3>1
  <2> QED
    BY <2>1, <2>2
<1> DEFINE p == ParserAt(file, sections)
<1>8. p = Body(p)
  <2>1. \E g : g = Body(g)
    <3> HIDE DEF Body
    <3> QED
      BY <1>7
  <2> QED
    BY <2>1 DEF ParserAt
<1>9. p[0] = a /\ \A k \in 1 .. n : p[k] = ParseSection(file, p[k - 1], sections[k])
  <2>1. 0 \in 0 .. n /\ \A k \in 1 .. n : k \in 0 .. n /\ k # 0
    BY <1>1
  <2> HIDE DEF p, n, a
  <2> QED
    BY <1>8, <2>1
<1> HIDE DEF Body, p
<1>10. p[n] \in S
  <2> DEFINE I == {k \in 0 .. n : p[k] \in S}
  <2> HIDE DEF n, a
  <2>1. 0 \in I
    BY <1>1, <1>2, <1>9
  <2>2. ASSUME NEW k \in 1 .. n, k - 1 \in I PROVE k \in I
    <3>1. ParseSection(file, p[k - 1], sections[k]) \in S
      BY <1>3, <2>2
    <3>2. k \in 0 .. n
      BY <1>1
    <3> QED
      BY <1>9, <3>1, <3>2
  <2>3. 0 .. n \subseteq I
    <3> HIDE DEF I
    <3> QED
      BY <1>1, <2>1, <2>2, UpTo
  <2>4. n \in 0 .. n
    BY <1>1
  <2> QED
    BY <2>3, <2>4
<1>11. ParseUpdateFile(file, sections) = p[n]
  BY DEF ParseUpdateFile, ParserAt, p
<1> QED
  BY <1>10, <1>11 DEF S

---------------------------------------------------------------------------
(* The patch tool: what its updates make *)

\* What the call loads are the lines of files, and when it parses it has loaded all
\* that the patch needs.
LoadedInv ==
  /\ phase \in {"check", "check added", "load"} =>
       \A f \in Files : disk[f] # Absent => IsSequence(disk[f])
  /\ \A p \in DOMAIN loaded : IsSequence(loaded[p])
  /\ phase = "load" => FilesNeeded \subseteq DOMAIN loaded \cup todo
  /\ phase = "parse" => FilesNeeded \subseteq DOMAIN loaded

UpdatesInv == LoadedInv /\ UpdatesAsDescribed

\* An update that is applied makes what it describes.
LEMMA UpdateMakes ==
  ASSUME NEW h, InSections(h), NEW file, IsSequence(file),
         GetUpdatedFile(file, ParseUpdateFile(file, h.sections).places).status = "ok"
  PROVE  GetUpdatedFile(file, ParseUpdateFile(file, h.sections).places).new
           = Described(file, ParseUpdateFile(file, h.sections).places)
<1> DEFINE X == Range(file) \cup UNION {{l.line : l \in Range(s.lines)} : s \in Range(h.sections)}
           places == ParseUpdateFile(file, h.sections).places
<1>1. file \in Seq(X)
  <2>1. Range(file) \subseteq X /\ file \in Seq(Range(file))
    BY DEF IsSequence
  <2> HIDE DEF X
  <2> QED
    BY <2>1
<1>2. Len(h.sections) \in Nat /\ \A k \in 1 .. Len(h.sections) : h.sections[k] \in Range(h.sections)
  BY DEF InSections, IsSequence
<1>3. ASSUME NEW s \in Range(h.sections) PROVE s.lines \in Seq(LinesOf(X))
  <2>1. IsSequence(s.lines) /\ \A l \in Range(s.lines) :
          l = [mark |-> l.mark, line |-> l.line] /\ l.mark \in {"keep", "delete", "add"}
    BY DEF InSections
  <2>2. \A l \in Range(s.lines) : l.line \in X
    OBVIOUS
  <2> HIDE DEF X
  <2>3. \A l \in Range(s.lines) : l \in LinesOf(X)
    BY <2>1, <2>2 DEF LinesOf, LineMarks
  <2>4. s.lines \in Seq(Range(s.lines)) /\ Range(s.lines) \subseteq LinesOf(X)
    BY <2>1, <2>3 DEF IsSequence
  <2> QED
    BY <2>4
<1> HIDE DEF X
<1>4. \A k \in 1 .. Len(h.sections) : h.sections[k].lines \in Seq(LinesOf(X))
  BY <1>2, <1>3
<1>5. ParseUpdateFile(file, h.sections) \in Parsers(X, file)
  <2> DEFINE sections == h.sections
  <2>1. Len(sections) \in Nat /\ \A k \in 1 .. Len(sections) : sections[k].lines \in Seq(LinesOf(X))
    BY <1>2, <1>4
  <2> HIDE DEF sections
  <2>2. ParseUpdateFile(file, sections) \in Parsers(X, file)
    BY <1>1, <2>1, UpdateFits
  <2> QED
    BY <2>2 DEF sections
<1>6. places \in Seq(Places(X, file))
  BY <1>5 DEF Parsers
<1>7. GetUpdatedFile(file, places).status = "ok"
  OBVIOUS
<1> HIDE DEF places
<1>8. GetUpdatedFile(file, places).new = Described(file, places)
  BY <1>1, <1>6, <1>7, UpdatedAsDescribed
<1> QED
  BY <1>8 DEF places

\* When all hunks are parsed, each is the only one of its path.
LEMMA OneHunk ==
  ASSUME TextTyped, \A i \in DOMAIN text : Status(i) = "ok", NEW g \in Hunks, NEW h \in Hunks, g.path = h.path
  PROVE  g = h
<1>1. PICK i \in DOMAIN text : g = text[i]
  BY DEF Hunks
<1>2. PICK j \in DOMAIN text : h = text[j]
  BY DEF Hunks
<1>3. i \in 1 .. Len(text) /\ j \in 1 .. Len(text) /\ Len(text) \in Nat
  BY DEF TextTyped, IsSequence
<1>4. i = j \/ i \in 1 .. j - 1 \/ j \in 1 .. i - 1
  BY <1>3
<1>5. ~(i \in 1 .. j - 1) /\ ~(j \in 1 .. i - 1)
  BY <1>1, <1>2 DEF Status
<1> QED
  BY <1>1, <1>2, <1>4, <1>5

\* Nothing is loaded and nothing is made at first.
LEMMA InitUpdates == PatchInit => UpdatesInv
<1> SUFFICES ASSUME PatchInit PROVE UpdatesInv
  OBVIOUS
<1>1. PICK c \in Cases : disk = c.disk
  BY DEF PatchInit
<1>2. \A f \in Files : disk[f] # Absent => IsSequence(disk[f])
  BY <1>1, ToolAssumption
<1>3. DOMAIN loaded = {} /\ DOMAIN commit = {} /\ phase = "check"
  BY DEF PatchInit
<1> QED
  BY <1>2, <1>3 DEF UpdatesInv, LoadedInv, UpdatesAsDescribed

\* What is loaded stays the lines of files.
LEMMA LoadedKept ==
  ASSUME PatchTyped, LoadedInv, [PatchNext]_patchVars
  PROVE  LoadedInv'
<1>0. FilesNeeded' = FilesNeeded /\ FilesNeeded \subseteq Paths
  BY TextKept, PathsOfHunks DEF PatchTyped
<1>1. CASE UNCHANGED <<disk, loaded>> /\ phase' \notin {"check", "check added", "load", "parse"}
  BY <1>1 DEF LoadedInv
<1>2. CASE UNCHANGED <<disk, loaded, phase, todo>>
  BY <1>0, <1>2 DEF LoadedInv
<1>3. CASE UNCHANGED <<loaded, phase, todo>> /\ phase \notin {"check", "check added", "load"}
  BY <1>0, <1>3 DEF LoadedInv
<1>4. CASE Parse
  <2>1. phase' \notin {"check", "check added", "load", "parse"}
    BY <1>4, ParseEnds
  <2> QED
    BY <1>1, <1>4, <2>1 DEF Parse
<1>5. CASE Proceed
  <2>1. UNCHANGED <<disk, loaded>>
    BY <1>5 DEF Proceed
  <2>2. phase' \in {"check", "check added", "load"} => phase \in {"check", "check added", "load"}
    BY <1>5 DEF Proceed, Then
  <2>3. phase' = "load" => todo' = FilesNeeded
    BY <1>5 DEF Proceed, Then
  <2>4. phase' = "parse" => phase = "load" /\ todo = {}
    BY <1>5 DEF Proceed, Then
  <2> QED
    BY <1>0, <2>1, <2>2, <2>3, <2>4 DEF LoadedInv
<1>6. CASE ApplyFails
  BY <1>1, <1>6 DEF ApplyFails, End
<1>7. CASE UNCHANGED patchVars
  BY <1>2, <1>7 DEF patchVars, call
<1>8. ASSUME NEW p \in Paths, Check(p) \/ CheckAdded(p) \/ Ask(p) PROVE LoadedInv'
  <2>1. UNCHANGED <<disk, loaded>> /\ phase # "load" /\ phase # "parse"
    BY <1>8 DEF Check, CheckAdded, Ask
  <2>2. phase' = phase \/ phase' \in {"rejected", "denied"}
    BY <1>8 DEF Check, CheckAdded, Ask, End
  <2> QED
    BY <2>1, <2>2 DEF LoadedInv
<1>9. ASSUME NEW p \in Paths, Load(p) PROVE LoadedInv'
  <2>1. disk' = disk /\ phase = "load"
    BY <1>9 DEF Load
  <2>2. CASE disk[absPath[p]] = Absent
    BY <1>1, <1>9, <2>2 DEF Load, End
  <2>3. CASE disk[absPath[p]] # Absent
    <3>1. /\ loaded' = [q \in DOMAIN loaded \cup {p} |-> IF q = p THEN disk[absPath[p]] ELSE loaded[q]]
          /\ todo' = todo \ {p} /\ phase' = phase
      BY <1>9, <2>3 DEF Load
    <3>2. IsSequence(disk[absPath[p]])
      BY <2>1, <2>3, ToolAssumption DEF LoadedInv
    <3>3. \A q \in DOMAIN loaded' : IsSequence(loaded'[q])
      BY <3>1, <3>2 DEF LoadedInv
    <3>4. DOMAIN loaded' \cup todo' = DOMAIN loaded \cup todo \cup {p}
      BY <3>1
    <3> QED
      BY <1>0, <2>1, <3>1, <3>3, <3>4 DEF LoadedInv
  <2> QED
    BY <2>2, <2>3
<1>10. ASSUME NEW p \in Paths, Write(p) \/ RemoveFile(p) \/ Store(p) PROVE LoadedInv'
  <2>1. phase' = phase /\ loaded' = loaded /\ phase \in {"apply", "store"}
    BY <1>10 DEF Write, RemoveFile, Store
  <2> QED
    BY <2>1 DEF LoadedInv
<1>11. ASSUME NEW l \in Files, NEW f \in Others \cup {Absent}, OthersChange(l, f) PROVE LoadedInv'
  <2>1. disk' = [disk EXCEPT ![l] = f] /\ UNCHANGED <<loaded, phase, todo>>
    BY <1>11 DEF OthersChange, call
  <2>2. f # Absent => IsSequence(f)
    BY ToolAssumption
  <2>3. disk = [g \in Files |-> disk[g]]
    BY DEF PatchTyped, FilesTyped
  <2>4. \A g \in Files : disk'[g] = IF g = l THEN f ELSE disk[g]
    BY <2>1, <2>3
  <2> QED
    BY <1>0, <2>1, <2>2, <2>4 DEF LoadedInv
<1> QED
  BY <1>4, <1>5, <1>6, <1>7, <1>8, <1>9, <1>10, <1>11 DEF PatchNext

\* Updates are made once, as they are described, and stay.
LEMMA UpdatesKept ==
  ASSUME PatchTyped, CommitInv, UpdatesInv, [PatchNext]_patchVars
  PROVE  UpdatesAsDescribed'
<1>0. Hunks' = Hunks
  BY TextKept
<1>1. CASE UNCHANGED <<commit, loaded>>
  BY <1>0, <1>1 DEF UpdatesInv, UpdatesAsDescribed
<1>2. CASE Parse
  <2>1. loaded' = loaded /\ phase = "parse" /\ TextTyped
    BY <1>2 DEF Parse, PatchTyped
  <2>2. CASE commit' = commit
    BY <1>1, <2>1, <2>2
  <2>3. CASE /\ commit' = [p \in {h.path : h \in Hunks} |-> Change(CHOOSE h \in Hunks : h.path = p)]
             /\ \A i \in DOMAIN text : Status(i) = "ok"
             /\ \A h \in UpdateHunks : Updated(h).status = "ok"
    <3> SUFFICES ASSUME NEW h \in Hunks, h.type = "update"
                 PROVE  commit'[h.path].new
                          = Described(loaded[h.path], ParseUpdateFile(loaded[h.path], h.sections).places)
      BY <1>0, <2>1 DEF UpdatesAsDescribed
    <3>1. (CHOOSE g \in Hunks : g.path = h.path) = h
      BY <2>1, <2>3, OneHunk
    <3>2. commit'[h.path] = Change(h)
      BY <2>3, <3>1
    <3>3. Change(h).new = Updated(h).new
      BY DEF Change
    <3>4. Updated(h).status = "ok"
      BY <2>3 DEF UpdateHunks
    <3>5. InSections(h)
      BY <2>1 DEF TextTyped
    <3>6. h.path \in FilesNeeded
      BY DEF FilesNeeded
    <3>7. IsSequence(loaded[h.path])
      BY <2>1, <3>6 DEF UpdatesInv, LoadedInv
    <3>8. Updated(h).new = Described(loaded[h.path], ParseUpdateFile(loaded[h.path], h.sections).places)
      BY <3>4, <3>5, <3>7, UpdateMakes DEF Updated, Parsed
    <3> QED
      BY <3>2, <3>3, <3>8
  <2> QED
    BY <1>2, <2>2, <2>3, ParseEnds
<1>3. CASE Proceed \/ ApplyFails \/ UNCHANGED patchVars
  BY <1>1, <1>3 DEF Proceed, ApplyFails, patchVars, call
<1>4. ASSUME NEW p \in Paths, Check(p) \/ CheckAdded(p) \/ Ask(p) PROVE UpdatesAsDescribed'
  BY <1>1, <1>4 DEF Check, CheckAdded, Ask
<1>5. ASSUME NEW p \in Paths, Load(p) PROVE UpdatesAsDescribed'
  <2>1. commit' = commit /\ commit = <<>>
    BY <1>5 DEF Load, CommitInv, Planned
  <2>2. DOMAIN commit' = {}
    BY <2>1
  <2> QED
    BY <2>2 DEF UpdatesAsDescribed
<1>6. ASSUME NEW p \in Paths, Write(p) \/ RemoveFile(p) \/ Store(p) PROVE UpdatesAsDescribed'
  BY <1>1, <1>6 DEF Write, RemoveFile, Store
<1>7. ASSUME NEW l \in Files, NEW f, OthersChange(l, f) PROVE UpdatesAsDescribed'
  BY <1>1, <1>7 DEF OthersChange, call
<1> QED
  BY <1>2, <1>3, <1>4, <1>5, <1>6, <1>7 DEF PatchNext

\* An update gives the file the lines its sections say (getUpdatedFile, patch.go:513-540).
THEOREM PatchUpdates == PatchSpec => []UpdatesAsDescribed
<1>1. PatchTyped /\ PatchInv /\ UpdatesInv /\ [PatchNext]_patchVars => UpdatesInv'
  BY LoadedKept, UpdatesKept DEF UpdatesInv, PatchInv
<1>2. UpdatesInv => UpdatesAsDescribed
  BY DEF UpdatesInv
<1> QED
  BY <1>1, <1>2, InitUpdates, PatchInvariant, PTL DEF PatchSpec

=============================================================================
