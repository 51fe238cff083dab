------------------------------- MODULE Shell -------------------------------
(***************************************************************************)
(* The persistent shell of the bash tool                                   *)
(* (internal/llm/tools/shell/shell.go, used by internal/llm/tools/bash.go):*)
(* one bash process for the whole program, fed through its standard input. *)
(* A command is followed by "pwd > file" and "echo $? > file", and a       *)
(* goroutine polls for the second file.  The commands of all sessions, and *)
(* of cancelled runs still winding down, share the shell through a queue.  *)
(*                                                                         *)
(* bash is the environment: it evaluates what it was sent in order, it may *)
(* take for ever, leave what it is sent unread, and exit at any time.  A   *)
(* timeout or cancellation signals its children only, which need not end   *)
(* the command: an abandoned command may go on, or even start later.       *)
(***************************************************************************)
EXTENDS Naturals, Sequences, FiniteSets

CONSTANTS
  Execs,      \* the calls of Exec by the bash tool
  MaxShells,  \* bound: how many shells can be started
  Dirs,       \* the directories
  Home,       \* config.WorkingDirectory()
  None,       \* no shell, no command, no file
  QueueSize   \* the capacity of commandQueue (10 in the code)

Shells == 1 .. MaxShells

ASSUME ShellAssumption ==
  /\ MaxShells \in Nat /\ QueueSize \in Nat \ {0}
  /\ Home \in Dirs /\ None \notin Shells \cup Execs \cup Dirs

VARIABLES
  shellInstance,  \* the shell GetPersistentShell returned last, or None
  started,        \* how many shells have been started
  isAlive,        \* [Shells -> the flag of that name]
  exited,         \* the shells whose process has ended
  closed,         \* the shells whose commandQueue is closed
  commandQueue,   \* [Shells -> commands waiting for processCommands]
  executing,      \* [Shells -> the command execCommand is at, or None]
  writing,        \* the shells whose execCommand is in stdin.Write
  cwd,            \* [Shells -> the directory a successor starts in]
  input,          \* [Shells -> commands in the pipe, the last perhaps in part]
  evaluating,     \* [Shells -> the command bash evaluates, or None]
  dir,            \* [Shells -> bash's working directory]
  statusFile,     \* [Execs -> the directory saved beside the status, or None]
  pc,             \* where each call is
  startDir,       \* [Execs -> where the shell it makes is to start, or None]
  shellOf,        \* [Execs -> the shell it was given, or None]
  result,         \* what Exec returned
  begun,          \* history: the commands bash began to evaluate
  finished,       \* history: the commands bash evaluated to the end
  raced,          \* history: two calls found no live shell at the same time
  unsettled       \* history: the calls that read the directory of a dead shell before the
                  \* result of its last command

shells  == <<shellInstance, started, isAlive, exited, closed, commandQueue, executing, writing, cwd>>
bash    == <<input, evaluating, dir, statusFile, begun, finished>>
callers == <<pc, startDir, shellOf, result>>
races   == <<raced, unsettled>>
vars    == <<shells, bash, callers, races>>

Results == {"none", "completed", "interrupted", "dead", "unwritten", "panicked"}

TypeOK ==
  /\ shellInstance \in Shells \cup {None}
  /\ started \in 0 .. MaxShells
  /\ isAlive \in [Shells -> BOOLEAN]
  /\ exited \subseteq Shells /\ closed \subseteq Shells /\ writing \subseteq Shells
  /\ commandQueue \in [Shells -> Seq(Execs)] /\ input \in [Shells -> Seq(Execs)]
  /\ \A s \in Shells : Len(commandQueue[s]) <= QueueSize
  /\ executing \in [Shells -> Execs \cup {None}]
  /\ evaluating \in [Shells -> Execs \cup {None}]
  /\ cwd \in [Shells -> Dirs] /\ dir \in [Shells -> Dirs]
  /\ statusFile \in [Execs -> Dirs \cup {None}]
  /\ pc \in [Execs -> {"idle", "making", "found", "sending", "waiting", "done"}]
  /\ startDir \in [Execs -> Dirs \cup {None}]
  /\ shellOf \in [Execs -> Shells \cup {None}]
  /\ result \in [Execs -> Results]
  /\ begun \subseteq Execs /\ finished \subseteq Execs
  /\ raced \in BOOLEAN /\ unsettled \subseteq Execs

Init ==
  /\ shellInstance = None /\ started = 0
  /\ isAlive = [s \in Shells |-> FALSE]
  /\ exited = {} /\ closed = {}
  /\ commandQueue = [s \in Shells |-> <<>>]
  /\ executing = [s \in Shells |-> None] /\ writing = {}
  /\ cwd = [s \in Shells |-> Home]
  /\ input = [s \in Shells |-> <<>>]
  /\ evaluating = [s \in Shells |-> None]
  /\ dir = [s \in Shells |-> Home]
  /\ statusFile = [e \in Execs |-> None]
  /\ pc = [e \in Execs |-> "idle"]
  /\ startDir = [e \in Execs |-> None]
  /\ shellOf = [e \in Execs |-> None]
  /\ result = [e \in Execs |-> "none"]
  /\ begun = {} /\ finished = {}
  /\ raced = FALSE /\ unsettled = {}

Goto(e, l) == pc' = [pc EXCEPT ![e] = l]

Return(e, r) == Goto(e, "done") /\ result' = [result EXCEPT ![e] = r]

---------------------------------------------------------------------------
(* GetPersistentShell, called by any goroutine, with no lock *)

LiveInstance == shellInstance # None /\ isAlive[shellInstance]

\* Where newPersistentShell starts the process.
StartDir == IF shellInstance = None THEN Home ELSE cwd[shellInstance]

\* The directory is read now, the process started later.
Make(e) ==
  /\ Goto(e, "making")
  /\ startDir' = [startDir EXCEPT ![e] = StartDir]
  /\ raced' = (raced \/ \E f \in Execs : pc[f] = "making")
  /\ unsettled' = IF shellInstance # None /\ executing[shellInstance] # None
                  THEN unsettled \cup {e} ELSE unsettled

\* Mutant of GetPersistentShell: a new shell for every call.
GetNewShell(e) ==
  /\ pc[e] = "idle"
  /\ Make(e)
  /\ UNCHANGED <<shells, bash, shellOf, result>>

GetPersistentShell(e) ==
  /\ pc[e] = "idle"
  /\ IF LiveInstance
     THEN /\ Goto(e, "found") /\ shellOf' = [shellOf EXCEPT ![e] = shellInstance]
          /\ UNCHANGED <<startDir, races>>
     ELSE Make(e) /\ UNCHANGED shellOf
  /\ UNCHANGED <<shells, bash, result>>

NewPersistentShell(e) ==
  LET n == started + 1 IN
  /\ pc[e] = "making" /\ n \in Shells
  /\ started' = n
  /\ shellInstance' = n
  /\ isAlive' = [isAlive EXCEPT ![n] = TRUE]
  /\ cwd' = [cwd EXCEPT ![n] = startDir[e]]
  /\ dir' = [dir EXCEPT ![n] = startDir[e]]
  /\ shellOf' = [shellOf EXCEPT ![e] = n]
  /\ startDir' = [startDir EXCEPT ![e] = None]
  /\ Goto(e, "found")
  /\ UNCHANGED <<exited, closed, commandQueue, executing, writing, input, evaluating, statusFile,
                 begun, finished, result, races>>

\* The process cannot be started: nil, which Exec dereferences.
StartFails(e) ==
  /\ pc[e] = "making"
  /\ shellInstance' = None
  /\ startDir' = [startDir EXCEPT ![e] = None]
  /\ Return(e, "panicked")
  /\ UNCHANGED <<started, isAlive, exited, closed, commandQueue, executing, writing, cwd, bash,
                 shellOf, races>>

---------------------------------------------------------------------------
(* Exec *)

CheckAlive(e) ==
  /\ pc[e] = "found"
  /\ IF isAlive[shellOf[e]]
     THEN Goto(e, "sending") /\ UNCHANGED result
     ELSE Return(e, "dead")
  /\ UNCHANGED <<shells, bash, startDir, shellOf, races>>

\* The send waits for room; on a closed channel it panics.
Send(e) ==
  LET s == shellOf[e] IN
  /\ pc[e] = "sending"
  /\ \/ /\ s \in closed
        /\ Return(e, "panicked")
        /\ UNCHANGED commandQueue
     \/ /\ s \notin closed /\ Len(commandQueue[s]) < QueueSize
        /\ commandQueue' = [commandQueue EXCEPT ![s] = Append(@, e)]
        /\ Goto(e, "waiting")
        /\ UNCHANGED result
  /\ UNCHANGED <<shellInstance, started, isAlive, exited, closed, executing, writing, cwd, bash,
                 startDir, shellOf, races>>

---------------------------------------------------------------------------
(* processCommands and execCommand: one goroutine for each shell *)

\* Mutant of Free: the next command is taken before the result of this one.
AlwaysFree(s) == s \notin writing

Free(s) == executing[s] = None

\* The next command, which is written to bash if the shell is still there.
TakeCommand(s) ==
  /\ commandQueue[s] # <<>> /\ Free(s)
  /\ commandQueue' = [commandQueue EXCEPT ![s] = Tail(@)]
  /\ LET e == Head(commandQueue[s]) IN
       IF isAlive[s] /\ s \notin exited
       THEN /\ executing' = [executing EXCEPT ![s] = e]
            /\ writing' = writing \cup {s}
            /\ input' = [input EXCEPT ![s] = Append(@, e)]
            /\ UNCHANGED <<pc, result>>
       ELSE /\ Return(e, IF isAlive[s] THEN "unwritten" ELSE "dead")
            /\ UNCHANGED <<executing, writing, input>>
  /\ UNCHANGED <<shellInstance, started, isAlive, exited, closed, cwd, evaluating, dir,
                 statusFile, begun, finished, startDir, shellOf, races>>

\* stdin.Write returns.  It waits for room in the pipe: bash may well have begun
\* the command by then.
Written(s) ==
  /\ s \in writing
  /\ writing' = writing \ {s}
  /\ UNCHANGED <<shellInstance, started, isAlive, exited, closed, commandQueue, executing, cwd,
                 bash, callers, races>>

\* bash is gone before it has read all.
WriteFails(s) ==
  LET e == executing[s] IN
  /\ s \in writing /\ s \in exited
  /\ writing' = writing \ {s}
  /\ statusFile' = [statusFile EXCEPT ![e] = None]
  /\ executing' = [executing EXCEPT ![s] = None]
  /\ Return(e, "unwritten")
  /\ UNCHANGED <<shellInstance, started, isAlive, exited, closed, commandQueue, cwd, input,
                 evaluating, dir, begun, finished, startDir, shellOf, races>>

\* Mutant of Deliver: the directory is not read back.
DeliverWithoutCwd(s, r) ==
  LET e == executing[s] IN
  /\ statusFile' = [statusFile EXCEPT ![e] = None]
  /\ executing' = [executing EXCEPT ![s] = None]
  /\ Return(e, r)
  /\ UNCHANGED <<shellInstance, started, isAlive, exited, closed, commandQueue, writing, cwd,
                 input, evaluating, dir, begun, finished, startDir, shellOf, races>>

\* The files are read and removed, and the result is sent.
Deliver(s, r) ==
  LET e == executing[s] IN
  /\ cwd' = IF statusFile[e] = None THEN cwd ELSE [cwd EXCEPT ![s] = statusFile[e]]
  /\ statusFile' = [statusFile EXCEPT ![e] = None]
  /\ executing' = [executing EXCEPT ![s] = None]
  /\ Return(e, r)
  /\ UNCHANGED <<shellInstance, started, isAlive, exited, closed, commandQueue, writing, input,
                 evaluating, dir, begun, finished, startDir, shellOf, races>>

\* Mutant of HasStatus: all commands use the same file name.
AnyStatus(e) == \E f \in Execs : statusFile[f] # None

\* The status file of this command is there.
HasStatus(e) == statusFile[e] # None

\* Whether execCommand polls for the status.
Waiting(s) == executing[s] # None /\ s \notin writing

CommandCompleted(s) ==
  /\ Waiting(s) /\ HasStatus(executing[s])
  /\ Deliver(s, "completed")

\* Mutant of CommandInterrupted: no timeout while bash is silent.
InterruptedWhenDone(s) ==
  /\ Waiting(s) /\ HasStatus(executing[s])
  /\ Deliver(s, "interrupted")

\* The timeout, which begins after the write, or a cancelled context: bash's children get
\* SIGTERM, and nobody waits for what comes of it.
CommandInterrupted(s) ==
  /\ Waiting(s)
  /\ Deliver(s, "interrupted")

---------------------------------------------------------------------------
(* The goroutine that waits for the process *)

\* cmd.Wait returns.
Reap(s) ==
  /\ s \in exited /\ isAlive[s]
  /\ isAlive' = [isAlive EXCEPT ![s] = FALSE]
  /\ UNCHANGED <<shellInstance, started, exited, closed, commandQueue, executing, writing, cwd,
                 bash, callers, races>>

CloseQueue(s) ==
  /\ s \in exited /\ ~isAlive[s] /\ s \notin closed
  /\ closed' = closed \cup {s}
  /\ UNCHANGED <<shellInstance, started, isAlive, exited, commandQueue, executing, writing, cwd,
                 bash, callers, races>>

---------------------------------------------------------------------------
(* bash *)

Running(s) == s <= started /\ s \notin exited

BeginCommand(s) ==
  /\ Running(s) /\ evaluating[s] = None /\ input[s] # <<>>
  /\ evaluating' = [evaluating EXCEPT ![s] = Head(input[s])]
  /\ input' = [input EXCEPT ![s] = Tail(@)]
  /\ begun' = begun \cup {Head(input[s])}
  /\ UNCHANGED <<shells, dir, statusFile, finished, callers, races>>

\* The command ends, perhaps in another directory: pwd and $? are written.
FinishCommand(s, d) ==
  /\ Running(s) /\ evaluating[s] # None
  /\ dir' = [dir EXCEPT ![s] = d]
  /\ statusFile' = [statusFile EXCEPT ![evaluating[s]] = d]
  /\ finished' = finished \cup {evaluating[s]}
  /\ evaluating' = [evaluating EXCEPT ![s] = None]
  /\ UNCHANGED <<shells, input, begun, callers, races>>

\* exit, or a signal from outside.
Exit(s) ==
  /\ Running(s)
  /\ exited' = exited \cup {s}
  /\ evaluating' = [evaluating EXCEPT ![s] = None]
  /\ input' = [input EXCEPT ![s] = <<>>]
  /\ UNCHANGED <<shellInstance, started, isAlive, closed, commandQueue, executing, writing, cwd, dir,
                 statusFile, begun, finished, callers, races>>

---------------------------------------------------------------------------

Call(e) ==
  \/ NewPersistentShell(e) \/ StartFails(e)
  \/ CheckAlive(e) \/ Send(e)

Process(s) == TakeCommand(s) \/ CommandCompleted(s) \/ CommandInterrupted(s)
WriteReturns(s) == Written(s) \/ WriteFails(s)

\* The write ends: bash is gone, or has come to the command that is written.
WriteEnds(s) ==
  /\ s \in exited \/ \A i \in DOMAIN input[s] : input[s][i] # executing[s]
  /\ WriteReturns(s)

Next ==
  \/ \E e \in Execs : GetPersistentShell(e) \/ Call(e)
  \/ \E s \in Shells : \/ Process(s) \/ WriteReturns(s)
                       \/ Reap(s) \/ CloseQueue(s)
                       \/ BeginCommand(s) \/ Exit(s)
                       \/ \E d \in Dirs : FinishCommand(s, d)

\* Goroutines are scheduled and timers fire; bash owes nothing, so that a write
\* need not end while it lives.
Fairness ==
  /\ \A e \in Execs : WF_vars(Call(e))
  /\ \A s \in Shells : /\ WF_vars(Process(s)) /\ WF_vars(WriteEnds(s))
                       /\ WF_vars(Reap(s)) /\ WF_vars(CloseQueue(s))

Spec == Init /\ [][Next]_vars /\ Fairness

---------------------------------------------------------------------------
(* Properties *)

\* What the model is told about a command is true, although files, signals and
\* a dying shell carry the news: a command reported complete did run to its
\* end, and one refused never ran, also not later.  That it could not be written
\* says nothing: bash may have died in the middle of it.
ResultsTruthful ==
  \A e \in Execs : /\ result[e] = "completed" => e \in finished
                   /\ result[e] \in {"dead", "panicked"} => e \notin begun

\* bash works for somebody: what it evaluates, or will, is the one command
\* execCommand waits for, or one that was given up as interrupted.
OnlyAwaitedOrAbandoned ==
  \A s \in Shells, e \in Execs :
    evaluating[s] = e \/ (\E i \in DOMAIN input[s] : input[s][i] = e) =>
      executing[s] = e \/ result[e] = "interrupted"

\* The commands of a session see one directory: a shell that replaces another
\* starts where bash left off, unless the directory was read before the last
\* result came in, that result had been given up, or two calls replaced the shell.
DirectoryKept ==
  [][shellInstance # None /\ shellInstance' \notin {None, shellInstance} =>
       LET s == shellInstance IN
         \/ dir'[shellInstance'] = dir[s]
         \/ raced
         \/ \E e \in Execs : pc[e] = "making" /\ pc'[e] = "found" /\ e \in unsettled
         \/ \E e \in Execs : shellOf[e] = s /\ result[e] \in {"interrupted", "unwritten"}]_vars

\* There is one shell, unless two calls made one at the same time.
OneLiveShell ==
  ~raced => \A s \in Shells : isAlive[s] => s = shellInstance

\* Every command gets an answer: neither a dead bash, nor a full queue, nor a
\* bash that is silent once it was sent the command keeps a tool waiting for ever.
\* A bash that does not read does: no timer runs while its shell is in the write,
\* and the commands behind that one wait as well.
ExecReturns ==
  \A e \in Execs :
    \/ <>[](pc[e] \in {"idle", "done"})
    \/ \E s \in Shells : <>[](shellOf[e] = s /\ s \in writing)

=============================================================================
