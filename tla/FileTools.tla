------------------------------ MODULE FileTools ------------------------------
(***************************************************************************)
(* The tools that read and change a file: view, write and edit             *)
(* (internal/llm/tools/view.go, write.go, edit.go), the record of when the *)
(* file was last read (file.go) and the history the changes are kept in    *)
(* (FileHistory).                                                          *)
(*                                                                         *)
(* A call checks that the file was not modified after the last read, reads *)
(* it, asks for permission, which may take for ever, and only then writes. *)
(* Calls of several sessions, of a cancelled run and of its successor, and *)
(* changes by anybody else (the user's editor, git, the bash tool) come in *)
(* between.  The record does not tell sessions apart.                      *)
(*                                                                         *)
(* Calls for different paths share nothing, so one file is modelled.  Its  *)
(* content is a set of lines: enough to say what a change keeps.           *)
(***************************************************************************)
EXTENDS FileHistory

CONSTANTS
  Calls,      \* the calls of write and edit
  Views,      \* the calls of view
  Params,     \* what the model asks for, see ParamsAssumption
  Lines,      \* the lines a file can have
  UserLines,  \* those that others add
  Empty,      \* the empty string, as old_string or new_string
  Absent,     \* no file
  MaxNow,     \* bound: the last instant of the one clock, for file times and rows
  MaxUser,    \* bound: how often others change the file
  MaxFailures \* bound: how often the database fails

ASSUME ParamsAssumption ==
  /\ Contents = SUBSET Lines /\ (\A x \in Contents : x # Absent) /\ Empty \notin Lines
  /\ UserLines \subseteq Lines /\ Calls \cap Views = {}
  /\ \A p \in Params :
       \/ /\ p.tool = "write" /\ p.session \in Sessions
          /\ p.text \in Contents \ {{}}
       \/ /\ p.tool = "edit" /\ p.session \in Sessions
          /\ {p.old, p.new} \subseteq Lines \cup {Empty}
  /\ MaxNow \in Nat \ {0} /\ MaxUser \in Nat /\ MaxFailures \in Nat

VARIABLES
  file,      \* the content of the file on disk, or Absent
  mtime,     \* when it was last modified
  lastRead,  \* fileRecords[path].readTime; 0 is the zero time
  now,       \* the clock
  pc,        \* where each call is
  call,      \* [Calls -> what it was asked for]
  local,     \* [Calls -> its local variables; history: whether the database has
             \* failed it]
  changes,   \* how often others have changed the file
  failures,  \* how often the database has failed
  unseen,    \* history: lines others added while no tool was at the file, and that no view has read
  together   \* history: the sessions two calls of which were at the history at once

disk   == <<file, mtime, changes>>
tool   == <<call, local>>
ghosts == <<failures, unseen, together>>
vars   == <<versions, disk, lastRead, now, pc, tool, ghosts>>

Labels == {"idle", "start", "checked", "asking", "lookup", "create",
           "list old", "insert old", "list new", "insert new", "record", "ok", "error", "read", "done"}
Phases == {"create", "delete", "replace", "write"}
Fresh  == [phase |-> "write", old |-> {}, new |-> {}, first |-> 0, failed |-> FALSE]
NoCall == [tool |-> "none"]

TypeOK ==
  /\ versions \subseteq Rows
  /\ file = Absent \/ file \in Contents
  /\ mtime \in 0 .. now /\ lastRead \in 0 .. now /\ now \in 1 .. MaxNow
  /\ pc \in [Calls \cup Views -> Labels]
  /\ call \in [Calls -> Params \cup {NoCall}]
  /\ local \in [Calls -> [phase : Phases, old : Contents, new : Contents,
                          first : Nat, failed : BOOLEAN]]
  /\ changes \in 0 .. MaxUser /\ failures \in 0 .. MaxFailures
  /\ unseen \subseteq UserLines
  /\ together \subseteq Sessions

Init ==
  /\ versions = {}
  /\ \E f \in {Absent} \cup {{l} : l \in Lines \ UserLines} : file = f
  /\ mtime = 0 /\ lastRead = 0 /\ now = 1
  /\ pc = [c \in Calls \cup Views |-> "idle"]
  /\ call = [c \in Calls |-> NoCall]
  /\ local = [c \in Calls |-> Fresh]
  /\ changes = 0 /\ failures = 0
  /\ unseen = {} /\ together = {}

Goto(c, l) == pc' = [pc EXCEPT ![c] = l]
Phase(c)   == local[c].phase
Session(c) == call[c].session
Exists     == file # Absent
OnDisk     == IF Exists THEN file ELSE {}

\* Run returns "ok" or "error" (an error, or a response with IsError); its local
\* variables are gone.
Finish(c, r) ==
  /\ Goto(c, r)
  /\ call' = [call EXCEPT ![c] = NoCall]
  /\ local' = [local EXCEPT ![c] = Fresh]

\* createNewFile, deleteContent or replaceContent has returned a response, good
\* or bad: after the first two, edit's Run goes on to the next.
Respond(c, r) ==
  IF Phase(c) \in {"create", "delete"}
  THEN /\ local' = [local EXCEPT ![c].phase =
                      IF Phase(c) = "create" /\ call[c].new = Empty THEN "delete" ELSE "replace"]
       /\ Goto(c, "start")
       /\ UNCHANGED call
  ELSE Finish(c, r)

---------------------------------------------------------------------------
(* Before the permission *)

Start(c, p) ==
  /\ pc[c] = "idle"
  /\ call' = [call EXCEPT ![c] = p]
  /\ local' = [local EXCEPT ![c].phase =
                 CASE p.tool = "write" -> "write"
                   [] p.tool = "edit" /\ p.old = Empty -> "create"
                   [] p.tool = "edit" /\ p.old # Empty /\ p.new = Empty -> "delete"
                   [] OTHER -> "replace"]
  /\ Goto(c, "start")
  /\ UNCHANGED <<versions, disk, lastRead, now, ghosts>>

\* Mutant of MayChange: the modification time is not compared.
MayChangeAfterAnyRead(c) ==
  CASE Phase(c) = "create" -> ~Exists
    [] Phase(c) = "write"  -> TRUE
    [] OTHER               -> Exists /\ lastRead # 0

\* os.Stat and the record.
MayChange(c) ==
  CASE Phase(c) = "create" -> ~Exists
    [] Phase(c) = "write"  -> Exists => mtime <= lastRead
    [] OTHER               -> Exists /\ lastRead # 0 /\ mtime <= lastRead

\* A new file is not read.
Proposed(c) == IF Phase(c) = "write" THEN call[c].text ELSE {call[c].new} \ {Empty}

Check(c) ==
  /\ pc[c] = "start"
  /\ IF ~MayChange(c) THEN Respond(c, "error")
     ELSE /\ UNCHANGED call
          /\ IF Exists THEN Goto(c, "checked") /\ UNCHANGED local
             ELSE /\ Goto(c, "asking")
                  /\ local' = [local EXCEPT ![c].old = {}, ![c].new = Proposed(c)]
  /\ UNCHANGED <<versions, disk, lastRead, now, ghosts>>

\* strings.Index and LastIndex: old_string is there once (the empty string is
\* everywhere in a file that is not empty).
Matches(c) == IF call[c].old = Empty THEN OnDisk = {} ELSE call[c].old \in OnDisk

Edited(c) ==
  CASE Phase(c) = "write"   -> call[c].text
    [] Phase(c) = "delete"  -> OnDisk \ {call[c].old}
    [] Phase(c) = "replace" -> (OnDisk \ {call[c].old}) \cup ({call[c].new} \ {Empty})

\* os.ReadFile.  Only deleteContent accepts to change nothing.
Read(c) ==
  /\ pc[c] = "checked"
  /\ CASE Phase(c) # "write" /\ ~Exists -> Finish(c, "error")
       [] \/ Phase(c) # "write" /\ Exists /\ ~Matches(c)
          \/ Phase(c) # "delete" /\ Exists /\ Edited(c) = OnDisk -> Respond(c, "error")
       [] OTHER -> /\ local' = [local EXCEPT ![c].old = OnDisk, ![c].new = Edited(c)]
                   /\ Goto(c, "asking")
                   /\ UNCHANGED call
  /\ UNCHANGED <<versions, disk, lastRead, now, ghosts>>

---------------------------------------------------------------------------
(* The permission, and the write.  Nothing is checked again. *)

\* Or a write the system refuses.
DeniedOrFails(c) ==
  /\ pc[c] = "asking"
  /\ Finish(c, "error")
  /\ UNCHANGED <<versions, disk, lastRead, now, ghosts>>

AtHistory(c) ==
  pc[c] \in {"lookup", "create", "list old", "insert old", "list new", "insert new"}

\* The permission is granted, and os.WriteFile.
WriteFile(c) ==
  /\ pc[c] = "asking"
  /\ file' = local[c].new /\ mtime' = now
  /\ together' = IF \E d \in Calls \ {c} : AtHistory(d) /\ Session(d) = Session(c)
                 THEN together \cup {Session(c)} ELSE together
  /\ Goto(c, IF Phase(c) = "create" THEN "create" ELSE "lookup")
  /\ UNCHANGED <<versions, changes, lastRead, now, tool, failures, unseen>>

---------------------------------------------------------------------------
(* The history *)

\* Mutant of Lookup: what others have changed meanwhile is not kept.
LookupOnly(c) ==
  /\ pc[c] = "lookup"
  /\ Goto(c, IF GetByPathAndSession(Session(c)) = {} THEN "create" ELSE "list new")
  /\ UNCHANGED <<versions, disk, lastRead, now, tool, ghosts>>

\* files.GetByPathAndSession
Lookup(c) ==
  /\ pc[c] = "lookup"
  /\ IF GetByPathAndSession(Session(c)) = {}
     THEN Goto(c, "create")
     ELSE \E v \in GetByPathAndSession(Session(c)) :
            Goto(c, IF v.content # local[c].old THEN "list old" ELSE "list new")
  /\ UNCHANGED <<versions, disk, lastRead, now, tool, ghosts>>

\* files.Create.  The file it returns is dropped, so that what is compared with
\* oldContent next is an empty one.
Create(c) ==
  /\ pc[c] = "create"
  /\ IF Inserted(Session(c), InitialVersion, now) = {}
     THEN Finish(c, "error") /\ UNCHANGED versions
     ELSE /\ \E v \in Inserted(Session(c), InitialVersion, now) :
               Insert(Session(c), v, local[c].old, now)
          /\ Goto(c, IF Phase(c) # "create" /\ local[c].old # {} THEN "list old" ELSE "list new")
          /\ UNCHANGED tool
  /\ UNCHANGED <<disk, lastRead, now, ghosts>>

\* files.CreateVersion: ListFilesByPath ...
ListVersions(c) ==
  /\ pc[c] \in {"list old", "list new"}
  /\ \E v \in NextVersions : local' = [local EXCEPT ![c].first = v]
  /\ Goto(c, IF pc[c] = "list old" THEN "insert old" ELSE "insert new")
  /\ UNCHANGED <<versions, disk, lastRead, now, call, ghosts>>

\* deleteContent stores no content, whatever the file has left.
Stored(c) ==
  CASE pc[c] = "insert old"                          -> local[c].old
    [] pc[c] = "insert new" /\ Phase(c) = "delete"   -> {}
    [] OTHER                                         -> local[c].new

\* ... and createWithVersion.  An error is logged, and the tool goes on.
InsertVersion(c) ==
  LET candidates == Inserted(Session(c), local[c].first, now) IN
  /\ pc[c] \in {"insert old", "insert new"}
  /\ IF candidates = {} THEN UNCHANGED versions
     ELSE \E v \in candidates : Insert(Session(c), v, Stored(c), now)
  /\ local' = [local EXCEPT ![c].first = 0]
  /\ Goto(c, IF pc[c] = "insert old" THEN "list new" ELSE "record")
  /\ UNCHANGED <<disk, lastRead, now, call, ghosts>>

\* Mutant of HistoryFails: the error of Create is logged only.
HistoryFailsSilently(c) ==
  /\ AtHistory(c) /\ failures < MaxFailures
  /\ failures' = failures + 1
  /\ Goto(c, CASE pc[c] = "lookup" -> "create"
               [] pc[c] \in {"create", "list old", "insert old"} -> "list new"
               [] OTHER -> "record")
  /\ local' = [local EXCEPT ![c].failed = TRUE]
  /\ UNCHANGED <<versions, disk, lastRead, now, call, unseen, together>>

\* The database fails, or the context of the call is cancelled.  An error of
\* the lookup counts as no row; one of Create ends the call, without a record.
HistoryFails(c) ==
  /\ AtHistory(c) /\ failures < MaxFailures
  /\ failures' = failures + 1
  /\ IF pc[c] = "create" THEN Finish(c, "error")
     ELSE /\ Goto(c, CASE pc[c] = "lookup" -> "create"
                       [] pc[c] \in {"list old", "insert old"} -> "list new"
                       [] OTHER -> "record")
          /\ local' = [local EXCEPT ![c].failed = TRUE]
          /\ UNCHANGED call
  /\ UNCHANGED <<versions, disk, lastRead, now, unseen, together>>

\* recordFileWrite and recordFileRead; the time is that of the record.
Record(c) ==
  /\ pc[c] = "record"
  /\ lastRead' = now
  /\ Respond(c, "ok")
  /\ UNCHANGED <<versions, disk, now, ghosts>>

---------------------------------------------------------------------------
(* view: the file is read, and later the read is recorded *)

ViewRead(v) ==
  /\ pc[v] = "idle" /\ Exists
  /\ unseen' = {}
  /\ Goto(v, "read")
  /\ UNCHANGED <<versions, disk, lastRead, now, tool, failures, together>>

ViewRecord(v) ==
  /\ pc[v] = "read"
  /\ lastRead' = now
  /\ Goto(v, "done")
  /\ UNCHANGED <<versions, disk, now, tool, ghosts>>

---------------------------------------------------------------------------
(* Others, and the clock *)

\* Between a call's check and its record, a view's read and its record, and in
\* the instant of the last record, a change cannot be told from the tool's own.
Quiet ==
  /\ \A c \in Calls \cup Views : pc[c] \in {"idle", "start", "ok", "error", "done"}
  /\ lastRead < now

Changed ==
  /\ changes < MaxUser /\ changes' = changes + 1
  /\ mtime' = now

OthersAdd(l) ==
  /\ l \notin OnDisk
  /\ file' = OnDisk \cup {l}
  /\ Changed
  /\ unseen' = IF Quiet THEN unseen \cup {l} ELSE unseen
  /\ UNCHANGED <<versions, lastRead, now, pc, tool, failures, together>>

OthersRemove ==
  /\ Exists
  /\ file' = Absent
  /\ Changed
  /\ unseen' = {}
  /\ UNCHANGED <<versions, lastRead, now, pc, tool, failures, together>>

Tick ==
  /\ now < MaxNow
  /\ now' = now + 1
  /\ UNCHANGED <<versions, disk, lastRead, pc, tool, ghosts>>

---------------------------------------------------------------------------

Step(c) ==
  \/ Check(c) \/ Read(c) \/ DeniedOrFails(c) \/ WriteFile(c)
  \/ Lookup(c) \/ Create(c) \/ ListVersions(c) \/ InsertVersion(c)
  \/ HistoryFails(c) \/ Record(c)

Next ==
  \/ \E c \in Calls : Step(c) \/ \E p \in Params : Start(c, p)
  \/ \E v \in Views : ViewRead(v) \/ ViewRecord(v)
  \/ \E l \in UserLines : OthersAdd(l)
  \/ OthersRemove
  \/ Tick

Spec == Init /\ [][Next]_vars

---------------------------------------------------------------------------
(* Properties *)

\* The check of the modification time works: what somebody else added while no
\* tool was at the file stays there until a view has read the file, whatever
\* the model writes or edits in any session.  A change in the middle of a call
\* or a view is not noticed and may be lost, see Quiet.
UnseenChangesKept == unseen \subseteq OnDisk

\* A row that may be counted from is so far behind the session's own versions
\* that all the attempts are taken: many versions in one second, or another
\* session that has just begun to change the file.
FarBehind(s) ==
  \E r \in versions, v \in OfSession(s) :
    v.second <= r.second /\ r.version + MaxRetries <= v.version

\* Both sides of a change are in the history.
Kept(c) == {local[c].old, local[c].new} \subseteq {v.content : v \in OfSession(Session(c))}

\* What a call that succeeds has read and replaced, and what it has written,
\* are both in its session's history, whatever calls of other sessions insert
\* meanwhile; unless the database failed, two calls of the session were there at
\* once, or the attempts to find a version ran out.
BothSidesInHistory ==
  [][\A c \in Calls : pc[c] = "record" /\ pc'[c] = "ok" =>
       \/ Kept(c) \/ local[c].failed
       \/ Session(c) \in together \/ FarBehind(Session(c))]_vars

HasInitialVersion(s) == \E v \in OfSession(s) : v.version = InitialVersion

\* The initial version, from which the sidebar counts what a session changed, is
\* there with the session's first row, and before a call that changed the file
\* reports success; also when other sessions' versions are newer, and whatever
\* fails in between.  A call whose Create fails ends with an error: the file is
\* changed by then, and the session may be left without any row.
InitialVersionKept ==
  /\ \A v \in versions : HasInitialVersion(v.session)
  /\ \A c \in Calls : pc[c] = "record" => HasInitialVersion(Session(c))

=============================================================================
