------------------------------ MODULE PatchTool ------------------------------
(***************************************************************************)
(* The patch tool (internal/llm/tools/patch.go): one call that changes     *)
(* several files by a patch (Patch), and its commit (internal/diff/        *)
(* patch.go: Parse, PatchToCommit, ApplyCommit).                           *)
(*                                                                         *)
(* The call goes through the files again and again, each time in the       *)
(* random order of a map: it checks them, loads them, asks for permission  *)
(* for each, applies the changes and stores the versions.  Others change   *)
(* files at any time, while it asks above all.                             *)
(*                                                                         *)
(* The clock of FileTools is left out: a file was never read, was read, or *)
(* was modified after it was read.  The patch names files, relatively or   *)
(* absolutely, and tells changes apart by name; the disk, the records and  *)
(* the history know the absolute path.  Of the history the contents are    *)
(* kept that the session has of a file: which of them is the newest is     *)
(* FileHistory's, so that a lookup finds any.                              *)
(***************************************************************************)
EXTENDS Patch

CONSTANTS
  Paths,      \* the names of files
  Files,      \* the absolute ones
  absPath,    \* [Paths -> Files]: filepath.Join with the working directory
  Cases,      \* what the model asks for, a sequence of hunks, and when: the files,
              \* the records of reading them and their versions
  Others,     \* what others may make of a file
  Absent,     \* no file
  NoMove,     \* an update without a "*** Move to: " line
  MaxOthers   \* bound: how often others change a file

IsSequence(s) == s \in Seq(Range(s))

\* The sections of an update are lines with their marks.
InSections(h) ==
  /\ IsSequence(h.sections)
  /\ \A s \in Range(h.sections) : IsSequence(s.lines) /\ \A l \in Range(s.lines) :
       l = [mark |-> l.mark, line |-> l.line] /\ l.mark \in {"keep", "delete", "add"}

ASSUME ToolAssumption ==
  /\ absPath \in [Paths -> Files]
  /\ \A c \in Cases :
       /\ IsSequence(c.text)
       /\ \A i \in DOMAIN c.text :
            /\ c.text[i].path \in Paths /\ c.text[i].type \in {"add", "delete", "update"}
            /\ c.text[i].type = "update" =>
                 c.text[i].move \in Paths \cup {NoMove} /\ InSections(c.text[i])
       /\ c.disk = [f \in Files |-> c.disk[f]] /\ c.history = [f \in Files |-> c.history[f]]
       /\ \A f \in Files : c.disk[f] # Absent => IsSequence(c.disk[f])
       /\ c.record \in [Files -> {"never", "current", "modified"}]
  /\ \A f \in Others : IsSequence(f)
  /\ MaxOthers \in Nat

VARIABLES
  disk,      \* [Files -> the content of the file, or Absent]
  record,    \* [Files -> what fileRecords and the modification time come to]
  history,   \* [Files -> the contents the session has of it]
  text,      \* params.PatchText
  phase,     \* which of its loops the call is in
  todo,      \* the files this loop has left
  loaded,    \* currentFiles
  commit,    \* commit.Changes
  moving,    \* the paths that are written where they move to and not yet removed
  others,    \* how often others have changed a file
  approved,  \* history: the changes the user allowed
  written,   \* history: the files the call has changed
  touched,   \* history: the files others changed since the call checked them
  unstored   \* history: the changes of which a version could not be stored

call      == <<text, phase, todo, loaded, commit, moving>>
ghosts    == <<approved, written, touched, unstored>>
patchVars == <<disk, record, history, call, others, ghosts>>

Ended == {"rejected", "denied", "failed", "panicked", "hanging", "done"}

Hunks          == {text[i] : i \in DOMAIN text}
FilesNeeded    == {h.path : h \in {g \in Hunks : g.type # "add"}}
FilesAdded     == {h.path : h \in {g \in Hunks : g.type = "add"}}
Empty          == <<>>

PatchTypeOK ==
  /\ record \in [Files -> {"never", "current", "modified"}]
  /\ phase \in {"check", "check added", "load", "parse", "ask", "apply", "store"} \cup Ended
  /\ todo \subseteq Paths /\ moving \subseteq Paths
  /\ DOMAIN loaded \subseteq Paths /\ DOMAIN commit \subseteq Paths
  /\ others \in 0 .. MaxOthers
  /\ approved \subseteq DOMAIN commit /\ unstored \subseteq DOMAIN commit
  /\ written \subseteq Files /\ touched \subseteq Files

PatchInit ==
  /\ \E c \in Cases :
       disk = c.disk /\ record = c.record /\ history = c.history /\ text = c.text
  /\ phase = "check" /\ todo = FilesNeeded
  /\ loaded = <<>> /\ commit = <<>> /\ moving = {}
  /\ others = 0
  /\ approved = {} /\ written = {} /\ touched = {} /\ unstored = {}

End(p) == phase' = p /\ todo' = {}

---------------------------------------------------------------------------
(* Checks and loads *)

\* A loop has come to its end, and the next begins.
Then(loop, next, files) == phase = loop /\ phase' = next /\ todo' = files

Proceed ==
  /\ todo = {} /\ moving = {}
  /\ \/ Then("check", "check added", FilesAdded)
     \/ Then("check added", "load", FilesNeeded)
     \/ Then("load", "parse", {})
     \/ Then("ask", "apply", DOMAIN commit)
     \/ Then("apply", "store", DOMAIN commit)
     \/ Then("store", "done", {})
  /\ UNCHANGED <<disk, record, history, text, loaded, commit, moving, others, ghosts>>

\* Mutant of Check: files that were modified after they were read pass.
CheckRead(p) ==
  /\ phase = "check" /\ p \in todo
  /\ IF record[absPath[p]] # "never" /\ disk[absPath[p]] # Absent
     THEN todo' = todo \ {p} /\ UNCHANGED phase
     ELSE End("rejected")
  /\ UNCHANGED <<disk, record, history, text, loaded, commit, moving, others, ghosts>>

Check(p) ==
  /\ phase = "check" /\ p \in todo
  /\ IF record[absPath[p]] = "current" /\ disk[absPath[p]] # Absent
     THEN todo' = todo \ {p} /\ UNCHANGED phase
     ELSE End("rejected")
  /\ UNCHANGED <<disk, record, history, text, loaded, commit, moving, others, ghosts>>

CheckAdded(p) ==
  /\ phase = "check added" /\ p \in todo
  /\ IF disk[absPath[p]] = Absent THEN todo' = todo \ {p} /\ UNCHANGED phase
     ELSE End("rejected")
  /\ UNCHANGED <<disk, record, history, text, loaded, commit, moving, others, ghosts>>

Load(p) ==
  /\ phase = "load" /\ p \in todo
  /\ IF disk[absPath[p]] = Absent THEN End("rejected") /\ UNCHANGED loaded
     ELSE /\ loaded' = [q \in DOMAIN loaded \cup {p} |->
                          IF q = p THEN disk[absPath[p]] ELSE loaded[q]]
          /\ todo' = todo \ {p}
          /\ UNCHANGED phase
  /\ UNCHANGED <<disk, record, history, text, commit, moving, others, ghosts>>

---------------------------------------------------------------------------
(* TextToPatch and PatchToCommit *)

\* An update's sections, found in the file, and the file they make of it.
Parsed(h)  == ParseUpdateFile(loaded[h.path], h.sections)
Updated(h) == GetUpdatedFile(loaded[h.path], Parsed(h).places)

Change(h) ==
  LET change(old, new, move) == [type |-> h.type, old |-> old, new |-> new, move |-> move]
  IN CASE h.type = "add"    -> change(Empty, h.lines, NoMove)
       [] h.type = "delete" -> change(loaded[h.path], Empty, NoMove)
       [] h.type = "update" -> change(loaded[h.path], Updated(h).new, h.move)

UpdateHunks == {h \in Hunks : h.type = "update"}

\* How the parsing of the i-th hunk ends.  That a file is changed twice is noticed
\* if it has the same name twice.
Status(i) ==
  IF \E j \in 1 .. i - 1 : text[j].path = text[i].path THEN "error"
  ELSE IF text[i] \in UpdateHunks THEN Parsed(text[i]).status ELSE "ok"

\* The fuzz of all updates.
Fuzz == MapThenSumSet(LAMBDA h : Parsed(h).fuzz, UpdateHunks)

\* The first hunk that cannot be parsed decides; then the fuzz of all, and whether
\* the chunks can be applied.
Parse ==
  /\ phase = "parse"
  /\ LET bad == {i \in DOMAIN text : Status(i) # "ok"}
     IN IF bad = {} /\ Fuzz <= 3 /\ \A h \in UpdateHunks : Updated(h).status = "ok"
        THEN /\ commit' = [p \in {h.path : h \in Hunks} |->
                             Change(CHOOSE h \in Hunks : h.path = p)]
             /\ phase' = "ask" /\ todo' = {h.path : h \in Hunks}
        ELSE /\ End(CASE bad # {} /\ Status(Least(bad)) = "panic" -> "panicked"
                      [] bad # {} /\ Status(Least(bad)) = "hang" -> "hanging"
                      [] OTHER -> "rejected")
             /\ UNCHANGED commit
  /\ UNCHANGED <<disk, record, history, text, loaded, moving, others, ghosts>>

---------------------------------------------------------------------------
(* Permissions *)

\* Mutant of Ask: each change is made when it is allowed.
AskAndChange(p) ==
  /\ phase = "ask" /\ p \in todo
  /\ \/ /\ approved' = approved \cup {p} /\ todo' = todo \ {p}
        /\ disk' = [disk EXCEPT ![absPath[p]] = commit[p].new]
        /\ written' = written \cup {absPath[p]}
        /\ UNCHANGED phase
     \/ End("denied") /\ UNCHANGED <<approved, disk, written>>
  /\ UNCHANGED <<record, history, text, loaded, commit, moving, others, touched, unstored>>

\* For a file that moves, the permission is for where it is.
Ask(p) ==
  /\ phase = "ask" /\ p \in todo
  /\ \/ /\ approved' = approved \cup {p} /\ todo' = todo \ {p}
        /\ UNCHANGED phase
     \/ End("denied") /\ UNCHANGED approved
  /\ UNCHANGED <<disk, record, history, text, loaded, commit, moving, others,
                 written, touched, unstored>>

---------------------------------------------------------------------------
(* ApplyCommit *)

\* The call writes the file p, or removes it.
Put(p, f) ==
  /\ disk' = [disk EXCEPT ![absPath[p]] = f]
  /\ record' = [record EXCEPT ![absPath[p]] = IF @ = "current" THEN "modified" ELSE @]
  /\ written' = written \cup {absPath[p]}

Write(p) ==
  /\ phase = "apply" /\ p \in todo /\ moving = {}
  /\ commit[p].type # "delete"
  /\ IF commit[p].move = NoMove
     THEN Put(p, commit[p].new) /\ todo' = todo \ {p} /\ UNCHANGED moving
     ELSE Put(commit[p].move, commit[p].new) /\ moving' = {p} /\ UNCHANGED todo
  /\ UNCHANGED <<history, text, phase, loaded, commit, others, approved,
                 touched, unstored>>

\* os.Remove of a file that is deleted, or was written where it moves to.
RemoveFile(p) ==
  /\ phase = "apply" /\ p \in todo
  /\ IF commit[p].type = "delete" THEN moving = {} ELSE p \in moving
  /\ disk[absPath[p]] # Absent
  /\ Put(p, Absent)
  /\ todo' = todo \ {p} /\ moving' = {}
  /\ UNCHANGED <<history, text, phase, loaded, commit, others, approved,
                 touched, unstored>>

\* A file cannot be written or removed, or is gone already.  What was changed
\* before stays, without a version.
ApplyFails ==
  /\ phase = "apply" /\ todo # {}
  /\ End("failed") /\ moving' = {}
  /\ UNCHANGED <<disk, record, history, text, loaded, commit, others, ghosts>>

---------------------------------------------------------------------------
(* The history *)

\* Mutant of Versions: a file that is not known yet gets its new version only.
VersionsOfKnown(p, found, failed) ==
  LET c == commit[p] IN
  [create  |-> {},
   between |-> IF c.type # "add" /\ found \notin {Absent, c.old} THEN {c.old} ELSE {},
   new     |-> {c.new}]

\* What is to be stored for a change, and by which call, after the lookup found the
\* content of a version or none.  Create leaves the file it returns aside, so that
\* oldContent is compared with no content, and mostly stored twice.  Of an added
\* file nothing is stored for what was before; a file that moves keeps its path.
Versions(p, found, failed) ==
  LET c      == commit[p]
      create == c.type # "add" /\ found = Absent
      latest == IF found = Absent THEN Empty ELSE found
  IN [create  |-> IF create THEN {c.old} ELSE {},
      between |-> IF c.type # "add" /\ ~(create /\ "create" \in failed) /\ latest # c.old
                  THEN {c.old} ELSE {},
      new     |-> {c.new}]

\* A lookup that fails finds nothing.
Found(f, failed) ==
  IF "lookup" \in failed \/ history[f] = {} THEN {Absent} ELSE history[f]

\* Each call to the history may fail (the context is cancelled, the attempts are
\* used up), and its error is only logged.  The records of reading and writing follow.
Store(p) ==
  LET f == absPath[p] IN
  /\ phase = "store" /\ p \in todo
  /\ \E failed \in SUBSET {"lookup", "create", "between", "new"} :
     \E found \in Found(f, failed) :
       LET versions == Versions(p, found, failed) IN
       /\ history' = [history EXCEPT ![f] = @ \cup UNION {versions[k] : k \in DOMAIN versions \ failed}]
       /\ unstored' = IF \E k \in DOMAIN versions \cap failed : versions[k] # {}
                      THEN unstored \cup {p} ELSE unstored
  /\ record' = [record EXCEPT ![f] = "current"]
  /\ todo' = todo \ {p}
  /\ UNCHANGED <<disk, text, phase, loaded, commit, moving, others, approved, written, touched>>

---------------------------------------------------------------------------

\* A check of the file is still to come.
Unchecked(f) ==
  \E p \in Paths : absPath[p] = f /\
    (\/ phase = "check" /\ p \in todo \cup FilesAdded
     \/ phase = "check added" /\ p \in todo)

\* The user or another tool writes or removes a file.
OthersChange(f, new) ==
  /\ phase \notin Ended /\ others < MaxOthers /\ others' = others + 1
  /\ new # disk[f]
  /\ disk' = [disk EXCEPT ![f] = new]
  /\ record' = [record EXCEPT ![f] = IF @ = "current" THEN "modified" ELSE @]
  /\ touched' = IF Unchecked(f) THEN touched ELSE touched \cup {f}
  /\ UNCHANGED <<history, call, approved, written, unstored>>

PatchNext ==
  \/ \E p \in Paths : \/ Check(p) \/ CheckAdded(p) \/ Load(p) \/ Ask(p)
                      \/ Write(p) \/ RemoveFile(p) \/ Store(p)
  \/ \E f \in Files, new \in Others \cup {Absent} : OthersChange(f, new)
  \/ Proceed \/ Parse \/ ApplyFails

PatchSpec == PatchInit /\ [][PatchNext]_patchVars

---------------------------------------------------------------------------
(* Properties *)

\* An update gives the file the lines its sections say: what they mark "-" is
\* gone, what they mark "+" is there in its place, and nothing else has changed,
\* however the sections lie, and although chunks are cut at kept lines only.
UpdatesAsDescribed ==
  \A h \in Hunks : h.path \in DOMAIN commit /\ h.type = "update" =>
    commit[h.path].new =
      Described(loaded[h.path], ParseUpdateFile(loaded[h.path], h.sections).places)

\* Where p moves to, as a file.
Target(p) == {absPath[m] : m \in {commit[p].move} \ {NoMove}}

\* Two changes of the patch meet: a file has two names, or moves to where another
\* change is, or to where it is itself, when it is written and then removed.
Meet(p) ==
  \/ absPath[p] \in Target(p)
  \/ \E q \in DOMAIN commit \ {p} :
       ({absPath[p]} \cup Target(p)) \cap ({absPath[q]} \cup Target(q)) # {}

\* What the file is after its change.
After(p) == IF commit[p].type = "delete" \/ commit[p].move # NoMove THEN Absent ELSE commit[p].new

\* A patch that is refused, wholly or for one of its files, has changed none of
\* them; one that succeeds has changed all, each as asked, unless two of its
\* changes meet.  Of two changes of a file under two names the second undoes the
\* first, and both are reported; and a failure to write leaves the patch half
\* done: the tool calls itself a single atomic operation.
AllOrNothing ==
  /\ written # {} => approved = DOMAIN commit
  /\ phase \in Ended \ {"failed", "done"} => written = {}
  /\ phase = "done" => \A p \in DOMAIN commit :
       \/ absPath[p] \in touched \/ Meet(p)
       \/ disk[absPath[p]] = After(p) /\ \A f \in Target(p) \ touched : disk[f] = commit[p].new

\* What the patch overwrites or removes is what the model has read and the call
\* has loaded, or no file if it adds one; not what others did after the check, and
\* not what is at the place a file moves to, which nothing looks at.
OverwritesOnlyWhatWasRead ==
  [][\A f \in Files : phase = "apply" /\ disk'[f] # disk[f] /\ f \notin touched' =>
       \/ f \in written \/ \E q \in DOMAIN commit : f \in Target(q)
       \/ \E p \in DOMAIN commit : absPath[p] = f /\
            IF p \in FilesNeeded THEN record[f] = "current" /\ disk[f] = loaded[p]
            ELSE disk[f] = Absent]_patchVars

\* A patch that succeeds leaves in the history what each file was that it changed
\* or deleted, and what it has become, whatever the session had of it before, and
\* also when the lookup failed; but not the version that could not be stored,
\* although the patch succeeds then, too.
BothSidesStored ==
  phase = "done" => \A p \in DOMAIN commit \ unstored :
    /\ commit[p].new \in history[absPath[p]]
    /\ commit[p].type # "add" => commit[p].old \in history[absPath[p]]

=============================================================================
