----------------------------- MODULE LspDocuments -----------------------------
(***************************************************************************)
(* What a language server knows of one file: the documents the client      *)
(* opens and changes (internal/lsp/client.go), the watcher that follows    *)
(* the file on disk (internal/lsp/watcher/watcher.go) and the tools that   *)
(* open or change it (internal/llm/tools/diagnostics.go).                  *)
(*                                                                         *)
(* The watcher takes the file's events one by one and lets a timer wait    *)
(* for the last of a burst; the timer's function, like a tool, looks up    *)
(* whether the document is open, reads the file and sends what it read,    *)
(* with nothing to keep others out in between.                             *)
(*                                                                         *)
(* Of the file only the number of its change is kept.  The server is       *)
(* initialized, lives, and reads whole messages in the order they are      *)
(* written: LspClient is about those.  Files share nothing but locks.      *)
(***************************************************************************)
EXTENDS Naturals, Sequences

CONSTANTS
  Tools,      \* goroutines of tools
  Timers,     \* bound: timers that wait or run at once
  WatchKinds, \* what the server may register for the file
  MaxChanges  \* bound: the last change of the file

ASSUME DocumentsAssumption ==
  /\ (Tools \cup Timers) \cap {"watcher", "preload", "none"} = {} /\ Tools \cap Timers = {}
  /\ WatchKinds \subseteq SUBSET {"create", "change", "delete"}
  /\ MaxChanges \in Nat \ {0}

VARIABLES
  disk,       \* the change that made the file what it is; 0: no file
  changes,    \* how often it has changed
  events,     \* watcher.Events
  watching,   \* whether WatchWorkspace is in its loop
  kinds,      \* the kinds of events isPathWatched gives for the file
  eager,      \* whether openMatchingFile opens such a file
  debounceMap,\* [Keys -> the timer of that key]
  key,        \* [Timers -> the key of a timer in use]
  at,         \* where each goroutine is
  content,    \* [Goroutines -> what it read]
  version,    \* [Goroutines -> the version it sends]
  openFiles,  \* the version in the document's entry; 0: no entry
  text,       \* what the server has as the document's text; 0: not open
  textVersion,\* and its version
  misused,    \* history: whether the server was told to open twice, or a version not newer
  overlapped, \* history: whether two operations on the document were under way at once
  excused     \* history: why the server's text may be old, since the file was last read

disks   == <<disk, changes>>
watch   == <<watching, kinds, eager>>
timers  == <<debounceMap, key>>
local   == <<content, version>>
document == <<text, textVersion>>
documentVars ==
  <<disks, events, watch, timers, at, local, openFiles, document, misused, overlapped, excused>>

Actors == Tools \cup Timers \cup {"watcher", "preload"}
Keys       == {"created", "changed"}
Busy       == {"read to open", "did open", "record", "read to change", "bump", "did change"}
Labels     == Busy \cup {"rest", "is open", "open", "stat", "pending", "handle", "cleanup"}

DocumentsTypeOK ==
  /\ disk \in 0 .. changes /\ changes \in 1 .. MaxChanges
  /\ events \in Seq({"create", "write", "remove", "rename"})
  /\ {watching, eager, misused, overlapped} \subseteq BOOLEAN
  /\ kinds \in WatchKinds \cup {{"create", "change", "delete"}}
  /\ debounceMap \in [Keys -> Timers \cup {"none"}]
  /\ key \in [Timers -> Keys]
  /\ at \in [Actors -> Labels]
  /\ content \in [Actors -> 0 .. changes]
  /\ version \in [Actors -> Nat]
  /\ openFiles \in Nat /\ textVersion \in Nat /\ text \in 0 .. changes
  /\ excused \subseteq {"overlap", "replaced", "not registered"}

DocumentsInit ==
  /\ disk = 1 /\ changes = 1
  /\ events = <<>>
  /\ watching = TRUE /\ kinds = {"create", "change", "delete"} /\ eager \in BOOLEAN
  /\ debounceMap = [k \in Keys |-> "none"]
  /\ key = [t \in Timers |-> "changed"]
  /\ at = [g \in Actors |-> "rest"]
  /\ content = [g \in Actors |-> 0] /\ version = [g \in Actors |-> 0]
  /\ openFiles = 0 /\ text = 0 /\ textVersion = 0
  /\ misused = FALSE /\ overlapped = FALSE /\ excused = {}

MoveTo(g, l) == at' = [at EXCEPT ![g] = l]

\* Where a goroutine goes on after an operation on the document.
EndOperation(g) ==
  /\ MoveTo(g, IF g \in Timers THEN "cleanup" ELSE IF g = "watcher" THEN "stat" ELSE "rest")
  /\ content' = [content EXCEPT ![g] = 0]
  /\ version' = [version EXCEPT ![g] = 0]

\* g begins an operation that reads the file.  Alone, it makes up for all that
\* the server has missed.
Begin(g) ==
  LET alone == \A h \in Actors \ {g} : at[h] \notin Busy IN
  /\ overlapped' = (overlapped \/ ~alone)
  /\ excused' = IF alone THEN {} ELSE excused \cup {"overlap"}

---------------------------------------------------------------------------
(* OpenFile *)

CheckOpen(g) ==
  /\ at[g] = "open"
  /\ IF openFiles # 0
     THEN EndOperation(g) /\ UNCHANGED <<overlapped, excused>>
     ELSE Begin(g) /\ MoveTo(g, "read to open") /\ UNCHANGED local
  /\ UNCHANGED <<disks, events, watch, timers, openFiles, document, misused>>

\* os.ReadFile, also of NotifyChange.
ReadFile(g) ==
  /\ at[g] \in {"read to open", "read to change"}
  /\ IF disk = 0 THEN EndOperation(g)
     ELSE /\ content' = [content EXCEPT ![g] = disk]
          /\ MoveTo(g, IF at[g] = "read to open" THEN "did open" ELSE "bump")
          /\ UNCHANGED version
  /\ UNCHANGED <<disks, events, watch, timers, openFiles, document, misused, overlapped, excused>>

DidOpen(g) ==
  /\ at[g] = "did open"
  /\ misused' = (misused \/ text # 0)
  /\ text' = content[g] /\ textVersion' = 1
  /\ MoveTo(g, "record")
  /\ UNCHANGED <<disks, events, watch, timers, local, openFiles, overlapped, excused>>

\* Mutant of Record: the entry is forgotten.
RecordNothing(g) ==
  /\ at[g] = "record"
  /\ EndOperation(g)
  /\ UNCHANGED <<disks, events, watch, timers, openFiles, document, misused, overlapped, excused>>

Record(g) ==
  /\ at[g] = "record"
  /\ openFiles' = 1
  /\ EndOperation(g)
  /\ UNCHANGED <<disks, events, watch, timers, document, misused, overlapped, excused>>

---------------------------------------------------------------------------
(* NotifyChange, after ReadFile *)

Bump(g) ==
  /\ at[g] = "bump"
  /\ IF openFiles = 0 THEN EndOperation(g) /\ UNCHANGED openFiles
     ELSE /\ openFiles' = openFiles + 1
          /\ version' = [version EXCEPT ![g] = openFiles + 1]
          /\ MoveTo(g, "did change")
          /\ UNCHANGED content
  /\ UNCHANGED <<disks, events, watch, timers, document, misused, overlapped, excused>>

\* A server keeps what comes last, whatever its version.
DidChange(g) ==
  /\ at[g] = "did change"
  /\ misused' = (misused \/ text = 0 \/ version[g] <= textVersion)
  /\ text' = content[g] /\ textVersion' = version[g]
  /\ EndOperation(g)
  /\ UNCHANGED <<disks, events, watch, timers, openFiles, overlapped, excused>>

---------------------------------------------------------------------------
(* Tools *)

\* notifyLspOpenFile of view and diagnostics; waitForLspDiagnostics of
\* diagnostics, write, edit and patch.
ToolBegins(g) ==
  /\ at[g] = "rest"
  /\ \E l \in {"open", "is open"} : MoveTo(g, l)
  /\ UNCHANGED <<disks, events, watch, timers, local, openFiles, document, misused, overlapped, excused>>

\* IsFileOpen, of a tool and of the goroutine that preloads files.
IsFileOpen(g) ==
  /\ at[g] = "is open"
  /\ IF openFiles = 0
     THEN MoveTo(g, "open") /\ UNCHANGED <<local, overlapped, excused>>
     ELSE IF g = "preload" THEN EndOperation(g) /\ UNCHANGED <<overlapped, excused>>
     ELSE Begin(g) /\ MoveTo(g, "read to change") /\ UNCHANGED local
  /\ UNCHANGED <<disks, events, watch, timers, openFiles, document, misused>>

---------------------------------------------------------------------------
(* The file on disk, changed by tools and by others *)

Changed(f, es) ==
  /\ changes < MaxChanges /\ changes' = changes + 1
  /\ disk' = f
  /\ events' = IF watching THEN events \o es ELSE events
  /\ UNCHANGED <<watch, timers, at, local, openFiles, document, misused, overlapped>>

\* As os.WriteFile does, and most tools.
WriteInPlace ==
  /\ Changed(changes + 1, IF disk = 0 THEN <<"create", "write">> ELSE <<"write">>)
  /\ UNCHANGED excused

\* Another file is renamed to this one, as many editors and git do.
Replace ==
  /\ Changed(changes + 1, <<"create">>)
  /\ excused' = excused \cup {"replaced"}

Remove(e) == disk # 0 /\ Changed(0, <<e>>) /\ UNCHANGED excused

---------------------------------------------------------------------------
(* The watcher *)

\* Mutant of Debounce: an event is left to the timer that is there.
DebounceOnce(k, g, l) ==
  IF debounceMap[k] # "none" THEN MoveTo(g, l) /\ UNCHANGED timers
  ELSE \E t \in Timers :
         /\ at[t] = "rest"
         /\ debounceMap' = [debounceMap EXCEPT ![k] = t]
         /\ key' = [key EXCEPT ![t] = k]
         /\ at' = [at EXCEPT ![g] = l, ![t] = "pending"]

\* debounceHandleFileEvent: the timer that is there is stopped, unless it has
\* fired, and a new one is set.  g goes on at l.
Debounce(k, g, l) ==
  LET old == debounceMap[k] IN
  \E t \in Timers :
    /\ at[t] = "rest" \/ (t = old /\ at[t] = "pending")
    /\ debounceMap' = [debounceMap EXCEPT ![k] = t]
    /\ key' = [key EXCEPT ![t] = k]
    /\ at' = [h \in Actors |->
                CASE h = g -> l
                  [] h = t -> "pending"
                  [] h = old /\ h # t /\ at[h] = "pending" -> "rest"
                  [] OTHER -> at[h]]

Takes(e) == watching /\ at["watcher"] = "rest" /\ events # <<>> /\ Head(events) = e

\* A file the server asks for is opened at once, if it is one of the first.
OnCreate ==
  /\ Takes("create")
  /\ events' = Tail(events)
  /\ MoveTo("watcher", IF disk # 0 /\ eager /\ kinds # {} THEN "open" ELSE "stat")
  /\ UNCHANGED <<disks, watch, timers, local, openFiles, document, misused, overlapped, excused>>

\* The loop returns for good if the file is gone by now.
Stat ==
  /\ at["watcher"] = "stat"
  /\ IF kinds # {} /\ disk = 0
     THEN watching' = FALSE /\ events' = <<>> /\ MoveTo("watcher", "rest") /\ UNCHANGED timers
     ELSE /\ IF "create" \in kinds THEN Debounce("created", "watcher", "rest")
             ELSE MoveTo("watcher", "rest") /\ UNCHANGED timers
          /\ UNCHANGED <<watching, events>>
  /\ UNCHANGED <<disks, kinds, eager, local, openFiles, document, misused, overlapped, excused>>

OnWrite ==
  /\ Takes("write")
  /\ events' = Tail(events)
  /\ IF "change" \in kinds
     THEN Debounce("changed", "watcher", "rest") /\ UNCHANGED excused
     ELSE excused' = excused \cup {"not registered"} /\ UNCHANGED <<timers, at>>
  /\ UNCHANGED <<disks, watch, local, openFiles, document, misused, overlapped>>

\* The server is told that the file is gone; the document stays open.  After a
\* rename the file may be there again.
OnRemove ==
  /\ \E e \in {"remove", "rename"} :
       /\ Takes(e)
       /\ IF e = "rename" /\ disk # 0 /\ "create" \in kinds
          THEN Debounce("created", "watcher", "rest")
          ELSE UNCHANGED <<timers, at>>
  /\ events' = Tail(events)
  /\ UNCHANGED <<disks, watch, local, openFiles, document, misused, overlapped, excused>>

Fire(t) ==
  /\ at[t] = "pending"
  /\ MoveTo(t, "handle")
  /\ UNCHANGED <<disks, events, watch, timers, local, openFiles, document, misused, overlapped, excused>>

\* handleFileEvent: only a change of an open document is sent as its new text.
\* didChangeWatchedFiles leaves the server's text of an open document alone.
HandleFileEvent(t) ==
  /\ at[t] = "handle"
  /\ IF key[t] = "changed" /\ openFiles # 0
     THEN MoveTo(t, "read to change") /\ Begin(t)
     ELSE /\ MoveTo(t, "cleanup")
          /\ excused' = IF \E h \in Actors : at[h] \in Busy
                        THEN excused \cup {"overlap"} ELSE excused
          /\ UNCHANGED overlapped
  /\ UNCHANGED <<disks, events, watch, timers, local, openFiles, document, misused>>

\* The entry of the key is deleted, be it this timer's or a newer one's.
Cleanup(t) ==
  /\ at[t] = "cleanup"
  /\ debounceMap' = [debounceMap EXCEPT ![key[t]] = "none"]
  /\ key' = [key EXCEPT ![t] = "changed"]
  /\ MoveTo(t, "rest")
  /\ UNCHANGED <<disks, events, watch, local, openFiles, document, misused, overlapped, excused>>

\* AddRegistrations: the server says which files and events it wants, and the first
\* registration that matches the file decides; for some servers matching files are
\* opened by a goroutine of their own.
AddRegistrations(k) ==
  /\ kinds' = IF kinds \in {{}, {"create", "change", "delete"}} THEN k ELSE kinds
  /\ at["preload"] = "rest"
  /\ MoveTo("preload", IF eager /\ kinds' # {} THEN "is open" ELSE "rest")
  /\ UNCHANGED <<disks, events, watching, eager, timers, local, openFiles, document, misused,
                 overlapped, excused>>

---------------------------------------------------------------------------

Operate(g) ==
  \/ CheckOpen(g) \/ ReadFile(g) \/ DidOpen(g) \/ Record(g) \/ Bump(g) \/ DidChange(g)
  \/ IsFileOpen(g)

DocumentsNext ==
  \/ \E g \in Actors : Operate(g)
  \/ \E g \in Tools : ToolBegins(g)
  \/ \E t \in Timers : Fire(t) \/ HandleFileEvent(t) \/ Cleanup(t)
  \/ OnCreate \/ Stat \/ OnWrite \/ OnRemove
  \/ WriteInPlace \/ Replace \/ Remove("remove") \/ Remove("rename")
  \/ \E k \in WatchKinds : AddRegistrations(k)

DocumentsSpec == DocumentsInit /\ [][DocumentsNext]_documentVars

---------------------------------------------------------------------------
(* Properties *)

Quiet == events = <<>> /\ \A g \in Actors : at[g] = "rest"

\* When all has come to rest, the server's text of an open document is the
\* file's: no burst of writes, and no timer that fires, is replaced or cleans up
\* at the wrong moment, loses the last change.  What is lost is known: the file
\* was replaced by a rename, the server does not want changes, the watcher's
\* loop has returned, or two operations on the document overlapped; and the
\* next operation on it that runs alone makes up for it.
ServerSeesFile ==
  Quiet /\ watching /\ openFiles # 0 /\ disk # 0 /\ excused = {} => text = disk

\* The server is told to open the document once, then changes of increasing
\* versions, unless two operations on the document overlapped: nothing keeps two
\* from opening it, or from sending their versions in the wrong order.
ProtocolKept == misused => overlapped

=============================================================================
