----------------------------- MODULE FileHistory -----------------------------
(***************************************************************************)
(* The version history of one file (internal/history/file.go over the      *)
(* files table): each session keeps the content it found ("initial") and   *)
(* the contents its tools wrote after it (v1, v2, ...), so that the UI can *)
(* show, and a user restore, what a session did.                           *)
(*                                                                         *)
(* A row carries the second it was created in, and the queries order by    *)
(* that second alone, so of the rows of the newest second any may come     *)
(* first.  The next version is counted from that row, whichever session it *)
(* is of, and the table's UNIQUE constraint makes the insertion try again  *)
(* with the version after it, a few times.                                 *)
(***************************************************************************)
EXTENDS Naturals, FiniteSets

CONSTANTS
  Sessions,
  Contents,    \* the contents of the file
  MaxRetries,  \* how often createWithVersion tries to insert a row (3 in the code)
  Epoch        \* the Unix time of second 0: larger than any version number

ASSUME HistoryAssumption == MaxRetries \in Nat \ {0} /\ Epoch \in Nat

VARIABLE versions  \* the rows of the files table

InitialVersion == 0

Rows == [session : Sessions, version : Nat, content : Contents, second : Nat]

\* ORDER BY created_at DESC: the rows one of which comes first.
Newest(rows) == {v \in rows : \A w \in rows : w.second <= v.second}

OfSession(s) == {v \in versions : v.session = s}

\* What GetByPathAndSession may return; nothing if it is empty.
GetByPathAndSession(s) == Newest(OfSession(s))

\* The versions CreateVersion may try first.
NextVersions ==
  IF versions = {} THEN {InitialVersion} ELSE {v.version + 1 : v \in Newest(versions)}

\* What createWithVersion tries at its i-th attempt, i > 0: the next number, or
\* a time if the first was "initial".
Attempt(first, i, second) ==
  IF first = InitialVersion THEN Epoch + second + i - 1 ELSE first + i

\* The version createWithVersion inserts: the first of its attempts that the
\* session has not taken.  There is none if all are.
Inserted(s, first, second) ==
  LET tries == [i \in 0 .. MaxRetries - 1 |-> IF i = 0 THEN first ELSE Attempt(first, i, second)]
      free  == {i \in DOMAIN tries : \A v \in OfSession(s) : v.version # tries[i]}
  IN {tries[i] : i \in {j \in free : \A k \in free : j <= k}}

Insert(s, version, content, second) ==
  versions' = versions \cup
    {[session |-> s, version |-> version, content |-> content, second |-> second]}

=============================================================================
