--------------------------- MODULE FileToolsProofs ---------------------------
(***************************************************************************)
(* Proofs about FileTools, for any sessions, contents, calls and bounds:   *)
(* what others add unseen stays, every history has its initial version,    *)
(* and both sides of a change are in it.                                   *)
(***************************************************************************)
EXTENDS FileTools, WellFoundedInduction, TLAPS

Locals == [phase : Phases, old : Contents, new : Contents, first : Nat, failed : BOOLEAN]

\* A call that is under way has been asked for something, and is in a phase of
\* its tool; a file that is to be created is not read.
Asked(c) ==
  /\ pc[c] \notin {"idle", "ok", "error"} =>
       call[c] \in Params /\ (Phase(c) = "write" <=> call[c].tool = "write")
  /\ pc[c] = "checked" => Phase(c) # "create"

Typed == TypeOK /\ \A c \in Calls : Asked(c)

\* The clock and the times of the file are numbers.
LEMMA Times ==
  ASSUME TypeOK
  PROVE  /\ now \in Nat \ {0} /\ mtime \in Nat /\ lastRead \in Nat /\ mtime <= now /\ lastRead <= now
         /\ now \in 0 .. now
<1>1. MaxNow \in Nat /\ now \in 1 .. MaxNow
  BY ParamsAssumption DEF TypeOK
<1>2. mtime \in 0 .. now /\ lastRead \in 0 .. now
  BY DEF TypeOK
<1>. QED BY <1>1, <1>2

\* What a call proposes is a content.
LEMMA ProposedTyped ==
  ASSUME Typed, NEW c \in Calls, pc[c] \notin {"idle", "ok", "error"}
  PROVE  /\ Proposed(c) \in Contents /\ OnDisk \in Contents /\ {} \in Contents
         /\ Edited(c) \in Contents \/ Phase(c) = "create"
<1>1. call[c] \in Params /\ (Phase(c) = "write" <=> call[c].tool = "write") /\ Contents = SUBSET Lines
  BY ParamsAssumption DEF Typed, Asked
<1>2. OnDisk \in Contents /\ {} \in Contents
  BY <1>1 DEF Typed, TypeOK, OnDisk, Exists
<1>3. CASE Phase(c) = "write"
  <2>1. call[c].text \in Contents
    BY <1>1, <1>3, ParamsAssumption
  <2>. QED BY <1>2, <1>3, <2>1 DEF Proposed, Edited
<1>4. CASE Phase(c) # "write"
  <2>1. call[c].new \in Lines \cup {Empty} /\ call[c].old \in Lines \cup {Empty}
    BY <1>1, <1>4, ParamsAssumption
  <2>2. {call[c].new} \ {Empty} \in Contents
    BY <1>1, <2>1
  <2>3. Proposed(c) \in Contents
    BY <1>4, <2>2 DEF Proposed
  <2>4. CASE Phase(c) = "delete"
    BY <1>1, <1>2, <2>3, <2>4 DEF Edited
  <2>5. CASE Phase(c) = "replace"
    BY <1>1, <1>2, <2>2, <2>3, <2>5 DEF Edited
  <2>6. Phase(c) \in Phases
    BY DEF Typed, TypeOK, Phase
  <2>. QED BY <1>2, <1>4, <2>3, <2>4, <2>5, <2>6 DEF Phases
<1>. QED BY <1>3, <1>4

\* A call goes on: its variables keep their types.
LEMMA GotoTyped ==
  ASSUME Typed, NEW c \in Calls \cup Views, NEW l \in Labels, Goto(c, l)
  PROVE  pc' \in [Calls \cup Views -> Labels] /\ pc'[c] = l
         /\ \A d \in (Calls \cup Views) \ {c} : pc'[d] = pc[d]
BY DEF Typed, TypeOK, Goto

\* Only c moves, within its phase.
LEMMA AskedMove ==
  ASSUME Typed, NEW c \in Calls, pc[c] \notin {"idle", "ok", "error"},
         \A d \in Calls \ {c} : pc'[d] = pc[d] /\ call'[d] = call[d] /\ local'[d] = local[d],
         call'[c] = call[c], local'[c].phase = local[c].phase,
         pc'[c] = "checked" => Phase(c) # "create"
  PROVE  \A d \in Calls : Asked(d)'
BY DEF Typed, Asked, Phase

\* A call that returns leaves typed variables.
LEMMA FinishTyped ==
  ASSUME Typed, NEW c \in Calls, NEW r \in {"ok", "error"}, Finish(c, r)
  PROVE  /\ pc' \in [Calls \cup Views -> Labels]
         /\ call' \in [Calls -> Params \cup {NoCall}] /\ local' \in [Calls -> Locals]
         /\ \A d \in Calls : Asked(d)'
<1>1. r \in Labels /\ Goto(c, r)
  BY DEF Labels, Finish
<1>2. Fresh \in Locals
  BY ParamsAssumption DEF Fresh, Locals, Phases
<1>3. local' \in [Calls -> Locals] /\ call' \in [Calls -> Params \cup {NoCall}]
  BY <1>2 DEF Finish, Typed, TypeOK, Locals
<1>4. pc' \in [Calls \cup Views -> Labels] /\ pc'[c] = r /\ \A d \in (Calls \cup Views) \ {c} : pc'[d] = pc[d]
  BY <1>1, GotoTyped
<1>5. \A d \in Calls \ {c} : call'[d] = call[d] /\ local'[d] = local[d]
  BY DEF Finish, Typed, TypeOK
<1>6. \A d \in Calls : Asked(d)'
  BY <1>4, <1>5 DEF Typed, Asked, Phase
<1>. QED BY <1>3, <1>4, <1>6

\* Also one that goes on to the next phase instead.
LEMMA RespondTyped ==
  ASSUME Typed, NEW c \in Calls, pc[c] \notin {"idle", "ok", "error"}, NEW r \in {"ok", "error"},
         Respond(c, r)
  PROVE  /\ pc' \in [Calls \cup Views -> Labels]
         /\ call' \in [Calls -> Params \cup {NoCall}] /\ local' \in [Calls -> Locals]
         /\ \A d \in Calls : Asked(d)'
<1>1. CASE Phase(c) \notin {"create", "delete"}
  BY <1>1, FinishTyped DEF Respond
<1>2. CASE Phase(c) \in {"create", "delete"}
  <2>1. PICK p \in {"delete", "replace"} : local' = [local EXCEPT ![c].phase = p]
    BY <1>2 DEF Respond
  <2>2. Goto(c, "start") /\ call' = call /\ "start" \in Labels
    BY <1>2 DEF Respond, Labels
  <2>3. local' \in [Calls -> Locals]
    BY <2>1 DEF Typed, TypeOK, Locals, Phases
  <2>4. pc' \in [Calls \cup Views -> Labels] /\ pc'[c] = "start"
        /\ \A d \in (Calls \cup Views) \ {c} : pc'[d] = pc[d]
    BY <2>2, GotoTyped
  <2>5. /\ \A d \in Calls \ {c} : local'[d] = local[d]
        /\ local'[c].phase = p
    BY <2>1 DEF Typed, TypeOK
  <2>6. \A d \in Calls : Asked(d)'
    BY <1>2, <2>2, <2>4, <2>5 DEF Typed, Asked, Phase
  <2>. QED BY <2>2, <2>3, <2>4, <2>6 DEF Typed, TypeOK
<1>. QED BY <1>1, <1>2

\* What createWithVersion may insert is a version that the session has not taken.
LEMMA InsertedTyped ==
  ASSUME NEW s, NEW first \in Nat, NEW second \in Nat, NEW v \in Inserted(s, first, second)
  PROVE  v \in Nat
<1>. DEFINE tries == [i \in 0 .. MaxRetries - 1 |-> IF i = 0 THEN first ELSE Attempt(first, i, second)]
            free  == {i \in DOMAIN tries : \A w \in OfSession(s) : w.version # tries[i]}
<1>1. PICK i \in free : v = tries[i]
  BY DEF Inserted
<1>2. i \in 0 .. MaxRetries - 1
  OBVIOUS
<1>3. CASE i = 0
  <2>1. tries[i] = first
    BY <1>2, <1>3
  <2>. QED BY <1>1, <2>1
<1>4. CASE i # 0
  <2>1. tries[i] = Attempt(first, i, second)
    BY <1>2, <1>4
  <2>2. i \in Nat \ {0} /\ Epoch \in Nat
    BY <1>2, <1>4, HistoryAssumption
  <2>3. Attempt(first, i, second) \in Nat
    <3>1. Epoch + second + i - 1 \in Nat /\ first + i \in Nat
      BY <2>2
    <3>. QED BY <3>1 DEF Attempt
  <2>. QED BY <1>1, <2>1, <2>3
<1>. QED BY <1>3, <1>4

\* What CreateVersion counts is a version.
LEMMA NextVersionsTyped ==
  ASSUME versions \subseteq Rows
  PROVE  NextVersions \subseteq Nat
<1>1. CASE versions = {}
  BY <1>1 DEF NextVersions, InitialVersion
<1>2. CASE versions # {}
  <2>1. \A w \in Newest(versions) : w.version + 1 \in Nat
    BY DEF Newest, Rows
  <2>. QED BY <1>2, <2>1 DEF NextVersions
<1>. QED BY <1>1, <1>2

\* A row that is inserted is a row.
LEMMA InsertTyped ==
  ASSUME versions \subseteq Rows, NEW s \in Sessions, NEW v \in Nat, NEW x \in Contents,
         NEW second \in Nat, Insert(s, v, x, second)
  PROVE  versions' \subseteq Rows
BY DEF Insert, Rows

\* A call under way has a session.
LEMMA SessionTyped ==
  ASSUME Typed, NEW c \in Calls, pc[c] \notin {"idle", "ok", "error"}
  PROVE  Session(c) \in Sessions /\ local[c] \in Locals
BY ParamsAssumption DEF Typed, TypeOK, Asked, Session, Locals

\* Types hold at first.
LEMMA InitTyped == Init => Typed
<1> SUFFICES ASSUME Init PROVE Typed
  OBVIOUS
<1>1. Fresh \in Locals
  BY ParamsAssumption DEF Fresh, Locals, Phases
<1>2. file = Absent \/ file \in Contents
  BY ParamsAssumption DEF Init
<1>3. now \in 1 .. MaxNow /\ mtime \in 0 .. now /\ lastRead \in 0 .. now
      /\ changes \in 0 .. MaxUser /\ failures \in 0 .. MaxFailures
  BY ParamsAssumption DEF Init
<1>4. pc \in [Calls \cup Views -> Labels] /\ call \in [Calls -> Params \cup {NoCall}]
  BY DEF Init, Labels
<1>5. local \in [Calls -> Locals]
  BY <1>1 DEF Init
<1>6. versions \subseteq Rows /\ unseen \subseteq UserLines /\ together \subseteq Sessions
  BY DEF Init
<1>7. \A c \in Calls : Asked(c)
  BY DEF Init, Asked
<1>. QED BY <1>2, <1>3, <1>4, <1>5, <1>6, <1>7 DEF Typed, TypeOK, Locals

\* What is proposed and read keeps the types.
LEMMA BeforeTyped ==
  ASSUME Typed, NEW c \in Calls,
         Check(c) \/ Read(c) \/ DeniedOrFails(c) \/ (\E p \in Params : Start(c, p))
  PROVE  Typed'
<1>1. {"checked", "asking", "start"} \subseteq Labels
  BY DEF Labels
<1>2. ASSUME NEW p \in Params, Start(c, p) PROVE Typed'
  <2>1. PICK ph \in Phases : local' = [local EXCEPT ![c].phase = ph]
                             /\ (ph = "write" <=> p.tool = "write")
    <3>1. CASE p.tool = "write"
      BY <1>2, <3>1 DEF Start, Phases
    <3>2. CASE p.tool = "edit" /\ p.old = Empty
      BY <1>2, <3>2 DEF Start, Phases
    <3>3. CASE p.tool = "edit" /\ p.old # Empty /\ p.new = Empty
      BY <1>2, <3>3 DEF Start, Phases
    <3>4. CASE p.tool = "edit" /\ p.old # Empty /\ p.new # Empty
      BY <1>2, <3>4 DEF Start, Phases
    <3>. QED BY <3>1, <3>2, <3>3, <3>4, ParamsAssumption
  <2>2. /\ pc' \in [Calls \cup Views -> Labels] /\ pc'[c] = "start"
        /\ \A d \in (Calls \cup Views) \ {c} : pc'[d] = pc[d]
    BY <1>1, <1>2, GotoTyped DEF Start
  <2>3. call' = [call EXCEPT ![c] = p]
    BY <1>2 DEF Start
  <2>4. local' \in [Calls -> Locals] /\ local'[c].phase = ph
        /\ \A d \in Calls \ {c} : local'[d] = local[d]
    BY <2>1 DEF Typed, TypeOK, Locals
  <2>5. call' \in [Calls -> Params \cup {NoCall}] /\ call'[c] = p /\ \A d \in Calls \ {c} : call'[d] = call[d]
    BY <2>3 DEF Typed, TypeOK
  <2>6. \A d \in Calls : Asked(d)'
    BY <2>1, <2>2, <2>4, <2>5 DEF Typed, Asked, Phase
  <2>. QED BY <1>2, <2>2, <2>4, <2>5, <2>6 DEF Start, Typed, TypeOK, Locals, disk, ghosts
<1>3. CASE Check(c)
  <2>0. pc[c] = "start" /\ UNCHANGED <<versions, disk, lastRead, now, ghosts>>
    BY <1>3 DEF Check
  <2>1. CASE ~MayChange(c)
    <3>1. Respond(c, "error")
      BY <1>3, <2>1 DEF Check
    <3>. QED BY <2>0, <3>1, RespondTyped DEF Typed, TypeOK, Locals, disk, ghosts
  <2>2. CASE MayChange(c) /\ Exists
    <3>1. Goto(c, "checked") /\ UNCHANGED <<call, local>>
      BY <1>3, <2>2 DEF Check
    <3>2. /\ pc' \in [Calls \cup Views -> Labels]
          /\ \A d \in Calls \ {c} : pc'[d] = pc[d]
      BY <1>1, <3>1, GotoTyped
    <3>3. \A d \in Calls : Asked(d)'
      <4>1. Phase(c) # "create"
        BY <2>2 DEF MayChange
      <4>. QED BY <2>0, <3>1, <3>2, <4>1, AskedMove
    <3>. QED BY <2>0, <3>1, <3>2, <3>3 DEF Typed, TypeOK, disk, ghosts
  <2>3. CASE MayChange(c) /\ ~Exists
    <3>1. Goto(c, "asking") /\ UNCHANGED call
          /\ local' = [local EXCEPT ![c].old = {}, ![c].new = Proposed(c)]
      BY <1>3, <2>3 DEF Check
    <3>2. /\ pc' \in [Calls \cup Views -> Labels] /\ pc'[c] = "asking"
          /\ \A d \in Calls \ {c} : pc'[d] = pc[d]
      BY <1>1, <3>1, GotoTyped
    <3>3. Proposed(c) \in Contents /\ {} \in Contents
      BY <2>0, ProposedTyped
    <3>4. local' \in [Calls -> Locals] /\ local'[c].phase = local[c].phase
          /\ \A d \in Calls \ {c} : local'[d] = local[d]
      BY <3>1, <3>3 DEF Typed, TypeOK, Locals
    <3>5. \A d \in Calls : Asked(d)'
      BY <2>0, <3>1, <3>2, <3>4, AskedMove
    <3>. QED BY <2>0, <3>1, <3>2, <3>4, <3>5 DEF Typed, TypeOK, Locals, disk, ghosts
  <2>. QED BY <2>1, <2>2, <2>3
<1>4. CASE Read(c)
  <2>0. pc[c] = "checked" /\ UNCHANGED <<versions, disk, lastRead, now, ghosts>>
    BY <1>4 DEF Read
  <2>1. CASE Finish(c, "error")
    BY <2>0, <2>1, FinishTyped DEF Typed, TypeOK, Locals, disk, ghosts
  <2>2. CASE Respond(c, "error")
    BY <2>0, <2>2, RespondTyped DEF Typed, TypeOK, Locals, disk, ghosts
  <2>3. CASE Goto(c, "asking") /\ UNCHANGED call
             /\ local' = [local EXCEPT ![c].old = OnDisk, ![c].new = Edited(c)]
    <3>1. /\ pc' \in [Calls \cup Views -> Labels] /\ pc'[c] = "asking"
          /\ \A d \in Calls \ {c} : pc'[d] = pc[d]
      BY <1>1, <2>3, GotoTyped
    <3>2. OnDisk \in Contents /\ Edited(c) \in Contents
      BY <2>0, ProposedTyped DEF Typed, Asked
    <3>3. local' \in [Calls -> Locals] /\ local'[c].phase = local[c].phase
          /\ \A d \in Calls \ {c} : local'[d] = local[d]
      BY <2>3, <3>2 DEF Typed, TypeOK, Locals
    <3>4. \A d \in Calls : Asked(d)'
      BY <2>0, <2>3, <3>1, <3>3, AskedMove
    <3>. QED BY <2>0, <2>3, <3>1, <3>3, <3>4 DEF Typed, TypeOK, Locals, disk, ghosts
  <2>. QED BY <1>4, <2>1, <2>2, <2>3 DEF Read
<1>5. CASE DeniedOrFails(c)
  BY <1>5, FinishTyped DEF DeniedOrFails, Typed, TypeOK, Locals, disk, ghosts
<1>. QED BY <1>2, <1>3, <1>4, <1>5

\* So does what comes after the permission.
LEMMA AfterTyped ==
  ASSUME Typed, NEW c \in Calls,
         \/ WriteFile(c) \/ Lookup(c) \/ Create(c) \/ ListVersions(c) \/ InsertVersion(c)
         \/ HistoryFails(c) \/ Record(c)
  PROVE  Typed'
<1>0. {"lookup", "create", "list old", "insert old", "list new", "insert new", "record"} \subseteq Labels
  BY DEF Labels
<1>1. ASSUME NEW l \in Labels, Goto(c, l), l # "checked", pc[c] \notin {"idle", "ok", "error"},
             local' \in [Calls -> Locals], local'[c].phase = local[c].phase,
             \A d \in Calls \ {c} : local'[d] = local[d], call' = call
      PROVE  pc' \in [Calls \cup Views -> Labels] /\ (\A d \in Calls : Asked(d)')
  <2>1. /\ pc' \in [Calls \cup Views -> Labels] /\ pc'[c] = l
        /\ \A d \in Calls \ {c} : pc'[d] = pc[d]
    BY <1>1, GotoTyped
  <2>. QED BY <1>1, <2>1, AskedMove
<1>2. local \in [Calls -> Locals] /\ call \in [Calls -> Params \cup {NoCall}]
  BY DEF Typed, TypeOK, Locals
<1>3. CASE WriteFile(c)
  <2>1. pc[c] = "asking" /\ UNCHANGED <<versions, changes, lastRead, now, tool, failures, unseen>>
        /\ file' = local[c].new /\ mtime' = now
    BY <1>3 DEF WriteFile
  <2>2. PICK l \in {"create", "lookup"} : Goto(c, l)
    BY <1>3 DEF WriteFile
  <2>3. pc' \in [Calls \cup Views -> Labels] /\ \A d \in Calls : Asked(d)'
    BY <1>0, <1>1, <1>2, <2>1, <2>2 DEF tool
  <2>4. file' \in Contents /\ mtime' \in 0 .. now
    <3>1. now \in 0 .. now
      BY Times DEF Typed
    <3>. QED BY <1>2, <2>1, <3>1 DEF Locals
  <2>5. together' \subseteq Sessions
    <3>1. Session(c) \in Sessions
      BY <2>1, SessionTyped
    <3>. QED BY <1>3, <3>1 DEF WriteFile, Typed, TypeOK
  <2>. QED BY <2>1, <2>3, <2>4, <2>5 DEF Typed, TypeOK, tool
<1>4. CASE Lookup(c)
  <2>1. pc[c] = "lookup" /\ UNCHANGED <<versions, disk, lastRead, now, tool, ghosts>>
    BY <1>4 DEF Lookup
  <2>2. PICK l \in {"create", "list old", "list new"} : Goto(c, l)
    BY <1>4 DEF Lookup
  <2>3. pc' \in [Calls \cup Views -> Labels] /\ \A d \in Calls : Asked(d)'
    BY <1>0, <1>1, <1>2, <2>1, <2>2 DEF tool
  <2>. QED BY <2>1, <2>3 DEF Typed, TypeOK, tool, disk, ghosts
<1>5. CASE Create(c)
  <2>1. pc[c] = "create" /\ UNCHANGED <<disk, lastRead, now, ghosts>>
    BY <1>5 DEF Create
  <2>2. CASE Finish(c, "error") /\ UNCHANGED versions
    BY <2>1, <2>2, FinishTyped DEF Typed, TypeOK, Locals, disk, ghosts
  <2>3. CASE Inserted(Session(c), InitialVersion, now) # {}
    <3>1. /\ \E v \in Inserted(Session(c), InitialVersion, now) :
               Insert(Session(c), v, local[c].old, now)
          /\ UNCHANGED tool
      BY <1>5, <2>3 DEF Create
    <3>2. PICK l \in {"list old", "list new"} : Goto(c, l)
      BY <1>5, <2>3 DEF Create
    <3>3. pc' \in [Calls \cup Views -> Labels] /\ \A d \in Calls : Asked(d)'
      BY <1>0, <1>1, <1>2, <2>1, <3>1, <3>2 DEF tool
    <3>4. versions' \subseteq Rows
      <4>1. Session(c) \in Sessions /\ local[c].old \in Contents /\ now \in Nat /\ versions \subseteq Rows
        BY <2>1, SessionTyped, Times DEF Locals, Typed, TypeOK
      <4>2. PICK v \in Inserted(Session(c), InitialVersion, now) : Insert(Session(c), v, local[c].old, now)
        BY <3>1
      <4>3. v \in Nat
        BY <4>1, <4>2, InsertedTyped DEF InitialVersion
      <4>. QED BY <4>1, <4>2, <4>3, InsertTyped
    <3>. QED BY <2>1, <3>1, <3>3, <3>4 DEF Typed, TypeOK, tool, disk, ghosts
  <2>. QED BY <1>5, <2>2, <2>3 DEF Create
<1>6. CASE ListVersions(c)
  <2>1. pc[c] \in {"list old", "list new"} /\ UNCHANGED <<versions, disk, lastRead, now, call, ghosts>>
    BY <1>6 DEF ListVersions
  <2>2. PICK l \in {"insert old", "insert new"} : Goto(c, l)
    BY <1>6 DEF ListVersions
  <2>3. PICK v \in NextVersions : local' = [local EXCEPT ![c].first = v]
    BY <1>6 DEF ListVersions
  <2>4. NextVersions \subseteq Nat
    BY NextVersionsTyped DEF Typed, TypeOK
  <2>5. local' \in [Calls -> Locals] /\ local'[c].phase = local[c].phase
        /\ \A d \in Calls \ {c} : local'[d] = local[d]
    BY <1>2, <2>3, <2>4 DEF Locals
  <2>6. pc' \in [Calls \cup Views -> Labels] /\ \A d \in Calls : Asked(d)'
    BY <1>0, <1>1, <2>1, <2>2, <2>5
  <2>. QED BY <2>1, <2>5, <2>6 DEF Typed, TypeOK, Locals, disk, ghosts
<1>7. CASE InsertVersion(c)
  <2>1. pc[c] \in {"insert old", "insert new"} /\ UNCHANGED <<disk, lastRead, now, call, ghosts>>
        /\ local' = [local EXCEPT ![c].first = 0]
    BY <1>7 DEF InsertVersion
  <2>2. PICK l \in {"list new", "record"} : Goto(c, l)
    BY <1>7 DEF InsertVersion
  <2>3. local' \in [Calls -> Locals] /\ local'[c].phase = local[c].phase
        /\ \A d \in Calls \ {c} : local'[d] = local[d]
    BY <1>2, <2>1 DEF Locals
  <2>4. pc' \in [Calls \cup Views -> Labels] /\ \A d \in Calls : Asked(d)'
    BY <1>0, <1>1, <2>1, <2>2, <2>3
  <2>5. versions' \subseteq Rows
    <3>1. /\ Session(c) \in Sessions /\ local[c] \in Locals /\ now \in Nat /\ versions \subseteq Rows
      BY <2>1, SessionTyped, Times DEF Typed, TypeOK
    <3>2. Stored(c) \in Contents /\ local[c].first \in Nat
      <4>1. {} \in Contents
        BY <2>1, ProposedTyped
      <4>2. local[c].old \in Contents /\ local[c].new \in Contents /\ local[c].first \in Nat
        BY <3>1 DEF Locals
      <4>. QED BY <2>1, <4>1, <4>2 DEF Stored
    <3>3. CASE UNCHANGED versions
      BY <3>1, <3>3
    <3>4. ASSUME NEW v \in Inserted(Session(c), local[c].first, now), Insert(Session(c), v, Stored(c), now)
          PROVE  versions' \subseteq Rows
      <4>1. v \in Nat
        BY <3>1, <3>2, InsertedTyped
      <4>. QED BY <3>1, <3>2, <3>4, <4>1, InsertTyped
    <3>. QED BY <1>7, <3>3, <3>4 DEF InsertVersion
  <2>. QED BY <2>1, <2>3, <2>4, <2>5 DEF Typed, TypeOK, Locals, disk, ghosts
<1>8. CASE HistoryFails(c)
  <2>1. AtHistory(c) /\ failures' = failures + 1 /\ failures < MaxFailures
        /\ UNCHANGED <<versions, disk, lastRead, now, unseen, together>>
    BY <1>8 DEF HistoryFails
  <2>2. failures' \in 0 .. MaxFailures
    BY <2>1, ParamsAssumption DEF Typed, TypeOK
  <2>3. pc[c] \notin {"idle", "ok", "error"}
    BY <2>1 DEF AtHistory
  <2>4. CASE Finish(c, "error")
    BY <2>1, <2>2, <2>4, FinishTyped DEF Typed, TypeOK, Locals, disk
  <2>5. CASE pc[c] # "create"
    <3>1. Goto(c, "create") \/ Goto(c, "list new") \/ Goto(c, "record")
      <4>1. CASE pc[c] = "lookup"
        BY <1>8, <2>5, <4>1 DEF HistoryFails
      <4>2. CASE pc[c] \in {"list old", "insert old"}
        BY <1>8, <2>5, <4>2 DEF HistoryFails
      <4>3. CASE pc[c] \in {"list new", "insert new"}
        BY <1>8, <2>5, <4>3 DEF HistoryFails
      <4>. QED BY <2>1, <2>5, <4>1, <4>2, <4>3 DEF AtHistory
    <3>2. local' = [local EXCEPT ![c].failed = TRUE] /\ UNCHANGED call
      BY <1>8, <2>5 DEF HistoryFails
    <3>3. local' \in [Calls -> Locals] /\ local'[c].phase = local[c].phase
          /\ \A d \in Calls \ {c} : local'[d] = local[d]
      BY <1>2, <3>2 DEF Locals
    <3>4. pc' \in [Calls \cup Views -> Labels] /\ \A d \in Calls : Asked(d)'
      BY <1>0, <1>1, <2>3, <3>1, <3>2, <3>3
    <3>. QED BY <2>1, <2>2, <3>2, <3>3, <3>4 DEF Typed, TypeOK, Locals, disk
  <2>. QED BY <1>8, <2>4, <2>5 DEF HistoryFails
<1>9. CASE Record(c)
  <2>1. pc[c] = "record" /\ lastRead' = now /\ Respond(c, "ok")
        /\ UNCHANGED <<versions, disk, now, ghosts>>
    BY <1>9 DEF Record
  <2>2. lastRead' \in 0 .. now'
    <3>1. now \in 0 .. now
      BY Times DEF Typed
    <3>. QED BY <2>1, <3>1
  <2>. QED BY <2>1, <2>2, RespondTyped DEF Typed, TypeOK, Locals, disk, ghosts
<1>. QED BY <1>3, <1>4, <1>5, <1>6, <1>7, <1>8, <1>9

\* So do views, others and the clock.
LEMMA OthersTyped ==
  ASSUME Typed,
         \/ \E v \in Views : ViewRead(v) \/ ViewRecord(v)
         \/ \E l \in UserLines : OthersAdd(l)
         \/ OthersRemove \/ Tick
  PROVE  Typed'
<1>0. {"read", "done"} \subseteq Labels /\ now \in 0 .. now
  BY Times DEF Typed, Labels
<1>1. ASSUME NEW v \in Views, ViewRead(v) PROVE Typed'
  <2>1. v \notin Calls /\ Goto(v, "read") /\ unseen' = {}
        /\ UNCHANGED <<versions, disk, lastRead, now, tool, failures, together>>
    BY <1>1, ParamsAssumption DEF ViewRead
  <2>2. pc' \in [Calls \cup Views -> Labels] /\ \A c \in Calls : pc'[c] = pc[c]
    BY <1>0, <2>1, GotoTyped
  <2>3. \A c \in Calls : Asked(c)'
    BY <2>1, <2>2 DEF Typed, Asked, Phase, tool
  <2>. QED BY <2>1, <2>2, <2>3 DEF Typed, TypeOK, disk, tool
<1>2. ASSUME NEW v \in Views, ViewRecord(v) PROVE Typed'
  <2>1. v \notin Calls /\ Goto(v, "done") /\ lastRead' = now
        /\ UNCHANGED <<versions, disk, now, tool, ghosts>>
    BY <1>2, ParamsAssumption DEF ViewRecord
  <2>2. pc' \in [Calls \cup Views -> Labels] /\ \A c \in Calls : pc'[c] = pc[c]
    BY <1>0, <2>1, GotoTyped
  <2>3. \A c \in Calls : Asked(c)'
    BY <2>1, <2>2 DEF Typed, Asked, Phase, tool
  <2>. QED BY <1>0, <2>1, <2>2, <2>3 DEF Typed, TypeOK, disk, tool, ghosts
<1>3. ASSUME Changed PROVE changes' \in 0 .. MaxUser /\ mtime' = now
  BY <1>3, ParamsAssumption DEF Changed, Typed, TypeOK
<1>4. ASSUME NEW l \in UserLines, OthersAdd(l) PROVE Typed'
  <2>1. Changed /\ file' = OnDisk \cup {l} /\ UNCHANGED <<versions, lastRead, now, pc, tool, failures, together>>
        /\ unseen' \subseteq unseen \cup {l}
    BY <1>4 DEF OthersAdd
  <2>2. file' \in Contents
    BY <2>1, ParamsAssumption DEF OnDisk, Exists, Typed, TypeOK
  <2>3. \A c \in Calls : Asked(c)'
    BY <2>1 DEF Typed, Asked, Phase, tool
  <2>. QED BY <1>0, <1>3, <2>1, <2>2, <2>3 DEF Typed, TypeOK, tool
<1>5. CASE OthersRemove
  <2>1. Changed /\ file' = Absent /\ unseen' = {} /\ UNCHANGED <<versions, lastRead, now, pc, tool, failures, together>>
    BY <1>5 DEF OthersRemove
  <2>2. \A c \in Calls : Asked(c)'
    BY <2>1 DEF Typed, Asked, Phase, tool
  <2>. QED BY <1>0, <1>3, <2>1, <2>2 DEF Typed, TypeOK, tool
<1>6. CASE Tick
  <2>1. now' = now + 1 /\ now < MaxNow /\ UNCHANGED <<versions, disk, lastRead, pc, tool, ghosts>>
    BY <1>6 DEF Tick
  <2>2. now' \in 1 .. MaxNow /\ mtime' \in 0 .. now' /\ lastRead' \in 0 .. now'
    <3>1. MaxNow \in Nat /\ now \in Nat /\ mtime \in Nat /\ lastRead \in Nat /\ mtime <= now /\ lastRead <= now
      BY Times, ParamsAssumption DEF Typed
    <3>2. now + 1 \in 1 .. MaxNow /\ mtime \in 0 .. now + 1 /\ lastRead \in 0 .. now + 1
      BY <2>1, <3>1
    <3>. QED BY <2>1, <3>2 DEF disk
  <2>3. \A c \in Calls : Asked(c)'
    BY <2>1 DEF Typed, Asked, Phase, tool
  <2>. QED BY <2>1, <2>2, <2>3 DEF Typed, TypeOK, disk, tool, ghosts
<1>. QED BY <1>1, <1>2, <1>4, <1>5, <1>6

\* Every step keeps the types.
LEMMA NextTyped == Typed /\ [Next]_vars => Typed'
<1> SUFFICES ASSUME Typed, [Next]_vars PROVE Typed'
  OBVIOUS
<1>1. CASE UNCHANGED vars
  <2>1. \A c \in Calls : Asked(c)'
    BY <1>1 DEF Typed, Asked, Phase, vars, tool
  <2>. QED BY <1>1, <2>1 DEF Typed, TypeOK, vars, disk, tool, ghosts
<1>2. ASSUME NEW c \in Calls, Step(c) \/ \E p \in Params : Start(c, p) PROVE Typed'
  BY <1>2, BeforeTyped, AfterTyped DEF Step
<1>3. CASE \/ \E v \in Views : ViewRead(v) \/ ViewRecord(v)
           \/ \E l \in UserLines : OthersAdd(l)
           \/ OthersRemove \/ Tick
  BY <1>3, OthersTyped
<1>. QED BY <1>1, <1>2, <1>3 DEF Next

\* The variables have their types.
THEOREM TypeCorrect == Spec => []TypeOK
<1>1. Typed => TypeOK
  BY DEF Typed
<1>. QED BY InitTyped, NextTyped, <1>1, PTL DEF Spec

---------------------------------------------------------------------------
(* What others add unseen *)

\* While something is unseen no tool is past its check, and none gets past it:
\* the file was modified after its last read.
UnseenInv ==
  unseen # {} =>
    /\ Exists /\ unseen \subseteq file
    /\ lastRead < mtime
    /\ \A c \in Calls \cup Views : pc[c] \in {"idle", "start", "ok", "error", "done"}

\* A step of a call while something is unseen: it stays before the permission.
LEMMA CallUnseen ==
  ASSUME Typed, UnseenInv, NEW c \in Calls, Step(c) \/ \E p \in Params : Start(c, p)
  PROVE  UnseenInv'
<1>0. UNCHANGED unseen
  BY DEF Step, Check, Read, DeniedOrFails, WriteFile, Lookup, Create, ListVersions, InsertVersion,
         HistoryFails, Record, Start, ghosts
<1>. SUFFICES ASSUME unseen # {} PROVE UnseenInv'
  BY <1>0 DEF UnseenInv
<1>1. Exists /\ unseen \subseteq file /\ lastRead < mtime
      /\ pc[c] \in {"idle", "start", "ok", "error", "done"}
  BY DEF UnseenInv
<1>2. CASE \E p \in Params : Start(c, p)
  BY <1>0, <1>1, <1>2 DEF Start, UnseenInv, Goto, Exists, disk, Typed, TypeOK
<1>3. CASE Step(c)
  <2>1. Check(c)
    BY <1>1, <1>3 DEF Step, Check, Read, DeniedOrFails, WriteFile, Lookup, Create, ListVersions,
                      InsertVersion, HistoryFails, Record, AtHistory
  <2>2. ~MayChange(c)
    <3>1. ~(mtime <= lastRead)
      BY <1>1, Times DEF Typed
    <3>2. Phase(c) \in Phases
      BY DEF Typed, TypeOK, Phase
    <3>. QED BY <1>1, <3>1, <3>2 DEF MayChange, Phases
  <2>3. Respond(c, "error") /\ UNCHANGED <<disk, lastRead>>
    BY <2>1, <2>2 DEF Check
  <2>4. \A d \in Calls \cup Views : pc'[d] \in {"idle", "start", "ok", "error", "done"}
    BY <2>3 DEF Respond, Finish, Goto, UnseenInv, Typed, TypeOK
  <2>. QED BY <1>0, <1>1, <2>3, <2>4 DEF UnseenInv, Exists, disk
<1>. QED BY <1>2, <1>3

\* The invariant is kept.
LEMMA NextUnseen == Typed /\ UnseenInv /\ [Next]_vars => UnseenInv'
<1> SUFFICES ASSUME Typed, UnseenInv, [Next]_vars PROVE UnseenInv'
  OBVIOUS
<1>1. CASE UNCHANGED vars
  BY <1>1 DEF UnseenInv, Exists, vars, disk, ghosts
<1>2. ASSUME NEW c \in Calls, Step(c) \/ \E p \in Params : Start(c, p) PROVE UnseenInv'
  BY <1>2, CallUnseen
<1>3. ASSUME NEW v \in Views, ViewRead(v) PROVE UnseenInv'
  BY <1>3 DEF ViewRead, UnseenInv
<1>4. ASSUME NEW v \in Views, ViewRecord(v) PROVE UnseenInv'
  BY <1>4 DEF ViewRecord, UnseenInv, ghosts
<1>5. ASSUME NEW l \in UserLines, OthersAdd(l) PROVE UnseenInv'
  <2>1. file' = OnDisk \cup {l} /\ file' # Absent
    BY <1>5, ParamsAssumption DEF OthersAdd, OnDisk, Exists, Typed, TypeOK
  <2>2. mtime' = now /\ UNCHANGED <<lastRead, pc>>
    BY <1>5 DEF OthersAdd, Changed
  <2>3. CASE Quiet
    <3>1. unseen' = unseen \cup {l} /\ lastRead < now
      BY <1>5, <2>3 DEF OthersAdd, Quiet
    <3>2. unseen \subseteq OnDisk
      BY DEF UnseenInv, OnDisk
    <3>. QED BY <2>1, <2>2, <2>3, <3>1, <3>2 DEF UnseenInv, Quiet, Exists
  <2>4. CASE ~Quiet
    <3>1. unseen' = unseen
      BY <1>5, <2>4 DEF OthersAdd
    <3>2. ASSUME unseen # {} PROVE lastRead < now /\ unseen \subseteq file'
      <4>1. lastRead < mtime /\ mtime <= now
        BY <3>2, Times DEF UnseenInv, Typed
      <4>2. lastRead < now
        BY <4>1, Times DEF Typed
      <4>. QED BY <2>1, <3>2, <4>2 DEF UnseenInv, OnDisk
    <3>. QED BY <2>1, <2>2, <3>1, <3>2 DEF UnseenInv, Exists
  <2>. QED BY <2>3, <2>4
<1>6. CASE OthersRemove
  BY <1>6 DEF OthersRemove, UnseenInv
<1>7. CASE Tick
  BY <1>7 DEF Tick, UnseenInv, Exists, disk, ghosts
<1>. QED BY <1>1, <1>2, <1>3, <1>4, <1>5, <1>6, <1>7 DEF Next

\* The check of the modification time (view.go, write.go, edit.go, file.go): a
\* line that somebody else added while no tool was at the file stays there until
\* a view reads the file, whatever calls of however many sessions do.
THEOREM UnseenStays == Spec => []UnseenChangesKept
<1>1. Init => UnseenInv
  BY DEF Init, UnseenInv
<1>2. UnseenInv => UnseenChangesKept
  BY DEF UnseenInv, UnseenChangesKept, OnDisk
<1>. QED BY <1>1, <1>2, InitTyped, NextTyped, NextUnseen, PTL DEF Spec

---------------------------------------------------------------------------
(* The initial version *)

HasInitial(s) == \E w \in versions : w.session = s /\ w.version = InitialVersion

\* A call only adds versions to a history that has its initial one.
CallInitial(c) ==
  pc[c] \in {"list old", "insert old", "list new", "insert new", "record"} => HasInitial(Session(c))

InitialInv == (\A v \in versions : HasInitial(v.session)) /\ \A c \in Calls : CallInitial(c)

\* createWithVersion tries the initial version first, so it only inserts another
\* if that is taken.
LEMMA InitialFirst ==
  ASSUME NEW s, NEW second, NEW v \in Inserted(s, InitialVersion, second)
  PROVE  v = InitialVersion \/ HasInitial(s)
<1>. DEFINE tries == [i \in 0 .. MaxRetries - 1 |->
                        IF i = 0 THEN InitialVersion ELSE Attempt(InitialVersion, i, second)]
            free  == {i \in DOMAIN tries : \A w \in OfSession(s) : w.version # tries[i]}
<1>1. PICK j \in free : v = tries[j] /\ \A k \in free : j <= k
  BY DEF Inserted
<1>2. 0 \in 0 .. MaxRetries - 1
  BY HistoryAssumption
<1>3. tries[0] = InitialVersion
  BY <1>2
<1>4. CASE 0 \in free
  <2>1. j \in 0 .. MaxRetries - 1 /\ j <= 0
    BY <1>1, <1>4
  <2>2. j = 0
    BY <2>1
  <2>. QED BY <1>1, <1>3, <2>2
<1>5. CASE 0 \notin free
  <2>1. \E w \in OfSession(s) : w.version = InitialVersion
    BY <1>2, <1>3, <1>5
  <2>. QED BY <2>1 DEF HasInitial, OfSession
<1>. QED BY <1>4, <1>5

\* Rows are only added.
LEMMA InitialStays ==
  ASSUME NEW s, HasInitial(s), versions \subseteq versions'
  PROVE  HasInitial(s)'
BY DEF HasInitial

\* A row that is inserted is the initial one, or finds it there.
LEMMA InsertInitial ==
  ASSUME InitialInv, NEW s, NEW v, NEW x, NEW second, Insert(s, v, x, second),
         v = InitialVersion \/ HasInitial(s)
  PROVE  /\ versions \subseteq versions' /\ HasInitial(s)'
         /\ \A w \in versions' : HasInitial(w.session)'
<1>1. versions' = versions \cup {[session |-> s, version |-> v, content |-> x, second |-> second]}
  BY DEF Insert
<1>2. HasInitial(s)'
  <2>1. CASE v = InitialVersion
    <3>. DEFINE row == [session |-> s, version |-> v, content |-> x, second |-> second]
    <3>1. row \in versions' /\ row.session = s /\ row.version = InitialVersion
      BY <1>1, <2>1
    <3>. QED BY <3>1 DEF HasInitial
  <2>2. CASE HasInitial(s)
    BY <1>1, <2>2, InitialStays
  <2>. QED BY <2>1, <2>2
<1>. QED BY <1>1, <1>2, InitialStays DEF InitialInv

\* A call that moves leaves the others' histories alone.
LEMMA MoveInitial ==
  ASSUME Typed, InitialInv, NEW c \in Calls, versions \subseteq versions',
         \A w \in versions' : HasInitial(w.session)',
         \A d \in Calls \ {c} : pc'[d] = pc[d] /\ call'[d] = call[d],
         CallInitial(c)'
  PROVE  InitialInv'
<1>1. ASSUME NEW d \in Calls \ {c} PROVE CallInitial(d)'
  BY <1>1, InitialStays DEF InitialInv, CallInitial, Session
<1>. QED BY <1>1 DEF InitialInv

\* A call that returns, or goes on to its next phase, is at no history.
LEMMA RespondMoves ==
  ASSUME Typed, NEW c \in Calls, NEW r \in {"ok", "error"}, Finish(c, r) \/ Respond(c, r)
  PROVE  /\ \A d \in Calls \ {c} : pc'[d] = pc[d] /\ call'[d] = call[d]
         /\ CallInitial(c)'
<1>1. CASE Finish(c, r)
  BY <1>1 DEF Finish, Goto, CallInitial, Typed, TypeOK
<1>2. CASE Respond(c, r) /\ Phase(c) \in {"create", "delete"}
  BY <1>2 DEF Respond, Goto, CallInitial, Typed, TypeOK
<1>. QED BY <1>1, <1>2 DEF Respond

\* Every step of a call keeps the invariant.
LEMMA StepInitial ==
  ASSUME Typed, InitialInv, NEW c \in Calls, Step(c) \/ \E p \in Params : Start(c, p)
  PROVE  InitialInv'
<1>1. ASSUME NEW l \in Labels, Goto(c, l), UNCHANGED call, versions \subseteq versions',
             l \in {"list old", "insert old", "list new", "insert new", "record"} => HasInitial(Session(c))',
             \A w \in versions' : HasInitial(w.session)'
      PROVE  InitialInv'
  <2>1. pc'[c] = l /\ \A d \in Calls \ {c} : pc'[d] = pc[d]
    BY <1>1, GotoTyped
  <2>2. CallInitial(c)'
    BY <1>1, <2>1 DEF CallInitial
  <2>. QED BY <1>1, <2>1, <2>2, MoveInitial
<1>2. ASSUME UNCHANGED versions
      PROVE  /\ versions \subseteq versions' /\ \A w \in versions' : HasInitial(w.session)'
             /\ \A s : HasInitial(s) => HasInitial(s)'
  BY <1>2 DEF InitialInv, HasInitial
<1>3. ASSUME NEW r \in {"ok", "error"}, Finish(c, r) \/ Respond(c, r), UNCHANGED versions
      PROVE  InitialInv'
  BY <1>2, <1>3, RespondMoves, MoveInitial
<1>4. {"start", "checked", "asking", "lookup", "create", "list old", "insert old", "list new",
       "insert new", "record"} \subseteq Labels
  BY DEF Labels
<1>5. ASSUME NEW p \in Params, Start(c, p) PROVE InitialInv'
  <2>1. UNCHANGED versions /\ Goto(c, "start") /\ call' = [call EXCEPT ![c] = p]
    BY <1>5 DEF Start
  <2>2. /\ \A d \in Calls \ {c} : pc'[d] = pc[d] /\ call'[d] = call[d]
        /\ CallInitial(c)'
    BY <1>4, <2>1, GotoTyped DEF CallInitial, Typed, TypeOK
  <2>. QED BY <1>2, <2>1, <2>2, MoveInitial
<1>6. CASE Check(c)
  <2>1. UNCHANGED versions
    BY <1>6 DEF Check
  <2>2. CASE Goto(c, "checked") /\ UNCHANGED call
    BY <1>1, <1>2, <1>4, <2>1, <2>2
  <2>3. CASE Goto(c, "asking") /\ UNCHANGED call
    BY <1>1, <1>2, <1>4, <2>1, <2>3
  <2>. QED BY <1>3, <1>6, <2>1, <2>2, <2>3 DEF Check
<1>7. CASE Read(c)
  <2>1. UNCHANGED versions
    BY <1>7 DEF Read
  <2>2. CASE Goto(c, "asking") /\ UNCHANGED call
    BY <1>1, <1>2, <1>4, <2>1, <2>2
  <2>3. Finish(c, "error") \/ Respond(c, "error") \/ (Goto(c, "asking") /\ UNCHANGED call)
    BY <1>7 DEF Read
  <2>. QED BY <1>3, <2>1, <2>2, <2>3
<1>8. CASE DeniedOrFails(c)
  BY <1>3, <1>8 DEF DeniedOrFails
<1>9. CASE WriteFile(c)
  <2>1. UNCHANGED <<versions, call>> /\ (Goto(c, "create") \/ Goto(c, "lookup"))
    BY <1>9 DEF WriteFile, Goto, tool
  <2>. QED BY <1>1, <1>2, <1>4, <2>1
<1>10. CASE Lookup(c)
  <2>1. UNCHANGED <<versions, call>>
    BY <1>10 DEF Lookup, tool
  <2>2. CASE GetByPathAndSession(Session(c)) = {}
    <3>1. Goto(c, "create")
      BY <1>10, <2>2 DEF Lookup
    <3>. QED BY <1>1, <1>2, <1>4, <2>1, <3>1
  <2>3. CASE GetByPathAndSession(Session(c)) # {}
    <3>1. PICK v \in GetByPathAndSession(Session(c)) : Goto(c, "list old") \/ Goto(c, "list new")
      BY <1>10, <2>3 DEF Lookup, Goto
    <3>2. v \in versions /\ v.session = Session(c)
      BY DEF GetByPathAndSession, Newest, OfSession
    <3>3. HasInitial(Session(c))
      BY <3>2 DEF InitialInv
    <3>4. HasInitial(Session(c))'
      BY <2>1, <3>3 DEF HasInitial, Session
    <3>. QED BY <1>1, <1>2, <1>4, <2>1, <3>1, <3>4
  <2>. QED BY <2>2, <2>3
<1>11. CASE Create(c)
  <2>1. CASE Finish(c, "error") /\ UNCHANGED versions
    BY <1>3, <2>1
  <2>2. CASE Inserted(Session(c), InitialVersion, now) # {}
    <3>1. PICK v \in Inserted(Session(c), InitialVersion, now) : Insert(Session(c), v, local[c].old, now)
      BY <1>11, <2>2 DEF Create
    <3>2. UNCHANGED call /\ (Goto(c, "list old") \/ Goto(c, "list new"))
      BY <1>11, <2>2 DEF Create, Goto, tool
    <3>3. v = InitialVersion \/ HasInitial(Session(c))
      BY InitialFirst
    <3>4. /\ versions \subseteq versions' /\ \A w \in versions' : HasInitial(w.session)'
          /\ HasInitial(Session(c))'
      BY <3>1, <3>2, <3>3, InsertInitial DEF Session, HasInitial
    <3>. QED BY <1>1, <1>4, <3>2, <3>4
  <2>. QED BY <1>11, <2>1, <2>2 DEF Create
<1>12. CASE ListVersions(c)
  <2>1. UNCHANGED <<versions, call>> /\ (Goto(c, "insert old") \/ Goto(c, "insert new"))
    BY <1>12 DEF ListVersions, Goto
  <2>2. HasInitial(Session(c))'
    BY <1>12, <2>1 DEF ListVersions, InitialInv, CallInitial, HasInitial, Session
  <2>. QED BY <1>1, <1>2, <1>4, <2>1, <2>2
<1>13. CASE InsertVersion(c)
  <2>1. HasInitial(Session(c)) /\ UNCHANGED call
    BY <1>13 DEF InsertVersion, InitialInv, CallInitial
  <2>2. Goto(c, "list new") \/ Goto(c, "record")
    BY <1>13 DEF InsertVersion, Goto
  <2>3. CASE UNCHANGED versions
    <3>1. HasInitial(Session(c))'
      BY <2>1, <2>3 DEF HasInitial, Session
    <3>. QED BY <1>1, <1>2, <1>4, <2>1, <2>2, <2>3, <3>1
  <2>4. ASSUME NEW v, Insert(Session(c), v, Stored(c), now) PROVE InitialInv'
    <3>1. /\ versions \subseteq versions' /\ \A w \in versions' : HasInitial(w.session)'
      BY <2>1, <2>4, InsertInitial
    <3>2. HasInitial(Session(c))'
      BY <2>1, <3>1 DEF HasInitial, Session
    <3>. QED BY <1>1, <1>4, <2>1, <2>2, <3>1, <3>2
  <2>. QED BY <1>13, <2>3, <2>4 DEF InsertVersion
<1>14. CASE HistoryFails(c)
  <2>1. UNCHANGED versions /\ AtHistory(c)
    BY <1>14 DEF HistoryFails
  <2>2. CASE pc[c] = "create"
    BY <1>3, <1>14, <2>1, <2>2 DEF HistoryFails
  <2>3. CASE pc[c] = "lookup"
    <3>1. Goto(c, "create") /\ UNCHANGED call
      BY <1>14, <2>3 DEF HistoryFails
    <3>. QED BY <1>1, <1>2, <1>4, <2>1, <3>1
  <2>4. CASE pc[c] \in {"list old", "insert old"}
    <3>1. Goto(c, "list new") /\ UNCHANGED call
      BY <1>14, <2>4 DEF HistoryFails
    <3>2. HasInitial(Session(c))'
      BY <2>1, <2>4, <3>1 DEF InitialInv, CallInitial, HasInitial, Session
    <3>. QED BY <1>1, <1>2, <1>4, <2>1, <3>1, <3>2
  <2>5. CASE pc[c] \in {"list new", "insert new"}
    <3>1. Goto(c, "record") /\ UNCHANGED call
      BY <1>14, <2>5 DEF HistoryFails
    <3>2. HasInitial(Session(c))'
      BY <2>1, <2>5, <3>1 DEF InitialInv, CallInitial, HasInitial, Session
    <3>. QED BY <1>1, <1>2, <1>4, <2>1, <3>1, <3>2
  <2>. QED BY <2>1, <2>2, <2>3, <2>4, <2>5 DEF AtHistory
<1>15. CASE Record(c)
  BY <1>3, <1>15 DEF Record
<1>. QED BY <1>5, <1>6, <1>7, <1>8, <1>9, <1>10, <1>11, <1>12, <1>13, <1>14, <1>15 DEF Step

\* The invariant is kept.
LEMMA NextInitial == Typed /\ InitialInv /\ [Next]_vars => InitialInv'
<1> SUFFICES ASSUME Typed, InitialInv, [Next]_vars PROVE InitialInv'
  OBVIOUS
<1>1. ASSUME UNCHANGED <<versions, call>>, \A c \in Calls : pc'[c] = pc[c] PROVE InitialInv'
  BY <1>1 DEF InitialInv, CallInitial, HasInitial, Session
<1>2. CASE UNCHANGED vars
  BY <1>1, <1>2 DEF vars, tool
<1>3. ASSUME NEW c \in Calls, Step(c) \/ \E p \in Params : Start(c, p) PROVE InitialInv'
  BY <1>3, StepInitial
<1>4. ASSUME NEW v \in Views, ViewRead(v) \/ ViewRecord(v) PROVE InitialInv'
  <2>1. v \notin Calls /\ UNCHANGED <<versions, call>> /\ (Goto(v, "read") \/ Goto(v, "done"))
    BY <1>4, ParamsAssumption DEF ViewRead, ViewRecord, tool
  <2>2. \A c \in Calls : pc'[c] = pc[c]
    BY <2>1 DEF Goto, Typed, TypeOK
  <2>. QED BY <1>1, <2>1, <2>2
<1>5. CASE (\E l \in UserLines : OthersAdd(l)) \/ OthersRemove \/ Tick
  BY <1>1, <1>5 DEF OthersAdd, OthersRemove, Tick, tool
<1>. QED BY <1>2, <1>3, <1>4, <1>5 DEF Next

\* The initial version that a session's changes are counted from (Create and
\* CreateVersion of history/file.go) is there as soon as the session has any
\* version, and before a call that changed the file reports success, also when
\* the database failed in between and whatever other sessions insert.
THEOREM InitialKept == Spec => []InitialVersionKept
<1>1. Init => InitialInv
  BY DEF Init, InitialInv, CallInitial
<1>2. InitialInv => InitialVersionKept
  BY DEF InitialInv, CallInitial, HasInitial, HasInitialVersion, InitialVersionKept, OfSession
<1>. QED BY <1>1, <1>2, InitTyped, NextTyped, NextInitial, PTL DEF Spec


---------------------------------------------------------------------------
(* Both sides of a change *)

HasContent(s, x) == \E v \in versions : v.session = s /\ v.content = x

\* What the property excuses.
Excused(c) == local[c].failed \/ Session(c) \in together \/ FarBehind(Session(c))

\* The version is counted from a row that is no older than the session's.
Counted(c) ==
  \E r \in versions : /\ local[c].first = r.version + 1
                      /\ \A v \in OfSession(Session(c)) : v.second <= r.second

\* As far as the call has come, the sides are there.
Sides(c) ==
  \/ /\ pc[c] \in {"list new", "insert new", "record"} => HasContent(Session(c), local[c].old)
     /\ pc[c] = "record" /\ Phase(c) # "delete" => HasContent(Session(c), local[c].new)
     /\ pc[c] \in {"insert old", "insert new"} => Counted(c)
  \/ Excused(c)

\* Two calls of a session that are at the history have met there.
Met(c, d) == AtHistory(c) /\ AtHistory(d) /\ Session(c) = Session(d) => Session(c) \in together

SidesInv == \A c \in Calls : Sides(c) /\ \A d \in Calls \ {c} : Met(c, d)

\* A set of numbers has a least.
LEMMA LeastOf ==
  ASSUME NEW S \in SUBSET Nat, S # {}
  PROVE  \E x \in S : \A y \in S : x <= y
<1> DEFINE R == OpToRel(<, Nat)
<1>1. PICK x \in S : \A y \in S : ~(<<y, x>> \in R)
  <2> HIDE DEF R
  <2>1. IsWellFoundedOn(R, Nat)
    BY NatLessThanWellFounded DEF R
  <2> QED
    BY <2>1, WFMin
<1>2. \A y \in S : ~(y < x)
  BY <1>1 DEF OpToRel
<1> QED
  BY <1>2

\* If no version is left to insert, the session's own versions are far ahead of the
\* row they were counted from.
LEMMA NoneLeft ==
  ASSUME versions \subseteq Rows, NEW s, NEW r \in versions, NEW second \in Nat,
         Inserted(s, r.version + 1, second) = {},
         \A v \in OfSession(s) : v.second <= r.second
  PROVE  FarBehind(s)
<1> DEFINE first == r.version + 1
           last == MaxRetries - 1
           tries == [i \in 0 .. last |-> IF i = 0 THEN first ELSE Attempt(first, i, second)]
           free  == {i \in 0 .. last : \A v \in OfSession(s) : v.version # tries[i]}
<1>1. r.version \in Nat /\ last \in Nat /\ last \in 0 .. last
  BY HistoryAssumption DEF Rows
<1>2. free = {}
  <2> SUFFICES ASSUME free # {} PROVE FALSE
    OBVIOUS
  <2>1. PICK j \in free : \A k \in free : j <= k
    <3>1. free \in SUBSET Nat
      BY <1>1
    <3> HIDE DEF free
    <3> QED
      BY <3>1, LeastOf
  <2>2. DOMAIN tries = 0 .. last
    OBVIOUS
  <2>3. tries[j] \in Inserted(s, first, second)
    BY <2>1, <2>2 DEF Inserted
  <2> QED
    BY <2>3
<1>3. PICK v \in OfSession(s) : v.version = tries[last]
  BY <1>1, <1>2
<1>4. tries[last] = r.version + MaxRetries
  <2>1. CASE last = 0
    <3>1. tries[last] = first
      BY <1>1, <2>1
    <3> QED
      BY <1>1, <2>1, <3>1, HistoryAssumption
  <2>2. CASE last # 0
    <3>1. tries[last] = Attempt(first, last, second)
      BY <1>1, <2>2
    <3>2. first # InitialVersion
      BY <1>1 DEF InitialVersion
    <3>3. tries[last] = first + last
      BY <3>1, <3>2 DEF Attempt
    <3> HIDE DEF tries
    <3> QED
      BY <1>1, <3>3, HistoryAssumption
  <2> QED
    BY <2>1, <2>2
<1>5. r.version + MaxRetries <= v.version
  BY <1>1, <1>3, <1>4, HistoryAssumption
<1> QED
  BY <1>5 DEF FarBehind

\* Rows are only added.
LEMMA RowsStay ==
  ASSUME versions \subseteq versions'
  PROVE  /\ \A s, x : HasContent(s, x) => HasContent(s, x)'
         /\ \A s : FarBehind(s) => FarBehind(s)'
BY DEF HasContent, FarBehind, OfSession

\* A call that does not move keeps what it has, unless another of its session
\* inserts a row.
LEMMA SidesOther ==
  ASSUME NEW d \in Calls, Sides(d), pc'[d] = pc[d], call'[d] = call[d], local'[d] = local[d],
         versions \subseteq versions', together \subseteq together',
         \/ Session(d) \in together
         \/ \A v \in versions' \ versions : v.session # Session(d)
         \/ ~AtHistory(d)
  PROVE  Sides(d)'
<1>1. Session(d)' = Session(d) /\ Phase(d)' = Phase(d)
  BY DEF Session, Phase
<1>2. Excused(d) => Excused(d)'
  BY <1>1, RowsStay DEF Excused
<1>3. \A x : HasContent(Session(d), x) => HasContent(Session(d), x)'
  BY <1>1 DEF HasContent
<1>4. CASE Session(d) \in together
  BY <1>2, <1>4 DEF Excused, Sides
<1>5. CASE \A v \in versions' \ versions : v.session # Session(d)
  <2>1. Counted(d) => Counted(d)'
    BY <1>1, <1>5 DEF Counted, OfSession
  <2> QED
    BY <1>1, <1>2, <1>3, <2>1 DEF Sides, HasContent
<1>6. CASE ~AtHistory(d)
  <2>1. pc[d] \notin {"insert old", "insert new"}
    BY <1>6 DEF AtHistory
  <2> QED
    BY <1>1, <1>2, <1>3, <2>1 DEF Sides, HasContent
<1> QED
  BY <1>4, <1>5, <1>6

\* A call moves: what is to show of it and of the others.
LEMMA SidesMove ==
  ASSUME Typed, SidesInv, NEW c \in Calls,
         versions \subseteq versions', together \subseteq together',
         \A d \in Calls \ {c} : pc'[d] = pc[d] /\ call'[d] = call[d] /\ local'[d] = local[d],
         \A v \in versions' \ versions : v.session = Session(c) /\ AtHistory(c),
         AtHistory(c)' => AtHistory(c) /\ Session(c)' = Session(c),
         Sides(c)'
  PROVE  SidesInv'
<1>1. ASSUME NEW d \in Calls \ {c} PROVE Sides(d)'
  <2>1. Met(c, d) /\ Sides(d)
    BY DEF SidesInv
  <2>2. CASE Session(d) = Session(c) /\ AtHistory(d) /\ AtHistory(c)
    BY <2>1, <2>2, SidesOther DEF Met
  <2>3. CASE ~(Session(d) = Session(c) /\ AtHistory(d) /\ AtHistory(c))
    BY <2>1, <2>3, SidesOther
  <2> QED
    BY <2>2, <2>3
<1>2. \A d \in Calls \ {c} : Session(d)' = Session(d) /\ AtHistory(d)' = AtHistory(d)
  BY DEF Session, AtHistory
<1>3. ASSUME NEW d \in Calls, NEW e \in Calls \ {d} PROVE Met(d, e)'
  <2>1. Met(d, e)
    BY DEF SidesInv
  <2>2. (AtHistory(d)' => AtHistory(d) /\ Session(d)' = Session(d))
        /\ (AtHistory(e)' => AtHistory(e) /\ Session(e)' = Session(e))
    BY <1>2
  <2> QED
    BY <2>1, <2>2 DEF Met
<1> QED
  BY <1>1, <1>3 DEF SidesInv

\* A call that is not at the history has nothing to show there.
LEMMA Elsewhere ==
  ASSUME NEW c, pc[c] \notin {"list new", "insert new", "record", "insert old"}
  PROVE  Sides(c)
BY DEF Sides

\* A call that goes on, or returns, leaves the others.
LEMMA Moves ==
  ASSUME Typed, NEW c \in Calls, NEW l, Goto(c, l)
  PROVE  pc'[c] = l /\ \A d \in Calls \ {c} : pc'[d] = pc[d]
BY DEF Goto, Typed, TypeOK

LEMMA Returns ==
  ASSUME Typed, NEW c \in Calls, NEW r \in {"ok", "error"}, Finish(c, r) \/ Respond(c, r)
  PROVE  /\ pc'[c] \in {"start", r}
         /\ \A d \in Calls \ {c} : pc'[d] = pc[d] /\ call'[d] = call[d] /\ local'[d] = local[d]
<1>1. CASE Finish(c, r)
  BY <1>1, Moves DEF Finish, Typed, TypeOK
<1>2. CASE Respond(c, r) /\ Phase(c) \in {"create", "delete"}
  BY <1>2, Moves DEF Respond, Typed, TypeOK
<1> QED
  BY <1>1, <1>2 DEF Respond

\* A row that is inserted is of the call's session, and has the content.
LEMMA InsertedRow ==
  ASSUME NEW s, NEW v, NEW x, NEW second, Insert(s, v, x, second)
  PROVE  /\ versions \subseteq versions' /\ HasContent(s, x)'
         /\ \A w \in versions' \ versions : w.session = s
<1> DEFINE row == [session |-> s, version |-> v, content |-> x, second |-> second]
<1>1. versions' = versions \cup {row}
  BY DEF Insert
<1>2. row.session = s /\ row.content = x
  OBVIOUS
<1> HIDE DEF row
<1> QED
  BY <1>1, <1>2 DEF HasContent

\* Calls before they are at the history.
LEMMA SidesBefore ==
  ASSUME Typed, SidesInv, NEW c \in Calls,
         Check(c) \/ Read(c) \/ DeniedOrFails(c) \/ Record(c) \/ (\E p \in Params : Start(c, p))
  PROVE  SidesInv'
<1>1. UNCHANGED <<versions, together>>
  BY DEF Check, Read, DeniedOrFails, Record, Start, ghosts
<1>2. ASSUME pc'[c] \in {"start", "checked", "asking", "ok", "error"},
             \A d \in Calls \ {c} : pc'[d] = pc[d] /\ call'[d] = call[d] /\ local'[d] = local[d]
      PROVE  SidesInv'
  <2>1. ~(AtHistory(c)')
    BY <1>2 DEF AtHistory
  <2>2. Sides(c)'
    BY <1>2 DEF Sides
  <2> QED
    BY <1>1, <1>2, <2>1, <2>2, SidesMove
<1>3. ASSUME NEW r \in {"ok", "error"}, Finish(c, r) \/ Respond(c, r) PROVE SidesInv'
  BY <1>2, <1>3, Returns
<1>4. ASSUME NEW l \in {"start", "checked", "asking"}, Goto(c, l),
             \A d \in Calls \ {c} : call'[d] = call[d] /\ local'[d] = local[d]
      PROVE  SidesInv'
  BY <1>2, <1>4, Moves
<1>5. ASSUME NEW p \in Params, Start(c, p) PROVE SidesInv'
  <2>1. Goto(c, "start") /\ call' = [call EXCEPT ![c] = p]
    BY <1>5 DEF Start
  <2>2. \A d \in Calls \ {c} : local'[d] = local[d]
    BY <1>5 DEF Start, Typed, TypeOK
  <2>3. \A d \in Calls \ {c} : call'[d] = call[d]
    BY <2>1 DEF Typed, TypeOK
  <2> QED
    BY <1>4, <2>1, <2>2, <2>3
<1>6. CASE Check(c)
  <2>1. CASE ~MayChange(c)
    BY <1>3, <1>6, <2>1 DEF Check
  <2>2. CASE MayChange(c)
    <3>1. Goto(c, "checked") \/ Goto(c, "asking")
      BY <1>6, <2>2 DEF Check
    <3>2. UNCHANGED call /\ \A d \in Calls \ {c} : local'[d] = local[d]
      BY <1>6, <2>2 DEF Check, Typed, TypeOK
    <3> QED
      BY <1>4, <3>1, <3>2
  <2> QED
    BY <2>1, <2>2
<1>7. CASE Read(c)
  <2>1. CASE Goto(c, "asking") /\ UNCHANGED call
             /\ local' = [local EXCEPT ![c].old = OnDisk, ![c].new = Edited(c)]
    <3>1. \A d \in Calls \ {c} : local'[d] = local[d]
      BY <2>1 DEF Typed, TypeOK
    <3> QED
      BY <1>4, <2>1, <3>1
  <2>2. CASE Finish(c, "error") \/ Respond(c, "error")
    BY <1>3, <2>2
  <2> QED
    BY <1>7, <2>1, <2>2 DEF Read
<1>8. CASE DeniedOrFails(c)
  BY <1>3, <1>8 DEF DeniedOrFails
<1>9. CASE Record(c)
  BY <1>3, <1>9 DEF Record
<1> QED
  BY <1>5, <1>6, <1>7, <1>8, <1>9

\* A call that comes to the history notices who is there.
LEMMA SidesWrite ==
  ASSUME Typed, SidesInv, NEW c \in Calls, WriteFile(c)
  PROVE  SidesInv'
<1>1. /\ UNCHANGED <<versions, call, local>> /\ together \subseteq together'
      /\ (\E d \in Calls \ {c} : AtHistory(d) /\ Session(d) = Session(c)) => Session(c) \in together'
  BY DEF WriteFile, tool
<1>2. pc'[c] \in {"create", "lookup"} /\ \A d \in Calls \ {c} : pc'[d] = pc[d]
  BY Moves DEF WriteFile
<1>3. \A d \in Calls : Session(d)' = Session(d)
  BY <1>1 DEF Session
<1>4. \A d \in Calls \ {c} : AtHistory(d)' = AtHistory(d)
  BY <1>2 DEF AtHistory
<1>5. ASSUME NEW d \in Calls PROVE Sides(d)'
  <2>1. CASE d = c
    BY <1>2, <2>1 DEF Sides
  <2>2. CASE d # c
    <3>1. Sides(d)
      BY DEF SidesInv
    <3> QED
      BY <1>1, <1>2, <2>2, <3>1, SidesOther
  <2> QED
    BY <2>1, <2>2
<1>6. ASSUME NEW d \in Calls, NEW e \in Calls \ {d} PROVE Met(d, e)'
  <2>1. Met(d, e)
    BY DEF SidesInv
  <2>2. CASE d # c /\ e # c
    BY <1>1, <1>3, <1>4, <2>1, <2>2 DEF Met
  <2>3. CASE d = c
    BY <1>1, <1>3, <1>4, <2>3 DEF Met
  <2>4. CASE e = c
    BY <1>1, <1>3, <1>4, <2>4 DEF Met
  <2> QED
    BY <2>2, <2>3, <2>4
<1> QED
  BY <1>5, <1>6 DEF SidesInv

\* Calls at the history.
LEMMA SidesHistory ==
  ASSUME Typed, InitialInv, SidesInv, NEW c \in Calls,
         Lookup(c) \/ Create(c) \/ ListVersions(c) \/ InsertVersion(c) \/ HistoryFails(c)
  PROVE  SidesInv'
<1>0. /\ Sides(c) /\ AtHistory(c)
      /\ together' = together
  BY DEF SidesInv, AtHistory, Lookup, Create, ListVersions, InsertVersion, HistoryFails, ghosts
<1>1. ASSUME NEW l, Goto(c, l), UNCHANGED call, \A d \in Calls \ {c} : local'[d] = local[d],
             versions \subseteq versions', \A v \in versions' \ versions : v.session = Session(c),
             Sides(c)'
      PROVE  SidesInv'
  <2>1. \A d \in Calls \ {c} : pc'[d] = pc[d]
    BY <1>1, Moves
  <2>2. Session(c)' = Session(c)
    BY <1>1 DEF Session
  <2> QED
    BY <1>0, <1>1, <2>1, <2>2, SidesMove
<1>2. CASE Lookup(c)
  <2>1. UNCHANGED <<versions, call, local>>
    BY <1>2 DEF Lookup, tool
  <2>2. CASE GetByPathAndSession(Session(c)) = {}
    <3>1. Goto(c, "create")
      BY <1>2, <2>2 DEF Lookup
    <3>2. pc'[c] = "create"
      BY <3>1, Moves
    <3>3. Sides(c)'
      BY <3>2 DEF Sides
    <3> QED
      BY <1>1, <2>1, <3>1, <3>3
  <2>3. CASE GetByPathAndSession(Session(c)) # {}
    <3>1. PICK v \in GetByPathAndSession(Session(c)) :
            Goto(c, IF v.content # local[c].old THEN "list old" ELSE "list new")
      BY <1>2, <2>3 DEF Lookup
    <3>2. CASE v.content # local[c].old
      <4>1. Goto(c, "list old")
        BY <3>1, <3>2
      <4>2. pc'[c] = "list old"
        BY <4>1, Moves
      <4>3. Sides(c)'
        BY <4>2 DEF Sides
      <4> QED
        BY <1>1, <2>1, <4>1, <4>3
    <3>3. CASE v.content = local[c].old
      <4>1. Goto(c, "list new")
        BY <3>1, <3>3
      <4>2. v \in versions /\ v.session = Session(c)
        BY DEF GetByPathAndSession, Newest, OfSession
      <4>3. HasContent(Session(c), local[c].old)'
        BY <2>1, <3>3, <4>2 DEF HasContent, Session
      <4>4. pc'[c] = "list new"
        BY <4>1, Moves
      <4>5. Sides(c)'
        BY <4>3, <4>4 DEF Sides
      <4> QED
        BY <1>1, <2>1, <4>1, <4>5
    <3> QED
      BY <3>2, <3>3
  <2> QED
    BY <2>2, <2>3
<1>3. CASE Create(c)
  <2>1. CASE Inserted(Session(c), InitialVersion, now) = {}
    <3>1. Finish(c, "error") /\ UNCHANGED versions
      BY <1>3, <2>1 DEF Create
    <3>2. /\ pc'[c] \in {"start", "error"}
          /\ \A d \in Calls \ {c} : pc'[d] = pc[d] /\ call'[d] = call[d] /\ local'[d] = local[d]
      BY <3>1, Returns
    <3>3. Sides(c)' /\ ~(AtHistory(c)')
      BY <3>2 DEF Sides, AtHistory
    <3> QED
      BY <1>0, <3>1, <3>2, <3>3, SidesMove
  <2>2. CASE Inserted(Session(c), InitialVersion, now) # {}
    <3>1. PICK v \in Inserted(Session(c), InitialVersion, now) : Insert(Session(c), v, local[c].old, now)
      BY <1>3, <2>2 DEF Create
    <3>2. UNCHANGED <<call, local>> /\ (Goto(c, "list old") \/ Goto(c, "list new"))
      BY <1>3, <2>2 DEF Create, Goto, tool
    <3>3. /\ versions \subseteq versions' /\ HasContent(Session(c), local[c].old)'
          /\ \A w \in versions' \ versions : w.session = Session(c)
      <4> DEFINE s == Session(c)
                 x == local[c].old
      <4>1. Insert(s, v, x, now)
        BY <3>1
      <4>2. s' = s /\ x' = x
        BY <3>2 DEF Session
      <4> HIDE DEF s, x
      <4>3. /\ versions \subseteq versions' /\ \E w \in versions' : w.session = s /\ w.content = x
            /\ \A w \in versions' \ versions : w.session = s
        <5> DEFINE row == [session |-> s, version |-> v, content |-> x, second |-> now]
        <5>1. versions' = versions \cup {row} /\ row.session = s /\ row.content = x
          BY <4>1 DEF Insert
        <5> HIDE DEF row
        <5> QED
          BY <5>1
      <4> QED
        BY <4>2, <4>3 DEF HasContent, s, x
    <3>4. pc'[c] \in {"list old", "list new"}
      BY <3>2, Moves
    <3>5. Sides(c)'
      BY <3>3, <3>4 DEF Sides
    <3> QED
      BY <1>1, <3>2, <3>3, <3>5
  <2> QED
    BY <2>1, <2>2
<1>4. CASE ListVersions(c)
  <2>1. /\ UNCHANGED <<versions, call>> /\ pc[c] \in {"list old", "list new"}
        /\ Goto(c, IF pc[c] = "list old" THEN "insert old" ELSE "insert new")
    BY <1>4 DEF ListVersions
  <2>2. PICK f \in NextVersions : local' = [local EXCEPT ![c].first = f]
    BY <1>4 DEF ListVersions
  <2>3. local'[c].first = f /\ local'[c].old = local[c].old /\ local'[c].failed = local[c].failed
        /\ \A d \in Calls \ {c} : local'[d] = local[d]
    BY <2>2 DEF Typed, TypeOK
  <2>4. versions # {}
    BY <2>1 DEF InitialInv, CallInitial, HasInitial
  <2>5. PICK r \in Newest(versions) : f = r.version + 1
    BY <2>2, <2>4 DEF NextVersions
  <2>6. Session(c)' = Session(c)
    BY <2>1 DEF Session
  <2>7. Counted(c)'
    BY <2>1, <2>3, <2>5, <2>6 DEF Counted, Newest, OfSession
  <2>8. pc'[c] = (IF pc[c] = "list old" THEN "insert old" ELSE "insert new")
    BY <2>1, Moves
  <2>9. HasContent(Session(c), local[c].old) => HasContent(Session(c), local[c].old)'
    BY <2>1, <2>3, <2>6 DEF HasContent
  <2>10. Excused(c) => Excused(c)'
    BY <1>0, <2>1, <2>3, <2>6 DEF Excused, FarBehind, OfSession
  <2>11. Sides(c)'
    BY <1>0, <2>1, <2>7, <2>8, <2>9, <2>10 DEF Sides
  <2> QED
    BY <1>1, <2>1, <2>3, <2>11
<1>5. CASE InsertVersion(c)
  <2>1. /\ pc[c] \in {"insert old", "insert new"} /\ UNCHANGED call
        /\ local' = [local EXCEPT ![c].first = 0]
        /\ Goto(c, IF pc[c] = "insert old" THEN "list new" ELSE "record")
    BY <1>5 DEF InsertVersion
  <2>2. /\ local'[c].old = local[c].old /\ local'[c].new = local[c].new
        /\ local'[c].failed = local[c].failed /\ local'[c].phase = local[c].phase
        /\ \A d \in Calls \ {c} : local'[d] = local[d]
    BY <2>1 DEF Typed, TypeOK
  <2>3. Session(c)' = Session(c) /\ Phase(c)' = Phase(c)
    BY <2>1, <2>2 DEF Session, Phase
  <2>4. pc'[c] = (IF pc[c] = "insert old" THEN "list new" ELSE "record")
    BY <2>1, Moves
  <2>5. CASE Inserted(Session(c), local[c].first, now) = {}
    <3>1. versions' = versions
      BY <1>5, <2>5 DEF InsertVersion
    <3>2. Excused(c)
      <4> SUFFICES ASSUME ~Excused(c) PROVE FALSE
        OBVIOUS
      <4>1. Counted(c)
        BY <1>0, <2>1 DEF Sides
      <4>2. PICK r \in versions : /\ local[c].first = r.version + 1
                                  /\ \A v \in OfSession(Session(c)) : v.second <= r.second
        BY <4>1 DEF Counted
      <4>3. versions \subseteq Rows /\ now \in Nat
        BY Times DEF Typed, TypeOK
      <4>4. FarBehind(Session(c))
        BY <2>5, <4>2, <4>3, NoneLeft
      <4> QED
        BY <4>4 DEF Excused
    <3>3. Excused(c)'
      BY <1>0, <2>2, <2>3, <3>1, <3>2 DEF Excused, FarBehind, OfSession
    <3>4. Sides(c)'
      BY <3>3 DEF Sides
    <3> QED
      BY <1>1, <2>1, <2>2, <3>1, <3>4
  <2>6. CASE Inserted(Session(c), local[c].first, now) # {}
    <3> DEFINE s == Session(c)
               x == Stored(c)
    <3>1. PICK v : Insert(s, v, x, now)
      BY <1>5, <2>6 DEF InsertVersion
    <3>2. pc[c] = "insert old" => x = local[c].old
      BY DEF Stored
    <3>3. pc[c] = "insert new" /\ Phase(c) # "delete" => x = local[c].new
      BY DEF Stored
    <3> HIDE DEF x
    <3>4. /\ versions \subseteq versions' /\ \E w \in versions' : w.session = s /\ w.content = x
          /\ \A w \in versions' \ versions : w.session = s
      <4> HIDE DEF s
      <4> DEFINE row == [session |-> s, version |-> v, content |-> x, second |-> now]
      <4>1. versions' = versions \cup {row} /\ row.session = s /\ row.content = x
        BY <3>1 DEF Insert
      <4> HIDE DEF row
      <4> QED
        BY <4>1
    <3>5. Excused(c) => Excused(c)'
      BY <1>0, <2>2, <2>3, <3>4, RowsStay DEF Excused
    <3>6. CASE Excused(c)
      <4>1. Sides(c)'
        BY <3>5, <3>6 DEF Sides
      <4> QED
        BY <1>1, <2>1, <2>2, <3>4, <4>1
    <3>7. CASE ~Excused(c)
      <4>1. pc[c] = "insert new" => HasContent(s, local[c].old)
        BY <1>0, <3>7 DEF Sides
      <4>2. HasContent(Session(c), local[c].old)'
        BY <2>1, <2>2, <2>3, <3>2, <3>4, <4>1 DEF HasContent
      <4>3. pc'[c] = "record" /\ Phase(c) # "delete" => HasContent(Session(c), local[c].new)'
        BY <2>1, <2>2, <2>3, <2>4, <3>3, <3>4 DEF HasContent
      <4>4. Sides(c)'
        BY <2>1, <2>3, <2>4, <4>2, <4>3 DEF Sides
      <4> QED
        BY <1>1, <2>1, <2>2, <3>4, <4>4
    <3> QED
      BY <3>6, <3>7
  <2> QED
    BY <2>5, <2>6
<1>6. CASE HistoryFails(c)
  <2>1. UNCHANGED versions
    BY <1>6 DEF HistoryFails
  <2>2. CASE pc[c] = "create"
    <3>1. Finish(c, "error")
      BY <1>6, <2>2 DEF HistoryFails
    <3>2. /\ pc'[c] \in {"start", "error"}
          /\ \A d \in Calls \ {c} : pc'[d] = pc[d] /\ call'[d] = call[d] /\ local'[d] = local[d]
      BY <3>1, Returns
    <3>3. Sides(c)' /\ ~(AtHistory(c)')
      BY <3>2 DEF Sides, AtHistory
    <3> QED
      BY <1>0, <2>1, <3>2, <3>3, SidesMove
  <2>3. CASE pc[c] # "create"
    <3>1. local' = [local EXCEPT ![c].failed = TRUE] /\ UNCHANGED call
      BY <1>6, <2>3 DEF HistoryFails
    <3>2. PICK l : Goto(c, l)
      BY <1>6, <2>3 DEF HistoryFails
    <3>3. local'[c].failed = TRUE /\ \A d \in Calls \ {c} : local'[d] = local[d]
      BY <3>1 DEF Typed, TypeOK
    <3>4. Sides(c)'
      BY <3>3 DEF Sides, Excused
    <3> QED
      BY <1>1, <2>1, <3>1, <3>2, <3>3, <3>4
  <2> QED
    BY <2>2, <2>3
<1> QED
  BY <1>2, <1>3, <1>4, <1>5, <1>6

\* The invariant is kept.
LEMMA NextSides == Typed /\ InitialInv /\ SidesInv /\ [Next]_vars => SidesInv'
<1> SUFFICES ASSUME Typed, InitialInv, SidesInv, [Next]_vars PROVE SidesInv'
  OBVIOUS
<1>1. ASSUME UNCHANGED <<versions, call, local, together>>, \A c \in Calls : pc'[c] = pc[c]
      PROVE  SidesInv'
  <2>1. \A c \in Calls : Sides(c)'
    BY <1>1, SidesOther DEF SidesInv
  <2>2. \A c, d \in Calls : Met(c, d) => Met(c, d)'
    BY <1>1 DEF Met, AtHistory, Session
  <2> QED
    BY <2>1, <2>2 DEF SidesInv
<1>2. CASE UNCHANGED vars
  BY <1>1, <1>2 DEF vars, tool, ghosts
<1>3. ASSUME NEW c \in Calls, Step(c) \/ \E p \in Params : Start(c, p) PROVE SidesInv'
  BY <1>3, SidesBefore, SidesWrite, SidesHistory DEF Step
<1>4. ASSUME NEW v \in Views, ViewRead(v) \/ ViewRecord(v) PROVE SidesInv'
  <2>1. v \notin Calls /\ UNCHANGED <<versions, call, local, together>> /\ (Goto(v, "read") \/ Goto(v, "done"))
    BY <1>4, ParamsAssumption DEF ViewRead, ViewRecord, tool, ghosts
  <2>2. \A c \in Calls : pc'[c] = pc[c]
    BY <2>1 DEF Goto, Typed, TypeOK
  <2> QED
    BY <1>1, <2>1, <2>2
<1>5. CASE (\E l \in UserLines : OthersAdd(l)) \/ OthersRemove \/ Tick
  BY <1>1, <1>5 DEF OthersAdd, OthersRemove, Tick, tool, ghosts
<1> QED
  BY <1>2, <1>3, <1>4, <1>5 DEF Next

\* What a call that succeeds has replaced and what it has written are both in the
\* history (write.go and edit.go after os.WriteFile, createWithVersion of
\* history/file.go), for any calls, sessions and numbers of attempts, but for what
\* it excuses: BothSidesInHistory.
THEOREM BothSidesKept == Spec => BothSidesInHistory
<1> DEFINE Step1 ==
      \A c \in Calls : pc[c] = "record" /\ pc'[c] = "ok" =>
        \/ Kept(c) \/ local[c].failed
        \/ Session(c) \in together \/ FarBehind(Session(c))
<1>1. Typed /\ SidesInv /\ [Next]_vars => Step1
  <2> SUFFICES ASSUME Typed, SidesInv, [Next]_vars, NEW c \in Calls, pc[c] = "record", pc'[c] = "ok",
                      ~Excused(c)
               PROVE  Kept(c)
    BY DEF Excused
  <2>1. Phase(c) # "delete"
    <3> SUFFICES ASSUME Phase(c) = "delete" PROVE FALSE
      OBVIOUS
    <3>1. ASSUME NEW d \in Calls, Step(d) \/ \E p \in Params : Start(d, p), d # c PROVE FALSE
      <4>1. (\E l : Goto(d, l)) \/ (\E r \in {"ok", "error"} : Finish(d, r) \/ Respond(d, r))
        <5>1. CASE \E p \in Params : Start(d, p)
          BY <5>1 DEF Start
        <5>2. CASE Check(d)
          BY <5>2 DEF Check
        <5>3. CASE Read(d)
          BY <5>3 DEF Read
        <5>4. CASE DeniedOrFails(d) \/ WriteFile(d) \/ Record(d)
          BY <5>4 DEF DeniedOrFails, WriteFile, Record
        <5>5. CASE Lookup(d) \/ Create(d) \/ ListVersions(d) \/ InsertVersion(d)
          BY <5>5 DEF Lookup, Create, ListVersions, InsertVersion
        <5>6. CASE HistoryFails(d)
          BY <5>6 DEF HistoryFails
        <5> QED
          BY <3>1, <5>1, <5>2, <5>3, <5>4, <5>5, <5>6 DEF Step
      <4>2. pc'[c] = pc[c]
        BY <3>1, <4>1, Moves, Returns
      <4> QED
        BY <4>2
    <3>2. ASSUME Step(c) \/ \E p \in Params : Start(c, p) PROVE FALSE
      <4>1. Record(c)
        BY <3>2 DEF Step, Start, Check, Read, DeniedOrFails, WriteFile, Lookup, Create, ListVersions,
                    InsertVersion, HistoryFails, AtHistory
      <4>2. Goto(c, "start")
        BY <4>1 DEF Record, Respond
      <4> QED
        BY <4>2, Moves
    <3>3. ASSUME NEW v \in Views, ViewRead(v) \/ ViewRecord(v) PROVE FALSE
      <4>1. v # c /\ (Goto(v, "read") \/ Goto(v, "done"))
        BY <3>3, ParamsAssumption DEF ViewRead, ViewRecord
      <4> QED
        BY <4>1 DEF Goto, Typed, TypeOK
    <3>4. CASE (\E l \in UserLines : OthersAdd(l)) \/ OthersRemove \/ Tick \/ UNCHANGED vars
      BY <3>4 DEF OthersAdd, OthersRemove, Tick, vars
    <3> QED
      BY <3>1, <3>2, <3>3, <3>4 DEF Next
  <2>2. HasContent(Session(c), local[c].old) /\ HasContent(Session(c), local[c].new)
    BY <2>1 DEF SidesInv, Sides
  <2> QED
    BY <2>2 DEF Kept, HasContent, OfSession
<1>2. Init => InitialInv /\ SidesInv
  BY DEF Init, InitialInv, CallInitial, SidesInv, Sides, Met, AtHistory
<1>3. Spec => [][Step1]_vars
  <2> HIDE DEF Step1
  <2>1. Typed /\ SidesInv /\ [Next]_vars => [Step1]_vars
    BY <1>1
  <2> QED
    BY <1>2, <2>1, InitTyped, NextTyped, NextInitial, NextSides, PTL DEF Spec
<1> QED
  BY <1>3 DEF BothSidesInHistory
=============================================================================
