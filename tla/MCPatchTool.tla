---------------------------- MODULE MCPatchTool ----------------------------
(* Updates of one file in many forms, and patches of two files in a few.   *)
EXTENDS PatchTool, TLC

CONSTANTS p, q, rel

L(w)  == [word |-> w, left |-> FALSE, right |-> FALSE]
Ind(w) == [word |-> w, left |-> TRUE, right |-> FALSE]

a == L("a")
b == L("b")
x == L("x")  \* what patches add
u == L("u")  \* what others write

\* Two files, the first by two names.
MCFiles   == {p, q}
MCPaths   == MCFiles \cup {rel}
MCAbsPath == [n \in MCPaths |-> IF n = rel THEN p ELSE n]

M(m, l) == [mark |-> m, line |-> l]
PatchLines == {M("keep", a), M("keep", b), M("delete", a), M("delete", b), M("add", x)}

Sec(def, lines, end) == [def |-> def, lines |-> lines, end |-> end]
Update(path, sections, move) ==
  [path |-> path, type |-> "update", sections |-> sections, move |-> move]
Add(path)    == [path |-> path, type |-> "add", lines |-> <<x>>]
Delete(path) == [path |-> path, type |-> "delete"]

\* One update: a section of up to three lines and one of up to two behind it,
\* at the end of the file or not.
Long   == UNION {[1 .. n -> PatchLines] : n \in 1 .. 3}
Short  == UNION {[1 .. n -> PatchLines] : n \in 1 .. 2}
Updates ==
  {<<Update(p, <<Sec(NoDef, s, "section"), Sec(d, t, e)>>, NoMove)>> :
     s \in Short, t \in Short, d \in {NoDef, a}, e \in {"section", "eof"}}
  \cup {<<Update(p, <<Sec(d, s, e)>>, NoMove)>> : s \in Long, d \in {NoDef, b}, e \in {"section", "eof", "junk"}}

\* Two files.
Change1 == Sec(NoDef, <<M("delete", a), M("add", x)>>, "section")
Change2 == Sec(NoDef, <<M("delete", b), M("add", x)>>, "section")
Two ==
  {<<Update(p, <<Change1>>, NoMove), h>> :
     h \in {Add(q), Delete(q), Update(q, <<Change1>>, NoMove), Update(q, <<Change1>>, rel), Delete(p),
            Delete(rel), Update(rel, <<Change2>>, NoMove)}}
  \cup {<<Update(p, <<Change1>>, m)>> : m \in Paths}

Contents == {<<a>>, <<b, a>>, <<a, b, a>>, <<Ind("a"), b>>}

Case(t, f, g, r, h) ==
  [text |-> t, disk |-> (p :> f @@ q :> g), record |-> (p :> "current" @@ q :> r),
   history |-> (p :> h @@ q :> {})]

MCCases ==
  {Case(t, f, Absent, "never", {}) : t \in Updates, f \in Contents}
  \cup {Case(t, <<a, b>>, g, r, h) :
          t \in Two, g \in {<<b, a>>, Absent}, r \in {"never", "current", "modified"},
          h \in {{}, {<<b>>}, {<<b>>, <<a, b>>}}}

MCOthers == {<<a, u>>}

\* Others come in between where two files are concerned.
Alone == others = 0 \/ \E i \in DOMAIN text : text[i].path = q \/ (text[i].type = "update" /\ text[i].move = q)
=============================================================================
