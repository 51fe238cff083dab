---------------------------- MODULE MCFileTools ----------------------------
(* One file of two lines for TLC; u is the line the user adds.             *)
EXTENDS FileTools, TLC

CONSTANTS s1, s2, a, u

MCSessions == {s1, s2}
MCLines    == {a, u}
MCContents == SUBSET MCLines

\* A write, and an edit of each kind.
MCParams ==
  {[tool |-> "write", session |-> s, text |-> {a}] : s \in MCSessions}
    \cup {[tool |-> "edit", session |-> s, old |-> o[1], new |-> o[2]] :
            s \in MCSessions, o \in {<<Empty, a>>, <<a, Empty>>, <<u, a>>}}

\* Others change the file and look at it while one session works, with a short
\* history, or two sessions work, with a database that may fail, and nobody else
\* does.
InUse == {v.session : v \in versions} \cup {call[c].session : c \in {c \in Calls : call[c] # NoCall}}

OneSession  == (\A s, t \in InUse : s = t) /\ failures = 0 /\ Cardinality(versions) <= 3
NobodyElse  == changes = 0 /\ \A v \in Views : pc[v] = "idle"
FewAtOnce   == OneSession \/ NobodyElse

Symmetry == Permutations(MCSessions) \cup Permutations(Calls)
=============================================================================
