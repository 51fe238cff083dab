------------------------------ MODULE MCShell ------------------------------
(* A small shell for TLC: see MCShell.cfg for the sizes. *)
EXTENDS Shell, SequencesExt

\* The calls differ in nothing, and no fairness makes one begin: of the behaviours
\* that differ in the order of the beginnings only, one is enough.
Order   == SetToSeq(Execs)
InOrder == \A i \in 2 .. Len(Order) :
             pc'[Order[i]] # "idle" => pc'[Order[i - 1]] # "idle"

\* Bound: the last shell, which none can replace, stays.
LastStays == MaxShells \notin exited
=============================================================================
