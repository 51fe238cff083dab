-------------------------- MODULE MCLspDocuments --------------------------
(* A tool and two timers.                                                 *)
EXTENDS LspDocuments, TLC

MCWatchKinds == {{}, {"create", "delete"}, {"change"}}

FewVersions == openFiles <= 3

Symmetry == Permutations(Tools) \cup Permutations(Timers)
=============================================================================
