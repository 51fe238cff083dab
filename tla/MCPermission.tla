---------------------------- MODULE MCPermission ----------------------------
(* Three requests of two sessions for TLC; r1 and r2 share their scope. *)
EXTENDS Permission

CONSTANTS r1, r2, r3, s1, s2, edit, file1, file2, dir

MCRequests == {r1, r2, r3}
MCOpts ==
  [r \in MCRequests |->
     CASE r = r1 -> [session |-> s1, tool |-> edit, path |-> file1]
       [] r = r2 -> [session |-> s1, tool |-> edit, path |-> file2]
       [] r = r3 -> [session |-> s2, tool |-> edit, path |-> file1]]
MCDir == [p \in {file1, file2} |-> dir]
=============================================================================
