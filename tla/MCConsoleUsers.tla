--------------------------- MODULE MCConsoleUsers ---------------------------
(* Two names that share the key of their own group, as a.b and a-b do;       *)
(* requests, passwords and users are interchangeable.  The file breaks only  *)
(* while a name is free: there is then one user at most whom nobody can read. *)
EXTENDS ConsoleUsers, TLC

CONSTANT grp

SharedOwnGroup == [u \in User |-> grp]
Interchangeable == Permutations(Request) \cup Permutations(Password) \cup Permutations(User)

MCNext == Next /\ (broken' # broken => \E u \in User : file[u] = None)
MCSpec == Init /\ [][MCNext]_vars
=============================================================================
