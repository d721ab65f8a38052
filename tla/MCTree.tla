------------------------------- MODULE MCTree -------------------------------
(***************************************************************************)
(* Two folders and one that can be created; the calls of one group of      *)
(* operations at a time.                                                   *)
(***************************************************************************)
EXTENDS Tree, TLC

CONSTANTS fA, fB, fN, f1, f2, c1, c2, c3

Meet(x, y, z) == c1 :> x @@ c2 :> y @@ c3 :> z
MCScenes == {Meet("open", "open", "read"), Meet("open", "create", "read"), Meet("mkdir", "open", "create"),
             Meet("edit", "edit", "open"), Meet("edit", "write", "open"),
             Meet("bash", "open", "read"),
             Meet("commit", "opcommit", "stage"), Meet("commit", "stage", "unstage"),
             Meet("commit", "stage", "open"),
             Meet("opcommit", "push", "open"), Meet("opcommit", "push", "pull"),
             Meet("create", "init", "remote")}
Symm == Permutations({f1, f2})

=============================================================================
