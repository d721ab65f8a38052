-------------------------------- MODULE Tree --------------------------------
(***************************************************************************)
(* The folder, its files and its repository together: the agent's tools    *)
(* and the operator's requests, in threads of their own.                   *)
(***************************************************************************)
EXTENDS RepoGit

CONSTANTS Scenes       \* bound: the operations that may meet in a behaviour, by call

TypeOK == WorkspaceTypeOK /\ RepoTypeOK

Init == scene \in Scenes /\ WorkspaceInit /\ RepoInit

Next == (WorkspaceNext /\ UNCHANGED gitVars) \/ GitNext

Spec == Init /\ [][Next]_<<wsVars, gitVars>>

-----------------------------------------------------------------------------
\* _live and workspaces.json come to the same folder, the one opened last, so
\* that a restart returns to it: unless two opens met, a restart cut one short,
\* or a request that found _live empty entered it over an open.
FolderReturns ==
  (~raced /\ \A c \in Call : ~Opening(c)) => live \in {None, store.current} /\ store.current = opened

\* repo_edit patches the text as it is: what it writes has every word of the
\* text it replaces, unless another call wrote that file after it was read; and
\* a text stays in its folder, unless the operator opened another one during an edit.
EditKeepsText ==
  [][\A c \in Call : op[c] = "edit" =>
       /\ (at[c] = "truncate" /\ at'[c] = "fill" /\ ~met[c] /\ ~moved[c]) => Now(c) = got[c]
       /\ (at[c] = "fill" /\ at'[c] = "rel") =>
            LET t == text'[where[c]][TheFile(c)]
            IN /\ got[c].words \subseteq t.words
               /\ t.from = where[c] \/ \E d \in Call : op[d] = "edit" /\ moved[d]]_<<wsVars, gitVars>>

\* What repo_bash leaves when it returns: no leader and no child with a pipe of
\* ours; after a stop or the time limit nothing of the process group.  What left
\* the group lives on, and then the call has no result.
BashLeaves ==
  \A c \in Call : (op[c] = "bash" /\ at[c] \in {"done", "failed"}) =>
    /\ procs[c] \intersect {"leader", "piped"} = {}
    /\ killed[c] => "quiet" \notin procs[c]
    /\ at[c] = "done" => "away" \notin procs[c]

\* "commit krever haken og message; paths[] stages først" (tools.py:720): a file
\* enters a commit only when a call has named it, an agent's with the tick, in
\* the folder it began in, unless another was opened while it ran.  It need not be the
\* call that commits: what the operator has staged, and what a call has staged that
\* failed, still runs or went on in another folder, goes with it.
CommitConsent ==
  [][\A F \in Folder : \A e \in head'[F] \ head[F] : e[3] # None =>
       LET f == e[1]  a == e[2]  c == e[3]
       IN /\ f \in file[a]
          /\ \A d \in {a, c} : /\ op[d] = "commit" => allow[d]
                               /\ home[d] = F \/ moved[d]
          /\ a = c \/ op[a] = "stage" \/ InFlight(a) \/ at[a] \in {"failed", "lost"} \/ moved[a]]_<<wsVars, gitVars>>

\* "nekta: origin/wallE" (git_panel.py:112): nothing is pushed to wallE, unless the
\* operator opens its folder between the look at the remote and the push.
NothingToWallE ==
  \A F \in Folder : (remote[F] = "walle" /\ \E e \in sent[F] : e[3] # None) =>
    \E c \in Call : op[c] = "push" /\ moved[c] /\ checked[c] # F

=============================================================================
