------------------------------ MODULE RepoGit ------------------------------
(***************************************************************************)
(* Git in the folder the cockpit works in: the agent's repo_git tool       *)
(* (repo_git.py) and the operator's Git tab (git_panel.py).  Both run one  *)
(* git command after another, each in the folder root() answers at that    *)
(* moment, on the one index the folder has.  Git itself is external: a     *)
(* command either takes effect, is refused, or is killed at its time       *)
(* limit, after which its index.lock may stay.                             *)
(***************************************************************************)
EXTENDS Workspace

CONSTANTS Repos,       \* the folders that have a repository from the start
          WallE        \* the folders whose remote is origin/wallE

ASSUME RepoAssumption == Repos \subseteq Made /\ WallE \subseteq Repos

VARIABLES
  repo,      \* the folders with a .git
  lock,      \* the folders with an index.lock that nobody will remove
  staged,    \* the index: <<file, the call that added it>>
  head,      \* what is committed: <<file, who added it, who committed it>>
  remote,    \* "none", "ours" or "walle"
  sent,      \* what the remote has
  todo,      \* the files a call has still to add
  allow,     \* the tick "agent får kjøre" of each repo_git call
  checked    \* the folder whose remote a push has looked at

gitVars == <<repo, lock, staged, head, remote, sent, todo, allow, checked>>

Added     == File \X Call
Committed == File \X (Call \union {None}) \X (Call \union {None})

RepoTypeOK ==
  /\ Repos \subseteq repo /\ repo \subseteq made /\ lock \subseteq repo
  /\ staged \in [Folder -> SUBSET Added] /\ head \in [Folder -> SUBSET Committed]
  /\ sent \in [Folder -> SUBSET Committed]
  /\ remote \in [Folder -> {"none", "ours", "walle"}]
  /\ \A c \in Call : todo[c] \subseteq file[c]
  /\ allow \in [Call -> BOOLEAN] /\ checked \in [Call -> Folder \union {None}]
  /\ \A F \in Folder : remote[F] # "none" => F \in repo

RepoInit ==
  /\ repo = Repos /\ lock = {}
  /\ staged = [F \in Folder |-> {}]
  /\ head = [F \in Folder |-> {}]
  /\ remote = [F \in Folder |-> IF F \in WallE THEN "walle" ELSE IF F \in Repos THEN "ours" ELSE "none"]
  /\ sent = [F \in Folder |-> {}]
  /\ todo = [c \in Call |-> {}]
  /\ allow = [c \in Call |-> FALSE] /\ checked = [c \in Call |-> None]

\* Git runs in the folder of this moment; what it leaves alone.
Here(c) == where' = [where EXCEPT ![c] = Root]
RunsGit(c) == /\ Here(c)
              /\ UNCHANGED <<scene, folderVars, text, got, met, procVars, op, home, file, moved>>

\* A command that changes the index: refused, or killed at its time limit.
Refused(c) == /\ Goes(c, "failed")
              /\ \/ UNCHANGED lock
                 \/ Root \in repo /\ lock' = lock \union {Root}
              /\ UNCHANGED <<touched, staged, head, todo>>

-----------------------------------------------------------------------------
(* Staging and committing                                                  *)

\* run: push is refused, and so is commit without the tick, before anything is
\* added.  _ensure_repo and _safe_paths.
Commit(c, fs, tick) ==
  /\ Begin(c, "commit", fs)
  /\ allow' = [allow EXCEPT ![c] = tick] /\ todo' = [todo EXCEPT ![c] = fs]
  /\ IF tick /\ Root \in repo THEN FirstRoot(c, "stage") ELSE Goes(c, "failed") /\ Here(c)
  /\ UNCHANGED <<scene, folderVars, fileVars, procVars, moved, repo, lock, staged, head, remote, sent, checked>>

\* The Git tab: stage and unstage some files, commit some or all ({}: what is staged).
Tab(c, o, fs) ==
  /\ o \in {"opcommit", "stage", "unstage"} /\ Begin(c, o, fs)
  /\ o # "opcommit" => fs # {}
  /\ IF Root \in repo THEN FirstRoot(c, "stage") ELSE Goes(c, "failed") /\ Here(c)
  /\ todo' = [todo EXCEPT ![c] = fs]
  /\ UNCHANGED <<scene, folderVars, fileVars, procVars, moved,
                 repo, lock, staged, head, remote, sent, allow, checked>>

\* git add: of what has changed.
Adds(c, fs) ==
  /\ Root \in repo \ lock
  /\ staged' = [staged EXCEPT ![Root] =
                  {s \in @ : s[1] \notin fs \intersect touched[Root]}
                    \union ((fs \intersect touched[Root]) \X {c})]
  /\ touched' = [touched EXCEPT ![Root] = @ \ fs]

\* Mutant: git add -A.
AddEach(c) ==
  /\ at[c] = "stage" /\ op[c] = "commit" /\ todo[c] # {}
  /\ Adds(c, File) /\ todo' = [todo EXCEPT ![c] = {}]
  /\ UNCHANGED <<at, lock, head>>
  /\ RunsGit(c) /\ UNCHANGED <<repo, remote, sent, allow, checked>>

\* The agent's paths are added one by one; a failure leaves those before it staged.
AddOne(c) ==
  /\ at[c] = "stage" /\ op[c] = "commit" /\ todo[c] # {}
  /\ \E f \in todo[c] :
       \/ Adds(c, {f}) /\ todo' = [todo EXCEPT ![c] = @ \ {f}] /\ UNCHANGED <<at, lock, head>>
       \/ Refused(c)
  /\ RunsGit(c) /\ UNCHANGED <<repo, remote, sent, allow, checked>>

\* The operator's in one command.
AddAll(c) ==
  /\ at[c] = "stage" /\ op[c] \in {"opcommit", "stage"} /\ todo[c] # {}
  /\ \/ /\ Adds(c, file[c]) /\ todo' = [todo EXCEPT ![c] = {}]
        /\ IF op[c] = "stage" THEN Goes(c, "done") ELSE UNCHANGED at
        /\ UNCHANGED <<lock, head>>
     \/ Refused(c)
  /\ RunsGit(c) /\ UNCHANGED <<repo, remote, sent, allow, checked>>

\* git restore --staged
Unstage(c) ==
  /\ at[c] = "stage" /\ op[c] = "unstage"
  /\ \/ /\ Root \in repo \ lock /\ Goes(c, "done") /\ todo' = [todo EXCEPT ![c] = {}]
        /\ staged' = [staged EXCEPT ![Root] = {s \in @ : s[1] \notin file[c]}]
        /\ touched' = [touched EXCEPT ![Root] = @ \union {s[1] : s \in {x \in staged[Root] : x[1] \in file[c]}}]
        /\ UNCHANGED <<lock, head>>
     \/ Refused(c)
  /\ RunsGit(c) /\ UNCHANGED <<repo, remote, sent, allow, checked>>

\* git diff --cached --quiet
Cached(c) ==
  /\ at[c] = "stage" /\ op[c] \in {"commit", "opcommit"} /\ todo[c] = {}
  /\ Goes(c, IF Root \in repo /\ staged[Root] = {} THEN "failed" ELSE "commit")
  /\ RunsGit(c) /\ UNCHANGED <<touched, gitVars>>

\* git commit takes the index as it is, whoever put it there.
GitCommit(c) ==
  /\ at[c] = "commit"
  /\ \/ /\ Root \in repo \ lock /\ staged[Root] # {}
        /\ Goes(c, "done") \/ Goes(c, "failed")     \* failed: killed in a hook after it
        /\ head' = [head EXCEPT ![Root] = @ \union {<<s[1], s[2], c>> : s \in staged[Root]}]
        /\ staged' = [staged EXCEPT ![Root] = {}]
        /\ UNCHANGED <<touched, lock, todo>>
     \/ Refused(c)
  /\ RunsGit(c) /\ UNCHANGED <<repo, remote, sent, allow, checked>>

-----------------------------------------------------------------------------
(* The repository and its remote: the operator's                           *)

Init1(c) ==
  /\ Begin(c, "init", {}) /\ FirstRoot(c, "init")
  /\ UNCHANGED <<scene, folderVars, fileVars, procVars, moved, gitVars>>
GitInit(c) ==
  /\ at[c] = "init"
  /\ repo' = repo \union {Root} /\ Goes(c, "done")
  /\ RunsGit(c) /\ UNCHANGED <<touched, lock, staged, head, remote, sent, todo, allow, checked>>

\* add_remote: only one that is not there; origin/wallE is refused.
AddRemote(c) ==
  /\ Begin(c, "remote", {}) /\ Here(c) /\ Goes(c, "done")
  /\ Root \in repo /\ remote[Root] = "none"
  /\ remote' = [remote EXCEPT ![Root] = "ours"]
  /\ UNCHANGED <<scene, folderVars, fileVars, procVars, moved, repo, lock, staged, head, sent, todo, allow, checked>>

Sync(c, o) ==
  /\ o \in {"push", "pull"} /\ Begin(c, o, {})
  /\ IF Root \in repo THEN FirstRoot(c, "remote") ELSE Goes(c, "failed") /\ Here(c)
  /\ UNCHANGED <<scene, folderVars, fileVars, procVars, moved, gitVars>>

\* Mutant: the name of the remote is not looked at.
AnyRemote(c) ==
  /\ at[c] = "remote"
  /\ Goes(c, IF remote[Root] # "none" THEN "sync" ELSE "failed")
  /\ checked' = [checked EXCEPT ![c] = Root]
  /\ RunsGit(c) /\ UNCHANGED <<touched, repo, lock, staged, head, remote, sent, todo, allow>>

\* _remotes and _remote_url: a remote there is, and not origin/wallE.
RemoteUrl(c) ==
  /\ at[c] = "remote"
  /\ Goes(c, IF remote[Root] = "ours" THEN "sync" ELSE "failed")
  /\ checked' = [checked EXCEPT ![c] = Root]
  /\ RunsGit(c) /\ UNCHANGED <<touched, repo, lock, staged, head, remote, sent, todo, allow>>

\* _git_auth: git push runs in the folder of this moment, with the remote's name
\* only.  It may be refused, or killed when the remote has taken it.
Push(c) ==
  /\ at[c] = "sync" /\ op[c] = "push"
  /\ \/ /\ remote[Root] # "none" /\ sent[Root] \subseteq head[Root]
        /\ sent' = [sent EXCEPT ![Root] = head[Root]]
        /\ Goes(c, "done") \/ Goes(c, "failed")
     \/ Goes(c, "failed") /\ UNCHANGED sent
  /\ RunsGit(c) /\ UNCHANGED <<touched, repo, lock, staged, head, remote, todo, allow, checked>>

\* git pull --ff-only
Pull(c) ==
  /\ at[c] = "sync" /\ op[c] = "pull"
  /\ \/ /\ Root \in repo \ lock /\ remote[Root] # "none" /\ head[Root] \subseteq sent[Root]
        /\ head' = [head EXCEPT ![Root] = sent[Root]]
        /\ Goes(c, "done") /\ UNCHANGED <<lock, touched, staged, todo>>
     \/ Refused(c)
  /\ RunsGit(c) /\ UNCHANGED <<repo, remote, sent, allow, checked>>

\* Somebody else pushes to the remote; somebody edits a file by hand.
Upstream(F) ==
  /\ (\E c \in Call : scene[c] = "pull") /\ remote[F] # "none"
  /\ \E f \in File : sent' = [sent EXCEPT ![F] = @ \union {<<f, None, None>>}]
  /\ UNCHANGED <<wsVars, repo, lock, staged, head, remote, todo, allow, checked>>
ByHand(F, f) ==
  /\ \E s \in staged[F] : s[1] = f         \* bound: after it was added
  /\ touched' = [touched EXCEPT ![F] = @ \union {f}]
  /\ UNCHANGED <<scene, folderVars, text, got, met, procVars, callVars, gitVars>>

GitNext ==
  \/ \E c \in Call :
       \/ \E fs \in SUBSET File, tick \in BOOLEAN : Commit(c, fs, tick)
       \/ \E fs \in SUBSET File, o \in {"opcommit", "stage", "unstage"} : Tab(c, o, fs)
       \/ AddOne(c) \/ AddAll(c) \/ Unstage(c) \/ Cached(c) \/ GitCommit(c)
       \/ Init1(c) \/ GitInit(c) \/ AddRemote(c)
       \/ \E o \in {"push", "pull"} : Sync(c, o)
       \/ RemoteUrl(c) \/ Push(c) \/ Pull(c)
  \/ \E F \in Folder : Upstream(F) \/ (\E f \in File : ByHand(F, f))

=============================================================================
