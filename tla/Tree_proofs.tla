---------------------------- MODULE Tree_proofs ----------------------------
(***************************************************************************)
(* Proofs about Tree for any number of calls, folders and files.           *)
(*                                                                         *)
(* Most steps are of a few kinds: one starts a call, moves it on, belongs  *)
(* to an open, to a process or to the world outside.  TreeInv says where a *)
(* call of each operation can be, and that one which no open has met is in *)
(* the folder it began in.  Beside it stand one invariant per promise:     *)
(* BashInv (what a command has left), ReturnInv (opens that have not met), *)
(* PushInv (what a push has looked at), TodoInv and CommitInv (who put     *)
(* what in an index), EditInv (what an edit has read), Types (what each    *)
(* variable is).  The kinds keep all of them but where a promise is about  *)
(* that kind, so that each proof is about a handful of actions.            *)
(***************************************************************************)
EXTENDS Tree, TLAPS

\* Where a call of each operation can be while it runs.
Stops(o) ==
  CASE o = "bash"                          -> {"settle", "spawn", "poll", "communicate", "communicate2"}
    [] o \in {"push", "pull"}              -> {"settle", "remote", "sync"}
    [] o \in {"commit", "opcommit"}        -> {"settle", "stage", "commit"}
    [] o \in {"stage", "unstage"}          -> {"settle", "stage"}
    [] o = "edit"                          -> {"settle", "read", "relof", "again", "check", "truncate",
                                               "fill", "rel"}
    [] o = "write"                         -> {"settle", "check", "truncate", "fill", "rel"}
    [] o = "open"                          -> {"load", "save", "replace"}
    [] o = "create"                        -> {"created", "load", "save", "replace"}
    [] o = "mkdir"                         -> {"settle", "mkdir", "rel"}
    [] o = "init"                          -> {"settle", "init"}
    [] o = "read"                          -> {"settle"}
    [] OTHER                               -> {}

PathInv == \A c \in Call : (at[c] = "idle" /\ op[c] = "none") \/ Over(c) \/ at[c] \in Stops(op[c])

Shape ==
  /\ at = [c \in Call |-> at[c]] /\ DOMAIN op = Call /\ DOMAIN where = Call /\ DOMAIN home = Call
  /\ DOMAIN file = Call /\ DOMAIN doc = Call
  /\ moved \in [Call -> BOOLEAN] /\ made \subseteq Folder
  /\ {live, store.current, tmp.current} \subseteq Folder \union {None}
  /\ \A c \in Call : {doc[c].current, where[c]} \subseteq Folder \union {None}

\* The folder of a call that opens one or has just found it is one; while one
\* is being opened the server has it.
OpenInv ==
  \A c \in Call :
    /\ Opening(c) \/ at[c] \in {"created", "settle"} => where[c] \in Folder
    /\ Opening(c) => live # None

\* A call that runs has seen the folder of its beginning or was moved.
HomeInv == \A c \in Call : InFlight(c) /\ op[c] # "open" => moved[c] \/ home[c] = Root

TreeInv == Shape /\ PathInv /\ OpenInv /\ HomeInv

-----------------------------------------------------------------------------
(* The kinds of steps                                                      *)

\* Call c begins operation o in the folder of this moment and goes to `to`.
Starts(c, o, to) ==
  /\ at[c] = "idle" /\ at' = [at EXCEPT ![c] = to]
  /\ op' = [op EXCEPT ![c] = o] /\ home' = [home EXCEPT ![c] = Root]
  /\ where' = [where EXCEPT ![c] = Root]
  /\ \E fs \in SUBSET File : /\ file' = [file EXCEPT ![c] = fs]
                             /\ o \in {"edit", "write"} => \E f \in File : fs = {f}
  /\ o \notin {"open", "create", "none"}
  /\ to \in {"done", "failed"} \union Stops(o)
  /\ o = "bash" => to \in {"settle", "spawn"}
  /\ o = "push" => to \in {"settle", "remote", "failed"}
  /\ o = "edit" => to \in {"settle", "read"}
  /\ to = "settle" => live = None /\ store.current = Root
  /\ UNCHANGED <<folderVars, fileVars, procVars, moved>>

\* Call c goes on to `to` in the operation it makes.
Moves(c, to) ==
  /\ InFlight(c) /\ ~Opening(c) /\ at[c] \notin {"created", "settle"}
  /\ at' = [at EXCEPT ![c] = to]
  /\ to \in {"done", "failed"} \union Stops(op[c])
  /\ to \notin {"settle", "created", "load", "save", "replace"}
  /\ where' \in {where, [where EXCEPT ![c] = Root]}
  /\ made \subseteq made' /\ made' \subseteq Folder
  /\ UNCHANGED <<live, store, tmp, doc, opened, raced, op, home, file, moved>>

\* The steps by what they are about; Begins are those a call makes first.
FileBegins(c) == Look(c) \/ MkdirHere(c) \/ Bash(c) \/ \E f \in File : Write(c, f) \/ Edit(c, f)
GitBegins(c) == \/ \E fs \in SUBSET File, tick \in BOOLEAN : Commit(c, fs, tick)
                \/ \E fs \in SUBSET File, o \in {"opcommit", "stage", "unstage"} : Tab(c, o, fs)
                \/ Init1(c) \/ AddRemote(c) \/ \E o \in {"push", "pull"} : Sync(c, o)
FileMove(c) == Mkdir(c) \/ Read(c) \/ RelOf(c) \/ Again(c) \/ Check(c) \/ Truncate(c) \/ Fill(c) \/ Report(c)
BashMove(c) == Spawn(c) \/ Poll(c) \/ Communicate(c) \/ Communicate2(c)
GitMove(c) == \/ AddOne(c) \/ AddAll(c) \/ Unstage(c) \/ Cached(c) \/ GitCommit(c) \/ GitInit(c)
              \/ RemoteUrl(c) \/ Push(c) \/ Pull(c)
OpenMove(c) == \/ Settle(c) \/ Created(c) \/ Load(c) \/ Save(c) \/ Replaced(c)
               \/ \E F \in Folder : Open(c, F) \/ Create(c, F)
Lives(c) == (\E k \in {"piped", "quiet", "away"} : Fork(c, k)) \/ \E k \in procs[c] : Exit(c, k)
Outside(F) == Upstream(F) \/ \E f \in File : ByHand(F, f)

LEMMA RootIsFolder == ASSUME Shape PROVE Root \in Folder
BY WorkspaceAssumption DEF Shape, Root

\* A call that asks root() before anything else starts.
LEMMA StartsFirst ==
  ASSUME Shape, NEW c \in Call, NEW o, NEW to, NEW fs \in SUBSET File,
         Begin(c, o, fs), FirstRoot(c, to),
         o \notin {"open", "create", "none"},
         "settle" \in Stops(o), to \in {"done"} \union Stops(o), to # "settle",
         o = "bash" => to = "spawn", o = "push" => to = "remote", o = "edit" => to = "read",
         o \in {"edit", "write"} => \E f \in File : fs = {f},
         UNCHANGED <<folderVars, fileVars, procVars, moved>>
  PROVE  \E x : Starts(c, o, x)
<1>1. CASE live = None /\ store.current # None
  <2>1. Starts(c, o, "settle")
    BY <1>1 DEF Starts, Begin, FirstRoot, Goes, Root
  <2> QED  BY <2>1
<1>2. CASE ~(live = None /\ store.current # None)
  <2>1. Starts(c, o, to)
    BY <1>2 DEF Starts, Begin, FirstRoot, Goes
  <2> QED  BY <2>1
<1> QED  BY <1>1, <1>2

\* What a beginning does to the repositories.
StartsGit(c, o, to) ==
  /\ remote' = remote \/ (Root \in repo /\ remote[Root] = "none" /\ remote' = [remote EXCEPT ![Root] = "ours"])
  /\ (\E tick \in BOOLEAN : /\ allow' = [allow EXCEPT ![c] = tick] /\ o = "commit"
                            /\ to # "failed" => tick)
     \/ (allow' = allow /\ o # "commit")
  /\ todo' = todo \/ todo' = [todo EXCEPT ![c] = file'[c]]
  /\ UNCHANGED <<repo, lock, staged, head, sent, checked>>

\* A call that makes no other variable's step begins or fails at once.
LEMMA StartsFails ==
  ASSUME Shape, NEW c \in Call, NEW o, NEW fs \in SUBSET File,
         Begin(c, o, fs), Goes(c, "failed"), Here(c),
         o \in {"commit", "opcommit", "stage", "unstage", "push", "pull"},
         UNCHANGED <<folderVars, fileVars, procVars, moved>>
  PROVE  Starts(c, o, "failed")
BY DEF Starts, Begin, Goes, Here

LEMMA FileStarts ==
  ASSUME TreeInv, NEW c \in Call, FileBegins(c), UNCHANGED gitVars
  PROVE  \E o, to : Starts(c, o, to) /\ StartsGit(c, o, to)
<1> Shape  BY DEF TreeInv
<1>0. \A o, to : o # "commit" => StartsGit(c, o, to)
  BY DEF StartsGit, gitVars
<1>1. CASE Look(c)
  <2>1. PICK x : Starts(c, "read", x)
    BY <1>1, StartsFirst DEF Look, Stops
  <2> QED  BY <2>1, <1>0
<1>2. CASE MkdirHere(c)
  <2>1. PICK x : Starts(c, "mkdir", x)
    BY <1>2, StartsFirst DEF MkdirHere, Stops
  <2> QED  BY <2>1, <1>0
<1>3. CASE Bash(c)
  <2>1. PICK x : Starts(c, "bash", x)
    BY <1>3, StartsFirst DEF Bash, Stops
  <2> QED  BY <2>1, <1>0
<1>4. ASSUME NEW f \in File, Write(c, f) PROVE \E o, to : Starts(c, o, to) /\ StartsGit(c, o, to)
  <2>1. PICK x : Starts(c, "write", x)
    BY <1>4, StartsFirst DEF Write, Stops
  <2> QED  BY <2>1, <1>0
<1>5. ASSUME NEW f \in File, Edit(c, f) PROVE \E o, to : Starts(c, o, to) /\ StartsGit(c, o, to)
  <2>1. PICK x : Starts(c, "edit", x)
    BY <1>5, StartsFirst DEF Edit, Stops
  <2> QED  BY <2>1, <1>0
<1> QED  BY <1>1, <1>2, <1>3, <1>4, <1>5 DEF FileBegins

LEMMA GitStarts ==
  ASSUME TreeInv, NEW c \in Call, GitBegins(c)
  PROVE  \E o, to : Starts(c, o, to) /\ StartsGit(c, o, to)
<1> Shape  BY DEF TreeInv
<1>f. ASSUME NEW o, NEW fs, Begin(c, o, fs) PROVE file'[c] = fs
  BY <1>f DEF Begin, Shape
<1>1. ASSUME NEW fs \in SUBSET File, NEW tick \in BOOLEAN, Commit(c, fs, tick)
      PROVE  \E o, to : Starts(c, o, to) /\ StartsGit(c, o, to)
  <2>1. CASE tick /\ Root \in repo
    <3>1. PICK x : Starts(c, "commit", x)
      BY <1>1, <2>1, StartsFirst DEF Commit, Stops
    <3>2. StartsGit(c, "commit", x)
      BY <1>1, <1>f, <2>1 DEF Commit, StartsGit
    <3> QED  BY <3>1, <3>2
  <2>2. CASE ~(tick /\ Root \in repo)
    <3>1. Starts(c, "commit", "failed")
      BY <1>1, <2>2, StartsFails DEF Commit
    <3>2. StartsGit(c, "commit", "failed")
      BY <1>1, <1>f DEF Commit, StartsGit
    <3> QED  BY <3>1, <3>2
  <2> QED  BY <2>1, <2>2
<1>2. ASSUME NEW fs \in SUBSET File, NEW o \in {"opcommit", "stage", "unstage"}, Tab(c, o, fs)
      PROVE  \E o1, to : Starts(c, o1, to) /\ StartsGit(c, o1, to)
  <2>0. \A to : StartsGit(c, o, to)
    BY <1>2, <1>f DEF Tab, StartsGit
  <2>1. CASE Root \in repo
    <3>1. PICK x : Starts(c, o, x)
      BY <1>2, <2>1, StartsFirst DEF Tab, Stops
    <3> QED  BY <3>1, <2>0
  <2>2. CASE Root \notin repo
    <3>1. Starts(c, o, "failed")
      BY <1>2, <2>2, StartsFails DEF Tab
    <3> QED  BY <3>1, <2>0
  <2> QED  BY <2>1, <2>2
<1>3. CASE Init1(c)
  <2>1. PICK x : Starts(c, "init", x)
    BY <1>3, StartsFirst DEF Init1, Stops
  <2>2. StartsGit(c, "init", x)
    BY <1>3 DEF Init1, StartsGit, gitVars
  <2> QED  BY <2>1, <2>2
<1>4. CASE AddRemote(c)
  <2>0. \E fs \in SUBSET File : file' = [file EXCEPT ![c] = fs]
    BY <1>4 DEF AddRemote, Begin
  <2>1. Starts(c, "remote", "done")
    BY <1>4, <2>0 DEF AddRemote, Starts, Begin, Goes, Here
  <2>2. StartsGit(c, "remote", "done")
    BY <1>4 DEF AddRemote, StartsGit
  <2> QED  BY <2>1, <2>2
<1>5. ASSUME NEW o \in {"push", "pull"}, Sync(c, o)
      PROVE  \E o1, to : Starts(c, o1, to) /\ StartsGit(c, o1, to)
  <2>0. \A to : StartsGit(c, o, to)
    BY <1>5 DEF Sync, StartsGit, gitVars
  <2>1. CASE Root \in repo
    <3>1. PICK x : Starts(c, o, x)
      BY <1>5, <2>1, StartsFirst DEF Sync, Stops
    <3> QED  BY <3>1, <2>0
  <2>2. CASE Root \notin repo
    <3>1. Starts(c, o, "failed")
      BY <1>5, <2>2, StartsFails DEF Sync
    <3> QED  BY <3>1, <2>0
  <2> QED  BY <2>1, <2>2
<1> QED  BY <1>1, <1>2, <1>3, <1>4, <1>5 DEF GitBegins

LEMMA FileMoves ==
  ASSUME TreeInv, NEW c \in Call, FileMove(c)
  PROVE  \E to : Moves(c, to) /\ op[c] \in {"mkdir", "edit", "write"} /\ UNCHANGED procVars
<1> USE DEF TreeInv, Shape, Goes, InFlight, Over, Opening, folderVars, fileVars
<1>0. at[c] \in Stops(op[c]) \/ at[c] \in {"idle", "done", "failed", "lost"}
  BY DEF PathInv
<1>1. CASE Mkdir(c)
  <2>1. op[c] = "mkdir"
    BY <1>0, <1>1 DEF Mkdir, Stops
  <2>2. made' \subseteq Folder
    BY <1>1 DEF Mkdir
  <2>3. Moves(c, "rel") \/ Moves(c, "failed")
    BY <1>1, <2>1, <2>2 DEF Mkdir, Moves, Stops
  <2> QED  BY <1>1, <2>1, <2>3 DEF Mkdir
<1>2. CASE Read(c)
  <2>1. op[c] = "edit"
    BY <1>0, <1>2 DEF Read, Stops
  <2>3. Moves(c, "relof") \/ Moves(c, "failed")
    BY <1>2, <2>1 DEF Read, Moves, Stops
  <2> QED  BY <1>2, <2>1, <2>3 DEF Read
<1>3. CASE RelOf(c)
  <2>1. op[c] = "edit"
    BY <1>0, <1>3 DEF RelOf, Stops
  <2>3. Moves(c, "again") \/ Moves(c, "failed")
    BY <1>3, <2>1 DEF RelOf, Moves, Stops
  <2> QED  BY <1>3, <2>1, <2>3 DEF RelOf
<1>4. CASE Again(c)
  <2>1. op[c] = "edit"
    BY <1>0, <1>4 DEF Again, Stops
  <2>3. Moves(c, "check")
    BY <1>4, <2>1 DEF Again, Moves, Stops
  <2> QED  BY <1>4, <2>1, <2>3 DEF Again
<1>5. CASE Check(c)
  <2>1. op[c] \in {"edit", "write"}
    BY <1>0, <1>5 DEF Check, Stops
  <2>3. Moves(c, "truncate") \/ Moves(c, "failed")
    BY <1>5, <2>1 DEF Check, Moves, Stops
  <2> QED  BY <1>5, <2>1, <2>3 DEF Check
<1>6. CASE Truncate(c)
  <2>1. op[c] \in {"edit", "write"}
    BY <1>0, <1>6 DEF Truncate, Stops
  <2>3. Moves(c, "fill")
    BY <1>6, <2>1 DEF Truncate, Moves, Stops
  <2> QED  BY <1>6, <2>1, <2>3 DEF Truncate
<1>7. CASE Fill(c)
  <2>1. op[c] \in {"edit", "write"}
    BY <1>0, <1>7 DEF Fill, Stops
  <2>3. Moves(c, "rel")
    BY <1>7, <2>1 DEF Fill, Moves, Stops
  <2> QED  BY <1>7, <2>1, <2>3 DEF Fill
<1>8. CASE Report(c)
  <2>1. op[c] \in {"edit", "write", "mkdir"}
    BY <1>0, <1>8 DEF Report, Stops
  <2>3. Moves(c, "done") \/ Moves(c, "failed")
    BY <1>8 DEF Report, Moves
  <2> QED  BY <1>8, <2>1, <2>3 DEF Report
<1> QED  BY <1>1, <1>2, <1>3, <1>4, <1>5, <1>6, <1>7, <1>8 DEF FileMove

LEMMA BashMoves ==
  ASSUME TreeInv, NEW c \in Call, BashMove(c)
  PROVE  \E to : Moves(c, to) /\ op[c] = "bash" /\ UNCHANGED fileVars
<1> USE DEF BashMove, TreeInv, Shape, Goes, InFlight, Over, Opening, folderVars, fileVars
<1>0. at[c] \in Stops(op[c]) \/ at[c] \in {"idle", "done", "failed", "lost"}
  BY DEF PathInv
<1>1. op[c] = "bash"
  BY <1>0 DEF Spawn, Poll, Communicate, Communicate2, Stops
<1>2. ASSUME NEW to \in {"done", "failed", "poll", "communicate", "communicate2"},
             at' = [at EXCEPT ![c] = to], at[c] \in {"spawn", "poll", "communicate", "communicate2"},
             UNCHANGED <<folderVars, op, where, home, file, moved>>
      PROVE  Moves(c, to)
  BY <1>1, <1>2 DEF Moves, Stops
<1>3. CASE Spawn(c)
  BY <1>1, <1>2, <1>3 DEF Spawn
<1>4. CASE Poll(c)
  BY <1>1, <1>2, <1>4 DEF Poll
<1>5. CASE Communicate(c)
  BY <1>1, <1>2, <1>5 DEF Communicate
<1>6. CASE Communicate2(c)
  BY <1>1, <1>2, <1>6 DEF Communicate2
<1> QED  BY <1>3, <1>4, <1>5, <1>6

LEMMA GitMoves ==
  ASSUME TreeInv, NEW c \in Call, GitMove(c)
  PROVE  \E to : /\ Moves(c, to) /\ UNCHANGED <<text, got, met, procVars>>
                 /\ op[c] \notin {"bash", "edit", "write"}
                 /\ op[c] = "push" => RemoteUrl(c) \/ Push(c)
<1> USE DEF TreeInv, Shape, Goes, InFlight, Over, Opening, folderVars, fileVars
<1>0. at[c] \in Stops(op[c]) \/ at[c] \in {"idle", "done", "failed", "lost"}
  BY DEF PathInv
<1>1. ASSUME NEW to, at' = [at EXCEPT ![c] = to], to \in {"done", "failed"} \union Stops(op[c]),
             to \notin {"settle", "created", "load", "save", "replace"},
             at[c] \in {"stage", "commit", "init", "remote", "sync"}, RunsGit(c)
      PROVE  Moves(c, to)
  BY <1>1 DEF Moves, RunsGit, Here
<1>2. CASE at[c] = "stage"
  <2>1. op[c] \in {"commit", "opcommit", "stage", "unstage"}
    BY <1>0, <1>2 DEF Stops
  <2>2. CASE at' = at /\ RunsGit(c)
    <3>1. at' = [at EXCEPT ![c] = "stage"]
      BY <1>2, <2>2
    <3>2. Moves(c, "stage")
      BY <1>1, <1>2, <2>1, <2>2, <3>1 DEF Stops
    <3> QED  BY <2>1, <2>2, <3>2 DEF RunsGit
  <2>3. CASE \E to \in {"done", "failed"} : Goes(c, to) /\ RunsGit(c)
    <3>1. PICK to \in {"done", "failed"} : Moves(c, to)
      BY <1>1, <1>2, <2>3
    <3> QED  BY <2>1, <2>3, <3>1 DEF RunsGit
  <2>4. CASE Cached(c)
    <3>1. op[c] \in {"commit", "opcommit"} /\ RunsGit(c)
      BY <2>4 DEF Cached
    <3>2. Goes(c, "failed") \/ Goes(c, "commit")
      BY <2>4 DEF Cached
    <3>3. Moves(c, "failed") \/ Moves(c, "commit")
      BY <1>1, <1>2, <3>1, <3>2 DEF Stops
    <3> QED  BY <3>1, <3>3 DEF RunsGit
  <2> QED  BY <1>2, <2>2, <2>3, <2>4
           DEF GitMove, AddOne, AddAll, Unstage, GitCommit, GitInit, RemoteUrl, Push, Pull, Refused
<1>3. CASE at[c] = "commit"
  <2>1. op[c] \in {"commit", "opcommit"}
    BY <1>0, <1>3 DEF Stops
  <2>2. RunsGit(c) /\ (Goes(c, "done") \/ Goes(c, "failed"))
    BY <1>3 DEF GitMove, AddOne, AddAll, Unstage, Cached, GitCommit, GitInit, RemoteUrl, Push, Pull, Refused
  <2>3. Moves(c, "done") \/ Moves(c, "failed")
    BY <1>1, <1>3, <2>2
  <2> QED  BY <2>1, <2>2, <2>3 DEF RunsGit
<1>4. CASE at[c] = "init"
  <2>1. op[c] = "init"
    BY <1>0, <1>4 DEF Stops
  <2>2. RunsGit(c) /\ Goes(c, "done")
    BY <1>4 DEF GitMove, AddOne, AddAll, Unstage, Cached, GitCommit, GitInit, RemoteUrl, Push, Pull
  <2>3. Moves(c, "done")
    BY <1>1, <1>4, <2>2
  <2> QED  BY <2>1, <2>2, <2>3 DEF RunsGit
<1>5. CASE at[c] = "remote"
  <2>1. op[c] \in {"push", "pull"}
    BY <1>0, <1>5 DEF Stops
  <2>2. RemoteUrl(c) /\ RunsGit(c) /\ (Goes(c, "sync") \/ Goes(c, "failed"))
    BY <1>5 DEF GitMove, AddOne, AddAll, Unstage, Cached, GitCommit, GitInit, RemoteUrl, Push, Pull
  <2>3. Moves(c, "sync") \/ Moves(c, "failed")
    BY <1>1, <1>5, <2>1, <2>2 DEF Stops
  <2> QED  BY <2>1, <2>2, <2>3 DEF RunsGit
<1>6. CASE at[c] = "sync"
  <2>1. op[c] \in {"push", "pull"}
    BY <1>0, <1>6 DEF Stops
  <2>2. RunsGit(c) /\ (Goes(c, "done") \/ Goes(c, "failed")) /\ (op[c] = "push" => Push(c))
    BY <1>6 DEF GitMove, AddOne, AddAll, Unstage, Cached, GitCommit, GitInit, RemoteUrl, Push, Pull, Refused
  <2>3. Moves(c, "done") \/ Moves(c, "failed")
    BY <1>1, <1>6, <2>2
  <2> QED  BY <2>1, <2>2, <2>3 DEF RunsGit
<1> QED
  BY <1>2, <1>3, <1>4, <1>5, <1>6
     DEF GitMove, AddOne, AddAll, Unstage, Cached, GitCommit, GitInit, RemoteUrl, Push, Pull

LEMMA NextKinds ==
  ASSUME TreeInv, Next
  PROVE  \/ \E c \in Call : \E o, to : Starts(c, o, to) /\ StartsGit(c, o, to)
         \/ \E c \in Call : (FileMove(c) \/ BashMove(c) \/ OpenMove(c) \/ Lives(c)) /\ UNCHANGED gitVars
         \/ \E c \in Call : GitMove(c)
         \/ Restart /\ UNCHANGED gitVars
         \/ \E F \in Folder : Outside(F)
<1>1. CASE WorkspaceNext /\ UNCHANGED gitVars
  <2>1. \/ \E c \in Call : FileBegins(c) \/ FileMove(c) \/ BashMove(c) \/ OpenMove(c) \/ Lives(c)
        \/ Restart
    BY <1>1 DEF WorkspaceNext, FileBegins, FileMove, BashMove, OpenMove, Lives
  <2> QED  BY <1>1, <2>1, FileStarts
<1>2. CASE GitNext
  <2>1. (\E c \in Call : GitBegins(c) \/ GitMove(c)) \/ \E F \in Folder : Outside(F)
    BY <1>2 DEF GitNext, GitBegins, GitMove, Outside
  <2> QED  BY <2>1, GitStarts
<1> QED  BY <1>1, <1>2 DEF Next

-----------------------------------------------------------------------------
(* Where the calls are                                                     *)

LEMMA StartsKeep ==
  ASSUME TreeInv, NEW c \in Call, NEW o, NEW to, Starts(c, o, to) PROVE TreeInv'
<1> USE DEF TreeInv, Shape, Starts, folderVars, InFlight, Over, Opening
<1>0. Root \in Folder /\ Root' = Root
  BY RootIsFolder DEF Root
<1>1. Shape'
  BY <1>0
<1>2. PathInv'
  BY DEF PathInv
<1>3. OpenInv'
  <2>1. to \notin {"created", "load", "save", "replace"}
    BY DEF Stops
  <2> QED  BY <1>0, <2>1 DEF OpenInv
<1>4. HomeInv'
  BY <1>0 DEF HomeInv
<1> QED  BY <1>1, <1>2, <1>3, <1>4

LEMMA MovesKeep ==
  ASSUME TreeInv, NEW c \in Call, NEW to, Moves(c, to) PROVE TreeInv'
<1> USE DEF TreeInv, Shape, Moves, InFlight, Over, Opening
<1>0. Root \in Folder /\ Root' = Root
  BY RootIsFolder DEF Root
<1>1. Shape'
  BY <1>0
<1>2. PathInv'
  BY DEF PathInv
<1>3. OpenInv'
  BY <1>0 DEF OpenInv
<1>4. HomeInv'
  BY <1>0 DEF HomeInv
<1> QED  BY <1>1, <1>2, <1>3, <1>4

LEMMA EnterKeeps ==
  ASSUME TreeInv, NEW c \in Call, NEW F \in Folder, Enter(c, F),
         \/ at[c] = "created" /\ op[c] = "create" /\ UNCHANGED <<op, home, file>>
         \/ \E fs : Begin(c, "open", fs),
         UNCHANGED <<made, store, tmp, doc>>
  PROVE  TreeInv'
<1> USE DEF TreeInv, Shape, Enter, Begin, Goes, InFlight, Over, Opening
<1>0. F # None
  BY WorkspaceAssumption
<1>1. Shape'
  BY DEF Notice
<1>2. PathInv'
  BY DEF PathInv, Stops
<1>3. OpenInv'
  BY <1>0 DEF OpenInv
<1>4. HomeInv'
  <2> SUFFICES ASSUME NEW d \in Call, InFlight(d)', op'[d] # "open" PROVE moved'[d] \/ home'[d] = Root'
    BY DEF HomeInv
  <2>1. home'[d] = home[d] /\ InFlight(d) /\ op[d] # "open"
    OBVIOUS
  <2>2. moved[d] \/ home[d] = Root
    BY <2>1 DEF HomeInv
  <2> QED  BY <2>1, <2>2 DEF Notice
<1> QED  BY <1>1, <1>2, <1>3, <1>4

LEMMA OpeningKeeps ==
  ASSUME TreeInv, NEW c \in Call, OpenMove(c) PROVE TreeInv'
<1> USE DEF TreeInv, Shape, Goes, InFlight, Over, Opening
<1>0. Root \in Folder
  BY RootIsFolder
<1>a. at[c] \in Stops(op[c]) \/ at[c] \in {"idle", "done", "failed", "lost"}
  BY DEF PathInv
<1>1. CASE Settle(c)
  <2> USE <1>1 DEF Settle
  <2>1. where[c] \in Folder /\ where[c] # None
    BY WorkspaceAssumption DEF OpenInv
  <2>2. Shape'
    BY <2>1 DEF Notice
  <2>3. op[c] \in DOMAIN AfterRoot /\ AfterRoot[op[c]] \in {"done"} \union Stops(op[c])
    BY <1>a DEF Stops, AfterRoot
  <2>4. AfterRoot[op[c]] \notin {"idle", "created", "load", "save", "replace", "settle"}
    BY <2>3 DEF AfterRoot
  <2>5. PathInv'
    BY <2>3 DEF PathInv
  <2>6. OpenInv'
    BY <2>1, <2>4 DEF OpenInv
  <2>7. HomeInv'
    BY DEF HomeInv, Notice
  <2> QED  BY <2>2, <2>5, <2>6, <2>7
<1>2. CASE Created(c)
  <2>1. where[c] \in Folder
    BY <1>2 DEF Created, OpenInv
  <2>2. op[c] = "create"
    BY <1>2, <1>a DEF Created, Stops
  <2>3. Enter(c, where[c]) /\ at[c] = "created" /\ UNCHANGED <<op, home, file>>
    BY <1>2 DEF Created
  <2>4. UNCHANGED <<made, store, tmp, doc>>
    BY <1>2 DEF Created
  <2> HIDE DEF TreeInv, Shape, Goes, InFlight, Over, Opening
  <2> QED  BY <2>1, <2>2, <2>3, <2>4, EnterKeeps
<1>3. CASE Load(c)
  <2> USE <1>3 DEF Load
  <2>1. doc'[c].current = where[c]
    OBVIOUS
  <2>2. Shape'
    BY <2>1
  <2>3. op[c] \in {"open", "create"}
    BY <1>a DEF Stops
  <2>4. PathInv'
    BY <2>3 DEF PathInv, Stops
  <2>5. OpenInv'
    BY DEF OpenInv
  <2>6. HomeInv'
    BY DEF HomeInv, Root
  <2> QED  BY <2>2, <2>4, <2>5, <2>6
<1>4. CASE Save(c)
  <2> USE <1>4 DEF Save
  <2>2. Shape'
    OBVIOUS
  <2>3. op[c] \in {"open", "create"}
    BY <1>a DEF Stops
  <2>4. PathInv'
    BY <2>3 DEF PathInv, Stops
  <2>5. OpenInv'
    BY DEF OpenInv
  <2>6. HomeInv'
    BY DEF HomeInv, Root
  <2> QED  BY <2>2, <2>4, <2>5, <2>6
<1>5. CASE Replaced(c)
  <2> USE <1>5 DEF Replaced
  <2>1. Shape'
    BY DEF NoStore
  <2>2. at' = [at EXCEPT ![c] = "failed"] \/ at' = [at EXCEPT ![c] = "done"]
    OBVIOUS
  <2>4. PathInv'
    BY <2>2 DEF PathInv
  <2>5. OpenInv'
    BY <2>2 DEF OpenInv
  <2>6. live # None /\ live' = live
    BY DEF OpenInv
  <2>7. HomeInv'
    BY <2>2, <2>6 DEF HomeInv, Root
  <2> QED  BY <2>1, <2>4, <2>5, <2>7
<1>6. ASSUME NEW F \in Folder, Open(c, F) PROVE TreeInv'
  BY <1>6, EnterKeeps DEF Open
<1>7. ASSUME NEW F \in Folder, Create(c, F) PROVE TreeInv'
  <2> USE <1>7 DEF Create, Begin
  <2>0. /\ at' = [d \in Call |-> at'[d]] /\ DOMAIN op' = Call /\ DOMAIN where' = Call
        /\ DOMAIN home' = Call /\ DOMAIN file' = Call
    OBVIOUS
  <2>1. Shape'
    BY <2>0
  <2>2. PathInv'
    BY DEF PathInv, Stops
  <2>3. OpenInv'
    BY DEF OpenInv
  <2>4. HomeInv'
    BY DEF HomeInv, Root
  <2> QED  BY <2>1, <2>2, <2>3, <2>4
<1> QED  BY <1>1, <1>2, <1>3, <1>4, <1>5, <1>6, <1>7 DEF OpenMove

LEMMA RestartKeeps == ASSUME TreeInv, Restart PROVE TreeInv'
<1> USE DEF TreeInv, Shape, Restart, InFlight, Over, Opening
<1>1. Shape'
  BY DEF NoStore
<1>2. PathInv'
  BY DEF PathInv
<1>3. OpenInv'
  BY DEF OpenInv
<1>4. HomeInv'
  BY DEF HomeInv
<1> QED  BY <1>1, <1>2, <1>3, <1>4

LEMMA RestsKeep == ASSUME TreeInv, UNCHANGED <<folderVars, callVars>> PROVE TreeInv'
<1> USE DEF folderVars, callVars, TreeInv, InFlight, Over, Opening
<1>1. Shape'
  BY DEF Shape
<1>2. PathInv' /\ OpenInv'
  BY DEF PathInv, OpenInv
<1>3. HomeInv'
  BY DEF HomeInv, Root
<1> QED  BY <1>1, <1>2, <1>3

LEMMA TreeInvHolds == Spec => []TreeInv
<1>1. Init => TreeInv
  <2> SUFFICES ASSUME Init PROVE TreeInv  OBVIOUS
  <2> USE WorkspaceAssumption DEF Init, WorkspaceInit, NoStore, InFlight, Over, Opening
  <2>1. store.current \in Folder \union {None}
    OBVIOUS
  <2>2. Shape
    BY <2>1 DEF Shape
  <2>3. PathInv /\ OpenInv /\ HomeInv
    BY DEF PathInv, OpenInv, HomeInv
  <2> QED  BY <2>2, <2>3 DEF TreeInv
<1>2. TreeInv /\ [Next]_<<wsVars, gitVars>> => TreeInv'
  <2> SUFFICES ASSUME TreeInv, [Next]_<<wsVars, gitVars>> PROVE TreeInv'  OBVIOUS
  <2>1. CASE UNCHANGED <<wsVars, gitVars>>
    BY <2>1, RestsKeep DEF wsVars
  <2>2. ASSUME NEW c \in Call, Lives(c) PROVE TreeInv'
    BY <2>2, RestsKeep DEF Lives, Fork, Exit
  <2>3. ASSUME NEW F \in Folder, Outside(F) PROVE TreeInv'
    BY <2>3, RestsKeep DEF Outside, Upstream, ByHand, wsVars
  <2>4. ASSUME NEW c \in Call, FileMove(c) \/ BashMove(c) \/ GitMove(c) PROVE TreeInv'
    BY <2>4, FileMoves, BashMoves, GitMoves, MovesKeep
  <2>5. CASE Next
    BY <2>5, <2>2, <2>3, <2>4, NextKinds, StartsKeep, OpeningKeeps, RestartKeeps
  <2> QED  BY <2>1, <2>5
<1> QED  BY <1>1, <1>2, PTL DEF Spec

-----------------------------------------------------------------------------
(* What repo_bash leaves                                                   *)

\* Before its spawn a call has no process, and one it has signalled has only those
\* that left the group; communicate runs when the leader has ended, a second time
\* when the group was signalled.
BashInv ==
  /\ DOMAIN procs = Call /\ DOMAIN killed = Call
  /\ \A c \in Call :
       /\ procs[c] \subseteq {"leader", "piped", "quiet", "away"}
       /\ at[c] \in {"idle", "settle", "spawn"} \/ op[c] # "bash" => procs[c] = {} /\ ~killed[c]
       /\ killed[c] => procs[c] \subseteq {"away"}
       /\ at[c] = "communicate" => "leader" \notin procs[c]
       /\ op[c] = "bash" /\ at[c] = "communicate2" => killed[c]
       /\ op[c] = "bash" /\ at[c] \in {"done", "failed"} =>
            procs[c] \intersect {"leader", "piped"} = {}
       /\ op[c] = "bash" /\ at[c] = "done" => "away" \notin procs[c]

LEMMA BashMovesKeep ==
  ASSUME TreeInv, BashInv, NEW c \in Call, BashMove(c) PROVE BashInv'
<1> USE DEF BashMove, BashInv, Goes, PipesClosed, KillGroup, procVars
<1>0. op' = op /\ op[c] = "bash" /\ DOMAIN at = Call
  BY BashMoves DEF Moves, TreeInv, Shape
<1>1. CASE Spawn(c)
  BY <1>0, <1>1 DEF Spawn
<1>2. CASE Poll(c)
  BY <1>0, <1>2 DEF Poll
<1>3. CASE Communicate(c)
  BY <1>0, <1>3 DEF Communicate
<1>4. CASE Communicate2(c)
  BY <1>0, <1>4 DEF Communicate2
<1> QED  BY <1>1, <1>2, <1>3, <1>4

LEMMA ChildrenKeep ==
  ASSUME TreeInv, BashInv, NEW c \in Call, Lives(c) PROVE BashInv'
<1> USE DEF BashInv, callVars
<1>1. ASSUME NEW k \in {"piped", "quiet", "away"}, Fork(c, k) PROVE BashInv'
  BY <1>1 DEF Fork
<1>2. ASSUME NEW k \in procs[c], Exit(c, k) PROVE BashInv'
  BY <1>2 DEF Exit
<1> QED  BY <1>1, <1>2 DEF Lives

\* Every other step leaves the processes alone: a call that has none moves, or a
\* restart ends them.
LEMMA OthersKeepBash ==
  ASSUME BashInv, UNCHANGED procVars,
         \A d \in Call : \/ at'[d] \in {at[d], "lost"} /\ op'[d] = op[d]
                         \/ /\ at[d] \in {"idle", "settle"} \/ op[d] # "bash"
                            /\ at'[d] \in {"settle", "spawn"} \/ op'[d] # "bash"
  PROVE  BashInv'
BY DEF BashInv, procVars

LEMMA BashInvHolds == Spec => []BashInv
<1>1. Init => BashInv
  BY DEF Init, WorkspaceInit, BashInv
<1>2. TreeInv /\ BashInv /\ [Next]_<<wsVars, gitVars>> => BashInv'
  <2> SUFFICES ASSUME TreeInv, BashInv, [Next]_<<wsVars, gitVars>> PROVE BashInv'  OBVIOUS
  <2>0. DOMAIN at = Call /\ DOMAIN op = Call
    BY DEF TreeInv, Shape
  <2>1. ASSUME UNCHANGED <<procVars, at, op>> PROVE BashInv'
    BY <2>1, OthersKeepBash
  <2>2. CASE UNCHANGED <<wsVars, gitVars>>
    BY <2>1, <2>2 DEF wsVars, callVars
  <2>3. ASSUME NEW c \in Call, NEW o, NEW to, Starts(c, o, to) PROVE BashInv'
    BY <2>0, <2>3, OthersKeepBash DEF Starts
  <2>4. ASSUME NEW c \in Call, NEW to, Moves(c, to), op[c] # "bash", UNCHANGED procVars PROVE BashInv'
    BY <2>0, <2>4, OthersKeepBash DEF Moves
  <2>5. ASSUME NEW c \in Call, OpenMove(c) PROVE BashInv'
    <3> USE DEF Goes, Enter, Begin
    <3>0. at[c] \in Stops(op[c]) \/ at[c] \in {"idle", "done", "failed", "lost"}
      BY DEF TreeInv, PathInv, Over
    <3>1. CASE Settle(c)
      <4>1. op[c] = "bash" => AfterRoot[op[c]] = "spawn"
        BY DEF AfterRoot
      <4> QED  BY <2>0, <3>1, <4>1, OthersKeepBash DEF Settle
    <3>2. CASE Created(c) \/ Load(c) \/ Save(c) \/ Replaced(c)
      <4>1. op[c] # "bash" /\ op' = op /\ UNCHANGED procVars
        BY <3>0, <3>2 DEF Created, Load, Save, Replaced, Stops
      <4>2. \A d \in Call \ {c} : at'[d] = at[d]
        BY <2>0, <3>2 DEF Created, Load, Save, Replaced
      <4> QED  BY <4>1, <4>2, OthersKeepBash
    <3>3. ASSUME NEW F \in Folder, Open(c, F) \/ Create(c, F) PROVE BashInv'
      <4>1. at[c] = "idle" /\ op'[c] # "bash" /\ UNCHANGED procVars
        BY <2>0, <3>3 DEF Open, Create
      <4>2. \A d \in Call \ {c} : at'[d] = at[d] /\ op'[d] = op[d]
        BY <2>0, <3>3 DEF Open, Create
      <4> QED  BY <4>1, <4>2, OthersKeepBash
    <3> QED  BY <2>5, <3>1, <3>2, <3>3 DEF OpenMove
  <2>6. CASE Restart
    BY <2>0, <2>6, OthersKeepBash DEF Restart
  <2>7. ASSUME NEW F \in Folder, Outside(F) PROVE BashInv'
    BY <2>1, <2>7 DEF Outside, Upstream, ByHand, wsVars, callVars
  <2>8. ASSUME NEW c \in Call, FileMove(c) \/ GitMove(c) PROVE BashInv'
    BY <2>4, <2>8, FileMoves, GitMoves
  <2>9. CASE Next
    BY <2>9, <2>3, <2>5, <2>6, <2>7, <2>8, NextKinds, BashMovesKeep, ChildrenKeep
  <2> QED  BY <2>2, <2>9
<1> QED  BY <1>1, <1>2, TreeInvHolds, PTL DEF Spec

\* What repo_bash leaves when it returns (workspace.bash, _kill_pg): no leader and
\* nobody with a pipe of ours, nothing of a group it has signalled, and no result
\* when a process that left the group still holds a pipe.
THEOREM BashCleansUp == Spec => []BashLeaves
<1>1. BashInv => BashLeaves
  BY DEF BashInv, BashLeaves
<1> QED  BY <1>1, BashInvHolds, PTL

-----------------------------------------------------------------------------
(* The folder a restart returns to                                         *)

\* As long as no open has met another, the one that runs has its folder in _live
\* and in what it has composed and written, and nobody is about to enter another;
\* between two of them _live and workspaces.json say the folder opened last.
Apart(c) ==
  /\ Opening(c) => /\ live = where[c] /\ opened = where[c]
                   /\ \A d \in Call : at[d] # "settle" /\ (Opening(d) => d = c)
  /\ at[c] = "save" => doc[c].current = where[c]
  /\ at[c] = "replace" => tmp.current = where[c]
  /\ at[c] = "settle" => where[c] = store.current
ReturnInv == ~raced => FolderReturns /\ \A c \in Call : Apart(c)

LEMMA StartsReturn ==
  ASSUME TreeInv, ReturnInv, NEW c \in Call, NEW o, NEW to, Starts(c, o, to) PROVE ReturnInv'
<1> USE DEF TreeInv, Shape, Starts, Opening, folderVars
<1>1. to \notin {"load", "save", "replace"}
  BY DEF Stops
<1>2. \A d \in Call : Opening(d)' <=> Opening(d)
  BY <1>1
<1>3. to = "settle" => \A d \in Call : ~Opening(d)
  BY DEF OpenInv
<1>4. FolderReturns => FolderReturns'
  BY <1>2 DEF FolderReturns
<1>5. ASSUME \A d \in Call : Apart(d), NEW d \in Call PROVE Apart(d)'
  BY <1>1, <1>2, <1>3, <1>5 DEF Apart
<1> QED
  BY <1>4, <1>5 DEF ReturnInv

LEMMA MovesReturn ==
  ASSUME TreeInv, ReturnInv, NEW c \in Call, NEW to, Moves(c, to) PROVE ReturnInv'
<1> USE DEF TreeInv, Shape, Moves, Opening
<1>2. \A d \in Call : Opening(d)' <=> Opening(d)
  OBVIOUS
<1>3. \A d \in Call : Opening(d) \/ at'[d] = "settle" => where'[d] = where[d]
  OBVIOUS
<1>4. FolderReturns => FolderReturns'
  BY <1>2 DEF FolderReturns
<1>5. ASSUME \A d \in Call : Apart(d), NEW d \in Call PROVE Apart(d)'
  BY <1>2, <1>3, <1>5 DEF Apart
<1> QED
  BY <1>4, <1>5 DEF ReturnInv

LEMMA OpensReturn ==
  ASSUME TreeInv, ReturnInv, NEW c \in Call, NEW F \in Folder, Enter(c, F),
         ~Opening(c), UNCHANGED <<store, tmp, doc>>
  PROVE  ReturnInv'
<1> SUFFICES ASSUME ~raced' PROVE FolderReturns' /\ \A d \in Call : Apart(d)'
  BY DEF ReturnInv
<1> USE DEF TreeInv, Shape, Enter, Goes, Opening
<1>1. \A d \in Call \ {c} : ~Opening(d) /\ at[d] # "settle" /\ at'[d] = at[d]
  OBVIOUS
<1>2. at'[c] = "load" /\ where'[c] = F
  OBVIOUS
<1>3. FolderReturns'
  BY <1>2 DEF FolderReturns
<1>4. ASSUME NEW d \in Call PROVE Apart(d)'
  BY <1>1, <1>2 DEF Apart
<1> QED  BY <1>3, <1>4

LEMMA OpeningReturn ==
  ASSUME TreeInv, ReturnInv, NEW c \in Call, OpenMove(c) PROVE ReturnInv'
<1>s. DOMAIN at = Call /\ DOMAIN doc = Call /\ DOMAIN where = Call
  BY DEF TreeInv, Shape
<1>1. CASE Created(c)
  <2>1. where[c] \in Folder /\ ~Opening(c)
    BY <1>1 DEF TreeInv, OpenInv, Created, Opening
  <2>2. Enter(c, where[c]) /\ UNCHANGED <<store, tmp, doc>>
    BY <1>1 DEF Created
  <2> QED  BY <2>1, <2>2, OpensReturn
<1>2. ASSUME NEW F \in Folder, Open(c, F) PROVE ReturnInv'
  <2>1. Enter(c, F) /\ UNCHANGED <<store, tmp, doc>> /\ ~Opening(c)
    BY <1>2 DEF Open, Begin, Opening
  <2> QED  BY <2>1, OpensReturn
<1>3. ASSUME NEW F \in Folder, Create(c, F) PROVE ReturnInv'
  <2> USE <1>3 DEF Create, Begin, Goes
  <2>1. \A d \in Call : Opening(d)' <=> Opening(d)
    BY <1>s DEF Opening
  <2>2. FolderReturns => FolderReturns'
    BY <2>1 DEF FolderReturns
  <2>3. ASSUME \A d \in Call : Apart(d), NEW d \in Call PROVE Apart(d)'
    BY <1>s, <2>1, <2>3 DEF Apart, Opening
  <2> QED  BY <2>2, <2>3 DEF ReturnInv
<1>4. CASE Settle(c)
  <2> SUFFICES ASSUME ~raced' PROVE FolderReturns' /\ \A d \in Call : Apart(d)'
    BY DEF ReturnInv
  <2> USE <1>4 DEF Settle, Goes
  <2>1. ~raced /\ FolderReturns /\ \A d \in Call : Apart(d)
    BY DEF ReturnInv
  <2>2. \A d \in Call : ~Opening(d)
    BY <2>1 DEF Apart
  <2>3. op[c] \in DOMAIN AfterRoot
    BY DEF TreeInv, PathInv, Over, Stops, AfterRoot
  <2>4. AfterRoot[op[c]] \notin {"load", "save", "replace", "settle"}
    BY <2>3 DEF AfterRoot
  <2>5. where[c] = store.current /\ store.current = opened
    BY <2>1, <2>2 DEF Apart, FolderReturns
  <2>6. FolderReturns'
    BY <2>5 DEF FolderReturns
  <2>7. ASSUME NEW d \in Call PROVE Apart(d)'
    <3>1. at'[d] = at[d] \/ at'[d] = AfterRoot[op[c]]
      BY <1>s
    <3> QED  BY <2>1, <2>2, <2>4, <3>1 DEF Apart, Opening
  <2> QED  BY <2>6, <2>7
<1>5. CASE Load(c) \/ Save(c) \/ Replaced(c)
  <2> SUFFICES ASSUME ~raced PROVE FolderReturns' /\ \A d \in Call : Apart(d)'
    BY <1>5 DEF ReturnInv, Load, Save, Replaced
  <2>1. Opening(c) /\ \A d \in Call : Apart(d)
    BY <1>5 DEF Load, Save, Replaced, Opening, ReturnInv
  <2>2. live = where[c] /\ opened = where[c] /\ \A d \in Call \ {c} : ~Opening(d)
    BY <2>1 DEF Apart
  <2>3. \A d \in Call : at[d] # "settle"
    BY <2>1 DEF Apart
  <2>4. where[c] \in Folder /\ where[c] # None
    BY <2>1, WorkspaceAssumption DEF TreeInv, OpenInv
  <2> USE DEF Goes, Opening
  <2>5. CASE Load(c)
    <3> USE <2>5 DEF Load
    <3>1. doc'[c].current = where[c] /\ at'[c] = "save"
      BY <1>s
    <3>2. FolderReturns'
      BY <3>1 DEF FolderReturns
    <3>3. ASSUME NEW d \in Call PROVE Apart(d)'
      <4>1. at'[d] # "settle" /\ (d # c => at'[d] = at[d])
        BY <1>s, <2>3
      <4> QED  BY <1>s, <2>2, <2>3, <3>1, <4>1 DEF Apart
    <3> QED  BY <3>2, <3>3
  <2>6. CASE Save(c)
    <3> USE <2>6 DEF Save
    <3>1. tmp'.current = where[c] /\ at'[c] = "replace"
      BY <1>s, <2>1 DEF Apart
    <3>2. FolderReturns'
      BY <3>1 DEF FolderReturns
    <3>3. ASSUME NEW d \in Call PROVE Apart(d)'
      <4>1. at'[d] # "settle" /\ (d # c => at'[d] = at[d])
        BY <1>s, <2>3
      <4> QED  BY <1>s, <2>2, <2>3, <3>1, <4>1 DEF Apart
    <3> QED  BY <3>2, <3>3
  <2>7. CASE Replaced(c)
    <3> USE <2>7 DEF Replaced
    <3>1. tmp.current = where[c]
      BY <2>1 DEF Apart
    <3>2. tmp # NoStore
      BY <2>4, <3>1 DEF NoStore
    <3>3. store'.current = where[c] /\ at'[c] = "done"
      BY <1>s, <3>1, <3>2
    <3>4. FolderReturns'
      BY <2>2, <3>3 DEF FolderReturns
    <3>5. ASSUME NEW d \in Call PROVE Apart(d)'
      <4>1. ~Opening(d)' /\ at'[d] # "settle"
        BY <1>s, <2>2, <2>3, <3>3
      <4> QED  BY <4>1 DEF Apart
    <3> QED  BY <3>4, <3>5
  <2> QED  BY <1>5, <2>5, <2>6, <2>7
<1> QED  BY <1>1, <1>2, <1>3, <1>4, <1>5 DEF OpenMove

LEMMA RestartReturns == ASSUME TreeInv, ReturnInv, Restart PROVE ReturnInv'
<1> SUFFICES ASSUME ~raced' PROVE FolderReturns' /\ \A d \in Call : Apart(d)'
  BY DEF ReturnInv
<1>1. FolderReturns /\ \A d \in Call : ~Opening(d)
  BY DEF ReturnInv, Restart
<1>2. \A d \in Call : at'[d] \notin {"load", "save", "replace", "settle"}
  BY DEF Restart, InFlight, Over
<1> QED  BY <1>1, <1>2 DEF Restart, FolderReturns, Apart, Opening

LEMMA ReturnInvHolds == Spec => []ReturnInv
<1>1. Init => ReturnInv
  BY DEF Init, WorkspaceInit, ReturnInv, FolderReturns, Apart, Opening
<1>2. TreeInv /\ ReturnInv /\ [Next]_<<wsVars, gitVars>> => ReturnInv'
  <2> SUFFICES ASSUME TreeInv, ReturnInv, [Next]_<<wsVars, gitVars>> PROVE ReturnInv'  OBVIOUS
  <2>1. ASSUME UNCHANGED <<live, store, tmp, doc, opened, raced, callVars>> PROVE ReturnInv'
    BY <2>1 DEF callVars, ReturnInv, FolderReturns, Apart, Opening
  <2>2. CASE UNCHANGED <<wsVars, gitVars>>
    BY <2>1, <2>2 DEF wsVars, folderVars
  <2>3. ASSUME NEW c \in Call, Lives(c) PROVE ReturnInv'
    BY <2>1, <2>3 DEF Lives, Fork, Exit, folderVars
  <2>4. ASSUME NEW F \in Folder, Outside(F) PROVE ReturnInv'
    BY <2>1, <2>4 DEF Outside, Upstream, ByHand, wsVars, folderVars
  <2>5. ASSUME NEW c \in Call, FileMove(c) \/ BashMove(c) \/ GitMove(c) PROVE ReturnInv'
    BY <2>5, FileMoves, BashMoves, GitMoves, MovesReturn
  <2>6. CASE Next
    BY <2>6, <2>3, <2>4, <2>5, NextKinds, StartsReturn, OpeningReturn, RestartReturns
  <2> QED  BY <2>2, <2>6
<1> QED  BY <1>1, <1>2, TreeInvHolds, PTL DEF Spec

\* A restart returns to the folder opened last (open_workspace, _load_state, root):
\* _live and workspaces.json agree about it, unless two opens met, a restart cut
\* one short or a request that found _live empty entered it over an open.
THEOREM RestartReturnsTo == Spec => []FolderReturns
<1>1. ReturnInv => FolderReturns
  BY DEF ReturnInv, FolderReturns
<1> QED  BY <1>1, ReturnInvHolds, PTL

-----------------------------------------------------------------------------
(* What is pushed                                                          *)

\* A push that has looked at a remote has seen ours, and is still in that folder
\* or was moved; and what wallE has, a push moved after its look has taken there.
Looked(c) == /\ checked[c] \in Folder /\ remote[checked[c]] = "ours"
             /\ moved[c] \/ checked[c] = Root
Strayed(c, F) == /\ op[c] = "push" /\ at[c] \notin {"idle", "settle", "remote"}
                 /\ moved[c] /\ checked[c] # F
PushInv ==
  /\ DOMAIN remote = Folder /\ DOMAIN sent = Folder /\ DOMAIN checked = Call
  /\ \A c \in Call : op[c] = "push" /\ at[c] = "sync" => Looked(c)
  /\ \A F \in Folder : (remote[F] = "walle" /\ \E e \in sent[F] : e[3] # None) =>
       \E c \in Call : Strayed(c, F)

\* A step that sends nothing and moves no push on.
LEMMA OthersKeepPush ==
  ASSUME PushInv, UNCHANGED <<sent, checked>>,
         DOMAIN remote' = Folder, \A F \in Folder : remote'[F] \in {remote[F], "ours"},
         \A d \in Call :
           /\ op'[d] = "push" /\ at'[d] = "sync" => op[d] = "push" /\ at[d] = "sync"
           /\ op'[d] = "push" /\ at'[d] = "sync" => moved'[d] \/ Root' = Root
           /\ moved[d] => moved'[d]
           /\ op[d] = "push" /\ at[d] \notin {"idle", "settle", "remote"} =>
                op'[d] = "push" /\ at'[d] \notin {"idle", "settle", "remote"}
  PROVE  PushInv'
<1>1. ASSUME NEW d \in Call, op'[d] = "push", at'[d] = "sync" PROVE Looked(d)'
  BY <1>1 DEF PushInv, Looked
<1>2. ASSUME NEW F \in Folder, remote'[F] = "walle", NEW e \in sent'[F], e[3] # None
      PROVE  \E d \in Call : Strayed(d, F)'
  <2>1. remote[F] = "walle"
    BY <1>2
  <2>2. PICK d \in Call : Strayed(d, F)
    BY <1>2, <2>1 DEF PushInv
  <2> QED  BY <2>2 DEF Strayed
<1> QED  BY <1>1, <1>2 DEF PushInv

LEMMA RemoteUrlKeepsPush ==
  ASSUME TreeInv, PushInv, NEW c \in Call, NEW to, Moves(c, to), RemoteUrl(c) PROVE PushInv'
<1> USE DEF RemoteUrl, RunsGit, folderVars
<1>0. DOMAIN at = Call /\ DOMAIN checked = Call /\ Root \in Folder /\ Root' = Root
  BY RootIsFolder DEF TreeInv, Shape, PushInv, Root
<1>1. ASSUME NEW d \in Call, op'[d] = "push", at'[d] = "sync" PROVE Looked(d)'
  <2>1. CASE d = c
    BY <1>0, <1>1, <2>1 DEF Looked, Goes
  <2>2. CASE d # c
    BY <1>0, <1>1, <2>2 DEF Looked, Goes, PushInv
  <2> QED  BY <2>1, <2>2
<1>2. ASSUME NEW d \in Call, NEW F \in Folder, Strayed(d, F) PROVE Strayed(d, F)'
  BY <1>0, <1>2 DEF Strayed, Goes
<1> QED  BY <1>0, <1>1, <1>2 DEF PushInv

LEMMA PushKeepsPush ==
  ASSUME TreeInv, PushInv, NEW c \in Call, Push(c) PROVE PushInv'
<1> USE DEF Push, RunsGit, folderVars
<1>0. DOMAIN at = Call /\ Root \in Folder /\ Root' = Root /\ DOMAIN sent = Folder
  BY RootIsFolder DEF TreeInv, Shape, PushInv, Root
<1>1. at'[c] \in {"done", "failed"} /\ \A d \in Call \ {c} : at'[d] = at[d]
  BY <1>0 DEF Goes
<1>2. ASSUME NEW d \in Call, op'[d] = "push", at'[d] = "sync" PROVE Looked(d)'
  BY <1>0, <1>1, <1>2 DEF Looked, PushInv
<1>3. ASSUME NEW d \in Call, NEW F \in Folder, Strayed(d, F) PROVE Strayed(d, F)'
  BY <1>1, <1>3 DEF Strayed
<1>4. remote[Root] = "walle" => Strayed(c, Root)
  BY DEF PushInv, Looked, Strayed
<1>5. DOMAIN sent' = Folder /\ \A F \in Folder : sent'[F] = sent[F] \/ F = Root
  BY <1>0
<1> QED  BY <1>2, <1>3, <1>4, <1>5 DEF PushInv

LEMMA OpeningKeepsPush ==
  ASSUME TreeInv, PushInv, NEW c \in Call, OpenMove(c), UNCHANGED gitVars PROVE PushInv'
<1> USE DEF gitVars, Goes
<1>0. DOMAIN at = Call /\ DOMAIN op = Call /\ DOMAIN remote = Folder /\ moved \in [Call -> BOOLEAN]
  BY DEF TreeInv, Shape, PushInv
<1>p. at[c] \in Stops(op[c]) \/ at[c] \in {"idle", "done", "failed", "lost"}
  BY DEF TreeInv, PathInv, Over
<1>n. ASSUME NEW d \in Call, at[d] = "sync", Notice PROVE moved'[d] \/ Root' = Root
  BY <1>0, <1>n DEF Notice, InFlight, Over
<1>1. CASE Settle(c)
  <2>1. op[c] = "push" => AfterRoot[op[c]] = "remote"
    BY DEF AfterRoot
  <2>2. \A d \in Call : moved[d] => moved'[d]
    BY <1>1 DEF Settle, Notice
  <2> QED  BY <1>0, <1>n, <1>1, <2>1, <2>2, OthersKeepPush DEF Settle
<1>2. CASE Created(c)
  <2>1. op[c] # "push"
    BY <1>2, <1>p DEF Created, Stops
  <2>2. \A d \in Call : moved[d] => moved'[d]
    BY <1>2 DEF Created, Enter, Notice
  <2> QED  BY <1>0, <1>n, <1>2, <2>1, <2>2, OthersKeepPush DEF Created, Enter
<1>3. CASE Load(c) \/ Save(c) \/ Replaced(c)
  <2>1. op[c] # "push" /\ op' = op /\ moved' = moved
    BY <1>3, <1>p DEF Load, Save, Replaced, Stops
  <2>2. Opening(c) /\ live' = live
    BY <1>3 DEF Load, Save, Replaced, Opening
  <2>3. Root' = Root
    BY <2>2 DEF TreeInv, OpenInv, Root
  <2>4. \A d \in Call \ {c} : at'[d] = at[d]
    BY <1>0, <1>3 DEF Load, Save, Replaced
  <2> QED  BY <1>0, <2>1, <2>3, <2>4, OthersKeepPush
<1>4. ASSUME NEW F \in Folder, Open(c, F) PROVE PushInv'
  <2>1. op'[c] # "push" /\ at[c] = "idle" /\ \A d \in Call \ {c} : at'[d] = at[d] /\ op'[d] = op[d]
    BY <1>0, <1>4 DEF Open, Enter, Begin
  <2>2. \A d \in Call : moved[d] => moved'[d]
    BY <1>4 DEF Open, Enter, Notice
  <2> QED  BY <1>0, <1>n, <1>4, <2>1, <2>2, OthersKeepPush DEF Open, Enter
<1>5. ASSUME NEW F \in Folder, Create(c, F) PROVE PushInv'
  <2>1. op'[c] # "push" /\ at[c] = "idle" /\ \A d \in Call \ {c} : at'[d] = at[d] /\ op'[d] = op[d]
    BY <1>0, <1>5 DEF Create, Begin
  <2>2. Root' = Root /\ moved' = moved
    BY <1>5 DEF Create, Root
  <2> QED  BY <1>0, <2>1, <2>2, OthersKeepPush
<1> QED  BY <1>1, <1>2, <1>3, <1>4, <1>5 DEF OpenMove

LEMMA PushInvHolds == Spec => []PushInv
<1>1. Init => PushInv
  BY DEF Init, WorkspaceInit, RepoInit, PushInv
<1>2. TreeInv /\ PushInv /\ [Next]_<<wsVars, gitVars>> => PushInv'
  <2> SUFFICES ASSUME TreeInv, PushInv, [Next]_<<wsVars, gitVars>> PROVE PushInv'  OBVIOUS
  <2>0. DOMAIN at = Call /\ DOMAIN op = Call /\ DOMAIN remote = Folder /\ Root \in Folder
    BY RootIsFolder DEF TreeInv, Shape, PushInv
  <2>1. ASSUME UNCHANGED <<remote, sent, checked, live, store, callVars>> PROVE PushInv'
    BY <2>1 DEF PushInv, Looked, Strayed, callVars, Root
  <2>2. CASE UNCHANGED <<wsVars, gitVars>>
    BY <2>1, <2>2 DEF wsVars, gitVars, folderVars
  <2>3. ASSUME NEW c \in Call, NEW o, NEW to, Starts(c, o, to), StartsGit(c, o, to) PROVE PushInv'
    <3>1. at[c] = "idle" /\ (o = "push" => to # "sync")
      BY <2>3 DEF Starts
    <3>2. \A d \in Call \ {c} : at'[d] = at[d] /\ op'[d] = op[d]
      BY <2>0, <2>3 DEF Starts
    <3>3. at'[c] = to /\ op'[c] = o /\ moved' = moved /\ Root' = Root
      BY <2>0, <2>3 DEF Starts, folderVars, Root
    <3>4. DOMAIN remote' = Folder /\ \A F \in Folder : remote'[F] \in {remote[F], "ours"}
      BY <2>0, <2>3 DEF StartsGit
    <3>5. UNCHANGED <<sent, checked>>
      BY <2>3 DEF StartsGit
    <3> QED  BY <3>1, <3>2, <3>3, <3>4, <3>5, OthersKeepPush
  <2>4. ASSUME NEW c \in Call, NEW to, Moves(c, to), op[c] # "push", UNCHANGED <<remote, sent, checked>>
        PROVE  PushInv'
    <3>1. op' = op /\ moved' = moved /\ Root' = Root /\ \A d \in Call \ {c} : at'[d] = at[d]
      BY <2>0, <2>4 DEF Moves, Root
    <3> QED  BY <2>0, <2>4, <3>1, OthersKeepPush
  <2>5. CASE Restart /\ UNCHANGED gitVars
    <3>1. op' = op /\ moved' = moved /\ \A d \in Call : at'[d] \in {at[d], "lost"} /\ at'[d] # "sync"
      BY <2>5 DEF Restart, InFlight, Over
    <3> QED  BY <2>0, <2>5, <3>1, OthersKeepPush DEF gitVars
  <2>6. ASSUME NEW c \in Call, Lives(c), UNCHANGED gitVars PROVE PushInv'
    BY <2>1, <2>6 DEF Lives, Fork, Exit, folderVars, gitVars
  <2>7. ASSUME NEW F \in Folder, Upstream(F) PROVE PushInv'
    <3>1. PICK f \in File : sent' = [sent EXCEPT ![F] = @ \union {<<f, None, None>>}]
      BY <2>7 DEF Upstream
    <3>2. \A G \in Folder : \A e \in sent'[G] : e \in sent[G] \/ e[3] = None
      BY <3>1 DEF PushInv
    <3>3. DOMAIN sent' = Folder
      BY <3>1 DEF PushInv
    <3>4. UNCHANGED <<remote, checked, live, store, callVars>>
      BY <2>7 DEF Upstream, wsVars, folderVars
    <3> QED  BY <3>2, <3>3, <3>4 DEF PushInv, Looked, Strayed, callVars, Root
  <2>8. ASSUME NEW F \in Folder, NEW f \in File, ByHand(F, f) PROVE PushInv'
    BY <2>1, <2>8 DEF ByHand, folderVars, gitVars
  <2>9. ASSUME NEW c \in Call, FileMove(c) \/ BashMove(c), UNCHANGED gitVars PROVE PushInv'
    <3>1. PICK to : Moves(c, to) /\ op[c] # "push"
      BY <2>9, FileMoves, BashMoves
    <3> QED  BY <2>4, <2>9, <3>1 DEF gitVars
  <2>10. ASSUME NEW c \in Call, GitMove(c) PROVE PushInv'
    <3>1. PICK to : Moves(c, to) /\ (op[c] = "push" => RemoteUrl(c) \/ Push(c))
      BY <2>10, GitMoves
    <3>2. CASE RemoteUrl(c) \/ Push(c)
      BY <3>1, <3>2, RemoteUrlKeepsPush, PushKeepsPush
    <3>3. CASE ~RemoteUrl(c) /\ ~Push(c)
      <4>1. UNCHANGED <<remote, sent, checked>>
        BY <2>10, <3>3 DEF GitMove, AddOne, AddAll, Unstage, Cached, GitCommit, GitInit, Pull, gitVars
      <4> QED  BY <2>4, <3>1, <3>3, <4>1
    <3> QED  BY <3>2, <3>3
  <2>11. CASE Next
    BY <2>11, <2>3, <2>5, <2>6, <2>7, <2>8, <2>9, <2>10, NextKinds, OpeningKeepsPush DEF Outside
  <2> QED  BY <2>2, <2>11
<1> QED  BY <1>1, <1>2, TreeInvHolds, PTL DEF Spec

\* Nothing of this machine reaches wallE (git_panel.py:112), but by a push whose
\* folder the operator changed between the look at the remote and the push.
THEOREM WallEIsSpared == Spec => []NothingToWallE
<1>1. PushInv => NothingToWallE
  BY DEF PushInv, Strayed, NothingToWallE
<1> QED  BY <1>1, PushInvHolds, PTL

-----------------------------------------------------------------------------
(* What is committed                                                       *)

\* What a call has still to add it has named.
TodoInv == /\ DOMAIN todo = Call
           /\ \A c \in Call : todo[c] \subseteq file[c] /\ (at[c] = "idle" => todo[c] = {})

LEMMA TodoStays ==
  ASSUME TodoInv, DOMAIN todo' = Call,
         \A d \in Call : /\ todo'[d] \subseteq todo[d] /\ (file'[d] = file[d] \/ at[d] = "idle")
                         /\ at'[d] = "idle" => at[d] = "idle"
  PROVE  TodoInv'
BY DEF TodoInv

LEMMA TodoInvHolds == Spec => []TodoInv
<1>1. Init => TodoInv
  BY DEF Init, RepoInit, TodoInv
<1>2. TreeInv /\ TodoInv /\ [Next]_<<wsVars, gitVars>> => TodoInv'
  <2> SUFFICES ASSUME TreeInv, TodoInv, [Next]_<<wsVars, gitVars>> PROVE TodoInv'  OBVIOUS
  <2>0. DOMAIN at = Call /\ DOMAIN file = Call /\ DOMAIN todo = Call
    BY DEF TreeInv, Shape, TodoInv
  <2>1. CASE UNCHANGED <<wsVars, gitVars>>
    BY <2>1 DEF TodoInv, wsVars, gitVars, callVars
  <2>2. ASSUME NEW c \in Call, NEW o, NEW to, Starts(c, o, to), StartsGit(c, o, to) PROVE TodoInv'
    <3>1. /\ at[c] = "idle" /\ at'[c] # "idle"
          /\ \A d \in Call \ {c} : at'[d] = at[d] /\ file'[d] = file[d]
      BY <2>0, <2>2 DEF Starts, Stops
    <3>2. todo' = todo \/ todo' = [todo EXCEPT ![c] = file'[c]]
      BY <2>2 DEF StartsGit
    <3> QED  BY <2>0, <3>1, <3>2 DEF TodoInv
  <2>3. ASSUME NEW c \in Call, FileMove(c) \/ BashMove(c) \/ GitMove(c),
               DOMAIN todo' = Call, \A d \in Call : todo'[d] \subseteq todo[d]
        PROVE  TodoInv'
    <3>1. PICK to : Moves(c, to)
      BY <2>3, FileMoves, BashMoves, GitMoves
    <3>2. to # "idle" /\ file' = file /\ at' = [at EXCEPT ![c] = to]
      BY <3>1 DEF Moves, Stops
    <3> QED  BY <2>0, <2>3, <3>2, TodoStays
  <2>4. ASSUME NEW c \in Call, GitMove(c)
        PROVE  DOMAIN todo' = Call /\ \A d \in Call : todo'[d] \subseteq todo[d]
    BY <2>0, <2>4 DEF GitMove, AddOne, AddAll, Unstage, Cached, GitCommit, GitInit, RemoteUrl, Push, Pull,
                      Refused, gitVars
  <2>5. ASSUME NEW c \in Call, OpenMove(c), UNCHANGED gitVars PROVE TodoInv'
    <3>1. CASE Settle(c)
      <4>1. op[c] \in DOMAIN AfterRoot
        BY <3>1 DEF Settle, TreeInv, PathInv, Over, Stops, AfterRoot
      <4>2. AfterRoot[op[c]] # "idle"
        BY <4>1 DEF AfterRoot
      <4> QED  BY <2>0, <2>5, <3>1, <4>2, TodoStays DEF Settle, Goes, gitVars
    <3>2. CASE ~Settle(c)
      <4>1. at'[c] # "idle" /\ \A d \in Call \ {c} : at'[d] = at[d] /\ file'[d] = file[d]
        BY <2>0, <2>5, <3>2 DEF OpenMove, Created, Load, Save, Replaced, Open, Create, Enter, Goes, Begin
      <4>2. file'[c] = file[c] \/ at[c] = "idle"
        BY <2>5, <3>2 DEF OpenMove, Created, Load, Save, Replaced, Open, Create, Begin
      <4> QED  BY <2>0, <2>5, <4>1, <4>2, TodoStays DEF gitVars
    <3> QED  BY <3>1, <3>2
  <2>6. CASE Restart /\ UNCHANGED gitVars
    BY <2>0, <2>6, TodoStays DEF Restart, gitVars, InFlight, Over
  <2>7. ASSUME NEW c \in Call, Lives(c), UNCHANGED gitVars PROVE TodoInv'
    BY <2>0, <2>7, TodoStays DEF Lives, Fork, Exit, callVars, gitVars
  <2>8. ASSUME NEW F \in Folder, Outside(F) PROVE TodoInv'
    BY <2>0, <2>8, TodoStays DEF Outside, Upstream, ByHand, wsVars, callVars, gitVars
  <2>9. ASSUME NEW c \in Call, FileMove(c) \/ BashMove(c), UNCHANGED gitVars PROVE TodoInv'
    BY <2>0, <2>3, <2>9 DEF gitVars
  <2>10. CASE Next
    BY <2>10, <2>2, <2>3, <2>4, <2>5, <2>6, <2>7, <2>8, <2>9, NextKinds
  <2> QED  BY <2>1, <2>10
<1> QED  BY <1>1, <1>2, TreeInvHolds, PTL DEF Spec

\* A file of an index was named by a call that has begun, an agent's commit with
\* the tick, in the folder it began in unless it was moved; and a commit that is
\* done has left nothing of its own behind, unless it was moved.
Consented(a, F) ==
  /\ op[a] \in {"commit", "opcommit", "stage"} /\ at[a] \notin {"idle", "settle"}
  /\ op[a] = "commit" => allow[a]
  /\ home[a] = F \/ moved[a]
  /\ op[a] = "stage" \/ InFlight(a) \/ at[a] \in {"failed", "lost"} \/ moved[a]
Ticked == \A c \in Call : op[c] = "commit" /\ at[c] \in {"settle", "stage", "commit"} => allow[c]
CommitInv ==
  /\ DOMAIN staged = Folder /\ DOMAIN head = Folder /\ DOMAIN sent = Folder
  /\ DOMAIN allow = Call /\ Ticked
  /\ \A F \in Folder : \A s \in staged[F] : s[2] \in Call /\ s[1] \in file[s[2]] /\ Consented(s[2], F)
  /\ \A F \in Folder : \A e \in sent[F] : e[3] # None => e \in head[F]

\* A step that puts nothing in an index and takes no call of one back.
Onward(d) ==
  /\ op[d] \in {"commit", "opcommit", "stage"} /\ at[d] \notin {"idle", "settle"} =>
       /\ op'[d] = op[d] /\ file'[d] = file[d] /\ home'[d] = home[d] /\ allow'[d] = allow[d]
       /\ moved[d] => moved'[d]
       /\ at'[d] \notin {"idle", "settle"}
       /\ op[d] = "stage" \/ moved[d] \/ InFlight(d)' \/ at'[d] \in {"failed", "lost"} \/ at'[d] = at[d]
  /\ op'[d] = "commit" /\ at'[d] \in {"settle", "stage", "commit"} => allow'[d]

LEMMA ConsentStays ==
  ASSUME NEW a \in Call, NEW F, Consented(a, F), Onward(a) PROVE Consented(a, F)'
<1>1. InFlight(a) \/ at[a] \in {"failed", "lost"} => InFlight(a)' \/ at'[a] \in {"failed", "lost"} \/ op[a] = "stage" \/ moved[a]
  BY DEF Consented, Onward, InFlight, Over
<1> QED  BY <1>1 DEF Consented, Onward

LEMMA OthersKeepCommit ==
  ASSUME CommitInv, \A d \in Call : Onward(d),
         DOMAIN allow' = Call,
         DOMAIN staged' = Folder, \A F \in Folder : staged'[F] \subseteq staged[F],
         DOMAIN head' = Folder, \A F \in Folder : \A e \in sent[F] : e[3] # None => e \in head'[F],
         DOMAIN sent' = Folder, \A F \in Folder : \A e \in sent'[F] : e[3] # None => e \in sent[F] \/ e \in head'[F]
  PROVE  CommitInv'
<1>1. Ticked'
  BY DEF Ticked, Onward
<1>2. ASSUME NEW F \in Folder, NEW s \in staged'[F]
      PROVE  s[2] \in Call /\ s[1] \in file'[s[2]] /\ Consented(s[2], F)'
  <2>1. s[2] \in Call /\ s[1] \in file[s[2]] /\ Consented(s[2], F)
    BY <1>2 DEF CommitInv
  <2> QED  BY <2>1, ConsentStays DEF Consented, Onward
<1> QED  BY <1>1, <1>2 DEF CommitInv

\* git add: of files the call names.
LEMMA AddsKeep ==
  ASSUME CommitInv, \A d \in Call : Onward(d), NEW c \in Call, NEW fs \in SUBSET file[c], Adds(c, fs),
         NEW R \in Folder, R = Root, Consented(c, R)',
         UNCHANGED <<head, sent, allow, file>>
  PROVE  CommitInv'
<1>1. Ticked'
  BY DEF Ticked, Onward
<1>2. ASSUME NEW F \in Folder, NEW s \in staged'[F]
      PROVE  s[2] \in Call /\ s[1] \in file'[s[2]] /\ Consented(s[2], F)'
  <2>1. s \in staged[F] \/ (F = Root /\ s \in (fs \X {c}))
    BY <1>2 DEF Adds, CommitInv
  <2>2. CASE s \in staged[F]
    <3>1. s[2] \in Call /\ s[1] \in file[s[2]] /\ Consented(s[2], F)
      BY <2>2 DEF CommitInv
    <3> QED  BY <3>1, ConsentStays
  <2>3. CASE F = Root /\ s \in (fs \X {c})
    <3>1. s[1] \in fs /\ s[2] = c
      BY <2>3
    <3>2. Consented(s[2], F)'
      BY <2>3, <3>1
    <3> QED  BY <3>1, <3>2
  <2> QED  BY <2>1, <2>2, <2>3
<1>3. DOMAIN staged' = Folder
  BY DEF Adds, CommitInv
<1> QED  BY <1>1, <1>2, <1>3 DEF CommitInv

LEMMA GitKeepsCommit ==
  ASSUME TreeInv, TodoInv, CommitInv, NEW c \in Call, GitMove(c) PROVE CommitInv'
<1>r. PICK R \in Folder : R = Root
  BY RootIsFolder DEF TreeInv
<1>m. PICK to : Moves(c, to)
  BY GitMoves
<1>0. /\ DOMAIN at = Call /\ R \in Folder /\ InFlight(c) /\ op' = op /\ home' = home /\ file' = file /\ moved' = moved
      /\ allow' = allow
  BY <1>m DEF TreeInv, Shape, Moves, GitMove, AddOne, AddAll, Unstage, Cached, GitCommit,
                            GitInit, RemoteUrl, Push, Pull, gitVars
<1>h. moved[c] \/ home[c] = R
  <2>1. op[c] # "open"
    BY DEF TreeInv, PathInv, Over, Stops, GitMove, AddOne, AddAll, Unstage, Cached, GitCommit,
           GitInit, RemoteUrl, Push, Pull
  <2> QED  BY <1>0, <1>r, <2>1 DEF TreeInv, HomeInv
<1>s. at[c] \in {"stage", "commit"} /\ op[c] \in {"commit", "opcommit", "stage"} => Consented(c, R)
  BY <1>0, <1>h DEF Consented, CommitInv, Ticked
<1>w. \A d \in Call \ {c} : at'[d] = at[d]
  BY <1>m DEF Moves
<1>o. ASSUME NEW d \in Call, \/ d # c \/ at'[c] \in {"failed", at[c]}
                             \/ op[c] \notin {"commit", "opcommit"} /\ at'[c] \in {"done", "sync"}
                             \/ at[c] = "stage" /\ at'[c] = "commit"
      PROVE  Onward(d)
  <2>1. CASE d # c
    BY <1>0, <1>w, <2>1 DEF Onward, CommitInv, Ticked
  <2>2. CASE d = c
    <3>1. at'[c] = at[c] \/ at'[c] \in {"failed", "done", "sync", "commit"}
      BY <1>o, <2>2
    <3>2. InFlight(c)' \/ at'[c] \in {"failed", at[c]} \/ op[c] = "stage" \/ op[c] \notin {"commit", "opcommit", "stage"}
      BY <1>o, <2>2 DEF InFlight, Over
    <3> QED  BY <1>0, <1>o, <2>2, <3>1, <3>2 DEF Onward, CommitInv, Ticked
  <2> QED  BY <2>1, <2>2
<1>1. ASSUME \A d \in Call : Onward(d), UNCHANGED <<staged, head, sent>> PROVE CommitInv'
  BY <1>0, <1>1, OthersKeepCommit DEF CommitInv
<1>2. CASE Refused(c) /\ sent' = sent
  <2>1. at'[c] = "failed"
    BY <1>0, <1>2 DEF Refused, Goes
  <2> QED  BY <1>1, <1>2, <1>o, <2>1 DEF Refused
<1>3. CASE Cached(c) \/ GitInit(c) \/ RemoteUrl(c)
  <2>1. UNCHANGED <<staged, head, sent>>
    BY <1>3 DEF Cached, GitInit, RemoteUrl, gitVars
  <2>2. op[c] \notin {"commit", "opcommit"} \/ Cached(c)
    BY <1>3 DEF GitInit, RemoteUrl, TreeInv, PathInv, Over, Stops
  <2>3. \/ at'[c] = "failed"
        \/ at[c] = "stage" /\ at'[c] = "commit"
        \/ ~Cached(c) /\ at'[c] \in {"done", "sync"}
    BY <1>0, <1>3 DEF Cached, GitInit, RemoteUrl, Goes
  <2> QED  BY <1>1, <1>o, <2>1, <2>2, <2>3
<1>4. CASE AddOne(c) \/ AddAll(c)
  <2>1. at[c] = "stage" /\ op[c] \in {"commit", "opcommit", "stage"} /\ sent' = sent
    BY <1>4 DEF AddOne, AddAll
  <2>2. ASSUME NEW fs \in SUBSET file[c], Adds(c, fs), head' = head,
               at' = at \/ (op[c] = "stage" /\ at' = [at EXCEPT ![c] = "done"])
        PROVE  CommitInv'
    <3>1. at'[c] = at[c] \/ (op[c] = "stage" /\ at'[c] = "done")
      BY <1>0, <2>2
    <3>2. \A d \in Call : Onward(d)
      BY <1>o, <3>1
    <3>3. Consented(c, R)'
      BY <1>s, <2>1, <3>2, ConsentStays
    <3>4. UNCHANGED <<head, sent, allow, file>>
      BY <1>0, <2>1, <2>2
    <3> QED  BY <1>r, <2>2, <3>2, <3>3, <3>4, AddsKeep
  <2>3. \/ Refused(c)
        \/ \E f \in todo[c] : Adds(c, {f}) /\ at' = at /\ head' = head
        \/ /\ Adds(c, file[c]) /\ head' = head
           /\ at' = at \/ (op[c] = "stage" /\ at' = [at EXCEPT ![c] = "done"])
    BY <1>4 DEF AddOne, AddAll, Goes
  <2>4. \A f \in todo[c] : {f} \in SUBSET file[c]
    BY DEF TodoInv
  <2> QED  BY <1>2, <2>1, <2>2, <2>3, <2>4
<1>5. CASE Unstage(c) /\ ~Refused(c)
  <2>1. op[c] = "unstage" /\ at'[c] = "done" /\ UNCHANGED <<head, sent>>
    BY <1>0, <1>5 DEF Unstage, Goes
  <2>2. \A d \in Call : Onward(d)
    BY <1>o, <2>1
  <2>3. DOMAIN staged' = Folder /\ \A F \in Folder : staged'[F] \subseteq staged[F]
    BY <1>5 DEF Unstage, CommitInv
  <2> QED  BY <1>0, <2>1, <2>2, <2>3, OthersKeepCommit DEF CommitInv
<1>6. CASE Push(c)
  <2>1. op[c] = "push" /\ at'[c] \in {"done", "failed"} /\ UNCHANGED <<staged, head>>
    BY <1>0, <1>6 DEF Push, Goes
  <2>2. \A d \in Call : Onward(d)
    BY <1>o, <2>1
  <2>3. DOMAIN sent' = Folder /\ \A F \in Folder : \A e \in sent'[F] : e \in sent[F] \/ e \in head[F]
    BY <1>6 DEF Push, CommitInv
  <2> QED  BY <1>0, <2>1, <2>2, <2>3, OthersKeepCommit DEF CommitInv
<1>7. CASE Pull(c) /\ ~Refused(c)
  <2>1. op[c] = "pull" /\ at'[c] = "done" /\ UNCHANGED <<staged, sent>>
    BY <1>0, <1>7 DEF Pull, Goes
  <2>2. \A d \in Call : Onward(d)
    BY <1>o, <2>1
  <2>3. DOMAIN head' = Folder /\ \A F \in Folder : head'[F] \in {head[F], sent[F]}
    BY <1>7 DEF Pull, CommitInv
  <2> QED  BY <1>0, <2>1, <2>2, <2>3, OthersKeepCommit DEF CommitInv
<1>8. CASE GitCommit(c) /\ ~Refused(c)
  <2> USE <1>8 DEF GitCommit
  <2>1. sent' = sent /\ at'[c] \in {"done", "failed"}
    BY <1>0 DEF Goes
  <2>2. DOMAIN staged' = Folder /\ staged'[R] = {} /\ \A F \in Folder \ {R} : staged'[F] = staged[F]
    BY <1>r DEF CommitInv
  <2>3. DOMAIN head' = Folder /\ \A F \in Folder : head[F] \subseteq head'[F]
    BY DEF CommitInv
  <2>4. Ticked'
    BY <1>0, <1>w, <2>1 DEF CommitInv, Ticked
  <2>5. ASSUME NEW F \in Folder, NEW s \in staged'[F]
        PROVE  s[2] \in Call /\ s[1] \in file'[s[2]] /\ Consented(s[2], F)'
    <3>1. F # R /\ s[2] \in Call /\ s[1] \in file[s[2]] /\ Consented(s[2], F)
      BY <2>2, <2>5 DEF CommitInv
    <3>2. CASE s[2] # c
      <4>1. Onward(s[2])
        BY <1>o, <3>1, <3>2
      <4> QED  BY <1>0, <3>1, <4>1, ConsentStays
    <3>3. CASE s[2] = c
      <4>1. moved[c]
        BY <1>h, <3>1, <3>3 DEF Consented
      <4>2. Consented(c, F)'
        BY <1>0, <2>1, <3>1, <3>3, <4>1 DEF Consented
      <4> QED  BY <1>0, <3>1, <3>3, <4>2
    <3> QED  BY <3>2, <3>3
  <2> QED  BY <1>0, <2>1, <2>2, <2>3, <2>4, <2>5 DEF CommitInv
<1> QED
  BY <1>2, <1>3, <1>4, <1>5, <1>6, <1>7, <1>8 DEF GitMove, Unstage, Pull, GitCommit

\* The other kinds of steps change no index and no history of commits.
LEMMA StartsKeepCommit ==
  ASSUME TreeInv, CommitInv, NEW c \in Call, NEW o, NEW to, Starts(c, o, to), StartsGit(c, o, to)
  PROVE  CommitInv'
<1>0. DOMAIN at = Call /\ DOMAIN op = Call /\ DOMAIN allow = Call
      /\ DOMAIN file = Call /\ DOMAIN home = Call
  BY DEF TreeInv, Shape, CommitInv
<1>1. ASSUME NEW d \in Call, d # c PROVE Onward(d)
  <2>1. at'[d] = at[d] /\ op'[d] = op[d] /\ home'[d] = home[d] /\ file'[d] = file[d] /\ moved'[d] = moved[d]
    BY <1>0, <1>1 DEF Starts
  <2>2. allow'[d] = allow[d]
    BY <1>0, <1>1 DEF StartsGit
  <2> QED  BY <2>1, <2>2 DEF Onward, CommitInv, Ticked
<1>2. Onward(c)
  <2>1. at[c] = "idle" /\ at'[c] = to /\ op'[c] = o
    BY <1>0 DEF Starts
  <2>2. o = "commit" /\ to # "failed" => allow'[c]
    BY <1>0 DEF StartsGit
  <2> QED  BY <2>1, <2>2 DEF Onward
<1>3. DOMAIN allow' = Call
  BY <1>0 DEF StartsGit
<1> QED  BY <1>1, <1>2, <1>3, OthersKeepCommit DEF StartsGit, CommitInv

LEMMA QuietKeepsCommit ==
  ASSUME TreeInv, CommitInv, UNCHANGED <<gitVars, file>>,
         \A d \in Call : /\ moved[d] => moved'[d]
                         /\ \/ /\ op'[d] = op[d] /\ home'[d] = home[d]
                               /\ \/ at'[d] = at[d]
                                  \/ op[d] \notin {"commit", "opcommit", "stage"}
                                  \/ at[d] = "settle" /\ at'[d] = "stage"
                                  \/ InFlight(d) /\ at'[d] = "lost"
                            \/ at[d] = "idle" /\ op'[d] # "commit"
  PROVE  CommitInv'
<1>1. ASSUME NEW d \in Call PROVE Onward(d)
  BY <1>1 DEF Onward, CommitInv, Ticked, gitVars, InFlight, Over
<1> QED  BY <1>1, OthersKeepCommit DEF gitVars, CommitInv

LEMMA OpeningKeepsCommit ==
  ASSUME TreeInv, CommitInv, NEW c \in Call, OpenMove(c), UNCHANGED gitVars
  PROVE  CommitInv'
<1> USE DEF Goes
<1>0. DOMAIN at = Call /\ DOMAIN op = Call /\ DOMAIN home = Call /\ moved \in [Call -> BOOLEAN]
  BY DEF TreeInv, Shape
<1>p. at[c] \in Stops(op[c]) \/ at[c] \in {"idle", "done", "failed", "lost"}
  BY DEF TreeInv, PathInv, Over
<1>1. CASE Settle(c)
  <2>1. op[c] \in {"commit", "opcommit", "stage"} => AfterRoot[op[c]] = "stage"
    BY DEF AfterRoot
  <2>2. \A d \in Call : (moved[d] => moved'[d]) /\ (d # c => at'[d] = at[d])
    BY <1>0, <1>1 DEF Settle, Notice
  <2>3. at[c] = "settle" /\ at'[c] = AfterRoot[op[c]] /\ UNCHANGED <<op, home, file>>
    BY <1>0, <1>1 DEF Settle
  <2> QED  BY <2>1, <2>2, <2>3, QuietKeepsCommit
<1>2. CASE Created(c) \/ Load(c) \/ Save(c) \/ Replaced(c)
  <2>1. op[c] \notin {"commit", "opcommit", "stage"}
    BY <1>2, <1>p DEF Created, Load, Save, Replaced, Stops
  <2>2. \A d \in Call : (moved[d] => moved'[d]) /\ (d # c => at'[d] = at[d])
    BY <1>0, <1>2 DEF Created, Load, Save, Replaced, Enter, Notice
  <2>3. UNCHANGED <<op, home, file>>
    BY <1>2 DEF Created, Load, Save, Replaced
  <2> QED  BY <2>1, <2>2, <2>3, QuietKeepsCommit
<1>3. ASSUME NEW F \in Folder, Open(c, F) \/ Create(c, F) PROVE CommitInv'
  <2>1. /\ at[c] = "idle" /\ op'[c] # "commit" /\ op'[c] # "opcommit" /\ op'[c] # "stage"
        /\ \A d \in Call \ {c} : at'[d] = at[d] /\ op'[d] = op[d] /\ home'[d] = home[d] /\ file'[d] = file[d]
    BY <1>0, <1>3 DEF Open, Create, Enter, Begin, TreeInv, Shape
  <2>2. \A d \in Call : moved[d] => moved'[d]
    BY <1>3 DEF Open, Create, Enter, Notice
  <2>3. ASSUME NEW d \in Call PROVE Onward(d)
    BY <2>1, <2>2, <2>3 DEF Onward, CommitInv, Ticked, gitVars
  <2> QED  BY <2>3, OthersKeepCommit DEF gitVars, CommitInv
<1> QED  BY <1>1, <1>2, <1>3 DEF OpenMove

LEMMA CommitInvHolds == Spec => []CommitInv
<1>1. Init => CommitInv
  BY DEF Init, WorkspaceInit, RepoInit, CommitInv, Ticked
<1>2. TreeInv /\ TodoInv /\ CommitInv /\ [Next]_<<wsVars, gitVars>> => CommitInv'
  <2> SUFFICES ASSUME TreeInv, TodoInv, CommitInv, [Next]_<<wsVars, gitVars>> PROVE CommitInv'  OBVIOUS
  <2>0. DOMAIN at = Call
    BY DEF TreeInv, Shape
  <2>1. CASE UNCHANGED <<wsVars, gitVars>>
    BY <2>1, QuietKeepsCommit DEF wsVars, callVars
  <2>2. ASSUME NEW c \in Call, FileMove(c) \/ BashMove(c), UNCHANGED gitVars PROVE CommitInv'
    <3>1. PICK to : Moves(c, to) /\ op[c] \notin {"commit", "opcommit", "stage"}
      BY <2>2, FileMoves, BashMoves
    <3> QED  BY <2>0, <2>2, <3>1, QuietKeepsCommit DEF Moves
  <2>3. ASSUME NEW c \in Call, Lives(c), UNCHANGED gitVars PROVE CommitInv'
    BY <2>3, QuietKeepsCommit DEF Lives, Fork, Exit, callVars
  <2>4. CASE Restart /\ UNCHANGED gitVars
    BY <2>4, QuietKeepsCommit DEF Restart
  <2>5. ASSUME NEW F \in Folder, NEW f \in File, ByHand(F, f) PROVE CommitInv'
    BY <2>5, QuietKeepsCommit DEF ByHand, callVars
  <2>6. ASSUME NEW F \in Folder, Upstream(F) PROVE CommitInv'
    <3>1. PICK f \in File : sent' = [sent EXCEPT ![F] = @ \union {<<f, None, None>>}]
      BY <2>6 DEF Upstream
    <3>2. \A G \in Folder : \A e \in sent'[G] : e \in sent[G] \/ e[3] = None
      BY <3>1 DEF CommitInv
    <3>3. DOMAIN sent' = Folder
      BY <3>1 DEF CommitInv
    <3>4. UNCHANGED <<staged, head, allow, op, at, home, file, moved>>
      BY <2>6 DEF Upstream, wsVars, callVars
    <3>5. \A d \in Call : Onward(d)
      BY <3>4 DEF Onward, CommitInv, Ticked
    <3> QED  BY <3>2, <3>3, <3>4, <3>5, OthersKeepCommit DEF CommitInv
  <2>7. CASE Next
    BY <2>7, <2>2, <2>3, <2>4, <2>5, <2>6, NextKinds, StartsKeepCommit, GitKeepsCommit, OpeningKeepsCommit
       DEF Outside
  <2> QED  BY <2>1, <2>7
<1> QED  BY <1>1, <1>2, TreeInvHolds, TodoInvHolds, PTL DEF Spec

Consents(F) ==
  \A e \in head'[F] \ head[F] : e[3] # None =>
    LET f == e[1]  a == e[2]  c == e[3]
    IN /\ f \in file[a]
       /\ \A d \in {a, c} : (op[d] = "commit" => allow[d]) /\ (home[d] = F \/ moved[d])
       /\ a = c \/ op[a] = "stage" \/ InFlight(a) \/ at[a] \in {"failed", "lost"} \/ moved[a]

LEMMA StepConsents ==
  ASSUME TreeInv, CommitInv, [Next]_<<wsVars, gitVars>>, NEW F \in Folder PROVE Consents(F)
<1>1. CASE head' = head
  BY <1>1 DEF Consents
<1>2. ASSUME NEW c \in Call, Pull(c) PROVE Consents(F)
  <2>1. head'[F] \in {head[F], sent[F]}
    BY <1>2 DEF Pull, Refused, CommitInv
  <2> QED  BY <2>1 DEF CommitInv, Consents
<1>3. ASSUME NEW c \in Call, GitCommit(c), NEW e \in head'[F] \ head[F], e[3] # None
      PROVE  /\ e[1] \in file[e[2]]
             /\ \A d \in {e[2], e[3]} : (op[d] = "commit" => allow[d]) /\ (home[d] = F \/ moved[d])
             /\ \/ e[2] = e[3] \/ op[e[2]] = "stage" \/ InFlight(e[2]) \/ at[e[2]] \in {"failed", "lost"}
                \/ moved[e[2]]
  <2>1. at[c] = "commit" /\ op[c] \in {"commit", "opcommit"}
    BY <1>3 DEF GitCommit, TreeInv, PathInv, Over, Stops
  <2>2. F = Root /\ e \in {<<s[1], s[2], c>> : s \in staged[F]}
    BY <1>3 DEF GitCommit, Refused, CommitInv
  <2>3. PICK s \in staged[F] : e = <<s[1], s[2], c>>
    BY <2>2
  <2>4. e[1] = s[1] /\ e[2] = s[2] /\ e[3] = c
    BY <2>3
  <2>5. s[2] \in Call /\ s[1] \in file[s[2]] /\ Consented(s[2], F)
    BY <2>3 DEF CommitInv
  <2>6. (op[c] = "commit" => allow[c]) /\ (home[c] = F \/ moved[c])
    BY <2>1, <2>2 DEF CommitInv, Ticked, TreeInv, HomeInv, InFlight, Over
  <2> QED  BY <2>4, <2>5, <2>6 DEF Consented
<1>4. CASE \E c \in Call : GitCommit(c) \/ Pull(c)
  BY <1>2, <1>3, <1>4 DEF Consents
<1>5. CASE ~\E c \in Call : GitCommit(c) \/ Pull(c)
  <2>1. head' = head
    <3>1. CASE UNCHANGED <<wsVars, gitVars>>
      BY <3>1 DEF gitVars
    <3>2. CASE Next
      BY <1>5, <3>2, NextKinds DEF StartsGit, gitVars, GitMove, AddOne, AddAll, Unstage, Cached, GitInit,
         RemoteUrl, Push, Refused, Outside, Upstream, ByHand
    <3> QED  BY <3>1, <3>2
  <2> QED  BY <1>1, <2>1
<1> QED  BY <1>4, <1>5

\* "commit krever haken" (tools.py:720): what enters a commit was named by a call,
\* an agent's with the tick, in the folder it began in unless another was opened
\* while it ran; of another call's files, only what is left staged by one that
\* stages, failed, runs still or was moved.
THEOREM CommitHasConsent == Spec => CommitConsent
<1>1. TreeInv /\ CommitInv /\ [Next]_<<wsVars, gitVars>>
        => [\A F \in Folder : Consents(F)]_<<wsVars, gitVars>>
  BY StepConsents
<1>2. (\A F \in Folder : Consents(F)) =>
        \A F \in Folder : \A e \in head'[F] \ head[F] : e[3] # None =>
          LET f == e[1]  a == e[2]  c == e[3]
          IN /\ f \in file[a]
             /\ \A d \in {a, c} : /\ op[d] = "commit" => allow[d]
                                  /\ home[d] = F \/ moved[d]
             /\ a = c \/ op[a] = "stage" \/ InFlight(a) \/ at[a] \in {"failed", "lost"} \/ moved[a]
  BY DEF Consents
<1> QED  BY <1>1, <1>2, TreeInvHolds, CommitInvHolds, PTL DEF Spec, CommitConsent

-----------------------------------------------------------------------------
(* What an edit writes                                                     *)

\* An edit that has read a text holds a text of its folder, the one that is there
\* still until it empties the file, unless it was moved or met; and every text is
\* of its folder, unless an edit strayed.
Patching == {"relof", "again", "check", "truncate", "fill"}
Strays == \E d \in Call : op[d] = "edit" /\ moved[d]
Patches(c) ==
  /\ where[c] \in Folder /\ IsText(got[c])
  /\ got[c].from = where[c] \/ Strays
  /\ at[c] = "again" => moved[c] \/ where[c] = Root
  /\ at[c] # "fill" => moved[c] \/ met[c] \/ Now(c) = got[c]
EditInv ==
  /\ DOMAIN text = Folder /\ \A F \in Folder : DOMAIN text[F] = File
  /\ DOMAIN got = Call /\ DOMAIN met = Call
  /\ \A c \in Call : op[c] \in {"edit", "write"} => \E f \in File : file[c] = {f}
  /\ \A F \in Folder, f \in File : text[F][f].kind = "text" => text[F][f].from = F \/ Strays
  /\ \A c \in Call : op[c] = "edit" /\ at[c] \in Patching => Patches(c)

\* A step that writes and reads no file.
Stays(d) ==
  /\ op'[d] = "edit" /\ at'[d] \in Patching =>
       /\ op[d] = "edit" /\ at[d] = at'[d] /\ where'[d] = where[d] /\ file'[d] = file[d]
       /\ moved'[d] \/ Root' = Root
  /\ moved[d] => moved'[d]
  /\ op[d] = "edit" => op'[d] = "edit"
  /\ op'[d] \in {"edit", "write"} => (\E f \in File : file'[d] = {f})

LEMMA OthersKeepEdit ==
  ASSUME EditInv, UNCHANGED <<text, got, met>>, \A d \in Call : Stays(d) PROVE EditInv'
<1>1. Strays => Strays'
  BY DEF Strays, Stays
<1>2. ASSUME NEW d \in Call, op'[d] = "edit", at'[d] \in Patching PROVE Patches(d)'
  BY <1>1, <1>2 DEF Stays, EditInv, Patches, Now, TheFile
<1>3. \A d \in Call : op'[d] \in {"edit", "write"} => \E f \in File : file'[d] = {f}
  BY DEF Stays
<1> QED  BY <1>1, <1>2, <1>3 DEF EditInv

LEMMA TheFileIs == ASSUME NEW c, NEW f, file[c] = {f} PROVE TheFile(c) = f
BY DEF TheFile

LEMMA PutsText ==
  ASSUME EditInv, NEW c \in Call, NEW t, PutText(c, t)
  PROVE  /\ DOMAIN text' = Folder /\ \A F \in Folder : DOMAIN text'[F] = File
         /\ \A F \in Folder, f \in File :
              text'[F][f] = IF F = where[c] /\ f = TheFile(c) THEN t ELSE text[F][f]
         /\ DOMAIN met' = Call /\ \A d \in Call : met[d] => met'[d]
         /\ \A d \in Call : d # c /\ op[d] = "edit" /\ InFlight(d) /\ got[d] # Missing
                            /\ where[d] = where[c] /\ file[d] = file[c] => met'[d]
BY DEF PutText, EditInv

\* An edit adds its words to the text it has read.
LEMMA Patched ==
  ASSUME NEW t, IsText(t), NEW c
  PROVE  /\ t.kind = "text"
         /\ [t EXCEPT !.words = @ \union {c}].from = t.from
         /\ t.words \subseteq [t EXCEPT !.words = @ \union {c}].words
BY DEF IsText, Text

\* The text of another edit: as it was, or it has met the write.
LEMMA PutsMeet ==
  ASSUME EditInv, NEW c \in Call, NEW t, PutText(c, t), op' = op, where' = where, file' = file, moved' = moved,
         got' = got, Root' = Root, op[c] \in {"edit", "write"},
         NEW d \in Call, d # c, at'[d] = at[d], op[d] = "edit", at[d] \in Patching
  PROVE  Patches(d)'
<1>1. Patches(d)
  BY DEF EditInv
<1>2. Strays' <=> Strays
  BY DEF Strays
<1>3. ASSUME at[d] # "fill" PROVE moved[d] \/ met'[d] \/ Now(d)' = got[d]
  <2>1. PICK f \in File, g \in File : file[c] = {f} /\ file[d] = {g}
    BY DEF EditInv
  <2>2. TheFile(c) = f /\ TheFile(d) = g /\ TheFile(d)' = g
    BY <2>1 DEF TheFile
  <2>3. CASE where[d] = where[c] /\ f = g
    <3>1. InFlight(d) /\ got[d] # Missing
      BY <1>1, Patched DEF Patches, Patching, InFlight, Over, Missing
    <3> QED  BY <2>1, <2>3, <3>1, PutsText
  <2>4. CASE ~(where[d] = where[c] /\ f = g)
    <3>1. where[d] \in Folder /\ (moved[d] \/ met[d] \/ Now(d) = got[d])
      BY <1>1, <1>3 DEF Patches
    <3>2. Now(d) = text[where[d]][g] /\ Now(d)' = text'[where[d]][g]
      BY <2>2 DEF Now
    <3>3. text'[where[d]][g] = text[where[d]][g] /\ (met[d] => met'[d])
      BY <2>2, <2>4, <3>1, PutsText
    <3> QED  BY <3>1, <3>2, <3>3
  <2> QED  BY <2>3, <2>4
<1> QED  BY <1>1, <1>2, <1>3 DEF Patches

\* write_text, in two steps.
LEMMA WritesKeepEdit ==
  ASSUME TreeInv, EditInv, NEW c \in Call, Truncate(c) \/ Fill(c) PROVE EditInv'
<1>0. /\ DOMAIN at = Call /\ op[c] \in {"edit", "write"}
      /\ at[c] \in {"truncate", "fill"} /\ UNCHANGED <<op, where, home, file, moved, got, live, store>>
  BY DEF TreeInv, Shape, PathInv, Over, Stops, Truncate, Fill, folderVars
<1>r. Root' = Root
  BY <1>0 DEF Root
<1>w. \A d \in Call \ {c} : at'[d] = at[d]
  BY <1>0 DEF Truncate, Fill, Goes
<1>s. Strays' <=> Strays
  BY <1>0 DEF Strays
<1>1. PICK t : PutText(c, t) /\ (t.kind = "text" => t.from = where[c] \/ Strays)
  <2>1. CASE Truncate(c)
    BY <2>1 DEF Truncate, Empty
  <2>2. CASE Fill(c) /\ op[c] = "edit"
    <3>1. Patches(c)
      BY <2>2 DEF EditInv, Fill, Patching
    <3> DEFINE new == [got[c] EXCEPT !.words = @ \union {c}]
    <3>2. PutText(c, new)
      BY <2>2 DEF Fill
    <3>3. new.from = got[c].from
      BY <3>1, Patched DEF Patches
    <3> HIDE DEF new
    <3> QED  BY <3>1, <3>2, <3>3 DEF Patches
  <2>3. CASE Fill(c) /\ op[c] # "edit"
    BY <2>3 DEF Fill, Text
  <2> QED  BY <2>1, <2>2, <2>3
<1>2. \A F \in Folder, f \in File : text'[F][f].kind = "text" => text'[F][f].from = F \/ Strays
  <2> SUFFICES ASSUME NEW F \in Folder, NEW f \in File, text'[F][f].kind = "text"
               PROVE  text'[F][f].from = F \/ Strays
    OBVIOUS
  <2>1. text'[F][f] = IF F = where[c] /\ f = TheFile(c) THEN t ELSE text[F][f]
    BY <1>1, PutsText
  <2> QED  BY <1>1, <2>1 DEF EditInv
<1>3. ASSUME NEW d \in Call, op[d] = "edit", at'[d] \in Patching PROVE Patches(d)'
  <2>1. CASE d # c
    BY <1>0, <1>r, <1>w, <1>1, <1>3, <2>1, PutsMeet
  <2>2. CASE d = c
    <3>1. at[c] = "truncate" /\ at'[c] = "fill"
      BY <1>0, <1>3, <2>2 DEF Truncate, Fill, Goes, Patching
    <3>2. Patches(c)
      BY <1>3, <2>2, <3>1 DEF EditInv, Patching
    <3> QED  BY <1>0, <1>s, <2>2, <3>1, <3>2 DEF Patches
  <2> QED  BY <2>1, <2>2
<1> QED  BY <1>0, <1>s, <1>1, <1>2, <1>3, PutsText DEF EditInv

\* Reading, and the looks at the folder before the write.
LEMMA LooksKeepEdit ==
  ASSUME TreeInv, EditInv, NEW c \in Call, Read(c) \/ RelOf(c) \/ Again(c) \/ Check(c) PROVE EditInv'
<1>0. /\ DOMAIN at = Call /\ DOMAIN where = Call
      /\ Root \in Folder /\ op[c] \in {"edit", "write"}
      /\ UNCHANGED <<op, home, file, moved, met, text, live, store>>
  BY RootIsFolder DEF TreeInv, Shape, PathInv, Over, Stops, Read, RelOf, Again, Check, folderVars, fileVars
<1>r. Root' = Root
  BY <1>0 DEF Root
<1>s. Strays' <=> Strays
  BY <1>0 DEF Strays
<1>w. /\ \A d \in Call \ {c} : at'[d] = at[d] /\ where'[d] = where[d] /\ got'[d] = got[d]
      /\ DOMAIN got' = Call
  BY <1>0 DEF Read, RelOf, Again, Check, Goes, fileVars, EditInv
<1>1. ASSUME NEW d \in Call, d # c, op[d] = "edit", at[d] \in Patching PROVE Patches(d)'
  BY <1>0, <1>r, <1>s, <1>w, <1>1 DEF EditInv, Patches, Now, TheFile
<1>2. ASSUME op[c] = "edit", at'[c] \in Patching PROVE Patches(c)'
  <2>1. CASE Read(c)
    <3>1. /\ Root = where[c] /\ IsText(Now(c)) /\ at'[c] = "relof" /\ got'[c] = Now(c) /\ where' = where
      BY <1>0, <1>2, <2>1 DEF Read, Goes, Patching, EditInv
    <3>2. Now(c).kind = "text"
      BY <3>1 DEF IsText, Text
    <3>3. TheFile(c) \in File
      BY <1>0, TheFileIs DEF EditInv
    <3>4. Now(c).from = where[c] \/ Strays
      BY <1>0, <3>1, <3>2, <3>3 DEF Now, EditInv
    <3>5. Now(c)' = Now(c)
      BY <1>0, <3>1 DEF Now, TheFile
    <3> QED  BY <1>0, <1>s, <3>1, <3>4, <3>5 DEF Patches
  <2>2. CASE RelOf(c)
    <3>1. /\ Root = where[c] /\ at[c] = "relof" /\ at'[c] = "again" /\ UNCHANGED <<where, got>>
      BY <1>0, <1>2, <2>2 DEF RelOf, Goes, Patching, fileVars
    <3>2. Patches(c)
      BY <1>2, <3>1 DEF EditInv, Patching
    <3> QED  BY <1>0, <1>r, <1>s, <3>1, <3>2 DEF Patches, Now, TheFile
  <2>3. CASE Again(c)
    <3>1. /\ at[c] = "again" /\ at'[c] = "check" /\ where'[c] = Root /\ got' = got
      BY <1>0, <2>3 DEF Again, Goes, fileVars
    <3>2. Patches(c)
      BY <1>2, <3>1 DEF EditInv, Patching
    <3>3. moved[c] => Strays
      BY <1>2 DEF Strays
    <3> QED  BY <1>0, <1>s, <3>1, <3>2, <3>3 DEF Patches, Now, TheFile
  <2>4. CASE Check(c)
    <3>1. /\ at[c] = "check" /\ at'[c] = "truncate" /\ UNCHANGED <<where, got>>
      BY <1>0, <1>2, <2>4 DEF Check, Goes, Patching, fileVars
    <3>2. Patches(c)
      BY <1>2, <3>1 DEF EditInv, Patching
    <3> QED  BY <1>0, <1>s, <3>1, <3>2 DEF Patches, Now, TheFile
  <2> QED  BY <2>1, <2>2, <2>3, <2>4
<1> QED  BY <1>0, <1>s, <1>w, <1>1, <1>2 DEF EditInv

LEMMA FilesKeepEdit ==
  ASSUME TreeInv, EditInv, NEW c \in Call, FileMove(c) PROVE EditInv'
<1>1. CASE Mkdir(c) \/ Report(c)
  <2>1. PICK to : Moves(c, to)
    BY FileMoves
  <2>2. to \notin Patching /\ UNCHANGED <<text, got, met>>
    <3>1. at'[c] = to
      BY <2>1 DEF Moves, TreeInv, Shape
    <3>2. at'[c] \in {"rel", "failed", "done"}
      BY <1>1 DEF Mkdir, Report, Goes, TreeInv, Shape
    <3> QED  BY <1>1, <3>1, <3>2 DEF Mkdir, Report, fileVars, Patching
  <2>3. Root' = Root /\ where' = where
    BY <1>1 DEF Mkdir, Report, folderVars, Root
  <2>4. \A d \in Call : Stays(d)
    BY <2>1, <2>2, <2>3 DEF Moves, Stays, EditInv, TreeInv, Shape
  <2> QED  BY <2>2, <2>4, OthersKeepEdit
<1> QED  BY <1>1, WritesKeepEdit, LooksKeepEdit DEF FileMove

\* A call that edits nothing, begins or enters the folder it has found.
LEMMA QuietKeepsEdit ==
  ASSUME EditInv, UNCHANGED <<text, got, met>>,
         \A d \in Call :
           /\ moved[d] => moved'[d]
           /\ \/ op'[d] = op[d] /\ file'[d] = file[d]
              \/ at[d] = "idle" /\ op[d] # "edit" /\ (op'[d] \in {"edit", "write"} => \E f \in File : file'[d] = {f})
           /\ \/ at'[d] = at[d] /\ op'[d] = op[d] /\ where'[d] = where[d]
                 /\ (at[d] \notin Patching \/ moved'[d] \/ Root' = Root)
              \/ op'[d] # "edit"
              \/ at'[d] \notin Patching
  PROVE  EditInv'
<1>1. ASSUME NEW d \in Call PROVE Stays(d)
  BY <1>1 DEF Stays, EditInv
<1> QED  BY <1>1, OthersKeepEdit

LEMMA StartsKeepEdit ==
  ASSUME TreeInv, EditInv, NEW c \in Call, NEW o, NEW to, Starts(c, o, to) PROVE EditInv'
<1>0. /\ DOMAIN at = Call /\ DOMAIN op = Call /\ DOMAIN file = Call /\ DOMAIN where = Call
  BY DEF TreeInv, Shape
<1>1. at[c] = "idle" /\ op[c] # "edit" /\ op'[c] = o /\ at'[c] = to /\ (o = "edit" => to \notin Patching)
  BY <1>0 DEF Starts, TreeInv, PathInv, Over, Stops, Patching
<1>2. o \in {"edit", "write"} => \E f \in File : file'[c] = {f}
  BY <1>0 DEF Starts
<1>3. \A d \in Call \ {c} : at'[d] = at[d] /\ op'[d] = op[d] /\ file'[d] = file[d] /\ where'[d] = where[d]
  BY <1>0 DEF Starts
<1>4. Root' = Root /\ moved' = moved /\ UNCHANGED <<text, got, met>>
  BY DEF Starts, folderVars, fileVars, Root
<1> QED  BY <1>1, <1>2, <1>3, <1>4, QuietKeepsEdit

LEMMA OpeningKeepsEdit ==
  ASSUME TreeInv, EditInv, NEW c \in Call, OpenMove(c) PROVE EditInv'
<1> USE DEF Goes
<1>0. /\ DOMAIN at = Call /\ DOMAIN op = Call /\ DOMAIN file = Call /\ DOMAIN where = Call
      /\ moved \in [Call -> BOOLEAN]
  BY DEF TreeInv, Shape
<1>n. ASSUME Notice, NEW d \in Call
      PROVE  (moved[d] => moved'[d]) /\ (at[d] \notin Patching \/ moved'[d] \/ Root' = Root)
  BY <1>0, <1>n DEF Notice, InFlight, Over, Patching
<1>u. UNCHANGED <<text, got, met>>
  BY DEF OpenMove, Settle, Created, Load, Save, Replaced, Open, Create, fileVars
<1>1. CASE Settle(c)
  <2>1. op[c] = "edit" => AfterRoot[op[c]] = "read"
    BY DEF AfterRoot
  <2>2. at'[c] = AfterRoot[op[c]] /\ \A d \in Call \ {c} : at'[d] = at[d]
    BY <1>0, <1>1 DEF Settle
  <2>3. UNCHANGED <<op, where, file>> /\ Notice
    BY <1>1 DEF Settle
  <2>4. op'[c] # "edit" \/ at'[c] \notin Patching
    BY <2>1, <2>2, <2>3 DEF Patching
  <2> QED  BY <1>n, <1>u, <2>2, <2>3, <2>4, QuietKeepsEdit
<1>2. CASE Created(c)
  <2>1. at'[c] = "load" /\ \A d \in Call \ {c} : at'[d] = at[d] /\ where'[d] = where[d]
    BY <1>0, <1>2 DEF Created, Enter
  <2>2. UNCHANGED <<op, file>> /\ Notice
    BY <1>2 DEF Created, Enter
  <2> QED  BY <1>n, <1>u, <2>1, <2>2, QuietKeepsEdit DEF Patching
<1>3. CASE Load(c) \/ Save(c) \/ Replaced(c)
  <2>1. at'[c] \in {"save", "replace", "done", "failed"} /\ \A d \in Call \ {c} : at'[d] = at[d]
    BY <1>0, <1>3 DEF Load, Save, Replaced
  <2>2. UNCHANGED <<op, where, file, moved, live>> /\ Opening(c)
    BY <1>3 DEF Load, Save, Replaced, Opening
  <2>3. Root' = Root
    BY <2>2 DEF TreeInv, OpenInv, Root
  <2> QED  BY <1>u, <2>1, <2>2, <2>3, QuietKeepsEdit DEF Patching
<1>4. ASSUME NEW F \in Folder, Open(c, F) PROVE EditInv'
  <2>1. /\ at[c] = "idle" /\ at'[c] = "load" /\ op[c] # "edit" /\ op'[c] = "open"
        /\ \A d \in Call \ {c} : at'[d] = at[d] /\ where'[d] = where[d] /\ op'[d] = op[d] /\ file'[d] = file[d]
    BY <1>0, <1>4 DEF Open, Begin, Enter, TreeInv, PathInv, Over, Stops
  <2>2. Notice
    BY <1>4 DEF Open, Enter
  <2> QED  BY <1>n, <1>u, <2>1, <2>2, QuietKeepsEdit DEF Patching
<1>5. ASSUME NEW F \in Folder, Create(c, F) PROVE EditInv'
  <2>1. /\ at[c] = "idle" /\ at'[c] = "created" /\ op[c] # "edit" /\ op'[c] = "create"
        /\ \A d \in Call \ {c} : at'[d] = at[d] /\ where'[d] = where[d] /\ op'[d] = op[d] /\ file'[d] = file[d]
    BY <1>0, <1>5 DEF Create, Begin, TreeInv, PathInv, Over, Stops
  <2>2. moved' = moved /\ Root' = Root
    BY <1>5 DEF Create, Root
  <2> QED  BY <1>u, <2>1, <2>2, QuietKeepsEdit DEF Patching
<1> QED  BY <1>1, <1>2, <1>3, <1>4, <1>5 DEF OpenMove

LEMMA EditInvHolds == Spec => []EditInv
<1>1. Init => EditInv
  <2> SUFFICES ASSUME Init PROVE EditInv  OBVIOUS
  <2>1. \A F \in Folder, f \in File : text[F][f] = Text(F, {}) \/ text[F][f] = Missing
    BY DEF Init, WorkspaceInit
  <2>2. DOMAIN text = Folder /\ \A F \in Folder : DOMAIN text[F] = File
    BY DEF Init, WorkspaceInit
  <2>3. \A F \in Folder, f \in File : text[F][f].kind = "text" => text[F][f].from = F
    <3>1. Missing.kind # "text"
      BY DEF Missing
    <3>2. \A F : Text(F, {}).from = F
      BY DEF Text
    <3> QED  BY <2>1, <3>1, <3>2
  <2> QED  BY <2>2, <2>3 DEF Init, WorkspaceInit, EditInv
<1>2. TreeInv /\ EditInv /\ [Next]_<<wsVars, gitVars>> => EditInv'
  <2> SUFFICES ASSUME TreeInv, EditInv, [Next]_<<wsVars, gitVars>> PROVE EditInv'  OBVIOUS
  <2>0. DOMAIN at = Call /\ DOMAIN op = Call /\ DOMAIN where = Call
    BY DEF TreeInv, Shape
  <2>1. ASSUME UNCHANGED <<text, got, met, live, store, callVars>> PROVE EditInv'
    <3>1. Root' = Root
      BY <2>1 DEF Root
    <3> QED  BY <2>1, <3>1, QuietKeepsEdit DEF callVars
  <2>2. CASE UNCHANGED <<wsVars, gitVars>>
    BY <2>1, <2>2 DEF wsVars, fileVars, folderVars
  <2>3. ASSUME NEW c \in Call, BashMove(c) \/ GitMove(c) PROVE EditInv'
    <3>1. PICK to : Moves(c, to) /\ op[c] # "edit" /\ UNCHANGED <<text, got, met>>
      BY <2>3, BashMoves, GitMoves DEF fileVars
    <3>2. /\ Root' = Root /\ UNCHANGED <<op, file, moved>>
          /\ \A d \in Call \ {c} : at'[d] = at[d] /\ where'[d] = where[d]
      BY <2>0, <3>1 DEF Moves, Root
    <3> QED  BY <3>1, <3>2, QuietKeepsEdit
  <2>4. ASSUME NEW c \in Call, Lives(c) PROVE EditInv'
    BY <2>1, <2>4 DEF Lives, Fork, Exit, folderVars, fileVars
  <2>5. CASE Restart
    <3>1. \A d \in Call : at'[d] \notin Patching
      BY <2>5 DEF Restart, InFlight, Over, Patching
    <3>2. UNCHANGED <<op, file, moved, text, got, met>>
      BY <2>5 DEF Restart, fileVars
    <3> QED  BY <3>1, <3>2, QuietKeepsEdit
  <2>6. ASSUME NEW F \in Folder, Outside(F) PROVE EditInv'
    BY <2>1, <2>6 DEF Outside, Upstream, ByHand, wsVars, folderVars, fileVars
  <2>7. CASE Next
    BY <2>7, <2>3, <2>4, <2>5, <2>6, NextKinds, StartsKeepEdit, FilesKeepEdit, OpeningKeepsEdit
  <2> QED  BY <2>2, <2>7
<1> QED  BY <1>1, <1>2, TreeInvHolds, PTL DEF Spec

KeepsText(c) ==
  op[c] = "edit" =>
    /\ (at[c] = "truncate" /\ at'[c] = "fill" /\ ~met[c] /\ ~moved[c]) => Now(c) = got[c]
    /\ (at[c] = "fill" /\ at'[c] = "rel") =>
         LET t == text'[where[c]][TheFile(c)]
         IN /\ got[c].words \subseteq t.words
            /\ t.from = where[c] \/ \E d \in Call : op[d] = "edit" /\ moved[d]

LEMMA StepKeepsText ==
  ASSUME TreeInv, EditInv, [Next]_<<wsVars, gitVars>>, NEW c \in Call PROVE KeepsText(c)
<1> SUFFICES ASSUME op[c] = "edit" PROVE KeepsText(c)
  BY DEF KeepsText
<1>1. ASSUME at[c] = "truncate", ~met[c], ~moved[c] PROVE Now(c) = got[c]
  BY <1>1 DEF EditInv, Patching, Patches
<1>2. ASSUME at[c] = "fill", at'[c] = "rel"
      PROVE  /\ got[c].words \subseteq text'[where[c]][TheFile(c)].words
             /\ text'[where[c]][TheFile(c)].from = where[c] \/ \E d \in Call : op[d] = "edit" /\ moved[d]
  <2>0. DOMAIN at = Call
    BY DEF TreeInv, Shape
  <2>1. Patches(c)
    BY <1>2 DEF EditInv, Patching
  <2>2. Fill(c)
    <3>1. ASSUME NEW d \in Call, FileMove(d) PROVE Fill(c)
      <4>1. d = c
        BY <2>0, <1>2, <3>1, FileMoves DEF Moves
      <4> QED  BY <1>2, <3>1, <4>1
               DEF FileMove, Mkdir, Read, RelOf, Again, Check, Truncate, Report
    <3>2. ASSUME NEW d \in Call, BashMove(d) \/ GitMove(d) PROVE FALSE
      <4>1. PICK to : Moves(d, to) /\ op[d] # "edit"
        BY <3>2, BashMoves, GitMoves
      <4> QED  BY <1>2, <2>0, <4>1 DEF Moves
    <3>3. ASSUME NEW d \in Call, OpenMove(d) PROVE FALSE
      <4>1. at'[c] = at[c] \/ d = c
        BY <2>0, <3>3 DEF OpenMove, Settle, Created, Load, Save, Replaced, Open, Create, Enter, Goes
      <4> QED  BY <1>2, <3>3, <4>1
               DEF OpenMove, Settle, Created, Load, Save, Replaced, Open, Create, Begin
    <3>4. ASSUME NEW d \in Call, NEW o, NEW to, Starts(d, o, to) PROVE FALSE
      BY <1>2, <2>0, <3>4 DEF Starts
    <3>5. CASE Restart
      BY <1>2, <3>5 DEF Restart, InFlight, Over
    <3>6. ASSUME at' = at PROVE FALSE
      BY <1>2, <3>6
    <3>7. CASE Next
      BY <3>7, <3>1, <3>2, <3>3, <3>4, <3>5, <3>6, NextKinds
         DEF Lives, Fork, Exit, Outside, Upstream, ByHand, callVars, wsVars
    <3> QED  BY <3>6, <3>7 DEF wsVars, callVars
  <2> DEFINE new == [got[c] EXCEPT !.words = @ \union {c}]
  <2>3. PutText(c, new)
    BY <2>2 DEF Fill
  <2>4. new.from = got[c].from /\ got[c].words \subseteq new.words
    BY <2>1, Patched DEF Patches
  <2>5. where[c] \in Folder /\ TheFile(c) \in File
    BY <2>1, TheFileIs DEF Patches, EditInv
  <2> HIDE DEF new
  <2>6. text'[where[c]][TheFile(c)] = new
    BY <2>3, <2>5, PutsText
  <2> QED  BY <2>1, <2>4, <2>6 DEF Patches, Strays
<1> QED  BY <1>1, <1>2 DEF KeepsText

\* repo_edit patches the text it has read (workspace.edit, write): no word of it is
\* lost unless another call wrote the file in between, and the text is of the folder
\* it is written to unless another one was opened during an edit.
THEOREM EditPatches == Spec => EditKeepsText
<1>1. TreeInv /\ EditInv /\ [Next]_<<wsVars, gitVars>>
        => [\A c \in Call : KeepsText(c)]_<<wsVars, gitVars>>
  BY StepKeepsText
<1>2. (\A c \in Call : KeepsText(c)) =>
        \A c \in Call : op[c] = "edit" =>
          /\ (at[c] = "truncate" /\ at'[c] = "fill" /\ ~met[c] /\ ~moved[c]) => Now(c) = got[c]
          /\ (at[c] = "fill" /\ at'[c] = "rel") =>
               LET t == text'[where[c]][TheFile(c)]
               IN /\ got[c].words \subseteq t.words
                  /\ t.from = where[c] \/ \E d \in Call : op[d] = "edit" /\ moved[d]
  BY DEF KeepsText
<1> QED  BY <1>1, <1>2, TreeInvHolds, EditInvHolds, PTL DEF Spec, EditKeepsText


-----------------------------------------------------------------------------
(* Types                                                                   *)

\* What the folders are: each one that the server, a call or a repository has is
\* there, and so is what workspaces.json names.
StateTypes ==
  /\ Made \subseteq made /\ made \subseteq Folder
  /\ live \in made \union {None} /\ opened \in made \union {None} /\ raced \in BOOLEAN
  /\ IsStore(store) /\ IsStore(tmp) /\ \A c \in Call : IsStore(doc[c])
CallTypes ==
  /\ \A c \in Call : /\ where[c] \in made \union {None} /\ home[c] \in made \union {None}
                     /\ file[c] \subseteq File
                     /\ InFlight(c) => where[c] \in made
  /\ moved \in [Call -> BOOLEAN] /\ killed \in [Call -> BOOLEAN]
RepoTypes ==
  /\ Repos \subseteq repo /\ repo \subseteq made /\ lock \subseteq repo
  /\ remote \in [Folder -> {"none", "ours", "walle"}] /\ \A F \in Folder : remote[F] # "none" => F \in repo
  /\ allow \in [Call -> BOOLEAN] /\ checked \in [Call -> Folder \union {None}]
IndexTypes ==
  /\ touched \in [Folder -> SUBSET File]
  /\ staged \in [Folder -> SUBSET Added]
  /\ head \in [Folder -> SUBSET Committed] /\ sent \in [Folder -> SUBSET Committed]
TextTypes ==
  /\ \A F \in Folder, f \in File : IsText(text[F][f]) \/ text[F][f] \in {Empty, Missing}
  /\ \A c \in Call : IsText(got[c]) \/ got[c] = Missing
  /\ met \in [Call -> BOOLEAN]

LEMMA RootIsMade == ASSUME StateTypes PROVE Root \in made /\ Root \in Folder
BY WorkspaceAssumption DEF StateTypes, IsStore, Root

\* The list of recent folders keeps its type, its bound and its folders apart.
LEMMA RecentsAre ==
  ASSUME NEW S, NEW F \in S, NEW r \in Seq(S), Len(r) <= MaxRecents,
         \A i, j \in DOMAIN r : r[i] = r[j] => i = j
  PROVE  /\ Recents(F, r) \in Seq(S) /\ Len(Recents(F, r)) <= MaxRecents
         /\ \A i, j \in DOMAIN Recents(F, r) : Recents(F, r)[i] = Recents(F, r)[j] => i = j
<1>1. Len(r) \in Nat /\ DOMAIN r = 1 .. Len(r) /\ MaxRecents \in Nat \ {0}  BY WorkspaceAssumption
<1>2. PICK place : place = IF \E i \in DOMAIN r : r[i] = F THEN CHOOSE i \in DOMAIN r : r[i] = F ELSE Len(r) + 1
  OBVIOUS
<1>3. /\ place \in 1 .. Len(r) + 1 /\ (place <= Len(r) => r[place] = F)
      /\ place = Len(r) + 1 => \A i \in DOMAIN r : r[i] # F
  <2>1. CASE \E i \in DOMAIN r : r[i] = F
    <3>1. place \in DOMAIN r /\ r[place] = F  BY <1>2, <2>1
    <3> QED  BY <1>1, <3>1
  <2>2. CASE ~(\E i \in DOMAIN r : r[i] = F)  BY <1>1, <1>2, <2>2
  <2> QED  BY <2>1, <2>2
<1>4. PICK all : all = IF place > Len(r) THEN place ELSE Len(r)  OBVIOUS
<1>5. PICK n : n = IF all < MaxRecents THEN all ELSE MaxRecents  OBVIOUS
<1>a. PICK m \in Nat : m = Len(r)  BY <1>1
<1>6. /\ n \in Nat /\ n <= MaxRecents
      /\ \A i \in 1 .. n : i <= m \/ (i = m + 1 /\ place = m + 1)
  <2>1. place \in 1 .. m + 1 /\ all = (IF place > m THEN place ELSE m)  BY <1>3, <1>4, <1>a
  <2> QED  BY <1>1, <1>5, <2>1
<1>7. PICK new : new = [i \in 1 .. n |-> IF i = 1 THEN F ELSE IF i <= place THEN r[i - 1] ELSE r[i]]  OBVIOUS
<1>8. new = Recents(F, r)  BY <1>2, <1>4, <1>5, <1>7 DEF Recents
<1>9. ASSUME NEW i \in 1 .. n
      PROVE  \/ i = 1 /\ new[i] = F
             \/ i > 1 /\ i <= place /\ i - 1 \in DOMAIN r /\ new[i] = r[i - 1] /\ i - 1 # place
             \/ i > 1 /\ i > place /\ i \in DOMAIN r /\ new[i] = r[i] /\ i # place
  <2>1. place \in 1 .. m + 1 /\ DOMAIN r = 1 .. m /\ i \in Nat /\ i >= 1  BY <1>1, <1>3, <1>6, <1>a
  <2>2. CASE i = 1  BY <1>7, <2>2
  <2>3. CASE i > 1 /\ i <= place
    <3>1. i - 1 \in 1 .. m /\ i - 1 # place  BY <2>1, <2>3
    <3>2. new[i] = r[i - 1]  BY <1>7, <2>1, <2>3
    <3> QED  BY <2>1, <2>3, <3>1, <3>2
  <2>4. CASE i > place
    <3>1. i \in 1 .. m /\ i > 1 /\ i # place  BY <1>6, <2>1, <2>4
    <3>2. new[i] = r[i]  BY <1>7, <2>1, <2>4, <3>1
    <3> QED  BY <2>1, <2>4, <3>1, <3>2
  <2> QED  BY <2>1, <2>2, <2>3, <2>4
<1>10. \A i \in 1 .. n : new[i] \in S  BY <1>1, <1>9
<1>11. DOMAIN new = 1 .. n /\ new \in [1 .. n -> S]  BY <1>7, <1>10
<1>12. new \in Seq(S) /\ Len(new) = n  BY <1>6, <1>11
<1>13. ASSUME NEW i \in 1 .. n, i # 1 PROVE new[i] # F
  <2>1. \A k \in DOMAIN r : r[k] = F => k = place  BY <1>1, <1>3
  <2> QED  BY <1>9, <1>13, <2>1
<1>14. ASSUME NEW i \in 1 .. n, NEW j \in 1 .. n, new[i] = new[j] PROVE i = j
  <2>1. CASE i = 1 \/ j = 1  BY <1>9, <1>13, <1>14, <2>1
  <2>2. CASE i # 1 /\ j # 1
    <3>1. PICK x \in DOMAIN r : new[i] = r[x] /\ x = (IF i <= place THEN i - 1 ELSE i) /\ x # place
      BY <1>3, <1>9, <2>2
    <3>2. PICK y \in DOMAIN r : new[j] = r[y] /\ y = (IF j <= place THEN j - 1 ELSE j) /\ y # place
      BY <1>3, <1>9, <2>2
    <3>3. x = y  BY <1>14, <3>1, <3>2
    <3> QED  BY <1>3, <1>6, <3>1, <3>2, <3>3
  <2> QED  BY <2>1, <2>2
<1> QED  BY <1>6, <1>8, <1>11, <1>12, <1>14

\* What is in workspaces.json stays so when a folder is made.
LEMMA StoreGrows ==
  ASSUME NEW d, IsStore(d), made \subseteq made' PROVE IsStore(d)'
<1>1. PICK r : r = d.recents  OBVIOUS
<1>2. r \in Seq(made) /\ \A i \in 1 .. Len(r) : r[i] \in made'  BY <1>1 DEF IsStore
<1>3. r \in Seq(made')  BY <1>2
<1> QED  BY <1>1, <1>3 DEF IsStore

LEMMA NoStoreIs == IsStore(NoStore)
<1>1. <<>> \in Seq(made) /\ Len(<<>>) = 0 /\ DOMAIN <<>> = {}  OBVIOUS
<1> QED  BY <1>1, WorkspaceAssumption DEF IsStore, NoStore

LEMMA LoadIs == ASSUME StateTypes, NEW F \in made
                PROVE  IsStore([current |-> F, recents |-> Recents(F, store.recents)])
<1>1. PICK r : r = store.recents  OBVIOUS
<1>2. r \in Seq(made) /\ Len(r) <= MaxRecents /\ \A i, j \in DOMAIN r : r[i] = r[j] => i = j
  BY <1>1 DEF StateTypes, IsStore
<1>3. PICK s : s = Recents(F, r)  OBVIOUS
<1>4. s \in Seq(made) /\ Len(s) <= MaxRecents /\ \A i, j \in DOMAIN s : s[i] = s[j] => i = j
  BY <1>2, <1>3, RecentsAre
<1> QED  BY <1>1, <1>3, <1>4 DEF IsStore

LEMMA InitTypes == ASSUME Init PROVE StateTypes /\ CallTypes /\ RepoTypes /\ IndexTypes /\ TextTypes
<1> USE WorkspaceAssumption, RepoAssumption DEF Init, WorkspaceInit, RepoInit
<1>1. IsStore(NoStore)  BY NoStoreIs
<1>2. IsStore(store)
  <2>1. ASSUME NEW F \in Made, store = [current |-> F, recents |-> <<F>>] PROVE IsStore(store)
    <3>1. <<F>> \in Seq(made) /\ Len(<<F>>) = 1 /\ DOMAIN <<F>> = {1}  OBVIOUS
    <3> QED  BY <2>1, <3>1 DEF IsStore
  <2> QED  BY <1>1, <2>1
<1>3. StateTypes  BY <1>1, <1>2 DEF StateTypes, IsStore
<1>4. CallTypes  BY DEF CallTypes, InFlight, Over
<1>5. RepoTypes  BY DEF RepoTypes
<1>6. IndexTypes  BY DEF IndexTypes
<1>7. TextTypes  BY DEF TextTypes, IsText
<1> QED  BY <1>3, <1>4, <1>5, <1>6, <1>7

LEMMA StartsType ==
  ASSUME TreeInv, StateTypes, CallTypes, NEW c \in Call, NEW o, NEW to, Starts(c, o, to)
  PROVE  StateTypes' /\ CallTypes'
<1>1. Root \in made  BY RootIsMade
<1>2. StateTypes'  BY DEF Starts, folderVars, StateTypes, IsStore
<1>3. CallTypes'
  BY <1>1 DEF Starts, folderVars, procVars, CallTypes, TreeInv, Shape, InFlight, Over
<1> QED  BY <1>2, <1>3

LEMMA MovesType ==
  ASSUME TreeInv, StateTypes, CallTypes, NEW c \in Call, NEW to, Moves(c, to)
  PROVE  StateTypes' /\ (killed' \in [Call -> BOOLEAN] => CallTypes')
<1>1. Root \in made /\ made \subseteq made'  BY RootIsMade DEF Moves
<1>2. StateTypes'
  <2>1. IsStore(store)' /\ IsStore(tmp)' /\ \A d \in Call : IsStore(doc[d])'
    <3>1. ASSUME NEW d, IsStore(d) PROVE IsStore(d)'  BY <1>1, <3>1, StoreGrows
    <3> QED  BY <3>1 DEF Moves, StateTypes, IsStore
  <2> QED  BY <1>1, <2>1 DEF Moves, StateTypes
<1>3. \A d \in Call : InFlight(d)' => InFlight(d)  BY DEF Moves, TreeInv, Shape, InFlight, Over
<1>4. ASSUME killed' \in [Call -> BOOLEAN] PROVE CallTypes'
  BY <1>1, <1>3, <1>4 DEF Moves, CallTypes, TreeInv, Shape
<1> QED  BY <1>2, <1>4

LEMMA OpeningTypes ==
  ASSUME TreeInv, StateTypes, CallTypes, NEW c \in Call, OpenMove(c)
  PROVE  StateTypes' /\ CallTypes'
<1> USE DEF OpenMove, TreeInv, Shape, Goes, procVars
<1>0. Root \in made  BY RootIsMade
<1>1. ASSUME Settle(c) PROVE StateTypes' /\ CallTypes'
  <2>1. where[c] \in made  BY <1>1 DEF Settle, CallTypes, InFlight, Over
  <2>2. StateTypes'  BY <1>1, <2>1 DEF Settle, StateTypes, IsStore
  <2>3. CallTypes'  BY <1>1, <2>1 DEF Settle, Notice, CallTypes, InFlight, Over
  <2> QED  BY <2>2, <2>3
<1>2. ASSUME NEW F \in made, Enter(c, F), UNCHANGED <<made, store, tmp, doc, killed>>,
             \A d \in Call : home'[d] \in {home[d], Root} /\ file'[d] \subseteq File
      PROVE  StateTypes' /\ CallTypes'
  <2>1. StateTypes'  BY <1>2 DEF Enter, StateTypes, IsStore
  <2>2. CallTypes'  BY <1>0, <1>2 DEF Enter, Notice, CallTypes, InFlight, Over
  <2> QED  BY <2>1, <2>2
<1>3. ASSUME Created(c) PROVE StateTypes' /\ CallTypes'
  <2>1. where[c] \in made  BY <1>3 DEF Created, CallTypes, InFlight, Over
  <2> QED  BY <1>2, <1>3, <2>1 DEF Created, CallTypes
<1>4. ASSUME NEW F \in Folder, Open(c, F) PROVE StateTypes' /\ CallTypes'
  BY <1>2, <1>4 DEF Open, Begin, CallTypes
<1>5. ASSUME NEW F \in Folder, Create(c, F) PROVE StateTypes' /\ CallTypes'
  <2>1. made \subseteq made' /\ made' \subseteq Folder /\ F \in made'  BY <1>5 DEF Create, StateTypes
  <2>2. StateTypes'
    <3>1. ASSUME NEW d, IsStore(d) PROVE IsStore(d)'  BY <2>1, <3>1, StoreGrows
    <3>2. IsStore(store)' /\ IsStore(tmp)' /\ \A d \in Call : IsStore(doc[d])'
      BY <1>5, <3>1 DEF Create, StateTypes, IsStore
    <3> QED  BY <1>5, <2>1, <3>2 DEF Create, StateTypes
  <2>3. CallTypes'  BY <1>0, <1>5, <2>1 DEF Create, Begin, CallTypes, InFlight, Over
  <2> QED  BY <2>2, <2>3
<1>6. ASSUME Load(c) PROVE StateTypes' /\ CallTypes'
  <2>1. where[c] \in made  BY <1>6 DEF Load, CallTypes, InFlight, Over
  <2>2. PICK new : new = [current |-> where[c], recents |-> Recents(where[c], store.recents)]  OBVIOUS
  <2>3. IsStore(new) /\ doc' = [doc EXCEPT ![c] = new]  BY <1>6, <2>1, <2>2, LoadIs DEF Load
  <2>4. StateTypes'  BY <1>6, <2>3 DEF Load, StateTypes, IsStore
  <2>5. CallTypes'  BY <1>6 DEF Load, CallTypes, InFlight, Over
  <2> QED  BY <2>4, <2>5
<1>7. ASSUME Save(c) PROVE StateTypes' /\ CallTypes'
  <2>1. StateTypes'  BY <1>7 DEF Save, StateTypes, IsStore
  <2>2. CallTypes'  BY <1>7 DEF Save, CallTypes, InFlight, Over
  <2> QED  BY <2>1, <2>2
<1>8. ASSUME Replaced(c) PROVE StateTypes' /\ CallTypes'
  <2>1. IsStore(NoStore)  BY NoStoreIs
  <2>2. StateTypes'
    BY <1>8, <2>1 DEF Replaced, StateTypes, IsStore
  <2>3. CallTypes'  BY <1>8 DEF Replaced, CallTypes, InFlight, Over
  <2> QED  BY <2>2, <2>3
<1> QED  BY <1>1, <1>3, <1>4, <1>5, <1>6, <1>7, <1>8

LEMMA StartsRepo ==
  ASSUME TreeInv, StateTypes, RepoTypes, IndexTypes, TextTypes, NEW c \in Call, NEW o, NEW to,
         Starts(c, o, to), StartsGit(c, o, to)
  PROVE  RepoTypes' /\ IndexTypes' /\ TextTypes'
<1>0. Root \in Folder  BY RootIsMade
<1>1. RepoTypes'
  <2>1. made' = made /\ repo' = repo /\ lock' = lock /\ checked' = checked  BY DEF Starts, StartsGit, folderVars
  <2>2. allow' \in [Call -> BOOLEAN]  BY DEF StartsGit, RepoTypes
  <2>3. remote' \in [Folder -> {"none", "ours", "walle"}] /\ \A F \in Folder : remote'[F] # "none" => F \in repo
    BY <1>0 DEF StartsGit, RepoTypes
  <2> QED  BY <2>1, <2>2, <2>3 DEF RepoTypes
<1>2. IndexTypes' /\ TextTypes'  BY DEF Starts, StartsGit, fileVars, IndexTypes, TextTypes
<1> QED  BY <1>1, <1>2

LEMMA AddsType ==
  ASSUME IndexTypes, NEW c \in Call, NEW fs \in SUBSET File, Adds(c, fs), UNCHANGED <<head, sent>>
  PROVE  IndexTypes'
<1>1. PICK new : new = {s \in staged[Root] : s[1] \notin fs \intersect touched[Root]}
                         \union ((fs \intersect touched[Root]) \X {c})
  OBVIOUS
<1>2. staged' = [staged EXCEPT ![Root] = new]  BY <1>1 DEF Adds
<1>3. Root \in Folder => new \subseteq Added  BY <1>1 DEF IndexTypes, Added
<1>4. staged' \in [Folder -> SUBSET Added]  BY <1>2, <1>3 DEF IndexTypes
<1>5. touched' \in [Folder -> SUBSET File]  BY DEF Adds, IndexTypes
<1> QED  BY <1>4, <1>5 DEF IndexTypes

LEMMA GitTypes ==
  ASSUME TreeInv, StateTypes, CallTypes, TodoInv, RepoTypes, IndexTypes, TextTypes, NEW c \in Call, GitMove(c)
  PROVE  RepoTypes' /\ IndexTypes' /\ TextTypes'
<1>0. Root \in made /\ Root \in Folder  BY RootIsMade
<1>t. TextTypes' /\ made' = made
  BY DEF GitMove, AddOne, AddAll, Unstage, Cached, GitCommit, GitInit, RemoteUrl, Push, Pull, RunsGit,
         folderVars, TextTypes
<1>r. ASSUME Refused(c) PROVE lock' \subseteq repo  BY <1>r DEF Refused, RepoTypes
<1>1. CASE AddOne(c)
  <2>1. RepoTypes'  BY <1>t, <1>r, <1>1 DEF AddOne, RepoTypes
  <2>2. CASE Refused(c)  BY <1>t, <1>1, <2>1, <2>2 DEF AddOne, Refused, IndexTypes
  <2>3. CASE ~Refused(c)
    <3>1. PICK f \in todo[c] : Adds(c, {f}) /\ head' = head  BY <1>1, <2>3 DEF AddOne
    <3>2. {f} \in SUBSET File  BY DEF TodoInv, CallTypes
    <3>3. sent' = sent  BY <1>1 DEF AddOne
    <3> QED  BY <1>t, <2>1, <3>1, <3>2, <3>3, AddsType
  <2> QED  BY <2>2, <2>3
<1>2. CASE AddAll(c)
  <2>1. RepoTypes'  BY <1>t, <1>r, <1>2 DEF AddAll, RepoTypes
  <2>2. CASE Refused(c)  BY <1>t, <1>2, <2>1, <2>2 DEF AddAll, Refused, IndexTypes
  <2>3. CASE ~Refused(c)
    <3>1. Adds(c, file[c]) /\ head' = head /\ sent' = sent  BY <1>2, <2>3 DEF AddAll
    <3>2. file[c] \in SUBSET File  BY DEF CallTypes
    <3> QED  BY <1>t, <2>1, <3>1, <3>2, AddsType
  <2> QED  BY <2>2, <2>3
<1>3. CASE Unstage(c)
  <2>1. RepoTypes'  BY <1>t, <1>r, <1>3 DEF Unstage, RepoTypes
  <2>2. CASE Refused(c)  BY <1>t, <1>3, <2>1, <2>2 DEF Unstage, Refused, IndexTypes
  <2>3. CASE ~Refused(c)
    <3>1. /\ staged' = [staged EXCEPT ![Root] = {s \in @ : s[1] \notin file[c]}]
          /\ touched' = [touched EXCEPT ![Root] = @ \union {s[1] : s \in {x \in staged[Root] : x[1] \in file[c]}}]
          /\ head' = head /\ sent' = sent
      BY <1>3, <2>3 DEF Unstage
    <3>2. {s \in staged[Root] : s[1] \notin file[c]} \subseteq Added  BY <1>0 DEF IndexTypes
    <3>3. {s[1] : s \in {x \in staged[Root] : x[1] \in file[c]}} \subseteq File  BY DEF CallTypes
    <3>4. staged' \in [Folder -> SUBSET Added]  BY <3>1, <3>2 DEF IndexTypes
    <3>5. touched' \in [Folder -> SUBSET File]  BY <3>1, <3>3 DEF IndexTypes
    <3> QED  BY <1>t, <2>1, <3>1, <3>4, <3>5 DEF IndexTypes
  <2> QED  BY <2>2, <2>3
<1>4. CASE Cached(c)
  BY <1>t, <1>4 DEF Cached, gitVars, RepoTypes, IndexTypes
<1>5. CASE GitCommit(c)
  <2>1. RepoTypes'  BY <1>t, <1>r, <1>5 DEF GitCommit, RepoTypes
  <2>2. CASE Refused(c)  BY <1>t, <1>5, <2>1, <2>2 DEF GitCommit, Refused, IndexTypes
  <2>3. CASE ~Refused(c)
    <3>1. /\ head' = [head EXCEPT ![Root] = @ \union {<<s[1], s[2], c>> : s \in staged[Root]}]
          /\ staged' = [staged EXCEPT ![Root] = {}] /\ touched' = touched /\ sent' = sent
      BY <1>5, <2>3 DEF GitCommit
    <3>2. {<<s[1], s[2], c>> : s \in staged[Root]} \subseteq Committed
      BY <1>0 DEF IndexTypes, Added, Committed
    <3> QED  BY <1>t, <2>1, <3>1, <3>2 DEF IndexTypes
  <2> QED  BY <2>2, <2>3
<1>6. CASE GitInit(c)
  BY <1>0, <1>t, <1>6 DEF GitInit, RepoTypes, IndexTypes
<1>7. CASE RemoteUrl(c)
  BY <1>0, <1>t, <1>7 DEF RemoteUrl, RepoTypes, IndexTypes
<1>8. CASE Push(c)
  BY <1>0, <1>t, <1>8 DEF Push, RepoTypes, IndexTypes
<1>9. CASE Pull(c)
  <2>1. RepoTypes'  BY <1>t, <1>r, <1>9 DEF Pull, RepoTypes
  <2>2. IndexTypes'  BY <1>0, <1>9 DEF Pull, Refused, IndexTypes
  <2> QED  BY <1>t, <2>1, <2>2
<1> QED  BY <1>1, <1>2, <1>3, <1>4, <1>5, <1>6, <1>7, <1>8, <1>9 DEF GitMove

LEMMA FileTypes ==
  ASSUME TreeInv, CallTypes, EditInv, TextTypes, IndexTypes, NEW c \in Call, FileMove(c),
         where[c] \in Folder
  PROVE  TextTypes' /\ touched' \in [Folder -> SUBSET File]
<1>1. op[c] \in {"edit", "write", "mkdir", "read"} /\ op' = op
  BY DEF FileMove, Mkdir, Read, RelOf, Again, Check, Truncate, Fill, Report, TreeInv, PathInv, Over, Stops
<1>2. ASSUME NEW t, PutText(c, t), IsText(t) \/ t = Empty, op[c] \in {"edit", "write"}, got' = got
      PROVE  TextTypes' /\ touched' \in [Folder -> SUBSET File]
  <2>1. TheFile(c) \in File  BY <1>2, TheFileIs DEF EditInv
  <2>2. \A F \in Folder, f \in File : IsText(text'[F][f]) \/ text'[F][f] \in {Empty, Missing}
    BY <1>2, PutsText DEF TextTypes
  <2>3. met' \in [Call -> BOOLEAN]
    BY <1>2 DEF PutText, TextTypes
  <2>4. touched' \in [Folder -> SUBSET File]  BY <1>2, <2>1 DEF PutText, IndexTypes
  <2> QED  BY <1>2, <2>2, <2>3, <2>4 DEF TextTypes
<1>3. CASE Truncate(c)
  BY <1>2, <1>3 DEF Truncate, TreeInv, PathInv, Over, Stops
<1>4. CASE Fill(c)
  <2>1. op[c] \in {"edit", "write"} /\ got' = got  BY <1>4 DEF Fill, TreeInv, PathInv, Over, Stops
  <2>2. CASE op[c] = "edit"
    <3>1. IsText(got[c])  BY <1>4, <2>2 DEF Fill, EditInv, Patches, Patching
    <3>2. PICK F \in Folder, W \in SUBSET Call : got[c] = Text(F, W)  BY <3>1 DEF IsText
    <3>3. [got[c] EXCEPT !.words = @ \union {c}] = Text(F, W \union {c})  BY <3>2 DEF Text
    <3>4. IsText(Text(F, W \union {c}))  BY DEF IsText
    <3>5. PutText(c, Text(F, W \union {c}))  BY <1>4, <2>2, <3>3 DEF Fill
    <3> QED  BY <1>2, <2>1, <3>4, <3>5
  <2>3. CASE op[c] # "edit"
    <3>1. PutText(c, Text(where[c], {c}))  BY <1>4, <2>3 DEF Fill
    <3>2. IsText(Text(where[c], {c}))  BY DEF IsText
    <3> QED  BY <1>2, <2>1, <3>1, <3>2
  <2> QED  BY <2>2, <2>3
<1>5. CASE Read(c)
  <2>1. got' = got \/ (IsText(Now(c)) /\ got' = [got EXCEPT ![c] = Now(c)])  BY <1>5 DEF Read
  <2>2. ASSUME NEW d \in Call PROVE IsText(got'[d]) \/ got'[d] = Missing
    <3>1. got'[d] = got[d] \/ (got'[d] = Now(c) /\ IsText(Now(c)))  BY <2>1 DEF EditInv
    <3>2. IsText(got[d]) \/ got[d] = Missing  BY DEF TextTypes
    <3> QED  BY <3>1, <3>2
  <2>3. UNCHANGED <<text, met, touched>>  BY <1>5 DEF Read
  <2> QED  BY <2>2, <2>3 DEF TextTypes, IndexTypes
<1>6. CASE Mkdir(c) \/ RelOf(c) \/ Again(c) \/ Check(c) \/ Report(c)
  BY <1>6 DEF Mkdir, RelOf, Again, Check, Report, fileVars, TextTypes, IndexTypes
<1> QED  BY <1>3, <1>4, <1>5, <1>6 DEF FileMove

Types == StateTypes /\ CallTypes /\ RepoTypes /\ IndexTypes /\ TextTypes

\* A step that makes no folder and no repository keeps what is there.
LEMMA RepoStays == ASSUME RepoTypes, made \subseteq made', UNCHANGED gitVars PROVE RepoTypes'
BY DEF RepoTypes, gitVars

LEMMA RestartTypes == ASSUME TreeInv, Types, Restart, UNCHANGED gitVars PROVE Types'
<1> USE DEF Restart, Types
<1>1. StateTypes'  BY NoStoreIs DEF StateTypes, IsStore
<1>2. CallTypes'  BY DEF CallTypes, procVars, InFlight, Over
<1>3. RepoTypes'  BY RepoStays
<1>4. IndexTypes' /\ TextTypes'  BY DEF IndexTypes, TextTypes, fileVars, gitVars
<1> QED  BY <1>1, <1>2, <1>3, <1>4

LEMMA TypesHold == Spec => []Types
<1>1. Init => Types
  BY InitTypes DEF Types
<1>2. TreeInv /\ TodoInv /\ EditInv /\ Types /\ [Next]_<<wsVars, gitVars>> => Types'
  <2> SUFFICES ASSUME TreeInv, TodoInv, EditInv, Types, [Next]_<<wsVars, gitVars>> PROVE Types'  OBVIOUS
  <2> USE DEF Types
  <2>1. ASSUME UNCHANGED <<folderVars, callVars, killed, text, got, met, repo, lock, remote, allow, checked>>,
               IndexTypes'
        PROVE  Types'
    <3>1. StateTypes'  BY <2>1 DEF StateTypes, IsStore, folderVars
    <3>2. CallTypes'  BY <2>1 DEF CallTypes, folderVars, callVars, InFlight, Over
    <3>3. RepoTypes' /\ TextTypes'  BY <2>1 DEF RepoTypes, TextTypes, folderVars
    <3> QED  BY <2>1, <3>1, <3>2, <3>3
  <2>2. CASE UNCHANGED <<wsVars, gitVars>>
    BY <2>1, <2>2 DEF wsVars, gitVars, fileVars, procVars, IndexTypes
  <2>3. ASSUME NEW c \in Call, NEW o, NEW to, Starts(c, o, to), StartsGit(c, o, to) PROVE Types'
    BY <2>3, StartsType, StartsRepo
  <2>4. ASSUME NEW c \in Call, FileMove(c), UNCHANGED gitVars PROVE Types'
    <3>1. PICK to : Moves(c, to)  BY <2>4, FileMoves
    <3>2. killed' = killed
      BY <2>4 DEF FileMove, Mkdir, Read, RelOf, Again, Check, Truncate, Fill, Report, procVars
    <3>3. StateTypes' /\ CallTypes'  BY <3>1, <3>2, MovesType DEF CallTypes
    <3>4. where[c] \in Folder  BY <3>1 DEF Moves, CallTypes, StateTypes
    <3>5. TextTypes' /\ IndexTypes'  BY <2>4, <3>4, FileTypes DEF IndexTypes, gitVars
    <3> QED  BY <2>4, <3>1, <3>3, <3>5, RepoStays DEF Moves
  <2>5. ASSUME NEW c \in Call, BashMove(c), UNCHANGED gitVars PROVE Types'
    <3>1. PICK to : Moves(c, to)  BY <2>5, BashMoves
    <3>2. killed' \in [Call -> BOOLEAN] /\ fileVars' = fileVars
      BY <2>5 DEF BashMove, Spawn, Poll, Communicate, Communicate2, KillGroup, procVars, CallTypes
    <3>3. StateTypes' /\ CallTypes'  BY <3>1, <3>2, MovesType
    <3>4. TextTypes' /\ IndexTypes'  BY <2>5, <3>2 DEF fileVars, gitVars, TextTypes, IndexTypes
    <3> QED  BY <2>5, <3>1, <3>3, <3>4, RepoStays DEF Moves
  <2>6. ASSUME NEW c \in Call, OpenMove(c), UNCHANGED gitVars PROVE Types'
    <3>1. StateTypes' /\ CallTypes'  BY <2>6, OpeningTypes
    <3>2. made \subseteq made' /\ fileVars' = fileVars
      BY <2>6 DEF OpenMove, Settle, Created, Load, Save, Replaced, Open, Create
    <3>3. TextTypes' /\ IndexTypes'  BY <2>6, <3>2 DEF fileVars, gitVars, TextTypes, IndexTypes
    <3> QED  BY <2>6, <3>1, <3>2, <3>3, RepoStays
  <2>7. ASSUME NEW c \in Call, Lives(c), UNCHANGED gitVars PROVE Types'
    <3>1. UNCHANGED <<folderVars, fileVars, killed, callVars>>  BY <2>7 DEF Lives, Fork, Exit
    <3> QED  BY <2>1, <2>7, <3>1 DEF fileVars, gitVars, IndexTypes
  <2>8. ASSUME NEW c \in Call, GitMove(c) PROVE Types'
    <3>1. PICK to : Moves(c, to)  BY <2>8, GitMoves
    <3>2. killed' = killed
      BY <2>8 DEF GitMove, AddOne, AddAll, Unstage, Cached, GitCommit, GitInit, RemoteUrl, Push, Pull,
                  RunsGit, procVars
    <3> QED  BY <2>8, <3>1, <3>2, MovesType, GitTypes DEF CallTypes
  <2>9. ASSUME NEW F \in Folder, Outside(F) PROVE Types'
    <3>1. CASE Upstream(F)
      <4>1. PICK f \in File : sent' = [sent EXCEPT ![F] = @ \union {<<f, None, None>>}]
        BY <3>1 DEF Upstream
      <4>2. <<f, None, None>> \in Committed  BY DEF Committed
      <4>3. UNCHANGED <<wsVars, repo, lock, staged, head, remote, allow, checked>>  BY <3>1 DEF Upstream
      <4>4. IndexTypes'  BY <4>1, <4>2, <4>3 DEF IndexTypes, wsVars, fileVars
      <4> QED  BY <2>1, <4>3, <4>4 DEF wsVars, fileVars, procVars
    <3>2. ASSUME NEW f \in File, ByHand(F, f) PROVE Types'
      <4>1. IndexTypes'  BY <3>2 DEF ByHand, gitVars, IndexTypes
      <4> QED  BY <2>1, <3>2, <4>1 DEF ByHand, gitVars, procVars
    <3> QED  BY <2>9, <3>1, <3>2 DEF Outside
  <2>10. CASE Next
    BY <2>10, <2>3, <2>4, <2>5, <2>6, <2>7, <2>8, <2>9, NextKinds, RestartTypes
  <2> QED  BY <2>2, <2>10
<1> QED  BY <1>1, <1>2, TreeInvHolds, TodoInvHolds, EditInvHolds, PTL DEF Spec

\* Every folder that the server, a running call, a repository or workspaces.json has is
\* one that is there (no step removes any), workspaces.json lists at most MaxRecents,
\* each once, an index.lock or a remote belongs to a repository, and a file or an edit
\* holds a text of some folder, nothing, or no file.
THEOREM TypeCorrect == Spec => []TypeOK
<1>1. Types /\ TodoInv /\ BashInv => TypeOK
  BY DEF Types, StateTypes, CallTypes, RepoTypes, IndexTypes, TextTypes, TodoInv, BashInv,
         TypeOK, WorkspaceTypeOK, RepoTypeOK
<1> QED  BY <1>1, TypesHold, TodoInvHolds, BashInvHolds, PTL
=============================================================================
