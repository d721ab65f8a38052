----------------------------- MODULE Workspace -----------------------------
(***************************************************************************)
(* The folder the cockpit works in and the files in it: workspace.py and   *)
(* the tools repo_edit, repo_write and repo_bash.  Every call runs in a    *)
(* thread of its own and asks root() anew each time it needs the folder;   *)
(* the operator may open another folder, write a file or restart the       *)
(* server between any two of these.  The file system is the only lock.     *)
(***************************************************************************)
EXTENDS Naturals, Sequences, FiniteSets

CONSTANTS Folder,      \* the folders check_open lets the operator open
          File,        \* relative names
          Call,        \* bound: the calls, tools' and operator's, each made once
          Default,     \* _default_root
          Made,        \* the folders that exist from the start
          None,        \* no folder
          MaxRecents   \* 12 in the code

ASSUME WorkspaceAssumption ==
  /\ Default \in Made /\ Made \subseteq Folder /\ None \notin Folder
  /\ MaxRecents \in Nat \ {0}

VARIABLES
  scene,     \* bound: the operation each call makes in this behaviour
  made,      \* the folders that exist
  live,      \* _live
  store,     \* workspaces.json
  tmp,       \* workspaces.json.tmp: one name for all calls
  text,      \* what each file holds
  touched,   \* the files changed since the last git add of them
  op,        \* what each call does
  at,        \* where it is
  where,     \* the folder it took root() for; of an open, the one it opens
  home,      \* history: what root() answered when it began
  file,      \* the files it names
  got,       \* the text an edit has read
  doc,       \* the state an open has composed
  procs,     \* the processes of a repo_bash that are left
  killed,    \* history: has the call signalled its process group?
  moved,     \* history: did root() change its answer while the call ran?
  met,       \* history: did another call write the file an edit had read?
  opened,    \* history: the folder opened last
  raced      \* history: has one open met another, a restart or a fallback?

folderVars == <<made, live, store, tmp, doc, opened, raced>>
fileVars   == <<text, touched, got, met>>
procVars   == <<procs, killed>>
callVars   == <<op, at, where, home, file, moved>>
wsVars     == <<scene, folderVars, fileVars, procVars, callVars>>

NoStore == [current |-> None, recents |-> <<>>]
\* The folders that workspaces.json names are there, the recent ones once each.
IsStore(d) == /\ d.current \in made \union {None}
              /\ d.recents \in Seq(made) /\ Len(d.recents) <= MaxRecents
              /\ \A i, j \in DOMAIN d.recents : d.recents[i] = d.recents[j] => i = j
\* A text: the folder whose file it grew in, and the calls whose words are in it.
Text(F, W) == [kind |-> "text", from |-> F, words |-> W]
Empty   == [kind |-> "empty", from |-> None, words |-> {}]     \* truncated, not yet filled
Missing == [kind |-> "missing", from |-> None, words |-> {}]
IsText(t) == t \in {Text(F, W) : F \in Folder, W \in SUBSET Call}

Over(c) == at[c] \in {"done", "failed", "lost"}
InFlight(c) == at[c] # "idle" /\ ~Over(c)
Opening(c) == at[c] \in {"load", "save", "replace"}

WorkspaceTypeOK ==
  /\ Made \subseteq made /\ made \subseteq Folder
  /\ live \in made \union {None}
  /\ IsStore(store) /\ IsStore(tmp) /\ \A c \in Call : IsStore(doc[c])
  /\ \A F \in Folder, f \in File : IsText(text[F][f]) \/ text[F][f] \in {Empty, Missing}
  /\ touched \in [Folder -> SUBSET File]
  /\ \A c \in Call : /\ where[c] \in Folder \union {None} /\ home[c] \in made \union {None}
                     /\ file[c] \subseteq File
                     /\ InFlight(c) => where[c] \in made
                     /\ procs[c] \subseteq {"leader", "piped", "quiet", "away"}
                     /\ IsText(got[c]) \/ got[c] = Missing
  /\ killed \in [Call -> BOOLEAN] /\ moved \in [Call -> BOOLEAN] /\ met \in [Call -> BOOLEAN]
  /\ opened \in made \union {None} /\ raced \in BOOLEAN

WorkspaceInit ==
  /\ made = Made /\ live = None
  /\ store \in {NoStore} \union {[current |-> F, recents |-> <<F>>] : F \in Made \ {Default}}
  /\ tmp = NoStore /\ opened = store.current /\ raced = FALSE
  /\ text = [F \in Folder |-> [f \in File |-> IF F \in Made THEN Text(F, {}) ELSE Missing]]
  /\ touched = [F \in Folder |-> IF F \in Made THEN File ELSE {}]
  /\ op = [c \in Call |-> "none"] /\ at = [c \in Call |-> "idle"]
  /\ where = [c \in Call |-> None] /\ home = where /\ file = [c \in Call |-> {}]
  /\ got = [c \in Call |-> Missing] /\ doc = [c \in Call |-> NoStore]
  /\ procs = [c \in Call |-> {}] /\ killed = [c \in Call |-> FALSE]
  /\ moved = [c \in Call |-> FALSE] /\ met = [c \in Call |-> FALSE]

-----------------------------------------------------------------------------
(* root()                                                                  *)

\* What root() answers now.
Root == IF live # None THEN live
        ELSE IF store.current # None THEN store.current ELSE Default

Goes(c, to) == at' = [at EXCEPT ![c] = to]
\* Conjunct of every step that may change the answer of root().
Notice == moved' = [c \in Call |-> moved[c] \/ (InFlight(c) /\ Root' # Root)]

\* The first root() of call c, which then goes to next.  A server that has just
\* started reads workspaces.json and enters what it read in _live a moment later.
FirstRoot(c, next) ==
  /\ where' = [where EXCEPT ![c] = Root]
  /\ Goes(c, IF live = None /\ store.current # None THEN "settle" ELSE next)

Begin(c, o, fs) ==
  /\ at[c] = "idle" /\ scene[c] = o
  /\ op' = [op EXCEPT ![c] = o]
  /\ file' = [file EXCEPT ![c] = fs]
  /\ home' = [home EXCEPT ![c] = Root]

\* Where each operation goes once it has the folder.
AfterRoot == [read |-> "done", write |-> "check", edit |-> "read", bash |-> "spawn",
          commit |-> "stage", opcommit |-> "stage", stage |-> "stage", unstage |-> "stage",
          push |-> "remote", pull |-> "remote", init |-> "init", mkdir |-> "mkdir"]

Settle(c) ==
  /\ at[c] = "settle"
  /\ live' = where[c]
  /\ raced' = (raced \/ (live # None /\ live # where[c]))
  /\ Goes(c, AfterRoot[op[c]])
  /\ Notice
  /\ UNCHANGED <<scene, made, store, tmp, doc, opened, fileVars, procVars, op, where, home, file>>

\* listdir, glob, grep, read and the rest of the calls that only look.
Look(c) ==
  /\ Begin(c, "read", {}) /\ FirstRoot(c, "done")
  /\ UNCHANGED <<scene, folderVars, fileVars, procVars, moved>>

-----------------------------------------------------------------------------
(* Opening a folder                                                        *)

\* Mutant: nothing is loaded before it is saved, only the list is.
LoadList(c) ==
  /\ at[c] = "load"
  /\ doc' = [doc EXCEPT ![c] = [store EXCEPT !.recents = <<where[c]>>]]
  /\ Goes(c, "save")
  /\ UNCHANGED <<scene, made, live, store, tmp, opened, raced, fileVars, procVars, op, where, home, file, moved>>

Enter(c, F) ==
  /\ live' = F /\ opened' = F
  /\ raced' = (raced \/ \E d \in Call \ {c} : Opening(d) \/ at[d] = "settle")
  /\ where' = [where EXCEPT ![c] = F]
  /\ Goes(c, "load")
  /\ Notice

\* open_workspace: _live first, the state file after.  What check_open refuses
\* changes nothing.
Open(c, F) ==
  /\ Begin(c, "open", {}) /\ F \in made
  /\ Enter(c, F)
  /\ UNCHANGED <<scene, made, store, tmp, doc, fileVars, procVars>>

\* create_workspace: mkdir (and git init, which its repository is left to), ...
Create(c, F) ==
  /\ Begin(c, "create", {}) /\ F \notin made
  /\ made' = made \union {F}
  /\ where' = [where EXCEPT ![c] = F]
  /\ Goes(c, "created")
  /\ UNCHANGED <<scene, live, store, tmp, doc, opened, raced, fileVars, procVars, moved>>

\* ... then open_workspace.
Created(c) ==
  /\ at[c] = "created"
  /\ Enter(c, where[c])
  /\ UNCHANGED <<scene, made, store, tmp, doc, fileVars, procVars, op, home, file>>

\* The folder comes first and leaves its place in the list, if it has one; the end
\* is cut.
Recents(F, r) ==
  LET place == IF \E i \in DOMAIN r : r[i] = F THEN CHOOSE i \in DOMAIN r : r[i] = F ELSE Len(r) + 1
      all   == IF place > Len(r) THEN place ELSE Len(r)
  IN [i \in 1 .. (IF all < MaxRecents THEN all ELSE MaxRecents) |->
        IF i = 1 THEN F ELSE IF i <= place THEN r[i - 1] ELSE r[i]]

Load(c) ==
  /\ at[c] = "load"
  /\ doc' = [doc EXCEPT ![c] = [current |-> where[c], recents |-> Recents(where[c], store.recents)]]
  /\ Goes(c, "save")
  /\ UNCHANGED <<scene, made, live, store, tmp, opened, raced, fileVars, procVars, op, where, home, file, moved>>

\* _save_state.  The small text is written in one step.
Save(c) ==
  /\ at[c] = "save"
  /\ tmp' = doc[c]
  /\ Goes(c, "replace")
  /\ UNCHANGED <<scene, made, live, store, doc, opened, raced, fileVars, procVars, op, where, home, file, moved>>

\* chmod and replace: FileNotFoundError when another open was first.
Replaced(c) ==
  /\ at[c] = "replace"
  /\ IF tmp = NoStore THEN Goes(c, "failed") /\ UNCHANGED <<store, tmp>>
     ELSE Goes(c, "done") /\ store' = tmp /\ tmp' = NoStore
  /\ doc' = [doc EXCEPT ![c] = NoStore]
  /\ UNCHANGED <<scene, made, live, opened, raced, fileVars, procVars, op, where, home, file, moved>>

\* mkdir_here: an empty folder in the one that is open, unless the name is taken.
MkdirHere(c) ==
  /\ Begin(c, "mkdir", {}) /\ FirstRoot(c, "mkdir")
  /\ UNCHANGED <<scene, folderVars, fileVars, procVars, moved>>
Mkdir(c) ==
  /\ at[c] = "mkdir"
  /\ \/ \E F \in Folder \ made : made' = made \union {F} /\ Goes(c, "rel")
     \/ Goes(c, "failed") /\ UNCHANGED made
  /\ UNCHANGED <<scene, live, store, tmp, doc, opened, raced, fileVars, procVars, op, where, home, file, moved>>

-----------------------------------------------------------------------------
(* Writing and editing a file                                              *)

TheFile(c) == CHOOSE f \in file[c] : TRUE
Now(c) == text[where[c]][TheFile(c)]

\* safe(): the path is bound to the folder of this moment.
Write(c, f) ==
  /\ Begin(c, "write", {f}) /\ FirstRoot(c, "check")
  /\ UNCHANGED <<scene, folderVars, fileVars, procVars, moved>>
Edit(c, f) ==
  /\ Begin(c, "edit", {f}) /\ FirstRoot(c, "read")
  /\ UNCHANGED <<scene, folderVars, fileVars, procVars, moved>>

\* edit: is_file, skipped (ValueError when the folder is another one now), the
\* text, and the refusals: old_string short, absent, repeated or a new heading.
Read(c) ==
  /\ at[c] = "read"
  /\ \/ /\ Root = where[c] /\ IsText(Now(c))
        /\ Goes(c, "relof")
        /\ got' = [got EXCEPT ![c] = Now(c)]
     \/ Goes(c, "failed") /\ UNCHANGED got
  /\ UNCHANGED <<scene, folderVars, text, touched, met, procVars, op, where, home, file, moved>>

\* rel_of(p), ...
RelOf(c) ==
  /\ at[c] = "relof"
  /\ Goes(c, IF Root = where[c] THEN "again" ELSE "failed")
  /\ UNCHANGED <<scene, folderVars, fileVars, procVars, op, where, home, file, moved>>

\* ... and safe() once more, in write().
Again(c) ==
  /\ at[c] = "again"
  /\ where' = [where EXCEPT ![c] = Root]
  /\ Goes(c, "check")
  /\ UNCHANGED <<scene, folderVars, fileVars, procVars, op, home, file, moved>>

\* write: parent.mkdir and skipped.
Check(c) ==
  /\ at[c] = "check"
  /\ Goes(c, IF Root = where[c] THEN "truncate" ELSE "failed")
  /\ UNCHANGED <<scene, folderVars, fileVars, procVars, op, where, home, file, moved>>

PutText(c, t) ==
  /\ text' = [text EXCEPT ![where[c]][TheFile(c)] = t]
  /\ touched' = [touched EXCEPT ![where[c]] = @ \union {TheFile(c)}]
  /\ met' = [d \in Call |-> met[d] \/ ( d # c /\ op[d] = "edit" /\ InFlight(d) /\ got[d] # Missing
                                        /\ where[d] = where[c] /\ file[d] = file[c] )]

\* write_text empties the file ...
Truncate(c) ==
  /\ at[c] = "truncate"
  /\ PutText(c, Empty)
  /\ Goes(c, "fill")
  /\ UNCHANGED <<scene, folderVars, got, procVars, op, where, home, file, moved>>

\* Mutant: the patch is put in the place of the text.
FillPatch(c) ==
  /\ at[c] = "fill"
  /\ PutText(c, Text(where[c], {c}))
  /\ Goes(c, "rel")
  /\ UNCHANGED <<scene, folderVars, got, procVars, op, where, home, file, moved>>

\* ... and fills it: an edit with what it read and its own words, a write with its own.
Fill(c) ==
  /\ at[c] = "fill"
  /\ PutText(c, IF op[c] = "edit" THEN [got[c] EXCEPT !.words = @ \union {c}]
                ELSE Text(where[c], {c}))
  /\ Goes(c, "rel")
  /\ UNCHANGED <<scene, folderVars, got, procVars, op, where, home, file, moved>>

\* rel_of(p) for the diff: the call reports an error for a text it has written
\* when the folder is another one now.
Report(c) ==
  /\ at[c] = "rel"
  /\ Goes(c, IF Root = where[c] THEN "done" ELSE "failed")
  /\ UNCHANGED <<scene, folderVars, fileVars, procVars, op, where, home, file, moved>>

-----------------------------------------------------------------------------
(* repo_bash                                                               *)

\* sudo, git push, git commit, and npm and the like at the root of kalived, are
\* refused.
Bash(c) ==
  /\ Begin(c, "bash", {}) /\ FirstRoot(c, "spawn")
  /\ UNCHANGED <<scene, folderVars, fileVars, procVars, moved>>
Spawn(c) ==
  /\ at[c] = "spawn"
  /\ \/ Goes(c, "failed") /\ UNCHANGED procs                        \* refused or not found
     \/ Goes(c, "poll") /\ procs' = [procs EXCEPT ![c] = {"leader"}]
  /\ UNCHANGED <<scene, folderVars, fileVars, killed, op, where, home, file, moved>>

\* What the processes do, while the leader runs or later: children that hold the
\* pipes or do not (quiet), or have left the group with them (away); a file
\* changed; an end.
Fork(c, k) ==
  /\ "leader" \in procs[c]
  /\ procs' = [procs EXCEPT ![c] = @ \union {k}]
  /\ UNCHANGED <<scene, folderVars, fileVars, killed, callVars>>
Exit(c, k) ==
  /\ k \in procs[c]
  /\ procs' = [procs EXCEPT ![c] = @ \ {k}]
  /\ UNCHANGED <<scene, folderVars, fileVars, killed, callVars>>

KillGroup(c) ==
  /\ procs' = [procs EXCEPT ![c] = @ \intersect {"away"}]
  /\ killed' = [killed EXCEPT ![c] = TRUE]

\* The poll loop: the leader ended; or the stop or the time limit, and _kill_pg.
Poll(c) ==
  /\ at[c] = "poll"
  /\ \/ "leader" \notin procs[c] /\ UNCHANGED procVars
     \/ "leader" \in procs[c] /\ KillGroup(c)
  /\ Goes(c, "communicate")
  /\ UNCHANGED <<scene, folderVars, fileVars, op, where, home, file, moved>>

PipesClosed(c) == procs[c] \subseteq {"quiet"}
\* Mutant: whoever still holds a pipe after two seconds is left alone.
CommunicateOnce(c) ==
  /\ at[c] = "communicate"
  /\ Goes(c, IF PipesClosed(c) THEN "done" ELSE "failed") /\ UNCHANGED procVars
  /\ UNCHANGED <<scene, folderVars, fileVars, op, where, home, file, moved>>

\* communicate(timeout=2): a child that holds a pipe costs the group its life, ...
Communicate(c) ==
  /\ at[c] = "communicate"
  /\ \/ PipesClosed(c) /\ Goes(c, "done") /\ UNCHANGED procVars
     \/ ~PipesClosed(c) /\ Goes(c, "communicate2") /\ KillGroup(c)
  /\ UNCHANGED <<scene, folderVars, fileVars, op, where, home, file, moved>>

\* ... and one that left the group costs the call its result: TimeoutExpired.
Communicate2(c) ==
  /\ at[c] = "communicate2"
  /\ Goes(c, IF PipesClosed(c) THEN "done" ELSE "failed")
  /\ UNCHANGED <<scene, folderVars, fileVars, procVars, op, where, home, file, moved>>

-----------------------------------------------------------------------------
\* The server restarts: its calls are gone, files and processes are not.
Restart ==
  /\ live # None
  /\ live' = None
  /\ raced' = (raced \/ \E c \in Call : Opening(c))
  /\ at' = [c \in Call |-> IF InFlight(c) THEN "lost" ELSE at[c]]
  /\ doc' = [c \in Call |-> NoStore]
  /\ UNCHANGED <<scene, made, store, tmp, opened, fileVars, procVars, op, where, home, file, moved>>

WorkspaceNext ==
  \/ \E c \in Call :
       \/ Settle(c) \/ Look(c) \/ Created(c) \/ Load(c) \/ Save(c) \/ Replaced(c)
       \/ MkdirHere(c) \/ Mkdir(c)
       \/ \E F \in Folder : Open(c, F) \/ Create(c, F)
       \/ \E f \in File : Write(c, f) \/ Edit(c, f)
       \/ Read(c) \/ RelOf(c) \/ Again(c) \/ Check(c) \/ Truncate(c) \/ Fill(c) \/ Report(c)
       \/ Bash(c) \/ Spawn(c) \/ Poll(c) \/ Communicate(c) \/ Communicate2(c)
       \/ \E k \in {"piped", "quiet", "away"} : Fork(c, k)
       \/ \E k \in procs[c] : Exit(c, k)
  \/ Restart

=============================================================================
