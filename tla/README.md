# kalive: a TLA+ model of its state and its promises

kalive watches one Linux host. Shell scripts scan it and write a verdict, shell
playbooks change it when the verdict allows that, and a cockpit (FastAPI and a
web client on the loopback) starts the scans and playbooks as root jobs, explains
the verdicts, runs a chat with LLM agents that call tools on a folder, remembers
what they did, and shows a preview of what they build. There is no database of its
own and there are few locks: state is files, processes, firewall rules, a few
optional stores and the memory of one Python process. What is hard in it is who
acts between two steps of whom, and what is left when a step never comes.

The modules here model those parts from the source. TLC checks small instances;
TLAPS proves every safety property of the runs for every instance. Line
numbers are in `PROJECT.json` (`map`), definition by definition.

## Inventory

| Component | State | Operations | Talks to | Module |
|---|---|---|---|---|
| Detached jobs, `cockpit/backend/app/hiroshima.py` | `_jobs`, `jobs.json`, root processes | `start_named`, `job_get`, `jobs_list`, watch thread, `_reap`, restart | memory, playbooks and scans (as processes) | `HiroshimaJobs`, `DetachedJob` |
| Scan directories, `scripts/kalived-scan.sh`, `scripts/lib/kalived-verdict.sh` | `logs/status/<stamp>/` | live scan, refused scan, `--from-dir` | the gate reads them | `Snapshots` |
| Gate, `playbooks/lib/kalived-gate.sh` | none | `kalived_require_not_alert`, `kalived_latest_*` | scan directories | `Snapshots`, `AideInit` |
| Containment, `playbooks/isolate-dst.sh`, `isolate-undo.sh` | firewall rules, `isolate-rollback.json` | isolate, undo | gate, scan directories | `Isolate` |
| aide-init and its scope, `playbooks/aide-init.sh`, `scripts/lib/aide_classify.py`, `check-aide.sh` | `aide-scope.json` | classify a report, freeze paths | gate, scan directories, dpkg | `AideInit` |
| kill-pid, `playbooks/kill-pid.sh` | `act.json`, processes | confirm, check, signal | gate, jobs | `KillPid` |
| Decisions, `hiroshima_decide.py`, `falco_burst.py`, `suricata_eve.py`, `scan_actions.py` | `protocol.json`, `env_class.toml` | explain, port, tag the network, offer rows | scan directories, models, memory | `Decision`, `Protocol` |
| Preview, `preview.py` | `preview.json`, one child | `start`, `stop`, `status` | tools and endpoints call it | `Preview` |
| Chat turn, `ws.py`, `llm.py`, `orchestrate.py`, tool dispatch in `tools.py` | the socket's `stop` and `busy`, the locals of `run_turn` | user message, stop, disconnect, rounds, tool calls, `ask_agent` | models over HTTP, tools, memory | `Turn` |
| Workspace tools, `workspace.py`, `tools.py` | `_live`, `workspaces.json`, the operator's files, processes of `repo_bash` | open, create, mkdir, look, write, edit, bash | git, the operator | `Workspace` |
| Git, `repo_git.py`, `git_panel.py` | the index, the history, remotes | commit, stage, unstage, init, add remote, push, pull | workspace | `RepoGit` |
| Agent memory, `memory.py`, `decide.py` | sqlite, Qdrant, Kuzu, MinIO, Redis | `remember_engram`, `recall`, `gate_recall`, `classify_turn`, reindex | turn, jobs, decisions | `Memory`, `Recall` |
| Conversations, keys, settings, watch files: `sessions.py`, `secrets_store.py`, `runtime_config.py`, `hiroshima_watch.py` | one file per conversation and an index, `env`, `config.toml`, systemd timers, buffer and window | create, save, put, append | web client, `kalived-ctl` | `DeskFiles` |
| Terminals, `api/pty_ws.py`, `term.py` | ptys, `_live` | open, read, write, close | sockets | `Terminals` |
| Intent, browser bridge, extensions, MCP, API server, advisor, install playbooks, web client | see `PROJECT.json` | | | not modelled |

What makes each of the modelled components correct:

* **Jobs**: they keep the promise of `DetachedJob`: a record says done only of an
  ended process and timeout only of one that is killed, is final, and comes out
  of a restart as what its process is. Every start answers; nothing runs for ever.
* **Gate, containment, freezing, signals**: nothing is denied, frozen or signalled
  while the newest live scan closes the gate; every rule is on the record that the
  undo reads; no freeze hides tampering; the signal hits what was confirmed.
* **Decisions**: the explanation that is served fits the verdict beside it; no
  model talks a hard artifact down; isolation is offered only at home.
* **Preview**: the child on record is the child that runs; the port that answers
  is the child's own; every call returns.
* **Turn**: a stop belongs to one turn and ends its round; every end is
  announced; caps, brakes and cuts hold whatever the model asks for; every turn ends.
* **Workspace and git**: an edit keeps the text it edits; the folder opened last is
  the one that comes back; a command leaves no processes in its group; a commit
  has what somebody with consent has named; wallE is never pushed to.
* **Desk**: the stores of an engram agree; a model cannot make a change be answered
  from memory; index and files agree; settings hold; terminals give slots back.

The hard behaviours, each with its line, are the `hazards` of `PROJECT.json`.

## Modules

| Module | What it is |
|---|---|
| `DetachedJob` | what a detached job promises: the abstract specification |
| `HiroshimaJobs` | the job manager, which implements it |
| `Snapshots` | scan directories and the gate; the others below it are built on it |
| `Isolate` | the two containment playbooks (EXTENDS `Snapshots`) |
| `AideInit`, `KillPid` | the two other playbooks (EXTEND `Snapshots`) |
| `Playbooks` | composes these two |
| `Decision` | evidence, findings, rules, veto and rows, as operators |
| `Protocol` | `ensure_protocol` and the network's tag (EXTENDS `Decision`) |
| `Preview` | the preview child |
| `Turn` | one socket, its turn and a turn inside it |
| `Workspace`, `RepoGit` | the folder and its files; git in it (EXTENDS `Workspace`) |
| `Tree` | composes the two |
| `Recall` | scores, gate and salience, as operators |
| `Memory` | the five stores (EXTENDS `Recall`) |
| `DeskFiles`, `Terminals` | the desk's files; the terminals |
| `Desk` | composes the last three |
| `..._proofs` | theorems: `HiroshimaJobs`, `Turn`, `Snapshots`, `Playbooks` (with `Isolate`), `Protocol`, `Preview`, `Tree`, `Desk` |
| `MC...` | instances for TLC |

Many modules have `scene`, a variable that never changes: it says which calls,
inputs and faults meet in a behaviour. It bounds the instance to the meetings that
can matter; the steps themselves know nothing of it but which call makes which
request.

### HiroshimaJobs

A job is identified with the request that makes it. `pc[r]` is where the thread
of `start_named` is; `proc` is the process table; `jobs` and `disk` are the
statuses in `_jobs` and in `jobs.json`. Everything under `with _lock` is a
holder (`lock`, `todo`, `reaping`, `at`): the watch thread, a poll or the join
check reaps the jobs of `todo` one after the other, in the steps of `_reap`
(look at the process, `_close_job`, what follows). The loop at the end of
`start_named` calls `_reap` without the lock, so `own[r]` takes the same steps
beside the holder. `Persist` may fail (its callers swallow `OSError`); `Slim`
is what it writes. `Restart` loses memory and threads, keeps processes, and
loads the file.

Left out: refusals before the join check (no confirmation, unknown name, a
failing `act.json`), because they change nothing here; the text of logs and
hints; reuse of a pid (`_still_ours` is taken to work); the instant in which
`sudo` has not yet become root. A `jobs.json` is always whole, since it is
written beside and renamed. `MaySignal` says whether the server may signal its
jobs; the code needs it to be so, and `jobs_signal` shows what happens when it
is not.

### Snapshots and Isolate

A scan is the rank of its directory's name. Its life: live scans collect, write
`meta.txt`, run the modules (a set of severities of `Finds`, an ERROR for a
crashed one), open and then fill `verdict.json`; a refused scan writes an ERROR at once
and no `meta.txt`; a `--from-dir` scan copies a whole directory and then removes
the verdict. Any scan may be cut off. An isolation asks the gate, looks the
directory up again, denies its destinations one by one and writes the record in
two steps; an undo reads the record, deletes the rules one by one (ufw may refuse)
and unlinks it. Any run may be killed. Left out: a dry run of an isolation (a dry
undo is one whose deletions all fail), and rules an administrator made by hand.
Three variables are history: `overlap` (two runs were busy at once), `stray`
(destinations whose record was lost by a kill or by a later isolation) and
`refused` (rules ufw kept). The code provides for none of the three;
`UndoRestores` says that there is no fourth way to lose a rule.

### Preview

`start` begins with `stop`: read the record, kill, unlink. Then it picks a port,
starts a child, waits for the port or the child's death or twelve seconds, and
saves. Endpoints and tools call from threads of their own, so each of those
points is a step. The child binds, dies or does neither. `taken` ports belong
to other programs and stay as they are. `disturbed` is history: calls
overlapped or a restart cut one off.

### Turn

The receive loop and the turn share one event loop, so an action is what lies
between two awaits. `frame[d]` holds the locals of `run_turn` for the agent that
was asked (0) and for the one it asks (1). `Call`, then `Result`, `JobOver` or
`Dispatch` is one pass of the tool loop; `RoundEnds` is `next_brake` and the cuts.
Kinds of tools stand for tools that the brake tells apart. `told` is what has been
sent about the end of the turn; after a disconnect it is lost, and `Announced`
claims nothing of it. `see_streak` is left out: it exceeds 0 only in the round
that switches tools off. Left out: other messages of the socket, a second socket,
agents with an empty list of tools (for which `names` is None), `run_turn`
without cancel.

### AideInit, KillPid, Playbooks

A path has a class (identity, kalived's own, Proton's), a content and the content
its package ships; `Change` and the end of a day's `window` after an upgrade are
the environment's. `Collect` is `aide --check`, `CheckSums` what `check_aide` asks
dpkg and debsums, some time later; `FindingsFromReport` sorts the reported paths
as `findings_from_report` does, against the overlay of that moment. A run of
aide-init takes its flags, looks the stale paths up, passes the gate, asks for the
id, then for the policy: four looks at the latest directory, each a step. `Compose`
reads the overlay and hashes the files, `OpenTmp`, `FillTmp` and `Replace` are
`write_text`, `chmod` and `replace` on one tmp. `ino` is the file a run has open,
which may have got another name by then. A run may be killed anywhere, which is also
what a config that does not load (exit 3) amounts to. `--all` is refused before
anything happens, so the full rebuild in the script cannot be reached.

kill-pid reads `act.json` twice, compares with `/proc` once and signals later;
processes end, and others are born under the same pid.

### Decision and Protocol

Evidence is a record of what the rules tell apart; titles, counts and confidences
are gone. `Falco` and `Suricata` read the findings the other modules wrote, by the
highest severity under an id (`RaisedHighest`), while `hiroshima_decide.py` reads the
last one (`LastSeverity`). `Veto` is applied to any answer; a model's choices may be
any strings. Each call of `ensure_protocol` reads the cache, compares mtimes, reads
the evidence, asks, and writes by way of one tmp. Mtimes are kept as the answer to
the one comparison made of them (`newer`). `late` marks a protocol written with an
older reading after its verdict was whole: the job's reaper does not look whether the
verdict can be parsed, so it may read a torn one, and then the file is newer than
what it has not seen. `crossed` is history for tags that meet another call. The
engrams and the graph that follow are `Memory`'s.

Facts about the rules that the model shows and nothing contradicts: the second opinion's
playbook is not subject to the veto; an INFO finding with a hard id makes a CLEAN
verdict `alert_family`.

### Workspace, RepoGit, Tree

`root()` is asked anew by every call each time it needs the folder, so `where[c]`
changes under a call when the operator opens another one (`moved`). `open_workspace`
sets `_live` first and composes `workspaces.json` after. `edit` is `Read`, `RelOf`,
`Again`, `Check`, `Truncate`, `Fill`, `Report`; a text is where it grew and whose words
are in it. A command of `repo_bash` has processes that hold the pipes or not and that stay
in the group or leave it. Git is external: a command takes effect, is refused, or is
killed, and then `index.lock` may stay. A commit takes the index as it is.

### Recall, Memory

An engram is what the rules ask of it; scores are in hundredths. A call has a plan
of recalls and engrams (`TurnPlan`, `ProtocolPlan`), and `remember_engram` goes store
by store: row, node, edge, the ensure of the collection with its reindex, point, blob,
bus. All stores but sqlite may be down. `trampled` is history: a call found a
collection of the old size and deleted it after another had made the new one, whose
points are lost until the next reindex. A row remembered while Qdrant is down gets
no point later. Edges are a set, since `graph_edge_once` asks before it writes;
limits of 200 rows and 4 hits are outside the bounds.

### DeskFiles, Terminals, Desk

All of the desk's files are written alike (read, change, one tmp, replace), so
one set of actions serves them, and what a file's text is made of differs. `fd`
is the file a writer has open: a tmp that another has moved is the file itself by
then, and its writer changes it in place. Endpoints run in threads of one process, so
even a tmp named for the process is shared. `deskHit` is history: files at which two
were at once, or where a stop or a refusal of `kalived-ctl` cut a request off. A put that
repeats a refused setting does not ask again, since `config.toml` has it already.

`pty_ws.py` compares `_live` before the handshake and counts after it, so more than
`MAX_SESSIONS` can be under way; `_live = max(0, _live - 1)` loads, calls and stores,
and `lost` is history of a thread that came between. `term.py` ends when its two
tasks have: nothing wakes the one that waits for the socket when the shell ends.

## Runs

Counts are distinct states, with two workers.

| Run | Instance | Shows |
|---|---|---|
| `jobs` | 2 requests, 2 runs (one a playbook), `KeepDone` 1, 1 restart; 343 thousand | type and safety of jobs, `KeepsPromise` (refinement of `DetachedJob`) |
| `jobs_live` | 2 requests, 1 playbook run, fair; 174 thousand | `StartReturns`, `WatchdogEnds`, `FinishedIsRemembered` |
| `jobs_signal` | server may not signal its jobs | **violated**: `DoneMeansGone` |
| `isolate` | 2 isolations, 2 undos, 2 scans, 2 destinations, 5 sets of findings; 3.0 million | `GateHolds`, `UndoRestores` |
| `isolate_undo` | the same, 1 undo | **violated**: `UndoRemovesAll` |
| `playbooks` | scenes of 2 scans and 1 aide-init, 1 scan and 2, 1 scan and a kill-pid; 3 paths, 2 contents; 5.1 million | the overlay, the gate and the signal |
| `protocol` | 7 scenes of up to 3 calls and 2 scans; 24 kinds of evidence, 6 answers; 1.4 million | the explanation of a scan |
| `preview` | 2 starts, 1 stop, 2 ports, 1 restart, fair; 162 thousand | `OnRecord`, `ListensItself`, `CallReturns` |
| `turn` | 4 agents, 6 kinds of calls, 2 calls a reply, 2 messages, caps 4 and 2; 1.7 million, fair | the seven properties of a turn |
| `tree` | 12 scenes of 3 calls, 3 folders, 2 files; 670 thousand | folder, text, processes, commits |
| `desk` | 900 turns, memories that fail, 3 writers, 3 terminals; 673 thousand | the layers, files and slots |
| `desk_near` | the same | **violated**: `NearIsRecalled` |

Why the bounds are enough. *Jobs*: two requests make every pair of steps meet
(unlocked and locked reap, two join checks, insert against restart);
`KeepDone` = 1 makes the second finished job fall out of the file, as the ninth
does in the code; one restart loses memory once at every point, and a second
would start from a state the first already reaches with fewer threads. *Isolate*:
two scans let the gate's scan differ from the one picked and give a replay
something to copy; two isolations and two undos overlap in every way and two destinations
separate a partial record from a whole one; `Finds` has each verdict, and each
severity beside a worse one. *Playbooks*: one path of each treatment (never frozen
unless stale, always frozen, never kept), two contents beside the first tell a freeze
before a change from one after; two runs of aide-init share the tmp, two scans separate the
looks. *Protocol*: one scene has all evidence and answers and no concurrency, since
rules do not depend on it; the others have little evidence and every pair of kinds of
calls. *Preview*: each hazard has two actors. *Turn*: the caps are scaled down with the
order of the code kept (`SeeLimit` < `IdleLimit` < `CodeCap`, 3 < 4 < 16), so that brake,
cut and cap each come into play on their own; two calls per reply let a stop fall between
them; the second message meets a running turn and a finished one. *Tree*: the scenes
are the pairs and triples of operations that share state; one of the two folders has
a remote that is wallE, the third comes to be. *Desk*: a turn runs alone over each
store it may find, two calls and one outage meet over the stores; three writers are
needed for one to have open what two others have replaced; `MaxIndex` 2 and `MaxSessions` 2
are passed by the third.

Deadlock is checked for jobs (polls never end). The other systems do stop.

Symmetry is used where requests, runs, destinations or files differ in nothing
(`jobs`, `isolate`, `isolate_undo`, `tree`); never where liveness is checked.

The type invariants of the composed modules (`Playbooks`, `Tree`, `Protocol`, `Desk`,
and `Preview`) hold in the same instances but are not listed in the runs, whose
other properties say more; those of `Playbooks`, `Tree` and `Preview` are theorems.
Those of `Protocol` and `Desk` stay checked: they speak of strings (a row's class, an
engram's kind), and the provers cannot show that a literal is one.

## Fairness

* *Jobs*: a holder of `_lock` goes on (weak). Whoever asks for the lock gets it
  now and then (strong), because all users pause: the watch thread sleeps two
  seconds, a poll is one request. Time passes, so a live job grows late (weak).
  Nothing is assumed of a job: it may never end by itself.
* *Preview*: the thread of a call goes on (weak); nothing is assumed of the child.
* *Turn*: some step of a running turn is taken while one can be (weak, on their
  disjunction): requests have a time-out of 120 s and tools return. Nothing is
  assumed of what the model answers or of the operator.

The other specifications state no fairness and no liveness: their calls are
straight lines, and what they wait for (a command, a model, a person) promises
nothing. That `term.py` may wait for ever is one of these.

## What is proved

`HiroshimaJobs_proofs`, from `ParamAssumption` alone (finitely many requests,
`KeepDone` a natural number). The inductive invariant `IInv` joins `TypeOK` with
`StartInv` (a process has been started, and an entry made, exactly as far as
`pc` says), `DeadInv` (who is about to close a job as dead has seen it dead),
`LockInv` (a holder reaps only what is in its hands) and `SavedInv` (unless the
last save failed, what runs in memory runs on disk). `DoneMeansGone` needs `DeadInv`, because
the close comes a step after the look; `RunningSurvivesRestart` needs
`SavedInv`, because it compares what is on disk with what is in memory at the
moment of a restart. `RaceInv` carries `OneshotUnlessRaced`: two starts of
one run beyond the join check have overlapped or one of them has lost its
record. `PromiseKept` is the refinement: under `IInv` each step of a thread, of the
watch or of a restart is a step of `DetachedJob` (`process` is the process table,
`record` is `_jobs`, `saved` that the last `_persist` succeeded) or leaves those three
alone; the close is the step that needs `DeadInv`, the restart the one that needs
`SavedInv`. `StoppedHasEnded`, `OneshotOutsideTheRace` and `PromiseKept` assume
`MaySignal`. `TerminalIsFinal` is an action property of the same invariant.

`Turn_proofs`, from `TurnAssumption` alone, for any agents, tool sets, caps and
bounds. `Shape` is `TypeOK` with `CapInv` (inside a round the cap is not used up,
hence the line after the loop is never reached) and `LeftInv` (a call in progress has
left its reply). On it stand `StopBelongs`, inductive with no help; `SaidInv`
for `Announced` (a stop received has been answered, so a turn that finishes
silently because `stop` is set has been announced); `TardyInv` for
`StopEndsRound` (calls begun since the stop, waiting and in hand add up to less
than two replies and never grow); `JobInv` for `JobEndsTools`; `ReadInv` for
`ReadingEnds` (between two rounds the brake's own counter is at least the rounds looked
since the last doing, and inside a round the counter is one behind).

`Snapshots_proofs`: of any number of scans, the latest directory is a live scan
with a verdict and none such is newer. `Playbooks_proofs` proves about containment, from
`ScanAssumption` and `RunAssumption`, for any scans, runs and destinations: `IsolateShape` is
`IsolateTypeOK` with `RoleInv` (each run keeps to its script). `ScanInv` says that a scan which is no copy
has a verdict on file exactly when it is done, and that of its own findings; with it
`GateHolds` comes down to the newest directory the gate sees being the newest scan
that ended (`NewestIsGreatest`). `RunInv` carries `UndoRestores`: runs that have not
overlapped are busy one at a time (`AloneInv`), so an isolation that writes has
emptied the record (`EmptiedInv`) and what an undo has passed in the record is
gone or was refused (`PassedInv`), which is what makes the unlink safe.

About the two other playbooks it proves, from `ScanAssumption`, `AideAssumption`,
`KillAssumption` and `SceneAssumption`, for any scans, runs, files, contents and processes.
`KillInv` carries `KillsWhatWasAsked`: what a
run has read was asked for unless `act.json` was written between its two reads, and a pid
that passed the check keeps its process or loses it until another is born. For aide-init
`AideShape` is the types, the kinds of scans (`EvidenceInv`) and where each prefix comes
from (`FrozenInv`: in the overlay, in the tmp and in a run's hands alike). `KeepInv`
carries `PrefixesKept`; `FimInv` carries `TamperAlerts` and `ChangeSurfaces`: the package
evidence of a scan still holds of the paths that have kept still since (`SteadyInv`), and
of those the scan, once it has judged, or a freeze tells (`JudgedInv`). It has to speak of
every step in between, as a run may replace the overlay at any of them. `FreezeGate` comes
from `ScanInv` and the latest directory being the newest scan that ended.

`Protocol_proofs`, from `ScanAssumption` and `SceneAssumption`, for any scans, calls,
evidence and answers. A document may be on disk, in the tmp or in a call's hands;
`FileInv` and `CallInv` say that it is sound in all three places, and `VetoHolds` that
whatever a model says comes out of `veto` sound. `FreshInv` says the same of mtimes: a
file or a tmp as new as a whole verdict explains it or is late. A cache that is true
needs `FreshInv` of the tmp too, because a call may move another's tmp. `SecondDomainAlerts`
stands on `JudgedInv` (a scan that is done has the verdict of the evidence beside it, a
replay too) and needs of `Scenes` that evidence is `Readable`, rows with a severity and
an id, which is what `add_finding` writes.

`IsolateAtHome`, an action property, is about the answer; what makes it true lies before
it. `HomeInv`: until a tagging has met something, a protocol that a call holds and will
answer from or write says home only while the overlay does (`HeldInv`), and so does the
file of each directory that a caller may be served from (`CacheInv`). That takes three facts.
Which directories those are: the latest one, or one that could become it without a scan
ending in between (`Hot`), as `LifeInv` tells how a directory comes to have a verdict.
Where a call is that has written the overlay and not yet the file: it is alone but for
others that wait to do the same (`AloneInv`, on `PlaceInv`), and its own file is exempt
for so long. What a replay's copy of an old protocol does: nothing, for its stamp names
the older directory (`StampInv`). `RowsAtHome` ends the argument: rows made of a protocol
that does not say home hold no isolation, whatever is moved to the front.

`Preview_proofs`, from `PreviewAssumption`. Once calls have overlapped `OnRecord` and
`ListensItself` say nothing, so `AloneInv` says what holds until then: one call is under
way; its record still stands (`TornIsHeld`), children it has not on record are its own
(`NoOrphan`), and the port it picked is free or its child's (`FreePort`).

`Tree_proofs`, for any calls, folders and files. `TreeInv` says where a call of each
operation can be (`PathInv`), what `open` has in hand (`OpenInv`) and that a call which
no open has met is in the folder it began in (`HomeInv`). Each promise has an invariant
beside it: `BashInv` (a group that was signalled is empty, a leader is gone when its pipes
are read), `ReturnInv` (opens that have not met), `PushInv` (a push that syncs has looked
at the remote of its folder, unless it was moved), `TodoInv` and `CommitInv` (each file in
an index was named by a call with consent, and is still there only for a call that failed,
runs or was moved), `EditInv` (an edit that has read holds the very text that is there
until it writes, unless it was met or moved). `CommitConsent` and `EditKeepsText` are
action properties of the last two. The 40 actions are sorted into kinds by what they
touch (`NextKinds`), so that an invariant is argued about the few it is about. `Types` is
the type invariant in five parts: that what is used is there, and that the list of recent
folders keeps its bound and lists a folder once (`RecentsAre`), needs all of the opening.

`Desk_proofs`, from `FilesAssumption` (an index keeps at least one entry, finitely many
conversations, none named like another file), `TermAssumption` (at least one session is
allowed, finitely many terminals) and `SceneAssumption` (plans are sequences; rows and
the index found at the start are as the same code left them). The three parts share no
variable, so each promise is proved of one and kept by the steps of the others.

* `SlotsReturn`: `CountInv` says that until a thread has written over another's change
  `_live` is the number of counted sessions, and that the one thread about to store has
  read that number; `ShellInv`, that a live shell has a session that will hang it up.
* `LayersAgree`: `MemInv` says where a call can be, with a reindex inside a turn and an
  ensure inside a reindex. `RowInv`: an id is in sqlite before it is anywhere else, so a
  list taken for a reindex tells of rows only. `GapInv`: with nothing down and no
  collection deleted twice, nobody is past its ensure before the collection is there, and from then on
  each row has its point or is in the hands of somebody who will make it. It is this
  last clause that survives a reindex which began before a row was written.
* `MemoryKnowsItsPlace`: `GateInv` and `ChatInv` carry what `gate_recall` said and how
  the engrams of turns are marked to where both are used.
* `SettingsHold`: `LoneInv` says that a file at which no two were at once and which
  nothing cut off has one writer, whose tmp it is; `SetInv` and `ConfigInv` say what
  that writer has read and what the timers stand at meanwhile.
* `IndexTellsFiles`: `IndexInv` holds however writers meet, as it speaks of the index, its
  tmp and what writers hold alike: they name conversations that are there, because a
  conversation is written before its entry. `LengthInv` counts, and needs `LoneInv`.

Every inductive invariant was checked by TLC on the component's run before it was proved.

Only model-checked: the five liveness properties (`StartReturns`, `WatchdogEnds`,
`FinishedIsRemembered`, `CallReturns`, `TurnEnds`), as fairness is outside the prover's
reach. The three properties that the code violates are refuted by their runs.

## Where code and text disagree

Shown by a run:

1. A job the server may not signal is reported done (`jobs_signal`): `_alive`
   takes EPERM for death.
2. An undo removes the last isolation's rules only (`isolate_undo`): the record
   is overwritten.
3. What only the vectors find is never recalled (`desk_near`): the cutoff is
   two words, and a cosine is at most one.

Met on the way, and excepted by name in a property: two starts of one run can both
start it (`OneshotUnlessRaced`, `raced`); two previews started at once leave one on
no record (`OnRecord`, `disturbed`); tool calls left in a reply run after a stop
(`StopEndsRound` counts them); a pid reused or an `act.json` written between kill-pid's
reads (`KillsWhatWasAsked`); a commit that takes along what a failed call has staged
(`CommitConsent`); an edit that follows the operator into another folder (`EditKeepsText`);
a second delete of a collection (`LayersAgree`); settings of two requests at once
(`SettingsHold`); `--ack-stale` passing on an empty verdict (`FreezeGate`).

## Not modelled, and why

* Intent and catalogue: text rules and tables without state.
* Browser bridge, MCP, extensions, advisor: input and output towards other programs;
  nothing of what they do is kept or waited for here.
* The read-only API server serves files; its terminals are in `Terminals`.
* Install and hardening playbooks: run once by hand, with no partner.
* The web client: its events are modelled where they are sent.
* In memory: `POST /episodes` and `/vectors`, path nodes of the graph, the embedder,
  and `backfill_graph_links`, which nothing calls.
* In the turn: other messages of the socket, a second socket, agents with an empty list
  of tools, the socket of a finished turn whose `done` is sent before it is remembered.
* In the scans: what each `check-*.sh` but those of AIDE, Falco and Suricata looks at.

## Plan

What would add most from here: liveness of the terminals once `term.py` watches its
shell; an abstract containment whose undo is atomic for `Isolate` to implement while runs
do not overlap; an abstract explanation (a file that is right or absent) for `Protocol`.
