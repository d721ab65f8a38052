--------------------------- MODULE HiroshimaJobs ---------------------------
(***************************************************************************)
(* The detached-job manager of the cockpit, app/hiroshima.py: start_named  *)
(* starts or joins a `sudo -n kalived-ctl <name>` process, a watch thread  *)
(* reaps it every two seconds, jobs.json carries it over a restart.        *)
(*                                                                         *)
(* Who runs concurrently: the threads that serve start_named, the threads  *)
(* that poll (job_get, jobs_list), the watch thread, the job processes,    *)
(* and the operator who restarts the server.  Everything under `with       *)
(* _lock` excludes everything else under it; the poll loop at the end of   *)
(* start_named calls _reap WITHOUT the lock, so _reap is split into its    *)
(* steps (status and liveness read, _close_job, what follows the close).   *)
(*                                                                         *)
(* A job is identified with the request that made it (its uuid is fresh).  *)
(***************************************************************************)
EXTENDS Naturals, FiniteSets

CONSTANTS Request,       \* calls of start_named with confirm=True and a known name
          Name,          \* keys of RUNS
          Playbook,      \* PLAYBOOK_RUNS: the runs that leave an engram
          KeepDone,      \* finished jobs jobs.json keeps (8)
          MaxRestart,    \* bound: restarts of the server
          MaySignal,     \* may the server signal its jobs? (they are root: sudo)
          NoJob

ASSUME ParamAssumption ==
  /\ IsFiniteSet(Request)
  /\ Playbook \subseteq Name
  /\ KeepDone \in Nat
  /\ MaxRestart \in Nat
  /\ MaySignal \in BOOLEAN
  /\ NoJob \notin Request

VARIABLES
  pc,        \* where the thread of each request is in start_named
  name,      \* the run each request asks for
  proc,      \* the OS process of each job
  t0,        \* start order of the jobs, 0 before the start
  jobs,      \* _jobs: status of each job in memory
  disk,      \* jobs.json: status of each job on disk
  unsaved,   \* did the last _persist fail?
  late,      \* jobs older than JOB_TTL_S
  own,       \* progress of the unlocked _reap of each request's own job
  lock,      \* what _lock is held for
  asker,     \* the request whose join check holds _lock
  todo,      \* jobs the holder has still to reap
  reaping,   \* the job the holder is reaping
  at,        \* progress of that _reap
  engram,    \* engrams remembered for each job
  restarts,  \* restarts so far
  raced      \* history: pairs of requests whose start windows overlapped

vars == <<pc, name, proc, t0, jobs, disk, unsaved, late, own, lock, asker, todo,
          reaping, at, engram, restarts, raced>>
osVars   == <<proc, t0, late>>
file     == <<disk, unsaved>>
holdVars == <<lock, asker, todo, reaping, at>>

Terminal == {"done", "timeout"}
Status   == {"absent", "running"} \union Terminal
Step     == {"idle", "close", "after"}
PC       == {"new", "check", "spawn", "insert", "wait",
             "told", "joined", "nosudo", "lost"}
Returned == {"told", "joined", "nosudo", "lost"}
\* From the join check that found nothing to the entry in _jobs.
Window   == {"spawn", "insert"}

TypeOK ==
  /\ pc \in [Request -> PC]
  /\ name \in [Request -> Name]
  /\ proc \in [Request -> {"none", "live", "gone"}]
  /\ t0 \in [Request -> Nat]
  /\ jobs \in [Request -> Status]
  /\ disk \in [Request -> Status]
  /\ unsaved \in BOOLEAN
  /\ late \subseteq Request
  /\ own \in [Request -> Step]
  /\ lock \in {"free", "watch", "poll", "check"}
  /\ asker \in Request \union {NoJob}
  /\ todo \subseteq Request
  /\ reaping \in Request \union {NoJob}
  /\ at \in Step
  /\ engram \in [Request -> Nat]
  /\ restarts \in Nat
  /\ raced \subseteq SUBSET Request

Init ==
  /\ pc = [r \in Request |-> "new"]
  /\ name \in [Request -> Name]
  /\ proc = [r \in Request |-> "none"]
  /\ t0 = [r \in Request |-> 0]
  /\ jobs = [r \in Request |-> "absent"]
  /\ disk = [r \in Request |-> "absent"]
  /\ unsaved = FALSE
  /\ late = {}
  /\ own = [r \in Request |-> "idle"]
  /\ lock = "free" /\ asker = NoJob /\ todo = {} /\ reaping = NoJob /\ at = "idle"
  /\ engram = [r \in Request |-> 0]
  /\ restarts = 0
  /\ raced = {}

-----------------------------------------------------------------------------
(* The process table, as os.kill and /proc show it to the server.          *)

Live(r) == proc[r] = "live"

\* kill(2) fails with EPERM, for signal 0 too, when an ordinary user signals
\* the root process a sudo job is, and _alive reads every OSError as dead.  A
\* zombie has an empty cmdline, so _still_ours fails for it as for no process.
LooksAlive(r) == Live(r) /\ MaySignal

Exit(r) ==
  /\ Live(r)
  /\ proc' = [proc EXCEPT ![r] = "gone"]
  /\ UNCHANGED <<pc, name, t0, jobs, file, late, own, holdVars, engram, restarts, raced>>

\* JOB_TTL_S passes.  start_named polls its job for 0.45 s only, so its own
\* loop is over by then.
Expire(r) ==
  /\ Live(r)
  /\ r \notin late
  /\ pc[r] \notin {"insert", "wait"}
  /\ late' = late \union {r}
  /\ UNCHANGED <<pc, name, proc, t0, jobs, file, own, holdVars, engram, restarts, raced>>

-----------------------------------------------------------------------------
(* jobs.json                                                               *)

Newer(js, r) == {s \in Request : js[s] \in Terminal /\ t0[s] > t0[r]}

\* Mutant: the newest KeepDone jobs, running ones counted like the others.
SlimNewest(js) ==
  [r \in Request |->
     IF js[r] # "absent" /\ Cardinality({s \in Request : js[s] # "absent" /\ t0[s] > t0[r]}) >= KeepDone
     THEN "absent" ELSE js[r]]

\* What _persist writes: every running job and the KeepDone newest finished ones.
Slim(js) ==
  [r \in Request |->
     IF js[r] \in Terminal /\ Cardinality(Newer(js, r)) >= KeepDone
     THEN "absent" ELSE js[r]]

\* Its callers swallow an OSError.
Persist(js) ==
  \/ disk' = Slim(js) /\ unsaved' = FALSE
  \/ UNCHANGED disk /\ unsaved' = TRUE

\* Mutant: the file taken as it stands.
LoadedVerbatim == disk

\* What _load_persisted makes of it: a running job whose process does not
\* look alive is entered as done, without a _reap.
Loaded ==
  [r \in Request |->
     IF disk[r] = "running" /\ ~LooksAlive(r) THEN "done" ELSE disk[r]]

-----------------------------------------------------------------------------
(* start_named                                                             *)

Ask(r) ==
  /\ pc[r] = "new"
  /\ pc' = [pc EXCEPT ![r] = "check"]
  /\ UNCHANGED <<name, osVars, jobs, file, own, holdVars, engram, restarts, raced>>

\* Mutant: no look for a running job of that name.
CheckNothing(r) ==
  /\ pc[r] = "check"
  /\ lock = "free"
  /\ lock' = "check" /\ asker' = r
  /\ todo' = {}
  /\ UNCHANGED <<pc, name, osVars, jobs, file, own, reaping, at, engram, restarts, raced>>

CheckBegin(r) ==
  /\ pc[r] = "check"
  /\ lock = "free"
  /\ lock' = "check" /\ asker' = r
  /\ todo' = {j \in Request : jobs[j] = "running" /\ name[j] = name[r]}
  /\ UNCHANGED <<pc, name, osVars, jobs, file, own, reaping, at, engram, restarts, raced>>

\* A job of that name survives its _reap: the call joins it.
Join(r) ==
  /\ lock = "check" /\ asker = r /\ at = "idle"
  /\ \E j \in todo : jobs[j] = "running" /\ LooksAlive(j) /\ j \notin late
  /\ pc' = [pc EXCEPT ![r] = "joined"]
  /\ lock' = "free" /\ asker' = NoJob /\ todo' = {}
  /\ UNCHANGED <<name, osVars, jobs, file, own, reaping, at, engram, restarts, raced>>

\* None does: the lock is released and the start goes ahead.
CheckPass(r) ==
  /\ lock = "check" /\ asker = r /\ at = "idle" /\ todo = {}
  /\ pc' = [pc EXCEPT ![r] = "spawn"]
  /\ lock' = "free" /\ asker' = NoJob
  /\ raced' = raced \union {{r, s} : s \in {q \in Request : pc[q] \in Window}}
  /\ UNCHANGED <<name, osVars, jobs, file, own, todo, reaping, at, engram, restarts>>

Spawn(r) ==
  /\ pc[r] = "spawn"
  /\ pc' = [pc EXCEPT ![r] = "insert"]
  /\ proc' = [proc EXCEPT ![r] = "live"]
  /\ t0' = [t0 EXCEPT ![r] = 1 + Cardinality({s \in Request : t0[s] > 0})]
  /\ UNCHANGED <<name, late, jobs, file, own, holdVars, engram, restarts, raced>>

\* FileNotFoundError: the answer is a line to type in the terminal.
NoSudo(r) ==
  /\ pc[r] = "spawn"
  /\ pc' = [pc EXCEPT ![r] = "nosudo"]
  /\ UNCHANGED <<name, osVars, jobs, file, own, holdVars, engram, restarts, raced>>

Insert(r) ==
  /\ pc[r] = "insert"
  /\ lock = "free"
  /\ pc' = [pc EXCEPT ![r] = "wait"]
  /\ jobs' = [jobs EXCEPT ![r] = "running"]
  /\ Persist(jobs')
  /\ UNCHANGED <<name, osVars, own, holdVars, engram, restarts, raced>>

\* The unlocked _reap(job) of the 0.45 s loop, in three steps.
OwnSeesDead(r) ==
  /\ pc[r] = "wait"
  /\ own[r] = "idle"
  /\ jobs[r] = "running"
  /\ ~LooksAlive(r)
  /\ own' = [own EXCEPT ![r] = "close"]
  /\ UNCHANGED <<pc, name, osVars, jobs, file, holdVars, engram, restarts, raced>>

\* Mutant: a status the callers of _close_job do not use.
ClosedAsError(j, status) ==
  IF jobs[j] = "running" THEN [jobs EXCEPT ![j] = "error"] ELSE jobs

\* _close_job: only a running job takes a status, and keeps it.
Closed(j, status) ==
  IF jobs[j] = "running" THEN [jobs EXCEPT ![j] = status] ELSE jobs

OwnCloses(r) ==
  /\ own[r] = "close"
  /\ jobs' = Closed(r, "done")
  /\ own' = [own EXCEPT ![r] = "after"]
  /\ UNCHANGED <<pc, name, osVars, file, holdVars, engram, restarts, raced>>

\* remember_engram of the rest of _reap, for a playbook run.
Remembered(j) ==
  IF name[j] \in Playbook THEN [engram EXCEPT ![j] = @ + 1] ELSE engram

OwnRemembers(r) ==
  /\ own[r] = "after"
  /\ engram' = Remembered(r)
  /\ own' = [own EXCEPT ![r] = "idle"]
  /\ UNCHANGED <<pc, name, osVars, jobs, file, holdVars, restarts, raced>>

\* Mutant: the call waits for the end of its job.
ReturnAtEnd(r) ==
  /\ pc[r] = "wait"
  /\ own[r] = "idle"
  /\ jobs[r] \in Terminal
  /\ pc' = [pc EXCEPT ![r] = "told"]
  /\ UNCHANGED <<name, osVars, jobs, file, own, holdVars, engram, restarts, raced>>

Return(r) ==
  /\ pc[r] = "wait"
  /\ own[r] = "idle"
  /\ pc' = [pc EXCEPT ![r] = "told"]
  /\ UNCHANGED <<name, osVars, jobs, file, own, holdVars, engram, restarts, raced>>

-----------------------------------------------------------------------------
(* The holder of _lock: the watch thread, a poll or a join check reaps the *)
(* jobs of todo one after the other.                                       *)

WatchBegin ==
  /\ lock = "free"
  /\ lock' = "watch"
  /\ todo' = {j \in Request : jobs[j] = "running"}
  /\ UNCHANGED <<pc, name, osVars, jobs, file, own, asker, reaping, at, engram, restarts, raced>>

\* job_get reaps one job, jobs_list all of them.
PollBegin ==
  /\ lock = "free"
  /\ \E S \in {{j} : j \in Request} \union {Request} :
       /\ \A j \in S : S # Request => jobs[j] # "absent"
       /\ todo' = {j \in S : jobs[j] = "running"}
  /\ lock' = "poll"
  /\ UNCHANGED <<pc, name, osVars, jobs, file, own, asker, reaping, at, engram, restarts, raced>>

\* Nothing to do for j: it is closed already, or alive and within its time.
HeldSkips(j) ==
  /\ at = "idle" /\ j \in todo
  /\ \/ jobs[j] # "running"
     \/ LooksAlive(j) /\ j \notin late /\ lock # "check"
  /\ todo' = todo \ {j}
  /\ UNCHANGED <<pc, name, osVars, jobs, file, own, lock, asker, reaping, at, engram, restarts, raced>>

HeldSeesDead(j) ==
  /\ at = "idle" /\ j \in todo
  /\ jobs[j] = "running"
  /\ ~LooksAlive(j)
  /\ reaping' = j /\ at' = "close"
  /\ UNCHANGED <<pc, name, osVars, jobs, file, own, lock, asker, todo, engram, restarts, raced>>

HeldCloses ==
  /\ at = "close"
  /\ jobs' = Closed(reaping, "done")
  /\ at' = "after"
  /\ UNCHANGED <<pc, name, osVars, file, own, lock, asker, todo, reaping, engram, restarts, raced>>

\* Mutant: only the watch thread remembers.
HeldRemembersOnWatch ==
  /\ at = "after"
  /\ engram' = IF lock = "watch" THEN Remembered(reaping) ELSE engram
  /\ at' = "idle" /\ reaping' = NoJob
  /\ todo' = todo \ {reaping}
  /\ UNCHANGED <<pc, name, osVars, jobs, file, own, lock, asker, restarts, raced>>

HeldRemembers ==
  /\ at = "after"
  /\ engram' = Remembered(reaping)
  /\ at' = "idle" /\ reaping' = NoJob
  /\ todo' = todo \ {reaping}
  /\ UNCHANGED <<pc, name, osVars, jobs, file, own, lock, asker, restarts, raced>>

\* Mutant: the status without the kill.
HeldTimesOutNoKill(j) ==
  /\ at = "idle" /\ j \in todo
  /\ jobs[j] = "running"
  /\ LooksAlive(j) /\ j \in late
  /\ jobs' = Closed(j, "timeout")
  /\ todo' = todo \ {j}
  /\ UNCHANGED <<pc, name, osVars, file, own, lock, asker, reaping, at, engram, restarts, raced>>

\* The watchdog: SIGTERM, then SIGKILL, to the process group, then "timeout".
HeldTimesOut(j) ==
  /\ at = "idle" /\ j \in todo
  /\ jobs[j] = "running"
  /\ LooksAlive(j) /\ j \in late
  /\ proc' = [proc EXCEPT ![j] = "gone"]
  /\ jobs' = Closed(j, "timeout")
  /\ todo' = todo \ {j}
  /\ UNCHANGED <<pc, name, t0, late, file, own, lock, asker, reaping, at, engram, restarts, raced>>

WatchEnd ==
  /\ lock = "watch" /\ at = "idle" /\ todo = {}
  /\ Persist(jobs)
  /\ lock' = "free"
  /\ UNCHANGED <<pc, name, osVars, jobs, own, asker, todo, reaping, at, engram, restarts, raced>>

PollEnd ==
  /\ lock = "poll" /\ at = "idle" /\ todo = {}
  /\ lock' = "free"
  /\ UNCHANGED <<pc, name, osVars, jobs, file, own, asker, todo, reaping, at, engram, restarts, raced>>

-----------------------------------------------------------------------------
\* The server dies and comes back; its start-up calls ensure_watch, which
\* loads jobs.json, before it serves a request.  The jobs live in sessions of
\* their own and run on.
Restart ==
  /\ restarts < MaxRestart
  /\ restarts' = restarts + 1
  /\ jobs' = Loaded
  /\ pc' = [r \in Request |-> IF pc[r] \in {"new"} \union Returned THEN pc[r] ELSE "lost"]
  /\ own' = [r \in Request |-> "idle"]
  /\ lock' = "free" /\ asker' = NoJob /\ todo' = {} /\ reaping' = NoJob /\ at' = "idle"
  /\ UNCHANGED <<name, osVars, file, engram, raced>>

StartStep(r) ==
  \/ CheckBegin(r) \/ Join(r) \/ CheckPass(r) \/ Spawn(r) \/ NoSudo(r)
  \/ Insert(r) \/ OwnSeesDead(r) \/ OwnCloses(r) \/ OwnRemembers(r) \/ Return(r)

HeldStep ==
  \/ \E j \in Request : HeldSkips(j) \/ HeldSeesDead(j) \/ HeldTimesOut(j)
  \/ HeldCloses \/ HeldRemembers \/ WatchEnd \/ PollEnd

Next ==
  \/ \E r \in Request : Ask(r) \/ StartStep(r) \/ Exit(r) \/ Expire(r)
  \/ WatchBegin \/ PollBegin \/ HeldStep \/ Restart

Spec == Init /\ [][Next]_vars

\* Threads go on and time passes.  _lock is free again and again, since its
\* users pause (one poll per HTTP request, one round in two seconds), and the
\* watch loop and every start get it now and then.
Fairness ==
  /\ WF_vars(HeldStep)
  /\ SF_vars(WatchBegin)
  /\ \A r \in Request : SF_vars(StartStep(r)) /\ WF_vars(Expire(r))

FairSpec == Spec /\ Fairness

-----------------------------------------------------------------------------
(* Properties                                                              *)

\* A process no record watches: its start was cut off by a restart between
\* Popen and _persist, or its entry was never saved.
Orphan(r) == Live(r) /\ jobs[r] = "absent" /\ pc[r] # "insert"

\* A job is reported stopped only when its process has ended: neither the
\* unlocked reap, nor the watchdog, nor a reload says done or timeout early.
DoneMeansGone == \A r \in Request : jobs[r] \in Terminal => proc[r] = "gone"

\* "Start (or join)": two processes of the same run are alive only if both
\* starts passed the join check before either had entered its job, or if a
\* restart or a failed save cut one of them off its record.
OneshotUnlessRaced ==
  \A r, s \in Request :
    (r # s /\ name[r] = name[s] /\ Live(r) /\ Live(s))
      => {r, s} \in raced \/ Orphan(r) \/ Orphan(s)

\* The promise of DetachedJob, kept by all the threads together: a record is
\* entered once, says done only of an ended process and timeout only of one
\* that is being killed, is terminal for good, and comes out of a restart as
\* what its process is.
Job == INSTANCE DetachedJob
         WITH Job <- Request, process <- proc, record <- jobs, saved <- ~unsaved
KeepsPromise == Job!Spec

\* "Terminal state. Never restart.": a finished job keeps its status while the
\* server lives, and no restart brings it back to running.
TerminalStays ==
  [][\A r \in Request : jobs[r] \in Terminal =>
       \/ jobs'[r] = jobs[r]
       \/ restarts' # restarts /\ jobs'[r] \in Terminal \union {"absent"}]_vars

\* A restart forgets no job that runs: unless the last save failed, memory, the
\* file and the process table agree on it whenever the server can die.  One
\* save that succeeds repairs the harm of those that failed.
RunningSurvivesRestart ==
  [][\A r \in Request :
       (restarts' # restarts /\ ~unsaved /\ jobs[r] = "running" /\ LooksAlive(r))
          => jobs'[r] = "running"]_vars

\* Every start answers its caller, whatever holds the lock meanwhile.
StartReturns == \A r \in Request : pc[r] = "check" ~> pc[r] \in Returned

\* "watchdog kills after this": no job runs for ever, neither its record nor
\* its process, unless a restart after a failed save cuts the two apart.
WatchdogEnds ==
  \A r \in Request :
    jobs[r] = "running" ~> (jobs[r] # "running" /\ (~Live(r) \/ Orphan(r)))

\* A playbook run that ends while the server is up, and stays up, is
\* remembered: whichever thread closes the job, one of them writes the engram.
FinishedIsRemembered ==
  \A r \in Request :
    (restarts = MaxRestart /\ jobs[r] = "running" /\ proc[r] = "gone" /\ name[r] \in Playbook)
       ~> engram[r] > 0

=============================================================================
