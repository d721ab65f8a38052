----------------------- MODULE HiroshimaJobs_proofs -----------------------
(***************************************************************************)
(* Proofs about HiroshimaJobs, for any finite set of requests, any runs,   *)
(* any KeepDone and any number of restarts.                                *)
(***************************************************************************)
EXTENDS HiroshimaJobs, FiniteSetTheorems, TLAPS

\* What a thread has done by the time it reaches each point of start_named.
StartInv ==
  \A r \in Request :
    /\ pc[r] \in {"new", "check", "spawn", "joined", "nosudo"} => proc[r] = "none"
    /\ pc[r] \in {"new", "check", "spawn", "joined", "nosudo", "insert"} => jobs[r] = "absent"
    /\ pc[r] = "insert" => proc[r] # "none"
    /\ jobs[r] # "absent" => proc[r] # "none"
    /\ jobs[r] = "absent" => disk[r] = "absent"
    /\ own[r] # "idle" => pc[r] = "wait" /\ proc[r] # "none"

\* Whoever is closing a job, or has closed it, saw it dead, and dead it stays.
DeadInv ==
  /\ \A r \in Request :
       /\ jobs[r] \in Terminal => ~LooksAlive(r)
       /\ disk[r] \in Terminal => ~LooksAlive(r)
       /\ own[r] # "idle" => ~LooksAlive(r)
  /\ at # "idle" => /\ reaping \in Request
                    /\ ~LooksAlive(reaping)
                    /\ proc[reaping] # "none"

\* The section of _lock: one holder, and a join check that has looked at
\* every running job of its run that is not in todo any more.
LockInv ==
  /\ lock = "free" => at = "idle" /\ todo = {}
  /\ lock = "check" => /\ asker \in Request
                       /\ pc[asker] = "check"
                       /\ \A j \in Request :
                            (jobs[j] = "running" /\ LooksAlive(j) /\ name[j] = name[asker])
                               => j \in todo

SavedInv ==
  ~unsaved => \A r \in Request : jobs[r] = "running" => disk[r] = "running"

Excused(r, s) == {r, s} \in raced \/ Orphan(r) \/ Orphan(s)

\* A start past its check overlaps every other such start and is excused from
\* every live process of its run, so that its own process may join them.
PairInv(r, s) ==
  r # s =>
    /\ (pc[r] \in Window /\ pc[s] \in Window) => {r, s} \in raced
    /\ (pc[r] \in Window /\ name[r] = name[s] /\ Live(s)) => Excused(r, s)
    /\ (name[r] = name[s] /\ Live(r) /\ Live(s)) => Excused(r, s)

RaceInv == \A r, s \in Request : PairInv(r, s)

IInv == TypeOK /\ StartInv /\ DeadInv /\ LockInv /\ SavedInv

-----------------------------------------------------------------------------

LEMMA FreshRank == Cardinality({s \in Request : t0[s] > 0}) \in Nat
<1>1. IsFiniteSet({s \in Request : t0[s] > 0})
  BY ParamAssumption, FS_Subset
<1>2. QED
  BY <1>1, FS_CardinalityType

\* Saving keeps every running job, and otherwise drops a job or keeps it.
LEMMA SlimKeeps ==
  ASSUME NEW js \in [Request -> Status]
  PROVE  /\ Slim(js) \in [Request -> Status]
         /\ \A r \in Request : /\ Slim(js)[r] \in {js[r], "absent"}
                             /\ js[r] \notin Terminal => Slim(js)[r] = js[r]
BY DEF Slim, Status, Terminal

LEMMA RememberedType ==
  ASSUME TypeOK, NEW j
  PROVE  Remembered(j) \in [Request -> Nat]
<1>1. CASE j \in Request
  BY <1>1 DEF Remembered, TypeOK
<1>2. CASE j \notin Request
  BY <1>2 DEF Remembered, TypeOK
<1>3. QED
  BY <1>1, <1>2

LEMMA InitTypeOK == Init => TypeOK
<1> SUFFICES ASSUME Init PROVE TypeOK
  OBVIOUS
<1>1. 0 \in Nat /\ restarts \in Nat
  BY DEF Init
<1>2. engram \in [Request -> Nat] /\ t0 \in [Request -> Nat]
  BY DEF Init
<1>3. QED
  BY <1>1, <1>2 DEF Init, TypeOK, PC, Status, Step

LEMMA NextTypeOK == TypeOK /\ [Next]_vars => TypeOK'
<1> SUFFICES ASSUME TypeOK, [Next]_vars PROVE TypeOK'
  OBVIOUS
<1> USE DEF TypeOK, osVars, file, holdVars
<1>1. ASSUME NEW x \in Request, Ask(x) PROVE TypeOK'
    BY <1>1 DEF Ask, PC, Status, Terminal, Step
<1>2. ASSUME NEW x \in Request, CheckBegin(x) PROVE TypeOK'
    BY <1>2 DEF CheckBegin, PC, Status, Terminal, Step
<1>3. ASSUME NEW x \in Request, Join(x) PROVE TypeOK'
    BY <1>3 DEF Join, PC, Status, Terminal, Step
<1>4. ASSUME NEW x \in Request, CheckPass(x) PROVE TypeOK'
    BY <1>4 DEF CheckPass, PC, Status, Terminal, Step
<1>5. ASSUME NEW x \in Request, Spawn(x) PROVE TypeOK'
    BY <1>5, FreshRank DEF Spawn, PC
<1>6. ASSUME NEW x \in Request, NoSudo(x) PROVE TypeOK'
    BY <1>6 DEF NoSudo, PC, Status, Terminal, Step
<1>7. ASSUME NEW x \in Request, Insert(x) PROVE TypeOK'
  <2>1. jobs' \in [Request -> Status]
      BY <1>7 DEF Insert, Status
  <2>2. Slim(jobs') \in [Request -> Status]
      BY <2>1, SlimKeeps
  <2>3. disk' \in [Request -> Status]
      BY <1>7, <2>2 DEF Insert, Persist
  <2>4. QED
      BY <1>7, <2>1, <2>3 DEF Insert, Persist, PC
<1>8. ASSUME NEW x \in Request, OwnSeesDead(x) PROVE TypeOK'
    BY <1>8 DEF OwnSeesDead, PC, Status, Terminal, Step
<1>9. ASSUME NEW x \in Request, OwnCloses(x) PROVE TypeOK'
    BY <1>9 DEF OwnCloses, Closed, PC, Status, Terminal, Step
<1>10. ASSUME NEW x \in Request, OwnRemembers(x) PROVE TypeOK'
    BY <1>10, RememberedType DEF OwnRemembers, Step
<1>11. ASSUME NEW x \in Request, Return(x) PROVE TypeOK'
    BY <1>11 DEF Return, PC, Status, Terminal, Step
<1>12. ASSUME NEW x \in Request, Exit(x) PROVE TypeOK'
    BY <1>12 DEF Exit, PC, Status, Terminal, Step
<1>13. ASSUME NEW x \in Request, Expire(x) PROVE TypeOK'
    BY <1>13 DEF Expire, PC, Status, Terminal, Step
<1>14. ASSUME NEW x \in Request, HeldSkips(x) PROVE TypeOK'
    BY <1>14 DEF HeldSkips, PC, Status, Terminal, Step
<1>15. ASSUME NEW x \in Request, HeldSeesDead(x) PROVE TypeOK'
    BY <1>15 DEF HeldSeesDead, PC, Status, Terminal, Step
<1>16. ASSUME NEW x \in Request, HeldTimesOut(x) PROVE TypeOK'
    BY <1>16 DEF HeldTimesOut, Closed, PC, Status, Terminal, Step
<1>17. CASE HeldCloses
    BY <1>17 DEF HeldCloses, Closed, PC, Status, Terminal, Step
<1>18. CASE HeldRemembers
    BY <1>18, RememberedType DEF HeldRemembers, Step
<1>19. CASE WatchBegin
    BY <1>19 DEF WatchBegin, PC, Status, Terminal, Step
<1>20. CASE PollBegin
    BY <1>20 DEF PollBegin, PC, Status, Terminal, Step
<1>21. CASE WatchEnd
  <2>1. Slim(jobs) \in [Request -> Status]
      BY SlimKeeps
  <2>2. QED
      BY <1>21, <2>1 DEF WatchEnd, Persist
<1>22. CASE PollEnd
    BY <1>22 DEF PollEnd, PC, Status, Terminal, Step
<1>23. CASE Restart
    BY <1>23 DEF Restart, Loaded, PC, Status, Terminal, Step
<1>24. CASE UNCHANGED vars
    BY <1>24 DEF vars, PC, Status, Terminal, Step
<1>25. QED
    BY <1>1, <1>2, <1>3, <1>4, <1>5, <1>6, <1>7, <1>8, <1>9, <1>10, <1>11, <1>12, <1>13, <1>14, <1>15, <1>16, <1>17, <1>18, <1>19, <1>20, <1>21, <1>22, <1>23, <1>24 DEF Next, StartStep, HeldStep

\* Every variable keeps its type, in every behaviour.
THEOREM TypeCorrect == Spec => []TypeOK
BY InitTypeOK, NextTypeOK, PTL DEF Spec

\* The bookkeeping of start_named is what its control flow says it is.
LEMMA NextStartInv == TypeOK /\ StartInv /\ LockInv /\ DeadInv /\ [Next]_vars => StartInv'
<1> SUFFICES ASSUME TypeOK, StartInv, LockInv, DeadInv, [Next]_vars PROVE StartInv'
  OBVIOUS
<1> USE DEF TypeOK, StartInv, osVars, file, holdVars
<1>1. ASSUME NEW x \in Request, Ask(x) PROVE StartInv'
  BY <1>1 DEF Ask
<1>2. ASSUME NEW x \in Request, CheckBegin(x) PROVE StartInv'
  BY <1>2 DEF CheckBegin
<1>3. ASSUME NEW x \in Request, Join(x) PROVE StartInv'
  BY <1>3 DEF Join, LockInv
<1>4. ASSUME NEW x \in Request, CheckPass(x) PROVE StartInv'
  BY <1>4 DEF CheckPass, LockInv
<1>5. ASSUME NEW x \in Request, Spawn(x) PROVE StartInv'
  BY <1>5 DEF Spawn
<1>6. ASSUME NEW x \in Request, NoSudo(x) PROVE StartInv'
  BY <1>6 DEF NoSudo
<1>7. ASSUME NEW x \in Request, Insert(x) PROVE StartInv'
  <2>1. jobs' \in [Request -> Status]
    BY <1>7 DEF Insert, Status
  <2>2. \A r \in Request : Slim(jobs')[r] \in {jobs'[r], "absent"}
    BY DEF Slim
  <2>3. \A r \in Request : disk'[r] \in {jobs'[r], disk[r], "absent"}
    BY <1>7, <2>2 DEF Insert, Persist
  <2>4. QED
    BY <1>7, <2>3 DEF Insert
<1>8. ASSUME NEW x \in Request, OwnSeesDead(x) PROVE StartInv'
  BY <1>8 DEF OwnSeesDead
<1>9. ASSUME NEW x \in Request, OwnCloses(x) PROVE StartInv'
  BY <1>9 DEF OwnCloses, Closed
<1>10. ASSUME NEW x \in Request, OwnRemembers(x) PROVE StartInv'
  BY <1>10 DEF OwnRemembers
<1>11. ASSUME NEW x \in Request, Return(x) PROVE StartInv'
  BY <1>11 DEF Return
<1>12. ASSUME NEW x \in Request, Exit(x) PROVE StartInv'
  BY <1>12 DEF Exit, Live
<1>13. ASSUME NEW x \in Request, Expire(x) PROVE StartInv'
  BY <1>13 DEF Expire
<1>14. ASSUME NEW x \in Request, HeldSkips(x) PROVE StartInv'
  BY <1>14 DEF HeldSkips
<1>15. ASSUME NEW x \in Request, HeldSeesDead(x) PROVE StartInv'
  BY <1>15 DEF HeldSeesDead
<1>16. ASSUME NEW x \in Request, HeldTimesOut(x) PROVE StartInv'
  BY <1>16 DEF HeldTimesOut, Closed
<1>17. CASE HeldCloses
  BY <1>17 DEF HeldCloses, Closed
<1>18. CASE HeldRemembers
  BY <1>18 DEF HeldRemembers
<1>19. CASE WatchBegin
  BY <1>19 DEF WatchBegin
<1>20. CASE PollBegin
  BY <1>20 DEF PollBegin
<1>21. CASE WatchEnd
  <2>1. \A r \in Request : Slim(jobs)[r] \in {jobs[r], "absent"}
    BY DEF Slim
  <2>2. \A r \in Request : disk'[r] \in {jobs[r], disk[r], "absent"}
    BY <1>21, <2>1 DEF WatchEnd, Persist
  <2>3. QED
    BY <1>21, <2>2 DEF WatchEnd
<1>22. CASE PollEnd
  BY <1>22 DEF PollEnd
<1>23. CASE Restart
  BY <1>23 DEF Restart, Loaded, Returned
<1>24. CASE UNCHANGED vars
  BY <1>24 DEF vars
<1>25. QED
  BY <1>1, <1>2, <1>3, <1>4, <1>5, <1>6, <1>7, <1>8, <1>9, <1>10, <1>11, <1>12,
     <1>13, <1>14, <1>15, <1>16, <1>17, <1>18, <1>19, <1>20, <1>21, <1>22, <1>23, <1>24
  DEF Next, StartStep, HeldStep

LEMMA NextDeadInv == TypeOK /\ StartInv /\ LockInv /\ DeadInv /\ [Next]_vars => DeadInv'
<1> SUFFICES ASSUME TypeOK, StartInv, LockInv, DeadInv, [Next]_vars PROVE DeadInv'
  OBVIOUS
<1> USE DEF TypeOK, DeadInv, LooksAlive, Live, osVars, file, holdVars
<1>1. ASSUME NEW x \in Request, Ask(x) PROVE DeadInv'
  BY <1>1 DEF Ask
<1>2. ASSUME NEW x \in Request, CheckBegin(x) PROVE DeadInv'
  BY <1>2 DEF CheckBegin
<1>3. ASSUME NEW x \in Request, Join(x) PROVE DeadInv'
  BY <1>3 DEF Join
<1>4. ASSUME NEW x \in Request, CheckPass(x) PROVE DeadInv'
  BY <1>4 DEF CheckPass
<1>5. ASSUME NEW x \in Request, Spawn(x) PROVE DeadInv'
  BY <1>5, ParamAssumption DEF Spawn, StartInv, Terminal, LockInv
<1>6. ASSUME NEW x \in Request, NoSudo(x) PROVE DeadInv'
  BY <1>6 DEF NoSudo
<1>7. ASSUME NEW x \in Request, Insert(x) PROVE DeadInv'
  <2>1. jobs' \in [Request -> Status]
    BY <1>7 DEF Insert, Status
  <2>2. \A r \in Request : Slim(jobs')[r] \in {jobs'[r], "absent"}
    BY DEF Slim
  <2>3. \A r \in Request : disk'[r] \in {jobs'[r], disk[r], "absent"}
    BY <1>7, <2>2 DEF Insert, Persist
  <2>4. QED
    BY <1>7, <2>3 DEF Insert, Terminal
<1>8. ASSUME NEW x \in Request, OwnSeesDead(x) PROVE DeadInv'
  BY <1>8 DEF OwnSeesDead, StartInv
<1>9. ASSUME NEW x \in Request, OwnCloses(x) PROVE DeadInv'
  BY <1>9 DEF OwnCloses, Closed
<1>10. ASSUME NEW x \in Request, OwnRemembers(x) PROVE DeadInv'
  BY <1>10 DEF OwnRemembers
<1>11. ASSUME NEW x \in Request, Return(x) PROVE DeadInv'
  BY <1>11 DEF Return
<1>12. ASSUME NEW x \in Request, Exit(x) PROVE DeadInv'
  BY <1>12 DEF Exit
<1>13. ASSUME NEW x \in Request, Expire(x) PROVE DeadInv'
  BY <1>13 DEF Expire
<1>14. ASSUME NEW x \in Request, HeldSkips(x) PROVE DeadInv'
  BY <1>14 DEF HeldSkips
<1>15. ASSUME NEW x \in Request, HeldSeesDead(x) PROVE DeadInv'
  BY <1>15 DEF HeldSeesDead, StartInv
<1>16. ASSUME NEW x \in Request, HeldTimesOut(x) PROVE DeadInv'
  BY <1>16 DEF HeldTimesOut, Closed
<1>17. CASE HeldCloses
  BY <1>17 DEF HeldCloses, Closed
<1>18. CASE HeldRemembers
  BY <1>18 DEF HeldRemembers
<1>19. CASE WatchBegin
  BY <1>19 DEF WatchBegin
<1>20. CASE PollBegin
  BY <1>20 DEF PollBegin
<1>21. CASE WatchEnd
  <2>1. \A r \in Request : Slim(jobs)[r] \in {jobs[r], "absent"}
    BY DEF Slim
  <2>2. \A r \in Request : disk'[r] \in {jobs[r], disk[r], "absent"}
    BY <1>21, <2>1 DEF WatchEnd, Persist
  <2>3. QED
    BY <1>21, <2>2 DEF WatchEnd, Terminal
<1>22. CASE PollEnd
  BY <1>22 DEF PollEnd
<1>23. CASE Restart
  BY <1>23 DEF Restart, Loaded
<1>24. CASE UNCHANGED vars
  BY <1>24 DEF vars
<1>25. QED
  BY <1>1, <1>2, <1>3, <1>4, <1>5, <1>6, <1>7, <1>8, <1>9, <1>10, <1>11, <1>12,
     <1>13, <1>14, <1>15, <1>16, <1>17, <1>18, <1>19, <1>20, <1>21, <1>22, <1>23, <1>24
  DEF Next, StartStep, HeldStep

LEMMA NextLockInv == TypeOK /\ StartInv /\ LockInv /\ DeadInv /\ [Next]_vars => LockInv'
<1> SUFFICES ASSUME TypeOK, StartInv, LockInv, DeadInv, [Next]_vars PROVE LockInv'
  OBVIOUS
<1> USE DEF TypeOK, LockInv, LooksAlive, Live, osVars, file, holdVars
<1>1. ASSUME NEW x \in Request, Ask(x) PROVE LockInv'
  BY <1>1 DEF Ask
<1>2. ASSUME NEW x \in Request, CheckBegin(x) PROVE LockInv'
  BY <1>2 DEF CheckBegin
<1>3. ASSUME NEW x \in Request, Join(x) PROVE LockInv'
  BY <1>3 DEF Join
<1>4. ASSUME NEW x \in Request, CheckPass(x) PROVE LockInv'
  BY <1>4 DEF CheckPass
<1>5. ASSUME NEW x \in Request, Spawn(x) PROVE LockInv'
  BY <1>5 DEF Spawn, StartInv
<1>6. ASSUME NEW x \in Request, NoSudo(x) PROVE LockInv'
  BY <1>6 DEF NoSudo
<1>7. ASSUME NEW x \in Request, Insert(x) PROVE LockInv'
  BY <1>7 DEF Insert
<1>8. ASSUME NEW x \in Request, OwnSeesDead(x) PROVE LockInv'
  BY <1>8 DEF OwnSeesDead
<1>9. ASSUME NEW x \in Request, OwnCloses(x) PROVE LockInv'
  BY <1>9 DEF OwnCloses, Closed
<1>10. ASSUME NEW x \in Request, OwnRemembers(x) PROVE LockInv'
  BY <1>10 DEF OwnRemembers
<1>11. ASSUME NEW x \in Request, Return(x) PROVE LockInv'
  BY <1>11 DEF Return
<1>12. ASSUME NEW x \in Request, Exit(x) PROVE LockInv'
  BY <1>12 DEF Exit
<1>13. ASSUME NEW x \in Request, Expire(x) PROVE LockInv'
  BY <1>13 DEF Expire
<1>14. ASSUME NEW x \in Request, HeldSkips(x) PROVE LockInv'
  BY <1>14 DEF HeldSkips
<1>15. ASSUME NEW x \in Request, HeldSeesDead(x) PROVE LockInv'
  BY <1>15 DEF HeldSeesDead
<1>16. ASSUME NEW x \in Request, HeldTimesOut(x) PROVE LockInv'
  BY <1>16 DEF HeldTimesOut, Closed
<1>17. CASE HeldCloses
  BY <1>17 DEF HeldCloses, Closed
<1>18. CASE HeldRemembers
  BY <1>18 DEF HeldRemembers, DeadInv
<1>19. CASE WatchBegin
  BY <1>19 DEF WatchBegin
<1>20. CASE PollBegin
  BY <1>20 DEF PollBegin
<1>21. CASE WatchEnd
  BY <1>21 DEF WatchEnd
<1>22. CASE PollEnd
  BY <1>22 DEF PollEnd
<1>23. CASE Restart
  BY <1>23 DEF Restart, Loaded
<1>24. CASE UNCHANGED vars
  BY <1>24 DEF vars
<1>25. QED
  BY <1>1, <1>2, <1>3, <1>4, <1>5, <1>6, <1>7, <1>8, <1>9, <1>10, <1>11, <1>12,
     <1>13, <1>14, <1>15, <1>16, <1>17, <1>18, <1>19, <1>20, <1>21, <1>22, <1>23, <1>24
  DEF Next, StartStep, HeldStep

LEMMA NextSavedInv == TypeOK /\ SavedInv /\ StartInv /\ [Next]_vars => SavedInv'
<1> SUFFICES ASSUME TypeOK, SavedInv, StartInv, [Next]_vars PROVE SavedInv'
  OBVIOUS
<1> USE DEF TypeOK, SavedInv, osVars, file, holdVars
<1>1. ASSUME NEW x \in Request, Ask(x) PROVE SavedInv'
  BY <1>1 DEF Ask
<1>2. ASSUME NEW x \in Request, CheckBegin(x) PROVE SavedInv'
  BY <1>2 DEF CheckBegin
<1>3. ASSUME NEW x \in Request, Join(x) PROVE SavedInv'
  BY <1>3 DEF Join
<1>4. ASSUME NEW x \in Request, CheckPass(x) PROVE SavedInv'
  BY <1>4 DEF CheckPass
<1>5. ASSUME NEW x \in Request, Spawn(x) PROVE SavedInv'
  BY <1>5 DEF Spawn
<1>6. ASSUME NEW x \in Request, NoSudo(x) PROVE SavedInv'
  BY <1>6 DEF NoSudo
<1>7. ASSUME NEW x \in Request, Insert(x) PROVE SavedInv'
  <2>1. jobs' \in [Request -> Status]
    BY <1>7 DEF Insert, Status
  <2>2. \A r \in Request : jobs'[r] = "running" => Slim(jobs')[r] = "running"
    BY DEF Slim, Terminal
  <2>3. QED
    BY <1>7, <2>2 DEF Insert, Persist
<1>8. ASSUME NEW x \in Request, OwnSeesDead(x) PROVE SavedInv'
  BY <1>8 DEF OwnSeesDead
<1>9. ASSUME NEW x \in Request, OwnCloses(x) PROVE SavedInv'
  BY <1>9 DEF OwnCloses, Closed
<1>10. ASSUME NEW x \in Request, OwnRemembers(x) PROVE SavedInv'
  BY <1>10 DEF OwnRemembers
<1>11. ASSUME NEW x \in Request, Return(x) PROVE SavedInv'
  BY <1>11 DEF Return
<1>12. ASSUME NEW x \in Request, Exit(x) PROVE SavedInv'
  BY <1>12 DEF Exit
<1>13. ASSUME NEW x \in Request, Expire(x) PROVE SavedInv'
  BY <1>13 DEF Expire
<1>14. ASSUME NEW x \in Request, HeldSkips(x) PROVE SavedInv'
  BY <1>14 DEF HeldSkips
<1>15. ASSUME NEW x \in Request, HeldSeesDead(x) PROVE SavedInv'
  BY <1>15 DEF HeldSeesDead
<1>16. ASSUME NEW x \in Request, HeldTimesOut(x) PROVE SavedInv'
  BY <1>16 DEF HeldTimesOut, Closed
<1>17. CASE HeldCloses
  BY <1>17 DEF HeldCloses, Closed
<1>18. CASE HeldRemembers
  BY <1>18 DEF HeldRemembers
<1>19. CASE WatchBegin
  BY <1>19 DEF WatchBegin
<1>20. CASE PollBegin
  BY <1>20 DEF PollBegin
<1>21. CASE WatchEnd
  <2>1. \A r \in Request : jobs[r] = "running" => Slim(jobs)[r] = "running"
    BY DEF Slim, Terminal
  <2>2. QED
    BY <1>21, <2>1 DEF WatchEnd, Persist
<1>22. CASE PollEnd
  BY <1>22 DEF PollEnd
<1>23. CASE Restart
  BY <1>23 DEF Restart, Loaded
<1>24. CASE UNCHANGED vars
  BY <1>24 DEF vars
<1>25. QED
  BY <1>1, <1>2, <1>3, <1>4, <1>5, <1>6, <1>7, <1>8, <1>9, <1>10, <1>11, <1>12,
     <1>13, <1>14, <1>15, <1>16, <1>17, <1>18, <1>19, <1>20, <1>21, <1>22, <1>23, <1>24
  DEF Next, StartStep, HeldStep

LEMMA InitIInv == Init => IInv
<1> SUFFICES ASSUME Init PROVE StartInv /\ DeadInv /\ LockInv /\ SavedInv
  BY InitTypeOK DEF IInv
<1>1. StartInv
  BY DEF Init, StartInv
<1>2. DeadInv
  BY DEF Init, DeadInv, Terminal
<1>3. LockInv
  BY DEF Init, LockInv
<1>4. SavedInv
  BY DEF Init, SavedInv
<1>5. QED
  BY <1>1, <1>2, <1>3, <1>4

LEMMA NextIInv == IInv /\ [Next]_vars => IInv'
BY NextTypeOK, NextStartInv, NextDeadInv, NextLockInv, NextSavedInv DEF IInv

\* The threads, the lock, the file and the process table stay in step.
THEOREM JobsInvariant == Spec => []IInv
BY InitIInv, NextIInv, PTL DEF Spec

-----------------------------------------------------------------------------

\* With a server that may signal its jobs, no job is reported stopped while
\* its process runs.
THEOREM StoppedHasEnded ==
  ASSUME MaySignal = TRUE
  PROVE  Spec => []DoneMeansGone
<1>1. IInv => DoneMeansGone
  BY DEF IInv, TypeOK, DeadInv, StartInv, DoneMeansGone, LooksAlive, Live, Terminal
<1>2. QED
  BY <1>1, JobsInvariant, PTL

\* Whoever the server runs as, a finished job stays finished, over restarts too.
THEOREM TerminalIsFinal == Spec => TerminalStays
<1> DEFINE Stays(r) ==
      jobs[r] \in Terminal =>
        \/ jobs'[r] = jobs[r]
        \/ restarts' # restarts /\ jobs'[r] \in Terminal \union {"absent"}
<1>1. IInv /\ [Next]_vars => [\A r \in Request : Stays(r)]_vars
  <2> SUFFICES ASSUME IInv, [Next]_vars, NEW r \in Request PROVE Stays(r)
    OBVIOUS
  <2>1. CASE \E x \in Request : Insert(x)
    BY <2>1 DEF Insert, IInv, TypeOK, StartInv, Terminal
  <2>2. CASE \E x \in Request : OwnCloses(x) \/ HeldTimesOut(x)
    BY <2>2 DEF OwnCloses, HeldTimesOut, Closed, IInv, TypeOK, Terminal
  <2>3. CASE HeldCloses
    BY <2>3 DEF HeldCloses, Closed, IInv, TypeOK, Terminal
  <2>4. CASE Restart
    <3>1. jobs[r] \in Terminal => ~LooksAlive(r)
      BY DEF IInv, DeadInv
    <3>2. restarts' # restarts
      BY <2>4 DEF Restart, IInv, TypeOK
    <3>3. ~LooksAlive(r) => jobs'[r] \in Terminal \union {"absent"}
      BY <2>4 DEF Restart, Loaded, IInv, TypeOK, Status, Terminal
    <3>4. QED
      BY <3>1, <3>2, <3>3
  <2>5. CASE UNCHANGED jobs
    BY <2>5
  <2>6. QED
    BY <2>1, <2>2, <2>3, <2>4, <2>5
    DEF Next, StartStep, HeldStep, vars, Ask, CheckBegin, Join, CheckPass,
        Spawn, NoSudo, OwnSeesDead, OwnRemembers, Return, Exit,
        Expire, HeldSkips, HeldSeesDead, HeldRemembers, WatchBegin, PollBegin,
        WatchEnd, PollEnd
<1>2. QED
  BY <1>1, JobsInvariant, PTL DEF Spec, TerminalStays

\* A restart after a save that did not fail forgets no running job.
THEOREM RunningIsKept == Spec => RunningSurvivesRestart
<1> DEFINE Kept(r) ==
      (restarts' # restarts /\ ~unsaved /\ jobs[r] = "running" /\ LooksAlive(r)) => jobs'[r] = "running"
<1>1. IInv /\ [Next]_vars => [\A r \in Request : Kept(r)]_vars
  <2> SUFFICES ASSUME IInv, [Next]_vars, NEW r \in Request PROVE Kept(r)
    OBVIOUS
  <2>1. CASE Restart
    BY <2>1 DEF Restart, Loaded, IInv, SavedInv
  <2>2. CASE UNCHANGED restarts
    BY <2>2
  <2>3. QED
    BY <2>1, <2>2
    DEF Next, StartStep, HeldStep, vars, Ask, CheckBegin, Join, CheckPass,
        Spawn, NoSudo, Insert, OwnSeesDead, OwnCloses, OwnRemembers, Return,
        Exit, Expire, HeldSkips, HeldSeesDead, HeldTimesOut,
        HeldCloses, HeldRemembers, WatchBegin, PollBegin, WatchEnd, PollEnd
<1>2. QED
  BY <1>1, JobsInvariant, PTL DEF Spec, RunningSurvivesRestart

-----------------------------------------------------------------------------
(* The join check: what it leaves open, and nothing else.                  *)

LEMMA NextRaceInv ==
  ASSUME MaySignal = TRUE, IInv, RaceInv, [Next]_vars
  PROVE  RaceInv'
<1> SUFFICES ASSUME NEW r \in Request, NEW s \in Request PROVE PairInv(r, s)'
  BY DEF RaceInv
<1>p. PairInv(r, s)
  BY DEF RaceInv
<1>q. PairInv(s, r) /\ {r, s} = {s, r}
  BY DEF RaceInv
<1> USE DEF IInv, TypeOK, PairInv, Excused, Orphan, Live, Window, osVars, file, holdVars
<1>1. ASSUME NEW x \in Request, Ask(x) PROVE PairInv(r, s)'
  BY <1>1, <1>p, <1>q DEF Ask
<1>2. ASSUME NEW x \in Request, CheckBegin(x) PROVE PairInv(r, s)'
  BY <1>2, <1>p, <1>q DEF CheckBegin
<1>3. ASSUME NEW x \in Request, Join(x) PROVE PairInv(r, s)'
  BY <1>3, <1>p, <1>q DEF Join
<1>4. ASSUME NEW x \in Request, CheckPass(x) PROVE PairInv(r, s)'
  <2>1. \A j \in Request : (pc[j] # "insert" /\ Live(j) /\ name[j] = name[x]) => Orphan(j)
    BY <1>4 DEF CheckPass, LockInv, DeadInv, LooksAlive, Status, Terminal
  <2>2. \A j \in Request : pc[j] \in Window => {x, j} \in raced'
    BY <1>4 DEF CheckPass
  <2>3. pc[x] = "check" /\ proc[x] = "none"
    BY <1>4 DEF CheckPass, LockInv, StartInv
  <2>4. QED
    BY <1>4, <1>p, <1>q, <2>1, <2>2, <2>3 DEF CheckPass
<1>5. ASSUME NEW x \in Request, Spawn(x) PROVE PairInv(r, s)'
  BY <1>5, <1>p, <1>q DEF Spawn, StartInv
<1>6. ASSUME NEW x \in Request, NoSudo(x) PROVE PairInv(r, s)'
  BY <1>6, <1>p, <1>q DEF NoSudo
<1>7. ASSUME NEW x \in Request, Insert(x) PROVE PairInv(r, s)'
  BY <1>7, <1>p, <1>q DEF Insert
<1>8. ASSUME NEW x \in Request, OwnSeesDead(x) PROVE PairInv(r, s)'
  BY <1>8, <1>p, <1>q DEF OwnSeesDead
<1>9. ASSUME NEW x \in Request, OwnCloses(x) PROVE PairInv(r, s)'
  BY <1>9, <1>p, <1>q DEF OwnCloses, Closed
<1>10. ASSUME NEW x \in Request, OwnRemembers(x) PROVE PairInv(r, s)'
  BY <1>10, <1>p, <1>q DEF OwnRemembers
<1>11. ASSUME NEW x \in Request, Return(x) PROVE PairInv(r, s)'
  BY <1>11, <1>p, <1>q DEF Return
<1>12. ASSUME NEW x \in Request, Exit(x) PROVE PairInv(r, s)'
  BY <1>12, <1>p, <1>q DEF Exit, StartInv
<1>13. ASSUME NEW x \in Request, Expire(x) PROVE PairInv(r, s)'
  BY <1>13, <1>p, <1>q DEF Expire
<1>14. ASSUME NEW x \in Request, HeldSkips(x) PROVE PairInv(r, s)'
  BY <1>14, <1>p, <1>q DEF HeldSkips
<1>15. ASSUME NEW x \in Request, HeldSeesDead(x) PROVE PairInv(r, s)'
  BY <1>15, <1>p, <1>q DEF HeldSeesDead
<1>16. ASSUME NEW x \in Request, HeldTimesOut(x) PROVE PairInv(r, s)'
  BY <1>16, <1>p, <1>q DEF HeldTimesOut, Closed
<1>17. CASE HeldCloses
  BY <1>17, <1>p, <1>q DEF HeldCloses, Closed
<1>18. CASE HeldRemembers
  BY <1>18, <1>p, <1>q DEF HeldRemembers
<1>19. CASE WatchBegin
  BY <1>19, <1>p, <1>q DEF WatchBegin
<1>20. CASE PollBegin
  BY <1>20, <1>p, <1>q DEF PollBegin
<1>21. CASE WatchEnd
  BY <1>21, <1>p, <1>q DEF WatchEnd
<1>22. CASE PollEnd
  BY <1>22, <1>p, <1>q DEF PollEnd
<1>23. CASE Restart
  BY <1>23, <1>p, <1>q DEF Restart, Loaded, Returned, StartInv
<1>24. CASE UNCHANGED vars
  BY <1>24, <1>p, <1>q DEF vars
<1>25. QED
  BY <1>1, <1>2, <1>3, <1>4, <1>5, <1>6, <1>7, <1>8, <1>9, <1>10, <1>11, <1>12,
     <1>13, <1>14, <1>15, <1>16, <1>17, <1>18, <1>19, <1>20, <1>21, <1>22, <1>23, <1>24
  DEF Next, StartStep, HeldStep

\* Two processes of one run are alive together only if their starts overlapped
\* or one of them lost its record: start_named joins in every other case.
THEOREM OneshotOutsideTheRace ==
  ASSUME MaySignal = TRUE
  PROVE  Spec => []OneshotUnlessRaced
<1>1. Init => RaceInv
  BY DEF Init, RaceInv, PairInv, Window, Live
<1>2. IInv /\ RaceInv /\ [Next]_vars => RaceInv'
  BY NextRaceInv
<1>3. RaceInv => OneshotUnlessRaced
  BY DEF RaceInv, PairInv, Excused, OneshotUnlessRaced
<1>4. QED
  BY <1>1, <1>2, <1>3, JobsInvariant, PTL DEF Spec

-----------------------------------------------------------------------------
(* Implementation: the threads, the lock and jobs.json keep the promise of *)
(* DetachedJob, step by step.                                              *)

LEMMA InitPromise == Init => Job!Init
BY DEF Init, Job!Init

\* An ended process, seen through kill(2) by a server that may signal it.
LEMMA DeadIsGone ==
  ASSUME MaySignal = TRUE, TypeOK, NEW r \in Request, ~LooksAlive(r), proc[r] # "none"
  PROVE  proc[r] = "gone"
BY DEF TypeOK, LooksAlive, Live

LEMMA CloseIsPromised ==
  ASSUME MaySignal = TRUE, IInv, NEW r \in Request, ~LooksAlive(r), proc[r] # "none",
         jobs' = Closed(r, "done"), UNCHANGED <<proc, unsaved>>
  PROVE  Job!Next \/ UNCHANGED <<proc, jobs, ~unsaved>>
<1>1. proc[r] = "gone"
  BY DeadIsGone DEF IInv
<1>2. CASE jobs[r] = "running"
  <2>1. Job!Close(r)
    BY <1>1, <1>2 DEF Closed, Job!Close
  <2>2. QED
    BY <2>1 DEF Job!Next
<1>3. CASE jobs[r] # "running"
  BY <1>3 DEF Closed
<1>4. QED
  BY <1>2, <1>3

LEMMA RestartIsPromised ==
  ASSUME MaySignal = TRUE, IInv, Restart
  PROVE  Job!Restart
<1> USE DEF IInv, TypeOK
<1>1. jobs' \in [Request -> {"absent", "running"} \union Job!Over]
  BY DEF Restart, Loaded, Status, Terminal, Job!Over
<1>2. ASSUME NEW r \in Request PROVE jobs'[r] \in Job!Reloads(r)
  <2>1. jobs'[r] = IF disk[r] = "running" /\ ~LooksAlive(r) THEN "done" ELSE disk[r]
    BY DEF Restart, Loaded
  <2>2. /\ jobs[r] = "absent" => disk[r] = "absent"
        /\ jobs[r] # "absent" => proc[r] # "none"
        /\ disk[r] \in Terminal => ~LooksAlive(r)
    BY DEF StartInv, DeadInv
  <2>3. (~unsaved /\ jobs[r] = "running") => disk[r] = "running"
    BY DEF SavedInv
  <2>4. LooksAlive(r) <=> proc[r] = "live"
    BY DEF LooksAlive, Live
  <2>5. QED
    BY <2>1, <2>2, <2>3, <2>4 DEF Job!Reloads, Job!Over, Status, Terminal
<1>3. UNCHANGED <<proc, ~unsaved>>
  BY DEF Restart, osVars, file
<1>4. QED
  BY <1>1, <1>2, <1>3 DEF Job!Restart

\* Every step of every thread is a step of the promise, or none of its business.
LEMMA StepIsPromised ==
  ASSUME MaySignal = TRUE, IInv, [Next]_vars
  PROVE  Job!Next \/ UNCHANGED <<proc, jobs, ~unsaved>>
<1> USE DEF IInv, TypeOK, osVars, file, holdVars
<1>1. ASSUME NEW x \in Request, Spawn(x) PROVE Job!Next
  <2>1. Job!Start(x)
    BY <1>1 DEF Spawn, StartInv, Job!Start
  <2>2. QED
    BY <2>1 DEF Job!Next
<1>2. ASSUME NEW x \in Request, Insert(x) PROVE Job!Next
  <2>1. Job!Enter(x)
    BY <1>2 DEF Insert, StartInv, Job!Enter
  <2>2. QED
    BY <2>1 DEF Job!Next
<1>3. ASSUME NEW x \in Request, Exit(x) PROVE Job!Next
  <2>1. Job!End(x)
    BY <1>3 DEF Exit, Live, Job!End
  <2>2. QED
    BY <2>1 DEF Job!Next
<1>4. ASSUME NEW x \in Request, OwnCloses(x)
      PROVE  Job!Next \/ UNCHANGED <<proc, jobs, ~unsaved>>
  <2>1. ~LooksAlive(x) /\ proc[x] # "none"
    BY <1>4 DEF OwnCloses, DeadInv, StartInv
  <2>2. jobs' = Closed(x, "done") /\ UNCHANGED <<proc, unsaved>>
    BY <1>4 DEF OwnCloses
  <2>3. QED
    BY <2>1, <2>2, CloseIsPromised
<1>5. CASE HeldCloses
  <2>1. reaping \in Request /\ ~LooksAlive(reaping) /\ proc[reaping] # "none"
    BY <1>5 DEF HeldCloses, DeadInv
  <2>2. jobs' = Closed(reaping, "done") /\ UNCHANGED <<proc, unsaved>>
    BY <1>5 DEF HeldCloses
  <2>3. QED
    BY <2>1, <2>2, CloseIsPromised
<1>6. ASSUME NEW x \in Request, HeldTimesOut(x) PROVE Job!Next
  <2>1. Job!Kill(x)
    BY <1>6 DEF HeldTimesOut, Closed, LooksAlive, Live, Job!Kill
  <2>2. QED
    BY <2>1 DEF Job!Next
<1>7. CASE WatchEnd
  <2>1. Job!Save
    BY <1>7 DEF WatchEnd, Job!Save
  <2>2. QED
    BY <2>1 DEF Job!Next
<1>8. CASE Restart
  BY <1>8, RestartIsPromised DEF Job!Next
<1>9. CASE UNCHANGED <<proc, jobs, unsaved>>
  BY <1>9
<1>10. QED
  BY <1>1, <1>2, <1>3, <1>4, <1>5, <1>6, <1>7, <1>8, <1>9
  DEF Next, StartStep, HeldStep, vars, Ask, CheckBegin, Join, CheckPass, NoSudo,
      OwnSeesDead, OwnRemembers, Return, Expire, HeldSkips, HeldSeesDead,
      HeldRemembers, WatchBegin, PollBegin, PollEnd

\* A server that may signal its jobs implements DetachedJob: what its threads,
\* polls, watchdog and restarts do to a job is what the promise allows.
THEOREM PromiseKept ==
  ASSUME MaySignal = TRUE
  PROVE  Spec => KeepsPromise
<1>1. IInv /\ [Next]_vars => [Job!Next]_(Job!promiseVars)
  BY StepIsPromised DEF Job!promiseVars
<1>2. QED
  BY InitPromise, <1>1, JobsInvariant, PTL DEF Spec, KeepsPromise, Job!Spec

=============================================================================
