---------------------------- MODULE DetachedJob ----------------------------
(***************************************************************************)
(* What a detached job promises whoever asks about it, with the threads,   *)
(* the lock and the file of app/hiroshima.py left out: a record says       *)
(* running, done or timeout, a process lives or has ended, and the two     *)
(* agree over everything that happens, a restart of the server included.   *)
(***************************************************************************)
CONSTANT Job

VARIABLES
  process,   \* "none", "live" or "gone"
  record,    \* "absent", "running", "done" or "timeout"
  saved      \* is the record on disk as it was when it was last written?

promiseVars == <<process, record, saved>>
Over == {"done", "timeout"}

Init ==
  /\ process = [j \in Job |-> "none"]
  /\ record = [j \in Job |-> "absent"]
  /\ saved = TRUE

\* A process is there before its record is.
Start(j) ==
  /\ process[j] = "none"
  /\ process' = [process EXCEPT ![j] = "live"]
  /\ UNCHANGED <<record, saved>>

\* A job is entered once, after its start, and never entered again.
Enter(j) ==
  /\ record[j] = "absent" /\ process[j] # "none"
  /\ record' = [record EXCEPT ![j] = "running"]
  /\ saved' \in BOOLEAN
  /\ UNCHANGED process

End(j) ==
  /\ process[j] = "live"
  /\ process' = [process EXCEPT ![j] = "gone"]
  /\ UNCHANGED <<record, saved>>

\* Done is said of a job on record whose process has ended.
Close(j) ==
  /\ record[j] = "running" /\ process[j] = "gone"
  /\ record' = [record EXCEPT ![j] = "done"]
  /\ UNCHANGED <<process, saved>>

\* Timeout is said of a process in the moment it is killed.
Kill(j) ==
  /\ record[j] = "running" /\ process[j] = "live"
  /\ process' = [process EXCEPT ![j] = "gone"]
  /\ record' = [record EXCEPT ![j] = "timeout"]
  /\ UNCHANGED saved

Save == saved' \in BOOLEAN /\ UNCHANGED <<process, record>>

\* What a restart may make of a record: a job that runs is running, one that
\* has ended is over, and only an old record or an unsaved one is forgotten.
Reloads(j) ==
  IF record[j] = "absent" THEN {"absent"}
  ELSE (IF process[j] = "live" THEN {"running"} ELSE Over)
         \union (IF saved /\ record[j] = "running" THEN {} ELSE {"absent"})

Restart ==
  /\ record' \in [Job -> {"absent", "running"} \union Over]
  /\ \A j \in Job : record'[j] \in Reloads(j)
  /\ UNCHANGED <<process, saved>>

Next ==
  \/ \E j \in Job : Start(j) \/ Enter(j) \/ End(j) \/ Close(j) \/ Kill(j)
  \/ Save \/ Restart

Spec == Init /\ [][Next]_promiseVars

=============================================================================
