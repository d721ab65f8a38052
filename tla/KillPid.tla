------------------------------- MODULE KillPid -------------------------------
(***************************************************************************)
(* kill-pid.sh: the cockpit writes the pid and the name it is to end into  *)
(* act.json (start_named, before it looks for a run under way); the        *)
(* playbook asks the gate, reads the pid, reads the name, compares both    *)
(* with /proc and sends SIGTERM.  Every one of these steps is a process of *)
(* its own, and processes come and go between them.                        *)
(***************************************************************************)
EXTENDS Snapshots, FiniteSets

CONSTANTS Pid,      \* process ids
          Name,     \* names of programs
          Ours,     \* OURS_COMM
          Killer,   \* runs of kill-pid.sh
          MaxAct,   \* bound: times act.json is written
          MaxBorn   \* bound: processes born

ASSUME KillAssumption ==
  Ours \subseteq Name /\ MaxAct \in Nat /\ MaxBorn \in Nat

VARIABLES
  proc,     \* the process that has each pid: its comm and its exe, or None
  born,     \* bound: processes born so far
  act,      \* act.json, or None
  asked,    \* history: the <<pid, name>> pairs written to act.json
  kpc,      \* where each run is
  kpid,     \* what it read as the pid
  kexe,     \* what it read as the name
  mixed,    \* history: was act.json written between the two reads of a run?
  fresh,    \* history: has another process taken the pid since the check?
  hit       \* history: what each run has signalled

killVars == <<proc, born, act, asked, kpc, kpid, kexe, mixed, fresh, hit>>

None == [none |-> TRUE]
Process == [comm : Name, exe : Name]
KillOver(r) == kpc[r] \in {"exit0", "exit1", "exit2"}

KillTypeOK ==
  /\ proc \in [Pid -> Process \union {None}]
  /\ born \in 0 .. MaxBorn
  /\ act \in [pid : Pid, exe : Name] \union {None}
  /\ asked \subseteq Pid \X Name
  /\ kpc \in [Killer -> {"gate", "pid", "exe", "check", "signal", "exit0", "exit1", "exit2"}]
  /\ kpid \in [Killer -> Pid \union {0}]
  /\ kexe \in [Killer -> Name \union {""}]
  /\ mixed \in [Killer -> BOOLEAN] /\ fresh \in [Killer -> BOOLEAN]
  /\ hit \in [Killer -> Process \union {None}]

KillInit ==
  /\ proc = [p \in Pid |-> None] /\ born = 0
  /\ act = None /\ asked = {}
  /\ kpc = [r \in Killer |-> "gate"]
  /\ kpid = [r \in Killer |-> 0] /\ kexe = [r \in Killer |-> ""]
  /\ mixed = [r \in Killer |-> FALSE] /\ fresh = [r \in Killer |-> FALSE]
  /\ hit = [r \in Killer |-> None]

-----------------------------------------------------------------------------
\* A process is born under a free pid, ends, or changes its own comm.
Birth(p, q) ==
  /\ proc[p] = None /\ born < MaxBorn
  /\ born' = born + 1
  /\ proc' = [proc EXCEPT ![p] = q]
  /\ fresh' = [r \in Killer |-> fresh[r] \/ (kpc[r] = "signal" /\ kpid[r] = p)]
  /\ UNCHANGED <<act, asked, kpc, kpid, kexe, mixed, hit>>

Death(p) ==
  /\ proc[p] # None
  /\ proc' = [proc EXCEPT ![p] = None]
  /\ UNCHANGED <<born, act, asked, kpc, kpid, kexe, mixed, fresh, hit>>

\* _write_act: replaced in one step.
WriteAct(p, n) ==
  /\ Cardinality(asked) < MaxAct \/ <<p, n>> \in asked
  /\ act' = [pid |-> p, exe |-> n]
  /\ act' # act
  /\ asked' = asked \union {<<p, n>>}
  /\ mixed' = [r \in Killer |-> mixed[r] \/ kpc[r] = "exe"]
  /\ UNCHANGED <<proc, born, kpc, kpid, kexe, fresh, hit>>

AskGateToKill(r) ==
  /\ kpc[r] = "gate"
  /\ kpc' = [kpc EXCEPT ![r] = IF RequireNotAlert /\ act # None THEN "pid" ELSE "exit2"]
  /\ UNCHANGED <<proc, born, act, asked, kpid, kexe, mixed, fresh, hit>>

ReadPid(r) ==
  /\ kpc[r] = "pid"
  /\ kpid' = [kpid EXCEPT ![r] = act.pid]
  /\ kpc' = [kpc EXCEPT ![r] = "exe"]
  /\ UNCHANGED <<proc, born, act, asked, kexe, mixed, fresh, hit>>

ReadExe(r) ==
  /\ kpc[r] = "exe"
  /\ kexe' = [kexe EXCEPT ![r] = act.exe]
  /\ kpc' = [kpc EXCEPT ![r] = "check"]
  /\ UNCHANGED <<proc, born, act, asked, kpid, mixed, fresh, hit>>

\* Mutant: only that the pid is there.
CheckAlive(p, n) == proc[p] # None

\* check_kill: not one of ours, the comm is the name, the exe is either.
CheckKill(p, n) ==
  /\ n \notin Ours
  /\ proc[p] # None
  /\ proc[p].comm = n
  /\ proc[p].exe \in {n, proc[p].comm}

Check(r) ==
  /\ kpc[r] = "check"
  /\ kpc' = [kpc EXCEPT ![r] = IF CheckKill(kpid[r], kexe[r]) THEN "signal" ELSE "exit2"]
  /\ UNCHANGED <<proc, born, act, asked, kpid, kexe, mixed, fresh, hit>>

\* kill -TERM, which fails when the pid has gone.
Signal(r) ==
  /\ kpc[r] = "signal"
  /\ hit' = [hit EXCEPT ![r] = proc[kpid[r]]]
  /\ kpc' = [kpc EXCEPT ![r] = IF proc[kpid[r]] = None THEN "exit1" ELSE "exit0"]
  /\ UNCHANGED <<proc, born, act, asked, kpid, kexe, mixed, fresh>>

KillNext ==
  \/ \E p \in Pid, q \in Process : Birth(p, q)
  \/ \E p \in Pid : Death(p)
  \/ \E p \in Pid, n \in Name : WriteAct(p, n)
  \/ \E r \in Killer : AskGateToKill(r) \/ ReadPid(r) \/ ReadExe(r) \/ Check(r) \/ Signal(r)

-----------------------------------------------------------------------------
\* "exe must match /proc. Never ours" (kill-pid.sh:2): what a run signals has
\* the name and, read in one piece, the pid the operator confirmed, and is none
\* of the cockpit's own; both exceptions are races of the code: a pid reused
\* since the check, and an act.json written between the two reads, which can
\* pair the pid of one request with the name of another.
KillsWhatWasAsked ==
  \A r \in Killer : (hit[r] # None /\ ~fresh[r]) =>
    /\ hit[r].comm = kexe[r] /\ hit[r].comm \notin Ours
    /\ mixed[r] \/ <<kpid[r], kexe[r]>> \in asked

=============================================================================
