-------------------------- MODULE Playbooks_proofs --------------------------
(***************************************************************************)
(* Proofs about the playbooks, containment (Isolate) and aide-init and     *)
(* kill-pid (Playbooks), with the scans beside them: for any number of     *)
(* scans, runs, destinations, files, contents, processes and names.        *)
(*                                                                         *)
(* GateHolds rests on ScanInv: a scan of its own has a verdict in its file *)
(* exactly when it is done, and that verdict is the one of its findings.   *)
(* UndoRestores rests on RunInv: as long as runs have not overlapped, an   *)
(* isolation that writes has emptied the record, and an undo has taken     *)
(* away, or been refused, what is on record and no longer left to it.      *)
(*                                                                         *)
(* KillsWhatWasAsked rests on KillInv: what a run has read was asked for   *)
(* unless act.json changed between its reads, and a pid that passed the    *)
(* check keeps its process or loses it until another is born.              *)
(*                                                                         *)
(* What is said of aide-init rests on AideShape, the types with who a      *)
(* prefix comes from (FrozenInv).  PrefixesKept needs KeepInv: a run that  *)
(* is alone at the overlay holds all it lists, in hand and then in a tmp   *)
(* of its own.  TamperAlerts and ChangeSurfaces need FimInv: what a scan   *)
(* has asked dpkg still holds of the paths that have kept still since      *)
(* (SteadyInv), and of those its findings or a freeze tell (JudgedInv).    *)
(***************************************************************************)
EXTENDS Playbooks, Isolate, Snapshots_proofs, TLAPS

-----------------------------------------------------------------------------
(* isolate-dst and isolate-undo: types                                     *)

LEMMA ScanNextActs == ScanNext => \E s \in Scan : ScanAct(s)
BY ScanAssumption DEF ScanNext, ScanAct

\* Who is where: isolations and undos keep to their own script, and only an
\* isolation between its first rule and its record has anything in hand.
RoleInv ==
  /\ \A p \in Isolation : pc[p] \notin {"open", "delete"}
  /\ \A p \in Undo : pc[p] \notin {"gate", "pick", "deny", "write"}
  /\ \A p \in Run : pc[p] \notin {"deny", "write"} => added[p] = {}

IsolateShape == IsolateTypeOK /\ RoleInv

LEMMA InitIsolateShape == IsolateInit => IsolateShape
<1> SUFFICES ASSUME IsolateInit PROVE IsolateShape  OBVIOUS
<1>1. ScanTypeOK  BY DEF IsolateInit, ScanInit, ScanTypeOK, Stage
<1>2. IsolateTypeOK  BY <1>1 DEF IsolateInit, IsolateTypeOK, NoFile
<1>3. RoleInv  BY RunAssumption DEF IsolateInit, RoleInv, Run
<1> QED  BY <1>2, <1>3 DEF IsolateShape


LEMMA UnknownTyped ==
  ASSUME ScanTypeOK, LatestScanDir # 0
  PROVE  UnknownDsts(LatestScanDir) \in SUBSET Dst
BY LatestIsLive DEF UnknownDsts, ScanTypeOK

LEMMA IsolationKeepsShape ==
  ASSUME IsolateShape, NEW p \in Isolation, IsolationStep(p)
  PROVE  IsolateShape'
<1> USE RunAssumption DEF IsolateShape, IsolateTypeOK, RoleInv, history, Run
<1>0. ScanTypeOK'
  BY DEF IsolationStep, AskGate, RefuseFamily, Pick, Deny, Record, Write, scanVars, ScanTypeOK, Scan
<1>1. CASE AskGate(p)  BY <1>0, <1>1 DEF AskGate
<1>2. CASE RefuseFamily(p)  BY <1>0, <1>2 DEF RefuseFamily
<1>3. CASE Pick(p)
  <2>1. overlap' \in BOOLEAN  BY <1>3 DEF Pick
  <2>2. left' \in [Run -> SUBSET Dst]  BY <1>3, UnknownTyped DEF Pick
  <2> QED  BY <1>0, <1>3, <2>1, <2>2 DEF Pick
<1>4. ASSUME NEW d \in Dst, Deny(p, d) PROVE IsolateShape'  BY <1>0, <1>4 DEF Deny
<1>5. CASE Record(p)  BY <1>0, <1>5 DEF Record, Torn
<1>6. CASE Write(p)  BY <1>0, <1>6 DEF Write, File
<1> QED  BY <1>1, <1>2, <1>3, <1>4, <1>5, <1>6 DEF IsolationStep

LEMMA UndoKeepsShape ==
  ASSUME IsolateShape, NEW p \in Undo, UndoStep(p)
  PROVE  IsolateShape'
<1> USE RunAssumption DEF IsolateShape, IsolateTypeOK, RoleInv, history, Run
<1>0. ScanTypeOK'
  BY DEF UndoStep, NoRollback, Unreadable, Open, Delete, Unlink, scanVars, ScanTypeOK, Scan
<1>1. CASE NoRollback(p)  BY <1>0, <1>1 DEF NoRollback
<1>2. CASE Unreadable(p)  BY <1>0, <1>2 DEF Unreadable
<1>3. CASE Open(p)
  <2>1. overlap' \in BOOLEAN  BY <1>3 DEF Open
  <2> QED  BY <1>0, <1>3, <2>1 DEF Open
<1>4. ASSUME NEW d \in Dst, Delete(p, d) PROVE IsolateShape'  BY <1>0, <1>4 DEF Delete
<1>5. CASE Unlink(p)  BY <1>0, <1>5 DEF Unlink, NoFile
<1> QED  BY <1>1, <1>2, <1>3, <1>4, <1>5 DEF UndoStep

LEMMA KillKeepsShape ==
  ASSUME IsolateShape, NEW p \in Run, Kill(p)
  PROVE  IsolateShape'
<1>1. ScanTypeOK'  BY DEF IsolateShape, IsolateTypeOK, Kill, scanVars, ScanTypeOK, Scan
<1> QED  BY <1>1 DEF IsolateShape, IsolateTypeOK, RoleInv, Kill, Run

LEMMA ShapeStep == IsolateShape /\ [IsolateNext]_isolateVars => IsolateShape'
<1> SUFFICES ASSUME IsolateShape, [IsolateNext]_isolateVars PROVE IsolateShape'  OBVIOUS
<1>1. CASE ScanNext /\ UNCHANGED fwVars
  BY <1>1, ScanNextActs, ScanKeepsType DEF IsolateShape, IsolateTypeOK, RoleInv, fwVars, history
<1>2. CASE UNCHANGED isolateVars
  BY <1>2 DEF IsolateShape, IsolateTypeOK, RoleInv, isolateVars, fwVars, history, scanVars, ScanTypeOK
<1> QED  BY <1>1, <1>2, IsolationKeepsShape, UndoKeepsShape, KillKeepsShape DEF IsolateNext

LEMMA IsolateShapeHolds == IsolateSpec => []IsolateShape
BY InitIsolateShape, ShapeStep, PTL DEF IsolateSpec

\* Every variable of the scans, the runs, the firewall and the record keeps its
\* type, whatever the scripts do and wherever they are killed.
THEOREM IsolateTypeCorrect == IsolateSpec => []IsolateTypeOK
<1>1. IsolateShape => IsolateTypeOK  BY DEF IsolateShape
<1> QED  BY <1>1, IsolateShapeHolds, PTL

-----------------------------------------------------------------------------
(* isolate-dst: the gate                                                   *)

LEMMA ScanInvStep == IsolateShape /\ ScanInv /\ [IsolateNext]_isolateVars => ScanInv'
<1> SUFFICES ASSUME IsolateShape, ScanInv, [IsolateNext]_isolateVars PROVE ScanInv'  OBVIOUS
<1>1. CASE ScanNext  BY <1>1, ScanNextActs, ScanKeepsInv DEF IsolateShape, IsolateTypeOK
<1>2. CASE UNCHANGED scanVars  BY <1>2 DEF ScanInv, scanVars
<1>3. ASSUME NEW p, IsolationStep(p) PROVE UNCHANGED scanVars
  BY <1>3 DEF IsolationStep, AskGate, RefuseFamily, Pick, Deny, Record, Write
<1>4. ASSUME NEW p, UndoStep(p) PROVE UNCHANGED scanVars
  BY <1>4 DEF UndoStep, NoRollback, Unreadable, Open, Delete, Unlink
<1>5. ASSUME NEW p, Kill(p) PROVE UNCHANGED scanVars  BY <1>5 DEF Kill
<1> QED  BY <1>1, <1>2, <1>3, <1>4, <1>5 DEF IsolateNext, isolateVars

LEMMA InitScanInv == IsolateInit => ScanInv
BY DEF IsolateInit, ScanInit, ScanInv, Verdict

\* Only AskGate takes an isolation from the gate to its destinations.
LEMMA PassingIsAsking ==
  ASSUME IsolateShape, [IsolateNext]_isolateVars, NEW p \in Isolation, pc[p] = "gate", pc'[p] = "pick"
  PROVE  AskGate(p)
<1> USE DEF IsolateShape, IsolateTypeOK, Run
<1>1. CASE UNCHANGED fwVars  BY <1>1 DEF fwVars
<1>2. ASSUME NEW q \in Isolation, IsolationStep(q) PROVE AskGate(p)
  BY <1>2 DEF IsolationStep, AskGate, RefuseFamily, Pick, Deny, Record, Write
<1>3. ASSUME NEW q \in Undo, UndoStep(q) PROVE AskGate(p)
  BY <1>3, RunAssumption DEF UndoStep, NoRollback, Unreadable, Open, Delete, Unlink
<1>4. ASSUME NEW q \in Run, Kill(q) PROVE AskGate(p)  BY <1>4 DEF Kill
<1> QED  BY <1>1, <1>2, <1>3, <1>4 DEF IsolateNext, isolateVars

LEMMA GateStep ==
  ASSUME IsolateShape, ScanInv, [IsolateNext]_isolateVars, NEW p \in Isolation, pc[p] = "gate", pc'[p] = "pick"
  PROVE  \/ \E s \in Scan : replay[s] /\ counted[s] /\ verdict[s] # "none"
         \/ Ended # {} /\ found[Newest(Ended)] \intersect {"ALERT", "ERROR"} = {}
<1> DEFINE s == LatestScanDir
<1>1. s # 0 /\ verdict[s] \in {"CLEAN", "WARN"}
  <2>1. AskGate(p)  BY PassingIsAsking
  <2>2. RequireNotAlert  BY <2>1 DEF AskGate, IsolateShape, IsolateTypeOK, Run
  <2> QED  BY <2>2 DEF RequireNotAlert
<1>2. s \in Scan /\ counted[s] /\ verdict[s] # "none"  BY <1>1, LatestIsLive
<1> HIDE DEF s
<1>4. CASE replay[s]  BY <1>2, <1>4
<1>5. CASE ~replay[s]
  <2>1. s \in Own /\ s = Newest(Own) /\ verdict[s] = ComputeVerdict(found[s])
    BY <1>1, <1>5, LatestIsOwn DEF Verdict, s
  <2>2. Own = Ended  BY DEF Own, Ended
  <2> QED  BY <1>1, <2>1, <2>2, Worst
<1> QED  BY <1>4, <1>5

\* An isolation that passes the gate has the newest finished live scan behind it,
\* with no ALERT and no crashed module, for any number of scans, replays and runs
\* under way; the one exception is a replay that still shows a copied verdict.
THEOREM GateIsKept == IsolateSpec => GateHolds
<1>1. IsolateShape /\ ScanInv /\ [IsolateNext]_isolateVars =>
        [\A p \in Isolation :
          (pc[p] = "gate" /\ pc'[p] = "pick") =>
            \/ \E s \in Scan : replay[s] /\ counted[s] /\ verdict[s] # "none"
            \/ Ended # {} /\ found[Newest(Ended)] \intersect {"ALERT", "ERROR"} = {}]_isolateVars
  BY GateStep
<1>2. IsolateSpec => []ScanInv  BY InitScanInv, ScanInvStep, IsolateShapeHolds, PTL DEF IsolateSpec
<1> QED  BY <1>1, <1>2, IsolateShapeHolds, PTL DEF IsolateSpec, GateHolds

-----------------------------------------------------------------------------
(* isolate-dst and isolate-undo: the record                                *)

\* Runs that have not overlapped are busy one at a time ...
AloneInv == \A p, q \in Run : Busy(p) /\ Busy(q) => p = q

\* ... the record is empty while an isolation fills it ...
EmptiedInv == \A p \in Isolation : pc[p] = "write" => rb.ips = {}

\* ... and what an undo has passed in the record is gone, or was refused.
PassedInv == \A p \in Undo : pc[p] = "delete" => (rb.ips \ left[p]) \intersect fw \subseteq refused

\* Every rule is on record, in hand or excepted.
KeptInv == fw \subseteq rb.ips \union InHand \union stray \union refused

RunInv == ~overlap => AloneInv /\ EmptiedInv /\ PassedInv /\ KeptInv

LEMMA InHandOf == \A d : d \in InHand <=> \E p \in Isolation : d \in added[p]
BY DEF InHand

LEMMA InitRunInv == IsolateInit => RunInv
BY RunAssumption
   DEF IsolateInit, RunInv, AloneInv, EmptiedInv, PassedInv, KeptInv, Busy, Run, NoFile

LEMMA IsolationKeepsRunInv ==
  ASSUME IsolateShape, RunInv, NEW p \in Isolation, IsolationStep(p)
  PROVE  RunInv'
<1> SUFFICES ASSUME ~overlap' PROVE (AloneInv /\ EmptiedInv /\ PassedInv /\ KeptInv)'
  BY DEF RunInv
<1>0. ~overlap
  BY DEF IsolationStep, AskGate, RefuseFamily, Pick, Deny, Record, Write, history
<1>00. AloneInv /\ EmptiedInv /\ PassedInv /\ KeptInv  BY <1>0 DEF RunInv
<1> USE RunAssumption, <1>0, <1>00
    DEF IsolateShape, IsolateTypeOK, RoleInv, history, Run, Busy, AloneInv, EmptiedInv, PassedInv
<1>1. CASE AskGate(p)
  <2>1. KeptInv'  BY <1>1 DEF AskGate, KeptInv, InHand
  <2> QED  BY <1>1, <2>1 DEF AskGate
<1>2. CASE RefuseFamily(p)
  <2>1. KeptInv'  BY <1>2 DEF RefuseFamily, KeptInv, InHand
  <2> QED  BY <1>2, <2>1 DEF RefuseFamily
<1>3. CASE Pick(p)
  <2>1. KeptInv'  BY <1>3 DEF Pick, KeptInv, InHand
  <2>2. AloneInv'
    <3>1. CASE pc' = [pc EXCEPT ![p] = "exit0"]  BY <3>1
    <3>2. CASE pc' = [pc EXCEPT ![p] = "deny"] /\ Alone(p)  BY <3>2 DEF Alone
    <3> QED  BY <1>3, <3>1, <3>2 DEF Pick
  <2>3. EmptiedInv'  BY <1>3 DEF Pick
  <2>4. PassedInv'  BY <1>3 DEF Pick, Alone
  <2> QED  BY <2>1, <2>2, <2>3, <2>4
<1>4. ASSUME NEW d \in Dst, Deny(p, d)
      PROVE  (AloneInv /\ EmptiedInv /\ PassedInv /\ KeptInv)'
  <2>1. KeptInv'
    <3>1. \A e \in InHand : e \in InHand'  BY <1>4, InHandOf DEF Deny, InHand
    <3>2. d \in InHand'  BY <1>4 DEF Deny, InHand
    <3> QED  BY <1>4, <3>1, <3>2 DEF Deny, KeptInv
  <2>2. AloneInv' /\ EmptiedInv'  BY <1>4 DEF Deny
  <2>3. PassedInv'  BY <1>4 DEF Deny
  <2> QED  BY <2>1, <2>2, <2>3
<1>5. CASE Record(p)
  <2>1. KeptInv'
    <3>1. InHand' = InHand  BY <1>5 DEF Record, InHand
    <3>2. added[p] \subseteq InHand  BY DEF InHand
    <3> QED  BY <1>5, <3>1, <3>2 DEF Record, KeptInv
  <2>2. AloneInv'  BY <1>5 DEF Record
  <2>3. EmptiedInv' /\ PassedInv'  BY <1>5 DEF Record, Torn
  <2> QED  BY <2>1, <2>2, <2>3
<1>6. CASE Write(p)
  <2>1. KeptInv'
    <3>1. rb.ips = {}  BY <1>6 DEF Write
    <3>2. \A q \in Isolation : q # p => added[q] = {}  BY <1>6 DEF Write
    <3>3. InHand = added[p]  BY <3>2 DEF InHand
    <3> QED  BY <1>6, <3>1, <3>3 DEF Write, KeptInv, File
  <2>2. AloneInv' /\ EmptiedInv'  BY <1>6 DEF Write
  <2>3. PassedInv'  BY <1>6 DEF Write
  <2> QED  BY <2>1, <2>2, <2>3
<1> QED  BY <1>1, <1>2, <1>3, <1>4, <1>5, <1>6 DEF IsolationStep

LEMMA UndoKeepsRunInv ==
  ASSUME IsolateShape, RunInv, NEW p \in Undo, UndoStep(p)
  PROVE  RunInv'
<1> SUFFICES ASSUME ~overlap' PROVE (AloneInv /\ EmptiedInv /\ PassedInv /\ KeptInv)'
  BY DEF RunInv
<1>0. ~overlap  BY DEF UndoStep, NoRollback, Unreadable, Open, Delete, Unlink, history
<1>00. AloneInv /\ EmptiedInv /\ PassedInv /\ KeptInv  BY <1>0 DEF RunInv
<1> USE RunAssumption, <1>0, <1>00
    DEF IsolateShape, IsolateTypeOK, RoleInv, history, Run, Busy, AloneInv, EmptiedInv, PassedInv
<1>1. CASE NoRollback(p)
  <2>1. KeptInv'  BY <1>1 DEF NoRollback, KeptInv, InHand
  <2> QED  BY <1>1, <2>1 DEF NoRollback
<1>2. CASE Unreadable(p)
  <2>1. KeptInv'  BY <1>2 DEF Unreadable, KeptInv, InHand
  <2> QED  BY <1>2, <2>1 DEF Unreadable
<1>3. CASE Open(p)
  <2>1. KeptInv'  BY <1>3 DEF Open, KeptInv, InHand
  <2>2. AloneInv'  BY <1>3 DEF Open, Alone
  <2>3. EmptiedInv' /\ PassedInv'  BY <1>3 DEF Open, Alone
  <2> QED  BY <2>1, <2>2, <2>3
<1>4. ASSUME NEW d \in Dst, Delete(p, d)
      PROVE  (AloneInv /\ EmptiedInv /\ PassedInv /\ KeptInv)'
  <2>1. KeptInv'
    <3>1. InHand' = InHand  BY <1>4 DEF Delete, InHand
    <3> QED  BY <1>4, <3>1 DEF Delete, KeptInv
  <2>2. AloneInv' /\ EmptiedInv'  BY <1>4 DEF Delete
  <2>3. PassedInv'  BY <1>4 DEF Delete
  <2> QED  BY <2>1, <2>2, <2>3
<1>5. CASE Unlink(p)
  <2>1. KeptInv'
    <3>1. InHand' = InHand  BY <1>5 DEF Unlink, InHand
    <3>2. rb.ips \intersect fw \subseteq refused  BY <1>5 DEF Unlink
    <3> QED  BY <1>5, <3>1, <3>2 DEF Unlink, KeptInv
  <2>2. AloneInv'  BY <1>5 DEF Unlink
  <2>3. EmptiedInv' /\ PassedInv'  BY <1>5 DEF Unlink, NoFile
  <2> QED  BY <2>1, <2>2, <2>3
<1> QED  BY <1>1, <1>2, <1>3, <1>4, <1>5 DEF UndoStep

LEMMA KillKeepsRunInv ==
  ASSUME IsolateShape, RunInv, NEW p \in Run, Kill(p)
  PROVE  RunInv'
<1> SUFFICES ASSUME ~overlap' PROVE (AloneInv /\ EmptiedInv /\ PassedInv /\ KeptInv)'
  BY DEF RunInv
<1>0. AloneInv /\ EmptiedInv /\ PassedInv /\ KeptInv  BY DEF RunInv, Kill
<1> USE RunAssumption, <1>0
    DEF IsolateShape, IsolateTypeOK, RoleInv, Run, Busy, AloneInv, EmptiedInv, PassedInv
<1>1. KeptInv'
  <2>1. InHand \subseteq InHand' \union added[p]  BY InHandOf DEF Kill, InHand
  <2> QED  BY <2>1 DEF Kill, KeptInv
<1>2. AloneInv' /\ EmptiedInv' /\ PassedInv'  BY DEF Kill
<1> QED  BY <1>1, <1>2

LEMMA RunInvStep == IsolateShape /\ RunInv /\ [IsolateNext]_isolateVars => RunInv'
<1> SUFFICES ASSUME IsolateShape, RunInv, [IsolateNext]_isolateVars PROVE RunInv'  OBVIOUS
<1>1. CASE UNCHANGED fwVars
  BY <1>1 DEF RunInv, AloneInv, EmptiedInv, PassedInv, KeptInv, InHand, Busy, fwVars, history
<1> QED  BY <1>1, IsolationKeepsRunInv, UndoKeepsRunInv, KillKeepsRunInv DEF IsolateNext, isolateVars

\* While runs do not overlap, no deny rule is without a record, an isolation that
\* will write one, or an exception with a name: for any destinations and any
\* number of isolations and undos, killed anywhere.
THEOREM RecordIsKept == IsolateSpec => []UndoRestores
<1>1. RunInv => UndoRestores  BY DEF RunInv, KeptInv, UndoRestores
<1> QED  BY <1>1, InitRunInv, RunInvStep, IsolateShapeHolds, PTL DEF IsolateSpec

-----------------------------------------------------------------------------
(* kill-pid                                                                *)

\* What a run has read: the pid before the name, both from an act.json that was
\* there; in one piece unless it was written in between.
ReadInv ==
  /\ act # None => <<act.pid, act.exe>> \in asked
  /\ \A r \in Killer :
       /\ kpc[r] \in {"pid", "exe"} => act # None
       /\ kpc[r] \in {"exe", "check", "signal"} => kpid[r] \in Pid
       /\ kpc[r] = "exe" /\ ~mixed[r] => act.pid = kpid[r]
       /\ kpc[r] \in {"check", "signal", "exit0", "exit1"} /\ ~mixed[r] => <<kpid[r], kexe[r]>> \in asked

\* A pid that passed the check has the process that was checked or none, until
\* another one is born under it; what was signalled passed the check.
AimInv ==
  \A r \in Killer : ~fresh[r] =>
    /\ kpc[r] = "signal" /\ proc[kpid[r]] # None =>
         proc[kpid[r]].comm = kexe[r] /\ kexe[r] \notin Ours
    /\ hit[r] # None => kpc[r] = "exit0" /\ hit[r].comm = kexe[r] /\ kexe[r] \notin Ours

KillInv == KillTypeOK /\ ReadInv /\ AimInv

\* Left to itself: the bound is a number, and the rest of an action is not.
LEMMA BornBounded == 0 \in 0 .. MaxBorn /\ \A b \in 0 .. MaxBorn : b < MaxBorn => b + 1 \in 0 .. MaxBorn
BY KillAssumption

LEMMA InitKillInv == KillInit => KillInv
<1> SUFFICES ASSUME KillInit PROVE KillInv  OBVIOUS
<1> USE DEF KillInit
<1>1. KillTypeOK
  <2>1. born \in 0 .. MaxBorn  BY BornBounded
  <2>2. act \in [pid : Pid, exe : Name] \union {None} /\ asked \subseteq Pid \X Name  OBVIOUS
  <2> QED  BY <2>1, <2>2 DEF KillTypeOK
<1>2. ReadInv  BY DEF ReadInv
<1>3. AimInv  BY DEF AimInv
<1> QED  BY <1>1, <1>2, <1>3 DEF KillInv

LEMMA BirthKeepsKillInv ==
  ASSUME KillInv, NEW p \in Pid, NEW q \in Process, Birth(p, q)
  PROVE  KillInv'
<1> USE DEF KillInv, KillTypeOK, Birth
<1>1. KillTypeOK'
  <2>1. born' \in 0 .. MaxBorn  BY BornBounded
  <2>2. fresh' \in [Killer -> BOOLEAN]
    <3> DEFINE new(r) == fresh[r] \/ (kpc[r] = "signal" /\ kpid[r] = p)
    <3>1. \A r \in Killer : new(r) \in BOOLEAN  OBVIOUS
    <3>2. fresh' = [r \in Killer |-> new(r)]  OBVIOUS
    <3> HIDE DEF new
    <3> QED  BY ONLY <3>1, <3>2
  <2> QED  BY <2>1, <2>2
<1>2. ReadInv'  BY DEF ReadInv
<1>3. AimInv'  BY DEF AimInv, ReadInv
<1> QED  BY <1>1, <1>2, <1>3

LEMMA DeathKeepsKillInv ==
  ASSUME KillInv, NEW p \in Pid, Death(p)
  PROVE  KillInv'
<1> USE DEF KillInv, KillTypeOK, Death
<1>1. KillTypeOK'  OBVIOUS
<1>2. ReadInv'  BY DEF ReadInv
<1>3. AimInv'  BY DEF AimInv, ReadInv
<1> QED  BY <1>1, <1>2, <1>3

LEMMA WriteActKeepsKillInv ==
  ASSUME KillInv, NEW p \in Pid, NEW n \in Name, WriteAct(p, n)
  PROVE  KillInv'
<1>1. /\ act' = [pid |-> p, exe |-> n] /\ act' # None
      /\ asked' = asked \union {<<p, n>>}
      /\ mixed' = [r \in Killer |-> mixed[r] \/ kpc[r] = "exe"]
      /\ UNCHANGED <<proc, born, kpc, kpid, kexe, fresh, hit>>
  BY DEF WriteAct, None
<1>2. act'.pid = p /\ act'.exe = n  BY <1>1
<1> USE DEF KillInv, KillTypeOK
<1>3. KillTypeOK'
  <2>1. mixed' \in [Killer -> BOOLEAN]  BY <1>1
  <2>2. act' \in [pid : Pid, exe : Name] \union {None}  BY <1>1
  <2>3. asked' \subseteq Pid \X Name
    <3>1. asked \subseteq Pid \X Name /\ <<p, n>> \in Pid \X Name  OBVIOUS
    <3> QED  BY ONLY <1>1, <3>1
  <2> QED  BY <1>1, <2>1, <2>2, <2>3
<1>4. ReadInv'
  <2>1. <<p, n>> \in asked' /\ asked \subseteq asked'  BY <1>1
  <2>2. \A r \in Killer : mixed'[r] <=> mixed[r] \/ kpc[r] = "exe"  BY <1>1
  <2> QED  BY <1>1, <1>2, <2>1, <2>2 DEF ReadInv
<1>5. AimInv'  BY <1>1 DEF AimInv
<1> QED  BY <1>3, <1>4, <1>5

LEMMA RunKeepsKillInv ==
  ASSUME KillInv, NEW r \in Killer,
         AskGateToKill(r) \/ ReadPid(r) \/ ReadExe(r) \/ Check(r) \/ Signal(r)
  PROVE  KillInv'
<1> USE DEF KillInv, KillTypeOK, ReadInv, AimInv
<1>1. CASE AskGateToKill(r)  BY <1>1 DEF AskGateToKill
<1>2. CASE ReadPid(r)
  <2>1. act.pid \in Pid  BY <1>2 DEF ReadPid
  <2> QED  BY <1>2, <2>1 DEF ReadPid
<1>3. CASE ReadExe(r)
  <2>1. act.exe \in Name  BY <1>3 DEF ReadExe
  <2>2. act # None /\ (~mixed[r] => <<kpid[r], act.exe>> \in asked)  BY <1>3 DEF ReadExe
  <2> QED  BY <1>3, <2>1, <2>2 DEF ReadExe
<1>4. CASE Check(r)  BY <1>4 DEF Check, CheckKill
<1>5. CASE Signal(r)  BY <1>5 DEF Signal
<1> QED  BY <1>1, <1>2, <1>3, <1>4, <1>5

LEMMA KillNextKeepsKillInv == KillInv /\ KillNext => KillInv'
BY BirthKeepsKillInv, DeathKeepsKillInv, WriteActKeepsKillInv, RunKeepsKillInv DEF KillNext

LEMMA KillInvStep == KillInv /\ [Next]_vars => KillInv'
<1> SUFFICES ASSUME KillInv, [Next]_vars PROVE KillInv'  OBVIOUS
<1>1. CASE UNCHANGED killVars
  BY <1>1 DEF killVars, KillInv, KillTypeOK, ReadInv, AimInv
<1> QED  BY <1>1, KillNextKeepsKillInv DEF Next, vars

LEMMA KillInvHolds == Spec => []KillInv
<1>1. Init => KillInv  BY InitKillInv DEF Init
<1> QED  BY <1>1, KillInvStep, PTL DEF Spec

\* What kill-pid.sh signals was asked for and is none of the cockpit's own, for
\* any processes that come and go and any requests between the steps of any
\* number of runs, but for the two races the property names.
THEOREM KillsTheAsked == Spec => []KillsWhatWasAsked
<1>1. KillInv => KillsWhatWasAsked
  BY DEF KillInv, KillTypeOK, ReadInv, AimInv, KillsWhatWasAsked
<1> QED  BY <1>1, KillInvHolds, PTL

-----------------------------------------------------------------------------
(* aide-init: what its proofs rest on                                      *)

\* A replay is one from its mkdir on, and a live scan has no package evidence
\* before it has a report.
EvidenceInv ==
  \A s \in Scan :
    /\ stage[s] \in {"none", "collect"} =>
         ~replay[s] /\ ~checked[s] /\ sums[s] = {} /\ owned[s] = {} /\ steady[s] = {}
    /\ stage[s] \in {"copied", "stripped"} => replay[s]
    /\ replay[s] => steady[s] = {}

\* Every prefix of an overlay was composed by a run, with the hash it is listed
\* with or as a directory, and is not Proton's.
Backed(d) ==
  \A p \in d.prefixes :
    /\ Class[p] # "snap_proton"
    /\ \/ p \in DOMAIN d.sha /\ <<p, d.sha[p]>> \in froze
       \/ p \in Dir /\ \E v \in Version : <<p, v>> \in froze

FrozenInv == Backed(scope) /\ Backed(tmp) /\ \A r \in Freezer : Backed(doc[r])

\* AideTypeOK by owner, with the domains of what is no typed function there.
FilesOK ==
  /\ file \in [Path -> Version] /\ shipped \in [Path -> Version]
  /\ window \in [Path -> BOOLEAN] /\ edits \in Version
  /\ steady \in [Scan -> SUBSET Path]

ReportOK ==
  /\ report \in [Scan -> SUBSET Path] /\ checked \in [Scan -> BOOLEAN]
  /\ sums \in [Scan -> SUBSET Path] /\ owned \in [Scan -> SUBSET Path]
  /\ \A s \in Scan : sums[s] \subseteq report[s] /\ owned[s] \subseteq report[s]
  /\ fim \in [Scan -> [FimClass -> SUBSET Path]]

RunPoint == {"idle", "stalepaths", "gate", "hasid", "verdict", "read", "open",
             "fill", "replace", "install", "exit0", "exit1", "exit2", "killed"}

RunsOK ==
  /\ apc \in [Freezer -> RunPoint]
  /\ kind \in [Freezer -> {"plain", "force", "force-alert", "ack-stale"}]
  /\ want \in [Freezer -> SUBSET Path]
  /\ doc = [r \in Freezer |-> doc[r]] /\ \A r \in Freezer : IsScope(doc[r])
  /\ ino \in [Freezer -> {"tmp", "scope", "lost"}]
  /\ IsScope(scope) /\ IsScope(tmp)
  /\ froze \subseteq Path \X Version
  /\ clash \in BOOLEAN

AideShape == ScanTypeOK /\ FilesOK /\ ReportOK /\ EvidenceInv /\ RunsOK /\ FrozenInv

\* A path that keeps still is in the report of its scan, and the package
\* evidence of the scan, once collected, still holds of it.
SteadyInv ==
  \A s \in Scan : \A p \in steady[s] :
    /\ p \in report[s] /\ ~window[p]
    /\ checked[s] => /\ p \notin owned[s]
                     /\ p \in sums[s] <=> Class[p] = "identity" /\ file[p] = shipped[p]

\* Some finding, or some freeze of that very content or of the directory, tells of p.
Told(s, p) ==
  \/ \E c \in FimClass : p \in fim[s][c]
  \/ <<p, file[p]>> \in froze
  \/ p \in Dir /\ \E v \in Version : <<p, v>> \in froze

\* What a scan that has judged says of the paths that have kept still since.
JudgedInv ==
  \A s \in Scan :
    ~replay[s] /\ stage[s] \in {"writing", "done"} =>
      \/ "ERROR" \in found[s]
      \/ \A p \in steady[s] :
           /\ Class[p] = "identity" /\ file[p] # shipped[p] => "ALERT" \in found[s]
           /\ Told(s, p)

FimInv == SteadyInv /\ ScanInv /\ JudgedInv

\* As long as no two runs were at the overlay at once: whoever is there holds
\* all that it lists, in hand or in a tmp that is nobody else's.
KeepInv ==
  ~clash =>
    /\ \A q, r \in Freezer : Publishing(q) /\ Publishing(r) => q = r
    /\ \A r \in Freezer :
         /\ apc[r] \in {"open", "fill"} => scope.prefixes \subseteq doc[r].prefixes
         /\ apc[r] = "fill" => ino[r] = "tmp" /\ tmp = TornScope
         /\ apc[r] = "replace" /\ tmp # NoScope => scope.prefixes \subseteq tmp.prefixes

-----------------------------------------------------------------------------
(* aide-init: types                                                        *)

LEMMA ShapeIsTyped == AideShape => AideTypeOK
BY DEF AideShape, FilesOK, ReportOK, RunsOK, RunPoint, FrozenInv, Backed, AideTypeOK

LEMMA VersionBounded == 0 \in Version /\ \A v \in Version : v < MaxVersion => v + 1 \in Version
BY AideAssumption DEF Version

\* The overlay that is not there, or cannot be parsed, lists nothing.
LEMMA NothingListed ==
  /\ IsScope(NoScope) /\ Backed(NoScope) /\ IsScope(TornScope) /\ Backed(TornScope)
  /\ NoScope # TornScope
BY DEF IsScope, Backed, NoScope, TornScope

LEMMA InitAideShape == ScanInit /\ AideInitial => AideShape
<1> SUFFICES ASSUME ScanInit, AideInitial PROVE AideShape  OBVIOUS
<1>1. ScanTypeOK  BY DEF ScanInit, ScanTypeOK, Stage
<1>2. FilesOK
  <2>1. PICK U \in SUBSET {p \in Path : Class[p] = "identity" /\ MaxVersion > 0} :
          /\ file = [p \in Path |-> IF p \in U THEN 1 ELSE 0]
          /\ shipped = file
          /\ edits = IF U = {} THEN 0 ELSE 1
    BY DEF AideInitial
  <2>2. U # {} => 1 \in Version  BY AideAssumption DEF Version
  <2>3. file \in [Path -> Version]  BY <2>1, <2>2, VersionBounded
  <2>4. edits \in Version  BY <2>1, <2>2, VersionBounded
  <2>5. window \in [Path -> BOOLEAN] /\ steady \in [Scan -> SUBSET Path]  BY DEF AideInitial
  <2> QED  BY <2>1, <2>3, <2>4, <2>5 DEF FilesOK
<1>3. ReportOK
  <2>1. NoFindings \in [FimClass -> SUBSET Path]  BY DEF NoFindings
  <2> QED  BY <2>1 DEF AideInitial, ReportOK
<1>4. RunsOK /\ FrozenInv
  BY NothingListed DEF AideInitial, RunsOK, RunPoint, FrozenInv
<1>5. EvidenceInv  BY DEF ScanInit, AideInitial, EvidenceInv
<1> QED  BY <1>1, <1>2, <1>3, <1>4, <1>5 DEF AideShape

\* Wherever a run goes, what it has in hand stays or is forgotten.
LEMMA GoesKeepsRuns ==
  ASSUME RunsOK, FrozenInv, NEW r \in Freezer, NEW to \in RunPoint, Goes(r, to),
         UNCHANGED <<scope, tmp, froze, clash>>
  PROVE  RunsOK' /\ FrozenInv'
<1> USE DEF RunsOK, FrozenInv
<1>1. /\ apc' \in [Freezer -> RunPoint]
      /\ kind' \in [Freezer -> {"plain", "force", "force-alert", "ack-stale"}]
      /\ want' \in [Freezer -> SUBSET Path]
      /\ ino' \in [Freezer -> {"tmp", "scope", "lost"}]
  BY DEF Goes
<1>2. doc' = doc \/ doc' = [doc EXCEPT ![r] = NoScope]  BY DEF Goes
<1>3. doc' = [q \in Freezer |-> doc'[q]]  BY <1>2
<1>4. \A q \in Freezer : doc'[q] = doc[q] \/ doc'[q] = NoScope  BY <1>2
<1>5. \A q \in Freezer : IsScope(doc'[q]) /\ Backed(doc'[q])  BY <1>4, NothingListed
<1>6. IsScope(scope') /\ IsScope(tmp') /\ Backed(scope') /\ Backed(tmp')  OBVIOUS
<1>7. \A d : Backed(d) => Backed(d)'  BY DEF Backed
<1> QED  BY <1>1, <1>3, <1>5, <1>6, <1>7

LEMMA StartKeepsRuns ==
  ASSUME RunsOK, FrozenInv, NEW r \in Freezer, NEW given \in Asked,
         NEW k \in {"plain", "force", "force-alert", "ack-stale"}, Start(r, k, given)
  PROVE  RunsOK' /\ FrozenInv'
<1> USE DEF RunsOK, FrozenInv, Start
<1>1. given \in SUBSET Path /\ DefaultScope \in SUBSET Path
  BY AideAssumption DEF DefaultScope
<1>2. want' \in [Freezer -> SUBSET Path]  BY <1>1
<1>3. apc' \in [Freezer -> RunPoint] /\ kind' \in [Freezer -> {"plain", "force", "force-alert", "ack-stale"}]
  BY DEF RunPoint
<1>4. FrozenInv'  BY DEF Backed
<1> QED  BY <1>2, <1>3, <1>4

LEMMA StalePathsKeepsRuns ==
  ASSUME RunsOK, FrozenInv, ReportOK, NEW r \in Freezer, StalePaths(r)
  PROVE  RunsOK' /\ FrozenInv'
<1> USE DEF RunsOK, FrozenInv, StalePaths
<1>1. Readable(LatestScanDir) => fim[LatestScanDir]["stale"] \in SUBSET Path
  BY LatestIsLive DEF Readable, ReportOK, FimClass
<1>2. want' \in [Freezer -> SUBSET Path]  BY <1>1
<1>3. apc' \in [Freezer -> RunPoint]  BY DEF RunPoint
<1>4. FrozenInv'  BY DEF Backed
<1> QED  BY <1>2, <1>3, <1>4

\* A hash is taken with the list: what is frozen is what is on disk now.
LEMMA HashedIsScope ==
  ASSUME FilesOK, NEW D \in SUBSET Path
  PROVE  IsScope(Hashed(D))
BY DEF FilesOK, IsScope, Hashed

LEMMA ComposeKeepsRuns ==
  ASSUME RunsOK, FrozenInv, FilesOK, NEW r \in Freezer, Compose(r)
  PROVE  RunsOK' /\ FrozenInv'
<1> DEFINE D == {p \in scope.prefixes \union want[r] : KeepPrefix(p)}
<1>1. /\ doc' = [doc EXCEPT ![r] = Hashed(D)]
      /\ froze' = froze \union {<<p, file[p]>> : p \in D}
      /\ clash' = (clash \/ \E q \in Freezer \ {r} : Publishing(q))
      /\ apc' = [apc EXCEPT ![r] = "open"]
      /\ kind' = [kind EXCEPT ![r] = "plain"] /\ want' = [want EXCEPT ![r] = {}]
      /\ UNCHANGED <<scope, tmp, ino>>
  BY DEF Compose
<1>2. D \in SUBSET Path /\ \A p \in D : Class[p] # "snap_proton"
  BY DEF RunsOK, IsScope, KeepPrefix
<1> HIDE DEF D
<1>3. RunsOK'
  <2>1. doc' = [q \in Freezer |-> doc'[q]] /\ \A q \in Freezer : doc'[q] = IF q = r THEN Hashed(D) ELSE doc[q]
    BY <1>1 DEF RunsOK
  <2>2. \A q \in Freezer : IsScope(doc'[q])  BY <2>1, <1>2, HashedIsScope DEF RunsOK
  <2>3. froze' \subseteq Path \X Version
    <3>1. \A p \in D : <<p, file[p]>> \in Path \X Version  BY <1>2 DEF FilesOK
    <3> QED  BY <1>1, <3>1 DEF RunsOK
  <2>4. clash' \in BOOLEAN  BY <1>1
  <2>5. apc' \in [Freezer -> RunPoint]  BY <1>1 DEF RunsOK, RunPoint
  <2> QED  BY <1>1, <2>1, <2>2, <2>3, <2>4, <2>5 DEF RunsOK
<1>4. FrozenInv'
  <2> DEFINE H == Hashed(D)
             Now(d) == \A p \in d.prefixes :
                         /\ Class[p] # "snap_proton"
                         /\ \/ p \in DOMAIN d.sha /\ <<p, d.sha[p]>> \in froze'
                            \/ p \in Dir /\ \E v \in Version : <<p, v>> \in froze'
  <2>1. \A d : Backed(d) => Now(d)  BY <1>1 DEF Backed
  <2>2. Now(H)
    <3>1. H.prefixes = D /\ H.sha = [p \in D \ Dir |-> file[p]]  BY DEF Hashed
    <3>2. ASSUME NEW p \in D PROVE file[p] \in Version /\ <<p, file[p]>> \in froze'
      BY <1>1, <1>2 DEF FilesOK
    <3> HIDE DEF H
    <3> QED  BY <1>2, <3>1, <3>2
  <2>3. \A q \in Freezer : doc'[q] = IF q = r THEN H ELSE doc[q]  BY <1>1 DEF RunsOK
  <2>4. \A q \in Freezer : Now(doc'[q])  BY <2>1, <2>2, <2>3 DEF FrozenInv
  <2>5. Now(scope') /\ Now(tmp')  BY <1>1, <2>1 DEF FrozenInv
  <2> QED  BY <2>4, <2>5 DEF FrozenInv, Backed
<1> QED  BY <1>3, <1>4

LEMMA TmpKeepsRuns ==
  ASSUME RunsOK, FrozenInv, NEW r \in Freezer, OpenTmp(r) \/ FillTmp(r)
  PROVE  RunsOK' /\ FrozenInv'
<1> USE DEF RunsOK, FrozenInv
<1>0. apc' \in [Freezer -> RunPoint]  BY DEF OpenTmp, FillTmp, RunPoint
<1>1. UNCHANGED <<kind, want, froze, clash>>  BY DEF OpenTmp, FillTmp
<1>2. \A d : Backed(d) => Backed(d)'  BY <1>1 DEF Backed
<1>3. CASE OpenTmp(r)
  <2>1. tmp' = TornScope /\ doc' = doc /\ scope' = scope  BY <1>3 DEF OpenTmp
  <2>2. ino' \in [Freezer -> {"tmp", "scope", "lost"}]  BY <1>3 DEF OpenTmp
  <2> QED  BY <1>0, <1>1, <1>2, <2>1, <2>2, NothingListed
<1>4. CASE FillTmp(r)
  <2>1. doc' = [doc EXCEPT ![r] = NoScope] /\ ino' = ino  BY <1>4 DEF FillTmp
  <2>2. \A old : Written(r, old) \subseteq {doc[r], TornScope}  BY DEF Written
  <2>3. tmp' \in {tmp, doc[r], TornScope} /\ scope' \in {scope, doc[r], TornScope}
    BY <1>4, <2>2 DEF FillTmp
  <2>4. /\ IsScope(tmp') /\ IsScope(scope')
        /\ Backed(tmp') /\ Backed(scope')
    BY <2>3, NothingListed
  <2>5. doc' = [q \in Freezer |-> doc'[q]] /\ \A q \in Freezer : doc'[q] \in {doc[q], NoScope}
    BY <2>1
  <2>6. \A q \in Freezer : IsScope(doc'[q]) /\ Backed(doc'[q])  BY <2>5, NothingListed
  <2> QED  BY <1>0, <1>1, <1>2, <2>1, <2>4, <2>5, <2>6
<1> QED  BY <1>3, <1>4

LEMMA ReplaceKeepsRuns ==
  ASSUME RunsOK, FrozenInv, NEW r \in Freezer, Replace(r)
  PROVE  RunsOK' /\ FrozenInv'
<1>1. CASE tmp = NoScope
  <2>1. Goes(r, "exit1") /\ UNCHANGED <<scope, tmp, froze, clash>>  BY <1>1 DEF Replace
  <2>2. "exit1" \in RunPoint  BY DEF RunPoint
  <2> QED  BY <2>1, <2>2, GoesKeepsRuns
<1>2. CASE tmp # NoScope
  <2> USE DEF RunsOK, FrozenInv
  <2>1. apc' \in [Freezer -> RunPoint]  BY <1>2 DEF Replace, RunPoint
  <2>2. ino' \in [Freezer -> {"tmp", "scope", "lost"}]  BY <1>2 DEF Replace
  <2>3. scope' = tmp /\ tmp' = NoScope /\ UNCHANGED <<kind, want, doc, froze, clash>>
    BY <1>2 DEF Replace
  <2>4. \A d : Backed(d) => Backed(d)'  BY <2>3 DEF Backed
  <2> QED  BY <2>1, <2>2, <2>3, <2>4, NothingListed
<1> QED  BY <1>1, <1>2

\* The steps of a run that only take it to another place, away from the overlay.
Aside == RunPoint \ {"open", "fill", "replace"}
Moves(r, to) == Goes(r, to) /\ UNCHANGED <<scope, tmp, froze, clash>>

LEMMA MovingSteps ==
  ASSUME NEW r \in Freezer,
         \/ Gate(r) \/ HasId(r) \/ Declined(r) \/ PolicyVerdict(r) \/ Install(r) \/ KillFreezer(r)
  PROVE  \E to \in Aside : Moves(r, to)
<1> USE DEF Moves, Aside, RunPoint
<1>1. CASE Gate(r)  BY <1>1 DEF Gate
<1>2. CASE HasId(r)  BY <1>2 DEF HasId
<1>3. CASE Declined(r)  BY <1>3 DEF Declined
<1>4. CASE PolicyVerdict(r)  BY <1>4 DEF PolicyVerdict
<1>5. CASE Install(r)  BY <1>5 DEF Install
<1>6. CASE KillFreezer(r)  BY <1>6 DEF KillFreezer
<1> QED  BY <1>1, <1>2, <1>3, <1>4, <1>5, <1>6

\* A step of one run of aide-init.sh, by what can happen to the overlay.
FreezeAct(r) ==
  \/ \E k \in {"plain", "force", "force-alert", "ack-stale"}, P \in Asked : Start(r, k, P)
  \/ StalePaths(r) \/ Compose(r) \/ OpenTmp(r) \/ FillTmp(r) \/ Replace(r)
  \/ \E to \in Aside : Moves(r, to)

LEMMA FreezeActs == ASSUME NEW r \in Freezer, Freeze(r)
                    PROVE  FreezeAct(r) /\ UNCHANGED <<scanVars, fileVars, evidence>>
BY MovingSteps DEF Freeze, FreezeAct

LEMMA FreezeKeepsShape ==
  ASSUME AideShape, NEW r \in Freezer, Freeze(r)
  PROVE  AideShape'
<1>1. FreezeAct(r) /\ UNCHANGED <<scanVars, fileVars, evidence>>  BY FreezeActs
<1>2. RunsOK /\ FrozenInv /\ FilesOK /\ ReportOK  BY DEF AideShape
<1>3. RunsOK' /\ FrozenInv'
  BY <1>1, <1>2, StartKeepsRuns, StalePathsKeepsRuns, ComposeKeepsRuns, TmpKeepsRuns,
     ReplaceKeepsRuns, GoesKeepsRuns DEF FreezeAct, Moves, Aside
<1>4. ScanTypeOK' /\ FilesOK' /\ ReportOK' /\ EvidenceInv'
  BY <1>1 DEF AideShape, scanVars, fileVars, evidence, ScanTypeOK, FilesOK, ReportOK, EvidenceInv
<1> QED  BY <1>3, <1>4 DEF AideShape

LEMMA OutsideKeepsShape ==
  ASSUME AideShape, Outside
  PROVE  AideShape'
<1>1. UNCHANGED <<scanVars, evidence, runVars>>  BY DEF Outside
<1>2. ScanTypeOK' /\ ReportOK' /\ RunsOK'
  BY <1>1 DEF AideShape, scanVars, evidence, runVars, ScanTypeOK, ReportOK, RunsOK
<1>3. FrozenInv'  BY <1>1 DEF AideShape, FrozenInv, Backed, runVars
<1>4. \A s \in Scan : steady'[s] \subseteq steady[s] /\ steady' \in [Scan -> SUBSET Path]
  BY DEF Outside, Change, WindowCloses, AideShape, FilesOK
<1>5. EvidenceInv'
  BY <1>1, <1>4 DEF AideShape, EvidenceInv, scanVars, evidence
<1>6. FilesOK'
  <2>1. ASSUME NEW p \in Path, NEW ship \in BOOLEAN, Change(p, ship) PROVE FilesOK'
    <3>1. edits + 1 \in Version /\ edits' = edits + 1
      BY <2>1, VersionBounded DEF Change, AideShape, FilesOK
    <3>2. file' \in [Path -> Version]  BY <2>1, <3>1 DEF Change, AideShape, FilesOK
    <3>3. shipped' \in [Path -> Version]  BY <2>1, <3>1 DEF Change, AideShape, FilesOK
    <3>4. window' \in [Path -> BOOLEAN]  BY <2>1 DEF Change, AideShape, FilesOK
    <3> QED  BY <3>1, <3>2, <3>3, <3>4, <1>4, <2>1 DEF FilesOK, Change, AideShape
  <2>2. ASSUME NEW p \in Path, WindowCloses(p) PROVE FilesOK'
    BY <2>2 DEF WindowCloses, FilesOK, AideShape
  <2> QED  BY <2>1, <2>2 DEF Outside
<1> QED  BY <1>2, <1>3, <1>5, <1>6 DEF AideShape

LEMMA FindingsTyped ==
  ASSUME ReportOK, NEW s \in Scan
  PROVE  /\ FindingsFromReport(s) \in [FimClass -> SUBSET Path]
         /\ FimSeverity(FindingsFromReport(s)) \in SUBSET Severity
BY DEF ReportOK, FindingsFromReport, FimSeverity, Severity

LEMMA JudgeAllJudges ==
  ASSUME ReportOK, NEW s \in Scan, NEW O \in Others, JudgeAll(s, O)
  PROVE  \E F \in SUBSET Severity : Judge(s, F)
<1>1. O \in SUBSET Severity /\ "ERROR" \in Severity  BY AideAssumption DEF Severity
<1>2. FimSeverity(FindingsFromReport(s)) \in SUBSET Severity  BY FindingsTyped
<1>3. O \union FimSeverity(FindingsFromReport(s)) \in SUBSET Severity  BY <1>1, <1>2
<1>4. O \union {"ERROR"} \in SUBSET Severity  BY <1>1
<1> QED  BY <1>3, <1>4 DEF JudgeAll

\* What a step of a scan is to the scans and to what they collect.
LEMMA AideScanActs ==
  ASSUME ReportOK, NEW s \in Scan, AideScan(s)
  PROVE  \/ ScanAct(s)
         \/ CheckSums(s) /\ UNCHANGED scanVars
<1>1. ASSUME NEW t \in Scan, Replay(s, t) PROVE BeginReplay(s, t)  BY <1>1 DEF Replay
<1>2. Collect(s) => WriteMeta(s)  BY DEF Collect
<1>3. CheckSums(s) => UNCHANGED scanVars  BY DEF CheckSums
<1> QED  BY <1>1, <1>2, <1>3, JudgeAllJudges DEF AideScan, ScanAct

LEMMA AideScanKeepsReport ==
  ASSUME AideShape, NEW s \in Scan, AideScan(s)
  PROVE  ReportOK'
<1> USE DEF AideShape, ReportOK
<1>1. CASE UNCHANGED aideVars  BY <1>1 DEF aideVars, evidence
<1>2. ASSUME NEW t \in Scan, Replay(s, t) PROVE ReportOK'
  BY <1>2 DEF Replay
<1>3. CASE Collect(s)
  <2>1. stage[s] = "collect" \/ stage[s] = "stripped"  BY <1>3 DEF Collect, WriteMeta
  <2>2. stage[s] = "collect" => ~replay[s] /\ sums[s] = {} /\ owned[s] = {}  BY DEF EvidenceInv
  <2>3. stage[s] = "stripped" => replay[s]  BY DEF EvidenceInv
  <2>4. report' \in [Scan -> SUBSET Path]  BY <1>3 DEF Collect
  <2>5. UNCHANGED <<checked, sums, owned, fim>>  BY <1>3 DEF Collect
  <2>6. \A t \in Scan : report'[t] = report[t] \/ (t = s /\ ~replay[s])  BY <1>3 DEF Collect
  <2> QED  BY <2>1, <2>2, <2>3, <2>4, <2>5, <2>6
<1>4. CASE CheckSums(s)  BY <1>4 DEF CheckSums
<1>5. ASSUME NEW O \in Others, JudgeAll(s, O) PROVE ReportOK'
  <2>1. NoFindings \in [FimClass -> SUBSET Path]  BY DEF NoFindings
  <2>2. \E f \in [FimClass -> SUBSET Path] : fim' = [fim EXCEPT ![s] = f]
    BY <1>5, <2>1, FindingsTyped DEF JudgeAll
  <2>3. UNCHANGED <<report, checked, sums, owned>>  BY <1>5 DEF JudgeAll
  <2> QED  BY <2>2, <2>3
<1> QED  BY <1>1, <1>2, <1>3, <1>4, <1>5 DEF AideScan

LEMMA AideScanKeepsEvidence ==
  ASSUME AideShape, NEW s \in Scan, AideScan(s)
  PROVE  EvidenceInv'
<1> USE DEF AideShape, ScanTypeOK, ReportOK, FilesOK, EvidenceInv
<1>1. CASE BeginLive(s) /\ UNCHANGED aideVars
  BY <1>1 DEF aideVars, evidence, fileVars, BeginLive, IsNext
<1>2. CASE BeginRefused(s) /\ UNCHANGED aideVars
  BY <1>2 DEF aideVars, evidence, fileVars, BeginRefused
<1>3. CASE (Strip(s) \/ FillVerdict(s) \/ Cut(s)) /\ UNCHANGED aideVars
  BY <1>3 DEF aideVars, evidence, fileVars, Strip, FillVerdict, Cut
<1>4. ASSUME NEW t \in Scan, Replay(s, t) PROVE EvidenceInv'
  <2>1. steady[s] = {} /\ steady' = steady  BY <1>4 DEF Replay, BeginReplay, IsNext, fileVars
  <2> QED  BY <1>4, <2>1 DEF Replay, BeginReplay
<1>5. CASE Collect(s)
  <2>1. stage' = [stage EXCEPT ![s] = "judge"] /\ replay' = replay /\ UNCHANGED <<checked, sums, owned>>
    BY <1>5 DEF Collect, WriteMeta
  <2>2. \A t \in Scan : steady'[t] = steady[t] \/ (t = s /\ ~replay[s])  BY <1>5 DEF Collect
  <2> QED  BY <2>1, <2>2
<1>6. CASE CheckSums(s)
  BY <1>6 DEF CheckSums, scanVars, fileVars
<1>7. ASSUME NEW O \in Others, JudgeAll(s, O) PROVE EvidenceInv'
  <2>1. /\ stage' = [stage EXCEPT ![s] = "writing"] /\ replay' = replay
        /\ UNCHANGED <<steady, checked, sums, owned>>
    BY <1>7 DEF JudgeAll, Judge, fileVars
  <2> QED  BY <2>1
<1> QED  BY <1>1, <1>2, <1>3, <1>4, <1>5, <1>6, <1>7 DEF AideScan

LEMMA AideScanKeepsShape ==
  ASSUME AideShape, NEW s \in Scan, AideScan(s)
  PROVE  AideShape'
<1>1. UNCHANGED runVars
  BY DEF AideScan, aideVars, Replay, Collect, CheckSums, JudgeAll
<1>2. RunsOK' /\ FrozenInv'
  BY <1>1 DEF AideShape, RunsOK, FrozenInv, Backed, runVars
<1>3. ScanTypeOK'
  <2>1. ScanAct(s) => ScanTypeOK'  BY ScanKeepsType DEF AideShape
  <2>2. UNCHANGED scanVars => ScanTypeOK'  BY DEF AideShape, ScanTypeOK, scanVars
  <2> QED  BY <2>1, <2>2, AideScanActs DEF AideShape
<1>4. UNCHANGED <<file, shipped, window, edits>> /\ steady' \in [Scan -> SUBSET Path]
  BY DEF AideScan, aideVars, fileVars, Replay, Collect, CheckSums, JudgeAll, AideShape, FilesOK
<1>5. FilesOK'  BY <1>4 DEF AideShape, FilesOK
<1> QED  BY <1>2, <1>3, <1>5, AideScanKeepsReport, AideScanKeepsEvidence DEF AideShape

\* A step is one of a scan, of the world outside, of a run of aide-init.sh, or
\* leaves all of these alone.
LEMMA WhoSteps ==
  ASSUME scene \in Scene, [Next]_vars
  PROVE  \/ \E s \in Scan : AideScan(s)
         \/ Outside
         \/ \E r \in Freezer : Freeze(r)
         \/ UNCHANGED <<scanVars, aideVars>>
<1>1. scene[2] \in 0 .. MaxScan /\ scene[3] \subseteq Freezer  BY SceneAssumption
<1>2. (1 .. scene[2]) \subseteq Scan  BY <1>1, ScanAssumption DEF Scan
<1>3. CASE \E s \in 1 .. scene[2] : AideScan(s)  BY <1>2, <1>3
<1>4. CASE \E r \in scene[3] : Freeze(r)  BY <1>1, <1>4
<1>5. CASE UNCHANGED vars  BY <1>5 DEF vars
<1> QED  BY <1>3, <1>4, <1>5 DEF Next

SceneOK == scene \in Scene

LEMMA SceneHolds == Spec => []SceneOK
<1>1. Init => SceneOK  BY DEF Init, SceneOK
<1>2. SceneOK /\ [Next]_vars => SceneOK'  BY DEF SceneOK, Next, vars
<1> QED  BY <1>1, <1>2, PTL DEF Spec

LEMMA AideShapeStep == SceneOK /\ AideShape /\ [Next]_vars => AideShape'
<1> SUFFICES ASSUME SceneOK, AideShape, [Next]_vars PROVE AideShape'  OBVIOUS
<1>1. CASE UNCHANGED <<scanVars, aideVars>>
  BY <1>1 DEF scanVars, aideVars, fileVars, evidence, runVars, AideShape, ScanTypeOK,
              FilesOK, ReportOK, EvidenceInv, RunsOK, FrozenInv, Backed
<1> QED  BY <1>1, WhoSteps, AideScanKeepsShape, OutsideKeepsShape, FreezeKeepsShape DEF SceneOK

LEMMA AideShapeHolds == Spec => []AideShape
<1>1. Init => AideShape  BY InitAideShape DEF Init
<1> QED  BY <1>1, AideShapeStep, SceneHolds, PTL DEF Spec

\* The variables of scans, files, findings, runs of both playbooks and the
\* overlay keep their types; in particular no overlay ever lists a file of Proton.
THEOREM TypeCorrect == Spec => []TypeOK
<1>1. SceneOK /\ AideShape /\ KillInv => TypeOK
  BY ShapeIsTyped DEF SceneOK, AideShape, KillInv, TypeOK
<1> QED  BY <1>1, SceneHolds, AideShapeHolds, KillInvHolds, PTL

-----------------------------------------------------------------------------
(* aide-init: the overlay keeps its prefixes                               *)

LEMMA InitKeepInv == AideInitial => KeepInv
BY DEF AideInitial, KeepInv, Publishing

\* The step of a run that does not publish, and lets nobody in.
LEMMA AsideKeepsOverlay ==
  ASSUME KeepInv, UNCHANGED <<scope, tmp, clash>>,
         \A q \in Freezer :
           \/ ~Publishing(q)'
           \/ UNCHANGED <<apc[q], doc[q], ino[q]>>
  PROVE  KeepInv' /\ (~clash' => scope.prefixes \subseteq scope'.prefixes)
BY DEF KeepInv, Publishing

LEMMA FreezeKeepsOverlay ==
  ASSUME RunsOK, FrozenInv, KeepInv, NEW r \in Freezer, FreezeAct(r)
  PROVE  KeepInv' /\ (~clash' => scope.prefixes \subseteq scope'.prefixes)
<1> USE DEF RunsOK
<1>1. ASSUME NEW k \in {"plain", "force", "force-alert", "ack-stale"}, NEW P \in Asked, Start(r, k, P)
      PROVE  KeepInv' /\ (~clash' => scope.prefixes \subseteq scope'.prefixes)
  BY <1>1, AsideKeepsOverlay DEF Start, Publishing
<1>2. CASE StalePaths(r)  BY <1>2, AsideKeepsOverlay DEF StalePaths, Publishing
<1>3. CASE Compose(r)
  <2> SUFFICES ASSUME ~clash' PROVE KeepInv' /\ scope' = scope
    BY DEF KeepInv
  <2>1. ~clash /\ \A q \in Freezer \ {r} : ~Publishing(q)  BY <1>3 DEF Compose
  <2>2. scope.prefixes \subseteq doc'[r].prefixes
    BY <1>3 DEF Compose, Hashed, KeepPrefix, FrozenInv, Backed
  <2>3. apc' = [apc EXCEPT ![r] = "open"] /\ UNCHANGED <<scope, tmp, ino>>  BY <1>3 DEF Compose
  <2> QED  BY <2>1, <2>2, <2>3 DEF KeepInv, Publishing
<1>4. CASE OpenTmp(r)  BY <1>4 DEF OpenTmp, KeepInv, Publishing
<1>5. CASE FillTmp(r)
  <2> SUFFICES ASSUME ~clash' PROVE KeepInv' /\ scope' = scope
    BY DEF KeepInv
  <2>1. ~clash /\ apc[r] = "fill" /\ ino[r] = "tmp" /\ tmp = TornScope  BY <1>5 DEF FillTmp, KeepInv
  <2>2. tmp' = doc[r] /\ scope' = scope  BY <1>5, <2>1 DEF FillTmp, Written, TornScope
  <2>3. scope.prefixes \subseteq tmp'.prefixes  BY <2>1, <2>2 DEF KeepInv
  <2>4. apc' = [apc EXCEPT ![r] = "replace"]  BY <1>5 DEF FillTmp
  <2>5. \A q \in Freezer \ {r} : ~Publishing(q)  BY <2>1 DEF KeepInv, Publishing
  <2> QED  BY <2>1, <2>2, <2>3, <2>4, <2>5 DEF KeepInv, Publishing
<1>6. CASE Replace(r)
  <2>1. CASE tmp = NoScope
    BY <1>6, <2>1, AsideKeepsOverlay DEF Replace, Goes, Publishing
  <2>2. CASE tmp # NoScope
    <3> SUFFICES ASSUME ~clash' PROVE KeepInv' /\ scope.prefixes \subseteq scope'.prefixes
      BY DEF KeepInv
    <3>1. ~clash /\ apc[r] = "replace" /\ scope' = tmp  BY <1>6, <2>2 DEF Replace
    <3>2. \A q \in Freezer \ {r} : ~Publishing(q)  BY <3>1 DEF KeepInv, Publishing
    <3>3. apc' = [apc EXCEPT ![r] = "install"]  BY <1>6, <2>2 DEF Replace
    <3> QED  BY <2>2, <3>1, <3>2, <3>3 DEF KeepInv, Publishing
  <2> QED  BY <2>1, <2>2
<1>7. ASSUME NEW to \in Aside, Moves(r, to)
      PROVE  KeepInv' /\ (~clash' => scope.prefixes \subseteq scope'.prefixes)
  BY <1>7, AsideKeepsOverlay DEF Moves, Goes, Publishing, Aside
<1> QED  BY <1>1, <1>2, <1>3, <1>4, <1>5, <1>6, <1>7 DEF FreezeAct

LEMMA KeepInvStep ==
  ASSUME SceneOK, AideShape, KeepInv, [Next]_vars
  PROVE  KeepInv' /\ (~clash' => scope.prefixes \subseteq scope'.prefixes)
<1>1. CASE UNCHANGED runVars
  BY <1>1 DEF runVars, KeepInv, Publishing
<1>2. ASSUME NEW s \in Scan, AideScan(s) PROVE UNCHANGED runVars
  BY <1>2 DEF AideScan, aideVars, Replay, Collect, CheckSums, JudgeAll
<1>3. Outside => UNCHANGED runVars  BY DEF Outside
<1>4. UNCHANGED <<scanVars, aideVars>> => UNCHANGED runVars  BY DEF aideVars
<1>5. ASSUME NEW r \in Freezer, Freeze(r)
      PROVE  KeepInv' /\ (~clash' => scope.prefixes \subseteq scope'.prefixes)
  BY <1>5, FreezeActs, FreezeKeepsOverlay DEF AideShape
<1> QED  BY <1>1, <1>2, <1>3, <1>4, <1>5, WhoSteps DEF SceneOK

LEMMA KeepInvHolds == Spec => []KeepInv
<1>1. Init => KeepInv  BY InitKeepInv DEF Init
<1>2. SceneOK /\ AideShape /\ KeepInv /\ [Next]_vars => KeepInv'  BY KeepInvStep
<1> QED  BY <1>1, <1>2, SceneHolds, AideShapeHolds, PTL DEF Spec

\* The overlay loses no prefix while no two runs of aide-init.sh are between
\* reading it and replacing it, however many runs there are, what they freeze,
\* and wherever each is killed: the union of old and new prefixes reaches the file.
THEOREM NoPrefixLost == Spec => PrefixesKept
<1>1. SceneOK /\ AideShape /\ KeepInv /\ [Next]_vars =>
        [~clash' => scope.prefixes \subseteq scope'.prefixes]_<<scanVars, aideVars>>
  BY KeepInvStep
<1> QED  BY <1>1, SceneHolds, AideShapeHolds, KeepInvHolds, PTL DEF Spec, PrefixesKept

-----------------------------------------------------------------------------
(* aide-init: what a scan finds in spite of the overlay                    *)

LEMMA InitFimInv == ScanInit /\ AideInitial => FimInv
BY DEF ScanInit, AideInitial, FimInv, SteadyInv, ScanInv, JudgedInv, Verdict

\* What is found of the paths that keep still, when the modules end.
LEMMA JudgingTells ==
  ASSUME AideShape, SteadyInv, NEW s \in Scan, checked[s], ~replay[s], NEW p \in steady[s]
  PROVE  /\ Class[p] = "identity" /\ file[p] # shipped[p] =>
              "ALERT" \in FimSeverity(FindingsFromReport(s))
         /\ \/ \E c \in FimClass : p \in FindingsFromReport(s)[c]
            \/ <<p, file[p]>> \in froze
            \/ p \in Dir /\ \E v \in Version : <<p, v>> \in froze
<1>1. p \in Path /\ p \in report[s] /\ p \notin owned[s]
      /\ (p \in sums[s] <=> Class[p] = "identity" /\ file[p] = shipped[p])
  BY DEF AideShape, FilesOK, SteadyInv
<1>2. Class[p] \in {"identity", "self_sudoers", "self_helper", "snap_proton", "other"}
  BY <1>1, AideAssumption
<1>3. ClassOf(s, p) \in FimClass  BY <1>2 DEF ClassOf, FimClass
<1>4. ~Skipped(s, p) => p \in FindingsFromReport(s)[ClassOf(s, p)]
  BY <1>1, <1>3 DEF FindingsFromReport
<1>5. ASSUME Class[p] = "identity", file[p] # shipped[p]
      PROVE  "ALERT" \in FimSeverity(FindingsFromReport(s))
  <2>1. ClassOf(s, p) = "identity"  BY <1>1, <1>5 DEF ClassOf
  <2>2. ~Skipped(s, p)  BY <2>1 DEF Skipped
  <2>3. FindingsFromReport(s)["identity"] # {}  BY <1>4, <2>1, <2>2
  <2> QED  BY <2>3 DEF FimSeverity
<1>6. ASSUME Skipped(s, p)
      PROVE  <<p, file[p]>> \in froze \/ (p \in Dir /\ \E v \in Version : <<p, v>> \in froze)
  <2>1. p \in scope.prefixes /\ (p \in DOMAIN scope.sha => file[p] = scope.sha[p])
    BY <1>6 DEF Skipped, IsFrozen
  <2> QED  BY <2>1 DEF AideShape, FrozenInv, Backed
<1> QED  BY <1>3, <1>4, <1>5, <1>6

LEMMA OutsideKeepsFim ==
  ASSUME AideShape, FimInv, Outside
  PROVE  FimInv'
<1>1. UNCHANGED <<scanVars, evidence, froze>>  BY DEF Outside, runVars
<1>2. ASSUME NEW s \in Scan, NEW p \in steady'[s]
      PROVE  /\ p \in steady[s] /\ p \in Path
             /\ file'[p] = file[p] /\ shipped'[p] = shipped[p] /\ (~window[p] => ~window'[p])
  BY <1>2 DEF Outside, Change, WindowCloses, AideShape, FilesOK
<1>3. SteadyInv'  BY <1>1, <1>2 DEF FimInv, SteadyInv, evidence
<1>4. ScanInv'  BY <1>1 DEF FimInv, ScanInv, scanVars
<1>5. JudgedInv'
  BY <1>1, <1>2 DEF FimInv, JudgedInv, Told, scanVars, evidence
<1> QED  BY <1>3, <1>4, <1>5 DEF FimInv

LEMMA FreezeKeepsFim ==
  ASSUME AideShape, FimInv, NEW r \in Freezer, Freeze(r)
  PROVE  FimInv'
<1>1. FreezeAct(r) /\ UNCHANGED <<scanVars, fileVars, evidence>>  BY FreezeActs
<1>2. froze \subseteq froze'
  BY <1>1 DEF FreezeAct, Start, StalePaths, Compose, OpenTmp, FillTmp, Replace, Moves
<1>3. SteadyInv'  BY <1>1 DEF FimInv, SteadyInv, fileVars, evidence
<1>4. ScanInv'  BY <1>1 DEF FimInv, ScanInv, scanVars
<1>5. JudgedInv'
  <2>1. \A s \in Scan : \A p \in steady[s] : Told(s, p) => Told(s, p)'
    BY <1>1, <1>2 DEF Told, fileVars, evidence
  <2> QED  BY <1>1, <2>1 DEF FimInv, JudgedInv, scanVars, fileVars
<1> QED  BY <1>3, <1>4, <1>5 DEF FimInv

LEMMA AideScanKeepsSteady ==
  ASSUME AideShape, SteadyInv, NEW s \in Scan, AideScan(s)
  PROVE  SteadyInv'
<1> USE DEF AideShape, FilesOK, ReportOK, SteadyInv
<1>1. CASE UNCHANGED aideVars  BY <1>1 DEF aideVars, fileVars, evidence
<1>2. ASSUME NEW t \in Scan, Replay(s, t) PROVE SteadyInv'
  <2>1. steady[s] = {} /\ UNCHANGED fileVars  BY <1>2 DEF Replay, BeginReplay, IsNext, EvidenceInv
  <2> QED  BY <1>2, <2>1 DEF Replay, fileVars
<1>3. CASE Collect(s)
  <2>1. UNCHANGED <<file, shipped, window, checked, sums, owned>>  BY <1>3 DEF Collect
  <2>2. CASE replay[s]
    <3>1. UNCHANGED <<report, steady>>  BY <1>3, <2>2 DEF Collect
    <3> QED  BY <2>1, <3>1
  <2>3. CASE ~replay[s]
    <3>1. ~checked[s]  BY <1>3, <2>3 DEF Collect, WriteMeta, EvidenceInv
    <3>2. /\ report' = [report EXCEPT ![s] = {p \in Path : file[p] # 0}]
          /\ steady' = [steady EXCEPT ![s] = {p \in Path : file[p] # 0 /\ ~window[p]}]
      BY <1>3, <2>3 DEF Collect
    <3>3. \A p \in steady'[s] : p \in report'[s] /\ ~window[p]  BY <3>2
    <3>4. \A t \in Scan \ {s} : report'[t] = report[t] /\ steady'[t] = steady[t]  BY <3>2
    <3> QED  BY <2>1, <3>1, <3>3, <3>4
  <2> QED  BY <2>2, <2>3
<1>4. CASE CheckSums(s)  BY <1>4 DEF CheckSums, fileVars
<1>5. ASSUME NEW O \in Others, JudgeAll(s, O) PROVE SteadyInv'
  BY <1>5 DEF JudgeAll, fileVars
<1> QED  BY <1>1, <1>2, <1>3, <1>4, <1>5 DEF AideScan

LEMMA AideScanKeepsJudged ==
  ASSUME AideShape, SteadyInv, JudgedInv, NEW s \in Scan, AideScan(s)
  PROVE  JudgedInv'
<1> USE DEF AideShape, ScanTypeOK, JudgedInv
<1>1. CASE BeginLive(s) /\ UNCHANGED aideVars
  BY <1>1 DEF BeginLive, Told, aideVars, fileVars, evidence, runVars
<1>2. CASE BeginRefused(s) /\ UNCHANGED aideVars
  BY <1>2 DEF BeginRefused, Told, aideVars, fileVars, evidence, runVars
<1>3. CASE Strip(s) /\ UNCHANGED aideVars
  BY <1>3 DEF Strip, Told, aideVars, fileVars, evidence, runVars
<1>4. CASE FillVerdict(s) /\ UNCHANGED aideVars
  BY <1>4 DEF FillVerdict, Told, aideVars, fileVars, evidence, runVars
<1>5. CASE Cut(s) /\ UNCHANGED aideVars
  BY <1>5 DEF Cut, Told, aideVars, fileVars, evidence, runVars
<1>6. ASSUME NEW t \in Scan, Replay(s, t) PROVE JudgedInv'
  <2>1. /\ replay'[s] /\ \A z \in Scan \ {s} : replay'[z] = replay[z] /\ stage'[z] = stage[z]
        /\ \A z \in Scan \ {s} : fim'[z] = fim[z]
        /\ UNCHANGED <<found, fileVars, runVars>>
    BY <1>6 DEF Replay, BeginReplay, ReportOK
  <2> QED  BY <2>1 DEF Told, fileVars, runVars
<1>7. CASE Collect(s)
  <2>1. /\ stage'[s] = "judge" /\ \A z \in Scan \ {s} : stage'[z] = stage[z]
        /\ \A z \in Scan \ {s} : steady'[z] = steady[z]
        /\ UNCHANGED <<replay, found, file, shipped, fim, runVars>>
    BY <1>7 DEF Collect, WriteMeta, FilesOK
  <2> QED  BY <2>1 DEF Told, runVars
<1>8. CASE CheckSums(s)
  BY <1>8 DEF CheckSums, Told, scanVars, fileVars, runVars
<1>9. ASSUME NEW O \in Others, JudgeAll(s, O) PROVE JudgedInv'
  <2>1. UNCHANGED <<fileVars, runVars, replay>>  BY <1>9 DEF JudgeAll, Judge
  <2>2. \A z \in Scan \ {s} : stage'[z] = stage[z] /\ found'[z] = found[z] /\ fim'[z] = fim[z]
    BY <1>9 DEF JudgeAll, Judge, ReportOK
  <2>3. ASSUME ~replay[s], "ERROR" \notin found'[s]
        PROVE  \A p \in steady[s] :
                 /\ Class[p] = "identity" /\ file[p] # shipped[p] => "ALERT" \in found'[s]
                 /\ Told(s, p)'
    <3>1. /\ checked[s]
          /\ found'[s] = O \union FimSeverity(FindingsFromReport(s))
          /\ fim'[s] = FindingsFromReport(s)
      BY <1>9, <2>3 DEF JudgeAll, Judge, ReportOK
    <3> QED  BY <2>1, <2>3, <3>1, JudgingTells DEF Told, fileVars, runVars
  <2> QED  BY <2>1, <2>2, <2>3 DEF Told, fileVars, runVars
<1> QED  BY <1>1, <1>2, <1>3, <1>4, <1>5, <1>6, <1>7, <1>8, <1>9 DEF AideScan

LEMMA FimInvStep ==
  ASSUME SceneOK, AideShape, FimInv, [Next]_vars
  PROVE  FimInv'
<1>1. ASSUME NEW s \in Scan, AideScan(s) PROVE FimInv'
  <2>1. ScanInv'
    <3>1. ScanAct(s) \/ UNCHANGED scanVars  BY <1>1, AideScanActs DEF AideShape
    <3>2. UNCHANGED scanVars => ScanInv'  BY DEF FimInv, ScanInv, scanVars
    <3> QED  BY <3>1, <3>2, ScanKeepsInv DEF FimInv, AideShape
  <2> QED  BY <1>1, <2>1, AideScanKeepsSteady, AideScanKeepsJudged DEF FimInv
<1>2. CASE UNCHANGED <<scanVars, aideVars>>
  BY <1>2 DEF scanVars, aideVars, fileVars, evidence, runVars, FimInv, SteadyInv, ScanInv,
              JudgedInv, Told
<1> QED  BY <1>1, <1>2, WhoSteps, OutsideKeepsFim, FreezeKeepsFim DEF SceneOK

LEMMA FimInvHolds == Spec => []FimInv
<1>1. Init => FimInv  BY InitFimInv DEF Init
<1>2. SceneOK /\ AideShape /\ FimInv /\ [Next]_vars => FimInv'  BY FimInvStep
<1> QED  BY <1>1, <1>2, SceneHolds, AideShapeHolds, PTL DEF Spec

\* A change of an identity file that its package did not make is an ALERT of
\* every scan it keeps still through, whatever was frozen by any runs at any
\* time and whatever overlay, old, new or torn, the scan came to read.
THEOREM TamperIsSeen == Spec => []TamperAlerts
<1>1. AideShape /\ FimInv => TamperAlerts
  <2> SUFFICES ASSUME AideShape, FimInv, NEW s \in Scan, stage[s] = "done", ~replay[s],
                      NEW p \in steady[s], Class[p] = "identity", file[p] # shipped[p]
               PROVE  verdict[s] \in {"ALERT", "ERROR"}
    BY DEF TamperAlerts
  <2>1. "ERROR" \in found[s] \/ "ALERT" \in found[s]  BY DEF FimInv, JudgedInv
  <2>2. verdict[s] = ComputeVerdict(found[s])  BY DEF FimInv, ScanInv
  <2> QED  BY <2>1, <2>2, Worst
<1> QED  BY <1>1, AideShapeHolds, FimInvHolds, PTL

\* No change that keeps still through a scan goes without a finding unless a run
\* froze the path with the content it has, or the directory it is in.
THEOREM ChangeIsTold == Spec => []ChangeSurfaces
<1>1. AideShape /\ FimInv => ChangeSurfaces
  <2> SUFFICES ASSUME AideShape, FimInv, NEW s \in Scan, stage[s] = "done", ~replay[s],
                      verdict[s] # "ERROR", NEW p \in steady[s]
               PROVE  Told(s, p)
    BY DEF ChangeSurfaces, Told
  <2>1. verdict[s] = ComputeVerdict(found[s])  BY DEF FimInv, ScanInv
  <2>2. "ERROR" \notin found[s]  BY <2>1, Worst
  <2> QED  BY <2>2 DEF FimInv, JudgedInv
<1> QED  BY <1>1, AideShapeHolds, FimInvHolds, PTL

-----------------------------------------------------------------------------
(* aide-init: the gate                                                     *)

\* Only Gate takes a run from the gate to what follows.
LEMMA PassingIsGating ==
  ASSUME SceneOK, RunsOK, [Next]_vars, NEW r \in Freezer,
         apc[r] = "gate", apc'[r] \in {"hasid", "verdict"}
  PROVE  Gate(r)
<1> USE DEF RunsOK
<1>1. CASE UNCHANGED runVars  BY <1>1 DEF runVars
<1>2. ASSUME NEW s \in Scan, AideScan(s) PROVE UNCHANGED runVars
  BY <1>2 DEF AideScan, aideVars, Replay, Collect, CheckSums, JudgeAll
<1>3. Outside => UNCHANGED runVars  BY DEF Outside
<1>4. UNCHANGED <<scanVars, aideVars>> => UNCHANGED runVars  BY DEF aideVars
<1>5. ASSUME NEW q \in Freezer, Freeze(q) PROVE Gate(r)
  <2>1. ASSUME q # r PROVE apc'[r] = apc[r]
    BY <1>5, <2>1 DEF Freeze, Start, StalePaths, Gate, HasId, Declined, PolicyVerdict, Compose,
         OpenTmp, FillTmp, Replace, Install, KillFreezer, Goes
  <2>2. q = r  BY <2>1
  <2> QED
    BY <1>5, <2>2 DEF Freeze, Start, StalePaths, Gate, HasId, Declined, PolicyVerdict, Compose,
         OpenTmp, FillTmp, Replace, Install, KillFreezer, Goes
<1> QED  BY <1>1, <1>2, <1>3, <1>4, <1>5, WhoSteps DEF SceneOK

LEMMA OwnIsEnded == Own = EndedScans
BY DEF Own, EndedScans

LEMMA GatePasses ==
  ASSUME ScanTypeOK, RunsOK, ScanInv, NEW r \in Freezer, Gate(r), apc'[r] \in {"hasid", "verdict"}
  PROVE  \/ kind[r] = "force-alert"
         \/ CopiedVerdict
         \/ /\ kind[r] \in {"plain", "force"} /\ EndedScans # {}
            /\ found[Newest(EndedScans)] \intersect {"ALERT", "ERROR"} = {}
         \/ /\ kind[r] = "ack-stale"
            /\ \/ EndedScans = {} \/ \E s \in Scan : verdict[s] = "empty"
               \/ fim[Newest(EndedScans)]["identity"] = {}
<1> SUFFICES ASSUME kind[r] # "force-alert", ~CopiedVerdict
             PROVE  \/ /\ kind[r] \in {"plain", "force"} /\ EndedScans # {}
                       /\ found[Newest(EndedScans)] \intersect {"ALERT", "ERROR"} = {}
                    \/ /\ kind[r] = "ack-stale"
                       /\ \/ EndedScans = {} \/ \E s \in Scan : verdict[s] = "empty"
                          \/ fim[Newest(EndedScans)]["identity"] = {}
  OBVIOUS
<1> DEFINE s == LatestScanDir
<1>1. s # 0 => s \in Scan /\ counted[s] /\ verdict[s] # "none" /\ ~replay[s]
  BY LatestIsLive DEF CopiedVerdict
<1>2. s # 0 /\ verdict[s] \in Verdict =>
        s \in EndedScans /\ s = Newest(EndedScans) /\ verdict[s] = ComputeVerdict(found[s])
  BY <1>1, LatestIsOwn, OwnIsEnded
<1>3. CASE kind[r] = "ack-stale"
  <2>1. ~LatestIdentityAlert
    <3>1. apc'[r] = IF LatestIdentityAlert THEN "exit2" ELSE "verdict"  BY <1>3 DEF Gate, Goes, RunsOK
    <3> QED  BY <3>1
  <2>2. CASE s = 0
    <3>1. {t \in Scan : counted[t] /\ verdict[t] # "none"} = {}
      <4> DEFINE S == {t \in Scan : counted[t] /\ verdict[t] # "none"}
      <4>1. ASSUME S # {} PROVE FALSE
        <5>1. Newest(S) \in S  BY <4>1, NewestIsGreatest
        <5>2. 0 \notin Scan  BY ScanAssumption DEF Scan
        <5> QED  BY <2>2, <5>1, <5>2 DEF LatestScanDir
      <4> QED  BY <4>1
    <3>2. \A t \in EndedScans : verdict[t] # "none"
      BY VerdictIsOne DEF EndedScans, ScanInv, Verdict
    <3> QED  BY <1>3, <3>1, <3>2 DEF EndedScans
  <2>3. CASE s # 0 /\ verdict[s] \in Verdict
    <3>1. fim[s]["identity"] = {}  BY <2>1, <2>3 DEF LatestIdentityAlert, Readable
    <3> QED  BY <1>2, <1>3, <2>3, <3>1
  <2>4. CASE s # 0 /\ verdict[s] \notin Verdict
    <3>1. verdict[s] = "empty"  BY <1>1, <2>4 DEF ScanTypeOK
    <3> QED  BY <1>1, <1>3, <2>4, <3>1
  <2> QED  BY <2>2, <2>3, <2>4
<1>4. CASE kind[r] \in {"plain", "force"}
  <2>1. RequireNotAlert
    <3>1. apc'[r] = IF RequireNotAlert THEN "hasid" ELSE "exit2"  BY <1>4 DEF Gate, Goes, RunsOK
    <3> QED  BY <3>1
  <2>2. s # 0 /\ verdict[s] \in {"CLEAN", "WARN"}  BY <2>1 DEF RequireNotAlert
  <2>3. s \in EndedScans /\ s = Newest(EndedScans) /\ verdict[s] = ComputeVerdict(found[s])
    BY <1>2, <2>2 DEF Verdict
  <2> HIDE DEF s
  <2>4. found[s] \intersect {"ALERT", "ERROR"} = {}  BY <2>2, <2>3, Worst
  <2> QED  BY <1>4, <2>3, <2>4
<1> QED  BY <1>3, <1>4 DEF RunsOK

\* A run of aide-init.sh leaves the gate only on a newest live scan without
\* ALERT or crash, with --ack-stale on one without identity ALERT, for any
\* number of scans and replays under way, but for the named exceptions.
THEOREM FreezeIsGated == Spec => FreezeGate
<1>1. SceneOK /\ AideShape /\ FimInv /\ [Next]_vars =>
        [\A r \in Freezer :
           (apc[r] = "gate" /\ apc'[r] \in {"hasid", "verdict"}) =>
             \/ kind[r] = "force-alert"
             \/ CopiedVerdict
             \/ /\ kind[r] \in {"plain", "force"} /\ EndedScans # {}
                /\ found[Newest(EndedScans)] \intersect {"ALERT", "ERROR"} = {}
             \/ /\ kind[r] = "ack-stale"
                /\ \/ EndedScans = {} \/ \E s \in Scan : verdict[s] = "empty"
                   \/ fim[Newest(EndedScans)]["identity"] = {}]_<<scanVars, aideVars>>
  BY PassingIsGating, GatePasses DEF AideShape, FimInv
<1> QED  BY <1>1, SceneHolds, AideShapeHolds, FimInvHolds, PTL DEF Spec, FreezeGate

=============================================================================
