-------------------------- MODULE Snapshots_proofs --------------------------
(***************************************************************************)
(* What a scan does to its directory, and what the gate and everyone else  *)
(* who looks up the latest one can count on, for any number of scans.      *)
(***************************************************************************)
EXTENDS Snapshots, WellFoundedInduction, TLAPS

\* Scans are ordered like naturals below a bound, so a nonempty set of them has
\* a greatest one: the least distance to MaxScan.
LEMMA NewestIsGreatest ==
  ASSUME NEW S, S \subseteq Scan, S # {}
  PROVE  Newest(S) \in S /\ \A t \in S : t <= Newest(S)
<1> DEFINE T == {MaxScan - s : s \in S}
           Less == {ss \in Nat \X Nat : ss[1] < ss[2]}
<1>1. T \subseteq Nat /\ T # {}
  <2>1. \A s \in Scan : MaxScan - s \in Nat  BY ScanAssumption DEF Scan
  <2> QED  BY <2>1
<1>5. IsWellFoundedOn(Less, Nat)  BY NatLessThanWellFounded DEF OpToRel
<1>6. \A x, y \in Nat : x < y => <<x, y>> \in Less  OBVIOUS
<1> HIDE DEF Less
<1>2. PICK x \in T : \A y \in T : <<y, x>> \notin Less
  BY <1>1, <1>5, WFMin
<1>3. PICK s \in S : x = MaxScan - s  OBVIOUS
<1>4. ASSUME NEW t \in S PROVE t <= s
  <2> DEFINE y == MaxScan - t
  <2>1. y \in T /\ y \in Nat /\ x \in Nat  BY <1>1
  <2>2. ~(y < x)  BY <2>1, <1>2, <1>6
  <2>3. MaxScan \in Nat /\ s \in Nat /\ t \in Nat  BY ScanAssumption DEF Scan
  <2> QED  BY <2>2, <2>3, <1>3
<1> QED  BY <1>4 DEF Newest

LEMMA LatestIsLive ==
  ASSUME LatestScanDir # 0
  PROVE  /\ LatestScanDir \in Scan
         /\ counted[LatestScanDir] /\ verdict[LatestScanDir] # "none"
         /\ \A s \in Scan : counted[s] /\ verdict[s] # "none" => s <= LatestScanDir
<1> DEFINE S == {s \in Scan : counted[s] /\ verdict[s] # "none"}
<1>1. S \subseteq Scan /\ S # {}  BY DEF LatestScanDir, Newest
<1>2. LatestScanDir = Newest(S)  BY DEF LatestScanDir
<1> QED  BY <1>1, <1>2, NewestIsGreatest

-----------------------------------------------------------------------------
(* The steps of a scan, whatever its modules find                          *)

ScanAct(s) ==
  \/ BeginLive(s) \/ BeginRefused(s) \/ Strip(s) \/ WriteMeta(s)
  \/ \E t \in Scan : BeginReplay(s, t)
  \/ \E F \in SUBSET Severity : Judge(s, F)
  \/ FillVerdict(s) \/ Cut(s)

LEMMA VerdictIsOne == \A F : ComputeVerdict(F) \in Verdict
BY DEF ComputeVerdict, Verdict

LEMMA Worst ==
  /\ ComputeVerdict({"ERROR"}) = "ERROR"
  /\ \A F : ComputeVerdict(F) \in {"CLEAN", "WARN"} => F \intersect {"ALERT", "ERROR"} = {}
  /\ \A F : "ERROR" \in F => ComputeVerdict(F) = "ERROR"
  /\ \A F : "ALERT" \in F => ComputeVerdict(F) \in {"ALERT", "ERROR"}
BY DEF ComputeVerdict

LEMMA ScanKeepsType ==
  ASSUME ScanTypeOK, NEW s \in Scan, ScanAct(s)
  PROVE  ScanTypeOK'
<1> USE DEF ScanTypeOK
<1>2. {"collect", "copied", "stripped", "judge", "writing", "done", "cut"} \subseteq Stage
  BY DEF Stage
<1>3. CASE BeginLive(s)  BY <1>2, <1>3 DEF BeginLive
<1>4. CASE BeginRefused(s)
  <2>1. "ERROR" \in Verdict /\ {"ERROR"} \in SUBSET Severity  BY DEF Verdict, Severity
  <2> QED  BY <1>2, <1>4, <2>1 DEF BeginRefused
<1>5. CASE Strip(s)  BY <1>2, <1>5 DEF Strip
<1>6. CASE WriteMeta(s)
  <2>1. (~replay[s]) \in BOOLEAN  OBVIOUS
  <2>2. counted' \in [Scan -> BOOLEAN]  BY <1>6, <2>1 DEF WriteMeta
  <2>3. stage' \in [Scan -> Stage]  BY <1>2, <1>6 DEF WriteMeta
  <2>4. dsts' \in [Scan -> SUBSET Dst]  BY <1>6 DEF WriteMeta
  <2> QED  BY <1>6, <2>2, <2>3, <2>4 DEF WriteMeta
<1>7. ASSUME NEW t \in Scan, BeginReplay(s, t) PROVE ScanTypeOK'
  <2>1. counted' \in [Scan -> BOOLEAN]
    <3>1. counted[t] \in BOOLEAN  OBVIOUS
    <3> QED  BY <1>7, <3>1 DEF BeginReplay
  <2>2. replay' \in [Scan -> BOOLEAN]  BY <1>7 DEF BeginReplay
  <2>3. stage' \in [Scan -> Stage]  BY <1>2, <1>7 DEF BeginReplay
  <2>4. verdict' \in [Scan -> Verdict \union {"none", "empty"}]  BY <1>7 DEF BeginReplay
  <2>5. dsts' \in [Scan -> SUBSET Dst]  BY <1>7 DEF BeginReplay
  <2> QED  BY <1>7, <2>1, <2>2, <2>3, <2>4, <2>5 DEF BeginReplay
<1>8. ASSUME NEW F \in SUBSET Severity, Judge(s, F) PROVE ScanTypeOK'
  BY <1>2, <1>8 DEF Judge
<1>9. CASE FillVerdict(s)  BY <1>2, <1>9, VerdictIsOne DEF FillVerdict
<1>10. CASE Cut(s)  BY <1>2, <1>10 DEF Cut
<1> QED  BY <1>3, <1>4, <1>5, <1>6, <1>7, <1>8, <1>9, <1>10 DEF ScanAct

\* A scan that is no copy has its verdict on file exactly when it is done.
ScanInv ==
  \A s \in Scan : ~replay[s] =>
    /\ verdict[s] \in Verdict => stage[s] = "done"
    /\ stage[s] = "done" => verdict[s] = ComputeVerdict(found[s])

LEMMA ScanKeepsInv ==
  ASSUME ScanTypeOK, ScanInv, NEW z \in Scan, ScanAct(z)
  PROVE  ScanInv'
<1> USE DEF ScanTypeOK, ScanInv
<1> SUFFICES ASSUME NEW s \in Scan, ~replay'[s]
             PROVE  /\ verdict'[s] \in Verdict => stage'[s] = "done"
                    /\ stage'[s] = "done" => verdict'[s] = ComputeVerdict(found'[s])
  OBVIOUS
<1>2. "none" \notin Verdict /\ "empty" \notin Verdict /\ "done" \notin Active
  BY DEF Verdict, Active
<1>3. CASE BeginLive(z)  BY <1>2, <1>3 DEF BeginLive, IsNext
<1>4. CASE BeginRefused(z)  BY <1>4, Worst DEF BeginRefused
<1>5. CASE Strip(z)  BY <1>2, <1>5 DEF Strip
<1>6. CASE WriteMeta(z)  BY <1>6 DEF WriteMeta
<1>7. ASSUME NEW t \in Scan, BeginReplay(z, t)
      PROVE  /\ verdict'[s] \in Verdict => stage'[s] = "done"
             /\ stage'[s] = "done" => verdict'[s] = ComputeVerdict(found'[s])
  <2>1. s # z  BY <1>7 DEF BeginReplay
  <2> QED  BY <1>7, <2>1 DEF BeginReplay
<1>8. ASSUME NEW F \in SUBSET Severity, Judge(z, F)
      PROVE  /\ verdict'[s] \in Verdict => stage'[s] = "done"
             /\ stage'[s] = "done" => verdict'[s] = ComputeVerdict(found'[s])
  BY <1>2, <1>8 DEF Judge
<1>9. CASE FillVerdict(z)  BY <1>9 DEF FillVerdict
<1>10. CASE Cut(z)  BY <1>2, <1>10 DEF Cut
<1> QED  BY <1>3, <1>4, <1>5, <1>6, <1>7, <1>8, <1>9, <1>10 DEF ScanAct

\* The live scans that came to a verdict of their own.
Own == {s \in Scan : counted[s] /\ ~replay[s] /\ stage[s] = "done"}

\* A latest directory that can be read and is no copy is that of the newest of them.
LEMMA LatestIsOwn ==
  ASSUME ScanInv, LatestScanDir # 0, ~replay[LatestScanDir], verdict[LatestScanDir] \in Verdict
  PROVE  /\ LatestScanDir \in Own /\ LatestScanDir = Newest(Own)
         /\ verdict[LatestScanDir] = ComputeVerdict(found[LatestScanDir])
<1> DEFINE s == LatestScanDir
<1>1. s \in Scan /\ counted[s] /\ verdict[s] # "none"  BY LatestIsLive
<1>2. \A t \in Scan : counted[t] /\ verdict[t] # "none" => t <= s  BY LatestIsLive
<1> HIDE DEF s
<1>3. stage[s] = "done" /\ verdict[s] = ComputeVerdict(found[s])  BY <1>1 DEF ScanInv, s
<1>4. s \in Own /\ Own \subseteq Scan  BY <1>1, <1>3 DEF Own, s
<1>5. \A t \in Own : t <= s
  <2> TAKE t \in Own
  <2>1. t \in Scan /\ counted[t] /\ ~replay[t] /\ stage[t] = "done"  BY DEF Own
  <2>2. verdict[t] \in Verdict  BY <2>1, VerdictIsOne DEF ScanInv
  <2> QED  BY <1>2, <2>1, <2>2 DEF Verdict
<1>6. Newest(Own) \in Own /\ s <= Newest(Own)  BY <1>4, NewestIsGreatest
<1>7. Newest(Own) = s
  <2>1. Scan \subseteq Nat  BY ScanAssumption DEF Scan
  <2>2. Newest(Own) \in Nat /\ s \in Nat  BY <1>4, <1>6, <2>1
  <2>3. Newest(Own) <= s  BY <1>5, <1>6
  <2> QED  BY <1>6, <2>2, <2>3
<1> QED  BY <1>3, <1>4, <1>7 DEF s

=============================================================================
