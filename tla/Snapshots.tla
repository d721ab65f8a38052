----------------------------- MODULE Snapshots -----------------------------
(***************************************************************************)
(* Host scans and the gate of the mutating playbooks: kalived-scan.sh and  *)
(* kalived-verdict.sh fill one directory of logs/status per scan,          *)
(* kalived-gate.sh picks the newest live one and reads its verdict.        *)
(*                                                                         *)
(* There is no lock: a timer, the cockpit and a terminal may each have a   *)
(* scan under way, and the gate reads while they write.  Directories are   *)
(* named by their start time, so a scan is the rank of its name.           *)
(***************************************************************************)
EXTENDS Naturals

CONSTANTS MaxScan,    \* bound: scans started
          Finds,      \* bound: sets of severities the modules of a scan find
          Dst         \* destinations a scan may classify as unknown

Severity == {"ERROR", "ALERT", "WARN", "INFO"}

ASSUME ScanAssumption == MaxScan \in Nat /\ Finds \subseteq SUBSET Severity

VARIABLES
  stage,     \* how far each scan is
  replay,    \* is it a --from-dir scan?
  counted,   \* does meta.txt say kalived_scan=1, sudo=1, not fixture?
  found,     \* severities in findings.jsonl
  verdict,   \* verdict.json: "none", "empty" (opened, not written) or the verdict
  dsts       \* unknown destinations in the collected connections

scanVars == <<stage, replay, counted, found, verdict, dsts>>

Scan     == 1 .. MaxScan
Verdict  == {"CLEAN", "WARN", "ALERT", "ERROR"}
Stage    == {"none", "collect", "copied", "stripped", "judge", "writing", "done", "cut"}
Active   == Stage \ {"none", "done", "cut"}

ScanTypeOK ==
  /\ stage \in [Scan -> Stage]
  /\ replay \in [Scan -> BOOLEAN]
  /\ counted \in [Scan -> BOOLEAN]
  /\ found \in [Scan -> SUBSET Severity]
  /\ verdict \in [Scan -> Verdict \union {"none", "empty"}]
  /\ dsts \in [Scan -> SUBSET Dst]

ScanInit ==
  /\ stage = [s \in Scan |-> "none"]
  /\ replay = [s \in Scan |-> FALSE]
  /\ counted = [s \in Scan |-> FALSE]
  /\ found = [s \in Scan |-> {}]
  /\ verdict = [s \in Scan |-> "none"]
  /\ dsts = [s \in Scan |-> {}]

-----------------------------------------------------------------------------
(* kalived-scan.sh                                                         *)

IsNext(s) == stage[s] = "none" /\ \A t \in Scan : t < s => stage[t] # "none"

\* mkdir of a live scan run as root.
BeginLive(s) ==
  /\ IsNext(s)
  /\ stage' = [stage EXCEPT ![s] = "collect"]
  /\ UNCHANGED <<replay, counted, found, verdict, dsts>>

\* A bad config.toml, or a live scan without root: an ERROR verdict at once,
\* in a directory without meta.txt.
BeginRefused(s) ==
  /\ IsNext(s)
  /\ stage' = [stage EXCEPT ![s] = "done"]
  /\ found' = [found EXCEPT ![s] = {"ERROR"}]
  /\ verdict' = [verdict EXCEPT ![s] = "ERROR"]
  /\ UNCHANGED <<replay, counted, dsts>>

\* --from-dir: the evidence, meta.txt and verdict.json of t are copied ...
BeginReplay(s, t) ==
  /\ IsNext(s)
  /\ stage[t] \in {"done", "cut"}
  /\ stage' = [stage EXCEPT ![s] = "copied"]
  /\ replay' = [replay EXCEPT ![s] = TRUE]
  /\ counted' = [counted EXCEPT ![s] = counted[t]]
  /\ verdict' = [verdict EXCEPT ![s] = verdict[t]]
  /\ dsts' = [dsts EXCEPT ![s] = dsts[t]]
  /\ UNCHANGED found

\* ... and the copied verdict is removed again.
Strip(s) ==
  /\ stage[s] = "copied"
  /\ stage' = [stage EXCEPT ![s] = "stripped"]
  /\ verdict' = [verdict EXCEPT ![s] = "none"]
  /\ UNCHANGED <<replay, counted, found, dsts>>

\* The collectors are done; meta.txt is the scan's own.
WriteMeta(s) ==
  /\ \/ stage[s] = "collect" /\ \E D \in SUBSET Dst : dsts' = [dsts EXCEPT ![s] = D]
     \/ stage[s] = "stripped" /\ UNCHANGED dsts
  /\ stage' = [stage EXCEPT ![s] = "judge"]
  /\ counted' = [counted EXCEPT ![s] = ~replay[s]]
  /\ UNCHANGED <<replay, found, verdict>>

\* Mutant: the worst severity taken for the verdict.
WorstSeverity(F) ==
  CASE "ERROR" \in F -> "ERROR"
    [] "ERROR" \notin F /\ "ALERT" \in F -> "ALERT"
    [] F \intersect {"ERROR", "ALERT"} = {} /\ "WARN" \in F -> "WARN"
    [] OTHER -> "INFO"

\* compute_verdict: the worst severity; INFO alone is CLEAN.
ComputeVerdict(F) ==
  CASE "ERROR" \in F -> "ERROR"
    [] "ERROR" \notin F /\ "ALERT" \in F -> "ALERT"
    [] F \intersect {"ERROR", "ALERT"} = {} /\ "WARN" \in F -> "WARN"
    [] OTHER -> "CLEAN"

\* The modules have run and F is in findings.jsonl, an ERROR for each that
\* crashed (run_mod); write_verdict_json has opened, and so emptied, its file.
Judge(s, F) ==
  /\ stage[s] = "judge"
  /\ stage' = [stage EXCEPT ![s] = "writing"]
  /\ found' = [found EXCEPT ![s] = F]
  /\ verdict' = [verdict EXCEPT ![s] = "empty"]
  /\ UNCHANGED <<replay, counted, dsts>>

FillVerdict(s) ==
  /\ stage[s] = "writing"
  /\ stage' = [stage EXCEPT ![s] = "done"]
  /\ verdict' = [verdict EXCEPT ![s] = ComputeVerdict(found[s])]
  /\ UNCHANGED <<replay, counted, found, dsts>>

\* The watchdog, a reboot or the operator cuts the scan off.
Cut(s) ==
  /\ stage[s] \in Active
  /\ stage' = [stage EXCEPT ![s] = "cut"]
  /\ UNCHANGED <<replay, counted, found, verdict, dsts>>

ScanNext ==
  \E s \in Scan :
    \/ BeginLive(s) \/ BeginRefused(s) \/ Strip(s) \/ WriteMeta(s)
    \/ \E t \in Scan : BeginReplay(s, t)
    \/ \E F \in Finds : Judge(s, F)
    \/ FillVerdict(s) \/ Cut(s)

-----------------------------------------------------------------------------
(* kalived-gate.sh                                                         *)

Newest(S) == IF S = {} THEN 0 ELSE CHOOSE s \in S : \A t \in S : t <= s

\* kalived_latest_scan_dir: the greatest name among the directories that have
\* a verdict.json and the meta.txt of a live scan; 0 stands for none.
LatestScanDir == Newest({s \in Scan : counted[s] /\ verdict[s] # "none"})

\* unknown_dst_rows: the destinations of the collected connections that no
\* family claims.
UnknownDsts(s) == dsts[s]

\* Mutant: only an ALERT closes the gate.
NotAlert == LatestScanDir # 0 /\ verdict[LatestScanDir] # "ALERT"

\* kalived_require_not_alert: a verdict it cannot read closes the gate too.
RequireNotAlert ==
  LatestScanDir # 0 /\ verdict[LatestScanDir] \in {"CLEAN", "WARN"}

=============================================================================
