------------------------------ MODULE AideInit ------------------------------
(***************************************************************************)
(* The file-integrity findings of a scan and the overlay that silences     *)
(* them.  check-aide.sh and aide_classify.py turn what AIDE reports into   *)
(* findings; aide-init.sh freezes paths: it adds them, with the hashes     *)
(* they have at that moment, to aide-scope.json, and a frozen path with an *)
(* unchanged hash is no finding any more.  Runs of aide-init.sh and scans  *)
(* share no lock, and the files change under both.                         *)
(***************************************************************************)
EXTENDS Snapshots, FiniteSets

CONSTANTS Path,       \* the files the overlay or the findings may name
          Class,      \* classify_path: the class of each path
          Dir,        \* paths frozen through a directory prefix: no hash
          Freezer,    \* runs of aide-init.sh
          Asked,      \* bound: sets given with --paths; {} stands for none given
          Others,     \* bound: severities the other modules of a scan find
          MaxVersion, \* bound: how often files change
          Policies    \* aide_init_policy: config.toml may have any of these when it is read

Version == 0 .. MaxVersion

ASSUME AideAssumption ==
  /\ MaxVersion \in Nat
  /\ Class \in [Path -> {"identity", "self_sudoers", "self_helper", "snap_proton", "other"}]
  /\ Dir \subseteq Path
  /\ Asked \subseteq SUBSET Path
  /\ Others \subseteq SUBSET Severity

VARIABLES
  file,      \* the content each file has; 0 is what the AIDE database holds
  shipped,   \* the content its package ships
  window,    \* dpkg.log has its package within the last day
  edits,     \* bound: changes so far
  report,    \* aide_check.txt of each scan: the paths that differ
  checked,   \* has check_aide of a scan collected its package evidence?
  sums,      \* debsums.txt of each scan: the reported paths that are OK
  owned,     \* dpkg.log of each scan: the reported paths in their window
  fim,       \* the file-integrity findings of each scan, by class
  apc,       \* where each run of aide-init.sh is
  kind,      \* the flag it was given
  want,      \* the paths it is to freeze
  doc,       \* the overlay it has composed
  scope,     \* aide-scope.json
  tmp,       \* aide-scope.tmp: one name for all runs
  ino,       \* which name the file has now that a run opened as its tmp
  steady,    \* history: reported paths that kept their content since the scan began
  froze,     \* history: <<path, content>> pairs a run has composed
  clash      \* history: were two runs ever between reading and replacing?

fileVars  == <<file, shipped, window, edits, steady>>
evidence  == <<report, checked, sums, owned, fim>>
runVars   == <<apc, kind, want, doc, scope, tmp, ino, froze, clash>>
aideVars  == <<fileVars, evidence, runVars>>

FimClass == {"identity", "stale", "pkg", "self_sudoers", "self_helper", "snap_proton", "other"}
NoScope  == [kind |-> "none", prefixes |-> {}, sha |-> <<>>]
TornScope == [kind |-> "torn", prefixes |-> {}, sha |-> <<>>]
IsScope(d) ==
  /\ d.kind \in {"none", "torn", "whole"}
  /\ d.prefixes \subseteq Path
  /\ DOMAIN d.sha \subseteq d.prefixes
  /\ \A p \in DOMAIN d.sha : d.sha[p] \in Version

NoFindings == [c \in FimClass |-> {}]
AideOver(r) == apc[r] \in {"exit0", "exit1", "exit2", "killed"}
\* Between reading the old overlay and replacing it.
Publishing(r) == apc[r] \in {"open", "fill", "replace"}

AideTypeOK ==
  /\ file \in [Path -> Version] /\ shipped \in [Path -> Version]
  /\ window \in [Path -> BOOLEAN] /\ edits \in Version
  /\ report \in [Scan -> SUBSET Path] /\ checked \in [Scan -> BOOLEAN]
  /\ \A s \in Scan : sums[s] \subseteq report[s] /\ owned[s] \subseteq report[s]
  /\ fim \in [Scan -> [FimClass -> SUBSET Path]]
  /\ apc \in [Freezer -> {"idle", "stalepaths", "gate", "hasid", "verdict", "read", "open",
                          "fill", "replace", "install", "exit0", "exit1", "exit2", "killed"}]
  /\ kind \in [Freezer -> {"plain", "force", "force-alert", "ack-stale"}]
  /\ want \in [Freezer -> SUBSET Path]
  /\ \A r \in Freezer : IsScope(doc[r]) /\ ino[r] \in {"tmp", "scope", "lost"}
  /\ IsScope(scope) /\ IsScope(tmp) /\ \A p \in scope.prefixes : Class[p] # "snap_proton"
  /\ steady \in [Scan -> SUBSET Path]
  /\ froze \subseteq Path \X Version
  /\ clash \in BOOLEAN

AideInitial ==
  /\ \E U \in SUBSET {p \in Path : Class[p] = "identity" /\ MaxVersion > 0} :
       /\ file = [p \in Path |-> IF p \in U THEN 1 ELSE 0]     \* U: upgraded since the
       /\ shipped = file                                       \* database was made
       /\ edits = IF U = {} THEN 0 ELSE 1
  /\ window = [p \in Path |-> FALSE]
  /\ checked = [s \in Scan |-> FALSE]
  /\ report = [s \in Scan |-> {}] /\ sums = [s \in Scan |-> {}] /\ owned = [s \in Scan |-> {}]
  /\ fim = [s \in Scan |-> NoFindings]
  /\ apc = [r \in Freezer |-> "idle"]
  /\ kind = [r \in Freezer |-> "plain"]
  /\ want = [r \in Freezer |-> {}]
  /\ doc = [r \in Freezer |-> NoScope]
  /\ scope = NoScope /\ tmp = NoScope
  /\ ino = [r \in Freezer |-> "lost"]
  /\ steady = [s \in Scan |-> {}]
  /\ froze = {}
  /\ clash = FALSE

-----------------------------------------------------------------------------
(* The files, which anyone may change.                                     *)

\* p gets a content it has not had; ship: by an upgrade of its package.  Bound:
\* Proton's files keep theirs.
Change(p, ship) ==
  /\ edits < MaxVersion /\ Class[p] # "snap_proton"
  /\ edits' = edits + 1
  /\ file' = [file EXCEPT ![p] = edits + 1]
  /\ ship => Class[p] = "identity"
  /\ IF ship
     THEN /\ shipped' = [shipped EXCEPT ![p] = edits + 1]
          /\ window' = [window EXCEPT ![p] = TRUE]
     ELSE UNCHANGED <<shipped, window>>
  /\ steady' = [s \in Scan |-> steady[s] \ {p}]

\* A day has passed since the upgrade.
WindowCloses(p) ==
  /\ window[p]
  /\ window' = [window EXCEPT ![p] = FALSE]
  /\ UNCHANGED <<file, shipped, edits, steady>>

Outside ==
  /\ \/ \E p \in Path, ship \in BOOLEAN : Change(p, ship)
     \/ \E p \in Path : WindowCloses(p)
  /\ UNCHANGED <<scanVars, evidence, runVars>>

-----------------------------------------------------------------------------
(* The file-integrity module of a scan.                                    *)

\* Mutant: the name is enough.
IsListed(p) == p \in scope.prefixes

\* is_frozen: the prefix is listed and has no hash, or the hash the file has now.
\* An overlay that is not there or cannot be parsed (load_scope) freezes nothing.
IsFrozen(p) ==
  /\ p \in scope.prefixes
  /\ p \in DOMAIN scope.sha => file[p] = scope.sha[p]

\* findings_from_report: an identity path whose package was just installed is
\* pkg, one that debsums finds as shipped is stale, any other is an identity ALERT.
ClassOf(s, p) ==
  CASE Class[p] = "identity" /\ p \in owned[s] -> "pkg"
    [] Class[p] = "identity" /\ p \in sums[s] \ owned[s] -> "stale"
    [] OTHER -> Class[p]

\* Mutant: freezing is asked of every path.
SkippedEvery(s, p) == IsFrozen(p)

\* Only what is stale or kalived's own can be frozen; a --from-dir scan reads
\* no overlay.
Skipped(s, p) ==
  ~replay[s] /\ ClassOf(s, p) \in {"stale", "self_sudoers", "self_helper"} /\ IsFrozen(p)

FindingsFromReport(s) ==
  [c \in FimClass |-> {p \in report[s] : ClassOf(s, p) = c /\ ~Skipped(s, p)}]

\* SEV.
FimSeverity(f) ==
  UNION {IF f["identity"] = {} THEN {} ELSE {"ALERT"},
         IF f["self_helper"] = {} THEN {} ELSE {"INFO"},
         IF \A c \in FimClass \ {"identity", "self_helper"} : f[c] = {} THEN {} ELSE {"WARN"}}

\* aide --check is one of the collectors.
Collect(s) ==
  /\ WriteMeta(s)
  /\ IF replay[s] THEN UNCHANGED <<report, steady>>
     ELSE /\ report' = [report EXCEPT ![s] = {p \in Path : file[p] # 0}]
          /\ steady' = [steady EXCEPT ![s] = {p \in Path : file[p] # 0 /\ ~window[p]}]
  /\ UNCHANGED <<file, shipped, window, edits, checked, sums, owned, fim, runVars>>

\* check_aide of a live scan: dpkg.log and debsums of the reported paths, now.
CheckSums(s) ==
  /\ stage[s] = "judge" /\ ~replay[s] /\ ~checked[s]
  /\ checked' = [checked EXCEPT ![s] = TRUE]
  /\ owned' = [owned EXCEPT ![s] = {p \in report[s] : window[p]}]
  /\ sums' = [sums EXCEPT ![s] = {p \in report[s] : Class[p] = "identity" /\ file[p] = shipped[p]}]
  /\ UNCHANGED <<scanVars, fileVars, report, fim, runVars>>

\* The modules end; O is what the others found.  check_aide that crashes is an
\* ERROR and finds nothing.
JudgeAll(s, O) ==
  /\ \/ /\ checked[s] \/ replay[s]
        /\ Judge(s, O \union FimSeverity(FindingsFromReport(s)))
        /\ fim' = [fim EXCEPT ![s] = FindingsFromReport(s)]
     \/ /\ Judge(s, O \union {"ERROR"})
        /\ fim' = [fim EXCEPT ![s] = NoFindings]
  /\ UNCHANGED <<fileVars, report, checked, sums, owned, runVars>>

\* --from-dir copies the evidence with the verdict.
Replay(s, t) ==
  /\ BeginReplay(s, t)
  /\ report' = [report EXCEPT ![s] = report[t]]
  /\ checked' = [checked EXCEPT ![s] = checked[t]]
  /\ sums' = [sums EXCEPT ![s] = sums[t]]
  /\ owned' = [owned EXCEPT ![s] = owned[t]]
  /\ fim' = [fim EXCEPT ![s] = fim[t]]
  /\ UNCHANGED <<fileVars, runVars>>

AideScan(s) ==
  \/ (BeginLive(s) \/ BeginRefused(s) \/ Strip(s) \/ FillVerdict(s) \/ Cut(s)) /\ UNCHANGED aideVars
  \/ \E t \in Scan : Replay(s, t)
  \/ Collect(s) \/ CheckSums(s)
  \/ \E O \in Others : JudgeAll(s, O)

-----------------------------------------------------------------------------
(* What the gate asks of the newest verdict.                               *)

Readable(s) == s # 0 /\ verdict[s] \in Verdict

\* kalived_latest_identity_alert: a verdict that cannot be read has none.
LatestIdentityAlert == Readable(LatestScanDir) /\ fim[LatestScanDir]["identity"] # {}

\* kalived_latest_has_id FIM-AIDE-STALE: likewise.
LatestHasStale == Readable(LatestScanDir) /\ fim[LatestScanDir]["stale"] # {}

-----------------------------------------------------------------------------
(* aide-init.sh                                                            *)

DefaultScope == {p \in Path : Class[p] \in {"self_sudoers", "self_helper"}}
KeepPrefix(p) == Class[p] # "snap_proton"

\* A run that ends forgets what it read.
Goes(r, to) ==
  /\ apc' = [apc EXCEPT ![r] = to]
  /\ IF to \in {"exit0", "exit1", "exit2", "killed"}
     THEN /\ kind' = [kind EXCEPT ![r] = "plain"] /\ want' = [want EXCEPT ![r] = {}]
          /\ doc' = [doc EXCEPT ![r] = NoScope] /\ ino' = [ino EXCEPT ![r] = "lost"]
     ELSE UNCHANGED <<kind, want, doc, ino>>

\* --all is refused with the other unknown flags and starts nothing.
Start(r, k, given) ==
  /\ apc[r] = "idle"
  /\ apc' = [apc EXCEPT ![r] = IF k = "ack-stale" THEN "stalepaths" ELSE "gate"]
  /\ kind' = [kind EXCEPT ![r] = k]
  /\ want' = [want EXCEPT ![r] = IF given = {} THEN DefaultScope ELSE given]
  /\ UNCHANGED <<doc, scope, tmp, ino, froze, clash>>

\* Before the gate: the stale paths of the newest verdict, none if unreadable.
StalePaths(r) ==
  /\ apc[r] = "stalepaths"
  /\ want' = [want EXCEPT ![r] = @ \union IF Readable(LatestScanDir) THEN fim[LatestScanDir]["stale"] ELSE {}]
  /\ apc' = [apc EXCEPT ![r] = "gate"]
  /\ UNCHANGED <<kind, doc, scope, tmp, ino, froze, clash>>

\* Mutant: --force passes the first gate as well.
GateForced(r) ==
  /\ apc[r] = "gate"
  /\ Goes(r, CASE kind[r] \in {"force-alert", "force"} -> "verdict"
               [] kind[r] = "ack-stale" -> IF LatestIdentityAlert THEN "exit2" ELSE "verdict"
               [] OTHER -> IF RequireNotAlert THEN "hasid" ELSE "exit2")
  /\ UNCHANGED <<scope, tmp, froze, clash>>

Gate(r) ==
  /\ apc[r] = "gate"
  /\ Goes(r, CASE kind[r] = "force-alert" -> "verdict"
               [] kind[r] = "ack-stale" -> IF LatestIdentityAlert THEN "exit2" ELSE "verdict"
               [] OTHER -> IF RequireNotAlert THEN "hasid" ELSE "exit2")
  /\ UNCHANGED <<scope, tmp, froze, clash>>

\* The directory is looked up again.
HasId(r) ==
  /\ apc[r] = "hasid"
  /\ Goes(r, IF LatestHasStale THEN "exit2" ELSE "verdict")
  /\ UNCHANGED <<scope, tmp, froze, clash>>

\* always_prompt: no terminal, or the operator says no.
Declined(r) ==
  /\ apc[r] = "verdict" /\ kind[r] = "plain" /\ "always_prompt" \in Policies
  /\ Goes(r, "exit2")
  /\ UNCHANGED <<scope, tmp, froze, clash>>

\* And once more, for the policy; under set -e an unreadable verdict ends the run.
PolicyVerdict(r) ==
  /\ apc[r] = "verdict"
  /\ \E policy \in Policies :
       Goes(r, CASE ~Readable(LatestScanDir) -> "exit1"
                 [] Readable(LatestScanDir) /\ kind[r] = "plain" /\ policy = "clean_only"
                      /\ verdict[LatestScanDir] # "CLEAN" -> "exit2"
                 [] OTHER -> "read")
  /\ UNCHANGED <<scope, tmp, froze, clash>>

\* Every file prefix with the hash its file has at this moment.
Hashed(D) == [kind |-> "whole", prefixes |-> D, sha |-> [p \in D \ Dir |-> file[p]]]

\* write_scope: the prefixes of the old overlay and the wanted ones, without
\* Proton's (union_prefixes).
Compose(r) ==
  LET D == {p \in scope.prefixes \union want[r] : KeepPrefix(p)} IN
  /\ apc[r] = "read"
  /\ doc' = [doc EXCEPT ![r] = Hashed(D)]
  /\ froze' = froze \union {<<p, file[p]>> : p \in D}
  /\ clash' = (clash \/ \E q \in Freezer \ {r} : Publishing(q))
  /\ apc' = [apc EXCEPT ![r] = "open"]
  /\ kind' = [kind EXCEPT ![r] = "plain"] /\ want' = [want EXCEPT ![r] = {}]
  /\ UNCHANGED <<scope, tmp, ino>>

\* tmp.write_text empties the file of that name, whoever made it, ...
OpenTmp(r) ==
  /\ apc[r] = "open"
  /\ tmp' = TornScope
  /\ ino' = [ino EXCEPT ![r] = "tmp"]
  /\ apc' = [apc EXCEPT ![r] = "fill"]
  /\ UNCHANGED <<kind, want, doc, scope, froze, clash>>

\* ... and fills it, under the name it has by now; over the text of another run
\* the tail of a longer one may stay.
Written(r, old) == IF old.kind = "whole" THEN {doc[r], TornScope} ELSE {doc[r]}
FillTmp(r) ==
  /\ apc[r] = "fill"
  /\ CASE ino[r] = "tmp"   -> tmp' \in Written(r, tmp) /\ UNCHANGED scope
       [] ino[r] = "scope" -> scope' \in Written(r, scope) /\ UNCHANGED tmp
       [] ino[r] = "lost"  -> UNCHANGED <<tmp, scope>>
  /\ apc' = [apc EXCEPT ![r] = "replace"]
  /\ doc' = [doc EXCEPT ![r] = NoScope]
  /\ UNCHANGED <<kind, want, ino, froze, clash>>

\* chmod and replace: FileNotFoundError when another run was first.
Replace(r) ==
  /\ apc[r] = "replace"
  /\ IF tmp = NoScope
     THEN Goes(r, "exit1") /\ UNCHANGED <<scope, tmp>>
     ELSE /\ apc' = [apc EXCEPT ![r] = "install"]
          /\ scope' = tmp /\ tmp' = NoScope
          /\ ino' = [q \in Freezer |-> IF ino[q] = "tmp" /\ apc[q] = "fill" THEN "scope" ELSE "lost"]
          /\ UNCHANGED <<kind, want, doc>>
  /\ UNCHANGED <<froze, clash>>

\* Mutant: the overlay is moved to root's place, not copied.
InstallMoves(r) ==
  /\ apc[r] = "install"
  /\ Goes(r, "exit0")
  /\ scope' = NoScope
  /\ UNCHANGED <<tmp, froze, clash>>

\* The root copy of the overlay: no scan reads it while the operator's is there.
Install(r) ==
  /\ apc[r] = "install"
  /\ Goes(r, "exit0")
  /\ UNCHANGED <<scope, tmp, froze, clash>>

\* The TTL of the job, a reboot or the operator.
KillFreezer(r) ==
  /\ apc[r] # "idle" /\ ~AideOver(r)
  /\ Goes(r, "killed")
  /\ UNCHANGED <<scope, tmp, froze, clash>>

Freeze(r) ==
  /\ \/ \E k \in {"plain", "force", "force-alert", "ack-stale"}, P \in Asked : Start(r, k, P)
     \/ StalePaths(r) \/ Gate(r) \/ HasId(r) \/ Declined(r) \/ PolicyVerdict(r) \/ Compose(r)
     \/ OpenTmp(r) \/ FillTmp(r) \/ Replace(r) \/ Install(r) \/ KillFreezer(r)
  /\ UNCHANGED <<scanVars, fileVars, evidence>>

-----------------------------------------------------------------------------
(* Properties                                                              *)

\* The live scans that came to a verdict of their own.
EndedScans == {s \in Scan : counted[s] /\ ~replay[s] /\ stage[s] = "done"}
CopiedVerdict == \E s \in Scan : replay[s] /\ counted[s] /\ verdict[s] # "none"

\* "--force ... nektes ved siste verdict ALERT|ERROR", "Identity-ALERT nektes"
\* (aide-init.sh:6,9): a run leaves the gate only when no module of the newest
\* live scan found an ALERT or crashed, and with --ack-stale when that scan has
\* no identity ALERT.  The exceptions: --force-alert; a --from-dir scan that still
\* holds the verdict it copied; and, for --ack-stale, a newest verdict.json that
\* is not there or still empty.
FreezeGate ==
  [][\A r \in Freezer :
       (apc[r] = "gate" /\ apc'[r] \in {"hasid", "verdict"}) =>
         \/ kind[r] = "force-alert"
         \/ CopiedVerdict
         \/ /\ kind[r] \in {"plain", "force"} /\ EndedScans # {}
            /\ found[Newest(EndedScans)] \intersect {"ALERT", "ERROR"} = {}
         \/ /\ kind[r] = "ack-stale"
            /\ \/ EndedScans = {} \/ \E s \in Scan : verdict[s] = "empty"
               \/ fim[Newest(EndedScans)]["identity"] = {}]_<<scanVars, aideVars>>

\* No freeze hides a change of an identity file: one that differs from the
\* database and from what its package ships, since before the scan began and
\* until it judged, makes the scan an ALERT (or an ERROR), whatever was frozen,
\* by whom, and whatever overlay the scan happened to read.
TamperAlerts ==
  \A s \in Scan :
    (stage[s] = "done" /\ ~replay[s]
       /\ \E p \in steady[s] : Class[p] = "identity" /\ file[p] # shipped[p] /\ ~window[p])
      => verdict[s] \in {"ALERT", "ERROR"}

\* A change that kept still during a scan is in its findings, unless the scan
\* is an ERROR, or some run froze the path with that very content, or froze the directory it is in.
ChangeSurfaces ==
  \A s \in Scan : (stage[s] = "done" /\ ~replay[s] /\ verdict[s] # "ERROR") =>
    \A p \in steady[s] :
      \/ \E c \in FimClass : p \in fim[s][c]
      \/ <<p, file[p]>> \in froze
      \/ p \in Dir /\ \E v \in Version : <<p, v>> \in froze

\* "unioner ... (beholder tidligere prefixes)" (aide-init.sh:8): the overlay
\* loses no prefix as long as no two runs are between reading it and replacing
\* it, wherever runs are killed.
PrefixesKept ==
  [][~clash' => scope.prefixes \subseteq scope'.prefixes]_<<scanVars, aideVars>>

=============================================================================
