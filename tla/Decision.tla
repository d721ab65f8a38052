------------------------------ MODULE Decision ------------------------------
(***************************************************************************)
(* What is concluded from the evidence of one scan: the findings of the    *)
(* two sensors that read the other modules' findings (falco_burst.py,      *)
(* suricata_eve.py), the rules and the veto over a model's answers         *)
(* (hiroshima_decide.py), and the rows offered for confirmation            *)
(* (scan_actions.py).  Titles, ports, counts and confidences are left out. *)
(*                                                                         *)
(* Evidence is a record:                                                   *)
(*   base      the findings of the other modules, in the order written     *)
(*   falco     did the burst leave rows?                                   *)
(*   suricata  "none", "signal", or only decoder sids: "decoder", and      *)
(*             "flow" when one of them is tied to an executable            *)
(*   ssid      is a wireless network connected?                            *)
(*   usb       is a phone's interface up?                                  *)
(*   second    did the hidden-process or packet counts find anything?      *)
(*   unknown   does an established flow go to no known family?             *)
(*   owned     are all deleted executables from packages?                  *)
(***************************************************************************)
EXTENDS Snapshots, Sequences, SequencesExt

Finding(sev, id) == [severity |-> sev, id |-> id]

HardIds == {"PROC-MEMFD", "PROC-DELETED", "PERS-PRELOAD", "PERS-UID0", "PROC-FAKEKTH",
            "PROC-HIDDEN", "PROC-TMPNET", "PROC-INPUT", "NET-NMAP", "NET-NMAP-SVC",
            "NET-LISTEN-EXT", "NET-ESTAB", "NET-SSH-UNIT", "NET-PROMISC"}
NoiseIds == {"NET-UFW-NOISE", "PCAP-NOISE", "PCAP-CONFIRM", "PCAP-MISS", "PROC-HIDDEN-NOISE",
             "PERS-SUID", "ROOT-TAINT", "ROOT-RKH", "NET-DNS"}
FimIds  == {"FIM-AIDE", "FIM-DEBSUMS", "PERS-PRELOAD"}
DualIds == FimIds \union {"PCAP-EXTRA", "PROC-TMPNET"}
\* The ids of the scan that begin with NET-.
NetIds == {"NET-NMAP", "NET-NMAP-SVC", "NET-LISTEN-EXT", "NET-ESTAB", "NET-SSH-UNIT", "NET-PROMISC",
           "NET-DNS", "NET-NFT-NAT", "NET-UFW", "NET-UFW-ALLOW", "NET-UFW-HIT", "NET-UFW-SCAN",
           "NET-UFW-NOISE"}

Ids(F)        == {F[i].id : i \in DOMAIN F}
Severities(F) == {F[i].severity : i \in DOMAIN F}
Has(F, id, sevs) == \E i \in DOMAIN F : F[i].id = id /\ F[i].severity \in sevs

-----------------------------------------------------------------------------
(* The sensors                                                             *)

\* The severity of the last finding under an id, as hiroshima_decide.py reads it.
LastSeverity(F, id) ==
  LET at == {i \in DOMAIN F : F[i].id = id}
  IN IF at = {} THEN "none" ELSE F[CHOOSE i \in at : \A j \in at : j <= i].severity

\* Mutant: a sensor too lets the last finding under an id decide.
RaisedLast(F, ids) == \E id \in ids : LastSeverity(F, id) \in {"WARN", "ALERT"}

\* dual_domains over _finding_ids: is the highest severity under one of the
\* ids WARN or ALERT?
RaisedHighest(F, ids) ==
  \E id \in ids : Has(F, id, {"WARN", "ALERT"}) /\ ~Has(F, id, {"ERROR"})

SecondDomain(F) ==
  RaisedHighest(F, FimIds \union {"PCAP-EXTRA", "PROC-TMPNET"}
                     \union (NetIds \ {"NET-UFW-NOISE", "NET-UFW-SCAN", "NET-DNS"}))

\* check_falco: rows alone are a WARN, rows and a second domain an ALERT.
Falco(F, rows) ==
  IF rows THEN <<Finding(IF SecondDomain(F) THEN "ALERT" ELSE "WARN", "HOST-FALCO")>> ELSE <<>>

\* check_suricata: the same for signatures; decoder sids count only when one
\* is tied to an executable, and then with the network or Falco.
Suricata(F, rows) ==
  CASE rows = "none" -> <<>>
    [] rows = "signal" ->
         <<Finding(IF SecondDomain(F) THEN "ALERT" ELSE "WARN", "HOST-SURICATA")>>
    [] rows = "decoder" -> <<Finding("INFO", "HOST-SURICATA")>>
    [] rows = "flow" ->
         <<Finding(IF \/ RaisedHighest(F, {"PCAP-EXTRA", "PROC-TMPNET"}
                            \union (NetIds \ {"NET-UFW-NOISE", "NET-UFW-SCAN", "NET-DNS"}))
                      \/ RaisedHighest(F, {"HOST-FALCO"})
                   THEN "ALERT" ELSE "INFO", "HOST-SURICATA")>>

\* findings.jsonl: the modules run in a fixed order, these two after the rest.
Findings(e) ==
  LET f == e.base \o Falco(e.base, e.falco) IN f \o Suricata(f, e.suricata)

-----------------------------------------------------------------------------
(* The rules                                                               *)

Playbooks == {"none", "ask_operator", "aide-init", "install-kalived-helper", "isolate-dst"}
Away      == {"travel", "tether"}
EnvClass  == Away \union {"home", "unknown"}

\* env_from_snapshot: the operator's overlay, else a phone, else a new network.
EnvOf(e, overlay) ==
  CASE e.ssid /\ overlay # "none"              -> overlay
    [] ~(e.ssid /\ overlay # "none") /\ e.usb  -> "tether"
    [] e.ssid /\ overlay = "none" /\ ~e.usb    -> "travel"
    [] OTHER                                   -> "unknown"

Hard(F)      == Ids(F) \intersect HardIds # {} \/ ComputeVerdict(Severities(F)) = "ALERT"
Raised(F, id) == LastSeverity(F, id) \in {"WARN", "ALERT"}
Sensed(F)    == Raised(F, "HOST-FALCO") \/ Raised(F, "HOST-SURICATA")

\* _falco_dual_from, _suricata_dual_from
Dual(F) == Sensed(F) /\ \E id \in DualIds \union (NetIds \ NoiseIds) : Raised(F, id)

RuleClass(F, env) ==
  CASE Hard(F)                                     -> "alert_family"
    [] ~Hard(F) /\ Sensed(F)                       -> "candidate"
    [] ~Hard(F) /\ ~Sensed(F) /\ env \in Away      -> "env_shift"
    [] /\ ~Hard(F) /\ ~Sensed(F) /\ env \notin Away
       /\ Severities(F) \intersect {"WARN", "ERROR"} # {}
       /\ Ids(F) \ (NoiseIds \union {"FIM-AIDE", "HELPER-STALE", "F-007", "HOST-SURICATA"}) # {}
                                                   -> "candidate"
    [] OTHER                                       -> "noise"

RulePlaybook(F) ==
  CASE Hard(F)                                            -> "ask_operator"
    [] ~Hard(F) /\ "HELPER-STALE" \in Ids(F)              -> "install-kalived-helper"
    [] /\ ~Hard(F) /\ "HELPER-STALE" \notin Ids(F)
       /\ "FIM-AIDE" \in Ids(F)                           -> "aide-init"
    [] OTHER                                              -> "none"

\* rule_one for the questions whose answers are used.
RuleAnswers(F, e, env) ==
  [class |-> RuleClass(F, env), dual |-> e.second \/ Dual(F), playbook |-> RulePlaybook(F), src |-> "rules"]

\* Mutant: a model's answers are taken as they come.
NoVeto(F, env, a) == IF a.src = "rules" \/ a.class = "none" THEN [a EXCEPT !.class = RuleClass(F, env)] ELSE a

\* veto: what the rules do not let an answer say.
Veto(F, env, a) ==
  LET said == IF a.class = "none" THEN "noise" ELSE a.class
  IN [a EXCEPT
       !.class =
         CASE Hard(F)                -> "alert_family"
           [] ~Hard(F) /\ Sensed(F)  -> "candidate"
           [] /\ ~Hard(F) /\ ~Sensed(F)
              /\ said = "alert_family" /\ ~a.dual
                                     -> IF env \in Away THEN "env_shift" ELSE "candidate"
           [] ~Hard(F) /\ ~Sensed(F) /\ said = "noise" /\ env \in Away -> "env_shift"
           [] OTHER                  -> said,
       !.playbook = IF Hard(F) /\ @ \in {"aide-init", "isolate-dst"} THEN "ask_operator" ELSE @]

\* mercury_rules: the second opinion when no model gives one.
MercuryRules(F, env) ==
  CASE Hard(F)                                        -> "ask_operator"
    [] ~Hard(F) /\ (Sensed(F) \/ env = "tether")      -> "none"
    [] /\ ~Hard(F) /\ ~Sensed(F) /\ env # "tether"
       /\ "FIM-AIDE" \in Ids(F)                       -> "aide-init"
    [] OTHER                                          -> "none"

-----------------------------------------------------------------------------
(* The rows                                                                *)

Deleted(F) == {"PROC-DELETED", "PROC-MEMFD"} \intersect Ids(F) # {}
PackageOnly(F, e) == "PROC-MEMFD" \notin Ids(F) /\ e.owned

\* actions_from_verdict: is the row offered?
Offered(row, F, e, env, rollback) ==
  CASE row = "ask-operator"       -> Deleted(F) /\ ~PackageOnly(F, e)
    [] row = "close-deleted-dpkg" -> Deleted(F) /\ PackageOnly(F, e)
    [] row = "ack-stale"     -> "FIM-AIDE-STALE" \in Ids(F) /\ ~Has(F, "FIM-AIDE", {"ALERT"})
    [] row = "isolate-dst"   -> e.unknown /\ env = "home"
    [] row = "travel-harden" -> env \in Away \/ (e.unknown /\ env # "home")
    [] row = "isolate-undo"  -> rollback
    [] row = "helper-pty"    -> "HELPER-STALE" \in Ids(F)
    [] row = "suricata-seen" -> Has(F, "HOST-SURICATA", {"WARN", "ALERT"})
    [] row = "runtime-apt"   -> "HOST-RUNTIME" \in Ids(F)

\* The rows that are offered, in the order of the code.
Table(F, e, env, rollback) ==
  LET If(row) == IF Offered(row, F, e, env, rollback) THEN <<row>> ELSE <<>>
  IN If("ask-operator") \o If("close-deleted-dpkg") \o If("ack-stale") \o If("isolate-dst")
       \o If("travel-harden") \o If("isolate-undo") \o If("helper-pty") \o If("suricata-seen")
       \o If("runtime-apt")

\* A row moved to the front, if it is there (port_actions, signal_port).
First(rows, row) ==
  IF row \in ToSet(rows)
  THEN <<row>> \o RemoveAt(rows, CHOOSE i \in DOMAIN rows : rows[i] = row) ELSE rows

\* _attach_actions: the table's rows, on a foreign network the advice first,
\* then the row that the second opinion, or else the playbook, points at.
Rows(F, e, env, rollback, pick) ==
  LET table  == Table(F, e, env, rollback)
      rows   == IF table = <<>> THEN <<"close">> ELSE table
      ported == IF env \in Away THEN First(rows, "travel-harden") ELSE rows
  IN CASE pick = "ask_operator" -> First(ported, "ask-operator")
       [] pick = "isolate-dst"  -> First(ported, "isolate-dst")
       [] OTHER -> ported

=============================================================================
