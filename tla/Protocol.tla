------------------------------ MODULE Protocol ------------------------------
(***************************************************************************)
(* protocol.json, the explanation of a scan: ensure_protocol of            *)
(* hiroshima_decide.py, called by GET /v1/hiroshima/verdict and by the     *)
(* reaping of a scan job, and PUT /v1/hiroshima/env, which tags the        *)
(* network and patches the file.  The calls run in threads of one server   *)
(* and take no lock; scans write beside them (Snapshots).                  *)
(*                                                                         *)
(* mtimes are kept as what they are compared for: newer says whether the   *)
(* file is at least as new as the verdict beside it.  Every write gets a   *)
(* later mtime than the one before.                                        *)
(***************************************************************************)
EXTENDS Decision

CONSTANTS Call,      \* calls, each made once
          Scenes     \* bound: what meets: the kind of each call, the evidence,
                     \* the models' answers, the scans and the old file

Kind   == {"get", "port", "reap", "env"}
NoDoc  == [stamp |-> 0]
Source == {"rules", "jev"}

\* What _parse_jev_answers lets through: its choices are any strings.
ModelAnswer == [class : STRING, dual : BOOLEAN, playbook : STRING, src : Source]

\* What findings.jsonl and the sensors' files can hold of a scan.
Row == [severity : Severity, id : STRING]
Readable(e) ==
  /\ e.base \in Seq(Row) /\ e.suricata \in {"none", "signal", "decoder", "flow"}
  /\ e.unknown \in BOOLEAN

ASSUME SceneAssumption ==
  \A x \in Scenes :
    /\ \A e \in x.evidence : Readable(e)
    /\ DOMAIN x.kind \subseteq Call /\ \A c \in DOMAIN x.kind : x.kind[c] \in Kind
    /\ x.scans \in 0 .. MaxScan
    /\ x.live \subseteq ModelAnswer /\ x.mercury \subseteq Playbooks
    /\ x.old # NoDoc => x.old.mercury \in Playbooks \union {"absent"}

VARIABLES
  scene,     \* the member of Scenes that happens
  evid,      \* the evidence a scan's verdict tells of
  stamped,   \* the stamp in a scan's verdict.json
  file,      \* protocol.json of a scan, or NoDoc
  newer,     \* is it as new as the verdict?
  tmp,       \* protocol.json.tmp
  tmpNewer,  \* the same of the tmp
  overlay,   \* what env_class.toml says of the network, or "none"
  rollback,  \* is there an isolation to undo?
  pc,        \* where a call is
  on,        \* the directory it took for the latest
  doc,       \* the protocol it holds
  shown,     \* the rows a GET answered with
  crossed    \* history: tagging met another call, a stop or a copied directory

docVars   == <<file, newer, tmp, tmpNewer>>
callVars  == <<pc, on, doc, shown>>
protoVars == <<scene, evid, stamped, overlay, rollback, crossed>>
vars      == <<scanVars, docVars, callVars, protoVars>>

Blank == [base |-> <<>>, falco |-> FALSE, suricata |-> "none", ssid |-> FALSE, usb |-> FALSE,
          second |-> FALSE, unknown |-> FALSE, owned |-> TRUE]

Whole(s) == verdict[s] \in Verdict

\* What digest_from_snapshot finds: without a whole verdict no findings.
Read(s) == IF Whole(s) THEN Findings(evid[s]) ELSE <<>>

\* A model's choices stay what it wrote where the veto has nothing to say.
Doc == [stamp : Scan, rev : {1, 2}, basis : Seq(Row), env : EnvClass,
        class : STRING, dual : BOOLEAN, playbook : STRING, mercury : Playbooks \union {"absent"},
        src : Source, unknown : BOOLEAN, late : BOOLEAN]

TypeOK ==
  /\ ScanTypeOK
  /\ scene \in Scenes
  /\ stamped \in [Scan -> Scan]
  /\ \A s \in Scan : file[s] \in Doc \union {NoDoc} /\ tmp[s] \in Doc \union {NoDoc}
  /\ newer \in [Scan -> BOOLEAN] /\ tmpNewer \in [Scan -> BOOLEAN]
  /\ overlay \in EnvClass \union {"none"} /\ rollback \in BOOLEAN /\ crossed \in BOOLEAN
  /\ pc \in [Call -> {"start", "cache", "stat", "digest", "port", "tmp", "replace", "rows",
                      "tag", "reread", "done"}]
  /\ on \in [Call -> Scan \union {0}]
  /\ \A c \in Call : doc[c] \in Doc \union {NoDoc}
  /\ \A c \in Call : shown[c] \in [rows : Seq(STRING), env : EnvClass] \union {NoDoc}

\* A machine with no scan yet, or with one that an older release explained.
Init ==
  /\ scene \in Scenes
  /\ overlay \in {"none", "home"} /\ rollback = FALSE /\ crossed = FALSE
  /\ IF scene.old = NoDoc
     THEN ScanInit /\ evid = [s \in Scan |-> Blank]
     ELSE \E e \in scene.evidence :
            /\ stage = [s \in Scan |-> IF s = 1 THEN "done" ELSE "none"]
            /\ replay = [s \in Scan |-> FALSE] /\ counted = [s \in Scan |-> s = 1]
            /\ found = [s \in Scan |-> IF s = 1 THEN Severities(Findings(e)) ELSE {}]
            /\ verdict = [s \in Scan |-> IF s = 1 THEN ComputeVerdict(Severities(Findings(e))) ELSE "none"]
            /\ dsts = [s \in Scan |-> {}]
            /\ evid = [s \in Scan |-> IF s = 1 THEN e ELSE Blank]
  /\ stamped = [s \in Scan |-> s]
  /\ file = [s \in Scan |->
               IF s = 1 /\ scene.old # NoDoc
               THEN LET env == EnvOf(evid[1], overlay)
                        a == Veto(Findings(evid[1]), env, RuleAnswers(Findings(evid[1]), evid[1], env))
                    IN [stamp |-> 1, rev |-> 1, basis |-> Findings(evid[1]), env |-> env,
                        class |-> a.class, dual |-> a.dual, playbook |-> a.playbook,
                        mercury |-> scene.old.mercury, src |-> "rules",
                        unknown |-> evid[1].unknown, late |-> FALSE]
               ELSE NoDoc]
  /\ newer = [s \in Scan |-> file[s] # NoDoc]
  /\ tmp = [s \in Scan |-> NoDoc] /\ tmpNewer = [s \in Scan |-> FALSE]
  /\ pc = [c \in Call |-> "start"] /\ on = [c \in Call |-> 0]
  /\ doc = [c \in Call |-> NoDoc] /\ shown = [c \in Call |-> NoDoc]

-----------------------------------------------------------------------------
(* Scans                                                                   *)

\* Neither opening nor filling a verdict leaves the protocol as new as it.
Older(s) == newer' = [newer EXCEPT ![s] = FALSE] /\ tmpNewer' = [tmpNewer EXCEPT ![s] = FALSE]

ScanStep ==
  \E s \in 1 .. scene.scans :
    \/ /\ BeginLive(s) \/ WriteMeta(s) \/ Cut(s) \/ Strip(s)
       /\ UNCHANGED <<docVars, callVars, protoVars>>
    \/ \E e \in scene.evidence :
         /\ Judge(s, Severities(Findings(e)))
         /\ evid' = [evid EXCEPT ![s] = e]
         /\ stamped' = [stamped EXCEPT ![s] = s]
         /\ Older(s)
         /\ UNCHANGED <<file, tmp, callVars, scene, overlay, rollback, crossed>>
    \/ /\ FillVerdict(s)
       /\ Older(s)
       /\ UNCHANGED <<file, tmp, callVars, protoVars>>

\* --from-dir copies the other directory's files with their mtimes.
Copy ==
  \E s, t \in 1 .. scene.scans :
    /\ BeginReplay(s, t)
    /\ evid' = [evid EXCEPT ![s] = evid[t]]
    /\ stamped' = [stamped EXCEPT ![s] = stamped[t]]
    /\ file' = [file EXCEPT ![s] = file[t]] /\ newer' = [newer EXCEPT ![s] = newer[t]]
    /\ tmp' = [tmp EXCEPT ![s] = tmp[t]] /\ tmpNewer' = [tmpNewer EXCEPT ![s] = tmpNewer[t]]
    /\ UNCHANGED <<callVars, scene, overlay, rollback, crossed>>

-----------------------------------------------------------------------------
(* ensure_protocol                                                         *)

Go(c, to) == pc' = [pc EXCEPT ![c] = to]
InFlight == {c \in Call : pc[c] \notin {"start", "done"}}
Tagging  == \E c \in InFlight : scene.kind[c] = "env"

\* The endpoint picks the latest directory and parses its verdict; one that
\* is being written is an error to it, not to the reaper.
Arrive(c) ==
  /\ pc[c] = "start" /\ scene.kind[c] # "env" /\ LatestScanDir # 0
  /\ on' = [on EXCEPT ![c] = LatestScanDir]
  /\ Go(c, CASE scene.kind[c] = "reap" -> "digest"
             [] scene.kind[c] # "reap" /\ ~Whole(LatestScanDir) -> "done"
             [] scene.kind[c] = "get" /\ Whole(LatestScanDir) -> "cache"
             [] scene.kind[c] = "port" /\ Whole(LatestScanDir) -> "digest")
  /\ crossed' = (crossed \/ Tagging)
  /\ UNCHANGED <<scanVars, docVars, doc, shown, scene, evid, stamped, overlay, rollback>>

\* read_protocol
ReadCache(c) ==
  /\ pc[c] = "cache"
  /\ doc' = [doc EXCEPT ![c] = file[on[c]]]
  /\ Go(c, IF file[on[c]] = NoDoc \/ verdict[on[c]] = "none" THEN "digest" ELSE "stat")
  /\ UNCHANGED <<scanVars, docVars, on, shown, protoVars>>

\* Mutant: any protocol.json will do.
HaveFile(s) == file[s] # NoDoc

\* Is protocol.json at least as new as verdict.json?
Fresh(s) == file[s] # NoDoc /\ verdict[s] # "none" /\ newer[s]

\* ring_from_snapshot: does an established flow go to no known family?
RingUnknown(s) == evid[s].unknown

\* mercury_review: what a model says, or the rules when none does.
SecondOpinion(F, env) == scene.mercury \union {MercuryRules(F, env)}

\* _attach_h2: a file of an older release keeps its class and gets the rest.
Attached(s, d) ==
  [d EXCEPT !.rev = 2, !.unknown = RingUnknown(s),
            !.mercury = IF d.class \notin {"candidate", "alert_family"} THEN "absent"
                        ELSE IF @ = "absent" THEN MercuryRules(Read(s), EnvOf(evid[s], overlay)) ELSE @]

Stat(c) ==
  /\ pc[c] = "stat"
  /\ LET d == doc[c] served == Fresh(on[c]) /\ d.stamp = on[c]
     IN \/ served /\ d.rev = 2 /\ Go(c, "rows") /\ UNCHANGED doc
        \/ /\ served /\ d.rev = 1 /\ Go(c, "tmp")
           /\ doc' = [doc EXCEPT ![c] = Attached(on[c], d)]
        \/ ~served /\ Go(c, "digest") /\ UNCHANGED doc
  /\ UNCHANGED <<scanVars, docVars, on, shown, protoVars>>

\* digest_from_snapshot reads the verdict and the overlay now; the answers
\* come later.
Digest(c) ==
  /\ pc[c] = "digest"
  /\ LET s == on[c] env == EnvOf(evid[s], overlay) a == RuleAnswers(Read(s), evid[s], env)
     IN doc' = [doc EXCEPT ![c] =
          [stamp |-> IF Whole(s) THEN stamped[s] ELSE s, rev |-> 2, basis |-> Read(s), env |-> env,
           class |-> a.class, dual |-> a.dual, playbook |-> a.playbook, mercury |-> "absent",
           src |-> "rules", unknown |-> RingUnknown(s), late |-> FALSE]]
  /\ Go(c, "port")
  /\ UNCHANGED <<scanVars, docVars, on, shown, protoVars>>

\* port: the model's answers or the rules', the veto, and for the two upper
\* classes the second opinion.  The engrams and the graph that follow are
\* Memory's.
Port(c) ==
  /\ pc[c] = "port"
  /\ \E a \in scene.live \union {[class |-> doc[c].class, dual |-> doc[c].dual,
                                  playbook |-> doc[c].playbook, src |-> "rules"]} :
       LET d == doc[c] v == Veto(d.basis, d.env, a)
       IN \E m \in SecondOpinion(d.basis, d.env) :
            doc' = [doc EXCEPT ![c] =
              [d EXCEPT !.class = v.class, !.dual = v.dual, !.playbook = v.playbook, !.src = v.src,
                        !.mercury = IF v.class \in {"candidate", "alert_family"} THEN m ELSE "absent"]]
  /\ Go(c, "tmp")
  /\ UNCHANGED <<scanVars, docVars, on, shown, protoVars>>

\* write_protocol: the text goes to one tmp for all calls ...
WriteTmp(c) ==
  /\ pc[c] = "tmp"
  /\ LET s == on[c] d == [doc[c] EXCEPT !.late = @ \/ (Whole(s) /\ doc[c].basis # Findings(evid[s]))]
     IN /\ tmp' = [tmp EXCEPT ![s] = d]
        /\ doc' = [doc EXCEPT ![c] = d]
  /\ tmpNewer' = [tmpNewer EXCEPT ![on[c]] = TRUE]
  /\ Go(c, "replace")
  /\ UNCHANGED <<scanVars, file, newer, on, shown, protoVars>>

After(c) == IF scene.kind[c] \in {"get", "port"} THEN "rows" ELSE "done"

\* ... which becomes the file, unless another call has moved it first.
Replace(c) ==
  /\ pc[c] = "replace"
  /\ LET s == on[c]
     IN IF tmp[s] = NoDoc THEN UNCHANGED docVars
        ELSE /\ file' = [file EXCEPT ![s] = tmp[s]] /\ newer' = [newer EXCEPT ![s] = tmpNewer[s]]
             /\ tmp' = [tmp EXCEPT ![s] = NoDoc] /\ tmpNewer' = [tmpNewer EXCEPT ![s] = FALSE]
  /\ Go(c, After(c))
  /\ UNCHANGED <<scanVars, on, doc, shown, protoVars>>

\* _attach_actions over the verdict that the endpoint parsed.
Answer(c) ==
  /\ pc[c] = "rows"
  /\ LET d == doc[c]
     IN shown' = [shown EXCEPT ![c] =
          [rows |-> Rows(Read(on[c]), [evid[on[c]] EXCEPT !.unknown = d.unknown], d.env, rollback,
                         IF d.mercury # "absent" THEN d.mercury ELSE d.playbook),
           env |-> d.env]]
  /\ Go(c, "done")
  /\ UNCHANGED <<scanVars, docVars, on, doc, protoVars>>

-----------------------------------------------------------------------------
(* PUT /v1/hiroshima/env                                                   *)

EnvArrive(c) ==
  /\ pc[c] = "start" /\ scene.kind[c] = "env" /\ LatestScanDir # 0
  /\ on' = [on EXCEPT ![c] = LatestScanDir]
  /\ Go(c, IF evid[LatestScanDir].ssid THEN "tag" ELSE "done")
  /\ UNCHANGED <<scanVars, docVars, doc, shown, protoVars>>

\* write_env_overlay
Tag(c) ==
  /\ pc[c] = "tag"
  /\ overlay' \in Away \union {"home"}
  /\ crossed' = (crossed \/ InFlight # {c} \/ on[c] # LatestScanDir \/ stage[on[c]] # "done")
  /\ Go(c, "reread")
  /\ UNCHANGED <<scanVars, docVars, on, doc, shown, scene, evid, stamped, rollback>>

\* Mutant: the network is tagged and the file left alone.
RereadNothing(c) ==
  /\ pc[c] = "reread"
  /\ Go(c, "done")
  /\ UNCHANGED <<scanVars, docVars, on, doc, shown, protoVars>>

\* read_protocol and the new class of the network in it; it is written as
\* ensure_protocol writes.
Reread(c) ==
  /\ pc[c] = "reread"
  /\ LET s == on[c]
     IN IF file[s] = NoDoc THEN Go(c, "done") /\ UNCHANGED doc
        ELSE /\ doc' = [doc EXCEPT ![c] = [file[s] EXCEPT !.env = EnvOf(evid[s], overlay)]]
             /\ Go(c, "tmp")
  /\ UNCHANGED <<scanVars, docVars, on, shown, protoVars>>

\* An isolation, or its undo, ran in between.
Isolated ==
  /\ rollback' = ~rollback /\ scene.isolates
  /\ UNCHANGED <<scanVars, docVars, callVars, scene, evid, stamped, overlay, crossed>>

\* The server stops: its calls are over, its files as they are.
Stop ==
  /\ InFlight # {}
  /\ pc' = [c \in Call |-> IF c \in InFlight THEN "done" ELSE pc[c]]
  /\ crossed' = (crossed \/ Tagging)
  /\ UNCHANGED <<scanVars, docVars, on, doc, shown, scene, evid, stamped, overlay, rollback>>

Next ==
  \/ ScanStep \/ Copy \/ Isolated \/ Stop
  \/ \E c \in DOMAIN scene.kind :
       \/ Arrive(c) \/ ReadCache(c) \/ Stat(c) \/ Digest(c) \/ Port(c)
       \/ WriteTmp(c) \/ Replace(c) \/ Answer(c)
       \/ EnvArrive(c) \/ Tag(c) \/ Reread(c)

Spec == Init /\ [][Next]_vars

-----------------------------------------------------------------------------
(* Properties                                                              *)

\* The protocol.json that would be served explains the verdict beside it,
\* however calls and scans overlapped, unless it was written with an older
\* reading after that verdict was whole; that hole the mtime cannot see.
CacheTrue ==
  \A s \in Scan :
    Fresh(s) /\ Whole(s) /\ file[s].stamp = s => file[s].basis = Findings(evid[s]) \/ file[s].late

\* Whatever the models answer and whoever rewrites the file, evidence with a
\* hard artifact is explained as alert_family, and its playbook is not one
\* that remediates ("no-remediate-on-alert").
HardIsAlert ==
  \A s \in Scan :
    file[s] # NoDoc /\ Hard(file[s].basis) =>
      file[s].class = "alert_family" /\ file[s].playbook \notin {"aide-init", "isolate-dst"}

\* Isolation is offered only on a network that the operator has tagged as
\* home and not tagged otherwise since, unless the tagging met another call.
IsolateAtHome ==
  [][\A c \in Call :
       /\ shown'[c] # shown[c]
       /\ "isolate-dst" \in {shown'[c].rows[i] : i \in DOMAIN shown'[c].rows}
       => overlay = "home" \/ crossed]_vars

\* A second domain at WARN or above makes an alert of what Falco saw,
\* whatever order the modules wrote in and whatever they wrote under the
\* same id later (check-falco.sh).
SecondDomainAlerts ==
  \A s \in Scan :
    LET f == evid[s].base
    IN /\ Whole(s) /\ stage[s] = "done" /\ evid[s].falco
       /\ \E id \in FimIds \union (NetIds \ {"NET-UFW-NOISE", "NET-UFW-SCAN", "NET-DNS"}) :
            Has(f, id, {"WARN", "ALERT"})
       => verdict[s] \in {"ALERT", "ERROR"}

=============================================================================
