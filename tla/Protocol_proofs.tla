-------------------------- MODULE Protocol_proofs --------------------------
(***************************************************************************)
(* Proofs about protocol.json for any scans, calls, evidence and answers   *)
(* of the models.                                                          *)
(*                                                                         *)
(* HardIsAlert and CacheTrue are inductive over all places a protocol can  *)
(* be in: the file, the tmp beside it and the hands of a call.  A document *)
(* anywhere is Sound; one on disk as new as a whole verdict is of that     *)
(* verdict's findings, or was marked late when it was written.             *)
(*                                                                         *)
(* SecondDomainAlerts rests on JudgedInv: a scan that is done has the      *)
(* verdict of the evidence beside it, a copied directory included.         *)
(*                                                                         *)
(* IsolateAtHome rests on HomeInv: until a tagging has met something, a    *)
(* protocol in the hands of a call, or in a file that could be served,     *)
(* says home only while the overlay does.  Which files those are depends   *)
(* on how a directory came to have a verdict (LifeInv), on where the calls *)
(* are (PlaceInv) and on the stamps (StampInv): a copied protocol carries  *)
(* the name of the directory it was copied from and is never served.       *)
(***************************************************************************)
EXTENDS Protocol, Snapshots_proofs, TLAPS

Remediates == {"aide-init", "isolate-dst"}

Fields == {"stamp", "rev", "basis", "env", "class", "dual", "playbook", "mercury", "src",
           "unknown", "late"}
IsDoc(d) == DOMAIN d = Fields

\* Hard evidence is explained as what it is.
Sound(d) ==
  IsDoc(d) /\ (Hard(d.basis) => d.class = "alert_family" /\ d.playbook \notin Remediates)

Explains(d, s) == d.basis = Findings(evid[s]) \/ d.late

Shape ==
  /\ scene \in Scenes
  /\ DOMAIN verdict = Scan /\ DOMAIN evid = Scan
  /\ DOMAIN file = Scan /\ DOMAIN newer = Scan
  /\ DOMAIN tmp = Scan /\ DOMAIN tmpNewer = Scan
  /\ DOMAIN pc = Call /\ DOMAIN on = Call /\ DOMAIN doc = Call

FileInv ==
  \A s \in Scan :
    /\ file[s] # NoDoc => Sound(file[s])
    /\ tmp[s] # NoDoc => Sound(tmp[s])

CallInv ==
  \A c \in Call :
    /\ pc[c] \notin {"start", "done"} => on[c] \in Scan
    /\ doc[c] # NoDoc => Sound(doc[c])
    /\ pc[c] \in {"port", "tmp"} => Sound(doc[c])

FreshInv ==
  \A s \in Scan : Whole(s) =>
    /\ newer[s] /\ file[s] # NoDoc => Explains(file[s], s)
    /\ tmpNewer[s] /\ tmp[s] # NoDoc => Explains(tmp[s], s)

IInv == Shape /\ FileInv /\ CallInv /\ FreshInv

-----------------------------------------------------------------------------
(* The rules and the veto                                                  *)

LEMMA RulesAreSound ==
  ASSUME NEW F, NEW e, NEW env
  PROVE  /\ RuleAnswers(F, e, env) = [class |-> RuleAnswers(F, e, env).class,
              dual |-> RuleAnswers(F, e, env).dual, playbook |-> RuleAnswers(F, e, env).playbook,
              src |-> RuleAnswers(F, e, env).src]
         /\ Hard(F) => /\ RuleAnswers(F, e, env).class = "alert_family"
                       /\ RuleAnswers(F, e, env).playbook = "ask_operator"
<1>1. Hard(F) => RuleClass(F, env) = "alert_family" /\ RulePlaybook(F) = "ask_operator"
  BY DEF RuleClass, RulePlaybook
<1>2. QED
  BY <1>1 DEF RuleAnswers

\* Whatever an answer says, the veto leaves no remedy and no milder class to
\* hard evidence.
LEMMA VetoHolds ==
  ASSUME NEW F, NEW env, NEW a,
         a = [class |-> a.class, dual |-> a.dual, playbook |-> a.playbook, src |-> a.src],
         Hard(F)
  PROVE  /\ Veto(F, env, a).class = "alert_family"
         /\ Veto(F, env, a).playbook \notin Remediates
BY DEF Veto, Remediates

-----------------------------------------------------------------------------
(* Documents                                                               *)

LEMMA AttachedIsSound ==
  ASSUME NEW s, NEW d, Sound(d)
  PROVE  Sound(Attached(s, d))
<1> DEFINE m == IF d.class \notin {"candidate", "alert_family"} THEN "absent"
                ELSE IF d.mercury = "absent"
                     THEN MercuryRules(Read(s), EnvOf(evid[s], overlay)) ELSE d.mercury
           p(x) == [d EXCEPT !.rev = 2, !.unknown = evid[s].unknown, !.mercury = x]
<1>1. Attached(s, d) = p(m)
  BY DEF Attached, RingUnknown
<1> HIDE DEF m
<1>2. IsDoc(p(m)) /\ p(m).basis = d.basis /\ p(m).class = d.class /\ p(m).playbook = d.playbook
  BY DEF Sound, IsDoc, Fields
<1>3. QED
  BY <1>1, <1>2 DEF Sound

LEMMA TaggedIsSound ==
  ASSUME NEW x, NEW d, Sound(d)
  PROVE  Sound([d EXCEPT !.env = x])
BY DEF Sound, IsDoc, Fields

LEMMA MarkedIsSound ==
  ASSUME NEW x, NEW d, Sound(d)
  PROVE  /\ Sound([d EXCEPT !.late = x])
         /\ [d EXCEPT !.late = x].basis = d.basis
         /\ [d EXCEPT !.late = x].late = x
BY DEF Sound, IsDoc, Fields

LEMMA AnsweredIsSound ==
  ASSUME NEW d, Sound(d), NEW m, NEW a,
         a = [class |-> a.class, dual |-> a.dual, playbook |-> a.playbook, src |-> a.src]
  PROVE  LET v == Veto(d.basis, d.env, a)
         IN Sound([d EXCEPT !.class = v.class, !.dual = v.dual, !.playbook = v.playbook,
                            !.src = v.src, !.mercury = m])
<1> DEFINE v == Veto(d.basis, d.env, a)
           p == [d EXCEPT !.class = v.class, !.dual = v.dual, !.playbook = v.playbook,
                          !.src = v.src, !.mercury = m]
<1>1. Hard(d.basis) => v.class = "alert_family" /\ v.playbook \notin Remediates
  BY VetoHolds
<1> HIDE DEF v
<1>2. IsDoc(p) /\ p.basis = d.basis /\ p.class = v.class /\ p.playbook = v.playbook
  BY DEF Sound, IsDoc, Fields
<1>3. QED
  BY <1>1, <1>2 DEF Sound, v

\* What digest_from_snapshot and the rules make of a directory.
LEMMA DigestIsSound ==
  ASSUME NEW F, NEW e, NEW env, NEW st, NEW r, NEW m, NEW u, NEW l
  PROVE  LET a == RuleAnswers(F, e, env)
         IN Sound([stamp |-> st, rev |-> r, basis |-> F, env |-> env, class |-> a.class,
                   dual |-> a.dual, playbook |-> a.playbook, mercury |-> m, src |-> "rules",
                   unknown |-> u, late |-> l])
<1> DEFINE a == RuleAnswers(F, e, env)
<1>1. Hard(F) => a.class = "alert_family" /\ a.playbook = "ask_operator"
  BY RulesAreSound
<1> HIDE DEF a
<1>2. QED
  BY <1>1 DEF Sound, IsDoc, Fields, Remediates, a

-----------------------------------------------------------------------------
(* What a step leaves alone                                                *)

LEMMA FilesStand ==
  ASSUME FileInv, FreshInv, UNCHANGED <<verdict, evid, docVars>>
  PROVE  FileInv' /\ FreshInv'
BY DEF FileInv, FreshInv, Explains, Whole, docVars

LEMMA CallsStand ==
  ASSUME CallInv, UNCHANGED <<pc, on, doc>>
  PROVE  CallInv'
BY DEF CallInv

\* A call goes on with a document that is none or sound.
LEMMA CallGoesOn ==
  ASSUME Shape, CallInv, NEW c \in Call, NEW to, NEW d,
         pc' = [pc EXCEPT ![c] = to], doc' = [doc EXCEPT ![c] = d],
         on[c] \in Scan, UNCHANGED on,
         d # NoDoc => Sound(d), to \in {"port", "tmp"} => Sound(d)
  PROVE  CallInv'
BY DEF Shape, CallInv

-----------------------------------------------------------------------------
(* Every step keeps the invariant                                          *)

LEMMA InitIInv == Init => IInv
<1> SUFFICES ASSUME Init PROVE IInv
  OBVIOUS
<1>1. Shape
  BY DEF Init, Shape, ScanInit
<1>2. CallInv
  BY DEF Init, CallInv
<1>3. ASSUME NEW s \in Scan, file[s] # NoDoc
      PROVE  Sound(file[s]) /\ file[s].basis = Findings(evid[s])
  <2> DEFINE F == Findings(evid[1])
             env == EnvOf(evid[1], overlay)
             r == RuleAnswers(F, evid[1], env)
             a == Veto(F, env, r)
  <2>1. Hard(F) => a.class = "alert_family" /\ a.playbook \notin Remediates
    BY RulesAreSound, VetoHolds
  <2> HIDE DEF a
  <2>2. s = 1 /\ file[s] = [stamp |-> 1, rev |-> 1, basis |-> F, env |-> env,
                            class |-> a.class, dual |-> a.dual, playbook |-> a.playbook,
                            mercury |-> scene.old.mercury, src |-> "rules",
                            unknown |-> evid[1].unknown, late |-> FALSE]
    BY <1>3 DEF Init, a
  <2> HIDE DEF F, env
  <2>3. Sound(file[s])
    BY <2>1, <2>2 DEF Sound, IsDoc, Fields
  <2>4. file[s].basis = F
    BY <2>2
  <2>5. QED
    BY <2>2, <2>3, <2>4 DEF F
<1>4. \A s \in Scan : tmp[s] = NoDoc
  BY DEF Init
<1>5. FileInv /\ FreshInv
  BY <1>3, <1>4 DEF FileInv, FreshInv, Explains
<1>6. QED
  BY <1>1, <1>2, <1>5 DEF IInv

\* A scan that writes its verdict leaves nothing as new as it.
LEMMA ScanStepIInv == IInv /\ ScanStep => IInv'
<1> SUFFICES ASSUME IInv, ScanStep PROVE IInv'
  OBVIOUS
<1> USE DEF IInv, Shape
<1>1. PICK s \in 1 .. scene.scans :
        \/ /\ BeginLive(s) \/ WriteMeta(s) \/ Cut(s) \/ Strip(s)
           /\ UNCHANGED <<docVars, callVars, protoVars>>
        \/ \E e \in scene.evidence :
             /\ Judge(s, Severities(Findings(e)))
             /\ evid' = [evid EXCEPT ![s] = e]
             /\ stamped' = [stamped EXCEPT ![s] = s]
             /\ Older(s)
             /\ UNCHANGED <<file, tmp, callVars, scene, overlay, rollback, crossed>>
        \/ /\ FillVerdict(s)
           /\ Older(s)
           /\ UNCHANGED <<file, tmp, callVars, protoVars>>
  BY DEF ScanStep
<1>2. s \in Scan
  BY SceneAssumption, ScanAssumption DEF Scan
<1>3. CASE /\ BeginLive(s) \/ WriteMeta(s) \/ Cut(s) \/ Strip(s)
           /\ UNCHANGED <<docVars, callVars, protoVars>>
  <2>1. \A t \in Scan : verdict'[t] \in {verdict[t], "none"}
    BY <1>3 DEF BeginLive, WriteMeta, Cut, Strip
  <2>2. DOMAIN verdict' = Scan
    BY <1>3 DEF BeginLive, WriteMeta, Cut, Strip
  <2>3. UNCHANGED <<file, newer, tmp, tmpNewer, evid, scene, pc, on, doc>>
    BY <1>3 DEF docVars, callVars, protoVars
  <2>4. FreshInv'
    BY <2>1, <2>3 DEF FreshInv, Explains, Whole, Verdict
  <2>5. FileInv' /\ CallInv'
    BY <2>3, CallsStand DEF FileInv
  <2>6. QED
    BY <2>2, <2>3, <2>4, <2>5
<1>4. ASSUME NEW e \in scene.evidence, Judge(s, Severities(Findings(e))),
             evid' = [evid EXCEPT ![s] = e], Older(s),
             UNCHANGED <<file, tmp, callVars, scene, overlay, rollback, crossed>>
      PROVE  IInv'
  <2>1. verdict' = [verdict EXCEPT ![s] = "empty"]
    BY <1>4 DEF Judge
  <2>2. UNCHANGED <<file, tmp, scene, pc, on, doc>>
    BY <1>4 DEF callVars
  <2>3. FreshInv'
    BY <1>2, <1>4, <2>1, <2>2 DEF FreshInv, Explains, Whole, Older
  <2>4. FileInv' /\ CallInv'
    BY <2>2, CallsStand DEF FileInv
  <2>5. QED
    BY <1>4, <2>1, <2>2, <2>3, <2>4 DEF Older
<1>5. CASE FillVerdict(s) /\ Older(s) /\ UNCHANGED <<file, tmp, callVars, protoVars>>
  <2>1. verdict' = [verdict EXCEPT ![s] = ComputeVerdict(found[s])]
    BY <1>5 DEF FillVerdict
  <2>2. UNCHANGED <<file, tmp, evid, scene, pc, on, doc>>
    BY <1>5 DEF callVars, protoVars
  <2>3. FreshInv'
    BY <1>2, <1>5, <2>1, <2>2 DEF FreshInv, Explains, Whole, Older
  <2>4. FileInv' /\ CallInv'
    BY <2>2, CallsStand DEF FileInv
  <2>5. QED
    BY <1>5, <2>1, <2>2, <2>3, <2>4 DEF Older
<1>6. QED
  BY <1>1, <1>3, <1>4, <1>5

\* A copied directory is as right or wrong as the one it is copied from.
LEMMA CopyIInv == IInv /\ Copy => IInv'
<1> SUFFICES ASSUME IInv, Copy PROVE IInv'
  OBVIOUS
<1> USE DEF IInv, Shape
<1>1. PICK s \in 1 .. scene.scans, t \in 1 .. scene.scans :
        /\ BeginReplay(s, t)
        /\ evid' = [evid EXCEPT ![s] = evid[t]]
        /\ stamped' = [stamped EXCEPT ![s] = stamped[t]]
        /\ file' = [file EXCEPT ![s] = file[t]] /\ newer' = [newer EXCEPT ![s] = newer[t]]
        /\ tmp' = [tmp EXCEPT ![s] = tmp[t]] /\ tmpNewer' = [tmpNewer EXCEPT ![s] = tmpNewer[t]]
        /\ UNCHANGED <<callVars, scene, overlay, rollback, crossed>>
  BY DEF Copy
<1>2. s \in Scan /\ t \in Scan
  BY SceneAssumption, ScanAssumption DEF Scan
<1>3. verdict' = [verdict EXCEPT ![s] = verdict[t]]
  BY <1>1 DEF BeginReplay
<1>4. UNCHANGED <<pc, on, doc>>
  BY <1>1 DEF callVars
<1>5. FileInv'
  BY <1>1, <1>2 DEF FileInv
<1>6. FreshInv'
  BY <1>1, <1>2, <1>3 DEF FreshInv, Explains, Whole
<1>7. QED
  BY <1>1, <1>3, <1>4, <1>5, <1>6, CallsStand

\* The steps of a call: what it reads, makes and writes stays sound.
LEMMA CallIInv ==
  ASSUME IInv, NEW c \in Call, c \in DOMAIN scene.kind,
         \/ Arrive(c) \/ ReadCache(c) \/ Stat(c) \/ Digest(c) \/ Port(c)
         \/ Answer(c) \/ EnvArrive(c) \/ Tag(c) \/ Reread(c)
  PROVE  IInv'
<1> USE DEF IInv, Shape
<1>1. UNCHANGED <<scanVars, docVars, scene, evid>>
  BY DEF Arrive, ReadCache, Stat, Digest, Port, Answer, EnvArrive, Tag, Reread, protoVars
<1>2. UNCHANGED <<verdict, evid, docVars, file, newer, tmp, tmpNewer, scene>>
  BY <1>1 DEF scanVars, docVars
<1>3. FileInv' /\ FreshInv'
  BY <1>2, FilesStand
<1>4. DOMAIN pc' = Call /\ DOMAIN on' = Call /\ DOMAIN doc' = Call
  BY DEF Arrive, ReadCache, Stat, Digest, Port, Answer, EnvArrive, Tag, Reread, Go
<1>5. CallInv'
  <2>1. CASE Arrive(c) \/ EnvArrive(c)
    <3>1. LatestScanDir \in Scan /\ on' = [on EXCEPT ![c] = LatestScanDir] /\ UNCHANGED doc
      BY <2>1, LatestIsLive DEF Arrive, EnvArrive
    <3>2. PICK to : to \in {"cache", "digest", "tag", "done"} /\ pc' = [pc EXCEPT ![c] = to]
      <4>1. CASE Arrive(c)
        <5>1. scene.kind[c] = "reap" => pc' = [pc EXCEPT ![c] = "digest"]
          BY <4>1 DEF Arrive, Go
        <5>2. scene.kind[c] # "reap" /\ ~Whole(LatestScanDir) => pc' = [pc EXCEPT ![c] = "done"]
          BY <4>1 DEF Arrive, Go
        <5>3. scene.kind[c] = "get" /\ Whole(LatestScanDir) => pc' = [pc EXCEPT ![c] = "cache"]
          BY <4>1 DEF Arrive, Go
        <5>4. scene.kind[c] = "port" /\ Whole(LatestScanDir) => pc' = [pc EXCEPT ![c] = "digest"]
          BY <4>1 DEF Arrive, Go
        <5>5. scene.kind[c] \in Kind
          BY SceneAssumption
        <5>6. scene.kind[c] \in {"get", "port", "reap"}
          BY <4>1, <5>5 DEF Arrive, Kind
        <5>7. QED
          BY <5>1, <5>2, <5>3, <5>4, <5>6
      <4>2. CASE EnvArrive(c)
        BY <4>2 DEF EnvArrive, Go
      <4>3. QED
        BY <2>1, <4>1, <4>2
    <3>3. QED
      BY <3>1, <3>2 DEF CallInv
  <2>2. CASE ReadCache(c)
    <3>1. on[c] \in Scan /\ (file[on[c]] # NoDoc => Sound(file[on[c]]))
      BY <2>2 DEF ReadCache, CallInv, FileInv
    <3>2. PICK to \in {"digest", "stat"} : pc' = [pc EXCEPT ![c] = to]
      BY <2>2 DEF ReadCache, Go
    <3>3. doc' = [doc EXCEPT ![c] = file[on[c]]] /\ UNCHANGED on
      BY <2>2 DEF ReadCache
    <3>4. QED
      BY <3>1, <3>2, <3>3, CallGoesOn
  <2>3. CASE Stat(c)
    <3>1. on[c] \in Scan /\ UNCHANGED on
      BY <2>3 DEF Stat, CallInv
    <3>2. CASE pc' = [pc EXCEPT ![c] = "tmp"] /\ doc' = [doc EXCEPT ![c] = Attached(on[c], doc[c])]
               /\ doc[c].stamp = on[c]
      <4>1. doc[c] # NoDoc
        BY <3>1, <3>2, ScanAssumption DEF NoDoc, Scan
      <4>2. Sound(Attached(on[c], doc[c]))
        BY <4>1, AttachedIsSound DEF CallInv
      <4>3. QED
        BY <3>1, <3>2, <4>2, CallGoesOn
    <3>3. CASE (pc' = [pc EXCEPT ![c] = "rows"] \/ pc' = [pc EXCEPT ![c] = "digest"]) /\ UNCHANGED doc
      BY <3>1, <3>3 DEF CallInv
    <3>4. QED
      BY <2>3, <3>2, <3>3 DEF Stat, Go
  <2>4. CASE Digest(c)
    <3> DEFINE s == on[c]
               env == EnvOf(evid[s], overlay)
               a == RuleAnswers(Read(s), evid[s], env)
               d == [stamp |-> IF Whole(s) THEN stamped[s] ELSE s, rev |-> 2, basis |-> Read(s),
                     env |-> env, class |-> a.class, dual |-> a.dual, playbook |-> a.playbook,
                     mercury |-> "absent", src |-> "rules", unknown |-> evid[s].unknown, late |-> FALSE]
    <3>1. Sound(d)
      BY DigestIsSound
    <3>2. doc' = [doc EXCEPT ![c] = d]
      BY <2>4 DEF Digest, RingUnknown
    <3> HIDE DEF d
    <3>3. pc' = [pc EXCEPT ![c] = "port"] /\ on[c] \in Scan /\ UNCHANGED on
      BY <2>4 DEF Digest, Go, CallInv
    <3>4. QED
      BY <3>1, <3>2, <3>3, CallGoesOn
  <2>5. CASE Port(c)
    <3> DEFINE d == doc[c]
               own == [class |-> d.class, dual |-> d.dual, playbook |-> d.playbook, src |-> "rules"]
               said(a, m) == LET v == Veto(d.basis, d.env, a)
                             IN [d EXCEPT !.class = v.class, !.dual = v.dual, !.playbook = v.playbook,
                                          !.src = v.src, !.mercury = m]
    <3>1. PICK a \in scene.live \union {own} :
            \E m \in SecondOpinion(d.basis, d.env) :
              doc' = [doc EXCEPT ![c] =
                LET v == Veto(d.basis, d.env, a)
                IN [d EXCEPT !.class = v.class, !.dual = v.dual, !.playbook = v.playbook, !.src = v.src,
                             !.mercury = IF v.class \in {"candidate", "alert_family"} THEN m ELSE "absent"]]
      BY <2>5 DEF Port
    <3>2. PICK m : doc' = [doc EXCEPT ![c] = said(a, m)]
      BY <3>1
    <3>3. Sound(d) /\ on[c] \in Scan
      BY <2>5 DEF Port, CallInv
    <3>4. a = [class |-> a.class, dual |-> a.dual, playbook |-> a.playbook, src |-> a.src]
      BY SceneAssumption DEF ModelAnswer
    <3>5. Sound(said(a, m))
      BY <3>3, <3>4, AnsweredIsSound
    <3> HIDE DEF said
    <3>6. pc' = [pc EXCEPT ![c] = "tmp"] /\ UNCHANGED on
      BY <2>5 DEF Port, Go
    <3>7. QED
      BY <3>2, <3>3, <3>5, <3>6, CallGoesOn
  <2>6. CASE Answer(c) \/ Tag(c)
    <3>1. UNCHANGED <<on, doc>> /\ on[c] \in Scan
      BY <2>6 DEF Answer, Tag, CallInv
    <3>2. PICK to \in {"done", "reread"} : pc' = [pc EXCEPT ![c] = to]
      BY <2>6 DEF Answer, Tag, Go
    <3>3. QED
      BY <3>1, <3>2 DEF CallInv
  <2>7. CASE Reread(c)
    <3>1. on[c] \in Scan /\ UNCHANGED on
      BY <2>7 DEF Reread, CallInv
    <3>2. CASE file[on[c]] = NoDoc
      <4>1. pc' = [pc EXCEPT ![c] = "done"] /\ UNCHANGED doc
        BY <2>7, <3>2 DEF Reread, Go
      <4>2. QED
        BY <3>1, <4>1 DEF CallInv
    <3>3. CASE file[on[c]] # NoDoc
      <4> DEFINE d == [file[on[c]] EXCEPT !.env = EnvOf(evid[on[c]], overlay)]
      <4>1. Sound(d)
        BY <3>1, <3>3, TaggedIsSound DEF FileInv
      <4>2. pc' = [pc EXCEPT ![c] = "tmp"] /\ doc' = [doc EXCEPT ![c] = d]
        BY <2>7, <3>3 DEF Reread, Go
      <4> HIDE DEF d
      <4>3. QED
        BY <3>1, <4>1, <4>2, CallGoesOn
    <3>4. QED
      BY <3>2, <3>3
  <2>8. QED
    BY <2>1, <2>2, <2>3, <2>4, <2>5, <2>6, <2>7
<1>6. QED
  BY <1>2, <1>3, <1>4, <1>5

\* A protocol written beside a whole verdict of other findings is marked late.
LEMMA WriteTmpIInv == IInv /\ (\E c \in Call : WriteTmp(c)) => IInv'
<1> SUFFICES ASSUME IInv, NEW c \in Call, WriteTmp(c) PROVE IInv'
  OBVIOUS
<1> USE DEF IInv, Shape
<1> DEFINE s == on[c]
           l == doc[c].late \/ (Whole(s) /\ doc[c].basis # Findings(evid[s]))
           d == [doc[c] EXCEPT !.late = l]
<1>1. s \in Scan /\ Sound(doc[c])
  BY DEF WriteTmp, CallInv
<1>2. Sound(d) /\ d.basis = doc[c].basis /\ d.late = l
  BY <1>1, MarkedIsSound
<1>3. Whole(s) => Explains(d, s)
  BY <1>2 DEF Explains
<1>4. tmp' = [tmp EXCEPT ![s] = d] /\ doc' = [doc EXCEPT ![c] = d]
  BY DEF WriteTmp
<1>5. /\ tmpNewer' = [tmpNewer EXCEPT ![s] = TRUE] /\ pc' = [pc EXCEPT ![c] = "replace"]
      /\ UNCHANGED <<scene, verdict, evid, file, newer, on>>
  BY DEF WriteTmp, Go, scanVars, protoVars
<1> HIDE DEF d
<1>6. FileInv'
  BY <1>1, <1>2, <1>4, <1>5 DEF FileInv
<1>7. FreshInv'
  BY <1>1, <1>3, <1>4, <1>5 DEF FreshInv, Explains, Whole
<1>8. CallInv'
  BY <1>1, <1>2, <1>4, <1>5, CallGoesOn
<1>9. QED
  BY <1>4, <1>5, <1>6, <1>7, <1>8

LEMMA ReplaceIInv == IInv /\ (\E c \in Call : Replace(c)) => IInv'
<1> SUFFICES ASSUME IInv, NEW c \in Call, Replace(c) PROVE IInv'
  OBVIOUS
<1> USE DEF IInv, Shape
<1>1. on[c] \in Scan
  BY DEF Replace, CallInv
<1>2. UNCHANGED <<scene, verdict, evid, on, doc>>
  BY DEF Replace, scanVars, protoVars
<1>3. PICK to \in {"rows", "done"} : pc' = [pc EXCEPT ![c] = to]
  BY DEF Replace, Go, After
<1>4. CallInv'
  BY <1>1, <1>2, <1>3 DEF CallInv
<1>5. CASE tmp[on[c]] = NoDoc
  <2>1. UNCHANGED docVars
    BY <1>5 DEF Replace
  <2>2. FileInv' /\ FreshInv'
    BY <1>2, <2>1, FilesStand
  <2>3. QED
    BY <1>2, <1>3, <1>4, <2>1, <2>2 DEF docVars
<1>6. CASE tmp[on[c]] # NoDoc
  <2> DEFINE s == on[c]
  <2>1. /\ file' = [file EXCEPT ![s] = tmp[s]] /\ newer' = [newer EXCEPT ![s] = tmpNewer[s]]
        /\ tmp' = [tmp EXCEPT ![s] = NoDoc] /\ tmpNewer' = [tmpNewer EXCEPT ![s] = FALSE]
    BY <1>6 DEF Replace
  <2>2. FileInv'
    BY <1>1, <2>1 DEF FileInv
  <2>3. FreshInv'
    BY <1>1, <1>2, <2>1 DEF FreshInv, Explains, Whole
  <2>4. QED
    BY <1>2, <1>3, <1>4, <2>1, <2>2, <2>3
<1>7. QED
  BY <1>5, <1>6

LEMMA RestIInv == IInv /\ (Isolated \/ Stop \/ UNCHANGED vars) => IInv'
<1> SUFFICES ASSUME IInv, Isolated \/ Stop \/ UNCHANGED vars PROVE IInv'
  OBVIOUS
<1> USE DEF IInv, Shape
<1>1. UNCHANGED <<verdict, evid, docVars, file, newer, tmp, tmpNewer, scene, on, doc>>
  BY DEF Isolated, Stop, vars, scanVars, docVars, callVars, protoVars
<1>2. FileInv' /\ FreshInv'
  BY <1>1, FilesStand
<1>3. DOMAIN pc' = Call /\ \A c \in Call : pc'[c] \in {pc[c], "done"}
  BY DEF Isolated, Stop, vars, callVars
<1>4. CallInv'
  BY <1>1, <1>3 DEF CallInv
<1>5. QED
  BY <1>1, <1>2, <1>3, <1>4

LEMMA NextIInv == IInv /\ [Next]_vars => IInv'
<1> SUFFICES ASSUME IInv, [Next]_vars PROVE IInv'
  OBVIOUS
<1>1. CASE ScanStep
  BY <1>1, ScanStepIInv
<1>2. CASE Copy
  BY <1>2, CopyIInv
<1>3. CASE Isolated \/ Stop \/ UNCHANGED vars
  BY <1>3, RestIInv
<1>4. ASSUME NEW c \in DOMAIN scene.kind,
             \/ Arrive(c) \/ ReadCache(c) \/ Stat(c) \/ Digest(c) \/ Port(c)
             \/ WriteTmp(c) \/ Replace(c) \/ Answer(c)
             \/ EnvArrive(c) \/ Tag(c) \/ Reread(c)
      PROVE  IInv'
  <2>1. c \in Call
    BY SceneAssumption DEF IInv, Shape
  <2>2. QED
    BY <1>4, <2>1, CallIInv, WriteTmpIInv, ReplaceIInv
<1>5. QED
  BY <1>1, <1>2, <1>3, <1>4 DEF Next

\* Documents are sound and files explain their verdicts, wherever calls,
\* scans, copies and stops meet.
THEOREM ProtocolInvariant == Spec => []IInv
BY InitIInv, NextIInv, PTL DEF Spec

-----------------------------------------------------------------------------

\* Hard evidence stays an alert whatever the models answer, over every tagging,
\* rewriting and copying of the file.
THEOREM HardStaysAlert == Spec => []HardIsAlert
<1>1. IInv => HardIsAlert
  BY DEF IInv, FileInv, Sound, Remediates, HardIsAlert
<1>2. QED
  BY <1>1, ProtocolInvariant, PTL

\* A protocol.json that would be served from disk is of the findings beside it
\* or was late when it was written.
THEOREM CacheIsTrue == Spec => []CacheTrue
<1>1. IInv => CacheTrue
  BY DEF IInv, FreshInv, Explains, Fresh, CacheTrue
<1>2. QED
  BY <1>1, ProtocolInvariant, PTL

-----------------------------------------------------------------------------
(* What the modules of a scan raise reaches its verdict                    *)

\* A verdict on file is that of the evidence beside it, once the scan is done.
JudgedInv ==
  /\ DOMAIN stage = Scan /\ DOMAIN found = Scan
  /\ DOMAIN verdict = Scan /\ DOMAIN evid = Scan
  /\ \A s \in Scan :
       /\ Readable(evid[s])
       /\ stage[s] \in {"writing", "done"} => found[s] = Severities(Findings(evid[s]))
       /\ stage[s] = "done" => verdict[s] = ComputeVerdict(found[s])

\* A line of findings.jsonl, with those that the two sensors write.
SensorLine == {Finding(sev, id) : sev \in Severity, id \in {"HOST-FALCO", "HOST-SURICATA"}}
Line == Row \union SensorLine

LEMMA SeveritiesOfBoth ==
  ASSUME NEW F \in Seq(Line), NEW G \in Seq(Line)
  PROVE  /\ F \o G \in Seq(Line)
         /\ Severities(F) \subseteq Severities(F \o G)
         /\ Severities(G) \subseteq Severities(F \o G)
<1>1. /\ F \o G \in Seq(Line) /\ DOMAIN (F \o G) = 1 .. (Len(F) + Len(G))
      /\ DOMAIN F = 1 .. Len(F) /\ DOMAIN G = 1 .. Len(G)
      /\ Len(F) \in Nat /\ Len(G) \in Nat
  OBVIOUS
<1>2. \A i \in 1 .. Len(F) : i \in DOMAIN (F \o G) /\ (F \o G)[i] = F[i]
  BY <1>1
<1>3. \A i \in 1 .. Len(G) : Len(F) + i \in DOMAIN (F \o G) /\ (F \o G)[Len(F) + i] = G[i]
  BY <1>1
<1>4. Severities(F) \subseteq Severities(F \o G)
  BY <1>1, <1>2 DEF Severities
<1>5. Severities(G) \subseteq Severities(F \o G)
  BY <1>1, <1>3 DEF Severities
<1> QED  BY <1>1, <1>4, <1>5

LEMMA SensorRows ==
  /\ \A F, rows : Falco(F, rows) \in Seq(Line)
  /\ \A F : \A rows \in {"none", "signal", "decoder", "flow"} : Suricata(F, rows) \in Seq(Line)
<1>1. \A sev \in Severity : /\ <<Finding(sev, "HOST-FALCO")>> \in Seq(Line)
                            /\ <<Finding(sev, "HOST-SURICATA")>> \in Seq(Line)
  <2>1. ASSUME NEW r \in Line PROVE <<r>> \in Seq(Line)  OBVIOUS
  <2>2. \A sev \in Severity : /\ Finding(sev, "HOST-FALCO") \in Line
                              /\ Finding(sev, "HOST-SURICATA") \in Line
    BY DEF Line, SensorLine
  <2> QED  BY <2>1, <2>2
<1>2. "ALERT" \in Severity /\ "WARN" \in Severity /\ "INFO" \in Severity
  BY DEF Severity
<1>3. <<>> \in Seq(Line)  OBVIOUS
<1>4. ASSUME NEW F, NEW rows PROVE Falco(F, rows) \in Seq(Line)
  <2> DEFINE sev == IF SecondDomain(F) THEN "ALERT" ELSE "WARN"
  <2>1. sev \in Severity  BY <1>2
  <2>2. <<Finding(sev, "HOST-FALCO")>> \in Seq(Line)  BY <1>1, <2>1
  <2> HIDE DEF sev
  <2>3. Falco(F, rows) = IF rows THEN <<Finding(sev, "HOST-FALCO")>> ELSE <<>>
    BY DEF Falco, sev
  <2> QED  BY <1>3, <2>2, <2>3
<1>5. ASSUME NEW F, NEW rows \in {"none", "signal", "decoder", "flow"}
      PROVE  Suricata(F, rows) \in Seq(Line)
  <2>1. \A sev \in Severity : <<Finding(sev, "HOST-SURICATA")>> \in Seq(Line)
    BY <1>1
  <2>2. Suricata(F, "none") \in Seq(Line)  BY <1>3 DEF Suricata
  <2>3. Suricata(F, "signal") \in Seq(Line)
    <3>1. CASE SecondDomain(F)  BY <1>2, <2>1, <3>1 DEF Suricata
    <3>2. CASE ~SecondDomain(F)  BY <1>2, <2>1, <3>2 DEF Suricata
    <3> QED  BY <3>1, <3>2
  <2>4. Suricata(F, "decoder") \in Seq(Line)  BY <1>2, <2>1 DEF Suricata
  <2>5. Suricata(F, "flow") \in Seq(Line)
    <3> DEFINE both == \/ RaisedHighest(F, {"PCAP-EXTRA", "PROC-TMPNET"}
                            \union (NetIds \ {"NET-UFW-NOISE", "NET-UFW-SCAN", "NET-DNS"}))
                       \/ RaisedHighest(F, {"HOST-FALCO"})
    <3>1. CASE both  BY <1>2, <2>1, <3>1 DEF Suricata
    <3>2. CASE ~both  BY <1>2, <2>1, <3>2 DEF Suricata
    <3> QED  BY <3>1, <3>2
  <2> QED  BY <2>2, <2>3, <2>4, <2>5
<1> QED  BY <1>4, <1>5

\* What the other modules found, and what Falco adds, is in the findings.
LEMMA FindingsHold ==
  ASSUME NEW e, Readable(e)
  PROVE  /\ Severities(e.base) \subseteq Severities(Findings(e))
         /\ Severities(Falco(e.base, e.falco)) \subseteq Severities(Findings(e))
<1> DEFINE A == e.base
           B == Falco(e.base, e.falco)
           C == Suricata(A \o B, e.suricata)
<1>1. A \in Seq(Line) /\ B \in Seq(Line) /\ C \in Seq(Line)
  <2>1. A \in Seq(Row) /\ Row \subseteq Line  BY DEF Readable, Line
  <2>2. A \in Seq(Line)  BY <2>1
  <2> QED  BY <2>2, SensorRows DEF Readable
<1>2. Findings(e) = (A \o B) \o C  BY DEF Findings
<1> HIDE DEF A, B, C
<1>3. /\ A \o B \in Seq(Line) /\ Severities(A) \subseteq Severities(A \o B)
      /\ Severities(B) \subseteq Severities(A \o B)
  BY <1>1, SeveritiesOfBoth
<1>4. Severities(A \o B) \subseteq Severities((A \o B) \o C)
  BY <1>1, <1>3, SeveritiesOfBoth
<1> QED  BY <1>2, <1>3, <1>4 DEF A, B

Seconds == FimIds \union (NetIds \ {"NET-UFW-NOISE", "NET-UFW-SCAN", "NET-DNS"})

\* A second domain makes Falco's finding an alert, unless the module that
\* raised it crashed, which makes the verdict an error.
LEMMA SecondIsWorst ==
  ASSUME NEW e, Readable(e), e.falco,
         NEW id \in Seconds, Has(e.base, id, {"WARN", "ALERT"})
  PROVE  ComputeVerdict(Severities(Findings(e))) \in {"ALERT", "ERROR"}
<1>1. CASE Has(e.base, id, {"ERROR"})
  <2>1. "ERROR" \in Severities(e.base)  BY <1>1 DEF Has, Severities
  <2> QED  BY <2>1, FindingsHold, Worst
<1>2. CASE ~Has(e.base, id, {"ERROR"})
  <2>1. SecondDomain(e.base)
    <3>1. id \in FimIds \union {"PCAP-EXTRA", "PROC-TMPNET"}
                   \union (NetIds \ {"NET-UFW-NOISE", "NET-UFW-SCAN", "NET-DNS"})
      BY DEF Seconds
    <3> QED  BY <1>2, <3>1 DEF SecondDomain, RaisedHighest
  <2>2. Falco(e.base, e.falco) = <<Finding("ALERT", "HOST-FALCO")>>
    BY <2>1 DEF Falco
  <2>3. "ALERT" \in Severities(<<Finding("ALERT", "HOST-FALCO")>>)
    BY DEF Severities, Finding
  <2> QED  BY <2>2, <2>3, FindingsHold, Worst
<1> QED  BY <1>1, <1>2

LEMMA BlankReadable == Readable(Blank)
BY DEF Readable, Blank

LEMMA InitJudged == Init => JudgedInv
<1> SUFFICES ASSUME Init PROVE JudgedInv  OBVIOUS
<1>1. CASE scene.old = NoDoc
  <2>1. /\ stage = [s \in Scan |-> "none"] /\ found = [s \in Scan |-> {}]
        /\ verdict = [s \in Scan |-> "none"] /\ evid = [s \in Scan |-> Blank]
    BY <1>1 DEF Init, ScanInit
  <2> QED  BY <2>1, BlankReadable DEF JudgedInv
<1>2. CASE scene.old # NoDoc
  <2>1. PICK e \in scene.evidence :
          /\ stage = [s \in Scan |-> IF s = 1 THEN "done" ELSE "none"]
          /\ found = [s \in Scan |-> IF s = 1 THEN Severities(Findings(e)) ELSE {}]
          /\ verdict = [s \in Scan |-> IF s = 1 THEN ComputeVerdict(Severities(Findings(e)))
                                                ELSE "none"]
          /\ evid = [s \in Scan |-> IF s = 1 THEN e ELSE Blank]
    BY <1>2 DEF Init
  <2>2. Readable(e)  BY SceneAssumption DEF Init
  <2>3. ASSUME NEW s \in Scan
        PROVE  /\ Readable(evid[s])
               /\ stage[s] \in {"writing", "done"} => found[s] = Severities(Findings(evid[s]))
               /\ stage[s] = "done" => verdict[s] = ComputeVerdict(found[s])
    <3>1. CASE s = 1
      <4>1. evid[s] = e /\ found[s] = Severities(Findings(e))
            /\ verdict[s] = ComputeVerdict(Severities(Findings(e)))
        BY <2>1, <3>1
      <4> QED  BY <4>1, <2>2
    <3>2. CASE s # 1
      <4>1. evid[s] = Blank /\ stage[s] = "none"  BY <2>1, <3>2
      <4> QED  BY <4>1, BlankReadable
    <3> QED  BY <3>1, <3>2
  <2>4. /\ DOMAIN stage = Scan /\ DOMAIN found = Scan
        /\ DOMAIN verdict = Scan /\ DOMAIN evid = Scan
    BY <2>1
  <2> QED  BY <2>3, <2>4 DEF JudgedInv
<1> QED  BY <1>1, <1>2

LEMMA ScanStepJudged ==
  ASSUME scene \in Scenes, JudgedInv, ScanStep PROVE JudgedInv'
<1> USE DEF JudgedInv
<1>1. PICK s \in 1 .. scene.scans :
        \/ /\ BeginLive(s) \/ WriteMeta(s) \/ Cut(s) \/ Strip(s)
           /\ UNCHANGED evid
        \/ \E e \in scene.evidence :
             Judge(s, Severities(Findings(e))) /\ evid' = [evid EXCEPT ![s] = e]
        \/ FillVerdict(s) /\ UNCHANGED evid
  BY DEF ScanStep, protoVars
<1>2. s \in Scan
  BY SceneAssumption, ScanAssumption DEF Scan
<1>3. CASE (BeginLive(s) \/ WriteMeta(s) \/ Cut(s) \/ Strip(s)) /\ UNCHANGED evid
  <2>1. PICK to \in {"collect", "judge", "cut", "stripped"} : stage' = [stage EXCEPT ![s] = to]
    BY <1>3 DEF BeginLive, WriteMeta, Cut, Strip
  <2>2. UNCHANGED found  BY <1>3 DEF BeginLive, WriteMeta, Cut, Strip
  <2>3. DOMAIN verdict' = Scan /\ \A t \in Scan : t # s => verdict'[t] = verdict[t]
    BY <1>3 DEF BeginLive, WriteMeta, Cut, Strip
  <2> QED  BY <1>2, <1>3, <2>1, <2>2, <2>3
<1>4. ASSUME NEW e \in scene.evidence, Judge(s, Severities(Findings(e))),
             evid' = [evid EXCEPT ![s] = e]
      PROVE  JudgedInv'
  <2> DEFINE F == Severities(Findings(e))
  <2>1. /\ stage' = [stage EXCEPT ![s] = "writing"] /\ found' = [found EXCEPT ![s] = F]
        /\ verdict' = [verdict EXCEPT ![s] = "empty"]
    BY <1>4 DEF Judge
  <2>2. Readable(e)  BY SceneAssumption
  <2> HIDE DEF F
  <2>3. evid'[s] = e /\ found'[s] = F /\ stage'[s] = "writing"
    BY <1>2, <1>4, <2>1
  <2>4. \A t \in Scan : t # s =>
          evid'[t] = evid[t] /\ found'[t] = found[t] /\ stage'[t] = stage[t] /\ verdict'[t] = verdict[t]
    BY <1>2, <1>4, <2>1
  <2>5. ASSUME NEW t \in Scan
        PROVE  /\ Readable(evid'[t])
               /\ stage'[t] \in {"writing", "done"} => found'[t] = Severities(Findings(evid'[t]))
               /\ stage'[t] = "done" => verdict'[t] = ComputeVerdict(found'[t])
    <3>1. CASE t = s  BY <2>2, <2>3, <3>1 DEF F
    <3>2. CASE t # s  BY <2>4, <3>2
    <3> QED  BY <3>1, <3>2
  <2>6. /\ DOMAIN stage' = Scan /\ DOMAIN found' = Scan
        /\ DOMAIN verdict' = Scan /\ DOMAIN evid' = Scan
    BY <1>4, <2>1
  <2> QED  BY <2>5, <2>6
<1>5. CASE FillVerdict(s) /\ UNCHANGED evid
  <2>1. /\ stage[s] = "writing" /\ stage' = [stage EXCEPT ![s] = "done"] /\ found' = found
        /\ verdict' = [verdict EXCEPT ![s] = ComputeVerdict(found[s])]
    BY <1>5 DEF FillVerdict
  <2> QED  BY <1>2, <1>5, <2>1
<1> QED  BY <1>1, <1>3, <1>4, <1>5

\* The copy begins with the other's evidence and has not been judged.
LEMMA CopyJudged == ASSUME scene \in Scenes, JudgedInv, Copy PROVE JudgedInv'
<1> USE DEF JudgedInv
<1>1. PICK s \in 1 .. scene.scans, t \in 1 .. scene.scans :
        BeginReplay(s, t) /\ evid' = [evid EXCEPT ![s] = evid[t]]
  BY DEF Copy
<1>2. s \in Scan /\ t \in Scan
  BY SceneAssumption, ScanAssumption DEF Scan
<1>3. /\ stage' = [stage EXCEPT ![s] = "copied"] /\ found' = found
      /\ verdict' = [verdict EXCEPT ![s] = verdict[t]]
  BY <1>1 DEF BeginReplay
<1> QED  BY <1>1, <1>2, <1>3

LEMMA StepJudged ==
  ASSUME IInv, JudgedInv, [Next]_vars PROVE JudgedInv'
<1>0. scene \in Scenes  BY DEF IInv, Shape
<1>1. CASE ScanStep  BY <1>0, <1>1, ScanStepJudged
<1>2. CASE Copy  BY <1>0, <1>2, CopyJudged
<1>3. CASE \E c \in DOMAIN scene.kind :
             \/ Arrive(c) \/ ReadCache(c) \/ Stat(c) \/ Digest(c) \/ Port(c)
             \/ WriteTmp(c) \/ Replace(c) \/ Answer(c)
             \/ EnvArrive(c) \/ Tag(c) \/ Reread(c)
  <2>1. UNCHANGED <<stage, found, verdict, evid>>
    BY <1>3 DEF Arrive, ReadCache, Stat, Digest, Port, WriteTmp, Replace, Answer, EnvArrive,
       Tag, Reread, scanVars, protoVars
  <2> QED  BY <2>1 DEF JudgedInv
<1>4. CASE Isolated \/ Stop \/ UNCHANGED vars
  <2>1. UNCHANGED <<stage, found, verdict, evid>>
    BY <1>4 DEF Isolated, Stop, vars, scanVars, protoVars
  <2> QED  BY <2>1 DEF JudgedInv
<1> QED  BY <1>1, <1>2, <1>3, <1>4 DEF Next

\* A second domain at WARN or above makes an alert of what Falco saw, for any
\* findings in any order and any scan, copied or not: only a module that
\* crashed, and made the verdict an error, stands above it.
THEOREM SecondDomainIsHeard == Spec => []SecondDomainAlerts
<1>1. Init => IInv /\ JudgedInv  BY InitIInv, InitJudged
<1>2. IInv /\ JudgedInv /\ [Next]_vars => (IInv /\ JudgedInv)'
  BY NextIInv, StepJudged
<1>3. JudgedInv => SecondDomainAlerts
  <2> SUFFICES ASSUME JudgedInv, NEW s \in Scan, stage[s] = "done", evid[s].falco,
                      NEW id \in Seconds, Has(evid[s].base, id, {"WARN", "ALERT"})
               PROVE  verdict[s] \in {"ALERT", "ERROR"}
    BY DEF SecondDomainAlerts, Seconds
  <2>1. verdict[s] = ComputeVerdict(Severities(Findings(evid[s]))) /\ Readable(evid[s])
    BY DEF JudgedInv
  <2> QED  BY <2>1, SecondIsWorst
<1> QED  BY <1>1, <1>2, <1>3, PTL DEF Spec

-----------------------------------------------------------------------------
(* Isolation at home                                                       *)

\* How a scan's directory comes to have a verdict, a copied one apart.
LifeInv ==
  /\ DOMAIN stage = Scan /\ DOMAIN replay = Scan /\ DOMAIN counted = Scan
  /\ \A s \in Scan :
       /\ stage[s] = "none" => verdict[s] = "none"
       /\ stage[s] \in {"collect", "stripped", "judge"} => verdict[s] = "none"
       /\ stage[s] \in {"writing", "done"} => verdict[s] # "none"
       /\ stage[s] \in {"copied", "stripped"} => replay[s]
       /\ stage[s] \in {"judge", "writing", "done"} /\ counted[s] => ~replay[s]
       /\ ~replay[s] /\ verdict[s] = "none" => file[s] = NoDoc
       /\ stage[s] # "none" => \A t \in Scan : t < s => stage[t] # "none"

\* Which calls are where; a call has a directory that is there.
PlaceInv ==
  \A c \in Call : pc[c] \notin {"start", "done"} =>
    /\ c \in DOMAIN scene.kind
    /\ scene.kind[c] = "env" => pc[c] \in {"tag", "reread", "tmp", "replace"}
    /\ scene.kind[c] # "env" => pc[c] \notin {"tag", "reread"}
    /\ stage[on[c]] # "none" /\ (replay[on[c]] \/ verdict[on[c]] # "none")

\* A protocol is stamped with its own directory or with one copied into it.
StampInv ==
  /\ DOMAIN stamped = Scan
  /\ \A s \in Scan :
       /\ stamped[s] \in 1 .. s
       /\ file[s] # NoDoc => file[s].stamp \in 1 .. s
       /\ tmp[s] # NoDoc => tmp[s].stamp \in 1 .. s
StampHeld ==
  \A c \in Call :
    /\ pc[c] = "stat" => doc[c] # NoDoc
    /\ pc[c] \in {"stat", "port", "tmp", "replace", "rows"} => doc[c].stamp \in 1 .. on[c]

\* Neither a done scan after it nor a copy's end has put a directory aside.
Hot(s) ==
  /\ counted[s] /\ verdict[s] # "none"
  /\ \A t \in Scan : t > s => ~(counted[t] /\ stage[t] = "done")

\* A protocol that says home is right about it; while it is a cache, only if it
\* can be served.
Current(d) == d # NoDoc /\ d.env = "home" => overlay = "home"
Serves(s) == file[s] # NoDoc /\ file[s].stamp = s => Current(file[s])

Asks(c) == c \in InFlight /\ scene.kind[c] # "env"
Tagged(c) == pc[c] \in {"reread", "tmp", "replace"} /\ scene.kind[c] = "env"

\* A call that has tagged the network has the server for itself until the
\* file says so too.
AloneInv ==
  \A e \in Call : Tagged(e) =>
    /\ \A c \in InFlight : c = e \/ (scene.kind[c] = "env" /\ pc[c] = "tag")
    /\ pc[e] = "replace" => tmp[on[e]] # NoDoc
HeldInv ==
  \A c \in Call :
    /\ pc[c] \in {"port", "tmp", "replace", "rows"} => Current(doc[c])
    /\ pc[c] = "stat" /\ doc[c].stamp = on[c] => Current(doc[c])
    /\ pc[c] = "replace" => Current(tmp[on[c]])
CacheInv ==
  \A s \in Scan :
    Hot(s) \/ (\E c \in Call : Asks(c) /\ on[c] = s) =>
      Serves(s) \/ \E e \in Call : Tagged(e) /\ on[e] = s
HomeInv == ~crossed => AloneInv /\ HeldInv /\ CacheInv

CallAct(c) ==
  \/ Arrive(c) \/ ReadCache(c) \/ Stat(c) \/ Digest(c) \/ Port(c)
  \/ WriteTmp(c) \/ Replace(c) \/ Answer(c)
  \/ EnvArrive(c) \/ Tag(c) \/ Reread(c)

LEMMA HomeOfOverlay == ASSUME NEW e, NEW o, EnvOf(e, o) = "home" PROVE o = "home"
BY DEF EnvOf

\* What a scan's step does to the directories.
LEMMA ScanEffects ==
  ASSUME scene \in Scenes, ScanStep
  PROVE  /\ \E s \in Scan :
              \/ BeginLive(s) \/ WriteMeta(s) \/ Cut(s) \/ Strip(s) \/ FillVerdict(s)
              \/ \E F : Judge(s, F) /\ stamped' = [stamped EXCEPT ![s] = s]
         /\ UNCHANGED <<file, tmp, pc, on, doc, shown, scene, overlay, rollback, crossed>>
         /\ stamped' = stamped \/ \E s \in Scan : stamped' = [stamped EXCEPT ![s] = s]
<1>1. PICK s \in 1 .. scene.scans :
        \/ /\ BeginLive(s) \/ WriteMeta(s) \/ Cut(s) \/ Strip(s)
           /\ UNCHANGED <<docVars, callVars, protoVars>>
        \/ \E e \in scene.evidence :
             /\ Judge(s, Severities(Findings(e))) /\ stamped' = [stamped EXCEPT ![s] = s]
             /\ UNCHANGED <<file, tmp, callVars, scene, overlay, rollback, crossed>>
        \/ /\ FillVerdict(s)
           /\ UNCHANGED <<file, tmp, callVars, protoVars>>
  BY DEF ScanStep
<1>2. s \in Scan  BY SceneAssumption, ScanAssumption DEF Scan
<1> QED  BY <1>1, <1>2 DEF docVars, callVars, protoVars

LEMMA CopyEffects ==
  ASSUME scene \in Scenes, Copy
  PROVE  \E s, t \in Scan :
           /\ BeginReplay(s, t)
           /\ stamped' = [stamped EXCEPT ![s] = stamped[t]]
           /\ file' = [file EXCEPT ![s] = file[t]] /\ tmp' = [tmp EXCEPT ![s] = tmp[t]]
           /\ UNCHANGED <<pc, on, doc, shown, scene, overlay, rollback, crossed>>
<1>1. PICK s \in 1 .. scene.scans, t \in 1 .. scene.scans :
           /\ BeginReplay(s, t)
           /\ stamped' = [stamped EXCEPT ![s] = stamped[t]]
           /\ file' = [file EXCEPT ![s] = file[t]] /\ tmp' = [tmp EXCEPT ![s] = tmp[t]]
           /\ UNCHANGED <<callVars, scene, overlay, rollback, crossed>>
  BY DEF Copy
<1>2. s \in Scan /\ t \in Scan  BY SceneAssumption, ScanAssumption DEF Scan
<1> QED  BY <1>1, <1>2 DEF callVars

\* What the steps of calls leave alone.
LEMMA CallEffects ==
  ASSUME IInv, NEW c \in DOMAIN scene.kind, CallAct(c)
  PROVE  /\ c \in Call /\ scene.kind[c] \in Kind
         /\ UNCHANGED <<stage, replay, counted, found, verdict, dsts, scene, evid, stamped, rollback>>
         /\ DOMAIN pc' = Call /\ DOMAIN on' = Call /\ DOMAIN doc' = Call
         /\ pc[c] \notin {"start", "done"} => on[c] \in Scan
         /\ \A d \in Call : d # c => pc'[d] = pc[d] /\ on'[d] = on[d] /\ doc'[d] = doc[d]
         /\ crossed => crossed'
<1> USE DEF IInv, Shape
<1>1. c \in Call /\ scene.kind[c] \in Kind  BY SceneAssumption
<1>2. UNCHANGED <<scanVars, scene, evid, stamped, rollback>>
  BY DEF CallAct, Arrive, ReadCache, Stat, Digest, Port, WriteTmp, Replace, Answer, EnvArrive, Tag, Reread,
         protoVars
<1>7. crossed => crossed'
  <2>1. CASE Arrive(c) \/ Tag(c)  BY <2>1 DEF Arrive, Tag
  <2>2. CASE ~(Arrive(c) \/ Tag(c))
    <3>1. crossed' = crossed
      BY <2>2 DEF CallAct, ReadCache, Stat, Digest, Port, WriteTmp, Replace, Answer, EnvArrive, Reread, protoVars
    <3> QED  BY <3>1
  <2> QED  BY <2>1, <2>2
<1>3. pc[c] \notin {"start", "done"} => on[c] \in Scan  BY <1>1 DEF CallInv
<1>4. \E to : pc' = [pc EXCEPT ![c] = to]
  BY DEF CallAct, Arrive, ReadCache, Stat, Digest, Port, WriteTmp, Replace, Answer, EnvArrive, Tag, Reread, Go
<1>5. on' = on \/ on' = [on EXCEPT ![c] = LatestScanDir]
  BY DEF CallAct, Arrive, ReadCache, Stat, Digest, Port, WriteTmp, Replace, Answer, EnvArrive, Tag, Reread
<1>6. doc' = doc \/ \E d : doc' = [doc EXCEPT ![c] = d]
  BY DEF CallAct, Arrive, ReadCache, Stat, Digest, Port, WriteTmp, Replace, Answer, EnvArrive, Tag, Reread
<1> QED  BY <1>1, <1>2, <1>3, <1>4, <1>5, <1>6, <1>7 DEF scanVars

LEMMA NextParts ==
  ASSUME IInv, [Next]_vars
  PROVE  \/ ScanStep \/ Copy \/ Stop \/ Isolated \/ UNCHANGED vars
         \/ \E c \in DOMAIN scene.kind : CallAct(c)
BY DEF Next, CallAct

LEMMA LifeStep ==
  ASSUME IInv, LifeInv, PlaceInv, [Next]_vars PROVE LifeInv'
<1> USE DEF IInv, Shape
<1>0. Scan \subseteq Nat  BY ScanAssumption DEF Scan
<1>1. CASE ScanStep
  <2>1. UNCHANGED file  BY <1>1, ScanEffects
  <2>2. PICK s \in Scan : \/ BeginLive(s) \/ WriteMeta(s) \/ Cut(s) \/ Strip(s) \/ FillVerdict(s)
                          \/ \E F : Judge(s, F)
    BY <1>1, ScanEffects
  <2>3. CASE BeginLive(s)
    BY <1>0, <2>1, <2>3 DEF BeginLive, IsNext, LifeInv
  <2>4. CASE WriteMeta(s)
    <3>1. /\ stage[s] \in {"collect", "stripped"} /\ stage' = [stage EXCEPT ![s] = "judge"]
          /\ counted' = [counted EXCEPT ![s] = ~replay[s]] /\ UNCHANGED <<replay, verdict>>
      BY <2>4 DEF WriteMeta
    <3> QED  BY <1>0, <2>1, <3>1 DEF LifeInv
  <2>5. CASE Cut(s)
    BY <2>1, <2>5 DEF Cut, Active, LifeInv
  <2>6. CASE Strip(s)
    BY <2>1, <2>6 DEF Strip, LifeInv
  <2>7. CASE FillVerdict(s)
    <3>1. "none" \notin Verdict /\ ComputeVerdict(found[s]) \in Verdict  BY VerdictIsOne DEF Verdict
    <3> QED  BY <2>1, <2>7, <3>1 DEF FillVerdict, LifeInv
  <2>8. ASSUME NEW F, Judge(s, F) PROVE LifeInv'
    BY <2>1, <2>8 DEF Judge, LifeInv
  <2> QED  BY <2>2, <2>3, <2>4, <2>5, <2>6, <2>7, <2>8
<1>2. CASE Copy
  <2>1. PICK s \in Scan, t \in Scan : BeginReplay(s, t) /\ file' = [file EXCEPT ![s] = file[t]]
    BY <1>2, CopyEffects
  <2> QED  BY <1>0, <2>1 DEF BeginReplay, IsNext, LifeInv
<1>3. ASSUME NEW c \in DOMAIN scene.kind, CallAct(c) PROVE LifeInv'
  <2>1. UNCHANGED <<stage, replay, counted, verdict>> /\ c \in Call  BY <1>3, CallEffects
  <2>2. CASE Replace(c)
    <3>1. on[c] \in Scan /\ (replay[on[c]] \/ verdict[on[c]] # "none")
      BY <2>1, <2>2 DEF Replace, CallInv, PlaceInv
    <3>2. file' = file \/ \E d : file' = [file EXCEPT ![on[c]] = d]
      BY <2>2 DEF Replace, docVars
    <3> QED  BY <2>1, <3>1, <3>2 DEF LifeInv
  <2>3. CASE ~Replace(c)
    <3>1. file' = file
      BY <1>3, <2>3 DEF CallAct, Arrive, ReadCache, Stat, Digest, Port, WriteTmp, Answer, EnvArrive, Tag, Reread,
             docVars
    <3> QED  BY <2>1, <3>1 DEF LifeInv
  <2> QED  BY <2>2, <2>3
<1>4. CASE Stop \/ Isolated \/ UNCHANGED vars
  <2>1. UNCHANGED <<stage, replay, counted, verdict, file>>
    BY <1>4 DEF Stop, Isolated, vars, scanVars, docVars
  <2> QED  BY <2>1 DEF LifeInv
<1> QED  BY <1>1, <1>2, <1>3, <1>4, NextParts

\* A directory that a call took stays one that has had a verdict.
LEMMA DirectoriesStay ==
  ASSUME IInv, LifeInv, [Next]_vars, NEW s \in Scan, stage[s] # "none"
  PROVE  /\ stage'[s] # "none"
         /\ replay[s] \/ verdict[s] # "none" => replay'[s] \/ verdict'[s] # "none"
<1> USE DEF IInv, Shape
<1>1. CASE ScanStep
  <2>1. PICK z \in Scan : \/ BeginLive(z) \/ WriteMeta(z) \/ Cut(z) \/ Strip(z) \/ FillVerdict(z)
                          \/ \E F : Judge(z, F)
    BY <1>1, ScanEffects
  <2>2. "none" \notin Verdict /\ ComputeVerdict(found[z]) \in Verdict  BY VerdictIsOne DEF Verdict
  <2>3. CASE Strip(z)  BY <2>3 DEF Strip, LifeInv
  <2>4. CASE ~Strip(z)
    BY <2>1, <2>2, <2>4 DEF BeginLive, IsNext, WriteMeta, Cut, FillVerdict, Judge, LifeInv
  <2> QED  BY <2>3, <2>4
<1>2. CASE Copy
  <2>1. PICK z \in Scan, t \in Scan : BeginReplay(z, t)  BY <1>2, CopyEffects
  <2> QED  BY <2>1 DEF BeginReplay, IsNext, LifeInv
<1>3. CASE Stop \/ Isolated \/ UNCHANGED vars \/ \E c \in DOMAIN scene.kind : CallAct(c)
  <2>1. UNCHANGED <<stage, replay, verdict>>
    BY <1>3, CallEffects DEF Stop, Isolated, vars, scanVars
  <2> QED  BY <2>1
<1> QED  BY <1>1, <1>2, <1>3, NextParts

LEMMA LatestStands ==
  ASSUME LifeInv, LatestScanDir # 0
  PROVE  /\ LatestScanDir \in Scan /\ stage[LatestScanDir] # "none" /\ verdict[LatestScanDir] # "none"
         /\ Hot(LatestScanDir)
<1>1. /\ LatestScanDir \in Scan /\ counted[LatestScanDir] /\ verdict[LatestScanDir] # "none"
      /\ \A s \in Scan : counted[s] /\ verdict[s] # "none" => s <= LatestScanDir
  BY LatestIsLive
<1>2. Scan \subseteq Nat  BY ScanAssumption DEF Scan
<1>3. PICK l \in Scan : l = LatestScanDir  BY <1>1
<1>4. ASSUME NEW t \in Scan, t > l, counted[t], stage[t] = "done" PROVE FALSE
  <2>1. verdict[t] # "none"  BY <1>4 DEF LifeInv
  <2>2. t <= l  BY <1>1, <1>3, <1>4, <2>1
  <2> QED  BY <1>2, <1>4, <2>2
<1> QED  BY <1>1, <1>3, <1>4 DEF Hot, LifeInv

LEMMA PlaceStep ==
  ASSUME IInv, LifeInv, PlaceInv, [Next]_vars PROVE PlaceInv'
<1> USE DEF IInv, Shape
<1>1. CASE ScanStep \/ Copy \/ Stop \/ Isolated \/ UNCHANGED vars
  <2>1. UNCHANGED <<on, scene>> /\ \A c \in Call : pc'[c] = pc[c] \/ pc'[c] = "done"
    <3>1. CASE ScanStep  BY <3>1, ScanEffects
    <3>2. CASE Copy  BY <3>2, CopyEffects
    <3>3. CASE Stop \/ Isolated \/ UNCHANGED vars
      BY <3>3 DEF Stop, Isolated, vars, callVars, protoVars
    <3> QED  BY <1>1, <3>1, <3>2, <3>3
  <2>2. ASSUME NEW c \in Call, pc'[c] \notin {"start", "done"}
        PROVE  stage'[on[c]] # "none" /\ (replay'[on[c]] \/ verdict'[on[c]] # "none") /\ pc'[c] = pc[c]
    <3>1. pc'[c] = pc[c]  BY <2>1, <2>2
    <3>2. on[c] \in Scan /\ stage[on[c]] # "none" /\ (replay[on[c]] \/ verdict[on[c]] # "none")
      BY <2>2, <3>1 DEF CallInv, PlaceInv
    <3> QED  BY <3>1, <3>2, DirectoriesStay
  <2> QED  BY <2>1, <2>2 DEF PlaceInv
<1>2. ASSUME NEW c \in DOMAIN scene.kind, CallAct(c) PROVE PlaceInv'
  <2>1. /\ c \in Call /\ scene.kind[c] \in Kind /\ scene' = scene
        /\ UNCHANGED <<stage, replay, verdict>>
        /\ \A d \in Call : d # c => pc'[d] = pc[d] /\ on'[d] = on[d]
        /\ DOMAIN pc' = Call /\ DOMAIN on' = Call
    BY <1>2, CallEffects
  <2>2. CASE Arrive(c) \/ EnvArrive(c)
    <3>1. /\ LatestScanDir # 0 /\ on' = [on EXCEPT ![c] = LatestScanDir]
      BY <2>2 DEF Arrive, EnvArrive
    <3>2. CASE Arrive(c)
      <4>1. scene.kind[c] \in {"get", "port", "reap"}  BY <2>1, <3>2 DEF Arrive, Kind
      <4>2. pc'[c] \in {"cache", "digest", "done"} /\ scene.kind[c] # "env"
        BY <2>1, <3>2, <4>1 DEF Arrive, Go
      <4> QED  BY <2>1, <3>1, <4>2, LatestStands DEF PlaceInv
    <3>3. CASE EnvArrive(c)
      <4>1. pc'[c] \in {"tag", "done"} /\ scene.kind[c] = "env"  BY <2>1, <3>3 DEF EnvArrive, Go
      <4> QED  BY <2>1, <3>1, <4>1, LatestStands DEF PlaceInv
    <3> QED  BY <2>2, <3>2, <3>3
  <2>3. CASE ~(Arrive(c) \/ EnvArrive(c))
    <3>1. on' = on /\ pc[c] \notin {"start", "done"}
      BY <1>2, <2>3 DEF CallAct, ReadCache, Stat, Digest, Port, WriteTmp, Replace, Answer, Tag, Reread
    <3>2. \/ pc'[c] = "done"
          \/ pc[c] \in {"cache", "stat", "digest", "port", "rows"} /\ pc'[c] \in {"stat", "digest", "port", "rows", "tmp"}
          \/ pc[c] \in {"tag", "reread"} /\ pc'[c] \in {"reread", "tmp"}
          \/ pc[c] = "tmp" /\ pc'[c] = "replace"
          \/ pc[c] = "replace" /\ pc'[c] = "rows" /\ scene.kind[c] \in {"get", "port"}
      BY <1>2, <2>1, <2>3 DEF CallAct, ReadCache, Stat, Digest, Port, WriteTmp, Replace, After, Answer, Tag, Reread, Go
    <3> QED  BY <2>1, <3>1, <3>2 DEF PlaceInv
  <2> QED  BY <2>2, <2>3
<1> QED  BY <1>1, <1>2, NextParts

\* Where a call's steps leave its document, and the files.
LEMMA DocEffects ==
  ASSUME IInv, NEW c \in DOMAIN scene.kind, CallAct(c)
  PROVE  LET s == on[c]
         IN \/ /\ Arrive(c) /\ pc'[c] \in {"cache", "digest", "done"} /\ UNCHANGED <<doc, file, tmp, overlay>>
            \/ /\ EnvArrive(c) /\ pc'[c] \in {"tag", "done"} /\ UNCHANGED <<doc, file, tmp, overlay>>
            \/ /\ pc[c] = "cache" /\ doc'[c] = file[s] /\ UNCHANGED <<on, file, tmp, overlay, crossed>>
               /\ pc'[c] = "digest" \/ (pc'[c] = "stat" /\ file[s] # NoDoc)
            \/ /\ pc[c] = "stat" /\ UNCHANGED <<on, file, tmp, overlay, crossed>>
               /\ \/ pc'[c] = "digest"
                  \/ /\ pc'[c] \in {"rows", "tmp"} /\ doc[c] # NoDoc /\ doc[c].stamp = s
                     /\ doc'[c].stamp = doc[c].stamp /\ doc'[c].env = doc[c].env
            \/ /\ pc[c] = "digest" /\ pc'[c] = "port" /\ UNCHANGED <<on, file, tmp, overlay, crossed>>
               /\ doc'[c].stamp \in {s, stamped[s]} /\ doc'[c].env = EnvOf(evid[s], overlay)
            \/ /\ pc[c] = "port" /\ pc'[c] = "tmp" /\ UNCHANGED <<on, file, tmp, overlay, crossed>>
               /\ doc'[c].stamp = doc[c].stamp /\ doc'[c].env = doc[c].env
            \/ /\ pc[c] = "tmp" /\ pc'[c] = "replace" /\ UNCHANGED <<on, file, overlay, crossed>>
               /\ doc'[c].stamp = doc[c].stamp /\ doc'[c].env = doc[c].env /\ doc'[c] # NoDoc
               /\ tmp' = [tmp EXCEPT ![s] = doc'[c]]
            \/ /\ pc[c] = "replace" /\ UNCHANGED <<on, doc, overlay, crossed>>
               /\ pc'[c] = IF scene.kind[c] \in {"get", "port"} THEN "rows" ELSE "done"
               /\ \/ tmp[s] = NoDoc /\ UNCHANGED <<file, tmp>>
                  \/ /\ tmp[s] # NoDoc /\ file' = [file EXCEPT ![s] = tmp[s]]
                     /\ tmp' = [tmp EXCEPT ![s] = NoDoc]
            \/ /\ pc[c] = "rows" /\ pc'[c] = "done" /\ UNCHANGED <<on, doc, file, tmp, overlay, crossed>>
            \/ /\ Tag(c) /\ pc'[c] = "reread" /\ UNCHANGED <<on, doc, file, tmp>>
            \/ /\ pc[c] = "reread" /\ UNCHANGED <<on, file, tmp, overlay, crossed>>
               /\ \/ pc'[c] = "done" /\ file[s] = NoDoc
                  \/ /\ pc'[c] = "tmp" /\ file[s] # NoDoc
                     /\ doc'[c].stamp = file[s].stamp /\ doc'[c].env = EnvOf(evid[s], overlay)
<1> USE DEF IInv, Shape
<1>0. c \in Call /\ scene.kind[c] \in Kind /\ (pc[c] \notin {"start", "done"} => on[c] \in Scan)
  BY CallEffects
<1>1. /\ \A s \in Scan : file[s] # NoDoc => DOMAIN file[s] = Fields
      /\ doc[c] # NoDoc => DOMAIN doc[c] = Fields
      /\ pc[c] \in {"port", "tmp"} => DOMAIN doc[c] = Fields
  BY <1>0 DEF FileInv, CallInv, Sound, IsDoc
<1>2. CASE Arrive(c)
  <2>1. scene.kind[c] \in {"get", "port", "reap"}  BY <1>0, <1>2 DEF Arrive, Kind
  <2> QED  BY <1>0, <1>2, <2>1 DEF Arrive, Go, docVars
<1>3. CASE EnvArrive(c)  BY <1>0, <1>3 DEF EnvArrive, Go, docVars, protoVars
<1>4. CASE ReadCache(c)  BY <1>0, <1>4 DEF ReadCache, Go, docVars, protoVars
<1>5. CASE Stat(c)
  <2>1. pc[c] = "stat" /\ UNCHANGED <<on, file, tmp, overlay, crossed>>
    BY <1>5 DEF Stat, docVars, protoVars
  <2>2. \/ pc'[c] = "digest"
        \/ pc'[c] = "rows" /\ doc' = doc /\ Fresh(on[c]) /\ doc[c].stamp = on[c]
        \/ /\ pc'[c] = "tmp" /\ doc' = [doc EXCEPT ![c] = Attached(on[c], doc[c])]
           /\ Fresh(on[c]) /\ doc[c].stamp = on[c]
    BY <1>0, <1>5 DEF Stat, Go
  <2>3. doc[c].stamp = on[c] => doc[c] # NoDoc
    <3>1. on[c] # 0  BY <1>0, <2>1, ScanAssumption DEF Scan
    <3> QED  BY <3>1 DEF NoDoc
  <2>4. doc[c] # NoDoc => Attached(on[c], doc[c]).stamp = doc[c].stamp /\ Attached(on[c], doc[c]).env = doc[c].env
    BY <1>1 DEF Attached, Fields
  <2> QED  BY <1>0, <2>1, <2>2, <2>3, <2>4
<1>6. CASE Digest(c)
  <2>1. pc[c] = "digest" /\ pc'[c] = "port" /\ UNCHANGED <<on, file, tmp, overlay, crossed>>
    BY <1>0, <1>6 DEF Digest, Go, docVars, protoVars
  <2>2. doc'[c].stamp \in {on[c], stamped[on[c]]} /\ doc'[c].env = EnvOf(evid[on[c]], overlay)
    BY <1>0, <1>6 DEF Digest
  <2> QED  BY <2>1, <2>2
<1>7. CASE Port(c)
  <2>1. pc[c] = "port" /\ pc'[c] = "tmp" /\ UNCHANGED <<on, file, tmp, overlay, crossed>>
    BY <1>0, <1>7 DEF Port, Go, docVars, protoVars
  <2>2. PICK v, m : doc' = [doc EXCEPT ![c] =
           [doc[c] EXCEPT !.class = v.class, !.dual = v.dual, !.playbook = v.playbook, !.src = v.src,
              !.mercury = IF v.class \in {"candidate", "alert_family"} THEN m ELSE "absent"]]
    <3>1. PICK a : \E m \in SecondOpinion(doc[c].basis, doc[c].env) :
            doc' = [doc EXCEPT ![c] =
              LET v == Veto(doc[c].basis, doc[c].env, a)
              IN [doc[c] EXCEPT !.class = v.class, !.dual = v.dual, !.playbook = v.playbook, !.src = v.src,
                    !.mercury = IF v.class \in {"candidate", "alert_family"} THEN m ELSE "absent"]]
      BY <1>7 DEF Port
    <3>2. PICK v : v = Veto(doc[c].basis, doc[c].env, a)  OBVIOUS
    <3> QED  BY <3>1, <3>2
  <2>3. doc'[c].stamp = doc[c].stamp /\ doc'[c].env = doc[c].env
    BY <1>0, <1>1, <2>1, <2>2 DEF Fields
  <2> QED  BY <2>1, <2>3
<1>8. CASE WriteTmp(c)
  <2>1. pc[c] = "tmp" /\ pc'[c] = "replace" /\ UNCHANGED <<on, file, overlay, crossed>>
    BY <1>0, <1>8 DEF WriteTmp, Go, protoVars
  <2>2. \E x : LET d == [doc[c] EXCEPT !.late = x]
               IN tmp' = [tmp EXCEPT ![on[c]] = d] /\ doc' = [doc EXCEPT ![c] = d]
    BY <1>8 DEF WriteTmp
  <2>3. /\ doc'[c].stamp = doc[c].stamp /\ doc'[c].env = doc[c].env /\ DOMAIN doc'[c] = Fields
        /\ tmp' = [tmp EXCEPT ![on[c]] = doc'[c]]
    BY <1>0, <1>1, <2>1, <2>2 DEF Fields
  <2>4. doc'[c] # NoDoc
    <3>1. "late" \in DOMAIN doc'[c] /\ "late" \notin DOMAIN NoDoc  BY <2>3 DEF Fields, NoDoc
    <3> QED  BY <3>1
  <2> QED  BY <2>1, <2>3, <2>4
<1>9. CASE Replace(c)
  <2>1. /\ pc[c] = "replace" /\ UNCHANGED <<on, doc, overlay, crossed>>
        /\ pc'[c] = IF scene.kind[c] \in {"get", "port"} THEN "rows" ELSE "done"
    BY <1>0, <1>9 DEF Replace, Go, After, protoVars
  <2>2. \/ tmp[on[c]] = NoDoc /\ UNCHANGED <<file, tmp>>
        \/ /\ tmp[on[c]] # NoDoc /\ file' = [file EXCEPT ![on[c]] = tmp[on[c]]]
           /\ tmp' = [tmp EXCEPT ![on[c]] = NoDoc]
    BY <1>9 DEF Replace, docVars
  <2> QED  BY <2>1, <2>2
<1>10. CASE Answer(c)  BY <1>0, <1>10 DEF Answer, Go, docVars, protoVars
<1>11. CASE Tag(c)  BY <1>0, <1>11 DEF Tag, Go, docVars, protoVars
<1>12. CASE Reread(c)
  <2>1. pc[c] = "reread" /\ UNCHANGED <<on, file, tmp, overlay, crossed>>
    BY <1>12 DEF Reread, docVars, protoVars
  <2>2. \/ pc'[c] = "done" /\ file[on[c]] = NoDoc
        \/ /\ pc'[c] = "tmp" /\ file[on[c]] # NoDoc
           /\ doc' = [doc EXCEPT ![c] = [file[on[c]] EXCEPT !.env = EnvOf(evid[on[c]], overlay)]]
    BY <1>0, <1>12 DEF Reread, Go
  <2> QED  BY <1>0, <1>1, <2>1, <2>2 DEF Fields
<1> QED  BY <1>2, <1>3, <1>4, <1>5, <1>6, <1>7, <1>8, <1>9, <1>10, <1>11, <1>12 DEF CallAct

LEMMA StampStep ==
  ASSUME IInv, LifeInv, PlaceInv, StampInv, StampHeld, [Next]_vars PROVE StampInv' /\ StampHeld'
<1> USE DEF IInv, Shape
<1>0. Scan \subseteq Nat /\ \A s \in Scan : s \in 1 .. s  BY ScanAssumption DEF Scan
<1>1. CASE ScanStep
  <2>1. UNCHANGED <<file, tmp, pc, on, doc>>  BY <1>1, ScanEffects
  <2>2. stamped' = stamped \/ \E s \in Scan : stamped' = [stamped EXCEPT ![s] = s]  BY <1>1, ScanEffects
  <2> QED  BY <1>0, <2>1, <2>2 DEF StampInv, StampHeld
<1>2. CASE Copy
  <2>1. PICK s \in Scan, t \in Scan :
           /\ BeginReplay(s, t)
           /\ stamped' = [stamped EXCEPT ![s] = stamped[t]]
           /\ file' = [file EXCEPT ![s] = file[t]] /\ tmp' = [tmp EXCEPT ![s] = tmp[t]]
           /\ UNCHANGED <<pc, on, doc>>
    BY <1>2, CopyEffects
  <2>2. t < s
    <3>1. stage[s] = "none" /\ stage[t] # "none"  BY <2>1 DEF BeginReplay, IsNext
    <3>2. ~(s < t) /\ s # t  BY <3>1 DEF LifeInv
    <3> QED  BY <1>0, <3>2
  <2>3. \A n : n \in 1 .. t => n \in 1 .. s  BY <1>0, <2>2
  <2> QED  BY <2>1, <2>3 DEF StampInv, StampHeld
<1>3. CASE Stop \/ Isolated \/ UNCHANGED vars
  <2>1. UNCHANGED <<stamped, file, tmp, on, doc>> /\ \A c \in Call : pc'[c] \in {pc[c], "done"}
    BY <1>3 DEF Stop, Isolated, vars, callVars, protoVars, docVars
  <2> QED  BY <2>1 DEF StampInv, StampHeld
<1>4. ASSUME NEW c \in DOMAIN scene.kind, CallAct(c) PROVE StampInv' /\ StampHeld'
  <2>1. /\ c \in Call /\ UNCHANGED stamped
        /\ \A d \in Call : d # c => pc'[d] = pc[d] /\ on'[d] = on[d] /\ doc'[d] = doc[d]
        /\ pc[c] \notin {"start", "done"} => on[c] \in Scan
    BY <1>4, CallEffects
  <2>2. \/ /\ pc'[c] \in {"cache", "digest", "tag", "reread", "done"} /\ UNCHANGED <<file, tmp>>
        \/ /\ on[c] \in Scan /\ on' = on /\ UNCHANGED <<file, tmp>>
           /\ doc'[c].stamp \in 1 .. on[c] /\ (pc'[c] = "stat" => doc'[c] # NoDoc)
        \/ /\ on[c] \in Scan /\ on' = on /\ file' = file
           /\ doc'[c].stamp \in 1 .. on[c] /\ tmp' = [tmp EXCEPT ![on[c]] = doc'[c]]
           /\ pc'[c] = "replace"
        \/ /\ on[c] \in Scan /\ UNCHANGED <<on, doc>> /\ pc[c] = "replace" /\ pc'[c] # "stat"
           /\ \/ UNCHANGED <<file, tmp>>
              \/ /\ tmp[on[c]] # NoDoc /\ file' = [file EXCEPT ![on[c]] = tmp[on[c]]]
                 /\ tmp' = [tmp EXCEPT ![on[c]] = NoDoc]
    <3>1. CASE Arrive(c) \/ EnvArrive(c) \/ Tag(c)
      <4>1. pc'[c] \in {"cache", "digest", "tag", "reread", "done"}
        <5>1. pc[c] \in {"start", "tag"}  BY <3>1 DEF Arrive, EnvArrive, Tag
        <5> QED  BY <1>4, <5>1, DocEffects
      <4>2. UNCHANGED <<file, tmp>>  BY <3>1 DEF Arrive, EnvArrive, Tag, docVars
      <4> QED  BY <4>1, <4>2
    <3>2. CASE ~(Arrive(c) \/ EnvArrive(c) \/ Tag(c))
      <4>1. pc[c] \notin {"start", "done"}  BY <1>4, <3>2, DocEffects
      <4>2. on[c] \in Scan  BY <2>1, <4>1
      <4> QED  BY <1>0, <1>4, <2>1, <3>2, <4>1, <4>2, DocEffects DEF StampInv, StampHeld
    <3> QED  BY <3>1, <3>2
  <2>3. StampInv'  BY <2>1, <2>2 DEF StampInv
  <2>4. StampHeld'  BY <2>1, <2>2 DEF StampHeld
  <2> QED  BY <2>3, <2>4
<1> QED  BY <1>1, <1>2, <1>3, <1>4, NextParts


LEMMA InitHome ==
  ASSUME Init PROVE LifeInv /\ PlaceInv /\ StampInv /\ StampHeld /\ HomeInv
<1>0. Scan \subseteq Nat /\ \A s \in Scan : s \in 1 .. s  BY ScanAssumption DEF Scan
<1>1. /\ DOMAIN stage = Scan /\ DOMAIN replay = Scan /\ DOMAIN counted = Scan
      /\ \A s \in Scan : \/ stage[s] = "none" /\ verdict[s] = "none" /\ ~replay[s]
                         \/ /\ stage[s] = "done" /\ verdict[s] # "none" /\ ~replay[s]
                            /\ s = 1 /\ scene.old # NoDoc
      /\ scene.old # NoDoc => \A s \in Scan : s = 1 => stage[s] = "done"
  <2>1. CASE scene.old = NoDoc  BY <2>1 DEF Init, ScanInit
  <2>2. CASE scene.old # NoDoc
    <3>1. PICK e \in scene.evidence :
            /\ stage = [s \in Scan |-> IF s = 1 THEN "done" ELSE "none"]
            /\ replay = [s \in Scan |-> FALSE] /\ counted = [s \in Scan |-> s = 1]
            /\ verdict = [s \in Scan |-> IF s = 1 THEN ComputeVerdict(Severities(Findings(e))) ELSE "none"]
      BY <2>2 DEF Init
    <3>2. ComputeVerdict(Severities(Findings(e))) # "none"  BY VerdictIsOne DEF Verdict
    <3> QED  BY <2>2, <3>1, <3>2
  <2> QED  BY <2>1, <2>2
<1>2. /\ stamped = [s \in Scan |-> s] /\ tmp = [s \in Scan |-> NoDoc]
      /\ pc = [c \in Call |-> "start"]
  BY DEF Init
<1>3. \A s \in Scan : file[s] # NoDoc =>
        s = 1 /\ scene.old # NoDoc /\ file[s].stamp = 1 /\ file[s].env = EnvOf(evid[1], overlay)
  <2> DEFINE a == Veto(Findings(evid[1]), EnvOf(evid[1], overlay),
                       RuleAnswers(Findings(evid[1]), evid[1], EnvOf(evid[1], overlay)))
             old == [stamp |-> 1, rev |-> 1, basis |-> Findings(evid[1]), env |-> EnvOf(evid[1], overlay),
                     class |-> a.class, dual |-> a.dual, playbook |-> a.playbook,
                     mercury |-> scene.old.mercury, src |-> "rules",
                     unknown |-> evid[1].unknown, late |-> FALSE]
  <2>1. file = [s \in Scan |-> IF s = 1 /\ scene.old # NoDoc THEN old ELSE NoDoc]
    BY DEF Init
  <2>2. old.stamp = 1 /\ old.env = EnvOf(evid[1], overlay)  OBVIOUS
  <2> HIDE DEF old
  <2> QED  BY <2>1, <2>2
<1>4. LifeInv
  <2>1. \A s, t \in Scan : t < s => ~(s = 1)
    BY <1>0 DEF Scan
  <2> QED  BY <1>1, <1>3, <2>1 DEF LifeInv
<1>5. PlaceInv /\ StampHeld  BY <1>2 DEF PlaceInv, StampHeld
<1>6. StampInv
  BY <1>0, <1>2, <1>3 DEF StampInv
<1>7. AloneInv /\ HeldInv  BY <1>2 DEF AloneInv, HeldInv, Tagged
<1>8. CacheInv
  <2>1. \A s \in Scan : Current(file[s])  BY <1>3, HomeOfOverlay DEF Current
  <2> QED  BY <2>1 DEF CacheInv, Serves
<1> QED  BY <1>4, <1>5, <1>6, <1>7, <1>8 DEF HomeInv

\* A scan's directory that a caller could newly take for the latest has no
\* protocol yet.
LEMMA ScanHome ==
  ASSUME IInv, LifeInv, HomeInv, ScanStep PROVE HomeInv'
<1> USE DEF IInv, Shape
<1>1. UNCHANGED <<file, tmp, pc, on, doc, scene, overlay, crossed>>  BY ScanEffects
<1>2. ASSUME NEW s \in Scan, Hot(s)' PROVE Hot(s) \/ file[s] = NoDoc
  <2>1. PICK z \in Scan : \/ BeginLive(z) \/ WriteMeta(z) \/ Cut(z) \/ Strip(z) \/ FillVerdict(z)
                          \/ \E F : Judge(z, F)
    BY ScanEffects
  <2>2. \A t \in Scan : counted[t] /\ stage[t] = "done" => counted'[t] /\ stage'[t] = "done"
    BY <2>1 DEF BeginLive, IsNext, WriteMeta, Cut, Active, Strip, FillVerdict, Judge, LifeInv
  <2>3. (counted[s] /\ verdict[s] # "none") \/ file[s] = NoDoc
    <3>1. counted'[s] /\ verdict'[s] # "none"  BY <1>2 DEF Hot
    <3>2. CASE BeginLive(z) \/ Cut(z)  BY <3>1, <3>2 DEF BeginLive, Cut
    <3>3. CASE WriteMeta(z)
      <4>1. stage[z] \in {"collect", "stripped"} /\ counted' = [counted EXCEPT ![z] = ~replay[z]] /\ verdict' = verdict
        BY <3>3 DEF WriteMeta
      <4> QED  BY <3>1, <4>1 DEF LifeInv
    <3>4. CASE Strip(z)  BY <3>1, <3>4 DEF Strip
    <3>5. CASE FillVerdict(z)  BY <3>1, <3>5 DEF FillVerdict, LifeInv
    <3>6. ASSUME NEW F, Judge(z, F) PROVE (counted[s] /\ verdict[s] # "none") \/ file[s] = NoDoc
      BY <3>1, <3>6 DEF Judge, LifeInv
    <3> QED  BY <2>1, <3>2, <3>3, <3>4, <3>5, <3>6
  <2> QED  BY <1>2, <2>2, <2>3 DEF Hot
<1>3. AloneInv /\ HeldInv => AloneInv' /\ HeldInv'
  BY <1>1 DEF AloneInv, HeldInv, Tagged, InFlight, Current
<1>4. CacheInv => CacheInv'
  BY <1>1, <1>2 DEF CacheInv, Tagged, Asks, InFlight, Serves, Current
<1> QED  BY <1>1, <1>3, <1>4 DEF HomeInv

\* What a copied directory holds is stamped with the one it was copied from.
LEMMA CopyHome ==
  ASSUME IInv, LifeInv, PlaceInv, StampInv, HomeInv, Copy PROVE HomeInv'
<1> USE DEF IInv, Shape
<1>0. Scan \subseteq Nat  BY ScanAssumption DEF Scan
<1>1. PICK s \in Scan, t \in Scan :
         /\ BeginReplay(s, t)
         /\ file' = [file EXCEPT ![s] = file[t]] /\ tmp' = [tmp EXCEPT ![s] = tmp[t]]
         /\ UNCHANGED <<pc, on, doc, scene, overlay, crossed>>
  BY CopyEffects
<1>2. stage[s] = "none" /\ stage[t] # "none"  BY <1>1 DEF BeginReplay, IsNext
<1>3. t < s
  <2>1. ~(s < t) /\ s # t  BY <1>2 DEF LifeInv
  <2> QED  BY <1>0, <2>1
<1>4. \A c \in InFlight : on[c] \in Scan /\ on[c] # s
  BY <1>2 DEF InFlight, PlaceInv, CallInv
<1>5. AloneInv /\ HeldInv => AloneInv' /\ HeldInv'
  <2>1. \A c \in Call : pc[c] = "replace" => tmp'[on[c]] = tmp[on[c]]
    BY <1>1, <1>4 DEF InFlight
  <2> QED  BY <1>1, <2>1 DEF AloneInv, HeldInv, Tagged, InFlight, Current
<1>6. \A r \in Scan : r # s /\ Hot(r)' => Hot(r)
  BY <1>1, <1>2 DEF BeginReplay, Hot
<1>7. Serves(s)'
  <2>1. file'[s] # NoDoc => file'[s].stamp \in 1 .. t  BY <1>1 DEF StampInv
  <2>2. file'[s] # NoDoc => file'[s].stamp # s  BY <1>0, <1>3, <2>1
  <2> QED  BY <2>2 DEF Serves
<1>8. CacheInv => CacheInv'
  <2>1. \A r \in Scan : r # s /\ Serves(r) => Serves(r)'  BY <1>1 DEF Serves, Current
  <2> QED  BY <1>1, <1>6, <1>7, <2>1 DEF CacheInv, Tagged, Asks, InFlight
<1> QED  BY <1>1, <1>5, <1>8 DEF HomeInv

\* A stop between a tag and the rewriting of the file is what crossed tells of.
LEMMA RestHome ==
  ASSUME IInv, HomeInv, Stop \/ Isolated \/ UNCHANGED vars PROVE HomeInv'
<1> USE DEF IInv, Shape
<1>1. CASE Stop
  <2>1. /\ UNCHANGED <<counted, verdict, stage, file, tmp, on, doc, scene, overlay>>
        /\ \A c \in Call : pc'[c] \in {"start", "done"}
        /\ crossed' = (crossed \/ Tagging)
    BY <1>1 DEF Stop, scanVars, docVars, InFlight
  <2>2. AloneInv' /\ HeldInv'  BY <2>1 DEF AloneInv, HeldInv, Tagged
  <2>3. ASSUME ~crossed' PROVE CacheInv'
    <3>1. ~Tagging /\ CacheInv  BY <2>1, <2>3 DEF HomeInv
    <3>2. \A e \in Call : ~Tagged(e)  BY <3>1 DEF Tagging, Tagged, InFlight
    <3> QED  BY <2>1, <3>1, <3>2 DEF CacheInv, Asks, InFlight, Serves, Current, Hot
  <2> QED  BY <2>2, <2>3 DEF HomeInv
<1>2. CASE Isolated \/ UNCHANGED vars
  <2>1. UNCHANGED <<counted, verdict, stage, file, tmp, pc, on, doc, scene, overlay, crossed>>
    BY <1>2 DEF Isolated, vars, scanVars, docVars, callVars, protoVars
  <2>2. AloneInv' = AloneInv /\ HeldInv' = HeldInv  BY <2>1 DEF AloneInv, HeldInv, Tagged, InFlight, Current
  <2>3. CacheInv' = CacheInv  BY <2>1 DEF CacheInv, Asks, Tagged, InFlight, Serves, Current, Hot
  <2> QED  BY <2>1, <2>2, <2>3 DEF HomeInv
<1> QED  BY <1>1, <1>2

\* What a call's step leaves of the others, and of what they could be served.
LEMMA OthersStay ==
  ASSUME IInv, NEW c \in DOMAIN scene.kind, CallAct(c)
  PROVE  /\ c \in Call /\ \A s \in Scan : Hot(s)' <=> Hot(s)
         /\ \A d \in Call : d # c => /\ Tagged(d)' <=> Tagged(d)
                                     /\ Asks(d)' <=> Asks(d)
                                     /\ d \in InFlight' <=> d \in InFlight
                                     /\ pc'[d] = pc[d] /\ on'[d] = on[d] /\ doc'[d] = doc[d]
         /\ UNCHANGED scene /\ (crossed => crossed')
<1> USE DEF IInv, Shape
<1>1. /\ c \in Call /\ UNCHANGED <<stage, counted, verdict, scene>> /\ (crossed => crossed')
      /\ \A d \in Call : d # c => pc'[d] = pc[d] /\ on'[d] = on[d] /\ doc'[d] = doc[d]
  BY CallEffects
<1> QED  BY <1>1 DEF Hot, Tagged, Asks, InFlight

\* A call that comes finds the latest directory's protocol served or gone, for
\* nobody is tagging.
LEMMA ArriveHome ==
  ASSUME IInv, LifeInv, HomeInv, NEW c \in DOMAIN scene.kind, Arrive(c) PROVE HomeInv'
<1> USE DEF IInv, Shape
<1>0. CallAct(c)  BY DEF CallAct
<1>1. /\ on' = [on EXCEPT ![c] = LatestScanDir] /\ UNCHANGED <<doc, file, tmp, overlay>>
      /\ crossed' = (crossed \/ Tagging) /\ scene.kind[c] # "env" /\ LatestScanDir # 0 /\ pc[c] = "start"
  BY DEF Arrive, docVars
<1>2. pc'[c] \in {"cache", "digest", "done"}
  BY <1>0, <1>1, DocEffects DEF EnvArrive, Tag
<1>3. ASSUME ~crossed' PROVE AloneInv' /\ HeldInv' /\ CacheInv'
  <2>1. ~Tagging /\ AloneInv /\ HeldInv /\ CacheInv  BY <1>1, <1>3 DEF HomeInv
  <2>2. \A e \in Call : ~Tagged(e)  BY <2>1 DEF Tagging, Tagged, InFlight
  <2>3. \A e \in Call : ~Tagged(e)'
    BY <1>0, <1>1, <2>2, OthersStay DEF Tagged
  <2>4. AloneInv'  BY <2>3 DEF AloneInv
  <2>5. HeldInv'  BY <1>0, <1>1, <1>2, <2>1, OthersStay DEF HeldInv, Current
  <2>6. ASSUME NEW s \in Scan, Hot(s)' \/ \E d \in Call : Asks(d)' /\ on'[d] = s PROVE Serves(s)'
    <3>1. Hot(s) \/ \E d \in Call : Asks(d) /\ on[d] = s
      <4>1. on'[c] = LatestScanDir /\ Hot(LatestScanDir)  BY <1>0, <1>1, OthersStay, LatestStands
      <4> QED  BY <1>0, <2>6, <4>1, OthersStay
    <3>2. Serves(s)  BY <2>1, <2>2, <3>1 DEF CacheInv
    <3> QED  BY <1>1, <3>2 DEF Serves, Current
  <2>7. CacheInv'  BY <2>6 DEF CacheInv
  <2> QED  BY <2>4, <2>5, <2>7
<1> QED  BY <1>3 DEF HomeInv

LEMMA EnvArriveHome ==
  ASSUME IInv, HomeInv, NEW c \in DOMAIN scene.kind, EnvArrive(c) PROVE HomeInv'
<1> USE DEF IInv, Shape
<1>0. CallAct(c)  BY DEF CallAct
<1>1. /\ UNCHANGED <<doc, file, tmp, overlay, crossed>> /\ scene.kind[c] = "env" /\ pc[c] = "start"
  BY DEF EnvArrive, docVars, protoVars
<1>2. pc'[c] \in {"tag", "done"}
  BY <1>0, <1>1, DocEffects DEF Arrive, Tag
<1>3. ~Tagged(c) /\ ~Tagged(c)' /\ ~Asks(c)'
  BY <1>0, <1>1, <1>2, OthersStay DEF Tagged, Asks
<1>4. ASSUME ~crossed' PROVE AloneInv' /\ HeldInv' /\ CacheInv'
  <2>1. AloneInv /\ HeldInv /\ CacheInv  BY <1>1, <1>4 DEF HomeInv
  <2>2. AloneInv'
    <3>1. ASSUME NEW e \in Call, Tagged(e)', NEW d \in InFlight' PROVE d = e \/ (scene'.kind[d] = "env" /\ pc'[d] = "tag")
      <4>1. e # c /\ Tagged(e) /\ d \in Call  BY <1>0, <1>3, <3>1, OthersStay DEF InFlight
      <4>2. CASE d = c  BY <1>0, <1>1, <1>2, <3>1, <4>2, OthersStay DEF InFlight
      <4>3. CASE d # c  BY <1>0, <2>1, <3>1, <4>1, <4>3, OthersStay DEF AloneInv
      <4> QED  BY <4>2, <4>3
    <3>2. ASSUME NEW e \in Call, Tagged(e)', pc'[e] = "replace" PROVE tmp'[on'[e]] # NoDoc
      BY <1>0, <1>1, <1>3, <2>1, <3>2, OthersStay DEF AloneInv
    <3> QED  BY <3>1, <3>2 DEF AloneInv
  <2>3. HeldInv'  BY <1>0, <1>1, <1>2, <2>1, OthersStay DEF HeldInv, Current
  <2>4. \A s \in Scan : Serves(s)' <=> Serves(s)  BY <1>1 DEF Serves, Current
  <2>5. CacheInv'  BY <1>0, <1>3, <2>1, <2>4, OthersStay DEF CacheInv
  <2> QED  BY <2>2, <2>3, <2>5
<1> QED  BY <1>4 DEF HomeInv

\* Tagging, with nobody else about and on the latest directory, leaves one
\* protocol that may say otherwise: that directory's, until it is rewritten.
LEMMA TagHome ==
  ASSUME IInv, LifeInv, PlaceInv, HomeInv, NEW c \in DOMAIN scene.kind, Tag(c) PROVE HomeInv'
<1> USE DEF IInv, Shape
<1>0. CallAct(c)  BY DEF CallAct
<1>1. /\ UNCHANGED <<on, doc, file, tmp>> /\ pc[c] = "tag" /\ pc' = [pc EXCEPT ![c] = "reread"]
      /\ crossed' = (crossed \/ InFlight # {c} \/ on[c] # LatestScanDir \/ stage[on[c]] # "done")
  BY DEF Tag, Go, docVars
<1>2. c \in Call /\ on[c] \in Scan /\ scene.kind[c] = "env"
  BY <1>0, <1>1, OthersStay DEF CallInv, PlaceInv
<1>3. ASSUME ~crossed' PROVE AloneInv' /\ HeldInv' /\ CacheInv'
  <2>1. InFlight = {c} /\ on[c] = LatestScanDir /\ stage[on[c]] = "done"  BY <1>1, <1>3
  <2>2. InFlight' = {c}
    BY <1>1, <1>2, <2>1 DEF InFlight
  <2>3. \A d \in Call : pc'[d] \notin {"start", "done"} => d = c  BY <2>2 DEF InFlight
  <2>4. Tagged(c)' /\ \A e \in Call : Tagged(e)' => e = c
    BY <1>0, <1>1, <1>2, <2>3, OthersStay DEF Tagged
  <2>5. AloneInv'  BY <1>1, <1>2, <2>2, <2>4 DEF AloneInv
  <2>6. HeldInv'  BY <1>1, <1>2, <2>3 DEF HeldInv
  <2>7. ASSUME NEW s \in Scan, Hot(s)' PROVE s = on[c]
    <3>1. Hot(s)  BY <1>0, <2>7, OthersStay
    <3>2. counted[on[c]] /\ s <= on[c]
      <4>1. LatestScanDir # 0  BY <1>2, <2>1, ScanAssumption DEF Scan
      <4> QED  BY <2>1, <3>1, <4>1, LatestIsLive DEF Hot
    <3>3. ~(on[c] > s)  BY <1>2, <2>1, <3>1, <3>2 DEF Hot
    <3> QED  BY <1>2, <3>2, <3>3, ScanAssumption DEF Scan
  <2>8. \A d \in Call : ~Asks(d)'
    BY <1>0, <1>2, <2>2, OthersStay DEF Asks
  <2>9. CacheInv'  BY <1>1, <1>2, <2>4, <2>7, <2>8 DEF CacheInv
  <2> QED  BY <2>5, <2>6, <2>9
<1> QED  BY <1>3 DEF HomeInv

\* The steps within a call: nobody has tagged the network and not yet
\* rewritten the file ...
LEMMA ServeHome ==
  ASSUME IInv, PlaceInv, StampHeld, HomeInv, NEW c \in DOMAIN scene.kind, CallAct(c),
         pc[c] \notin {"start", "tag"}, scene.kind[c] # "env"
  PROVE  HomeInv'
<1> USE DEF IInv, Shape
<1>1. c \in Call /\ pc[c] \notin {"start", "done"}
  BY OthersStay, DocEffects DEF Arrive, EnvArrive, Tag
<1>2. on[c] \in Scan /\ pc[c] # "reread"  BY <1>1 DEF CallInv, PlaceInv
<1>3. UNCHANGED <<on, overlay, crossed>>
  BY <1>1, <1>2, DocEffects DEF Arrive, EnvArrive, Tag
<1>4. ASSUME ~crossed' PROVE AloneInv' /\ HeldInv' /\ CacheInv'
  <2>1. AloneInv /\ HeldInv /\ CacheInv  BY <1>3, <1>4 DEF HomeInv
  <2>2. \A e \in Call : ~Tagged(e)
    <3>1. c \in InFlight  BY <1>1 DEF InFlight
    <3> QED  BY <2>1, <3>1 DEF AloneInv, Tagged
  <2>3. \A e \in Call : ~Tagged(e)'
    BY <1>1, <2>2, OthersStay DEF Tagged
  <2>4. \A s \in Scan : Hot(s) \/ (\E d \in Call : Asks(d) /\ on[d] = s) => Serves(s)
    BY <2>1, <2>2 DEF CacheInv
  <2>5. Serves(on[c])
    <3>1. Asks(c)  BY <1>1 DEF Asks, InFlight
    <3> QED  BY <1>1, <1>2, <2>4, <3>1
  <2>6. pc[c] \in {"port", "tmp", "replace", "rows"} => doc[c] # NoDoc /\ Current(doc[c])
    <3>1. pc[c] \in {"port", "tmp", "replace", "rows"} => doc[c].stamp \in 1 .. on[c]  BY <1>1 DEF StampHeld
    <3>2. NoDoc.stamp \notin 1 .. on[c]  BY <1>2, ScanAssumption DEF NoDoc, Scan
    <3> QED  BY <1>1, <2>1, <3>1, <3>2 DEF HeldInv
  <2>7. /\ pc'[c] \in {"port", "tmp", "replace", "rows"} => Current(doc[c])'
        /\ pc'[c] = "stat" /\ doc'[c].stamp = on[c] => Current(doc[c])'
    <3>1. CASE pc[c] = "cache"
      <4>1. doc'[c] = file[on[c]] /\ pc'[c] \in {"digest", "stat"} /\ overlay' = overlay
        BY <1>3, <3>1, DocEffects DEF Arrive, EnvArrive, Tag
      <4> QED  BY <2>5, <4>1 DEF Serves, Current
    <3>2. CASE pc[c] = "stat"
      <4>1. \/ pc'[c] = "digest"
            \/ /\ pc'[c] \in {"rows", "tmp"} /\ doc[c] # NoDoc /\ doc[c].stamp = on[c]
               /\ doc'[c].env = doc[c].env
        BY <3>2, DocEffects DEF Arrive, EnvArrive, Tag
      <4> QED  BY <1>1, <1>3, <2>1, <3>2, <4>1 DEF HeldInv, Current
    <3>3. CASE pc[c] = "digest"
      <4>1. pc'[c] = "port" /\ doc'[c].env = EnvOf(evid[on[c]], overlay)
        BY <3>3, DocEffects DEF Arrive, EnvArrive, Tag
      <4> QED  BY <1>3, <4>1, HomeOfOverlay DEF Current
    <3>4. CASE pc[c] \in {"port", "tmp"}
      <4>1. pc'[c] \in {"tmp", "replace"} /\ doc'[c].env = doc[c].env
        BY <3>4, DocEffects DEF Arrive, EnvArrive, Tag
      <4> QED  BY <1>3, <2>6, <3>4, <4>1 DEF Current
    <3>5. CASE pc[c] = "replace"
      <4>1. pc'[c] \in {"rows", "done"} /\ doc' = doc
        BY <3>5, DocEffects DEF Arrive, EnvArrive, Tag
      <4> QED  BY <1>3, <2>6, <3>5, <4>1 DEF Current
    <3>6. CASE pc[c] = "rows"
      BY <3>6, DocEffects DEF Arrive, EnvArrive, Tag
    <3> QED  BY <1>1, <1>2, <3>1, <3>2, <3>3, <3>4, <3>5, <3>6, DocEffects DEF Arrive, EnvArrive, Tag
  <2>8. \/ UNCHANGED <<file, tmp>> /\ pc'[c] # "replace"
        \/ pc[c] = "tmp" /\ pc'[c] = "replace" /\ file' = file /\ tmp' = [tmp EXCEPT ![on[c]] = doc'[c]]
        \/ /\ pc[c] = "replace" /\ pc'[c] # "replace" /\ file' = [file EXCEPT ![on[c]] = tmp[on[c]]]
           /\ tmp' = [tmp EXCEPT ![on[c]] = NoDoc]
    BY <1>1, <1>2, DocEffects DEF Arrive, EnvArrive, Tag
  <2>9. /\ pc'[c] = "replace" => Current(tmp[on[c]])'
        /\ \A d \in Call : d # c /\ pc[d] = "replace" => Current(tmp[on[d]])'
    <3>1. \A d \in Call : pc[d] = "replace" => Current(tmp[on[d]]) /\ on[d] \in Scan
      BY <2>1 DEF HeldInv, CallInv
    <3>2. Current(NoDoc)'  BY DEF Current
    <3> QED  BY <1>2, <1>3, <2>7, <2>8, <3>1, <3>2 DEF Current
  <2>10. HeldInv'
    BY <1>1, <1>3, <2>1, <2>7, <2>9, OthersStay DEF HeldInv, Current
  <2>11. \A s \in Scan : Serves(s) => Serves(s)'
    <3>1. pc[c] = "replace" => Current(tmp[on[c]])  BY <1>1, <2>1 DEF HeldInv
    <3> QED  BY <1>2, <1>3, <2>8, <3>1 DEF Serves, Current
  <2>12. CacheInv'
    <3>1. \A d \in Call : Asks(d)' => Asks(d)
      BY <1>1, OthersStay DEF Asks, InFlight
    <3> QED  BY <1>3, <2>4, <2>11, <3>1, OthersStay DEF CacheInv
  <2> QED  BY <2>3, <2>10, <2>12 DEF AloneInv
<1> QED  BY <1>4 DEF HomeInv

\* ... or the caller is the one that has, and everyone else waits to tag.
LEMMA RewriteHome ==
  ASSUME IInv, PlaceInv, StampHeld, HomeInv, NEW c \in DOMAIN scene.kind, CallAct(c),
         pc[c] \notin {"start", "tag"}, scene.kind[c] = "env"
  PROVE  HomeInv'
<1> USE DEF IInv, Shape
<1>1. c \in Call /\ pc[c] \notin {"start", "done"}
  BY OthersStay, DocEffects DEF Arrive, EnvArrive, Tag
<1>2. on[c] \in Scan /\ pc[c] \in {"reread", "tmp", "replace"}  BY <1>1 DEF CallInv, PlaceInv
<1>3. UNCHANGED <<on, overlay, crossed, scene>>
  BY <1>1, <1>2, DocEffects, OthersStay DEF Arrive, EnvArrive, Tag
<1>4. ASSUME ~crossed' PROVE AloneInv' /\ HeldInv' /\ CacheInv'
  <2>1. AloneInv /\ HeldInv /\ CacheInv  BY <1>3, <1>4 DEF HomeInv
  <2>2. Tagged(c)  BY <1>2 DEF Tagged
  <2>3. /\ \A d \in InFlight : d = c \/ (scene.kind[d] = "env" /\ pc[d] = "tag")
        /\ pc[c] = "replace" => tmp[on[c]] # NoDoc
    BY <1>1, <2>1, <2>2 DEF AloneInv
  <2>4. \A d \in Call : d # c => pc[d] \in {"start", "done", "tag"} /\ pc'[d] = pc[d] /\ ~Tagged(d)'
    <3>1. \A d \in Call : d # c => pc[d] \in {"start", "done", "tag"}  BY <2>3 DEF InFlight
    <3> QED  BY <3>1, OthersStay DEF Tagged
  <2>5. \A d \in Call : ~Asks(d)'
    BY <1>3, <2>3, OthersStay DEF Asks, InFlight
  <2>6. \A s \in Scan : Hot(s) => s = on[c] \/ Serves(s)
    BY <1>2, <2>1, <2>4, OthersStay DEF CacheInv, Tagged
  <2>7. \A d \in Call : d # c /\ d \in InFlight' => scene.kind[d] = "env" /\ pc'[d] = "tag"
    BY <2>3, OthersStay
  <2>8. CASE pc[c] = "reread"
    <3>1. /\ UNCHANGED <<file, tmp>>
          /\ \/ pc'[c] = "done" /\ file[on[c]] = NoDoc
             \/ pc'[c] = "tmp" /\ file[on[c]] # NoDoc /\ doc'[c].env = EnvOf(evid[on[c]], overlay)
      BY <2>8, DocEffects DEF Arrive, EnvArrive, Tag
    <3>2. AloneInv'  BY <1>3, <2>4, <2>7, <3>1 DEF AloneInv, InFlight
    <3>3. HeldInv'
      <4>1. pc'[c] = "tmp" => Current(doc[c])'  BY <1>3, <3>1, HomeOfOverlay DEF Current
      <4> QED  BY <2>4, <3>1, <4>1 DEF HeldInv
    <3>4. CacheInv'
      <4>1. pc'[c] = "tmp" => Tagged(c)'  BY <1>3 DEF Tagged
      <4>2. \A s \in Scan : Serves(s)' <=> Serves(s)  BY <1>3, <3>1 DEF Serves, Current
      <4>3. file[on[c]] = NoDoc => Serves(on[c])  BY DEF Serves
      <4> QED  BY <1>1, <1>3, <2>5, <2>6, <3>1, <4>1, <4>2, <4>3, OthersStay DEF CacheInv
    <3> QED  BY <3>2, <3>3, <3>4
  <2>9. CASE pc[c] = "tmp"
    <3>1. /\ pc'[c] = "replace" /\ file' = file /\ doc'[c] # NoDoc /\ doc'[c].env = doc[c].env
          /\ tmp' = [tmp EXCEPT ![on[c]] = doc'[c]]
      BY <2>9, DocEffects DEF Arrive, EnvArrive, Tag
    <3>2. Current(doc[c])'
      <4>1. doc[c] # NoDoc
        <5>1. doc[c].stamp \in 1 .. on[c]  BY <1>1, <2>9 DEF StampHeld
        <5>2. NoDoc.stamp \notin 1 .. on[c]  BY <1>2, ScanAssumption DEF NoDoc, Scan
        <5> QED  BY <5>1, <5>2
      <4>2. Current(doc[c])  BY <1>1, <2>1, <2>9 DEF HeldInv
      <4> QED  BY <1>3, <3>1, <4>1, <4>2 DEF Current
    <3>3. tmp'[on[c]] = doc'[c]  BY <1>2, <3>1
    <3>4. AloneInv'  BY <1>3, <2>4, <2>7, <3>1, <3>3 DEF AloneInv, InFlight
    <3>5. HeldInv'  BY <1>3, <2>4, <3>1, <3>2, <3>3 DEF HeldInv
    <3>6. CacheInv'
      <4>1. Tagged(c)'  BY <1>3, <3>1 DEF Tagged
      <4>2. \A s \in Scan : Serves(s)' <=> Serves(s)  BY <1>3, <3>1 DEF Serves, Current
      <4> QED  BY <1>1, <1>3, <2>5, <2>6, <4>1, <4>2, OthersStay DEF CacheInv
    <3> QED  BY <3>4, <3>5, <3>6
  <2>10. CASE pc[c] = "replace"
    <3>1. /\ pc'[c] = "done" /\ file' = [file EXCEPT ![on[c]] = tmp[on[c]]]
      BY <2>3, <2>10, DocEffects DEF Arrive, EnvArrive, Tag
    <3>2. AloneInv'
      BY <2>4, <3>1 DEF AloneInv, Tagged
    <3>3. HeldInv'  BY <2>4, <3>1 DEF HeldInv
    <3>4. Current(tmp[on[c]])  BY <1>1, <2>1, <2>10 DEF HeldInv
    <3>5. \A s \in Scan : s = on[c] \/ Serves(s) => Serves(s)'
      BY <1>2, <1>3, <3>1, <3>4 DEF Serves, Current
    <3>6. CacheInv'  BY <2>5, <2>6, <3>5, OthersStay DEF CacheInv
    <3> QED  BY <3>2, <3>3, <3>6
  <2> QED  BY <1>2, <2>8, <2>9, <2>10
<1> QED  BY <1>4 DEF HomeInv

LEMMA HomeStep ==
  ASSUME IInv, LifeInv, PlaceInv, StampInv, StampHeld, HomeInv, [Next]_vars PROVE HomeInv'
<1>1. ASSUME NEW c \in DOMAIN scene.kind, CallAct(c) PROVE HomeInv'
  <2>1. CASE pc[c] = "start"
    <3>1. Arrive(c) \/ EnvArrive(c)
      BY <1>1, <2>1 DEF CallAct, ReadCache, Stat, Digest, Port, WriteTmp, Replace, Answer, Tag, Reread
    <3> QED  BY <3>1, ArriveHome, EnvArriveHome
  <2>2. CASE pc[c] = "tag"
    <3>1. Tag(c)
      BY <1>1, <2>2 DEF CallAct, Arrive, ReadCache, Stat, Digest, Port, WriteTmp, Replace, Answer, EnvArrive, Reread
    <3> QED  BY <3>1, TagHome
  <2>3. CASE pc[c] \notin {"start", "tag"}  BY <1>1, <2>3, ServeHome, RewriteHome
  <2> QED  BY <2>1, <2>2, <2>3
<1> QED  BY <1>1, NextParts, ScanHome, CopyHome, RestHome

\* A protocol that does not say home offers no isolation: whatever is moved to
\* the front of the rows was among them.
LEMMA RowsAtHome ==
  ASSUME NEW F, NEW e, NEW env, NEW back, NEW pick,
         NEW i \in DOMAIN Rows(F, e, env, back, pick),
         Rows(F, e, env, back, pick)[i] = "isolate-dst"
  PROVE  env = "home"
<1> DEFINE names == {"ask-operator", "close-deleted-dpkg", "ack-stale", "isolate-dst", "travel-harden",
                     "isolate-undo", "helper-pty", "suricata-seen", "runtime-apt"}
           S == {r \in names : Offered(r, F, e, env, back)} \union {"close"}
           row(r) == IF Offered(r, F, e, env, back) THEN <<r>> ELSE <<>>
<1>1. "isolate-dst" \in S => env = "home"  BY DEF Offered
<1>2. \A r \in names : row(r) \in Seq(S)
  <2> TAKE r \in names
  <2>1. CASE Offered(r, F, e, env, back)
    <3>1. r \in S  BY <2>1
    <3> HIDE DEF S
    <3> QED  BY <2>1, <3>1
  <2>2. CASE ~Offered(r, F, e, env, back)  BY <2>2
  <2> QED  BY <2>1, <2>2
<1> HIDE DEF row
<1>3. \A a, b : a \in Seq(S) /\ b \in Seq(S) => a \o b \in Seq(S)
  <2> HIDE DEF S
  <2> QED  OBVIOUS
<1>4. Table(F, e, env, back) =
        row("ask-operator") \o row("close-deleted-dpkg") \o row("ack-stale") \o row("isolate-dst")
          \o row("travel-harden") \o row("isolate-undo") \o row("helper-pty") \o row("suricata-seen")
          \o row("runtime-apt")
  BY DEF Table, row
<1>5. Table(F, e, env, back) \in Seq(S)
  BY <1>2, <1>3, <1>4
<1>6. <<"close">> \in Seq(S)
  <2>1. "close" \in S  OBVIOUS
  <2> HIDE DEF S
  <2> QED  BY <2>1
<1> HIDE DEF S
<1>7. ASSUME NEW rows \in Seq(S), NEW r PROVE First(rows, r) \in Seq(S)
  <2>1. CASE r \in ToSet(rows)
    <3>1. PICK k \in DOMAIN rows : /\ rows[k] = r
                                   /\ k = CHOOSE j \in DOMAIN rows : rows[j] = r
      BY <2>1 DEF ToSet
    <3>2. First(rows, r) = <<r>> \o RemoveAt(rows, k)  BY <2>1, <3>1 DEF First
    <3>3. r \in S /\ k \in 1 .. Len(rows)  BY <3>1
    <3>4. RemoveAt(rows, k) \in Seq(S)
      <4>1. SubSeq(rows, 1, k - 1) \in Seq(S) /\ SubSeq(rows, k + 1, Len(rows)) \in Seq(S)
        BY <3>3
      <4> QED  BY <4>1 DEF RemoveAt
    <3> QED  BY <3>2, <3>3, <3>4
  <2>2. CASE r \notin ToSet(rows)  BY <2>2 DEF First
  <2> QED  BY <2>1, <2>2
<1>8. Rows(F, e, env, back, pick) \in Seq(S)
  <2> DEFINE rows == IF Table(F, e, env, back) = <<>> THEN <<"close">> ELSE Table(F, e, env, back)
             ported == IF env \in Away THEN First(rows, "travel-harden") ELSE rows
  <2>1. rows \in Seq(S)  BY <1>5, <1>6
  <2>2. Rows(F, e, env, back, pick) = CASE pick = "ask_operator" -> First(ported, "ask-operator")
                                        [] pick = "isolate-dst"  -> First(ported, "isolate-dst")
                                        [] OTHER -> ported
    BY DEF Rows
  <2> HIDE DEF rows
  <2>3. ported \in Seq(S)  BY <1>7, <2>1
  <2> HIDE DEF ported
  <2> QED  BY <1>7, <2>2, <2>3
<1> QED  BY <1>1, <1>8

\* A row that isolates is shown only while the overlay says home, or after a
\* tagging met another call, a stop or a directory that was not done: for any
\* scans, calls, evidence and answers of the models.
THEOREM IsolationAtHome == Spec => IsolateAtHome
<1> DEFINE All == IInv /\ LifeInv /\ PlaceInv /\ StampInv /\ StampHeld /\ HomeInv
<1>1. Init => All  BY InitIInv, InitHome
<1>2. All /\ [Next]_vars => All'
  BY NextIInv, LifeStep, PlaceStep, StampStep, HomeStep
<1>3. All /\ [Next]_vars =>
        [\A c \in Call :
           /\ shown'[c] # shown[c]
           /\ "isolate-dst" \in {shown'[c].rows[i] : i \in DOMAIN shown'[c].rows}
           => overlay = "home" \/ crossed]_vars
  <2> SUFFICES ASSUME All, Next, NEW c \in Call, shown'[c] # shown[c], ~crossed,
                      "isolate-dst" \in {shown'[c].rows[i] : i \in DOMAIN shown'[c].rows}
               PROVE  overlay = "home"
    OBVIOUS
  <2> USE DEF IInv, Shape
  <2>1. Answer(c)
    <3>1. CASE ScanStep \/ Copy \/ Stop \/ Isolated \/ UNCHANGED vars
      <4>1. shown' = shown
        BY <3>1, ScanEffects DEF Copy, callVars, Stop, Isolated, vars
      <4> QED  BY <4>1
    <3>2. ASSUME NEW d \in DOMAIN scene.kind, CallAct(d), ~Answer(d) PROVE FALSE
      <4>1. shown' = shown
        BY <3>2 DEF CallAct, Arrive, ReadCache, Stat, Digest, Port, WriteTmp, Replace, EnvArrive, Tag, Reread
      <4> QED  BY <4>1
    <3>3. ASSUME NEW d \in DOMAIN scene.kind, Answer(d), d # c PROVE FALSE
      BY <3>3 DEF Answer
    <3> QED  BY <3>1, <3>2, <3>3, NextParts
  <2>2. PICK F, e, back, pick : shown' = [shown EXCEPT ![c] = [rows |-> Rows(F, e, doc[c].env, back, pick),
                                                             env |-> doc[c].env]]
    BY <2>1 DEF Answer
  <2>3. shown'[c].rows = Rows(F, e, doc[c].env, back, pick)
    BY <2>2
  <2>4. doc[c].env = "home"
    BY <2>3, RowsAtHome
  <2>5. Current(doc[c]) /\ doc[c].stamp \in 1 .. on[c] /\ on[c] \in Scan
    BY <2>1 DEF Answer, HomeInv, HeldInv, StampHeld, CallInv
  <2>6. doc[c] # NoDoc
    <3>1. NoDoc.stamp \notin 1 .. on[c]  BY <2>5, ScanAssumption DEF NoDoc, Scan
    <3> QED  BY <2>5, <3>1
  <2> QED  BY <2>4, <2>5, <2>6 DEF Current
<1> QED  BY <1>1, <1>2, <1>3, PTL DEF Spec, IsolateAtHome
=============================================================================
