------------------------------- MODULE Recall -------------------------------
(***************************************************************************)
(* What a chat turn takes from memory (recall of memory.py), what it is    *)
(* told to do with it (gate_recall of decide.py), and how the turn's own   *)
(* engram is marked afterwards (classify_turn).  Scores are in hundredths; *)
(* texts are what the rules ask of them.                                   *)
(*                                                                         *)
(* An engram is [kind, look, salience, hot, long, words, near]: look says  *)
(* that it is of a tool that only looks, salience and hot are what         *)
(* classify_turn left, long that its answer is long, words how many words  *)
(* of the question it holds, near its cosine to the question.  A question  *)
(* is [mutate, ask, greet].                                                *)
(***************************************************************************)
EXTENDS Integers, Sequences, FiniteSets

NoAnswer == [act |-> "none", keep |-> -1, kind |-> "none", persist |-> -1]
Salience == {"fact", "artifact", "noise", "decision"}
KeepMin == 60

-----------------------------------------------------------------------------
(* recall                                                                  *)

\* _recall_skip
RecallSkip(e) ==
  \/ e.kind = "decide"
  \/ e.kind = "tool" /\ e.look
  \/ e.salience = "noise" /\ e.hot < 35

\* A row's score: its words, and its cosine when the vector store has it too;
\* a row without a word of the question needs a high cosine.
Score(e, hit) ==
  IF RecallSkip(e) THEN 0
  ELSE IF e.words > 0 THEN 100 * e.words + (IF hit /\ e.near >= 42 THEN e.near ELSE 0)
  ELSE IF hit /\ e.near >= 55 THEN e.near ELSE 0

\* The rows that pass the cutoff.  The ceiling of four hits is out of the
\* bounds.  what maps ids to engrams, hits are the vector store's.
Recalled(what, ids, hits) ==
  LET score(i) == Score(what[i], i \in hits)
  IN {i \in ids : /\ score(i) >= 200
                  /\ \A j \in ids : 100 * score(i) >= 55 * score(j)}

-----------------------------------------------------------------------------
(* decide: what the models answered, or the rules                          *)

\* _jev_http: the second url is asked when the first has refused, failed or
\* answered nothing; retries after a 429 belong to one url.
JevHttp(first, second, both) ==
  IF first # NoAnswer THEN first ELSE IF both THEN second ELSE NoAnswer

\* Jev, else Mercury, else nothing: the rules alone.
Live(said, both, useMercury) ==
  LET jev == JevHttp(said.first, said.second, both)
  IN IF jev # NoAnswer \/ ~useMercury THEN jev ELSE said.mercury

HitAnswers(what, hits) ==
  \E i \in hits : what[i].kind = "chat" /\ what[i].long /\ what[i].salience \in {"none", "fact", "artifact"}

RuleAct(q, what, hits, score) ==
  LET top(n) == \E i \in hits : score[i] >= n
  IN CASE q.mutate -> IF hits # {} THEN "both" ELSE "read_disk"
       [] ~q.mutate /\ q.ask /\ HitAnswers(what, hits) -> "use_memory"
       [] ~q.mutate /\ ~(q.ask /\ HitAnswers(what, hits)) /\ ~top(150) -> "read_disk"
       [] ~q.mutate /\ q.ask /\ ~HitAnswers(what, hits) /\ top(280) -> "use_memory"
       [] OTHER -> IF hits # {} THEN "both" ELSE "read_disk"

\* Mutant: the models' word stands.
MergeNothing(q, what, hits, act) == act

\* _merge_rules: "Mutate cannot skip disk.  Ask-questions with a chat-answer
\* cannot skip memory."
MergeRules(q, what, hits, act) ==
  CASE q.mutate /\ act = "use_memory" -> "both"
    [] q.ask /\ ~q.mutate /\ HitAnswers(what, hits) /\ act = "read_disk" -> "use_memory"
    [] OTHER -> act

\* gate_recall: a hit without an answer of the models is kept by the rule for
\* its score.
GateRecall(q, what, hits, score, live) ==
  LET act  == IF live = NoAnswer THEN RuleAct(q, what, hits, score)
              ELSE MergeRules(q, what, hits, live.act)
      kept == {i \in hits : IF live.keep < 0 THEN score[i] >= 4 * KeepMin ELSE live.keep >= KeepMin}
  IN [kept |-> kept,
      act  |-> IF act = "none" \/ (kept = {} /\ act = "use_memory") THEN "read_disk" ELSE act]

-----------------------------------------------------------------------------
(* classify_turn                                                           *)

\* _rule_one for kind and persist_hot; a turn is [mutated, tools, said, cut]:
\* did it call a tool that changes things, any tool; what it answered; how it
\* was cut off.
RuleKind(q, t) ==
  CASE t.mutated                         -> "artifact"
    [] ~t.mutated /\ q.greet /\ ~t.tools -> "noise"
    [] /\ ~t.mutated /\ ~(q.greet /\ ~t.tools)
       /\ t.cut = "gone" /\ t.said # "long" -> "noise"
    [] OTHER -> IF q.ask \/ t.said # "nothing" THEN "fact" ELSE "noise"

RulePersist(q, t) ==
  LET answered == q.ask /\ t.said = "long" greeting == q.greet /\ ~t.tools
  IN CASE t.mutated                            -> 90
       [] ~t.mutated /\ answered               -> 75
       [] ~t.mutated /\ ~answered /\ greeting  -> 15
       [] ~t.mutated /\ ~answered /\ ~greeting /\ t.cut # "no" -> IF t.tools THEN 55 ELSE 20
       [] OTHER                                -> 45

\* _finalize_salience.  An answer of zero counts as none.
FinalizeSalience(q, t, live) ==
  LET kind == IF live = NoAnswer THEN RuleKind(q, t)
              ELSE IF live.kind \in Salience THEN live.kind ELSE "fact"
      hot  == IF live = NoAnswer THEN RulePersist(q, t)
              ELSE IF live.persist <= 0 THEN 50 ELSE live.persist
  IN [kind |-> IF t.mutated /\ kind = "noise" THEN "artifact" ELSE kind,
      hot  |-> IF t.mutated /\ hot < 75 THEN 75 ELSE hot]

=============================================================================
