------------------------------- MODULE MCDesk -------------------------------
(***************************************************************************)
(* Scenes: engrams and turns over one memory, requests over the desk's     *)
(* files, terminals.                                                       *)
(***************************************************************************)
EXTENDS Desk

CONSTANTS c1, c2, w1, w2, w3, s1, s2, s3, t1, t2, t3

E(k, sal, hot, words, near) ==
  [kind |-> k, look |-> FALSE, salience |-> sal, hot |-> hot, long |-> TRUE, words |-> words,
   near |-> near, mutated |-> FALSE]
Chat   == E("chat", "fact", 75, 3, 70)
Weak   == E("chat", "fact", 45, 1, 50)
Near   == E("chat", "fact", 45, 0, 90)
Noise  == E("chat", "noise", 20, 2, 60)
Edited == [E("tool", "none", 0, 0, 0) EXCEPT !.mutated = TRUE]
Look   == [E("tool", "none", 0, 2, 60) EXCEPT !.look = TRUE]

Q(m, a, g) == [mutate |-> m, ask |-> a, greet |-> g]
Query == {Q(TRUE, FALSE, FALSE), Q(FALSE, TRUE, FALSE), Q(FALSE, FALSE, TRUE), Q(TRUE, TRUE, FALSE), Q(FALSE, FALSE, FALSE)}
T0(m, tools, s, cut) == [mutated |-> m, tools |-> tools, said |-> s, cut |-> cut]
Turns == {T0(TRUE, TRUE, "long", "no"), T0(TRUE, TRUE, "nothing", "gone"), T0(FALSE, TRUE, "short", "error"),
          T0(FALSE, FALSE, "short", "no"), T0(FALSE, FALSE, "nothing", "gone")}

Ans(a, k, s, p) == [act |-> a, keep |-> k, kind |-> s, persist |-> p]
Silent == [first |-> NoAnswer, second |-> NoAnswer, mercury |-> NoAnswer]
Answers == {Silent, [Silent EXCEPT !.first = Ans("use_memory", 90, "noise", 10)],
            [Silent EXCEPT !.first = Ans("read_disk", 90, "fact", 0)],
            [Silent EXCEPT !.second = Ans("use_memory", -1, "chatter", 80)],
            [Silent EXCEPT !.mercury = Ans("use_memory", 10, "none", -1)],
            [Silent EXCEPT !.mercury = Ans("none", 70, "none", -1)]}

NoFun == [x \in {} |-> 0]
Idle == [plan |-> NoFun, said |-> NoFun, rows |-> <<>>, size |-> "want", blank |-> Note("none"), fails |-> {},
         stops |-> FALSE, job |-> NoFun, index |-> <<>>, config |-> FALSE, kind |-> NoFun]

RowSets == {<<>>, <<Chat>>, <<Weak, Chat>>, <<Noise, Weak>>, <<Near>>, <<Look, Near>>}
Seeds(r) == [i \in DOMAIN r |-> <<IF i = 1 THEN c1 ELSE c2, r[i]>>]
Said(a) == [c \in Call |-> a]

TurnScenes ==
  {[Idle EXCEPT !.plan = c1 :> TurnPlan(q, t, IF t.mutated THEN Edited ELSE Look), !.said = Said(a), !.rows = Seeds(r), !.size = z] :
     q \in Query, t \in Turns, a \in Answers, r \in RowSets, z \in {"want", "none"}}
Calls(p, q) == c1 :> p @@ c2 :> q
MemoryScenes ==
  {[Idle EXCEPT !.plan = Calls(p, q), !.said = Said(Silent), !.rows = Seeds(<<Chat>>), !.size = z, !.fails = f] :
     p \in {<<Remember(Note("tool"))>>}, q \in {<<Remember(Note("finding"))>>},
     z \in {"want", "old", "none"}, f \in {{}, {"vector"}}} \union
  {[Idle EXCEPT !.plan = c1 :> p, !.said = Said(Silent), !.rows = Seeds(<<Chat, Weak>>), !.size = z,
                !.fails = {"vector", "graph", "blob", "bus"}, !.stops = TRUE] :
     p \in {ProtocolPlan("candidate", TRUE, TRUE), ProtocolPlan("env_shift", FALSE, FALSE)}, z \in Size}

Do(d) == [does |-> d, session |-> s1, timer |-> "watch", on |-> TRUE]
On(d, s) == [Do(d) EXCEPT !.session = s]
Set(t, b) == [Do("config") EXCEPT !.timer = t, !.on = b]
Jobs(x, y, z) == w1 :> x @@ w2 :> y @@ w3 :> z
FileScenes ==
  {[Idle EXCEPT !.job = j, !.index = i, !.stops = b] :
     j \in {Jobs(On("create", s1), On("save", s2), On("create", s3)), Jobs(On("save", s1), On("save", s1), On("save", s2)),
            Jobs(Do("key"), Do("key"), Do("key")), Jobs(Do("watch"), Do("watch"), Do("watch"))},
     i \in {<<s2>>}, b \in BOOLEAN} \union
  {[Idle EXCEPT !.job = Jobs(x, y, Set("scan", FALSE)), !.config = g, !.stops = TRUE] :
     x \in {Set("watch", TRUE)}, y \in {Set("watch", FALSE), Set("scan", TRUE)}, g \in BOOLEAN}
TermScenes ==
  {[Idle EXCEPT !.kind = t1 :> "pty" @@ t2 :> "pty" @@ t3 :> "pty"],
   [Idle EXCEPT !.kind = t1 :> "task" @@ t2 :> "pty"]}

MCScenes == TurnScenes \union MemoryScenes \union FileScenes \union TermScenes
=============================================================================
