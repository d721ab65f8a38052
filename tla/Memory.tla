------------------------------- MODULE Memory -------------------------------
(***************************************************************************)
(* The memory of one agent (memory.py): remember_engram writes one id to   *)
(* five stores, of which all but sqlite may be down; _qdrant_ensure makes  *)
(* the vector collection anew when it is missing or of another size, and   *)
(* reindexes it from sqlite; recall reads two of them.  A call is a        *)
(* request or a job that has a plan of such steps: a chat turn recalls,    *)
(* remembers the decision, its tools and itself; a protocol or a playbook  *)
(* leaves its engrams and stamps the graph.  The stores are services of    *)
(* their own; calls run in threads of one server and take no lock.         *)
(***************************************************************************)
EXTENDS Recall, SequencesExt, Functions

CONSTANT Call      \* calls, each made once

Store == {"vector", "graph", "blob", "bus"}
Step  == {"recall", "stamp", "remember", "classify"}

VARIABLES
  plan,       \* what a call does, one step after the other
  said,       \* what the models answer its questions
  rows,       \* the episodes table: ids in the order inserted
  what,       \* id -> engram
  coll,       \* the collection: its vectors' size, or "none", and its points
  nodes,      \* the graph's nodes: ids, Agent, Scan, Detector
  edges,      \* its edges
  blobs,      \* ids with a blob
  recent,     \* ids on the bus
  down,       \* the stores that do not answer
  troubled,   \* has a store, or the server, been down?
  trampled,   \* has a collection of the right size been deleted?
  reindexing, \* is the agent in _reindexing?
  mpc,        \* where a call is
  at,         \* how far in its plan
  outer,      \* what its ensure was called for
  nested,     \* is it in an upsert of a reindex?
  todo,       \* the ids that reindex has listed and not done
  linked,     \* the ids of the tools a turn remembered, and of the digest
  hits,       \* the rows recall has read, and then those it returned
  gate        \* what the turn was told: act and kept
storeVars == <<rows, what, coll, nodes, edges, blobs, recent>>
faultVars == <<down, troubled, trampled>>
callVars  == <<plan, said, at, linked, hits, gate>>
memoryVars == <<storeVars, faultVars, callVars, reindexing, mpc, outer, nested, todo>>

MaxSteps == 4      \* bound: no plan remembers after so many steps
Id       == Call \X (0 .. MaxSteps)
Agent    == <<"agent", 0>>
Scan     == <<"scan", 0>>
Detector == <<"detector", 0>>
Size     == {"none", "old", "want"}
NoGate   == [act |-> "none", kept |-> {}]
InMemory == {c \in DOMAIN plan : mpc[c] \notin {"idle", "done"}}
Mine(c)  == <<c, at[c]>>
Doing(c) == plan[c][at[c]]

MemoryTypeOK ==
  /\ ToSet(rows) \subseteq Id /\ what \in [Id -> [kind : STRING, look : BOOLEAN, salience : STRING,
       hot : 0 .. 100, long : BOOLEAN, words : 0 .. 3, near : 0 .. 100, mutated : BOOLEAN]]
  /\ coll \in [size : Size, points : SUBSET Id]
  /\ nodes \subseteq Id \union {Agent, Scan, Detector} /\ blobs \subseteq Id /\ recent \subseteq Id
  /\ edges \subseteq (nodes \X nodes)
  /\ down \subseteq Store /\ reindexing \in BOOLEAN
  /\ mpc \in [Call -> {"idle", "begin", "get", "delete", "put", "mark", "list", "redo", "point", "search",
                       "meta", "node", "edge", "blob", "bus", "gate", "next", "stamp", "done"}]
  /\ outer \in [Call -> {"none", "meta", "point", "search"}] /\ nested \in [Call -> BOOLEAN]

-----------------------------------------------------------------------------
(* What is remembered of what                                              *)

\* An engram without salience: a note of what was done.
Note(k) == [kind |-> k, look |-> FALSE, salience |-> "none", hot |-> 0, long |-> TRUE,
            words |-> 0, near |-> 0, mutated |-> FALSE]
Remember(e) == [do |-> "remember", engram |-> e]

\* A chat turn: recall and the gate's decision, the tool it called, and the
\* turn itself, classified (run_turn, _run_chat_turn, _remember_chat).
TurnPlan(q, t, tool) ==
  <<[do |-> "recall", query |-> q], Remember(Note("decide"))>>
  \o (IF t.tools THEN <<Remember(tool)>> ELSE <<>>)
  \o <<[do |-> "classify", query |-> q, turn |-> t]>>

\* A protocol: the decision unless it is one of an older release, the digest,
\* the network when it has changed, the first finding raised; then the graph.
ProtocolPlan(class, raised, anew) ==
  (IF anew THEN <<Remember(Note("decide"))>> ELSE <<>>)
  \o <<Remember(Note("digest"))>>
  \o (IF class = "env_shift" THEN <<Remember(Note("env_shift"))>> ELSE <<>>)
  \o (IF raised THEN <<Remember(Note("finding"))>> ELSE <<>>)
  \o <<[do |-> "stamp"]>>

\* What these have in common: a plan recalls for one question, and what it
\* remembers on the way is no chat.
IsPlan(p) ==
  /\ p \in Seq(ToSet(p))
  /\ \A i \in DOMAIN p :
       /\ p[i].do \in Step
       /\ p[i].do \in {"remember", "classify"} => i <= MaxSteps
       /\ p[i].do = "remember" => p[i].engram.kind # "chat"
       /\ \A j \in DOMAIN p : p[i].do = "recall" /\ p[j].do = "recall" => p[i].query = p[j].query

-----------------------------------------------------------------------------
(* Stores that come and go                                                 *)

Fails(s) == s \in down

\* A bound: one outage and one restart in a behaviour.
Outage(may) ==
  /\ ~troubled /\ InMemory # {}
  /\ down' \in {{s} : s \in may} /\ troubled' = TRUE
  /\ UNCHANGED <<storeVars, callVars, trampled, reindexing, mpc, outer, nested, todo>>

Recovery ==
  /\ down # {} /\ down' = {}
  /\ UNCHANGED <<storeVars, callVars, troubled, trampled, reindexing, mpc, outer, nested, todo>>

Restart ==
  /\ ~troubled /\ InMemory # {} /\ troubled' = TRUE
  /\ reindexing' = FALSE
  /\ mpc' = [c \in Call |-> IF c \in InMemory THEN "done" ELSE mpc[c]]
  /\ UNCHANGED <<storeVars, callVars, down, trampled, outer, nested, todo>>

-----------------------------------------------------------------------------
(* _qdrant_ensure and reindex_vectors                                      *)

Goes(c, to) == mpc' = [mpc EXCEPT ![c] = to]
Ensure(c, for) == Goes(c, "get") /\ outer' = [outer EXCEPT ![c] = for]

\* The collection is there.
Ensured(c) == Goes(c, IF nested[c] THEN "point" ELSE outer[c])

\* An exception: ensure() and remember_engram go on with the next store,
\* recall without vectors, a reindex with its next row.
Raised(c) ==
  /\ Goes(c, CASE nested[c] -> "redo"
               [] ~nested[c] /\ outer[c] = "meta"   -> "meta"
               [] ~nested[c] /\ outer[c] = "point"  -> "blob"
               [] ~nested[c] /\ outer[c] = "search" -> "gate")
  /\ todo' = IF nested[c] THEN [todo EXCEPT ![c] = Tail(@)] ELSE todo

Get(c) ==
  /\ mpc[c] = "get"
  /\ IF Fails("vector") THEN Raised(c)
     ELSE /\ CASE coll.size = "want" -> Ensured(c)
               [] coll.size = "old"  -> Goes(c, "delete")
               [] coll.size = "none" -> Goes(c, "put")
          /\ UNCHANGED todo
  /\ UNCHANGED <<storeVars, faultVars, callVars, reindexing, outer, nested>>

\* Whatever is there by now goes.
Delete(c) ==
  /\ mpc[c] = "delete"
  /\ IF Fails("vector") THEN Raised(c) /\ UNCHANGED <<coll, trampled>>
     ELSE /\ coll' = [size |-> "none", points |-> {}]
          /\ trampled' = (trampled \/ coll.size = "want")
          /\ Goes(c, "put") /\ UNCHANGED todo
  /\ UNCHANGED <<rows, what, nodes, edges, blobs, recent, callVars, down, troubled, reindexing, outer, nested>>

\* "already exists" is as good as made.
Put(c) ==
  /\ mpc[c] = "put"
  /\ IF Fails("vector") THEN Raised(c) /\ UNCHANGED coll
     ELSE /\ coll' = IF coll.size = "none" THEN [size |-> "want", points |-> {}] ELSE coll
          /\ Goes(c, "mark") /\ UNCHANGED todo
  /\ UNCHANGED <<rows, what, nodes, edges, blobs, recent, faultVars, callVars, reindexing, outer, nested>>

\* Mutant: a collection that is made anew stays empty.
MarkNothing(c) ==
  /\ mpc[c] = "mark"
  /\ Ensured(c)
  /\ UNCHANGED <<storeVars, faultVars, callVars, reindexing, outer, nested, todo>>

Mark(c) ==
  /\ mpc[c] = "mark"
  /\ IF reindexing THEN Ensured(c) ELSE Goes(c, "list")
  /\ reindexing' = TRUE
  /\ UNCHANGED <<storeVars, faultVars, callVars, outer, nested, todo>>

\* list_episodes, newest first; its limit of 200 is out of the bounds.
List(c) ==
  /\ mpc[c] = "list"
  /\ todo' = [todo EXCEPT ![c] = Reverse(rows)]
  /\ Goes(c, "redo")
  /\ UNCHANGED <<storeVars, faultVars, callVars, reindexing, outer, nested>>

Redo(c) ==
  /\ mpc[c] = "redo"
  /\ IF todo[c] = <<>>
     THEN Goes(c, outer[c]) /\ nested' = [nested EXCEPT ![c] = FALSE] /\ reindexing' = FALSE
     ELSE Goes(c, "get") /\ nested' = [nested EXCEPT ![c] = TRUE] /\ UNCHANGED reindexing
  /\ UNCHANGED <<storeVars, faultVars, callVars, outer, todo>>

\* vector_upsert: a collection that is gone is an error.
Point(c) ==
  /\ mpc[c] = "point"
  /\ IF Fails("vector") \/ coll.size # "want" THEN Raised(c) /\ UNCHANGED coll
     ELSE /\ coll' = [coll EXCEPT !.points = @ \union {IF nested[c] THEN Head(todo[c]) ELSE Mine(c)}]
          /\ Goes(c, IF nested[c] THEN "redo" ELSE "blob")
          /\ todo' = IF nested[c] THEN [todo EXCEPT ![c] = Tail(@)] ELSE todo
  /\ UNCHANGED <<rows, what, nodes, edges, blobs, recent, faultVars, callVars, reindexing, outer, nested>>

-----------------------------------------------------------------------------
(* remember_engram                                                         *)

\* The turn's own engram carries what classify_turn makes of it.
Engram(c) ==
  LET d == Doing(c)
  IN IF d.do = "classify"
     THEN LET tag == FinalizeSalience(d.query, d.turn, JevHttp(said[c].first, said[c].second, FALSE))
          IN [kind |-> "chat", look |-> FALSE, salience |-> tag.kind, hot |-> tag.hot,
              long |-> d.turn.said = "long", words |-> 0, near |-> 0, mutated |-> d.turn.mutated]
     ELSE d.engram

Begin(c) ==
  /\ mpc[c] = "begin"
  /\ CASE Doing(c).do = "recall" ->
            /\ hits' = [hits EXCEPT ![c] = ToSet(rows)]
            /\ Ensure(c, "search")
       [] Doing(c).do \in {"remember", "classify"} -> Ensure(c, "meta") /\ UNCHANGED hits
       [] Doing(c).do = "stamp" -> Goes(c, "stamp") /\ UNCHANGED <<hits, outer>>
  /\ UNCHANGED <<storeVars, faultVars, plan, said, at, linked, gate, reindexing, nested, todo>>

Meta(c) ==
  /\ mpc[c] = "meta"
  /\ rows' = Append(rows, Mine(c))
  /\ what' = [what EXCEPT ![Mine(c)] = Engram(c)]
  /\ linked' = IF Doing(c).do = "remember" /\ Engram(c).kind \in {"tool", "digest"}
               THEN [linked EXCEPT ![c] = @ \union {Mine(c)}] ELSE linked
  /\ Goes(c, "node")
  /\ UNCHANGED <<coll, nodes, edges, blobs, recent, faultVars, plan, said, at, hits, gate,
                 reindexing, outer, nested, todo>>

\* _graph_attach: the engram's node, the agent's ...
Node(c) ==
  /\ mpc[c] = "node"
  /\ IF Fails("graph") THEN Ensure(c, "point") /\ UNCHANGED nodes
     ELSE nodes' = nodes \union {Mine(c), Agent} /\ Goes(c, "edge") /\ UNCHANGED outer
  /\ UNCHANGED <<rows, what, coll, edges, blobs, recent, faultVars, callVars, reindexing, nested, todo>>

\* ... and the edges, to the nodes that are there.
Edge(c) ==
  /\ mpc[c] = "edge"
  /\ IF Fails("graph") THEN UNCHANGED edges
     ELSE edges' = edges \union {<<Agent, Mine(c)>>}
                         \union (IF Doing(c).do = "classify" THEN {Mine(c)} \X (linked[c] \intersect nodes) ELSE {})
  /\ Ensure(c, "point")
  /\ UNCHANGED <<rows, what, coll, nodes, blobs, recent, faultVars, callVars, reindexing, nested, todo>>

Blob(c) ==
  /\ mpc[c] = "blob"
  /\ blobs' = IF Fails("blob") THEN blobs ELSE blobs \union {Mine(c)}
  /\ Goes(c, "bus")
  /\ UNCHANGED <<rows, what, coll, nodes, edges, recent, faultVars, callVars, reindexing, outer, nested, todo>>

Bus(c) ==
  /\ mpc[c] = "bus"
  /\ recent' = IF Fails("bus") THEN recent ELSE recent \union {Mine(c)}
  /\ Goes(c, "next")
  /\ UNCHANGED <<rows, what, coll, nodes, edges, blobs, faultVars, callVars, reindexing, outer, nested, todo>>

NextStep(c) ==
  /\ mpc[c] = "next" \/ (mpc[c] = "idle" /\ c \in DOMAIN plan)
  /\ at' = [at EXCEPT ![c] = @ + 1]
  /\ Goes(c, IF at[c] = Len(plan[c]) THEN "done" ELSE "begin")
  /\ UNCHANGED <<storeVars, faultVars, plan, said, linked, hits, gate, reindexing, outer, nested, todo>>

\* stamp_graph: four queries, each of which may be the one that fails.
Stamp(c) ==
  /\ mpc[c] = "stamp"
  /\ \E n \in IF Fails("graph") THEN 0 .. 3 ELSE {4} :
       /\ nodes' = nodes \union (IF n > 0 THEN {Scan} ELSE {}) \union (IF n > 1 THEN {Detector} ELSE {})
       /\ edges' = edges \union (IF n > 2 THEN {<<Scan, Detector>>} ELSE {})
                         \union (IF n > 3 THEN (linked[c] \intersect nodes) \X {Detector} ELSE {})
  /\ Goes(c, "next")
  /\ UNCHANGED <<rows, what, coll, blobs, recent, faultVars, callVars, reindexing, outer, nested, todo>>

-----------------------------------------------------------------------------
(* recall and gate_recall                                                  *)

\* The answer of vector_search; get_engram drops a point without a row.  The
\* rows that were scored by their words are those read before.
Gated(c, near) ==
  LET score == [i \in Id |-> Score(what[i], i \in near)]
      found == Recalled(what, {i \in hits[c] : what[i].words > 0} \union (near \intersect ToSet(rows)), near)
  IN /\ hits' = [hits EXCEPT ![c] = found]
     /\ gate' = [gate EXCEPT ![c] = GateRecall(Doing(c).query, what, found, score, Live(said[c], TRUE, TRUE))]
     /\ Goes(c, "next")
     /\ UNCHANGED <<storeVars, faultVars, plan, said, at, linked, reindexing, outer, nested, todo>>

Search(c) ==
  /\ mpc[c] = "search"
  /\ Gated(c, IF Fails("vector") \/ coll.size # "want" THEN {} ELSE coll.points)

\* The ensure raised: no vectors.
Gate(c) == mpc[c] = "gate" /\ Gated(c, {})

MemoryNext(may, restarts) ==
  \/ (may # {} /\ Outage(may)) \/ Recovery \/ (restarts /\ Restart)
  \/ \E c \in DOMAIN plan :
       \/ NextStep(c) \/ Begin(c) \/ Get(c) \/ Delete(c) \/ Put(c) \/ Mark(c) \/ List(c) \/ Redo(c) \/ Point(c)
       \/ Meta(c) \/ Node(c) \/ Edge(c) \/ Blob(c) \/ Bus(c) \/ Stamp(c) \/ Search(c) \/ Gate(c)

=============================================================================
