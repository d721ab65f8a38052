-------------------------------- MODULE Desk --------------------------------
(***************************************************************************)
(* The parts of the cockpit around a chat turn: what it remembers and is   *)
(* reminded of (Memory), the files its pages keep (DeskFiles) and its      *)
(* terminals (Terminals).  They share the server and nothing else, so a    *)
(* behaviour has one of them at work: its scene says which calls come,     *)
(* what they find and what may fail.                                       *)
(***************************************************************************)
EXTENDS Memory, DeskFiles, Terminals

CONSTANT Scenes      \* bound: the scenes

\* Rows and files that were there before are as the same code left them.
ASSUME SceneAssumption ==
  \A x \in Scenes :
    /\ DOMAIN x.plan \subseteq Call /\ \A c \in DOMAIN x.plan : IsPlan(x.plan[c])
    /\ x.rows \in Seq(ToSet(x.rows)) /\ x.size \in Size
    /\ \A k \in DOMAIN x.rows :
         /\ x.rows[k][1] \in Call
         /\ x.rows[k][2].kind = "chat" /\ x.rows[k][2].mutated => ~RecallSkip(x.rows[k][2])
    /\ DOMAIN x.job \subseteq Writer
    /\ \A w \in DOMAIN x.job :
         /\ x.job[w].does \in {"create", "save", "key", "config", "watch"}
         /\ x.job[w].session \in Session /\ x.job[w].timer \in Timer /\ x.job[w].on \in BOOLEAN
    /\ x.index \in Seq(Session) /\ Len(x.index) <= MaxIndex
    /\ \A i, j \in DOMAIN x.index : x.index[i] = x.index[j] => i = j
    /\ DOMAIN x.kind \subseteq Term /\ \A t \in DOMAIN x.kind : x.kind[t] \in {"pty", "task"}

VARIABLE scene

vars == <<scene, memoryVars, deskVars, termVars>>

\* Rows that were there before, each with its point in a collection that is.
InitMemory ==
  /\ plan = scene.plan /\ said = scene.said
  /\ rows = [i \in 1 .. Len(scene.rows) |-> <<scene.rows[i][1], 0>>]
  /\ what = [i \in Id |-> IF \E k \in DOMAIN scene.rows : i = <<scene.rows[k][1], 0>>
                            THEN scene.rows[CHOOSE k \in DOMAIN scene.rows : i = <<scene.rows[k][1], 0>>][2]
                            ELSE scene.blank]
  /\ coll = [size |-> scene.size, points |-> IF scene.size = "none" THEN {} ELSE ToSet(rows)]
  /\ nodes = ToSet(rows) /\ edges = {} /\ blobs = {} /\ recent = {}
  /\ down = {} /\ troubled = FALSE /\ trampled = FALSE /\ reindexing = FALSE
  /\ mpc = [c \in Call |-> "idle"] /\ at = [c \in Call |-> 0]
  /\ outer = [c \in Call |-> "none"] /\ nested = [c \in Call |-> FALSE]
  /\ todo = [c \in Call |-> <<>>] /\ linked = [c \in Call |-> {}] /\ hits = [c \in Call |-> {}]
  /\ gate = [c \in Call |-> NoGate]

InitFiles ==
  /\ job = scene.job
  /\ text = [f \in File |->
       CASE f \in Session -> IF f \in ToSet(scene.index) THEN Says("before") ELSE NoText
         [] f = "index"   -> IF scene.index = <<>> THEN NoText ELSE Says(scene.index)
         [] f = "config"  -> IF scene.config THEN Says([t \in Timer |-> t = "scan"]) ELSE NoText
         [] OTHER         -> NoText]
  /\ draft = [f \in File |-> NoText]
  /\ fd = [w \in Writer |-> "gone"] /\ fpc = [w \in Writer |-> "idle"]
  /\ held = [w \in Writer |-> {}] /\ turn = [w \in Writer |-> 1]
  /\ old = [w \in Writer |-> [t \in Timer |-> t = "scan"]]
  /\ unit = [t \in Timer |-> t = "scan"] /\ deskHit = {}

InitTerminals ==
  /\ kind = scene.kind /\ live = 0 /\ tpc = [t \in Term |-> "idle"]
  /\ loaded = [t \in Term |-> 0] /\ shell = [t \in Term |-> "none"] /\ client = [t \in Term |-> "open"]
  /\ ended = [t \in Term |-> {}] /\ stopping = [t \in Term |-> FALSE] /\ lost = FALSE

Init == scene \in Scenes /\ InitMemory /\ InitFiles /\ InitTerminals

Next ==
  \/ MemoryNext(scene.fails, scene.stops) /\ UNCHANGED <<scene, deskVars, termVars>>
  \/ DeskFilesNext(scene.stops) /\ UNCHANGED <<scene, memoryVars, termVars>>
  \/ TerminalsNext /\ UNCHANGED <<scene, memoryVars, deskVars>>

Spec == Init /\ [][Next]_vars

-----------------------------------------------------------------------------
(* Properties                                                              *)

TypeOK ==
  /\ MemoryTypeOK /\ TerminalsTypeOK
  /\ \A w \in Writer : fd[w] \in {"tmp", "file", "gone"} /\ turn[w] \in 1 .. 2
  /\ \A f \in File : {text[f].kind, draft[f].kind} \subseteq {"none", "empty", "torn", "text"}

\* "That id is how stores point at each other": what the graph, the vectors,
\* the blobs and the bus hold of an engram has its row in sqlite, whatever is
\* down.  And a collection that is made anew gets every engram back: when no
\* call is under way and no store and no server has been down, each row has
\* its point, unless a call has deleted the collection that another had just
\* made.
LayersAgree ==
  /\ (nodes \ {Agent, Scan, Detector}) \union coll.points \union blobs \union recent
       \subseteq ToSet(rows)
  /\ InMemory = {} /\ ~troubled /\ ~trampled /\ coll.size = "want"
       => ToSet(rows) \subseteq coll.points

\* "Mutate cannot skip disk": a turn that answers from memory, and so gets no
\* tools, was not asked to change anything and has something to answer from.
\* And what a turn that changed files leaves is never skipped by a later
\* recall ("Edit/bash/chat remain").
MemoryKnowsItsPlace ==
  /\ \A c \in DOMAIN plan :
       gate[c].act = "use_memory" =>
         gate[c].kept # {} /\ \A i \in DOMAIN plan[c] : plan[c][i].do = "recall" => ~plan[c][i].query.mutate
  /\ \A i \in ToSet(rows) : what[i].kind = "chat" /\ what[i].mutated => ~RecallSkip(what[i])

\* "MiniLM finner like episoder" (docs/MEMORY.md): a row that the vector store finds close to the question
\* is recalled though it shares no word with it.
NearIsRecalled ==
  \A c \in DOMAIN plan :
    gate[c] # NoGate /\ ~troubled /\ scene.size = "want" =>
      \A i \in ToSet(rows) :
        i[2] = 0 /\ what[i].near >= 55 /\ ~RecallSkip(what[i]) => i \in hits[c]

\* What the index lists is there, however requests overlap and wherever they
\* are cut off; and while they neither overlap nor are cut off it lists every
\* conversation, as far as it goes.
IndexTellsFiles ==
  LET there == {s \in Session : text[s] # NoText}
  IN /\ text["index"].kind = "text" => ToSet(text["index"].value) \subseteq there
     /\ Writing = {} /\ "index" \notin deskHit /\ there # {} =>
          /\ text["index"].kind = "text"
          /\ Len(text["index"].value) = IF Cardinality(there) < MaxIndex THEN Cardinality(there) ELSE MaxIndex

\* "Missing keys in body are unchanged": while they neither overlap nor are
\* cut off, each settings request and each watch keeps what the others wrote,
\* and a timer stands as config.toml says.
SettingsHold ==
  Writing = {} =>
    /\ \A f \in {"env", "buffer"} : f \notin deskHit =>
         {w \in DOMAIN job : fpc[w] = "done" /\ f \in ToSet(Files(w))} \subseteq
           (IF text[f].kind = "text" THEN text[f].value ELSE {})
    /\ "config" \notin deskHit /\ text["config"].kind = "text" => text["config"].value = unit

\* A session that is over has hung up its shell, and _live counts those that
\* are not, whichever side ended first and whatever failed, unless one thread
\* stored _live over another's change.
SlotsReturn ==
  /\ lost \/ live = Cardinality({t \in Term : Counted(t)})
  /\ \A t \in Term : tpc[t] = "done" => ~Alive(t)

=============================================================================
