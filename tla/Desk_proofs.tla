---------------------------- MODULE Desk_proofs ----------------------------
(***************************************************************************)
(* Proofs about Desk for any number of calls, engrams, writers,            *)
(* conversations and terminals.  Its three parts share no variable, so     *)
(* each promise is about one of them, and the steps of the others keep it. *)
(***************************************************************************)
EXTENDS Desk, FiniteSetTheorems, TLAPS

\* What a behaviour is given never changes.
Given == scene \in Scenes /\ plan = scene.plan /\ job = scene.job /\ kind = scene.kind

LEMMA GivenStays == Given /\ [Next]_vars => Given'
<1> SUFFICES ASSUME Given, [Next]_vars PROVE Given'  OBVIOUS
<1>1. ASSUME TerminalsNext, UNCHANGED <<scene, memoryVars, deskVars>> PROVE Given'
  <2>1. kind' = kind
    BY <1>1 DEF TerminalsNext, ShellExits, ClientCloses, Arrive, Shake, Count, Spawn, Loop, Leave,
       LeaveStore, Hang, Accept, FromPty, FromWs, Ends, TermOver
  <2> QED  BY <1>1, <2>1 DEF Given, memoryVars, callVars, deskVars
<1>2. ASSUME DeskFilesNext(scene.stops), UNCHANGED <<scene, memoryVars, termVars>> PROVE Given'
  <2>1. job' = job
    BY <1>2 DEF DeskFilesNext, Start, Read, Open, Fill, Replace, Ctl, ServerStops
  <2> QED  BY <1>2, <2>1 DEF Given, memoryVars, callVars, termVars
<1>3. ASSUME MemoryNext(scene.fails, scene.stops), UNCHANGED <<scene, deskVars, termVars>> PROVE Given'
  <2>1. plan' = plan
    BY <1>3 DEF MemoryNext, Outage, Recovery, Restart, NextStep, Begin, Get, Delete, Put, Mark, List, Redo,
       Point, Meta, Node, Edge, Blob, Bus, Stamp, Search, Gate, Gated, callVars
  <2> QED  BY <1>3, <2>1 DEF Given, deskVars, termVars
<1>4. CASE UNCHANGED vars
  BY <1>4 DEF vars, Given, memoryVars, callVars, deskVars, termVars
<1> QED  BY <1>1, <1>2, <1>3, <1>4 DEF Next

LEMMA GivenHolds == Spec => []Given
<1>1. Init => Given  BY DEF Init, InitMemory, InitFiles, InitTerminals, Given
<1> QED  BY <1>1, GivenStays, PTL DEF Spec

-----------------------------------------------------------------------------
(* Terminals                                                               *)

TermShape ==
  /\ tpc = [t \in Term |-> tpc[t]] /\ loaded = [t \in Term |-> loaded[t]]
  /\ shell = [t \in Term |-> shell[t]] /\ lost \in BOOLEAN

\* A shell lives from its spawn to its session's hangup.
ShellInv ==
  \A t \in Term : Alive(t) => tpc[t] \in {"loop", "leave", "store", "hang", "tasks"}

\* Unless a thread came between, _live is right and so is what the one thread
\* about to store it has read.
CountInv ==
  ~lost =>
    /\ live = Cardinality({t \in Term : Counted(t)})
    /\ \A t \in Term : tpc[t] = "store" =>
         /\ loaded[t] = live
         /\ \A u \in Term : tpc[u] = "store" => u = t

TermInv == TermShape /\ ShellInv /\ CountInv

LEMMA CountOf ==
  /\ IsFiniteSet({t \in Term : Counted(t)})
  /\ Cardinality({t \in Term : Counted(t)}) \in Nat
<1>1. {t \in Term : Counted(t)} \subseteq Term  OBVIOUS
<1> QED  BY <1>1, TermAssumption, FS_Subset, FS_CardinalityType

LEMMA InitTermInv == InitTerminals => TermInv
<1> SUFFICES ASSUME InitTerminals PROVE TermInv  OBVIOUS
<1>1. {t \in Term : Counted(t)} = {}  BY DEF InitTerminals, Counted
<1>2. CountInv  BY <1>1, FS_EmptySet DEF InitTerminals, CountInv
<1> QED  BY <1>2 DEF InitTerminals, TermInv, TermShape, ShellInv, Alive

\* A step of a session that is counted after it if and only if it was before,
\* and that reads _live only when nobody else has it in hand.
LEMMA CountKept ==
  ASSUME TermInv, NEW t \in Term, NEW to, Moves(t, to) \/ (UNCHANGED tpc /\ to = tpc[t]),
         Counted(t) <=> to \in {"spawn", "loop", "leave", "store"}, live' = live,
         to = "store" /\ tpc[t] # "store" =>
           loaded' = [loaded EXCEPT ![t] = live] /\ lost' = (lost \/ \E u \in Term : tpc[u] = "store"),
         to # "store" \/ tpc[t] = "store" => UNCHANGED <<loaded, lost>>
  PROVE  CountInv'
<1> SUFFICES ASSUME ~lost' PROVE /\ live = Cardinality({u \in Term : Counted(u)'})
                                 /\ \A u \in Term : tpc'[u] = "store" =>
                                      /\ loaded'[u] = live
                                      /\ \A v \in Term : tpc'[v] = "store" => v = u
  BY DEF CountInv
<1>1. \A u \in Term : tpc'[u] = IF u = t THEN to ELSE tpc[u]
  BY DEF Moves, TermInv, TermShape
<1>2. \A u \in Term : Counted(u)' <=> Counted(u)  BY <1>1 DEF Counted
<1>3. {u \in Term : Counted(u)'} = {u \in Term : Counted(u)}  BY <1>2
<1>4. ~lost  OBVIOUS
<1>5. CASE to = "store" /\ tpc[t] # "store"
  BY <1>1, <1>3, <1>4, <1>5 DEF TermInv, CountInv, TermShape
<1>6. CASE to # "store" \/ tpc[t] = "store"
  BY <1>1, <1>3, <1>4, <1>6 DEF TermInv, CountInv
<1> QED  BY <1>5, <1>6

LEMMA TermInvStep == Given /\ TermInv /\ TerminalsNext => TermInv'
<1> SUFFICES ASSUME Given, TermInv, NEW t \in DOMAIN kind,
             \/ ShellExits(t) \/ ClientCloses(t)
             \/ Arrive(t) \/ Shake(t) \/ Count(t) \/ Spawn(t) \/ Loop(t) \/ Leave(t)
             \/ LeaveStore(t) \/ Hang(t)
             \/ Accept(t) \/ FromPty(t) \/ FromWs(t) \/ TermOver(t)
             PROVE TermInv'
  BY DEF TerminalsNext
<1>0. t \in Term  BY SceneAssumption DEF Given
<1>1. TermShape'
  BY <1>0 DEF TermInv, TermShape, ShellExits, ClientCloses, Arrive, Shake, Count, Spawn, Loop, Leave,
     LeaveStore, Hang, Accept, FromPty, FromWs, Ends, TermOver, Moves
<1>2. ShellInv'
  <2>1. CASE Hang(t) \/ TermOver(t)
    BY <1>0, <2>1 DEF TermInv, TermShape, ShellInv, Alive, Hang, TermOver, Moves
  <2>2. CASE Spawn(t) \/ Accept(t) \/ ShellExits(t)
    BY <1>0, <2>2 DEF TermInv, TermShape, ShellInv, Alive, Spawn, Accept, ShellExits, Moves
  <2>3. CASE ClientCloses(t) \/ FromPty(t) \/ FromWs(t)
    BY <2>3 DEF TermInv, ShellInv, Alive, ClientCloses, FromPty, FromWs, Ends
  <2>4. CASE Arrive(t) \/ Shake(t) \/ Count(t) \/ Loop(t) \/ Leave(t) \/ LeaveStore(t)
    BY <1>0, <2>4 DEF TermInv, TermShape, ShellInv, Alive, Arrive, Shake, Count, Loop, Leave, LeaveStore, Moves
  <2> QED  BY <2>1, <2>2, <2>3, <2>4
<1>3. CASE Count(t)
  <2> SUFFICES ASSUME ~lost' PROVE CountInv'  BY <1>1, <1>2 DEF CountInv, TermInv
  <2>1. ~lost /\ \A u \in Term : tpc[u] # "store"  BY <1>3 DEF Count
  <2>2. \A u \in Term : Counted(u)' <=> Counted(u) \/ u = t
    BY <1>0, <1>3 DEF Count, Moves, Counted, TermInv, TermShape
  <2>3. {u \in Term : Counted(u)'} = {u \in Term : Counted(u)} \union {t} /\ ~Counted(t)
    BY <1>0, <1>3, <2>2 DEF Count, Counted
  <2>4. Cardinality({u \in Term : Counted(u)'}) = live + 1
    <3>1. PICK C : C = {u \in Term : Counted(u)}  OBVIOUS
    <3>2. IsFiniteSet(C) /\ Cardinality(C) = live /\ t \notin C
      BY <2>1, <2>3, <3>1, CountOf DEF TermInv, CountInv
    <3>3. Cardinality(C \union {t}) = live + 1
      BY <3>2, FS_AddElement
    <3> QED  BY <2>3, <3>1, <3>3
  <2>5. \A u \in Term : tpc'[u] # "store"
    BY <1>0, <1>3, <2>1 DEF Count, Moves, TermInv, TermShape
  <2> QED  BY <1>3, <2>4, <2>5 DEF Count, CountInv
<1>4. CASE LeaveStore(t)
  <2> SUFFICES ASSUME ~lost' PROVE CountInv'  BY <1>1, <1>2 DEF CountInv, TermInv
  <2>1. ~lost /\ tpc[t] = "store"  BY <1>4 DEF LeaveStore
  <2>2. loaded[t] = live /\ live = Cardinality({u \in Term : Counted(u)})
        /\ \A u \in Term : tpc[u] = "store" => u = t
    BY <1>0, <2>1 DEF TermInv, CountInv
  <2>3. \A u \in Term : Counted(u)' <=> Counted(u) /\ u # t
    BY <1>0, <1>4 DEF LeaveStore, Moves, Counted, TermInv, TermShape
  <2>4. {u \in Term : Counted(u)'} = {u \in Term : Counted(u)} \ {t} /\ t \in {u \in Term : Counted(u)}
    BY <1>0, <2>1, <2>3 DEF Counted
  <2>5. Cardinality({u \in Term : Counted(u)'}) = live - 1 /\ live > 0 /\ live \in Nat
    <3>1. PICK C : C = {u \in Term : Counted(u)}  OBVIOUS
    <3>2. IsFiniteSet(C) /\ Cardinality(C) = live /\ live \in Nat /\ t \in C
      BY <2>2, <2>4, <3>1, CountOf
    <3>3. live # 0  BY <3>2, FS_EmptySet
    <3>4. Cardinality(C \ {t}) = live - 1  BY <3>2, FS_RemoveElement
    <3> QED  BY <2>4, <3>1, <3>2, <3>3, <3>4
  <2>6. live' = live - 1  BY <1>4, <2>2, <2>5 DEF LeaveStore
  <2>7. \A u \in Term : tpc'[u] # "store"
    BY <1>0, <1>4, <2>2 DEF LeaveStore, Moves, TermInv, TermShape
  <2> QED  BY <2>5, <2>6, <2>7 DEF CountInv
<1>5. CASE ~Count(t) /\ ~LeaveStore(t)
  <2>1. PICK to : /\ Moves(t, to) \/ (UNCHANGED tpc /\ to = tpc[t])
                  /\ Counted(t) <=> to \in {"spawn", "loop", "leave", "store"}
                  /\ live' = live
                  /\ to = "store" /\ tpc[t] # "store" =>
                       /\ loaded' = [loaded EXCEPT ![t] = live]
                       /\ lost' = (lost \/ \E u \in Term : tpc[u] = "store")
                  /\ to # "store" \/ tpc[t] = "store" => UNCHANGED <<loaded, lost>>
    BY <1>5 DEF Counted, ShellExits, ClientCloses, Arrive, Shake, Spawn, Loop, Leave, Hang, Accept, FromPty,
       FromWs, Ends, TermOver
  <2>2. CountInv'  BY <1>0, <2>1, CountKept
  <2> QED  BY <1>1, <1>2, <2>2 DEF TermInv
<1> QED  BY <1>1, <1>2, <1>3, <1>4, <1>5 DEF TermInv

LEMMA TermInvHolds == Spec => []TermInv
<1>1. Init => TermInv  BY InitTermInv DEF Init
<1>2. Given /\ TermInv /\ [Next]_vars => TermInv'
  <2> SUFFICES ASSUME Given, TermInv, [Next]_vars PROVE TermInv'  OBVIOUS
  <2>1. CASE UNCHANGED termVars
    BY <2>1 DEF termVars, TermInv, TermShape, ShellInv, CountInv, Counted, Alive
  <2> QED  BY <2>1, TermInvStep DEF Next, vars
<1> QED  BY <1>1, <1>2, GivenHolds, PTL DEF Spec

\* _live counts the sessions that are not over, and a session that is over has
\* hung up its shell (pty_ws.py, term.py): for any number of terminals, unless a
\* thread stored _live over another's change.
THEOREM SlotsComeBack == Spec => []SlotsReturn
<1>1. TermInv => SlotsReturn
  BY DEF TermInv, ShellInv, CountInv, SlotsReturn
<1> QED  BY <1>1, TermInvHolds, PTL

-----------------------------------------------------------------------------
(* Memory: where a call is                                                 *)

\* The steps of _qdrant_ensure and its reindex.
Ensuring == {"get", "delete", "put", "mark", "list", "redo"}

MemShape ==
  /\ mpc = [c \in Call |-> mpc[c]] /\ outer = [c \in Call |-> outer[c]]
  /\ nested = [c \in Call |-> nested[c]] /\ todo = [c \in Call |-> todo[c]]
  /\ hits = [c \in Call |-> hits[c]] /\ gate = [c \in Call |-> gate[c]]
  /\ at = [c \in Call |-> at[c]] /\ \A c \in Call : at[c] \in Nat
  /\ rows \in Seq(Id) /\ \A c \in Call : todo[c] \in Seq(Id)
  /\ what = [i \in Id |-> what[i]]
  /\ coll = [size |-> coll.size, points |-> coll.points] /\ coll.size \in Size

\* Whoever ensures the collection does it for what its plan says; a reindex
\* that is under way has a row in hand.
StepOf(c) ==
  /\ mpc[c] = "idle" => at[c] = 0
  /\ mpc[c] \notin {"idle", "done"} => at[c] \in DOMAIN plan[c]
  /\ mpc[c] \in {"meta", "node", "edge", "blob", "bus"} => Doing(c).do \in {"remember", "classify"}
  /\ mpc[c] \in {"search", "gate"} => Doing(c).do = "recall"
  /\ mpc[c] \in Ensuring \union {"point"} =>
       \/ outer[c] \in {"meta", "point"} /\ Doing(c).do \in {"remember", "classify"}
       \/ outer[c] = "search" /\ Doing(c).do = "recall"
  /\ mpc[c] = "point" /\ ~nested[c] => outer[c] = "point"
  /\ nested[c] => mpc[c] \in Ensuring \union {"point", "done"}
  /\ nested[c] /\ mpc[c] \in {"get", "delete", "put", "mark", "point"} => todo[c] # <<>>
StepInv == \A c \in DOMAIN plan : StepOf(c)

MemInv == MemShape /\ StepInv

\* What is anywhere has its row, what a call has written or will list too.
Holds(c) == \/ mpc[c] \in {"node", "edge", "blob", "bus"}
            \/ outer[c] = "point" /\ mpc[c] \in Ensuring \union {"point"}
StoreInv ==
  (nodes \ {Agent, Scan, Detector}) \union coll.points \union blobs \union recent \subseteq ToSet(rows)
RowOf(c) == (Holds(c) => Mine(c) \in ToSet(rows)) /\ ToSet(todo[c]) \subseteq ToSet(rows)
RowInv == StoreInv /\ \A c \in DOMAIN plan : RowOf(c)

\* As long as nothing was down and no new collection deleted: nobody is past an
\* ensure before the collection is there, and then each row has its point or is
\* with somebody who will make it.
Pending(c, r) ==
  \/ Mine(c) = r /\ mpc[c] \in {"node", "edge"}
  \/ Mine(c) = r /\ outer[c] = "point" /\ mpc[c] \in Ensuring \union {"point"}
  \/ mpc[c] = "list" \/ (mpc[c] = "mark" /\ ~reindexing)
  \/ r \in ToSet(todo[c]) /\ (mpc[c] = "redo" \/ (nested[c] /\ mpc[c] \in {"get", "point"}))
Early(c) == ~nested[c] /\ mpc[c] \in {"idle", "begin", "get", "delete", "put", "next", "stamp", "done"}
NobodyPast == ~reindexing /\ \A c \in DOMAIN plan : Early(c)
EveryRow == \A r \in ToSet(rows) : r \in coll.points \/ \E c \in DOMAIN plan : Pending(c, r)
Orderly(c) == /\ nested[c] => mpc[c] \in {"redo", "get", "point"}
              /\ mpc[c] = "put" => coll.size # "old"
GapInv ==
  ~troubled /\ ~trampled =>
    /\ down = {}
    /\ coll.size # "want" => NobodyPast
    /\ coll.size = "want" => EveryRow
    /\ \A c \in DOMAIN plan : Orderly(c)

\* What a turn was told, and how the engrams of turns are marked.
GateInv ==
  \A c \in DOMAIN plan :
    gate[c].act = "use_memory" =>
      gate[c].kept # {} /\ \A i \in DOMAIN plan[c] : plan[c][i].do = "recall" => ~plan[c][i].query.mutate
ChatInv == \A i \in ToSet(rows) : what[i].kind = "chat" /\ what[i].mutated => ~RecallSkip(what[i])

-----------------------------------------------------------------------------
(* Memory: sequences of ids                                                *)

LEMMA SetOfAppend ==
  ASSUME NEW S, NEW s \in Seq(S), NEW x \in S
  PROVE  Append(s, x) \in Seq(S) /\ ToSet(Append(s, x)) = ToSet(s) \union {x}
<1>1. Len(Append(s, x)) = Len(s) + 1 /\ Append(s, x)[Len(s) + 1] = x
      /\ \A i \in 1 .. Len(s) : Append(s, x)[i] = s[i]
  OBVIOUS
<1>2. Append(s, x) \in Seq(S)  OBVIOUS
<1>3. DOMAIN Append(s, x) = DOMAIN s \union {Len(s) + 1}  OBVIOUS
<1> QED  BY <1>1, <1>2, <1>3 DEF ToSet

LEMMA SetOfReverse ==
  ASSUME NEW S, NEW s \in Seq(S)
  PROVE  Reverse(s) \in Seq(S) /\ ToSet(Reverse(s)) = ToSet(s)
<1>1. Reverse(s) \in Seq(S)  BY DEF Reverse
<1>2. \A i \in 1 .. Len(s) : (Len(s) - i) + 1 \in 1 .. Len(s) /\ Reverse(s)[i] = s[(Len(s) - i) + 1]
  BY DEF Reverse
<1>3. \A i \in 1 .. Len(s) : Reverse(s)[(Len(s) - i) + 1] = s[i]
  <2> SUFFICES ASSUME NEW i \in 1 .. Len(s) PROVE Reverse(s)[(Len(s) - i) + 1] = s[i]  OBVIOUS
  <2>1. (Len(s) - ((Len(s) - i) + 1)) + 1 = i  OBVIOUS
  <2> QED  BY <1>2, <2>1
<1>4. DOMAIN Reverse(s) = 1 .. Len(s) /\ DOMAIN s = 1 .. Len(s)  BY DEF Reverse
<1> QED  BY <1>1, <1>2, <1>3, <1>4 DEF ToSet

LEMMA SetOfTail ==
  ASSUME NEW S, NEW s \in Seq(S), s # <<>>
  PROVE  Head(s) \in S /\ Tail(s) \in Seq(S) /\ ToSet(s) = {Head(s)} \union ToSet(Tail(s))
<1>1. Tail(s) \in Seq(S) /\ Head(s) = s[1] /\ Head(s) \in S /\ Len(s) \in Nat \ {0}  OBVIOUS
<1>2. Len(Tail(s)) = Len(s) - 1 /\ \A i \in 1 .. Len(s) - 1 : Tail(s)[i] = s[i + 1]  BY <1>1
<1>3. DOMAIN Tail(s) = 1 .. Len(s) - 1 /\ DOMAIN s = 1 .. Len(s)  BY <1>1, <1>2
<1>4. PICK t : t = Tail(s)  OBVIOUS
<1>5. ASSUME NEW x \in ToSet(s) PROVE x \in {s[1]} \union ToSet(t)
  <2>1. PICK i \in 1 .. Len(s) : x = s[i]  BY <1>3 DEF ToSet
  <2>2. CASE i = 1  BY <2>1, <2>2
  <2>3. CASE i # 1
    <3>1. i - 1 \in 1 .. Len(s) - 1 /\ (i - 1) + 1 = i  BY <1>1, <2>3
    <3>2. t[i - 1] = x  BY <1>2, <1>4, <2>1, <3>1
    <3>3. i - 1 \in DOMAIN t  BY <1>3, <1>4, <3>1
    <3> QED  BY <3>2, <3>3 DEF ToSet
  <2> QED  BY <2>2, <2>3
<1>6. ASSUME NEW x \in ToSet(t) PROVE x \in ToSet(s)
  <2>1. PICK i \in 1 .. Len(s) - 1 : x = t[i]  BY <1>3, <1>4, <1>6 DEF ToSet
  <2>2. i + 1 \in DOMAIN s /\ s[i + 1] = x  BY <1>1, <1>2, <1>3, <1>4, <2>1
  <2> QED  BY <2>2 DEF ToSet
<1>7. s[1] \in ToSet(s)  BY <1>1, <1>3 DEF ToSet
<1> QED  BY <1>1, <1>4, <1>5, <1>6, <1>7

-----------------------------------------------------------------------------
(* Memory: steps keep their places                                         *)

Act(c) ==
  \/ NextStep(c) \/ Begin(c) \/ Get(c) \/ Delete(c) \/ Put(c) \/ Mark(c) \/ List(c) \/ Redo(c) \/ Point(c)
  \/ Meta(c) \/ Node(c) \/ Edge(c) \/ Blob(c) \/ Bus(c) \/ Stamp(c) \/ Search(c) \/ Gate(c)
Weather == Outage(scene.fails) \/ Recovery \/ Restart

LEMMA MemoryActs ==
  MemoryNext(scene.fails, scene.stops) => Weather \/ \E c \in DOMAIN plan : Act(c)
BY DEF MemoryNext, Weather, Act

LEMMA PlanOf ==
  ASSUME Given, NEW c \in DOMAIN plan
  PROVE  /\ c \in Call /\ IsPlan(plan[c]) /\ Len(plan[c]) \in Nat /\ DOMAIN plan[c] = 1 .. Len(plan[c])
         /\ \A i \in DOMAIN plan[c] : plan[c][i].do \in Step
<1>1. c \in Call /\ IsPlan(plan[c])  BY SceneAssumption DEF Given
<1>2. plan[c] \in Seq(ToSet(plan[c]))  BY <1>1 DEF IsPlan
<1> QED  BY <1>1, <1>2 DEF IsPlan

LEMMA InitMemInv == Given /\ InitMemory => MemInv
<1> SUFFICES ASSUME Given, InitMemory PROVE MemInv  OBVIOUS
<1>1. scene.rows \in Seq(ToSet(scene.rows)) /\ scene.size \in Size
      /\ \A k \in DOMAIN scene.rows : scene.rows[k][1] \in Call
  BY SceneAssumption DEF Given
<1>2. Len(scene.rows) \in Nat /\ DOMAIN scene.rows = 1 .. Len(scene.rows)  BY <1>1
<1>3. \A k \in 1 .. Len(scene.rows) : <<scene.rows[k][1], 0>> \in Id  BY <1>1, <1>2 DEF Id, MaxSteps
<1>4. rows \in Seq(Id)
  <2>1. rows = [k \in 1 .. Len(scene.rows) |-> <<scene.rows[k][1], 0>>]  BY DEF InitMemory
  <2> QED  BY <1>2, <1>3, <2>1
<1>5. <<>> \in Seq(Id)  OBVIOUS
<1>6. coll = [size |-> coll.size, points |-> coll.points] /\ coll.size \in Size
  BY <1>1 DEF InitMemory
<1>7. MemShape
  BY <1>4, <1>5, <1>6 DEF InitMemory, MemShape
<1>8. StepInv
  <2>1. \A c \in DOMAIN plan : c \in Call  BY PlanOf
  <2> QED  BY <2>1 DEF InitMemory, StepInv, StepOf, Ensuring
<1> QED  BY <1>7, <1>8 DEF MemInv

\* What the branches of some steps come to.
LEMMA BeginDoes ==
  ASSUME Given, MemInv, NEW c \in DOMAIN plan, Begin(c)
  PROVE  /\ Doing(c).do \in Step /\ at[c] \in DOMAIN plan[c] /\ ~nested[c] /\ mpc[c] = "begin"
         /\ \/ /\ Doing(c).do = "recall"
               /\ mpc' = [mpc EXCEPT ![c] = "get"] /\ outer' = [outer EXCEPT ![c] = "search"]
               /\ hits' = [hits EXCEPT ![c] = ToSet(rows)]
            \/ /\ Doing(c).do \in {"remember", "classify"}
               /\ mpc' = [mpc EXCEPT ![c] = "get"] /\ outer' = [outer EXCEPT ![c] = "meta"]
               /\ UNCHANGED hits
            \/ /\ Doing(c).do = "stamp" /\ mpc' = [mpc EXCEPT ![c] = "stamp"] /\ UNCHANGED <<hits, outer>>
         /\ UNCHANGED <<storeVars, faultVars, plan, said, at, linked, gate, reindexing, nested, todo>>
<1>1. StepOf(c) /\ c \in Call  BY PlanOf DEF MemInv, StepInv
<1>2. Doing(c).do \in Step /\ at[c] \in DOMAIN plan[c] /\ ~nested[c] /\ mpc[c] = "begin"
  BY <1>1, PlanOf DEF Begin, StepOf, Doing, Ensuring
<1>3. CASE Doing(c).do = "recall"  BY <1>2, <1>3 DEF Begin, Ensure, Goes
<1>4. CASE Doing(c).do \in {"remember", "classify"}  BY <1>2, <1>4 DEF Begin, Ensure, Goes
<1>5. CASE Doing(c).do = "stamp"  BY <1>2, <1>5 DEF Begin, Ensure, Goes
<1> QED  BY <1>2, <1>3, <1>4, <1>5 DEF Step

LEMMA RaisedDoes ==
  ASSUME Given, MemInv, NEW c \in DOMAIN plan, mpc[c] \in Ensuring \union {"point"}, Raised(c)
  PROVE  \/ nested[c] /\ mpc' = [mpc EXCEPT ![c] = "redo"] /\ todo' = [todo EXCEPT ![c] = Tail(@)]
         \/ /\ ~nested[c] /\ UNCHANGED todo
            /\ \/ outer[c] = "meta" /\ mpc' = [mpc EXCEPT ![c] = "meta"]
               \/ outer[c] = "point" /\ mpc' = [mpc EXCEPT ![c] = "blob"]
               \/ outer[c] = "search" /\ mpc' = [mpc EXCEPT ![c] = "gate"]
<1>1. StepOf(c)  BY DEF MemInv, StepInv
<1>2. CASE nested[c]  BY <1>2 DEF Raised, Goes
<1>3. CASE ~nested[c] /\ outer[c] = "meta"  BY <1>3 DEF Raised, Goes
<1>4. CASE ~nested[c] /\ outer[c] = "point"  BY <1>4 DEF Raised, Goes
<1>5. CASE ~nested[c] /\ outer[c] = "search"  BY <1>5 DEF Raised, Goes
<1> QED  BY <1>1, <1>2, <1>3, <1>4, <1>5 DEF StepOf, Ensuring

\* A step of _qdrant_ensure, or of an upsert, that raises or goes on.
LEMMA EnsureDoes ==
  ASSUME Given, MemInv, NEW c \in DOMAIN plan, Get(c) \/ Delete(c) \/ Put(c) \/ Point(c)
  PROVE  /\ mpc[c] \in {"get", "delete", "put", "point"}
         /\ UNCHANGED <<rows, what, nodes, edges, blobs, recent, callVars, down, troubled, reindexing,
                        outer, nested>>
         /\ \/ /\ Raised(c) /\ UNCHANGED <<coll, trampled>>
               /\ "vector" \in down \/ (mpc[c] = "point" /\ coll.size # "want")
            \/ /\ "vector" \notin down /\ mpc[c] = "get" /\ UNCHANGED <<coll, trampled, todo>>
               /\ \/ coll.size = "want" /\ nested[c] /\ mpc' = [mpc EXCEPT ![c] = "point"]
                  \/ coll.size = "want" /\ ~nested[c] /\ mpc' = [mpc EXCEPT ![c] = outer[c]]
                  \/ coll.size = "old" /\ mpc' = [mpc EXCEPT ![c] = "delete"]
                  \/ coll.size = "none" /\ mpc' = [mpc EXCEPT ![c] = "put"]
            \/ /\ "vector" \notin down /\ mpc[c] = "delete" /\ UNCHANGED todo
               /\ coll' = [size |-> "none", points |-> {}]
               /\ trampled' = (trampled \/ coll.size = "want")
               /\ mpc' = [mpc EXCEPT ![c] = "put"]
            \/ /\ "vector" \notin down /\ mpc[c] = "put" /\ UNCHANGED <<todo, trampled>>
               /\ \/ coll.size = "none" /\ coll' = [size |-> "want", points |-> {}]
                  \/ coll.size # "none" /\ coll' = coll
               /\ mpc' = [mpc EXCEPT ![c] = "mark"]
            \/ /\ "vector" \notin down /\ mpc[c] = "point" /\ coll.size = "want" /\ UNCHANGED trampled
               /\ \/ /\ nested[c] /\ mpc' = [mpc EXCEPT ![c] = "redo"]
                     /\ todo' = [todo EXCEPT ![c] = Tail(@)]
                     /\ coll' = [size |-> "want", points |-> coll.points \union {Head(todo[c])}]
                  \/ /\ ~nested[c] /\ mpc' = [mpc EXCEPT ![c] = "blob"] /\ UNCHANGED todo
                     /\ coll' = [size |-> "want", points |-> coll.points \union {Mine(c)}]
<1>1. coll = [size |-> coll.size, points |-> coll.points] /\ coll.size \in Size  BY DEF MemInv, MemShape
<1>2. CASE Get(c)
  <2>1. CASE coll.size = "want"
    BY <1>2, <2>1 DEF Get, Fails, Ensured, Goes, storeVars, faultVars, callVars
  <2>2. CASE coll.size = "old"
    BY <1>2, <2>2 DEF Get, Fails, Ensured, Goes, storeVars, faultVars, callVars
  <2>3. CASE coll.size = "none"
    BY <1>2, <2>3 DEF Get, Fails, Ensured, Goes, storeVars, faultVars, callVars
  <2> QED  BY <1>1, <2>1, <2>2, <2>3 DEF Size
<1>3. CASE Delete(c)
  BY <1>3 DEF Delete, Fails, Goes, callVars
<1>4. CASE Put(c)
  BY <1>4 DEF Put, Fails, Goes, callVars, faultVars
<1>5. CASE Point(c)
  BY <1>1, <1>5 DEF Point, Fails, Goes, callVars, faultVars
<1> QED  BY <1>2, <1>3, <1>4, <1>5

\* A step of one call is at the call's own places.
LEMMA ActLocal ==
  ASSUME Given, MemInv, NEW c \in DOMAIN plan, Act(c)
  PROVE  /\ plan' = plan
         /\ \A d \in Call : d # c => /\ mpc'[d] = mpc[d] /\ at'[d] = at[d] /\ outer'[d] = outer[d]
                                     /\ nested'[d] = nested[d] /\ todo'[d] = todo[d] /\ gate'[d] = gate[d]
<1>1. c \in Call  BY PlanOf
<1>2. CASE NextStep(c)
  BY <1>1, <1>2 DEF MemInv, MemShape, NextStep, Goes, callVars
<1>7. CASE Begin(c)
  <2>1. /\ \E to : mpc' = [mpc EXCEPT ![c] = to]
        /\ outer' = outer \/ \E to : outer' = [outer EXCEPT ![c] = to]
        /\ UNCHANGED <<plan, at, nested, todo, gate>>
    BY <1>7, BeginDoes
  <2> QED  BY <1>1, <2>1 DEF MemInv, MemShape
<1>8. CASE Get(c) \/ Delete(c) \/ Put(c) \/ Point(c)
  <2>1. /\ \E to : mpc' = [mpc EXCEPT ![c] = to]
        /\ todo' = todo \/ todo' = [todo EXCEPT ![c] = Tail(@)]
        /\ UNCHANGED <<callVars, outer, nested>>
    BY <1>8, EnsureDoes, RaisedDoes DEF Ensuring
  <2> QED  BY <1>1, <2>1 DEF MemInv, MemShape, callVars
<1>3. CASE Mark(c) \/ List(c) \/ Redo(c) \/ Meta(c)
  BY <1>1, <1>3 DEF MemInv, MemShape, Mark, List, Redo, Meta, Goes, Ensure, Ensured, callVars
<1>4. CASE Node(c) \/ Edge(c) \/ Blob(c) \/ Bus(c) \/ Stamp(c)
  BY <1>1, <1>4 DEF MemInv, MemShape, Node, Edge, Blob, Bus, Stamp, Goes, Ensure, callVars
<1>5. ASSUME NEW near, Gated(c, near)
      PROVE  /\ plan' = plan /\ at' = at /\ outer' = outer /\ nested' = nested /\ todo' = todo
             /\ mpc' = [mpc EXCEPT ![c] = "next"]
             /\ \A d \in Call : d # c => gate'[d] = gate[d]
  BY <1>1, <1>5 DEF MemInv, MemShape, Gated, Goes
<1>6. CASE Search(c) \/ Gate(c)
  <2>1. PICK near : Gated(c, near)  BY <1>6 DEF Search, Gate
  <2> QED  BY <1>1, <1>5, <2>1 DEF MemInv, MemShape
<1> QED  BY <1>2, <1>3, <1>4, <1>6, <1>7, <1>8 DEF Act

LEMMA MineIsId ==
  ASSUME Given, MemInv, NEW c \in DOMAIN plan, mpc[c] = "meta"
  PROVE  Mine(c) \in Id
<1>1. StepOf(c) /\ c \in Call  BY PlanOf DEF MemInv, StepInv
<1>2. at[c] \in DOMAIN plan[c] /\ plan[c][at[c]].do \in {"remember", "classify"}
  BY <1>1 DEF StepOf, Doing
<1>3. at[c] \in 0 .. MaxSteps
  BY <1>1, <1>2, PlanOf DEF IsPlan, MemInv, MemShape, MaxSteps
<1> QED  BY <1>1, <1>3 DEF Id, Mine

LEMMA MemShapeAct ==
  ASSUME Given, MemInv, NEW c \in DOMAIN plan, Act(c)
  PROVE  MemShape'
<1>1. c \in Call /\ \A s \in Seq(Id) : Reverse(s) \in Seq(Id)  BY PlanOf, SetOfReverse
<1>2. \A s \in Seq(Id) : s # <<>> => Tail(s) \in Seq(Id)  BY SetOfTail
<1>3. StepOf(c)  BY DEF MemInv, StepInv
<1>4. CASE Mark(c) \/ Redo(c)
  BY <1>1, <1>4 DEF MemInv, MemShape, Mark, Redo, Goes, Ensure, Ensured, callVars, storeVars
<1>13. CASE Begin(c)
  BY <1>1, <1>13, BeginDoes DEF MemInv, MemShape, storeVars
<1>14. CASE NextStep(c)
  <2>1. at[c] \in Nat /\ at[c] + 1 \in Nat  BY <1>1 DEF MemInv, MemShape
  <2> QED  BY <1>1, <1>14, <2>1 DEF MemInv, MemShape, NextStep, Goes, storeVars
<1>5. CASE Node(c) \/ Edge(c) \/ Blob(c) \/ Bus(c) \/ Stamp(c)
  BY <1>1, <1>5 DEF MemInv, MemShape, Node, Edge, Blob, Bus, Stamp, Goes, Ensure, callVars, storeVars
<1>6. CASE Search(c) \/ Gate(c)
  <2>1. PICK near : Gated(c, near)  BY <1>6 DEF Search, Gate
  <2> QED  BY <1>1, <2>1 DEF MemInv, MemShape, Gated, Goes, storeVars
<1>7. CASE Get(c) \/ Delete(c) \/ Put(c) \/ Point(c)
  <2>1. /\ todo' = todo \/ (nested[c] /\ todo' = [todo EXCEPT ![c] = Tail(@)])
        /\ \E to : mpc' = [mpc EXCEPT ![c] = to]
        /\ coll' = [size |-> coll'.size, points |-> coll'.points] /\ coll'.size \in Size
        /\ UNCHANGED <<rows, what, hits, gate, at, outer, nested>>
        /\ mpc[c] \in {"get", "delete", "put", "point"}
    <3>1. /\ \/ Raised(c) /\ UNCHANGED <<coll, trampled>>
             \/ UNCHANGED todo /\ \E to : mpc' = [mpc EXCEPT ![c] = to]
             \/ nested[c] /\ todo' = [todo EXCEPT ![c] = Tail(@)] /\ \E to : mpc' = [mpc EXCEPT ![c] = to]
          /\ \/ UNCHANGED coll
             \/ \E n, x : coll' = [size |-> n, points |-> x] /\ n \in Size
          /\ UNCHANGED <<rows, what, callVars, outer, nested>>
          /\ mpc[c] \in {"get", "delete", "put", "point"}
      BY <1>7, EnsureDoes DEF Size
    <3>2. UNCHANGED <<hits, gate, at>>  BY <3>1 DEF callVars
    <3>3. \/ UNCHANGED todo /\ \E to : mpc' = [mpc EXCEPT ![c] = to]
          \/ nested[c] /\ todo' = [todo EXCEPT ![c] = Tail(@)] /\ \E to : mpc' = [mpc EXCEPT ![c] = to]
      BY <3>1, RaisedDoes DEF Ensuring
    <3>4. coll' = [size |-> coll'.size, points |-> coll'.points] /\ coll'.size \in Size
      BY <3>1 DEF MemInv, MemShape
    <3> QED  BY <3>1, <3>2, <3>3, <3>4
  <2>2. nested[c] => Tail(todo[c]) \in Seq(Id)
    BY <1>1, <1>2, <1>3, <2>1 DEF StepOf, MemInv, MemShape
  <2>3. todo' = [d \in Call |-> todo'[d]] /\ \A d \in Call : todo'[d] \in Seq(Id)
    BY <1>1, <2>1, <2>2 DEF MemInv, MemShape
  <2>4. mpc' = [d \in Call |-> mpc'[d]]
    BY <1>1, <2>1 DEF MemInv, MemShape
  <2> QED  BY <2>1, <2>3, <2>4 DEF MemInv, MemShape
<1>11. CASE List(c)
  BY <1>1, <1>11 DEF MemInv, MemShape, List, Goes, callVars, storeVars
<1>12. CASE Meta(c)
  <2>1. Mine(c) \in Id  BY <1>12, MineIsId DEF Meta
  <2>2. Append(rows, Mine(c)) \in Seq(Id)  BY <2>1, SetOfAppend DEF MemInv, MemShape
  <2> QED  BY <1>1, <1>12, <2>2 DEF MemInv, MemShape, Meta, Goes
<1> QED  BY <1>4, <1>5, <1>6, <1>7, <1>11, <1>12, <1>13, <1>14 DEF Act

LEMMA MemInvStep == Given /\ MemInv /\ MemoryNext(scene.fails, scene.stops) => MemInv'
<1> SUFFICES ASSUME Given, MemInv, MemoryNext(scene.fails, scene.stops) PROVE MemInv'  OBVIOUS
<1>1. CASE Weather
  <2>1. MemShape'
    BY <1>1 DEF Weather, Outage, Recovery, Restart, MemInv, MemShape, storeVars, callVars
  <2>2. ASSUME NEW d \in DOMAIN plan PROVE StepOf(d)'
    <3>1. StepOf(d) /\ d \in Call  BY PlanOf DEF MemInv, StepInv
    <3> QED
      BY <1>1, <3>1 DEF Weather, Outage, Recovery, Restart, StepOf, Doing, Ensuring, storeVars, callVars, InMemory
  <2>3. plan' = plan  BY <1>1 DEF Weather, Outage, Recovery, Restart, callVars
  <2> QED  BY <2>1, <2>2, <2>3 DEF MemInv, StepInv
<1>2. ASSUME NEW c \in DOMAIN plan, Act(c) PROVE MemInv'
  <2>1. MemShape' /\ plan' = plan  BY <1>2, ActLocal, MemShapeAct
  <2>2. ASSUME NEW d \in DOMAIN plan, d # c PROVE StepOf(d)'
    <3>1. StepOf(d) /\ d \in Call  BY PlanOf DEF MemInv, StepInv
    <3>2. /\ mpc'[d] = mpc[d] /\ at'[d] = at[d] /\ outer'[d] = outer[d]
          /\ nested'[d] = nested[d] /\ todo'[d] = todo[d]
      BY <1>2, <2>2, <3>1, ActLocal
    <3> QED  BY <2>1, <3>1, <3>2 DEF StepOf, Doing
  <2>3. StepOf(c)'
    <3>1. StepOf(c) /\ c \in Call  BY PlanOf DEF MemInv, StepInv
    <3>2. CASE NextStep(c)
      <4>1. at[c] \in Nat /\ mpc'[c] \in {"begin", "done"} /\ at'[c] = at[c] + 1
            /\ (mpc'[c] = "begin" => at[c] # Len(plan[c]))
        BY <3>1, <3>2 DEF NextStep, Goes, MemInv, MemShape
      <4>2. at[c] \in 0 .. Len(plan[c])
        BY <3>1, <3>2, PlanOf DEF NextStep, StepOf
      <4>3. mpc'[c] = "begin" => at'[c] \in DOMAIN plan[c]
        BY <4>1, <4>2, PlanOf
      <4>4. ~nested'[c]
        BY <3>1, <3>2 DEF NextStep, StepOf, Ensuring
      <4> QED  BY <2>1, <4>1, <4>3, <4>4 DEF StepOf, Ensuring
    <3>3. CASE Begin(c)
      <4>1. /\ mpc'[c] \in {"get", "stamp"} /\ UNCHANGED <<at, nested, todo>> /\ ~nested[c]
            /\ mpc'[c] = "get" =>
                 \/ outer'[c] = "search" /\ Doing(c).do = "recall"
                 \/ outer'[c] = "meta" /\ Doing(c).do \in {"remember", "classify"}
            /\ at[c] \in DOMAIN plan[c]
        <5>1. Doing(c).do \in Step /\ at[c] \in DOMAIN plan[c] /\ ~nested[c]
          BY <3>1, <3>3, PlanOf DEF Begin, StepOf, Doing, Ensuring
        <5> QED  BY <3>1, <3>3, <5>1 DEF Begin, Ensure, Goes, MemInv, MemShape, Step
      <4> QED  BY <2>1, <4>1 DEF StepOf, Doing, Ensuring
    <3>4. CASE Get(c)
      BY <2>1, <3>1, <3>4 DEF Get, StepOf, Doing, Ensuring, Ensured, Raised, Goes, MemInv, MemShape, callVars, Size
    <3>5. CASE Delete(c) \/ Put(c)
      BY <2>1, <3>1, <3>5 DEF Delete, Put, StepOf, Doing, Ensuring, Raised, Goes, MemInv, MemShape, callVars
    <3>6. CASE Mark(c) \/ List(c) \/ Redo(c)
      BY <2>1, <3>1, <3>6 DEF Mark, List, Redo, StepOf, Doing, Ensuring, Ensured, Goes, MemInv, MemShape, callVars
    <3>7. CASE Point(c)
      BY <2>1, <3>1, <3>7 DEF Point, StepOf, Doing, Ensuring, Raised, Goes, MemInv, MemShape, callVars
    <3>8. CASE Meta(c) \/ Node(c) \/ Edge(c) \/ Blob(c) \/ Bus(c) \/ Stamp(c)
      BY <2>1, <3>1, <3>8 DEF Meta, Node, Edge, Blob, Bus, Stamp, StepOf, Doing, Ensuring, Ensure, Goes, MemInv,
         MemShape, callVars
    <3>9. CASE Search(c) \/ Gate(c)
      <4>1. PICK near : Gated(c, near)  BY <3>9 DEF Search, Gate
      <4> QED  BY <2>1, <3>1, <3>9, <4>1 DEF Search, Gate, Gated, StepOf, Doing, Ensuring, Goes, MemInv, MemShape
    <3> QED  BY <1>2, <3>2, <3>3, <3>4, <3>5, <3>6, <3>7, <3>8, <3>9 DEF Act
  <2> QED  BY <2>1, <2>2, <2>3 DEF MemInv, StepInv
<1> QED  BY <1>1, <1>2, MemoryActs

-----------------------------------------------------------------------------
(* Memory: rows come first                                                 *)

LEMMA InitRowInv == Given /\ InitMemory => RowInv
<1> SUFFICES ASSUME Given, InitMemory PROVE RowInv  OBVIOUS
<1>1. StoreInv  BY DEF InitMemory, StoreInv
<1>2. ASSUME NEW c \in DOMAIN plan PROVE RowOf(c)
  <2>1. c \in Call  BY PlanOf
  <2> QED  BY <2>1 DEF InitMemory, RowOf, Holds, Ensuring, ToSet
<1> QED  BY <1>1, <1>2 DEF RowInv

\* Rows only grow.
LEMMA RowsGrow ==
  ASSUME Given, MemInv, NEW c \in DOMAIN plan, Act(c)
  PROVE  \/ ~Meta(c) /\ rows' = rows
         \/ /\ Meta(c) /\ Mine(c) \in Id /\ ToSet(rows)' = ToSet(rows) \union {Mine(c)}
            /\ rows' = Append(rows, Mine(c))
<1>1. CASE Meta(c)
  <2>3. Mine(c) \in Id  BY <1>1, MineIsId DEF Meta
  <2>4. rows' = Append(rows, Mine(c))  BY <1>1 DEF Meta
  <2>5. ToSet(rows') = ToSet(rows) \union {Mine(c)}  BY <2>3, <2>4, SetOfAppend DEF MemInv, MemShape
  <2> QED  BY <1>1, <2>3, <2>4, <2>5
<1>2. CASE ~Meta(c)
  <2>1. CASE Begin(c)  BY <1>2, <2>1, BeginDoes DEF storeVars
  <2>2. CASE Get(c) \/ Delete(c) \/ Put(c) \/ Point(c)  BY <1>2, <2>2, EnsureDoes
  <2>3. CASE Search(c) \/ Gate(c)
    <3>1. PICK near : Gated(c, near)  BY <2>3 DEF Search, Gate
    <3> QED  BY <1>2, <3>1 DEF Gated, storeVars
  <2>4. CASE NextStep(c) \/ Mark(c) \/ List(c) \/ Redo(c) \/ Node(c) \/ Edge(c) \/ Blob(c) \/ Bus(c) \/ Stamp(c)
    BY <1>2, <2>4 DEF NextStep, Mark, List, Redo, Node, Edge, Blob, Bus, Stamp, storeVars
  <2> QED  BY <1>2, <2>1, <2>2, <2>3, <2>4 DEF Act
<1> QED  BY <1>1, <1>2

LEMMA StoreInvAct ==
  ASSUME Given, MemInv, RowInv, NEW c \in DOMAIN plan, Act(c)
  PROVE  StoreInv'
<1>1. ToSet(rows) \subseteq ToSet(rows)'  BY RowsGrow
<1>2. RowOf(c) /\ StepOf(c) /\ c \in Call  BY PlanOf DEF RowInv, MemInv, StepInv
<1>3. CASE Node(c) \/ Blob(c) \/ Bus(c)
  <2>1. Mine(c) \in ToSet(rows)  BY <1>2, <1>3 DEF Node, Blob, Bus, RowOf, Holds
  <2> QED  BY <1>1, <1>3, <2>1 DEF Node, Blob, Bus, RowInv, StoreInv
<1>4. CASE Stamp(c)
  BY <1>1, <1>4 DEF Stamp, RowInv, StoreInv
<1>5. CASE Begin(c)  BY <1>5, BeginDoes DEF storeVars, RowInv, StoreInv
<1>6. CASE NextStep(c) \/ Mark(c) \/ List(c) \/ Redo(c)
  BY <1>6 DEF NextStep, Mark, List, Redo, storeVars, RowInv, StoreInv
<1>7. CASE Meta(c) \/ Edge(c)
  BY <1>1, <1>7 DEF Meta, Edge, RowInv, StoreInv
<1>8. CASE Search(c) \/ Gate(c)
  <2>1. PICK near : Gated(c, near)  BY <1>8 DEF Search, Gate
  <2> QED  BY <2>1 DEF Gated, storeVars, RowInv, StoreInv
<1>9. CASE Get(c) \/ Delete(c) \/ Put(c) \/ Point(c)
  <2>1. nested[c] /\ mpc[c] = "point" => Head(todo[c]) \in ToSet(rows)
    <3> SUFFICES ASSUME nested[c], mpc[c] = "point" PROVE Head(todo[c]) \in ToSet(rows)  OBVIOUS
    <3>1. todo[c] # <<>> /\ todo[c] \in Seq(Id)  BY <1>2 DEF StepOf, MemInv, MemShape
    <3>2. Head(todo[c]) \in ToSet(todo[c])  BY <3>1, SetOfTail
    <3> QED  BY <1>2, <3>2 DEF RowOf
  <2>2. ~nested[c] /\ mpc[c] = "point" => Mine(c) \in ToSet(rows)
    BY <1>2 DEF StepOf, RowOf, Holds
  <2>3. UNCHANGED <<rows, nodes, blobs, recent>> /\ coll'.points \subseteq coll.points \union ToSet(rows)
    BY <1>9, <2>1, <2>2, EnsureDoes
  <2> QED  BY <2>3 DEF RowInv, StoreInv
<1> QED  BY <1>2, <1>3, <1>4, <1>5, <1>6, <1>7, <1>8, <1>9 DEF Act

LEMMA RowOfAct ==
  ASSUME Given, MemInv, RowInv, NEW c \in DOMAIN plan, Act(c)
  PROVE  RowOf(c)'
<1>1. ToSet(rows) \subseteq ToSet(rows)'  BY RowsGrow
<1>2. RowOf(c) /\ StepOf(c) /\ c \in Call  BY PlanOf DEF RowInv, MemInv, StepInv
<1>3. CASE Meta(c)
  BY <1>2, <1>3, RowsGrow DEF Meta, RowOf, Mine, callVars, MemInv, MemShape
<1>4. CASE List(c)
  <2>1. ToSet(Reverse(rows)) = ToSet(rows)  BY SetOfReverse DEF MemInv, MemShape
  <2> QED  BY <1>2, <1>4, <2>1 DEF List, RowOf, Holds, Mine, Goes, Ensuring, storeVars, callVars, MemInv, MemShape
<1>5. CASE Begin(c)
  <2>1. UNCHANGED <<rows, todo>> /\ mpc'[c] \in {"get", "stamp"}
        /\ (mpc'[c] = "get" => outer'[c] \in {"search", "meta"})
    BY <1>2, <1>5, BeginDoes DEF storeVars, MemInv, MemShape
  <2> QED  BY <1>2, <2>1 DEF RowOf, Holds, Ensuring
<1>6. CASE NextStep(c) \/ Stamp(c)
  BY <1>2, <1>6 DEF NextStep, Stamp, RowOf, Holds, Ensuring, Goes, storeVars, callVars, MemInv, MemShape
<1>7. CASE Mark(c) \/ Redo(c)
  <2>1. UNCHANGED <<rows, todo, at, outer>> /\ mpc'[c] \in {"list", "get", "point", outer[c]}
        /\ mpc[c] \in Ensuring
    BY <1>2, <1>7 DEF Mark, Redo, Ensured, Goes, Ensuring, storeVars, callVars, MemInv, MemShape
  <2> QED  BY <1>2, <2>1 DEF RowOf, StepOf, Holds, Mine, Ensuring
<1>8. CASE Node(c) \/ Edge(c) \/ Blob(c) \/ Bus(c)
  <2>1. UNCHANGED <<rows, todo, at>> /\ mpc[c] \in {"node", "edge", "blob", "bus"}
    BY <1>8 DEF Node, Edge, Blob, Bus, callVars
  <2> QED  BY <1>2, <2>1 DEF RowOf, Holds, Mine
<1>9. CASE Search(c) \/ Gate(c)
  <2>1. PICK near : Gated(c, near)  BY <1>9 DEF Search, Gate
  <2> QED  BY <1>2, <2>1 DEF Gated, RowOf, Holds, Ensuring, Goes, storeVars, MemInv, MemShape
<1>10. CASE Get(c) \/ Delete(c) \/ Put(c) \/ Point(c)
  <2>1. mpc[c] \in {"get", "delete", "put", "point"} /\ UNCHANGED <<rows, at, outer>>
    BY <1>10, EnsureDoes DEF callVars
  <2>2. todo' = todo \/ (todo[c] # <<>> /\ todo' = [todo EXCEPT ![c] = Tail(@)])
    BY <1>2, <1>10, EnsureDoes, RaisedDoes DEF Ensuring, StepOf
  <2>3. ToSet(todo'[c]) \subseteq ToSet(rows)
    <3>1. CASE todo' = todo  BY <1>2, <3>1 DEF RowOf
    <3>2. CASE todo[c] # <<>> /\ todo' = [todo EXCEPT ![c] = Tail(@)]
      <4>1. ToSet(Tail(todo[c])) \subseteq ToSet(todo[c])
        BY <1>2, <3>2, SetOfTail DEF MemInv, MemShape
      <4>2. todo'[c] = Tail(todo[c])  BY <1>2, <3>2 DEF MemInv, MemShape
      <4> QED  BY <1>2, <4>1, <4>2 DEF RowOf
    <3> QED  BY <2>2, <3>1, <3>2
  <2>4. Holds(c)' => Holds(c)
    <3>1. \/ mpc'[c] \in {"redo", "meta", "gate", "delete", "put", "mark"}
          \/ mpc'[c] = "point"
          \/ mpc'[c] = outer[c]
          \/ mpc'[c] = "blob" /\ outer[c] = "point"
      <4>1. CASE Raised(c)  BY <1>2, <2>1, <4>1, RaisedDoes DEF Ensuring, MemInv, MemShape
      <4>2. CASE ~Raised(c)  BY <1>2, <1>10, <4>2, EnsureDoes DEF StepOf, MemInv, MemShape
      <4> QED  BY <4>1, <4>2
    <3> QED  BY <1>2, <2>1, <3>1 DEF Holds, StepOf, Ensuring
  <2> QED  BY <1>2, <2>1, <2>3, <2>4 DEF RowOf, Mine
<1> QED  BY <1>3, <1>4, <1>5, <1>6, <1>7, <1>8, <1>9, <1>10 DEF Act

LEMMA RowInvStep == Given /\ MemInv /\ RowInv /\ MemoryNext(scene.fails, scene.stops) => RowInv'
<1> SUFFICES ASSUME Given, MemInv, RowInv, MemoryNext(scene.fails, scene.stops) PROVE RowInv'  OBVIOUS
<1>1. CASE Weather
  <2>1. UNCHANGED <<storeVars, plan, at, outer, todo>>
    BY <1>1 DEF Weather, Outage, Recovery, Restart, callVars
  <2>2. ASSUME NEW d \in DOMAIN plan PROVE mpc'[d] = mpc[d] \/ mpc'[d] = "done"
    BY <1>1, <2>2, PlanOf DEF Weather, Outage, Recovery, Restart
  <2>3. StoreInv'  BY <2>1 DEF RowInv, StoreInv, storeVars
  <2>4. ASSUME NEW d \in DOMAIN plan PROVE RowOf(d)'
    BY <2>1, <2>2, <2>4 DEF RowInv, RowOf, Holds, Mine, Ensuring, storeVars
  <2> QED  BY <2>1, <2>3, <2>4 DEF RowInv
<1>2. ASSUME NEW c \in DOMAIN plan, Act(c) PROVE RowInv'
  <2>1. plan' = plan /\ StoreInv' /\ RowOf(c)'  BY <1>2, ActLocal, StoreInvAct, RowOfAct
  <2>2. ASSUME NEW d \in DOMAIN plan, d # c PROVE RowOf(d)'
    <3>1. RowOf(d) /\ d \in Call  BY PlanOf DEF RowInv
    <3>2. mpc'[d] = mpc[d] /\ at'[d] = at[d] /\ outer'[d] = outer[d] /\ todo'[d] = todo[d]
      BY <1>2, <2>2, <3>1, ActLocal
    <3>3. ToSet(rows) \subseteq ToSet(rows)'  BY <1>2, RowsGrow
    <3> QED  BY <3>1, <3>2, <3>3 DEF RowOf, Holds, Mine
  <2> QED  BY <2>1, <2>2 DEF RowInv
<1> QED  BY <1>1, <1>2, MemoryActs

-----------------------------------------------------------------------------
(* Memory: a new collection gets every engram                              *)

LEMMA InitGapInv == Given /\ InitMemory => GapInv
<1> SUFFICES ASSUME Given, InitMemory PROVE GapInv  OBVIOUS
<1>1. \A c \in DOMAIN plan : mpc[c] = "idle" /\ ~nested[c]  BY PlanOf DEF InitMemory
<1>2. NobodyPast /\ \A c \in DOMAIN plan : Orderly(c)
  BY <1>1 DEF InitMemory, NobodyPast, Early, Orderly
<1>3. coll.size = "want" => EveryRow
  BY DEF InitMemory, EveryRow
<1> QED  BY <1>2, <1>3 DEF InitMemory, GapInv

LEMMA FaultsStay ==
  ASSUME Given, MemInv, NEW c \in DOMAIN plan, Act(c)
  PROVE  UNCHANGED <<down, troubled>> /\ (trampled => trampled')
<1>1. CASE Begin(c)  BY <1>1, BeginDoes DEF faultVars
<1>2. CASE Get(c) \/ Delete(c) \/ Put(c) \/ Point(c)  BY <1>2, EnsureDoes
<1>3. CASE Search(c) \/ Gate(c)
  <2>1. PICK near : Gated(c, near)  BY <1>3 DEF Search, Gate
  <2> QED  BY <2>1 DEF Gated, faultVars
<1>4. CASE \/ NextStep(c) \/ Mark(c) \/ List(c) \/ Redo(c)
           \/ Meta(c) \/ Node(c) \/ Edge(c) \/ Blob(c) \/ Bus(c) \/ Stamp(c)
  BY <1>4 DEF NextStep, Mark, List, Redo, Meta, Node, Edge, Blob, Bus, Stamp, faultVars
<1> QED  BY <1>1, <1>2, <1>3, <1>4 DEF Act

\* A row that another call will put in its place is still with that call.
LEMMA PendingElsewhere ==
  ASSUME Given, MemInv, NEW c \in DOMAIN plan, Act(c), NEW d \in DOMAIN plan, d # c, NEW r,
         reindexing' => reindexing, Pending(d, r)
  PROVE  Pending(d, r)'
<1>1. d \in Call  BY PlanOf
<1>2. /\ mpc'[d] = mpc[d] /\ at'[d] = at[d] /\ outer'[d] = outer[d]
      /\ nested'[d] = nested[d] /\ todo'[d] = todo[d]
  BY <1>1, ActLocal
<1> QED  BY <1>2 DEF Pending, Mine

LEMMA PendingMoves ==
  ASSUME Given, MemInv, NEW c \in DOMAIN plan, Act(c), EveryRow, rows' = rows,
         coll.points \subseteq coll'.points, reindexing' => reindexing,
         \A r \in ToSet(rows) : Pending(c, r) => Pending(c, r)' \/ r \in coll'.points
  PROVE  EveryRow'
<1> SUFFICES ASSUME NEW r \in ToSet(rows)
             PROVE  r \in coll'.points \/ \E d \in DOMAIN plan : Pending(d, r)'
  BY ActLocal DEF EveryRow
<1>1. CASE r \in coll.points  BY <1>1
<1>2. ASSUME NEW d \in DOMAIN plan, Pending(d, r) PROVE r \in coll'.points \/ \E e \in DOMAIN plan : Pending(e, r)'
  <2>1. CASE d = c  BY <1>2, <2>1
  <2>2. CASE d # c  BY <1>2, <2>2, PendingElsewhere
  <2> QED  BY <2>1, <2>2
<1> QED  BY <1>1, <1>2 DEF EveryRow

\* Before the collection is there.
LEMMA GapBefore ==
  ASSUME Given, MemInv, GapInv, NEW c \in DOMAIN plan, Act(c), ~troubled, ~trampled, ~trampled',
         coll.size # "want"
  PROVE  /\ coll'.size # "want" => NobodyPast'
         /\ coll'.size = "want" => EveryRow'
         /\ \A d \in DOMAIN plan : Orderly(d)'
<1>1. down = {} /\ ~reindexing /\ (\A d \in DOMAIN plan : Early(d)) /\ \A d \in DOMAIN plan : Orderly(d)
  BY DEF GapInv, NobodyPast
<1>2. StepOf(c) /\ c \in Call /\ Early(c) /\ Orderly(c)  BY <1>1, PlanOf DEF MemInv, StepInv
<1>3. plan' = plan /\ \A d \in DOMAIN plan : d # c => mpc'[d] = mpc[d] /\ nested'[d] = nested[d]
  BY ActLocal, PlanOf
<1>4. /\ ~nested'[c] /\ ~reindexing'
      /\ \/ coll'.size # "want" /\ Early(c)'
         \/ coll'.size = "want" /\ mpc'[c] = "mark"
      /\ coll'.size = "old" => coll.size = "old" /\ mpc'[c] # "put"
  <2>1. CASE Begin(c)
    BY <1>1, <1>2, <2>1, BeginDoes DEF Early, storeVars, MemInv, MemShape
  <2>2. CASE NextStep(c) \/ Stamp(c)
    BY <1>1, <1>2, <2>2 DEF NextStep, Stamp, Early, Goes, storeVars, MemInv, MemShape
  <2>3. CASE Get(c) \/ Delete(c) \/ Put(c)
    <3>1. mpc[c] \in {"get", "delete", "put"}  BY <2>3 DEF Get, Delete, Put
    <3>2. UNCHANGED <<reindexing, nested>>
          /\ \/ coll' = coll /\ mpc[c] = "get" /\ coll.size = "old" /\ mpc' = [mpc EXCEPT ![c] = "delete"]
             \/ coll' = coll /\ mpc[c] = "get" /\ coll.size = "none" /\ mpc' = [mpc EXCEPT ![c] = "put"]
             \/ coll' = [size |-> "none", points |-> {}] /\ mpc' = [mpc EXCEPT ![c] = "put"]
             \/ /\ mpc[c] = "put" /\ coll.size = "none" /\ coll' = [size |-> "want", points |-> {}]
                /\ mpc' = [mpc EXCEPT ![c] = "mark"]
             \/ mpc[c] = "put" /\ coll.size # "none"
      BY <1>1, <2>3, <3>1, EnsureDoes
    <3>3. coll.size \in {"none", "old"}  BY DEF MemInv, MemShape, Size
    <3> QED  BY <1>1, <1>2, <3>2, <3>3 DEF Early, Orderly, MemInv, MemShape
  <2>4. ~Mark(c) /\ ~List(c) /\ ~Redo(c) /\ ~Point(c) /\ ~Meta(c) /\ ~Node(c) /\ ~Edge(c) /\ ~Blob(c) /\ ~Bus(c)
        /\ ~Search(c) /\ ~Gate(c)
    BY <1>2 DEF Early, Mark, List, Redo, Point, Meta, Node, Edge, Blob, Bus, Search, Gate
  <2> QED  BY <2>1, <2>2, <2>3, <2>4 DEF Act
<1>5. coll'.size # "want" => NobodyPast'
  BY <1>1, <1>3, <1>4 DEF NobodyPast, Early
<1>6. coll'.size = "want" => EveryRow'
  BY <1>3, <1>4 DEF EveryRow, Pending
<1>7. \A d \in DOMAIN plan : Orderly(d)'
  BY <1>1, <1>3, <1>4 DEF Orderly, Early
<1> QED  BY <1>5, <1>6, <1>7

\* While it is there.
LEMMA GapAfter ==
  ASSUME Given, MemInv, RowInv, GapInv, NEW c \in DOMAIN plan, Act(c), ~troubled, ~trampled, ~trampled',
         coll.size = "want"
  PROVE  /\ coll'.size = "want" /\ EveryRow'
         /\ \A d \in DOMAIN plan : Orderly(d)'
<1>1. down = {} /\ EveryRow /\ \A d \in DOMAIN plan : Orderly(d)
  BY DEF GapInv
<1>2. StepOf(c) /\ c \in Call /\ Orderly(c)  BY <1>1, PlanOf DEF MemInv, StepInv
<1>3. plan' = plan /\ \A d \in DOMAIN plan : d # c => mpc'[d] = mpc[d] /\ nested'[d] = nested[d]
  BY ActLocal, PlanOf
<1>4. ASSUME coll'.size = "want", nested'[c] => mpc'[c] \in {"redo", "get", "point"}
      PROVE  \A d \in DOMAIN plan : Orderly(d)'
  BY <1>1, <1>3, <1>4 DEF Orderly
<1>5. CASE Begin(c)
  <2>1. coll' = coll /\ rows' = rows /\ reindexing' = reindexing /\ ~nested'[c]
    BY <1>5, BeginDoes DEF storeVars
  <2>2. \A r : ~Pending(c, r)  BY <1>5, BeginDoes DEF Pending, Ensuring
  <2> QED  BY <1>1, <1>4, <2>1, <2>2, PendingMoves
<1>6. CASE NextStep(c) \/ Stamp(c) \/ Blob(c) \/ Bus(c)
  <2>1. coll' = coll /\ rows' = rows /\ reindexing' = reindexing /\ nested' = nested
        /\ mpc[c] \in {"next", "idle", "stamp", "blob", "bus"}
    BY <1>6 DEF NextStep, Stamp, Blob, Bus, storeVars
  <2>2. ~nested[c] /\ \A r : ~Pending(c, r)  BY <1>2, <2>1 DEF Orderly, Pending, Ensuring
  <2> QED  BY <1>1, <1>4, <2>1, <2>2, PendingMoves
<1>7. CASE Search(c) \/ Gate(c)
  <2>1. PICK near : Gated(c, near)  BY <1>7 DEF Search, Gate
  <2>2. coll' = coll /\ rows' = rows /\ reindexing' = reindexing /\ nested' = nested
        /\ mpc[c] \in {"search", "gate"}
    BY <1>7, <2>1 DEF Search, Gate, Gated, storeVars
  <2>3. ~nested[c] /\ \A r : ~Pending(c, r)  BY <1>2, <2>2 DEF Orderly, Pending, Ensuring
  <2> QED  BY <1>1, <1>4, <2>2, <2>3, PendingMoves
<1>8. CASE Get(c) \/ Delete(c) \/ Put(c) \/ Point(c)
  <2>1. /\ UNCHANGED <<rows, at, outer, nested, reindexing>>
        /\ \/ mpc[c] = "get" /\ nested[c] /\ mpc' = [mpc EXCEPT ![c] = "point"] /\ UNCHANGED <<coll, todo>>
           \/ mpc[c] = "get" /\ ~nested[c] /\ mpc' = [mpc EXCEPT ![c] = outer[c]] /\ UNCHANGED <<coll, todo>>
           \/ mpc[c] = "put" /\ mpc' = [mpc EXCEPT ![c] = "mark"] /\ UNCHANGED <<coll, todo>>
           \/ /\ mpc[c] = "point" /\ nested[c] /\ mpc' = [mpc EXCEPT ![c] = "redo"]
              /\ todo' = [todo EXCEPT ![c] = Tail(@)]
              /\ coll' = [size |-> "want", points |-> coll.points \union {Head(todo[c])}]
           \/ /\ mpc[c] = "point" /\ ~nested[c] /\ mpc' = [mpc EXCEPT ![c] = "blob"]
              /\ coll' = [size |-> "want", points |-> coll.points \union {Mine(c)}]
    BY <1>1, <1>8, EnsureDoes DEF callVars
  <2>2. coll'.size = "want" /\ coll.points \subseteq coll'.points  BY <2>1
  <2>3. nested'[c] => mpc'[c] \in {"redo", "get", "point"}
    BY <1>2, <2>1 DEF Orderly, MemInv, MemShape
  <2>4. ASSUME NEW r, Pending(c, r) PROVE Pending(c, r)' \/ r \in coll'.points
    <3>1. CASE mpc[c] = "get"
      BY <1>2, <2>1, <2>4, <3>1 DEF Pending, Mine, Ensuring, MemInv, MemShape
    <3>2. CASE mpc[c] = "put"
      BY <1>2, <2>1, <2>4, <3>2 DEF Pending, Mine, Ensuring, MemInv, MemShape
    <3>3. CASE mpc[c] = "point" /\ ~nested[c]
      BY <1>2, <2>1, <2>4, <3>3 DEF Pending, Mine, Ensuring
    <3>4. CASE mpc[c] = "point" /\ nested[c]
      <4>1. todo[c] # <<>> /\ todo[c] \in Seq(Id)  BY <1>2, <3>4 DEF StepOf, MemInv, MemShape
      <4>2. ToSet(todo[c]) = {Head(todo[c])} \union ToSet(Tail(todo[c]))  BY <4>1, SetOfTail
      <4>3. mpc'[c] = "redo" /\ todo'[c] = Tail(todo[c]) /\ outer'[c] = outer[c] /\ at'[c] = at[c]
            /\ Head(todo[c]) \in coll'.points
        BY <1>2, <2>1, <3>4 DEF MemInv, MemShape
      <4> QED  BY <2>4, <3>4, <4>2, <4>3 DEF Pending, Mine, Ensuring
    <3> QED  BY <2>1, <3>1, <3>2, <3>3, <3>4
  <2> QED  BY <1>1, <1>4, <2>1, <2>2, <2>3, <2>4, PendingMoves
<1>9. CASE Mark(c)
  <2>1. coll' = coll /\ rows' = rows /\ UNCHANGED <<at, outer, nested, todo>> /\ mpc[c] = "mark" /\ ~nested[c]
    BY <1>2, <1>9 DEF Mark, storeVars, callVars, Orderly
  <2>2. CASE reindexing
    <3>1. mpc'[c] = outer[c] /\ reindexing'  BY <1>2, <1>9, <2>1, <2>2 DEF Mark, Ensured, Goes, MemInv, MemShape
    <3>2. \A r : Pending(c, r) => Pending(c, r)'
      BY <2>1, <2>2, <3>1 DEF Pending, Mine, Ensuring
    <3> QED  BY <1>1, <1>4, <2>1, <2>2, <3>2, PendingMoves
  <2>3. CASE ~reindexing
    <3>1. mpc'[c] = "list"  BY <1>2, <1>9, <2>1, <2>3 DEF Mark, Goes, MemInv, MemShape
    <3> QED  BY <1>3, <1>4, <2>1, <3>1 DEF EveryRow, Pending
  <2> QED  BY <2>2, <2>3
<1>10. CASE List(c)
  <2>1. coll' = coll /\ rows' = rows /\ nested' = nested /\ mpc'[c] = "redo" /\ todo'[c] = Reverse(rows)
    BY <1>2, <1>10 DEF List, Goes, storeVars, MemInv, MemShape
  <2>2. ToSet(Reverse(rows)) = ToSet(rows)  BY SetOfReverse DEF MemInv, MemShape
  <2> QED  BY <1>3, <1>4, <2>1, <2>2 DEF EveryRow, Pending
<1>11. CASE Redo(c)
  <2>1. coll' = coll /\ rows' = rows /\ UNCHANGED <<at, outer, todo>> /\ mpc[c] = "redo" /\ (reindexing' => reindexing)
        /\ \/ todo[c] = <<>> /\ mpc'[c] = outer[c] /\ ~nested'[c]
           \/ todo[c] # <<>> /\ mpc'[c] = "get" /\ nested'[c]
    BY <1>2, <1>11 DEF Redo, Goes, storeVars, callVars, MemInv, MemShape
  <2>2. todo[c] = <<>> => ToSet(todo[c]) = {}  BY DEF ToSet
  <2>3. \A r : Pending(c, r) => Pending(c, r)'
    BY <2>1, <2>2 DEF Pending, Mine, Ensuring
  <2> QED  BY <1>1, <1>4, <2>1, <2>3, PendingMoves
<1>12. CASE Meta(c)
  <2>1. coll' = coll /\ nested' = nested /\ reindexing' = reindexing /\ at' = at
        /\ mpc[c] = "meta" /\ mpc'[c] = "node"
    BY <1>2, <1>12 DEF Meta, Goes, callVars, MemInv, MemShape
  <2>2. ToSet(rows)' = ToSet(rows) \union {Mine(c)}  BY <1>12, RowsGrow
  <2>3. ~nested[c] /\ \A r : ~Pending(c, r)  BY <1>2, <2>1 DEF Orderly, Pending, Ensuring
  <2>4. ASSUME NEW r \in ToSet(rows)' PROVE r \in coll'.points \/ \E d \in DOMAIN plan : Pending(d, r)'
    <3>1. CASE r = Mine(c)
      <4>1. Pending(c, r)'  BY <2>1, <3>1 DEF Pending, Mine
      <4> QED  BY <4>1
    <3>2. CASE r \in coll.points  BY <2>1, <3>2
    <3>3. ASSUME NEW d \in DOMAIN plan, Pending(d, r) PROVE Pending(d, r)'
      BY <2>1, <2>3, <3>3, PendingElsewhere
    <3> QED  BY <1>1, <2>2, <3>1, <3>2, <3>3 DEF EveryRow
  <2>5. EveryRow'  BY <1>3, <2>4 DEF EveryRow
  <2> QED  BY <1>4, <2>1, <2>3, <2>5
<1>13. CASE Node(c) \/ Edge(c)
  <2>1. coll' = coll /\ rows' = rows /\ nested' = nested /\ reindexing' = reindexing /\ at' = at
        /\ mpc[c] \in {"node", "edge"}
        /\ (mpc'[c] = "edge" \/ (mpc'[c] = "get" /\ outer'[c] = "point"))
    BY <1>2, <1>13 DEF Node, Edge, Ensure, Goes, callVars, MemInv, MemShape
  <2>2. ~nested[c] /\ \A r : Pending(c, r) => Pending(c, r)'
    BY <1>2, <2>1 DEF Orderly, Pending, Mine, Ensuring
  <2> QED  BY <1>1, <1>4, <2>1, <2>2, PendingMoves
<1> QED  BY <1>5, <1>6, <1>7, <1>8, <1>9, <1>10, <1>11, <1>12, <1>13 DEF Act

LEMMA GapInvStep ==
  Given /\ MemInv /\ RowInv /\ GapInv /\ MemoryNext(scene.fails, scene.stops) => GapInv'
<1> SUFFICES ASSUME Given, MemInv, RowInv, GapInv, MemoryNext(scene.fails, scene.stops),
                    ~troubled', ~trampled'
             PROVE  /\ down' = {}
                    /\ coll'.size # "want" => NobodyPast'
                    /\ coll'.size = "want" => EveryRow'
                    /\ \A d \in DOMAIN plan' : Orderly(d)'
  BY DEF GapInv
<1>1. ~Weather
  <2>1. CASE Recovery
    BY <2>1 DEF Recovery, GapInv
  <2> QED  BY <2>1 DEF Weather, Outage, Restart
<1>2. PICK c \in DOMAIN plan : Act(c)  BY <1>1, MemoryActs
<1>3. ~troubled /\ ~trampled /\ down = {} /\ down' = {} /\ plan' = plan
  BY <1>2, FaultsStay, ActLocal DEF GapInv
<1> QED  BY <1>2, <1>3, GapBefore, GapAfter

LEMMA MemoryKeeps ==
  /\ Given /\ MemInv /\ [Next]_vars => MemInv'
  /\ Given /\ MemInv /\ RowInv /\ [Next]_vars => RowInv'
  /\ Given /\ MemInv /\ RowInv /\ GapInv /\ [Next]_vars => GapInv'
<1>1. [Next]_vars => UNCHANGED memoryVars \/ MemoryNext(scene.fails, scene.stops)
  BY DEF Next, vars
<1>2. UNCHANGED memoryVars /\ MemInv => MemInv'
  BY DEF memoryVars, storeVars, callVars, MemInv, MemShape, StepInv, StepOf, Doing
<1>3. UNCHANGED memoryVars /\ RowInv => RowInv'
  BY DEF memoryVars, storeVars, callVars, RowInv, StoreInv, RowOf, Holds, Mine
<1>4. UNCHANGED memoryVars /\ GapInv => GapInv'
  BY DEF memoryVars, storeVars, callVars, faultVars, GapInv, NobodyPast, Early, EveryRow, Pending, Mine, Orderly
<1> QED  BY <1>1, <1>2, <1>3, <1>4, MemInvStep, RowInvStep, GapInvStep

\* Whatever the graph, the vectors, the blobs and the bus hold has its row in
\* sqlite; and a collection made anew has every row's point once nobody is at
\* work, if nothing was down and no fresh one was deleted (remember_engram,
\* _qdrant_ensure, reindex_vectors): for any number of calls, each with a plan
\* of any recalls and of up to MaxSteps engrams.
THEOREM StoresAgree == Spec => []LayersAgree
<1>1. Init => MemInv /\ RowInv /\ GapInv
  BY InitMemInv, InitRowInv, InitGapInv DEF Init, InitFiles, InitTerminals, InitMemory, Given
<1>2. Given /\ MemInv /\ RowInv /\ GapInv /\ [Next]_vars => (MemInv /\ RowInv /\ GapInv)'
  BY MemoryKeeps
<1>3. Given /\ MemInv /\ RowInv /\ GapInv => LayersAgree
  <2> SUFFICES ASSUME Given, MemInv, RowInv, GapInv, InMemory = {}, ~troubled, ~trampled, coll.size = "want",
                      NEW r \in ToSet(rows)
               PROVE  r \in coll.points
    BY DEF RowInv, StoreInv, LayersAgree
  <2>1. \A c \in DOMAIN plan : ~Pending(c, r)
    BY DEF InMemory, Pending, GapInv, Orderly, Ensuring
  <2> QED  BY <2>1 DEF GapInv, EveryRow
<1> QED  BY <1>1, <1>2, <1>3, GivenHolds, PTL DEF Spec

-----------------------------------------------------------------------------
(* Memory: what a turn is told, and what is never skipped                  *)

\* A question that asks for a change is never answered from memory alone.
LEMMA GateNeverSkipsDisk ==
  ASSUME NEW q, NEW w, NEW found, NEW score, NEW answer,
         GateRecall(q, w, found, score, answer).act = "use_memory"
  PROVE  GateRecall(q, w, found, score, answer).kept # {} /\ ~q.mutate
<1> DEFINE act  == IF answer = NoAnswer THEN RuleAct(q, w, found, score)
                   ELSE MergeRules(q, w, found, answer.act)
           kept == {i \in found : IF answer.keep < 0 THEN score[i] >= 4 * KeepMin ELSE answer.keep >= KeepMin}
<1>1. GateRecall(q, w, found, score, answer) =
        [kept |-> kept,
         act  |-> IF act = "none" \/ (kept = {} /\ act = "use_memory") THEN "read_disk" ELSE act]
  BY DEF GateRecall
<1>2. kept # {} /\ act = "use_memory"  BY <1>1
<1>3. ASSUME q.mutate PROVE act # "use_memory"
  <2>1. RuleAct(q, w, found, score) # "use_memory"
    BY <1>3 DEF RuleAct
  <2>2. MergeRules(q, w, found, answer.act) # "use_memory"
    <3>1. CASE answer.act = "use_memory"  BY <1>3, <3>1 DEF MergeRules
    <3>2. CASE answer.act # "use_memory"  BY <1>3, <3>2 DEF MergeRules
    <3> QED  BY <3>1, <3>2
  <2> QED  BY <2>1, <2>2
<1> QED  BY <1>1, <1>2, <1>3

\* What a turn that changed files leaves is never noise.
LEMMA EngramOfChange ==
  ASSUME Given, MemInv, NEW c \in DOMAIN plan, mpc[c] = "meta",
         Engram(c).kind = "chat", Engram(c).mutated
  PROVE  ~RecallSkip(Engram(c))
<1>1. StepOf(c)  BY DEF MemInv, StepInv
<1>2. at[c] \in DOMAIN plan[c] /\ Doing(c) = plan[c][at[c]] /\ Doing(c).do \in {"remember", "classify"}
  BY <1>1 DEF StepOf, Doing
<1>3. Doing(c).do = "classify"
  BY <1>2, PlanOf DEF IsPlan, Engram
<1>4. PICK tag : tag = FinalizeSalience(Doing(c).query, Doing(c).turn, JevHttp(said[c].first, said[c].second, FALSE))
  OBVIOUS
<1>5. Engram(c) = [kind |-> "chat", look |-> FALSE, salience |-> tag.kind, hot |-> tag.hot,
                   long |-> Doing(c).turn.said = "long", words |-> 0, near |-> 0,
                   mutated |-> Doing(c).turn.mutated]
  BY <1>3, <1>4 DEF Engram
<1>6. tag.kind # "noise"
  <2>1. Doing(c).turn.mutated  BY <1>5
  <2> DEFINE answer == JevHttp(said[c].first, said[c].second, FALSE)
             k == IF answer = NoAnswer THEN RuleKind(Doing(c).query, Doing(c).turn)
                  ELSE IF answer.kind \in Salience THEN answer.kind ELSE "fact"
  <2>2. tag.kind = IF Doing(c).turn.mutated /\ k = "noise" THEN "artifact" ELSE k
    BY <1>4 DEF FinalizeSalience
  <2> QED  BY <2>1, <2>2
<1> QED  BY <1>5, <1>6 DEF RecallSkip

LEMMA InitPlaces == Given /\ InitMemory => GateInv /\ ChatInv
<1> SUFFICES ASSUME Given, InitMemory PROVE GateInv /\ ChatInv  OBVIOUS
<1>1. GateInv  BY PlanOf DEF InitMemory, GateInv, NoGate
<1>2. ASSUME NEW i \in ToSet(rows), what[i].kind = "chat", what[i].mutated PROVE ~RecallSkip(what[i])
  <2>1. scene.rows \in Seq(ToSet(scene.rows))
        /\ \A k \in DOMAIN scene.rows :
             /\ scene.rows[k][1] \in Call
             /\ scene.rows[k][2].kind = "chat" /\ scene.rows[k][2].mutated => ~RecallSkip(scene.rows[k][2])
    BY SceneAssumption DEF Given
  <2>2. rows = [k \in 1 .. Len(scene.rows) |-> <<scene.rows[k][1], 0>>] /\ DOMAIN scene.rows = 1 .. Len(scene.rows)
    BY <2>1 DEF InitMemory
  <2>3. PICK j \in DOMAIN scene.rows : i = <<scene.rows[j][1], 0>>  BY <1>2, <2>2 DEF ToSet
  <2>4. PICK k : k = CHOOSE n \in DOMAIN scene.rows : i = <<scene.rows[n][1], 0>>  OBVIOUS
  <2>5. k \in DOMAIN scene.rows  BY <2>3, <2>4
  <2>6. i \in Id  BY <2>1, <2>3 DEF Id, MaxSteps
  <2>7. what[i] = scene.rows[k][2]  BY <2>3, <2>4, <2>6 DEF InitMemory
  <2> QED  BY <1>2, <2>1, <2>5, <2>7
<1> QED  BY <1>1, <1>2 DEF ChatInv

LEMMA PlacesStep ==
  Given /\ MemInv /\ GateInv /\ ChatInv /\ MemoryNext(scene.fails, scene.stops) => GateInv' /\ ChatInv'
<1> SUFFICES ASSUME Given, MemInv, GateInv, ChatInv, MemoryNext(scene.fails, scene.stops)
             PROVE  GateInv' /\ ChatInv'
  OBVIOUS
<1>1. CASE Weather
  BY <1>1 DEF Weather, Outage, Recovery, Restart, storeVars, callVars, GateInv, ChatInv
<1>2. ASSUME NEW c \in DOMAIN plan, Act(c) PROVE GateInv' /\ ChatInv'
  <2>1. c \in Call /\ StepOf(c) /\ plan' = plan  BY <1>2, PlanOf, ActLocal DEF MemInv, StepInv
  <2>2. CASE Meta(c)
    <3>1. gate' = gate  BY <2>2 DEF Meta
    <3>2. ToSet(rows)' = ToSet(rows) \union {Mine(c)} /\ Mine(c) \in Id  BY <1>2, <2>2, RowsGrow
    <3>3. what' = [what EXCEPT ![Mine(c)] = Engram(c)]  BY <2>2 DEF Meta
    <3>4. Engram(c).kind = "chat" /\ Engram(c).mutated => ~RecallSkip(Engram(c))
      BY <2>2, EngramOfChange DEF Meta
    <3>5. \A i : what'[i] = IF i = Mine(c) THEN Engram(c) ELSE what[i]
      BY <3>2, <3>3 DEF MemInv, MemShape
    <3>6. ASSUME NEW i \in ToSet(rows)', what'[i].kind = "chat", what'[i].mutated PROVE ~RecallSkip(what'[i])
      <4>1. CASE i = Mine(c)  BY <3>4, <3>5, <3>6, <4>1
      <4>2. CASE i # Mine(c)  BY <3>2, <3>5, <3>6, <4>2 DEF ChatInv
      <4> QED  BY <4>1, <4>2
    <3> QED  BY <2>1, <3>1, <3>6 DEF GateInv, ChatInv
  <2>3. CASE Search(c) \/ Gate(c)
    <3>1. PICK near : Gated(c, near)  BY <2>3 DEF Search, Gate
    <3>2. rows' = rows /\ what' = what  BY <3>1 DEF Gated, storeVars
    <3>3. PICK w, found, score, answer : gate' = [gate EXCEPT ![c] = GateRecall(Doing(c).query, w, found, score, answer)]
      BY <3>1 DEF Gated
    <3>4. gate'[c] = GateRecall(Doing(c).query, w, found, score, answer)
          /\ \A d \in DOMAIN plan : d # c => gate'[d] = gate[d]
      BY <2>1, <3>3, PlanOf DEF MemInv, MemShape
    <3>5. at[c] \in DOMAIN plan[c] /\ Doing(c).do = "recall" /\ Doing(c) = plan[c][at[c]]
      BY <2>1, <2>3 DEF Search, Gate, StepOf, Doing
    <3>6. \A i \in DOMAIN plan[c] : plan[c][i].do = "recall" => plan[c][i].query = Doing(c).query
      BY <3>5, PlanOf DEF IsPlan
    <3>7. gate'[c].act = "use_memory" => gate'[c].kept # {} /\ ~Doing(c).query.mutate
      BY <3>4, GateNeverSkipsDisk
    <3> QED  BY <2>1, <3>2, <3>4, <3>6, <3>7 DEF GateInv, ChatInv
  <2>4. CASE ~Meta(c) /\ ~Search(c) /\ ~Gate(c)
    <3>1. UNCHANGED <<rows, what, gate>>
      <4>1. CASE Begin(c)  BY <4>1, BeginDoes DEF storeVars
      <4>2. CASE Get(c) \/ Delete(c) \/ Put(c) \/ Point(c)  BY <4>2, EnsureDoes DEF callVars
      <4>3. CASE NextStep(c) \/ Mark(c) \/ List(c) \/ Redo(c) \/ Node(c) \/ Edge(c) \/ Blob(c) \/ Bus(c) \/ Stamp(c)
        BY <4>3 DEF NextStep, Mark, List, Redo, Node, Edge, Blob, Bus, Stamp, storeVars, callVars
      <4> QED  BY <1>2, <2>4, <4>1, <4>2, <4>3 DEF Act
    <3> QED  BY <2>1, <3>1 DEF GateInv, ChatInv
  <2> QED  BY <2>2, <2>3, <2>4
<1> QED  BY <1>1, <1>2, MemoryActs

\* A turn told to answer from memory was asked for no change and has something
\* to answer from (gate_recall, _merge_rules), and the engram of a turn that
\* changed files is never skipped by a recall (classify_turn, _recall_skip):
\* for any questions, turns and answers of the models.
THEOREM MemoryStaysInPlace == Spec => []MemoryKnowsItsPlace
<1>1. Init => MemInv /\ GateInv /\ ChatInv
  BY InitMemInv, InitPlaces DEF Init, InitFiles, InitTerminals, InitMemory, Given
<1>2. Given /\ MemInv /\ GateInv /\ ChatInv /\ [Next]_vars => (MemInv /\ GateInv /\ ChatInv)'
  <2>1. UNCHANGED memoryVars /\ GateInv /\ ChatInv => GateInv' /\ ChatInv'
    BY DEF memoryVars, storeVars, callVars, GateInv, ChatInv
  <2> QED  BY <2>1, MemoryKeeps, PlacesStep DEF Next, vars
<1>3. GateInv /\ ChatInv => MemoryKnowsItsPlace
  BY DEF GateInv, ChatInv, MemoryKnowsItsPlace
<1> QED  BY <1>1, <1>2, <1>3, GivenHolds, PTL DEF Spec

-----------------------------------------------------------------------------
(* Files: where a writer is                                                *)

FileShape ==
  /\ fpc = [w \in Writer |-> fpc[w]] /\ held = [w \in Writer |-> held[w]] /\ turn = [w \in Writer |-> turn[w]]
  /\ old = [w \in Writer |-> old[w]] /\ fd = [w \in Writer |-> fd[w]]
  /\ text = [f \in File |-> text[f]] /\ draft = [f \in File |-> draft[f]]
  /\ \A w \in DOMAIN job :
       /\ fpc[w] \in {"idle", "read", "open", "fill", "replace", "ctl", "done"}
       /\ turn[w] \in 1 .. Len(Files(w))
       /\ fpc[w] = "ctl" => job[w].does = "config"

\* A file that no two were at at once and that nothing cut off has one writer
\* at most, and its tmp is that writer's.
LoneAt(f) ==
  /\ text[f] = NoText \/ text[f].kind = "text"
  /\ \A v, w \in Beside(f) : v = w
  /\ \A w \in Beside(f) :
       /\ TheFile(w) = f /\ fpc[w] = "fill" => fd[w] = "tmp" /\ draft[f] = Empty
       /\ TheFile(w) = f /\ fpc[w] = "replace" => draft[f] = Says(NewText(w))
LoneInv ==
  /\ \A f \in File \ deskHit : LoneAt(f)
  /\ "index" \notin deskHit => deskHit \intersect Session = {}

\* What the keys and the buffer hold.
Content(f) == IF text[f].kind = "text" THEN text[f].value ELSE {}
SetAt(f) ==
  \A w \in DOMAIN job : f \in ToSet(Files(w)) =>
    /\ fpc[w] # "idle" /\ w \notin Beside(f) => w \in Content(f)
    /\ TheFile(w) = f /\ fpc[w] \in {"open", "fill", "replace"} => held[w] = Content(f)
SetInv == \A f \in {"env", "buffer"} \ deskHit : SetAt(f)

\* The file and the timers, and what a request has in hand between them.
AsUnit == IF text["config"].kind = "text" THEN text["config"].value = unit ELSE unit["scan"]
ConfigInv ==
  /\ unit \in [Timer -> BOOLEAN]
  /\ "config" \notin deskHit =>
       /\ (\A w \in DOMAIN job : fpc[w] # "ctl") => AsUnit
       /\ \A w \in Beside("config") :
            /\ fpc[w] \in {"open", "fill", "replace"} => held[w] = unit /\ old[w] = unit
            /\ fpc[w] = "ctl" => /\ old[w] = unit
                                 /\ text["config"] = Says([unit EXCEPT ![job[w].timer] = job[w].on])

\* The index and the conversations that are there.
There == {s \in Session : text[s] # NoText}
Idx == IF text["index"].kind = "text" THEN text["index"].value ELSE <<>>
Tells(t) == t.kind = "text" => t.value \in Seq(Session) /\ ToSet(t.value) \subseteq There
IndexInv ==
  /\ Tells(text["index"]) /\ Tells(draft["index"])
  /\ \A w \in DOMAIN job : job[w].does \in {"create", "save"} /\ turn[w] = 2 =>
       /\ job[w].session \in There
       /\ fpc[w] \in {"open", "fill", "replace"} => held[w] \in Seq(Session) /\ ToSet(held[w]) \subseteq There

NoTwice(s) == \A i, j \in DOMAIN s : s[i] = s[j] => i = j
Lists(s, T) ==
  /\ s \in Seq(Session) /\ NoTwice(s) /\ ToSet(s) \subseteq T
  /\ Len(s) = IF Cardinality(T) < MaxIndex THEN Cardinality(T) ELSE MaxIndex
LengthInv ==
  "index" \notin deskHit =>
    /\ (\A w \in Beside("index") : turn[w] = 1) => Lists(Idx, There)
    /\ \A w \in Beside("index") : turn[w] = 2 =>
         /\ Lists(Idx, There) \/ Lists(Idx, There \ {job[w].session})
         /\ fpc[w] \in {"open", "fill", "replace"} => held[w] = Idx

\* What a writer has still to replace, from the nth of its files on.
Ahead(w, n, f) ==
  \/ job[w].does \in {"create", "save"} /\ (f = "index" \/ (n = 1 /\ f = job[w].session))
  \/ job[w].does = "key" /\ f = "env"
  \/ job[w].does = "config" /\ f = "config"
  \/ job[w].does = "watch" /\ (f = "window" \/ (n = 1 /\ f = "buffer"))
WriterAct(w) == Start(w) \/ Read(w) \/ Open(w) \/ Fill(w) \/ Replace(w) \/ Ctl(w)

LEMMA FilesOf ==
  ASSUME Given, NEW w \in DOMAIN job
  PROVE  /\ w \in Writer /\ job[w].session \in Session /\ job[w].timer \in Timer /\ job[w].on \in BOOLEAN
         /\ \/ job[w].does \in {"create", "save"} /\ Files(w) = <<job[w].session, "index">>
            \/ job[w].does = "key" /\ Files(w) = <<"env">>
            \/ job[w].does = "config" /\ Files(w) = <<"config">>
            \/ job[w].does = "watch" /\ Files(w) = <<"buffer", "window">>
         /\ job[w].session \notin {"index", "env", "config", "buffer", "window"}
<1>1. /\ w \in Writer /\ job[w].session \in Session /\ job[w].timer \in Timer /\ job[w].on \in BOOLEAN
      /\ job[w].does \in {"create", "save", "key", "config", "watch"}
  BY SceneAssumption DEF Given
<1>2. job[w].session \notin {"index", "env", "config", "buffer", "window"}  BY <1>1, FilesAssumption
<1> QED  BY <1>1, <1>2 DEF Files

LEMMA AheadIs ==
  ASSUME Given, NEW w \in DOMAIN job, NEW f
  PROVE  /\ Len(Files(w)) \in {1, 2}
         /\ \A n \in 1 .. Len(Files(w)) :
              (\E i \in n .. Len(Files(w)) : Files(w)[i] = f) <=> Ahead(w, n, f)
         /\ f \in ToSet(Files(w)) <=> Ahead(w, 1, f)
<1>1. CASE job[w].does \in {"create", "save"} /\ Files(w) = <<job[w].session, "index">>
  <2>1. Len(Files(w)) = 2 /\ Files(w)[1] = job[w].session /\ Files(w)[2] = "index" /\ DOMAIN Files(w) = {1, 2}
    BY <1>1
  <2> QED  BY <1>1, <2>1 DEF Ahead, ToSet
<1>2. CASE job[w].does = "key" /\ Files(w) = <<"env">>
  <2>1. Len(Files(w)) = 1 /\ Files(w)[1] = "env" /\ DOMAIN Files(w) = {1}  BY <1>2
  <2> QED  BY <1>2, <2>1 DEF Ahead, ToSet
<1>3. CASE job[w].does = "config" /\ Files(w) = <<"config">>
  <2>1. Len(Files(w)) = 1 /\ Files(w)[1] = "config" /\ DOMAIN Files(w) = {1}  BY <1>3
  <2> QED  BY <1>3, <2>1 DEF Ahead, ToSet
<1>4. CASE job[w].does = "watch" /\ Files(w) = <<"buffer", "window">>
  <2>1. Len(Files(w)) = 2 /\ Files(w)[1] = "buffer" /\ Files(w)[2] = "window" /\ DOMAIN Files(w) = {1, 2}
    BY <1>4
  <2> QED  BY <1>4, <2>1 DEF Ahead, ToSet
<1> QED  BY <1>1, <1>2, <1>3, <1>4, FilesOf

LEMMA FileAt ==
  ASSUME Given, FileShape, NEW w \in DOMAIN job
  PROVE  /\ turn[w] \in {1, 2} /\ TheFile(w) \in File /\ Ahead(w, turn[w], TheFile(w))
         /\ \/ /\ job[w].does \in {"create", "save"} /\ Len(Files(w)) = 2
               /\ \/ turn[w] = 1 /\ TheFile(w) = job[w].session
                  \/ turn[w] = 2 /\ TheFile(w) = "index"
            \/ job[w].does = "key" /\ Len(Files(w)) = 1 /\ turn[w] = 1 /\ TheFile(w) = "env"
            \/ job[w].does = "config" /\ Len(Files(w)) = 1 /\ turn[w] = 1 /\ TheFile(w) = "config"
            \/ /\ job[w].does = "watch" /\ Len(Files(w)) = 2
               /\ \/ turn[w] = 1 /\ TheFile(w) = "buffer"
                  \/ turn[w] = 2 /\ TheFile(w) = "window"
<1>1. turn[w] \in 1 .. Len(Files(w))  BY DEF FileShape
<1>2. turn[w] \in {1, 2}  BY <1>1, AheadIs
<1>3. \/ /\ job[w].does \in {"create", "save"} /\ Len(Files(w)) = 2
         /\ \/ turn[w] = 1 /\ TheFile(w) = job[w].session
            \/ turn[w] = 2 /\ TheFile(w) = "index"
      \/ job[w].does = "key" /\ Len(Files(w)) = 1 /\ turn[w] = 1 /\ TheFile(w) = "env"
      \/ job[w].does = "config" /\ Len(Files(w)) = 1 /\ turn[w] = 1 /\ TheFile(w) = "config"
      \/ /\ job[w].does = "watch" /\ Len(Files(w)) = 2
         /\ \/ turn[w] = 1 /\ TheFile(w) = "buffer"
            \/ turn[w] = 2 /\ TheFile(w) = "window"
  <2>1. CASE job[w].does \in {"create", "save"} /\ Files(w) = <<job[w].session, "index">>
    <3>1. Len(Files(w)) = 2 /\ Files(w)[1] = job[w].session /\ Files(w)[2] = "index"  BY <2>1
    <3> QED  BY <1>2, <2>1, <3>1 DEF TheFile
  <2>2. CASE job[w].does = "key" /\ Files(w) = <<"env">>
    <3>1. Len(Files(w)) = 1 /\ Files(w)[1] = "env"  BY <2>2
    <3> QED  BY <1>1, <2>2, <3>1 DEF TheFile
  <2>3. CASE job[w].does = "config" /\ Files(w) = <<"config">>
    <3>1. Len(Files(w)) = 1 /\ Files(w)[1] = "config"  BY <2>3
    <3> QED  BY <1>1, <2>3, <3>1 DEF TheFile
  <2>4. CASE job[w].does = "watch" /\ Files(w) = <<"buffer", "window">>
    <3>1. Len(Files(w)) = 2 /\ Files(w)[1] = "buffer" /\ Files(w)[2] = "window"  BY <2>4
    <3> QED  BY <1>2, <2>4, <3>1 DEF TheFile
  <2> QED  BY <2>1, <2>2, <2>3, <2>4, FilesOf
<1>4. TheFile(w) \in File /\ Ahead(w, turn[w], TheFile(w))
  BY <1>3, FilesOf DEF File, Ahead
<1> QED  BY <1>2, <1>3, <1>4

LEMMA BesideIs ==
  ASSUME Given, FileShape, NEW f
  PROVE  Beside(f) = {w \in DOMAIN job : fpc[w] \notin {"idle", "done"} /\ Ahead(w, turn[w], f)}
<1>1. \A w \in DOMAIN job : turn[w] \in 1 .. Len(Files(w))  BY DEF FileShape
<1> QED  BY <1>1, AheadIs DEF Beside, Writing

LEMMA BesideNext ==
  ASSUME Given, FileShape', job' = job, NEW f
  PROVE  Beside(f)' = {w \in DOMAIN job : fpc'[w] \notin {"idle", "done"} /\ Ahead(w, turn'[w], f)}
<1>1. \A w \in DOMAIN job : turn'[w] \in 1 .. Len(Files(w))  BY DEF FileShape, Files
<1>2. \A w : Files(w)' = Files(w)  BY DEF Files
<1> QED  BY <1>1, <1>2, AheadIs DEF Beside, Writing

LEMMA WriterLocal ==
  ASSUME Given, FileShape, NEW w \in DOMAIN job, WriterAct(w)
  PROVE  /\ job' = job /\ FileShape' /\ deskHit \subseteq deskHit'
         /\ \A v \in Writer : v # w => /\ fpc'[v] = fpc[v] /\ held'[v] = held[v] /\ turn'[v] = turn[v]
                                       /\ old'[v] = old[v]
         /\ \A f \in File : f # TheFile(w) \/ fpc[w] \notin {"open", "fill", "replace"} =>
              text'[f] = text[f] /\ draft'[f] = draft[f]
         /\ \A v \in Writer : v # w =>
              \/ fd'[v] = fd[v]
              \/ fpc[w] = "replace" /\ TheFile(v) = TheFile(w) /\ v \in Beside(TheFile(w))
<1>1. /\ w \in Writer /\ turn[w] \in {1, 2} /\ TheFile(w) \in File /\ Len(Files(w)) \in {1, 2}
      /\ turn[w] \in 1 .. Len(Files(w)) /\ DOMAIN job \subseteq Writer
  BY FilesOf, FileAt, AheadIs DEF FileShape
<1>2. job' = job
  BY DEF WriterAct, Start, Read, Open, Fill, Replace, Ctl
<1>3. \A v : Files(v)' = Files(v)  BY <1>2 DEF Files
<1>4. CASE Start(w)
  <2>1. /\ UNCHANGED <<text, draft, fd, old>> /\ deskHit \subseteq deskHit'
        /\ \E to \in {"open", "read"} : fpc' = [fpc EXCEPT ![w] = to]
        /\ held' = [held EXCEPT ![w] = <<>>] /\ turn' = [turn EXCEPT ![w] = 1]
    BY <1>4 DEF Start, Then, fileVars
  <2>2. 1 \in 1 .. Len(Files(w))  BY <1>1
  <2>3. \A v \in DOMAIN job : turn'[v] \in 1 .. Len(Files(v))
    BY <1>1, <2>1, <2>2 DEF FileShape
  <2>4. \A v \in DOMAIN job :
          /\ fpc'[v] \in {"idle", "read", "open", "fill", "replace", "ctl", "done"}
          /\ fpc'[v] = "ctl" => job[v].does = "config"
    BY <1>1, <2>1 DEF FileShape
  <2> QED  BY <1>1, <1>2, <1>3, <2>1, <2>3, <2>4 DEF FileShape
<1>5. CASE Read(w)
  <2>1. UNCHANGED <<text, draft, fd, turn, deskHit>>  BY <1>5 DEF Read, fileVars
  <2>2. /\ \E to \in {"open", "done"} : fpc' = [fpc EXCEPT ![w] = to]
        /\ held' = held \/ \E x : held' = [held EXCEPT ![w] = x]
        /\ old' = old \/ \E x : old' = [old EXCEPT ![w] = x]
    BY <1>5 DEF Read, Then
  <2> QED  BY <1>1, <1>2, <1>3, <2>1, <2>2 DEF FileShape
<1>6. CASE Open(w)
  BY <1>1, <1>2, <1>3, <1>6 DEF FileShape, Open, Then
<1>7. CASE Fill(w)
  <2>1. /\ UNCHANGED <<fd, held, turn, old, deskHit>> /\ fpc[w] = "fill" /\ fpc' = [fpc EXCEPT ![w] = "replace"]
        /\ text' = text \/ \E x : text' = [text EXCEPT ![TheFile(w)] = x]
        /\ draft' = draft \/ \E x : draft' = [draft EXCEPT ![TheFile(w)] = x]
    BY <1>7 DEF Fill, Then, fileVars
  <2> QED  BY <1>1, <1>2, <1>3, <2>1 DEF FileShape
<1>8. CASE Replace(w)
  <2>1. CASE draft[TheFile(w)] = NoText
    <3>1. UNCHANGED <<text, draft, fd, turn, held, old, deskHit>> /\ fpc' = [fpc EXCEPT ![w] = "done"]
      BY <1>8, <2>1 DEF Replace, Then, fileVars
    <3> QED  BY <1>1, <1>2, <1>3, <3>1 DEF FileShape
  <2>2. CASE draft[TheFile(w)] # NoText
    <3>1. /\ UNCHANGED <<held, old, deskHit>> /\ fpc[w] = "replace"
          /\ text' = [text EXCEPT ![TheFile(w)] = draft[TheFile(w)]]
          /\ draft' = [draft EXCEPT ![TheFile(w)] = NoText]
          /\ fd' = [v \in Writer |->
                      IF v = w \/ v \notin Beside(TheFile(w)) \/ TheFile(v) # TheFile(w) THEN fd[v]
                      ELSE IF fd[v] = "tmp" THEN "file" ELSE "gone"]
          /\ turn' = [turn EXCEPT ![w] = IF @ < Len(Files(w)) THEN @ + 1 ELSE @]
          /\ After(w)
      BY <1>8, <2>2 DEF Replace
    <3>2. \E to \in {"open", "read", "ctl", "done"} :
            fpc' = [fpc EXCEPT ![w] = to] /\ (to = "ctl" => job[w].does = "config")
      BY <3>1 DEF After, Then
    <3>3. turn'[w] \in 1 .. Len(Files(w)) /\ \A v \in Writer : v # w => turn'[v] = turn[v]
      BY <1>1, <3>1 DEF FileShape
    <3> QED  BY <1>1, <1>2, <1>3, <3>1, <3>2, <3>3 DEF FileShape
  <2> QED  BY <2>1, <2>2
<1>9. CASE Ctl(w)
  BY <1>1, <1>2, <1>3, <1>9 DEF FileShape, Ctl, Then, fileVars
<1> QED  BY <1>4, <1>5, <1>6, <1>7, <1>8, <1>9 DEF WriterAct

LEMMA StopLocal ==
  ASSUME Given, FileShape, ServerStops
  PROVE  /\ FileShape' /\ UNCHANGED <<job, text, draft, fd, held, turn, old, unit>>
         /\ deskHit \subseteq deskHit'
         /\ \A w \in DOMAIN job :
              \/ fpc'[w] = fpc[w]
              \/ /\ fpc'[w] = "done" /\ fpc[w] \notin {"idle", "done"}
                 /\ \A f : Ahead(w, 1, f) => f \in deskHit'
         /\ \A f \in deskHit' : f \in deskHit \/ \E w \in DOMAIN job : Ahead(w, 1, f) /\ \A g : Ahead(w, 1, g) => g \in deskHit'
<1> DEFINE Gone == {w \in Writing : job[w].does # "watch"}
<1>1. /\ fpc' = [w \in Writer |-> IF w \in Gone THEN "done" ELSE fpc[w]]
      /\ deskHit' = deskHit \union UNION {ToSet(Files(w)) : w \in Gone}
      /\ UNCHANGED <<job, text, draft, fd, held, turn, old, unit>>
  BY DEF ServerStops, fileVars
<1>2. \A w \in DOMAIN job : w \in Writer /\ \A f : f \in ToSet(Files(w)) <=> Ahead(w, 1, f)
  BY FilesOf, AheadIs
<1>3. \A w : Files(w)' = Files(w)  BY <1>1 DEF Files
<1>4. FileShape'  BY <1>1, <1>2, <1>3 DEF FileShape
<1>5. \A w \in Gone : w \in DOMAIN job /\ fpc[w] \notin {"idle", "done"} /\ \A f : Ahead(w, 1, f) => f \in deskHit'
  BY <1>1, <1>2 DEF Writing
<1>6. \A f \in deskHit' : f \in deskHit \/ \E w \in Gone : f \in ToSet(Files(w))  BY <1>1
<1> HIDE DEF Gone
<1> QED  BY <1>1, <1>2, <1>4, <1>5, <1>6

LEMMA FileActs ==
  DeskFilesNext(scene.stops) => ServerStops \/ \E w \in DOMAIN job : WriterAct(w)
BY DEF DeskFilesNext, WriterAct

LEMMA InitFileShape == Given /\ InitFiles => FileShape
<1> SUFFICES ASSUME Given, InitFiles PROVE FileShape  OBVIOUS
<1>1. \A w \in DOMAIN job : w \in Writer /\ Len(Files(w)) \in {1, 2}  BY FilesOf, AheadIs
<1>2. \A w \in DOMAIN job : 1 \in 1 .. Len(Files(w))  BY <1>1
<1>3. \A w \in DOMAIN job : fpc[w] = "idle" /\ turn[w] \in 1 .. Len(Files(w))
  BY <1>1, <1>2 DEF InitFiles
<1>4. PICK g : text = [f \in File |-> g[f]]
  BY DEF InitFiles
<1> QED  BY <1>3, <1>4 DEF InitFiles, FileShape

-----------------------------------------------------------------------------
(* Files: one writer at a file                                             *)

LEMMA InitLone == Given /\ InitFiles => LoneInv
<1> SUFFICES ASSUME Given, InitFiles PROVE LoneInv  OBVIOUS
<1>1. \A f : Beside(f) = {}
  <2>1. \A w \in DOMAIN job : fpc[w] = "idle"  BY FilesOf DEF InitFiles
  <2> QED  BY <2>1 DEF Beside, Writing
<1>2. ASSUME NEW f \in File PROVE text[f] = NoText \/ text[f].kind = "text"
  BY <1>2 DEF InitFiles, Says
<1> QED  BY <1>1, <1>2 DEF InitFiles, LoneInv, LoneAt

\* Who joins a file that has somebody marks it.
LEMMA BesideAct ==
  ASSUME Given, FileShape, NEW w \in DOMAIN job, WriterAct(w), NEW f
  PROVE  /\ \A v : v # w => (v \in Beside(f)' <=> v \in Beside(f))
         /\ w \in Beside(f)' =>
              \/ w \in Beside(f)
              \/ Start(w) /\ Ahead(w, 1, f) /\ (Beside(f) = {} \/ f \in deskHit')
         /\ w \in Beside(f) \/ fpc[w] \notin {"open", "fill", "replace"} \/ f # TheFile(w)
<1>1. Beside(f) = {v \in DOMAIN job : fpc[v] \notin {"idle", "done"} /\ Ahead(v, turn[v], f)}
  BY BesideIs
<1>2. Beside(f)' = {v \in DOMAIN job : fpc'[v] \notin {"idle", "done"} /\ Ahead(v, turn'[v], f)}
  BY BesideNext, WriterLocal
<1>3. \A v \in DOMAIN job : v \in Writer /\ (v # w => fpc'[v] = fpc[v] /\ turn'[v] = turn[v])
  BY WriterLocal, FilesOf
<1>4. \A v : v # w => (v \in Beside(f)' <=> v \in Beside(f))
  BY <1>1, <1>2, <1>3
<1>5. w \in Beside(f) \/ fpc[w] \notin {"open", "fill", "replace"} \/ f # TheFile(w)
  BY <1>1, FileAt
<1>6. ASSUME w \in Beside(f)'
      PROVE  \/ w \in Beside(f)
             \/ Start(w) /\ Ahead(w, 1, f) /\ (Beside(f) = {} \/ f \in deskHit')
  <2>1. fpc'[w] \notin {"idle", "done"} /\ Ahead(w, turn'[w], f)  BY <1>2, <1>6
  <2>2. CASE Start(w)
    <3>1. turn'[w] = 1 /\ deskHit' = deskHit \union {g \in ToSet(Files(w)) : Beside(g) # {}}
      BY <1>3, <2>2 DEF Start, FileShape
    <3>2. f \in ToSet(Files(w))  BY <2>1, <3>1, AheadIs
    <3> QED  BY <2>1, <2>2, <3>1, <3>2
  <2>3. CASE ~Start(w)
    <3>1. fpc[w] \notin {"idle", "done"}
      BY <2>3 DEF WriterAct, Read, Open, Fill, Replace, Ctl
    <3>2. turn'[w] = turn[w] \/ turn'[w] = 2
      <4>1. CASE Replace(w)
        <5>1. turn' = turn \/ turn' = [turn EXCEPT ![w] = IF @ < Len(Files(w)) THEN @ + 1 ELSE @]
          BY <4>1 DEF Replace
        <5>2. turn[w] \in {1, 2} /\ Len(Files(w)) \in {1, 2}  BY FileAt, AheadIs
        <5>3. \A m, n \in {1, 2} : (IF m < n THEN m + 1 ELSE m) \in {m, 2}  OBVIOUS
        <5>4. turn' = turn \/ turn'[w] = IF turn[w] < Len(Files(w)) THEN turn[w] + 1 ELSE turn[w]
          BY <1>3, <5>1 DEF FileShape
        <5> QED  BY <5>2, <5>3, <5>4
      <4>2. CASE ~Replace(w)
        BY <2>3, <4>2 DEF WriterAct, Read, Open, Fill, Ctl
      <4> QED  BY <4>1, <4>2
    <3>3. Ahead(w, turn[w], f)  BY <2>1, <3>2 DEF Ahead
    <3> QED  BY <1>1, <3>1, <3>3
  <2> QED  BY <2>2, <2>3
<1> QED  BY <1>4, <1>5, <1>6

\* What a writer finds and leaves in a file of its own.
LEMMA LoneAct ==
  ASSUME Given, FileShape, NEW w \in DOMAIN job, WriterAct(w), LoneAt(TheFile(w))
  PROVE  LET f == TheFile(w)
         IN /\ text'[f] = text[f] \/ (fpc[w] = "replace" /\ text'[f] = Says(NewText(w)) /\ draft'[f] = NoText)
            /\ fpc'[w] = "fill" /\ TheFile(w)' = f => fpc[w] = "open" /\ fd'[w] = "tmp" /\ draft'[f] = Empty
            /\ fpc'[w] = "replace" /\ TheFile(w)' = f =>
                 fpc[w] = "fill" /\ draft'[f] = Says(NewText(w)) /\ held' = held
            /\ fpc[w] = "replace" => text'[f] = Says(NewText(w)) /\ After(w)
            /\ fpc[w] # "replace" => text'[f] = text[f]
            /\ fpc[w] = "fill" => UNCHANGED <<held, turn>>
<1> DEFINE f == TheFile(w)
<1>1. /\ w \in Writer /\ f \in File /\ (fpc[w] \in {"open", "fill", "replace"} => w \in Beside(f))
  BY FilesOf, FileAt, BesideAct
<1>2. CASE Start(w) \/ Read(w) \/ Ctl(w)
  <2>1. text' = text /\ fpc'[w] \in {"open", "read", "done"} /\ fpc[w] \in {"idle", "read", "ctl"}
    BY <1>1, <1>2 DEF Start, Read, Ctl, Then, fileVars, FileShape
  <2> QED  BY <2>1
<1>3. CASE Open(w)
  <2>1. /\ text' = text /\ fpc'[w] = "fill" /\ fpc[w] = "open" /\ fd'[w] = "tmp" /\ draft'[f] = Empty
    BY <1>1, <1>3 DEF Open, Then, FileShape
  <2> QED  BY <2>1
<1>4. CASE Fill(w)
  <2>1. fpc[w] = "fill" /\ fd[w] = "tmp" /\ draft[f] = Empty
    BY <1>1, <1>4 DEF Fill, LoneAt
  <2>2. \E t \in Over(draft[f], NewText(w)) : draft' = [draft EXCEPT ![f] = t]
    BY <1>4, <2>1 DEF Fill
  <2>3. /\ text' = text /\ fpc'[w] = "replace" /\ held' = held /\ turn' = turn
    BY <1>1, <1>4, <2>1 DEF Fill, Then, FileShape
  <2>4. draft'[f] = Says(NewText(w))
    BY <1>1, <2>1, <2>2 DEF Over, FileShape
  <2> QED  BY <2>1, <2>3, <2>4
<1>5. CASE Replace(w)
  <2>1. fpc[w] = "replace" /\ draft[f] = Says(NewText(w))
    BY <1>1, <1>5 DEF Replace, LoneAt
  <2>2. draft[f] # NoText  BY <2>1 DEF Says, NoText
  <2>3. text' = [text EXCEPT ![f] = draft[f]] /\ draft' = [draft EXCEPT ![f] = NoText] /\ After(w)
    BY <1>5, <2>2 DEF Replace
  <2>4. fpc'[w] \in {"open", "read", "ctl", "done"}
    BY <1>1, <2>3 DEF After, Then, FileShape
  <2> QED  BY <1>1, <2>1, <2>3, <2>4 DEF FileShape
<1> QED  BY <1>2, <1>3, <1>4, <1>5 DEF WriterAct

LEMMA LoneInvStep == Given /\ FileShape /\ LoneInv /\ DeskFilesNext(scene.stops) => LoneInv'
<1> SUFFICES ASSUME Given, FileShape, LoneInv, DeskFilesNext(scene.stops) PROVE LoneInv'  OBVIOUS
<1>0. \A s \in Session : s \notin {"index", "env", "config", "buffer", "window"}  BY FilesAssumption
<1>1. CASE ServerStops
  <2>1. /\ FileShape' /\ UNCHANGED <<job, text, draft, fd, held, turn>> /\ deskHit \subseteq deskHit'
        /\ \A w \in DOMAIN job : fpc'[w] = fpc[w] \/ fpc'[w] = "done"
        /\ \A f \in deskHit' : f \in deskHit \/ \E w \in DOMAIN job : Ahead(w, 1, f) /\ \A g : Ahead(w, 1, g) => g \in deskHit'
    BY <1>1, StopLocal
  <2>2. ASSUME NEW f \in File \ deskHit' PROVE LoneAt(f)'
    <3>1. LoneAt(f)  BY <2>1, <2>2 DEF LoneInv
    <3>2. Beside(f)' \subseteq Beside(f)  BY <2>1, BesideIs, BesideNext
    <3>3. \A w \in Beside(f)' : fpc'[w] = fpc[w] /\ TheFile(w)' = TheFile(w) /\ NewText(w)' = NewText(w)
      <4>1. \A w \in Beside(f)' : w \in DOMAIN job /\ fpc'[w] # "done"  BY <2>1, BesideNext
      <4> QED  BY <2>1, <4>1 DEF TheFile, Files, NewText
    <3> QED  BY <2>1, <3>1, <3>2, <3>3 DEF LoneAt
  <2>3. "index" \notin deskHit' => deskHit' \intersect Session = {}
    <3> SUFFICES ASSUME "index" \notin deskHit', NEW s \in Session, s \in deskHit' PROVE FALSE  OBVIOUS
    <3>1. s \notin deskHit  BY <2>1 DEF LoneInv
    <3>2. PICK w \in DOMAIN job : Ahead(w, 1, s) /\ \A g : Ahead(w, 1, g) => g \in deskHit'  BY <2>1, <3>1
    <3>3. Ahead(w, 1, "index")  BY <1>0, <3>2 DEF Ahead
    <3> QED  BY <3>2, <3>3
  <2> QED  BY <2>1, <2>2, <2>3 DEF LoneInv
<1>2. ASSUME NEW w \in DOMAIN job, WriterAct(w) PROVE LoneInv'
  <2>1. job' = job /\ FileShape' /\ deskHit \subseteq deskHit'  BY <1>2, WriterLocal
  <2>2. ASSUME NEW f \in File \ deskHit' PROVE LoneAt(f)'
    <3>1. LoneAt(f)  BY <2>1, <2>2 DEF LoneInv
    <3>2. /\ \A v : v # w => (v \in Beside(f)' <=> v \in Beside(f))
          /\ w \in Beside(f)' => w \in Beside(f) \/ (Start(w) /\ Beside(f) = {})
      BY <1>2, <2>2, BesideAct
    <3>3. \A u, v \in Beside(f)' : u = v  BY <3>1, <3>2 DEF LoneAt
    <3>4. CASE f # TheFile(w) \/ fpc[w] \notin {"open", "fill", "replace"}
      <4>1. text'[f] = text[f] /\ draft'[f] = draft[f]  BY <1>2, <2>2, <3>4, WriterLocal
      <4>2. ASSUME NEW v \in Beside(f)', v # w PROVE
              /\ fpc'[v] = fpc[v] /\ TheFile(v)' = TheFile(v) /\ NewText(v)' = NewText(v)
              /\ TheFile(v) = f => fd'[v] = fd[v]
        <5>1. v \in Beside(f) /\ v \in Writer  BY <3>2, <4>2, BesideIs, FilesOf
        <5>2. fpc'[v] = fpc[v] /\ held'[v] = held[v] /\ turn'[v] = turn[v]  BY <1>2, <4>2, <5>1, WriterLocal
        <5>3. TheFile(v) = f => fd'[v] = fd[v]
          BY <1>2, <3>4, <4>2, <5>1, WriterLocal
        <5> QED  BY <2>1, <5>2, <5>3 DEF TheFile, Files, NewText
      <4>3. w \in Beside(f)' /\ TheFile(w)' = f => fpc'[w] \notin {"fill", "replace"}
        <5> SUFFICES ASSUME TheFile(w)' = f, fpc'[w] \in {"fill", "replace"} PROVE FALSE  OBVIOUS
        <5>1. Open(w) \/ Fill(w)
          <6>1. w \in Writer  BY FilesOf
          <6> QED  BY <1>2, <6>1 DEF WriterAct, Start, Read, Replace, After, Ctl, Then, FileShape
        <5>2. TheFile(w)' = TheFile(w) /\ fpc[w] \in {"open", "fill"}
          BY <2>1, <5>1 DEF Open, Fill, TheFile, Files
        <5> QED  BY <3>4, <5>2
      <4> QED  BY <3>1, <3>2, <3>3, <4>1, <4>2, <4>3 DEF LoneAt
    <3>5. CASE f = TheFile(w) /\ fpc[w] \in {"open", "fill", "replace"}
      <4>1. w \in Beside(f)  BY <1>2, <3>5, BesideAct
      <4>2. \A v \in Beside(f)' : v = w  BY <3>1, <3>2, <4>1 DEF LoneAt
      <4>3. text'[f] = text[f] \/ text'[f] = Says(NewText(w))
        BY <1>2, <3>1, <3>5, LoneAct
      <4>4. fpc'[w] = "fill" /\ TheFile(w)' = f => fd'[w] = "tmp" /\ draft'[f] = Empty
        BY <1>2, <3>1, <3>5, LoneAct
      <4>5. fpc'[w] = "replace" /\ TheFile(w)' = f => draft'[f] = Says(NewText(w)')
        <5> SUFFICES ASSUME fpc'[w] = "replace", TheFile(w)' = f PROVE draft'[f] = Says(NewText(w)')  OBVIOUS
        <5>1. fpc[w] = "fill" /\ draft'[f] = Says(NewText(w)) /\ held' = held /\ turn' = turn
          BY <1>2, <3>1, <3>5, LoneAct
        <5>2. NewText(w)' = NewText(w)  BY <2>1, <5>1 DEF NewText, TheFile, Files
        <5> QED  BY <5>1, <5>2
      <4> QED  BY <3>1, <3>3, <4>2, <4>3, <4>4, <4>5 DEF LoneAt, Says
    <3> QED  BY <3>4, <3>5
  <2>3. "index" \notin deskHit' => deskHit' \intersect Session = {}
    <3> SUFFICES ASSUME "index" \notin deskHit', NEW s \in Session, s \in deskHit' PROVE FALSE  OBVIOUS
    <3>1. s \notin deskHit  BY <2>1 DEF LoneInv
    <3>2. Start(w)
      <4>1. CASE Ctl(w)
        <5>1. deskHit' \subseteq deskHit \union {"config"}  BY <4>1 DEF Ctl
        <5> QED  BY <1>0, <3>1, <5>1
      <4> QED  BY <1>2, <3>1, <4>1 DEF WriterAct, Read, Open, Fill, Replace
    <3>3. deskHit' = deskHit \union {g \in ToSet(Files(w)) : Beside(g) # {}}  BY <3>2 DEF Start
    <3>4. s \in ToSet(Files(w)) /\ Beside(s) # {}  BY <3>1, <3>3
    <3>5. Ahead(w, 1, s)  BY <3>4, AheadIs
    <3>6. "index" \in ToSet(Files(w))  BY <1>0, <3>5, AheadIs DEF Ahead
    <3>7. Beside("index") # {}  BY <1>0, <3>4, BesideIs DEF Ahead
    <3> QED  BY <3>3, <3>6, <3>7
  <2> QED  BY <2>2, <2>3 DEF LoneInv
<1> QED  BY <1>1, <1>2, FileActs

-----------------------------------------------------------------------------
(* Files: keys, lines and timers                                           *)

\* The texts of two names that no conversation has, and the writers there.
LEMMA ApartFrom ==
  ASSUME Given, FileShape, NEW w \in DOMAIN job
  PROVE  /\ \A f \in {"env", "buffer"} : f \in File /\ (Ahead(w, 1, f) <=> job[w].does = (IF f = "env" THEN "key" ELSE "watch"))
         /\ TheFile(w) = "env" <=> job[w].does = "key"
         /\ TheFile(w) = "buffer" <=> job[w].does = "watch" /\ turn[w] = 1
         /\ TheFile(w) = "config" <=> job[w].does = "config"
         /\ "config" \in File /\ \A n : Ahead(w, n, "config") <=> job[w].does = "config"
         /\ TheFile(w) = "index" <=> job[w].does \in {"create", "save"} /\ turn[w] = 2
         /\ TheFile(w) \in Session <=> job[w].does \in {"create", "save"} /\ turn[w] = 1
<1>1. job[w].session \in Session /\ job[w].session \notin {"index", "env", "config", "buffer", "window"}
  BY FilesOf
<1>2. \A s \in Session : s \notin {"index", "env", "config", "buffer", "window"}  BY FilesAssumption
<1> QED  BY <1>1, <1>2, FileAt DEF Ahead, File

LEMMA MadeOfSet ==
  ASSUME NEW f \in {"env", "buffer"}, NEW t, t = NoText \/ t.kind = "text", NEW m \in Made(f, t)
  PROVE  m # Torn /\ m.value = IF t.kind = "text" THEN t.value ELSE {}
<1>1. CASE t.kind = "text"
  <2>1. m = t  BY <1>1 DEF Made
  <2> QED  BY <1>1, <2>1 DEF Torn
<1>2. CASE t = NoText
  <2>1. t.kind = "none"  BY <1>2 DEF NoText
  <2>2. m = Says({})  BY <2>1, FilesAssumption DEF Made
  <2> QED  BY <2>1, <2>2 DEF Says, Torn
<1> QED  BY <1>1, <1>2

LEMMA InitSet == Given /\ InitFiles => SetInv
<1> SUFFICES ASSUME Given, InitFiles, NEW f \in {"env", "buffer"}, NEW w \in DOMAIN job
             PROVE  fpc[w] = "idle"
  BY DEF SetInv, SetAt
<1> QED  BY FilesOf DEF InitFiles

LEMMA SetInvStep ==
  Given /\ FileShape /\ LoneInv /\ SetInv /\ DeskFilesNext(scene.stops) => SetInv'
<1> SUFFICES ASSUME Given, FileShape, LoneInv, SetInv, DeskFilesNext(scene.stops),
                    NEW f \in {"env", "buffer"}, f \notin deskHit'
             PROVE  SetAt(f)'
  BY DEF SetInv
<1>1. CASE ServerStops
  <2>1. /\ FileShape' /\ UNCHANGED <<job, text, draft, fd, held, turn>> /\ deskHit \subseteq deskHit'
        /\ \A w \in DOMAIN job : fpc'[w] = fpc[w] \/ \A g : Ahead(w, 1, g) => g \in deskHit'
    BY <1>1, StopLocal
  <2>2. SetAt(f)  BY <2>1 DEF SetInv
  <2>3. ASSUME NEW w \in DOMAIN job, f \in ToSet(Files(w))
        PROVE  /\ fpc'[w] # "idle" /\ w \notin Beside(f)' => w \in Content(f)'
               /\ TheFile(w)' = f /\ fpc'[w] \in {"open", "fill", "replace"} => held'[w] = Content(f)'
    <3>1. fpc'[w] = fpc[w]  BY <2>1, <2>3, AheadIs
    <3>2. w \in Beside(f)' <=> w \in Beside(f)  BY <2>1, <3>1, BesideIs, BesideNext
    <3>3. TheFile(w)' = TheFile(w) /\ Content(f)' = Content(f)  BY <2>1 DEF TheFile, Files, Content
    <3> QED  BY <2>1, <2>2, <2>3, <3>1, <3>2, <3>3 DEF SetAt
  <2> QED  BY <2>1, <2>3 DEF SetAt, Files
<1>2. ASSUME NEW w \in DOMAIN job, WriterAct(w) PROVE SetAt(f)'
  <2>1. /\ job' = job /\ FileShape' /\ deskHit \subseteq deskHit' /\ f \in File /\ w \in Writer
    BY <1>2, WriterLocal, ApartFrom, FilesOf
  <2>2. SetAt(f) /\ LoneAt(f)  BY <2>1 DEF SetInv, LoneInv
  <2>3. /\ \A v : v # w => (v \in Beside(f)' <=> v \in Beside(f))
        /\ w \in Beside(f)' => w \in Beside(f) \/ (Start(w) /\ Beside(f) = {})
        /\ w \in Beside(f) \/ fpc[w] \notin {"open", "fill", "replace"} \/ f # TheFile(w)
    BY <1>2, BesideAct
  <2>4. ASSUME NEW v \in DOMAIN job, v # w
        PROVE  fpc'[v] = fpc[v] /\ held'[v] = held[v] /\ TheFile(v)' = TheFile(v)
    <3>1. v \in Writer  BY FilesOf
    <3>2. fpc'[v] = fpc[v] /\ held'[v] = held[v] /\ turn'[v] = turn[v]  BY <1>2, <2>4, <3>1, WriterLocal
    <3> QED  BY <2>1, <3>2 DEF TheFile, Files
  <2>5. \A v : ToSet(Files(v))' = ToSet(Files(v))  BY <2>1 DEF Files
  <2>6. CASE f = TheFile(w) /\ fpc[w] = "replace"
    <3>1. text'[f] = Says(NewText(w)) /\ After(w)  BY <1>2, <2>2, <2>6, LoneAct
    <3>2. NewText(w) = held[w] \union {w}  BY <2>6, FilesAssumption DEF NewText
    <3>3. w \in Beside(f) /\ f \in ToSet(Files(w))
      BY <2>3, <2>6, BesideIs, FileAt, AheadIs DEF Ahead
    <3>4. held[w] = Content(f)  BY <2>2, <2>6, <3>3, BesideIs DEF SetAt
    <3>5. Content(f)' = Content(f) \union {w}  BY <3>1, <3>2, <3>4 DEF Content, Says
    <3>6. ASSUME NEW v \in DOMAIN job, v # w, f \in ToSet(Files(v))
          PROVE  /\ fpc'[v] # "idle" /\ v \notin Beside(f)' => v \in Content(f)'
                 /\ TheFile(v)' = f => fpc'[v] \notin {"open", "fill", "replace"}
      <4>1. v \notin Beside(f)  BY <2>2, <3>3, <3>6 DEF LoneAt
      <4>2. fpc[v] # "idle" => v \in Content(f)  BY <2>2, <3>6, <4>1 DEF SetAt
      <4>3. TheFile(v) = f => fpc[v] \in {"idle", "done"}
        BY <3>6, <4>1, BesideIs, FileAt
      <4> QED  BY <2>4, <3>5, <3>6, <4>2, <4>3
    <3>7. TheFile(w)' = f => fpc'[w] \notin {"open", "fill", "replace"}
      <4>1. CASE job[w].does = "key"
        <5>1. turn[w] = 1 /\ Len(Files(w)) = 1  BY <4>1, FileAt
        <5>2. fpc'[w] = "done"  BY <2>1, <3>1, <4>1, <5>1 DEF After, Then, FileShape
        <5> QED  BY <5>2
      <4>2. CASE job[w].does = "watch"
        <5>1. turn[w] = 1 /\ Len(Files(w)) = 2  BY <2>6, <4>2, FileAt
        <5>2. turn' = [turn EXCEPT ![w] = IF @ < Len(Files(w)) THEN @ + 1 ELSE @]
          <6>1. draft[f] = Says(NewText(w))  BY <2>2, <2>6, <3>3 DEF LoneAt
          <6>2. draft[f] # NoText  BY <6>1 DEF Says, NoText
          <6> QED  BY <1>2, <2>6, <6>2 DEF WriterAct, Start, Read, Open, Fill, Replace, Ctl
        <5>3. turn'[w] = 2  BY <2>1, <5>1, <5>2 DEF FileShape
        <5>4. TheFile(w)' = Files(w)[2]  BY <2>1, <5>3 DEF TheFile, Files
        <5>5. Files(w)[2] = "window"  BY <4>2, FilesOf
        <5> QED  BY <5>4, <5>5
      <4> QED  BY <2>6, <4>1, <4>2, ApartFrom
    <3> QED  BY <2>1, <2>5, <3>5, <3>6, <3>7 DEF SetAt
  <2>7. CASE f # TheFile(w) \/ fpc[w] # "replace"
    <3>1. text'[f] = text[f]
      <4>1. CASE f # TheFile(w)  BY <1>2, <2>1, <4>1, WriterLocal
      <4>2. CASE f = TheFile(w)  BY <1>2, <2>2, <2>7, <4>2, LoneAct
      <4> QED  BY <4>1, <4>2
    <3>2. Content(f)' = Content(f)  BY <3>1 DEF Content
    <3>3. ASSUME NEW v \in DOMAIN job, v # w, f \in ToSet(Files(v))
          PROVE  /\ fpc'[v] # "idle" /\ v \notin Beside(f)' => v \in Content(f)'
                 /\ TheFile(v)' = f /\ fpc'[v] \in {"open", "fill", "replace"} => held'[v] = Content(f)'
      BY <2>2, <2>3, <2>4, <3>2, <3>3 DEF SetAt
    <3>4. ASSUME f \in ToSet(Files(w)), fpc'[w] # "idle", w \notin Beside(f)' PROVE w \in Content(f)'
      <4>1. CASE w \in Beside(f)
        <5>1. fpc[w] \notin {"idle", "done"} /\ Ahead(w, turn[w], f)  BY <4>1, BesideIs
        <5>2. ~(fpc'[w] \notin {"idle", "done"} /\ Ahead(w, turn'[w], f))  BY <2>1, <3>4, BesideNext
        <5>3. job[w].does \in {"key", "watch"}  BY <5>1, ApartFrom DEF Ahead
        <5>4. TheFile(w) = f /\ fpc[w] # "replace"
          BY <2>7, <5>1, <5>3, FileAt, ApartFrom DEF Ahead
        <5>5. fpc[w] \in {"read", "open", "fill"}
          BY <5>1, <5>3, <5>4 DEF FileShape
        <5>6. turn' = turn /\ fpc'[w] \in {"open", "fill", "replace"}
          <6>1. CASE Read(w)
            <7>1. \A m \in Made(f, text[f]) : m # Torn  BY <2>2, MadeOfSet DEF LoneAt
            <7>2. fpc' = [fpc EXCEPT ![w] = "open"] /\ turn' = turn
              BY <5>4, <6>1, <7>1 DEF Read, Then
            <7> QED  BY <2>1, <7>2 DEF FileShape
          <6>2. CASE Open(w) \/ Fill(w)
            BY <2>1, <6>2 DEF Open, Fill, Then, FileShape
          <6> QED  BY <1>2, <5>5, <6>1, <6>2 DEF WriterAct, Start, Replace, Ctl
        <5> QED  BY <5>1, <5>2, <5>6
      <4>2. CASE w \notin Beside(f) /\ fpc[w] # "idle"
        BY <2>2, <3>2, <3>4, <4>2 DEF SetAt
      <4>3. CASE fpc[w] = "idle"
        <5>1. Start(w)  BY <1>2, <4>3 DEF WriterAct, Read, Open, Fill, Replace, Ctl
        <5>2. turn'[w] = 1 /\ fpc'[w] \in {"open", "read"}  BY <2>1, <5>1 DEF Start, Then, FileShape
        <5>3. w \in Beside(f)'  BY <2>1, <3>4, <5>2, BesideNext, AheadIs
        <5> QED  BY <3>4, <5>3
      <4> QED  BY <4>1, <4>2, <4>3
    <3>5. ASSUME f \in ToSet(Files(w)), TheFile(w)' = f, fpc'[w] \in {"open", "fill", "replace"}
          PROVE  held'[w] = Content(f)'
      <4>1. CASE Read(w)
        <5>1. turn' = turn /\ TheFile(w) = f  BY <2>1, <3>5, <4>1 DEF Read, TheFile, Files
        <5>2. PICK m \in Made(f, text[f]) :
                \/ m = Torn /\ fpc' = [fpc EXCEPT ![w] = "done"]
                \/ held' = [held EXCEPT ![w] = m.value]
          BY <4>1, <5>1 DEF Read, Then
        <5>3. m # Torn /\ m.value = Content(f)
          BY <2>2, <5>2, MadeOfSet DEF LoneAt, Content
        <5> QED  BY <2>1, <3>2, <5>2, <5>3 DEF FileShape
      <4>2. CASE Open(w) \/ Fill(w)
        <5>1. held' = held /\ TheFile(w) = f /\ fpc[w] \in {"open", "fill"}
          BY <2>1, <3>5, <4>2 DEF Open, Fill, TheFile, Files
        <5> QED  BY <2>2, <3>2, <3>5, <5>1 DEF SetAt
      <4>3. CASE Start(w)
        <5>1. job[w].does # "create"  BY <3>5, ApartFrom, AheadIs
        <5>2. fpc'[w] = "read"  BY <2>1, <4>3, <5>1 DEF Start, Then, FileShape
        <5> QED  BY <3>5, <5>2
      <4>4. CASE Replace(w)
        <5>1. job[w].does = "key" \/ job[w].does = "watch"  BY <3>5, ApartFrom, AheadIs
        <5>2. fpc[w] = "replace" /\ TheFile(w) # f  BY <2>7, <4>4 DEF Replace
        <5>3. job[w].does = "watch" /\ turn[w] = 2 /\ Len(Files(w)) = 2
          BY <3>5, <5>1, <5>2, ApartFrom, FileAt, AheadIs
        <5>4. fpc'[w] = "done"
          BY <2>1, <4>4, <5>3 DEF Replace, After, Then, FileShape
        <5> QED  BY <3>5, <5>4
      <4>5. CASE Ctl(w)
        BY <2>1, <3>5, <4>5 DEF Ctl, Then, FileShape
      <4> QED  BY <1>2, <4>1, <4>2, <4>3, <4>4, <4>5 DEF WriterAct
    <3> QED  BY <2>1, <2>5, <3>3, <3>4, <3>5 DEF SetAt
  <2> QED  BY <2>6, <2>7
<1> QED  BY <1>1, <1>2, FileActs

LEMMA InitConfig == Given /\ InitFiles => ConfigInv
<1> SUFFICES ASSUME Given, InitFiles PROVE ConfigInv  OBVIOUS
<1>1. \A w \in DOMAIN job : fpc[w] = "idle"  BY FilesOf DEF InitFiles
<1>2. unit = [t \in Timer |-> t = "scan"] /\ unit["scan"]  BY DEF InitFiles, Timer
<1>3. text["config"] = Says(unit) \/ text["config"] = NoText
  <2>1. "config" \in File /\ "config" \notin Session  BY FilesAssumption DEF File
  <2> QED  BY <1>2, <2>1 DEF InitFiles
<1>4. AsUnit  BY <1>2, <1>3 DEF AsUnit, Says, NoText
<1> QED  BY <1>1, <1>2, <1>4 DEF ConfigInv, Beside, Writing

\* What is read of config.toml is what the timers stand at.
LEMMA ReadIsUnit ==
  ASSUME Given, FileShape, unit \in [Timer -> BOOLEAN], AsUnit, NEW w \in DOMAIN job, Read(w),
         TheFile(w) = "config", text["config"] = NoText \/ text["config"].kind = "text"
  PROVE  /\ held' = [held EXCEPT ![w] = unit] /\ old' = [old EXCEPT ![w] = unit]
         /\ fpc' = [fpc EXCEPT ![w] = "open"]
<1>1. PICK m \in Made("config", text["config"]) :
        IF m = Torn THEN Then(w, "done") /\ UNCHANGED <<held, old>>
        ELSE LET now == IF text["config"] = NoText THEN [m.value EXCEPT !["watch"] = unit["watch"]] ELSE m.value
             IN /\ held' = [held EXCEPT ![w] = now] /\ old' = [old EXCEPT ![w] = now] /\ Then(w, "open")
  BY DEF Read
<1>2. CASE text["config"].kind = "text"
  <2>1. m = text["config"]  BY <1>2 DEF Made
  <2>2. m # Torn /\ text["config"] # NoText /\ m.value = unit  BY <1>2, <2>1 DEF Torn, NoText, AsUnit
  <2> QED  BY <1>1, <2>2 DEF Then
<1>3. CASE text["config"] = NoText
  <2>1. text["config"].kind = "none"  BY <1>3 DEF NoText
  <2>2. m = Says([t \in Timer |-> t = "scan"])  BY <1>3, <2>1, FilesAssumption DEF Made
  <2>3. m # Torn /\ m.value = [t \in Timer |-> t = "scan"]  BY <2>2 DEF Says, Torn
  <2>4. unit["scan"] = TRUE  BY <2>1 DEF AsUnit, Timer
  <2>5. [m.value EXCEPT !["watch"] = unit["watch"]] = unit
    <3>1. [m.value EXCEPT !["watch"] = unit["watch"]] = [t \in Timer |-> IF t = "watch" THEN unit["watch"] ELSE t = "scan"]
      BY <2>3
    <3>2. \A t \in Timer : (IF t = "watch" THEN unit["watch"] ELSE t = "scan") = unit[t]
      BY <2>4 DEF Timer
    <3> QED  BY <3>1, <3>2
  <2> QED  BY <1>1, <1>3, <2>3, <2>5 DEF Then
<1> QED  BY <1>2, <1>3

LEMMA ConfigInvStep ==
  Given /\ FileShape /\ LoneInv /\ ConfigInv /\ DeskFilesNext(scene.stops) => ConfigInv'
<1> SUFFICES ASSUME Given, FileShape, LoneInv, ConfigInv, DeskFilesNext(scene.stops) PROVE ConfigInv'
  OBVIOUS
<1>1. CASE ServerStops
  <2>1. /\ FileShape' /\ UNCHANGED <<job, text, held, turn, old, unit>> /\ deskHit \subseteq deskHit'
        /\ \A w \in DOMAIN job : fpc'[w] = fpc[w] \/ \A g : Ahead(w, 1, g) => g \in deskHit'
    BY <1>1, StopLocal
  <2>2. ASSUME "config" \notin deskHit', NEW w \in DOMAIN job, job[w].does = "config" PROVE fpc'[w] = fpc[w]
    BY <2>1, <2>2, ApartFrom
  <2>3. "config" \notin deskHit' => Beside("config")' = Beside("config")
    BY <2>1, <2>2, BesideIs, BesideNext, ApartFrom
  <2>4. ASSUME "config" \notin deskHit', \A w \in DOMAIN job : fpc'[w] # "ctl" PROVE AsUnit'
    <3>1. \A w \in DOMAIN job : fpc[w] # "ctl"  BY <2>2, <2>4 DEF FileShape
    <3> QED  BY <2>1, <2>4, <3>1 DEF ConfigInv, AsUnit
  <2>5. ASSUME "config" \notin deskHit', NEW w \in Beside("config")'
        PROVE  /\ fpc'[w] = fpc[w] /\ w \in Beside("config")
    BY <2>2, <2>3, <2>5, BesideIs, ApartFrom
  <2> QED  BY <2>1, <2>4, <2>5 DEF ConfigInv
<1>2. ASSUME NEW w \in DOMAIN job, WriterAct(w) PROVE ConfigInv'
  <2>1. /\ job' = job /\ FileShape' /\ deskHit \subseteq deskHit' /\ w \in Writer
    BY <1>2, WriterLocal, FilesOf
  <2>2. unit' \in [Timer -> BOOLEAN] /\ (~Ctl(w) => unit' = unit)
    <3>1. CASE Ctl(w)
      BY <3>1, FilesOf DEF Ctl, ConfigInv
    <3>2. CASE ~Ctl(w)
      BY <1>2, <3>2 DEF WriterAct, Start, Read, Open, Fill, Replace, ConfigInv
    <3> QED  BY <3>1, <3>2
  <2> SUFFICES ASSUME "config" \notin deskHit'
               PROVE  /\ (\A v \in DOMAIN job : fpc'[v] # "ctl") => AsUnit'
                      /\ \A v \in Beside("config")' :
                           /\ fpc'[v] \in {"open", "fill", "replace"} => held'[v] = unit' /\ old'[v] = unit'
                           /\ fpc'[v] = "ctl" =>
                                /\ old'[v] = unit'
                                /\ text'["config"] = Says([unit' EXCEPT ![job[v].timer] = job[v].on])
    BY <2>1, <2>2 DEF ConfigInv
  <2>3. /\ (\A v \in DOMAIN job : fpc[v] # "ctl") => AsUnit
        /\ \A v \in Beside("config") :
             /\ fpc[v] \in {"open", "fill", "replace"} => held[v] = unit /\ old[v] = unit
             /\ fpc[v] = "ctl" => /\ old[v] = unit
                                  /\ text["config"] = Says([unit EXCEPT ![job[v].timer] = job[v].on])
        /\ LoneAt("config") /\ unit \in [Timer -> BOOLEAN]
    BY <2>1, ApartFrom DEF ConfigInv, LoneInv
  <2>4. \A v : v # w => (v \in Beside("config")' <=> v \in Beside("config"))
    BY <1>2, BesideAct
  <2>5. ASSUME NEW v \in DOMAIN job, v # w
        PROVE  fpc'[v] = fpc[v] /\ held'[v] = held[v] /\ old'[v] = old[v]
    <3>1. v \in Writer  BY FilesOf
    <3> QED  BY <1>2, <2>5, <3>1, WriterLocal
  <2>6. \A v \in Beside("config") : v \in DOMAIN job  BY BesideIs
  <2>7. CASE job[w].does # "config"
    <3>1. TheFile(w) # "config" /\ "config" \in File  BY <2>7, ApartFrom
    <3>2. text'["config"] = text["config"]  BY <1>2, <3>1, WriterLocal
    <3>3. ~Ctl(w) /\ fpc[w] # "ctl" /\ fpc'[w] # "ctl"
      BY <2>1, <2>7 DEF Ctl, FileShape
    <3>4. unit' = unit  BY <2>2, <3>3
    <3>5. w \notin Beside("config")'  BY <2>1, <2>7, BesideNext, ApartFrom
    <3>6. (\A v \in DOMAIN job : fpc'[v] # "ctl") => AsUnit'
      BY <2>3, <2>5, <3>2, <3>3, <3>4 DEF AsUnit
    <3> QED  BY <2>3, <2>4, <2>5, <2>6, <3>2, <3>4, <3>5, <3>6
  <2>8. CASE job[w].does = "config"
    <3>1. TheFile(w) = "config" /\ turn[w] = 1 /\ Len(Files(w)) = 1 /\ "config" \in File
      BY <2>8, ApartFrom, FileAt
    <3>2. \A v \in DOMAIN job : fpc[v] = "ctl" => v \in Beside("config")
      BY BesideIs DEF FileShape, Ahead
    <3>3. w \in Beside("config") \/ Start(w)
      BY <1>2, <2>8, BesideIs DEF WriterAct, Read, Open, Fill, Replace, Ctl, Ahead
    <3>4. CASE Start(w)
      <4>1. text' = text /\ unit' = unit /\ fpc[w] = "idle" /\ fpc'[w] = "read"
        BY <2>1, <2>8, <3>4 DEF Start, Then, fileVars, FileShape
      <4>2. (\A v \in DOMAIN job : fpc'[v] # "ctl") => AsUnit'
        BY <2>3, <2>5, <4>1 DEF AsUnit
      <4> QED  BY <2>3, <2>4, <2>5, <2>6, <4>1, <4>2
    <3>5. ASSUME ~Start(w)
          PROVE  /\ \A v \in Beside("config")' : v = w
                 /\ (\A v \in DOMAIN job : v # w => fpc[v] # "ctl")
      BY <2>3, <2>4, <3>2, <3>3, <3>5 DEF LoneAt
    <3>6. CASE Read(w)
      <4>1. AsUnit  BY <2>3, <3>4, <3>5, <3>6 DEF Read, Start
      <4>2. held'[w] = unit /\ old'[w] = unit /\ fpc'[w] = "open"
        <5>1. text["config"] = NoText \/ text["config"].kind = "text"  BY <2>3 DEF LoneAt
        <5>2. /\ held' = [held EXCEPT ![w] = unit] /\ old' = [old EXCEPT ![w] = unit]
              /\ fpc' = [fpc EXCEPT ![w] = "open"]
          BY <2>3, <3>1, <3>6, <4>1, <5>1, ReadIsUnit
        <5> QED  BY <2>1, <5>2 DEF FileShape
      <4>3. text' = text /\ unit' = unit  BY <3>6 DEF Read, fileVars
      <4>4. AsUnit'  BY <4>1, <4>3 DEF AsUnit
      <4>5. ~Start(w)  BY <3>6 DEF Read, Start
      <4> QED  BY <3>5, <4>2, <4>3, <4>4, <4>5
    <3>7. CASE Open(w) \/ Fill(w)
      <4>1. /\ held' = held /\ old' = old /\ unit' = unit /\ fpc[w] \in {"open", "fill"}
            /\ fpc'[w] \in {"fill", "replace"} /\ ~Start(w)
        BY <2>1, <3>7 DEF Open, Fill, Then, FileShape, Start
      <4>2. text'["config"] = text["config"]  BY <1>2, <2>3, <3>1, <4>1, LoneAct
      <4>3. AsUnit'  BY <2>3, <3>5, <4>1, <4>2 DEF AsUnit
      <4> QED  BY <2>3, <3>3, <3>5, <4>1, <4>3
    <3>8. CASE Replace(w)
      <4>1. fpc[w] = "replace" /\ ~Start(w) /\ held' = held /\ old' = old /\ unit' = unit
        BY <3>8 DEF Replace, Start
      <4>2. text'["config"] = Says(NewText(w)) /\ After(w)
        BY <1>2, <2>3, <3>1, <4>1, LoneAct
      <4>3. fpc'[w] = "ctl"  BY <2>1, <2>8, <3>1, <4>2 DEF After, Then, FileShape
      <4>4. held[w] = unit /\ old[w] = unit  BY <2>3, <3>3, <4>1
      <4>5. NewText(w) = [unit EXCEPT ![job[w].timer] = job[w].on]
        BY <3>1, <4>4, FilesAssumption DEF NewText
      <4> QED  BY <3>5, <4>1, <4>2, <4>3, <4>4, <4>5
    <3>9. CASE Ctl(w)
      <4>1. fpc[w] = "ctl" /\ ~Start(w) /\ text' = text /\ fpc'[w] = "done"
        BY <2>1, <3>9 DEF Ctl, Start, Then, fileVars, FileShape
      <4>2. old[w] = unit /\ text["config"] = Says([unit EXCEPT ![job[w].timer] = job[w].on])
        BY <2>3, <3>3, <4>1
      <4>3. unit' = [unit EXCEPT ![job[w].timer] = job[w].on]
        <5>1. \/ unit' = [unit EXCEPT ![job[w].timer] = job[w].on]
              \/ "config" \in deskHit'
              \/ job[w].on = unit[job[w].timer] /\ unit' = unit
          BY <3>9, <4>2 DEF Ctl
        <5>2. job[w].on = unit[job[w].timer] => [unit EXCEPT ![job[w].timer] = job[w].on] = unit
          BY <2>3
        <5> QED  BY <5>1, <5>2
      <4>4. AsUnit'  BY <4>1, <4>2, <4>3 DEF AsUnit, Says
      <4>5. w \notin Beside("config")'  BY <2>1, <4>1, BesideNext
      <4> QED  BY <3>5, <4>1, <4>4, <4>5
    <3> QED  BY <1>2, <3>4, <3>6, <3>7, <3>8, <3>9 DEF WriterAct
  <2> QED  BY <2>7, <2>8
<1> QED  BY <1>1, <1>2, FileActs

LEMMA FilesKeep ==
  /\ Given /\ FileShape /\ [Next]_vars => FileShape'
  /\ Given /\ FileShape /\ LoneInv /\ [Next]_vars => LoneInv'
  /\ Given /\ FileShape /\ LoneInv /\ SetInv /\ [Next]_vars => SetInv'
  /\ Given /\ FileShape /\ LoneInv /\ ConfigInv /\ [Next]_vars => ConfigInv'
<1>1. [Next]_vars => UNCHANGED deskVars \/ DeskFilesNext(scene.stops)
  BY DEF Next, vars
<1>2. Given /\ FileShape /\ DeskFilesNext(scene.stops) => FileShape'
  BY FileActs, StopLocal, WriterLocal
<1>3. UNCHANGED deskVars => /\ \A f : Beside(f)' = Beside(f)
                            /\ \A w : /\ TheFile(w)' = TheFile(w) /\ Files(w)' = Files(w)
                                      /\ NewText(w)' = NewText(w)
  BY DEF deskVars, fileVars, Beside, Writing, TheFile, Files, NewText
<1>4. UNCHANGED deskVars /\ FileShape => FileShape'
  BY <1>3 DEF deskVars, fileVars, FileShape
<1>5. UNCHANGED deskVars /\ LoneInv => LoneInv'
  BY <1>3 DEF deskVars, fileVars, LoneInv, LoneAt
<1>6. UNCHANGED deskVars /\ SetInv => SetInv'
  BY <1>3 DEF deskVars, fileVars, SetInv, SetAt, Content
<1>7. UNCHANGED deskVars /\ ConfigInv => ConfigInv'
  BY <1>3 DEF deskVars, fileVars, ConfigInv, AsUnit
<1> QED  BY <1>1, <1>2, <1>4, <1>5, <1>6, <1>7, LoneInvStep, SetInvStep, ConfigInvStep

\* What a settings request or a watch wrote is still there when nobody writes,
\* and a timer stands as config.toml says (secrets_store.py, runtime_config.py,
\* kalived_config.py, hiroshima_watch.py): for any number of them, in a file
\* that no two were at at once and that nothing cut off.
THEOREM SettingsStay == Spec => []SettingsHold
<1>1. Init => FileShape /\ LoneInv /\ SetInv /\ ConfigInv
  BY InitFileShape, InitLone, InitSet, InitConfig DEF Init, InitFiles, InitTerminals, InitMemory, Given
<1>2. Given /\ FileShape /\ LoneInv /\ SetInv /\ ConfigInv /\ [Next]_vars
        => (FileShape /\ LoneInv /\ SetInv /\ ConfigInv)'
  BY FilesKeep
<1>3. Given /\ FileShape /\ LoneInv /\ SetInv /\ ConfigInv => SettingsHold
  <2> SUFFICES ASSUME Given, FileShape, LoneInv, SetInv, ConfigInv, Writing = {} PROVE SettingsHold
    BY DEF SettingsHold
  <2>1. \A f : Beside(f) = {}  BY DEF Beside
  <2>2. ASSUME NEW f \in {"env", "buffer"}, f \notin deskHit, NEW w \in DOMAIN job,
               fpc[w] = "done", f \in ToSet(Files(w))
        PROVE  w \in Content(f)
    BY <2>1, <2>2 DEF SetInv, SetAt
  <2>3. "config" \notin deskHit => AsUnit
    BY DEF ConfigInv, Writing
  <2> QED  BY <2>2, <2>3 DEF SettingsHold, Content, AsUnit
<1> QED  BY <1>1, <1>2, <1>3, GivenHolds, PTL DEF Spec

-----------------------------------------------------------------------------
(* Files: the index                                                        *)

LEMMA NoTwiceCount ==
  ASSUME NEW S, NEW h \in Seq(S), NoTwice(h), NEW T, IsFiniteSet(T), ToSet(h) \subseteq T
  PROVE  /\ Cardinality(T) \in Nat /\ Len(h) \in Nat /\ Len(h) <= Cardinality(T)
         /\ Len(h) = Cardinality(T) <=> T = ToSet(h)
<1>1. Len(h) \in Nat /\ DOMAIN h = 1 .. Len(h) /\ h = [i \in 1 .. Len(h) |-> h[i]]  OBVIOUS
<1>2. \A i \in 1 .. Len(h) : h[i] \in ToSet(h)  BY <1>1 DEF ToSet
<1>3. h \in [1 .. Len(h) -> T]  BY <1>1, <1>2
<1>4. h \in Injection(1 .. Len(h), T)  BY <1>1, <1>3 DEF Injection, IsInjective, NoTwice
<1>5. IsFiniteSet(1 .. Len(h)) /\ Cardinality(1 .. Len(h)) = Len(h)
  <2>1. PICK n \in Nat : n = Len(h)  BY <1>1
  <2>2. IsFiniteSet(1 .. n) /\ Cardinality(1 .. n) = IF 1 > n THEN 0 ELSE n - 1 + 1
    <3>1. 1 \in Int /\ n \in Int  OBVIOUS
    <3> QED  BY <3>1, FS_Interval
  <2>3. Cardinality(1 .. n) = n  BY <2>1, <2>2
  <2> QED  BY <2>1, <2>2, <2>3
<1>6. Cardinality(T) \in Nat  BY FS_CardinalityType
<1>7. /\ Cardinality(1 .. Len(h)) <= Cardinality(T)
      /\ Cardinality(1 .. Len(h)) = Cardinality(T) <=> h \in Surjection(1 .. Len(h), T)
  BY <1>4, FS_Injection
<1>8. h \in Surjection(1 .. Len(h), T) <=> T = ToSet(h)
  BY <1>1, <1>3 DEF Surjection, ToSet
<1> QED  BY <1>1, <1>5, <1>6, <1>7, <1>8

LEMMA WithoutIs ==
  ASSUME NEW S, NEW h \in Seq(S), NEW s
  PROVE  /\ Without(h, s) \in Seq(S) /\ ToSet(Without(h, s)) \subseteq ToSet(h)
         /\ Len(Without(h, s)) = IF s \in ToSet(h) THEN Len(h) - 1 ELSE Len(h)
         /\ NoTwice(h) => NoTwice(Without(h, s)) /\ s \notin ToSet(Without(h, s))
<1>1. Len(h) \in Nat /\ DOMAIN h = 1 .. Len(h) /\ \A i \in 1 .. Len(h) : h[i] \in S  OBVIOUS
<1>2. CASE s \notin ToSet(h)  BY <1>1, <1>2 DEF Without
<1>3. CASE s \in ToSet(h)
  <2>1. PICK k : k = CHOOSE i \in DOMAIN h : h[i] = s  OBVIOUS
  <2>2. k \in 1 .. Len(h) /\ h[k] = s  BY <1>1, <1>3, <2>1 DEF ToSet
  <2>3. PICK a : a = SubSeq(h, 1, k - 1)  OBVIOUS
  <2>4. PICK b : b = SubSeq(h, k + 1, Len(h))  OBVIOUS
  <2>5. a \in Seq(S) /\ Len(a) = k - 1 /\ \A i \in 1 .. k - 1 : a[i] = h[i]  BY <1>1, <2>2, <2>3
  <2>6. b \in Seq(S) /\ Len(b) = Len(h) - k /\ \A i \in 1 .. Len(h) - k : b[i] = h[k + i]
    <3>1. k + 1 \in 1 .. Len(h) + 1 /\ Len(h) - (k + 1) + 1 = Len(h) - k /\ Len(h) - k \in Nat  BY <1>1, <2>2
    <3>2. \A i \in 1 .. Len(h) - k : (k + 1) + i - 1 = k + i /\ k + i \in 1 .. Len(h)  BY <1>1, <2>2
    <3>3. b = [i \in 1 .. Len(h) - k |-> h[k + i]]
      BY <1>1, <2>2, <2>4, <3>1, <3>2
    <3> QED  BY <1>1, <3>1, <3>2, <3>3
  <2>7. Without(h, s) = a \o b  BY <1>3, <2>1, <2>3, <2>4 DEF Without, RemoveAt
  <2>8. PICK r : r = a \o b  OBVIOUS
  <2>9. /\ r \in Seq(S) /\ Len(r) = Len(h) - 1 /\ DOMAIN r = 1 .. Len(h) - 1
        /\ \A i \in 1 .. Len(h) - 1 : r[i] = IF i < k THEN h[i] ELSE h[i + 1]
    <3>1. r \in Seq(S) /\ Len(r) = Len(a) + Len(b)  BY <2>5, <2>6, <2>8
    <3>2. Len(r) = Len(h) - 1 /\ DOMAIN r = 1 .. Len(h) - 1  BY <1>1, <2>2, <2>5, <2>6, <3>1
    <3>3. ASSUME NEW i \in 1 .. Len(h) - 1 PROVE r[i] = IF i < k THEN h[i] ELSE h[i + 1]
      <4>1. CASE i < k
        <5>1. r[i] = a[i]  BY <1>1, <2>2, <2>5, <2>6, <2>8, <4>1
        <5> QED  BY <1>1, <2>2, <2>5, <4>1, <5>1
      <4>2. CASE ~(i < k)
        <5>1. r[i] = b[i - Len(a)]  BY <1>1, <2>2, <2>5, <2>6, <2>8, <4>2
        <5>2. i - Len(a) \in 1 .. Len(h) - k /\ k + (i - Len(a)) = i + 1  BY <1>1, <2>2, <2>5, <4>2
        <5>3. b[i - Len(a)] = h[i + 1]  BY <2>6, <5>2
        <5> QED  BY <4>2, <5>1, <5>3
      <4> QED  BY <4>1, <4>2
    <3> QED  BY <3>1, <3>2, <3>3
  <2>10. \A i \in DOMAIN r : \E j \in DOMAIN h : r[i] = h[j] /\ j = (IF i < k THEN i ELSE i + 1) /\ j # k
    BY <1>1, <2>2, <2>9
  <2>11. ToSet(r) \subseteq ToSet(h)  BY <2>10 DEF ToSet
  <2>12. NoTwice(h) => NoTwice(r) /\ s \notin ToSet(r)
    <3> SUFFICES ASSUME NoTwice(h) PROVE NoTwice(r) /\ s \notin ToSet(r)  OBVIOUS
    <3>1. s \notin ToSet(r)  BY <1>1, <2>2, <2>10 DEF ToSet, NoTwice
    <3>2. ASSUME NEW i \in DOMAIN r, NEW j \in DOMAIN r, r[i] = r[j] PROVE i = j
      <4>1. (IF i < k THEN i ELSE i + 1) = (IF j < k THEN j ELSE j + 1)
        BY <2>10, <3>2 DEF NoTwice
      <4> QED  BY <2>2, <2>9, <4>1
    <3> QED  BY <3>1, <3>2 DEF NoTwice
  <2> QED  BY <1>3, <2>7, <2>8, <2>9, <2>11, <2>12
<1> QED  BY <1>2, <1>3

\* The index that a request for s makes of h.
IndexAfter(h, s) ==
  LET first == <<s>> \o Without(h, s)
  IN SubSeq(first, 1, IF Len(first) < MaxIndex THEN Len(first) ELSE MaxIndex)

LEMMA IndexAfterIs ==
  ASSUME NEW h \in Seq(Session), NEW s \in Session
  PROVE  /\ IndexAfter(h, s) \in Seq(Session) /\ ToSet(IndexAfter(h, s)) \subseteq ToSet(h) \union {s}
         /\ NoTwice(h) => NoTwice(IndexAfter(h, s))
         /\ LET n == IF s \in ToSet(h) THEN Len(h) ELSE Len(h) + 1
            IN Len(IndexAfter(h, s)) = IF n < MaxIndex THEN n ELSE MaxIndex
<1>1. PICK w : w = Without(h, s)  OBVIOUS
<1>2. /\ w \in Seq(Session) /\ ToSet(w) \subseteq ToSet(h)
      /\ Len(w) = IF s \in ToSet(h) THEN Len(h) - 1 ELSE Len(h)
      /\ NoTwice(h) => NoTwice(w) /\ s \notin ToSet(w)
  BY <1>1, WithoutIs
<1>3. PICK first : first = <<s>> \o w  OBVIOUS
<1>4. /\ first \in Seq(Session) /\ Len(first) = Len(w) + 1 /\ first[1] = s
      /\ \A i \in 2 .. Len(w) + 1 : first[i] = w[i - 1] /\ i - 1 \in DOMAIN w
  BY <1>2, <1>3
<1>5. PICK n : n = IF Len(first) < MaxIndex THEN Len(first) ELSE MaxIndex  OBVIOUS
<1>6. n \in Nat /\ n <= Len(first) /\ Len(first) \in Nat /\ Len(w) \in Nat /\ Len(h) \in Nat /\ MaxIndex \in Nat
  BY <1>2, <1>4, <1>5, FilesAssumption
<1>7. PICK new : new = SubSeq(first, 1, n)  OBVIOUS
<1>8. new \in Seq(Session) /\ Len(new) = n /\ DOMAIN new = 1 .. n /\ \A i \in 1 .. n : new[i] = first[i]
  BY <1>4, <1>6, <1>7
<1>9. IndexAfter(h, s) = new  BY <1>1, <1>3, <1>5, <1>7 DEF IndexAfter
<1>10. \A i \in DOMAIN new : (i = 1 /\ new[i] = s) \/ (i # 1 /\ i - 1 \in DOMAIN w /\ new[i] = w[i - 1])
  BY <1>4, <1>6, <1>8
<1>11. ToSet(new) \subseteq ToSet(h) \union {s}  BY <1>2, <1>10 DEF ToSet
<1>12. ASSUME NoTwice(h), NEW i \in DOMAIN new, NEW j \in DOMAIN new, new[i] = new[j] PROVE i = j
  <2>1. \A k \in DOMAIN w : w[k] # s  BY <1>2, <1>12 DEF ToSet
  <2>2. i = 1 <=> j = 1  BY <1>10, <1>12, <2>1
  <2>3. i # 1 => i - 1 = j - 1  BY <1>2, <1>10, <1>12, <2>2 DEF NoTwice
  <2> QED  BY <1>8, <2>2, <2>3
<1>13. Len(first) = IF s \in ToSet(h) THEN Len(h) ELSE Len(h) + 1
  <2>1. CASE s \in ToSet(h)  BY <1>2, <1>4, <1>6, <2>1
  <2>2. CASE s \notin ToSet(h)  BY <1>2, <1>4, <1>6, <2>2
  <2> QED  BY <2>1, <2>2
<1> QED  BY <1>5, <1>8, <1>9, <1>11, <1>12, <1>13 DEF NoTwice

\* It lists again what is there, as far as the index goes.
LEMMA ListsAfter ==
  ASSUME NEW T \in SUBSET Session, NEW s \in T, NEW h, Lists(h, T) \/ Lists(h, T \ {s})
  PROVE  Lists(IndexAfter(h, s), T)
<1>1. IsFiniteSet(T) /\ Cardinality(T) \in Nat /\ MaxIndex \in Nat \ {0} /\ s \in Session
  BY FilesAssumption, FS_Subset, FS_CardinalityType
<1>2. h \in Seq(Session) /\ NoTwice(h) /\ ToSet(h) \subseteq T /\ Len(h) \in Nat  BY DEF Lists
<1>3. PICK n : n = IF s \in ToSet(h) THEN Len(h) ELSE Len(h) + 1  OBVIOUS
<1>4. /\ IndexAfter(h, s) \in Seq(Session) /\ ToSet(IndexAfter(h, s)) \subseteq T
      /\ NoTwice(IndexAfter(h, s))
      /\ Len(IndexAfter(h, s)) = IF n < MaxIndex THEN n ELSE MaxIndex
  BY <1>1, <1>2, <1>3, IndexAfterIs
<1>5. (IF n < MaxIndex THEN n ELSE MaxIndex) = IF Cardinality(T) < MaxIndex THEN Cardinality(T) ELSE MaxIndex
  <2>1. CASE s \in ToSet(h)
    <3>1. Lists(h, T)  BY <2>1 DEF Lists
    <3>2. n = Len(h) /\ Len(h) = IF Cardinality(T) < MaxIndex THEN Cardinality(T) ELSE MaxIndex
      BY <1>3, <2>1, <3>1 DEF Lists
    <3> QED  BY <1>1, <3>2
  <2>2. CASE s \notin ToSet(h) /\ Lists(h, T)
    <3>1. n = Len(h) + 1 /\ Len(h) = IF Cardinality(T) < MaxIndex THEN Cardinality(T) ELSE MaxIndex
      BY <1>3, <2>2 DEF Lists
    <3>2. Len(h) # Cardinality(T)  BY <1>1, <1>2, <2>2, NoTwiceCount
    <3> QED  BY <1>1, <3>1, <3>2
  <2>3. CASE s \notin ToSet(h) /\ Lists(h, T \ {s})
    <3>1. PICK m : m = Cardinality(T \ {s})  OBVIOUS
    <3>2. m = Cardinality(T) - 1  BY <1>1, <3>1, FS_RemoveElement
    <3>3. n = Len(h) + 1 /\ Len(h) = IF m < MaxIndex THEN m ELSE MaxIndex
      BY <1>3, <2>3, <3>1 DEF Lists
    <3> QED  BY <1>1, <3>2, <3>3
  <2> QED  BY <2>1, <2>2, <2>3
<1> QED  BY <1>4, <1>5 DEF Lists

LEMMA InitIndex == Given /\ InitFiles => IndexInv /\ LengthInv
<1> SUFFICES ASSUME Given, InitFiles PROVE IndexInv /\ LengthInv  OBVIOUS
<1>1. /\ scene.index \in Seq(Session) /\ Len(scene.index) <= MaxIndex /\ NoTwice(scene.index)
      /\ MaxIndex \in Nat \ {0} /\ IsFiniteSet(Session)
  BY SceneAssumption, FilesAssumption DEF Given, NoTwice
<1>2. \A w \in DOMAIN job : fpc[w] = "idle" /\ turn[w] = 1  BY FilesOf DEF InitFiles
<1>3. "index" \in File /\ "index" \notin Session  BY FilesAssumption DEF File
<1>4. text["index"] = IF scene.index = <<>> THEN NoText ELSE Says(scene.index)  BY <1>3 DEF InitFiles
<1>5. ASSUME NEW s \in Session PROVE text[s] = IF s \in ToSet(scene.index) THEN Says("before") ELSE NoText
  <2>1. s \in File /\ s \notin {"index", "config"}  BY FilesAssumption DEF File
  <2> QED  BY <2>1 DEF InitFiles
<1>6. ToSet(scene.index) \subseteq Session  BY <1>1 DEF ToSet
<1>7. There = ToSet(scene.index)  BY <1>5, <1>6 DEF There, Says, NoText
<1>8. Idx = scene.index  BY <1>4 DEF Idx, Says, NoText
<1>9. Tells(text["index"]) /\ Tells(draft["index"])
  BY <1>1, <1>3, <1>4, <1>7 DEF Tells, InitFiles, Says, NoText
<1>10. Lists(Idx, There)
  <2>1. IsFiniteSet(There)  BY <1>1, <1>6, <1>7, FS_Subset
  <2>2. Len(scene.index) \in Nat /\ Len(scene.index) = Cardinality(There) /\ Cardinality(There) \in Nat
    BY <1>1, <1>7, <2>1, NoTwiceCount
  <2> QED  BY <1>1, <1>7, <1>8, <2>2 DEF Lists
<1> QED  BY <1>2, <1>9, <1>10, BesideIs, InitFileShape DEF IndexInv, LengthInv

LEMMA NewIndex ==
  ASSUME Given, NEW w \in DOMAIN job, TheFile(w) = "index"
  PROVE  NewText(w) = IndexAfter(held[w], job[w].session)
BY FilesAssumption DEF NewText, IndexAfter

\* Conversations come and stay.
LEMMA ThereGrows ==
  ASSUME Given, FileShape, NEW w \in DOMAIN job, WriterAct(w)
  PROVE  There \subseteq There'
<1> SUFFICES ASSUME NEW s \in Session, text[s] # NoText PROVE text'[s] # NoText  BY DEF There
<1>1. s \in File  BY DEF File
<1>2. CASE s # TheFile(w)  BY <1>1, <1>2, WriterLocal
<1>3. CASE s = TheFile(w) /\ Fill(w)
  <2>1. text' = text \/ \E t \in Over(text[s], NewText(w)) : text' = [text EXCEPT ![s] = t]
    BY <1>3 DEF Fill, fileVars
  <2>2. \A t \in Over(text[s], NewText(w)) : t # NoText  BY DEF Over, Says, Torn, NoText
  <2> QED  BY <1>1, <2>1, <2>2 DEF FileShape
<1>4. CASE s = TheFile(w) /\ Replace(w)
  BY <1>1, <1>4 DEF Replace, fileVars, FileShape
<1>5. CASE ~Fill(w) /\ ~Replace(w)
  BY <1>5 DEF WriterAct, Start, Read, Open, Ctl, fileVars
<1> QED  BY <1>2, <1>3, <1>4, <1>5

LEMMA IndexInvStep == Given /\ FileShape /\ IndexInv /\ DeskFilesNext(scene.stops) => IndexInv'
<1> SUFFICES ASSUME Given, FileShape, IndexInv, DeskFilesNext(scene.stops) PROVE IndexInv'  OBVIOUS
<1>1. CASE ServerStops
  <2>1. /\ UNCHANGED <<job, text, draft, held, turn>>
        /\ \A w \in DOMAIN job : fpc'[w] = fpc[w] \/ fpc'[w] = "done"
    BY <1>1, StopLocal
  <2> QED  BY <2>1 DEF IndexInv, Tells, There
<1>2. ASSUME NEW w \in DOMAIN job, WriterAct(w) PROVE IndexInv'
  <2>1. /\ job' = job /\ FileShape' /\ There \subseteq There' /\ w \in Writer /\ "index" \in File
        /\ "index" \notin Session /\ job[w].session \in Session
    BY <1>2, WriterLocal, ThereGrows, FilesOf, FilesAssumption DEF File
  <2>2. /\ Tells(text["index"]) /\ Tells(draft["index"])
        /\ job[w].does \in {"create", "save"} /\ turn[w] = 2 =>
             /\ job[w].session \in There
             /\ fpc[w] \in {"open", "fill", "replace"} => held[w] \in Seq(Session) /\ ToSet(held[w]) \subseteq There
    BY DEF IndexInv
  <2>3. /\ text'["index"] = text["index"] \/ text'["index"] = Torn \/ text'["index"] = draft["index"]
           \/ (fpc[w] = "fill" /\ TheFile(w) = "index" /\ text'["index"] = Says(NewText(w)))
        /\ \/ draft'["index"] = draft["index"] \/ draft'["index"] \in {NoText, Empty, Torn}
           \/ (fpc[w] = "fill" /\ TheFile(w) = "index" /\ draft'["index"] = Says(NewText(w)))
    <3>1. CASE TheFile(w) # "index"  BY <1>2, <2>1, <3>1, WriterLocal
    <3>2. CASE TheFile(w) = "index" /\ Fill(w)
      <4>1. /\ fpc[w] = "fill"
            /\ text' = text \/ \E t \in {Says(NewText(w)), Torn} : text' = [text EXCEPT !["index"] = t]
            /\ draft' = draft \/ \E t \in {Says(NewText(w)), Torn} : draft' = [draft EXCEPT !["index"] = t]
        BY <3>2 DEF Fill, fileVars, Over
      <4> QED  BY <2>1, <3>2, <4>1 DEF FileShape
    <3>3. CASE TheFile(w) = "index" /\ ~Fill(w)
      BY <1>2, <2>1, <3>3 DEF WriterAct, Start, Read, Open, Replace, Ctl, fileVars, FileShape
    <3> QED  BY <3>1, <3>2, <3>3
  <2>4. ASSUME fpc[w] = "fill", TheFile(w) = "index"
        PROVE  NewText(w) \in Seq(Session) /\ ToSet(NewText(w)) \subseteq There
    <3>1. job[w].does \in {"create", "save"} /\ turn[w] = 2  BY <2>4, ApartFrom
    <3>2. held[w] \in Seq(Session) /\ ToSet(held[w]) \subseteq There /\ job[w].session \in There
      BY <2>2, <2>4, <3>1
    <3> QED  BY <2>1, <2>4, <3>2, NewIndex, IndexAfterIs
  <2>5. Tells(text["index"])' /\ Tells(draft["index"])'
    <3>1. /\ text'["index"].kind = "text" =>
               text'["index"].value \in Seq(Session) /\ ToSet(text'["index"].value) \subseteq There
          /\ draft'["index"].kind = "text" =>
               draft'["index"].value \in Seq(Session) /\ ToSet(draft'["index"].value) \subseteq There
      BY <2>2, <2>3, <2>4 DEF Tells, Torn, NoText, Empty, Says
    <3> QED  BY <2>1, <3>1 DEF Tells
  <2>6. ASSUME NEW v \in DOMAIN job, job[v].does \in {"create", "save"}, turn'[v] = 2
        PROVE  /\ job[v].session \in There'
               /\ fpc'[v] \in {"open", "fill", "replace"} => held'[v] \in Seq(Session) /\ ToSet(held'[v]) \subseteq There'
    <3>1. CASE v # w
      <4>1. v \in Writer  BY FilesOf
      <4>2. fpc'[v] = fpc[v] /\ held'[v] = held[v] /\ turn'[v] = turn[v]  BY <1>2, <3>1, <4>1, WriterLocal
      <4> QED  BY <2>1, <2>6, <4>2 DEF IndexInv
    <3>2. CASE v = w /\ Read(w)
      <4>1. turn' = turn /\ turn[w] = 2 /\ TheFile(w) = "index"  BY <2>6, <3>2, ApartFrom DEF Read
      <4>2. PICK m \in Made("index", text["index"]) :
              \/ fpc' = [fpc EXCEPT ![w] = "done"]
              \/ held' = [held EXCEPT ![w] = m.value]
        BY <3>2, <4>1 DEF Read, Then
      <4>3. m.value \in Seq(Session) /\ ToSet(m.value) \subseteq There
        <5>1. CASE text["index"].kind = "text"  BY <2>2, <5>1 DEF Made, Tells
        <5>2. CASE text["index"].kind # "text"
          <6>1. m = Says(<<>>)  BY <2>1, <4>2, <5>2 DEF Made
          <6>2. m.value = <<>> /\ <<>> \in Seq(Session) /\ ToSet(<<>>) = {}  BY <6>1 DEF Says, ToSet
          <6> QED  BY <6>2
        <5> QED  BY <5>1, <5>2
      <4> QED  BY <2>1, <2>2, <2>6, <3>2, <4>1, <4>2, <4>3 DEF FileShape
    <3>3. CASE v = w /\ (Open(w) \/ Fill(w))
      <4>1. turn' = turn /\ held' = held /\ fpc[w] \in {"open", "fill"}  BY <3>3 DEF Open, Fill
      <4> QED  BY <2>1, <2>2, <2>6, <3>3, <4>1
    <3>4. CASE v = w /\ Replace(w)
      <4>1. Len(Files(w)) = 2 /\ turn[w] \in {1, 2}  BY <2>6, <3>4, FileAt
      <4>2. CASE draft[TheFile(w)] = NoText
        <5>1. fpc'[w] = "done" /\ turn' = turn  BY <2>1, <3>4, <4>2 DEF Replace, Then, FileShape
        <5> QED  BY <2>1, <2>2, <2>6, <3>4, <5>1
      <4>3. CASE draft[TheFile(w)] # NoText /\ turn[w] = 1
        <5>1. TheFile(w) = job[w].session /\ job[w].session \in File  BY <2>1, <2>6, <3>4, <4>3, FileAt DEF File
        <5>2. text'[job[w].session] # NoText /\ After(w)
          BY <2>1, <3>4, <4>3, <5>1 DEF Replace, FileShape
        <5>3. fpc'[w] = "read"
          <6>1. Files(w)[1 + 1] = "index"  BY <2>6, <3>4, FilesOf
          <6> QED  BY <2>1, <4>1, <4>3, <5>2, <6>1 DEF After, Then, FileShape
        <5> QED  BY <2>1, <3>4, <5>2, <5>3 DEF There
      <4>4. CASE draft[TheFile(w)] # NoText /\ turn[w] = 2
        <5>1. After(w)  BY <3>4, <4>4 DEF Replace
        <5>2. fpc'[w] = "done"  BY <2>1, <2>6, <3>4, <4>1, <4>4, <5>1 DEF After, Then, FileShape
        <5> QED  BY <2>1, <2>2, <2>6, <3>4, <4>4, <5>2
      <4> QED  BY <4>1, <4>2, <4>3, <4>4
    <3>5. CASE v = w /\ (Start(w) \/ Ctl(w))
      <4>1. Ctl(w)  BY <2>1, <2>6, <3>5 DEF Start, FileShape
      <4> QED  BY <2>6, <3>5, <4>1 DEF Ctl, FileShape
    <3> QED  BY <1>2, <3>1, <3>2, <3>3, <3>4, <3>5 DEF WriterAct
  <2> QED  BY <2>1, <2>5, <2>6 DEF IndexInv
<1> QED  BY <1>1, <1>2, FileActs

LEMMA LengthInvStep ==
  Given /\ FileShape /\ LoneInv /\ IndexInv /\ LengthInv /\ DeskFilesNext(scene.stops) => LengthInv'
<1> SUFFICES ASSUME Given, FileShape, LoneInv, IndexInv, LengthInv, DeskFilesNext(scene.stops),
                    "index" \notin deskHit'
             PROVE  LengthInv'
  BY DEF LengthInv
<1>0. /\ "index" \in File /\ "index" \notin Session /\ Session \subseteq File
      /\ \A s \in Session : s \notin {"index", "env", "config", "buffer", "window"}
  BY FilesAssumption DEF File
<1>1. CASE ServerStops
  <2>1. /\ FileShape' /\ UNCHANGED <<job, text, held, turn>> /\ deskHit \subseteq deskHit'
        /\ \A w \in DOMAIN job : fpc'[w] = fpc[w] \/ (fpc'[w] = "done" /\ \A f : Ahead(w, 1, f) => f \in deskHit')
    BY <1>1, StopLocal
  <2>2. \A w \in DOMAIN job : fpc'[w] = fpc[w] \/ ~Ahead(w, turn[w], "index")  BY <2>1 DEF Ahead
  <2>3. Beside("index")' = Beside("index")  BY <2>1, <2>2, BesideIs, BesideNext DEF Ahead
  <2>4. Idx' = Idx /\ There' = There  BY <2>1 DEF Idx, There
  <2>5. \A w \in Beside("index") : w \in DOMAIN job /\ fpc'[w] = fpc[w]  BY <2>2, BesideIs
  <2>6. "index" \notin deskHit  BY <2>1
  <2> QED  BY <2>1, <2>3, <2>4, <2>5, <2>6 DEF LengthInv
<1>2. ASSUME NEW w \in DOMAIN job, WriterAct(w) PROVE LengthInv'
  <2>1. /\ job' = job /\ FileShape' /\ w \in Writer /\ "index" \notin deskHit
        /\ \A v \in Writer : v # w => fpc'[v] = fpc[v] /\ held'[v] = held[v] /\ turn'[v] = turn[v]
    BY <1>2, WriterLocal, FilesOf
  <2>2. LoneAt("index") /\ \A s \in Session : LoneAt(s)  BY <1>0, <2>1 DEF LoneInv
  <2>3. /\ \A v : v # w => (v \in Beside("index")' <=> v \in Beside("index"))
        /\ w \in Beside("index")' => w \in Beside("index") \/ (Start(w) /\ Beside("index") = {})
    BY <1>2, BesideAct
  <2>4. Beside("index") \subseteq DOMAIN job /\ DOMAIN job \subseteq Writer  BY BesideIs, FilesOf
  <2>5. CASE job[w].does \notin {"create", "save"}
    <3>1. TheFile(w) # "index" /\ TheFile(w) \notin Session  BY <2>5, ApartFrom
    <3>2. text'["index"] = text["index"] /\ \A s \in Session : text'[s] = text[s]
      BY <1>0, <1>2, <3>1, WriterLocal
    <3>3. Idx' = Idx /\ There' = There  BY <3>2 DEF Idx, There
    <3>4. w \notin Beside("index") /\ w \notin Beside("index")'
      BY <2>1, <2>5, BesideIs, BesideNext DEF Ahead
    <3>5. \A v \in Beside("index") : v # w /\ v \in Writer  BY <2>4, <3>4
    <3>6. Beside("index")' = Beside("index")  BY <2>3, <3>4
    <3> QED  BY <2>1, <3>3, <3>5, <3>6 DEF LengthInv
  <2>6. CASE job[w].does \in {"create", "save"}
    <3>1. /\ fpc[w] # "ctl" /\ Len(Files(w)) = 2 /\ job[w].session \in Session
          /\ \/ turn[w] = 1 /\ TheFile(w) = job[w].session
             \/ turn[w] = 2 /\ TheFile(w) = "index"
      <4>1. fpc[w] # "ctl"  BY <2>6 DEF FileShape
      <4> QED  BY <2>6, <4>1, FileAt, FilesOf
    <3>2. ~Ctl(w)  BY <3>1 DEF Ctl
    <3>3. fpc[w] \notin {"idle", "done"} => Beside("index") = {w}
      <4>1. fpc[w] \notin {"idle", "done"} => w \in Beside("index")  BY <2>6, BesideIs DEF Ahead
      <4> QED  BY <2>2, <4>1 DEF LoneAt
    <3>4. ASSUME Beside("index")' \subseteq {w},
                 (w \notin Beside("index")') \/ turn'[w] = 1 => Lists(Idx, There)',
                 w \in Beside("index")' /\ turn'[w] = 2 =>
                   /\ Lists(Idx', There') \/ Lists(Idx', There' \ {job[w].session})
                   /\ fpc'[w] \in {"open", "fill", "replace"} => held'[w] = Idx'
          PROVE  LengthInv'
      BY <2>1, <3>4 DEF LengthInv
    <3>5. CASE Start(w)
      <4>1. Beside("index") = {}
        <5>1. "index" \in ToSet(Files(w))  BY <2>6, AheadIs DEF Ahead
        <5> QED  BY <3>5, <5>1 DEF Start
      <4>2. Lists(Idx, There)  BY <2>1, <4>1 DEF LengthInv
      <4>3. text' = text /\ turn'[w] = 1  BY <2>1, <3>5 DEF Start, fileVars, FileShape
      <4>4. Lists(Idx, There)'  BY <4>2, <4>3 DEF Idx, There, Lists, NoTwice
      <4> QED  BY <2>3, <3>4, <4>1, <4>3, <4>4
    <3>6. CASE Read(w) \/ Open(w) \/ Fill(w)
      <4>1. fpc[w] \in {"read", "open", "fill"} /\ turn' = turn  BY <3>6 DEF Read, Open, Fill
      <4>2. Beside("index") = {w} /\ Beside("index")' \subseteq {w}  BY <2>3, <3>3, <3>6, <4>1 DEF Start
      <4>3. text'["index"] = text["index"] /\ \A s \in Session : text'[s] = text[s]
        <5>1. text'[TheFile(w)] = text[TheFile(w)]  BY <1>2, <2>2, <3>1, <4>1, LoneAct
        <5>2. \A f \in File : f # TheFile(w) => text'[f] = text[f]  BY <1>2, WriterLocal
        <5> QED  BY <1>0, <5>1, <5>2
      <4>4. Idx' = Idx /\ There' = There  BY <4>3 DEF Idx, There
      <4>5. turn[w] = 1 => Lists(Idx, There)  BY <2>1, <4>2 DEF LengthInv
      <4>6. turn[w] = 2 => /\ Lists(Idx, There) \/ Lists(Idx, There \ {job[w].session})
                           /\ fpc[w] \in {"open", "fill", "replace"} => held[w] = Idx
        BY <2>1, <4>2 DEF LengthInv
      <4>7. turn[w] = 2 => /\ fpc'[w] \notin {"idle", "done"}
                           /\ fpc'[w] \in {"open", "fill", "replace"} => held'[w] = Idx
        <5> SUFFICES ASSUME turn[w] = 2
                     PROVE  fpc'[w] \in {"open", "fill", "replace"} /\ held'[w] = Idx
          OBVIOUS
        <5>1. CASE Read(w)
          <6>1. TheFile(w) = "index"  BY <1>0, <3>1
          <6>2. PICK m \in Made("index", text["index"]) :
                  IF m = Torn THEN fpc' = [fpc EXCEPT ![w] = "done"]
                  ELSE held' = [held EXCEPT ![w] = m.value] /\ fpc' = [fpc EXCEPT ![w] = "open"]
            BY <5>1, <6>1 DEF Read, Then
          <6>3. m # Torn /\ m.value = Idx
            <7>1. CASE text["index"].kind = "text"
              <8>1. m = text["index"]  BY <7>1 DEF Made
              <8> QED  BY <7>1, <8>1 DEF Idx, Torn
            <7>2. CASE text["index"].kind # "text"
              <8>1. m = Says(<<>>)  BY <1>0, <7>2 DEF Made
              <8> QED  BY <7>2, <8>1 DEF Idx, Torn, Says
            <7> QED  BY <7>1, <7>2
          <6> QED  BY <2>1, <6>2, <6>3 DEF FileShape
        <5>2. CASE Open(w) \/ Fill(w)
          <6>1. /\ fpc[w] \in {"open", "fill"} /\ held' = held /\ fpc'[w] \in {"fill", "replace"}
            BY <2>1, <5>2 DEF Open, Fill, Then, FileShape
          <6> QED  BY <4>6, <6>1
        <5> QED  BY <3>6, <5>1, <5>2
      <4>8. turn[w] = 2 => w \in Beside("index")'
        BY <2>1, <2>6, <4>1, <4>7, BesideNext DEF Ahead
      <4>9. Lists(Idx, There) => Lists(Idx, There)'  BY <4>4 DEF Lists, NoTwice
      <4> QED  BY <3>1, <3>4, <4>1, <4>2, <4>4, <4>5, <4>6, <4>7, <4>8, <4>9
    <3>7. CASE Replace(w)
      <4>1. fpc[w] = "replace" /\ held' = held  BY <3>7 DEF Replace
      <4>2. Beside("index") = {w} /\ Beside("index")' \subseteq {w}
        BY <2>3, <3>3, <4>1 DEF Start
      <4>3. text'[TheFile(w)] = Says(NewText(w)) /\ After(w)
        BY <1>2, <2>2, <3>1, <4>1, LoneAct
      <4>4. \A f \in File : f # TheFile(w) => text'[f] = text[f]  BY <1>2, WriterLocal
      <4>5. CASE turn[w] = 1
        <5>1. TheFile(w) = job[w].session  BY <3>1, <4>5
        <5>2. Idx' = Idx  BY <1>0, <3>1, <4>4, <5>1 DEF Idx
        <5>3. There' = There \union {job[w].session}
          <6>1. text'[job[w].session] # NoText  BY <4>3, <5>1 DEF Says, NoText
          <6>2. \A s \in Session : s # job[w].session => text'[s] = text[s]  BY <1>0, <4>4, <5>1
          <6> QED  BY <3>1, <6>1, <6>2 DEF There
        <5>4. fpc'[w] = "read"
          <6>1. Files(w)[1 + 1] = "index"  BY <2>6, FilesOf
          <6> QED  BY <2>1, <3>1, <4>3, <4>5, <6>1 DEF After, Then, FileShape
        <5>5. turn'[w] = 2
          <6>1. draft[TheFile(w)] # NoText
            BY <2>2, <3>1, <3>7, <4>1, <1>2, <4>3, BesideAct DEF LoneAt, Says, NoText
          <6> QED  BY <2>1, <3>1, <3>7, <4>5, <6>1 DEF Replace, FileShape
        <5>6. Lists(Idx, There)  BY <2>1, <4>2, <4>5 DEF LengthInv
        <5>7. Lists(Idx', There') \/ Lists(Idx', There' \ {job[w].session})
          <6>1. CASE job[w].session \in There
            <7>1. There' = There  BY <5>3, <6>1
            <7> QED  BY <5>2, <5>6, <7>1
          <6>2. CASE job[w].session \notin There
            <7>1. There' \ {job[w].session} = There  BY <5>3, <6>2
            <7> QED  BY <5>2, <5>6, <7>1
          <6> QED  BY <6>1, <6>2
        <5>8. w \in Beside("index")'  BY <2>1, <2>6, <5>4, BesideNext DEF Ahead
        <5> QED  BY <3>4, <4>2, <5>4, <5>5, <5>7, <5>8
      <4>6. CASE turn[w] = 2
        <5>1. TheFile(w) = "index"  BY <3>1, <4>6
        <5>2. /\ Lists(Idx, There) \/ Lists(Idx, There \ {job[w].session})
              /\ held[w] = Idx
          BY <2>1, <4>1, <4>2, <4>6 DEF LengthInv
        <5>3. There' = There
          <6>1. \A s \in Session : text'[s] = text[s]  BY <1>0, <4>4, <5>1
          <6> QED  BY <6>1 DEF There
        <5>4. Idx' = IndexAfter(Idx, job[w].session)
          <6>1. text'["index"] = Says(IndexAfter(Idx, job[w].session))  BY <4>3, <5>1, <5>2, NewIndex
          <6> QED  BY <6>1 DEF Idx, Says
        <5>5. job[w].session \in There  BY <2>6, <4>6 DEF IndexInv
        <5>6. Lists(Idx', There')
          <6>1. PICK T : T = There  OBVIOUS
          <6>2. T \in SUBSET Session  BY <6>1 DEF There
          <6> QED  BY <5>2, <5>3, <5>4, <5>5, <6>1, <6>2, ListsAfter
        <5>7. fpc'[w] = "done"
          BY <2>1, <2>6, <3>1, <4>3, <4>6 DEF After, Then, FileShape
        <5>8. w \notin Beside("index")'  BY <2>1, <5>7, BesideNext
        <5>9. Lists(Idx, There)'  BY <5>6 DEF Lists, NoTwice
        <5> QED  BY <3>4, <4>2, <5>8, <5>9
      <4> QED  BY <3>1, <4>5, <4>6
    <3> QED  BY <1>2, <3>2, <3>5, <3>6, <3>7 DEF WriterAct
  <2> QED  BY <2>5, <2>6
<1> QED  BY <1>1, <1>2, FileActs

\* The index lists only conversations that are there (core/sessions.py,
\* _upsert_index after the conversation is written), for any number of
\* requests cut off anywhere; and it lists all of them, as far as it goes,
\* while no two requests were at it at once and none was cut off.
THEOREM IndexStaysTrue == Spec => []IndexTellsFiles
<1>1. Init => FileShape /\ LoneInv /\ IndexInv /\ LengthInv
  BY InitFileShape, InitLone, InitIndex DEF Init, InitFiles, InitTerminals, InitMemory, Given
<1>2. Given /\ FileShape /\ LoneInv /\ IndexInv /\ LengthInv /\ [Next]_vars
        => (FileShape /\ LoneInv /\ IndexInv /\ LengthInv)'
  <2>1. [Next]_vars => UNCHANGED deskVars \/ DeskFilesNext(scene.stops)
    BY DEF Next, vars
  <2>2. UNCHANGED deskVars => \A f : Beside(f)' = Beside(f)
    BY DEF deskVars, fileVars, Beside, Writing, Files
  <2>3. UNCHANGED deskVars /\ IndexInv => IndexInv'
    BY DEF deskVars, fileVars, IndexInv, Tells, There
  <2>4. UNCHANGED deskVars /\ LengthInv => LengthInv'
    <3> SUFFICES ASSUME UNCHANGED deskVars, LengthInv PROVE LengthInv'  OBVIOUS
    <3>1. Idx' = Idx /\ There' = There /\ UNCHANGED <<job, fpc, held, turn, deskHit>>
      BY DEF deskVars, fileVars, Idx, There
    <3> QED  BY <2>2, <3>1 DEF LengthInv
  <2> QED  BY <2>1, <2>3, <2>4, FilesKeep, IndexInvStep, LengthInvStep
<1>3. IndexInv /\ LengthInv => IndexTellsFiles
  <2> SUFFICES ASSUME IndexInv, LengthInv PROVE IndexTellsFiles  OBVIOUS
  <2>1. text["index"].kind = "text" => ToSet(text["index"].value) \subseteq There
    BY DEF IndexInv, Tells
  <2>2. ASSUME Writing = {}, "index" \notin deskHit, There # {}
        PROVE  /\ text["index"].kind = "text"
               /\ Len(text["index"].value) = IF Cardinality(There) < MaxIndex THEN Cardinality(There) ELSE MaxIndex
    <3>1. Beside("index") = {}  BY <2>2 DEF Beside
    <3>2. Lists(Idx, There)  BY <2>2, <3>1 DEF LengthInv
    <3>3. IsFiniteSet(There) /\ Cardinality(There) \in Nat \ {0}
      <4>1. There \subseteq Session  BY DEF There
      <4> QED  BY <2>2, <4>1, FilesAssumption, FS_Subset, FS_CardinalityType, FS_EmptySet
    <3>4. Len(Idx) = (IF Cardinality(There) < MaxIndex THEN Cardinality(There) ELSE MaxIndex) /\ Len(Idx) # 0
      BY <3>2, <3>3, FilesAssumption DEF Lists
    <3>5. text["index"].kind = "text"  BY <3>4 DEF Idx
    <3> QED  BY <3>4, <3>5 DEF Idx
  <2> QED  BY <2>1, <2>2 DEF IndexTellsFiles, There
<1> QED  BY <1>1, <1>2, <1>3, GivenHolds, PTL DEF Spec

=============================================================================
