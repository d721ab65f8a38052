--------------------------- MODULE Preview_proofs ---------------------------
(***************************************************************************)
(* Proofs about Preview for any number of starts, stops, ports and         *)
(* restarts.                                                               *)
(*                                                                         *)
(* OnRecord and ListensItself say nothing once calls have overlapped, so   *)
(* they rest on AloneInv: until then the one call under way has read the   *)
(* record that still stands, has killed every child before it lets the     *)
(* record go, and is the only one with a child that is not on it.          *)
(***************************************************************************)
EXTENDS Preview, TLAPS

LEMMA StartsAndStops ==
  /\ \A c \in Stop : c \notin Start
  /\ NoPid \notin Start /\ Torn \notin Start /\ NoPid # Torn
BY PreviewAssumption

-----------------------------------------------------------------------------
(* Types                                                                   *)

Point == {"new", "kill", "unlink", "pick", "popen", "wait", "save", "writing", "unlinked", "ended"}

\* Who is where: a stop is over when the file is gone.
RoleInv == \A c \in Stop : pc[c] \in {"new", "kill", "unlink", "ended"}

Shape == TypeOK /\ RoleInv

LEMMA InitShape == Init => Shape
<1> SUFFICES ASSUME Init PROVE Shape  OBVIOUS
<1>1. restarts \in 0 .. MaxRestart
  <2>1. restarts = 0  BY DEF Init
  <2> QED  BY <2>1, PreviewAssumption
<1>2. port \in [Start -> 0 .. MaxPort]
  <2>1. 0 \in 0 .. MaxPort  BY PreviewAssumption
  <2>2. port = [s \in Start |-> 0]  BY DEF Init
  <2> QED  BY <2>1, <2>2
<1> QED  BY <1>1, <1>2 DEF Init, Shape, TypeOK, RoleInv, Call

\* Left to itself: the bounds are numbers, and the rest of an action is not.
LEMMA Bounded ==
  /\ Port \subseteq 0 .. MaxPort
  /\ \A n \in 0 .. MaxRestart : n < MaxRestart => n + 1 \in 0 .. MaxRestart
BY PreviewAssumption DEF Port

LEMMA StopKeepsShape ==
  ASSUME Shape, NEW c \in Call, ReadState(c) \/ StopPart(c)
  PROVE  Shape'
<1> USE StartsAndStops DEF Shape, TypeOK, RoleInv, Call
<1>1. CASE ReadState(c)
  <2>1. disturbed' \in BOOLEAN  BY <1>1 DEF ReadState
  <2> QED  BY <1>1, <2>1 DEF ReadState
<1>2. CASE KillVictim(c)  BY <1>2 DEF KillVictim
<1>3. CASE Unlink(c)
  <2>1. pc' \in [Call -> Point]  BY <1>3 DEF Unlink, Point
  <2>2. RoleInv'  BY <1>3 DEF Unlink
  <2> QED  BY <1>3, <2>1, <2>2 DEF Unlink, Point
<1>4. CASE UnlinkFails(c)  BY <1>4 DEF UnlinkFails
<1> QED  BY <1>1, <1>2, <1>3, <1>4 DEF StopPart

LEMMA StartKeepsShape ==
  ASSUME Shape, NEW s \in Start, StartPart(s)
  PROVE  Shape'
<1> USE StartsAndStops, Bounded DEF Shape, TypeOK, RoleInv, Call
<1>1. CASE Refuse(s)  BY <1>1 DEF Refuse
<1>2. CASE PickPort(s)  BY <1>2 DEF PickPort
<1>3. CASE Popen(s)  BY <1>3 DEF Popen
<1>4. CASE SeesDeath(s)  BY <1>4 DEF SeesDeath
<1>5. CASE SeesPort(s)  BY <1>5 DEF SeesPort
<1>6. CASE GiveUpWaiting(s)  BY <1>6 DEF GiveUpWaiting
<1>7. CASE OpenFile(s)  BY <1>7 DEF OpenFile
<1>8. CASE WriteFile(s)  BY <1>8 DEF WriteFile
<1> QED  BY <1>1, <1>2, <1>3, <1>4, <1>5, <1>6, <1>7, <1>8 DEF StartPart

LEMMA ShapeStep == Shape /\ [Next]_vars => Shape'
<1> SUFFICES ASSUME Shape, [Next]_vars PROVE Shape'  OBVIOUS
<1>1. ASSUME NEW s \in Start, Bind(s) \/ ChildDies(s) PROVE Shape'
  BY <1>1 DEF Bind, ChildDies, Shape, TypeOK, RoleInv
<1>2. CASE Restart
  <2>1. restarts' \in 0 .. MaxRestart  BY <1>2, Bounded DEF Restart, Shape, TypeOK
  <2>2. disturbed' \in BOOLEAN  BY <1>2 DEF Restart, Shape, TypeOK
  <2>3. pc' \in [Call -> Point]  BY <1>2 DEF Restart, Shape, TypeOK, Point
  <2>4. RoleInv'  BY <1>2 DEF Restart, Shape, TypeOK, RoleInv, Call
  <2> QED  BY <1>2, <2>1, <2>2, <2>3, <2>4 DEF Restart, Shape, TypeOK, Point
<1>3. CASE UNCHANGED vars  BY <1>3 DEF vars, Shape, TypeOK, RoleInv
<1> QED  BY <1>1, <1>2, <1>3, StopKeepsShape, StartKeepsShape DEF Next

LEMMA ShapeHolds == Spec => []Shape
BY InitShape, ShapeStep, PTL DEF Spec

\* The record, the children and the places of all calls keep their types, for
\* any number of starts, stops and ports.
THEOREM TypeCorrect == Spec => []TypeOK
<1>1. Shape => TypeOK  BY DEF Shape
<1> QED  BY <1>1, ShapeHolds, PTL

-----------------------------------------------------------------------------
(* The child on record                                                     *)

\* A call under way is alone, and what it has read is what stands.
OneCall == \A c, d \in Call : Inside(c) /\ Inside(d) => c = d
ReadStands == \A c \in Call : pc[c] = "kill" => victim[c] = file

\* The record is torn only in the hands of the start that writes it.
TornIsHeld ==
  /\ file = Torn => \E s \in Start : pc[s] = "writing"
  /\ \A s \in Start : pc[s] = "writing" => file = Torn
  /\ \A s \in Start : pc[s] # "unlinked"

\* A call lets go of the record after the last child, and makes at most its own.
NoOrphan ==
  /\ \A c \in Call : pc[c] \in {"unlink", "pick", "popen"} => \A s \in Start : ~Live(s)
  /\ \A s \in Start : pc[s] \in {"wait", "save", "writing"} => \A t \in Start \ {s} : ~Live(t)

\* The port of a start was free, so that whoever answers there is its child.
FreePort ==
  /\ \A s \in Start : pc[s] \in {"popen", "wait"} => port[s] \notin taken
  /\ \A s \in claimed : pc[s] \in {"save", "writing", "ended"} /\ child[s] # "starting"

AloneInv ==
  ~disturbed => OneCall /\ ReadStands /\ TornIsHeld /\ NoOrphan /\ FreePort /\ OnRecord

AllAlone == OneCall /\ ReadStands /\ TornIsHeld /\ NoOrphan /\ FreePort /\ OnRecord

\* When a call is under way nobody else is: what holds of every call need only
\* be shown of this one.
LEMMA OthersAreOutside ==
  ASSUME Shape, OneCall, NEW c \in Call, Inside(c)
  PROVE  \A d \in Call \ {c} : pc[d] \in {"new", "ended"}
BY DEF OneCall, Inside

LEMMA InitAlone == Init => AloneInv
BY StartsAndStops
   DEF Init, AloneInv, OneCall, ReadStands, TornIsHeld, NoOrphan, FreePort, OnRecord, Inside, Live, Call

LEMMA ReadStateAlone ==
  ASSUME Shape, AloneInv, NEW c \in Call, ReadState(c)
  PROVE  AloneInv'
<1> SUFFICES ASSUME ~disturbed' PROVE AllAlone'  BY DEF AloneInv, AllAlone
<1>1. /\ ~disturbed /\ \A d \in Call : ~Inside(d)
      /\ pc' = [pc EXCEPT ![c] = "kill"] /\ victim' = [victim EXCEPT ![c] = file]
      /\ UNCHANGED <<child, port, taken, file, claimed>> /\ pc[c] = "new"
  BY DEF ReadState
<1>2. AllAlone  BY <1>1 DEF AloneInv, AllAlone
<1> USE <1>1, <1>2 DEF Shape, TypeOK, AllAlone, Inside, Live, Call
<1>3. OneCall'  BY DEF OneCall
<1>4. ReadStands'  BY DEF ReadStands
<1>5. TornIsHeld'  BY DEF TornIsHeld
<1>6. NoOrphan'  BY DEF NoOrphan
<1>7. FreePort'  BY DEF FreePort
<1>8. OnRecord'  BY DEF OnRecord
<1> QED  BY <1>3, <1>4, <1>5, <1>6, <1>7, <1>8

LEMMA KillVictimAlone ==
  ASSUME Shape, AloneInv, NEW c \in Call, KillVictim(c)
  PROVE  AloneInv'
<1> SUFFICES ASSUME ~disturbed' PROVE AllAlone'  BY DEF AloneInv, AllAlone
<1>1. /\ ~disturbed /\ pc[c] = "kill" /\ pc' = [pc EXCEPT ![c] = "unlink"]
      /\ child' = IF victim[c] \in Start THEN [child EXCEPT ![victim[c]] = "dead"] ELSE child
      /\ UNCHANGED <<victim, port, taken, file, claimed>>
  BY DEF KillVictim
<1>2. AllAlone  BY <1>1 DEF AloneInv, AllAlone
<1>3. \A d \in Call \ {c} : pc[d] \in {"new", "ended"}
  BY <1>1, <1>2, OthersAreOutside DEF AllAlone, Inside
<1>4. file = victim[c]  BY <1>1, <1>2 DEF AllAlone, ReadStands
<1> USE DEF Shape, TypeOK
<1>5. \A s \in Start : Live(s)' => Live(s) /\ s # victim[c]  BY <1>1 DEF Live
<1>6. \A s \in Start : Live(s) => file = s
  BY <1>1, <1>2, <1>3 DEF AllAlone, OnRecord, Call
<1>7. \A s \in Start : ~Live(s)'  BY <1>4, <1>5, <1>6
<1>8. NoOrphan' /\ OnRecord'  BY <1>7 DEF NoOrphan, OnRecord
<1>9. OneCall'  BY <1>1, <1>3 DEF OneCall, Inside
<1>10. ReadStands'  BY <1>1, <1>3 DEF ReadStands
<1>11. TornIsHeld'  BY <1>1, <1>2, <1>3 DEF AllAlone, TornIsHeld, Call
<1>12. FreePort'
  <2>1. \A s \in Start : pc'[s] \in {"popen", "wait"} => pc[s] = pc'[s]  BY <1>1 DEF Call
  <2>2. \A s \in Start : child'[s] = "starting" => child[s] = "starting"  BY <1>1
  <2>3. \A s \in claimed : s \in Start /\ pc'[s] = pc[s]  BY <1>1, <1>2 DEF AllAlone, FreePort, Call
  <2> QED  BY <1>1, <1>2, <2>1, <2>2, <2>3 DEF AllAlone, FreePort
<1> QED  BY <1>8, <1>9, <1>10, <1>11, <1>12 DEF AllAlone

LEMMA UnlinkAlone ==
  ASSUME Shape, AloneInv, NEW c \in Call, Unlink(c)
  PROVE  AloneInv'
<1> SUFFICES ASSUME ~disturbed' PROVE AllAlone'  BY DEF AloneInv, AllAlone
<1>1. /\ ~disturbed /\ pc[c] = "unlink" /\ file' = NoPid
      /\ UNCHANGED <<victim, child, port, taken, claimed>>
  BY DEF Unlink
<1>2. AllAlone  BY <1>1 DEF AloneInv, AllAlone
<1>3. \A d \in Call \ {c} : pc[d] \in {"new", "ended"}
  BY <1>1, <1>2, OthersAreOutside DEF AllAlone, Inside
<1>4. /\ \A d \in Call \ {c} : pc'[d] = pc[d]
      /\ pc'[c] \in {"pick", "ended"}
  BY <1>3 DEF Unlink
<1> USE StartsAndStops DEF Shape, TypeOK
<1>5. \A s \in Start : ~Live(s)'  BY <1>1, <1>2 DEF AllAlone, NoOrphan, Live
<1>6. NoOrphan' /\ OnRecord'  BY <1>5 DEF NoOrphan, OnRecord
<1>7. OneCall'  BY <1>3, <1>4 DEF OneCall, Inside
<1>8. ReadStands'  BY <1>3, <1>4 DEF ReadStands
<1>9. TornIsHeld'  BY <1>1, <1>3, <1>4 DEF TornIsHeld, Call
<1>10. FreePort'
  <2>1. \A s \in claimed : s \in Start /\ s # c  BY <1>1, <1>2 DEF AllAlone, FreePort
  <2> QED  BY <1>1, <1>2, <1>3, <1>4, <2>1 DEF AllAlone, FreePort, Call
<1> QED  BY <1>6, <1>7, <1>8, <1>9, <1>10 DEF AllAlone

\* A start on its own goes on and takes only its own child along.
LEMMA StartAlone ==
  ASSUME Shape, AloneInv, NEW s \in Start, StartPart(s)
  PROVE  AloneInv'
<1> SUFFICES ASSUME ~disturbed' PROVE AllAlone'  BY DEF AloneInv, AllAlone
<1>1. ~disturbed /\ UNCHANGED <<victim, taken>> /\ Inside(s)
  BY DEF StartPart, Refuse, PickPort, Popen, SeesDeath, SeesPort, GiveUpWaiting, OpenFile, WriteFile, Inside
<1>2. AllAlone  BY <1>1 DEF AloneInv, AllAlone
<1>3. \A d \in Call \ {s} : pc[d] \in {"new", "ended"}
  BY <1>1, <1>2, OthersAreOutside DEF AllAlone, Call
<1>4. \A d \in Call \ {s} : pc'[d] = pc[d]
  BY DEF StartPart, Refuse, PickPort, Popen, SeesDeath, SeesPort, GiveUpWaiting, OpenFile, WriteFile, Shape, TypeOK
<1>5. pc'[s] \in {"popen", "wait", "save", "writing", "ended"} /\ pc'[s] # "kill"
  BY DEF StartPart, Refuse, PickPort, Popen, SeesDeath, SeesPort, GiveUpWaiting, OpenFile, WriteFile,
         Shape, TypeOK, Call
<1>6. OneCall'  BY <1>3, <1>4 DEF OneCall, Inside
<1>7. ReadStands'  BY <1>3, <1>4, <1>5 DEF ReadStands
<1> USE StartsAndStops DEF Shape, TypeOK, Call
<1>8. CASE Refuse(s)
  <2>1. UNCHANGED <<child, port, file, claimed>> /\ pc'[s] = "ended" /\ pc[s] \in {"pick", "popen"}
    BY <1>8 DEF Refuse
  <2>2. \A t \in Start : ~Live(t)'  BY <1>2, <2>1 DEF AllAlone, NoOrphan, Live
  <2>3. TornIsHeld'  BY <1>2, <1>4, <2>1 DEF AllAlone, TornIsHeld
  <2>4. FreePort'  BY <1>1, <1>2, <1>4, <2>1 DEF AllAlone, FreePort
  <2> QED  BY <1>6, <1>7, <2>2, <2>3, <2>4 DEF AllAlone, NoOrphan, OnRecord
<1>9. CASE PickPort(s)
  <2>1. UNCHANGED <<child, file, claimed>> /\ pc'[s] = "popen" /\ pc[s] = "pick"  BY <1>9 DEF PickPort
  <2>2. \A t \in Start : ~Live(t)'  BY <1>2, <2>1 DEF AllAlone, NoOrphan, Live
  <2>3. TornIsHeld'  BY <1>2, <1>4, <2>1 DEF AllAlone, TornIsHeld
  <2>4. PICK p \in Port : ~PortOpen(p) /\ port' = [port EXCEPT ![s] = p]  BY <1>9 DEF PickPort
  <2>5. port'[s] \notin taken /\ \A t \in Start \ {s} : port'[t] = port[t]  BY <2>4 DEF PortOpen
  <2>6. FreePort'  BY <1>1, <1>2, <1>4, <2>1, <2>5 DEF AllAlone, FreePort
  <2> QED  BY <1>6, <1>7, <2>2, <2>3, <2>6 DEF AllAlone, NoOrphan, OnRecord
<1>10. CASE Popen(s)
  <2>1. /\ UNCHANGED <<port, file, claimed>> /\ pc'[s] = "wait" /\ pc[s] = "popen"
        /\ child' = [child EXCEPT ![s] = "starting"]
    BY <1>10 DEF Popen
  <2>2. \A t \in Start \ {s} : ~Live(t)'  BY <1>2, <2>1 DEF AllAlone, NoOrphan, Live
  <2>3. TornIsHeld'  BY <1>2, <1>4, <2>1 DEF AllAlone, TornIsHeld
  <2>4. s \notin claimed  BY <1>2, <2>1 DEF AllAlone, FreePort
  <2>5. FreePort'  BY <1>1, <1>2, <1>4, <2>1, <2>4 DEF AllAlone, FreePort
  <2>6. NoOrphan' /\ OnRecord'  BY <1>3, <1>4, <2>1, <2>2 DEF NoOrphan, OnRecord
  <2> QED  BY <1>6, <1>7, <2>3, <2>5, <2>6 DEF AllAlone
<1>11. CASE SeesDeath(s)
  <2>1. UNCHANGED <<child, port, file, claimed>> /\ pc'[s] = "ended" /\ pc[s] = "wait" /\ child[s] = "dead"
    BY <1>11 DEF SeesDeath
  <2>2. \A t \in Start : ~Live(t)'  BY <1>2, <2>1 DEF AllAlone, NoOrphan, Live
  <2>3. TornIsHeld'  BY <1>2, <1>4, <2>1 DEF AllAlone, TornIsHeld
  <2>4. FreePort'  BY <1>1, <1>2, <1>4, <2>1 DEF AllAlone, FreePort
  <2> QED  BY <1>6, <1>7, <2>2, <2>3, <2>4 DEF AllAlone, NoOrphan, OnRecord
<1>12. CASE SeesPort(s)
  <2>1. /\ UNCHANGED <<child, port, file>> /\ pc'[s] = "save" /\ pc[s] = "wait"
        /\ claimed' = claimed \union {s} /\ Live(s) /\ PortOpen(port[s])
    BY <1>12 DEF SeesPort
  <2>2. \A t \in Start \ {s} : ~Live(t)  BY <1>2, <2>1 DEF AllAlone, NoOrphan
  <2>3. child[s] = "serving"
    <3>1. port[s] \notin taken  BY <1>2, <2>1 DEF AllAlone, FreePort
    <3> QED  BY <2>1, <2>2, <3>1 DEF PortOpen, Live
  <2>4. FreePort'  BY <1>1, <1>2, <1>4, <2>1, <2>3 DEF AllAlone, FreePort
  <2>5. TornIsHeld'  BY <1>2, <1>4, <2>1 DEF AllAlone, TornIsHeld
  <2>6. NoOrphan' /\ OnRecord'  BY <1>3, <1>4, <2>1, <2>2 DEF NoOrphan, OnRecord, Live
  <2> QED  BY <1>6, <1>7, <2>4, <2>5, <2>6 DEF AllAlone
<1>13. CASE GiveUpWaiting(s)
  <2>1. UNCHANGED <<child, port, file, claimed>> /\ pc'[s] = "save" /\ pc[s] = "wait"
    BY <1>13 DEF GiveUpWaiting
  <2>2. \A t \in Start \ {s} : ~Live(t)  BY <1>2, <2>1 DEF AllAlone, NoOrphan
  <2>3. FreePort'  BY <1>1, <1>2, <1>4, <2>1 DEF AllAlone, FreePort
  <2>4. TornIsHeld'  BY <1>2, <1>4, <2>1 DEF AllAlone, TornIsHeld
  <2>5. NoOrphan' /\ OnRecord'  BY <1>3, <1>4, <2>1, <2>2 DEF NoOrphan, OnRecord, Live
  <2> QED  BY <1>6, <1>7, <2>3, <2>4, <2>5 DEF AllAlone
<1>14. CASE OpenFile(s)
  <2>1. UNCHANGED <<child, port, claimed>> /\ file' = Torn /\ pc'[s] = "writing" /\ pc[s] = "save"
    BY <1>14 DEF OpenFile
  <2>2. \A t \in Start \ {s} : ~Live(t)  BY <1>2, <2>1 DEF AllAlone, NoOrphan
  <2>3. FreePort'  BY <1>1, <1>2, <1>4, <2>1 DEF AllAlone, FreePort
  <2>4. TornIsHeld'  BY <1>3, <1>4, <2>1 DEF TornIsHeld
  <2>5. NoOrphan' /\ OnRecord'  BY <1>3, <1>4, <2>1, <2>2 DEF NoOrphan, OnRecord, Live
  <2> QED  BY <1>6, <1>7, <2>3, <2>4, <2>5 DEF AllAlone
<1>15. CASE WriteFile(s)
  <2>1. /\ UNCHANGED <<child, port, claimed>> /\ pc'[s] = "ended" /\ pc[s] = "writing" /\ file' = s
    BY <1>2, <1>15 DEF WriteFile, AllAlone, TornIsHeld
  <2>2. \A t \in Start \ {s} : ~Live(t)  BY <1>2, <2>1 DEF AllAlone, NoOrphan
  <2>3. FreePort'  BY <1>1, <1>2, <1>4, <2>1 DEF AllAlone, FreePort
  <2>4. TornIsHeld'  BY <1>3, <1>4, <2>1 DEF TornIsHeld
  <2>5. NoOrphan' /\ OnRecord'  BY <1>3, <1>4, <2>1, <2>2 DEF NoOrphan, OnRecord, Live
  <2> QED  BY <1>6, <1>7, <2>3, <2>4, <2>5 DEF AllAlone
<1> QED  BY <1>8, <1>9, <1>10, <1>11, <1>12, <1>13, <1>14, <1>15 DEF StartPart

\* A child that binds, dies or never does changes no call and no record.
LEMMA ChildAlone ==
  ASSUME Shape, AloneInv, NEW s \in Start, Bind(s) \/ ChildDies(s)
  PROVE  AloneInv'
<1> SUFFICES ASSUME ~disturbed' PROVE AllAlone'  BY DEF AloneInv, AllAlone
<1>1. /\ ~disturbed /\ UNCHANGED <<pc, victim, port, taken, file, claimed>>
      /\ Live(s) /\ child' \in {[child EXCEPT ![s] = "dead"], [child EXCEPT ![s] = "serving"]}
  BY DEF Bind, ChildDies, Live
<1>2. AllAlone  BY <1>1 DEF AloneInv, AllAlone
<1> USE DEF Shape, TypeOK
<1>3. \A t \in Start : (Live(t)' => Live(t)) /\ (child'[t] = "starting" => child[t] = "starting")
  BY <1>1 DEF Live
<1>4. OneCall' /\ ReadStands' /\ TornIsHeld'
  BY <1>1, <1>2 DEF AllAlone, OneCall, ReadStands, TornIsHeld, Inside
<1>5. NoOrphan' /\ OnRecord'  BY <1>1, <1>2, <1>3 DEF AllAlone, NoOrphan, OnRecord
<1>6. FreePort'  BY <1>1, <1>2, <1>3 DEF AllAlone, FreePort
<1> QED  BY <1>4, <1>5, <1>6 DEF AllAlone

LEMMA RestartAlone ==
  ASSUME Shape, AloneInv, Restart
  PROVE  AloneInv'
<1> SUFFICES ASSUME ~disturbed' PROVE AllAlone'  BY DEF AloneInv, AllAlone
<1>1. /\ ~disturbed /\ \A c \in Call : ~Inside(c)
      /\ UNCHANGED <<victim, child, port, taken, file, claimed>>
  BY DEF Restart
<1>2. pc' = pc  BY <1>1 DEF Restart, Shape, TypeOK
<1> QED
  BY <1>1, <1>2 DEF AloneInv, AllAlone, OneCall, ReadStands, TornIsHeld, NoOrphan, FreePort,
                    OnRecord, Inside, Live

LEMMA AloneInvStep == Shape /\ AloneInv /\ [Next]_vars => AloneInv'
<1> SUFFICES ASSUME Shape, AloneInv, [Next]_vars PROVE AloneInv'  OBVIOUS
<1>1. ASSUME NEW c \in Call, UnlinkFails(c) PROVE AloneInv'
  BY <1>1 DEF UnlinkFails, AloneInv
<1>2. CASE UNCHANGED vars
  BY <1>2 DEF vars, AloneInv, OneCall, ReadStands, TornIsHeld, NoOrphan, FreePort, OnRecord, Inside, Live
<1> QED
  BY <1>1, <1>2, ReadStateAlone, KillVictimAlone, UnlinkAlone, StartAlone, ChildAlone, RestartAlone
  DEF Next, StopPart

LEMMA AloneInvHolds == Spec => []AloneInv
BY InitAlone, AloneInvStep, ShapeHolds, PTL DEF Spec

\* Until two calls overlap or a restart cuts one off, every living child is on
\* record or with the start that made it: for any number of starts and stops,
\* any ports and children that die when they like.
THEOREM RecordReachesChild == Spec => []OnRecord
<1>1. AloneInv => OnRecord  BY DEF AloneInv, OnRecord
<1> QED  BY <1>1, AloneInvHolds, PTL

\* And a start that answered listening=True has a child that bound its port or
\* has died since, and not one that is still on its way.
THEOREM AnswersForItsChild == Spec => []ListensItself
<1>1. AloneInv => ListensItself  BY DEF AloneInv, FreePort, ListensItself
<1> QED  BY <1>1, AloneInvHolds, PTL

=============================================================================
