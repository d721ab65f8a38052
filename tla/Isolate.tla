------------------------------ MODULE Isolate ------------------------------
(***************************************************************************)
(* Containment by the firewall: isolate-dst.sh denies the unknown          *)
(* destinations of the latest scan and notes them in isolate-rollback.json,*)
(* isolate-undo.sh takes the noted rules away.  Both run as root, started  *)
(* by the cockpit or in a terminal, with no lock between them and beside   *)
(* the scans of Snapshots; either may be killed at any point.              *)
(***************************************************************************)
EXTENDS Snapshots

CONSTANTS Isolation,  \* runs of isolate-dst.sh
          Undo        \* runs of isolate-undo.sh

ASSUME RunAssumption == Isolation \intersect Undo = {}

VARIABLES
  pc,        \* where each run is
  left,      \* destinations its loop has still to handle
  added,     \* destinations an isolation has handled
  fw,        \* destinations with a kalived deny rule
  rb,        \* isolate-rollback.json
  stray,     \* history: destinations whose record was lost, with its isolation
             \* (killed) or under the record of a later one
  refused,   \* history: destinations whose rule an undo did not get away
  overlap    \* history: were two runs ever busy at once?

history == <<stray, refused, overlap>>
fwVars      == <<pc, left, added, fw, rb, history>>
isolateVars == <<scanVars, fwVars>>

Run     == Isolation \union Undo
NoFile  == [kind |-> "none", ips |-> {}]
Torn    == [kind |-> "torn", ips |-> {}]     \* opened and not written
File(D) == [kind |-> "whole", ips |-> D]
\* A run that may have touched the firewall or the file.
Busy(p) == pc[p] \in {"deny", "write", "delete"}
Alone(p) == \A q \in Run \ {p} : ~Busy(q)
Over(p) == pc[p] \in {"exit0", "exit1", "exit2", "killed"}

IsolateTypeOK ==
  /\ ScanTypeOK
  /\ pc \in [Run -> {"gate", "pick", "deny", "write", "open", "delete",
                     "exit0", "exit1", "exit2", "killed"}]
  /\ left \in [Run -> SUBSET Dst]
  /\ added \in [Run -> SUBSET Dst]
  /\ fw \subseteq Dst
  /\ rb \in [kind : {"none", "torn", "whole"}, ips : SUBSET Dst]
  /\ stray \subseteq Dst
  /\ refused \subseteq Dst
  /\ overlap \in BOOLEAN

IsolateInit ==
  /\ ScanInit
  /\ pc = [p \in Run |-> IF p \in Isolation THEN "gate" ELSE "open"]
  /\ left = [p \in Run |-> {}]
  /\ added = [p \in Run |-> {}]
  /\ fw = {}
  /\ rb = NoFile
  /\ stray = {}
  /\ refused = {}
  /\ overlap = FALSE

-----------------------------------------------------------------------------
(* isolate-dst.sh                                                          *)

AskGate(p) ==
  /\ pc[p] = "gate"
  /\ pc' = [pc EXCEPT ![p] = IF RequireNotAlert THEN "pick" ELSE "exit2"]
  /\ UNCHANGED <<scanVars, left, added, fw, rb, history>>

\* act.json asks for a family other than "unknown", or the directory the gate
\* saw is gone from the list.
RefuseFamily(p) ==
  /\ pc[p] = "pick"
  /\ pc' = [pc EXCEPT ![p] = "exit2"]
  /\ UNCHANGED <<scanVars, left, added, fw, rb, history>>

\* The latest directory is looked up anew, and need not be the one the gate read.
Pick(p) ==
  /\ pc[p] = "pick"
  /\ LatestScanDir # 0
  /\ IF UnknownDsts(LatestScanDir) = {}
     THEN /\ pc' = [pc EXCEPT ![p] = "exit0"]
          /\ UNCHANGED <<left, overlap>>
     ELSE /\ pc' = [pc EXCEPT ![p] = "deny"]
          /\ left' = [left EXCEPT ![p] = UnknownDsts(LatestScanDir)]
          /\ overlap' = (overlap \/ ~Alone(p))
  /\ UNCHANGED <<scanVars, added, fw, rb, stray, refused>>

\* One `ufw deny out`; it may fail (|| true), the destination is noted anyway.
Deny(p, d) ==
  /\ pc[p] = "deny" /\ d \in left[p]
  /\ left' = [left EXCEPT ![p] = @ \ {d}]
  /\ added' = [added EXCEPT ![p] = @ \union {d}]
  /\ fw' \in {fw, fw \union {d}}
  /\ UNCHANGED <<scanVars, pc, rb, history>>

\* write_text empties the file, then fills it.
Record(p) ==
  /\ pc[p] = "deny" /\ left[p] = {}
  /\ rb' = Torn
  /\ stray' = stray \union (rb.ips \ added[p])
  /\ pc' = [pc EXCEPT ![p] = "write"]
  /\ UNCHANGED <<scanVars, left, added, fw, refused, overlap>>

Write(p) ==
  /\ pc[p] = "write"
  /\ rb' = File(added[p])
  /\ stray' = stray \ added[p]
  /\ added' = [added EXCEPT ![p] = {}]
  /\ pc' = [pc EXCEPT ![p] = "exit0"]
  /\ UNCHANGED <<scanVars, left, fw, refused, overlap>>

-----------------------------------------------------------------------------
(* isolate-undo.sh                                                         *)

NoRollback(p) ==
  /\ pc[p] = "open" /\ rb = NoFile
  /\ pc' = [pc EXCEPT ![p] = "exit0"]
  /\ UNCHANGED <<scanVars, left, added, fw, rb, history>>

\* json.loads fails on an empty file.
Unreadable(p) ==
  /\ pc[p] = "open" /\ rb = Torn
  /\ pc' = [pc EXCEPT ![p] = "exit1"]
  /\ UNCHANGED <<scanVars, left, added, fw, rb, history>>

\* Mutant: the file goes first.
OpenUnlinking(p) ==
  /\ pc[p] = "open" /\ rb.kind = "whole"
  /\ left' = [left EXCEPT ![p] = rb.ips]
  /\ rb' = NoFile
  /\ pc' = [pc EXCEPT ![p] = "delete"]
  /\ overlap' = (overlap \/ ~Alone(p))
  /\ UNCHANGED <<scanVars, added, fw, stray, refused>>

Open(p) ==
  /\ pc[p] = "open" /\ rb.kind = "whole"
  /\ left' = [left EXCEPT ![p] = rb.ips]
  /\ pc' = [pc EXCEPT ![p] = "delete"]
  /\ overlap' = (overlap \/ ~Alone(p))
  /\ UNCHANGED <<scanVars, added, fw, rb, stray, refused>>

\* One `ufw delete deny out`; it may fail (check=False), and the loop goes on.
Delete(p, d) ==
  /\ pc[p] = "delete" /\ d \in left[p]
  /\ left' = [left EXCEPT ![p] = @ \ {d}]
  /\ \/ fw' = fw \ {d} /\ stray' = stray \ {d} /\ refused' = refused \ {d}
     \/ refused' = refused \union ({d} \intersect fw) /\ UNCHANGED <<fw, stray>>
  /\ UNCHANGED <<scanVars, pc, added, rb, overlap>>

\* rb.unlink(): FileNotFoundError when another undo was first.
Unlink(p) ==
  /\ pc[p] = "delete" /\ left[p] = {}
  /\ rb' = NoFile
  /\ pc' = [pc EXCEPT ![p] = IF rb = NoFile THEN "exit1" ELSE "exit0"]
  /\ UNCHANGED <<scanVars, left, added, fw, history>>

-----------------------------------------------------------------------------
\* The TTL of the job, a reboot or the operator.  The rules stay in force.
Kill(p) ==
  /\ ~Over(p)
  /\ pc' = [pc EXCEPT ![p] = "killed"]
  /\ left' = [left EXCEPT ![p] = {}]
  /\ added' = [added EXCEPT ![p] = {}]
  /\ stray' = stray \union added[p]
  /\ UNCHANGED <<scanVars, fw, rb, refused, overlap>>

IsolationStep(p) ==
  AskGate(p) \/ RefuseFamily(p) \/ Pick(p) \/ Record(p) \/ Write(p) \/ \E d \in Dst : Deny(p, d)

UndoStep(p) ==
  NoRollback(p) \/ Unreadable(p) \/ Open(p) \/ Unlink(p) \/ \E d \in Dst : Delete(p, d)

IsolateNext ==
  \/ ScanNext /\ UNCHANGED fwVars
  \/ \E p \in Isolation : IsolationStep(p)
  \/ \E p \in Undo : UndoStep(p)
  \/ \E p \in Run : Kill(p)

IsolateSpec == IsolateInit /\ [][IsolateNext]_isolateVars

-----------------------------------------------------------------------------
(* Properties                                                              *)

\* The live scans that came to a verdict of their own.
Ended == {s \in Scan : counted[s] /\ ~replay[s] /\ stage[s] = "done"}

\* "Exit 2 if latest live verdict is ALERT/ERROR": an isolation goes ahead only
\* when no module of the newest live scan found an ALERT or crashed, whatever
\* scans write meanwhile.  The exception: a --from-dir scan that still holds
\* the verdict it copied.
GateHolds ==
  [][\A p \in Isolation :
       (pc[p] = "gate" /\ pc'[p] = "pick") =>
         \/ \E s \in Scan : replay[s] /\ counted[s] /\ verdict[s] # "none"
         \/ Ended # {} /\ found[Newest(Ended)] \intersect {"ALERT", "ERROR"} = {}]_isolateVars

\* What isolations under way have denied and not yet noted.
InHand == UNION {added[p] : p \in Isolation}

\* No deny rule outlives its record, whatever is killed and whenever: while runs
\* do not overlap, every rule is in the rollback file, so that the next undo
\* finds it, or in the hands of the isolation that adds it.  The exceptions: what
\* a killed isolation had denied itself, what an isolation has overwritten, and
\* what ufw kept when an undo told it to delete.
UndoRestores ==
  ~overlap => fw \subseteq rb.ips \union InHand \union stray \union refused

\* "Remove kalived isolate-dst UFW rules": with runs that never overlap and are
\* never killed and a ufw that obeys, an undo leaves no rule behind.  A second
\* isolation overwrites the record of the first.
UndoRemovesAll ==
  (~overlap /\ rb = NoFile /\ \A p \in Run : ~Busy(p) /\ pc[p] # "killed")
    => fw \subseteq refused

=============================================================================
