------------------------------ MODULE Playbooks ------------------------------
(***************************************************************************)
(* The other mutating playbooks beside the scans: in one behaviour runs of *)
(* aide-init.sh or runs of kill-pid.sh, which share the gate and the scan  *)
(* directories and nothing else.                                           *)
(***************************************************************************)
EXTENDS AideInit, KillPid

\* Bound: what a behaviour holds, <<playbook, scans, runs of aide-init.sh>>.
CONSTANT Scene

ASSUME SceneAssumption == Scene \subseteq {"aide-init", "kill-pid"} \X (0 .. MaxScan) \X SUBSET Freezer

VARIABLE scene

vars == <<scanVars, aideVars, killVars, scene>>

TypeOK == ScanTypeOK /\ AideTypeOK /\ KillTypeOK /\ scene \in Scene

Init == ScanInit /\ AideInitial /\ KillInit /\ scene \in Scene

Next ==
  \/ (\E s \in 1 .. scene[2] : AideScan(s)) /\ UNCHANGED <<killVars, scene>>
  \/ /\ scene[1] = "aide-init"
     /\ Outside \/ \E r \in scene[3] : Freeze(r)
     /\ UNCHANGED <<killVars, scene>>
  \/ /\ scene[1] = "kill-pid"
     /\ KillNext
     /\ UNCHANGED <<scanVars, aideVars, scene>>

Spec == Init /\ [][Next]_vars

=============================================================================
