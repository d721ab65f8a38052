----------------------------- MODULE MCPlaybooks -----------------------------
EXTENDS Playbooks, TLC
CONSTANTS sudo, helper, proton, f1, f2

MCPath    == {sudo, helper, proton}
MCClass   == (sudo :> "identity") @@ (helper :> "self_helper") @@ (proton :> "snap_proton")
MCDir     == {helper}
MCFinds   == SUBSET Severity
MCAsked   == {{}, {proton, sudo}}
MCOthers  == {{}, {"ALERT"}}
MCScene   == {<<"aide-init", 2, {f1}>>, <<"aide-init", 1, {f1, f2}>>, <<"kill-pid", 1, {}>>}
=============================================================================
