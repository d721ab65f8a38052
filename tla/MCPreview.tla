----------------------------- MODULE MCPreview -----------------------------
(* Instances of Preview for TLC: the calls of a run. *)
EXTENDS Preview

CONSTANTS s1, s2, q1

=============================================================================
