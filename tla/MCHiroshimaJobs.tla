-------------------------- MODULE MCHiroshimaJobs --------------------------
(* Instances of HiroshimaJobs for TLC. *)
EXTENDS HiroshimaJobs, TLC

CONSTANTS r1, r2

\* Requests differ in nothing but their identity.  Not used for liveness.
Symmetry == Permutations(Request)

=============================================================================
