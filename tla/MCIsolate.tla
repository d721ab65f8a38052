----------------------------- MODULE MCIsolate -----------------------------
(* Instances of Isolate for TLC. *)
EXTENDS Isolate, TLC

CONSTANTS i1, i2, u1, u2, d1, d2

\* Each verdict, and each severity beside a worse one.
MCFinds == {{}, {"INFO"}, {"WARN", "INFO"}, {"ALERT", "WARN"}, {"ERROR", "ALERT"}}

Symmetry == Permutations(Isolation) \union Permutations(Undo) \union Permutations(Dst)

=============================================================================
