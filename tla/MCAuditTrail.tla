---------------------------- MODULE MCAuditTrail ----------------------------
(***************************************************************************)
(* Instances of AuditTrail for TLC: two calls of one tool, which may be    *)
(* alike or differ in key, in having one, and in holding a secret.         *)
(***************************************************************************)
EXTENDS AuditTrail, TLC

CONSTANTS c1, c2, bash, target, password

Symmetry == Permutations(Calls)
=============================================================================
