---------------------------- MODULE MCAuditTrail ----------------------------
(* Small instances of AuditTrail. *)
EXTENDS AuditTrail, TLC
ThreadSymmetry == Permutations(Threads)
=============================================================================
