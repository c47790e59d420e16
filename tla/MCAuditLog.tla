----------------------------- MODULE MCAuditLog -----------------------------
(* Values and symmetry sets for TLC. *)
EXTENDS AuditLog, TLC

\* A limit below 1, one in range and one above MaxLimit.
Limits == {-1, MaxLimit, MaxLimit + 2}

Interchangeable == Permutations(Worker) \cup Permutations(FeedbackId)
===========================================================================
