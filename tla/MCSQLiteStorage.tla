-------------------------- MODULE MCSQLiteStorage --------------------------
(* Values and symmetry sets for TLC. *)
EXTENDS SQLiteStorage, TLC

\* A call with the arguments its operation has; the others are fixed.
Arguments(op, tids, dids, models) ==
  { [op |-> op, rid |-> r, tid |-> t, key |-> k, did |-> d, model |-> m] :
      r \in ResourceId, t \in tids, k \in KeyId, d \in dids, m \in models }

OneOf(S) == {CHOOSE x \in S : TRUE}

CallsTo(op) ==
  Arguments(op,
    IF op = "create_resource" THEN TenantId
    ELSE IF op = "create_api_key" THEN OneOf(TenantId) \cup {None} ELSE {None},
    OneOf(DeploymentId), OneOf(Model))

AllCalls ==
  UNION {CallsTo(op) : op \in Reads \cup Writes
                                \cup {"get_or_create_signing_key"}}

\* The keypair, the deletion of its resource, and a read of each.
KeypairCalls ==
  UNION {CallsTo(op) : op \in { "create_resource", "delete_resource", "get_signing_key",
                                "get_or_create_signing_key" }}

Interchangeable == Permutations(Worker) \cup Permutations(Kid)
===========================================================================
