---------------------------- MODULE StorageCalls ----------------------------
(***************************************************************************)
(* The calls of the storage contract (storage.py) on the four mutable      *)
(* tables, and what each of them means, apart from how a backend carries   *)
(* it out.  append_log, create_request and the feedback calls insert rows  *)
(* that no call here reads; put_signing_key has no caller.                 *)
(***************************************************************************)
EXTENDS Tables

CONSTANTS Process,   \* operating system processes that serve the same database
          Worker,    \* the threads of each
          Calls      \* the calls they may make

Thread == Process \X Worker

Reads == { "get_resource", "get_api_key_by_hash", "list_api_keys",
           "get_deployment", "get_signing_key" }

Writes == { "create_resource", "delete_resource", "create_api_key",
            "delete_api_key", "create_deployment", "delete_deployment" }

Call ==
  [ op    : Reads \cup Writes \cup {"get_or_create_signing_key"},
    rid   : ResourceId,
    tid   : TenantId \cup {None},
    key   : KeyId,
    did   : DeploymentId,
    model : Model ]

\* Only a tenant creates a resource; an api key may be of a vanished one.
ASSUME CallsAreCalls ==
  /\ Calls \subseteq Call
  /\ \A c \in Calls : c.op = "create_resource" => c.tid # None

\* The row, or the part of it that callers use; kids for the two keypair calls.
Answer == TenantId \cup ResourceId \cup Model \cup Kid \cup {None} \cup SUBSET KeyId

ASSUME NoneIsNoCall == None \notin Call /\ None \notin Database

---------------------------------------------------------------------------

\* What a read returns from the tables d.
Read(c, d) ==
  CASE c.op = "get_resource" -> d.resources[c.rid]
    [] c.op = "get_api_key_by_hash" ->
         IF d.api_keys[c.key] = None THEN None ELSE d.api_keys[c.key].resource_id
    [] c.op = "list_api_keys" -> KeysOf(d, c.rid)
    [] c.op = "get_deployment" -> d.deployments[c.rid][c.did]
    [] c.op \in {"get_signing_key", "get_or_create_signing_key"} -> d.signing_keys[c.rid]

\* A creation requires that the row be absent.
RowExists(c, d) ==
  \/ c.op = "create_resource" /\ d.resources[c.rid] # None
  \/ c.op = "create_api_key" /\ d.api_keys[c.key] # None
  \/ c.op = "create_deployment" /\ d.deployments[c.rid][c.did] # None
  \/ c.op = "get_or_create_signing_key" /\ d.signing_keys[c.rid] # None

\* The tables after a write.
After(c, d) ==
  CASE c.op = "create_resource" -> InsertResource(d, c.rid, c.tid)
    [] c.op = "delete_resource" -> RemoveResource(d, c.rid)
    [] c.op = "create_api_key" -> InsertApiKey(d, c.key, c.rid, c.tid)
    [] c.op = "delete_api_key" -> RemoveApiKey(d, c.key)
    [] c.op = "create_deployment" -> InsertDeployment(d, c.rid, c.did, c.model)
    [] c.op = "delete_deployment" -> RemoveDeployment(d, c.rid, c.did)
===========================================================================
