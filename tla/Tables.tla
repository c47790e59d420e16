------------------------------ MODULE Tables ------------------------------
(***************************************************************************)
(* The four mutable tables of SQLiteStorage (storage_sqlite.py:37-115) and *)
(* the effect of every SQL statement the storage issues on them.  A table  *)
(* is a function from its primary key to the columns the rest of the       *)
(* system reads; None is an absent row.  Names, timestamps and PEM text    *)
(* are left out: no handler decides anything from them.  One KeyId stands  *)
(* for an api key's id, its secret and the SHA-256 of that secret, which   *)
(* are drawn together; one Kid stands for an RSA keypair and its RFC 7638  *)
(* thumbprint.                                                             *)
(***************************************************************************)
CONSTANTS ResourceId, TenantId, KeyId, DeploymentId, Model, Kid, None

\* The tenant_id column of an api key is NOT NULL; the empty string that
\* create_api_key writes for a vanished resource is None here.
ApiKeyRow == [resource_id : ResourceId, tenant_id : TenantId \cup {None}]

ASSUME NoneIsNoValue ==
  /\ None \notin ResourceId \cup TenantId \cup KeyId
  /\ None \notin DeploymentId \cup Model \cup Kid
  /\ None \notin ApiKeyRow

Database ==
  [ resources    : [ResourceId -> TenantId \cup {None}],
    api_keys     : [KeyId -> ApiKeyRow \cup {None}],
    deployments  : [ResourceId -> [DeploymentId -> Model \cup {None}]],
    signing_keys : [ResourceId -> Kid \cup {None}] ]

EmptyDatabase ==
  [ resources    |-> [r \in ResourceId |-> None],
    api_keys     |-> [k \in KeyId |-> None],
    deployments  |-> [r \in ResourceId |-> [d \in DeploymentId |-> None]],
    signing_keys |-> [r \in ResourceId |-> None] ]

---------------------------------------------------------------------------
(* Rows of a resource. *)

KeysOf(db, r) == {k \in KeyId : db.api_keys[k] # None /\ db.api_keys[k].resource_id = r}

DeploymentsOf(db, r) == {d \in DeploymentId : db.deployments[r][d] # None}

HasChildren(db, r) ==
  \/ KeysOf(db, r) # {}
  \/ DeploymentsOf(db, r) # {}
  \/ db.signing_keys[r] # None

---------------------------------------------------------------------------
(* One operator per INSERT or DELETE statement.  An INSERT is applied only *)
(* where its primary key is free; the callers carry that condition.        *)

InsertResource(db, r, t) == [db EXCEPT !.resources[r] = t]

InsertApiKey(db, k, r, t) ==
  [db EXCEPT !.api_keys[k] = [resource_id |-> r, tenant_id |-> t]]

InsertDeployment(db, r, d, m) == [db EXCEPT !.deployments[r][d] = m]

InsertSigningKey(db, r, kid) == [db EXCEPT !.signing_keys[r] = kid]

RemoveApiKey(db, k) == [db EXCEPT !.api_keys[k] = None]

RemoveDeployment(db, r, d) == [db EXCEPT !.deployments[r][d] = None]

RemoveApiKeysOf(db, r) ==
  [db EXCEPT !.api_keys =
     [k \in KeyId |-> IF k \in KeysOf(db, r) THEN None ELSE db.api_keys[k]]]

RemoveDeploymentsOf(db, r) ==
  [db EXCEPT !.deployments[r] = [d \in DeploymentId |-> None]]

RemoveSigningKeyOf(db, r) == [db EXCEPT !.signing_keys[r] = None]

RemoveResourceRow(db, r) == [db EXCEPT !.resources[r] = None]

\* Mutant of RemoveResource: the DELETE on api_keys is forgotten.
RemoveResourceKeepingKeys(db, r) ==
  RemoveResourceRow(RemoveSigningKeyOf(RemoveDeploymentsOf(db, r), r), r)

\* Mutant of RemoveResource: the DELETE on signing_keys is forgotten.
RemoveResourceKeepingKeypair(db, r) ==
  RemoveResourceRow(RemoveDeploymentsOf(RemoveApiKeysOf(db, r), r), r)

\* delete_resource: the four DELETEs of one transaction.
RemoveResource(db, r) ==
  RemoveResourceRow(
    RemoveSigningKeyOf(RemoveDeploymentsOf(RemoveApiKeysOf(db, r), r), r), r)
===========================================================================
