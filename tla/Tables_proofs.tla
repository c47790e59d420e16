---------------------------- MODULE Tables_proofs ----------------------------
(***************************************************************************)
(* Every statement of the storage keeps the tables well formed, for every  *)
(* set of resources, tenants, keys, deployments, models and keypairs.      *)
(***************************************************************************)
EXTENDS Tables, TLAPS

\* The INSERT of create_resource keeps the tables' type.
LEMMA InsertResourceType ==
  ASSUME NEW d \in Database, NEW r \in ResourceId, NEW t \in TenantId \cup {None}
  PROVE  InsertResource(d, r, t) \in Database
BY DEF Database, InsertResource

\* So does that of create_api_key, for a vanished owner too.
LEMMA InsertApiKeyType ==
  ASSUME NEW d \in Database, NEW k \in KeyId, NEW r \in ResourceId,
         NEW t \in TenantId \cup {None}
  PROVE  InsertApiKey(d, k, r, t) \in Database
BY DEF Database, InsertApiKey, ApiKeyRow

\* That of create_deployment.
LEMMA InsertDeploymentType ==
  ASSUME NEW d \in Database, NEW r \in ResourceId, NEW n \in DeploymentId,
         NEW m \in Model
  PROVE  InsertDeployment(d, r, n, m) \in Database
BY DEF Database, InsertDeployment

\* That of get_or_create_signing_key.
LEMMA InsertSigningKeyType ==
  ASSUME NEW d \in Database, NEW r \in ResourceId, NEW kid \in Kid
  PROVE  InsertSigningKey(d, r, kid) \in Database
BY DEF Database, InsertSigningKey

\* The DELETE of delete_api_key keeps it.
LEMMA RemoveApiKeyType ==
  ASSUME NEW d \in Database, NEW k \in KeyId
  PROVE  RemoveApiKey(d, k) \in Database
BY DEF Database, RemoveApiKey

\* And that of delete_deployment.
LEMMA RemoveDeploymentType ==
  ASSUME NEW d \in Database, NEW r \in ResourceId, NEW n \in DeploymentId
  PROVE  RemoveDeployment(d, r, n) \in Database
BY DEF Database, RemoveDeployment

\* The first three DELETEs of delete_resource keep it, and the last one.
LEMMA RemoveOfType ==
  ASSUME NEW d \in Database, NEW r \in ResourceId
  PROVE  /\ RemoveApiKeysOf(d, r) \in Database
         /\ RemoveDeploymentsOf(d, r) \in Database
         /\ RemoveSigningKeyOf(d, r) \in Database
         /\ RemoveResourceRow(d, r) \in Database
BY DEF Database, RemoveApiKeysOf, RemoveDeploymentsOf, RemoveSigningKeyOf, RemoveResourceRow

\* What delete_resource leaves: nothing of the resource, everything else.
LEMMA RemoveResourceEffect ==
  ASSUME NEW d \in Database, NEW r \in ResourceId
  PROVE  /\ RemoveResource(d, r) \in Database
         /\ RemoveResource(d, r).resources = [d.resources EXCEPT ![r] = None]
         /\ RemoveResource(d, r).signing_keys = [d.signing_keys EXCEPT ![r] = None]
         /\ RemoveResource(d, r).deployments =
              [d.deployments EXCEPT ![r] = [n \in DeploymentId |-> None]]
         /\ RemoveResource(d, r).api_keys =
              [k \in KeyId |-> IF k \in KeysOf(d, r) THEN None ELSE d.api_keys[k]]
BY DEF Database, RemoveResource, RemoveResourceRow, RemoveSigningKeyOf,
       RemoveDeploymentsOf, RemoveApiKeysOf
==============================================================================
