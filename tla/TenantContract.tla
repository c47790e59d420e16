--------------------------- MODULE TenantContract ---------------------------
(***************************************************************************)
(* What tenants are promised (auth.py:12-15, twin_plane/routes.py:10-11,   *)
(* storage.py:12-15), as if each request were one step: a resource and all *)
(* below it change only by a request of the tenant that owns it then; an   *)
(* api key becomes a row at most once, in the name of the tenant it was    *)
(* drawn for, and never after its resource has gone; a keypair stays with  *)
(* its resource and signs for no other; a token is its owner's, for a key  *)
(* of that resource.  What requests read, and when, is left out.           *)
(***************************************************************************)
EXTENDS Tables

VARIABLES db,        \* the tables
          drawn,     \* for each api key drawn so far, the row it is to become
          pending,   \* the api keys that may still become rows
          tokens     \* the access tokens sent

vars == << db, drawn, pending, tokens >>

Init ==
  /\ db = EmptyDatabase
  /\ drawn = [k \in KeyId |-> None]
  /\ pending = {}
  /\ tokens = {}

Owns(t, r) == db.resources[r] = t

---------------------------------------------------------------------------

CreateResource(t, r) ==
  /\ Owns(None, r)
  /\ db' = InsertResource(db, r, t)
  /\ UNCHANGED << drawn, pending, tokens >>

DeleteResource(t, r) ==
  /\ Owns(t, r)
  /\ db' = RemoveResource(db, r)
  /\ pending' = {k \in pending : drawn[k].resource_id # r}
  /\ UNCHANGED << drawn, tokens >>

DrawApiKey(t, r, k) ==
  /\ Owns(t, r)
  /\ drawn[k] = None
  /\ drawn' = [drawn EXCEPT ![k] = [resource_id |-> r, tenant_id |-> t]]
  /\ pending' = pending \cup {k}
  /\ UNCHANGED << db, tokens >>

CreateApiKey(t, r, k) ==
  /\ Owns(t, r)
  /\ k \in pending
  /\ drawn[k] = [resource_id |-> r, tenant_id |-> t]
  /\ db' = InsertApiKey(db, k, r, t)
  /\ pending' = pending \ {k}
  /\ UNCHANGED << drawn, tokens >>

\* A request that fails, or dies with the process, leaves its key undone.
AbandonApiKeys ==
  /\ pending' \subseteq pending
  /\ UNCHANGED << db, drawn, tokens >>

DeleteApiKey(t, r, k) ==
  /\ Owns(t, r)
  /\ k \in KeysOf(db, r)
  /\ db' = RemoveApiKey(db, k)
  /\ UNCHANGED << drawn, pending, tokens >>

CreateDeployment(t, r, d, m) ==
  /\ Owns(t, r)
  /\ d \notin DeploymentsOf(db, r)
  /\ db' = InsertDeployment(db, r, d, m)
  /\ UNCHANGED << drawn, pending, tokens >>

DeleteDeployment(t, r, d) ==
  /\ Owns(t, r)
  /\ d \in DeploymentsOf(db, r)
  /\ db' = RemoveDeployment(db, r, d)
  /\ UNCHANGED << drawn, pending, tokens >>

\* Anybody may be the first to need the keypair of a resource.
CreateKeypair(t, r, kid) ==
  /\ Owns(t, r)
  /\ db.signing_keys[r] = None
  /\ \A s \in ResourceId : db.signing_keys[s] # kid
  /\ \A token \in tokens : token.kid # kid
  /\ db' = InsertSigningKey(db, r, kid)
  /\ UNCHANGED << drawn, pending, tokens >>

IssueToken(t, r, k) ==
  /\ Owns(t, r)
  /\ drawn[k] = [resource_id |-> r, tenant_id |-> t]
  /\ k \notin pending
  /\ db.signing_keys[r] # None
  /\ tokens' = tokens \cup
       {[resource_id |-> r, tid |-> t, appid |-> k, kid |-> db.signing_keys[r]]}
  /\ UNCHANGED << db, drawn, pending >>

Next ==
  \/ AbandonApiKeys
  \/ \E t \in TenantId, r \in ResourceId :
       \/ CreateResource(t, r) \/ DeleteResource(t, r)
       \/ \E k \in KeyId :
            \/ DrawApiKey(t, r, k) \/ CreateApiKey(t, r, k) \/ DeleteApiKey(t, r, k)
            \/ IssueToken(t, r, k)
       \/ \E d \in DeploymentId :
            \/ \E m \in Model : CreateDeployment(t, r, d, m)
            \/ DeleteDeployment(t, r, d)
       \/ \E kid \in Kid : CreateKeypair(t, r, kid)

Spec == Init /\ [][Next]_vars
=============================================================================
