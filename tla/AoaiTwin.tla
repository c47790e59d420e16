------------------------------ MODULE AoaiTwin ------------------------------
(***************************************************************************)
(* The whole service: workers that each serve one request of any plane at  *)
(* a time over the same tables, storage calls that raise, and crashes.     *)
(* Worker = {w} is the documented gunicorn host with its one synchronous   *)
(* worker (host.py:22-28); several workers are the threads of app.run      *)
(* (host.py:52-57).                                                        *)
(***************************************************************************)
EXTENDS TwinPlane, Identity, DataPlane

Serve(w) ==
  \/ TwinPlaneNext(w)
  \/ IdentityNext(w)
  \/ DataPlaneNext(w)

Next == Crash \/ \E w \in Worker : Serve(w) \/ StorageFails(w)

Spec == Init /\ [][Next]_vars

\* A thread that has begun a request is eventually scheduled again.  No client
\* has to send a request.
FairSpec == Spec /\ \A w \in Worker : WF_vars(~IsIdle(w) /\ Serve(w))

---------------------------------------------------------------------------
(* Properties of every deployment, threads included. *)

\* No statement overwrites a row: a row changes only by going away.  Handlers
\* decide by a SELECT and write later, so this rests on the INSERTs that lose a
\* race raising instead of replacing.
RowsWriteOnce ==
  [][ /\ \A r \in ResourceId :
           /\ db.resources[r] # None => db'.resources[r] \in {db.resources[r], None}
           /\ db.signing_keys[r] # None =>
                db'.signing_keys[r] \in {db.signing_keys[r], None}
           /\ \A d \in DeploymentId : db.deployments[r][d] # None =>
                db'.deployments[r][d] \in {db.deployments[r][d], None}
      /\ \A k \in KeyId :
           db.api_keys[k] # None => db'.api_keys[k] \in {db.api_keys[k], None} ]_vars

\* A signing key goes away only with its resource and everything under it: what
\* delete_resource deletes (that no request sees half of it, KeepsPromise shows).
SigningKeyGoesWithResource ==
  [][ \A r \in ResourceId :
        db.signing_keys[r] # None /\ db'.signing_keys[r] = None =>
          db'.resources[r] = None /\ ~HasChildren(db', r) ]_vars

\* The JWKS is stable: a token sent to a client, and the keypair a request is
\* about to sign with or to publish, belong to the resource's only signing key
\* until the resource is deleted (storage.py:12-15), whatever the races of
\* first requests, failures and restarts in between.
Verifies(r, kid) == db.signing_keys[r] = kid \/ kid \in retired
TokensVerify ==
  /\ \A t \in tokens : Verifies(t.resource_id, t.kid)
  /\ \A w \in Worker : frames[w].kid # None => Verifies(frames[w].rid, frames[w].kid)

\* No request waits for ever: whatever other requests do to the rows it has
\* read, every handler comes to a response.
EveryRequestEnds == \A w \in Worker : ~IsIdle(w) ~> IsIdle(w)

---------------------------------------------------------------------------
(* Properties of one synchronous worker, and of threads as long as no      *)
(* resource is deleted.                                                    *)

\* The rows under a resource exist only while the resource does.
RowsFollowTheirResource ==
  \A r \in ResourceId : db.resources[r] = None => ~HasChildren(db, r)

\* The tenant_id that create_api_key denormalises is the one of the resource.
KeysNameTheirOwner ==
  \A r \in ResourceId : \A k \in KeysOf(db, r) :
    db.api_keys[k].tenant_id = db.resources[r]

\* The api key a credential rests on, and the step that accepts it.
CredentialKey(c) ==
  IF c.kind = "api-key" THEN c.key
  ELSE IF c.kind = "bearer" THEN c.token.appid ELSE c.secret

Authenticates(w) ==
  /\ frames[w].at \in {"get_api_key_by_hash", "get_signing_key"}
  /\ frames'[w].at \in {"append_auth_log", "get_or_create_signing_key"}
  /\ frames'[w].status = None

\* Whoever is let in, by an api key, by a token or to get a token, holds a key
\* that the tenant owning the resource at that moment created, and the request
\* is carried out in that tenant's name (auth.py:12-15).
AuthenticatedForOwner ==
  [][ \A w \in Worker : Authenticates(w) =>
        /\ frames[w].owner = db.resources[frames[w].rid]
        /\ generated[CredentialKey(frames[w].cred)].by = frames[w].owner ]_vars

\* A request writes to a resource only in the name of the tenant that owns it
\* when the write happens, though it was several storage calls ago that the
\* handler looked (twin_plane/routes.py:10-11).
Actor(f) == IF f.by # None THEN f.by ELSE f.owner
WritesForOwner ==
  [][ \A w \in Worker :
        LET f == frames[w] IN
        frames'[w] # f /\ (db' # db \/ appended' \in RequestRow) =>
          \/ f.op = "create_resource" /\ db.resources[f.rid] = None
          \/ f.op = "jwks" /\ db.resources[f.rid] # None
          \/ Actor(f) = db.resources[f.rid] ]_vars

\* What a Twin Plane request changes is of a resource that is not another tenant's by
\* then: "cross-tenant references return 404" (twin_plane/routes.py:10-11).
NoCrossTenantWrites ==
  [][ \A w \in Worker :
        LET f == frames[w] IN
        f.by # None /\ frames'[w] # f /\ db' # db =>
          db.resources[f.rid] \in {f.by, None} ]_vars

\* Whoever checks a token with the JWKS of its resource learns who owns the resource
\* now: the tokens of an earlier owner verify no longer (routes/well_known.py:20-31).
VerifiedTokensNameTheOwner ==
  \A t \in tokens : db.signing_keys[t.resource_id] = t.kid =>
    db.resources[t.resource_id] = t.tid

\* The tables are what a success of this request tells its client.
WriteHolds(f) ==
  CASE f.op = "create_resource" -> f.owner = f.by /\ db.resources[f.rid] = f.by
    [] f.op = "delete_resource" -> db.resources[f.rid] = None /\ ~HasChildren(db, f.rid)
    [] f.op = "create_api_key" ->
         f.key \in KeysOf(db, f.rid) /\ db.api_keys[f.key].tenant_id = f.by
    [] f.op = "delete_api_key" -> db.api_keys[f.key] = None
    [] f.op = "create_deployment" -> db.deployments[f.rid][f.did] = f.model
    [] f.op = "delete_deployment" -> db.deployments[f.rid][f.did] = None
    [] OTHER -> db.resources[f.rid] # None

\* When the response to a write arrives, the write is in the tables, and in the name
\* of the caller; any other success is about a resource that exists.
AcknowledgedWritesHold ==
  reply # None /\ reply.status \in {"200", "201"} => WriteHolds(reply.frame)

---------------------------------------------------------------------------
(* Tenants as the contract sees them: a request is done at one moment.     *)

\* The row each api key drawn so far is to become, and the keys being created.
Drawn ==
  [k \in KeyId |->
     IF generated[k] = None THEN None
     ELSE [resource_id |-> generated[k].resource_id, tenant_id |-> generated[k].by]]

KeysInProgress ==
  {frames[w].key : w \in {v \in Worker : frames[v].at \in {"get_tenant", "create_api_key"}}}

Contract == INSTANCE TenantContract WITH drawn <- Drawn, pending <- KeysInProgress

\* Though a handler checks in one storage call and writes in a later one, fails in
\* between, and races with others, the tables, api keys and tokens change as if
\* tenants acted one after the other, each on what it owns at that moment
\* (twin_plane/routes.py:10-11, auth.py:12-15).  A key whose request failed never
\* becomes a row, a key that was removed never comes back, and a keypair that has
\* signed a token for one resource is never another's, or the next one's.
TenantsActAtomically == Contract!Spec
===========================================================================
