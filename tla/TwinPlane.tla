----------------------------- MODULE TwinPlane -----------------------------
(***************************************************************************)
(* The management endpoints under /_twin (twin_plane/routes.py): resources,*)
(* api keys and deployments.  Each is called by a tenant that the external *)
(* require_tenant has authenticated.  The first step of a request makes    *)
(* the first storage read, so a frame begins with the answer of that read. *)
(***************************************************************************)
EXTENDS Service

TwinPlaneOp ==
  { "create_resource", "delete_resource", "create_api_key", "delete_api_key",
    "create_deployment", "delete_deployment" }

NewFrame(op, t, r) == [Idle EXCEPT !.op = op, !.by = t, !.rid = r]

\* Mutant of EnsureTenantOwnsResource: the resource exists, whoever owns it.
EnsureResourceExists(w, f, call) ==
  \/ /\ db.resources[f.rid] = None
     /\ Respond(w, f, "404")
  \/ /\ db.resources[f.rid] # None
     /\ Continue(w, [f EXCEPT !.at = call])

\* _ensure_tenant_owns_resource: 404 unless the row read names the caller,
\* otherwise the handler goes on to its next storage call.
\* An administrator would pass it whoever owns the resource (routes.py:58), but
\* every route that calls it is `require_tenant`, so none ever gets there.
EnsureTenantOwnsResource(w, f, call) ==
  \/ /\ db.resources[f.rid] # f.by
     /\ Respond(w, f, "404")
  \/ /\ db.resources[f.rid] = f.by
     /\ Continue(w, [f EXCEPT !.at = call])

OnlyReads == NothingAppended /\ UNCHANGED << db, generated, tokens, retired >>

---------------------------------------------------------------------------
(* POST /resources *)

BeginCreateResource(w) ==
  /\ IsIdle(w) /\ "create_resource" \in Op
  /\ \E t \in TenantId, r \in ResourceId :
       LET f == NewFrame("create_resource", t, r)
       IN  \/ /\ db.resources[r] # None
              /\ Respond(w, f, "409")
           \/ /\ db.resources[r] = None
              /\ Continue(w, [f EXCEPT !.at = "create_resource"])
  /\ OnlyReads

\* Mutant of CreateResource: INSERT OR REPLACE.
ReplaceResource(w) ==
  LET f == frames[w] IN
  /\ f.at = "create_resource"
  /\ db' = InsertResource(db, f.rid, f.by)
  /\ Continue(w, [f EXCEPT !.at = "get_resource"])
  /\ NothingAppended /\ UNCHANGED << generated, tokens, retired >>

\* Mutant of CreateResource: the call waits for a row in its way to be gone.
CreateResourceWaiting(w) ==
  /\ frames[w].at = "create_resource"
  /\ db.resources[frames[w].rid] = None
  /\ ReplaceResource(w)

\* The INSERT raises on a row that another request inserted meanwhile.
CreateResource(w) ==
  LET f == frames[w] IN
  /\ f.at = "create_resource"
  /\ \/ /\ db.resources[f.rid] # None
        /\ Respond(w, f, "500")
        /\ UNCHANGED db
     \/ /\ db.resources[f.rid] = None
        /\ db' = InsertResource(db, f.rid, f.by)
        /\ Continue(w, [f EXCEPT !.at = "get_resource"])
  /\ NothingAppended /\ UNCHANGED << generated, tokens, retired >>

\* `return self.get_resource(resource_id) or {...}`, after the lock is free.
RereadResource(w) ==
  LET f == frames[w]
      row == db.resources[f.rid]
  IN
  /\ f.at = "get_resource"
  /\ Continue(w, [f EXCEPT !.at = "append_log", !.status = "201",
                           !.owner = IF row # None THEN row ELSE f.by])
  /\ OnlyReads

---------------------------------------------------------------------------
(* DELETE /resources/<resource_id> *)

\* Bound: a deletion begins only while every resource without a keypair, and
\* every one that deletions in progress may leave without, can draw a fresh kid.
KidsSuffice ==
  Cardinality(FreshKids) >
    Cardinality({r \in ResourceId : db.signing_keys[r] = None})
      + Cardinality({w \in Worker : frames[w].op = "delete_resource"})

BeginDeleteResource(w) ==
  /\ IsIdle(w) /\ "delete_resource" \in Op
  /\ KidsSuffice
  /\ \E t \in TenantId, r \in ResourceId :
       EnsureTenantOwnsResource(w, NewFrame("delete_resource", t, r), "delete_resource")
  /\ OnlyReads

DeleteResource(w) ==
  LET f == frames[w] IN
  /\ f.at = "delete_resource"
  /\ db' = RemoveResource(db, f.rid)
  /\ retired' = retired \cup ({db.signing_keys[f.rid]} \ {None})
  /\ Continue(w, [f EXCEPT !.at = "append_log", !.status = "200"])
  /\ NothingAppended /\ UNCHANGED << generated, tokens >>

---------------------------------------------------------------------------
(* POST and DELETE /resources/<resource_id>/api_keys *)

\* The id and the secret are drawn before storage is called.
BeginCreateApiKey(w) ==
  /\ IsIdle(w) /\ "create_api_key" \in Op
  /\ \E t \in TenantId, r \in ResourceId, k \in KeyId :
       LET f == [NewFrame("create_api_key", t, r) EXCEPT !.key = k]
       IN  /\ generated[k] = None
           /\ EnsureTenantOwnsResource(w, f, "get_tenant")
           /\ generated' = IF db.resources[r] # t THEN generated
                           ELSE [generated EXCEPT ![k] =
                                   [resource_id |-> r, by |-> t, sent |-> FALSE]]
  /\ NothingAppended /\ UNCHANGED << db, tokens, retired >>

\* Mutant of LookUpTenant: the row is left to name no tenant.
SkipTenant(w) ==
  /\ frames[w].at = "get_tenant"
  /\ Continue(w, [frames[w] EXCEPT !.at = "create_api_key"])
  /\ OnlyReads

\* create_api_key looks the owning tenant up before it takes the lock.
LookUpTenant(w) ==
  /\ frames[w].at = "get_tenant"
  /\ Continue(w, [frames[w] EXCEPT !.at = "create_api_key",
                                   !.owner = db.resources[frames[w].rid]])
  /\ OnlyReads

CreateApiKey(w) ==
  LET f == frames[w] IN
  /\ f.at = "create_api_key"
  /\ db' = InsertApiKey(db, f.key, f.rid, f.owner)
  /\ Continue(w, [f EXCEPT !.at = "append_log", !.status = "201"])
  /\ NothingAppended /\ UNCHANGED << generated, tokens, retired >>

BeginDeleteApiKey(w) ==
  /\ IsIdle(w) /\ "delete_api_key" \in Op
  /\ \E t \in TenantId, r \in ResourceId, k \in KeyId :
       EnsureTenantOwnsResource(
         w, [NewFrame("delete_api_key", t, r) EXCEPT !.key = k], "list_api_keys")
  /\ OnlyReads

FindApiKey(w) ==
  LET f == frames[w] IN
  /\ f.at = "list_api_keys"
  /\ \/ /\ f.key \notin KeysOf(db, f.rid)
        /\ Respond(w, f, "404")
     \/ /\ f.key \in KeysOf(db, f.rid)
        /\ Continue(w, [f EXCEPT !.at = "delete_api_key"])
  /\ OnlyReads

DeleteApiKey(w) ==
  LET f == frames[w] IN
  /\ f.at = "delete_api_key"
  /\ db' = RemoveApiKey(db, f.key)
  /\ Continue(w, [f EXCEPT !.at = "append_log", !.status = "200"])
  /\ NothingAppended /\ UNCHANGED << generated, tokens, retired >>

---------------------------------------------------------------------------
(* POST and DELETE /resources/<resource_id>/deployments *)

\* A body without a model is answered 400 once the owner is known.
BeginCreateDeployment(w) ==
  /\ IsIdle(w) /\ "create_deployment" \in Op
  /\ \E t \in TenantId, r \in ResourceId, d \in DeploymentId, m \in Model \cup {None} :
       LET f == [NewFrame("create_deployment", t, r) EXCEPT !.did = d, !.model = m]
       IN  IF m = None /\ db.resources[r] = t
           THEN Respond(w, f, "400")
           ELSE EnsureTenantOwnsResource(w, f, "get_deployment")
  /\ OnlyReads

BeginDeleteDeployment(w) ==
  /\ IsIdle(w) /\ "delete_deployment" \in Op
  /\ \E t \in TenantId, r \in ResourceId, d \in DeploymentId :
       EnsureTenantOwnsResource(
         w, [NewFrame("delete_deployment", t, r) EXCEPT !.did = d], "get_deployment")
  /\ OnlyReads

\* create answers 409 to a deployment that exists, delete 404 to one that does not.
LookUpDeployment(w) ==
  LET f == frames[w]
      exists == f.did \in DeploymentsOf(db, f.rid)
  IN
  /\ f.at = "get_deployment"
  /\ \/ /\ f.op = "create_deployment" /\ exists
        /\ Respond(w, f, "409")
     \/ /\ f.op = "create_deployment" /\ ~exists
        /\ Continue(w, [f EXCEPT !.at = "create_deployment"])
     \/ /\ f.op = "delete_deployment" /\ ~exists
        /\ Respond(w, f, "404")
     \/ /\ f.op = "delete_deployment" /\ exists
        /\ Continue(w, [f EXCEPT !.at = "delete_deployment"])
  /\ OnlyReads

\* The INSERT raises on a row that another request inserted meanwhile.
CreateDeployment(w) ==
  LET f == frames[w] IN
  /\ f.at = "create_deployment"
  /\ \/ /\ f.did \in DeploymentsOf(db, f.rid)
        /\ Respond(w, f, "500")
        /\ UNCHANGED db
     \/ /\ f.did \notin DeploymentsOf(db, f.rid)
        /\ db' = InsertDeployment(db, f.rid, f.did, f.model)
        /\ Continue(w, [f EXCEPT !.at = "append_log", !.status = "201"])
  /\ NothingAppended /\ UNCHANGED << generated, tokens, retired >>

DeleteDeployment(w) ==
  LET f == frames[w] IN
  /\ f.at = "delete_deployment"
  /\ db' = RemoveDeployment(db, f.rid, f.did)
  /\ Continue(w, [f EXCEPT !.at = "append_log", !.status = "200"])
  /\ NothingAppended /\ UNCHANGED << generated, tokens, retired >>

---------------------------------------------------------------------------
(* emit(...), then the response; create_api_key's carries the secret. *)

LogTwinPlane(w) ==
  LET f == frames[w] IN
  /\ f.at = "append_log" /\ f.op \in TwinPlaneOp
  /\ Log(f, f.op, "success")
  /\ Respond(w, f, f.status)
  /\ generated' = IF f.op # "create_api_key" THEN generated
                  ELSE [generated EXCEPT ![f.key].sent = TRUE]
  /\ UNCHANGED << db, tokens, retired >>

TwinPlaneNext(w) ==
  \/ BeginCreateResource(w) \/ CreateResource(w) \/ RereadResource(w)
  \/ BeginDeleteResource(w) \/ DeleteResource(w)
  \/ BeginCreateApiKey(w) \/ LookUpTenant(w) \/ CreateApiKey(w)
  \/ BeginDeleteApiKey(w) \/ FindApiKey(w) \/ DeleteApiKey(w)
  \/ BeginCreateDeployment(w) \/ BeginDeleteDeployment(w)
  \/ LookUpDeployment(w) \/ CreateDeployment(w) \/ DeleteDeployment(w)
  \/ LogTwinPlane(w)
===========================================================================
