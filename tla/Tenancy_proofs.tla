--------------------------- MODULE Tenancy_proofs ---------------------------
(***************************************************************************)
(* Theorems about the deployments in which no deletion interferes: those   *)
(* of one synchronous worker, and those of any number of threads whose     *)
(* clients delete nothing.  There the row of a resource that a handler has *)
(* read is still the row when the handler acts on it, and the tenant       *)
(* isolation of auth.py and of twin_plane/routes.py holds.                 *)
(***************************************************************************)
EXTENDS AoaiTwin_proofs

OneWorker == \A v, w \in Worker : v = w
ResourcesStay == OneWorker \/ "delete_resource" \notin Op
RowsStay ==
  OneWorker \/ Op \cap {"delete_resource", "delete_api_key", "delete_deployment"} = {}

---------------------------------------------------------------------------
(* The invariant. *)

\* The request of a worker acts for the owner that the resource has now.
Rightful(w) ==
  LET f == frames[w]
      owner == db.resources[f.rid]
  IN
  f.at # None =>
    /\ f.op \in Op
    /\ f.op = "create_resource" /\ f.at # "create_resource" => owner = f.by
    /\ f.op = "create_resource" /\ f.at = "append_log" => f.owner = f.by
    /\ f.op = "delete_resource" /\ f.at # "append_log" => owner = f.by
    /\ f.op \in TwinPlaneOp \ {"create_resource", "delete_resource"} => owner = f.by
    /\ f.op = "create_api_key" => generated[f.key].by = f.by
    /\ f.op = "create_api_key" /\ f.at # "get_tenant" => f.owner = f.by
    /\ f.op \in {"jwks", "openid_configuration"} => owner # None
    /\ f.op \in DataPlaneOp \cup {"token"} => f.by = None /\ f.owner = owner
    /\ f.op = "token" /\ (f.at = "get_or_create_signing_key" \/ f.status = "200") =>
         /\ generated[f.cred.client_id] # None
         /\ generated[f.cred.client_id].by = f.owner
    /\ f.op \in DataPlaneOp /\ f.at = "get_or_create_signing_key"
         /\ f.cred.kind = "bearer" => f.cred.token \in tokens \cup {None}
    /\ f.op \in DataPlaneOp /\ f.at = "get_api_key_by_hash" => f.cred.kind = "api-key"
    /\ f.at = "get_signing_key" => f.cred.kind = "bearer" /\ f.cred.token \in tokens

\* Every row below a resource has the resource above it, and a key its owner's name.
RowsRightful ==
  /\ \A k \in KeyId : db.api_keys[k] # None =>
       /\ db.resources[db.api_keys[k].resource_id] # None
       /\ db.api_keys[k].tenant_id = db.resources[db.api_keys[k].resource_id]
       /\ db.api_keys[k].tenant_id = generated[k].by
  /\ \A r \in ResourceId : db.signing_keys[r] # None => db.resources[r] # None
  /\ \A r \in ResourceId, d \in DeploymentId :
       db.deployments[r][d] # None => db.resources[r] # None

\* A token names the tenant whose key it was got with.
TokensRightful ==
  \A t \in tokens : generated[t.appid] # None /\ generated[t.appid].by = t.tid

Tenancy == RowsRightful /\ TokensRightful /\ \A w \in Worker : Rightful(w)

---------------------------------------------------------------------------
(* What any step of a worker changes. *)

TableStep(w) ==
  LET f == frames[w] IN
  \/ db' = db
  \/ /\ f.at = "create_resource" /\ db.resources[f.rid] = None
     /\ db' = InsertResource(db, f.rid, f.by)
  \/ f.at = "delete_resource" /\ db' = RemoveResource(db, f.rid)
  \/ f.at = "create_api_key" /\ db' = InsertApiKey(db, f.key, f.rid, f.owner)
  \/ f.at = "delete_api_key" /\ db' = RemoveApiKey(db, f.key)
  \/ /\ f.at = "get_or_create_signing_key"
     /\ \E kid \in Kid : db' = InsertSigningKey(db, f.rid, kid)
  \/ /\ f.at = "create_deployment" /\ f.did \notin DeploymentsOf(db, f.rid)
     /\ db' = InsertDeployment(db, f.rid, f.did, f.model)
  \/ f.at = "delete_deployment" /\ db' = RemoveDeployment(db, f.rid, f.did)

OutputStep(w) ==
  /\ \A k \in KeyId : generated[k] # None =>
       generated'[k] # None /\ generated'[k].by = generated[k].by
  /\ tokens \subseteq tokens'
  /\ \A t \in tokens' \ tokens :
       frames[w].op = "token" /\ frames[w].status = "200" /\ t = TokenOf(frames[w])
         /\ frames[w].at # None

\* The statement a storage call of the management endpoints issues.
LEMMA TwinPlaneWrites ==
  ASSUME TypeOK, FramesOK, KeysReserved, NEW w \in Worker, TwinPlaneNext(w)
  PROVE  TableStep(w) /\ OutputStep(w)
<1> DEFINE f == frames[w]
<1>f. f \in Frame /\ LocalsSet(f)
  BY DEF TypeOK, FramesOK
<1>1. CASE BeginCreateApiKey(w)
  <2>1. PICK r \in ResourceId, t \in TenantId, k \in KeyId :
          /\ generated[k] = None
          /\ \/ generated' = generated
             \/ generated' = [generated EXCEPT ![k] =
                                [resource_id |-> r, by |-> t, sent |-> FALSE]]
    BY <1>1 DEF BeginCreateApiKey
  <2>2. db' = db /\ tokens' = tokens
    BY <1>1 DEF BeginCreateApiKey
  <2>. QED  BY <2>1, <2>2 DEF TableStep, OutputStep, TypeOK
<1>2. CASE LogTwinPlane(w)
  <2>1. db' = db /\ tokens' = tokens
    BY <1>2 DEF LogTwinPlane
  <2>2. CASE f.op # "create_api_key"
    BY <1>2, <2>1, <2>2 DEF LogTwinPlane, TableStep, OutputStep
  <2>3. CASE f.op = "create_api_key"
    <3>1. f.key \in KeyId /\ generated[f.key] \in Generated
      BY <2>3, <1>f DEF LocalsSet, KeysReserved, TypeOK
    <3>2. [generated[f.key] EXCEPT !.sent = TRUE] \in Generated
          /\ [generated[f.key] EXCEPT !.sent = TRUE].by = generated[f.key].by
      BY <3>1 DEF Generated
    <3>3. generated' = [generated EXCEPT ![f.key] = [generated[f.key] EXCEPT !.sent = TRUE]]
      BY <2>3, <1>2 DEF LogTwinPlane
    <3>4. None \notin Generated
      BY NoneIsNoOutput
    <3>. QED  BY <2>1, <3>1, <3>2, <3>3, <3>4 DEF TypeOK, TableStep, OutputStep
  <2>. QED  BY <2>2, <2>3
<1>3. CASE \/ BeginCreateResource(w) \/ RereadResource(w) \/ BeginDeleteResource(w)
           \/ LookUpTenant(w) \/ BeginDeleteApiKey(w) \/ FindApiKey(w)
           \/ BeginCreateDeployment(w) \/ BeginDeleteDeployment(w) \/ LookUpDeployment(w)
  BY <1>3 DEF BeginCreateResource, RereadResource, BeginDeleteResource, LookUpTenant,
       BeginDeleteApiKey, FindApiKey, BeginCreateDeployment, BeginDeleteDeployment,
       LookUpDeployment, OnlyReads, TableStep, OutputStep
<1>4. CASE CreateResource(w) \/ DeleteResource(w) \/ CreateApiKey(w) \/ DeleteApiKey(w)
  BY <1>4 DEF CreateResource, DeleteResource, CreateApiKey, DeleteApiKey,
       TableStep, OutputStep
<1>5. CASE CreateDeployment(w) \/ DeleteDeployment(w)
  BY <1>5 DEF CreateDeployment, DeleteDeployment, TableStep, OutputStep
<1>. QED  BY <1>1, <1>2, <1>3, <1>4, <1>5 DEF TwinPlaneNext

\* That of any endpoint.
LEMMA StepWrites ==
  ASSUME TypeOK, FramesOK, KeysReserved, NEW w \in Worker, Step(w)
  PROVE  TableStep(w) /\ OutputStep(w)
<1>1. CASE TwinPlaneNext(w)
  BY <1>1, TwinPlaneWrites
<1>2. CASE IdentityNext(w)
  <2>1. CASE LogToken(w)
    BY <2>1, NoneIsNoName DEF LogToken, Keeps, StorageCall, TableStep, OutputStep
  <2>2. CASE SignToken(w) \/ PublishKey(w)
    BY <2>2 DEF SignToken, PublishKey, GetOrCreateSigningKey, Keeps, TableStep, OutputStep
  <2>3. CASE BeginToken(w) \/ CheckClient(w) \/ BeginWellKnown(w) \/ LogWellKnown(w)
    BY <2>3 DEF BeginToken, CheckClient, BeginWellKnown, LogWellKnown, Keeps,
         TableStep, OutputStep
  <2>. QED  BY <1>2, <2>1, <2>2, <2>3 DEF IdentityNext
<1>3. CASE DataPlaneNext(w)
  <2>1. CASE EnsureKeypair(w)
    BY <2>1 DEF EnsureKeypair, GetOrCreateSigningKey, Untouched, TableStep, OutputStep
  <2>2. CASE ~EnsureKeypair(w)
    BY <1>3, <2>2 DEF DataPlaneNext, BeginInference, CheckApiKey, CheckBearer,
         LogAuthentication, ResolveDeployment, PersistRequest, LogInference, Untouched,
         TableStep, OutputStep
  <2>. QED  BY <2>1, <2>2
<1>4. CASE StorageFails(w)
  BY <1>4 DEF StorageFails, TableStep, OutputStep
<1>. QED  BY <1>1, <1>2, <1>3, <1>4 DEF Step, Serve

\* What a step leaves of resources when none goes: all that is there.
ResourcesKept ==
  \A r \in ResourceId : db.resources[r] # None => db'.resources[r] = db.resources[r]

\* Only the deletion of a resource takes a row from its table.
LEMMA OnlyDeletionRemoves ==
  ASSUME TypeOK, FramesOK, NEW w \in Worker, TableStep(w), frames[w].at # "delete_resource"
  PROVE  ResourcesKept
<1> DEFINE f == frames[w]
<1>f. f \in Frame /\ LocalsSet(f)
  BY DEF TypeOK, FramesOK
<1>1. CASE f.at = "create_resource" /\ db.resources[f.rid] = None
             /\ db' = InsertResource(db, f.rid, f.by)
  BY <1>1 DEF InsertResource, TypeOK, Database, ResourcesKept
<1>2. CASE db' = InsertApiKey(db, f.key, f.rid, f.owner)
  BY <1>2 DEF InsertApiKey, TypeOK, Database, ResourcesKept
<1>3. CASE db' = RemoveApiKey(db, f.key)
  BY <1>3 DEF RemoveApiKey, TypeOK, Database, ResourcesKept
<1>4. CASE \E kid \in Kid : db' = InsertSigningKey(db, f.rid, kid)
  BY <1>4 DEF InsertSigningKey, TypeOK, Database, ResourcesKept
<1>5. CASE db' = InsertDeployment(db, f.rid, f.did, f.model)
  BY <1>5 DEF InsertDeployment, TypeOK, Database, ResourcesKept
<1>6. CASE db' = RemoveDeployment(db, f.rid, f.did)
  BY <1>6 DEF RemoveDeployment, TypeOK, Database, ResourcesKept
<1>7. CASE db' = db
  BY <1>7 DEF ResourcesKept
<1>. QED  BY <1>1, <1>2, <1>3, <1>4, <1>5, <1>6, <1>7 DEF TableStep

\* The requests of other workers stay rightful.
LEMMA OthersStayRightful ==
  ASSUME ResourcesStay, TypeOK, FramesOK, KeysReserved, NEW w \in Worker, NEW v \in Worker,
         v # w, Rightful(v), Rightful(w), Step(w)
  PROVE  Rightful(v)'
<1> DEFINE f == frames[v]
<1>f. /\ f \in Frame /\ LocalsSet(f) /\ frames[w] \in Frame /\ LocalsSet(frames[w])
      /\ f.at # None => f.rid \in ResourceId
  BY OpOfCall DEF TypeOK, FramesOK
<1>1. frames'[v] = f
  BY StepOK DEF Effect, TypeOK
<1>2. TableStep(w) /\ OutputStep(w)
  BY StepWrites
<1>3. frames[w].at # "delete_resource"
  BY <1>f, OpOfCall, NoneIsNoName DEF ResourcesStay, OneWorker, Rightful, StorageCall
<1>4. ResourcesKept
  BY <1>2, <1>3, OnlyDeletionRemoves
<1>5. ASSUME f.at # None, ~(f.op = "create_resource" /\ f.at = "create_resource"),
             ~(f.op = "delete_resource" /\ f.at = "append_log")
      PROVE  db'.resources[f.rid] = db.resources[f.rid] /\ db.resources[f.rid] # None
  <2>1. db.resources[f.rid] # None
    <3>1. f.op \in Endpoint
      BY <1>5, <1>f, NoneIsNoName DEF LocalsSet, CallsOf, Frame, Endpoint, DataPlaneOp
    <3>2. CASE f.op \in TwinPlaneOp
      BY <1>5, <1>f, <3>2, NoneIsNoValue DEF Rightful, LocalsSet, TwinPlaneOp
    <3>3. CASE f.op \in DataPlaneOp \cup {"token"}
      BY <1>5, <1>f, <3>3, NoneIsNoValue DEF Rightful, LocalsSet
    <3>4. CASE f.op \in {"jwks", "openid_configuration"}
      BY <1>5, <3>4 DEF Rightful
    <3>. QED  BY <3>1, <3>2, <3>3, <3>4 DEF Endpoint, TwinPlaneOp, DataPlaneOp
  <2>. QED  BY <1>4, <1>5, <1>f, <2>1 DEF ResourcesKept
<1>6. f.op = "create_api_key" =>
        generated'[f.key].by = generated[f.key].by
  BY <1>2, <1>f DEF OutputStep, KeysReserved, LocalsSet
<1>7. f.op = "token" /\ (f.at = "get_or_create_signing_key" \/ f.status = "200") =>
        f.cred.client_id \in KeyId
  BY <1>f DEF LocalsSet
<1>. QED  BY <1>1, <1>2, <1>5, <1>6, <1>7 DEF Rightful, OutputStep, TwinPlaneOp, DataPlaneOp

---------------------------------------------------------------------------
(* The request that takes a step stays rightful. *)

\* A request that has been answered owes nobody anything.
LEMMA AnsweredIsRightful ==
  ASSUME TypeOK, NEW w \in Worker, NEW f, NEW s, Respond(w, f, s)
  PROVE  Rightful(w)'
<1>1. frames'[w] = Idle /\ Idle.at = None
  BY DEF TypeOK, Respond, Idle
<1>. QED  BY <1>1 DEF Rightful

\* A request of the Twin Plane begins with the owner it has just read.
LEMMA OwnerCheckIsRightful ==
  ASSUME TypeOK, NEW w \in Worker, NEW f, NEW call, EnsureTenantOwnsResource(w, f, call),
         db' = db
  PROVE  \/ Rightful(w)'
         \/ db'.resources[f.rid] = f.by /\ frames'[w] = [f EXCEPT !.at = call]
BY AnsweredIsRightful DEF TypeOK, EnsureTenantOwnsResource, Continue

\* Every step of the management endpoints, in the request that takes it.
LEMMA TwinPlaneRightful ==
  ASSUME TypeOK, FramesOK, KeysReserved, NEW w \in Worker, Rightful(w), TwinPlaneNext(w)
  PROVE  Rightful(w)'
<1> DEFINE f == frames[w]
           g == frames'[w]
<1>f. f \in Frame /\ LocalsSet(f) /\ (f.at # None => f.rid \in ResourceId)
  BY OpOfCall DEF TypeOK, FramesOK
<1>k. \A at \in StorageCall : at # None
  BY NoneIsNoName
<1>1. CASE BeginCreateResource(w)
  <2>1. PICK t \in TenantId, r \in ResourceId :
          LET n == NewFrame("create_resource", t, r)
          IN  Respond(w, n, "409") \/ Continue(w, [n EXCEPT !.at = "create_resource"])
    BY <1>1 DEF BeginCreateResource
  <2>2. CASE Respond(w, NewFrame("create_resource", t, r), "409")
    BY <2>2, AnsweredIsRightful
  <2>3. CASE Continue(w, [NewFrame("create_resource", t, r) EXCEPT !.at = "create_resource"])
    <3>1. g.at = "create_resource" /\ g.op = "create_resource" /\ g.status = None
      BY <2>3 DEF Continue, TypeOK, NewFrame, Idle
    <3>2. "create_resource" \in Op
      BY <1>1 DEF BeginCreateResource
    <3>. QED  BY <3>1, <3>2 DEF Rightful, TwinPlaneOp, DataPlaneOp
  <2>. QED  BY <2>1, <2>2, <2>3
<1>2. CASE CreateResource(w)
  <2>1. f.op = "create_resource" /\ f.rid \in ResourceId
    BY <1>2, <1>f, <1>k, OpOfCall DEF CreateResource, StorageCall
  <2>2. CASE Respond(w, f, "500")
    BY <2>2, AnsweredIsRightful
  <2>3. CASE db' = InsertResource(db, f.rid, f.by) /\ Continue(w, [f EXCEPT !.at = "get_resource"])
    <3>1. g.at = "get_resource" /\ g.op = f.op /\ g.rid = f.rid /\ g.by = f.by
      BY <1>f, <2>3 DEF Continue, TypeOK, Frame
    <3>2. db'.resources[f.rid] = f.by
      BY <2>1, <2>3 DEF InsertResource, TypeOK, Database
    <3>3. f.op \in Op
      BY <1>2, <1>k DEF Rightful, CreateResource, StorageCall
    <3>. QED  BY <2>1, <3>1, <3>2, <3>3 DEF Rightful, TwinPlaneOp, DataPlaneOp
  <2>. QED  BY <1>2, <2>2, <2>3 DEF CreateResource
<1>3. CASE RereadResource(w)
  <2>1. f.op = "create_resource" /\ f.at = "get_resource"
    BY <1>3, <1>f, OpOfCall DEF RereadResource
  <2>2. db.resources[f.rid] = f.by /\ f.op \in Op
    BY <2>1, <1>k DEF Rightful, StorageCall
  <2>3. /\ g.at = "append_log" /\ g.op = f.op /\ g.rid = f.rid /\ g.by = f.by
        /\ g.owner = f.by /\ db' = db
    BY <1>3, <1>f, <2>2 DEF RereadResource, Continue, OnlyReads, TypeOK, Frame
  <2>. QED  BY <2>1, <2>2, <2>3 DEF Rightful, TwinPlaneOp, DataPlaneOp
<1>4. CASE BeginDeleteResource(w)
  <2>1. PICK t \in TenantId, r \in ResourceId :
          EnsureTenantOwnsResource(w, NewFrame("delete_resource", t, r), "delete_resource")
    BY <1>4 DEF BeginDeleteResource
  <2>2. db' = db /\ "delete_resource" \in Op
    BY <1>4 DEF BeginDeleteResource, OnlyReads
  <2> DEFINE n == NewFrame("delete_resource", t, r)
  <2>3. n.rid = r /\ n.by = t /\ n.op = "delete_resource" /\ n.status = None
    BY DEF NewFrame, Idle
  <2>4. \/ Rightful(w)'
        \/ db'.resources[r] = t /\ g = [n EXCEPT !.at = "delete_resource"]
    BY <2>1, <2>2, <2>3, OwnerCheckIsRightful
  <2>5. CASE db'.resources[r] = t /\ g = [n EXCEPT !.at = "delete_resource"]
    <3>1. /\ g.at = "delete_resource" /\ g.op = "delete_resource" /\ g.rid = r /\ g.by = t
          /\ g.status = None
      BY <2>5 DEF NewFrame, Idle
    <3>. QED  BY <2>2, <2>5, <3>1 DEF Rightful, TwinPlaneOp, DataPlaneOp
  <2>. QED  BY <2>4, <2>5
<1>5. CASE DeleteResource(w)
  <2>1. f.op = "delete_resource" /\ f.at = "delete_resource"
    BY <1>5, <1>f, OpOfCall DEF DeleteResource
  <2>2. g.at = "append_log" /\ g.op = f.op
    BY <1>5, <1>f DEF DeleteResource, Continue, TypeOK, Frame
  <2>3. f.op \in Op
    BY <2>1, <1>k DEF Rightful, StorageCall
  <2>. QED  BY <2>1, <2>2, <2>3 DEF Rightful, TwinPlaneOp, DataPlaneOp
<1>6. CASE BeginCreateApiKey(w)
  <2>1. PICK t \in TenantId, r \in ResourceId, k \in KeyId :
          /\ EnsureTenantOwnsResource(w, [NewFrame("create_api_key", t, r) EXCEPT !.key = k],
                                      "get_tenant")
          /\ db.resources[r] = t =>
               generated' = [generated EXCEPT ![k] =
                               [resource_id |-> r, by |-> t, sent |-> FALSE]]
    BY <1>6 DEF BeginCreateApiKey
  <2>2. db' = db /\ "create_api_key" \in Op
    BY <1>6 DEF BeginCreateApiKey
  <2> DEFINE n == [NewFrame("create_api_key", t, r) EXCEPT !.key = k]
  <2>3. n.rid = r /\ n.by = t
    BY DEF NewFrame, Idle
  <2>4. \/ Rightful(w)'
        \/ db'.resources[r] = t /\ g = [n EXCEPT !.at = "get_tenant"]
    BY <2>1, <2>2, <2>3, OwnerCheckIsRightful
  <2>5. CASE db'.resources[r] = t /\ g = [n EXCEPT !.at = "get_tenant"]
    <3>1. /\ g.at = "get_tenant" /\ g.op = "create_api_key" /\ g.rid = r /\ g.by = t
          /\ g.key = k
      BY <2>5 DEF NewFrame, Idle
    <3>2. generated'[k].by = t
      BY <2>1, <2>2, <2>5 DEF TypeOK
    <3>. QED  BY <2>2, <2>5, <3>1, <3>2 DEF Rightful, TwinPlaneOp, DataPlaneOp
  <2>. QED  BY <2>4, <2>5
<1>7. CASE LookUpTenant(w)
  <2>1. f.op = "create_api_key" /\ f.at = "get_tenant"
    BY <1>7, <1>f, OpOfCall DEF LookUpTenant
  <2>2. db.resources[f.rid] = f.by /\ f.op \in Op /\ generated[f.key].by = f.by
    BY <2>1, <1>k DEF Rightful, StorageCall, TwinPlaneOp
  <2>3. /\ g.at = "create_api_key" /\ g.op = f.op /\ g.rid = f.rid /\ g.by = f.by
        /\ g.key = f.key /\ g.owner = f.by /\ db' = db /\ generated' = generated
    BY <1>7, <1>f, <2>2 DEF LookUpTenant, Continue, OnlyReads, TypeOK, Frame
  <2>. QED  BY <2>1, <2>2, <2>3 DEF Rightful, TwinPlaneOp, DataPlaneOp
<1>8. CASE CreateApiKey(w)
  <2>1. f.op = "create_api_key" /\ f.at = "create_api_key"
    BY <1>8, <1>f, OpOfCall DEF CreateApiKey
  <2>2. /\ db.resources[f.rid] = f.by /\ f.op \in Op /\ generated[f.key].by = f.by
        /\ f.owner = f.by
    BY <2>1, <1>k DEF Rightful, StorageCall, TwinPlaneOp
  <2>3. /\ g.at = "append_log" /\ g.op = f.op /\ g.rid = f.rid /\ g.by = f.by
        /\ g.key = f.key /\ g.owner = f.owner /\ generated' = generated
    BY <1>8, <1>f DEF CreateApiKey, Continue, TypeOK, Frame
  <2>4. db'.resources = db.resources
    BY <1>8 DEF CreateApiKey, InsertApiKey, TypeOK, Database
  <2>. QED  BY <2>1, <2>2, <2>3, <2>4 DEF Rightful, TwinPlaneOp, DataPlaneOp
<1>9. CASE BeginDeleteApiKey(w)
  <2>1. PICK t \in TenantId, r \in ResourceId, k \in KeyId :
          EnsureTenantOwnsResource(w, [NewFrame("delete_api_key", t, r) EXCEPT !.key = k],
                                   "list_api_keys")
    BY <1>9 DEF BeginDeleteApiKey
  <2>2. db' = db /\ "delete_api_key" \in Op
    BY <1>9 DEF BeginDeleteApiKey, OnlyReads
  <2> DEFINE n == [NewFrame("delete_api_key", t, r) EXCEPT !.key = k]
  <2>3. n.rid = r /\ n.by = t
    BY DEF NewFrame, Idle
  <2>4. \/ Rightful(w)'
        \/ db'.resources[r] = t /\ g = [n EXCEPT !.at = "list_api_keys"]
    BY <2>1, <2>2, <2>3, OwnerCheckIsRightful
  <2>5. CASE db'.resources[r] = t /\ g = [n EXCEPT !.at = "list_api_keys"]
    <3>1. g.at = "list_api_keys" /\ g.op = "delete_api_key" /\ g.rid = r /\ g.by = t
      BY <2>5 DEF NewFrame, Idle
    <3>. QED  BY <2>2, <2>5, <3>1 DEF Rightful, TwinPlaneOp, DataPlaneOp
  <2>. QED  BY <2>4, <2>5
<1>10. CASE FindApiKey(w) \/ DeleteApiKey(w)
  <2>1. f.op = "delete_api_key" /\ f.at \in {"list_api_keys", "delete_api_key"}
    BY <1>10, <1>f, OpOfCall DEF FindApiKey, DeleteApiKey
  <2>2. db.resources[f.rid] = f.by /\ f.op \in Op
    BY <2>1, <1>k DEF Rightful, StorageCall, TwinPlaneOp
  <2>3. \/ Respond(w, f, "404")
        \/ Continue(w, [f EXCEPT !.at = "delete_api_key"])
        \/ Continue(w, [f EXCEPT !.at = "append_log", !.status = "200"])
    BY <1>10 DEF FindApiKey, DeleteApiKey
  <2>5. \/ Respond(w, f, "404")
        \/ /\ g.at \in {"delete_api_key", "append_log"} /\ g.op = f.op
           /\ g.rid = f.rid /\ g.by = f.by
    BY <1>f, <2>3 DEF Continue, TypeOK, Frame
  <2>4. db'.resources = db.resources
    BY <1>10 DEF FindApiKey, DeleteApiKey, RemoveApiKey, OnlyReads, TypeOK, Database
  <2>. QED  BY <2>1, <2>2, <2>4, <2>5, AnsweredIsRightful DEF Rightful, TwinPlaneOp, DataPlaneOp
<1>11. CASE BeginCreateDeployment(w)
  <2>1. PICK t \in TenantId, r \in ResourceId, d \in DeploymentId, m \in Model \cup {None} :
          LET n == [NewFrame("create_deployment", t, r) EXCEPT !.did = d, !.model = m]
          IN  \/ Respond(w, n, "400")
              \/ EnsureTenantOwnsResource(w, n, "get_deployment")
    BY <1>11 DEF BeginCreateDeployment
  <2>2. db' = db /\ "create_deployment" \in Op
    BY <1>11 DEF BeginCreateDeployment, OnlyReads
  <2> DEFINE n == [NewFrame("create_deployment", t, r) EXCEPT !.did = d, !.model = m]
  <2>3. n.rid = r /\ n.by = t
    BY DEF NewFrame, Idle
  <2>4. \/ Rightful(w)'
        \/ db'.resources[r] = t /\ g = [n EXCEPT !.at = "get_deployment"]
    BY <2>1, <2>2, <2>3, OwnerCheckIsRightful, AnsweredIsRightful
  <2>5. CASE db'.resources[r] = t /\ g = [n EXCEPT !.at = "get_deployment"]
    <3>1. g.at = "get_deployment" /\ g.op = "create_deployment" /\ g.rid = r /\ g.by = t
      BY <2>5 DEF NewFrame, Idle
    <3>. QED  BY <2>2, <2>5, <3>1 DEF Rightful, TwinPlaneOp, DataPlaneOp
  <2>. QED  BY <2>4, <2>5
<1>12. CASE BeginDeleteDeployment(w)
  <2>1. PICK t \in TenantId, r \in ResourceId, d \in DeploymentId :
          EnsureTenantOwnsResource(w, [NewFrame("delete_deployment", t, r) EXCEPT !.did = d],
                                   "get_deployment")
    BY <1>12 DEF BeginDeleteDeployment
  <2>2. db' = db /\ "delete_deployment" \in Op
    BY <1>12 DEF BeginDeleteDeployment, OnlyReads
  <2> DEFINE n == [NewFrame("delete_deployment", t, r) EXCEPT !.did = d]
  <2>3. n.rid = r /\ n.by = t
    BY DEF NewFrame, Idle
  <2>4. \/ Rightful(w)'
        \/ db'.resources[r] = t /\ g = [n EXCEPT !.at = "get_deployment"]
    BY <2>1, <2>2, <2>3, OwnerCheckIsRightful
  <2>5. CASE db'.resources[r] = t /\ g = [n EXCEPT !.at = "get_deployment"]
    <3>1. g.at = "get_deployment" /\ g.op = "delete_deployment" /\ g.rid = r /\ g.by = t
      BY <2>5 DEF NewFrame, Idle
    <3>. QED  BY <2>2, <2>5, <3>1 DEF Rightful, TwinPlaneOp, DataPlaneOp
  <2>. QED  BY <2>4, <2>5
<1>13. CASE LookUpDeployment(w) \/ CreateDeployment(w) \/ DeleteDeployment(w)
  <2>1. /\ f.op \in {"create_deployment", "delete_deployment"}
        /\ f.at \in {"get_deployment", "create_deployment", "delete_deployment"}
    BY <1>13, <1>f, OpOfCall DEF LookUpDeployment, CreateDeployment, DeleteDeployment
  <2>2. db.resources[f.rid] = f.by /\ f.op \in Op
    BY <2>1, <1>k DEF Rightful, StorageCall, TwinPlaneOp
  <2>3. \/ \E s : Respond(w, f, s)
        \/ \E at \in {"create_deployment", "delete_deployment"} :
             Continue(w, [f EXCEPT !.at = at])
        \/ \E s : Continue(w, [f EXCEPT !.at = "append_log", !.status = s])
    BY <1>13 DEF LookUpDeployment, CreateDeployment, DeleteDeployment
  <2>5. \/ \E s : Respond(w, f, s)
        \/ /\ g.at \in {"create_deployment", "delete_deployment", "append_log"}
           /\ g.op = f.op /\ g.rid = f.rid /\ g.by = f.by
    BY <1>f, <2>3 DEF Continue, TypeOK, Frame
  <2>4. db'.resources = db.resources
    BY <1>13 DEF LookUpDeployment, CreateDeployment, DeleteDeployment, InsertDeployment,
         RemoveDeployment, OnlyReads, TypeOK, Database
  <2>. QED  BY <2>1, <2>2, <2>4, <2>5, AnsweredIsRightful DEF Rightful, TwinPlaneOp, DataPlaneOp
<1>14. CASE LogTwinPlane(w)
  BY <1>14, AnsweredIsRightful DEF LogTwinPlane
<1>. QED
  BY <1>1, <1>2, <1>3, <1>4, <1>5, <1>6, <1>7, <1>8, <1>9, <1>10, <1>11, <1>12,
     <1>13, <1>14 DEF TwinPlaneNext

\* Every step of the token endpoint, the JWKS and discovery.
LEMMA IdentityRightful ==
  ASSUME TypeOK, FramesOK, KeysReserved, RowsRightful, NEW w \in Worker, Rightful(w),
         IdentityNext(w)
  PROVE  Rightful(w)'
<1> DEFINE f == frames[w]
           g == frames'[w]
<1>f. f \in Frame /\ LocalsSet(f) /\ (f.at # None => f.rid \in ResourceId)
  BY OpOfCall DEF TypeOK, FramesOK
<1>k. \A at \in StorageCall : at # None
  BY NoneIsNoName
<1>1. CASE BeginToken(w)
  <2>1. PICK r \in ResourceId, c \in ClientCredentials :
          LET n == [Idle EXCEPT !.op = "token", !.rid = r, !.owner = db.resources[r], !.cred = c]
          IN  \/ Respond(w, n, "404")
              \/ Continue(w, [n EXCEPT !.at = "append_log", !.status = "400"])
              \/ Continue(w, [n EXCEPT !.at = "get_api_key_by_hash"])
    BY <1>1 DEF BeginToken
  <2>2. db' = db /\ "token" \in Op
    BY <1>1 DEF BeginToken
  <2>3. \/ \E n : Respond(w, n, "404")
        \/ /\ g.op = "token" /\ g.rid = r /\ g.owner = db.resources[r] /\ g.by = None
           /\ \/ g.at = "append_log" /\ g.status = "400"
              \/ g.at = "get_api_key_by_hash" /\ g.status = None
    BY <2>1 DEF Continue, TypeOK, Idle
  <2>4. None # "200"
    BY NoneIsNoName DEF Status
  <2>. QED  BY <2>2, <2>3, <2>4, AnsweredIsRightful DEF Rightful, TwinPlaneOp, DataPlaneOp
<1>2. CASE CheckClient(w)
  <2>1. f.op = "token" /\ f.at = "get_api_key_by_hash" /\ f.status = None /\ f.rid \in ResourceId
    BY <1>2, <1>f, <1>k DEF CheckClient, LocalsSet, StorageCall
  <2>2. /\ f.by = None /\ f.owner = db.resources[f.rid] /\ f.op \in Op
    BY <2>1, <1>k DEF Rightful, StorageCall, TwinPlaneOp
  <2>3. \/ Continue(w, [f EXCEPT !.at = "append_log", !.status = "401"])
        \/ /\ f.cred.client_id \in KeysOf(db, f.rid)
           /\ Continue(w, [f EXCEPT !.at = "get_or_create_signing_key"])
    BY <1>2 DEF CheckClient
  <2>4. /\ g.op = f.op /\ g.rid = f.rid /\ g.by = f.by /\ g.owner = f.owner /\ g.cred = f.cred
        /\ \/ g.at = "append_log" /\ g.status = "401"
           \/ g.at = "get_or_create_signing_key" /\ f.cred.client_id \in KeysOf(db, f.rid)
    BY <1>f, <2>3 DEF Continue, TypeOK, Frame
  <2>5. f.cred.client_id \in KeysOf(db, f.rid) =>
          /\ generated[f.cred.client_id] # None
          /\ generated[f.cred.client_id].by = f.owner
    BY <2>2 DEF RowsRightful, KeysReserved, KeysOf
  <2>6. db' = db /\ generated' = generated
    BY <1>2 DEF CheckClient, Keeps
  <2>. QED  BY <2>1, <2>2, <2>4, <2>5, <2>6 DEF Rightful, TwinPlaneOp, DataPlaneOp
<1>3. CASE SignToken(w)
  <2>1. f.op = "token" /\ f.at = "get_or_create_signing_key" /\ f.rid \in ResourceId
    BY <1>3, <1>f, <1>k DEF SignToken, StorageCall
  <2>2. /\ f.by = None /\ f.owner = db.resources[f.rid] /\ f.op \in Op
        /\ generated[f.cred.client_id] # None
        /\ generated[f.cred.client_id].by = f.owner
    BY <2>1, <1>k DEF Rightful, StorageCall, TwinPlaneOp
  <2>3. PICK kid \in Kid :
          /\ db' = InsertSigningKey(db, f.rid, kid)
          /\ Continue(w, [f EXCEPT !.at = "append_log", !.status = "200", !.kid = kid])
    BY <1>3 DEF SignToken, GetOrCreateSigningKey
  <2>4. /\ g.op = f.op /\ g.rid = f.rid /\ g.by = f.by /\ g.owner = f.owner /\ g.cred = f.cred
        /\ g.at = "append_log"
    BY <1>f, <2>3 DEF Continue, TypeOK, Frame
  <2>5. db'.resources = db.resources /\ generated' = generated
    BY <1>3, <2>3 DEF SignToken, Keeps, InsertSigningKey, TypeOK, Database
  <2>. QED  BY <2>1, <2>2, <2>4, <2>5 DEF Rightful, TwinPlaneOp, DataPlaneOp
<1>4. CASE BeginWellKnown(w)
  <2>1. PICK op \in Op \cap {"jwks", "openid_configuration"}, r \in ResourceId :
          LET n == [Idle EXCEPT !.op = op, !.rid = r]
          IN  \/ Respond(w, n, "404")
              \/ /\ db.resources[r] # None
                 /\ \/ Continue(w, [n EXCEPT !.at = "get_or_create_signing_key"])
                    \/ Continue(w, [n EXCEPT !.at = "append_log", !.status = "200"])
    BY <1>4 DEF BeginWellKnown
  <2>2. \/ \E n : Respond(w, n, "404")
        \/ /\ g.op = op /\ g.rid = r /\ db.resources[r] # None
           /\ g.at \in {"get_or_create_signing_key", "append_log"}
    BY <2>1 DEF Continue, TypeOK, Idle
  <2>3. db' = db
    BY <1>4 DEF BeginWellKnown
  <2>. QED  BY <2>2, <2>3, AnsweredIsRightful DEF Rightful, TwinPlaneOp, DataPlaneOp
<1>5. CASE PublishKey(w)
  <2>1. f.op = "jwks" /\ f.at = "get_or_create_signing_key" /\ f.rid \in ResourceId
    BY <1>5, <1>f, <1>k DEF PublishKey, StorageCall
  <2>2. db.resources[f.rid] # None /\ f.op \in Op
    BY <2>1, <1>k DEF Rightful, StorageCall
  <2>3. PICK kid \in Kid :
          /\ db' = InsertSigningKey(db, f.rid, kid)
          /\ Continue(w, [f EXCEPT !.at = "append_log", !.status = "200", !.kid = kid])
    BY <1>5 DEF PublishKey, GetOrCreateSigningKey
  <2>4. g.op = f.op /\ g.rid = f.rid /\ g.at = "append_log"
    BY <1>f, <2>3 DEF Continue, TypeOK, Frame
  <2>5. db'.resources = db.resources
    BY <2>3 DEF InsertSigningKey, TypeOK, Database
  <2>. QED  BY <2>1, <2>2, <2>4, <2>5 DEF Rightful, TwinPlaneOp, DataPlaneOp
<1>6. CASE LogToken(w) \/ LogWellKnown(w)
  BY <1>6, AnsweredIsRightful DEF LogToken, LogWellKnown
<1>. QED  BY <1>1, <1>2, <1>3, <1>4, <1>5, <1>6 DEF IdentityNext

\* Every step of the data plane.
LEMMA DataPlaneRightful ==
  ASSUME TypeOK, FramesOK, NEW w \in Worker, Rightful(w), DataPlaneNext(w)
  PROVE  Rightful(w)'
<1> DEFINE f == frames[w]
           g == frames'[w]
<1>f. f \in Frame /\ LocalsSet(f) /\ (f.at # None => f.rid \in ResourceId)
  BY OpOfCall DEF TypeOK, FramesOK
<1>k. \A at \in StorageCall : at # None
  BY NoneIsNoName
<1>1. CASE BeginInference(w)
  <2>1. PICK op \in Op \cap DataPlaneOp, r \in ResourceId, d \in DeploymentId,
             c \in DataCredentials :
          LET n == [Idle EXCEPT !.op = op, !.rid = r, !.did = d, !.cred = c,
                                !.owner = db.resources[r]]
          IN  \/ Respond(w, n, "404")
              \/ Continue(w, [n EXCEPT !.at = "get_or_create_signing_key"])
    BY <1>1 DEF BeginInference
  <2>2. \/ \E n : Respond(w, n, "404")
        \/ /\ g.op = op /\ g.rid = r /\ g.owner = db.resources[r] /\ g.by = None
           /\ g.cred = c /\ g.at = "get_or_create_signing_key"
    BY <2>1 DEF Continue, TypeOK, Idle
  <2>3. c.kind = "bearer" => c.token \in tokens \cup {None}
    BY DEF DataCredentials
  <2>4. db' = db /\ tokens' = tokens
    BY <1>1 DEF BeginInference, Untouched
  <2>. QED  BY <2>2, <2>3, <2>4, AnsweredIsRightful DEF Rightful, TwinPlaneOp, DataPlaneOp
<1>2. CASE f.at # None /\ f.op \in DataPlaneOp /\ db'.resources = db.resources /\ tokens' = tokens
             /\ g.op = f.op /\ g.rid = f.rid /\ g.by = f.by /\ g.owner = f.owner
             /\ \/ g.at \in {"append_auth_log", "get_deployment", "create_request", "append_log"}
                \/ g.at = "get_api_key_by_hash" /\ g.cred.kind = "api-key"
                \/ g.at = "get_signing_key" /\ g.cred.kind = "bearer" /\ g.cred.token \in tokens
  <2>1. f.op \in Op /\ f.by = None /\ f.owner = db.resources[f.rid]
    BY <1>2 DEF Rightful
  <2>. QED  BY <1>2, <2>1 DEF Rightful, TwinPlaneOp, DataPlaneOp
<1>3. CASE EnsureKeypair(w)
  <2>1. f.op \in DataPlaneOp /\ f.at = "get_or_create_signing_key" /\ f.rid \in ResourceId
    BY <1>3, <1>f, <1>k DEF EnsureKeypair, StorageCall
  <2>2. f.cred.kind = "bearer" => f.cred.token \in tokens \cup {None}
    BY <2>1, <1>k DEF Rightful, StorageCall
  <2>3. \/ f.cred.kind = "api-key" /\ Continue(w, [f EXCEPT !.at = "get_api_key_by_hash"])
        \/ /\ f.cred.kind = "bearer" /\ f.cred.token # None
           /\ Continue(w, [f EXCEPT !.at = "get_signing_key"])
        \/ Continue(w, [f EXCEPT !.at = "append_auth_log", !.cred = None, !.status = "401"])
    BY <1>3 DEF EnsureKeypair, Refuse
  <2>4. /\ g.op = f.op /\ g.rid = f.rid /\ g.by = f.by /\ g.owner = f.owner
        /\ \/ g.at = "append_auth_log"
           \/ g.at = "get_api_key_by_hash" /\ g.cred.kind = "api-key"
           \/ g.at = "get_signing_key" /\ g.cred.kind = "bearer" /\ g.cred.token \in tokens
    <3>1. CASE /\ f.cred.kind = "api-key"
               /\ Continue(w, [f EXCEPT !.at = "get_api_key_by_hash"])
      <4>1. g = [f EXCEPT !.at = "get_api_key_by_hash"]
        BY <3>1 DEF Continue, TypeOK
      <4>2. /\ g.op = f.op /\ g.rid = f.rid /\ g.by = f.by /\ g.owner = f.owner
            /\ g.at = "get_api_key_by_hash" /\ g.cred = f.cred
        BY <1>f, <4>1 DEF Frame
      <4>. QED  BY <3>1, <4>2
    <3>2. CASE /\ f.cred.kind = "bearer" /\ f.cred.token # None
               /\ Continue(w, [f EXCEPT !.at = "get_signing_key"])
      <4>1. g = [f EXCEPT !.at = "get_signing_key"]
        BY <3>2 DEF Continue, TypeOK
      <4>2. /\ g.op = f.op /\ g.rid = f.rid /\ g.by = f.by /\ g.owner = f.owner
            /\ g.at = "get_signing_key" /\ g.cred = f.cred
        BY <1>f, <4>1 DEF Frame
      <4>. QED  BY <2>2, <3>2, <4>2
    <3>3. CASE Continue(w, [f EXCEPT !.at = "append_auth_log", !.cred = None, !.status = "401"])
      BY <1>f, <3>3 DEF Continue, TypeOK, Frame
    <3>. QED  BY <2>3, <3>1, <3>2, <3>3
  <2>5. db'.resources = db.resources /\ tokens' = tokens
    BY <1>3 DEF EnsureKeypair, GetOrCreateSigningKey, InsertSigningKey, Untouched, TypeOK, Database
  <2>. QED  BY <1>2, <1>k, <2>1, <2>4, <2>5 DEF StorageCall
<1>4. CASE CheckApiKey(w) \/ CheckBearer(w)
  <2>1. f.op \in DataPlaneOp /\ f.at # None
    BY <1>4, <1>f, <1>k, OpOfCall DEF CheckApiKey, CheckBearer, StorageCall
  <2>2. \/ Continue(w, [f EXCEPT !.at = "append_auth_log", !.cred = None, !.status = "401"])
        \/ Continue(w, [f EXCEPT !.at = "append_auth_log", !.cred = None])
    BY <1>4 DEF CheckApiKey, CheckBearer, Accept, Refuse
  <2>3. /\ g.op = f.op /\ g.rid = f.rid /\ g.by = f.by /\ g.owner = f.owner
        /\ g.at = "append_auth_log"
    BY <1>f, <2>2 DEF Continue, TypeOK, Frame
  <2>4. db' = db /\ tokens' = tokens
    BY <1>4 DEF CheckApiKey, CheckBearer, Untouched
  <2>. QED  BY <1>2, <2>1, <2>3, <2>4
<1>5. CASE LogAuthentication(w) \/ PersistRequest(w)
  <2>1. f.op \in DataPlaneOp /\ f.at # None
    BY <1>5, <1>f, <1>k, OpOfCall DEF LogAuthentication, PersistRequest, StorageCall
  <2>2. \/ \E s : Respond(w, f, s)
        \/ Continue(w, [f EXCEPT !.at = "get_deployment"])
        \/ Continue(w, [f EXCEPT !.at = "append_log", !.status = "200"])
    BY <1>5 DEF LogAuthentication, PersistRequest
  <2>3. \/ \E s : Respond(w, f, s)
        \/ /\ g.op = f.op /\ g.rid = f.rid /\ g.by = f.by /\ g.owner = f.owner
           /\ g.at \in {"get_deployment", "append_log"}
    BY <1>f, <2>2 DEF Continue, TypeOK, Frame
  <2>4. db' = db /\ tokens' = tokens
    BY <1>5 DEF LogAuthentication, PersistRequest, Untouched
  <2>. QED  BY <1>2, <2>1, <2>3, <2>4, AnsweredIsRightful
<1>6. CASE ResolveDeployment(w)
  <2>1. f.op \in DataPlaneOp /\ f.at # None
    BY <1>6, <1>k DEF ResolveDeployment, StorageCall
  <2>2. \/ \E s : Respond(w, f, s)
        \/ \E m : Continue(w, [f EXCEPT !.at = "create_request", !.model = m])
    BY <1>6 DEF ResolveDeployment
  <2>3. \/ \E s : Respond(w, f, s)
        \/ /\ g.op = f.op /\ g.rid = f.rid /\ g.by = f.by /\ g.owner = f.owner
           /\ g.at = "create_request"
    BY <1>f, <2>2 DEF Continue, TypeOK, Frame
  <2>4. db' = db /\ tokens' = tokens
    BY <1>6 DEF ResolveDeployment, Untouched
  <2>. QED  BY <1>2, <2>1, <2>3, <2>4, AnsweredIsRightful
<1>7. CASE LogInference(w)
  BY <1>7, AnsweredIsRightful DEF LogInference
<1>. QED  BY <1>1, <1>3, <1>4, <1>5, <1>6, <1>7 DEF DataPlaneNext

---------------------------------------------------------------------------
(* The tables and the tokens stay rightful. *)

\* Whatever statement is issued, by a rightful request.
LEMMA StepKeepsRowsRightful ==
  ASSUME TypeOK, FramesOK, KeysReserved, RowsRightful, NEW w \in Worker, Rightful(w), Step(w)
  PROVE  RowsRightful'
<1> DEFINE f == frames[w]
<1>f. f \in Frame /\ LocalsSet(f) /\ (f.at # None => f.rid \in ResourceId)
  BY OpOfCall DEF TypeOK, FramesOK
<1>k. \A at \in StorageCall : at # None
  BY NoneIsNoName
<1>s. TableStep(w)
  BY StepWrites
<1>g. \A k \in KeyId : db.api_keys[k] # None => generated'[k].by = generated[k].by
  BY StepWrites DEF OutputStep, KeysReserved
<1>d. /\ db \in Database
      /\ \A k \in KeyId : db.api_keys[k] # None => db.api_keys[k].resource_id \in ResourceId
  BY DEF TypeOK, Database, ApiKeyRow
<1>1. CASE db' = db
  BY <1>1, <1>g DEF RowsRightful
<1>2. CASE f.at = "create_resource" /\ db.resources[f.rid] = None
             /\ db' = InsertResource(db, f.rid, f.by)
  <2>1. f.rid \in ResourceId
    BY <1>2, <1>f, <1>k DEF StorageCall
  <2>2. db'.resources = [db.resources EXCEPT ![f.rid] = f.by] /\ db'.api_keys = db.api_keys
        /\ db'.deployments = db.deployments /\ db'.signing_keys = db.signing_keys
    BY <1>2, <1>d DEF InsertResource, Database
  <2>3. \A r \in ResourceId : db.resources[r] # None => db'.resources[r] = db.resources[r]
    BY <1>2, <2>2, <1>d DEF Database
  <2>. QED  BY <2>2, <2>3, <1>g, <1>d DEF RowsRightful
<1>3. CASE f.at = "delete_resource" /\ db' = RemoveResource(db, f.rid)
  <2>1. f.rid \in ResourceId
    BY <1>3, <1>f, <1>k DEF StorageCall
  <2> DEFINE e == RemoveResource(db, f.rid)
  <2>2. /\ e.resources = [db.resources EXCEPT ![f.rid] = None]
        /\ e.signing_keys = [db.signing_keys EXCEPT ![f.rid] = None]
        /\ e.deployments = [db.deployments EXCEPT ![f.rid] = [d \in DeploymentId |-> None]]
        /\ e.api_keys =
             [k \in KeyId |-> IF k \in KeysOf(db, f.rid) THEN None ELSE db.api_keys[k]]
    BY <1>d, <2>1, RemoveResourceEffect
  <2>3. db' = e
    BY <1>3
  <2> HIDE DEF e
  <2>4. ASSUME NEW k \in KeyId, db'.api_keys[k] # None
        PROVE  /\ db'.api_keys[k] = db.api_keys[k] /\ db.api_keys[k] # None
               /\ db.api_keys[k].resource_id \in ResourceId
               /\ db.api_keys[k].resource_id # f.rid
    BY <2>2, <2>3, <2>4, <1>d DEF KeysOf
  <2>5. \A r \in ResourceId : r # f.rid => db'.resources[r] = db.resources[r]
    BY <2>2, <2>3, <1>d DEF Database
  <2>6. ASSUME NEW k \in KeyId, db'.api_keys[k] # None
        PROVE  /\ db'.resources[db'.api_keys[k].resource_id] # None
               /\ db'.api_keys[k].tenant_id = db'.resources[db'.api_keys[k].resource_id]
               /\ db'.api_keys[k].tenant_id = generated'[k].by
    BY <2>4, <2>5, <2>6, <1>g DEF RowsRightful
  <2>7. \A r \in ResourceId : db'.signing_keys[r] # None => db'.resources[r] # None
    BY <2>1, <2>2, <2>3, <2>5, <1>d DEF Database, RowsRightful
  <2>8. \A r \in ResourceId, d \in DeploymentId :
          db'.deployments[r][d] # None => db'.resources[r] # None
    BY <2>1, <2>2, <2>3, <2>5, <1>d DEF Database, RowsRightful
  <2>. QED  BY <2>6, <2>7, <2>8 DEF RowsRightful
<1>4. CASE f.at = "create_api_key" /\ db' = InsertApiKey(db, f.key, f.rid, f.owner)
  <2>1. f.op = "create_api_key" /\ f.key \in KeyId /\ f.rid \in ResourceId
        /\ f.owner = f.by /\ db.resources[f.rid] = f.by /\ f.by # None
        /\ generated[f.key].by = f.by
    BY <1>4, <1>f, <1>k, OpOfCall, NoneIsNoValue
       DEF StorageCall, LocalsSet, Rightful, TwinPlaneOp
  <2>2. /\ db'.resources = db.resources /\ db'.deployments = db.deployments
        /\ db'.signing_keys = db.signing_keys
        /\ db'.api_keys = [db.api_keys EXCEPT ![f.key] =
                             [resource_id |-> f.rid, tenant_id |-> f.owner]]
    BY <1>4, <1>d DEF InsertApiKey, Database
  <2>3. generated'[f.key].by = generated[f.key].by
    BY StepWrites, <2>1 DEF OutputStep, KeysReserved
  <2>4. ASSUME NEW k \in KeyId, db'.api_keys[k] # None
        PROVE  /\ db'.resources[db'.api_keys[k].resource_id] # None
               /\ db'.api_keys[k].tenant_id = db'.resources[db'.api_keys[k].resource_id]
               /\ db'.api_keys[k].tenant_id = generated'[k].by
    <3>1. CASE k = f.key
      <4>1. db'.api_keys[k] = [resource_id |-> f.rid, tenant_id |-> f.owner]
        BY <2>1, <2>2, <3>1, <1>d DEF Database
      <4>. QED  BY <2>1, <2>2, <2>3, <3>1, <4>1
    <3>2. CASE k # f.key
      <4>1. db'.api_keys[k] = db.api_keys[k]
        BY <2>1, <2>2, <3>2, <1>d DEF Database
      <4>. QED  BY <2>2, <2>4, <4>1, <1>g DEF RowsRightful
    <3>. QED  BY <3>1, <3>2
  <2>. QED  BY <2>2, <2>4 DEF RowsRightful
<1>5. CASE f.at = "delete_api_key" /\ db' = RemoveApiKey(db, f.key)
  <2>1. /\ db'.resources = db.resources /\ db'.deployments = db.deployments
        /\ db'.signing_keys = db.signing_keys
        /\ db'.api_keys = [db.api_keys EXCEPT ![f.key] = None]
    BY <1>5, <1>d DEF RemoveApiKey, Database
  <2>2. \A k \in KeyId : db'.api_keys[k] \in {db.api_keys[k], None}
    BY <2>1, <1>d DEF Database
  <2>. QED  BY <2>1, <2>2, <1>g DEF RowsRightful
<1>6. CASE f.at = "get_or_create_signing_key"
             /\ \E kid \in Kid : db' = InsertSigningKey(db, f.rid, kid)
  <2>1. PICK kid \in Kid : db' = InsertSigningKey(db, f.rid, kid)
    BY <1>6
  <2>2. /\ db'.resources = db.resources /\ db'.deployments = db.deployments
        /\ db'.signing_keys = [db.signing_keys EXCEPT ![f.rid] = kid]
        /\ db'.api_keys = db.api_keys
    BY <2>1, <1>d DEF InsertSigningKey, Database
  <2>3. db.resources[f.rid] # None
    <3>1. f.at # None /\ f.op \in DataPlaneOp \cup {"token", "jwks"}
      BY <1>6, <1>f, <1>k, NoneIsNoName
         DEF LocalsSet, CallsOf, StorageCall, Frame, Endpoint, DataPlaneOp
    <3>. QED  BY <3>1, <1>f, NoneIsNoValue DEF Rightful, LocalsSet
  <2>4. \A r \in ResourceId : db'.signing_keys[r] = db.signing_keys[r] \/ r = f.rid
    BY <2>2, <1>d DEF Database
  <2>. QED  BY <2>2, <2>3, <2>4, <1>g DEF RowsRightful
<1>7. CASE f.at = "create_deployment" /\ db' = InsertDeployment(db, f.rid, f.did, f.model)
  <2>1. /\ db'.resources = db.resources /\ db'.signing_keys = db.signing_keys
        /\ db'.deployments = [db.deployments EXCEPT ![f.rid][f.did] = f.model]
        /\ db'.api_keys = db.api_keys
    BY <1>7, <1>d DEF InsertDeployment, Database
  <2>2. db.resources[f.rid] # None
    BY <1>7, <1>f, <1>k, OpOfCall, NoneIsNoValue
       DEF StorageCall, LocalsSet, Rightful, TwinPlaneOp
  <2>3. \A r \in ResourceId, d \in DeploymentId :
          db'.deployments[r][d] = db.deployments[r][d] \/ r = f.rid
    BY <2>1, <1>d DEF Database
  <2>. QED  BY <2>1, <2>2, <2>3, <1>g DEF RowsRightful
<1>8. CASE f.at = "delete_deployment" /\ db' = RemoveDeployment(db, f.rid, f.did)
  <2>1. /\ db'.resources = db.resources /\ db'.signing_keys = db.signing_keys
        /\ db'.deployments = [db.deployments EXCEPT ![f.rid][f.did] = None]
        /\ db'.api_keys = db.api_keys
    BY <1>8, <1>d DEF RemoveDeployment, Database
  <2>2. \A r \in ResourceId, d \in DeploymentId :
          db'.deployments[r][d] \in {db.deployments[r][d], None}
    BY <2>1, <1>d DEF Database
  <2>. QED  BY <2>1, <2>2, <1>g DEF RowsRightful
<1>. QED  BY <1>s, <1>1, <1>2, <1>3, <1>4, <1>5, <1>6, <1>7, <1>8 DEF TableStep

\* A token is sent in the name of the tenant whose key the request presented.
LEMMA StepKeepsTokensRightful ==
  ASSUME TypeOK, FramesOK, KeysReserved, TokensRightful, NEW w \in Worker, Rightful(w), Step(w)
  PROVE  TokensRightful'
<1> DEFINE f == frames[w]
<1>1. OutputStep(w)
  BY StepWrites
<1>2. \A t \in tokens : t.appid \in KeyId
  BY DEF TypeOK, Token
<1>3. ASSUME NEW t \in tokens' \ tokens
      PROVE  /\ t.appid \in KeyId
             /\ generated[t.appid] # None /\ generated[t.appid].by = t.tid
  <2>1. f.op = "token" /\ f.status = "200" /\ t = TokenOf(f) /\ f.at # None
    BY <1>1 DEF OutputStep
  <2>2. f.cred.client_id \in KeyId
    BY <2>1 DEF FramesOK, LocalsSet
  <2>. QED  BY <2>1, <2>2 DEF TokenOf, Rightful
<1>. QED  BY <1>1, <1>2, <1>3 DEF TokensRightful, OutputStep

---------------------------------------------------------------------------
(* The inductive invariant, on top of that of every deployment. *)

\* It holds of an empty database.
LEMMA InitTenancy == Init => Tenancy
BY DEF Init, Tenancy, RowsRightful, TokensRightful, Rightful, EmptyDatabase, Idle

\* No step ends it, if no deletion interferes.
LEMMA NextTenancy ==
  ASSUME ResourcesStay
  PROVE  IInv /\ Tenancy /\ [Next]_vars => Tenancy'
<1> SUFFICES ASSUME IInv, Tenancy, [Next]_vars PROVE Tenancy'
  OBVIOUS
<1>1. CASE Crash
  BY <1>1 DEF Crash, Tenancy, RowsRightful, TokensRightful, Rightful, Idle
<1>2. ASSUME NEW w \in Worker, Step(w)
      PROVE  Tenancy'
  <2>1. Rightful(w)'
    <3>1. CASE StorageFails(w)
      BY <3>1, AnsweredIsRightful DEF StorageFails, IInv
    <3>. QED  BY <1>2, <3>1, TwinPlaneRightful, IdentityRightful, DataPlaneRightful
              DEF Step, Serve, IInv, Tenancy
  <2>2. \A v \in Worker : v # w => Rightful(v)'
    BY <1>2, OthersStayRightful DEF IInv, Tenancy
  <2>3. RowsRightful' /\ TokensRightful'
    BY <1>2, StepKeepsRowsRightful, StepKeepsTokensRightful DEF IInv, Tenancy
  <2>. QED  BY <2>1, <2>2, <2>3 DEF Tenancy
<1>3. CASE UNCHANGED vars
  BY <1>3 DEF vars, Tenancy, RowsRightful, TokensRightful, Rightful
<1>. QED  BY <1>1, <1>2, <1>3 DEF Next, Step

\* So it holds for ever.
LEMMA AlwaysTenancy ==
  ASSUME ResourcesStay
  PROVE  Spec => [](IInv /\ Tenancy)
<1>1. Init => Tenancy
  BY InitTenancy
<1>2. IInv /\ Tenancy /\ [Next]_vars => Tenancy'
  BY NextTenancy
<1>. QED  BY <1>1, <1>2, AlwaysIInv, PTL DEF Spec

\* The keypair, the api keys and the deployments of a resource are there only while
\* the resource is (storage.py:48), for one synchronous worker, and for threads while
\* no resource is deleted.
THEOREM RowsFollowResources ==
  ASSUME ResourcesStay
  PROVE  Spec => []RowsFollowTheirResource
<1>1. IInv /\ Tenancy => RowsFollowTheirResource
  BY DEF Tenancy, RowsRightful, RowsFollowTheirResource, HasChildren, KeysOf, DeploymentsOf
<1>2. Spec => [](IInv /\ Tenancy)
  BY AlwaysTenancy
<1>. QED  BY <1>1, <1>2, PTL

\* The tenant_id that create_api_key denormalises is the owner's.
THEOREM KeysNameOwners ==
  ASSUME ResourcesStay
  PROVE  Spec => []KeysNameTheirOwner
<1>1. IInv /\ Tenancy => KeysNameTheirOwner
  BY DEF Tenancy, RowsRightful, KeysNameTheirOwner, KeysOf
<1>2. Spec => [](IInv /\ Tenancy)
  BY AlwaysTenancy
<1>. QED  BY <1>1, <1>2, PTL

---------------------------------------------------------------------------
(* Tenant isolation. *)

\* A step that accepts a credential is one of the three that check one.
LEMMA WhoAuthenticates ==
  ASSUME TypeOK, FramesOK, NEW w \in Worker, Step(w), Authenticates(w)
  PROVE  CheckClient(w) \/ CheckApiKey(w) \/ CheckBearer(w)
<1> DEFINE f == frames[w]
<1>1. f.at \in {"get_api_key_by_hash", "get_signing_key"} /\ f.at # None
  BY NoneIsNoName DEF Authenticates, StorageCall
<1>2. ~TwinPlaneNext(w)
  BY <1>1 DEF TwinPlaneNext, BeginCreateResource, CreateResource, RereadResource,
       BeginDeleteResource, DeleteResource, BeginCreateApiKey, LookUpTenant, CreateApiKey,
       BeginDeleteApiKey, FindApiKey, DeleteApiKey, BeginCreateDeployment,
       BeginDeleteDeployment, LookUpDeployment, CreateDeployment, DeleteDeployment,
       LogTwinPlane, IsIdle
<1>3. IdentityNext(w) => CheckClient(w)
  BY <1>1 DEF IdentityNext, BeginToken, SignToken, LogToken, BeginWellKnown, PublishKey,
       LogWellKnown, IsIdle
<1>4. DataPlaneNext(w) => CheckApiKey(w) \/ CheckBearer(w)
  BY <1>1 DEF DataPlaneNext, BeginInference, EnsureKeypair, LogAuthentication,
       ResolveDeployment, PersistRequest, LogInference, IsIdle
<1>5. ~StorageFails(w)
  <2>1. StorageFails(w) => frames'[w].at = None
    BY DEF StorageFails, Respond, TypeOK, Idle
  <2>. QED  BY <2>1, NoneIsNoName DEF Authenticates, StorageCall
<1>. QED  BY <1>2, <1>3, <1>4, <1>5 DEF Step, Serve

\* An accepted credential rests on a key that the owner created.
LEMMA AcceptedForOwner ==
  ASSUME TypeOK, FramesOK, Tenancy, NEW w \in Worker, Step(w), Authenticates(w)
  PROVE  /\ frames[w].owner = db.resources[frames[w].rid]
         /\ generated[CredentialKey(frames[w].cred)].by = frames[w].owner
<1> DEFINE f == frames[w]
<1>f. f \in Frame /\ LocalsSet(f) /\ f.at # None
  BY NoneIsNoName DEF TypeOK, FramesOK, Authenticates, StorageCall
<1>1. Rightful(w)
  BY DEF Tenancy
<1>2. f.op \in DataPlaneOp \cup {"token"}
  BY <1>f, WhoAuthenticates, OpOfCall DEF CheckClient, CheckApiKey, CheckBearer
<1>3. f.owner = db.resources[f.rid]
  BY <1>1, <1>2, <1>f DEF Rightful
<1>4. \A k \in KeysOf(db, f.rid) : generated[k].by = f.owner
  BY <1>3 DEF Tenancy, RowsRightful, KeysOf
<1>s. frames'[w].at # "append_log" /\ frames'[w].status = None /\ None # "401"
  BY NoneIsNoName DEF Authenticates, Status
<1>5. CASE CheckClient(w)
  <2>1. f.op = "token"
    BY <1>5 DEF CheckClient
  <2>2. f.cred.kind = "client"
    BY <1>f, <2>1 DEF LocalsSet
  <2>3. \/ f.cred.secret \in KeysOf(db, f.rid)
        \/ Continue(w, [f EXCEPT !.at = "append_log", !.status = "401"])
    BY <1>5 DEF CheckClient
  <2>4. ~Continue(w, [f EXCEPT !.at = "append_log", !.status = "401"])
    BY <1>s, <1>f DEF Continue, TypeOK, Frame
  <2>. QED  BY <1>3, <1>4, <2>2, <2>3, <2>4 DEF CredentialKey
<1>n. ~Refuse(w, f)
  BY <1>s, <1>f DEF Refuse, Continue, TypeOK, Frame
<1>6. CASE CheckApiKey(w)
  <2>1. f.op \in DataPlaneOp /\ f.at = "get_api_key_by_hash"
    BY <1>6 DEF CheckApiKey
  <2>2. f.cred.kind = "api-key"
    BY <1>1, <1>f, <2>1 DEF Rightful
  <2>3. f.cred.key \in KeysOf(db, f.rid)
    BY <1>6, <1>n DEF CheckApiKey
  <2>. QED  BY <1>3, <1>4, <2>2, <2>3 DEF CredentialKey
<1>7. CASE CheckBearer(w)
  <2>1. f.at = "get_signing_key"
    BY <1>7 DEF CheckBearer
  <2>2. f.cred.kind = "bearer" /\ f.cred.token \in tokens
    BY <1>1, <1>f, <2>1 DEF Rightful
  <2>3. f.cred.token.tid = f.owner
    BY <1>7, <1>n DEF CheckBearer
  <2>4. generated[f.cred.token.appid].by = f.owner
    BY <2>2, <2>3 DEF Tenancy, TokensRightful
  <2>. QED  BY <1>3, <2>2, <2>4 DEF CredentialKey
<1>. QED  BY <1>5, <1>6, <1>7, WhoAuthenticates

\* A worker that accepts a credential is the one that takes the step.
LEMMA OnlyTheStepAuthenticates ==
  ASSUME TypeOK, FramesOK, KeysReserved, NEW w \in Worker, Authenticates(w), Next
  PROVE  Step(w)
<1>1. ~Crash
  BY NoneIsNoName DEF Crash, Authenticates, Idle, StorageCall
<1>2. ASSUME NEW v \in Worker, v # w, Step(v)
      PROVE  FALSE
  <2>1. frames'[w] = frames[w]
    BY <1>2, StepOK DEF Effect, TypeOK
  <2>. QED  BY <2>1 DEF Authenticates
<1>. QED  BY <1>1, <1>2 DEF Next, Step

\* Whoever is let in, by key or by token, holds a credential of the tenant that owns
\* the resource at that moment (auth.py:12), for one synchronous worker, and for
\* threads while no resource is deleted.
THEOREM OnlyOwnersAuthenticate ==
  ASSUME ResourcesStay
  PROVE  Spec => AuthenticatedForOwner
<1>1. IInv /\ Tenancy /\ [Next]_vars =>
        [ \A w \in Worker : Authenticates(w) =>
            /\ frames[w].owner = db.resources[frames[w].rid]
            /\ generated[CredentialKey(frames[w].cred)].by = frames[w].owner ]_vars
  BY OnlyTheStepAuthenticates, AcceptedForOwner DEF IInv
<1>2. Spec => [](IInv /\ Tenancy)
  BY AlwaysTenancy
<1>. QED  BY <1>1, <1>2, PTL DEF Spec, AuthenticatedForOwner

\* Of the rows a step may append, only persist_request's is a history row.
LEMMA WhoAppendsRequests ==
  ASSUME NEW w \in Worker, Step(w), appended' \in RequestRow
  PROVE  PersistRequest(w)
<1>1. None \notin RequestRow
  BY NoneIsNoOutput
<1>2. \A f, operation, outcome : Log(f, operation, outcome) => appended' \notin RequestRow
  <2>1. \A t, o, r, c : [tenant_id |-> t, operation |-> o, resource_id |-> r, outcome |-> c]
                          \notin RequestRow
    BY DEF RequestRow
  <2>. QED  BY <2>1 DEF Log
<1>3. ~TwinPlaneNext(w)
  BY <1>1, <1>2 DEF TwinPlaneNext, BeginCreateResource, CreateResource, RereadResource,
       BeginDeleteResource, DeleteResource, BeginCreateApiKey, LookUpTenant, CreateApiKey,
       BeginDeleteApiKey, FindApiKey, DeleteApiKey, BeginCreateDeployment,
       BeginDeleteDeployment, LookUpDeployment, CreateDeployment, DeleteDeployment,
       LogTwinPlane, OnlyReads, NothingAppended
<1>4. ~IdentityNext(w)
  BY <1>1, <1>2 DEF IdentityNext, BeginToken, CheckClient, SignToken, LogToken,
       BeginWellKnown, PublishKey, LogWellKnown, NothingAppended
<1>5. DataPlaneNext(w) => PersistRequest(w)
  BY <1>1, <1>2 DEF DataPlaneNext, BeginInference, EnsureKeypair, CheckApiKey, CheckBearer,
       LogAuthentication, ResolveDeployment, LogInference, NothingAppended
<1>6. ~StorageFails(w)
  BY <1>1 DEF StorageFails, NothingAppended
<1>. QED  BY <1>3, <1>4, <1>5, <1>6 DEF Step, Serve

\* A rightful request that writes has the right to.
LEMMA WriterHasRight ==
  ASSUME TypeOK, FramesOK, KeysReserved, NEW w \in Worker, Rightful(w), Step(w),
         db' # db \/ appended' \in RequestRow
  PROVE  \/ frames[w].op = "create_resource" /\ db.resources[frames[w].rid] = None
         \/ frames[w].op = "jwks" /\ db.resources[frames[w].rid] # None
         \/ Actor(frames[w]) = db.resources[frames[w].rid]
<1> DEFINE f == frames[w]
<1>f. f \in Frame /\ LocalsSet(f)
  BY DEF TypeOK, FramesOK
<1>k. \A at \in StorageCall : at # None
  BY NoneIsNoName
<1>1. CASE appended' \in RequestRow
  <2>1. f.op \in DataPlaneOp /\ f.at # None
    BY <1>1, <1>f, <1>k, WhoAppendsRequests, OpOfCall DEF PersistRequest, StorageCall
  <2>. QED  BY <2>1 DEF Rightful, Actor
<1>2. CASE db' # db
  <2>1. \/ f.at = "create_resource" /\ db.resources[f.rid] = None
        \/ f.at \in {"delete_resource", "create_api_key", "delete_api_key",
                     "get_or_create_signing_key", "create_deployment", "delete_deployment"}
    BY <1>2, StepWrites DEF TableStep
  <2>2. f.at # None
    BY <2>1, <1>k DEF StorageCall
  <2>3. CASE f.at = "create_resource"
    BY <2>1, <2>3, <1>f, OpOfCall
  <2>4. CASE f.at = "get_or_create_signing_key"
    <3>1. f.op \in DataPlaneOp \cup {"token", "jwks"}
      BY <2>4, <1>f, NoneIsNoName
         DEF LocalsSet, CallsOf, StorageCall, Frame, Endpoint, DataPlaneOp
    <3>. QED  BY <2>2, <3>1 DEF Rightful, Actor
  <2>5. CASE f.at \in {"delete_resource", "create_api_key", "delete_api_key",
                       "create_deployment", "delete_deployment"}
    <3>1. f.op \in TwinPlaneOp \ {"create_resource"}
      BY <2>5, <1>f, OpOfCall DEF TwinPlaneOp
    <3>2. f.by \in TenantId /\ f.by # None
      BY <3>1, <1>f, NoneIsNoValue DEF LocalsSet
    <3>3. f.by = db.resources[f.rid]
      BY <2>2, <2>5, <3>1 DEF Rightful
    <3>. QED  BY <3>2, <3>3 DEF Actor
  <2>. QED  BY <2>1, <2>3, <2>4, <2>5
<1>. QED  BY <1>1, <1>2

\* A request writes to a resource only in the name of the tenant that owns it then
\* (twin_plane/routes.py:10), for one synchronous worker, and for threads while no
\* resource is deleted.
THEOREM OnlyOwnersWrite ==
  ASSUME ResourcesStay
  PROVE  Spec => WritesForOwner
<1> DEFINE HasRight(w) ==
      LET f == frames[w] IN
      frames'[w] # f /\ (db' # db \/ appended' \in RequestRow) =>
        \/ f.op = "create_resource" /\ db.resources[f.rid] = None
        \/ f.op = "jwks" /\ db.resources[f.rid] # None
        \/ Actor(f) = db.resources[f.rid]
<1>1. ASSUME IInv, Tenancy, Next, NEW w \in Worker
      PROVE  HasRight(w)
  <2>1. CASE Crash
    BY <2>1, NoneIsNoOutput DEF Crash, NothingAppended
  <2>2. ASSUME NEW v \in Worker, v # w, Step(v)
        PROVE  frames'[w] = frames[w]
    BY <1>1, <2>2, StepOK DEF IInv, Effect, TypeOK
  <2>3. CASE Step(w)
    BY <1>1, <2>3, WriterHasRight DEF IInv, Tenancy
  <2>. QED  BY <1>1, <2>1, <2>2, <2>3 DEF Next, Step
<1>2. IInv /\ Tenancy /\ [Next]_vars => [\A w \in Worker : HasRight(w)]_vars
  BY <1>1
<1>3. Spec => [](IInv /\ Tenancy)
  BY AlwaysTenancy
<1>. QED  BY <1>2, <1>3, PTL DEF Spec, WritesForOwner

---------------------------------------------------------------------------
(* Acknowledged writes. *)

\* A request that is about to log has done what its response will say.
Recorded == \A w \in Worker : frames[w].at = "append_log" => WriteHolds(frames[w])

\* The steps of the Twin Plane after which only the log row is missing.
LEMMA WhoIsAboutToLog ==
  ASSUME TypeOK, FramesOK, NEW w \in Worker, TwinPlaneNext(w), frames'[w].at = "append_log"
  PROVE  \/ RereadResource(w) \/ DeleteResource(w) \/ CreateApiKey(w) \/ DeleteApiKey(w)
         \/ CreateDeployment(w) \/ DeleteDeployment(w)
<1> DEFINE f == frames[w]
<1>1. ASSUME NEW g, NEW s, Respond(w, g, s) PROVE FALSE
  BY <1>1, NoneIsNoName DEF Respond, TypeOK, Idle, StorageCall
<1>2. ASSUME NEW g, NEW call, call # "append_log", frames'[w] = [g EXCEPT !.at = call],
             g \in Frame
      PROVE  FALSE
  BY <1>2 DEF Frame
<1>3. ASSUME NEW g \in Frame, NEW call, call # "append_log", EnsureTenantOwnsResource(w, g, call)
      PROVE  FALSE
  BY <1>1, <1>2, <1>3 DEF EnsureTenantOwnsResource, Continue, TypeOK
<1>4. ~BeginCreateResource(w)
  <2>1. ASSUME NEW t \in TenantId, NEW r \in ResourceId
        PROVE  NewFrame("create_resource", t, r) \in Frame
    BY NewFrameOK DEF TwinPlaneOp
  <2>. QED  BY <1>1, <1>2, <2>1 DEF BeginCreateResource, Continue, TypeOK
<1>5. ~CreateResource(w)
  BY <1>1, <1>2 DEF CreateResource, Continue, TypeOK
<1>6. ~BeginDeleteResource(w)
  <2>1. ASSUME NEW t \in TenantId, NEW r \in ResourceId
        PROVE  NewFrame("delete_resource", t, r) \in Frame
    BY NewFrameOK DEF TwinPlaneOp
  <2>. QED  BY <1>3, <2>1 DEF BeginDeleteResource
<1>7. ~BeginCreateApiKey(w) /\ ~BeginDeleteApiKey(w)
  <2>1. ASSUME NEW op \in {"create_api_key", "delete_api_key"},
               NEW t \in TenantId, NEW r \in ResourceId, NEW k \in KeyId
        PROVE  [NewFrame(op, t, r) EXCEPT !.key = k] \in Frame
    BY NewFrameOK DEF TwinPlaneOp, Frame
  <2>. QED  BY <1>3, <2>1 DEF BeginCreateApiKey, BeginDeleteApiKey
<1>8. ~LookUpTenant(w) /\ ~FindApiKey(w) /\ ~LookUpDeployment(w)
  <2>1. ~LookUpTenant(w)
    BY DEF LookUpTenant, Continue, TypeOK, Frame
  <2>. QED  BY <1>1, <1>2, <2>1 DEF FindApiKey, LookUpDeployment, Continue, TypeOK
<1>9. ~BeginCreateDeployment(w)
  <2>1. ASSUME NEW t \in TenantId, NEW r \in ResourceId, NEW d \in DeploymentId,
               NEW m \in Model \cup {None}
        PROVE  [NewFrame("create_deployment", t, r) EXCEPT !.did = d, !.model = m] \in Frame
    <3>1. NewFrame("create_deployment", t, r) \in Frame
      BY NewFrameOK DEF TwinPlaneOp
    <3>2. ASSUME NEW n \in Frame
          PROVE  [n EXCEPT !.did = d, !.model = m] \in Frame
      BY DEF Frame
    <3>. QED  BY <3>1, <3>2
  <2>2. SUFFICES ASSUME BeginCreateDeployment(w) PROVE FALSE
    OBVIOUS
  <2>3. PICK t \in TenantId, r \in ResourceId, d \in DeploymentId, m \in Model \cup {None} :
          LET n == [NewFrame("create_deployment", t, r) EXCEPT !.did = d, !.model = m]
          IN  \/ Respond(w, n, "400")
              \/ EnsureTenantOwnsResource(w, n, "get_deployment")
    BY <2>2 DEF BeginCreateDeployment
  <2>. QED  BY <1>1, <1>3, <2>1, <2>3
<1>10. ~BeginDeleteDeployment(w)
  <2>1. ASSUME NEW t \in TenantId, NEW r \in ResourceId, NEW d \in DeploymentId
        PROVE  [NewFrame("delete_deployment", t, r) EXCEPT !.did = d] \in Frame
    BY NewFrameOK DEF TwinPlaneOp, Frame
  <2>. QED  BY <1>3, <2>1 DEF BeginDeleteDeployment
<1>11. ~LogTwinPlane(w)
  BY <1>1 DEF LogTwinPlane
<1>. QED  BY <1>4, <1>5, <1>6, <1>7, <1>8, <1>9, <1>10, <1>11 DEF TwinPlaneNext

\* The request that takes the step: the row it wrote or removed is as it says.
LEMMA StepRecords ==
  ASSUME TypeOK, FramesOK, TypeOK', FramesOK', NEW w \in Worker, Rightful(w), Rightful(w)',
         Step(w), frames'[w].at = "append_log"
  PROVE  WriteHolds(frames[w])'
<1> DEFINE f == frames[w]
           g == frames'[w]
<1>f. f \in Frame /\ LocalsSet(f) /\ (f.at # None => f.rid \in ResourceId)
  BY OpOfCall DEF TypeOK, FramesOK
<1>g. g \in Frame /\ LocalsSet(g) /\ g.at # None /\ g.op # None
  <2>1. g \in Frame /\ LocalsSet(g)
    BY DEF TypeOK, FramesOK
  <2>. QED  BY <2>1, NoneIsNoName
            DEF LocalsSet, CallsOf, StorageCall, Endpoint, DataPlaneOp
<1>k. \A at \in StorageCall : at # None
  BY NoneIsNoName
<1>d. db \in Database
  BY DEF TypeOK
<1>1. CASE g.op = "create_resource"
  BY <1>1, <1>g DEF Rightful, WriteHolds
<1>2. CASE g.op \in DataPlaneOp \cup {"token", "jwks", "openid_configuration"}
  <2>1. db'.resources[g.rid] # None
    BY <1>2, <1>g, NoneIsNoValue DEF Rightful, LocalsSet
  <2>. QED  BY <1>2, <2>1 DEF WriteHolds, DataPlaneOp
<1>3. CASE DeleteResource(w)
  <2>1. f.op = "delete_resource" /\ f.rid \in ResourceId
    BY <1>3, <1>f, <1>k, OpOfCall DEF DeleteResource, StorageCall
  <2>2. g.op = f.op /\ g.rid = f.rid
    BY <1>3, <1>f DEF DeleteResource, Continue, TypeOK, Frame
  <2>3. db' = RemoveResource(db, f.rid)
    BY <1>3 DEF DeleteResource
  <2>4. /\ db'.resources = [db.resources EXCEPT ![f.rid] = None]
        /\ db'.signing_keys = [db.signing_keys EXCEPT ![f.rid] = None]
        /\ db'.deployments = [db.deployments EXCEPT ![f.rid] = [d \in DeploymentId |-> None]]
        /\ db'.api_keys =
             [k \in KeyId |-> IF k \in KeysOf(db, f.rid) THEN None ELSE db.api_keys[k]]
    BY <2>1, <2>3, <1>d, RemoveResourceEffect
  <2>5. db'.resources[f.rid] = None /\ ~HasChildren(db', f.rid)
    BY <2>1, <2>4, <1>d DEF Database, HasChildren, KeysOf, DeploymentsOf
  <2>. QED  BY <2>1, <2>2, <2>5 DEF WriteHolds
<1>4. CASE CreateApiKey(w)
  <2>1. f.op = "create_api_key" /\ f.at = "create_api_key" /\ f.key \in KeyId
    BY <1>4, <1>f, OpOfCall DEF CreateApiKey, LocalsSet
  <2>2. f.owner = f.by
    BY <2>1, <1>k DEF Rightful, StorageCall
  <2>3. g.op = f.op /\ g.rid = f.rid /\ g.key = f.key /\ g.by = f.by
    BY <1>4, <1>f DEF CreateApiKey, Continue, TypeOK, Frame
  <2>4. db'.api_keys[f.key] = [resource_id |-> f.rid, tenant_id |-> f.by]
    BY <1>4, <2>1, <2>2, <1>d DEF CreateApiKey, InsertApiKey, Database
  <2>5. db'.api_keys[f.key] # None
    <3>1. f.rid \in ResourceId /\ f.by \in TenantId
      BY <1>f, <1>k, <2>1 DEF StorageCall, LocalsSet, TwinPlaneOp
    <3>2. [resource_id |-> f.rid, tenant_id |-> f.by] \in ApiKeyRow
      BY <3>1 DEF ApiKeyRow
    <3>. QED  BY <2>4, <3>2, NoneIsNoValue
  <2>. QED  BY <2>1, <2>3, <2>4, <2>5 DEF WriteHolds, KeysOf
<1>5. CASE DeleteApiKey(w)
  <2>1. f.op = "delete_api_key" /\ f.key \in KeyId
    BY <1>5, <1>f, OpOfCall DEF DeleteApiKey, LocalsSet
  <2>2. g.op = f.op /\ g.key = f.key
    BY <1>5, <1>f DEF DeleteApiKey, Continue, TypeOK, Frame
  <2>3. db'.api_keys[f.key] = None
    BY <1>5, <2>1, <1>d DEF DeleteApiKey, RemoveApiKey, Database
  <2>. QED  BY <2>1, <2>2, <2>3 DEF WriteHolds
<1>6. CASE CreateDeployment(w)
  <2>1. f.op = "create_deployment" /\ f.did \in DeploymentId /\ f.rid \in ResourceId
    BY <1>6, <1>f, <1>k, OpOfCall DEF CreateDeployment, StorageCall, LocalsSet
  <2>2. ~Respond(w, f, "500")
    BY <1>g DEF Respond, TypeOK, Idle
  <2>3. /\ Continue(w, [f EXCEPT !.at = "append_log", !.status = "201"])
        /\ db' = InsertDeployment(db, f.rid, f.did, f.model)
    BY <1>6, <2>2 DEF CreateDeployment
  <2>4. g.op = f.op /\ g.rid = f.rid /\ g.did = f.did /\ g.model = f.model
    BY <2>3, <1>f DEF Continue, TypeOK, Frame
  <2>5. db'.deployments[f.rid][f.did] = f.model
    BY <2>1, <2>3, <1>d DEF InsertDeployment, Database
  <2>. QED  BY <2>1, <2>4, <2>5 DEF WriteHolds
<1>7. CASE DeleteDeployment(w)
  <2>1. f.op = "delete_deployment" /\ f.did \in DeploymentId /\ f.rid \in ResourceId
    BY <1>7, <1>f, <1>k, OpOfCall DEF DeleteDeployment, StorageCall, LocalsSet
  <2>2. g.op = f.op /\ g.rid = f.rid /\ g.did = f.did
    BY <1>7, <1>f DEF DeleteDeployment, Continue, TypeOK, Frame
  <2>3. db'.deployments[f.rid][f.did] = None
    BY <1>7, <2>1, <1>d DEF DeleteDeployment, RemoveDeployment, Database
  <2>. QED  BY <2>1, <2>2, <2>3 DEF WriteHolds
<1>8. CASE RereadResource(w)
  <2>1. f.op = "create_resource"
    BY <1>8, <1>f, OpOfCall DEF RereadResource
  <2>2. g.op = f.op
    BY <1>8, <1>f DEF RereadResource, Continue, TypeOK, Frame
  <2>. QED  BY <1>1, <2>1, <2>2
<1>r. ASSUME NEW x, NEW s, Respond(w, x, s) PROVE FALSE
  BY <1>r, <1>g DEF Respond, TypeOK, Idle
<1>c. ASSUME NEW h, Continue(w, h) PROVE g = h
  BY <1>c DEF Continue, TypeOK
<1>9. IdentityNext(w) => g.op \in {"token", "jwks", "openid_configuration"}
  <2>1. CASE BeginToken(w)
    <3>1. PICK r \in ResourceId, c \in ClientCredentials :
            LET n == [Idle EXCEPT !.op = "token", !.rid = r, !.owner = db.resources[r], !.cred = c]
            IN  \/ g = [n EXCEPT !.at = "append_log", !.status = "400"]
                \/ g = [n EXCEPT !.at = "get_api_key_by_hash"]
      BY <2>1, <1>r, <1>c DEF BeginToken
    <3>. QED  BY <3>1 DEF Idle
  <2>2. CASE BeginWellKnown(w)
    <3>1. PICK op \in {"jwks", "openid_configuration"}, r \in ResourceId :
            LET n == [Idle EXCEPT !.op = op, !.rid = r]
            IN  \/ g = [n EXCEPT !.at = "get_or_create_signing_key"]
                \/ g = [n EXCEPT !.at = "append_log", !.status = "200"]
      BY <2>2, <1>r, <1>c DEF BeginWellKnown
    <3>. QED  BY <3>1 DEF Idle
  <2>3. CASE CheckClient(w)
    BY <2>3, <1>f DEF CheckClient, Continue, TypeOK, Frame
  <2>4. CASE SignToken(w)
    BY <2>4, <1>f DEF SignToken, Continue, TypeOK, Frame
  <2>5. CASE PublishKey(w)
    BY <2>5, <1>f DEF PublishKey, Continue, TypeOK, Frame
  <2>6. CASE LogToken(w) \/ LogWellKnown(w)
    BY <2>6, <1>g DEF LogToken, LogWellKnown, Respond, TypeOK, Idle
  <2>. QED  BY <2>1, <2>2, <2>3, <2>4, <2>5, <2>6 DEF IdentityNext
<1>10. DataPlaneNext(w) => g.op \in DataPlaneOp
  <2>1. CASE BeginInference(w)
    <3>1. PICK op \in Op \cap DataPlaneOp, r \in ResourceId, d \in DeploymentId,
               c \in DataCredentials :
            LET n == [Idle EXCEPT !.op = op, !.rid = r, !.did = d, !.cred = c,
                                  !.owner = db.resources[r]]
            IN  \/ Respond(w, n, "404")
                \/ Continue(w, [n EXCEPT !.at = "get_or_create_signing_key"])
      BY <2>1 DEF BeginInference
    <3>2. g = [[Idle EXCEPT !.op = op, !.rid = r, !.did = d, !.cred = c,
                            !.owner = db.resources[r]]
                 EXCEPT !.at = "get_or_create_signing_key"]
      BY <3>1, <1>r, <1>c
    <3>. QED  BY <3>2 DEF Idle
  <2>2. CASE EnsureKeypair(w)
    <3>1. \E h \in { [f EXCEPT !.at = "get_api_key_by_hash"], [f EXCEPT !.at = "get_signing_key"],
                     [f EXCEPT !.at = "append_auth_log", !.cred = None, !.status = "401"] } :
            Continue(w, h)
      BY <2>2 DEF EnsureKeypair, Refuse
    <3>. QED  BY <2>2, <3>1, <1>f DEF EnsureKeypair, Continue, TypeOK, Frame
  <2>3. CASE CheckApiKey(w) \/ CheckBearer(w)
    <3>1. f.op \in DataPlaneOp
      BY <2>3, <1>f, OpOfCall DEF CheckApiKey, CheckBearer
    <3>. QED  BY <2>3, <3>1, <1>f DEF CheckApiKey, CheckBearer, Accept, Refuse, Continue, TypeOK, Frame
  <2>4. CASE LogAuthentication(w)
    <3>1. f.op \in DataPlaneOp
      BY <2>4, <1>f, OpOfCall DEF LogAuthentication
    <3>2. g = [f EXCEPT !.at = "get_deployment"]
      BY <2>4, <1>r, <1>c DEF LogAuthentication
    <3>. QED  BY <3>1, <3>2, <1>f DEF Frame
  <2>5. CASE ResolveDeployment(w)
    <3>1. g = [f EXCEPT !.at = "create_request", !.model = db.deployments[f.rid][f.did]]
      BY <2>5, <1>r, <1>c DEF ResolveDeployment
    <3>. QED  BY <2>5, <3>1, <1>f DEF ResolveDeployment, Frame
  <2>6. CASE PersistRequest(w)
    <3>1. f.op \in DataPlaneOp
      BY <2>6, <1>f, OpOfCall DEF PersistRequest
    <3>. QED  BY <2>6, <3>1, <1>f DEF PersistRequest, Continue, TypeOK, Frame
  <2>7. CASE LogInference(w)
    BY <2>7, <1>g DEF LogInference, Respond, TypeOK, Idle
  <2>. QED  BY <2>1, <2>2, <2>3, <2>4, <2>5, <2>6, <2>7 DEF DataPlaneNext
<1>11. ~StorageFails(w)
  BY <1>g DEF StorageFails, Respond, TypeOK, Idle
<1>. QED
  BY <1>2, <1>3, <1>4, <1>5, <1>6, <1>7, <1>8, <1>9, <1>10, <1>11, WhoIsAboutToLog
     DEF Step, Serve

\* What a step leaves of every table when nothing is deleted: all that is there.
AllRowsKept ==
  /\ ResourcesKept
  /\ \A k \in KeyId : db.api_keys[k] # None => db'.api_keys[k] = db.api_keys[k]
  /\ \A r \in ResourceId, d \in DeploymentId :
       db.deployments[r][d] # None => db'.deployments[r][d] = db.deployments[r][d]

\* A statement that deletes nothing keeps every row.
LEMMA OnlyDeletionsRemove ==
  ASSUME TypeOK, FramesOK, KeysReserved, NEW w \in Worker, TableStep(w),
         frames[w].at \notin {"delete_resource", "delete_api_key", "delete_deployment"}
  PROVE  AllRowsKept
<1> DEFINE f == frames[w]
<1>f. f \in Frame /\ LocalsSet(f)
  BY DEF TypeOK, FramesOK
<1>1. CASE db' = db
  BY <1>1 DEF AllRowsKept, ResourcesKept
<1>2. CASE f.at = "create_resource" /\ db.resources[f.rid] = None
             /\ db' = InsertResource(db, f.rid, f.by)
  BY <1>2 DEF InsertResource, TypeOK, Database, AllRowsKept, ResourcesKept
<1>3. CASE f.at = "create_api_key" /\ db' = InsertApiKey(db, f.key, f.rid, f.owner)
  <2>1. f.op = "create_api_key"
    BY <1>3, <1>f, OpOfCall
  <2>2. db.api_keys[f.key] = None
    BY <1>3, <2>1 DEF KeysReserved
  <2>. QED  BY <1>3, <2>2 DEF InsertApiKey, TypeOK, Database, AllRowsKept, ResourcesKept
<1>4. CASE \E kid \in Kid : db' = InsertSigningKey(db, f.rid, kid)
  BY <1>4 DEF InsertSigningKey, TypeOK, Database, AllRowsKept, ResourcesKept
<1>5. CASE /\ f.at = "create_deployment" /\ f.did \notin DeploymentsOf(db, f.rid)
           /\ db' = InsertDeployment(db, f.rid, f.did, f.model)
  <2>1. f.did \in DeploymentId
    BY <1>5, <1>f, OpOfCall DEF LocalsSet
  <2>. QED  BY <1>5, <2>1 DEF InsertDeployment, DeploymentsOf, TypeOK, Database,
                 AllRowsKept, ResourcesKept
<1>. QED  BY <1>1, <1>2, <1>3, <1>4, <1>5 DEF TableStep

\* The requests of other workers: what they have written stays written.
LEMMA OthersStayRecorded ==
  ASSUME RowsStay, TypeOK, FramesOK, KeysReserved, NEW w \in Worker, NEW v \in Worker,
         v # w, Rightful(v), Rightful(w), Step(w),
         frames[v].at = "append_log", WriteHolds(frames[v])
  PROVE  WriteHolds(frames[v])'
<1> DEFINE f == frames[v]
<1>f. /\ f \in Frame /\ LocalsSet(f) /\ frames[w] \in Frame /\ LocalsSet(frames[w])
      /\ f.at # None /\ f.rid \in ResourceId
  BY OpOfCall, NoneIsNoName DEF TypeOK, FramesOK, StorageCall
<1>1. frames'[v] = f
  BY StepOK DEF Effect, TypeOK
<1>2. Op \cap {"delete_resource", "delete_api_key", "delete_deployment"} = {}
  BY DEF RowsStay, OneWorker
<1>3. frames[w].at \notin {"delete_resource", "delete_api_key", "delete_deployment"}
  BY <1>2, <1>f, OpOfCall, NoneIsNoName DEF Rightful, StorageCall
<1>4. AllRowsKept
  BY <1>3, StepWrites, OnlyDeletionsRemove
<1>5. f.op \in Op /\ f.op \notin {"delete_resource", "delete_api_key", "delete_deployment"}
  BY <1>2, <1>f DEF Rightful
<1>6. CASE f.op = "create_resource"
  <2>1. f.by # None
    BY <1>6, <1>f, NoneIsNoValue DEF LocalsSet, TwinPlaneOp
  <2>. QED  BY <1>1, <1>4, <1>6, <1>f, <2>1 DEF WriteHolds, AllRowsKept, ResourcesKept
<1>7. CASE f.op = "create_api_key"
  BY <1>1, <1>4, <1>7 DEF WriteHolds, AllRowsKept, KeysOf
<1>8. CASE f.op = "create_deployment"
  <2>1. f.did \in DeploymentId /\ f.model # None
    BY <1>8, <1>f, NoneIsNoValue DEF LocalsSet
  <2>. QED  BY <1>1, <1>4, <1>8, <1>f, <2>1 DEF WriteHolds, AllRowsKept
<1>9. CASE f.op \notin {"create_resource", "create_api_key", "create_deployment"}
  <2>1. db.resources[f.rid] # None
    BY <1>5, <1>9 DEF WriteHolds
  <2>2. db'.resources[f.rid] # None
    BY <1>4, <1>f, <2>1 DEF AllRowsKept, ResourcesKept
  <2>. QED  BY <1>1, <1>5, <1>9, <2>2 DEF WriteHolds
<1>. QED  BY <1>6, <1>7, <1>8, <1>9

\* A success is the answer of a request that has logged, in a step that writes no row.
LEMMA WhoSucceeds ==
  ASSUME TypeOK, FramesOK, NEW w \in Worker, Step(w), reply' # None,
         reply'.status \in {"200", "201"}
  PROVE  /\ reply'.frame = frames[w] /\ frames[w].at = "append_log"
         /\ db' = db
<1>1. ASSUME NEW h, Continue(w, h) PROVE FALSE
  BY <1>1 DEF Continue
<1>2. ASSUME NEW h, NEW s \in {"400", "401", "404", "409", "500"}, Respond(w, h, s) PROVE FALSE
  BY <1>2 DEF Respond
<1>3. ASSUME NEW h, NEW call, EnsureTenantOwnsResource(w, h, call) PROVE FALSE
  BY <1>1, <1>2, <1>3 DEF EnsureTenantOwnsResource
<1>4. TwinPlaneNext(w) => LogTwinPlane(w)
  <2>1. ~BeginCreateResource(w)
    BY <1>1, <1>2 DEF BeginCreateResource
  <2>2. ~CreateResource(w) /\ ~RereadResource(w) /\ ~DeleteResource(w) /\ ~LookUpTenant(w)
        /\ ~CreateApiKey(w) /\ ~FindApiKey(w) /\ ~DeleteApiKey(w) /\ ~LookUpDeployment(w)
        /\ ~CreateDeployment(w) /\ ~DeleteDeployment(w)
    BY <1>1, <1>2 DEF CreateResource, RereadResource, DeleteResource, LookUpTenant,
         CreateApiKey, FindApiKey, DeleteApiKey, LookUpDeployment, CreateDeployment,
         DeleteDeployment
  <2>3. ~BeginDeleteResource(w) /\ ~BeginCreateApiKey(w) /\ ~BeginDeleteApiKey(w)
        /\ ~BeginDeleteDeployment(w)
    BY <1>3 DEF BeginDeleteResource, BeginCreateApiKey, BeginDeleteApiKey,
         BeginDeleteDeployment
  <2>4. ~BeginCreateDeployment(w)
    <3>1. SUFFICES ASSUME BeginCreateDeployment(w) PROVE FALSE
      OBVIOUS
    <3>2. PICK t \in TenantId, r \in ResourceId, d \in DeploymentId, m \in Model \cup {None} :
            LET n == [NewFrame("create_deployment", t, r) EXCEPT !.did = d, !.model = m]
            IN  \/ Respond(w, n, "400")
                \/ EnsureTenantOwnsResource(w, n, "get_deployment")
      BY <3>1 DEF BeginCreateDeployment
    <3>. QED  BY <1>2, <1>3, <3>2
  <2>. QED  BY <2>1, <2>2, <2>3, <2>4 DEF TwinPlaneNext
<1>5. IdentityNext(w) => LogToken(w) \/ LogWellKnown(w)
  BY <1>1, <1>2 DEF IdentityNext, BeginToken, CheckClient, SignToken, BeginWellKnown, PublishKey
<1>6. DataPlaneNext(w) => LogInference(w)
  BY <1>1, <1>2 DEF DataPlaneNext, BeginInference, EnsureKeypair, CheckApiKey, CheckBearer,
       Accept, Refuse, LogAuthentication, ResolveDeployment, PersistRequest
<1>7. ~StorageFails(w)
  BY <1>2 DEF StorageFails
<1>8. LogTwinPlane(w) \/ LogToken(w) \/ LogWellKnown(w) \/ LogInference(w)
  BY <1>4, <1>5, <1>6, <1>7 DEF Step, Serve
<1>9. /\ frames[w].at = "append_log" /\ db' = db
      /\ \E s : Respond(w, frames[w], s)
  BY <1>8 DEF LogTwinPlane, LogToken, LogWellKnown, LogInference, Untouched
<1>. QED  BY <1>9 DEF Respond

\* The invariant that gives the theorem.
LEMMA NextRecorded ==
  ASSUME RowsStay
  PROVE  IInv /\ Tenancy /\ IInv' /\ Tenancy' /\ Recorded /\ AcknowledgedWritesHold
           /\ [Next]_vars => Recorded' /\ AcknowledgedWritesHold'
<1> SUFFICES ASSUME IInv, Tenancy, IInv', Tenancy', Recorded, AcknowledgedWritesHold,
                    [Next]_vars
             PROVE  Recorded' /\ AcknowledgedWritesHold'
  OBVIOUS
<1>1. CASE Crash
  BY <1>1, NoneIsNoName DEF Crash, Recorded, AcknowledgedWritesHold, Idle, StorageCall
<1>2. ASSUME NEW w \in Worker, Step(w)
      PROVE  Recorded' /\ AcknowledgedWritesHold'
  <2>1. \A v \in Worker \ {w} : frames'[v] = frames[v]
    BY <1>2, StepOK DEF IInv, Effect, TypeOK
  <2>2. ASSUME NEW v \in Worker, frames'[v].at = "append_log"
        PROVE  WriteHolds(frames[v])'
    <3>1. CASE v = w
      BY <1>2, <2>2, <3>1, StepRecords DEF IInv, Tenancy
    <3>2. CASE v # w
      <4>1. frames[v].at = "append_log"
        BY <2>1, <2>2, <3>2
      <4>2. WriteHolds(frames[v])
        BY <4>1 DEF Recorded
      <4>. QED  BY <1>2, <3>2, <4>1, <4>2, OthersStayRecorded DEF IInv, Tenancy
    <3>. QED  BY <3>1, <3>2
  <2>3. ASSUME reply' # None, reply'.status \in {"200", "201"}
        PROVE  WriteHolds(reply.frame)'
    <3>1. reply'.frame = frames[w] /\ frames[w].at = "append_log" /\ db' = db
      BY <1>2, <2>3, WhoSucceeds DEF IInv
    <3>2. WriteHolds(frames[w])
      BY <3>1 DEF Recorded
    <3>. QED  BY <3>1, <3>2 DEF WriteHolds
  <2>. QED  BY <2>2, <2>3 DEF Recorded, AcknowledgedWritesHold
<1>3. CASE UNCHANGED vars
  BY <1>3 DEF vars, Recorded, AcknowledgedWritesHold, WriteHolds
<1>. QED  BY <1>1, <1>2, <1>3 DEF Next, Step

\* When the response to a write arrives, the write is in the tables: of two creations
\* that raced only the one that won is acknowledged (storage_sqlite.py:136).  For one
\* synchronous worker, and for threads while nothing is deleted.
THEOREM AcknowledgedWritesStay ==
  ASSUME RowsStay
  PROVE  Spec => []AcknowledgedWritesHold
<1>1. ResourcesStay
  BY DEF RowsStay, ResourcesStay
<1>2. Init => Recorded /\ AcknowledgedWritesHold
  BY NoneIsNoName DEF Init, Recorded, AcknowledgedWritesHold, Idle, StorageCall
<1>3. IInv /\ Tenancy /\ IInv' /\ Tenancy' /\ Recorded /\ AcknowledgedWritesHold
        /\ [Next]_vars => Recorded' /\ AcknowledgedWritesHold'
  BY NextRecorded
<1>4. Spec => [](IInv /\ Tenancy)
  BY <1>1, AlwaysTenancy
<1>. QED  BY <1>2, <1>3, <1>4, PTL DEF Spec

---------------------------------------------------------------------------
(* Tenants act atomically: the refinement of TenantContract.  A step of a   *)
(* worker either draws an api key, or leaves Drawn alone and goes on with   *)
(* the request it serves.                                                  *)

DrawsKey(w) ==
  LET h == frames'[w] IN
  /\ h.op = "create_api_key" /\ h.at = "get_tenant"
  /\ h.rid \in ResourceId /\ h.by \in TenantId /\ h.key \in KeyId
  /\ frames[w].at = None /\ h.kid = None
  /\ generated[h.key] = None /\ db.resources[h.rid] = h.by
  /\ Drawn' = [Drawn EXCEPT ![h.key] = [resource_id |-> h.rid, tenant_id |-> h.by]]
  /\ UNCHANGED << db, tokens >>

GoesOn(w) ==
  LET f == frames[w]
      h == frames'[w]
  IN
  \/ h = Idle
  \/ /\ f.at = None /\ h.op # "create_api_key" /\ h.at # "delete_api_key"
     /\ h.op = "token" => h.at # "get_or_create_signing_key" /\ h.status # "200"
  \/ /\ f.at # None
     /\ h.op = f.op /\ h.rid = f.rid /\ h.by = f.by /\ h.key = f.key
     /\ h.at \in {"get_tenant", "create_api_key"} => f.at = "get_tenant"
     /\ h.at = "delete_api_key" => f.key \in KeysOf(db, f.rid)
     /\ h.op = "token" =>
          /\ h.cred = f.cred /\ h.owner = f.owner
          /\ h.at = "get_or_create_signing_key" => f.cred.client_id \in KeysOf(db, f.rid)
          /\ h.status = "200" => f.at = "get_or_create_signing_key"

\* A request that is answered goes on to nothing.
LEMMA AnsweredGoesOn ==
  ASSUME TypeOK, NEW w \in Worker, NEW f, NEW s, Respond(w, f, s)
  PROVE  GoesOn(w)
BY DEF TypeOK, Respond, GoesOn

\* The management endpoints before their first write.
LEMMA TwinPlaneBegins ==
  ASSUME TypeOK, NEW w \in Worker,
         \/ BeginCreateResource(w) \/ BeginDeleteResource(w) \/ BeginDeleteApiKey(w)
         \/ BeginCreateDeployment(w) \/ BeginDeleteDeployment(w)
  PROVE  GoesOn(w)
<1> DEFINE h == frames'[w]
<1>1. ASSUME NEW f, f.op \in TwinPlaneOp \ {"create_api_key"}, NEW call, IsIdle(w),
             call \in {"create_resource", "delete_resource", "list_api_keys", "get_deployment"},
             h = [f EXCEPT !.at = call], [f EXCEPT !.at = call].at = call,
             [f EXCEPT !.at = call].op = f.op
      PROVE  GoesOn(w)
  BY <1>1 DEF GoesOn, IsIdle, TwinPlaneOp
<1>2. ASSUME NEW f, f.op \in TwinPlaneOp \ {"create_api_key"}, NEW call, IsIdle(w),
             call \in {"create_resource", "delete_resource", "list_api_keys", "get_deployment"},
             EnsureTenantOwnsResource(w, f, call), [f EXCEPT !.at = call].at = call,
             [f EXCEPT !.at = call].op = f.op
      PROVE  GoesOn(w)
  BY <1>1, <1>2, AnsweredGoesOn DEF EnsureTenantOwnsResource, Continue, TypeOK
<1>3. CASE BeginCreateResource(w)
  <2>1. PICK t \in TenantId, r \in ResourceId :
          LET f == NewFrame("create_resource", t, r)
          IN  Respond(w, f, "409") \/ Continue(w, [f EXCEPT !.at = "create_resource"])
    BY <1>3 DEF BeginCreateResource
  <2>2. CASE Continue(w, [NewFrame("create_resource", t, r) EXCEPT !.at = "create_resource"])
    <3>1. h.op = "create_resource" /\ h.at = "create_resource"
      BY <2>2 DEF Continue, TypeOK, NewFrame, Idle
    <3>. QED  BY <1>3, <3>1 DEF GoesOn, BeginCreateResource, IsIdle
  <2>. QED  BY <2>1, <2>2, AnsweredGoesOn
<1>4. CASE BeginDeleteResource(w)
  <2>1. PICK t \in TenantId, r \in ResourceId :
          EnsureTenantOwnsResource(w, NewFrame("delete_resource", t, r), "delete_resource")
    BY <1>4 DEF BeginDeleteResource
  <2> DEFINE n == NewFrame("delete_resource", t, r)
  <2>2. /\ n.op = "delete_resource" /\ [n EXCEPT !.at = "delete_resource"].op = "delete_resource"
        /\ [n EXCEPT !.at = "delete_resource"].at = "delete_resource"
    BY DEF NewFrame, Idle
  <2>. QED  BY <1>2, <1>4, <2>1, <2>2 DEF BeginDeleteResource, TwinPlaneOp
<1>5. CASE BeginDeleteApiKey(w)
  <2>1. PICK t \in TenantId, r \in ResourceId, k \in KeyId :
          EnsureTenantOwnsResource(w, [NewFrame("delete_api_key", t, r) EXCEPT !.key = k],
                                   "list_api_keys")
    BY <1>5 DEF BeginDeleteApiKey
  <2> DEFINE n == [NewFrame("delete_api_key", t, r) EXCEPT !.key = k]
  <2>2. /\ n.op = "delete_api_key" /\ [n EXCEPT !.at = "list_api_keys"].op = "delete_api_key"
        /\ [n EXCEPT !.at = "list_api_keys"].at = "list_api_keys"
    BY DEF NewFrame, Idle
  <2>. QED  BY <1>2, <1>5, <2>1, <2>2 DEF BeginDeleteApiKey, TwinPlaneOp
<1>6. CASE BeginCreateDeployment(w)
  <2>1. PICK t \in TenantId, r \in ResourceId, d \in DeploymentId, m \in Model \cup {None} :
          LET n == [NewFrame("create_deployment", t, r) EXCEPT !.did = d, !.model = m]
          IN  \/ Respond(w, n, "400")
              \/ EnsureTenantOwnsResource(w, n, "get_deployment")
    BY <1>6 DEF BeginCreateDeployment
  <2> DEFINE n == [NewFrame("create_deployment", t, r) EXCEPT !.did = d, !.model = m]
  <2>2. /\ n.op = "create_deployment" /\ [n EXCEPT !.at = "get_deployment"].op = "create_deployment"
        /\ [n EXCEPT !.at = "get_deployment"].at = "get_deployment"
    BY DEF NewFrame, Idle
  <2>. QED  BY <1>2, <1>6, <2>1, <2>2, AnsweredGoesOn DEF BeginCreateDeployment, TwinPlaneOp
<1>7. CASE BeginDeleteDeployment(w)
  <2>1. PICK t \in TenantId, r \in ResourceId, d \in DeploymentId :
          EnsureTenantOwnsResource(w, [NewFrame("delete_deployment", t, r) EXCEPT !.did = d],
                                   "get_deployment")
    BY <1>7 DEF BeginDeleteDeployment
  <2> DEFINE n == [NewFrame("delete_deployment", t, r) EXCEPT !.did = d]
  <2>2. /\ n.op = "delete_deployment" /\ [n EXCEPT !.at = "get_deployment"].op = "delete_deployment"
        /\ [n EXCEPT !.at = "get_deployment"].at = "get_deployment"
    BY DEF NewFrame, Idle
  <2>. QED  BY <1>2, <1>7, <2>1, <2>2 DEF BeginDeleteDeployment, TwinPlaneOp
<1>. QED  BY <1>3, <1>4, <1>5, <1>6, <1>7

\* A request for an api key draws one for the owner, or is refused.
LEMMA BeginDrawsKey ==
  ASSUME TypeOK, NEW w \in Worker, BeginCreateApiKey(w)
  PROVE  DrawsKey(w) \/ (Drawn' = Drawn /\ GoesOn(w) /\ UNCHANGED << db, tokens >>)
<1> DEFINE h == frames'[w]
<1>1. PICK t \in TenantId, r \in ResourceId, k \in KeyId :
        /\ generated[k] = None
        /\ EnsureTenantOwnsResource(w, [NewFrame("create_api_key", t, r) EXCEPT !.key = k],
                                    "get_tenant")
        /\ generated' = IF db.resources[r] # t THEN generated
                        ELSE [generated EXCEPT ![k] =
                                [resource_id |-> r, by |-> t, sent |-> FALSE]]
  BY DEF BeginCreateApiKey
<1>2. UNCHANGED << db, tokens >> /\ frames[w].at = None
  BY DEF BeginCreateApiKey, IsIdle
<1> DEFINE n == [NewFrame("create_api_key", t, r) EXCEPT !.key = k]
<1>3. n.rid = r /\ n.by = t
  BY DEF NewFrame, Idle
<1>4. CASE db.resources[r] # t
  <2>1. Respond(w, n, "404")
    BY <1>1, <1>3, <1>4 DEF EnsureTenantOwnsResource
  <2>2. Drawn' = Drawn
    BY <1>1, <1>4 DEF Drawn
  <2>. QED  BY <1>2, <2>1, <2>2, AnsweredGoesOn
<1>5. CASE db.resources[r] = t
  <2>1. h = [n EXCEPT !.at = "get_tenant"]
    BY <1>1, <1>3, <1>5 DEF EnsureTenantOwnsResource, Continue, TypeOK
  <2>2. /\ h.op = "create_api_key" /\ h.at = "get_tenant" /\ h.rid = r /\ h.by = t /\ h.key = k
        /\ h.kid = None
    BY <2>1 DEF NewFrame, Idle
  <2>3. generated' = [generated EXCEPT ![k] = [resource_id |-> r, by |-> t, sent |-> FALSE]]
    BY <1>1, <1>5
  <2>4. [resource_id |-> r, by |-> t, sent |-> FALSE] # None
    <3>1. [resource_id |-> r, by |-> t, sent |-> FALSE] \in Generated
      BY DEF Generated
    <3>2. None \notin Generated
      BY NoneIsNoOutput
    <3>. QED  BY <3>1, <3>2
  <2>5. Drawn' = [Drawn EXCEPT ![k] = [resource_id |-> r, tenant_id |-> t]]
    BY <2>3, <2>4 DEF Drawn, TypeOK
  <2>. QED  BY <1>1, <1>2, <1>5, <2>2, <2>5 DEF DrawsKey
<1>. QED  BY <1>4, <1>5

\* The management endpoints from then on.
LEMMA TwinPlaneGoesOn ==
  ASSUME TypeOK, FramesOK, KeysReserved, NEW w \in Worker, TwinPlaneNext(w)
  PROVE  DrawsKey(w) \/ (Drawn' = Drawn /\ GoesOn(w))
<1> DEFINE f == frames[w]
           h == frames'[w]
<1>f. f \in Frame /\ LocalsSet(f)
  BY DEF TypeOK, FramesOK
<1>k. \A at \in StorageCall : at # None
  BY NoneIsNoName
<1>d. generated' = generated => Drawn' = Drawn
  BY DEF Drawn
<1>1. CASE \/ BeginCreateResource(w) \/ BeginDeleteResource(w) \/ BeginDeleteApiKey(w)
           \/ BeginCreateDeployment(w) \/ BeginDeleteDeployment(w)
  BY <1>1, <1>d, TwinPlaneBegins
     DEF BeginCreateResource, BeginDeleteResource, BeginDeleteApiKey,
         BeginCreateDeployment, BeginDeleteDeployment, OnlyReads
<1>2. CASE BeginCreateApiKey(w)
  BY <1>2, BeginDrawsKey
<1>3. CASE CreateResource(w) \/ RereadResource(w) \/ DeleteResource(w)
  <2>1. f.op \in {"create_resource", "delete_resource"} /\ f.at # None
    BY <1>3, <1>f, <1>k, OpOfCall DEF CreateResource, RereadResource, DeleteResource, StorageCall
  <2>2. \/ Respond(w, f, "500")
        \/ /\ h.op = f.op /\ h.rid = f.rid /\ h.by = f.by /\ h.key = f.key
           /\ h.at \in {"get_resource", "append_log"}
    <3>1. CASE CreateResource(w)
      BY <1>f, <3>1 DEF CreateResource, Continue, TypeOK, Frame
    <3>2. CASE RereadResource(w)
      BY <1>f, <3>2 DEF RereadResource, Continue, TypeOK, Frame
    <3>3. CASE DeleteResource(w)
      BY <1>f, <3>3 DEF DeleteResource, Continue, TypeOK, Frame
    <3>. QED  BY <1>3, <3>1, <3>2, <3>3
  <2>. QED  BY <1>3, <1>d, <2>1, <2>2, AnsweredGoesOn
            DEF GoesOn, CreateResource, RereadResource, DeleteResource, OnlyReads
<1>4. CASE LookUpTenant(w) \/ CreateApiKey(w) \/ DeleteApiKey(w)
  <2>1. f.op \in {"create_api_key", "delete_api_key"} /\ f.at # None
    BY <1>4, <1>f, <1>k, OpOfCall DEF LookUpTenant, CreateApiKey, DeleteApiKey, StorageCall
  <2>2. /\ h.op = f.op /\ h.rid = f.rid /\ h.by = f.by /\ h.key = f.key
        /\ \/ h.at = "create_api_key" /\ f.at = "get_tenant"
           \/ h.at = "append_log"
    BY <1>4, <1>f DEF LookUpTenant, CreateApiKey, DeleteApiKey, Continue, TypeOK, Frame
  <2>. QED  BY <1>4, <1>d, <2>1, <2>2
            DEF GoesOn, LookUpTenant, CreateApiKey, DeleteApiKey, OnlyReads
<1>5. CASE FindApiKey(w)
  <2>1. f.op = "delete_api_key" /\ f.at # None
    BY <1>5, <1>f, <1>k, OpOfCall DEF FindApiKey, StorageCall
  <2>2. \/ Respond(w, f, "404")
        \/ /\ h.op = f.op /\ h.rid = f.rid /\ h.by = f.by /\ h.key = f.key
           /\ h.at = "delete_api_key" /\ f.key \in KeysOf(db, f.rid)
    BY <1>5, <1>f DEF FindApiKey, Continue, TypeOK, Frame
  <2>. QED  BY <1>5, <1>d, <2>1, <2>2, AnsweredGoesOn DEF GoesOn, FindApiKey, OnlyReads
<1>6. CASE LookUpDeployment(w) \/ CreateDeployment(w) \/ DeleteDeployment(w)
  <2>1. f.op \in {"create_deployment", "delete_deployment"} /\ f.at # None
    BY <1>6, <1>f, <1>k, OpOfCall
       DEF LookUpDeployment, CreateDeployment, DeleteDeployment, StorageCall
  <2>2. \/ Respond(w, f, "404") \/ Respond(w, f, "409") \/ Respond(w, f, "500")
        \/ /\ h.op = f.op /\ h.rid = f.rid /\ h.by = f.by /\ h.key = f.key
           /\ h.at \in {"create_deployment", "delete_deployment", "append_log"}
    <3>1. CASE LookUpDeployment(w)
      BY <1>f, <3>1 DEF LookUpDeployment, Continue, TypeOK, Frame
    <3>2. CASE CreateDeployment(w)
      <4>1. \/ Respond(w, f, "500")
            \/ Continue(w, [f EXCEPT !.at = "append_log", !.status = "201"])
        BY <3>2 DEF CreateDeployment
      <4>. QED  BY <1>f, <4>1 DEF Continue, TypeOK, Frame
    <3>3. CASE DeleteDeployment(w)
      BY <1>f, <3>3 DEF DeleteDeployment, Continue, TypeOK, Frame
    <3>. QED  BY <1>6, <3>1, <3>2, <3>3
  <2>. QED  BY <1>6, <1>d, <2>1, <2>2, AnsweredGoesOn
            DEF GoesOn, LookUpDeployment, CreateDeployment, DeleteDeployment, OnlyReads
<1>7. CASE LogTwinPlane(w)
  <2>1. GoesOn(w)
    BY <1>7, AnsweredGoesOn DEF LogTwinPlane
  <2>2. CASE f.op # "create_api_key"
    BY <1>7, <1>d, <2>1, <2>2 DEF LogTwinPlane
  <2>3. CASE f.op = "create_api_key"
    <3>1. f.key \in KeyId /\ generated[f.key] \in Generated
      BY <2>3, <1>f DEF LocalsSet, KeysReserved, TypeOK
    <3>2. [generated[f.key] EXCEPT !.sent = TRUE] \in Generated
          /\ [generated[f.key] EXCEPT !.sent = TRUE].by = generated[f.key].by
          /\ [generated[f.key] EXCEPT !.sent = TRUE].resource_id = generated[f.key].resource_id
      BY <3>1 DEF Generated
    <3>3. generated' = [generated EXCEPT ![f.key] = [generated[f.key] EXCEPT !.sent = TRUE]]
      BY <2>3, <1>7 DEF LogTwinPlane
    <3>4. None \notin Generated
      BY NoneIsNoOutput
    <3>. QED  BY <2>1, <3>1, <3>2, <3>3, <3>4 DEF TypeOK, Drawn
  <2>. QED  BY <2>2, <2>3
<1>. QED  BY <1>1, <1>2, <1>3, <1>4, <1>5, <1>6, <1>7 DEF TwinPlaneNext

\* The identity endpoints.
LEMMA IdentityGoesOn ==
  ASSUME TypeOK, FramesOK, NEW w \in Worker, IdentityNext(w)
  PROVE  GoesOn(w)
<1> DEFINE f == frames[w]
           h == frames'[w]
<1>f. f \in Frame /\ LocalsSet(f)
  BY DEF TypeOK, FramesOK
<1>k. (\A at \in StorageCall : at # None) /\ (\A s \in Status : s # None)
  BY NoneIsNoName
<1>1. CASE BeginToken(w)
  <2>1. PICK r \in ResourceId, c \in ClientCredentials :
          LET n == [Idle EXCEPT !.op = "token", !.rid = r,
                                !.owner = db.resources[r], !.cred = c]
          IN  \/ Respond(w, n, "404")
              \/ Continue(w, [n EXCEPT !.at = "append_log", !.status = "400"])
              \/ Continue(w, [n EXCEPT !.at = "get_api_key_by_hash"])
    BY <1>1 DEF BeginToken
  <2> DEFINE n == [Idle EXCEPT !.op = "token", !.rid = r,
                               !.owner = db.resources[r], !.cred = c]
  <2>2. CASE \/ Continue(w, [n EXCEPT !.at = "append_log", !.status = "400"])
             \/ Continue(w, [n EXCEPT !.at = "get_api_key_by_hash"])
    <3>1. h.op = "token" /\ h.at \in {"append_log", "get_api_key_by_hash"}
          /\ h.status \in {"400", None}
      BY <2>2 DEF Continue, TypeOK, Idle
    <3>2. None # "200"
      BY <1>k DEF Status
    <3>. QED  BY <1>1, <3>1, <3>2 DEF GoesOn, BeginToken, IsIdle
  <2>. QED  BY <2>1, <2>2, AnsweredGoesOn
<1>2. CASE CheckClient(w)
  <2>1. f.op = "token" /\ f.at = "get_api_key_by_hash" /\ f.at # None
    BY <1>2, <1>k DEF CheckClient, StorageCall
  <2>2. \/ Continue(w, [f EXCEPT !.at = "append_log", !.status = "401"])
        \/ /\ f.cred.client_id \in KeysOf(db, f.rid)
           /\ Continue(w, [f EXCEPT !.at = "get_or_create_signing_key"])
    BY <1>2 DEF CheckClient
  <2>3. CASE Continue(w, [f EXCEPT !.at = "append_log", !.status = "401"])
    <3>1. /\ h.op = f.op /\ h.rid = f.rid /\ h.by = f.by /\ h.key = f.key /\ h.cred = f.cred
          /\ h.owner = f.owner /\ h.at = "append_log" /\ h.status = "401"
      BY <1>f, <2>3 DEF Continue, TypeOK, Frame
    <3>. QED  BY <2>1, <3>1 DEF GoesOn
  <2>4. CASE /\ f.cred.client_id \in KeysOf(db, f.rid)
             /\ Continue(w, [f EXCEPT !.at = "get_or_create_signing_key"])
    <3>1. /\ h.op = f.op /\ h.rid = f.rid /\ h.by = f.by /\ h.key = f.key /\ h.cred = f.cred
          /\ h.owner = f.owner /\ h.at = "get_or_create_signing_key" /\ h.status = f.status
      BY <1>f, <2>4 DEF Continue, TypeOK, Frame
    <3>2. f.status = None /\ None # "200"
      BY <1>f, <1>k, <2>1 DEF LocalsSet, Status
    <3>. QED  BY <2>1, <2>4, <3>1, <3>2 DEF GoesOn
  <2>. QED  BY <2>2, <2>3, <2>4
<1>3. CASE SignToken(w) \/ PublishKey(w)
  <2>1. f.at = "get_or_create_signing_key" /\ f.at # None
    BY <1>3, <1>k DEF SignToken, PublishKey, StorageCall
  <2>2. PICK kid \in Kid :
          Continue(w, [f EXCEPT !.at = "append_log", !.status = "200", !.kid = kid])
    BY <1>3 DEF SignToken, PublishKey
  <2>3. /\ h.op = f.op /\ h.rid = f.rid /\ h.by = f.by /\ h.key = f.key /\ h.cred = f.cred
        /\ h.owner = f.owner /\ h.at = "append_log"
    BY <1>f, <2>2 DEF Continue, TypeOK, Frame
  <2>. QED  BY <2>1, <2>3 DEF GoesOn
<1>4. CASE LogToken(w) \/ LogWellKnown(w)
  BY <1>4, AnsweredGoesOn DEF LogToken, LogWellKnown
<1>5. CASE BeginWellKnown(w)
  <2>1. PICK op \in {"jwks", "openid_configuration"}, r \in ResourceId :
          LET n == [Idle EXCEPT !.op = op, !.rid = r]
          IN  \/ Respond(w, n, "404")
              \/ Continue(w, [n EXCEPT !.at = "get_or_create_signing_key"])
              \/ Continue(w, [n EXCEPT !.at = "append_log", !.status = "200"])
    BY <1>5 DEF BeginWellKnown
  <2> DEFINE n == [Idle EXCEPT !.op = op, !.rid = r]
  <2>2. CASE \/ Continue(w, [n EXCEPT !.at = "get_or_create_signing_key"])
             \/ Continue(w, [n EXCEPT !.at = "append_log", !.status = "200"])
    <3>1. h.op = op /\ h.at \in {"append_log", "get_or_create_signing_key"}
      BY <2>2 DEF Continue, TypeOK, Idle
    <3>. QED  BY <1>5, <3>1 DEF GoesOn, BeginWellKnown, IsIdle
  <2>. QED  BY <2>1, <2>2, AnsweredGoesOn
<1>. QED  BY <1>1, <1>2, <1>3, <1>4, <1>5 DEF IdentityNext

\* The data plane.
LEMMA DataPlaneGoesOn ==
  ASSUME TypeOK, FramesOK, NEW w \in Worker, DataPlaneNext(w)
  PROVE  GoesOn(w)
<1> DEFINE f == frames[w]
           h == frames'[w]
<1>f. f \in Frame /\ LocalsSet(f)
  BY DEF TypeOK, FramesOK
<1>k. \A at \in StorageCall : at # None
  BY NoneIsNoName
<1>g. ASSUME f.op \in DataPlaneOp, f.at # None,
             h.op = f.op, h.rid = f.rid, h.by = f.by, h.key = f.key,
             h.at \in {"get_api_key_by_hash", "get_signing_key", "append_auth_log",
                       "get_deployment", "create_request", "append_log"}
      PROVE  GoesOn(w)
  BY <1>g DEF GoesOn, DataPlaneOp
<1>1. CASE BeginInference(w)
  <2>1. PICK op \in DataPlaneOp, r \in ResourceId, d \in DeploymentId, c \in DataCredentials :
          LET n == [Idle EXCEPT !.op = op, !.rid = r, !.did = d, !.cred = c,
                                !.owner = db.resources[r]]
          IN  \/ Respond(w, n, "404")
              \/ Continue(w, [n EXCEPT !.at = "get_or_create_signing_key"])
    BY <1>1 DEF BeginInference
  <2> DEFINE n == [Idle EXCEPT !.op = op, !.rid = r, !.did = d, !.cred = c,
                               !.owner = db.resources[r]]
  <2>2. CASE Continue(w, [n EXCEPT !.at = "get_or_create_signing_key"])
    <3>1. h.op = op /\ h.at = "get_or_create_signing_key"
      BY <2>2 DEF Continue, TypeOK, Idle
    <3>. QED  BY <1>1, <3>1 DEF GoesOn, BeginInference, IsIdle, DataPlaneOp
  <2>. QED  BY <2>1, <2>2, AnsweredGoesOn
<1>2. CASE EnsureKeypair(w)
  <2>1. f.op \in DataPlaneOp /\ f.at # None
    BY <1>2, <1>k DEF EnsureKeypair, StorageCall
  <2>2. \/ Continue(w, [f EXCEPT !.at = "get_api_key_by_hash"])
        \/ Continue(w, [f EXCEPT !.at = "get_signing_key"])
        \/ Refuse(w, f)
    BY <1>2 DEF EnsureKeypair
  <2>3. /\ h.op = f.op /\ h.rid = f.rid /\ h.by = f.by /\ h.key = f.key
        /\ h.at \in {"get_api_key_by_hash", "get_signing_key", "append_auth_log"}
    BY <1>f, <2>2 DEF Refuse, Continue, TypeOK, Frame
  <2>. QED  BY <1>g, <2>1, <2>3
<1>3. CASE CheckApiKey(w) \/ CheckBearer(w)
  <2>1. f.op \in DataPlaneOp /\ f.at # None
    BY <1>3, <1>f, <1>k, OpOfCall DEF CheckApiKey, CheckBearer, StorageCall
  <2>2. Accept(w, f) \/ Refuse(w, f)
    BY <1>3 DEF CheckApiKey, CheckBearer
  <2>3. /\ h.op = f.op /\ h.rid = f.rid /\ h.by = f.by /\ h.key = f.key
        /\ h.at = "append_auth_log"
    BY <1>f, <2>2 DEF Accept, Refuse, Continue, TypeOK, Frame
  <2>. QED  BY <1>g, <2>1, <2>3
<1>4. CASE LogAuthentication(w) \/ PersistRequest(w)
  <2>1. f.op \in DataPlaneOp /\ f.at # None
    BY <1>4, <1>f, <1>k, OpOfCall DEF LogAuthentication, PersistRequest, StorageCall
  <2>2. \/ Respond(w, f, "401")
        \/ Continue(w, [f EXCEPT !.at = "get_deployment"])
        \/ Continue(w, [f EXCEPT !.at = "append_log", !.status = "200"])
    BY <1>4 DEF LogAuthentication, PersistRequest
  <2>3. \/ Respond(w, f, "401")
        \/ /\ h.op = f.op /\ h.rid = f.rid /\ h.by = f.by /\ h.key = f.key
           /\ h.at \in {"get_deployment", "append_log"}
    BY <1>f, <2>2 DEF Continue, TypeOK, Frame
  <2>. QED  BY <1>g, <2>1, <2>3, AnsweredGoesOn
<1>5. CASE ResolveDeployment(w)
  <2>1. f.op \in DataPlaneOp /\ f.at # None
    BY <1>5, <1>k DEF ResolveDeployment, StorageCall
  <2>2. \/ Respond(w, f, "404") \/ Respond(w, f, "400")
        \/ Continue(w, [f EXCEPT !.at = "create_request",
                                 !.model = db.deployments[f.rid][f.did]])
    BY <1>5 DEF ResolveDeployment
  <2>3. \/ Respond(w, f, "404") \/ Respond(w, f, "400")
        \/ /\ h.op = f.op /\ h.rid = f.rid /\ h.by = f.by /\ h.key = f.key
           /\ h.at = "create_request"
    BY <1>f, <2>2 DEF Continue, TypeOK, Frame
  <2>. QED  BY <1>g, <2>1, <2>3, AnsweredGoesOn
<1>6. CASE LogInference(w)
  BY <1>6, AnsweredGoesOn DEF LogInference
<1>. QED  BY <1>1, <1>2, <1>3, <1>4, <1>5, <1>6 DEF DataPlaneNext

\* Any endpoint.
LEMMA StepGoesOn ==
  ASSUME TypeOK, FramesOK, KeysReserved, NEW w \in Worker, Step(w)
  PROVE  DrawsKey(w) \/ (Drawn' = Drawn /\ GoesOn(w))
<1>d. generated' = generated => Drawn' = Drawn
  BY DEF Drawn
<1>1. CASE TwinPlaneNext(w)
  BY <1>1, TwinPlaneGoesOn
<1>2. CASE IdentityNext(w)
  <2>1. generated' = generated
    BY <1>2 DEF IdentityNext, BeginToken, CheckClient, SignToken, LogToken, BeginWellKnown,
         PublishKey, LogWellKnown, Keeps
  <2>. QED  BY <1>2, <1>d, <2>1, IdentityGoesOn
<1>3. CASE DataPlaneNext(w)
  <2>1. generated' = generated
    BY <1>3 DEF DataPlaneNext, BeginInference, EnsureKeypair, CheckApiKey, CheckBearer,
         LogAuthentication, ResolveDeployment, PersistRequest, LogInference, Untouched
  <2>. QED  BY <1>3, <1>d, <2>1, DataPlaneGoesOn
<1>4. CASE StorageFails(w)
  BY <1>4, <1>d, AnsweredGoesOn DEF StorageFails
<1>. QED  BY <1>1, <1>2, <1>3, <1>4 DEF Step, Serve

\* A row of the api keys is the row that was drawn; and so is what a request
\* is about to make, remove or name in a token.
KeysAsDrawn == \A k \in KeyId : db.api_keys[k] # None => db.api_keys[k] = Drawn[k]

InHand(w) ==
  LET f == frames[w] IN
  /\ f.op = "create_api_key" => Drawn[f.key] = [resource_id |-> f.rid, tenant_id |-> f.by]
  /\ f.at = "delete_api_key" => Drawn[f.key] # None /\ Drawn[f.key].resource_id = f.rid
  /\ f.op = "token" /\ (f.at = "get_or_create_signing_key" \/ f.status = "200") =>
       /\ Drawn[f.cred.client_id] = [resource_id |-> f.rid, tenant_id |-> f.owner]
       /\ f.cred.client_id \notin KeysInProgress
  /\ f.kid # None => db.signing_keys[f.rid] = f.kid

Provenance == KeysAsDrawn /\ \A w \in Worker : InHand(w)

\* The keys drawn so far, as rows of their table.
LEMMA DrawnType ==
  ASSUME TypeOK, NEW k \in KeyId
  PROVE  /\ Drawn[k] \in ApiKeyRow \cup {None}
         /\ Drawn[k] = None <=> generated[k] = None
<1>1. CASE generated[k] = None
  BY <1>1 DEF Drawn
<1>2. CASE generated[k] # None
  <2>1. generated[k] \in Generated
    BY <1>2 DEF TypeOK
  <2>2. Drawn[k] = [resource_id |-> generated[k].resource_id, tenant_id |-> generated[k].by]
    BY <1>2 DEF Drawn
  <2>3. Drawn[k] \in ApiKeyRow
    BY <2>1, <2>2 DEF Generated, ApiKeyRow
  <2>. QED  BY <1>2, <2>3, NoneIsNoValue
<1>. QED  BY <1>1, <1>2

\* A request that goes on begins to make no key.
LEMMA NoneBegun ==
  ASSUME TypeOK, FramesOK, KeysReserved, NEW w \in Worker, Step(w), GoesOn(w)
  PROVE  KeysInProgress' \subseteq KeysInProgress
<1> DEFINE f == frames[w]
           h == frames'[w]
<1>1. TypeOK' /\ FramesOK' /\ \A v \in Worker \ {w} : frames'[v] = frames[v]
  BY StepOK DEF Effect, TypeOK
<1>2. h \in Frame /\ LocalsSet(h)
  BY <1>1 DEF TypeOK, FramesOK
<1>3. h.at \in {"get_tenant", "create_api_key"} =>
        h.op = "create_api_key" /\ h # Idle
  BY <1>2, OpOfCall, NoneIsNoName DEF Idle, StorageCall
<1>4. h.at \in {"get_tenant", "create_api_key"} => f.at = "get_tenant" /\ h.key = f.key
  BY <1>3 DEF GoesOn
<1>. QED  BY <1>1, <1>4 DEF KeysInProgress

\* Whatever a step does, a key that was drawn stays as it was, and one that is
\* not being made is not made later.
LEMMA DrawnStays ==
  ASSUME TypeOK, FramesOK, KeysReserved, NEW w \in Worker, Step(w),
         NEW k \in KeyId, Drawn[k] # None
  PROVE  /\ Drawn'[k] = Drawn[k]
         /\ k \notin KeysInProgress => k \notin KeysInProgress'
<1> DEFINE h == frames'[w]
<1>1. CASE Drawn' = Drawn /\ GoesOn(w)
  BY <1>1, NoneBegun
<1>2. CASE DrawsKey(w)
  <2>1. h.key # k /\ h.key \in KeyId
    BY <1>2, DrawnType DEF DrawsKey
  <2>2. \A v \in Worker \ {w} : frames'[v] = frames[v]
    BY StepOK DEF Effect, TypeOK
  <2>3. Drawn'[k] = Drawn[k]
    BY <1>2, <2>1 DEF DrawsKey, Drawn
  <2>. QED  BY <2>1, <2>2, <2>3 DEF KeysInProgress
<1>. QED  BY <1>1, <1>2, StepGoesOn

\* The keypair a request has in hand stays in the table as long as the resource.
LEMMA KeypairStays ==
  ASSUME ResourcesStay, TypeOK, FramesOK, KeysReserved, Tenancy,
         NEW w \in Worker, Step(w), NEW v \in Worker, InHand(v), frames[v].kid # None
  PROVE  db'.signing_keys[frames[v].rid] = frames[v].kid
<1> DEFINE f == frames[v]
<1>1. f \in Frame /\ LocalsSet(f) /\ frames[w] \in Frame /\ LocalsSet(frames[w])
  BY DEF TypeOK, FramesOK
<1>2. frames[w].at # "delete_resource"
  <2>1. CASE v = w
    BY <1>1, <2>1, OpOfCall DEF LocalsSet, TwinPlaneOp
  <2>2. CASE v # w
    BY <1>1, <2>2, OpOfCall, NoneIsNoName
       DEF ResourcesStay, OneWorker, Tenancy, Rightful, StorageCall
  <2>. QED  BY <2>1, <2>2
<1>3. ResourcesKept /\ RowsKept
  BY <1>2, StepWrites, OnlyDeletionRemoves, StepOK DEF Effect
<1>4. f.rid \in ResourceId /\ db.signing_keys[f.rid] = f.kid
  BY <1>1 DEF InHand, LocalsSet
<1>5. db.resources[f.rid] # None
  BY <1>4 DEF Tenancy, RowsRightful
<1>6. db'.resources[f.rid] # None
  BY <1>3, <1>4, <1>5 DEF ResourcesKept
<1>. QED  BY <1>3, <1>4, <1>6 DEF RowsKept

\* The row that is inserted is the one that was drawn.
LEMMA StepKeepsRowsAsDrawn ==
  ASSUME TypeOK, FramesOK, KeysReserved, KeysAsDrawn, NEW w \in Worker,
         Rightful(w), InHand(w), Step(w)
  PROVE  KeysAsDrawn'
<1> DEFINE f == frames[w]
<1>f. f \in Frame /\ LocalsSet(f)
  BY DEF TypeOK, FramesOK
<1> SUFFICES ASSUME NEW k \in KeyId, db'.api_keys[k] # None
             PROVE  db'.api_keys[k] = Drawn'[k]
  BY DEF KeysAsDrawn
<1>1. CASE db'.api_keys[k] = db.api_keys[k]
  BY <1>1, DrawnStays DEF KeysAsDrawn
<1>2. CASE f.at = "create_api_key" /\ db' = InsertApiKey(db, f.key, f.rid, f.owner) /\ k = f.key
  <2>1. f.op = "create_api_key" /\ f.at # None
    BY <1>2, <1>f, OpOfCall, NoneIsNoName DEF StorageCall
  <2>2. f.owner = f.by /\ Drawn[k] = [resource_id |-> f.rid, tenant_id |-> f.by]
    BY <1>2, <2>1 DEF Rightful, InHand
  <2>3. db'.api_keys[k] = Drawn[k]
    BY <1>2, <2>2 DEF InsertApiKey, TypeOK, Database
  <2>. QED  BY <2>3, DrawnStays
<1>3. db'.api_keys[k] = db.api_keys[k] \/ (f.at = "create_api_key" /\ k = f.key)
  BY StepOK DEF Effect, KeyRowsKept
<1>4. ASSUME f.at = "create_api_key" /\ k = f.key, db'.api_keys[k] # db.api_keys[k]
      PROVE  db' = InsertApiKey(db, f.key, f.rid, f.owner)
  BY <1>4, StepWrites DEF TableStep
<1>. QED  BY <1>1, <1>2, <1>3, <1>4

\* The request that takes a step keeps what it has in hand.
LEMMA StepKeepsInHand ==
  ASSUME ResourcesStay, TypeOK, FramesOK, KeysReserved, Tenancy, Provenance,
         NEW w \in Worker, Step(w)
  PROVE  InHand(w)'
<1> DEFINE f == frames[w]
           h == frames'[w]
<1>f. f \in Frame /\ LocalsSet(f) /\ h \in Frame /\ LocalsSet(h)
  BY StepOK DEF TypeOK, FramesOK
<1>k. \A at \in StorageCall \cup Status \cup Endpoint : at # None
  BY NoneIsNoName
<1>1. h.kid # None => db'.signing_keys[h.rid] = h.kid
  <2>1. CASE h.kid = f.kid /\ h.rid = f.rid
    BY <2>1, KeypairStays DEF Provenance
  <2>. QED  BY <2>1, StepOK DEF Effect, SignsWithStoredKey, TypeOK
<1>2. CASE DrawsKey(w)
  <2>1. /\ h.op = "create_api_key" /\ h.at = "get_tenant" /\ h.key \in KeyId
        /\ Drawn'[h.key] = [resource_id |-> h.rid, tenant_id |-> h.by]
    BY <1>2 DEF DrawsKey, Drawn
  <2>. QED  BY <1>1, <2>1 DEF InHand
<1>3. CASE Drawn' = Drawn /\ GoesOn(w)
  <2>1. CASE h = Idle
    BY <1>1, <1>k, <2>1 DEF InHand, Idle, StorageCall, Endpoint
  <2>2. CASE f.at = None /\ h.op # "create_api_key" /\ h.at # "delete_api_key"
             /\ (h.op = "token" => h.at # "get_or_create_signing_key" /\ h.status # "200")
    BY <1>1, <2>2 DEF InHand
  <2>3. CASE /\ f.at # None
             /\ h.op = f.op /\ h.rid = f.rid /\ h.by = f.by /\ h.key = f.key
             /\ h.at = "delete_api_key" => f.key \in KeysOf(db, f.rid)
             /\ h.op = "token" =>
                  /\ h.cred = f.cred /\ h.owner = f.owner
                  /\ h.at = "get_or_create_signing_key" => f.cred.client_id \in KeysOf(db, f.rid)
                  /\ h.status = "200" => f.at = "get_or_create_signing_key"
    <3>1. h.op = "create_api_key" =>
            Drawn'[h.key] = [resource_id |-> h.rid, tenant_id |-> h.by]
      BY <1>3, <2>3 DEF Provenance, InHand
    <3>2. h.at = "delete_api_key" => Drawn'[h.key] # None /\ Drawn'[h.key].resource_id = h.rid
      BY <1>3, <2>3 DEF KeysOf, Provenance, KeysAsDrawn
    <3>3. ASSUME h.op = "token", h.at = "get_or_create_signing_key" \/ h.status = "200"
          PROVE  /\ Drawn[f.cred.client_id] = [resource_id |-> f.rid, tenant_id |-> f.owner]
                 /\ f.cred.client_id \notin KeysInProgress
      <4>1. CASE h.status = "200"
        BY <2>3, <3>3, <4>1 DEF Provenance, InHand
      <4>2. CASE h.at = "get_or_create_signing_key"
        <5> DEFINE k == f.cred.client_id
        <5>1. k \in KeyId /\ db.api_keys[k] # None /\ db.api_keys[k].resource_id = f.rid
          BY <2>3, <3>3, <4>2 DEF KeysOf
        <5>2. db.api_keys[k].tenant_id = f.owner
          BY <2>3, <3>3, <5>1 DEF Tenancy, RowsRightful, Rightful
        <5>3. Drawn[k] = db.api_keys[k] /\ db.api_keys[k] \in ApiKeyRow
          BY <5>1 DEF Provenance, KeysAsDrawn, TypeOK, Database
        <5>4. Drawn[k] = [resource_id |-> f.rid, tenant_id |-> f.owner]
          BY <5>1, <5>2, <5>3 DEF ApiKeyRow
        <5>5. k \notin KeysInProgress
          <6>1. ASSUME NEW v \in Worker, frames[v].at \in {"get_tenant", "create_api_key"}
                PROVE  frames[v].key # k
            <7>1. frames[v].op = "create_api_key" /\ frames[v].at # "append_log"
              BY <6>1, OpOfCall DEF TypeOK, FramesOK
            <7>. QED  BY <5>1, <7>1 DEF KeysReserved
          <6>. QED  BY <6>1 DEF KeysInProgress
        <5>. QED  BY <5>4, <5>5
      <4>. QED  BY <3>3, <4>1, <4>2
    <3>4. h.op = "token" /\ (h.at = "get_or_create_signing_key" \/ h.status = "200") =>
            /\ Drawn'[h.cred.client_id] = [resource_id |-> h.rid, tenant_id |-> h.owner]
            /\ h.cred.client_id \notin KeysInProgress'
      BY <1>3, <2>3, <3>3, NoneBegun
    <3>. QED  BY <1>1, <3>1, <3>2, <3>4 DEF InHand
  <2>. QED  BY <1>3, <2>1, <2>2, <2>3 DEF GoesOn
<1>. QED  BY <1>2, <1>3, StepGoesOn

\* So do the others.
LEMMA OthersKeepInHand ==
  ASSUME ResourcesStay, TypeOK, FramesOK, KeysReserved, Tenancy, Provenance,
         NEW w \in Worker, Step(w), NEW v \in Worker, v # w
  PROVE  InHand(v)'
<1> DEFINE f == frames[v]
<1>1. frames'[v] = f
  BY StepOK DEF Effect, TypeOK
<1>f. f \in Frame /\ LocalsSet(f) /\ InHand(v)
  BY DEF TypeOK, FramesOK, Provenance
<1>2. ASSUME NEW k \in KeyId, Drawn[k] # None
      PROVE  /\ Drawn'[k] = Drawn[k]
             /\ k \notin KeysInProgress => k \notin KeysInProgress'
  BY <1>2, DrawnStays
<1>3. ASSUME NEW r \in ResourceId, NEW t \in TenantId
      PROVE  [resource_id |-> r, tenant_id |-> t] # None
  <2>1. [resource_id |-> r, tenant_id |-> t] \in ApiKeyRow
    BY DEF ApiKeyRow
  <2>. QED  BY <2>1, NoneIsNoValue
<1>4. f.op = "create_api_key" =>
        Drawn'[f.key] = [resource_id |-> f.rid, tenant_id |-> f.by]
  BY <1>f, <1>2, <1>3, NoneIsNoName DEF InHand, LocalsSet, TwinPlaneOp, Endpoint
<1>5. f.at = "delete_api_key" => Drawn'[f.key] # None /\ Drawn'[f.key].resource_id = f.rid
  BY <1>f, <1>2, OpOfCall DEF InHand, LocalsSet
<1>6. f.op = "token" /\ (f.at = "get_or_create_signing_key" \/ f.status = "200") =>
        /\ Drawn'[f.cred.client_id] = [resource_id |-> f.rid, tenant_id |-> f.owner]
        /\ f.cred.client_id \notin KeysInProgress'
  BY <1>f, <1>2, <1>3, NoneIsNoName DEF InHand, LocalsSet, Endpoint
<1>7. f.kid # None => db'.signing_keys[f.rid] = f.kid
  BY <1>f, KeypairStays
<1>. QED  BY <1>1, <1>4, <1>5, <1>6, <1>7 DEF InHand

\* The invariant with which every step is one of the contract.
LEMMA NextProvenance ==
  ASSUME ResourcesStay
  PROVE  IInv /\ Tenancy /\ Provenance /\ [Next]_vars => Provenance'
<1> SUFFICES ASSUME IInv, Tenancy, Provenance, [Next]_vars PROVE Provenance'
  OBVIOUS
<1>1. CASE Crash
  <2>1. Drawn' = Drawn /\ db' = db
    BY <1>1 DEF Crash, Drawn
  <2>2. \A v \in Worker : InHand(v)'
    BY <1>1, NoneIsNoName DEF Crash, InHand, Idle, StorageCall, Endpoint
  <2>. QED  BY <2>1, <2>2 DEF Provenance, KeysAsDrawn
<1>2. ASSUME NEW w \in Worker, Step(w)
      PROVE  Provenance'
  <2>1. KeysAsDrawn'
    BY <1>2, StepKeepsRowsAsDrawn DEF IInv, Tenancy, Provenance
  <2>2. \A v \in Worker : InHand(v)'
    BY <1>2, StepKeepsInHand, OthersKeepInHand DEF IInv
  <2>. QED  BY <2>1, <2>2 DEF Provenance
<1>3. CASE UNCHANGED vars
  BY <1>3 DEF vars, Provenance, KeysAsDrawn, InHand, Drawn, KeysInProgress
<1>. QED  BY <1>1, <1>2, <1>3 DEF Next, Step

---------------------------------------------------------------------------
(* Every step is one of the contract. *)

\* The statements of the contract are those of the storage.
LEMMA SameStatements ==
  /\ Contract!EmptyDatabase = EmptyDatabase
  /\ \A r \in ResourceId :
       /\ Contract!RemoveResource(db, r) = RemoveResource(db, r)
       /\ Contract!KeysOf(db, r) = KeysOf(db, r)
       /\ Contract!DeploymentsOf(db, r) = DeploymentsOf(db, r)
       /\ \A t \in TenantId : Contract!InsertResource(db, r, t) = InsertResource(db, r, t)
       /\ \A k \in KeyId, t \in TenantId :
            Contract!InsertApiKey(db, k, r, t) = InsertApiKey(db, k, r, t)
       /\ \A kid \in Kid : Contract!InsertSigningKey(db, r, kid) = InsertSigningKey(db, r, kid)
       /\ \A d \in DeploymentId :
            /\ Contract!RemoveDeployment(db, r, d) = RemoveDeployment(db, r, d)
            /\ \A m \in Model :
                 Contract!InsertDeployment(db, r, d, m) = InsertDeployment(db, r, d, m)
  /\ \A k \in KeyId : Contract!RemoveApiKey(db, k) = RemoveApiKey(db, k)
<1>1. \A r \in ResourceId : Contract!RemoveResource(db, r) = RemoveResource(db, r)
  BY DEF Contract!RemoveResource, RemoveResource, Contract!RemoveResourceRow, RemoveResourceRow,
       Contract!RemoveSigningKeyOf, RemoveSigningKeyOf,
       Contract!RemoveDeploymentsOf, RemoveDeploymentsOf,
       Contract!RemoveApiKeysOf, RemoveApiKeysOf, Contract!KeysOf, KeysOf
<1>2. Contract!EmptyDatabase = EmptyDatabase
  BY DEF Contract!EmptyDatabase, EmptyDatabase
<1>3. \A r \in ResourceId :
        /\ Contract!KeysOf(db, r) = KeysOf(db, r)
        /\ Contract!DeploymentsOf(db, r) = DeploymentsOf(db, r)
        /\ \A t \in TenantId : Contract!InsertResource(db, r, t) = InsertResource(db, r, t)
        /\ \A k \in KeyId, t \in TenantId :
             Contract!InsertApiKey(db, k, r, t) = InsertApiKey(db, k, r, t)
  BY DEF Contract!KeysOf, KeysOf, Contract!DeploymentsOf, DeploymentsOf,
       Contract!InsertResource, InsertResource, Contract!InsertApiKey, InsertApiKey
<1>4. \A r \in ResourceId :
        /\ \A kid \in Kid :
             Contract!InsertSigningKey(db, r, kid) = InsertSigningKey(db, r, kid)
        /\ \A d \in DeploymentId :
             /\ Contract!RemoveDeployment(db, r, d) = RemoveDeployment(db, r, d)
             /\ \A m \in Model :
                  Contract!InsertDeployment(db, r, d, m) = InsertDeployment(db, r, d, m)
  BY DEF Contract!InsertSigningKey, InsertSigningKey, Contract!RemoveDeployment, RemoveDeployment,
       Contract!InsertDeployment, InsertDeployment
<1>5. \A k \in KeyId : Contract!RemoveApiKey(db, k) = RemoveApiKey(db, k)
  BY DEF Contract!RemoveApiKey, RemoveApiKey
<1>. QED  BY <1>1, <1>2, <1>3, <1>4, <1>5

\* A step that writes nothing is one that at most gives a key up.
LEMMA MapsToAbandon ==
  ASSUME UNCHANGED << db, tokens >>, Drawn' = Drawn, KeysInProgress' \subseteq KeysInProgress
  PROVE  Contract!Next
BY DEF Contract!Next, Contract!AbandonApiKeys

\* The keys in progress are the same after a step of a request that makes none.
LEMMA SameKeysInProgress ==
  ASSUME TypeOK, FramesOK, KeysReserved, NEW w \in Worker, Step(w), GoesOn(w),
         frames[w].at \notin {"get_tenant", "create_api_key"}
  PROVE  KeysInProgress' = KeysInProgress
<1>1. KeysInProgress' \subseteq KeysInProgress
  BY NoneBegun
<1>2. \A v \in Worker \ {w} : frames'[v] = frames[v]
  BY StepOK DEF Effect, TypeOK
<1>. QED  BY <1>1, <1>2 DEF KeysInProgress

\* A request that makes a keypair makes a new one.
LEMMA KeypairIsFresh ==
  ASSUME TypeOK, FramesOK, TokensVerify, NEW w \in Worker, Step(w),
         frames[w].at = "get_or_create_signing_key", db' # db
  PROVE  /\ frames[w].op \in DataPlaneOp \cup {"token", "jwks"}
         /\ db.signing_keys[frames[w].rid] = None
         /\ \E kid \in Kid :
              /\ db' = InsertSigningKey(db, frames[w].rid, kid)
              /\ \A s \in ResourceId : db.signing_keys[s] # kid
              /\ \A t \in tokens : t.kid # kid
<1> DEFINE f == frames[w]
<1>f. f \in Frame /\ LocalsSet(f) /\ f.rid \in ResourceId
  BY OpOfCall, NoneIsNoName DEF TypeOK, FramesOK, StorageCall
<1>1. EnsureKeypair(w) \/ SignToken(w) \/ PublishKey(w)
  <2>1. ~IsIdle(w)
    BY NoneIsNoName DEF IsIdle, StorageCall
  <2>2. ~TwinPlaneNext(w)
    BY <2>1 DEF TwinPlaneNext, BeginCreateResource, CreateResource, RereadResource,
         BeginDeleteResource, DeleteResource, BeginCreateApiKey, LookUpTenant, CreateApiKey,
         BeginDeleteApiKey, FindApiKey, DeleteApiKey, BeginCreateDeployment,
         BeginDeleteDeployment, LookUpDeployment, CreateDeployment, DeleteDeployment,
         LogTwinPlane
  <2>3. ~StorageFails(w)
    BY DEF StorageFails
  <2>. QED  BY <2>1, <2>2, <2>3 DEF Step, Serve, IdentityNext, BeginToken, CheckClient,
            LogToken, BeginWellKnown, LogWellKnown, DataPlaneNext, BeginInference,
            CheckApiKey, CheckBearer, LogAuthentication, ResolveDeployment, PersistRequest,
            LogInference
<1>2. PICK kid \in Kid : GetOrCreateSigningKey(f.rid, kid)
  BY <1>1 DEF EnsureKeypair, SignToken, PublishKey
<1>3. db.signing_keys[f.rid] = None
  <2>1. ASSUME kid = db.signing_keys[f.rid]
        PROVE  db' = db
    BY <1>f, <1>2, <2>1 DEF GetOrCreateSigningKey, InsertSigningKey, TypeOK, Database
  <2>. QED  BY <1>2, <2>1 DEF GetOrCreateSigningKey
<1>4. kid \in FreshKids
  BY <1>2, <1>3 DEF GetOrCreateSigningKey
<1>5. \A t \in tokens : t.kid # kid
  BY <1>4 DEF FreshKids, TokensVerify, Verifies, TypeOK, Token
<1>. QED  BY <1>1, <1>2, <1>3, <1>4, <1>5
          DEF GetOrCreateSigningKey, FreshKids, EnsureKeypair, SignToken, PublishKey

\* A statement on the tables is the contract's, issued for the owner.
LEMMA WriteMapsToContract ==
  ASSUME ResourcesStay, IInv, Tenancy, Provenance, NEW w \in Worker, Step(w), GoesOn(w),
         Drawn' = Drawn, tokens' = tokens
  PROVE  Contract!Next
<1> DEFINE f == frames[w]
           h == frames'[w]
<1>f. f \in Frame /\ LocalsSet(f) /\ h \in Frame /\ LocalsSet(h)
  BY StepOK DEF IInv, TypeOK, FramesOK
<1>k. \A at \in StorageCall : at # None
  BY NoneIsNoName
<1>n. \A v \in Worker \ {w} : frames'[v] = frames[v]
  BY StepOK DEF IInv, Effect, TypeOK
<1>r. f.at # None => f.rid \in ResourceId /\ Rightful(w)
  BY <1>f, OpOfCall DEF Tenancy
<1>o. f.at # None /\ f.op \in TwinPlaneOp \ {"create_resource", "delete_resource"} =>
        f.by \in TenantId /\ Contract!Owns(f.by, f.rid)
  BY <1>f, <1>r DEF Rightful, LocalsSet, TwinPlaneOp, Contract!Owns
<1>i. KeysInProgress' \subseteq KeysInProgress
  BY NoneBegun DEF IInv
<1>p. f.at \notin {"get_tenant", "create_api_key"} => KeysInProgress' = KeysInProgress
  BY SameKeysInProgress DEF IInv
<1>1. CASE db' = db
  BY <1>1, <1>i, MapsToAbandon
<1>2. CASE f.at = "create_resource" /\ db.resources[f.rid] = None
             /\ db' = InsertResource(db, f.rid, f.by)
  <2>1. f.op = "create_resource" /\ f.at # None
    BY <1>2, <1>f, <1>k, OpOfCall DEF StorageCall
  <2>2. f.by \in TenantId /\ f.rid \in ResourceId
    BY <2>1, <1>f, <1>r DEF LocalsSet, TwinPlaneOp
  <2>3. db' = Contract!InsertResource(db, f.rid, f.by)
    BY <1>2, <2>2, SameStatements
  <2>4. Contract!CreateResource(f.by, f.rid)
    BY <1>2, <1>p, <2>3 DEF Contract!CreateResource, Contract!Owns
  <2>. QED  BY <2>2, <2>4 DEF Contract!Next
<1>3. CASE f.at = "delete_resource" /\ db' = RemoveResource(db, f.rid)
  <2>1. f.op = "delete_resource" /\ f.at # None
    BY <1>3, <1>f, <1>k, OpOfCall DEF StorageCall
  <2>2. f.by \in TenantId /\ f.rid \in ResourceId /\ db.resources[f.rid] = f.by /\ f.op \in Op
    BY <2>1, <1>3, <1>f, <1>r DEF LocalsSet, TwinPlaneOp, Rightful
  <2>3. OneWorker
    BY <2>1, <2>2 DEF ResourcesStay
  <2>4. KeysInProgress = {}
    BY <1>3, <2>3 DEF OneWorker, KeysInProgress
  <2>5. KeysInProgress' = {}
    BY <1>i, <2>4
  <2>6. db' = Contract!RemoveResource(db, f.rid)
    BY <1>3, <2>2, SameStatements
  <2>7. Contract!DeleteResource(f.by, f.rid)
    BY <2>2, <2>4, <2>5, <2>6 DEF Contract!DeleteResource, Contract!Owns
  <2>. QED  BY <2>2, <2>7 DEF Contract!Next
<1>4. CASE f.at = "create_api_key" /\ db' = InsertApiKey(db, f.key, f.rid, f.owner)
  <2>1. f.op = "create_api_key" /\ f.at # None
    BY <1>4, <1>f, <1>k, OpOfCall DEF StorageCall
  <2>2. f.by \in TenantId /\ f.rid \in ResourceId /\ f.key \in KeyId /\ f.owner = f.by
    BY <2>1, <1>4, <1>f, <1>r DEF LocalsSet, TwinPlaneOp, Rightful
  <2>3. f.key \in KeysInProgress
    BY <1>4 DEF KeysInProgress
  <2>4. KeysInProgress' = KeysInProgress \ {f.key}
    <3>1. h.at \notin {"get_tenant", "create_api_key"}
      <4>1. h = Idle => h.at = None
        BY DEF Idle
      <4>. QED  BY <1>4, <1>k, <2>1, <4>1 DEF GoesOn, StorageCall
    <3>2. ASSUME NEW v \in Worker, v # w, frames[v].at \in {"get_tenant", "create_api_key"}
          PROVE  frames[v].key # f.key
      <4>1. frames[v].op = "create_api_key"
        BY <3>2, OpOfCall DEF IInv, TypeOK, FramesOK
      <4>. QED  BY <2>1, <3>2, <4>1 DEF IInv, KeysReserved
    <3>. QED  BY <1>n, <3>1, <3>2 DEF KeysInProgress
  <2>5. Drawn[f.key] = [resource_id |-> f.rid, tenant_id |-> f.by]
    BY <2>1 DEF Provenance, InHand
  <2>6. db' = Contract!InsertApiKey(db, f.key, f.rid, f.by)
    BY <1>4, <2>2, SameStatements
  <2>7. Contract!Owns(f.by, f.rid)
    BY <2>1, <1>o DEF TwinPlaneOp
  <2>8. Contract!CreateApiKey(f.by, f.rid, f.key)
    BY <2>3, <2>4, <2>5, <2>6, <2>7 DEF Contract!CreateApiKey
  <2>. QED  BY <2>2, <2>8 DEF Contract!Next
<1>5. CASE f.at = "delete_api_key" /\ db' = RemoveApiKey(db, f.key) /\ db' # db
  <2>1. f.op = "delete_api_key" /\ f.at # None
    BY <1>5, <1>f, <1>k, OpOfCall DEF StorageCall
  <2>2. f.by \in TenantId /\ f.rid \in ResourceId /\ f.key \in KeyId
    BY <2>1, <1>f, <1>r DEF LocalsSet, TwinPlaneOp
  <2>3. db.api_keys[f.key] # None
    BY <1>5, <2>2 DEF RemoveApiKey, IInv, TypeOK, Database
  <2>4. f.key \in KeysOf(db, f.rid)
    BY <1>5, <2>2, <2>3 DEF KeysOf, Provenance, KeysAsDrawn, InHand
  <2>5. /\ f.key \in Contract!KeysOf(db, f.rid)
        /\ db' = Contract!RemoveApiKey(db, f.key)
    BY <1>5, <2>2, <2>4, SameStatements
  <2>6. Contract!Owns(f.by, f.rid) /\ KeysInProgress' = KeysInProgress
    BY <1>5, <2>1, <1>o, <1>p DEF TwinPlaneOp
  <2>7. Contract!DeleteApiKey(f.by, f.rid, f.key)
    BY <2>5, <2>6 DEF Contract!DeleteApiKey
  <2>. QED  BY <2>2, <2>7 DEF Contract!Next
<1>6. CASE f.at = "get_or_create_signing_key" /\ db' # db
  <2>1. /\ f.op \in DataPlaneOp \cup {"token", "jwks"}
        /\ db.signing_keys[f.rid] = None
    BY <1>6, KeypairIsFresh DEF IInv
  <2>2. PICK kid \in Kid :
          /\ db' = InsertSigningKey(db, f.rid, kid)
          /\ \A s \in ResourceId : db.signing_keys[s] # kid
          /\ \A t \in tokens : t.kid # kid
    BY <1>6, KeypairIsFresh DEF IInv
  <2>3. f.at # None /\ f.rid \in ResourceId
    BY <1>6, <1>k, <1>r DEF StorageCall
  <2>4. PICK t \in TenantId : db.resources[f.rid] = t
    <3>1. db.resources[f.rid] # None
      BY <1>f, <1>r, <2>1, <2>3, NoneIsNoValue DEF Rightful, LocalsSet
    <3>. QED  BY <2>3, <3>1 DEF IInv, TypeOK, Database
  <2>5. db' = Contract!InsertSigningKey(db, f.rid, kid)
    BY <2>2, <2>3, SameStatements
  <2>6. Contract!CreateKeypair(t, f.rid, kid)
    BY <1>6, <1>p, <2>1, <2>2, <2>4, <2>5 DEF Contract!CreateKeypair, Contract!Owns
  <2>. QED  BY <2>3, <2>6 DEF Contract!Next
<1>7. CASE f.at = "create_deployment" /\ f.did \notin DeploymentsOf(db, f.rid)
             /\ db' = InsertDeployment(db, f.rid, f.did, f.model)
  <2>1. f.op = "create_deployment" /\ f.at # None
    BY <1>7, <1>f, <1>k, OpOfCall DEF StorageCall
  <2>2. f.by \in TenantId /\ f.rid \in ResourceId /\ f.did \in DeploymentId /\ f.model \in Model
    BY <2>1, <1>f, <1>r DEF LocalsSet, TwinPlaneOp
  <2>3. /\ f.did \notin Contract!DeploymentsOf(db, f.rid)
        /\ db' = Contract!InsertDeployment(db, f.rid, f.did, f.model)
    BY <1>7, <2>2, SameStatements
  <2>4. Contract!Owns(f.by, f.rid) /\ KeysInProgress' = KeysInProgress
    BY <1>7, <2>1, <1>o, <1>p DEF TwinPlaneOp
  <2>5. Contract!CreateDeployment(f.by, f.rid, f.did, f.model)
    BY <2>3, <2>4 DEF Contract!CreateDeployment
  <2>. QED  BY <2>2, <2>5 DEF Contract!Next
<1>8. CASE f.at = "delete_deployment" /\ db' = RemoveDeployment(db, f.rid, f.did) /\ db' # db
  <2>1. f.op = "delete_deployment" /\ f.at # None
    BY <1>8, <1>f, <1>k, OpOfCall DEF StorageCall
  <2>2. f.by \in TenantId /\ f.rid \in ResourceId /\ f.did \in DeploymentId
    BY <2>1, <1>f, <1>r DEF LocalsSet, TwinPlaneOp
  <2>3. f.did \in DeploymentsOf(db, f.rid)
    BY <1>8, <2>2 DEF DeploymentsOf, RemoveDeployment, IInv, TypeOK, Database
  <2>4. /\ f.did \in Contract!DeploymentsOf(db, f.rid)
        /\ db' = Contract!RemoveDeployment(db, f.rid, f.did)
    BY <1>8, <2>2, <2>3, SameStatements
  <2>5. Contract!Owns(f.by, f.rid) /\ KeysInProgress' = KeysInProgress
    BY <1>8, <2>1, <1>o, <1>p DEF TwinPlaneOp
  <2>6. Contract!DeleteDeployment(f.by, f.rid, f.did)
    BY <2>4, <2>5 DEF Contract!DeleteDeployment
  <2>. QED  BY <2>2, <2>6 DEF Contract!Next
<1>9. TableStep(w)
  BY StepWrites DEF IInv
<1>. QED  BY <1>1, <1>2, <1>3, <1>4, <1>5, <1>6, <1>7, <1>8, <1>9 DEF TableStep

\* A token that is sent is the contract's, for a key of its owner.
LEMMA TokenMapsToContract ==
  ASSUME ResourcesStay, IInv, Tenancy, Provenance, NEW w \in Worker, Step(w), GoesOn(w),
         Drawn' = Drawn, tokens' # tokens
  PROVE  Contract!Next
<1> DEFINE f == frames[w]
<1>f. f \in Frame /\ LocalsSet(f)
  BY DEF IInv, TypeOK, FramesOK
<1>1. /\ f.op = "token" /\ f.status = "200" /\ f.at # None
      /\ tokens' = tokens \cup {TokenOf(f)}
  <2>1. tokens \subseteq tokens' /\ \A t \in tokens' \ tokens :
          f.op = "token" /\ f.status = "200" /\ t = TokenOf(f) /\ f.at # None
    BY StepWrites DEF IInv, OutputStep
  <2>. QED  BY <2>1
<1>2. f.at = "append_log"
  BY <1>f, <1>1, NoneIsNoName DEF LocalsSet, Status
<1>3. db' = db
  BY <1>2, StepWrites DEF IInv, TableStep
<1>4. /\ f.rid \in ResourceId /\ f.owner \in TenantId /\ f.cred.client_id \in KeyId
      /\ f.kid \in Kid
  BY <1>f, <1>1, OpOfCall DEF LocalsSet
<1>5. db.resources[f.rid] = f.owner
  BY <1>1 DEF Tenancy, Rightful
<1>6. /\ Drawn[f.cred.client_id] = [resource_id |-> f.rid, tenant_id |-> f.owner]
      /\ f.cred.client_id \notin KeysInProgress
      /\ db.signing_keys[f.rid] = f.kid /\ f.kid # None
  BY <1>1, <1>4, NoneIsNoValue DEF Provenance, InHand
<1>7. KeysInProgress' = KeysInProgress
  BY <1>2, SameKeysInProgress DEF IInv
<1>8. Contract!IssueToken(f.owner, f.rid, f.cred.client_id)
  BY <1>1, <1>3, <1>5, <1>6, <1>7 DEF Contract!IssueToken, Contract!Owns, TokenOf
<1>. QED  BY <1>4, <1>8 DEF Contract!Next

\* Every step of a worker, and a crash, is a step of the contract.
LEMMA StepMapsToContract ==
  ASSUME ResourcesStay
  PROVE  IInv /\ Tenancy /\ Provenance /\ [Next]_vars => [Contract!Next]_Contract!vars
<1> SUFFICES ASSUME IInv, Tenancy, Provenance, [Next]_vars
             PROVE  [Contract!Next]_Contract!vars
  OBVIOUS
<1>1. CASE Crash
  <2>1. UNCHANGED << db, tokens >> /\ Drawn' = Drawn
    BY <1>1 DEF Crash, Drawn
  <2>2. KeysInProgress' = {}
    BY <1>1, NoneIsNoName DEF Crash, KeysInProgress, Idle, StorageCall
  <2>. QED  BY <2>1, <2>2, MapsToAbandon
<1>2. ASSUME NEW w \in Worker, Step(w)
      PROVE  Contract!Next
  <2>1. CASE DrawsKey(w)
    <3> DEFINE h == frames'[w]
    <3>1. \A v \in Worker \ {w} : frames'[v] = frames[v]
      BY <1>2, StepOK DEF IInv, Effect, TypeOK
    <3>2. KeysInProgress' = KeysInProgress \cup {h.key}
      BY <2>1, <3>1, NoneIsNoName DEF DrawsKey, KeysInProgress, StorageCall
    <3>3. Drawn[h.key] = None
      BY <2>1 DEF DrawsKey, Drawn
    <3>4. Contract!DrawApiKey(h.by, h.rid, h.key)
      BY <2>1, <3>2, <3>3 DEF DrawsKey, Contract!DrawApiKey, Contract!Owns
    <3>. QED  BY <2>1, <3>4 DEF DrawsKey, Contract!Next
  <2>2. CASE Drawn' = Drawn /\ GoesOn(w)
    BY <1>2, <2>2, WriteMapsToContract, TokenMapsToContract
  <2>. QED  BY <1>2, <2>1, <2>2, StepGoesOn DEF IInv
<1>3. CASE UNCHANGED vars
  BY <1>3 DEF vars, Contract!vars, Drawn, KeysInProgress
<1>. QED  BY <1>1, <1>2, <1>3 DEF Next, Step

\* So does its beginning.
LEMMA InitMapsToContract == Init => Contract!Init /\ Provenance
<1> SUFFICES ASSUME Init PROVE Contract!Init /\ Provenance
  OBVIOUS
<1>1. Drawn = [k \in KeyId |-> None]
  BY DEF Init, Drawn
<1>2. KeysInProgress = {}
  BY NoneIsNoName DEF Init, KeysInProgress, Idle, StorageCall
<1>3. Contract!Init
  BY <1>1, <1>2, SameStatements DEF Init, Contract!Init
<1>4. Provenance
  BY NoneIsNoName DEF Init, Provenance, KeysAsDrawn, InHand, Idle, EmptyDatabase,
     StorageCall, Endpoint
<1>. QED  BY <1>3, <1>4

\* Tenants act atomically (twin_plane/routes.py:10-11, auth.py:12-15): whatever the
\* handlers' storage calls interleave with, fail at or die between, the tables, the api
\* keys and the tokens change as the contract has it.  For one synchronous worker, and
\* for threads while no resource is deleted.
THEOREM ActsAtomically ==
  ASSUME ResourcesStay
  PROVE  Spec => TenantsActAtomically
<1>1. Init => Contract!Init /\ Provenance
  BY InitMapsToContract
<1>2. IInv /\ Tenancy /\ Provenance /\ [Next]_vars => Provenance'
  BY NextProvenance
<1>3. IInv /\ Tenancy /\ Provenance /\ [Next]_vars => [Contract!Next]_Contract!vars
  BY StepMapsToContract
<1>4. Spec => [](IInv /\ Tenancy)
  BY AlwaysTenancy
<1>. QED  BY <1>1, <1>2, <1>3, <1>4, PTL DEF Spec, TenantsActAtomically, Contract!Spec

\* By the contract, a keypair signs for one owner of its resource.
LEMMA ContractKeepsTokens ==
  ASSUME IInv, RowsRightful, VerifiedTokensNameTheOwner, [Contract!Next]_Contract!vars
  PROVE  VerifiedTokensNameTheOwner'
<1>t. \A t \in tokens : t.resource_id \in ResourceId /\ t.kid \in Kid /\ t.kid # None
  BY NoneIsNoValue DEF IInv, TypeOK, Token
<1>1. CASE UNCHANGED << db, tokens >>
  BY <1>1 DEF VerifiedTokensNameTheOwner
<1>2. ASSUME NEW t \in TenantId, NEW r \in ResourceId, Contract!CreateResource(t, r)
      PROVE  VerifiedTokensNameTheOwner'
  <2>1. tokens' = tokens /\ db.resources[r] = None /\ db' = InsertResource(db, r, t)
    BY <1>2, SameStatements DEF Contract!CreateResource, Contract!Owns
  <2>2. db'.signing_keys = db.signing_keys /\ db'.resources = [db.resources EXCEPT ![r] = t]
    BY <2>1 DEF InsertResource, IInv, TypeOK, Database
  <2>3. \A s \in ResourceId : db.signing_keys[s] # None => db'.resources[s] = db.resources[s]
    BY <2>1, <2>2 DEF RowsRightful, IInv, TypeOK, Database
  <2>. QED  BY <1>t, <2>1, <2>2, <2>3 DEF VerifiedTokensNameTheOwner
<1>3. ASSUME NEW t \in TenantId, NEW r \in ResourceId, Contract!DeleteResource(t, r)
      PROVE  VerifiedTokensNameTheOwner'
  <2>1. tokens' = tokens /\ db' = RemoveResource(db, r)
    BY <1>3, SameStatements DEF Contract!DeleteResource
  <2>2. /\ db'.resources = [db.resources EXCEPT ![r] = None]
        /\ db'.signing_keys = [db.signing_keys EXCEPT ![r] = None]
    BY <2>1, RemoveResourceEffect DEF IInv, TypeOK
  <2>. QED  BY <1>t, <2>1, <2>2 DEF VerifiedTokensNameTheOwner, IInv, TypeOK, Database
<1>4. ASSUME NEW t \in TenantId, NEW r \in ResourceId, NEW k \in KeyId,
             Contract!CreateApiKey(t, r, k) \/ Contract!DeleteApiKey(t, r, k)
      PROVE  VerifiedTokensNameTheOwner'
  <2>1. /\ tokens' = tokens
        /\ db' = InsertApiKey(db, k, r, t) \/ db' = RemoveApiKey(db, k)
    BY <1>4, SameStatements DEF Contract!CreateApiKey, Contract!DeleteApiKey
  <2>2. db'.resources = db.resources /\ db'.signing_keys = db.signing_keys
    BY <2>1 DEF InsertApiKey, RemoveApiKey, IInv, TypeOK, Database
  <2>. QED  BY <2>1, <2>2 DEF VerifiedTokensNameTheOwner
<1>5. ASSUME NEW t \in TenantId, NEW r \in ResourceId, NEW d \in DeploymentId,
             \/ \E m \in Model : Contract!CreateDeployment(t, r, d, m)
             \/ Contract!DeleteDeployment(t, r, d)
      PROVE  VerifiedTokensNameTheOwner'
  <2>1. /\ tokens' = tokens
        /\ \/ \E m \in Model : db' = InsertDeployment(db, r, d, m)
           \/ db' = RemoveDeployment(db, r, d)
    BY <1>5, SameStatements DEF Contract!CreateDeployment, Contract!DeleteDeployment
  <2>2. db'.resources = db.resources /\ db'.signing_keys = db.signing_keys
    BY <2>1 DEF InsertDeployment, RemoveDeployment, IInv, TypeOK, Database
  <2>. QED  BY <2>1, <2>2 DEF VerifiedTokensNameTheOwner
<1>6. ASSUME NEW t \in TenantId, NEW r \in ResourceId, NEW kid \in Kid,
             Contract!CreateKeypair(t, r, kid)
      PROVE  VerifiedTokensNameTheOwner'
  <2>1. /\ tokens' = tokens /\ db' = InsertSigningKey(db, r, kid)
        /\ \A token \in tokens : token.kid # kid
    BY <1>6, SameStatements DEF Contract!CreateKeypair
  <2>2. /\ db'.resources = db.resources
        /\ db'.signing_keys = [db.signing_keys EXCEPT ![r] = kid]
    BY <2>1 DEF InsertSigningKey, IInv, TypeOK, Database
  <2>. QED  BY <1>t, <2>1, <2>2 DEF VerifiedTokensNameTheOwner, IInv, TypeOK, Database
<1>7. ASSUME NEW t \in TenantId, NEW r \in ResourceId, NEW k \in KeyId,
             Contract!IssueToken(t, r, k)
      PROVE  VerifiedTokensNameTheOwner'
  BY <1>7 DEF Contract!IssueToken, Contract!Owns, VerifiedTokensNameTheOwner
<1>8. ASSUME NEW t \in TenantId, NEW r \in ResourceId, NEW k \in KeyId,
             Contract!DrawApiKey(t, r, k)
      PROVE  UNCHANGED << db, tokens >>
  BY <1>8 DEF Contract!DrawApiKey
<1>9. Contract!AbandonApiKeys => UNCHANGED << db, tokens >>
  BY DEF Contract!AbandonApiKeys
<1>10. Contract!Next => VerifiedTokensNameTheOwner'
  BY <1>1, <1>2, <1>3, <1>4, <1>5, <1>6, <1>7, <1>8, <1>9 DEF Contract!Next
<1>. QED  BY <1>1, <1>10 DEF Contract!vars

\* So the JWKS of a resource (routes/well_known.py) verifies only tokens that name its
\* owner, though a resource may be deleted and its name taken by another tenant.
THEOREM JwksVerifiesOwnersTokens ==
  ASSUME ResourcesStay
  PROVE  Spec => []VerifiedTokensNameTheOwner
<1>1. Init => VerifiedTokensNameTheOwner
  BY DEF Init, VerifiedTokensNameTheOwner
<1>2. Init => Contract!Init /\ Provenance
  BY InitMapsToContract
<1>3. IInv /\ Tenancy /\ Provenance /\ [Next]_vars =>
        Provenance' /\ [Contract!Next]_Contract!vars
  BY NextProvenance, StepMapsToContract
<1>4. IInv /\ Tenancy /\ VerifiedTokensNameTheOwner /\ [Contract!Next]_Contract!vars =>
        VerifiedTokensNameTheOwner'
  BY ContractKeepsTokens DEF Tenancy
<1>5. Spec => [](IInv /\ Tenancy)
  BY AlwaysTenancy
<1>. QED  BY <1>1, <1>2, <1>3, <1>4, <1>5, PTL DEF Spec
=============================================================================
