--------------------------- MODULE AoaiTwin_proofs ---------------------------
(***************************************************************************)
(* Theorems about the whole service, for every set of resources, tenants,  *)
(* keys, workers and endpoints.                                            *)
(***************************************************************************)
EXTENDS AoaiTwin, Tables_proofs

---------------------------------------------------------------------------
(* What the proofs carry from step to step: the storage calls each endpoint *)
(* makes, and the locals its handler has set by then.                       *)

CallsOf(op) ==
  CASE op = "create_resource" -> {"create_resource", "get_resource", "append_log"}
    [] op = "delete_resource" -> {"delete_resource", "append_log"}
    [] op = "create_api_key" -> {"get_tenant", "create_api_key", "append_log"}
    [] op = "delete_api_key" -> {"list_api_keys", "delete_api_key", "append_log"}
    [] op = "create_deployment" -> {"get_deployment", "create_deployment", "append_log"}
    [] op = "delete_deployment" -> {"get_deployment", "delete_deployment", "append_log"}
    [] op = "token" -> {"get_api_key_by_hash", "get_or_create_signing_key", "append_log"}
    [] op = "jwks" -> {"get_or_create_signing_key", "append_log"}
    [] op = "openid_configuration" -> {"append_log"}
    [] op \in DataPlaneOp ->
         { "get_or_create_signing_key", "get_api_key_by_hash", "get_signing_key",
           "append_auth_log", "get_deployment", "create_request", "append_log" }
    [] OTHER -> {None}

LocalsSet(f) ==
  /\ f.at \in CallsOf(f.op)
  /\ f.op # None => f.rid \in ResourceId
  /\ f.kid # None => f.op # None
  /\ f.op \in TwinPlaneOp => f.by \in TenantId /\ f.kid = None
  /\ f.op \in {"create_api_key", "delete_api_key"} => f.key \in KeyId
  /\ f.op \in {"create_deployment", "delete_deployment"} => f.did \in DeploymentId
  /\ f.op = "create_deployment" => f.model \in Model
  /\ f.op \in DataPlaneOp => f.owner \in TenantId /\ f.did \in DeploymentId /\ f.kid = None
  /\ f.op = "token" => f.owner \in TenantId /\ f.cred \in Credential
                         /\ f.cred.kind = "client"
  /\ f.op = "token" /\ f.at = "get_or_create_signing_key" => f.cred.client_id \in KeyId
  /\ f.op = "token" /\ f.status = "200" => f.cred.client_id \in KeyId /\ f.kid \in Kid
  /\ f.op = "token" /\ f.at # "append_log" => f.kid = None /\ f.status = None
  /\ f.at = "append_log" => f.status \in Status

FramesOK == \A w \in Worker : LocalsSet(frames[w])

\* An api key in the table was drawn before, and one being created belongs to
\* the request that drew it and is in the table only once inserted.
KeysReserved ==
  /\ \A k \in KeyId : db.api_keys[k] # None => generated[k] # None
  /\ \A w \in Worker : frames[w].op = "create_api_key" =>
       /\ generated[frames[w].key] # None
       /\ frames[w].at # "append_log" => db.api_keys[frames[w].key] = None
       /\ \A v \in Worker \ {w} :
            frames[v].op = "create_api_key" => frames[v].key # frames[w].key

---------------------------------------------------------------------------
(* The frames. *)

\* A worker between requests is a frame with nothing in it.
LEMMA IdleType == Idle \in Frame
BY DEF Idle, Frame

\* TypeOK without frames and reply, which Continue and Respond account for.
TablesOK ==
  /\ db \in Database
  /\ appended \in LogRow \cup RequestRow \cup {None}
  /\ generated \in [KeyId -> Generated \cup {None}]
  /\ tokens \subseteq Token
  /\ retired \subseteq Kid

\* It satisfies what the proofs ask of the locals of a request.
LEMMA IdleOK == Idle \in Frame /\ LocalsSet(Idle)
BY NoneIsNoValue, NoneIsNoName
   DEF Idle, Frame, LocalsSet, CallsOf, TwinPlaneOp, DataPlaneOp, Endpoint, StorageCall, Status

\* A handler that goes on keeps the invariant if its new locals do.
LEMMA ContinueOK ==
  ASSUME TypeOK, FramesOK, NEW w \in Worker, NEW f \in Frame, LocalsSet(f),
         Continue(w, f), TablesOK'
  PROVE  TypeOK' /\ FramesOK'
<1>1. frames' \in [Worker -> Frame] /\ reply' = None
  BY DEF TypeOK, Continue
<1>2. \A v \in Worker : LocalsSet(frames'[v])
  BY DEF TypeOK, FramesOK, Continue
<1>. QED  BY <1>1, <1>2 DEF FramesOK, TypeOK, TablesOK

\* A handler that returns keeps it whatever it did.
LEMMA RespondOK ==
  ASSUME TypeOK, FramesOK, NEW w \in Worker, NEW f \in Frame, NEW s \in Status,
         Respond(w, f, s), TablesOK'
  PROVE  TypeOK' /\ FramesOK'
<1>1. /\ frames' \in [Worker -> Frame]
      /\ reply' \in [frame : Frame, status : Status]
  BY IdleOK DEF TypeOK, Respond
<1>2. \A v \in Worker : LocalsSet(frames'[v])
  BY IdleOK DEF TypeOK, FramesOK, Respond
<1>. QED  BY <1>1, <1>2 DEF FramesOK, TypeOK, TablesOK

\* A step that only reads leaves tables and outputs with their types.
LEMMA OnlyReadsOK ==
  ASSUME TypeOK, OnlyReads
  PROVE  TablesOK'
BY DEF TypeOK, OnlyReads, NothingAppended, TablesOK

\* emit appends a well-formed row once the handler knows its resource, and its tenant
\* unless it serves anybody.
LEMMA LogOK ==
  ASSUME NEW f \in Frame, f.rid \in ResourceId,
         NEW operation \in Endpoint \cup {"validate"},
         NEW outcome \in {"success", "failure"},
         \/ f.by \in TenantId \/ f.owner \in TenantId
         \/ operation \in {"jwks", "openid_configuration"} /\ outcome = "success",
         Log(f, operation, outcome)
  PROVE  appended' \in LogRow
BY NoneIsNoValue DEF Log, LogRow, Frame

\* A Twin Plane request begins with its tenant and its resource.
LEMMA NewFrameOK ==
  ASSUME NEW op \in TwinPlaneOp, NEW t \in TenantId, NEW r \in ResourceId
  PROVE  NewFrame(op, t, r) \in Frame
BY NoneIsNoValue DEF NewFrame, Idle, Frame, TwinPlaneOp, Endpoint

\* The ownership check leaves a well-formed frame, or answers 404.
LEMMA OwnerCheckOK ==
  ASSUME TypeOK, FramesOK, NEW w \in Worker, NEW f \in Frame, NEW call \in StorageCall,
         EnsureTenantOwnsResource(w, f, call), LocalsSet([f EXCEPT !.at = call]), TablesOK'
  PROVE  TypeOK' /\ FramesOK'
<1>1. [f EXCEPT !.at = call] \in Frame
  BY DEF Frame
<1>2. CASE Respond(w, f, "404")
  BY <1>2, RespondOK DEF Status
<1>3. CASE Continue(w, [f EXCEPT !.at = call])
  BY <1>1, <1>3, ContinueOK
<1>. QED  BY <1>2, <1>3 DEF EnsureTenantOwnsResource

---------------------------------------------------------------------------
(* Every step of the Twin Plane keeps the types and the locals. *)

\* The storage call a handler makes next tells the endpoint, where only one makes it.
LEMMA OpOfCall ==
  ASSUME NEW f \in Frame, LocalsSet(f)
  PROVE  /\ f.at # None => f.rid \in ResourceId
         /\ f.at \in {"create_resource", "get_resource"} => f.op = "create_resource"
         /\ f.at = "delete_resource" => f.op = "delete_resource"
         /\ f.at \in {"get_tenant", "create_api_key"} => f.op = "create_api_key"
         /\ f.at \in {"list_api_keys", "delete_api_key"} => f.op = "delete_api_key"
         /\ f.at = "create_deployment" => f.op = "create_deployment"
         /\ f.at = "delete_deployment" => f.op = "delete_deployment"
         /\ f.at \in {"get_signing_key", "append_auth_log", "create_request"} =>
              f.op \in DataPlaneOp
<1>1. f.op \in Endpoint \/ f.at = None
  BY DEF Frame, LocalsSet, CallsOf, Endpoint, DataPlaneOp
<1>2. f.op = None => f.at = None
  BY NoneIsNoName DEF LocalsSet, CallsOf, Endpoint, DataPlaneOp
<1>3. CASE f.op = None
  BY <1>2, <1>3, NoneIsNoName DEF StorageCall
<1>4. CASE f.op \in Endpoint
  BY <1>4, NoneIsNoName DEF LocalsSet, CallsOf, Endpoint, DataPlaneOp, StorageCall
<1>. QED  BY <1>3, <1>4 DEF Frame

\* Every step of the management endpoints keeps types and frames.
LEMMA TwinPlaneOK ==
  ASSUME TypeOK, FramesOK, KeysReserved, NEW w \in Worker, TwinPlaneNext(w)
  PROVE  TypeOK' /\ FramesOK'
<1> DEFINE f == frames[w]
<1>f. f \in Frame /\ LocalsSet(f)
  BY DEF TypeOK, FramesOK
<1>1. CASE BeginCreateResource(w)
  <2>1. PICK t \in TenantId, r \in ResourceId :
          LET g == NewFrame("create_resource", t, r)
          IN  \/ Respond(w, g, "409")
              \/ Continue(w, [g EXCEPT !.at = "create_resource"])
    BY <1>1 DEF BeginCreateResource
  <2> DEFINE g == NewFrame("create_resource", t, r)
             h == [g EXCEPT !.at = "create_resource"]
  <2>2. g \in Frame
    BY NewFrameOK DEF TwinPlaneOp
  <2>3. h \in Frame /\ LocalsSet(h)
    BY <2>2 DEF NewFrame, Idle, StorageCall, Frame, LocalsSet, CallsOf, TwinPlaneOp, DataPlaneOp, Status
  <2>4. TablesOK'
    BY <1>1, OnlyReadsOK DEF BeginCreateResource
  <2>. QED  BY <2>1, <2>2, <2>3, <2>4, ContinueOK, RespondOK DEF Status
<1>2. CASE CreateResource(w)
  <2>1. f.op = "create_resource"
    BY <1>2, <1>f, OpOfCall DEF CreateResource
  <2> DEFINE g == [f EXCEPT !.at = "get_resource"]
  <2>2. g \in Frame
    BY <1>f DEF Frame, StorageCall, Status
  <2>3. LocalsSet(g)
    BY <2>1, <1>f DEF Frame, LocalsSet, CallsOf, TwinPlaneOp, DataPlaneOp, Status
  <2>4. TablesOK'
    BY <1>2, <2>1, <1>f, OpOfCall, NoneIsNoName, InsertResourceType
    DEF CreateResource, StorageCall, LocalsSet, TwinPlaneOp, NothingAppended, TypeOK, TablesOK
  <2>. QED  BY <1>f, <1>2, <2>2, <2>3, <2>4, ContinueOK, RespondOK DEF CreateResource, Status
<1>3. CASE RereadResource(w)
  <2>1. f.op = "create_resource"
    BY <1>3, <1>f, OpOfCall DEF RereadResource
  <2> DEFINE o == IF db.resources[f.rid] # None THEN db.resources[f.rid] ELSE f.by
             g == [f EXCEPT !.at = "append_log", !.status = "201", !.owner = o]
  <2>2. o \in TenantId \cup {None}
    BY <1>3, <2>1, <1>f, OpOfCall, NoneIsNoName
    DEF RereadResource, StorageCall, TypeOK, Database, LocalsSet, TwinPlaneOp
  <2> HIDE DEF o
  <2>3. g \in Frame
    BY <2>2, <1>f DEF Frame, StorageCall, Status
  <2>4. LocalsSet(g)
    BY <2>1, <1>f DEF Frame, LocalsSet, CallsOf, TwinPlaneOp, DataPlaneOp, Status
  <2>5. Continue(w, g)
    BY <1>3 DEF RereadResource, o
  <2>. QED  BY <1>3, <2>3, <2>4, <2>5, OnlyReadsOK, ContinueOK DEF RereadResource
<1>4. CASE BeginDeleteResource(w)
  <2>1. PICK t \in TenantId, r \in ResourceId :
          EnsureTenantOwnsResource(w, NewFrame("delete_resource", t, r), "delete_resource")
    BY <1>4 DEF BeginDeleteResource
  <2> DEFINE g == NewFrame("delete_resource", t, r)
  <2>2. g \in Frame
    BY NewFrameOK DEF TwinPlaneOp, Frame
  <2>3. LocalsSet([g EXCEPT !.at = "delete_resource"])
    BY <2>2 DEF NewFrame, Idle, StorageCall, Frame, LocalsSet, CallsOf, TwinPlaneOp, DataPlaneOp, Status
  <2>4. TablesOK'
    BY <1>4, OnlyReadsOK DEF BeginDeleteResource
  <2>. QED  BY <2>1, <2>2, <2>3, <2>4, OwnerCheckOK DEF StorageCall
<1>5. CASE DeleteResource(w)
  <2>1. f.op = "delete_resource"
    BY <1>5, <1>f, OpOfCall DEF DeleteResource
  <2> DEFINE g == [f EXCEPT !.at = "append_log", !.status = "200"]
  <2>2. g \in Frame
    BY <1>f DEF Frame, StorageCall, Status
  <2>3. LocalsSet(g)
    BY <2>1, <1>f DEF Frame, LocalsSet, CallsOf, TwinPlaneOp, DataPlaneOp, Status
  <2>4. f.rid \in ResourceId
    BY <1>5, <1>f, OpOfCall, NoneIsNoName DEF DeleteResource, StorageCall
  <2>5. db' \in Database
    BY <1>5, <2>4, RemoveResourceEffect DEF DeleteResource, TypeOK
  <2>6. retired' \subseteq Kid
    BY <1>5, <2>4 DEF DeleteResource, TypeOK, Database
  <2>7. TablesOK'
    BY <1>5, <2>5, <2>6 DEF DeleteResource, NothingAppended, TypeOK, TablesOK
  <2>. QED  BY <1>f, <1>5, <2>2, <2>3, <2>7, ContinueOK, RespondOK DEF DeleteResource, Status
<1>6. CASE BeginCreateApiKey(w)
  <2>1. PICK t \in TenantId, r \in ResourceId, k \in KeyId :
          EnsureTenantOwnsResource(w, [NewFrame("create_api_key", t, r) EXCEPT !.key = k], "get_tenant")
    BY <1>6 DEF BeginCreateApiKey
  <2> DEFINE g == [NewFrame("create_api_key", t, r) EXCEPT !.key = k]
  <2>2. g \in Frame
    BY NewFrameOK DEF TwinPlaneOp, Frame
  <2>3. LocalsSet([g EXCEPT !.at = "get_tenant"])
    BY <2>2 DEF NewFrame, Idle, StorageCall, Frame, LocalsSet, CallsOf, TwinPlaneOp, DataPlaneOp, Status
  <2>4. TablesOK'
    BY <1>6, NoneIsNoValue DEF BeginCreateApiKey, NothingAppended, TypeOK, TablesOK, Generated
  <2>. QED  BY <2>1, <2>2, <2>3, <2>4, OwnerCheckOK DEF StorageCall
<1>7. CASE LookUpTenant(w)
  <2>1. f.op = "create_api_key"
    BY <1>7, <1>f, OpOfCall DEF LookUpTenant
  <2> DEFINE o == db.resources[f.rid]
             g == [f EXCEPT !.at = "create_api_key", !.owner = o]
  <2>2. o \in TenantId \cup {None}
    BY <2>1, <1>f, NoneIsNoName DEF TypeOK, Database, LocalsSet, Endpoint
  <2> HIDE DEF o
  <2>3. g \in Frame
    BY <2>2, <1>f DEF Frame, StorageCall, Status
  <2>4. LocalsSet(g)
    BY <2>1, <1>f DEF Frame, LocalsSet, CallsOf, TwinPlaneOp, DataPlaneOp, Status
  <2>5. Continue(w, g)
    BY <1>7 DEF LookUpTenant, o
  <2>. QED  BY <1>7, <2>3, <2>4, <2>5, OnlyReadsOK, ContinueOK DEF LookUpTenant
<1>8. CASE CreateApiKey(w)
  <2>1. f.op = "create_api_key"
    BY <1>8, <1>f, OpOfCall DEF CreateApiKey
  <2> DEFINE g == [f EXCEPT !.at = "append_log", !.status = "201"]
  <2>2. g \in Frame
    BY <1>f DEF Frame, StorageCall, Status
  <2>3. LocalsSet(g)
    BY <2>1, <1>f DEF Frame, LocalsSet, CallsOf, TwinPlaneOp, DataPlaneOp, Status
  <2>4. TablesOK'
    BY <1>8, <2>1, <1>f, InsertApiKeyType, NoneIsNoName
    DEF CreateApiKey, LocalsSet, Endpoint, Frame, NothingAppended, TypeOK, TablesOK
  <2>. QED  BY <1>f, <1>8, <2>2, <2>3, <2>4, ContinueOK, RespondOK DEF CreateApiKey, Status
<1>9. CASE BeginDeleteApiKey(w)
  <2>1. PICK t \in TenantId, r \in ResourceId, k \in KeyId :
          EnsureTenantOwnsResource(w, [NewFrame("delete_api_key", t, r) EXCEPT !.key = k], "list_api_keys")
    BY <1>9 DEF BeginDeleteApiKey
  <2> DEFINE g == [NewFrame("delete_api_key", t, r) EXCEPT !.key = k]
  <2>2. g \in Frame
    BY NewFrameOK DEF TwinPlaneOp, Frame
  <2>3. LocalsSet([g EXCEPT !.at = "list_api_keys"])
    BY <2>2 DEF NewFrame, Idle, StorageCall, Frame, LocalsSet, CallsOf, TwinPlaneOp, DataPlaneOp, Status
  <2>4. TablesOK'
    BY <1>9, OnlyReadsOK DEF BeginDeleteApiKey
  <2>. QED  BY <2>1, <2>2, <2>3, <2>4, OwnerCheckOK DEF StorageCall
<1>10. CASE FindApiKey(w)
  <2>1. f.op = "delete_api_key"
    BY <1>10, <1>f, OpOfCall DEF FindApiKey
  <2> DEFINE g == [f EXCEPT !.at = "delete_api_key"]
  <2>2. g \in Frame
    BY <1>f DEF Frame, StorageCall, Status
  <2>3. LocalsSet(g)
    BY <2>1, <1>f DEF Frame, LocalsSet, CallsOf, TwinPlaneOp, DataPlaneOp, Status
  <2>4. TablesOK'
    BY <1>10, OnlyReadsOK DEF FindApiKey
  <2>. QED  BY <1>f, <1>10, <2>2, <2>3, <2>4, ContinueOK, RespondOK DEF FindApiKey, Status
<1>11. CASE DeleteApiKey(w)
  <2>1. f.op = "delete_api_key"
    BY <1>11, <1>f, OpOfCall DEF DeleteApiKey
  <2> DEFINE g == [f EXCEPT !.at = "append_log", !.status = "200"]
  <2>2. g \in Frame
    BY <1>f DEF Frame, StorageCall, Status
  <2>3. LocalsSet(g)
    BY <2>1, <1>f DEF Frame, LocalsSet, CallsOf, TwinPlaneOp, DataPlaneOp, Status
  <2>4. TablesOK'
    BY <1>11, <2>1, <1>f, RemoveApiKeyType
    DEF DeleteApiKey, LocalsSet, NothingAppended, TypeOK, TablesOK
  <2>. QED  BY <1>f, <1>11, <2>2, <2>3, <2>4, ContinueOK, RespondOK DEF DeleteApiKey, Status
<1>12. CASE BeginCreateDeployment(w)
  <2>1. PICK t \in TenantId, r \in ResourceId, d \in DeploymentId, m \in Model \cup {None} :
          LET g == [NewFrame("create_deployment", t, r) EXCEPT !.did = d, !.model = m]
          IN  IF m = None /\ db.resources[r] = t
              THEN Respond(w, g, "400")
              ELSE EnsureTenantOwnsResource(w, g, "get_deployment")
    BY <1>12 DEF BeginCreateDeployment
  <2> DEFINE n == NewFrame("create_deployment", t, r)
             g == [n EXCEPT !.did = d, !.model = m]
             h == [g EXCEPT !.at = "get_deployment"]
  <2>2. /\ n \in Frame /\ n.op = "create_deployment" /\ n.rid = r /\ n.by = t
        /\ n.at = None /\ n.kid = None
    BY NewFrameOK DEF TwinPlaneOp, NewFrame, Idle
  <2>3. \/ Respond(w, g, "400")
        \/ Respond(w, g, "404")
        \/ m # None /\ Continue(w, h)
    BY <2>1, <2>2 DEF EnsureTenantOwnsResource, Frame
  <2> HIDE DEF n
  <2>4. g \in Frame
    BY <2>2 DEF Frame
  <2>5. h \in Frame
    BY <2>4 DEF Frame, StorageCall
  <2>6. m # None => LocalsSet(h)
    BY <2>2 DEF Frame, LocalsSet, CallsOf, TwinPlaneOp, DataPlaneOp, Status
  <2>7. TablesOK'
    BY <1>12, OnlyReadsOK DEF BeginCreateDeployment
  <2>. QED  BY <2>3, <2>4, <2>5, <2>6, <2>7, ContinueOK, RespondOK DEF Status
<1>13. CASE BeginDeleteDeployment(w)
  <2>1. PICK t \in TenantId, r \in ResourceId, d \in DeploymentId :
          EnsureTenantOwnsResource(w, [NewFrame("delete_deployment", t, r) EXCEPT !.did = d], "get_deployment")
    BY <1>13 DEF BeginDeleteDeployment
  <2> DEFINE g == [NewFrame("delete_deployment", t, r) EXCEPT !.did = d]
  <2>2. g \in Frame
    BY NewFrameOK DEF TwinPlaneOp, Frame
  <2>3. LocalsSet([g EXCEPT !.at = "get_deployment"])
    BY <2>2 DEF NewFrame, Idle, StorageCall, Frame, LocalsSet, CallsOf, TwinPlaneOp, DataPlaneOp, Status
  <2>4. TablesOK'
    BY <1>13, OnlyReadsOK DEF BeginDeleteDeployment
  <2>. QED  BY <2>1, <2>2, <2>3, <2>4, OwnerCheckOK DEF StorageCall
<1>14. CASE LookUpDeployment(w)
  <2> DEFINE g1 == [f EXCEPT !.at = "create_deployment"]
             g2 == [f EXCEPT !.at = "delete_deployment"]
  <2>1. g1 \in Frame /\ g2 \in Frame
    BY <1>f DEF Frame, StorageCall, Status
  <2>2. f.op = "create_deployment" => LocalsSet(g1)
    BY <1>14, <1>f DEF LookUpDeployment, Frame, LocalsSet, CallsOf, TwinPlaneOp, DataPlaneOp, Status
  <2>3. f.op = "delete_deployment" => LocalsSet(g2)
    BY <1>14, <1>f DEF LookUpDeployment, Frame, LocalsSet, CallsOf, TwinPlaneOp, DataPlaneOp, Status
  <2>4. TablesOK'
    BY <1>14, OnlyReadsOK DEF LookUpDeployment
  <2>. QED  BY <1>f, <1>14, <2>1, <2>2, <2>3, <2>4, ContinueOK, RespondOK
            DEF LookUpDeployment, Status
<1>15. CASE CreateDeployment(w)
  <2>1. f.op = "create_deployment"
    BY <1>15, <1>f, OpOfCall DEF CreateDeployment
  <2> DEFINE g == [f EXCEPT !.at = "append_log", !.status = "201"]
  <2>2. g \in Frame
    BY <1>f DEF Frame, StorageCall, Status
  <2>3. LocalsSet(g)
    BY <2>1, <1>f DEF Frame, LocalsSet, CallsOf, TwinPlaneOp, DataPlaneOp, Status
  <2>4. TablesOK'
    BY <1>15, <2>1, <1>f, InsertDeploymentType, NoneIsNoName
    DEF CreateDeployment, LocalsSet, Endpoint, NothingAppended, TypeOK, TablesOK
  <2>. QED  BY <1>f, <1>15, <2>2, <2>3, <2>4, ContinueOK, RespondOK DEF CreateDeployment, Status
<1>16. CASE DeleteDeployment(w)
  <2>1. f.op = "delete_deployment"
    BY <1>16, <1>f, OpOfCall DEF DeleteDeployment
  <2> DEFINE g == [f EXCEPT !.at = "append_log", !.status = "200"]
  <2>2. g \in Frame
    BY <1>f DEF Frame, StorageCall, Status
  <2>3. LocalsSet(g)
    BY <2>1, <1>f DEF Frame, LocalsSet, CallsOf, TwinPlaneOp, DataPlaneOp, Status
  <2>4. TablesOK'
    BY <1>16, <2>1, <1>f, RemoveDeploymentType, NoneIsNoName
    DEF DeleteDeployment, LocalsSet, Endpoint, NothingAppended, TypeOK, TablesOK
  <2>. QED  BY <1>f, <1>16, <2>2, <2>3, <2>4, ContinueOK, RespondOK DEF DeleteDeployment, Status
<1>17. CASE LogTwinPlane(w)
  <2>1. f.rid \in ResourceId /\ f.status \in Status /\ f.op \in Endpoint /\ f.by \in TenantId
    BY <1>17, <1>f, NoneIsNoName DEF LogTwinPlane, LocalsSet, TwinPlaneOp, Endpoint
  <2>2. appended' \in LogRow
    BY <1>17, <1>f, <2>1, LogOK DEF LogTwinPlane
  <2>3. generated' \in [KeyId -> Generated \cup {None}]
    BY <1>17, <1>f DEF LogTwinPlane, LocalsSet, TypeOK, KeysReserved, Generated
  <2>4. TablesOK'
    BY <1>17, <2>2, <2>3 DEF LogTwinPlane, TypeOK, TablesOK
  <2>. QED  BY <1>17, <1>f, <2>1, <2>4, RespondOK DEF LogTwinPlane
<1>. QED
  BY <1>1, <1>2, <1>3, <1>4, <1>5, <1>6, <1>7, <1>8, <1>9, <1>10, <1>11, <1>12,
     <1>13, <1>14, <1>15, <1>16, <1>17 DEF TwinPlaneNext

---------------------------------------------------------------------------
(* Every step of the identity endpoints does, too. *)

\* ensure_keypair keeps the tables' type.
LEMMA KeypairOK ==
  ASSUME TypeOK, NEW r \in ResourceId, NEW kid \in Kid, GetOrCreateSigningKey(r, kid)
  PROVE  db' \in Database
BY InsertSigningKeyType DEF TypeOK, GetOrCreateSigningKey

\* The token endpoint, the JWKS and discovery keep types and frames.
LEMMA IdentityOK ==
  ASSUME TypeOK, FramesOK, NEW w \in Worker, IdentityNext(w)
  PROVE  TypeOK' /\ FramesOK'
<1> DEFINE f == frames[w]
<1>f. f \in Frame /\ LocalsSet(f)
  BY DEF TypeOK, FramesOK
<1>1. CASE BeginToken(w)
  <2>1. PICK r \in ResourceId, c \in ClientCredentials :
          LET g == [Idle EXCEPT !.op = "token", !.rid = r,
                                !.owner = db.resources[r], !.cred = c]
          IN  \/ Respond(w, g, "404")
              \/ /\ db.resources[r] # None
                 /\ Continue(w, [g EXCEPT !.at = "append_log", !.status = "400"])
              \/ /\ db.resources[r] # None
                 /\ Continue(w, [g EXCEPT !.at = "get_api_key_by_hash"])
    BY <1>1 DEF BeginToken
  <2> DEFINE o == db.resources[r]
  <2>2. o \in TenantId \cup {None}
    BY DEF TypeOK, Database
  <2>3. c \in Credential /\ c.kind = "client"
    BY DEF ClientCredentials, Credential, SentKeys
  <2> HIDE DEF o
  <2> DEFINE g == [Idle EXCEPT !.op = "token", !.rid = r, !.owner = o, !.cred = c]
             h1 == [g EXCEPT !.at = "append_log", !.status = "400"]
             h2 == [g EXCEPT !.at = "get_api_key_by_hash"]
  <2>4. g \in Frame
    BY <2>2, <2>3, IdleOK DEF Frame, Endpoint
  <2>5. h1 \in Frame /\ h2 \in Frame
    <3>1. h1 \in Frame
      BY <2>4 DEF Frame, StorageCall, Status
    <3>2. h2 \in Frame
      BY <2>4 DEF Frame, StorageCall, Status
    <3>. QED  BY <3>1, <3>2
  <2>6. o # None => LocalsSet(h1) /\ LocalsSet(h2)
    <3>1. o # None => LocalsSet(h1)
      BY <2>2, <2>3, NoneIsNoName DEF Idle, Frame, LocalsSet, CallsOf, TwinPlaneOp, DataPlaneOp, Status
    <3>2. o # None => LocalsSet(h2)
      BY <2>2, <2>3, NoneIsNoName DEF Idle, Frame, LocalsSet, CallsOf, TwinPlaneOp, DataPlaneOp, Status
    <3>. QED  BY <3>1, <3>2
  <2>7. TablesOK'
    BY <1>1 DEF BeginToken, Keeps, NothingAppended, TypeOK, TablesOK
  <2>8. \/ Respond(w, g, "404")
        \/ o # None /\ (Continue(w, h1) \/ Continue(w, h2))
    BY <2>1 DEF o
  <2>. QED  BY <2>4, <2>5, <2>6, <2>7, <2>8, ContinueOK, RespondOK DEF Status
<1>2. CASE CheckClient(w)
  <2>1. f.op = "token" /\ f.at = "get_api_key_by_hash"
    BY <1>2 DEF CheckClient
  <2> DEFINE g1 == [f EXCEPT !.at = "append_log", !.status = "401"]
             g2 == [f EXCEPT !.at = "get_or_create_signing_key"]
  <2>2. g1 \in Frame /\ g2 \in Frame
    <3>1. g1 \in Frame
      BY <1>f DEF Frame, StorageCall, Status
    <3>2. g2 \in Frame
      BY <1>f DEF Frame, StorageCall, Status
    <3>. QED  BY <3>1, <3>2
  <2>3. LocalsSet(g1)
    BY <2>1, <1>f DEF Frame, LocalsSet, CallsOf, TwinPlaneOp, DataPlaneOp, Status
  <2>4. f.cred.client_id \in KeyId => LocalsSet(g2)
    BY <2>1, <1>f DEF Frame, LocalsSet, CallsOf, TwinPlaneOp, DataPlaneOp, Status
  <2>5. \/ Continue(w, g1)
        \/ f.cred.client_id \in KeyId /\ Continue(w, g2)
    BY <1>2 DEF CheckClient, KeysOf
  <2>6. TablesOK'
    BY <1>2 DEF CheckClient, Keeps, NothingAppended, TypeOK, TablesOK
  <2>. QED  BY <2>2, <2>3, <2>4, <2>5, <2>6, ContinueOK
<1>3. CASE SignToken(w)
  <2>1. f.op = "token" /\ f.at = "get_or_create_signing_key"
    BY <1>3 DEF SignToken
  <2>2. PICK kid \in Kid :
          /\ GetOrCreateSigningKey(f.rid, kid)
          /\ Continue(w, [f EXCEPT !.at = "append_log", !.status = "200", !.kid = kid])
    BY <1>3 DEF SignToken
  <2> DEFINE g == [f EXCEPT !.at = "append_log", !.status = "200", !.kid = kid]
  <2>3. g \in Frame
    BY <1>f DEF Frame, StorageCall, Status
  <2>4. LocalsSet(g)
    BY <2>1, <1>f, NoneIsNoName DEF Endpoint, Frame, LocalsSet, CallsOf, TwinPlaneOp, DataPlaneOp, Status
  <2>5. db' \in Database
    BY <2>1, <2>2, <1>f, OpOfCall, KeypairOK, NoneIsNoName DEF StorageCall
  <2>6. TablesOK'
    BY <1>3, <2>5 DEF SignToken, Keeps, NothingAppended, TypeOK, TablesOK
  <2>. QED  BY <2>2, <2>3, <2>4, <2>6, ContinueOK
<1>4. CASE LogToken(w)
  <2>1. /\ f.op = "token" /\ f.rid \in ResourceId /\ f.status \in Status
        /\ f.owner \in TenantId
        /\ f.status = "200" => TokenOf(f) \in Token
    BY <1>4, <1>f, NoneIsNoName
       DEF LogToken, LocalsSet, Endpoint, TokenOf, Token
  <2>2. appended' \in LogRow
    BY <1>4, <1>f, <2>1, LogOK DEF LogToken, Endpoint
  <2>3. tokens' \subseteq Token
    BY <1>4, <2>1 DEF LogToken, TypeOK
  <2>4. TablesOK'
    BY <1>4, <2>2, <2>3 DEF LogToken, Keeps, TypeOK, TablesOK
  <2>. QED  BY <1>4, <1>f, <2>1, <2>4, RespondOK DEF LogToken
<1>5. CASE BeginWellKnown(w)
  <2>1. PICK op \in {"jwks", "openid_configuration"}, r \in ResourceId :
          LET g == [Idle EXCEPT !.op = op, !.rid = r]
          IN  \/ Respond(w, g, "404")
              \/ /\ op = "jwks"
                 /\ Continue(w, [g EXCEPT !.at = "get_or_create_signing_key"])
              \/ /\ op = "openid_configuration"
                 /\ Continue(w, [g EXCEPT !.at = "append_log", !.status = "200"])
    BY <1>5 DEF BeginWellKnown
  <2> DEFINE g == [Idle EXCEPT !.op = op, !.rid = r]
             h1 == [g EXCEPT !.at = "get_or_create_signing_key"]
             h2 == [g EXCEPT !.at = "append_log", !.status = "200"]
  <2>2. g \in Frame
    BY IdleOK DEF Frame, Endpoint
  <2>3. h1 \in Frame /\ h2 \in Frame
    <3>1. h1 \in Frame
      BY <2>2 DEF Frame, StorageCall, Status
    <3>2. h2 \in Frame
      BY <2>2 DEF Frame, StorageCall, Status
    <3>. QED  BY <3>1, <3>2
  <2>4. op = "jwks" => LocalsSet(h1)
    BY NoneIsNoName DEF Idle, Frame, LocalsSet, CallsOf, TwinPlaneOp, DataPlaneOp, Status
  <2>5. op = "openid_configuration" => LocalsSet(h2)
    BY DEF Idle, Frame, LocalsSet, CallsOf, TwinPlaneOp, DataPlaneOp, Status
  <2>6. TablesOK'
    BY <1>5 DEF BeginWellKnown, Keeps, NothingAppended, TypeOK, TablesOK
  <2>. QED  BY <2>1, <2>2, <2>3, <2>4, <2>5, <2>6, ContinueOK, RespondOK DEF Status
<1>6. CASE PublishKey(w)
  <2>1. f.op = "jwks" /\ f.at = "get_or_create_signing_key"
    BY <1>6 DEF PublishKey
  <2>2. PICK kid \in Kid :
          /\ GetOrCreateSigningKey(f.rid, kid)
          /\ Continue(w, [f EXCEPT !.at = "append_log", !.status = "200", !.kid = kid])
    BY <1>6 DEF PublishKey
  <2> DEFINE g == [f EXCEPT !.at = "append_log", !.status = "200", !.kid = kid]
  <2>3. g \in Frame
    BY <1>f DEF Frame, StorageCall, Status
  <2>4. LocalsSet(g)
    BY <2>1, <1>f, NoneIsNoName DEF Endpoint, Frame, LocalsSet, CallsOf, TwinPlaneOp, DataPlaneOp, Status
  <2>5. db' \in Database
    BY <2>1, <2>2, <1>f, OpOfCall, KeypairOK, NoneIsNoName DEF StorageCall
  <2>6. TablesOK'
    BY <1>6, <2>5 DEF PublishKey, Keeps, NothingAppended, TypeOK, TablesOK
  <2>. QED  BY <2>2, <2>3, <2>4, <2>6, ContinueOK
<1>7. CASE LogWellKnown(w)
  <2>1. f.rid \in ResourceId /\ f.op \in Endpoint
    BY <1>7, <1>f, OpOfCall, NoneIsNoName DEF LogWellKnown, StorageCall, Endpoint
  <2>2. appended' \in LogRow
    BY <1>7, <1>f, <2>1, LogOK DEF LogWellKnown
  <2>3. TablesOK'
    BY <1>7, <2>2 DEF LogWellKnown, Keeps, TypeOK, TablesOK
  <2>. QED  BY <1>7, <1>f, <2>3, RespondOK DEF LogWellKnown, Status
<1>. QED
  BY <1>1, <1>2, <1>3, <1>4, <1>5, <1>6, <1>7 DEF IdentityNext

---------------------------------------------------------------------------
(* Every step of the data plane does. *)

\* Accepting or refusing a credential keeps the locals the handlers need.
LEMMA AcceptOK ==
  ASSUME NEW f \in Frame, LocalsSet(f), f.op \in DataPlaneOp
  PROVE  LET a == [f EXCEPT !.at = "append_auth_log", !.cred = None]
             b == [f EXCEPT !.at = "append_auth_log", !.cred = None, !.status = "401"]
         IN  a \in Frame /\ b \in Frame /\ LocalsSet(a) /\ LocalsSet(b)
<1> DEFINE a == [f EXCEPT !.at = "append_auth_log", !.cred = None]
           b == [f EXCEPT !.at = "append_auth_log", !.cred = None, !.status = "401"]
<1>1. a \in Frame
  BY DEF Frame, StorageCall, Status
<1>4. b \in Frame
  BY DEF Frame, StorageCall, Status
<1>2. LocalsSet(a)
  BY DEF Frame, LocalsSet, CallsOf, TwinPlaneOp, DataPlaneOp, Status
<1>3. LocalsSet(b)
  BY DEF Frame, LocalsSet, CallsOf, TwinPlaneOp, DataPlaneOp, Status
<1>. QED  BY <1>1, <1>2, <1>3, <1>4

\* Every step of the data plane keeps types and frames.
LEMMA DataPlaneOK ==
  ASSUME TypeOK, FramesOK, NEW w \in Worker, DataPlaneNext(w)
  PROVE  TypeOK' /\ FramesOK'
<1> DEFINE f == frames[w]
<1>f. f \in Frame /\ LocalsSet(f)
  BY DEF TypeOK, FramesOK
<1>1. CASE BeginInference(w)
  <2>1. PICK op \in DataPlaneOp, r \in ResourceId, d \in DeploymentId,
             c \in DataCredentials :
          LET g == [Idle EXCEPT !.op = op, !.rid = r, !.did = d, !.cred = c,
                                !.owner = db.resources[r]]
          IN  \/ Respond(w, g, "404")
              \/ /\ db.resources[r] # None
                 /\ Continue(w, [g EXCEPT !.at = "get_or_create_signing_key"])
    BY <1>1 DEF BeginInference
  <2> DEFINE o == db.resources[r]
  <2>2. o \in TenantId \cup {None}
    BY DEF TypeOK, Database
  <2>3. c \in Credential
    BY DEF DataCredentials, Credential, SentKeys, TypeOK
  <2> HIDE DEF o
  <2> DEFINE g == [Idle EXCEPT !.op = op, !.rid = r, !.did = d, !.cred = c, !.owner = o]
             h == [g EXCEPT !.at = "get_or_create_signing_key"]
  <2>4. g \in Frame
    BY <2>2, <2>3, IdleOK DEF Frame, Endpoint, DataPlaneOp
  <2>5. h \in Frame
    BY <2>4 DEF Frame, StorageCall, Status
  <2>6. o # None => LocalsSet(h)
    BY <2>2, NoneIsNoName DEF Idle, Frame, LocalsSet, CallsOf, TwinPlaneOp, DataPlaneOp, Status
  <2>7. TablesOK'
    BY <1>1 DEF BeginInference, Untouched, NothingAppended, TypeOK, TablesOK
  <2>8. Respond(w, g, "404") \/ (o # None /\ Continue(w, h))
    BY <2>1 DEF o
  <2>. QED  BY <2>4, <2>5, <2>6, <2>7, <2>8, ContinueOK, RespondOK DEF Status
<1>2. CASE EnsureKeypair(w)
  <2>1. f.op \in DataPlaneOp /\ f.at = "get_or_create_signing_key"
    BY <1>2 DEF EnsureKeypair
  <2> DEFINE g1 == [f EXCEPT !.at = "get_api_key_by_hash"]
             g2 == [f EXCEPT !.at = "get_signing_key"]
  <2>2. g1 \in Frame /\ g2 \in Frame
    BY <1>f DEF Frame, StorageCall, Status
  <2>3. LocalsSet(g1)
    BY <2>1, <1>f DEF Frame, LocalsSet, CallsOf, TwinPlaneOp, DataPlaneOp, Status
  <2>4. LocalsSet(g2)
    BY <2>1, <1>f DEF Frame, LocalsSet, CallsOf, TwinPlaneOp, DataPlaneOp, Status
  <2>5. db' \in Database
    BY <1>2, <2>1, <1>f, OpOfCall, KeypairOK, NoneIsNoName DEF EnsureKeypair, StorageCall
  <2>6. TablesOK'
    BY <1>2, <2>5 DEF EnsureKeypair, Untouched, NothingAppended, TypeOK, TablesOK
  <2>7. Continue(w, g1) \/ Continue(w, g2) \/ Refuse(w, f)
    BY <1>2 DEF EnsureKeypair
  <2>. QED  BY <1>f, <2>1, <2>2, <2>3, <2>4, <2>6, <2>7, ContinueOK, AcceptOK DEF Refuse
<1>3. CASE CheckApiKey(w)
  <2>1. f.op \in DataPlaneOp /\ (Accept(w, f) \/ Refuse(w, f))
    BY <1>3 DEF CheckApiKey
  <2>2. TablesOK'
    BY <1>3 DEF CheckApiKey, Untouched, NothingAppended, TypeOK, TablesOK
  <2>. QED  BY <1>f, <2>1, <2>2, ContinueOK, AcceptOK DEF Accept, Refuse
<1>4. CASE CheckBearer(w)
  <2>1. f.op \in DataPlaneOp /\ (Accept(w, f) \/ Refuse(w, f))
    BY <1>4, <1>f, OpOfCall DEF CheckBearer
  <2>2. TablesOK'
    BY <1>4 DEF CheckBearer, Untouched, NothingAppended, TypeOK, TablesOK
  <2>. QED  BY <1>f, <2>1, <2>2, ContinueOK, AcceptOK DEF Accept, Refuse
<1>5. CASE LogAuthentication(w)
  <2>1. f.op \in DataPlaneOp /\ f.rid \in ResourceId /\ f.owner \in TenantId
    BY <1>5, <1>f, OpOfCall, NoneIsNoName DEF LogAuthentication, StorageCall, LocalsSet
  <2> DEFINE g == [f EXCEPT !.at = "get_deployment"]
  <2>2. g \in Frame
    BY <1>f DEF Frame, StorageCall, Status
  <2>3. LocalsSet(g)
    BY <2>1, <1>f DEF Frame, LocalsSet, CallsOf, TwinPlaneOp, DataPlaneOp, Status
  <2>4. appended' \in LogRow
    BY <1>5, <1>f, <2>1, LogOK DEF LogAuthentication
  <2>5. TablesOK'
    BY <1>5, <2>4 DEF LogAuthentication, Untouched, TypeOK, TablesOK
  <2>. QED  BY <1>5, <1>f, <2>2, <2>3, <2>5, ContinueOK, RespondOK
            DEF LogAuthentication, Status
<1>6. CASE ResolveDeployment(w)
  <2>1. f.op \in DataPlaneOp /\ f.rid \in ResourceId /\ f.did \in DeploymentId
    BY <1>6, <1>f, OpOfCall, NoneIsNoName DEF ResolveDeployment, StorageCall, LocalsSet
  <2> DEFINE m == db.deployments[f.rid][f.did]
             g == [f EXCEPT !.at = "create_request", !.model = m]
  <2>2. m \in Model \cup {None}
    BY <2>1 DEF TypeOK, Database
  <2>3. \/ \E s \in {"400", "404"} : Respond(w, f, s)
        \/ Continue(w, g)
    BY <1>6 DEF ResolveDeployment
  <2> HIDE DEF m
  <2>4. g \in Frame
    BY <1>f, <2>2 DEF Frame, StorageCall, Status
  <2>5. LocalsSet(g)
    BY <2>1, <1>f DEF Frame, LocalsSet, CallsOf, TwinPlaneOp, DataPlaneOp, Status
  <2>6. TablesOK'
    BY <1>6 DEF ResolveDeployment, Untouched, NothingAppended, TypeOK, TablesOK
  <2>. QED  BY <1>f, <2>3, <2>4, <2>5, <2>6, ContinueOK, RespondOK DEF Status
<1>7. CASE PersistRequest(w)
  <2>1. /\ f.op \in DataPlaneOp /\ f.rid \in ResourceId
        /\ f.did \in DeploymentId /\ f.owner \in TenantId
    BY <1>7, <1>f, OpOfCall, NoneIsNoName DEF PersistRequest, StorageCall, LocalsSet
  <2> DEFINE g == [f EXCEPT !.at = "append_log", !.status = "200"]
  <2>2. g \in Frame
    BY <1>f DEF Frame, StorageCall, Status
  <2>3. LocalsSet(g)
    BY <2>1, <1>f DEF Frame, LocalsSet, CallsOf, TwinPlaneOp, DataPlaneOp, Status
  <2>4. appended' \in RequestRow
    BY <1>7, <2>1 DEF PersistRequest, RequestRow
  <2>5. TablesOK'
    BY <1>7, <2>4 DEF PersistRequest, Untouched, TypeOK, TablesOK
  <2>. QED  BY <1>7, <2>2, <2>3, <2>5, ContinueOK DEF PersistRequest
<1>8. CASE LogInference(w)
  <2>1. f.rid \in ResourceId /\ f.op \in Endpoint /\ f.owner \in TenantId
    BY <1>8, <1>f, OpOfCall, NoneIsNoName
       DEF LogInference, StorageCall, Endpoint, DataPlaneOp, LocalsSet
  <2>2. appended' \in LogRow
    BY <1>8, <1>f, <2>1, LogOK DEF LogInference
  <2>3. TablesOK'
    BY <1>8, <2>2 DEF LogInference, Untouched, TypeOK, TablesOK
  <2>. QED  BY <1>8, <1>f, <2>3, RespondOK DEF LogInference, Status
<1>. QED
  BY <1>1, <1>2, <1>3, <1>4, <1>5, <1>6, <1>7, <1>8 DEF DataPlaneNext

---------------------------------------------------------------------------
(* What any step of a worker changes, h being the frame it leaves behind.   *)
(* The invariants and the action properties below follow from this alone.   *)

RowsKept ==
  /\ \A r \in ResourceId :
       /\ db.resources[r] # None => db'.resources[r] \in {db.resources[r], None}
       /\ \A d \in DeploymentId : db.deployments[r][d] # None =>
            db'.deployments[r][d] \in {db.deployments[r][d], None}
       /\ db.signing_keys[r] # None =>
            \/ db'.signing_keys[r] = db.signing_keys[r]
            \/ /\ db'.signing_keys[r] = None /\ db.signing_keys[r] \in retired'
               /\ db'.resources[r] = None /\ ~HasChildren(db', r)
  /\ retired \subseteq retired'

KeyRowsKept(w, h) ==
  /\ \A k \in KeyId :
       \/ db'.api_keys[k] \in {db.api_keys[k], None}
       \/ frames[w].at = "create_api_key" /\ k = frames[w].key /\ h.at = "append_log"
  /\ \A k \in KeyId : generated[k] # None => generated'[k] # None
  /\ \/ h.op # "create_api_key"
     \/ /\ frames[w].op = "create_api_key" /\ h.key = frames[w].key
        /\ h.at # "append_log" =>
             frames[w].at # "append_log" /\ db'.api_keys = db.api_keys
     \/ /\ h.key \in KeyId
        /\ generated[h.key] = None /\ generated'[h.key] # None
        /\ db'.api_keys = db.api_keys

SignsWithStoredKey(w, h) ==
  /\ \/ h.kid = None
     \/ h.kid = frames[w].kid /\ h.rid = frames[w].rid
     \/ db'.signing_keys[h.rid] = h.kid
  /\ \A t \in tokens' \ tokens :
       /\ t.kid = frames[w].kid /\ t.resource_id = frames[w].rid
       /\ frames[w].kid # None

Effect(w, h) ==
  /\ frames' = [frames EXCEPT ![w] = h]
  /\ RowsKept
  /\ KeyRowsKept(w, h)
  /\ SignsWithStoredKey(w, h)

\* A step that writes no table has an effect only on the frame.
LEMMA ReadEffect ==
  ASSUME NEW w \in Worker, NEW h, frames' = [frames EXCEPT ![w] = h],
         UNCHANGED << db, generated, tokens, retired >>,
         \/ h.op # "create_api_key"
         \/ /\ frames[w].op = "create_api_key" /\ h.key = frames[w].key
            /\ h.at # "append_log" => frames[w].at # "append_log",
         \/ h.kid = None
         \/ h.kid = frames[w].kid /\ h.rid = frames[w].rid
  PROVE  Effect(w, h)
BY DEF Effect, RowsKept, KeyRowsKept, SignsWithStoredKey

\* The same of a step that ends the request.
LEMMA ReplyEffect ==
  ASSUME NEW w \in Worker, NEW f, NEW s, Respond(w, f, s),
         UNCHANGED << db, generated, tokens, retired >>
  PROVE  Effect(w, Idle)
<1>1. Idle.op # "create_api_key" /\ Idle.kid = None
  BY NoneIsNoName DEF Idle, Endpoint
<1>. QED  BY <1>1, ReadEffect DEF Respond

\* ensure_keypair finds the keypair or adds one.
LEMMA KeypairEffect ==
  ASSUME TypeOK, NEW r \in ResourceId, NEW kid \in Kid, GetOrCreateSigningKey(r, kid),
         retired' = retired
  PROVE  RowsKept /\ db'.api_keys = db.api_keys /\ db'.signing_keys[r] = kid
BY DEF TypeOK, Database, GetOrCreateSigningKey, InsertSigningKey, RowsKept

\* What the management endpoints do to tables and outputs is an Effect.
LEMMA TwinPlaneEffect ==
  ASSUME TypeOK, FramesOK, KeysReserved, NEW w \in Worker, TwinPlaneNext(w)
  PROVE  \E h : Effect(w, h)
<1> DEFINE f == frames[w]
<1>f. f \in Frame /\ LocalsSet(f)
  BY DEF TypeOK, FramesOK
<1>i. Idle.op # "create_api_key" /\ Idle.kid = None /\ Idle.at = None
  BY NoneIsNoName DEF Idle, Endpoint
<1>1. CASE BeginCreateResource(w)
  BY <1>1, <1>i, ReadEffect, ReplyEffect
     DEF BeginCreateResource, OnlyReads, EnsureTenantOwnsResource, NewFrame, Continue, Idle
<1>2. CASE CreateResource(w)
  <2>1. f.op = "create_resource" /\ f.kid = None /\ f.rid \in ResourceId
    BY <1>2, <1>f, OpOfCall, NoneIsNoName
       DEF CreateResource, StorageCall, LocalsSet, TwinPlaneOp
  <2> DEFINE h == [f EXCEPT !.at = "get_resource"]
  <2>2. CASE Respond(w, f, "500") /\ db' = db
    BY <1>2, <2>2, ReplyEffect DEF CreateResource
  <2>3. CASE db.resources[f.rid] = None /\ db' = InsertResource(db, f.rid, f.by) /\ Continue(w, h)
    <3>1. frames' = [frames EXCEPT ![w] = h] /\ h.op = f.op /\ h.kid = None
      BY <2>1, <1>2, <2>3, <1>f DEF Continue, Frame
    <3>2. RowsKept
      BY <1>2, <2>1, <2>3 DEF CreateResource, InsertResource, RowsKept, TypeOK, Database
    <3>3. db'.api_keys = db.api_keys /\ generated' = generated /\ tokens' = tokens
      BY <1>2, <2>1, <2>3 DEF CreateResource, InsertResource, TypeOK, Database
    <3>. QED  BY <2>1, <3>1, <3>2, <3>3 DEF Effect, KeyRowsKept, SignsWithStoredKey
  <2>. QED  BY <1>2, <2>2, <2>3 DEF CreateResource
<1>3. CASE RereadResource(w)
  <2>1. f.op = "create_resource" /\ f.kid = None
    BY <1>3, <1>f, OpOfCall DEF RereadResource, LocalsSet, TwinPlaneOp
  <2>. QED  BY <1>3, <1>f, <2>1, ReadEffect, ReplyEffect
            DEF RereadResource, OnlyReads, Continue, Frame
<1>4. CASE BeginDeleteResource(w)
  BY <1>4, <1>i, ReadEffect, ReplyEffect
     DEF BeginDeleteResource, OnlyReads, EnsureTenantOwnsResource, NewFrame, Continue, Idle
<1>5. CASE DeleteResource(w)
  <2>1. f.op = "delete_resource" /\ f.kid = None /\ f.rid \in ResourceId
    BY <1>5, <1>f, OpOfCall, NoneIsNoName
       DEF DeleteResource, StorageCall, LocalsSet, TwinPlaneOp
  <2> DEFINE h == [f EXCEPT !.at = "append_log", !.status = "200"]
             e == RemoveResource(db, f.rid)
  <2>2. frames' = [frames EXCEPT ![w] = h] /\ h.op = f.op /\ h.kid = None
    BY <2>1, <1>5, <1>f DEF DeleteResource, Continue, Frame
  <2>3. db' = e /\ generated' = generated /\ tokens' = tokens
    BY <1>5 DEF DeleteResource
  <2>e. /\ e.resources = [db.resources EXCEPT ![f.rid] = None]
        /\ e.signing_keys = [db.signing_keys EXCEPT ![f.rid] = None]
        /\ e.deployments = [db.deployments EXCEPT ![f.rid] = [d \in DeploymentId |-> None]]
        /\ e.api_keys =
             [k \in KeyId |-> IF k \in KeysOf(db, f.rid) THEN None ELSE db.api_keys[k]]
    BY <2>1, RemoveResourceEffect DEF TypeOK
  <2> HIDE DEF e
  <2>4. ~HasChildren(e, f.rid) /\ e.resources[f.rid] = None
    BY <2>1, <2>e DEF TypeOK, Database, HasChildren, KeysOf, DeploymentsOf
  <2>5. RowsKept
    <3>1. retired \subseteq retired'
      BY <1>5 DEF DeleteResource
    <3>2. ASSUME NEW r \in ResourceId
          PROVE  db'.resources[r] \in {db.resources[r], None}
      BY <2>1, <2>3, <2>e DEF TypeOK, Database
    <3>3. ASSUME NEW r \in ResourceId, NEW d \in DeploymentId
          PROVE  db'.deployments[r][d] \in {db.deployments[r][d], None}
      BY <2>1, <2>3, <2>e DEF TypeOK, Database
    <3>4. ASSUME NEW r \in ResourceId, r # f.rid
          PROVE  db'.signing_keys[r] = db.signing_keys[r]
      BY <2>1, <2>3, <3>4, <2>e DEF TypeOK, Database
    <3>5. db.signing_keys[f.rid] # None => db.signing_keys[f.rid] \in retired'
      BY <1>5 DEF DeleteResource
    <3>6. db'.signing_keys[f.rid] = None
      BY <2>1, <2>3, <2>e DEF TypeOK, Database
    <3>. QED  BY <2>3, <2>4, <3>1, <3>2, <3>3, <3>4, <3>5, <3>6 DEF RowsKept
  <2>6. \A k \in KeyId : db'.api_keys[k] \in {db.api_keys[k], None}
    BY <2>1, <2>3, <2>e DEF TypeOK, Database
  <2>. QED  BY <2>1, <2>2, <2>3, <2>5, <2>6 DEF Effect, KeyRowsKept, SignsWithStoredKey
<1>6. CASE BeginCreateApiKey(w)
  <2>1. PICK t \in TenantId, r \in ResourceId, k \in KeyId :
          LET g == [NewFrame("create_api_key", t, r) EXCEPT !.key = k]
          IN  /\ generated[k] = None
              /\ EnsureTenantOwnsResource(w, g, "get_tenant")
              /\ generated' = IF db.resources[r] # t THEN generated
                              ELSE [generated EXCEPT ![k] =
                                      [resource_id |-> r, by |-> t, sent |-> FALSE]]
    BY <1>6 DEF BeginCreateApiKey
  <2> DEFINE g == [NewFrame("create_api_key", t, r) EXCEPT !.key = k]
             h == [g EXCEPT !.at = "get_tenant"]
  <2>2. UNCHANGED << db, tokens, retired >>
    BY <1>6 DEF BeginCreateApiKey
  <2>3. CASE db.resources[r] # t
    <3>1. Respond(w, g, "404") /\ generated' = generated
      BY <2>1, <2>3 DEF EnsureTenantOwnsResource, NewFrame, Idle
    <3>. QED  BY <2>2, <3>1, ReplyEffect
  <2>4. CASE db.resources[r] = t
    <3>1. frames' = [frames EXCEPT ![w] = h] /\ h.key = k /\ h.kid = None
      BY <2>1, <2>4 DEF EnsureTenantOwnsResource, NewFrame, Idle, Continue
    <3>2. generated' = [generated EXCEPT ![k] = [resource_id |-> r, by |-> t, sent |-> FALSE]]
      BY <2>1, <2>4
    <3>3. [resource_id |-> r, by |-> t, sent |-> FALSE] # None
      <4>1. [resource_id |-> r, by |-> t, sent |-> FALSE] \in Generated
        BY DEF Generated
      <4>. QED  BY <4>1, NoneIsNoOutput
    <3>4. generated'[k] # None /\ \A j \in KeyId : generated[j] # None => generated'[j] # None
      BY <3>2, <3>3 DEF TypeOK
    <3>5. generated[h.key] = None /\ generated'[h.key] # None /\ h.key \in KeyId
      BY <2>1, <3>1, <3>4
    <3>. QED  BY <2>2, <3>1, <3>4, <3>5 DEF Effect, RowsKept, KeyRowsKept, SignsWithStoredKey
  <2>. QED  BY <2>3, <2>4
<1>7. CASE LookUpTenant(w)
  <2>1. f.op = "create_api_key" /\ f.kid = None
    BY <1>7, <1>f, OpOfCall DEF LookUpTenant, LocalsSet, TwinPlaneOp
  <2>. QED  BY <1>7, <1>f, <2>1, ReadEffect, ReplyEffect
            DEF LookUpTenant, OnlyReads, Continue, Frame
<1>8. CASE CreateApiKey(w)
  <2>1. f.op = "create_api_key" /\ f.kid = None /\ f.key \in KeyId
    BY <1>8, <1>f, OpOfCall DEF CreateApiKey, LocalsSet, TwinPlaneOp
  <2> DEFINE h == [f EXCEPT !.at = "append_log", !.status = "201"]
  <2>2. /\ frames' = [frames EXCEPT ![w] = h] /\ h.at = "append_log"
        /\ h.key = f.key /\ h.kid = None
    BY <2>1, <1>8, <1>f DEF CreateApiKey, Continue, Frame
  <2>3. RowsKept
    BY <1>8, <2>1 DEF CreateApiKey, InsertApiKey, RowsKept, TypeOK, Database
  <2>4. /\ \A k \in KeyId : db'.api_keys[k] = db.api_keys[k] \/ k = f.key
        /\ generated' = generated /\ tokens' = tokens
    BY <1>8, <2>1 DEF CreateApiKey, InsertApiKey, TypeOK, Database
  <2>5. f.at = "create_api_key"
    BY <1>8 DEF CreateApiKey
  <2>. QED  BY <2>1, <2>2, <2>3, <2>4, <2>5 DEF Effect, KeyRowsKept, SignsWithStoredKey
<1>9. CASE BeginDeleteApiKey(w)
  BY <1>9, <1>i, ReadEffect, ReplyEffect
     DEF BeginDeleteApiKey, OnlyReads, EnsureTenantOwnsResource, NewFrame, Continue, Idle
<1>10. CASE FindApiKey(w)
  <2>1. f.op = "delete_api_key" /\ f.kid = None
    BY <1>10, <1>f, OpOfCall DEF FindApiKey, LocalsSet, TwinPlaneOp
  <2>. QED  BY <1>10, <1>f, <2>1, ReadEffect, ReplyEffect
            DEF FindApiKey, OnlyReads, Continue, Frame
<1>11. CASE DeleteApiKey(w)
  <2>1. f.op = "delete_api_key" /\ f.kid = None /\ f.rid \in ResourceId
    BY <1>11, <1>f, OpOfCall, NoneIsNoName
       DEF DeleteApiKey, StorageCall, LocalsSet, TwinPlaneOp
  <2> DEFINE h == [f EXCEPT !.at = "append_log", !.status = "200"]
  <2>4. frames' = [frames EXCEPT ![w] = h] /\ h.op = f.op /\ h.kid = None
    BY <2>1, <1>11, <1>f DEF DeleteApiKey, Continue, Frame
  <2>5. RowsKept
    BY <1>11, <2>1, <1>f DEF DeleteApiKey, RemoveApiKey, RowsKept, TypeOK, Database
  <2>6. (\A k \in KeyId : db'.api_keys[k] \in {db.api_keys[k], None}) /\ generated' = generated /\ tokens' = tokens
    BY <1>11, <2>1, <1>f DEF DeleteApiKey, RemoveApiKey, TypeOK, Database
  <2>. QED  BY <2>1, <2>4, <2>5, <2>6 DEF Effect, KeyRowsKept, SignsWithStoredKey
<1>12. CASE BeginCreateDeployment(w)
  <2>1. PICK t \in TenantId, r \in ResourceId, d \in DeploymentId, m \in Model \cup {None} :
          LET g == [NewFrame("create_deployment", t, r) EXCEPT !.did = d, !.model = m]
          IN  \/ Respond(w, g, "400")
              \/ EnsureTenantOwnsResource(w, g, "get_deployment")
    BY <1>12 DEF BeginCreateDeployment
  <2>2. UNCHANGED << db, generated, tokens, retired >>
    BY <1>12 DEF BeginCreateDeployment, OnlyReads
  <2>. QED  BY <1>i, <2>1, <2>2, ReadEffect, ReplyEffect
            DEF EnsureTenantOwnsResource, NewFrame, Continue, Idle
<1>13. CASE BeginDeleteDeployment(w)
  BY <1>13, <1>i, ReadEffect, ReplyEffect
     DEF BeginDeleteDeployment, OnlyReads, EnsureTenantOwnsResource, NewFrame, Continue, Idle
<1>14. CASE LookUpDeployment(w)
  <2>1. \/ f.op \in {"create_deployment", "delete_deployment"} /\ f.kid = None
        \/ \E s : Respond(w, f, s)
    BY <1>14, <1>f DEF LookUpDeployment, LocalsSet, TwinPlaneOp
  <2>. QED  BY <1>14, <1>f, <2>1, ReadEffect, ReplyEffect
            DEF LookUpDeployment, OnlyReads, Continue, Frame
<1>15. CASE CreateDeployment(w)
  <2>1. f.op = "create_deployment" /\ f.kid = None /\ f.rid \in ResourceId
    BY <1>15, <1>f, OpOfCall, NoneIsNoName
       DEF CreateDeployment, StorageCall, LocalsSet, TwinPlaneOp
  <2> DEFINE h == [f EXCEPT !.at = "append_log", !.status = "201"]
  <2>2. CASE Respond(w, f, "500") /\ db' = db
    BY <1>15, <2>2, ReplyEffect DEF CreateDeployment
  <2>3. CASE f.did \notin DeploymentsOf(db, f.rid) /\ db' = InsertDeployment(db, f.rid, f.did, f.model) /\ Continue(w, h)
    <3>1. frames' = [frames EXCEPT ![w] = h] /\ h.op = f.op /\ h.kid = None
      BY <2>1, <1>15, <2>3, <1>f DEF Continue, Frame
    <3>2. RowsKept
      BY <1>15, <2>1, <2>3, <1>f DEF CreateDeployment, InsertDeployment, DeploymentsOf, LocalsSet, RowsKept, TypeOK, Database
    <3>3. db'.api_keys = db.api_keys /\ generated' = generated /\ tokens' = tokens
      BY <1>15, <2>1, <2>3, <1>f DEF CreateDeployment, InsertDeployment, DeploymentsOf, LocalsSet, TypeOK, Database
    <3>. QED  BY <2>1, <3>1, <3>2, <3>3 DEF Effect, KeyRowsKept, SignsWithStoredKey
  <2>. QED  BY <1>15, <2>2, <2>3 DEF CreateDeployment
<1>16. CASE DeleteDeployment(w)
  <2>1. f.op = "delete_deployment" /\ f.kid = None /\ f.rid \in ResourceId
    BY <1>16, <1>f, OpOfCall, NoneIsNoName
       DEF DeleteDeployment, StorageCall, LocalsSet, TwinPlaneOp
  <2> DEFINE h == [f EXCEPT !.at = "append_log", !.status = "200"]
  <2>4. frames' = [frames EXCEPT ![w] = h] /\ h.op = f.op /\ h.kid = None
    BY <2>1, <1>16, <1>f DEF DeleteDeployment, Continue, Frame
  <2>5. RowsKept
    BY <1>16, <2>1, <1>f DEF DeleteDeployment, RemoveDeployment, LocalsSet, RowsKept, TypeOK, Database
  <2>6. db'.api_keys = db.api_keys /\ generated' = generated /\ tokens' = tokens
    BY <1>16, <2>1, <1>f DEF DeleteDeployment, RemoveDeployment, LocalsSet, TypeOK, Database
  <2>. QED  BY <2>1, <2>4, <2>5, <2>6 DEF Effect, KeyRowsKept, SignsWithStoredKey
<1>17. CASE LogTwinPlane(w)
  <2>1. frames' = [frames EXCEPT ![w] = Idle] /\ db' = db /\ tokens' = tokens /\ retired' = retired
    BY <1>17 DEF LogTwinPlane, Respond
  <2>2. \A k \in KeyId : generated[k] # None => generated'[k] # None
    <3>1. CASE f.op = "create_api_key"
      <4>1. f.key \in KeyId /\ generated[f.key] \in Generated
        BY <3>1, <1>f DEF LocalsSet, KeysReserved, TypeOK
      <4>2. [generated[f.key] EXCEPT !.sent = TRUE] \in Generated
        BY <4>1 DEF Generated
      <4>3. generated' = [generated EXCEPT ![f.key] = [generated[f.key] EXCEPT !.sent = TRUE]]
        BY <3>1, <1>17 DEF LogTwinPlane
      <4>4. None \notin Generated
        BY NoneIsNoOutput
      <4>. QED  BY <4>1, <4>2, <4>3, <4>4 DEF TypeOK
    <3>2. CASE f.op # "create_api_key"
      BY <3>2, <1>17 DEF LogTwinPlane
    <3>. QED  BY <3>1, <3>2
  <2>. QED  BY <1>i, <2>1, <2>2 DEF Effect, RowsKept, KeyRowsKept, SignsWithStoredKey
<1>. QED
  BY <1>1, <1>2, <1>3, <1>4, <1>5, <1>6, <1>7, <1>8, <1>9, <1>10, <1>11, <1>12,
     <1>13, <1>14, <1>15, <1>16, <1>17 DEF TwinPlaneNext

\* What the token endpoint, the JWKS and discovery do is one.
LEMMA IdentityEffect ==
  ASSUME TypeOK, FramesOK, NEW w \in Worker, IdentityNext(w)
  PROVE  \E h : Effect(w, h)
<1> DEFINE f == frames[w]
<1>f. f \in Frame /\ LocalsSet(f)
  BY DEF TypeOK, FramesOK
<1>i. Idle.op # "create_api_key" /\ Idle.kid = None /\ Idle.at = None
  BY NoneIsNoName DEF Idle, Endpoint
<1>1. CASE BeginToken(w)
  BY <1>1, <1>i, ReadEffect, ReplyEffect DEF BeginToken, Keeps, Continue, Idle
<1>2. CASE CheckClient(w)
  BY <1>2, <1>f, ReadEffect DEF CheckClient, Keeps, Continue, Frame
<1>3. CASE SignToken(w)
  <2>1. PICK kid \in Kid :
          /\ GetOrCreateSigningKey(f.rid, kid)
          /\ Continue(w, [f EXCEPT !.at = "append_log", !.status = "200", !.kid = kid])
    BY <1>3 DEF SignToken
  <2> DEFINE h == [f EXCEPT !.at = "append_log", !.status = "200", !.kid = kid]
  <2>2. /\ frames' = [frames EXCEPT ![w] = h]
        /\ h.op = "token" /\ h.kid = kid /\ h.rid = f.rid
    BY <1>3, <1>f, <2>1 DEF SignToken, Continue, Frame
  <2>3. f.rid \in ResourceId
    BY <1>3, <1>f, OpOfCall, NoneIsNoName DEF SignToken, StorageCall
  <2>4. UNCHANGED << generated, tokens, retired >>
    BY <1>3 DEF SignToken, Keeps
  <2>5. RowsKept /\ db'.api_keys = db.api_keys /\ db'.signing_keys[f.rid] = kid
    BY <2>1, <2>3, <2>4, KeypairEffect
  <2>. QED  BY <2>2, <2>4, <2>5 DEF Effect, KeyRowsKept, SignsWithStoredKey
<1>4. CASE LogToken(w)
  <2>1. frames' = [frames EXCEPT ![w] = Idle] /\ UNCHANGED << db, generated, retired >>
    BY <1>4 DEF LogToken, Respond, Keeps
  <2>2. f.status = "200" => f.kid # None
    BY <1>4, <1>f, NoneIsNoValue DEF LogToken, LocalsSet
  <2>3. \A t \in tokens' \ tokens :
          f.kid # None /\ t.kid = f.kid /\ t.resource_id = f.rid
    BY <1>4, <2>2 DEF LogToken, TokenOf
  <2>. QED  BY <1>i, <2>1, <2>3 DEF Effect, RowsKept, KeyRowsKept, SignsWithStoredKey
<1>5. CASE BeginWellKnown(w)
  BY <1>5, <1>i, ReadEffect, ReplyEffect DEF BeginWellKnown, Keeps, Continue, Idle
<1>6. CASE PublishKey(w)
  <2>1. PICK kid \in Kid :
          /\ GetOrCreateSigningKey(f.rid, kid)
          /\ Continue(w, [f EXCEPT !.at = "append_log", !.status = "200", !.kid = kid])
    BY <1>6 DEF PublishKey
  <2> DEFINE h == [f EXCEPT !.at = "append_log", !.status = "200", !.kid = kid]
  <2>2. /\ frames' = [frames EXCEPT ![w] = h]
        /\ h.op = "jwks" /\ h.kid = kid /\ h.rid = f.rid
    BY <1>6, <1>f, <2>1 DEF PublishKey, Continue, Frame
  <2>3. f.rid \in ResourceId
    BY <1>6, <1>f, OpOfCall, NoneIsNoName DEF PublishKey, StorageCall
  <2>4. UNCHANGED << generated, tokens, retired >>
    BY <1>6 DEF PublishKey, Keeps
  <2>5. RowsKept /\ db'.api_keys = db.api_keys /\ db'.signing_keys[f.rid] = kid
    BY <2>1, <2>3, <2>4, KeypairEffect
  <2>. QED  BY <2>2, <2>4, <2>5 DEF Effect, KeyRowsKept, SignsWithStoredKey
<1>7. CASE LogWellKnown(w)
  BY <1>7, ReplyEffect DEF LogWellKnown, Keeps
<1>. QED
  BY <1>1, <1>2, <1>3, <1>4, <1>5, <1>6, <1>7 DEF IdentityNext

\* What the data plane does is one.
LEMMA DataPlaneEffect ==
  ASSUME TypeOK, FramesOK, NEW w \in Worker, DataPlaneNext(w)
  PROVE  \E h : Effect(w, h)
<1> DEFINE f == frames[w]
<1>f. f \in Frame /\ LocalsSet(f)
  BY DEF TypeOK, FramesOK
<1>o. f.op \in DataPlaneOp => f.op # "create_api_key" /\ f.kid = None
  BY <1>f DEF LocalsSet, DataPlaneOp
<1>1. CASE BeginInference(w)
  <2>1. UNCHANGED << db, generated, tokens, retired >>
    BY <1>1 DEF BeginInference, Untouched
  <2>2. \/ \E g : Respond(w, g, "404")
        \/ \E op \in DataPlaneOp, r \in ResourceId, d \in DeploymentId,
              c \in DataCredentials :
             Continue(w, [[Idle EXCEPT !.op = op, !.rid = r, !.did = d, !.cred = c,
                                       !.owner = db.resources[r]]
                            EXCEPT !.at = "get_or_create_signing_key"])
    BY <1>1 DEF BeginInference
  <2>3. CASE \E g : Respond(w, g, "404")
    BY <2>1, <2>3, ReplyEffect
  <2>4. CASE \E op \in DataPlaneOp, r \in ResourceId, d \in DeploymentId,
                c \in DataCredentials :
               Continue(w, [[Idle EXCEPT !.op = op, !.rid = r, !.did = d, !.cred = c,
                                         !.owner = db.resources[r]]
                              EXCEPT !.at = "get_or_create_signing_key"])
    BY <2>1, <2>4, ReadEffect DEF Continue, Idle, DataPlaneOp
  <2>. QED  BY <2>2, <2>3, <2>4
<1>2. CASE EnsureKeypair(w)
  <2>1. f.op \in DataPlaneOp /\ f.rid \in ResourceId
    BY <1>2, <1>f, OpOfCall, NoneIsNoName DEF EnsureKeypair, StorageCall
  <2>2. UNCHANGED << generated, tokens, retired >>
    BY <1>2 DEF EnsureKeypair, Untouched
  <2>3. RowsKept /\ db'.api_keys = db.api_keys
    BY <1>2, <2>1, <2>2, KeypairEffect DEF EnsureKeypair
  <2>4. \/ Continue(w, [f EXCEPT !.at = "get_api_key_by_hash"])
        \/ Continue(w, [f EXCEPT !.at = "get_signing_key"])
        \/ Refuse(w, f)
    BY <1>2 DEF EnsureKeypair
  <2>5. ASSUME NEW h, frames' = [frames EXCEPT ![w] = h], h.op = f.op, h.kid = f.kid
        PROVE  Effect(w, h)
    BY <1>o, <2>1, <2>2, <2>3, <2>5 DEF Effect, KeyRowsKept, SignsWithStoredKey
  <2>. QED  BY <1>f, <2>4, <2>5 DEF Continue, Refuse, Frame
<1>3. CASE CheckApiKey(w)
  BY <1>3, <1>f, <1>o, ReadEffect
     DEF CheckApiKey, Untouched, Accept, Refuse, Continue, Frame
<1>4. CASE CheckBearer(w)
  <2>1. f.op \in DataPlaneOp
    BY <1>4, <1>f, OpOfCall DEF CheckBearer
  <2>. QED  BY <1>4, <1>f, <1>o, <2>1, ReadEffect
            DEF CheckBearer, Untouched, Accept, Refuse, Continue, Frame
<1>5. CASE LogAuthentication(w)
  <2>1. f.op \in DataPlaneOp
    BY <1>5, <1>f, OpOfCall DEF LogAuthentication
  <2>. QED  BY <1>5, <1>f, <1>o, <2>1, ReadEffect, ReplyEffect
            DEF LogAuthentication, Untouched, Continue, Frame
<1>6. CASE ResolveDeployment(w)
  BY <1>6, <1>f, <1>o, ReadEffect, ReplyEffect
     DEF ResolveDeployment, Untouched, Continue, Frame
<1>7. CASE PersistRequest(w)
  <2>1. f.op \in DataPlaneOp
    BY <1>7, <1>f, OpOfCall DEF PersistRequest
  <2>. QED  BY <1>7, <1>f, <1>o, <2>1, ReadEffect
            DEF PersistRequest, Untouched, Continue, Frame
<1>8. CASE LogInference(w)
  BY <1>8, ReplyEffect DEF LogInference, Untouched
<1>. QED
  BY <1>1, <1>2, <1>3, <1>4, <1>5, <1>6, <1>7, <1>8 DEF DataPlaneNext

---------------------------------------------------------------------------
(* The inductive invariant. *)

IInv == TypeOK /\ FramesOK /\ KeysReserved /\ TokensVerify

\* An Effect keeps every api key with the one request that drew it.
LEMMA EffectKeepsKeys ==
  ASSUME TypeOK, FramesOK, KeysReserved, NEW w \in Worker, NEW h, Effect(w, h)
  PROVE  KeysReserved'
<1>1. frames'[w] = h /\ \A v \in Worker \ {w} : frames'[v] = frames[v]
  BY DEF Effect, TypeOK
<1>2. \A v \in Worker : frames[v].op = "create_api_key" => frames[v].key \in KeyId
  BY DEF FramesOK, LocalsSet
<1>3. ASSUME NEW k \in KeyId, db'.api_keys[k] # None
      PROVE  generated'[k] # None
  <2>1. CASE db'.api_keys[k] = db.api_keys[k]
    BY <1>3, <2>1 DEF Effect, KeyRowsKept, KeysReserved
  <2>2. CASE frames[w].at = "create_api_key" /\ k = frames[w].key
    <3>1. frames[w].op = "create_api_key"
      BY <2>2, OpOfCall DEF TypeOK, FramesOK
    <3>. QED  BY <2>2, <3>1 DEF Effect, KeyRowsKept, KeysReserved
  <2>. QED  BY <1>3, <2>1, <2>2 DEF Effect, KeyRowsKept
<1>4. ASSUME frames[w].at = "create_api_key"
      PROVE  frames[w].op = "create_api_key" /\ frames[w].at # "append_log"
  BY <1>4, OpOfCall DEF TypeOK, FramesOK
<1>5. ASSUME NEW v \in Worker, v # w, frames[v].op = "create_api_key"
      PROVE  /\ generated'[frames[v].key] # None
             /\ frames[v].at # "append_log" => db'.api_keys[frames[v].key] = None
             /\ h.op = "create_api_key" => h.key # frames[v].key
             /\ \A u \in Worker \ {v, w} :
                  frames[u].op = "create_api_key" => frames[u].key # frames[v].key
  <2>1. generated[frames[v].key] # None /\ frames[v].key \in KeyId
    BY <1>2, <1>5 DEF KeysReserved
  <2>2. generated'[frames[v].key] # None
    BY <2>1 DEF Effect, KeyRowsKept
  <2>3. ASSUME frames[v].at # "append_log"
        PROVE  db'.api_keys[frames[v].key] = None
    <3>1. db.api_keys[frames[v].key] = None
      BY <1>5, <2>3 DEF KeysReserved
    <3>2. frames[w].at = "create_api_key" => frames[w].key # frames[v].key
      BY <1>4, <1>5 DEF KeysReserved
    <3>. QED  BY <2>1, <3>1, <3>2 DEF Effect, KeyRowsKept
  <2>4. h.op = "create_api_key" => h.key # frames[v].key
    BY <1>5, <2>1 DEF Effect, KeyRowsKept, KeysReserved
  <2>. QED  BY <1>5, <2>2, <2>3, <2>4 DEF KeysReserved
<1>6. ASSUME h.op = "create_api_key"
      PROVE  /\ generated'[h.key] # None
             /\ h.at # "append_log" => db'.api_keys[h.key] = None
  <2>1. CASE /\ frames[w].op = "create_api_key" /\ h.key = frames[w].key
             /\ h.at # "append_log" =>
                  frames[w].at # "append_log" /\ db'.api_keys = db.api_keys
    BY <1>2, <2>1 DEF Effect, KeyRowsKept, KeysReserved
  <2>2. CASE /\ h.key \in KeyId
             /\ generated[h.key] = None /\ generated'[h.key] # None
             /\ db'.api_keys = db.api_keys
    BY <2>2 DEF KeysReserved
  <2>. QED  BY <1>6, <2>1, <2>2 DEF Effect, KeyRowsKept
<1>. QED  BY <1>1, <1>3, <1>5, <1>6 DEF KeysReserved

\* An Effect keeps every token verifiable with its resource's keypair.
LEMMA EffectKeepsTokens ==
  ASSUME TypeOK, FramesOK, TokensVerify, NEW w \in Worker, NEW h, Effect(w, h),
         FramesOK', TypeOK'
  PROVE  TokensVerify'
<1> DEFINE VerifiesNext(r, kid) == db'.signing_keys[r] = kid \/ kid \in retired'
<1>1. frames'[w] = h /\ \A v \in Worker \ {w} : frames'[v] = frames[v]
  BY DEF Effect, TypeOK
<1>2. ASSUME NEW r \in ResourceId, NEW kid, kid # None, Verifies(r, kid)
      PROVE  VerifiesNext(r, kid)
  BY <1>2 DEF Verifies, Effect, RowsKept
<1>3. ASSUME NEW f \in Frame, LocalsSet(f), f.kid # None
      PROVE  f.rid \in ResourceId
  BY <1>3 DEF LocalsSet
<1>4. ASSUME NEW t \in tokens'
      PROVE  VerifiesNext(t.resource_id, t.kid)
  <2>1. t.resource_id \in ResourceId /\ t.kid \in Kid /\ t.kid # None
    BY NoneIsNoValue DEF TypeOK, Token
  <2>2. Verifies(t.resource_id, t.kid)
    BY DEF Effect, SignsWithStoredKey, TokensVerify
  <2>. QED  BY <1>2, <2>1, <2>2
<1>5. ASSUME NEW v \in Worker, frames'[v].kid # None
      PROVE  VerifiesNext(frames'[v].rid, frames'[v].kid)
  <2>1. frames'[v] \in Frame /\ LocalsSet(frames'[v]) /\ frames[v] \in Frame
    BY DEF TypeOK, FramesOK
  <2>2. frames'[v].rid \in ResourceId
    BY <1>3, <1>5, <2>1
  <2>3. CASE frames'[v].kid = frames[v].kid /\ frames'[v].rid = frames[v].rid
    BY <1>2, <1>5, <2>2, <2>3 DEF TokensVerify
  <2>4. CASE db'.signing_keys[frames'[v].rid] = frames'[v].kid
    BY <2>4
  <2>. QED  BY <1>1, <1>5, <2>3, <2>4 DEF Effect, SignsWithStoredKey
<1>. QED  BY <1>4, <1>5 DEF TokensVerify, Verifies

\* The step of one worker, whichever it is.
Step(w) == Serve(w) \/ StorageFails(w)

\* A step of one worker, or its storage call raising, keeps all of it.
LEMMA StepOK ==
  ASSUME TypeOK, FramesOK, KeysReserved, NEW w \in Worker, Step(w)
  PROVE  TypeOK' /\ FramesOK' /\ (\E h : Effect(w, h))
<1>1. CASE TwinPlaneNext(w)
  BY <1>1, TwinPlaneOK, TwinPlaneEffect
<1>2. CASE IdentityNext(w)
  BY <1>2, IdentityOK, IdentityEffect
<1>3. CASE DataPlaneNext(w)
  BY <1>3, DataPlaneOK, DataPlaneEffect
<1>4. CASE StorageFails(w)
  <2>1. frames[w] \in Frame /\ TablesOK'
    BY <1>4 DEF TypeOK, StorageFails, NothingAppended, TablesOK
  <2>2. TypeOK' /\ FramesOK'
    BY <1>4, <2>1, RespondOK DEF StorageFails, Status
  <2>3. Effect(w, Idle)
    BY <1>4, ReplyEffect DEF StorageFails
  <2>. QED  BY <2>2, <2>3
<1>. QED  BY <1>1, <1>2, <1>3, <1>4 DEF Step, Serve

\* A crash loses every frame, whatever the requests had read.
LEMMA CrashOK ==
  ASSUME IInv, Crash
  PROVE  IInv'
<1>1. TypeOK'
  BY IdleOK DEF IInv, TypeOK, Crash, NothingAppended
<1>2. FramesOK'
  BY IdleOK DEF FramesOK, Crash
<1>3. KeysReserved'
  BY NoneIsNoName DEF IInv, TypeOK, KeysReserved, Crash, Idle, Endpoint
<1>4. TokensVerify'
  BY DEF IInv, TypeOK, TokensVerify, Verifies, Crash, Idle
<1>. QED  BY <1>1, <1>2, <1>3, <1>4 DEF IInv

\* A service on an empty database satisfies the inductive invariant.
LEMMA InitIInv == Init => IInv
<1> SUFFICES ASSUME Init PROVE IInv
  OBVIOUS
<1>1. TypeOK
  BY IdleOK DEF Init, TypeOK, EmptyDatabase, Database
<1>2. FramesOK
  BY IdleOK DEF Init, FramesOK
<1>3. KeysReserved
  BY NoneIsNoName DEF Init, KeysReserved, EmptyDatabase, Idle, Endpoint
<1>4. TokensVerify
  BY DEF Init, TokensVerify, Idle
<1>. QED  BY <1>1, <1>2, <1>3, <1>4 DEF IInv

\* Every step of the service keeps the inductive invariant.
LEMMA NextIInv == IInv /\ [Next]_vars => IInv'
<1> SUFFICES ASSUME IInv, [Next]_vars PROVE IInv'
  OBVIOUS
<1>1. CASE Crash
  BY <1>1, CrashOK
<1>2. ASSUME NEW w \in Worker, Step(w)
      PROVE  IInv'
  <2>1. TypeOK' /\ FramesOK' /\ (\E h : Effect(w, h))
    BY <1>2, StepOK DEF IInv
  <2>2. KeysReserved'
    BY <2>1, EffectKeepsKeys DEF IInv
  <2>3. TokensVerify'
    BY <2>1, EffectKeepsTokens DEF IInv
  <2>. QED  BY <2>1, <2>2, <2>3 DEF IInv
<1>3. CASE UNCHANGED vars
  BY <1>3 DEF vars, IInv, TypeOK, FramesOK, KeysReserved, TokensVerify, Verifies
<1>. QED  BY <1>1, <1>2, <1>3 DEF Next, Step

\* So every behaviour of the service satisfies it for ever.
LEMMA AlwaysIInv == Spec => []IInv
BY InitIInv, NextIInv, PTL DEF Spec

---------------------------------------------------------------------------
(* The theorems. *)

\* Every variable keeps its type, for any number of threads, failures of
\* storage calls and crashes.
THEOREM TypeCorrect == Spec => []TypeOK
<1>1. IInv => TypeOK
  BY DEF IInv
<1>. QED  BY <1>1, AlwaysIInv, PTL

\* The JWKS of a resource verifies every token it has issued until the resource
\* is deleted, and every keypair a request has in hand (ensure_keypair).
THEOREM TokensAlwaysVerify == Spec => []TokensVerify
<1>1. IInv => TokensVerify
  BY DEF IInv
<1>. QED  BY <1>1, AlwaysIInv, PTL

\* What a step may do to rows that exist.
LEMMA StepKeepsRows ==
  ASSUME IInv, Next
  PROVE  /\ \A r \in ResourceId :
              /\ db.resources[r] # None => db'.resources[r] \in {db.resources[r], None}
              /\ \A d \in DeploymentId : db.deployments[r][d] # None =>
                   db'.deployments[r][d] \in {db.deployments[r][d], None}
              /\ db.signing_keys[r] # None =>
                   \/ db'.signing_keys[r] = db.signing_keys[r]
                   \/ /\ db'.signing_keys[r] = None
                      /\ db'.resources[r] = None /\ ~HasChildren(db', r)
         /\ \A k \in KeyId :
              db.api_keys[k] # None => db'.api_keys[k] \in {db.api_keys[k], None}
<1>1. CASE Crash
  BY <1>1 DEF Crash
<1>2. ASSUME NEW w \in Worker, Step(w), NEW k \in KeyId, db.api_keys[k] # None
      PROVE  db'.api_keys[k] \in {db.api_keys[k], None}
  <2>1. PICK h : Effect(w, h)
    BY <1>2, StepOK DEF IInv
  <2>2. frames[w].at = "create_api_key" => frames[w].key # k
    <3>1. frames[w].at = "create_api_key" => frames[w].op = "create_api_key"
      BY OpOfCall DEF IInv, TypeOK, FramesOK
    <3>. QED  BY <1>2, <3>1 DEF IInv, KeysReserved
  <2>. QED  BY <2>1, <2>2 DEF Effect, KeyRowsKept
<1>3. ASSUME NEW w \in Worker, Step(w)
      PROVE  RowsKept
  BY <1>3, StepOK DEF IInv, Effect
<1>. QED  BY <1>1, <1>2, <1>3 DEF Next, Step, RowsKept

\* However requests race, no step replaces a row that exists.
THEOREM RowsAreWrittenOnce == Spec => RowsWriteOnce
<1>1. IInv /\ [Next]_vars =>
        [ /\ \A r \in ResourceId :
               /\ db.resources[r] # None => db'.resources[r] \in {db.resources[r], None}
               /\ db.signing_keys[r] # None =>
                    db'.signing_keys[r] \in {db.signing_keys[r], None}
               /\ \A d \in DeploymentId : db.deployments[r][d] # None =>
                    db'.deployments[r][d] \in {db.deployments[r][d], None}
          /\ \A k \in KeyId :
               db.api_keys[k] # None => db'.api_keys[k] \in {db.api_keys[k], None} ]_vars
  BY StepKeepsRows
<1>. QED  BY <1>1, AlwaysIInv, PTL DEF Spec, RowsWriteOnce

\* A signing key goes only when its resource and all that belongs to it goes.
THEOREM SigningKeysGoWithResources == Spec => SigningKeyGoesWithResource
<1>1. IInv /\ [Next]_vars =>
        [ \A r \in ResourceId :
            db.signing_keys[r] # None /\ db'.signing_keys[r] = None =>
              db'.resources[r] = None /\ ~HasChildren(db', r) ]_vars
  BY StepKeepsRows
<1>. QED  BY <1>1, AlwaysIInv, PTL DEF Spec, SigningKeyGoesWithResource
=============================================================================
