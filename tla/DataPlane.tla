----------------------------- MODULE DataPlane -----------------------------
(***************************************************************************)
(* The Azure OpenAI data plane (routes/openai_data.py) behind its two      *)
(* decorators, require_resource and require_aoai_data_auth (auth.py).  The *)
(* four endpoints share every storage call; what they compute from the     *)
(* body is left out, except that a body may be rejected with 400.          *)
(***************************************************************************)
EXTENDS Service

DataPlaneOp == {"chat_completions", "completions", "embeddings", "responses"}

Untouched == UNCHANGED << generated, tokens, retired >>

---------------------------------------------------------------------------
(* The decorators. *)

\* Mutant of BeginInference: g.resource is checked for and not kept.
BeginInferenceForgetting(w) ==
  /\ IsIdle(w)
  /\ \E op \in Op \cap DataPlaneOp, r \in ResourceId, d \in DeploymentId,
        c \in DataCredentials :
       /\ db.resources[r] # None
       /\ Continue(w, [Idle EXCEPT !.op = op, !.rid = r, !.did = d, !.cred = c,
                                   !.at = "get_or_create_signing_key"])
  /\ NothingAppended /\ UNCHANGED db /\ Untouched

\* require_resource; the row it read stays in g.resource for the whole request.
BeginInference(w) ==
  /\ IsIdle(w)
  /\ \E op \in Op \cap DataPlaneOp, r \in ResourceId, d \in DeploymentId,
        c \in DataCredentials :
       LET f == [Idle EXCEPT !.op = op, !.rid = r, !.did = d, !.cred = c,
                             !.owner = db.resources[r]]
       IN  \/ /\ db.resources[r] = None
              /\ Respond(w, f, "404")
           \/ /\ db.resources[r] # None
              /\ Continue(w, [f EXCEPT !.at = "get_or_create_signing_key"])
  /\ NothingAppended /\ UNCHANGED db /\ Untouched

\* The credential has been read for the last time.
Accept(w, f) == Continue(w, [f EXCEPT !.at = "append_auth_log", !.cred = None])
Refuse(w, f) ==
  Continue(w, [f EXCEPT !.at = "append_auth_log", !.cred = None, !.status = "401"])

\* ensure_keypair comes first; then the api-key header wins over the bearer.
\* A token the service never issued fails whatever key it is checked with.
EnsureKeypair(w) ==
  LET f == frames[w] IN
  /\ f.at = "get_or_create_signing_key" /\ f.op \in DataPlaneOp
  /\ \E kid \in Kid : GetOrCreateSigningKey(f.rid, kid)
  /\ \/ /\ f.cred.kind = "api-key"
        /\ Continue(w, [f EXCEPT !.at = "get_api_key_by_hash"])
     \/ /\ f.cred.kind = "bearer" /\ f.cred.token # None
        /\ Continue(w, [f EXCEPT !.at = "get_signing_key"])
     \/ /\ f.cred.kind = "bearer" /\ f.cred.token = None
        /\ Refuse(w, f)
     \/ /\ f.cred.kind = "none"
        /\ Refuse(w, f)
  /\ NothingAppended /\ Untouched

\* Mutant of CheckApiKey: any stored key will do.
CheckAnyApiKey(w) ==
  LET f == frames[w]
      valid == f.cred.key # None /\ db.api_keys[f.cred.key] # None
  IN
  /\ f.at = "get_api_key_by_hash" /\ f.op \in DataPlaneOp
  /\ \/ valid /\ Accept(w, f)
     \/ ~valid /\ Refuse(w, f)
  /\ NothingAppended /\ UNCHANGED db /\ Untouched

\* _api_key_path: the key must be one of this resource.
CheckApiKey(w) ==
  LET f == frames[w]
      valid == f.cred.key \in KeysOf(db, f.rid)
  IN
  /\ f.at = "get_api_key_by_hash" /\ f.op \in DataPlaneOp
  /\ \/ valid /\ Accept(w, f)
     \/ ~valid /\ Refuse(w, f)
  /\ NothingAppended /\ UNCHANGED db /\ Untouched

\* _aad_path: kid and signature, issuer, then tid.  A token may have expired.
CheckBearer(w) ==
  LET f == frames[w]
      t == f.cred.token
      valid == /\ db.signing_keys[f.rid] = t.kid
               /\ t.resource_id = f.rid
               /\ t.tid = f.owner
  IN
  /\ f.at = "get_signing_key"
  /\ \/ valid /\ Accept(w, f)
     \/ Refuse(w, f)
  /\ NothingAppended /\ UNCHANGED db /\ Untouched

\* The log row of the decorator, then 401 or the handler.
LogAuthentication(w) ==
  LET f == frames[w] IN
  /\ f.at = "append_auth_log"
  /\ \/ /\ f.status = "401"
        /\ Log(f, "validate", "failure")
        /\ Respond(w, f, "401")
     \/ /\ f.status = None
        /\ Log(f, "validate", "success")
        /\ Continue(w, [f EXCEPT !.at = "get_deployment"])
  /\ UNCHANGED db /\ Untouched

---------------------------------------------------------------------------
(* The handlers. *)

\* responses takes the deployment from the body and checks the body first;
\* the others look up the deployment of the URL first.
ResolveDeployment(w) ==
  LET f == frames[w]
      found == f.did \in DeploymentsOf(db, f.rid)
  IN
  /\ f.at = "get_deployment" /\ f.op \in DataPlaneOp
  /\ \/ /\ ~found
        /\ Respond(w, f, "404")
     \/ /\ found \/ f.op = "responses"
        /\ Respond(w, f, "400")
     \/ /\ found
        /\ Continue(w, [f EXCEPT !.at = "create_request",
                                 !.model = db.deployments[f.rid][f.did]])
  /\ NothingAppended /\ UNCHANGED db /\ Untouched

\* _persist_request
PersistRequest(w) ==
  LET f == frames[w] IN
  /\ f.at = "create_request"
  /\ appended' = [tenant_id |-> f.owner, resource_id |-> f.rid, deployment_id |-> f.did]
  /\ Continue(w, [f EXCEPT !.at = "append_log", !.status = "200"])
  /\ UNCHANGED db /\ Untouched

LogInference(w) ==
  LET f == frames[w] IN
  /\ f.at = "append_log" /\ f.op \in DataPlaneOp
  /\ Log(f, f.op, "success")
  /\ Respond(w, f, "200")
  /\ UNCHANGED db /\ Untouched

DataPlaneNext(w) ==
  \/ BeginInference(w) \/ EnsureKeypair(w) \/ CheckApiKey(w) \/ CheckBearer(w)
  \/ LogAuthentication(w) \/ ResolveDeployment(w) \/ PersistRequest(w)
  \/ LogInference(w)
===========================================================================
