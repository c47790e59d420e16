------------------------------ MODULE Identity ------------------------------
(***************************************************************************)
(* The AAD emulation of a resource: the token endpoint                     *)
(* (routes/oauth_token.py), the JWKS and the OpenID discovery document     *)
(* (routes/well_known.py).  They need no Twin Plane credentials.           *)
(***************************************************************************)
EXTENDS Service

Keeps == UNCHANGED << generated, retired >>

---------------------------------------------------------------------------
(* POST /<resource_id>/oauth2/v2.0/token *)

\* A grant_type other than client_credentials is answered 400, after a log row.
BeginToken(w) ==
  /\ IsIdle(w) /\ "token" \in Op
  /\ \E r \in ResourceId, c \in ClientCredentials :
       LET f == [Idle EXCEPT !.op = "token", !.rid = r,
                             !.owner = db.resources[r], !.cred = c]
       IN  \/ /\ db.resources[r] = None
              /\ Respond(w, f, "404")
           \/ /\ db.resources[r] # None
              /\ Continue(w, [f EXCEPT !.at = "append_log", !.status = "400"])
           \/ /\ db.resources[r] # None
              /\ Continue(w, [f EXCEPT !.at = "get_api_key_by_hash"])
  /\ NothingAppended /\ UNCHANGED << db, tokens >> /\ Keeps

\* The secret must be that of a key of this resource whose id is client_id.
CheckClient(w) ==
  LET f == frames[w]
      valid == /\ f.cred.secret \in KeysOf(db, f.rid)
               /\ f.cred.client_id = f.cred.secret
  IN
  /\ f.at = "get_api_key_by_hash" /\ f.op = "token"
  /\ \/ /\ ~valid
        /\ Continue(w, [f EXCEPT !.at = "append_log", !.status = "401"])
     \/ /\ valid
        /\ Continue(w, [f EXCEPT !.at = "get_or_create_signing_key"])
  /\ NothingAppended /\ UNCHANGED << db, tokens >> /\ Keeps

\* ensure_keypair, then issue_aad_token signs with the keypair it returned.
SignToken(w) ==
  LET f == frames[w] IN
  /\ f.at = "get_or_create_signing_key" /\ f.op = "token"
  /\ \E kid \in Kid :
       /\ GetOrCreateSigningKey(f.rid, kid)
       /\ Continue(w, [f EXCEPT !.at = "append_log", !.status = "200", !.kid = kid])
  /\ NothingAppended /\ UNCHANGED tokens /\ Keeps

\* The access token a successful frame of the token endpoint sends.
TokenOf(f) ==
  [resource_id |-> f.rid, tid |-> f.owner, appid |-> f.cred.client_id, kid |-> f.kid]

LogToken(w) ==
  LET f == frames[w] IN
  /\ f.at = "append_log" /\ f.op = "token"
  /\ Log(f, "token", IF f.status = "200" THEN "success" ELSE "failure")
  /\ Respond(w, f, f.status)
  /\ tokens' = tokens \cup (IF f.status = "200" THEN {TokenOf(f)} ELSE {})
  /\ UNCHANGED db /\ Keeps

---------------------------------------------------------------------------
(* GET /<resource_id>/.well-known/jwks.json and .../openid-configuration.  *)
(* Their log rows name no tenant, so the frame keeps no owner.             *)

\* Mutant of BeginWellKnown: the JWKS is served without asking for the resource.
BeginWellKnownUnchecked(w) ==
  /\ IsIdle(w) /\ "jwks" \in Op
  /\ \E r \in ResourceId :
       Continue(w, [Idle EXCEPT !.op = "jwks", !.rid = r,
                                !.at = "get_or_create_signing_key"])
  /\ NothingAppended /\ UNCHANGED << db, tokens >> /\ Keeps

BeginWellKnown(w) ==
  /\ IsIdle(w)
  /\ \E op \in Op \cap {"jwks", "openid_configuration"}, r \in ResourceId :
       LET f == [Idle EXCEPT !.op = op, !.rid = r]
       IN  \/ /\ db.resources[r] = None
              /\ Respond(w, f, "404")
           \/ /\ db.resources[r] # None /\ op = "jwks"
              /\ Continue(w, [f EXCEPT !.at = "get_or_create_signing_key"])
           \/ /\ db.resources[r] # None /\ op = "openid_configuration"
              /\ Continue(w, [f EXCEPT !.at = "append_log", !.status = "200"])
  /\ NothingAppended /\ UNCHANGED << db, tokens >> /\ Keeps

\* The first fetch of the JWKS draws the keypair it publishes.
PublishKey(w) ==
  LET f == frames[w] IN
  /\ f.at = "get_or_create_signing_key" /\ f.op = "jwks"
  /\ \E kid \in Kid :
       /\ GetOrCreateSigningKey(f.rid, kid)
       /\ Continue(w, [f EXCEPT !.at = "append_log", !.status = "200", !.kid = kid])
  /\ NothingAppended /\ UNCHANGED tokens /\ Keeps

LogWellKnown(w) ==
  LET f == frames[w] IN
  /\ f.at = "append_log" /\ f.op \in {"jwks", "openid_configuration"}
  /\ Log(f, f.op, "success")
  /\ Respond(w, f, "200")
  /\ UNCHANGED << db, tokens >> /\ Keeps

IdentityNext(w) ==
  \/ BeginToken(w) \/ CheckClient(w) \/ SignToken(w) \/ LogToken(w)
  \/ BeginWellKnown(w) \/ PublishKey(w) \/ LogWellKnown(w)
===========================================================================
