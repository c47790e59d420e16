------------------------------ MODULE Service ------------------------------
(***************************************************************************)
(* What the three planes of the twin share: the database, the requests in  *)
(* progress, and what has left the service.  A worker serves one request   *)
(* at a time; between two storage calls its request is a frame, a record   *)
(* of the handler's local variables and of the storage call it makes next. *)
(* Every storage call is one step (SQLiteStorage shows that it is atomic), *)
(* so the steps of different workers interleave exactly where the handlers *)
(* read the database and act on what they read.                            *)
(*                                                                         *)
(* logs and requests are append-only and no handler modelled here reads    *)
(* them: appended is the row the last step appended to one of them.        *)
(***************************************************************************)
EXTENDS Tables, FiniteSets, Integers

CONSTANTS Worker,   \* threads of the host, or its one synchronous worker
          Op        \* the endpoints the clients call

Endpoint ==
  { "create_resource", "delete_resource", "create_api_key", "delete_api_key",
    "create_deployment", "delete_deployment",
    "token", "jwks", "openid_configuration",
    "chat_completions", "completions", "embeddings", "responses" }

ASSUME OpIsKnown == Op \subseteq Endpoint

VARIABLES
  db,         \* the committed tables
  frames,     \* the request each worker is serving
  appended,   \* the logs or requests row the last step appended
  reply,      \* the response the last step sent
  generated,  \* every api key drawn so far: for whom, and whether its secret was sent
  tokens,     \* every access token sent to a client
  retired     \* the signing keys that delete_resource has removed

vars == << db, frames, appended, reply, generated, tokens, retired >>

---------------------------------------------------------------------------
(* The records. *)

Token == [resource_id : ResourceId, tid : TenantId, appid : KeyId, kid : Kid]

\* What a request carries in its headers or form: an api key, a bearer token,
\* a client_id with a client_secret, or nothing.  None in place of a key or
\* a token is one the service never issued.
Credential ==
  [kind : {"api-key"}, key : KeyId \cup {None}]
    \cup [kind : {"bearer"}, token : Token \cup {None}]
    \cup [kind : {"client"}, client_id : KeyId \cup {None}, secret : KeyId \cup {None}]
    \cup [kind : {"none"}]

ASSUME NoneIsNoRecord == None \notin Token \cup Credential

StorageCall ==
  { "create_resource", "get_resource", "delete_resource",
    "get_tenant", "create_api_key", "list_api_keys", "delete_api_key",
    "get_deployment", "create_deployment", "delete_deployment",
    "get_or_create_signing_key", "get_api_key_by_hash", "get_signing_key",
    "append_auth_log", "create_request", "append_log" }

Status == {"200", "201", "400", "401", "404", "409", "500"}

Frame ==
  [ op     : Endpoint \cup {None},
    at     : StorageCall \cup {None},       \* the next storage call
    by     : TenantId \cup {None},          \* g.tenant_id of the Twin Plane
    owner  : TenantId \cup {None},          \* tenant_id of the resource row read
    rid    : ResourceId \cup {None},
    did    : DeploymentId \cup {None},
    model  : Model \cup {None},
    key    : KeyId \cup {None},             \* the api key created or deleted
    cred   : Credential \cup {None},
    kid    : Kid \cup {None},               \* the keypair a token is signed with
    status : Status \cup {None} ]           \* the response to send after the log

Idle ==
  [ op |-> None, at |-> None, by |-> None, owner |-> None, rid |-> None,
    did |-> None, model |-> None, key |-> None, cred |-> None, kid |-> None,
    status |-> None ]

\* Only the endpoints that ask for no credential log no tenant (ANONYMOUS_TENANT_ID,
\* routes/well_known.py:46 and 65).
LogRow ==
  [ tenant_id : TenantId, operation : Endpoint \cup {"validate"},
    resource_id : ResourceId, outcome : {"success", "failure"} ]
  \cup
  [ tenant_id : {None}, operation : {"jwks", "openid_configuration"},
    resource_id : ResourceId, outcome : {"success"} ]

RequestRow ==
  [ tenant_id : TenantId, resource_id : ResourceId, deployment_id : DeploymentId ]

Generated == [resource_id : ResourceId, by : TenantId, sent : BOOLEAN]

ASSUME NoneIsNoName == None \notin Endpoint \cup StorageCall \cup Status

ASSUME NoneIsNoOutput ==
  None \notin LogRow \cup RequestRow \cup Generated \cup [frame : Frame, status : Status]

TypeOK ==
  /\ db \in Database
  /\ frames \in [Worker -> Frame]
  /\ appended \in LogRow \cup RequestRow \cup {None}
  /\ reply \in [frame : Frame, status : Status] \cup {None}
  /\ generated \in [KeyId -> Generated \cup {None}]
  /\ tokens \subseteq Token
  /\ retired \subseteq Kid

---------------------------------------------------------------------------
(* What clients can present. *)

SentKeys == {k \in KeyId : generated[k] # None /\ generated[k].sent}

DataCredentials ==
  [kind : {"api-key"}, key : SentKeys \cup {None}]
    \cup [kind : {"bearer"}, token : tokens \cup {None}]
    \cup [kind : {"none"}]

ClientCredentials ==
  [kind : {"client"}, client_id : KeyId \cup {None}, secret : SentKeys \cup {None}]

FreshKids == Kid \ (retired \cup {db.signing_keys[r] : r \in ResourceId})

---------------------------------------------------------------------------
(* How a step ends. *)

IsIdle(w) == frames[w].at = None

\* The handler goes on with the locals f.
Continue(w, f) ==
  /\ frames' = [frames EXCEPT ![w] = f]
  /\ reply' = None

\* The handler returns; f holds its locals.
Respond(w, f, status) ==
  /\ frames' = [frames EXCEPT ![w] = Idle]
  /\ reply' = [frame |-> f, status |-> status]

Log(f, operation, outcome) ==
  appended' = [ tenant_id |-> IF f.by # None THEN f.by ELSE f.owner,
                operation |-> operation, resource_id |-> f.rid,
                outcome |-> outcome ]

NothingAppended == appended' = None

\* Mutant of GetOrCreateSigningKey: INSERT OR REPLACE without the SELECT.
ReplaceSigningKey(r, kid) == kid \in FreshKids /\ db' = InsertSigningKey(db, r, kid)

\* ensure_keypair: the stored keypair, or a new one put in the table.
GetOrCreateSigningKey(r, kid) ==
  /\ kid \in IF db.signing_keys[r] # None THEN {db.signing_keys[r]} ELSE FreshKids
  /\ db' = InsertSigningKey(db, r, kid)

---------------------------------------------------------------------------
(* Failures.  A storage call may raise (a full disk, a database locked by  *)
(* another process): no handler catches it and Flask answers 500, with     *)
(* whatever the earlier calls of the request committed left in place.      *)

StorageFails(w) ==
  /\ ~IsIdle(w)
  /\ Respond(w, frames[w], "500")
  /\ NothingAppended
  /\ UNCHANGED << db, generated, tokens, retired >>

\* The process dies: its requests vanish, the tables stay.
Crash ==
  /\ frames' = [w \in Worker |-> Idle]
  /\ reply' = None
  /\ NothingAppended
  /\ UNCHANGED << db, generated, tokens, retired >>

Init ==
  /\ db = EmptyDatabase
  /\ frames = [w \in Worker |-> Idle]
  /\ appended = None
  /\ reply = None
  /\ generated = [k \in KeyId |-> None]
  /\ tokens = {}
  /\ retired = {}
===========================================================================
