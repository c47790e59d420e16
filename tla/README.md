# Verification of the Azure OpenAI twin

The repository is a *twin* of Azure OpenAI: a Flask service that answers the data-plane API with
synthetic text, and a management API, the Twin Plane, through which tenants provision the
resources, api keys and deployments that the data plane serves. Its core logic is the life cycle
of those rows, the credentials that rest on them, the log and history rows every request leaves,
the answers and streams themselves, and the storage that several threads, and perhaps several
processes, share. This directory models that core in TLA+, checks it with TLC on small
instances, and proves with TLAPS, for every instance, what the runs show of safety.

## The system

| component | state | operations | what makes it correct |
|---|---|---|---|
| Twin Plane (`twin_plane/routes.py`) | none of its own; `g.tenant_id` of the request | create/delete resource, api key, deployment; lists; tenants, feedback, logs page by page | a tenant changes only what it owns; an acknowledged change is in the tables; a client that pages through the log misses no row |
| Token endpoint, JWKS, discovery (`routes/oauth_token.py`, `routes/well_known.py`) | none | issue a token, publish the keypair | every token verifies against the published keypair until the resource is deleted, and is accepted for as long as `expires_in` says and not much longer |
| Data-plane authentication (`auth.py`, `crypto.py`, `tokens.py`) | `g.resource`, `g.tenant_id` | resolve the resource, ensure its keypair, accept an api key or a bearer token | whoever is accepted holds a credential of the tenant that owns the resource |
| Data-plane endpoints (`routes/openai_data.py`, `models.py`) | history rows | chat completions, completions, embeddings, responses, two of them streamed; unknown paths | history rows name the owner and a deployment that was found; a stream is the recorded answer, whole when it says so |
| Storage (`storage.py`, `storage_sqlite.py`) | seven SQLite tables, one `threading.Lock` per process | about twenty calls | each call is atomic, raises without effect, and releases what it holds |
| Log emission (`logs.py`) | the logs table | `emit` after (nearly) every operation | one row per operation that is acknowledged, after its effect, in the name of the right tenant |
| Host (`host.py`, `app.py`, `config.py`) | the storage object | `app.run` (a thread per request) or gunicorn (one synchronous worker) | |
| `twins_local` (external) | tenants | authentication of tenants, log records | outside this repository |

A handler is straight-line code around *storage calls*: it reads a row, decides, and writes with
another call; it keeps what it read in locals and in `g`. Nothing holds the lock from the read to
the write, except inside `get_or_create_signing_key`. The hard behaviours follow from that: two
handlers interleave between their storage calls; a row read is stale when it is acted on; first
requests race for a resource's keypair; a process dies, or a call raises, after some of a handler's
calls have committed; several processes share a database and not a lock; the clock moves between
the issue of a token and its validation; rows are appended between two pages of the log; a client
leaves in the middle of a stream. `hazards` in `PROJECT.json` lists them at their lines.

## Modules

* `Tables`: the four mutable tables as functions from primary key to row, one operator per SQL
  statement. Names, dates and PEM text are left out; an api key's id, secret and hash are one
  `KeyId`, a keypair and its thumbprint one `Kid`. These are drawn from so many bits that the model
  never draws one twice.
* `Service` (extends `Tables`): the shared state of the planes. `db` is the committed tables.
  `frames[w]` is the request worker `w` is serving: a record of the handler's locals (`by` is
  `g.tenant_id` of the Twin Plane, `owner` the tenant of the resource row the handler has read, kept
  as in `g.resource`) and of `at`, the storage call it makes next. `appended` is the log or history
  row of the last step (both tables are only ever appended to, and no handler of the planes reads them; `AuditLog` and `Answers` keep them),
  `reply` the response of the last step, `tokens` and `generated` what clients have been sent,
  `retired` the keypairs of deleted resources. `StorageFails` is a storage call that raises, which
  no handler catches: Flask answers 500 and what was committed stays. `Crash` loses the frames.
* `TwinPlane`, `Identity`, `DataPlane` (extend `Service`): the handlers. One action is one storage
  call together with the code from its return to the next call, so the early returns and status
  codes of the code are the disjuncts. `Begin...` receives the request and makes its first read.
* `AoaiTwin` (extends the three): all workers together, `Spec`, `FairSpec` and the properties.
* `TenantContract`: what tenants are promised, as if each request were one step: creations and
  deletions by the tenant that owns the resource at that moment, an api key that becomes a row at
  most once and as it was drawn, a keypair that stays with its resource, tokens in their owner's
  name. `AoaiTwin` instantiates it as `Contract`: the keys drawn, which it needs and the tables do
  not have, are read off `generated` (`Drawn`), and those that may still become rows off the
  frames (`KeysInProgress`).
* `StorageCalls` and `TwinStorage`: the contract of `storage.py`. A call takes effect at
  one moment between invocation and return, or raises with no effect. This is exactly what
  `Service` assumes of a storage call.
* `SQLiteStorage` (extends `StorageCalls`): `storage_sqlite.py` statement by statement. `lock[p]` is `self._lock` of
  process `p`, `writer` the connection that has SQLite's write lock, `draft` its uncommitted tables,
  `committed` what readers see (WAL mode). `Close` is the `finally` block, which rolls back;
  `Locked` the driver's busy timeout; `Fails` any other `OperationalError`. `Promise` instantiates
  `TwinStorage` with `db <- committed`; a call is done once it has committed or read.
* `AadTokens`: `issue_aad_token` and `validate_inbound_aad_token` with time, which the planes leave
  out. `now` is true time in ticks, `PerSecond` of them to the second; every reading of
  `time.time()` is off by up to `ClockError`, `int()` cuts off the fraction, a request lasts up to
  `Delay`. `ClaimFailures` and `Verdicts` are the rejections in the code's order, PyJWT's (external)
  among them. Around it a resource is deleted and taken over by other tenants. A token is kept with
  the true times of its signature and receipt, which the code does not know and the properties need.
* `AuditLog`: `create_tenant`, `submit_feedback`, unknown paths, `emit`, and `list_logs`. `logs` is a
  sequence, newest row last; `Page` is `ORDER BY id DESC LIMIT ? OFFSET ?`. A client reads
  page after page, stepping by the limit that the response reports, until a page is not full.
  `lost` has the effects whose request failed after they were committed.
* `Answers`: the inference endpoints from the accepted body on. `ChatQuote`, `ResponseQuote`,
  `Reply` and `LegacyReply` are the text functions of `models.py`; `EmbedWord` one turn of the inner
  loop of `synthetic_embedding`; `PersistRequest` and `Emit` the two writes; `Respond` the body, or
  the first event; the actions `Yield...` one event each of the generators of `_stream_response`
  (chunks of `ChunkLength`) and `_stream_chat_completion` (words). The done and completed events repeat the
  whole text, which the client has by then, and so send nothing new in the model. A client may `Disconnect` between
  two events.
* `AnswerContract`: what a client is promised, streamed to or not: the beginning of the recorded
  answer, all of it when told so. `Answers` instantiates it as `Contract`.
* `Tables_proofs` and `Numbers_proofs` (lemmas on the statements, and on naturals), `AoaiTwin_proofs`,
  `Tenancy_proofs`, `SQLiteStorage_proofs`, `AadTokens_proofs`, `AuditLog_proofs`, `Answers_proofs`: the
  theorems, with the invariants they rest on. `MCAoaiTwin`, `MCSQLiteStorage`, `MCAadTokens`, `MCAuditLog`, `MCAnswers`: values for TLC.

The four groups (planes, storage, tokens, answers and log) meet at the storage call: it is atomic
and may raise in each, which `SQLiteStorage` justifies for the mutable tables, and which for the
append-only ones is a single INSERT. `AadTokens` stands beside `Identity` and `DataPlane`: those have
every row and no time, it has time and only the rows that a token depends on. `Answers` continues
`DataPlane` at `PersistRequest`.

Mutants (operators marked `Mutant of ...`) are plausible mistakes in an operator; each property
has one that breaks it.

## Runs

All on `Spec` unless said otherwise; every run but `tokens` includes crashes and storage calls that
raise at any point (in `tokens` a request may end at any point, which is both).

| run | instance | shows |
|---|---|---|
| `sequential` | 1 worker, 1 resource id, 2 tenants, 2 keys, every endpoint | the invariants of the documented single-worker host. Two tenants suffice to own the same resource id one after the other; two keys to tell a tenant's own key from another's. The handlers implement `TenantContract`, and the keypair of a resource verifies its present owner's tokens only |
| `tenants` | 2 workers, 2 resources, 2 tenants, nothing deleted | keys, tokens and requests of one tenant's resource do not work on the other's; of two creations that race only the one that won is acknowledged; interleaved handlers implement `TenantContract` |
| `races` | 2 workers, deletion included, 2 keypairs, 2 models | the properties that hold with threads and deletions: stable keypair, no row overwritten, a deployment by one of another model included, deletion of all that is below a resource |
| `liveness` | 2 workers, `FairSpec` | every request ends |
| `threads_rows` | 2 workers, deletion included | refuted: see below |
| `threads_credentials` | the same without the token endpoint (`KeysAndData`), so that the stale key shows at the data plane | refuted |
| `threads_writes` | the same on the Twin Plane only (`Management`), with 3 keypairs | refuted |
| `storage_threads` | 1 process of 3 threads, 2 resources | `SQLiteStorage` implements `TwinStorage`; first callers never collide |
| `storage_processes` | 2 processes, every call, `FairSpec` | the same promise where only SQLite arbitrates; `StorageInv`, the invariant of the proofs; the lock is always released |
| `tokens` | 1 worker, 2 resources, 2 tenants, wrong clocks, one deletion | a token works as long as it says, ends after the leeway, is good for its resource, tenant and incarnation only, and is refused for the reason logged |
| `audit_log` | 2 workers, 1 client of the log, 5 rows | paging misses no row whatever is appended meanwhile; the log tells of committed effects, and of all whose request succeeded |
| `answers` | 2 workers, 2 requests, `FairSpec` | `Answers` implements `AnswerContract`; rows, quotes and vectors are right; every step of a request lowers `StepsLeft`, and every request ends |

**Bounds.** Of the planes and the storage, the sets above are the only bounds but `KidsSuffice` in
`TwinPlane`: keypairs are finite in the model, so a deletion starts only while every resource can still be given a fresh one; with
two keypairs each resource id is deleted and re-created once, which is what a stale credential or
row needs to meet its second owner. Each deletion in progress sets a keypair aside, so two deletions
of one resource overlap only where there are three keypairs, as in `threads_writes`. A `KeyId` is used once. Symmetry is over tenants, keys,
keypairs, models, and in `tokens` and `audit_log` over resource ids, workers or feedback, none of which
the properties or the code tell apart; no run that checks a liveness property uses it. `completions`, `embeddings` and `responses` are the same
steps as `chat_completions` and are left out of the runs with two workers.

`tokens`: a second is two ticks, so that `int()` has something to cut; lifetime 2, leeway 5, which is
just what `LeewaySuffices` asks for with a clock error and a delay of 1, and with `Horizon` 12 a
token is born, expires, and outlives the leeway within the run. `MaxTokens` and `MaxDeletions` are 1: a
token is straddled by one deletion, and any older one has the same part in the code.
`audit_log`: `MaxLimit` 2 and five rows make up to three pages; the limits asked for are one below 1, one in
range and one above (`Limits`). `answers`: chunks of 2 characters with texts of length divisible by 2
and not, vectors of 3 words from blocks of 2, a prompt that is cut, a batch that is too long; the bodies
(`SomeChats`, `SomeInputs`, ...) hold an instance of each shape the text functions tell apart.
A constant that is only a bound is marked so where its module declares it.

**Fairness.** `FairSpec` assumes that a worker inside a request takes its next step: the operating
system schedules the thread, and every storage call returns or raises. It assumes no clients and no
failures. In `Answers` it is the same, and a stream goes on only as its client reads on or leaves: a
client that does neither holds its thread, as in the code. In `SQLiteStorage` a thread inside a call is scheduled again; nothing is assumed of the
order in which a lock goes to its waiters, which is why the property there is that the lock is
released, and not that every waiter gets it.

**What threads and deletion break.** Three statements of the repository hold for one
synchronous worker, and for threads as long as no resource is deleted, and fail for the
threads of `app.run` (`host.py:52-57`) when `delete_resource` interleaves with another handler:

* `threads_rows`: "Delete a resource and any of its child rows" (`storage.py:48`). A data-plane
  request has read the resource; the deletion commits; the request inserts a keypair for the
  resource that is gone. The same happens with an api key and a deployment.
* `threads_writes`: "Resource-scoped routes verify the resource belongs to the authenticated
  tenant; cross-tenant references return 404" (`twin_plane/routes.py:10`). The verification is a
  read before the write. Two deletions by the owner pass it; one commits; another tenant creates a
  resource of that id; the other deletion then deletes it, and is answered 200.
* `threads_credentials`: "Tenant isolation is enforced on both paths" (`auth.py:12`). An api key is
  inserted under a resource id that another tenant has taken over since the check, and the data
  plane lets it in as that tenant (`auth.py:64`). The token endpoint, left out of this run,
  compares ids likewise (`routes/oauth_token.py:82-87`).

One transaction around check and write, or foreign keys with `tenant_id` in the statement's
condition, would remove all three.

## Proofs

`AoaiTwin_proofs` proves, for every number of workers, tenants, resources, keys and keypairs, and
every subset of the endpoints:

* `TypeCorrect`: `Spec => []TypeOK`. Beyond the types of tables, frames and replies it says that every
  history row and token names a tenant, and every log row but those of JWKS and discovery, which
  serve anybody. An api key row may name none: where a deletion overtakes `create_api_key`, it does;
* `TokensAlwaysVerify`: `Spec => []TokensVerify`;
* `RowsAreWrittenOnce` and `SigningKeysGoWithResources`: the two action properties of `races`.

The inductive invariant is `IInv == TypeOK /\ FramesOK /\ KeysReserved /\ TokensVerify`. `TypeOK`
alone is not inductive: that a log row has a resource, or a token a tenant, depends on what
the handler has set by the time it gets there, which `FramesOK` states by endpoint and storage call
(`CallsOf`, `LocalsSet`). `RowsWriteOnce` needs `KeysReserved`: the INSERT of an api key meets no row
because the key was drawn for this request only. Each action is first shown to keep the types and
the frames (`TwinPlaneOK`, `IdentityOK`, `DataPlaneOK`), and to have an *effect* on tables and
outputs (`Effect`: rows are kept or removed as a whole, tokens are signed with a stored key, ...). The
remaining invariants follow from the effect alone, whichever handler had it.

`SQLiteStorage_proofs` proves, for every number of processes and threads and any set of calls:

* `StorageInvariant`: `Spec => []StorageInv`;
* `SQLiteKeepsPromise`: `Spec => KeepsPromise`, the refinement of `TwinStorage`. With it, what the
  theorems of `AoaiTwin` assume of a storage call is what the statements of SQLite provide;
* `WriterAlwaysHoldsLock`: `Spec => []WriterHoldsLock`;
* `FirstCallersOfOneProcess`: `Spec => []FirstCallersNeverCollide` when there is one process. With
  two it is false, and the refinement shows what is left: the loser raises and changes nothing.

The inductive invariant `StorageInv` places each call: by its statement (`at`) it tells whether the
thread has the lock and the transaction, and what the draft is. The refinement needs the last: that
at the commit of `delete_resource` the draft is the committed tables after all four DELETEs
(`Drafted`), so the commit is the whole call at one moment; and that an INSERT that has passed its
constraint still finds its key free when it commits, which holds because `committed` changes only
under the database's write lock. A step of one thread leaves the others in place (`OthersInOrder`,
`StepOfOne`), so each action is proved for the thread that takes it. `FirstCallersOfOneProcess` adds
to it that a first request which selected no keypair finds none at its INSERT: in one process
nobody else can commit in between, for the caller holds the lock. The refinement maps each step to one
of the contract (`InvokeIsInvoke`, `SelectIsPerform`, `CommitIsPerform`, ...) or to a stutter.

`Tenancy_proofs` proves what holds only where no deletion interferes. The assumption is in each
theorem: `ResourcesStay`, one worker or no `delete_resource` among the endpoints, for
`RowsFollowResources`, `KeysNameOwners`, `OnlyOwnersAuthenticate` and `OnlyOwnersWrite`; `RowsStay`, one worker
or no deletion at all, for `AcknowledgedWritesStay`. The runs `threads_...` show that it is needed. The
invariant is `Tenancy` on top of `IInv`: each row below a resource, and each token, is its owner's, and
each frame is `Rightful`, that is, acts for the owner that the resource has *now*. A step of a
worker keeps its own frame rightful because it reads the row; it keeps the others' because under the
assumption either there are no others or owners, once there, do not change.

Under `ResourcesStay` the module also proves the refinement of `TenantContract`, `ActsAtomically`:
`Spec => TenantsActAtomically`. Each step of a handler is a whole request of the contract, or a
stutter: the step that inserts, removes or signs is the request, its check, made in an earlier
step, still holds, and a key whose request ends without its INSERT is abandoned. To `Tenancy` this
adds `Provenance`: each api key in the tables or in a handler's hands is the row it was drawn for
(`KeysAsDrawn`, `InHand`), and the keypair that a handler holds is the one of the resource. The
lemmas follow the step: what it does to the tables (`SameStatements`, `WriteMapsToContract`), to
tokens (`TokenMapsToContract`), to the keys in progress (`MapsToAbandon`), and all of it
(`StepMapsToContract`). That a keypair which has signed is given to no other resource
(`KeypairIsFresh`) comes from `TokensVerify`. Without `ResourcesStay` the refinement is false: a
request that has passed the check inserts its key after the deletion, which no request of the
contract can do, or deletes what another tenant has created; `threads_rows` and `threads_writes` are
such behaviours.

From the contract follows `JwksVerifiesOwnersTokens`: whoever verifies a token with the JWKS of a
resource learns the tenant that owns it now. The invariant is about tokens and tables only, so its
proof (`ContractKeepsTokens`) goes through the contract's requests, and looks at no handler again.

`AadTokens_proofs`, for every lifetime, leeway and error of the clocks:

* `TokensWorkAsAdvertised`: a token is accepted by every request begun before its `expires_in` has
  passed since it was received. This rests on `LeewaySuffices`, `2*ClockError + 2*Delay + PerSecond - 1
  <= Leeway`: two readings of the clock, what `int()` cuts off, and the delays of issue and validation
  must fit into the leeway. With the five minutes of the code they do as long as clock error and delay
  add up to less than two and a half;
* `TokensEnd`: none is accepted `Ttl + Leeway + 2*ClockError` after its signature;
* `AcceptedAreGood`, `ReasonsAreReal`: what is accepted was issued here for this incarnation of the
  resource, and what is refused is refused for the true reason;
* `TokenTypes`: `Spec => []TypeOK`.

The invariant relates each token's claims to the times of its signature (`WellMade`), each frame to the
deletions it has seen (`InOrder`), and says that all who have read the row of one incarnation agree on
its owner (`OwnersAgree`).

`AuditLog_proofs`, for every number of clients, workers and rows:

* `PagesAreComplete`: counted from the newest, the rank of a row only grows as rows are appended, so a row the
  client has not seen stays behind its offset (`Behind`), and a page with rows behind it is full;
* `LogNeverLies`, `LogForgetsNothing`: the log row comes after the effect and with the response;
* `LogTypes`: `Spec => []TypeOK`.

`Answers_proofs`, for every text, chunk length, dimension and body:

* `ContractIsKept`: `Spec => AnswersKeepContract`, the refinement of `AnswerContract`. A frame in mid-stream
  has sent `SubSeq(answer, 1, sent)`, and `sent` is the whole length at the closing events;
* `RowsAndAnswersAgree`: the log rows of a kind are those of a set of history rows between the answered
  ones and all (`LogsFit`);
* `EmbeddingsComplete`: in the loop, the length of the vector is `block * BlockWords + word`, each word in
  its place, so the vector stops at `Dims` exactly;
* `NewestIsQuoted`: the text functions choose the newest message or item, for every body;
* `RequestsComeNearer`: whatever changes a request lowers `StepsLeft`, which is a natural number until
  it ends and 0 then. In the embedding loop a word counts two and a used-up block one, so a word that
  uses up its block still lowers the sum, as does the next block (`BlockWords` is not 0: no block is
  used up when it is new), and the turn to the next text takes off the steps of a whole one. A
  word or delta sends a character or leaves its place, for no word but the first, and no chunk while
  there is text left, is empty. So a request takes no more steps than its `StepsLeft`: what liveness
  adds is only that it takes them;
* `AnswerTypes`: `Spec => []TypeOK`.

The assumptions are those of the modules: that `None` and the places, names and rows it stands beside
differ (`NoneIsNoValue`, `NoneIsNoRecord`, `NoneIsNoName`, `NoneIsNoOutput`, `NoneIsNoCall`,
`NoneIsNoPlace`, `NoneAssumption`, `NamesAssumption`), that sizes, bounds and bodies are of their kind
(`DurationsAssumption`, `BoundsAssumption`, `LimitsAssumption`, `BootstrappedAssumption`, `TextsAssumption`,
`SizesAssumption`, `BodiesAssumption`), that `Op` is a set of endpoints, and `Calls` a set of calls of
which each creation of a resource names a tenant (`CallsAreCalls`); and `LeewaySuffices`, as above. TLC
evaluates all of them.

Only model-checked: liveness (`EveryRequestEnds`, `LockIsReleased`, `RequestsEnd`), which with `ENABLED` is
out of the prover's reach; of `RequestsEnd`, `RequestsComeNearer` proves the half that needs no fairness.
Every safety property, action property and refinement of a passing run is a theorem. No module
declares a RECURSIVE operator.

## Not modelled

* The list endpoints other than `list_logs`, and the information endpoints: they read in one storage call, or
  return constants, and change nothing. `put_signing_key`, `update_feedback` and
  `list_requests` of the storage: no handler calls them.
* Token counts, `created` stamps, ids, the layout of bodies and events, error envelopes, headers, the
  explainer page: layout that nothing else depends on.
* The arithmetic of an embedding's words and its normalisation (floating point); RSA, thumbprints,
  hashes and encodings, taken for injective; PyJWT, of which `AadTokens` has the checks that
  `tokens.py` asks for.
* The tenant store and the authentication of tenants (the external package `twins_local`), of which the
  model takes that a Twin Plane request acts as one authenticated tenant. Administrators only read:
  every route below a resource is `require_tenant`, so the administrator's way past the ownership check
  (`twin_plane/routes.py:58`) is left out. Configuration and wiring
  (`app.py`, `config.py`) but for the hosts' concurrency.

See `components` in `PROJECT.json`.

## Plan

Done: tables, planes, storage contract, SQLite storage, tokens, log, answers and streams, with the
theorems above. What is left is of the kinds listed under *Not modelled*. Should the code put check and
write into one transaction, `Service`'s storage calls become those transactions, the three refuted
properties move to runs that pass, and `ResourcesStay` can be dropped from `Tenancy_proofs`.
