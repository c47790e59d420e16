----------------------------- MODULE AadTokens -----------------------------
(***************************************************************************)
(* The lifetime of an AAD access token: issue_aad_token and                *)
(* validate_inbound_aad_token (tokens.py), between the token endpoint      *)
(* (routes/oauth_token.py) that issues and _aad_path (auth.py) that        *)
(* validates.  Time is counted in ticks, PerSecond of them to the second,  *)
(* so that int(time.time()) really loses something.  The wall clock that   *)
(* time.time() reads is wrong by up to ClockError, by another amount at    *)
(* each reading: the host's clock is slewed and stepped.  What AoaiTwin    *)
(* says of api keys and of the other rows is left out here.                *)
(***************************************************************************)
EXTENDS Integers, FiniteSets

CONSTANTS ResourceId, TenantId, Worker, None,
          PerSecond,    \* ticks in a second
          Ttl,          \* DEFAULT_TOKEN_TTL_SECONDS, in ticks
          Leeway,       \* CLOCK_SKEW_SECONDS, in ticks
          Backdate,     \* the 5 seconds nbf is set back, in ticks
          ClockError,   \* bound: error of the wall clock, in ticks
          Delay,        \* bound: duration of a request, in ticks
          Horizon,      \* bound: the clock stops here
          MaxTokens,    \* bound: tokens sent
          MaxDeletions  \* bound: deletions of one resource id

ASSUME DurationsAssumption ==
  /\ PerSecond \in Nat \ {0}
  /\ {Ttl, Leeway, Backdate, ClockError, Delay} \subseteq Nat
ASSUME BoundsAssumption == {Horizon, MaxTokens, MaxDeletions} \subseteq Nat

\* What CLOCK_SKEW_SECONDS has to absorb: the errors of two readings of the
\* clock, what int() cuts off, the time from the signature to the client's receipt
\* and from the client's request to the validation.
ASSUME LeewaySuffices == 2 * ClockError + 2 * Delay + PerSecond - 1 <= Leeway

VARIABLES
  now,           \* true time
  resources,     \* the tenant_id column of a resource row, None if absent
  signing_keys,  \* the kid column of its keypair, None if absent
  deletions,     \* how often each resource id has been deleted
  frames,        \* what each worker's handler keeps in locals and in g
  tokens         \* the access tokens clients have received

vars == << now, resources, signing_keys, deletions, frames, tokens >>

---------------------------------------------------------------------------
(* A keypair is drawn at random: the kid of the one drawn for a resource   *)
(* is none that was drawn for another one, or before a deletion.           *)

Kid == ResourceId \X Nat

\* Where a frame waits: to issue and to send a token; or to make the storage calls
\* of a validation, to decode and to answer.
Place == {"issue", "send", "ensure_keypair", "get_signing_key", "decode", "answer"}

\* The algorithms a header may name: the one accepted, and any other.
Algorithm == {"RS256", "HS256"}

ASSUME NoneAssumption ==
  None \notin ResourceId \cup TenantId \cup Kid \cup Place \cup Algorithm

NewKid(r) == << r, deletions[r] >>

\* get_or_create_signing_key
EnsuredKey(r) == IF signing_keys[r] = None THEN NewKid(r) ELSE signing_keys[r]
EnsureKeypair(r) == signing_keys' = [signing_keys EXCEPT ![r] = EnsuredKey(r)]

\* The readings of time.time() that are possible now, and int() of one.
WallClock == {now + e : e \in (-ClockError) .. ClockError}
Truncated(clock) == clock - (clock % PerSecond)

(* A token as a client holds it.  signed, since, seen and sent are not in  *)
(* it: the true times of its signature and of its receipt, and how often   *)
(* its resource had been deleted when the token request read the resource  *)
(* row and when it read the keypair.                                       *)

\* The payload and header of issue_aad_token, for one reading of the clock.
Issued(f, kid, clock) ==
  [ alg |-> "RS256", kid |-> kid, signer |-> kid, aud |-> "cognitiveservices",
    iss |-> f.rid, tid |-> f.owner,
    iat |-> Truncated(clock),
    nbf |-> Truncated(clock) - Backdate,
    exp |-> Truncated(clock) + Ttl,
    signed |-> now, since |-> f.since, seen |-> deletions[f.rid], sent |-> now ]

(* A bearer string this service did not issue has no signature of its      *)
(* keypairs: no JWT at all (alg None), or any header before a signature    *)
(* that does not verify, which is found out before a claim is looked at.   *)
Foreign(alg, kid) ==
  [ alg |-> alg, kid |-> kid, signer |-> None, aud |-> None, iss |-> None,
    tid |-> None, iat |-> 0, nbf |-> 0, exp |-> 0,
    signed |-> 0, since |-> 0, seen |-> 0, sent |-> 0 ]

Presentable ==
  tokens \cup {Foreign(None, None)}
         \cup {Foreign(alg, kid) : alg \in Algorithm,
                                   kid \in {signing_keys[r] : r \in ResourceId}}

---------------------------------------------------------------------------
(* jwt.decode (PyJWT, external): the signature, then the claims against    *)
(* one reading of the clock.  The order of the claims is the library's.    *)

\* Mutant of Expired: the leeway is forgotten.
ExpiredWithoutLeeway(t, clock) == t.exp <= clock

\* Mutant of Expired: the leeway is added on the wrong side.
ExpiredLeewayEarly(t, clock) == t.exp <= clock + Leeway

\* Mutant of Expired: decoding with verify_exp off.
ExpiredUnverified(t, clock) == FALSE

Expired(t, clock) == t.exp <= clock - Leeway
Immature(t, clock) == t.nbf > clock + Leeway \/ t.iat > clock + Leeway

\* Mutant of ClaimFailures: the reason is not the literal that is documented.
ClaimFailuresMisnamed(t, r, clock) ==
  IF Expired(t, clock) THEN {"exp"} ELSE {}

\* The claims that fail, by the reasons validate_inbound_aad_token gives them.
ClaimFailures(t, r, clock) ==
  {reason \in {"expired", "bad-aud", "bad-iss", "sig-invalid"} :
     \/ reason = "expired" /\ Expired(t, clock)
     \/ reason = "bad-aud" /\ t.aud # "cognitiveservices"
     \/ reason = "bad-iss" /\ t.iss # r
     \/ reason = "sig-invalid" /\ Immature(t, clock)}

\* Mutant of Verdicts: the kid of the header is not compared.
VerdictsOfAnyKid(t, r, owner, key, clock) ==
  IF key = None \/ t.signer # key THEN {"sig-invalid"}
  ELSE IF ClaimFailures(t, r, clock) # {} THEN ClaimFailures(t, r, clock)
  ELSE IF t.tid # owner THEN {"tid-mismatch"} ELSE {"accepted"}

\* validate_inbound_aad_token, its checks in their order, and the tid comparison
\* of _aad_path: the reasons for which the token may be refused, or "accepted".
Verdicts(t, r, owner, key, clock) ==
  IF t.alg = None THEN {"sig-invalid"}
  ELSE IF t.alg # "RS256" THEN {"unsupported-alg"}
  ELSE IF t.kid = None THEN {"missing-claim"}
  ELSE IF key # t.kid THEN {"unknown-kid"}
  ELSE IF t.signer # key THEN {"sig-invalid"}
  ELSE IF ClaimFailures(t, r, clock) # {} THEN ClaimFailures(t, r, clock)
  ELSE IF t.tid # owner THEN {"tid-mismatch"} ELSE {"accepted"}

---------------------------------------------------------------------------
Idle ==
  [ at |-> None, rid |-> None, owner |-> None, token |-> None, key |-> None,
    began |-> 0, since |-> 0, seen |-> 0, reason |-> None ]

Init ==
  /\ now = ClockError
  /\ resources = [r \in ResourceId |-> None]
  /\ signing_keys = [r \in ResourceId |-> None]
  /\ deletions = [r \in ResourceId |-> 0]
  /\ frames = [w \in Worker |-> Idle]
  /\ tokens = {}

Rows == << resources, signing_keys, deletions >>

\* Time passes; a request in progress ends within Delay of its beginning.
Tick ==
  /\ now < Horizon
  /\ \A w \in Worker : frames[w].at # None => now < frames[w].began + Delay
  /\ now' = now + 1
  /\ UNCHANGED << Rows, frames, tokens >>

---------------------------------------------------------------------------
(* The resource row, as the Twin Plane creates and deletes it. *)

CreateResource(r, t) ==
  /\ resources[r] = None
  /\ resources' = [resources EXCEPT ![r] = t]
  /\ UNCHANGED << now, signing_keys, deletions, frames, tokens >>

\* Mutant of DeleteResource: the keypair stays.
DeleteResourceRowOnly(r) ==
  /\ resources[r] # None
  /\ deletions[r] < MaxDeletions
  /\ resources' = [resources EXCEPT ![r] = None]
  /\ deletions' = [deletions EXCEPT ![r] = @ + 1]
  /\ UNCHANGED << now, signing_keys, frames, tokens >>

DeleteResource(r) ==
  /\ resources[r] # None
  /\ deletions[r] < MaxDeletions
  /\ resources' = [resources EXCEPT ![r] = None]
  /\ signing_keys' = [signing_keys EXCEPT ![r] = None]
  /\ deletions' = [deletions EXCEPT ![r] = @ + 1]
  /\ UNCHANGED << now, frames, tokens >>

---------------------------------------------------------------------------
(* Requests. *)

Begin(w, r, at, token) ==
  /\ frames[w] = Idle
  /\ resources[r] # None
  /\ frames' = [frames EXCEPT ![w] =
       [ at |-> at, rid |-> r, owner |-> resources[r], token |-> token, key |-> None,
         began |-> now, since |-> deletions[r], seen |-> 0, reason |-> None ]]
  /\ UNCHANGED << now, Rows, tokens >>

\* The token endpoint, once the client's secret has been found good.
BeginToken(w) ==
  /\ Cardinality(tokens) < MaxTokens
  /\ \E r \in ResourceId : Begin(w, r, "issue", None)

\* ensure_keypair, then one reading of the clock.
SignToken(w) ==
  LET f == frames[w] IN
  /\ f.at = "issue"
  /\ EnsureKeypair(f.rid)
  /\ \E clock \in WallClock :
       frames' = [frames EXCEPT ![w].at = "send",
                                ![w].token = Issued(f, EnsuredKey(f.rid), clock)]
  /\ UNCHANGED << now, resources, deletions, tokens >>

\* The log row and the response.
SendToken(w) ==
  /\ frames[w].at = "send"
  /\ tokens' = tokens \cup {[frames[w].token EXCEPT !.sent = now]}
  /\ frames' = [frames EXCEPT ![w] = Idle]
  /\ UNCHANGED << now, Rows >>

\* A data-plane request with a bearer token: require_resource.
BeginInference(w) ==
  \E r \in ResourceId, t \in Presentable : Begin(w, r, "ensure_keypair", t)

\* require_aoai_data_auth makes sure of the keypair before it looks at the token.
EnsureKey(w) ==
  /\ frames[w].at = "ensure_keypair"
  /\ EnsureKeypair(frames[w].rid)
  /\ frames' = [frames EXCEPT ![w].at = "get_signing_key"]
  /\ UNCHANGED << now, resources, deletions, tokens >>

\* The jwks_resolver that _aad_path passes reads the keypair again.
ResolveKey(w) ==
  LET f == frames[w] IN
  /\ f.at = "get_signing_key"
  /\ frames' = [frames EXCEPT ![w] = [f EXCEPT !.at = "decode",
                                                !.key = signing_keys[f.rid],
                                                !.seen = deletions[f.rid]]]
  /\ UNCHANGED << now, Rows, tokens >>

Decide(w) ==
  LET f == frames[w] IN
  /\ f.at = "decode"
  /\ \E clock \in WallClock :
       \E reason \in Verdicts(f.token, f.rid, f.owner, f.key, clock) :
         frames' = [frames EXCEPT ![w] = [f EXCEPT !.at = "answer", !.reason = reason]]
  /\ UNCHANGED << now, Rows, tokens >>

\* The response; or, at any moment, a storage call that raises or a crash.
End(w) ==
  /\ frames[w].at # None
  /\ frames' = [frames EXCEPT ![w] = Idle]
  /\ UNCHANGED << now, Rows, tokens >>

Next ==
  \/ Tick
  \/ \E r \in ResourceId : DeleteResource(r) \/ \E t \in TenantId : CreateResource(r, t)
  \/ \E w \in Worker :
       \/ BeginToken(w) \/ SignToken(w) \/ SendToken(w)
       \/ BeginInference(w) \/ EnsureKey(w) \/ ResolveKey(w) \/ Decide(w)
       \/ End(w)

Spec == Init /\ [][Next]_vars

---------------------------------------------------------------------------
(* Properties.  They speak of a frame that has just decided about a token. *)

Decided(w) == frames[w].at = "answer"
Accepted(w) == Decided(w) /\ frames[w].reason = "accepted"

Token ==
  [ alg : Algorithm \cup {None}, kid : Kid \cup {None}, signer : Kid \cup {None},
    aud : {"cognitiveservices", None}, iss : ResourceId \cup {None},
    tid : TenantId \cup {None}, iat : Int, nbf : Int, exp : Int,
    signed : Int, since : Nat, seen : Nat, sent : Int ]

Reasons == {"accepted", "sig-invalid", "unsupported-alg", "missing-claim", "unknown-kid",
            "expired", "bad-aud", "bad-iss", "tid-mismatch"}

Frame ==
  [ at : Place \cup {None},
    rid : ResourceId \cup {None}, owner : TenantId \cup {None},
    token : Token \cup {None}, key : Kid \cup {None},
    began : Int, since : Nat, seen : Nat, reason : Reasons \cup {None} ]

TypeOK ==
  /\ now \in Int
  /\ resources \in [ResourceId -> TenantId \cup {None}]
  /\ signing_keys \in [ResourceId -> Kid \cup {None}]
  /\ deletions \in [ResourceId -> Nat]
  /\ frames \in [Worker -> Frame]
  /\ tokens \subseteq Token

\* A client that uses a token within expires_in seconds of having received it is
\* let in, whatever the clocks, the rounding and the queues on the way: unless the
\* token is for another resource, or the resource was deleted since the token
\* request began.
TokensWorkUntilTheyExpire ==
  \A w \in Worker :
    LET f == frames[w]
        t == f.token
    IN  Decided(w) /\ t \in tokens /\ f.rid = t.iss /\ f.seen = t.since
          /\ f.began < t.sent + Ttl => f.reason = "accepted"

\* Nobody is let in on a token much older than it says: the leeway and the error of
\* the two clock readings are all it gets.
NoTokenOutlivesItsLeeway ==
  \A w \in Worker :
    Accepted(w) =>
      frames[w].began < frames[w].token.signed + Ttl + Leeway + 2 * ClockError

\* Only what this service has issued is accepted, for the resource and the tenant it
\* was issued for, and not by a request that began after the resource was deleted.
AcceptedTokensAreGood ==
  \A w \in Worker :
    LET f == frames[w]
        t == f.token
    IN  Accepted(w) => /\ t \in tokens
                       /\ t.iss = f.rid
                       /\ t.tid = f.owner
                       /\ f.since <= t.seen

\* The reason in the log is the real one.  A token of the service is refused because
\* it has expired in true time, because its keypair is that of another resource or
\* went with a deletion, or because the resource changed hands while the token
\* was being issued; never for its signature, audience, issuer or shape.
ReasonsAreTrue ==
  \A w \in Worker :
    LET f == frames[w]
        t == f.token
    IN  Decided(w) /\ t \in tokens =>
          \/ f.reason = "accepted"
          \/ f.reason = "expired" /\ now >= t.signed + Ttl
          \/ f.reason = "unknown-kid" /\ (t.iss # f.rid \/ t.seen < f.seen)
          \/ f.reason = "tid-mismatch" /\ t.since < t.seen
===========================================================================
