-------------------------- MODULE AadTokens_proofs --------------------------
(***************************************************************************)
(* The invariants of AadTokens hold for all durations that satisfy         *)
(* LeewaySuffices, and any number of requests, tokens and deletions.       *)
(***************************************************************************)
EXTENDS AadTokens, TLAPS

---------------------------------------------------------------------------
(* What the proofs carry from step to step. *)

\* A stored keypair was drawn in the present incarnation of its resource.
KeysAreFresh ==
  \A r \in ResourceId : signing_keys[r] # None => signing_keys[r] = NewKid(r)

\* A token of the service: what its claims have to do with the time and the
\* keypair of its signature.
WellMade(t) ==
  /\ t.alg = "RS256" /\ t.aud = "cognitiveservices"
  /\ t.iss \in ResourceId /\ t.tid \in TenantId
  /\ t.kid = << t.iss, t.seen >> /\ t.signer = t.kid
  /\ t.since <= t.seen /\ t.seen <= deletions[t.iss]
  /\ t.nbf <= t.iat /\ t.iat <= t.signed + ClockError
  /\ t.exp <= t.signed + ClockError + Ttl
  /\ t.signed - ClockError - PerSecond + Ttl < t.exp
  /\ t.signed <= now

TokensWellMade ==
  \A t \in tokens : WellMade(t) /\ t.sent <= t.signed + Delay /\ t.sent <= now

IsForeign(t) == t.signer = None

\* A frame by the place it is at.
InOrder(w) ==
  LET f == frames[w] IN
  f.at # None =>
    /\ f.rid \in ResourceId /\ f.owner \in TenantId
    /\ f.since <= deletions[f.rid]
    /\ f.began <= now /\ now <= f.began + Delay
    /\ f.at = "send" =>
         /\ f.token \in Token /\ WellMade(f.token)
         /\ f.token.iss = f.rid /\ f.token.tid = f.owner /\ f.token.since = f.since
         /\ f.began <= f.token.signed
    /\ f.at \in {"ensure_keypair", "get_signing_key", "decode", "answer"} =>
         /\ f.token \in Token
         /\ f.token \in tokens \/ IsForeign(f.token)
         /\ f.token \in tokens /\ f.token.iss = f.rid => f.token.seen <= f.since
    /\ f.at \in {"decode", "answer"} =>
         /\ f.since <= f.seen /\ f.seen <= deletions[f.rid]
         /\ f.key \in {None, << f.rid, f.seen >>}
         /\ f.key = None => f.since < f.seen
    /\ f.at = "get_signing_key" /\ signing_keys[f.rid] = None => f.since < deletions[f.rid]

FramesInOrder == \A w \in Worker : InOrder(w)

\* Who owns an incarnation of a resource, as the current row, the frames that read
\* its row and the tokens issued from such a frame have it.
Owners ==
  {<< frames[w].rid, frames[w].since, frames[w].owner >> : w \in {v \in Worker : frames[v].at # None}}
    \cup {<< t.iss, t.since, t.tid >> : t \in tokens}

OwnersAgree ==
  /\ \A c, d \in Owners : c[1] = d[1] /\ c[2] = d[2] => c[3] = d[3]
  /\ \A c \in Owners : c[2] = deletions[c[1]] => resources[c[1]] = c[3]

Inv ==
  /\ TypeOK /\ KeysAreFresh /\ TokensWellMade /\ FramesInOrder /\ OwnersAgree
  /\ TokensWorkUntilTheyExpire /\ NoTokenOutlivesItsLeeway
  /\ AcceptedTokensAreGood /\ ReasonsAreTrue

---------------------------------------------------------------------------
\* int() loses less than a second and gains nothing.
LEMMA TruncatedBounds ==
  ASSUME NEW clock \in Int
  PROVE  /\ Truncated(clock) \in Int
         /\ Truncated(clock) <= clock
         /\ clock - PerSecond < Truncated(clock)
BY DurationsAssumption DEF Truncated

\* A reading of the wall clock is within ClockError of the true time.
LEMMA WallClockBounds ==
  ASSUME now \in Int, NEW clock \in WallClock
  PROVE  clock \in Int /\ now - ClockError <= clock /\ clock <= now + ClockError
BY DurationsAssumption DEF WallClock

\* The steps of requests leave the resource rows alone.
LEMMA OwnersKept ==
  ASSUME OwnersAgree, Owners' \subseteq Owners,
         UNCHANGED << resources, deletions >>
  PROVE  OwnersAgree'
BY DEF OwnersAgree

\* No token of the service is foreign.
LEMMA TokensAreSigned ==
  ASSUME TypeOK, TokensWellMade
  PROVE  \A t \in tokens : t.signer # None
<1> SUFFICES ASSUME NEW t \in tokens PROVE t.signer # None
  OBVIOUS
<1>1. t \in Token /\ t.signer = << t.iss, t.seen >> /\ t.iss \in ResourceId
  BY DEF TokensWellMade, WellMade, TypeOK
<1>2. t.signer \in Kid
  BY <1>1 DEF Token, Kid
<1> QED BY <1>2, NoneAssumption

\* A decision about a token of the service stays true: the frame does not change
\* before its end, time goes on, and no foreign token becomes one of the service.
LEMMA VerdictsKept ==
  ASSUME TypeOK, TypeOK', FramesInOrder, TokensWellMade',
         TokensWorkUntilTheyExpire, NoTokenOutlivesItsLeeway,
         AcceptedTokensAreGood, ReasonsAreTrue,
         now' \in Int, now <= now', tokens \subseteq tokens',
         \A v \in Worker : Decided(v)' => frames'[v] = frames[v]
  PROVE  /\ TokensWorkUntilTheyExpire' /\ NoTokenOutlivesItsLeeway'
         /\ AcceptedTokensAreGood' /\ ReasonsAreTrue'
<1>1. \A v \in Worker : Decided(v)' => Decided(v) /\ frames'[v] = frames[v]
  BY DEF Decided
<1>2. \A t \in tokens' : t.signer # None
  <2>1. (\A t \in tokens : t.signer # None)'
    BY TokensAreSigned, PTL
  <2> QED BY <2>1
<1>3. \A v \in Worker : Decided(v) => frames[v].token \in tokens \/ frames[v].token \notin tokens'
  BY <1>2, NoneAssumption DEF FramesInOrder, InOrder, IsForeign, Decided, Place
<1>4. TokensWorkUntilTheyExpire'
  <2> SUFFICES ASSUME NEW v \in Worker, Decided(v)',
                      frames[v].token \in tokens, frames[v].rid = frames[v].token.iss,
                      frames[v].seen = frames[v].token.since,
                      frames[v].began < frames[v].token.sent + Ttl
               PROVE  frames[v].reason = "accepted"
    BY <1>1, <1>3 DEF TokensWorkUntilTheyExpire
  <2> QED BY <1>1 DEF TokensWorkUntilTheyExpire
<1>5. NoTokenOutlivesItsLeeway'
  <2> SUFFICES ASSUME NEW v \in Worker, Decided(v)', frames[v].reason = "accepted"
               PROVE  frames[v].began < frames[v].token.signed + Ttl + Leeway + 2 * ClockError
    BY <1>1 DEF NoTokenOutlivesItsLeeway, Accepted
  <2> QED BY <1>1 DEF NoTokenOutlivesItsLeeway, Accepted
<1>6. AcceptedTokensAreGood'
  BY <1>1 DEF AcceptedTokensAreGood, Accepted, Decided
<1>7. ReasonsAreTrue'
  <2> SUFFICES ASSUME NEW v \in Worker, Decided(v)', frames[v].token \in tokens
               PROVE  \/ frames[v].reason = "accepted"
                      \/ frames[v].reason = "expired" /\ now' >= frames[v].token.signed + Ttl
                      \/ /\ frames[v].reason = "unknown-kid"
                         /\ \/ frames[v].token.iss # frames[v].rid
                            \/ frames[v].token.seen < frames[v].seen
                      \/ frames[v].reason = "tid-mismatch" /\ frames[v].token.since < frames[v].token.seen
    BY <1>1, <1>3 DEF ReasonsAreTrue
  <2>1. frames[v].token.signed \in Int /\ now \in Int /\ Ttl \in Int
    BY DurationsAssumption DEF TypeOK, Token
  <2> QED BY <1>1, <2>1 DEF ReasonsAreTrue
<1> QED BY <1>4, <1>5, <1>6, <1>7

LEMMA InitInv == Init => Inv
<1> SUFFICES ASSUME Init PROVE Inv
  OBVIOUS
<1> USE DEF Init
<1>1. \A w \in Worker : frames[w] = Idle
  OBVIOUS
<1>2. \A w \in Worker : ~Decided(w) /\ frames[w].at = None
  BY <1>1, NoneAssumption DEF Decided, Idle, Place
<1>3. TypeOK
  <2>1. Idle \in Frame
    BY DEF Idle, Frame
  <2> QED BY <1>1, <2>1, DurationsAssumption DEF TypeOK
<1>4. KeysAreFresh /\ TokensWellMade /\ FramesInOrder
  BY <1>2 DEF KeysAreFresh, TokensWellMade, FramesInOrder, InOrder
<1>5. OwnersAgree
  BY <1>2 DEF OwnersAgree, Owners
<1>6. /\ TokensWorkUntilTheyExpire /\ NoTokenOutlivesItsLeeway
      /\ AcceptedTokensAreGood /\ ReasonsAreTrue
  BY <1>2 DEF TokensWorkUntilTheyExpire, NoTokenOutlivesItsLeeway,
              AcceptedTokensAreGood, ReasonsAreTrue, Accepted
<1> QED BY <1>3, <1>4, <1>5, <1>6 DEF Inv


---------------------------------------------------------------------------
(* Steps. *)

\* A token stays well made while time goes on and resources are deleted.
LEMMA TokensStay ==
  ASSUME TypeOK, TypeOK', now <= now',
         \A r \in ResourceId : deletions[r] <= deletions'[r]
  PROVE  \A t \in Token : WellMade(t) => WellMade(t)'
<1> SUFFICES ASSUME NEW t \in Token, WellMade(t) PROVE WellMade(t)'
  OBVIOUS
<1>1. t.iss \in ResourceId /\ t.seen \in Nat /\ t.signed \in Int
  BY DEF WellMade, Token
<1>2. deletions[t.iss] \in Nat /\ deletions'[t.iss] \in Nat /\ now \in Int /\ now' \in Int
  BY <1>1 DEF TypeOK
<1>3. t.seen <= deletions'[t.iss] /\ t.signed <= now'
  BY <1>1, <1>2 DEF WellMade
<1> QED BY <1>3 DEF WellMade

\* A frame that a step leaves alone stays in order.
LEMMA OthersInOrder ==
  ASSUME TypeOK, TypeOK', TokensWellMade',
         now' = now, \A r \in ResourceId : deletions[r] <= deletions'[r],
         \A r \in ResourceId : signing_keys'[r] = None =>
           signing_keys[r] = None \/ deletions[r] < deletions'[r],
         tokens \subseteq tokens',
         NEW v \in Worker, InOrder(v), frames'[v] = frames[v]
  PROVE  InOrder(v)'
<1>1. \A t \in Token : WellMade(t) => WellMade(t)'
  BY TokensStay DEF TypeOK
<1>2. \A t \in tokens' : t.signer # None
  <2>1. (\A t \in tokens : t.signer # None)'
    BY TokensAreSigned, PTL
  <2> QED BY <2>1
<1> SUFFICES ASSUME frames[v].at # None PROVE InOrder(v)'
  BY DEF InOrder
<1>3. /\ frames[v].rid \in ResourceId /\ frames[v].since \in Nat /\ frames[v].seen \in Nat
      /\ deletions[frames[v].rid] \in Nat /\ deletions'[frames[v].rid] \in Nat
      /\ deletions[frames[v].rid] <= deletions'[frames[v].rid]
  BY DEF InOrder, TypeOK, Frame
<1>4. frames[v].since <= deletions'[frames[v].rid]
  BY <1>3 DEF InOrder
<1>5. frames[v].at \in {"decode", "answer"} => frames[v].seen <= deletions'[frames[v].rid]
  BY <1>3 DEF InOrder
<1>6. frames[v].at = "get_signing_key" /\ signing_keys'[frames[v].rid] = None =>
        frames[v].since < deletions'[frames[v].rid]
  BY <1>3 DEF InOrder
<1> QED BY <1>1, <1>2, <1>4, <1>5, <1>6 DEF InOrder, IsForeign

\* So a step of a worker's request, other than its decision, keeps the invariant
\* when it leaves that worker in order.
LEMMA StepOfOne ==
  ASSUME Inv, NEW w \in Worker, TypeOK', KeysAreFresh', TokensWellMade', OwnersAgree',
         UNCHANGED << now, resources, deletions >>, tokens \subseteq tokens',
         \A r \in ResourceId : signing_keys'[r] = None => signing_keys[r] = None,
         \A v \in Worker \ {w} : frames'[v] = frames[v],
         InOrder(w)', ~Decided(w)'
  PROVE  Inv'
<1>1. ASSUME NEW v \in Worker PROVE InOrder(v)'
  <2>1. \A r \in ResourceId : deletions[r] <= deletions'[r]
    BY DEF Inv, TypeOK
  <2> QED BY <2>1, OthersInOrder DEF Inv, FramesInOrder
<1>2. \A v \in Worker : Decided(v)' => frames'[v] = frames[v]
  OBVIOUS
<1>3. /\ TokensWorkUntilTheyExpire' /\ NoTokenOutlivesItsLeeway'
      /\ AcceptedTokensAreGood' /\ ReasonsAreTrue'
  BY <1>2, VerdictsKept DEF Inv, TypeOK
<1> QED BY <1>1, <1>3 DEF Inv, FramesInOrder

\* Time passes.
LEMMA TickInv == Inv /\ Tick => Inv'
<1> SUFFICES ASSUME Inv, Tick PROVE Inv'
  OBVIOUS
<1> USE DEF Tick, Rows
<1>1. TypeOK'
  BY DEF Inv, TypeOK
<1>2. KeysAreFresh'
  BY DEF Inv, KeysAreFresh, NewKid
<1>3. \A t \in Token : WellMade(t) => WellMade(t)'
  BY DEF Inv, TypeOK, Token, WellMade
<1>4. TokensWellMade'
  <2> SUFFICES ASSUME NEW t \in tokens
               PROVE  WellMade(t)' /\ t.sent <= t.signed + Delay /\ t.sent <= now'
    BY DEF TokensWellMade
  <2>1. t \in Token /\ WellMade(t) /\ t.sent <= t.signed + Delay /\ t.sent <= now
    BY DEF Inv, TypeOK, TokensWellMade
  <2> QED BY <1>3, <2>1 DEF Inv, TypeOK, Token
<1>5. FramesInOrder'
  <2> SUFFICES ASSUME NEW w \in Worker, frames[w].at # None PROVE InOrder(w)'
    BY DEF FramesInOrder, InOrder
  <2>1. InOrder(w) /\ frames[w] \in Frame /\ now < frames[w].began + Delay
    BY DEF Inv, TypeOK, FramesInOrder
  <2>2. frames[w].began <= now' /\ now' <= frames[w].began + Delay
    BY <2>1, DurationsAssumption DEF Inv, TypeOK, Frame, InOrder
  <2> QED BY <1>3, <2>1, <2>2 DEF InOrder
<1>6. OwnersAgree'
  BY OwnersKept DEF Inv, Owners
<1>7. /\ TokensWorkUntilTheyExpire' /\ NoTokenOutlivesItsLeeway'
      /\ AcceptedTokensAreGood' /\ ReasonsAreTrue'
  BY <1>1, <1>4, VerdictsKept DEF Inv, TypeOK
<1> QED BY <1>1, <1>2, <1>4, <1>5, <1>6, <1>7 DEF Inv

\* A step on the resource rows keeps what the frames and the tokens rest on.
LEMMA RowsStep ==
  ASSUME Inv, TypeOK', KeysAreFresh', OwnersAgree', UNCHANGED << now, frames, tokens >>,
         \A r \in ResourceId : deletions[r] <= deletions'[r],
         \A r \in ResourceId : signing_keys'[r] = None =>
           signing_keys[r] = None \/ deletions[r] < deletions'[r]
  PROVE  Inv'
<1>1. TokensWellMade'
  <2> SUFFICES ASSUME NEW t \in tokens
               PROVE  WellMade(t)' /\ t.sent <= t.signed + Delay /\ t.sent <= now
    BY DEF TokensWellMade
  <2>1. t \in Token /\ WellMade(t) /\ t.sent <= t.signed + Delay /\ t.sent <= now
    BY DEF Inv, TypeOK, TokensWellMade
  <2> QED BY <2>1, TokensStay DEF Inv, TypeOK
<1>2. ASSUME NEW v \in Worker PROVE InOrder(v)'
  BY <1>1, OthersInOrder DEF Inv, FramesInOrder
<1>3. /\ TokensWorkUntilTheyExpire' /\ NoTokenOutlivesItsLeeway'
      /\ AcceptedTokensAreGood' /\ ReasonsAreTrue'
  BY <1>1, VerdictsKept DEF Inv, TypeOK
<1> QED BY <1>1, <1>2, <1>3 DEF Inv, FramesInOrder

LEMMA CreateResourceInv ==
  ASSUME Inv, NEW r \in ResourceId, NEW t \in TenantId, CreateResource(r, t)
  PROVE  Inv'
<1> USE DEF CreateResource
<1>1. TypeOK'
  BY DEF Inv, TypeOK
<1>2. KeysAreFresh'
  BY DEF Inv, KeysAreFresh, NewKid
<1>3. OwnersAgree'
  \* Nobody has read a row of this incarnation: it has just begun.
  <2>1. \A c \in Owners : c[1] \in ResourceId /\ c[3] \in TenantId
    BY DEF Inv, Owners, FramesInOrder, InOrder, TokensWellMade, WellMade
  <2>2. \A c \in Owners : c[2] = deletions[c[1]] => c[1] # r
    BY <2>1, NoneAssumption DEF Inv, OwnersAgree
  <2>3. Owners' = Owners
    BY DEF Owners
  <2> QED BY <2>1, <2>2, <2>3 DEF Inv, TypeOK, OwnersAgree
<1> QED BY <1>1, <1>2, <1>3, RowsStep DEF Inv, TypeOK

LEMMA DeleteResourceInv ==
  ASSUME Inv, NEW r \in ResourceId, DeleteResource(r)
  PROVE  Inv'
<1> USE DEF DeleteResource
<1>1. TypeOK'
  BY DEF Inv, TypeOK
<1>2. KeysAreFresh'
  BY DEF Inv, TypeOK, KeysAreFresh, NewKid
<1>3. \A q \in ResourceId : deletions[q] <= deletions'[q]
  BY DEF Inv, TypeOK
<1>4. OwnersAgree'
  \* Whoever has read a row of this incarnation has read one of the past now.
  <2>1. \A c \in Owners : c[1] \in ResourceId /\ c[2] \in Nat /\ c[2] <= deletions[c[1]]
    <3>1. ASSUME NEW w \in Worker, frames[w].at # None
          PROVE  /\ frames[w].rid \in ResourceId /\ frames[w].since \in Nat
                 /\ frames[w].since <= deletions[frames[w].rid]
      BY <3>1 DEF Inv, TypeOK, Frame, FramesInOrder, InOrder
    <3>2. ASSUME NEW t \in tokens
          PROVE  t.iss \in ResourceId /\ t.since \in Nat /\ t.since <= deletions[t.iss]
      <4>1. t \in Token /\ t.iss \in ResourceId /\ t.since <= t.seen /\ t.seen <= deletions[t.iss]
        BY DEF Inv, TypeOK, TokensWellMade, WellMade
      <4>2. t.since \in Nat /\ t.seen \in Nat /\ deletions[t.iss] \in Nat
        BY <4>1 DEF Inv, TypeOK, Token
      <4> QED BY <4>1, <4>2
    <3> QED BY <3>1, <3>2 DEF Owners
  <2>2. \A c \in Owners : c[2] = deletions'[c[1]] => c[1] # r
    BY <2>1 DEF Inv, TypeOK
  <2>3. Owners' = Owners
    BY DEF Owners
  <2> QED BY <2>1, <2>2, <2>3 DEF Inv, TypeOK, OwnersAgree
<1>5. \A q \in ResourceId : signing_keys'[q] = None =>
        signing_keys[q] = None \/ deletions[q] < deletions'[q]
  BY DEF Inv, TypeOK
<1> QED BY <1>1, <1>2, <1>3, <1>4, <1>5, RowsStep

\* The frame of a request that begins has read the row as it is.
LEMMA BeginInv ==
  ASSUME Inv, NEW w \in Worker, NEW r \in ResourceId, NEW t \in Token \cup {None},
         NEW at \in {"issue", "ensure_keypair"},
         at = "ensure_keypair" => t \in Presentable,
         Begin(w, r, at, t)
  PROVE  Inv'
<1> USE DEF Begin, Rows
<1>0. resources[r] \in TenantId /\ deletions[r] \in Nat /\ now \in Int
  BY DEF Inv, TypeOK
<1>1. frames'[w] = [ at |-> at, rid |-> r, owner |-> resources[r], token |-> t, key |-> None,
                     began |-> now, since |-> deletions[r], seen |-> 0, reason |-> None ]
  BY DEF Inv, TypeOK
<1>2. frames'[w] \in Frame
  BY <1>0, <1>1 DEF Frame, Place
<1>3. TypeOK'
  BY <1>2 DEF Inv, TypeOK
<1>4. KeysAreFresh'
  BY DEF Inv, KeysAreFresh, NewKid
<1>5. \A u \in Token : WellMade(u) => WellMade(u)'
  BY <1>3, TokensStay DEF Inv, TypeOK
<1>6. TokensWellMade'
  BY <1>5 DEF Inv, TypeOK, TokensWellMade
<1>7. OwnersAgree'
  <2>1. Owners' \subseteq Owners \cup {<< r, deletions[r], resources[r] >>}
    BY <1>1 DEF Owners, Inv, TypeOK
  <2>2. \A c \in Owners : c[1] = r /\ c[2] = deletions[r] => c[3] = resources[r]
    BY DEF Inv, OwnersAgree
  <2> QED BY <2>1, <2>2 DEF Inv, OwnersAgree
<1>8. InOrder(w)'
  <2>1. at = "ensure_keypair" => t \in Token /\ (t \in tokens \/ IsForeign(t))
    BY NoneAssumption DEF Presentable, Foreign, IsForeign, Inv, TypeOK, Token, Algorithm
  <2>2. t \in tokens /\ t.iss = r => t.seen <= deletions[r]
    BY DEF Inv, TokensWellMade, WellMade
  <2>3. now <= now + Delay
    BY <1>0, DurationsAssumption
  <2> QED BY <1>0, <1>1, <2>1, <2>2, <2>3 DEF InOrder, IsForeign
<1>9. ~Decided(w)'
  BY <1>1 DEF Decided
<1> QED BY <1>3, <1>4, <1>6, <1>7, <1>8, <1>9, StepOfOne DEF Inv, TypeOK

\* No owner is added by frames that read no row, and tokens of what they read.
LEMMA OwnersShrink ==
  ASSUME \A v \in Worker : frames'[v].at # None =>
           /\ frames[v].at # None /\ frames'[v].rid = frames[v].rid
           /\ frames'[v].since = frames[v].since /\ frames'[v].owner = frames[v].owner,
         \A t \in tokens' : << t.iss, t.since, t.tid >> \in Owners
  PROVE  Owners' \subseteq Owners
BY DEF Owners

\* ensure_keypair stores a keypair of the present incarnation, or finds one.
LEMMA EnsuredKeyIsFresh ==
  ASSUME Inv, NEW r \in ResourceId, EnsureKeypair(r), deletions' = deletions
  PROVE  /\ EnsuredKey(r) = NewKid(r) /\ EnsuredKey(r) \in Kid
         /\ signing_keys' \in [ResourceId -> Kid \cup {None}]
         /\ signing_keys'[r] # None
         /\ \A q \in ResourceId : signing_keys'[q] = None => signing_keys[q] = None
         /\ KeysAreFresh'
<1>1. NewKid(r) \in Kid
  BY DEF NewKid, Kid, Inv, TypeOK
<1>2. EnsuredKey(r) = NewKid(r)
  BY DEF Inv, KeysAreFresh, EnsuredKey
<1> QED BY <1>1, <1>2, NoneAssumption DEF EnsureKeypair, Inv, TypeOK, KeysAreFresh, NewKid

\* What issue_aad_token signs is well made, whatever the clock said.
LEMMA IssuedIsWellMade ==
  ASSUME Inv, NEW f, f.rid \in ResourceId, f.owner \in TenantId, f.since \in Nat,
         f.since <= deletions[f.rid], NEW clock \in WallClock
  PROVE  /\ Issued(f, NewKid(f.rid), clock) \in Token
         /\ WellMade(Issued(f, NewKid(f.rid), clock))
<1>1. /\ now \in Int /\ deletions[f.rid] \in Nat
      /\ NewKid(f.rid) = << f.rid, deletions[f.rid] >> /\ NewKid(f.rid) \in Kid
  BY DEF Inv, TypeOK, NewKid, Kid
<1>2. /\ clock \in Int /\ now - ClockError <= clock /\ clock <= now + ClockError
      /\ Truncated(clock) \in Int /\ Truncated(clock) <= clock
      /\ clock - PerSecond < Truncated(clock)
  BY <1>1, WallClockBounds, TruncatedBounds
<1>3. Issued(f, NewKid(f.rid), clock) \in Token
  BY <1>1, <1>2, DurationsAssumption DEF Issued, Token, Algorithm
<1>4. /\ Truncated(clock) - Backdate <= Truncated(clock)
      /\ Truncated(clock) <= now + ClockError
      /\ Truncated(clock) + Ttl <= now + ClockError + Ttl
      /\ now - ClockError - PerSecond + Ttl < Truncated(clock) + Ttl
  BY <1>1, <1>2, DurationsAssumption
<1> QED BY <1>1, <1>3, <1>4 DEF Issued, WellMade

LEMMA SignTokenInv == ASSUME Inv, NEW w \in Worker, SignToken(w) PROVE Inv'
<1> DEFINE f == frames[w]
<1>1. /\ f \in Frame /\ f.at = "issue" /\ f.rid \in ResourceId /\ f.owner \in TenantId
      /\ f.since \in Nat /\ f.since <= deletions[f.rid]
      /\ f.began <= now /\ now <= f.began + Delay
  BY NoneAssumption DEF Inv, TypeOK, Frame, FramesInOrder, InOrder, SignToken, Place
<1>2. UNCHANGED << now, resources, deletions, tokens >> /\ EnsureKeypair(f.rid)
  BY DEF SignToken
<1>3. /\ EnsuredKey(f.rid) = NewKid(f.rid)
      /\ signing_keys' \in [ResourceId -> Kid \cup {None}] /\ KeysAreFresh'
      /\ \A q \in ResourceId : signing_keys'[q] = None => signing_keys[q] = None
  BY <1>1, <1>2, EnsuredKeyIsFresh
<1>4. PICK clock \in WallClock :
        frames' = [frames EXCEPT ![w].at = "send",
                                 ![w].token = Issued(f, NewKid(f.rid), clock)]
  BY <1>3 DEF SignToken
<1> DEFINE t == Issued(f, NewKid(f.rid), clock)
<1>5. /\ t \in Token /\ WellMade(t) /\ t.iss = f.rid /\ t.tid = f.owner
      /\ t.since = f.since /\ t.signed = now
  BY <1>1, IssuedIsWellMade DEF Issued
<1>6. /\ frames'[w] = [f EXCEPT !.at = "send", !.token = t]
      /\ \A v \in Worker \ {w} : frames'[v] = frames[v]
      /\ frames' \in [Worker -> Frame]
  <2>1. [f EXCEPT !.at = "send", !.token = t] \in Frame
    BY <1>1, <1>5 DEF Frame, Place
  <2> QED BY <1>4, <2>1 DEF Inv, TypeOK
<1>7. TypeOK'
  BY <1>2, <1>3, <1>6 DEF Inv, TypeOK
<1>8. \A u \in Token : WellMade(u) => WellMade(u)'
  BY <1>2, <1>7, TokensStay DEF Inv, TypeOK
<1>9. TokensWellMade'
  BY <1>2, <1>8 DEF Inv, TypeOK, TokensWellMade
<1>10. OwnersAgree'
  <2>1. /\ frames'[w].rid = f.rid /\ frames'[w].since = f.since /\ frames'[w].owner = f.owner
        /\ f.at # None
    BY <1>1, <1>6, NoneAssumption DEF Frame, Place
  <2>2. \A u \in tokens : << u.iss, u.since, u.tid >> \in Owners
    BY DEF Owners
  <2> QED BY <1>2, <1>6, <2>1, <2>2, OwnersShrink, OwnersKept DEF Inv
<1>11. InOrder(w)'
  BY <1>1, <1>2, <1>5, <1>6, <1>8 DEF InOrder, Frame
<1>12. ~Decided(w)'
  BY <1>1, <1>6 DEF Decided, Frame
<1> QED BY <1>2, <1>3, <1>6, <1>7, <1>9, <1>10, <1>11, <1>12, StepOfOne

LEMMA SendTokenInv == ASSUME Inv, NEW w \in Worker, SendToken(w) PROVE Inv'
<1> DEFINE f == frames[w]
           t == [f.token EXCEPT !.sent = now]
<1>1. /\ f \in Frame /\ f.at = "send" /\ f.rid \in ResourceId /\ f.owner \in TenantId
      /\ f.began <= now /\ now <= f.began + Delay
      /\ f.token \in Token /\ WellMade(f.token) /\ f.began <= f.token.signed
      /\ f.token.iss = f.rid /\ f.token.tid = f.owner /\ f.token.since = f.since
  BY NoneAssumption DEF Inv, TypeOK, FramesInOrder, InOrder, SendToken, Place
<1>2. UNCHANGED << now, resources, signing_keys, deletions >> /\ tokens' = tokens \cup {t}
  BY DEF SendToken, Rows
<1>3. /\ frames'[w] = Idle /\ \A v \in Worker \ {w} : frames'[v] = frames[v]
      /\ frames' \in [Worker -> Frame]
  <2>1. Idle \in Frame
    BY DEF Idle, Frame
  <2> QED BY <2>1 DEF SendToken, Inv, TypeOK
<1>4. /\ t \in Token /\ t.sent = now /\ t.signed = f.token.signed
      /\ t.iss = f.rid /\ t.tid = f.owner /\ t.since = f.since
  BY <1>1 DEF Token, Inv, TypeOK
<1>5. WellMade(t)
  BY <1>1 DEF Token, WellMade
<1>6. t.sent <= t.signed + Delay
  BY <1>1, <1>4, DurationsAssumption DEF Inv, TypeOK, Frame, Token
<1> HIDE DEF f, t
<1>7. TypeOK'
  BY <1>2, <1>3, <1>4 DEF Inv, TypeOK
<1>8. \A u \in Token : WellMade(u) => WellMade(u)'
  BY <1>2, <1>7, TokensStay DEF Inv, TypeOK
<1>9. TokensWellMade'
  <2>1. \A u \in tokens' : WellMade(u) /\ u.sent <= u.signed + Delay /\ u.sent <= now'
    BY <1>2, <1>4, <1>5, <1>6 DEF Inv, TypeOK, TokensWellMade
  <2>2. \A u \in tokens' : WellMade(u)'
    BY <1>2, <1>4, <1>8, <2>1 DEF Inv, TypeOK
  <2> QED BY <2>1, <2>2 DEF TokensWellMade
<1>10. KeysAreFresh'
  BY <1>2 DEF Inv, KeysAreFresh, NewKid
<1>11. OwnersAgree'
  <2>1. << f.rid, f.since, f.owner >> \in Owners
    BY <1>1, NoneAssumption DEF f, Owners, Place
  <2>2. \A u \in tokens' : << u.iss, u.since, u.tid >> \in Owners
    BY <1>2, <1>4, <2>1 DEF Owners
  <2> QED BY <1>2, <1>3, <2>2, OwnersShrink, OwnersKept DEF Inv, Idle
<1>12. InOrder(w)' /\ ~Decided(w)'
  BY <1>3, NoneAssumption DEF InOrder, Decided, Idle, Place
<1> QED BY <1>2, <1>3, <1>7, <1>9, <1>10, <1>11, <1>12, StepOfOne

LEMMA EndInv == ASSUME Inv, NEW w \in Worker, End(w) PROVE Inv'
<1>1. UNCHANGED << now, resources, signing_keys, deletions, tokens >>
  BY DEF End, Rows
<1>2. /\ frames'[w] = Idle /\ \A v \in Worker \ {w} : frames'[v] = frames[v]
      /\ frames' \in [Worker -> Frame]
  <2>1. Idle \in Frame
    BY DEF Idle, Frame
  <2> QED BY <2>1 DEF End, Inv, TypeOK
<1>3. TypeOK'
  BY <1>1, <1>2 DEF Inv, TypeOK
<1>4. TokensWellMade' /\ KeysAreFresh'
  <2>1. \A u \in Token : WellMade(u) => WellMade(u)'
    BY <1>1, <1>3, TokensStay DEF Inv, TypeOK
  <2> QED BY <1>1, <2>1 DEF Inv, TypeOK, TokensWellMade, KeysAreFresh, NewKid
<1>5. OwnersAgree'
  <2>1. \A u \in tokens : << u.iss, u.since, u.tid >> \in Owners
    BY DEF Owners
  <2> QED BY <1>1, <1>2, <2>1, OwnersShrink, OwnersKept DEF Inv, Idle
<1>6. InOrder(w)' /\ ~Decided(w)'
  BY <1>2, NoneAssumption DEF InOrder, Decided, Idle, Place
<1> QED BY <1>1, <1>2, <1>3, <1>4, <1>5, <1>6, StepOfOne

LEMMA EnsureKeyInv == ASSUME Inv, NEW w \in Worker, EnsureKey(w) PROVE Inv'
<1> DEFINE f == frames[w]
<1>1. /\ f \in Frame /\ f.at = "ensure_keypair" /\ f.rid \in ResourceId
      /\ InOrder(w)
  BY NoneAssumption DEF Inv, TypeOK, FramesInOrder, InOrder, EnsureKey, Place
<1>2. UNCHANGED << now, resources, deletions, tokens >> /\ EnsureKeypair(f.rid)
  BY DEF EnsureKey
<1>3. /\ signing_keys' \in [ResourceId -> Kid \cup {None}] /\ KeysAreFresh'
      /\ \A q \in ResourceId : signing_keys'[q] = None => signing_keys[q] = None
      /\ signing_keys'[f.rid] # None
  BY <1>1, <1>2, EnsuredKeyIsFresh
<1>4. /\ frames'[w] = [f EXCEPT !.at = "get_signing_key"]
      /\ \A v \in Worker \ {w} : frames'[v] = frames[v]
      /\ frames' \in [Worker -> Frame]
  <2>1. [f EXCEPT !.at = "get_signing_key"] \in Frame
    BY <1>1 DEF Frame, Place
  <2> QED BY <2>1 DEF EnsureKey, Inv, TypeOK
<1>5. TypeOK'
  BY <1>2, <1>3, <1>4 DEF Inv, TypeOK
<1>6. TokensWellMade'
  <2>1. \A u \in Token : WellMade(u) => WellMade(u)'
    BY <1>2, <1>5, TokensStay DEF Inv, TypeOK
  <2> QED BY <1>2, <2>1 DEF Inv, TypeOK, TokensWellMade
<1>7. OwnersAgree'
  <2>1. /\ frames'[w].rid = f.rid /\ frames'[w].since = f.since /\ frames'[w].owner = f.owner
        /\ f.at # None
    BY <1>1, <1>4, NoneAssumption DEF Frame, Place
  <2>2. \A u \in tokens : << u.iss, u.since, u.tid >> \in Owners
    BY DEF Owners
  <2> QED BY <1>2, <1>4, <2>1, <2>2, OwnersShrink, OwnersKept DEF Inv
<1>8. InOrder(w)' /\ ~Decided(w)'
  <2>1. /\ frames'[w].at = "get_signing_key" /\ frames'[w].rid = f.rid
        /\ frames'[w].owner = f.owner /\ frames'[w].since = f.since
        /\ frames'[w].began = f.began /\ frames'[w].token = f.token
        /\ signing_keys'[frames'[w].rid] # None
    BY <1>1, <1>3, <1>4 DEF Frame
  <2> HIDE DEF f
  <2>2. InOrder(w)'
    BY <1>1, <1>2, <2>1, NoneAssumption DEF f, InOrder, Place, IsForeign
  <2> QED BY <2>1, <2>2 DEF Decided
<1> QED BY <1>2, <1>3, <1>4, <1>5, <1>6, <1>7, <1>8, StepOfOne

LEMMA ResolveKeyInv == ASSUME Inv, NEW w \in Worker, ResolveKey(w) PROVE Inv'
<1> DEFINE f == frames[w]
           g == [f EXCEPT !.at = "decode", !.key = signing_keys[f.rid],
                          !.seen = deletions[f.rid]]
<1>1. /\ f \in Frame /\ f.at = "get_signing_key" /\ f.rid \in ResourceId
      /\ InOrder(w)
  BY NoneAssumption DEF Inv, TypeOK, FramesInOrder, InOrder, ResolveKey, Place
<1>2. UNCHANGED << now, resources, signing_keys, deletions, tokens >>
  BY DEF ResolveKey, Rows
<1>3. /\ deletions[f.rid] \in Nat /\ f.since <= deletions[f.rid]
      /\ signing_keys[f.rid] \in Kid \cup {None}
      /\ signing_keys[f.rid] \in {None, << f.rid, deletions[f.rid] >>}
  BY <1>1, NoneAssumption DEF Inv, TypeOK, KeysAreFresh, NewKid, InOrder, Place
<1>4. /\ g \in Frame /\ g.at = "decode" /\ g.rid = f.rid /\ g.owner = f.owner
      /\ g.since = f.since /\ g.began = f.began /\ g.token = f.token
      /\ g.seen = deletions[f.rid] /\ g.key = signing_keys[f.rid]
  BY <1>1, <1>3 DEF Frame, Place
<1>5. /\ frames'[w] = g /\ \A v \in Worker \ {w} : frames'[v] = frames[v]
      /\ frames' \in [Worker -> Frame]
  BY <1>4 DEF ResolveKey, Inv, TypeOK
<1> HIDE DEF g
<1>6. TypeOK'
  BY <1>2, <1>5 DEF Inv, TypeOK
<1>7. TokensWellMade' /\ KeysAreFresh'
  <2>1. \A u \in Token : WellMade(u) => WellMade(u)'
    BY <1>2, <1>6, TokensStay DEF Inv, TypeOK
  <2> QED BY <1>2, <2>1 DEF Inv, TypeOK, TokensWellMade, KeysAreFresh, NewKid
<1>8. OwnersAgree'
  <2>1. f.at # None
    BY <1>1, NoneAssumption DEF Place
  <2>2. \A u \in tokens : << u.iss, u.since, u.tid >> \in Owners
    BY DEF Owners
  <2> QED BY <1>2, <1>4, <1>5, <2>1, <2>2, OwnersShrink, OwnersKept DEF Inv
<1>9. InOrder(w)' /\ ~Decided(w)'
  BY <1>1, <1>2, <1>3, <1>4, <1>5, NoneAssumption DEF InOrder, Decided, Place, IsForeign
<1> QED BY <1>2, <1>5, <1>6, <1>7, <1>8, <1>9, StepOfOne

---------------------------------------------------------------------------
(* The decision. *)

\* A frame about to decide holds a token that the service has signed with the
\* keypair of one incarnation of one resource, or a foreign string.
LEMMA FrameThatDecides ==
  ASSUME Inv, NEW w \in Worker, frames[w].at = "decode"
  PROVE  LET f == frames[w]
             t == frames[w].token
         IN  /\ f \in Frame /\ t \in Token /\ f.rid \in ResourceId
             /\ f.since \in Nat /\ f.seen \in Nat /\ f.began \in Int
             /\ f.since <= f.seen /\ (f.key = None => f.since < f.seen)
             /\ f.key \in {None, << f.rid, f.seen >>}
             /\ f.began <= now /\ now <= f.began + Delay
             /\ t \in tokens \/ t.signer = None
             /\ t \in tokens => /\ WellMade(t) /\ t.kid # None
                                /\ t.sent <= t.signed + Delay
                                /\ (t.iss = f.rid => t.seen <= f.since)
                                /\ (f.key = t.kid => t.iss = f.rid /\ t.seen = f.seen)
<1> DEFINE f == frames[w]
           t == f.token
<1>1. f \in Frame /\ f.at # None /\ InOrder(w)
  BY NoneAssumption DEF Inv, TypeOK, FramesInOrder, Place
<1>2. /\ t \in Token /\ f.rid \in ResourceId
      /\ f.since \in Nat /\ f.seen \in Nat /\ f.began \in Int
      /\ f.since <= f.seen /\ (f.key = None => f.since < f.seen)
      /\ f.key \in {None, << f.rid, f.seen >>}
      /\ f.began <= now /\ now <= f.began + Delay
      /\ t \in tokens \/ t.signer = None
      /\ t \in tokens /\ t.iss = f.rid => t.seen <= f.since
  BY <1>1 DEF Frame, InOrder, IsForeign
<1>3. ASSUME t \in tokens
      PROVE  /\ WellMade(t) /\ t.kid # None /\ t.sent <= t.signed + Delay
             /\ f.key = t.kid => t.iss = f.rid /\ t.seen = f.seen
  <2>1. WellMade(t) /\ t.sent <= t.signed + Delay
    BY <1>3 DEF Inv, TokensWellMade
  <2>2. t.kid = << t.iss, t.seen >> /\ t.iss \in ResourceId /\ t.seen \in Nat
    BY <1>2, <2>1 DEF WellMade, Token
  <2>3. t.kid \in Kid
    BY <2>2 DEF Kid
  <2>4. t.kid # None
    BY <2>3, NoneAssumption
  <2>5. ASSUME f.key = t.kid PROVE t.iss = f.rid /\ t.seen = f.seen
    <3>1. << f.rid, f.seen >> = << t.iss, t.seen >>
      BY <1>2, <2>2, <2>4, <2>5
    <3> HIDE DEF f, t
    <3> QED BY <3>1
  <2> QED BY <1>2, <2>1, <2>2, <2>4, <2>5
<1>4. t \in tokens => /\ WellMade(t) /\ t.kid # None
                      /\ t.sent <= t.signed + Delay
                      /\ (t.iss = f.rid => t.seen <= f.since)
                      /\ (f.key = t.kid => t.iss = f.rid /\ t.seen = f.seen)
  BY <1>2, <1>3
<1> QED BY <1>1, <1>2, <1>4

\* A reading of the clock, and the lifetime it allows a token of the service.
LEMMA TokenAgainstClock ==
  ASSUME TypeOK, NEW t \in Token, WellMade(t), NEW clock \in WallClock
  PROVE  /\ ~Immature(t, clock)
         /\ Expired(t, clock) => now >= t.signed + Ttl
         /\ \A began \in Int : began <= now /\ ~Expired(t, clock) =>
              began < t.signed + Ttl + Leeway + 2 * ClockError
         /\ \A began \in Int :
              now <= began + Delay /\ t.sent \in Int /\ t.sent <= t.signed + Delay
                /\ began < t.sent + Ttl => ~Expired(t, clock)
<1>1. /\ clock \in Int /\ now \in Int
      /\ now - ClockError <= clock /\ clock <= now + ClockError
  BY WallClockBounds DEF TypeOK
<1>2. /\ t.exp \in Int /\ t.nbf \in Int /\ t.iat \in Int /\ t.signed \in Int
      /\ t.nbf <= t.iat /\ t.iat <= t.signed + ClockError /\ t.signed <= now
      /\ t.exp <= t.signed + ClockError + Ttl
      /\ t.signed - ClockError - PerSecond + Ttl < t.exp
  BY DEF Token, WellMade
<1>3. /\ Ttl \in Nat /\ Leeway \in Nat /\ ClockError \in Nat /\ Delay \in Nat
      /\ PerSecond \in Nat /\ PerSecond >= 1 /\ 2 * ClockError + 2 * Delay + PerSecond - 1 <= Leeway
  BY DurationsAssumption, LeewaySuffices
<1>4. ~Immature(t, clock)
  BY <1>1, <1>2, <1>3 DEF Immature
<1>5. Expired(t, clock) => now >= t.signed + Ttl
  BY <1>1, <1>2, <1>3 DEF Expired
<1>6. ASSUME NEW began \in Int, began <= now, ~Expired(t, clock)
      PROVE  began < t.signed + Ttl + Leeway + 2 * ClockError
  BY <1>1, <1>2, <1>3, <1>6 DEF Expired
<1>7. ASSUME NEW began \in Int, now <= began + Delay, t.sent \in Int,
             t.sent <= t.signed + Delay, began < t.sent + Ttl
      PROVE  ~Expired(t, clock)
  BY <1>1, <1>2, <1>3, <1>7 DEF Expired
<1> QED BY <1>4, <1>5, <1>6, <1>7

\* Whatever Verdicts lets a validation answer is right about the token.
LEMMA VerdictsAreRight ==
  ASSUME Inv, NEW w \in Worker, frames[w].at = "decode", NEW clock \in WallClock,
         NEW reason \in Verdicts(frames[w].token, frames[w].rid, frames[w].owner,
                                 frames[w].key, clock)
  PROVE  LET f == frames[w]
             t == frames[w].token
         IN  /\ reason \in Reasons
             /\ t \in tokens /\ f.rid = t.iss /\ f.seen = t.since
                  /\ f.began < t.sent + Ttl => reason = "accepted"
             /\ reason = "accepted" =>
                  /\ f.began < t.signed + Ttl + Leeway + 2 * ClockError
                  /\ t \in tokens /\ t.iss = f.rid /\ t.tid = f.owner /\ f.since <= t.seen
             /\ t \in tokens =>
                  \/ reason = "accepted"
                  \/ reason = "expired" /\ now >= t.signed + Ttl
                  \/ reason = "unknown-kid" /\ (t.iss # f.rid \/ t.seen < f.seen)
                  \/ reason = "tid-mismatch" /\ t.since < t.seen
<1> DEFINE f == frames[w]
           t == frames[w].token
<1>1. /\ f \in Frame /\ t \in Token /\ f.rid \in ResourceId
      /\ f.since \in Nat /\ f.seen \in Nat /\ f.began \in Int
      /\ f.since <= f.seen /\ (f.key = None => f.since < f.seen)
      /\ f.key \in {None, << f.rid, f.seen >>}
      /\ f.began <= now /\ now <= f.began + Delay
      /\ t \in tokens \/ t.signer = None
  BY FrameThatDecides
<1>2. ASSUME t \in tokens
      PROVE  /\ WellMade(t) /\ t.kid # None /\ t.sent <= t.signed + Delay
             /\ (t.iss = f.rid => t.seen <= f.since)
             /\ (f.key = t.kid => t.iss = f.rid /\ t.seen = f.seen)
  BY <1>2, FrameThatDecides
<1>3. ClaimFailures(t, f.rid, clock) \subseteq {"expired", "bad-aud", "bad-iss", "sig-invalid"}
  BY DEF ClaimFailures
<1>4. reason \in Reasons
  BY <1>3 DEF Verdicts, Reasons
<1>5. CASE t \notin tokens
  <2>1. t.signer = None
    BY <1>1, <1>5
  <2>2. reason # "accepted"
    BY <2>1 DEF Verdicts
  <2> QED BY <1>4, <1>5, <2>2
<1>6. CASE t \in tokens
  <2>1. /\ WellMade(t) /\ t.kid # None /\ t.sent <= t.signed + Delay
        /\ (t.iss = f.rid => t.seen <= f.since)
        /\ (f.key = t.kid => t.iss = f.rid /\ t.seen = f.seen)
        /\ t.alg = "RS256" /\ t.alg # None /\ t.signer = t.kid
        /\ t.aud = "cognitiveservices"
        /\ t.kid = << t.iss, t.seen >>
        /\ t.since \in Nat /\ t.seen \in Nat /\ t.since <= t.seen /\ t.sent \in Int
    BY <1>1, <1>2, <1>6, NoneAssumption DEF WellMade, Token, Algorithm
  <2>2. /\ ~Immature(t, clock)
        /\ Expired(t, clock) => now >= t.signed + Ttl
        /\ ~Expired(t, clock) => f.began < t.signed + Ttl + Leeway + 2 * ClockError
        /\ f.began < t.sent + Ttl => ~Expired(t, clock)
    BY <1>1, <2>1, TokenAgainstClock DEF Inv
  <2>3. CASE f.key # t.kid
    <3>1. reason = "unknown-kid"
      BY <2>1, <2>3 DEF Verdicts
    \* The keypair is the token's unless it is of another resource or incarnation.
    <3>2. t.iss # f.rid \/ t.seen < f.seen
      <4> SUFFICES ASSUME t.iss = f.rid PROVE t.seen < f.seen
        OBVIOUS
      <4>1. t.seen <= f.since
        BY <2>1
      <4>2. CASE f.key = None
        BY <1>1, <2>1, <4>1, <4>2
      <4>3. CASE f.key = << f.rid, f.seen >>
        <5>1. t.seen # f.seen
          BY <2>1, <2>3, <4>3
        <5> QED BY <1>1, <2>1, <4>1, <5>1
      <4> QED BY <1>1, <4>2, <4>3
    <3>3. ~(f.rid = t.iss /\ f.seen = t.since)
      BY <1>1, <2>1, <3>2
    <3> QED BY <1>4, <1>6, <3>1, <3>2, <3>3
  <2>4. CASE f.key = t.kid
    <3>1. t.iss = f.rid /\ t.seen = f.seen /\ t.seen = f.since
      BY <1>1, <2>1, <2>4
    <3>2. ClaimFailures(t, f.rid, clock) = IF Expired(t, clock) THEN {"expired"} ELSE {}
      BY <2>1, <2>2, <3>1 DEF ClaimFailures
    <3>3. CASE Expired(t, clock)
      <4>1. reason = "expired"
        BY <2>1, <2>4, <3>2, <3>3 DEF Verdicts
      <4> QED BY <1>4, <1>6, <2>2, <3>3, <4>1
    <3>4. CASE ~Expired(t, clock)
      <4>1. /\ reason \in {"accepted", "tid-mismatch"}
            /\ reason = "accepted" <=> t.tid = f.owner
        BY <2>1, <2>4, <3>2, <3>4 DEF Verdicts
      \* A token whose request saw one incarnation only names its owner.
      <4>2. t.since = t.seen => t.tid = f.owner
        <5>1. << t.iss, t.since, t.tid >> \in Owners
          BY <1>6 DEF Owners
        <5>2. << f.rid, f.since, f.owner >> \in Owners
          BY NoneAssumption DEF Owners, Place
        <5>3. \A c, d \in Owners : c[1] = d[1] /\ c[2] = d[2] => c[3] = d[3]
          BY DEF Inv, OwnersAgree
        <5> HIDE DEF f, t
        <5> QED BY <3>1, <5>1, <5>2, <5>3
      <4>3. reason = "tid-mismatch" => t.since < t.seen
        BY <2>1, <4>1, <4>2
      <4>4. f.seen = t.since => reason = "accepted"
        BY <3>1, <4>1, <4>2
      <4> QED BY <1>1, <1>4, <1>6, <2>2, <3>1, <3>4, <4>1, <4>3, <4>4
    <3> QED BY <3>3, <3>4
  <2> QED BY <2>3, <2>4
<1> QED BY <1>5, <1>6

LEMMA DecideInv == ASSUME Inv, NEW w \in Worker, Decide(w) PROVE Inv'
<1>1. /\ UNCHANGED << now, resources, signing_keys, deletions, tokens >>
      /\ frames[w].at = "decode"
  BY DEF Decide, Rows
<1>2. PICK clock \in WallClock :
        \E reason \in Verdicts(frames[w].token, frames[w].rid, frames[w].owner,
                               frames[w].key, clock) :
          frames' = [frames EXCEPT ![w] = [frames[w] EXCEPT !.at = "answer", !.reason = reason]]
  BY DEF Decide
<1>3. PICK reason \in Verdicts(frames[w].token, frames[w].rid, frames[w].owner,
                               frames[w].key, clock) :
        frames' = [frames EXCEPT ![w] = [frames[w] EXCEPT !.at = "answer", !.reason = reason]]
  BY <1>2
<1> DEFINE f == frames[w]
           g == [frames[w] EXCEPT !.at = "answer", !.reason = reason]
<1>4. /\ f \in Frame /\ f.rid \in ResourceId /\ f.since <= f.seen
      /\ InOrder(w) /\ f.at # None
  BY <1>1, FrameThatDecides, NoneAssumption DEF Inv, FramesInOrder, Place
<1>5. /\ reason \in Reasons
      /\ f.token \in tokens /\ f.rid = f.token.iss /\ f.seen = f.token.since
           /\ f.began < f.token.sent + Ttl => reason = "accepted"
      /\ reason = "accepted" =>
           /\ f.began < f.token.signed + Ttl + Leeway + 2 * ClockError
           /\ f.token \in tokens /\ f.token.iss = f.rid /\ f.token.tid = f.owner
           /\ f.since <= f.token.seen
      /\ f.token \in tokens =>
           \/ reason = "accepted"
           \/ reason = "expired" /\ now >= f.token.signed + Ttl
           \/ reason = "unknown-kid" /\ (f.token.iss # f.rid \/ f.token.seen < f.seen)
           \/ reason = "tid-mismatch" /\ f.token.since < f.token.seen
  BY <1>1, VerdictsAreRight
<1>6. /\ g \in Frame /\ g.at = "answer" /\ g.reason = reason
      /\ g.rid = f.rid /\ g.owner = f.owner /\ g.token = f.token /\ g.key = f.key
      /\ g.began = f.began /\ g.since = f.since /\ g.seen = f.seen
  BY <1>4, <1>5 DEF Frame, Place
<1>7. /\ frames'[w] = g /\ \A v \in Worker \ {w} : frames'[v] = frames[v]
      /\ frames' \in [Worker -> Frame]
  BY <1>3, <1>6 DEF Inv, TypeOK
<1> HIDE DEF g
<1>8. TypeOK'
  BY <1>1, <1>7 DEF Inv, TypeOK
<1>9. TokensWellMade' /\ KeysAreFresh'
  <2>1. \A u \in Token : WellMade(u) => WellMade(u)'
    BY <1>1, <1>8, TokensStay DEF Inv, TypeOK
  <2> QED BY <1>1, <2>1 DEF Inv, TypeOK, TokensWellMade, KeysAreFresh, NewKid
<1>10. OwnersAgree'
  <2>1. \A u \in tokens : << u.iss, u.since, u.tid >> \in Owners
    BY DEF Owners
  <2> QED BY <1>1, <1>4, <1>6, <1>7, <2>1, OwnersShrink, OwnersKept DEF Inv
<1>11. FramesInOrder'
  <2>1. InOrder(w)'
    BY <1>1, <1>4, <1>6, <1>7, NoneAssumption DEF InOrder, Place, IsForeign
  <2>2. ASSUME NEW v \in Worker \ {w} PROVE InOrder(v)'
    <3>1. \A r \in ResourceId : deletions[r] <= deletions'[r]
      BY <1>1 DEF Inv, TypeOK
    <3> QED BY <1>1, <1>7, <1>8, <1>9, <3>1, OthersInOrder DEF Inv, FramesInOrder
  <2> QED BY <2>1, <2>2 DEF FramesInOrder
<1>12. TokensWorkUntilTheyExpire'
  BY <1>1, <1>5, <1>6, <1>7 DEF Inv, TokensWorkUntilTheyExpire, Decided
<1>13. NoTokenOutlivesItsLeeway'
  BY <1>1, <1>5, <1>6, <1>7 DEF Inv, NoTokenOutlivesItsLeeway, Accepted, Decided
<1>14. AcceptedTokensAreGood'
  BY <1>1, <1>5, <1>6, <1>7 DEF Inv, AcceptedTokensAreGood, Accepted, Decided
<1>15. ReasonsAreTrue'
  BY <1>1, <1>5, <1>6, <1>7 DEF Inv, ReasonsAreTrue, Decided
<1> QED BY <1>8, <1>9, <1>10, <1>11, <1>12, <1>13, <1>14, <1>15 DEF Inv

---------------------------------------------------------------------------
LEMMA StutterInv == Inv /\ UNCHANGED vars => Inv'
<1> SUFFICES ASSUME Inv, UNCHANGED vars PROVE Inv'
  OBVIOUS
<1> USE DEF vars
<1>1. TypeOK' /\ KeysAreFresh' /\ OwnersAgree'
  BY OwnersKept DEF Inv, TypeOK, KeysAreFresh, NewKid, Owners
<1>2. \A r \in ResourceId : deletions[r] <= deletions'[r]
  BY DEF Inv, TypeOK
<1> QED BY <1>1, <1>2, RowsStep

LEMMA NextInv == Inv /\ [Next]_vars => Inv'
<1> SUFFICES ASSUME Inv, [Next]_vars PROVE Inv'
  OBVIOUS
<1>1. CASE Tick
  BY <1>1, TickInv
<1>2. ASSUME NEW r \in ResourceId, DeleteResource(r) PROVE Inv'
  BY <1>2, DeleteResourceInv
<1>3. ASSUME NEW r \in ResourceId, NEW t \in TenantId, CreateResource(r, t) PROVE Inv'
  BY <1>3, CreateResourceInv
<1>4. ASSUME NEW w \in Worker, BeginToken(w) PROVE Inv'
  BY <1>4, BeginInv DEF BeginToken
<1>5. ASSUME NEW w \in Worker, BeginInference(w) PROVE Inv'
  <2>1. PICK r \in ResourceId, t \in Presentable : Begin(w, r, "ensure_keypair", t)
    BY <1>5 DEF BeginInference
  <2>2. t \in Token
    BY DEF Presentable, Foreign, Inv, TypeOK, Token
  <2> QED BY <2>1, <2>2, BeginInv
<1>6. ASSUME NEW w \in Worker,
             SignToken(w) \/ SendToken(w) \/ EnsureKey(w) \/ ResolveKey(w) \/ Decide(w) \/ End(w)
      PROVE  Inv'
  BY <1>6, SignTokenInv, SendTokenInv, EnsureKeyInv, ResolveKeyInv, DecideInv, EndInv
<1>7. CASE UNCHANGED vars
  BY <1>7, StutterInv
<1> QED BY <1>1, <1>2, <1>3, <1>4, <1>5, <1>6, <1>7 DEF Next

\* The invariant: keypairs and incarnations go together, what the claims of a token
\* have to do with the time of its signature, and what a frame has read by when.
THEOREM TokenInvariant == Spec => []Inv
<1>1. Init => Inv
  BY InitInv
<1>2. Inv /\ [Next]_vars => Inv'
  BY NextInv
<1> QED BY <1>1, <1>2, PTL DEF Spec

\* Whatever a client presents and whatever the clocks say, each request is at one of
\* its places, has a reason of tokens.py, and no column or claim is of another kind.
THEOREM TokenTypes == Spec => []TypeOK
<1>1. Inv => TypeOK
  BY DEF Inv
<1> QED BY <1>1, TokenInvariant, PTL

\* A token works for the whole time its expires_in advertises, for all durations,
\* clock errors and delays that the leeway covers (LeewaySuffices).
THEOREM TokensWorkAsAdvertised == Spec => []TokensWorkUntilTheyExpire
<1>1. Inv => TokensWorkUntilTheyExpire
  BY DEF Inv
<1> QED BY <1>1, TokenInvariant, PTL

\* Nobody is let in on a token past its lifetime, the leeway and the clocks' errors.
THEOREM TokensEnd == Spec => []NoTokenOutlivesItsLeeway
<1>1. Inv => NoTokenOutlivesItsLeeway
  BY DEF Inv
<1> QED BY <1>1, TokenInvariant, PTL

\* Only tokens of the service are accepted, for their resource and tenant, and by no
\* request that began after the deletion of the resource they were signed for.
THEOREM AcceptedAreGood == Spec => []AcceptedTokensAreGood
<1>1. Inv => AcceptedTokensAreGood
  BY DEF Inv
<1> QED BY <1>1, TokenInvariant, PTL

\* The reason a token of the service is refused with, which goes to the log, is
\* the real one.
THEOREM ReasonsAreReal == Spec => []ReasonsAreTrue
<1>1. Inv => ReasonsAreTrue
  BY DEF Inv
<1> QED BY <1>1, TokenInvariant, PTL
===========================================================================
