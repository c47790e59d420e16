\* One validator and issuer, deletions and other tenants around it.
SPECIFICATION Spec
CONSTANTS
  ResourceId = {r1, r2}
  TenantId = {t1, t2}
  Worker = {w1}
  None = None
  PerSecond = 2
  Ttl = 2
  Leeway = 5
  Backdate = 1
  ClockError = 1
  Delay = 1
  Horizon = 12
  MaxTokens = 1
  MaxDeletions = 1
SYMMETRY Symmetry
INVARIANTS TypeOK TokensWorkUntilTheyExpire NoTokenOutlivesItsLeeway AcceptedTokensAreGood ReasonsAreTrue
