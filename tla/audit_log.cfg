\* Two threads that append, and a client that reads as a tenant or as the administrator.
SPECIFICATION Spec
CONSTANTS
  TenantId = {t0, t1}
  FeedbackId = {f1, f2}
  Worker = {w1, w2}
  None = None
  Bootstrapped = {t0}
  Anonymous = Anonymous
  Client = {c1}
  MaxLimit = 2
  Asked <- Limits
  MaxLogs = 5
SYMMETRY Interchangeable
INVARIANTS
  TypeOK
  ReadersGetTheirRows
  LogIsTrue
  EffectsAreLogged
