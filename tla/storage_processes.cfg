\* Two processes that serve one database.
SPECIFICATION FairSpec
CONSTANTS
  ResourceId = {r1}
  TenantId = {t1}
  KeyId = {k1}
  DeploymentId = {d1}
  Model = {m1}
  Kid = {kid1, kid2}
  None = None
  Process = {p1, p2}
  Worker = {w1}
  Calls <- AllCalls
INVARIANTS
  WriterHoldsLock
  StorageInv
PROPERTIES
  KeepsPromise
  LockIsReleased
