\* Three threads of one process.
SPECIFICATION Spec
CONSTANTS
  ResourceId = {r1, r2}
  TenantId = {t1}
  KeyId = {k1}
  DeploymentId = {d1}
  Model = {m1}
  Kid = {kid1, kid2}
  None = None
  Process = {p1}
  Worker = {w1, w2, w3}
  Calls <- KeypairCalls
SYMMETRY Interchangeable
INVARIANTS
  FirstCallersNeverCollide
  WriterHoldsLock
PROPERTIES
  KeepsPromise
