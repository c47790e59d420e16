\* Two threads, deletion of resources included.
SPECIFICATION Spec
CONSTANTS
  ResourceId = {r1}
  TenantId = {t1, t2}
  KeyId = {k1}
  DeploymentId = {d1}
  Model = {m1, m2}
  Kid = {kid1, kid2}
  None = None
  Worker = {w1, w2}
  Op <- Racing
SYMMETRY Interchangeable
INVARIANTS
  TokensVerify
PROPERTIES
  RowsWriteOnce
  SigningKeyGoesWithResource
