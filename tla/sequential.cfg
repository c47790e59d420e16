\* One synchronous worker that may crash between any two storage calls.
SPECIFICATION Spec
CONSTANTS
  ResourceId = {r1}
  TenantId = {t1, t2}
  KeyId = {k1, k2}
  DeploymentId = {d1}
  Model = {m1, m2}
  Kid = {kid1, kid2}
  None = None
  Worker = {w1}
  Op <- AllEndpoints
SYMMETRY Interchangeable
INVARIANTS
  TypeOK
  RowsFollowTheirResource
  KeysNameTheirOwner
  AcknowledgedWritesHold
  VerifiedTokensNameTheOwner
PROPERTIES
  AuthenticatedForOwner
  WritesForOwner
  TenantsActAtomically
