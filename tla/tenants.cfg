\* Two threads, two tenants, two resources, nothing deleted.
SPECIFICATION Spec
CONSTANTS
  ResourceId = {r1, r2}
  TenantId = {t1, t2}
  KeyId = {k1}
  DeploymentId = {d1}
  Model = {m1}
  Kid = {kid1, kid2}
  None = None
  Worker = {w1, w2}
  Op <- Provisioning
SYMMETRY Interchangeable
INVARIANTS
  KeysNameTheirOwner
  AcknowledgedWritesHold
PROPERTIES
  AuthenticatedForOwner
  WritesForOwner
  TenantsActAtomically
