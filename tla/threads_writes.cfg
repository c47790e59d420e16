\* Two threads, deletion of resources included: refuted.
SPECIFICATION Spec
CONSTANTS
  ResourceId = {r1}
  TenantId = {t1, t2}
  KeyId = {k1}
  DeploymentId = {d1}
  Model = {m1}
  Kid = {kid1, kid2, kid3}
  None = None
  Worker = {w1, w2}
  Op <- Management
PROPERTIES
  NoCrossTenantWrites
