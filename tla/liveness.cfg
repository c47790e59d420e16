\* Two threads, each scheduled again once it has begun a request.
SPECIFICATION FairSpec
CONSTANTS
  ResourceId = {r1}
  TenantId = {t1}
  KeyId = {k1}
  DeploymentId = {d1}
  Model = {m1}
  Kid = {kid1, kid2}
  None = None
  Worker = {w1, w2}
  Op <- Lifecycle
PROPERTIES
  EveryRequestEnds
