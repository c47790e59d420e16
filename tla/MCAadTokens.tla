---------------------------- MODULE MCAadTokens ----------------------------
EXTENDS AadTokens, TLC

\* Tenants, resource ids and workers are told apart by nothing but equality.
Symmetry == Permutations(TenantId) \cup Permutations(ResourceId) \cup Permutations(Worker)
===========================================================================
