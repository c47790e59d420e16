----------------------------- MODULE MCAoaiTwin -----------------------------
(* Values and symmetry sets for TLC. *)
EXTENDS AoaiTwin, TLC

AllEndpoints == Endpoint

Credentials ==
  {"create_resource", "delete_resource", "create_api_key", "token", "chat_completions"}
Lifecycle ==
  {"create_resource", "delete_resource", "create_deployment", "jwks", "chat_completions"}
\* completions, embeddings and responses take the steps of chat_completions.
Provisioning == Credentials \ {"delete_resource"}
\* Without the token endpoint, and without the data plane: where a stale request shows.
KeysAndData == Credentials \ {"token"}
Management == {"create_resource", "delete_resource", "create_api_key"}
Racing == Credentials \cup {"create_deployment", "jwks"}

Interchangeable == Permutations(TenantId) \cup Permutations(KeyId) \cup Permutations(Kid)
                     \cup Permutations(Model)
===========================================================================
