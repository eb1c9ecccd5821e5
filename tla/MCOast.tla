------------------------------- MODULE MCOast -------------------------------
(***************************************************************************)
(* Out-of-band confirmation for TLC, alone or as a part of MCPlatform.     *)
(***************************************************************************)
EXTENDS Oast

\* A check that plants two payloads at once, and one that plants one.
ModelBatches == {{"x1", "x2"}, {"x3"}}
By(store, url, domain) == [store |-> store, url |-> url, domain |-> domain]

\* Shared store, path form, domain form, both, and neither.
ModelClients == {By(TRUE, TRUE, FALSE), By(FALSE, TRUE, FALSE), By(FALSE, FALSE, TRUE),
                 By(FALSE, TRUE, TRUE), By(FALSE, FALSE, FALSE)}

\* Path form over HTTP only.
OverHttp == {By(FALSE, TRUE, FALSE)}

=============================================================================
