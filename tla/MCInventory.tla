---------------------------- MODULE MCInventory ----------------------------
(***************************************************************************)
(* The inventory for TLC, alone or as a part of MCPlatform.                *)
(***************************************************************************)
EXTENDS Inventory

\* One host under three spellings, and a device that is entered as a host.
Spelling(form, port) == [form |-> form, name |-> "h", port |-> port, known |-> FALSE]
Url == Spelling("url", FALSE)
Host == Spelling("bare", FALSE)
HostPort == Spelling("bare", TRUE)
ModelRaws == {Url, Host, HostPort}
ModelScopes == {{[raw |-> Url, device |-> FALSE]},
                {[raw |-> HostPort, device |-> TRUE], [raw |-> Host, device |-> FALSE]}}
ModelHosts == {Host}

=============================================================================
