--------------------------- MODULE MCConfigStore ----------------------------
(***************************************************************************)
(* TLC instances of ConfigStore: the accounts, which operators edit and    *)
(* the schema script migrates, a domain that only an upgrade ships, and a  *)
(* secret.                                                                 *)
(***************************************************************************)
EXTENDS ConfigStore

MCDomains == {"apid", "user", "password"}
MCSecrets == {"password"}
MCShipped == {"user", "password"}

\* Two domains both edited by operators.
EditDomains == {"console", "probe"}

=============================================================================
