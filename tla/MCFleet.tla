------------------------------ MODULE MCFleet -------------------------------
(***************************************************************************)
(* TLC instances of Fleet: one gated daemon, or a gated and an ungated one *)
(* (apid serves while the rest of the fleet waits for RuntimeStart).       *)
(***************************************************************************)
EXTENDS Fleet

OneDaemon == <<"authd">>
TwoDaemons == <<"authd", "apid">>

=============================================================================
