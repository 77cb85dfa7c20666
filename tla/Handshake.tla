------------------------------ MODULE Handshake -----------------------------
(***************************************************************************)
(* What a service daemon's bootstrap promises to the rest of the fleet: it *)
(* greets ipcd and serves only afterwards, once it has announced itself    *)
(* or, if it is gated, once engined has started it; a start that comes     *)
(* before the announcement takes its place.  Daemons implements this       *)
(* specification.                                                          *)
(***************************************************************************)
VARIABLES
  phase,     \* how far the process has come
  gated,     \* whether it waits for RuntimeStart
  started    \* whether engined has started it since it greeted ipcd

handshakeVars == <<phase, gated, started>>

Phases == {"off", "greeting", "announced", "serving", "gaveUp"}

HandshakeInit == phase = "off" /\ gated \in BOOLEAN /\ started = FALSE

Greet == phase = "off" /\ phase' = "greeting" /\ UNCHANGED <<gated, started>>

Announce == phase = "greeting" /\ phase' = "announced" /\ UNCHANGED <<gated, started>>

Admit ==
  /\ phase \in {"greeting", "announced"}
  /\ gated
  /\ started' = TRUE
  /\ UNCHANGED <<phase, gated>>

Serve ==
  /\ phase \in {"greeting", "announced"}
  /\ IF gated THEN started ELSE phase = "announced"
  /\ phase' = "serving"
  /\ UNCHANGED <<gated, started>>

\* A daemon that nobody answers may stop trying, before it has announced itself.
GiveUp ==
  /\ phase \in {"off", "greeting"}
  /\ ~gated
  /\ phase' = "gaveUp"
  /\ UNCHANGED <<gated, started>>

\* A new process starts over, whatever the old one had reached.
StartOver == phase' = "off" /\ started' = FALSE /\ UNCHANGED gated

HandshakeNext == Greet \/ Announce \/ Admit \/ Serve \/ GiveUp \/ StartOver

HandshakeSpec == HandshakeInit /\ [][HandshakeNext]_handshakeVars

=============================================================================
