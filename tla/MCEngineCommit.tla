--------------------------- MODULE MCEngineCommit ---------------------------
(***************************************************************************)
(* TLC instances of EngineCommit.  Only Poll reads rx, so a frame that     *)
(* arrives while the tick schedules or executes is indistinguishable from  *)
(* one that arrives just before the next Poll: in MCSpec the environment   *)
(* acts between ticks only.                                                *)
(***************************************************************************)
EXTENDS EngineCommit

OneDaemon == <<"authd">>

MCNext ==
  \/ phase = "poll" /\ Environment
  \/ Tick
  \/ Restart

MCSpec == Init /\ [][MCNext]_vars

\* Commits that all succeed, with no fleet to report: a long queue builds up.
QueueNext ==
  \/ phase = "poll" /\ (DeliverServerHello \/ DeliverSettingsCommit("good"))
  \/ Tick

QueueSpec == Init /\ [][QueueNext]_vars

=============================================================================
