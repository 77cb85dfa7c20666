------------------------------ MODULE MCFabric ------------------------------
(***************************************************************************)
(* What must happen in the end, one part of the system at a time: a sweep  *)
(* ends, a daemon that boots serves, a frame that was accepted arrives, a  *)
(* site that was asked for is drawn, and the log is indexed.  The parts    *)
(* share no state here, so a behaviour picks one and leaves the others at  *)
(* rest; the safety of the larger ones is checked in MCServices.           *)
(***************************************************************************)
EXTENDS MCProbe, Daemons, IpcStream, MCTopology, LogTail

VARIABLE part

Parts == {"sweep", "daemon", "stream", "exchange", "log"}

fabricVars == <<probeVars, dmVars, streamVars, topologyVars, logVars, part>>

FrameLengths == <<2, 3, 4, 6>>

-----------------------------------------------------------------------------
(* One part of the system *)

\* A part at rest starts in one state; mgmtd is the daemon that need not serve.
FabricInit ==
  /\ part \in Parts
  /\ ProbeInit /\ DmInit /\ StreamInit /\ TopologyInit /\ LogInit
  /\ part # "daemon" => dmSelf = "mgmtd"
  /\ part # "sweep" => prDoc = Before
  /\ tenantRows = <<>>

Rest(varsAtRest) == UNCHANGED <<part, varsAtRest>>

Sweeps(step)    == part = "sweep" /\ step /\ Rest(<<dmVars, streamVars, topologyVars, logVars>>)
Daemon(step)    == part = "daemon" /\ step /\ Rest(<<probeVars, streamVars, topologyVars, logVars>>)
Stream(step)    == part = "stream" /\ step /\ Rest(<<probeVars, dmVars, topologyVars, logVars>>)
Exchange(step)  == part = "exchange" /\ step /\ Rest(<<probeVars, dmVars, streamVars, logVars>>)
Tailing(step)   == part = "log" /\ step /\ Rest(<<probeVars, dmVars, streamVars, topologyVars>>)

\* A daemon is sent a frame of the fleet or loses a ServerHello, not both.
FabricNext ==
  \/ Sweeps(SweepNext)
  \/ Daemon(DmNext /\ dmBudget'.lost + dmBudget'.delivered <= 1)
  \/ Stream(StreamNext)
  \/ Exchange(ExchangeNext)
  \/ Tailing(LogNext)

\* Every process runs its loop for ever, and a pass reads what has arrived.
Loop ==
  \/ Sweeps(PrTick)
  \/ Daemon(DmPoll \/ (\E due \in BOOLEAN : DmSchedule(due)) \/ DmExecute \/ DmTurnEnds)
  \/ Stream(handleSend)
  \/ Exchange(Compose)
  \/ Tailing(flushBatch)

\* The other end of a connection does so too: ipcd answers a ClientHello, mgmtd takes what it
\* is sent; a log file that appears is opened.
OtherEnd ==
  \/ Daemon(AnswerHello)
  \/ Stream(handleRecv)
  \/ Exchange(onTopologyResponse)
  \/ Tailing(FirstSight)

\* The reply timeout of a sweep is compared on every pass, so one that stays passed is seen, and
\* so is the retry interval of a daemon that boots.  A
\* process told to reload is replaced, engined starts a daemon some time after its hello, an open
\* page polls again and again, and a request is given up after ten seconds.  Operators, losses
\* and crashes are not fair.
FabricSpec ==
  /\ FabricInit /\ [][FabricNext]_fabricVars
  /\ WF_fabricVars(Loop)
  /\ WF_fabricVars(OtherEnd)
  /\ SF_fabricVars(Sweeps(PrExpires))
  /\ SF_fabricVars(Daemon(DmSchedule(dmHellos < MaxHellos)))
  /\ WF_fabricVars(Daemon(DmRestart))
  /\ WF_fabricVars(Daemon(dmState = "WaitRuntimeStart" /\ StartFleet))
  /\ \A p \in Pages : /\ WF_fabricVars(Exchange(siteTopology(p)))
                      /\ WF_fabricVars(Exchange(AskExpires(p)))

=============================================================================
