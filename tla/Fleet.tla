------------------------------- MODULE Fleet --------------------------------
(***************************************************************************)
(* The fleet around engined: ipcd's runtime table and frame broker, the    *)
(* service daemons' bootstrap and reload, and mgmtd's reload status.  The  *)
(* engine is EngineCommit, its environment replaced by these processes.    *)
(*                                                                         *)
(* Every daemon holds one unix-socket connection to ipcd, a FIFO in each   *)
(* direction.  A process that dies leaves HangUp on its connection; ipcd   *)
(* handles the hang-up before it reads, so unread frames are lost with it. *)
(* ipcd sees the hang-up before the frames of the process's successor.     *)
(***************************************************************************)
EXTENDS EngineCommit, FiniteSets

CONSTANTS
  Ungated,    \* service daemons that do not wait for RuntimeStart (apid)
  MaxCrashes, \* bound: crashes of service daemons and of engined
  EarlyCommit \* whether operators may commit before the fleet runs

ASSUME FleetAssumption ==
  /\ Daemons \cap {"engined", "mgmtd"} = {}
  /\ Ungated \subseteq Daemons
  /\ MaxCrashes \in Nat
  /\ EarlyCommit \in BOOLEAN

VARIABLES
  table,        \* ipcd: IpcServerHandler::m_runtimeTable
  ipcdEv,       \* ipcd: IpcdServiceManager's event queue
  up,           \* frames from each peer not yet read by ipcd
  down,         \* frames from ipcd not yet read by a daemon or by mgmtd
  dstate,       \* service daemon: BootstrapService::m_state ("Down": no process)
  loaded,       \* service daemon: version its process loaded at start
  reload,       \* service daemon: Core::m_reload, set by SIGHUP
  reloadStatus, \* mgmtd: MgmtdServiceManager::m_reloadStatus
  shown,        \* mgmtd: m_commitQueueSnapshot
  crashes       \* environment: crashes so far

ipcdVars   == <<table, ipcdEv>>
netVars    == <<up, down>>
daemonVars == <<dstate, loaded, reload>>
mgmtdVars  == <<reloadStatus, shown>>
engineVars == <<phase, eventQ, actionQ, bootVars, commitVars, version, tx, rx, owed>>
fleetVars  == <<engineVars, requests, ipcdVars, netVars, daemonVars, mgmtdVars, crashes>>

Peers == Daemons \cup {"engined", "mgmtd"}

HangUp == [cmd |-> "HangUp"]

(***************************************************************************)
(* ipcd                                                                    *)
(***************************************************************************)
NoRoute == [bound |-> FALSE, ready |-> FALSE, applied |-> 0, generation |-> 0]

\* bindRoute: the first frame of a new connection opens a new generation.
BindRoute(p) ==
  IF table[p].bound
  THEN table
  ELSE [table EXCEPT ![p] = [bound |-> TRUE, ready |-> FALSE, applied |-> 0,
                             generation |-> table[p].generation + 1]]

\* Fault: the route is erased together with its generation.
RemoveRouteErases(p) == [table EXCEPT ![p] = NoRoute]

\* removeRoute: the generation survives the connection.
RemoveRoute(p) ==
  [table EXCEPT ![p].bound = FALSE, ![p].ready = FALSE, ![p].applied = 0]

HungUp(p) == up[p] # <<>> /\ Head(up[p]) = HangUp

\* A frame to p reaches the process only over a route to its live connection.
Reachable(t, p) == t[p].bound /\ ~HungUp(p)

\* Append to each peer's inbox the frames out[p] that have a route.
Transmit(t, out) ==
  /\ down' = [p \in Peers \ {"engined"} |->
                IF Reachable(t, p) THEN down[p] \o out[p] ELSE down[p]]
  /\ rx' = IF Reachable(t, "engined") THEN rx \o out["engined"] ELSE rx

IpcdHangUp(p) ==
  /\ HungUp(p)
  /\ table' = RemoveRoute(p)
  /\ up' = [up EXCEPT ![p] = Tail(@)]
  /\ UNCHANGED <<ipcdEv, down, rx>>

IsOwn(msg) == msg.cmd \in {"ClientHello", "SyncRequest", "RuntimeReady"}

\* Destinations of a relayed frame: a broadcast goes to every bound peer but
\* its sender, a unicast to its destination.
Destinations(p, msg) ==
  CASE msg.cmd = "RuntimeStart" -> Peers \ {p}
    [] msg.cmd = "ConfigApply" -> {msg.dst}
    [] msg.cmd = "SettingsCommitRequest" -> {"engined"}
    [] msg.cmd \in {"SettingsCommitResponse", "SettingsCommitStatus"} -> {"mgmtd"}

\* ingress: bind the route, keep ipcd's own commands for execute, relay others.
\* A connection is accepted one poll before its first frame is read, so what
\* its predecessor left for execute has been executed by then.
IpcdIngress(p) ==
  /\ up[p] # <<>>
  /\ ~HungUp(p)
  /\ table[p].bound \/ \A i \in DOMAIN ipcdEv : ipcdEv[i].src # p
  /\ table' = BindRoute(p)
  /\ up' = [up EXCEPT ![p] = Tail(@)]
  /\ LET msg == Head(up[p])
     IN IF IsOwn(msg)
        THEN /\ ipcdEv' = Append(ipcdEv, [src |-> p, msg |-> msg])
             /\ UNCHANGED <<down, rx>>
        ELSE /\ Transmit(table', [q \in Peers |-> IF q \in Destinations(p, msg)
                                                  THEN <<msg>> ELSE <<>>])
             /\ UNCHANGED ipcdEv

\* Where ipcd's queue holds the RuntimeReadys of p, and what p asks.
Marks(p) == {i \in DOMAIN ipcdEv : ipcdEv[i].src = p /\ ipcdEv[i].msg.cmd = "RuntimeReady"}
Asks(p) == {i \in DOMAIN ipcdEv : ipcdEv[i].src = p /\ ipcdEv[i].msg.cmd # "RuntimeReady"}

Latest(S) == CHOOSE i \in S : \A j \in S : j <= i
Nth(S, n) == CHOOSE i \in S : Cardinality({j \in S : j <= i}) = n

\* markRuntimeReady for every RuntimeReady of the batch.
MarkRuntimeReady ==
  [p \in Peers |->
     LET applied == ipcdEv[Latest(Marks(p))].msg.applied
     IN IF Marks(p) = {} THEN table[p]
        ELSE [table[p] EXCEPT !.ready = TRUE, !.applied = IF applied > 0 THEN applied ELSE @]]

SyncReport(t) ==
  [d \in Daemons |-> IF t[d].bound
                     THEN [listed |-> TRUE, applied |-> t[d].applied,
                           generation |-> t[d].generation]
                     ELSE Unlisted]

Reply(t, msg) ==
  IF msg.cmd = "ClientHello"
  THEN [cmd |-> "ServerHello"]
  ELSE [cmd |-> "SyncResponse", valid |-> TRUE, report |-> SyncReport(t)]

\* The answers to p, in the order it asked.
Replies(t, p) ==
  [n \in 1 .. Cardinality(Asks(p)) |-> Reply(t, ipcdEv[Nth(Asks(p), n)].msg)]

\* execute: all events first (RuntimeReady marks the table), then the replies.
IpcdExecute ==
  /\ ipcdEv # <<>>
  /\ ipcdEv' = <<>>
  /\ table' = MarkRuntimeReady
  /\ Transmit(table', [p \in Peers |-> Replies(table', p)])
  /\ UNCHANGED up

Ipcd(step) ==
  /\ step
  /\ tx' = <<>>
  /\ UNCHANGED <<phase, eventQ, actionQ, bootVars, commitVars, version, owed>>
  /\ UNCHANGED <<requests, daemonVars, mgmtdVars, crashes>>

IpcdPoll(p) == IpcdHangUp(p) \/ IpcdIngress(p)

(***************************************************************************)
(* Service daemons                                                         *)
(***************************************************************************)
InFlight(p, cmd) == \E i \in DOMAIN up[p] : up[p][i].cmd = cmd
Asked(p, cmd) == \E i \in DOMAIN ipcdEv : ipcdEv[i].src = p /\ ipcdEv[i].msg.cmd = cmd

Send(p, msg) == up' = [up EXCEPT ![p] = Append(@, msg)]

\* Fault: the version reported is read from the store, not from the process.
RuntimeReadyFresh(d) == [cmd |-> "RuntimeReady", applied |-> version]

RuntimeReady(d) == [cmd |-> "RuntimeReady", applied |-> loaded[d]]

\* The process starts, loads the running configuration (version 0, the
\* startup file, when the database does not answer) and connects.
Boot(d) ==
  /\ dstate[d] = "Down"
  /\ dstate' = [dstate EXCEPT ![d] = "WaitServerHello"]
  /\ \E v \in RunningConfigVersion(version) : loaded' = [loaded EXCEPT ![d] = v]
  /\ UNCHANGED <<reload, netVars, crashes>>

\* ClientHello, first or retried; bound: one in flight at a time.
SendHello(d) ==
  /\ dstate[d] = "WaitServerHello"
  /\ ~InFlight(d, "ClientHello") /\ ~Asked(d, "ClientHello") /\ down[d] = <<>>
  /\ Send(d, [cmd |-> "ClientHello"])
  /\ UNCHANGED <<daemonVars, down, crashes>>

\* RuntimeReady retried; bound: only while the table does not have it.
ResendReady(d) ==
  /\ dstate[d] = "WaitRuntimeStart"
  /\ ~InFlight(d, "RuntimeReady") /\ ~Asked(d, "RuntimeReady") /\ ~table[d].ready
  /\ Send(d, RuntimeReady(d))
  /\ UNCHANGED <<daemonVars, down, crashes>>

\* A tick: the frames of one poll, all of their events, then the actions.  The
\* RuntimeReady that a ServerHello asks for is skipped when a RuntimeStart of the
\* same poll has moved a gated daemon on before the action runs.
Receive(d) ==
  /\ dstate[d] # "Down"
  /\ \E n \in 1 .. Len(down[d]) :
       LET Got(i, cmd) == down[d][i].cmd = cmd
           hello == dstate[d] = "WaitServerHello" /\ \E i \in 1 .. n : Got(i, "ServerHello")
           started == /\ d \notin Ungated
                      /\ \E i \in 1 .. n :
                           /\ Got(i, "RuntimeStart")
                           /\ \/ dstate[d] = "WaitRuntimeStart"
                              \/ hello /\ \E j \in 1 .. i - 1 : Got(j, "ServerHello")
       IN  /\ dstate' = [dstate EXCEPT ![d] = CASE started \/ (hello /\ d \in Ungated) -> "Running"
                                                [] hello /\ ~started /\ d \notin Ungated -> "WaitRuntimeStart"
                                                [] OTHER -> @]
           /\ IF hello /\ ~started THEN Send(d, RuntimeReady(d)) ELSE UNCHANGED up
           /\ reload' = [reload EXCEPT ![d] = @ \/ \E i \in 1 .. n : Got(i, "ConfigApply")]
           /\ down' = [down EXCEPT ![d] = SubSeq(@, n + 1, Len(@))]
  /\ UNCHANGED <<loaded, crashes>>

\* The process is gone: its socket hangs up and what it had not read is lost.
Die(d) ==
  /\ dstate' = [dstate EXCEPT ![d] = "Down"]
  /\ reload' = [reload EXCEPT ![d] = FALSE]
  /\ up' = [up EXCEPT ![d] = <<HangUp>>]
  /\ down' = [down EXCEPT ![d] = <<>>]
  /\ UNCHANGED loaded

\* checkReload at the head of the loop: close every descriptor and execv.
Reexec(d) ==
  /\ reload[d]
  /\ Die(d)
  /\ UNCHANGED crashes

Crash(d) ==
  /\ dstate[d] # "Down"
  /\ crashes < MaxCrashes
  /\ crashes' = crashes + 1
  /\ Die(d)

DaemonStep(d) == Boot(d) \/ SendHello(d) \/ ResendReady(d) \/ Receive(d) \/ Reexec(d)

Daemon(step) ==
  /\ step
  /\ tx' = <<>>
  /\ UNCHANGED <<phase, eventQ, actionQ, bootVars, commitVars, version, rx, owed>>
  /\ UNCHANGED <<requests, ipcdVars, mgmtdVars>>

(***************************************************************************)
(* mgmtd                                                                   *)
(***************************************************************************)
\* SettingsController::commit sends the validated request and starts the
\* reload display; nothing refuses a commit while another one is reloading.
MgmtdCommit ==
  /\ requests < MaxRequests
  /\ EarlyCommit \/ \A d \in Daemons : dstate[d] = "Running"
  /\ requests' = requests + 1
  /\ reloadStatus' = "Reloading"
  /\ Send("mgmtd", [cmd |-> "SettingsCommitRequest", payload |-> "good"])
  /\ UNCHANGED <<down, shown>>

OnSettingsCommitResponse(ok) == IF ok THEN "Complete" ELSE "Failed"

MgmtdReceive ==
  /\ down["mgmtd"] # <<>>
  /\ down' = [down EXCEPT !["mgmtd"] = Tail(@)]
  /\ LET msg == Head(down["mgmtd"])
     IN \/ /\ msg.cmd = "SettingsCommitResponse"
           /\ reloadStatus' = OnSettingsCommitResponse(msg.ok)
           /\ UNCHANGED shown
        \/ /\ msg.cmd = "SettingsCommitStatus"
           /\ shown' = msg.tasks
           /\ UNCHANGED reloadStatus
        \/ /\ msg.cmd = "RuntimeStart"
           /\ UNCHANGED mgmtdVars
  /\ UNCHANGED <<requests, up>>

Mgmtd(step) ==
  /\ step
  /\ tx' = <<>>
  /\ UNCHANGED <<phase, eventQ, actionQ, bootVars, commitVars, version, rx, owed>>
  /\ UNCHANGED <<ipcdVars, daemonVars, crashes>>

(***************************************************************************)
(* engined                                                                 *)
(***************************************************************************)
EngineAwaits(cmd, answer) ==
  \/ InFlight("engined", cmd)
  \/ Asked("engined", cmd)
  \/ \E i \in DOMAIN rx : rx[i].cmd = answer

\* One tick step; what it sends enters engined's connection.  Bound: a retry
\* is scheduled only when the previous request has been answered.
EngineSchedule ==
  \/ ScheduleInit
  \/ ScheduleReloadTimeout
  \/ ScheduleNothing
  \/ ScheduleSync /\ ~EngineAwaits("SyncRequest", "SyncResponse")
  \/ ScheduleHelloRetry /\ ~EngineAwaits("ClientHello", "ServerHello")

Engine(step) ==
  /\ step
  /\ up' = [up EXCEPT !["engined"] = @ \o tx']
  /\ UNCHANGED <<down, ipcdVars, daemonVars, mgmtdVars, crashes>>

EngineTick == Engine(Poll \/ EngineSchedule \/ ExecuteEvent \/ ExecuteAction \/ ExecuteDone)

EngineCrash ==
  /\ crashes < MaxCrashes
  /\ crashes' = crashes + 1
  /\ Restart
  /\ up' = [up EXCEPT !["engined"] = <<HangUp>>]
  /\ UNCHANGED <<down, ipcdVars, daemonVars, mgmtdVars>>

(***************************************************************************)
(* Specification                                                           *)
(***************************************************************************)
FleetInit ==
  /\ Init
  /\ table = [p \in Peers |->
       IF p = "mgmtd" THEN [NoRoute EXCEPT !.bound = TRUE, !.generation = 1] ELSE NoRoute]
  /\ ipcdEv = <<>>
  /\ up = [p \in Peers |-> <<>>]
  /\ down = [p \in Peers \ {"engined"} |-> <<>>]
  /\ dstate = [d \in Daemons |-> "Down"]
  /\ loaded = [d \in Daemons |-> 0]
  /\ reload = [d \in Daemons |-> FALSE]
  /\ reloadStatus = "Idle"
  /\ shown = <<>>
  /\ crashes = 0

FleetNext ==
  \/ EngineTick
  \/ EngineCrash
  \/ Ipcd(IpcdExecute)
  \/ \E p \in Peers : Ipcd(IpcdPoll(p))
  \/ Mgmtd(MgmtdCommit)
  \/ Mgmtd(MgmtdReceive)
  \/ \E d \in Daemons : Daemon(DaemonStep(d)) \/ Daemon(Crash(d))

FleetSpec == FleetInit /\ [][FleetNext]_fleetVars

\* Every process runs its loop, a dead daemon is restarted (Restart=always)
\* and elapsed intervals are noticed: the retry of SyncRequest and the reload
\* timeout are tested at every tick.  Operators and crashes are not fair.
FleetFairSpec ==
  /\ FleetSpec
  /\ WF_fleetVars(EngineTick)
  /\ SF_fleetVars(Engine(ScheduleSync /\ ~EngineAwaits("SyncRequest", "SyncResponse")))
  /\ SF_fleetVars(Engine(ScheduleReloadTimeout))
  /\ WF_fleetVars(Ipcd(IpcdExecute))
  /\ \A p \in Peers : WF_fleetVars(Ipcd(IpcdPoll(p)))
  /\ WF_fleetVars(Mgmtd(MgmtdReceive))
  /\ \A d \in Daemons : WF_fleetVars(Daemon(DaemonStep(d)))

(***************************************************************************)
(* Properties                                                              *)
(***************************************************************************)
\* Types of the fleet's variables.
FleetTypeOK ==
  /\ TypeOK
  /\ table \in [Peers -> [bound : BOOLEAN, ready : BOOLEAN, applied : Nat, generation : Nat]]
  /\ dstate \in [Daemons -> {"Down", "WaitServerHello", "WaitRuntimeStart", "Running"}]
  /\ loaded \in [Daemons -> Nat]
  /\ reload \in [Daemons -> BOOLEAN]
  /\ reloadStatus \in {"Idle", "Reloading", "Complete", "Failed"}
  /\ crashes \in Nat

\* What ipcd reports as applied is what the process at the other end of the
\* route loaded: a version never survives a restart of the daemon.
AppliedIsLoaded ==
  \A d \in Daemons : table[d].bound /\ ~HungUp(d) => table[d].applied \in {0, loaded[d]}

\* No gated daemon starts working before every service daemon has booted and
\* said hello, even when engined came up without its database.
StartsTogether ==
  \A d \in Daemons \ Ungated :
    dstate[d] = "Running" => \A e \in Daemons : table[e].generation > 0

\* A daemon that waits for RuntimeStart will get it: engined has yet to bless
\* this connection's generation, or a RuntimeStart is on its way to it.
StartNotLost ==
  \A d \in Daemons \ Ungated :
    dstate[d] = "WaitRuntimeStart" /\ table[d].bound =>
      \/ procs[d].blessed < table[d].generation
      \/ InFlight("engined", "RuntimeStart")
      \/ \E i \in DOMAIN down[d] : down[d][i].cmd = "RuntimeStart"

\* Once the status messages are delivered the console shows engined's queue,
\* as long as engined has not been restarted.
ShownMatchesQueue ==
  /\ crashes = 0
  /\ ~InFlight("engined", "SettingsCommitStatus")
  /\ \A i \in DOMAIN down["mgmtd"] : down["mgmtd"][i].cmd # "SettingsCommitStatus"
  => shown = QueueStatus(queue).tasks

\* "Sent once the fleet has converged onto the committed version": an ok
\* answer leaves engined only when every daemon runs on the stored version.
OkMeansConverged ==
  [][\A i \in Answers(tx') : tx'[i].ok => \A d \in Daemons : loaded[d] = version]_fleetVars

\* "a daemon that cold-restarts mid-reload loads the last known good version
\* and never the in-flight one": a daemon that starts before the order to
\* reload reaches it starts on an older version than the one being rolled out.
LoadsLastGood ==
  [][\A d \in Daemons :
       /\ dstate[d] = "Down" /\ dstate'[d] # "Down"
       /\ isReload
       /\ \E i \in DOMAIN up["engined"] : up["engined"][i] = [cmd |-> "ConfigApply", dst |-> d]
       => loaded'[d] < target]_fleetVars

\* Without crashes the fleet settles on the stored version, every daemon
\* running.
FleetConverges ==
  <>[](\A d \in Daemons : dstate[d] = "Running" /\ loaded[d] = version)

\* The console's progress bar ends: a commit is answered as published or as
\* failed.
ReloadResolves == reloadStatus = "Reloading" ~> reloadStatus # "Reloading"

=============================================================================
