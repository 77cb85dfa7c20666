------------------------------- MODULE Daemons ------------------------------
(***************************************************************************)
(* The six service daemons that are not engined or ipcd: authd, apid,      *)
(* probed, collectord, topologyd and mgmtd.  Each has an event factory (a  *)
(* table from frames to events), a bootstrap service, a heartbeat          *)
(* responder and, except mgmtd, a reload service, run by one loop:         *)
(* checkReload, poll, schedule, then every event and after them every      *)
(* action.  The copies are the same code in four of the daemons; apid and  *)
(* mgmtd announce themselves and go on without RuntimeStart.  Here one     *)
(* daemon, any of the six, runs against a fleet that sends it, in any      *)
(* order, every frame that some sender in the repository addresses to it.  *)
(***************************************************************************)
EXTENDS Naturals, Sequences

CONSTANTS
  MaxInbox,      \* frames waiting for a poll, and read by one
  MaxHellos,     \* ClientHellos that ipcd has not answered
  MaxDelivered,  \* frames of the fleet, handshake excluded
  MaxLost        \* ServerHellos dropped at ipcd's full transmit ring

ASSUME DaemonsAssumption == {MaxInbox, MaxHellos, MaxDelivered, MaxLost} \subseteq Nat

VARIABLES
  dmSelf,       \* which daemon this is
  dmState,      \* BootstrapService::m_state
  dmInbox,      \* frames that the next poll reads, in order
  dmTurn,       \* what the loop is doing: "poll" or "execute"
  dmEvents,     \* m_eventQueue
  dmActions,    \* m_actionQueue
  dmHellos,     \* ClientHellos on their way or waiting for ipcd's answer
  dmSaid,       \* what this process has sent: "hello", "ready"
  dmStarted,    \* whether this process took a RuntimeStart
  dmLate,       \* bootstrap_timeout_sec has passed since start()
  dmReload,     \* Core::m_reload, set by a ConfigApply
  dmUnhandled,  \* frames a factory did not know, with the daemon that got them
  dmBudget      \* frames of the fleet and losses so far

dmVars == <<dmSelf, dmState, dmInbox, dmTurn, dmEvents, dmActions, dmHellos, dmSaid, dmStarted,
            dmLate, dmReload, dmUnhandled, dmBudget>>

Gated == {"authd", "probed", "collectord", "topologyd"}
ServiceSet == Gated \cup {"apid", "mgmtd"}

(***************************************************************************)
(* The event factories: the domain each frame's event belongs to.          *)
(***************************************************************************)
Handshakes == [ServerHello |-> "bootstrap", RuntimeStart |-> "bootstrap",
               HeartbeatRequest |-> "heartbeat"]

\* f extended by giving every command of cmds the domain d.
With(f, cmds, d) == [c \in DOMAIN f \cup cmds |-> IF c \in cmds THEN d ELSE f[c]]

authdCreate ==
  With(With(Handshakes, {"ConfigApply"}, "reload"),
       {"AuthLoginRequest", "AuthOidcStartRequest", "AuthOidcCallbackRequest",
        "AuthSamlStartRequest", "AuthSamlAcsRequest"}, "service")

apidCreate == With(Handshakes, {"ConfigApply"}, "reload")

probedCreate == With(With(Handshakes, {"ConfigApply"}, "reload"), {"ProbeRequest"}, "service")

\* Fault: the factory of collectord without the TLS probe.
collectordCreateOld ==
  With(With(Handshakes, {"ConfigApply"}, "reload"),
       {"ApiKeygenRequest", "ApiEndpointTestRequest", "ApiSaseTestRequest",
        "ApiSaseKeyStoreRequest", "ApiCredentialStoreRequest", "ApiCredentialStateResponse"},
       "service")

collectordCreate ==
  With(With(Handshakes, {"ConfigApply"}, "reload"),
       {"ApiKeygenRequest", "ApiEndpointTestRequest", "ApiSaseTestRequest", "ApiTlsProbeRequest",
        "ApiSaseKeyStoreRequest", "ApiCredentialStoreRequest", "ApiCredentialStateResponse"},
       "service")

topologydCreate == With(With(Handshakes, {"ConfigApply"}, "reload"), {"TopologyRequest"}, "service")

mgmtdCreate ==
  With(With(With(Handshakes, {"HeartbeatResult"}, "heartbeat"), {"SettingsCommitResponse"}, "bootstrap"),
       {"AuthSamlAcsResponse", "TopologyResponse", "SettingsCommitStatus",
        "ApiConnectorTestResponse"}, "service")

enginedCreate ==
  With([c \in {"ServerHello", "SyncResponse", "RuntimeStart"} |-> "bootstrap"],
       {"HeartbeatResponse", "SettingsCommitRequest", "ProbeResult", "SaseHealthResult",
        "LocalUserUpdate", "ApiCredentialStateUpdate", "ApiCredentialStateRequest",
        "ApiCollectionSample", "ChatTurnStore", "SaseApiKeyUpdate", "AiCredentialStateUpdate"},
       "service")

ipcdCreate == [c \in {"ClientHello", "SyncRequest", "RuntimeReady"} |-> "bootstrap"]

CreateOf ==
  [authd |-> authdCreate, apid |-> apidCreate, probed |-> probedCreate,
   collectord |-> collectordCreate, topologyd |-> topologydCreate, mgmtd |-> mgmtdCreate,
   engined |-> enginedCreate, ipcd |-> ipcdCreate]

(***************************************************************************)
(* The senders: which frames each daemon addresses to whom.                *)
(***************************************************************************)
ConfigApplyTargets == {"authd", "probed", "collectord", "topologyd", "apid"}
HeartbeatTargets == ServiceSet

ConnectorRequests ==
  {"ApiKeygenRequest", "ApiEndpointTestRequest", "ApiSaseTestRequest", "ApiSaseKeyStoreRequest",
   "ApiCredentialStoreRequest", "ApiTlsProbeRequest"}

\* What the fleet sends to daemon d besides ServerHello and RuntimeStart.
SentTo(d) ==
     {c \in {"ConfigApply"} : d \in ConfigApplyTargets}
  \cup {c \in {"HeartbeatRequest"} : d \in HeartbeatTargets}
  \cup CASE d = "authd"      -> {"AuthSamlAcsRequest"}
         [] d = "probed"     -> {"ProbeRequest"}
         [] d = "collectord" -> ConnectorRequests \cup {"ApiCredentialStateResponse"}
         [] d = "topologyd"  -> {"TopologyRequest"}
         [] d = "mgmtd"      -> {"HeartbeatResult", "SettingsCommitResponse", "SettingsCommitStatus",
                                 "AuthSamlAcsResponse", "TopologyResponse", "ApiConnectorTestResponse"}
         [] OTHER            -> {}

\* What the service behind a frame sends when it takes it, with the destination.
NoAnswers(c) == {}

authdAnswers(c) ==
  IF c = "AuthSamlAcsRequest" THEN {<<"mgmtd", "AuthSamlAcsResponse">>} ELSE {}

probedAnswers(c) == IF c = "ProbeRequest" THEN {<<"engined", "ProbeResult">>} ELSE {}

collectordAnswers(c) ==
  IF c \in ConnectorRequests
  THEN {<<"mgmtd", "ApiConnectorTestResponse">>}
       \cup (IF c = "ApiSaseKeyStoreRequest" THEN {<<"engined", "SaseApiKeyUpdate">>}
             ELSE IF c = "ApiTlsProbeRequest" THEN {}
             ELSE {<<"engined", "ApiCredentialStateUpdate">>})
  ELSE {}

topologydAnswers(c) == IF c = "TopologyRequest" THEN {<<"mgmtd", "TopologyResponse">>} ELSE {}

\* What a running daemon sends of its own accord.
collectordSends ==
  {<<"engined", "SaseHealthResult">>, <<"engined", "ApiCollectionSample">>,
   <<"engined", "ApiCredentialStateRequest">>}

mgmtdSends ==
  {<<"engined", "SettingsCommitRequest">>, <<"engined", "LocalUserUpdate">>,
   <<"engined", "AiCredentialStateUpdate">>, <<"engined", "ChatTurnStore">>,
   <<"authd", "AuthSamlAcsRequest">>, <<"topologyd", "TopologyRequest">>}
  \cup {<<"collectord", c>> : c \in ConnectorRequests}

\* IpcProtocol's categories: the commands that change engined's store.
classifyWrite ==
  {"SettingsCommitRequest", "ChatTurnStore", "LocalUserUpdate", "ProbeResult", "ScanResult",
   "ApiCredentialStateUpdate", "AiCredentialStateUpdate", "ApiCollectionSample",
   "SaseApiKeyUpdate", "SaseHealthResult"}

isRoutingAllowed(dst, c) == c \in classifyWrite => dst = "engined"

\* The frames that reach a daemon whose factory drops them, or that the routing rule forbids.
Discarded(sends) ==
  {s \in sends : s[2] \notin DOMAIN CreateOf[s[1]] \/ ~isRoutingAllowed(s[1], s[2])}

(***************************************************************************)
(* BootstrapService.  A process is p, with the field st for m_state, evs   *)
(* and acts for its queues, tx for the frames it sends in this step,       *)
(* started and reload; schedule returns the state, the events it posts and *)
(* what the services send by themselves.                                   *)
(***************************************************************************)
\* schedule() of the daemons that keep retrying: due says that the interval has passed.
Posts(st, events) == [st |-> st, ev |-> events, tx |-> {}]

RetrySchedule(st, due) ==
  CASE st = "Init"                      -> Posts("WaitServerHello", <<"SendClientHello">>)
    [] st = "WaitServerHello" /\ due    -> Posts(st, <<"SendClientHello">>)
    [] st = "WaitRuntimeStart" /\ due   -> Posts(st, <<"SendRuntimeReady">>)
    [] st = "Ready"                     -> Posts("Running", <<>>)
    [] OTHER                            -> Posts(st, <<>>)

authdSchedule(st, due) == RetrySchedule(st, due)
probedSchedule(st, due) == RetrySchedule(st, due)

\* Fault: collectord greets ipcd once and waits.
collectordScheduleOnce(st, due) == RetrySchedule(st, FALSE)

collectordSchedule(st, due) == RetrySchedule(st, due)
topologydSchedule(st, due) == RetrySchedule(st, due)
apidSchedule(st, due) == RetrySchedule(st, due)

\* mgmtd stops for good when the timeout passes before ServerHello, and posts Ready.
mgmtdSchedule(st, due, late) ==
  IF st \in {"Init", "WaitServerHello"} /\ late THEN Posts("Failed", <<>>)
  ELSE IF st = "Ready" THEN Posts("Running", <<"Ready">>)
  ELSE RetrySchedule(st, due)

\* ServiceManager::schedule: bootstrap until it is ready, then the daemon's own services.
Turn(st, scheduled, sends) == IF st = "Running" THEN [Posts(st, <<>>) EXCEPT !.tx = sends] ELSE scheduled

authdTurn(st, due) == Turn(st, authdSchedule(st, due), {})
probedTurn(st, due) == Turn(st, probedSchedule(st, due), {})
collectordTurn(st, due) == Turn(st, collectordSchedule(st, due), collectordSends)
topologydTurn(st, due) == Turn(st, topologydSchedule(st, due), {})
apidTurn(st, due) == Turn(st, apidSchedule(st, due), {})
mgmtdTurn(st, due, late) == Turn(st, mgmtdSchedule(st, due, late), mgmtdSends)

TurnOf(d, st, due, late) ==
  CASE d = "authd"      -> authdTurn(st, due)
    [] d = "probed"     -> probedTurn(st, due)
    [] d = "collectord" -> collectordTurn(st, due)
    [] d = "topologyd"  -> topologydTurn(st, due)
    [] d = "apid"       -> apidTurn(st, due)
    [] d = "mgmtd"      -> mgmtdTurn(st, due, late)

\* onServerHello and onRuntimeStart of a gated daemon.
GatedReceive(p, e) ==
  CASE e = "ServerHello" /\ p.st = "WaitServerHello" ->
         [p EXCEPT !.st = "WaitRuntimeStart", !.acts = Append(@, "SendRuntimeReady")]
    [] e = "RuntimeStart" /\ p.st = "WaitRuntimeStart" -> [p EXCEPT !.st = "Ready", !.started = TRUE]
    [] OTHER -> p

\* onServerHello of a daemon that is not gated: it announces itself at once.
EagerReceive(p, e) ==
  IF e = "ServerHello" /\ p.st = "WaitServerHello"
  THEN [p EXCEPT !.st = "Ready", !.tx = @ \cup {<<"ipcd", "RuntimeReady">>}] ELSE p

authdReceive(p, e) == GatedReceive(p, e)
probedReceive(p, e) == GatedReceive(p, e)
collectordReceive(p, e) == GatedReceive(p, e)
\* Fault: topologyd counts ServerHello as its permission to run.
topologydReceiveEager(p, e) ==
  LET q == GatedReceive(p, e)
  IN  IF e = "ServerHello" /\ q.st = "WaitRuntimeStart" THEN [q EXCEPT !.st = "Ready"] ELSE q

topologydReceive(p, e) == GatedReceive(p, e)
apidReceive(p, e) == EagerReceive(p, e)

\* RuntimeStart decides nothing in mgmtd; it and Ready hand the assistant its
\* configuration over gRPC, which Chat models.
mgmtdReceive(p, e) == EagerReceive(p, e)

\* handleAction: a scheduled frame is skipped when the state has moved on.
EagerAct(p, a) ==
  IF a = "SendClientHello" /\ p.st = "WaitServerHello"
  THEN [p EXCEPT !.tx = @ \cup {<<"ipcd", "ClientHello">>}] ELSE p

GatedAct(p, a) ==
  IF a = "SendRuntimeReady" /\ p.st = "WaitRuntimeStart"
  THEN [p EXCEPT !.tx = @ \cup {<<"ipcd", "RuntimeReady">>}] ELSE EagerAct(p, a)

authdAct(p, a) == GatedAct(p, a)
probedAct(p, a) == GatedAct(p, a)
collectordAct(p, a) == GatedAct(p, a)
topologydAct(p, a) == GatedAct(p, a)
apidAct(p, a) == EagerAct(p, a)
mgmtdAct(p, a) == EagerAct(p, a)

\* HeartbeatService: a request posts an action, the action answers engined.
Beats(p, e) ==
  CASE e = "HeartbeatRequest"      -> [p EXCEPT !.acts = Append(@, "SendHeartbeatResponse")]
    [] e = "SendHeartbeatResponse" -> [p EXCEPT !.tx = @ \cup {<<"engined", "HeartbeatResponse">>}]
    [] OTHER                       -> p

authdBeats(p, e) == Beats(p, e)
probedBeats(p, e) == Beats(p, e)
collectordBeats(p, e) == Beats(p, e)
topologydBeats(p, e) == Beats(p, e)
apidBeats(p, e) == Beats(p, e)

\* mgmtd's also keeps the results engined sends, which no other service here reads.
mgmtdBeats(p, e) == Beats(p, e)

\* ReloadService: the process replaces itself before its next poll.
ReloadEvent(p) == [p EXCEPT !.reload = TRUE]

\* One turn of execute()'s loop: the oldest event, to the service of the domain the factory
\* gave it, or the oldest action when no event is left.
RunOne(p, create, Receive(_, _), Beat(_, _), Act(_, _), Answer(_)) ==
  LET Dispatch(q, e) ==
        IF e \in {"SendClientHello", "SendRuntimeReady"} THEN [q EXCEPT !.acts = Append(@, e)]
        ELSE IF e = "Ready" THEN q
        ELSE CASE create[e] = "bootstrap" -> Receive(q, e)
               [] create[e] = "heartbeat" -> Beat(q, e)
               [] create[e] = "reload"    -> ReloadEvent(q)
               [] OTHER                   -> [q EXCEPT !.tx = @ \cup Answer(e)]
      Perform(q, a) == IF a = "SendHeartbeatResponse" THEN Beat(q, a) ELSE Act(q, a)
  IN  IF p.evs # <<>> THEN Dispatch([p EXCEPT !.evs = Tail(@)], Head(p.evs))
                      ELSE Perform([p EXCEPT !.acts = Tail(@)], Head(p.acts))

authdExecute(p) == RunOne(p, authdCreate, authdReceive, authdBeats, authdAct, authdAnswers)

probedExecute(p) == RunOne(p, probedCreate, probedReceive, probedBeats, probedAct, probedAnswers)

collectordExecute(p) ==
  RunOne(p, collectordCreate, collectordReceive, collectordBeats, collectordAct, collectordAnswers)

topologydExecute(p) ==
  RunOne(p, topologydCreate, topologydReceive, topologydBeats, topologydAct, topologydAnswers)

apidExecute(p) == RunOne(p, apidCreate, apidReceive, apidBeats, apidAct, NoAnswers)

mgmtdExecute(p) == RunOne(p, mgmtdCreate, mgmtdReceive, mgmtdBeats, mgmtdAct, NoAnswers)

ExecuteOf(d, p) ==
  CASE d = "authd"      -> authdExecute(p)
    [] d = "probed"     -> probedExecute(p)
    [] d = "collectord" -> collectordExecute(p)
    [] d = "topologyd"  -> topologydExecute(p)
    [] d = "apid"       -> apidExecute(p)
    [] d = "mgmtd"      -> mgmtdExecute(p)

(***************************************************************************)
(* The process and its surroundings.                                       *)
(***************************************************************************)
Process ==
  [st |-> dmState, evs |-> dmEvents, acts |-> dmActions, tx |-> {}, started |-> dmStarted,
   reload |-> dmReload]

\* A process as main() and start() leave it.
Fresh ==
  /\ dmState = "Init" /\ dmInbox = <<>> /\ dmHellos = 0 /\ dmSaid = {}
  /\ dmTurn = "poll" /\ dmEvents = <<>> /\ dmActions = <<>>
  /\ dmStarted = FALSE /\ dmLate = FALSE /\ dmReload = FALSE

DmInit ==
  /\ dmSelf \in ServiceSet
  /\ Fresh
  /\ dmUnhandled = {}
  /\ dmBudget = [delivered |-> 0, lost |-> 0]

\* poll: one frame is read, and the factory makes an event of it or drops it.
DmPoll ==
  /\ dmTurn = "poll" /\ ~dmReload
  /\ dmInbox # <<>> /\ Len(dmEvents) < MaxInbox
  /\ dmInbox' = Tail(dmInbox)
  /\ IF Head(dmInbox) \in DOMAIN CreateOf[dmSelf]
       THEN /\ dmEvents' = Append(dmEvents, Head(dmInbox))
            /\ UNCHANGED dmUnhandled
       ELSE /\ dmUnhandled' = dmUnhandled \cup {<<dmSelf, Head(dmInbox)>>}
            /\ UNCHANGED dmEvents
  /\ UNCHANGED <<dmSelf, dmState, dmTurn, dmActions, dmHellos, dmSaid, dmStarted, dmLate, dmReload,
                 dmBudget>>

\* schedule, once the socket is drained: at most one event more, behind those of the frames.
DmSchedule(due) ==
  LET sched == TurnOf(dmSelf, dmState, due, dmLate)
  IN  /\ dmTurn = "poll" /\ ~dmReload
      /\ dmInbox = <<>> \/ Len(dmEvents) = MaxInbox
      /\ due => dmHellos < MaxHellos
      /\ dmTurn' = "execute"
      /\ dmState' = sched.st
      /\ dmEvents' = dmEvents \o sched.ev
      /\ dmUnhandled' = dmUnhandled \cup Discarded(sched.tx)
      /\ UNCHANGED <<dmSelf, dmInbox, dmActions, dmHellos, dmSaid, dmStarted, dmLate, dmReload,
                     dmBudget>>

\* execute: one event or action.
DmExecute ==
  /\ dmTurn = "execute" /\ (dmEvents # <<>> \/ dmActions # <<>>)
  /\ \E done \in {ExecuteOf(dmSelf, Process)} :
       /\ dmState' = done.st
       /\ dmEvents' = done.evs
       /\ dmActions' = done.acts
       /\ dmHellos' = IF <<"ipcd", "ClientHello">> \in done.tx THEN dmHellos + 1 ELSE dmHellos
       /\ dmSaid' = dmSaid \cup {s \in {"hello"} : <<"ipcd", "ClientHello">> \in done.tx}
                           \cup {s \in {"ready"} : <<"ipcd", "RuntimeReady">> \in done.tx}
       /\ dmStarted' = done.started
       /\ dmReload' = done.reload
       /\ dmUnhandled' = dmUnhandled \cup Discarded(done.tx)
  /\ UNCHANGED <<dmSelf, dmInbox, dmTurn, dmLate, dmBudget>>

\* Both queues are empty: the loop starts over.
DmTurnEnds ==
  /\ dmTurn = "execute" /\ dmEvents = <<>> /\ dmActions = <<>>
  /\ dmTurn' = "poll"
  /\ UNCHANGED <<dmSelf, dmState, dmInbox, dmEvents, dmActions, dmHellos, dmSaid, dmStarted, dmLate,
                 dmReload, dmUnhandled, dmBudget>>

\* checkReload: the process replaces itself; its connection and inbox go with it.
DmRestart ==
  /\ dmTurn = "poll" /\ dmReload
  /\ dmState' = "Init" /\ dmInbox' = <<>> /\ dmHellos' = 0 /\ dmSaid' = {}
  /\ dmEvents' = <<>> /\ dmActions' = <<>>
  /\ dmStarted' = FALSE /\ dmLate' = FALSE /\ dmReload' = FALSE
  /\ UNCHANGED <<dmSelf, dmTurn, dmUnhandled, dmBudget>>

\* The bootstrap timeout passes while the daemon waits.
DmLateNow ==
  /\ dmState \in {"Init", "WaitServerHello", "WaitRuntimeStart"}
  /\ ~dmLate /\ dmLate' = TRUE
  /\ UNCHANGED <<dmSelf, dmState, dmInbox, dmTurn, dmEvents, dmActions, dmHellos, dmSaid, dmStarted,
                 dmReload, dmUnhandled, dmBudget>>

Arrives(c) ==
  /\ Len(dmInbox) < MaxInbox
  /\ dmInbox' = Append(dmInbox, c)
  /\ UNCHANGED <<dmSelf, dmState, dmTurn, dmEvents, dmActions, dmSaid, dmStarted, dmLate, dmReload,
                 dmUnhandled>>

\* ipcd answers every ClientHello.
AnswerHello == dmHellos > 0 /\ dmHellos' = dmHellos - 1 /\ Arrives("ServerHello") /\ UNCHANGED dmBudget

\* The answer does not fit into ipcd's transmit ring.
LoseHello ==
  /\ dmHellos > 0 /\ dmBudget.lost < MaxLost
  /\ dmHellos' = dmHellos - 1
  /\ dmBudget' = [dmBudget EXCEPT !.lost = @ + 1]
  /\ UNCHANGED <<dmSelf, dmState, dmInbox, dmTurn, dmEvents, dmActions, dmSaid, dmStarted, dmLate,
                 dmReload, dmUnhandled>>

\* engined's broadcast, to every daemon that greeted ipcd: one that restarts after engined
\* counted its fleet, or while the target is version 0, gets it before it announced itself.
StartFleet ==
  /\ "hello" \in dmSaid
  /\ \A i \in 1..Len(dmInbox) : dmInbox[i] # "RuntimeStart"
  /\ Arrives("RuntimeStart") /\ UNCHANGED <<dmHellos, dmBudget>>

FleetSends(c) ==
  /\ "hello" \in dmSaid /\ c \in SentTo(dmSelf)
  /\ dmBudget.delivered < MaxDelivered
  /\ dmBudget' = [dmBudget EXCEPT !.delivered = @ + 1]
  /\ Arrives(c) /\ UNCHANGED dmHellos

DmNext ==
  \/ DmPoll
  \/ \E due \in BOOLEAN : DmSchedule(due)
  \/ DmExecute
  \/ DmTurnEnds
  \/ DmRestart
  \/ DmLateNow
  \/ AnswerHello
  \/ LoseHello
  \/ StartFleet
  \/ \E c \in SentTo(dmSelf) : FleetSends(c)

DmSpec == DmInit /\ [][DmNext]_dmVars

-----------------------------------------------------------------------------
\* How far the process has come, as the fleet sees it.
Phase ==
  IF dmState = "Running" THEN "serving"
  ELSE IF dmState = "Failed" THEN "gaveUp"
  ELSE IF "ready" \in dmSaid THEN "announced"
  ELSE IF "hello" \in dmSaid THEN "greeting" ELSE "off"

\* Bootstrap refines the handshake the fleet relies on: a gated daemon serves only after a
\* RuntimeStart of its own process, which may overtake its announcement, any other only after
\* it announced itself, and every new process starts from the beginning.
Abstract == INSTANCE Handshake WITH
  phase   <- Phase,
  gated   <- dmSelf \in Gated,
  started <- dmStarted

ImplementsHandshake == Abstract!HandshakeSpec

\* No factory meets a frame it does not know: what every sender addresses to a daemon, the
\* daemon's own answers included, is in the destination's table (the default case of create
\* drops the frame with a warning), and a frame that changes the store goes to engined alone.
NothingUnhandled == dmUnhandled = {}

\* A daemon that keeps retrying its ClientHello serves in the end, whichever answers were
\* lost and however late it is, unless it is told to reload first; mgmtd alone gives up.
Serves ==
  (dmSelf # "mgmtd") => [](dmState # "Running" => <>(dmState = "Running" \/ dmReload))

=============================================================================
