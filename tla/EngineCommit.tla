---------------------------- MODULE EngineCommit ----------------------------
(***************************************************************************)
(* engined's commit pipeline: the single-threaded tick (poll, schedule,    *)
(* execute), its event and action queues, BootstrapService (the fleet      *)
(* reconciliation state machine) and CommitService (the queue of settings  *)
(* commits).  The rest of the fleet is an open environment that delivers   *)
(* any ServerHello, SyncResponse or SettingsCommitRequest; module Fleet    *)
(* replaces it by the broker, the service daemons and mgmtd.               *)
(*                                                                         *)
(* Time is abstracted: a test "interval elapsed" may go either way.        *)
(***************************************************************************)
EXTENDS Integers, Sequences

CONSTANTS
  ServiceDaemons, \* kServiceDaemons, in the order of the ConfigApply fan-out
  KeepTasks,      \* queue length above which finished reloads trim it (5)
  MaxRequests,    \* bound: SettingsCommitRequests the environment sends
  MaxRx,          \* bound: frames waiting in the socket
  MaxGeneration,  \* bound: generations the environment reports
  CanRestart,     \* whether engined may crash or be re-executed
  StoreCanFail    \* whether PostgreSQL may refuse a read or a commit

ASSUME EngineAssumption ==
  /\ ServiceDaemons \in Seq(STRING)
  /\ KeepTasks \in Nat
  /\ MaxRequests \in Nat
  /\ MaxRx \in Nat
  /\ MaxGeneration \in Nat
  /\ CanRestart \in BOOLEAN
  /\ StoreCanFail \in BOOLEAN

VARIABLES
  phase,        \* where the tick stands: "poll", "schedule" or "execute"
  eventQ,       \* EnginedServiceManager::m_eventQueue
  actionQ,      \* EnginedServiceManager::m_actionQueue
  state,        \* BootstrapService::m_state
  isReload,     \* BootstrapService::m_isReload
  bootstrapped, \* BootstrapService::m_bootstrapped
  target,       \* BootstrapService::m_targetVersion
  procs,        \* BootstrapService::m_processMap
  queue,        \* CommitService::m_queue
  nextId,       \* CommitService::m_nextId
  version,      \* highest 'active' version of table running_config
  rx,           \* frames received from ipcd, not yet polled
  tx,           \* messages handed to the TX router in the last step
  requests,     \* environment: SettingsCommitRequests sent so far
  owed          \* history: a scheduled reload has not been answered yet

bootVars   == <<state, isReload, bootstrapped, target, procs>>
commitVars == <<queue, nextId>>
envVars    == <<rx, requests>>
vars == <<phase, eventQ, actionQ, bootVars, commitVars, version, tx, envVars, owed>>

Daemons == {ServiceDaemons[i] : i \in DOMAIN ServiceDaemons}

(***************************************************************************)
(* Messages, events, actions and tasks                                     *)
(***************************************************************************)
\* One SyncResponse entry per daemon; ipcd lists those it has a route for.
Report == [listed : BOOLEAN, applied : Nat, generation : Nat]

Reports == [Daemons -> Report]

Unlisted == [listed |-> FALSE, applied |-> 0, generation |-> 0]

Payloads == {"empty", "bad", "good"}

RxMsg ==
  [cmd : {"ServerHello"}]
    \cup [cmd : {"SyncResponse"}, valid : BOOLEAN, report : Reports]
    \cup [cmd : {"SettingsCommitRequest"}, payload : Payloads]

PlainEvents == {"SendClientHello", "ReceiveServerHello", "SendSyncRequest",
                "BootstrapReloadFailed", "CommitReloadComplete", "CommitReloadFailed"}

Event ==
  [type : PlainEvents]
    \cup [type : {"ReceiveSyncResponse"}, valid : BOOLEAN, report : Reports]
    \cup [type : {"ReceiveSettingsCommit"}, payload : Payloads]

Action == {"SendClientHello", "SendSyncRequest", "SendRuntimeStart",
           "SendReloadFailed", "ApplyCommit"}

Status == {"Pending", "Running", "Done", "Failed"}

Task == [id : Nat, payload : Payloads, status : Status]

ProcessState == [connected : BOOLEAN, applied : Nat, generation : Nat, blessed : Nat]

\* EnginedEventFactory::create, the commands these two services handle.
EventOf(msg) ==
  CASE msg.cmd = "ServerHello" -> [type |-> "ReceiveServerHello"]
    [] msg.cmd = "SyncResponse" ->
         [type |-> "ReceiveSyncResponse", valid |-> msg.valid, report |-> msg.report]
    [] msg.cmd = "SettingsCommitRequest" ->
         [type |-> "ReceiveSettingsCommit", payload |-> msg.payload]

\* Fault: the failure flag is never set.
SettingsCommitResponseAlwaysOk(ok, v) ==
  [cmd |-> "SettingsCommitResponse", ok |-> TRUE, target |-> v]

SettingsCommitResponse(ok, v) ==
  [cmd |-> "SettingsCommitResponse", ok |-> ok, target |-> v]

QueueStatus(q) ==
  [cmd |-> "SettingsCommitStatus",
   tasks |-> [i \in DOMAIN q |-> [id |-> q[i].id, status |-> q[i].status]]]

\* Fault: the fan-out loop skips its first destination.
ConfigApplyFanOutSkips ==
  [i \in 1 .. Len(ServiceDaemons) - 1 |->
     [cmd |-> "ConfigApply", dst |-> ServiceDaemons[i + 1]]]

ConfigApplyFanOut ==
  [i \in DOMAIN ServiceDaemons |-> [cmd |-> "ConfigApply", dst |-> ServiceDaemons[i]]]

(***************************************************************************)
(* BootstrapService's view of the fleet                                    *)
(***************************************************************************)
ColdProcs ==
  [d \in Daemons |-> [connected |-> FALSE, applied |-> 0, generation |-> 0, blessed |-> 0]]

\* updateProcessMap: a reported daemon is connected; an unreported one keeps
\* only its generations.
UpdateProcessMap(report) ==
  [d \in Daemons |->
     IF report[d].listed
     THEN [procs[d] EXCEPT !.connected = TRUE,
                           !.applied = report[d].applied,
                           !.generation = report[d].generation]
     ELSE [procs[d] EXCEPT !.connected = FALSE, !.applied = 0]]

IsProcessReady(p) == p.connected /\ p.applied >= target

\* Fault: daemons that are not connected are not waited for.
IsAllProcessReadyOfConnected(ps) ==
  \A d \in Daemons : ps[d].connected => IsProcessReady(ps[d])

IsAllProcessReady(ps) == Daemons # {} /\ \A d \in Daemons : IsProcessReady(ps[d])

AnyUnblessed(ps) == \E d \in Daemons : ps[d].generation > ps[d].blessed

(***************************************************************************)
(* CommitService's queue                                                   *)
(***************************************************************************)
\* i is the index of the first task of q whose status is s.
IsFirst(q, s, i) ==
  /\ i \in DOMAIN q
  /\ q[i].status = s
  /\ \A j \in 1 .. i - 1 : q[j].status # s

Has(q, s) == \E i \in DOMAIN q : q[i].status = s

SetStatus(q, i, s) == [q EXCEPT ![i].status = s]

\* The pop_front loop stops after n pops.
TrimStops(q, n) ==
  /\ Len(q) - n <= KeepTasks
  /\ n < Len(q) => q[n + 1].status \notin {"Done", "Failed"}

IsTrimmed(q, n) ==
  /\ TrimStops(q, n)
  /\ \A m \in 0 .. n - 1 : ~TrimStops(q, m)

\* Fault: startNext does not send the queue status.
StartNextSilent(q, acts, out) ==
  \/ /\ ~Has(q, "Pending")
     /\ queue' = q
     /\ actionQ' = acts
     /\ tx' = out
  \/ \E i \in DOMAIN q :
       /\ IsFirst(q, "Pending", i)
       /\ queue' = SetStatus(q, i, "Running")
       /\ actionQ' = Append(acts, "ApplyCommit")
       /\ tx' = out

\* startNext on queue q, with actions acts posted and messages out sent so far.
StartNext(q, acts, out) ==
  \/ /\ ~Has(q, "Pending")
     /\ queue' = q
     /\ actionQ' = acts
     /\ tx' = out
  \/ \E i \in DOMAIN q :
       /\ IsFirst(q, "Pending", i)
       /\ queue' = SetStatus(q, i, "Running")
       /\ actionQ' = Append(acts, "ApplyCommit")
       /\ tx' = Append(out, QueueStatus(SetStatus(q, i, "Running")))

(***************************************************************************)
(* Config::runningConfigVersion: the stored version, or 0 (the startup     *)
(* file) when the database does not answer.                                *)
(***************************************************************************)
RunningConfigVersion(v) == IF StoreCanFail THEN {0, v} ELSE {v}

(***************************************************************************)
(* The process starts: BootstrapService::start reads the target version    *)
(* (0 when the database is down) and everything in memory is empty.        *)
(***************************************************************************)
Init ==
  /\ phase = "poll"
  /\ eventQ = <<>>
  /\ actionQ = <<>>
  /\ state = "Init"
  /\ isReload = FALSE
  /\ bootstrapped = FALSE
  /\ version = 1
  /\ target \in RunningConfigVersion(version)
  /\ procs = ColdProcs
  /\ queue = <<>>
  /\ nextId = 1
  /\ rx = <<>>
  /\ tx = <<>>
  /\ requests = 0
  /\ owed = FALSE

\* A crash, or a SIGHUP's execv: all of the above again, on the stored version.
Restart ==
  /\ CanRestart
  /\ phase' = "poll"
  /\ eventQ' = <<>>
  /\ actionQ' = <<>>
  /\ state' = "Init"
  /\ isReload' = FALSE
  /\ bootstrapped' = FALSE
  /\ target' \in RunningConfigVersion(version)
  /\ procs' = ColdProcs
  /\ queue' = <<>>
  /\ nextId' = 1
  /\ rx' = <<>>
  /\ tx' = <<>>
  /\ owed' = FALSE
  /\ UNCHANGED <<version, requests>>

(***************************************************************************)
(* The environment delivers a frame                                        *)
(***************************************************************************)
Deliver(msg) ==
  /\ Len(rx) < MaxRx
  /\ rx' = Append(rx, msg)
  /\ tx' = <<>>
  /\ UNCHANGED <<phase, eventQ, actionQ, bootVars, commitVars, version, owed>>

DeliverServerHello ==
  /\ Deliver([cmd |-> "ServerHello"])
  /\ UNCHANGED requests

DeliverSyncResponse ==
  /\ \E valid \in BOOLEAN :
       \E report \in [Daemons -> {Unlisted}
                        \cup [listed : {TRUE}, applied : 0 .. version,
                              generation : 1 .. MaxGeneration]] :
         Deliver([cmd |-> "SyncResponse", valid |-> valid, report |-> report])
  /\ UNCHANGED requests

DeliverSettingsCommit(payload) ==
  /\ requests < MaxRequests
  /\ requests' = requests + 1
  /\ Deliver([cmd |-> "SettingsCommitRequest", payload |-> payload])

Environment ==
  \/ DeliverServerHello
  \/ DeliverSyncResponse
  \/ \E payload \in Payloads : DeliverSettingsCommit(payload)

(***************************************************************************)
(* EnginedProcess::tick: poll, then schedule, then execute                 *)
(***************************************************************************)
Poll ==
  /\ phase = "poll"
  /\ eventQ' = eventQ \o [i \in DOMAIN rx |-> EventOf(rx[i])]
  /\ rx' = <<>>
  /\ phase' = "schedule"
  /\ tx' = <<>>
  /\ UNCHANGED <<actionQ, bootVars, commitVars, version, requests, owed>>

SchedulePost(type) ==
  /\ phase = "schedule"
  /\ phase' = "execute"
  /\ eventQ' = Append(eventQ, [type |-> type])
  /\ tx' = <<>>
  /\ UNCHANGED <<actionQ, bootstrapped, target, procs, commitVars, version, envVars, owed>>

ScheduleInit ==
  /\ state = "Init"
  /\ state' = "WaitHandshake"
  /\ SchedulePost("SendClientHello")
  /\ UNCHANGED isReload

ScheduleHelloRetry ==
  /\ state = "WaitHandshake"
  /\ SchedulePost("SendClientHello")
  /\ UNCHANGED <<state, isReload>>

\* Fault: the timeout leaves the reload open.
ScheduleReloadTimeoutLeavesOpen ==
  /\ state = "Reconcile"
  /\ isReload
  /\ SchedulePost("BootstrapReloadFailed")
  /\ UNCHANGED <<state, isReload>>

\* Fault: the timeout runs only once the fleet has been started.
ScheduleReloadTimeoutOnceBootstrapped ==
  /\ state = "Reconcile"
  /\ isReload /\ bootstrapped
  /\ isReload' = FALSE
  /\ SchedulePost("BootstrapReloadFailed")
  /\ UNCHANGED state

ScheduleReloadTimeout ==
  /\ state = "Reconcile"
  /\ isReload
  /\ isReload' = FALSE
  /\ SchedulePost("BootstrapReloadFailed")
  /\ UNCHANGED state

ScheduleSync ==
  /\ state = "Reconcile"
  /\ SchedulePost("SendSyncRequest")
  /\ UNCHANGED <<state, isReload>>

\* No interval has elapsed.
ScheduleNothing ==
  /\ phase = "schedule"
  /\ state \in {"WaitHandshake", "Reconcile"}
  /\ phase' = "execute"
  /\ tx' = <<>>
  /\ UNCHANGED <<eventQ, actionQ, bootVars, commitVars, version, envVars, owed>>

\* execute() takes an event whenever there is one, an action otherwise.
TakeEvent(type) ==
  /\ phase = "execute"
  /\ eventQ # <<>>
  /\ Head(eventQ).type = type
  /\ eventQ' = Tail(eventQ)
  /\ UNCHANGED <<phase, version, envVars, owed>>

TakeAction(type) ==
  /\ phase = "execute"
  /\ eventQ = <<>>
  /\ actionQ # <<>>
  /\ Head(actionQ) = type
  /\ UNCHANGED <<phase, envVars>>

ExecuteDone ==
  /\ phase = "execute"
  /\ eventQ = <<>>
  /\ actionQ = <<>>
  /\ phase' = "poll"
  /\ tx' = <<>>
  /\ UNCHANGED <<eventQ, actionQ, bootVars, commitVars, version, envVars, owed>>

(***************************************************************************)
(* BootstrapService::handleEvent                                           *)
(***************************************************************************)
PostAction(type) ==
  /\ actionQ' = Append(actionQ, type)
  /\ tx' = <<>>

OnSend(event, action) ==
  /\ TakeEvent(event)
  /\ PostAction(action)
  /\ UNCHANGED <<bootVars, commitVars>>

OnSendClientHello == OnSend("SendClientHello", "SendClientHello")

OnSendSyncRequest == OnSend("SendSyncRequest", "SendSyncRequest")

\* Fault: the ReloadFailed event is not handled.
OnReloadFailedUnhandled ==
  /\ TakeEvent("BootstrapReloadFailed")
  /\ tx' = <<>>
  /\ UNCHANGED <<actionQ, bootVars, commitVars>>

OnReloadFailed == OnSend("BootstrapReloadFailed", "SendReloadFailed")

OnServerHello ==
  /\ TakeEvent("ReceiveServerHello")
  /\ IF state = "WaitHandshake"
     THEN /\ state' = "Reconcile"
          /\ PostAction("SendSyncRequest")
     ELSE /\ tx' = <<>>
          /\ UNCHANGED <<state, actionQ>>
  /\ UNCHANGED <<isReload, bootstrapped, target, procs, commitVars>>

\* A report that does not parse changes nothing; a converged fleet with a
\* daemon that has not been started yet asks for a RuntimeStart.
OnSyncResponse ==
  /\ TakeEvent("ReceiveSyncResponse")
  /\ procs' = IF state = "Reconcile" /\ Head(eventQ).valid
              THEN UpdateProcessMap(Head(eventQ).report)
              ELSE procs
  /\ IF /\ state = "Reconcile"
        /\ Head(eventQ).valid
        /\ IsAllProcessReady(procs')
        /\ AnyUnblessed(procs')
     THEN PostAction("SendRuntimeStart")
     ELSE tx' = <<>> /\ UNCHANGED actionQ
  /\ UNCHANGED <<state, isReload, bootstrapped, target, commitVars>>

(***************************************************************************)
(* BootstrapService::handleAction                                          *)
(***************************************************************************)
SendClientHello ==
  /\ TakeAction("SendClientHello")
  /\ actionQ' = Tail(actionQ)
  /\ tx' = IF state = "WaitHandshake" THEN <<[cmd |-> "ClientHello"]>> ELSE <<>>
  /\ UNCHANGED <<eventQ, bootVars, commitVars, version, owed>>

SendSyncRequest ==
  /\ TakeAction("SendSyncRequest")
  /\ actionQ' = Tail(actionQ)
  /\ tx' = IF state = "Reconcile" THEN <<[cmd |-> "SyncRequest"]>> ELSE <<>>
  /\ UNCHANGED <<eventQ, bootVars, commitVars, version, owed>>

Bless(p) == IF IsProcessReady(p) THEN [p EXCEPT !.blessed = p.generation] ELSE p

\* Fault: every RuntimeStart reports a finished commit.
SendRuntimeStartAlwaysAnswers ==
  /\ TakeAction("SendRuntimeStart")
  /\ actionQ' = Tail(actionQ)
  /\ procs' = [d \in Daemons |-> Bless(procs[d])]
  /\ bootstrapped' = TRUE
  /\ isReload' = FALSE
  /\ tx' = <<[cmd |-> "RuntimeStart", target |-> target],
             SettingsCommitResponse(TRUE, target)>>
  /\ eventQ' = Append(eventQ, [type |-> "CommitReloadComplete"])
  /\ owed' = FALSE
  /\ UNCHANGED <<state, target, commitVars, version>>

SendRuntimeStart ==
  /\ TakeAction("SendRuntimeStart")
  /\ actionQ' = Tail(actionQ)
  /\ procs' = [d \in Daemons |-> Bless(procs[d])]
  /\ bootstrapped' = TRUE
  /\ IF isReload
     THEN /\ isReload' = FALSE
          /\ tx' = <<[cmd |-> "RuntimeStart", target |-> target],
                     SettingsCommitResponse(TRUE, target)>>
          /\ eventQ' = Append(eventQ, [type |-> "CommitReloadComplete"])
          /\ owed' = FALSE
     ELSE /\ tx' = <<[cmd |-> "RuntimeStart", target |-> target]>>
          /\ UNCHANGED <<isReload, eventQ, owed>>
  /\ UNCHANGED <<state, target, commitVars, version>>

SendReloadFailed ==
  /\ TakeAction("SendReloadFailed")
  /\ actionQ' = Tail(actionQ)
  /\ tx' = <<SettingsCommitResponse(FALSE, target)>>
  /\ eventQ' = Append(eventQ, [type |-> "CommitReloadFailed"])
  /\ owed' = FALSE
  /\ UNCHANGED <<bootVars, commitVars, version>>

(***************************************************************************)
(* CommitService::handleEvent                                              *)
(***************************************************************************)
\* Fault: a commit starts at once, whether or not another one is running.
OnSettingsCommitEager ==
  /\ TakeEvent("ReceiveSettingsCommit")
  /\ UNCHANGED bootVars
  /\ nextId' = nextId + 1
  /\ LET q == Append(queue, [id |-> nextId, payload |-> Head(eventQ).payload,
                             status |-> "Pending"])
     IN StartNext(q, actionQ, <<QueueStatus(q)>>)

OnSettingsCommit ==
  /\ TakeEvent("ReceiveSettingsCommit")
  /\ UNCHANGED bootVars
  /\ IF Head(eventQ).payload = "empty"
     THEN /\ tx' = <<>>
          /\ UNCHANGED <<actionQ, commitVars>>
     ELSE /\ nextId' = nextId + 1
          /\ LET q == Append(queue, [id |-> nextId, payload |-> Head(eventQ).payload,
                                     status |-> "Pending"])
             IN IF Has(q, "Running")
                THEN /\ queue' = q
                     /\ tx' = <<QueueStatus(q)>>
                     /\ UNCHANGED actionQ
                ELSE StartNext(q, actionQ, <<QueueStatus(q)>>)

\* Fault: a finished reload does not start the next task.
TrimOnly(q) ==
  \E n \in 0 .. Len(q) :
    /\ IsTrimmed(q, n)
    /\ queue' = SubSeq(q, n + 1, Len(q))
    /\ tx' = <<QueueStatus(SubSeq(q, n + 1, Len(q)))>>
    /\ UNCHANGED actionQ

TrimAndStart(q) ==
  \E n \in 0 .. Len(q) :
    /\ IsTrimmed(q, n)
    /\ LET kept == SubSeq(q, n + 1, Len(q))
       IN StartNext(kept, actionQ, <<QueueStatus(kept)>>)

\* The first Running task takes its outcome, the queue is trimmed from the
\* front, and the next task starts.
FinishTask(event, outcome) ==
  /\ TakeEvent(event)
  /\ IF Has(queue, "Running")
     THEN \E i \in DOMAIN queue :
            IsFirst(queue, "Running", i) /\ TrimAndStart(SetStatus(queue, i, outcome))
     ELSE TrimAndStart(queue)
  /\ UNCHANGED <<bootVars, nextId>>

OnReloadCompleteEvent == FinishTask("CommitReloadComplete", "Done")
OnReloadFailedEvent   == FinishTask("CommitReloadFailed", "Failed")

(***************************************************************************)
(* CommitService::handleAction                                             *)
(***************************************************************************)
\* A payload that stages no change, or commitConfig returning false, which it
\* also does when the server committed and its answer was lost.
ApplyFails(i) ==
  /\ \/ queue[i].payload # "good" /\ UNCHANGED version
     \/ queue[i].payload = "good" /\ StoreCanFail /\ version' \in {version, version + 1}
  /\ LET q == SetStatus(queue, i, "Failed")
     IN StartNext(q, Tail(actionQ), <<QueueStatus(q)>>)
  /\ UNCHANGED <<bootVars, owed>>

\* commitConfig supersedes the active row and inserts MAX(version) + 1 as
\* active; the fan-out follows, and scheduleServiceReload reads the version
\* back, 0 when that read fails.
ApplySucceeds(i) ==
  /\ queue[i].payload = "good"
  /\ actionQ' = Tail(actionQ)
  /\ version' = version + 1
  /\ tx' = ConfigApplyFanOut
  /\ target' \in RunningConfigVersion(version + 1)
  /\ isReload' = TRUE
  /\ owed' = TRUE
  /\ UNCHANGED <<state, bootstrapped, procs, queue>>

\* The first Running task is applied; without one the action does nothing.
ApplyCommit ==
  /\ TakeAction("ApplyCommit")
  /\ IF Has(queue, "Running")
     THEN \E i \in DOMAIN queue :
            IsFirst(queue, "Running", i) /\ (ApplyFails(i) \/ ApplySucceeds(i))
     ELSE /\ actionQ' = Tail(actionQ)
          /\ tx' = <<>>
          /\ UNCHANGED <<bootVars, queue, version, owed>>
  /\ UNCHANGED <<eventQ, nextId>>

(***************************************************************************)
(* Specification                                                           *)
(***************************************************************************)
Schedule ==
  \/ ScheduleInit
  \/ ScheduleHelloRetry
  \/ ScheduleReloadTimeout
  \/ ScheduleSync
  \/ ScheduleNothing

ExecuteEvent ==
  \/ OnSendClientHello
  \/ OnSendSyncRequest
  \/ OnReloadFailed
  \/ OnServerHello
  \/ OnSyncResponse
  \/ OnSettingsCommit
  \/ OnReloadCompleteEvent
  \/ OnReloadFailedEvent

ExecuteAction ==
  \/ SendClientHello
  \/ SendSyncRequest
  \/ SendRuntimeStart
  \/ SendReloadFailed
  \/ ApplyCommit

Tick == Poll \/ Schedule \/ ExecuteEvent \/ ExecuteAction \/ ExecuteDone

Next == Environment \/ Tick \/ Restart

Spec == Init /\ [][Next]_vars

\* The loop never stops: every step of the tick is weakly fair.  The reload
\* timer is compared at every schedule, so a reload that stays open is
\* abandoned.  ipcd answers a ClientHello that is retried for ever.  Nothing
\* else of the environment is fair, and neither are restarts.
FairSpec ==
  /\ Spec
  /\ WF_vars(Tick)
  /\ SF_vars(ScheduleReloadTimeout)
  /\ SF_vars(state = "WaitHandshake" /\ DeliverServerHello)

(***************************************************************************)
(* Properties                                                              *)
(***************************************************************************)
\* Every variable keeps its type; the event and action queues only ever hold
\* what the dispatchers know.
TypeOK ==
  /\ phase \in {"poll", "schedule", "execute"}
  /\ eventQ \in Seq(Event)
  /\ actionQ \in Seq(Action)
  /\ state \in {"Init", "WaitHandshake", "Reconcile"}
  /\ isReload \in BOOLEAN
  /\ bootstrapped \in BOOLEAN
  /\ target \in Nat
  /\ procs \in [Daemons -> ProcessState]
  /\ queue \in Seq(Task)
  /\ nextId \in Nat
  /\ version \in Nat
  /\ rx \in Seq(RxMsg)
  /\ requests \in Nat
  /\ owed \in BOOLEAN

\* Positions of the events, and of the actions, of the given types.
EventsAt(es, types) == {i \in DOMAIN es : es[i].type \in types}
ActionsAt(acts, types) == {i \in DOMAIN acts : acts[i] \in types}

\* Queued work that will finish the Running task.
EventDrivers  == {"BootstrapReloadFailed", "CommitReloadComplete", "CommitReloadFailed"}
ActionDrivers == {"ApplyCommit", "SendReloadFailed"}

\* CommitService marks "the first Running task" from events that carry no
\* task id, so a commit is finished correctly only if exactly one thing in
\* the process is going to finish it: the open reload, one queued event or
\* one queued action.  No Running task is orphaned and none has two drivers.
OneDriver ==
  LET evs  == EventsAt(eventQ, EventDrivers)
      acts == ActionsAt(actionQ, ActionDrivers)
  IN /\ \A i, j \in evs : i = j
     /\ \A i, j \in acts : i = j
     /\ evs # {} => ~isReload /\ acts = {}
     /\ acts # {} => ~isReload
     /\ Has(queue, "Running") <=> isReload \/ evs # {} \/ acts # {}

\* Behind a Pending or Running task everything is still Pending.
InOrder(q, n) ==
  /\ \A i \in DOMAIN q : q[i].id < n
  /\ \A i, j \in DOMAIN q : i < j =>
       /\ q[i].id < q[j].id
       /\ q[i].status \in {"Pending", "Running"} => q[j].status = "Pending"

\* Commits run one at a time and in arrival order: ids increase along the
\* queue and nothing overtakes a Pending or Running task.
QueueInOrder == InOrder(queue, nextId)

\* A commit never waits in a queue that nothing is working on.
NoStall == Has(queue, "Pending") => Has(queue, "Running")

\* The answer mgmtd waits for is neither lost nor sent twice inside engined:
\* a reload is unanswered exactly while the open reload, the timeout event or
\* the failure action that will answer it exists.
AnswerPending ==
  owed <=> \/ isReload
           \/ EventsAt(eventQ, {"BootstrapReloadFailed"}) # {}
           \/ ActionsAt(actionQ, {"SendReloadFailed"}) # {}

Answers(msgs) == {i \in DOMAIN msgs : msgs[i].cmd = "SettingsCommitResponse"}

\* Between ticks both queues are drained, and no action waits while the tick
\* schedules: the loop of execute() empties them.  With it the properties
\* above are inductive.
LoopDrained ==
  /\ phase # "execute" => actionQ = <<>>
  /\ phase = "poll" => eventQ = <<>>

Inv ==
  /\ TypeOK
  /\ LoopDrained
  /\ OneDriver
  /\ QueueInOrder
  /\ NoStall
  /\ AnswerPending

\* A SettingsCommitResponse answers an open reload, and closes it.
AnswerOnce == [][Answers(tx') # {} => owed /\ ~owed']_vars

\* "A commit mints a new version": a commit that waits its turn stays in the
\* queue until it runs, unless engined itself restarts.
PendingIsKept ==
  [][\A i \in DOMAIN queue :
       queue[i].status = "Pending" /\ nextId' >= nextId
         => \E j \in DOMAIN queue' : queue'[j].id = queue[i].id]_vars

\* A running commit is eventually finished, whatever the fleet reports.
RunningFinishes ==
  \A n \in 1 .. MaxRequests :
    (\E i \in DOMAIN queue : queue[i].id = n /\ queue[i].status = "Running")
      ~> ~(\E i \in DOMAIN queue : queue[i].id = n /\ queue[i].status = "Running")

=============================================================================
