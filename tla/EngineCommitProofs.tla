------------------------- MODULE EngineCommitProofs -------------------------
(***************************************************************************)
(* TLAPS proofs about engined's commit pipeline, for every set of service  *)
(* daemons, queue limit and number of commits, and whatever the fleet      *)
(* delivers: the properties of EngineCommit hold because Inv is inductive. *)
(***************************************************************************)
EXTENDS EngineCommit, SequenceTheorems, TLAPS

(***************************************************************************)
(* Positions of events and actions in their queues                         *)
(***************************************************************************)
\* Appending an event adds its position exactly when its type is looked for.
LEMMA AppendEvent ==
  ASSUME NEW es \in Seq(Event), NEW e \in Event, NEW types
  PROVE  /\ e.type \notin types => EventsAt(Append(es, e), types) = EventsAt(es, types)
         /\ e.type \in types =>
              EventsAt(Append(es, e), types) = EventsAt(es, types) \cup {Len(es) + 1}
BY DEF EventsAt

\* The same for an action.
LEMMA AppendAction ==
  ASSUME NEW acts \in Seq(Action), NEW a \in Action, NEW types
  PROVE  /\ a \notin types => ActionsAt(Append(acts, a), types) = ActionsAt(acts, types)
         /\ a \in types =>
              ActionsAt(Append(acts, a), types) = ActionsAt(acts, types) \cup {Len(acts) + 1}
BY DEF ActionsAt

\* Taking the head of the event queue shifts the positions behind it by one.
LEMMA TailEvent ==
  ASSUME NEW es \in Seq(Event), es # <<>>, NEW types
  PROVE  /\ Tail(es) \in Seq(Event)
         /\ Head(es) \in Event
         /\ \A i : i \in EventsAt(Tail(es), types) =>
              i \in Nat \ {0} /\ i + 1 \in EventsAt(es, types)
         /\ \A i \in EventsAt(es, types) : i # 1 => i - 1 \in EventsAt(Tail(es), types)
         /\ 1 \in EventsAt(es, types) <=> Head(es).type \in types
BY DEF EventsAt

\* The same for the action queue.
LEMMA TailAction ==
  ASSUME NEW acts \in Seq(Action), acts # <<>>, NEW types
  PROVE  /\ Tail(acts) \in Seq(Action)
         /\ Head(acts) \in Action
         /\ \A i : i \in ActionsAt(Tail(acts), types) =>
              i \in Nat \ {0} /\ i + 1 \in ActionsAt(acts, types)
         /\ \A i \in ActionsAt(acts, types) : i # 1 => i - 1 \in ActionsAt(Tail(acts), types)
         /\ 1 \in ActionsAt(acts, types) <=> Head(acts) \in types
BY DEF ActionsAt

\* Removing a head of another type keeps "none" and "at most one"; removing
\* the only match leaves none.
LEMMA TakeOtherEvent ==
  ASSUME NEW es \in Seq(Event), es # <<>>, NEW types, Head(es).type \notin types
  PROVE  /\ EventsAt(Tail(es), types) = {} <=> EventsAt(es, types) = {}
         /\ (\A i, j \in EventsAt(es, types) : i = j)
              => \A i, j \in EventsAt(Tail(es), types) : i = j
<1>1. \A i \in EventsAt(Tail(es), types) : i \in Nat /\ i + 1 \in EventsAt(es, types)
  BY TailEvent
<1>2. \A i \in EventsAt(es, types) : i # 1 /\ i - 1 \in EventsAt(Tail(es), types)
  BY TailEvent
<1> QED BY <1>1, <1>2

\* Taking the only event of the given types leaves none.
LEMMA TakeOnlyEvent ==
  ASSUME NEW es \in Seq(Event), es # <<>>, NEW types, Head(es).type \in types,
         \A i, j \in EventsAt(es, types) : i = j
  PROVE  EventsAt(Tail(es), types) = {}
<1>1. \A i \in EventsAt(Tail(es), types) : i \in Nat \ {0} /\ i + 1 \in EventsAt(es, types)
  BY TailEvent
<1>2. 1 \in EventsAt(es, types)
  BY TailEvent
<1> QED BY <1>1, <1>2

\* Taking an action of another type moves the matching positions by one.
LEMMA TakeOtherAction ==
  ASSUME NEW acts \in Seq(Action), acts # <<>>, NEW types, Head(acts) \notin types
  PROVE  /\ ActionsAt(Tail(acts), types) = {} <=> ActionsAt(acts, types) = {}
         /\ (\A i, j \in ActionsAt(acts, types) : i = j)
              => \A i, j \in ActionsAt(Tail(acts), types) : i = j
<1>1. \A i \in ActionsAt(Tail(acts), types) : i \in Nat /\ i + 1 \in ActionsAt(acts, types)
  BY TailAction
<1>2. \A i \in ActionsAt(acts, types) : i # 1 /\ i - 1 \in ActionsAt(Tail(acts), types)
  BY TailAction
<1> QED BY <1>1, <1>2

\* Taking the only action of the given types leaves none.
LEMMA TakeOnlyAction ==
  ASSUME NEW acts \in Seq(Action), acts # <<>>, NEW types, Head(acts) \in types,
         \A i, j \in ActionsAt(acts, types) : i = j
  PROVE  ActionsAt(Tail(acts), types) = {}
<1>1. \A i \in ActionsAt(Tail(acts), types) : i \in Nat \ {0} /\ i + 1 \in ActionsAt(acts, types)
  BY TailAction
<1>2. 1 \in ActionsAt(acts, types)
  BY TailAction
<1> QED BY <1>1, <1>2

(***************************************************************************)
(* The commit queue                                                        *)
(***************************************************************************)
\* SetStatus changes one task's status and nothing else.
LEMMA SetStatusFacts ==
  ASSUME NEW q \in Seq(Task), NEW i \in DOMAIN q, NEW s \in Status
  PROVE  /\ SetStatus(q, i, s) \in Seq(Task)
         /\ DOMAIN SetStatus(q, i, s) = DOMAIN q
         /\ \A j \in DOMAIN q :
              /\ SetStatus(q, i, s)[j].id = q[j].id
              /\ SetStatus(q, i, s)[j].status = IF j = i THEN s ELSE q[j].status
<1>1. \A j \in DOMAIN q : q[j] \in Task
  OBVIOUS
<1>2. PICK t \in Task : t = [q[i] EXCEPT !.status = s]
  BY <1>1 DEF Task
<1>3. t.id = q[i].id /\ t.status = s
  BY <1>1, <1>2 DEF Task
<1>4. SetStatus(q, i, s) = [q EXCEPT ![i] = t]
  BY <1>2 DEF SetStatus
<1>5. DOMAIN [q EXCEPT ![i] = t] = DOMAIN q /\ [q EXCEPT ![i] = t] \in Seq(Task)
  BY <1>1
<1>6. \A j \in DOMAIN q : [q EXCEPT ![i] = t][j] = IF j = i THEN t ELSE q[j]
  OBVIOUS
<1> QED BY <1>3, <1>4, <1>5, <1>6

\* Two Running tasks never share an ordered queue.
LEMMA OneRunning ==
  ASSUME NEW q \in Seq(Task), NEW n, InOrder(q, n),
         NEW i \in DOMAIN q, NEW j \in DOMAIN q,
         q[i].status = "Running", q[j].status = "Running"
  PROVE  i = j
BY DEF InOrder

\* Finishing the Running task leaves an ordered queue with none Running.
LEMMA FinishRunning ==
  ASSUME NEW q \in Seq(Task), NEW n, InOrder(q, n), NEW i, IsFirst(q, "Running", i),
         NEW s \in {"Done", "Failed"}
  PROVE  /\ SetStatus(q, i, s) \in Seq(Task)
         /\ InOrder(SetStatus(q, i, s), n)
         /\ ~Has(SetStatus(q, i, s), "Running")
<1>1. i \in DOMAIN q /\ q[i].status = "Running"
  BY DEF IsFirst
<1>2. \A j \in DOMAIN q : q[j].status = "Running" => j = i
  BY <1>1, OneRunning
<1> DEFINE r == SetStatus(q, i, s)
<1>a. s \in Status
  BY DEF Status
<1>3. DOMAIN r = DOMAIN q /\ r \in Seq(Task)
  BY <1>1, <1>a, SetStatusFacts
<1>4. \A j \in DOMAIN q : r[j].id = q[j].id /\ r[j].status = IF j = i THEN s ELSE q[j].status
  BY <1>1, <1>a, SetStatusFacts
<1>5. InOrder(r, n)
  BY <1>1, <1>3, <1>4 DEF InOrder
<1>6. ~Has(r, "Running")
  BY <1>2, <1>3, <1>4 DEF Has
<1> QED BY <1>3, <1>5, <1>6

\* startNext, called with no task Running: the first Pending task, if there
\* is one, becomes the only Running one and exactly one ApplyCommit is posted.
LEMMA StartNextFacts ==
  ASSUME NEW q \in Seq(Task), NEW acts, NEW out, NEW n,
         InOrder(q, n), ~Has(q, "Running"), StartNext(q, acts, out)
  PROVE  /\ queue' \in Seq(Task)
         /\ InOrder(queue', n)
         /\ Has(queue', "Pending") => Has(queue', "Running")
         /\ \/ Has(queue', "Running") /\ actionQ' = Append(acts, "ApplyCommit")
            \/ ~Has(queue', "Running") /\ actionQ' = acts
<1>1. CASE ~Has(q, "Pending") /\ queue' = q /\ actionQ' = acts
  BY <1>1
<1>2. ASSUME NEW i \in DOMAIN q, IsFirst(q, "Pending", i),
             queue' = SetStatus(q, i, "Running"),
             actionQ' = Append(acts, "ApplyCommit")
      PROVE  /\ queue' \in Seq(Task)
             /\ InOrder(queue', n)
             /\ Has(queue', "Running")
  <2> DEFINE r == SetStatus(q, i, "Running")
  <2>1. DOMAIN r = DOMAIN q /\ r \in Seq(Task)
    BY SetStatusFacts DEF Status
  <2>2. \A j \in DOMAIN q :
          r[j].id = q[j].id /\ r[j].status = IF j = i THEN "Running" ELSE q[j].status
    BY SetStatusFacts DEF Status
  <2>3. \A j \in DOMAIN q : j < i => q[j].status \notin {"Pending", "Running"}
    BY <1>2 DEF IsFirst, Has
  <2>4. InOrder(r, n)
    BY <1>2, <2>1, <2>2, <2>3 DEF InOrder, IsFirst
  <2>5. Has(r, "Running")
    BY <2>1, <2>2 DEF Has
  <2> QED BY <1>2, <2>1, <2>4, <2>5
<1> QED BY <1>1, <1>2 DEF StartNext

\* The suffix the pop_front loop keeps is ordered and has none Running.
LEMMA KeptFacts ==
  ASSUME NEW q \in Seq(Task), NEW n, InOrder(q, n), ~Has(q, "Running"), NEW k \in 0 .. Len(q)
  PROVE  /\ SubSeq(q, k + 1, Len(q)) \in Seq(Task)
         /\ InOrder(SubSeq(q, k + 1, Len(q)), n)
         /\ ~Has(SubSeq(q, k + 1, Len(q)), "Running")
<1> DEFINE r == SubSeq(q, k + 1, Len(q))
<1>1. r \in Seq(Task) /\ DOMAIN r = 1 .. Len(q) - k
  OBVIOUS
<1>2. \A i \in 1 .. Len(q) - k : i + k \in DOMAIN q /\ r[i] = q[i + k]
  <2>1. \A i \in k + 1 .. Len(q) : q[i] \in Task
    OBVIOUS
  <2>2. \A i \in 1 .. Len(q) - (k + 1) + 1 : r[i] = q[k + 1 + i - 1]
    BY <2>1, SubSeqProperties
  <2> QED BY <2>2
<1> HIDE DEF r
<1>3. InOrder(r, n)
  <2>1. \A i \in DOMAIN q : q[i].id < n
    BY DEF InOrder
  <2>2. \A i \in DOMAIN r : r[i].id < n
    BY <1>1, <1>2, <2>1
  <2>3. \A i, j \in DOMAIN q : i < j =>
          /\ q[i].id < q[j].id
          /\ q[i].status \in {"Pending", "Running"} => q[j].status = "Pending"
    BY DEF InOrder
  <2>4. ASSUME NEW i \in DOMAIN r, NEW j \in DOMAIN r, i < j
        PROVE  /\ r[i].id < r[j].id
               /\ r[i].status \in {"Pending", "Running"} => r[j].status = "Pending"
    <3>1. i + k < j + k
      BY <1>1, <2>4
    <3> QED BY SMTT(30), <1>1, <1>2, <2>3, <3>1
  <2> QED BY <2>2, <2>4 DEF InOrder
<1>4. ~Has(r, "Running")
  BY <1>1, <1>2 DEF Has
<1> QED BY <1>1, <1>3, <1>4 DEF r

(***************************************************************************)
(* Type correctness                                                        *)
(***************************************************************************)
\* Types of the event an rx message becomes; none of them drives a commit.
LEMMA EventOfType ==
  ASSUME NEW msg \in RxMsg
  PROVE  EventOf(msg) \in Event /\ EventOf(msg).type \notin EventDrivers
<1>1. CASE msg \in [cmd : {"ServerHello"}]
  BY <1>1 DEF EventOf, Event, PlainEvents, EventDrivers
<1>2. CASE msg \in [cmd : {"SyncResponse"}, valid : BOOLEAN, report : Reports]
  BY <1>2 DEF EventOf, Event, EventDrivers
<1>3. CASE msg \in [cmd : {"SettingsCommitRequest"}, payload : Payloads]
  BY <1>3 DEF EventOf, Event, EventDrivers
<1> QED BY <1>1, <1>2, <1>3 DEF RxMsg

\* What Poll appends is a sequence of events.
LEMMA PolledType ==
  ASSUME NEW r \in Seq(RxMsg), NEW es, es = [i \in DOMAIN r |-> EventOf(r[i])]
  PROVE  es \in Seq(Event) /\ EventsAt(es, EventDrivers) = {}
<1>1. \A i \in 1 .. Len(r) : r[i] \in RxMsg
  OBVIOUS
<1>2. \A i \in 1 .. Len(r) :
        EventOf(r[i]) \in Event /\ EventOf(r[i]).type \notin EventDrivers
  BY <1>1, EventOfType
<1>3. es = [i \in 1 .. Len(r) |-> EventOf(r[i])]
  OBVIOUS
<1>4. es \in Seq(Event)
  BY <1>2, <1>3
<1>5. EventsAt(es, EventDrivers) = {}
  BY <1>2, <1>3 DEF EventsAt
<1> QED BY <1>4, <1>5

\* Posting an event (postEvent) keeps the type of the event queue.
LEMMA AppendEventType ==
  ASSUME NEW es \in Seq(Event), NEW type \in PlainEvents
  PROVE  Append(es, [type |-> type]) \in Seq(Event)
<1>1. [type |-> type] \in Event
  BY DEF Event
<1> QED BY <1>1

\* Posting an action (postAction) keeps the type of the action queue.
LEMMA AppendActionType ==
  ASSUME NEW acts \in Seq(Action), NEW a \in Action
  PROVE  Append(acts, a) \in Seq(Action)
OBVIOUS

\* startNext keeps the types of the task queue and of the action queue.
LEMMA StartNextType ==
  ASSUME NEW q \in Seq(Task), NEW acts \in Seq(Action), NEW out, StartNext(q, acts, out)
  PROVE  queue' \in Seq(Task) /\ actionQ' \in Seq(Action)
<1>1. Append(acts, "ApplyCommit") \in Seq(Action)
  BY AppendActionType DEF Action
<1>2. \A i \in DOMAIN q : SetStatus(q, i, "Running") \in Seq(Task)
  BY SetStatusFacts DEF Status
<1>3. \/ queue' = q /\ actionQ' = acts
      \/ \E i \in DOMAIN q : /\ queue' = SetStatus(q, i, "Running")
                             /\ actionQ' = Append(acts, "ApplyCommit")
  BY Zenon DEF StartNext
<1> QED BY <1>1, <1>2, <1>3

\* So does a finished reload, which trims and then starts the next task.
LEMMA TrimAndStartType ==
  ASSUME NEW q \in Seq(Task), TrimAndStart(q), actionQ \in Seq(Action)
  PROVE  queue' \in Seq(Task) /\ actionQ' \in Seq(Action)
<1>1. PICK n \in 0 .. Len(q) :
        StartNext(SubSeq(q, n + 1, Len(q)), actionQ, <<QueueStatus(SubSeq(q, n + 1, Len(q)))>>)
  BY DEF TrimAndStart
<1>2. SubSeq(q, n + 1, Len(q)) \in Seq(Task)
  OBVIOUS
<1> QED BY <1>1, <1>2, StartNextType

\* The processes' entries keep their type whatever a report says.
LEMMA UpdateProcessMapType ==
  ASSUME NEW report \in Reports, procs \in [Daemons -> ProcessState]
  PROVE  UpdateProcessMap(report) \in [Daemons -> ProcessState]
<1>1. \A d \in Daemons : report[d] \in Report /\ procs[d] \in ProcessState
  BY DEF Reports
<1>2. ASSUME NEW d \in Daemons
      PROVE  /\ [procs[d] EXCEPT !.connected = TRUE, !.applied = report[d].applied,
                                 !.generation = report[d].generation] \in ProcessState
             /\ [procs[d] EXCEPT !.connected = FALSE, !.applied = 0] \in ProcessState
  BY <1>1 DEF Report, ProcessState
<1> QED BY <1>2 DEF UpdateProcessMap

\* A fresh process has the types.
LEMMA TypeInit == Init => TypeOK
<1> SUFFICES ASSUME Init PROVE TypeOK
  OBVIOUS
<1>1. target \in Nat
  BY DEF Init, RunningConfigVersion
<1>2. procs \in [Daemons -> ProcessState]
  BY DEF Init, ColdProcs, ProcessState
<1>3. /\ eventQ \in Seq(Event) /\ actionQ \in Seq(Action)
      /\ queue \in Seq(Task) /\ rx \in Seq(RxMsg)
  BY DEF Init
<1>4. nextId \in Nat /\ version \in Nat /\ requests \in Nat
  BY DEF Init
<1>5. isReload \in BOOLEAN /\ bootstrapped \in BOOLEAN /\ owed \in BOOLEAN
  BY DEF Init
<1>6. phase = "poll" /\ state = "Init"
  BY DEF Init
<1> QED BY <1>1, <1>2, <1>3, <1>4, <1>5, <1>6 DEF TypeOK

\* Every step of the process or of its environment preserves the types.
LEMMA TypeNext == TypeOK /\ [Next]_vars => TypeOK'
<1> SUFFICES ASSUME TypeOK, [Next]_vars PROVE TypeOK'
  OBVIOUS
<1> USE DEF bootVars, commitVars, envVars
<1>1. CASE UNCHANGED vars
  BY <1>1 DEF vars, TypeOK
<1>2. ASSUME NEW msg \in RxMsg, Deliver(msg), requests' \in Nat PROVE TypeOK'
  BY <1>2 DEF Deliver, TypeOK
<1>3. CASE DeliverServerHello
  BY <1>2, <1>3 DEF DeliverServerHello, RxMsg, TypeOK
<1>4. CASE DeliverSyncResponse
  <2>1. PICK valid \in BOOLEAN, report \in [Daemons -> {Unlisted} \cup
               [listed : {TRUE}, applied : 0 .. version, generation : 1 .. MaxGeneration]] :
             Deliver([cmd |-> "SyncResponse", valid |-> valid, report |-> report])
    BY <1>4 DEF DeliverSyncResponse
  <2>2. Unlisted \in Report
    BY DEF Report, Unlisted
  <2>6. [listed : {TRUE}, applied : 0 .. version, generation : 1 .. MaxGeneration]
          \subseteq Report
    <3>1. 0 .. version \subseteq Nat /\ 1 .. MaxGeneration \subseteq Nat
      BY EngineAssumption DEF TypeOK
    <3> QED BY <3>1 DEF Report
  <2>3. report \in Reports
    BY <2>2, <2>6 DEF Reports
  <2>4. [cmd |-> "SyncResponse", valid |-> valid, report |-> report] \in RxMsg
    BY <2>3 DEF RxMsg
  <2>5. requests' \in Nat
    BY <1>4 DEF DeliverSyncResponse, TypeOK
  <2> QED BY <1>2, <2>1, <2>4, <2>5
<1>5. ASSUME NEW payload \in Payloads, DeliverSettingsCommit(payload) PROVE TypeOK'
  <2>1. [cmd |-> "SettingsCommitRequest", payload |-> payload] \in RxMsg
    BY DEF RxMsg
  <2>2. requests' \in Nat
    BY <1>5 DEF DeliverSettingsCommit, TypeOK
  <2> QED BY <1>2, <1>5, <2>1, <2>2 DEF DeliverSettingsCommit
<1>6. CASE Restart
  <2>1. target' \in Nat
    BY <1>6 DEF Restart, RunningConfigVersion, TypeOK
  <2>2. procs' \in [Daemons -> ProcessState]
    BY <1>6 DEF Restart, ColdProcs, ProcessState
  <2>3. /\ eventQ' \in Seq(Event) /\ actionQ' \in Seq(Action)
        /\ queue' \in Seq(Task) /\ rx' \in Seq(RxMsg)
    BY <1>6 DEF Restart
  <2>4. nextId' \in Nat /\ version' \in Nat /\ requests' \in Nat
    BY <1>6 DEF Restart, TypeOK
  <2>5. isReload' \in BOOLEAN /\ bootstrapped' \in BOOLEAN /\ owed' \in BOOLEAN
    BY <1>6 DEF Restart
  <2>6. phase' = "poll" /\ state' = "Init"
    BY <1>6 DEF Restart
  <2> QED BY <2>1, <2>2, <2>3, <2>4, <2>5, <2>6 DEF TypeOK
<1>7. CASE Poll
  <2>1. [i \in DOMAIN rx |-> EventOf(rx[i])] \in Seq(Event)
    BY PolledType DEF TypeOK
  <2>2. eventQ' \in Seq(Event)
    BY <1>7, <2>1 DEF Poll, TypeOK
  <2>3. rx' \in Seq(RxMsg) /\ phase' = "schedule"
    BY <1>7 DEF Poll
  <2> QED BY <1>7, <2>2, <2>3 DEF Poll, TypeOK
<1>8. ASSUME NEW type \in PlainEvents, SchedulePost(type),
             state' \in {"Init", "WaitHandshake", "Reconcile"}, isReload' \in BOOLEAN
      PROVE  TypeOK'
  BY <1>8 DEF SchedulePost, TypeOK, Event
<1>9. CASE Schedule
  <2>1. CASE ScheduleInit
    BY <1>8, <2>1 DEF ScheduleInit, PlainEvents, TypeOK
  <2>2. CASE ScheduleHelloRetry
    BY <1>8, <2>2 DEF ScheduleHelloRetry, PlainEvents, TypeOK
  <2>3. CASE ScheduleReloadTimeout
    BY <1>8, <2>3 DEF ScheduleReloadTimeout, PlainEvents, TypeOK
  <2>4. CASE ScheduleSync
    BY <1>8, <2>4 DEF ScheduleSync, PlainEvents, TypeOK
  <2>5. CASE ScheduleNothing
    BY <2>5 DEF ScheduleNothing, TypeOK
  <2> QED BY <1>9, <2>1, <2>2, <2>3, <2>4, <2>5 DEF Schedule
<1>10. ASSUME NEW type, TakeEvent(type)
       PROVE  /\ eventQ' \in Seq(Event)
              /\ Head(eventQ) \in Event
              /\ Head(eventQ).type = type
  BY <1>10 DEF TakeEvent, TypeOK
<1>11. ASSUME NEW type, NEW action \in Action, OnSend(type, action) PROVE TypeOK'
  BY <1>10, <1>11 DEF OnSend, TakeEvent, PostAction, TypeOK
<1>12. CASE OnServerHello
  <2>1. Append(actionQ, "SendSyncRequest") \in Seq(Action)
    BY AppendActionType DEF Action, TypeOK
  <2> QED BY <1>10, <1>12, <2>1 DEF OnServerHello, TakeEvent, PostAction, TypeOK
<1>13. CASE OnSyncResponse
  <2>1. Append(actionQ, "SendRuntimeStart") \in Seq(Action)
    BY AppendActionType DEF Action, TypeOK
  <2>2. Head(eventQ).report \in Reports
    BY <1>10, <1>13 DEF OnSyncResponse, Event, PlainEvents
  <2>3. procs' \in [Daemons -> ProcessState]
    BY <1>13, <2>2, UpdateProcessMapType DEF OnSyncResponse, TypeOK
  <2>4. actionQ' \in Seq(Action)
    BY <1>13, <2>1 DEF OnSyncResponse, PostAction, TypeOK
  <2>5. eventQ' \in Seq(Event)
    BY <1>10, <1>13 DEF OnSyncResponse
  <2>6. UNCHANGED <<phase, version, envVars, owed, state, isReload, bootstrapped, target, commitVars>>
    BY <1>13 DEF OnSyncResponse, TakeEvent
  <2> QED BY <2>3, <2>4, <2>5, <2>6 DEF TypeOK
<1>14. CASE OnSettingsCommit
  <2> DEFINE task == [id |-> nextId, payload |-> Head(eventQ).payload, status |-> "Pending"]
             q == Append(queue, task)
  <2>1. Head(eventQ).payload \in Payloads
    BY <1>10, <1>14 DEF OnSettingsCommit, Event, PlainEvents
  <2>2. q \in Seq(Task)
    BY <2>1 DEF Task, Status, TypeOK
  <2>3. \/ UNCHANGED <<actionQ, queue, nextId>>
        \/ nextId' = nextId + 1 /\ queue' = q /\ UNCHANGED actionQ
        \/ nextId' = nextId + 1 /\ StartNext(q, actionQ, <<QueueStatus(q)>>)
    BY <1>14, Zenon DEF OnSettingsCommit
  <2>4. queue' \in Seq(Task) /\ actionQ' \in Seq(Action) /\ nextId' \in Nat
    <3> HIDE DEF q
    <3> QED BY <2>2, <2>3, StartNextType DEF TypeOK
  <2>5. eventQ' \in Seq(Event)
    BY <1>10, <1>14 DEF OnSettingsCommit
  <2>6. UNCHANGED <<phase, version, envVars, owed, bootVars>>
    BY <1>14 DEF OnSettingsCommit, TakeEvent
  <2> QED BY <2>4, <2>5, <2>6 DEF TypeOK
<1>15. ASSUME NEW type, NEW outcome \in Status, FinishTask(type, outcome) PROVE TypeOK'
  <2>1. \A i \in DOMAIN queue : SetStatus(queue, i, outcome) \in Seq(Task)
    BY SetStatusFacts DEF TypeOK
  <2>2. \/ TrimAndStart(queue)
        \/ \E i \in DOMAIN queue : TrimAndStart(SetStatus(queue, i, outcome))
    BY <1>15, Zenon DEF FinishTask
  <2>3. queue' \in Seq(Task) /\ actionQ' \in Seq(Action)
    BY <2>1, <2>2, TrimAndStartType DEF TypeOK
  <2>4. eventQ' \in Seq(Event)
    BY <1>10, <1>15 DEF FinishTask
  <2>5. UNCHANGED <<phase, version, envVars, owed, bootVars, nextId>>
    BY <1>15 DEF FinishTask, TakeEvent
  <2> QED BY <2>3, <2>4, <2>5 DEF TypeOK
<1>16. CASE SendClientHello
  BY <1>16 DEF SendClientHello, TakeAction, TypeOK
<1>17. CASE SendSyncRequest
  BY <1>17 DEF SendSyncRequest, TakeAction, TypeOK
<1>18. CASE SendRuntimeStart
  <2>1. \A d \in Daemons : Bless(procs[d]) \in ProcessState
    BY DEF Bless, ProcessState, TypeOK
  <2>2. procs' \in [Daemons -> ProcessState]
    BY <1>18, <2>1 DEF SendRuntimeStart
  <2>3. Append(eventQ, [type |-> "CommitReloadComplete"]) \in Seq(Event)
    BY AppendEventType DEF PlainEvents, TypeOK
  <2>7. Tail(actionQ) \in Seq(Action)
    BY <1>18 DEF SendRuntimeStart, TakeAction, TypeOK
  <2>4. eventQ' \in Seq(Event) /\ actionQ' \in Seq(Action)
    BY <1>18, <2>3, <2>7 DEF SendRuntimeStart, TypeOK
  <2>5. isReload' \in BOOLEAN /\ owed' \in BOOLEAN /\ bootstrapped' \in BOOLEAN
    BY <1>18 DEF SendRuntimeStart, TypeOK
  <2>6. UNCHANGED <<phase, envVars, state, target, commitVars, version>>
    BY <1>18 DEF SendRuntimeStart, TakeAction
  <2> QED BY <2>2, <2>4, <2>5, <2>6 DEF TypeOK
<1>19. CASE SendReloadFailed
  <2>1. Append(eventQ, [type |-> "CommitReloadFailed"]) \in Seq(Event)
    BY AppendEventType DEF PlainEvents, TypeOK
  <2>2. Tail(actionQ) \in Seq(Action)
    BY <1>19 DEF SendReloadFailed, TakeAction, TypeOK
  <2> QED BY <1>19, <2>1, <2>2 DEF SendReloadFailed, TakeAction, TypeOK
<1>20. CASE ApplyCommit
  <2>1. Tail(actionQ) \in Seq(Action)
    BY <1>20 DEF ApplyCommit, TakeAction, TypeOK
  <2>2. ASSUME NEW i \in DOMAIN queue, ApplyFails(i)
        PROVE  /\ queue' \in Seq(Task) /\ actionQ' \in Seq(Action)
               /\ version' \in Nat
               /\ UNCHANGED <<bootVars, owed>>
    <3>1. SetStatus(queue, i, "Failed") \in Seq(Task)
      BY SetStatusFacts DEF TypeOK, Status
    <3>2. StartNext(SetStatus(queue, i, "Failed"), Tail(actionQ),
                    <<QueueStatus(SetStatus(queue, i, "Failed"))>>)
      BY <2>2, Zenon DEF ApplyFails
    <3>3. version' \in Nat
      BY <2>2 DEF ApplyFails, TypeOK
    <3>4. UNCHANGED <<bootVars, owed>>
      BY <2>2, Zenon DEF ApplyFails
    <3>5. queue' \in Seq(Task) /\ actionQ' \in Seq(Action)
      BY <2>1, <3>1, <3>2, StartNextType
    <3> QED BY <3>3, <3>4, <3>5
  <2>3. ASSUME NEW i \in DOMAIN queue, ApplySucceeds(i)
        PROVE  /\ actionQ' \in Seq(Action) /\ version' \in Nat /\ target' \in Nat
               /\ isReload' \in BOOLEAN /\ owed' \in BOOLEAN
               /\ UNCHANGED <<state, bootstrapped, procs, queue>>
    BY <2>1, <2>3 DEF ApplySucceeds, RunningConfigVersion, TypeOK
  <2>4. \/ \E i \in DOMAIN queue : ApplyFails(i) \/ ApplySucceeds(i)
        \/ actionQ' = Tail(actionQ) /\ UNCHANGED <<bootVars, queue, version, owed>>
    BY <1>20, Zenon DEF ApplyCommit
  <2>5. UNCHANGED <<phase, envVars, eventQ, nextId>>
    BY <1>20 DEF ApplyCommit, TakeAction
  <2> QED BY <2>1, <2>2, <2>3, <2>4, <2>5 DEF TypeOK
<1>21. CASE ExecuteDone
  BY <1>21 DEF ExecuteDone, TypeOK
<1>22. CASE ExecuteEvent
  BY <1>11, <1>12, <1>13, <1>14, <1>15, <1>22
     DEF ExecuteEvent, OnSendClientHello, OnSendSyncRequest, OnReloadFailed,
         OnReloadCompleteEvent, OnReloadFailedEvent, Action, Status
<1>23. CASE ExecuteAction
  BY <1>16, <1>17, <1>18, <1>19, <1>20, <1>23 DEF ExecuteAction
<1> QED
  BY <1>1, <1>3, <1>4, <1>5, <1>6, <1>7, <1>9, <1>21, <1>22, <1>23
     DEF Next, Environment, Tick

\* TypeOK holds in every behaviour, whatever the environment delivers.
THEOREM TypeCorrect == Spec => []TypeOK
BY TypeInit, TypeNext, PTL DEF Spec

(***************************************************************************)
(* The inductive invariant                                                 *)
(***************************************************************************)
\* The work that answers a reload is part of the work that finishes a task.
LEMMA AnswererDrives ==
  /\ \A es : EventsAt(es, {"BootstrapReloadFailed"}) \subseteq EventsAt(es, EventDrivers)
  /\ \A acts : ActionsAt(acts, {"SendReloadFailed"}) \subseteq ActionsAt(acts, ActionDrivers)
BY DEF EventsAt, ActionsAt, EventDrivers, ActionDrivers

\* A step that leaves the commit queue, the open reload and the queued
\* drivers as they are preserves the invariant.
LEMMA QuietStep ==
  ASSUME Inv, TypeOK', LoopDrained', UNCHANGED <<isReload, queue, nextId, owed>>,
         EventsAt(eventQ', EventDrivers) = {} <=> EventsAt(eventQ, EventDrivers) = {},
         \A i, j \in EventsAt(eventQ', EventDrivers) : i = j,
         EventsAt(eventQ', {"BootstrapReloadFailed"}) = {}
           <=> EventsAt(eventQ, {"BootstrapReloadFailed"}) = {},
         ActionsAt(actionQ', ActionDrivers) = {} <=> ActionsAt(actionQ, ActionDrivers) = {},
         \A i, j \in ActionsAt(actionQ', ActionDrivers) : i = j,
         ActionsAt(actionQ', {"SendReloadFailed"}) = {}
           <=> ActionsAt(actionQ, {"SendReloadFailed"}) = {}
  PROVE  Inv'
<1>1. OneDriver'
  BY DEF Inv, OneDriver, Has
<1>2. QueueInOrder' /\ NoStall'
  BY DEF Inv, QueueInOrder, InOrder, NoStall, Has
<1>3. AnswerPending'
  BY DEF Inv, AnswerPending
<1> QED BY <1>1, <1>2, <1>3 DEF Inv

\* Taking an event that is not a driver, and posting an action that is not.
LEMMA QuietEvent ==
  ASSUME Inv, TypeOK', NEW type, TakeEvent(type), type \notin EventDrivers,
         UNCHANGED <<isReload, queue, nextId>>,
         \/ actionQ' = actionQ
         \/ \E a \in Action \ ActionDrivers : actionQ' = Append(actionQ, a)
  PROVE  Inv'
<1>1. eventQ \in Seq(Event) /\ eventQ # <<>> /\ eventQ' = Tail(eventQ) /\ Head(eventQ).type = type
  BY DEF TakeEvent, Inv, TypeOK
<1>2. "BootstrapReloadFailed" \in EventDrivers /\ "SendReloadFailed" \in ActionDrivers
  BY DEF EventDrivers, ActionDrivers
<1>3. /\ EventsAt(eventQ', EventDrivers) = {} <=> EventsAt(eventQ, EventDrivers) = {}
      /\ \A i, j \in EventsAt(eventQ', EventDrivers) : i = j
  BY <1>1, TakeOtherEvent DEF Inv, OneDriver
<1>4. EventsAt(eventQ', {"BootstrapReloadFailed"}) = {}
        <=> EventsAt(eventQ, {"BootstrapReloadFailed"}) = {}
  BY <1>1, <1>2, TakeOtherEvent
<1>5. /\ ActionsAt(actionQ', ActionDrivers) = ActionsAt(actionQ, ActionDrivers)
      /\ ActionsAt(actionQ', {"SendReloadFailed"}) = ActionsAt(actionQ, {"SendReloadFailed"})
  <2>1. actionQ \in Seq(Action)
    BY DEF Inv, TypeOK
  <2>2. ASSUME NEW a \in Action \ ActionDrivers, actionQ' = Append(actionQ, a)
        PROVE  /\ ActionsAt(actionQ', ActionDrivers) = ActionsAt(actionQ, ActionDrivers)
               /\ ActionsAt(actionQ', {"SendReloadFailed"})
                    = ActionsAt(actionQ, {"SendReloadFailed"})
    BY <1>2, <2>1, <2>2, AppendAction
  <2> QED BY <2>2
<1>6. LoopDrained' /\ owed' = owed
  BY DEF TakeEvent, LoopDrained
<1>7. \A i, j \in ActionsAt(actionQ, ActionDrivers) : i = j
  BY DEF Inv, OneDriver
<1> QED BY <1>3, <1>4, <1>5, <1>6, <1>7, QuietStep

\* Taking an action that is not a driver.
LEMMA QuietAction ==
  ASSUME Inv, TypeOK', NEW type, TakeAction(type), type \notin ActionDrivers,
         UNCHANGED <<isReload, queue, nextId, owed, eventQ>>, actionQ' = Tail(actionQ)
  PROVE  Inv'
<1>1. actionQ \in Seq(Action) /\ actionQ # <<>> /\ Head(actionQ) = type
  BY DEF TakeAction, Inv, TypeOK
<1>2. "SendReloadFailed" \in ActionDrivers
  BY DEF ActionDrivers
<1>3. /\ ActionsAt(actionQ', ActionDrivers) = {} <=> ActionsAt(actionQ, ActionDrivers) = {}
      /\ \A i, j \in ActionsAt(actionQ', ActionDrivers) : i = j
  BY <1>1, TakeOtherAction DEF Inv, OneDriver
<1>4. ActionsAt(actionQ', {"SendReloadFailed"}) = {}
        <=> ActionsAt(actionQ, {"SendReloadFailed"}) = {}
  BY <1>1, <1>2, TakeOtherAction
<1>5. LoopDrained'
  BY DEF TakeAction, LoopDrained
<1>6. \A i, j \in EventsAt(eventQ, EventDrivers) : i = j
  BY DEF Inv, OneDriver
<1> QED BY <1>3, <1>4, <1>5, <1>6, QuietStep

\* Posting an event that is not a driver while the tick schedules.
LEMMA QuietSchedule ==
  ASSUME Inv, TypeOK', NEW type \in PlainEvents \ EventDrivers, SchedulePost(type),
         isReload' = isReload
  PROVE  Inv'
<1>1. [type |-> type] \in Event /\ [type |-> type].type = type
  BY DEF Event
<1>2. "BootstrapReloadFailed" \in EventDrivers
  BY DEF EventDrivers
<1>3. eventQ' = Append(eventQ, [type |-> type]) /\ eventQ \in Seq(Event)
  BY DEF SchedulePost, Inv, TypeOK
<1>4. /\ EventsAt(eventQ', EventDrivers) = EventsAt(eventQ, EventDrivers)
      /\ EventsAt(eventQ', {"BootstrapReloadFailed"})
           = EventsAt(eventQ, {"BootstrapReloadFailed"})
  BY <1>1, <1>2, <1>3, AppendEvent
<1>5. LoopDrained' /\ UNCHANGED <<actionQ, queue, nextId, owed>>
  BY DEF SchedulePost, commitVars, LoopDrained
<1>6. /\ \A i, j \in EventsAt(eventQ, EventDrivers) : i = j
      /\ \A i, j \in ActionsAt(actionQ, ActionDrivers) : i = j
  BY DEF Inv, OneDriver
<1> QED BY <1>4, <1>5, <1>6, QuietStep

\* A fresh process owns no commit, and so satisfies the invariant.
LEMMA InvInit == Init => Inv
<1> SUFFICES ASSUME Init PROVE Inv
  OBVIOUS
<1>1. TypeOK
  BY TypeInit
<1>2. /\ EventsAt(eventQ, EventDrivers) = {}
      /\ ActionsAt(actionQ, ActionDrivers) = {}
      /\ ~Has(queue, "Running") /\ ~Has(queue, "Pending")
  BY DEF Init, EventsAt, ActionsAt, Has
<1>3. LoopDrained /\ QueueInOrder /\ ~isReload /\ ~owed
  BY DEF Init, LoopDrained, QueueInOrder, InOrder
<1>4. OneDriver
  BY <1>2, <1>3 DEF OneDriver
<1>5. NoStall
  BY <1>2 DEF NoStall
<1>6. AnswerPending
  BY <1>2, <1>3, AnswererDrives DEF AnswerPending
<1> QED BY <1>1, <1>3, <1>4, <1>5, <1>6 DEF Inv

\* The reload times out: its driver moves from the reload to the event queue.
LEMMA InvReloadTimeout == Inv /\ TypeOK' /\ ScheduleReloadTimeout => Inv'
<1> SUFFICES ASSUME Inv, TypeOK', ScheduleReloadTimeout PROVE Inv'
  OBVIOUS
<1> DEFINE e == [type |-> "BootstrapReloadFailed"]
<1>1. /\ isReload /\ ~isReload' /\ eventQ \in Seq(Event) /\ eventQ' = Append(eventQ, e)
      /\ phase' = "execute" /\ UNCHANGED <<actionQ, queue, nextId, owed>>
  BY DEF ScheduleReloadTimeout, SchedulePost, commitVars, Inv, TypeOK
<1>2. e \in Event /\ e.type \in EventDrivers /\ e.type \in {"BootstrapReloadFailed"}
  BY DEF Event, PlainEvents, EventDrivers
<1>3. /\ EventsAt(eventQ, EventDrivers) = {} /\ ActionsAt(actionQ, ActionDrivers) = {}
      /\ Has(queue, "Running") /\ owed
  BY <1>1 DEF Inv, OneDriver, AnswerPending
<1> HIDE DEF e
<1>4. EventsAt(eventQ', EventDrivers) = {Len(eventQ) + 1}
  BY <1>1, <1>2, <1>3, AppendEvent
<1>5. EventsAt(eventQ', {"BootstrapReloadFailed"}) # {}
  BY SMTT(30), <1>1, <1>2, AppendEvent
<1>6. OneDriver'
  BY <1>1, <1>3, <1>4 DEF OneDriver, Has
<1>7. QueueInOrder' /\ NoStall'
  BY <1>1 DEF Inv, QueueInOrder, InOrder, NoStall, Has
<1>8. AnswerPending'
  BY <1>1, <1>3, <1>5 DEF AnswerPending
<1>9. LoopDrained'
  BY <1>1 DEF LoopDrained
<1> QED BY <1>6, <1>7, <1>8, <1>9 DEF Inv

\* The timeout event is handled: its driver becomes the SendReloadFailed action.
LEMMA InvReloadFailed == Inv /\ TypeOK' /\ OnReloadFailed => Inv'
<1> SUFFICES ASSUME Inv, TypeOK', OnReloadFailed PROVE Inv'
  OBVIOUS
<1>1. /\ eventQ \in Seq(Event) /\ eventQ # <<>> /\ eventQ' = Tail(eventQ)
      /\ Head(eventQ).type = "BootstrapReloadFailed"
      /\ actionQ \in Seq(Action) /\ actionQ' = Append(actionQ, "SendReloadFailed")
      /\ phase = "execute" /\ UNCHANGED <<phase, isReload, queue, nextId, owed>>
  BY DEF OnReloadFailed, OnSend, TakeEvent, PostAction, bootVars, commitVars, Inv, TypeOK
<1>2. /\ "BootstrapReloadFailed" \in EventDrivers
      /\ "SendReloadFailed" \in ActionDrivers /\ "SendReloadFailed" \in Action
  BY DEF EventDrivers, ActionDrivers, Action
<1>3. /\ 1 \in EventsAt(eventQ, EventDrivers)
      /\ 1 \in EventsAt(eventQ, {"BootstrapReloadFailed"})
  BY <1>1, <1>2, TailEvent
<1>4. /\ ~isReload /\ ActionsAt(actionQ, ActionDrivers) = {}
      /\ Has(queue, "Running") /\ owed
      /\ \A i, j \in EventsAt(eventQ, EventDrivers) : i = j
  BY <1>3 DEF Inv, OneDriver, AnswerPending
<1>5. EventsAt(eventQ', EventDrivers) = {}
  BY <1>1, <1>2, <1>4, TakeOnlyEvent
<1>6. ActionsAt(actionQ', ActionDrivers) = {Len(actionQ) + 1}
  BY <1>1, <1>2, <1>4, AppendAction
<1>7. ActionsAt(actionQ', {"SendReloadFailed"}) # {}
  BY ZenonT(40), <1>1, <1>2, AppendAction
<1>8. OneDriver'
  BY <1>1, <1>4, <1>5, <1>6 DEF OneDriver, Has
<1>9. QueueInOrder' /\ NoStall'
  BY <1>1 DEF Inv, QueueInOrder, InOrder, NoStall, Has
<1>10. AnswerPending'
  BY <1>1, <1>4, <1>7 DEF AnswerPending
<1>11. LoopDrained'
  BY <1>1 DEF LoopDrained
<1> QED BY <1>8, <1>9, <1>10, <1>11 DEF Inv

\* The fleet converged: an open reload becomes a CommitReloadComplete event.
LEMMA InvRuntimeStart == Inv /\ TypeOK' /\ SendRuntimeStart => Inv'
<1> SUFFICES ASSUME Inv, TypeOK', SendRuntimeStart PROVE Inv'
  OBVIOUS
<1>1. "SendRuntimeStart" \notin ActionDrivers
  BY DEF ActionDrivers
<1>2. CASE ~isReload
  <2>1. /\ TakeAction("SendRuntimeStart") /\ actionQ' = Tail(actionQ)
        /\ UNCHANGED <<isReload, queue, nextId, owed, eventQ>>
    BY <1>2 DEF SendRuntimeStart, commitVars
  <2> QED BY <1>1, <2>1, QuietAction
<1>3. CASE isReload
  <2> DEFINE e == [type |-> "CommitReloadComplete"]
  <2>1. /\ actionQ \in Seq(Action) /\ actionQ # <<>> /\ Head(actionQ) = "SendRuntimeStart"
        /\ actionQ' = Tail(actionQ) /\ eventQ \in Seq(Event) /\ eventQ' = Append(eventQ, e)
        /\ ~isReload' /\ ~owed' /\ phase = "execute" /\ UNCHANGED <<phase, queue, nextId>>
    BY <1>3 DEF SendRuntimeStart, TakeAction, commitVars, Inv, TypeOK
  <2>2. e \in Event /\ e.type \in EventDrivers /\ e.type \notin {"BootstrapReloadFailed"}
    BY DEF Event, PlainEvents, EventDrivers
  <2>3. /\ EventsAt(eventQ, EventDrivers) = {} /\ ActionsAt(actionQ, ActionDrivers) = {}
        /\ Has(queue, "Running")
    BY <1>3 DEF Inv, OneDriver
  <2> HIDE DEF e
  <2>4. EventsAt(eventQ', EventDrivers) = {Len(eventQ) + 1}
    BY <2>1, <2>2, <2>3, AppendEvent
  <2>5. EventsAt(eventQ', {"BootstrapReloadFailed"}) = {}
    BY <2>1, <2>2, <2>3, AppendEvent, AnswererDrives
  <2>6. ActionsAt(actionQ', ActionDrivers) = {}
    BY <1>1, <2>1, <2>3, TakeOtherAction
  <2>7. ActionsAt(actionQ', {"SendReloadFailed"}) = {}
    BY <2>6, AnswererDrives
  <2>8. OneDriver'
    BY <2>1, <2>3, <2>4, <2>6 DEF OneDriver, Has
  <2>9. QueueInOrder' /\ NoStall'
    BY <2>1 DEF Inv, QueueInOrder, InOrder, NoStall, Has
  <2>10. AnswerPending'
    BY <2>1, <2>5, <2>7 DEF AnswerPending
  <2>11. LoopDrained'
    BY <2>1 DEF LoopDrained
  <2> QED BY <2>8, <2>9, <2>10, <2>11 DEF Inv
<1> QED BY <1>2, <1>3

\* The failure is answered: SendReloadFailed becomes a CommitReloadFailed event.
LEMMA InvSendReloadFailed == Inv /\ TypeOK' /\ SendReloadFailed => Inv'
<1> SUFFICES ASSUME Inv, TypeOK', SendReloadFailed PROVE Inv'
  OBVIOUS
<1> DEFINE e == [type |-> "CommitReloadFailed"]
<1>1. /\ actionQ \in Seq(Action) /\ actionQ # <<>> /\ Head(actionQ) = "SendReloadFailed"
      /\ actionQ' = Tail(actionQ) /\ eventQ \in Seq(Event) /\ eventQ' = Append(eventQ, e)
      /\ ~owed' /\ phase = "execute" /\ UNCHANGED <<phase, isReload, queue, nextId>>
  BY DEF SendReloadFailed, TakeAction, bootVars, commitVars, Inv, TypeOK
<1>2. /\ e \in Event /\ e.type \in EventDrivers /\ e.type \notin {"BootstrapReloadFailed"}
      /\ "SendReloadFailed" \in ActionDrivers
  BY DEF Event, PlainEvents, EventDrivers, ActionDrivers
<1>3. 1 \in ActionsAt(actionQ, ActionDrivers)
  BY <1>1, <1>2, TailAction
<1>4. /\ EventsAt(eventQ, EventDrivers) = {} /\ ~isReload /\ Has(queue, "Running")
      /\ \A i, j \in ActionsAt(actionQ, ActionDrivers) : i = j
  BY <1>3 DEF Inv, OneDriver
<1> HIDE DEF e
<1>5. EventsAt(eventQ', EventDrivers) = {Len(eventQ) + 1}
  BY <1>1, <1>2, <1>4, AppendEvent
<1>6. EventsAt(eventQ', {"BootstrapReloadFailed"}) = {}
  BY <1>1, <1>2, <1>4, AppendEvent, AnswererDrives
<1>7. ActionsAt(actionQ', ActionDrivers) = {}
  BY <1>1, <1>2, <1>4, TakeOnlyAction
<1>8. ActionsAt(actionQ', {"SendReloadFailed"}) = {}
  BY <1>7, AnswererDrives
<1>9. OneDriver'
  BY <1>1, <1>4, <1>5, <1>7 DEF OneDriver, Has
<1>10. QueueInOrder' /\ NoStall'
  BY <1>1 DEF Inv, QueueInOrder, InOrder, NoStall, Has
<1>11. AnswerPending'
  BY <1>1, <1>4, <1>6, <1>8 DEF AnswerPending
<1>12. LoopDrained'
  BY <1>1 DEF LoopDrained
<1> QED BY <1>9, <1>10, <1>11, <1>12 DEF Inv

\* After startNext on a queue without drivers, the only driver is the
\* ApplyCommit of the task it started.
LEMMA StartedStep ==
  ASSUME TypeOK', LoopDrained', NEW acts \in Seq(Action),
         ActionsAt(acts, ActionDrivers) = {}, EventsAt(eventQ', EventDrivers) = {},
         isReload' = FALSE, owed' = FALSE, InOrder(queue', nextId'),
         Has(queue', "Pending") => Has(queue', "Running"),
         \/ Has(queue', "Running") /\ actionQ' = Append(acts, "ApplyCommit")
         \/ ~Has(queue', "Running") /\ actionQ' = acts
  PROVE  Inv'
<1>1. /\ "ApplyCommit" \in Action /\ "ApplyCommit" \in ActionDrivers
      /\ "ApplyCommit" \notin {"SendReloadFailed"}
  BY DEF Action, ActionDrivers
<1>2. ActionsAt(acts, {"SendReloadFailed"}) = {}
  BY AnswererDrives
<1>a. /\ ActionsAt(Append(acts, "ApplyCommit"), {"SendReloadFailed"}) = {}
      /\ ActionsAt(Append(acts, "ApplyCommit"), ActionDrivers) = {Len(acts) + 1}
  BY <1>1, <1>2, AppendAction
<1>3. ActionsAt(actionQ', {"SendReloadFailed"}) = {}
  BY <1>2, <1>a
<1>4. EventsAt(eventQ', {"BootstrapReloadFailed"}) = {}
  BY AnswererDrives
<1>5. \/ Has(queue', "Running") /\ ActionsAt(actionQ', ActionDrivers) = {Len(acts) + 1}
      \/ ~Has(queue', "Running") /\ ActionsAt(actionQ', ActionDrivers) = {}
  BY <1>a
<1>6. OneDriver'
  BY <1>5 DEF OneDriver, Has
<1>7. QueueInOrder' /\ NoStall'
  BY DEF QueueInOrder, InOrder, NoStall, Has
<1>8. AnswerPending'
  BY <1>3, <1>4 DEF AnswerPending
<1> QED BY <1>6, <1>7, <1>8 DEF Inv

\* A reload is over: the Running task takes its outcome and the next starts.
LEMMA InvFinishTask ==
  ASSUME Inv, TypeOK', NEW type \in EventDrivers \ {"BootstrapReloadFailed"},
         NEW outcome \in {"Done", "Failed"}, FinishTask(type, outcome)
  PROVE  Inv'
<1>1. /\ eventQ \in Seq(Event) /\ eventQ # <<>> /\ eventQ' = Tail(eventQ)
      /\ Head(eventQ).type = type /\ actionQ \in Seq(Action) /\ queue \in Seq(Task)
      /\ phase = "execute" /\ UNCHANGED <<phase, isReload, nextId, owed>>
  BY DEF FinishTask, TakeEvent, bootVars, Inv, TypeOK
<1>2. 1 \in EventsAt(eventQ, EventDrivers) /\ 1 \notin EventsAt(eventQ, {"BootstrapReloadFailed"})
  BY <1>1, TailEvent
<1>3. /\ ~isReload /\ ActionsAt(actionQ, ActionDrivers) = {} /\ Has(queue, "Running")
      /\ \A i, j \in EventsAt(eventQ, EventDrivers) : i = j
  BY <1>2 DEF Inv, OneDriver
<1>4. EventsAt(eventQ', EventDrivers) = {}
  BY <1>1, <1>3, TakeOnlyEvent
<1>5. EventsAt(eventQ, {"BootstrapReloadFailed"}) = {}
  BY <1>2, <1>3, AnswererDrives
<1>6. ~owed
  BY <1>3, <1>5, AnswererDrives DEF Inv, AnswerPending
<1>7. PICK i \in DOMAIN queue :
        IsFirst(queue, "Running", i) /\ TrimAndStart(SetStatus(queue, i, outcome))
  BY <1>3, Zenon DEF FinishTask
<1> DEFINE q == SetStatus(queue, i, outcome)
<1>8. q \in Seq(Task) /\ InOrder(q, nextId) /\ ~Has(q, "Running")
  BY <1>1, <1>7, FinishRunning DEF Inv, QueueInOrder
<1> HIDE DEF q
<1>a. TrimAndStart(q)
  BY <1>7 DEF q
<1>9. PICK n \in 0 .. Len(q) :
        StartNext(SubSeq(q, n + 1, Len(q)), actionQ, <<QueueStatus(SubSeq(q, n + 1, Len(q)))>>)
  BY <1>a, Zenon DEF TrimAndStart
<1> DEFINE kept == SubSeq(q, n + 1, Len(q))
<1>10. kept \in Seq(Task) /\ InOrder(kept, nextId) /\ ~Has(kept, "Running")
  BY <1>8, KeptFacts
<1>11. StartNext(kept, actionQ, <<QueueStatus(kept)>>)
  BY <1>9
<1> HIDE DEF kept
<1>12. /\ InOrder(queue', nextId)
       /\ Has(queue', "Pending") => Has(queue', "Running")
       /\ \/ Has(queue', "Running") /\ actionQ' = Append(actionQ, "ApplyCommit")
          \/ ~Has(queue', "Running") /\ actionQ' = actionQ
  BY <1>10, <1>11, StartNextFacts
<1>13. LoopDrained' /\ isReload' = FALSE /\ owed' = FALSE /\ nextId' = nextId
  BY <1>1, <1>3, <1>6 DEF LoopDrained, Inv, TypeOK
<1> QED BY <1>1, <1>3, <1>4, <1>12, <1>13, StartedStep

\* The Running task is applied: it fails and the next one starts, or the
\* open reload becomes its driver.
LEMMA InvApplyCommit == Inv /\ TypeOK' /\ ApplyCommit => Inv'
<1> SUFFICES ASSUME Inv, TypeOK', ApplyCommit PROVE Inv'
  OBVIOUS
<1>1. /\ actionQ \in Seq(Action) /\ actionQ # <<>> /\ Head(actionQ) = "ApplyCommit"
      /\ queue \in Seq(Task) /\ phase = "execute" /\ UNCHANGED <<phase, eventQ, nextId>>
  BY DEF ApplyCommit, TakeAction, Inv, TypeOK
<1>2. "ApplyCommit" \in ActionDrivers /\ "ApplyCommit" \notin {"SendReloadFailed"}
  BY DEF ActionDrivers
<1>3. 1 \in ActionsAt(actionQ, ActionDrivers) /\ 1 \notin ActionsAt(actionQ, {"SendReloadFailed"})
  BY <1>1, <1>2, TailAction
<1>4. /\ ~isReload /\ EventsAt(eventQ, EventDrivers) = {} /\ Has(queue, "Running")
      /\ \A i, j \in ActionsAt(actionQ, ActionDrivers) : i = j
  BY <1>3 DEF Inv, OneDriver
<1>5. ActionsAt(Tail(actionQ), ActionDrivers) = {} /\ Tail(actionQ) \in Seq(Action)
  BY <1>1, <1>2, <1>4, TakeOnlyAction, TailAction
<1>6. ActionsAt(actionQ, {"SendReloadFailed"}) = {}
  BY <1>3, <1>4, AnswererDrives
<1>7. ~owed
  BY <1>4, <1>6, AnswererDrives DEF Inv, AnswerPending
<1>8. LoopDrained'
  BY <1>1 DEF LoopDrained
<1>9. PICK i \in DOMAIN queue :
        IsFirst(queue, "Running", i) /\ (ApplyFails(i) \/ ApplySucceeds(i))
  BY <1>4, Zenon DEF ApplyCommit
<1>10. CASE ApplyFails(i)
  <2> DEFINE q == SetStatus(queue, i, "Failed")
  <2>1. q \in Seq(Task) /\ InOrder(q, nextId) /\ ~Has(q, "Running")
    BY <1>1, <1>9, FinishRunning DEF Inv, QueueInOrder
  <2>2. StartNext(q, Tail(actionQ), <<QueueStatus(q)>>)
    BY <1>10, Zenon DEF ApplyFails
  <2>3. UNCHANGED <<isReload, owed>>
    BY <1>10 DEF ApplyFails, bootVars
  <2> HIDE DEF q
  <2>4. /\ InOrder(queue', nextId)
        /\ Has(queue', "Pending") => Has(queue', "Running")
        /\ \/ Has(queue', "Running") /\ actionQ' = Append(Tail(actionQ), "ApplyCommit")
           \/ ~Has(queue', "Running") /\ actionQ' = Tail(actionQ)
    BY <2>1, <2>2, StartNextFacts
  <2>5. isReload' = FALSE /\ owed' = FALSE
    BY <1>4, <1>7, <2>3 DEF Inv, TypeOK
  <2> QED BY <1>1, <1>4, <1>5, <1>8, <2>4, <2>5, StartedStep
<1>11. CASE ApplySucceeds(i)
  <2>1. actionQ' = Tail(actionQ) /\ isReload' = TRUE /\ owed' = TRUE /\ queue' = queue
    BY <1>11 DEF ApplySucceeds
  <2>2. OneDriver'
    BY <1>1, <1>4, <1>5, <2>1 DEF OneDriver, Has
  <2>3. QueueInOrder' /\ NoStall'
    BY <1>1, <2>1 DEF Inv, QueueInOrder, InOrder, NoStall, Has
  <2>4. AnswerPending'
    BY <2>1 DEF AnswerPending
  <2> QED BY <1>8, <2>2, <2>3, <2>4 DEF Inv
<1> QED BY <1>9, <1>10, <1>11

\* A commit arrives: it is queued, and started if nothing is running.
LEMMA InvSettingsCommit == Inv /\ TypeOK' /\ OnSettingsCommit => Inv'
<1> SUFFICES ASSUME Inv, TypeOK', OnSettingsCommit PROVE Inv'
  OBVIOUS
<1> DEFINE task == [id |-> nextId, payload |-> Head(eventQ).payload, status |-> "Pending"]
           q == Append(queue, task)
<1>1. /\ eventQ \in Seq(Event) /\ eventQ # <<>> /\ eventQ' = Tail(eventQ)
      /\ Head(eventQ).type = "ReceiveSettingsCommit" /\ Head(eventQ) \in Event
      /\ actionQ \in Seq(Action) /\ queue \in Seq(Task) /\ nextId \in Nat
      /\ phase = "execute" /\ UNCHANGED <<phase, isReload, owed>>
  BY DEF OnSettingsCommit, TakeEvent, bootVars, Inv, TypeOK
<1>2. "ReceiveSettingsCommit" \notin EventDrivers
  BY DEF EventDrivers
<1>3. \/ UNCHANGED <<actionQ, queue, nextId>>
      \/ nextId' = nextId + 1 /\ Has(q, "Running") /\ queue' = q /\ UNCHANGED actionQ
      \/ nextId' = nextId + 1 /\ ~Has(q, "Running") /\ StartNext(q, actionQ, <<QueueStatus(q)>>)
  BY Zenon DEF OnSettingsCommit, commitVars
<1>4. task \in Task
  <2>1. Head(eventQ).payload \in Payloads
    BY <1>1 DEF Event, PlainEvents
  <2> QED BY <1>1, <2>1 DEF Task, Status
<1>5. task.id = nextId /\ task.status = "Pending"
  OBVIOUS
<1> HIDE DEF task
<1>6. /\ q \in Seq(Task) /\ DOMAIN q = 1 .. Len(queue) + 1 /\ DOMAIN queue = 1 .. Len(queue)
      /\ Len(queue) \in Nat
      /\ \A i \in 1 .. Len(queue) : q[i] = queue[i]
      /\ q[Len(queue) + 1] = task
  BY <1>1, <1>4, AppendProperties, LenProperties
<1> HIDE DEF q
<1>7. Has(q, "Running") <=> Has(queue, "Running")
  BY <1>5, <1>6 DEF Has
<1>8. InOrder(q, nextId + 1)
  <2>1. \A i \in 1 .. Len(queue) : q[i].id < nextId /\ q[i].id \in Nat
    <3>1. \A i \in 1 .. Len(queue) : queue[i].id < nextId
      BY <1>6 DEF Inv, QueueInOrder, InOrder
    <3>2. \A i \in 1 .. Len(queue) : queue[i] \in Task
      BY <1>1
    <3> QED BY <1>6, <3>1, <3>2 DEF Task
  <2>2. \A i \in DOMAIN q : q[i].id < nextId + 1
    BY <1>1, <1>5, <1>6, <2>1
  <2>3. ASSUME NEW i \in DOMAIN q, NEW j \in DOMAIN q, i < j
        PROVE  /\ q[i].id < q[j].id
               /\ q[i].status \in {"Pending", "Running"} => q[j].status = "Pending"
    <3>1. CASE j = Len(queue) + 1
      BY <1>5, <1>6, <2>1, <2>3, <3>1
    <3>2. CASE j \in 1 .. Len(queue)
      BY <1>6, <2>3, <3>2 DEF Inv, QueueInOrder, InOrder
    <3> QED BY <1>6, <3>1, <3>2
  <2> QED BY <2>2, <2>3 DEF InOrder
<1>9. CASE UNCHANGED <<actionQ, queue, nextId>>
  <2>1. TakeEvent("ReceiveSettingsCommit")
    BY DEF OnSettingsCommit
  <2> QED BY <1>1, <1>2, <1>9, <2>1, QuietEvent
<1>10. /\ EventsAt(eventQ', EventDrivers) = {} <=> EventsAt(eventQ, EventDrivers) = {}
       /\ \A i, j \in EventsAt(eventQ', EventDrivers) : i = j
       /\ EventsAt(eventQ', {"BootstrapReloadFailed"}) = {}
            <=> EventsAt(eventQ, {"BootstrapReloadFailed"}) = {}
  <2>1. Head(eventQ).type \notin EventDrivers
        /\ Head(eventQ).type \notin {"BootstrapReloadFailed"}
    BY <1>1, <1>2
  <2>2. \A i, j \in EventsAt(eventQ, EventDrivers) : i = j
    BY DEF Inv, OneDriver
  <2> QED BY <1>1, <2>1, <2>2, TakeOtherEvent
<1>11. LoopDrained'
  BY <1>1 DEF LoopDrained
<1>12. CASE nextId' = nextId + 1 /\ Has(q, "Running") /\ queue' = q /\ UNCHANGED actionQ
  <2>1. Has(queue', "Running") <=> Has(queue, "Running")
    BY <1>7, <1>12
  <2>2. OneDriver'
    BY <1>1, <1>10, <1>12, <2>1 DEF Inv, OneDriver, Has
  <2>3. QueueInOrder'
    BY <1>8, <1>12 DEF QueueInOrder, InOrder
  <2>4. NoStall'
    BY <1>12 DEF NoStall, Has
  <2>5. AnswerPending'
    BY <1>1, <1>10, <1>12 DEF Inv, AnswerPending
  <2> QED BY <1>11, <2>2, <2>3, <2>4, <2>5 DEF Inv
<1>13. CASE /\ nextId' = nextId + 1 /\ ~Has(q, "Running")
            /\ StartNext(q, actionQ, <<QueueStatus(q)>>)
  <2>1. /\ ~isReload /\ EventsAt(eventQ, EventDrivers) = {}
        /\ ActionsAt(actionQ, ActionDrivers) = {}
    BY <1>7, <1>13 DEF Inv, OneDriver
  <2>2. ~owed
    BY <2>1, AnswererDrives DEF Inv, AnswerPending
  <2>3. isReload' = FALSE /\ owed' = FALSE /\ EventsAt(eventQ', EventDrivers) = {}
    <3>1. isReload \in BOOLEAN /\ owed \in BOOLEAN
      BY DEF Inv, TypeOK
    <3> QED BY <1>1, <1>10, <2>1, <2>2, <3>1
  <2>4. /\ InOrder(queue', nextId')
        /\ Has(queue', "Pending") => Has(queue', "Running")
        /\ \/ Has(queue', "Running") /\ actionQ' = Append(actionQ, "ApplyCommit")
           \/ ~Has(queue', "Running") /\ actionQ' = actionQ
    BY <1>6, <1>8, <1>13, StartNextFacts
  <2> QED BY <1>1, <1>11, <2>1, <2>3, <2>4, StartedStep
<1> QED BY <1>3, <1>9, <1>12, <1>13

\* Poll finds an empty event queue and puts no driver into it.
LEMMA InvPoll == Inv /\ TypeOK' /\ Poll => Inv'
<1> SUFFICES ASSUME Inv, TypeOK', Poll PROVE Inv'
  OBVIOUS
<1> DEFINE es == [i \in DOMAIN rx |-> EventOf(rx[i])]
<1>1. es \in Seq(Event) /\ EventsAt(es, EventDrivers) = {}
  <2>1. rx \in Seq(RxMsg)
    BY DEF Inv, TypeOK
  <2> QED BY <2>1, PolledType
<1>2. eventQ' = eventQ \o es /\ eventQ = <<>> /\ actionQ = <<>>
  BY DEF Poll, Inv, LoopDrained
<1> HIDE DEF es
<1>3. eventQ' = es
  BY <1>1, <1>2
<1>4. EventsAt(eventQ, EventDrivers) = {}
  BY <1>2 DEF EventsAt
<1>5. EventsAt(eventQ', EventDrivers) = {}
  BY <1>1, <1>3
<1>6. /\ EventsAt(eventQ, {"BootstrapReloadFailed"}) = {}
      /\ EventsAt(eventQ', {"BootstrapReloadFailed"}) = {}
  BY <1>4, <1>5, AnswererDrives
<1>7. UNCHANGED <<actionQ, isReload, queue, nextId, owed>> /\ LoopDrained'
  BY <1>2 DEF Poll, bootVars, commitVars, LoopDrained
<1>8. \A i, j \in ActionsAt(actionQ, ActionDrivers) : i = j
  BY DEF Inv, OneDriver
<1> QED BY <1>4, <1>5, <1>6, <1>7, <1>8, QuietStep

\* The invariant is inductive.
LEMMA InvNext == Inv /\ [Next]_vars => Inv'
<1> SUFFICES ASSUME Inv, [Next]_vars PROVE Inv'
  OBVIOUS
<1>1. TypeOK'
  BY TypeNext DEF Inv
<1>2. /\ \A i, j \in EventsAt(eventQ, EventDrivers) : i = j
      /\ \A i, j \in ActionsAt(actionQ, ActionDrivers) : i = j
  BY DEF Inv, OneDriver
<1>3. ASSUME UNCHANGED <<eventQ, actionQ, isReload, queue, nextId, owed>>, LoopDrained'
      PROVE  Inv'
  BY <1>1, <1>2, <1>3, QuietStep
<1> USE DEF bootVars, commitVars
<1>4. CASE UNCHANGED vars
  BY <1>3, <1>4 DEF vars, LoopDrained, Inv
<1>5. CASE Environment
  <2>1. \E msg : Deliver(msg)
    BY <1>5 DEF Environment, DeliverServerHello, DeliverSyncResponse, DeliverSettingsCommit
  <2> QED BY <1>3, <2>1 DEF Deliver, LoopDrained, Inv
<1>6. CASE Restart
  <2>1. /\ eventQ' = <<>> /\ actionQ' = <<>> /\ queue' = <<>>
        /\ isReload' = FALSE /\ owed' = FALSE
    BY <1>6 DEF Restart
  <2>2. /\ EventsAt(eventQ', EventDrivers) = {}
        /\ ActionsAt(<<>>, ActionDrivers) = {}
        /\ ~Has(queue', "Running") /\ ~Has(queue', "Pending")
        /\ InOrder(queue', nextId') /\ LoopDrained'
    BY <2>1 DEF EventsAt, ActionsAt, Has, InOrder, LoopDrained
  <2>3. <<>> \in Seq(Action)
    OBVIOUS
  <2> QED BY <1>1, <2>1, <2>2, <2>3, StartedStep
<1>7. CASE Poll
  BY <1>1, <1>7, InvPoll
<1>8. "SendClientHello" \in PlainEvents \ EventDrivers /\ "SendSyncRequest" \in PlainEvents \ EventDrivers
  BY DEF PlainEvents, EventDrivers
<1>9. CASE ScheduleInit \/ ScheduleHelloRetry
  BY <1>1, <1>8, <1>9, QuietSchedule DEF ScheduleInit, ScheduleHelloRetry
<1>10. CASE ScheduleSync
  BY <1>1, <1>8, <1>10, QuietSchedule DEF ScheduleSync
<1>11. CASE ScheduleReloadTimeout
  BY <1>1, <1>11, InvReloadTimeout
<1>12. CASE ScheduleNothing
  BY <1>3, <1>12 DEF ScheduleNothing, LoopDrained, Inv
<1>13. /\ "SendClientHello" \in Action \ ActionDrivers
       /\ "SendSyncRequest" \in Action \ ActionDrivers
       /\ "SendRuntimeStart" \in Action \ ActionDrivers
       /\ "ReceiveServerHello" \notin EventDrivers
       /\ "ReceiveSyncResponse" \notin EventDrivers
  BY DEF Action, ActionDrivers, EventDrivers
<1>14. CASE OnSendClientHello
  BY <1>1, <1>8, <1>13, <1>14, QuietEvent DEF OnSendClientHello, OnSend, PostAction
<1>15. CASE OnSendSyncRequest
  BY <1>1, <1>8, <1>13, <1>15, QuietEvent DEF OnSendSyncRequest, OnSend, PostAction
<1>16. CASE OnReloadFailed
  BY <1>1, <1>16, InvReloadFailed
<1>17. CASE OnServerHello
  BY <1>1, <1>13, <1>17, QuietEvent DEF OnServerHello, PostAction
<1>18. CASE OnSyncResponse
  <2>1. /\ TakeEvent("ReceiveSyncResponse") /\ UNCHANGED <<isReload, queue, nextId>>
        /\ \/ actionQ' = actionQ
           \/ actionQ' = Append(actionQ, "SendRuntimeStart")
    BY <1>18, Zenon DEF OnSyncResponse, PostAction
  <2> QED BY <1>1, <1>13, <2>1, QuietEvent
<1>19. CASE OnSettingsCommit
  BY <1>1, <1>19, InvSettingsCommit
<1>20. CASE OnReloadCompleteEvent \/ OnReloadFailedEvent
  <2>1. /\ "CommitReloadComplete" \in EventDrivers \ {"BootstrapReloadFailed"}
        /\ "CommitReloadFailed" \in EventDrivers \ {"BootstrapReloadFailed"}
    BY DEF EventDrivers
  <2> QED BY <1>1, <1>20, <2>1, InvFinishTask DEF OnReloadCompleteEvent, OnReloadFailedEvent
<1>21. CASE SendClientHello
  BY <1>1, <1>13, <1>21, QuietAction DEF SendClientHello
<1>22. CASE SendSyncRequest
  BY <1>1, <1>13, <1>22, QuietAction DEF SendSyncRequest
<1>23. CASE SendRuntimeStart
  BY <1>1, <1>23, InvRuntimeStart
<1>24. CASE SendReloadFailed
  BY <1>1, <1>24, InvSendReloadFailed
<1>25. CASE ApplyCommit
  BY <1>1, <1>25, InvApplyCommit
<1>26. CASE ExecuteDone
  BY <1>3, <1>26 DEF ExecuteDone, LoopDrained
<1> QED
  BY <1>4, <1>5, <1>6, <1>7, <1>9, <1>10, <1>11, <1>12, <1>14, <1>15, <1>16, <1>17, <1>18,
     <1>19, <1>20, <1>21, <1>22, <1>23, <1>24, <1>25, <1>26
     DEF Next, Tick, Schedule, ExecuteEvent, ExecuteAction

\* The invariant holds in every behaviour.
THEOREM Invariance == Spec => []Inv
BY InvInit, InvNext, PTL DEF Spec

\* A Running task always has exactly one driver: ReloadComplete and
\* ReloadFailed, which carry no task id, can only finish the task they mean.
THEOREM OneDriverAlways == Spec => []OneDriver
<1>1. Inv => OneDriver
  BY DEF Inv
<1> QED BY <1>1, Invariance, PTL

\* Commits run one at a time and in the order they arrived.
THEOREM QueueInOrderAlways == Spec => []QueueInOrder
<1>1. Inv => QueueInOrder
  BY DEF Inv
<1> QED BY <1>1, Invariance, PTL

\* No commit waits while CommitService is idle.
THEOREM NoStallAlways == Spec => []NoStall
<1>1. Inv => NoStall
  BY DEF Inv
<1> QED BY <1>1, Invariance, PTL

\* The answer to an open reload is neither lost nor duplicated in engined.
THEOREM AnswerPendingAlways == Spec => []AnswerPending
<1>1. Inv => AnswerPending
  BY DEF Inv
<1> QED BY <1>1, Invariance, PTL

(***************************************************************************)
(* Answers                                                                 *)
(***************************************************************************)
\* Only SettingsCommitResponse is an answer.
LEMMA NoAnswer ==
  /\ Answers(<<>>) = {}
  /\ Answers(ConfigApplyFanOut) = {}
  /\ \A q : Answers(<<QueueStatus(q)>>) = {}
  /\ \A q, r : Answers(Append(<<QueueStatus(q)>>, QueueStatus(r))) = {}
<1>1. Answers(<<>>) = {}
  BY DEF Answers
<1>2. Answers(ConfigApplyFanOut) = {}
  BY DEF Answers, ConfigApplyFanOut
<1>3. ASSUME NEW m, m.cmd = "SettingsCommitStatus" PROVE Answers(<<m>>) = {}
  BY <1>3 DEF Answers
<1>4. ASSUME NEW m, NEW n, m.cmd = "SettingsCommitStatus", n.cmd = "SettingsCommitStatus"
      PROVE  Answers(Append(<<m>>, n)) = {}
  <2> DEFINE S == {m, n}
  <2>1. <<m>> \in Seq(S) /\ n \in S /\ Len(<<m>>) = 1 /\ <<m>>[1] = m
    OBVIOUS
  <2> HIDE DEF S
  <2>2. /\ DOMAIN Append(<<m>>, n) = 1 .. 2
        /\ Append(<<m>>, n)[1] = m /\ Append(<<m>>, n)[2] = n
    BY <2>1, AppendProperties, LenProperties
  <2>3. \A i \in 1 .. 2 : i = 1 \/ i = 2
    OBVIOUS
  <2> QED BY <1>4, <2>2, <2>3 DEF Answers
<1>5. \A q : QueueStatus(q).cmd = "SettingsCommitStatus"
  BY DEF QueueStatus
<1> QED BY <1>1, <1>2, <1>3, <1>4, <1>5

\* startNext sends queue statuses only.
LEMMA StartNextNoAnswer ==
  ASSUME NEW q, NEW acts, StartNext(q, acts, <<QueueStatus(q)>>)
  PROVE  Answers(tx') = {}
<1>1. \/ tx' = <<QueueStatus(q)>>
      \/ \E i \in DOMAIN q :
           tx' = Append(<<QueueStatus(q)>>, QueueStatus(SetStatus(q, i, "Running")))
  BY Zenon DEF StartNext
<1> QED BY <1>1, NoAnswer, Zenon

\* A step that answers finds the reload open and leaves it closed.
LEMMA AnswerStep == Inv /\ [Next]_vars => [Answers(tx') # {} => owed /\ ~owed']_vars
<1> SUFFICES ASSUME Inv, Next, Answers(tx') # {} PROVE owed /\ ~owed'
  OBVIOUS
<1>1. tx' # <<>>
  BY NoAnswer
<1>2. ~Environment
  BY <1>1 DEF Environment, DeliverServerHello, DeliverSyncResponse, DeliverSettingsCommit, Deliver
<1>3. ~Restart /\ ~Poll /\ ~ExecuteDone
  BY <1>1 DEF Restart, Poll, ExecuteDone
<1>4. ~Schedule
  BY <1>1 DEF Schedule, ScheduleInit, ScheduleHelloRetry, ScheduleReloadTimeout, ScheduleSync,
              ScheduleNothing, SchedulePost
<1>5. /\ ~OnSendClientHello /\ ~OnSendSyncRequest /\ ~OnReloadFailed
      /\ ~OnServerHello /\ ~OnSyncResponse
  BY <1>1, Zenon DEF OnSendClientHello, OnSendSyncRequest, OnReloadFailed, OnSend,
                     OnServerHello, OnSyncResponse, PostAction
<1>6. ~OnSettingsCommit
  <2> DEFINE q == Append(queue, [id |-> nextId, payload |-> Head(eventQ).payload,
                                 status |-> "Pending"])
  <2>1. SUFFICES ASSUME OnSettingsCommit PROVE FALSE
    OBVIOUS
  <2>2. \/ tx' = <<>> \/ tx' = <<QueueStatus(q)>>
        \/ StartNext(q, actionQ, <<QueueStatus(q)>>)
    BY <2>1, Zenon DEF OnSettingsCommit
  <2> HIDE DEF q
  <2> QED BY <2>2, NoAnswer, StartNextNoAnswer, Zenon
<1>7. ASSUME NEW type, NEW outcome, FinishTask(type, outcome) PROVE FALSE
  <2>1. PICK q : TrimAndStart(q)
    BY <1>7, Zenon DEF FinishTask
  <2>2. PICK kept : StartNext(kept, actionQ, <<QueueStatus(kept)>>)
    BY <2>1, Zenon DEF TrimAndStart
  <2> QED BY <2>2, StartNextNoAnswer, Zenon
<1>8. ~SendClientHello /\ ~SendSyncRequest
  <2>1. Answers(<<[cmd |-> "ClientHello"]>>) = {} /\ Answers(<<[cmd |-> "SyncRequest"]>>) = {}
    BY DEF Answers
  <2>2. SendClientHello => tx' \in {<<>>, <<[cmd |-> "ClientHello"]>>}
    BY Zenon DEF SendClientHello
  <2>3. SendSyncRequest => tx' \in {<<>>, <<[cmd |-> "SyncRequest"]>>}
    BY Zenon DEF SendSyncRequest
  <2> QED BY <1>1, <2>1, <2>2, <2>3, Zenon
<1>9. ~ApplyCommit
  <2>1. SUFFICES ASSUME ApplyCommit PROVE FALSE
    OBVIOUS
  <2>2. \/ tx' = <<>> \/ tx' = ConfigApplyFanOut
        \/ \E q : StartNext(q, Tail(actionQ), <<QueueStatus(q)>>)
    BY <2>1, Zenon DEF ApplyCommit, ApplyFails, ApplySucceeds
  <2> QED BY <2>2, NoAnswer, StartNextNoAnswer, Zenon
<1>10. CASE SendRuntimeStart
  <2>1. Answers(<<[cmd |-> "RuntimeStart", target |-> target]>>) = {}
    BY DEF Answers
  <2>2. isReload /\ owed' = FALSE
    BY <1>10, <2>1, Zenon DEF SendRuntimeStart
  <2> QED BY <2>2 DEF Inv, AnswerPending
<1>11. CASE SendReloadFailed
  <2>1. /\ actionQ \in Seq(Action) /\ actionQ # <<>> /\ Head(actionQ) = "SendReloadFailed"
        /\ owed' = FALSE
    BY <1>11 DEF SendReloadFailed, TakeAction, Inv, TypeOK
  <2>2. 1 \in ActionsAt(actionQ, {"SendReloadFailed"})
    BY <2>1, TailAction
  <2> QED BY <2>1, <2>2 DEF Inv, AnswerPending
<1> QED
  BY <1>2, <1>3, <1>4, <1>5, <1>6, <1>7, <1>8, <1>9, <1>10, <1>11
     DEF Next, Tick, ExecuteEvent, ExecuteAction, OnReloadCompleteEvent, OnReloadFailedEvent

\* Every SettingsCommitResponse answers an open reload, once.
THEOREM AnswerOnceAlways == Spec => AnswerOnce
BY Invariance, AnswerStep, PTL DEF Spec, AnswerOnce

=============================================================================
