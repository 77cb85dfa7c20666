---------------------------- MODULE FleetProofs -----------------------------
(***************************************************************************)
(* TLAPS proofs about the fleet, for every set of service daemons and any  *)
(* number of commits, connections and crashes.                             *)
(*                                                                         *)
(* First one lemma per step of the fleet says what the step does to the    *)
(* connections (EngineWrites to DaemonRead); everything later cites these. *)
(* The invariants rest on each other:                                      *)
(*   FleetTypes  who may have written which frame;                         *)
(*   Link        a daemon's connection: what is on it belongs to the       *)
(*               process that lives, and reports what that process loaded; *)
(*   Heard       what engined was told of a daemon is still true of it,    *)
(*               however late the report is read;                          *)
(*   Quiet       until every daemon has said hello nobody is told to       *)
(*               start;                                                    *)
(*   Awaited     a blessed generation's RuntimeStart is ahead of it;       *)
(*   Told        the newest status under way is that of the queue.         *)
(***************************************************************************)
EXTENDS Fleet, EngineCommitProofs, FiniteSetTheorems

(***************************************************************************)
(* The frames on the connections                                           *)
(***************************************************************************)
DaemonMsg == [cmd : {"ClientHello"}] \cup [cmd : {"RuntimeReady"}, applied : Nat]

TaskStatus == [id : Nat, status : Status]

EngineMsg ==
  [cmd : {"ClientHello", "SyncRequest"}]
    \cup [cmd : {"RuntimeStart"}, target : Nat]
    \cup [cmd : {"SettingsCommitResponse"}, ok : BOOLEAN, target : Nat]
    \cup [cmd : {"SettingsCommitStatus"}, tasks : Seq(TaskStatus)]
    \cup [cmd : {"ConfigApply"}, dst : Daemons]

MgmtdMsg == [cmd : {"SettingsCommitRequest"}, payload : Payloads]

SentBy(p) ==
  CASE p = "engined" -> {HangUp} \cup EngineMsg
    [] p = "mgmtd" -> MgmtdMsg
    [] OTHER -> {HangUp} \cup DaemonMsg

OwnMsg == [cmd : {"ClientHello", "SyncRequest"}] \cup [cmd : {"RuntimeReady"}, applied : Nat]

IpcdEvent == [src : Peers, msg : OwnMsg]

Frame == {HangUp} \cup DaemonMsg \cup EngineMsg \cup MgmtdMsg \cup RxMsg

Route == [bound : BOOLEAN, ready : BOOLEAN, applied : Nat, generation : Nat]

UpOK ==
  /\ up \in [Peers -> Seq(Frame)]
  /\ \A p \in Peers : up[p] \in Seq(SentBy(p))

\* Every frame is one that its sender writes.
WireOK ==
  /\ UpOK
  /\ ipcdEv \in Seq(IpcdEvent)
  /\ down \in [Peers \ {"engined"} -> Seq(Frame)]

FleetTypes == FleetTypeOK /\ WireOK

(***************************************************************************)
(* Connections                                                             *)
(***************************************************************************)
\* The process at the other end of d's route is the one that runs.
Live(d) == table[d].bound /\ ~HungUp(d)

\* A hang-up is the first thing on a connection; a process that is gone has hung up; what a
\* daemon has received, and every state it reached by receiving, came over a live route; and
\* the first frame of a connection is a ClientHello.
Connected(d) ==
  /\ \A i \in 2 .. Len(up[d]) : up[d][i].cmd # "HangUp"
  /\ dstate[d] = "Down" => ~Live(d) /\ (up[d] = <<>> \/ up[d] = <<HangUp>>)
  /\ down[d] # <<>> \/ dstate[d] \in {"WaitRuntimeStart", "Running"} => Live(d)
  /\ ~Live(d) => \A i \in 1 .. Len(up[d]) : up[d][i].cmd \in {"HangUp", "ClientHello"}

\* Wherever a report of the version travels, it is the version the process loaded.
Reported(d) ==
  /\ \A i \in 1 .. Len(up[d]) : up[d][i].cmd = "RuntimeReady" => up[d][i].applied = loaded[d]
  /\ Live(d) =>
       /\ table[d].applied \in {0, loaded[d]}
       /\ \A i \in Marks(d) : ipcdEv[i].msg.applied = loaded[d]

(***************************************************************************)
(* What engined has heard of a daemon                                      *)
(***************************************************************************)
Met(d) == table[d].generation > 0

HasCmd(s, cmd) == \E i \in DOMAIN s : s[i].cmd = cmd

\* A generation g of d that engined knows: not newer than the table's, and if it is the current
\* one the daemon has its ServerHello.
Known(d, g) ==
  /\ g <= table[d].generation
  /\ g = table[d].generation /\ Live(d) /\ dstate[d] = "WaitServerHello"
       => HasCmd(down[d], "ServerHello")

HeardOf(d, r) == r.listed => Met(d) /\ Known(d, r.generation)

EventsHeard(d, es) ==
  \A i \in DOMAIN es : es[i].type = "ReceiveSyncResponse" => HeardOf(d, es[i].report[d])

RepliesHeard(d, ms) ==
  \A i \in DOMAIN ms : ms[i].cmd = "SyncResponse" => HeardOf(d, ms[i].report[d])

\* What ipcd knows of d.
Greeted(d) ==
  /\ table[d].bound => Met(d)
  /\ Live(d) /\ dstate[d] = "WaitServerHello"
       => HasCmd(down[d], "ServerHello") \/ Asked(d, "ClientHello")

\* What engined knows of d.
Heard(d) ==
  /\ RepliesHeard(d, rx)
  /\ EventsHeard(d, eventQ)
  /\ procs[d].connected => Met(d)
  /\ Known(d, procs[d].generation)
  /\ Known(d, procs[d].blessed)

\* A RuntimeStart waits behind a ServerHello.
Queued(s) == \E i, j \in DOMAIN s : i < j /\ s[i].cmd = "ServerHello" /\ s[j].cmd = "RuntimeStart"

\* The RuntimeStart that goes with a blessed generation has not been lost: it is on its way, or
\* waits behind the ServerHello that the daemon has yet to read.
Awaited(d) ==
  /\ dstate[d] = "WaitRuntimeStart" =>
       \/ procs[d].blessed < table[d].generation
       \/ InFlight("engined", "RuntimeStart")
       \/ HasCmd(down[d], "RuntimeStart")
  /\ dstate[d] = "WaitServerHello" /\ Live(d) =>
       \/ procs[d].blessed < table[d].generation
       \/ InFlight("engined", "RuntimeStart")
       \/ Queued(down[d])

(***************************************************************************)
(* The status of the commit queue, on its way to the console               *)
(***************************************************************************)
StatusAt(s) == {i \in DOMAIN s : s[i].cmd = "SettingsCommitStatus"}

\* The newest of the statuses on the way is that of the queue as it is.
NewestIs(s, status) == \A i \in StatusAt(s) : (\A j \in StatusAt(s) : j <= i) => s[i] = status

(***************************************************************************)
(* Helpers                                                                 *)
(***************************************************************************)
\* kServiceDaemons names neither engined nor mgmtd.
LEMMA PeersApart ==
  /\ "engined" \notin Daemons /\ "mgmtd" \notin Daemons
  /\ "engined" \in Peers /\ "mgmtd" \in Peers /\ Daemons \subseteq Peers
  /\ \A d \in Daemons : d \in Peers \ {"engined"} /\ d # "engined" /\ d # "mgmtd"
  /\ "mgmtd" \in Peers \ {"engined"}
BY FleetAssumption DEF Peers

\* What each peer writes.
LEMMA Senders ==
  /\ SentBy("engined") = {HangUp} \cup EngineMsg
  /\ SentBy("mgmtd") = MgmtdMsg
  /\ \A d \in Daemons : SentBy(d) = {HangUp} \cup DaemonMsg
  /\ \A p \in Peers : SentBy(p) \subseteq Frame
BY PeersApart DEF SentBy, Frame, Peers

\* A frame of the wire and its command.
LEMMA Commands ==
  /\ \A m \in DaemonMsg : m.cmd \in {"ClientHello", "RuntimeReady"}
  /\ \A m \in EngineMsg : m.cmd \in {"ClientHello", "SyncRequest", "RuntimeStart",
                                     "SettingsCommitResponse", "SettingsCommitStatus",
                                     "ConfigApply"}
  /\ \A m \in MgmtdMsg : m.cmd = "SettingsCommitRequest"
  /\ HangUp.cmd = "HangUp"
BY DEF DaemonMsg, EngineMsg, MgmtdMsg, HangUp

\* Concatenation keeps both parts.
LEMMA HasConcat ==
  ASSUME NEW S, NEW s \in Seq(S), NEW t \in Seq(S), NEW cmd
  PROVE  HasCmd(s \o t, cmd) <=> HasCmd(s, cmd) \/ HasCmd(t, cmd)
<1> DEFINE r == s \o t
<1>1. /\ r \in Seq(S) /\ DOMAIN r = 1 .. Len(s) + Len(t)
      /\ \A i \in 1 .. Len(s) + Len(t) : r[i] = IF i <= Len(s) THEN s[i] ELSE t[i - Len(s)]
  BY ConcatProperties
<1>2. DOMAIN s = 1 .. Len(s) /\ DOMAIN t = 1 .. Len(t) /\ Len(s) \in Nat /\ Len(t) \in Nat
  OBVIOUS
<1> HIDE DEF r
<1>3. ASSUME NEW i \in DOMAIN r, r[i].cmd = cmd PROVE HasCmd(s, cmd) \/ HasCmd(t, cmd)
  <2>1. CASE i <= Len(s)
    BY <1>1, <1>2, <1>3, <2>1 DEF HasCmd
  <2>2. CASE i > Len(s)
    <3>1. i - Len(s) \in DOMAIN t /\ r[i] = t[i - Len(s)]
      BY <1>1, <1>2, <2>2
    <3> QED BY <1>3, <3>1 DEF HasCmd
  <2> QED BY <1>1, <1>2, <2>1, <2>2
<1>4. ASSUME NEW i \in DOMAIN s, s[i].cmd = cmd PROVE HasCmd(r, cmd)
  BY <1>1, <1>2, <1>4 DEF HasCmd
<1>5. ASSUME NEW i \in DOMAIN t, t[i].cmd = cmd PROVE HasCmd(r, cmd)
  <2>1. i + Len(s) \in DOMAIN r /\ r[i + Len(s)] = t[i]
    BY <1>1, <1>2
  <2> QED BY <1>5, <2>1 DEF HasCmd
<1>6. HasCmd(r, cmd) => HasCmd(s, cmd) \/ HasCmd(t, cmd)
  BY <1>3 DEF HasCmd
<1>7. HasCmd(s, cmd) \/ HasCmd(t, cmd) => HasCmd(r, cmd)
  BY <1>4, <1>5 DEF HasCmd
<1> QED BY <1>6, <1>7 DEF r

\* So does reading the first frame.
LEMMA HasTail ==
  ASSUME NEW S, NEW s \in Seq(S), s # <<>>, NEW cmd
  PROVE  /\ Head(s) \in S /\ Tail(s) \in Seq(S)
         /\ HasCmd(s, cmd) <=> Head(s).cmd = cmd \/ HasCmd(Tail(s), cmd)
<1>1. /\ Head(s) \in S /\ Tail(s) \in Seq(S) /\ Head(s) = s[1]
      /\ DOMAIN s = 1 .. Len(s) /\ DOMAIN Tail(s) = 1 .. Len(s) - 1 /\ Len(s) \in Nat \ {0}
      /\ \A i \in 1 .. Len(s) - 1 : Tail(s)[i] = s[i + 1]
  BY HeadTailProperties
<1>2. ASSUME NEW i \in DOMAIN s, s[i].cmd = cmd
      PROVE Head(s).cmd = cmd \/ HasCmd(Tail(s), cmd)
  <2>1. CASE i = 1
    BY <1>1, <1>2, <2>1
  <2>2. CASE i # 1
    <3>1. i - 1 \in DOMAIN Tail(s) /\ Tail(s)[i - 1] = s[i]
      BY <1>1, <2>2
    <3> QED BY <1>2, <3>1 DEF HasCmd
  <2> QED BY <2>1, <2>2
<1>3. ASSUME NEW i \in DOMAIN Tail(s), Tail(s)[i].cmd = cmd PROVE HasCmd(s, cmd)
  <2>1. i + 1 \in DOMAIN s /\ s[i + 1] = Tail(s)[i]
    BY <1>1
  <2> QED BY <1>3, <2>1 DEF HasCmd
<1>4. Head(s).cmd = cmd => HasCmd(s, cmd)
  BY <1>1 DEF HasCmd
<1>5. HasCmd(s, cmd) => Head(s).cmd = cmd \/ HasCmd(Tail(s), cmd)
  BY <1>2 DEF HasCmd
<1>6. HasCmd(Tail(s), cmd) => HasCmd(s, cmd)
  BY <1>3 DEF HasCmd
<1> QED BY <1>1, <1>4, <1>5, <1>6

\* A nonempty set of positions has a last one.
LEMMA LatestIn ==
  ASSUME NEW n \in Nat, NEW S \in SUBSET (1 .. n), S # {}
  PROVE  Latest(S) \in S /\ \A j \in S : j <= Latest(S)
<1> DEFINE Above(i) == {j \in S : j > i}
           T == {Above(i) : i \in S}
<1>1. IsFiniteSet(1 .. n)
  BY FS_Interval
<1>2. T \subseteq FiniteSubsetsOf(Nat)
  <2>1. SUFFICES ASSUME NEW i \in S PROVE IsFiniteSet(Above(i)) /\ Above(i) \in SUBSET Nat
    BY DEF FiniteSubsetsOf
  <2>2. Above(i) \in SUBSET (1 .. n)
    OBVIOUS
  <2> QED BY <1>1, <2>2, FS_Subset
<1>3. T # {}
  OBVIOUS
<1>4. IsWellFoundedOn(StrictSubsetOrdering(Nat), FiniteSubsetsOf(Nat))
  BY FS_StrictSubsetOrderingWellFounded
<1>5. PICK x \in T : \A y \in T : ~ (<<y, x>> \in StrictSubsetOrdering(Nat))
  <2> HIDE DEF T
  <2> QED BY <1>2, <1>3, <1>4, WFMin, Zenon
<1>6. PICK i \in S : x = Above(i)
  OBVIOUS
<1>7. ASSUME NEW j \in S PROVE j <= i
  <2>1. SUFFICES ASSUME j > i PROVE FALSE
    OBVIOUS
  <2>2. Above(j) \subseteq Above(i) /\ j \in Above(i) /\ j \notin Above(j)
    <3>1. \A h \in S : h \in Nat
      OBVIOUS
    <3>2. \A h \in S : h > j => h > i
      BY <2>1, <3>1
    <3>3. ~(j > j)
      BY <3>1
    <3> QED BY <2>1, <3>2, <3>3
  <2>3. <<Above(j), Above(i)>> \in StrictSubsetOrdering(Nat)
    <3>1. Above(j) \in SUBSET Nat /\ Above(i) \in SUBSET Nat
      <4>1. \A h \in S : h \in Nat
        OBVIOUS
      <4> QED BY <4>1
    <3>2. Above(j) # Above(i)
      BY <2>2
    <3> HIDE DEF Above
    <3> QED BY <2>2, <3>1, <3>2 DEF StrictSubsetOrdering
  <2> QED BY <1>5, <1>6, <2>3
<1> QED BY <1>7 DEF Latest

\* Every position of a set has a number in it.
LEMMA NthOnto ==
  ASSUME NEW n \in Nat, NEW S \in SUBSET (1 .. n), NEW i \in S
  PROVE  /\ IsFiniteSet(S) /\ Cardinality(S) \in Nat
         /\ \E k \in 1 .. Cardinality(S) : Nth(S, k) = i
<1> DEFINE Upto(j) == {h \in S : h <= j}
<1>1. IsFiniteSet(S) /\ Cardinality(S) \in Nat
  <2>1. IsFiniteSet(1 .. n)
    BY FS_Interval
  <2>2. IsFiniteSet(S)
    BY <2>1, FS_Subset
  <2> QED BY <2>2, FS_CardinalityType
<1>2. \A j \in S : Upto(j) \in SUBSET S /\ IsFiniteSet(Upto(j)) /\ Cardinality(Upto(j)) \in Nat
                   /\ Cardinality(Upto(j)) <= Cardinality(S)
  BY <1>1, FS_Subset, FS_CardinalityType
<1>3. Cardinality(Upto(i)) # 0
  <2>1. i \in Upto(i)
    OBVIOUS
  <2> QED BY <1>2, <2>1, FS_EmptySet
<1>4. ASSUME NEW j \in S, NEW h \in S, j < h PROVE Cardinality(Upto(j)) # Cardinality(Upto(h))
  <2>1. Upto(j) \in SUBSET Upto(h) /\ h \in Upto(h) /\ h \notin Upto(j)
    <3>1. \A k \in S : k \in Nat
      OBVIOUS
    <3>2. \A k \in S : k <= j => k <= h
      BY <1>4, <3>1
    <3>3. h <= h /\ ~(h <= j)
      BY <1>4, <3>1
    <3> QED BY <3>2, <3>3
  <2>2. IsFiniteSet(Upto(h))
    BY <1>2
  <2> HIDE DEF Upto
  <2> QED BY <2>1, <2>2, FS_Subset
<1>5. \A j \in S : Cardinality(Upto(j)) = Cardinality(Upto(i)) => j = i
  <2>1. \A j \in S : j < i \/ i < j \/ j = i
    OBVIOUS
  <2> QED BY <1>4, <2>1
<1>6. Nth(S, Cardinality(Upto(i))) = i
  BY <1>5 DEF Nth
<1>7. Cardinality(Upto(i)) \in 1 .. Cardinality(S)
  BY <1>1, <1>2, <1>3
<1> QED BY <1>1, <1>6, <1>7

(***************************************************************************)
(* What engined sends                                                      *)
(***************************************************************************)
\* A status of a queue of tasks is a message of engined.
LEMMA StatusType ==
  ASSUME NEW q \in Seq(Task)
  PROVE  QueueStatus(q) \in EngineMsg /\ QueueStatus(q).cmd = "SettingsCommitStatus"
<1> DEFINE ts == [i \in DOMAIN q |-> [id |-> q[i].id, status |-> q[i].status]]
<1>1. \A i \in 1 .. Len(q) : [id |-> q[i].id, status |-> q[i].status] \in TaskStatus
  <2>1. \A i \in 1 .. Len(q) : q[i] \in Task
    OBVIOUS
  <2> QED BY <2>1 DEF Task, TaskStatus
<1>2. ts \in Seq(TaskStatus)
  BY <1>1
<1> HIDE DEF ts
<1>3. [cmd |-> "SettingsCommitStatus", tasks |-> ts] \in EngineMsg
  BY <1>2 DEF EngineMsg
<1> QED BY <1>3 DEF QueueStatus, ts

\* The newest status in out, and the last word on the queue when there is none.
Speaks(out, q, r) ==
  /\ out \in Seq(EngineMsg)
  /\ NewestIs(out, QueueStatus(r))
  /\ StatusAt(out) = {} => r = q

\* A message that is no status says nothing of the queue.
LEMMA SpeaksNot ==
  ASSUME NEW out \in Seq(EngineMsg), NEW q, \A i \in DOMAIN out : out[i].cmd # "SettingsCommitStatus"
  PROVE  Speaks(out, q, q)
BY DEF Speaks, NewestIs, StatusAt

\* startNext's last status is that of the queue it leaves.
LEMMA SpeaksStart ==
  ASSUME NEW q \in Seq(Task), NEW acts, NEW old, StartNext(q, acts, <<QueueStatus(q)>>)
  PROVE  Speaks(tx', old, queue') /\ ~HasCmd(tx', "RuntimeStart")
<1>1. CASE queue' = q /\ tx' = <<QueueStatus(q)>>
  <2> DEFINE m == QueueStatus(q)
  <2>1. m \in EngineMsg /\ m.cmd = "SettingsCommitStatus"
    BY StatusType
  <2>2. queue' = q /\ tx' = <<m>>
    BY <1>1
  <2>3. <<m>> \in Seq(EngineMsg) /\ DOMAIN <<m>> = {1} /\ <<m>>[1] = m
    BY <2>1
  <2>4. NewestIs(<<m>>, m) /\ StatusAt(<<m>>) # {}
    BY <2>1, <2>3 DEF NewestIs, StatusAt
  <2>5. ~HasCmd(<<m>>, "RuntimeStart")
    BY <2>1, <2>3 DEF HasCmd
  <2> QED BY <2>2, <2>3, <2>4, <2>5 DEF Speaks
<1>2. ASSUME NEW i \in DOMAIN q, queue' = SetStatus(q, i, "Running"),
             tx' = Append(<<QueueStatus(q)>>, QueueStatus(SetStatus(q, i, "Running")))
      PROVE  Speaks(tx', old, queue') /\ ~HasCmd(tx', "RuntimeStart")
  <2> DEFINE m == QueueStatus(q)
             n == QueueStatus(queue')
             out == Append(<<m>>, n)
  <2>1. queue' \in Seq(Task)
    BY <1>2, SetStatusFacts DEF Status
  <2>2. /\ m \in EngineMsg /\ m.cmd = "SettingsCommitStatus"
        /\ n \in EngineMsg /\ n.cmd = "SettingsCommitStatus"
    BY <2>1, StatusType
  <2>3. tx' = out
    BY <1>2
  <2> HIDE DEF m, n
  <2>4. /\ out \in Seq(EngineMsg) /\ DOMAIN out = {1, 2}
        /\ out[1] = m /\ out[2] = n
    <3>1. <<m>> \in Seq(EngineMsg) /\ Len(<<m>>) = 1 /\ <<m>>[1] = m
      BY <2>2
    <3>2. out \in Seq(EngineMsg) /\ Len(out) = 2 /\ out[1] = m /\ out[2] = n
      BY <2>2, <3>1, AppendProperties
    <3> QED BY <3>2
  <2> HIDE DEF out
  <2>5. NewestIs(out, n) /\ StatusAt(out) # {}
    BY <2>2, <2>4 DEF NewestIs, StatusAt
  <2>6. ~HasCmd(out, "RuntimeStart")
    BY <2>2, <2>4 DEF HasCmd
  <2> QED BY <2>3, <2>4, <2>5, <2>6 DEF Speaks, n
<1> QED
  <2>1. \/ queue' = q /\ tx' = <<QueueStatus(q)>>
        \/ \E i \in DOMAIN q :
             /\ queue' = SetStatus(q, i, "Running")
             /\ tx' = Append(<<QueueStatus(q)>>, QueueStatus(SetStatus(q, i, "Running")))
    BY Zenon DEF StartNext
  <2> QED BY <1>1, <1>2, <2>1

\* Every tick step sends messages of engined, tells the console what became of the queue, and
\* a RuntimeStart leaves only by the action of that name.
LEMMA TickSends ==
  ASSUME TypeOK, Tick
  PROVE  /\ Speaks(tx', queue, queue')
         /\ HasCmd(tx', "RuntimeStart") => SendRuntimeStart
<1> DEFINE Goal == Speaks(tx', queue, queue') /\ (HasCmd(tx', "RuntimeStart") => SendRuntimeStart)
<1> SUFFICES Goal
  OBVIOUS
<1> USE DEF commitVars
<1>a. queue \in Seq(Task) /\ target \in Nat
  BY DEF TypeOK
<1>0. ASSUME tx' = <<>>, queue' = queue PROVE Goal
  <2>1. <<>> \in Seq(EngineMsg) /\ DOMAIN <<>> = {}
    OBVIOUS
  <2>2. Speaks(<<>>, queue, queue)
    BY <2>1, SpeaksNot
  <2>3. ~HasCmd(<<>>, "RuntimeStart")
    BY <2>1 DEF HasCmd
  <2> QED BY <1>0, <2>2, <2>3
<1>1. ASSUME NEW m \in EngineMsg, m.cmd \notin {"SettingsCommitStatus", "RuntimeStart"},
             tx' = <<m>>, queue' = queue
      PROVE  Goal
  <2>1. <<m>> \in Seq(EngineMsg) /\ DOMAIN <<m>> = {1} /\ <<m>>[1] = m
    BY <1>1
  <2> QED BY <1>1, <2>1, SpeaksNot DEF HasCmd
<1>2. ASSUME NEW q \in Seq(Task), NEW acts, StartNext(q, acts, <<QueueStatus(q)>>) PROVE Goal
  BY <1>2, SpeaksStart
<1> HIDE DEF Goal
<1>3. CASE Poll \/ Schedule \/ ExecuteDone
  <2>1. tx' = <<>> /\ queue' = queue
    BY <1>3, Zenon DEF Poll, Schedule, ExecuteDone, ScheduleInit, ScheduleHelloRetry,
       ScheduleReloadTimeout, ScheduleSync, ScheduleNothing, SchedulePost
  <2> QED BY <1>0, <2>1, Zenon
<1>4. CASE OnSendClientHello \/ OnSendSyncRequest \/ OnReloadFailed \/ OnServerHello \/ OnSyncResponse
  <2>1. tx' = <<>> /\ queue' = queue
    BY <1>4, Zenon DEF OnSendClientHello, OnSendSyncRequest, OnReloadFailed, OnSend,
       OnServerHello, OnSyncResponse, PostAction
  <2> QED BY <1>0, <2>1, Zenon
<1>5. CASE OnSettingsCommit
  <2> DEFINE t == [id |-> nextId, payload |-> Head(eventQ).payload, status |-> "Pending"]
             q == Append(queue, t)
  <2>1. t \in Task
    <3>1. /\ eventQ \in Seq(Event) /\ eventQ # <<>> /\ Head(eventQ).type = "ReceiveSettingsCommit"
          /\ nextId \in Nat
      BY <1>5 DEF OnSettingsCommit, TakeEvent, TypeOK
    <3>2. Head(eventQ) \in Event
      BY <3>1
    <3>3. Head(eventQ).payload \in Payloads
      BY <3>1, <3>2 DEF Event, PlainEvents
    <3> QED BY <3>1, <3>3 DEF Task, Status
  <2> HIDE DEF t
  <2>2. q \in Seq(Task)
    BY <1>a, <2>1
  <2>3. \/ tx' = <<>> /\ queue' = queue
        \/ queue' = q /\ tx' = <<QueueStatus(q)>>
        \/ StartNext(q, actionQ, <<QueueStatus(q)>>)
    BY <1>5, Zenon DEF OnSettingsCommit, t
  <2> HIDE DEF q
  <2>4. CASE queue' = q /\ tx' = <<QueueStatus(q)>>
    <3> DEFINE m == QueueStatus(q)
    <3>1. m \in EngineMsg /\ m.cmd = "SettingsCommitStatus"
      BY <2>2, StatusType
    <3>2. queue' = q /\ tx' = <<m>>
      BY <2>4
    <3>3. <<m>> \in Seq(EngineMsg) /\ DOMAIN <<m>> = {1} /\ <<m>>[1] = m
      BY <3>1
    <3>4. NewestIs(<<m>>, m) /\ StatusAt(<<m>>) # {}
      BY <3>1, <3>3 DEF NewestIs, StatusAt
    <3>5. ~HasCmd(<<m>>, "RuntimeStart")
      BY <3>1, <3>3 DEF HasCmd
    <3> QED BY <3>2, <3>3, <3>4, <3>5 DEF Speaks, Goal
  <2> QED BY <1>0, <1>2, <2>2, <2>3, <2>4, Zenon
<1>6. ASSUME NEW type, NEW outcome \in {"Done", "Failed"}, FinishTask(type, outcome) PROVE Goal
  <2>1. PICK q \in Seq(Task) : TrimAndStart(q)
    <3>1. CASE Has(queue, "Running")
      <4>1. PICK i \in DOMAIN queue : TrimAndStart(SetStatus(queue, i, outcome))
        BY <1>6, <3>1, Zenon DEF FinishTask
      <4>2. SetStatus(queue, i, outcome) \in Seq(Task)
        BY <1>a, SetStatusFacts DEF Status
      <4> QED BY <4>1, <4>2
    <3>2. CASE ~Has(queue, "Running")
      BY <1>a, <1>6, <3>2, Zenon DEF FinishTask
    <3> QED BY <3>1, <3>2
  <2>2. PICK n \in 0 .. Len(q) :
          StartNext(SubSeq(q, n + 1, Len(q)), actionQ, <<QueueStatus(SubSeq(q, n + 1, Len(q)))>>)
    BY <2>1, Zenon DEF TrimAndStart
  <2>3. SubSeq(q, n + 1, Len(q)) \in Seq(Task)
    OBVIOUS
  <2> QED BY <1>2, <2>2, <2>3
<1>7. CASE SendClientHello \/ SendSyncRequest \/ SendReloadFailed
  <2>1. /\ [cmd |-> "ClientHello"] \in EngineMsg /\ [cmd |-> "SyncRequest"] \in EngineMsg
    BY DEF EngineMsg
  <2>2. SettingsCommitResponse(FALSE, target) \in EngineMsg
    BY <1>a DEF EngineMsg, SettingsCommitResponse
  <2>3. SettingsCommitResponse(FALSE, target).cmd = "SettingsCommitResponse"
    BY DEF SettingsCommitResponse
  <2>4. queue' = queue /\ \/ tx' = <<>> \/ tx' = <<[cmd |-> "ClientHello"]>>
                          \/ tx' = <<[cmd |-> "SyncRequest"]>>
                          \/ tx' = <<SettingsCommitResponse(FALSE, target)>>
    BY <1>7, Zenon DEF SendClientHello, SendSyncRequest, SendReloadFailed
  <2>5. /\ [cmd |-> "ClientHello"].cmd \notin {"SettingsCommitStatus", "RuntimeStart"}
        /\ [cmd |-> "SyncRequest"].cmd \notin {"SettingsCommitStatus", "RuntimeStart"}
        /\ SettingsCommitResponse(FALSE, target).cmd \notin {"SettingsCommitStatus", "RuntimeStart"}
    BY <2>3
  <2> QED BY <1>0, <1>1, <2>1, <2>2, <2>4, <2>5, Zenon
<1>8. CASE SendRuntimeStart
  <2> DEFINE m == [cmd |-> "RuntimeStart", target |-> target]
             n == SettingsCommitResponse(TRUE, target)
  <2>1. m \in EngineMsg /\ n \in EngineMsg /\ m.cmd = "RuntimeStart" /\ n.cmd = "SettingsCommitResponse"
    BY <1>a DEF EngineMsg, SettingsCommitResponse
  <2>2. queue' = queue /\ (tx' = <<m, n>> \/ tx' = <<m>>)
    BY <1>8, Zenon DEF SendRuntimeStart
  <2> HIDE DEF m, n
  <2>3. tx' \in Seq(EngineMsg) /\ \A i \in DOMAIN tx' : tx'[i].cmd # "SettingsCommitStatus"
    <3>1. /\ <<m, n>> \in Seq(EngineMsg)
          /\ \A i \in DOMAIN <<m, n>> : <<m, n>>[i].cmd # "SettingsCommitStatus"
      BY <2>1
    <3>2. /\ <<m>> \in Seq(EngineMsg)
          /\ \A i \in DOMAIN <<m>> : <<m>>[i].cmd # "SettingsCommitStatus"
      BY <2>1
    <3> QED BY <2>2, <3>1, <3>2, Zenon
  <2> QED BY <1>8, <2>2, <2>3, SpeaksNot DEF Goal
<1>9. CASE ApplyCommit
  <2>1. \/ tx' = <<>> /\ queue' = queue
        \/ tx' = ConfigApplyFanOut /\ queue' = queue
        \/ \E i \in DOMAIN queue :
             StartNext(SetStatus(queue, i, "Failed"), Tail(actionQ),
                       <<QueueStatus(SetStatus(queue, i, "Failed"))>>)
    BY <1>9, Zenon DEF ApplyCommit, ApplyFails, ApplySucceeds
  <2>2. \A i \in DOMAIN queue : SetStatus(queue, i, "Failed") \in Seq(Task)
    BY <1>a, SetStatusFacts DEF Status
  <2>3. CASE tx' = ConfigApplyFanOut /\ queue' = queue
    <3>1. ServiceDaemons \in Seq(STRING)
      BY EngineAssumption
    <3>2. \A i \in 1 .. Len(ServiceDaemons) :
            [cmd |-> "ConfigApply", dst |-> ServiceDaemons[i]] \in EngineMsg
      BY <3>1 DEF EngineMsg, Daemons
    <3>3. ConfigApplyFanOut \in Seq(EngineMsg)
      <4>1. ConfigApplyFanOut = [i \in 1 .. Len(ServiceDaemons) |->
                                   [cmd |-> "ConfigApply", dst |-> ServiceDaemons[i]]]
        BY <3>1 DEF ConfigApplyFanOut
      <4>2. \A i \in 1 .. Len(ServiceDaemons) : ConfigApplyFanOut[i] \in EngineMsg
        BY <3>2, <4>1
      <4>3. ConfigApplyFanOut = [i \in 1 .. Len(ServiceDaemons) |-> ConfigApplyFanOut[i]]
        BY <4>1
      <4>4. Len(ServiceDaemons) \in Nat
        BY <3>1
      <4> QED BY <4>2, <4>3, <4>4
    <3>4. \A i \in DOMAIN ConfigApplyFanOut : ConfigApplyFanOut[i].cmd = "ConfigApply"
      BY DEF ConfigApplyFanOut
    <3> QED BY <2>3, <3>3, <3>4, SpeaksNot DEF Goal, HasCmd
  <2> QED BY <1>0, <1>2, <2>1, <2>2, <2>3, Zenon
<1> QED
  BY <1>3, <1>4, <1>5, <1>6, <1>7, <1>8, <1>9, Zenon
     DEF Tick, ExecuteEvent, ExecuteAction, OnReloadCompleteEvent, OnReloadFailedEvent

(***************************************************************************)
(* The steps of the fleet, as far as the connections see them              *)
(***************************************************************************)
\* A new content of one connection.
LEMMA UpSet ==
  ASSUME UpOK, NEW p \in Peers, NEW s \in Seq(SentBy(p)), up' = [up EXCEPT ![p] = s]
  PROVE  /\ UpOK'
         /\ up'[p] = s
         /\ \A q \in Peers \ {p} : up'[q] = up[q]
<1>1. s \in Seq(Frame)
  <2>1. SentBy(p) \subseteq Frame
    BY Senders
  <2> QED BY <2>1
<1>2. up' \in [Peers -> Seq(Frame)]
  BY <1>1 DEF UpOK
<1>3. \A q \in Peers : up'[q] = IF q = p THEN s ELSE up[q]
  BY DEF UpOK
<1>4. \A q \in Peers : up'[q] \in Seq(SentBy(q))
  BY <1>3 DEF UpOK
<1> QED BY <1>2, <1>3, <1>4 DEF UpOK

\* A frame is sent.
LEMMA Sending ==
  ASSUME UpOK, NEW p \in Peers, NEW m \in SentBy(p), Send(p, m)
  PROVE  /\ UpOK'
         /\ up'[p] = Append(up[p], m)
         /\ \A q \in Peers \ {p} : up'[q] = up[q]
<1>1. up[p] \in Seq(SentBy(p))
  BY DEF UpOK
<1>2. Append(up[p], m) \in Seq(SentBy(p))
  BY <1>1
<1>3. up' = [up EXCEPT ![p] = Append(up[p], m)]
  BY DEF Send
<1> QED BY <1>2, <1>3, UpSet

\* The first frame of a connection is read.
LEMMA Reading ==
  ASSUME UpOK, NEW p \in Peers, up[p] # <<>>, up' = [up EXCEPT ![p] = Tail(@)]
  PROVE  /\ UpOK'
         /\ up'[p] = Tail(up[p])
         /\ Head(up[p]) \in SentBy(p)
         /\ \A q \in Peers \ {p} : up'[q] = up[q]
<1>1. up[p] \in Seq(SentBy(p))
  BY DEF UpOK
<1>2. Tail(up[p]) \in Seq(SentBy(p)) /\ Head(up[p]) \in SentBy(p)
  BY <1>1
<1>3. up' = [up EXCEPT ![p] = Tail(up[p])]
  OBVIOUS
<1> QED BY <1>2, <1>3, UpSet

\* Frames are handed to the connections that have a route.
LEMMA Transmitted ==
  ASSUME down \in [Peers \ {"engined"} -> Seq(Frame)], NEW t, NEW out \in [Peers -> Seq(Frame)],
         Transmit(t, out)
  PROVE  /\ down' \in [Peers \ {"engined"} -> Seq(Frame)]
         /\ \A p \in Peers \ {"engined"} :
              down'[p] = IF Reachable(t, p) THEN down[p] \o out[p] ELSE down[p]
         /\ rx' = rx \/ rx' = rx \o out["engined"]
<1>1. /\ down' = [p \in Peers \ {"engined"} |->
                    IF Reachable(t, p) THEN down[p] \o out[p] ELSE down[p]]
      /\ rx' = rx \/ rx' = rx \o out["engined"]
  BY DEF Transmit
<1>2. \A p \in Peers \ {"engined"} : down[p] \in Seq(Frame) /\ out[p] \in Seq(Frame)
  OBVIOUS
<1>3. \A p \in Peers \ {"engined"} : down[p] \o out[p] \in Seq(Frame)
  BY <1>2
<1> QED BY <1>1, <1>2, <1>3

\* engined's step writes to its own connection only.
LEMMA EngineWrites ==
  ASSUME FleetTypes, EngineTick
  PROVE  /\ Tick
         /\ FleetTypes'
         /\ tx' \in Seq(EngineMsg)
         /\ up'["engined"] = up["engined"] \o tx'
         /\ \A q \in Peers \ {"engined"} : up'[q] = up[q]
<1>1. Tick
  BY Zenon DEF EngineTick, Engine, EngineSchedule, Tick, Schedule
<1>2. TypeOK /\ TypeOK'
  BY <1>1, TypeNext DEF Next, FleetTypes, FleetTypeOK
<1>3. tx' \in Seq(EngineMsg)
  BY <1>1, <1>2, TickSends DEF Speaks
<1>4. up' = [up EXCEPT !["engined"] = up["engined"] \o tx']
  BY DEF EngineTick, Engine
<1>5. "engined" \in Peers /\ UpOK
  BY PeersApart DEF FleetTypes, WireOK
<1>6. up["engined"] \o tx' \in Seq(SentBy("engined"))
  <2>1. up["engined"] \in Seq(SentBy("engined"))
    BY <1>5 DEF UpOK
  <2>2. tx' \in Seq(SentBy("engined"))
    BY <1>3, Senders
  <2> QED BY <2>1, <2>2
<1>7. /\ UpOK' /\ up'["engined"] = up["engined"] \o tx'
      /\ \A q \in Peers \ {"engined"} : up'[q] = up[q]
  BY <1>4, <1>5, <1>6, UpSet
<1>8. UNCHANGED <<down, table, ipcdEv, dstate, loaded, reload, reloadStatus, crashes>>
  BY DEF EngineTick, Engine, ipcdVars, daemonVars, mgmtdVars
<1> QED BY <1>1, <1>2, <1>3, <1>7, <1>8 DEF FleetTypes, FleetTypeOK, WireOK

\* engined's restart hangs up its connection.
LEMMA EngineFalls ==
  ASSUME FleetTypes, EngineCrash
  PROVE  /\ FleetTypes'
         /\ up'["engined"] = <<HangUp>>
         /\ \A q \in Peers \ {"engined"} : up'[q] = up[q]
<1>1. TypeOK'
  BY TypeNext DEF EngineCrash, Next, FleetTypes, FleetTypeOK
<1>2. "engined" \in Peers /\ UpOK /\ <<HangUp>> \in Seq(SentBy("engined"))
  BY PeersApart, Senders DEF FleetTypes, WireOK
<1>3. /\ UpOK' /\ up'["engined"] = <<HangUp>>
      /\ \A q \in Peers \ {"engined"} : up'[q] = up[q]
  BY <1>2, UpSet DEF EngineCrash
<1>4. UNCHANGED <<down, table, ipcdEv, dstate, loaded, reload, reloadStatus>>
  BY DEF EngineCrash, ipcdVars, daemonVars, mgmtdVars
<1>5. crashes' \in Nat
  BY DEF EngineCrash, FleetTypes, FleetTypeOK
<1> QED BY <1>1, <1>3, <1>4, <1>5 DEF FleetTypes, FleetTypeOK, WireOK

\* The engine's types do not see what ipcd, mgmtd and the daemons do, but for rx.
LEMMA EngineApart ==
  ASSUME TypeOK, rx' \in Seq(RxMsg), requests' \in Nat,
         UNCHANGED <<phase, eventQ, actionQ, bootVars, commitVars, version, owed>>
  PROVE  TypeOK'
BY DEF TypeOK, bootVars, commitVars

\* ipcd sees a hang-up.
LEMMA HangUpSeen ==
  ASSUME FleetTypes, NEW p \in Peers, Ipcd(IpcdHangUp(p))
  PROVE  /\ FleetTypes'
         /\ up[p] # <<>> /\ Head(up[p]) = HangUp /\ up'[p] = Tail(up[p])
         /\ \A q \in Peers \ {p} : up'[q] = up[q] /\ table'[q] = table[q]
         /\ ~table'[p].bound /\ table'[p].generation = table[p].generation
<1>1. up[p] # <<>> /\ Head(up[p]) = HangUp /\ up' = [up EXCEPT ![p] = Tail(@)]
  BY DEF Ipcd, IpcdHangUp, HungUp
<1>2. UpOK /\ table \in [Peers -> Route]
  BY DEF FleetTypes, WireOK, FleetTypeOK, Route
<1>3. /\ UpOK' /\ up'[p] = Tail(up[p]) /\ \A q \in Peers \ {p} : up'[q] = up[q]
  BY <1>1, <1>2, Reading
<1>4. table' = [table EXCEPT ![p] = [table[p] EXCEPT !.bound = FALSE, !.ready = FALSE, !.applied = 0]]
  BY <1>2 DEF Ipcd, IpcdHangUp, RemoveRoute
<1>5. /\ table' \in [Peers -> Route] /\ ~table'[p].bound
      /\ table'[p].generation = table[p].generation
      /\ \A q \in Peers \ {p} : table'[q] = table[q]
  <2>1. table[p] \in Route
    BY <1>2
  <2> DEFINE r == [table[p] EXCEPT !.bound = FALSE, !.ready = FALSE, !.applied = 0]
  <2>2. r \in Route /\ ~r.bound /\ r.generation = table[p].generation
    BY <2>1 DEF Route
  <2>3. table' = [table EXCEPT ![p] = r]
    BY <1>4
  <2> HIDE DEF r
  <2> QED BY <1>2, <2>2, <2>3
<1>6. UNCHANGED <<ipcdEv, down, rx, requests, dstate, loaded, reload, reloadStatus, crashes>>
  BY DEF Ipcd, IpcdHangUp, daemonVars, mgmtdVars
<1>7. TypeOK'
  BY <1>6, EngineApart DEF Ipcd, FleetTypes, FleetTypeOK, TypeOK
<1> QED BY <1>1, <1>3, <1>5, <1>6, <1>7 DEF FleetTypes, FleetTypeOK, WireOK, Route

\* ipcd reads a frame: binds the route, keeps its own commands and relays the others.
LEMMA FrameRead ==
  ASSUME FleetTypes, NEW p \in Peers, Ipcd(IpcdIngress(p)), NEW m, m = Head(up[p])
  PROVE  /\ FleetTypes'
         /\ up[p] # <<>> /\ ~HungUp(p) /\ m \in SentBy(p) /\ m # HangUp /\ up'[p] = Tail(up[p])
         /\ \A q \in Peers \ {p} : up'[q] = up[q] /\ table'[q] = table[q]
         /\ table'[p].bound
         /\ table[p].bound => table'[p] = table[p]
         /\ ~table[p].bound => /\ table'[p].applied = 0
                               /\ table'[p].generation = table[p].generation + 1
                               /\ \A i \in DOMAIN ipcdEv : ipcdEv[i].src # p
         /\ \/ IsOwn(m) /\ ipcdEv' = Append(ipcdEv, [src |-> p, msg |-> m]) /\ UNCHANGED <<down, rx>>
            \/ /\ ~IsOwn(m) /\ UNCHANGED ipcdEv
               /\ \A q \in Peers \ {"engined"} :
                    down'[q] = IF Reachable(table', q) /\ q \in Destinations(p, m)
                               THEN down[q] \o <<m>> ELSE down[q]
               /\ rx' = rx \/ (rx' = rx \o <<m>> /\ m \in MgmtdMsg)
<1>1. /\ up[p] # <<>> /\ ~HungUp(p) /\ up' = [up EXCEPT ![p] = Tail(@)]
      /\ table[p].bound \/ \A i \in DOMAIN ipcdEv : ipcdEv[i].src # p
      /\ table' = BindRoute(p)
  BY DEF Ipcd, IpcdIngress
<1>2. /\ UpOK /\ table \in [Peers -> Route] /\ rx \in Seq(RxMsg)
      /\ ipcdEv \in Seq(IpcdEvent)
      /\ down \in [Peers \ {"engined"} -> Seq(Frame)]
  BY DEF FleetTypes, WireOK, FleetTypeOK, Route, TypeOK
<1>3. /\ UpOK' /\ up'[p] = Tail(up[p]) /\ m \in SentBy(p)
      /\ \A q \in Peers \ {p} : up'[q] = up[q]
  BY <1>1, <1>2, Reading
<1>4. m # HangUp
  BY <1>1 DEF HungUp
<1>5. /\ table' \in [Peers -> Route] /\ table'[p].bound
      /\ table[p].bound => table'[p] = table[p]
      /\ ~table[p].bound => /\ table'[p].applied = 0
                            /\ table'[p].generation = table[p].generation + 1
                            /\ \A i \in DOMAIN ipcdEv : ipcdEv[i].src # p
      /\ \A q \in Peers \ {p} : table'[q] = table[q]
  <2>1. CASE table[p].bound
    BY <1>1, <1>2, <2>1 DEF BindRoute
  <2>2. CASE ~table[p].bound
    <3> DEFINE r == [bound |-> TRUE, ready |-> FALSE, applied |-> 0,
                     generation |-> table[p].generation + 1]
    <3>1. table[p] \in Route
      BY <1>2
    <3>2. r \in Route /\ r.bound /\ r.applied = 0 /\ r.generation = table[p].generation + 1
      BY <3>1 DEF Route
    <3>3. table' = [table EXCEPT ![p] = r]
      BY <1>1, <2>2 DEF BindRoute
    <3> HIDE DEF r
    <3> QED BY <1>1, <1>2, <2>2, <3>2, <3>3
  <2> QED BY <2>1, <2>2
<1>6. \/ IsOwn(m) /\ ipcdEv' = Append(ipcdEv, [src |-> p, msg |-> m]) /\ UNCHANGED <<down, rx>>
      \/ /\ ~IsOwn(m) /\ UNCHANGED ipcdEv
         /\ Transmit(table', [q \in Peers |-> IF q \in Destinations(p, m) THEN <<m>> ELSE <<>>])
  BY Zenon DEF Ipcd, IpcdIngress
<1>7. UNCHANGED <<requests, dstate, loaded, reload, reloadStatus, crashes>>
  BY DEF Ipcd, daemonVars, mgmtdVars
<1>8. CASE IsOwn(m) /\ ipcdEv' = Append(ipcdEv, [src |-> p, msg |-> m]) /\ UNCHANGED <<down, rx>>
  <2>1. m \in OwnMsg
    <3>1. p \in Daemons \/ p = "engined" \/ p = "mgmtd"
      BY DEF Peers
    <3>2. m \in DaemonMsg \/ m \in EngineMsg \/ m \in MgmtdMsg
      BY <1>3, <1>4, <3>1, Senders
    <3>3. m.cmd \in {"ClientHello", "SyncRequest", "RuntimeReady"}
      BY <1>8 DEF IsOwn
    <3>4. CASE m \in DaemonMsg
      BY <3>4 DEF DaemonMsg, OwnMsg
    <3>5. CASE m \in EngineMsg
      BY <3>3, <3>5 DEF EngineMsg, OwnMsg
    <3>6. CASE m \in MgmtdMsg
      BY <3>3, <3>6 DEF MgmtdMsg
    <3> QED BY <3>2, <3>4, <3>5, <3>6
  <2>2. [src |-> p, msg |-> m] \in IpcdEvent
    BY <2>1 DEF IpcdEvent
  <2>3. ipcdEv' \in Seq(IpcdEvent)
    BY <1>2, <1>8, <2>2
  <2>4. TypeOK'
    BY <1>2, <1>7, <1>8, EngineApart DEF Ipcd, FleetTypes, FleetTypeOK, TypeOK
  <2>5. FleetTypes'
    BY <1>3, <1>5, <1>7, <1>8, <2>3, <2>4 DEF FleetTypes, FleetTypeOK, WireOK, Route
  <2> QED BY <1>1, <1>3, <1>4, <1>5, <1>8, <2>5
<1>9. CASE /\ ~IsOwn(m) /\ UNCHANGED ipcdEv
           /\ Transmit(table', [q \in Peers |-> IF q \in Destinations(p, m) THEN <<m>> ELSE <<>>])
  <2> DEFINE out == [q \in Peers |-> IF q \in Destinations(p, m) THEN <<m>> ELSE <<>>]
  <2>1. m \in Frame
    BY <1>3, Senders
  <2>2. <<m>> \in Seq(Frame) /\ <<>> \in Seq(Frame)
    BY <2>1
  <2>3. out \in [Peers -> Seq(Frame)]
    BY <2>2
  <2>4. \A q \in Peers : out[q] = IF q \in Destinations(p, m) THEN <<m>> ELSE <<>>
    OBVIOUS
  <2>5. Transmit(table', out)
    BY <1>9
  <2> HIDE DEF out
  <2>6. /\ down' \in [Peers \ {"engined"} -> Seq(Frame)]
        /\ \A q \in Peers \ {"engined"} :
             down'[q] = IF Reachable(table', q) THEN down[q] \o out[q] ELSE down[q]
        /\ rx' = rx \/ rx' = rx \o out["engined"]
    BY <1>2, <2>3, <2>5, Transmitted
  <2>7. \A q \in Peers \ {"engined"} :
          down'[q] = IF Reachable(table', q) /\ q \in Destinations(p, m)
                     THEN down[q] \o <<m>> ELSE down[q]
    <3>1. \A q \in Peers \ {"engined"} : down[q] \o <<>> = down[q]
      BY <1>2
    <3> QED BY <2>4, <2>6, <3>1
  <2>8. "engined" \in Destinations(p, m) => m \in MgmtdMsg
    <3>1. p \in Daemons \/ p = "engined" \/ p = "mgmtd"
      BY DEF Peers
    <3>2. ASSUME p \in Daemons PROVE FALSE
      <4>1. m \in DaemonMsg
        BY <1>3, <1>4, <3>2, Senders
      <4> QED BY <1>9, <4>1, Commands DEF IsOwn
    <3>3. CASE p = "mgmtd"
      BY <1>3, <3>3, Senders
    <3>4. CASE p = "engined"
      <4>1. m \in EngineMsg
        BY <1>3, <1>4, <3>4, Senders
      <4>2. m.cmd = "ConfigApply" => m.dst \in Daemons
        BY <4>1 DEF EngineMsg
      <4>3. m.cmd \in {"RuntimeStart", "SettingsCommitResponse", "SettingsCommitStatus", "ConfigApply"}
        BY <1>9, <4>1, Commands DEF IsOwn
      <4>4. "engined" \notin Daemons
        BY PeersApart
      <4>5. m.cmd = "RuntimeStart" => Destinations(p, m) = Peers \ {p}
        BY DEF Destinations
      <4>6. m.cmd = "ConfigApply" => Destinations(p, m) = {m.dst}
        BY DEF Destinations
      <4>7. m.cmd \in {"SettingsCommitResponse", "SettingsCommitStatus"} => Destinations(p, m) = {"mgmtd"}
        BY DEF Destinations
      <4> QED BY <3>4, <4>2, <4>3, <4>4, <4>5, <4>6, <4>7
    <3> QED BY <3>1, <3>2, <3>3, <3>4
  <2>9. rx' = rx \/ (rx' = rx \o <<m>> /\ m \in MgmtdMsg)
    <3>1. "engined" \in Peers /\ rx \o <<>> = rx
      BY <1>2, PeersApart
    <3> QED BY <2>4, <2>6, <2>8, <3>1
  <2>10. rx' \in Seq(RxMsg)
    <3>1. MgmtdMsg \subseteq RxMsg
      BY DEF MgmtdMsg, RxMsg
    <3>2. ASSUME m \in MgmtdMsg PROVE rx \o <<m>> \in Seq(RxMsg)
      <4>1. <<m>> \in Seq(RxMsg)
        BY <3>1, <3>2
      <4> QED BY <1>2, <4>1
    <3> QED BY <1>2, <2>9, <3>2
  <2>11. TypeOK'
    BY <1>2, <1>7, <2>10, EngineApart DEF Ipcd, FleetTypes, FleetTypeOK, TypeOK
  <2>12. FleetTypes'
    BY <1>2, <1>3, <1>5, <1>7, <1>9, <2>6, <2>11 DEF FleetTypes, FleetTypeOK, WireOK, Route
  <2> QED BY <1>1, <1>3, <1>4, <1>5, <1>9, <2>7, <2>9, <2>12
<1> QED BY <1>6, <1>8, <1>9

\* What ipcd answers.
LEMMA ReplyFacts ==
  ASSUME NEW t \in [Peers -> Route], ipcdEv \in Seq(IpcdEvent), NEW p \in Peers
  PROVE  /\ Replies(t, p) \in Seq(RxMsg) /\ Replies(t, p) \in Seq(Frame)
         /\ \A n \in DOMAIN Replies(t, p) :
              \/ Replies(t, p)[n].cmd = "ServerHello"
              \/ /\ Replies(t, p)[n].cmd = "SyncResponse"
                 /\ Replies(t, p)[n].report = SyncReport(t)
         /\ Asked(p, "ClientHello") => HasCmd(Replies(t, p), "ServerHello")
<1> DEFINE r == Replies(t, p)
           c == Cardinality(Asks(p))
<1>1. Asks(p) \in SUBSET (1 .. Len(ipcdEv)) /\ Len(ipcdEv) \in Nat
  BY DEF Asks
<1>2. c \in Nat
  <2>1. IsFiniteSet(1 .. Len(ipcdEv))
    BY <1>1, FS_Interval
  <2>2. IsFiniteSet(Asks(p))
    BY <1>1, <2>1, FS_Subset
  <2> QED BY <2>2, FS_CardinalityType
<1>3. SyncReport(t) \in Reports
  <2>1. \A d \in Daemons : t[d] \in Route
    BY PeersApart
  <2>2. Unlisted \in Report
    BY DEF Unlisted, Report
  <2>3. \A d \in Daemons :
          [listed |-> TRUE, applied |-> t[d].applied, generation |-> t[d].generation] \in Report
    BY <2>1 DEF Route, Report
  <2> QED BY <2>2, <2>3 DEF SyncReport, Reports
<1>4. \A m : /\ Reply(t, m) \in RxMsg
             /\ m.cmd = "ClientHello" => Reply(t, m).cmd = "ServerHello"
             /\ \/ Reply(t, m).cmd = "ServerHello"
                \/ Reply(t, m).cmd = "SyncResponse" /\ Reply(t, m).report = SyncReport(t)
  <2> TAKE m
  <2>1. CASE m.cmd = "ClientHello"
    BY <2>1 DEF Reply, RxMsg
  <2>2. CASE m.cmd # "ClientHello"
    BY <1>3, <2>2 DEF Reply, RxMsg
  <2> QED BY <2>1, <2>2
<1>5. r = [n \in 1 .. c |-> Reply(t, ipcdEv[Nth(Asks(p), n)].msg)]
  BY DEF Replies
<1>6. DOMAIN r = 1 .. c /\ \A n \in 1 .. c : r[n] = Reply(t, ipcdEv[Nth(Asks(p), n)].msg)
  BY <1>5
<1>7. r = [n \in 1 .. c |-> r[n]] /\ \A n \in 1 .. c : r[n] \in RxMsg
  BY <1>4, <1>5, <1>6
<1>8. ASSUME Asked(p, "ClientHello") PROVE HasCmd(r, "ServerHello")
  <2>1. PICK i \in DOMAIN ipcdEv : ipcdEv[i].src = p /\ ipcdEv[i].msg.cmd = "ClientHello"
    BY <1>8 DEF Asked
  <2>2. i \in Asks(p)
    BY <2>1 DEF Asks
  <2>3. PICK n \in 1 .. c : Nth(Asks(p), n) = i
    BY <1>1, <2>2, NthOnto
  <2> QED BY <1>4, <1>6, <2>1, <2>3 DEF HasCmd
<1> HIDE DEF r, c
<1>9. r \in Seq(RxMsg)
  BY SMTT(30), <1>2, <1>7
<1>10. RxMsg \subseteq Frame
  BY DEF Frame
<1>11. r \in Seq(Frame)
  BY <1>9, <1>10
<1>12. \A n \in DOMAIN r : \/ r[n].cmd = "ServerHello"
                           \/ r[n].cmd = "SyncResponse" /\ r[n].report = SyncReport(t)
  BY <1>4, <1>6
<1> QED BY <1>8, <1>9, <1>11, <1>12 DEF r

\* ipcd marks the table and answers.
LEMMA Executed ==
  ASSUME FleetTypes, Ipcd(IpcdExecute)
  PROVE  /\ FleetTypes'
         /\ ipcdEv' = <<>> /\ up' = up
         /\ \A p \in Peers : table'[p].bound = table[p].bound /\ table'[p].generation = table[p].generation
         /\ \A p \in Peers : \/ table'[p].applied = table[p].applied
                             \/ \E i \in Marks(p) : table'[p].applied = ipcdEv[i].msg.applied
         /\ \A p \in Peers \ {"engined"} :
              down'[p] = IF Reachable(table, p) THEN down[p] \o Replies(table', p) ELSE down[p]
         /\ rx' = rx \/ rx' = rx \o Replies(table', "engined")
<1>1. /\ ipcdEv' = <<>> /\ up' = up /\ table' = MarkRuntimeReady
      /\ Transmit(table', [p \in Peers |-> Replies(table', p)])
  BY DEF Ipcd, IpcdExecute
<1>2. /\ UpOK /\ table \in [Peers -> Route] /\ rx \in Seq(RxMsg)
      /\ ipcdEv \in Seq(IpcdEvent)
      /\ down \in [Peers \ {"engined"} -> Seq(Frame)]
  BY DEF FleetTypes, WireOK, FleetTypeOK, Route, TypeOK
<1>e. \A i \in 1 .. Len(ipcdEv) : ipcdEv[i] \in IpcdEvent
  BY <1>2
<1>3. ASSUME NEW p \in Peers
      PROVE  /\ table'[p] \in Route
             /\ table'[p].bound = table[p].bound /\ table'[p].generation = table[p].generation
             /\ \/ table'[p].applied = table[p].applied
                \/ \E i \in Marks(p) : table'[p].applied = ipcdEv[i].msg.applied
  <2> DEFINE a == ipcdEv[Latest(Marks(p))].msg.applied
  <2>1. table[p] \in Route
    BY <1>2
  <2>2. table'[p] = IF Marks(p) = {} THEN table[p]
                    ELSE [table[p] EXCEPT !.ready = TRUE, !.applied = IF a > 0 THEN a ELSE @]
    BY <1>1 DEF MarkRuntimeReady
  <2>3. CASE Marks(p) = {}
    BY <2>1, <2>2, <2>3
  <2>4. CASE Marks(p) # {}
    <3>1. Marks(p) \in SUBSET (1 .. Len(ipcdEv)) /\ Len(ipcdEv) \in Nat
      BY <1>2 DEF Marks
    <3>2. Latest(Marks(p)) \in Marks(p)
      BY <2>4, <3>1, LatestIn
    <3>3. a \in Nat
      <4>1. PICK i \in 1 .. Len(ipcdEv) : i = Latest(Marks(p)) /\ ipcdEv[i].msg.cmd = "RuntimeReady"
        BY <1>2, <3>1, <3>2 DEF Marks
      <4>2. ipcdEv[i] \in IpcdEvent
        BY <1>e
      <4>3. ipcdEv[i].msg \in OwnMsg
        BY <4>2 DEF IpcdEvent
      <4> QED BY <4>1, <4>3 DEF OwnMsg
    <3> DEFINE b == IF a > 0 THEN a ELSE table[p].applied
    <3>4. table'[p] = [table[p] EXCEPT !.ready = TRUE, !.applied = b]
      BY <2>2, <2>4
    <3>5. b \in Nat /\ (b = table[p].applied \/ b = a)
      BY <2>1, <3>3 DEF Route
    <3>6. a = ipcdEv[Latest(Marks(p))].msg.applied
      OBVIOUS
    <3> HIDE DEF a, b
    <3>7. /\ table'[p] \in Route /\ table'[p].bound = table[p].bound
          /\ table'[p].generation = table[p].generation /\ table'[p].applied = b
      BY <2>1, <3>4, <3>5 DEF Route
    <3> QED BY <3>2, <3>5, <3>6, <3>7
  <2> QED BY <2>3, <2>4
<1>4. table' \in [Peers -> Route]
  <2>1. table' = [p \in Peers |-> table'[p]]
    BY <1>1 DEF MarkRuntimeReady
  <2> QED BY <1>3, <2>1
<1>5. \A p \in Peers : Replies(table', p) \in Seq(Frame) /\ Replies(table', p) \in Seq(RxMsg)
  BY <1>2, <1>4, ReplyFacts
<1> DEFINE out == [p \in Peers |-> Replies(table', p)]
<1>6. out \in [Peers -> Seq(Frame)] /\ \A p \in Peers : out[p] = Replies(table', p)
  BY <1>5
<1>7. Transmit(table', out)
  BY <1>1
<1> HIDE DEF out
<1>8. /\ down' \in [Peers \ {"engined"} -> Seq(Frame)]
      /\ \A p \in Peers \ {"engined"} :
           down'[p] = IF Reachable(table', p) THEN down[p] \o out[p] ELSE down[p]
      /\ rx' = rx \/ rx' = rx \o out["engined"]
  BY <1>2, <1>6, <1>7, Transmitted
<1>9. \A p \in Peers : Reachable(table', p) <=> Reachable(table, p)
  BY <1>3 DEF Reachable
<1>10. rx' = rx \/ rx' = rx \o Replies(table', "engined")
  BY <1>6, <1>8, PeersApart
<1>11. rx' \in Seq(RxMsg)
  <2>1. Replies(table', "engined") \in Seq(RxMsg)
    BY <1>5, PeersApart
  <2>2. rx \o Replies(table', "engined") \in Seq(RxMsg)
    BY <1>2, <2>1
  <2> QED BY <1>2, <1>10, <2>2
<1>12. UNCHANGED <<requests, dstate, loaded, reload, reloadStatus, crashes>>
  BY DEF Ipcd, daemonVars, mgmtdVars
<1>13. TypeOK'
  BY <1>11, <1>12, EngineApart DEF Ipcd, FleetTypes, FleetTypeOK, TypeOK
<1>14. ipcdEv' \in Seq(IpcdEvent)
  BY <1>1
<1>15. UpOK'
  BY <1>1, <1>2 DEF UpOK
<1>16. FleetTypes'
  BY <1>4, <1>8, <1>12, <1>13, <1>14, <1>15 DEF FleetTypes, FleetTypeOK, WireOK, Route
<1>17. \A p \in Peers \ {"engined"} :
         down'[p] = IF Reachable(table, p) THEN down[p] \o Replies(table', p) ELSE down[p]
  BY <1>6, <1>8, <1>9
<1> QED BY <1>1, <1>3, <1>10, <1>16, <1>17

\* An operator's commit enters mgmtd's connection.
LEMMA CommitSent ==
  ASSUME FleetTypes, Mgmtd(MgmtdCommit)
  PROVE  /\ FleetTypes'
         /\ \A q \in Peers \ {"mgmtd"} : up'[q] = up[q]
         /\ UNCHANGED <<down, table, ipcdEv, dstate, loaded, rx, queue, shown, crashes>>
<1>1. Send("mgmtd", [cmd |-> "SettingsCommitRequest", payload |-> "good"])
  BY DEF Mgmtd, MgmtdCommit
<1>2. [cmd |-> "SettingsCommitRequest", payload |-> "good"] \in SentBy("mgmtd")
  BY Senders DEF MgmtdMsg, Payloads
<1>3. UpOK /\ "mgmtd" \in Peers
  BY PeersApart DEF FleetTypes, WireOK
<1>4. UpOK' /\ \A q \in Peers \ {"mgmtd"} : up'[q] = up[q]
  BY <1>1, <1>2, <1>3, Sending
<1>5. /\ UNCHANGED <<down, table, ipcdEv, dstate, loaded, reload, rx, queue, shown, crashes>>
      /\ reloadStatus' = "Reloading" /\ requests' = requests + 1
  BY DEF Mgmtd, MgmtdCommit, ipcdVars, daemonVars, commitVars
<1>6. rx' \in Seq(RxMsg) /\ requests' \in Nat /\ TypeOK
  BY <1>5 DEF FleetTypes, FleetTypeOK, TypeOK
<1>7. TypeOK'
  BY <1>6, EngineApart DEF Mgmtd
<1> QED BY <1>4, <1>5, <1>7 DEF FleetTypes, FleetTypeOK, WireOK

\* mgmtd reads a frame; a status replaces what the console shows.
LEMMA ConsoleRead ==
  ASSUME FleetTypes, Mgmtd(MgmtdReceive)
  PROVE  /\ FleetTypes'
         /\ down["mgmtd"] # <<>> /\ down'["mgmtd"] = Tail(down["mgmtd"])
         /\ \A d \in Daemons : down'[d] = down[d]
         /\ \/ Head(down["mgmtd"]).cmd # "SettingsCommitStatus" /\ UNCHANGED shown
            \/ /\ Head(down["mgmtd"]).cmd = "SettingsCommitStatus"
               /\ shown' = Head(down["mgmtd"]).tasks
         /\ UNCHANGED <<up, table, ipcdEv, dstate, loaded, rx, queue, crashes>>
<1>1. /\ down["mgmtd"] # <<>> /\ down' = [down EXCEPT !["mgmtd"] = Tail(@)]
      /\ UNCHANGED <<requests, up>>
  BY DEF Mgmtd, MgmtdReceive
<1>2. down \in [Peers \ {"engined"} -> Seq(Frame)] /\ "mgmtd" \in Peers \ {"engined"}
  BY PeersApart DEF FleetTypes, WireOK
<1>3. Tail(down["mgmtd"]) \in Seq(Frame)
  BY <1>1, <1>2
<1>4. /\ down' \in [Peers \ {"engined"} -> Seq(Frame)]
      /\ down'["mgmtd"] = Tail(down["mgmtd"]) /\ \A d \in Daemons : down'[d] = down[d]
  BY <1>1, <1>2, <1>3, PeersApart
<1>5. /\ \/ Head(down["mgmtd"]).cmd # "SettingsCommitStatus" /\ UNCHANGED shown
         \/ /\ Head(down["mgmtd"]).cmd = "SettingsCommitStatus"
            /\ shown' = Head(down["mgmtd"]).tasks
      /\ reloadStatus' \in {reloadStatus, "Complete", "Failed"}
  BY DEF Mgmtd, MgmtdReceive, mgmtdVars, OnSettingsCommitResponse
<1>6. UNCHANGED <<table, ipcdEv, dstate, loaded, reload, rx, queue, crashes>>
  BY DEF Mgmtd, ipcdVars, daemonVars, commitVars
<1>7. rx' \in Seq(RxMsg) /\ requests' \in Nat /\ TypeOK
  BY <1>1, <1>6 DEF FleetTypes, FleetTypeOK, TypeOK
<1>8. TypeOK'
  BY <1>7, EngineApart DEF Mgmtd
<1>9. UpOK'
  BY <1>1 DEF FleetTypes, WireOK, UpOK
<1> QED BY <1>1, <1>4, <1>5, <1>6, <1>8, <1>9 DEF FleetTypes, FleetTypeOK, WireOK

\* A daemon's process starts.
LEMMA Booted ==
  ASSUME FleetTypes, NEW d \in Daemons, Daemon(Boot(d))
  PROVE  /\ FleetTypes'
         /\ dstate[d] = "Down" /\ dstate'[d] = "WaitServerHello"
         /\ \A e \in Daemons \ {d} : dstate'[e] = dstate[e] /\ loaded'[e] = loaded[e]
         /\ UNCHANGED <<up, down, table, ipcdEv, rx, queue, shown, crashes>>
<1>1. /\ dstate[d] = "Down" /\ dstate' = [dstate EXCEPT ![d] = "WaitServerHello"]
      /\ UNCHANGED <<reload, up, down, crashes>>
  BY DEF Daemon, Boot, netVars
<1>2. PICK v \in RunningConfigVersion(version) : loaded' = [loaded EXCEPT ![d] = v]
  BY DEF Daemon, Boot
<1>3. /\ dstate \in [Daemons -> {"Down", "WaitServerHello", "WaitRuntimeStart", "Running"}]
      /\ loaded \in [Daemons -> Nat] /\ version \in Nat
  BY DEF FleetTypes, FleetTypeOK, TypeOK
<1>4. v \in Nat
  BY <1>3 DEF RunningConfigVersion
<1>5. UNCHANGED <<table, ipcdEv, rx, queue, requests, reloadStatus, shown>>
  BY DEF Daemon, ipcdVars, mgmtdVars, commitVars
<1>6. rx' \in Seq(RxMsg) /\ requests' \in Nat /\ TypeOK
  BY <1>5 DEF FleetTypes, FleetTypeOK, TypeOK
<1>7. TypeOK'
  BY <1>6, EngineApart DEF Daemon
<1>8. UpOK'
  BY <1>1 DEF FleetTypes, WireOK, UpOK
<1>9. /\ dstate' \in [Daemons -> {"Down", "WaitServerHello", "WaitRuntimeStart", "Running"}]
      /\ loaded' \in [Daemons -> Nat]
      /\ dstate'[d] = "WaitServerHello"
      /\ \A e \in Daemons \ {d} : dstate'[e] = dstate[e] /\ loaded'[e] = loaded[e]
  BY <1>1, <1>2, <1>3, <1>4
<1> QED BY <1>1, <1>5, <1>7, <1>8, <1>9 DEF FleetTypes, FleetTypeOK, WireOK

\* A daemon says hello, or repeats its RuntimeReady.
LEMMA DaemonSent ==
  ASSUME FleetTypes, NEW d \in Daemons, Daemon(SendHello(d) \/ ResendReady(d))
  PROVE  /\ FleetTypes'
         /\ \/ /\ dstate[d] = "WaitServerHello"
               /\ up'[d] = Append(up[d], [cmd |-> "ClientHello"])
            \/ /\ dstate[d] = "WaitRuntimeStart"
               /\ up'[d] = Append(up[d], RuntimeReady(d))
         /\ \A q \in Peers \ {d} : up'[q] = up[q]
         /\ UNCHANGED <<down, table, ipcdEv, dstate, loaded, rx, queue, shown, crashes>>
<1>1. UpOK /\ d \in Peers /\ SentBy(d) = {HangUp} \cup DaemonMsg /\ loaded[d] \in Nat
  BY PeersApart, Senders DEF FleetTypes, WireOK, FleetTypeOK
<1>2. [cmd |-> "ClientHello"] \in SentBy(d) /\ RuntimeReady(d) \in SentBy(d)
  BY <1>1 DEF DaemonMsg, RuntimeReady
<1>3. \/ dstate[d] = "WaitServerHello" /\ Send(d, [cmd |-> "ClientHello"])
      \/ dstate[d] = "WaitRuntimeStart" /\ Send(d, RuntimeReady(d))
  BY DEF Daemon, SendHello, ResendReady
<1>4. /\ UpOK' /\ \A q \in Peers \ {d} : up'[q] = up[q]
      /\ \/ dstate[d] = "WaitServerHello" /\ up'[d] = Append(up[d], [cmd |-> "ClientHello"])
         \/ dstate[d] = "WaitRuntimeStart" /\ up'[d] = Append(up[d], RuntimeReady(d))
  BY <1>1, <1>2, <1>3, Sending
<1>5. UNCHANGED <<down, table, ipcdEv, dstate, loaded, reload, rx, queue, requests, reloadStatus,
                  shown, crashes>>
  BY DEF Daemon, SendHello, ResendReady, daemonVars, ipcdVars, mgmtdVars, commitVars
<1>6. rx' \in Seq(RxMsg) /\ requests' \in Nat /\ TypeOK
  BY <1>5 DEF FleetTypes, FleetTypeOK, TypeOK
<1>7. TypeOK'
  BY <1>6, EngineApart DEF Daemon
<1> QED BY <1>4, <1>5, <1>7 DEF FleetTypes, FleetTypeOK, WireOK

\* A process dies, by its own execv or in a crash.
LEMMA Died ==
  ASSUME FleetTypes, NEW d \in Daemons, Daemon(Reexec(d)) \/ Daemon(Crash(d))
  PROVE  /\ FleetTypes'
         /\ dstate'[d] = "Down" /\ up'[d] = <<HangUp>> /\ down'[d] = <<>>
         /\ \A e \in Daemons \ {d} : dstate'[e] = dstate[e]
         /\ \A q \in Peers \ {d} : up'[q] = up[q]
         /\ \A q \in Peers \ {"engined", d} : down'[q] = down[q]
         /\ crashes' = crashes \/ crashes' = crashes + 1
         /\ UNCHANGED <<table, ipcdEv, loaded, rx, queue, shown>>
<1>1. Die(d) /\ (crashes' = crashes \/ crashes' = crashes + 1)
  BY DEF Daemon, Reexec, Crash
<1>2. /\ UpOK /\ d \in Peers /\ d \in Peers \ {"engined"} /\ <<HangUp>> \in Seq(SentBy(d))
      /\ dstate \in [Daemons -> {"Down", "WaitServerHello", "WaitRuntimeStart", "Running"}]
      /\ reload \in [Daemons -> BOOLEAN] /\ crashes \in Nat
      /\ down \in [Peers \ {"engined"} -> Seq(Frame)]
  BY PeersApart, Senders DEF FleetTypes, WireOK, FleetTypeOK
<1>3. /\ UpOK' /\ up'[d] = <<HangUp>> /\ \A q \in Peers \ {d} : up'[q] = up[q]
  BY <1>1, <1>2, UpSet DEF Die
<1>4. /\ dstate' \in [Daemons -> {"Down", "WaitServerHello", "WaitRuntimeStart", "Running"}]
      /\ dstate'[d] = "Down" /\ \A e \in Daemons \ {d} : dstate'[e] = dstate[e]
  BY <1>1, <1>2 DEF Die
<1>5. /\ down' \in [Peers \ {"engined"} -> Seq(Frame)] /\ down'[d] = <<>>
      /\ \A q \in Peers \ {"engined", d} : down'[q] = down[q]
  BY <1>1, <1>2 DEF Die
<1>6. reload' \in [Daemons -> BOOLEAN] /\ crashes' \in Nat
  BY <1>1, <1>2 DEF Die
<1>7. UNCHANGED <<table, ipcdEv, loaded, rx, queue, requests, reloadStatus, shown>>
  BY <1>1 DEF Daemon, Die, ipcdVars, mgmtdVars, commitVars
<1>8. rx' \in Seq(RxMsg) /\ requests' \in Nat /\ TypeOK
  BY <1>7 DEF FleetTypes, FleetTypeOK, TypeOK
<1>9. TypeOK'
  BY <1>8, EngineApart DEF Daemon
<1> QED BY <1>1, <1>3, <1>4, <1>5, <1>6, <1>7, <1>9 DEF FleetTypes, FleetTypeOK, WireOK

\* The frames behind the first n.
LEMMA Rest ==
  ASSUME NEW S, NEW s \in Seq(S), NEW n \in 1 .. Len(s)
  PROVE  LET r == SubSeq(s, n + 1, Len(s))
         IN  /\ r \in Seq(S) /\ DOMAIN r = 1 .. Len(s) - n
             /\ \A i \in 1 .. Len(s) - n : r[i] = s[i + n]
<1> DEFINE r == SubSeq(s, n + 1, Len(s))
<1>1. r \in Seq(S) /\ Len(r) = Len(s) - n
  OBVIOUS
<1>2. \A i \in n + 1 .. Len(s) : s[i] \in S
  OBVIOUS
<1>3. \A i \in 1 .. Len(s) - (n + 1) + 1 : r[i] = s[n + 1 + i - 1]
  BY <1>2, SubSeqProperties
<1>4. Len(s) \in Nat
  OBVIOUS
<1> HIDE DEF r
<1>5. \A i \in 1 .. Len(s) - n : r[i] = s[i + n]
  BY <1>3, <1>4
<1> QED BY <1>1, <1>5 DEF r

\* A daemon's tick: the states it may reach by the frames it read.
LEMMA DaemonRead ==
  ASSUME FleetTypes, NEW d \in Daemons, Daemon(Receive(d))
  PROVE  /\ FleetTypes'
         /\ dstate[d] # "Down" /\ down[d] # <<>>
         /\ \E n \in 1 .. Len(down[d]) :
              LET hello == dstate[d] = "WaitServerHello" /\ \E i \in 1 .. n : down[d][i].cmd = "ServerHello"
                  started == /\ d \notin Ungated
                             /\ \E i \in 1 .. n :
                                  /\ down[d][i].cmd = "RuntimeStart"
                                  /\ \/ dstate[d] = "WaitRuntimeStart"
                                     \/ hello /\ \E j \in 1 .. i - 1 : down[d][j].cmd = "ServerHello"
              IN  /\ started \/ (hello /\ d \in Ungated) => dstate'[d] = "Running"
                  /\ ~started /\ hello /\ d \notin Ungated => dstate'[d] = "WaitRuntimeStart"
                  /\ ~started /\ ~hello => dstate'[d] = dstate[d]
                  /\ up'[d] = up[d] \/ (hello /\ up'[d] = Append(up[d], RuntimeReady(d)))
                  /\ down'[d] = SubSeq(down[d], n + 1, Len(down[d]))
         /\ \A e \in Daemons \ {d} : dstate'[e] = dstate[e]
         /\ \A q \in Peers \ {d} : up'[q] = up[q]
         /\ \A q \in Peers \ {"engined", d} : down'[q] = down[q]
         /\ UNCHANGED <<table, ipcdEv, loaded, rx, queue, shown, crashes>>
<1>1. UpOK /\ d \in Peers /\ SentBy(d) = {HangUp} \cup DaemonMsg /\ loaded[d] \in Nat
  BY PeersApart, Senders DEF FleetTypes, WireOK, FleetTypeOK
<1>2. RuntimeReady(d) \in SentBy(d)
  BY <1>1 DEF DaemonMsg, RuntimeReady
<1>3. /\ dstate \in [Daemons -> {"Down", "WaitServerHello", "WaitRuntimeStart", "Running"}]
      /\ reload \in [Daemons -> BOOLEAN] /\ down \in [Peers \ {"engined"} -> Seq(Frame)]
      /\ d \in Peers \ {"engined"}
  BY PeersApart DEF FleetTypes, WireOK, FleetTypeOK
<1> DEFINE Got(i, cmd) == down[d][i].cmd = cmd
           hello(n) == dstate[d] = "WaitServerHello" /\ \E i \in 1 .. n : Got(i, "ServerHello")
           started(n) == /\ d \notin Ungated
                         /\ \E i \in 1 .. n :
                              /\ Got(i, "RuntimeStart")
                              /\ \/ dstate[d] = "WaitRuntimeStart"
                                 \/ hello(n) /\ \E j \in 1 .. i - 1 : Got(j, "ServerHello")
<1>4. PICK n \in 1 .. Len(down[d]) :
        /\ dstate' = [dstate EXCEPT ![d] = CASE started(n) \/ (hello(n) /\ d \in Ungated) -> "Running"
                                             [] hello(n) /\ ~started(n) /\ d \notin Ungated -> "WaitRuntimeStart"
                                             [] OTHER -> @]
        /\ IF hello(n) /\ ~started(n) THEN Send(d, RuntimeReady(d)) ELSE UNCHANGED up
        /\ reload' = [reload EXCEPT ![d] = @ \/ \E i \in 1 .. n : Got(i, "ConfigApply")]
        /\ down' = [down EXCEPT ![d] = SubSeq(@, n + 1, Len(@))]
  BY Zenon DEF Daemon, Receive
<1>5. dstate[d] # "Down" /\ UNCHANGED <<loaded, crashes>>
  BY DEF Daemon, Receive
<1> HIDE DEF Got, hello, started
<1>6. /\ started(n) \/ (hello(n) /\ d \in Ungated) => dstate'[d] = "Running"
      /\ ~started(n) /\ hello(n) /\ d \notin Ungated => dstate'[d] = "WaitRuntimeStart"
      /\ ~started(n) /\ ~hello(n) => dstate'[d] = dstate[d]
      /\ dstate' \in [Daemons -> {"Down", "WaitServerHello", "WaitRuntimeStart", "Running"}]
      /\ \A e \in Daemons \ {d} : dstate'[e] = dstate[e]
  <2>1. CASE started(n) \/ (hello(n) /\ d \in Ungated)
    <3>1. dstate' = [dstate EXCEPT ![d] = "Running"]
      <4>1. ~(hello(n) /\ ~started(n) /\ d \notin Ungated)
        BY <2>1
      <4> QED BY <1>4, <2>1, <4>1
    <3> QED BY <1>3, <2>1, <3>1
  <2>2. CASE ~started(n) /\ hello(n) /\ d \notin Ungated
    <3>1. dstate' = [dstate EXCEPT ![d] = "WaitRuntimeStart"]
      BY <1>4, <2>2
    <3> QED BY <1>3, <2>2, <3>1
  <2>3. CASE ~started(n) /\ ~hello(n)
    <3>1. dstate' = [dstate EXCEPT ![d] = dstate[d]]
      BY <1>4, <2>3
    <3> QED BY <1>3, <2>3, <3>1
  <2> QED BY <2>1, <2>2, <2>3
<1>7. /\ UpOK' /\ \A q \in Peers \ {d} : up'[q] = up[q]
      /\ up'[d] = up[d] \/ (hello(n) /\ up'[d] = Append(up[d], RuntimeReady(d)))
  <2>1. CASE Send(d, RuntimeReady(d)) /\ hello(n)
    BY <1>1, <1>2, <2>1, Sending
  <2>2. CASE UNCHANGED up
    BY <1>1, <2>2 DEF UpOK
  <2> QED BY <1>4, <2>1, <2>2
<1>8. /\ down' \in [Peers \ {"engined"} -> Seq(Frame)]
      /\ down'[d] = SubSeq(down[d], n + 1, Len(down[d])) /\ down[d] # <<>>
      /\ \A q \in Peers \ {"engined", d} : down'[q] = down[q]
  <2>1. down[d] \in Seq(Frame)
    BY <1>3
  <2>2. SubSeq(down[d], n + 1, Len(down[d])) \in Seq(Frame) /\ down[d] # <<>>
    BY <2>1
  <2>3. down' = [down EXCEPT ![d] = SubSeq(down[d], n + 1, Len(down[d]))]
    BY <1>4
  <2> QED BY <1>3, <2>2, <2>3
<1>9. reload' \in [Daemons -> BOOLEAN]
  <2>1. reload[d] \/ (\E i \in 1 .. n : Got(i, "ConfigApply")) \in BOOLEAN
    BY <1>3
  <2> QED BY <1>3, <1>4, <2>1
<1>10. UNCHANGED <<table, ipcdEv, rx, queue, requests, reloadStatus, shown>>
  BY DEF Daemon, ipcdVars, mgmtdVars, commitVars
<1>11. rx' \in Seq(RxMsg) /\ requests' \in Nat /\ TypeOK
  BY <1>10 DEF FleetTypes, FleetTypeOK, TypeOK
<1>12. TypeOK'
  BY <1>11, EngineApart DEF Daemon
<1>13. FleetTypes'
  BY <1>5, <1>6, <1>7, <1>8, <1>9, <1>10, <1>12 DEF FleetTypes, FleetTypeOK, WireOK
<1> QED BY <1>5, <1>6, <1>7, <1>8, <1>10, <1>13, Zenon DEF Got, hello, started

\* The steps of the fleet.
LEMMA FleetCases ==
  ASSUME [FleetNext]_fleetVars
  PROVE  \/ EngineTick \/ EngineCrash \/ Ipcd(IpcdExecute)
         \/ \E p \in Peers : Ipcd(IpcdHangUp(p))
         \/ \E p \in Peers : Ipcd(IpcdIngress(p))
         \/ Mgmtd(MgmtdCommit) \/ Mgmtd(MgmtdReceive)
         \/ \E d \in Daemons : Daemon(Boot(d))
         \/ \E d \in Daemons : Daemon(SendHello(d) \/ ResendReady(d))
         \/ \E d \in Daemons : Daemon(Receive(d))
         \/ \E d \in Daemons : Daemon(Reexec(d)) \/ Daemon(Crash(d))
         \/ UNCHANGED fleetVars
<1>1. \A p \in Peers : Ipcd(IpcdPoll(p)) => Ipcd(IpcdHangUp(p)) \/ Ipcd(IpcdIngress(p))
  BY Zenon DEF Ipcd, IpcdPoll
<1>2. \A d \in Daemons : Daemon(DaemonStep(d)) =>
        \/ Daemon(Boot(d)) \/ Daemon(SendHello(d) \/ ResendReady(d))
        \/ Daemon(Receive(d)) \/ Daemon(Reexec(d))
  BY Zenon DEF Daemon, DaemonStep
<1> QED BY <1>1, <1>2, Zenon DEF FleetNext

\* Nothing moves.
LEMMA FleetStutters ==
  ASSUME FleetTypes, UNCHANGED fleetVars
  PROVE  /\ FleetTypes'
         /\ UNCHANGED <<up, down, table, ipcdEv, dstate, loaded, rx, queue, shown, crashes>>
         /\ UNCHANGED <<eventQ, actionQ, procs>>
<1>1. /\ UNCHANGED <<up, down, table, ipcdEv, dstate, loaded, rx, queue, shown, crashes>>
      /\ UNCHANGED <<reload, reloadStatus>>
      /\ UNCHANGED <<eventQ, actionQ, procs>>
  BY DEF fleetVars, engineVars, ipcdVars, netVars, daemonVars, mgmtdVars, commitVars, bootVars
<1>2. TypeOK'
  BY DEF fleetVars, engineVars, bootVars, commitVars, TypeOK, FleetTypes, FleetTypeOK
<1>3. UpOK'
  BY <1>1 DEF UpOK, FleetTypes, WireOK
<1> QED BY <1>1, <1>2, <1>3 DEF FleetTypes, FleetTypeOK, WireOK

\* The fleet starts with empty connections.
LEMMA TypesStart == FleetInit => FleetTypes
<1> SUFFICES ASSUME FleetInit PROVE FleetTypes
  OBVIOUS
<1>1. TypeOK
  BY TypeInit DEF FleetInit
<1>2. table \in [Peers -> Route]
  <2>1. NoRoute \in Route
    BY DEF NoRoute, Route
  <2>2. [NoRoute EXCEPT !.bound = TRUE, !.generation = 1] \in Route
    BY DEF NoRoute, Route
  <2> QED BY <2>1, <2>2 DEF FleetInit
<1>3. \A S : <<>> \in Seq(S)
  OBVIOUS
<1>4. UpOK
  BY <1>3 DEF FleetInit, UpOK
<1>5. ipcdEv \in Seq(IpcdEvent) /\ down \in [Peers \ {"engined"} -> Seq(Frame)]
  BY <1>3 DEF FleetInit
<1>6. /\ dstate \in [Daemons -> {"Down", "WaitServerHello", "WaitRuntimeStart", "Running"}]
      /\ loaded \in [Daemons -> Nat] /\ reload \in [Daemons -> BOOLEAN]
      /\ reloadStatus = "Idle" /\ crashes \in Nat
  BY DEF FleetInit
<1> QED BY <1>1, <1>2, <1>4, <1>5, <1>6 DEF FleetTypes, FleetTypeOK, WireOK, Route

\* Every step keeps the types of the fleet and of its wires.
LEMMA TypesStep == FleetTypes /\ [FleetNext]_fleetVars => FleetTypes'
<1> SUFFICES ASSUME FleetTypes, [FleetNext]_fleetVars PROVE FleetTypes'
  OBVIOUS
<1>1. \A p \in Peers : Ipcd(IpcdIngress(p)) => FleetTypes'
  BY FrameRead
<1> QED BY <1>1, FleetCases, EngineWrites, EngineFalls, Executed, HangUpSeen, CommitSent,
           ConsoleRead, Booted, DaemonSent, DaemonRead, Died, FleetStutters, Zenon

(***************************************************************************)
(* The connection of one daemon                                            *)
(***************************************************************************)
Link(d) == Connected(d) /\ Reported(d)

\* A step that leaves the daemon and its side of the connection alone, and lets ipcd write
\* to it only over a live route.
LEMMA LinkGrows ==
  ASSUME NEW d \in Daemons, Link(d), up'[d] = up[d], dstate'[d] = dstate[d], loaded'[d] = loaded[d],
         table'[d].bound = table[d].bound,
         \/ table'[d].applied = table[d].applied
         \/ \E i \in Marks(d) : table'[d].applied = ipcdEv[i].msg.applied,
         down'[d] = down[d] \/ Live(d),
         \A i \in Marks(d)' : i \in Marks(d) /\ ipcdEv'[i] = ipcdEv[i]
  PROVE  Link(d)' /\ (Live(d)' <=> Live(d))
<1>1. HungUp(d)' <=> HungUp(d)
  BY DEF HungUp
<1>2. Live(d)' <=> Live(d)
  BY <1>1 DEF Live
<1>3. Connected(d)'
  BY <1>2 DEF Connected, Link
<1>4. ASSUME Live(d) PROVE table'[d].applied \in {0, loaded'[d]}
  BY <1>4 DEF Link, Reported
<1>5. ASSUME Live(d), NEW i \in Marks(d)' PROVE ipcdEv'[i].msg.applied = loaded'[d]
  BY <1>5 DEF Link, Reported
<1>6. Reported(d)'
  BY <1>2, <1>4, <1>5 DEF Link, Reported
<1> QED BY <1>2, <1>3, <1>6 DEF Link

\* The marks of d when another peer's event, or none, joins ipcd's queue.
LEMMA MarksOfOthers ==
  ASSUME ipcdEv \in Seq(IpcdEvent), NEW d, NEW p, NEW m,
         ipcdEv' = Append(ipcdEv, [src |-> p, msg |-> m]), IsOwn(m)
  PROVE  /\ p # d \/ m.cmd # "RuntimeReady" =>
              \A i \in Marks(d)' : i \in Marks(d) /\ ipcdEv'[i] = ipcdEv[i]
         /\ \A i \in Marks(d)' : \/ i \in Marks(d) /\ ipcdEv'[i] = ipcdEv[i]
                                 \/ ipcdEv'[i] = [src |-> p, msg |-> m] /\ m.cmd = "RuntimeReady"
<1> DEFINE e == [src |-> p, msg |-> m]
<1>1. /\ DOMAIN ipcdEv' = 1 .. Len(ipcdEv) + 1 /\ DOMAIN ipcdEv = 1 .. Len(ipcdEv)
      /\ Len(ipcdEv) \in Nat
      /\ ipcdEv'[Len(ipcdEv) + 1] = e /\ \A i \in 1 .. Len(ipcdEv) : ipcdEv'[i] = ipcdEv[i]
  OBVIOUS
<1>2. e.src = p /\ e.msg = m
  OBVIOUS
<1>3. \A i \in 1 .. Len(ipcdEv) + 1 : i \in 1 .. Len(ipcdEv) \/ i = Len(ipcdEv) + 1
  BY <1>1
<1> HIDE DEF e
<1>4. \A i \in Marks(d)' : \/ i \in Marks(d) /\ ipcdEv'[i] = ipcdEv[i]
                           \/ ipcdEv'[i] = e /\ m.cmd = "RuntimeReady" /\ p = d
  BY <1>1, <1>2, <1>3 DEF Marks
<1> QED BY <1>4 DEF e

\* ipcd reads a frame of d itself.
LEMMA LinkRead ==
  ASSUME FleetTypes, NEW d \in Daemons, Link(d), Ipcd(IpcdIngress(d))
  PROVE  Link(d)' /\ Live(d)' /\ (~table[d].bound => Head(up[d]).cmd = "ClientHello")
<1> DEFINE m == Head(up[d])
<1>1. d \in Peers /\ d # "engined" /\ SentBy(d) = {HangUp} \cup DaemonMsg
  BY PeersApart, Senders
<1>2. /\ up[d] # <<>> /\ ~HungUp(d) /\ m \in SentBy(d) /\ m # HangUp /\ up'[d] = Tail(up[d])
      /\ table'[d].bound
      /\ table[d].bound => table'[d] = table[d]
      /\ ~table[d].bound => table'[d].applied = 0 /\ \A i \in DOMAIN ipcdEv : ipcdEv[i].src # d
  BY <1>1, FrameRead
<1>3. m \in DaemonMsg
  BY <1>1, <1>2
<1>4. IsOwn(m)
  BY <1>3, Commands DEF IsOwn
<1>5. ipcdEv' = Append(ipcdEv, [src |-> d, msg |-> m]) /\ UNCHANGED <<down, rx>>
  BY <1>1, <1>4, FrameRead
<1>6. UNCHANGED <<dstate, loaded>>
  BY DEF Ipcd, daemonVars
<1>7. up[d] \in Seq(SentBy(d)) /\ ipcdEv \in Seq(IpcdEvent)
  BY <1>1 DEF FleetTypes, WireOK, UpOK
<1>8. /\ Len(up'[d]) = Len(up[d]) - 1 /\ Len(up[d]) \in Nat \ {0} /\ m = up[d][1]
      /\ \A i \in 1 .. Len(up[d]) - 1 : up'[d][i] = up[d][i + 1]
  BY <1>2, <1>7, HeadTailProperties
<1> HIDE DEF m
<1>9. \A i \in 1 .. Len(up[d]) - 1 : i + 1 \in 1 .. Len(up[d]) /\ i + 1 \in 2 .. Len(up[d])
  BY <1>8
<1>10. \A i \in 1 .. Len(up'[d]) : up'[d][i].cmd # "HangUp"
  BY <1>8, <1>9 DEF Link, Connected
<1>11. Live(d)'
  <2>1. up'[d] # <<>> => Head(up'[d]) = up'[d][1] /\ 1 \in 1 .. Len(up'[d])
    BY <1>2, <1>7, <1>8
  <2>2. ~HungUp(d)'
    BY <1>10, <2>1, Commands DEF HungUp
  <2> QED BY <1>2, <2>2 DEF Live
<1>12. dstate[d] # "Down"
  <2>1. up[d] = <<>> \/ up[d] = <<HangUp>> => up[d] = <<>> \/ Head(up[d]) = HangUp
    OBVIOUS
  <2> QED BY <1>2, <2>1 DEF Link, Connected, HungUp
<1>13. Connected(d)'
  <2>1. \A i \in 2 .. Len(up'[d]) : up'[d][i].cmd # "HangUp"
    BY <1>8, <1>10
  <2> QED BY <1>6, <1>11, <1>12, <2>1 DEF Connected
<1>14. \A i \in 1 .. Len(up'[d]) : up'[d][i].cmd = "RuntimeReady" => up'[d][i].applied = loaded'[d]
  BY <1>6, <1>8, <1>9 DEF Link, Reported
<1>15. m.cmd = "RuntimeReady" => m.applied = loaded[d]
  BY <1>8 DEF Link, Reported
<1>16. \A i \in Marks(d)' : \/ i \in Marks(d) /\ ipcdEv'[i] = ipcdEv[i]
                            \/ ipcdEv'[i] = [src |-> d, msg |-> m] /\ m.cmd = "RuntimeReady"
  BY <1>4, <1>5, <1>7, MarksOfOthers
<1>17. CASE table[d].bound
  <2>1. Live(d)
    BY <1>2, <1>17 DEF Live
  <2>2. table'[d].applied \in {0, loaded'[d]}
    BY <1>2, <1>6, <1>17, <2>1 DEF Link, Reported
  <2>3. \A i \in Marks(d)' : ipcdEv'[i].msg.applied = loaded'[d]
    BY <1>6, <1>15, <1>16, <2>1 DEF Link, Reported
  <2> QED BY <1>11, <1>13, <1>14, <1>17, <2>2, <2>3 DEF Link, Reported
<1>18. CASE ~table[d].bound
  <2>1. Marks(d) = {}
    BY <1>2, <1>18 DEF Marks
  <2>2. \A i \in Marks(d)' : ipcdEv'[i].msg.applied = loaded'[d]
    BY <1>6, <1>15, <1>16, <2>1
  <2>3. ~Live(d)
    BY <1>18 DEF Live
  <2>4. m.cmd = "ClientHello"
    <3>1. m.cmd \in {"HangUp", "ClientHello"}
      BY <1>8, <2>3 DEF Link, Connected
    <3> QED BY <1>3, <3>1, Commands
  <2> QED BY <1>2, <1>11, <1>13, <1>14, <1>18, <2>2, <2>4 DEF Link, Reported, m
<1> QED BY <1>17, <1>18

\* ipcd sees that d has hung up.
LEMMA LinkHangUp ==
  ASSUME FleetTypes, NEW d \in Daemons, Link(d), Ipcd(IpcdHangUp(d))
  PROVE  Link(d)' /\ ~Live(d) /\ ~Live(d)'
<1>1. d \in Peers
  BY PeersApart
<1>2. /\ up[d] # <<>> /\ Head(up[d]) = HangUp /\ up'[d] = Tail(up[d]) /\ ~table'[d].bound
  BY <1>1, HangUpSeen
<1>3. UNCHANGED <<down, dstate, loaded, ipcdEv>>
  BY DEF Ipcd, IpcdHangUp, daemonVars
<1>4. up[d] \in Seq(SentBy(d))
  BY <1>1 DEF FleetTypes, WireOK, UpOK
<1>5. /\ Len(up'[d]) = Len(up[d]) - 1 /\ Len(up[d]) \in Nat \ {0}
      /\ \A i \in 1 .. Len(up[d]) - 1 : up'[d][i] = up[d][i + 1]
  BY <1>2, <1>4, HeadTailProperties
<1>6. \A i \in 1 .. Len(up[d]) - 1 : i + 1 \in 1 .. Len(up[d]) /\ i + 1 \in 2 .. Len(up[d])
  BY <1>5
<1>7. ~Live(d) /\ ~Live(d)'
  BY <1>2 DEF Live, HungUp
<1>8. up[d] = <<HangUp>> => up'[d] = <<>>
  BY <1>2
<1>9. \A i \in 2 .. Len(up'[d]) : i \in 1 .. Len(up[d]) - 1
  BY <1>5
<1>10. Connected(d)'
  <2>1. \A i \in 2 .. Len(up'[d]) : up'[d][i].cmd # "HangUp"
    BY <1>5, <1>6, <1>9 DEF Link, Connected
  <2>2. \A i \in 1 .. Len(up'[d]) : up'[d][i].cmd \in {"HangUp", "ClientHello"}
    BY <1>5, <1>6, <1>7 DEF Link, Connected
  <2>3. dstate'[d] = "Down" => up'[d] = <<>>
    BY <1>2, <1>3, <1>8 DEF Link, Connected
  <2>4. ~(down'[d] # <<>> \/ dstate'[d] \in {"WaitRuntimeStart", "Running"})
    BY <1>3, <1>7 DEF Link, Connected
  <2> QED BY <1>7, <2>1, <2>2, <2>3, <2>4 DEF Connected
<1>11. Reported(d)'
  BY <1>3, <1>5, <1>6, <1>7 DEF Link, Reported
<1> QED BY <1>7, <1>10, <1>11 DEF Link

\* d's process starts: whatever ipcd still knows is of its predecessor.
LEMMA LinkBoot ==
  ASSUME FleetTypes, NEW d \in Daemons, Link(d), Daemon(Boot(d))
  PROVE  Link(d)' /\ ~Live(d) /\ ~Live(d)'
<1>1. /\ dstate[d] = "Down" /\ dstate'[d] = "WaitServerHello"
      /\ UNCHANGED <<up, down, table, ipcdEv>>
  BY Booted
<1>2. ~Live(d) /\ (up[d] = <<>> \/ up[d] = <<HangUp>>)
  BY <1>1 DEF Link, Connected
<1>3. ~Live(d)'
  BY <1>1, <1>2 DEF Live, HungUp
<1>4. \A i \in 1 .. Len(up[d]) : up[d][i].cmd # "RuntimeReady"
  BY <1>2, Commands
<1>5. Connected(d)'
  BY <1>1, <1>2, <1>3 DEF Link, Connected
<1>6. Reported(d)'
  BY <1>1, <1>3, <1>4 DEF Reported
<1> QED BY <1>2, <1>3, <1>5, <1>6 DEF Link

\* A frame of d joins its connection.
LEMMA Appended ==
  ASSUME UpOK, NEW d \in Daemons, Link(d), NEW m \in DaemonMsg, up'[d] = Append(up[d], m),
         table'[d].bound = table[d].bound
  PROVE  /\ \A i \in 2 .. Len(up'[d]) : up'[d][i].cmd # "HangUp"
         /\ Live(d)' <=> Live(d)
         /\ \A i \in 1 .. Len(up'[d]) : up'[d][i] = m \/ (i \in 1 .. Len(up[d]) /\ up'[d][i] = up[d][i])
<1>1. up[d] \in Seq({HangUp} \cup DaemonMsg) /\ m \in {HangUp} \cup DaemonMsg
  BY PeersApart, Senders DEF UpOK
<1>2. /\ Len(up'[d]) = Len(up[d]) + 1 /\ Len(up[d]) \in Nat
      /\ up'[d][Len(up[d]) + 1] = m
      /\ \A i \in 1 .. Len(up[d]) : up'[d][i] = up[d][i]
  BY <1>1, AppendProperties
<1>3. m.cmd # "HangUp" /\ m # HangUp
  BY Commands
<1>4. \A i \in 1 .. Len(up'[d]) : up'[d][i] = m \/ (i \in 1 .. Len(up[d]) /\ up'[d][i] = up[d][i])
  <2>1. \A i \in 1 .. Len(up[d]) + 1 : i \in 1 .. Len(up[d]) \/ i = Len(up[d]) + 1
    BY <1>2
  <2> QED BY <1>2, <2>1
<1>5. \A i \in 2 .. Len(up'[d]) : up'[d][i].cmd # "HangUp"
  <2>1. \A i \in 2 .. Len(up'[d]) : i \in 1 .. Len(up'[d])
    BY <1>2
  <2>2. \A i \in 2 .. Len(up'[d]) : i \in 1 .. Len(up[d]) => i \in 2 .. Len(up[d])
    BY <1>2
  <2> QED BY <1>3, <1>4, <2>1, <2>2 DEF Link, Connected
<1>6. HungUp(d)' <=> HungUp(d)
  <2>1. up'[d] # <<>> /\ Head(up'[d]) = up'[d][1]
    <3>1. up'[d] \in Seq({HangUp} \cup DaemonMsg)
      BY <1>1
    <3> QED BY <1>2, <3>1
  <2>2. CASE up[d] = <<>>
    <3>1. up'[d][1] = m
      BY <1>2, <2>2
    <3> QED BY <1>3, <2>1, <2>2, <3>1 DEF HungUp
  <2>3. CASE up[d] # <<>>
    <3>1. 1 \in 1 .. Len(up[d]) /\ Head(up[d]) = up[d][1]
      BY <1>1, <2>3
    <3> QED BY <1>2, <2>1, <2>3, <3>1 DEF HungUp
  <2> QED BY <2>2, <2>3
<1>7. Live(d)' <=> Live(d)
  BY <1>6, Zenon DEF Live
<1> QED BY <1>4, <1>5, <1>7

\* d sends its hello or its RuntimeReady.
LEMMA LinkSend ==
  ASSUME FleetTypes, NEW d \in Daemons, Link(d), Daemon(SendHello(d) \/ ResendReady(d))
  PROVE  Link(d)' /\ (Live(d)' <=> Live(d))
<1>1. PICK m : up'[d] = Append(up[d], m) /\
               \/ dstate[d] = "WaitServerHello" /\ m = [cmd |-> "ClientHello"]
               \/ dstate[d] = "WaitRuntimeStart" /\ m = RuntimeReady(d)
  BY DaemonSent
<1>2. UNCHANGED <<down, table, ipcdEv, dstate, loaded>>
  BY DaemonSent
<1>3. loaded[d] \in Nat /\ UpOK
  BY DEF FleetTypes, FleetTypeOK, WireOK
<1>4. m \in DaemonMsg /\ (m.cmd = "RuntimeReady" => m.applied = loaded[d])
  BY <1>1, <1>3 DEF DaemonMsg, RuntimeReady
<1>5. dstate[d] = "WaitServerHello" => m.cmd = "ClientHello"
  BY <1>1
<1>6. /\ \A i \in 2 .. Len(up'[d]) : up'[d][i].cmd # "HangUp"
      /\ Live(d)' <=> Live(d)
      /\ \A i \in 1 .. Len(up'[d]) : up'[d][i] = m \/ (i \in 1 .. Len(up[d]) /\ up'[d][i] = up[d][i])
  BY <1>1, <1>2, <1>3, <1>4, Appended
<1>7. dstate[d] # "Down" /\ (dstate[d] # "WaitServerHello" => Live(d))
  BY <1>1 DEF Link, Connected
<1>8. ~Live(d) => \A i \in 1 .. Len(up'[d]) : up'[d][i].cmd \in {"HangUp", "ClientHello"}
  BY <1>5, <1>6, <1>7 DEF Link, Connected
<1>9. Connected(d)'
  BY <1>2, <1>6, <1>7, <1>8 DEF Link, Connected
<1>10. Marks(d)' = Marks(d)
  BY <1>2 DEF Marks
<1>11. \A i \in 1 .. Len(up'[d]) : up'[d][i].cmd = "RuntimeReady" => up'[d][i].applied = loaded'[d]
  BY <1>2, <1>4, <1>6 DEF Link, Reported
<1>12. Reported(d)'
  BY <1>2, <1>6, <1>10, <1>11 DEF Link, Reported
<1> QED BY <1>6, <1>9, <1>12 DEF Link

\* d reads what ipcd wrote to it.
LEMMA LinkReceive ==
  ASSUME FleetTypes, NEW d \in Daemons, Link(d), Daemon(Receive(d))
  PROVE  Link(d)' /\ Live(d) /\ Live(d)'
<1>1. /\ dstate[d] # "Down" /\ down[d] # <<>> /\ UNCHANGED <<table, ipcdEv, loaded>>
  BY DaemonRead
<1>2. up'[d] = up[d] \/ up'[d] = Append(up[d], RuntimeReady(d))
  BY DaemonRead
<1>3. dstate'[d] \in {"Running", "WaitRuntimeStart", dstate[d]}
  BY DaemonRead
<1>4. Live(d)
  BY <1>1 DEF Link, Connected
<1>5. loaded[d] \in Nat /\ UpOK
  BY DEF FleetTypes, FleetTypeOK, WireOK
<1>6. RuntimeReady(d) \in DaemonMsg /\ RuntimeReady(d).applied = loaded[d]
  BY <1>5 DEF DaemonMsg, RuntimeReady
<1>7. Marks(d)' = Marks(d)
  BY <1>1 DEF Marks
<1>8. CASE up'[d] = up[d]
  <2>1. Live(d)'
    BY <1>1, <1>4, <1>8 DEF Live, HungUp
  <2>2. Connected(d)'
    BY <1>1, <1>3, <1>8, <2>1 DEF Link, Connected
  <2>3. Reported(d)'
    BY <1>1, <1>4, <1>7, <1>8 DEF Link, Reported
  <2> QED BY <1>4, <2>1, <2>2, <2>3 DEF Link
<1>9. CASE up'[d] = Append(up[d], RuntimeReady(d))
  <2> DEFINE m == RuntimeReady(d)
  <2>1. /\ \A i \in 2 .. Len(up'[d]) : up'[d][i].cmd # "HangUp"
        /\ Live(d)' <=> Live(d)
        /\ \A i \in 1 .. Len(up'[d]) : up'[d][i] = m \/ (i \in 1 .. Len(up[d]) /\ up'[d][i] = up[d][i])
    BY <1>1, <1>5, <1>6, <1>9, Appended
  <2> HIDE DEF m
  <2>2. Connected(d)'
    BY <1>1, <1>3, <1>4, <2>1 DEF Connected
  <2>3. \A i \in 1 .. Len(up'[d]) : up'[d][i].cmd = "RuntimeReady" => up'[d][i].applied = loaded'[d]
    BY <1>1, <1>6, <2>1 DEF Link, Reported, m
  <2>4. Reported(d)'
    BY <1>1, <1>4, <1>7, <2>3 DEF Link, Reported
  <2> QED BY <1>4, <2>1, <2>2, <2>4 DEF Link
<1> QED BY <1>2, <1>8, <1>9

\* d dies.
LEMMA LinkDies ==
  ASSUME FleetTypes, NEW d \in Daemons, Link(d), Daemon(Reexec(d)) \/ Daemon(Crash(d))
  PROVE  Link(d)' /\ ~Live(d)'
<1>1. dstate'[d] = "Down" /\ up'[d] = <<HangUp>> /\ down'[d] = <<>>
  BY Died
<1>2. /\ Len(up'[d]) = 1 /\ up'[d][1] = HangUp /\ Head(up'[d]) = HangUp /\ up'[d] # <<>>
  BY <1>1
<1>3. ~Live(d)'
  BY <1>2 DEF Live, HungUp
<1>4. Connected(d)'
  BY <1>1, <1>2, <1>3, Commands DEF Connected
<1>5. Reported(d)'
  BY <1>2, <1>3, Commands DEF Reported
<1> QED BY <1>3, <1>4, <1>5 DEF Link

\* Every other step of the fleet leaves d's side of the connection alone.
LEMMA Elsewhere ==
  ASSUME FleetTypes, [FleetNext]_fleetVars, NEW d \in Daemons, Link(d),
         ~Ipcd(IpcdHangUp(d)), ~Ipcd(IpcdIngress(d)), ~Daemon(Boot(d)),
         ~Daemon(SendHello(d) \/ ResendReady(d)), ~Daemon(Receive(d)),
         ~(Daemon(Reexec(d)) \/ Daemon(Crash(d)))
  PROVE  /\ up'[d] = up[d] /\ dstate'[d] = dstate[d] /\ loaded'[d] = loaded[d]
         /\ table'[d].bound = table[d].bound /\ table'[d].generation = table[d].generation
         /\ \/ table'[d].applied = table[d].applied
            \/ \E i \in Marks(d) : table'[d].applied = ipcdEv[i].msg.applied
         /\ down'[d] = down[d] \/ Live(d)
         /\ \A i \in Marks(d)' : i \in Marks(d) /\ ipcdEv'[i] = ipcdEv[i]
         /\ \E x \in Seq(Frame) :
              /\ down'[d] = down[d] \o x
              /\ HasCmd(x, "RuntimeStart") => InFlight("engined", "RuntimeStart")
<1> DEFINE Goal ==
         /\ up'[d] = up[d] /\ dstate'[d] = dstate[d] /\ loaded'[d] = loaded[d]
         /\ table'[d].bound = table[d].bound /\ table'[d].generation = table[d].generation
         /\ \/ table'[d].applied = table[d].applied
            \/ \E i \in Marks(d) : table'[d].applied = ipcdEv[i].msg.applied
         /\ down'[d] = down[d] \/ Live(d)
         /\ \A i \in Marks(d)' : i \in Marks(d) /\ ipcdEv'[i] = ipcdEv[i]
         /\ \E x \in Seq(Frame) :
              /\ down'[d] = down[d] \o x
              /\ HasCmd(x, "RuntimeStart") => InFlight("engined", "RuntimeStart")
<1> SUFFICES Goal
  OBVIOUS
<1>1. d \in Peers /\ d \in Peers \ {"engined"} /\ d \in Peers \ {"mgmtd"} /\ ipcdEv \in Seq(IpcdEvent)
      /\ down[d] \in Seq(Frame) /\ table' \in [Peers -> Route]
  <2>1. FleetTypes'
    BY TypesStep
  <2> QED BY <2>1, PeersApart DEF FleetTypes, WireOK, FleetTypeOK, Route
<1>x. <<>> \in Seq(Frame) /\ down[d] \o <<>> = down[d] /\ ~HasCmd(<<>>, "RuntimeStart")
  BY <1>1 DEF HasCmd
<1>2. ASSUME up'[d] = up[d], dstate'[d] = dstate[d], loaded'[d] = loaded[d], table'[d] = table[d],
             down'[d] = down[d], ipcdEv' = ipcdEv
      PROVE  Goal
  BY <1>2, <1>x DEF Marks
<1>3. CASE EngineTick
  <2>1. up'[d] = up[d]
    BY <1>1, <1>3, EngineWrites
  <2>2. UNCHANGED <<down, table, ipcdEv, dstate, loaded>>
    BY <1>3 DEF EngineTick, Engine, ipcdVars, daemonVars
  <2> QED BY <1>2, <2>1, <2>2
<1>4. CASE EngineCrash
  <2>1. up'[d] = up[d]
    BY <1>1, <1>4, EngineFalls
  <2>2. UNCHANGED <<down, table, ipcdEv, dstate, loaded>>
    BY <1>4 DEF EngineCrash, ipcdVars, daemonVars
  <2> QED BY <1>2, <2>1, <2>2
<1>5. CASE Ipcd(IpcdExecute)
  <2>1. /\ ipcdEv' = <<>> /\ up' = up
        /\ table'[d].bound = table[d].bound /\ table'[d].generation = table[d].generation
        /\ \/ table'[d].applied = table[d].applied
           \/ \E i \in Marks(d) : table'[d].applied = ipcdEv[i].msg.applied
        /\ down'[d] = IF Reachable(table, d) THEN down[d] \o Replies(table', d) ELSE down[d]
    BY <1>1, <1>5, Executed
  <2>2. Marks(d)' = {}
    BY <2>1 DEF Marks
  <2>3. down'[d] = down[d] \/ Live(d)
    BY <2>1 DEF Live, Reachable
  <2>4. UNCHANGED <<dstate, loaded>>
    BY <1>5 DEF Ipcd, daemonVars
  <2>5. /\ Replies(table', d) \in Seq(Frame)
        /\ \A n \in DOMAIN Replies(table', d) : Replies(table', d)[n].cmd \in {"ServerHello", "SyncResponse"}
    BY <1>1, ReplyFacts
  <2>6. ~HasCmd(Replies(table', d), "RuntimeStart")
    BY <2>5 DEF HasCmd
  <2>7. \E x \in Seq(Frame) :
              /\ down'[d] = down[d] \o x
              /\ HasCmd(x, "RuntimeStart") => InFlight("engined", "RuntimeStart")
    BY <1>x, <2>1, <2>5, <2>6
  <2> QED BY <2>1, <2>2, <2>3, <2>4, <2>7
<1>6. ASSUME NEW p \in Peers, Ipcd(IpcdHangUp(p)) PROVE Goal
  <2>1. p # d /\ up'[d] = up[d] /\ table'[d] = table[d]
    BY <1>1, <1>6, HangUpSeen
  <2>2. UNCHANGED <<down, ipcdEv, dstate, loaded>>
    BY <1>6 DEF Ipcd, IpcdHangUp, daemonVars
  <2> QED BY <1>2, <2>1, <2>2
<1>7. ASSUME NEW p \in Peers, Ipcd(IpcdIngress(p)) PROVE Goal
  <2> DEFINE m == Head(up[p])
  <2>1. p # d
    BY <1>7
  <2>2. up'[d] = up[d] /\ table'[d] = table[d]
    <3>1. d \in Peers \ {p}
      BY <1>1, <2>1
    <3>2. \A q \in Peers \ {p} : up'[q] = up[q] /\ table'[q] = table[q]
      BY <1>7, FrameRead
    <3> QED BY <3>1, <3>2
  <2>3. \/ IsOwn(m) /\ ipcdEv' = Append(ipcdEv, [src |-> p, msg |-> m]) /\ UNCHANGED down
        \/ /\ ~IsOwn(m) /\ UNCHANGED ipcdEv
           /\ down'[d] = IF Reachable(table', d) /\ d \in Destinations(p, m)
                         THEN down[d] \o <<m>> ELSE down[d]
    BY <1>1, <1>7, FrameRead
  <2>9. m = Head(up[p]) /\ up[p] # <<>> /\ m \in SentBy(p) /\ m # HangUp
    BY <1>7, FrameRead
  <2> HIDE DEF m
  <2>4. UNCHANGED <<dstate, loaded>>
    BY <1>7 DEF Ipcd, daemonVars
  <2>5. Reachable(table', d) => Live(d)
    BY <2>2 DEF Reachable, Live
  <2>6. down'[d] = down[d] \/ Live(d)
    BY <2>3, <2>5
  <2>7. \A i \in Marks(d)' : i \in Marks(d) /\ ipcdEv'[i] = ipcdEv[i]
    <3>1. CASE IsOwn(m) /\ ipcdEv' = Append(ipcdEv, [src |-> p, msg |-> m])
      BY <1>1, <2>1, <3>1, MarksOfOthers
    <3>2. CASE UNCHANGED ipcdEv
      BY <3>2 DEF Marks
    <3> QED BY <2>3, <3>1, <3>2
  <2>8. \E x \in Seq(Frame) :
              /\ down'[d] = down[d] \o x
              /\ HasCmd(x, "RuntimeStart") => InFlight("engined", "RuntimeStart")
    <3>1. CASE down'[d] = down[d]
      BY <1>x, <3>1
    <3>2. CASE down'[d] # down[d]
      <4>1. /\ down'[d] = down[d] \o <<m>> /\ ~IsOwn(m) /\ up[p] # <<>> /\ m = Head(up[p])
            /\ m \in SentBy(p) /\ m # HangUp
        BY <2>3, <2>9, <3>2
      <4>2. m \in Frame
        BY <4>1, Senders
      <4>3. <<m>> \in Seq(Frame) /\ (HasCmd(<<m>>, "RuntimeStart") => m.cmd = "RuntimeStart")
        BY <4>2 DEF HasCmd
      <4>4. ASSUME m.cmd = "RuntimeStart" PROVE InFlight("engined", "RuntimeStart")
        <5>1. p = "engined"
          <6>1. p \in Daemons \/ p = "engined" \/ p = "mgmtd"
            BY DEF Peers
          <6> QED BY <4>1, <4>4, <6>1, Senders, Commands
        <5>2. up[p] \in Seq(Frame)
          BY DEF FleetTypes, WireOK, UpOK
        <5>3. 1 \in DOMAIN up[p] /\ up[p][1] = m
          BY <4>1, <5>2
        <5> QED BY <4>4, <5>1, <5>3 DEF InFlight
      <4> QED BY <4>1, <4>3, <4>4
    <3> QED BY <3>1, <3>2
  <2> QED BY <2>2, <2>4, <2>6, <2>7, <2>8
<1>8. CASE Mgmtd(MgmtdCommit)
  BY <1>1, <1>2, <1>8, CommitSent
<1>9. CASE Mgmtd(MgmtdReceive)
  BY <1>1, <1>2, <1>9, ConsoleRead
<1>10. ASSUME NEW e \in Daemons, Daemon(Boot(e)) PROVE Goal
  BY <1>2, <1>10, Booted
<1>11. ASSUME NEW e \in Daemons, Daemon(SendHello(e) \/ ResendReady(e)) PROVE Goal
  BY <1>1, <1>2, <1>11, DaemonSent
<1>12. ASSUME NEW e \in Daemons, Daemon(Receive(e)) PROVE Goal
  <2>1. e # d
    BY <1>12
  <2>2. UNCHANGED <<table, ipcdEv, loaded>> /\ up'[d] = up[d] /\ dstate'[d] = dstate[d] /\ down'[d] = down[d]
    BY <1>1, <1>12, <2>1, DaemonRead
  <2> QED BY <1>2, <2>2
<1>13. ASSUME NEW e \in Daemons, Daemon(Reexec(e)) \/ Daemon(Crash(e)) PROVE Goal
  <2>1. e # d
    BY <1>13
  <2>2. UNCHANGED <<table, ipcdEv, loaded>> /\ up'[d] = up[d] /\ dstate'[d] = dstate[d] /\ down'[d] = down[d]
    BY <1>1, <1>13, <2>1, Died
  <2> QED BY <1>2, <2>2
<1>14. CASE UNCHANGED fleetVars
  BY <1>2, <1>14, FleetStutters
<1> HIDE DEF Goal
<1> QED BY <1>3, <1>4, <1>5, <1>6, <1>7, <1>8, <1>9, <1>10, <1>11, <1>12, <1>13, <1>14, FleetCases, Zenon

\* The connection of every daemon stays what it is.
LEMMA LinkStep ==
  ASSUME FleetTypes, [FleetNext]_fleetVars, NEW d \in Daemons, Link(d)
  PROVE  Link(d)'
<1>1. CASE Ipcd(IpcdHangUp(d)) \/ Ipcd(IpcdIngress(d))
  BY <1>1, LinkHangUp, LinkRead, Zenon
<1>2. CASE Daemon(Boot(d)) \/ Daemon(SendHello(d) \/ ResendReady(d)) \/ Daemon(Receive(d))
           \/ (Daemon(Reexec(d)) \/ Daemon(Crash(d)))
  BY <1>2, LinkBoot, LinkSend, LinkReceive, LinkDies, Zenon
<1>3. CASE ~(Ipcd(IpcdHangUp(d)) \/ Ipcd(IpcdIngress(d)) \/ Daemon(Boot(d))
             \/ Daemon(SendHello(d) \/ ResendReady(d)) \/ Daemon(Receive(d))
             \/ (Daemon(Reexec(d)) \/ Daemon(Crash(d))))
  BY <1>3, Elsewhere, LinkGrows
<1> QED BY <1>1, <1>2, <1>3

LinkInv == FleetTypes /\ \A d \in Daemons : Link(d)
\* There is no connection when the fleet starts.
LEMMA LinkStart == FleetInit => LinkInv
<1> SUFFICES ASSUME FleetInit, NEW d \in Daemons PROVE Link(d)
  BY TypesStart DEF LinkInv
<1>1. /\ up[d] = <<>> /\ down[d] = <<>> /\ dstate[d] = "Down" /\ ~table[d].bound /\ ipcdEv = <<>>
  BY PeersApart DEF FleetInit, NoRoute
<1>2. ~Live(d)
  BY <1>1 DEF Live
<1> QED BY <1>1, <1>2 DEF Link, Connected, Reported

\* Of every step of the fleet.
LEMMA LinkNext == LinkInv /\ [FleetNext]_fleetVars => LinkInv'
BY TypesStep, LinkStep DEF LinkInv

\* Types of the fleet's variables, in every reachable state.
THEOREM FleetTypeCorrect == FleetSpec => []FleetTypeOK
<1>1. FleetSpec => []LinkInv
  BY LinkStart, LinkNext, PTL DEF FleetSpec
<1>2. LinkInv => FleetTypeOK
  BY DEF LinkInv, FleetTypes
<1> QED BY <1>1, <1>2, PTL

\* What ipcd reports as applied is what the process at the other end of the route loaded.
THEOREM AppliedIsLoadedAlways == FleetSpec => []AppliedIsLoaded
<1>1. FleetSpec => []LinkInv
  BY LinkStart, LinkNext, PTL DEF FleetSpec
<1>2. LinkInv => AppliedIsLoaded
  BY DEF LinkInv, Link, Reported, Live, AppliedIsLoaded
<1> QED BY <1>1, <1>2, PTL

(***************************************************************************)
(* What engined has heard of a daemon                                      *)
(***************************************************************************)
\* An event of d in ipcd's queue stays until ipcd executes.
LEMMA AskedStays ==
  ASSUME ipcdEv \in Seq(IpcdEvent), NEW d, NEW cmd, Asked(d, cmd), NEW e,
         ipcdEv' = ipcdEv \/ ipcdEv' = Append(ipcdEv, e)
  PROVE  Asked(d, cmd)'
<1>1. PICK i \in DOMAIN ipcdEv : ipcdEv[i].src = d /\ ipcdEv[i].msg.cmd = cmd
  BY DEF Asked
<1>2. i \in DOMAIN ipcdEv' /\ ipcdEv'[i] = ipcdEv[i]
  OBVIOUS
<1> QED BY <1>1, <1>2 DEF Asked

\* ipcd's queue grows or is executed as a whole.
LEMMA QueueGrows ==
  ASSUME FleetTypes, [FleetNext]_fleetVars, ~Ipcd(IpcdExecute)
  PROVE  ipcdEv' = ipcdEv \/ \E e : ipcdEv' = Append(ipcdEv, e)
<1>1. \A p \in Peers : Ipcd(IpcdIngress(p)) => ipcdEv' = ipcdEv \/ \E e : ipcdEv' = Append(ipcdEv, e)
  BY Zenon DEF Ipcd, IpcdIngress
<1>2. EngineTick \/ EngineCrash => ipcdEv' = ipcdEv
  BY DEF EngineTick, Engine, EngineCrash, ipcdVars
<1>3. \A p \in Peers : Ipcd(IpcdHangUp(p)) => ipcdEv' = ipcdEv
  BY DEF Ipcd, IpcdHangUp
<1>4. \A step : Mgmtd(step) => ipcdEv' = ipcdEv
  BY DEF Mgmtd, ipcdVars
<1>5. \A step : Daemon(step) => ipcdEv' = ipcdEv
  BY DEF Daemon, ipcdVars
<1>6. UNCHANGED fleetVars => ipcdEv' = ipcdEv
  BY DEF fleetVars, ipcdVars
<1> QED BY <1>1, <1>2, <1>3, <1>4, <1>5, <1>6, FleetCases, Zenon

\* What is known of d's connection stays known through every step, and ipcd goes on knowing it.
LEMMA KnownStep ==
  ASSUME LinkInv, [FleetNext]_fleetVars, NEW d \in Daemons, Greeted(d)
  PROVE  /\ Greeted(d)'
         /\ Met(d) => Met(d)'
         /\ \A g \in Nat : Known(d, g) => Known(d, g)'
<1> DEFINE Goal == /\ Greeted(d)'
                   /\ Met(d) => Met(d)'
                   /\ \A g \in Nat : Known(d, g) => Known(d, g)'
<1> SUFFICES Goal
  OBVIOUS
<1>1. /\ FleetTypes /\ Link(d) /\ LinkInv' /\ FleetTypes' /\ Link(d)' /\ d \in Peers
      /\ ipcdEv \in Seq(IpcdEvent) /\ down[d] \in Seq(Frame)
      /\ table[d] \in Route /\ table'[d] \in Route
  <2>1. LinkInv'
    BY LinkNext
  <2> QED BY <2>1, PeersApart DEF LinkInv, FleetTypes, FleetTypeOK, WireOK, Route
<1>2. table[d].generation \in Nat /\ table'[d].generation \in Nat
  BY <1>1 DEF Route
<1>3. ASSUME ~Live(d)', table'[d].generation = table[d].generation, table'[d].bound => table[d].bound
      PROVE  Goal
  BY <1>3 DEF Greeted, Known, Met
<1>4. ASSUME Live(d)' <=> Live(d), table'[d].generation = table[d].generation,
             table'[d].bound = table[d].bound,
             dstate'[d] = "WaitServerHello" =>
               /\ dstate[d] = "WaitServerHello"
               /\ HasCmd(down[d], "ServerHello") => HasCmd(down'[d], "ServerHello")
               /\ Asked(d, "ClientHello") /\ Live(d) =>
                    Asked(d, "ClientHello")' \/ HasCmd(down'[d], "ServerHello")
      PROVE  Goal
  BY <1>4 DEF Greeted, Known, Met
<1>5. CASE Ipcd(IpcdHangUp(d))
  <2>1. ~Live(d)'
    BY <1>1, <1>5, LinkHangUp
  <2>2. table'[d].generation = table[d].generation /\ ~table'[d].bound
    BY <1>1, <1>5, HangUpSeen
  <2> QED BY <1>3, <2>1, <2>2
<1>6. CASE Ipcd(IpcdIngress(d))
  <2>1. /\ Live(d)' /\ (~table[d].bound => Head(up[d]).cmd = "ClientHello")
    BY <1>1, <1>6, LinkRead
  <2>2. /\ table'[d].bound /\ ~HungUp(d) /\ (table[d].bound => table'[d] = table[d])
        /\ ~table[d].bound => table'[d].generation = table[d].generation + 1
    BY <1>1, <1>6, FrameRead
  <2>3. UNCHANGED dstate
    BY <1>6 DEF Ipcd, daemonVars
  <2>4. /\ ipcdEv' = Append(ipcdEv, [src |-> d, msg |-> Head(up[d])]) /\ UNCHANGED down
    <3>1. Head(up[d]) \in SentBy(d) /\ Head(up[d]) # HangUp
      BY <1>1, <1>6, FrameRead
    <3>2. Head(up[d]) \in DaemonMsg
      BY <3>1, Senders
    <3>3. IsOwn(Head(up[d]))
      BY <3>2, Commands DEF IsOwn
    <3> QED BY <1>1, <1>6, <3>3, FrameRead
  <2>5. CASE table[d].bound
    <3>1. Live(d)
      BY <2>2, <2>5 DEF Live
    <3>2. Asked(d, "ClientHello") => Asked(d, "ClientHello")'
      BY <1>1, <2>4, AskedStays
    <3> QED BY <1>4, <2>1, <2>2, <2>3, <2>4, <2>5, <3>1, <3>2
  <2>6. CASE ~table[d].bound
    <3>1. Asked(d, "ClientHello")'
      <4> DEFINE e == [src |-> d, msg |-> Head(up[d])]
      <4>1. e.src = d /\ e.msg.cmd = "ClientHello"
        BY <2>1, <2>6
      <4>2. Len(ipcdEv) + 1 \in DOMAIN ipcdEv' /\ ipcdEv'[Len(ipcdEv) + 1] = e
        BY <1>1, <2>4
      <4> HIDE DEF e
      <4> QED BY <4>1, <4>2 DEF Asked
    <3>2. Met(d)'
      BY <1>2, <2>2, <2>6 DEF Met
    <3>3. \A g \in Nat : Known(d, g) => Known(d, g)'
      BY <1>2, <2>2, <2>6 DEF Known
    <3> QED BY <3>1, <3>2, <3>3 DEF Greeted
  <2> QED BY <2>5, <2>6
<1>7. CASE Daemon(Boot(d))
  <2>1. ~Live(d)'
    BY <1>1, <1>7, LinkBoot
  <2>2. UNCHANGED table
    BY <1>1, <1>7, Booted
  <2> QED BY <1>3, <2>1, <2>2
<1>8. CASE Daemon(SendHello(d) \/ ResendReady(d))
  <2>1. Live(d)' <=> Live(d)
    BY <1>1, <1>8, LinkSend
  <2>2. UNCHANGED <<down, table, ipcdEv, dstate>>
    BY <1>1, <1>8, DaemonSent
  <2>3. Asked(d, "ClientHello") => Asked(d, "ClientHello")'
    BY <2>2 DEF Asked
  <2> QED BY <1>4, <2>1, <2>2, <2>3
<1>9. CASE Daemon(Receive(d))
  <2>1. Live(d)' /\ Live(d)
    BY <1>1, <1>9, LinkReceive
  <2>2. UNCHANGED <<table, ipcdEv>>
    BY <1>1, <1>9, DaemonRead
  <2>3. Asked(d, "ClientHello") => Asked(d, "ClientHello")'
    BY <2>2 DEF Asked
  <2>4. ASSUME dstate'[d] = "WaitServerHello"
        PROVE  /\ dstate[d] = "WaitServerHello"
               /\ HasCmd(down[d], "ServerHello") => HasCmd(down'[d], "ServerHello")
    <3>1. PICK n \in 1 .. Len(down[d]) :
            /\ dstate[d] = "WaitServerHello"
            /\ \A i \in 1 .. n : down[d][i].cmd # "ServerHello"
            /\ down'[d] = SubSeq(down[d], n + 1, Len(down[d]))
      BY <1>1, <1>9, <2>4, DaemonRead
    <3>2. /\ DOMAIN down'[d] = 1 .. Len(down[d]) - n
          /\ \A i \in 1 .. Len(down[d]) - n : down'[d][i] = down[d][i + n]
      BY <1>1, <3>1, Rest
    <3>3. ASSUME NEW i \in DOMAIN down[d], down[d][i].cmd = "ServerHello"
          PROVE  HasCmd(down'[d], "ServerHello")
      <4>1. i \in 1 .. Len(down[d]) /\ Len(down[d]) \in Nat
        BY <1>1
      <4>2. i > n
        BY <3>1, <3>3, <4>1
      <4>3. i - n \in DOMAIN down'[d] /\ down'[d][i - n] = down[d][i]
        BY <3>2, <4>1, <4>2
      <4> QED BY <3>3, <4>3 DEF HasCmd
    <3> QED BY <3>1, <3>3 DEF HasCmd
  <2> QED BY <1>4, <2>1, <2>2, <2>3, <2>4
<1>10. CASE Daemon(Reexec(d)) \/ Daemon(Crash(d))
  <2>1. ~Live(d)'
    BY <1>1, <1>10, LinkDies
  <2>2. UNCHANGED table
    BY <1>1, <1>10, Died
  <2> QED BY <1>3, <2>1, <2>2
<1>11. CASE ~(Ipcd(IpcdHangUp(d)) \/ Ipcd(IpcdIngress(d)) \/ Daemon(Boot(d))
             \/ Daemon(SendHello(d) \/ ResendReady(d)) \/ Daemon(Receive(d))
             \/ (Daemon(Reexec(d)) \/ Daemon(Crash(d))))
  <2>1. /\ up'[d] = up[d] /\ dstate'[d] = dstate[d]
        /\ table'[d].bound = table[d].bound /\ table'[d].generation = table[d].generation
    BY <1>1, <1>11, Elsewhere
  <2>2. PICK x \in Seq(Frame) : down'[d] = down[d] \o x
    BY <1>1, <1>11, Elsewhere
  <2>3. HasCmd(down[d], "ServerHello") => HasCmd(down'[d], "ServerHello")
    BY <1>1, <2>2, HasConcat
  <2>4. Live(d)' <=> Live(d)
    BY <2>1 DEF Live, HungUp
  <2>5. CASE Ipcd(IpcdExecute)
    <3>1. down'[d] = IF Reachable(table, d) THEN down[d] \o Replies(table', d) ELSE down[d]
      BY <1>1, <2>5, PeersApart, Executed
    <3>2. table' \in [Peers -> Route]
      BY <1>1 DEF FleetTypes, FleetTypeOK, Route
    <3>3. /\ Replies(table', d) \in Seq(Frame)
          /\ Asked(d, "ClientHello") => HasCmd(Replies(table', d), "ServerHello")
      BY <1>1, <3>2, ReplyFacts
    <3>4. Asked(d, "ClientHello") /\ Live(d) => HasCmd(down'[d], "ServerHello")
      <4>1. Live(d) => Reachable(table, d)
        BY DEF Live, Reachable
      <4> QED BY <1>1, <3>1, <3>3, <4>1, HasConcat
    <3> QED BY <1>4, <2>1, <2>3, <2>4, <3>4
  <2>6. CASE ~Ipcd(IpcdExecute)
    <3>1. Asked(d, "ClientHello") => Asked(d, "ClientHello")'
      BY <1>1, <2>6, QueueGrows, AskedStays
    <3> QED BY <1>4, <2>1, <2>3, <2>4, <3>1
  <2> QED BY <2>5, <2>6
<1> QED BY <1>5, <1>6, <1>7, <1>8, <1>9, <1>10, <1>11

\* engined's steps: what may become of its event queue, its inbox, its view of the fleet and
\* the RuntimeStart it has decided on.
LEMMA TickEvents ==
  ASSUME TypeOK, Tick
  PROVE  /\ \/ eventQ' = eventQ
            \/ eventQ # <<>> /\ eventQ' = Tail(eventQ)
            \/ \E type \in PlainEvents : eventQ' = Append(eventQ, [type |-> type])
            \/ Poll
         /\ rx' = rx \/ rx' = <<>>
<1> DEFINE Goal == /\ \/ eventQ' = eventQ
                      \/ eventQ # <<>> /\ eventQ' = Tail(eventQ)
                      \/ \E type \in PlainEvents : eventQ' = Append(eventQ, [type |-> type])
                      \/ Poll
                   /\ rx' = rx \/ rx' = <<>>
<1> USE DEF envVars
<1>1. CASE Poll
  BY <1>1 DEF Poll
<1>2. CASE Schedule
  BY <1>2 DEF Schedule, ScheduleInit, ScheduleHelloRetry, ScheduleReloadTimeout, ScheduleSync,
     ScheduleNothing, SchedulePost, PlainEvents
<1>3. CASE ExecuteEvent
  <2>1. PICK type : TakeEvent(type)
    BY <1>3, Zenon DEF ExecuteEvent, OnSendClientHello, OnSendSyncRequest, OnReloadFailed, OnSend,
       OnServerHello, OnSyncResponse, OnSettingsCommit, OnReloadCompleteEvent, OnReloadFailedEvent,
       FinishTask
  <2> QED BY <2>1 DEF TakeEvent
<1>4. CASE ExecuteAction
  <2>1. rx' = rx
    BY <1>4 DEF ExecuteAction, SendClientHello, SendSyncRequest, SendRuntimeStart, SendReloadFailed,
       ApplyCommit, TakeAction
  <2>2. CASE SendRuntimeStart
    BY <2>1, <2>2 DEF SendRuntimeStart, PlainEvents
  <2>3. CASE SendReloadFailed
    BY <2>1, <2>3 DEF SendReloadFailed, PlainEvents
  <2>4. CASE SendClientHello \/ SendSyncRequest \/ ApplyCommit
    BY <2>1, <2>4 DEF SendClientHello, SendSyncRequest, ApplyCommit
  <2> QED BY <1>4, <2>2, <2>3, <2>4 DEF ExecuteAction
<1>5. CASE ExecuteDone
  BY <1>5 DEF ExecuteDone
<1> QED BY <1>1, <1>2, <1>3, <1>4, <1>5 DEF Tick

\* The process map changes with a SyncResponse and with a RuntimeStart.
LEMMA TickProcs ==
  ASSUME TypeOK, Tick
  PROVE  \/ procs' = procs
         \/ /\ eventQ # <<>> /\ Head(eventQ).type = "ReceiveSyncResponse"
            /\ procs' = UpdateProcessMap(Head(eventQ).report)
         \/ /\ SendRuntimeStart /\ procs' = [d \in Daemons |-> Bless(procs[d])]
            /\ HasCmd(tx', "RuntimeStart")
<1> USE DEF bootVars
<1>1. CASE Poll \/ Schedule \/ ExecuteDone
  BY <1>1 DEF Poll, Schedule, ExecuteDone, ScheduleInit, ScheduleHelloRetry,
     ScheduleReloadTimeout, ScheduleSync, ScheduleNothing, SchedulePost
<1>2. CASE OnSyncResponse
  BY <1>2 DEF OnSyncResponse, TakeEvent
<1>3. CASE ExecuteEvent /\ ~OnSyncResponse
  BY <1>3, Zenon DEF ExecuteEvent, OnSendClientHello, OnSendSyncRequest, OnReloadFailed, OnSend,
     OnServerHello, OnSettingsCommit, OnReloadCompleteEvent, OnReloadFailedEvent, FinishTask
<1>4. CASE SendRuntimeStart
  <2>1. \A n : HasCmd(<<[cmd |-> "RuntimeStart", target |-> target], n>>, "RuntimeStart")
    <3> TAKE n
    <3> DEFINE m == [cmd |-> "RuntimeStart", target |-> target]
    <3>1. m.cmd = "RuntimeStart"
      OBVIOUS
    <3> HIDE DEF m
    <3>2. 1 \in DOMAIN <<m, n>> /\ <<m, n>>[1] = m
      OBVIOUS
    <3>3. HasCmd(<<m, n>>, "RuntimeStart")
      BY <3>1, <3>2 DEF HasCmd
    <3> QED BY <3>3 DEF m
  <2>2. HasCmd(<<[cmd |-> "RuntimeStart", target |-> target]>>, "RuntimeStart")
    BY DEF HasCmd
  <2>3. \/ tx' = <<[cmd |-> "RuntimeStart", target |-> target], SettingsCommitResponse(TRUE, target)>>
        \/ tx' = <<[cmd |-> "RuntimeStart", target |-> target]>>
    BY <1>4, Zenon DEF SendRuntimeStart
  <2>4. HasCmd(tx', "RuntimeStart")
    BY <2>1, <2>2, <2>3, Zenon
  <2> QED BY <1>4, <2>4 DEF SendRuntimeStart
<1>5. CASE ExecuteAction /\ ~SendRuntimeStart
  BY <1>5, Zenon DEF ExecuteAction, SendClientHello, SendSyncRequest, SendReloadFailed, ApplyCommit,
     ApplyFails, ApplySucceeds
<1> QED BY <1>1, <1>2, <1>3, <1>4, <1>5 DEF Tick

\* A RuntimeStart is decided on a report in which every daemon is connected.
LEMMA TickDecides ==
  ASSUME TypeOK, Tick, ActionsAt(actionQ, {"SendRuntimeStart"}) = {},
         ActionsAt(actionQ', {"SendRuntimeStart"}) # {}
  PROVE  \A d \in Daemons : procs'[d].connected
<1> DEFINE At(acts) == ActionsAt(acts, {"SendRuntimeStart"})
<1> USE DEF bootVars, commitVars
<1>a. actionQ \in Seq(Action)
  BY DEF TypeOK
<1>1. ASSUME NEW acts \in Seq(Action), At(acts) = {}, NEW a \in Action, a # "SendRuntimeStart"
      PROVE  At(Append(acts, a)) = {}
  BY <1>1, AppendAction
<1>2. actionQ # <<>> => Tail(actionQ) \in Seq(Action) /\ At(Tail(actionQ)) = {}
  BY <1>a, TailAction
<1>3. actionQ' # actionQ /\ At(actionQ) = {} /\ At(actionQ') # {}
  OBVIOUS
<1>4. /\ "SendClientHello" \in Action /\ "SendSyncRequest" \in Action /\ "SendReloadFailed" \in Action
      /\ "ApplyCommit" \in Action
  BY DEF Action
<1> HIDE DEF At
<1>5. ~(Poll \/ Schedule \/ ExecuteDone)
  BY <1>3 DEF Poll, Schedule, ExecuteDone, ScheduleInit, ScheduleHelloRetry,
     ScheduleReloadTimeout, ScheduleSync, ScheduleNothing, SchedulePost
<1>6. ~(OnSendClientHello \/ OnSendSyncRequest \/ OnReloadFailed \/ OnServerHello)
  <2>1. OnSendClientHello \/ OnSendSyncRequest \/ OnReloadFailed \/ OnServerHello =>
          \/ actionQ' = actionQ \/ actionQ' = Append(actionQ, "SendClientHello")
          \/ actionQ' = Append(actionQ, "SendSyncRequest") \/ actionQ' = Append(actionQ, "SendReloadFailed")
    BY Zenon DEF OnSendClientHello, OnSendSyncRequest, OnReloadFailed, OnSend, OnServerHello, PostAction
  <2> QED BY <1>a, <1>1, <1>3, <1>4, <2>1
<1>7. ASSUME NEW q, NEW acts \in Seq(Action), NEW out, At(acts) = {}, StartNext(q, acts, out) PROVE FALSE
  <2>1. actionQ' = acts \/ actionQ' = Append(acts, "ApplyCommit")
    BY <1>7, Zenon DEF StartNext
  <2> QED BY <1>1, <1>3, <1>4, <1>7, <2>1
<1>8. ~OnSettingsCommit
  BY <1>a, <1>3, <1>7, Zenon DEF OnSettingsCommit
<1>9. ~(OnReloadCompleteEvent \/ OnReloadFailedEvent)
  <2>1. OnReloadCompleteEvent \/ OnReloadFailedEvent => \E q : TrimAndStart(q)
    BY Zenon DEF OnReloadCompleteEvent, OnReloadFailedEvent, FinishTask
  <2>2. \A q : TrimAndStart(q) => \E r, out : StartNext(r, actionQ, out)
    BY Zenon DEF TrimAndStart
  <2> QED BY <1>a, <1>3, <1>7, <2>1, <2>2, Zenon
<1>10. ~(SendClientHello \/ SendSyncRequest \/ SendRuntimeStart \/ SendReloadFailed)
  <2>1. SendClientHello \/ SendSyncRequest \/ SendRuntimeStart \/ SendReloadFailed =>
          actionQ # <<>> /\ actionQ' = Tail(actionQ)
    BY Zenon DEF SendClientHello, SendSyncRequest, SendRuntimeStart, SendReloadFailed, TakeAction
  <2> QED BY <1>2, <1>3, <2>1
<1>11. ~ApplyCommit
  <2>1. ApplyCommit => /\ actionQ # <<>>
                       /\ actionQ' = Tail(actionQ) \/ \E q, out : StartNext(q, Tail(actionQ), out)
    BY Zenon DEF ApplyCommit, TakeAction, ApplyFails, ApplySucceeds
  <2> QED BY <1>2, <1>3, <1>7, <2>1, Zenon
<1>12. OnSyncResponse
  BY <1>5, <1>6, <1>8, <1>9, <1>10, <1>11 DEF Tick, ExecuteEvent, ExecuteAction
<1>13. IsAllProcessReady(procs')
  BY <1>3, <1>12, Zenon DEF OnSyncResponse
<1> QED BY <1>13 DEF IsAllProcessReady, IsProcessReady

\* A sequence of events in which d's reports are good stays one.
LEMMA EventsKept ==
  ASSUME NEW d, NEW es \in Seq(Event), EventsHeard(d, es)
  PROVE  /\ es # <<>> => EventsHeard(d, Tail(es))
         /\ \A type \in PlainEvents : EventsHeard(d, Append(es, [type |-> type]))
<1>1. ASSUME es # <<>> PROVE EventsHeard(d, Tail(es))
  <2>1. /\ DOMAIN es = 1 .. Len(es) /\ DOMAIN Tail(es) = 1 .. Len(es) - 1 /\ Len(es) \in Nat
        /\ \A i \in 1 .. Len(es) - 1 : Tail(es)[i] = es[i + 1]
    BY <1>1, HeadTailProperties
  <2>2. \A i \in 1 .. Len(es) - 1 : i + 1 \in 1 .. Len(es)
    BY <2>1
  <2> QED BY <2>1, <2>2 DEF EventsHeard
<1>2. ASSUME NEW type \in PlainEvents PROVE EventsHeard(d, Append(es, [type |-> type]))
  <2> DEFINE e == [type |-> type]
  <2>1. e \in Event /\ e.type # "ReceiveSyncResponse"
    BY DEF Event, PlainEvents
  <2> HIDE DEF e
  <2>2. /\ DOMAIN es = 1 .. Len(es) /\ DOMAIN Append(es, e) = 1 .. Len(es) + 1 /\ Len(es) \in Nat
        /\ \A i \in 1 .. Len(es) : Append(es, e)[i] = es[i]
        /\ Append(es, e)[Len(es) + 1] = e
    BY <2>1, AppendProperties
  <2>3. \A i \in 1 .. Len(es) + 1 : i \in 1 .. Len(es) \/ i = Len(es) + 1
    BY <2>2
  <2>4. EventsHeard(d, Append(es, e))
    BY <2>1, <2>2, <2>3 DEF EventsHeard
  <2> QED BY <2>4 DEF e
<1> QED BY <1>1, <1>2

\* What Poll turns into events was as good in the inbox.
LEMMA PollHeard ==
  ASSUME NEW d, TypeOK, Poll, RepliesHeard(d, rx), EventsHeard(d, eventQ)
  PROVE  EventsHeard(d, eventQ')
<1> DEFINE es == [i \in DOMAIN rx |-> EventOf(rx[i])]
<1>1. rx \in Seq(RxMsg) /\ eventQ \in Seq(Event) /\ eventQ' = eventQ \o es
  BY DEF TypeOK, Poll
<1>2. es \in Seq(Event)
  BY <1>1, PolledType
<1>3. DOMAIN es = DOMAIN rx /\ \A i \in DOMAIN rx : es[i] = EventOf(rx[i])
  OBVIOUS
<1>4. ASSUME NEW i \in DOMAIN rx, EventOf(rx[i]).type = "ReceiveSyncResponse"
      PROVE  HeardOf(d, EventOf(rx[i]).report[d])
  <2>1. rx[i] \in RxMsg
    BY <1>1
  <2>2. rx[i].cmd \in {"ServerHello", "SyncResponse", "SettingsCommitRequest"}
    BY <2>1 DEF RxMsg
  <2>3. rx[i].cmd = "SyncResponse"
    BY <1>4, <2>2 DEF EventOf
  <2>4. EventOf(rx[i]).report = rx[i].report
    BY <2>3 DEF EventOf
  <2> QED BY <2>3, <2>4 DEF RepliesHeard
<1> HIDE DEF es
<1>5. EventsHeard(d, es)
  BY <1>3, <1>4 DEF EventsHeard
<1>6. /\ DOMAIN (eventQ \o es) = 1 .. Len(eventQ) + Len(es) /\ Len(eventQ) \in Nat /\ Len(es) \in Nat
      /\ \A i \in 1 .. Len(eventQ) + Len(es) :
           (eventQ \o es)[i] = IF i <= Len(eventQ) THEN eventQ[i] ELSE es[i - Len(eventQ)]
      /\ DOMAIN eventQ = 1 .. Len(eventQ) /\ DOMAIN es = 1 .. Len(es)
  BY <1>1, <1>2, ConcatProperties
<1>7. ASSUME NEW i \in DOMAIN eventQ', eventQ'[i].type = "ReceiveSyncResponse"
      PROVE  HeardOf(d, eventQ'[i].report[d])
  <2>1. i \in 1 .. Len(eventQ) + Len(es)
    BY <1>1, <1>6
  <2>2. CASE i <= Len(eventQ)
    <3>1. i \in DOMAIN eventQ /\ eventQ'[i] = eventQ[i]
      BY <1>1, <1>6, <2>1, <2>2
    <3> QED BY <1>7, <3>1 DEF EventsHeard
  <2>3. CASE i > Len(eventQ)
    <3>1. i - Len(eventQ) \in DOMAIN es /\ eventQ'[i] = es[i - Len(eventQ)]
      BY <1>1, <1>6, <2>1, <2>3
    <3> QED BY <1>5, <1>7, <3>1 DEF EventsHeard
  <2> QED BY <1>6, <2>1, <2>2, <2>3
<1> QED BY <1>7 DEF EventsHeard

\* The events and replies of engined carry reports of the daemons.
LEMMA Reporting ==
  ASSUME NEW d \in Daemons
  PROVE  /\ \A m \in RxMsg : m.cmd = "SyncResponse" => m.report[d] \in Report
         /\ \A e \in Event : e.type = "ReceiveSyncResponse" => e.report[d] \in Report
         /\ \A r \in Report : r.generation \in Nat
BY DEF RxMsg, Event, Reports, Report, PlainEvents

\* What engined has been told of d stays true in every step that leaves its inbox and its
\* event queue alone.
LEMMA HeardStays ==
  ASSUME NEW d \in Daemons, NEW ms \in Seq(RxMsg), NEW es \in Seq(Event),
         Met(d) => Met(d)', \A g \in Nat : Known(d, g) => Known(d, g)',
         RepliesHeard(d, ms), EventsHeard(d, es)
  PROVE  RepliesHeard(d, ms)' /\ EventsHeard(d, es)'
<1>1. \A r \in Report : HeardOf(d, r) => HeardOf(d, r)'
  BY Reporting DEF HeardOf
<1>2. \A i \in DOMAIN ms : ms[i] \in RxMsg
  OBVIOUS
<1>3. \A i \in DOMAIN es : es[i] \in Event
  OBVIOUS
<1>4. RepliesHeard(d, ms)'
  BY <1>1, <1>2, Reporting, Zenon DEF RepliesHeard
<1>5. EventsHeard(d, es)'
  BY <1>1, <1>3, Reporting, Zenon DEF EventsHeard
<1> QED BY <1>4, <1>5

\* A longer inbox is as good as its parts.
LEMMA RepliesConcat ==
  ASSUME NEW d, NEW ms \in Seq(RxMsg), NEW ns \in Seq(RxMsg),
         RepliesHeard(d, ms)', RepliesHeard(d, ns)'
  PROVE  RepliesHeard(d, ms \o ns)'
<1> DEFINE r == ms \o ns
<1>1. /\ DOMAIN r = 1 .. Len(ms) + Len(ns) /\ Len(ms) \in Nat /\ Len(ns) \in Nat
      /\ \A i \in 1 .. Len(ms) + Len(ns) : r[i] = IF i <= Len(ms) THEN ms[i] ELSE ns[i - Len(ms)]
      /\ DOMAIN ms = 1 .. Len(ms) /\ DOMAIN ns = 1 .. Len(ns)
  BY ConcatProperties
<1> HIDE DEF r
<1>2. ASSUME NEW i \in DOMAIN r, r[i].cmd = "SyncResponse" PROVE HeardOf(d, r[i].report[d])'
  <2>1. CASE i <= Len(ms)
    <3>1. i \in DOMAIN ms /\ r[i] = ms[i]
      BY <1>1, <2>1
    <3> QED BY <1>2, <3>1 DEF RepliesHeard
  <2>2. CASE i > Len(ms)
    <3>1. i - Len(ms) \in DOMAIN ns /\ r[i] = ns[i - Len(ms)]
      BY <1>1, <2>2
    <3> QED BY <1>2, <3>1 DEF RepliesHeard
  <2> QED BY <1>1, <2>1, <2>2
<1>3. RepliesHeard(d, r)'
  BY <1>2 DEF RepliesHeard
<1> QED BY <1>3 DEF r
\* Beside its own steps engined changes only by what ipcd writes to it.
LEMMA EngineAside ==
  ASSUME FleetTypes, [FleetNext]_fleetVars, ~EngineTick, ~EngineCrash
  PROVE  /\ UNCHANGED <<procs, eventQ, actionQ, queue>>
         /\ \/ rx' = rx
            \/ Ipcd(IpcdExecute) /\ rx' = rx \o Replies(table', "engined")
            \/ \E m \in MgmtdMsg : rx' = rx \o <<m>>
<1> USE DEF bootVars, commitVars
<1>1. CASE Ipcd(IpcdExecute)
  BY <1>1, Executed, Zenon DEF Ipcd
<1>2. ASSUME NEW p \in Peers, Ipcd(IpcdHangUp(p)) PROVE UNCHANGED <<procs, eventQ, actionQ, queue, rx>>
  BY <1>2 DEF Ipcd, IpcdHangUp
<1>3. ASSUME NEW p \in Peers, Ipcd(IpcdIngress(p))
      PROVE  /\ UNCHANGED <<procs, eventQ, actionQ, queue>>
             /\ rx' = rx \/ \E m \in MgmtdMsg : rx' = rx \o <<m>>
  <2>1. UNCHANGED <<procs, eventQ, actionQ, queue>>
    BY <1>3 DEF Ipcd
  <2>2. rx' = rx \/ (rx' = rx \o <<Head(up[p])>> /\ Head(up[p]) \in MgmtdMsg)
    BY <1>3, FrameRead, Zenon
  <2> QED BY <2>1, <2>2, Zenon
<1>4. ASSUME NEW step, Mgmtd(step) PROVE UNCHANGED <<procs, eventQ, actionQ, queue, rx>>
  BY <1>4 DEF Mgmtd
<1>5. ASSUME NEW step, Daemon(step) PROVE UNCHANGED <<procs, eventQ, actionQ, queue, rx>>
  BY <1>5 DEF Daemon
<1>6. UNCHANGED fleetVars => UNCHANGED <<procs, eventQ, actionQ, queue, rx>>
  BY FleetStutters
<1> QED BY <1>1, <1>2, <1>3, <1>4, <1>5, <1>6, FleetCases, Zenon

\* What ipcd reports of d in an answer is what it knows.
LEMMA ReportTrue ==
  ASSUME LinkInv, [FleetNext]_fleetVars, NEW d \in Daemons, Greeted(d), Ipcd(IpcdExecute),
         NEW ms, ms = Replies(table', "engined")
  PROVE  ms \in Seq(RxMsg) /\ RepliesHeard(d, ms)'
<1>1. /\ FleetTypes /\ table' \in [Peers -> Route] /\ ipcdEv' = <<>> /\ ipcdEv \in Seq(IpcdEvent)
  <2>1. FleetTypes' /\ FleetTypes /\ ipcdEv' = <<>>
    BY Executed DEF LinkInv
  <2> QED BY <2>1 DEF FleetTypes, FleetTypeOK, WireOK, Route
<1>2. /\ ms \in Seq(RxMsg)
      /\ \A n \in DOMAIN ms : \/ ms[n].cmd = "ServerHello"
                              \/ ms[n].cmd = "SyncResponse" /\ ms[n].report = SyncReport(table')
  BY <1>1, ReplyFacts, PeersApart
<1>3. Greeted(d)'
  BY KnownStep
<1>4. ~Asked(d, "ClientHello")'
  BY <1>1 DEF Asked
<1>5. SyncReport(table')[d] = IF table'[d].bound
                              THEN [listed |-> TRUE, applied |-> table'[d].applied,
                                    generation |-> table'[d].generation]
                              ELSE Unlisted
  BY DEF SyncReport
<1>6. table'[d].generation \in Nat
  BY <1>1, PeersApart DEF Route
<1>7. Known(d, table[d].generation)'
  BY <1>3, <1>4, <1>6 DEF Greeted, Known
<1>8. ASSUME NEW r, r = SyncReport(table')[d] PROVE HeardOf(d, r)'
  BY <1>3, <1>5, <1>7, <1>8 DEF HeardOf, Unlisted, Greeted, Known
<1>9. RepliesHeard(d, ms)'
  BY <1>2, <1>8, Zenon DEF RepliesHeard
<1> QED BY <1>2, <1>9

\* engined's tick keeps what it has heard: a report replaces the generation it knows, a
\* RuntimeStart blesses that generation.
LEMMA HeardTick ==
  ASSUME LinkInv, EngineTick, NEW d \in Daemons, Greeted(d), Heard(d)
  PROVE  Heard(d)'
<1>1. FleetTypes /\ TypeOK /\ Tick /\ [FleetNext]_fleetVars
  BY EngineWrites DEF LinkInv, FleetTypes, FleetTypeOK, FleetNext
<1>2. rx \in Seq(RxMsg) /\ eventQ \in Seq(Event) /\ procs \in [Daemons -> ProcessState]
  BY <1>1 DEF TypeOK
<1>3. /\ Met(d) => Met(d)'
      /\ \A g \in Nat : Known(d, g) => Known(d, g)'
  BY <1>1, KnownStep
<1>4. PICK ms \in Seq(RxMsg) : ms = rx
  BY <1>2
<1>5. RepliesHeard(d, ms) /\ EventsHeard(d, eventQ)
  BY <1>4 DEF Heard
<1>6. RepliesHeard(d, <<>>)
  BY DEF RepliesHeard
<1>7. /\ EventsHeard(d, eventQ')
      /\ eventQ' \in Seq(Event)
  <2>1. eventQ' \in Seq(Event)
    BY <1>1, EngineWrites DEF FleetTypes, FleetTypeOK, TypeOK
  <2>2. CASE Poll
    BY <1>1, <1>4, <1>5, <2>1, <2>2, PollHeard
  <2>3. CASE ~Poll
    <3>1. \/ eventQ' = eventQ
          \/ eventQ # <<>> /\ eventQ' = Tail(eventQ)
          \/ \E type \in PlainEvents : eventQ' = Append(eventQ, [type |-> type])
      BY <1>1, <2>3, TickEvents
    <3> QED BY <1>2, <1>5, <2>1, <3>1, EventsKept, Zenon
  <2> QED BY <2>2, <2>3
<1>8. PICK es \in Seq(Event) : es = eventQ'
  BY <1>7
<1>9. RepliesHeard(d, ms)' /\ EventsHeard(d, es)'
  BY <1>3, <1>5, <1>7, <1>8, HeardStays
<1>10. RepliesHeard(d, rx)' /\ EventsHeard(d, eventQ)'
  <2>1. rx' = ms \/ rx' = <<>>
    BY <1>1, <1>4, TickEvents
  <2> QED BY <1>8, <1>9, <2>1 DEF RepliesHeard, EventsHeard
<1>11. /\ procs[d] \in ProcessState /\ procs[d].generation \in Nat /\ procs[d].blessed \in Nat
       /\ procs[d].connected => Met(d)
       /\ Known(d, procs[d].generation) /\ Known(d, procs[d].blessed)
  BY <1>2 DEF ProcessState, Heard
<1> DEFINE View(p) == /\ p.connected => Met(d)
                      /\ p.generation \in Nat /\ p.blessed \in Nat
                      /\ Known(d, p.generation) /\ Known(d, p.blessed)
<1>12. View(procs'[d])
  <2>1. CASE procs' = procs
    BY <1>11, <2>1
  <2>2. CASE /\ eventQ # <<>> /\ Head(eventQ).type = "ReceiveSyncResponse"
             /\ procs' = UpdateProcessMap(Head(eventQ).report)
    <3>1. Head(eventQ) \in Event /\ HeardOf(d, Head(eventQ).report[d])
      BY <1>2, <1>5, <2>2 DEF EventsHeard
    <3> DEFINE r == Head(eventQ).report[d]
    <3>2. r \in Report /\ r.generation \in Nat
      BY <2>2, <3>1, Reporting
    <3>3. procs'[d] = IF r.listed
                      THEN [procs[d] EXCEPT !.connected = TRUE, !.applied = r.applied,
                                            !.generation = r.generation]
                      ELSE [procs[d] EXCEPT !.connected = FALSE, !.applied = 0]
      BY <2>2 DEF UpdateProcessMap
    <3>4. r.listed => Met(d) /\ Known(d, r.generation)
      BY <3>1 DEF HeardOf
    <3> HIDE DEF r
    <3>5. CASE r.listed
      <4>1. /\ procs'[d].generation = r.generation /\ procs'[d].blessed = procs[d].blessed
        BY <1>11, <3>3, <3>5 DEF ProcessState
      <4> QED BY <1>11, <3>2, <3>4, <3>5, <4>1
    <3>6. CASE ~r.listed
      <4>1. /\ procs'[d].generation = procs[d].generation /\ procs'[d].blessed = procs[d].blessed
            /\ procs'[d].connected = FALSE
        BY <1>11, <3>3, <3>6 DEF ProcessState
      <4> QED BY <1>11, <4>1
    <3> QED BY <3>5, <3>6
  <2>3. CASE procs' = [e \in Daemons |-> Bless(procs[e])]
    <3>1. procs'[d] = procs[d] \/ procs'[d] = [procs[d] EXCEPT !.blessed = procs[d].generation]
      BY <2>3 DEF Bless
    <3>2. /\ procs'[d].generation = procs[d].generation
          /\ procs'[d].connected = procs[d].connected
          /\ procs'[d].blessed = procs[d].blessed \/ procs'[d].blessed = procs[d].generation
      BY <1>11, <3>1 DEF ProcessState
    <3> QED BY <1>11, <3>2
  <2> QED BY <1>1, <2>1, <2>2, <2>3, TickProcs
<1> QED
  <2>1. /\ procs'[d].connected => Met(d)'
        /\ Known(d, procs[d].generation)' /\ Known(d, procs[d].blessed)'
    <3>1. PICK g \in Nat, b \in Nat : g = procs'[d].generation /\ b = procs'[d].blessed
      BY <1>12
    <3>2. Known(d, g)' /\ Known(d, b)' /\ (procs'[d].connected => Met(d)')
      BY <1>3, <1>12, <3>1
    <3> QED BY <3>1, <3>2 DEF Known
  <2> QED BY <1>10, <2>1 DEF Heard
\* engined starts again and knows nothing.
LEMMA HeardFalls ==
  ASSUME LinkInv, EngineCrash, NEW d \in Daemons, Greeted(d)
  PROVE  Heard(d)' /\ procs'[d].blessed = 0 /\ actionQ' = <<>>
<1>1. [FleetNext]_fleetVars
  BY DEF FleetNext
<1>2. Greeted(d)'
  BY <1>1, KnownStep
<1>3. rx' = <<>> /\ eventQ' = <<>> /\ procs' = ColdProcs /\ actionQ' = <<>>
  BY DEF EngineCrash, Restart
<1>4. procs'[d] = [connected |-> FALSE, applied |-> 0, generation |-> 0, blessed |-> 0]
  BY <1>3 DEF ColdProcs
<1>5. table'[d].generation \in Nat
  BY PeersApart, EngineFalls DEF LinkInv, FleetTypes, FleetTypeOK
<1>6. \A g \in Nat : g = 0 => Known(d, g)'
  BY <1>2, <1>5 DEF Greeted, Known, Met, Live
<1>7. /\ procs'[d].connected = FALSE /\ procs'[d].generation = 0 /\ procs'[d].blessed = 0
  BY <1>4
<1>8. Known(d, procs[d].generation)' /\ Known(d, procs[d].blessed)'
  BY <1>6, <1>7 DEF Known
<1>9. RepliesHeard(d, rx)' /\ EventsHeard(d, eventQ)'
  BY <1>3 DEF RepliesHeard, EventsHeard
<1> QED BY <1>3, <1>7, <1>8, <1>9 DEF Heard

\* engined goes on knowing only what is true of d's connection.
LEMMA HeardStep ==
  ASSUME LinkInv, [FleetNext]_fleetVars, NEW d \in Daemons, Greeted(d), Heard(d)
  PROVE  Greeted(d)' /\ Heard(d)'
<1>1. /\ Greeted(d)'
      /\ Met(d) => Met(d)'
      /\ \A g \in Nat : Known(d, g) => Known(d, g)'
  BY KnownStep
<1>2. FleetTypes /\ rx \in Seq(RxMsg) /\ eventQ \in Seq(Event) /\ procs \in [Daemons -> ProcessState]
  BY DEF LinkInv, FleetTypes, FleetTypeOK, TypeOK
<1>3. CASE EngineTick
  BY <1>1, <1>3, HeardTick
<1>4. CASE EngineCrash
  BY <1>1, <1>4, HeardFalls
<1>5. CASE ~EngineTick /\ ~EngineCrash
  <2>1. UNCHANGED <<procs, eventQ>>
    BY <1>2, <1>5, EngineAside
  <2>2. PICK ms \in Seq(RxMsg), es \in Seq(Event) : ms = rx /\ es = eventQ
    BY <1>2
  <2>3. RepliesHeard(d, ms) /\ EventsHeard(d, es)
    BY <2>2 DEF Heard
  <2>4. RepliesHeard(d, ms)' /\ EventsHeard(d, es)'
    BY <1>1, <2>3, HeardStays
  <2>5. EventsHeard(d, eventQ)'
    BY <2>1, <2>2, <2>4 DEF EventsHeard
  <2>6. RepliesHeard(d, rx)'
    <3>1. CASE rx' = rx
      BY <2>2, <2>4, <3>1 DEF RepliesHeard
    <3>2. CASE Ipcd(IpcdExecute) /\ rx' = rx \o Replies(table', "engined")
      <4>1. PICK ns : ns = Replies(table', "engined")
        OBVIOUS
      <4>2. ns \in Seq(RxMsg) /\ RepliesHeard(d, ns)'
        BY <3>2, <4>1, ReportTrue
      <4>3. RepliesHeard(d, ms \o ns)'
        BY <2>4, <4>2, RepliesConcat
      <4>4. rx' = ms \o ns
        BY <2>2, <3>2, <4>1
      <4> QED BY <4>3, <4>4 DEF RepliesHeard
    <3>3. ASSUME NEW m \in MgmtdMsg, rx' = rx \o <<m>> PROVE RepliesHeard(d, rx)'
      <4>1. m \in RxMsg /\ m.cmd # "SyncResponse"
        BY Commands DEF MgmtdMsg, RxMsg
      <4>2. <<m>> \in Seq(RxMsg) /\ DOMAIN <<m>> = {1} /\ <<m>>[1] = m
        BY <4>1
      <4>3. PICK ns \in Seq(RxMsg) : ns = <<m>>
        BY <4>2
      <4>4. RepliesHeard(d, ns)'
        BY <4>1, <4>2, <4>3 DEF RepliesHeard
      <4>5. RepliesHeard(d, ms \o ns)'
        BY <2>4, <4>4, RepliesConcat
      <4>6. rx' = ms \o ns
        BY <2>2, <3>3, <4>3
      <4> QED BY <4>5, <4>6 DEF RepliesHeard
    <3> QED BY <1>2, <1>5, <3>1, <3>2, <3>3, EngineAside
  <2>7. /\ procs'[d].connected => Met(d)'
        /\ Known(d, procs[d].generation)' /\ Known(d, procs[d].blessed)'
    <3>1. PICK g \in Nat, b \in Nat : g = procs[d].generation /\ b = procs[d].blessed
      BY <1>2 DEF ProcessState
    <3>2. Known(d, g)' /\ Known(d, b)' /\ (procs'[d].connected => Met(d)')
      BY <1>1, <2>1, <3>1 DEF Heard
    <3> QED BY <2>1, <3>1, <3>2 DEF Known
  <2> QED BY <1>1, <2>5, <2>6, <2>7 DEF Heard
<1> QED BY <1>3, <1>4, <1>5

HeardAll == LinkInv /\ \A d \in Daemons : Greeted(d) /\ Heard(d)

\* Nothing has been said when the fleet starts.
LEMMA HeardStart == FleetInit => HeardAll
<1> SUFFICES ASSUME FleetInit PROVE HeardAll
  OBVIOUS
<1>1. LinkInv
  BY LinkStart
<1>2. /\ rx = <<>> /\ eventQ = <<>> /\ procs = ColdProcs
      /\ table = [p \in Peers |->
           IF p = "mgmtd" THEN [NoRoute EXCEPT !.bound = TRUE, !.generation = 1] ELSE NoRoute]
  BY DEF FleetInit, Init
<1>3. ASSUME NEW d \in Daemons PROVE Greeted(d) /\ Heard(d)
  <2>1. table[d] = NoRoute /\ ~table[d].bound /\ table[d].generation = 0
    BY <1>2, PeersApart DEF NoRoute
  <2>2. procs[d] = [connected |-> FALSE, applied |-> 0, generation |-> 0, blessed |-> 0]
    BY <1>2 DEF ColdProcs
  <2>3. /\ procs[d].connected = FALSE /\ procs[d].generation = 0 /\ procs[d].blessed = 0
    BY <2>2
  <2>4. Known(d, 0)
    BY <2>1 DEF Known, Live
  <2>5. RepliesHeard(d, rx) /\ EventsHeard(d, eventQ)
    BY <1>2 DEF RepliesHeard, EventsHeard
  <2> QED BY <2>1, <2>3, <2>4, <2>5 DEF Greeted, Heard, Live
<1> QED BY <1>1, <1>3 DEF HeardAll

\* Every step keeps the connections and what is known of them.
LEMMA HeardNext == HeardAll /\ [FleetNext]_fleetVars => HeardAll'
BY LinkNext, HeardStep DEF HeardAll
(***************************************************************************)
(* The start of the fleet                                                  *)
(***************************************************************************)
\* What may happen to engined's connection.
LEMMA EngineLine ==
  ASSUME FleetTypes, [FleetNext]_fleetVars
  PROVE  \/ EngineTick /\ up'["engined"] = up["engined"] \o tx'
         \/ EngineCrash /\ up'["engined"] = <<HangUp>>
         \/ /\ Ipcd(IpcdHangUp("engined"))
            /\ up["engined"] # <<>> /\ Head(up["engined"]) = HangUp
            /\ up'["engined"] = Tail(up["engined"])
         \/ /\ Ipcd(IpcdIngress("engined"))
            /\ up["engined"] # <<>> /\ up'["engined"] = Tail(up["engined"])
         \/ /\ ~EngineTick /\ ~EngineCrash /\ ~Ipcd(IpcdIngress("engined"))
            /\ up'["engined"] = up["engined"]
<1>0. "engined" \in Peers /\ "engined" \in Peers \ {"mgmtd"} /\ \A d \in Daemons : "engined" \in Peers \ {d}
  BY PeersApart
<1>1. CASE EngineTick
  BY <1>1, EngineWrites
<1>2. CASE EngineCrash
  BY <1>2, EngineFalls
<1>3. CASE Ipcd(IpcdHangUp("engined"))
  BY <1>0, <1>3, HangUpSeen
<1>4. CASE Ipcd(IpcdIngress("engined"))
  BY <1>0, <1>4, FrameRead
<1>5. CASE ~EngineTick /\ ~EngineCrash /\ ~Ipcd(IpcdHangUp("engined")) /\ ~Ipcd(IpcdIngress("engined"))
  <2> DEFINE e == "engined"
             Same == up'[e] = up[e]
  <2>1. Ipcd(IpcdExecute) => Same
    BY Executed
  <2>2. \A p \in Peers : Ipcd(IpcdHangUp(p)) => Same
    <3> SUFFICES ASSUME NEW p \in Peers, Ipcd(IpcdHangUp(p)) PROVE Same
      OBVIOUS
    <3>1. e \in Peers \ {p}
      BY <1>0, <1>5
    <3> QED BY <3>1, HangUpSeen
  <2>3. \A p \in Peers : Ipcd(IpcdIngress(p)) => Same
    <3> SUFFICES ASSUME NEW p \in Peers, Ipcd(IpcdIngress(p)) PROVE Same
      OBVIOUS
    <3>1. e \in Peers \ {p}
      BY <1>0, <1>5
    <3> QED BY ZenonT(40), <3>1, FrameRead
  <2>4. Mgmtd(MgmtdCommit) => Same
    BY <1>0, CommitSent
  <2>5. Mgmtd(MgmtdReceive) => Same
    BY ConsoleRead
  <2>6. \A d \in Daemons : Daemon(Boot(d)) => Same
    BY Booted
  <2>7. \A d \in Daemons : Daemon(SendHello(d) \/ ResendReady(d)) => Same
    BY <1>0, DaemonSent
  <2>8. \A d \in Daemons : Daemon(Receive(d)) => Same
    BY <1>0, DaemonRead
  <2>9. \A d \in Daemons : Daemon(Reexec(d)) \/ Daemon(Crash(d)) => Same
    BY <1>0, Died
  <2>10. UNCHANGED fleetVars => Same
    BY FleetStutters
  <2> HIDE DEF Same
  <2>11. Same
    BY <1>5, <2>1, <2>2, <2>3, <2>4, <2>5, <2>6, <2>7, <2>8, <2>9, <2>10, FleetCases, Zenon
  <2> QED BY <1>5, <2>11 DEF Same
<1> QED BY <1>1, <1>2, <1>3, <1>4, <1>5

\* What ipcd reads from a daemon it keeps to itself.
LEMMA OwnFrames ==
  ASSUME FleetTypes, NEW d \in Daemons, Ipcd(IpcdIngress(d))
  PROVE  UNCHANGED <<down, rx>>
<1>1. d \in Peers
  BY PeersApart
<1>2. Head(up[d]) \in SentBy(d) /\ Head(up[d]) # HangUp
  BY <1>1, FrameRead
<1>3. Head(up[d]) \in DaemonMsg
  BY <1>2, Senders
<1>4. IsOwn(Head(up[d]))
  BY <1>3, Commands DEF IsOwn
<1> QED BY <1>1, <1>4, FrameRead

\* As long as a daemon neither reads nor dies its inbox only grows, and a RuntimeStart enters
\* it only from engined's connection.
LEMMA Inbox ==
  ASSUME FleetTypes, [FleetNext]_fleetVars, NEW d \in Daemons, Link(d),
         ~Daemon(Receive(d)), ~(Daemon(Reexec(d)) \/ Daemon(Crash(d)))
  PROVE  /\ dstate'[d] = dstate[d] \/ (dstate'[d] = "WaitServerHello" /\ ~Live(d)')
         /\ \E x \in Seq(Frame) :
              /\ down'[d] = down[d] \o x
              /\ HasCmd(x, "RuntimeStart") => InFlight("engined", "RuntimeStart")
<1> DEFINE Goal ==
         /\ dstate'[d] = dstate[d] \/ (dstate'[d] = "WaitServerHello" /\ ~Live(d)')
         /\ \E x \in Seq(Frame) :
              /\ down'[d] = down[d] \o x
              /\ HasCmd(x, "RuntimeStart") => InFlight("engined", "RuntimeStart")
<1> SUFFICES Goal
  OBVIOUS
<1>0. d \in Peers /\ down[d] \in Seq(Frame)
  BY PeersApart DEF FleetTypes, WireOK
<1>1. ASSUME down'[d] = down[d], dstate'[d] = dstate[d] \/ (dstate'[d] = "WaitServerHello" /\ ~Live(d)')
      PROVE  Goal
  <2>1. <<>> \in Seq(Frame) /\ ~HasCmd(<<>>, "RuntimeStart")
    BY DEF HasCmd
  <2>2. down'[d] = down[d] \o <<>>
    BY <1>0, <1>1
  <2> QED BY <1>1, <2>1, <2>2
<1> HIDE DEF Goal
<1>2. CASE Ipcd(IpcdHangUp(d))
  <2>1. UNCHANGED <<down, dstate>>
    BY <1>2 DEF Ipcd, IpcdHangUp, daemonVars
  <2> QED BY <1>1, <2>1
<1>3. CASE Ipcd(IpcdIngress(d))
  <2>1. UNCHANGED <<down, dstate>>
    BY <1>3, OwnFrames DEF Ipcd, daemonVars
  <2> QED BY <1>1, <2>1
<1>4. CASE Daemon(Boot(d))
  BY <1>1, <1>4, Booted, LinkBoot
<1>5. CASE Daemon(SendHello(d) \/ ResendReady(d))
  BY <1>1, <1>5, DaemonSent
<1>6. CASE ~Ipcd(IpcdHangUp(d)) /\ ~Ipcd(IpcdIngress(d)) /\ ~Daemon(Boot(d))
           /\ ~Daemon(SendHello(d) \/ ResendReady(d))
  BY <1>6, Elsewhere DEF Goal
<1> QED BY <1>2, <1>3, <1>4, <1>5, <1>6

AllMet == \A d \in Daemons : Met(d)

\* Nobody has been told to start.
Quiet ==
  /\ ActionsAt(actionQ, {"SendRuntimeStart"}) = {}
  /\ ~InFlight("engined", "RuntimeStart")
  /\ \A d \in Daemons : ~HasCmd(down[d], "RuntimeStart")
  /\ \A d \in Daemons \ Ungated : dstate[d] # "Running"

\* The start of a daemon that is told to start.
LEMMA QuietDaemon ==
  ASSUME FleetTypes, [FleetNext]_fleetVars, NEW d \in Daemons, Link(d),
         ~InFlight("engined", "RuntimeStart"), ~HasCmd(down[d], "RuntimeStart")
  PROVE  /\ ~HasCmd(down'[d], "RuntimeStart")
         /\ d \notin Ungated /\ dstate[d] # "Running" => dstate'[d] # "Running"
<1>0. d \in Peers /\ down[d] \in Seq(Frame)
  BY PeersApart DEF FleetTypes, WireOK
<1>1. CASE Daemon(Reexec(d)) \/ Daemon(Crash(d))
  <2>1. dstate'[d] = "Down" /\ down'[d] = <<>>
    BY <1>1, Died
  <2> QED BY <2>1 DEF HasCmd
<1>2. CASE Daemon(Receive(d))
  <2>1. PICK n \in 1 .. Len(down[d]) :
          /\ down'[d] = SubSeq(down[d], n + 1, Len(down[d]))
          /\ \/ dstate'[d] = dstate[d]
             \/ d \in Ungated
             \/ dstate'[d] = "WaitRuntimeStart"
             \/ \E i \in 1 .. n : down[d][i].cmd = "RuntimeStart"
    BY <1>2, DaemonRead
  <2>2. \A i \in 1 .. Len(down[d]) : down[d][i].cmd # "RuntimeStart"
    BY <1>0 DEF HasCmd
  <2>3. \A i \in 1 .. n : i \in 1 .. Len(down[d])
    BY <1>0
  <2>4. /\ DOMAIN down'[d] = 1 .. Len(down[d]) - n
        /\ \A i \in 1 .. Len(down[d]) - n : down'[d][i] = down[d][i + n]
    BY <1>0, <2>1, Rest
  <2>5. \A i \in 1 .. Len(down[d]) - n : i + n \in 1 .. Len(down[d])
    BY <1>0
  <2>6. ~HasCmd(down'[d], "RuntimeStart")
    BY <2>2, <2>4, <2>5 DEF HasCmd
  <2> QED BY <2>1, <2>2, <2>3, <2>6
<1>3. CASE ~Daemon(Receive(d)) /\ ~(Daemon(Reexec(d)) \/ Daemon(Crash(d)))
  <2>1. /\ dstate'[d] = dstate[d] \/ dstate'[d] = "WaitServerHello"
        /\ \E x \in Seq(Frame) : down'[d] = down[d] \o x /\ ~HasCmd(x, "RuntimeStart")
    BY <1>3, Inbox
  <2>2. PICK x \in Seq(Frame) : down'[d] = down[d] \o x /\ ~HasCmd(x, "RuntimeStart")
    BY <2>1
  <2>3. ~HasCmd(down[d] \o x, "RuntimeStart")
    BY <1>0, <2>2, HasConcat
  <2> QED BY <2>1, <2>2, <2>3
<1> QED BY <1>1, <1>2, <1>3

\* Whoever is told to start is told so after everybody has said hello.
LEMMA GateStep ==
  ASSUME HeardAll, [FleetNext]_fleetVars, AllMet \/ Quiet
  PROVE  (AllMet \/ Quiet)'
<1>1. HeardAll' /\ FleetTypes /\ TypeOK
  BY HeardNext DEF HeardAll, LinkInv, FleetTypes, FleetTypeOK
<1>2. CASE AllMet
  BY <1>2, KnownStep DEF HeardAll, AllMet
<1>3. CASE ~AllMet /\ Quiet
  <2>1. /\ actionQ \in Seq(Action) /\ ~HasCmd(up["engined"], "RuntimeStart")
        /\ up["engined"] \in Seq({HangUp} \cup EngineMsg)
    BY <1>1, <1>3, Senders, PeersApart DEF Quiet, TypeOK, FleetTypes, WireOK, UpOK, HasCmd, InFlight
  <2>2. AllMet' \/ ActionsAt(actionQ', {"SendRuntimeStart"}) = {}
    <3>1. CASE EngineTick
      <4>1. Tick
        BY <1>1, <3>1, EngineWrites
      <4>2. CASE ActionsAt(actionQ', {"SendRuntimeStart"}) # {}
        <5>1. \A d \in Daemons : procs'[d].connected
          BY <1>1, <1>3, <4>1, <4>2, TickDecides DEF Quiet
        <5> QED BY <1>1, <5>1 DEF AllMet, HeardAll, Heard
      <4> QED BY <4>2
    <3>2. CASE EngineCrash
      <4>1. actionQ' = <<>>
        BY <3>2 DEF EngineCrash, Restart
      <4> QED BY <4>1 DEF ActionsAt
    <3>3. CASE ~EngineTick /\ ~EngineCrash
      BY <1>1, <1>3, <3>3, EngineAside DEF Quiet
    <3> QED BY <3>1, <3>2, <3>3
  <2>3. ~HasCmd(up'["engined"], "RuntimeStart")
    <3>1. CASE EngineTick /\ up'["engined"] = up["engined"] \o tx'
      <4>1. Tick /\ tx' \in Seq(EngineMsg)
        BY <1>1, <3>1, EngineWrites
      <4>2. ~SendRuntimeStart
        <5>1. SendRuntimeStart => actionQ # <<>> /\ Head(actionQ) = "SendRuntimeStart"
          BY DEF SendRuntimeStart, TakeAction
        <5>2. actionQ # <<>> => 1 \in DOMAIN actionQ /\ Head(actionQ) = actionQ[1]
          BY <2>1
        <5> QED BY <1>3, <5>1, <5>2 DEF Quiet, ActionsAt
      <4>3. ~HasCmd(tx', "RuntimeStart")
        BY <1>1, <4>1, <4>2, TickSends
      <4>4. tx' \in Seq({HangUp} \cup EngineMsg)
        BY <4>1
      <4> QED BY <2>1, <3>1, <4>3, <4>4, HasConcat
    <3>2. CASE up'["engined"] = <<HangUp>>
      BY <3>2 DEF HasCmd, HangUp
    <3>3. CASE up["engined"] # <<>> /\ up'["engined"] = Tail(up["engined"])
      BY <2>1, <3>3, HasTail
    <3>4. CASE up'["engined"] = up["engined"]
      BY <2>1, <3>4
    <3> QED BY <1>1, <3>1, <3>2, <3>3, <3>4, EngineLine
  <2>4. ~InFlight("engined", "RuntimeStart")'
    BY <2>3 DEF InFlight, HasCmd
  <2>5. \A d \in Daemons : Link(d) /\ ~HasCmd(down[d], "RuntimeStart")
    BY <1>3 DEF Quiet, HeardAll, LinkInv
  <2>6. \A d \in Daemons : /\ ~HasCmd(down'[d], "RuntimeStart")
                           /\ d \notin Ungated /\ dstate[d] # "Running" => dstate'[d] # "Running"
    BY <1>1, <1>3, <2>5, QuietDaemon DEF Quiet
  <2>7. \A d \in Daemons \ Ungated : dstate'[d] # "Running"
    BY <1>3, <2>6 DEF Quiet
  <2>8. (\A d \in Daemons : ~HasCmd(down[d], "RuntimeStart"))'
    BY <2>6 DEF HasCmd
  <2> QED BY <2>2, <2>4, <2>7, <2>8 DEF Quiet
<1> QED BY <1>2, <1>3

\* No gated daemon starts working before every service daemon has booted and said hello.
THEOREM StartsTogetherAlways == FleetSpec => []StartsTogether
<1> DEFINE Inv0 == HeardAll /\ (AllMet \/ Quiet)
<1>1. FleetInit => Inv0
  <2> SUFFICES ASSUME FleetInit PROVE Inv0
    OBVIOUS
  <2>1. HeardAll
    BY HeardStart
  <2>2. /\ actionQ = <<>> /\ up = [p \in Peers |-> <<>>] /\ down = [p \in Peers \ {"engined"} |-> <<>>]
        /\ dstate = [d \in Daemons |-> "Down"]
    BY DEF FleetInit, Init
  <2>3. Quiet
    BY <2>2, PeersApart DEF Quiet, ActionsAt, InFlight, HasCmd
  <2> QED BY <2>1, <2>3
<1>2. Inv0 /\ [FleetNext]_fleetVars => Inv0'
  BY HeardNext, GateStep
<1>3. Inv0 => StartsTogether
  BY DEF AllMet, Quiet, StartsTogether, Met
<1> HIDE DEF Inv0
<1> QED BY <1>1, <1>2, <1>3, PTL DEF FleetSpec
(***************************************************************************)
(* No start is lost                                                        *)
(***************************************************************************)
\* What waits in an inbox goes on waiting when the inbox grows.
LEMMA QueuedGrows ==
  ASSUME NEW s \in Seq(Frame), NEW x \in Seq(Frame)
  PROVE  /\ Queued(s) => Queued(s \o x)
         /\ HasCmd(s, "ServerHello") /\ HasCmd(x, "RuntimeStart") => Queued(s \o x)
<1> DEFINE r == s \o x
<1>1. /\ DOMAIN r = 1 .. Len(s) + Len(x) /\ Len(s) \in Nat /\ Len(x) \in Nat
      /\ \A i \in 1 .. Len(s) + Len(x) : r[i] = IF i <= Len(s) THEN s[i] ELSE x[i - Len(s)]
      /\ DOMAIN s = 1 .. Len(s) /\ DOMAIN x = 1 .. Len(x)
  BY ConcatProperties
<1> HIDE DEF r
<1>2. \A i \in DOMAIN s : i \in DOMAIN r /\ r[i] = s[i]
  BY <1>1
<1>3. ASSUME Queued(s) PROVE Queued(r)
  BY <1>2, <1>3 DEF Queued
<1>4. ASSUME NEW i \in DOMAIN s, s[i].cmd = "ServerHello", NEW j \in DOMAIN x, x[j].cmd = "RuntimeStart"
      PROVE  Queued(r)
  <2>1. j + Len(s) \in DOMAIN r /\ r[j + Len(s)] = x[j] /\ i < j + Len(s)
    BY <1>1
  <2> QED BY <1>2, <1>4, <2>1 DEF Queued
<1>5. HasCmd(s, "ServerHello") /\ HasCmd(x, "RuntimeStart") => Queued(r)
  BY <1>4 DEF HasCmd
<1> QED BY <1>3, <1>5 DEF r

\* A daemon that reads moves on with the RuntimeStart, or has it still ahead of it.
LEMMA AwaitedReceive ==
  ASSUME FleetTypes, NEW d \in Daemons \ Ungated, Link(d), Awaited(d), Daemon(Receive(d))
  PROVE  Awaited(d)'
<1>0. d \in Daemons /\ d \in Peers /\ "engined" \in Peers \ {d} /\ down[d] \in Seq(Frame)
  BY PeersApart DEF FleetTypes, WireOK
<1>1. Live(d) /\ dstate[d] # "Down" /\ dstate[d] \in {"Down", "WaitServerHello", "WaitRuntimeStart", "Running"}
  BY <1>0, LinkReceive, DaemonRead DEF FleetTypes, FleetTypeOK
<1>2. /\ procs' = procs /\ table' = table /\ (InFlight("engined", "RuntimeStart")' <=> InFlight("engined", "RuntimeStart"))
  <2>1. up'["engined"] = up["engined"]
    BY <1>0, DaemonRead
  <2>2. procs' = procs /\ table' = table
    BY DEF Daemon, bootVars, ipcdVars
  <2> QED BY <2>1, <2>2 DEF InFlight
<1> DEFINE s == down[d]
           Hello(n) == dstate[d] = "WaitServerHello" /\ \E i \in 1 .. n : s[i].cmd = "ServerHello"
           Started(n) == \E i \in 1 .. n :
                           /\ s[i].cmd = "RuntimeStart"
                           /\ \/ dstate[d] = "WaitRuntimeStart"
                              \/ Hello(n) /\ \E j \in 1 .. i - 1 : s[j].cmd = "ServerHello"
<1>3. PICK n \in 1 .. Len(s) :
        /\ Started(n) => dstate'[d] = "Running"
        /\ ~Started(n) /\ Hello(n) => dstate'[d] = "WaitRuntimeStart"
        /\ ~Started(n) /\ ~Hello(n) => dstate'[d] = dstate[d]
        /\ down'[d] = SubSeq(s, n + 1, Len(s))
  BY <1>0, DaemonRead
<1>4. /\ DOMAIN down'[d] = 1 .. Len(s) - n
      /\ \A i \in 1 .. Len(s) - n : down'[d][i] = s[i + n]
      /\ DOMAIN s = 1 .. Len(s) /\ Len(s) \in Nat
  <2>1. down'[d] = SubSeq(s, n + 1, Len(s)) /\ s \in Seq(Frame)
    BY <1>0, <1>3
  <2> HIDE DEF s
  <2> QED BY <2>1, Rest
<1>5. \A i \in DOMAIN s : i <= n => i \in 1 .. n
  BY <1>4
<1>6. \A i \in DOMAIN s : i > n => i - n \in DOMAIN down'[d] /\ down'[d][i - n] = s[i]
  BY <1>4
<1>7. CASE procs[d].blessed < table[d].generation \/ InFlight("engined", "RuntimeStart")
  BY <1>2, <1>7 DEF Awaited
<1>8. CASE ~(procs[d].blessed < table[d].generation) /\ ~InFlight("engined", "RuntimeStart") /\ ~Started(n)
  <2>1. CASE dstate[d] = "WaitRuntimeStart"
    <3>1. PICK i \in DOMAIN s : s[i].cmd = "RuntimeStart"
      BY <1>8, <2>1 DEF Awaited, HasCmd
    <3>2. i > n
      BY <1>4, <1>5, <1>8, <2>1, <3>1
    <3>3. HasCmd(down'[d], "RuntimeStart")
      BY <1>6, <3>1, <3>2 DEF HasCmd
    <3>4. dstate'[d] = "WaitRuntimeStart"
      BY <1>3, <1>8, <2>1
    <3> QED BY <3>3, <3>4 DEF Awaited, HasCmd
  <2>2. CASE dstate[d] = "WaitServerHello"
    <3>1. PICK i \in DOMAIN s, j \in DOMAIN s :
            i < j /\ s[i].cmd = "ServerHello" /\ s[j].cmd = "RuntimeStart"
      BY <1>1, <1>8, <2>2 DEF Awaited, Queued
    <3>2. i \in 1 .. j - 1
      BY <1>4, <3>1
    <3>3. CASE Hello(n)
      <4>1. j > n
        <5>1. j \notin 1 .. n
          BY <1>8, <3>1, <3>2, <3>3
        <5> QED BY <1>4, <1>5, <5>1
      <4>2. HasCmd(down'[d], "RuntimeStart")
        BY <1>6, <3>1, <4>1 DEF HasCmd
      <4>3. dstate'[d] = "WaitRuntimeStart"
        BY <1>3, <1>8, <3>3
      <4> QED BY <4>2, <4>3 DEF Awaited, HasCmd
    <3>4. CASE ~Hello(n)
      <4>1. i > n /\ j > n
        BY <1>4, <1>5, <2>2, <3>1, <3>4
      <4>2. i - n < j - n
        BY <1>4, <3>1
      <4>3. Queued(down'[d])
        BY <1>6, <3>1, <4>1, <4>2 DEF Queued
      <4>4. dstate'[d] = "WaitServerHello"
        BY <1>3, <1>8, <2>2, <3>4
      <4> QED BY <4>3, <4>4 DEF Awaited, Queued
    <3> QED BY <3>3, <3>4
  <2>3. CASE dstate[d] = "Running"
    BY <1>3, <1>8, <2>3 DEF Awaited
  <2> QED BY <1>1, <2>1, <2>2, <2>3
<1>9. CASE Started(n)
  BY <1>3, <1>9 DEF Awaited
<1> QED BY <1>7, <1>8, <1>9

\* The start of a daemon's generation is never lost.
LEMMA AwaitedStep ==
  ASSUME HeardAll, [FleetNext]_fleetVars, NEW d \in Daemons \ Ungated, Awaited(d)
  PROVE  Awaited(d)'
<1> DEFINE e == "engined"
           RS == "RuntimeStart"
<1>0. /\ d \in Daemons /\ d \in Peers /\ e \in Peers /\ d \in Peers \ {e} /\ d # e
  BY PeersApart
<1>1. /\ FleetTypes /\ TypeOK /\ LinkInv /\ LinkInv' /\ Link(d) /\ Link(d)' /\ Greeted(d) /\ Heard(d)
      /\ Greeted(d)' /\ Heard(d)' /\ FleetTypes'
  <2>1. HeardAll'
    BY HeardNext
  <2> QED BY <1>0, <2>1 DEF HeardAll, LinkInv, FleetTypes, FleetTypeOK
<1>2. /\ down[d] \in Seq(Frame) /\ up[e] \in Seq({HangUp} \cup EngineMsg) /\ up[e] \in Seq(Frame)
      /\ table[d].generation \in Nat /\ procs[d].blessed \in Nat /\ table'[d].generation \in Nat
  BY <1>0, <1>1, Senders DEF FleetTypes, FleetTypeOK, TypeOK, WireOK, UpOK, ProcessState
<1>3. InFlight(e, RS) = HasCmd(up[e], RS) /\ InFlight(e, RS)' = HasCmd(up'[e], RS)
  BY DEF InFlight, HasCmd
<1>4. dstate[d] = "WaitRuntimeStart" => Live(d)
  BY <1>1 DEF Link, Connected
<1>5. (dstate[d] = "WaitRuntimeStart" => Live(d))'
  BY <1>1 DEF Link, Connected
<1> DEFINE Goal == Awaited(d)'
<1> SUFFICES Goal
  OBVIOUS
<1>6. ASSUME ~Live(d)' PROVE Goal
  BY <1>5, <1>6 DEF Awaited
<1>7. ASSUME dstate'[d] = dstate[d], Live(d)' => Live(d), procs'[d].blessed = procs[d].blessed,
             table'[d].generation = table[d].generation, HasCmd(up[e], RS) => HasCmd(up'[e], RS),
             NEW x \in Seq(Frame), down'[d] = down[d] \o x
      PROVE  Goal
  <2>1. HasCmd(down[d], RS) => HasCmd(down'[d], RS)
    BY <1>2, <1>7, HasConcat
  <2>2. Queued(down[d]) => Queued(down'[d])
    BY <1>2, <1>7, QueuedGrows
  <2> QED BY <1>3, <1>7, <2>1, <2>2 DEF Awaited
<1>8. <<>> \in Seq(Frame) /\ down[d] = down[d] \o <<>>
  BY <1>2
<1> HIDE DEF Goal
<1>9. CASE EngineTick
  <2>1. UNCHANGED <<down, table, dstate>> /\ up'[d] = up[d]
    BY <1>0, <1>1, <1>9, EngineWrites DEF EngineTick, Engine, ipcdVars, daemonVars
  <2>2. Live(d)' <=> Live(d)
    BY <2>1 DEF Live, HungUp
  <2>3. Tick /\ tx' \in Seq(EngineMsg) /\ up'[e] = up[e] \o tx'
    BY <1>1, <1>9, EngineWrites
  <2>4. tx' \in Seq({HangUp} \cup EngineMsg)
    BY <2>3
  <2>5. HasCmd(up'[e], RS) <=> HasCmd(up[e], RS) \/ HasCmd(tx', RS)
    BY <1>2, <2>3, <2>4, HasConcat
  <2>6. CASE HasCmd(tx', RS)
    <3>1. InFlight(e, RS)'
      BY <1>3, <2>5, <2>6
    <3> QED BY <3>1 DEF Awaited, Goal
  <2>7. CASE ~HasCmd(tx', RS)
    <3>1. procs' = procs \/ \E report : procs' = UpdateProcessMap(report)
      BY <1>1, <2>3, <2>7, TickProcs
    <3>2. procs[d] \in ProcessState
      BY <1>0, <1>1 DEF TypeOK
    <3>3. procs'[d].blessed = procs[d].blessed
      <4>1. ASSUME NEW report, procs' = UpdateProcessMap(report) PROVE procs'[d].blessed = procs[d].blessed
        <5>1. \/ procs'[d] = [procs[d] EXCEPT !.connected = TRUE, !.applied = report[d].applied,
                                              !.generation = report[d].generation]
              \/ procs'[d] = [procs[d] EXCEPT !.connected = FALSE, !.applied = 0]
          BY <1>0, <4>1, Zenon DEF UpdateProcessMap
        <5> QED BY <3>2, <5>1 DEF ProcessState
      <4> QED BY <3>1, <4>1
    <3> QED BY <1>7, <1>8, <2>1, <2>2, <2>5, <3>3
  <2> QED BY <2>6, <2>7
<1>10. CASE EngineCrash
  <2>1. procs'[d].blessed = 0
    BY <1>0, <1>1, <1>10, HeardFalls
  <2>2. Live(d)' => 0 < table'[d].generation
    BY <1>1 DEF Live, Greeted, Met
  <2> QED BY <1>5, <2>1, <2>2 DEF Awaited, Goal
<1>11. CASE ~EngineTick /\ ~EngineCrash
  <2>1. procs' = procs
    BY <1>1, <1>11, EngineAside
  <2>2. CASE Daemon(Receive(d))
    BY <1>1, <2>2, AwaitedReceive DEF Goal
  <2>3. CASE Daemon(Reexec(d)) \/ Daemon(Crash(d))
    BY <1>0, <1>1, <1>6, <2>3, LinkDies
  <2>4. CASE Ipcd(IpcdHangUp(d))
    BY <1>0, <1>1, <1>6, <2>4, LinkHangUp
  <2>5. CASE Daemon(Boot(d))
    BY <1>0, <1>1, <1>6, <2>5, LinkBoot
  <2>6. CASE Daemon(SendHello(d) \/ ResendReady(d))
    <3>1. /\ UNCHANGED <<down, table, dstate>> /\ up'[e] = up[e]
      BY <1>0, <1>1, <2>6, DaemonSent
    <3>2. Live(d)' <=> Live(d)
      BY <1>0, <1>1, <2>6, LinkSend
    <3> QED BY <1>7, <1>8, <2>1, <3>1, <3>2
  <2>7. CASE Ipcd(IpcdIngress(d))
    <3>1. UNCHANGED <<down, dstate>> /\ up'[e] = up[e]
      <4>1. UNCHANGED down
        BY <1>0, <1>1, <2>7, OwnFrames
      <4>2. up'[e] = up[e]
        <5>1. e \in Peers \ {d}
          BY <1>0
        <5>2. \A q \in Peers \ {d} : up'[q] = up[q]
          BY ZenonT(40), <1>0, <1>1, <2>7, FrameRead
        <5> QED BY <5>1, <5>2
      <4>3. UNCHANGED dstate
        BY <2>7 DEF Ipcd, daemonVars
      <4> QED BY <4>1, <4>2, <4>3
    <3>2. CASE table[d].bound
      <4>1. Live(d) /\ table' [d] = table[d]
        BY <1>0, <1>1, <2>7, <3>2, FrameRead DEF Live
      <4> QED BY <1>7, <1>8, <2>1, <3>1, <4>1
    <3>3. CASE ~table[d].bound
      <4>1. table'[d].generation = table[d].generation + 1
        BY <1>0, <1>1, <2>7, <3>3, FrameRead
      <4>2. procs[d].blessed <= table[d].generation
        BY <1>1 DEF Heard, Known
      <4>3. procs'[d].blessed < table'[d].generation
        BY <1>2, <2>1, <4>1, <4>2
      <4> QED BY <4>3 DEF Awaited, Goal
    <3> QED BY <3>2, <3>3
  <2>8. CASE /\ Ipcd(IpcdIngress(e))
             /\ ~Daemon(Receive(d)) /\ ~(Daemon(Reexec(d)) \/ Daemon(Crash(d)))
    <3>0. PICK m : m = Head(up[e])
      OBVIOUS
    <3>1. /\ up[e] # <<>> /\ up'[e] = Tail(up[e]) /\ up'[d] = up[d] /\ table'[d] = table[d]
          /\ UNCHANGED dstate
      BY ZenonT(40), <1>0, <1>1, <2>8, FrameRead DEF Ipcd, daemonVars
    <3>2. Live(d)' <=> Live(d)
      BY <3>1 DEF Live, HungUp
    <3>3. HasCmd(up[e], RS) <=> m.cmd = RS \/ HasCmd(up'[e], RS)
      BY <1>2, <3>0, <3>1, HasTail
    <3>4. CASE m.cmd # RS
      <4>1. PICK x \in Seq(Frame) : down'[d] = down[d] \o x
        BY <1>0, <1>1, <2>8, Inbox
      <4> QED BY <1>7, <2>1, <3>1, <3>2, <3>3, <3>4, <4>1
    <3>5. CASE m.cmd = RS
      <4>1. m \in Frame /\ ~IsOwn(m) /\ d \in Destinations(e, m)
        <5>1. m \in SentBy(e)
          BY <1>0, <1>1, <2>8, <3>0, FrameRead
        <5> QED BY <1>0, <3>5, <5>1, Senders DEF IsOwn, Destinations
      <4>2. Live(d) => Reachable(table', d)
        BY <3>1 DEF Live, Reachable
      <4>3. Live(d) => down'[d] = down[d] \o <<m>>
        BY ZenonT(40), <1>0, <1>1, <2>8, <3>0, <4>1, <4>2, FrameRead
      <4>4. <<m>> \in Seq(Frame) /\ HasCmd(<<m>>, RS)
        BY <3>5, <4>1 DEF HasCmd
      <4>5. CASE dstate'[d] = "WaitRuntimeStart"
        <5>1. HasCmd(down'[d], RS)
          <6>1. down'[d] = down[d] \o <<m>>
            BY <1>4, <3>1, <4>3, <4>5
          <6>2. HasCmd(down[d] \o <<m>>, RS)
            BY <1>2, <4>4, HasConcat
          <6> QED BY <6>1, <6>2
        <5> QED BY <4>5, <5>1 DEF Awaited, Goal, HasCmd
      <4>6. CASE dstate'[d] = "WaitServerHello" /\ Live(d)'
        <5>1. CASE procs[d].blessed < table[d].generation
          BY <2>1, <3>1, <5>1 DEF Awaited, Goal
        <5>2. CASE ~(procs[d].blessed < table[d].generation)
          <6>1. HasCmd(down[d], "ServerHello")
            BY <1>1, <1>2, <3>1, <3>2, <4>6, <5>2 DEF Heard, Known
          <6>2. Queued(down'[d])
            BY <1>2, <3>2, <4>3, <4>4, <4>6, <6>1, QueuedGrows
          <6> QED BY <4>6, <6>2 DEF Awaited, Goal, Queued
        <5> QED BY <5>1, <5>2
      <4>7. CASE dstate'[d] # "WaitRuntimeStart" /\ ~(dstate'[d] = "WaitServerHello" /\ Live(d)')
        BY <4>7 DEF Awaited, Goal
      <4> QED BY <4>5, <4>6, <4>7
    <3> QED BY <3>4, <3>5
  <2>9. CASE /\ ~Daemon(Receive(d)) /\ ~(Daemon(Reexec(d)) \/ Daemon(Crash(d))) /\ ~Ipcd(IpcdHangUp(d))
             /\ ~Daemon(Boot(d)) /\ ~Daemon(SendHello(d) \/ ResendReady(d)) /\ ~Ipcd(IpcdIngress(d))
             /\ ~Ipcd(IpcdIngress(e))
    <3>1. /\ up'[d] = up[d] /\ dstate'[d] = dstate[d] /\ table'[d].bound = table[d].bound
          /\ table'[d].generation = table[d].generation
          /\ \E x \in Seq(Frame) : down'[d] = down[d] \o x
      BY <1>0, <1>1, <2>9, Elsewhere
    <3>2. Live(d)' <=> Live(d)
      BY <3>1 DEF Live, HungUp
    <3>3. HasCmd(up[e], RS) => HasCmd(up'[e], RS)
      <4>1. \/ up'[e] = up[e]
            \/ up[e] # <<>> /\ Head(up[e]) = HangUp /\ up'[e] = Tail(up[e])
        BY <1>1, <1>11, <2>9, EngineLine
      <4>2. HangUp.cmd # RS
        BY DEF HangUp
      <4> QED BY <1>2, <4>1, <4>2, HasTail
    <3> QED BY <1>7, <2>1, <3>1, <3>2, <3>3
  <2> QED BY <2>2, <2>3, <2>4, <2>5, <2>6, <2>7, <2>8, <2>9
<1> QED BY <1>9, <1>10, <1>11 DEF Goal

\* A daemon that waits for RuntimeStart will get it: engined has yet to bless its generation,
\* or a RuntimeStart is on its way to it.
THEOREM StartNotLostAlways == FleetSpec => []StartNotLost
<1> DEFINE Inv0 == HeardAll /\ \A d \in Daemons \ Ungated : Awaited(d)
<1>1. FleetInit => Inv0
  <2> SUFFICES ASSUME FleetInit PROVE Inv0
    OBVIOUS
  <2>1. HeardAll
    BY HeardStart
  <2>2. dstate = [d \in Daemons |-> "Down"]
    BY DEF FleetInit
  <2> QED BY <2>1, <2>2 DEF Awaited
<1>2. Inv0 /\ [FleetNext]_fleetVars => Inv0'
  <2> SUFFICES ASSUME Inv0, [FleetNext]_fleetVars PROVE Inv0'
    OBVIOUS
  <2>1. HeardAll'
    BY HeardNext
  <2>2. \A d \in Daemons \ Ungated : Awaited(d)'
    BY AwaitedStep
  <2> QED BY <2>1, <2>2
<1>3. Inv0 => StartNotLost
  BY DEF Awaited, StartNotLost, HasCmd
<1> HIDE DEF Inv0
<1> QED BY <1>1, <1>2, <1>3, PTL DEF FleetSpec
(***************************************************************************)
(* What the console shows                                                  *)
(***************************************************************************)
\* Whether a status is among the frames.
LEMMA StatusAmong ==
  ASSUME NEW s
  PROVE  StatusAt(s) = {} <=> ~HasCmd(s, "SettingsCommitStatus")
BY DEF StatusAt, HasCmd

\* The newest status of frames that join others.
LEMMA NewestConcat ==
  ASSUME NEW S, NEW s \in Seq(S), NEW t \in Seq(S), NEW q
  PROVE  /\ StatusAt(t) # {} /\ NewestIs(t, q) => NewestIs(s \o t, q)
         /\ StatusAt(t) = {} /\ NewestIs(s, q) => NewestIs(s \o t, q)
<1> DEFINE r == s \o t
<1>1. /\ DOMAIN r = 1 .. Len(s) + Len(t) /\ Len(s) \in Nat /\ Len(t) \in Nat
      /\ \A i \in 1 .. Len(s) + Len(t) : r[i] = IF i <= Len(s) THEN s[i] ELSE t[i - Len(s)]
      /\ DOMAIN s = 1 .. Len(s) /\ DOMAIN t = 1 .. Len(t)
  BY ConcatProperties
<1> HIDE DEF r
<1>2. \A i \in DOMAIN s : i \in DOMAIN r /\ r[i] = s[i]
  BY <1>1
<1>3. \A i \in DOMAIN t : i + Len(s) \in DOMAIN r /\ r[i + Len(s)] = t[i]
  BY <1>1
<1>4. \A i \in DOMAIN r : i \in DOMAIN s \/ (i - Len(s) \in DOMAIN t /\ r[i] = t[i - Len(s)])
  BY <1>1
<1>5. \A i \in StatusAt(s) : i \in StatusAt(r) /\ r[i] = s[i]
  BY <1>2 DEF StatusAt
<1>6. \A i \in StatusAt(t) : i + Len(s) \in StatusAt(r)
  BY <1>3 DEF StatusAt
<1>7. \A i \in StatusAt(r) : \/ i \in StatusAt(s) /\ r[i] = s[i]
                             \/ i - Len(s) \in StatusAt(t) /\ r[i] = t[i - Len(s)]
  BY <1>2, <1>4 DEF StatusAt
<1>8. /\ \A i \in StatusAt(s) : i \in Nat /\ i <= Len(s)
      /\ \A i \in StatusAt(t) : i \in Nat /\ i > 0
      /\ \A i \in StatusAt(r) : i \in Nat
  BY <1>1 DEF StatusAt
<1>9. ASSUME StatusAt(t) # {}, NewestIs(t, q) PROVE NewestIs(r, q)
  <2> SUFFICES ASSUME NEW i \in StatusAt(r), \A j \in StatusAt(r) : j <= i PROVE r[i] = q
    BY DEF NewestIs
  <2>1. PICK k \in StatusAt(t) : TRUE
    BY <1>9
  <2>2. k + Len(s) <= i
    BY <1>6
  <2>3. i \notin StatusAt(s)
    BY <1>1, <1>8, <2>2
  <2>4. i - Len(s) \in StatusAt(t) /\ r[i] = t[i - Len(s)]
    BY <1>7, <2>3
  <2>5. \A j \in StatusAt(t) : j <= i - Len(s)
    <3> SUFFICES ASSUME NEW j \in StatusAt(t) PROVE j <= i - Len(s)
      OBVIOUS
    <3>1. j + Len(s) <= i
      BY <1>6
    <3> QED BY <1>1, <1>8, <3>1
  <2> QED BY <1>9, <2>4, <2>5 DEF NewestIs
<1>10. ASSUME StatusAt(t) = {}, NewestIs(s, q) PROVE NewestIs(r, q)
  BY <1>5, <1>7, <1>10 DEF NewestIs
<1> QED BY <1>9, <1>10 DEF r

\* The newest status when the first frame has been read.
LEMMA NewestTail ==
  ASSUME NEW S, NEW s \in Seq(S), s # <<>>, NEW q, NewestIs(s, q)
  PROVE  /\ NewestIs(Tail(s), q)
         /\ Head(s).cmd = "SettingsCommitStatus" /\ StatusAt(Tail(s)) = {} => Head(s) = q
<1> DEFINE r == Tail(s)
<1>1. /\ Head(s) = s[1] /\ DOMAIN s = 1 .. Len(s) /\ DOMAIN r = 1 .. Len(s) - 1 /\ Len(s) \in Nat \ {0}
      /\ \A i \in 1 .. Len(s) - 1 : r[i] = s[i + 1]
  BY HeadTailProperties
<1> HIDE DEF r
<1>2. \A i \in DOMAIN r : i + 1 \in DOMAIN s /\ s[i + 1] = r[i]
  BY <1>1
<1>3. \A i \in DOMAIN s : i # 1 => i - 1 \in DOMAIN r /\ r[i - 1] = s[i]
  BY <1>1
<1>4. \A i \in StatusAt(r) : i \in Nat /\ i + 1 \in StatusAt(s) /\ s[i + 1] = r[i]
  BY <1>1, <1>2 DEF StatusAt
<1>5. \A i \in StatusAt(s) : i \in Nat /\ (i # 1 => i - 1 \in StatusAt(r))
  BY <1>1, <1>3 DEF StatusAt
<1>6. NewestIs(r, q)
  <2> SUFFICES ASSUME NEW i \in StatusAt(r), \A j \in StatusAt(r) : j <= i PROVE r[i] = q
    BY DEF NewestIs
  <2>1. \A j \in StatusAt(s) : j <= i + 1
    <3> SUFFICES ASSUME NEW j \in StatusAt(s) PROVE j <= i + 1
      OBVIOUS
    <3>1. CASE j = 1
      BY <1>4, <3>1
    <3>2. CASE j # 1
      <4>1. j - 1 <= i
        BY <1>5, <3>2
      <4> QED BY <1>4, <1>5, <4>1
    <3> QED BY <3>1, <3>2
  <2> QED BY <1>4, <2>1 DEF NewestIs
<1>7. ASSUME Head(s).cmd = "SettingsCommitStatus", StatusAt(r) = {} PROVE Head(s) = q
  <2>1. 1 \in StatusAt(s)
    BY <1>1, <1>7 DEF StatusAt
  <2>2. \A j \in StatusAt(s) : j <= 1
    BY <1>5, <1>7
  <2> QED BY <1>1, <2>1, <2>2 DEF NewestIs
<1> QED BY <1>6, <1>7 DEF r

\* A frame on its own.
LEMMA NewestOne ==
  ASSUME NEW m
  PROVE  /\ NewestIs(<<m>>, m)
         /\ StatusAt(<<m>>) = {} <=> m.cmd # "SettingsCommitStatus"
<1>1. DOMAIN <<m>> = {1} /\ <<m>>[1] = m
  OBVIOUS
<1> QED BY <1>1 DEF NewestIs, StatusAt

\* The newest status on the way to the console, and what the console shows when there is none,
\* is that of the queue q.
Telling(out, box, view, q) ==
  /\ NewestIs(out, QueueStatus(q))
  /\ StatusAt(out) = {} => NewestIs(box, QueueStatus(q))
  /\ StatusAt(out) = {} /\ StatusAt(box) = {} => view = QueueStatus(q).tasks

\* engined's last word is that of the queue it leaves.
LEMMA TellingSpoken ==
  ASSUME NEW out \in Seq(Frame), NEW more \in Seq(Frame), NEW box, NEW view, NEW q, NEW r,
         Telling(out, box, view, q), NewestIs(more, QueueStatus(r)), StatusAt(more) = {} => r = q
  PROVE  Telling(out \o more, box, view, r)
<1>1. StatusAt(out \o more) = {} <=> StatusAt(out) = {} /\ StatusAt(more) = {}
  BY StatusAmong, HasConcat
<1>2. NewestIs(out \o more, QueueStatus(r))
  <2>1. CASE StatusAt(more) # {}
    BY <2>1, NewestConcat
  <2>2. CASE StatusAt(more) = {}
    <3>1. NewestIs(out, QueueStatus(r))
      BY <2>2 DEF Telling
    <3> QED BY <2>2, <3>1, NewestConcat
  <2> QED BY <2>1, <2>2
<1> QED BY <1>1, <1>2 DEF Telling

\* ipcd relays a status to the console, and nothing else that is one.
LEMMA TellingRelayed ==
  ASSUME NEW out \in Seq(Frame), out # <<>>, NEW box \in Seq(Frame), NEW more \in Seq(Frame),
         NEW view, NEW q, Telling(out, box, view, q),
         Head(out).cmd = "SettingsCommitStatus" => more = <<Head(out)>>,
         Head(out).cmd # "SettingsCommitStatus" => StatusAt(more) = {}
  PROVE  Telling(Tail(out), box \o more, view, q)
<1> DEFINE m == Head(out)
           st == QueueStatus(q)
<1>1. /\ NewestIs(Tail(out), st)
      /\ m.cmd = "SettingsCommitStatus" /\ StatusAt(Tail(out)) = {} => m = st
  BY NewestTail DEF Telling
<1>2. StatusAt(out) = {} <=> m.cmd # "SettingsCommitStatus" /\ StatusAt(Tail(out)) = {}
  BY StatusAmong, HasTail
<1>3. StatusAt(box \o more) = {} <=> StatusAt(box) = {} /\ StatusAt(more) = {}
  BY StatusAmong, HasConcat
<1>4. CASE m.cmd = "SettingsCommitStatus"
  <2>1. StatusAt(more) # {} /\ NewestIs(more, m)
    BY <1>4, NewestOne
  <2>2. StatusAt(Tail(out)) = {} => NewestIs(box \o more, st)
    BY <1>1, <1>4, <2>1, NewestConcat
  <2> QED BY <1>1, <1>3, <2>1, <2>2 DEF Telling
<1>5. CASE m.cmd # "SettingsCommitStatus"
  <2>1. StatusAt(Tail(out)) = {} => NewestIs(box \o more, st)
    BY <1>2, <1>5, NewestConcat DEF Telling
  <2>2. StatusAt(Tail(out)) = {} /\ StatusAt(box \o more) = {} => view = st.tasks
    BY <1>2, <1>3, <1>5 DEF Telling
  <2> QED BY <1>1, <2>1, <2>2 DEF Telling
<1> QED BY <1>4, <1>5

\* Frames that are no status reach the console.
LEMMA TellingOther ==
  ASSUME NEW out, NEW box \in Seq(Frame), NEW more \in Seq(Frame), NEW view, NEW q,
         Telling(out, box, view, q), StatusAt(more) = {}
  PROVE  Telling(out, box \o more, view, q)
<1>1. StatusAt(box \o more) = {} <=> StatusAt(box) = {}
  BY StatusAmong, HasConcat
<1>2. NewestIs(box, QueueStatus(q)) => NewestIs(box \o more, QueueStatus(q))
  BY NewestConcat
<1> QED BY <1>1, <1>2 DEF Telling

\* The console shows the status it reads.
LEMMA TellingShown ==
  ASSUME NEW out, NEW box \in Seq(Frame), box # <<>>, NEW view, NEW next, NEW q,
         Telling(out, box, view, q),
         Head(box).cmd = "SettingsCommitStatus" => next = Head(box).tasks,
         Head(box).cmd # "SettingsCommitStatus" => next = view
  PROVE  Telling(out, Tail(box), next, q)
<1>1. NewestIs(box, QueueStatus(q)) =>
        /\ NewestIs(Tail(box), QueueStatus(q))
        /\ Head(box).cmd = "SettingsCommitStatus" /\ StatusAt(Tail(box)) = {} => Head(box) = QueueStatus(q)
  BY NewestTail
<1>2. StatusAt(box) = {} <=> Head(box).cmd # "SettingsCommitStatus" /\ StatusAt(Tail(box)) = {}
  BY StatusAmong, HasTail
<1>3. CASE StatusAt(out) # {}
  BY <1>3 DEF Telling
<1>4. CASE StatusAt(out) = {} /\ Head(box).cmd = "SettingsCommitStatus"
  BY <1>1, <1>4 DEF Telling
<1>5. CASE StatusAt(out) = {} /\ Head(box).cmd # "SettingsCommitStatus"
  BY <1>1, <1>2, <1>5 DEF Telling
<1> QED BY <1>3, <1>4, <1>5
\* A frame that ipcd does not keep reaches its destinations.
LEMMA Relayed ==
  ASSUME FleetTypes, NEW p \in Peers, Ipcd(IpcdIngress(p)), NEW m, m = Head(up[p]), ~IsOwn(m),
         NEW q \in Peers \ {"engined"}
  PROVE  /\ Reachable(table', q) /\ q \in Destinations(p, m) => down'[q] = down[q] \o <<m>>
         /\ ~(Reachable(table', q) /\ q \in Destinations(p, m)) => down'[q] = down[q]
<1> DEFINE out == [r \in Peers |-> IF r \in Destinations(p, m) THEN <<m>> ELSE <<>>]
<1>1. Transmit(table', out) /\ up[p] # <<>> /\ up' = [up EXCEPT ![p] = Tail(@)]
  BY Zenon DEF Ipcd, IpcdIngress
<1>2. UpOK /\ down \in [Peers \ {"engined"} -> Seq(Frame)]
  BY DEF FleetTypes, WireOK
<1>3. m \in SentBy(p)
  BY <1>1, <1>2, Reading
<1>4. m \in Frame
  BY <1>3, Senders
<1>5. <<m>> \in Seq(Frame) /\ <<>> \in Seq(Frame)
  BY <1>4
<1>6. out \in [Peers -> Seq(Frame)] /\ out[q] = IF q \in Destinations(p, m) THEN <<m>> ELSE <<>>
  BY <1>5
<1> HIDE DEF out
<1>7. down'[q] = IF Reachable(table', q) THEN down[q] \o out[q] ELSE down[q]
  BY <1>1, <1>2, <1>6, Transmitted
<1>8. down[q] \o <<>> = down[q]
  BY <1>2
<1> QED BY <1>6, <1>7, <1>8, Zenon

\* mgmtd never hangs up; and until something crashes engined does not either, and the console
\* is told of the queue as it is.
Told ==
  /\ table["mgmtd"].bound
  /\ crashes = 0 =>
       /\ ~HasCmd(up["engined"], "HangUp")
       /\ Telling(up["engined"], down["mgmtd"], shown, queue)

\* A message of engined is a frame and no hang-up.
LEMMA NoHangUp ==
  ASSUME NEW out \in Seq(EngineMsg)
  PROVE  out \in Seq(Frame) /\ ~HasCmd(out, "HangUp")
<1>1. EngineMsg \subseteq Frame
  BY DEF Frame
<1>2. out \in Seq(Frame)
  BY <1>1
<1>3. \A i \in DOMAIN out : out[i].cmd # "HangUp"
  <2>1. \A i \in DOMAIN out : out[i] \in EngineMsg
    OBVIOUS
  <2> QED BY <2>1, Commands
<1> QED BY <1>2, <1>3 DEF HasCmd

\* The console is never told less than the truth.
LEMMA ToldStep ==
  ASSUME FleetTypes, [FleetNext]_fleetVars, Told
  PROVE  Told'
<1> DEFINE e == "engined"
           c == "mgmtd"
<1>0. e \in Peers /\ c \in Peers /\ c \in Peers \ {e} /\ e \in Peers \ {c} /\ e # c
      /\ \A d \in Daemons : d \in Peers /\ c \in Peers \ {d} /\ e \in Peers \ {d} /\ c \in Peers \ {e, d}
  BY PeersApart
<1>1. /\ up[e] \in Seq(Frame) /\ down[c] \in Seq(Frame) /\ up[c] \in Seq(MgmtdMsg) /\ TypeOK
      /\ crashes \in Nat /\ up[e] \in Seq({HangUp} \cup EngineMsg)
  BY <1>0, Senders DEF FleetTypes, FleetTypeOK, WireOK, UpOK
<1>2. ~HungUp(c)
  <2>1. up[c] # <<>> => Head(up[c]) \in MgmtdMsg
    BY <1>1
  <2>2. HangUp \notin MgmtdMsg
    BY DEF HangUp, MgmtdMsg
  <2> QED BY <2>1, <2>2 DEF HungUp
<1> DEFINE Goal == Told'
<1> SUFFICES Goal
  OBVIOUS
<1>3. ASSUME table'[c].bound = table[c].bound, crashes' = 0 => crashes = 0, up'[e] = up[e],
             down'[c] = down[c], UNCHANGED <<shown, queue>>
      PROVE  Goal
  BY <1>3 DEF Told
<1>4. CASE EngineTick
  <2>1. /\ Tick /\ tx' \in Seq(EngineMsg) /\ up'[e] = up[e] \o tx'
    BY <1>4, EngineWrites
  <2>2. UNCHANGED <<down, table, shown, crashes>>
    BY <1>4 DEF EngineTick, Engine, ipcdVars, mgmtdVars
  <2>3. Speaks(tx', queue, queue')
    BY <1>1, <2>1, TickSends
  <2>4. PICK more \in Seq(Frame) : more = tx'
    BY <2>1, NoHangUp
  <2>r. PICK r : r = queue'
    OBVIOUS
  <2> DEFINE out == up[e]
             box == down[c]
             q == queue
             view == shown
  <2>5. ASSUME crashes = 0 PROVE ~HasCmd(out \o more, "HangUp") /\ Telling(out \o more, box, view, r)
    <3>1. ~HasCmd(out, "HangUp") /\ Telling(out, box, view, q)
      BY <2>4, <2>5 DEF Told
    <3>2. ~HasCmd(more, "HangUp")
      BY <2>1, <2>4, NoHangUp
    <3>3. ~HasCmd(out \o more, "HangUp")
      BY <1>1, <3>1, <3>2, HasConcat
    <3>4. NewestIs(more, QueueStatus(r)) /\ (StatusAt(more) = {} => r = q)
      BY <2>3, <2>4, <2>r DEF Speaks
    <3>5. Telling(out \o more, box, view, r)
      BY <1>1, <3>1, <3>4, TellingSpoken
    <3> QED BY <3>3, <3>5
  <2> QED BY <2>1, <2>2, <2>4, <2>r, <2>5 DEF Told
<1>5. CASE EngineCrash
  <2>1. table' = table /\ crashes' # 0
    BY <1>1, <1>5 DEF EngineCrash, ipcdVars
  <2> QED BY <2>1 DEF Told
<1>6. CASE Ipcd(IpcdExecute)
  <2>1. /\ up' = up /\ table'[c].bound = table[c].bound
        /\ down'[c] = down[c] \/ down'[c] = down[c] \o Replies(table', c)
    BY <1>0, <1>6, Executed
  <2>2. UNCHANGED <<shown, queue, crashes>>
    BY <1>6 DEF Ipcd, commitVars, mgmtdVars
  <2>3. table' \in [Peers -> Route] /\ ipcdEv \in Seq(IpcdEvent)
    <3>1. FleetTypes'
      BY <1>6, Executed
    <3> QED BY <3>1 DEF FleetTypes, FleetTypeOK, WireOK, Route
  <2>4. PICK more \in Seq(Frame) : more = Replies(table', c) /\ StatusAt(more) = {}
    <3>1. /\ Replies(table', c) \in Seq(Frame)
          /\ \A n \in DOMAIN Replies(table', c) : \/ Replies(table', c)[n].cmd = "ServerHello"
                                                  \/ Replies(table', c)[n].cmd = "SyncResponse"
      BY <1>0, <2>3, ReplyFacts
    <3> QED BY <3>1 DEF StatusAt
  <2>5. CASE down'[c] = down[c]
    BY <1>3, <2>1, <2>2, <2>5
  <2>6. CASE down'[c] = down[c] \o more
    <3>1. Telling(up[e], down[c], shown, queue) => Telling(up[e], down[c] \o more, shown, queue)
      BY <1>1, <2>4, TellingOther
    <3> QED BY <2>1, <2>2, <2>6, <3>1 DEF Told
  <2> QED BY <2>1, <2>4, <2>5, <2>6
<1>7. CASE Ipcd(IpcdIngress(e))
  <2>1. PICK m : m = Head(up[e])
    OBVIOUS
  <2>2. /\ up[e] # <<>> /\ up'[e] = Tail(up[e]) /\ m \in SentBy(e) /\ table'[c] = table[c]
    BY ZenonT(40), <1>0, <1>7, <2>1, FrameRead
  <2>3. UNCHANGED <<shown, queue, crashes>>
    BY <1>7 DEF Ipcd, commitVars, mgmtdVars
  <2>4. m \in Frame /\ <<m>> \in Seq(Frame) /\ <<>> \in Seq(Frame)
    <3>1. m \in Frame
      BY <1>0, <2>2, Senders
    <3> QED BY <3>1
  <2>5. PICK more \in Seq(Frame) :
          /\ down'[c] = down[c] \o more
          /\ m.cmd = "SettingsCommitStatus" => more = <<m>>
          /\ m.cmd # "SettingsCommitStatus" => StatusAt(more) = {}
    <3>1. CASE m.cmd = "SettingsCommitStatus"
      <4>1. ~IsOwn(m) /\ c \in Destinations(e, m)
        BY <3>1 DEF IsOwn, Destinations
      <4>2. Reachable(table', c)
        BY <1>2, <2>2 DEF Reachable, Told
      <4>3. down'[c] = down[c] \o <<m>>
        BY <1>0, <1>7, <2>1, <4>1, <4>2, Relayed
      <4> QED BY <2>4, <3>1, <4>3
    <3>2. CASE m.cmd # "SettingsCommitStatus"
      <4>1. down'[c] = down[c] \/ down'[c] = down[c] \o <<m>>
        <5>1. CASE IsOwn(m)
          BY <1>0, <1>7, <2>1, <5>1, FrameRead
        <5>2. CASE ~IsOwn(m)
          BY <1>0, <1>7, <2>1, <5>2, Relayed
        <5> QED BY <5>1, <5>2
      <4>2. down[c] = down[c] \o <<>>
        BY <1>1
      <4>3. StatusAt(<<>>) = {} /\ StatusAt(<<m>>) = {}
        BY <3>2, NewestOne DEF StatusAt
      <4> QED BY <2>4, <3>2, <4>1, <4>2, <4>3
    <3> QED BY <3>1, <3>2
  <2>6. ASSUME crashes = 0
        PROVE  /\ ~HasCmd(Tail(up[e]), "HangUp")
               /\ Telling(Tail(up[e]), down[c] \o more, shown, queue)
    <3>1. ~HasCmd(up[e], "HangUp") /\ Telling(up[e], down[c], shown, queue)
      BY <2>6 DEF Told
    <3>2. ~HasCmd(Tail(up[e]), "HangUp")
      BY <1>1, <2>2, <3>1, HasTail
    <3>3. Telling(Tail(up[e]), down[c] \o more, shown, queue)
      BY <1>1, <2>1, <2>2, <2>5, <3>1, TellingRelayed
    <3> QED BY <3>2, <3>3
  <2> QED BY <2>2, <2>3, <2>5, <2>6 DEF Told
<1>8. CASE Ipcd(IpcdHangUp(e))
  <2>1. /\ up[e] # <<>> /\ Head(up[e]) = HangUp /\ table'[c] = table[c]
    BY <1>0, <1>8, HangUpSeen
  <2>2. crashes' = crashes
    BY <1>8 DEF Ipcd
  <2>3. HasCmd(up[e], "HangUp")
    BY <1>1, <2>1 DEF HasCmd, HangUp
  <2> QED BY <2>1, <2>2, <2>3 DEF Told
<1>9. ~Ipcd(IpcdHangUp(c))
  BY <1>2 DEF Ipcd, IpcdHangUp
<1>10. CASE Ipcd(IpcdIngress(c))
  <2>1. PICK m : m = Head(up[c])
    OBVIOUS
  <2>2. m \in MgmtdMsg /\ up'[e] = up[e] /\ table'[c].bound
    <3>1. m \in SentBy(c)
      BY <1>0, <1>10, <2>1, FrameRead
    <3>2. up'[e] = up[e]
      <4>1. UpOK /\ up[c] # <<>> /\ up' = [up EXCEPT ![c] = Tail(@)]
        BY <1>10 DEF Ipcd, IpcdIngress, FleetTypes, WireOK
      <4> QED BY <1>0, <4>1, Reading
    <3>3. table'[c].bound
      BY <1>0, <1>10, FrameRead
    <3> QED BY <3>1, <3>2, <3>3, Senders
  <2>3. ~IsOwn(m) /\ c \notin Destinations(c, m)
    BY <2>2, Commands DEF IsOwn, Destinations
  <2>4. down'[c] = down[c]
    BY <1>0, <1>10, <2>1, <2>3, Relayed
  <2>5. UNCHANGED <<shown, queue, crashes>>
    BY <1>10 DEF Ipcd, commitVars, mgmtdVars
  <2> QED BY <1>3, <2>2, <2>4, <2>5 DEF Told
<1>11. ASSUME NEW d \in Daemons, Ipcd(IpcdIngress(d)) \/ Ipcd(IpcdHangUp(d)) PROVE Goal
  <2>1. table'[c] = table[c] /\ up'[e] = up[e]
    BY <1>0, <1>11, FrameRead, HangUpSeen
  <2>2. UNCHANGED down
    BY <1>11, OwnFrames DEF Ipcd, IpcdHangUp
  <2>3. UNCHANGED <<shown, queue, crashes>>
    BY <1>11 DEF Ipcd, commitVars, mgmtdVars
  <2> QED BY <1>3, <2>1, <2>2, <2>3
<1>12. CASE Mgmtd(MgmtdCommit)
  BY <1>0, <1>3, <1>12, CommitSent
<1>13. CASE Mgmtd(MgmtdReceive)
  <2>1. /\ down[c] # <<>> /\ down'[c] = Tail(down[c])
        /\ \/ Head(down[c]).cmd # "SettingsCommitStatus" /\ UNCHANGED shown
           \/ Head(down[c]).cmd = "SettingsCommitStatus" /\ shown' = Head(down[c]).tasks
        /\ UNCHANGED <<up, table, queue, crashes>>
    BY <1>13, ConsoleRead
  <2>2. PICK next : next = shown'
    OBVIOUS
  <2>3. Telling(up[e], down[c], shown, queue) => Telling(up[e], Tail(down[c]), next, queue)
    BY <1>1, <2>1, <2>2, TellingShown
  <2> QED BY <2>1, <2>2, <2>3 DEF Told
<1>14. ASSUME NEW d \in Daemons, Daemon(Boot(d)) \/ Daemon(SendHello(d) \/ ResendReady(d)) \/ Daemon(Receive(d))
       PROVE  Goal
  <2>1. CASE Daemon(Boot(d))
    BY <1>3, <2>1, Booted
  <2>2. CASE Daemon(SendHello(d) \/ ResendReady(d))
    BY <1>0, <1>3, <2>2, DaemonSent
  <2>3. CASE Daemon(Receive(d))
    BY <1>0, <1>3, <2>3, DaemonRead
  <2> QED BY <1>14, <2>1, <2>2, <2>3
<1>15. ASSUME NEW d \in Daemons, Daemon(Reexec(d)) \/ Daemon(Crash(d)) PROVE Goal
  <2>1. /\ crashes' = crashes \/ crashes' = crashes + 1
        /\ UNCHANGED <<table, shown, queue>> /\ up'[e] = up[e] /\ down'[c] = down[c]
    BY <1>0, <1>15, Died
  <2>2. crashes' = 0 => crashes = 0
    BY <1>1, <2>1
  <2> QED BY <1>3, <2>1, <2>2
<1>16. CASE UNCHANGED fleetVars
  BY <1>3, <1>16, FleetStutters
<1> HIDE DEF Goal
<1>17. Peers = Daemons \cup {e, c}
  BY DEF Peers
<1> QED BY <1>4, <1>5, <1>6, <1>7, <1>8, <1>9, <1>10, <1>11, <1>12, <1>13, <1>14, <1>15, <1>16, <1>17,
          FleetCases

\* Once the status messages are delivered the console shows engined's queue, as long as engined
\* has not been restarted.
THEOREM ShownMatchesQueueAlways == FleetSpec => []ShownMatchesQueue
<1> DEFINE Inv0 == FleetTypes /\ Told
<1>1. FleetInit => Inv0
  <2> SUFFICES ASSUME FleetInit PROVE Inv0
    OBVIOUS
  <2>1. FleetTypes
    BY TypesStart
  <2>2. /\ table["mgmtd"].bound /\ up["engined"] = <<>> /\ down["mgmtd"] = <<>>
        /\ shown = <<>> /\ queue = <<>>
    BY PeersApart DEF FleetInit, Init, NoRoute
  <2>3. QueueStatus(<<>>).tasks = <<>>
    <3>1. QueueStatus(<<>>).tasks = [i \in DOMAIN <<>> |-> [id |-> <<>>[i].id, status |-> <<>>[i].status]]
      BY DEF QueueStatus
    <3>2. DOMAIN <<>> = {}
      OBVIOUS
    <3> QED BY <3>1, <3>2
  <2>4. Telling(<<>>, <<>>, <<>>, <<>>)
    BY <2>3 DEF Telling, NewestIs, StatusAt
  <2> QED BY <2>1, <2>2, <2>4 DEF Told, HasCmd
<1>2. Inv0 /\ [FleetNext]_fleetVars => Inv0'
  BY TypesStep, ToldStep
<1>3. Inv0 => ShownMatchesQueue
  <2> SUFFICES ASSUME Inv0, crashes = 0, ~InFlight("engined", "SettingsCommitStatus"),
                      \A i \in DOMAIN down["mgmtd"] : down["mgmtd"][i].cmd # "SettingsCommitStatus"
               PROVE  shown = QueueStatus(queue).tasks
    BY DEF ShownMatchesQueue
  <2>1. StatusAt(up["engined"]) = {} /\ StatusAt(down["mgmtd"]) = {}
    BY DEF InFlight, StatusAt
  <2> QED BY <2>1 DEF Told, Telling
<1> HIDE DEF Inv0
<1> QED BY <1>1, <1>2, <1>3, PTL DEF FleetSpec
(***************************************************************************)
(* The engine in the fleet                                                 *)
(***************************************************************************)
\* Everything proved of engined against an arbitrary environment holds against this one: each
\* commit has one driver, the queue stays in order and does not stall, the answer is not lost.
THEOREM EngineInFleet == FleetSpec => [](OneDriver /\ QueueInOrder /\ NoStall /\ AnswerPending)
<1> DEFINE Inv0 == FleetTypes /\ Inv
<1>1. FleetInit => Inv0
  BY TypesStart, InvInit DEF FleetInit
<1>2. Inv0 /\ [FleetNext]_fleetVars => Inv0'
  <2> SUFFICES ASSUME Inv0, [FleetNext]_fleetVars PROVE Inv0'
    OBVIOUS
  <2>1. FleetTypes' /\ TypeOK'
    BY TypesStep DEF FleetTypes, FleetTypeOK
  <2>2. CASE EngineTick
    <3>1. Next
      BY <2>2, EngineWrites DEF Next
    <3> QED BY <2>1, <3>1, InvNext
  <2>3. CASE EngineCrash
    <3>1. Next
      BY <2>3 DEF EngineCrash, Next
    <3> QED BY <2>1, <3>1, InvNext
  <2>4. CASE ~EngineTick /\ ~EngineCrash
    <3>1. UNCHANGED <<phase, eventQ, actionQ, bootVars, commitVars, owed>>
      <4>1. \A step : Ipcd(step) => UNCHANGED <<phase, eventQ, actionQ, bootVars, commitVars, owed>>
        BY DEF Ipcd
      <4>2. \A step : Mgmtd(step) => UNCHANGED <<phase, eventQ, actionQ, bootVars, commitVars, owed>>
        BY DEF Mgmtd
      <4>3. \A step : Daemon(step) => UNCHANGED <<phase, eventQ, actionQ, bootVars, commitVars, owed>>
        BY DEF Daemon
      <4>4. UNCHANGED fleetVars => UNCHANGED <<phase, eventQ, actionQ, bootVars, commitVars, owed>>
        BY DEF fleetVars, engineVars
      <4> QED BY <2>4, <4>1, <4>2, <4>3, <4>4, FleetCases, Zenon
    <3>2. UNCHANGED <<phase, eventQ, actionQ, isReload, queue, nextId, owed>>
      BY <3>1 DEF bootVars, commitVars
    <3> QED BY <2>1, <3>2 DEF Inv, LoopDrained, OneDriver, QueueInOrder, NoStall, AnswerPending
  <2> QED BY <2>2, <2>3, <2>4
<1>3. Inv0 => OneDriver /\ QueueInOrder /\ NoStall /\ AnswerPending
  BY DEF Inv
<1> HIDE DEF Inv0
<1> QED BY <1>1, <1>2, <1>3, PTL DEF FleetSpec
=============================================================================
