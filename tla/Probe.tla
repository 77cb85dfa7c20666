------------------------------- MODULE Probe --------------------------------
(***************************************************************************)
(* Reachability: engined asks probed for a sweep, probed pings the NGFW    *)
(* targets of its configuration and reports who answered, engined projects *)
(* the inventory and writes the statuses; collectord probes the SASE       *)
(* tenants through their API and reports beside it.                        *)
(*                                                                         *)
(* One tick of probed is the IPC poll, the ICMP poll, schedule and execute *)
(* (all queued events, then the queued actions).  Hosts answer a ping,     *)
(* late or never.  A document lists devices [oid, target].                 *)
(***************************************************************************)
EXTENDS Integers, Sequences, FiniteSets, SequencesExt

CONSTANTS Inventories,   \* the documents a daemon may load: [ngfw, sase]
          ExcludedIps,   \* probe.excluded_ips
          BatchSize, TxQueueLimit,
          MaxProbes, MaxProbeReloads, MaxIcmpFaults, MaxSaseCycles   \* bounds

\* A document lists finitely many devices.
ASSUME ProbeAssumption ==
  /\ BatchSize \in Nat \ {0} /\ TxQueueLimit \in Nat
  /\ \A doc \in Inventories : Len(doc.ngfw) \in Nat

VARIABLES
  prDoc, prState, prTargets, prNext, prAlive,  \* IcmpService: m_state, m_targets and their alive flags
  prPhase, prEvents, prActions,                \* probed's tick and its queues
  icmpOpen, icmpTx, echoes,                    \* the socket, m_txQueue, replies on their way
  probeRequests, probeResults,                 \* frames between engined and probed
  enDoc, enPending, ngfwRows, tenantRows,        \* ProbeService and its tables
  saseHeld, saseCalls, healthResults,          \* collectord: m_result, m_inFlight, frames
  reported,   \* the reports sent, with who had answered when the sweep ended
  lastReport, \* the addresses of the report engined applied last
  probeCount

probedVars == <<prDoc, prState, prTargets, prNext, prAlive, prPhase, prEvents, prActions>>
icmpVars   == <<icmpOpen, icmpTx, echoes>>
enVars     == <<enDoc, enPending, ngfwRows, tenantRows, lastReport>>
saseVars   == <<saseHeld, saseCalls, healthResults>>
frameVars  == <<probeRequests, probeResults, reported>>
probeVars  == <<probedVars, icmpVars, enVars, saseVars, frameVars, probeCount>>

ProbeCounted(what, bound) ==
  probeCount[what] < bound /\ probeCount' = [probeCount EXCEPT ![what] = @ + 1]

-----------------------------------------------------------------------------
(* probed.                                                                 *)

IcmpEvent(type, ip, seq) == [type |-> type, ip |-> ip, seq |-> seq]

\* An action, and who had answered when it was posted.
IcmpAction(type, alive) == [type |-> type, alive |-> alive]

\* probeExplicitTargets, without the excluded addresses and repeats
TargetsOf(doc) ==
  LET ips == [i \in 1 .. Len(doc.ngfw) |-> doc.ngfw[i].target]
      kept == {i \in 1 .. Len(ips) : /\ ips[i] # "" /\ ips[i] \notin ExcludedIps
                                     /\ \A j \in 1 .. i - 1 : ips[j] # ips[i]}
  IN  [k \in 1 .. Cardinality(kept) |-> ips[CHOOSE i \in kept : Cardinality({j \in kept : j < i}) = k - 1]]

HasExplicitTargets(doc) == \E i \in 1 .. Len(doc.ngfw) : doc.ngfw[i].target # ""

\* The IPC poll: a ProbeRequest becomes StartProbe.
PrPollIpc ==
  /\ prPhase = "ipc"
  /\ \E n \in 0 .. probeRequests :
       /\ probeRequests' = probeRequests - n
       /\ prEvents' = prEvents \o [i \in 1 .. n |-> IcmpEvent("StartProbe", "", 0)]
  /\ prPhase' = "icmp"
  /\ UNCHANGED <<prDoc, prState, prTargets, prNext, prAlive, prActions, icmpVars,
                 enVars, saseVars, probeResults, reported, probeCount>>

\* IcmpEngine::poll on an open socket: replies are taken, and the queue is
\* sent; a frame the kernel cannot route is dropped, an answered one echoes.
PrPollIcmp ==
  /\ prPhase = "icmp" /\ icmpOpen
  /\ \E taken \in SUBSET echoes, answered \in SUBSET ToSet(icmpTx) :
       /\ prEvents' = prEvents \o [i \in 1 .. Cardinality(taken) |-> SetToSeq(taken)[i]]
       /\ echoes' = (echoes \ taken) \cup answered
  /\ icmpTx' = <<>>
  /\ prPhase' = "schedule"
  /\ UNCHANGED <<icmpOpen, prDoc, prState, prTargets, prNext, prAlive, prActions,
                 enVars, saseVars, frameVars, probeCount>>

\* A socket error closes the connection and its queue; what arrives is lost.
IcmpFails ==
  /\ prPhase = "icmp" /\ icmpOpen /\ ProbeCounted("faults", MaxIcmpFaults)
  /\ icmpOpen' = FALSE /\ icmpTx' = <<>> /\ echoes' = {}
  /\ prPhase' = "schedule"
  /\ UNCHANGED <<prDoc, prState, prTargets, prNext, prAlive, prEvents, prActions,
                 enVars, saseVars, frameVars>>

\* IcmpEngine::poll on a closed socket: reopened when the backoff has passed.
IcmpReopens ==
  /\ prPhase = "icmp" /\ ~icmpOpen
  /\ icmpOpen' \in BOOLEAN
  /\ prPhase' = "schedule"
  /\ UNCHANGED <<icmpTx, echoes, prDoc, prState, prTargets, prNext, prAlive, prEvents, prActions,
                 enVars, saseVars, frameVars, probeCount>>

\* Fault: the last target is never counted as sent.
allProbeSentOff == prNext > Len(prTargets) + 1

allProbeSent == prNext > Len(prTargets)

\* IcmpService::schedule; batchDue and expired are what the clock says.
PrSchedule(batchDue, expired) ==
  /\ prPhase = "schedule" /\ prPhase' = "execute"
  /\ prEvents' = prEvents \o
       CASE prState = "Sending" /\ ~allProbeSent /\ batchDue -> <<IcmpEvent("SendProbeBatch", "", 0)>>
         [] prState = "WaitingReplies" /\ expired -> <<IcmpEvent("ProbeCompleted", "", 0)>>
         [] OTHER -> <<>>
  /\ prState' = IF prState = "Sending" /\ allProbeSent THEN "WaitingReplies" ELSE prState
  /\ UNCHANGED <<prDoc, prTargets, prNext, prAlive, prActions, icmpVars, enVars, saseVars,
                 frameVars, probeCount>>

\* onEchoReply: the reply of a known target with its sequence, while one is
\* wanted.  The identifier is the process's own and the same in every sweep.
TakesReply(e) ==
  /\ prState \in {"Sending", "WaitingReplies"}
  /\ \E i \in 1 .. Len(prTargets) : prTargets[i] = e.ip /\ i = e.seq

\* handleEvent; completeProbeSession and onEchoReply act at once, the rest posts
\* an action.
PrEvent ==
  /\ prPhase = "execute" /\ prEvents # <<>>
  /\ LET e == Head(prEvents)
     IN  /\ prAlive' = IF e.type = "EchoReply" /\ TakesReply(e) THEN prAlive \cup {e.ip} ELSE prAlive
         /\ prState' = IF e.type = "ProbeCompleted" /\ prState = "WaitingReplies" THEN "Idle" ELSE prState
         /\ prActions' = prActions \o CASE e.type = "EchoReply" -> <<>>
                                        [] e.type = "ProbeCompleted" -> <<IcmpAction("SendProbeResult", prAlive)>>
                                        [] OTHER -> <<IcmpAction(e.type, {})>>
  /\ prEvents' = Tail(prEvents)
  /\ UNCHANGED <<prDoc, prTargets, prNext, prPhase, icmpVars, enVars, saseVars, frameVars, probeCount>>

beginProbeSession ==
  /\ prTargets' = TargetsOf(prDoc) /\ prAlive' = {} /\ prNext' = 1
  /\ prState' = IF HasExplicitTargets(prDoc) THEN "Sending" ELSE "Idle"

\* handleAction, StartProbe: skipped while a sweep runs; with nothing to ping
\* the result follows at once.
StartProbe ==
  \/ /\ prState = "Idle"
     /\ beginProbeSession
     /\ prActions' = Tail(prActions) \o
                     IF TargetsOf(prDoc) = <<>> THEN <<IcmpAction("SendProbeResult", {})>> ELSE <<>>
  \/ /\ prState # "Idle"
     /\ prActions' = Tail(prActions)
     /\ UNCHANGED <<prTargets, prAlive, prNext, prState>>

\* sendProbeBatch: a full or closed queue drops the packet.
sendProbeBatch ==
  LET last == IF prNext + BatchSize - 1 < Len(prTargets) THEN prNext + BatchSize - 1 ELSE Len(prTargets)
      batch == [k \in 1 .. last - prNext + 1 |->
                  IcmpEvent("EchoReply", prTargets[prNext + k - 1], prNext + k - 1)]
      room == TxQueueLimit - Len(icmpTx)
  IN  /\ prNext' = last + 1
      /\ icmpTx' = IF icmpOpen THEN icmpTx \o SubSeq(batch, 1, IF Len(batch) < room THEN Len(batch) ELSE room)
                   ELSE icmpTx

\* handleAction, once the event queue is empty
PrAction ==
  /\ prPhase = "execute" /\ prEvents = <<>> /\ prActions # <<>>
  /\ CASE Head(prActions).type = "StartProbe" -> StartProbe /\ UNCHANGED <<icmpTx, probeResults, reported>>
       [] Head(prActions).type = "SendProbeBatch" ->
            /\ IF prState = "Sending" THEN sendProbeBatch ELSE UNCHANGED <<prNext, icmpTx>>
            /\ prActions' = Tail(prActions)
            /\ UNCHANGED <<prTargets, prAlive, prState, probeResults, reported>>
       [] Head(prActions).type = "SendProbeResult" ->
            /\ probeResults' = Append(probeResults, prAlive)
            /\ reported' = reported \cup {[ips |-> prAlive, alive |-> Head(prActions).alive]}
            /\ prActions' = Tail(prActions)
            /\ UNCHANGED <<prTargets, prAlive, prNext, prState, icmpTx>>
  /\ UNCHANGED <<prDoc, prPhase, prEvents, icmpOpen, echoes, probeRequests, enVars, saseVars, probeCount>>

PrIdle ==
  /\ prPhase = "execute" /\ prEvents = <<>> /\ prActions = <<>> /\ prPhase' = "ipc"
  /\ UNCHANGED <<prDoc, prState, prTargets, prNext, prAlive, prEvents, prActions, icmpVars,
                 enVars, saseVars, frameVars, probeCount>>

\* probed reloads: a new core with another document, Idle and empty queues;
\* the same process, so a reply still on its way is not told apart.
PrReload(doc) ==
  /\ ProbeCounted("reloads", MaxProbeReloads)
  /\ prDoc' = doc /\ prState' = "Idle" /\ prTargets' = <<>> /\ prNext' = 1 /\ prAlive' = {}
  /\ prPhase' = "ipc" /\ prEvents' = <<>> /\ prActions' = <<>>
  /\ icmpOpen' = TRUE /\ icmpTx' = <<>> /\ probeRequests' = 0
  /\ UNCHANGED <<echoes, enVars, saseVars, probeResults, reported>>

-----------------------------------------------------------------------------
(* engined.                                                                *)

\* ProbeService::schedule and sendProbeRequest.  An engined that restarts, or gave
\* up waiting, asks again whatever the sweep in probed is at.
SendProbeRequest ==
  /\ ~enPending /\ ProbeCounted("requests", MaxProbes)
  /\ enPending' = TRUE /\ probeRequests' = probeRequests + 1
  /\ UNCHANGED <<probedVars, icmpVars, enDoc, ngfwRows, tenantRows, lastReport, saseVars, probeResults, reported>>

\* schedule, when the result has not come in time
ProbeTimeout ==
  /\ enPending /\ enPending' = FALSE
  /\ UNCHANGED <<probedVars, icmpVars, enDoc, ngfwRows, tenantRows, lastReport, saseVars, frameVars, probeCount>>

OidsOf(list) == {list[i].oid : i \in 1 .. Len(list)}
Listed(list, oid) == list[CHOOSE i \in 1 .. Len(list) : list[i].oid = oid]

\* projectInventory of one table: rows the document lists, with its target and
\* the status they had; the others go.
projectInventory(rows, list) ==
  [oid \in OidsOf(list) |-> [target |-> Listed(list, oid).target,
                             status |-> IF oid \in DOMAIN rows THEN rows[oid].status ELSE "unknown"]]

Reflect(rows, ips) ==
  [oid \in DOMAIN rows |-> [rows[oid] EXCEPT !.status = IF rows[oid].target \in ips THEN "active" ELSE "down"]]

ApplyReport(ips) == ngfwRows' = Reflect(projectInventory(ngfwRows, enDoc.ngfw), ips)

\* onProbeResult
OnProbeResult ==
  /\ probeResults # <<>>
  /\ probeResults' = Tail(probeResults)
  /\ enPending' = FALSE
  /\ ApplyReport(Head(probeResults))
  /\ tenantRows' = projectInventory(tenantRows, enDoc.sase)
  /\ lastReport' = Head(probeResults)
  /\ UNCHANGED <<probedVars, icmpVars, enDoc, saseVars, probeRequests, reported, probeCount>>

\* onSaseHealthResult: only the listed targets are touched
OnSaseHealthResult ==
  /\ healthResults # <<>>
  /\ healthResults' = Tail(healthResults)
  /\ LET h == Head(healthResults)
     IN  tenantRows' = [oid \in DOMAIN tenantRows |->
           [tenantRows[oid] EXCEPT !.status = CASE tenantRows[oid].target \in h.down -> "down"
                                              [] tenantRows[oid].target \in h.alive -> "active"
                                              [] OTHER -> @]]
  /\ UNCHANGED <<probedVars, icmpVars, enDoc, enPending, ngfwRows, lastReport, saseHeld, saseCalls, frameVars,
                 probeCount>>

\* engined reloads: start clears m_pending; the tables stay, its frames do not.
EnReload(doc) ==
  /\ ProbeCounted("reloads", MaxProbeReloads)
  /\ enDoc' = doc /\ enPending' = FALSE /\ probeResults' = <<>> /\ healthResults' = <<>>
  /\ UNCHANGED <<probedVars, icmpVars, ngfwRows, tenantRows, lastReport, saseHeld, saseCalls, probeRequests, reported>>

-----------------------------------------------------------------------------
(* collectord's StatusController.                                          *)

HeldWith(t, v) == [x \in DOMAIN saseHeld \cup {t} |-> IF x = t THEN v ELSE saseHeld[x]]

\* Fault: a probe that still runs does not keep the next one back.
ProbeAgain(t) == TRUE

\* m_inFlight of a target
MayProbe(t) == ~\E c \in saseCalls : c.target = t

\* tick: the outcomes so far are reported, then the tenants probed again.
SaseTick ==
  /\ ProbeCounted("cycles", MaxSaseCycles)
  /\ healthResults' = Append(healthResults,
       [alive |-> {t \in DOMAIN saseHeld : saseHeld[t].ok}, down |-> {t \in DOMAIN saseHeld : ~saseHeld[t].ok}])
  /\ saseCalls' = saseCalls \cup {[target |-> t, n |-> probeCount.cycles + 1] :
                       t \in {x \in {enDoc.sase[i].target : i \in 1 .. Len(enDoc.sase)} : MayProbe(x)}}
  /\ UNCHANGED <<probedVars, icmpVars, enVars, saseHeld, frameVars>>

\* the response: a 200 with "success", or anything else
SaseDone(c, ok) ==
  /\ c \in saseCalls
  /\ saseCalls' = saseCalls \ {c}
  /\ saseHeld' = HeldWith(c.target, [ok |-> ok, n |-> c.n])
  /\ UNCHANGED <<probedVars, icmpVars, enVars, healthResults, frameVars, probeCount>>

ProbeInit ==
  /\ prDoc \in Inventories /\ enDoc = prDoc
  /\ prState = "Idle" /\ prTargets = <<>> /\ prNext = 1 /\ prAlive = {}
  /\ prPhase = "ipc" /\ prEvents = <<>> /\ prActions = <<>>
  /\ icmpOpen = TRUE /\ icmpTx = <<>> /\ echoes = {}
  /\ probeRequests = 0 /\ probeResults = <<>> /\ reported = {}
  /\ enPending = FALSE /\ ngfwRows = <<>> /\ lastReport = {}
  /\ tenantRows \in {<<>>, projectInventory(<<>>, enDoc.sase)}   \* from an earlier life of engined
  /\ saseHeld = <<>> /\ saseCalls = {} /\ healthResults = <<>>
  /\ probeCount = [requests |-> 0, reloads |-> 0, faults |-> 0, cycles |-> 0]

PrExpires == PrSchedule(TRUE, TRUE)
PrTick == PrPollIpc \/ PrPollIcmp \/ IcmpReopens \/ (\E b, x \in BOOLEAN : PrSchedule(b, x))
          \/ PrEvent \/ PrAction \/ PrIdle

SweepNext == PrTick \/ IcmpFails \/ SendProbeRequest \/ ProbeTimeout \/ OnProbeResult
             \/ \E doc \in Inventories : PrReload(doc) \/ EnReload(doc)

\* The tenants are probed beside the sweeps and share only the tables with them.
SaseNext == SaseTick \/ OnSaseHealthResult
            \/ (\E c \in saseCalls, ok \in BOOLEAN : SaseDone(c, ok))

ProbeNext == SweepNext \/ SaseNext
ProbeSpec == ProbeInit /\ [][ProbeNext]_probeVars

-----------------------------------------------------------------------------
\* "reflect reachability into status" (ProbeService.cpp:137): a report lists who
\* answered in the sweep it ends.  It fails: a request that arrives in the tick the
\* sweep ends is no longer kept back, and clears the targets before the report is
\* built (IcmpService.cpp:216-222, 265, 467-476).
ReportIsSweep == \A r \in reported : r.ips = r.alive

\* A report lists everybody who answered in the sweep it ends, or, in that tick,
\* nobody: never a part of a sweep, and never the answers of another one.
WholeSweepOrNone == \A r \in reported : r.ips = r.alive \/ r.ips = {}

\* After a report every row is active or down by the address it now has, also
\* for devices that came, went or moved since the report before.
StatusMatchesReport ==
  \A oid \in DOMAIN ngfwRows : ngfwRows[oid].status = IF ngfwRows[oid].target \in lastReport THEN "active" ELSE "down"

\* An answer that comes late cannot replace the outcome of a later probe.
NewestOutcomeHeld == \A c \in saseCalls : c.target \in DOMAIN saseHeld => saseHeld[c.target].n < c.n

\* What the console shows as reachable: the sweeps and the tenants' probes together.
StatusSound == WholeSweepOrNone /\ StatusMatchesReport /\ NewestOutcomeHeld

\* A sweep that begins ends, whoever answers and whatever the socket does.
SweepEnds == (prState = "Sending") ~> (prState = "Idle")
=============================================================================
