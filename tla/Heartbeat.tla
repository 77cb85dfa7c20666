----------------------------- MODULE Heartbeat ------------------------------
(***************************************************************************)
(* engined's heartbeat rounds: a request to every target, the answers,     *)
(* the timeout that closes a round, and the result mgmtd shows.            *)
(*                                                                         *)
(* One tick of engined is poll (frames become queued events), schedule     *)
(* (which may close a round or open one) and execute (queued events, each  *)
(* one step).  Daemons answer, or restart and forget their requests, at    *)
(* any time.  A frame carries no round number.  Time is abstract: a round  *)
(* may time out, and the next one may be due, at any schedule.             *)
(***************************************************************************)
EXTENDS Integers, Sequences, FiniteSets

CONSTANTS Targets,      \* the daemons asked
          MaxRounds,    \* bound: rounds started
          MaxHbRestarts \* bound: restarts of engined

ASSUME HbAssumption == IsFiniteSet(Targets) /\ Targets # {} /\ MaxRounds \in Nat /\ MaxHbRestarts \in Nat

VARIABLES
  pending, alive,  \* the targets whose DaemonEntry has that flag
  roundActive, pendingCount,  \* m_roundActive, m_pendingCount
  hbPhase,         \* where engined's tick is
  hbEvents,        \* engined's event queue, the heartbeat events of it
  hbInbox,         \* answers on their way to engined, by source
  asked,           \* requests on their way, by target
  hbShown,         \* mgmtd's m_latestJson: the targets shown alive
  hbToMgmtd,       \* results on their way to mgmtd
  rounds, answered, hbResults, hbRestarts,  \* counts of what happened
  aliveResults     \* how many results listed a target alive

hbVars == <<pending, alive, roundActive, pendingCount, hbPhase, hbEvents, hbInbox, asked,
            hbShown, hbToMgmtd, rounds, answered, hbResults, hbRestarts, aliveResults>>

roundVars == <<pending, alive, roundActive, pendingCount>>
wireVars  == <<hbInbox, asked, hbShown, hbToMgmtd>>
tallyVars == <<rounds, answered, hbResults, hbRestarts, aliveResults>>

\* HeartbeatEvent; the source is the frame's, of an answer only
HbEvent(type, d) == [type |-> type, src |-> d]
HbRequests == HbEvent("requests", "engined")
HbResult == HbEvent("result", "engined")
HbEvents == {HbRequests, HbResult} \cup {HbEvent("response", d) : d \in Targets}

HbInit ==
  /\ pending = {} /\ alive = {} /\ roundActive = FALSE /\ pendingCount = 0
  /\ hbPhase = "poll" /\ hbEvents = <<>> /\ hbInbox = <<>>
  /\ asked = [d \in Targets |-> 0]
  /\ hbShown = {} /\ hbToMgmtd = <<>>
  /\ rounds = 0 /\ hbResults = 0 /\ hbRestarts = 0
  /\ answered = [d \in Targets |-> 0] /\ aliveResults = [d \in Targets |-> 0]

-----------------------------------------------------------------------------
(* engined.                                                                *)

\* The poll of a tick: some of the answers that are there become events.
HbPoll ==
  /\ hbPhase = "poll"
  /\ \E n \in 0 .. Len(hbInbox) :
       /\ hbEvents' = hbEvents \o [i \in 1 .. n |-> HbEvent("response", hbInbox[i])]
       /\ hbInbox' = SubSeq(hbInbox, n + 1, Len(hbInbox))
  /\ hbPhase' = "schedule"
  /\ UNCHANGED <<roundVars, asked, hbShown, hbToMgmtd, tallyVars>>

\* Fault: a round that times out leaves its silent daemons pending.
markTimeoutsAsDeadKeeps == pending' = pending /\ alive' = alive \ pending

\* markTimeoutsAsDead
markTimeoutsAsDead == pending' = {} /\ alive' = alive \ pending

\* Fault: a round that times out is closed without its result.
RoundTimeoutSilent ==
  /\ hbPhase = "schedule" /\ roundActive
  /\ markTimeoutsAsDead
  /\ roundActive' = FALSE /\ pendingCount' = 0
  /\ hbPhase' = "execute"
  /\ UNCHANGED <<hbEvents, wireVars, tallyVars>>

\* schedule, when responseTimeout has passed since the round started
RoundTimeout ==
  /\ hbPhase = "schedule" /\ roundActive
  /\ markTimeoutsAsDead
  /\ roundActive' = FALSE /\ pendingCount' = 0
  /\ hbEvents' = Append(hbEvents, HbResult)
  /\ hbPhase' = "execute"
  /\ UNCHANGED <<wireVars, tallyVars>>

\* schedule, when pollInterval has passed since the last poll
RoundDue ==
  /\ hbPhase = "schedule" /\ ~roundActive /\ rounds < MaxRounds
  /\ hbEvents' = Append(hbEvents, HbRequests)
  /\ hbPhase' = "execute"
  /\ UNCHANGED <<roundVars, wireVars, tallyVars>>

NothingDue ==
  /\ hbPhase = "schedule"
  /\ hbPhase' = "execute"
  /\ UNCHANGED <<roundVars, hbEvents, wireVars, tallyVars>>

\* handleEvent, SendHeartbeatRequests: every entry is reset
SendRequests ==
  /\ roundActive' = TRUE /\ pending' = Targets /\ alive' = {}
  /\ pendingCount' = Cardinality(Targets)

OnRequests ==
  /\ hbPhase = "execute" /\ hbEvents # <<>> /\ Head(hbEvents) = HbRequests
  /\ hbEvents' = Tail(hbEvents)
  /\ SendRequests
  /\ asked' = [d \in Targets |-> asked[d] + 1]
  /\ rounds' = rounds + 1
  /\ UNCHANGED <<hbPhase, hbInbox, hbShown, hbToMgmtd, answered, hbResults, hbRestarts, aliveResults>>

\* onHeartbeatResponse: an answer nobody waits for is dropped; the last one
\* closes the round and queues its result.
OnResponse(d) ==
  /\ hbPhase = "execute" /\ hbEvents # <<>> /\ Head(hbEvents) = HbEvent("response", d)
  /\ \/ /\ d \notin pending
        /\ hbEvents' = Tail(hbEvents)
        /\ UNCHANGED roundVars
     \/ /\ d \in pending
        /\ pending' = pending \ {d} /\ alive' = alive \cup {d}
        /\ IF pendingCount - 1 <= 0
           THEN /\ roundActive' = FALSE /\ pendingCount' = 0
                /\ hbEvents' = Append(Tail(hbEvents), HbResult)
           ELSE /\ pendingCount' = pendingCount - 1
                /\ hbEvents' = Tail(hbEvents)
                /\ UNCHANGED roundActive
  /\ UNCHANGED <<hbPhase, wireVars, tallyVars>>

\* handleEvent, SendHeartbeatResult; buildResultJson reads alive
OnResult ==
  /\ hbPhase = "execute" /\ hbEvents # <<>> /\ Head(hbEvents) = HbResult
  /\ hbEvents' = Tail(hbEvents)
  /\ hbToMgmtd' = Append(hbToMgmtd, alive)
  /\ hbResults' = hbResults + 1
  /\ aliveResults' = [d \in Targets |-> aliveResults[d] + IF d \in alive THEN 1 ELSE 0]
  /\ UNCHANGED <<roundVars, hbPhase, hbInbox, asked, hbShown, rounds, answered, hbRestarts>>

HbIdle ==
  /\ hbPhase = "execute" /\ hbEvents = <<>>
  /\ hbPhase' = "poll"
  /\ UNCHANGED <<roundVars, hbEvents, wireVars, tallyVars>>

\* engined starts again: its entries, its queue and what its socket held are
\* gone; what the daemons still send reaches the new process.
HbRestart ==
  /\ hbRestarts < MaxHbRestarts
  /\ hbRestarts' = hbRestarts + 1
  /\ pending' = {} /\ alive' = {} /\ roundActive' = FALSE /\ pendingCount' = 0
  /\ hbPhase' = "poll" /\ hbEvents' = <<>> /\ hbInbox' = <<>>
  /\ rounds' = hbResults
  /\ UNCHANGED <<asked, hbShown, hbToMgmtd, answered, hbResults, aliveResults>>

-----------------------------------------------------------------------------
(* The daemons asked, and mgmtd.                                           *)

\* handleEvent and handleAction of a daemon's HeartbeatService
DaemonAnswers(d) ==
  /\ asked[d] > 0
  /\ asked' = [asked EXCEPT ![d] = @ - 1]
  /\ hbInbox' = Append(hbInbox, d)
  /\ answered' = [answered EXCEPT ![d] = @ + 1]
  /\ UNCHANGED <<roundVars, hbPhase, hbEvents, hbShown, hbToMgmtd, rounds, hbResults, hbRestarts, aliveResults>>

\* ipcd has no connection of the daemon, or the daemon restarts
DaemonLoses(d) ==
  /\ asked[d] > 0
  /\ asked' = [asked EXCEPT ![d] = 0]
  /\ UNCHANGED <<roundVars, hbPhase, hbEvents, hbInbox, hbShown, hbToMgmtd, tallyVars>>

\* mgmtd's handleEvent, ReceiveHeartbeatResult
ShowResult ==
  /\ hbToMgmtd # <<>>
  /\ hbShown' = Head(hbToMgmtd) /\ hbToMgmtd' = Tail(hbToMgmtd)
  /\ UNCHANGED <<roundVars, hbPhase, hbEvents, hbInbox, asked, tallyVars>>

EngineStep == HbPoll \/ RoundTimeout \/ RoundDue \/ NothingDue \/ OnRequests
              \/ (\E d \in Targets : OnResponse(d)) \/ OnResult \/ HbIdle

HbNext == EngineStep \/ HbRestart \/ ShowResult
          \/ \E d \in Targets : DaemonAnswers(d) \/ DaemonLoses(d)

HbSpec == HbInit /\ [][HbNext]_hbVars

-----------------------------------------------------------------------------
HbTypeOK ==
  /\ pending \subseteq Targets /\ alive \subseteq Targets
  /\ roundActive \in BOOLEAN /\ pendingCount \in Nat
  /\ hbPhase \in {"poll", "schedule", "execute"}
  /\ hbEvents \in Seq(HbEvents) /\ hbInbox \in Seq(Targets)
  /\ asked \in [Targets -> Nat] /\ answered \in [Targets -> Nat] /\ aliveResults \in [Targets -> Nat]
  /\ hbShown \subseteq Targets /\ hbToMgmtd \in Seq(SUBSET Targets)
  /\ rounds \in Nat /\ hbResults \in Nat /\ hbRestarts \in Nat

\* m_pendingCount is the number of entries still pending, whatever order late
\* answers, duplicates and timeouts come in; a closed round has none, so the
\* answers that come after it cannot close it a second time.
PendingCounted ==
  /\ pendingCount = Cardinality(pending)
  /\ roundActive <=> pending # {}

\* Every round that started ends in exactly one result: sent, queued behind
\* other events, or still to come because the round is open.
OneResultPerRound ==
  rounds = hbResults + Cardinality({i \in 1 .. Len(hbEvents) : hbEvents[i] = HbResult})
           + (IF roundActive THEN 1 ELSE 0)

\* An answer carries no round, so a late one makes its daemon alive in the
\* round after; but a daemon is never reported alive more often than it answered.
AliveWasAnswered == \A d \in Targets : aliveResults[d] <= answered[d]

\* The rounds as mgmtd sees them: one result each, and no daemon alive in more of them than
\* it answered, whichever rounds the answers fell into.
RoundsSound == OneResultPerRound /\ AliveWasAnswered

=============================================================================
