-------------------------- MODULE HeartbeatProofs ---------------------------
(***************************************************************************)
(* The heartbeat round counter, for every set of targets and every number  *)
(* of rounds; and the daemons that answer it: whatever is sent to one is   *)
(* in its factory's table and handled by a service, and the state machine  *)
(* each of them writes out by hand implements the handshake.               *)
(*                                                                         *)
(* The counter follows the pending entries.  A daemon's queues hold what   *)
(* its tables name (DmTypes), and its state is one the handshake can be in *)
(* given what it has sent and what is in its queues (BootInv).             *)
(***************************************************************************)
EXTENDS Heartbeat, Daemons, FiniteSetTheorems, SequenceTheorems, TLAPS

\* The inductive invariant: types, and the counter follows the entries.
HbInv == HbTypeOK /\ PendingCounted

\* Removing one pending entry: the counter goes down by one, and reaches zero exactly when no
\* entry is left (the test of onHeartbeatResponse).
LEMMA OneFewerPending ==
  ASSUME HbInv, NEW d \in pending
  PROVE  /\ Cardinality(pending \ {d}) = pendingCount - 1
         /\ pendingCount - 1 \in Nat
         /\ pendingCount - 1 <= 0 <=> pending \ {d} = {}
<1>1. IsFiniteSet(pending)
  BY HbAssumption, FS_Subset DEF HbInv, HbTypeOK
<1>2. IsFiniteSet(pending \ {d}) /\ Cardinality(pending \ {d}) = Cardinality(pending) - 1
  BY <1>1, FS_RemoveElement
<1>3. Cardinality(pending \ {d}) \in Nat
  BY <1>2, FS_CardinalityType
<1>4. Cardinality(pending \ {d}) = 0 <=> pending \ {d} = {}
  BY <1>2, FS_EmptySet
<1> QED
  BY <1>2, <1>3, <1>4 DEF HbInv, PendingCounted, HbTypeOK

\* engined starts with no round open and nothing pending.
LEMMA HbStart == HbInit => HbInv
<1> SUFFICES ASSUME HbInit PROVE HbInv
  OBVIOUS
<1>1. PendingCounted
  BY FS_EmptySet DEF HbInit, PendingCounted
<1>2. hbEvents \in Seq(HbEvents) /\ hbInbox \in Seq(Targets) /\ hbToMgmtd \in Seq(SUBSET Targets)
  BY DEF HbInit
<1>3. asked \in [Targets -> Nat] /\ answered \in [Targets -> Nat] /\ aliveResults \in [Targets -> Nat]
  BY DEF HbInit
<1>4. pendingCount \in Nat /\ rounds \in Nat /\ hbResults \in Nat /\ hbRestarts \in Nat
  BY DEF HbInit
<1>5. HbTypeOK
  BY <1>2, <1>3, <1>4, Zenon DEF HbInit, HbTypeOK
<1> QED
  BY <1>1, <1>5 DEF HbInv

\* The poll of a tick queues answers only.
LEMMA PollKeeps == HbInv /\ HbPoll => HbInv'
<1> SUFFICES ASSUME HbInv, HbPoll PROVE HbInv'
  OBVIOUS
<1>1. PICK n \in 0 .. Len(hbInbox) :
        /\ hbEvents' = hbEvents \o [i \in 1 .. n |-> HbEvent("response", hbInbox[i])]
        /\ hbInbox' = SubSeq(hbInbox, n + 1, Len(hbInbox))
  BY DEF HbPoll
<1>2. hbInbox \in Seq(Targets) /\ hbEvents \in Seq(HbEvents) /\ n \in Nat
  BY <1>1 DEF HbInv, HbTypeOK
<1>3. \A i \in 1 .. n : hbInbox[i] \in Targets
  BY <1>1, <1>2
<1>4. \A i \in 1 .. n : HbEvent("response", hbInbox[i]) \in HbEvents
  BY <1>3 DEF HbEvents
<1>5. [i \in 1 .. n |-> HbEvent("response", hbInbox[i])] \in Seq(HbEvents)
  BY <1>2, <1>4
<1>6. hbEvents' \in Seq(HbEvents)
  BY <1>1, <1>2, <1>5
<1>7. hbInbox' \in Seq(Targets)
  BY <1>1, <1>2
<1>8. HbTypeOK'
  BY <1>6, <1>7 DEF HbInv, HbTypeOK, HbPoll, roundVars, tallyVars
<1>9. PendingCounted'
  BY DEF HbInv, PendingCounted, HbPoll, roundVars
<1> QED
  BY <1>8, <1>9 DEF HbInv

\* schedule: a timeout empties the round it closes.
LEMMA ScheduleKeeps == HbInv /\ (RoundTimeout \/ RoundDue \/ NothingDue) => HbInv'
<1> SUFFICES ASSUME HbInv, RoundTimeout \/ RoundDue \/ NothingDue PROVE HbInv'
  OBVIOUS
<1>1. HbResult \in HbEvents /\ HbRequests \in HbEvents
  BY DEF HbEvents
<1>2. CASE RoundTimeout
  <2>1. PendingCounted'
    BY <1>2, FS_EmptySet DEF RoundTimeout, markTimeoutsAsDead, PendingCounted
  <2>2. hbEvents' \in Seq(HbEvents) /\ pendingCount' \in Nat
    BY <1>1, <1>2 DEF HbInv, HbTypeOK, RoundTimeout
  <2>3. pending' \subseteq Targets /\ alive' \subseteq Targets
    BY <1>2 DEF HbInv, HbTypeOK, RoundTimeout, markTimeoutsAsDead
  <2>4. HbTypeOK'
    BY <1>2, <2>2, <2>3, Zenon DEF HbInv, HbTypeOK, RoundTimeout, wireVars, tallyVars
  <2> QED
    BY <2>1, <2>4 DEF HbInv
<1>3. CASE RoundDue
  BY <1>1, <1>3 DEF HbInv, HbTypeOK, PendingCounted, RoundDue, roundVars, wireVars, tallyVars
<1>4. CASE NothingDue
  BY <1>4 DEF HbInv, HbTypeOK, PendingCounted, NothingDue, roundVars, wireVars, tallyVars
<1> QED
  BY <1>2, <1>3, <1>4

\* A new round waits for every target.
LEMMA RequestsKeep == HbInv /\ OnRequests => HbInv'
<1> SUFFICES ASSUME HbInv, OnRequests PROVE HbInv'
  OBVIOUS
<1>1. Cardinality(Targets) \in Nat
  BY HbAssumption, FS_CardinalityType
<1>2. PendingCounted'
  BY HbAssumption DEF OnRequests, SendRequests, PendingCounted
<1>3. hbEvents' \in Seq(HbEvents)
  BY DEF HbInv, HbTypeOK, OnRequests
<1>4. asked' \in [Targets -> Nat]
  BY DEF HbInv, HbTypeOK, OnRequests
<1>5. HbTypeOK'
  BY <1>1, <1>3, <1>4 DEF HbInv, HbTypeOK, OnRequests, SendRequests
<1> QED
  BY <1>2, <1>5 DEF HbInv

\* An answer, late or in time, first or second.
LEMMA ResponseKeeps == ASSUME HbInv, NEW d \in Targets, OnResponse(d) PROVE HbInv'
<1>1. HbResult \in HbEvents
  BY DEF HbEvents
<1>2. hbEvents \in Seq(HbEvents) /\ hbEvents # <<>>
  BY DEF HbInv, HbTypeOK, OnResponse
<1>3. Tail(hbEvents) \in Seq(HbEvents) /\ Append(Tail(hbEvents), HbResult) \in Seq(HbEvents)
  BY <1>1, <1>2
<1>4. CASE d \notin pending
  <2>1. hbEvents' = Tail(hbEvents) /\ UNCHANGED <<roundVars, hbPhase, wireVars, tallyVars>>
    BY <1>4 DEF OnResponse
  <2>2. HbTypeOK'
    BY <1>3, <2>1 DEF HbInv, HbTypeOK, roundVars, wireVars, tallyVars
  <2>3. PendingCounted'
    BY <2>1 DEF HbInv, PendingCounted, roundVars
  <2> QED
    BY <2>2, <2>3 DEF HbInv
<1>5. CASE d \in pending
  <2>1. /\ Cardinality(pending \ {d}) = pendingCount - 1
        /\ pendingCount - 1 \in Nat
        /\ pendingCount - 1 <= 0 <=> pending \ {d} = {}
    BY <1>5, OneFewerPending
  <2>2. pending' = pending \ {d}
    BY <1>5 DEF OnResponse
  <2>3. roundActive
    BY <1>5 DEF HbInv, PendingCounted
  <2>4. CASE pendingCount - 1 <= 0
    <3>1. pendingCount' = 0 /\ roundActive' = FALSE /\ hbEvents' = Append(Tail(hbEvents), HbResult)
      BY <1>5, <2>4 DEF OnResponse
    <3>2. PendingCounted'
      <4>1. pending' = {}
        BY <2>1, <2>2, <2>4
      <4> QED
        BY <3>1, <4>1, FS_EmptySet, Zenon DEF PendingCounted
    <3>3. HbTypeOK'
      BY <1>3, <1>5, <3>1 DEF HbInv, HbTypeOK, OnResponse, wireVars, tallyVars
    <3> QED
      BY <3>2, <3>3 DEF HbInv
  <2>5. CASE ~(pendingCount - 1 <= 0)
    <3>1. pendingCount' = pendingCount - 1 /\ roundActive' = roundActive /\ hbEvents' = Tail(hbEvents)
      BY <1>5, <2>5 DEF OnResponse
    <3>2. PendingCounted'
      BY <2>1, <2>2, <2>3, <2>5, <3>1 DEF PendingCounted
    <3>3. HbTypeOK'
      BY <1>3, <1>5, <2>1, <3>1 DEF HbInv, HbTypeOK, OnResponse, wireVars, tallyVars
    <3> QED
      BY <3>2, <3>3 DEF HbInv
  <2> QED
    BY <2>4, <2>5
<1> QED
  BY <1>4, <1>5

\* The result leaves the round alone, and so does the end of a tick.
LEMMA ResultKeeps == HbInv /\ (OnResult \/ HbIdle) => HbInv'
<1> SUFFICES ASSUME HbInv, OnResult \/ HbIdle PROVE HbInv'
  OBVIOUS
<1>1. CASE OnResult
  <2>1. hbToMgmtd' \in Seq(SUBSET Targets) /\ hbEvents' \in Seq(HbEvents)
    BY <1>1 DEF HbInv, HbTypeOK, OnResult
  <2>2. aliveResults' \in [Targets -> Nat]
    BY <1>1 DEF HbInv, HbTypeOK, OnResult
  <2> QED
    BY <1>1, <2>1, <2>2 DEF HbInv, HbTypeOK, PendingCounted, OnResult, roundVars
<1>2. CASE HbIdle
  BY <1>2 DEF HbInv, HbTypeOK, PendingCounted, HbIdle, roundVars, wireVars, tallyVars
<1> QED
  BY <1>1, <1>2

\* engined's restart forgets the round it was in.
LEMMA RestartKeeps == HbInv /\ HbRestart => HbInv'
<1> SUFFICES ASSUME HbInv, HbRestart PROVE HbInv'
  OBVIOUS
<1>1. PendingCounted'
  BY FS_EmptySet DEF HbRestart, PendingCounted
<1>2. hbEvents' \in Seq(HbEvents) /\ hbInbox' \in Seq(Targets)
  BY DEF HbRestart
<1>3. pendingCount' \in Nat /\ rounds' \in Nat /\ hbRestarts' \in Nat
  BY DEF HbInv, HbTypeOK, HbRestart
<1>4. HbTypeOK'
  BY <1>2, <1>3, Zenon DEF HbInv, HbTypeOK, HbRestart
<1> QED
  BY <1>1, <1>4 DEF HbInv

\* The daemons and mgmtd touch no entry of engined.
LEMMA OthersKeep ==
  ASSUME HbInv, ShowResult \/ \E d \in Targets : DaemonAnswers(d) \/ DaemonLoses(d)
  PROVE  HbInv'
<1>1. CASE ShowResult
  <2>1. Head(hbToMgmtd) \subseteq Targets /\ Tail(hbToMgmtd) \in Seq(SUBSET Targets)
    BY <1>1 DEF HbInv, HbTypeOK, ShowResult
  <2> QED
    BY <1>1, <2>1 DEF HbInv, HbTypeOK, PendingCounted, ShowResult, roundVars, tallyVars
<1>2. CASE \E d \in Targets : DaemonAnswers(d)
  <2>1. PICK d \in Targets : DaemonAnswers(d)
    BY <1>2
  <2>2. hbInbox' \in Seq(Targets)
    BY <2>1 DEF HbInv, HbTypeOK, DaemonAnswers
  <2>3. asked' \in [Targets -> Nat]
    BY <2>1 DEF HbInv, HbTypeOK, DaemonAnswers
  <2>4. answered' \in [Targets -> Nat]
    BY <2>1 DEF HbInv, HbTypeOK, DaemonAnswers
  <2> QED
    BY <2>1, <2>2, <2>3, <2>4 DEF HbInv, HbTypeOK, PendingCounted, DaemonAnswers, roundVars
<1>3. CASE \E d \in Targets : DaemonLoses(d)
  <2>1. PICK d \in Targets : DaemonLoses(d)
    BY <1>3
  <2>2. asked' \in [Targets -> Nat]
    BY <2>1 DEF HbInv, HbTypeOK, DaemonLoses
  <2> QED
    BY <2>1, <2>2 DEF HbInv, HbTypeOK, PendingCounted, DaemonLoses, roundVars, tallyVars
<1> QED
  BY <1>1, <1>2, <1>3

\* The invariant of engined's heartbeat service: well typed, and m_pendingCount is the number of
\* pending entries.
THEOREM HeartbeatInvariance == HbSpec => []HbInv
<1>1. HbInv /\ [HbNext]_hbVars => HbInv'
  <2> SUFFICES ASSUME HbInv, [HbNext]_hbVars PROVE HbInv'
    OBVIOUS
  <2>1. CASE EngineStep
    BY <2>1, PollKeeps, ScheduleKeeps, RequestsKeep, ResponseKeeps, ResultKeeps DEF EngineStep
  <2>2. CASE HbRestart
    BY <2>2, RestartKeeps
  <2>3. CASE ShowResult \/ \E d \in Targets : DaemonAnswers(d) \/ DaemonLoses(d)
    BY <2>3, OthersKeep
  <2>4. CASE UNCHANGED hbVars
    BY <2>4 DEF hbVars, HbInv, HbTypeOK, PendingCounted
  <2> QED
    BY <2>1, <2>2, <2>3, <2>4 DEF HbNext
<1> QED
  BY <1>1, HbStart, PTL DEF HbSpec

\* m_pendingCount counts the pending entries and a round is open exactly while there are some,
\* whatever late answers, duplicates, timeouts and restarts there were: no answer can close a
\* round twice, and no round stays open with nobody to wait for.
THEOREM PendingCountedAlways == HbSpec => []PendingCounted
<1>1. HbInv => PendingCounted
  BY DEF HbInv
<1> QED
  BY <1>1, HeartbeatInvariance, PTL

-----------------------------------------------------------------------------
(* Rounds and their results.                                               *)

\* How often e occurs in s.
Tally(s, e) == Cardinality({i \in 1 .. Len(s) : s[i] = e})

\* A tally is a number, and it is zero exactly when e does not occur.
LEMMA TallyType ==
  ASSUME NEW A, NEW s \in Seq(A), NEW e
  PROVE  /\ IsFiniteSet({i \in 1 .. Len(s) : s[i] = e})
         /\ Tally(s, e) \in Nat
         /\ Tally(s, e) = 0 <=> \A i \in 1 .. Len(s) : s[i] # e
<1>1. Len(s) \in Nat
  OBVIOUS
<1>2. IsFiniteSet(1 .. Len(s))
  BY <1>1, FS_Interval
<1>3. {i \in 1 .. Len(s) : s[i] = e} \in SUBSET (1 .. Len(s))
  OBVIOUS
<1>4. IsFiniteSet({i \in 1 .. Len(s) : s[i] = e})
  BY <1>2, <1>3, FS_Subset
<1>5. Tally(s, e) \in Nat
  BY <1>4, FS_CardinalityType DEF Tally
<1>6. Tally(s, e) = 0 <=> {i \in 1 .. Len(s) : s[i] = e} = {}
  BY <1>4, FS_EmptySet DEF Tally
<1> QED
  BY <1>4, <1>5, <1>6

\* Moving a finite set of positions does not change their number.
LEMMA Shifted ==
  ASSUME NEW S \in SUBSET Int, IsFiniteSet(S), NEW n \in Int
  PROVE  /\ IsFiniteSet({i + n : i \in S})
         /\ Cardinality({i + n : i \in S}) = Cardinality(S)
<1> DEFINE T == {i + n : i \in S}
           f == [i \in S |-> i + n]
<1>1. f \in [S -> T]
  OBVIOUS
<1>2. \A a, b \in S : f[a] = f[b] => a = b
  OBVIOUS
<1>3. \A t \in T : \E i \in S : f[i] = t
  OBVIOUS
<1>4. f \in Bijection(S, T)
  BY <1>1, <1>2, <1>3 DEF Bijection, Injection, Surjection, IsInjective
<1>5. ExistsBijection(S, T)
  BY <1>4 DEF ExistsBijection
<1> QED
  BY <1>5, FS_Bijection

\* The tally of a concatenation is the sum of the tallies.
LEMMA TallyConcat ==
  ASSUME NEW A, NEW s \in Seq(A), NEW t \in Seq(A), NEW e
  PROVE  Tally(s \o t, e) = Tally(s, e) + Tally(t, e)
<1> DEFINE P == {i \in 1 .. Len(s) : s[i] = e}
           Q == {i \in 1 .. Len(t) : t[i] = e}
           R == {i + Len(s) : i \in Q}
<1>1. IsFiniteSet(P) /\ IsFiniteSet(Q) /\ Cardinality(P) \in Nat /\ Cardinality(Q) \in Nat
  BY TallyType DEF Tally
<1>2. IsFiniteSet(R) /\ Cardinality(R) = Cardinality(Q)
  <2>1. Q \in SUBSET Int /\ Len(s) \in Int
    OBVIOUS
  <2> QED
    BY <1>1, <2>1, Shifted
<1>3. P \cap R = {}
  OBVIOUS
<1>4. {i \in 1 .. Len(s \o t) : (s \o t)[i] = e} = P \cup R
  <2>1. Len(s \o t) = Len(s) + Len(t) /\ Len(s) \in Nat /\ Len(t) \in Nat
    OBVIOUS
  <2>2. \A i \in 1 .. Len(s) : (s \o t)[i] = s[i]
    OBVIOUS
  <2>3. \A i \in 1 .. Len(t) : (s \o t)[i + Len(s)] = t[i]
    OBVIOUS
  <2>4. ASSUME NEW i \in 1 .. Len(s \o t), (s \o t)[i] = e
        PROVE  i \in P \cup R
    <3>1. CASE i <= Len(s)
      BY <2>1, <2>2, <2>4, <3>1
    <3>2. CASE i > Len(s)
      <4>1. i - Len(s) \in 1 .. Len(t) /\ (i - Len(s)) + Len(s) = i
        BY <2>1, <3>2
      <4>2. i - Len(s) \in Q
        BY <2>3, <2>4, <4>1
      <4> QED
        BY <4>1, <4>2
    <3> QED
      BY <2>1, <3>1, <3>2
  <2>5. ASSUME NEW i \in P PROVE i \in 1 .. Len(s \o t) /\ (s \o t)[i] = e
    BY <2>1, <2>2
  <2>6. ASSUME NEW i \in Q PROVE i + Len(s) \in 1 .. Len(s \o t) /\ (s \o t)[i + Len(s)] = e
    BY <2>1, <2>3
  <2> QED
    BY <2>4, <2>5, <2>6
<1>5. Cardinality(P \cup R) = Cardinality(P) + Cardinality(R)
  <2> HIDE DEF P, R
  <2>1. Cardinality(P \cup R) = Cardinality(P) + Cardinality(R) - Cardinality(P \cap R)
    BY <1>1, <1>2, FS_Union
  <2>2. Cardinality(P \cap R) = 0
    BY <1>3, FS_EmptySet
  <2> QED
    BY <1>1, <1>2, <2>1, <2>2
<1> QED
  BY <1>2, <1>4, <1>5 DEF Tally

\* One event more at the end of a queue, one fewer at its head.
LEMMA TallyQueue ==
  ASSUME NEW A, NEW s \in Seq(A), NEW x \in A, NEW e
  PROVE  /\ Tally(Append(s, x), e) = Tally(s, e) + (IF x = e THEN 1 ELSE 0)
         /\ s # <<>> => Tally(s, e) = Tally(Tail(s), e) + (IF Head(s) = e THEN 1 ELSE 0)
<1>1. ASSUME NEW y \in A PROVE Tally(<<y>>, e) = IF y = e THEN 1 ELSE 0
  <2>1. {i \in 1 .. Len(<<y>>) : <<y>>[i] = e} = IF y = e THEN {1} ELSE {}
    OBVIOUS
  <2> QED
    BY <2>1, FS_Singleton, FS_EmptySet DEF Tally
<1>2. Append(s, x) = s \o <<x>> /\ <<x>> \in Seq(A)
  OBVIOUS
<1>3. Tally(Append(s, x), e) = Tally(s, e) + (IF x = e THEN 1 ELSE 0)
  <2>1. Tally(s \o <<x>>, e) = Tally(s, e) + Tally(<<x>>, e)
    BY <1>2, TallyConcat, Zenon
  <2> QED
    BY <1>1, <1>2, <2>1
<1>4. ASSUME s # <<>>
      PROVE  Tally(s, e) = Tally(Tail(s), e) + (IF Head(s) = e THEN 1 ELSE 0)
  <2>1. Head(s) \in A /\ Tail(s) \in Seq(A) /\ <<Head(s)>> \in Seq(A) /\ s = <<Head(s)>> \o Tail(s)
    BY <1>4
  <2>2. Tally(<<Head(s)>> \o Tail(s), e) = Tally(<<Head(s)>>, e) + Tally(Tail(s), e)
    BY <2>1, TallyConcat, Zenon
  <2>3. Tally(Tail(s), e) \in Nat
    BY <2>1, TallyType
  <2>4. Tally(s, e) = Tally(<<Head(s)>> \o Tail(s), e)
    BY <2>1, Zenon
  <2>5. Tally(<<Head(s)>>, e) = IF Head(s) = e THEN 1 ELSE 0
    BY <1>1, <2>1
  <2> QED
    BY <2>2, <2>3, <2>4, <2>5
<1> QED
  BY <1>3, <1>4

\* Nothing occurs in an empty queue.
LEMMA TallyEmpty == \A e : Tally(<<>>, e) = 0
<1> SUFFICES ASSUME NEW e PROVE Tally(<<>>, e) = 0
  OBVIOUS
<1>1. {i \in 1 .. Len(<<>>) : <<>>[i] = e} = {}
  OBVIOUS
<1> QED
  BY <1>1, FS_EmptySet DEF Tally

\* Answers of d that engined has not handled: in its queue, or on their way to it.
Underway(d) == Tally(hbEvents, HbEvent("response", d)) + Tally(hbInbox, d)

\* A round that is open, or closed with its result still queued, will report d alive.
Owed(d) == IF d \in alive /\ rounds > hbResults THEN 1 ELSE 0

\* Between two ticks nothing is queued, and a poll queues answers only.
PhaseInv ==
  /\ hbPhase = "poll" => hbEvents = <<>>
  /\ hbPhase = "schedule" =>
       \A i \in 1 .. Len(hbEvents) : hbEvents[i] # HbResult /\ hbEvents[i] # HbRequests

\* A queued request is the only one, and meets no open round and no result: at most one round is
\* unreported.
RequestInv ==
  /\ rounds <= hbResults + 1
  /\ \A i \in 1 .. Len(hbEvents) : hbEvents[i] = HbRequests => rounds = hbResults
  /\ \A i, j \in 1 .. Len(hbEvents) :
       hbEvents[i] = HbRequests /\ hbEvents[j] = HbRequests => i = j

\* A round is reported, has its result queued, or is open.
ResultInv == rounds = hbResults + Tally(hbEvents, HbResult) + (IF roundActive THEN 1 ELSE 0)

\* Every time a daemon was or will be reported alive is paid for by an answer of its own.
AnswerInv == \A d \in Targets : aliveResults[d] + Owed(d) + Underway(d) <= answered[d]

\* The inductive invariant of the rounds.
RoundsInv == PhaseInv /\ RequestInv /\ ResultInv /\ AnswerInv

\* The kinds of events are told apart, and answers by their source.
LEMMA EventsDiffer ==
  /\ HbResult # HbRequests /\ HbResult \in HbEvents /\ HbRequests \in HbEvents
  /\ \A d \in Targets : /\ HbEvent("response", d) # HbResult /\ HbEvent("response", d) # HbRequests
                        /\ HbEvent("response", d) \in HbEvents
  /\ \A d, e \in Targets : HbEvent("response", d) = HbEvent("response", e) => d = e
BY DEF HbResult, HbRequests, HbEvent, HbEvents

\* The numbers the invariant adds up.
LEMMA RoundNumbers ==
  ASSUME HbInv
  PROVE  /\ hbEvents \in Seq(HbEvents) /\ hbInbox \in Seq(Targets)
         /\ rounds \in Nat /\ hbResults \in Nat /\ roundActive \in BOOLEAN
         /\ Tally(hbEvents, HbResult) \in Nat
         /\ \A d \in Targets :
              /\ aliveResults[d] \in Nat /\ answered[d] \in Nat /\ Owed(d) \in {0, 1}
              /\ Tally(hbEvents, HbEvent("response", d)) \in Nat /\ Tally(hbInbox, d) \in Nat
<1>1. /\ hbEvents \in Seq(HbEvents) /\ hbInbox \in Seq(Targets)
      /\ rounds \in Nat /\ hbResults \in Nat /\ roundActive \in BOOLEAN
      /\ aliveResults \in [Targets -> Nat] /\ answered \in [Targets -> Nat]
  BY DEF HbInv, HbTypeOK
<1>2. Tally(hbEvents, HbResult) \in Nat
  BY <1>1, TallyType
<1>3. ASSUME NEW d \in Targets
      PROVE  /\ aliveResults[d] \in Nat /\ answered[d] \in Nat
             /\ Tally(hbEvents, HbEvent("response", d)) \in Nat /\ Tally(hbInbox, d) \in Nat
  BY <1>1, TallyType
<1>4. \A d \in Targets : Owed(d) \in {0, 1}
  BY DEF Owed
<1> QED
  BY <1>1, <1>2, <1>3, <1>4

\* What taking the first event off the queue does to the tallies and to the requests.
LEMMA Taken ==
  ASSUME HbInv, RequestInv, hbEvents # <<>>
  PROVE  /\ Tail(hbEvents) \in Seq(HbEvents)
         /\ \A e : Tally(hbEvents, e) = Tally(Tail(hbEvents), e) + (IF Head(hbEvents) = e THEN 1 ELSE 0)
         /\ \A e : Tally(Tail(hbEvents), e) \in Nat
         /\ \A i \in 1 .. Len(Tail(hbEvents)) :
              /\ Tail(hbEvents)[i] = HbRequests => rounds = hbResults
              /\ Tail(hbEvents)[i] = HbRequests => Head(hbEvents) # HbRequests
         /\ \A i, j \in 1 .. Len(Tail(hbEvents)) :
              Tail(hbEvents)[i] = HbRequests /\ Tail(hbEvents)[j] = HbRequests => i = j
<1>1. hbEvents \in Seq(HbEvents)
  BY DEF HbInv, HbTypeOK
<1>2. /\ Tail(hbEvents) \in Seq(HbEvents) /\ Head(hbEvents) \in HbEvents
      /\ Head(hbEvents) = hbEvents[1] /\ 1 \in 1 .. Len(hbEvents)
      /\ \A i \in 1 .. Len(Tail(hbEvents)) : /\ i + 1 \in 1 .. Len(hbEvents) /\ i + 1 # 1
                                             /\ Tail(hbEvents)[i] = hbEvents[i + 1]
  BY <1>1
<1>3. \A e : Tally(hbEvents, e) = Tally(Tail(hbEvents), e) + (IF Head(hbEvents) = e THEN 1 ELSE 0)
  BY <1>1, <1>2, TallyQueue
<1>4. \A e : Tally(Tail(hbEvents), e) \in Nat
  BY <1>2, TallyType
<1>5. \A i \in 1 .. Len(Tail(hbEvents)) :
        /\ Tail(hbEvents)[i] = HbRequests => rounds = hbResults
        /\ Tail(hbEvents)[i] = HbRequests => Head(hbEvents) # HbRequests
  BY <1>2 DEF RequestInv
<1>6. \A i, j \in 1 .. Len(Tail(hbEvents)) :
        Tail(hbEvents)[i] = HbRequests /\ Tail(hbEvents)[j] = HbRequests => i = j
  <2> SUFFICES ASSUME NEW i \in 1 .. Len(Tail(hbEvents)), NEW j \in 1 .. Len(Tail(hbEvents)),
                      Tail(hbEvents)[i] = HbRequests, Tail(hbEvents)[j] = HbRequests
               PROVE  i = j
    OBVIOUS
  <2>1. i + 1 = j + 1
    BY <1>2 DEF RequestInv
  <2> QED
    BY <2>1
<1> QED
  BY <1>2, <1>3, <1>4, <1>5, <1>6

\* The poll moves answers from the connection to the queue.
LEMMA PollRounds == ASSUME HbInv, RoundsInv, HbPoll PROVE RoundsInv'
<1>1. PICK n \in 0 .. Len(hbInbox) :
        /\ hbEvents' = hbEvents \o [i \in 1 .. n |-> HbEvent("response", hbInbox[i])]
        /\ hbInbox' = SubSeq(hbInbox, n + 1, Len(hbInbox))
  BY DEF HbPoll
<1> DEFINE p == SubSeq(hbInbox, 1, n)
           q == SubSeq(hbInbox, n + 1, Len(hbInbox))
           m == [i \in 1 .. n |-> HbEvent("response", hbInbox[i])]
<1>2. /\ hbInbox \in Seq(Targets) /\ Len(hbInbox) \in Nat /\ n \in Nat /\ n <= Len(hbInbox)
      /\ rounds \in Nat /\ hbResults \in Nat
  BY RoundNumbers
<1>3. /\ hbEvents = <<>> /\ hbPhase' = "schedule"
      /\ UNCHANGED <<rounds, hbResults, roundActive, alive, aliveResults, answered>>
  BY DEF HbPoll, RoundsInv, PhaseInv, roundVars, tallyVars
<1>4. \A i \in 1 .. n : hbInbox[i] \in Targets
  BY <1>2
<1>5. m \in Seq(HbEvents) /\ Len(m) = n
  <2>1. \A i \in 1 .. n : HbEvent("response", hbInbox[i]) \in HbEvents
    BY <1>4, EventsDiffer
  <2> QED
    BY <1>2, <2>1
<1>6. hbEvents' = m
  BY <1>1, <1>3, <1>5
<1>7. \A i \in 1 .. Len(m) : m[i] # HbResult /\ m[i] # HbRequests
  BY <1>4, <1>5, EventsDiffer
<1>8. Tally(m, HbResult) = 0 /\ Tally(<<>>, HbResult) = 0
  <2> HIDE DEF m
  <2> QED
    BY <1>5, <1>7, TallyEmpty, TallyType
<1>9. ASSUME NEW d \in Targets PROVE Underway(d)' = Underway(d)
  <2>1. p \in Seq(Targets) /\ q \in Seq(Targets) /\ hbInbox = p \o q
        /\ Len(p) = n /\ \A i \in 1 .. n : p[i] = hbInbox[i]
    <3>1. p \in Seq(Targets) /\ Len(p) = n /\ \A i \in 1 .. n : p[i] = hbInbox[i]
      BY <1>2
    <3>2. q \in Seq(Targets) /\ Len(q) = Len(hbInbox) - n
          /\ \A i \in 1 .. Len(q) : q[i] = hbInbox[n + i]
      BY <1>2
    <3> HIDE DEF p, q
    <3>3. Len(p \o q) = Len(hbInbox) /\ p \o q \in Seq(Targets)
      BY <1>2, <3>1, <3>2
    <3>4. \A i \in 1 .. Len(hbInbox) : (p \o q)[i] = hbInbox[i]
      <4> TAKE i \in 1 .. Len(hbInbox)
      <4>1. CASE i <= n
        BY <1>2, <3>1, <3>2, <4>1
      <4>2. CASE i > n
        <5>1. i - n \in 1 .. Len(q) /\ n + (i - n) = i
          BY <1>2, <3>2, <4>2
        <5>2. (p \o q)[i] = q[i - n]
          BY <1>2, <3>1, <3>2, <4>2
        <5> QED
          BY <3>2, <5>1, <5>2
      <4>3. i <= n \/ i > n
        BY <1>2
      <4> QED
        BY <4>1, <4>2, <4>3
    <3>5. hbInbox = p \o q
      BY <1>2, <3>3, <3>4, SeqEqual
    <3> QED
      BY <3>1, <3>2, <3>5
  <2>2. Tally(p \o q, d) = Tally(p, d) + Tally(q, d)
    BY <2>1, TallyConcat, Zenon
  <2>3. \A i \in 1 .. n : m[i] = HbEvent("response", d) <=> p[i] = d
    BY <1>4, <2>1, EventsDiffer
  <2>4. {i \in 1 .. Len(m) : m[i] = HbEvent("response", d)} = {i \in 1 .. Len(p) : p[i] = d}
    BY <1>5, <2>1, <2>3
  <2>5. Tally(m, HbEvent("response", d)) = Tally(p, d)
    BY <2>4 DEF Tally
  <2>6. Tally(<<>>, HbEvent("response", d)) = 0
    BY TallyEmpty
  <2>7. Underway(d) = 0 + (Tally(p, d) + Tally(q, d))
    BY <1>3, <2>1, <2>2, <2>6 DEF Underway
  <2>8. Underway(d)' = Tally(p, d) + Tally(q, d)
    BY <1>1, <1>6, <2>5 DEF Underway
  <2>9. Tally(p, d) \in Nat /\ Tally(q, d) \in Nat
    BY <2>1, TallyType
  <2> HIDE DEF p, q
  <2> QED
    BY <2>7, <2>8, <2>9
<1> HIDE DEF m, p, q
<1>10. PhaseInv' /\ RequestInv'
  BY <1>3, <1>6, <1>7 DEF PhaseInv, RequestInv, RoundsInv
<1>11. ResultInv'
  BY <1>3, <1>6, <1>8 DEF ResultInv, RoundsInv
<1>12. AnswerInv'
  BY <1>3, <1>9 DEF AnswerInv, RoundsInv, Owed
<1> QED
  BY <1>10, <1>11, <1>12 DEF RoundsInv

\* schedule finds no request and no result queued: a round that is due may be asked for.
LEMMA ScheduleRounds ==
  ASSUME HbInv, RoundsInv, RoundTimeout \/ RoundDue \/ NothingDue
  PROVE  RoundsInv'
<1>1. /\ hbPhase = "schedule" /\ hbPhase' = "execute"
      /\ UNCHANGED <<rounds, hbResults, aliveResults, answered, hbInbox>>
  BY DEF RoundTimeout, RoundDue, NothingDue, wireVars, tallyVars
<1>2. \A i \in 1 .. Len(hbEvents) : hbEvents[i] # HbResult /\ hbEvents[i] # HbRequests
  BY <1>1 DEF RoundsInv, PhaseInv
<1>3. /\ hbEvents \in Seq(HbEvents) /\ rounds \in Nat /\ hbResults \in Nat
      /\ HbResult \in HbEvents /\ HbRequests \in HbEvents
  BY RoundNumbers, EventsDiffer
<1>4. Tally(hbEvents, HbResult) = 0
  BY <1>2, <1>3, TallyType
<1>5. PhaseInv'
  BY <1>1 DEF PhaseInv
<1>6. CASE NothingDue
  <2>1. UNCHANGED <<hbEvents, alive, roundActive>>
    BY <1>6 DEF NothingDue, roundVars
  <2> QED
    BY <1>1, <1>5, <2>1 DEF RoundsInv, RequestInv, ResultInv, AnswerInv, Owed, Underway
<1>7. CASE RoundDue
  <2>1. /\ ~roundActive /\ hbEvents' = Append(hbEvents, HbRequests)
        /\ UNCHANGED <<alive, roundActive>>
    BY <1>7 DEF RoundDue, roundVars
  <2>2. rounds = hbResults
    BY <1>3, <1>4, <2>1 DEF RoundsInv, ResultInv
  <2>3. \A e : Tally(hbEvents', e) = Tally(hbEvents, e) + (IF HbRequests = e THEN 1 ELSE 0)
    BY <1>3, <2>1, TallyQueue
  <2>4. /\ Tally(hbEvents', HbResult) = Tally(hbEvents, HbResult)
        /\ \A d \in Targets : Tally(hbEvents', HbEvent("response", d)) = Tally(hbEvents, HbEvent("response", d))
    BY <2>3, EventsDiffer, RoundNumbers
  <2>5. \A i, j \in 1 .. Len(hbEvents') :
          hbEvents'[i] = HbRequests /\ hbEvents'[j] = HbRequests => i = j
    <3>1. \A i \in 1 .. Len(hbEvents') : hbEvents'[i] = HbRequests => i = Len(hbEvents) + 1
      BY <1>2, <1>3, <2>1
    <3> QED
      BY <3>1
  <2>6. RequestInv'
    BY <1>1, <2>2, <2>5 DEF RequestInv, RoundsInv
  <2>7. ResultInv' /\ AnswerInv'
    BY <1>1, <2>1, <2>4 DEF RoundsInv, ResultInv, AnswerInv, Owed, Underway
  <2> QED
    BY <1>5, <2>6, <2>7 DEF RoundsInv
<1>8. CASE RoundTimeout
  <2>1. /\ roundActive /\ roundActive' = FALSE /\ hbEvents' = Append(hbEvents, HbResult)
        /\ alive' \subseteq alive
    BY <1>8 DEF RoundTimeout, markTimeoutsAsDead
  <2>2. \A e : Tally(hbEvents', e) = Tally(hbEvents, e) + (IF HbResult = e THEN 1 ELSE 0)
    BY <1>3, <2>1, TallyQueue
  <2>3. /\ Tally(hbEvents', HbResult) = Tally(hbEvents, HbResult) + 1
        /\ \A d \in Targets : Tally(hbEvents', HbEvent("response", d)) = Tally(hbEvents, HbEvent("response", d))
    BY <2>2, EventsDiffer, RoundNumbers
  <2>4. RequestInv'
    <3>1. \A i \in 1 .. Len(hbEvents') : hbEvents'[i] # HbRequests
      BY <1>2, <1>3, <2>1, EventsDiffer
    <3> QED
      BY <1>1, <3>1 DEF RequestInv, RoundsInv
  <2>5. ResultInv'
    BY <1>1, <1>3, <1>4, <2>1, <2>3 DEF RoundsInv, ResultInv
  <2>6. AnswerInv'
    <3> SUFFICES ASSUME NEW d \in Targets
                 PROVE  (aliveResults[d] + Owed(d) + Underway(d) <= answered[d])'
      BY DEF AnswerInv
    <3>1. Underway(d)' = Underway(d)
      BY <1>1, <2>3 DEF Underway
    <3>2. Owed(d)' <= Owed(d) /\ Owed(d)' \in {0, 1}
      BY <1>1, <2>1 DEF Owed
    <3>3. Underway(d) \in Nat
      BY RoundNumbers DEF Underway
    <3>4. aliveResults[d] + Owed(d) + Underway(d) <= answered[d]
      BY DEF RoundsInv, AnswerInv
    <3>5. aliveResults[d] \in Nat /\ answered[d] \in Nat /\ Owed(d) \in {0, 1}
      BY RoundNumbers
    <3> QED
      BY <1>1, <3>1, <3>2, <3>3, <3>4, <3>5
  <2> QED
    BY <1>5, <2>4, <2>5, <2>6 DEF RoundsInv
<1> QED
  BY <1>6, <1>7, <1>8

\* A request opens a round only when every earlier one has been reported.
LEMMA RequestsRounds == ASSUME HbInv, RoundsInv, OnRequests PROVE RoundsInv'
<1>1. /\ hbPhase = "execute" /\ hbEvents # <<>> /\ Head(hbEvents) = HbRequests
      /\ hbEvents' = Tail(hbEvents) /\ roundActive' = TRUE /\ alive' = {} /\ rounds' = rounds + 1
      /\ UNCHANGED <<hbPhase, hbResults, aliveResults, answered, hbInbox>>
  BY DEF OnRequests, SendRequests
<1>2. RequestInv /\ ResultInv /\ AnswerInv
  BY DEF RoundsInv
<1>3. /\ Tail(hbEvents) \in Seq(HbEvents)
      /\ \A e : Tally(hbEvents, e) = Tally(Tail(hbEvents), e) + (IF HbRequests = e THEN 1 ELSE 0)
      /\ \A e : Tally(Tail(hbEvents), e) \in Nat
      /\ \A i \in 1 .. Len(Tail(hbEvents)) : Tail(hbEvents)[i] # HbRequests
  BY <1>1, <1>2, Taken
<1>4. rounds = hbResults /\ rounds \in Nat
  <2>1. hbEvents[1] = HbRequests /\ 1 \in 1 .. Len(hbEvents)
    BY <1>1, RoundNumbers
  <2> QED
    BY <1>2, <2>1, RoundNumbers DEF RequestInv
<1>5. Tally(hbEvents, HbResult) = 0 /\ ~roundActive
  BY <1>2, <1>4, RoundNumbers DEF ResultInv
<1>6. Tally(hbEvents', HbResult) = 0
  BY <1>1, <1>3, <1>5, EventsDiffer
<1>7. PhaseInv' /\ RequestInv'
  BY <1>1, <1>3, <1>4 DEF PhaseInv, RequestInv
<1>8. ResultInv'
  BY <1>1, <1>4, <1>6 DEF ResultInv
<1>9. AnswerInv'
  <2> SUFFICES ASSUME NEW d \in Targets
               PROVE  (aliveResults[d] + Owed(d) + Underway(d) <= answered[d])'
    BY DEF AnswerInv
  <2>1. Tally(hbEvents', HbEvent("response", d)) = Tally(hbEvents, HbEvent("response", d))
    BY <1>1, <1>3, EventsDiffer
  <2>2. Underway(d)' = Underway(d) /\ Underway(d) \in Nat
    BY <1>1, <2>1, RoundNumbers DEF Underway
  <2>3. Owed(d)' = 0
    BY <1>1 DEF Owed
  <2>4. aliveResults[d] + Owed(d) + Underway(d) <= answered[d]
    BY <1>2 DEF AnswerInv
  <2>5. aliveResults[d] \in Nat /\ answered[d] \in Nat /\ Owed(d) \in {0, 1}
    BY RoundNumbers
  <2> QED
    BY <1>1, <2>2, <2>3, <2>4, <2>5
<1> QED
  BY <1>7, <1>8, <1>9 DEF RoundsInv


\* An answer pays for its daemon's being reported alive; the last one of a round queues the result.
LEMMA ResponseRounds == ASSUME HbInv, RoundsInv, NEW d \in Targets, OnResponse(d) PROVE RoundsInv'
<1>1. /\ hbPhase = "execute" /\ hbEvents # <<>> /\ Head(hbEvents) = HbEvent("response", d)
      /\ UNCHANGED <<hbPhase, rounds, hbResults, aliveResults, answered, hbInbox>>
  BY DEF OnResponse, wireVars, tallyVars
<1>2. RequestInv /\ ResultInv /\ AnswerInv
  BY DEF RoundsInv
<1> DEFINE rest == Tail(hbEvents)
<1>3. /\ rest \in Seq(HbEvents)
      /\ \A e : Tally(hbEvents, e) = Tally(rest, e) + (IF Head(hbEvents) = e THEN 1 ELSE 0)
      /\ \A e : Tally(rest, e) \in Nat
      /\ \A i \in 1 .. Len(rest) : rest[i] = HbRequests => rounds = hbResults
      /\ \A i, j \in 1 .. Len(rest) : rest[i] = HbRequests /\ rest[j] = HbRequests => i = j
  BY <1>1, <1>2, Taken
<1> HIDE DEF rest
<1>4. /\ Tally(rest, HbResult) = Tally(hbEvents, HbResult)
      /\ Tally(hbEvents, HbEvent("response", d)) = Tally(rest, HbEvent("response", d)) + 1
      /\ \A e \in Targets \ {d} :
           Tally(rest, HbEvent("response", e)) = Tally(hbEvents, HbEvent("response", e))
  <2>1. HbEvent("response", d) # HbResult
    BY EventsDiffer
  <2>2. \A e \in Targets \ {d} : HbEvent("response", e) # HbEvent("response", d)
    BY EventsDiffer
  <2> QED
    BY <1>1, <1>3, <2>1, <2>2
<1>5. /\ \/ hbEvents' = rest /\ roundActive' = roundActive
         \/ roundActive /\ roundActive' = FALSE /\ hbEvents' = Append(rest, HbResult)
      /\ \/ alive' = alive
         \/ roundActive /\ alive' = alive \cup {d}
  <2>1. CASE d \notin pending
    BY <2>1 DEF OnResponse, roundVars, rest
  <2>2. CASE d \in pending
    <3>1. roundActive
      BY <2>2 DEF HbInv, PendingCounted
    <3> QED
      BY <2>2, <3>1 DEF OnResponse, rest
  <2> QED
    BY <2>1, <2>2
<1>6. PhaseInv'
  BY <1>1 DEF PhaseInv
<1>7. /\ RequestInv' /\ ResultInv'
      /\ \A e \in Targets :
           Tally(hbEvents', HbEvent("response", e)) = Tally(rest, HbEvent("response", e))
  <2>1. CASE hbEvents' = rest /\ roundActive' = roundActive
    BY <1>1, <1>2, <1>3, <1>4, <2>1 DEF RequestInv, ResultInv
  <2>2. CASE roundActive /\ roundActive' = FALSE /\ hbEvents' = Append(rest, HbResult)
    <3>1. \A e : Tally(hbEvents', e) = Tally(rest, e) + (IF HbResult = e THEN 1 ELSE 0)
      BY <1>3, <2>2, EventsDiffer, TallyQueue
    <3>2. /\ Tally(hbEvents', HbResult) = Tally(rest, HbResult) + 1
          /\ \A e \in Targets :
               Tally(hbEvents', HbEvent("response", e)) = Tally(rest, HbEvent("response", e))
      BY <1>3, <3>1, EventsDiffer
    <3>3. \A i \in 1 .. Len(hbEvents') :
            hbEvents'[i] = HbRequests => i \in 1 .. Len(rest) /\ rest[i] = HbRequests
      BY <1>3, <2>2, EventsDiffer
    <3>4. RequestInv'
      BY <1>1, <1>2, <1>3, <3>3 DEF RequestInv
    <3>5. ResultInv'
      BY <1>1, <1>2, <1>3, <1>4, <2>2, <3>2, RoundNumbers DEF ResultInv
    <3> QED
      BY <3>2, <3>4, <3>5
  <2> QED
    BY <1>5, <2>1, <2>2
<1>8. AnswerInv'
  <2> SUFFICES ASSUME NEW e \in Targets
               PROVE  (aliveResults[e] + Owed(e) + Underway(e) <= answered[e])'
    BY DEF AnswerInv
  <2>1. aliveResults[e] + Owed(e) + Underway(e) <= answered[e]
    BY <1>2 DEF AnswerInv
  <2>2. /\ aliveResults[e] \in Nat /\ answered[e] \in Nat /\ Owed(e) \in {0, 1}
        /\ Tally(hbInbox, e) \in Nat /\ Tally(hbEvents, HbEvent("response", e)) \in Nat
        /\ Tally(rest, HbEvent("response", e)) \in Nat
    BY <1>3, RoundNumbers
  <2>3. Owed(e)' \in {0, 1}
    BY DEF Owed
  <2>4. CASE e = d
    <3>1. Underway(e) = Underway(e)' + 1 /\ Underway(e)' \in Nat
      BY <1>1, <1>4, <1>7, <2>2, <2>4 DEF Underway
    <3> QED
      BY <1>1, <2>1, <2>2, <2>3, <3>1
  <2>5. CASE e # d
    <3>1. Underway(e)' = Underway(e) /\ Underway(e) \in Nat
      BY <1>1, <1>4, <1>7, <2>2, <2>5 DEF Underway
    <3>2. e \in alive' <=> e \in alive
      BY <1>5, <2>5
    <3>3. Owed(e)' = Owed(e)
      BY <1>1, <3>2 DEF Owed
    <3> QED
      BY <1>1, <2>1, <3>1, <3>3
  <2> QED
    BY <2>4, <2>5
<1> QED
  BY <1>6, <1>7, <1>8 DEF RoundsInv

\* The result is the one of the only round that was not reported.
LEMMA ResultRounds == ASSUME HbInv, RoundsInv, OnResult PROVE RoundsInv'
<1>1. /\ hbPhase = "execute" /\ hbEvents # <<>> /\ Head(hbEvents) = HbResult
      /\ hbEvents' = Tail(hbEvents) /\ hbResults' = hbResults + 1
      /\ aliveResults' = [d \in Targets |-> aliveResults[d] + IF d \in alive THEN 1 ELSE 0]
      /\ UNCHANGED <<hbPhase, alive, roundActive, rounds, answered, hbInbox>>
  BY DEF OnResult, roundVars
<1>2. RequestInv /\ ResultInv /\ AnswerInv
  BY DEF RoundsInv
<1>3. /\ \A e : Tally(hbEvents, e) = Tally(Tail(hbEvents), e) + (IF HbResult = e THEN 1 ELSE 0)
      /\ \A e : Tally(Tail(hbEvents), e) \in Nat
      /\ \A i \in 1 .. Len(Tail(hbEvents)) : Tail(hbEvents)[i] = HbRequests => rounds = hbResults
  BY <1>1, <1>2, Taken
<1>4. Tally(hbEvents, HbResult) = Tally(hbEvents', HbResult) + 1 /\ Tally(hbEvents', HbResult) \in Nat
  BY <1>1, <1>3
<1>5. rounds = hbResults + 1 /\ rounds \in Nat /\ hbResults \in Nat
  BY <1>2, <1>4, RoundNumbers DEF RequestInv, ResultInv
<1>6. \A i \in 1 .. Len(hbEvents') : hbEvents'[i] # HbRequests
  <2>1. rounds # hbResults
    BY <1>5
  <2>2. \A i \in 1 .. Len(hbEvents') : hbEvents'[i] = HbRequests => rounds = hbResults
    BY <1>1, <1>3, Zenon
  <2> QED BY <2>1, <2>2, Zenon
<1>7. PhaseInv' /\ RequestInv'
  BY <1>1, <1>5, <1>6 DEF PhaseInv, RequestInv
<1>8. ResultInv'
  BY <1>1, <1>2, <1>4, <1>5 DEF ResultInv
<1>9. AnswerInv'
  <2> SUFFICES ASSUME NEW d \in Targets
               PROVE  (aliveResults[d] + Owed(d) + Underway(d) <= answered[d])'
    BY DEF AnswerInv
  <2>1. aliveResults[d] + Owed(d) + Underway(d) <= answered[d]
    BY <1>2 DEF AnswerInv
  <2>2. aliveResults[d] \in Nat /\ answered[d] \in Nat
    BY RoundNumbers
  <2>3. Tally(hbEvents', HbEvent("response", d)) = Tally(hbEvents, HbEvent("response", d))
    BY <1>1, <1>3, EventsDiffer
  <2>4. Underway(d)' = Underway(d) /\ Underway(d) \in Nat
    BY <1>1, <2>3, RoundNumbers DEF Underway
  <2>5. Owed(d)' = 0
    BY <1>1, <1>5 DEF Owed
  <2>6. Owed(d) = IF d \in alive THEN 1 ELSE 0
    BY <1>5 DEF Owed
  <2>7. aliveResults'[d] = aliveResults[d] + Owed(d)
    BY <1>1, <2>6
  <2> QED
    BY <1>1, <2>1, <2>2, <2>4, <2>5, <2>6, <2>7
<1> QED
  BY <1>7, <1>8, <1>9 DEF RoundsInv

\* The end of a tick, the daemons, mgmtd and a restart of engined.
LEMMA OtherRounds ==
  ASSUME HbInv, RoundsInv,
         \/ HbIdle \/ HbRestart \/ ShowResult \/ UNCHANGED hbVars
         \/ \E d \in Targets : DaemonAnswers(d) \/ DaemonLoses(d)
  PROVE  RoundsInv'
<1>1. CASE HbIdle
  <2>1. /\ hbEvents = <<>> /\ hbPhase' = "poll"
        /\ UNCHANGED <<hbEvents, rounds, hbResults, roundActive, alive, aliveResults, answered, hbInbox>>
    BY <1>1 DEF HbIdle, roundVars, wireVars, tallyVars
  <2> QED
    BY <2>1 DEF RoundsInv, PhaseInv, RequestInv, ResultInv, AnswerInv, Owed, Underway
<1>2. CASE HbRestart
  <2>1. /\ hbPhase' = "poll" /\ hbEvents' = <<>> /\ hbInbox' = <<>> /\ rounds' = hbResults
        /\ roundActive' = FALSE /\ alive' = {}
        /\ UNCHANGED <<hbResults, aliveResults, answered>>
    BY <1>2 DEF HbRestart
  <2>2. \A e : Tally(hbEvents', e) = 0 /\ Tally(hbInbox', e) = 0
    BY <2>1, TallyEmpty
  <2>3. PhaseInv'
    BY <2>1 DEF PhaseInv
  <2>4. RequestInv'
    BY <2>1, RoundNumbers DEF RequestInv
  <2>5. ResultInv'
    BY <2>1, <2>2, RoundNumbers DEF ResultInv
  <2>6. AnswerInv'
    <3> SUFFICES ASSUME NEW d \in Targets
                 PROVE  (aliveResults[d] + Owed(d) + Underway(d) <= answered[d])'
      BY DEF AnswerInv
    <3>1. aliveResults[d] + Owed(d) + Underway(d) <= answered[d]
      BY DEF RoundsInv, AnswerInv
    <3>2. aliveResults[d] \in Nat /\ answered[d] \in Nat /\ Owed(d) \in {0, 1} /\ Underway(d) \in Nat
      BY RoundNumbers DEF Underway
    <3>3. Owed(d)' = 0 /\ Underway(d)' = 0
      BY <2>1, <2>2 DEF Owed, Underway
    <3> QED
      BY <2>1, <3>1, <3>2, <3>3
  <2> QED
    BY <2>3, <2>4, <2>5, <2>6 DEF RoundsInv
<1>3. CASE ShowResult \/ UNCHANGED hbVars \/ \E d \in Targets : DaemonLoses(d)
  <2>1. UNCHANGED <<hbPhase, hbEvents, rounds, hbResults, roundActive, alive, aliveResults, answered, hbInbox>>
    BY <1>3 DEF ShowResult, DaemonLoses, hbVars, roundVars, tallyVars
  <2> QED
    BY <2>1 DEF RoundsInv, PhaseInv, RequestInv, ResultInv, AnswerInv, Owed, Underway
<1>4. CASE \E d \in Targets : DaemonAnswers(d)
  <2>1. PICK d \in Targets : DaemonAnswers(d)
    BY <1>4
  <2>2. /\ hbInbox' = Append(hbInbox, d) /\ answered' = [answered EXCEPT ![d] = @ + 1]
        /\ UNCHANGED <<hbPhase, hbEvents, rounds, hbResults, roundActive, alive, aliveResults>>
    BY <2>1 DEF DaemonAnswers, roundVars
  <2>3. PhaseInv' /\ RequestInv' /\ ResultInv'
    BY <2>2 DEF RoundsInv, PhaseInv, RequestInv, ResultInv
  <2>4. AnswerInv'
    <3> SUFFICES ASSUME NEW e \in Targets
                 PROVE  (aliveResults[e] + Owed(e) + Underway(e) <= answered[e])'
      BY DEF AnswerInv
    <3>1. aliveResults[e] + Owed(e) + Underway(e) <= answered[e]
      BY DEF RoundsInv, AnswerInv
    <3>2. /\ aliveResults[e] \in Nat /\ answered[e] \in Nat /\ Owed(e) \in {0, 1}
          /\ Tally(hbEvents, HbEvent("response", e)) \in Nat /\ Tally(hbInbox, e) \in Nat
      BY RoundNumbers
    <3>3. Tally(hbInbox', e) = Tally(hbInbox, e) + (IF d = e THEN 1 ELSE 0)
      BY <2>2, RoundNumbers, TallyQueue
    <3>4. answered'[e] = answered[e] + (IF d = e THEN 1 ELSE 0)
      <4>1. answered \in [Targets -> Nat]
        BY DEF HbInv, HbTypeOK
      <4> QED
        BY <2>2, <3>2, <4>1
    <3>5. Underway(e)' = Underway(e) + (IF d = e THEN 1 ELSE 0) /\ Underway(e) \in Nat
      BY <2>2, <3>2, <3>3 DEF Underway
    <3>6. Owed(e)' = Owed(e)
      BY <2>2 DEF Owed
    <3> QED
      BY <2>2, <3>1, <3>2, <3>4, <3>5, <3>6
  <2> QED
    BY <2>3, <2>4 DEF RoundsInv
<1> QED
  BY <1>1, <1>2, <1>3, <1>4

\* engined starts with no round, no result and no answer.
LEMMA RoundsStart == HbInit => RoundsInv
<1> SUFFICES ASSUME HbInit PROVE RoundsInv
  OBVIOUS
<1>1. \A e : Tally(hbEvents, e) = 0 /\ Tally(hbInbox, e) = 0
  BY TallyEmpty DEF HbInit
<1>2. /\ hbEvents = <<>> /\ rounds = 0 /\ hbResults = 0 /\ roundActive = FALSE /\ alive = {}
      /\ \A d \in Targets : answered[d] = 0 /\ aliveResults[d] = 0
  BY DEF HbInit
<1>3. PhaseInv /\ RequestInv
  BY <1>2 DEF PhaseInv, RequestInv
<1>4. ResultInv
  BY <1>1, <1>2 DEF ResultInv
<1>5. AnswerInv
  BY <1>1, <1>2 DEF AnswerInv, Owed, Underway
<1> QED
  BY <1>3, <1>4, <1>5 DEF RoundsInv

\* Every step keeps the rounds and their results in step.
LEMMA RoundsNext == HbInv /\ RoundsInv /\ [HbNext]_hbVars => RoundsInv'
<1> SUFFICES ASSUME HbInv, RoundsInv, [HbNext]_hbVars PROVE RoundsInv'
  OBVIOUS
<1>1. CASE HbPoll
  BY <1>1, PollRounds
<1>2. CASE RoundTimeout \/ RoundDue \/ NothingDue
  BY <1>2, ScheduleRounds
<1>3. CASE OnRequests
  BY <1>3, RequestsRounds
<1>4. CASE \E d \in Targets : OnResponse(d)
  BY <1>4, ResponseRounds
<1>5. CASE OnResult
  BY <1>5, ResultRounds
<1>6. CASE \/ HbIdle \/ HbRestart \/ ShowResult \/ UNCHANGED hbVars
           \/ \E d \in Targets : DaemonAnswers(d) \/ DaemonLoses(d)
  BY <1>6, OtherRounds
<1> QED
  BY <1>1, <1>2, <1>3, <1>4, <1>5, <1>6 DEF HbNext, EngineStep

\* Every heartbeat round ends in exactly one result, and no daemon is reported alive in more
\* rounds than it answered, whatever rounds its late answers fell into and wherever engined or
\* a daemon restarted.
THEOREM RoundsSoundAlways == HbSpec => []RoundsSound
<1>1. RoundsInv /\ HbInv => RoundsSound
  <2> SUFFICES ASSUME RoundsInv, HbInv PROVE RoundsSound
    OBVIOUS
  <2>1. OneResultPerRound
    BY DEF RoundsInv, ResultInv, OneResultPerRound, Tally
  <2>2. AliveWasAnswered
    <3> SUFFICES ASSUME NEW d \in Targets PROVE aliveResults[d] <= answered[d]
      BY DEF AliveWasAnswered
    <3>1. aliveResults[d] + Owed(d) + Underway(d) <= answered[d]
      BY DEF RoundsInv, AnswerInv
    <3>2. aliveResults[d] \in Nat /\ answered[d] \in Nat /\ Owed(d) \in {0, 1} /\ Underway(d) \in Nat
      BY RoundNumbers DEF Underway
    <3> QED
      BY <3>1, <3>2
  <2> QED
    BY <2>1, <2>2 DEF RoundsSound
<1>2. HbSpec => []RoundsInv
  BY RoundsStart, RoundsNext, HeartbeatInvariance, PTL DEF HbSpec
<1> QED
  BY <1>1, <1>2, HeartbeatInvariance, PTL

-----------------------------------------------------------------------------
(* What the tables say.                                                    *)

\* The frames daemon d can get.
FramesFor(d) == SentTo(d) \cup {"ServerHello", "RuntimeStart"}

\* Everything a service daemon sends.
Sends ==
  {<<"ipcd", "ClientHello">>, <<"ipcd", "RuntimeReady">>, <<"engined", "HeartbeatResponse">>,
   <<"mgmtd", "AuthSamlAcsResponse">>, <<"engined", "ProbeResult">>,
   <<"mgmtd", "ApiConnectorTestResponse">>, <<"engined", "SaseApiKeyUpdate">>,
   <<"engined", "ApiCredentialStateUpdate">>, <<"mgmtd", "TopologyResponse">>}
  \cup collectordSends \cup mgmtdSends

\* Every frame a daemon can get is in its factory's table.
LEMMA FramesKnown == \A d \in ServiceSet : FramesFor(d) \subseteq DOMAIN CreateOf[d]
<1> SUFFICES ASSUME NEW d \in ServiceSet PROVE FramesFor(d) \subseteq DOMAIN CreateOf[d]
  OBVIOUS
<1> USE DEF FramesFor, SentTo, CreateOf, Handshakes, With, ConfigApplyTargets, HeartbeatTargets,
            ServiceSet, Gated
<1>1. CASE d = "authd" BY <1>1 DEF authdCreate
<1>2. CASE d = "probed" BY <1>2 DEF probedCreate
<1>3. CASE d = "collectord" BY <1>3 DEF collectordCreate, ConnectorRequests
<1>4. CASE d = "topologyd" BY <1>4 DEF topologydCreate
<1>5. CASE d = "apid" BY <1>5 DEF apidCreate
<1>6. CASE d = "mgmtd" BY <1>6 DEF mgmtdCreate
<1> QED BY <1>1, <1>2, <1>3, <1>4, <1>5, <1>6

\* Every frame a daemon sends is in its destination's table and allowed to go there.
LEMMA SendsDelivered == \A tx \in SUBSET Sends : Discarded(tx) = {}
<1>1. \A s \in Sends : s[2] \in DOMAIN CreateOf[s[1]]
  <2> USE DEF CreateOf, Handshakes, With
  <2>1. \A s \in Sends : s[1] = "engined" => s[2] \in DOMAIN enginedCreate
    BY DEF Sends, collectordSends, mgmtdSends, enginedCreate
  <2>2. \A s \in Sends : s[1] = "ipcd" => s[2] \in DOMAIN ipcdCreate
    BY DEF Sends, collectordSends, mgmtdSends, ipcdCreate
  <2>3. \A s \in Sends : s[1] = "mgmtd" => s[2] \in DOMAIN mgmtdCreate
    BY DEF Sends, collectordSends, mgmtdSends, mgmtdCreate
  <2>4. \A s \in Sends : s[1] = "collectord" => s[2] \in DOMAIN collectordCreate
    BY DEF Sends, collectordSends, mgmtdSends, collectordCreate, ConnectorRequests
  <2>5. \A s \in Sends : s[1] = "authd" => s[2] \in DOMAIN authdCreate
    BY DEF Sends, collectordSends, mgmtdSends, authdCreate
  <2>6. \A s \in Sends : s[1] = "topologyd" => s[2] \in DOMAIN topologydCreate
    BY DEF Sends, collectordSends, mgmtdSends, topologydCreate
  <2>7. \A s \in Sends : s[1] \in {"engined", "ipcd", "mgmtd", "collectord", "authd", "topologyd"}
    BY DEF Sends, collectordSends, mgmtdSends
  <2> QED BY <2>1, <2>2, <2>3, <2>4, <2>5, <2>6, <2>7
<1>2. \A s \in Sends : isRoutingAllowed(s[1], s[2])
  BY DEF Sends, collectordSends, mgmtdSends, isRoutingAllowed, classifyWrite, ConnectorRequests
<1> QED BY <1>1, <1>2 DEF Discarded

-----------------------------------------------------------------------------
(* One turn of execute().                                                  *)

BootStates == {"Init", "WaitServerHello", "WaitRuntimeStart", "Ready", "Running", "Failed"}
ActionNames == {"SendClientHello", "SendRuntimeReady", "SendHeartbeatResponse"}
EventNames(d) == FramesFor(d) \cup {"SendClientHello", "SendRuntimeReady", "Ready"}

ProcRecs(d) ==
  [st : BootStates, evs : Seq(EventNames(d)), acts : Seq(ActionNames), tx : SUBSET Sends,
   started : BOOLEAN, reload : BOOLEAN]

\* Neither a ClientHello nor a RuntimeReady.
Reticent(tx) == <<"ipcd", "ClientHello">> \notin tx /\ <<"ipcd", "RuntimeReady">> \notin tx

\* What handling e, an event or an action, makes of a process of a gated daemon ...
GatedMove(p, e, q) ==
  \/ q.st = p.st /\ q.started = p.started /\ Reticent(q.tx)
  \/ /\ p.st = "WaitServerHello" /\ q.st = p.st /\ q.started = p.started
     /\ q.tx = {<<"ipcd", "ClientHello">>}
  \/ /\ p.st = "WaitRuntimeStart" /\ q.st = p.st /\ q.started = p.started
     /\ q.tx = {<<"ipcd", "RuntimeReady">>}
  \/ /\ e = "ServerHello" /\ p.st = "WaitServerHello" /\ q.st = "WaitRuntimeStart"
     /\ q.started = p.started /\ q.tx = {}
  \/ /\ e = "RuntimeStart" /\ p.st = "WaitRuntimeStart" /\ q.st = "Ready" /\ q.started = TRUE
     /\ q.tx = {}

\* ... and of one that is not.
EagerMove(p, e, q) ==
  \/ q.st = p.st /\ q.started = p.started /\ Reticent(q.tx)
  \/ /\ p.st = "WaitServerHello" /\ q.st = p.st /\ q.started = p.started
     /\ q.tx = {<<"ipcd", "ClientHello">>}
  \/ /\ e = "ServerHello" /\ p.st = "WaitServerHello" /\ q.st = "Ready"
     /\ q.started = p.started /\ q.tx = {<<"ipcd", "RuntimeReady">>}

\* The services of the daemons, one event or action each.
LEMMA Handled ==
  ASSUME NEW d \in ServiceSet, NEW p \in ProcRecs(d), p.tx = {}, NEW e
  PROVE  /\ GatedReceive(p, e) \in ProcRecs(d) /\ GatedMove(p, e, GatedReceive(p, e))
         /\ GatedReceive(p, e).evs = p.evs
         /\ EagerReceive(p, e) \in ProcRecs(d) /\ EagerMove(p, e, EagerReceive(p, e))
         /\ EagerReceive(p, e).evs = p.evs
         /\ GatedAct(p, e) \in ProcRecs(d) /\ GatedMove(p, e, GatedAct(p, e))
         /\ GatedAct(p, e).evs = p.evs
         /\ EagerAct(p, e) \in ProcRecs(d) /\ EagerMove(p, e, EagerAct(p, e))
         /\ EagerAct(p, e).evs = p.evs
<1>1. Append(p.acts, "SendRuntimeReady") \in Seq(ActionNames)
  BY DEF ProcRecs, ActionNames
<1>2. {<<"ipcd", "ClientHello">>} \in SUBSET Sends /\ {<<"ipcd", "RuntimeReady">>} \in SUBSET Sends
  BY DEF Sends
<1>3. /\ p.tx \cup {<<"ipcd", "ClientHello">>} = {<<"ipcd", "ClientHello">>}
      /\ p.tx \cup {<<"ipcd", "RuntimeReady">>} = {<<"ipcd", "RuntimeReady">>}
  OBVIOUS
<1>4. Reticent({})
  BY DEF Reticent
<1>5. /\ GatedReceive(p, e) \in ProcRecs(d) /\ GatedMove(p, e, GatedReceive(p, e))
      /\ GatedReceive(p, e).evs = p.evs
  BY <1>1, <1>4 DEF GatedReceive, ProcRecs, BootStates, GatedMove
<1>6. /\ EagerReceive(p, e) \in ProcRecs(d) /\ EagerMove(p, e, EagerReceive(p, e))
      /\ EagerReceive(p, e).evs = p.evs
  BY <1>2, <1>3, <1>4 DEF EagerReceive, ProcRecs, BootStates, EagerMove
<1>7. /\ EagerAct(p, e) \in ProcRecs(d) /\ EagerMove(p, e, EagerAct(p, e))
      /\ EagerAct(p, e).evs = p.evs
  BY <1>2, <1>3, <1>4 DEF EagerAct, ProcRecs, BootStates, EagerMove
<1>8. /\ GatedAct(p, e) \in ProcRecs(d) /\ GatedMove(p, e, GatedAct(p, e))
      /\ GatedAct(p, e).evs = p.evs
  <2>1. CASE e = "SendRuntimeReady" /\ p.st = "WaitRuntimeStart"
    BY <2>1, <1>2, <1>3 DEF GatedAct, ProcRecs, BootStates, GatedMove
  <2>2. CASE ~(e = "SendRuntimeReady" /\ p.st = "WaitRuntimeStart")
    BY <2>2, <1>2, <1>3, <1>4 DEF GatedAct, EagerAct, ProcRecs, BootStates, GatedMove
  <2> QED BY <2>1, <2>2
<1> QED BY <1>5, <1>6, <1>7, <1>8

\* A step that leaves the bootstrap alone.
Idles(d, p, q) ==
  /\ q \in ProcRecs(d) /\ q.evs = p.evs /\ q.st = p.st /\ q.started = p.started /\ Reticent(q.tx)

\* So are heartbeats, reloads and the work of the other services.
LEMMA Idled ==
  ASSUME NEW d \in ServiceSet, NEW p \in ProcRecs(d), p.tx = {}, NEW e
  PROVE  /\ Idles(d, p, Beats(p, e)) /\ Idles(d, p, ReloadEvent(p)) /\ Idles(d, p, p)
         /\ e \in {"SendClientHello", "SendRuntimeReady"} =>
              Idles(d, p, [p EXCEPT !.acts = Append(@, e)])
         /\ \A S \in SUBSET Sends : Reticent(S) => Idles(d, p, [p EXCEPT !.tx = @ \cup S])
<1>1. \A a \in ActionNames : Append(p.acts, a) \in Seq(ActionNames)
  BY DEF ProcRecs
<1>2. {<<"engined", "HeartbeatResponse">>} \in SUBSET Sends /\ Reticent({<<"engined", "HeartbeatResponse">>})
  BY DEF Sends, Reticent
<1>3. Reticent({}) /\ \A S : p.tx \cup S = S
  BY DEF Reticent
<1>4. Idles(d, p, Beats(p, e))
  BY <1>1, <1>2, <1>3 DEF Beats, ProcRecs, ActionNames, Idles
<1>5. Idles(d, p, ReloadEvent(p)) /\ Idles(d, p, p)
  BY <1>3 DEF ReloadEvent, ProcRecs, Idles
<1>6. e \in {"SendClientHello", "SendRuntimeReady"} => Idles(d, p, [p EXCEPT !.acts = Append(@, e)])
  BY <1>1, <1>3 DEF ProcRecs, ActionNames, Idles
<1>7. \A S \in SUBSET Sends : Reticent(S) => Idles(d, p, [p EXCEPT !.tx = @ \cup S])
  BY <1>3 DEF ProcRecs, Idles
<1> QED BY <1>4, <1>5, <1>6, <1>7

\* What the services answer.
LEMMA AnswersSent ==
  ASSUME NEW e
  PROVE  \A S \in {authdAnswers(e), probedAnswers(e), collectordAnswers(e), topologydAnswers(e),
                   NoAnswers(e)} : S \in SUBSET Sends /\ Reticent(S)
BY DEF authdAnswers, probedAnswers, collectordAnswers, topologydAnswers, NoAnswers, Sends, Reticent

\* One turn of a daemon's loop moves it as its kind moves, and takes what it handled
\* from its queue.
Turned(d, p, q) ==
  /\ q \in ProcRecs(d)
  /\ q.evs = IF p.evs # <<>> THEN Tail(p.evs) ELSE <<>>
  /\ LET e == IF p.evs # <<>> THEN Head(p.evs) ELSE Head(p.acts)
     IN  IF d \in Gated THEN GatedMove(p, e, q) ELSE EagerMove(p, e, q)

LEMMA Turning ==
  ASSUME NEW d \in ServiceSet, NEW p \in ProcRecs(d), p.tx = {}, p.evs # <<>> \/ p.acts # <<>>
  PROVE  Turned(d, p, ExecuteOf(d, p))
<1> DEFINE r == ExecuteOf(d, p)
<1>0. d \in {"authd", "probed", "collectord", "topologyd", "apid", "mgmtd"}
  BY DEF ServiceSet, Gated
<1>1. CASE p.evs # <<>>
  <2> DEFINE p1 == [p EXCEPT !.evs = Tail(@)]
             e == Head(p.evs)
             Others == {Beats(p1, e), ReloadEvent(p1), p1}
             Posted == [p1 EXCEPT !.acts = Append(@, e)]
             Served(S) == [p1 EXCEPT !.tx = @ \cup S]
  <2>1. /\ p1 \in ProcRecs(d) /\ p1.tx = {} /\ p1.evs = Tail(p.evs)
        /\ p1.st = p.st /\ p1.started = p.started
    <3>1. Tail(p.evs) \in Seq(EventNames(d))
      BY <1>1 DEF ProcRecs
    <3> QED BY <3>1 DEF ProcRecs
  <2>2. \/ d \in Gated /\ r = GatedReceive(p1, e)
        \/ d \notin Gated /\ r = EagerReceive(p1, e)
        \/ r \in Others
        \/ e \in {"SendClientHello", "SendRuntimeReady"} /\ r = Posted
        \/ \E S \in {authdAnswers(e), probedAnswers(e), collectordAnswers(e), topologydAnswers(e),
                     NoAnswers(e)} : r = Served(S)
    <3> USE <1>1 DEF ExecuteOf, RunOne, Gated
    <3>1. CASE d = "authd" BY <3>1 DEF authdExecute, authdReceive, authdBeats
    <3>2. CASE d = "probed" BY <3>2 DEF probedExecute, probedReceive, probedBeats
    <3>3. CASE d = "collectord" BY <3>3 DEF collectordExecute, collectordReceive, collectordBeats
    <3>4. CASE d = "topologyd" BY <3>4 DEF topologydExecute, topologydReceive, topologydBeats
    <3>5. CASE d = "apid" BY <3>5 DEF apidExecute, apidReceive, apidBeats
    <3>6. CASE d = "mgmtd" BY <3>6 DEF mgmtdExecute, mgmtdReceive, mgmtdBeats
    <3> QED BY <1>0, <3>1, <3>2, <3>3, <3>4, <3>5, <3>6
  <2>3. /\ GatedReceive(p1, e) \in ProcRecs(d) /\ GatedMove(p1, e, GatedReceive(p1, e))
        /\ GatedReceive(p1, e).evs = p1.evs
        /\ EagerReceive(p1, e) \in ProcRecs(d) /\ EagerMove(p1, e, EagerReceive(p1, e))
        /\ EagerReceive(p1, e).evs = p1.evs
    <3> HIDE DEF p1, e
    <3> QED BY <2>1, Handled
  <2>4. /\ \A q \in Others : Idles(d, p1, q)
        /\ e \in {"SendClientHello", "SendRuntimeReady"} => Idles(d, p1, Posted)
        /\ \A S \in SUBSET Sends : Reticent(S) => Idles(d, p1, Served(S))
    <3> HIDE DEF p1, e
    <3> QED BY <2>1, Idled
  <2>5. \A S \in {authdAnswers(e), probedAnswers(e), collectordAnswers(e), topologydAnswers(e),
                  NoAnswers(e)} : S \in SUBSET Sends /\ Reticent(S)
    <3> HIDE DEF e
    <3> QED BY AnswersSent
  <2>6. \/ d \in Gated /\ r \in ProcRecs(d) /\ GatedMove(p1, e, r) /\ r.evs = p1.evs
        \/ d \notin Gated /\ r \in ProcRecs(d) /\ EagerMove(p1, e, r) /\ r.evs = p1.evs
        \/ Idles(d, p1, r)
    <3> HIDE DEF p1, e, r, Others, Posted, Served
    <3> QED BY <2>2, <2>3, <2>4, <2>5
  <2>7. /\ r \in ProcRecs(d) /\ r.evs = p1.evs
        /\ d \in Gated => GatedMove(p1, e, r)
        /\ d \notin Gated => EagerMove(p1, e, r)
    <3> HIDE DEF p1, e, r
    <3> QED BY <2>6 DEF Idles, GatedMove, EagerMove
  <2>8. /\ GatedMove(p1, e, r) => GatedMove(p, e, r)
        /\ EagerMove(p1, e, r) => EagerMove(p, e, r)
    <3> HIDE DEF p1, e, r
    <3> QED BY <2>1 DEF GatedMove, EagerMove
  <2> HIDE DEF p1
  <2> QED BY <1>1, <2>1, <2>7, <2>8 DEF Turned
<1>2. CASE p.evs = <<>>
  <2> DEFINE p1 == [p EXCEPT !.acts = Tail(@)]
             a == Head(p.acts)
  <2>1. /\ p1 \in ProcRecs(d) /\ p1.tx = {} /\ p1.evs = <<>>
        /\ p1.st = p.st /\ p1.started = p.started
    <3>1. Tail(p.acts) \in Seq(ActionNames)
      BY <1>2 DEF ProcRecs
    <3> QED BY <1>2, <3>1 DEF ProcRecs
  <2>2. \/ d \in Gated /\ r = GatedAct(p1, a)
        \/ d \notin Gated /\ r = EagerAct(p1, a)
        \/ r = Beats(p1, a)
    <3> USE <1>2 DEF ExecuteOf, RunOne, Gated
    <3>1. CASE d = "authd" BY <3>1 DEF authdExecute, authdAct, authdBeats
    <3>2. CASE d = "probed" BY <3>2 DEF probedExecute, probedAct, probedBeats
    <3>3. CASE d = "collectord" BY <3>3 DEF collectordExecute, collectordAct, collectordBeats
    <3>4. CASE d = "topologyd" BY <3>4 DEF topologydExecute, topologydAct, topologydBeats
    <3>5. CASE d = "apid" BY <3>5 DEF apidExecute, apidAct, apidBeats
    <3>6. CASE d = "mgmtd" BY <3>6 DEF mgmtdExecute, mgmtdAct, mgmtdBeats
    <3> QED BY <1>0, <3>1, <3>2, <3>3, <3>4, <3>5, <3>6
  <2>3. /\ GatedAct(p1, a) \in ProcRecs(d) /\ GatedMove(p1, a, GatedAct(p1, a))
        /\ GatedAct(p1, a).evs = p1.evs
        /\ EagerAct(p1, a) \in ProcRecs(d) /\ EagerMove(p1, a, EagerAct(p1, a))
        /\ EagerAct(p1, a).evs = p1.evs
        /\ Idles(d, p1, Beats(p1, a))
    <3> HIDE DEF p1, a
    <3> QED BY <2>1, Handled, Idled
  <2>4. /\ r \in ProcRecs(d) /\ r.evs = p1.evs
        /\ d \in Gated => GatedMove(p1, a, r)
        /\ d \notin Gated => EagerMove(p1, a, r)
    <3> HIDE DEF p1, a, r
    <3> QED BY <2>2, <2>3 DEF Idles, GatedMove, EagerMove
  <2>5. /\ GatedMove(p1, a, r) => GatedMove(p, a, r)
        /\ EagerMove(p1, a, r) => EagerMove(p, a, r)
    <3> HIDE DEF p1, a, r
    <3> QED BY <2>1 DEF GatedMove, EagerMove
  <2> HIDE DEF p1
  <2> QED BY <1>2, <2>1, <2>4, <2>5 DEF Turned
<1> QED BY <1>1, <1>2

\* What schedule() posts and where it goes.
LEMMA Scheduling ==
  ASSUME NEW d \in ServiceSet, NEW st \in BootStates, NEW due \in BOOLEAN, NEW late \in BOOLEAN
  PROVE  LET q == TurnOf(d, st, due, late)
         IN  /\ q.ev \in Seq({"SendClientHello", "SendRuntimeReady", "Ready"})
             /\ q.tx \in SUBSET Sends
             /\ \/ q.st = st
                \/ st = "Init" /\ q.st = "WaitServerHello"
                \/ st = "Ready" /\ q.st = "Running"
                \/ d = "mgmtd" /\ st \in {"Init", "WaitServerHello"} /\ q.st = "Failed"
<1> DEFINE Fits(q) ==
             /\ q.ev \in Seq({"SendClientHello", "SendRuntimeReady", "Ready"})
             /\ q.tx \in SUBSET Sends
             /\ \/ q.st = st
                \/ st = "Init" /\ q.st = "WaitServerHello"
                \/ st = "Ready" /\ q.st = "Running"
                \/ d = "mgmtd" /\ st \in {"Init", "WaitServerHello"} /\ q.st = "Failed"
<1>0. \A e \in {"SendClientHello", "SendRuntimeReady", "Ready"} :
        <<e>> \in Seq({"SendClientHello", "SendRuntimeReady", "Ready"})
  OBVIOUS
<1>1. Fits(RetrySchedule(st, due))
  <2>1. CASE st = "Init" BY <2>1, <1>0 DEF RetrySchedule, Posts
  <2>2. CASE st \in {"WaitServerHello", "WaitRuntimeStart"}
    <3>1. CASE due
      <4>1. PICK e \in {"SendClientHello", "SendRuntimeReady"} : RetrySchedule(st, due) = Posts(st, <<e>>)
        BY <2>2, <3>1 DEF RetrySchedule
      <4>2. <<e>> \in Seq({"SendClientHello", "SendRuntimeReady", "Ready"})
        BY <1>0
      <4> QED BY <4>1, <4>2 DEF Posts
    <3>2. CASE ~due
      <4>1. RetrySchedule(st, due) = Posts(st, <<>>)
        BY <2>2, <3>2 DEF RetrySchedule
      <4> QED BY <4>1 DEF Posts
    <3> QED BY <3>1, <3>2
  <2>3. CASE st \in {"Ready", "Running", "Failed"} BY <2>3 DEF RetrySchedule, Posts
  <2> QED BY <2>1, <2>2, <2>3 DEF BootStates
<1>2. d = "mgmtd" => Fits(mgmtdSchedule(st, due, late))
  <2> HAVE d = "mgmtd"
  <2>1. CASE st \in {"Init", "WaitServerHello"} /\ late BY <2>1 DEF mgmtdSchedule, Posts
  <2>2. CASE st = "Ready" BY <2>2, <1>0 DEF mgmtdSchedule, Posts
  <2>3. CASE ~(st \in {"Init", "WaitServerHello"} /\ late) /\ st # "Ready"
    <3> HIDE DEF Fits
    <3> QED BY <2>3, <1>1 DEF mgmtdSchedule
  <2> QED BY <2>1, <2>2, <2>3
<1>3. ASSUME NEW S \in SUBSET Sends, NEW q, Fits(q) PROVE Fits(Turn(st, q, S))
  BY <1>3 DEF Turn, Posts
<1>4. {} \in SUBSET Sends /\ collectordSends \in SUBSET Sends /\ mgmtdSends \in SUBSET Sends
  BY DEF Sends
<1> HIDE DEF Fits
<1>5. Fits(TurnOf(d, st, due, late))
  <2> USE DEF TurnOf
  <2>1. CASE d = "authd" BY <2>1, <1>1, <1>3, <1>4 DEF authdTurn, authdSchedule
  <2>2. CASE d = "probed" BY <2>2, <1>1, <1>3, <1>4 DEF probedTurn, probedSchedule
  <2>3. CASE d = "collectord" BY <2>3, <1>1, <1>3, <1>4 DEF collectordTurn, collectordSchedule
  <2>4. CASE d = "topologyd" BY <2>4, <1>1, <1>3, <1>4 DEF topologydTurn, topologydSchedule
  <2>5. CASE d = "apid" BY <2>5, <1>1, <1>3, <1>4 DEF apidTurn, apidSchedule
  <2>6. CASE d = "mgmtd" BY <2>6, <1>2, <1>3, <1>4 DEF mgmtdTurn
  <2> QED BY <2>1, <2>2, <2>3, <2>4, <2>5, <2>6 DEF ServiceSet, Gated
<1> QED BY <1>5 DEF Fits

-----------------------------------------------------------------------------
(* The invariant.                                                          *)

\* Types, and nothing was dropped.
DmTypes ==
  /\ dmSelf \in ServiceSet /\ dmState \in BootStates /\ dmTurn \in {"poll", "execute"}
  /\ dmInbox \in Seq(FramesFor(dmSelf)) /\ dmEvents \in Seq(EventNames(dmSelf))
  /\ dmActions \in Seq(ActionNames)
  /\ dmHellos \in Nat /\ dmSaid \subseteq {"hello", "ready"}
  /\ dmStarted \in BOOLEAN /\ dmLate \in BOOLEAN /\ dmReload \in BOOLEAN
  /\ dmUnhandled = {}

\* x is on its way: in the inbox or among the events of this turn.
Comes(x) ==
  \/ \E i \in 1..Len(dmInbox) : dmInbox[i] = x
  \/ \E i \in 1..Len(dmEvents) : dmEvents[i] = x

\* ServerHello and RuntimeStart come to a process that greeted ipcd, and the state of the bootstrap
\* says what the process has said.
BootInv ==
  /\ dmHellos > 0 \/ Comes("ServerHello") => "hello" \in dmSaid
  /\ Comes("RuntimeStart") => "hello" \in dmSaid
  /\ "ready" \in dmSaid => "hello" \in dmSaid
  /\ dmState \in {"Init", "WaitServerHello"} => "ready" \notin dmSaid
  /\ dmState = "WaitRuntimeStart" => dmSelf \in Gated /\ "hello" \in dmSaid
  /\ dmState = "Ready" => /\ "hello" \in dmSaid
                          /\ IF dmSelf \in Gated THEN dmStarted ELSE "ready" \in dmSaid

\* Taking the oldest entry of a queue and adding to it.
LEMMA QueueMoves ==
  ASSUME NEW S, NEW s \in Seq(S)
  PROVE  /\ s # <<>> => /\ Tail(s) \in Seq(S) /\ Head(s) \in S
                        /\ 1 \in 1..Len(s) /\ s[1] = Head(s)
                        /\ \A i \in 1..Len(Tail(s)) : i + 1 \in 1..Len(s) /\ Tail(s)[i] = s[i + 1]
         /\ \A x \in S : /\ Append(s, x) \in Seq(S)
                         /\ \A i \in 1..Len(Append(s, x)) :
                              (i \in 1..Len(s) /\ Append(s, x)[i] = s[i]) \/ Append(s, x)[i] = x
         /\ \A t \in Seq(S) : /\ s \o t \in Seq(S)
                              /\ \A i \in 1..Len(s \o t) :
                                   \/ i \in 1..Len(s) /\ (s \o t)[i] = s[i]
                                   \/ i - Len(s) \in 1..Len(t) /\ (s \o t)[i] = t[i - Len(s)]
<1>1. s # <<>> => /\ Tail(s) \in Seq(S) /\ Head(s) \in S
                  /\ 1 \in 1..Len(s) /\ s[1] = Head(s)
                  /\ \A i \in 1..Len(Tail(s)) : i + 1 \in 1..Len(s) /\ Tail(s)[i] = s[i + 1]
  OBVIOUS
<1>2. \A x \in S : /\ Append(s, x) \in Seq(S)
                   /\ \A i \in 1..Len(Append(s, x)) :
                        (i \in 1..Len(s) /\ Append(s, x)[i] = s[i]) \/ Append(s, x)[i] = x
  OBVIOUS
<1>3. \A t \in Seq(S) : /\ s \o t \in Seq(S)
                        /\ \A i \in 1..Len(s \o t) :
                             \/ i \in 1..Len(s) /\ (s \o t)[i] = s[i]
                             \/ i - Len(s) \in 1..Len(t) /\ (s \o t)[i] = t[i - Len(s)]
  OBVIOUS
<1> QED BY <1>1, <1>2, <1>3

\* What the fleet can tell of a turn of execute().
Outcome ==
  \/ UNCHANGED <<dmState, dmStarted, dmSaid, dmHellos>>
  \/ /\ dmState = "WaitServerHello" /\ UNCHANGED <<dmState, dmStarted>>
     /\ dmSaid' = dmSaid \cup {"hello"} /\ dmHellos' = dmHellos + 1
  \/ /\ dmSelf \in Gated /\ dmState = "WaitRuntimeStart" /\ UNCHANGED <<dmState, dmStarted, dmHellos>>
     /\ dmSaid' = dmSaid \cup {"ready"}
  \/ /\ dmSelf \in Gated /\ Comes("ServerHello")
     /\ dmState = "WaitServerHello" /\ dmState' = "WaitRuntimeStart"
     /\ UNCHANGED <<dmStarted, dmSaid, dmHellos>>
  \/ /\ dmSelf \in Gated /\ Comes("RuntimeStart")
     /\ dmState = "WaitRuntimeStart" /\ dmState' = "Ready" /\ dmStarted' = TRUE
     /\ UNCHANGED <<dmSaid, dmHellos>>
  \/ /\ dmSelf \notin Gated /\ Comes("ServerHello")
     /\ dmState = "WaitServerHello" /\ dmState' = "Ready"
     /\ dmSaid' = dmSaid \cup {"ready"} /\ UNCHANGED <<dmStarted, dmHellos>>

\* A turn of execute() ends in one of them, and brings no frame.
LEMMA Executing ==
  ASSUME DmTypes, DmExecute
  PROVE  DmTypes' /\ Outcome /\ \A x : Comes(x)' => Comes(x)
<1>1. PICK q : /\ q = ExecuteOf(dmSelf, Process)
               /\ dmState' = q.st /\ dmEvents' = q.evs /\ dmActions' = q.acts
               /\ dmHellos' = IF <<"ipcd", "ClientHello">> \in q.tx THEN dmHellos + 1 ELSE dmHellos
               /\ dmSaid' = dmSaid \cup {s \in {"hello"} : <<"ipcd", "ClientHello">> \in q.tx}
                                   \cup {s \in {"ready"} : <<"ipcd", "RuntimeReady">> \in q.tx}
               /\ dmStarted' = q.started /\ dmReload' = q.reload
               /\ dmUnhandled' = dmUnhandled \cup Discarded(q.tx)
  BY DEF DmExecute
<1>2. /\ dmEvents # <<>> \/ dmActions # <<>>
      /\ UNCHANGED <<dmSelf, dmInbox, dmTurn, dmLate, dmBudget>>
  BY DEF DmExecute
<1>3. Process \in ProcRecs(dmSelf) /\ Process.tx = {}
  BY DEF Process, ProcRecs, DmTypes
<1>4. /\ Process.st = dmState /\ Process.evs = dmEvents /\ Process.acts = dmActions
      /\ Process.started = dmStarted
  BY DEF Process
<1>5. Turned(dmSelf, Process, q)
  <2>1. dmSelf \in ServiceSet BY DEF DmTypes
  <2> QED BY <1>1, <1>2, <1>3, <1>4, <2>1, Turning
<1> DEFINE e == IF dmEvents # <<>> THEN Head(dmEvents) ELSE Head(dmActions)
<1>6. /\ q \in ProcRecs(dmSelf)
      /\ q.evs = IF dmEvents # <<>> THEN Tail(dmEvents) ELSE <<>>
      /\ dmSelf \in Gated => GatedMove(Process, e, q)
      /\ dmSelf \notin Gated => EagerMove(Process, e, q)
  BY <1>4, <1>5 DEF Turned
<1>7. \A x \in {"ServerHello", "RuntimeStart"} : e = x => Comes(x)
  <2>1. CASE dmEvents # <<>>
    BY <2>1, QueueMoves DEF DmTypes, Comes
  <2>2. CASE dmEvents = <<>>
    <3>1. Head(dmActions) \in ActionNames
      BY <1>2, <2>2, QueueMoves DEF DmTypes
    <3> QED BY <2>2, <3>1 DEF ActionNames
  <2> QED BY <2>1, <2>2
<1>8. \A x : Comes(x)' => Comes(x)
  <2>1. CASE dmEvents # <<>>
    BY <1>1, <1>2, <1>6, <2>1, QueueMoves DEF DmTypes, Comes
  <2>2. CASE dmEvents = <<>>
    BY <1>1, <1>2, <1>6, <2>2 DEF Comes
  <2> QED BY <2>1, <2>2
<1>9. DmTypes'
  <2>1. Discarded(q.tx) = {}
    <3>1. q.tx \in SUBSET Sends BY <1>6 DEF ProcRecs
    <3> QED BY <3>1, SendsDelivered
  <2>2. /\ q.st \in BootStates /\ q.evs \in Seq(EventNames(dmSelf)) /\ q.acts \in Seq(ActionNames)
        /\ q.started \in BOOLEAN /\ q.reload \in BOOLEAN
    BY <1>6 DEF ProcRecs
  <2>3. /\ dmSelf \in ServiceSet /\ dmTurn \in {"poll", "execute"} /\ dmInbox \in Seq(FramesFor(dmSelf))
        /\ dmLate \in BOOLEAN /\ dmHellos \in Nat /\ dmSaid \subseteq {"hello", "ready"}
        /\ dmUnhandled = {}
    BY DEF DmTypes
  <2>4. dmHellos' \in Nat /\ dmSaid' \subseteq {"hello", "ready"} /\ dmUnhandled' = {}
    <3>1. dmHellos' \in Nat BY <1>1, <2>3
    <3>2. dmSaid' \subseteq {"hello", "ready"} BY <1>1, <2>3
    <3>3. dmUnhandled' = {} BY <1>1, <2>1, <2>3
    <3> QED BY <3>1, <3>2, <3>3
  <2>5. /\ dmState' \in BootStates /\ dmEvents' \in Seq(EventNames(dmSelf))
        /\ dmActions' \in Seq(ActionNames) /\ dmStarted' \in BOOLEAN /\ dmReload' \in BOOLEAN
    BY <1>1, <2>2
  <2>6. /\ dmSelf' = dmSelf /\ dmInbox' = dmInbox /\ dmTurn' = dmTurn /\ dmLate' = dmLate
    BY <1>2
  <2> QED BY <2>3, <2>4, <2>5, <2>6, Zenon DEF DmTypes
<1>10. Outcome
  <2>1. <<"ipcd", "ClientHello">> # <<"ipcd", "RuntimeReady">>
    OBVIOUS
  <2>2. Reticent(q.tx) => dmSaid' = dmSaid /\ dmHellos' = dmHellos
    BY <1>1 DEF Reticent
  <2>3. q.tx = {} => dmSaid' = dmSaid /\ dmHellos' = dmHellos
    BY <1>1
  <2>4. q.tx = {<<"ipcd", "ClientHello">>} => dmSaid' = dmSaid \cup {"hello"} /\ dmHellos' = dmHellos + 1
    BY <1>1, <2>1
  <2>5. q.tx = {<<"ipcd", "RuntimeReady">>} => dmSaid' = dmSaid \cup {"ready"} /\ dmHellos' = dmHellos
    BY <1>1, <2>1
  <2> HIDE DEF e
  <2>6. CASE dmSelf \in Gated
    BY <1>1, <1>4, <1>6, <1>7, <2>2, <2>3, <2>4, <2>5, <2>6 DEF GatedMove, Outcome
  <2>7. CASE dmSelf \notin Gated
    BY <1>1, <1>4, <1>6, <1>7, <2>2, <2>3, <2>4, <2>5, <2>7 DEF EagerMove, Outcome
  <2> QED BY <2>6, <2>7
<1> QED BY <1>8, <1>9, <1>10

\* One frame is read, and its factory knows it.
LEMMA Polling ==
  ASSUME DmTypes, DmPoll
  PROVE  DmTypes' /\ \A x : Comes(x)' => Comes(x)
<1>1. /\ Tail(dmInbox) \in Seq(FramesFor(dmSelf)) /\ Head(dmInbox) \in FramesFor(dmSelf)
      /\ 1 \in 1..Len(dmInbox) /\ dmInbox[1] = Head(dmInbox)
      /\ \A i \in 1..Len(Tail(dmInbox)) : i + 1 \in 1..Len(dmInbox) /\ Tail(dmInbox)[i] = dmInbox[i + 1]
  BY QueueMoves DEF DmPoll, DmTypes
<1>2. Head(dmInbox) \in DOMAIN CreateOf[dmSelf]
  BY <1>1, FramesKnown DEF DmTypes
<1>3. /\ Append(dmEvents, Head(dmInbox)) \in Seq(EventNames(dmSelf))
      /\ \A i \in 1..Len(Append(dmEvents, Head(dmInbox))) :
           \/ i \in 1..Len(dmEvents) /\ Append(dmEvents, Head(dmInbox))[i] = dmEvents[i]
           \/ Append(dmEvents, Head(dmInbox))[i] = Head(dmInbox)
  <2>1. Head(dmInbox) \in EventNames(dmSelf) /\ dmEvents \in Seq(EventNames(dmSelf))
    BY <1>1 DEF EventNames, DmTypes
  <2> QED BY <2>1, QueueMoves
<1>4. /\ dmInbox' = Tail(dmInbox) /\ dmEvents' = Append(dmEvents, Head(dmInbox))
      /\ UNCHANGED <<dmSelf, dmState, dmTurn, dmActions, dmHellos, dmSaid, dmStarted, dmLate, dmReload,
                     dmUnhandled>>
  BY <1>2 DEF DmPoll
<1>5. DmTypes'
  BY <1>1, <1>3, <1>4 DEF DmTypes
<1>6. \A x : Comes(x)' => Comes(x)
  BY <1>1, <1>3, <1>4 DEF Comes
<1> QED BY <1>5, <1>6

\* schedule(), seen from the fleet.
Scheduled ==
  \/ dmState' = dmState
  \/ dmState = "Init" /\ dmState' = "WaitServerHello"
  \/ dmState = "Ready" /\ dmState' = "Running"
  \/ dmSelf = "mgmtd" /\ dmState \in {"Init", "WaitServerHello"} /\ dmState' = "Failed"

\* It posts what the daemon's own timers ask for and sends what others know.
LEMMA SchedulingStep ==
  ASSUME DmTypes, NEW due \in BOOLEAN, DmSchedule(due)
  PROVE  /\ DmTypes' /\ Scheduled /\ UNCHANGED <<dmSelf, dmStarted, dmSaid, dmHellos>>
         /\ \A x \in {"ServerHello", "RuntimeStart"} : Comes(x)' => Comes(x)
<1>1. PICK q : /\ q = TurnOf(dmSelf, dmState, due, dmLate)
               /\ dmState' = q.st /\ dmEvents' = dmEvents \o q.ev
               /\ dmUnhandled' = dmUnhandled \cup Discarded(q.tx)
  BY DEF DmSchedule
<1>2. /\ dmTurn' = "execute"
      /\ UNCHANGED <<dmSelf, dmInbox, dmActions, dmHellos, dmSaid, dmStarted, dmLate, dmReload>>
  BY DEF DmSchedule
<1> DEFINE Own == {"SendClientHello", "SendRuntimeReady", "Ready"}
<1>3. /\ q.ev \in Seq(Own) /\ q.tx \in SUBSET Sends
      /\ \/ q.st = dmState
         \/ dmState = "Init" /\ q.st = "WaitServerHello"
         \/ dmState = "Ready" /\ q.st = "Running"
         \/ dmSelf = "mgmtd" /\ dmState \in {"Init", "WaitServerHello"} /\ q.st = "Failed"
  <2>1. dmSelf \in ServiceSet /\ dmState \in BootStates /\ dmLate \in BOOLEAN
    BY DEF DmTypes
  <2> QED BY <1>1, <2>1, Scheduling
<1>4. Scheduled
  BY <1>1, <1>3 DEF Scheduled
<1>5. Discarded(q.tx) = {}
  BY <1>3, SendsDelivered
<1>6. /\ dmEvents \o q.ev \in Seq(EventNames(dmSelf))
      /\ \A i \in 1..Len(dmEvents \o q.ev) :
           \/ i \in 1..Len(dmEvents) /\ (dmEvents \o q.ev)[i] = dmEvents[i]
           \/ (dmEvents \o q.ev)[i] \in Own
  <2>1. dmEvents \in Seq(EventNames(dmSelf))
    BY DEF DmTypes
  <2>2. q.ev \in Seq(EventNames(dmSelf)) /\ \A i \in 1..Len(q.ev) : q.ev[i] \in Own
    BY <1>3 DEF EventNames
  <2> HIDE DEF Own
  <2> QED BY <2>1, <2>2, QueueMoves
<1>7. DmTypes'
  <2>1. dmState' \in BootStates
    BY <1>4 DEF Scheduled, DmTypes, BootStates
  <2> QED BY <1>1, <1>2, <1>5, <1>6, <2>1 DEF DmTypes
<1>8. \A x \in {"ServerHello", "RuntimeStart"} : Comes(x)' => Comes(x)
  BY <1>1, <1>2, <1>6 DEF Comes
<1> QED BY <1>2, <1>4, <1>7, <1>8

\* A frame the fleet sends arrives behind the others.
LEMMA Arriving ==
  ASSUME DmTypes, NEW c \in FramesFor(dmSelf), Arrives(c), dmHellos' \in Nat
  PROVE  DmTypes' /\ \A x : Comes(x)' => Comes(x) \/ x = c
<1>1. /\ dmInbox' = Append(dmInbox, c)
      /\ UNCHANGED <<dmSelf, dmState, dmTurn, dmEvents, dmActions, dmSaid, dmStarted, dmLate, dmReload,
                     dmUnhandled>>
  BY DEF Arrives
<1>2. /\ Append(dmInbox, c) \in Seq(FramesFor(dmSelf))
      /\ \A i \in 1..Len(Append(dmInbox, c)) :
           (i \in 1..Len(dmInbox) /\ Append(dmInbox, c)[i] = dmInbox[i]) \/ Append(dmInbox, c)[i] = c
  BY QueueMoves DEF DmTypes
<1>3. DmTypes'
  BY <1>1, <1>2 DEF DmTypes
<1>4. \A x : Comes(x)' => Comes(x) \/ x = c
  BY <1>1, <1>2 DEF Comes
<1> QED BY <1>3, <1>4

\* No frame is left when a process replaces itself.
LEMMA Restarting ==
  ASSUME DmTypes, DmRestart
  PROVE  DmTypes' /\ \A x : ~Comes(x)'
<1>1. /\ dmState' = "Init" /\ dmInbox' = <<>> /\ dmHellos' = 0 /\ dmSaid' = {}
      /\ dmEvents' = <<>> /\ dmActions' = <<>>
      /\ dmStarted' = FALSE /\ dmLate' = FALSE /\ dmReload' = FALSE
      /\ UNCHANGED <<dmSelf, dmTurn, dmUnhandled>>
  BY DEF DmRestart
<1>2. DmTypes'
  <2>1. \A S : <<>> \in Seq(S) OBVIOUS
  <2>2. /\ dmState' \in BootStates /\ dmHellos' \in Nat /\ dmSaid' \subseteq {"hello", "ready"}
        /\ dmStarted' \in BOOLEAN /\ dmLate' \in BOOLEAN /\ dmReload' \in BOOLEAN
    BY <1>1 DEF BootStates
  <2> QED BY <1>1, <2>1, <2>2 DEF DmTypes
<1>3. \A x : ~Comes(x)'
  BY <1>1 DEF Comes
<1> QED BY <1>2, <1>3

\* Every step of a daemon and of its surroundings keeps the types, and drops no frame.
LEMMA DmTypesStep == DmTypes /\ [DmNext]_dmVars => DmTypes'
<1> SUFFICES ASSUME DmTypes, [DmNext]_dmVars PROVE DmTypes'
  OBVIOUS
<1>1. CASE DmPoll BY <1>1, Polling
<1>2. ASSUME NEW due \in BOOLEAN, DmSchedule(due) PROVE DmTypes'
  BY <1>2, SchedulingStep
<1>3. CASE DmExecute BY <1>3, Executing
<1>4. CASE DmTurnEnds BY <1>4 DEF DmTurnEnds, DmTypes
<1>5. CASE DmRestart BY <1>5, Restarting
<1>6. CASE DmLateNow BY <1>6 DEF DmLateNow, DmTypes
<1>7. CASE AnswerHello
  BY <1>7, Arriving DEF AnswerHello, DmTypes, FramesFor
<1>8. CASE LoseHello BY <1>8 DEF LoseHello, DmTypes
<1>9. CASE StartFleet
  BY <1>9, Arriving DEF StartFleet, DmTypes, FramesFor
<1>10. ASSUME NEW c \in SentTo(dmSelf), FleetSends(c) PROVE DmTypes'
  BY <1>10, Arriving DEF FleetSends, DmTypes, FramesFor
<1>11. CASE UNCHANGED dmVars BY <1>11 DEF dmVars, DmTypes
<1> QED BY <1>1, <1>2, <1>3, <1>4, <1>5, <1>6, <1>7, <1>8, <1>9, <1>10, <1>11 DEF DmNext

\* A new process is well formed.
LEMMA DmTypesInit == DmInit => DmTypes /\ \A x : ~Comes(x)
<1> SUFFICES ASSUME DmInit PROVE DmTypes /\ \A x : ~Comes(x)
  OBVIOUS
<1>1. \A S : <<>> \in Seq(S) OBVIOUS
<1>2. /\ dmState \in BootStates /\ dmHellos \in Nat /\ dmSaid \subseteq {"hello", "ready"}
      /\ dmStarted \in BOOLEAN /\ dmLate \in BOOLEAN /\ dmReload \in BOOLEAN
  BY DEF DmInit, Fresh, BootStates
<1>3. DmTypes
  BY <1>1, <1>2 DEF DmInit, Fresh, DmTypes
<1>4. \A x : ~Comes(x)
  BY DEF DmInit, Fresh, Comes
<1> QED BY <1>3, <1>4

\* No sender addresses a frame to a daemon whose factory does not know it or that the routing
\* rule keeps it from, for every daemon, every order and number of frames and every loss.
THEOREM NothingUnhandledAlways == DmSpec => []NothingUnhandled
<1>1. DmInit => DmTypes BY DmTypesInit
<1>2. DmTypes /\ [DmNext]_dmVars => DmTypes' BY DmTypesStep
<1>3. DmTypes => NothingUnhandled BY DEF DmTypes, NothingUnhandled
<1> QED BY <1>1, <1>2, <1>3, PTL DEF DmSpec

-----------------------------------------------------------------------------
(* Bootstrap implements the handshake, whenever engined's broadcast comes. *)

\* The frames sent to a daemon by the services are not those of the handshake.
LEMMA SentIsNoHandshake ==
  \A d : "ServerHello" \notin SentTo(d) /\ "RuntimeStart" \notin SentTo(d)
BY DEF SentTo, ConnectorRequests

\* What a process has said follows from where it is, step by step.
LEMMA BootInvStep == DmTypes /\ BootInv /\ [DmNext]_dmVars => BootInv'
<1> SUFFICES ASSUME DmTypes, BootInv, [DmNext]_dmVars PROVE BootInv'
  OBVIOUS
<1>1. CASE DmPoll
  <2>1. UNCHANGED <<dmSelf, dmState, dmHellos, dmSaid, dmStarted>>
    BY <1>1 DEF DmPoll
  <2> QED BY <1>1, <2>1, Polling DEF BootInv
<1>2. ASSUME NEW due \in BOOLEAN, DmSchedule(due) PROVE BootInv'
  BY <1>2, SchedulingStep DEF BootInv, Scheduled
<1>3. CASE DmExecute
  <2>1. Outcome /\ dmSelf' = dmSelf /\ \A x : Comes(x)' => Comes(x)
    BY <1>3, Executing DEF DmExecute
  <2> QED BY <2>1 DEF BootInv, Outcome, DmTypes
<1>4. CASE DmTurnEnds BY <1>4 DEF DmTurnEnds, BootInv, Comes
<1>5. CASE DmRestart
  <2>1. dmState' = "Init" /\ dmHellos' = 0 /\ dmSaid' = {}
    BY <1>5 DEF DmRestart
  <2> QED BY <1>5, <2>1, Restarting DEF BootInv
<1>6. CASE DmLateNow BY <1>6 DEF DmLateNow, BootInv, Comes
<1>7. CASE AnswerHello
  <2>1. "ServerHello" \in FramesFor(dmSelf) /\ dmHellos' \in Nat /\ "hello" \in dmSaid
    BY <1>7 DEF AnswerHello, DmTypes, FramesFor, BootInv
  <2>2. \A x : Comes(x)' => Comes(x) \/ x = "ServerHello"
    BY <1>7, <2>1, Arriving DEF AnswerHello
  <2>3. UNCHANGED <<dmSelf, dmState, dmSaid, dmStarted>>
    BY <1>7 DEF AnswerHello, Arrives
  <2> QED BY <2>1, <2>2, <2>3 DEF BootInv
<1>8. CASE LoseHello
  BY <1>8 DEF LoseHello, BootInv, Comes
<1>9. CASE StartFleet
  <2>1. "RuntimeStart" \in FramesFor(dmSelf) /\ dmHellos' \in Nat /\ "hello" \in dmSaid
    BY <1>9 DEF StartFleet, DmTypes, FramesFor
  <2>2. \A x : Comes(x)' => Comes(x) \/ x = "RuntimeStart"
    BY <1>9, <2>1, Arriving DEF StartFleet
  <2>3. UNCHANGED <<dmSelf, dmState, dmHellos, dmSaid, dmStarted>>
    BY <1>9 DEF StartFleet, Arrives
  <2> QED BY <2>1, <2>2, <2>3 DEF BootInv
<1>10. ASSUME NEW c \in SentTo(dmSelf), FleetSends(c) PROVE BootInv'
  <2>1. c \in FramesFor(dmSelf) /\ dmHellos' \in Nat /\ c \notin {"ServerHello", "RuntimeStart"}
    BY <1>10, SentIsNoHandshake DEF FleetSends, DmTypes, FramesFor
  <2>2. \A x : Comes(x)' => Comes(x) \/ x = c
    BY <1>10, <2>1, Arriving DEF FleetSends
  <2>3. UNCHANGED <<dmSelf, dmState, dmHellos, dmSaid, dmStarted>>
    BY <1>10 DEF FleetSends, Arrives
  <2> QED BY <2>1, <2>2, <2>3 DEF BootInv
<1>11. CASE UNCHANGED dmVars BY <1>11 DEF dmVars, BootInv, Comes
<1> QED BY <1>1, <1>2, <1>3, <1>4, <1>5, <1>6, <1>7, <1>8, <1>9, <1>10, <1>11 DEF DmNext

\* Every step of a daemon is a step of the handshake, or none the fleet can see.
LEMMA HandshakeStep ==
  DmTypes /\ BootInv /\ [DmNext]_dmVars => [Abstract!HandshakeNext]_(Abstract!handshakeVars)
<1> SUFFICES ASSUME DmTypes, BootInv, [DmNext]_dmVars
             PROVE  [Abstract!HandshakeNext]_(Abstract!handshakeVars)
  OBVIOUS
<1> DEFINE Same == UNCHANGED <<dmSelf, dmState, dmSaid, dmStarted>>
<1>0. Same => UNCHANGED Abstract!handshakeVars
  BY DEF Abstract!handshakeVars, Phase
<1>1. CASE Same BY <1>0, <1>1
<1>2. ASSUME NEW due \in BOOLEAN, DmSchedule(due) PROVE [Abstract!HandshakeNext]_(Abstract!handshakeVars)
  <2>1. Scheduled /\ UNCHANGED <<dmSelf, dmStarted, dmSaid>>
    BY <1>2, SchedulingStep
  <2>2. CASE dmState' = dmState BY <2>1, <2>2, <1>0
  <2>3. CASE dmState = "Init" /\ dmState' = "WaitServerHello"
    BY <2>1, <2>3 DEF Abstract!handshakeVars, Phase
  <2>4. CASE dmState = "Ready" /\ dmState' = "Running"
    <3>1. Abstract!Serve
      BY <2>1, <2>4 DEF Abstract!Serve, Phase, BootInv
    <3> QED BY <3>1 DEF Abstract!HandshakeNext
  <2>5. CASE dmSelf = "mgmtd" /\ dmState \in {"Init", "WaitServerHello"} /\ dmState' = "Failed"
    <3>1. Abstract!GiveUp
      BY <2>1, <2>5 DEF Abstract!GiveUp, Phase, BootInv, Gated
    <3> QED BY <3>1 DEF Abstract!HandshakeNext
  <2> QED BY <2>1, <2>2, <2>3, <2>4, <2>5 DEF Scheduled
<1>3. CASE DmExecute
  <2>1. Outcome /\ dmSelf' = dmSelf
    BY <1>3, Executing DEF DmExecute
  <2>2. CASE UNCHANGED <<dmState, dmStarted, dmSaid, dmHellos>>
    BY <2>1, <2>2, <1>0
  <2>3. CASE /\ dmState = "WaitServerHello" /\ UNCHANGED <<dmState, dmStarted>>
             /\ dmSaid' = dmSaid \cup {"hello"} /\ dmHellos' = dmHellos + 1
    <3>1. CASE "hello" \in dmSaid
      <4>1. Phase' = Phase BY <2>3, <3>1 DEF Phase
      <4> QED BY <2>1, <2>3, <4>1 DEF Abstract!handshakeVars
    <3>2. CASE "hello" \notin dmSaid
      <4>1. Phase = "off" /\ Phase' = "greeting"
        BY <2>3, <3>2 DEF Phase, BootInv
      <4> QED BY <2>1, <2>3, <4>1 DEF Abstract!HandshakeNext, Abstract!Greet
    <3> QED BY <3>1, <3>2
  <2>4. CASE /\ dmSelf \in Gated /\ dmState = "WaitRuntimeStart" /\ UNCHANGED <<dmState, dmStarted, dmHellos>>
             /\ dmSaid' = dmSaid \cup {"ready"}
    <3>1. CASE "ready" \in dmSaid
      <4>1. Phase' = Phase BY <2>4, <3>1 DEF Phase
      <4> QED BY <2>1, <2>4, <4>1 DEF Abstract!handshakeVars
    <3>2. CASE "ready" \notin dmSaid
      <4>1. Phase = "greeting" /\ Phase' = "announced"
        BY <2>4, <3>2 DEF Phase, BootInv
      <4> QED BY <2>1, <2>4, <4>1 DEF Abstract!HandshakeNext, Abstract!Announce
    <3> QED BY <3>1, <3>2
  <2>5. CASE /\ dmSelf \in Gated /\ Comes("ServerHello")
             /\ dmState = "WaitServerHello" /\ dmState' = "WaitRuntimeStart"
             /\ UNCHANGED <<dmStarted, dmSaid, dmHellos>>
    <3>1. Phase' = Phase BY <2>5 DEF Phase
    <3> QED BY <2>1, <2>5, <3>1 DEF Abstract!handshakeVars
  <2>6. CASE /\ dmSelf \in Gated /\ Comes("RuntimeStart")
             /\ dmState = "WaitRuntimeStart" /\ dmState' = "Ready" /\ dmStarted' = TRUE
             /\ UNCHANGED <<dmSaid, dmHellos>>
    <3>1. Phase \in {"greeting", "announced"} /\ Phase' = Phase
      BY <2>6 DEF Phase, BootInv
    <3> QED BY <2>1, <2>6, <3>1 DEF Abstract!HandshakeNext, Abstract!Admit
  <2>7. CASE /\ dmSelf \notin Gated /\ Comes("ServerHello")
             /\ dmState = "WaitServerHello" /\ dmState' = "Ready"
             /\ dmSaid' = dmSaid \cup {"ready"} /\ UNCHANGED <<dmStarted, dmHellos>>
    <3>1. Phase = "greeting" /\ Phase' = "announced"
      BY <2>7 DEF Phase, BootInv
    <3> QED BY <2>1, <2>7, <3>1 DEF Abstract!HandshakeNext, Abstract!Announce
  <2> QED BY <2>1, <2>2, <2>3, <2>4, <2>5, <2>6, <2>7 DEF Outcome
<1>4. CASE DmRestart
  <2>1. Phase' = "off" /\ dmStarted' = FALSE /\ dmSelf' = dmSelf
    BY <1>4 DEF DmRestart, Phase
  <2> QED BY <2>1 DEF Abstract!HandshakeNext, Abstract!StartOver
<1>5. CASE DmPoll \/ DmTurnEnds \/ DmLateNow \/ AnswerHello \/ LoseHello \/ StartFleet
  BY <1>1, <1>5 DEF DmPoll, DmTurnEnds, DmLateNow, AnswerHello, LoseHello, StartFleet, Arrives
<1>6. ASSUME NEW c \in SentTo(dmSelf), FleetSends(c) PROVE [Abstract!HandshakeNext]_(Abstract!handshakeVars)
  BY <1>1, <1>6 DEF FleetSends, Arrives
<1>7. CASE UNCHANGED dmVars BY <1>1, <1>7 DEF dmVars
<1> QED BY <1>2, <1>3, <1>4, <1>5, <1>6, <1>7 DEF DmNext

\* The bootstrap of each of the six daemons implements the handshake, whatever frames come
\* besides, whichever ServerHellos are lost, whenever a RuntimeStart comes and however often it
\* reloads.
THEOREM HandshakeImplemented == DmSpec => ImplementsHandshake
<1>1. DmInit => DmTypes /\ BootInv
  BY DmTypesInit DEF DmInit, Fresh, BootInv
<1>2. DmTypes /\ BootInv /\ [DmNext]_dmVars => (DmTypes /\ BootInv)'
  BY DmTypesStep, BootInvStep
<1>3. DmInit => Abstract!HandshakeInit
  BY DEF DmInit, Fresh, Abstract!HandshakeInit, Phase
<1>4. DmTypes /\ BootInv /\ [DmNext]_dmVars => [Abstract!HandshakeNext]_(Abstract!handshakeVars)
  BY HandshakeStep
<1> QED BY <1>1, <1>2, <1>3, <1>4, PTL DEF DmSpec, ImplementsHandshake, Abstract!HandshakeSpec

=============================================================================
