---------------------------- MODULE AccessProofs ----------------------------
(***************************************************************************)
(* Proofs about Access, for any accounts, browsers, responses and bounds,  *)
(* and with local and federated sign-ins in one behaviour, statements of   *)
(* engined's that fail, restarts of it and changes of the declared roles.  *)
(* The accounts rest on what is queued for engined: the last update queued *)
(* for an account carries what the console answered.  The federated        *)
(* sign-in rests on the tickets: a ticket is at one place at a time        *)
(* (waiting for authd, in an answer, among the results, in a session) and  *)
(* moves one way.                                                          *)
(***************************************************************************)
EXTENDS Access, SequenceTheorems, TLAPS

Password == Secrets \cup {0, FactorySecret}
Update == [user : Users, remove : BOOLEAN, pw : Password]
Verdict == [success : BOOLEAN, user : {0} \cup {Named(r) : r \in SamlResponses}]
Answer == [ticket : Nat, verdict : Verdict]
Done == [state : Nat, nonce : Nat]

SessionNames == Users \cup {0} \cup {Named(r) : r \in SamlResponses}
Session == [user : SessionNames, admin : BOOLEAN, must : BOOLEAN, via : Nat]
Row == [pw : Password, must : BOOLEAN, old : BOOLEAN, here : BOOLEAN]

LocalTypes ==
  /\ localUsers \in [Users -> Row]
  /\ updates \in Seq(Update)
  /\ answeredPw \in [Users -> Password]

SsoTypes ==
  /\ issued \in Seq(SamlResponses)
  /\ acsQueue \in Seq(Nat)
  /\ acsAnswers \in Seq(Answer)
  /\ DOMAIN ssoResults \subseteq 1..Len(issued)
  /\ \A t \in DOMAIN ssoResults : ssoResults[t] \in Verdict

OidcTypes ==
  /\ oktaNext \in Nat /\ oktaTxns \subseteq 1..oktaNext
  /\ oidcDone \in Seq(Done)

AccessTypes == LocalTypes /\ SsoTypes /\ OidcTypes /\ sessions \in [Browsers -> Session]

\* A local session belongs to an account.
SessionsSound ==
  \A b \in Browsers : sessions[b].via = 0 => sessions[b].user \in Users \cup {0}

\* The last update of an account carries the answer.
LastSays ==
  \A u \in Users \ OldFormat :
    /\ ~localUsers[u].old
    /\ \A i \in 1..Len(updates) :
         /\ updates[i].user = u
         /\ \A j \in 1..Len(updates) : j > i => updates[j].user # u
         => StoredRow(updates[i]).pw = answeredPw[u]

\* A ticket is at one place.
TicketsOnce ==
  /\ \A i \in 1..Len(acsQueue) : acsQueue[i] \in 1..Len(issued)
  /\ \A i \in 1..Len(acsAnswers) : acsAnswers[i].ticket \in 1..Len(issued)
  /\ \A b \in Browsers : sessions[b].via \in 0..Len(issued)
  /\ \A i, j \in 1..Len(acsQueue) : acsQueue[i] = acsQueue[j] => i = j
  /\ \A i, j \in 1..Len(acsAnswers) : acsAnswers[i].ticket = acsAnswers[j].ticket => i = j
  /\ \A i \in 1..Len(acsQueue), j \in 1..Len(acsAnswers) : acsQueue[i] # acsAnswers[j].ticket
  /\ \A i \in 1..Len(acsQueue) : acsQueue[i] \notin DOMAIN ssoResults
  /\ \A i \in 1..Len(acsAnswers) : acsAnswers[i].ticket \notin DOMAIN ssoResults
  /\ \A i \in 1..Len(acsQueue), b \in Browsers : acsQueue[i] # sessions[b].via
  /\ \A i \in 1..Len(acsAnswers), b \in Browsers : acsAnswers[i].ticket # sessions[b].via
  /\ \A b \in Browsers : sessions[b].via \notin DOMAIN ssoResults
  /\ \A b, c \in Browsers : sessions[b].via # 0 /\ sessions[b].via = sessions[c].via => b = c

\* The response behind ticket t speaks for user u.
Speaks(t, u) == Verified(issued[t]) /\ Named(issued[t]) = u

Earned ==
  /\ \A i \in 1..Len(acsAnswers) :
       acsAnswers[i].verdict.success => Speaks(acsAnswers[i].ticket, acsAnswers[i].verdict.user)
  /\ \A t \in DOMAIN ssoResults : ssoResults[t].success => Speaks(t, ssoResults[t].user)
  /\ \A b \in Browsers : sessions[b].via # 0 => Speaks(sessions[b].via, sessions[b].user)

\* A state that an exchange succeeded for is spent.
Spent ==
  /\ \A i \in 1..Len(oidcDone) : oidcDone[i].state \in 1..oktaNext /\ oidcDone[i].state \notin oktaTxns
  /\ OidcOnce

AccountsInv == SessionsSound /\ LastSays /\ AnsweredIsStored /\ UnlockedIsSetUp
AccessInv == AccessTypes /\ AccountsInv /\ TicketsOnce /\ Earned /\ Spent

-----------------------------------------------------------------------------
\* Records of the model: what an update writes and what a sign-in opens.
LEMMA StoredType ==
  ASSUME NEW e \in Update
  PROVE  /\ StoredRow(e) \in Row
         /\ ~StoredRow(e).must /\ ~StoredRow(e).old
         /\ ~e.remove => StoredRow(e).here /\ StoredRow(e).pw = e.pw
         /\ e.remove => StoredRow(e).pw = NotSet
  BY DEF StoredRow, Row, Update, Gone, NotSet, Password

LEMMA UpdateType ==
  ASSUME NEW u \in Users, NEW pw \in Password
  PROVE  /\ \E e \in Update : /\ e = [user |-> u, remove |-> FALSE, pw |-> pw]
                              /\ e.user = u /\ ~e.remove /\ e.pw = pw
         /\ \E e \in Update : /\ e = [user |-> u, remove |-> TRUE, pw |-> pw]
                              /\ e.user = u /\ e.remove
<1>1. /\ [user |-> u, remove |-> FALSE, pw |-> pw] \in Update
      /\ [user |-> u, remove |-> TRUE, pw |-> pw] \in Update
  BY DEF Update
<1> QED BY <1>1

LEMMA SessionType ==
  ASSUME NEW u \in SessionNames, NEW must \in BOOLEAN, NEW via \in Nat
  PROVE  /\ SessionFor(u, must, via) \in Session
         /\ SessionFor(u, must, via).user = u /\ SessionFor(u, must, via).via = via
         /\ SessionFor(u, must, via).must = must
<1>1. (u \in admins) \in BOOLEAN
  OBVIOUS
<1>2. PICK a \in BOOLEAN : a = (u \in admins)
  BY <1>1
<1>3. SessionFor(u, must, via) = [user |-> u, admin |-> a, must |-> must, via |-> via]
  BY <1>2 DEF SessionFor, declaredAdmin
<1>4. /\ SessionFor(u, must, via) \in Session /\ SessionFor(u, must, via).admin = a
      /\ SessionFor(u, must, via).user = u /\ SessionFor(u, must, via).via = via
      /\ SessionFor(u, must, via).must = must
  BY <1>3 DEF Session
<1> QED BY <1>4

\* Nobody is signed in.
LEMMA NobodyType ==
  /\ NoSession \in Session /\ NoSession.user = 0 /\ NoSession.via = 0
  BY DEF NoSession, Session, SessionNames

\* What mgmtd queues for an account keeps the order of answers, if it is what was answered or
\* if the account is one of those whose hash a sign-in upgrades.
LEMMA Appended ==
  ASSUME LocalTypes, LastSays, AnsweredIsStored, NEW e \in Update,
         updates' = Append(updates, e), UNCHANGED <<localUsers, lostWrites, reseeded>>,
         \/ answeredPw' = [answeredPw EXCEPT ![e.user] = StoredRow(e).pw]
         \/ answeredPw' = answeredPw /\ e.user \in OldFormat
  PROVE  LocalTypes' /\ LastSays' /\ AnsweredIsStored'
<1>1. /\ updates' \in Seq(Update) /\ Len(updates') = Len(updates) + 1
      /\ \A i \in 1..Len(updates) : updates'[i] = updates[i]
      /\ updates'[Len(updates) + 1] = e
      /\ Len(updates) \in Nat
  BY AppendProperties DEF LocalTypes
<1>2. e.user \in Users /\ StoredRow(e).pw \in Password
  BY StoredType DEF Update, Row
<1>3. answeredPw' \in [Users -> Password]
  BY <1>2 DEF LocalTypes
<1>4. LocalTypes'
  BY <1>1, <1>3 DEF LocalTypes
<1>5. ASSUME NEW u \in Users \ OldFormat PROVE answeredPw'[u] = IF u = e.user THEN StoredRow(e).pw ELSE answeredPw[u]
  BY <1>2 DEF LocalTypes
<1>6. LastSays'
  <2> SUFFICES ASSUME NEW u \in Users \ OldFormat, NEW i \in 1..Len(updates'), updates'[i].user = u,
                      \A j \in 1..Len(updates') : j > i => updates'[j].user # u
               PROVE  StoredRow(updates'[i]).pw = answeredPw'[u]
    BY DEF LastSays
  <2>1. CASE i = Len(updates) + 1
    BY <2>1, <1>1, <1>5
  <2>2. CASE i \in 1..Len(updates)
    <3>1. e.user # u
      BY <2>2, <1>1
    <3>2. updates[i].user = u /\ \A j \in 1..Len(updates) : j > i => updates[j].user # u
      BY <2>2, <1>1
    <3>3. StoredRow(updates[i]).pw = answeredPw[u]
      BY <3>2, <2>2 DEF LastSays
    <3> QED BY <3>1, <3>3, <2>2, <1>1, <1>5
  <2> QED BY <2>1, <2>2, <1>1
<1>7. AnsweredIsStored'
  <2> SUFFICES ASSUME NEW u \in Users \ OldFormat, u \notin lostWrites' \cup reseeded',
                      \A i \in 1..Len(updates') : updates'[i].user # u
               PROVE  localUsers'[u].pw = answeredPw'[u]
    BY DEF AnsweredIsStored, StoredAsAnswered
  <2>1. e.user # u /\ \A i \in 1..Len(updates) : updates[i].user # u
    BY <1>1
  <2> QED BY <2>1, <1>5 DEF AnsweredIsStored, StoredAsAnswered
<1> QED BY <1>4, <1>6, <1>7

\* Some updates leave the queue, stored or lost: what is left still ends with the answer.
LEMMA Shortened ==
  ASSUME LocalTypes, LastSays, NEW n \in Nat, n <= Len(updates), updates' \in Seq(Update),
         Len(updates') = Len(updates) - n, \A i \in 1..Len(updates') : updates'[i] = updates[i + n],
         answeredPw' = answeredPw, \A u \in Users \ OldFormat : ~localUsers'[u].old
  PROVE  /\ LastSays'
         /\ \A j \in (n + 1)..Len(updates) : j - n \in 1..Len(updates') /\ updates'[j - n] = updates[j]
<1>0. Len(updates) \in Nat
  BY DEF LocalTypes
<1>1. ASSUME NEW j \in (n + 1)..Len(updates)
      PROVE  j - n \in 1..Len(updates') /\ updates'[j - n] = updates[j]
  <2>1. j - n \in 1..Len(updates') /\ (j - n) + n = j
    BY <1>0
  <2> QED BY <2>1
<1>2. LastSays'
  <2> SUFFICES ASSUME NEW u \in Users \ OldFormat, NEW i \in 1..Len(updates'), updates'[i].user = u,
                      \A j \in 1..Len(updates') : j > i => updates'[j].user # u
               PROVE  StoredRow(updates'[i]).pw = answeredPw'[u]
    BY DEF LastSays
  <2>1. i + n \in 1..Len(updates) /\ updates[i + n].user = u /\ updates'[i] = updates[i + n]
    BY <1>0
  <2>2. ASSUME NEW j \in 1..Len(updates), j > i + n PROVE updates[j].user # u
    <3>1. j \in (n + 1)..Len(updates) /\ j - n > i
      BY <1>0, <2>2
    <3> QED BY <3>1, <1>1
  <2> QED BY <2>1, <2>2 DEF LastSays
<1> QED BY <1>1, <1>2

\* Updates are lost, and every account they were for is noted; a row may be seeded.
LEMMA UpdatesLost ==
  ASSUME LocalTypes, LastSays, AnsweredIsStored, UnlockedIsSetUp, SessionsSound,
         NEW n \in Nat, n <= Len(updates), updates' \in Seq(Update),
         Len(updates') = Len(updates) - n, \A i \in 1..Len(updates') : updates'[i] = updates[i + n],
         answeredPw' = answeredPw, sessions' = sessions, localUsers' \in [Users -> Row],
         \A i \in 1..n : updates[i].user \in lostWrites', lostWrites \subseteq lostWrites',
         reseeded \subseteq reseeded',
         \A u \in Users : \/ localUsers'[u] = localUsers[u]
                          \/ u \in reseeded' /\ ~localUsers'[u].old
  PROVE  LocalTypes' /\ LastSays' /\ AnsweredIsStored' /\ UnlockedIsSetUp'
<1>0. Len(updates) \in Nat
  BY DEF LocalTypes
<1>1. \A u \in Users \ OldFormat : ~localUsers'[u].old
  BY DEF LastSays
<1>2. /\ LastSays'
      /\ \A j \in (n + 1)..Len(updates) : j - n \in 1..Len(updates') /\ updates'[j - n] = updates[j]
  BY <1>1, Shortened
<1>3. AnsweredIsStored'
  <2> SUFFICES ASSUME NEW u \in Users \ OldFormat, u \notin lostWrites' \cup reseeded',
                      \A i \in 1..Len(updates') : updates'[i].user # u
               PROVE  localUsers'[u].pw = answeredPw'[u]
    BY DEF AnsweredIsStored, StoredAsAnswered
  <2>1. ASSUME NEW j \in 1..Len(updates) PROVE updates[j].user # u
    <3>1. CASE j <= n
      BY <3>1
    <3>2. CASE j > n
      <4>1. j \in (n + 1)..Len(updates)
        BY <1>0, <3>2
      <4> QED BY <4>1, <1>2
    <3> QED BY <1>0, <3>1, <3>2
  <2>2. localUsers[u].pw = answeredPw[u]
    BY <2>1 DEF AnsweredIsStored, StoredAsAnswered
  <2> QED BY <2>2
<1>4. UnlockedIsSetUp'
  <2> SUFFICES ASSUME NEW b \in Browsers, sessions[b].via = 0, sessions[b].user # 0, ~sessions[b].must,
                      sessions[b].user \notin reseeded'
               PROVE  ~localUsers'[sessions[b].user].must
    BY DEF UnlockedIsSetUp
  <2>1. sessions[b].user \in Users /\ ~localUsers[sessions[b].user].must
    BY DEF UnlockedIsSetUp, SessionsSound
  <2> QED BY <2>1
<1> QED BY <1>2, <1>3, <1>4 DEF LocalTypes

\* engined stores the first update.
LEMMA Applied ==
  ASSUME LocalTypes, LastSays, AnsweredIsStored, UnlockedIsSetUp, SessionsSound,
         updates # <<>>, sessions' = sessions, answeredPw' = answeredPw,
         localUsers' = [localUsers EXCEPT ![Head(updates).user] = StoredRow(Head(updates))],
         updates' = Tail(updates),
         lostWrites' = lostWrites \ {Head(updates).user}, reseeded' = reseeded \ {Head(updates).user}
  PROVE  LocalTypes' /\ LastSays' /\ AnsweredIsStored' /\ UnlockedIsSetUp'
<1>1. PICK e \in Update : e = Head(updates) /\ e = updates[1]
  BY HeadTailProperties DEF LocalTypes
<1>2. /\ updates' \in Seq(Update) /\ Len(updates) \in Nat /\ Len(updates) > 0
      /\ Len(updates') = Len(updates) - 1
      /\ \A i \in 1..Len(updates') : updates'[i] = updates[i + 1]
  BY HeadTailProperties DEF LocalTypes
<1>3. e.user \in Users
  BY DEF Update
<1>4. localUsers' \in [Users -> Row]
  BY <1>1, <1>3, StoredType DEF LocalTypes
<1>5. \A u \in Users : localUsers'[u] = IF u = e.user THEN StoredRow(e) ELSE localUsers[u]
  BY <1>1, <1>3 DEF LocalTypes
<1>6. LocalTypes'
  BY <1>2, <1>4 DEF LocalTypes
<1>7. \A u \in Users \ OldFormat : ~localUsers'[u].old
  BY <1>5, StoredType DEF LastSays
<1>8. /\ LastSays'
      /\ \A j \in 2..Len(updates) : j - 1 \in 1..Len(updates') /\ updates'[j - 1] = updates[j]
  <2>1. 1 \in Nat /\ 1 <= Len(updates) /\ 1 + 1 = 2
    BY <1>2
  <2> QED BY <2>1, <1>2, <1>7, Shortened
<1>9. AnsweredIsStored'
  <2> SUFFICES ASSUME NEW u \in Users \ OldFormat, u \notin lostWrites' \cup reseeded',
                      \A i \in 1..Len(updates') : updates'[i].user # u
               PROVE  localUsers'[u].pw = answeredPw[u]
    BY DEF AnsweredIsStored, StoredAsAnswered
  <2>1. ASSUME NEW j \in 1..Len(updates), j > 1 PROVE updates[j].user # u
    <3>1. j \in 2..Len(updates)
      BY <1>2, <2>1
    <3> QED BY <3>1, <1>8
  <2>2. CASE e.user = u
    <3>1. 1 \in 1..Len(updates) /\ updates[1].user = u
      BY <1>1, <1>2, <2>2
    <3>2. StoredRow(updates[1]).pw = answeredPw[u]
      BY <3>1, <2>1 DEF LastSays
    <3> QED BY <3>2, <1>1, <1>5, <2>2
  <2>3. CASE e.user # u
    <3>1. \A i \in 1..Len(updates) : updates[i].user # u
      BY <1>1, <1>2, <2>1, <2>3
    <3>2. u \notin lostWrites \cup reseeded
      BY <1>1, <2>3
    <3> QED BY <3>1, <3>2, <1>5, <2>3 DEF AnsweredIsStored, StoredAsAnswered
  <2> QED BY <2>2, <2>3
<1>10. UnlockedIsSetUp'
  <2> SUFFICES ASSUME NEW b \in Browsers, sessions[b].via = 0, sessions[b].user # 0, ~sessions[b].must,
                      sessions[b].user \notin reseeded'
               PROVE  ~localUsers'[sessions[b].user].must
    BY DEF UnlockedIsSetUp
  <2>1. PICK u \in Users : u = sessions[b].user
    BY DEF SessionsSound
  <2>2. ~StoredRow(e).must
    BY StoredType
  <2>3. u = e.user \/ ~localUsers[u].must
    BY <1>1, <2>1 DEF UnlockedIsSetUp
  <2>4. ~localUsers'[u].must
    BY ZenonT(40), <2>2, <2>3, <1>5
  <2> QED BY <2>1, <2>4
<1> QED BY <1>6, <1>8, <1>9, <1>10

-----------------------------------------------------------------------------
\* A session that no ticket opened takes none away from anybody.
LEMMA NoTicketUsed ==
  ASSUME AccessTypes, TicketsOnce, Earned, NEW b \in Browsers, NEW s \in Session, s.via = 0,
         sessions' = [sessions EXCEPT ![b] = s], UNCHANGED samlVars
  PROVE  TicketsOnce' /\ Earned'
<1>1. \A c \in Browsers : sessions'[c] = IF c = b THEN s ELSE sessions[c]
  BY DEF AccessTypes
<1>2. UNCHANGED <<issued, acsQueue, acsAnswers, ssoResults>>
  BY DEF samlVars
<1>3. Len(issued) \in Nat
  BY DEF AccessTypes, SsoTypes
<1>4. TicketsOnce'
  <2>1. /\ \A i \in 1..Len(acsQueue) : acsQueue[i] # 0 /\ acsQueue[i] \in Nat
        /\ \A i \in 1..Len(acsAnswers) : acsAnswers[i].ticket # 0
        /\ 0 \notin DOMAIN ssoResults
    BY <1>3 DEF TicketsOnce, AccessTypes, SsoTypes
  <2>2. \A c \in Browsers : sessions'[c].via = IF c = b THEN 0 ELSE sessions[c].via
    BY <1>1
  <2>3. \A c \in Browsers : sessions'[c].via \in 0..Len(issued)
    BY <2>2, <1>3 DEF TicketsOnce
  <2>4. \A i \in 1..Len(acsQueue), c \in Browsers : acsQueue[i] # sessions'[c].via
    BY <2>1, <2>2 DEF TicketsOnce
  <2>5. \A i \in 1..Len(acsAnswers), c \in Browsers : acsAnswers[i].ticket # sessions'[c].via
    BY <2>1, <2>2 DEF TicketsOnce
  <2>6. \A c \in Browsers : sessions'[c].via \notin DOMAIN ssoResults
    BY <2>1, <2>2 DEF TicketsOnce
  <2>7. \A c, d \in Browsers : sessions'[c].via # 0 /\ sessions'[c].via = sessions'[d].via => c = d
    BY <2>2 DEF TicketsOnce
  <2>8. /\ \A i \in 1..Len(acsQueue) : acsQueue[i] \in 1..Len(issued)
        /\ \A i \in 1..Len(acsAnswers) : acsAnswers[i].ticket \in 1..Len(issued)
        /\ \A i, j \in 1..Len(acsQueue) : acsQueue[i] = acsQueue[j] => i = j
        /\ \A i, j \in 1..Len(acsAnswers) : acsAnswers[i].ticket = acsAnswers[j].ticket => i = j
        /\ \A i \in 1..Len(acsQueue), j \in 1..Len(acsAnswers) : acsQueue[i] # acsAnswers[j].ticket
        /\ \A i \in 1..Len(acsQueue) : acsQueue[i] \notin DOMAIN ssoResults
        /\ \A i \in 1..Len(acsAnswers) : acsAnswers[i].ticket \notin DOMAIN ssoResults
    BY Zenon DEF TicketsOnce
  <2> QED BY SMTT(30), <1>2, <2>3, <2>4, <2>5, <2>6, <2>7, <2>8 DEF TicketsOnce
<1>5. Earned'
  <2>1. \A c \in Browsers : sessions'[c].via # 0 => Speaks(sessions'[c].via, sessions'[c].user)
    BY <1>1 DEF Earned
  <2>2. \A t, u : Speaks(t, u)' <=> Speaks(t, u)
    BY <1>2 DEF Speaks
  <2> QED BY <1>2, <2>1 DEF Earned, Speaks
<1> QED BY <1>4, <1>5

\* Signing in and out keeps what the sessions say.
LEMMA SessionOpened ==
  ASSUME AccessTypes, SessionsSound, UnlockedIsSetUp, NEW b \in Browsers, NEW s \in Session,
         sessions' = [sessions EXCEPT ![b] = s], localUsers' = localUsers,
         reseeded' = reseeded, s.via = 0 => s.user \in Users \cup {0},
         s.via = 0 /\ s.user # 0 /\ ~s.must => ~localUsers[s.user].must
  PROVE  SessionsSound' /\ UnlockedIsSetUp' /\ sessions' \in [Browsers -> Session]
<1>1. \A c \in Browsers : sessions'[c] = IF c = b THEN s ELSE sessions[c]
  BY DEF AccessTypes
<1>2. sessions' \in [Browsers -> Session]
  BY DEF AccessTypes
<1>3. SessionsSound'
  BY <1>1 DEF SessionsSound
<1>4. UnlockedIsSetUp'
  BY <1>1 DEF UnlockedIsSetUp
<1> QED BY <1>2, <1>3, <1>4

\* The parts a step leaves alone keep their half of the invariant.
LEMMA AccountsFrame ==
  ASSUME AccountsInv, UNCHANGED <<rowVars, updates, answeredPw, sessions>>
  PROVE  AccountsInv'
  BY DEF AccountsInv, SessionsSound, LastSays, AnsweredIsStored, StoredAsAnswered,
         UnlockedIsSetUp, rowVars

LEMMA TicketsFrame ==
  ASSUME TicketsOnce, Earned, UNCHANGED <<samlVars, sessions>>
  PROVE  TicketsOnce' /\ Earned'
  BY DEF TicketsOnce, Earned, Speaks, samlVars

LEMMA OidcFrame ==
  ASSUME OidcTypes, Spent, UNCHANGED oidcVars
  PROVE  OidcTypes' /\ Spent'
  BY DEF OidcTypes, Spent, OidcOnce, oidcVars

LEMMA SsoTypesFrame ==
  ASSUME SsoTypes, UNCHANGED samlVars
  PROVE  SsoTypes'
  BY DEF SsoTypes, samlVars

LEMMA LocalTypesFrame ==
  ASSUME LocalTypes, UNCHANGED localVars
  PROVE  LocalTypes'
  BY DEF LocalTypes, localVars, rowVars

\* A local sign-in opens a session of an account, with its forced change.
LEMMA LoginKeeps ==
  ASSUME AccessInv, NEW b \in Browsers, NEW u \in Users, NEW pw \in Secrets, loginOk(b, u, pw),
         AccessAssumption
  PROVE  AccessInv'
<1> DEFINE s == LocalSession(u, pw)
<1>1. UNCHANGED <<localUsers, lostWrites, reseeded, answeredPw, samlVars, oidcVars>>
  BY DEF loginOk, rowVars
<1>2. localUsers[u] \in Row /\ localUsers[u].must \in BOOLEAN
  BY DEF AccessInv, AccessTypes, LocalTypes, Row
<1>3. s \in Session /\ s.user = u /\ s.via = 0 /\ s.must = localUsers[u].must
  BY <1>2, SessionType DEF LocalSession, readAccount, SessionNames
<1>4. sessions' = [sessions EXCEPT ![b] = s]
  BY DEF loginOk
<1> HIDE DEF s
<1>5. SessionsSound' /\ UnlockedIsSetUp' /\ sessions' \in [Browsers -> Session]
  BY <1>1, <1>3, <1>4, SessionOpened DEF AccessInv, AccountsInv
<1>6. TicketsOnce' /\ Earned'
  BY <1>1, <1>3, <1>4, NoTicketUsed DEF AccessInv
<1>7. LocalTypes' /\ LastSays' /\ AnsweredIsStored'
  <2>1. CASE ~localUsers[u].old
    <3>1. updates' = updates
      BY <2>1 DEF loginOk, readAccount
    <3> QED BY ZenonT(40), <3>1, <1>1 DEF AccessInv, AccessTypes, AccountsInv, LocalTypes, LastSays, AnsweredIsStored, StoredAsAnswered
  <2>2. CASE localUsers[u].old
    <3>1. PICK e \in Update : /\ e = [user |-> u, remove |-> FALSE, pw |-> pw]
                              /\ e.user = u /\ ~e.remove
      BY UpdateType DEF Password
    <3>2. updates' = Append(updates, e)
      BY <2>2, <3>1 DEF loginOk, readAccount, persistCredential
    <3>3. u \in OldFormat
      BY <2>2 DEF AccessInv, AccountsInv, LastSays
    <3> QED BY <3>1, <3>2, <3>3, <1>1, Appended DEF AccessInv, AccessTypes, AccountsInv
  <2> QED BY <2>1, <2>2
<1>8. SsoTypes' /\ OidcTypes' /\ Spent'
  BY <1>1, SsoTypesFrame, OidcFrame DEF AccessInv, AccessTypes
<1> QED BY <1>5, <1>6, <1>7, <1>8 DEF AccessInv, AccessTypes, AccountsInv

\* An update of an account that the console answers for: a password set or a removal.
LEMMA UpdateKeeps ==
  ASSUME AccessInv, NEW e \in Update, updates' = Append(updates, e),
         answeredPw' = [answeredPw EXCEPT ![e.user] = StoredRow(e).pw],
         UNCHANGED <<rowVars, sessions, samlVars, oidcVars>>
  PROVE  AccessInv'
<1>0. UNCHANGED <<localUsers, lostWrites, reseeded>>
  BY DEF rowVars
<1>1. LocalTypes' /\ LastSays' /\ AnsweredIsStored'
  BY <1>0, Appended DEF AccessInv, AccessTypes, AccountsInv
<1>3. SessionsSound' /\ UnlockedIsSetUp' /\ sessions' \in [Browsers -> Session]
  BY <1>0 DEF AccessInv, AccessTypes, AccountsInv, SessionsSound, UnlockedIsSetUp
<1>4. TicketsOnce' /\ Earned'
  BY TicketsFrame DEF AccessInv
<1>5. SsoTypes' /\ OidcTypes' /\ Spent'
  BY SsoTypesFrame, OidcFrame DEF AccessInv, AccessTypes
<1> QED BY <1>1, <1>3, <1>4, <1>5 DEF AccessInv, AccessTypes, AccountsInv

\* Signing out, or the end of a session's time.
LEMMA LogoutKeeps ==
  ASSUME AccessInv, NEW b \in Browsers, logout(b)
  PROVE  AccessInv'
<1>1. sessions' = [sessions EXCEPT ![b] = NoSession] /\ UNCHANGED <<localVars, samlVars, oidcVars>>
  BY DEF logout
<1>2. UNCHANGED <<localUsers, lostWrites, reseeded, updates, answeredPw>>
  BY <1>1 DEF localVars, rowVars
<1>3. TicketsOnce' /\ Earned'
  BY <1>1, NobodyType, NoTicketUsed DEF AccessInv
<1>4. SessionsSound' /\ UnlockedIsSetUp' /\ sessions' \in [Browsers -> Session]
  BY <1>1, <1>2, NobodyType, SessionOpened DEF AccessInv, AccountsInv
<1>5. LastSays' /\ AnsweredIsStored'
  BY <1>2 DEF AccessInv, AccountsInv, LastSays, AnsweredIsStored, StoredAsAnswered
<1>6. SsoTypes' /\ OidcTypes' /\ Spent' /\ LocalTypes'
  BY <1>1, SsoTypesFrame, OidcFrame, LocalTypesFrame DEF AccessInv, AccessTypes
<1> QED BY <1>3, <1>4, <1>5, <1>6 DEF AccessInv, AccessTypes, AccountsInv

\* The throttles and the declared roles are no part of the invariant.
LEMMA ThrottleKeeps ==
  ASSUME AccessInv, UNCHANGED <<rowVars, updates, answeredPw, sessions, samlVars, oidcVars>>
  PROVE  AccessInv'
<1>1. AccountsInv' /\ TicketsOnce' /\ Earned'
  BY AccountsFrame, TicketsFrame DEF AccessInv
<1>2. SsoTypes' /\ OidcTypes' /\ Spent'
  BY SsoTypesFrame, OidcFrame DEF AccessInv, AccessTypes
<1>3. LocalTypes' /\ sessions' \in [Browsers -> Session]
  BY DEF AccessInv, AccessTypes, LocalTypes, rowVars
<1> QED BY <1>1, <1>2, <1>3 DEF AccessInv, AccessTypes

\* What engined does to the table and the queue leaves the sessions and the tickets alone.
LEMMA EnginedStep ==
  ASSUME AccessInv, UNCHANGED <<answeredPw, sessions, samlVars, oidcVars>>,
         LocalTypes', LastSays', AnsweredIsStored', UnlockedIsSetUp'
  PROVE  AccessInv'
<1>1. SessionsSound' /\ sessions' \in [Browsers -> Session]
  BY DEF AccessInv, AccessTypes, AccountsInv, SessionsSound
<1>2. TicketsOnce' /\ Earned' /\ SsoTypes' /\ OidcTypes' /\ Spent'
  BY TicketsFrame, SsoTypesFrame, OidcFrame DEF AccessInv, AccessTypes
<1> QED BY <1>1, <1>2 DEF AccessInv, AccessTypes, AccountsInv

\* engined takes the first update: its statement succeeds, or the update is lost.
LEMMA UpdateTaken ==
  ASSUME AccessInv, NEW written \in BOOLEAN, updatePassword(written)
  PROVE  AccessInv'
<1>1. UNCHANGED <<answeredPw, sessions, samlVars, oidcVars>> /\ updates # <<>> /\ updates' = Tail(updates)
  BY DEF updatePassword
<1>2. CASE written
  <2>1. LocalTypes' /\ LastSays' /\ AnsweredIsStored' /\ UnlockedIsSetUp'
    BY <1>1, <1>2, Applied DEF updatePassword, AccessInv, AccessTypes, AccountsInv
  <2> QED BY <1>1, <2>1, EnginedStep
<1>3. CASE ~written
  <2>1. /\ updates' \in Seq(Update) /\ Len(updates) \in Nat /\ 1 <= Len(updates)
        /\ Len(updates') = Len(updates) - 1 /\ Head(updates) = updates[1]
        /\ \A i \in 1..Len(updates') : updates'[i] = updates[i + 1]
    BY <1>1, HeadTailProperties DEF AccessInv, AccessTypes, LocalTypes
  <2>2. lostWrites' = lostWrites \cup {updates[1].user} /\ UNCHANGED <<localUsers, reseeded>>
    BY <1>3, <2>1 DEF updatePassword
  <2>3. localUsers' \in [Users -> Row] /\ \A i \in 1..1 : updates[i].user \in lostWrites'
    BY <2>2 DEF AccessInv, AccessTypes, LocalTypes
  <2>4. LocalTypes' /\ LastSays' /\ AnsweredIsStored' /\ UnlockedIsSetUp'
    BY <1>1, <2>1, <2>2, <2>3, UpdatesLost DEF AccessInv, AccessTypes, AccountsInv
  <2> QED BY <1>1, <2>4, EnginedStep
<1> QED BY <1>2, <1>3

\* The seeded row is a row, in the current format.
LEMMA SeedType == SeedRow \in Row /\ ~SeedRow.old
<1>1. FactorySecret \in Password
  BY DEF Password
<1> QED BY <1>1 DEF SeedRow, Row

\* engined's restart loses the first updates, and may seed the default admin again.
LEMMA EnginedRestartKeeps ==
  ASSUME AccessInv, NEW n \in 0..MaxUpdates, enginedRestarts(n), AccessAssumption
  PROVE  AccessInv'
<1>1. /\ UNCHANGED <<answeredPw, sessions, samlVars, oidcVars>> /\ n \in 0..Len(updates)
      /\ updates' = SubSeq(updates, n + 1, Len(updates))
      /\ lostWrites' = lostWrites \cup {updates[i].user : i \in 1..n}
  BY DEF enginedRestarts
<1>2. updates \in Seq(Update) /\ Len(updates) \in Nat /\ n \in Nat /\ n <= Len(updates)
  BY <1>1 DEF AccessInv, AccessTypes, LocalTypes
<1>3. /\ updates' \in Seq(Update) /\ Len(updates') = Len(updates) - n
      /\ \A i \in 1..Len(updates') : updates'[i] = updates[i + n]
  <2>1. n + 1 \in 1..(Len(updates) + 1)
    BY <1>2
  <2> QED BY <1>1, <1>2, <2>1, SubSeqProperties
<1>4. DefaultAdmin \in Users
  BY DEF AccessAssumption
<1>5. /\ localUsers' \in [Users -> Row] /\ reseeded \subseteq reseeded'
      /\ \A u \in Users : \/ localUsers'[u] = localUsers[u]
                          \/ u \in reseeded' /\ ~localUsers'[u].old
  <2>1. CASE UNCHANGED <<localUsers, reseeded>>
    BY <2>1 DEF AccessInv, AccessTypes, LocalTypes
  <2>2. CASE /\ localUsers' = [localUsers EXCEPT ![DefaultAdmin] = SeedRow]
             /\ reseeded' = reseeded \cup {DefaultAdmin}
    <3> HIDE DEF SeedRow
    <3> QED BY <1>4, <2>2, SeedType DEF AccessInv, AccessTypes, LocalTypes
  <2> QED BY <2>1, <2>2 DEF enginedRestarts
<1>6. LocalTypes' /\ LastSays' /\ AnsweredIsStored' /\ UnlockedIsSetUp'
  BY <1>1, <1>2, <1>3, <1>5, UpdatesLost DEF AccessInv, AccessTypes, AccountsInv
<1> QED BY <1>1, <1>6, EnginedStep

\* Every step of the accounts keeps the invariant.
LEMMA LocalStep ==
  ASSUME AccessInv, LocalNext, AccessAssumption
  PROVE  AccessInv'
<1>1. ASSUME NEW b \in Browsers, NEW u \in Users, NEW pw \in Secrets, loginOk(b, u, pw)
      PROVE  AccessInv'
  BY <1>1, LoginKeeps
<1>2. ASSUME NEW u \in Users, NEW pw \in Secrets, loginFails(u, pw) PROVE AccessInv'
  BY <1>2, ThrottleKeeps DEF loginFails
<1>3. ASSUME NEW u \in Users, ThrottleEnds(u) PROVE AccessInv'
  BY <1>3, ThrottleKeeps DEF ThrottleEnds
<1>4. ASSUME NEW b \in Browsers, logout(b) PROVE AccessInv'
  BY <1>4, LogoutKeeps
<1>5. ASSUME NEW b \in Browsers, NEW old \in Secrets, NEW new \in Secrets, changePassword(b, old, new)
      PROVE  AccessInv'
  <2>1. PICK u \in Users : u = sessions[b].user
    BY <1>5 DEF changePassword
  <2>2. PICK e \in Update : e = [user |-> u, remove |-> FALSE, pw |-> new] /\ e.user = u /\ ~e.remove /\ e.pw = new
    BY UpdateType DEF Password
  <2>3. StoredRow(e).pw = new
    BY <2>2, StoredType
  <2> QED BY <1>5, <2>1, <2>2, <2>3, UpdateKeeps DEF changePassword, persistCredential
<1>6. ASSUME NEW b \in Browsers, NEW u \in Users, credentialRemove(b, u) PROVE AccessInv'
  <2>1. PICK e \in Update : e = [user |-> u, remove |-> TRUE, pw |-> 0] /\ e.user = u /\ e.remove
    <3>1. 0 \in Password
      BY DEF Password
    <3> QED BY <3>1, UpdateType
  <2>2. StoredRow(e).pw = NotSet
    BY <2>1, StoredType
  <2> QED BY <1>6, <2>1, <2>2, UpdateKeeps DEF credentialRemove
<1>7. ASSUME NEW b \in Browsers, NEW u \in Users, NEW pw \in Secrets, credentialStore(b, u, pw)
      PROVE  AccessInv'
  <2>2. PICK e \in Update : e = [user |-> u, remove |-> FALSE, pw |-> pw] /\ e.user = u /\ ~e.remove /\ e.pw = pw
    BY UpdateType DEF Password
  <2>3. StoredRow(e).pw = pw
    BY <2>2, StoredType
  <2> QED BY <1>7, <2>2, <2>3, UpdateKeeps DEF credentialStore, persistCredential
<1>8. ASSUME NEW written \in BOOLEAN, updatePassword(written) PROVE AccessInv'
  BY <1>8, UpdateTaken
<1>9. ASSUME NEW b \in Browsers, NEW declared \in SUBSET Users, usersPublished(b, declared)
      PROVE  AccessInv'
  BY <1>9, ThrottleKeeps DEF usersPublished
<1>10. ASSUME NEW n \in 0..MaxUpdates, enginedRestarts(n) PROVE AccessInv'
  BY <1>10, EnginedRestartKeeps
<1> QED BY <1>1, <1>2, <1>3, <1>4, <1>5, <1>6, <1>7, <1>8, <1>9, <1>10 DEF LocalNext

-----------------------------------------------------------------------------
\* The tickets of the invariant are numbers of responses.
LEMMA Numbers ==
  ASSUME AccessInv
  PROVE  /\ Len(issued) \in Nat /\ Len(acsQueue) \in Nat /\ Len(acsAnswers) \in Nat
         /\ \A i \in 1..Len(acsQueue) : acsQueue[i] \in 1..Len(issued)
         /\ \A i \in 1..Len(acsAnswers) : acsAnswers[i] \in Answer /\ acsAnswers[i].ticket \in 1..Len(issued)
         /\ \A b \in Browsers : sessions[b] \in Session /\ sessions[b].via \in 0..Len(issued)
  BY DEF AccessInv, AccessTypes, SsoTypes, TicketsOnce

\* A new ticket is the number after all others.
LEMMA TicketIssued ==
  ASSUME AccessInv, NEW r \in SamlResponses, samlAcs(r)
  PROVE  AccessInv'
<1>1. UNCHANGED <<acsAnswers, ssoResults, localVars, oidcVars, sessions>>
  BY DEF samlAcs
<1>2. PICK n \in Nat : n = Len(issued)
  BY Numbers
<1>3. /\ issued' \in Seq(SamlResponses) /\ Len(issued') = n + 1
      /\ \A i \in 1..n : issued'[i] = issued[i]
  BY <1>2, AppendProperties DEF samlAcs, AccessInv, AccessTypes, SsoTypes
<1>4. n + 1 \in Nat
  BY <1>2
<1>5. /\ acsQueue' \in Seq(Nat) /\ Len(acsQueue') = Len(acsQueue) + 1
      /\ \A i \in 1..Len(acsQueue) : acsQueue'[i] = acsQueue[i]
      /\ acsQueue'[Len(acsQueue) + 1] = n + 1
  BY <1>2, <1>4, AppendProperties DEF samlAcs, AccessInv, AccessTypes, SsoTypes
<1>6. SsoTypes'
  BY <1>1, <1>2, <1>3, <1>5 DEF AccessInv, AccessTypes, SsoTypes
<1>7. \A i \in 1..Len(acsQueue') :
         /\ acsQueue'[i] \in 1..(n + 1)
         /\ \/ i \in 1..Len(acsQueue) /\ acsQueue'[i] = acsQueue[i]
            \/ i = Len(acsQueue) + 1 /\ acsQueue'[i] = n + 1
  BY <1>2, <1>5, Numbers
<1>8. TicketsOnce'
  <2>1. \A i \in 1..Len(acsAnswers) : acsAnswers[i].ticket \in 1..n
    BY <1>2, Numbers
  <2>2. \A b \in Browsers : sessions[b].via \in 0..n
    BY <1>2, Numbers
  <2>3. \A t \in DOMAIN ssoResults : t \in 1..n
    BY <1>2 DEF AccessInv, AccessTypes, SsoTypes
  <2>4. \A i \in 1..Len(acsQueue) : acsQueue[i] \in 1..n
    BY <1>2, Numbers
  <2>5. \A i, j \in 1..Len(acsQueue') : acsQueue'[i] = acsQueue'[j] => i = j
    <3> SUFFICES ASSUME NEW i \in 1..Len(acsQueue'), NEW j \in 1..Len(acsQueue'), acsQueue'[i] = acsQueue'[j]
                 PROVE  i = j
      OBVIOUS
    <3>1. CASE i \in 1..Len(acsQueue) /\ j \in 1..Len(acsQueue)
      BY <3>1, <1>5 DEF AccessInv, TicketsOnce
    <3>2. CASE i \in 1..Len(acsQueue) /\ j = Len(acsQueue) + 1
      BY <3>2, <1>5, <2>4
    <3>3. CASE i = Len(acsQueue) + 1 /\ j \in 1..Len(acsQueue)
      BY <3>3, <1>5, <2>4
    <3> QED BY <3>1, <3>2, <3>3, <1>7
  <2>6. \A i \in 1..Len(acsQueue'), j \in 1..Len(acsAnswers) : acsQueue'[i] # acsAnswers[j].ticket
    <3>1. \A j \in 1..Len(acsAnswers) : acsAnswers[j].ticket # n + 1
      BY <2>1
    <3> QED BY <1>7, <3>1 DEF AccessInv, TicketsOnce
  <2>7. \A i \in 1..Len(acsQueue') : acsQueue'[i] \notin DOMAIN ssoResults
    <3>1. n + 1 \notin DOMAIN ssoResults
      BY <2>3
    <3> QED BY <1>7, <3>1 DEF AccessInv, TicketsOnce
  <2>8. \A i \in 1..Len(acsQueue'), b \in Browsers : acsQueue'[i] # sessions[b].via
    <3>1. \A b \in Browsers : sessions[b].via # n + 1
      BY <2>2
    <3> QED BY <1>7, <3>1 DEF AccessInv, TicketsOnce
  <2>9. /\ \A i \in 1..Len(acsAnswers) : acsAnswers[i].ticket \in 1..(n + 1)
        /\ \A b \in Browsers : sessions[b].via \in 0..(n + 1)
    BY <2>1, <2>2
  <2> QED BY <1>1, <1>3, <1>7, <2>5, <2>6, <2>7, <2>8, <2>9 DEF AccessInv, TicketsOnce
<1>9. Earned'
  <2>1. ASSUME NEW t \in 1..n, NEW u PROVE Speaks(t, u) => Speaks(t, u)'
    BY <1>3 DEF Speaks
  <2>2. \A i \in 1..Len(acsAnswers) : acsAnswers[i].ticket \in 1..n
    BY <1>2, Numbers
  <2>3. \A b \in Browsers : sessions[b].via # 0 => sessions[b].via \in 1..n
    BY <1>2, Numbers
  <2>4. \A t \in DOMAIN ssoResults : t \in 1..n
    BY <1>2 DEF AccessInv, AccessTypes, SsoTypes
  <2>5. \A t \in 1..n : issued'[t] = issued[t]
    BY <1>3
  <2> QED BY <1>1, <2>2, <2>3, <2>4, <2>5 DEF AccessInv, Earned, Speaks
<1>10. AccountsInv' /\ LocalTypes' /\ OidcTypes' /\ Spent' /\ sessions' \in [Browsers -> Session]
  BY <1>1, AccountsFrame, LocalTypesFrame, OidcFrame DEF localVars, rowVars, AccessInv, AccessTypes
<1> QED BY <1>6, <1>8, <1>9, <1>10 DEF AccessInv, AccessTypes

\* What authd accepts has passed the checks and names somebody.
LEMMA AcceptedVerified ==
  ASSUME NEW r \in SamlResponses
  PROVE  /\ verifyResponse(r) \in Verdict
         /\ verifyResponse(r).success => Verified(r) /\ verifyResponse(r).user = Named(r)
<1>1. Rejected \in Verdict /\ ~Rejected.success
  BY DEF Rejected, Verdict
<1>2. [success |-> TRUE, user |-> Named(r)] \in Verdict
  BY DEF Verdict
<1>3. \/ verifyResponse(r) = Rejected
      \/ verifyResponse(r) = [success |-> TRUE, user |-> Named(r)] /\ Verified(r)
  BY DEF verifyResponse, Verified, ConditionsHold, verifySignature, NoAudience
<1>4. [success |-> TRUE, user |-> Named(r)].user = Named(r)
  OBVIOUS
<1>5. CASE verifyResponse(r) = Rejected
  BY <1>1, <1>5
<1>6. CASE verifyResponse(r) = [success |-> TRUE, user |-> Named(r)] /\ Verified(r)
  BY <1>2, <1>4, <1>6
<1> QED BY <1>3, <1>5, <1>6

\* authd answers the first ticket that waits.
LEMMA TicketAnswered ==
  ASSUME AccessInv, SamlAcsRequest
  PROVE  AccessInv'
<1>1. UNCHANGED <<issued, ssoResults, localVars, oidcVars, sessions>> /\ acsQueue # <<>>
  BY DEF SamlAcsRequest
<1>2. PICK h \in Nat : h = Head(acsQueue) /\ h = acsQueue[1]
  BY <1>1, HeadTailProperties DEF AccessInv, AccessTypes, SsoTypes
<1>3. /\ acsQueue' \in Seq(Nat) /\ Len(acsQueue') = Len(acsQueue) - 1 /\ Len(acsQueue) \in Nat /\ Len(acsQueue) > 0
      /\ \A i \in 1..Len(acsQueue') : acsQueue'[i] = acsQueue[i + 1]
  BY <1>1, HeadTailProperties DEF AccessInv, AccessTypes, SsoTypes, SamlAcsRequest
<1>4. h \in 1..Len(issued) /\ issued[h] \in SamlResponses
  BY <1>2, <1>3, Numbers DEF AccessInv, AccessTypes, SsoTypes
<1>5. PICK v \in Verdict : /\ v = IF ssoMethod = "saml" THEN verifyResponse(issued[h]) ELSE Rejected
                           /\ v.success => Speaks(h, v.user)
  <2>1. Rejected \in Verdict /\ ~Rejected.success
    BY DEF Rejected, Verdict
  <2> QED BY <1>4, <2>1, AcceptedVerified DEF Speaks
<1>6. PICK a \in Answer : a = [ticket |-> h, verdict |-> v] /\ a.ticket = h /\ a.verdict = v
  <2>1. [ticket |-> h, verdict |-> v] \in Answer
    BY DEF Answer
  <2> QED BY <2>1
<1>7. acsAnswers' = Append(acsAnswers, a)
  BY <1>2, <1>5, <1>6 DEF SamlAcsRequest
<1>8. /\ acsAnswers' \in Seq(Answer) /\ Len(acsAnswers') = Len(acsAnswers) + 1 /\ Len(acsAnswers) \in Nat
      /\ \A i \in 1..Len(acsAnswers) : acsAnswers'[i] = acsAnswers[i]
      /\ acsAnswers'[Len(acsAnswers) + 1] = a
  BY <1>7, AppendProperties DEF AccessInv, AccessTypes, SsoTypes
<1>9. SsoTypes'
  BY <1>1, <1>3, <1>8 DEF AccessInv, AccessTypes, SsoTypes
<1>10. \A i \in 1..Len(acsQueue') : i + 1 \in 1..Len(acsQueue) /\ i + 1 # 1 /\ acsQueue'[i] = acsQueue[i + 1] /\ acsQueue'[i] # h
  <2>1. 1 \in 1..Len(acsQueue)
    BY <1>3
  <2>2. \A i \in 1..Len(acsQueue') : i + 1 \in 1..Len(acsQueue) /\ i + 1 # 1 /\ acsQueue'[i] = acsQueue[i + 1]
    BY <1>3
  <2> QED BY <2>1, <2>2, <1>2 DEF AccessInv, TicketsOnce
<1>11. \A i \in 1..Len(acsAnswers') : \/ i \in 1..Len(acsAnswers) /\ acsAnswers'[i] = acsAnswers[i] /\ acsAnswers'[i].ticket # h
                                      \/ i = Len(acsAnswers) + 1 /\ acsAnswers'[i] = a
  <2>1. 1 \in 1..Len(acsQueue)
    BY <1>3
  <2>2. \A i \in 1..Len(acsAnswers) : acsAnswers[i].ticket # h
    BY <2>1, <1>2 DEF AccessInv, TicketsOnce
  <2> QED BY <2>2, <1>8
<1>12. TicketsOnce'
  <2>1. 1 \in 1..Len(acsQueue)
    BY <1>3
  <2>2. h \notin DOMAIN ssoResults /\ \A b \in Browsers : h # sessions[b].via
    BY <2>1, <1>2 DEF AccessInv, TicketsOnce
  <2>3. /\ \A i \in 1..Len(acsQueue') : acsQueue'[i] \in 1..Len(issued)
        /\ \A i \in 1..Len(acsAnswers') : acsAnswers'[i].ticket \in 1..Len(issued)
    BY <1>4, <1>6, <1>10, <1>11, Numbers
  <2>4. \A i, j \in 1..Len(acsQueue') : acsQueue'[i] = acsQueue'[j] => i = j
    <3> SUFFICES ASSUME NEW i \in 1..Len(acsQueue'), NEW j \in 1..Len(acsQueue'), acsQueue'[i] = acsQueue'[j]
                 PROVE  i = j
      OBVIOUS
    <3>1. i + 1 = j + 1
      BY <1>10 DEF AccessInv, TicketsOnce
    <3> QED BY <3>1
  <2>5. \A i, j \in 1..Len(acsAnswers') : acsAnswers'[i].ticket = acsAnswers'[j].ticket => i = j
    BY <1>6, <1>11 DEF AccessInv, TicketsOnce
  <2>6. \A i \in 1..Len(acsQueue'), j \in 1..Len(acsAnswers') : acsQueue'[i] # acsAnswers'[j].ticket
    <3> SUFFICES ASSUME NEW i \in 1..Len(acsQueue'), NEW j \in 1..Len(acsAnswers')
                 PROVE  acsQueue'[i] # acsAnswers'[j].ticket
      OBVIOUS
    <3>1. CASE j \in 1..Len(acsAnswers) /\ acsAnswers'[j] = acsAnswers[j]
      <4>1. i + 1 \in 1..Len(acsQueue) /\ acsQueue'[i] = acsQueue[i + 1]
        BY <1>10
      <4>2. \A m \in 1..Len(acsQueue), n \in 1..Len(acsAnswers) : acsQueue[m] # acsAnswers[n].ticket
        BY Zenon DEF AccessInv, TicketsOnce
      <4> QED BY <3>1, <4>1, <4>2
    <3>2. CASE acsAnswers'[j] = a
      BY <3>2, <1>6, <1>10
    <3> QED BY <3>1, <3>2, <1>11
  <2>7. \A i \in 1..Len(acsQueue') : acsQueue'[i] \notin DOMAIN ssoResults
    BY <1>10 DEF AccessInv, TicketsOnce
  <2>8. \A i \in 1..Len(acsQueue'), b \in Browsers : acsQueue'[i] # sessions[b].via
    BY <1>10 DEF AccessInv, TicketsOnce
  <2>9. \A i \in 1..Len(acsAnswers') : acsAnswers'[i].ticket \notin DOMAIN ssoResults
    BY <1>6, <1>11, <2>2 DEF AccessInv, TicketsOnce
  <2>10. \A i \in 1..Len(acsAnswers'), b \in Browsers : acsAnswers'[i].ticket # sessions[b].via
    BY <1>6, <1>11, <2>2 DEF AccessInv, TicketsOnce
  <2> QED BY <1>1, <2>3, <2>4, <2>5, <2>6, <2>7, <2>8, <2>9, <2>10 DEF AccessInv, TicketsOnce
<1>13. Earned'
  <2>1. \A i \in 1..Len(acsAnswers') :
           acsAnswers'[i].verdict.success => Speaks(acsAnswers'[i].ticket, acsAnswers'[i].verdict.user)
    BY <1>5, <1>6, <1>11 DEF AccessInv, Earned
  <2> QED BY <1>1, <2>1 DEF AccessInv, Earned, Speaks
<1>14. AccountsInv' /\ LocalTypes' /\ OidcTypes' /\ Spent' /\ sessions' \in [Browsers -> Session]
  BY <1>1, AccountsFrame, LocalTypesFrame, OidcFrame DEF localVars, rowVars, AccessInv, AccessTypes
<1> QED BY <1>9, <1>12, <1>13, <1>14 DEF AccessInv, AccessTypes

\* mgmtd files an answer under its ticket; a full map is dropped first.
LEMMA ResultFiled ==
  ASSUME AccessInv, setSsoResult
  PROVE  AccessInv'
<1>1. UNCHANGED <<issued, acsQueue, localVars, oidcVars, sessions>> /\ acsAnswers # <<>>
  BY DEF setSsoResult
<1>2. PICK a \in Answer : a = Head(acsAnswers) /\ a = acsAnswers[1]
  BY <1>1, HeadTailProperties DEF AccessInv, AccessTypes, SsoTypes
<1>3. /\ acsAnswers' \in Seq(Answer) /\ Len(acsAnswers') = Len(acsAnswers) - 1 /\ Len(acsAnswers) \in Nat /\ Len(acsAnswers) > 0
      /\ \A i \in 1..Len(acsAnswers') : acsAnswers'[i] = acsAnswers[i + 1]
  BY <1>1, HeadTailProperties DEF AccessInv, AccessTypes, SsoTypes, setSsoResult
<1>4. 1 \in 1..Len(acsAnswers) /\ a.verdict \in Verdict /\ a.ticket \in 1..Len(issued)
  BY <1>2, <1>3, Numbers DEF Answer
<1>5. PICK kept : /\ kept = IF Cardinality(DOMAIN ssoResults) > SsoResultLimit THEN <<>> ELSE ssoResults
                  /\ DOMAIN kept \subseteq DOMAIN ssoResults
                  /\ \A t \in DOMAIN kept : kept[t] = ssoResults[t]
  OBVIOUS
<1>6. ssoResults' = [t \in DOMAIN kept \cup {a.ticket} |-> IF t = a.ticket THEN a.verdict ELSE kept[t]]
  BY <1>2, <1>5 DEF setSsoResult
<1>7. /\ DOMAIN ssoResults' \subseteq DOMAIN ssoResults \cup {a.ticket}
      /\ \A t \in DOMAIN ssoResults' : \/ t = a.ticket /\ ssoResults'[t] = a.verdict
                                       \/ t \in DOMAIN ssoResults /\ ssoResults'[t] = ssoResults[t]
  BY <1>5, <1>6
<1>8. SsoTypes'
  BY <1>1, <1>3, <1>4, <1>7 DEF AccessInv, AccessTypes, SsoTypes
<1>9. \A i \in 1..Len(acsAnswers') : i + 1 \in 1..Len(acsAnswers) /\ acsAnswers'[i] = acsAnswers[i + 1] /\ acsAnswers'[i].ticket # a.ticket
  <2>1. \A i \in 1..Len(acsAnswers') : i + 1 \in 1..Len(acsAnswers) /\ i + 1 # 1 /\ acsAnswers'[i] = acsAnswers[i + 1]
    BY <1>3
  <2> QED BY <2>1, <1>2, <1>4 DEF AccessInv, TicketsOnce
<1>10. TicketsOnce'
  <2>1. \A i \in 1..Len(acsAnswers') : acsAnswers'[i].ticket \in 1..Len(issued)
    BY <1>9, Numbers
  <2>2. \A i, j \in 1..Len(acsAnswers') : acsAnswers'[i].ticket = acsAnswers'[j].ticket => i = j
    <3> SUFFICES ASSUME NEW i \in 1..Len(acsAnswers'), NEW j \in 1..Len(acsAnswers'), acsAnswers'[i].ticket = acsAnswers'[j].ticket
                 PROVE  i = j
      OBVIOUS
    <3>1. i + 1 = j + 1
      BY SMTT(30), <1>9 DEF AccessInv, TicketsOnce
    <3> QED BY <3>1
  <2>3. \A i \in 1..Len(acsQueue), j \in 1..Len(acsAnswers') : acsQueue[i] # acsAnswers'[j].ticket
    BY SMTT(30), <1>9 DEF AccessInv, TicketsOnce
  <2>4. \A i \in 1..Len(acsQueue) : acsQueue[i] \notin DOMAIN ssoResults'
    BY <1>2, <1>4, <1>7 DEF AccessInv, TicketsOnce
  <2>5. \A i \in 1..Len(acsAnswers') : acsAnswers'[i].ticket \notin DOMAIN ssoResults'
    BY ZenonT(40), <1>7, <1>9 DEF AccessInv, TicketsOnce
  <2>6. \A i \in 1..Len(acsAnswers'), b \in Browsers : acsAnswers'[i].ticket # sessions[b].via
    BY <1>9 DEF AccessInv, TicketsOnce
  <2>7. \A b \in Browsers : sessions[b].via \notin DOMAIN ssoResults'
    BY <1>2, <1>4, <1>7 DEF AccessInv, TicketsOnce
  <2> QED BY <1>1, <2>1, <2>2, <2>3, <2>4, <2>5, <2>6, <2>7 DEF AccessInv, TicketsOnce
<1>11. Earned'
  <2>1. \A i \in 1..Len(acsAnswers') :
           acsAnswers'[i].verdict.success => Speaks(acsAnswers'[i].ticket, acsAnswers'[i].verdict.user)
    BY <1>9 DEF AccessInv, Earned
  <2>2. \A t \in DOMAIN ssoResults' : ssoResults'[t].success => Speaks(t, ssoResults'[t].user)
    BY <1>2, <1>4, <1>7 DEF AccessInv, Earned
  <2> QED BY <1>1, <2>1, <2>2 DEF AccessInv, Earned, Speaks
<1>12. AccountsInv' /\ LocalTypes' /\ OidcTypes' /\ Spent' /\ sessions' \in [Browsers -> Session]
  BY <1>1, AccountsFrame, LocalTypesFrame, OidcFrame DEF localVars, rowVars, AccessInv, AccessTypes
<1> QED BY <1>8, <1>10, <1>11, <1>12 DEF AccessInv, AccessTypes

\* A result that is taken is gone, and may open one session.
LEMMA ResultTaken ==
  ASSUME AccessInv, NEW b \in Browsers, NEW t \in 1..MaxSso, samlResult(b, t), MaxSso \in Nat
  PROVE  AccessInv'
<1>1. UNCHANGED <<issued, acsQueue, acsAnswers, localVars, oidcVars>> /\ t \in DOMAIN ssoResults
  BY DEF samlResult
<1>2. UNCHANGED <<localUsers, lostWrites, reseeded, updates, answeredPw>>
  BY <1>1 DEF localVars, rowVars
<1>3. /\ DOMAIN ssoResults' \subseteq DOMAIN ssoResults /\ t \notin DOMAIN ssoResults'
      /\ \A x \in DOMAIN ssoResults' : ssoResults'[x] = ssoResults[x]
  BY DEF samlResult, takeSsoResult, Lacking
<1>4. SsoTypes'
  BY <1>1, <1>3 DEF AccessInv, AccessTypes, SsoTypes
<1>5. OidcTypes' /\ Spent' /\ LocalTypes' /\ LastSays' /\ AnsweredIsStored'
  BY <1>1, <1>2, OidcFrame, LocalTypesFrame DEF AccessInv, AccessTypes, AccountsInv, LastSays,
     AnsweredIsStored, StoredAsAnswered
<1>6. t \in Nat \ {0} /\ t \in 1..Len(issued) /\ ssoResults[t] \in Verdict
  BY <1>1 DEF AccessInv, AccessTypes, SsoTypes
<1>7. CASE ~ssoResults[t].success
  <2>1. sessions' = sessions
    BY <1>7 DEF samlResult
  <2>2. SessionsSound' /\ UnlockedIsSetUp' /\ sessions' \in [Browsers -> Session]
    BY <2>1, <1>2 DEF AccessInv, AccessTypes, AccountsInv, SessionsSound, UnlockedIsSetUp
  <2>3. TicketsOnce'
    BY <2>1, <1>1, <1>3 DEF AccessInv, TicketsOnce
  <2>4. Earned'
    BY <2>1, <1>1, <1>3 DEF AccessInv, Earned, Speaks
  <2> QED BY <1>4, <1>5, <2>2, <2>3, <2>4 DEF AccessInv, AccessTypes, AccountsInv
<1>8. CASE ssoResults[t].success
  <2>1. PICK u \in SessionNames : u = ssoResults[t].user
    BY <1>6 DEF Verdict, SessionNames
  <2>2. PICK s \in Session : s = SessionFor(u, FALSE, t) /\ s.user = u /\ s.via = t
    <3>1. t \in Nat /\ FALSE \in BOOLEAN
      BY <1>6
    <3>2. /\ SessionFor(u, FALSE, t) \in Session
          /\ SessionFor(u, FALSE, t).user = u /\ SessionFor(u, FALSE, t).via = t
      BY ZenonT(40), <3>1, SessionType
    <3> QED BY <3>2
  <2>3. sessions' = [sessions EXCEPT ![b] = s]
    BY <1>8, <2>1, <2>2 DEF samlResult, createSsoSession
  <2>4. SessionsSound' /\ UnlockedIsSetUp' /\ sessions' \in [Browsers -> Session]
    BY <1>2, <1>6, <2>2, <2>3, SessionOpened DEF AccessInv, AccountsInv
  <2>5. \A c \in Browsers : sessions'[c] = IF c = b THEN s ELSE sessions[c]
    BY <2>3 DEF AccessInv, AccessTypes
  <2>6. \A c \in Browsers : \/ c = b /\ sessions'[c].via = t /\ sessions'[c].user = u
                            \/ c # b /\ sessions'[c] = sessions[c] /\ sessions[c].via # t
    BY <2>2, <2>5, <1>1 DEF AccessInv, TicketsOnce
  <2>7. TicketsOnce'
    <3>1. \A c \in Browsers : sessions'[c].via \in 0..Len(issued)
      BY <2>6, <1>6, Numbers
    <3>2. \A i \in 1..Len(acsQueue), c \in Browsers : acsQueue[i] # sessions'[c].via
      BY SMTT(30), <2>6, <1>1 DEF AccessInv, TicketsOnce
    <3>3. \A i \in 1..Len(acsAnswers), c \in Browsers : acsAnswers[i].ticket # sessions'[c].via
      BY <2>6, <1>1 DEF AccessInv, TicketsOnce
    <3>4. \A c \in Browsers : sessions'[c].via \notin DOMAIN ssoResults'
      BY <2>6, <1>3 DEF AccessInv, TicketsOnce
    <3>5. \A c, d \in Browsers : sessions'[c].via # 0 /\ sessions'[c].via = sessions'[d].via => c = d
      BY <2>6 DEF AccessInv, TicketsOnce
    <3>6. /\ \A i \in 1..Len(acsQueue) : acsQueue[i] \notin DOMAIN ssoResults'
          /\ \A i \in 1..Len(acsAnswers) : acsAnswers[i].ticket \notin DOMAIN ssoResults'
      BY <1>3 DEF AccessInv, TicketsOnce
    <3> QED BY <1>1, <3>1, <3>2, <3>3, <3>4, <3>5, <3>6 DEF AccessInv, TicketsOnce
  <2>8. Earned'
    <3>1. Speaks(t, u)
      BY <1>1, <1>8, <2>1 DEF AccessInv, Earned
    <3>2. \A c \in Browsers : sessions'[c].via # 0 => Speaks(sessions'[c].via, sessions'[c].user)
      BY <3>1, <2>6 DEF AccessInv, Earned
    <3>3. \A x \in DOMAIN ssoResults' : ssoResults'[x].success => Speaks(x, ssoResults'[x].user)
      BY <1>3 DEF AccessInv, Earned
    <3> QED BY <1>1, <3>2, <3>3 DEF AccessInv, Earned, Speaks
  <2> QED BY <1>4, <1>5, <2>4, <2>7, <2>8 DEF AccessInv, AccessTypes, AccountsInv
<1> QED BY <1>7, <1>8

\* authd's restart loses tickets and transactions and makes none.
LEMMA RestartKeeps ==
  ASSUME AccessInv, NEW method, authdRestarts(method)
  PROVE  AccessInv'
<1>1. /\ UNCHANGED <<issued, acsAnswers, ssoResults, localVars, oktaNext, oidcDone, sessions>>
      /\ acsQueue' = <<>> /\ oktaTxns' = {}
  BY DEF authdRestarts
<1>2. Len(acsQueue') = 0 /\ acsQueue' \in Seq(Nat)
  BY <1>1
<1>3. SsoTypes' /\ OidcTypes'
  BY <1>1, <1>2 DEF AccessInv, AccessTypes, SsoTypes, OidcTypes
<1>4. \A i \in 1..Len(acsQueue') : FALSE
  BY <1>2
<1>5. TicketsOnce'
  BY <1>1, <1>4 DEF AccessInv, TicketsOnce
<1>6. Earned'
  BY <1>1 DEF AccessInv, Earned, Speaks
<1>7. Spent'
  BY <1>1 DEF AccessInv, Spent, OidcOnce
<1>8. AccountsInv' /\ LocalTypes' /\ sessions' \in [Browsers -> Session]
  BY <1>1, AccountsFrame, LocalTypesFrame DEF localVars, rowVars, AccessInv, AccessTypes
<1> QED BY <1>3, <1>5, <1>6, <1>7, <1>8 DEF AccessInv, AccessTypes

\* A step of the OpenID Connect exchange leaves accounts, tickets and sessions alone.
LEMMA OidcApart ==
  ASSUME AccessInv, UNCHANGED <<localVars, samlVars, sessions>>, OidcTypes', Spent'
  PROVE  AccessInv'
<1>1. AccountsInv' /\ LocalTypes' /\ SsoTypes' /\ TicketsOnce' /\ Earned' /\ sessions' \in [Browsers -> Session]
  BY AccountsFrame, LocalTypesFrame, SsoTypesFrame, TicketsFrame DEF localVars, rowVars, AccessInv, AccessTypes
<1> QED BY <1>1 DEF AccessInv, AccessTypes

\* A state is new when it is issued, and spent once it is taken up.
LEMMA OidcStep ==
  ASSUME AccessInv,
         \/ buildAuthorizeUrl
         \/ \E s \in 1..MaxSso : pruneExpired(s)
         \/ \E s \in 1..MaxSso, tok \in Tokens : exchangeAndVerify(s, tok)
  PROVE  AccessInv'
<1>0. OidcTypes /\ Spent
  BY DEF AccessInv, AccessTypes
<1>1. CASE buildAuthorizeUrl
  <2>1. /\ oktaNext' = oktaNext + 1 /\ oktaTxns' = oktaTxns \cup {oktaNext + 1} /\ oidcDone' = oidcDone
        /\ UNCHANGED <<localVars, samlVars, sessions>>
    BY <1>1 DEF buildAuthorizeUrl
  <2>2. OidcTypes'
    BY <1>0, <2>1 DEF OidcTypes
  <2>3. Spent'
    BY <1>0, <2>1 DEF OidcTypes, Spent, OidcOnce
  <2> QED BY <2>1, <2>2, <2>3, OidcApart
<1>2. ASSUME NEW s \in 1..MaxSso, pruneExpired(s) PROVE AccessInv'
  <2>1. /\ oktaNext' = oktaNext /\ oktaTxns' = oktaTxns \ {s} /\ oidcDone' = oidcDone
        /\ UNCHANGED <<localVars, samlVars, sessions>>
    BY <1>2 DEF pruneExpired
  <2>2. OidcTypes' /\ Spent'
    BY <1>0, <2>1 DEF OidcTypes, Spent, OidcOnce
  <2> QED BY <2>1, <2>2, OidcApart
<1>3. ASSUME NEW s \in 1..MaxSso, NEW tok \in Tokens, exchangeAndVerify(s, tok) PROVE AccessInv'
  <2>1. /\ oktaNext' = oktaNext /\ oktaTxns' = oktaTxns \ {s} /\ s \in oktaTxns
        /\ UNCHANGED <<localVars, samlVars, sessions>>
    BY <1>3 DEF exchangeAndVerify
  <2>2. CASE oidcDone' = oidcDone
    <3>1. OidcTypes' /\ Spent'
      BY <1>0, <2>1, <2>2 DEF OidcTypes, Spent, OidcOnce
    <3> QED BY <2>1, <3>1, OidcApart
  <2>3. CASE verifyIdToken(tok, s)
    <3>1. s \in Nat /\ s \in 1..oktaNext
      BY <1>0, <2>1 DEF OidcTypes
    <3>2. PICK d \in Done : d = [state |-> s, nonce |-> s] /\ d.state = s /\ d.nonce = s
      <4>1. [state |-> s, nonce |-> s] \in Done
        BY <3>1 DEF Done
      <4> QED BY <4>1
    <3>3. tok.nonce = s
      BY <2>3 DEF verifyIdToken
    <3>4. oidcDone' = Append(oidcDone, d)
      BY <1>3, <2>3, <3>2, <3>3 DEF exchangeAndVerify
    <3>5. /\ oidcDone' \in Seq(Done) /\ Len(oidcDone') = Len(oidcDone) + 1 /\ Len(oidcDone) \in Nat
          /\ \A i \in 1..Len(oidcDone) : oidcDone'[i] = oidcDone[i]
          /\ oidcDone'[Len(oidcDone) + 1] = d
      BY <1>0, <3>4, AppendProperties DEF OidcTypes
    <3>6. OidcTypes'
      BY <1>0, <2>1, <3>5 DEF OidcTypes
    <3>7. \A i \in 1..Len(oidcDone') :
            \/ /\ i \in 1..Len(oidcDone) /\ oidcDone'[i] = oidcDone[i]
               /\ oidcDone[i].state # s
            \/ i = Len(oidcDone) + 1 /\ oidcDone'[i] = d
      BY <1>0, <2>1, <3>5 DEF Spent
    <3>8. \A i \in 1..Len(oidcDone') : oidcDone'[i].state \in 1..oktaNext' /\ oidcDone'[i].state \notin oktaTxns'
      BY <1>0, <2>1, <3>1, <3>2, <3>7 DEF Spent
    <3>9. OidcOnce'
      <4>1. \A i \in 1..Len(oidcDone') : oidcDone'[i].nonce = oidcDone'[i].state
        BY <1>0, <3>2, <3>7 DEF Spent, OidcOnce
      <4>2. \A i, j \in 1..Len(oidcDone') : oidcDone'[i].state = oidcDone'[j].state => i = j
        BY <1>0, <3>2, <3>7 DEF Spent, OidcOnce
      <4> QED BY <4>1, <4>2 DEF OidcOnce
    <3>10. Spent'
      BY <3>8, <3>9 DEF Spent
    <3> QED BY <2>1, <3>6, <3>10, OidcApart
  <2> QED BY <1>3, <2>2, <2>3 DEF exchangeAndVerify
<1> QED BY <1>1, <1>2, <1>3

\* Every step of a federated sign-in keeps the invariant.
LEMMA SsoStep ==
  ASSUME AccessInv, SsoNext, AccessAssumption
  PROVE  AccessInv'
<1>0. MaxSso \in Nat
  BY DEF AccessAssumption
<1>1. ASSUME NEW r \in SamlResponses, samlAcs(r) PROVE AccessInv'
  BY <1>1, TicketIssued
<1>2. ASSUME NEW method \in {"saml", "oidc"}, authdRestarts(method) PROVE AccessInv'
  BY <1>2, RestartKeeps
<1>3. ASSUME NEW b \in Browsers, NEW t \in 1..MaxSso, samlResult(b, t) PROVE AccessInv'
  BY <1>0, <1>3, ResultTaken
<1>4. ASSUME NEW b \in Browsers, logout(b) PROVE AccessInv'
  BY <1>4, LogoutKeeps
<1> QED BY <1>1, <1>2, <1>3, <1>4, TicketAnswered, ResultFiled, OidcStep DEF SsoNext

\* At the start nobody is signed in, nothing is queued and every account is as it was seeded.
LEMMA AccessStart ==
  ASSUME AccessInit, AccessAssumption
  PROVE  AccessInv
<1>1. LocalTypes
  <2>1. FactorySecret \in Password
    BY DEF Password
  <2>2. ASSUME NEW u \in Users
        PROVE  [pw |-> FactorySecret, must |-> u \in Seeded, old |-> u \in OldFormat, here |-> TRUE] \in Row
    <3>0. (u \in Seeded) \in BOOLEAN /\ (u \in OldFormat) \in BOOLEAN
      OBVIOUS
    <3>1. PICK m \in BOOLEAN : m = (u \in Seeded)
      BY <3>0
    <3>3. PICK o \in BOOLEAN : o = (u \in OldFormat)
      BY <3>0
    <3>2. [pw |-> FactorySecret, must |-> m, old |-> o, here |-> TRUE] \in Row
      BY <2>1 DEF Row
    <3> QED BY <3>1, <3>2, <3>3
  <2> HIDE DEF FactorySecret
  <2>3. updates \in Seq(Update)
    BY DEF AccessInit
  <2> QED BY <2>1, <2>2, <2>3 DEF AccessInit, LocalTypes
<1>2. SsoTypes /\ OidcTypes
  BY DEF AccessInit, SsoTypes, OidcTypes
<1>3. sessions = [b \in Browsers |-> NoSession] /\ \A b \in Browsers : sessions[b] = NoSession
  BY DEF AccessInit
<1>4. sessions \in [Browsers -> Session]
  BY <1>3, NobodyType
<1>5. Len(updates) = 0 /\ Len(acsQueue) = 0 /\ Len(acsAnswers) = 0 /\ Len(oidcDone) = 0
      /\ DOMAIN ssoResults = {} /\ Len(issued) = 0
  BY DEF AccessInit
<1>6. \A u \in Users : localUsers[u].here /\ localUsers[u].pw = answeredPw[u] /\ (u \notin OldFormat => ~localUsers[u].old)
  BY DEF AccessInit
<1>7. SessionsSound /\ UnlockedIsSetUp
  BY <1>3, NobodyType DEF SessionsSound, UnlockedIsSetUp
<1>8. LastSays /\ AnsweredIsStored
  <2>0. \A i \in 1..Len(updates) : FALSE
    BY <1>5
  <2>2. LastSays
    BY <1>6, <2>0, Zenon DEF LastSays
  <2> QED BY <1>6, <2>2 DEF AnsweredIsStored, StoredAsAnswered
<1>9. TicketsOnce /\ Earned
  BY <1>3, <1>5, NobodyType DEF TicketsOnce, Earned
<1>10. Spent
  BY <1>5 DEF Spent, OidcOnce
<1> QED BY <1>1, <1>2, <1>4, <1>7, <1>8, <1>9, <1>10 DEF AccessInv, AccessTypes, AccountsInv

\* The invariant holds of every state of the console's sign-in.
THEOREM AccessInvariant == AccessSpec => []AccessInv
<1>1. AccessInit => AccessInv
  BY AccessStart, AccessAssumption
<1>2. AccessInv /\ [AccessNext]_accessVars => AccessInv'
  <2> SUFFICES ASSUME AccessInv, [AccessNext]_accessVars PROVE AccessInv'
    OBVIOUS
  <2>1. CASE AccessNext
    BY <2>1, LocalStep, SsoStep, AccessAssumption DEF AccessNext
  <2>2. CASE UNCHANGED accessVars
    BY <2>2, ThrottleKeeps DEF accessVars, localVars
  <2> QED BY <2>1, <2>2
<1> QED BY <1>1, <1>2, PTL DEF AccessSpec

\* A federated session rests on the response of its ticket, which passed authd's checks and is
\* about its user, and a ticket opens one session; an OpenID Connect state succeeds once.  All this
\* whatever authd's restarts lose, whatever is posted again and whatever the browsers poll.
THEOREM SsoSoundAlways == AccessSpec => []SsoSound
<1>1. AccessInv => SsoSound
  <2> SUFFICES ASSUME AccessInv PROVE SsoSound
    OBVIOUS
  <2>1. SignInEarned
    BY DEF AccessInv, Earned, Speaks, TicketsOnce, SignInEarned
  <2> QED BY <2>1 DEF AccessInv, Spent, SsoSound
<1> QED BY <1>1, AccessInvariant, PTL

\* What the operators were answered about the accounts stays true, with any number of accounts,
\* browsers and updates on their way, with commits that change the roles and federated sign-ins
\* among them; an account whose last update was lost, or whose row engined's start put back, is
\* exempt until an update of it is stored.
THEOREM AccountsKeptAlways == AccessSpec => []AccountsKept
<1>1. AccessInv => AccountsKept
  BY DEF AccessInv, AccountsInv, AccountsKept
<1> QED BY <1>1, AccessInvariant, PTL
=============================================================================
