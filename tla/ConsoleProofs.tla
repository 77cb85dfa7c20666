---------------------------- MODULE ConsoleProofs ----------------------------
(***************************************************************************)
(* The commit page: what the stored document is, once engined has patched  *)
(* into it the batches that mgmtd accepted.                                *)
(*                                                                         *)
(* Every array of the stored document passed the shape checks, because     *)
(* each was validated in the batch that carried it; that is enough for the *)
(* administrator and the secrets, whatever is in flight.  The references   *)
(* are a fact about several arrays at once, judged against mgmtd's cached  *)
(* copy: they also need that copy to be the stored document when a batch   *)
(* is judged, and the stored document not to move before the batch is      *)
(* applied, which is what "not overtaken" says.                            *)
(*                                                                         *)
(* The credentials: the tickets on their way to collectord, in a call, on  *)
(* their way back, held and over part the tickets handed out             *)
(* (CredTickets), whatever path a test takes; and the value the store will *)
(* hold covers what collectord has cached and what a snapshot will put     *)
(* there (CredDurable).                                                    *)
(*                                                                         *)
(* The collection: a job has one wait or one call (ActInv); the table's    *)
(* oids are below its sequence and a released body has its successors      *)
(* (TableInv); everything served is at or above the reader's cursor, and   *)
(* what stays of the table has been served down to it (PagerInv).          *)
(*                                                                         *)
(* The log: a file's lines follow the entries written (FileInv); a row is  *)
(* a closed entry, and what lies behind the checkpoint is later than every *)
(* row (RowInv); the pages hold the rows down to the cursor (LogPagerInv). *)
(***************************************************************************)
EXTENDS Settings, Credentials, Collection, LogTail, FiniteSetTheorems, SequenceTheorems, WellFoundedInduction, TLAPS

\* A batch whose changes all name a known domain and are well shaped.
WellShaped(changes) ==
  \A c \in Entries(changes) : KnownScope(c) /\ validateCommitShape(c.domain, c.values)

\* Every array of the stored document, and every batch on its way to it, is
\* well shaped.
ShapesInv ==
  /\ queue \in Seq(Requests)
  /\ \A i \in 1..Len(queue) : WellShaped(queue[i].changes)
  /\ \A a \in Arrays : validArray(a, stored[a])

\* The arrays of the domains are the arrays of the document.
LEMMA ArraysAreKnown ==
  /\ \A d \in Domains : ArraysOf[d] \subseteq Arrays
  /\ \A a \in Arrays : \E d \in Domains : a \in ArraysOf[d]
BY DEF Arrays

\* The arrays the properties speak of.
LEMMA ArrayNames ==
  /\ {"sites", "ngfw_devices", "sase_devices", "api_credentials", "endpoints", "connectors",
      "users", "vendors", "services"} \subseteq Arrays
  /\ ArraysOf["connector"] = {"api_credentials", "endpoints", "connectors"}
  /\ "connector" \in Domains
  /\ \A d \in Domains : d # "connector" => ArraysOf[d] \cap ArraysOf["connector"] = {}
BY DEF Arrays, ArraysOf, Domains

\* A nonempty set of positions has a last one.
LEMMA LastExists ==
  ASSUME NEW n \in Nat, NEW S \in SUBSET (1..n), S # {}
  PROVE  \E i \in S : \A j \in S : j <= i
<1> DEFINE Above(i) == {j \in S : j > i}
           T == {Above(i) : i \in S}
<1>1. T \subseteq FiniteSubsetsOf(Nat)
  <2>1. SUFFICES ASSUME NEW i \in S PROVE IsFiniteSet(Above(i)) /\ Above(i) \in SUBSET Nat
    BY DEF FiniteSubsetsOf
  <2>2. Above(i) \in SUBSET (1..n)
    OBVIOUS
  <2>3. IsFiniteSet(1..n)
    BY FS_Interval
  <2> QED BY <2>2, <2>3, FS_Subset
<1>2. T # {}
  OBVIOUS
<1>3. PICK x \in T : \A y \in T : ~ (<<y, x>> \in StrictSubsetOrdering(Nat))
  <2>1. IsWellFoundedOn(StrictSubsetOrdering(Nat), FiniteSubsetsOf(Nat))
    BY FS_StrictSubsetOrderingWellFounded
  <2> HIDE DEF T
  <2> QED BY <1>1, <1>2, <2>1, WFMin, Zenon
<1>4. PICK i \in S : x = Above(i)
  OBVIOUS
<1>5. ASSUME NEW j \in S, ~(j <= i) PROVE FALSE
  <2>1. \A h \in S : h \in Nat
    OBVIOUS
  <2>2. Above(j) \subseteq Above(i) /\ j \in Above(i) /\ j \notin Above(j)
    <3>1. \A h \in S : h > j => h > i
      BY <1>5, <2>1
    <3>2. j > i /\ ~(j > j)
      BY <1>5, <2>1
    <3> QED BY <3>1, <3>2
  <2>3. Above(j) \in SUBSET Nat /\ Above(i) \in SUBSET Nat /\ Above(j) # Above(i)
    BY <2>1, <2>2
  <2>4. <<Above(j), Above(i)>> \in StrictSubsetOrdering(Nat)
    <3> HIDE DEF Above
    <3> QED BY <2>2, <2>3 DEF StrictSubsetOrdering
  <2> QED BY <1>3, <1>4, <2>4
<1> QED BY <1>5

\* LastOf chooses it.
LEMMA LastOfIn ==
  ASSUME NEW n \in Nat, NEW S \in SUBSET (1..n), S # {}
  PROVE  LastOf(S) \in S
BY LastExists DEF LastOf

\* What the commit of a batch writes into one array: what was there, or what
\* one of its changes carries for it.
LEMMA PatchedFrom ==
  ASSUME NEW base, NEW r \in Requests, NEW a \in Arrays
  PROVE  \/ /\ Patch(base, r.changes)[a] = base[a]
            /\ \A i \in DOMAIN r.changes : a \notin DOMAIN r.changes[i].values
         \/ \E i \in DOMAIN r.changes : /\ a \in DOMAIN r.changes[i].values
                                        /\ Patch(base, r.changes)[a] = r.changes[i].values[a]
<1> DEFINE By == {i \in DOMAIN r.changes : a \in DOMAIN r.changes[i].values}
<1>1. Patch(base, r.changes)[a] = IF By = {} THEN base[a] ELSE r.changes[LastOf(By)].values[a]
  BY DEF Patch
<1>2. CASE By = {}
  BY <1>1, <1>2
<1>3. CASE By # {}
  <2>1. LastOf(By) \in By
    <3>1. Len(r.changes) \in Nat /\ DOMAIN r.changes = 1..Len(r.changes)
      BY SettingsAssumption
    <3>2. By \in SUBSET (1..Len(r.changes))
      BY <3>1
    <3> HIDE DEF By
    <3> QED BY <1>3, <3>1, <3>2, LastOfIn
  <2> QED BY <1>1, <1>3, <2>1
<1> QED BY <1>2, <1>3

\* A change of a batch carries only arrays of its own domain.
LEMMA OwnArrays ==
  ASSUME NEW r \in Requests, WellShaped(r.changes), NEW i \in DOMAIN r.changes
  PROVE  /\ r.changes[i].domain \in Domains
         /\ DOMAIN r.changes[i].values \subseteq ArraysOf[r.changes[i].domain]
         /\ \A a \in DOMAIN r.changes[i].values : validArray(a, r.changes[i].values[a])
<1>1. r.changes[i] \in Entries(r.changes)
  BY DEF Entries
<1>2. r.changes[i].domain \in Domains /\ validateCommitShape(r.changes[i].domain, r.changes[i].values)
  BY <1>1 DEF WellShaped, KnownScope
<1>3. DOMAIN r.changes[i].values \subseteq ArraysOf[r.changes[i].domain]
  BY <1>1, <1>2, SettingsAssumption
<1> QED BY <1>2, <1>3 DEF validateCommitShape

\* What the shape checks let through is what the properties ask of an array.
LEMMA ShapesMean ==
  ASSUME NEW d, \A a \in Arrays : validArray(a, d[a])
  PROVE  /\ \A c \in Entries(d["connectors"]) : validApiConnector(c)
         /\ \A e \in Entries(d["endpoints"]) : validApiEndpoint(e)
         /\ \A k \in Entries(d["api_credentials"]) : validApiKey(k)
         /\ \E u \in Entries(d["users"]) : u.role = "admin"
         /\ \A a \in {"users", "api_credentials", "vendors", "services"} :
              \A e \in Entries(d[a]) : ~e.secret
<1>1. /\ validArray("connectors", d["connectors"]) /\ validArray("endpoints", d["endpoints"])
      /\ validArray("api_credentials", d["api_credentials"])
      /\ validArray("users", d["users"]) /\ validArray("vendors", d["vendors"])
      /\ validArray("services", d["services"])
  BY ArrayNames
<1>2. /\ \A c \in Entries(d["connectors"]) : validApiConnector(c)
      /\ \A e \in Entries(d["endpoints"]) : validApiEndpoint(e)
      /\ \A k \in Entries(d["api_credentials"]) : validApiKey(k)
      /\ validateUsers(d["users"]) /\ validateAiProviders(d["vendors"])
      /\ validateAiServices(d["services"])
  BY <1>1 DEF validArray
<1>3. \A e \in Entries(d["users"]) : ~e.secret
  BY <1>2 DEF validateUsers, validUserEntry, rejectSecrets
<1>4. \A e \in Entries(d["api_credentials"]) : ~e.secret
  BY <1>2 DEF validApiKey
<1>5. \A e \in Entries(d["vendors"]) : ~e.secret
  BY <1>2 DEF validateAiProviders, rejectSecrets
<1>6. \A e \in Entries(d["services"]) : ~e.secret
  BY <1>2 DEF validateAiServices, validateServiceEntry, rejectSecrets
<1>7. \E u \in Entries(d["users"]) : u.role = "admin"
  BY <1>2 DEF validateUsers
<1> QED BY <1>2, <1>3, <1>4, <1>5, <1>6, <1>7

\* The stored document keeps its shape when a well shaped batch is patched in.
LEMMA PatchKeepsShape ==
  ASSUME NEW base, \A a \in Arrays : validArray(a, base[a]),
         NEW r \in Requests, WellShaped(r.changes)
  PROVE  \A a \in Arrays : validArray(a, Patch(base, r.changes)[a])
<1> SUFFICES ASSUME NEW a \in Arrays PROVE validArray(a, Patch(base, r.changes)[a])
  OBVIOUS
<1>1. CASE Patch(base, r.changes)[a] = base[a]
  BY <1>1
<1>2. CASE \E i \in DOMAIN r.changes : /\ a \in DOMAIN r.changes[i].values
                                       /\ Patch(base, r.changes)[a] = r.changes[i].values[a]
  BY <1>2, OwnArrays
<1> QED BY <1>1, <1>2, PatchedFrom

\* A queue after a batch is sent, and after the oldest one is taken.
LEMMA QueueMoves ==
  ASSUME queue \in Seq(Requests)
  PROVE  /\ \A r \in Requests : /\ Append(queue, r) \in Seq(Requests)
                                /\ Len(Append(queue, r)) = Len(queue) + 1
                                /\ \A i \in 1..Len(queue) : Append(queue, r)[i] = queue[i]
                                /\ Append(queue, r)[Len(queue) + 1] = r
         /\ queue # <<>> => /\ Head(queue) \in Requests /\ Head(queue) = queue[1]
                            /\ 1 \in 1..Len(queue)
                            /\ Tail(queue) \in Seq(Requests)
                            /\ Len(Tail(queue)) = Len(queue) - 1
                            /\ \A i \in 1..Len(Tail(queue)) :
                                 i + 1 \in 1..Len(queue) /\ Tail(queue)[i] = queue[i + 1]
<1>1. Len(queue) \in Nat
  OBVIOUS
<1>2. ASSUME NEW r \in Requests
      PROVE  /\ Append(queue, r) \in Seq(Requests)
             /\ Len(Append(queue, r)) = Len(queue) + 1
             /\ \A i \in 1..Len(queue) : Append(queue, r)[i] = queue[i]
             /\ Append(queue, r)[Len(queue) + 1] = r
  BY AppendProperties
<1>3. ASSUME queue # <<>>
      PROVE  /\ Head(queue) \in Requests /\ Head(queue) = queue[1]
             /\ 1 \in 1..Len(queue)
             /\ Tail(queue) \in Seq(Requests)
             /\ Len(Tail(queue)) = Len(queue) - 1
             /\ \A i \in 1..Len(Tail(queue)) :
                  i + 1 \in 1..Len(queue) /\ Tail(queue)[i] = queue[i + 1]
  BY <1>1, <1>3, HeadTailProperties
<1> QED BY <1>2, <1>3

\* What is left of a queue that was cut: entries of it, in their order.
LEMMA CutWithin ==
  ASSUME NEW S, NEW q \in Seq(S), NEW r \in Cut(q)
  PROVE  /\ r \in Seq(S)
         /\ \E d \in Nat : \A i \in 1..Len(r) : i + d \in 1..Len(q) /\ r[i] = q[i + d]
<1>1. Len(q) \in Nat /\ \A i \in 1..Len(q) : q[i] \in S
  OBVIOUS
<1>2. PICK m \in 1..(Len(q) + 1) : \E n \in 0..Len(q) : r = SubSeq(q, m, n)
  BY DEF Cut
<1>3. PICK n \in 0..Len(q) : r = SubSeq(q, m, n)
  BY <1>2
<1>4. m \in Int /\ n \in Int /\ m - 1 \in Nat
  BY <1>1
<1>5. \A i \in m..n : q[i] \in S
  <2>1. \A i \in m..n : i \in 1..Len(q)
    BY <1>1
  <2> QED BY <1>1, <2>1
<1>6. /\ r \in Seq(S) /\ Len(r) = IF m <= n THEN n - m + 1 ELSE 0
      /\ \A i \in 1..(n - m + 1) : r[i] = q[m + i - 1]
  BY <1>3, <1>4, <1>5, SubSeqProperties
<1>7. ASSUME NEW i \in 1..Len(r) PROVE i + (m - 1) \in 1..Len(q) /\ r[i] = q[i + (m - 1)]
  <2>1. i \in 1..(n - m + 1)
    BY <1>4, <1>6
  <2>2. i + (m - 1) \in 1..Len(q) /\ m + i - 1 = i + (m - 1)
    BY <1>1, <1>4, <2>1
  <2> QED BY <1>6, <2>1, <2>2
<1> QED BY <1>4, <1>6, <1>7

\* A batch is sent only once its shape was checked.
LEMMA AcceptedIsShaped ==
  ASSUME NEW r, NEW base, Accepted(r, base)
  PROVE  WellShaped(r.changes)
BY DEF Accepted, WellShaped

\* A slice of a queue is what a cut may leave of it.
LEMMA SliceIsCut ==
  ASSUME NEW q, NEW m \in 1..(Len(q) + 1), NEW n \in 0..Len(q)
  PROVE  SubSeq(q, m, n) \in Cut(q)
BY DEF Cut

\* A restart of engined cuts the queue of the batches.
LEMMA RestartCuts ==
  ASSUME queue \in Seq(Requests), EnginedRestart
  PROVE  queue' \in Cut(queue) /\ Len(queue') <= Len(queue)
<1>1. PICK n \in 0 .. Len(queue) : queue' = SubSeq(queue, n + 1, Len(queue))
  BY DEF EnginedRestart
<1>2. Len(queue) \in Nat
  OBVIOUS
<1>3. PICK m \in 1 .. (Len(queue) + 1), k \in 0 .. Len(queue) : queue' = SubSeq(queue, m, k)
  <2>1. n + 1 \in 1 .. (Len(queue) + 1) /\ Len(queue) \in 0 .. Len(queue)
    BY <1>2
  <2> QED BY <1>1, <2>1
<1>4. queue' \in Cut(queue)
  BY <1>3, SliceIsCut
<1>5. Len(queue') <= Len(queue)
  <2>1. Len(queue') = IF n + 1 <= Len(queue) THEN Len(queue) - (n + 1) + 1 ELSE 0
    <3>1. \A i \in (n + 1) .. Len(queue) : queue[i] \in Requests
      BY <1>2
    <3> QED BY <1>1, <1>2, <3>1, SubSeqProperties
  <2> QED BY <1>2, <2>1
<1> QED BY <1>4, <1>5

\* The start document has the shape of a committed one.
LEMMA ShapesInit == SettingsInit => ShapesInv
<1> SUFFICES ASSUME SettingsInit PROVE ShapesInv
  OBVIOUS
<1>1. queue = <<>> /\ stored = StartDocument
  BY DEF SettingsInit
<1>2. queue \in Seq(Requests) /\ Len(queue) = 0
  BY <1>1
<1>3. ASSUME NEW a \in Arrays PROVE validArray(a, stored[a])
  <2>1. PICK d \in Domains : a \in ArraysOf[d]
    BY ArraysAreKnown
  <2>2. a \in DOMAIN StartDocument /\ validateCommitShape(d, StartDocument)
    BY SettingsAssumption
  <2> QED BY <1>1, <2>1, <2>2 DEF validateCommitShape
<1>4. \A i \in 1..Len(queue) : FALSE
  BY <1>2
<1> QED BY <1>2, <1>3, <1>4 DEF ShapesInv

\* Whatever mgmtd and engined do, the shapes stay: only a batch whose shape was
\* checked is sent, and only such a batch is patched in.
LEMMA ShapesStep == ShapesInv /\ [SettingsNext]_settingsVars => ShapesInv'
<1> SUFFICES ASSUME ShapesInv, [SettingsNext]_settingsVars PROVE ShapesInv'
  OBVIOUS
<1>1. CASE UNCHANGED <<queue, stored>>
  BY <1>1 DEF ShapesInv
<1>2. ASSUME NEW r \in Requests, queue' = Append(queue, r), UNCHANGED stored, Accepted(r, View)
      PROVE  ShapesInv'
  <2>1. /\ queue' \in Seq(Requests) /\ Len(queue') = Len(queue) + 1 /\ Len(queue) \in Nat
        /\ \A i \in 1..Len(queue) : queue'[i] = queue[i]
        /\ queue'[Len(queue) + 1] = r
    BY <1>2, QueueMoves DEF ShapesInv
  <2>2. WellShaped(r.changes)
    BY <1>2, AcceptedIsShaped
  <2>3. ASSUME NEW i \in 1..Len(queue') PROVE WellShaped(queue'[i].changes)
    <3>1. CASE i \in 1..Len(queue)
      BY <2>1, <3>1 DEF ShapesInv
    <3>2. CASE i = Len(queue) + 1
      BY <2>1, <2>2, <3>2
    <3> QED BY <2>1, <3>1, <3>2
  <2>4. \A i \in 1..Len(queue') : WellShaped(queue[i].changes)'
    BY <2>3 DEF WellShaped, KnownScope
  <2> QED BY <1>2, <2>1, <2>4 DEF ShapesInv
<1>3. ASSUME ApplyCommit PROVE ShapesInv'
  <2>1. queue # <<>> /\ queue' = Tail(queue)
    BY <1>3 DEF ApplyCommit
  <2>2. /\ Head(queue) \in Requests /\ Head(queue) = queue[1] /\ 1 \in 1..Len(queue)
        /\ queue' \in Seq(Requests)
        /\ \A i \in 1..Len(queue') : i + 1 \in 1..Len(queue) /\ queue'[i] = queue[i + 1]
    BY <2>1, QueueMoves DEF ShapesInv
  <2>3. \A i \in 1..Len(queue') : WellShaped(queue'[i].changes)
    BY <2>2 DEF ShapesInv
  <2>4. WellShaped(Head(queue).changes)
    BY <2>2 DEF ShapesInv
  <2>5. \A a \in Arrays : validArray(a, stored'[a])
    <3>1. CASE stored' = stored
      BY <3>1 DEF ShapesInv
    <3>2. CASE stored' = Patch(stored, Head(queue).changes)
      BY <2>2, <2>4, <3>2, PatchKeepsShape DEF ShapesInv
    <3> QED BY <1>3, <3>1, <3>2 DEF ApplyCommit
  <2> QED BY <2>2, <2>3, <2>5 DEF ShapesInv
<1>4. ASSUME NEW r \in Requests, commit(r) PROVE ShapesInv'
  <2>1. UNCHANGED stored /\ (UNCHANGED queue \/ (queue' = Append(queue, r) /\ Accepted(r, View)))
    BY <1>4 DEF commit
  <2> QED BY <1>1, <1>2, <2>1
<1>5. CASE get \/ ReceiveAnswer \/ AnswerCommit \/ \E n \in Names : saveConfig(n)
  BY <1>1, <1>5 DEF get, ReceiveAnswer, AnswerCommit, saveConfig
<1>6. ASSUME EnginedRestart PROVE ShapesInv'
  <2>1. queue' \in Cut(queue) /\ UNCHANGED stored
    BY <1>6, RestartCuts DEF EnginedRestart, ShapesInv
  <2>2. PICK d \in Nat : \A i \in 1..Len(queue') : i + d \in 1..Len(queue) /\ queue'[i] = queue[i + d]
    BY <2>1, CutWithin DEF ShapesInv
  <2>3. queue' \in Seq(Requests)
    BY <2>1, CutWithin DEF ShapesInv
  <2>4. \A i \in 1..Len(queue') : WellShaped(queue'[i].changes)
    BY <2>2 DEF ShapesInv
  <2> QED BY <2>1, <2>3, <2>4 DEF ShapesInv
<1> QED BY <1>1, <1>3, <1>4, <1>5, <1>6 DEF SettingsNext, settingsVars

\* No sequence of commits by sessions of either role, however many are in
\* flight and whatever mgmtd's cached copy holds, leaves the appliance without
\* an administrator or a secret in the versioned document.
THEOREM NoLockOutAlways == SettingsSpec => []NoLockOut
<1>1. ShapesInv => NoLockOut
  BY ShapesMean DEF ShapesInv, NoLockOut
<1> QED BY <1>1, ShapesInit, ShapesStep, PTL DEF SettingsSpec
-----------------------------------------------------------------------------
(* The references, as long as no batch is overtaken.                       *)

\* What mgmtd judged of a batch: with its connector arrays laid over doc, every
\* reference resolves.
RefsHold(changes, document) ==
  (\E c \in Entries(changes) : c.domain = "connector") =>
    checkApiReferences(Overlay(document, MergedFor(changes, "connector")))

\* Until a batch is overtaken, one batch at most waits for engined, and the document is the
\* one it was judged against.
RefsInv ==
  ~overtaken => /\ Len(queue) <= 1
                /\ checkApiReferences(stored)
                /\ \A i \in 1..Len(queue) : RefsHold(queue[i].changes, stored)

\* checkApiReferences reads the arrays of the connector domain and no other.
LEMMA RefsRead ==
  ASSUME NEW d1, NEW d2, \A a \in ArraysOf["connector"] : d1[a] = d2[a]
  PROVE  checkApiReferences(d1) = checkApiReferences(d2)
<1>1. /\ d1["connectors"] = d2["connectors"] /\ d1["endpoints"] = d2["endpoints"]
      /\ d1["api_credentials"] = d2["api_credentials"]
  BY ArrayNames
<1> QED BY <1>1 DEF checkApiReferences

\* engined's patch and mgmtd's overlay agree on the arrays of the connector
\* domain: mgmtd merged the changes of the domain, engined patches change by
\* change, and in both the last one that carries an array wins.
LEMMA PatchIsOverlay ==
  ASSUME NEW document, NEW r \in Requests, WellShaped(r.changes),
         NEW a \in ArraysOf["connector"]
  PROVE  Patch(document, r.changes)[a] = Overlay(document, MergedFor(r.changes, "connector"))[a]
<1> DEFINE By == {i \in DOMAIN r.changes : a \in DOMAIN r.changes[i].values}
           At == Carrying(r.changes, "connector", a)
<1>1. a \in Arrays
  BY ArrayNames, ArraysAreKnown
<1>2. By = At
  <2>1. ASSUME NEW i \in DOMAIN r.changes, a \in DOMAIN r.changes[i].values
        PROVE  r.changes[i].domain = "connector"
    BY <2>1, OwnArrays, ArrayNames
  <2> QED BY <2>1 DEF Carrying
<1>3. Patch(document, r.changes)[a]
        = IF By = {} THEN document[a] ELSE r.changes[LastOf(By)].values[a]
  BY <1>1 DEF Patch
<1>4. /\ a \in DOMAIN MergedFor(r.changes, "connector") <=> At # {}
      /\ At # {} => MergedFor(r.changes, "connector")[a] = r.changes[LastOf(At)].values[a]
  BY <1>1 DEF MergedFor
<1>5. Overlay(document, MergedFor(r.changes, "connector"))[a]
        = IF a \in DOMAIN MergedFor(r.changes, "connector")
            THEN MergedFor(r.changes, "connector")[a] ELSE document[a]
  BY <1>1 DEF Overlay
<1> HIDE DEF By, At
<1> QED BY <1>2, <1>3, <1>4, <1>5

\* A batch that was judged against the stored document leaves no reference
\* dangling when it is patched in.
LEMMA PatchKeepsRefs ==
  ASSUME NEW document, checkApiReferences(document),
         NEW r \in Requests, WellShaped(r.changes), RefsHold(r.changes, document)
  PROVE  checkApiReferences(Patch(document, r.changes))
<1>1. CASE \E c \in Entries(r.changes) : c.domain = "connector"
  <2>1. checkApiReferences(Overlay(document, MergedFor(r.changes, "connector")))
    BY <1>1 DEF RefsHold
  <2> DEFINE patched == Patch(document, r.changes)
             judged == Overlay(document, MergedFor(r.changes, "connector"))
  <2>2. \A a \in ArraysOf["connector"] : patched[a] = judged[a]
    BY PatchIsOverlay
  <2>3. checkApiReferences(judged)
    BY <2>1
  <2> HIDE DEF patched, judged
  <2>4. checkApiReferences(patched)
    BY <2>2, <2>3, RefsRead
  <2> QED BY <2>4 DEF patched
<1>2. CASE ~\E c \in Entries(r.changes) : c.domain = "connector"
  <2>1. ASSUME NEW a \in ArraysOf["connector"] PROVE Patch(document, r.changes)[a] = document[a]
    <3>1. a \in Arrays
      BY ArrayNames, ArraysAreKnown
    <3>2. ASSUME NEW i \in DOMAIN r.changes PROVE a \notin DOMAIN r.changes[i].values
      <4>1. r.changes[i].domain # "connector"
        BY <1>2 DEF Entries
      <4> QED BY <4>1, OwnArrays, ArrayNames
    <3> QED BY <3>1, <3>2, PatchedFrom
  <2> QED BY <2>1, RefsRead
<1> QED BY <1>1, <1>2

\* A batch mgmtd accepts against a document has its references judged there.
LEMMA AcceptedRefs ==
  ASSUME NEW r, NEW document, Accepted(r, document)
  PROVE  RefsHold(r.changes, document)
<1> SUFFICES ASSUME NEW c \in Entries(r.changes), c.domain = "connector"
             PROVE  checkApiReferences(Overlay(document, MergedFor(r.changes, "connector")))
  BY DEF RefsHold
<1>1. validateCommitRefs("connector", document, MergedFor(r.changes, "connector"))
  BY DEF Accepted
<1> QED BY <1>1 DEF validateCommitRefs, validateApiReferences

\* Every connector the loader reads from a sound document, it keeps, and every
\* poll armed from it finds its key and its endpoint.
LEMMA SoundIsCollected ==
  ASSUME ShapesInv, checkApiReferences(stored)
  PROVE  AcceptedIsCollected
<1>1. /\ \A c \in Entries(stored["connectors"]) : validApiConnector(c)
      /\ \A e \in Entries(stored["endpoints"]) : validApiEndpoint(e)
      /\ \A k \in Entries(stored["api_credentials"]) : validApiKey(k)
  BY ShapesMean DEF ShapesInv
<1>2. \A c \in Entries(stored["connectors"]) : LoadsConnector(c)
  BY <1>1 DEF validApiConnector, LoadsConnector
<1>3. \A e \in Entries(stored["endpoints"]) : e \in loadEndpoints(stored)
  <2> SUFFICES ASSUME NEW e \in Entries(stored["endpoints"]) PROVE e \in loadEndpoints(stored)
    OBVIOUS
  <2>1. validApiEndpoint(e)
    BY <1>1
  <2>2. e.deviceType = "sase" => Subtype(e) = "ztna" /\ e.host # ""
    BY <2>1 DEF validApiEndpoint
  <2> QED BY <2>1, <2>2 DEF validApiEndpoint, loadEndpoints
<1>4. \A k \in Entries(stored["api_credentials"]) : k \in loadProfiles(stored)
  BY <1>1 DEF validApiKey, loadProfiles
<1>5. ASSUME NEW job \in Jobs(stored)
      PROVE  findProfile(stored, job.profile) /\ findEndpoint(stored, job.endpoint)
  <2>1. PICK c \in loadConnectors(stored) : \E item \in c.items :
          job = [at |-> <<c.at, item.at>>, connector |-> c.oid, object |-> c.object,
                 profile |-> c.authProfile, endpoint |-> item.endpoint]
    BY <1>5 DEF Jobs
  <2>2. PICK item \in c.items : job.profile = c.authProfile /\ job.endpoint = item.endpoint
    BY <2>1
  <2>3. PICK k \in Entries(stored["connectors"]) :
          c.items = LoadedItems(k) /\ c.authProfile = k.authProfile
    <3> DEFINE Con(n) == [at |-> n, oid |-> stored["connectors"][n].oid, object |-> stored["connectors"][n].object,
                          authProfile |-> stored["connectors"][n].authProfile,
                          items |-> LoadedItems(stored["connectors"][n])]
    <3>1. PICK n \in DOMAIN stored["connectors"] : c = Con(n)
      BY DEF loadConnectors
    <3>2. c.items = LoadedItems(stored["connectors"][n]) /\ c.authProfile = stored["connectors"][n].authProfile
      BY <3>1
    <3> QED BY <3>2 DEF Entries
  <2>4. PICK i \in Entries(k.items) : i.endpoint # "" /\ item.endpoint = i.endpoint
    <3> DEFINE Read(n) == [at |-> n, endpoint |-> k.items[n].endpoint, enabled |-> k.items[n].enabled,
                           interval |-> IF k.items[n].interval < 1 THEN 60 ELSE k.items[n].interval]
    <3>1. PICK n \in DOMAIN k.items : k.items[n].endpoint # "" /\ item = Read(n)
      BY <2>3 DEF LoadedItems
    <3>2. item.endpoint = k.items[n].endpoint
      BY <3>1
    <3> QED BY <3>1, <3>2 DEF Entries
  <2>5. job.endpoint = i.endpoint /\ job.profile = k.authProfile
    BY <2>2, <2>3, <2>4
  <2>6. containsOid(stored["endpoints"], i.endpoint)
    BY <2>4 DEF checkApiReferences
  <2>7. containsOid(stored["api_credentials"], k.authProfile)
    BY <1>1 DEF checkApiReferences, validApiConnector
  <2> QED BY <1>3, <1>4, <2>5, <2>6, <2>7 DEF containsOid, findEndpoint, findProfile
<1> QED BY <1>2, <1>5 DEF AcceptedIsCollected

\* mgmtd starts with nothing sent, on a document whose references resolve.
LEMMA RefsInit == SettingsInit => RefsInv
<1> SUFFICES ASSUME SettingsInit PROVE RefsInv
  OBVIOUS
<1>1. queue = <<>> /\ stored = StartDocument
  BY DEF SettingsInit
<1>2. Len(queue) = 0
  BY <1>1
<1>3. \A i \in 1..Len(queue) : FALSE
  BY <1>2
<1>4. checkApiReferences(stored)
  BY <1>1, SettingsAssumption
<1> QED BY <1>2, <1>3, <1>4 DEF RefsInv

\* A batch that is not overtaken is judged against the stored document, with none before it.
LEMMA RefsCommit ==
  ASSUME ShapesInv, RefsInv, NEW r \in Requests, commit(r)
  PROVE  RefsInv'
<1>1. UNCHANGED stored /\ (overtaken => overtaken')
  BY DEF commit
<1>2. CASE UNCHANGED queue
  BY <1>1, <1>2 DEF RefsInv
<1>3. CASE /\ queue' = Append(queue, r) /\ Accepted(r, View)
           /\ overtaken' = (overtaken \/ queue # <<>> \/ View # stored)
  <2> SUFFICES ASSUME queue = <<>>, View = stored
               PROVE  RefsInv'
    BY <1>3 DEF RefsInv
  <2>1. queue' = <<r>>
    BY <1>3
  <2>2. Len(queue') = 1 /\ queue'[1] = r /\ \A i \in 1..Len(queue') : i = 1
    BY <2>1
  <2>3. RefsHold(r.changes, stored)
    BY <1>3, AcceptedRefs
  <2>4. \A i \in 1..Len(queue') : RefsHold(queue'[i].changes, stored')
    BY <1>1, <2>2, <2>3
  <2> QED BY <1>1, <1>3, <2>2, <2>4 DEF RefsInv
<1> QED BY <1>2, <1>3 DEF commit

\* engined applies the batch to the document it was judged against.
LEMMA RefsApply ==
  ASSUME ShapesInv, RefsInv, ApplyCommit
  PROVE  RefsInv'
<1> SUFFICES ASSUME ~overtaken PROVE RefsInv'
  BY DEF ApplyCommit, RefsInv
<1>1. queue # <<>> /\ queue' = Tail(queue) /\ Len(queue) \in Nat /\ Len(queue) <= 1
  BY DEF ApplyCommit, RefsInv, ShapesInv
<1>2. /\ Head(queue) \in Requests /\ Head(queue) = queue[1] /\ 1 \in 1..Len(queue)
      /\ Len(queue') = Len(queue) - 1
  BY <1>1, QueueMoves DEF ShapesInv
<1>3. Len(queue') = 0
  BY <1>1, <1>2
<1>4. \A i \in 1..Len(queue') : FALSE
  BY <1>3
<1>5. WellShaped(Head(queue).changes) /\ RefsHold(Head(queue).changes, stored)
  BY <1>2 DEF ShapesInv, RefsInv
<1>6. checkApiReferences(stored')
  <2>1. checkApiReferences(stored)
    BY DEF RefsInv
  <2>2. CASE stored' = Patch(stored, Head(queue).changes)
    BY <1>2, <1>5, <2>1, <2>2, PatchKeepsRefs
  <2>3. CASE stored' = stored
    BY <2>1, <2>3
  <2> QED BY <2>2, <2>3 DEF ApplyCommit
<1> QED BY <1>3, <1>4, <1>6 DEF RefsInv

\* A restart of engined takes batches away.
LEMMA RefsRestart ==
  ASSUME ShapesInv, RefsInv, EnginedRestart
  PROVE  RefsInv'
<1> SUFFICES ASSUME ~overtaken PROVE RefsInv'
  BY DEF EnginedRestart, RefsInv
<1>1. queue \in Seq(Requests) /\ UNCHANGED stored
  BY DEF ShapesInv, EnginedRestart
<1>2. queue' \in Cut(queue) /\ Len(queue') <= Len(queue)
  BY <1>1, RestartCuts
<1>3. PICK d \in Nat : \A i \in 1..Len(queue') : i + d \in 1..Len(queue) /\ queue'[i] = queue[i + d]
  BY <1>1, <1>2, CutWithin
<1>4. queue' \in Seq(Requests)
  BY <1>1, <1>2, CutWithin
<1>5. Len(queue') <= 1
  <2>1. Len(queue) \in Nat /\ Len(queue') \in Nat
    BY <1>1, <1>4
  <2>2. Len(queue) <= 1
    BY DEF RefsInv
  <2> QED BY <1>2, <2>1, <2>2
<1>6. \A i \in 1..Len(queue') : RefsHold(queue'[i].changes, stored')
  BY <1>1, <1>3 DEF RefsInv
<1> QED BY <1>1, <1>5, <1>6 DEF RefsInv

\* Every step keeps the references, until a batch is overtaken.
LEMMA RefsStep == ShapesInv /\ RefsInv /\ [SettingsNext]_settingsVars => RefsInv'
<1> SUFFICES ASSUME ShapesInv, RefsInv, [SettingsNext]_settingsVars PROVE RefsInv'
  OBVIOUS
<1>1. CASE UNCHANGED <<stored, queue, overtaken>>
  BY <1>1 DEF RefsInv
<1>2. CASE UNCHANGED settingsVars \/ get \/ ReceiveAnswer \/ AnswerCommit \/ \E n \in Names : saveConfig(n)
  BY <1>1, <1>2 DEF settingsVars, get, ReceiveAnswer, AnswerCommit, saveConfig
<1> QED BY <1>2, RefsCommit, RefsApply, RefsRestart DEF SettingsNext

\* Whatever sequence of commits mgmtd accepts, however many are open, whatever its copy
\* holds and whatever engined loses or fails: an administrator and no secret; and, until a
\* batch is applied to a document other than the one it was judged against, a document
\* collectord polls as it stands.
THEOREM StoredSoundAlways == SettingsSpec => []StoredSound
<1>1. SettingsInit => ShapesInv /\ RefsInv
  BY ShapesInit, RefsInit
<1>2. ShapesInv /\ RefsInv /\ [SettingsNext]_settingsVars => (ShapesInv /\ RefsInv)'
  BY ShapesStep, RefsStep
<1>3. ShapesInv /\ RefsInv => StoredSound
  <2>1. ShapesInv => NoLockOut
    BY ShapesMean DEF ShapesInv, NoLockOut
  <2> QED BY <2>1, SoundIsCollected DEF StoredSound, RefsInv
<1> QED BY <1>1, <1>2, <1>3, PTL DEF SettingsSpec

-----------------------------------------------------------------------------
(* Credentials: what is in flight.                                         *)

\* A request on its way to collectord, and a snapshot for it.
AskRecs ==
  {r \in [kind : Kinds, oid : Oids, secret : Nat, named : BOOLEAN, stored : BOOLEAN,
          sound : BOOLEAN, pin : Pins, seqNo : Nat] :
     /\ r.seqNo # 0
     /\ r.kind \in {"keygen", "endpoint", "tlsProbe", "store"} => r.oid \in Profiles
     /\ r.kind \in {"saseTest", "saseKey"} => r.oid \in SaseDevices
     /\ r.kind = "store" => r.secret # 0}

RowRecs == [key : Nat, account : Nat, test : {"none", "ok", "failed"}]

StateRecs == [kind : {"state"}, rows : [Profiles -> RowRecs], sase : [SaseDevices -> Nat]]

ToCollectordRecs == AskRecs \cup StateRecs

\* What collectord sends engined.
UpdateRecs == [kind : {"update"}, oid : Profiles, account : Nat, key : Nat, test : {"none", "ok", "failed"}]
SaseKeyRecs == [kind : {"saseKey"}, oid : SaseDevices, key : Nat]
AskStateRecs == [kind : {"stateRequest"}]

ToEnginedRecs == UpdateRecs \cup SaseKeyRecs \cup AskStateRecs

\* A call in flight.
Stages == {"keygen", "endpoint", "token", "health", "tls"}

CallRecs ==
  {c \in [seqNo : Nat, oid : Oids, stage : Stages, account : Nat, typed : BOOLEAN, key : Nat,
          req : [verifyCa : BOOLEAN, pin : Pins]] :
     /\ c.stage \in {"keygen", "token", "endpoint"} => c.oid \in Profiles
     /\ c.stage = "health" => c.oid \in SaseDevices}

CredTypes ==
  /\ issuedKeys \in [Oids -> Nat] /\ saseAccounts \in [Profiles -> Nat]
  /\ setupDone \in BOOLEAN /\ available \in BOOLEAN
  /\ credCalls \in SUBSET CallRecs
  /\ toCollectord \in Seq(ToCollectordRecs) /\ toEngined \in Seq(ToEnginedRecs)
  /\ toMgmtd \in Seq(Nat \ {0})
  /\ keyRows \in [Profiles -> RowRecs] /\ saseRows \in [SaseDevices -> Nat]
  /\ nextTicket \in Nat \ {0} /\ issuedCount \in Nat /\ faults \in Nat /\ dropped \in BOOLEAN

\* The passwords are numbers.
LEMMA PasswordNumbers == \A r \in ConnectorTests : r.secret \in Nat
<1>1. Passwords \cup {0} \subseteq Nat
  BY CredentialAssumption
<1> QED BY <1>1 DEF ConnectorTests

\* What Append and Tail do to a queue.
LEMMA Appended ==
  ASSUME NEW S, NEW s \in Seq(S), NEW x \in S
  PROVE  /\ Append(s, x) \in Seq(S) /\ Len(Append(s, x)) = Len(s) + 1 /\ Len(s) \in Nat
         /\ \A i \in 1..Len(s) : Append(s, x)[i] = s[i]
         /\ Append(s, x)[Len(s) + 1] = x
         /\ \A i \in 1..Len(Append(s, x)) : i \in 1..Len(s) \/ i = Len(s) + 1
         /\ \A i \in 1..Len(s) : i \in 1..Len(Append(s, x)) /\ i # Len(s) + 1 /\ i <= Len(s) + 1
         /\ Len(s) + 1 \in 1..Len(Append(s, x))
<1>1. Len(s) \in Nat
  OBVIOUS
<1>2. /\ Append(s, x) \in Seq(S) /\ Len(Append(s, x)) = Len(s) + 1
      /\ \A i \in 1..Len(s) : Append(s, x)[i] = s[i]
      /\ Append(s, x)[Len(s) + 1] = x
  BY AppendProperties
<1>3. \A n \in Nat : /\ \A i \in 1..(n + 1) : i \in 1..n \/ i = n + 1
                     /\ \A i \in 1..n : i \in 1..(n + 1) /\ i # n + 1 /\ i <= n + 1
                     /\ n + 1 \in 1..(n + 1)
  OBVIOUS
<1> QED BY <1>1, <1>2, <1>3

\* Taking the oldest entry of a queue.
LEMMA Taken ==
  ASSUME NEW S, NEW s \in Seq(S), s # <<>>
  PROVE  /\ Head(s) \in S /\ Head(s) = s[1] /\ 1 \in 1..Len(s)
         /\ Tail(s) \in Seq(S) /\ Len(Tail(s)) = Len(s) - 1
         /\ \A i \in 1..Len(Tail(s)) : i + 1 \in 1..Len(s) /\ i + 1 # 1 /\ Tail(s)[i] = s[i + 1]
         /\ \A k \in 1..Len(s) : k # 1 => k - 1 \in 1..Len(Tail(s)) /\ Tail(s)[k - 1] = s[k]
<1>1. Len(s) \in Nat /\ Len(s) # 0
  BY EmptySeq
<1>2. /\ Head(s) \in S /\ Head(s) = s[1]
      /\ Tail(s) \in Seq(S) /\ Len(Tail(s)) = Len(s) - 1
      /\ \A i \in 1..Len(Tail(s)) : Tail(s)[i] = s[i + 1]
  BY HeadTailProperties
<1>3. \A n \in Nat : n # 0 =>
        /\ 1 \in 1..n
        /\ \A i \in 1..(n - 1) : i + 1 \in 1..n /\ i + 1 # 1
        /\ \A k \in 1..n : k # 1 => k - 1 \in 1..(n - 1) /\ (k - 1) + 1 = k
  OBVIOUS
<1>4. /\ 1 \in 1..Len(s)
      /\ \A i \in 1..(Len(s) - 1) : i + 1 \in 1..Len(s) /\ i + 1 # 1
      /\ \A k \in 1..Len(s) : k # 1 => k - 1 \in 1..(Len(s) - 1) /\ (k - 1) + 1 = k
  BY <1>1, <1>3
<1> QED BY <1>2, <1>4

-----------------------------------------------------------------------------
(* What a step of collectord does.                                         *)

\* The ticket n is answered; the headless 0 is not.
Replied(n) ==
  /\ toMgmtd' = IF n = 0 THEN toMgmtd ELSE Append(toMgmtd, n)
  /\ credCalls' = credCalls

\* ... or a call is made for it.
Called(n) ==
  /\ toMgmtd' = toMgmtd
  /\ \E c \in CallRecs : c.seqNo = n /\ credCalls' = credCalls \cup {c}

\* What a handler does to the caches and to what goes to engined: nothing, ...
Silent == UNCHANGED <<issuedKeys, saseAccounts, toEngined>>

\* ... a key of a SASE tenant is sent, ...
TenantKey == /\ UNCHANGED <<issuedKeys, saseAccounts>>
             /\ \E m \in SaseKeyRecs : toEngined' = Append(toEngined, m)

\* ... an account is stored, ...
AccountStored == /\ UNCHANGED issuedKeys
                 /\ \E m \in UpdateRecs :
                      /\ m.key = 0 /\ m.account # 0 /\ toEngined' = Append(toEngined, m)
                      /\ saseAccounts' = [saseAccounts EXCEPT ![m.oid] = m.account]

\* ... the outcome of a key request is stored, ...
Outcome(p, key) ==
  /\ UNCHANGED saseAccounts
  /\ issuedKeys' = IF key # 0 THEN [issuedKeys EXCEPT ![p] = key] ELSE issuedKeys
  /\ \E m \in UpdateRecs : /\ m.oid = p /\ m.key = (IF available THEN key ELSE 0)
                           /\ toEngined' = Append(toEngined, m)

\* ... or the caches are replaced by a snapshot.
Refilled(m) ==
  /\ UNCHANGED toEngined
  /\ issuedKeys' = [o \in Oids |-> IF o \in Profiles THEN Seal(m.rows[o].key) ELSE Seal(m.sase[o])]
  /\ saseAccounts' = [p \in Profiles |-> Seal(m.rows[p].account)]

\* An answered ticket that leaves the caches alone.
LEMMA Rejected ==
  ASSUME NEW m, RejectTest(m)
  PROVE  Replied(m.seqNo) /\ Silent
BY DEF RejectTest, Answer, Replied, Silent

\* A call for a request.
LEMMA Requested ==
  ASSUME NEW c \in CallRecs, RequestAsync(c)
  PROVE  Called(c.seqNo) /\ Silent
BY DEF RequestAsync, Called, Silent

\* The context of a call.
LEMMA CallMade ==
  ASSUME NEW m, m.seqNo \in Nat, m.oid \in Oids, NEW stage \in Stages, NEW account \in Nat, NEW key \in Nat,
         NEW req \in [verifyCa : BOOLEAN, pin : Pins],
         stage \in {"keygen", "token", "endpoint"} => m.oid \in Profiles,
         stage = "health" => m.oid \in SaseDevices
  PROVE  Call(m, stage, account, key, req) \in CallRecs /\ Call(m, stage, account, key, req).seqNo = m.seqNo
<1>1. (m.secret # 0) \in BOOLEAN
  OBVIOUS
<1> QED BY <1>1 DEF Call, CallRecs

\* The outcome of a key request is sent and remembered.
LEMMA KeygenFinished ==
  ASSUME CredTypes, NEW c, c.oid \in Profiles, c.account \in Nat, NEW key \in Nat, FinishKeygen(c, key)
  PROVE  Outcome(c.oid, key) /\ toMgmtd' = IF c.seqNo = 0 THEN toMgmtd ELSE Append(toMgmtd, c.seqNo)
<1>1. PICK m : m = StateUpdate(c.oid, c.account, key)
  OBVIOUS
<1>2. m \in UpdateRecs /\ m.oid = c.oid /\ m.key = IF available THEN key ELSE 0
  BY <1>1 DEF StateUpdate, Seal, UpdateRecs
<1>3. toEngined' = Append(toEngined, m)
  BY <1>1 DEF FinishKeygen
<1> QED BY <1>2, <1>3 DEF FinishKeygen, Outcome, Answer

\* The requests of the devices.
LEMMA KeygenRequests ==
  ASSUME NEW m, m.pin \in Pins
  PROVE  KeygenRequest(m) \in [verifyCa : BOOLEAN, pin : Pins]
<1>1. (m.oid \in SaseProfiles) \in BOOLEAN
  OBVIOUS
<1> QED BY <1>1 DEF KeygenRequest

\* runKeygenTest.
LEMMA KeygenRan ==
  ASSUME CredTypes, NEW m, m.seqNo \in Nat, m.oid \in Profiles, m.secret \in Nat, m.named \in BOOLEAN,
         m.pin \in Pins, RunKeygenTest(m)
  PROVE  \/ Replied(m.seqNo) /\ (Silent \/ (m.named /\ issuedKeys[m.oid] # 0
                                           /\ Outcome(m.oid, issuedKeys[m.oid])))
         \/ Called(m.seqNo) /\ Silent
<1> DEFINE account == IF m.secret # 0 THEN m.secret ELSE saseAccounts[m.oid]
           c == Call(m, "keygen", account, 0, KeygenRequest(m))
<1>1. account \in Nat /\ issuedKeys[m.oid] \in Nat /\ m.oid \in Oids
  BY DEF CredTypes, Oids
<1>2. c \in CallRecs /\ c.seqNo = m.seqNo /\ c.oid = m.oid /\ c.account = account
  <2>1. c.oid = m.oid /\ c.account = account
    BY DEF Call
  <2>2. KeygenRequest(m) \in [verifyCa : BOOLEAN, pin : Pins]
    BY KeygenRequests
  <2>3. "keygen" \in Stages /\ 0 \in Nat
    BY DEF Stages
  <2> HIDE DEF account
  <2> QED BY <1>1, <2>1, <2>2, <2>3, CallMade
<1>3. \/ RejectTest(m)
      \/ NamedKey(m) # 0 /\ FinishKeygen(c, NamedKey(m)) /\ UNCHANGED credCalls
      \/ RequestAsync(c)
  BY DEF RunKeygenTest
<1>4. NamedKey(m) # 0 => m.named /\ NamedKey(m) = issuedKeys[m.oid]
  BY DEF NamedKey
<1> HIDE DEF account, c
<1>5. CASE RejectTest(m) BY <1>5, Rejected
<1>6. CASE NamedKey(m) # 0 /\ FinishKeygen(c, NamedKey(m)) /\ UNCHANGED credCalls
  <2>1. Outcome(m.oid, issuedKeys[m.oid])
        /\ toMgmtd' = IF m.seqNo = 0 THEN toMgmtd ELSE Append(toMgmtd, m.seqNo)
    BY <1>1, <1>2, <1>4, <1>6, KeygenFinished
  <2> QED BY <1>4, <1>6, <2>1 DEF Replied
<1>7. CASE RequestAsync(c) BY <1>2, <1>7, Requested
<1> QED BY <1>3, <1>5, <1>6, <1>7

\* The other tests.
LEMMA TestRan ==
  ASSUME CredTypes, NEW m \in AskRecs,
         \/ m.kind = "endpoint" /\ RunEndpointTest(m)
         \/ m.kind = "saseTest" /\ RunSaseTest(m)
         \/ m.kind = "tlsProbe" /\ RunTlsProbe(m)
  PROVE  (Replied(m.seqNo) \/ Called(m.seqNo)) /\ Silent
<1>1. /\ m.seqNo \in Nat /\ m.oid \in Oids /\ m.secret \in Nat /\ m.pin \in Pins
      /\ m.kind \in {"endpoint", "tlsProbe"} => m.oid \in Profiles
      /\ m.kind = "saseTest" => m.oid \in SaseDevices
  BY DEF AskRecs
<1>2. KeygenRequest(m) \in [verifyCa : BOOLEAN, pin : Pins]
  BY <1>1, KeygenRequests
<1>3. NamedKey(m) \in Nat /\ issuedKeys[m.oid] \in Nat
  BY <1>1 DEF NamedKey, CredTypes
<1>4. 0 \in Nat /\ {"endpoint", "token", "health", "tls"} \subseteq Stages
  BY DEF Stages
<1>5. CASE RejectTest(m) BY <1>5, Rejected
<1>6. CASE \E c \in CallRecs : c.seqNo = m.seqNo /\ RequestAsync(c)
  BY <1>6, Requested
<1>7. CASE m.kind = "endpoint" /\ RunEndpointTest(m)
  <2>1. /\ Call(m, "endpoint", 0, NamedKey(m), KeygenRequest(m)) \in CallRecs
        /\ Call(m, "endpoint", 0, NamedKey(m), KeygenRequest(m)).seqNo = m.seqNo
    BY <1>1, <1>2, <1>3, <1>4, <1>7, CallMade
  <2>2. /\ Call(m, "token", m.secret, 0, KeygenRequest(m)) \in CallRecs
        /\ Call(m, "token", m.secret, 0, KeygenRequest(m)).seqNo = m.seqNo
    BY <1>1, <1>2, <1>3, <1>4, <1>7, CallMade
  <2> QED BY <1>5, <1>6, <1>7, <2>1, <2>2 DEF RunEndpointTest
<1>8. CASE m.kind = "saseTest" /\ RunSaseTest(m)
  <2> DEFINE key == IF m.secret # 0 THEN m.secret ELSE issuedKeys[m.oid]
             req == [verifyCa |-> TRUE, pin |-> NoPin]
  <2>1. key \in Nat /\ req \in [verifyCa : BOOLEAN, pin : Pins]
    BY <1>1, <1>3 DEF Pins
  <2>2. RejectTest(m) \/ RequestAsync(Call(m, "health", 0, key, req))
    BY <1>8 DEF RunSaseTest
  <2> HIDE DEF key, req
  <2>3. /\ Call(m, "health", 0, key, req) \in CallRecs
        /\ Call(m, "health", 0, key, req).seqNo = m.seqNo
    BY <1>1, <1>4, <1>8, <2>1, CallMade
  <2> QED BY <1>5, <1>6, <2>2, <2>3
<1>9. CASE m.kind = "tlsProbe" /\ RunTlsProbe(m)
  <2> DEFINE req == [verifyCa |-> FALSE, pin |-> m.pin]
  <2>1. req \in [verifyCa : BOOLEAN, pin : Pins]
    BY <1>1
  <2>2. RejectTest(m) \/ RequestAsync(Call(m, "tls", 0, 0, req))
    BY <1>9 DEF RunTlsProbe
  <2> HIDE DEF req
  <2>3. Call(m, "tls", 0, 0, req) \in CallRecs /\ Call(m, "tls", 0, 0, req).seqNo = m.seqNo
    BY <1>1, <1>4, <1>9, <2>1, CallMade
  <2> QED BY <1>5, <1>6, <2>2, <2>3
<1> QED BY <1>7, <1>8, <1>9

\* The saves.
LEMMA Saved ==
  ASSUME CredTypes, NEW m \in AskRecs,
         \/ m.kind = "saseKey" /\ StoreApiKey(m)
         \/ m.kind = "store" /\ StoreCredential(m)
  PROVE  Replied(m.seqNo) /\ (Silent \/ TenantKey \/ AccountStored)
<1>1. /\ m.secret \in Nat
      /\ m.kind = "saseKey" => m.oid \in SaseDevices
      /\ m.kind = "store" => m.oid \in Profiles /\ m.secret # 0
  BY DEF AskRecs
<1>2. CASE m.kind = "saseKey" /\ StoreApiKey(m)
  <2>1. [kind |-> "saseKey", oid |-> m.oid, key |-> m.secret] \in SaseKeyRecs
    BY <1>1, <1>2 DEF SaseKeyRecs
  <2> QED BY <1>2, <2>1 DEF StoreApiKey, Replied, Answer, Silent, TenantKey
<1>3. CASE m.kind = "store" /\ StoreCredential(m)
  <2>1. PICK u : u = AccountUpdate(m.oid, m.secret)
    OBVIOUS
  <2>2. u \in UpdateRecs /\ u.key = 0 /\ u.account = m.secret /\ u.oid = m.oid
    BY <1>1, <1>3, <2>1 DEF UpdateRecs, AccountUpdate
  <2>3. available => AccountStored
    BY <1>1, <1>3, <2>1, <2>2 DEF StoreCredential, AccountStored
  <2>4. ~available => Silent
    BY <1>3 DEF StoreCredential, Silent
  <2>5. Replied(m.seqNo)
    BY <1>3 DEF StoreCredential, Replied, Answer
  <2> QED BY <2>3, <2>4, <2>5
<1> QED BY <1>2, <1>3

\* What Route makes of the frame it takes.
Asked(m) ==
  /\ m \in AskRecs
  /\ Replied(m.seqNo) \/ Called(m.seqNo)
  /\ \/ Silent \/ TenantKey \/ AccountStored
     \/ \E p \in Profiles : issuedKeys[p] # 0 /\ Outcome(p, issuedKeys[p])

Restored(m) == m \in StateRecs /\ Refilled(m) /\ UNCHANGED <<toMgmtd, credCalls>>

\* Every frame collectord takes is routed to one of these ends.
LEMMA Routed ==
  ASSUME CredTypes, Route
  PROVE  /\ toCollectord # <<>> /\ toCollectord' = Tail(toCollectord)
         /\ UNCHANGED <<setupDone, keyRows, saseRows, nextTicket, results, available, issuedCount,
                        faults, closed, lost, dropped>>
         /\ Asked(Head(toCollectord)) \/ Restored(Head(toCollectord))
<1>1. /\ toCollectord # <<>> /\ toCollectord' = Tail(toCollectord)
      /\ UNCHANGED <<setupDone, keyRows, saseRows, nextTicket, results, available, issuedCount,
                     faults, closed, lost, dropped>>
  BY DEF Route
<1>2. PICK m \in ToCollectordRecs : m = Head(toCollectord)
  BY <1>1, Taken DEF CredTypes
<1>3. \/ m.kind = "keygen"   /\ RunKeygenTest(m)
      \/ m.kind = "endpoint" /\ RunEndpointTest(m)
      \/ m.kind = "saseTest" /\ RunSaseTest(m)
      \/ m.kind = "tlsProbe" /\ RunTlsProbe(m)
      \/ m.kind = "saseKey"  /\ StoreApiKey(m)
      \/ m.kind = "store"    /\ StoreCredential(m)
      \/ m.kind = "state"    /\ CacheKeys(m)
  BY <1>2 DEF Route
<1>4. m.kind = "state" => m \in StateRecs
  BY DEF ToCollectordRecs, AskRecs, Kinds
<1>5. m.kind # "state" => m \in AskRecs
  BY DEF ToCollectordRecs, StateRecs
<1> SUFFICES Asked(m) \/ Restored(m)
  BY <1>1, <1>2
<1>6. CASE m.kind = "state" /\ CacheKeys(m)
  BY <1>4, <1>6 DEF CacheKeys, Refilled, Restored
<1>7. CASE m.kind = "keygen" /\ RunKeygenTest(m)
  <2>1. m \in AskRecs
    BY <1>5, <1>7
  <2>2. /\ m.seqNo \in Nat /\ m.oid \in Profiles /\ m.secret \in Nat /\ m.named \in BOOLEAN
        /\ m.pin \in Pins
    BY <1>7, <2>1 DEF AskRecs
  <2>3. \/ Replied(m.seqNo) /\ (Silent \/ (m.named /\ issuedKeys[m.oid] # 0
                                           /\ Outcome(m.oid, issuedKeys[m.oid])))
        \/ Called(m.seqNo) /\ Silent
    BY <1>7, <2>2, KeygenRan
  <2> QED BY <2>1, <2>2, <2>3 DEF Asked
<1>8. CASE \/ m.kind = "endpoint" /\ RunEndpointTest(m)
           \/ m.kind = "saseTest" /\ RunSaseTest(m)
           \/ m.kind = "tlsProbe" /\ RunTlsProbe(m)
  <2>1. m \in AskRecs
    BY <1>5, <1>8
  <2> QED BY <1>8, <2>1, TestRan DEF Asked
<1>9. CASE \/ m.kind = "saseKey" /\ StoreApiKey(m)
           \/ m.kind = "store" /\ StoreCredential(m)
  <2>1. m \in AskRecs
    BY <1>5, <1>9
  <2> QED BY <1>9, <2>1, Saved DEF Asked
<1> QED BY <1>3, <1>6, <1>7, <1>8, <1>9

\* autoRefreshTick makes a call on no ticket.
LEMMA Refreshed ==
  ASSUME CredTypes, NEW p \in AutoProfiles, AutoRefreshTick(p)
  PROVE  /\ Replied(0) \/ Called(0)
         /\ Silent
         /\ UNCHANGED <<setupDone, toCollectord, keyRows, saseRows, nextTicket, results, available,
                        issuedCount, faults, closed, lost, dropped>>
<1>1. PICK m : m = [seqNo |-> 0, oid |-> p, secret |-> saseAccounts[p], named |-> FALSE,
                    sound |-> TRUE, pin |-> PinnedCert]
  OBVIOUS
<1>2. /\ RunKeygenTest(m)
      /\ UNCHANGED <<setupDone, toCollectord, keyRows, saseRows, nextTicket, results, available,
                     issuedCount, faults, closed, lost, dropped>>
  BY <1>1 DEF AutoRefreshTick
<1>3. p \in Profiles
  BY CredentialAssumption
<1>4. /\ m.seqNo = 0 /\ m.oid \in Profiles /\ m.secret \in Nat /\ m.named = FALSE /\ m.pin \in Pins
  BY <1>1, <1>3 DEF CredTypes, Pins
<1>5. \/ Replied(m.seqNo) /\ (Silent \/ (m.named /\ issuedKeys[m.oid] # 0
                                         /\ Outcome(m.oid, issuedKeys[m.oid])))
      \/ Called(m.seqNo) /\ Silent
  <2>1. m.seqNo \in Nat /\ m.named \in BOOLEAN
    BY <1>1
  <2> QED BY <1>2, <1>4, <2>1, KeygenRan
<1> QED BY <1>2, <1>4, <1>5

\* What becomes of a call that completes: its ticket is answered, or another call is made.
Answers(c) == credCalls' = credCalls \ {c} /\ toMgmtd' = IF c.seqNo = 0 THEN toMgmtd ELSE Append(toMgmtd, c.seqNo)
GoesOn(c) == /\ toMgmtd' = toMgmtd
             /\ \E d \in CallRecs : d.seqNo = c.seqNo /\ credCalls' = (credCalls \ {c}) \cup {d}

\* A completed call answers its test or goes on with another call.
LEMMA Completed ==
  ASSUME CredTypes, NEW c, Complete(c)
  PROVE  /\ c \in credCalls
         /\ UNCHANGED <<setupDone, toCollectord, keyRows, saseRows, nextTicket, results, available,
                        faults, closed, lost, dropped>>
         /\ Answers(c) \/ GoesOn(c)
         /\ issuedCount' \in {issuedCount, issuedCount + 1}
         /\ \/ Silent \/ TenantKey
            \/ c.oid \in Profiles /\ Outcome(c.oid, 0)
            \/ /\ c.oid \in Profiles /\ Outcome(c.oid, issuedCount + 1)
               /\ issuedCount' = issuedCount + 1
<1>1. /\ c \in credCalls
      /\ UNCHANGED <<setupDone, toCollectord, keyRows, saseRows, nextTicket, results, available,
                     faults, closed, lost, dropped>>
  BY DEF Complete
<1>0. issuedCount \in Nat /\ issuedCount + 1 \in Nat /\ 0 \in Nat
  BY DEF CredTypes
<1>2. PICK good \in BOOLEAN, key \in Nat :
        /\ key = IF good THEN issuedCount + 1 ELSE 0
        /\ issuedCount' = IF good /\ c.stage \in {"keygen", "token"} THEN key ELSE issuedCount
        /\ \/ c.stage = "keygen" /\ OnKeygen(c, key)
           \/ c.stage = "token" /\ OnKeygenForEndpoint(c, key)
           \/ c.stage \in {"endpoint", "tls"} /\ OnLastResponse(c)
           \/ c.stage = "health" /\ OnSaseTest(c, good)
  <2>1. PICK res \in Responses(c.req) :
       LET good == res.reply = "good"
           key  == IF good THEN issuedCount + 1 ELSE 0
       IN /\ issuedCount' = IF good /\ c.stage \in {"keygen", "token"} THEN key ELSE issuedCount
          /\ good /\ c.stage \in {"keygen", "token"} => issuedCount < MaxKeys
          /\ \/ c.stage = "keygen" /\ OnKeygen(c, key)
             \/ c.stage = "token" /\ OnKeygenForEndpoint(c, key)
             \/ c.stage \in {"endpoint", "tls"} /\ OnLastResponse(c)
             \/ c.stage = "health" /\ OnSaseTest(c, good)
    BY DEF Complete
  <2>2. CASE res.reply = "good"
    <3> WITNESS TRUE \in BOOLEAN
    <3> QED BY <1>0, <2>1, <2>2
  <2>3. CASE res.reply # "good"
    <3>1. (res.reply = "good") = FALSE
      BY <2>3
    <3> WITNESS FALSE \in BOOLEAN
    <3> QED BY <1>0, <2>1, <2>3, <3>1
  <2> QED BY <2>2, <2>3
<1>3. c \in CallRecs /\ issuedCount \in Nat
  BY <1>1 DEF CredTypes
<1>4. key \in Nat /\ issuedCount' \in {issuedCount, issuedCount + 1}
  BY <1>2, <1>3
<1>5. CASE c.stage = "keygen" /\ OnKeygen(c, key)
  <2>1. c.oid \in Profiles /\ c.account \in Nat /\ FinishKeygen(c, key) /\ credCalls' = credCalls \ {c}
    BY <1>3, <1>5 DEF CallRecs, OnKeygen
  <2>2. Outcome(c.oid, key) /\ toMgmtd' = IF c.seqNo = 0 THEN toMgmtd ELSE Append(toMgmtd, c.seqNo)
    BY <1>4, <2>1, KeygenFinished
  <2>3. key = 0 \/ (key = issuedCount + 1 /\ issuedCount' = issuedCount + 1)
    <3>1. CASE good BY <1>2, <1>5, <3>1
    <3>2. CASE ~good BY <1>2, <3>2
    <3> QED BY <3>1, <3>2
  <2>4. Answers(c)
    BY <2>1, <2>2 DEF Answers
  <2> QED BY <1>1, <1>4, <2>1, <2>2, <2>3, <2>4
<1>6. CASE c.stage = "token" /\ OnKeygenForEndpoint(c, key)
  <2>1. Silent
    BY <1>6 DEF OnKeygenForEndpoint, Silent
  <2>2. CASE key = 0
    BY <1>1, <1>4, <1>6, <2>1, <2>2 DEF OnKeygenForEndpoint, Answers, Answer
  <2>3. CASE key # 0
    <3>1. PICK d : d = [c EXCEPT !.stage = "endpoint", !.key = key]
      OBVIOUS
    <3>2. d \in CallRecs /\ d.seqNo = c.seqNo
      BY <1>3, <1>4, <1>6, <3>1 DEF CallRecs, Stages
    <3>3. GoesOn(c)
      BY <1>6, <2>3, <3>1, <3>2 DEF OnKeygenForEndpoint, GoesOn
    <3> QED BY <1>1, <1>4, <2>1, <3>3
  <2> QED BY <2>2, <2>3
<1>7. CASE c.stage \in {"endpoint", "tls"} /\ OnLastResponse(c)
  BY <1>1, <1>4, <1>7 DEF OnLastResponse, Answers, Answer, Silent
<1>8. CASE c.stage = "health" /\ OnSaseTest(c, good)
  <2>1. [kind |-> "saseKey", oid |-> c.oid, key |-> c.key] \in SaseKeyRecs
    BY <1>3, <1>8 DEF CallRecs, SaseKeyRecs
  <2>2. Answers(c) /\ (Silent \/ TenantKey)
    BY <1>8, <2>1 DEF OnSaseTest, Answers, Answer, Silent, TenantKey
  <2> QED BY <1>1, <1>4, <2>2
<1> QED BY <1>2, <1>5, <1>6, <1>7, <1>8

-----------------------------------------------------------------------------
(* Types.                                                                  *)

\* Whatever a handler does with the caches, it keeps their types.
LEMMA CachesTyped ==
  ASSUME CredTypes,
         \/ Silent \/ TenantKey \/ AccountStored
         \/ \E p \in Profiles, k \in Nat : Outcome(p, k)
  PROVE  /\ issuedKeys' \in [Oids -> Nat] /\ saseAccounts' \in [Profiles -> Nat]
         /\ toEngined' \in Seq(ToEnginedRecs)
<1>1. /\ issuedKeys \in [Oids -> Nat] /\ saseAccounts \in [Profiles -> Nat]
      /\ toEngined \in Seq(ToEnginedRecs)
  BY DEF CredTypes
<1>2. \A m \in UpdateRecs \cup SaseKeyRecs : Append(toEngined, m) \in Seq(ToEnginedRecs)
  <2>1. \A m \in UpdateRecs \cup SaseKeyRecs : m \in ToEnginedRecs
    BY DEF ToEnginedRecs
  <2> QED BY <1>1, <2>1, Appended
<1>3. CASE Silent BY <1>1, <1>3 DEF Silent
<1>4. CASE TenantKey BY <1>1, <1>2, <1>4 DEF TenantKey
<1>5. CASE AccountStored
  <2>1. PICK m \in UpdateRecs : /\ toEngined' = Append(toEngined, m) /\ issuedKeys' = issuedKeys
                                /\ saseAccounts' = [saseAccounts EXCEPT ![m.oid] = m.account]
    BY <1>5 DEF AccountStored
  <2>2. m.account \in Nat
    BY DEF UpdateRecs
  <2> QED BY <1>1, <1>2, <2>1, <2>2
<1>6. ASSUME NEW p \in Profiles, NEW k \in Nat, Outcome(p, k)
      PROVE  /\ issuedKeys' \in [Oids -> Nat] /\ saseAccounts' \in [Profiles -> Nat]
             /\ toEngined' \in Seq(ToEnginedRecs)
  BY <1>1, <1>2, <1>6 DEF Outcome
<1> QED BY <1>3, <1>4, <1>5, <1>6

\* Answers and calls keep theirs.
LEMMA TrafficTyped ==
  ASSUME CredTypes, NEW n \in Nat,
         \/ Replied(n) \/ Called(n)
         \/ \E c \in credCalls : c.seqNo = n /\ (Answers(c) \/ GoesOn(c))
  PROVE  toMgmtd' \in Seq(Nat \ {0}) /\ credCalls' \in SUBSET CallRecs
<1>1. toMgmtd \in Seq(Nat \ {0}) /\ credCalls \in SUBSET CallRecs
  BY DEF CredTypes
<1>2. n # 0 => Append(toMgmtd, n) \in Seq(Nat \ {0})
  BY <1>1, Appended
<1> QED BY <1>1, <1>2 DEF Replied, Called, Answers, GoesOn

\* A snapshot of the store.
LEMMA SnapshotTyped ==
  ASSUME CredTypes, NEW up \in BOOLEAN
  PROVE  Snapshot(up) \in StateRecs
<1>1. [p \in Profiles |-> [key |-> 0, account |-> 0, test |-> "none"]] \in [Profiles -> RowRecs]
  <2>1. [key |-> 0, account |-> 0, test |-> "none"] \in RowRecs
    BY DEF RowRecs
  <2> QED BY <2>1
<1>2. [d \in SaseDevices |-> 0] \in [SaseDevices -> Nat]
  OBVIOUS
<1>3. keyRows \in [Profiles -> RowRecs] /\ saseRows \in [SaseDevices -> Nat]
  BY DEF CredTypes
<1> QED BY <1>1, <1>2, <1>3 DEF Snapshot, StateRecs

\* engined handles a frame.
LEMMA Handles ==
  ASSUME CredTypes, EnginedHandle
  PROVE  /\ toEngined # <<>> /\ toEngined' = Tail(toEngined)
         /\ UNCHANGED <<issuedKeys, saseAccounts, setupDone, credCalls, toMgmtd, nextTicket, results,
                        available, issuedCount, closed, lost>>
         /\ \E up \in BOOLEAN, m \in ToEnginedRecs :
              /\ m = Head(toEngined)
              /\ faults' = IF up THEN faults ELSE faults + 1
              /\ dropped' = (dropped \/ (~up /\ m.kind = "update"))
              /\ \/ /\ m \in AskStateRecs
                    /\ toCollectord' = Append(toCollectord, Snapshot(up)) /\ UNCHANGED <<keyRows, saseRows>>
                 \/ /\ m \in UpdateRecs
                    /\ keyRows' = IF up THEN [keyRows EXCEPT ![m.oid] = StoreState(@, m)] ELSE keyRows
                    /\ UNCHANGED <<toCollectord, saseRows>>
                 \/ /\ m \in SaseKeyRecs
                    /\ saseRows' = IF up THEN [saseRows EXCEPT ![m.oid] = m.key] ELSE saseRows
                    /\ UNCHANGED <<toCollectord, keyRows>>
<1>1. /\ toEngined # <<>> /\ toEngined' = Tail(toEngined)
      /\ UNCHANGED <<issuedKeys, saseAccounts, setupDone, credCalls, toMgmtd, nextTicket, results,
                     available, issuedCount, closed, lost>>
  BY DEF EnginedHandle
<1>2. PICK m \in ToEnginedRecs : m = Head(toEngined)
  BY <1>1, Taken DEF CredTypes
<1>3. /\ m.kind = "stateRequest" => m \in AskStateRecs
      /\ m.kind = "update" => m \in UpdateRecs
      /\ m.kind = "saseKey" => m \in SaseKeyRecs
  BY DEF ToEnginedRecs, AskStateRecs, UpdateRecs, SaseKeyRecs
<1>4. PICK up \in BOOLEAN :
          /\ faults' = IF up THEN faults ELSE faults + 1
          /\ dropped' = (dropped \/ (~up /\ m.kind = "update"))
          /\ \/ /\ m.kind = "stateRequest"
                /\ toCollectord' = Append(toCollectord, Snapshot(up))
                /\ UNCHANGED <<keyRows, saseRows>>
             \/ /\ m.kind = "update"
                /\ keyRows' = IF up THEN [keyRows EXCEPT ![m.oid] = StoreState(@, m)] ELSE keyRows
                /\ UNCHANGED <<toCollectord, saseRows>>
             \/ /\ m.kind = "saseKey"
                /\ saseRows' = IF up THEN [saseRows EXCEPT ![m.oid] = m.key] ELSE saseRows
                /\ UNCHANGED <<toCollectord, keyRows>>
  BY <1>2 DEF EnginedHandle
<1> QED BY <1>1, <1>2, <1>3, <1>4

\* Every step of the credentials keeps the types.
LEMMA CredTypesStep == CredTypes /\ [CredNext]_credVars => CredTypes'
<1> SUFFICES ASSUME CredTypes, [CredNext]_credVars PROVE CredTypes'
  OBVIOUS
<1>0. /\ issuedKeys \in [Oids -> Nat] /\ saseAccounts \in [Profiles -> Nat]
      /\ setupDone \in BOOLEAN /\ available \in BOOLEAN
      /\ credCalls \in SUBSET CallRecs
      /\ toCollectord \in Seq(ToCollectordRecs) /\ toEngined \in Seq(ToEnginedRecs)
      /\ toMgmtd \in Seq(Nat \ {0})
      /\ keyRows \in [Profiles -> RowRecs] /\ saseRows \in [SaseDevices -> Nat]
      /\ nextTicket \in Nat \ {0} /\ issuedCount \in Nat /\ faults \in Nat /\ dropped \in BOOLEAN
  BY DEF CredTypes
<1>1. ASSUME NEW r \in ConnectorTests, SendConnectorTest(r) PROVE CredTypes'
  <2>1. PICK m : m = [r EXCEPT !.seqNo = nextTicket]
    OBVIOUS
  <2>2. m \in AskRecs
    BY <1>0, <1>1, <2>1, PasswordNumbers DEF SendConnectorTest, ConnectorTests, ConnectorTestInputOk, AskRecs
  <2>3. Append(toCollectord, m) \in Seq(ToCollectordRecs)
    BY <1>0, <2>2, Appended DEF ToCollectordRecs
  <2> QED BY <1>0, <1>1, <2>1, <2>3 DEF SendConnectorTest, CredTypes
<1>2. CASE OnTestResponse
  <2>1. Tail(toMgmtd) \in Seq(Nat \ {0})
    BY <1>0, <1>2, Taken DEF OnTestResponse
  <2> QED BY <1>0, <1>2, <2>1 DEF OnTestResponse, CredTypes
<1>3. ASSUME NEW t \in results, TestResult(t) PROVE CredTypes'
  BY <1>0, <1>3 DEF TestResult, CredTypes
<1>4. CASE Route
  <2>1. /\ toCollectord # <<>> /\ toCollectord' = Tail(toCollectord)
        /\ UNCHANGED <<setupDone, keyRows, saseRows, nextTicket, available, issuedCount, faults, dropped>>
        /\ Asked(Head(toCollectord)) \/ Restored(Head(toCollectord))
    BY <1>4, Routed
  <2>2. PICK m \in ToCollectordRecs : m = Head(toCollectord)
    BY <1>0, <2>1, Taken
  <2>3. Tail(toCollectord) \in Seq(ToCollectordRecs)
    BY <1>0, <2>1, Taken
  <2>4. CASE Asked(m)
    <3>1. m.seqNo \in Nat /\ (Replied(m.seqNo) \/ Called(m.seqNo))
      BY <2>4 DEF Asked, AskRecs
    <3>2. toMgmtd' \in Seq(Nat \ {0}) /\ credCalls' \in SUBSET CallRecs
      BY <3>1, TrafficTyped
    <3>3. \A p \in Profiles : issuedKeys[p] \in Nat
      BY <1>0 DEF Oids
    <3>4. /\ issuedKeys' \in [Oids -> Nat] /\ saseAccounts' \in [Profiles -> Nat]
          /\ toEngined' \in Seq(ToEnginedRecs)
      BY <2>4, <3>3, CachesTyped DEF Asked
    <3> QED BY <1>0, <2>1, <2>3, <3>2, <3>4 DEF CredTypes
  <2>5. CASE Restored(m)
    <3>1. m \in StateRecs /\ Refilled(m) /\ UNCHANGED <<toMgmtd, credCalls>>
      BY <2>5 DEF Restored
    <3>2. m.rows \in [Profiles -> RowRecs] /\ m.sase \in [SaseDevices -> Nat]
      BY <3>1 DEF StateRecs
    <3>3. \A p \in Profiles : Seal(m.rows[p].key) \in Nat /\ Seal(m.rows[p].account) \in Nat
      <4>1. \A p \in Profiles : m.rows[p] \in RowRecs
        BY <3>2
      <4> QED BY <4>1 DEF Seal, RowRecs
    <3>4. \A d \in SaseDevices : Seal(m.sase[d]) \in Nat
      BY <3>2 DEF Seal
    <3>5. issuedKeys' \in [Oids -> Nat] /\ saseAccounts' \in [Profiles -> Nat] /\ toEngined' = toEngined
      BY <3>1, <3>3, <3>4 DEF Refilled, Oids
    <3> QED BY <1>0, <2>1, <2>3, <3>1, <3>5 DEF CredTypes
  <2> QED BY <2>1, <2>2, <2>4, <2>5
<1>5. CASE Setup
  <2>1. [kind |-> "stateRequest"] \in ToEnginedRecs
    BY DEF ToEnginedRecs, AskStateRecs
  <2>2. Append(toEngined, [kind |-> "stateRequest"]) \in Seq(ToEnginedRecs)
    BY <1>0, <2>1, Appended
  <2> QED BY <1>0, <1>5, <2>2 DEF Setup, CredTypes
<1>6. ASSUME NEW p \in AutoProfiles, AutoRefreshTick(p) PROVE CredTypes'
  <2>1. /\ Replied(0) \/ Called(0)
        /\ Silent
        /\ UNCHANGED <<setupDone, toCollectord, keyRows, saseRows, nextTicket, available,
                       issuedCount, faults, dropped>>
    BY <1>6, Refreshed
  <2>2. toMgmtd' \in Seq(Nat \ {0}) /\ credCalls' \in SUBSET CallRecs
    BY <2>1, TrafficTyped
  <2> QED BY <1>0, <2>1, <2>2 DEF Silent, CredTypes
<1>7. ASSUME NEW c \in credCalls, Complete(c) PROVE CredTypes'
  <2>1. /\ UNCHANGED <<setupDone, toCollectord, keyRows, saseRows, nextTicket, available, faults, dropped>>
        /\ Answers(c) \/ GoesOn(c)
        /\ issuedCount' \in {issuedCount, issuedCount + 1}
        /\ \/ Silent \/ TenantKey
           \/ c.oid \in Profiles /\ (Outcome(c.oid, 0) \/ Outcome(c.oid, issuedCount + 1))
    BY <1>7, Completed
  <2>2. c.seqNo \in Nat
    BY <1>0 DEF CallRecs
  <2>3. toMgmtd' \in Seq(Nat \ {0}) /\ credCalls' \in SUBSET CallRecs
    BY <2>1, <2>2, TrafficTyped
  <2>4. issuedCount + 1 \in Nat /\ 0 \in Nat
    BY <1>0
  <2>5. /\ issuedKeys' \in [Oids -> Nat] /\ saseAccounts' \in [Profiles -> Nat]
        /\ toEngined' \in Seq(ToEnginedRecs)
    BY <2>1, <2>4, CachesTyped
  <2>6. issuedCount' \in Nat
    BY <1>0, <2>1
  <2> QED BY <1>0, <2>1, <2>3, <2>5, <2>6 DEF CredTypes
<1>8. CASE CollectordRestart
  <2>1. <<>> \in Seq(ToCollectordRecs) /\ faults + 1 \in Nat
    BY <1>0
  <2>2. toEngined' \in Seq(ToEnginedRecs) /\ toMgmtd' \in Seq(Nat \ {0})
    BY <1>0, <1>8, CutWithin DEF CollectordRestart
  <2> QED BY <1>0, <1>8, <2>1, <2>2 DEF CollectordRestart, CredTypes
<1>9. CASE EnginedHandle
  <2>1. PICK up \in BOOLEAN, m \in ToEnginedRecs :
              /\ m = Head(toEngined)
              /\ faults' = IF up THEN faults ELSE faults + 1
              /\ dropped' = (dropped \/ (~up /\ m.kind = "update"))
              /\ \/ /\ m \in AskStateRecs
                    /\ toCollectord' = Append(toCollectord, Snapshot(up)) /\ UNCHANGED <<keyRows, saseRows>>
                 \/ /\ m \in UpdateRecs
                    /\ keyRows' = IF up THEN [keyRows EXCEPT ![m.oid] = StoreState(@, m)] ELSE keyRows
                    /\ UNCHANGED <<toCollectord, saseRows>>
                 \/ /\ m \in SaseKeyRecs
                    /\ saseRows' = IF up THEN [saseRows EXCEPT ![m.oid] = m.key] ELSE saseRows
                    /\ UNCHANGED <<toCollectord, keyRows>>
    BY <1>9, Handles
  <2>2. /\ toEngined # <<>> /\ toEngined' = Tail(toEngined)
        /\ UNCHANGED <<issuedKeys, saseAccounts, setupDone, credCalls, toMgmtd, nextTicket,
                       available, issuedCount>>
    BY <1>9, Handles
  <2>3. toEngined' \in Seq(ToEnginedRecs) /\ faults' \in Nat /\ dropped' \in BOOLEAN
    BY <1>0, <2>1, <2>2, Taken
  <2>4. Append(toCollectord, Snapshot(up)) \in Seq(ToCollectordRecs)
    BY <1>0, SnapshotTyped, Appended DEF ToCollectordRecs
  <2>5. m \in UpdateRecs => [keyRows EXCEPT ![m.oid] = StoreState(@, m)] \in [Profiles -> RowRecs]
    <3>1. \A row \in RowRecs : m \in UpdateRecs => StoreState(row, m) \in RowRecs
      BY DEF StoreState, Coalesce, RowRecs, UpdateRecs
    <3> QED BY <1>0, <3>1
  <2>6. m \in SaseKeyRecs => [saseRows EXCEPT ![m.oid] = m.key] \in [SaseDevices -> Nat]
    BY <1>0 DEF SaseKeyRecs
  <2>7. /\ toCollectord' \in Seq(ToCollectordRecs) /\ keyRows' \in [Profiles -> RowRecs]
        /\ saseRows' \in [SaseDevices -> Nat]
    BY <1>0, <2>1, <2>4, <2>5, <2>6
  <2> QED BY <1>0, <2>2, <2>3, <2>7 DEF CredTypes
<1>10. CASE FramesRefused
  <2>1. /\ toCollectord' \in Seq(ToCollectordRecs) /\ toEngined' \in Seq(ToEnginedRecs)
        /\ toMgmtd' \in Seq(Nat \ {0})
    BY <1>0, <1>10, CutWithin DEF FramesRefused
  <2>2. faults' \in Nat /\ dropped' \in BOOLEAN
    BY <1>0, <1>10 DEF FramesRefused
  <2> QED BY <1>0, <1>10, <2>1, <2>2 DEF FramesRefused, CredTypes
<1>11. CASE UNCHANGED credVars
  BY <1>0, <1>11 DEF credVars, CredTypes
<1> QED BY <1>1, <1>2, <1>3, <1>4, <1>5, <1>6, <1>7, <1>8, <1>9, <1>10, <1>11 DEF CredNext

-----------------------------------------------------------------------------
(* Tickets.                                                                *)

\* The tickets below n, parted into five sets.
Spread(A, B, C, D, E, n) ==
  /\ A \cup B \cup C \cup D \cup E = 1..(n - 1)
  /\ A \cap B = {} /\ A \cap C = {} /\ A \cap D = {} /\ A \cap E = {}
  /\ B \cap C = {} /\ B \cap D = {} /\ B \cap E = {}
  /\ C \cap D = {} /\ C \cap E = {} /\ D \cap E = {}

\* A ticket moves from one set to another.
LEMMA SpreadMoves ==
  ASSUME NEW A, NEW B, NEW C, NEW D, NEW E, NEW n, Spread(A, B, C, D, E, n)
  PROVE  /\ \A t \in A : /\ Spread(A \ {t}, B \cup {t}, C, D, E, n)
                         /\ Spread(A \ {t}, B, C \cup {t}, D, E, n)
                         /\ t \notin B \cup C
         /\ \A t \in B : Spread(A, B \ {t}, C \cup {t}, D, E, n) /\ t \notin C
         /\ \A t \in C : /\ Spread(A, B, C \ {t}, D \cup {t}, E, n)
                         /\ Spread(A, B, C \ {t}, {t}, E \cup D, n)
         /\ \A t \in D : Spread(A, B, C, D \ {t}, E \cup {t}, n)
<1> USE DEF Spread
<1>1. \A t \in A : /\ Spread(A \ {t}, B \cup {t}, C, D, E, n)
                   /\ Spread(A \ {t}, B, C \cup {t}, D, E, n)
                   /\ t \notin B \cup C
  OBVIOUS
<1>2. \A t \in B : Spread(A, B \ {t}, C \cup {t}, D, E, n) /\ t \notin C
  OBVIOUS
<1>3. \A t \in C : /\ Spread(A, B, C \ {t}, D \cup {t}, E, n)
                   /\ Spread(A, B, C \ {t}, {t}, E \cup D, n)
  OBVIOUS
<1>4. \A t \in D : Spread(A, B, C, D \ {t}, E \cup {t}, n)
  OBVIOUS
<1> QED BY <1>1, <1>2, <1>3, <1>4

\* Tickets are lost.
LEMMA SpreadLoses ==
  ASSUME NEW A, NEW B, NEW C, NEW D, NEW E, NEW n, Spread(A, B, C, D, E, n),
         NEW A1 \in SUBSET A, NEW B1 \in SUBSET B, NEW C1 \in SUBSET C
  PROVE  Spread(A1, B1, C1, D, E \cup (A \ A1) \cup (B \ B1) \cup (C \ C1), n)
BY DEF Spread

\* The next ticket is handed out.
LEMMA SpreadOpens ==
  ASSUME NEW A, NEW B, NEW C, NEW D, NEW E, NEW n \in Nat \ {0}, Spread(A, B, C, D, E, n)
  PROVE  n \notin A /\ Spread(A \cup {n}, B, C, D, E, n + 1)
<1>1. n \notin 1..(n - 1) /\ 1..((n + 1) - 1) = 1..(n - 1) \cup {n}
  OBVIOUS
<1> QED BY <1>1 DEF Spread

\* The tickets with collectord's calls and on their way back.
CalledIn(C) == {c.seqNo : c \in C} \ {0}

\* None of them is there twice.
OnceAsked(s) == \A i, j \in 1..Len(s) :
  s[i].kind \in Kinds /\ s[j].kind \in Kinds /\ s[i].seqNo = s[j].seqNo => i = j
OnceCalled(C) == \A c, d \in C : c.seqNo # 0 /\ c.seqNo = d.seqNo => c = d
OnceAnswered(s) == \A i, j \in 1..Len(s) : s[i] = s[j] => i = j

\* The tickets that were answered for good, or lost.
Over == closed \cup lost

\* The tickets handed out are parted into those asked, called, answered, held and over.
CredTickets ==
  /\ Spread(SeqNosIn(toCollectord), CalledIn(credCalls), AnsweredIn(toMgmtd), results, Over, nextTicket)
  /\ OnceAsked(toCollectord) /\ OnceCalled(credCalls) /\ OnceAnswered(toMgmtd)

\* A request is queued, and a snapshot.
LEMMA AskedAppend ==
  ASSUME NEW s \in Seq(ToCollectordRecs), OnceAsked(s)
  PROVE  /\ \A m \in AskRecs : m.seqNo \notin SeqNosIn(s) =>
              /\ SeqNosIn(Append(s, m)) = SeqNosIn(s) \cup {m.seqNo} /\ OnceAsked(Append(s, m))
         /\ \A m \in StateRecs : SeqNosIn(Append(s, m)) = SeqNosIn(s) /\ OnceAsked(Append(s, m))
<1>1. ASSUME NEW m \in AskRecs, m.seqNo \notin SeqNosIn(s)
      PROVE  SeqNosIn(Append(s, m)) = SeqNosIn(s) \cup {m.seqNo} /\ OnceAsked(Append(s, m))
  <2>1. m \in ToCollectordRecs /\ m.kind \in Kinds
    BY DEF ToCollectordRecs, AskRecs
  <2>2. SeqNosIn(Append(s, m)) = SeqNosIn(s) \cup {m.seqNo}
    BY <2>1, Appended DEF SeqNosIn
  <2>3. \A i \in 1..Len(s) : s[i].kind \in Kinds => s[i].seqNo # m.seqNo
    BY <1>1 DEF SeqNosIn
  <2>4. OnceAsked(Append(s, m))
    BY <2>1, <2>3, Appended DEF OnceAsked
  <2> QED BY <2>2, <2>4
<1>2. ASSUME NEW m \in StateRecs
      PROVE  SeqNosIn(Append(s, m)) = SeqNosIn(s) /\ OnceAsked(Append(s, m))
  <2>1. m \in ToCollectordRecs /\ m.kind \notin Kinds
    BY DEF ToCollectordRecs, StateRecs, Kinds
  <2>2. SeqNosIn(Append(s, m)) = SeqNosIn(s)
    BY <2>1, Appended DEF SeqNosIn
  <2>3. OnceAsked(Append(s, m))
    BY <2>1, Appended DEF OnceAsked
  <2> QED BY <2>2, <2>3
<1> QED BY <1>1, <1>2

\* A frame is taken by Route.
LEMMA AskedTail ==
  ASSUME NEW s \in Seq(ToCollectordRecs), s # <<>>, OnceAsked(s)
  PROVE  /\ Head(s) \in AskRecs =>
              /\ SeqNosIn(Tail(s)) = SeqNosIn(s) \ {Head(s).seqNo} /\ Head(s).seqNo \in SeqNosIn(s)
         /\ Head(s) \in StateRecs => SeqNosIn(Tail(s)) = SeqNosIn(s)
         /\ OnceAsked(Tail(s))
<1>1. ASSUME Head(s) \in AskRecs
      PROVE  SeqNosIn(Tail(s)) = SeqNosIn(s) \ {Head(s).seqNo} /\ Head(s).seqNo \in SeqNosIn(s)
  <2>1. Head(s).kind \in Kinds
    BY <1>1 DEF AskRecs
  <2>2. \A k \in 1..Len(s) : k # 1 /\ s[k].kind \in Kinds => s[k].seqNo # Head(s).seqNo
    BY <2>1, Taken DEF OnceAsked
  <2>3. SeqNosIn(Tail(s)) \subseteq SeqNosIn(s) \ {Head(s).seqNo}
    BY <2>2, Taken DEF SeqNosIn
  <2>4. SeqNosIn(s) \ {Head(s).seqNo} \subseteq SeqNosIn(Tail(s))
    <3> SUFFICES ASSUME NEW t \in SeqNosIn(s), t # Head(s).seqNo PROVE t \in SeqNosIn(Tail(s))
      OBVIOUS
    <3>1. PICK k \in 1..Len(s) : s[k].kind \in Kinds /\ s[k].seqNo = t
      BY DEF SeqNosIn
    <3>2. k # 1
      BY <3>1, Taken
    <3>3. k - 1 \in 1..Len(Tail(s)) /\ Tail(s)[k - 1] = s[k]
      BY <3>2, Taken
    <3> QED BY <3>1, <3>3 DEF SeqNosIn
  <2>5. Head(s).seqNo \in SeqNosIn(s)
    BY <2>1, Taken DEF SeqNosIn
  <2> QED BY <2>3, <2>4, <2>5
<1>2. ASSUME Head(s) \in StateRecs PROVE SeqNosIn(Tail(s)) = SeqNosIn(s)
  <2>1. Head(s).kind \notin Kinds
    BY <1>2 DEF StateRecs, Kinds
  <2>2. SeqNosIn(Tail(s)) \subseteq SeqNosIn(s)
    BY Taken DEF SeqNosIn
  <2>3. SeqNosIn(s) \subseteq SeqNosIn(Tail(s))
    <3> SUFFICES ASSUME NEW t \in SeqNosIn(s) PROVE t \in SeqNosIn(Tail(s))
      OBVIOUS
    <3>1. PICK k \in 1..Len(s) : s[k].kind \in Kinds /\ s[k].seqNo = t
      BY DEF SeqNosIn
    <3>2. k # 1
      BY <2>1, <3>1, Taken
    <3>3. k - 1 \in 1..Len(Tail(s)) /\ Tail(s)[k - 1] = s[k]
      BY <3>2, Taken
    <3> QED BY <3>1, <3>3 DEF SeqNosIn
  <2> QED BY <2>2, <2>3
<1>3. OnceAsked(Tail(s))
  <2> SUFFICES ASSUME NEW i \in 1..Len(Tail(s)), NEW j \in 1..Len(Tail(s)),
                      Tail(s)[i].kind \in Kinds, Tail(s)[j].kind \in Kinds,
                      Tail(s)[i].seqNo = Tail(s)[j].seqNo
               PROVE  i = j
    BY DEF OnceAsked
  <2>1. i + 1 = j + 1
    BY Taken DEF OnceAsked
  <2> QED BY <2>1
<1> QED BY <1>1, <1>2, <1>3

\* An answer is sent, and delivered.
LEMMA AnswerMoves ==
  ASSUME NEW s \in Seq(Nat \ {0}), OnceAnswered(s)
  PROVE  /\ \A n \in Nat \ {0} : n \notin AnsweredIn(s) =>
              AnsweredIn(Append(s, n)) = AnsweredIn(s) \cup {n} /\ OnceAnswered(Append(s, n))
         /\ s # <<>> => /\ AnsweredIn(Tail(s)) = AnsweredIn(s) \ {Head(s)} /\ Head(s) \in AnsweredIn(s)
                        /\ OnceAnswered(Tail(s))
<1>1. ASSUME NEW n \in Nat \ {0}, n \notin AnsweredIn(s)
      PROVE  AnsweredIn(Append(s, n)) = AnsweredIn(s) \cup {n} /\ OnceAnswered(Append(s, n))
  <2>1. AnsweredIn(Append(s, n)) = AnsweredIn(s) \cup {n}
    BY Appended DEF AnsweredIn
  <2>2. \A i \in 1..Len(s) : s[i] # n
    BY <1>1 DEF AnsweredIn
  <2>3. OnceAnswered(Append(s, n))
    BY <2>2, Appended DEF OnceAnswered
  <2> QED BY <2>1, <2>3
<1>2. ASSUME s # <<>>
      PROVE  /\ AnsweredIn(Tail(s)) = AnsweredIn(s) \ {Head(s)} /\ Head(s) \in AnsweredIn(s)
             /\ OnceAnswered(Tail(s))
  <2>1. \A k \in 1..Len(s) : k # 1 => s[k] # Head(s)
    BY <1>2, Taken DEF OnceAnswered
  <2>2. AnsweredIn(Tail(s)) \subseteq AnsweredIn(s) \ {Head(s)}
    BY <1>2, <2>1, Taken DEF AnsweredIn
  <2>3. AnsweredIn(s) \ {Head(s)} \subseteq AnsweredIn(Tail(s))
    <3> SUFFICES ASSUME NEW t \in AnsweredIn(s), t # Head(s) PROVE t \in AnsweredIn(Tail(s))
      OBVIOUS
    <3>1. PICK k \in 1..Len(s) : s[k] = t
      BY DEF AnsweredIn
    <3>2. k # 1
      BY <1>2, <3>1, Taken
    <3>3. k - 1 \in 1..Len(Tail(s)) /\ Tail(s)[k - 1] = s[k]
      BY <1>2, <3>2, Taken
    <3> QED BY <3>1, <3>3 DEF AnsweredIn
  <2>4. OnceAnswered(Tail(s))
    <3> SUFFICES ASSUME NEW i \in 1..Len(Tail(s)), NEW j \in 1..Len(Tail(s)), Tail(s)[i] = Tail(s)[j]
                 PROVE  i = j
      BY DEF OnceAnswered
    <3>1. i + 1 = j + 1
      BY <1>2, Taken DEF OnceAnswered
    <3> QED BY <3>1
  <2>5. Head(s) \in AnsweredIn(s)
    BY <1>2, Taken DEF AnsweredIn
  <2> QED BY <2>2, <2>3, <2>4, <2>5
<1> QED BY <1>1, <1>2

\* A call is made, completes or is followed by another on the same ticket.
LEMMA CallMoves ==
  ASSUME NEW C \in SUBSET CallRecs, OnceCalled(C)
  PROVE  /\ \A c \in CallRecs : c.seqNo \notin CalledIn(C) =>
              /\ CalledIn(C \cup {c}) = (CalledIn(C) \cup {c.seqNo}) \ {0} /\ OnceCalled(C \cup {c})
         /\ \A c \in C : /\ CalledIn(C \ {c}) = CalledIn(C) \ {c.seqNo} /\ OnceCalled(C \ {c})
                         /\ c.seqNo # 0 => c.seqNo \in CalledIn(C)
         /\ \A c \in C, d \in CallRecs : d.seqNo = c.seqNo =>
              CalledIn((C \ {c}) \cup {d}) = CalledIn(C) /\ OnceCalled((C \ {c}) \cup {d})
<1>1. ASSUME NEW c \in CallRecs, c.seqNo \notin CalledIn(C)
      PROVE  CalledIn(C \cup {c}) = (CalledIn(C) \cup {c.seqNo}) \ {0} /\ OnceCalled(C \cup {c})
  <2>1. \A d \in C : d.seqNo # 0 => d.seqNo # c.seqNo
    BY <1>1 DEF CalledIn
  <2> QED BY <2>1 DEF CalledIn, OnceCalled
<1>2. ASSUME NEW c \in C
      PROVE  /\ CalledIn(C \ {c}) = CalledIn(C) \ {c.seqNo} /\ OnceCalled(C \ {c})
             /\ c.seqNo # 0 => c.seqNo \in CalledIn(C)
  BY DEF CalledIn, OnceCalled
<1>3. ASSUME NEW c \in C, NEW d \in CallRecs, d.seqNo = c.seqNo
      PROVE  CalledIn((C \ {c}) \cup {d}) = CalledIn(C) /\ OnceCalled((C \ {c}) \cup {d})
  BY <1>3 DEF CalledIn, OnceCalled
<1> QED BY <1>1, <1>2, <1>3

\* The tickets where a step leaves them.
credTicketState == <<toCollectord, credCalls, toMgmtd, results, Over, nextTicket>>

\* A step that moves no ticket.
LEMMA CredTicketsFrame == CredTickets /\ UNCHANGED credTicketState => CredTickets'
BY DEF credTicketState, CredTickets

\* sendConnectorTest opens a ticket.
LEMMA TicketOpened ==
  ASSUME CredTypes, CredTickets, NEW r \in ConnectorTests, SendConnectorTest(r)
  PROVE  CredTickets'
<1>1. PICK m : m = [r EXCEPT !.seqNo = nextTicket]
  OBVIOUS
<1>2. /\ toCollectord' = Append(toCollectord, m) /\ nextTicket' = nextTicket + 1
      /\ UNCHANGED <<credCalls, toMgmtd, results, Over>>
  BY <1>1 DEF SendConnectorTest, Over
<1>3. toCollectord \in Seq(ToCollectordRecs) /\ nextTicket \in Nat \ {0}
  BY DEF CredTypes
<1>4. m \in AskRecs /\ m.seqNo = nextTicket
  BY <1>1, <1>3, PasswordNumbers DEF SendConnectorTest, ConnectorTests, ConnectorTestInputOk, AskRecs
<1>5. /\ nextTicket \notin SeqNosIn(toCollectord)
      /\ Spread(SeqNosIn(toCollectord) \cup {nextTicket}, CalledIn(credCalls), AnsweredIn(toMgmtd), results,
                Over, nextTicket + 1)
  BY <1>3, SpreadOpens DEF CredTickets
<1>6. SeqNosIn(toCollectord') = SeqNosIn(toCollectord) \cup {nextTicket} /\ OnceAsked(toCollectord')
  BY <1>2, <1>3, <1>4, <1>5, AskedAppend DEF CredTickets
<1> QED BY <1>2, <1>5, <1>6 DEF CredTickets

\* onTestResponse files an answer, after dropping those held when there are too many.
LEMMA TicketFiled ==
  ASSUME CredTypes, CredTickets, OnTestResponse
  PROVE  CredTickets'
<1>1. /\ toMgmtd # <<>> /\ toMgmtd' = Tail(toMgmtd)
      /\ UNCHANGED <<toCollectord, credCalls, nextTicket>>
  BY DEF OnTestResponse
<1>2. PICK t : t = Head(toMgmtd)
  OBVIOUS
<1>3. \/ results' = results \cup {t} /\ Over' = Over
      \/ results' = {t} /\ Over' = Over \cup results
  BY <1>2 DEF OnTestResponse, Over
<1>4. toMgmtd \in Seq(Nat \ {0})
  BY DEF CredTypes
<1>5. /\ AnsweredIn(toMgmtd') = AnsweredIn(toMgmtd) \ {t} /\ t \in AnsweredIn(toMgmtd)
      /\ OnceAnswered(toMgmtd')
  BY <1>1, <1>2, <1>4, AnswerMoves DEF CredTickets
<1>6. /\ Spread(SeqNosIn(toCollectord), CalledIn(credCalls), AnsweredIn(toMgmtd) \ {t}, results \cup {t},
                Over, nextTicket)
      /\ Spread(SeqNosIn(toCollectord), CalledIn(credCalls), AnsweredIn(toMgmtd) \ {t}, {t},
                Over \cup results, nextTicket)
  BY <1>5, SpreadMoves DEF CredTickets
<1> QED BY <1>1, <1>3, <1>5, <1>6 DEF CredTickets

\* A browser takes its answer.
LEMMA TicketTaken ==
  ASSUME CredTickets, NEW t \in results, TestResult(t)
  PROVE  CredTickets'
<1>1. /\ results' = results \ {t} /\ Over' = Over \cup {t}
      /\ UNCHANGED <<toCollectord, credCalls, toMgmtd, nextTicket>>
  BY DEF TestResult, Over
<1>2. Spread(SeqNosIn(toCollectord), CalledIn(credCalls), AnsweredIn(toMgmtd), results \ {t},
             Over \cup {t}, nextTicket)
  BY SpreadMoves DEF CredTickets
<1> QED BY <1>1, <1>2 DEF CredTickets

\* Route takes a request, and answers it or makes a call for it.
LEMMA TicketRouted ==
  ASSUME CredTypes, CredTickets, Route
  PROVE  CredTickets'
<1>1. /\ toCollectord # <<>> /\ toCollectord' = Tail(toCollectord)
      /\ UNCHANGED <<nextTicket, results, Over>>
      /\ Asked(Head(toCollectord)) \/ Restored(Head(toCollectord))
  BY Routed DEF Over
<1>2. /\ toCollectord \in Seq(ToCollectordRecs) /\ toMgmtd \in Seq(Nat \ {0})
      /\ credCalls \in SUBSET CallRecs
      /\ OnceAsked(toCollectord) /\ OnceCalled(credCalls) /\ OnceAnswered(toMgmtd)
  BY DEF CredTypes, CredTickets
<1>3. PICK m : m = Head(toCollectord)
  OBVIOUS
<1>4. /\ m \in AskRecs => /\ SeqNosIn(toCollectord') = SeqNosIn(toCollectord) \ {m.seqNo}
                          /\ m.seqNo \in SeqNosIn(toCollectord)
      /\ m \in StateRecs => SeqNosIn(toCollectord') = SeqNosIn(toCollectord)
      /\ OnceAsked(toCollectord')
  BY <1>1, <1>2, <1>3, AskedTail
<1>5. CASE Restored(m)
  BY <1>1, <1>4, <1>5 DEF Restored, CredTickets
<1>6. CASE Asked(m)
  <2>1. /\ m \in AskRecs /\ m.seqNo \in Nat \ {0}
        /\ Replied(m.seqNo) \/ Called(m.seqNo)
    BY <1>6 DEF Asked, AskRecs
  <2>2. PICK t \in Nat \ {0} : t = m.seqNo
    BY <2>1
  <2>3. /\ t \in SeqNosIn(toCollectord)
        /\ SeqNosIn(toCollectord') = SeqNosIn(toCollectord) \ {t}
    BY <1>4, <2>1, <2>2
  <2>4. /\ Spread(SeqNosIn(toCollectord) \ {t}, CalledIn(credCalls) \cup {t}, AnsweredIn(toMgmtd), results,
                  Over, nextTicket)
        /\ Spread(SeqNosIn(toCollectord) \ {t}, CalledIn(credCalls), AnsweredIn(toMgmtd) \cup {t}, results,
                  Over, nextTicket)
        /\ t \notin CalledIn(credCalls) \cup AnsweredIn(toMgmtd)
    <3>1. Spread(SeqNosIn(toCollectord), CalledIn(credCalls), AnsweredIn(toMgmtd), results, Over, nextTicket)
      BY DEF CredTickets
    <3>2. \A x \in SeqNosIn(toCollectord) :
            /\ Spread(SeqNosIn(toCollectord) \ {x}, CalledIn(credCalls) \cup {x}, AnsweredIn(toMgmtd), results,
                      Over, nextTicket)
            /\ Spread(SeqNosIn(toCollectord) \ {x}, CalledIn(credCalls), AnsweredIn(toMgmtd) \cup {x}, results,
                      Over, nextTicket)
            /\ x \notin CalledIn(credCalls) \cup AnsweredIn(toMgmtd)
      BY <3>1, SpreadMoves, Zenon
    <3> QED BY <2>3, <3>2, Zenon
  <2>5. CASE Replied(t)
    <3>1. toMgmtd' = Append(toMgmtd, t) /\ credCalls' = credCalls
      BY <2>5 DEF Replied
    <3>2. AnsweredIn(toMgmtd') = AnsweredIn(toMgmtd) \cup {t} /\ OnceAnswered(toMgmtd')
      BY <1>2, <2>4, <3>1, AnswerMoves
    <3> QED BY <1>1, <1>2, <1>4, <2>3, <2>4, <3>1, <3>2 DEF CredTickets
  <2>6. CASE Called(t)
    <3>1. PICK c \in CallRecs : c.seqNo = t /\ credCalls' = credCalls \cup {c} /\ toMgmtd' = toMgmtd
      BY <2>6 DEF Called
    <3>2. CalledIn(credCalls') = (CalledIn(credCalls) \cup {t}) \ {0} /\ OnceCalled(credCalls')
      BY <1>2, <2>4, <3>1, CallMoves
    <3>3. CalledIn(credCalls') = CalledIn(credCalls) \cup {t}
      BY <3>2 DEF CalledIn
    <3> QED BY <1>1, <1>2, <1>4, <2>3, <2>4, <3>1, <3>2, <3>3 DEF CredTickets
  <2> QED BY <2>1, <2>2, <2>5, <2>6
<1> QED BY <1>1, <1>3, <1>5, <1>6

\* A refresh has no ticket.
LEMMA TicketlessRefresh ==
  ASSUME CredTypes, CredTickets, NEW p \in AutoProfiles, AutoRefreshTick(p)
  PROVE  CredTickets'
<1>1. /\ Replied(0) \/ Called(0)
      /\ UNCHANGED <<toCollectord, nextTicket, results, Over>>
  BY Refreshed DEF Over
<1>2. credCalls \in SUBSET CallRecs /\ OnceCalled(credCalls)
  BY DEF CredTypes, CredTickets
<1>3. CASE Replied(0)
  BY <1>1, <1>3 DEF Replied, CredTickets
<1>4. CASE Called(0)
  <2>1. PICK c \in CallRecs : c.seqNo = 0 /\ credCalls' = credCalls \cup {c} /\ toMgmtd' = toMgmtd
    BY <1>4 DEF Called
  <2>2. 0 \notin CalledIn(credCalls)
    BY DEF CalledIn
  <2>3. CalledIn(credCalls') = (CalledIn(credCalls) \cup {0}) \ {0} /\ OnceCalled(credCalls')
    BY <1>2, <2>1, <2>2, CallMoves
  <2>4. CalledIn(credCalls') = CalledIn(credCalls)
    BY <2>2, <2>3
  <2> QED BY <1>1, <2>1, <2>3, <2>4 DEF CredTickets
<1> QED BY <1>1, <1>3, <1>4

\* A call completes: its ticket is answered, or waits for the next call.
LEMMA TicketCompleted ==
  ASSUME CredTypes, CredTickets, NEW c, Complete(c)
  PROVE  CredTickets'
<1>1. /\ c \in credCalls
      /\ UNCHANGED <<toCollectord, nextTicket, results, Over>>
      /\ Answers(c) \/ GoesOn(c)
  BY Completed DEF Over
<1>2. /\ toMgmtd \in Seq(Nat \ {0}) /\ credCalls \in SUBSET CallRecs
      /\ OnceCalled(credCalls) /\ OnceAnswered(toMgmtd)
  BY DEF CredTypes, CredTickets
<1>3. PICK t \in Nat : t = c.seqNo
  BY <1>1, <1>2 DEF CallRecs
<1>4. /\ CalledIn(credCalls \ {c}) = CalledIn(credCalls) \ {t} /\ OnceCalled(credCalls \ {c})
      /\ t # 0 => t \in CalledIn(credCalls)
  BY <1>1, <1>2, <1>3, CallMoves
<1>5. CASE Answers(c) /\ t = 0
  <2>1. CalledIn(credCalls \ {c}) = CalledIn(credCalls)
    BY <1>4, <1>5 DEF CalledIn
  <2> QED BY <1>1, <1>3, <1>4, <1>5, <2>1 DEF Answers, CredTickets
<1>6. CASE Answers(c) /\ t # 0
  <2>1. toMgmtd' = Append(toMgmtd, t) /\ credCalls' = credCalls \ {c}
    BY <1>3, <1>6 DEF Answers
  <2>2. /\ Spread(SeqNosIn(toCollectord), CalledIn(credCalls) \ {t}, AnsweredIn(toMgmtd) \cup {t}, results,
                  Over, nextTicket)
        /\ t \notin AnsweredIn(toMgmtd)
    BY <1>4, <1>6, SpreadMoves DEF CredTickets
  <2>3. AnsweredIn(toMgmtd') = AnsweredIn(toMgmtd) \cup {t} /\ OnceAnswered(toMgmtd')
    BY <1>2, <1>6, <2>1, <2>2, AnswerMoves
  <2> QED BY <1>1, <1>4, <2>1, <2>2, <2>3 DEF CredTickets
<1>7. CASE GoesOn(c)
  <2>1. PICK d \in CallRecs : /\ d.seqNo = c.seqNo /\ credCalls' = (credCalls \ {c}) \cup {d}
                              /\ toMgmtd' = toMgmtd
    BY <1>7 DEF GoesOn
  <2>2. CalledIn(credCalls') = CalledIn(credCalls) /\ OnceCalled(credCalls')
    BY <1>1, <1>2, <2>1, CallMoves
  <2> QED BY <1>1, <2>1, <2>2 DEF CredTickets
<1> QED BY <1>1, <1>5, <1>6, <1>7

\* Of a queue that was cut, each ticket is still there once.
LEMMA TicketsCut ==
  ASSUME CredTypes, CredTickets
  PROVE  /\ \A q \in Cut(toCollectord) : SeqNosIn(q) \subseteq SeqNosIn(toCollectord) /\ OnceAsked(q)
         /\ \A q \in Cut(toMgmtd) : AnsweredIn(q) \subseteq AnsweredIn(toMgmtd) /\ OnceAnswered(q)
<1>0. /\ toCollectord \in Seq(ToCollectordRecs) /\ toMgmtd \in Seq(Nat \ {0})
      /\ OnceAsked(toCollectord) /\ OnceAnswered(toMgmtd)
  BY DEF CredTypes, CredTickets
<1>a. \A q \in Cut(toCollectord) : \E d \in Nat :
        \A i \in 1..Len(q) : i + d \in 1..Len(toCollectord) /\ q[i] = toCollectord[i + d]
  <2>1. PICK asked, S : asked = toCollectord /\ asked \in Seq(S)
    BY <1>0
  <2>2. \A q \in Cut(asked) : \E d \in Nat :
          \A i \in 1..Len(q) : i + d \in 1..Len(asked) /\ q[i] = asked[i + d]
    BY <2>1, CutWithin
  <2> QED BY <2>1, <2>2
<1>b. \A q \in Cut(toMgmtd) : \E d \in Nat :
        \A i \in 1..Len(q) : i + d \in 1..Len(toMgmtd) /\ q[i] = toMgmtd[i + d]
  <2>1. PICK sent, S : sent = toMgmtd /\ sent \in Seq(S)
    BY <1>0
  <2>2. \A q \in Cut(sent) : \E d \in Nat :
          \A i \in 1..Len(q) : i + d \in 1..Len(sent) /\ q[i] = sent[i + d]
    BY <2>1, CutWithin
  <2> QED BY <2>1, <2>2
<1>1. ASSUME NEW q \in Cut(toCollectord)
      PROVE  SeqNosIn(q) \subseteq SeqNosIn(toCollectord) /\ OnceAsked(q)
  <2>1. PICK d \in Nat : \A i \in 1..Len(q) : i + d \in 1..Len(toCollectord) /\ q[i] = toCollectord[i + d]
    BY <1>a
  <2>2. SeqNosIn(q) \subseteq SeqNosIn(toCollectord)
    BY <2>1 DEF SeqNosIn
  <2>3. \A i, j \in 1..Len(q) : q[i].kind \in Kinds /\ q[j].kind \in Kinds /\ q[i].seqNo = q[j].seqNo
                                => i + d = j + d
    BY <1>0, <2>1 DEF OnceAsked
  <2>4. \A i, j \in Int : i + d = j + d => i = j
    OBVIOUS
  <2> QED BY <2>2, <2>3, <2>4 DEF OnceAsked
<1>2. ASSUME NEW q \in Cut(toMgmtd)
      PROVE  AnsweredIn(q) \subseteq AnsweredIn(toMgmtd) /\ OnceAnswered(q)
  <2>1. PICK d \in Nat : \A i \in 1..Len(q) : i + d \in 1..Len(toMgmtd) /\ q[i] = toMgmtd[i + d]
    BY <1>b
  <2>2. AnsweredIn(q) \subseteq AnsweredIn(toMgmtd)
    BY <2>1 DEF AnsweredIn
  <2>3. \A i, j \in 1..Len(q) : q[i] = q[j] => i + d = j + d
    BY <1>0, <2>1 DEF OnceAnswered
  <2>4. \A i, j \in Int : i + d = j + d => i = j
    OBVIOUS
  <2> QED BY <2>2, <2>3, <2>4 DEF OnceAnswered
<1> QED BY <1>1, <1>2

\* collectord's requests and calls die with it, and answers it had not sent.
LEMMA TicketsLost ==
  ASSUME CredTypes, CredTickets, CollectordRestart \/ FramesRefused
  PROVE  CredTickets'
<1>1. /\ Over' = Over \cup (SeqNosIn(toCollectord) \ SeqNosIn(toCollectord'))
                      \cup (CalledIn(credCalls) \ CalledIn(credCalls'))
                      \cup (AnsweredIn(toMgmtd) \ AnsweredIn(toMgmtd'))
      /\ UNCHANGED <<nextTicket, results>>
  <2>1. CalledIn({}) = {}
    BY DEF CalledIn
  <2>2. CASE CollectordRestart
    BY <2>1, <2>2 DEF CollectordRestart, TicketsGone, Over, CalledIn
  <2>3. CASE FramesRefused
    BY <2>3 DEF FramesRefused, TicketsGone, Over
  <2> QED BY <2>2, <2>3
<1>2. CalledIn(credCalls') \subseteq CalledIn(credCalls) /\ OnceCalled(credCalls')
  BY DEF CollectordRestart, FramesRefused, CalledIn, OnceCalled, CredTickets
<1>3. SeqNosIn(toCollectord') \subseteq SeqNosIn(toCollectord) /\ OnceAsked(toCollectord')
  <2>1. SeqNosIn(<<>>) = {} /\ OnceAsked(<<>>)
    BY DEF SeqNosIn, OnceAsked
  <2>2. CASE CollectordRestart BY <2>1, <2>2 DEF CollectordRestart
  <2>3. CASE FramesRefused BY <2>3, TicketsCut DEF FramesRefused
  <2> QED BY <2>2, <2>3
<1>4. AnsweredIn(toMgmtd') \subseteq AnsweredIn(toMgmtd) /\ OnceAnswered(toMgmtd')
  BY TicketsCut DEF CollectordRestart, FramesRefused
<1>5. Spread(SeqNosIn(toCollectord'), CalledIn(credCalls'), AnsweredIn(toMgmtd'), results,
             Over \cup (SeqNosIn(toCollectord) \ SeqNosIn(toCollectord'))
                  \cup (CalledIn(credCalls) \ CalledIn(credCalls'))
                  \cup (AnsweredIn(toMgmtd) \ AnsweredIn(toMgmtd')), nextTicket)
  BY <1>2, <1>3, <1>4, SpreadLoses DEF CredTickets
<1> QED BY <1>1, <1>2, <1>3, <1>4, <1>5 DEF CredTickets

\* engined sends no ticket.
LEMMA TicketlessStore ==
  ASSUME CredTypes, CredTickets, EnginedHandle
  PROVE  CredTickets'
<1>1. UNCHANGED <<credCalls, toMgmtd, nextTicket, results, Over>>
  BY Handles DEF Over
<1>2. toCollectord' = toCollectord \/ \E up \in BOOLEAN : toCollectord' = Append(toCollectord, Snapshot(up))
  BY Handles
<1>3. SeqNosIn(toCollectord') = SeqNosIn(toCollectord) /\ OnceAsked(toCollectord')
  <2>1. toCollectord \in Seq(ToCollectordRecs) /\ OnceAsked(toCollectord)
    BY DEF CredTypes, CredTickets
  <2>2. \A up \in BOOLEAN : Snapshot(up) \in StateRecs
    BY SnapshotTyped
  <2>3. CASE toCollectord' = toCollectord
    BY <2>1, <2>3
  <2>4. ASSUME NEW up \in BOOLEAN, toCollectord' = Append(toCollectord, Snapshot(up))
        PROVE  SeqNosIn(toCollectord') = SeqNosIn(toCollectord) /\ OnceAsked(toCollectord')
    <3>1. PICK snap \in StateRecs : snap = Snapshot(up)
      BY <2>2
    <3>2. toCollectord' = Append(toCollectord, snap)
      BY <2>4, <3>1
    <3> QED BY <2>1, <3>2, AskedAppend
  <2> QED BY <1>2, <2>3, <2>4
<1> QED BY <1>1, <1>3 DEF CredTickets

\* Every step leaves each ticket in one place.
LEMMA CredTicketsStep == CredTypes /\ CredTickets /\ [CredNext]_credVars => CredTickets'
<1> SUFFICES ASSUME CredTypes, CredTickets, [CredNext]_credVars PROVE CredTickets'
  OBVIOUS
<1>1. ASSUME NEW r \in ConnectorTests, SendConnectorTest(r) PROVE CredTickets'
  BY <1>1, TicketOpened
<1>2. CASE OnTestResponse BY <1>2, TicketFiled
<1>3. ASSUME NEW t \in results, TestResult(t) PROVE CredTickets'
  BY <1>3, TicketTaken
<1>4. CASE Route BY <1>4, TicketRouted
<1>5. CASE Setup BY <1>5, CredTicketsFrame DEF Setup, credTicketState, Over
<1>6. ASSUME NEW p \in AutoProfiles, AutoRefreshTick(p) PROVE CredTickets'
  BY <1>6, TicketlessRefresh
<1>7. ASSUME NEW c \in credCalls, Complete(c) PROVE CredTickets'
  BY <1>7, TicketCompleted
<1>8. CASE CollectordRestart BY <1>8, TicketsLost
<1>9. CASE EnginedHandle BY <1>9, TicketlessStore
<1>10. CASE FramesRefused BY <1>10, TicketsLost
<1>11. CASE UNCHANGED credVars BY <1>11, CredTicketsFrame DEF credVars, credTicketState, Over
<1> QED BY <1>1, <1>2, <1>3, <1>4, <1>5, <1>6, <1>7, <1>8, <1>9, <1>10, <1>11 DEF CredNext

\* At the start nothing is in flight.
LEMMA CredStarts == CredInit => CredTypes /\ CredTickets
<1> SUFFICES ASSUME CredInit PROVE CredTypes /\ CredTickets
  OBVIOUS
<1>1. /\ toCollectord = <<>> /\ toEngined = <<>> /\ toMgmtd = <<>> /\ credCalls = {}
      /\ nextTicket = 1 /\ results = {} /\ Over = {}
  BY DEF CredInit, Over
<1>2. CredTypes
  <2>1. /\ <<>> \in Seq(ToCollectordRecs) /\ <<>> \in Seq(ToEnginedRecs) /\ <<>> \in Seq(Nat \ {0})
    OBVIOUS
  <2>2. [key |-> 0, account |-> 0, test |-> "none"] \in RowRecs
    BY DEF RowRecs
  <2>3. /\ issuedKeys \in [Oids -> Nat] /\ saseAccounts \in [Profiles -> Nat]
        /\ saseRows \in [SaseDevices -> Nat]
    BY DEF CredInit
  <2>4. keyRows \in [Profiles -> RowRecs]
    BY <2>2 DEF CredInit
  <2>5. /\ setupDone \in BOOLEAN /\ available \in BOOLEAN /\ issuedCount \in Nat /\ faults \in Nat
        /\ dropped \in BOOLEAN
    BY DEF CredInit
  <2> QED BY <1>1, <2>1, <2>3, <2>4, <2>5 DEF CredTypes
<1>3. SeqNosIn(<<>>) = {} /\ CalledIn({}) = {} /\ AnsweredIn(<<>>) = {}
  BY DEF SeqNosIn, CalledIn, AnsweredIn
<1>4. OnceAsked(<<>>) /\ OnceCalled({}) /\ OnceAnswered(<<>>)
  BY DEF OnceAsked, OnceCalled, OnceAnswered
<1>5. Spread({}, {}, {}, {}, {}, 1)
  <2>1. 1..(1 - 1) = {}
    OBVIOUS
  <2> QED BY <2>1 DEF Spread
<1> QED BY <1>1, <1>2, <1>3, <1>4, <1>5 DEF CredTickets

\* Parted tickets are in one place each.
LEMMA SpreadIsAccounted == CredTypes /\ CredTickets => TicketAccounted
<1> SUFFICES ASSUME CredTypes, CredTickets, NEW t \in 1..(nextTicket - 1)
             PROVE  IF t \in Over THEN PlacesOf(t) = {} ELSE \E x \in PlacesOf(t) : PlacesOf(t) = {x}
  BY DEF TicketAccounted, Over
<1> DEFINE A == {<<"asked", i>> : i \in {k \in 1..Len(toCollectord) :
                             toCollectord[k].kind \in Kinds /\ toCollectord[k].seqNo = t}}
           B == {<<"called", c>> : c \in {x \in credCalls : x.seqNo = t}}
           C == {<<"answered", i>> : i \in {k \in 1..Len(toMgmtd) : toMgmtd[k] = t}}
           D == {<<"held", r>> : r \in {x \in results : x = t}}
<1>1. PlacesOf(t) = A \cup B \cup C \cup D
  BY DEF PlacesOf
<1>2. t # 0
  BY DEF CredTypes
<1>3. /\ t \notin SeqNosIn(toCollectord) => A = {}
      /\ t \notin CalledIn(credCalls) => B = {}
      /\ t \notin AnsweredIn(toMgmtd) => C = {}
      /\ t \notin results => D = {}
  BY <1>2 DEF SeqNosIn, CalledIn, AnsweredIn
<1>4. t \in SeqNosIn(toCollectord) => \E x : A = {x}
  <2> SUFFICES ASSUME t \in SeqNosIn(toCollectord) PROVE \E x : A = {x}
    OBVIOUS
  <2>1. PICK i \in 1..Len(toCollectord) : toCollectord[i].kind \in Kinds /\ toCollectord[i].seqNo = t
    BY DEF SeqNosIn
  <2>2. \A k \in 1..Len(toCollectord) : toCollectord[k].kind \in Kinds /\ toCollectord[k].seqNo = t => k = i
    BY <2>1 DEF CredTickets, OnceAsked
  <2>3. A = {<<"asked", i>>}
    BY <2>1, <2>2
  <2> QED BY <2>3
<1>5. t \in CalledIn(credCalls) => \E x : B = {x}
  <2> SUFFICES ASSUME t \in CalledIn(credCalls) PROVE \E x : B = {x}
    OBVIOUS
  <2>1. PICK c \in credCalls : c.seqNo = t
    BY DEF CalledIn
  <2>2. \A d \in credCalls : d.seqNo = t => d = c
    BY <1>2, <2>1 DEF CredTickets, OnceCalled
  <2>3. B = {<<"called", c>>}
    BY <2>1, <2>2
  <2> QED BY <2>3
<1>6. t \in AnsweredIn(toMgmtd) => \E x : C = {x}
  <2> SUFFICES ASSUME t \in AnsweredIn(toMgmtd) PROVE \E x : C = {x}
    OBVIOUS
  <2>1. PICK i \in 1..Len(toMgmtd) : toMgmtd[i] = t
    BY DEF AnsweredIn
  <2>2. \A k \in 1..Len(toMgmtd) : toMgmtd[k] = t => k = i
    BY <2>1 DEF CredTickets, OnceAnswered
  <2>3. C = {<<"answered", i>>}
    BY <2>1, <2>2
  <2> QED BY <2>3
<1>7. t \in results => D = {<<"held", t>>}
  OBVIOUS
<1>8. /\ t \in SeqNosIn(toCollectord) \cup CalledIn(credCalls) \cup AnsweredIn(toMgmtd) \cup results \cup Over
      /\ t \in SeqNosIn(toCollectord) => t \notin CalledIn(credCalls) \cup AnsweredIn(toMgmtd) \cup results \cup Over
      /\ t \in CalledIn(credCalls) => t \notin AnsweredIn(toMgmtd) \cup results \cup Over
      /\ t \in AnsweredIn(toMgmtd) => t \notin results \cup Over
      /\ t \in results => t \notin Over
  BY DEF CredTickets, Spread
<1> HIDE DEF A, B, C, D
<1>9. CASE t \in Over
  BY <1>1, <1>3, <1>8, <1>9
<1>10. CASE t \notin Over
  <2>1. \E x : A \cup B \cup C \cup D = {x}
    BY <1>3, <1>4, <1>5, <1>6, <1>7, <1>8, <1>10
  <2> QED BY <1>1, <1>10, <2>1
<1> QED BY <1>9, <1>10

\* A connector test is answered at most once: its ticket is in one place until its answer is
\* read or dropped for room, or it was lost with collectord or a frame.
THEOREM TicketAccountedAlways == CredSpec => []TicketAccounted
<1>1. CredInit => CredTypes /\ CredTickets
  BY CredStarts
<1>2. CredTypes /\ CredTickets /\ [CredNext]_credVars => (CredTypes /\ CredTickets)'
  BY CredTypesStep, CredTicketsStep
<1>3. CredTypes /\ CredTickets => TicketAccounted
  BY SpreadIsAccounted
<1> QED BY <1>1, <1>2, <1>3, PTL DEF CredSpec

-----------------------------------------------------------------------------
(* What the store will hold.                                               *)

Columns == {"key", "account"}

\* k is what column f of profile p holds after the frames of q, if it held v before them.
Rests(q, p, f, v, k) ==
  \/ k = v /\ \A i \in 1..Len(q) : ~Writes(q[i], p, f)
  \/ \E i \in 1..Len(q) : /\ Writes(q[i], p, f) /\ k = q[i][f]
                          /\ \A j \in 1..Len(q) : Writes(q[j], p, f) => j <= i

\* There is one such value.
LEMMA RestsOnce ==
  ASSUME NEW q \in Seq(ToEnginedRecs), NEW p, NEW f, NEW v, NEW k, NEW l,
         Rests(q, p, f, v, k), Rests(q, p, f, v, l)
  PROVE  k = l
<1>1. \A i, j \in 1..Len(q) : i <= j /\ j <= i => i = j
  OBVIOUS
<1> QED BY <1>1 DEF Rests

\* Settled is it.
LEMMA SettledRests ==
  ASSUME NEW q \in Seq(ToEnginedRecs), NEW p, NEW f, NEW v, NEW W,
         W = {i \in 1..Len(q) : Writes(q[i], p, f)}
  PROVE  Rests(q, p, f, v, IF W = {} THEN v ELSE q[Newest(W)][f])
<1>1. CASE W = {}
  BY <1>1 DEF Rests
<1>2. CASE W # {}
  <2>1. Len(q) \in Nat /\ W \in SUBSET (1..Len(q))
    OBVIOUS
  <2>2. \E i \in W : \A j \in W : j <= i
    BY <1>2, <2>1, LastExists
  <2>3. Newest(W) \in W /\ \A j \in W : j <= Newest(W)
    BY <2>2 DEF Newest
  <2> QED BY <1>2, <2>3 DEF Rests
<1> QED BY <1>1, <1>2

\* A frame is sent.
LEMMA RestsAppend ==
  ASSUME NEW q \in Seq(ToEnginedRecs), NEW p, NEW f, NEW v, NEW k, NEW m \in ToEnginedRecs,
         Rests(q, p, f, v, k)
  PROVE  Rests(Append(q, m), p, f, v, IF Writes(m, p, f) THEN m[f] ELSE k)
<1>1. CASE Writes(m, p, f)
  BY <1>1, Appended DEF Rests
<1>2. CASE ~Writes(m, p, f)
  BY <1>2, Appended DEF Rests
<1> QED BY <1>1, <1>2

\* The oldest frame is stored.
LEMMA RestsTail ==
  ASSUME NEW q \in Seq(ToEnginedRecs), q # <<>>, NEW p, NEW f, NEW v, NEW k, Rests(q, p, f, v, k)
  PROVE  Rests(Tail(q), p, f, IF Writes(Head(q), p, f) THEN Head(q)[f] ELSE v, k)
<1>0. Len(q) \in Nat
  OBVIOUS
<1>1. CASE k = v /\ \A i \in 1..Len(q) : ~Writes(q[i], p, f)
  BY <1>1, Taken DEF Rests
<1>2. CASE \E i \in 1..Len(q) : /\ Writes(q[i], p, f) /\ k = q[i][f]
                                /\ \A j \in 1..Len(q) : Writes(q[j], p, f) => j <= i
  <2>1. PICK i \in 1..Len(q) : /\ Writes(q[i], p, f) /\ k = q[i][f]
                               /\ \A j \in 1..Len(q) : Writes(q[j], p, f) => j <= i
    BY <1>2
  <2>2. CASE i = 1
    <3>1. Writes(Head(q), p, f) /\ k = Head(q)[f]
      BY <2>1, <2>2, Taken
    <3>2. \A j \in 1..Len(Tail(q)) : ~Writes(Tail(q)[j], p, f)
      <4> SUFFICES ASSUME NEW j \in 1..Len(Tail(q)), Writes(Tail(q)[j], p, f) PROVE FALSE
        OBVIOUS
      <4>1. j + 1 \in 1..Len(q) /\ Writes(q[j + 1], p, f) /\ j \in Nat /\ j >= 1
        BY <1>0, Taken
      <4>2. j + 1 <= 1
        BY <2>1, <2>2, <4>1, Zenon
      <4> QED BY <4>1, <4>2
    <3> QED BY <3>1, <3>2 DEF Rests
  <2>3. CASE i # 1
    <3>1. i - 1 \in 1..Len(Tail(q)) /\ Tail(q)[i - 1] = q[i]
      BY <2>3, Taken
    <3>2. \A j \in 1..Len(Tail(q)) : Writes(Tail(q)[j], p, f) => j <= i - 1
      <4> SUFFICES ASSUME NEW j \in 1..Len(Tail(q)), Writes(Tail(q)[j], p, f) PROVE j <= i - 1
        OBVIOUS
      <4>1. j + 1 \in 1..Len(q) /\ Writes(q[j + 1], p, f) /\ j \in Nat /\ i \in Nat
        BY <1>0, Taken
      <4>2. j + 1 <= i
        BY <2>1, <4>1, Zenon
      <4> QED BY <4>1, <4>2
    <3> QED BY <2>1, <3>1, <3>2 DEF Rests
  <2> QED BY <2>2, <2>3
<1> QED BY <1>1, <1>2 DEF Rests

\* What an update sent by collectord does to what will be stored ...
LEMMA SettledAppend ==
  ASSUME CredTypes, NEW p \in Profiles, NEW f \in Columns, NEW m \in ToEnginedRecs,
         toEngined' = Append(toEngined, m), keyRows' = keyRows
  PROVE  Settled(p, f)' = IF Writes(m, p, f) THEN m[f] ELSE Settled(p, f)
<1>1. toEngined \in Seq(ToEnginedRecs) /\ toEngined' \in Seq(ToEnginedRecs)
  BY Appended DEF CredTypes
<1>2. Rests(toEngined, p, f, keyRows[p][f], Settled(p, f))
  BY <1>1, SettledRests DEF Settled, Writers
<1>3. Rests(toEngined', p, f, keyRows[p][f], Settled(p, f)')
  BY <1>1, SettledRests DEF Settled, Writers
<1>4. Rests(toEngined', p, f, keyRows[p][f], IF Writes(m, p, f) THEN m[f] ELSE Settled(p, f))
  BY <1>1, <1>2, RestsAppend
<1> QED BY <1>1, <1>3, <1>4, RestsOnce

\* ... and that handling one does nothing to it.
LEMMA SettledTail ==
  ASSUME CredTypes, NEW p \in Profiles, NEW f \in Columns, toEngined # <<>>, toEngined' = Tail(toEngined),
         keyRows'[p][f] = IF Writes(Head(toEngined), p, f) THEN Head(toEngined)[f] ELSE keyRows[p][f]
  PROVE  Settled(p, f)' = Settled(p, f)
<1>1. toEngined \in Seq(ToEnginedRecs) /\ toEngined' \in Seq(ToEnginedRecs)
  BY Taken DEF CredTypes
<1>2. Rests(toEngined, p, f, keyRows[p][f], Settled(p, f))
  BY <1>1, SettledRests DEF Settled, Writers
<1>3. Rests(toEngined', p, f, keyRows'[p][f], Settled(p, f)')
  BY <1>1, SettledRests DEF Settled, Writers
<1>4. Rests(toEngined', p, f, keyRows'[p][f], Settled(p, f))
  BY <1>1, <1>2, RestsTail
<1> QED BY <1>1, <1>3, <1>4, RestsOnce

\* What is stored, or will be, is a number, and no account is lost.
LEMMA SettledTyped ==
  ASSUME CredTypes, NEW p \in Profiles, NEW f \in Columns
  PROVE  Settled(p, f) \in Nat /\ (keyRows[p][f] # 0 => Settled(p, f) # 0)
<1>1. toEngined \in Seq(ToEnginedRecs) /\ keyRows[p] \in RowRecs
  BY DEF CredTypes
<1>2. Rests(toEngined, p, f, keyRows[p][f], Settled(p, f))
  BY <1>1, SettledRests DEF Settled, Writers
<1>3. keyRows[p][f] \in Nat
  BY <1>1 DEF RowRecs, Columns
<1>4. \A i \in 1..Len(toEngined) : Writes(toEngined[i], p, f) => toEngined[i][f] \in Nat \ {0}
  <2> SUFFICES ASSUME NEW m \in ToEnginedRecs, Writes(m, p, f) PROVE m[f] \in Nat \ {0}
    BY <1>1
  <2>1. m \in UpdateRecs
    BY DEF Writes, ToEnginedRecs, SaseKeyRecs, AskStateRecs
  <2> QED BY <2>1 DEF Writes, UpdateRecs, Columns
<1> QED BY <1>2, <1>3, <1>4 DEF Rests

-----------------------------------------------------------------------------
(* The caches against the store.                                           *)

\* A snapshot on its way fills no cache from an empty column: columns are not emptied.
SnapshotsStored ==
  \A i \in 1..Len(toCollectord) : toCollectord[i].kind = "state" =>
    \A p \in Profiles, f \in Columns : toCollectord[i].rows[p][f] # 0 => keyRows[p][f] # 0

CredDurable == SnapshotsStored /\ CacheIsDurable

\* What a column holds it never loses.
RowsStay == \A p \in Profiles, f \in Columns : keyRows[p][f] # 0 => keyRows'[p][f] # 0

\* A step after which there are no snapshots but those there were.
LEMMA SnapshotsStay ==
  ASSUME CredTypes, SnapshotsStored, RowsStay,
         \/ toCollectord' = toCollectord
         \/ toCollectord # <<>> /\ toCollectord' = Tail(toCollectord)
         \/ \E m \in AskRecs : toCollectord' = Append(toCollectord, m)
         \/ toCollectord' \in Cut(toCollectord)
  PROVE  SnapshotsStored'
<1>0. toCollectord \in Seq(ToCollectordRecs)
  BY DEF CredTypes
<1>1. \A i \in 1..Len(toCollectord') : toCollectord'[i].kind = "state" =>
        \E k \in 1..Len(toCollectord) : toCollectord'[i] = toCollectord[k]
  <2>1. CASE toCollectord' = toCollectord BY <2>1
  <2>2. CASE toCollectord # <<>> /\ toCollectord' = Tail(toCollectord)
    BY <1>0, <2>2, Taken
  <2>3. ASSUME NEW m \in AskRecs, toCollectord' = Append(toCollectord, m)
        PROVE  \A i \in 1..Len(toCollectord') : toCollectord'[i].kind = "state" =>
                 \E k \in 1..Len(toCollectord) : toCollectord'[i] = toCollectord[k]
    <3>1. m \in ToCollectordRecs /\ m.kind # "state"
      BY DEF ToCollectordRecs, AskRecs, Kinds
    <3> QED BY <1>0, <2>3, <3>1, Appended
  <2>4. CASE toCollectord' \in Cut(toCollectord)
    <3>1. PICK d \in Nat : \A i \in 1..Len(toCollectord') :
            i + d \in 1..Len(toCollectord) /\ toCollectord'[i] = toCollectord[i + d]
      BY <1>0, <2>4, CutWithin
    <3> QED BY <3>1
  <2> QED BY <2>1, <2>2, <2>3, <2>4
<1> QED BY <1>1 DEF SnapshotsStored, RowsStay

\* A step that sends engined at most an update and stores nothing: what the caches get is
\* what the update carries.
LEMMA DurableSends ==
  ASSUME CredTypes, CacheIsDurable, keyRows' = keyRows, UNCHANGED <<available, dropped>>,
         \/ Silent \/ TenantKey \/ AccountStored
         \/ \E p \in Profiles, k \in Nat : Outcome(p, k)
  PROVE  CacheIsDurable'
<1> SUFFICES ASSUME available, ~dropped, NEW p \in Profiles
             PROVE  /\ issuedKeys'[p] # 0 => Settled(p, "key")' # 0
                    /\ saseAccounts'[p] # 0 => Settled(p, "account")' # 0
  BY DEF CacheIsDurable
<1>1. /\ issuedKeys[p] # 0 => Settled(p, "key") # 0
      /\ saseAccounts[p] # 0 => Settled(p, "account") # 0
  BY DEF CacheIsDurable
<1>2. issuedKeys \in [Oids -> Nat] /\ saseAccounts \in [Profiles -> Nat] /\ p \in Oids
  BY DEF CredTypes, Oids
<1>3. ASSUME NEW m \in UpdateRecs \cup SaseKeyRecs, toEngined' = Append(toEngined, m)
      PROVE  /\ Settled(p, "key")' = IF Writes(m, p, "key") THEN m["key"] ELSE Settled(p, "key")
             /\ Settled(p, "account")' = IF Writes(m, p, "account") THEN m["account"] ELSE Settled(p, "account")
  <2>1. m \in ToEnginedRecs /\ "key" \in Columns /\ "account" \in Columns
    BY DEF ToEnginedRecs, Columns
  <2> QED BY <1>3, <2>1, SettledAppend
<1>4. CASE Silent
  <2>1. Settled(p, "key")' = Settled(p, "key") /\ Settled(p, "account")' = Settled(p, "account")
    BY <1>4 DEF Silent, Settled, Writers
  <2> QED BY <1>1, <1>4, <2>1 DEF Silent
<1>5. CASE TenantKey
  <2>1. PICK m \in SaseKeyRecs : toEngined' = Append(toEngined, m)
    BY <1>5 DEF TenantKey
  <2>2. UNCHANGED <<issuedKeys, saseAccounts>>
    BY <1>5 DEF TenantKey
  <2> QED BY <1>1, <1>3, <2>1, <2>2 DEF Writes
<1>6. CASE AccountStored
  <2>1. PICK m \in UpdateRecs : /\ m.key = 0 /\ m.account # 0 /\ toEngined' = Append(toEngined, m)
                                /\ issuedKeys' = issuedKeys
                                /\ saseAccounts' = [saseAccounts EXCEPT ![m.oid] = m.account]
    BY <1>6 DEF AccountStored
  <2>2. m.kind = "update" /\ (p # m.oid => saseAccounts'[p] = saseAccounts[p])
    BY <1>2, <2>1 DEF UpdateRecs
  <2> QED BY <1>1, <1>3, <2>1, <2>2 DEF Writes
<1>7. ASSUME NEW r \in Profiles, NEW k \in Nat, Outcome(r, k)
      PROVE  /\ issuedKeys'[p] # 0 => Settled(p, "key")' # 0
             /\ saseAccounts'[p] # 0 => Settled(p, "account")' # 0
  <2>1. PICK m \in UpdateRecs : m.oid = r /\ m.key = k /\ toEngined' = Append(toEngined, m)
    BY <1>7 DEF Outcome
  <2>2. m.kind = "update" /\ saseAccounts' = saseAccounts
    BY <1>7 DEF Outcome, UpdateRecs
  <2>3. issuedKeys'[p] = IF k # 0 /\ p = r THEN k ELSE issuedKeys[p]
    BY <1>2, <1>7 DEF Outcome
  <2> QED BY <1>1, <1>3, <2>1, <2>2, <2>3 DEF Writes
<1> QED BY <1>4, <1>5, <1>6, <1>7

\* A step that leaves the caches and the store alone.
LEMMA DurableFrame ==
  ASSUME CacheIsDurable, UNCHANGED <<issuedKeys, saseAccounts, toEngined, keyRows, available, dropped>>
  PROVE  CacheIsDurable'
BY DEF CacheIsDurable, Settled, Writers

\* cacheKeys: what a snapshot holds is stored.
LEMMA DurableRefilled ==
  ASSUME CredTypes, SnapshotsStored, toCollectord # <<>>, Restored(Head(toCollectord)), keyRows' = keyRows
  PROVE  CacheIsDurable'
<1>1. PICK m \in StateRecs : m = Head(toCollectord) /\ Refilled(m)
  BY DEF Restored
<1>2. \A p \in Profiles, f \in Columns : m.rows[p][f] # 0 => keyRows[p][f] # 0
  <2>1. m = toCollectord[1] /\ 1 \in 1..Len(toCollectord) /\ m.kind = "state"
    BY <1>1, Taken DEF CredTypes, StateRecs
  <2> QED BY <2>1 DEF SnapshotsStored
<1>3. ASSUME NEW p \in Profiles
      PROVE  /\ issuedKeys'[p] # 0 => Settled(p, "key")' # 0
             /\ saseAccounts'[p] # 0 => Settled(p, "account")' # 0
  <2>1. /\ keyRows[p]["key"] # 0 => Settled(p, "key") # 0
        /\ keyRows[p]["account"] # 0 => Settled(p, "account") # 0
    BY SettledTyped DEF Columns
  <2>2. Settled(p, "key")' = Settled(p, "key") /\ Settled(p, "account")' = Settled(p, "account")
    BY <1>1 DEF Refilled, Settled, Writers
  <2>3. /\ issuedKeys'[p] # 0 => m.rows[p]["key"] # 0
        /\ saseAccounts'[p] # 0 => m.rows[p]["account"] # 0
    BY <1>1 DEF Refilled, Seal, Oids
  <2> QED BY <1>2, <2>1, <2>2, <2>3 DEF Columns
<1> QED BY <1>3 DEF CacheIsDurable

\* engined handles a frame: an update it does not store is one that was dropped.
LEMMA DurableHandled ==
  ASSUME CredTypes, CredDurable, EnginedHandle
  PROVE  CredDurable'
<1>1. /\ toEngined # <<>> /\ toEngined' = Tail(toEngined)
      /\ UNCHANGED <<issuedKeys, saseAccounts, available>>
  BY Handles
<1>2. PICK m \in ToEnginedRecs : m = Head(toEngined)
  BY <1>1, Taken DEF CredTypes
<1>3. PICK up \in BOOLEAN :
        /\ dropped' = (dropped \/ (~up /\ m.kind = "update"))
        /\ \/ /\ m \in AskStateRecs
              /\ toCollectord' = Append(toCollectord, Snapshot(up)) /\ keyRows' = keyRows
           \/ /\ m \in UpdateRecs
              /\ keyRows' = IF up THEN [keyRows EXCEPT ![m.oid] = StoreState(@, m)] ELSE keyRows
              /\ toCollectord' = toCollectord
           \/ /\ m \in SaseKeyRecs
              /\ toCollectord' = toCollectord /\ keyRows' = keyRows
  BY <1>2, Handles
<1>4. keyRows \in [Profiles -> RowRecs]
  BY DEF CredTypes
<1>5. m.kind = "update" <=> m \in UpdateRecs
  BY DEF ToEnginedRecs, UpdateRecs, SaseKeyRecs, AskStateRecs
<1>6. m \in UpdateRecs => m \notin AskStateRecs /\ m \notin SaseKeyRecs
  BY DEF AskStateRecs, UpdateRecs, SaseKeyRecs
<1>7. ASSUME NEW p \in Profiles, NEW f \in Columns
      PROVE  /\ up \/ m \notin UpdateRecs =>
                  keyRows'[p][f] = IF Writes(m, p, f) THEN m[f] ELSE keyRows[p][f]
             /\ ~up => keyRows'[p][f] = keyRows[p][f]
  <2>1. CASE m \in UpdateRecs
    BY <1>3, <1>4, <1>6, <2>1 DEF StoreState, Coalesce, Writes, Columns, UpdateRecs
  <2>2. CASE m \notin UpdateRecs
    <3>1. keyRows' = keyRows /\ ~Writes(m, p, f)
      BY <1>3, <1>5, <2>2 DEF Writes
    <3> QED BY <3>1
  <2> QED BY <2>1, <2>2
<1>8. RowsStay
  BY <1>7 DEF RowsStay, Writes
<1>9. SnapshotsStored'
  <2>1. CASE toCollectord' = toCollectord
    BY <1>8, <2>1, SnapshotsStay DEF CredDurable
  <2>2. CASE toCollectord' = Append(toCollectord, Snapshot(up)) /\ keyRows' = keyRows
    <3>1. PICK x \in StateRecs : x = Snapshot(up)
      BY SnapshotTyped
    <3>2. \A p \in Profiles, f \in Columns : x.rows[p][f] # 0 => keyRows[p][f] # 0
      BY <3>1 DEF Snapshot, Columns
    <3>3. x \in ToCollectordRecs /\ toCollectord \in Seq(ToCollectordRecs)
      BY DEF ToCollectordRecs, CredTypes
    <3>4. toCollectord' = Append(toCollectord, x) /\ keyRows' = keyRows
      BY <2>2, <3>1
    <3> QED BY <3>2, <3>3, <3>4, Appended DEF CredDurable, SnapshotsStored
  <2> QED BY <1>3, <2>1, <2>2
<1>10. CacheIsDurable'
  <2>1. CASE ~up /\ m \in UpdateRecs
    BY <1>3, <1>5, <2>1 DEF CacheIsDurable
  <2>2. CASE up \/ m \notin UpdateRecs
    <3> SUFFICES ASSUME available, ~dropped, NEW p \in Profiles
                 PROVE  /\ issuedKeys'[p] # 0 => Settled(p, "key")' # 0
                        /\ saseAccounts'[p] # 0 => Settled(p, "account")' # 0
      BY <1>1, <1>3 DEF CacheIsDurable
    <3>1. /\ issuedKeys[p] # 0 => Settled(p, "key") # 0
          /\ saseAccounts[p] # 0 => Settled(p, "account") # 0
      BY DEF CredDurable, CacheIsDurable
    <3>2. Settled(p, "key")' = Settled(p, "key") /\ Settled(p, "account")' = Settled(p, "account")
      BY <1>1, <1>2, <1>7, <2>2, SettledTail DEF Columns
    <3> QED BY <1>1, <3>1, <3>2
  <2> QED BY <2>1, <2>2
<1> QED BY <1>9, <1>10 DEF CredDurable

\* Every step keeps the caches covered by the store.
LEMMA CredDurableStep == CredTypes /\ CredDurable /\ [CredNext]_credVars => CredDurable'
<1> SUFFICES ASSUME CredTypes, CredDurable, [CredNext]_credVars PROVE CredDurable'
  OBVIOUS
<1>0. keyRows' = keyRows => RowsStay
  BY DEF RowsStay
<1>1. ASSUME UNCHANGED <<keyRows, issuedKeys, saseAccounts, toEngined, available, dropped>>,
             \/ toCollectord' = toCollectord
             \/ \E m \in AskRecs : toCollectord' = Append(toCollectord, m)
      PROVE  CredDurable'
  BY <1>0, <1>1, SnapshotsStay, DurableFrame DEF CredDurable
<1>2. ASSUME NEW r \in ConnectorTests, SendConnectorTest(r) PROVE CredDurable'
  <2>1. PICK m : m = [r EXCEPT !.seqNo = nextTicket]
    OBVIOUS
  <2>2. m \in AskRecs
    <3>1. nextTicket \in Nat \ {0}
      BY DEF CredTypes
    <3> QED BY <1>2, <2>1, <3>1, PasswordNumbers
            DEF SendConnectorTest, ConnectorTests, ConnectorTestInputOk, AskRecs
  <2> QED BY <1>1, <1>2, <2>1, <2>2 DEF SendConnectorTest
<1>3. CASE OnTestResponse BY <1>1, <1>3 DEF OnTestResponse
<1>4. ASSUME NEW t \in results, TestResult(t) PROVE CredDurable'
  BY <1>1, <1>4 DEF TestResult
<1>5. CASE Route
  <2>1. /\ toCollectord # <<>> /\ toCollectord' = Tail(toCollectord)
        /\ UNCHANGED <<keyRows, available, dropped>>
        /\ Asked(Head(toCollectord)) \/ Restored(Head(toCollectord))
    BY <1>5, Routed
  <2>2. SnapshotsStored'
    BY <1>0, <2>1, SnapshotsStay DEF CredDurable
  <2>3. CASE Asked(Head(toCollectord))
    <3>1. \A p \in Profiles : issuedKeys[p] \in Nat
      BY DEF CredTypes, Oids
    <3>2. \/ Silent \/ TenantKey \/ AccountStored
          \/ \E p \in Profiles, k \in Nat : Outcome(p, k)
      BY <2>3, <3>1 DEF Asked
    <3> QED BY <2>1, <2>2, <3>2, DurableSends DEF CredDurable
  <2>4. CASE Restored(Head(toCollectord))
    BY <2>1, <2>2, <2>4, DurableRefilled DEF CredDurable
  <2> QED BY <2>1, <2>3, <2>4
<1>6. CASE Setup
  <2>1. [kind |-> "stateRequest"] \in ToEnginedRecs
    BY DEF ToEnginedRecs, AskStateRecs
  <2>2. PICK m \in ToEnginedRecs : m.kind = "stateRequest" /\ toEngined' = Append(toEngined, m)
    BY <1>6, <2>1 DEF Setup
  <2>3. UNCHANGED <<keyRows, issuedKeys, saseAccounts, available, dropped, toCollectord>>
    BY <1>6 DEF Setup
  <2>4. \A p \in Profiles, f \in Columns : Settled(p, f)' = Settled(p, f)
    BY <2>2, <2>3, SettledAppend DEF Writes
  <2> QED BY <1>0, <2>3, <2>4, SnapshotsStay DEF CredDurable, CacheIsDurable, Columns
<1>7. ASSUME NEW p \in AutoProfiles, AutoRefreshTick(p) PROVE CredDurable'
  <2>1. Silent /\ UNCHANGED <<toCollectord, keyRows, available, dropped>>
    BY <1>7, Refreshed
  <2> QED BY <1>1, <2>1 DEF Silent
<1>8. ASSUME NEW c \in credCalls, Complete(c) PROVE CredDurable'
  <2>1. /\ UNCHANGED <<toCollectord, keyRows, available, dropped>>
        /\ \/ Silent \/ TenantKey
           \/ c.oid \in Profiles /\ Outcome(c.oid, 0)
           \/ c.oid \in Profiles /\ Outcome(c.oid, issuedCount + 1)
    BY <1>8, Completed
  <2>2. issuedCount + 1 \in Nat /\ 0 \in Nat
    BY DEF CredTypes
  <2>3. CacheIsDurable'
    BY <2>1, <2>2, DurableSends DEF CredDurable
  <2> QED BY <1>0, <2>1, <2>3, SnapshotsStay DEF CredDurable
<1>9. CASE CollectordRestart
  <2>1. \A p \in Profiles : issuedKeys'[p] = 0 /\ saseAccounts'[p] = 0
    BY <1>9 DEF CollectordRestart, Oids
  <2>2. toCollectord' = <<>>
    BY <1>9 DEF CollectordRestart
  <2> QED BY <2>1, <2>2 DEF CredDurable, CacheIsDurable, SnapshotsStored
<1>10. CASE FramesRefused
  <2>1. /\ UNCHANGED <<keyRows, issuedKeys, saseAccounts, available>> /\ toCollectord' \in Cut(toCollectord)
        /\ dropped' = (dropped \/ toEngined' # toEngined)
    BY <1>10 DEF FramesRefused
  <2>2. SnapshotsStored'
    BY <1>0, <2>1, SnapshotsStay DEF CredDurable
  <2>3. CacheIsDurable'
    <3>1. CASE toEngined' # toEngined BY <2>1, <3>1 DEF CacheIsDurable
    <3>2. CASE toEngined' = toEngined
      <4>1. dropped' = dropped
        BY <2>1, <3>2 DEF CredTypes
      <4> QED BY <2>1, <3>2, <4>1, DurableFrame DEF CredDurable
    <3> QED BY <3>1, <3>2
  <2> QED BY <2>2, <2>3 DEF CredDurable
<1>11. CASE EnginedHandle BY <1>11, DurableHandled
<1>12. CASE UNCHANGED credVars BY <1>1, <1>12 DEF credVars
<1> QED BY <1>2, <1>3, <1>4, <1>5, <1>6, <1>7, <1>8, <1>9, <1>10, <1>11, <1>12 DEF CredNext

\* At the start the caches are empty.
LEMMA CredDurableStarts == CredInit => CredDurable
BY DEF CredInit, CredDurable, CacheIsDurable, SnapshotsStored, Oids

\* Through restarts and whatever they lose, collectord holds no key and no account that the
\* store will not have, unless an update was dropped.
THEOREM CacheIsDurableAlways == CredSpec => []CacheIsDurable
<1>1. CredInit => CredTypes /\ CredDurable
  BY CredStarts, CredDurableStarts
<1>2. CredTypes /\ CredDurable /\ [CredNext]_credVars => (CredTypes /\ CredDurable)'
  BY CredTypesStep, CredDurableStep
<1>3. CredDurable => CacheIsDurable
  BY DEF CredDurable
<1> QED BY <1>1, <1>2, <1>3, PTL DEF CredSpec

-----------------------------------------------------------------------------
(* Collection: the newest of a stream, and pages of the table.             *)

\* A non-empty set of positions has a first one.
LEMMA FirstExists ==
  ASSUME NEW n \in Nat, NEW S \in SUBSET (1..n), S # {}
  PROVE  \E i \in S : \A j \in S : i <= j
<1> DEFINE T == {(n + 1) - x : x \in S}
<1>1. T \in SUBSET (1..n) /\ T # {}
  <2>1. \A x \in 1..n : (n + 1) - x \in 1..n
    OBVIOUS
  <2>2. \A x \in S : x \in 1..n
    OBVIOUS
  <2> QED BY <2>1, <2>2
<1>2. PICK t \in T : \A u \in T : u <= t
  <2> HIDE DEF T
  <2> QED BY <1>1, LastExists
<1>3. PICK i \in S : t = (n + 1) - i
  OBVIOUS
<1>4. \A j \in S : (n + 1) - j <= (n + 1) - i
  BY <1>2, <1>3
<1>5. \A j \in S : j \in Int /\ i \in Int
  OBVIOUS
<1> QED BY <1>4, <1>5

\* The members of S from x on.
From(S, x) == {y \in S : y >= x}

\* The b newest of a set of positions: whatever is younger than one of them is among them,
\* and they are b when any is left out.
LEMMA NewestOnes ==
  ASSUME NEW n \in Nat, NEW S \in SUBSET (1..n), NEW b \in Nat \ {0}, NEW P,
         P \in SUBSET S, \A x \in S : x \in P <=> Cardinality(From(S, x)) <= b
  PROVE  /\ IsFiniteSet(P) /\ Cardinality(P) \in Nat
         /\ \A x \in P, y \in S : y >= x => y \in P
         /\ \A x \in S \ P, p \in P : p > x
         /\ P # S => Cardinality(P) = b
<1> DEFINE Up(x) == From(S, x)
<1>0. \A x \in S : x \in Nat
  OBVIOUS
<1>1. \A U \in SUBSET S : /\ IsFiniteSet(U) /\ Cardinality(U) \in Nat
                          /\ \A T \in SUBSET U : Cardinality(T) <= Cardinality(U)
  <2>1. IsFiniteSet(S)
    <3>1. IsFiniteSet(1..n)
      BY FS_Interval
    <3> QED BY <3>1, FS_Subset
  <2> QED BY <2>1, FS_Subset, FS_CardinalityType
<1>2. \A x : Up(x) \in SUBSET S
  BY DEF From
<1>3. P \in SUBSET S /\ \A x \in S : x \in P <=> Cardinality(Up(x)) <= b
  OBVIOUS
<1>4. \A x, y \in S : y >= x => Up(y) \in SUBSET Up(x)
  <2>1. \A x, y, z \in Nat : y >= x /\ z >= y => z >= x
    OBVIOUS
  <2> QED BY <1>0, <2>1 DEF From
<1> HIDE DEF Up
<1>5. \A x \in P, y \in S : y >= x => y \in P
  <2> SUFFICES ASSUME NEW x \in P, NEW y \in S, y >= x PROVE y \in P
    OBVIOUS
  <2>1. Cardinality(Up(y)) <= Cardinality(Up(x)) /\ Cardinality(Up(x)) <= b
    BY <1>1, <1>2, <1>3, <1>4
  <2>2. Cardinality(Up(y)) \in Nat /\ Cardinality(Up(x)) \in Nat
    BY <1>1, <1>2
  <2>3. Cardinality(Up(y)) <= b
    BY <2>1, <2>2
  <2> QED BY <1>3, <2>3
<1>6. \A x \in S \ P, p \in P : p > x
  BY <1>0, <1>3, <1>5
<1>7. ASSUME P # S PROVE Cardinality(P) = b
  <2>1. S \ P \in SUBSET (1..n) /\ S \ P # {}
    BY <1>3, <1>7
  <2>2. PICK x \in S \ P : \A j \in S \ P : j <= x
    BY <2>1, LastExists
  <2>3. Cardinality(Up(x)) > b /\ Cardinality(Up(x)) \in Nat
    BY <1>1, <1>2, <1>3
  <2>4. P = Up(x) \ {x} /\ x \in Up(x)
    <3>1. \A j, k \in Nat : (j >= j) /\ (j > k => j >= k) /\ (j >= k /\ j <= k => j = k) /\ ~(j > j)
      OBVIOUS
    <3>2. \A y \in P : y \in S /\ y >= x /\ y # x
      BY <1>0, <1>3, <1>6, <3>1
    <3>3. \A y \in S : y >= x /\ y # x => y \in P
      BY <1>0, <2>2, <3>1
    <3>4. x \in S /\ x >= x
      BY <1>0, <3>1
    <3> QED BY <3>2, <3>3, <3>4 DEF Up, From
  <2>5. Cardinality(P) = Cardinality(Up(x)) - 1
    BY <1>1, <1>2, <2>4, FS_RemoveElement
  <2>6. Cardinality(P) >= b /\ Cardinality(P) \in Nat
    BY <2>3, <2>5
  <2>7. P # {}
    <3>1. Cardinality({}) = 0
      BY FS_EmptySet
    <3>2. Cardinality(P) # 0
      BY <2>6
    <3> QED BY <3>1, <3>2
  <2>8. PICK m \in P : \A j \in P : m <= j
    BY <1>3, <2>7, FirstExists
  <2>9. P \in SUBSET Up(m)
    BY <1>0, <1>3, <2>8 DEF Up, From
  <2>10. Cardinality(P) <= Cardinality(Up(m)) /\ Cardinality(Up(m)) <= b /\ Cardinality(Up(m)) \in Nat
    BY <1>1, <1>2, <1>3, <2>9
  <2> HIDE DEF Up
  <2>11. \A c, d \in Nat : c >= b /\ c <= d /\ d <= b => c = b
    OBVIOUS
  <2> QED BY <2>6, <2>10, <2>11
<1> QED BY <1>1, <1>3, <1>5, <1>6, <1>7

-----------------------------------------------------------------------------
(* The bodies that are kept.                                               *)

\* The bodies of the stream of row i that are newer than it.
NewerBodies(rs, i) ==
  {k \in DOMAIN rs : /\ k > i /\ rs[k].stream = rs[i].stream /\ rs[k].body = "kept"}

\* NewestBodyKept of a table rs.
BodiesKept(rs) ==
  \A i \in DOMAIN rs : rs[i].body = "aged" => Cardinality(NewerBodies(rs, i)) >= BodiesPerStream

\* What collectord sends, and what a row is.
SampleRecs == [stream : {streamKey(j) : j \in AllJobs}, ok : BOOLEAN, body : {"empty", "kept"}]
SampleRows == [stream : {streamKey(j) : j \in AllJobs}, ok : BOOLEAN, body : {"empty", "kept", "aged"}]

\* A table whose oids are among 1..n.
Numbered(rs, n) == DOMAIN rs \in SUBSET (1..n) /\ \A o \in DOMAIN rs : rs[o] \in SampleRows

\* Sets of oids are finite.
LEMMA OidsFinite ==
  ASSUME NEW n \in Nat, NEW U \in SUBSET (1..n)
  PROVE  /\ IsFiniteSet(U) /\ Cardinality(U) \in Nat
         /\ \A T \in SUBSET U : Cardinality(T) \in Nat /\ Cardinality(T) <= Cardinality(U)
<1>1. IsFiniteSet(1..n)
  BY FS_Interval
<1>2. IsFiniteSet(U)
  BY <1>1, FS_Subset
<1> QED BY <1>2, FS_Subset, FS_CardinalityType

\* An insert.
LEMMA InsertKeeps ==
  ASSUME NEW n \in Nat, NEW rs, Numbered(rs, n), BodiesKept(rs), NEW row \in SampleRows, row.body # "aged", NEW ins,
         ins = [o \in DOMAIN rs \cup {n + 1} |-> IF o = n + 1 THEN row ELSE rs[o]]
  PROVE  Numbered(ins, n + 1) /\ BodiesKept(ins)
<1>1. DOMAIN ins = DOMAIN rs \cup {n + 1} /\ Numbered(ins, n + 1)
  BY DEF Numbered
<1>2. \A o \in DOMAIN rs : o # n + 1 /\ ins[o] = rs[o]
  BY DEF Numbered
<1>3. ins[n + 1] = row
  OBVIOUS
<1>4. ASSUME NEW i \in DOMAIN ins, ins[i].body = "aged"
      PROVE  Cardinality(NewerBodies(ins, i)) >= BodiesPerStream
  <2>1. i \in DOMAIN rs /\ rs[i].body = "aged"
    BY <1>1, <1>2, <1>3, <1>4
  <2>2. NewerBodies(rs, i) \in SUBSET NewerBodies(ins, i)
    BY <1>1, <1>2, <2>1 DEF NewerBodies
  <2>3. NewerBodies(ins, i) \in SUBSET (1..(n + 1)) /\ n + 1 \in Nat
    BY <1>1 DEF NewerBodies, Numbered
  <2>4. /\ Cardinality(NewerBodies(rs, i)) \in Nat /\ Cardinality(NewerBodies(ins, i)) \in Nat
        /\ Cardinality(NewerBodies(rs, i)) <= Cardinality(NewerBodies(ins, i))
    BY <2>2, <2>3, OidsFinite
  <2>5. Cardinality(NewerBodies(rs, i)) >= BodiesPerStream
    BY <2>1 DEF BodiesKept
  <2>6. \A a, b, c \in Nat : a >= b /\ a <= c => c >= b
    OBVIOUS
  <2> QED BY <2>4, <2>5, <2>6, CollectionAssumption
<1> QED BY <1>1, <1>4 DEF BodiesKept

\* The oldest rows go.
LEMMA RetainedKeeps ==
  ASSUME NEW n \in Nat, NEW m \in Nat, NEW rs, Numbered(rs, n), BodiesKept(rs)
  PROVE  /\ Numbered(Retained(rs, m), n) /\ BodiesKept(Retained(rs, m))
         /\ \A o \in DOMAIN Retained(rs, m) : o \in DOMAIN rs /\ Retained(rs, m)[o] = rs[o]
<1>1. PICK ret : ret = Retained(rs, m)
  OBVIOUS
<1>2. DOMAIN ret = {k \in DOMAIN rs : k > m} /\ \A o \in DOMAIN ret : ret[o] = rs[o]
  BY <1>1 DEF Retained
<1>3. Numbered(ret, n)
  BY <1>2 DEF Numbered
<1>4. ASSUME NEW i \in DOMAIN ret PROVE NewerBodies(ret, i) = NewerBodies(rs, i)
  <2>1. \A k \in DOMAIN rs : k > i => k \in DOMAIN ret
    BY <1>2 DEF Numbered
  <2> QED BY <1>2, <1>4, <2>1 DEF NewerBodies
<1>5. BodiesKept(ret)
  BY <1>2, <1>4 DEF BodiesKept
<1> QED BY <1>1, <1>2, <1>3, <1>5

\* The sweep releases bodies.
LEMMA AgedKeeps ==
  ASSUME NEW n \in Nat, NEW rs, Numbered(rs, n), BodiesKept(rs)
  PROVE  /\ Numbered(Aged(rs), n) /\ BodiesKept(Aged(rs))
         /\ DOMAIN Aged(rs) = DOMAIN rs /\ \A o \in DOMAIN rs : Aged(rs)[o].stream = rs[o].stream
<1>1. PICK new : new = Aged(rs)
  OBVIOUS
<1>2. /\ DOMAIN new = DOMAIN rs
      /\ \A o \in DOMAIN rs : new[o] = IF rs[o].body = "kept" /\ BodyRank(rs, o) > BodiesPerStream
                                       THEN [rs[o] EXCEPT !.body = "aged"] ELSE rs[o]
  BY <1>1 DEF Aged
<1>3. PICK B \in Nat \ {0} : B = BodiesPerStream
  BY CollectionAssumption
<1>4. ASSUME NEW r \in SampleRows, NEW e, e = [r EXCEPT !.body = "aged"]
      PROVE  e \in SampleRows /\ e.stream = r.stream
  BY <1>4 DEF SampleRows
<1>5. \A o \in DOMAIN rs : new[o] \in SampleRows /\ new[o].stream = rs[o].stream
  BY <1>2, <1>4 DEF Numbered
<1>6. Numbered(new, n)
  BY <1>2, <1>5 DEF Numbered
<1>7. ASSUME NEW i \in DOMAIN rs, new[i].body = "aged"
      PROVE  Cardinality(NewerBodies(new, i)) >= BodiesPerStream
  <2> DEFINE S == {k \in DOMAIN rs : rs[k].body = "kept" /\ rs[k].stream = rs[i].stream}
             P == {x \in S : Cardinality(From(S, x)) <= B}
             Later(Q) == {k \in Q : k > i}
  <2>1. S \in SUBSET (1..n) /\ \A x \in DOMAIN rs : x \in Nat
    BY DEF Numbered
  <2>2. \A x \in S : BodyRank(rs, x) = Cardinality(From(S, x))
    <3> SUFFICES ASSUME NEW x \in S PROVE BodyRank(rs, x) = Cardinality(From(S, x))
      OBVIOUS
    <3>1. {k \in DOMAIN rs : k >= x /\ rs[k].body = "kept" /\ rs[k].stream = rs[x].stream}
            = From(S, x)
      BY DEF From
    <3> QED BY <3>1 DEF BodyRank
  <2>3. /\ IsFiniteSet(P) /\ Cardinality(P) \in Nat
        /\ \A x \in P, y \in S : y >= x => y \in P
        /\ \A x \in S \ P, p \in P : p > x
        /\ P # S => Cardinality(P) = B
    <3>1. P \in SUBSET S /\ \A x \in S : x \in P <=> Cardinality(From(S, x)) <= B
      OBVIOUS
    <3> HIDE DEF S, P
    <3> QED BY <2>1, <3>1, NewestOnes
  <2>4. Later(P) \in SUBSET NewerBodies(new, i)
    <3> SUFFICES ASSUME NEW x \in P, x > i PROVE x \in NewerBodies(new, i)
      OBVIOUS
    <3>1. x \in S /\ Cardinality(From(S, x)) <= B /\ Cardinality(From(S, x)) \in Nat
      <4>1. From(S, x) \in SUBSET (1..n)
        BY <2>1 DEF From
      <4>2. x \in S /\ Cardinality(From(S, x)) <= B
        OBVIOUS
      <4> HIDE DEF S
      <4>3. Cardinality(From(S, x)) \in Nat
        BY <4>1, OidsFinite
      <4> QED BY <4>2, <4>3
    <3>2. ~(BodyRank(rs, x) > BodiesPerStream)
      BY <1>3, <2>2, <3>1
    <3>3. new[x] = rs[x] /\ rs[x].body = "kept" /\ rs[x].stream = rs[i].stream /\ x \in DOMAIN rs
      BY <1>2, <3>1, <3>2
    <3> QED BY <1>2, <1>5, <3>3 DEF NewerBodies
  <2>5. Cardinality(Later(P)) >= B
    <3>1. CASE rs[i].body = "aged"
      <4>1. Later(S) = NewerBodies(rs, i)
        BY DEF NewerBodies
      <4>2. Cardinality(Later(S)) >= B
        BY <1>3, <3>1, <4>1 DEF BodiesKept
      <4>3. CASE P = S
        BY <4>2, <4>3
      <4>4. CASE P # S
        <5>1. i \notin S
          BY <3>1
        <5>2. ASSUME NEW p \in P, ~(p > i) PROVE FALSE
          <6> DEFINE Up == From(S, p)
          <6>1. Cardinality(Up) <= B /\ p \in S
            BY <5>2
          <6>2. Up \in SUBSET (1..n) /\ p \in Up /\ i \in Nat /\ p \in Nat
            BY <2>1, <6>1 DEF From
          <6>3. Later(S) \in SUBSET (Up \ {p})
            <7>1. \A y \in Nat : y > i => y >= p /\ y # p
              BY <5>2, <6>2
            <7> QED BY <2>1, <7>1 DEF From
          <6> HIDE DEF Up, S, P
          <6>4. IsFiniteSet(Up) /\ Cardinality(Up) \in Nat
            BY <6>2, OidsFinite
          <6>5. IsFiniteSet(Up \ {p}) /\ Cardinality(Up \ {p}) = Cardinality(Up) - 1
            BY <6>2, <6>4, FS_RemoveElement
          <6>6. /\ Cardinality(Later(S)) <= Cardinality(Up \ {p})
                /\ Cardinality(Later(S)) \in Nat
            <7>1. Up \ {p} \in SUBSET (1..n)
              BY <6>2
            <7> HIDE DEF Later
            <7> QED BY <6>3, <7>1, OidsFinite
          <6> HIDE DEF Later
          <6>7. \A a, c \in Nat : a >= B /\ a <= c - 1 /\ c <= B => FALSE
            OBVIOUS
          <6> QED BY <4>2, <6>1, <6>4, <6>5, <6>6, <6>7
        <5>3. Later(P) = P
          BY <5>2
        <5> HIDE DEF S, P, Later
        <5>4. Cardinality(P) = B /\ B >= B
          BY <2>3, <4>4
        <5> QED BY <5>3, <5>4
      <4> QED BY <4>3, <4>4
    <3>2. CASE rs[i].body # "aged"
      <4>1. rs[i].body = "kept" /\ BodyRank(rs, i) > BodiesPerStream
        BY <1>2, <1>7, <3>2
      <4>2. i \in S
        BY <4>1
      <4>3. Cardinality(From(S, i)) > B
        BY <1>3, <2>2, <4>1, <4>2
      <4>4. Cardinality(From(S, i)) \in Nat
        <5>1. From(S, i) \in SUBSET (1..n)
          BY <2>1 DEF From
        <5> HIDE DEF S
        <5> QED BY <5>1, OidsFinite
      <4>5. i \notin P
        BY <4>3, <4>4
      <4>6. Later(P) = P /\ P # S
        BY <2>3, <4>2, <4>5
      <4> HIDE DEF S, P, Later
      <4>7. Cardinality(P) = B /\ B >= B
        BY <2>3, <4>6
      <4> QED BY <4>6, <4>7
    <3> QED BY <3>1, <3>2
  <2>6. NewerBodies(new, i) \in SUBSET (1..n)
    BY <1>6 DEF NewerBodies, Numbered
  <2> HIDE DEF S, P, Later
  <2>7. /\ Cardinality(Later(P)) <= Cardinality(NewerBodies(new, i))
        /\ Cardinality(Later(P)) \in Nat /\ Cardinality(NewerBodies(new, i)) \in Nat
    BY <2>4, <2>6, OidsFinite
  <2>8. \A a, c \in Nat : a >= B /\ a <= c => c >= B
    OBVIOUS
  <2> QED BY <1>3, <2>5, <2>7, <2>8
<1>8. BodiesKept(new)
  BY <1>2, <1>7 DEF BodiesKept
<1> QED BY <1>1, <1>2, <1>5, <1>6, <1>8


-----------------------------------------------------------------------------
(* collectord: one wait or one call for each job.                          *)

\* The document is stored, its jobs are the jobs, and each has one activity.
ActInv ==
  /\ doc \in Documents /\ jobs = Jobs(doc)
  /\ timers \in [AllJobs -> Nat] /\ apiCalls \in [AllJobs -> Nat]
  /\ OneActivity

\* A document's jobs are among all the jobs.
LEMMA JobsKnown == \A d \in Documents : Jobs(d) \in SUBSET AllJobs
BY DEF AllJobs

\* Arming the timers of a document gives each of its jobs one wait and no call.
LEMMA ArmedOnce ==
  ASSUME NEW d \in Documents
  PROVE  /\ ArmAll(Jobs(d)) \in [AllJobs -> Nat] /\ [j \in AllJobs |-> 0] \in [AllJobs -> Nat]
         /\ \A j \in Jobs(d) : ArmAll(Jobs(d))[j] + [k \in AllJobs |-> 0][j] = 1
<1>1. \A j \in Jobs(d) : j \in AllJobs
  BY JobsKnown
<1>2. ArmAll(Jobs(d)) = [j \in AllJobs |-> IF j \in Jobs(d) THEN 1 ELSE 0]
  BY DEF ArmAll
<1>3. \A j \in Jobs(d) : ArmAll(Jobs(d))[j] = 1 /\ [k \in AllJobs |-> 0][j] = 0
  BY <1>1, <1>2
<1>4. ArmAll(Jobs(d)) \in [AllJobs -> Nat]
  BY <1>2
<1> QED BY <1>3, <1>4

\* Every job starts with its timer armed.
LEMMA ActStart == CollectionInit => ActInv
<1> SUFFICES ASSUME CollectionInit PROVE ActInv
  OBVIOUS
<1>1. doc \in Documents /\ jobs = Jobs(doc) /\ timers = ArmAll(jobs) /\ apiCalls = [j \in AllJobs |-> 0]
  BY DEF CollectionInit
<1> QED BY <1>1, ArmedOnce DEF ActInv, OneActivity

\* A timer or a call moves on: the job keeps one activity.
LEMMA ActMoves ==
  ASSUME ActInv, NEW j \in jobs, CollectOnce(j) \/ onResponse(j)
  PROVE  ActInv'
<1>1. j \in AllJobs /\ \A k \in jobs : k \in AllJobs
  BY JobsKnown DEF ActInv
<1>2. doc' = doc /\ jobs' = jobs
  BY DEF CollectOnce, onResponse
<1>3. \A k \in AllJobs : timers[k] \in Nat /\ apiCalls[k] \in Nat
  BY DEF ActInv
<1>4. timers[j] + apiCalls[j] = 1
  BY DEF ActInv, OneActivity
<1>5. PICK t, c \in {-1, 0, 1} : /\ t + c = 0 /\ timers[j] + t >= 0 /\ apiCalls[j] + c >= 0
                                 /\ timers' = [timers EXCEPT ![j] = @ + t]
                                 /\ apiCalls' = [apiCalls EXCEPT ![j] = @ + c]
  <2>1. timers[j] \in Nat /\ apiCalls[j] \in Nat
    BY <1>1, <1>3
  <2>2. CASE timers[j] > 0 /\ timers' = Fired(timers, j) /\ apiCalls' = [apiCalls EXCEPT ![j] = @ + 1]
    <3>1. timers' = [timers EXCEPT ![j] = @ + (-1)] /\ apiCalls' = [apiCalls EXCEPT ![j] = @ + 1]
      BY <1>1, <1>3, <2>2 DEF Fired, ActInv
    <3> QED BY <2>1, <2>2, <3>1
  <2>3. CASE timers[j] > 0 /\ timers' = armJob(Fired(timers, j), j) /\ apiCalls' = apiCalls
    <3>1. \A a \in Nat : (a - 1) + 1 = a + 0 /\ a = a + 0
      OBVIOUS
    <3>2. timers' = [timers EXCEPT ![j] = @ + 0] /\ apiCalls' = [apiCalls EXCEPT ![j] = @ + 0]
      BY <1>1, <1>3, <2>3, <3>1 DEF Fired, armJob, ActInv
    <3> QED BY <2>1, <3>2
  <2>4. CASE apiCalls[j] > 0 /\ timers' = armJob(timers, j) /\ apiCalls' = [apiCalls EXCEPT ![j] = @ - 1]
    <3>1. timers' = [timers EXCEPT ![j] = @ + 1] /\ apiCalls' = [apiCalls EXCEPT ![j] = @ + (-1)]
      BY <1>1, <1>3, <2>4 DEF armJob, ActInv
    <3>2. 1 + (-1) = 0 /\ timers[j] + 1 >= 0 /\ apiCalls[j] + (-1) >= 0
      BY <2>1, <2>4
    <3> QED BY <3>1, <3>2
  <2> QED BY <2>2, <2>3, <2>4 DEF CollectOnce, onResponse
<1>6. timers' \in [AllJobs -> Nat] /\ apiCalls' \in [AllJobs -> Nat]
  <2>1. \A a \in Nat, d \in {-1, 0, 1} : a + d >= 0 => a + d \in Nat
    OBVIOUS
  <2>2. timers[j] + t \in Nat /\ apiCalls[j] + c \in Nat
    BY <1>1, <1>3, <1>5, <2>1
  <2> QED BY <1>1, <1>5, <2>2 DEF ActInv
<1>7. timers'[j] + apiCalls'[j] = 1
  <2>1. \A a, b \in Nat, d, e \in {-1, 0, 1} : a + b = 1 /\ d + e = 0 => (a + d) + (b + e) = 1
    OBVIOUS
  <2>2. timers'[j] = timers[j] + t /\ apiCalls'[j] = apiCalls[j] + c
    BY <1>1, <1>5 DEF ActInv
  <2> QED BY <1>1, <1>3, <1>4, <1>5, <2>1, <2>2
<1>8. \A k \in jobs : k # j => timers'[k] = timers[k] /\ apiCalls'[k] = apiCalls[k]
  BY <1>1, <1>5 DEF ActInv
<1>9. OneActivity'
  BY <1>2, <1>7, <1>8 DEF ActInv, OneActivity
<1> QED BY <1>2, <1>6, <1>9 DEF ActInv

\* A commit arms the jobs of the new document and nothing else.
LEMMA ActReload ==
  ASSUME ActInv, Reload
  PROVE  ActInv'
<1>1. PICK d \in Documents : /\ doc' = d /\ jobs' = Jobs(d)
                             /\ timers' = ArmAll(Jobs(d)) /\ apiCalls' = [j \in AllJobs |-> 0]
  BY DEF Reload
<1> QED BY <1>1, ArmedOnce DEF ActInv, OneActivity

\* Every step keeps one activity for each job.
LEMMA ActStep == ActInv /\ [CollectionNext]_collectionVars => ActInv'
<1> SUFFICES ASSUME ActInv, [CollectionNext]_collectionVars PROVE ActInv'
  OBVIOUS
<1>1. CASE CollectordNext
  BY <1>1, ActMoves DEF CollectordNext
<1>2. CASE Reload
  BY <1>2, ActReload
<1>3. CASE UNCHANGED <<doc, jobs, timers, apiCalls>>
  BY <1>3 DEF ActInv, OneActivity
<1>4. CASE storeSample \/ HourPasses \/ ReadPage \/ CloseReader \/ UNCHANGED collectionVars
  BY <1>3, <1>4 DEF storeSample, HourPasses, ReadPage, CloseReader, collectionVars
<1> QED BY <1>1, <1>2, <1>4 DEF CollectionNext

-----------------------------------------------------------------------------
(* engined: the table.                                                     *)

\* The oids of the table are below its sequence, and a released body has its successors.
TableInv ==
  /\ nextOid \in Nat \ {0}
  /\ Numbered(rows, nextOid - 1)
  /\ samples \in Seq(SampleRecs)
  /\ BodiesKept(rows)

\* What a step may do to the rows: a new one gets the next oid, an old one keeps its stream.
RowsLater == \A o \in DOMAIN rows' : o # nextOid => o \in DOMAIN rows /\ rows'[o].stream = rows[o].stream

\* A sample is a row with its body.
LEMMA SampleIsRow == \A r \in SampleRecs : r \in SampleRows /\ r.body # "aged"
BY DEF SampleRecs, SampleRows

\* A larger bound numbers the table as well.
LEMMA NumberedMore ==
  ASSUME NEW n \in Nat, NEW rs, Numbered(rs, n)
  PROVE  Numbered(rs, n + 1)
BY DEF Numbered

\* One sample is stored and the sweep is made when it is due.
LEMMA TableStores ==
  ASSUME TableInv, storeSample
  PROVE  TableInv' /\ RowsLater
<1>1. PICK n \in Nat : nextOid = n + 1 /\ n = nextOid - 1
  <2>1. nextOid \in Nat \ {0}
    BY DEF TableInv
  <2>2. nextOid - 1 \in Nat /\ nextOid = (nextOid - 1) + 1
    BY <2>1
  <2> QED BY <2>2
<1>2. Numbered(rows, n) /\ BodiesKept(rows) /\ samples \in Seq(SampleRecs) /\ samples # <<>>
  BY <1>1 DEF TableInv, storeSample
<1>3. PICK row \in SampleRows : row = Head(samples) /\ row.body # "aged"
  BY <1>2, HeadTailProperties, SampleIsRow
<1>4. PICK rs : rs = rows
  OBVIOUS
<1>5. PICK more : more = [o \in DOMAIN rs \cup {n + 1} |-> IF o = n + 1 THEN row ELSE rs[o]]
  OBVIOUS
<1>6. PICK ins : /\ ins \in {rs, more}
                 /\ \/ rows' = ins
                    \/ \E m \in 0 .. n : rows' \in prune(ins, m)
  BY <1>1, <1>3, <1>4, <1>5 DEF storeSample
<1>7. /\ Numbered(ins, n + 1) /\ BodiesKept(ins)
      /\ \A o \in DOMAIN ins : o # n + 1 => o \in DOMAIN rs /\ ins[o] = rs[o]
  <2>1. CASE ins = rs
    BY <1>2, <1>4, <2>1, NumberedMore
  <2>2. CASE ins = more
    <3>1. Numbered(more, n + 1) /\ BodiesKept(more)
      BY <1>2, <1>4, <1>3, <1>5, InsertKeeps
    <3>2. \A o \in DOMAIN more : o # n + 1 => o \in DOMAIN rs /\ more[o] = rs[o]
      BY <1>5
    <3> QED BY <2>2, <3>1, <3>2
  <2> QED BY <1>6, <2>1, <2>2
<1>8. /\ Numbered(rows', n + 1) /\ BodiesKept(rows')
      /\ \A o \in DOMAIN rows' : o \in DOMAIN ins /\ rows'[o].stream = ins[o].stream
  <2>1. CASE rows' = ins
    BY <1>7, <2>1
  <2>2. CASE \E m \in 0 .. n : rows' \in prune(ins, m)
    <3>1. PICK m \in Nat : rows' \in prune(ins, m)
      BY <2>2
    <3>2. n + 1 \in Nat
      OBVIOUS
    <3>3. PICK ret : ret = Retained(ins, m)
      OBVIOUS
    <3>4. /\ Numbered(ret, n + 1) /\ BodiesKept(ret)
          /\ \A o \in DOMAIN ret : o \in DOMAIN ins /\ ret[o] = ins[o]
      BY <1>7, <3>2, <3>3, RetainedKeeps
    <3>5. /\ Numbered(Aged(ret), n + 1) /\ BodiesKept(Aged(ret))
          /\ DOMAIN Aged(ret) = DOMAIN ret /\ \A o \in DOMAIN ret : Aged(ret)[o].stream = ret[o].stream
      BY <3>2, <3>4, AgedKeeps
    <3>6. rows' = ret \/ rows' = Aged(ret)
      BY <3>1, <3>3 DEF prune
    <3> QED BY <3>4, <3>5, <3>6
  <2> QED BY <1>6, <2>1, <2>2
<1>9. BodiesKept(rows)'
  BY <1>8 DEF BodiesKept, NewerBodies
<1>10. nextOid' \in Nat \ {0} /\ nextOid' - 1 = n + 1
  BY <1>1 DEF storeSample
<1>11. samples' \in Seq(SampleRecs)
  BY <1>2, HeadTailProperties DEF storeSample
<1>12. Numbered(rows, nextOid - 1)'
  BY <1>8, <1>10 DEF Numbered, SampleRows
<1>13. RowsLater
  BY <1>1, <1>4, <1>7, <1>8 DEF RowsLater
<1> QED BY <1>9, <1>10, <1>11, <1>12, <1>13 DEF TableInv

\* A completed call sends a sample.
LEMMA TableSampled ==
  ASSUME TableInv, ActInv, NEW j \in jobs, onResponse(j)
  PROVE  TableInv'
<1>1. j \in AllJobs
  BY JobsKnown DEF ActInv
<1>2. PICK res : samples' = Append(samples, buildCollectionSample(j, res))
  BY DEF onResponse
<1>3. buildCollectionSample(j, res) \in SampleRecs
  BY <1>1 DEF buildCollectionSample, SampleRecs
<1>4. samples' \in Seq(SampleRecs)
  BY <1>2, <1>3, AppendProperties DEF TableInv
<1>5. rows' = rows /\ nextOid' = nextOid
  BY DEF onResponse
<1> QED BY <1>4, <1>5 DEF TableInv, Numbered, BodiesKept, NewerBodies, SampleRows

\* The table keeps its order and its newest bodies.
LEMMA TableStep == TableInv /\ ActInv /\ [CollectionNext]_collectionVars => TableInv'
<1> SUFFICES ASSUME TableInv, ActInv, [CollectionNext]_collectionVars PROVE TableInv'
  OBVIOUS
<1>1. CASE storeSample
  BY <1>1, TableStores
<1>2. ASSUME NEW j \in jobs, onResponse(j) PROVE TableInv'
  BY <1>2, TableSampled
<1>3. CASE UNCHANGED <<rows, nextOid, samples>>
  BY <1>3 DEF TableInv, Numbered, BodiesKept, NewerBodies, SampleRows
<1>4. ASSUME NEW j \in jobs, CollectOnce(j) PROVE TableInv'
  BY <1>3, <1>4 DEF CollectOnce
<1>5. CASE Reload \/ HourPasses \/ ReadPage \/ CloseReader \/ UNCHANGED collectionVars
  BY <1>3, <1>5 DEF Reload, HourPasses, ReadPage, CloseReader, collectionVars
<1> QED BY <1>1, <1>2, <1>4, <1>5 DEF CollectionNext, CollectordNext

\* The table starts empty.
LEMMA TableStart == CollectionInit => TableInv
<1> SUFFICES ASSUME CollectionInit PROVE TableInv
  OBVIOUS
<1>1. nextOid = 1 /\ samples = <<>> /\ rows = <<>>
  BY DEF CollectionInit
<1>2. DOMAIN rows = {}
  BY <1>1
<1> QED BY <1>1, <1>2 DEF TableInv, Numbered, BodiesKept


-----------------------------------------------------------------------------
(* mgmtd: the pages of the table.                                          *)

\* Pages from the newest row to the oldest.
Descending(pages) ==
  \A i, k \in DOMAIN pages : i < k => \A a \in pages[i], b \in pages[k] : b < a

\* The oids served.
Served(pages) == UNION Entries(pages)

\* What a page is: a set of oids.
OidSets == SUBSET Nat

\* Everything served is at or above the cursor, and what was there at the start and still is
\* has been served down to it.
PagerInv ==
  /\ reader.page \in {"idle", "more", "done"}
  /\ reader.page = "idle" => reader = Idle
  /\ reader.pages \in Seq(OidSets)
  /\ Descending(reader.pages)
  /\ reader.present \in SUBSET (1 .. (nextOid - 1))
  /\ \A o \in DOMAIN rows \cap reader.present :
       reader.stream = <<>> \/ rows[o].stream = reader.stream
  /\ reader.page = "more" =>
       /\ reader.before \in Nat \ {0}
       /\ \A o \in Served(reader.pages) : o >= reader.before
       /\ \A o \in DOMAIN rows \cap reader.present :
            o >= reader.before => o \in Served(reader.pages)
  /\ reader.page = "done" =>
       \A o \in DOMAIN rows \cap reader.present : o \in Served(reader.pages)

\* One more page, below the ones before it.
LEMMA OnePageMore ==
  ASSUME NEW pages \in Seq(OidSets), NEW p \in OidSets, Descending(pages),
         \A a \in Served(pages), b \in p : b < a
  PROVE  /\ Append(pages, p) \in Seq(OidSets) /\ Descending(Append(pages, p))
         /\ Served(Append(pages, p)) = Served(pages) \cup p
<1>1. PICK more : more = Append(pages, p)
  OBVIOUS
<1>2. PICK n \in Nat : n = Len(pages) /\ DOMAIN pages = 1..n
  OBVIOUS
<1>3. /\ more \in Seq(OidSets) /\ Len(more) = n + 1 /\ more[n + 1] = p
      /\ \A i \in 1..n : more[i] = pages[i]
  BY <1>1, <1>2, AppendProperties
<1>4. DOMAIN more = 1..(n + 1)
  BY <1>3
<1>5. \A i \in 1..(n + 1) : i \in 1..n \/ i = n + 1
  OBVIOUS
<1>6. \A i \in 1..n : \A a \in pages[i] : a \in Served(pages)
  BY <1>2 DEF Served, Entries
<1>7. Descending(more)
  <2> SUFFICES ASSUME NEW i \in 1..(n + 1), NEW k \in 1..(n + 1), i < k,
                      NEW a \in more[i], NEW b \in more[k]
               PROVE  b < a
    BY <1>4 DEF Descending
  <2>1. i \in 1..n /\ a \in pages[i]
    BY <1>3
  <2>2. CASE k = n + 1
    BY <1>3, <1>6, <2>1, <2>2
  <2>3. CASE k \in 1..n
    BY <1>2, <1>3, <2>1, <2>3 DEF Descending
  <2> QED BY <1>5, <2>2, <2>3
<1>8. Served(more) = Served(pages) \cup p
  <2>1. \A x \in Served(more) : x \in Served(pages) \/ x \in p
    <3> SUFFICES ASSUME NEW i \in 1..(n + 1), NEW x \in more[i] PROVE x \in Served(pages) \/ x \in p
      BY <1>4 DEF Served, Entries
    <3> QED BY <1>3, <1>5, <1>6
  <2>2. \A i \in 1..n : \A x \in pages[i] : x \in Served(more)
    <3>1. \A i \in 1..n : i \in DOMAIN more /\ more[i] = pages[i]
      BY <1>3, <1>4
    <3> QED BY <3>1 DEF Served, Entries
  <2>3. \A x \in Served(pages) : x \in Served(more)
    BY <1>2, <2>2 DEF Served, Entries
  <2>4. \A x \in p : x \in Served(more)
    <3>1. n + 1 \in DOMAIN more /\ more[n + 1] = p
      BY <1>3, <1>4
    <3> QED BY <3>1 DEF Served, Entries
  <2> QED BY <2>1, <2>3, <2>4
<1> QED BY <1>1, <1>3, <1>7, <1>8

\* Nothing is served before the first page.
LEMMA NothingServed == Served(<<>>) = {} /\ Descending(<<>>) /\ <<>> \in Seq(OidSets)
BY DEF Served, Entries, Descending

\* The first page, or the next one.
LEMMA PagerReads ==
  ASSUME TableInv, PagerInv, ReadPage
  PROVE  PagerInv'
<1>0. rows' = rows /\ nextOid' = nextOid
  BY DEF ReadPage
<1>1. PICK n \in Nat : n = nextOid - 1 /\ DOMAIN rows \in SUBSET (1..n)
  <2>1. nextOid \in Nat \ {0} /\ Numbered(rows, nextOid - 1)
    BY DEF TableInv
  <2>2. nextOid - 1 \in Nat
    BY <2>1
  <2> QED BY <2>1, <2>2 DEF Numbered
<1>2. PICK stream, page :
        /\ reader.page = "more" => stream = reader.stream
        /\ page = PageBefore(stream, reader.before, PageLimit)
        /\ reader' =
             [page    |-> IF Cardinality(page) = PageLimit THEN "more" ELSE "done",
              stream  |-> stream,
              before  |-> IF Cardinality(page) = PageLimit THEN Oldest(page) ELSE 0,
              pages   |-> Append(reader.pages, page),
              present |-> IF reader.page = "idle" THEN Matching(stream) ELSE reader.present]
  BY DEF ReadPage
<1>3. reader.page = "idle" \/ reader.page = "more"
  BY DEF ReadPage
<1>4. PICK older : older = {o \in Matching(stream) : reader.before = 0 \/ o < reader.before}
  OBVIOUS
<1>5. older \in SUBSET (1..n) /\ Matching(stream) \in SUBSET (1..n)
  BY <1>1, <1>4 DEF Matching
<1>6. page \in SUBSET older /\ \A x \in older : x \in page <=> Cardinality(From(older, x)) <= PageLimit
  <2>1. page = {o \in older : Cardinality({k \in older : k >= o}) <= PageLimit}
    BY <1>2, <1>4 DEF PageBefore
  <2> QED BY <2>1 DEF From
<1>7. PICK b \in Nat \ {0} : b = PageLimit
  BY CollectionAssumption
<1>8. /\ \A x \in page, y \in older : y >= x => y \in page
      /\ page # older => Cardinality(page) = b
  BY <1>5, <1>6, <1>7, NewestOnes
<1>9. page \in SUBSET (1..n) /\ page \in OidSets
  BY <1>5, <1>6 DEF OidSets
<1>10. PICK pages, present : pages = reader.pages /\ present = reader'.present
  OBVIOUS
<1>11. pages \in Seq(OidSets) /\ Descending(pages)
  BY <1>10 DEF PagerInv
<1>12. present \in SUBSET (1..n) /\ \A o \in DOMAIN rows \cap present :
         (stream = <<>> \/ rows[o].stream = stream) /\ (o \in Served(pages) \/ o \in older)
  <2>1. CASE reader.page = "idle"
    <3>1. present = Matching(stream) /\ reader.before = 0
      BY <1>2, <1>10, <2>1 DEF PagerInv, Idle
    <3>2. older = Matching(stream)
      BY <1>4, <3>1
    <3> QED BY <1>5, <3>1, <3>2 DEF Matching
  <2>2. CASE reader.page = "more"
    <3>1. present = reader.present /\ stream = reader.stream
      BY <1>2, <1>10, <2>2
    <3>2. present \in SUBSET (1..n)
      BY <1>1, <3>1 DEF PagerInv
    <3>3. \A o \in DOMAIN rows \cap present : stream = <<>> \/ rows[o].stream = stream
      BY <3>1 DEF PagerInv
    <3>4. \A o \in DOMAIN rows \cap present : o >= reader.before => o \in Served(pages)
      BY <1>10, <2>2, <3>1 DEF PagerInv
    <3>5. \A o \in DOMAIN rows \cap present : o >= reader.before \/ o < reader.before
      <4>1. \A o \in DOMAIN rows : o \in Nat
        BY <1>1
      <4>2. reader.before \in Nat
        BY <2>2 DEF PagerInv
      <4> QED BY <4>1, <4>2
    <3>6. \A o \in DOMAIN rows \cap present : o < reader.before => o \in older
      BY <1>4, <3>3 DEF Matching
    <3> QED BY <3>2, <3>3, <3>4, <3>5, <3>6
  <2> QED BY <1>3, <2>1, <2>2
<1>13. \A a \in Served(pages), x \in page : x < a
  <2>1. CASE reader.page = "idle"
    <3>1. pages = <<>>
      BY <1>10, <2>1 DEF PagerInv, Idle
    <3> QED BY <3>1, NothingServed
  <2>2. CASE reader.page = "more"
    <3>1. reader.before \in Nat \ {0} /\ \A o \in Served(pages) : o >= reader.before
      BY <1>10, <2>2 DEF PagerInv
    <3>2. \A x \in page : x < reader.before /\ x \in Nat
      BY <1>4, <1>6, <1>9, <3>1
    <3>3. \A a \in Served(pages) : a \in Nat
      BY <1>11 DEF Served, Entries, OidSets
    <3>4. \A a, c, x \in Nat : a >= c /\ x < c => x < a
      OBVIOUS
    <3> QED BY <3>1, <3>2, <3>3, <3>4
  <2> QED BY <1>3, <2>1, <2>2
<1>14. PICK more : more = Append(pages, page) /\ reader'.pages = more
  BY <1>2, <1>10
<1>15. more \in Seq(OidSets) /\ Descending(more) /\ Served(more) = Served(pages) \cup page
  BY <1>9, <1>11, <1>13, <1>14, OnePageMore
<1>16. reader'.stream = stream
  BY <1>2
<1>17. CASE Cardinality(page) = PageLimit
  <2>1. page # {}
    <3>1. Cardinality({}) = 0
      BY FS_EmptySet
    <3>2. Cardinality(page) # 0
      BY <1>7, <1>17
    <3> QED BY <3>1, <3>2
  <2>2. PICK c \in page : c = Oldest(page) /\ \A k \in page : c <= k
    <3>1. \E o \in page : \A k \in page : o <= k
      BY <1>9, <2>1, FirstExists
    <3> QED BY <3>1 DEF Oldest
  <2>3. reader'.page = "more" /\ reader'.before = c
    BY <1>2, <1>17, <2>2
  <2>4. c \in Nat \ {0}
    BY <1>9
  <2>5. \A o \in Served(more) : o >= c
    <3>1. \A o \in page : o >= c
      BY <1>9, <2>2
    <3>2. \A o \in Served(pages) : o \in Nat /\ c < o
      BY <1>11, <1>13 DEF Served, Entries, OidSets
    <3>3. \A o \in Nat : c < o => o >= c
      BY <2>4
    <3> QED BY <1>15, <3>1, <3>2, <3>3
  <2>6. \A o \in DOMAIN rows \cap present : o >= c => o \in Served(more)
    BY <1>8, <1>12, <1>15
  <2> QED BY <1>0, <1>1, <1>10, <1>12, <1>14, <1>15, <1>16, <2>3, <2>4, <2>5, <2>6 DEF PagerInv
<1>18. CASE Cardinality(page) # PageLimit
  <2>1. page = older
    BY <1>7, <1>8, <1>18
  <2>2. reader'.page = "done"
    BY <1>2, <1>18
  <2>3. \A o \in DOMAIN rows \cap present : o \in Served(more)
    BY <1>12, <1>15, <2>1
  <2> QED BY <1>0, <1>1, <1>10, <1>12, <1>14, <1>15, <1>16, <2>2, <2>3 DEF PagerInv
<1> QED BY <1>17, <1>18

\* An idle reader.
LEMMA PagerIdle ==
  ASSUME nextOid \in Nat \ {0}, reader = Idle
  PROVE  PagerInv
<1>1. reader.page = "idle" /\ reader.pages = <<>> /\ reader.present = {}
  BY DEF Idle
<1> QED BY <1>1, NothingServed DEF PagerInv

\* Rows come and go under the reader.
LEMMA PagerWaits ==
  ASSUME TableInv, PagerInv, reader' = reader, nextOid' \in {nextOid, nextOid + 1}, RowsLater
  PROVE  PagerInv'
<1>1. \A o \in reader.present : o # nextOid
  BY DEF PagerInv, TableInv
<1>2. \A o \in DOMAIN rows' \cap reader.present : o \in DOMAIN rows \cap reader.present /\ rows'[o].stream = rows[o].stream
  BY <1>1 DEF RowsLater
<1>3. reader.present \in SUBSET (1 .. (nextOid' - 1))
  BY DEF PagerInv, TableInv
<1>4. PICK r : r = reader /\ r = reader'
  OBVIOUS
<1> QED BY <1>2, <1>3, <1>4 DEF PagerInv

\* Every step keeps what the pages promise.
LEMMA PagerStep == TableInv /\ PagerInv /\ [CollectionNext]_collectionVars => PagerInv'
<1> SUFFICES ASSUME TableInv, PagerInv, [CollectionNext]_collectionVars PROVE PagerInv'
  OBVIOUS
<1>1. CASE storeSample
  <2>1. reader' = reader /\ nextOid' = nextOid + 1
    BY <1>1 DEF storeSample
  <2> QED BY <1>1, <2>1, TableStores, PagerWaits
<1>2. CASE ReadPage
  BY <1>2, PagerReads
<1>3. CASE CloseReader
  <2>1. reader' = Idle /\ nextOid' = nextOid
    BY <1>3 DEF CloseReader
  <2>2. reader'.page = "idle" /\ reader'.pages = <<>> /\ reader'.present = {}
    BY <2>1 DEF Idle
  <2> QED BY <2>1, <2>2, NothingServed DEF PagerInv, Idle
<1>4. CASE UNCHANGED <<rows, nextOid, reader>>
  BY <1>4, PagerWaits DEF RowsLater
<1>5. CASE CollectordNext \/ Reload \/ HourPasses \/ UNCHANGED collectionVars
  BY <1>4, <1>5 DEF CollectordNext, CollectOnce, onResponse, Reload, HourPasses, collectionVars
<1> QED BY <1>1, <1>2, <1>3, <1>5 DEF CollectionNext

-----------------------------------------------------------------------------
(* The page and the collector.                                             *)

\* What the page lists as collected is what collectord polls, for a stored document.
LEMMA ListedAgrees ==
  ASSUME doc \in Documents, jobs = Jobs(doc)
  PROVE  ListedIsCollected
<1>1. /\ \A d \in Entries(doc["ngfw_devices"]) : d.oid # ""
      /\ \A d \in Entries(doc["sase_devices"]) : d.oid # ""
      /\ \A e \in Entries(doc["endpoints"]) : validApiEndpoint(e)
  BY CollectionAssumption DEF validArray, validDevice
<1>2. \A oid : KnownDevice(oid) => oid # ""
  BY <1>1 DEF KnownDevice, containsOid
<1>3. \A oid : containsOid(doc["endpoints"], oid) <=> findEndpoint(doc, oid)
  <2>1. loadEndpoints(doc) = Entries(doc["endpoints"])
    <3>1. \A e : validApiEndpoint(e) =>
            (e.deviceType = "sase" => Subtype(e) = "ztna" /\ e.host # "") /\ e.oid # "" /\ e.path \in Rooted
      BY DEF validApiEndpoint
    <3> QED BY <1>1, <3>1 DEF loadEndpoints
  <2> QED BY <2>1 DEF containsOid, findEndpoint
<1> SUFFICES ASSUME NEW site
             PROVE  {<<s.at, s.stream>> : s \in {s \in Streams(site) : s.enabled /\ ~s.error}}
                      = {<<j.at, streamKey(j)>> : j \in {j \in jobs :
                           /\ findEndpoint(doc, j.endpoint)
                           /\ KnownDevice(j.object) /\ DeviceOf(j.object).site = site}}
  BY DEF ListedIsCollected
<1> DEFINE Polled == {j \in jobs : /\ findEndpoint(doc, j.endpoint)
                                   /\ KnownDevice(j.object) /\ DeviceOf(j.object).site = site}
           cs == doc["connectors"]
           StreamAt(i, k) == [at |-> <<i, k>>, stream |-> <<cs[i].oid, cs[i].items[k].endpoint>>,
                              enabled |-> cs[i].items[k].enabled, error |-> ConfigError(cs[i], cs[i].items[k])]
           ItemAt(i, k) == [at |-> k, endpoint |-> cs[i].items[k].endpoint, enabled |-> cs[i].items[k].enabled,
                            interval |-> IF cs[i].items[k].interval < 1 THEN 60 ELSE cs[i].items[k].interval]
           ConAt(i) == [at |-> i, oid |-> cs[i].oid, object |-> cs[i].object,
                        authProfile |-> cs[i].authProfile, items |-> LoadedItems(cs[i])]
           JobAt(i, k) == [at |-> <<i, k>>, connector |-> cs[i].oid, object |-> cs[i].object,
                           profile |-> cs[i].authProfile, endpoint |-> cs[i].items[k].endpoint]
           Listed(i, k) == /\ i \in DOMAIN cs /\ k \in DOMAIN cs[i].items
                           /\ cs[i].oid # "" /\ KnownDevice(cs[i].object) /\ DeviceOf(cs[i].object).site = site
                           /\ cs[i].items[k].endpoint # ""
           Collected(i, k) == /\ i \in DOMAIN cs /\ k \in DOMAIN cs[i].items
                              /\ LoadsConnector(cs[i]) /\ cs[i].items[k].endpoint # ""
                              /\ cs[i].items[k].enabled
<1>4. \A s \in Streams(site) : \E i, k : Listed(i, k) /\ s = StreamAt(i, k)
  <2> SUFFICES ASSUME NEW s \in Streams(site) PROVE \E i, k : Listed(i, k) /\ s = StreamAt(i, k)
    OBVIOUS
  <2>1. PICK i \in DOMAIN cs :
          /\ cs[i].oid # "" /\ KnownDevice(cs[i].object) /\ DeviceOf(cs[i].object).site = site
          /\ s \in {StreamAt(i, k) : k \in {k \in DOMAIN cs[i].items : cs[i].items[k].endpoint # ""}}
    BY DEF Streams
  <2>2. PICK k \in DOMAIN cs[i].items : cs[i].items[k].endpoint # "" /\ s = StreamAt(i, k)
    BY <2>1
  <2> QED BY <2>1, <2>2
<1>5. \A i, k : Listed(i, k) => StreamAt(i, k) \in Streams(site)
  <2> SUFFICES ASSUME NEW i, NEW k, Listed(i, k) PROVE StreamAt(i, k) \in Streams(site)
    OBVIOUS
  <2> DEFINE Of(n) == {StreamAt(n, m) : m \in {m \in DOMAIN cs[n].items : cs[n].items[m].endpoint # ""}}
             Sel == {n \in DOMAIN cs : /\ cs[n].oid # "" /\ KnownDevice(cs[n].object)
                                       /\ DeviceOf(cs[n].object).site = site}
  <2>1. i \in Sel /\ StreamAt(i, k) \in Of(i)
    OBVIOUS
  <2>2. Streams(site) = UNION {Of(n) : n \in Sel}
    BY DEF Streams
  <2> HIDE DEF Of, Sel, StreamAt
  <2> QED BY <2>1, <2>2
<1>6. \A j \in jobs : \E i, k : Collected(i, k) /\ j = JobAt(i, k)
  <2> SUFFICES ASSUME NEW j \in jobs PROVE \E i, k : Collected(i, k) /\ j = JobAt(i, k)
    OBVIOUS
  <2>0. PICK con \in loadConnectors(doc) : \E loaded \in con.items :
          /\ loaded.enabled
          /\ j = [at |-> <<con.at, loaded.at>>, connector |-> con.oid, object |-> con.object,
                  profile |-> con.authProfile, endpoint |-> loaded.endpoint]
    BY DEF Jobs
  <2>1. PICK loaded \in con.items :
          /\ loaded.enabled
          /\ j = [at |-> <<con.at, loaded.at>>, connector |-> con.oid, object |-> con.object,
                  profile |-> con.authProfile, endpoint |-> loaded.endpoint]
    BY <2>0
  <2>2. PICK i \in DOMAIN cs : LoadsConnector(cs[i]) /\ con = ConAt(i)
    BY <2>1 DEF loadConnectors
  <2>3. /\ con.at = i /\ con.oid = cs[i].oid /\ con.object = cs[i].object
        /\ con.authProfile = cs[i].authProfile /\ con.items = LoadedItems(cs[i])
    BY <2>2
  <2>4. PICK k \in DOMAIN cs[i].items : cs[i].items[k].endpoint # "" /\ loaded = ItemAt(i, k)
    BY <2>1, <2>3 DEF LoadedItems
  <2>5. loaded.at = k /\ loaded.endpoint = cs[i].items[k].endpoint /\ loaded.enabled = cs[i].items[k].enabled
    BY <2>4
  <2>6. j = JobAt(i, k)
    BY <2>1, <2>3, <2>5
  <2>7. Collected(i, k)
    BY <2>1, <2>2, <2>4, <2>5
  <2> QED BY <2>6, <2>7
<1>7. \A i, k : Collected(i, k) => JobAt(i, k) \in jobs
  <2> SUFFICES ASSUME NEW i, NEW k, Collected(i, k) PROVE JobAt(i, k) \in jobs
    OBVIOUS
  <2>1. PICK con : con = ConAt(i)
    OBVIOUS
  <2>2. con \in loadConnectors(doc)
    BY <2>1 DEF loadConnectors
  <2>3. PICK loaded : loaded = ItemAt(i, k)
    OBVIOUS
  <2>4. loaded \in LoadedItems(cs[i])
    BY <2>3 DEF LoadedItems
  <2>5. loaded.at = k /\ loaded.endpoint = cs[i].items[k].endpoint /\ loaded.enabled
    BY <2>3
  <2>6. /\ con.at = i /\ con.oid = cs[i].oid /\ con.object = cs[i].object
        /\ con.authProfile = cs[i].authProfile /\ con.items = LoadedItems(cs[i])
    BY <2>1
  <2>7. JobAt(i, k) = [at |-> <<con.at, loaded.at>>, connector |-> con.oid, object |-> con.object,
                       profile |-> con.authProfile, endpoint |-> loaded.endpoint]
    BY <2>5, <2>6
  <2>8. loaded \in con.items
    BY <2>4, <2>6
  <2> DEFINE Job(c, item) == [at |-> <<c.at, item.at>>, connector |-> c.oid, object |-> c.object,
                              profile |-> c.authProfile, endpoint |-> item.endpoint]
             Of(c) == {Job(c, item) : item \in {n \in c.items : n.enabled}}
  <2>9. Jobs(doc) = UNION {Of(c) : c \in loadConnectors(doc)}
    BY DEF Jobs
  <2>10. JobAt(i, k) = Job(con, loaded)
    BY <2>7
  <2> HIDE DEF Job, JobAt
  <2>11. JobAt(i, k) \in Of(con)
    BY <2>5, <2>8, <2>10
  <2> HIDE DEF Of
  <2>12. JobAt(i, k) \in Jobs(doc)
    BY <2>2, <2>9, <2>11
  <2> QED BY <2>12
<1>8. ASSUME NEW s \in Streams(site), s.enabled, ~s.error
      PROVE  \E j \in Polled : <<s.at, s.stream>> = <<j.at, streamKey(j)>>
  <2>1. PICK i, k : Listed(i, k) /\ s = StreamAt(i, k)
    BY <1>4, <1>8
  <2>2. /\ s.enabled = cs[i].items[k].enabled /\ s.error = ConfigError(cs[i], cs[i].items[k])
        /\ s.at = <<i, k>> /\ s.stream = <<cs[i].oid, cs[i].items[k].endpoint>>
    BY <2>1
  <2>3. /\ ~cs[i].oldShape /\ cs[i].authProfile # "" /\ findEndpoint(doc, cs[i].items[k].endpoint)
        /\ cs[i].object # ""
    BY <1>2, <1>3, <1>8, <2>1, <2>2 DEF ConfigError
  <2>4. Collected(i, k)
    BY <1>8, <2>1, <2>2, <2>3 DEF LoadsConnector
  <2>5. PICK j \in jobs : j = JobAt(i, k)
    BY <1>7, <2>4
  <2>6. /\ j.connector = cs[i].oid /\ j.object = cs[i].object /\ j.endpoint = cs[i].items[k].endpoint
        /\ j.at = <<i, k>>
    BY <2>5
  <2>7. j \in Polled
    BY <2>1, <2>3, <2>6
  <2> QED BY <2>2, <2>6, <2>7 DEF streamKey
<1>9. ASSUME NEW j \in Polled
      PROVE  \E s \in Streams(site) : s.enabled /\ ~s.error /\ <<s.at, s.stream>> = <<j.at, streamKey(j)>>
  <2>1. PICK i, k : Collected(i, k) /\ j = JobAt(i, k)
    BY <1>6
  <2>2. /\ j.connector = cs[i].oid /\ j.object = cs[i].object /\ j.endpoint = cs[i].items[k].endpoint
        /\ j.at = <<i, k>>
    BY <2>1
  <2>3. /\ findEndpoint(doc, cs[i].items[k].endpoint) /\ KnownDevice(cs[i].object)
        /\ DeviceOf(cs[i].object).site = site
    BY <2>2
  <2>4. cs[i].oid # "" /\ ~cs[i].oldShape /\ cs[i].authProfile # ""
    BY <2>1 DEF LoadsConnector
  <2>5. ~ConfigError(cs[i], cs[i].items[k])
    BY <1>3, <2>3, <2>4 DEF ConfigError
  <2>6. PICK s \in Streams(site) : s = StreamAt(i, k)
    BY <1>5, <2>1, <2>3, <2>4
  <2>7. /\ s.enabled = cs[i].items[k].enabled /\ s.error = ConfigError(cs[i], cs[i].items[k])
        /\ s.at = <<i, k>> /\ s.stream = <<cs[i].oid, cs[i].items[k].endpoint>>
    BY <2>6
  <2> QED BY <2>1, <2>2, <2>5, <2>7 DEF streamKey
<1> HIDE DEF Polled
<1>10. {<<s.at, s.stream>> : s \in {s \in Streams(site) : s.enabled /\ ~s.error}}
         = {<<j.at, streamKey(j)>> : j \in Polled}
  BY <1>8, <1>9
<1> QED BY <1>10 DEF Polled

-----------------------------------------------------------------------------
\* What is collected, what is kept of it and what the console reads of it, for every set of
\* stored documents, page size and number of bodies: a listed item has one poller, a body is
\* released only for newer ones, a reader misses no row that stays, and the collection page
\* lists what collectord polls.
THEOREM CollectionSoundAlways == CollectionSpec => []CollectionSound
<1>1. CollectionInit => ActInv /\ TableInv /\ PagerInv
  BY ActStart, TableStart, PagerIdle DEF CollectionInit, TableInv
<1>2. ActInv /\ TableInv /\ PagerInv /\ [CollectionNext]_collectionVars => (ActInv /\ TableInv /\ PagerInv)'
  BY ActStep, TableStep, PagerStep
<1>3. ActInv /\ TableInv /\ PagerInv => CollectionSound
  <2> SUFFICES ASSUME ActInv, TableInv, PagerInv PROVE CollectionSound
    OBVIOUS
  <2>1. OneActivity /\ ListedIsCollected
    BY ListedAgrees DEF ActInv
  <2>2. NewestBodyKept
    BY DEF TableInv, BodiesKept, NewerBodies, NewestBodyKept
  <2>3. PagesComplete
    BY DEF PagerInv, Descending, Served, PagesComplete
  <2> QED BY <2>1, <2>2, <2>3 DEF CollectionSound
<1> QED BY <1>1, <1>2, <1>3, PTL DEF CollectionSpec


-----------------------------------------------------------------------------
(* The log: the lines of a file.                                           *)

\* A line of a log file.
LogLines == [entry : Nat, head : BOOLEAN]

\* No entry is opened between the lines i and k.
NoHead(f, i, k) == \A m \in DOMAIN f : i < m /\ m < k => ~f[m].head

\* Entries follow one another: a header opens a later entry, the other lines belong to the
\* entry before them, and the last line belongs to the last entry written.
LinesFollow(f, w) ==
  /\ \A i \in DOMAIN f : f[i].entry \in 1..Len(w)
  /\ \A i, k \in DOMAIN f : i < k =>
       f[i].entry <= f[k].entry /\ (f[k].head => f[i].entry < f[k].entry)
  /\ \A i, k \in DOMAIN f : i <= k /\ NoHead(f, i, k + 1) => f[i].entry = f[k].entry
  /\ f # <<>> => f[Len(f)].entry = Len(w)

\* The lines from a header to the next one, or to the end, are the lines of its entry.
LinesCounted(f, w) ==
  \A i \in DOMAIN f, k \in 2..(Len(f) + 1) :
    /\ i < k /\ f[i].head /\ NoHead(f, i, k)
    /\ k = Len(f) + 1 \/ f[k].head
    => w[f[i].entry] = k - i

\* The file and what has been written to it.
FileInv ==
  /\ logFile \in Seq(LogLines) /\ written \in Seq(Nat)
  /\ LinesFollow(logFile, written) /\ LinesCounted(logFile, written)

\* A line at the end of the file opens or closes nothing before it.
LEMMA HeadsStay ==
  ASSUME NEW f, NEW g, \A m \in DOMAIN f : m \in DOMAIN g /\ g[m] = f[m]
  PROVE  \A i, k : NoHead(g, i, k) => NoHead(f, i, k)
BY DEF NoHead

\* A new entry.
LEMMA FileWrites ==
  ASSUME FileInv, WriteEntry
  PROVE  FileInv'
<1>1. PICK f \in Seq(LogLines), w \in Seq(Nat) : f = logFile /\ w = written
  BY DEF FileInv
<1>2. PICK n \in Nat, e \in Nat : n = Len(f) /\ e = Len(w)
  OBVIOUS
<1>3. PICK g : g = logFile'
  OBVIOUS
<1>4. PICK v : v = written'
  OBVIOUS
<1>5. PICK line \in LogLines : line = [entry |-> e + 1, head |-> TRUE]
  <2>1. e + 1 \in Nat
    OBVIOUS
  <2>2. [entry |-> e + 1, head |-> TRUE] \in LogLines
    BY <2>1 DEF LogLines
  <2> QED BY <2>2
<1>6. line.entry = e + 1 /\ line.head = TRUE
  BY <1>5
<1>7. g = Append(f, line) /\ v = Append(w, 1)
  BY <1>1, <1>2, <1>3, <1>4, <1>5 DEF WriteEntry
<1>8. /\ g \in Seq(LogLines) /\ Len(g) = n + 1 /\ g # <<>>
      /\ DOMAIN f = 1..n /\ DOMAIN g = 1..(n + 1)
      /\ \A i \in 1..n : g[i] = f[i]
      /\ g[n + 1] = line
      /\ \A i, k : NoHead(g, i, k) => NoHead(f, i, k)
  <2>1. g = Append(f, line) /\ n = Len(f)
    BY <1>2, <1>7
  <2>2. /\ g \in Seq(LogLines) /\ g # <<>> /\ Len(g) = n + 1
        /\ \A i \in 1..n : g[i] = f[i]
        /\ g[n + 1] = line
    BY <2>1, AppendProperties
  <2>3. DOMAIN f = 1..n /\ DOMAIN g = 1..(n + 1)
    BY <2>1, <2>2
  <2>4. \A m \in DOMAIN f : m \in DOMAIN g /\ g[m] = f[m]
    BY <2>2, <2>3
  <2> QED BY <2>2, <2>3, <2>4, HeadsStay
<1>9. v \in Seq(Nat) /\ Len(v) = e + 1 /\ v[e + 1] = 1 /\ \A i \in 1..e : v[i] = w[i]
  BY <1>2, <1>7, AppendProperties
<1>10. LinesFollow(f, w) /\ LinesCounted(f, w)
  BY <1>1 DEF FileInv
<1>11. \A i \in 1..(n + 1) : i \in 1..n \/ i = n + 1
  OBVIOUS
<1>12. \A i \in 1..n : g[i].entry \in 1..e /\ g[i].entry = f[i].entry /\ g[i].head = f[i].head
  BY <1>2, <1>8, <1>10 DEF LinesFollow
<1>13. g[n + 1].entry = e + 1 /\ g[n + 1].head
  BY <1>6, <1>8
<1>14. \A i \in 1..(n + 1) : g[i].entry \in 1..(e + 1)
  BY <1>11, <1>12, <1>13
<1>15. \A i, k \in 1..(n + 1) : i < k =>
         g[i].entry <= g[k].entry /\ (g[k].head => g[i].entry < g[k].entry)
  <2> SUFFICES ASSUME NEW i \in 1..(n + 1), NEW k \in 1..(n + 1), i < k
               PROVE  g[i].entry <= g[k].entry /\ (g[k].head => g[i].entry < g[k].entry)
    OBVIOUS
  <2>1. i \in 1..n
    OBVIOUS
  <2>2. CASE k = n + 1
    BY <1>12, <1>13, <2>1, <2>2
  <2>3. CASE k \in 1..n
    BY <1>8, <1>10, <1>12, <2>1, <2>3 DEF LinesFollow
  <2> QED BY <1>11, <2>2, <2>3
<1>16. \A i, k \in 1..(n + 1) : i <= k /\ NoHead(g, i, k + 1) => g[i].entry = g[k].entry
  <2> SUFFICES ASSUME NEW i \in 1..(n + 1), NEW k \in 1..(n + 1), i <= k, NoHead(g, i, k + 1)
               PROVE  g[i].entry = g[k].entry
    OBVIOUS
  <2>1. CASE k \in 1..n
    <3>1. i \in 1..n /\ NoHead(f, i, k + 1)
      BY <1>8, <2>1
    <3> QED BY <1>8, <1>10, <1>12, <2>1, <3>1 DEF LinesFollow
  <2>2. CASE k = n + 1 /\ i \in 1..n
    <3>1. n + 1 \in DOMAIN g /\ i < n + 1 /\ n + 1 < k + 1
      BY <1>8, <2>2
    <3> QED BY <1>13, <3>1 DEF NoHead
  <2> QED BY <1>11, <2>1, <2>2
<1>17. LinesFollow(g, v)
  BY <1>8, <1>9, <1>13, <1>14, <1>15, <1>16 DEF LinesFollow
<1>18. LinesCounted(g, v)
  <2> SUFFICES ASSUME NEW i \in 1..(n + 1), NEW k \in 2..(n + 2),
                      i < k, g[i].head, NoHead(g, i, k), k = n + 2 \/ g[k].head
               PROVE  v[g[i].entry] = k - i
    BY <1>8 DEF LinesCounted
  <2>1. CASE i = n + 1
    <3>1. k = n + 2
      BY <2>1
    <3> QED BY <1>9, <1>13, <2>1, <3>1
  <2>2. CASE i \in 1..n
    <3>1. k # n + 2
      <4> SUFFICES ASSUME k = n + 2 PROVE FALSE
        OBVIOUS
      <4>1. n + 1 \in DOMAIN g /\ i < n + 1 /\ n + 1 < k
        BY <1>8, <2>2
      <4> QED BY <1>13, <4>1 DEF NoHead
    <3>2. k \in 2..(n + 1)
      BY <3>1
    <3>3. k = n + 1 \/ f[k].head
      <4>1. k = n + 1 \/ k \in 1..n
        BY <3>2
      <4> QED BY <1>12, <3>1, <4>1
    <3>4. f[i].head /\ NoHead(f, i, k)
      BY <1>8, <1>12, <2>2
    <3>5. w[f[i].entry] = k - i
      BY <1>2, <1>8, <1>10, <2>2, <3>2, <3>3, <3>4 DEF LinesCounted
    <3> QED BY <1>9, <1>12, <2>2, <3>5
  <2> QED BY <1>11, <2>1, <2>2
<1> QED BY <1>3, <1>4, <1>8, <1>9, <1>17, <1>18 DEF FileInv

\* One more line of the last entry.
LEMMA FileContinues ==
  ASSUME FileInv, ContinueEntry
  PROVE  /\ FileInv' /\ Len(written') = Len(written)
         /\ \A e \in 1..(Len(written) - 1) : written'[e] = written[e]
<1>1. PICK f \in Seq(LogLines), w \in Seq(Nat) : f = logFile /\ w = written
  BY DEF FileInv
<1>2. PICK n \in Nat, e \in Nat : n = Len(f) /\ e = Len(w)
  OBVIOUS
<1>3. PICK g : g = logFile'
  OBVIOUS
<1>4. PICK v : v = written'
  OBVIOUS
<1>5. PICK line \in LogLines : line = [entry |-> e, head |-> FALSE]
  BY DEF LogLines
<1>6. line.entry = e /\ line.head = FALSE
  BY <1>5
<1>7. g = Append(f, line) /\ v = [w EXCEPT ![e] = @ + 1] /\ f # <<>>
  BY <1>1, <1>2, <1>3, <1>4, <1>5 DEF ContinueEntry
<1>8. /\ g \in Seq(LogLines) /\ Len(g) = n + 1 /\ g # <<>>
      /\ DOMAIN f = 1..n /\ DOMAIN g = 1..(n + 1)
      /\ \A i \in 1..n : g[i] = f[i]
      /\ g[n + 1] = line
      /\ \A i, k : NoHead(g, i, k) => NoHead(f, i, k)
  <2>1. g = Append(f, line) /\ n = Len(f)
    BY <1>2, <1>7
  <2>2. /\ g \in Seq(LogLines) /\ g # <<>> /\ Len(g) = n + 1
        /\ \A i \in 1..n : g[i] = f[i]
        /\ g[n + 1] = line
    BY <2>1, AppendProperties
  <2>3. DOMAIN f = 1..n /\ DOMAIN g = 1..(n + 1)
    BY <2>1, <2>2
  <2>4. \A m \in DOMAIN f : m \in DOMAIN g /\ g[m] = f[m]
    BY <2>2, <2>3
  <2> QED BY <2>2, <2>3, <2>4, HeadsStay
<1>9. LinesFollow(f, w) /\ LinesCounted(f, w)
  BY <1>1 DEF FileInv
<1>10. n \in 1..n /\ f[n].entry = e /\ e \in 1..e
  <2>1. n # 0
    BY <1>2, <1>7
  <2>2. n \in 1..n
    BY <2>1
  <2> QED BY <1>2, <1>7, <1>8, <1>9, <2>2 DEF LinesFollow
<1>11. v \in Seq(Nat) /\ Len(v) = e /\ v[e] = w[e] + 1 /\ \A i \in 1..e : i # e => v[i] = w[i]
  BY <1>2, <1>7, <1>10
<1>12. \A i \in 1..(n + 1) : i \in 1..n \/ i = n + 1
  OBVIOUS
<1>13. \A i \in 1..n : g[i].entry \in 1..e /\ g[i].entry = f[i].entry /\ g[i].head = f[i].head
  BY <1>2, <1>8, <1>9 DEF LinesFollow
<1>14. g[n + 1].entry = e /\ ~g[n + 1].head
  BY <1>6, <1>8
<1>15. \A i \in 1..(n + 1) : g[i].entry \in 1..e
  BY <1>10, <1>12, <1>13, <1>14
<1>16. \A i, k \in 1..(n + 1) : i < k =>
         g[i].entry <= g[k].entry /\ (g[k].head => g[i].entry < g[k].entry)
  <2> SUFFICES ASSUME NEW i \in 1..(n + 1), NEW k \in 1..(n + 1), i < k
               PROVE  g[i].entry <= g[k].entry /\ (g[k].head => g[i].entry < g[k].entry)
    OBVIOUS
  <2>1. i \in 1..n
    OBVIOUS
  <2>2. CASE k = n + 1
    BY <1>13, <1>14, <2>1, <2>2
  <2>3. CASE k \in 1..n
    BY <1>8, <1>9, <1>13, <2>1, <2>3 DEF LinesFollow
  <2> QED BY <1>12, <2>2, <2>3
<1>17. \A i \in 1..n : NoHead(f, i, n + 1) => f[i].entry = e
  <2> SUFFICES ASSUME NEW i \in 1..n, NoHead(f, i, n + 1) PROVE f[i].entry = e
    OBVIOUS
  <2>1. i <= n
    OBVIOUS
  <2> QED BY <1>8, <1>9, <1>10, <2>1 DEF LinesFollow
<1>18. \A i, k : (k = n + 2) /\ NoHead(g, i, k) => NoHead(f, i, n + 1)
  <2>1. \A m \in DOMAIN f : m \in DOMAIN g /\ g[m] = f[m] /\ m < n + 2 /\ m < n + 1
    BY <1>8
  <2> QED BY <2>1 DEF NoHead
<1>19. \A i, k \in 1..(n + 1) : i <= k /\ NoHead(g, i, k + 1) => g[i].entry = g[k].entry
  <2> SUFFICES ASSUME NEW i \in 1..(n + 1), NEW k \in 1..(n + 1), i <= k, NoHead(g, i, k + 1)
               PROVE  g[i].entry = g[k].entry
    OBVIOUS
  <2>1. CASE k \in 1..n
    <3>1. i \in 1..n /\ NoHead(f, i, k + 1)
      BY <1>8, <2>1
    <3> QED BY <1>8, <1>9, <1>13, <2>1, <3>1 DEF LinesFollow
  <2>2. CASE k = n + 1 /\ i \in 1..n
    <3>1. k + 1 = n + 2
      BY <2>2
    <3>2. NoHead(f, i, n + 1)
      BY <1>18, <3>1
    <3> QED BY <1>13, <1>14, <1>17, <2>2, <3>2
  <2> QED BY <1>12, <2>1, <2>2
<1>20. LinesFollow(g, v)
  BY <1>8, <1>11, <1>14, <1>15, <1>16, <1>19 DEF LinesFollow
<1>21. LinesCounted(g, v)
  <2> SUFFICES ASSUME NEW i \in 1..(n + 1), NEW k \in 2..(n + 2),
                      i < k, g[i].head, NoHead(g, i, k), k = n + 2 \/ g[k].head
               PROVE  v[g[i].entry] = k - i
    BY <1>8 DEF LinesCounted
  <2>1. i \in 1..n /\ f[i].head
    BY <1>12, <1>13, <1>14
  <2>2. CASE k = n + 2
    <3>1. NoHead(f, i, n + 1)
      BY <1>18, <2>2
    <3>2. f[i].entry = e
      BY <1>17, <2>1, <3>1
    <3>3. n + 1 \in 2..(n + 1) /\ i < n + 1
      BY <1>10, <2>1
    <3>4. w[f[i].entry] = (n + 1) - i
      BY <1>2, <1>8, <1>9, <2>1, <3>1, <3>3 DEF LinesCounted
    <3>5. v[g[i].entry] = ((n + 1) - i) + 1
      BY <1>11, <1>13, <2>1, <3>2, <3>4
    <3> QED BY <2>1, <2>2, <3>5
  <2>3. CASE k # n + 2
    <3>1. k \in 1..n /\ f[k].head /\ k \in 2..(n + 1)
      <4>1. k \in 1..(n + 1) /\ k # n + 1
        BY <1>14, <2>3
      <4> QED BY <1>12, <1>13, <2>3, <4>1
    <3>2. w[f[i].entry] = k - i
      BY <1>2, <1>8, <1>9, <2>1, <3>1 DEF LinesCounted
    <3>3. f[i].entry # e
      <4>1. f[i].entry < f[k].entry
        BY <1>8, <1>9, <2>1, <3>1 DEF LinesFollow
      <4>2. f[k].entry \in 1..e /\ f[i].entry \in 1..e
        BY <1>13, <2>1, <3>1
      <4> QED BY <4>1, <4>2
    <3> QED BY <1>11, <1>13, <2>1, <3>2, <3>3
  <2> QED BY <2>2, <2>3
<1>22. \A x \in 1..(e - 1) : x \in 1..e /\ x # e
  OBVIOUS
<1> QED BY <1>1, <1>2, <1>3, <1>4, <1>8, <1>11, <1>20, <1>21, <1>22 DEF FileInv

\* An empty file.
LEMMA FileEmpty ==
  ASSUME NEW w \in Seq(Nat)
  PROVE  <<>> \in Seq(LogLines) /\ LinesFollow(<<>>, w) /\ LinesCounted(<<>>, w)
BY DEF LinesFollow, LinesCounted

\* Every step keeps the lines in order and counted.
LEMMA FileStep == FileInv /\ [LogNext]_logVars => FileInv'
<1> SUFFICES ASSUME FileInv, [LogNext]_logVars PROVE FileInv'
  OBVIOUS
<1>1. CASE WriteEntry
  BY <1>1, FileWrites
<1>2. CASE ContinueEntry
  BY <1>2, FileContinues
<1>3. CASE Rotate
  <2>1. logFile' = <<>> /\ written' = written
    BY <1>3 DEF Rotate
  <2> QED BY <2>1, FileEmpty DEF FileInv
<1>4. CASE UNCHANGED <<logFile, written>>
  BY <1>4 DEF FileInv
<1>5. CASE FirstSight \/ CheckpointUnread \/ SeeEmpty \/ flushBatch \/ flushFails \/ pruneLog \/ list \/ UNCHANGED logVars
  BY <1>4, <1>5 DEF FirstSight, CheckpointUnread, StartAtEnd, SeeEmpty, flushBatch, flushFails, pruneLog, list, logVars
<1> QED BY <1>1, <1>2, <1>3, <1>5 DEF LogNext


-----------------------------------------------------------------------------
(* One pass over the file.                                                 *)

\* The lowest and the highest of a set of positions.
LEMMA Extremes ==
  ASSUME NEW n \in Nat, NEW S \in SUBSET (1..n), S # {}
  PROVE  /\ Lowest(S) \in S /\ \A y \in S : Lowest(S) <= y
         /\ Highest(S) \in S /\ \A y \in S : y <= Highest(S)
<1>1. \E x \in S : \A y \in S : x <= y
  BY FirstExists
<1>2. \E x \in S : \A y \in S : y <= x
  BY LastExists
<1> QED BY <1>1, <1>2 DEF Lowest, Highest

\* What a pass reads, from an offset inside the file.
LEMMA LinesRead ==
  ASSUME FileInv, NEW from \in Nat, from < Len(logFile)
  PROVE  \E m \in Nat :
           /\ m = Len(ReadLines(from)) /\ from + m <= Len(logFile)
           /\ \A i \in 1..m : /\ ReadLines(from)[i] = logFile[from + i]
                              /\ from + i \in DOMAIN logFile
           /\ Heads(ReadLines(from)) = {i \in 1..m : logFile[from + i].head}
<1>1. PICK f \in Seq(LogLines) : f = logFile
  BY DEF FileInv
<1>2. PICK n \in Nat : n = Len(f) /\ DOMAIN f = 1..n
  OBVIOUS
<1>3. PICK r \in Nat \ {0} : r = MaxReadLines
  BY LogTailAssumption
<1>4. PICK to \in Nat : to = IF n <= from + r THEN n ELSE from + r
  OBVIOUS
<1>5. to <= n /\ from <= to
  BY <1>1, <1>2, <1>4
<1>6. PICK lines : lines = SubSeq(f, from + 1, to) /\ lines = ReadLines(from)
  BY <1>1, <1>2, <1>3, <1>4 DEF ReadLines
<1>7. from + 1 \in 1..(n + 1) /\ to \in from..n
  BY <1>2, <1>5
<1>8. PICK m \in Nat : m = to - from
  BY <1>5
<1>9. Len(lines) = m /\ \A i \in 1..m : lines[i] = f[from + i]
  BY <1>2, <1>5, <1>6, <1>7, <1>8
<1>10. \A i \in 1..m : from + i \in 1..n
  BY <1>5, <1>8
<1>11. from + m <= n
  BY <1>5, <1>8
<1>12. Heads(lines) = {i \in 1..m : f[from + i].head}
  BY <1>9 DEF Heads
<1> QED BY <1>1, <1>2, <1>6, <1>9, <1>10, <1>11, <1>12

\* An entry that a later header closes is folded whole.
LEMMA FoldedWhole ==
  ASSUME FileInv, NEW from \in Nat, from < Len(logFile), NEW lines, lines = ReadLines(from),
         NEW h \in ClosedHeads(lines)
  PROVE  /\ from + h \in DOMAIN logFile /\ logFile[from + h].head /\ h \in Heads(lines)
         /\ FoldedAt(lines, h).entry = logFile[from + h].entry
         /\ FoldedAt(lines, h).entry \in 1..(Len(written) - 1)
         /\ FoldedAt(lines, h).lines = written[FoldedAt(lines, h).entry]
         /\ Heads(lines) # {} /\ h < Highest(Heads(lines))
<1>1. PICK m \in Nat :
           /\ m = Len(lines) /\ from + m <= Len(logFile)
           /\ \A i \in 1..m : lines[i] = logFile[from + i] /\ from + i \in DOMAIN logFile
           /\ Heads(lines) = {i \in 1..m : logFile[from + i].head}
  BY LinesRead
<1>2. PICK H \in SUBSET (1..m) : H = Heads(lines)
  BY <1>1
<1>3. H # {} /\ h \in H /\ h # Highest(H)
  BY <1>2 DEF ClosedHeads
<1>4. Highest(H) \in H /\ \A y \in H : y <= Highest(H)
  BY <1>3, Extremes
<1>5. h < Highest(H) /\ h \in 1..m
  <2>1. PICK x \in H : x = Highest(H) /\ h <= x /\ h # x
    BY <1>3, <1>4
  <2>2. x \in 1..m /\ h \in 1..m
    BY <1>3
  <2> QED BY <2>1, <2>2
<1>6. PICK next : next = {j \in H : j > h}
  OBVIOUS
<1>7. next \in SUBSET (1..m) /\ Highest(H) \in next /\ next # {}
  BY <1>4, <1>5, <1>6
<1>8. PICK nx \in next : nx = Lowest(next) /\ \A y \in next : nx <= y
  BY <1>7, Extremes
<1>9. nx \in H /\ nx > h /\ nx \in 1..m
  BY <1>6, <1>7, <1>8
<1>10. FoldedAt(lines, h) = [entry |-> logFile[from + h].entry, lines |-> nx - h]
  BY <1>1, <1>2, <1>5, <1>6, <1>7, <1>8 DEF FoldedAt
<1>11. PICK f \in Seq(LogLines), w \in Seq(Nat) : f = logFile /\ w = written
  BY DEF FileInv
<1>12. PICK n \in Nat : n = Len(f) /\ DOMAIN f = 1..n
  OBVIOUS
<1>13. /\ from + h \in 1..n /\ f[from + h].head
       /\ from + nx \in 1..n /\ f[from + nx].head
  BY <1>1, <1>2, <1>3, <1>5, <1>9, <1>11, <1>12
<1>14. NoHead(f, from + h, from + nx)
  <2> SUFFICES ASSUME NEW k \in 1..n, from + h < k, k < from + nx, f[k].head PROVE FALSE
    BY <1>12 DEF NoHead
  <2>1. PICK j \in 1..m : k = from + j /\ h < j /\ j < nx
    <3>1. k - from \in 1..m /\ k = from + (k - from) /\ h < k - from /\ k - from < nx
      BY <1>5, <1>9
    <3> QED BY <3>1
  <2>2. j \in H
    BY <1>1, <1>2, <1>11, <2>1
  <2>3. j \in next
    BY <1>6, <2>1, <2>2, <1>5
  <2>4. nx <= j
    BY <1>8, <2>3
  <2> QED BY <1>9, <2>1, <2>4
<1>15. from + nx \in 2..(n + 1) /\ from + h < from + nx
  BY <1>5, <1>9, <1>13
<1>16. w[f[from + h].entry] = (from + nx) - (from + h)
  <2>1. LinesCounted(f, w)
    BY <1>11 DEF FileInv
  <2> QED BY <1>12, <1>13, <1>14, <1>15, <2>1 DEF LinesCounted
<1>17. f[from + h].entry \in 1..(Len(w) - 1)
  <2>1. LinesFollow(f, w)
    BY <1>11 DEF FileInv
  <2>2. f[from + h].entry < f[from + nx].entry
    BY <1>12, <1>13, <1>15, <2>1 DEF LinesFollow
  <2>3. f[from + h].entry \in 1..Len(w) /\ f[from + nx].entry \in 1..Len(w)
    BY <1>12, <1>13, <2>1 DEF LinesFollow
  <2>4. \A x, y \in 1..Len(w) : x < y => x \in 1..(Len(w) - 1)
    OBVIOUS
  <2> QED BY <2>2, <2>3, <2>4, Zenon
<1>18. w[f[from + h].entry] = nx - h
  <2>1. from \in Int /\ nx \in Int /\ h \in Int
    BY <1>5, <1>9
  <2> QED BY <1>16, <2>1
<1> QED BY <1>2, <1>3, <1>5, <1>10, <1>11, <1>12, <1>13, <1>17, <1>18

\* The new checkpoint is in the file, not before the old one, and every header behind it is
\* at or after the last one read.
LEMMA OffsetMoves ==
  ASSUME FileInv, NEW from \in Nat, from < Len(logFile), NEW lines, lines = ReadLines(from)
  PROVE  /\ NewOffset(from, lines) \in Nat
         /\ from <= NewOffset(from, lines) /\ NewOffset(from, lines) <= Len(logFile)
         /\ \A i \in DOMAIN logFile : i > NewOffset(from, lines) =>
              i > from /\ \A h \in ClosedHeads(lines) : from + h < i
         /\ IsFiniteSet(ClosedHeads(lines)) /\ ClosedHeads(lines) \in SUBSET Nat
<1>1. PICK m \in Nat :
           /\ m = Len(lines) /\ from + m <= Len(logFile)
           /\ Heads(lines) = {i \in 1..m : logFile[from + i].head}
  BY LinesRead
<1>2. PICK H \in SUBSET (1..m) : H = Heads(lines)
  BY <1>1
<1>3. ClosedHeads(lines) \in SUBSET H
  BY <1>2 DEF ClosedHeads
<1>4. IsFiniteSet(ClosedHeads(lines)) /\ ClosedHeads(lines) \in SUBSET Nat
  <2>1. ClosedHeads(lines) \in SUBSET (1..m)
    BY <1>3
  <2>2. IsFiniteSet(ClosedHeads(lines))
    BY <2>1, OidsFinite
  <2>3. 1..m \in SUBSET Nat
    OBVIOUS
  <2> QED BY <2>1, <2>2, <2>3
<1>5. PICK n \in Nat : n = Len(logFile) /\ DOMAIN logFile = 1..n
  BY DEF FileInv
<1>6. CASE H = {}
  <2>1. NewOffset(from, lines) = from + m /\ ClosedHeads(lines) = {}
    BY <1>1, <1>2, <1>6 DEF NewOffset, ClosedHeads
  <2>2. \A i \in 1..n : i > from + m => i > from
    OBVIOUS
  <2> QED BY <1>1, <1>4, <1>5, <2>1, <2>2
<1>7. CASE H # {}
  <2>1. PICK x \in H : x = Highest(H) /\ \A y \in H : y <= x
    BY <1>7, Extremes
  <2>2. NewOffset(from, lines) = from + x - 1 /\ ClosedHeads(lines) = H \ {x}
    BY <1>2, <1>7, <2>1 DEF NewOffset, ClosedHeads
  <2>3. x \in 1..m
    BY <2>1
  <2>4. \A h \in H \ {x} : h < x /\ h \in Nat
    BY <2>1
  <2>5. \A i \in 1..n : i > from + x - 1 => i > from /\ \A h \in Nat : h < x => from + h < i
    BY <2>3
  <2>6. from + x - 1 \in Nat /\ from <= from + x - 1 /\ from + x - 1 <= n
    BY <1>1, <1>5, <2>3
  <2> QED BY <1>4, <1>5, <2>2, <2>4, <2>5, <2>6
<1> QED BY <1>6, <1>7


-----------------------------------------------------------------------------
(* The table.                                                              *)

\* A row is an entry that is closed, the rows are in order, and what lies behind the
\* checkpoint is later than all of them.
RowInv ==
  /\ logInode \in Nat /\ logOffset \in [inode : Nat, offset : Nat]
  /\ logOid \in Nat \ {0}
  /\ DOMAIN logRows \in SUBSET (1 .. (logOid - 1))
  /\ \A o \in DOMAIN logRows : /\ logRows[o].entry \in 1 .. (Len(written) - 1)
                               /\ logRows[o].lines = written[logRows[o].entry]
  /\ \A o, p \in DOMAIN logRows : o < p => logRows[o].entry < logRows[p].entry
  /\ \A o \in DOMAIN logRows, i \in DOMAIN logFile :
       i > StartOffset /\ logFile[i].head => logRows[o].entry < logFile[i].entry

\* Headers in the order of the file get oids in that order.
LEMMA OidsOrdered ==
  ASSUME RowInv, NEW heads, IsFiniteSet(heads), heads \in SUBSET Nat
  PROVE  /\ Cardinality(heads) \in Nat
         /\ \A h \in heads : OidOf(heads, h) \in logOid .. (logOid + Cardinality(heads) - 1)
         /\ \A h, k \in heads : h < k => OidOf(heads, h) < OidOf(heads, k)
<1> DEFINE Lower(h) == {k \in heads : k < h}
<1>1. PICK l \in Nat \ {0} : l = logOid
  BY DEF RowInv
<1>2. \A T \in SUBSET heads : IsFiniteSet(T) /\ Cardinality(T) \in Nat
  BY FS_Subset, FS_CardinalityType
<1>3. \A h : Lower(h) \in SUBSET heads /\ OidOf(heads, h) = l + Cardinality(Lower(h))
  BY <1>1 DEF OidOf
<1>4. \A T \in SUBSET heads, U \in SUBSET heads : \A x \in U : T \in SUBSET U /\ x \notin T => Cardinality(T) < Cardinality(U)
  <2> SUFFICES ASSUME NEW T \in SUBSET heads, NEW U \in SUBSET heads, NEW x \in U, T \in SUBSET U, x \notin T
               PROVE  Cardinality(T) < Cardinality(U)
    OBVIOUS
  <2>1. T # U
    OBVIOUS
  <2>2. Cardinality(T) <= Cardinality(U) /\ (Cardinality(T) = Cardinality(U) => T = U)
    BY <1>2, FS_Subset
  <2>3. Cardinality(T) \in Nat /\ Cardinality(U) \in Nat
    BY <1>2
  <2> QED BY <2>1, <2>2, <2>3
<1>5. \A h \in heads : h \notin Lower(h)
  OBVIOUS
<1>6. \A h, k \in heads : h < k => Lower(h) \in SUBSET Lower(k) /\ h \in Lower(k)
  <2>1. \A h, k, x \in Nat : x < h /\ h < k => x < k
    OBVIOUS
  <2>2. \A h \in heads : h \in Nat
    OBVIOUS
  <2> QED BY <2>1, <2>2
<1> HIDE DEF Lower
<1>7. ASSUME NEW h \in heads PROVE OidOf(heads, h) \in logOid .. (logOid + Cardinality(heads) - 1)
  <2>1. Cardinality(Lower(h)) < Cardinality(heads)
    BY <1>3, <1>4, <1>5
  <2>2. Cardinality(Lower(h)) \in Nat /\ Cardinality(heads) \in Nat
    BY <1>2, <1>3
  <2>3. OidOf(heads, h) = l + Cardinality(Lower(h))
    BY <1>3
  <2> QED BY <1>1, <2>1, <2>2, <2>3
<1>8. ASSUME NEW h \in heads, NEW k \in heads, h < k PROVE OidOf(heads, h) < OidOf(heads, k)
  <2>1. Cardinality(Lower(h)) < Cardinality(Lower(k))
    BY <1>3, <1>4, <1>5, <1>6, <1>8
  <2>2. Cardinality(Lower(h)) \in Nat /\ Cardinality(Lower(k)) \in Nat
    BY <1>2, <1>3
  <2>3. OidOf(heads, h) = l + Cardinality(Lower(h)) /\ OidOf(heads, k) = l + Cardinality(Lower(k))
    BY <1>3
  <2> QED BY <2>1, <2>2, <2>3
<1> QED BY <1>2, <1>7, <1>8

\* The table after the insert: the old rows, and one for each header.
LEMMA InsertedRows ==
  ASSUME RowInv, NEW lines, NEW heads, IsFiniteSet(heads), heads \in SUBSET Nat
  PROVE  /\ \A o \in DOMAIN logRows : /\ o \in DOMAIN Inserted(lines, heads)
                                      /\ Inserted(lines, heads)[o] = logRows[o]
         /\ \A o \in DOMAIN Inserted(lines, heads) :
              \/ o \in DOMAIN logRows
              \/ \E h \in heads : o = OidOf(heads, h) /\ Inserted(lines, heads)[o] = FoldedAt(lines, h)
<1>1. PICK new : new = Inserted(lines, heads)
  OBVIOUS
<1>2. /\ DOMAIN new = DOMAIN logRows \cup {OidOf(heads, h) : h \in heads}
      /\ \A o \in DOMAIN new : new[o] = IF o \in DOMAIN logRows THEN logRows[o]
                                        ELSE FoldedAt(lines, CHOOSE h \in heads : OidOf(heads, h) = o)
  BY <1>1 DEF Inserted
<1>3. ASSUME NEW o \in DOMAIN new, o \notin DOMAIN logRows
      PROVE  \E h \in heads : o = OidOf(heads, h) /\ new[o] = FoldedAt(lines, h)
  <2>1. \E h \in heads : OidOf(heads, h) = o
    BY <1>2, <1>3
  <2>2. PICK h : h = CHOOSE k \in heads : OidOf(heads, k) = o
    OBVIOUS
  <2>3. h \in heads /\ OidOf(heads, h) = o
    BY <2>1, <2>2
  <2> QED BY <1>2, <1>3, <2>2, <2>3
<1> QED BY <1>1, <1>2, <1>3

\* Where a pass starts.
LEMMA StartType == RowInv /\ FileInv => StartOffset \in Nat /\ StartOffset <= Len(logFile)
<1> SUFFICES ASSUME RowInv, FileInv PROVE StartOffset \in Nat /\ StartOffset <= Len(logFile)
  OBVIOUS
<1>1. Len(logFile) \in Nat /\ logOffset.offset \in Nat
  BY DEF RowInv, FileInv
<1> QED BY <1>1 DEF StartOffset

\* The rows of a pass and its checkpoint are stored together.
LEMMA RowsFlushed ==
  ASSUME RowInv, FileInv, flushBatch
  PROVE  RowInv'
<1>1. PICK from \in Nat : from = StartOffset /\ from < Len(logFile)
  BY StartType DEF flushBatch, HasWork
<1>2. PICK lines : lines = ReadLines(from)
  OBVIOUS
<1>3. PICK heads : heads = ClosedHeads(lines)
  OBVIOUS
<1>4. /\ logRows' = Inserted(lines, heads) /\ logOid' = logOid + Cardinality(heads)
      /\ logOffset' = [inode |-> logInode, offset |-> NewOffset(from, lines)]
      /\ logFile' = logFile /\ logInode' = logInode /\ written' = written
  BY <1>1, <1>2, <1>3 DEF flushBatch
<1>5. PICK to \in Nat : /\ to = NewOffset(from, lines) /\ to <= Len(logFile)
                        /\ \A i \in DOMAIN logFile : i > to => i > from /\ \A h \in heads : from + h < i
                        /\ IsFiniteSet(heads) /\ heads \in SUBSET Nat
  BY <1>1, <1>2, <1>3, OffsetMoves
<1>6. /\ Cardinality(heads) \in Nat
      /\ \A h \in heads : OidOf(heads, h) \in logOid .. (logOid + Cardinality(heads) - 1)
      /\ \A h, k \in heads : h < k => OidOf(heads, h) < OidOf(heads, k)
  BY <1>5, OidsOrdered
<1>7. PICK new : new = Inserted(lines, heads)
  OBVIOUS
<1>8. /\ \A o \in DOMAIN logRows : o \in DOMAIN new /\ new[o] = logRows[o]
      /\ \A o \in DOMAIN new :
           \/ o \in DOMAIN logRows
           \/ \E h \in heads : o = OidOf(heads, h) /\ new[o] = FoldedAt(lines, h)
  <2>1. IsFiniteSet(heads) /\ heads \in SUBSET Nat
    BY <1>5
  <2>2. /\ \A o \in DOMAIN logRows : /\ o \in DOMAIN Inserted(lines, heads)
                                     /\ Inserted(lines, heads)[o] = logRows[o]
        /\ \A o \in DOMAIN Inserted(lines, heads) :
             \/ o \in DOMAIN logRows
             \/ \E h \in heads : o = OidOf(heads, h) /\ Inserted(lines, heads)[o] = FoldedAt(lines, h)
    BY <2>1, InsertedRows
  <2> QED BY <1>7, <2>2
<1>9. \A h \in heads :
        /\ from + h \in DOMAIN logFile /\ logFile[from + h].head
        /\ FoldedAt(lines, h).entry = logFile[from + h].entry
        /\ FoldedAt(lines, h).entry \in 1..(Len(written) - 1)
        /\ FoldedAt(lines, h).lines = written[FoldedAt(lines, h).entry]
  BY <1>1, <1>2, <1>3, FoldedWhole
<1>10. PICK l \in Nat \ {0}, c \in Nat : l = logOid /\ c = Cardinality(heads)
  BY <1>6 DEF RowInv
<1>11. \A o \in DOMAIN logRows : o \in 1..(l - 1) /\ o < l
  BY <1>10 DEF RowInv
<1>12. DOMAIN new \in SUBSET (1 .. ((l + c) - 1))
  BY <1>6, <1>8, <1>10, <1>11
<1>13. \A o \in DOMAIN new : new[o].entry \in 1..(Len(written) - 1) /\ new[o].lines = written[new[o].entry]
  BY <1>8, <1>9 DEF RowInv
<1>14. ASSUME NEW o \in DOMAIN new, NEW p \in DOMAIN new, o < p PROVE new[o].entry < new[p].entry
  <2>1. CASE o \in DOMAIN logRows /\ p \in DOMAIN logRows
    BY <1>8, <1>14, <2>1 DEF RowInv
  <2>2. CASE o \in DOMAIN logRows /\ p \notin DOMAIN logRows
    <3>1. PICK h \in heads : p = OidOf(heads, h) /\ new[p] = FoldedAt(lines, h)
      BY <1>8, <2>2
    <3>2. from + h \in DOMAIN logFile /\ logFile[from + h].head /\ new[p].entry = logFile[from + h].entry
      BY <1>9, <3>1
    <3>3. from + h > from
      <4>1. h > 0
        <5>1. h \in Heads(lines)
          BY <1>1, <1>2, <1>3, FoldedWhole
        <5> QED BY <5>1 DEF Heads
      <4>2. h \in Nat
        BY <1>5
      <4> QED BY <4>1, <4>2
    <3>4. logRows[o].entry < logFile[from + h].entry
      BY <1>1, <2>2, <3>2, <3>3 DEF RowInv
    <3> QED BY <1>8, <2>2, <3>2, <3>4
  <2>3. CASE o \notin DOMAIN logRows /\ p \in DOMAIN logRows
    <3>1. PICK h \in heads : o = OidOf(heads, h)
      BY <1>8, <2>3
    <3>2. o \in l .. (l + c - 1)
      BY <1>6, <1>10, <3>1
    <3> QED BY <1>11, <1>14, <2>3, <3>2
  <2>4. CASE o \notin DOMAIN logRows /\ p \notin DOMAIN logRows
    <3>1. PICK h \in heads : o = OidOf(heads, h) /\ new[o] = FoldedAt(lines, h)
      BY <1>8, <2>4
    <3>2. PICK k \in heads : p = OidOf(heads, k) /\ new[p] = FoldedAt(lines, k)
      BY <1>8, <2>4
    <3>3. h < k
      <4>1. h \in Nat /\ k \in Nat
        BY <1>5
      <4>2. o \in Int /\ p \in Int
        BY <1>6, <1>10, <3>1, <3>2
      <4>3. ~(k < h) /\ h # k
        BY <1>6, <1>14, <3>1, <3>2, <4>2
      <4> QED BY <4>1, <4>3
    <3>4. from + h < from + k
      BY <1>5, <3>3
    <3>5. logFile[from + h].entry < logFile[from + k].entry
      BY <1>9, <3>4 DEF FileInv, LinesFollow
    <3> QED BY <1>9, <3>1, <3>2, <3>5
  <2> QED BY <2>1, <2>2, <2>3, <2>4
<1>15. StartOffset' = to
  <2>1. logOffset'.offset = to /\ logOffset'.inode = logInode
    BY <1>4, <1>5
  <2>2. Len(logFile) \in Nat
    BY DEF FileInv
  <2> QED BY <1>4, <1>5, <2>1, <2>2 DEF StartOffset
<1>16. ASSUME NEW o \in DOMAIN new, NEW i \in DOMAIN logFile, i > to, logFile[i].head
       PROVE  new[o].entry < logFile[i].entry
  <2>1. CASE o \in DOMAIN logRows
    <3>1. i > from
      BY <1>5, <1>16
    <3> QED BY <1>1, <1>8, <1>16, <2>1, <3>1 DEF RowInv
  <2>2. CASE o \notin DOMAIN logRows
    <3>1. PICK h \in heads : new[o] = FoldedAt(lines, h)
      BY <1>8, <2>2
    <3>2. from + h < i
      BY <1>5, <1>16
    <3>3. logFile[from + h].entry < logFile[i].entry
      BY <1>9, <1>16, <3>2 DEF FileInv, LinesFollow
    <3> QED BY <1>9, <3>1, <3>3
  <2> QED BY <2>1, <2>2
<1>17. logOid' = l + c /\ l + c \in Nat \ {0} /\ logOffset' \in [inode : Nat, offset : Nat]
  BY <1>4, <1>5, <1>10 DEF RowInv
<1>18. logRows' = new
  BY <1>4, <1>7
<1> QED BY <1>4, <1>12, <1>13, <1>14, <1>15, <1>16, <1>17, <1>18 DEF RowInv

\* Fewer rows, or oids skipped by a transaction that failed.
LEMMA RowsFewer ==
  ASSUME RowInv, UNCHANGED <<logFile, logInode, written, logOffset>>,
         NEW c \in Nat, logOid' = logOid + c,
         \A o \in DOMAIN logRows' : o \in DOMAIN logRows /\ logRows'[o] = logRows[o]
  PROVE  RowInv'
<1>1. StartOffset' = StartOffset
  BY DEF StartOffset
<1>2. PICK l \in Nat \ {0} : l = logOid
  BY DEF RowInv
<1>3. DOMAIN logRows' \in SUBSET (1 .. (l + c - 1)) /\ l + c \in Nat \ {0}
  <2>1. \A o \in 1..(l - 1) : o \in 1..(l + c - 1)
    OBVIOUS
  <2> QED BY <1>2, <2>1 DEF RowInv
<1> QED BY <1>1, <1>2, <1>3 DEF RowInv

\* The file grows or is replaced: no row changes, and the start does not move back.
LEMMA RowsWritten ==
  ASSUME RowInv, FileInv, WriteEntry \/ ContinueEntry \/ Rotate
  PROVE  RowInv'
<1>1. logRows' = logRows /\ logOid' = logOid /\ logOffset' = logOffset /\ logInode' \in Nat
  BY DEF WriteEntry, ContinueEntry, Rotate, RowInv
<1>2. PICK e \in Nat : e = Len(written)
  BY DEF FileInv
<1>3. /\ Len(written') \in {e, e + 1} /\ \A x \in 1..(e - 1) : written'[x] = written[x]
  <2>1. CASE WriteEntry
    <3>1. written' = Append(written, 1) /\ written \in Seq(Nat)
      BY <2>1 DEF WriteEntry, FileInv
    <3> QED BY <1>2, <3>1
  <2>2. CASE ContinueEntry
    BY <1>2, <2>2, FileContinues
  <2>3. CASE Rotate
    BY <1>2, <2>3 DEF Rotate
  <2> QED BY <2>1, <2>2, <2>3
<1>4. \A o \in DOMAIN logRows : /\ logRows[o].entry \in 1..(Len(written') - 1)
                                /\ logRows[o].lines = written'[logRows[o].entry]
  <2>1. \A o \in DOMAIN logRows : logRows[o].entry \in 1..(e - 1) /\ logRows[o].lines = written[logRows[o].entry]
    BY <1>2 DEF RowInv
  <2>2. \A x \in 1..(e - 1) : x \in 1..(Len(written') - 1)
    BY <1>3
  <2> QED BY <1>3, <2>1, <2>2
<1>5. ASSUME NEW o \in DOMAIN logRows, NEW i \in DOMAIN logFile', i > StartOffset', logFile'[i].head
      PROVE  logRows[o].entry < logFile'[i].entry
  <2>1. CASE Rotate
    BY <1>5, <2>1 DEF Rotate
  <2>2. PICK f \in Seq(LogLines) : f = logFile
    BY DEF FileInv
  <2>3. PICK n \in Nat : n = Len(f) /\ DOMAIN f = 1..n
    OBVIOUS
  <2>4. ASSUME NEW line \in LogLines, logFile' = Append(f, line), logInode' = logInode,
               line.head => line.entry = e + 1
        PROVE  logRows[o].entry < logFile'[i].entry
    <3>1. Len(logFile') = n + 1 /\ logFile'[n + 1] = line /\ \A k \in 1..n : logFile'[k] = f[k]
      BY <2>3, <2>4, AppendProperties
    <3>2. logFile' \in Seq(LogLines)
      BY <2>4, AppendProperties
    <3>3. DOMAIN logFile' = 1..(n + 1)
      BY <3>1, <3>2
    <3>4. StartOffset' >= StartOffset
      <4>1. PICK off \in Nat : off = logOffset.offset
        BY DEF RowInv
      <4>2. \A same \in BOOLEAN : (IF ~same \/ n + 1 < off THEN 0 ELSE off) >= (IF ~same \/ n < off THEN 0 ELSE off)
        BY <4>1
      <4>3. StartOffset = IF ~(logInode = logOffset.inode) \/ n < off THEN 0 ELSE off
        BY <2>2, <2>3, <4>1 DEF StartOffset
      <4>4. StartOffset' = IF ~(logInode = logOffset.inode) \/ n + 1 < off THEN 0 ELSE off
        BY <1>1, <2>4, <3>1, <4>1 DEF StartOffset
      <4> QED BY <4>2, <4>3, <4>4
    <3>5. CASE i = n + 1
      <4>1. logFile'[i].entry = e + 1
        BY <1>5, <2>4, <3>1, <3>5
      <4>2. logRows[o].entry \in 1..(e - 1)
        BY <1>2 DEF RowInv
      <4> QED BY <4>1, <4>2
    <3>6. CASE i \in 1..n
      <4>1. StartOffset \in Nat /\ StartOffset' \in Nat
        BY StartType, <1>1 DEF StartOffset, RowInv
      <4>2. i > StartOffset
        BY <1>5, <3>4, <3>6, <4>1
      <4>3. f[i].head /\ logFile'[i] = f[i]
        BY <1>5, <3>1, <3>6
      <4> QED BY <2>2, <2>3, <3>6, <4>2, <4>3 DEF RowInv
    <3>7. i \in 1..(n + 1)
      BY <3>3
    <3>8. i = n + 1 \/ i \in 1..n
      BY <3>7
    <3> QED BY <3>5, <3>6, <3>8
  <2>5. CASE WriteEntry
    <3>1. PICK line : line = [entry |-> e + 1, head |-> TRUE]
      OBVIOUS
    <3>2. line \in LogLines /\ line.entry = e + 1
      BY <3>1 DEF LogLines
    <3>3. logFile' = Append(f, line) /\ logInode' = logInode
      BY <1>2, <2>2, <2>5, <3>1 DEF WriteEntry
    <3> QED BY <2>4, <3>2, <3>3
  <2>6. CASE ContinueEntry
    <3>1. PICK line : line = [entry |-> e, head |-> FALSE]
      OBVIOUS
    <3>2. line \in LogLines /\ line.head = FALSE
      BY <3>1 DEF LogLines
    <3>3. logFile' = Append(f, line) /\ logInode' = logInode
      BY <1>2, <2>2, <2>6, <3>1 DEF ContinueEntry
    <3> QED BY <2>4, <3>2, <3>3
  <2> QED BY <2>1, <2>5, <2>6
<1> QED BY <1>1, <1>4, <1>5 DEF RowInv

\* A checkpoint that is set without reading leaves nothing behind it.
LEMMA RowsSeen ==
  ASSUME RowInv, FileInv, FirstSight \/ CheckpointUnread \/ SeeEmpty
  PROVE  RowInv'
<1>1. UNCHANGED <<logFile, logInode, written, logRows, logOid>>
  BY DEF FirstSight, CheckpointUnread, StartAtEnd, SeeEmpty
<1>2. PICK n \in Nat : n = Len(logFile) /\ DOMAIN logFile = 1..n
  BY DEF FileInv
<1>3. \A i \in DOMAIN logFile : ~(i > StartOffset')
  <2>1. CASE FirstSight \/ CheckpointUnread
    <3>1. logOffset'.inode = logInode /\ logOffset'.offset = n
      BY <1>2, <2>1 DEF FirstSight, CheckpointUnread, StartAtEnd
    <3>2. StartOffset' = n
      BY <1>1, <1>2, <3>1 DEF StartOffset
    <3> QED BY <1>2, <3>2
  <2>2. CASE SeeEmpty
    <3>1. StartOffset = 0 /\ 0 >= n
      BY <1>2, <2>2 DEF SeeEmpty, StartOffset
    <3> QED BY <1>2, <3>1
  <2> QED BY <2>1, <2>2
<1>4. logOffset' \in [inode : Nat, offset : Nat]
  <2>1. CASE FirstSight \/ CheckpointUnread
    BY <1>2, <2>1 DEF FirstSight, CheckpointUnread, StartAtEnd, RowInv
  <2>2. CASE SeeEmpty
    BY <2>2 DEF SeeEmpty, RowInv
  <2> QED BY <2>1, <2>2
<1> QED BY <1>1, <1>3, <1>4 DEF RowInv


\* Every step keeps the table in order.
LEMMA RowStep == RowInv /\ FileInv /\ [LogNext]_logVars => RowInv'
<1> SUFFICES ASSUME RowInv, FileInv, [LogNext]_logVars PROVE RowInv'
  OBVIOUS
<1>1. CASE WriteEntry \/ ContinueEntry \/ Rotate
  BY <1>1, RowsWritten
<1>2. CASE FirstSight \/ CheckpointUnread \/ SeeEmpty
  BY <1>2, RowsSeen
<1>3. CASE flushBatch
  BY <1>3, RowsFlushed
<1>4. CASE UNCHANGED <<logFile, logInode, written, logOffset, logOid, logRows>>
  <2>1. logOid' = logOid + 0
    BY <1>4 DEF RowInv
  <2> QED BY <1>4, <2>1, RowsFewer
<1>5. CASE pruneLog
  <2>1. \A o \in DOMAIN logRows' : o \in DOMAIN logRows /\ logRows'[o] = logRows[o]
    BY <1>5 DEF pruneLog
  <2>2. logOid' = logOid + 0 /\ UNCHANGED <<logFile, logInode, written, logOffset>>
    BY <1>5 DEF pruneLog, RowInv
  <2> QED BY <2>1, <2>2, RowsFewer
<1>6. CASE flushFails
  <2>1. PICK from \in Nat : from = StartOffset /\ from < Len(logFile)
    BY <1>6, StartType DEF flushFails, HasWork
  <2>2. PICK c \in Nat : c = Cardinality(ClosedHeads(ReadLines(from)))
    <3>1. IsFiniteSet(ClosedHeads(ReadLines(from)))
      BY <2>1, OffsetMoves
    <3> QED BY <3>1, FS_CardinalityType
  <2>3. logOid' = logOid + 0 \/ logOid' = logOid + c
    BY <1>6, <2>1, <2>2 DEF flushFails, RowInv
  <2>4. UNCHANGED <<logFile, logInode, written, logOffset, logRows>>
    BY <1>6 DEF flushFails
  <2> QED BY <2>3, <2>4, RowsFewer
<1>7. CASE list \/ UNCHANGED logVars
  BY <1>4, <1>7 DEF list, logVars
<1> QED BY <1>1, <1>2, <1>3, <1>5, <1>6, <1>7 DEF LogNext

-----------------------------------------------------------------------------
(* The log page.                                                           *)

\* The pages go down to the cursor and hold every row from the first one served to it.
LogPagerInv ==
  /\ pager.pages \in Seq(OidSets) /\ Descending(pager.pages)
  /\ pager.cursor \in Nat /\ pager.top \in Nat /\ pager.top < logOid
  /\ pager.cursor = 0 => pager.pages = <<>> /\ pager.top = 0
  /\ pager.cursor # 0 => pager.top # 0
  /\ \A o \in Served(pager.pages) : o >= pager.cursor
  /\ \A o \in DOMAIN logRows :
       pager.cursor # 0 /\ pager.cursor <= o /\ o <= pager.top => o \in Served(pager.pages)

\* The next page.
LEMMA LogPagerReads ==
  ASSUME RowInv, LogPagerInv, list
  PROVE  LogPagerInv'
<1>0. logRows' = logRows /\ logOid' = logOid
  BY DEF list
<1>1. PICK n \in Nat : logOid = n + 1 /\ DOMAIN logRows \in SUBSET (1..n)
  <2>1. logOid \in Nat \ {0} /\ DOMAIN logRows \in SUBSET (1..(logOid - 1))
    BY DEF RowInv
  <2>2. logOid - 1 \in Nat /\ logOid = (logOid - 1) + 1
    BY <2>1
  <2> QED BY <2>1, <2>2
<1>2. PICK cur \in Nat, top \in Nat, pages \in Seq(OidSets) :
        cur = pager.cursor /\ top = pager.top /\ pages = pager.pages
  BY DEF LogPagerInv
<1>3. PICK match : match = {o \in DOMAIN logRows : cur = 0 \/ o < cur}
  OBVIOUS
<1>4. PICK page : /\ page = {o \in match : Cardinality({k \in match : k >= o}) <= PageRows}
                  /\ page # {}
                  /\ pager' = [pages |-> Append(pages, page), cursor |-> Lowest(page),
                               top |-> IF top = 0 THEN Highest(page) ELSE top]
  BY <1>2, <1>3 DEF list, Below
<1>5. match \in SUBSET (1..n)
  BY <1>1, <1>3
<1>6. page \in SUBSET match /\ \A x \in match : x \in page <=> Cardinality(From(match, x)) <= PageRows
  BY <1>4 DEF From
<1>7. PICK b \in Nat \ {0} : b = PageRows
  BY LogTailAssumption
<1>8. \A x \in page, y \in match : y >= x => y \in page
  BY <1>5, <1>6, <1>7, NewestOnes
<1>9. page \in SUBSET (1..n) /\ page \in OidSets
  BY <1>5, <1>6 DEF OidSets
<1>10. PICK c \in page, t \in page : /\ c = Lowest(page) /\ \A y \in page : c <= y
                                     /\ t = Highest(page)
  BY <1>4, <1>9, Extremes
<1>11. c \in 1..n /\ t \in 1..n
  BY <1>9
<1>12. \A a \in Served(pages) : a \in Nat
  BY DEF Served, Entries, OidSets
<1>13. \A a \in Served(pages), x \in page : x < a
  <2>1. CASE cur = 0
    <3>1. Served(pages) = {}
      BY <1>2, <2>1, NothingServed DEF LogPagerInv
    <3> QED BY <3>1
  <2>2. CASE cur # 0
    <3>1. \A x \in page : x < cur /\ x \in Nat
      BY <1>3, <1>6, <1>9, <2>2
    <3>2. \A a \in Served(pages) : a >= cur
      BY <1>2 DEF LogPagerInv
    <3>3. \A a, x \in Nat : a >= cur /\ x < cur => x < a
      OBVIOUS
    <3> QED BY <1>12, <3>1, <3>2, <3>3
  <2> QED BY <2>1, <2>2
<1>14. PICK more : more = Append(pages, page)
  OBVIOUS
<1>15. more \in Seq(OidSets) /\ Descending(more) /\ Served(more) = Served(pages) \cup page
  <2>1. Descending(pages)
    BY <1>2 DEF LogPagerInv
  <2> QED BY <1>9, <1>13, <1>14, <2>1, OnePageMore
<1>16. PICK newTop \in Nat : newTop = (IF top = 0 THEN t ELSE top) /\ newTop # 0 /\ newTop < n + 1
  <2>1. top < n + 1
    BY <1>1, <1>2 DEF LogPagerInv
  <2> QED BY <1>11, <2>1
<1>17. pager'.pages = more /\ pager'.cursor = c /\ pager'.top = newTop
  BY <1>4, <1>10, <1>14, <1>16
<1>18. \A o \in Served(more) : o >= c
  <2>1. \A o \in page : o >= c
    BY <1>9, <1>10
  <2>2. \A o \in Served(pages) : c < o
    BY <1>13
  <2>3. \A o \in Nat : c < o => o >= c
    BY <1>11
  <2> QED BY <1>12, <1>15, <2>1, <2>2, <2>3
<1>19. ASSUME NEW o \in DOMAIN logRows, c <= o, o <= newTop PROVE o \in Served(more)
  <2>1. o \in Nat
    BY <1>1
  <2>2. CASE cur = 0 \/ o < cur
    <3>1. o \in match
      BY <1>3, <2>2
    <3>2. o >= c
      BY <1>11, <1>19, <2>1
    <3> QED BY <1>8, <1>10, <1>15, <3>1, <3>2
  <2>3. CASE cur # 0 /\ cur <= o
    <3>1. newTop = top
      BY <1>2, <1>16, <2>3 DEF LogPagerInv
    <3>2. o \in Served(pages)
      BY <1>2, <1>19, <2>3, <3>1 DEF LogPagerInv
    <3> QED BY <1>15, <3>2
  <2> QED BY <2>1, <2>2, <2>3
<1>20. c # 0 /\ c \in Nat
  BY <1>11
<1> QED BY <1>0, <1>1, <1>15, <1>16, <1>17, <1>18, <1>19, <1>20 DEF LogPagerInv

\* Rows come and go under the reader: a new one is above its first page.
LEMMA LogPagerWaits ==
  ASSUME RowInv, LogPagerInv, pager' = pager, logOid' \in Nat, logOid' >= logOid,
         DOMAIN logRows' \in SUBSET Nat,
         \A o \in DOMAIN logRows' : o \in DOMAIN logRows \/ o >= logOid
  PROVE  LogPagerInv'
<1>1. PICK top \in Nat, l \in Nat : top = pager.top /\ l = logOid /\ top < l
  BY DEF LogPagerInv, RowInv
<1>2. \A o \in DOMAIN logRows' : o <= top => o \in DOMAIN logRows
  <2> SUFFICES ASSUME NEW o \in DOMAIN logRows', o <= top, o >= l PROVE FALSE
    BY <1>1
  <2>1. o \in Int
    OBVIOUS
  <2> QED BY <1>1, <2>1
<1>3. top < logOid'
  BY <1>1
<1>4. PICK p : p = pager /\ p = pager'
  OBVIOUS
<1> QED BY <1>1, <1>2, <1>3, <1>4 DEF LogPagerInv

\* Every step keeps what the pages promise.
LEMMA LogPagerStep == RowInv /\ FileInv /\ LogPagerInv /\ RowInv' /\ [LogNext]_logVars => LogPagerInv'
<1> SUFFICES ASSUME RowInv, FileInv, LogPagerInv, RowInv', [LogNext]_logVars PROVE LogPagerInv'
  OBVIOUS
<1>1. CASE list
  BY <1>1, LogPagerReads
<1>2. logOid' \in Nat /\ DOMAIN logRows' \in SUBSET Nat
  <2>1. logOid' \in Nat \ {0} /\ DOMAIN logRows' \in SUBSET (1 .. (logOid' - 1))
    BY DEF RowInv
  <2> QED BY <2>1
<1>3. CASE flushBatch
  <2>1. PICK from \in Nat : from = StartOffset /\ from < Len(logFile)
    BY <1>3, StartType DEF flushBatch, HasWork
  <2>2. PICK lines : lines = ReadLines(from)
    OBVIOUS
  <2>3. PICK heads : heads = ClosedHeads(lines)
    OBVIOUS
  <2>4. /\ logRows' = Inserted(lines, heads) /\ logOid' = logOid + Cardinality(heads)
        /\ pager' = pager
    BY <1>3, <2>1, <2>2, <2>3 DEF flushBatch
  <2>5. IsFiniteSet(heads) /\ heads \in SUBSET Nat
    BY <2>1, <2>2, <2>3, OffsetMoves
  <2>6. /\ Cardinality(heads) \in Nat
        /\ \A h \in heads : OidOf(heads, h) \in logOid .. (logOid + Cardinality(heads) - 1)
    BY <2>5, OidsOrdered
  <2>7. \A o \in DOMAIN logRows' : o \in DOMAIN logRows \/ \E h \in heads : o = OidOf(heads, h)
    BY <2>4, <2>5, InsertedRows
  <2>8. \A o \in DOMAIN logRows' : o \in DOMAIN logRows \/ o >= logOid
    <3>1. \A h \in heads : OidOf(heads, h) >= logOid
      BY <2>6 DEF RowInv
    <3> QED BY <2>7, <3>1
  <2>9. logOid' >= logOid
    BY <2>4, <2>6 DEF RowInv
  <2> QED BY <1>2, <2>4, <2>8, <2>9, LogPagerWaits
<1>4. CASE pager' = pager /\ logOid' >= logOid /\ \A o \in DOMAIN logRows' : o \in DOMAIN logRows
  BY <1>2, <1>4, LogPagerWaits
<1>5. CASE pruneLog
  <2>1. pager' = pager /\ logOid' = logOid /\ \A o \in DOMAIN logRows' : o \in DOMAIN logRows
    BY <1>5 DEF pruneLog
  <2>2. logOid >= logOid
    BY DEF RowInv
  <2> QED BY <1>4, <2>1, <2>2
<1>6. CASE flushFails
  <2>1. PICK from \in Nat : from = StartOffset /\ from < Len(logFile)
    BY <1>6, StartType DEF flushFails, HasWork
  <2>2. PICK c \in Nat : c = Cardinality(ClosedHeads(ReadLines(from)))
    <3>1. IsFiniteSet(ClosedHeads(ReadLines(from)))
      BY <2>1, OffsetMoves
    <3> QED BY <3>1, FS_CardinalityType
  <2>3. logOid' = logOid \/ logOid' = logOid + c
    BY <1>6, <2>1, <2>2 DEF flushFails
  <2>4. logRows' = logRows /\ pager' = pager
    BY <1>6 DEF flushFails
  <2>5. logOid' >= logOid
    BY <2>3 DEF RowInv
  <2> QED BY <1>4, <2>4, <2>5
<1>7. CASE UNCHANGED <<logRows, logOid, pager>>
  <2>1. logOid' >= logOid
    BY <1>7 DEF RowInv
  <2> QED BY <1>4, <1>7, <2>1
<1>8. CASE WriteEntry \/ ContinueEntry \/ Rotate \/ FirstSight \/ CheckpointUnread \/ SeeEmpty \/ UNCHANGED logVars
  BY <1>7, <1>8 DEF WriteEntry, ContinueEntry, Rotate, FirstSight, CheckpointUnread, StartAtEnd, SeeEmpty, logVars
<1> QED BY <1>1, <1>3, <1>5, <1>6, <1>8 DEF LogNext

\* The log starts empty.
LEMMA LogStart == LogInit => FileInv /\ RowInv /\ LogPagerInv
<1> SUFFICES ASSUME LogInit PROVE FileInv /\ RowInv /\ LogPagerInv
  OBVIOUS
<1>1. /\ logFile = <<>> /\ logInode = 1 /\ written = <<>> /\ logRows = <<>> /\ logOid = 1
      /\ logOffset = [inode |-> 0, offset |-> 0] /\ pager = NoPager
  BY DEF LogInit
<1>2. FileInv
  <2>1. <<>> \in Seq(Nat)
    OBVIOUS
  <2>2. <<>> \in Seq(LogLines) /\ LinesFollow(<<>>, <<>>) /\ LinesCounted(<<>>, <<>>)
    BY <2>1, FileEmpty
  <2> QED BY <1>1, <2>1, <2>2 DEF FileInv
<1>3. DOMAIN logRows = {}
  BY <1>1
<1>4. RowInv
  BY <1>1, <1>3 DEF RowInv
<1>5. pager.pages = <<>> /\ pager.cursor = 0 /\ pager.top = 0
  BY <1>1 DEF NoPager
<1>6. LogPagerInv
  BY <1>1, <1>3, <1>5, NothingServed DEF LogPagerInv
<1> QED BY <1>2, <1>4, <1>6

\* The index of a log, for files, entries and pages of any size: whatever the daemon writes
\* and rotates between the passes and however transactions fail, a row is a whole entry, no
\* entry is stored twice, and a console that follows the cursor sees every row once.
THEOREM RowsSoundAlways == LogSpec => []RowsSound
<1>1. LogInit => FileInv /\ RowInv /\ LogPagerInv
  BY LogStart
<1>2. FileInv /\ RowInv /\ LogPagerInv /\ [LogNext]_logVars => (FileInv /\ RowInv /\ LogPagerInv)'
  BY FileStep, RowStep, LogPagerStep
<1>3. FileInv /\ RowInv /\ LogPagerInv => RowsSound
  <2> SUFFICES ASSUME FileInv, RowInv, LogPagerInv PROVE RowsSound
    OBVIOUS
  <2>1. RowsWhole
    BY DEF RowInv, RowsWhole
  <2>2. ASSUME NEW o \in DOMAIN logRows, o \in pager.cursor .. pager.top
        PROVE  \E i \in DOMAIN pager.pages : o \in pager.pages[i]
    <3>1. o # 0 /\ o \in Nat
      BY DEF RowInv
    <3>2. pager.cursor <= o /\ o <= pager.top
      BY <2>2, <3>1 DEF LogPagerInv
    <3>3. pager.cursor # 0
      <4> SUFFICES ASSUME pager.cursor = 0 PROVE FALSE
        OBVIOUS
      <4>1. pager.top = 0
        BY DEF LogPagerInv
      <4> QED BY <3>1, <3>2, <4>1
    <3>4. o \in Served(pager.pages)
      BY <3>2, <3>3 DEF LogPagerInv
    <3> QED BY <3>4 DEF Served, Entries
  <2>3. PagesExact
    BY <2>2 DEF LogPagerInv, Descending, PagesExact
  <2> QED BY <2>1, <2>3 DEF RowsSound
<1> QED BY <1>1, <1>2, <1>3, PTL DEF LogSpec

=============================================================================
