---------------------------- MODULE Credentials -----------------------------
(***************************************************************************)
(* API credentials: the operator's tests and saves in mgmtd, collectord    *)
(* that runs them and keeps the opened secrets in memory, and engined that *)
(* stores the sealed ones.                                                 *)
(*                                                                         *)
(* collectord is single-threaded: a frame, a timer and an HTTP completion  *)
(* are each handled in one step.  Passwords and issued keys are numbers, 0 *)
(* for an empty string; keys count up as devices issue them.  Profile oids *)
(* name API keys, device oids name SASE tenants with a health api-key; both *)
(* are looked up in one cache.                                             *)
(***************************************************************************)
EXTENDS HttpClient, Sequences, FiniteSets

CONSTANTS Profiles,     \* oids of the API Key records
          SaseDevices,  \* oids of the SASE devices
          SaseProfiles, \* profiles whose device is a SASE tenant
          AutoProfiles, \* profiles with refresh_mode auto and a device
          Passwords,    \* what an operator can type, 1..n
          MaxTickets,   \* bound: tests and saves per behaviour
          MaxKeys,      \* bound: keys issued by devices
          MaxRefreshes, \* bound: auto-refresh rounds
          MaxFaults,    \* bound: restarts, lost frames, failed statements
          HeldResults   \* takeApiTestResult's store: 256 in the code

ASSUME CredentialAssumption ==
  /\ SaseProfiles \subseteq Profiles /\ AutoProfiles \subseteq Profiles
  /\ Profiles \cap SaseDevices = {}
  /\ Passwords \subseteq Nat \ {0}
  /\ {MaxTickets, MaxKeys, MaxRefreshes, MaxFaults, HeldResults} \subseteq Nat

VARIABLES
  issuedKeys,   \* collectord m_issuedKeys, profile and device oids
  saseAccounts,     \* collectord m_credentials
  setupDone,    \* collectord m_setupDone
  credCalls,        \* HTTP calls in flight with their ConnectorTest context
  toCollectord, \* frames from mgmtd and engined
  toEngined,    \* frames from collectord
  toMgmtd,      \* test answers
  keyRows,      \* api_credential_state: sealed key, sealed account, last test
  saseRows,     \* sase_device.api_key_enc
  nextTicket,   \* mgmtd m_apiTestTicket
  results,      \* mgmtd m_apiTestResults
  available,    \* Secret::available: credentials.key can be read
  issuedCount, refreshes, faults,  \* counters for the bounds
  closed,       \* tickets whose answer was read, or dropped by mgmtd for room
  lost,         \* tickets that died with collectord or with a frame
  dropped,      \* engined was not told of an update, or could not store one
  saved         \* the account the operator last saved, or proved by a passing test

credVars == <<issuedKeys, saseAccounts, setupDone, credCalls, toCollectord, toEngined, toMgmtd,
              keyRows, saseRows, nextTicket, results, available, issuedCount,
              refreshes, faults, closed, lost, dropped, saved>>

Oids == Profiles \cup SaseDevices
Kinds == {"keygen", "endpoint", "saseTest", "tlsProbe", "saseKey", "store"}

\* A connector-test request.  secret is the typed password or api-key; named
\* says that api_key_oid is filled in; stored is the caller's stored_credential;
\* sound stands for the checks of host, path and url that collectord repeats.
\* A field the kind does not use has one value, and seqNo none yet.
ConnectorTests ==
  {r \in [kind : Kinds, oid : Oids, secret : Passwords \cup {0}, named : BOOLEAN,
           stored : BOOLEAN, sound : BOOLEAN, pin : Pins, seqNo : {0}] :
     /\ r.named => r.kind \in {"keygen", "endpoint"}
     /\ r.stored <=> r.kind = "keygen" /\ r.secret = 0
     /\ r.pin = NoPin => r.kind \in {"keygen", "tlsProbe"} /\ r.oid \notin SaseProfiles
     /\ r.kind = "tlsProbe" => r.secret = 0
     /\ ~r.sound => r.kind \notin {"saseKey", "store"}}

CredInit ==
  /\ issuedKeys = [o \in Oids |-> 0] /\ saseAccounts = [p \in Profiles |-> 0]
  /\ setupDone = FALSE /\ credCalls = {}
  /\ toCollectord = <<>> /\ toEngined = <<>> /\ toMgmtd = <<>>
  /\ keyRows = [p \in Profiles |-> [key |-> 0, account |-> 0, test |-> "none"]]
  /\ saseRows = [d \in SaseDevices |-> 0]
  /\ nextTicket = 1 /\ results = {} /\ closed = {} /\ lost = {} /\ dropped = FALSE
  /\ available \in BOOLEAN
  /\ issuedCount = 0 /\ refreshes = 0 /\ faults = 0
  /\ saved = [p \in Profiles |-> 0]

-----------------------------------------------------------------------------
(* mgmtd: ApiController and the ticket store.                              *)

\* keygenTest and endpointTest: connectorTestInputError; the other handlers'
\* own checks.  A refused request gets a 400 and no ticket.
ConnectorTestInputOk(r) ==
  CASE r.kind = "keygen"   -> r.oid \in Profiles /\ (r.secret # 0 \/ r.stored)
    [] r.kind = "endpoint" -> r.oid \in Profiles /\ (r.secret # 0 \/ r.named)
    [] r.kind = "saseTest" -> r.oid \in SaseDevices
    [] r.kind = "tlsProbe" -> r.oid \in Profiles
    [] r.kind = "saseKey"  -> r.oid \in SaseDevices /\ r.secret # 0
    [] r.kind = "store"    -> r.oid \in Profiles /\ r.secret # 0

\* sendConnectorTest: the request leaves with the ticket as sequence number.
SendConnectorTest(r) ==
  /\ nextTicket <= MaxTickets /\ ConnectorTestInputOk(r)
  /\ toCollectord' = Append(toCollectord, [r EXCEPT !.seqNo = nextTicket])
  /\ nextTicket' = nextTicket + 1
  /\ UNCHANGED <<issuedKeys, saseAccounts, setupDone, credCalls, toEngined, toMgmtd, keyRows,
                 saseRows, results, available, issuedCount, refreshes, faults, closed,
                 lost, dropped, saved>>

\* onTestResponse and setApiTestResult: past the limit every held result is
\* dropped before the new one is filed.
OnTestResponse ==
  /\ toMgmtd # <<>> /\ toMgmtd' = Tail(toMgmtd)
  /\ LET full == Cardinality(results) > HeldResults
     IN /\ results' = (IF full THEN {} ELSE results) \cup {Head(toMgmtd)}
        /\ closed' = IF full THEN closed \cup results ELSE closed
  /\ UNCHANGED <<issuedKeys, saseAccounts, setupDone, credCalls, toCollectord, toEngined, keyRows,
                 saseRows, nextTicket, available, issuedCount, refreshes, faults, lost, dropped, saved>>

\* testResult and takeApiTestResult: a browser's poll takes the answer.
TestResult(t) ==
  /\ t \in results
  /\ results' = results \ {t} /\ closed' = closed \cup {t}
  /\ UNCHANGED <<issuedKeys, saseAccounts, setupDone, credCalls, toCollectord, toEngined, toMgmtd,
                 keyRows, saseRows, nextTicket, available, issuedCount, refreshes, faults,
                 lost, dropped, saved>>

-----------------------------------------------------------------------------
(* collectord: what a handler does, as the fields it changes.              *)

\* sendTestResponse: the headless ticket 0 is answered by nobody.
Answer(seqNo) == IF seqNo = 0 THEN toMgmtd ELSE Append(toMgmtd, seqNo)

Seal(secret) == IF available THEN secret ELSE 0

\* sendApiCredentialState: whatever can be sealed, with the outcome of a test.
StateUpdate(oid, account, key) ==
  [kind |-> "update", oid |-> oid, account |-> Seal(account), key |-> Seal(key),
   test |-> IF key # 0 THEN "ok" ELSE "failed"]

\* sendApiCredentialStore: no test ran.
AccountUpdate(oid, account) ==
  [kind |-> "update", oid |-> oid, account |-> account, key |-> 0, test |-> "none"]

\* rejectTest, and the backstop of every handler: the ticket is answered.
RejectTest(m) ==
  /\ toMgmtd' = Answer(m.seqNo)
  /\ UNCHANGED <<issuedKeys, saseAccounts, toEngined, credCalls, saved>>

\* Fault: the outcome is not sent to engined.
FinishKeygenUnsent(c, key) ==
  /\ toEngined' = toEngined
  /\ issuedKeys' = IF key # 0 THEN [issuedKeys EXCEPT ![c.oid] = key] ELSE issuedKeys
  /\ toMgmtd' = Answer(c.seqNo)
  /\ saved' = IF key # 0 /\ c.typed /\ available THEN [saved EXCEPT ![c.oid] = c.account] ELSE saved
  /\ UNCHANGED saseAccounts

\* finishKeygen: persist the outcome and the account, remember a key that was
\* issued, answer the ticket.
FinishKeygen(c, key) ==
  /\ toEngined' = Append(toEngined, StateUpdate(c.oid, c.account, key))
  /\ issuedKeys' = IF key # 0 THEN [issuedKeys EXCEPT ![c.oid] = key] ELSE issuedKeys
  /\ toMgmtd' = Answer(c.seqNo)
  /\ saved' = IF key # 0 /\ c.typed /\ available THEN [saved EXCEPT ![c.oid] = c.account] ELSE saved
  /\ UNCHANGED saseAccounts

\* requestAsync: the context travels with the completion handler.
Call(m, stage, account, key, req) ==
  [seqNo |-> m.seqNo, oid |-> m.oid, stage |-> stage, account |-> account,
   typed |-> m.secret # 0, key |-> key, req |-> req]

RequestAsync(c) ==
  /\ credCalls' = credCalls \cup {c}
  /\ UNCHANGED <<issuedKeys, saseAccounts, toEngined, toMgmtd, saved>>

\* buildKeygenRequest and buildOAuthTokenRequest: a device is pinned, the
\* OAuth server is verified against the CA chain.
KeygenRequest(m) == [verifyCa |-> m.oid \in SaseProfiles, pin |-> m.pin]

\* issuedKey(authProfileOid), the request's own api_key_oid.
NamedKey(m) == IF m.named THEN issuedKeys[m.oid] ELSE 0

\* runKeygenTest: an empty password falls back to the cached account; an NGFW
\* reuses the key of the profile the request names; otherwise a key is issued.
RunKeygenTest(m) ==
  LET account == IF m.secret # 0 THEN m.secret ELSE saseAccounts[m.oid]
      reuse   == m.oid \notin SaseProfiles /\ NamedKey(m) # 0
  IN  IF ~m.sound THEN RejectTest(m)
      ELSE IF reuse
        THEN /\ FinishKeygen(Call(m, "keygen", account, 0, KeygenRequest(m)), NamedKey(m))
             /\ UNCHANGED credCalls
      ELSE IF account = 0 THEN RejectTest(m)
      ELSE RequestAsync(Call(m, "keygen", account, 0, KeygenRequest(m)))

\* NgfwController and SaseController runEndpointTest: the profile's key or, for
\* this call only, one issued from the typed account.
RunEndpointTest(m) ==
  IF ~m.sound \/ (NamedKey(m) = 0 /\ m.secret = 0) THEN RejectTest(m)
  ELSE IF NamedKey(m) # 0
    THEN RequestAsync(Call(m, "endpoint", 0, NamedKey(m), KeygenRequest(m)))
    ELSE RequestAsync(Call(m, "token", m.secret, 0, KeygenRequest(m)))

\* runSaseTest: the typed api-key, or the cached one.
RunSaseTest(m) ==
  LET key == IF m.secret # 0 THEN m.secret ELSE issuedKeys[m.oid]
  IN  IF ~m.sound \/ key = 0 THEN RejectTest(m)
      ELSE RequestAsync(Call(m, "health", 0, key, [verifyCa |-> TRUE, pin |-> NoPin]))

\* runTlsProbe: a handshake, whatever comes of it.
RunTlsProbe(m) ==
  IF ~m.sound THEN RejectTest(m)
  ELSE RequestAsync(Call(m, "tls", 0, 0, [verifyCa |-> FALSE, pin |-> m.pin]))

\* storeApiKey: sealed and sent to engined, which is all.
StoreApiKey(m) ==
  /\ toEngined' = IF available
                  THEN Append(toEngined, [kind |-> "saseKey", oid |-> m.oid, key |-> m.secret])
                  ELSE toEngined
  /\ toMgmtd' = Answer(m.seqNo)
  /\ UNCHANGED <<issuedKeys, saseAccounts, credCalls, saved>>

\* storeCredential: sealed, sent and remembered, or not at all.
StoreCredential(m) ==
  /\ toEngined' = IF available THEN Append(toEngined, AccountUpdate(m.oid, m.secret)) ELSE toEngined
  /\ saseAccounts' = IF available THEN [saseAccounts EXCEPT ![m.oid] = m.secret] ELSE saseAccounts
  /\ saved' = IF available THEN [saved EXCEPT ![m.oid] = m.secret] ELSE saved
  /\ toMgmtd' = Answer(m.seqNo)
  /\ UNCHANGED <<issuedKeys, credCalls>>

\* cacheKeys: both caches are replaced by what the snapshot holds and opens.
CacheKeys(m) ==
  /\ issuedKeys' = [o \in Oids |-> IF o \in Profiles THEN Seal(m.rows[o].key)
                                                     ELSE Seal(m.sase[o])]
  /\ saseAccounts' = [p \in Profiles |-> Seal(m.rows[p].account)]
  /\ UNCHANGED <<toEngined, toMgmtd, credCalls, saved>>

\* route: one frame, decoded and handed to its controller.
Route ==
  /\ toCollectord # <<>> /\ toCollectord' = Tail(toCollectord)
  /\ LET m == Head(toCollectord)
     IN  \/ m.kind = "keygen"   /\ RunKeygenTest(m)
         \/ m.kind = "endpoint" /\ RunEndpointTest(m)
         \/ m.kind = "saseTest" /\ RunSaseTest(m)
         \/ m.kind = "tlsProbe" /\ RunTlsProbe(m)
         \/ m.kind = "saseKey"  /\ StoreApiKey(m)
         \/ m.kind = "store"    /\ StoreCredential(m)
         \/ m.kind = "state"    /\ CacheKeys(m)
  /\ UNCHANGED <<setupDone, keyRows, saseRows, nextTicket, results, available, issuedCount,
                 refreshes, faults, closed, lost, dropped>>

\* schedule, handleSetup and requestKeys: the keys are asked for once.
Setup ==
  /\ ~setupDone /\ setupDone' = TRUE
  /\ toEngined' = Append(toEngined, [kind |-> "stateRequest"])
  /\ UNCHANGED <<issuedKeys, saseAccounts, credCalls, toCollectord, toMgmtd, keyRows, saseRows,
                 nextTicket, results, available, issuedCount, refreshes, faults, closed, lost,
                 dropped, saved>>

\* autoRefreshTick: a due profile with a known account is re-issued on the
\* headless ticket, naming no profile; the interval outlasts a call.
AutoRefreshTick(p) ==
  /\ setupDone /\ p \in AutoProfiles /\ refreshes < MaxRefreshes
  /\ saseAccounts[p] # 0
  /\ \A c \in credCalls : ~(c.seqNo = 0 /\ c.oid = p)
  /\ refreshes' = refreshes + 1
  /\ RunKeygenTest([seqNo |-> 0, oid |-> p, secret |-> saseAccounts[p], named |-> FALSE,
                    sound |-> TRUE, pin |-> PinnedCert])
  /\ UNCHANGED <<setupDone, toCollectord, keyRows, saseRows, nextTicket, results, available,
                 issuedCount, faults, closed, lost, dropped>>

\* onKeygen and onSaseResponse, readKeygenKey: a key only from a good reply.
OnKeygen(c, key) == FinishKeygen(c, key) /\ credCalls' = credCalls \ {c}

\* Fault: no answer when no key was issued.
OnKeygenForEndpointForgets(c, key) ==
  /\ credCalls' = (credCalls \ {c}) \cup
              IF key # 0 THEN {[c EXCEPT !.stage = "endpoint", !.key = key]} ELSE {}
  /\ UNCHANGED <<issuedKeys, saseAccounts, toEngined, toMgmtd, saved>>

\* onKeygenForEndpoint and onTokenForEndpoint: on to the call, or answered.
OnKeygenForEndpoint(c, key) ==
  /\ credCalls' = (credCalls \ {c}) \cup
              IF key # 0 THEN {[c EXCEPT !.stage = "endpoint", !.key = key]} ELSE {}
  /\ toMgmtd' = IF key # 0 THEN toMgmtd ELSE Answer(c.seqNo)
  /\ UNCHANGED <<issuedKeys, saseAccounts, toEngined, saved>>

\* onEndpointResponse, onSaseEndpointResponse and the TLS probe's handler.
OnLastResponse(c) ==
  /\ credCalls' = credCalls \ {c} /\ toMgmtd' = Answer(c.seqNo)
  /\ UNCHANGED <<issuedKeys, saseAccounts, toEngined, saved>>

\* runSaseTest's handler: an api-key that works and was typed is stored.
OnSaseTest(c, good) ==
  /\ credCalls' = credCalls \ {c} /\ toMgmtd' = Answer(c.seqNo)
  /\ toEngined' = IF good /\ c.typed /\ available
                  THEN Append(toEngined, [kind |-> "saseKey", oid |-> c.oid, key |-> c.key])
                  ELSE toEngined
  /\ UNCHANGED <<issuedKeys, saseAccounts, saved>>

\* A call completes: the handler runs once, with any response the session can
\* end with; a keygen's good reply carries the next key.
Complete(c) ==
  /\ c \in credCalls
  /\ \E res \in Responses(c.req) :
       LET good == res.reply = "good"
           key  == IF good THEN issuedCount + 1 ELSE 0
       IN /\ issuedCount' = IF good /\ c.stage \in {"keygen", "token"} THEN key ELSE issuedCount
          /\ good /\ c.stage \in {"keygen", "token"} => issuedCount < MaxKeys
          /\ \/ c.stage = "keygen" /\ OnKeygen(c, key)
             \/ c.stage = "token" /\ OnKeygenForEndpoint(c, key)
             \/ c.stage \in {"endpoint", "tls"} /\ OnLastResponse(c)
             \/ c.stage = "health" /\ OnSaseTest(c, good)
  /\ UNCHANGED <<setupDone, toCollectord, keyRows, saseRows, nextTicket, results, available,
                 refreshes, faults, closed, lost, dropped>>

\* What is left of a queue that lost frames at either end, and the tickets in it.
Cut(q) == {SubSeq(q, m, n) : m \in 1..(Len(q) + 1), n \in 0..Len(q)}
SeqNosIn(frames) == {frames[i].seqNo : i \in {k \in 1..Len(frames) : frames[k].kind \in Kinds}}
AnsweredIn(answers) == {answers[i] : i \in 1..Len(answers)}

TicketsGone == (SeqNosIn(toCollectord) \ SeqNosIn(toCollectord'))
               \cup (AnsweredIn(toMgmtd) \ AnsweredIn(toMgmtd'))

\* Core::checkReload and a crash alike: the process image is replaced, with its
\* caches, its calls, what its socket held, and what it had put into its tx ring
\* and ipcd had not read.
CollectordRestart ==
  /\ faults < MaxFaults /\ faults' = faults + 1
  /\ issuedKeys' = [o \in Oids |-> 0] /\ saseAccounts' = [p \in Profiles |-> 0]
  /\ setupDone' = FALSE /\ credCalls' = {} /\ toCollectord' = <<>>
  /\ toEngined' \in Cut(toEngined) /\ toMgmtd' \in Cut(toMgmtd)
  /\ lost' = lost \cup TicketsGone \cup ({c.seqNo : c \in credCalls} \ {0})
  /\ UNCHANGED <<keyRows, saseRows, nextTicket, results, available, issuedCount, refreshes,
                 closed, dropped, saved>>

\* enqueueFrame: with no connection, a full ring or a frame over the limit it
\* returns false, which no sender reads; a closed connection takes with it what
\* its ring held.
FramesRefused ==
  /\ faults < MaxFaults /\ faults' = faults + 1
  /\ toCollectord' \in Cut(toCollectord)
  /\ toEngined' \in Cut(toEngined) /\ toMgmtd' \in Cut(toMgmtd)
  /\ lost' = lost \cup TicketsGone
  /\ dropped' = (dropped \/ toEngined' # toEngined)
  /\ UNCHANGED <<issuedKeys, saseAccounts, setupDone, credCalls, keyRows, saseRows,
                 nextTicket, results, available, issuedCount, refreshes, closed, saved>>

-----------------------------------------------------------------------------
(* engined: ApiCredentialService.                                          *)

Coalesce(new, old) == IF new # 0 THEN new ELSE old

\* storeState: a column is written only when the update carries it.
StoreState(row, m) ==
  [key |-> Coalesce(m.key, row.key), account |-> Coalesce(m.account, row.account),
   test |-> IF m.test = "none" THEN row.test ELSE m.test]

\* sendState: the rows that hold something; a query that fails yields none.
Snapshot(up) ==
  [kind |-> "state",
   rows |-> IF up THEN keyRows ELSE [p \in Profiles |-> [key |-> 0, account |-> 0, test |-> "none"]],
   sase |-> IF up THEN saseRows ELSE [d \in SaseDevices |-> 0]]

\* handleEvent; a statement the database refuses is logged and forgotten.
EnginedHandle ==
  /\ toEngined # <<>> /\ toEngined' = Tail(toEngined)
  /\ LET m == Head(toEngined)
     IN  \E up \in BOOLEAN :
          /\ ~up => faults < MaxFaults
          /\ faults' = IF up THEN faults ELSE faults + 1
          /\ dropped' = (dropped \/ (~up /\ m.kind = "update"))
          /\ \/ /\ m.kind = "stateRequest"
                /\ toCollectord' = Append(toCollectord, Snapshot(up))
                /\ UNCHANGED <<keyRows, saseRows>>
             \/ /\ m.kind = "update"
                /\ keyRows' = IF up THEN [keyRows EXCEPT ![m.oid] = StoreState(@, m)] ELSE keyRows
                /\ UNCHANGED <<toCollectord, saseRows>>
             \/ /\ m.kind = "saseKey"
                /\ saseRows' = IF up THEN [saseRows EXCEPT ![m.oid] = m.key] ELSE saseRows
                /\ UNCHANGED <<toCollectord, keyRows>>
  /\ UNCHANGED <<issuedKeys, saseAccounts, setupDone, credCalls, toMgmtd, nextTicket, results,
                 available, issuedCount, refreshes, closed, lost, saved>>

-----------------------------------------------------------------------------
CredNext ==
  \/ \E r \in ConnectorTests : SendConnectorTest(r)
  \/ OnTestResponse
  \/ \E t \in results : TestResult(t)
  \/ Route
  \/ Setup
  \/ \E p \in AutoProfiles : AutoRefreshTick(p)
  \/ \E c \in credCalls : Complete(c)
  \/ CollectordRestart
  \/ FramesRefused
  \/ EnginedHandle

CredSpec == CredInit /\ [][CredNext]_credVars

-----------------------------------------------------------------------------
(* Properties.                                                             *)

\* The places a ticket can be: on its way to collectord, in a call, on its way
\* back, or held for the browser.
PlacesOf(t) ==
  {<<"asked", i>> : i \in {k \in 1..Len(toCollectord) :
                             toCollectord[k].kind \in Kinds /\ toCollectord[k].seqNo = t}}
  \cup {<<"called", c>> : c \in {x \in credCalls : x.seqNo = t}}
  \cup {<<"answered", i>> : i \in {k \in 1..Len(toMgmtd) : toMgmtd[k] = t}}
  \cup {<<"held", r>> : r \in {x \in results : x = t}}

\* A test is answered at most once, whatever path it takes through handlers and
\* calls: its ticket is in one place until the answer was read or dropped for
\* room, or was lost with collectord or with a frame.  Nobody tells the browser
\* of a lost one: testResult goes on answering "pending".
TicketAccounted ==
  \A t \in 1..(nextTicket - 1) :
    IF t \in closed \cup lost THEN PlacesOf(t) = {} ELSE \E x \in PlacesOf(t) : PlacesOf(t) = {x}

\* The updates in flight that write column f of profile p, and the last of them.
Writes(m, p, f) == m.kind = "update" /\ m.oid = p /\ m[f] # 0
Writers(p, f) == {i \in 1..Len(toEngined) : Writes(toEngined[i], p, f)}
Newest(S) == CHOOSE i \in S : \A j \in S : j <= i

\* What the store will hold in that column once engined has handled every frame in flight.
Settled(p, f) ==
  IF Writers(p, f) = {} THEN keyRows[p][f] ELSE toEngined[Newest(Writers(p, f))][f]

\* Unless an update was dropped, collectord holds no key and no account that its
\* next start would not find again: restarts, and what they lose, included.
CacheIsDurable ==
  available /\ ~dropped =>
    \A p \in Profiles : /\ issuedKeys[p] # 0 => Settled(p, "key") # 0
                        /\ saseAccounts[p] # 0 => Settled(p, "account") # 0

\* The account an operator saved, or proved with a passing test, is the one the
\* store ends up with: storeState's comment has it that "a failed test must not
\* erase a working key or credential".
SavedAccountKept ==
  available /\ faults = 0 =>
    \A p \in Profiles : saved[p] # 0 => Settled(p, "account") = saved[p]

=============================================================================
