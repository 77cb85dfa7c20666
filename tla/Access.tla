------------------------------- MODULE Access -------------------------------
(***************************************************************************)
(* Signing in to the console.  mgmtd keeps the sessions and the throttles; *)
(* the accounts are rows of local_users, which mgmtd reads and only        *)
(* engined writes, one LocalUserUpdate after another; a statement of       *)
(* engined's may fail, and a restart of engined loses what was sent to it  *)
(* and seeds the default admin again.  Who is an admin is declared in the  *)
(* running configuration, and a session keeps what was declared when it    *)
(* was opened.  A federated sign-in goes through authd: mgmtd hands it the *)
(* identity provider's response under a ticket, authd verifies it and the  *)
(* browser collects the verdict.                                           *)
(* authd also runs the OpenID Connect exchange, which no sender in the     *)
(* repository asks for yet.  A browser is known by the cookie it holds: a  *)
(* session whose cookie was replaced can no longer be used.                *)
(***************************************************************************)
EXTENDS Naturals, Sequences, FiniteSets, FiniteSetsExt, SequencesExt

CONSTANTS
  Users,          \* account names, numbered in the order of std::map
  FirstAdmins,    \* accounts the running configuration declares admin at first
  DefaultAdmin,   \* kDefaultAdminUser
  Seeded,         \* accounts still on the factory password
  OldFormat,      \* accounts whose hash has an outdated format
  Browsers,
  Secrets,        \* passwords; every account starts with the smallest
  FreeAttempts,   \* kFreeAttempts
  MaxThrottled,   \* kMaxThrottled
  SsoConfig,      \* the auth section: enabled, key, issuer, audience or NoAudience, group
  SamlResponses,      \* SAML responses the identity provider or a browser may deliver
  Tokens,         \* ID tokens the token endpoint may answer with
  SsoResultLimit, \* results kept before all are dropped (256 in the code)
  MaxSso,         \* bound: tickets, and OIDC transactions
  MaxUpdates,     \* bound: LocalUserUpdates on their way
  MaxAttempts     \* bound: failed logins counted for one account

ASSUME AccessAssumption ==
  /\ Users \subseteq Nat \ {0} /\ FirstAdmins \subseteq Users /\ Seeded \subseteq Users
  /\ DefaultAdmin \in Users
  /\ OldFormat \subseteq Users /\ Secrets \subseteq Nat /\ Secrets # {}
  /\ {FreeAttempts, MaxThrottled, SsoResultLimit, MaxSso, MaxUpdates, MaxAttempts} \subseteq Nat

VARIABLES
  localUsers,    \* local_users: the row of an account, or Gone
  updates,     \* LocalUserUpdates between mgmtd and engined
  sessions,    \* AuthService::m_sessions, by the browser that holds the cookie
  throttles,   \* AuthService::m_throttles
  answeredPw,  \* history: the last password the console took for an account, or NotSet
  lostWrites,  \* history: accounts whose last update did not reach the table
  reseeded,    \* history: accounts engined's start put back after their removal
  admins,      \* accounts the running configuration declares admin
  issued,      \* the response behind every ticket, in order of the tickets
  acsQueue,    \* tickets waiting for authd
  acsAnswers,  \* verdicts on their way to mgmtd
  ssoResults,  \* MgmtdServiceManager::m_ssoResults
  ssoMethod,   \* authd's AuthService::m_method
  oktaTxns,    \* OktaClient::m_txns: the states, which are numbered
  oktaNext,    \* states issued so far
  oidcDone     \* states an exchange succeeded for, with the token

rowVars == <<localUsers, lostWrites, reseeded>>
localVars == <<rowVars, updates, throttles, answeredPw, admins>>
samlVars == <<issued, acsQueue, acsAnswers, ssoResults>>
oidcVars == <<ssoMethod, oktaTxns, oktaNext, oidcDone>>
accessVars == <<localVars, samlVars, oidcVars, sessions>>

Gone == [pw |-> 0, must |-> FALSE, old |-> FALSE, here |-> FALSE]
NoSession == [user |-> 0, admin |-> FALSE, must |-> FALSE, via |-> 0]
NotSet == 0
NoAudience == "none"
FactorySecret == Min(Secrets)
SeedRow == [pw |-> FactorySecret, must |-> TRUE, old |-> FALSE, here |-> TRUE]

AccessInit ==
  /\ localUsers = [u \in Users |-> [pw |-> FactorySecret, must |-> u \in Seeded,
                                  old |-> u \in OldFormat, here |-> TRUE]]
  /\ updates = <<>> /\ throttles = <<>>
  /\ sessions = [b \in Browsers |-> NoSession]
  /\ answeredPw = [u \in Users |-> FactorySecret]
  /\ lostWrites = {} /\ reseeded = {} /\ admins = FirstAdmins
  /\ issued = <<>> /\ acsQueue = <<>> /\ acsAnswers = <<>> /\ ssoResults = <<>>
  /\ ssoMethod \in {"saml", "oidc"} /\ oktaTxns = {} /\ oktaNext = 0 /\ oidcDone = <<>>

(***************************************************************************)
(* Passwords.                                                              *)
(***************************************************************************)
readAccount(u) == localUsers[u]
declaredAdmin(u) == u \in admins
checkPassword(u, pw) == readAccount(u).here /\ readAccount(u).pw = pw

throttled(u) == u \in DOMAIN throttles /\ throttles[u].blocked
Lacking(f, x) == [y \in DOMAIN f \ {x} |-> f[y]]

\* A failure counts; past the free attempts it closes the window.  A full map loses its
\* first name, in the order of the names.
noteLoginFailure(u) ==
  LET kept == IF u \notin DOMAIN throttles /\ Cardinality(DOMAIN throttles) >= MaxThrottled
              THEN Lacking(throttles, Min(DOMAIN throttles)) ELSE throttles
      n    == (IF u \in DOMAIN kept THEN kept[u].failures ELSE 0) + 1
  IN  [x \in DOMAIN kept \cup {u} |->
         IF x = u THEN [failures |-> n, blocked |-> n > FreeAttempts] ELSE kept[x]]

persistCredential(u, pw) == Append(updates, [user |-> u, remove |-> FALSE, pw |-> pw])

SessionFor(u, must, via) == [user |-> u, admin |-> declaredAdmin(u), must |-> must, via |-> via]

LocalSession(u, pw) == SessionFor(u, readAccount(u).must, 0)

\* login: a blocked or unknown name changes nothing; a success upgrades an old hash.
loginOk(b, u, pw) ==
  /\ ~throttled(u) /\ checkPassword(u, pw)
  /\ throttles' = Lacking(throttles, u)
  /\ sessions' = [sessions EXCEPT ![b] = LocalSession(u, pw)]
  /\ IF readAccount(u).old
     THEN Len(updates) < MaxUpdates /\ updates' = persistCredential(u, pw)
     ELSE UNCHANGED updates
  /\ UNCHANGED <<rowVars, answeredPw, admins, samlVars, oidcVars>>

loginFails(u, pw) ==
  /\ ~throttled(u) /\ readAccount(u).here /\ readAccount(u).pw # pw
  /\ u \in DOMAIN throttles => throttles[u].failures < MaxAttempts
  /\ throttles' = noteLoginFailure(u)
  /\ UNCHANGED <<rowVars, updates, answeredPw, admins, sessions, samlVars, oidcVars>>

ThrottleEnds(u) ==
  /\ throttled(u)
  /\ throttles' = [throttles EXCEPT ![u].blocked = FALSE]
  /\ UNCHANGED <<rowVars, updates, answeredPw, admins, sessions, samlVars, oidcVars>>

\* logout, and a session whose time has passed: every reader takes it for absent.
logout(b) ==
  /\ sessions[b] # NoSession
  /\ sessions' = [sessions EXCEPT ![b] = NoSession]
  /\ UNCHANGED <<localVars, samlVars, oidcVars>>

\* Open to a session that must change its password, as no other route here is.
changePassword(b, old, new) ==
  LET u == sessions[b].user
  IN  /\ sessions[b] # NoSession /\ u \in Users /\ checkPassword(u, old)
      /\ Len(updates) < MaxUpdates
      /\ updates' = persistCredential(u, new)
      /\ answeredPw' = [answeredPw EXCEPT ![u] = new]
      /\ UNCHANGED <<rowVars, throttles, admins, sessions, samlVars, oidcVars>>

\* route(): what an authenticated request of browser b needs before its handler runs.
Routed(b) == sessions[b] # NoSession /\ ~sessions[b].must

\* Not one's own account, and not the last one the table holds now.
RemovalAllowed(b, u) ==
  u # sessions[b].user /\ Cardinality({x \in Users : localUsers[x].here}) # 1

credentialRemove(b, u) ==
  /\ Routed(b) /\ sessions[b].admin
  /\ RemovalAllowed(b, u)
  /\ Len(updates) < MaxUpdates
  /\ updates' = Append(updates, [user |-> u, remove |-> TRUE, pw |-> 0])
  /\ answeredPw' = [answeredPw EXCEPT ![u] = NotSet]
  /\ UNCHANGED <<rowVars, throttles, admins, sessions, samlVars, oidcVars>>

credentialStore(b, u, pw) ==
  /\ Routed(b) /\ sessions[b].admin
  /\ Len(updates) < MaxUpdates
  /\ updates' = persistCredential(u, pw)
  /\ answeredPw' = [answeredPw EXCEPT ![u] = pw]
  /\ UNCHANGED <<rowVars, throttles, admins, sessions, samlVars, oidcVars>>

\* An admin publishes another list of accounts, validateUsers finds an admin in it, and the
\* commit reaches mgmtd: from then on a sign-in gets the new role, an open session keeps its own.
usersPublished(b, declared) ==
  /\ Routed(b) /\ sessions[b].admin
  /\ declared # {}
  /\ admins' = declared
  /\ UNCHANGED <<rowVars, updates, throttles, answeredPw, sessions, samlVars, oidcVars>>

\* Fault: the change is demanded of every account that is stored, as it once was.
StoredRowForced(u) ==
  IF u.remove THEN Gone ELSE [pw |-> u.pw, must |-> TRUE, old |-> FALSE, here |-> TRUE]

\* The row after an update: deleted, or upserted with must_change cleared.
StoredRow(u) ==
  IF u.remove THEN Gone ELSE [pw |-> u.pw, must |-> FALSE, old |-> FALSE, here |-> TRUE]

\* engined's AdminService: a statement that fails is logged, and the next update is taken.
updatePassword(written) ==
  LET u == Head(updates).user
  IN  /\ updates # <<>>
      /\ updates' = Tail(updates)
      /\ IF written
         THEN /\ localUsers' = [localUsers EXCEPT ![u] = StoredRow(Head(updates))]
              /\ lostWrites' = lostWrites \ {u} /\ reseeded' = reseeded \ {u}
         ELSE lostWrites' = lostWrites \cup {u} /\ UNCHANGED <<localUsers, reseeded>>
      /\ UNCHANGED <<throttles, answeredPw, admins, sessions, samlVars, oidcVars>>

\* engined starts anew: the first n updates had left mgmtd and are lost, and the preflight
\* seeds the default admin, whose row is inserted if there is none.
enginedRestarts(n) ==
  /\ n \in 0..Len(updates)
  /\ updates' = SubSeq(updates, n + 1, Len(updates))
  /\ lostWrites' = lostWrites \cup {updates[i].user : i \in 1..n}
  /\ IF localUsers[DefaultAdmin].here THEN UNCHANGED <<localUsers, reseeded>>
     ELSE /\ localUsers' = [localUsers EXCEPT ![DefaultAdmin] = SeedRow]
          /\ reseeded' = reseeded \cup {DefaultAdmin}
  /\ UNCHANGED <<throttles, answeredPw, admins, sessions, samlVars, oidcVars>>

(***************************************************************************)
(* SAML.  A response is a record of what the checks look at; a name is 0   *)
(* when it is missing.                                                     *)
(***************************************************************************)
\* The first assertion with a Signature child is taken, and that signature verifies under the
\* configured key; which element the signature covers is not compared with the assertion.
verifySignature(r) == r.signature /\ r.key = SsoConfig.key

Named(r) == IF r.email # 0 THEN r.email ELSE r.nameId
Rejected == [success |-> FALSE, user |-> 0]

\* Only an assertion that states conditions is held to them, and to the audience only if the
\* appliance has a name for itself (sp_entity_id).
ConditionsHold(r) ==
  r.conditions => /\ ~r.early /\ ~r.late
                  /\ SsoConfig.audience \in {NoAudience, r.audience}

verifyResponse(r) ==
  IF /\ SsoConfig.enabled /\ r.wellFormed /\ verifySignature(r)
     /\ r.status # "failed"
     /\ r.issuer = SsoConfig.issuer
     /\ ConditionsHold(r)
     /\ SsoConfig.group # 0 => SsoConfig.group \in r.groups
     /\ Named(r) # 0
  THEN [success |-> TRUE, user |-> Named(r)] ELSE Rejected

\* A browser posts a response, new or posted before; mgmtd answers with a page that polls.
samlAcs(r) ==
  /\ Len(issued) < MaxSso
  /\ issued' = Append(issued, r)
  /\ acsQueue' = Append(acsQueue, Len(issued) + 1)
  /\ UNCHANGED <<acsAnswers, ssoResults, localVars, oidcVars, sessions>>

\* authd answers every request, also when SAML is not the method selected.
SamlAcsRequest ==
  /\ acsQueue # <<>>
  /\ acsAnswers' = Append(acsAnswers,
       [ticket |-> Head(acsQueue),
        verdict |-> IF ssoMethod = "saml" THEN verifyResponse(issued[Head(acsQueue)])
                    ELSE Rejected])
  /\ acsQueue' = Tail(acsQueue)
  /\ UNCHANGED <<issued, ssoResults, localVars, oidcVars, sessions>>

\* authd starts anew after a commit, perhaps with another method: what it had not answered
\* and the transactions it had open are gone.
authdRestarts(method) ==
  /\ acsQueue' = <<>> /\ oktaTxns' = {} /\ ssoMethod' = method
  /\ UNCHANGED <<issued, acsAnswers, ssoResults, localVars, oktaNext, oidcDone, sessions>>

setSsoResult ==
  LET a    == Head(acsAnswers)
      kept == IF Cardinality(DOMAIN ssoResults) > SsoResultLimit THEN <<>> ELSE ssoResults
  IN  /\ acsAnswers # <<>>
      /\ ssoResults' = [t \in DOMAIN kept \cup {a.ticket} |-> IF t = a.ticket THEN a.verdict ELSE kept[t]]
      /\ acsAnswers' = Tail(acsAnswers)
      /\ UNCHANGED <<issued, acsQueue, localVars, oidcVars, sessions>>

\* Fault: the result stays for the next poll.
takeSsoResultKeeps(t) == ssoResults

takeSsoResult(t) == Lacking(ssoResults, t)

createSsoSession(u, t) == SessionFor(u, FALSE, t)

\* A poll: the result is taken; a success opens a session with the declared role.
samlResult(b, t) ==
  /\ t \in DOMAIN ssoResults
  /\ ssoResults' = takeSsoResult(t)
  /\ sessions' = IF ssoResults[t].success
                 THEN [sessions EXCEPT ![b] = createSsoSession(ssoResults[t].user, t)] ELSE sessions
  /\ UNCHANGED <<issued, acsQueue, acsAnswers, localVars, oidcVars>>

(***************************************************************************)
(* OpenID Connect.  A state stands for its nonce and code verifier too.    *)
(***************************************************************************)
buildAuthorizeUrl ==
  /\ ssoMethod = "oidc" /\ SsoConfig.enabled /\ oktaNext < MaxSso
  /\ oktaNext' = oktaNext + 1
  /\ oktaTxns' = oktaTxns \cup {oktaNext + 1}
  /\ UNCHANGED <<ssoMethod, oidcDone, localVars, samlVars, sessions>>

\* pruneExpired: a transaction past its time is dropped before the next is looked at.
pruneExpired(s) ==
  /\ s \in oktaTxns
  /\ oktaTxns' = oktaTxns \ {s}
  /\ UNCHANGED <<ssoMethod, oktaNext, oidcDone, localVars, samlVars, sessions>>

\* The key the token names is fetched from the provider for every token.
verifySignatureRs256(tok) == tok.key = SsoConfig.key

verifyIdToken(tok, s) ==
  /\ tok.wellFormed /\ tok.alg = "RS256" /\ verifySignatureRs256(tok)
  /\ tok.issuer = SsoConfig.issuer /\ tok.audience = SsoConfig.audience
  /\ ~tok.early /\ ~tok.late
  /\ tok.nonce = s /\ tok.name # 0

\* The transaction is gone before the token endpoint is asked, whatever it answers.
exchangeAndVerify(s, tok) ==
  /\ ssoMethod = "oidc" /\ SsoConfig.enabled
  /\ s \in oktaTxns
  /\ oktaTxns' = oktaTxns \ {s}
  /\ oidcDone' = IF verifyIdToken(tok, s) THEN Append(oidcDone, [state |-> s, nonce |-> tok.nonce])
                 ELSE oidcDone
  /\ UNCHANGED <<ssoMethod, oktaNext, localVars, samlVars, sessions>>

-----------------------------------------------------------------------------
LocalNext ==
  \/ \E b \in Browsers, u \in Users, pw \in Secrets : loginOk(b, u, pw)
  \/ \E u \in Users, pw \in Secrets : loginFails(u, pw)
  \/ \E u \in Users : ThrottleEnds(u)
  \/ \E b \in Browsers : logout(b)
  \/ \E b \in Browsers, old \in Secrets, new \in Secrets : changePassword(b, old, new)
  \/ \E b \in Browsers, u \in Users : credentialRemove(b, u)
  \/ \E b \in Browsers, u \in Users, pw \in Secrets : credentialStore(b, u, pw)
  \/ \E b \in Browsers, declared \in SUBSET Users : usersPublished(b, declared)
  \/ \E written \in BOOLEAN : updatePassword(written)
  \/ \E n \in 0..MaxUpdates : enginedRestarts(n)

SsoNext ==
  \/ \E r \in SamlResponses : samlAcs(r)
  \/ SamlAcsRequest
  \/ \E method \in {"saml", "oidc"} : authdRestarts(method)
  \/ setSsoResult
  \/ \E b \in Browsers, t \in 1..MaxSso : samlResult(b, t)
  \/ \E b \in Browsers : logout(b)
  \/ buildAuthorizeUrl
  \/ \E s \in 1..MaxSso : pruneExpired(s)
  \/ \E s \in 1..MaxSso, tok \in Tokens : exchangeAndVerify(s, tok)

AccessNext == LocalNext \/ SsoNext
AccessSpec == AccessInit /\ [][AccessNext]_accessVars

-----------------------------------------------------------------------------
\* What a response needs to be accepted: the provider's key and name, no failure reported, the
\* group, and whatever conditions it states.
Verified(r) ==
  /\ r.signature /\ r.key = SsoConfig.key /\ r.issuer = SsoConfig.issuer /\ r.status # "failed"
  /\ r.conditions => ~r.early /\ ~r.late
  /\ r.conditions /\ SsoConfig.audience # NoAudience => r.audience = SsoConfig.audience
  /\ SsoConfig.group # 0 => SsoConfig.group \in r.groups

\* A federated session rests on the response its ticket was issued for: it passed the checks, it
\* names the session's user, and no other poll or browser opens a session with that ticket.  A
\* response posted again gets a ticket of its own, and may sign in again.
SignInEarned ==
  \A b \in Browsers : sessions[b].via # 0 =>
    /\ Verified(issued[sessions[b].via]) /\ Named(issued[sessions[b].via]) = sessions[b].user
    /\ sessions[b].via \notin DOMAIN ssoResults
    /\ \A c \in Browsers \ {b} : sessions[c].via # sessions[b].via

\* The table always holds an account to sign in with: "the last account is the appliance's
\* only way in" (UserController).
WayIn == \E u \in Users : localUsers[u].here

\* "At least one admin must remain" (validateUsers), of the accounts as of the declarations: no
\* invariant, for a session opened as an admin's outlives the commit that took the role away.
OnlyAdminStays == \A u \in Users : admins = {u} => localUsers[u].here

\* What the console took is what the table holds once engined has caught up, in whatever order
\* browsers change one account's password, have it set, remove it and sign in, unless engined's
\* statement failed, its restart lost the update, or its start put a removed account back.
StoredAsAnswered(us) ==
  \A u \in us :
    /\ u \notin lostWrites \cup reseeded
    /\ \A i \in 1..Len(updates) : updates[i].user # u
    => localUsers[u].pw = answeredPw[u]

\* Of an account whose hash has an outdated format it does not hold: a sign-in writes back the
\* password it read, over a change or a removal still on its way.
AnsweredIsStored == StoredAsAnswered(Users \ OldFormat)
UpgradeKeepsAnswer == StoredAsAnswered(OldFormat)

\* Without those exceptions, "the operator had changed" the password (AuthController): no
\* invariant, for the answer is given before engined has stored anything.
AnsweredIsTrue ==
  \A u \in Users :
    (\A i \in 1..Len(updates) : updates[i].user # u) => localUsers[u].pw = answeredPw[u]

\* A local session that may use every route belongs to an account no change is demanded of,
\* unless it outlives the removal of its account and the seed that put it back.
UnlockedIsSetUp ==
  \A b \in Browsers :
    sessions[b].via = 0 /\ sessions[b].user # 0 /\ ~sessions[b].must /\ sessions[b].user \notin reseeded
    => ~localUsers[sessions[b].user].must

\* The lock of a session ends with the change of the password: it outlives neither the update
\* nor its storage.
LockedUntilDone ==
  \A b \in Browsers : sessions[b].must =>
    \/ localUsers[sessions[b].user].must
    \/ ~localUsers[sessions[b].user].here

\* What the operators were answered about the accounts stays true.
AccountsKept == AnsweredIsStored /\ UnlockedIsSetUp

\* One success for a state, with a token made for that state's nonce.
OidcOnce ==
  /\ \A i \in 1..Len(oidcDone) : oidcDone[i].nonce = oidcDone[i].state
  /\ \A i, j \in 1..Len(oidcDone) : oidcDone[i].state = oidcDone[j].state => i = j

\* Nobody is signed in by the identity provider but through an answer that passed the checks.
SsoSound == SignInEarned /\ OidcOnce

=============================================================================
