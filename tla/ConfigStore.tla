---------------------------- MODULE ConfigStore -----------------------------
(***************************************************************************)
(* The configuration store: table running_config in PostgreSQL, engined    *)
(* as its only writer (preflight, seedStore, commitConfig) with its cached *)
(* copy, and a service daemon as a reader.  Every statement can fail: the  *)
(* server may be down, or back up behind a connection that died with it.   *)
(* Crashes and software upgrades may strike between any two statements.    *)
(*                                                                         *)
(* A configuration maps domains to what they hold: None (no such domain),  *)
(* Roleless (accounts as a release before roles stored them), Declared     *)
(* (what the schema script writes in their place), Factory (the startup    *)
(* file's value) or the number of the commit that wrote it.                *)
(***************************************************************************)
EXTENDS Integers, Sequences

CONSTANTS
  Domains,    \* configuration domains
  Secrets,    \* what redactSecretsForPersist removes
  Accounts,   \* pretzel.user, the domain the schema script migrates
  Shipped,    \* domains of the first startup file; an upgrade ships the rest
  MaxCommits, \* bound: commits
  MaxOutages, \* bound: failures of the database server
  MaxCrashes  \* bound: crashes or re-executions of engined and of the reader

ASSUME StoreAssumption ==
  /\ Secrets \subseteq Domains
  /\ Accounts \in Domains \ Secrets
  /\ Shipped \subseteq Domains
  /\ MaxCommits \in Nat
  /\ MaxOutages \in Nat
  /\ MaxCrashes \in Nat

VARIABLES
  created,     \* the schema has been created
  rows,        \* running_config as committed; the index is the version
  txn,         \* running_config as the open transaction sees it
  db,          \* environment: the server is "up" or "down"
  link,        \* Database::m_conn: "none", "ok", or "stale" (died unnoticed)
  startup,     \* startup-config.json
  pc,          \* where engined is in preflight or in commitConfig
  preflighted, \* EnginedCore::m_preflighted
  cache,       \* engined: runningConfigLoaded, -Cache and -VersionCache
  staged,      \* the root handed to commitConfig, and the domain it edits
  reader,      \* a service daemon's cache
  acked,       \* history: newest commit of each domain that was acknowledged
  undone,      \* history: commits that were rolled back
  commits, outages, crashes \* environment: used up bounds

storeVars  == <<created, rows, txn>>
engineVars == <<pc, preflighted, cache, staged>>
histVars   == <<acked, undone>>
envVars    == <<db, startup, outages, crashes>>
vars == <<storeVars, link, engineVars, reader, histVars, envVars, commits>>

None     == -3
Roleless == -2
Declared == -1
Factory  == 0

\* What an older release left out of a stored configuration.
LeftOut == {None, Roleless}

Config == [Domains -> Int]

Empty == [d \in Domains |-> None]

Redact(root) == [d \in Domains |-> IF d \in Secrets THEN None ELSE root[d]]

Row(root) == [cfg |-> root, state |-> "active"]

\* latestRunningConfig: the active row with the highest version.
Active == {v \in DOMAIN rows : rows[v].state = "active"}

Newest == CHOOSE v \in Active : \A w \in Active : w <= v

(***************************************************************************)
(* Database::exec and queryRows: ensureLive reconnects only a connection   *)
(* it knows to be bad, so the first statement after an outage fails.       *)
(***************************************************************************)
Works == db = "up" /\ link # "stale"

LinkAfter == IF Works THEN "ok" ELSE "none"

\* After a failed statement and the ROLLBACK that follows it.
LinkAfterRollback == IF db = "up" THEN "ok" ELSE "none"

(***************************************************************************)
(* Config: loading                                                         *)
(***************************************************************************)
\* Fault: the version of the last good load is kept.
LoadedOrFallbackKeepsVersion(answers, old) ==
  IF answers /\ Active # {}
  THEN [loaded |-> TRUE, root |-> rows[Newest].cfg, version |-> Newest]
  ELSE [loaded |-> TRUE, root |-> startup, version |-> old.version]

\* loadRunningConfigRoot: the newest active row, or the startup file as
\* version 0.
LoadedOrFallback(answers, old) ==
  IF answers /\ Active # {}
  THEN [loaded |-> TRUE, root |-> rows[Newest].cfg, version |-> Newest]
  ELSE [loaded |-> TRUE, root |-> startup, version |-> 0]

\* cachedRunningConfig on an invalidated cache; engined is the seeder and
\* does not wait for a row to appear.
Load ==
  /\ pc = "loop"
  /\ ~cache.loaded
  /\ cache' = LoadedOrFallback(Works, cache)
  /\ link' = LinkAfter
  /\ UNCHANGED <<storeVars, pc, preflighted, staged, reader, histVars, envVars, commits>>

\* A statement of another service of engined (the log tailer, the prober).
OtherStatement ==
  /\ pc = "loop"
  /\ link' = LinkAfter
  /\ UNCHANGED <<storeVars, engineVars, reader, histVars, envVars, commits>>

(***************************************************************************)
(* Config::preflight, at boot and retried from the loop: ensureSchema and  *)
(* then the statements of seedStore.                                       *)
(***************************************************************************)
\* Fault: the schema script overwrites the accounts whatever they hold.
SchemaFilledAlways(root) == [root EXCEPT ![Accounts] = Declared]

\* kSchemaDDL: a configuration without accounts is given those of local_users,
\* and accounts without a role become administrators.
SchemaFilled(root) == [root EXCEPT ![Accounts] = IF @ \in LeftOut THEN Declared ELSE @]

\* Every stored version is migrated in place, superseded ones included, in the
\* transaction that creates the schema.
EnsureSchema ==
  /\ created' = (created \/ Works)
  /\ rows' = IF Works
             THEN [v \in DOMAIN rows |-> [rows[v] EXCEPT !.cfg = SchemaFilled(@)]]
             ELSE rows

\* Fault: preflight runs at boot only and is never retried.
PreflightOnce ==
  /\ ~preflighted
  /\ pc = "boot"
  /\ pc' = IF Works THEN "startup_config" ELSE "loop"
  /\ EnsureSchema
  /\ link' = LinkAfter
  /\ UNCHANGED <<txn, preflighted, cache, staged, reader, histVars, envVars, commits>>

Preflight ==
  /\ ~preflighted
  /\ pc = "boot" \/ (pc = "loop" /\ cache.loaded)
  /\ pc' = IF Works THEN "startup_config" ELSE "loop"
  /\ EnsureSchema
  /\ link' = LinkAfter
  /\ UNCHANGED <<txn, preflighted, cache, staged, reader, histVars, envVars, commits>>

\* The startup file is copied to startup_config; a failure is logged only.
UpsertStartup ==
  /\ pc = "startup_config"
  /\ pc' = "seed"
  /\ link' = LinkAfter
  /\ UNCHANGED <<storeVars, preflighted, cache, staged, reader, histVars, envVars, commits>>

\* Version 1 is seeded into an empty table only.
Seed ==
  /\ pc = "seed"
  /\ rows' = IF Works /\ rows = <<>> THEN <<Row(Redact(startup))>> ELSE rows
  /\ pc' = IF Works THEN "backfill" ELSE "loop"
  /\ link' = LinkAfter
  /\ UNCHANGED <<created, txn, preflighted, cache, staged, reader, histVars, envVars, commits>>

\* Domains the running configuration has never heard of are added.
Backfilled(root) ==
  [d \in Domains |-> IF rows[Newest].cfg[d] = None /\ Redact(startup)[d] # None
                     THEN Redact(startup)[d] ELSE root[d]]

\* The active row is back-filled in place.  When the read fails there is
\* nothing to add, and a failure of the UPDATE is logged only.
Backfill ==
  /\ pc = "backfill"
  /\ rows' = IF Works
             THEN [v \in DOMAIN rows |->
                     IF v \in Active
                     THEN [rows[v] EXCEPT !.cfg = Backfilled(@)]
                     ELSE rows[v]]
             ELSE rows
  /\ link' = LinkAfter
  /\ pc' = "local_users"
  /\ UNCHANGED <<created, txn, preflighted, cache, staged, reader, histVars, envVars, commits>>

\* The default account, a failure of which is logged only: the store is ready
\* either way, and engined invalidates its cache.
SeedUsers ==
  /\ pc = "local_users"
  /\ link' = LinkAfter
  /\ pc' = "loop"
  /\ preflighted' = TRUE
  /\ cache' = [cache EXCEPT !.loaded = FALSE]
  /\ UNCHANGED <<storeVars, staged, reader, histVars, envVars, commits>>

(***************************************************************************)
(* CommitService::handleAction up to commitConfig, and commitConfig        *)
(***************************************************************************)
\* Fault: the patch is applied to the startup file.
StagedOnStartup(d) == [startup EXCEPT ![d] = commits + 1]

\* The change is merged into a copy of the cached running configuration.
Staged(d) == [cache.root EXCEPT ![d] = commits + 1]

\* Fault: the change is merged into the cache itself.
ApplyCommitInPlace ==
  /\ pc = "loop"
  /\ cache.loaded
  /\ commits < MaxCommits
  /\ \E d \in Domains \ Secrets :
       /\ staged' = [root |-> Staged(d), domain |-> d]
       /\ cache' = [cache EXCEPT !.root = Staged(d)]
  /\ commits' = commits + 1
  /\ pc' = "begin"
  /\ UNCHANGED <<storeVars, link, preflighted, reader, histVars, envVars>>

ApplyCommit ==
  /\ pc = "loop"
  /\ cache.loaded
  /\ commits < MaxCommits
  /\ \E d \in Domains \ Secrets : staged' = [root |-> Staged(d), domain |-> d]
  /\ commits' = commits + 1
  /\ pc' = "begin"
  /\ UNCHANGED <<storeVars, link, preflighted, cache, reader, histVars, envVars>>

\* commitConfig returns false: the task is Failed and the cache stays.
Refuse ==
  /\ pc' = "loop"
  /\ undone' = undone \cup {commits}
  /\ UNCHANGED <<preflighted, cache, staged, acked>>

Begin ==
  /\ pc = "begin"
  /\ link' = LinkAfter
  /\ \/ /\ Works
        /\ txn' = rows
        /\ pc' = "update"
        /\ UNCHANGED <<preflighted, cache, staged, histVars>>
     \/ ~Works /\ Refuse /\ UNCHANGED txn
  /\ UNCHANGED <<created, rows, reader, envVars, commits>>

\* One statement of the open transaction; its failure rolls back.  Without
\* the schema there is no table.
Statement(at, table, next) ==
  /\ pc = at
  /\ \/ /\ Works /\ created
        /\ link' = LinkAfter
        /\ txn' = table
        /\ pc' = next
        /\ UNCHANGED <<preflighted, cache, staged, histVars>>
     \/ /\ ~(Works /\ created)
        /\ link' = LinkAfterRollback
        /\ Refuse
        /\ UNCHANGED txn
  /\ UNCHANGED <<created, rows, reader, envVars, commits>>

\* Fault: the old row stays active.
SupersededNothing == txn

Superseded == [v \in DOMAIN txn |-> [txn[v] EXCEPT !.state = "superseded"]]

Supersede == Statement("update", Superseded, "insert")

\* Fault: the root is stored as it was staged.
CommittedRowRaw == Row(staged.root)

CommittedRow == Row(Redact(staged.root))

Insert == Statement("insert", Append(txn, CommittedRow), "commit")

Commit ==
  /\ pc = "commit"
  /\ \/ /\ Works
        /\ link' = LinkAfter
        /\ rows' = txn
        /\ pc' = "loop"
        /\ cache' = [cache EXCEPT !.loaded = FALSE]
        /\ acked' = [acked EXCEPT ![staged.domain] = commits]
        /\ UNCHANGED <<preflighted, staged, undone>>
     \/ /\ ~Works
        /\ link' = LinkAfterRollback
        /\ Refuse
        /\ UNCHANGED rows
  /\ UNCHANGED <<created, txn, reader, envVars, commits>>

\* The server commits and dies before its answer arrives: commitConfig returns
\* false although nothing is rolled back.
CommitAnswerLost ==
  /\ pc = "commit"
  /\ Works
  /\ outages < MaxOutages
  /\ outages' = outages + 1
  /\ db' = "down"
  /\ link' = "none"
  /\ rows' = txn
  /\ pc' = "loop"
  /\ UNCHANGED <<preflighted, cache, staged, histVars>>
  /\ UNCHANGED <<created, txn, reader, startup, crashes, commits>>

(***************************************************************************)
(* A service daemon                                                        *)
(***************************************************************************)
\* A fresh process connects; without a server, or when no row appears within
\* fifteen seconds, it falls back.
ReaderLoad ==
  /\ ~reader.loaded
  /\ reader' = LoadedOrFallback(db = "up", reader)
  /\ UNCHANGED <<storeVars, link, engineVars, histVars, envVars, commits>>

ReaderReexec ==
  /\ reader.loaded
  /\ crashes < MaxCrashes
  /\ crashes' = crashes + 1
  /\ reader' = [reader EXCEPT !.loaded = FALSE]
  /\ UNCHANGED <<storeVars, link, engineVars, histVars, db, startup, outages, commits>>

(***************************************************************************)
(* Environment                                                             *)
(***************************************************************************)
ServerDown ==
  /\ db = "up"
  /\ outages < MaxOutages
  /\ outages' = outages + 1
  /\ db' = "down"
  /\ link' = IF link = "ok" THEN "stale" ELSE link
  /\ UNCHANGED <<storeVars, engineVars, reader, histVars, startup, crashes, commits>>

ServerUp ==
  /\ db = "down"
  /\ db' = "up"
  /\ UNCHANGED <<storeVars, link, engineVars, reader, histVars, startup, outages, crashes, commits>>

\* engined dies, perhaps to start from upgraded software.
Crash ==
  /\ crashes < MaxCrashes
  /\ crashes' = crashes + 1
  /\ startup' \in {startup, [d \in Domains |-> Factory]}
  /\ pc' = "boot"
  /\ preflighted' = FALSE
  /\ cache' = [loaded |-> FALSE, root |-> Empty, version |-> 0]
  /\ link' = "none"
  /\ UNCHANGED <<storeVars, staged, reader, histVars, db, outages, commits>>

\* What a release before declared accounts, or before roles, leaves behind: a
\* version and the one it superseded.
Legacy(accounts) ==
  LET root == [Redact(startup) EXCEPT ![Accounts] = accounts]
  IN <<[cfg |-> root, state |-> "superseded"], Row(root)>>

Init ==
  /\ startup = [d \in Domains |-> IF d \in Shipped THEN Factory ELSE None]
  /\ \/ created = FALSE /\ rows = <<>>
     \/ created = TRUE /\ \E accounts \in LeftOut : rows = Legacy(accounts)
  /\ txn = <<>>
  /\ db \in {"up", "down"}
  /\ link = "none"
  /\ pc = "boot"
  /\ preflighted = FALSE
  /\ cache = [loaded |-> FALSE, root |-> Empty, version |-> 0]
  /\ staged = [root |-> Empty, domain |-> CHOOSE d \in Domains : TRUE]
  /\ reader = [loaded |-> FALSE, root |-> Empty, version |-> 0]
  /\ acked = Empty
  /\ undone = {}
  /\ commits = 0
  /\ outages = 0
  /\ crashes = 0

Engined ==
  \/ Preflight \/ UpsertStartup \/ Seed \/ Backfill \/ SeedUsers
  \/ Load
  \/ ApplyCommit \/ Begin \/ Supersede \/ Insert \/ Commit \/ CommitAnswerLost

Next ==
  \/ Engined
  \/ OtherStatement
  \/ ReaderLoad \/ ReaderReexec
  \/ ServerDown \/ ServerUp
  \/ Crash

Spec == Init /\ [][Next]_vars

\* engined's loop runs, and the server comes back from every outage.
FairSpec ==
  /\ Spec
  /\ WF_vars(Preflight \/ UpsertStartup \/ Seed \/ Backfill \/ SeedUsers \/ Load)
  /\ WF_vars(Begin \/ Supersede \/ Insert \/ Commit)
  /\ SF_vars(Preflight)
  /\ WF_vars(ServerUp)

(***************************************************************************)
(* Properties                                                              *)
(***************************************************************************)
Rows == [cfg : Config, state : {"active", "superseded"}]
Cache == [loaded : BOOLEAN, root : Config, version : Nat]

\* Types of the store, of the caches and of the history.
TypeOK ==
  /\ created \in BOOLEAN
  /\ rows \in Seq(Rows)
  /\ txn \in Seq(Rows)
  /\ db \in {"up", "down"}
  /\ link \in {"none", "ok", "stale"}
  /\ startup \in Config
  /\ pc \in {"boot", "startup_config", "seed", "backfill", "local_users",
             "loop", "begin", "update", "insert", "commit"}
  /\ preflighted \in BOOLEAN
  /\ cache \in Cache
  /\ staged \in [root : Config, domain : Domains]
  /\ reader \in Cache
  /\ acked \in Config
  /\ undone \subseteq Nat
  /\ commits \in Nat /\ outages \in Nat /\ crashes \in Nat

\* Exactly one row of a table that has rows is active, and it is the newest.
NewestIsActive(table) ==
  \A v \in DOMAIN table : table[v].state = "active" <=> v = Len(table)

\* Whatever fails in the middle of a commit, a reader finds exactly one
\* active configuration, and it is the one with the highest version.
OneActive == NewestIsActive(rows)

\* A process that reports version v runs on version v: what it loaded is
\* still what the store holds under that number, except for what an older
\* release left out, which preflight writes into the stored version in place.
Serves(c) ==
  c.loaded /\ c.version > 0 =>
    /\ c.version \in DOMAIN rows
    /\ \A d \in Domains : c.root[d] \notin LeftOut => rows[c.version].cfg[d] = c.root[d]

ServedVersionStable == Serves(cache) /\ Serves(reader)

\* No secret of the startup file is ever written to running_config, not even
\* by a commit staged on the startup file during an outage.
NoSecretStored ==
  \A v \in DOMAIN rows : \A d \in Secrets : rows[v].cfg[d] = None

\* No step removes a version, and what rewrites versions in place (the schema
\* script all of them, back-filling the active one) only completes what an older
\* release left out: "an operator's later edits are never touched".
HistoryKept ==
  [][\A v \in DOMAIN rows :
       /\ v \in DOMAIN rows'
       /\ \A d \in Domains :
            rows[v].cfg[d] \notin LeftOut => rows'[v].cfg[d] = rows[v].cfg[d]]_vars

\* The open transaction holds every committed version: untouched after BEGIN,
\* superseded after the UPDATE, followed by one active row after the INSERT.
SameConfigs(table) ==
  \A v \in DOMAIN rows : v \in DOMAIN table /\ table[v].cfg = rows[v].cfg

TxnExtendsRows ==
  /\ pc \in {"update", "insert"} => Len(txn) = Len(rows) /\ SameConfigs(txn)
  /\ pc = "insert" => \A v \in DOMAIN txn : txn[v].state = "superseded"
  /\ pc = "commit" =>
       /\ Len(txn) = Len(rows) + 1 /\ SameConfigs(txn)
       /\ NewestIsActive(txn)
       /\ \A d \in Secrets : txn[Len(txn)].cfg[d] = None

Inv ==
  /\ TypeOK
  /\ OneActive
  /\ NoSecretStored
  /\ TxnExtendsRows
  /\ ServedVersionStable

\* "the running config is the operator's": an acknowledged edit of a domain
\* stays in the active configuration until a newer edit of that domain.
EditsSurvive ==
  rows # <<>> => \A d \in Domains : rows[Newest].cfg[d] >= acked[d]

\* While the database answers, that holds across crashes, upgrades and any
\* interleaving of edits of different domains.
EditsSurviveOnline == outages = 0 => EditsSurvive

\* A commit that was rolled back stays out of the store: no later commit
\* carries its change in.
UndoneStaysOut ==
  \A v \in DOMAIN rows : \A d \in Domains : rows[v].cfg[d] \notin undone

\* The default admin is declared, or "a fresh appliance would come up with an admin
\* nobody can see or edit" (kSchemaDDL): no invariant, for the startup file ships an
\* empty list of accounts, which is no missing one.
SeededIsDeclared ==
  preflighted /\ rows # <<>> => rows[Newest].cfg[Accounts] # Factory

\* "will retry once the DB is reachable": after any outage or crash the store
\* is preflighted.
EventuallyPreflighted == <>[]preflighted

=============================================================================
