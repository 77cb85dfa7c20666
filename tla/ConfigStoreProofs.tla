------------------------- MODULE ConfigStoreProofs --------------------------
(***************************************************************************)
(* TLAPS proofs about the configuration store, for every set of domains    *)
(* and secrets and any number of commits, outages and crashes.             *)
(***************************************************************************)
EXTENDS ConfigStore, SequenceTheorems, TLAPS

\* A redacted configuration is a configuration without secrets.
LEMMA RedactFacts ==
  ASSUME NEW root \in Config
  PROVE  /\ Redact(root) \in Config
         /\ \A d \in Secrets : Redact(root)[d] = None
<1>1. None \in Int
  BY DEF None
<1>2. Secrets \subseteq Domains
  BY StoreAssumption
<1>3. Redact(root) \in Config
  BY <1>1 DEF Redact, Config
<1>4. \A d \in Secrets : Redact(root)[d] = None
  BY <1>2 DEF Redact
<1> QED BY <1>3, <1>4

\* Row builds a row of the table.
LEMMA RowFacts ==
  ASSUME NEW root \in Config
  PROVE  Row(root) \in Rows /\ Row(root).cfg = root /\ Row(root).state = "active"
BY DEF Row, Rows

\* The newest active row is the last one.
LEMMA NewestFacts ==
  ASSUME rows \in Seq(Rows), OneActive
  PROVE  /\ \A v \in Active : v = Newest
         /\ Active # {} => Newest \in Active /\ Newest \in DOMAIN rows /\ Newest \in Nat
<1>1. \A v \in Active : v = Len(rows) /\ v \in DOMAIN rows
  BY DEF Active, OneActive, NewestIsActive
<1>2. Len(rows) \in Nat
  OBVIOUS
<1>3. CASE Active = {}
  BY <1>3
<1>4. CASE Active # {}
  <2>1. Active = {Len(rows)}
    BY <1>1, <1>4
  <2>2. Newest = Len(rows)
    BY <1>2, <2>1 DEF Newest
  <2> QED BY <1>1, <1>2, <2>1, <2>2
<1> QED BY <1>3, <1>4

\* Back-filling the active row keeps what was there and adds no secret.
LEMMA BackfilledFacts ==
  ASSUME NEW root \in Config, startup \in Config, root = rows[Newest].cfg
  PROVE  /\ Backfilled(root) \in Config
         /\ \A d \in Domains : root[d] # None => Backfilled(root)[d] = root[d]
         /\ \A d \in Secrets : root[d] = None => Backfilled(root)[d] = None
BY RedactFacts, StoreAssumption DEF Backfilled, Config

\* What a load leaves in a cache, from a store or from the startup file.
LEMMA LoadFacts ==
  ASSUME TypeOK, OneActive, NEW answers, NEW old
  PROVE  LoadedOrFallback(answers, old) \in Cache /\ Serves(LoadedOrFallback(answers, old))
<1>1. CASE answers /\ Active # {}
  <2>1. Newest \in DOMAIN rows /\ Newest \in Nat /\ rows[Newest] \in Rows
    BY <1>1, NewestFacts DEF TypeOK
  <2> QED BY <1>1, <2>1 DEF LoadedOrFallback, Cache, Serves, Rows
<1>2. CASE ~(answers /\ Active # {})
  BY <1>2 DEF LoadedOrFallback, Cache, Serves, TypeOK
<1> QED BY <1>1, <1>2

\* What a step may never do to the stored history.
Kept ==
  \A v \in DOMAIN rows :
    /\ v \in DOMAIN rows'
    /\ \A d \in Domains : rows[v].cfg[d] \notin LeftOut => rows'[v].cfg[d] = rows[v].cfg[d]

\* A cache that serves its version goes on doing so while history is kept.
LEMMA ServesKept ==
  ASSUME NEW c \in Cache, Serves(c), Kept
  PROVE  c.loaded /\ c.version > 0 =>
           /\ c.version \in DOMAIN rows'
           /\ \A d \in Domains : c.root[d] \notin LeftOut => rows'[c.version].cfg[d] = c.root[d]
BY DEF Serves, Kept

\* Back-filling keeps the table's shape, its states and its history.
LEMMA BackfillTable ==
  ASSUME Inv, Backfill
  PROVE  /\ rows' \in Seq(Rows) /\ Kept
         /\ NewestIsActive(rows)'
         /\ \A v \in DOMAIN rows' : \A d \in Secrets : rows'[v].cfg[d] = None
<1> DEFINE Filled(v) == IF v \in Active
                        THEN [rows[v] EXCEPT !.cfg = Backfilled(@)]
                        ELSE rows[v]
<1>1. \A v \in DOMAIN rows :
        /\ Filled(v) \in Rows
        /\ Filled(v).state = rows[v].state
        /\ \A d \in Domains : rows[v].cfg[d] # None => Filled(v).cfg[d] = rows[v].cfg[d]
        /\ \A d \in Secrets : Filled(v).cfg[d] = None
  <2> TAKE v \in DOMAIN rows
  <2>1. rows[v] \in Rows /\ startup \in Config /\ rows \in Seq(Rows) /\ OneActive
    BY DEF Inv, TypeOK
  <2>2. rows[v].cfg \in Config /\ \A d \in Secrets : rows[v].cfg[d] = None
    BY <2>1 DEF Inv, NoSecretStored, Rows
  <2>3. CASE v \in Active
    <3>1. rows[v].cfg = rows[Newest].cfg
      BY <2>1, <2>3, NewestFacts
    <3>2. /\ Backfilled(rows[v].cfg) \in Config
          /\ \A d \in Domains :
               rows[v].cfg[d] # None => Backfilled(rows[v].cfg)[d] = rows[v].cfg[d]
          /\ \A d \in Secrets : rows[v].cfg[d] = None => Backfilled(rows[v].cfg)[d] = None
      BY <2>1, <2>2, <3>1, BackfilledFacts
    <3> QED BY <2>1, <2>2, <2>3, <3>2 DEF Rows
  <2>4. CASE v \notin Active
    BY <2>1, <2>2, <2>4
  <2> QED BY <2>3, <2>4
<1>2. \/ rows' = [v \in DOMAIN rows |-> Filled(v)]
      \/ rows' = rows
  BY Zenon DEF Backfill
<1>3. rows \in Seq(Rows) /\ NewestIsActive(rows) /\ NoSecretStored
  BY DEF Inv, TypeOK, OneActive
<1> HIDE DEF Filled
<1>4. CASE rows' = [v \in DOMAIN rows |-> Filled(v)]
  <2>1. rows' \in Seq(Rows) /\ Len(rows') = Len(rows) /\ DOMAIN rows' = DOMAIN rows
    BY <1>1, <1>3, <1>4
  <2> QED BY <1>1, <1>3, <1>4, <2>1 DEF NewestIsActive, Kept, LeftOut
<1>5. CASE rows' = rows
  BY <1>3, <1>5 DEF NewestIsActive, NoSecretStored, Kept
<1> QED BY <1>2, <1>4, <1>5

\* Migrating a configuration writes its accounts only, and only where an older release left them
\* out; it adds no secret.
LEMMA SchemaFilledFacts ==
  ASSUME NEW root \in Config
  PROVE  /\ SchemaFilled(root) \in Config
         /\ \A d \in Domains :
              SchemaFilled(root)[d] = IF d = Accounts /\ root[d] \in LeftOut THEN Declared ELSE root[d]
         /\ \A d \in Secrets : SchemaFilled(root)[d] = root[d]
<1>1. Declared \in Int /\ Accounts \notin Secrets /\ Secrets \subseteq Domains
  BY StoreAssumption DEF Declared
<1> DEFINE new == IF root[Accounts] \in LeftOut THEN Declared ELSE root[Accounts]
<1>2. SchemaFilled(root) = [root EXCEPT ![Accounts] = new]
  BY DEF SchemaFilled
<1>3. Accounts \in Domains /\ root[Accounts] \in Int
  BY StoreAssumption DEF Config
<1>4. new \in Int
  BY <1>1, <1>3
<1>5. /\ SchemaFilled(root) \in Config
      /\ \A d \in Domains : SchemaFilled(root)[d] = IF d = Accounts THEN new ELSE root[d]
  <2> HIDE DEF new
  <2> QED BY <1>2, <1>3, <1>4 DEF Config
<1> QED BY <1>1, <1>5

\* The schema script keeps the table's shape, its states and its history.
LEMMA SchemaTable ==
  ASSUME Inv, EnsureSchema
  PROVE  /\ rows' \in Seq(Rows) /\ Kept
         /\ NewestIsActive(rows)'
         /\ \A v \in DOMAIN rows' : \A d \in Secrets : rows'[v].cfg[d] = None
         /\ Len(rows') = Len(rows) /\ DOMAIN rows' = DOMAIN rows
         /\ \/ rows' = rows
            \/ \A v \in DOMAIN rows : rows'[v].cfg = SchemaFilled(rows[v].cfg)
<1> DEFINE Filled(v) == [rows[v] EXCEPT !.cfg = SchemaFilled(@)]
<1>1. rows \in Seq(Rows) /\ NewestIsActive(rows) /\ NoSecretStored
  BY DEF Inv, TypeOK, OneActive
<1>2. \A v \in DOMAIN rows :
        /\ Filled(v) \in Rows
        /\ Filled(v).state = rows[v].state
        /\ Filled(v).cfg = SchemaFilled(rows[v].cfg)
        /\ \A d \in Domains : rows[v].cfg[d] \notin LeftOut => Filled(v).cfg[d] = rows[v].cfg[d]
        /\ \A d \in Secrets : Filled(v).cfg[d] = None
  <2> TAKE v \in DOMAIN rows
  <2>1. rows[v] \in Rows /\ rows[v].cfg \in Config
    <3>1. rows[v] \in Rows
      BY <1>1
    <3> QED BY <3>1 DEF Rows
  <2>2. Filled(v) = [cfg |-> SchemaFilled(rows[v].cfg), state |-> rows[v].state]
    BY <2>1 DEF Rows
  <2>3. Filled(v) \in Rows
    BY <2>1, <2>2, SchemaFilledFacts DEF Rows
  <2>4. \A d \in Secrets : SchemaFilled(rows[v].cfg)[d] = None
    BY <1>1, <2>1, SchemaFilledFacts DEF NoSecretStored
  <2> QED BY <2>1, <2>2, <2>3, <2>4, SchemaFilledFacts
<1>3. \/ rows' = [v \in DOMAIN rows |-> Filled(v)]
      \/ rows' = rows
  BY Zenon DEF EnsureSchema
<1> HIDE DEF Filled
<1>4. CASE rows' = [v \in DOMAIN rows |-> Filled(v)]
  <2>1. rows' \in Seq(Rows) /\ Len(rows') = Len(rows) /\ DOMAIN rows' = DOMAIN rows
    BY <1>1, <1>2, <1>4
  <2> QED BY <1>1, <1>2, <1>4, <2>1 DEF NewestIsActive, Kept
<1>5. CASE rows' = rows
  BY <1>1, <1>5 DEF NewestIsActive, NoSecretStored, Kept
<1> QED BY <1>3, <1>4, <1>5

\* Seeding fills an empty table with one active row without secrets.
LEMMA SeedTable ==
  ASSUME Inv, Seed
  PROVE  /\ rows' \in Seq(Rows) /\ Kept
         /\ NewestIsActive(rows)'
         /\ \A v \in DOMAIN rows' : \A d \in Secrets : rows'[v].cfg[d] = None
<1>1. \/ rows = <<>> /\ rows' = <<Row(Redact(startup))>>
      \/ rows' = rows
  BY DEF Seed
<1>2. rows \in Seq(Rows) /\ NewestIsActive(rows) /\ NoSecretStored /\ startup \in Config
  BY DEF Inv, TypeOK, OneActive
<1>3. CASE rows = <<>> /\ rows' = <<Row(Redact(startup))>>
  <2>1. /\ Row(Redact(startup)) \in Rows
        /\ Row(Redact(startup)).state = "active"
        /\ \A d \in Secrets : Row(Redact(startup)).cfg[d] = None
    BY <1>2, RedactFacts, RowFacts
  <2> QED BY <1>3, <2>1 DEF NewestIsActive, Kept
<1>4. CASE rows' = rows
  BY <1>2, <1>4 DEF NewestIsActive, NoSecretStored, Kept
<1> QED BY <1>1, <1>3, <1>4

\* Committing publishes the transaction's table.
LEMMA CommitTable ==
  ASSUME Inv, pc = "commit", rows' = txn
  PROVE  /\ rows' \in Seq(Rows) /\ Kept
         /\ NewestIsActive(rows)'
         /\ \A v \in DOMAIN rows' : \A d \in Secrets : rows'[v].cfg[d] = None
<1>1. /\ rows \in Seq(Rows) /\ txn \in Seq(Rows) /\ NoSecretStored
      /\ Len(txn) = Len(rows) + 1 /\ SameConfigs(txn) /\ NewestIsActive(txn)
      /\ \A d \in Secrets : txn[Len(txn)].cfg[d] = None
  BY DEF Inv, TypeOK, TxnExtendsRows
<1>2. \A v \in DOMAIN txn : v \in DOMAIN rows \/ v = Len(txn)
  BY <1>1
<1>3. \A v \in DOMAIN txn : \A d \in Secrets : txn[v].cfg[d] = None
  BY <1>1, <1>2 DEF SameConfigs, NoSecretStored
<1>4. Kept
  BY <1>1 DEF SameConfigs, Kept
<1> QED BY <1>1, <1>3, <1>4 DEF NewestIsActive

\* The UPDATE changes states only.
LEMMA SupersededFacts ==
  ASSUME txn \in Seq(Rows)
  PROVE  /\ Superseded \in Seq(Rows) /\ Len(Superseded) = Len(txn)
         /\ \A v \in DOMAIN txn :
              v \in DOMAIN Superseded
                /\ Superseded[v].cfg = txn[v].cfg /\ Superseded[v].state = "superseded"
         /\ DOMAIN Superseded = DOMAIN txn
<1> DEFINE Old(v) == [txn[v] EXCEPT !.state = "superseded"]
<1>1. \A v \in DOMAIN txn : Old(v) \in Rows /\ Old(v).cfg = txn[v].cfg /\ Old(v).state = "superseded"
  <2> TAKE v \in DOMAIN txn
  <2>1. txn[v] \in Rows
    OBVIOUS
  <2> QED BY <2>1 DEF Rows
<1>2. Superseded = [v \in DOMAIN txn |-> Old(v)]
  BY Zenon DEF Superseded
<1> HIDE DEF Old
<1> QED BY <1>1, <1>2

\* The two versions of a transaction statement: it works, or it rolls back.
LEMMA StatementFacts ==
  ASSUME NEW at, NEW table, NEW next, Statement(at, table, next)
  PROVE  /\ pc = at
         /\ \/ /\ txn' = table /\ pc' = next
               /\ UNCHANGED <<preflighted, cache, staged, histVars>>
            \/ /\ pc' = "loop" /\ UNCHANGED txn
               /\ undone' = undone \cup {commits}
               /\ UNCHANGED <<preflighted, cache, staged, acked>>
         /\ link' \in {"none", "ok"}
         /\ UNCHANGED <<created, rows, reader, envVars, commits>>
BY DEF Statement, Refuse, LinkAfter, LinkAfterRollback

\* Every step preserves the types.
LEMMA TypeNext == Inv /\ [Next]_vars => TypeOK'
<1> SUFFICES ASSUME Inv, [Next]_vars
             PROVE  TypeOK'
  OBVIOUS
<1> USE DEF TypeOK
<1>0. TypeOK
  BY DEF Inv
<1>1. CASE Preflight
  <2>1. rows' \in Seq(Rows) /\ created' \in BOOLEAN
    BY <1>0, <1>1, SchemaTable DEF Preflight, EnsureSchema
  <2> QED BY <1>0, <1>1, <2>1 DEF Preflight, LinkAfter, histVars, envVars
<1>2. CASE Seed
  <2>1. rows' \in Seq(Rows)
    BY <1>2, SeedTable
  <2> QED BY <1>0, <1>2, <2>1 DEF Seed, LinkAfter, histVars, envVars
<1>3. CASE Backfill
  <2>1. rows' \in Seq(Rows)
    BY <1>3, BackfillTable
  <2> QED BY <1>0, <1>3, <2>1 DEF Backfill, LinkAfter, histVars, envVars
<1>18. CASE UpsertStartup
  BY <1>0, <1>18 DEF UpsertStartup, LinkAfter, storeVars, histVars, envVars
<1>19. CASE SeedUsers
  <2>1. cache' \in Cache
    BY <1>0, <1>19 DEF SeedUsers, Cache
  <2> QED BY <1>0, <1>19, <2>1 DEF SeedUsers, LinkAfter, storeVars, histVars, envVars
<1>4. CASE Load
  <2>1. cache' \in Cache
    BY <1>0, <1>4, LoadFacts DEF Load, Inv
  <2> QED BY <1>0, <1>4, <2>1 DEF Load, LinkAfter, storeVars, histVars, envVars
<1>5. CASE ApplyCommit
  <2>1. PICK d \in Domains \ Secrets : staged' = [root |-> Staged(d), domain |-> d]
    BY <1>5 DEF ApplyCommit
  <2>2. Staged(d) \in Config
    BY <1>0 DEF Staged, Cache, Config
  <2> QED BY <1>0, <1>5, <2>1, <2>2 DEF ApplyCommit, storeVars, histVars, envVars
<1>6. CASE Begin
  BY <1>0, <1>6 DEF Begin, Refuse, LinkAfter, histVars, envVars
<1>7. CASE Supersede
  <2>1. Superseded \in Seq(Rows)
    BY <1>0, SupersededFacts
  <2> QED BY <1>0, <1>7, <2>1, StatementFacts DEF Supersede, histVars, envVars
<1>8. CASE Insert
  <2>1. CommittedRow \in Rows
    BY <1>0, RedactFacts, RowFacts DEF CommittedRow
  <2>2. Append(txn, CommittedRow) \in Seq(Rows)
    BY <1>0, <2>1
  <2> QED BY <1>0, <1>8, <2>2, StatementFacts DEF Insert, histVars, envVars
<1>9. CASE Commit
  <2>1. rows' \in Seq(Rows) /\ cache' \in Cache
    BY <1>0, <1>9 DEF Commit, Refuse, Cache
  <2>2. acked' \in Config /\ undone' \subseteq Nat
    BY <1>0, <1>9 DEF Commit, Refuse, Config
  <2> QED BY <1>0, <1>9, <2>1, <2>2 DEF Commit, Refuse, LinkAfter, LinkAfterRollback, envVars
<1>10. CASE CommitAnswerLost
  BY <1>0, <1>10 DEF CommitAnswerLost, histVars
<1>11. CASE OtherStatement
  BY <1>0, <1>11 DEF OtherStatement, LinkAfter, storeVars, engineVars, histVars, envVars
<1>12. CASE ReaderLoad
  <2>1. reader' \in Cache
    BY <1>0, <1>12, LoadFacts DEF ReaderLoad, Inv
  <2> QED BY <1>0, <1>12, <2>1 DEF ReaderLoad, storeVars, engineVars, histVars, envVars
<1>13. CASE ReaderReexec
  <2>1. reader' \in Cache
    BY <1>0, <1>13 DEF ReaderReexec, Cache
  <2> QED BY <1>0, <1>13, <2>1 DEF ReaderReexec, storeVars, engineVars, histVars
<1>14. CASE ServerDown
  BY <1>0, <1>14 DEF ServerDown, storeVars, engineVars, histVars
<1>15. CASE ServerUp
  BY <1>0, <1>15 DEF ServerUp, storeVars, engineVars, histVars
<1>16. CASE Crash
  <2>1. Empty \in Config /\ [d \in Domains |-> Factory] \in Config
    BY DEF Empty, Factory, None, Config
  <2>2. startup' \in Config /\ cache' \in Cache
    BY <1>0, <1>16, <2>1 DEF Crash, Cache
  <2>3. /\ pc' = "boot" /\ preflighted' = FALSE /\ link' = "none" /\ crashes' = crashes + 1
        /\ UNCHANGED <<storeVars, staged, reader, histVars, db, outages, commits>>
    BY <1>16, Zenon DEF Crash
  <2>4. /\ created' = created /\ rows' = rows /\ txn' = txn /\ staged' = staged /\ reader' = reader
        /\ acked' = acked /\ undone' = undone /\ db' = db /\ outages' = outages /\ commits' = commits
    BY <2>3 DEF storeVars, histVars
  <2>5. crashes' \in Nat
    BY <1>0, <2>3
  <2>6. /\ rows' \in Seq(Rows) /\ txn' \in Seq(Rows) /\ reader' \in Cache
        /\ staged' \in [root : Config, domain : Domains]
    BY <1>0, <2>4
  <2>7. /\ created' \in BOOLEAN /\ db' \in {"up", "down"} /\ acked' \in Config /\ undone' \subseteq Nat
        /\ commits' \in Nat /\ outages' \in Nat
    BY <1>0, <2>4
  <2> QED BY <2>2, <2>3, <2>5, <2>6, <2>7
<1>17. CASE UNCHANGED vars
  BY <1>0, <1>17 DEF vars, storeVars, engineVars, histVars, envVars
<1> QED BY <1>1, <1>2, <1>3, <1>4, <1>5, <1>6, <1>7, <1>8, <1>9, <1>10, <1>11, <1>12,
           <1>13, <1>14, <1>15, <1>16, <1>17, <1>18, <1>19 DEF Next, Engined

\* History is append-only in every step.
LEMMA KeptNext == Inv /\ [Next]_vars => Kept
<1> SUFFICES ASSUME Inv, [Next]_vars
             PROVE  Kept
  OBVIOUS
<1>1. rows' = rows => Kept
  BY DEF Kept
<1>2. CASE Seed
  BY <1>2, SeedTable
<1>3. CASE Backfill
  BY <1>3, BackfillTable
<1>4. CASE Commit \/ CommitAnswerLost
  <2>1. pc = "commit" /\ (rows' = txn \/ rows' = rows)
    BY <1>4 DEF Commit, CommitAnswerLost
  <2> QED BY <1>1, <2>1, CommitTable
<1>6. CASE Preflight
  BY <1>6, SchemaTable DEF Preflight
<1>5. CASE ~(Preflight \/ Seed \/ Backfill \/ Commit \/ CommitAnswerLost)
  <2>1. rows' = rows
    BY <1>5 DEF Next, Engined, UpsertStartup, SeedUsers, Load, ApplyCommit, Begin, Supersede, Insert, Statement,
                OtherStatement, ReaderLoad, ReaderReexec, ServerDown, ServerUp, Crash,
                vars, storeVars
  <2> QED BY <1>1, <2>1
<1> QED BY <1>2, <1>3, <1>4, <1>5, <1>6

\* One active row, no secrets: preserved by every step.
LEMMA TableNext == Inv /\ [Next]_vars => OneActive' /\ NoSecretStored'
<1> SUFFICES ASSUME Inv, [Next]_vars
             PROVE  OneActive' /\ NoSecretStored'
  OBVIOUS
<1>1. rows' = rows => OneActive' /\ NoSecretStored'
  BY DEF Inv, OneActive, NewestIsActive, NoSecretStored
<1>2. CASE Seed
  BY <1>2, SeedTable DEF OneActive, NoSecretStored
<1>3. CASE Backfill
  BY <1>3, BackfillTable DEF OneActive, NoSecretStored
<1>4. CASE Commit \/ CommitAnswerLost
  <2>1. pc = "commit" /\ (rows' = txn \/ rows' = rows)
    BY <1>4 DEF Commit, CommitAnswerLost
  <2> QED BY <1>1, <2>1, CommitTable DEF OneActive, NoSecretStored
<1>6. CASE Preflight
  BY <1>6, SchemaTable DEF Preflight, OneActive, NoSecretStored
<1>5. CASE ~(Preflight \/ Seed \/ Backfill \/ Commit \/ CommitAnswerLost)
  <2>1. rows' = rows
    BY <1>5 DEF Next, Engined, UpsertStartup, SeedUsers, Load, ApplyCommit, Begin, Supersede, Insert, Statement,
                OtherStatement, ReaderLoad, ReaderReexec, ServerDown, ServerUp, Crash,
                vars, storeVars
  <2> QED BY <1>1, <2>1
<1> QED BY <1>2, <1>3, <1>4, <1>5, <1>6

\* The caches go on serving their versions.
LEMMA ServedNext == Inv /\ [Next]_vars => ServedVersionStable'
<1> SUFFICES ASSUME Inv, [Next]_vars
             PROVE  ServedVersionStable'
  OBVIOUS
<1>1. Kept /\ TypeOK /\ OneActive /\ cache \in Cache /\ reader \in Cache /\ Serves(cache) /\ Serves(reader)
  BY KeptNext DEF Inv, TypeOK, ServedVersionStable
<1>2. cache' = cache \/ cache'.loaded = FALSE \/ Load
  BY <1>1 DEF Next, Engined, Preflight, UpsertStartup, SeedUsers, Seed, Backfill, ApplyCommit, Begin, Supersede, Insert,
         Commit, CommitAnswerLost, Refuse, Statement, OtherStatement, ReaderLoad, ReaderReexec,
         ServerDown, ServerUp, Crash, vars, engineVars, Cache
<1>3. reader' = reader \/ reader'.loaded = FALSE \/ ReaderLoad
  BY <1>1 DEF Next, Engined, Preflight, UpsertStartup, SeedUsers, Seed, Backfill, Load, ApplyCommit, Begin, Supersede, Insert,
         Commit, CommitAnswerLost, Statement, OtherStatement, ReaderReexec,
         ServerDown, ServerUp, Crash, vars, Cache
<1>4. Serves(cache)'
  <2>1. CASE cache' = cache
    BY <1>1, <2>1, ServesKept DEF Serves
  <2>2. CASE cache'.loaded = FALSE
    BY <2>2 DEF Serves
  <2>3. CASE Load
    BY <1>1, <2>3, LoadFacts, ServesKept DEF Load, Serves, storeVars
  <2> QED BY <1>2, <2>1, <2>2, <2>3
<1>5. Serves(reader)'
  <2>1. CASE reader' = reader
    BY <1>1, <2>1, ServesKept DEF Serves
  <2>2. CASE reader'.loaded = FALSE
    BY <2>2 DEF Serves
  <2>3. CASE ReaderLoad
    BY <1>1, <2>3, LoadFacts, ServesKept DEF ReaderLoad, Serves, storeVars
  <2> QED BY <1>3, <2>1, <2>2, <2>3
<1> QED BY <1>4, <1>5 DEF ServedVersionStable

\* The transaction goes on extending the committed table.
LEMMA TxnNext == Inv /\ [Next]_vars => TxnExtendsRows'
<1> SUFFICES ASSUME Inv, [Next]_vars
             PROVE  TxnExtendsRows'
  OBVIOUS
<1>1. TypeOK /\ TxnExtendsRows
  BY DEF Inv
<1>2. pc' \notin {"update", "insert", "commit"} => TxnExtendsRows'
  BY DEF TxnExtendsRows
<1>3. CASE Begin
  BY <1>1, <1>3 DEF Begin, Refuse, TxnExtendsRows, SameConfigs, TypeOK
<1>4. CASE Supersede
  <2>1. \/ txn' = Superseded /\ pc' = "insert" /\ rows' = rows
        \/ pc' = "loop"
    BY <1>4, StatementFacts DEF Supersede
  <2>2. pc = "update"
    BY <1>4, StatementFacts DEF Supersede
  <2>3. txn \in Seq(Rows) /\ Len(txn) = Len(rows) /\ SameConfigs(txn)
    BY <1>1, <2>2 DEF TypeOK, TxnExtendsRows
  <2> QED BY <2>1, <2>3, SupersededFacts DEF TxnExtendsRows, SameConfigs
<1>5. CASE Insert
  <2>1. \/ txn' = Append(txn, CommittedRow) /\ pc' = "commit" /\ rows' = rows
        \/ pc' = "loop"
    BY <1>5, StatementFacts DEF Insert
  <2>2. pc = "insert"
    BY <1>5, StatementFacts DEF Insert
  <2>3. /\ txn \in Seq(Rows) /\ Len(txn) = Len(rows) /\ SameConfigs(txn)
        /\ \A v \in DOMAIN txn : txn[v].state = "superseded"
    BY <1>1, <2>2 DEF TypeOK, TxnExtendsRows
  <2>4. /\ CommittedRow \in Rows /\ CommittedRow.state = "active"
        /\ \A d \in Secrets : CommittedRow.cfg[d] = None
    BY <1>1, RedactFacts, RowFacts DEF CommittedRow, TypeOK
  <2>5. CASE txn' = Append(txn, CommittedRow) /\ pc' = "commit" /\ rows' = rows
    BY <2>3, <2>4, <2>5 DEF TxnExtendsRows, SameConfigs, NewestIsActive
  <2> QED BY <1>2, <2>1, <2>5
<1>6. CASE Commit \/ CommitAnswerLost
  BY <1>2, <1>6 DEF Commit, CommitAnswerLost, Refuse
<1>7. CASE Preflight \/ UpsertStartup \/ Seed \/ Backfill \/ SeedUsers \/ ApplyCommit \/ Crash
  BY <1>2, <1>7 DEF Preflight, UpsertStartup, Seed, Backfill, SeedUsers, ApplyCommit, Crash
<1>8. CASE \/ Load \/ OtherStatement \/ ReaderLoad \/ ReaderReexec
           \/ ServerDown \/ ServerUp \/ UNCHANGED vars
  <2>1. UNCHANGED <<pc, rows, txn>>
    BY <1>8 DEF Load, OtherStatement, ReaderLoad, ReaderReexec, ServerDown, ServerUp, vars,
                storeVars, engineVars
  <2> QED BY <1>1, <2>1 DEF TxnExtendsRows, SameConfigs, NewestIsActive
<1> QED BY <1>3, <1>4, <1>5, <1>6, <1>7, <1>8 DEF Next, Engined

\* What an older release leaves behind: two versions without secrets, the second one active.
LEMMA LegacyFacts ==
  ASSUME startup \in Config, NEW accounts \in LeftOut, rows = Legacy(accounts)
  PROVE  /\ rows \in Seq(Rows) /\ NewestIsActive(rows) /\ NoSecretStored
         /\ \A v \in DOMAIN rows : \A d \in Domains :
              rows[v].cfg[d] \in {None, Roleless, Redact(startup)[d]}
<1> DEFINE root == [Redact(startup) EXCEPT ![Accounts] = accounts]
<1>1. accounts \in {None, Roleless} /\ None \in Int /\ Roleless \in Int
  BY DEF LeftOut, None, Roleless
<1>2. Redact(startup) \in Config /\ \A d \in Secrets : Redact(startup)[d] = None
  BY RedactFacts
<1>3. /\ root \in Config
      /\ \A d \in Domains : root[d] \in {None, Roleless, Redact(startup)[d]}
      /\ \A d \in Secrets : root[d] = None
  BY <1>1, <1>2, StoreAssumption DEF Config
<1>4. rows = <<[cfg |-> root, state |-> "superseded"], [cfg |-> root, state |-> "active"]>>
  BY DEF Legacy, Row
<1> HIDE DEF root
<1>5. /\ [cfg |-> root, state |-> "superseded"] \in Rows
      /\ [cfg |-> root, state |-> "active"] \in Rows
  BY <1>3 DEF Rows
<1>6. rows \in Seq(Rows) /\ Len(rows) = 2 /\ DOMAIN rows = {1, 2}
  BY <1>4, <1>5
<1>7. /\ rows[1].cfg = root /\ rows[2].cfg = root
      /\ rows[1].state = "superseded" /\ rows[2].state = "active"
  BY <1>4
<1> QED BY <1>3, <1>6, <1>7 DEF NewestIsActive, NoSecretStored

\* A fresh appliance and one an older release was running on satisfy the invariant.
LEMMA InvInit == Init => Inv
<1> SUFFICES ASSUME Init
             PROVE  Inv
  OBVIOUS
<1>1. Empty \in Config /\ startup \in Config /\ staged.domain \in Domains
  BY StoreAssumption DEF Init, Empty, Config, None, Factory
<1>5. /\ rows \in Seq(Rows) /\ created \in BOOLEAN
      /\ NewestIsActive(rows) /\ NoSecretStored
  <2>1. CASE rows = <<>> /\ created = FALSE
    <3>1. rows \in Seq(Rows) /\ DOMAIN rows = {}
      BY <2>1
    <3> QED BY <2>1, <3>1 DEF NewestIsActive, NoSecretStored
  <2>2. ASSUME NEW accounts \in LeftOut, rows = Legacy(accounts), created = TRUE
        PROVE  rows \in Seq(Rows) /\ created \in BOOLEAN /\ NewestIsActive(rows) /\ NoSecretStored
    BY <1>1, <2>2, LegacyFacts
  <2> QED BY <2>1, <2>2 DEF Init
<1>2. TypeOK
  <2>1. cache \in Cache /\ reader \in Cache
    BY <1>1 DEF Init, Cache
  <2>2. staged \in [root : Config, domain : Domains]
    BY <1>1 DEF Init
  <2>3. rows \in Seq(Rows) /\ txn \in Seq(Rows)
    BY <1>5 DEF Init
  <2>4. acked \in Config /\ undone \subseteq Nat
    BY <1>1 DEF Init
  <2> QED BY <1>1, <1>5, <2>1, <2>2, <2>3, <2>4 DEF Init, TypeOK
<1> QED BY <1>2, <1>5 DEF Init, Inv, OneActive, TxnExtendsRows, ServedVersionStable, Serves

\* The invariant holds in every behaviour.
THEOREM Invariance == Spec => []Inv
<1>1. Inv /\ [Next]_vars => Inv'
  BY TypeNext, TableNext, TxnNext, ServedNext DEF Inv
<1> QED BY <1>1, InvInit, PTL DEF Spec

\* Whatever statement of a commit or of preflight fails, and wherever engined
\* crashes, a reader finds one active configuration: the newest.
THEOREM OneActiveAlways == Spec => []OneActive
<1>1. Inv => OneActive
  BY DEF Inv
<1> QED BY <1>1, Invariance, PTL

\* No version of the store ever holds a secret of the startup file.
THEOREM NoSecretStoredAlways == Spec => []NoSecretStored
<1>1. Inv => NoSecretStored
  BY DEF Inv
<1> QED BY <1>1, Invariance, PTL

\* A process that reports version v runs on what the store holds as v, but for what an older release
\* left out of it.
THEOREM ServedVersionStableAlways == Spec => []ServedVersionStable
<1>1. Inv => ServedVersionStable
  BY DEF Inv
<1> QED BY <1>1, Invariance, PTL

\* No step of any process rewrites a stored version, but for completing what an older release left
\* out of it.
THEOREM HistoryKeptAlways == Spec => HistoryKept
<1>1. Inv /\ [Next]_vars => [Kept]_vars
  BY KeptNext
<1> QED BY <1>1, Invariance, PTL DEF Spec, HistoryKept, Kept

(***************************************************************************)
(* Edits: a rolled-back one stays out, an acknowledged one stays in.       *)
(***************************************************************************)
\* A commit is under way: commitConfig has been called and has not returned.
InFlight == pc \in {"begin", "update", "insert", "commit"}

\* A value that is nobody's rolled-back change and not the change under way.
Settled(x) == x <= commits /\ x \notin undone /\ (InFlight => x # commits)

\* What keeps a rolled-back change out.  Commit numbers are fresh, the startup file holds factory
\* values only, and the change under way is known to its own transaction alone.
FreshInv ==
  /\ \A d \in Domains : startup[d] \in {None, Factory}
  /\ undone \subseteq 1 .. commits
  /\ \A v \in DOMAIN rows : \A d \in Domains : Settled(rows[v].cfg[d])
  /\ \A d \in Domains : Settled(cache.root[d])
  /\ InFlight =>
       /\ commits > 0 /\ commits \notin undone
       /\ \A d \in Domains : staged.root[d] <= commits /\ staged.root[d] \notin undone
  /\ pc = "commit" => txn[Len(txn)].cfg = Redact(staged.root)

\* What keeps an acknowledged change in, while no outage has struck: the connection is sound, a
\* server that has not come up yet has acknowledged nothing, and every copy a commit can start from is at
\* least as new as what was acknowledged.
OnlineInv ==
  /\ \A d \in Domains : acked[d] <= commits /\ (d \in Secrets \/ rows = <<>> => acked[d] = None)
  /\ InFlight => staged.domain \notin Secrets /\ staged.root[staged.domain] = commits
  /\ outages = 0 =>
       /\ link # "stale"
       /\ db = "down" => \A d \in Domains : acked[d] = None
       /\ cache.loaded => \A d \in Domains : cache.root[d] >= acked[d]
       /\ InFlight => \A d \in Domains : staged.root[d] >= acked[d]
       /\ EditsSurvive

\* In a table that has rows the newest active row is the last one; in an empty one none is active.
LEMMA NewestIsLast ==
  ASSUME rows \in Seq(Rows), OneActive
  PROVE  /\ rows # <<>> => Newest = Len(rows) /\ Newest \in DOMAIN rows /\ Active # {}
         /\ rows = <<>> => Active = {}
<1>1. rows = <<>> => Active = {}
  BY DEF Active
<1>2. ASSUME rows # <<>> PROVE Len(rows) \in Active
  <2>1. Len(rows) \in DOMAIN rows
    BY <1>2
  <2> QED
    BY <2>1 DEF Active, OneActive, NewestIsActive
<1>3. ASSUME rows # <<>> PROVE Newest = Len(rows) /\ Newest \in DOMAIN rows
  <2>1. Len(rows) \in Active
    BY <1>2, <1>3
  <2> QED
    BY <2>1, NewestFacts
<1> QED
  BY <1>1, <1>2, <1>3

\* The startup file holds nobody's change, not even after an upgrade and a redaction.
LEMMA StartupSettled ==
  ASSUME TypeOK, FreshInv, NEW d \in Domains
  PROVE  Settled(startup[d]) /\ Settled(Redact(startup)[d])
<1>1. startup[d] \in {-3, 0} /\ Redact(startup)[d] \in {-3, 0}
  BY DEF FreshInv, None, Factory, Redact
<1>2. \A x \in {-3, 0} : Settled(x)
  BY DEF FreshInv, Settled, TypeOK
<1> QED
  BY <1>1, <1>2

\* What a load or a back-fill puts into a configuration is settled.
LEMMA LoadSettled ==
  ASSUME Inv, FreshInv, NEW answers, NEW old, NEW d \in Domains
  PROVE  Settled(LoadedOrFallback(answers, old).root[d])
<1>1. CASE answers /\ Active # {}
  <2>1. Newest \in DOMAIN rows
    BY <1>1, NewestFacts DEF Inv, TypeOK
  <2> QED
    BY <1>1, <2>1 DEF LoadedOrFallback, FreshInv
<1>2. CASE ~(answers /\ Active # {})
  BY <1>2, StartupSettled DEF LoadedOrFallback, Inv
<1> QED
  BY <1>1, <1>2

\* What preflight writes is settled: seeded rows and back-filled domains come from the startup file.
LEMMA PreflightSettled ==
  ASSUME Inv, FreshInv, Seed \/ Backfill
  PROVE  \A v \in DOMAIN rows' : \A d \in Domains : Settled(rows'[v].cfg[d])
<1>0. rows \in Seq(Rows) /\ TypeOK /\ startup \in Config
  BY DEF Inv, TypeOK
<1>1. rows' = rows => \A v \in DOMAIN rows' : \A d \in Domains : Settled(rows'[v].cfg[d])
  BY DEF FreshInv
<1>2. CASE Seed /\ rows' # rows
  <2>1. rows' = <<Row(Redact(startup))>>
    BY <1>2 DEF Seed
  <2>2. \A d \in Domains : Settled(Row(Redact(startup)).cfg[d])
    BY <1>0, StartupSettled DEF Row
  <2>3. \A v \in DOMAIN rows' : rows'[v] = Row(Redact(startup))
    BY <2>1
  <2> QED
    BY <2>2, <2>3
<1>3. CASE Backfill /\ rows' # rows
  <2>1. rows' = [v \in DOMAIN rows |-> IF v \in Active
                                       THEN [rows[v] EXCEPT !.cfg = Backfilled(@)]
                                       ELSE rows[v]]
    BY <1>3, Zenon DEF Backfill
  <2> SUFFICES ASSUME NEW v \in DOMAIN rows, NEW d \in Domains
               PROVE  Settled(rows'[v].cfg[d])
    BY <2>1
  <2>2. rows[v] \in Rows /\ Settled(rows[v].cfg[d]) /\ Settled(Redact(startup)[d])
    BY <1>0, StartupSettled DEF FreshInv
  <2>3. rows'[v] = rows[v] \/ rows'[v].cfg = Backfilled(rows[v].cfg)
    BY <2>1, <2>2 DEF Rows
  <2>4. Backfilled(rows[v].cfg)[d] \in {rows[v].cfg[d], Redact(startup)[d]}
    BY DEF Backfilled
  <2> QED
    BY <2>2, <2>3, <2>4
<1> QED
  BY <1>1, <1>2, <1>3

\* A step that leaves the commit counter, the transaction and the configurations alone.
LEMMA FreshKept ==
  ASSUME FreshInv, TypeOK,
         UNCHANGED <<startup, undone, commits, pc, rows, txn, staged>>,
         \A d \in Domains : cache'.root[d] = cache.root[d]
  PROVE  FreshInv'
BY DEF FreshInv, Settled, InFlight, Redact

\* A step outside commitConfig: the rows and the cache hold settled values again.
LEMMA FreshOutside ==
  ASSUME FreshInv, TypeOK, ~InFlight, pc' \notin {"begin", "update", "insert", "commit"},
         UNCHANGED <<undone, commits>>,
         \A d \in Domains : startup'[d] \in {None, Factory},
         \A v \in DOMAIN rows' : \A d \in Domains : Settled(rows'[v].cfg[d]),
         \A d \in Domains : Settled(cache'.root[d])
  PROVE  FreshInv'
BY DEF FreshInv, Settled, InFlight

\* Every step keeps commit numbers fresh and rolled-back changes apart.
LEMMA FreshNext == Inv /\ FreshInv /\ [Next]_vars => FreshInv'
<1> SUFFICES ASSUME Inv, FreshInv, [Next]_vars
             PROVE  FreshInv'
  OBVIOUS
<1>0. TypeOK /\ TxnExtendsRows /\ rows \in Seq(Rows) /\ txn \in Seq(Rows) /\ commits \in Nat
  BY DEF Inv, TypeOK
<1>1. CASE Preflight
  <2>1. ~InFlight /\ pc' \notin {"begin", "update", "insert", "commit"}
        /\ UNCHANGED <<undone, commits, startup, cache>> /\ EnsureSchema
    BY <1>1 DEF Preflight, InFlight, histVars, envVars
  <2>2. \A v \in DOMAIN rows' : \A d \in Domains : Settled(rows'[v].cfg[d])
    <3> SUFFICES ASSUME NEW v \in DOMAIN rows, NEW d \in Domains
                 PROVE  Settled(rows'[v].cfg[d])
      BY <2>1, SchemaTable
    <3>0. rows[v] \in Rows
      BY <1>0
    <3>1. rows[v].cfg \in Config
      BY <3>0 DEF Rows
    <3>2. Settled(-1)
      <4>1. undone \subseteq 1 .. commits
        BY DEF FreshInv
      <4> QED BY <1>0, <2>1, <4>1 DEF Settled
    <3>3. rows'[v].cfg[d] \in {rows[v].cfg[d], -1}
      BY <2>1, <3>1, SchemaTable, SchemaFilledFacts DEF Declared
    <3> QED
      BY <3>2, <3>3 DEF FreshInv
  <2> QED
    BY <1>0, <2>1, <2>2, FreshOutside DEF FreshInv
<1>2. CASE UpsertStartup
  <2>1. ~InFlight /\ pc' \notin {"begin", "update", "insert", "commit"}
        /\ UNCHANGED <<undone, commits, startup, rows, cache>>
    BY <1>2 DEF UpsertStartup, InFlight, histVars, envVars, storeVars
  <2> QED
    BY <1>0, <2>1, FreshOutside DEF FreshInv
<1>3. CASE Seed \/ Backfill
  <2>1. ~InFlight /\ pc' \notin {"begin", "update", "insert", "commit"}
        /\ UNCHANGED <<undone, commits, startup, cache>>
    BY <1>3 DEF Seed, Backfill, InFlight, histVars, envVars
  <2> QED
    BY <1>0, <1>3, <2>1, PreflightSettled, FreshOutside DEF FreshInv
<1>4. CASE SeedUsers
  <2>1. ~InFlight /\ pc' \notin {"begin", "update", "insert", "commit"}
        /\ UNCHANGED <<undone, commits, startup, rows>>
    BY <1>4 DEF SeedUsers, InFlight, histVars, envVars, storeVars
  <2>2. cache'.root = cache.root
    BY <1>0, <1>4 DEF SeedUsers, TypeOK, Cache
  <2> QED
    BY <1>0, <2>1, <2>2, FreshOutside DEF FreshInv
<1>5. CASE Load
  <2>1. ~InFlight /\ pc' \notin {"begin", "update", "insert", "commit"}
        /\ UNCHANGED <<undone, commits, startup, rows>>
    BY <1>5 DEF Load, InFlight, histVars, envVars, storeVars
  <2>2. \A d \in Domains : Settled(cache'.root[d])
    BY <1>5, LoadSettled DEF Load
  <2> QED
    BY <1>0, <2>1, <2>2, FreshOutside DEF FreshInv
<1>6. CASE ApplyCommit
  <2>1. PICK c \in Domains \ Secrets : staged' = [root |-> Staged(c), domain |-> c]
    BY <1>6 DEF ApplyCommit
  <2>2. /\ ~InFlight /\ pc' = "begin" /\ commits' = commits + 1
        /\ UNCHANGED <<undone, startup, rows, cache>>
    BY <1>6 DEF ApplyCommit, InFlight, histVars, envVars, storeVars
  <2>3. cache.root \in Config
    BY <1>0 DEF TypeOK, Cache
  <2>4. \A d \in Domains : staged'.root[d] \in {cache.root[d], commits + 1}
    BY <2>1, <2>3 DEF Staged, Config
  <2>5. \A d \in Domains : cache.root[d] \in Int /\ cache.root[d] <= commits /\ cache.root[d] \notin undone
    BY <2>3 DEF FreshInv, Settled, Config
  <2>6. \A v \in DOMAIN rows : \A d \in Domains :
          rows[v].cfg[d] \in Int /\ rows[v].cfg[d] <= commits /\ rows[v].cfg[d] \notin undone
    <3> TAKE v \in DOMAIN rows
    <3>0. rows[v] \in Rows
      BY <1>0
    <3>1. rows[v].cfg \in Config
      BY <3>0 DEF Rows
    <3> QED
      BY <3>1 DEF FreshInv, Settled, Config
  <2>7. undone \subseteq 1 .. commits /\ \A d \in Domains : startup[d] \in {None, Factory}
    BY DEF FreshInv
  <2>8. commits + 1 \notin undone /\ undone \subseteq 1 .. (commits + 1)
    BY <1>0, <2>7
  <2>9. \A d \in Domains : staged'.root[d] <= commits + 1 /\ staged'.root[d] \notin undone
    BY <1>0, <2>4, <2>5, <2>8
  <2>10. /\ \A v \in DOMAIN rows' : \A d \in Domains : Settled(rows[v].cfg[d])'
         /\ \A d \in Domains : Settled(cache.root[d])'
    BY <1>0, <2>2, <2>5, <2>6 DEF Settled
  <2>11. commits' > 0 /\ commits' \notin undone'
    BY <1>0, <2>2, <2>8
  <2> QED
    BY <2>2, <2>7, <2>8, <2>9, <2>10, <2>11 DEF FreshInv
<1>7. CASE Begin \/ Supersede \/ Insert \/ Commit \/ CommitAnswerLost
  <2>1. InFlight /\ UNCHANGED <<startup, commits, staged>>
    BY <1>7, StatementFacts DEF Begin, Refuse, Supersede, Insert, Commit, CommitAnswerLost, InFlight, envVars
  <2>2. cache'.root = cache.root
    <3>1. cache' = cache \/ cache' = [cache EXCEPT !.loaded = FALSE]
      BY <1>7, StatementFacts DEF Begin, Refuse, Supersede, Insert, Commit, CommitAnswerLost
    <3> QED
      BY <1>0, <3>1 DEF TypeOK, Cache
  <2>3. \A d \in Domains : /\ cache.root[d] <= commits /\ cache.root[d] \notin undone
                           /\ cache.root[d] # commits
                           /\ staged.root[d] <= commits /\ staged.root[d] \notin undone
    BY <2>1 DEF FreshInv, Settled
  <2>4. \A v \in DOMAIN rows : \A d \in Domains :
          rows[v].cfg[d] <= commits /\ rows[v].cfg[d] \notin undone /\ rows[v].cfg[d] # commits
    BY <2>1 DEF FreshInv, Settled
  <2>5. /\ commits > 0 /\ commits \notin undone /\ undone \subseteq 1 .. commits
        /\ \A d \in Domains : startup[d] \in {None, Factory}
    BY <2>1 DEF FreshInv
  <2>6. CASE rows' = rows /\ pc' = "loop" /\ undone' = undone \cup {commits}
    <3>1. undone' \subseteq 1 .. commits'
      BY <1>0, <2>1, <2>5, <2>6
    <3>2. ~InFlight'
      BY <2>6 DEF InFlight
    <3>3. \A v \in DOMAIN rows' : \A d \in Domains : Settled(rows[v].cfg[d])'
      BY <2>1, <2>4, <2>6, <3>2 DEF Settled
    <3>4. \A d \in Domains : Settled(cache.root[d])'
      BY <2>1, <2>2, <2>3, <2>6, <3>2 DEF Settled
    <3> QED
      BY <2>1, <2>5, <2>6, <3>1, <3>2, <3>3, <3>4 DEF FreshInv
  <2>7. CASE rows' = rows /\ pc' \in {"update", "insert", "commit"} /\ undone' = undone
    <3>1. pc' = "commit" => txn'[Len(txn')].cfg = Redact(staged.root)'
      <4> SUFFICES ASSUME pc' = "commit" PROVE txn'[Len(txn')].cfg = Redact(staged.root)'
        OBVIOUS
      <4>1. ~Supersede
        BY StatementFacts DEF Supersede
      <4>2. ~Begin /\ ~Commit /\ ~CommitAnswerLost
        BY DEF Begin, Refuse, Commit, CommitAnswerLost
      <4>3. Insert
        BY <1>7, <4>1, <4>2
      <4>4. txn' = Append(txn, CommittedRow)
        BY <4>3, StatementFacts DEF Insert
      <4>5. txn'[Len(txn')] = CommittedRow
        BY <1>0, <4>4
      <4> QED
        BY <2>1, <4>5 DEF CommittedRow, Row, Redact
    <3>2. InFlight'
      BY <2>7 DEF InFlight
    <3>3. \A v \in DOMAIN rows' : \A d \in Domains : Settled(rows[v].cfg[d])'
      BY <2>1, <2>4, <2>7 DEF Settled
    <3>4. \A d \in Domains : Settled(cache.root[d])'
      BY <2>1, <2>2, <2>3, <2>7 DEF Settled
    <3> QED
      BY <2>1, <2>3, <2>5, <2>7, <3>1, <3>2, <3>3, <3>4 DEF FreshInv
  <2>8. CASE pc = "commit" /\ rows' = txn /\ pc' = "loop" /\ undone' = undone
    <3>1. /\ Len(txn) = Len(rows) + 1 /\ SameConfigs(txn) /\ txn[Len(txn)].cfg = Redact(staged.root)
      BY <1>0, <2>8 DEF TxnExtendsRows, FreshInv
    <3>2. \A d \in Domains : Redact(staged.root)[d] <= commits /\ Redact(staged.root)[d] \notin undone
      <4> TAKE d \in Domains
      <4>1. Redact(staged.root)[d] \in {-3, staged.root[d]}
        BY DEF Redact, None
      <4> QED
        BY <1>0, <2>3, <2>5, <4>1
    <3>3. \A v \in DOMAIN txn : v \in DOMAIN rows \/ v = Len(txn)
      BY <1>0, <3>1
    <3>4. \A v \in DOMAIN txn : \A d \in Domains : txn[v].cfg[d] <= commits /\ txn[v].cfg[d] \notin undone
      BY <2>4, <3>1, <3>2, <3>3 DEF SameConfigs
    <3>5. ~InFlight'
      BY <2>8 DEF InFlight
    <3>6. \A v \in DOMAIN rows' : \A d \in Domains : Settled(rows[v].cfg[d])'
      BY <2>1, <2>8, <3>4, <3>5 DEF Settled
    <3>7. \A d \in Domains : Settled(cache.root[d])'
      BY <2>1, <2>2, <2>3, <2>8, <3>5 DEF Settled
    <3> QED
      BY <2>1, <2>5, <2>8, <3>5, <3>6, <3>7 DEF FreshInv
  <2> QED
    BY <1>7, <2>6, <2>7, <2>8, StatementFacts
       DEF Begin, Refuse, Supersede, Insert, Commit, CommitAnswerLost, histVars
<1>8. CASE Crash
  <2>1. /\ pc' = "boot" /\ UNCHANGED <<undone, commits, rows>>
        /\ startup' \in {startup, [d \in Domains |-> Factory]} /\ cache'.root = Empty
    BY <1>8 DEF Crash, storeVars, histVars
  <2>2. ~InFlight'
    BY <2>1 DEF InFlight
  <2>3. undone \subseteq 1 .. commits /\ \A d \in Domains : startup'[d] \in {None, Factory}
    BY <2>1 DEF FreshInv
  <2>4. \A v \in DOMAIN rows' : \A d \in Domains : Settled(rows[v].cfg[d])'
    BY <2>1, <2>2 DEF FreshInv, Settled
  <2>5. \A d \in Domains : Settled(cache.root[d])'
    BY <1>0, <2>1, <2>2, <2>3 DEF Settled, Empty, None
  <2> QED
    BY <2>1, <2>2, <2>3, <2>4, <2>5 DEF FreshInv
<1>9. CASE OtherStatement \/ ReaderLoad \/ ReaderReexec \/ ServerDown \/ ServerUp \/ UNCHANGED vars
  <2>1. UNCHANGED <<startup, undone, commits, pc, rows, txn, staged, cache>>
    BY <1>9 DEF OtherStatement, ReaderLoad, ReaderReexec, ServerDown, ServerUp, vars,
                storeVars, engineVars, histVars, envVars
  <2> QED
    BY <1>0, <2>1, FreshKept
<1> QED
  BY <1>1, <1>2, <1>3, <1>4, <1>5, <1>6, <1>7, <1>8, <1>9 DEF Next, Engined

\* A fresh appliance has no commit to roll back.
LEMMA FreshStart == Init => FreshInv
<1> SUFFICES ASSUME Init PROVE FreshInv
  OBVIOUS
<1>1. ~InFlight /\ pc # "commit"
  BY DEF Init, InFlight
<1>2. \A d \in Domains : Settled(cache.root[d])
  <2>1. \A d \in Domains : cache.root[d] = -3
    BY DEF Init, Empty, None
  <2>2. commits = 0 /\ undone = {}
    BY DEF Init
  <2>3. Settled(-3)
    <3>1. -3 <= commits
      BY <2>2
    <3> QED
      BY <1>1, <2>2, <3>1 DEF Settled
  <2> QED
    BY <2>1, <2>3
<1>3. \A v \in DOMAIN rows : \A d \in Domains : Settled(rows[v].cfg[d])
  <2>1. \A x \in {-3, -2, 0} : Settled(x)
    BY <1>1 DEF Init, Settled
  <2>2. rows = <<>> \/ \E accounts \in LeftOut : rows = Legacy(accounts)
    BY DEF Init
  <2>3. startup \in Config /\ \A d \in Domains : Redact(startup)[d] \in {-3, 0}
    BY DEF Init, Redact, Config, None, Factory
  <2>4. \A v \in DOMAIN rows : \A d \in Domains : rows[v].cfg[d] \in {-3, -2, Redact(startup)[d]}
    <3>1. CASE rows = <<>>
      BY <3>1
    <3>2. ASSUME NEW accounts \in LeftOut, rows = Legacy(accounts)
          PROVE  \A v \in DOMAIN rows : \A d \in Domains : rows[v].cfg[d] \in {-3, -2, Redact(startup)[d]}
      BY <2>3, <3>2, LegacyFacts DEF None, Roleless
    <3> QED BY <2>2, <3>1, <3>2
  <2> QED
    BY <2>1, <2>3, <2>4
<1> QED
  BY <1>1, <1>2, <1>3 DEF Init, FreshInv

\* A commit that was rolled back, whichever of its statements failed, stays out of the store: no
\* later commit, no back-fill and no upgrade brings its change in.
THEOREM UndoneStaysOutAlways == Spec => []UndoneStaysOut
<1>1. FreshInv => UndoneStaysOut
  BY DEF FreshInv, Settled, UndoneStaysOut
<1>2. Spec => []FreshInv
  BY FreshStart, FreshNext, Invariance, PTL DEF Spec
<1> QED
  BY <1>1, <1>2, PTL

\* A load is at least as new as what was acknowledged, as long as no outage has struck.
LEMMA LoadOnline ==
  ASSUME Inv, FreshInv, OnlineInv, outages = 0, NEW old, NEW d \in Domains
  PROVE  LoadedOrFallback(Works, old).root[d] >= acked[d]
<1>0. rows \in Seq(Rows) /\ OneActive
  BY DEF Inv, TypeOK
<1>1. CASE rows = <<>>
  <2>1. LoadedOrFallback(Works, old).root = startup
    BY <1>0, <1>1, NewestIsLast DEF LoadedOrFallback
  <2>2. startup[d] \in {-3, 0} /\ acked[d] = -3
    BY <1>1 DEF FreshInv, OnlineInv, None, Factory
  <2> QED
    BY <2>1, <2>2
<1>3. CASE rows # <<>> /\ ~Works
  <2>1. LoadedOrFallback(Works, old).root = startup
    BY <1>3 DEF LoadedOrFallback
  <2>2. startup[d] \in {-3, 0} /\ acked[d] = -3
    BY <1>3 DEF FreshInv, OnlineInv, None, Factory, Works, Inv, TypeOK
  <2> QED
    BY <2>1, <2>2
<1>2. CASE rows # <<>> /\ Works
  <2>1. Works
    BY <1>2
  <2>2. LoadedOrFallback(Works, old).root = rows[Newest].cfg
    BY <1>0, <1>2, <2>1, NewestIsLast DEF LoadedOrFallback
  <2> QED
    BY <1>2, <2>2 DEF OnlineInv, EditsSurvive
<1> QED
  BY <1>1, <1>2, <1>3

\* The table keeps its edits when preflight seeds or back-fills it.
LEMMA PreflightSurvives ==
  ASSUME Inv, FreshInv, OnlineInv, Seed \/ Backfill, EditsSurvive
  PROVE  rows' # <<>> => \A d \in Domains : rows'[Newest'].cfg[d] >= acked[d]
<1>0. rows \in Seq(Rows) /\ OneActive /\ acked \in Config /\ startup \in Config
  BY DEF Inv, TypeOK
<1>1. rows' \in Seq(Rows) /\ NewestIsActive(rows)'
  BY SeedTable, BackfillTable
<1>2. rows' # <<>> => Newest' = Len(rows') /\ Len(rows') \in DOMAIN rows'
  <2> SUFFICES ASSUME rows' # <<>>
               PROVE  Newest' = Len(rows') /\ Len(rows') \in DOMAIN rows'
    OBVIOUS
  <2>1. Len(rows') \in DOMAIN rows' /\ Len(rows') \in Nat
    BY <1>1
  <2>2. Active' = {Len(rows')}
    BY <1>1, <2>1 DEF Active, NewestIsActive
  <2> QED
    BY <2>1, <2>2 DEF Newest
<1>3. CASE rows' = rows
  BY <1>0, <1>2, <1>3, NewestIsLast DEF EditsSurvive
<1>4. CASE Seed /\ rows' # rows
  <2>1. rows = <<>> /\ rows' = <<Row(Redact(startup))>>
    BY <1>4 DEF Seed
  <2>2. rows'[Newest'].cfg = Redact(startup)
    BY <1>2, <2>1 DEF Row
  <2>3. \A d \in Domains : Redact(startup)[d] \in {-3, 0} /\ acked[d] = -3
    BY <2>1 DEF FreshInv, OnlineInv, Redact, None, Factory
  <2> QED
    BY <2>2, <2>3
<1>5. CASE Backfill /\ rows' # rows
  <2>1. rows' = [v \in DOMAIN rows |-> IF v \in Active
                                       THEN [rows[v] EXCEPT !.cfg = Backfilled(@)]
                                       ELSE rows[v]]
    BY <1>5, Zenon DEF Backfill
  <2>2. rows # <<>> /\ Len(rows') = Len(rows) /\ DOMAIN rows' = DOMAIN rows
    <3>1. DOMAIN rows' = DOMAIN rows
      BY <2>1
    <3>2. Len(rows') = Len(rows)
      BY <1>0, <1>1, <3>1
    <3>3. rows = <<>> => rows' = <<>>
      BY <1>0, <1>1, <3>2
    <3> QED
      BY <1>5, <3>1, <3>2, <3>3
  <2>3. Newest = Len(rows) /\ Newest \in DOMAIN rows /\ Newest \in Active /\ Newest' = Newest
    <3>1. Newest = Len(rows) /\ Newest \in DOMAIN rows /\ Active # {}
      BY <1>0, <2>2, NewestIsLast
    <3>2. rows' # <<>>
      BY <1>0, <1>1, <2>2
    <3> QED
      BY <1>0, <1>2, <2>2, <3>1, <3>2, NewestFacts
  <2>4. rows[Newest] \in Rows
    BY <1>0, <2>3
  <2>5. rows'[Newest].cfg = Backfilled(rows[Newest].cfg)
    BY <2>1, <2>3, <2>4 DEF Rows
  <2> SUFFICES ASSUME NEW d \in Domains PROVE rows'[Newest'].cfg[d] >= acked[d]
    OBVIOUS
  <2>6. rows[Newest].cfg[d] >= acked[d] /\ rows[Newest].cfg[d] \in Int /\ acked[d] \in Int
    BY <1>0, <2>2, <2>4 DEF EditsSurvive, Rows, Config
  <2>7. \/ Backfilled(rows[Newest].cfg)[d] = rows[Newest].cfg[d]
        \/ rows[Newest].cfg[d] = -3 /\ Backfilled(rows[Newest].cfg)[d] \in {-3, 0}
    BY DEF Backfilled, None, Factory, FreshInv, Redact
  <2> QED
    BY <2>3, <2>5, <2>6, <2>7
<1> QED
  BY <1>3, <1>4, <1>5

\* The table keeps its edits when the schema script completes it.
LEMMA SchemaSurvives ==
  ASSUME Inv, OnlineInv, EnsureSchema, EditsSurvive
  PROVE  rows' # <<>> => \A d \in Domains : rows'[Newest'].cfg[d] >= acked[d]
<1>0. rows \in Seq(Rows) /\ OneActive /\ acked \in Config
  BY DEF Inv, TypeOK
<1>1. rows' \in Seq(Rows) /\ NewestIsActive(rows)' /\ Len(rows') = Len(rows)
  BY SchemaTable
<1> SUFFICES ASSUME rows' # <<>>, NEW d \in Domains
             PROVE  rows'[Newest'].cfg[d] >= acked[d]
  OBVIOUS
<1>2. Newest' = Len(rows')
  <2>1. Len(rows') \in DOMAIN rows' /\ Len(rows') \in Nat
    BY <1>1
  <2>2. Active' = {Len(rows')}
    BY <1>1, <2>1 DEF Active, NewestIsActive
  <2> QED
    BY <2>1, <2>2 DEF Newest
<1>3. rows # <<>> /\ Newest = Len(rows) /\ Newest \in DOMAIN rows
  BY <1>0, <1>1, NewestIsLast
<1>4. rows[Newest].cfg \in Config /\ rows[Newest].cfg[d] >= acked[d]
  <2>1. rows[Newest] \in Rows
    BY <1>0, <1>3
  <2> QED BY <1>3, <2>1 DEF Rows, EditsSurvive
<1>5. \/ rows'[Newest].cfg[d] = rows[Newest].cfg[d]
      \/ rows[Newest].cfg[d] \in {-3, -2} /\ rows'[Newest].cfg[d] = -1
  <2>1. \/ rows' = rows
        \/ rows'[Newest].cfg = SchemaFilled(rows[Newest].cfg)
    BY <1>3, SchemaTable
  <2> QED
    BY <1>4, <2>1, SchemaFilledFacts DEF LeftOut, None, Roleless, Declared
<1>6. rows[Newest].cfg[d] \in Int /\ acked[d] \in Int
  BY <1>0, <1>4 DEF Config
<1> QED
  BY <1>1, <1>2, <1>3, <1>4, <1>5, <1>6

\* Publishing the transaction's table publishes the staged change and keeps the others.
LEMMA CommitSurvives ==
  ASSUME Inv, FreshInv, OnlineInv, outages = 0, pc = "commit", rows' = txn,
         acked' = [acked EXCEPT ![staged.domain] = commits]
  PROVE  rows' # <<>> /\ \A d \in Domains : rows'[Newest'].cfg[d] >= acked'[d]
<1>0. /\ rows \in Seq(Rows) /\ txn \in Seq(Rows) /\ acked \in Config /\ commits \in Nat
      /\ staged.domain \in Domains /\ staged.root \in Config
  BY DEF Inv, TypeOK
<1>1. /\ Len(txn) = Len(rows) + 1 /\ NewestIsActive(txn)
      /\ txn[Len(txn)].cfg = Redact(staged.root)
  BY DEF Inv, TxnExtendsRows, FreshInv
<1>2. InFlight
  BY DEF InFlight
<1>3. Newest' = Len(txn)
  <2>1. Len(txn) \in DOMAIN txn /\ Len(txn) \in Nat
    BY <1>0, <1>1
  <2>2. Active' = {Len(txn)}
    BY <1>1, <2>1 DEF Active, NewestIsActive
  <2> QED
    BY <2>1, <2>2 DEF Newest
<1>4. rows' # <<>>
  BY <1>0, <1>1
<1>5. ASSUME NEW d \in Domains PROVE Redact(staged.root)[d] >= acked'[d]
  <2>1. CASE d = staged.domain
    BY <1>0, <1>2, <2>1 DEF OnlineInv, Redact, Config
  <2>2. CASE d # staged.domain /\ d \in Secrets
    BY <1>0, <2>2 DEF OnlineInv, Redact, None, Config
  <2>3. CASE d # staged.domain /\ d \notin Secrets
    BY <1>0, <1>2, <2>3 DEF OnlineInv, Redact, Config
  <2> QED
    BY <2>1, <2>2, <2>3
<1> QED
  BY <1>1, <1>3, <1>4, <1>5

\* Every step keeps the acknowledged edits.
LEMMA OnlineNext == Inv /\ FreshInv /\ OnlineInv /\ [Next]_vars => OnlineInv'
<1> SUFFICES ASSUME Inv, FreshInv, OnlineInv, [Next]_vars
             PROVE  OnlineInv'
  OBVIOUS
<1> USE DEF OnlineInv
<1>0. /\ TypeOK /\ rows \in Seq(Rows) /\ txn \in Seq(Rows) /\ commits \in Nat /\ outages \in Nat
      /\ acked \in Config /\ OneActive
  BY DEF Inv, TypeOK
<1>12. CASE Preflight
  <2>1. /\ ~InFlight' /\ link' # "stale" /\ EnsureSchema
        /\ UNCHANGED <<acked, commits, outages, db, cache, staged>>
    BY <1>12 DEF Preflight, InFlight, LinkAfter, histVars, envVars
  <2>2. rows' = <<>> => rows = <<>>
    BY <1>0, <2>1, SchemaTable
  <2>3. outages = 0 => EditsSurvive'
    BY <2>1, SchemaSurvives DEF EditsSurvive
  <2> QED
    BY <2>1, <2>2, <2>3
<1>1. CASE UpsertStartup
  <2>1. /\ ~InFlight' /\ link' # "stale"
        /\ UNCHANGED <<rows, acked, commits, outages, db, cache, staged>>
    BY <1>1 DEF UpsertStartup, InFlight, LinkAfter, storeVars, histVars, envVars
  <2> QED
    BY <2>1 DEF EditsSurvive, Newest, Active
<1>2. CASE Seed \/ Backfill
  <2>1. /\ ~InFlight' /\ link' # "stale"
        /\ UNCHANGED <<acked, commits, outages, db, cache, staged>>
        /\ rows' = rows \/ db = "up"
    BY <1>2 DEF Seed, Backfill, InFlight, LinkAfter, Works, storeVars, histVars, envVars
  <2>2. rows' = <<>> => rows = <<>>
    <3>1. Kept
      BY <1>2, SeedTable, BackfillTable
    <3>2. rows # <<>> => 1 \in DOMAIN rows
      BY <1>0
    <3>3. rows # <<>> => 1 \in DOMAIN rows'
      BY <3>1, <3>2 DEF Kept
    <3>4. rows' = <<>> => DOMAIN rows' = {}
      OBVIOUS
    <3> QED
      BY <3>3, <3>4
  <2>3. outages = 0 => EditsSurvive'
    BY <1>2, <2>1, PreflightSurvives DEF EditsSurvive
  <2> QED
    BY <2>1, <2>2, <2>3
<1>3. CASE SeedUsers
  <2>1. /\ ~InFlight' /\ link' # "stale"
        /\ UNCHANGED <<rows, acked, commits, outages, db, staged>>
    BY <1>3 DEF SeedUsers, InFlight, LinkAfter, storeVars, histVars, envVars
  <2>2. cache'.loaded = FALSE
    BY <1>0, <1>3 DEF SeedUsers, TypeOK, Cache
  <2> QED
    BY <2>1, <2>2 DEF EditsSurvive, Newest, Active
<1>4. CASE Load
  <2>1. /\ ~InFlight' /\ link' # "stale"
        /\ UNCHANGED <<rows, acked, commits, outages, db, staged>>
    BY <1>4 DEF Load, InFlight, LinkAfter, storeVars, histVars, envVars
  <2>2. outages = 0 => \A d \in Domains : cache'.root[d] >= acked[d]
    BY <1>4, LoadOnline DEF Load
  <2> QED
    BY <2>1, <2>2 DEF EditsSurvive, Newest, Active
<1>5. CASE ApplyCommit
  <2>1. PICK c \in Domains \ Secrets : staged' = [root |-> Staged(c), domain |-> c]
    BY <1>5 DEF ApplyCommit
  <2>2. /\ pc' = "begin" /\ commits' = commits + 1 /\ cache.loaded
        /\ UNCHANGED <<rows, acked, outages, db, cache, link>>
    BY <1>5 DEF ApplyCommit, storeVars, histVars, envVars
  <2>3. cache.root \in Config
    BY <1>0 DEF TypeOK, Cache
  <2>4. staged'.domain = c /\ staged'.root[c] = commits'
        /\ \A d \in Domains \ {c} : staged'.root[d] = cache.root[d]
    BY <2>1, <2>2, <2>3 DEF Staged, Config
  <2>5. \A d \in Domains : acked[d] <= commits /\ acked[d] \in Int
    BY <1>0 DEF Config
  <2>6. \A d \in Domains : acked[d] <= commits'
    BY <1>0, <2>2, <2>5
  <2>7. outages = 0 => \A d \in Domains : staged'.root[d] >= acked[d]
    BY <1>0, <2>2, <2>4, <2>5
  <2> QED
    BY <2>1, <2>2, <2>4, <2>6, <2>7 DEF EditsSurvive, Newest, Active
<1>6. CASE Begin \/ Supersede \/ Insert
  <2>1. /\ InFlight /\ link' # "stale"
        /\ UNCHANGED <<rows, acked, commits, outages, db, cache, staged>>
    BY <1>6, StatementFacts DEF Begin, Refuse, Supersede, Insert, InFlight, LinkAfter, histVars, envVars
  <2> QED
    BY <2>1 DEF EditsSurvive, Newest, Active
<1>7. CASE Commit
  <2>1. /\ pc = "commit" /\ pc' = "loop" /\ link' # "stale" /\ UNCHANGED <<commits, outages, db, staged>>
    BY <1>7 DEF Commit, Refuse, LinkAfter, LinkAfterRollback, envVars
  <2>2. InFlight /\ ~InFlight'
    BY <2>1 DEF InFlight
  <2>3. CASE UNCHANGED <<rows, acked, cache>>
    BY <2>1, <2>2, <2>3 DEF EditsSurvive, Newest, Active
  <2>4. CASE /\ rows' = txn /\ db = "up" /\ acked' = [acked EXCEPT ![staged.domain] = commits]
             /\ cache' = [cache EXCEPT !.loaded = FALSE]
    <3>1. cache'.loaded = FALSE
      BY <1>0, <2>4 DEF TypeOK, Cache
    <3>2. outages = 0 => EditsSurvive'
      BY <2>1, <2>4, CommitSurvives DEF EditsSurvive
    <3>3. rows' # <<>>
      BY <1>0, <2>1, <2>4 DEF Inv, TxnExtendsRows
    <3>4. \A d \in Domains : acked'[d] <= commits /\ (d \in Secrets => acked'[d] = None)
      BY <1>0, <2>2, <2>4 DEF Config
    <3> QED
      BY <2>1, <2>2, <2>4, <3>1, <3>2, <3>3, <3>4
  <2> QED
    BY <1>7, <2>3, <2>4 DEF Commit, Refuse, Works
<1>8. CASE CommitAnswerLost
  <2>1. /\ pc = "commit" /\ ~InFlight' /\ outages' = outages + 1 /\ rows' = txn
        /\ UNCHANGED <<acked, commits, staged>>
    BY <1>8 DEF CommitAnswerLost, InFlight, histVars
  <2>2. rows' # <<>> /\ outages' # 0
    BY <1>0, <2>1 DEF Inv, TxnExtendsRows
  <2> QED
    BY <2>1, <2>2
<1>9. CASE ServerDown
  <2>1. outages' # 0 /\ UNCHANGED <<rows, acked, commits, staged, pc>>
    BY <1>0, <1>9 DEF ServerDown, storeVars, histVars, engineVars
  <2> QED
    BY <2>1 DEF InFlight
<1>10. CASE Crash
  <2>1. /\ ~InFlight' /\ link' # "stale" /\ cache'.loaded = FALSE
        /\ UNCHANGED <<rows, acked, commits, outages, db, staged>>
    BY <1>10 DEF Crash, InFlight, storeVars, histVars
  <2> QED
    BY <2>1 DEF EditsSurvive, Newest, Active
<1>11. CASE OtherStatement \/ ReaderLoad \/ ReaderReexec \/ ServerUp \/ UNCHANGED vars
  <2>1. /\ UNCHANGED <<rows, acked, commits, outages, staged, cache, pc>>
        /\ link' = link \/ link' # "stale"
        /\ db' = "down" => db = "down"
    BY <1>11 DEF OtherStatement, ReaderLoad, ReaderReexec, ServerUp, vars, LinkAfter,
                storeVars, engineVars, histVars, envVars
  <2> QED
    BY <2>1 DEF EditsSurvive, Newest, Active, InFlight
<1> QED
  BY <1>1, <1>2, <1>3, <1>4, <1>5, <1>6, <1>7, <1>8, <1>9, <1>10, <1>11, <1>12 DEF Next, Engined

\* A fresh appliance has acknowledged nothing.
LEMMA OnlineStart == Init => OnlineInv
<1> SUFFICES ASSUME Init PROVE OnlineInv
  OBVIOUS
<1>1. ~InFlight /\ commits = 0 /\ link # "stale" /\ ~cache.loaded
  BY DEF Init, InFlight
<1>2. \A d \in Domains : acked[d] = -3
  BY DEF Init, Empty, None
<1>3. rows # <<>> => Newest \in DOMAIN rows /\ rows \in Seq(Rows)
  BY InvInit, NewestIsLast DEF Inv, TypeOK
<1>4. \A v \in DOMAIN rows : \A d \in Domains : rows[v].cfg[d] \in {-3, -2, 0}
  <2>1. startup \in Config /\ \A d \in Domains : Redact(startup)[d] \in {-3, 0}
    BY DEF Init, Redact, Config, None, Factory
  <2>2. CASE rows = <<>>
    BY <2>2
  <2>3. ASSUME NEW accounts \in LeftOut, rows = Legacy(accounts)
        PROVE  \A v \in DOMAIN rows : \A d \in Domains : rows[v].cfg[d] \in {-3, -2, 0}
    BY <2>1, <2>3, LegacyFacts DEF None, Roleless
  <2> QED BY <2>2, <2>3 DEF Init
<1>5. EditsSurvive
  <2> SUFFICES ASSUME rows # <<>>, NEW d \in Domains PROVE rows[Newest].cfg[d] >= acked[d]
    BY DEF EditsSurvive
  <2>1. rows[Newest].cfg[d] \in {-3, -2, 0} /\ acked[d] = -3
    BY <1>2, <1>3, <1>4
  <2>2. \A x \in {-3, -2, 0} : x >= -3
    OBVIOUS
  <2> QED BY <2>1, <2>2
<1> QED BY <1>1, <1>2, <1>5 DEF OnlineInv, None

\* While the database answers, an edit the operator was told is committed stays in the active
\* configuration until a newer edit of its domain, across crashes, upgrades and retried preflights.
THEOREM EditsSurviveOnlineAlways == Spec => []EditsSurviveOnline
<1>1. OnlineInv => EditsSurviveOnline
  BY DEF OnlineInv, EditsSurviveOnline
<1>2. Spec => []FreshInv
  BY FreshStart, FreshNext, Invariance, PTL DEF Spec
<1>3. Spec => []OnlineInv
  BY <1>2, OnlineStart, OnlineNext, Invariance, PTL DEF Spec
<1> QED
  BY <1>1, <1>3, PTL

=============================================================================
