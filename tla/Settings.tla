------------------------------ MODULE Settings ------------------------------
(***************************************************************************)
(* The commit path as the console sees it.  mgmtd validates a batch of     *)
(* changes against its CACHED copy of the configuration, sends it to       *)
(* engined, and shows "reloading" until an answer comes back; the answer   *)
(* is also what drops the cached copy.  engined applies the batches in     *)
(* order, each as a merge patch of the stored document, and answers only   *)
(* when the fleet has converged or the reload has timed out.  Nothing      *)
(* stops a second batch while the first is open.  The inner life of        *)
(* engined is the module EngineCommit; here it is one queue, which its     *)
(* restart loses.                                                          *)
(*                                                                         *)
(* Requests are handled one at a time by the tick of mgmtd, so a handler   *)
(* is one action.  SavedConfig files are written in the same loop, but a   *)
(* crash can fall between the writes of one handler.                       *)
(***************************************************************************)
EXTENDS ConnectorConfig, FiniteSets

CONSTANTS
  StartDocument,   \* the document stored when mgmtd starts
  Requests,        \* the batches a console may send: [admin, changes]
  MaxCommits,      \* bound: batches accepted
  Names            \* names an operator may give a saved file

ASSUME SettingsAssumption ==
  /\ MaxCommits \in Nat
  /\ DOMAIN StartDocument = Arrays
  /\ \A d \in Domains : validateCommitShape(d, StartDocument)
  /\ checkApiReferences(StartDocument)
  /\ \A r \in Requests : /\ Len(r.changes) \in Nat
                         /\ DOMAIN r.changes = 1..Len(r.changes)
  /\ \A r \in Requests : \A c \in Entries(r.changes) :
       c.domain \in Domains => DOMAIN c.values \subseteq ArraysOf[c.domain]

VARIABLES
  stored,    \* the active running_config
  cached,    \* mgmtd's copy, or Unloaded
  queue,     \* batches sent to engined and not applied
  applied,   \* engined has applied a batch and owes its answer
  answers,   \* SettingsCommitResponses on their way: TRUE when the fleet converged
  reload,    \* MgmtdServiceManager::m_reloadStatus
  files,     \* saved-configs: each name is "none", "torn" or "whole"
  overtaken, \* history: a batch was judged against a document engined no longer has when it applies it
  commits

settingsVars ==
  <<stored, cached, queue, applied, answers, reload, files, overtaken, commits>>

Unloaded == [loaded |-> FALSE, doc |-> EmptyDocument]
Loaded(doc) == [loaded |-> TRUE, doc |-> doc]

\* Config::section loads the active row when no copy is cached.
View == IF cached.loaded THEN cached.doc ELSE stored

SettingsInit ==
  /\ stored = StartDocument
  /\ cached = Unloaded
  /\ queue = <<>> /\ applied = FALSE /\ answers = <<>>
  /\ reload = "idle"
  /\ files = [n \in Names |-> "none"]
  /\ overtaken = FALSE
  /\ commits = 0

-----------------------------------------------------------------------------
(* mgmtd: the handlers *)

LastOf(S) == CHOOSE i \in S : \A j \in S : j <= i

\* The changes of the batch that target domain d and carry array a.
Carrying(changes, d, a) ==
  {i \in DOMAIN changes : changes[i].domain = d /\ a \in DOMAIN changes[i].values}

\* The values of every change of the batch that targets domain d, later ones
\* winning key by key.
MergedFor(changes, d) ==
  [a \in {b \in Arrays : Carrying(changes, d, b) # {}} |->
     changes[LastOf(Carrying(changes, d, a))].values[a]]

KnownScope(change) == change.domain \in Domains

\* Fault: each change is judged against the cached document alone.
AcceptedPiecemeal(request, doc) ==
  /\ request.changes # <<>>
  /\ \A c \in Entries(request.changes) :
       /\ KnownScope(c) /\ validateCommitShape(c.domain, c.values)
       /\ validateCommitRefs(c.domain, doc, c.values)

\* All or nothing: every change well formed, every touched domain sound once merged.
Accepted(request, doc) ==
  /\ request.changes # <<>>
  /\ \A c \in Entries(request.changes) :
       KnownScope(c) /\ validateCommitShape(c.domain, c.values)
  /\ \A d \in {c.domain : c \in Entries(request.changes)} :
       validateCommitRefs(d, doc, MergedFor(request.changes, d))

MayPublish(request) ==
  request.admin \/ \A c \in Entries(request.changes) : c.domain # "user"

startReload == reload' = "reloading"

\* POST /api/settings/commit: refused with 403 or 409, or sent and shown.
commit(request) ==
  /\ commits < MaxCommits
  /\ IF ~MayPublish(request)
       THEN UNCHANGED <<cached, queue, reload, overtaken, commits>>
       ELSE /\ cached' = IF \E c \in Entries(request.changes) : c.domain = "connector"
                           THEN Loaded(View) ELSE cached
            /\ IF Accepted(request, View)
                 THEN /\ queue' = Append(queue, request)
                      /\ startReload
                      /\ overtaken' = (overtaken \/ queue # <<>> \/ View # stored)
                      /\ commits' = commits + 1
                 ELSE UNCHANGED <<queue, reload, overtaken, commits>>
  /\ UNCHANGED <<stored, applied, answers, files>>

\* GET /api/settings, /api/settings/reload-status and every other reader of the
\* configuration: loads the copy if there is none.
get ==
  /\ cached' = Loaded(View)
  /\ UNCHANGED <<stored, queue, applied, answers, reload, files, overtaken, commits>>

\* SettingsCommitResponse: completeReload or failReload; the copy is stale either way.
ReceiveAnswer ==
  /\ answers # <<>>
  /\ answers' = Tail(answers)
  /\ reload' = IF Head(answers) THEN "complete" ELSE "failed"
  /\ cached' = Unloaded
  /\ UNCHANGED <<stored, queue, applied, files, overtaken, commits>>

\* savedConfigFile: the name is usable, and made of characters a path may hold.
savedConfigFile(name) == name # ""

\* The write goes to <name>.tmp: the file itself only changes by the rename,
\* which a crash may prevent.  ofstream reports a full disk when it is closed,
\* after the last check of the stream.
SaveWrites(name) == {files[name], "whole", "torn"}

\* POST /api/settings/save, a crash of mgmtd during it included.
saveConfig(name) ==
  /\ savedConfigFile(name)
  /\ \E outcome \in SaveWrites(name) : files' = [files EXCEPT ![name] = outcome]
  /\ UNCHANGED <<stored, cached, queue, applied, answers, reload, overtaken, commits>>

-----------------------------------------------------------------------------
(* engined *)

\* Each change patches its domain in turn; an array replaces the array it names.
Patch(doc, changes) ==
  [a \in Arrays |->
     LET By == {i \in DOMAIN changes : a \in DOMAIN changes[i].values}
     IN  IF By = {} THEN doc[a]
         ELSE changes[LastOf(By)].values[a]]

\* ApplyCommit: the batch is stored, or its frame is lost or its task fails, and nobody is
\* answered.
ApplyCommit ==
  /\ queue # <<>> /\ ~applied
  /\ queue' = Tail(queue)
  /\ \/ /\ stored' = Patch(stored, Head(queue).changes)
        /\ applied' = TRUE
     \/ UNCHANGED <<stored, applied>>
  /\ UNCHANGED <<cached, answers, reload, files, overtaken, commits>>

\* The reload has converged, or timed out; only now may the next batch be applied.
AnswerCommit ==
  /\ applied
  /\ applied' = FALSE
  /\ \E ok \in BOOLEAN : answers' = Append(answers, ok)
  /\ UNCHANGED <<stored, cached, queue, reload, files, overtaken, commits>>

\* engined is restarted: the open reload is gone, the batches it had taken in (the older
\* ones) and the answers it had not sent (the later ones) with it.  mgmtd is not told.
EnginedRestart ==
  /\ \E n \in 0 .. Len(queue) : queue' = SubSeq(queue, n + 1, Len(queue))
  /\ \E n \in 0 .. Len(answers) : answers' = SubSeq(answers, 1, n)
  /\ applied' = FALSE
  /\ UNCHANGED <<stored, cached, reload, files, overtaken, commits>>

-----------------------------------------------------------------------------
SettingsNext ==
  \/ \E r \in Requests : commit(r)
  \/ get
  \/ ReceiveAnswer
  \/ \E n \in Names : saveConfig(n)
  \/ ApplyCommit
  \/ AnswerCommit
  \/ EnginedRestart

SettingsSpec == SettingsInit /\ [][SettingsNext]_settingsVars

-----------------------------------------------------------------------------
(* What is checked *)

\* Whatever was accepted is collected: every poll collectord arms from the stored
\* document finds its credential and its endpoint, and no connector that mgmtd
\* accepted is dropped by the loader.  ApiService.cpp:238-240 says so: "mgmtd refuses to
\* commit a dangling reference, so reaching this means the config was edited outside the
\* UI".  Two open batches, each sound against the copy it was judged by, break it.
AcceptedIsCollected ==
  /\ \A c \in Entries(stored["connectors"]) : LoadsConnector(c)
  /\ \A job \in Jobs(stored) :
       findProfile(stored, job.profile) /\ findEndpoint(stored, job.endpoint)

\* No sequence of commits, by sessions of either role, leaves the appliance
\* without an account that can manage accounts, or puts a secret into the
\* append-versioned document.
NoLockOut ==
  /\ \E u \in Entries(stored["users"]) : u.role = "admin"
  /\ \A a \in {"users", "api_credentials", "vendors", "services"} :
       \A e \in Entries(stored[a]) : ~e.secret

\* A saved file is a whole document: SettingsController.cpp:1132 writes "to a temp then
\* rename so a reader never sees a half-written document".  A disk that fills up when the
\* temporary file is flushed breaks it.
SavedIsWhole == \A n \in Names : files[n] # "torn"

\* What any sequence of commits leaves behind, however many are open, lost or failed and
\* whatever mgmtd's copy holds: an administrator and no secret; and references that
\* resolve as long as no batch was overtaken, which is the one way to a dangling one.
StoredSound == NoLockOut /\ (~overtaken => AcceptedIsCollected)

=============================================================================
