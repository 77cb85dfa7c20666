# Formal model of pretzel (nf-nms)

pretzel is an appliance of eight cooperating daemons. An operator edits settings in the
console; `engined` turns the edit into a new version of the running configuration and
rolls the fleet over to it. This project models that path, from the console's commit to
the last daemon running on the new version, the store the versions live in, the
transport between the daemons, and the services the daemons are there for: reachability,
collection, credentials, topology, the assistant, accounts and the log index.

## 1. Inventory

| Component | State | Operations | Talks to |
|---|---|---|---|
| `ipcd` broker (`ipcd/`) | runtime table: per daemon fd, ready, applied version, generation; event queue; per connection rx/tx rings | accept, read, hang-up, bind route, relay, broadcast, sync report | everybody, over one unix socket per daemon |
| `engined` bootstrap (`engined/service/bootstrap`) | state, target version, reload flag and timer, process map (connected, applied, generation, blessed) | hello, sync, RuntimeStart, reload timeout | ipcd; commit service through the event queue |
| `engined` commit (`engined/service/commit`) | queue of tasks, next id | enqueue, apply, fan out ConfigApply, finish, trim, publish a snapshot | store, bootstrap, mgmtd |
| `engined` heartbeat | round flag, per daemon pending/alive/latency | poll, response, timeout, result | every daemon, mgmtd |
| `engined` data services (probe, collection, chat, log tail, admin, API credentials) | tables in PostgreSQL, file offsets | one SQL transaction per request | mgmtd, collectord, probed |
| service daemons (`authd`, `probed`, `collectord`, `topologyd`, `apid`), bootstrap | bootstrap state, version loaded at start, SIGHUP flag, event and action queues | hello, RuntimeReady, wait for RuntimeStart (not apid), heartbeat answer, re-exec on ConfigApply | ipcd |
| `probed` | the sweep: targets, position, alive flags, timers; the raw socket | start, batch, reply, timeout, re-open | engined |
| `collectord` | credential cache, running device calls, one job with a timer per stream, tenants' probes | test, key issue and refresh, collect, report | devices over HTTP, engined, mgmtd |
| `topologyd` | none between requests | compose a site from its newest samples | mgmtd, database |
| `authd` | OIDC states | verify a SAML response or an ID token | identity provider, mgmtd |
| `mgmtd` | reload status, commit-queue snapshot, sessions, throttles, tickets and held results, caches, the gRPC worker pool and stream | commit, show status, sign in, answer the browser | ipcd, gRPC to pretzel-ai |
| configuration store (`shared/config`, `shared/db`) | table `running_config`, each process's cached root and version, the connection | preflight, seed, back-fill, commit, load | PostgreSQL |
| `shared/core` | stop and reload flags | load configuration, loop, execv on SIGHUP | every daemon |
| `shared/ipc`, `shared/algorithm` | ring buffers, frame decoder | read, frame, write | sockets |

Every daemon is single-threaded around `tick()`: poll, schedule, execute. Concurrency is
between processes. The hard parts are: work that is decided in one event and carried out
by a later action; messages to daemons that are just restarting; versions reported by a
process that is no longer there; a store that fails in the middle of a transaction and
falls back to factory settings; timeouts racing late answers; crashes anywhere.

What makes each part correct: a commit has one outcome and is answered once; commits are
applied in order and none is forgotten; a daemon is started exactly when the fleet is
complete and never forgotten afterwards; what is reported as applied is what runs; the
fleet ends on the stored version; the store has one active version, keeps its history and
holds no secrets; frames arrive whole, once and in order; a browser that was given a ticket
is answered once; a result belongs to the round, sweep, site or stream it is shown for;
what was answered as stored is stored. `PROJECT.json` lists the hazards with their lines.

## 2. Modules

| Module | Models |
|---|---|
| `EngineCommit` | engined's tick with its event and action queues, `BootstrapService` and `CommitService`. The rest of the fleet is an open environment that may deliver any ServerHello, SyncResponse or SettingsCommitRequest |
| `MCEngineCommit` | TLC instances of it |
| `EngineCommitProofs` | TLAPS proofs about it |
| `Fleet` | composes `EngineCommit` with ipcd, the service daemons and mgmtd; replaces the open environment by their messages |
| `MCFleet`, `FleetProofs` | its TLC instances and proofs |
| `ConfigStore` | `Config.cpp` and `Database.cpp`: `running_config`, engined as its writer statement by statement, a daemon as a reader, an unreliable server |
| `MCConfigStore`, `ConfigStoreProofs` | its TLC instances and proofs |
| `Daemons` | the six daemons' own event factories, bootstrap state machines, heartbeat responders and execute loops, and the frames everybody sends them |
| `Handshake` | abstract: what the fleet relies on when a daemon boots; `Daemons` refines it |
| `IpcStream` | ring buffers, framing, partial sends and receives of one connection |
| `FrameQueue` | abstract: a queue of whole frames; `IpcStream` refines it |
| `Heartbeat`, `HeartbeatProofs` | engined's rounds, the daemons asked and mgmtd's view; proofs about them and about `Daemons` |
| `Probe` | probed's sweeps, engined's inventory and status rows, collectord's tenant probes |
| `HttpClient` | the outcomes of one outgoing request: pinning, handshake, deadline, response |
| `Credentials` | connector tests, key issue and refresh, the credential cache, engined's rows, mgmtd's tickets |
| `ConnectorConfig` | the document: validation on commit, references, the loader of collectord |
| `Settings` | mgmtd's commit and save against the cached document, engined's patch |
| `Collection` | collection jobs, stored samples and their pruning, the console's pages of them |
| `Topology` | composition of a site's picture, the request and mgmtd's cache of the answers |
| `Chat` | the assistant: turns, the worker pool, streams, stored sessions, configuration pushes |
| `Access` | sign-in, throttling, password changes, accounts, SAML and OIDC |
| `AccessProofs` | proofs about `Access` |
| `NetworkProofs` | proofs about `Topology` and `Probe` |
| `ConsoleProofs`, `ChatProofs` | proofs about `Settings` (with `ConnectorConfig`), `Credentials`, `Collection` and `LogTail`; and about `Chat` |
| `LogTail` | the log index: offsets, folding, rotation, transactions, the console's paging |
| `MCServices` | TLC instance of Heartbeat, Probe, Topology, Credentials, Collection, Settings, Chat and Access (with `MCDocuments`, `MCProbe`, `MCTopology`, `MCCollection`, `MCSettings`, `MCAccess` for their constants) |
| `MCFabric` | TLC instance of Probe, Daemons, IpcStream, Topology and LogTail under fairness |

Operators whose comment starts with `Fault:` are not part of any specification. Each is a
plausible bug in the definition that follows it, and is used to confirm that the property
it is meant for notices it.

### EngineCommit

One step is one handler. `Poll` turns all received frames into events; one `Schedule...`
step is the `schedule()` of the bootstrap service (the commit service has none);
`execute()` then takes one event, or one action when there is no event, until both queues
are empty. `tx` holds what the last step handed to the TX router. A test "interval
elapsed" may go either way, so timeouts fire at any tick. `StoreCanFail` lets reads of the
version return 0 (the startup file) and `commitConfig` fail, with or without the
transaction having been committed. A payload is `empty`, `bad` (does not parse, is not an
array, stages nothing) or `good`. `Restart` is a crash or the execv of a SIGHUP. `owed` is
history: a reload was scheduled and not answered.

### Fleet

Connections are FIFOs (`up[p]`, and `down[p]` or engined's `rx`). A dying process leaves
`HangUp` as the only content of its `up`: ipcd closes on EPOLLRDHUP before it reads, so
unread frames are lost. ipcd relays a frame when it reads it and keeps its own commands
(ClientHello, SyncRequest, RuntimeReady) for `execute`. Because ipcd accepts a connection
one poll before its first frame is read, events of the predecessor have been executed by
then; this is the guard in `IpcdIngress`. `Marks(p)` and `Asks(p)` are the places of ipcd's
event queue that hold RuntimeReadys of `p` and its questions: the last of the former marks
the table, and `Replies` answers the latter in order. A daemon loads its version when it boots
and reports that number. `ConfigApply` is modelled up to the execv it leads to.

Bounds in the guards: a retried message (ClientHello, SyncRequest, RuntimeReady) is sent
only if the previous one has been consumed; this keeps the FIFOs finite and removes only
duplicates whose handlers are idempotent. `MaxCrashes` bounds crashes, `MaxRequests`
commits. `mgmtd` is connected from the start and does not crash; ipcd does not crash
(systemd restarts the whole fleet with it).

### ConfigStore

A configuration maps domains to None, Roleless (accounts without a role), Declared (by the
schema script), Factory or the number of the commit that wrote it. The table is empty at
first, or what a release left behind that knew no declared accounts or no roles; None and
Roleless are `LeftOut`, and the only contents a stored version may have completed later. The
schema script runs at each preflight and fills the accounts of every stored row in place
(`EnsureSchema`), superseded rows included, as back-filling fills the newest one. Rows are
indexed by version. `pc` is where engined stands in `preflight` or `commitConfig`: one
action per SQL statement, so that outages and crashes fall between any two. `link` tells an
unnoticed dead connection (`stale`) from a reset one: `ensureLive` only reconnects what
libpq already knows to be bad, so the first statement after an outage fails. An upgrade may
change the startup file at a crash. Two statements whose results nobody reads
(`startup_config`, `local_users`) are kept for their effect on the connection. A transaction
is atomic in the server: `rows` changes at COMMIT only. `EngineCommit` uses the summary of
this module: a commit appends one version, or fails with or without having done so, and a
read yields the newest version or 0.

### The transport

`Daemons` runs one daemon at a time, any of the six. A turn of its loop is a poll that
reads some of the frames that have arrived and has the factory make events of them
(`DmPoll`), the `schedule` of its services (`DmSchedule`), one step for each event and then
for each action they posted (`DmExecute`), and the end of the turn (`DmTurnEnds`). Each daemon has
its own definitions, translated from its own files; they differ in who waits for
RuntimeStart, who retries and who gives up. ipcd's ServerHello may be lost. A frame no
factory knows is recorded in `dmUnhandled`. `IpcStream` has bytes tagged with their frame
and position, two rings and a socket that takes a few bytes at a time; its refinement
mapping cuts what is in flight into frames.

### The services

Each module keeps the state of the services on both sides of an exchange and the frames
between them. External calls (devices, the identity provider, pretzel-ai) end in any of the
outcomes the code tells apart. Statements of the database may fail. Bodies, prompts, keys
and passwords are numbers; a sealed value is a record of what it seals.

`Probe`: a request may reach probed at any moment, as it does when engined was restarted
during a sweep. In the phases `Sending` and `WaitingReplies` it is kept back; in the tick
that ends a sweep it clears the targets before the report is built (`ReportIsSweep`).

`Topology`: a body is what the parsers read from it: names, zones, peers. The actions fall
into samples that arrive and the exchange between mgmtd and topologyd.

`Credentials`: a test's ticket is in one place until its answer is read or dropped for room;
`lost` holds the tickets that went down with collectord (a re-exec cuts the queues to and
from it) or with a frame that found no room (`FramesRefused`), and `testResult` answers
"pending" to those for ever. `dropped` records that engined missed an update.

`ConnectorConfig` and `Collection`: the loaders of collectord keep lists, as the code does:
a job is a position in the list, and a stream that two items name, which the commit page
accepts, is polled twice. The stored samples are a function of their oids, the insert and
the sweep are statements that may fail, and the reader keeps the oids of each page.

`Settings`: any number of batches (up to `MaxCommits`) may be open. `overtaken` records that
a batch was accepted while another waited for engined, or against an outdated copy;
`EnginedRestart` loses the batches engined had taken in and the answers it had not sent. A
disk that fills up may leave a saved file torn.

`Chat`: the places a ticket can be at are the set `Whereabouts`. A push may go out without
keys, when the table cannot be read or a key cannot be opened, may overlap another, or may
be refused; each spoils it (`spoiled`), and `keyDropped` records that the write of the last
key failed.

`Access`: a SAML response is a record of the facts `verifyResponse` tests: that some
signature in it verifies (the code does not compare the signature's reference with the
assertion it reads), conditions, audience (not tested when the settings name none), time
window, groups; and a token likewise. A response posted twice gets two tickets. Roles are
committed (`admins`) and copied into a session at login. engined's statements may fail
(`lostWrites`), its restart loses updates on their way, and its start puts a removed default
account back with the factory password (`reseeded`). Four statements about accounts do not
hold, and are kept out of `AccountsKept`: that the only declared administrator keeps his
account (`OnlyAdminStays`), that some account is left (`WayIn`), that an answered change is
stored, without exceptions (`AnsweredIsTrue`), and `UpgradeKeepsAnswer`: a sign-in with an
outdated hash re-stores the password behind a change or a removal on its way, so that
`AnsweredIsStored` is stated of the other accounts.

`LogTail`: a file is a sequence of lines that open or continue an entry, the table is a
function of its oids, and a failed transaction may use up numbers of the sequence. A
checkpoint that cannot be read looks like a first sight of the daemon.

Bounds are constants named `Max...`, each counting what its name says. `HeldResults`,
`HeldAnswers`, `HeldCases`, `SsoResultLimit` and `BodiesPerStream` are limits of the code
made small enough to be reached.

## 3. Runs

| Run | Instance | Shows |
|---|---|---|
| `EngineCommit` | 1 daemon, 3 commits, 2 frames per poll, trim at 1, restarts, failing store | `OneDriver`, `QueueInOrder`, `NoStall`, `AnswerOnce` |
| `EngineLive` | 1 daemon, 2 commits, 1 frame per poll, full interleaving | `RunningFinishes` |
| `Fleet` | 1 gated daemon, 1 commit at any time, 1 crash of it or of engined | `AppliedIsLoaded`, `StartNotLost`, `ShownMatchesQueue` |
| `FleetGate` | a gated daemon and apid, 1 crash, failing store | `StartsTogether` |
| `FleetConverge` | 1 daemon, 1 commit on a running fleet, no crash | `OkMeansConverged`, `FleetConverges`, `ReloadResolves` |
| `Store` | accounts (edited, and migrated by the schema script), a domain an upgrade ships, a secret; 2 commits, 2 outages, 1 crash; empty or left by an older release | `OneActive`, `ServedVersionStable`, `NoSecretStored`, `UndoneStaysOut`, `EditsSurviveOnline`, `HistoryKept`; under fairness `EventuallyPreflighted` |
| `Services` | one service at a time, bounds in `Services.cfg` | the safety of each service, see below |
| `Fabric` | one part at a time, bounds in `Fabric.cfg` | refinement and liveness of each part, see below |
| `EngineTrim` | the real threshold 5, 7 commits | violated: pending commits are dropped by the trim |
| `FleetFalseOk` | a commit and, behind it in the same tick, the SyncResponse that completes the boot | violated: answered ok with nobody converged |
| `StoreLostEdits` | 2 commits, 1 outage | violated: edits replaced by factory values |
| `MutualRemoval` | 2 accounts, both administrators | violated: each removes the other, and no account is left |

`Services` starts in one of fourteen parts and leaves the others at rest: they meet only
through engined's tables and the commit, which `Fleet` models, so a product would add
interleavings of independent steps and nothing else. To keep the parts small `MCServices`
bounds them further: a restart of engined falls into the first heartbeat round; at most
three messages of the drawing are on their way; two tests run without a fault, or one with
one; a document changes among two samples of three; passwords are guessed while no update is
on its way; one account loses its last update, and from then on one update at a time is on
its way. The proofs have none of these bounds. The run
checks:

- `PendingCounted`, `RoundsSound`: the round counter, one result per round, nobody alive
  more often than it answered (2 daemons, 2 rounds, a restart of engined);
- `StatusSound`: a report lists who answered in its whole sweep or, after a request in the
  sweep's last tick, nobody; rows follow the last report through changed inventories, and a
  late outcome never replaces a newer one;
- `PictureSound`: once a sample has arrived, an interface a VPN leaves by is never drawn as
  an inside one and the overview keeps the hub of every site, for any three samples of the
  streams; what is filed for a site is a drawing of that site that did not fail;
- `TicketAccounted`: a test's ticket is in one place until its answer is read or dropped for
  room, or the ticket is lost with collectord or with a frame, after which it is nowhere;
- `CacheIsDurable`: unless an update was dropped, a key or account that collectord caches is
  stored or on its way to the store, through restarts of collectord;
- `CollectionSound`: one timer or call for each listed item, the newest bodies are kept,
  pages are complete, and the console lists what the collector polls;
- `StoredSound`: no sequence of accepted batches leaves no administrator or a secret in the
  document, however many are open; and while no batch was overtaken every reference resolves;
- `AnswersTracked`: every ticket of the assistant is in one place until it is read or
  dropped, no partial text comes after the answer, refreshes end, and a stored question has
  its answer unless a statement failed;
- `PushCarriesKey`: with nothing on its way, the table has the key saved last unless that
  write failed, and pretzel-ai runs on it unless the last push was spoiled: one undisturbed
  push repairs whatever went before it;
- `SsoSound`: a federated session rests on a response that passed authd's checks and names
  its user, a ticket opens one session (a response posted again has a ticket of its own and
  may sign in again), and an OpenID state succeeds once;
- `AccountsKept`: with nothing on its way, an account is what was last answered of it,
  unless the statement failed, a restart lost the update, engined's start put the account
  back or its hash was outdated; and an unlocked local session belongs to an account that
  was set up, with the same exception for a restored one.

`Fabric` checks `NothingUnhandled` (every frame anybody sends is known where it goes),
`RowsSound` (a log row is a whole entry, pages are exact), the refinements
`ImplementsHandshake` and `ImplementsQueue`, and, under fairness, `SweepEnds`, `Serves`,
`AcceptedArrives`, `SiteIsDrawn` and `CatchesUp`.

The violated runs each state a sentence of the repository; `PROJECT.json` quotes it under
`findings`, together with disagreements that need no run of their own.

**Why the bounds are enough.** `OneDriver` and its companions concern a finished, a
running and a waiting commit: three commits. A trim threshold of 1 makes trimming happen
with three tasks; the real threshold appears in `EngineTrim` and, for every value, in the
proofs. Two frames in one poll are what is needed for a SyncResponse and a commit, or a
timeout and a SyncResponse, to meet in one tick. With one daemon every fleet predicate is
about "all" and "some" at once, so the gate is checked with two, one of them ungated. One
crash at any point is a restart between any two steps; two outages are one that breaks
the connection and one that interrupts the recovery. The services' properties relate an
old and a new thing of a kind (round, sweep, key, turn, picture, session, file), so two
of each and one fault at any point reach the cases; rings of 7 bytes with frames of 2 to 4
bytes (and one of 6 that is over the limit) wrap at every position and straddle the end;
three log entries of up to two lines have one closed, one growing and one rotated away.

**Reduction in `MCEngineCommit`.** Only `Poll` reads `rx`, so a frame that arrives while
the tick schedules or executes cannot be told from one that arrives just before the next
`Poll`. `MCSpec` therefore lets the environment act between ticks only. `EngineLive` and
the fleet runs use the unreduced specifications, and the proofs are about `Spec`.

**Fairness.** Every process runs its loop (weak fairness of its steps) and systemd
restarts a dead daemon (`Restart=always`). Strong fairness is used where the code tests a
clock at every tick: the reload timeout, the SyncRequest retry and the preflight retry
are enabled again and again until they happen. In `EngineLive` ipcd eventually answers a
ClientHello that is retried for ever. In `ConfigStore` the server comes back. In
`MCFabric` the loops of both ends run (`Loop`, `OtherEnd`), a reply timeout that stays
passed is seen and a daemon's retry interval, compared in every pass of its loop, is found
to have passed (both strong, since other steps intervene), a process told to reload is
replaced, engined starts a daemon some time after its hello, an open page polls again and a
request is given up after its ten seconds. Operators, losses, crashes and outages are
never fair.

## 4. Proofs

`EngineCommitProofs` proves, for any list of daemons, any threshold and any number of
commits, that `Inv` is an invariant of `Spec`, and from it `TypeCorrect`,
`OneDriverAlways`, `QueueInOrderAlways`, `NoStallAlways`, `AnswerPendingAlways` and
`AnswerOnceAlways`. The argument: `OneDriver` alone is not inductive, because a finisher
taken from the event queue finishes "the first Running task", which is right only if
there is one (`QueueInOrder`), and starting the next task must not leave two finishers,
which needs that nothing else was queued (`OneDriver` with `NoStall`). `LoopDrained` is
needed since the timeout is posted by `schedule`, which is safe only because no finisher
is left over in the action queue from the previous tick. Each action is a step of the
proof; lemmas say what appending to and taking from the queues does to the sets of
finishers, and what `StartNext` and `TrimAndStart` do to a queue in order.

`ConfigStoreProofs` proves, for any domains, secrets and numbers of commits, outages and
crashes, that `Inv` is an invariant and from it `OneActiveAlways`,
`NoSecretStoredAlways`, `ServedVersionStableAlways` and `HistoryKeptAlways`. The
strengthening is `TxnExtendsRows`: the open transaction is the committed table, untouched,
superseded, or superseded and followed by one active row, depending on the statement
reached. That history is kept (`Kept`) is what lets caches go on serving their versions. The
schema script and the back-filling rewrite stored rows under a process that has loaded them,
so both `Kept` and `Serves` speak of the domains that are not `LeftOut`; `SchemaTable` and
`BackfillTable` show that nothing else of a row changes.

Two more theorems follow the values of a configuration rather than the rows.
`UndoneStaysOutAlways` rests on `FreshInv`: commit numbers are fresh, and the change under
way is known to its own transaction and cache only, so that a rollback leaves no copy a later
commit could start from. `EditsSurviveOnlineAlways` rests on `OnlineInv`: until an outage
strikes the connection is sound, and every copy a commit can start from is at least as new
as what was acknowledged. An outage breaks exactly this (`StoreLostEdits`).

`HeartbeatProofs` proves, for any finite set of targets, that types and `PendingCounted`
are an invariant (`HeartbeatInvariance`, `PendingCountedAlways`). The one arithmetic fact
is `OneFewerPending`: the test `m_pendingCount <= 0` after an answer is true exactly when
no entry is pending. `RoundsSoundAlways` needs a balance, `RoundsInv`: every round is
reported, has its result queued or is open; a queued request meets neither; and each time a
daemon was or will be reported alive is paid for by an answer of its own, whichever round
the answer fell into.

The same module proves two theorems about `Daemons`, for any number of frames, hellos and
losses. `NothingUnhandledAlways` follows from `DmTypes`: what is in a daemon's inbox is a
frame somebody sends it, and each event and action in its queues is one that a service of
that daemon takes. `HandshakeImplemented` is the refinement: every step of every daemon is
a step of `Handshake` or changes nothing of it. It rests on `BootInv`, which ties the
bootstrap's state to what the process has said: a ServerHello on its way, in the inbox or
among the events of the turn, was asked for, a RuntimeStart goes to a process that announced
itself; a daemon still waiting for its ServerHello has not announced itself, and one that is
gated is ready only if it was started. A start may come at any time after the hello, also to
a daemon that has not announced itself: engined broadcasts it over the routes that are bound
at that moment, also when its target is 0. In `Handshake` such a start takes the place of the
announcement; what it never allows is a gated daemon that serves without a start.

`FleetProofs` proves the four safety properties of the composed system, for any set of
daemons, any subset of ungated ones, and any number of versions, commits and crashes. It
goes up in layers, each an invariant of `FleetSpec` that uses the ones below:

- `FleetTypes`: every frame is one its sender writes (`FleetTypeCorrect`);
- `Link`: a hang-up is the first thing on a connection, whatever a daemon has received came
  over a live route, and a version that travels is the one its process loaded. From it
  `AppliedIsLoadedAlways`; `AppliedIsLoaded` alone says nothing of the reports still in a
  FIFO or in ipcd's event queue, which is where a stale one would come from;
- `Greeted`, `Heard`: what ipcd and engined know of a daemon, in the table, in every queued
  report and in the process map: a generation that is current belongs to a daemon that has
  its ServerHello or will read it before anything else;
- `AllMet \/ Quiet`: until everybody has been met nobody has been told to start, and no
  frame, event or action that would is queued. From it `StartsTogetherAlways`;
- `Awaited`: the start that goes with a blessed generation is on its way or waits behind
  the ServerHello. From it `StartNotLostAlways`;
- `Told`: the newest status on its way is that of the queue. From it
  `ShownMatchesQueueAlways`.

`EngineInFleet` shows that a step of the fleet is a step of `EngineCommit`, or leaves all of
engined but its inbox alone, so that what `EngineCommitProofs` has (`OneDriver`,
`QueueInOrder`, `NoStall`, `AnswerPending`) holds of engined among the real daemons.

`AccessProofs` proves `SsoSoundAlways` and `AccountsKeptAlways` for any users,
administrators, browsers, responses, tokens and limits, with local and federated sign-ins
running together, where the run has them apart. The invariant `AccessInv` has, besides the
types, `AccountsInv`: the last queued update of an account carries the answer (`LastSays`;
engined stores updates in the order they were sent), and what engined loses or puts back is
recorded as such; `TicketsOnce`: a ticket is at one place, so that its verdict is taken once;
`Earned`: every verdict and session on the way from authd to a browser rests on a response
that passed the checks; `Spent`: a state that an exchange succeeded for is gone.

`NetworkProofs` proves `PictureSoundAlways` and `StatusSoundAlways`. The first is for any
configuration and any finite documents: the roles and links come from two documents, but
through the same list of IKE gateways (`LinkTerminates`); the overview has every link a site
has (`OverviewHasLinks`), and the cardinalities the shape is decided by are turned into the
two firewalls they stand for (`TwoMembers`); only the error object names no site
(`AnswerIsSound`). The second has no hypothesis on when requests arrive. Its invariant
`Ready` says that the end of a sweep is the last event of its tick (`EndsLast`), so that no
reply is taken between it and the report, and that a report that is due will find the targets
as the sweep left them, or cleared (`ReportReady`). Of the tenants `TenantsInv` has that one
call runs for each and cycles are counted upwards.

`ConsoleProofs` proves two theorems about the settings, for any number of batches open at
once and with restarts of engined. The invariant of `NoLockOutAlways`, `ShapesInv`, says that
every array stored, and every batch on its way to it, passed `validateCommitShape`; neither
the copy it was judged against nor the order engined applies batches in matters to that.
`StoredSoundAlways` adds that references resolve, which does depend on the copy, and holds
while no batch was overtaken. Its invariant `RefsInv`: until then at most one batch waits for
engined, and it was judged against the document as it is. The condition is needed: with two
batches open, one that removes a credential and one that adds a connector to it are each
accepted against the same copy, and TLC finds `AcceptedIsCollected` violated on the instance
of `Services`.

It proves four more theorems about what the console shows and waits for.
`TicketAccountedAlways` (any devices, profiles, limits, restarts and lost frames): by
`CredTickets` the tickets handed out are parted into asked, in a call, answered, held and
over (`Over`: closed or lost); the places are disjoint and none is twice in a queue.
`CacheIsDurableAlways` is about what the store will hold of a profile once the updates in
flight are handled, restarts of collectord included: by `CredDurable` a snapshot of the store
on its way fills no cache from an empty column, since engined's COALESCE never empties one
(`RowsStay`), and a key that collectord caches was sent in the same step. It supposes, like
the property, that credentials can be sealed and that no update was dropped.
`CollectionSoundAlways` (any stored documents, page size and number of bodies): `ActInv` says
that the jobs are the positions of the lists in the stored document and that timers and calls
of each add up to one; `TableInv`, that oids are below the sequence and that a body is
released only when as many newer ones stay, which survives an insert because the newest `b`
of a set with one more element are `b - 1` of the old ones and the new one (`NewestOnes`);
`PagerInv`, that what was served is at or above the cursor, and what stays above it was
served. `RowsSoundAlways` (files, entries and pages of any size): by `FileInv` the lines of
the file are those of the entries written, in order; by `RowInv` a row is an entry that a
later header has closed, so that its writer adds nothing to it, and every entry opened past
the checkpoint is later than every row, which a rotation, a rolled back transaction and a
checkpoint that cannot be read keep; `LogPagerInv` is `PagerInv` for its pages.

`ChatProofs` proves `AnswersTrackedAlways` and `PushCarriesKeyAlways` for any sessions and
owners, any number of workers, turns, reads, streams and pushes, and any limits on what is
held. `ChatInv` has a part for each variable group. `TicketInv`: the tickets handed out are
parted into queued, worked on, answered, filed and closed, none is twice in a queue, and the
parts of an answer are in front of it in the result queue. `RefreshInv`: the flag of the
stream thread says what it does, and a running refresh has not read its final message or
will be ended by one in the queue. `PairsInv`: questions and answers are stored both or
neither, which holds each turn's pair together through deletions and retries. `KeyInv`: the
last key on its way to the table is the one saved last (`KeySent`), and while the last push
is sound, so is every configuration the workers hold (`KeyGood`). A spoiled push voids only
the second part, and the next push restores it.

The assumptions are those of the modules (`EngineAssumption`, `FleetAssumption`,
`StoreAssumption`, `HbAssumption`, `DaemonsAssumption`, `AccessAssumption`,
`TopologyAssumption`, `ProbeAssumption`, `SettingsAssumption`, `CredentialAssumption`,
`CollectionAssumption`, `LogTailAssumption`; `Chat` needs none): types of the constants;
secrets, shipped domains and the accounts being domains, and the accounts no secret; a
default administrator that is an account; a finite, non-empty set of heartbeat targets; no
service daemon called engined or mgmtd; a site having an oid, which `validSite` demands;
finite documents; a shipped configuration that is itself well shaped and without dangling
references; a change that carries arrays of its own domain, engined storing any other key
under that domain, where nobody reads it; device oids that are not profile oids; and, for
`Collection`, documents whose arrays passed `validateCommitShape`, which `ShapesInv` of
`ConsoleProofs` shows of every document that commits can lead to.

Every safety invariant of the passing runs is stated by a theorem, and so are their action
properties but one. Only model-checked, and why: all liveness (the prover does not handle
fairness); `OkMeansConverged`, which holds of a commit on a running fleet without a crash,
the instance of `FleetConverge`, and not of every fleet (`FleetFalseOk`); and the refinement
`ImplementsQueue`, whose mapping cuts a sequence of bytes into frames with a
selection over the sequence, and whose receiver takes any number of frames in a turn: both
would take an induction over data.

Definitions that no run checks as properties state what does not hold of the code and are
kept with their modules because a finding refers to them. TLC finds these violated on the
instances of `Store` and `Services`: `SeededIsDeclared` of `ConfigStore`, `ReportIsSweep` of
`Probe`, `AcceptedIsCollected` and `SavedIsWhole` of `Settings`, `AnsweredIsTrue`,
`OnlyAdminStays`, `LockedUntilDone` and `UpgradeKeepsAnswer` of `Access`, and `RunTracked` of
`Chat`. Others take an instance of their own: `LoadsLastGood` of `Fleet`, `StaysOpen` of
`IpcStream` (with a ring of the maximum frame size), `SavedAccountKept` of `Credentials`
(with two passwords) and `NothingSkipped` of `LogTail`. The type invariants `TypeOK`,
`HbTypeOK` and `FleetTypeOK` are proved and left out of the runs.

## 5. Not modelled

HTTP serving, TLS, gRPC's wire and the browser code (libraries and presentation); the
cryptography of SAML, OIDC, passwords and sealed secrets (predicates and records here);
ICMP and vendor API payloads beyond what a decision reads; the SASE composition of
topologyd and mgmtd's dashboards, which render what they read; apid's ingest, one request
turned into one statement; build and install scripts. The connection limit and crashes of
ipcd and mgmtd are left out: systemd restarts the fleet with ipcd, and mgmtd's sessions,
tickets and caches die with it. Latencies and other durations are not modelled: a test of
a clock may go either way.

## 6. Plan

Done, in this order: 1. `EngineCommit` and its proofs. 2. `Fleet`. 3. `ConfigStore` and
its proofs. 4. `Heartbeat` and its proofs. 5. `IpcStream` refining `FrameQueue`. 6. The
daemons' own state machines, refining `Handshake`. 7. The services of probed, collectord,
topologyd, authd and engined. 8. mgmtd's sessions, tickets, caches and gRPC client. 9. The
proofs of `Fleet`, `Access`, `Topology`, `Probe`, `Settings` and `Chat`, and of the rest of
`ConfigStore` and `Heartbeat`. 10. The proofs of `Daemons` with its refinement of
`Handshake`, `Credentials`, `Collection` and `LogTail`. Next:

11. An abstract specification of the commit service (a request is accepted, then published
    or refused, once) refined by `Fleet`, with two commits and mgmtd's single status.
12. `ImplementsQueue`, with the frames in flight as a history variable instead of a
    selection from the bytes.
