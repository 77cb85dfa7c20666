----------------------------- MODULE Collection -----------------------------
(***************************************************************************)
(* Polling the devices.  collectord arms one timer for each enabled item   *)
(* of each connector; a timer that fires makes one HTTPS call, and the     *)
(* completion sends a sample to engined and arms the timer again.  engined *)
(* inserts the sample and, at most once an hour, sweeps the table.  mgmtd  *)
(* reads the same table for the collection page, page by page, while both  *)
(* go on.                                                                  *)
(*                                                                         *)
(* Every commit restarts collectord with the new document, calls in flight *)
(* and all, so a sample of the old document may arrive afterwards.         *)
(***************************************************************************)
EXTENDS ConnectorConfig, HttpClient, FiniteSets

CONSTANTS
  Documents,       \* the documents a commit may store
  Keyed,           \* the profiles whose key collectord holds
  BodiesPerStream, \* kBodiesPerStream
  PageLimit,       \* limit of GET /api/collection/samples
  MaxSamples,      \* bound: calls made
  MaxReloads       \* bound: commits

\* A stored document has passed the checks of the commit page, array by array.
ASSUME CollectionAssumption ==
  /\ BodiesPerStream \in Nat \ {0} /\ PageLimit \in Nat \ {0}
  /\ MaxSamples \in Nat /\ MaxReloads \in Nat
  /\ \A d \in Documents : \A a \in {"ngfw_devices", "sase_devices", "endpoints"} : validArray(a, d[a])

VARIABLES
  doc,        \* the stored document
  jobs,       \* collectord's jobs
  timers,     \* pending waits, a bag of jobs
  apiCalls,      \* calls in flight, a bag of jobs
  samples,    \* ApiCollectionSamples on their way to engined
  rows,       \* api_collection, by oid
  nextOid,    \* its sequence
  pruneDue,   \* an hour has passed since m_lastPrune
  reader,     \* one reader of the table, between two of its pages
  made, reloads

collectionVars ==
  <<doc, jobs, timers, apiCalls, samples, rows, nextOid, pruneDue, reader, made, reloads>>

streamKey(job) == <<job.connector, job.endpoint>>

AllJobs == UNION {Jobs(d) : d \in Documents}

\* pages are the oids served so far, page by page; present those of the rows at the start.
Idle == [page |-> "idle", stream |-> <<>>, before |-> 0, pages |-> <<>>, present |-> {}]

\* ConnectorController::start: a timer for each enabled item.
ArmAll(js) == [j \in AllJobs |-> IF j \in js THEN 1 ELSE 0]

CollectionInit ==
  /\ doc \in Documents
  /\ jobs = Jobs(doc)
  /\ timers = ArmAll(jobs) /\ apiCalls = [j \in AllJobs |-> 0]
  /\ samples = <<>> /\ rows = <<>> /\ nextOid = 1
  /\ pruneDue \in BOOLEAN
  /\ reader = Idle
  /\ made = 0 /\ reloads = 0

-----------------------------------------------------------------------------
(* collectord *)

\* The timer of a job fires, and one is armed.
Fired(t, j) == [t EXCEPT ![j] = @ - 1]
armJob(t, j) == [t EXCEPT ![j] = @ + 1]

IsSase(e) == e.deviceType = "sase"

\* The endpoint, the issued key and, for a firewall, the device all have to be there.
\* (The document of this process: a commit replaces jobs and document together.)
CanCall(j) ==
  /\ findEndpoint(doc, j.endpoint)
  /\ j.profile \in Keyed
  /\ \/ \E e \in loadEndpoints(doc) : e.oid = j.endpoint /\ IsSase(e)
     \/ resolveDevice(doc, j.object)

\* collectOnce and collectSaseOnce: the timer has fired and the call is under way, or the
\* poll cannot be made and waits for the next interval.
CollectOnce(j) ==
  /\ timers[j] > 0
  /\ \/ /\ CanCall(j) /\ made < MaxSamples
        /\ timers' = Fired(timers, j)
        /\ apiCalls' = [apiCalls EXCEPT ![j] = @ + 1]
        /\ made' = made + 1
     \/ /\ ~CanCall(j)
        /\ timers' = armJob(Fired(timers, j), j)
        /\ UNCHANGED <<apiCalls, made>>
  /\ UNCHANGED <<doc, jobs, samples, rows, nextOid, pruneDue, reader, reloads>>

\* The request of a poll: a SASE host is vouched for by the CA chain, a firewall
\* by the pin of its device.
CallRequest(j) ==
  IF \E e \in loadEndpoints(doc) : e.oid = j.endpoint /\ IsSase(e)
  THEN [verifyCa |-> TRUE, pin |-> NoPin]
  ELSE [verifyCa |-> FALSE, pin |-> PinnedCert]

\* buildCollectionSample: an empty body is stored as NULL.
buildCollectionSample(j, res) ==
  [stream |-> streamKey(j),
   ok     |-> res.tlsOk /\ res.requestSent /\ res.reply \in {"useless", "good"},
   body   |-> IF res.reply = "none" THEN "empty" ELSE "kept"]

\* onResponse: whatever came of the call, the sample goes out and the job waits again.
onResponse(j) ==
  /\ apiCalls[j] > 0
  /\ apiCalls' = [apiCalls EXCEPT ![j] = @ - 1]
  /\ \E res \in Responses(CallRequest(j)) :
       samples' = Append(samples, buildCollectionSample(j, res))
  /\ timers' = armJob(timers, j)
  /\ UNCHANGED <<doc, jobs, rows, nextOid, pruneDue, reader, made, reloads>>

\* A commit: the new document is stored and collectord starts over on it.
Reload ==
  /\ reloads < MaxReloads
  /\ \E d \in Documents \ {doc} :
       /\ doc' = d
       /\ jobs' = Jobs(d)
       /\ timers' = ArmAll(Jobs(d)) /\ apiCalls' = [j \in AllJobs |-> 0]
  /\ reloads' = reloads + 1
  /\ UNCHANGED <<samples, rows, nextOid, pruneDue, reader, made>>

-----------------------------------------------------------------------------
(* engined *)

\* Fault: the sweep ranks the whole table instead of each stream.
BodyRankAcross(rs, i) ==
  Cardinality({k \in DOMAIN rs : k >= i /\ rs[k].body = "kept"})

\* row_number() over the rows of the stream that still hold a body, newest first.
BodyRank(rs, i) ==
  Cardinality({k \in DOMAIN rs : /\ k >= i /\ rs[k].body = "kept"
                                 /\ rs[k].stream = rs[i].stream})

Aged(rs) ==
  [i \in DOMAIN rs |->
     IF rs[i].body = "kept" /\ BodyRank(rs, i) > BodiesPerStream
     THEN [rs[i] EXCEPT !.body = "aged"] ELSE rs[i]]

\* The rows up to oid n are past the retention window.
Retained(rs, n) == [o \in {k \in DOMAIN rs : k > n} |-> rs[o]]

\* prune: the old rows go, and the rest release the bodies they may no longer hold; a
\* statement that fails is not repeated.
prune(rs, n) == {Retained(rs, n), Aged(Retained(rs, n))}

\* storeSample and pruneIfDue: one insert, which may fail, then a sweep if the hour is over.
storeSample ==
  /\ samples # <<>>
  /\ samples' = Tail(samples)
  /\ nextOid' = nextOid + 1
  /\ \E inserted \in {rows, [o \in DOMAIN rows \cup {nextOid} |->
                              IF o = nextOid THEN Head(samples) ELSE rows[o]]} :
       IF pruneDue
         THEN \E n \in 0 .. (nextOid - 1) : rows' \in prune(inserted, n)
         ELSE rows' = inserted
  /\ pruneDue' = FALSE
  /\ UNCHANGED <<doc, jobs, timers, apiCalls, reader, made, reloads>>

HourPasses ==
  /\ ~pruneDue
  /\ pruneDue' = TRUE
  /\ UNCHANGED <<doc, jobs, timers, apiCalls, samples, rows, nextOid, reader, made, reloads>>

-----------------------------------------------------------------------------
(* mgmtd: the collection page *)

\* The rows of one stream, or of every stream when none is named.
Matching(stream) == {o \in DOMAIN rows : stream = <<>> \/ rows[o].stream = stream}

\* samples: the rows strictly older than the cursor, newest first, one page of them.
PageBefore(stream, before, limit) ==
  LET older == {o \in Matching(stream) : before = 0 \/ o < before}
  IN  {o \in older : Cardinality({k \in older : k >= o}) <= limit}

Oldest(page) == CHOOSE o \in page : \A k \in page : o <= k

\* The first page, or the one after it: a full page implies that more may follow.
ReadPage ==
  /\ reader.page \in {"idle", "more"}
  /\ \E stream \in IF reader.page = "idle"
                     THEN {<<>>} \cup {streamKey(j) : j \in AllJobs} ELSE {reader.stream} :
       LET page == PageBefore(stream, reader.before, PageLimit)
           full == Cardinality(page) = PageLimit
       IN  reader' =
             [page    |-> IF full THEN "more" ELSE "done",
              stream  |-> stream,
              before  |-> IF full THEN Oldest(page) ELSE 0,
              pages   |-> Append(reader.pages, page),
              present |-> IF reader.page = "idle" THEN Matching(stream) ELSE reader.present]
  /\ UNCHANGED <<doc, jobs, timers, apiCalls, samples, rows, nextOid, pruneDue, made, reloads>>

CloseReader ==
  /\ reader.page = "done"
  /\ reader' = Idle
  /\ UNCHANGED <<doc, jobs, timers, apiCalls, samples, rows, nextOid, pruneDue, made, reloads>>

\* overview, the declaration: the streams of one site, and why one is not collected.
DeviceOf(oid) ==
  CHOOSE d \in Entries(doc["ngfw_devices"]) \cup Entries(doc["sase_devices"]) : d.oid = oid

KnownDevice(oid) == containsOid(doc["ngfw_devices"], oid) \/ containsOid(doc["sase_devices"], oid)

ConfigError(c, item) ==
  \/ c.oldShape \/ c.authProfile = "" \/ ~KnownDevice(c.object)
  \/ ~containsOid(doc["endpoints"], item.endpoint)

Streams(site) ==
  LET cs == doc["connectors"]
  IN  UNION {{[at |-> <<i, k>>, stream |-> <<cs[i].oid, cs[i].items[k].endpoint>>,
               enabled |-> cs[i].items[k].enabled, error |-> ConfigError(cs[i], cs[i].items[k])]
              : k \in {k \in DOMAIN cs[i].items : cs[i].items[k].endpoint # ""}}
             : i \in {i \in DOMAIN cs : /\ cs[i].oid # "" /\ KnownDevice(cs[i].object)
                                        /\ DeviceOf(cs[i].object).site = site}}

-----------------------------------------------------------------------------
CollectordNext == \E j \in jobs : CollectOnce(j) \/ onResponse(j)

CollectionNext ==
  \/ CollectordNext
  \/ Reload
  \/ storeSample
  \/ HourPasses
  \/ ReadPage
  \/ CloseReader

CollectionSpec == CollectionInit /\ [][CollectionNext]_collectionVars

-----------------------------------------------------------------------------
(* What is checked *)

\* An enabled item is polled by exactly one activity, whatever its calls come to, whether or
\* not they can be made, and however often the document changes: its job has one wait or one
\* call, never both (two samples a period) and never neither (silent until the next commit).
\* A stream that two items name has two: the commit page accepts such a list.
OneActivity == \A j \in jobs : timers[j] + apiCalls[j] = 1

\* The sweep releases a body only when the stream has kBodiesPerStream newer ones:
\* a busy stream, or one whose polls fail without a body, never costs a quiet
\* one the response an operator opens to see what the device says now.
NewestBodyKept ==
  \A i \in DOMAIN rows : rows[i].body = "aged" =>
    Cardinality({k \in DOMAIN rows : /\ k > i /\ rows[k].stream = rows[i].stream
                                     /\ rows[k].body = "kept"}) >= BodiesPerStream

\* Paging through the samples while collection and sweeps go on serves the rows from
\* the newest to the oldest, each at most once, and none of those that were there at
\* the start and still are is missed.
PagesComplete ==
  /\ \A i, k \in DOMAIN reader.pages :
       i < k => \A a \in reader.pages[i], b \in reader.pages[k] : b < a
  /\ reader.page = "done" =>
       reader.present \cap DOMAIN rows \subseteq UNION Entries(reader.pages)

\* The collection page and the collector agree, although each reads the document
\* by itself and walks its lists: an item listed as enabled and without an error is one
\* collectord polls with an endpoint it found, and every such poll of a site is listed.
ListedIsCollected ==
  \A site \in {d.site : d \in Entries(doc["ngfw_devices"]) \cup Entries(doc["sase_devices"])} :
    {<<s.at, s.stream>> : s \in {s \in Streams(site) : s.enabled /\ ~s.error}}
      = {<<j.at, streamKey(j)>> : j \in {j \in jobs :
           /\ findEndpoint(doc, j.endpoint)
           /\ KnownDevice(j.object) /\ DeviceOf(j.object).site = site}}

\* What is collected, what is kept of it, and what the console reads of it.
CollectionSound == OneActivity /\ NewestBodyKept /\ PagesComplete /\ ListedIsCollected

=============================================================================
