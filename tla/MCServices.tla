----------------------------- MODULE MCServices -----------------------------
(***************************************************************************)
(* The services of the appliance, one at a time: heartbeat rounds,         *)
(* reachability, the topology drawing, credentials, collection, the commit *)
(* page, the assistant and the accounts.  They meet only through engined's *)
(* tables and the commit, so a behaviour picks one of them and leaves the  *)
(* others at rest.                                                         *)
(***************************************************************************)
EXTENDS Heartbeat, MCProbe, MCTopology, Credentials, MCCollection, MCSettings, Chat, MCAccess

VARIABLE part

Parts == {"heartbeat", "sweep", "sase", "samples", "exchange", "tests", "failures", "collection", "settings", "turn", "stream", "push", "local", "sso"}

servicesVars ==
  <<hbVars, probeVars, topologyVars, credVars, collectionVars, settingsVars, chatVars, accessVars, part>>

\* A part at rest starts in one state.
ServicesInit ==
  /\ part \in Parts
  /\ HbInit /\ ProbeInit /\ TopologyInit /\ CredInit /\ CollectionInit /\ SettingsInit
  /\ ChatInit /\ AccessInit
  /\ part \notin {"sweep", "sase"} => prDoc = Before
  /\ tenantRows = <<>> <=> part # "sase" \/ prDoc.sase = <<>>
  /\ part \notin {"tests", "failures"} => available
  /\ part # "collection" => doc = Polled(Both) /\ ~pruneDue
  /\ part # "sso" => ssoMethod = "saml"

Rest(varsAtRest) == UNCHANGED <<part, varsAtRest>>

Rounds(which, step) ==
  /\ part = which /\ step
  /\ Rest(<<probeVars, topologyVars, credVars, collectionVars, settingsVars, chatVars, accessVars>>)

Reach(which, step) ==
  /\ part = which /\ step
  /\ Rest(<<hbVars, topologyVars, credVars, collectionVars, settingsVars, chatVars, accessVars>>)

Drawing(which, step) ==
  /\ part = which /\ step
  /\ Rest(<<hbVars, probeVars, credVars, collectionVars, settingsVars, chatVars, accessVars>>)

Keys(which, step) ==
  /\ part = which /\ step
  /\ Rest(<<hbVars, probeVars, topologyVars, collectionVars, settingsVars, chatVars, accessVars>>)

Collector(which, step) ==
  /\ part = which /\ step
  /\ Rest(<<hbVars, probeVars, topologyVars, credVars, settingsVars, chatVars, accessVars>>)

Commits(which, step) ==
  /\ part = which /\ step
  /\ Rest(<<hbVars, probeVars, topologyVars, credVars, collectionVars, chatVars, accessVars>>)

Assistant(which, step) ==
  /\ part = which /\ step
  /\ Rest(<<hbVars, probeVars, topologyVars, credVars, collectionVars, settingsVars, accessVars>>)

Accounts(which, step) ==
  /\ part = which /\ step
  /\ Rest(<<hbVars, probeVars, topologyVars, credVars, collectionVars, settingsVars, chatVars>>)

\* Bounds of this instance: a restart of engined falls into the first heartbeat round, at most
\* three messages of the drawing are on their way, two tests run without faults or one with a
\* fault, a document changes among two samples of three, and passwords are guessed while no
\* update is on its way, one account losing its last update and then one update being on its way.
ServicesNext ==
  \/ Rounds("heartbeat", HbNext /\ (hbRestarts' > 0 => rounds' <= 1))
  \/ Reach("sweep", SweepNext)
  \/ Reach("sase", SaseNext)
  \/ Drawing("samples", \E s \in TopoStreams : SampleArrives(s))
  \/ Drawing("exchange", ExchangeNext /\ Len(topoRequests') + Len(replies') <= MaxAsked + 1)
  \/ Keys("tests", CredNext /\ faults' = 0)
  \/ Keys("failures", CredNext /\ nextTicket' <= 2)
  \/ Collector("collection", CollectionNext /\ (reloads' > 0 => made' <= 2))
  \/ Commits("settings", SettingsNext)
  \/ Assistant("turn", TurnNext \/ LoopNext)
  \/ Assistant("stream", StreamNext \/ LoopNext)
  \/ Assistant("push", PushNext \/ LoopNext)
  \/ Accounts("local", LocalNext /\ (throttles' # <<>> => updates' = <<>>)
                                /\ Cardinality(lostWrites') <= 1
                                /\ Len(updates') + Cardinality(lostWrites') <= 2)
  \/ Accounts("sso", SsoNext)

ServicesSpec == ServicesInit /\ [][ServicesNext]_servicesVars

=============================================================================
