------------------------------ MODULE Topology ------------------------------
(***************************************************************************)
(* The site picture.  mgmtd asks topologyd to compose a site when nobody   *)
(* has asked for it within ten seconds and the picture it holds is older   *)
(* than fifty; topologyd composes it from the newest sample of every       *)
(* stream and the answer is filed under the site the model names.          *)
(*                                                                         *)
(* The first half is the composition (TopologyService.cpp, NgfwModel.cpp): *)
(* pure operators over the samples.  A parsed PAN-OS document is a         *)
(* sequence of entries; Nothing is what a failed, empty or truncated body  *)
(* parses to.  The second half is the exchange.                            *)
(***************************************************************************)
EXTENDS ConnectorConfig, FiniteSets, FiniteSetsExt

CONSTANTS
  TopoDocument,   \* the configuration: sites, devices, connectors, endpoints
  RoleOfEndpoint, \* what the path of an endpoint says it lists
  Bodies,         \* stream -> the documents its device may answer with
  MaxArrivals,    \* bound: samples collected
  MaxAsked,       \* bound: requests of a page, and replies, on their way
  MaxFailures     \* bound: restarts of topologyd, and compositions that throw

\* A site has an oid (validSite), and documents are finite.
ASSUME TopologyAssumption ==
  /\ MaxArrivals \in Nat /\ MaxAsked \in Nat \ {0} /\ MaxFailures \in Nat
  /\ \A s \in Entries(TopoDocument["sites"]) : s.oid # ""
  /\ IsFiniteSet(DOMAIN TopoDocument["ngfw_devices"])
  /\ \A s \in DOMAIN Bodies : \A body \in Bodies[s] : IsFiniteSet(DOMAIN body)

VARIABLES
  latest,     \* stream -> its newest sample, or NoSample
  topoAsked,      \* site -> m_topologyAsked holds an unexpired request
  fresh,      \* site -> m_topologyAt is recent
  filed,      \* site -> m_topology
  topoRequests,   \* TopologyRequests on their way
  replies,    \* TopologyResponses on their way
  arrivals, failures

topologyVars == <<latest, topoAsked, fresh, filed, topoRequests, replies, arrivals, failures>>

Nothing == <<>>

TopoStreams == DOMAIN Bodies
NoSample == [at |-> 0, ok |-> FALSE, body |-> Nothing]

SiteOids == {s.oid : s \in Entries(TopoDocument["sites"])}
Pages == SiteOids \cup {""}          \* "" is the page of every site

-----------------------------------------------------------------------------
(* NgfwModel: reading one document *)

\* isPrivateV4 on the first two octets of a dotted quad.
isPrivateV4(a) ==
  \/ a[1] \in {10, 127}
  \/ a[1] = 172 /\ a[2] \in 16 .. 31
  \/ a = <<192, 168>>
  \/ a[1] = 100 /\ a[2] \in 64 .. 127
  \/ a = <<169, 254>>

\* classifyPeer on the labels of the peer's name, right of the location: an
\* address, a name outside the fabric, or <<marker, tenant>> under it.
classifyPeer(peer) ==
  CASE peer = <<>>            -> [kind |-> "unknown", tenant |-> ""]
    [] peer # <<>> /\ peer[1] = "sc" -> [kind |-> "service_connection", tenant |-> peer[2]]
    [] peer # <<>> /\ peer[1] = "rn" -> [kind |-> "remote_network", tenant |-> peer[2]]
    [] OTHER                  -> [kind |-> "external", tenant |-> ""]

\* parseBody: only a good sample with a body that parses has a document.
parseBody(sample) == IF sample.ok THEN sample.body ELSE Nothing

\* streamsForDevice: the enabled items of the device's connectors whose endpoint exists.
streamsForDevice(dev) ==
  UNION {{<<c.oid, i.endpoint>>
          : i \in {i \in Entries(c.items) :
                     i.enabled /\ containsOid(TopoDocument["endpoints"], i.endpoint)}}
         : c \in {c \in Entries(TopoDocument["connectors"]) : c.object = dev}}

roleOf(stream) == RoleOfEndpoint[stream[2]]

HasSample(s) == s \in TopoStreams /\ latest[s].at > 0

\* The document of one role, from whichever stream of the device serves it.
DocOf(dev, role) ==
  LET ss == {s \in streamsForDevice(dev) : roleOf(s) = role /\ HasSample(s)}
  IN  IF ss = {} THEN Nothing ELSE parseBody(latest[CHOOSE s \in ss : TRUE])

readIkeGateways(dev) ==
  LET ike == DocOf(dev, "ike")
  IN  {[name |-> g.name, interface |-> g.interface, peer |-> classifyPeer(g.peer)]
         : g \in Entries(ike)}

\* Portals and gateways both hang off an interface.
readGp(dev) == Entries(DocOf(dev, "gp_portals")) \cup Entries(DocOf(dev, "gp_gateways"))

-----------------------------------------------------------------------------
(* TopologyService: the two halves of the picture *)

\* Fault: the roles are decided from the interface document alone.
TerminatesNever(dev, name) == FALSE

\* Something terminates on the interface: a VPN, or GlobalProtect.
Terminates(dev, name) ==
  \/ \E g \in readIkeGateways(dev) : g.interface = name
  \/ \E p \in readGp(dev) : p.interface = name

InterfaceRole(dev, e) ==
  CASE e.kind = "loopback" -> "loopback"
    [] e.kind = "tunnel"   -> "tunnel"
    [] OTHER ->
         IF e.addrs # {}
         THEN IF \E a \in e.addrs : ~isPrivateV4(a) THEN "wan"
              ELSE IF Terminates(dev, e.name) THEN "edge" ELSE "lan"
         ELSE IF Terminates(dev, e.name) THEN "edge" ELSE "unknown"

Interfaces(dev) ==
  {[name |-> e.name, role |-> InterfaceRole(dev, e)] : e \in Entries(DocOf(dev, "interfaces"))}
  \cup {[name |-> e.name, role |-> "tunnel"] : e \in Entries(DocOf(dev, "tunnel_interfaces"))}

\* tunnelOfGateway: a tunnel is filed under the joined names of its gateways, so
\* one that lists two is under neither.
TunnelsOf(dev, gateway) ==
  {t.name : t \in {t \in Entries(DocOf(dev, "tunnels")) : t.gateways = <<gateway>>}}

\* One edge for each IKE gateway with a peer that can be placed.
Links(dev) ==
  {[device |-> dev, interface |-> g.interface, gateway |-> g.name,
    tunnels |-> TunnelsOf(dev, g.name), kind |-> g.peer.kind, tenant |-> g.peer.tenant]
     : g \in {g \in readIkeGateways(dev) : g.peer.kind # "unknown"}}

Firewalls(site) ==
  {d.oid : d \in {d \in Entries(TopoDocument["ngfw_devices"]) : site = "" \/ d.site = site}}

FabricLinks(site) ==
  {l \in UNION {Links(dev) : dev \in Firewalls(site)} :
     l.kind \in {"service_connection", "remote_network"}}

\* Which end is the hub: the widest tenant, then the one firewall with the links.
Shape(site) ==
  LET links == FabricLinks(site)
      perTenant(t) == {l.device : l \in {l \in links : l.tenant = t}}
      devices == {l.device : l \in links}
  IN  IF \E t \in {l.tenant : l \in links} : Cardinality(perTenant(t)) >= 2 THEN "sase_hub"
      ELSE IF /\ Cardinality(devices) = 1 /\ Cardinality(links) >= 2
              /\ Cardinality(Firewalls(site)) > 1 THEN "ngfw_hub"
      ELSE IF devices # {} THEN "edge" ELSE "flat"

-----------------------------------------------------------------------------
(* The exchange *)

NoModel == [site |-> "", drawn |-> FALSE, error |-> FALSE]
Drawn(site) == [site |-> site, drawn |-> TRUE, error |-> FALSE]
Failed == [site |-> "", drawn |-> TRUE, error |-> TRUE]   \* names no site

TopologyInit ==
  /\ latest = [s \in TopoStreams |-> NoSample]
  /\ topoAsked = [p \in Pages |-> FALSE] /\ fresh = [p \in Pages |-> FALSE]
  /\ filed = [p \in Pages |-> NoModel]
  /\ topoRequests = <<>> /\ replies = <<>>
  /\ arrivals = 0 /\ failures = 0

\* Fault: an outstanding request is never given up.
AskExpiresNever(page) == FALSE /\ UNCHANGED topologyVars

\* topologyRequested: ten seconds later the request counts as lost.
AskExpires(page) ==
  /\ topoAsked[page]
  /\ topoAsked' = [topoAsked EXCEPT ![page] = FALSE]
  /\ UNCHANGED <<latest, fresh, filed, topoRequests, replies, arrivals, failures>>

FreshExpires(page) ==
  /\ fresh[page]
  /\ fresh' = [fresh EXCEPT ![page] = FALSE]
  /\ UNCHANGED <<latest, topoAsked, filed, topoRequests, replies, arrivals, failures>>

\* siteTopology: ask when the picture is old and no request is outstanding.
siteTopology(page) ==
  /\ ~fresh[page] /\ ~topoAsked[page]
  /\ Len(SelectSeq(topoRequests, LAMBDA r : r = page)) < MaxAsked
  /\ topoRequests' = Append(topoRequests, page)
  /\ topoAsked' = [topoAsked EXCEPT ![page] = TRUE]
  /\ UNCHANGED <<latest, fresh, filed, replies, arrivals, failures>>

\* What a composition that throws is answered with.
FailedReply(page) == Failed

\* TopologyService::handleEvent: a model, or an error object without a site.
Compose ==
  /\ topoRequests # <<>> /\ Len(replies) < MaxAsked
  /\ topoRequests' = Tail(topoRequests)
  /\ \/ /\ replies' = Append(replies, Drawn(Head(topoRequests)))
        /\ UNCHANGED failures
     \/ /\ failures < MaxFailures
        /\ failures' = failures + 1
        /\ replies' = Append(replies, FailedReply(Head(topoRequests)))
  /\ UNCHANGED <<latest, topoAsked, fresh, filed, arrivals>>

\* topologyd dies with the requests it has not answered.
TopologydRestart ==
  /\ failures < MaxFailures /\ topoRequests # <<>>
  /\ failures' = failures + 1
  /\ topoRequests' = <<>>
  /\ UNCHANGED <<latest, topoAsked, fresh, filed, replies, arrivals>>

\* onTopologyResponse and setTopology: filed under the site the model names.
onTopologyResponse ==
  /\ replies # <<>>
  /\ LET model == Head(replies)
     IN  /\ filed' = [filed EXCEPT ![model.site] = model]
         /\ fresh' = [fresh EXCEPT ![model.site] = TRUE]
         /\ topoAsked' = [topoAsked EXCEPT ![model.site] = FALSE]
  /\ replies' = Tail(replies)
  /\ UNCHANGED <<latest, topoRequests, arrivals, failures>>

\* engined stores a sample: the newest of its stream from now on.
SampleArrives(s) ==
  /\ arrivals < MaxArrivals
  /\ arrivals' = arrivals + 1
  /\ \E body \in Bodies[s] \cup {Nothing}, ok \in BOOLEAN :
       latest' = [latest EXCEPT ![s] = [at |-> arrivals + 1, ok |-> ok, body |-> body]]
  /\ UNCHANGED <<topoAsked, fresh, filed, topoRequests, replies, failures>>

ExchangeNext ==
  \/ \E p \in Pages : siteTopology(p) \/ AskExpires(p) \/ FreshExpires(p)
  \/ Compose
  \/ TopologydRestart
  \/ onTopologyResponse

TopologyNext == ExchangeNext \/ \E s \in TopoStreams : SampleArrives(s)

TopologySpec == TopologyInit /\ [][TopologyNext]_topologyVars

-----------------------------------------------------------------------------
(* What is checked *)

\* The interface a VPN leaves by is never drawn as an inside one: a link's
\* interface has an outside role although interfaces and IKE gateways come from
\* two streams, collected at two times, either of which may fail.
EdgeIsOutside ==
  \A dev \in Firewalls("") : \A l \in Links(dev), i \in Interfaces(dev) :
    i.name = l.interface => i.role \notin {"lan", "unknown"}

\* The picture of all sites keeps the hub of each: a tenant that is drawn as the
\* hub of a site is the hub there too, whatever the firewalls of the other sites
\* have answered, and nothing is flat there that has an edge in its own picture.
OverviewKeepsHub ==
  \A site \in Pages :
    /\ Shape(site) = "sase_hub" => Shape("") = "sase_hub"
    /\ Shape(site) # "flat" => Shape("") # "flat"

\* A failed composition never replaces the picture of a site: what is filed for it
\* is a drawing of that site, whatever order answers arrive in.
SiteKeepsPicture ==
  \A p \in SiteOids : filed[p].drawn => ~filed[p].error /\ filed[p].site = p

\* The picture is right whatever has been collected, in whatever order the answers for the
\* sites arrive, and whatever topologyd lost; before the first sample there is nothing in it.
PictureSound == (arrivals > 0 => EdgeIsOutside /\ OverviewKeepsHub) /\ SiteKeepsPicture

\* A site that was asked for is drawn, although topologyd may die with the
\* request and a composition may throw.
SiteIsDrawn == \A p \in SiteOids : topoAsked[p] ~> filed[p].drawn

=============================================================================
