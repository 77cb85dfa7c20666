---------------------------- MODULE NetworkProofs ---------------------------
(***************************************************************************)
(* Proofs about what the console shows of the network: the site picture    *)
(* (Topology) and who is reachable (Probe), for any configuration, any     *)
(* documents of the devices and any bounds.                                *)
(***************************************************************************)
EXTENDS Topology, Probe, FiniteSetTheorems, FunctionTheorems, SequenceTheorems, TLAPS

-----------------------------------------------------------------------------
(* Finite sets                                                             *)

\* The image of a finite set under a function is finite.
LEMMA ImageFinite ==
  ASSUME NEW S, IsFiniteSet(S), NEW f, DOMAIN f = S
  PROVE  IsFiniteSet({f[x] : x \in S})
<1> DEFINE T == {f[x] : x \in S}
<1>1. PICK g : g = [x \in S |-> f[x]]
  OBVIOUS
<1>2. g \in [S -> T] /\ \A t \in T : \E x \in S : g[x] = t
  BY <1>1
<1>3. g \in Surjection(S, T)
  BY <1>2 DEF Surjection
<1> HIDE DEF T
<1>4. IsFiniteSet(T)
  BY <1>3, FS_Surjection
<1> QED BY <1>4 DEF T

\* A set has two members or more exactly when two of its members differ.
LEMMA TwoMembers ==
  ASSUME NEW S, IsFiniteSet(S)
  PROVE  /\ Cardinality(S) >= 2 <=> \E x, y \in S : x # y
         /\ Cardinality(S) = 1 => \E x : S = {x}
<1>1. Cardinality(S) \in Nat
  BY FS_CardinalityType
<1>2. Cardinality(S) = 0 <=> S = {}
  BY FS_EmptySet
<1>3. Cardinality(S) = 1 <=> \E x : S = {x}
  BY FS_Singleton
<1>4. (S = {} \/ \E x : S = {x}) <=> ~\E x, y \in S : x # y
  <2>1. ASSUME ~\E x, y \in S : x # y, S # {} PROVE \E x : S = {x}
    <3>1. PICK x : x \in S
      BY <2>1
    <3>2. S = {x}
      BY <2>1, <3>1
    <3> QED BY <3>2
  <2> QED BY <2>1
<1>5. Cardinality(S) >= 2 <=> ~(Cardinality(S) = 0 \/ Cardinality(S) = 1)
  BY <1>1
<1> QED BY <1>2, <1>3, <1>4, <1>5

\* The entries of a finite document are finitely many.
LEMMA EntriesFinite ==
  ASSUME NEW s, IsFiniteSet(DOMAIN s)
  PROVE  IsFiniteSet(Entries(s))
  BY ImageFinite DEF Entries

-----------------------------------------------------------------------------
(* The site picture                                                        *)

\* The interface a link leaves by is one where something terminates.
LEMMA LinkTerminates ==
  ASSUME NEW dev, NEW l \in Links(dev)
  PROVE  Terminates(dev, l.interface) /\ l.device = dev
<1>1. PICK g \in readIkeGateways(dev) :
        l = [device |-> dev, interface |-> g.interface, gateway |-> g.name,
             tunnels |-> TunnelsOf(dev, g.name), kind |-> g.peer.kind, tenant |-> g.peer.tenant]
  BY DEF Links
<1>2. l.interface = g.interface /\ l.device = dev
  BY <1>1
<1> QED BY <1>1, <1>2 DEF Terminates

\* Whatever the samples are, the interface of a link is drawn as an outside one.
LEMMA EdgesOutside == EdgeIsOutside
<1> SUFFICES ASSUME NEW dev \in Firewalls(""), NEW l \in Links(dev), NEW i \in Interfaces(dev),
                    i.name = l.interface
             PROVE  i.role \notin {"lan", "unknown"}
  BY DEF EdgeIsOutside
<1>1. Terminates(dev, l.interface)
  BY LinkTerminates
<1>2. ASSUME NEW e \in Entries(DocOf(dev, "interfaces")), i = [name |-> e.name, role |-> InterfaceRole(dev, e)]
      PROVE  i.role \notin {"lan", "unknown"}
  <2>1. i.role = InterfaceRole(dev, e) /\ e.name = l.interface
    BY <1>2
  <2>2. Terminates(dev, e.name)
    BY <1>1, <2>1
  <2>3. InterfaceRole(dev, e) \in {"loopback", "tunnel", "wan", "edge"}
    BY <2>2 DEF InterfaceRole
  <2> QED BY <2>1, <2>3
<1>3. ASSUME NEW e \in Entries(DocOf(dev, "tunnel_interfaces")), i = [name |-> e.name, role |-> "tunnel"]
      PROVE  i.role \notin {"lan", "unknown"}
  BY <1>3
<1> QED BY <1>2, <1>3 DEF Interfaces

\* What the devices may answer with.
AnyBody == (UNION {Bodies[s] : s \in TopoStreams}) \cup {Nothing}

\* Every stream's newest sample is a finite document.
SamplesFinite ==
  /\ latest \in [TopoStreams -> [at : Nat, ok : BOOLEAN, body : AnyBody]]
  /\ arrivals \in Nat

\* So a site has finitely many links.
LEMMA LinksFinite ==
  ASSUME SamplesFinite, NEW dev
  PROVE  IsFiniteSet(Links(dev))
<1>1. IsFiniteSet(DOMAIN Nothing)
  <2>1. DOMAIN Nothing = {}
    BY DEF Nothing
  <2> QED BY <2>1, FS_EmptySet
<1>2. ASSUME NEW s \in TopoStreams PROVE IsFiniteSet(DOMAIN parseBody(latest[s]))
  <2>1. parseBody(latest[s]) = Nothing \/ \E r \in TopoStreams : parseBody(latest[s]) \in Bodies[r]
    <3>1. PICK x : x = latest[s] /\ x \in [at : Nat, ok : BOOLEAN, body : AnyBody]
      BY DEF SamplesFinite
    <3>2. x.body \in AnyBody
      BY <3>1
    <3>3. parseBody(x) = Nothing \/ parseBody(x) = x.body
      BY DEF parseBody
    <3> QED BY <3>1, <3>2, <3>3 DEF AnyBody
  <2> QED BY <1>1, <2>1, TopologyAssumption DEF TopologyAssumption, TopoStreams
<1>3. IsFiniteSet(DOMAIN DocOf(dev, "ike"))
  <2> DEFINE ss == {s \in streamsForDevice(dev) : roleOf(s) = "ike" /\ HasSample(s)}
  <2>1. DocOf(dev, "ike") = IF ss = {} THEN Nothing ELSE parseBody(latest[CHOOSE s \in ss : TRUE])
    BY DEF DocOf
  <2>2. CASE ss = {}
    BY <1>1, <2>1, <2>2
  <2>3. CASE ss # {}
    <3>1. PICK c : c = CHOOSE s \in ss : TRUE
      OBVIOUS
    <3>2. c \in ss
      BY <2>3, <3>1
    <3>3. c \in TopoStreams
      BY <3>2 DEF HasSample
    <3> HIDE DEF ss
    <3> QED BY <1>2, <2>1, <2>3, <3>1, <3>3
  <2> QED BY <2>2, <2>3
<1> DEFINE ike == DocOf(dev, "ike")
           gw == [g \in Entries(ike) |-> [name |-> g.name, interface |-> g.interface, peer |-> classifyPeer(g.peer)]]
           placed == {g \in readIkeGateways(dev) : g.peer.kind # "unknown"}
           ln == [g \in placed |-> [device |-> dev, interface |-> g.interface, gateway |-> g.name,
                     tunnels |-> TunnelsOf(dev, g.name), kind |-> g.peer.kind, tenant |-> g.peer.tenant]]
<1>4. IsFiniteSet(Entries(ike))
  BY <1>3, EntriesFinite
<1>5. readIkeGateways(dev) = {gw[g] : g \in Entries(ike)}
  BY DEF readIkeGateways
<1>6. IsFiniteSet(readIkeGateways(dev))
  <2>1. DOMAIN gw = Entries(ike)
    OBVIOUS
  <2> HIDE DEF gw
  <2> QED BY <1>4, <1>5, <2>1, ImageFinite
<1>7. IsFiniteSet(placed)
  BY <1>6, FS_Subset
<1>8. Links(dev) = {ln[g] : g \in placed} /\ DOMAIN ln = placed
  BY DEF Links
<1> HIDE DEF ln, placed
<1> QED BY <1>7, <1>8, ImageFinite

\* So has a site, and its fabric.
LEMMA FabricFinite ==
  ASSUME SamplesFinite, NEW site
  PROVE  IsFiniteSet(FabricLinks(site))
<1> DEFINE fs == {d \in Entries(TopoDocument["ngfw_devices"]) : site = "" \/ d.site = site}
           oid == [d \in fs |-> d.oid]
           of == [dev \in Firewalls(site) |-> Links(dev)]
<1>1. IsFiniteSet(fs)
  BY TopologyAssumption, EntriesFinite, FS_Subset DEF TopologyAssumption
<1>2. Firewalls(site) = {oid[d] : d \in fs} /\ DOMAIN oid = fs
  BY DEF Firewalls
<1>3. IsFiniteSet(Firewalls(site))
  <2> HIDE DEF oid, fs
  <2> QED BY <1>1, <1>2, ImageFinite
<1>4. {Links(dev) : dev \in Firewalls(site)} = {of[dev] : dev \in Firewalls(site)} /\ DOMAIN of = Firewalls(site)
  OBVIOUS
<1>5. IsFiniteSet({Links(dev) : dev \in Firewalls(site)})
  <2> HIDE DEF of
  <2> QED BY <1>3, <1>4, ImageFinite
<1>6. \A s \in {Links(dev) : dev \in Firewalls(site)} : IsFiniteSet(s)
  BY LinksFinite
<1>7. IsFiniteSet(UNION {Links(dev) : dev \in Firewalls(site)})
  BY <1>5, <1>6, FS_UNION
<1> QED BY <1>7, FS_Subset DEF FabricLinks

\* The fabric is the hub of a site exactly when two of its firewalls reach one tenant.
LEMMA WideTenant ==
  ASSUME SamplesFinite, NEW site
  PROVE  Shape(site) = "sase_hub"
           <=> \E l1, l2 \in FabricLinks(site) : l1.tenant = l2.tenant /\ l1.device # l2.device
<1> DEFINE links == FabricLinks(site)
           perTenant(t) == {l.device : l \in {l \in links : l.tenant = t}}
           devices == {l.device : l \in links}
           wide == \E t \in {l.tenant : l \in links} : Cardinality(perTenant(t)) >= 2
           lone == /\ Cardinality(devices) = 1 /\ Cardinality(links) >= 2
                   /\ Cardinality(Firewalls(site)) > 1
<1>1. Shape(site) = IF wide THEN "sase_hub" ELSE IF lone THEN "ngfw_hub"
                    ELSE IF devices # {} THEN "edge" ELSE "flat"
  BY DEF Shape
<1>2. IsFiniteSet(links)
  BY FabricFinite
<1> HIDE DEF links
<1>3. ASSUME NEW L, IsFiniteSet(L) PROVE IsFiniteSet({l.device : l \in L})
  <2>1. PICK f : f = [l \in L |-> l.device]
    OBVIOUS
  <2>2. DOMAIN f = L
    BY <2>1
  <2>3. {l.device : l \in L} = {f[l] : l \in L}
    BY <2>1
  <2>4. IsFiniteSet({f[l] : l \in L})
    BY <1>3, <2>2, ImageFinite
  <2> QED BY <2>3, <2>4
<1>4. ASSUME NEW t PROVE IsFiniteSet(perTenant(t))
  <2>1. IsFiniteSet({l \in links : l.tenant = t})
    BY <1>2, FS_Subset
  <2> QED BY <1>3, <2>1
<1>5. wide <=> \E l1, l2 \in links : l1.tenant = l2.tenant /\ l1.device # l2.device
  <2>1. ASSUME NEW t PROVE Cardinality(perTenant(t)) >= 2 <=> \E x, y \in perTenant(t) : x # y
    <3> HIDE DEF perTenant
    <3> QED BY <1>4, TwoMembers
  <2>2. ASSUME wide PROVE \E l1, l2 \in links : l1.tenant = l2.tenant /\ l1.device # l2.device
    <3>1. PICK t : Cardinality(perTenant(t)) >= 2
      BY <2>2
    <3> HIDE DEF perTenant
    <3>2. PICK x \in perTenant(t), y \in perTenant(t) : x # y
      BY <2>1, <3>1
    <3> USE DEF perTenant
    <3>3. PICK l1 \in links, l2 \in links : l1.tenant = t /\ l2.tenant = t /\ x = l1.device /\ y = l2.device
      OBVIOUS
    <3> QED BY <3>2, <3>3
  <2>3. ASSUME NEW l1 \in links, NEW l2 \in links, l1.tenant = l2.tenant, l1.device # l2.device PROVE wide
    <3>1. l1.device \in perTenant(l1.tenant) /\ l2.device \in perTenant(l1.tenant)
      BY <2>3
    <3>2. Cardinality(perTenant(l1.tenant)) >= 2
      BY <2>1, <2>3, <3>1
    <3> QED BY <3>2
  <2> QED BY <2>2, <2>3
<1> HIDE DEF wide, lone
<1>6. Shape(site) = "sase_hub" <=> wide
  BY <1>1
<1> QED BY <1>5, <1>6 DEF links

\* The page of all sites draws the links of each.
LEMMA OverviewHasLinks ==
  ASSUME NEW site
  PROVE  FabricLinks(site) \subseteq FabricLinks("")
  BY DEF FabricLinks, Firewalls

\* So it keeps the hub of each.
LEMMA HubsKept ==
  ASSUME SamplesFinite
  PROVE  OverviewKeepsHub
<1>1. ASSUME NEW site \in Pages, Shape(site) = "sase_hub" PROVE Shape("") = "sase_hub"
  <2>1. PICK l1, l2 \in FabricLinks(site) : l1.tenant = l2.tenant /\ l1.device # l2.device
    BY <1>1, WideTenant
  <2>2. l1 \in FabricLinks("") /\ l2 \in FabricLinks("")
    BY OverviewHasLinks
  <2> QED BY <2>1, <2>2, WideTenant
<1>2. ASSUME NEW site \in Pages, Shape(site) # "flat" PROVE Shape("") # "flat"
  <2>1. \E l \in FabricLinks(site) : TRUE
    <3>1. CASE FabricLinks(site) = {}
      <4>1. {l.device : l \in FabricLinks(site)} = {} /\ {l.tenant : l \in FabricLinks(site)} = {}
        BY <3>1
      <4>2. Cardinality({l.device : l \in FabricLinks(site)}) = 0
        BY <4>1, FS_EmptySet
      <4> QED BY <1>2, <4>1, <4>2 DEF Shape
    <3> QED BY <3>1
  <2>2. PICK l : l \in FabricLinks("")
    BY <2>1, OverviewHasLinks
  <2>3. {k.device : k \in FabricLinks("")} # {}
    BY <2>2
  <2> QED BY <2>3 DEF Shape
<1> QED BY <1>1, <1>2 DEF OverviewKeepsHub

-----------------------------------------------------------------------------
(* The exchange                                                            *)

\* What topologyd may answer.
Answers == {Drawn(p) : p \in Pages} \cup {Failed}

\* The frames on their way ask for pages and carry answers.
FramesSound == topoRequests \in Seq(Pages) /\ replies \in Seq(Answers) /\ DOMAIN filed = Pages

\* What every reachable state of the exchange satisfies.
PictureInv == SamplesFinite /\ FramesSound /\ SiteKeepsPicture

\* An answer names a page, and one that names a site is a drawing of it: the error
\* object names none, and no site is called "".
LEMMA AnswerIsSound ==
  ASSUME NEW m \in Answers
  PROVE  m.site \in Pages /\ (m.site \in SiteOids => ~m.error)
<1>1. "" \notin SiteOids
  BY TopologyAssumption DEF TopologyAssumption, SiteOids
<1>2. CASE m = Failed
  <2>1. m.site = ""
    BY <1>2 DEF Failed
  <2> QED BY <1>1, <2>1 DEF Pages
<1>3. ASSUME NEW p \in Pages, m = Drawn(p) PROVE m.site \in Pages /\ ~m.error
  <2>1. m.site = p /\ m.error = FALSE
    BY <1>3 DEF Drawn
  <2> QED BY <2>1
<1> QED BY <1>2, <1>3 DEF Answers

\* An answer is filed under the page it names.
LEMMA FilingSound ==
  ASSUME FramesSound, SiteKeepsPicture, onTopologyResponse
  PROVE  FramesSound' /\ SiteKeepsPicture'
<1>1. PICK m : m = Head(replies)
  OBVIOUS
<1>2. replies # <<>> /\ replies' = Tail(replies) /\ topoRequests' = topoRequests
  BY DEF onTopologyResponse
<1>3. m \in Answers /\ replies' \in Seq(Answers)
  BY <1>1, <1>2 DEF FramesSound
<1>4. filed' = [filed EXCEPT ![m.site] = m]
  BY <1>1 DEF onTopologyResponse
<1>5. m.site \in Pages /\ (m.site \in SiteOids => ~m.error)
  BY <1>3, AnswerIsSound
<1>6. DOMAIN filed' = Pages
  BY <1>4 DEF FramesSound
<1>7. ASSUME NEW p \in SiteOids PROVE filed'[p].drawn => ~filed'[p].error /\ filed'[p].site = p
  <2>1. p \in Pages
    BY DEF Pages
  <2>2. CASE p = m.site
    BY <1>4, <1>5, <2>1, <2>2 DEF FramesSound
  <2>3. CASE p # m.site
    BY <1>4, <2>1, <2>3 DEF FramesSound, SiteKeepsPicture
  <2> QED BY <2>2, <2>3
<1> QED BY <1>2, <1>3, <1>6, <1>7 DEF FramesSound, SiteKeepsPicture

\* A sample that arrives is a document its device may answer with.
LEMMA ArrivalSound ==
  ASSUME SamplesFinite, NEW s \in TopoStreams, SampleArrives(s)
  PROVE  SamplesFinite'
<1>1. PICK body \in Bodies[s] \cup {Nothing}, ok \in BOOLEAN :
        latest' = [latest EXCEPT ![s] = [at |-> arrivals + 1, ok |-> ok, body |-> body]]
  BY DEF SampleArrives
<1>2. arrivals' = arrivals + 1 /\ arrivals + 1 \in Nat
  BY DEF SampleArrives, SamplesFinite
<1>3. body \in AnyBody
  BY DEF AnyBody
<1>4. [at |-> arrivals + 1, ok |-> ok, body |-> body] \in [at : Nat, ok : BOOLEAN, body : AnyBody]
  BY <1>2, <1>3
<1> QED BY <1>1, <1>2, <1>4 DEF SamplesFinite

\* Every step keeps the invariant.
LEMMA PictureStep ==
  ASSUME PictureInv, [TopologyNext]_topologyVars
  PROVE  PictureInv'
<1> USE DEF PictureInv
<1>1. ASSUME NEW p \in Pages, siteTopology(p) PROVE PictureInv'
  BY <1>1 DEF siteTopology, SamplesFinite, FramesSound, SiteKeepsPicture
<1>2. ASSUME NEW p \in Pages, AskExpires(p) PROVE PictureInv'
  BY <1>2 DEF AskExpires, SamplesFinite, FramesSound, SiteKeepsPicture
<1>3. ASSUME NEW p \in Pages, FreshExpires(p) PROVE PictureInv'
  BY <1>3 DEF FreshExpires, SamplesFinite, FramesSound, SiteKeepsPicture
<1>4. ASSUME Compose PROVE PictureInv'
  <2>1. topoRequests # <<>> /\ topoRequests' = Tail(topoRequests)
        /\ UNCHANGED <<latest, filed, arrivals>>
    BY <1>4 DEF Compose
  <2>2. Head(topoRequests) \in Pages /\ topoRequests' \in Seq(Pages)
    BY <2>1 DEF FramesSound
  <2>3. PICK m \in Answers : replies' = Append(replies, m)
    BY <1>4, <2>2 DEF Compose, FailedReply, Answers
  <2>4. replies' \in Seq(Answers)
    BY <2>3 DEF FramesSound
  <2> QED BY <2>1, <2>2, <2>4 DEF SamplesFinite, FramesSound, SiteKeepsPicture
<1>5. ASSUME TopologydRestart PROVE PictureInv'
  BY <1>5 DEF TopologydRestart, SamplesFinite, FramesSound, SiteKeepsPicture
<1>6. ASSUME onTopologyResponse PROVE PictureInv'
  <2>1. UNCHANGED <<latest, arrivals>>
    BY <1>6 DEF onTopologyResponse
  <2>2. SamplesFinite'
    BY <2>1 DEF SamplesFinite
  <2> QED BY <1>6, <2>2, FilingSound
<1>7. ASSUME NEW s \in TopoStreams, SampleArrives(s) PROVE PictureInv'
  <2>1. UNCHANGED <<filed, topoRequests, replies>>
    BY <1>7 DEF SampleArrives
  <2>2. FramesSound' /\ SiteKeepsPicture'
    BY <2>1 DEF FramesSound, SiteKeepsPicture
  <2> QED BY <1>7, <2>2, ArrivalSound
<1>8. ASSUME UNCHANGED topologyVars PROVE PictureInv'
  BY <1>8 DEF topologyVars, SamplesFinite, FramesSound, SiteKeepsPicture
<1> QED BY <1>1, <1>2, <1>3, <1>4, <1>5, <1>6, <1>7, <1>8 DEF TopologyNext, ExchangeNext

\* The picture of the network is right in every reachable state, for any
\* configuration, any documents and any number of samples, requests and
\* restarts: a VPN's interface is drawn outside, the overview keeps the hub of every
\* site, and a failed composition never replaces the picture of a site
\* (TopologyService::composeSite and onTopologyResponse).
THEOREM PictureSoundAlways == TopologySpec => []PictureSound
<1>1. TopologyInit => PictureInv
  <2> SUFFICES ASSUME TopologyInit PROVE PictureInv
    OBVIOUS
  <2>1. NoSample \in [at : Nat, ok : BOOLEAN, body : AnyBody]
    BY DEF NoSample, AnyBody
  <2>2. SamplesFinite
    BY <2>1 DEF TopologyInit, SamplesFinite
  <2>3. FramesSound
    BY DEF TopologyInit, FramesSound
  <2>4. SiteKeepsPicture
    BY DEF TopologyInit, SiteKeepsPicture, NoModel, Pages
  <2> QED BY <2>2, <2>3, <2>4 DEF PictureInv
<1>2. PictureInv /\ [TopologyNext]_topologyVars => PictureInv'
  BY PictureStep
<1>3. PictureInv => PictureSound
  BY EdgesOutside, HubsKept DEF PictureInv, PictureSound
<1> QED BY <1>1, <1>2, <1>3, PTL DEF TopologySpec

-----------------------------------------------------------------------------
(* Reachability                                                            *)

\* The addresses a sweep may ping, and what an echo of one looks like.
Addresses == UNION {{TargetsOf(doc)[k] : k \in 1 .. Len(TargetsOf(doc))} : doc \in Inventories}
Echo == [type : {"EchoReply"}, ip : Addresses, seq : Nat]

\* The other events of probed; each posts one action or ends the sweep.
Steering == {IcmpEvent(t, "", 0) : t \in {"StartProbe", "SendProbeBatch", "ProbeCompleted"}}

\* An action, with the addresses that had answered when it was posted.
Tasks == [type : {"StartProbe", "SendProbeBatch", "SendProbeResult"}, alive : SUBSET Addresses]

\* probed's sweep and the echoes on their way are well formed.
SweepTypes ==
  /\ prDoc \in Inventories
  /\ prState \in {"Idle", "Sending", "WaitingReplies"}
  /\ prPhase \in {"ipc", "icmp", "schedule", "execute"}
  /\ prTargets \in Seq(Addresses) /\ prNext \in 1 .. Len(prTargets) + 1
  /\ prAlive \in SUBSET Addresses
  /\ prEvents \in Seq(Echo \cup Steering)
  /\ prActions \in Seq(Tasks)
  /\ icmpTx \in Seq(Echo)
  /\ echoes \in SUBSET Echo /\ IsFiniteSet(echoes)
  /\ probeRequests \in Nat

\* The end of a sweep is the last event of its tick, and actions wait for the events.
EndsLast ==
  /\ prPhase # "execute" => prActions = <<>> /\ \A i \in 1 .. Len(prEvents) : prEvents[i].type # "ProbeCompleted"
  /\ \A i \in 1 .. Len(prEvents) : prEvents[i].type = "ProbeCompleted" => i = Len(prEvents)

\* A report that is due finds the targets as the sweep left them, or cleared: no
\* reply is taken between the end of the sweep and the report.
ReportReady ==
  \A i \in 1 .. Len(prActions) :
    prActions[i].type = "SendProbeResult" => prEvents = <<>> /\ (prActions[i].alive = prAlive \/ prAlive = {})

\* What every reachable state of probed satisfies, however requests and sweeps overlap.
Ready == SweepTypes /\ EndsLast /\ ReportReady /\ WholeSweepOrNone

\* A tenant is probed by one call at a time, and cycles are counted upwards.
TenantsInv ==
  /\ probeCount \in [requests : Nat, reloads : Nat, faults : Nat, cycles : Nat]
  /\ \A c \in saseCalls : c.n \in Nat /\ c.n <= probeCount.cycles
  /\ \A c, d \in saseCalls : c.target = d.target => c = d
  /\ \A t \in DOMAIN saseHeld : saseHeld[t].n \in Nat /\ saseHeld[t].n <= probeCount.cycles
  /\ NewestOutcomeHeld

\* An event steers or is an echo, and its type tells which.
LEMMA EventKinds ==
  /\ \A e \in Echo : e.type = "EchoReply" /\ e \notin Steering
  /\ \A e \in Steering : e.type \in {"StartProbe", "SendProbeBatch", "ProbeCompleted"}
  /\ \A t \in {"StartProbe", "SendProbeBatch", "ProbeCompleted"} :
       IcmpEvent(t, "", 0) \in Steering /\ IcmpEvent(t, "", 0).type = t
<1>1. \A e \in Echo : e.type = "EchoReply"
  BY DEF Echo
<1>2. \A e \in Steering : e.type \in {"StartProbe", "SendProbeBatch", "ProbeCompleted"}
  <2>1. ASSUME NEW e \in Steering PROVE e.type \in {"StartProbe", "SendProbeBatch", "ProbeCompleted"}
    <3>1. PICK t \in {"StartProbe", "SendProbeBatch", "ProbeCompleted"} : e = IcmpEvent(t, "", 0)
      BY DEF Steering
    <3>2. e.type = t
      BY <3>1 DEF IcmpEvent
    <3> QED BY <3>2
  <2> QED BY <2>1
<1>3. \A t \in {"StartProbe", "SendProbeBatch", "ProbeCompleted"} :
        IcmpEvent(t, "", 0) \in Steering /\ IcmpEvent(t, "", 0).type = t
  BY DEF Steering, IcmpEvent
<1> QED BY <1>1, <1>2, <1>3

\* A sweep's targets are a sequence of addresses.
LEMMA TargetsListed ==
  ASSUME NEW doc \in Inventories
  PROVE  TargetsOf(doc) \in Seq(Addresses)
<1> DEFINE ips == [i \in 1 .. Len(doc.ngfw) |-> doc.ngfw[i].target]
           kept == {i \in 1 .. Len(ips) : /\ ips[i] # "" /\ ips[i] \notin ExcludedIps
                                          /\ \A j \in 1 .. i - 1 : ips[j] # ips[i]}
<1>1. Len(doc.ngfw) \in Nat
  BY ProbeAssumption DEF ProbeAssumption
<1>2. Len(ips) \in Nat
  BY <1>1
<1>3. IsFiniteSet(kept)
  <2> HIDE DEF ips
  <2>1. IsFiniteSet(1 .. Len(ips))
    BY <1>2, FS_Interval
  <2> QED BY <2>1, FS_Subset
<1>4. Cardinality(kept) \in Nat
  BY <1>3, FS_CardinalityType
<1>5. PICK n \in Nat : n = Cardinality(kept)
  BY <1>4
<1>6. DOMAIN TargetsOf(doc) = 1 .. n /\ TargetsOf(doc) = [k \in 1 .. n |-> TargetsOf(doc)[k]]
  <2>1. TargetsOf(doc) = [k \in 1 .. Cardinality(kept) |->
                            ips[CHOOSE i \in kept : Cardinality({j \in kept : j < i}) = k - 1]]
    BY DEF TargetsOf
  <2> HIDE DEF kept, ips
  <2> QED BY <1>5, <2>1
<1> HIDE DEF kept, ips
<1>7. PICK f : f = TargetsOf(doc)
  OBVIOUS
<1>8. Len(f) = n
  BY <1>6, <1>7
<1>9. \A k \in 1 .. n : f[k] \in Addresses
  BY <1>7, <1>8 DEF Addresses
<1>10. f \in [1 .. n -> Addresses]
  BY <1>6, <1>7, <1>9
<1> QED BY <1>7, <1>10

\* The replies the poll takes become events, one each.
LEMMA TakenListed ==
  ASSUME NEW taken, IsFiniteSet(taken)
  PROVE  /\ Cardinality(taken) \in Nat
         /\ [i \in 1 .. Cardinality(taken) |-> SetToSeq(taken)[i]] \in Seq(taken)
<1>1. Cardinality(taken) \in Nat /\ ExistsBijection(1 .. Cardinality(taken), taken)
  BY FS_CardinalityType
<1>2. PICK n \in Nat : n = Cardinality(taken)
  BY <1>1
<1>3. PICK f : f \in Bijection(1 .. n, taken)
  BY <1>1, <1>2 DEF ExistsBijection
<1>4. f \in [1 .. n -> taken] /\ IsInjective(f)
  BY <1>3 DEF Bijection, Injection, Surjection, IsInjective
<1>5. PICK g : g = SetToSeq(taken)
  OBVIOUS
<1>6. g = CHOOSE h \in [1 .. n -> taken] : IsInjective(h)
  BY <1>2, <1>5 DEF SetToSeq
<1>7. g \in [1 .. n -> taken]
  BY <1>4, <1>6
<1>8. [i \in 1 .. n |-> g[i]] \in Seq(taken)
  BY <1>7
<1> QED BY <1>1, <1>2, <1>5, <1>8

\* Steps that leave probed, its socket and its reports alone keep the sweep ready.
LEMMA ReadyFrame ==
  ASSUME Ready, UNCHANGED <<probedVars, icmpVars, reported>>, probeRequests' \in Nat
  PROVE  Ready'
  BY DEF Ready, SweepTypes, EndsLast, ReportReady, WholeSweepOrNone, probedVars, icmpVars

\* engined asks, whatever the sweep is at.
LEMMA ReadyRequest ==
  ASSUME Ready, SendProbeRequest
  PROVE  Ready'
<1>1. UNCHANGED <<probedVars, icmpVars, reported>> /\ probeRequests' \in Nat
  BY DEF SendProbeRequest, Ready, SweepTypes
<1> QED BY <1>1, ReadyFrame

\* A reload leaves nothing of the sweep.
LEMMA ReadyReload ==
  ASSUME Ready, NEW document \in Inventories, PrReload(document)
  PROVE  Ready'
  BY DEF Ready, PrReload, SweepTypes, EndsLast, ReportReady, WholeSweepOrNone

\* The socket fails or is reopened.
LEMMA ReadySocket ==
  ASSUME Ready, IcmpFails \/ IcmpReopens
  PROVE  Ready'
<1>1. /\ prPhase = "icmp" /\ prPhase' = "schedule"
      /\ UNCHANGED <<prDoc, prState, prTargets, prNext, prAlive, prEvents, prActions, probeRequests, reported>>
  BY DEF IcmpFails, IcmpReopens, frameVars
<1>2. icmpTx' \in Seq(Echo) /\ echoes' \in SUBSET Echo /\ IsFiniteSet(echoes')
  <2>1. IsFiniteSet({})
    BY FS_EmptySet
  <2>2. CASE IcmpFails
    <3>1. icmpTx' = <<>> /\ echoes' = {}
      BY <2>2 DEF IcmpFails
    <3> QED BY <2>1, <3>1
  <2>3. CASE IcmpReopens
    <3>1. icmpTx' = icmpTx /\ echoes' = echoes
      BY <2>3 DEF IcmpReopens
    <3> QED BY <3>1 DEF Ready, SweepTypes
  <2> QED BY <2>2, <2>3
<1> QED BY <1>1, <1>2 DEF Ready, SweepTypes, EndsLast, ReportReady, WholeSweepOrNone

\* Events that are joined to the queue outside execute, none of which ends a sweep.
LEMMA EventsJoin ==
  ASSUME Ready, NEW es \in Seq(Echo \cup Steering), \A i \in 1 .. Len(es) : es[i].type # "ProbeCompleted",
         prEvents' = prEvents \o es, prPhase # "execute", prPhase' # "execute", prActions' = prActions
  PROVE  prEvents' \in Seq(Echo \cup Steering) /\ EndsLast' /\ ReportReady'
<1>1. PICK ev \in Seq(Echo \cup Steering) : ev = prEvents
  BY DEF Ready, SweepTypes
<1>2. Len(ev) \in Nat /\ Len(es) \in Nat /\ prEvents' = ev \o es
  BY <1>1
<1>3. prEvents' \in Seq(Echo \cup Steering) /\ Len(prEvents') = Len(ev) + Len(es)
  BY <1>2
<1>4. ASSUME NEW i \in 1 .. Len(prEvents') PROVE prEvents'[i].type # "ProbeCompleted"
  <2>1. CASE i <= Len(ev)
    <3>1. i \in 1 .. Len(ev) /\ prEvents'[i] = ev[i]
      BY <1>2, <1>3, <2>1
    <3> QED BY <1>1, <3>1 DEF Ready, EndsLast
  <2>2. CASE i > Len(ev)
    <3>1. i - Len(ev) \in 1 .. Len(es) /\ prEvents'[i] = es[i - Len(ev)]
      BY <1>2, <1>3, <2>2
    <3> QED BY <3>1
  <2> QED BY <1>2, <1>3, <2>1, <2>2
<1>5. prActions' = <<>>
  BY DEF Ready, EndsLast
<1>6. \A i \in 1 .. Len(prActions') : FALSE
  BY <1>5
<1> QED BY <1>3, <1>4, <1>5, <1>6 DEF EndsLast, ReportReady

\* Echoes are events, and none of them ends a sweep.
LEMMA EchoesAreEvents ==
  ASSUME NEW es \in Seq(Echo)
  PROVE  es \in Seq(Echo \cup Steering) /\ \A i \in 1 .. Len(es) : es[i].type # "ProbeCompleted"
<1>1. \A i \in 1 .. Len(es) : es[i] \in Echo
  OBVIOUS
<1>2. es \in Seq(Echo \cup Steering)
  OBVIOUS
<1> QED BY <1>1, <1>2, EventKinds

\* The IPC poll: every request becomes an event.
LEMMA ReadyPollIpc ==
  ASSUME Ready, PrPollIpc
  PROVE  Ready'
<1>1. PICK n \in 0 .. probeRequests :
        /\ probeRequests' = probeRequests - n
        /\ prEvents' = prEvents \o [i \in 1 .. n |-> IcmpEvent("StartProbe", "", 0)]
  BY DEF PrPollIpc
<1>2. PICK r \in Nat : r = probeRequests
  BY DEF Ready, SweepTypes
<1>3. n \in Nat /\ probeRequests' \in Nat
  <2>1. n \in 0 .. r /\ probeRequests' = r - n
    BY <1>1, <1>2
  <2> QED BY <2>1
<1>4. PICK e \in Steering : e = IcmpEvent("StartProbe", "", 0) /\ e.type = "StartProbe"
  BY EventKinds
<1>5. PICK es : es = [i \in 1 .. n |-> e]
  OBVIOUS
<1>6. es \in Seq(Echo \cup Steering) /\ \A i \in 1 .. Len(es) : es[i].type # "ProbeCompleted"
  <2>1. PICK x \in Echo \cup Steering : x = e
    OBVIOUS
  <2>2. es \in Seq(Echo \cup Steering) /\ \A i \in 1 .. Len(es) : es[i] = x
    BY <1>3, <1>5, <2>1
  <2> QED BY <1>4, <2>1, <2>2
<1>7. prEvents' = prEvents \o es
  BY <1>1, <1>4, <1>5
<1>8. /\ prPhase = "ipc" /\ prPhase' = "icmp"
      /\ UNCHANGED <<prDoc, prState, prTargets, prNext, prAlive, prActions, icmpOpen, icmpTx, echoes, reported>>
  BY DEF PrPollIpc, icmpVars
<1>9. prEvents' \in Seq(Echo \cup Steering) /\ EndsLast' /\ ReportReady'
  BY <1>6, <1>7, <1>8, EventsJoin
<1>10. SweepTypes' /\ WholeSweepOrNone'
  BY <1>3, <1>8, <1>9 DEF Ready, SweepTypes, WholeSweepOrNone
<1> QED BY <1>9, <1>10 DEF Ready

\* The ICMP poll: replies are queued as events, and the answered pings echo.
LEMMA ReadyPollIcmp ==
  ASSUME Ready, PrPollIcmp
  PROVE  Ready'
<1>1. PICK taken \in SUBSET echoes, answered \in SUBSET ToSet(icmpTx) :
        /\ prEvents' = prEvents \o [i \in 1 .. Cardinality(taken) |-> SetToSeq(taken)[i]]
        /\ echoes' = (echoes \ taken) \cup answered
  BY DEF PrPollIcmp
<1>2. /\ prPhase = "icmp" /\ prPhase' = "schedule" /\ icmpTx' = <<>>
      /\ UNCHANGED <<prDoc, prState, prTargets, prNext, prAlive, prActions, probeRequests, reported>>
  BY DEF PrPollIcmp, frameVars
<1>3. IsFiniteSet(taken) /\ taken \in SUBSET Echo
  BY FS_Subset DEF Ready, SweepTypes
<1>4. PICK es : es = [i \in 1 .. Cardinality(taken) |-> SetToSeq(taken)[i]] /\ es \in Seq(Echo)
  <2>1. PICK es : es = [i \in 1 .. Cardinality(taken) |-> SetToSeq(taken)[i]] /\ es \in Seq(taken)
    BY <1>3, TakenListed
  <2>2. es \in Seq(Echo)
    BY <1>3, <2>1
  <2> QED BY <2>1, <2>2
<1>5. es \in Seq(Echo \cup Steering) /\ \A i \in 1 .. Len(es) : es[i].type # "ProbeCompleted"
  BY <1>4, EchoesAreEvents
<1>6. prEvents' \in Seq(Echo \cup Steering) /\ EndsLast' /\ ReportReady'
  BY <1>1, <1>2, <1>4, <1>5, EventsJoin
<1>7. echoes' \in SUBSET Echo /\ IsFiniteSet(echoes')
  <2>1. ToSet(icmpTx) \in SUBSET Echo /\ IsFiniteSet(ToSet(icmpTx))
    <3>1. icmpTx \in Seq(Echo) /\ DOMAIN icmpTx = 1 .. Len(icmpTx) /\ Len(icmpTx) \in Nat
      BY DEF Ready, SweepTypes
    <3>2. IsFiniteSet(DOMAIN icmpTx)
      BY <3>1, FS_Interval
    <3>3. ToSet(icmpTx) = {icmpTx[i] : i \in DOMAIN icmpTx}
      BY DEF ToSet
    <3>4. IsFiniteSet({icmpTx[i] : i \in DOMAIN icmpTx})
      BY <3>2, ImageFinite
    <3> QED BY <3>1, <3>3, <3>4
  <2>2. IsFiniteSet(echoes \ taken) /\ IsFiniteSet(answered)
    BY <2>1, FS_Subset DEF Ready, SweepTypes
  <2>3. IsFiniteSet(echoes')
    BY <1>1, <2>2, FS_Union
  <2> QED BY <1>1, <2>1, <2>3 DEF Ready, SweepTypes
<1>8. SweepTypes' /\ WholeSweepOrNone'
  BY <1>2, <1>6, <1>7 DEF Ready, SweepTypes, WholeSweepOrNone
<1> QED BY <1>6, <1>8 DEF Ready

\* schedule: a batch or the end of the sweep is posted behind what the polls queued.
LEMMA ReadySchedule ==
  ASSUME Ready, NEW batchDue \in BOOLEAN, NEW expired \in BOOLEAN, PrSchedule(batchDue, expired)
  PROVE  Ready'
<1>1. /\ prPhase = "schedule" /\ prPhase' = "execute" /\ prActions = <<>>
      /\ UNCHANGED <<prDoc, prTargets, prNext, prAlive, prActions, icmpOpen, icmpTx, echoes,
                     probeRequests, reported>>
  BY DEF PrSchedule, Ready, EndsLast, icmpVars, frameVars
<1>2. PICK ev \in Seq(Echo \cup Steering) : ev = prEvents
  BY DEF Ready, SweepTypes
<1>3. prState' \in {"Idle", "Sending", "WaitingReplies"}
  BY DEF PrSchedule, Ready, SweepTypes
<1>4. \A i \in 1 .. Len(ev) : ev[i].type # "ProbeCompleted"
  BY <1>1, <1>2 DEF Ready, EndsLast
<1>5. prEvents' \in Seq(Echo \cup Steering)
      /\ \A i \in 1 .. Len(prEvents') : prEvents'[i].type = "ProbeCompleted" => i = Len(prEvents')
  <2>1. CASE prEvents' = ev
    BY <1>4, <2>1
  <2>2. ASSUME NEW t \in {"SendProbeBatch", "ProbeCompleted"}, prEvents' = ev \o <<IcmpEvent(t, "", 0)>>
        PROVE  prEvents' \in Seq(Echo \cup Steering)
               /\ \A i \in 1 .. Len(prEvents') : prEvents'[i].type = "ProbeCompleted" => i = Len(prEvents')
    <3>1. PICK x \in Echo \cup Steering : x = IcmpEvent(t, "", 0)
      BY EventKinds
    <3>2. prEvents' = ev \o <<x>>
      BY <2>2, <3>1, Zenon
    <3>3. Len(ev) \in Nat
      OBVIOUS
    <3>4. prEvents' \in Seq(Echo \cup Steering) /\ Len(prEvents') = Len(ev) + 1
          /\ \A i \in 1 .. Len(prEvents') : i # Len(prEvents') => i \in 1 .. Len(ev) /\ prEvents'[i] = ev[i]
      BY <3>2, <3>3
    <3> QED BY <1>4, <3>4
  <2>3. \/ prEvents' = ev \o <<>>
        \/ \E t \in {"SendProbeBatch", "ProbeCompleted"} : prEvents' = ev \o <<IcmpEvent(t, "", 0)>>
    BY <1>2 DEF PrSchedule
  <2>4. ev \o <<>> = ev
    OBVIOUS
  <2> QED BY <2>1, <2>2, <2>3, <2>4
<1>6. \A i \in 1 .. Len(prActions') : FALSE
  BY <1>1
<1>7. SweepTypes' /\ WholeSweepOrNone'
  BY <1>1, <1>3, <1>5 DEF Ready, SweepTypes, WholeSweepOrNone
<1> QED BY <1>1, <1>5, <1>6, <1>7 DEF Ready, EndsLast, ReportReady

\* What an event posts is an action.
LEMMA TaskKinds ==
  ASSUME NEW t \in {"StartProbe", "SendProbeBatch", "SendProbeResult"}, NEW alive \in SUBSET Addresses
  PROVE  LET x == IcmpAction(t, alive) IN x \in Tasks /\ x.type = t /\ x.alive = alive
  BY DEF IcmpAction, Tasks

\* An event: a reply is taken, or an action is posted.  No report is due yet.
LEMMA ReadyEvent ==
  ASSUME Ready, PrEvent
  PROVE  Ready'
<1>1. PICK ev \in Seq(Echo \cup Steering) : ev = prEvents
  BY DEF Ready, SweepTypes
<1>2. PICK ac \in Seq(Tasks) : ac = prActions
  BY DEF Ready, SweepTypes
<1>3. ev # <<>> /\ prEvents' = Tail(ev) /\ prPhase = "execute"
      /\ UNCHANGED <<prDoc, prTargets, prNext, prPhase, icmpOpen, icmpTx, echoes, probeRequests, reported>>
  BY <1>1 DEF PrEvent, icmpVars, frameVars
<1>4. /\ Head(ev) = ev[1] /\ Head(ev) \in Echo \cup Steering /\ 1 \in 1 .. Len(ev) /\ Len(ev) \in Nat
      /\ Tail(ev) \in Seq(Echo \cup Steering) /\ Len(Tail(ev)) = Len(ev) - 1
      /\ \A i \in 1 .. Len(Tail(ev)) : i + 1 \in 1 .. Len(ev) /\ Tail(ev)[i] = ev[i + 1]
  BY <1>3
<1>5. PICK e \in Echo \cup Steering : e = Head(ev)
  BY <1>4
<1>6. \A i \in 1 .. Len(ac) : ac[i].type # "SendProbeResult"
  BY <1>1, <1>2, <1>3 DEF Ready, ReportReady
<1>7. \A i \in 1 .. Len(prEvents') : prEvents'[i].type = "ProbeCompleted" => i = Len(prEvents')
  <2>1. ASSUME NEW i \in 1 .. Len(prEvents'), prEvents'[i].type = "ProbeCompleted" PROVE i = Len(prEvents')
    <3>1. i \in Nat /\ i + 1 \in 1 .. Len(ev) /\ ev[i + 1].type = "ProbeCompleted"
      BY <1>3, <1>4, <2>1
    <3>2. i + 1 = Len(ev)
      BY <1>1, <3>1 DEF Ready, EndsLast
    <3>3. Len(prEvents') = Len(ev) - 1
      BY <1>3, <1>4
    <3>4. i \in Nat /\ Len(ev) \in Nat
      BY <1>4, <3>1
    <3> QED BY <3>2, <3>3, <3>4
  <2> QED BY <2>1
<1>8. EndsLast'
  BY <1>3, <1>7 DEF EndsLast
<1>9. e.type = "ProbeCompleted" => prEvents' = <<>>
  <2>1. ASSUME e.type = "ProbeCompleted" PROVE 1 = Len(ev)
    BY <1>1, <1>4, <1>5, <2>1 DEF Ready, EndsLast
  <2> QED BY <1>3, <1>4, <2>1
<1>10. prAlive' \in SUBSET Addresses /\ (e.type = "ProbeCompleted" => prAlive' = prAlive)
  <2>1. prAlive' = IF e.type = "EchoReply" /\ TakesReply(e) THEN prAlive \cup {e.ip} ELSE prAlive
    BY <1>1, <1>5 DEF PrEvent
  <2>2. e.type = "EchoReply" => e.ip \in Addresses
    <3>1. e \in Echo => e.ip \in Addresses
      BY DEF Echo
    <3> QED BY <3>1, EventKinds
  <2> QED BY <2>1, <2>2 DEF Ready, SweepTypes
<1>11. prState' \in {"Idle", "Sending", "WaitingReplies"}
  BY DEF PrEvent, Ready, SweepTypes
<1>12. prActions' \in Seq(Tasks) /\ ReportReady'
  <2>1. CASE e.type = "EchoReply"
    <3>1. prActions' = ac \o <<>>
      BY <1>1, <1>2, <1>5, <2>1 DEF PrEvent
    <3>2. prActions' = ac
      BY <3>1
    <3> QED BY <1>6, <3>2 DEF ReportReady
  <2>2. ASSUME NEW x \in Tasks, prActions' = ac \o <<x>>,
               x.type = "SendProbeResult" => prEvents' = <<>> /\ x.alive = prAlive /\ prAlive' = prAlive
        PROVE  prActions' \in Seq(Tasks) /\ ReportReady'
    <3>1. Len(ac) \in Nat
      OBVIOUS
    <3>2. prActions' \in Seq(Tasks) /\ Len(prActions') = Len(ac) + 1 /\ prActions'[Len(ac) + 1] = x
          /\ \A i \in 1 .. Len(prActions') : i # Len(ac) + 1 => i \in 1 .. Len(ac) /\ prActions'[i] = ac[i]
      BY <2>2, <3>1
    <3>3. ASSUME NEW i \in 1 .. Len(prActions'), prActions'[i].type = "SendProbeResult"
          PROVE  prEvents' = <<>> /\ prActions'[i].alive = prAlive'
      <4>1. i = Len(ac) + 1
        BY <1>6, <3>2, <3>3
      <4> QED BY <2>2, <3>2, <3>3, <4>1
    <3> QED BY <3>2, <3>3 DEF ReportReady
  <2>3. CASE e.type = "ProbeCompleted"
    <3>0. prAlive \in SUBSET Addresses
      BY DEF Ready, SweepTypes
    <3>1. PICK x \in Tasks : x = IcmpAction("SendProbeResult", prAlive) /\ x.alive = prAlive
      BY <3>0, TaskKinds
    <3>2. prActions' = ac \o <<x>>
      BY <1>1, <1>2, <1>5, <2>3, <3>1 DEF PrEvent
    <3> QED BY <1>9, <1>10, <2>2, <2>3, <3>1, <3>2
  <2>4. CASE e.type \in {"StartProbe", "SendProbeBatch"}
    <3>0. {} \in SUBSET Addresses
      OBVIOUS
    <3>1. PICK x \in Tasks : x = IcmpAction(e.type, {}) /\ x.type = e.type
      BY <2>4, <3>0, TaskKinds
    <3>2. prActions' = ac \o <<x>>
      BY <1>1, <1>2, <1>5, <2>4, <3>1 DEF PrEvent
    <3>3. x.type # "SendProbeResult"
      BY <2>4, <3>1
    <3> QED BY <2>2, <3>2, <3>3
  <2> QED BY <2>1, <2>3, <2>4, EventKinds
<1>13. SweepTypes' /\ WholeSweepOrNone'
  BY <1>3, <1>4, <1>10, <1>11, <1>12 DEF Ready, SweepTypes, WholeSweepOrNone
<1> QED BY <1>8, <1>12, <1>13 DEF Ready

\* The actions that are left after one are those behind it, and those it posts.
LEMMA LaterActions ==
  ASSUME NEW ac \in Seq(Tasks), ac # <<>>
  PROVE  /\ Head(ac) \in Tasks /\ Head(ac) = ac[1] /\ 1 \in 1 .. Len(ac)
         /\ Tail(ac) \in Seq(Tasks) /\ Len(Tail(ac)) \in Nat
         /\ \A i \in 1 .. Len(Tail(ac)) : i + 1 \in 1 .. Len(ac) /\ Tail(ac)[i] = ac[i + 1]
  OBVIOUS

\* A sweep begins, with nobody heard; with nothing to ping the report is due.
LEMMA ReadyStart ==
  ASSUME Ready, PrAction, Head(prActions).type = "StartProbe"
  PROVE  Ready'
<1>1. PICK ac \in Seq(Tasks) : ac = prActions
  BY DEF Ready, SweepTypes
<1>2. /\ prPhase = "execute" /\ prEvents = <<>> /\ ac # <<>> /\ StartProbe
      /\ UNCHANGED <<prDoc, prPhase, prEvents, icmpOpen, icmpTx, echoes, probeRequests, reported>>
  BY <1>1 DEF PrAction
<1>3. EndsLast' /\ WholeSweepOrNone'
  BY <1>2 DEF Ready, EndsLast, WholeSweepOrNone
<1>4. CASE prState # "Idle"
  <2>1. prActions' = Tail(ac) /\ UNCHANGED <<prTargets, prAlive, prNext, prState>>
    BY <1>1, <1>2, <1>4 DEF StartProbe
  <2>2. SweepTypes'
    BY <1>2, <2>1, LaterActions DEF Ready, SweepTypes
  <2>3. ReportReady'
    BY <1>1, <1>2, <2>1, LaterActions DEF Ready, ReportReady
  <2> QED BY <1>3, <2>2, <2>3 DEF Ready
<1>5. CASE prState = "Idle"
  <2>1. PICK ts \in Seq(Addresses) : ts = TargetsOf(prDoc)
    BY TargetsListed DEF Ready, SweepTypes
  <2>2. PICK more : more = (IF ts = <<>> THEN <<IcmpAction("SendProbeResult", {})>> ELSE <<>>)
    OBVIOUS
  <2>3. /\ prTargets' = ts /\ prAlive' = {} /\ prNext' = 1 /\ prState' \in {"Sending", "Idle"}
        /\ prActions' = Tail(ac) \o more
    BY <1>1, <1>2, <1>5, <2>1, <2>2 DEF StartProbe, beginProbeSession
  <2>4. prActions' \in Seq(Tasks)
    <3>1. IcmpAction("SendProbeResult", {}) \in Tasks
      BY DEF IcmpAction, Tasks
    <3>2. more \in Seq(Tasks)
      BY <2>2, <3>1
    <3> QED BY <1>2, <2>3, <3>2, LaterActions
  <2>5. SweepTypes'
    <3>1. Len(ts) \in Nat
      OBVIOUS
    <3>2. prNext' \in 1 .. Len(prTargets') + 1
      BY <2>3, <3>1
    <3> QED BY <1>2, <2>3, <2>4, <3>2 DEF Ready, SweepTypes
  <2>6. ReportReady'
    BY <1>2, <2>3 DEF ReportReady
  <2> QED BY <1>3, <2>5, <2>6 DEF Ready
<1> QED BY <1>4, <1>5

\* A batch is queued as far as there is room.
LEMMA ReadyBatch ==
  ASSUME Ready, PrAction, Head(prActions).type = "SendProbeBatch"
  PROVE  Ready'
<1>1. PICK ac \in Seq(Tasks) : ac = prActions
  BY DEF Ready, SweepTypes
<1>2. /\ prPhase = "execute" /\ prEvents = <<>> /\ ac # <<>>
      /\ IF prState = "Sending" THEN sendProbeBatch ELSE UNCHANGED <<prNext, icmpTx>>
      /\ prActions' = Tail(ac)
      /\ UNCHANGED <<prDoc, prPhase, prEvents, prTargets, prAlive, prState, icmpOpen, echoes,
                     probeRequests, reported>>
  BY <1>1 DEF PrAction
<1>3. prNext' \in 1 .. Len(prTargets) + 1 /\ icmpTx' \in Seq(Echo)
  <2>1. CASE prState # "Sending"
    BY <1>2, <2>1 DEF Ready, SweepTypes
  <2>2. CASE prState = "Sending"
    <3>1. PICK ts \in Seq(Addresses), tx \in Seq(Echo) : ts = prTargets /\ tx = icmpTx
      BY DEF Ready, SweepTypes
    <3>2. PICK n \in 1 .. Len(ts) + 1 : n = prNext
      BY <3>1 DEF Ready, SweepTypes
    <3> DEFINE last == IF n + BatchSize - 1 < Len(ts) THEN n + BatchSize - 1 ELSE Len(ts)
               batch == [k \in 1 .. last - n + 1 |-> IcmpEvent("EchoReply", ts[n + k - 1], n + k - 1)]
               room == TxQueueLimit - Len(tx)
               fits == IF Len(batch) < room THEN Len(batch) ELSE room
    <3>3. prNext' = last + 1 /\ icmpTx' = IF icmpOpen THEN tx \o SubSeq(batch, 1, fits) ELSE tx
      BY <1>2, <2>2, <3>1, <3>2 DEF sendProbeBatch
    <3>4. Len(ts) \in Nat /\ Len(tx) \in Nat /\ BatchSize \in Nat \ {0} /\ TxQueueLimit \in Nat
      BY ProbeAssumption DEF ProbeAssumption
    <3>5. last \in Nat /\ last <= Len(ts) /\ last - n + 1 \in Nat /\ n \in Nat /\ n >= 1
      BY <3>4
    <3> HIDE DEF last
    <3>6. ASSUME NEW k \in 1 .. last - n + 1
          PROVE  IcmpEvent("EchoReply", ts[n + k - 1], n + k - 1) \in Echo
      <4>1. n + k - 1 \in 1 .. Len(ts)
        BY <3>4, <3>5
      <4>2. ts[n + k - 1] \in Addresses /\ n + k - 1 \in Nat
        BY <4>1
      <4> QED BY <4>2 DEF IcmpEvent, Echo
    <3>7. batch \in Seq(Echo) /\ Len(batch) \in Nat
      BY <3>5, <3>6
    <3> HIDE DEF batch
    <3>8. fits \in Int /\ fits <= Len(batch)
      BY <3>4, <3>7
    <3> HIDE DEF fits
    <3>9. SubSeq(batch, 1, fits) \in Seq(Echo)
      BY <3>7, <3>8
    <3>10. icmpTx' \in Seq(Echo)
      BY <3>3, <3>9
    <3> QED BY <3>1, <3>3, <3>4, <3>5, <3>10
  <2> QED BY <2>1, <2>2
<1>4. SweepTypes'
  BY <1>2, <1>3, LaterActions DEF Ready, SweepTypes
<1>5. ReportReady'
  BY <1>1, <1>2, LaterActions DEF Ready, ReportReady
<1>6. EndsLast' /\ WholeSweepOrNone'
  BY <1>2 DEF Ready, EndsLast, WholeSweepOrNone
<1> QED BY <1>4, <1>5, <1>6 DEF Ready

\* The report carries what the sweep heard, or nothing.
LEMMA ReadyReport ==
  ASSUME Ready, PrAction, Head(prActions).type = "SendProbeResult"
  PROVE  Ready'
<1>1. PICK ac \in Seq(Tasks) : ac = prActions
  BY DEF Ready, SweepTypes
<1>2. /\ prPhase = "execute" /\ prEvents = <<>> /\ ac # <<>>
      /\ reported' = reported \cup {[ips |-> prAlive, alive |-> Head(ac).alive]}
      /\ prActions' = Tail(ac)
      /\ UNCHANGED <<prDoc, prPhase, prEvents, prTargets, prAlive, prNext, prState, icmpOpen, icmpTx,
                     echoes, probeRequests>>
  BY <1>1 DEF PrAction
<1>3. Head(ac).alive = prAlive \/ prAlive = {}
  BY <1>1, <1>2, LaterActions DEF Ready, ReportReady
<1>4. WholeSweepOrNone'
  BY <1>2, <1>3 DEF Ready, WholeSweepOrNone
<1>5. SweepTypes'
  BY <1>2, LaterActions DEF Ready, SweepTypes
<1>6. ReportReady'
  BY <1>1, <1>2, LaterActions DEF Ready, ReportReady
<1>7. EndsLast'
  BY <1>2 DEF Ready, EndsLast
<1> QED BY <1>4, <1>5, <1>6, <1>7 DEF Ready

\* The tick ends with nothing queued.
LEMMA ReadyIdle ==
  ASSUME Ready, PrIdle
  PROVE  Ready'
<1>1. /\ prEvents = <<>> /\ prActions = <<>> /\ prPhase' = "ipc"
      /\ UNCHANGED <<prDoc, prState, prTargets, prNext, prAlive, prEvents, prActions, icmpOpen, icmpTx, echoes,
                     probeRequests, reported>>
  BY DEF PrIdle, icmpVars, frameVars
<1>2. \A i \in 1 .. Len(prEvents') : FALSE
  BY <1>1
<1>3. EndsLast' /\ ReportReady'
  BY <1>1, <1>2 DEF EndsLast, Ready, ReportReady
<1> QED BY <1>1, <1>3 DEF Ready, SweepTypes, WholeSweepOrNone

\* Every step of probed, engined and collectord.
LEMMA ReadyStep ==
  ASSUME Ready, [ProbeNext]_probeVars
  PROVE  Ready'
<1>1. ASSUME PrAction PROVE Ready'
  <2>1. PICK ac \in Seq(Tasks) : ac = prActions /\ ac # <<>>
    BY <1>1 DEF Ready, SweepTypes, PrAction
  <2>2. Head(prActions).type \in {"StartProbe", "SendProbeBatch", "SendProbeResult"}
    BY <2>1, LaterActions DEF Tasks
  <2> QED BY <1>1, <2>2, ReadyStart, ReadyBatch, ReadyReport
<1>2. ASSUME PrTick PROVE Ready'
  BY <1>1, <1>2, ReadyEvent, ReadyPollIpc, ReadyPollIcmp, ReadySocket, ReadySchedule, ReadyIdle DEF PrTick
<1>3. ASSUME ProbeTimeout \/ OnProbeResult \/ SaseNext \/ UNCHANGED probeVars \/ \E document \in Inventories : EnReload(document)
      PROVE  Ready'
  <2>1. UNCHANGED <<probedVars, icmpVars, probeRequests, reported>>
    BY <1>3 DEF ProbeTimeout, OnProbeResult, SaseNext, SaseTick, OnSaseHealthResult, SaseDone, EnReload,
                frameVars, probeVars
  <2> QED BY <2>1, ReadyFrame DEF Ready, SweepTypes
<1> QED BY <1>2, <1>3, ReadySocket, ReadyRequest, ReadyReload DEF ProbeNext, SweepNext

\* Only a report of probed touches the rows of the firewalls, and it touches them all.
LEMMA StatusStep ==
  ASSUME StatusMatchesReport, [ProbeNext]_probeVars
  PROVE  StatusMatchesReport'
<1>1. ASSUME OnProbeResult PROVE StatusMatchesReport'
  <2>1. PICK rows : rows = projectInventory(ngfwRows, enDoc.ngfw)
    OBVIOUS
  <2>2. PICK ips : ips = Head(probeResults)
    OBVIOUS
  <2>3. lastReport' = ips /\ ngfwRows' = Reflect(rows, ips)
    BY <1>1, <2>1, <2>2 DEF OnProbeResult, ApplyReport
  <2>4. rows = [oid \in DOMAIN rows |-> [target |-> rows[oid].target, status |-> rows[oid].status]]
    BY <2>1 DEF projectInventory
  <2>5. ASSUME NEW oid \in DOMAIN rows
        PROVE  Reflect(rows, ips)[oid].status
                 = IF Reflect(rows, ips)[oid].target \in ips THEN "active" ELSE "down"
    <3>1. PICK tgt, st : rows[oid] = [target |-> tgt, status |-> st]
      BY <2>4, <2>5
    <3>2. Reflect(rows, ips)[oid] = [target |-> tgt, status |-> IF tgt \in ips THEN "active" ELSE "down"]
      BY <2>5, <3>1 DEF Reflect
    <3> QED BY <3>2
  <2>6. DOMAIN Reflect(rows, ips) = DOMAIN rows
    BY DEF Reflect
  <2> QED BY <2>3, <2>5, <2>6 DEF StatusMatchesReport
<1>2. ASSUME UNCHANGED <<ngfwRows, lastReport>> PROVE StatusMatchesReport'
  BY <1>2 DEF StatusMatchesReport
<1>3. OnProbeResult \/ UNCHANGED <<ngfwRows, lastReport>>
  BY DEF ProbeNext, SweepNext, PrTick, PrPollIpc, PrPollIcmp, IcmpReopens, PrSchedule, PrEvent, PrAction, PrIdle,
         IcmpFails, SendProbeRequest, ProbeTimeout, PrReload, EnReload, SaseNext, SaseTick, OnSaseHealthResult,
         SaseDone, enVars, probeVars
<1> QED BY <1>1, <1>2, <1>3

\* The steps that leave the tenants' calls alone only count upwards.
LEMMA TenantsFrame ==
  ASSUME TenantsInv, UNCHANGED <<saseHeld, saseCalls>>,
         probeCount' \in [requests : Nat, reloads : Nat, faults : Nat, cycles : Nat],
         probeCount'.cycles = probeCount.cycles
  PROVE  TenantsInv'
  BY DEF TenantsInv, NewestOutcomeHeld

\* A counter counts.
LEMMA CountedUp ==
  ASSUME probeCount \in [requests : Nat, reloads : Nat, faults : Nat, cycles : Nat],
         NEW what \in {"requests", "reloads", "faults", "cycles"}, NEW bound, ProbeCounted(what, bound)
  PROVE  /\ probeCount' \in [requests : Nat, reloads : Nat, faults : Nat, cycles : Nat]
         /\ probeCount'.cycles = IF what = "cycles" THEN probeCount.cycles + 1 ELSE probeCount.cycles
  BY DEF ProbeCounted

\* A tenant is probed again only when its last probe is over, in a later cycle.
LEMMA TenantsTick ==
  ASSUME TenantsInv, SaseTick
  PROVE  TenantsInv'
<1> DEFINE n == probeCount.cycles + 1
           due == {x \in {enDoc.sase[i].target : i \in 1 .. Len(enDoc.sase)} : MayProbe(x)}
<1>1. saseCalls' = saseCalls \cup {[target |-> t, n |-> n] : t \in due} /\ saseHeld' = saseHeld
  BY DEF SaseTick
<1>2. probeCount' \in [requests : Nat, reloads : Nat, faults : Nat, cycles : Nat] /\ probeCount'.cycles = n
  BY CountedUp DEF SaseTick, TenantsInv
<1>3. \A t \in due : ~\E c \in saseCalls : c.target = t
  BY DEF MayProbe
<1>4. probeCount.cycles \in Nat /\ n \in Nat /\ n > probeCount.cycles
  BY DEF TenantsInv
<1> HIDE DEF n, due
<1>5. \A c \in saseCalls' : c \in saseCalls \/ \E t \in due : c.target = t /\ c.n = n /\ c = [target |-> t, n |-> n]
  BY <1>1
<1>6. \A c \in saseCalls' : c.n \in Nat /\ c.n <= probeCount'.cycles
  <2>1. ASSUME NEW c \in saseCalls PROVE c.n \in Nat /\ c.n <= probeCount'.cycles
    <3>1. c.n \in Nat /\ c.n <= probeCount.cycles
      BY DEF TenantsInv
    <3> QED BY <1>2, <1>4, <3>1
  <2> QED BY <1>2, <1>4, <1>5, <2>1
<1>7. \A c, d \in saseCalls' : c.target = d.target => c = d
  BY <1>3, <1>5 DEF TenantsInv
<1>8. \A t \in DOMAIN saseHeld' : saseHeld'[t].n \in Nat /\ saseHeld'[t].n <= probeCount'.cycles
  <2>1. ASSUME NEW t \in DOMAIN saseHeld PROVE saseHeld[t].n \in Nat /\ saseHeld[t].n <= probeCount'.cycles
    <3>1. saseHeld[t].n \in Nat /\ saseHeld[t].n <= probeCount.cycles
      BY DEF TenantsInv
    <3> QED BY <1>2, <1>4, <3>1
  <2> QED BY <1>1, <2>1
<1>9. NewestOutcomeHeld'
  <2>1. ASSUME NEW c \in saseCalls', c.target \in DOMAIN saseHeld PROVE saseHeld[c.target].n < c.n
    <3>1. CASE c \in saseCalls
      BY <2>1, <3>1 DEF TenantsInv, NewestOutcomeHeld
    <3>2. CASE c.n = n
      <4>1. saseHeld[c.target].n \in Nat /\ saseHeld[c.target].n <= probeCount.cycles
        BY <2>1 DEF TenantsInv
      <4> QED BY <1>4, <3>2, <4>1
    <3> QED BY <1>5, <3>1, <3>2
  <2> QED BY <1>1, <2>1 DEF NewestOutcomeHeld
<1> QED BY <1>2, <1>6, <1>7, <1>8, <1>9 DEF TenantsInv

\* The answer that comes is of the tenant's only call.
LEMMA TenantsDone ==
  ASSUME TenantsInv, NEW c \in saseCalls, NEW ok \in BOOLEAN, SaseDone(c, ok)
  PROVE  TenantsInv'
<1>1. /\ saseCalls' = saseCalls \ {c} /\ saseHeld' = HeldWith(c.target, [ok |-> ok, n |-> c.n])
      /\ probeCount' = probeCount
  BY DEF SaseDone
<1>2. c.n \in Nat /\ c.n <= probeCount.cycles
  BY DEF TenantsInv
<1>3. DOMAIN saseHeld' = DOMAIN saseHeld \cup {c.target}
  BY <1>1 DEF HeldWith
<1>4. saseHeld'[c.target].n = c.n
  BY <1>1 DEF HeldWith
<1>5. \A t \in DOMAIN saseHeld' : t # c.target => t \in DOMAIN saseHeld /\ saseHeld'[t] = saseHeld[t]
  BY <1>1, <1>3 DEF HeldWith
<1>6. \A t \in DOMAIN saseHeld' : saseHeld'[t].n \in Nat /\ saseHeld'[t].n <= probeCount'.cycles
  BY <1>1, <1>2, <1>4, <1>5 DEF TenantsInv
<1>7. \A d \in saseCalls' : d.target # c.target
  BY <1>1 DEF TenantsInv
<1>8. NewestOutcomeHeld'
  BY <1>1, <1>5, <1>7 DEF NewestOutcomeHeld, TenantsInv
<1> QED BY <1>1, <1>6, <1>8 DEF TenantsInv

\* So an answer that comes late finds no later outcome.
LEMMA TenantsStep ==
  ASSUME TenantsInv, [ProbeNext]_probeVars
  PROVE  TenantsInv'
<1>1. ASSUME SaseTick PROVE TenantsInv'
  BY <1>1, TenantsTick
<1>2. ASSUME NEW c \in saseCalls, NEW ok \in BOOLEAN, SaseDone(c, ok) PROVE TenantsInv'
  BY <1>2, TenantsDone
<1>3. ASSUME UNCHANGED <<saseHeld, saseCalls, probeCount>> PROVE TenantsInv'
  BY <1>3, TenantsFrame DEF TenantsInv
<1>4. ASSUME NEW what \in {"requests", "reloads", "faults"}, NEW bound, ProbeCounted(what, bound),
             UNCHANGED <<saseHeld, saseCalls>>
      PROVE  TenantsInv'
  <2>1. probeCount \in [requests : Nat, reloads : Nat, faults : Nat, cycles : Nat]
    BY DEF TenantsInv
  <2>2. probeCount' \in [requests : Nat, reloads : Nat, faults : Nat, cycles : Nat] /\ probeCount'.cycles = probeCount.cycles
    BY <1>4, <2>1, CountedUp
  <2> QED BY <1>4, <2>2, TenantsFrame
<1>5. ASSUME PrTick \/ ProbeTimeout \/ OnProbeResult \/ OnSaseHealthResult \/ UNCHANGED probeVars
      PROVE  UNCHANGED <<saseHeld, saseCalls, probeCount>>
  BY <1>5 DEF PrTick, PrPollIpc, PrPollIcmp, IcmpReopens, PrSchedule, PrEvent, PrAction, PrIdle, ProbeTimeout,
              OnProbeResult, OnSaseHealthResult, saseVars, probeVars
<1>6. ASSUME IcmpFails PROVE TenantsInv'
  BY <1>4, <1>6 DEF IcmpFails, saseVars
<1>7. ASSUME SendProbeRequest PROVE TenantsInv'
  BY <1>4, <1>7 DEF SendProbeRequest, saseVars
<1>8. ASSUME NEW doc \in Inventories, PrReload(doc) \/ EnReload(doc) PROVE TenantsInv'
  BY <1>4, <1>8 DEF PrReload, EnReload, saseVars
<1> QED BY <1>1, <1>2, <1>3, <1>5, <1>6, <1>7, <1>8 DEF ProbeNext, SweepNext, SaseNext

\* What the console shows as reachable is right in every reachable state, for any
\* inventories, batch sizes and queue limits, through socket failures, reloads,
\* timeouts, late answers and requests that reach probed during a sweep: a report
\* lists all who answered in the sweep it ends or, when a request restarted the
\* sweep in that tick, nobody (IcmpService.cpp); a row is active or down by the
\* report applied last (ProbeService::onProbeResult); and a late answer of a tenant
\* never replaces a later one (StatusController.cpp).
THEOREM StatusSoundAlways == ProbeSpec => []StatusSound
<1>1. ProbeInit => Ready /\ StatusMatchesReport /\ TenantsInv
  <2> SUFFICES ASSUME ProbeInit PROVE Ready /\ StatusMatchesReport /\ TenantsInv
    OBVIOUS
  <2>1. prEvents = <<>> /\ prActions = <<>> /\ reported = {} /\ DOMAIN ngfwRows = {} /\ DOMAIN saseHeld = {}
    BY DEF ProbeInit
  <2>2. SweepTypes
    BY FS_EmptySet DEF ProbeInit, SweepTypes
  <2>3. EndsLast /\ ReportReady /\ WholeSweepOrNone
    BY <2>1 DEF EndsLast, ReportReady, WholeSweepOrNone
  <2>4. StatusMatchesReport
    BY <2>1, Zenon DEF StatusMatchesReport
  <2>5. TenantsInv
    BY <2>1 DEF ProbeInit, TenantsInv, NewestOutcomeHeld
  <2> QED BY <2>2, <2>3, <2>4, <2>5 DEF Ready
<1>2. Ready /\ StatusMatchesReport /\ TenantsInv /\ [ProbeNext]_probeVars
        => (Ready /\ StatusMatchesReport /\ TenantsInv)'
  BY ReadyStep, StatusStep, TenantsStep
<1>3. Ready /\ StatusMatchesReport /\ TenantsInv => StatusSound
  BY DEF Ready, TenantsInv, StatusSound
<1> QED BY <1>1, <1>2, <1>3, PTL DEF ProbeSpec

=============================================================================
