--------------------------- MODULE ConnectorConfig ---------------------------
(***************************************************************************)
(* What one committed configuration has to look like.  mgmtd accepts an    *)
(* entry by the validators of SettingsController.cpp and ApiRefs.cpp;      *)
(* collectord reads the same entries again with the loaders of             *)
(* ApiService.cpp and looks up the device of a connector with              *)
(* ConnectorController.cpp.  The two are written independently, in two     *)
(* processes, and have to agree.                                           *)
(*                                                                         *)
(* A document maps each array of the configuration to a sequence of        *)
(* entries.  An absent JSON member reads as its default ("" for a string,  *)
(* 60 for a poll interval), and a flag stands for a member whose mere      *)
(* presence matters: secret for a password, key or token, oldShape and     *)
(* oldInterval for the members of a single-endpoint connector.             *)
(***************************************************************************)
EXTENDS Integers, Sequences

\* The arrays of pretzel.site, pretzel.connector, pretzel.user and pretzel-ai.
ArraysOf == [site      |-> {"sites", "ngfw_devices", "sase_devices"},
             connector |-> {"api_credentials", "endpoints", "connectors"},
             user      |-> {"users"},
             providers |-> {"vendors"},
             guardrail |-> {"services"},
             probe     |-> {}]

Domains == DOMAIN ArraysOf

Arrays == UNION {ArraysOf[d] : d \in Domains}

EmptyDocument == [a \in Arrays |-> <<>>]

Entries(s) == {s[i] : i \in DOMAIN s}

\* No two entries of s have the same value of field f.
Distinct(s, f) == \A i, j \in DOMAIN s : s[i][f] = s[j][f] => i = j

-----------------------------------------------------------------------------
(* mgmtd: the shape of one entry *)

Rooted == {"/api", "/restapi"}      \* the paths that start with a slash

validDevice(d) == d.oid # "" /\ d.target # ""

validSite(s) == s.oid # "" /\ s.name # ""

validApiKey(k) == k.oid # "" /\ k.name # "" /\ k.device # "" /\ ~k.secret

\* The one sub-choice under the device type, defaulted for a SASE endpoint.
Subtype(e) == IF e.deviceType = "sase" /\ e.subtype = "" THEN "ztna" ELSE e.subtype

validApiEndpoint(e) ==
  /\ e.oid # "" /\ e.name # ""
  /\ e.path \in Rooted
  /\ e.pairsNamed
  /\ \/ e.deviceType = "sase" /\ Subtype(e) = "ztna" /\ e.host = "host" /\ ~e.authorization
     \/ e.deviceType = "ngfw" /\ Subtype(e) \in {"", "xml", "rest"}

validApiConnector(c) ==
  /\ c.oid # "" /\ c.object # "" /\ c.authProfile # ""
  /\ ~c.oldShape /\ ~c.oldInterval
  /\ \A item \in Entries(c.items) :
       item.endpoint # "" /\ item.interval >= 1

rejectSecrets(v) == ~v.secret

knownAiProvider(id) == id \in {"openai", "google", "anthropic"}

validateAiProviders(vendors) ==
  /\ \A p \in Entries(vendors) :
       /\ knownAiProvider(p.id)
       /\ \A m \in Entries(p.models) : m.id # "" /\ ~m.qualified
       /\ Distinct(p.models, "id")
       /\ rejectSecrets(p)
  /\ Distinct(vendors, "id")

inList(v, list) == v \in list

\* checkpoints, the two guardrail blocks and the shape block are one flag: well
\* typed, with positive timeouts and a non-negative token cap.
validateServiceEntry(e) ==
  /\ rejectSecrets(e)
  /\ inList(e.service, {"chat", "agent"})
  /\ inList(e.guardrail, {"none", "api_application", "ai_gateway"})
  /\ e.blocksTyped

validateAiServices(services) ==
  /\ \A e \in Entries(services) : validateServiceEntry(e)
  /\ Distinct(services, "service")

\* username is the folded login handle: two that differ in case are one value.
validUserEntry(u) ==
  /\ rejectSecrets(u)
  /\ u.oid # ""
  /\ u.role \in {"admin", "user"}
  /\ u.username # "" /\ ~u.badChars

validateUsers(users) ==
  /\ users # <<>>
  /\ \E u \in Entries(users) : u.role = "admin"
  /\ \A u \in Entries(users) : validUserEntry(u)
  /\ Distinct(users, "oid") /\ Distinct(users, "username")

\* The checks of one array, whichever domain's change carries it.
validArray(a, entries) ==
  CASE a = "sites"           -> \A s \in Entries(entries) : validSite(s)
    [] a \in {"ngfw_devices", "sase_devices"}
                             -> \A d \in Entries(entries) : validDevice(d)
    [] a = "api_credentials" -> \A k \in Entries(entries) : validApiKey(k)
    [] a = "endpoints"       -> \A e \in Entries(entries) : validApiEndpoint(e)
    [] a = "connectors"      -> \A c \in Entries(entries) : validApiConnector(c)
    [] a = "users"           -> validateUsers(entries)
    [] a = "vendors"         -> validateAiProviders(entries)
    [] a = "services"        -> validateAiServices(entries)

\* Shape only: values maps the arrays one change carries to their new content.
validateCommitShape(domain, values) ==
  \A a \in DOMAIN values \cap ArraysOf[domain] : validArray(a, values[a])

-----------------------------------------------------------------------------
(* mgmtd: references between the arrays of pretzel.connector *)

containsOid(s, oid) == \E e \in Entries(s) : e.oid = oid

checkApiReferences(doc) ==
  \A c \in Entries(doc["connectors"]) :
    /\ \A item \in Entries(c.items) :
         item.endpoint # "" => containsOid(doc["endpoints"], item.endpoint)
    /\ c.authProfile # "" => containsOid(doc["api_credentials"], c.authProfile)

Overlay(doc, values) ==
  [a \in Arrays |-> IF a \in DOMAIN values THEN values[a] ELSE doc[a]]

\* The effective view after the commit: what is stored, overlaid with what arrives.
validateApiReferences(doc, values) == checkApiReferences(Overlay(doc, values))

validateCommitRefs(domain, doc, values) ==
  domain = "connector" => validateApiReferences(doc, values)

-----------------------------------------------------------------------------
(* collectord: the loaders.  A profile or an endpoint is looked up by its  *)
(* oid, so what is loaded of them is a set; connectors and their items are *)
(* lists that are walked, so each keeps the place it has in the document.  *)

loadProfiles(doc) == {p \in Entries(doc["api_credentials"]) : p.oid # ""}

loadEndpoints(doc) ==
  {e \in Entries(doc["endpoints"]) :
     /\ e.deviceType = "sase" => Subtype(e) = "ztna" /\ e.host # ""
     /\ e.oid # ""
     /\ e.path \in Rooted}

\* What collectord keeps of one connector: the items that name an endpoint, at
\* an interval of at least a second.
LoadedItems(c) ==
  {[at |-> k, endpoint |-> c.items[k].endpoint, enabled |-> c.items[k].enabled,
    interval |-> IF c.items[k].interval < 1 THEN 60 ELSE c.items[k].interval]
     : k \in {i \in DOMAIN c.items : c.items[i].endpoint # ""}}

\* A connector of the old shape, or one that lacks a name, is skipped.
LoadsConnector(c) ==
  /\ ~c.oldShape
  /\ c.oid # "" /\ c.object # "" /\ c.authProfile # ""

loadConnectors(doc) ==
  LET cs == doc["connectors"]
  IN  {[at |-> i, oid |-> cs[i].oid, object |-> cs[i].object,
        authProfile |-> cs[i].authProfile, items |-> LoadedItems(cs[i])]
         : i \in {k \in DOMAIN cs : LoadsConnector(cs[k])}}

findProfile(doc, oid) == \E p \in loadProfiles(doc) : p.oid = oid

findEndpoint(doc, oid) == \E e \in loadEndpoints(doc) : e.oid = oid

\* The device a connector names: either array, by oid, if it has a target.
resolveDevice(doc, oid) ==
  \E d \in Entries(doc["ngfw_devices"]) \cup Entries(doc["sase_devices"]) :
    d.oid = oid /\ d.target # ""

\* The polls ConnectorController::start arms: one for each enabled item of the lists, also
\* for a second item that names the same endpoint.
Jobs(doc) ==
  UNION {{[at |-> <<c.at, item.at>>, connector |-> c.oid, object |-> c.object,
           profile |-> c.authProfile, endpoint |-> item.endpoint]
          : item \in {i \in c.items : i.enabled}}
         : c \in loadConnectors(doc)}

=============================================================================
