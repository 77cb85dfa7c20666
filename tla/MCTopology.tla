----------------------------- MODULE MCTopology -----------------------------
EXTENDS Topology, MCDocuments, TLC

\* A site with two firewalls, another with one, and a tenant; the interfaces of the first are
\* collected.
MCTopoDocument ==
  [EmptyDocument EXCEPT
     !["sites"] = <<[oid |-> "s1", name |-> "n"], [oid |-> "s2", name |-> "m"]>>,
     !["ngfw_devices"] = <<Device("f1"), Device("f2"), [Device("f3") EXCEPT !.site = "s2"]>>,
     !["sase_devices"] = <<Device("t1")>>,
     !["endpoints"] = <<[oid |-> "eIf"], [oid |-> "eIke"], [oid |-> "eGrp"], [oid |-> "eCon"]>>,
     !["connectors"] = <<Connector("c1", "f1", <<Item("eIf", TRUE), Item("eIke", TRUE)>>),
                         Connector("c2", "f2", <<Item("eIke", TRUE)>>),
                         Connector("c4", "f3", <<Item("eIke", TRUE)>>),
                         Connector("c3", "t1", <<Item("eGrp", TRUE), Item("eCon", TRUE)>>)>>]

\* The same with the first site alone.
OneSiteDocument == [MCTopoDocument EXCEPT !["sites"] = <<[oid |-> "s1", name |-> "n"]>>]

MCRole == [eIf |-> "interfaces", eIke |-> "ike", eGrp |-> "ztna_groups", eCon |-> "ztna_connectors"]

Interface(n, a) == [name |-> n, kind |-> "ethernet", addrs |-> a]
Gateway(n, i, p) == [name |-> n, interface |-> i, peer |-> p]

\* A service connection and a remote network on either interface, and a gateway whose
\* peer names no tenant.
MCBodies ==
  (<<"c1", "eIf">> :> {<<Interface("e1", {<<10, 0>>}), Interface("e2", {})>>}) @@
  (<<"c1", "eIke">> :> {<<Gateway("g1", "e1", <<"sc", "t">>)>>,
                        <<Gateway("g1", "e2", <<"rn", "t">>), Gateway("g2", "e1", <<"sc", "t">>)>>}) @@
  (<<"c2", "eIke">> :> {<<Gateway("g1", "e1", <<"sc", "t">>)>>, <<Gateway("g1", "e1", <<"name">>)>>}) @@
  (<<"c4", "eIke">> :> {<<Gateway("g1", "e1", <<"sc", "t">>)>>}) @@
  (<<"c3", "eGrp">> :> {}) @@ (<<"c3", "eCon">> :> {})
=============================================================================
