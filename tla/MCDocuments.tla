---------------------------- MODULE MCDocuments -----------------------------
(* Entries of the configuration documents the instances are built from.    *)

Endpoint(o) ==
  [oid |-> o, name |-> "n", path |-> "/api", deviceType |-> "ngfw", subtype |-> "",
   host |-> "", pairsNamed |-> TRUE, authorization |-> FALSE]

SaseEndpoint(h) ==
  [Endpoint("e2") EXCEPT !.deviceType = "sase", !.host = h, !.path = "/restapi"]

Key(secret) == [oid |-> "k1", name |-> "n", device |-> "d1", secret |-> secret]

Item(e, on) == [endpoint |-> e, interval |-> 60, enabled |-> on]

Connector(o, dev, is) ==
  [oid |-> o, object |-> dev, authProfile |-> "k1", oldShape |-> FALSE, oldInterval |-> FALSE,
   items |-> is]

Device(o) == [oid |-> o, target |-> "h", site |-> "s1"]
=============================================================================
