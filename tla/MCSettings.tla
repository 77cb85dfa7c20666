----------------------------- MODULE MCSettings -----------------------------
EXTENDS Settings, MCDocuments, TLC

Conn(e) == Connector("c1", "d1", <<Item(e, TRUE)>>)
User(n, r) ==
  [oid |-> n, username |-> n, role |-> r, secret |-> FALSE, badChars |-> FALSE]
Vendor(id) == [id |-> id, models |-> <<[id |-> "m", qualified |-> FALSE]>>, secret |-> FALSE]
Service(g) == [service |-> "chat", guardrail |-> g, blocksTyped |-> TRUE, secret |-> FALSE]

Change(d, a, v) == [domain |-> d, values |-> a :> v]
Batch(admin, changes) == [admin |-> admin, changes |-> changes]

MCStart ==
  [EmptyDocument EXCEPT !["users"] = <<User("root", "admin")>>,
                        !["ngfw_devices"] = <<Device("d1")>>,
                        !["api_credentials"] = <<Key(FALSE)>>]

\* The endpoints page, the connectors page and both at once; a key with its
\* password; the account list; a site, a vendor and an engine.
MCRequests ==
  {Batch(TRUE, <<Change("connector", "endpoints", s)>>)
     : s \in {<<>>, <<Endpoint("e1")>>, <<SaseEndpoint("host")>>, <<SaseEndpoint("")>>}}
  \cup {Batch(TRUE, <<Change("connector", "connectors", s)>>)
     : s \in {<<>>, <<Conn("e1")>>}}
  \cup {Batch(TRUE, <<Change("connector", "connectors", <<Conn(e)>>),
                      Change("connector", "endpoints", <<SaseEndpoint(h)>>)>>)
     : e \in {"e1", "e2"}, h \in {"", "host"}}
  \cup {Batch(TRUE, <<Change("connector", "api_credentials", <<Key(secret)>>)>>)
     : secret \in BOOLEAN}
  \cup {Batch(admin, <<Change("user", "users", us)>>)
     : admin \in BOOLEAN,
       us \in {<<User("root", "admin"), User("guest", "user")>>, <<User("guest", "user")>>}}
  \cup {Batch(FALSE, <<Change("site", "ngfw_devices", <<>>),
                       Change("site", "sites", <<[oid |-> "s1", name |-> "n"]>>)>>),
        Batch(FALSE, <<Change("providers", "vendors", <<Vendor("openai"), Vendor("google")>>)>>),
        Batch(FALSE, <<Change("guardrail", "services", <<Service("none")>>)>>),
        Batch(FALSE, <<>>)}
=============================================================================
