---------------------------- MODULE MCCollection ----------------------------
EXTENDS Collection, MCDocuments

\* One device with a connector of two endpoints; then one endpoint goes, or one item is
\* disabled and the other listed twice.
Polled(is) ==
  [EmptyDocument EXCEPT
     !["ngfw_devices"] = <<Device("d1")>>,
     !["api_credentials"] = <<Key(FALSE)>>,
     !["endpoints"] = <<Endpoint("e1"), SaseEndpoint("host")>>,
     !["connectors"] = <<Connector("c1", "d1", is)>>]

Both == <<Item("e1", TRUE), Item("e2", TRUE)>>

MCDocs ==
  {Polled(Both),
   [Polled(Both) EXCEPT !["endpoints"] = <<Endpoint("e1")>>],
   Polled(<<Item("e1", FALSE), Item("e2", TRUE), Item("e2", TRUE)>>)}
=============================================================================
