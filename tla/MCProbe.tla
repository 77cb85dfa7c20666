------------------------------ MODULE MCProbe -------------------------------
EXTENDS Probe

Host(o, t) == [oid |-> o, target |-> t]

\* d1 moves to the address of d2, which goes, and so does the tenant.
Before == [ngfw |-> <<Host("d1", "ip1"), Host("d2", "ip2")>>, sase |-> <<Host("t", "sase")>>]
After  == [ngfw |-> <<Host("d1", "ip2")>>, sase |-> <<>>]

MCInventories == {Before, After}

=============================================================================
