------------------------------ MODULE MCAccess ------------------------------
EXTENDS Access

MCSsoConfig ==
  [enabled |-> TRUE, key |-> "idp", issuer |-> "okta", audience |-> "nms", group |-> 7]

Response ==
  [wellFormed |-> TRUE, signature |-> TRUE, key |-> "idp", status |-> "ok", issuer |-> "okta",
   conditions |-> TRUE, early |-> FALSE, late |-> FALSE, audience |-> "nms", groups |-> {7},
   email |-> 1, nameId |-> 1]

\* A good one, one that names its subject by NameID only, and one for each check.
MCResponses ==
  {Response,
   [Response EXCEPT !.email = 0, !.nameId = 2],
   [Response EXCEPT !.late = TRUE],
   [Response EXCEPT !.audience = "other"],
   [Response EXCEPT !.conditions = FALSE],
   [Response EXCEPT !.signature = FALSE],
   [Response EXCEPT !.groups = {}],
   [Response EXCEPT !.wellFormed = FALSE]}

Token ==
  [wellFormed |-> TRUE, alg |-> "RS256", key |-> "idp", issuer |-> "okta", audience |-> "nms",
   early |-> FALSE, late |-> FALSE, nonce |-> 1, name |-> 1]

MCTokens == {Token, [Token EXCEPT !.nonce = 2], [Token EXCEPT !.late = TRUE]}

\* The accounts of the appliance alone.
LocalSpec == AccessInit /\ [][LocalNext]_accessVars
=============================================================================
