----------------------------- MODULE HttpClient -----------------------------
(***************************************************************************)
(* The outbound HTTPS call of shared/http/HttpClientSession, as the set of *)
(* responses its completion handler can be given.  A session runs resolve, *)
(* connect, handshake, write and read, each with a deadline of its own; a  *)
(* step that fails or expires ends it, and finish calls the handler once.  *)
(*                                                                         *)
(* A request is [verifyCa, pin]: either the CA chain is verified, or the   *)
(* peer's certificate must be the pinned one.  NoPin is an empty pin.      *)
(***************************************************************************)
EXTENDS Naturals

NoPin == "no pin"
PinnedCert == "pinned certificate"
OtherCert == "another certificate"
Pins == {NoPin, PinnedCert}

\* What the peer's answer amounts to: none, an error status, a 200 whose body
\* is not what the caller needs, and a 200 with what it asked for.
Replies == {"none", "refused", "useless", "good"}

\* m_out as constructed: nothing reached, nothing sent.
NotReached ==
  [tlsOk |-> FALSE, pinMatched |-> FALSE, requestSent |-> FALSE, reply |-> "none"]

\* start: verify_peer with the CA bundle, or verify_none and the pin later.
\* A CA-verified handshake fails on a certificate the chain does not vouch for.
HandshakeOk(req, cert) == req.verifyCa => cert = PinnedCert

\* sameFingerprint: an empty pin matches nothing.
SameFingerprint(pin, cert) == pin # NoPin /\ pin = cert

\* onHandshake: the peer is vouched for by the CA chain or by the pin.
PinMatched(req, cert) == req.verifyCa \/ SameFingerprint(req.pin, cert)

\* onHandshake, the gate: an unknown peer ends the session with nothing sent;
\* otherwise the request is written, and onWrite and onRead fail or answer.
AfterHandshake(req, cert) ==
  IF PinMatched(req, cert)
  THEN {[tlsOk |-> TRUE, pinMatched |-> TRUE, requestSent |-> TRUE, reply |-> r]
          : r \in Replies}
  ELSE {[NotReached EXCEPT !.tlsOk = TRUE]}

\* Everything run may end with, over the certificates a peer may present.
Responses(req) ==
  {NotReached} \cup
  UNION {AfterHandshake(req, cert)
           : cert \in {c \in {PinnedCert, OtherCert} : HandshakeOk(req, c)}}

=============================================================================
