------------------------- MODULE MCClientAttestation -------------------------
(***************************************************************************)
(* Attestations, proper and flawed, resolved once each.                    *)
(***************************************************************************)
EXTENDS Attesting, FiniteSets

-----------------------------------------------------------------------------
WIA == [sent |-> TRUE, parses |-> TRUE, signatures |-> 1,
        x5c |-> [sent |-> TRUE, parses |-> TRUE, ec |-> TRUE, key |-> "leaf", signedBy |-> "ca"],
        jwk |-> "", signedBy |-> "leaf", exp |-> At(2), sub |-> "wallet", clientID |-> "",
        cnf |-> [jwk |-> "k1", jkt |-> ""]]

PoP == [sent |-> TRUE, parses |-> TRUE, jwk |-> "k1", signedBy |-> "k1", aud |-> {Audience},
        iat |-> At(1), exp |-> NotDated]

WIAs ==
  {WIA, Missing,
   [WIA EXCEPT !.parses = FALSE],
   [WIA EXCEPT !.signatures = 2],
   [WIA EXCEPT !.signedBy = "k2"],
   [WIA EXCEPT !.x5c.parses = FALSE],
   [WIA EXCEPT !.x5c.ec = FALSE],
   [WIA EXCEPT !.x5c.signedBy = "leaf"],
   [WIA EXCEPT !.x5c = Missing],
   [WIA EXCEPT !.x5c = Missing, !.jwk = "provider", !.signedBy = "provider"],
   [WIA EXCEPT !.exp = NotDated, !.sub = "", !.clientID = "wallet2"],
   [WIA EXCEPT !.sub = ""],
   [WIA EXCEPT !.cnf = [jwk |-> "", jkt |-> "k1"]],
   [WIA EXCEPT !.cnf = [jwk |-> "", jkt |-> "k2"]],
   [WIA EXCEPT !.cnf = [jwk |-> "", jkt |-> ""]]}

PoPs ==
  {PoP, Missing,
   [PoP EXCEPT !.parses = FALSE],
   [PoP EXCEPT !.signedBy = "k2", !.jwk = "k2"],
   [PoP EXCEPT !.jwk = ""],
   [PoP EXCEPT !.aud = {}],
   [PoP EXCEPT !.aud = {"https://other", Audience}],
   [PoP EXCEPT !.iat = NotDated],
   [PoP EXCEPT !.iat = At(6)],
   [PoP EXCEPT !.exp = At(1)]}

NoForm == [type |-> "", assertion |-> Missing]
Form(w, p) == [type |-> "jwt-client-attestation",
               assertion |-> [sent |-> TRUE, parts |-> 2, wia |-> w, pop |-> p]]
NoHeaders == [wia |-> Missing, pop |-> Missing]
InHeaders(w, p) == [wia |-> w, pop |-> p]

Other == [WIA EXCEPT !.sub = "other"]

Forms ==
  {NoForm, Form(Other, PoP), [NoForm EXCEPT !.type = "jwt-client-attestation"],
   [Form(WIA, PoP) EXCEPT !.type = "jwt-bearer"],
   [Form(WIA, PoP) EXCEPT !.assertion.parts = 3]}

\* Everything in headers beside a few forms, and everything in a form.
MCAttestedRequests ==
  {<<InHeaders(w, p), f>> : w \in WIAs, p \in PoPs, f \in Forms}
    \cup {<<NoHeaders, Form(w, p)>> : w \in WIAs \ {Missing}, p \in PoPs \ {Missing}}

\* Another check has its turn.
AttestationOff ==
  headers = <<>> /\ form = <<>> /\ anchor = "" /\ resolvedAt = 0 /\ resolved = "off"

=============================================================================
