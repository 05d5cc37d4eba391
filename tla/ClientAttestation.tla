-------------------------- MODULE ClientAttestation --------------------------
(***************************************************************************)
(* How the wallet-facing endpoints learn which client is calling:          *)
(* internal/oauth2's ClientAttestationValidator, over a Wallet Instance    *)
(* Attestation (WIA) and its proof of possession (PoP), sent in headers or *)
(* as a client_assertion.                                                  *)
(*                                                                         *)
(* A signature is the key that made it, a thumbprint the key itself.  An   *)
(* answer is a client id, "" for no attestation, or Invalid.               *)
(***************************************************************************)
EXTENDS Integers

CONSTANT IATWindow   \* clientAttestationIATWindow

ASSUME IATWindowAssumption == IATWindow \in Nat

Invalid == "invalid_client"

Missing == [sent |-> FALSE]

NotDated == [dated |-> FALSE]
At(t) == [dated |-> TRUE, at |-> t]

NotAfter(t, exp) == exp.dated => t <= exp.at

-----------------------------------------------------------------------------
\* resolveWiaKey: the leaf of x5c, which a configured anchor must have signed,
\* or else, when there is no x5c, the header's jwk.  "" is no key.
ResolveWiaKey(wia, anchor) ==
  IF wia.x5c.sent
    THEN IF /\ wia.x5c.parses /\ wia.x5c.ec
            /\ anchor # "" => wia.x5c.signedBy = anchor
           THEN wia.x5c.key ELSE ""
    ELSE wia.jwk

\* Mutant: a thumbprint is not compared.
ResolveCnfKeyAny(wia, pop) ==
  IF wia.cnf.jwk # "" THEN wia.cnf.jwk ELSE IF wia.cnf.jkt # "" THEN pop.jwk ELSE ""

\* resolveCnfKey: the key itself, or the PoP's own if it has the thumbprint
ResolveCnfKey(wia, pop) ==
  IF wia.cnf.jwk # "" THEN wia.cnf.jwk
  ELSE IF wia.cnf.jkt # "" /\ pop.parses /\ pop.jwk = wia.cnf.jkt THEN pop.jwk
  ELSE ""

\* An unconfigured audience is not compared.
AudienceOK(pop, audience) == audience = "" \/ audience \in pop.aud

\* Mutant: only a PoP from the future is refused.
InWindowPast(pop, now) == pop.iat.dated => pop.iat.at - now <= IATWindow

\* A PoP without iat is in every window.
InWindow(pop, now) ==
  pop.iat.dated => now - pop.iat.at \in - IATWindow .. IATWindow

\* The subject, or else the client_id claim
ClientIDOf(wia) == IF wia.sub # "" THEN wia.sub ELSE wia.clientID

\* validateWiaAndPop
ValidateWiaAndPop(wia, pop, anchor, audience, now) ==
  LET wiaKey == ResolveWiaKey(wia, anchor)
      cnfKey == ResolveCnfKey(wia, pop)
  IN IF /\ wia.parses /\ wia.signatures = 1
        /\ wiaKey # "" /\ wia.signedBy = wiaKey
        /\ NotAfter(now, wia.exp)
        /\ cnfKey # "" /\ pop.parses /\ pop.signedBy = cnfKey
        /\ AudienceOK(pop, audience)
        /\ InWindow(pop, now)
        /\ NotAfter(now, pop.exp)
       THEN ClientIDOf(wia) ELSE Invalid

-----------------------------------------------------------------------------
\* ValidateHeaders
ValidateHeaders(h, anchor, audience, now) ==
  IF ~ h.wia.sent /\ ~ h.pop.sent THEN ""
  ELSE IF ~ h.wia.sent \/ ~ h.pop.sent THEN Invalid
  ELSE ValidateWiaAndPop(h.wia, h.pop, anchor, audience, now)

\* ValidateForm: the assertion has to be two JWTs, joined by "~"
ValidateForm(f, anchor, audience, now) ==
  IF f.type = "" /\ ~ f.assertion.sent THEN ""
  ELSE IF f.type # "jwt-client-attestation" \/ ~ f.assertion.sent THEN Invalid
  ELSE IF f.assertion.parts # 2 THEN Invalid
  ELSE ValidateWiaAndPop(f.assertion.wia, f.assertion.pop, anchor, audience, now)

\* Resolve: the headers' answer stands unless it is ""
Resolve(h, f, anchor, audience, now) ==
  LET answer == ValidateHeaders(h, anchor, audience, now) IN
  IF answer # "" THEN answer ELSE ValidateForm(f, anchor, audience, now)

=============================================================================
