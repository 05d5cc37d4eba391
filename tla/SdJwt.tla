------------------------------- MODULE SdJwt -------------------------------
(***************************************************************************)
(* Verification of an SD-JWT VC presentation: internal/sdjwtverify.        *)
(*                                                                         *)
(* A signature is the key that made it, and a digest is the thing it was   *)
(* computed over, so that equal digests mean equal contents.               *)
(***************************************************************************)
EXTENDS Integers, Sequences

\* kbIATSkew
CONSTANT KBSkew

ASSUME KBSkewAssumption == KBSkew \in Nat

NoKey == ""
NoStatus == [ref |-> FALSE, idx |-> 0, uri |-> ""]

\* A disclosure: decodes is whether it is base64url of a three-element array
\* whose first two elements are strings.
Disclosure(decodes, salt, name, value) ==
  [decodes |-> decodes, salt |-> salt, name |-> name, value |-> value]

\* disclosure.digest
Digest(d) == d

\* computeSdHash: the issuer JWT and the disclosures, in order.
ComputeSdHash(p) == [issuer |-> p.issuer, disclosures |-> p.disclosures]

\* parse: at least one "~", and disclosures that decode.  A presentation is
\* then its issuer JWT, its disclosures and its KB-JWT.
ParseSdJwt(p) ==
  p.compact /\ \A i \in DOMAIN p.disclosures : p.disclosures[i].decodes

\* unverifiedStatusClaim: read without looking at the signature; no
\* reference when the JWT does not parse.
UnverifiedStatusClaim(jwt) == IF jwt.parses THEN jwt.status ELSE NoStatus

\* verifyIssuerSignature: one signature, by the EC key of the x5c leaf.
VerifyIssuerSignature(jwt) ==
  /\ jwt.parses
  /\ jwt.signatures = 1
  /\ jwt.x5c # NoKey
  /\ jwt.signedBy = jwt.x5c

\* Mutant: one committed disclosure vouches for all.
VerifyDisclosureDigestsAny(p) ==
  \/ p.disclosures = <<>>
  \/ \E i \in DOMAIN p.disclosures : Digest(p.disclosures[i]) \in p.issuer.sd

\* verifyDisclosureDigests
VerifyDisclosureDigests(p) ==
  \A i \in DOMAIN p.disclosures : Digest(p.disclosures[i]) \in p.issuer.sd

\* Mutant: the KB-JWT's nonce is not compared.
VerifyKeyBindingNoNonce(p, aud, nonce, t) ==
  /\ p.kb.present
  /\ p.issuer.cnf # NoKey
  /\ p.kb.signedBy = p.issuer.cnf
  /\ Len(p.kb.aud) > 0 /\ p.kb.aud[1] = aud
  /\ p.kb.sdHash = ComputeSdHash(p)
  /\ p.kb.hasIAT
  /\ t - p.kb.iat \in -KBSkew .. KBSkew

\* Mutant: the KB-JWT's sd_hash is not compared.
VerifyKeyBindingNoHash(p, aud, nonce, t) ==
  /\ p.kb.present
  /\ p.issuer.cnf # NoKey
  /\ p.kb.signedBy = p.issuer.cnf
  /\ Len(p.kb.aud) > 0 /\ p.kb.aud[1] = aud
  /\ p.kb.nonce = nonce
  /\ p.kb.hasIAT
  /\ t - p.kb.iat \in -KBSkew .. KBSkew

\* verifyKeyBinding
VerifyKeyBinding(p, aud, nonce, t) ==
  /\ p.kb.present
  /\ p.issuer.cnf # NoKey
  /\ p.kb.signedBy = p.issuer.cnf
  /\ Len(p.kb.aud) > 0 /\ p.kb.aud[1] = aud
  /\ p.kb.nonce = nonce
  /\ p.kb.sdHash = ComputeSdHash(p)
  /\ p.kb.hasIAT
  /\ t - p.kb.iat \in -KBSkew .. KBSkew

\* The claims map: of two disclosures with one name, the later wins.
DisclosedClaims(p) ==
  LET names == {p.disclosures[i].name : i \in DOMAIN p.disclosures} IN
  [n \in names |->
     LET last == CHOOSE i \in DOMAIN p.disclosures :
                   /\ p.disclosures[i].name = n
                   /\ \A j \in DOMAIN p.disclosures :
                        p.disclosures[j].name = n => j <= i
     IN p.disclosures[last].value]

\* What VerifyWithStatus returns for its verdict: the status reference as soon
\* as there is one to read, claims and holder only of what verified.
SdJwtResult(p, ok) ==
  [ok     |-> ok,
   status |-> IF ParseSdJwt(p) THEN UnverifiedStatusClaim(p.issuer) ELSE NoStatus,
   claims |-> IF ok THEN DisclosedClaims(p) ELSE <<>>,
   holder |-> IF ok THEN p.issuer.cnf ELSE NoKey]

\* VerifyWithStatus
VerifyWithStatus(p, aud, nonce, t) ==
  SdJwtResult(p, /\ ParseSdJwt(p)
                 /\ VerifyIssuerSignature(p.issuer)
                 /\ VerifyDisclosureDigests(p)
                 /\ VerifyKeyBinding(p, aud, nonce, t))

=============================================================================
