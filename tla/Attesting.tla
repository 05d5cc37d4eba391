----------------------------- MODULE Attesting -----------------------------
(***************************************************************************)
(* One request's client attestation, resolved once: Resolve of             *)
(* internal/oauth2's ClientAttestationValidator, on any headers, form,     *)
(* trust anchor and time, with what its answer promises.                   *)
(***************************************************************************)
EXTENDS ClientAttestation

CONSTANTS
  AttestedRequests,   \* what is resolved: pairs of headers and form
  Anchors,            \* the configured trust anchors, "" for none
  Audience,           \* the audience a PoP must name, "" for any
  ResolveTimes,       \* when a request arrives
  WalletKeys          \* the keys of wallet instances

Dated(date) == date.dated => date.at \in Int

\* What is sent has the members that are read below.
IsWIA(wia) == {"sent", "cnf"} \subseteq DOMAIN wia
IsPoP(pop) == pop.parses => Dated(pop.iat)

ASSUME AttestedAssumption ==
  \A r \in AttestedRequests :
    /\ {"wia", "pop"} \subseteq DOMAIN r[1]
    /\ r[1].wia.sent => IsWIA(r[1].wia)
    /\ r[1].pop.sent => IsPoP(r[1].pop)
    /\ {"type", "assertion"} \subseteq DOMAIN r[2]
    /\ r[2].assertion.sent =>
         /\ {"sent", "parts", "wia", "pop"} \subseteq DOMAIN r[2].assertion
         /\ IsWIA(r[2].assertion.wia) /\ IsPoP(r[2].assertion.pop)

VARIABLES
  headers,      \* the two attestation headers
  form,         \* client_assertion_type and client_assertion
  anchor,       \* the trust anchor configured
  resolvedAt,   \* when
  resolved      \* what Resolve returns

attestationVars == <<headers, form, anchor, resolvedAt, resolved>>

-----------------------------------------------------------------------------
AttestationInit ==
  /\ \E r \in AttestedRequests : headers = r[1] /\ form = r[2]
  /\ anchor \in Anchors
  /\ resolvedAt \in ResolveTimes
  /\ resolved = "none"

ResolveOnce ==
  /\ resolved = "none"
  /\ resolved' = Resolve(headers, form, anchor, Audience, resolvedAt)
  /\ UNCHANGED <<headers, form, anchor, resolvedAt>>

AttestationSpec == AttestationInit /\ [][ResolveOnce]_attestationVars

-----------------------------------------------------------------------------
Attested == resolved \notin {"none", "off", "", Invalid}

\* The pair that decided: the headers', or the form's when there are none or
\* they name no client.
FromHeaders ==
  headers.wia.sent /\ headers.pop.sent
    /\ ValidateHeaders(headers, anchor, Audience, resolvedAt) # ""
Decided(part) == IF FromHeaders THEN headers[part] ELSE form.assertion[part]

\* The answer to the same request if its attestation confirmed cnf instead.
WithCnf(cnf) ==
  IF FromHeaders
    THEN Resolve([headers EXCEPT !.wia.cnf = cnf], form, anchor, Audience, resolvedAt)
    ELSE Resolve(headers, [form EXCEPT !.assertion.wia.cnf = cnf],
                 anchor, Audience, resolvedAt)

\* A proof of possession serves only the attestation of the key that signed
\* it: beside one that confirms another key, by value or by thumbprint, it is
\* refused, whatever key its own header carries.
PossessionProved ==
  Attested =>
    \A k \in WalletKeys \ {"", Decided("pop").signedBy} :
      \A cnf \in {[jwk |-> k, jkt |-> ""], [jwk |-> "", jkt |-> k]} :
        WithCnf(cnf) = Invalid

\* A dated PoP stops working: past the window on either side of its iat the
\* same request is refused.
PoPExpires ==
  Attested /\ Decided("pop").iat.dated =>
    \A d \in {- IATWindow - 1, IATWindow + 1} :
      Resolve(headers, form, anchor, Audience, Decided("pop").iat.at + d) = Invalid

=============================================================================
