------------------------------ MODULE Judging ------------------------------
(***************************************************************************)
(* One wallet response, judged once: HandleResponse of internal/verifier   *)
(* between its two uses of the store, on any session, vp_token, time and   *)
(* status lists, with what its verdict promises.                           *)
(***************************************************************************)
EXTENDS Presentation

CONSTANTS
  Responses,      \* what is judged: pairs of a session and a vp_token
  JudgeTimes,     \* when it arrives
  Listings,       \* what the status lists answer: uri -> list
  Nonces,         \* the nonces of sessions
  ResponseKeys,   \* the thumbprints of their encryption keys, and ""
  Selections      \* what a holder may disclose: sequences of disclosures

IsSequence(s) == s \in Seq({s[i] : i \in DOMAIN s})

\* A query is a sequence, and so are the disclosures of an SD-JWT VC.
ASSUME ResponsesAssumption ==
  \A c \in Responses :
    LET tokens == AllVPTokens(c[2], c[1].query) IN
    /\ IsSequence(c[1].query)
    /\ \A id \in DOMAIN tokens :
         tokens[id].format = FormatSDJWTVC => IsSequence(tokens[id].disclosures)

VARIABLES
  judged,     \* the session the response belongs to
  vpToken,    \* the vp_token received
  judgedAt,   \* when
  answers,    \* what the status lists answer then
  verdict     \* what HandleResponse makes of it

judgeVars == <<judged, vpToken, judgedAt, answers, verdict>>

-----------------------------------------------------------------------------
Tokens == AllVPTokens(vpToken, judged.query)

JudgeInit ==
  /\ \E c \in Responses : judged = c[1] /\ vpToken = c[2]
  /\ judgedAt \in JudgeTimes
  /\ answers \in Listings
  /\ verdict = "none"

JudgeOnce ==
  /\ verdict = "none"
  /\ verdict' = IF Judge(judged, Tokens, judgedAt, answers).ok
                  THEN "verified" ELSE "failed"
  /\ UNCHANGED <<judged, vpToken, judgedAt, answers>>

JudgeSpec == JudgeInit /\ [][JudgeOnce]_judgeVars

-----------------------------------------------------------------------------
Received == {i \in DOMAIN judged.query : judged.query[i].id \in DOMAIN Tokens}
IsSD(i) == judged.query[i].format # FormatMsoMdoc
TokenOf(i) == Tokens[judged.query[i].id]

\* The same session with another nonce, or another encryption key, and the
\* same presentation with other disclosures.
WithNonce(s, nonce) == [nonce |-> nonce, key |-> s.key, query |-> s.query]
WithKey(s, key) == [nonce |-> s.nonce, key |-> key, query |-> s.query]
WithDisclosures(p, ds) ==
  [format |-> p.format, compact |-> p.compact, issuer |-> p.issuer,
   disclosures |-> ds, kb |-> p.kb]

\* A presentation verified in one session is refused in every session with
\* another nonce (aud and nonce of the KB-JWT, the reconstructed transcript).
NotTransferable ==
  verdict = "verified" =>
    \A nonce \in Nonces \ {judged.nonce} :
      ~ Judge(WithNonce(judged, nonce), Tokens, judgedAt, answers).ok

\* An mdoc verified as part of a response is bound to the response mode and
\* to the session's own encryption key: under any other key the same response
\* is refused.
BoundToResponseKey ==
  verdict = "verified" /\ (\E i \in Received : ~ IsSD(i)) =>
    \A key \in ResponseKeys \ {judged.key} :
      ~ Judge(WithKey(judged, key), Tokens, judgedAt, answers).ok

\* What the issuer of a presentation for the i-th credential committed to:
\* in the _sd of the signed JWT, or in the signed MSO under the item's own
\* namespace and digestID.
Committed(i) ==
  IF IsSD(i)
    THEN {<<d.name, d.value>> : d \in TokenOf(i).issuer.sd}
    ELSE LET vd == TokenOf(i).documents[1].mso.valueDigests IN
         UNION {{<<vd[ns][id].name, vd[ns][id].value>> : id \in DOMAIN vd[ns]} :
                  ns \in DOMAIN vd}

\* Every claim of a verified result is a value some issuer committed to in
\* the credential it is read from.
ClaimsAreCommitted ==
  verdict = "verified" =>
    \A c \in Judge(judged, Tokens, judgedAt, answers).claims : \A name \in DOMAIN c :
      \E i \in Received : <<name, c[name]>> \in Committed(i)

\* The holder decides what is disclosed: of a verified presentation, no copy
\* with other disclosures verifies (sd_hash).
DisclosuresAreSealed ==
  verdict = "verified" =>
    \A i \in {j \in Received : IsSD(j)} :
      \A ds \in Selections \ {TokenOf(i).disclosures} :
        ~ VerifyWithStatus(WithDisclosures(TokenOf(i), ds),
                           ClientID, judged.nonce, judgedAt).ok

\* The subject of a verified presentation names the one holder of all its
\* SD-JWT VCs, whatever was disclosed; a presentation without one has none
\* and is never verified.
OneHolder ==
  verdict = "verified" =>
    /\ \E i \in Received : IsSD(i)
    /\ \A i \in Received : IsSD(i) =>
         Judge(judged, Tokens, judgedAt, answers).subject
           = SubjectID(TokenOf(i).issuer.cnf)

\* A revoked or unreachable status never ends in "verified", and a single
\* credential's list is fetched even when its signatures are refused.
StatusDecides ==
  verdict \in {"verified", "failed"} =>
  LET Ref(i) == TokenOf(i).issuer.status
      Answer(i) == answers[Ref(i).uri]
  IN
  \A i \in {j \in Received : IsSD(j) /\ TokenOf(j).format = FormatSDJWTVC} :
    TokenOf(i).issuer.parses /\ ParseRef(Ref(i)) =>
      /\ verdict = "verified" =>
           /\ Answer(i).reachable /\ Answer(i).token
           /\ StatusAt(Answer(i), Ref(i).idx) = StatusValid
      /\ Len(judged.query) = 1 /\ ParseSdJwt(TokenOf(i)) =>
           i \in Judge(judged, Tokens, judgedAt, answers).fetched

=============================================================================
