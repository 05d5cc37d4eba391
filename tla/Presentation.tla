---------------------------- MODULE Presentation ----------------------------
(***************************************************************************)
(* What the Verifier makes of a wallet's vp_token: internal/verifier's     *)
(* parsing of its shapes, verifyPresentations over the formats of SdJwt    *)
(* and Mdoc, the status lists, and the subject.                            *)
(*                                                                         *)
(* v is the session: its nonce, the thumbprint of its encryption key ("" in *)
(* direct_post mode) and its query, a sequence of credentials.             *)
(***************************************************************************)
EXTENDS SdJwt, Mdoc, StatusList, FiniteSets

CONSTANT ClientID   \* x509_hash of this Verifier's certificate

FormatSDJWTVC == "dc+sd-jwt"
FormatMsoMdoc == "mso_mdoc"

-----------------------------------------------------------------------------
\* isMdocFormat; anything it does not know is SD-JWT VC
IsMdocFormat(format) == format \in {"mso_mdoc", "mdoc", "iso_mdl"}

\* buildDCQLQuery: one entry per requested credential
BuildDCQLQuery(requests) ==
  [i \in DOMAIN requests |->
     [id     |-> requests[i].id,
      format |-> IF IsMdocFormat(requests[i].format) THEN FormatMsoMdoc
                                                     ELSE FormatSDJWTVC,
      type   |-> requests[i].type]]

-----------------------------------------------------------------------------
\* parseVPToken and allVPTokens.  raw is a vp_token: a bare presentation, an
\* object from credential ids to arrays of presentations (a lone string is an
\* array of one), or anything else.

\* firstOf, for the entries that have one
AllVPTokens(raw, query) ==
  CASE raw.shape = "string" -> [id \in {query[1].id} |-> raw.value]
    [] raw.shape = "object" ->
         [id \in {i \in DOMAIN raw.value : raw.value[i] # <<>>} |-> raw.value[id][1]]
    [] OTHER -> <<>>

\* allVPTokens is nil
NoVPTokens(raw) == raw.shape \notin {"string", "object"}

-----------------------------------------------------------------------------
\* Mutant: a presentation that failed is not looked up in the status list.
FetchesIfGood(r) == r.ok /\ ParseRef(r.status)

\* The status list is fetched whatever the verdict on the presentation.
Fetches(r) == ParseRef(r.status)

\* An SD-JWT VC's verification result r, with its status looked up.
WithStatusChecked(r, lists) ==
  [ok      |-> r.ok /\ (Fetches(r) => CheckValid(r.status, lists)),
   claims  |-> {r.claims},
   holder  |-> r.holder,
   fetched |-> Fetches(r)]

\* verifyPresentation: the format comes from the query, so a presentation of
\* another one does not parse.  An mdoc has no holder key to return.
VerifyPresentation(v, cred, p, t, lists) ==
  IF cred.format = FormatMsoMdoc
    THEN [ok      |-> /\ p.format = FormatMsoMdoc
                      /\ VerifyMdoc(p, cred.type, ClientID, v.nonce, v.key, NoCert, t),
          claims  |-> IF p.format = FormatMsoMdoc /\ p.documents # <<>>
                        THEN CollectedClaims(p.documents[1]) ELSE {},
          holder  |-> NoKey,
          fetched |-> FALSE]
    ELSE IF p.format # FormatSDJWTVC
           THEN [ok |-> FALSE, claims |-> {}, holder |-> NoKey, fetched |-> FALSE]
           ELSE WithStatusChecked(VerifyWithStatus(p, ClientID, v.nonce, t), lists)

\* Mutant: the holders of a multi-credential presentation may differ.
BoundTogetherNever(keys) == TRUE

\* verifyCrossCredentialBinding, over the holder keys there are
BoundTogether(keys) == Cardinality(keys) <= 1

\* The result for a query of n credentials, from those of the presentations
\* received, by position.  The first credential that is missing or fails ends
\* the loop: later ones are not looked at.
AllTogether(n, r) ==
  LET Good(i) == i \in DOMAIN r /\ r[i].ok
      reached == {i \in 1 .. n : \A j \in 1 .. i - 1 : Good(j)}
      keys == {r[i].holder : i \in {j \in 1 .. n : Good(j)}} \ {NoKey}
      ok == /\ \A i \in 1 .. n : Good(i)
            /\ n > 1 => BoundTogether(keys)
  IN [ok      |-> ok,
      claims  |-> IF ok THEN [i \in 1 .. n |-> r[i].claims] ELSE <<>>,
      keys    |-> IF ok THEN keys ELSE {},
      fetched |-> {i \in reached \cap DOMAIN r : r[i].fetched}]

\* verifyPresentations
VerifyPresentations(v, tokens, t, lists) ==
  AllTogether(Len(v.query),
    [i \in {j \in DOMAIN v.query : v.query[j].id \in DOMAIN tokens} |->
       VerifyPresentation(v, v.query[i], tokens[v.query[i].id], t, lists)])

\* mergeClaims: where credentials disagree on a name, the order of a map's
\* iteration decides, so there may be several outcomes.
MergeClaims(perCredential) ==
  LET Names(i) == UNION {DOMAIN c : c \in perCredential[i]}
      names == UNION {Names(i) : i \in DOMAIN perCredential}
      Values(n) == UNION {{c[n] : c \in {d \in perCredential[i] : n \in DOMAIN d}} :
                            i \in DOMAIN perCredential}
  IN {m \in [names -> UNION {Values(n) : n \in names}] : \A n \in names : m[n] \in Values(n)}

\* subjectIDFromHolderKeys: a digest of the holder key's thumbprint
SubjectID(key) == <<"sub", key>>
NoSubject == <<>>

\* HandleResponse between its two uses of the store.  A presentation without
\* any holder key has no subject and so fails.
Judgement(r) ==
  LET ok == r.ok /\ r.keys # {} IN
  [ok      |-> ok,
   claims  |-> IF ok THEN MergeClaims(r.claims) ELSE {},
   subject |-> IF ok THEN SubjectID(CHOOSE k \in r.keys : TRUE) ELSE NoSubject,
   fetched |-> r.fetched]

Judge(v, tokens, t, lists) == Judgement(VerifyPresentations(v, tokens, t, lists))

=============================================================================
