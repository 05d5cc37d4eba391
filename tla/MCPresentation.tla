--------------------------- MODULE MCPresentation ---------------------------
(***************************************************************************)
(* Presentations, proper and flawed, judged once each.                     *)
(***************************************************************************)
EXTENDS Judging, TLC

-----------------------------------------------------------------------------
\* A wallet's SD-JWT VC presentation of holder k in the session with this
\* nonce: two of the three claims the issuer committed to, one of them twice
\* with different values.
D(name, value) == Disclosure(TRUE, "s", name, value)

IssuerJWT(k, vct) ==
  [parses |-> TRUE, signatures |-> 1, x5c |-> "i", signedBy |-> "i",
   sd |-> {D("name", "a"), D("name", "b"), D("city", "c")}, cnf |-> k, vct |-> vct,
   status |-> [ref |-> TRUE, idx |-> 1, uri |-> vct]]

Bind(issuer, disclosures, k, nonce) ==
  [format |-> FormatSDJWTVC, compact |-> TRUE, issuer |-> issuer,
   disclosures |-> disclosures,
   kb |-> [present |-> TRUE, signedBy |-> k, aud |-> <<ClientID>>, nonce |-> nonce,
           sdHash |-> [issuer |-> issuer, disclosures |-> disclosures],
           hasIAT |-> TRUE, iat |-> 2]]

SD(k, vct, nonce) == Bind(IssuerJWT(k, vct), <<D("name", "a"), D("city", "c")>>, k, nonce)

\* One flaw each, where it matters re-signed by whoever would have signed it.
Flawed(k, vct, nonce) ==
  LET good == SD(k, vct, nonce)
      jwt == good.issuer
      ds == good.disclosures
  IN {[good EXCEPT !.compact = FALSE],
      Bind(jwt, <<Disclosure(FALSE, "s", "name", "a")>>, k, nonce),
      Bind(jwt, <<D("name", "a"), D("name", "b")>>, k, nonce),  \* no flaw: a name twice
      Bind(jwt, <<D("name", "z"), D("city", "c")>>, k, nonce),  \* never committed to
      Bind([jwt EXCEPT !.parses = FALSE], ds, k, nonce),
      Bind([jwt EXCEPT !.signatures = 2], ds, k, nonce),
      Bind([jwt EXCEPT !.signedBy = "k1"], ds, k, nonce),
      Bind([jwt EXCEPT !.x5c = NoKey], ds, k, nonce),
      Bind([jwt EXCEPT !.cnf = NoKey], ds, k, nonce),
      Bind([jwt EXCEPT !.status = NoStatus], ds, k, nonce),     \* no flaw: no status
      Bind([jwt EXCEPT !.vct = "other"], ds, k, nonce),
      [good EXCEPT !.disclosures = <<D("name", "a")>>],         \* one dropped
      [good EXCEPT !.kb.present = FALSE],
      [good EXCEPT !.kb.signedBy = "i"],
      [good EXCEPT !.kb.aud = <<>>],
      [good EXCEPT !.kb.aud = <<"other", ClientID>>],
      [good EXCEPT !.kb.nonce = "n2"],
      [good EXCEPT !.kb.hasIAT = FALSE]}

-----------------------------------------------------------------------------
\* A wallet's mdoc in the session with this nonce and encryption key.
Item(id, name, value) == [tag |-> 24, digestID |-> id, name |-> name, value |-> value]

Leaf == [subject |-> "l", issuer |-> "ca", key |-> "i", signedBy |-> "ca",
         isCA |-> FALSE, ec |-> TRUE, from |-> 0, until |-> 9]
CA == [Leaf EXCEPT !.subject = "ca", !.key = "ca", !.isCA = TRUE]

MSO(type) ==
  [tag |-> 24, version |-> "1.0", digestAlgorithm |-> "SHA-256", docType |-> type,
   valueDigests |-> [ns \in {type} |-> [id \in {1, 2} |->
     IF id = 1 THEN Item(1, "name", "d") ELSE Item(2, "age", "e")]],
   datesParse |-> TRUE, validFrom |-> 0, validUntil |-> 3, deviceKey |-> "k1"]

Sealed(mso, chain, items, type, nonce, key) ==
  [docType |-> type, mso |-> mso, chain |-> chain,
   issuerAuth |-> [form |-> TRUE, signedBy |-> "i", over |-> mso],
   nameSpaces |-> [ns \in {type} |-> items],
   deviceAuth |-> "deviceSignature", deviceNameSpaces |-> "empty",
   deviceSignature |-> [form |-> TRUE, signedBy |-> "k1",
     over |-> DeviceAuthentication(ClientID, nonce, key, type, "empty")]]

Response(d) == [format |-> FormatMsoMdoc, structure |-> TRUE, version |-> "1.0",
                status |-> "0", documents |-> <<d>>]

Md(type, nonce, key) ==
  Response(Sealed(MSO(type), <<Leaf, CA>>, {Item(1, "name", "d")}, type, nonce, key))

FlawedMdoc(type, nonce, key) ==
  LET good == Md(type, nonce, key)
      Chain(c) == Response(Sealed(MSO(type), c, {}, type, nonce, key))
      Mso(m) == Response(Sealed(m, <<Leaf>>, {Item(2, "age", "e")}, type, nonce, key))
      Doc(d) == [good EXCEPT !.documents = <<d>>]
      d0 == good.documents[1]
  IN {[good EXCEPT !.structure = FALSE],
      [good EXCEPT !.version = "2.0"],
      [good EXCEPT !.status = "10"],
      [good EXCEPT !.documents = <<>>],
      Chain(<<Leaf>>), Chain(<<>>),
      Chain(<<[Leaf EXCEPT !.ec = FALSE]>>),
      Chain(<<Leaf, [CA EXCEPT !.isCA = FALSE]>>),
      Chain(<<Leaf, [CA EXCEPT !.key = "i"]>>),
      Chain(<<Leaf, [CA EXCEPT !.until = 1]>>),
      Mso([MSO(type) EXCEPT !.tag = 1]),
      Mso([MSO(type) EXCEPT !.version = "1.1"]),
      Mso([MSO(type) EXCEPT !.docType = "other"]),
      Mso([MSO(type) EXCEPT !.datesParse = FALSE]),
      Mso([MSO(type) EXCEPT !.validFrom = NoDate, !.validUntil = NoDate]),
      Mso([MSO(type) EXCEPT !.validFrom = 5]),
      Mso([MSO(type) EXCEPT !.deviceKey = ""]),
      Mso([MSO(type) EXCEPT !.valueDigests = <<>>]),
      Doc([d0 EXCEPT !.issuerAuth.form = FALSE]),
      Doc([d0 EXCEPT !.issuerAuth.signedBy = "k2"]),
      Doc([d0 EXCEPT !.nameSpaces = [ns \in {type} |-> {Item(1, "name", "z")}]]),
      Doc([d0 EXCEPT !.nameSpaces = [ns \in {type} |-> {Item(3, "name", "d")}]]),
      Doc([d0 EXCEPT !.deviceAuth = "deviceMac"]),
      Doc([d0 EXCEPT !.deviceNameSpaces = "other"]),
      Doc([d0 EXCEPT !.deviceSignature.signedBy = "k2"])}

-----------------------------------------------------------------------------
Requested(formats) ==
  [i \in DOMAIN formats |->
     [id |-> IF i = 1 THEN "c1" ELSE "c2", format |-> formats[i],
      type |-> IF i = 1 THEN "pid" ELSE "padro"]]

Session(formats, key) ==
  [nonce |-> "n1", key |-> key, query |-> BuildDCQLQuery(Requested(formats))]

\* What a wallet may hold for the credential of this type.
SDs(vct) == {SD(k, vct, n) : k \in {"k1", "k2"}, n \in {"n1", "n2"}}
              \cup Flawed("k1", vct, "n1")
Mds(type) == {Md(type, n, key) : n \in {"n1", "n2"}, key \in {"", "e1", "e2"}}
               \cup FlawedMdoc(type, "n1", "") \cup FlawedMdoc(type, "n1", "e1")

Pair(a, b) == [shape |-> "object",
               value |-> [id \in {"c1", "c2"} |-> IF id = "c1" THEN <<a>> ELSE <<b, a>>]]
One(a) == [shape |-> "object", value |-> [id \in {"c1"} |-> <<a>>]]
Bare(a) == [shape |-> "string", value |-> a]
Odd == [shape |-> "other", value |-> <<>>]
Hollow == [shape |-> "object", value |-> [id \in {"c1"} |-> <<>>]]

Cases ==
  \* one SD-JWT VC requested
  {<<Session(<<"">>, ""), r>> : r \in {One(a) : a \in SDs("pid") \cup Mds("pid")}
      \cup {Bare(a) : a \in SDs("pid")} \cup {Odd, Hollow}}
  \* an mdoc, alone and after an SD-JWT VC, in both response modes
  \cup {<<Session(<<"mdoc">>, ""), One(m)>> : m \in Mds("pid")}
  \cup {<<Session(<<"", "iso_mdl">>, key), Pair(SD("k1", "pid", "n1"), m)>> :
          m \in Mds("padro"), key \in {"", "e1"}}
  \* two SD-JWT VCs
  \cup {<<Session(<<"", "">>, ""), Pair(a, b)>> : a \in SDs("pid"), b \in SDs("padro")}
  \cup {<<Session(<<"", "">>, ""), r>> : r \in {Bare(SD("k1", "pid", "n1")),
                                                One(SD("k1", "pid", "n1"))}}

\* Entry 1 of a two-bit list: valid, revoked, too short, or no list.
TwoBitLists ==
  {[reachable |-> TRUE, token |-> TRUE, bits |-> 4, raw |-> <<0>>],
   [reachable |-> TRUE, token |-> TRUE, bits |-> 0, raw |-> <<4>>],
   [reachable |-> FALSE, token |-> TRUE, bits |-> 0, raw |-> <<0>>]}

MCListings == {l \in [{"pid", "padro", "other"} -> TwoBitLists] : l["other"] = l["pid"]}

MCSelections ==
  {<<>>, <<D("name", "b")>>,
   <<D("name", "a"), D("city", "c")>>, <<D("name", "a"), D("city", "c"), D("name", "b")>>,
   <<D("name", "a"), D("name", "b")>>, <<D("name", "a"), D("name", "b"), D("name", "b")>>}

\* Another check has its turn.
JudgeOff ==
  /\ judged = <<>> /\ vpToken = <<>> /\ judgedAt = 0 /\ answers = <<>>
  /\ verdict = "off"

=============================================================================
