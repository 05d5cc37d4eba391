-------------------------------- MODULE Mdoc --------------------------------
(***************************************************************************)
(* Verification of an ISO 18013-5 DeviceResponse: internal/mdocverify.     *)
(*                                                                         *)
(* As in SdJwt, a signature is the key that made it together with what it  *)
(* covers, and a digest is what it was computed over.                      *)
(***************************************************************************)
EXTENDS Integers, Sequences

CONSTANTS
  ValiditySkew,   \* validitySkew
  ResponseURI     \* where this Verifier receives responses

ASSUME ValiditySkewAssumption == ValiditySkew \in Nat

NoCert == <<>>
NoDate == -1

-----------------------------------------------------------------------------
\* certchain.go

\* x509's CheckSignatureFrom: the parent must be a CA and its key the signer.
CheckSignatureFrom(cert, parent) == parent.isCA /\ cert.signedBy = parent.key

\* isSelfSigned
IsSelfSigned(cert) ==
  cert.subject = cert.issuer /\ CheckSignatureFrom(cert, cert)

\* Every certificate of the chain is inside its validity window.
ChainInWindow(chain, t) ==
  \A i \in DOMAIN chain : t \in chain[i].from .. chain[i].until

\* validateCertChain, leaf first.  Without a trust anchor a chain that does
\* not end in a self-signed root is accepted as it stands.
ValidateCertChain(chain, anchor, t) ==
  LET top == chain[Len(chain)] IN
  /\ chain # <<>>
  /\ ChainInWindow(chain, t)
  /\ \A i \in 1 .. Len(chain) - 1 :
       chain[i + 1].isCA /\ CheckSignatureFrom(chain[i], chain[i + 1])
  /\ CASE anchor # NoCert ->
            top = anchor \/ (anchor.isCA /\ CheckSignatureFrom(top, anchor))
       [] anchor = NoCert /\ IsSelfSigned(top) -> CheckSignatureFrom(top, top)
       [] OTHER -> TRUE

-----------------------------------------------------------------------------
\* cose.go: verifyCoseSign1Detached and ...Attached.  form is whether header,
\* algorithm and signature length are what ES256 requires.
VerifyCoseSign1(sign1, payload, key) ==
  sign1.form /\ sign1.signedBy = key /\ sign1.over = payload

\* parseSingleDocument and the two requireMaps: structure is whether the
\* CBOR decodes and has the members it must; only the first document counts.
ParseSingleDocument(r) ==
  /\ r.structure
  /\ r.version = "1.0"
  /\ r.status \in {"absent", "0"}
  /\ r.documents # <<>>

\* verifyIssuerAuthAndExtractMSO
VerifyIssuerAuth(d, anchor, t) ==
  /\ d.chain # <<>>
  /\ d.chain[1].ec
  /\ VerifyCoseSign1(d.issuerAuth, d.mso, d.chain[1].key)
  /\ ValidateCertChain(d.chain, anchor, t)
  /\ d.mso.tag = 24

\* verifyMSOMeta
VerifyMSOMeta(mso) == mso.version = "1.0" /\ mso.digestAlgorithm = "SHA-256"

\* verifyDocType: no requested docType means any.
VerifyDocType(d, expected) ==
  /\ d.docType # "" /\ d.docType = d.mso.docType
  /\ expected \in {"", d.docType}

\* Mutant: an item whose digestID is listed passes without its digest.
VerifyDigestsByID(d) ==
  \A ns \in DOMAIN d.nameSpaces :
    /\ ns \in DOMAIN d.mso.valueDigests
    /\ \A item \in d.nameSpaces[ns] :
         item.tag = 24 /\ item.digestID \in DOMAIN d.mso.valueDigests[ns]

\* verifyDigestsAndCollectClaims and lookupDigest: an item's digest is the
\* one its own namespace lists under its digestID.
VerifyDigests(d) ==
  \A ns \in DOMAIN d.nameSpaces :
    /\ ns \in DOMAIN d.mso.valueDigests
    /\ \A item \in d.nameSpaces[ns] :
         /\ item.tag = 24
         /\ item.digestID \in DOMAIN d.mso.valueDigests[ns]
         /\ d.mso.valueDigests[ns][item.digestID] = item

\* The claims map.  Two items with one identifier overwrite each other in
\* the order the maps are iterated, so there may be several outcomes.
CollectedClaims(d) ==
  LET items == UNION {d.nameSpaces[ns] : ns \in DOMAIN d.nameSpaces}
      names == {item.name : item \in items}
  IN {c \in [names -> {item.value : item \in items}] :
        \A n \in names : \E item \in items : item.name = n /\ item.value = c[n]}

\* verifyValidity and parseTdate: a date that is absent is no bound.
VerifyValidity(mso, t) ==
  /\ mso.datesParse
  /\ mso.validFrom = NoDate \/ t + ValiditySkew >= mso.validFrom
  /\ mso.validUntil = NoDate \/ t - ValiditySkew <= mso.validUntil

\* openID4VPHandover and deviceAuthenticationBytes: what the device signs.
\* thumbprint is "" for a response that is not encrypted.
DeviceAuthentication(clientID, nonce, thumbprint, docType, nameSpaces) ==
  [transcript |-> <<clientID, nonce, thumbprint, ResponseURI>>,
   docType |-> docType, nameSpaces |-> nameSpaces]

\* Mutant: the transcript is rebuilt without the encryption key.
VerifyDeviceSignatureNoKey(d, clientID, nonce, thumbprint) ==
  /\ d.deviceAuth = "deviceSignature"
  /\ d.mso.deviceKey # ""
  /\ \E k \in {"", d.deviceSignature.over.transcript[3]} :
       VerifyCoseSign1(d.deviceSignature,
         DeviceAuthentication(clientID, nonce, k, d.docType, d.deviceNameSpaces),
         d.mso.deviceKey)

\* verifyDeviceSignature and deviceKeyFromMSO.  A deviceMac is not supported.
VerifyDeviceSignature(d, clientID, nonce, thumbprint) ==
  /\ d.deviceAuth = "deviceSignature"
  /\ d.mso.deviceKey # ""
  /\ VerifyCoseSign1(d.deviceSignature,
       DeviceAuthentication(clientID, nonce, thumbprint, d.docType, d.deviceNameSpaces),
       d.mso.deviceKey)

\* Verify
VerifyMdoc(r, expectedDocType, clientID, nonce, thumbprint, anchor, t) ==
  /\ ParseSingleDocument(r)
  /\ LET d == r.documents[1] IN
       /\ VerifyIssuerAuth(d, anchor, t)
       /\ VerifyMSOMeta(d.mso)
       /\ VerifyDocType(d, expectedDocType)
       /\ VerifyDigests(d)
       /\ VerifyValidity(d.mso, t)
       /\ VerifyDeviceSignature(d, clientID, nonce, thumbprint)

=============================================================================
