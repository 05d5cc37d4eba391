------------------------- MODULE TokenEndpointProofs -------------------------
(***************************************************************************)
(* The safety properties of TokenEndpoint, for every number of codes,      *)
(* tokens and concurrent requests and every choice of the lifetimes that   *)
(* satisfies RetentionAssumption: the inductive invariant TokenInv, one    *)
(* lemma for each action that it is preserved, and the theorems.           *)
(***************************************************************************)
EXTENDS TokenEndpoint, GoMapsProofs

-----------------------------------------------------------------------------
\* The inductive invariant

\* Entry d of authCodes, or a request that consumed it, stands for grant g.
HoldsGrant(r, g) ==
  r.client = g.client /\ r.record = g.record /\ g.jkt \in {NoValue, r.key}

\* A code that can still be redeemed was granted as stored, and has minted
\* nothing.
CodesUnspent ==
  \A c \in DOMAIN authCodes :
    /\ c \in DOMAIN granted
    /\ authCodes[c].client = granted[c].client
    /\ authCodes[c].record = granted[c].record
    /\ authCodes[c].jkt = granted[c].jkt
    /\ \A j \in DOMAIN minted : minted[j].code # c

\* A request about to mint is the only one to hold its code, which is out of
\* the store and has minted nothing; and it passed the binding checks.
MintersExclusive ==
  \A t \in TokenThreads :
    treq[t].pc = "mint" =>
      /\ treq[t].code \in DOMAIN granted
      /\ treq[t].code \notin DOMAIN authCodes
      /\ treq[t].client \in Clients /\ treq[t].key \in Keys
      /\ treq[t].record \in RecordIDs
      /\ HoldsGrant(treq[t], granted[treq[t].code])
      /\ \A j \in DOMAIN minted : minted[j].code # treq[t].code
      /\ \A u \in TokenThreads :
           treq[u].pc = "mint" /\ treq[u].code = treq[t].code => u = t

\* The jti a request is about to record, or has recorded, is the jti of a
\* token minted from the same code.
JTIsLinked ==
  /\ \A t \in TokenThreads :
       treq[t].pc = "record" =>
         /\ treq[t].code \in Codes
         /\ treq[t].jti \in DOMAIN minted
         /\ minted[treq[t].jti].code = treq[t].code
  /\ \A c \in DOMAIN issuedJTIByCode :
       /\ issuedJTIByCode[c] \in DOMAIN minted
       /\ minted[issuedJTIByCode[c]].code = c

\* A token lives TokenTTL at most, and its entry on the denylist as long as
\* it does.
RevokedPublished ==
  /\ \A j \in DOMAIN minted : minted[j].exp <= now + TokenTTL
  /\ \A j \in revoked :
       /\ j \in DOMAIN minted
       /\ now <= minted[j].exp =>
            j \in DOMAIN revokedJTIs /\ minted[j].exp <= revokedJTIs[j]

\* The token of a code can be found and revoked, or has been revoked.
Accounted(c) ==
  c \in DOMAIN issuedJTIByCode \/ \E j \in revoked : minted[j].code = c

\* Tokens sent, and the requests that arrived after their code's was.
AnsweredAccounted ==
  /\ \A c \in answered : Accounted(c)
  /\ \A t \in TokenThreads :
       treq[t].pc = "done" /\ treq[t].outcome = "token" =>
         treq[t].code \in Codes /\ Accounted(treq[t].code)
  /\ \A t \in late :
       treq[t].code \in answered /\ treq[t].pc \in {"revoke", "done"}

TokenInv ==
  /\ TokenTypeOK
  /\ CodesUnspent
  /\ MintersExclusive
  /\ JTIsLinked
  /\ RevokedPublished
  /\ AnsweredAccounted
  /\ OneTokenPerCode
  /\ TokenMatchesGrant
  /\ LateReuseRevokes

-----------------------------------------------------------------------------
\* A code is spent once, and every token stays accounted for.

\* The store is empty when the server starts.
LEMMA TokenInitInv == TokenInit => TokenInv
<1> SUFFICES ASSUME TokenInit PROVE TokenInv
  OBVIOUS
<1>1. TokenTypeOK
  BY EmptyFacts DEF TokenInit, TokenTypeOK, TokenIdle, TokenRequest
<1>2. DOMAIN authCodes = {} /\ DOMAIN issuedJTIByCode = {} /\ DOMAIN minted = {}
  BY EmptyFacts DEF TokenInit
<1>3. \A t \in TokenThreads : treq[t] = TokenIdle
  BY DEF TokenInit
<1>4. \A t \in TokenThreads : treq[t].pc = "idle"
  BY <1>3 DEF TokenIdle
<1> QED
  BY <1>1, <1>2, <1>4
  DEF TokenInit, TokenInv, CodesUnspent, MintersExclusive, JTIsLinked,
      RevokedPublished, AnsweredAccounted, OneTokenPerCode, TokenMatchesGrant,
      LateReuseRevokes

\* A step that leaves the codes and the tokens alone, and sends no further
\* request on to mint.
LEMMA TokensKept ==
  ASSUME TokenInv, UNCHANGED <<authCodes, minted, granted>>,
         \A u \in TokenThreads : treq'[u].pc = "mint" => treq'[u] = treq[u]
  PROVE  /\ CodesUnspent' /\ OneTokenPerCode' /\ TokenMatchesGrant'
         /\ MintersExclusive'
<1>1. authCodes' = authCodes /\ minted' = minted /\ granted' = granted
  OBVIOUS
<1>2. CodesUnspent'
  BY <1>1 DEF TokenInv, CodesUnspent
<1>3. OneTokenPerCode' /\ TokenMatchesGrant'
  BY <1>1 DEF TokenInv, OneTokenPerCode, TokenMatchesGrant
<1>4. MintersExclusive
  BY Zenon DEF TokenInv
<1>5. MintersExclusive'
  BY <1>1, <1>4, Zenon DEF MintersExclusive
<1> QED
  BY <1>2, <1>3, <1>5, Zenon

\* A step in which a request that cannot be late answers, and the tokens and
\* what accounts for them stay.
LEMMA LateKept ==
  ASSUME TokenInv, UNCHANGED <<minted, answered, late, revoked>>,
         DOMAIN issuedJTIByCode \subseteq DOMAIN issuedJTIByCode',
         NEW t \in TokenThreads, t \notin late,
         \A u \in TokenThreads : u # t => treq'[u] = treq[u],
         treq'[t].pc = "done" /\ treq'[t].outcome = "token" =>
           treq'[t].code \in Codes /\ Accounted(treq[t].code)'
  PROVE  AnsweredAccounted' /\ LateReuseRevokes'
<1>1. /\ minted' = minted /\ answered' = answered
      /\ late' = late /\ revoked' = revoked
  OBVIOUS
<1>2. \A c : Accounted(c) => Accounted(c)'
  BY <1>1, Zenon DEF Accounted
<1>3. late \subseteq TokenThreads /\ \A u \in late : treq'[u] = treq[u]
  BY Zenon DEF TokenInv, TokenTypeOK
<1>4. AnsweredAccounted'
  <2>1. \A c \in answered' : Accounted(c)'
    BY <1>1, <1>2, Zenon DEF TokenInv, AnsweredAccounted
  <2>2. ASSUME NEW u \in TokenThreads,
               treq'[u].pc = "done", treq'[u].outcome = "token"
        PROVE  treq'[u].code \in Codes /\ Accounted(treq[u].code)'
    <3>1. CASE u # t
      <4>1. treq'[u] = treq[u] /\ treq[u].code \in Codes /\ Accounted(treq[u].code)
        BY <2>2, <3>1, Zenon DEF TokenInv, AnsweredAccounted
      <4> QED
        BY <1>1, <4>1, Zenon DEF Accounted
    <3> QED
      BY <2>2, <3>1, Zenon
  <2>3. \A u \in late' :
          treq'[u].code \in answered' /\ treq'[u].pc \in {"revoke", "done"}
    BY <1>1, <1>3, Zenon DEF TokenInv, AnsweredAccounted
  <2> QED
    BY <2>1, <2>2, <2>3, Zenon DEF AnsweredAccounted
<1>5. LateReuseRevokes'
  BY <1>1, <1>3, Zenon DEF TokenInv, LateReuseRevokes
<1> QED
  BY <1>4, <1>5, Zenon

\* A new code is granted as it is stored.
LEMMA IssueCodeInv ==
  ASSUME TokenInv, NEW code \in Codes, NEW g \in Grants, IssueCode(code, g)
  PROVE  TokenInv'
<1> DEFINE d == [record |-> g.record, client |-> g.client,
                 challenge |-> g.challenge, jkt |-> g.jkt, at |-> now]
<1>1. g \in Grant
  BY TokenInputsAssumption
<1>2. d \in AuthCodeData
  BY <1>1 DEF Grant, AuthCodeData, TokenInv, TokenTypeOK
<1>3. /\ DOMAIN authCodes' = DOMAIN authCodes \cup {code}
      /\ authCodes'[code] = d
      /\ \A c \in DOMAIN authCodes : c # code => authCodes'[c] = authCodes[c]
  BY DEF IssueCode, Put
<1>4. /\ code \notin DOMAIN granted
      /\ DOMAIN granted' = DOMAIN granted \cup {code}
      /\ granted'[code] = g
      /\ \A c \in DOMAIN granted : granted'[c] = granted[c]
  BY DEF IssueCode, Put
<1>5. TokenTypeOK'
  <2>1. IsMap(authCodes, Codes, AuthCodeData) /\ IsMap(granted, Codes, Grant)
    BY DEF TokenInv, TokenTypeOK
  <2>2. IsMap(authCodes', Codes, AuthCodeData)
    BY <1>2, <2>1, PutIsMap, Zenon DEF IssueCode
  <2>3. IsMap(granted', Codes, Grant)
    BY <1>1, <2>1, PutIsMap, Zenon DEF IssueCode
  <2> QED
    BY <2>2, <2>3
    DEF TokenInv, TokenTypeOK, IssueCode, tokenStore, tokenHistory
<1>6. UNCHANGED <<now, issuedJTIByCode, revokedJTIs, treq, minted, denylist,
                  answered, late, reused, revoked>>
  BY Zenon DEF IssueCode, tokenStore, tokenHistory
<1>7. \A j \in DOMAIN minted : minted[j].code \in DOMAIN granted
  BY Zenon DEF TokenInv, TokenMatchesGrant
<1>8. CodesUnspent'
  <2>1. d.client = g.client /\ d.record = g.record /\ d.jkt = g.jkt
    OBVIOUS
  <2> HIDE DEF d
  <2>2. \A j \in DOMAIN minted : minted[j].code # code
    BY <1>4, <1>7, Zenon
  <2>3. ASSUME NEW c \in DOMAIN authCodes'
        PROVE  /\ c \in DOMAIN granted'
               /\ authCodes'[c].client = granted'[c].client
               /\ authCodes'[c].record = granted'[c].record
               /\ authCodes'[c].jkt = granted'[c].jkt
               /\ \A j \in DOMAIN minted : minted[j].code # c
    <3>1. CASE c = code
      BY <1>3, <1>4, <2>1, <2>2, <3>1, Zenon
    <3>2. CASE c # code
      BY <1>3, <1>4, <3>2, Zenon DEF TokenInv, CodesUnspent
    <3> QED
      BY <3>1, <3>2, Zenon
  <2> QED
    BY <1>6, <2>3, Zenon DEF CodesUnspent
<1>9. MintersExclusive'
  <2>1. ASSUME NEW t \in TokenThreads, treq[t].pc = "mint"
        PROVE  /\ treq[t].code \in DOMAIN granted'
               /\ treq[t].code \notin DOMAIN authCodes'
               /\ granted'[treq[t].code] = granted[treq[t].code]
    BY <1>3, <1>4, <2>1, Zenon DEF TokenInv, MintersExclusive
  <2> QED
    BY <1>6, <2>1 DEF TokenInv, MintersExclusive
<1>10. TokenMatchesGrant'
  BY <1>4, <1>6, <1>7 DEF TokenInv, TokenMatchesGrant
<1>11. JTIsLinked' /\ RevokedPublished' /\ OneTokenPerCode'
  BY <1>6, Zenon DEF TokenInv, JTIsLinked, RevokedPublished, OneTokenPerCode
<1>12. AnsweredAccounted' /\ LateReuseRevokes'
  BY <1>6, Zenon DEF TokenInv, AnsweredAccounted, Accounted, LateReuseRevokes
<1> QED
  BY <1>5, <1>8, <1>9, <1>10, <1>11, <1>12, Zenon DEF TokenInv

\* A code leaves the store with the request that takes it, whatever becomes
\* of that request.
LEMMA ConsumeAuthCodeInv ==
  ASSUME TokenInv, NEW t \in TokenThreads, NEW code \in DOMAIN granted,
         NEW in \in TokenInputs, ConsumeAuthCode(t, code, in)
  PROVE  TokenInv'
<1> USE DEF NoValue
<1>1. /\ code \in Codes
      /\ in.attested \in Clients
      /\ in.proof \in Keys
  BY TokenInputsAssumption, Zenon
  DEF TokenInv, TokenTypeOK, IsMap, ConsumeAuthCode, Authentic, TokenInput
<1>2. /\ DOMAIN authCodes' = DOMAIN authCodes \ {code}
      /\ \A c \in DOMAIN authCodes' : authCodes'[c] = authCodes[c]
  BY Zenon DEF ConsumeAuthCode, DropAuthCode, Delete, Restrict
<1> DEFINE Started(pc, record, outcome) ==
             [pc |-> pc, code |-> code, client |-> in.attested,
              key |-> in.proof, record |-> record, jti |-> NoValue,
              outcome |-> outcome]
<1>3. \/ /\ treq' = [treq EXCEPT ![t] = Started("revoke", NoValue, NoValue)]
         /\ code \in DOMAIN issuedJTIByCode
      \/ /\ treq' = [treq EXCEPT ![t] =
                        Started("done", NoValue, "invalid_grant")]
         /\ code \in DOMAIN authCodes \/ code \notin DOMAIN issuedJTIByCode
      \/ /\ treq' = [treq EXCEPT ![t] =
                        Started("mint", authCodes[code].record, NoValue)]
         /\ code \in DOMAIN authCodes
         /\ GrantMatches(authCodes[code], in)
  BY Zenon DEF ConsumeAuthCode, WasIssued, AuthCodeLive
<1>4. /\ treq' \in [TokenThreads -> TokenRequest]
      /\ \A u \in TokenThreads : u # t => treq'[u] = treq[u]
      /\ treq'[t].code = code
      /\ treq'[t].client = in.attested
      /\ treq'[t].key = in.proof
      /\ \/ /\ treq'[t].pc = "revoke"
            /\ code \in DOMAIN issuedJTIByCode
         \/ /\ treq'[t].pc = "done" /\ treq'[t].outcome = "invalid_grant"
            /\ code \in DOMAIN authCodes \/ code \notin DOMAIN issuedJTIByCode
         \/ /\ treq'[t].pc = "mint"
            /\ treq'[t].record = authCodes[code].record
            /\ code \in DOMAIN authCodes
            /\ GrantMatches(authCodes[code], in)
  <2>1. treq \in [TokenThreads -> TokenRequest]
    BY DEF TokenInv, TokenTypeOK
  <2>2. /\ Started("revoke", NoValue, NoValue) \in TokenRequest
        /\ Started("done", NoValue, "invalid_grant") \in TokenRequest
    BY <1>1, Zenon DEF TokenRequest
  <2>3. code \in DOMAIN authCodes =>
          Started("mint", authCodes[code].record, NoValue) \in TokenRequest
    BY <1>1, Zenon DEF TokenRequest, TokenInv, TokenTypeOK, IsMap, AuthCodeData
  <2>4. PICK r \in TokenRequest :
          /\ treq' = [treq EXCEPT ![t] = r]
          /\ r.code = code /\ r.client = in.attested /\ r.key = in.proof
          /\ \/ /\ r.pc = "revoke"
                /\ code \in DOMAIN issuedJTIByCode
             \/ /\ r.pc = "done" /\ r.outcome = "invalid_grant"
                /\ code \in DOMAIN authCodes \/ code \notin DOMAIN issuedJTIByCode
             \/ /\ r.pc = "mint" /\ r.record = authCodes[code].record
                /\ code \in DOMAIN authCodes
                /\ GrantMatches(authCodes[code], in)
    <3>1. CASE /\ treq' = [treq EXCEPT ![t] = Started("revoke", NoValue, NoValue)]
               /\ code \in DOMAIN issuedJTIByCode
      BY <2>2, <3>1, Zenon
    <3>2. CASE /\ treq' = [treq EXCEPT ![t] =
                             Started("done", NoValue, "invalid_grant")]
               /\ code \in DOMAIN authCodes \/ code \notin DOMAIN issuedJTIByCode
      BY <2>2, <3>2, Zenon
    <3>3. CASE /\ treq' = [treq EXCEPT ![t] =
                             Started("mint", authCodes[code].record, NoValue)]
               /\ code \in DOMAIN authCodes
               /\ GrantMatches(authCodes[code], in)
      BY <2>3, <3>3, Zenon
    <3> QED
      BY <1>3, <3>1, <3>2, <3>3, Zenon
  <2> QED
    BY <2>1, <2>4
<1>5. /\ UNCHANGED <<now, issuedJTIByCode, revokedJTIs, minted, denylist,
                     granted, answered, revoked>>
      /\ reused' \subseteq reused \cup {code}
      /\ late' = IF code \in answered THEN late \cup {t} ELSE late
  BY Zenon DEF ConsumeAuthCode, tokenStore
<1>7. TokenTypeOK'
  <2>1. IsMap(authCodes', Codes, AuthCodeData)
    BY DeleteIsMap, Zenon DEF TokenInv, TokenTypeOK, ConsumeAuthCode, DropAuthCode
  <2> QED
    BY <1>1, <1>4, <1>5, <2>1 DEF TokenInv, TokenTypeOK
<1>8. CodesUnspent'
  BY <1>2, <1>5, Zenon DEF TokenInv, CodesUnspent
<1>9. MintersExclusive'
  <2> SUFFICES ASSUME NEW u \in TokenThreads, treq'[u].pc = "mint"
               PROVE  /\ treq'[u].code \in DOMAIN granted
                      /\ treq'[u].code \notin DOMAIN authCodes'
                      /\ treq'[u].client \in Clients /\ treq'[u].key \in Keys
                      /\ treq'[u].record \in RecordIDs
                      /\ HoldsGrant(treq'[u], granted[treq'[u].code])
                      /\ \A j \in DOMAIN minted : minted[j].code # treq'[u].code
                      /\ \A v \in TokenThreads :
                           treq'[v].pc = "mint" /\ treq'[v].code = treq'[u].code
                             => v = u
    BY <1>5, Zenon DEF MintersExclusive, HoldsGrant
  <2>1. \A v \in TokenThreads \ {t} :
          treq'[v].pc = "mint" => treq'[v].code \notin DOMAIN authCodes
    BY <1>4 DEF TokenInv, MintersExclusive
  <2>2. CASE u = t
    <3>1. /\ code \in DOMAIN authCodes
          /\ GrantMatches(authCodes[code], in)
          /\ treq'[t].record = authCodes[code].record
      BY <1>4, <2>2
    <3>2. authCodes[code].record \in RecordIDs
      BY <3>1, Zenon DEF TokenInv, TokenTypeOK, IsMap, AuthCodeData
    <3>3. HoldsGrant(treq'[t], granted[code])
      BY <1>4, <3>1, Zenon DEF TokenInv, CodesUnspent, HoldsGrant, GrantMatches
    <3> QED
      BY <1>1, <1>2, <1>4, <2>1, <2>2, <3>1, <3>2, <3>3, Zenon
      DEF TokenInv, CodesUnspent
  <2>3. CASE u # t
    BY <1>2, <1>4, <2>1, <2>3 DEF TokenInv, MintersExclusive
  <2> QED
    BY <2>2, <2>3
<1>10. JTIsLinked'
  BY <1>4, <1>5, Zenon DEF TokenInv, JTIsLinked
<1>11. code \in answered => code \notin DOMAIN authCodes
  BY DEF TokenInv, AnsweredAccounted, Accounted, CodesUnspent, JTIsLinked,
         RevokedPublished
<1>12. t \notin late
  BY Zenon DEF TokenInv, AnsweredAccounted, ConsumeAuthCode
<1>13. /\ \A c : Accounted(c)' = Accounted(c)
       /\ late \subseteq TokenThreads
       /\ \A u \in late : u # t /\ treq'[u] = treq[u]
       /\ \A u \in late' : u \in late \/ (u = t /\ code \in answered)
  <2>1. \A c : Accounted(c)' = Accounted(c)
    BY <1>5, Zenon DEF Accounted
  <2>2. late \subseteq TokenThreads
    BY Zenon DEF TokenInv, TokenTypeOK
  <2>3. \A u \in late' : u \in late \/ (u = t /\ code \in answered)
    BY <1>5, Zenon
  <2> QED
    BY <1>4, <1>12, <2>1, <2>2, <2>3, Zenon
<1>14. code \in answered =>
         \/ treq'[t].pc = "revoke"
         \/ treq'[t].pc = "done" /\ \E j \in revoked : minted[j].code = code
  <2>1. code \in answered => Accounted(code)
    BY Zenon DEF TokenInv, AnsweredAccounted
  <2> QED
    BY <1>4, <1>11, <2>1, Zenon DEF Accounted
<1>15. AnsweredAccounted'
  <2>1. \A u \in TokenThreads :
          treq'[u].pc = "done" /\ treq'[u].outcome = "token" => treq'[u] = treq[u]
    BY <1>4, Zenon
  <2>2. ASSUME NEW u \in late'
        PROVE  treq'[u].code \in answered /\ treq'[u].pc \in {"revoke", "done"}
    <3>1. CASE u \in late
      BY <1>13, <3>1, Zenon DEF TokenInv, AnsweredAccounted
    <3>2. CASE u = t /\ code \in answered
      BY <1>4, <1>14, <3>2, Zenon
    <3> QED
      BY <1>13, <3>1, <3>2, Zenon
  <2>3. \A c : Accounted(c)' = Accounted(c)
    BY <1>13, Zenon
  <2>4. ASSUME NEW u \in TokenThreads,
               treq'[u].pc = "done", treq'[u].outcome = "token"
        PROVE  treq'[u].code \in Codes /\ Accounted(treq[u].code)'
    BY <2>1, <2>3, <2>4, Zenon DEF TokenInv, AnsweredAccounted
  <2> QED
    BY <1>5, <2>2, <2>3, <2>4, Zenon DEF TokenInv, AnsweredAccounted
<1>16. LateReuseRevokes'
  <2>1. ASSUME NEW u \in late', treq'[u].pc = "done"
        PROVE  \E j \in revoked : minted[j].code = treq'[u].code
    <3>1. CASE u \in late
      BY <1>13, <2>1, <3>1, Zenon DEF TokenInv, LateReuseRevokes
    <3>2. CASE u = t /\ code \in answered
      BY <1>4, <1>14, <2>1, <3>2, Zenon
    <3> QED
      BY <1>13, <3>1, <3>2, Zenon
  <2> QED
    BY <1>5, <2>1, Zenon DEF LateReuseRevokes
<1> QED
  BY <1>5, <1>7, <1>8, <1>9, <1>10, <1>15, <1>16, Zenon
  DEF TokenInv, RevokedPublished, OneTokenPerCode, TokenMatchesGrant

\* A token is minted by the one request that holds its code.
LEMMA MintInv ==
  ASSUME TokenInv, NEW t \in TokenThreads, NEW jti \in JTIs, Mint(t, jti)
  PROVE  TokenInv'
<1> DEFINE r == treq[t]
           claims == [code |-> r.code, client |-> r.client, key |-> r.key,
                      record |-> r.record, exp |-> now + TokenTTL]
<1>1. /\ treq \in [TokenThreads -> TokenRequest]
      /\ r.pc = "mint"
      /\ r.code \in Codes
      /\ now \in Nat
  BY Zenon DEF TokenInv, TokenTypeOK, IsMap, Mint, MintersExclusive
<1>2. claims \in Token
  BY <1>1, TokenTimeAssumption
  DEF TokenInv, MintersExclusive, Token
<1>3. /\ jti \notin DOMAIN minted
      /\ DOMAIN minted' = DOMAIN minted \cup {jti}
      /\ minted'[jti] = claims
      /\ \A j \in DOMAIN minted : minted'[j] = minted[j]
  BY DEF Mint, Put
<1>4. /\ treq' \in [TokenThreads -> TokenRequest]
      /\ \A u \in TokenThreads : u # t => treq'[u] = treq[u]
      /\ treq'[t].pc = "record" /\ treq'[t].jti = jti
      /\ treq'[t].code = r.code
  <2> DEFINE n == [r EXCEPT !.pc = "record", !.jti = jti]
  <2>1. r \in TokenRequest
    BY <1>1
  <2>2. n \in TokenRequest
    BY <2>1, Zenon DEF TokenRequest
  <2>3. n.pc = "record" /\ n.jti = jti /\ n.code = r.code
    BY <2>1, Zenon DEF TokenRequest
  <2>4. treq' = [treq EXCEPT ![t] = n]
    BY <1>1, Zenon DEF Mint
  <2> HIDE DEF n
  <2> QED
    BY <1>1, <2>2, <2>3, <2>4
<1>5. UNCHANGED <<now, authCodes, issuedJTIByCode, revokedJTIs, denylist,
                  granted, answered, late, reused, revoked>>
  BY Zenon DEF Mint, tokenStore, tokenHistory
<1>6. TokenTypeOK'
  <2>1. IsMap(minted', JTIs, Token)
    BY <1>2, PutIsMap, Zenon DEF TokenInv, TokenTypeOK, Mint
  <2> QED
    BY <1>4, <1>5, <2>1 DEF TokenInv, TokenTypeOK
<1>7. /\ minted'[jti].code = r.code /\ minted'[jti].client = r.client
      /\ minted'[jti].key = r.key /\ minted'[jti].record = r.record
      /\ minted'[jti].exp = now + TokenTTL
  BY <1>3
<1>8. /\ r.code \in DOMAIN granted /\ r.code \notin DOMAIN authCodes
      /\ HoldsGrant(r, granted[r.code])
      /\ \A j \in DOMAIN minted : minted[j].code # r.code
      /\ \A u \in TokenThreads \ {t} :
           treq[u].pc = "mint" => treq[u].code # r.code
  BY <1>1, Zenon DEF TokenInv, MintersExclusive
<1>9. \A j \in DOMAIN minted' :
        \/ j = jti
        \/ j \in DOMAIN minted /\ minted'[j] = minted[j]
  BY <1>3, Zenon
<1> HIDE DEF claims
<1>10. CodesUnspent'
  <2>1. \A c \in DOMAIN authCodes : \A j \in DOMAIN minted' : minted'[j].code # c
    BY <1>7, <1>8, <1>9 DEF TokenInv, CodesUnspent
  <2> QED
    BY <1>5, <2>1, Zenon DEF TokenInv, CodesUnspent
<1>11. MintersExclusive'
  <2>1. MintersExclusive
    BY Zenon DEF TokenInv
  <2>2. \A u \in TokenThreads :
          treq'[u].pc = "mint" =>
            /\ u # t /\ treq'[u] = treq[u]
            /\ \A j \in DOMAIN minted' : minted'[j].code # treq[u].code
    BY <1>4, <1>7, <1>8, <1>9, <2>1 DEF MintersExclusive
  <2> QED
    BY <1>5, <2>1, <2>2 DEF MintersExclusive
<1>12. JTIsLinked'
  <2>1. \A j \in DOMAIN minted : j \in DOMAIN minted' /\ minted'[j] = minted[j]
    BY <1>3, Zenon
  <2>2. JTIsLinked /\ jti \in DOMAIN minted'
    BY <1>3, Zenon DEF TokenInv
  <2>3. ASSUME NEW u \in TokenThreads, treq'[u].pc = "record"
        PROVE  /\ treq'[u].code \in Codes
               /\ treq'[u].jti \in DOMAIN minted'
               /\ minted'[treq'[u].jti].code = treq'[u].code
    <3>1. CASE u = t
      BY <1>1, <1>4, <1>7, <2>2, <3>1, Zenon
    <3>2. CASE u # t
      <4>1. treq'[u] = treq[u] /\ treq[u].pc = "record"
        BY <1>4, <2>3, <3>2, Zenon
      <4>2. /\ treq[u].code \in Codes /\ treq[u].jti \in DOMAIN minted
            /\ minted[treq[u].jti].code = treq[u].code
        BY <2>2, <4>1, Zenon DEF JTIsLinked
      <4> QED
        BY <2>1, <4>1, <4>2, Zenon
    <3> QED
      BY <3>1, <3>2, Zenon
  <2>4. \A c \in DOMAIN issuedJTIByCode :
          /\ issuedJTIByCode[c] \in DOMAIN minted'
          /\ minted'[issuedJTIByCode[c]].code = c
    BY <2>1, <2>2, Zenon DEF JTIsLinked
  <2> QED
    BY <1>5, <2>3, <2>4, Zenon DEF JTIsLinked
<1>13. RevokedPublished'
  <2>1. \A j \in DOMAIN minted' : minted'[j].exp <= now + TokenTTL
    <3>1. \A j \in DOMAIN minted : minted[j].exp <= now + TokenTTL
      BY Zenon DEF TokenInv, RevokedPublished
    <3>2. now + TokenTTL <= now + TokenTTL
      BY <1>1, TokenTimeAssumption
    <3> QED
      BY <1>7, <1>9, <3>1, <3>2, Zenon
  <2>2. \A j \in DOMAIN minted : j \in DOMAIN minted' /\ minted'[j] = minted[j]
    BY <1>3, Zenon
  <2> QED
    BY <1>5, <2>1, <2>2, Zenon DEF TokenInv, RevokedPublished
<1>14. \A c \in Codes : Accounted(c) => Accounted(c)'
  <2>1. revoked \subseteq DOMAIN minted
    BY Zenon DEF TokenInv, RevokedPublished
  <2>2. \A j \in DOMAIN minted : minted'[j] = minted[j]
    BY <1>3, Zenon
  <2> QED
    BY <1>3, <1>5, <2>1, <2>2, Zenon DEF Accounted
<1>15. t \notin late
  BY <1>1, Zenon DEF TokenInv, AnsweredAccounted
<1>16. AnsweredAccounted'
  BY <1>4, <1>5, <1>14, <1>15, Zenon DEF TokenInv, TokenTypeOK, AnsweredAccounted
<1>17. OneTokenPerCode'
  <2>1. ASSUME NEW j \in DOMAIN minted', NEW k \in DOMAIN minted',
               minted'[j].code = minted'[k].code
        PROVE  j = k
    <3>1. CASE j = jti \/ k = jti
      BY <1>7, <1>8, <1>9, <2>1, <3>1, Zenon
    <3>2. CASE j # jti /\ k # jti
      BY <1>9, <2>1, <3>2, Zenon DEF TokenInv, OneTokenPerCode
    <3> QED
      BY <3>1, <3>2, Zenon
  <2> QED
    BY <2>1, Zenon DEF OneTokenPerCode
<1>18. TokenMatchesGrant'
  <2>1. \A j \in DOMAIN minted :
          /\ minted[j].code \in DOMAIN granted
          /\ minted[j].client = granted[minted[j].code].client
          /\ minted[j].record = granted[minted[j].code].record
          /\ granted[minted[j].code].jkt \in {NoValue, minted[j].key}
    BY Zenon DEF TokenInv, TokenMatchesGrant
  <2>2. ASSUME NEW j \in DOMAIN minted'
        PROVE  /\ minted'[j].code \in DOMAIN granted
               /\ minted'[j].client = granted[minted'[j].code].client
               /\ minted'[j].record = granted[minted'[j].code].record
               /\ granted[minted'[j].code].jkt \in {NoValue, minted'[j].key}
    <3>1. /\ r.client = granted[r.code].client
          /\ r.record = granted[r.code].record
          /\ granted[r.code].jkt \in {NoValue, r.key}
      BY <1>8, Zenon DEF HoldsGrant
    <3>2. CASE j = jti
      BY <1>7, <1>8, <3>1, <3>2, Zenon
    <3>3. CASE j \in DOMAIN minted /\ minted'[j] = minted[j]
      BY <2>1, <3>3, Zenon
    <3> QED
      BY <1>9, <3>2, <3>3, Zenon
  <2> QED
    BY <1>5, <2>2, Zenon DEF TokenMatchesGrant
<1>19. LateReuseRevokes'
  <2>1. late \subseteq TokenThreads /\ revoked \subseteq DOMAIN minted
    BY Zenon DEF TokenInv, TokenTypeOK, RevokedPublished
  <2>2. \A u \in late : treq'[u] = treq[u]
    BY <1>4, <1>15, <2>1, Zenon
  <2>3. \A j \in revoked : minted'[j] = minted[j]
    BY <1>3, <2>1, Zenon
  <2> QED
    BY <1>5, <2>2, <2>3 DEF TokenInv, LateReuseRevokes
<1> QED
  BY <1>6, <1>10, <1>11, <1>12, <1>13, <1>16, <1>17, <1>18, <1>19, Zenon DEF TokenInv

-----------------------------------------------------------------------------
\* Answering a request changes its pc and its outcome and nothing else.
LEMMA TokenAnswerFacts ==
  ASSUME treq \in [TokenThreads -> TokenRequest], NEW t \in TokenThreads,
         NEW o \in {"token", "invalid_grant", "invalid_request"},
         treq' = [treq EXCEPT ![t].pc = "done", ![t].outcome = o]
  PROVE  /\ treq' \in [TokenThreads -> TokenRequest]
         /\ \A u \in TokenThreads : u # t => treq'[u] = treq[u]
         /\ treq'[t].pc = "done" /\ treq'[t].outcome = o
         /\ treq'[t].code = treq[t].code
<1> DEFINE r == [treq[t] EXCEPT !.pc = "done", !.outcome = o]
<1>1. treq[t] \in TokenRequest
  OBVIOUS
<1>2. r \in TokenRequest
  BY <1>1, Zenon DEF TokenRequest
<1>3. r.pc = "done" /\ r.outcome = o /\ r.code = treq[t].code
  BY <1>1 DEF TokenRequest
<1>4. treq' = [treq EXCEPT ![t] = r]
  BY <1>1, Zenon
<1> HIDE DEF r
<1> QED
  BY <1>2, <1>3, <1>4, ZenonT(40)

\* When signing fails the code stays spent.
LEMMA MintFailsInv ==
  ASSUME TokenInv, NEW t \in TokenThreads, MintFails(t)
  PROVE  TokenInv'
<1>1. /\ treq' \in [TokenThreads -> TokenRequest]
      /\ \A u \in TokenThreads : u # t => treq'[u] = treq[u]
      /\ treq'[t].pc = "done" /\ treq'[t].outcome = "invalid_request"
      /\ treq[t].pc = "mint"
  BY TokenAnswerFacts, Zenon DEF TokenInv, TokenTypeOK, MintFails
<1>2. UNCHANGED <<now, authCodes, issuedJTIByCode, revokedJTIs, minted,
                  denylist, granted, answered, late, reused, revoked>>
  BY DEF MintFails, tokenStore, tokenHistory
<1>3. t \notin late
  BY <1>1, Zenon DEF TokenInv, AnsweredAccounted
<1>4. /\ CodesUnspent' /\ OneTokenPerCode' /\ TokenMatchesGrant'
      /\ MintersExclusive'
  <2>1. \A u \in TokenThreads : treq'[u].pc = "mint" => treq'[u] = treq[u]
    BY <1>1, Zenon
  <2> QED
    BY <1>2, <2>1, TokensKept, Zenon
<1>5. JTIsLinked'
  BY <1>1, <1>2, Zenon DEF TokenInv, JTIsLinked
<1>6. AnsweredAccounted' /\ LateReuseRevokes'
  <2>1. treq'[t].outcome # "token"
    BY <1>1, Zenon
  <2> QED
    BY <1>1, <1>2, <1>3, <2>1, LateKept, Zenon
<1>7. TokenTypeOK' /\ RevokedPublished'
  BY <1>1, <1>2, Zenon DEF TokenInv, TokenTypeOK, RevokedPublished
<1> QED
  BY <1>4, <1>5, <1>6, <1>7, Zenon DEF TokenInv

\* From here on a reuse of the code finds its token.
LEMMA RecordIssuedJTIInv ==
  ASSUME TokenInv, NEW t \in TokenThreads, RecordIssuedJTI(t)
  PROVE  TokenInv'
<1>1. /\ treq' \in [TokenThreads -> TokenRequest]
      /\ \A u \in TokenThreads : u # t => treq'[u] = treq[u]
      /\ treq'[t].pc = "done" /\ treq'[t].code = treq[t].code
      /\ treq[t].pc = "record"
  BY TokenAnswerFacts, Zenon DEF TokenInv, TokenTypeOK, RecordIssuedJTI
<1>2. UNCHANGED <<now, authCodes, revokedJTIs, minted, denylist, granted,
                  answered, late, reused, revoked>>
  BY Zenon DEF RecordIssuedJTI, tokenHistory
<1>3. /\ treq[t].code \in Codes
      /\ treq[t].jti \in DOMAIN minted
      /\ treq[t].jti \in JTIs
      /\ minted[treq[t].jti].code = treq[t].code
  BY <1>1 DEF TokenInv, TokenTypeOK, IsMap, JTIsLinked
<1>4. /\ DOMAIN issuedJTIByCode' = DOMAIN issuedJTIByCode \cup {treq[t].code}
      /\ issuedJTIByCode'[treq[t].code] = treq[t].jti
      /\ \A c \in DOMAIN issuedJTIByCode :
           c # treq[t].code => issuedJTIByCode'[c] = issuedJTIByCode[c]
  BY Zenon DEF RecordIssuedJTI, IssuedJTI, Put
<1>5. TokenTypeOK'
  <2>1. IsMap(issuedJTIByCode', Codes, JTIs)
    BY <1>3, PutIsMap, Zenon DEF TokenInv, TokenTypeOK, RecordIssuedJTI, IssuedJTI
  <2> QED
    BY <1>1, <1>2, <2>1 DEF TokenInv, TokenTypeOK
<1>6. t \notin late
  BY <1>1, Zenon DEF TokenInv, AnsweredAccounted
<1>7. /\ CodesUnspent' /\ OneTokenPerCode' /\ TokenMatchesGrant'
      /\ MintersExclusive'
  <2>1. \A u \in TokenThreads : treq'[u].pc = "mint" => treq'[u] = treq[u]
    BY <1>1, Zenon
  <2> QED
    BY <1>2, <2>1, TokensKept, Zenon
<1>8. JTIsLinked'
  BY <1>1, <1>2, <1>3, <1>4, Zenon DEF TokenInv, JTIsLinked
<1>9. AnsweredAccounted' /\ LateReuseRevokes'
  <2>1. treq'[t].code \in DOMAIN issuedJTIByCode'
    BY <1>1, <1>4, Zenon
  <2>2. DOMAIN issuedJTIByCode \subseteq DOMAIN issuedJTIByCode'
    BY <1>4, Zenon
  <2>3. treq'[t].code \in Codes /\ Accounted(treq[t].code)'
    BY <1>1, <1>3, <2>1, Zenon DEF Accounted
  <2> QED
    BY <1>1, <1>2, <1>6, <2>2, <2>3, LateKept, Zenon
<1>10. RevokedPublished'
  BY <1>2, Zenon DEF TokenInv, RevokedPublished
<1> QED
  BY <1>5, <1>7, <1>8, <1>9, <1>10, Zenon DEF TokenInv

\* A reuse moves the code's token to the denylist for as long as it lives.
LEMMA RevokeTokensForCodeInv ==
  ASSUME TokenInv, NEW t \in TokenThreads, RevokeTokensForCode(t)
  PROVE  TokenInv'
<1> DEFINE code == treq[t].code
           jti  == issuedJTIByCode[code]
<1>1. /\ treq' \in [TokenThreads -> TokenRequest]
      /\ \A u \in TokenThreads : u # t => treq'[u] = treq[u]
      /\ treq'[t].pc = "done" /\ treq'[t].outcome = "invalid_grant"
      /\ treq'[t].code = code
      /\ treq[t].pc = "revoke"
  BY TokenAnswerFacts, Zenon DEF TokenInv, TokenTypeOK, RevokeTokensForCode
<1>2. UNCHANGED <<now, authCodes, minted, denylist, granted, answered, late,
                  reused>>
  BY Zenon DEF RevokeTokensForCode
<1>3. /\ CodesUnspent' /\ OneTokenPerCode' /\ TokenMatchesGrant'
      /\ MintersExclusive'
  <2>1. \A u \in TokenThreads : treq'[u].pc = "mint" => treq'[u] = treq[u]
    BY <1>1, Zenon
  <2> QED
    BY <1>2, <2>1, TokensKept, Zenon
<1>4. CASE WasIssued(code)
  <2>1. /\ issuedJTIByCode' = Delete(issuedJTIByCode, code)
        /\ revokedJTIs' = Put(revokedJTIs, jti, PublishedUntil)
        /\ revoked' = revoked \cup {jti}
    BY <1>4 DEF RevokeTokensForCode
  <2>2. code \in DOMAIN issuedJTIByCode
    BY <1>4, Zenon DEF WasIssued
  <2>3. /\ jti \in DOMAIN minted /\ minted[jti].code = code
        /\ jti \in JTIs
    BY <2>2, Zenon DEF TokenInv, JTIsLinked, TokenTypeOK, IsMap
  <2>4. /\ DOMAIN issuedJTIByCode' = DOMAIN issuedJTIByCode \ {code}
        /\ \A c \in DOMAIN issuedJTIByCode' :
             issuedJTIByCode'[c] = issuedJTIByCode[c]
    BY <2>1, Zenon DEF Delete, Restrict
  <2>5. /\ DOMAIN revokedJTIs' = DOMAIN revokedJTIs \cup {jti}
        /\ revokedJTIs'[jti] = PublishedUntil
        /\ \A j \in DOMAIN revokedJTIs : j # jti => revokedJTIs'[j] = revokedJTIs[j]
    BY <2>1 DEF Put
  <2>6. /\ PublishedUntil \in Nat
        /\ \A j \in DOMAIN minted : minted[j].exp <= PublishedUntil
    <3>1. now \in Nat /\ \A j \in DOMAIN minted : minted[j].exp \in Nat
      BY DEF TokenInv, TokenTypeOK, IsMap, Token
    <3>2. \A j \in DOMAIN minted : minted[j].exp <= now + TokenTTL
      BY Zenon DEF TokenInv, RevokedPublished
    <3> QED
      BY <3>1, <3>2, TokenTimeAssumption, RetentionAssumption
      DEF PublishedUntil
  <2>7. TokenTypeOK'
    <3>1. IsMap(issuedJTIByCode', Codes, JTIs)
      BY <2>1, DeleteIsMap, Zenon DEF TokenInv, TokenTypeOK
    <3>2. IsMap(revokedJTIs', JTIs, Nat)
      BY <2>1, <2>3, <2>6, PutIsMap, Zenon DEF TokenInv, TokenTypeOK
    <3>3. revoked' \subseteq JTIs
      BY <2>1, <2>3, Zenon DEF TokenInv, TokenTypeOK
    <3> QED
      BY <1>1, <1>2, <3>1, <3>2, <3>3, Zenon DEF TokenInv, TokenTypeOK
  <2>8. JTIsLinked'
    BY <1>1, <1>2, <2>4, Zenon DEF TokenInv, JTIsLinked
  <2>9. RevokedPublished'
    BY <1>2, <2>1, <2>3, <2>5, <2>6, Zenon DEF TokenInv, RevokedPublished
  <2>10. \A c \in Codes : Accounted(c) => Accounted(c)'
    BY <1>2, <2>1, <2>3, <2>4, Zenon DEF Accounted
  <2>11. AnsweredAccounted'
    BY <1>1, <1>2, <2>10, Zenon DEF TokenInv, TokenTypeOK, AnsweredAccounted
  <2>12. LateReuseRevokes'
    BY <1>1, <1>2, <2>1, <2>3 DEF TokenInv, TokenTypeOK, LateReuseRevokes
  <2> QED
    BY <1>3, <2>7, <2>8, <2>9, <2>11, <2>12, Zenon DEF TokenInv
<1>5. CASE ~WasIssued(code)
  <2>1. UNCHANGED <<issuedJTIByCode, revokedJTIs, revoked>>
    BY <1>5, Zenon DEF RevokeTokensForCode, tokenStore
  <2>2. JTIsLinked'
    BY <1>1, <1>2, <2>1, Zenon DEF TokenInv, JTIsLinked
  <2>3. AnsweredAccounted'
    <3>1. \A c : Accounted(c)' = Accounted(c)
      BY <1>2, <2>1, Zenon DEF Accounted
    <3> QED
      BY <1>1, <1>2, <3>1, Zenon DEF TokenInv, TokenTypeOK, AnsweredAccounted
  <2>4. t \in late => \E j \in revoked : minted[j].code = code
    BY <1>5, Zenon DEF TokenInv, AnsweredAccounted, Accounted, WasIssued
  <2>5. LateReuseRevokes'
    BY <1>1, <1>2, <2>1, <2>4 DEF TokenInv, TokenTypeOK, LateReuseRevokes
  <2>6. TokenTypeOK' /\ RevokedPublished'
    BY <1>1, <1>2, <2>1, Zenon DEF TokenInv, TokenTypeOK, RevokedPublished
  <2> QED
    BY <1>3, <2>2, <2>3, <2>5, <2>6, Zenon DEF TokenInv
<1> QED
  BY <1>4, <1>5

\* A token is sent only once it has been recorded.
LEMMA TokenReplyInv ==
  ASSUME TokenInv, NEW t \in TokenThreads, TokenReply(t)
  PROVE  TokenInv'
<1>1. TokenIdle \in TokenRequest
  BY Zenon DEF TokenIdle, TokenRequest
<1>2. /\ treq' \in [TokenThreads -> TokenRequest]
      /\ \A u \in TokenThreads : u # t => treq'[u] = treq[u]
      /\ treq'[t] = TokenIdle
  BY <1>1, Zenon DEF TokenInv, TokenTypeOK, TokenReply
<1>3. treq'[t].pc = "idle"
  BY <1>2 DEF TokenIdle
<1>4. /\ UNCHANGED <<now, authCodes, issuedJTIByCode, revokedJTIs, minted,
                     denylist, granted, reused, revoked>>
      /\ late' = late \ {t}
      /\ answered' = IF treq[t].outcome = "token"
                       THEN answered \cup {treq[t].code} ELSE answered
      /\ treq[t].pc = "done"
  BY Zenon DEF TokenReply, tokenStore
<1>5. treq[t].outcome = "token" =>
        treq[t].code \in Codes /\ Accounted(treq[t].code)
  BY <1>4, Zenon DEF TokenInv, AnsweredAccounted
<1>6. TokenTypeOK'
  BY <1>2, <1>4, <1>5, Zenon DEF TokenInv, TokenTypeOK
<1>7. /\ CodesUnspent' /\ OneTokenPerCode' /\ TokenMatchesGrant'
      /\ MintersExclusive'
  <2>1. \A u \in TokenThreads : treq'[u].pc = "mint" => treq'[u] = treq[u]
    BY <1>2, <1>3, Zenon
  <2> QED
    BY <1>4, <2>1, TokensKept, Zenon
<1>8. JTIsLinked'
  BY <1>2, <1>3, <1>4, Zenon DEF TokenInv, JTIsLinked
<1>9. \A c \in Codes : Accounted(c) => Accounted(c)'
  BY <1>4, Zenon DEF Accounted
<1>10. AnsweredAccounted'
  BY <1>2, <1>3, <1>4, <1>5, <1>9, Zenon DEF TokenInv, TokenTypeOK, AnsweredAccounted
<1>11. LateReuseRevokes'
  BY <1>2, <1>4 DEF TokenInv, TokenTypeOK, LateReuseRevokes
<1>12. RevokedPublished'
  BY <1>4, Zenon DEF TokenInv, RevokedPublished
<1> QED
  BY <1>6, <1>7, <1>8, <1>10, <1>11, <1>12, Zenon DEF TokenInv

\* A poll drops only entries whose tokens have expired.
LEMMA RevokedJTIsInv ==
  ASSUME TokenInv, RevokedJTIs
  PROVE  TokenInv'
<1> DEFINE live == {j \in DOMAIN revokedJTIs : Published(j)}
<1>1. UNCHANGED <<now, authCodes, issuedJTIByCode, treq, minted, granted,
                  answered, late, reused, revoked>>
  BY Zenon DEF RevokedJTIs, tokenHistory
<1>2. /\ DOMAIN revokedJTIs' = live
      /\ \A j \in live : revokedJTIs'[j] = revokedJTIs[j]
      /\ IsMap(revokedJTIs', JTIs, Nat)
      /\ denylist' = live
  BY RestrictFacts DEF TokenInv, TokenTypeOK, RevokedJTIs
<1>3. TokenTypeOK'
  BY <1>1, <1>2, Zenon DEF TokenInv, TokenTypeOK, IsMap
<1>4. RevokedPublished'
  <2>1. \A j \in revoked :
          now <= minted[j].exp => j \in live /\ minted[j].exp <= revokedJTIs[j]
    BY DEF TokenInv, TokenTypeOK, IsMap, Token, RevokedPublished, Published
  <2> QED
    BY <1>1, <1>2, <2>1, Zenon DEF TokenInv, RevokedPublished
<1>5. /\ CodesUnspent' /\ OneTokenPerCode' /\ TokenMatchesGrant'
      /\ MintersExclusive'
  BY <1>1, TokensKept, Zenon
<1>6. AnsweredAccounted'
  BY <1>1, Zenon DEF TokenInv, AnsweredAccounted, Accounted
<1>7. JTIsLinked' /\ LateReuseRevokes'
  BY <1>1, Zenon DEF TokenInv, JTIsLinked, LateReuseRevokes
<1> QED
  BY <1>3, <1>4, <1>5, <1>6, <1>7, Zenon DEF TokenInv

\* The passing of time, and steps that change nothing.
LEMMA TokenTickInv ==
  ASSUME TokenInv, TokenTick \/ UNCHANGED tokenVars
  PROVE  TokenInv'
<1>1. /\ now \in Nat /\ now' \in Nat /\ now <= now'
      /\ UNCHANGED <<authCodes, issuedJTIByCode, revokedJTIs, treq, minted,
                     denylist, granted, answered, late, reused, revoked>>
  BY DEF TokenInv, TokenTypeOK, TokenTick, tokenVars, tokenStore, tokenHistory
<1>2. RevokedPublished'
  BY <1>1, TokenTimeAssumption
  DEF TokenInv, TokenTypeOK, IsMap, Token, RevokedPublished
<1>3. TokenTypeOK'
  BY <1>1, Zenon DEF TokenInv, TokenTypeOK
<1>4. /\ CodesUnspent' /\ OneTokenPerCode' /\ TokenMatchesGrant'
      /\ MintersExclusive'
  BY <1>1, TokensKept, Zenon
<1>5. AnsweredAccounted'
  BY <1>1, Zenon DEF TokenInv, AnsweredAccounted, Accounted
<1>6. JTIsLinked' /\ LateReuseRevokes'
  BY <1>1, Zenon DEF TokenInv, JTIsLinked, LateReuseRevokes
<1> QED
  BY <1>2, <1>3, <1>4, <1>5, <1>6, Zenon DEF TokenInv

\* A restart forgets codes and never brings one back.
LEMMA TokenRestartInv ==
  ASSUME TokenInv, TokenRestart
  PROVE  TokenInv'
<1>1. UNCHANGED <<now, minted, denylist, granted>>
  BY Zenon DEF TokenRestart
<1>2. /\ DOMAIN authCodes' = {} /\ IsMap(authCodes', Codes, AuthCodeData)
      /\ DOMAIN issuedJTIByCode' = {} /\ IsMap(issuedJTIByCode', Codes, JTIs)
      /\ IsMap(revokedJTIs', JTIs, Nat)
      /\ answered' = {} /\ late' = {} /\ reused' = {} /\ revoked' = {}
  BY EmptyFacts, Zenon DEF TokenRestart
<1>3. /\ treq' \in [TokenThreads -> TokenRequest]
      /\ \A t \in TokenThreads : treq'[t].pc = "idle"
  BY Zenon DEF TokenRestart, TokenIdle, TokenRequest
<1>4. TokenTypeOK'
  BY <1>1, <1>2, <1>3, Zenon DEF TokenInv, TokenTypeOK
<1>5. CodesUnspent' /\ MintersExclusive' /\ JTIsLinked'
  BY <1>2, <1>3, Zenon DEF CodesUnspent, MintersExclusive, JTIsLinked
<1>6. RevokedPublished' /\ AnsweredAccounted' /\ LateReuseRevokes'
  BY <1>1, <1>2, <1>3, Zenon
  DEF TokenInv, RevokedPublished, AnsweredAccounted, LateReuseRevokes
<1>7. OneTokenPerCode' /\ TokenMatchesGrant'
  BY <1>1 DEF TokenInv, OneTokenPerCode, TokenMatchesGrant
<1> QED
  BY <1>4, <1>5, <1>6, <1>7 DEF TokenInv

\* TokenInv holds in every reachable state of the token endpoint.
THEOREM TokenInvariant == TokenSpec => []TokenInv
<1>1. TokenInv /\ [TokenNext]_tokenVars => TokenInv'
  <2> SUFFICES ASSUME TokenInv, [TokenNext]_tokenVars PROVE TokenInv'
    OBVIOUS
  <2>1. ASSUME NEW code \in Codes, NEW g \in Grants, IssueCode(code, g)
        PROVE  TokenInv'
    BY <2>1, IssueCodeInv, Zenon
  <2>2. ASSUME NEW t \in TokenThreads, TokenArrive(t)
        PROVE  TokenInv'
    BY <2>2, ConsumeAuthCodeInv, Zenon DEF TokenArrive
  <2>3. ASSUME NEW t \in TokenThreads, TokenContinue(t)
        PROVE  TokenInv'
    BY <2>3, MintInv, MintFailsInv, RecordIssuedJTIInv,
       RevokeTokensForCodeInv, TokenReplyInv, Zenon
    DEF TokenContinue
  <2>4. CASE RevokedJTIs
    BY <2>4, RevokedJTIsInv
  <2>5. CASE TokenTick \/ UNCHANGED tokenVars
    BY <2>5, TokenTickInv
  <2>6. CASE TokenRestart
    BY <2>6, TokenRestartInv
  <2> QED
    BY <2>1, <2>2, <2>3, <2>4, <2>5, <2>6 DEF TokenNext
<1> QED
  BY <1>1, TokenInitInv, PTL DEF TokenSpec

\* The stores, the requests in progress and the tokens keep their types.
THEOREM TokenTypeCorrect == TokenSpec => []TokenTypeOK
BY TokenInvariant, PTL DEF TokenInv

\* However redemptions of a code interleave, and across restarts, it mints
\* at most one access token: ConsumeAuthCode hands a code to one request.
THEOREM OneTokenPerCodeHolds == TokenSpec => []OneTokenPerCode
BY TokenInvariant, PTL DEF TokenInv

\* Every token HandleAuthCodeToken mints is bound to the client, the record
\* and the DPoP key of the grant behind its code.
THEOREM TokenMatchesGrantHolds == TokenSpec => []TokenMatchesGrant
BY TokenInvariant, PTL DEF TokenInv

\* Reusing a code whose token has been sent revokes that token, however many
\* reuses race.
THEOREM LateReuseRevokesHolds == TokenSpec => []LateReuseRevokes
BY TokenInvariant, PTL DEF TokenInv

\* A denylist entry outlives the token it names for every choice of lifetimes
\* with TokenTTL at most twice Retention.
THEOREM RevokedStaysPublishedHolds == TokenSpec => []RevokedStaysPublished
<1>1. TokenInv => RevokedStaysPublished
  BY DEF TokenInv, TokenTypeOK, IsMap, Token, RevokedPublished,
         RevokedStaysPublished, Published
<1> QED
  BY <1>1, TokenInvariant, PTL

=============================================================================
