-------------------------- MODULE AuthServerProofs --------------------------
(***************************************************************************)
(* The composed server, for every choice of the constants: it implements   *)
(* TokenEndpoint, so everything proved of the token endpoint holds of it,  *)
(* and every access token it mints traces back to one pushed request.      *)
(***************************************************************************)
EXTENDS AuthServer, AuthorizeProofs

P == INSTANCE TokenEndpointProofs WITH granted <- Granted, Grants <- GrantSet

-----------------------------------------------------------------------------
\* The inductive invariant

\* Every code ever issued, redeemed ones included, stands for a record its
\* request_uri may be completed with.
IssuedBacked ==
  \A c \in DOMAIN issued : RecordFor(issued[c].record, issued[c].uri)

ServerInv == AuthInv /\ IssuedBacked

-----------------------------------------------------------------------------
\* ServerInv is an invariant.

\* /token redeems codes, and leaves everything else /authorize reads alone.
LEMMA TokenStepFrame ==
  ASSUME TokenStep
  PROVE  /\ UNCHANGED <<now, parRequests, pendingAuth, identifiedSessions,
                        identifyReplay, req, records, pushed, deferred, marked,
                        issued, answers>>
         /\ UNCHANGED authCodes \/ \E c : authCodes' = Delete(authCodes, c)
<1>1. UNCHANGED <<parRequests, pendingAuth, identifiedSessions, identifyReplay,
                  req, records, pushed, deferred, marked, issued, answers>>
  BY Zenon DEF TokenStep, authOnly
<1>2. ASSUME NEW t \in TokenThreads, T!TokenArrive(t)
      PROVE  UNCHANGED now /\ \E c : authCodes' = Delete(authCodes, c)
  BY <1>2, Zenon
  DEF T!TokenArrive, T!ConsumeAuthCode, T!DropAuthCode, T!Delete, T!Restrict,
      Delete, Restrict
<1>3. ASSUME NEW t \in TokenThreads, T!TokenContinue(t)
      PROVE  UNCHANGED <<now, authCodes>>
  BY <1>3, Zenon
  DEF T!TokenContinue, T!Mint, T!MintFails, T!RecordIssuedJTI,
      T!RevokeTokensForCode, T!TokenReply
<1>4. CASE T!RevokedJTIs
  BY <1>1, <1>4, Zenon DEF T!RevokedJTIs
<1> QED
  BY <1>1, <1>2, <1>3, <1>4, Zenon DEF TokenStep

\* A redeemed code is gone, and AuthInv promises nothing of a code that is.
LEMMA TokenStepInv ==
  ASSUME AuthInv, TokenStep
  PROVE  AuthInv'
<1>1. UNCHANGED <<now, parRequests, pendingAuth, identifiedSessions,
                  identifyReplay, req, records, pushed, deferred, marked,
                  issued, answers>>
  BY TokenStepFrame, Zenon
<1>2. IsMap(authCodes, Codes, AuthCodeData)
  BY Zenon DEF AuthInv, TypeOK
<1>3. /\ IsMap(authCodes', Codes, AuthCodeData)
      /\ DOMAIN authCodes' \subseteq DOMAIN authCodes
      /\ \A c \in DOMAIN authCodes' : authCodes'[c] = authCodes[c]
  <2>1. CASE UNCHANGED authCodes
    BY <1>2, <2>1
  <2>2. ASSUME NEW d, authCodes' = Delete(authCodes, d)
        PROVE  /\ IsMap(authCodes', Codes, AuthCodeData)
               /\ DOMAIN authCodes' \subseteq DOMAIN authCodes
               /\ \A c \in DOMAIN authCodes' : authCodes'[c] = authCodes[c]
    <3>1. IsMap(authCodes', Codes, AuthCodeData)
      BY <1>2, <2>2, DeleteIsMap, Zenon
    <3> QED
      BY <2>2, <3>1 DEF Delete, Restrict
  <2> QED
    BY <2>1, <2>2, TokenStepFrame, Zenon
<1>4. TypeOK'
  BY <1>1, <1>3, Zenon DEF AuthInv, TypeOK
<1>5. StoreBacked'
  BY <1>1, Zenon DEF AuthInv, StoreBacked
<1>6. CodeBacked'
  <2>1. CodeBacked
    BY Zenon DEF AuthInv
  <2> QED
    BY <1>1, <1>3, <2>1 DEF CodeBacked
<1>7. RequestsBacked'
  BY <1>1, Zenon DEF AuthInv, RequestsBacked, RequestBacked, RecordFor
<1>8. OffersExclusive' /\ SessionsExclusive'
  BY <1>1, Zenon DEF AuthInv, OffersExclusive, SessionsExclusive, Untouched, NoRecord
<1>9. SessionAnswersAgree' /\ CompletedOrRejected'
  BY <1>1 DEF AuthInv, SessionAnswersAgree, CompletedOrRejected
<1> QED
  BY <1>4, <1>5, <1>6, <1>7, <1>8, <1>9, Zenon DEF AuthInv

\* A step of the server leaves the invariant of the authorization half alone.
LEMMA ServerAuthInv ==
  ASSUME AuthInv, [ServerNext]_serverVars
  PROVE  AuthInv'
<1>1. AuthorizeStep \/ ServerTick \/ ServerRestart => Next
  BY Zenon DEF AuthorizeStep, ServerTick, ServerRestart, Next
<1>2. UNCHANGED serverVars => UNCHANGED vars
  BY Zenon DEF serverVars, authOnly, vars, store, history
<1>3. CASE [Next]_vars
  BY <1>3, NextInv, Zenon
<1>4. CASE TokenStep
  BY <1>4, TokenStepInv, Zenon
<1> QED
  BY <1>1, <1>2, <1>3, <1>4, Zenon DEF ServerNext

\* What was pushed, opened and created is never taken back: a code's record
\* goes on belonging to its request_uri.
LEMMA RecordForStays ==
  ASSUME AuthInv, NEW x, NEW u \in DOMAIN pushed, RecordFor(x, u),
         pushed'[u] = pushed[u],
         \A s \in DOMAIN deferred : deferred'[s] = deferred[s],
         DOMAIN records \subseteq DOMAIN records',
         \A y \in DOMAIN records : records'[y] = records[y]
  PROVE  RecordFor(x, u)'
<1>1. \A y \in DOMAIN records : records[y] \in DOMAIN deferred
  BY Zenon DEF AuthInv, StoreBacked
<1>2. \A y \in DOMAIN records :
        y \in DOMAIN records' /\ deferred'[records'[y]] = deferred[records[y]]
  BY <1>1, Zenon
<1> QED
  BY <1>2, Zenon DEF RecordFor

\* A visit to /authorize takes back nothing that was pushed, opened or
\* created, and issues a code only for a request that holds its record.
LEMMA AuthorizeFrame ==
  ASSUME AuthorizeStep
  PROVE  /\ DOMAIN pushed \subseteq DOMAIN pushed'
         /\ \A u \in DOMAIN pushed : pushed'[u] = pushed[u]
         /\ \A s \in DOMAIN deferred : deferred'[s] = deferred[s]
         /\ DOMAIN records \subseteq DOMAIN records'
         /\ \A y \in DOMAIN records : records'[y] = records[y]
         /\ \/ UNCHANGED <<now, authCodes, issued>>
            \/ \E t \in Threads, code \in Codes : CreateAuthCode(t, code)
<1>1. ASSUME NEW in \in ParInputs, NEW u \in RequestURIs, HandlePar(in, u)
      PROVE  /\ DOMAIN pushed \subseteq DOMAIN pushed'
             /\ \A v \in DOMAIN pushed : pushed'[v] = pushed[v]
             /\ UNCHANGED <<deferred, records, authCodes, issued, now>>
  BY <1>1, Zenon DEF HandlePar, Put
<1>2. ASSUME NEW t \in Threads, NEW s \in SessionTokens, StorePendingAuth(t, s)
      PROVE  /\ \A x \in DOMAIN deferred : deferred'[x] = deferred[x]
             /\ UNCHANGED <<pushed, records, authCodes, issued, now>>
  BY <1>2, Zenon DEF StorePendingAuth, Put
<1>3. ASSUME NEW t \in Threads, CreateRecord(t)
      PROVE  /\ DOMAIN records \subseteq DOMAIN records'
             /\ \A y \in DOMAIN records : records'[y] = records[y]
             /\ UNCHANGED <<pushed, deferred, authCodes, issued, now>>
  <2>1. UNCHANGED <<pushed, deferred, authCodes, issued, now>>
    BY <1>3, Zenon DEF CreateRecord, store, history
  <2>2. \/ records' = records
        \/ \E id \in Records \ DOMAIN records :
             records' = Put(records, id, req[t].token)
    BY <1>3, Zenon DEF CreateRecord
  <2> QED
    BY <2>1, <2>2, Zenon DEF Put
<1>4. ASSUME NEW t \in Threads, NEW code \in Codes, CreateAuthCode(t, code)
      PROVE  UNCHANGED <<pushed, deferred, records>>
  BY <1>4, Zenon DEF CreateAuthCode
<1>5. ASSUME NEW t \in Threads, Arrive(t) \/ Reply(t)
      PROVE  UNCHANGED <<pushed, deferred, records, authCodes, issued, now>>
  BY <1>5, Zenon
  DEF Arrive, HandleAuthorize, GetIdentifyReplay, Reply, store, history
<1>6. ASSUME NEW t \in Threads,
             \/ FindByIssuerState(t) \/ CompleteOffer(t) \/ CheckIdentified(t)
             \/ ConsumePendingAuth(t) \/ StoreIdentifyReplay(t)
             \/ \E k \in Cookies : MarkIdentified(t, k)
      PROVE  UNCHANGED <<pushed, deferred, records, authCodes, issued, now>>
  BY <1>6, Zenon
  DEF FindByIssuerState, CompleteOffer, CheckIdentified, ConsumePendingAuth,
      StoreIdentifyReplay, MarkIdentified, store, history
<1>7. ASSUME NEW t \in Threads, Continue(t)
      PROVE  \/ UNCHANGED <<pushed, deferred, records, authCodes, issued, now>>
             \/ CreateRecord(t)
             \/ \E s \in SessionTokens : StorePendingAuth(t, s)
             \/ \E code \in Codes : CreateAuthCode(t, code)
  BY <1>6, <1>7, Zenon DEF Continue
<1> QED
  BY <1>1, <1>2, <1>3, <1>4, <1>5, <1>7 DEF AuthorizeStep

\* Every step preserves ServerInv.
LEMMA ServerNextInv ==
  ASSUME ServerInv, [ServerNext]_serverVars
  PROVE  ServerInv'
<1>1. AuthInv /\ IssuedBacked
  BY Zenon DEF ServerInv
<1>2. AuthInv'
  BY <1>1, ServerAuthInv, Zenon
<1>3. \A c \in DOMAIN issued : issued[c].uri \in DOMAIN pushed
  BY <1>1, Zenon DEF AuthInv, StoreBacked
<1>4. ASSUME AuthorizeStep, NEW x, NEW u \in DOMAIN pushed, RecordFor(x, u)
      PROVE  RecordFor(x, u)'
  BY <1>1, <1>4, AuthorizeFrame, RecordForStays, Zenon
<1>5. ASSUME AuthorizeStep, NEW c \in DOMAIN issued, issued'[c] = issued[c]
      PROVE  RecordFor(issued[c].record, issued[c].uri)'
  <2>1. PICK x, u : x = issued[c].record /\ u = issued[c].uri
    OBVIOUS
  <2>2. u \in DOMAIN pushed /\ RecordFor(x, u)
    BY <1>1, <1>3, <2>1, Zenon DEF IssuedBacked
  <2>3. RecordFor(x, u)'
    BY <1>4, <1>5, <2>2, Zenon
  <2> QED
    BY <1>5, <2>1, <2>3, Zenon DEF RecordFor
<1>6. ASSUME NEW t \in Threads, NEW code \in Codes, CreateAuthCode(t, code),
             AuthorizeStep
      PROVE  IssuedBacked'
  <2>1. PICK x, u : x = req[t].record /\ u = req[t].uri
    OBVIOUS
  <2>2. req[t].pc = "create_code" /\ RequestBacked(req[t])
    BY <1>1, <1>6, Zenon DEF CreateAuthCode, AuthInv, RequestsBacked
  <2>3. u \in DOMAIN pushed /\ RecordFor(x, u)
    BY <2>1, <2>2, Zenon DEF RequestBacked, AtAuthorize
  <2>4. RecordFor(x, u)'
    BY <1>4, <1>6, <2>3, Zenon
  <2>5. issued' = Put(issued, code, [uri |-> u, record |-> x])
    BY <1>6, <2>1, Zenon DEF CreateAuthCode
  <2>6. /\ DOMAIN issued' = DOMAIN issued \cup {code}
        /\ issued'[code] = [uri |-> u, record |-> x]
        /\ \A c \in DOMAIN issued : c # code => issued'[c] = issued[c]
    BY <2>5 DEF Put
  <2>7. issued'[code].record = x /\ issued'[code].uri = u
    BY <2>6
  <2>8. RecordFor(issued[code].record, issued[code].uri)'
    BY <2>4, <2>7, Zenon DEF RecordFor
  <2> QED
    BY <1>5, <1>6, <2>6, <2>8, Zenon DEF IssuedBacked
<1>7. CASE AuthorizeStep
  <2>1. CASE UNCHANGED issued
    <3>1. IssuedBacked'
      BY <1>5, <1>7, <2>1, Zenon DEF IssuedBacked
    <3> QED
      BY <1>2, <3>1, Zenon DEF ServerInv
  <2> QED
    BY <1>1, <1>2, <1>6, <1>7, <2>1, AuthorizeFrame, Zenon DEF ServerInv
<1>8. CASE TokenStep \/ ServerTick \/ ServerRestart \/ UNCHANGED serverVars
  <2>1. UNCHANGED <<issued, pushed, records, deferred>>
    BY <1>8, TokenStepFrame, Zenon
    DEF ServerTick, Tick, ServerRestart, Restart, history, serverVars, authOnly
  <2> QED
    BY <1>1, <1>2, <2>1, Zenon DEF ServerInv, IssuedBacked, RecordFor
<1> QED
  BY <1>7, <1>8, Zenon DEF ServerNext

\* Nothing has been issued when the server starts.
LEMMA ServerInitInv == ServerInit => ServerInv
<1>1. ServerInit => AuthInv
  BY InitInv, Zenon DEF ServerInit
<1>2. ServerInit => DOMAIN issued = {}
  BY EmptyFacts DEF ServerInit, Init
<1> QED
  BY <1>1, <1>2, Zenon DEF ServerInv, IssuedBacked

\* ServerInv holds in every reachable state of the server.
THEOREM ServerInvariant == ServerSpec => []ServerInv
<1>1. ServerInv /\ [ServerNext]_serverVars => ServerInv'
  BY ServerNextInv
<1> QED
  BY <1>1, ServerInitInv, PTL DEF ServerSpec

-----------------------------------------------------------------------------
\* The server implements TokenEndpoint.

\* While no code is issued and no pushed request changes, neither does what
\* the codes stand for.
LEMMA GrantedStays ==
  ASSUME AuthInv, UNCHANGED issued,
         \A u \in DOMAIN pushed : pushed'[u] = pushed[u]
  PROVE  Granted' = Granted
<1>1. \A c \in DOMAIN issued : pushed'[issued[c].uri] = pushed[issued[c].uri]
  BY Zenon DEF AuthInv, StoreBacked
<1> QED
  BY <1>1 DEF Granted

\* CreateAuthCode is, to the token endpoint, a code issued for the grant of
\* its pushed request.
LEMMA CreateAuthCodeRefines ==
  ASSUME AuthInv, NEW t \in Threads, NEW code \in Codes,
         CreateAuthCode(t, code), UNCHANGED tokenOnly
  PROVE  \E g \in GrantSet : T!IssueCode(code, g)
<1> DEFINE g(x, p) == [record |-> x, client |-> p.client,
                       challenge |-> p.challenge, jkt |-> p.jkt]
<1>1. PICK x, u, p : x = req[t].record /\ u = req[t].uri /\ p = req[t].params
  OBVIOUS
<1>2. req[t].pc = "create_code" /\ RequestBacked(req[t])
  BY Zenon DEF CreateAuthCode, AuthInv, RequestsBacked
<1>3. u \in DOMAIN pushed /\ p = pushed[u] /\ RecordFor(x, u)
  BY <1>1, <1>2, Zenon DEF RequestBacked, AtAuthorize
<1>4. p \in Params /\ x \in RecordIDs
  BY <1>3, Zenon DEF AuthInv, TypeOK, IsMap, RecordFor, RecordIDs
<1>5. g(x, p) \in GrantSet
  BY <1>4 DEF Params, GrantSet
<1>6. /\ code \notin DOMAIN issued
      /\ authCodes' = Put(authCodes, code, AuthCodeMetadata(x, p))
      /\ issued' = Put(issued, code, [uri |-> u, record |-> x])
      /\ UNCHANGED <<now, pushed>>
  BY <1>1, Zenon DEF CreateAuthCode
<1>7. code \notin DOMAIN Granted
  BY <1>6 DEF Granted
<1>8. authCodes' = T!Put(authCodes, code,
        [record |-> g(x, p).record, client |-> g(x, p).client,
         challenge |-> g(x, p).challenge, jkt |-> g(x, p).jkt, at |-> now])
  BY <1>6 DEF AuthCodeMetadata, Put, T!Put
<1>9. Granted' = T!Put(Granted, code, g(x, p))
  <2>1. /\ DOMAIN issued' = DOMAIN issued \cup {code}
        /\ issued'[code] = [uri |-> u, record |-> x]
        /\ \A c \in DOMAIN issued : c # code => issued'[c] = issued[c]
    BY <1>6 DEF Put
  <2>2. issued'[code].uri = u /\ issued'[code].record = x
    BY <2>1
  <2> QED
    BY <1>3, <1>6, <2>1, <2>2 DEF Granted, T!Put
<1>10. UNCHANGED <<now, T!tokenStore, treq, minted, denylist, T!tokenHistory>>
  BY <1>6, Zenon DEF tokenOnly, T!tokenStore, T!tokenHistory
<1> HIDE DEF g
<1>11. T!IssueCode(code, g(x, p))
  BY <1>7, <1>8, <1>9, <1>10, Zenon DEF T!IssueCode
<1> QED
  BY <1>5, <1>11, Zenon

\* Every step of the server is a step of the token endpoint, or one it cannot
\* see.
LEMMA ServerStepRefines ==
  ASSUME AuthInv, [ServerNext]_serverVars
  PROVE  [T!TokenNext]_(T!tokenVars)
<1>1. ASSUME UNCHANGED <<now, authCodes, issued, tokenOnly>>,
             \A u \in DOMAIN pushed : pushed'[u] = pushed[u]
      PROVE  UNCHANGED T!tokenVars
  <2>1. Granted' = Granted
    BY <1>1, GrantedStays, Zenon
  <2> QED
    BY <1>1, <2>1, Zenon DEF T!tokenVars, T!tokenStore, T!tokenHistory, tokenOnly
<1>2. CASE AuthorizeStep
  <2>1. UNCHANGED tokenOnly
    BY <1>2, Zenon DEF AuthorizeStep
  <2>2. CASE UNCHANGED <<now, authCodes, issued>>
    BY <1>1, <1>2, <2>1, <2>2, AuthorizeFrame, Zenon
  <2>3. ASSUME NEW t \in Threads, NEW code \in Codes, CreateAuthCode(t, code)
        PROVE  T!TokenNext
    BY <2>1, <2>3, CreateAuthCodeRefines, Zenon DEF T!TokenNext
  <2> QED
    BY <1>2, <2>2, <2>3, AuthorizeFrame, Zenon
<1>3. CASE TokenStep
  BY <1>3, Zenon DEF TokenStep, T!TokenNext
<1>4. CASE ServerTick
  <2>1. Granted' = Granted
    BY <1>4, GrantedStays, Zenon DEF ServerTick, Tick, history
  <2>2. T!TokenTick
    BY <1>4, <2>1, Zenon
    DEF ServerTick, Tick, tokenOnly, store, T!TokenTick, T!tokenStore, T!tokenHistory
  <2> QED
    BY <2>2, Zenon DEF T!TokenNext
<1>5. CASE ServerRestart
  BY <1>5, Zenon DEF ServerRestart, T!TokenNext
<1>6. CASE UNCHANGED serverVars
  BY <1>1, <1>6, Zenon DEF serverVars, authOnly
<1> QED
  BY <1>2, <1>3, <1>4, <1>5, <1>6, Zenon DEF ServerNext

\* The composed server implements the token endpoint: what /par, /authorize
\* and the identification handlers do to the shared store is, to the token
\* endpoint, a code issued for one of its grants or nothing at all
\* (CreateAuthCode, ConsumeAuthCode).
THEOREM ImplementsTokenEndpointHolds == ServerSpec => ImplementsTokenEndpoint
<1>1. ServerInit => T!TokenInit
  BY Zenon DEF ServerInit
<1>2. ServerInv /\ [ServerNext]_serverVars => [T!TokenNext]_(T!tokenVars)
  BY ServerStepRefines, Zenon DEF ServerInv
<1> QED
  BY <1>1, <1>2, ServerInvariant, PTL
  DEF ServerSpec, ImplementsTokenEndpoint, T!TokenSpec

-----------------------------------------------------------------------------
\* What is proved of the token endpoint holds of the server.

\* The assumptions of TokenEndpoint hold of the server's constants.
LEMMA TokenAssumptions ==
  /\ P!TokenTimeAssumption
  /\ P!RetentionAssumption
  /\ P!TokenNamesAssumption
  /\ P!TokenInputsAssumption
<1>1. P!TokenTimeAssumption /\ P!RetentionAssumption
  BY ServerAssumption, TimeAssumption
  DEF P!TokenTimeAssumption, P!RetentionAssumption
<1>2. P!TokenNamesAssumption
  BY ServerAssumption, NamesAssumption DEF P!TokenNamesAssumption, Absent
<1>3. P!TokenInputsAssumption
  BY ServerAssumption, Zenon
  DEF P!TokenInputsAssumption, P!TokenInput, T!TokenInput, P!Grant, GrantSet,
      P!NoValue, T!NoValue, Absent
<1> QED
  BY <1>1, <1>2, <1>3

\* TokenEndpointProofs is about the TokenEndpoint the server implements.
LEMMA SameEndpoint == T!TokenSpec => P!TokenSpec
<1>1. T!TokenInit => P!TokenInit
  BY DEF T!TokenInit, P!TokenInit, T!EmptyMap, P!EmptyMap, T!TokenIdle,
         P!TokenIdle, T!NoValue, P!NoValue
<1>2. ASSUME NEW c, NEW g, T!IssueCode(c, g)
      PROVE  P!IssueCode(c, g)
  BY <1>2, Zenon
  DEF T!IssueCode, P!IssueCode, T!Put, P!Put, T!tokenStore, P!tokenStore,
      T!tokenHistory, P!tokenHistory
<1>3. ASSUME NEW t, NEW c, NEW in, T!ConsumeAuthCode(t, c, in)
      PROVE  P!ConsumeAuthCode(t, c, in)
  BY <1>3, Zenon
  DEF T!ConsumeAuthCode, P!ConsumeAuthCode, T!Authentic, P!Authentic,
      T!DropAuthCode, P!DropAuthCode, T!Delete, P!Delete, T!Restrict,
      P!Restrict, T!WasIssued, P!WasIssued, T!AuthCodeLive,
      P!AuthCodeLive, T!GrantMatches, P!GrantMatches, T!NoValue,
      P!NoValue, T!tokenStore, P!tokenStore
<1>4. ASSUME NEW t, NEW j, T!Mint(t, j)
      PROVE  P!Mint(t, j)
  BY <1>4, Zenon
  DEF T!Mint, P!Mint, T!Put, P!Put, T!tokenStore, P!tokenStore,
      T!tokenHistory, P!tokenHistory
<1>5. ASSUME NEW t, T!MintFails(t)
      PROVE  P!MintFails(t)
  BY <1>5, Zenon
  DEF T!MintFails, P!MintFails, T!tokenStore, P!tokenStore,
      T!tokenHistory, P!tokenHistory
<1>6. ASSUME NEW t, T!RecordIssuedJTI(t)
      PROVE  P!RecordIssuedJTI(t)
  BY <1>6, Zenon
  DEF T!RecordIssuedJTI, P!RecordIssuedJTI, T!IssuedJTI, P!IssuedJTI,
      T!Put, P!Put, T!tokenHistory, P!tokenHistory
<1>7. ASSUME NEW t, T!RevokeTokensForCode(t)
      PROVE  P!RevokeTokensForCode(t)
  BY <1>7, Zenon
  DEF T!RevokeTokensForCode, P!RevokeTokensForCode, T!WasIssued,
      P!WasIssued, T!Delete, P!Delete, T!Restrict, P!Restrict, T!Put,
      P!Put, T!PublishedUntil, P!PublishedUntil, T!tokenStore,
      P!tokenStore
<1>8. ASSUME NEW t, T!TokenReply(t)
      PROVE  P!TokenReply(t)
  BY <1>8, Zenon
  DEF T!TokenReply, P!TokenReply, T!TokenIdle, P!TokenIdle, T!NoValue,
      P!NoValue, T!tokenStore, P!tokenStore
<1>9. T!RevokedJTIs => P!RevokedJTIs
  BY Zenon
  DEF T!RevokedJTIs, P!RevokedJTIs, T!Published, P!Published, T!Restrict,
      P!Restrict, T!tokenHistory, P!tokenHistory
<1>10. T!TokenTick => P!TokenTick
  BY Zenon
  DEF T!TokenTick, P!TokenTick, T!tokenStore, P!tokenStore,
      T!tokenHistory, P!tokenHistory
<1>11. T!TokenRestart => P!TokenRestart
  BY Zenon
  DEF T!TokenRestart, P!TokenRestart, T!EmptyMap, P!EmptyMap,
      T!TokenIdle, P!TokenIdle, T!NoValue, P!NoValue
<1>12. T!TokenNext => P!TokenNext
  BY <1>2, <1>3, <1>4, <1>5, <1>6, <1>7, <1>8, <1>9, <1>10, <1>11, Zenon
  DEF T!TokenNext, P!TokenNext, T!TokenArrive, P!TokenArrive,
      T!TokenContinue, P!TokenContinue
<1>13. UNCHANGED T!tokenVars => UNCHANGED P!tokenVars
  BY Zenon
  DEF T!tokenVars, P!tokenVars, T!tokenStore, P!tokenStore,
      T!tokenHistory, P!tokenHistory
<1>14. [T!TokenNext]_(T!tokenVars) => [P!TokenNext]_(P!tokenVars)
  BY <1>12, <1>13, Zenon
<1> QED
  BY <1>1, <1>14, PTL DEF T!TokenSpec, P!TokenSpec

\* The types of both halves of the server.
THEOREM ServerTypeCorrect == ServerSpec => []ServerTypeOK
<1>1. ServerInv => TypeOK
  BY Zenon DEF ServerInv, AuthInv
<1>2. P!TokenTypeOK => T!TokenTypeOK
  BY Zenon
  DEF T!TokenTypeOK, P!TokenTypeOK, T!IsMap, P!IsMap, T!AuthCodeData,
      P!AuthCodeData, T!Token, P!Token, T!TokenRequest, P!TokenRequest,
      T!Grant, P!Grant, T!NoValue, P!NoValue
<1>3. P!TokenSpec => []P!TokenTypeOK
  BY TokenAssumptions, P!TokenTypeCorrect, Zenon
<1> QED
  BY <1>1, <1>2, <1>3, ServerInvariant, ImplementsTokenEndpointHolds, SameEndpoint,
     PTL
  DEF ServerTypeOK, ImplementsTokenEndpoint

\* Every access token of the server traces back to one pushed request, and to
\* a record of its offer or of an identification session opened for it that
\* nobody was told was denied (HandlePar to HandleAuthCodeToken).
THEOREM TokenBackedHolds == ServerSpec => []TokenBacked
<1>1. ServerInv /\ P!TokenMatchesGrant => TokenBacked
  <2> SUFFICES ASSUME ServerInv, P!TokenMatchesGrant, NEW j \in DOMAIN minted
               PROVE  /\ minted[j].code \in DOMAIN issued
                      /\ LET m == minted[j]
                             u == issued[m.code].uri
                             p == pushed[u]
                         IN /\ m.client = p.client
                            /\ p.jkt \in {Absent, m.key}
                            /\ \/ m.record = p.issuerState
                               \/ /\ m.record \in DOMAIN records
                                  /\ deferred[records[m.record]] = u
                                  /\ \A a \in answers :
                                       a.token = records[m.record] =>
                                         a.to = "authorize"
    BY Zenon DEF TokenBacked
  <2>1. PICK c, u, p : c = minted[j].code /\ u = issued[c].uri /\ p = pushed[u]
    OBVIOUS
  <2>2. DOMAIN Granted = DOMAIN issued
    BY DEF Granted
  <2>3. c \in DOMAIN issued
    BY <2>1, <2>2, Zenon DEF P!TokenMatchesGrant
  <2>4. /\ Granted[c].record = issued[c].record /\ Granted[c].client = p.client
        /\ Granted[c].jkt = p.jkt
    BY <2>1, <2>3 DEF Granted
  <2>5. /\ minted[j].client = p.client
        /\ minted[j].record = issued[c].record
        /\ p.jkt \in {Absent, minted[j].key}
    BY <2>1, <2>4, Zenon DEF P!TokenMatchesGrant, P!NoValue, Absent
  <2>6. RecordFor(minted[j].record, u)
    BY <2>1, <2>3, <2>5, Zenon DEF ServerInv, IssuedBacked
  <2>7. ASSUME NEW x \in DOMAIN records, NEW a \in answers, a.token = records[x]
        PROVE  a.to = "authorize"
    <3>1. a.to \in Redirects
      BY DEF ServerInv, AuthInv, TypeOK
    <3>2. a.to # "denied"
      BY <2>7, Zenon DEF ServerInv, AuthInv, CompletedOrRejected
    <3> QED
      BY <3>1, <3>2, Zenon DEF Redirects
  <2> QED
    BY <2>1, <2>3, <2>5, <2>6, <2>7, Zenon DEF RecordFor
<1>2. P!TokenSpec => []P!TokenMatchesGrant
  BY TokenAssumptions, P!TokenMatchesGrantHolds, Zenon
<1> QED
  BY <1>1, <1>2, ServerInvariant, ImplementsTokenEndpointHolds, SameEndpoint, PTL
  DEF ImplementsTokenEndpoint

\* /token taking codes out of the shared store disturbs none of the promises
\* of /authorize and the identification handlers.
THEOREM ServerAuthorizeHolds ==
  ServerSpec => [](CodeBacked /\ OneCodePerOffer /\ SessionAnswersAgree
                     /\ CompletedOrRejected)
<1>1. ServerInv => /\ CodeBacked /\ OneCodePerOffer
                   /\ SessionAnswersAgree /\ CompletedOrRejected
  BY DEF ServerInv, AuthInv, OffersExclusive, OneCodePerOffer
<1> QED
  BY <1>1, ServerInvariant, PTL

\* The revocation promises of the token endpoint hold of the server: they are
\* inherited through the refinement.
THEOREM ServerRevocationHolds ==
  ServerSpec => [](T!LateReuseRevokes /\ T!RevokedStaysPublished)
<1>1. P!LateReuseRevokes => T!LateReuseRevokes
  BY Zenon DEF P!LateReuseRevokes, T!LateReuseRevokes
<1>2. P!RevokedStaysPublished => T!RevokedStaysPublished
  BY Zenon
  DEF P!RevokedStaysPublished, T!RevokedStaysPublished, P!Published, T!Published
<1>3. P!TokenSpec => []P!LateReuseRevokes
  BY TokenAssumptions, P!LateReuseRevokesHolds, Zenon
<1>4. P!TokenSpec => []P!RevokedStaysPublished
  BY TokenAssumptions, P!RevokedStaysPublishedHolds, Zenon
<1> QED
  BY <1>1, <1>2, <1>3, <1>4, ImplementsTokenEndpointHolds, SameEndpoint, PTL
  DEF ImplementsTokenEndpoint

\* The offer of one pushed request is redeemed for one access token at most,
\* however many visits to /authorize and requests to /token race for it.
OneTokenPerOffer ==
  \A j, k \in DOMAIN minted :
    /\ minted[j].record \in IssuerStates /\ minted[k].record \in IssuerStates
    /\ issued[minted[j].code].uri = issued[minted[k].code].uri
    => j = k

\* One offer, one code (ConsumeParRequest); one code, one token
\* (ConsumeAuthCode): neither endpoint promises OneTokenPerOffer alone.
THEOREM OneTokenPerOfferHolds == ServerSpec => []OneTokenPerOffer
<1>1. ServerInv /\ P!TokenMatchesGrant /\ P!OneTokenPerCode => OneTokenPerOffer
  <2> SUFFICES ASSUME ServerInv, P!TokenMatchesGrant, P!OneTokenPerCode,
                      NEW j \in DOMAIN minted, NEW k \in DOMAIN minted,
                      minted[j].record \in IssuerStates,
                      minted[k].record \in IssuerStates,
                      issued[minted[j].code].uri = issued[minted[k].code].uri
               PROVE  j = k
    BY Zenon DEF OneTokenPerOffer
  <2>1. \A i \in DOMAIN minted :
          /\ minted[i].code \in DOMAIN issued
          /\ minted[i].record = issued[minted[i].code].record
    BY DEF P!TokenMatchesGrant, Granted
  <2>2. minted[j].code = minted[k].code
    BY <2>1, Zenon DEF ServerInv, AuthInv, OffersExclusive
  <2> QED
    BY <2>2, Zenon DEF P!OneTokenPerCode
<1>2. P!TokenSpec => []P!TokenMatchesGrant
  BY TokenAssumptions, P!TokenMatchesGrantHolds, Zenon
<1>3. P!TokenSpec => []P!OneTokenPerCode
  BY TokenAssumptions, P!OneTokenPerCodeHolds, Zenon
<1> QED
  BY <1>1, <1>2, <1>3, ServerInvariant, ImplementsTokenEndpointHolds,
     SameEndpoint, PTL
  DEF ImplementsTokenEndpoint

=============================================================================
