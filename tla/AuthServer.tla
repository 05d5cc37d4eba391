----------------------------- MODULE AuthServer -----------------------------
(***************************************************************************)
(* The authorization server as a whole: Authorize and TokenEndpoint over   *)
(* one clock and one session store.  The codes TokenEndpoint redeems are   *)
(* the ones Authorize creates, and a restart empties both halves at once.  *)
(***************************************************************************)
EXTENDS Authorize

CONSTANTS TokenThreads, JTIs, TokenInputs, CodeTTL, TokenTTL, Retention

VARIABLES issuedJTIByCode, revokedJTIs, treq, minted, denylist,
          answered, late, reused, revoked

\* What each code ever created stands for: the client, challenge and DPoP key
\* of the pushed request it answers, and its record.
Granted ==
  [c \in DOMAIN issued |->
     LET p == pushed[issued[c].uri]
     IN [record |-> issued[c].record, client |-> p.client,
         challenge |-> p.challenge, jkt |-> p.jkt]]

GrantSet == [record : RecordIDs, client : Clients, challenge : Challenges,
             jkt : Keys \cup {Absent}]

T == INSTANCE TokenEndpoint WITH granted <- Granted, Grants <- GrantSet

\* What the token endpoint assumes of its own constants.
ASSUME ServerAssumption ==
  /\ CodeTTL \in Nat /\ TokenTTL \in Nat /\ Retention \in Nat
  /\ 2 * Retention >= TokenTTL
  /\ Absent \notin Codes
  /\ TokenInputs \subseteq T!TokenInput

authOnly == <<parRequests, pendingAuth, identifiedSessions, identifyReplay,
              req, records, pushed, deferred, marked, issued, answers>>
tokenOnly == <<issuedJTIByCode, revokedJTIs, treq, minted, denylist, answered,
               late, reused, revoked>>
serverVars == <<now, authCodes, authOnly, tokenOnly>>

ServerTypeOK == TypeOK /\ T!TokenTypeOK

ServerInit == Init /\ T!TokenInit

\* A request to /par, /authorize, /identify/complete or /identify/reject
AuthorizeStep ==
  /\ \/ \E in \in ParInputs, u \in RequestURIs : HandlePar(in, u)
     \/ \E t \in Threads : Arrive(t) \/ Continue(t) \/ Reply(t)
  /\ UNCHANGED tokenOnly

\* A request to /token or /revoked-tokens
TokenStep ==
  /\ UNCHANGED authOnly
  /\ \/ \E t \in TokenThreads : T!TokenArrive(t) \/ T!TokenContinue(t)
     \/ T!RevokedJTIs

ServerTick == Tick /\ UNCHANGED tokenOnly

ServerRestart == Restart /\ T!TokenRestart

ServerNext == AuthorizeStep \/ TokenStep \/ ServerTick \/ ServerRestart

ServerSpec == ServerInit /\ [][ServerNext]_serverVars

-----------------------------------------------------------------------------
\* Properties

\* Every access token traces back to one pushed request: the token's client
\* pushed it, the token's key is the one that request declared if it declared
\* one, and the token's issuance record is the one the request's offer points
\* at or one that was created for an identification session opened for that
\* request, a session nobody was ever told was denied.
TokenBacked ==
  \A j \in DOMAIN minted :
    /\ minted[j].code \in DOMAIN issued
    /\ LET m == minted[j]
           u == issued[m.code].uri
           p == pushed[u]
       IN /\ m.client = p.client
          /\ p.jkt \in {Absent, m.key}
          /\ \/ m.record = p.issuerState
             \/ /\ m.record \in DOMAIN records
                /\ deferred[records[m.record]] = u
                /\ \A a \in answers :
                     a.token = records[m.record] => a.to = "authorize"

\* The composed server implements TokenEndpoint: a code /authorize creates
\* is, to the token endpoint, a code issued for the grant of its pushed
\* request, and nothing else /authorize does can be told apart from no step.
ImplementsTokenEndpoint == T!TokenSpec

=============================================================================
