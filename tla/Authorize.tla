------------------------------ MODULE Authorize ------------------------------
(***************************************************************************)
(* From a pushed authorization request to an authorization code:           *)
(* HandlePar, HandleAuthorize, CompleteIdentification and                  *)
(* RejectIdentification of internal/authz, over the authorization half of  *)
(* internal/session's Store.                                               *)
(*                                                                         *)
(* Every Store method is one critical section of the store's mutex, and a  *)
(* handler makes several of them with network calls to the Credential      *)
(* Issuer in between.  A handler is therefore a thread with a program      *)
(* counter, one step per critical section or network call, and the steps   *)
(* of concurrent requests interleave.                                      *)
(***************************************************************************)
EXTENDS Integers, GoMaps

CONSTANTS
  Threads,       \* HTTP requests the server works on at the same time
  RequestURIs, SessionTokens, Cookies, Codes,  \* values RandomToken returns
  Records,       \* ids of issuance records the Credential Issuer creates
  Clients, Keys, Challenges, IssuerStates,
  ParInputs,     \* the pushed authorization requests clients send
  NoParams,      \* the nil map: a request that has not looked its params up
  ParTTL,        \* parRequestTTL
  IdentifiedTTL, \* identifiedSessionTTL
  ReplayTTL,     \* identifyReplayTTL
  MaxTime        \* bound on the clock

ASSUME TimeAssumption ==
  /\ ParTTL \in Nat /\ IdentifiedTTL \in Nat /\ ReplayTTL \in Nat
  /\ MaxTime \in Nat

\* "" is the absent form parameter, the absent cookie and the absent record.
ASSUME NamesAssumption ==
  /\ "" \notin Clients \cup Keys \cup Challenges \cup IssuerStates \cup Records
               \cup Cookies
  /\ "error" \notin Clients \cup Keys
  /\ Records \cap IssuerStates = {}

Absent == ""

\* What HandlePar reads of a request: the outcome of the client attestation
\* and of the DPoP proof (each validated by code of its own, see README), and
\* the form parameters the flow tells apart.
ParInput ==
  [requestURI   : BOOLEAN,                        \* request_uri was pushed
   attested     : Clients \cup {Absent, "error"}, \* attestations.Resolve
   responseType : {Absent, "code", "other"},
   challenge    : Challenges \cup {Absent},
   method       : {"S256", "other"},
   proof        : Keys \cup {Absent, "error"},    \* ValidateDPoPProof's key
   jkt          : Keys \cup {Absent},             \* dpop_jkt
   clientID     : Clients \cup {Absent},
   issuerState  : IssuerStates \cup {Absent},
   scope        : {Absent, "pid"},
   redirectURI  : {"valid", "malformed"}]

ASSUME InputsAssumption == ParInputs \subseteq ParInput

\* The params map the session store carries from PAR to the token endpoint.
Params ==
  [client      : Clients,                         \* _bound_client_id
   clientID    : Clients \cup {Absent},
   challenge   : Challenges,
   jkt         : Keys \cup {Absent},
   issuerState : IssuerStates \cup {Absent},
   scope       : {Absent, "pid"},
   redirectURI : {"valid", "malformed"}]

\* The record a credential offer's issuer_state points at is named by that
\* issuer_state; the others were created after an identification.
RecordIDs == Records \cup IssuerStates

VARIABLES
  now,                \* the wall clock
  parRequests,        \* request_uri -> params and creation time
  pendingAuth,        \* session token -> params and _pending_request_uri
  identifiedSessions, \* cookie -> identifiedSessionEntry
  identifyReplay,     \* session token -> redirect and expiry
  authCodes,          \* authorization code -> metadata and creation time
  req,                \* thread -> the request it is serving
  records,            \* the Credential Issuer's records -> session token
  \* History variables, read by no action except to keep RandomToken fresh.
  pushed,             \* every request_uri issued -> its params
  deferred,           \* every session token issued -> its request_uri
  marked,             \* every cookie issued -> its session token and record
  issued,             \* every code issued -> its request_uri and record
  answers             \* the redirects returned for each session token

store == <<parRequests, pendingAuth, identifiedSessions, identifyReplay,
           authCodes>>
history == <<pushed, deferred, marked, issued, answers>>
vars == <<now, store, req, records, history>>

-----------------------------------------------------------------------------
\* Types

Redirects == {"authorize", "denied"}

Outcomes == Redirects \cup
  {"code", "identify", "bad_request_uri", "bad_client", "unavailable",
   "invalid_session", "missing_scope", "bad_redirect_uri"}

PCs == {"idle", "issuer_state", "consume_par", "identified", "create_code",
        "consume_pending", "create_record", "mark", "store_replay", "done"}

Request ==
  [pc      : PCs,
   op      : {"authorize", "complete", "reject", Absent},
   uri     : RequestURIs \cup {Absent},
   cookie  : Cookies \cup {Absent},
   token   : SessionTokens \cup {Absent},
   params  : Params \cup {NoParams},
   record  : RecordIDs \cup {Absent},
   outcome : Outcomes \cup {Absent}]

Idle == [pc |-> "idle", op |-> Absent, uri |-> Absent, cookie |-> Absent,
         token |-> Absent, params |-> NoParams, record |-> Absent,
         outcome |-> Absent]

\* identifiedSessionEntry
IdentifiedEntry == [uri : RequestURIs, record : RecordIDs, params : Params,
                    at : Nat]

\* session.Data with authCodeMetadata's keys
AuthCodeData == [record : RecordIDs, client : Clients, challenge : Challenges,
                 jkt : Keys \cup {Absent}, at : Nat]

TypeOK ==
  /\ now \in Nat
  /\ IsMap(parRequests, RequestURIs, [params : Params, at : Nat])
  /\ IsMap(pendingAuth, SessionTokens, [params : Params, uri : RequestURIs])
  /\ IsMap(identifiedSessions, Cookies, IdentifiedEntry)
  /\ IsMap(identifyReplay, SessionTokens,
           [to : Redirects, uri : RequestURIs, expiry : Nat])
  /\ IsMap(authCodes, Codes, AuthCodeData)
  /\ req \in [Threads -> Request]
  /\ IsMap(records, Records, SessionTokens)
  /\ IsMap(pushed, RequestURIs, Params)
  /\ IsMap(deferred, SessionTokens, RequestURIs)
  /\ IsMap(marked, Cookies, [token : SessionTokens, record : RecordIDs])
  /\ IsMap(issued, Codes, [uri : RequestURIs, record : RecordIDs])
  /\ answers \subseteq [token : SessionTokens, to : Redirects,
                        uri : RequestURIs]

Init ==
  /\ now = 0
  /\ parRequests = EmptyMap
  /\ pendingAuth = EmptyMap
  /\ identifiedSessions = EmptyMap
  /\ identifyReplay = EmptyMap
  /\ authCodes = EmptyMap
  /\ req = [t \in Threads |-> Idle]
  /\ records = EmptyMap
  /\ pushed = EmptyMap
  /\ deferred = EmptyMap
  /\ marked = EmptyMap
  /\ issued = EmptyMap
  /\ answers = {}

-----------------------------------------------------------------------------
\* Steps of a request: go on at pc, or answer with outcome.

Goto(t, pc) == req' = [req EXCEPT ![t].pc = pc]

Answer(t, outcome) == req' = [req EXCEPT ![t].pc = "done",
                                         ![t].outcome = outcome]

\* The response leaves the server (whether or not it reaches the client).
Reply(t) ==
  /\ req[t].pc = "done"
  /\ req' = [req EXCEPT ![t] = Idle]
  /\ UNCHANGED <<now, store, records, history>>

-----------------------------------------------------------------------------
\* POST /oid4vci/v1/par

ParAccepted(in) ==
  /\ ~in.requestURI
  /\ in.attested \in Clients
  /\ in.responseType \in {Absent, "code"}
  /\ in.challenge # Absent
  /\ in.method = "S256"
  /\ in.proof # "error"
  /\ in.proof # Absent /\ in.jkt # Absent => in.jkt = in.proof

ParParams(in) ==
  [client      |-> in.attested,
   clientID    |-> in.clientID,
   challenge   |-> in.challenge,
   jkt         |-> IF in.proof # Absent THEN in.proof ELSE in.jkt,
   issuerState |-> in.issuerState,
   scope       |-> in.scope,
   redirectURI |-> in.redirectURI]

\* A refused request changes nothing here.  (Whether its DPoP proof's jti is
\* spent is the business of the proof store, which is not part of this module.)
HandlePar(in, u) ==
  /\ ParAccepted(in)
  /\ u \notin DOMAIN pushed
  /\ parRequests' = Put(parRequests, u, [params |-> ParParams(in), at |-> now])
  /\ pushed' = Put(pushed, u, ParParams(in))
  /\ UNCHANGED <<now, pendingAuth, identifiedSessions, identifyReplay,
                 authCodes, req, records, deferred, marked, issued, answers>>

-----------------------------------------------------------------------------
\* GET /oid4vci/v1/authorize

ParRequestLive(u) ==
  /\ u \in DOMAIN parRequests
  /\ now - parRequests[u].at <= ParTTL

\* Mutant: every visit uses the request_uri up.
PeekParRequestDestructive(u) == parRequests' = Delete(parRequests, u)

\* An expired entry is deleted, a live one stays.
PeekParRequest(u) ==
  parRequests' = IF ParRequestLive(u) THEN parRequests
                                      ELSE Delete(parRequests, u)

\* Mutant: the completing branch peeks too.
ConsumeParRequestPeek(u) == PeekParRequest(u)

ConsumeParRequest(u) == parRequests' = Delete(parRequests, u)

\* q is the query's client_id and k its cookie; both may be absent.
HandleAuthorize(t, u, q, k) ==
  /\ req[t].pc = "idle"
  /\ PeekParRequest(u)
  /\ LET start(pc, params, outcome) ==
           req' = [req EXCEPT ![t] = [Idle EXCEPT
                     !.pc = pc, !.op = "authorize", !.uri = u, !.cookie = k,
                     !.params = params, !.outcome = outcome]]
         params == parRequests[u].params
     IN \/ /\ ~ParRequestLive(u)
           /\ start("done", NoParams, "bad_request_uri")
        \/ /\ ParRequestLive(u)
           /\ q # Absent /\ params.clientID # Absent /\ q # params.clientID
           /\ start("done", NoParams, "bad_client")
        \/ /\ ParRequestLive(u)
           /\ Absent \in {q, params.clientID} \/ q = params.clientID
           /\ IF params.issuerState # Absent
                THEN start("issuer_state", params, Absent)
                ELSE start("identified", params, Absent)
  /\ UNCHANGED <<now, pendingAuth, identifiedSessions, identifyReplay,
                 authCodes, records, history>>

\* issuerclient.FindByIssuerState: the Credential Issuer finds the offer's
\* record, does not find it (a stale offer), or cannot be reached.
FindByIssuerState(t) ==
  /\ req[t].pc = "issuer_state"
  /\ \/ req' = [req EXCEPT ![t].pc = "consume_par",
                           ![t].record = req[t].params.issuerState]
     \/ Goto(t, "identified")
     \/ Answer(t, "unavailable")
  /\ UNCHANGED <<now, store, records, history>>

\* The Credential Issuer's own offer completes at once.
CompleteOffer(t) ==
  LET u == req[t].uri
  IN /\ req[t].pc = "consume_par"
     /\ ConsumeParRequest(u)
     /\ \/ /\ ParRequestLive(u)
           /\ req' = [req EXCEPT ![t].pc = "create_code",
                                 ![t].params = parRequests[u].params]
        \/ /\ ~ParRequestLive(u)
           /\ Answer(t, "bad_request_uri")
     /\ UNCHANGED <<now, pendingAuth, identifiedSessions, identifyReplay,
                    authCodes, records, history>>

\* Mutant: any live identification will do.
IdentifiedForAny(k, u) ==
  /\ k \in DOMAIN identifiedSessions
  /\ now - identifiedSessions[k].at <= IdentifiedTTL

\* Cookie k names a live identification for exactly request_uri u.
Identified(k, u) ==
  /\ k \in DOMAIN identifiedSessions
  /\ now - identifiedSessions[k].at <= IdentifiedTTL
  /\ identifiedSessions[k].uri = u

\* The second visit: the params and the record are the identification's.
CheckIdentified(t) ==
  LET k == req[t].cookie
  IN /\ req[t].pc = "identified"
     /\ Identified(k, req[t].uri)
     /\ req' = [req EXCEPT ![t].pc = "create_code",
                           ![t].params = identifiedSessions[k].params,
                           ![t].record = identifiedSessions[k].record]
     /\ UNCHANGED <<now, store, records, history>>

\* The first visit: defer to identification; request_uri stays usable.
StorePendingAuth(t, token) ==
  LET r == req[t]
  IN /\ r.pc = "identified"
     /\ ~Identified(r.cookie, r.uri)
     /\ token \notin DOMAIN deferred
     /\ pendingAuth' = Put(pendingAuth, token,
                           [params |-> r.params, uri |-> r.uri])
     /\ deferred' = Put(deferred, token, r.uri)
     /\ Answer(t, "identify")
     /\ UNCHANGED <<now, parRequests, identifiedSessions, identifyReplay,
                    authCodes, records, pushed, marked, issued, answers>>

\* Mutant: dpop_jkt is not copied from the params.
AuthCodeMetadataUnbound(record, params) ==
  [record |-> record, client |-> params.client,
   challenge |-> params.challenge, jkt |-> Absent, at |-> now]

AuthCodeMetadata(record, params) ==
  [record |-> record, client |-> params.client,
   challenge |-> params.challenge, jkt |-> params.jkt, at |-> now]

\* Only once the code exists does the HTTP handler build the redirect that
\* carries it, and it shows an error page when redirect_uri does not parse.
CreateAuthCode(t, code) ==
  LET r == req[t]
  IN /\ r.pc = "create_code"
     /\ code \notin DOMAIN issued
     /\ authCodes' = Put(authCodes, code, AuthCodeMetadata(r.record, r.params))
     /\ issued' = Put(issued, code, [uri |-> r.uri, record |-> r.record])
     /\ Answer(t, IF r.params.redirectURI = "malformed"
                    THEN "bad_redirect_uri" ELSE "code")
     /\ UNCHANGED <<now, parRequests, pendingAuth, identifiedSessions,
                    identifyReplay, records, pushed, deferred, marked, answers>>

-----------------------------------------------------------------------------
\* POST /identify/complete and POST /identify/reject

ReplayLive(token) ==
  /\ token \in DOMAIN identifyReplay
  /\ now <= identifyReplay[token].expiry

\* GetIdentifyReplay, the first step of both handlers: a retried POST gets
\* the cached redirect back (and no cookie).
GetIdentifyReplay(t, op, token) ==
  LET start(pc, outcome) ==
        req' = [req EXCEPT ![t] = [Idle EXCEPT
                  !.pc = pc, !.op = op, !.token = token, !.outcome = outcome]]
      cached == identifyReplay[token]
  IN /\ req[t].pc = "idle"
     /\ \/ /\ ReplayLive(token)
           /\ start("done", cached.to)
           /\ answers' = answers \cup
                {[token |-> token, to |-> cached.to, uri |-> cached.uri]}
        \/ /\ ~ReplayLive(token)
           /\ start("consume_pending", Absent)
           /\ answers' = answers
     /\ UNCHANGED <<now, store, records, pushed, deferred, marked, issued>>

\* Mutant: the pending authorization is only looked up.
TakePendingAuthPeek(token) == UNCHANGED pendingAuth

TakePendingAuth(token) == pendingAuth' = Delete(pendingAuth, token)

\* The pending authorization is gone from here on, whatever follows.  A
\* completion needs a scope, a rejection a redirect_uri that parses.
ConsumePendingAuth(t) ==
  LET token == req[t].token
      entry == pendingAuth[token]
      load(pc, outcome) ==
        req' = [req EXCEPT ![t].pc = pc, ![t].outcome = outcome,
                           ![t].uri = entry.uri, ![t].params = entry.params]
  IN /\ req[t].pc = "consume_pending"
     /\ TakePendingAuth(token)
     /\ \/ /\ token \notin DOMAIN pendingAuth
           /\ Answer(t, "invalid_session")
        \/ /\ token \in DOMAIN pendingAuth
           /\ req[t].op = "complete"
           /\ IF entry.params.scope = Absent THEN load("done", "missing_scope")
                                             ELSE load("create_record", Absent)
        \/ /\ token \in DOMAIN pendingAuth
           /\ req[t].op = "reject"
           /\ IF entry.params.redirectURI = "malformed"
                THEN load("done", "bad_redirect_uri")
                ELSE load("store_replay", Absent)
     /\ UNCHANGED <<now, parRequests, identifiedSessions, identifyReplay,
                    authCodes, records, history>>

\* issuerclient.Create: the record is created and its id returned; or the
\* call fails, before or after the Credential Issuer created the record (a
\* timeout, a connection the browser closed).
CreateRecord(t) ==
  /\ req[t].pc = "create_record"
  /\ \/ /\ \E id \in Records \ DOMAIN records :
             /\ records' = Put(records, id, req[t].token)
             /\ \/ req' = [req EXCEPT ![t].pc = "mark", ![t].record = id]
                \/ Answer(t, "unavailable")
     \/ /\ records' = records
        /\ Answer(t, "unavailable")
  /\ UNCHANGED <<now, store, history>>

MarkIdentified(t, k) ==
  LET r == req[t]
  IN /\ r.pc = "mark"
     /\ k \notin DOMAIN marked
     /\ identifiedSessions' =
          Put(identifiedSessions, k, [uri |-> r.uri, record |-> r.record,
                                      params |-> r.params, at |-> now])
     /\ marked' = Put(marked, k, [token |-> r.token, record |-> r.record])
     /\ req' = [req EXCEPT ![t].pc = "store_replay", ![t].cookie = k]
     /\ UNCHANGED <<now, parRequests, pendingAuth, identifyReplay, authCodes,
                    records, pushed, deferred, issued, answers>>

\* The last step of both handlers.  A completion redirects back to
\* /authorize with the same request_uri, a rejection to the client's
\* redirect_uri with access_denied (named here by its request_uri).
StoreIdentifyReplay(t) ==
  LET r  == req[t]
      to == IF r.op = "complete" THEN "authorize" ELSE "denied"
  IN /\ r.pc = "store_replay"
     /\ identifyReplay' = Put(identifyReplay, r.token,
          [to |-> to, uri |-> r.uri, expiry |-> now + ReplayTTL])
     /\ answers' = answers \cup {[token |-> r.token, to |-> to, uri |-> r.uri]}
     /\ Answer(t, to)
     /\ UNCHANGED <<now, parRequests, pendingAuth, identifiedSessions,
                    authCodes, records, pushed, deferred, marked, issued>>

-----------------------------------------------------------------------------
\* The environment

Tick ==
  /\ now < MaxTime
  /\ now' = now + 1
  /\ UNCHANGED <<store, req, records, history>>

\* The process restarts: NewStore is empty and every request in progress is
\* lost.  What was handed out before is still in the hands of its holders.
Restart ==
  /\ parRequests' = EmptyMap
  /\ pendingAuth' = EmptyMap
  /\ identifiedSessions' = EmptyMap
  /\ identifyReplay' = EmptyMap
  /\ authCodes' = EmptyMap
  /\ req' = [t \in Threads |-> Idle]
  /\ UNCHANGED <<now, records, history>>

Arrive(t) ==
  \/ \E u \in DOMAIN pushed, q \in Clients \cup {Absent},
        k \in DOMAIN marked \cup {Absent} : HandleAuthorize(t, u, q, k)
  \/ \E op \in {"complete", "reject"}, token \in DOMAIN deferred :
        GetIdentifyReplay(t, op, token)

Continue(t) ==
  \/ FindByIssuerState(t)
  \/ CompleteOffer(t)
  \/ CheckIdentified(t)
  \/ \E token \in SessionTokens : StorePendingAuth(t, token)
  \/ \E code \in Codes : CreateAuthCode(t, code)
  \/ ConsumePendingAuth(t)
  \/ CreateRecord(t)
  \/ \E k \in Cookies : MarkIdentified(t, k)
  \/ StoreIdentifyReplay(t)

Next ==
  \/ \E in \in ParInputs, u \in RequestURIs : HandlePar(in, u)
  \/ \E t \in Threads : Arrive(t) \/ Continue(t) \/ Reply(t)
  \/ Tick
  \/ Restart

Spec == Init /\ [][Next]_vars

-----------------------------------------------------------------------------
\* Properties

\* Every authorization code that can be redeemed carries the client, the PKCE
\* challenge and the DPoP key of the request_uri it answers, and the record
\* it stands for is either the one that request's own issuer_state points at,
\* or one the Credential Issuer created for an identification session that
\* was opened for exactly that request_uri (HandleAuthorize, CheckIdentified).
CodeBacked ==
  \A c \in DOMAIN authCodes :
    /\ c \in DOMAIN issued
    /\ issued[c].uri \in DOMAIN pushed
    /\ LET d == authCodes[c]
           u == issued[c].uri
           p == pushed[u]
       IN /\ d.client = p.client /\ d.challenge = p.challenge /\ d.jkt = p.jkt
          /\ \/ d.record = p.issuerState
             \/ /\ d.record \in DOMAIN records
                /\ records[d.record] \in DOMAIN deferred
                /\ deferred[records[d.record]] = u

\* A request_uri completed through its offer's issuer_state yields one code,
\* however many visits to /authorize race for it (ConsumeParRequest).
OneCodePerOffer ==
  \A c, d \in DOMAIN issued :
    issued[c] = issued[d] /\ issued[c].record \in IssuerStates => c = d

\* All the redirects ever returned for one identification session, by either
\* handler, first answers and replays alike, are the same redirect.
SessionAnswersAgree ==
  \A a, b \in answers : a.token = b.token => a = b

\* An identification session creates at most one issuance record, and none
\* when the user was told that access was denied: "a session can be completed
\* or rejected, but not both" (RejectIdentification).
CompletedOrRejected ==
  /\ \A r, s \in DOMAIN records : records[r] = records[s] => r = s
  /\ \A r \in DOMAIN records, a \in answers :
       a.to = "denied" => a.token # records[r]

\* Every live request_uri that leaves the store in this step leaves it for a
\* request that goes on to create its authorization code, or in a restart.
BurnsOnlyToComplete ==
  \A u \in DOMAIN parRequests :
    ParRequestLive(u) /\ u \notin DOMAIN parRequests' =>
      \/ \E t \in Threads : /\ req[t].pc = "consume_par"
                            /\ req'[t].pc = "create_code"
                            /\ req'[t].uri = u
      \/ \A t \in Threads : req'[t] = Idle

\* No error and no detour through identification uses a live request_uri up
\* (PeekParRequest, FAPI 2.0 5.3.2.2).
OnlyCompletionBurns == [][BurnsOnlyToComplete]_vars

=============================================================================
