--------------------------- MODULE AuthorizeProofs ---------------------------
(***************************************************************************)
(* The safety properties of Authorize, for every number of concurrent      *)
(* requests, request_uris, sessions and codes, and every choice of the     *)
(* lifetimes: the inductive invariant AuthInv, one lemma for each action   *)
(* that it is preserved, and the theorems.                                 *)
(***************************************************************************)
EXTENDS Authorize, GoMapsProofs

-----------------------------------------------------------------------------
\* The inductive invariant

\* Record x is one that request_uri u may be completed with: its offer's, or
\* one created for a session that was deferred for u.
RecordFor(x, u) ==
  \/ x \in IssuerStates /\ x = pushed[u].issuerState
  \/ /\ x \in DOMAIN records
     /\ deferred[records[x]] = u

\* Everything in the store carries the params its request_uri was pushed
\* with.
StoreBacked ==
  /\ \A u \in DOMAIN parRequests :
       u \in DOMAIN pushed /\ parRequests[u].params = pushed[u]
  /\ \A s \in DOMAIN deferred : deferred[s] \in DOMAIN pushed
  /\ \A s \in DOMAIN pendingAuth :
       /\ s \in DOMAIN deferred
       /\ pendingAuth[s].uri = deferred[s]
       /\ pendingAuth[s].params = pushed[deferred[s]]
  /\ \A x \in DOMAIN records : records[x] \in DOMAIN deferred
  /\ \A k \in DOMAIN identifiedSessions :
       LET e == identifiedSessions[k]
       IN /\ e.uri \in DOMAIN pushed /\ e.params = pushed[e.uri]
          /\ e.record \in DOMAIN records /\ deferred[records[e.record]] = e.uri
  /\ \A c \in DOMAIN issued : issued[c].uri \in DOMAIN pushed

\* What request r has read so far belongs together.
AtAuthorize(r) == r.pc \in {"issuer_state", "consume_par", "identified",
                            "create_code"}
AtIdentify(r) == r.pc \in {"create_record", "mark", "store_replay"}

RequestBacked(r) ==
  /\ AtAuthorize(r) => r.uri \in DOMAIN pushed /\ r.params = pushed[r.uri]
  /\ r.pc \in {"issuer_state", "consume_par"} =>
       r.params.issuerState \in IssuerStates
  /\ r.pc = "consume_par" => r.record = r.params.issuerState
  /\ r.pc = "create_code" => RecordFor(r.record, r.uri)
  /\ r.pc = "consume_pending" => r.token \in DOMAIN deferred
  /\ AtIdentify(r) => /\ r.token \in DOMAIN deferred
                      /\ r.uri = deferred[r.token]
                      /\ r.params = pushed[r.uri]
  /\ r.pc \in {"create_record", "mark"} => r.op = "complete"
  /\ r.pc = "mark" => r.record \in DOMAIN records /\ records[r.record] = r.token

RequestsBacked == \A t \in Threads : RequestBacked(req[t])

\* A request about to create the code of an offer holds its request_uri
\* alone, and the request_uri is out of the store.
HoldsOffer(r) == r.pc = "create_code" /\ r.record \in IssuerStates

OffersExclusive ==
  /\ \A c \in DOMAIN issued :
       issued[c].record \in IssuerStates =>
         /\ issued[c].uri \notin DOMAIN parRequests
         /\ \A d \in DOMAIN issued :
              /\ issued[d].record \in IssuerStates
              /\ issued[d].uri = issued[c].uri
              => c = d
         /\ \A t \in Threads : HoldsOffer(req[t]) => req[t].uri # issued[c].uri
  /\ \A t \in Threads :
       HoldsOffer(req[t]) =>
         /\ req[t].uri \notin DOMAIN parRequests
         /\ \A o \in Threads :
              HoldsOffer(req[o]) /\ req[o].uri = req[t].uri => o = t

\* Nothing has come of session s.
Untouched(s) ==
  /\ s \notin DOMAIN identifyReplay
  /\ \A a \in answers : a.token # s

NoRecord(s) == \A x \in DOMAIN records : records[x] # s

\* A pending authorization is untouched; the request that took it holds it
\* alone until it stores its answer.
SessionsExclusive ==
  /\ \A s \in DOMAIN pendingAuth : Untouched(s) /\ NoRecord(s)
  /\ \A s \in DOMAIN identifyReplay :
       [token |-> s, to |-> identifyReplay[s].to, uri |-> identifyReplay[s].uri]
         \in answers
  /\ \A a \in answers : a.token \in DOMAIN deferred
  /\ \A t \in Threads :
       AtIdentify(req[t]) =>
         /\ req[t].token \notin DOMAIN pendingAuth
         /\ Untouched(req[t].token)
         /\ req[t].pc = "create_record" \/ req[t].op # "complete" =>
              NoRecord(req[t].token)
         /\ \A o \in Threads :
              AtIdentify(req[o]) /\ req[o].token = req[t].token => o = t

AuthInv ==
  /\ TypeOK
  /\ StoreBacked
  /\ RequestsBacked
  /\ CodeBacked
  /\ OffersExclusive
  /\ SessionsExclusive
  /\ SessionAnswersAgree
  /\ CompletedOrRejected

-----------------------------------------------------------------------------
\* Steps of requests

\* Nothing has been stored, pushed or answered when the server starts.
LEMMA InitInv == Init => AuthInv
<1> SUFFICES ASSUME Init PROVE AuthInv
  OBVIOUS
<1>1. Idle \in Request
  BY DEF Idle, Request, PCs, Outcomes, Redirects, Absent
<1>2. TypeOK
  BY <1>1, EmptyFacts DEF Init, TypeOK
<1>3. /\ DOMAIN parRequests = {} /\ DOMAIN pendingAuth = {}
      /\ DOMAIN identifiedSessions = {} /\ DOMAIN identifyReplay = {}
      /\ DOMAIN authCodes = {} /\ DOMAIN records = {}
      /\ DOMAIN deferred = {} /\ DOMAIN issued = {}
      /\ answers = {}
  BY EmptyFacts DEF Init
<1>4. \A t \in Threads : req[t].pc = "idle"
  BY DEF Init, Idle
<1>5. StoreBacked
  BY <1>3 DEF StoreBacked
<1>6. RequestsBacked
  BY <1>4 DEF RequestsBacked, RequestBacked, AtAuthorize, AtIdentify
<1>7. OffersExclusive
  BY <1>3, <1>4 DEF OffersExclusive, HoldsOffer
<1>8. SessionsExclusive
  BY <1>3, <1>4 DEF SessionsExclusive, AtIdentify
<1> QED
  BY <1>2, <1>3, <1>5, <1>6, <1>7, <1>8
  DEF AuthInv, CodeBacked, SessionAnswersAgree, CompletedOrRejected

\* A request that answers keeps everything else it has read.
LEMMA AnswerFacts ==
  ASSUME req \in [Threads -> Request], NEW t \in Threads,
         NEW o \in Outcomes, Answer(t, o)
  PROVE  \E r \in Request : /\ req' = [req EXCEPT ![t] = r]
                            /\ r.pc = "done"
<1> DEFINE r == [req[t] EXCEPT !.pc = "done", !.outcome = o]
<1>1. req[t] \in Request
  OBVIOUS
<1>2. r \in Request
  BY <1>1, Zenon DEF Request, PCs
<1>3. r.pc = "done"
  BY <1>1 DEF Request
<1>4. req' = [req EXCEPT ![t] = r]
  BY <1>1, Zenon DEF Answer
<1> HIDE DEF r
<1> QED
  BY <1>2, <1>3, <1>4, Zenon

\* What the requests in progress have read still belongs together when one
\* of them moves on and nothing it may have read from changes.
LEMMA OneRequestMoves ==
  ASSUME AuthInv, UNCHANGED <<pushed, deferred, records>>,
         NEW t \in Threads, NEW r, RequestBacked(r), req'[t] = r,
         \A o \in Threads : o # t => req'[o] = req[o]
  PROVE  RequestsBacked'
<1>1. ASSUME NEW x, RequestBacked(x) PROVE RequestBacked(x)'
  BY <1>1 DEF RequestBacked, RecordFor
<1>2. \A o \in Threads : RequestBacked(req'[o])
  BY Zenon DEF AuthInv, RequestsBacked
<1> QED
  BY <1>1, <1>2, Zenon DEF RequestsBacked

\* No request comes to hold an offer: what holds one still holds it alone.
LEMMA OffersKept ==
  ASSUME AuthInv, UNCHANGED issued,
         DOMAIN parRequests' \subseteq DOMAIN parRequests,
         \A o \in Threads : HoldsOffer(req'[o]) =>
           HoldsOffer(req[o]) /\ req'[o].uri = req[o].uri
  PROVE  OffersExclusive'
<1>1. OffersExclusive
  BY Zenon DEF AuthInv
<1>2. ASSUME NEW c \in DOMAIN issued, issued[c].record \in IssuerStates
      PROVE  /\ issued[c].uri \notin DOMAIN parRequests'
             /\ \A d \in DOMAIN issued :
                  /\ issued[d].record \in IssuerStates
                  /\ issued[d].uri = issued[c].uri
                  => c = d
             /\ \A t \in Threads : HoldsOffer(req'[t]) => req'[t].uri # issued[c].uri
  BY <1>1, <1>2, Zenon DEF OffersExclusive
<1>3. ASSUME NEW t \in Threads, HoldsOffer(req'[t])
      PROVE  /\ req'[t].uri \notin DOMAIN parRequests'
             /\ \A o \in Threads :
                  HoldsOffer(req'[o]) /\ req'[o].uri = req'[t].uri => o = t
  BY <1>1, <1>3, Zenon DEF OffersExclusive
<1> QED
  BY <1>2, <1>3, Zenon DEF OffersExclusive

\* No request comes to hold a session and no session gets an answer or a
\* record: what holds one still holds it alone.
LEMMA SessionsKept ==
  ASSUME AuthInv, UNCHANGED <<identifyReplay, answers, deferred, records>>,
         DOMAIN pendingAuth' \subseteq DOMAIN pendingAuth,
         \A o \in Threads : AtIdentify(req'[o]) =>
           /\ AtIdentify(req[o]) /\ req'[o].token = req[o].token
           /\ req'[o].op = req[o].op
           /\ req'[o].pc = "create_record" => req[o].pc = "create_record"
  PROVE  SessionsExclusive'
<1>1. SessionsExclusive
  BY Zenon DEF AuthInv
<1>2. /\ identifyReplay' = identifyReplay /\ answers' = answers
      /\ deferred' = deferred /\ records' = records
  OBVIOUS
<1>3. \A s : Untouched(s)' = Untouched(s) /\ NoRecord(s)' = NoRecord(s)
  BY <1>2, Zenon DEF Untouched, NoRecord
<1>4. \A s \in DOMAIN pendingAuth' : Untouched(s)' /\ NoRecord(s)'
  BY <1>1, <1>3, Zenon DEF SessionsExclusive
<1>5. ASSUME NEW t \in Threads, AtIdentify(req'[t])
      PROVE  /\ req'[t].token \notin DOMAIN pendingAuth'
             /\ Untouched(req'[t].token)
             /\ req'[t].pc = "create_record" \/ req'[t].op # "complete" =>
                  NoRecord(req'[t].token)
             /\ \A o \in Threads :
                  AtIdentify(req'[o]) /\ req'[o].token = req'[t].token => o = t
  BY <1>1, <1>5, Zenon DEF SessionsExclusive
<1> QED
  BY <1>1, <1>2, <1>3, <1>4, <1>5, Zenon DEF SessionsExclusive

\* A step that only moves one request on, to a point where it holds neither
\* an offer nor a session, and that drops at most entries of parRequests.
LEMMA QuietStep ==
  ASSUME AuthInv, NEW t \in Threads, NEW r \in Request,
         req' = [req EXCEPT ![t] = r],
         RequestBacked(r), ~HoldsOffer(r), ~AtIdentify(r),
         IsMap(parRequests', RequestURIs, [params : Params, at : Nat]),
         DOMAIN parRequests' \subseteq DOMAIN parRequests,
         \A u \in DOMAIN parRequests' : parRequests'[u] = parRequests[u],
         UNCHANGED <<now, pendingAuth, identifiedSessions, identifyReplay,
                     authCodes, records, history>>
  PROVE  AuthInv'
<1>1. /\ req' \in [Threads -> Request]
      /\ req'[t] = r
      /\ \A u \in Threads : u # t => req'[u] = req[u]
  BY DEF AuthInv, TypeOK
<1>2. UNCHANGED <<now, pendingAuth, identifiedSessions, identifyReplay,
                  authCodes, records, pushed, deferred, marked, issued, answers>>
  BY DEF history
<1>3. TypeOK'
  BY <1>1, <1>2, Zenon DEF AuthInv, TypeOK
<1>4. StoreBacked'
  BY <1>2 DEF AuthInv, StoreBacked
<1>5. RequestsBacked'
  BY <1>1, <1>2, OneRequestMoves, Zenon
<1>6. OffersExclusive'
  BY <1>1, <1>2, OffersKept, Zenon
<1>7. SessionsExclusive'
  BY <1>1, <1>2, SessionsKept, Zenon
<1>8. CodeBacked'
  BY <1>2 DEF AuthInv, CodeBacked
<1>9. SessionAnswersAgree' /\ CompletedOrRejected'
  BY <1>2, Zenon DEF AuthInv, SessionAnswersAgree, CompletedOrRejected
<1> QED
  BY <1>3, <1>4, <1>5, <1>6, <1>7, <1>8, <1>9, Zenon DEF AuthInv

\* A request that answers without touching the session store.
LEMMA AnswerInv ==
  ASSUME AuthInv, NEW t \in Threads, NEW o \in Outcomes, Answer(t, o),
         IsMap(parRequests', RequestURIs, [params : Params, at : Nat]),
         DOMAIN parRequests' \subseteq DOMAIN parRequests,
         \A u \in DOMAIN parRequests' : parRequests'[u] = parRequests[u],
         UNCHANGED <<now, pendingAuth, identifiedSessions, identifyReplay,
                     authCodes, records, history>>
  PROVE  AuthInv'
<1>1. PICK r \in Request : req' = [req EXCEPT ![t] = r] /\ r.pc = "done"
  BY AnswerFacts DEF AuthInv, TypeOK
<1>2. RequestBacked(r) /\ ~HoldsOffer(r) /\ ~AtIdentify(r)
  BY <1>1, Zenon DEF RequestBacked, AtAuthorize, AtIdentify, HoldsOffer
<1> QED
  BY <1>1, <1>2, QuietStep, Zenon

-----------------------------------------------------------------------------
\* /par and /authorize

\* An accepted pushed request is stored with the params it was pushed with.
LEMMA HandleParInv ==
  ASSUME AuthInv, NEW in \in ParInputs, NEW u \in RequestURIs, HandlePar(in, u)
  PROVE  AuthInv'
<1> DEFINE e == [params |-> ParParams(in), at |-> now]
<1>1. ParParams(in) \in Params
  <2>1. in \in ParInput
    BY InputsAssumption, Zenon
  <2>2. in.attested \in Clients /\ in.challenge # Absent /\ in.proof # "error"
    BY DEF HandlePar, ParAccepted
  <2> QED
    BY <2>1, <2>2 DEF ParInput, ParParams, Params
<1>2. e \in [params : Params, at : Nat]
  BY <1>1 DEF AuthInv, TypeOK
<1>3. UNCHANGED <<now, pendingAuth, identifiedSessions, identifyReplay,
                  authCodes, req, records, deferred, marked, issued, answers>>
  BY DEF HandlePar
<1>4. /\ DOMAIN parRequests' = DOMAIN parRequests \cup {u}
      /\ parRequests'[u] = e
      /\ \A v \in DOMAIN parRequests : v # u => parRequests'[v] = parRequests[v]
  BY DEF HandlePar, Put
<1>5. /\ u \notin DOMAIN pushed
      /\ DOMAIN pushed' = DOMAIN pushed \cup {u}
      /\ pushed'[u] = e.params
      /\ \A v \in DOMAIN pushed : pushed'[v] = pushed[v]
  BY Zenon DEF HandlePar, Put
<1>6. TypeOK'
  <2>1. IsMap(parRequests', RequestURIs, [params : Params, at : Nat])
    BY <1>2, PutIsMap, Zenon DEF HandlePar, AuthInv, TypeOK
  <2>2. IsMap(pushed', RequestURIs, Params)
    BY <1>1, PutIsMap, Zenon DEF HandlePar, AuthInv, TypeOK
  <2> QED
    BY <1>3, <2>1, <2>2 DEF AuthInv, TypeOK
<1> HIDE DEF e
<1>7. StoreBacked'
  <2>1. \A v \in DOMAIN parRequests' :
          v \in DOMAIN pushed' /\ parRequests'[v].params = pushed'[v]
    BY <1>4, <1>5 DEF AuthInv, StoreBacked
  <2> QED
    BY <1>3, <1>5, <2>1 DEF AuthInv, StoreBacked
<1>8. RequestsBacked'
  <2> SUFFICES ASSUME NEW t \in Threads PROVE RequestBacked(req[t])'
    BY DEF RequestsBacked
  <2>1. RequestBacked(req[t])
    BY Zenon DEF AuthInv, RequestsBacked
  <2>2. AtAuthorize(req[t]) => req[t].uri \in DOMAIN pushed
    BY <2>1, Zenon DEF RequestBacked
  <2>3. AtIdentify(req[t]) => req[t].uri \in DOMAIN pushed
    BY <2>1 DEF RequestBacked, AuthInv, StoreBacked
  <2>4. AtAuthorize(req[t]) \/ AtIdentify(req[t]) =>
          req[t].uri \in DOMAIN pushed' /\ pushed'[req[t].uri] = pushed[req[t].uri]
    BY <1>5, <2>2, <2>3, Zenon
  <2>5. req[t].pc = "create_code" =>
          RecordFor(req[t].record, req[t].uri)'
    <3>1. req[t].pc = "create_code" =>
            RecordFor(req[t].record, req[t].uri) /\ AtAuthorize(req[t])
      BY <2>1, Zenon DEF RequestBacked, AtAuthorize
    <3> QED
      BY <1>3, <2>4, <3>1, Zenon DEF RecordFor
  <2> QED
    BY <1>3, <2>1, <2>4, <2>5, Zenon DEF RequestBacked, AtAuthorize, AtIdentify
<1>9. CodeBacked'
  <2>1. CodeBacked /\ authCodes' = authCodes /\ issued' = issued
    BY <1>3, Zenon DEF AuthInv
  <2>2. records' = records /\ deferred' = deferred
    BY <1>3, Zenon
  <2> QED
    BY <1>5, <2>1, <2>2 DEF CodeBacked
<1>10. OffersExclusive'
  <2>1. \A t \in Threads : HoldsOffer(req[t]) => req[t].uri \in DOMAIN pushed
    BY Zenon DEF AuthInv, RequestsBacked, RequestBacked, HoldsOffer, AtAuthorize
  <2>2. \A c \in DOMAIN issued : issued[c].uri \in DOMAIN pushed
    BY DEF AuthInv, StoreBacked
  <2>3. \A v \in DOMAIN parRequests' : v = u \/ v \in DOMAIN parRequests
    BY <1>4, Zenon
  <2>4. /\ \A t \in Threads : HoldsOffer(req[t]) => req[t].uri # u
        /\ \A c \in DOMAIN issued : issued[c].uri # u
    BY <1>5, <2>1, <2>2, Zenon
  <2> QED
    BY <1>3, <2>3, <2>4, Zenon DEF AuthInv, OffersExclusive
<1>11. SessionsExclusive'
  BY <1>3, SessionsKept, Zenon
<1> QED
  BY <1>3, <1>6, <1>7, <1>8, <1>9, <1>10, <1>11, Zenon
  DEF AuthInv, SessionAnswersAgree, CompletedOrRejected

\* A lookup of a request_uri adds nothing to parRequests.
LEMMA ParRequestFacts ==
  ASSUME TypeOK, NEW u, PeekParRequest(u) \/ ConsumeParRequest(u)
  PROVE  /\ IsMap(parRequests', RequestURIs, [params : Params, at : Nat])
         /\ DOMAIN parRequests' \subseteq DOMAIN parRequests
         /\ \A v \in DOMAIN parRequests' : parRequests'[v] = parRequests[v]
<1>1. CASE parRequests' = parRequests
  BY <1>1 DEF TypeOK
<1>2. CASE parRequests' = Delete(parRequests, u)
  <2>1. IsMap(parRequests, RequestURIs, [params : Params, at : Nat])
    BY Zenon DEF TypeOK
  <2>2. IsMap(parRequests', RequestURIs, [params : Params, at : Nat])
    BY <1>2, <2>1, DeleteIsMap, Zenon
  <2> QED
    BY <1>2, <2>2 DEF Delete, Restrict
<1> QED
  BY <1>1, <1>2 DEF PeekParRequest, ConsumeParRequest

\* A visit to /authorize reads the params of its own request_uri.
LEMMA HandleAuthorizeInv ==
  ASSUME AuthInv, NEW t \in Threads, NEW u \in DOMAIN pushed,
         NEW q, NEW k \in DOMAIN marked \cup {Absent},
         HandleAuthorize(t, u, q, k)
  PROVE  AuthInv'
<1> DEFINE r(pc, params, outcome) ==
             [Idle EXCEPT !.pc = pc, !.op = "authorize", !.uri = u,
                          !.cookie = k, !.params = params, !.outcome = outcome]
<1>1. /\ IsMap(parRequests', RequestURIs, [params : Params, at : Nat])
      /\ DOMAIN parRequests' \subseteq DOMAIN parRequests
      /\ \A v \in DOMAIN parRequests' : parRequests'[v] = parRequests[v]
  BY ParRequestFacts, Zenon DEF HandleAuthorize, AuthInv
<1>2. UNCHANGED <<now, pendingAuth, identifiedSessions, identifyReplay,
                  authCodes, records, history>>
  BY Zenon DEF HandleAuthorize
<1>3. u \in RequestURIs /\ k \in Cookies \cup {Absent}
  BY DEF AuthInv, TypeOK, IsMap
<1>4. ASSUME NEW o \in {"bad_request_uri", "bad_client"},
             req' = [req EXCEPT ![t] = r("done", NoParams, o)]
      PROVE  AuthInv'
  <2>1. r("done", NoParams, o) \in Request
    BY <1>3, Zenon DEF Idle, Request, PCs, Outcomes
  <2>2. r("done", NoParams, o).pc = "done"
    BY DEF Idle
  <2>3. /\ RequestBacked(r("done", NoParams, o))
        /\ ~HoldsOffer(r("done", NoParams, o))
        /\ ~AtIdentify(r("done", NoParams, o))
    BY <2>2 DEF RequestBacked, HoldsOffer, AtAuthorize, AtIdentify
  <2> HIDE DEF r
  <2> QED
    BY <1>1, <1>2, <1>4, <2>1, <2>3, QuietStep, Zenon
<1>5. ASSUME ParRequestLive(u),
             NEW pc \in {"issuer_state", "identified"},
             pc = "issuer_state" => parRequests[u].params.issuerState # Absent,
             req' = [req EXCEPT ![t] = r(pc, parRequests[u].params, Absent)]
      PROVE  AuthInv'
  <2> DEFINE n == r(pc, parRequests[u].params, Absent)
  <2>1. parRequests[u].params \in Params /\ parRequests[u].params = pushed[u]
    BY <1>5 DEF ParRequestLive, AuthInv, TypeOK, StoreBacked, IsMap
  <2>2. n \in Request
    BY <1>3, <2>1, Zenon DEF Idle, Request, PCs
  <2>3. n.pc = pc /\ n.uri = u /\ n.params = pushed[u]
    BY <2>1 DEF Idle
  <2> HIDE DEF n
  <2>4. RequestBacked(n) /\ ~HoldsOffer(n) /\ ~AtIdentify(n)
    BY <1>5, <2>1, <2>3
    DEF RequestBacked, HoldsOffer, AtAuthorize, AtIdentify, Params
  <2> QED
    BY <1>1, <1>2, <1>5, <2>2, <2>4, QuietStep, Zenon DEF n
<1> QED
  BY <1>4, <1>5 DEF HandleAuthorize

\* Whatever the Credential Issuer answers about an issuer_state, the visit
\* goes on with the offer's own record or without one.
LEMMA FindByIssuerStateInv ==
  ASSUME AuthInv, NEW t \in Threads, FindByIssuerState(t)
  PROVE  AuthInv'
<1>1. /\ req[t] \in Request /\ req[t].pc = "issuer_state"
      /\ req[t].uri \in DOMAIN pushed /\ req[t].params = pushed[req[t].uri]
      /\ req[t].params.issuerState \in IssuerStates
  BY DEF FindByIssuerState, AuthInv, TypeOK, RequestsBacked, RequestBacked,
         AtAuthorize
<1>2. /\ UNCHANGED <<now, pendingAuth, identifiedSessions, identifyReplay,
                     authCodes, records, history>>
      /\ UNCHANGED parRequests
      /\ IsMap(parRequests', RequestURIs, [params : Params, at : Nat])
  BY DEF FindByIssuerState, store, AuthInv, TypeOK
<1>3. CASE req' = [req EXCEPT ![t].pc = "consume_par",
                              ![t].record = req[t].params.issuerState]
  <2> DEFINE n == [req[t] EXCEPT !.pc = "consume_par",
                                 !.record = req[t].params.issuerState]
  <2>1. n \in Request
    BY <1>1, Zenon DEF Request, PCs, RecordIDs
  <2>2. /\ n.pc = "consume_par" /\ n.uri = req[t].uri
        /\ n.params = req[t].params /\ n.record = req[t].params.issuerState
    BY <1>1 DEF Request
  <2>3. req' = [req EXCEPT ![t] = n]
    BY <1>1, <1>3, Zenon
  <2> HIDE DEF n
  <2>4. RequestBacked(n) /\ ~HoldsOffer(n) /\ ~AtIdentify(n)
    BY <1>1, <2>2 DEF RequestBacked, HoldsOffer, AtAuthorize, AtIdentify
  <2> QED
    BY <1>2, <2>1, <2>3, <2>4, QuietStep, Zenon
<1>4. CASE Goto(t, "identified")
  <2> DEFINE n == [req[t] EXCEPT !.pc = "identified"]
  <2>1. n \in Request
    BY <1>1 DEF Request, PCs
  <2>2. n.pc = "identified" /\ n.uri = req[t].uri /\ n.params = req[t].params
    BY <1>1 DEF Request
  <2>3. req' = [req EXCEPT ![t] = n]
    BY <1>1, <1>4, Zenon DEF Goto
  <2> HIDE DEF n
  <2>4. RequestBacked(n) /\ ~HoldsOffer(n) /\ ~AtIdentify(n)
    BY <1>1, <2>2 DEF RequestBacked, HoldsOffer, AtAuthorize, AtIdentify
  <2> QED
    BY <1>2, <2>1, <2>3, <2>4, QuietStep, Zenon
<1>5. CASE Answer(t, "unavailable")
  BY <1>2, <1>5, AnswerInv, Zenon DEF Outcomes
<1> QED
  BY <1>3, <1>4, <1>5, Zenon DEF FindByIssuerState

\* Of the visits that answer an offer, the one that takes its request_uri out
\* of the store creates the code.
LEMMA CompleteOfferInv ==
  ASSUME AuthInv, NEW t \in Threads, CompleteOffer(t)
  PROVE  AuthInv'
<1> DEFINE u == req[t].uri
           n == [req[t] EXCEPT !.pc = "create_code",
                               !.params = parRequests[u].params]
<1>1. /\ req[t] \in Request /\ req[t].pc = "consume_par"
      /\ u \in DOMAIN pushed
      /\ req[t].record \in IssuerStates
      /\ req[t].record = pushed[u].issuerState
  BY DEF CompleteOffer, AuthInv, TypeOK, RequestsBacked, RequestBacked,
         AtAuthorize
<1>2. /\ IsMap(parRequests', RequestURIs, [params : Params, at : Nat])
      /\ DOMAIN parRequests' \subseteq DOMAIN parRequests
      /\ \A v \in DOMAIN parRequests' : parRequests'[v] = parRequests[v]
  BY ParRequestFacts, Zenon DEF CompleteOffer, AuthInv
<1>3. u \notin DOMAIN parRequests'
  BY DEF CompleteOffer, ConsumeParRequest, Delete, Restrict
<1>4. UNCHANGED <<now, pendingAuth, identifiedSessions, identifyReplay,
                  authCodes, records, history>>
  BY DEF CompleteOffer
<1>5. CASE Answer(t, "bad_request_uri")
  BY <1>2, <1>4, <1>5, AnswerInv, Zenon DEF Outcomes
<1>6. CASE /\ ParRequestLive(u)
           /\ req' = [req EXCEPT ![t].pc = "create_code",
                                 ![t].params = parRequests[u].params]
  <2>1. /\ u \in DOMAIN parRequests
        /\ parRequests[u].params \in Params
        /\ parRequests[u].params = pushed[u]
    BY <1>6 DEF ParRequestLive, AuthInv, TypeOK, StoreBacked, IsMap
  <2>2. n \in Request
    BY <1>1, <2>1, Zenon DEF Request, PCs
  <2>3. /\ n.pc = "create_code" /\ n.uri = u
        /\ n.params = pushed[u] /\ n.record = req[t].record
    BY <1>1, <2>1 DEF Request
  <2>4. req' = [req EXCEPT ![t] = n]
    BY <1>1, <1>6, Zenon
  <2> HIDE DEF n
  <2>5. /\ req' \in [Threads -> Request]
        /\ req'[t] = n
        /\ \A o \in Threads : o # t => req'[o] = req[o]
    BY <2>2, <2>4 DEF AuthInv, TypeOK
  <2>6. UNCHANGED <<now, pendingAuth, identifiedSessions, identifyReplay,
                    authCodes, records, pushed, deferred, marked, issued,
                    answers>>
    BY <1>4, Zenon DEF history
  <2>7. RequestBacked(n) /\ ~AtIdentify(n)
    BY <1>1, <2>3, Zenon DEF RequestBacked, RecordFor, AtAuthorize, AtIdentify
  <2>8. TypeOK'
    BY <1>2, <2>5, <2>6, Zenon DEF AuthInv, TypeOK
  <2>9. StoreBacked'
    BY <1>2, <2>6 DEF AuthInv, StoreBacked
  <2>10. RequestsBacked'
    BY <2>5, <2>6, <2>7, OneRequestMoves, Zenon
  <2>11. OffersExclusive'
    <3>1. \A c \in DOMAIN issued :
            issued[c].record \in IssuerStates => issued[c].uri # u
      BY <2>1, Zenon DEF AuthInv, OffersExclusive
    <3>2. \A o \in Threads : HoldsOffer(req[o]) => req[o].uri # u
      BY <2>1, Zenon DEF AuthInv, OffersExclusive
    <3>3. OffersExclusive
      BY Zenon DEF AuthInv
    <3>4. ASSUME NEW c \in DOMAIN issued, issued[c].record \in IssuerStates
          PROVE  /\ issued[c].uri \notin DOMAIN parRequests'
                 /\ \A o \in Threads :
                      HoldsOffer(req'[o]) => req'[o].uri # issued[c].uri
      <4>1. issued[c].uri \notin DOMAIN parRequests'
        BY <1>2, <3>3, <3>4, Zenon DEF OffersExclusive
      <4>2. \A o \in Threads : HoldsOffer(req[o]) => req[o].uri # issued[c].uri
        BY <3>3, <3>4, Zenon DEF OffersExclusive
      <4>3. req'[t].uri # issued[c].uri
        BY <2>3, <2>5, <3>1, <3>4, Zenon
      <4> QED
        BY <2>5, <4>1, <4>2, <4>3, Zenon
    <3>5. ASSUME NEW o \in Threads, HoldsOffer(req'[o])
          PROVE  /\ req'[o].uri \notin DOMAIN parRequests'
                 /\ \A q \in Threads :
                      HoldsOffer(req'[q]) /\ req'[q].uri = req'[o].uri => q = o
      <4>1. req'[t].uri = u
        BY <2>3, <2>5, Zenon
      <4>2. CASE o = t
        BY <1>3, <2>5, <3>2, <4>1, <4>2, Zenon
      <4>3. CASE o # t
        <5>1. req'[o] = req[o] /\ HoldsOffer(req[o])
          BY <2>5, <3>5, <4>3, Zenon
        <5>2. /\ req[o].uri \notin DOMAIN parRequests
              /\ \A q \in Threads :
                   HoldsOffer(req[q]) /\ req[q].uri = req[o].uri => q = o
          BY <3>3, <5>1, Zenon DEF OffersExclusive
        <5> QED
          BY <1>2, <2>5, <3>2, <4>1, <5>1, <5>2, Zenon
      <4> QED
        BY <4>2, <4>3, Zenon
    <3> QED
      BY <2>6, <3>3, <3>4, <3>5, Zenon DEF OffersExclusive
  <2>12. SessionsExclusive'
    BY <2>5, <2>6, <2>7, SessionsKept, Zenon
  <2> QED
    BY <2>6, <2>8, <2>9, <2>10, <2>11, <2>12, Zenon
    DEF AuthInv, CodeBacked, SessionAnswersAgree, CompletedOrRejected
<1> QED
  BY <1>5, <1>6, Zenon DEF CompleteOffer

\* The second visit goes on with a record created for its own request_uri.
LEMMA CheckIdentifiedInv ==
  ASSUME AuthInv, NEW t \in Threads, CheckIdentified(t)
  PROVE  AuthInv'
<1> DEFINE e == identifiedSessions[req[t].cookie]
           n == [req[t] EXCEPT !.pc = "create_code", !.params = e.params,
                               !.record = e.record]
<1>1. /\ req[t] \in Request
      /\ req[t].cookie \in DOMAIN identifiedSessions
      /\ e.uri = req[t].uri
  BY Zenon DEF CheckIdentified, Identified, AuthInv, TypeOK
<1>2. /\ e.uri \in DOMAIN pushed /\ e.params = pushed[e.uri]
      /\ e.record \in DOMAIN records /\ deferred[records[e.record]] = e.uri
      /\ e.params \in Params
  BY <1>1 DEF AuthInv, StoreBacked, TypeOK, IsMap, IdentifiedEntry
<1>3. e.record \in Records /\ e.record \notin IssuerStates
  BY <1>2, NamesAssumption, Zenon DEF AuthInv, TypeOK, IsMap
<1>4. n \in Request
  BY <1>1, <1>2, <1>3, ZenonT(40) DEF Request, PCs, RecordIDs
<1>5. /\ n.pc = "create_code" /\ n.uri = req[t].uri
      /\ n.params = e.params /\ n.record = e.record
  BY <1>1 DEF Request
<1>6. req' = [req EXCEPT ![t] = n]
  BY <1>1, Zenon DEF CheckIdentified
<1> HIDE DEF n
<1>7. RequestBacked(n) /\ ~HoldsOffer(n) /\ ~AtIdentify(n)
  BY <1>1, <1>2, <1>3, <1>5, Zenon
  DEF RequestBacked, RecordFor, HoldsOffer, AtAuthorize, AtIdentify
<1>8. /\ UNCHANGED <<now, pendingAuth, identifiedSessions, identifyReplay,
                     authCodes, records, history>>
      /\ UNCHANGED parRequests
      /\ IsMap(parRequests', RequestURIs, [params : Params, at : Nat])
  BY Zenon DEF CheckIdentified, store, AuthInv, TypeOK
<1> QED
  BY <1>4, <1>6, <1>7, <1>8, QuietStep, Zenon

-----------------------------------------------------------------------------
\* New sessions and records disturb neither the requests in progress nor the
\* codes.
LEMMA Stable ==
  ASSUME AuthInv, UNCHANGED pushed,
         DOMAIN deferred \subseteq DOMAIN deferred',
         \A s \in DOMAIN deferred : deferred'[s] = deferred[s],
         DOMAIN records \subseteq DOMAIN records',
         \A x \in DOMAIN records : records'[x] = records[x]
  PROVE  /\ \A t \in Threads : req'[t] = req[t] => RequestBacked(req[t])'
         /\ UNCHANGED <<authCodes, issued>> => CodeBacked'
<1>1. ASSUME NEW t \in Threads, req'[t] = req[t]
      PROVE  RequestBacked(req[t])'
  <2>1. RequestBacked(req[t])
    BY Zenon DEF AuthInv, RequestsBacked
  <2>2. RecordFor(req[t].record, req[t].uri) => RecordFor(req[t].record, req[t].uri)'
    <3>1. \A x \in DOMAIN records : records[x] \in DOMAIN deferred
      BY Zenon DEF AuthInv, StoreBacked
    <3>2. \A x \in DOMAIN records :
            x \in DOMAIN records' /\ deferred'[records'[x]] = deferred[records[x]]
      BY <3>1, Zenon
    <3> QED
      BY <1>1, <3>2, Zenon DEF RecordFor
  <2> QED
    BY <1>1, <2>1, <2>2, Zenon DEF RequestBacked, AtAuthorize, AtIdentify
<1>2. UNCHANGED <<authCodes, issued>> => CodeBacked'
  BY DEF AuthInv, StoreBacked, CodeBacked
<1> QED
  BY <1>1, <1>2, Zenon

\* The first visit opens a session nobody has seen before.
LEMMA StorePendingAuthInv ==
  ASSUME AuthInv, NEW t \in Threads, NEW token \in SessionTokens,
         StorePendingAuth(t, token)
  PROVE  AuthInv'
<1> DEFINE r == req[t]
           e == [params |-> r.params, uri |-> r.uri]
<1>1. /\ r.uri \in DOMAIN pushed /\ r.params = pushed[r.uri]
      /\ r.uri \in RequestURIs /\ r.params \in Params
  BY DEF StorePendingAuth, AuthInv, RequestsBacked, RequestBacked,
         AtAuthorize, TypeOK, IsMap
<1>2. PICK n \in Request : req' = [req EXCEPT ![t] = n] /\ n.pc = "done"
  BY AnswerFacts, Zenon DEF StorePendingAuth, AuthInv, TypeOK, Outcomes
<1>3. /\ req' \in [Threads -> Request]
      /\ req'[t].pc = "done"
      /\ \A o \in Threads : o # t => req'[o] = req[o]
  BY <1>2, Zenon DEF AuthInv, TypeOK
<1>4. UNCHANGED <<now, parRequests, identifiedSessions, identifyReplay,
                  authCodes, records, pushed, marked, issued, answers>>
  BY Zenon DEF StorePendingAuth
<1>5. /\ DOMAIN pendingAuth' = DOMAIN pendingAuth \cup {token}
      /\ pendingAuth'[token] = e
      /\ \A s \in DOMAIN pendingAuth : s # token => pendingAuth'[s] = pendingAuth[s]
  BY Zenon DEF StorePendingAuth, Put
<1>6. /\ token \notin DOMAIN deferred
      /\ DOMAIN deferred' = DOMAIN deferred \cup {token}
      /\ deferred'[token] = r.uri
      /\ \A s \in DOMAIN deferred : deferred'[s] = deferred[s]
  BY Zenon DEF StorePendingAuth, Put
<1>7. TypeOK'
  <2>1. e \in [params : Params, uri : RequestURIs]
    BY <1>1
  <2>2. IsMap(pendingAuth', SessionTokens, [params : Params, uri : RequestURIs])
    BY <2>1, PutIsMap, Zenon DEF StorePendingAuth, AuthInv, TypeOK
  <2>3. IsMap(deferred', SessionTokens, RequestURIs)
    BY <1>1, PutIsMap, Zenon DEF StorePendingAuth, AuthInv, TypeOK
  <2> QED
    BY <1>3, <1>4, <2>2, <2>3, Zenon DEF AuthInv, TypeOK
<1>8. StoreBacked'
  <2>1. \A s \in DOMAIN pendingAuth' :
          /\ s \in DOMAIN deferred'
          /\ pendingAuth'[s].uri = deferred'[s]
          /\ pendingAuth'[s].params = pushed[deferred'[s]]
    BY <1>1, <1>5, <1>6 DEF AuthInv, StoreBacked
  <2>2. \A k \in DOMAIN identifiedSessions :
          /\ identifiedSessions[k].record \in DOMAIN records
          /\ deferred'[records[identifiedSessions[k].record]] =
               identifiedSessions[k].uri
    BY <1>6, Zenon DEF AuthInv, StoreBacked
  <2> QED
    BY <1>1, <1>4, <1>6, <2>1, <2>2, Zenon DEF AuthInv, StoreBacked
<1>9. RequestsBacked' /\ CodeBacked'
  <2>1. RequestBacked(req[t])'
    BY <1>3, Zenon DEF RequestBacked, AtAuthorize, AtIdentify
  <2> QED
    BY <1>3, <1>4, <1>6, <2>1, Stable, Zenon DEF RequestsBacked
<1>10. OffersExclusive'
  <2>1. ~HoldsOffer(req'[t])
    BY <1>3, Zenon DEF HoldsOffer
  <2> QED
    BY <1>3, <1>4, <2>1, OffersKept, Zenon
<1>11. SessionsExclusive'
  <2>1. Untouched(token) /\ NoRecord(token)
    <3>1. \A s \in DOMAIN identifyReplay : \E a \in answers : a.token = s
      BY Zenon DEF AuthInv, SessionsExclusive
    <3>2. \A a \in answers : a.token \in DOMAIN deferred
      BY Zenon DEF AuthInv, SessionsExclusive
    <3>3. NoRecord(token)
      BY <1>6, Zenon DEF AuthInv, StoreBacked, NoRecord
    <3> QED
      BY <1>6, <3>1, <3>2, <3>3 DEF Untouched
  <2>2. \A o \in Threads : AtIdentify(req[o]) => req[o].token # token
    BY <1>6, Zenon DEF AuthInv, RequestsBacked, RequestBacked
  <2>3. ~AtIdentify(req'[t])
    BY <1>3 DEF AtIdentify
  <2>4. SessionsExclusive
    BY Zenon DEF AuthInv
  <2>5. \A s : Untouched(s)' = Untouched(s) /\ NoRecord(s)' = NoRecord(s)
    BY <1>4, Zenon DEF Untouched, NoRecord
  <2>6. \A s \in DOMAIN pendingAuth' : Untouched(s) /\ NoRecord(s)
    BY <1>5, <2>1, <2>4, Zenon DEF SessionsExclusive
  <2>7. \A a \in answers' : a.token \in DOMAIN deferred'
    BY <1>4, <1>6, <2>4, Zenon DEF SessionsExclusive
  <2>8. ASSUME NEW o \in Threads, AtIdentify(req'[o])
        PROVE  /\ req'[o].token \notin DOMAIN pendingAuth'
               /\ Untouched(req'[o].token)
               /\ req'[o].pc = "create_record" \/ req'[o].op # "complete" =>
                    NoRecord(req'[o].token)
               /\ \A q \in Threads :
                    AtIdentify(req'[q]) /\ req'[q].token = req'[o].token => q = o
    <3>1. req'[o] = req[o] /\ AtIdentify(req[o]) /\ req[o].token # token
      BY <1>3, <2>2, <2>3, <2>8, Zenon
    <3>2. \A q \in Threads : AtIdentify(req'[q]) => req'[q] = req[q]
      BY <1>3, <2>3, Zenon
    <3> QED
      BY <1>5, <2>4, <3>1, <3>2, Zenon DEF SessionsExclusive
  <2> QED
    BY <1>4, <2>4, <2>5, <2>6, <2>7, <2>8, Zenon DEF SessionsExclusive
<1> QED
  BY <1>4, <1>7, <1>8, <1>9, <1>10, <1>11, Zenon
  DEF AuthInv, SessionAnswersAgree, CompletedOrRejected

\* The code carries what its request read, and an offer's is its only one.
LEMMA CreateAuthCodeInv ==
  ASSUME AuthInv, NEW t \in Threads, NEW code \in Codes,
         CreateAuthCode(t, code)
  PROVE  AuthInv'
<1> DEFINE r == req[t]
           d == AuthCodeMetadata(r.record, r.params)
           i == [uri |-> r.uri, record |-> r.record]
<1>1. /\ r.pc = "create_code"
      /\ r.uri \in DOMAIN pushed /\ r.params = pushed[r.uri]
      /\ RecordFor(r.record, r.uri)
  BY Zenon DEF CreateAuthCode, AuthInv, RequestsBacked, RequestBacked, AtAuthorize
<1>2. /\ r.uri \in RequestURIs /\ r.params \in Params
      /\ r.record \in RecordIDs
  BY <1>1, Zenon DEF AuthInv, TypeOK, IsMap, RecordFor, RecordIDs
<1>3. PICK n \in Request : req' = [req EXCEPT ![t] = n] /\ n.pc = "done"
  BY AnswerFacts, Zenon DEF CreateAuthCode, AuthInv, TypeOK, Outcomes
<1>4. /\ req' \in [Threads -> Request]
      /\ req'[t].pc = "done"
      /\ \A o \in Threads : o # t => req'[o] = req[o]
  BY <1>3, Zenon DEF AuthInv, TypeOK
<1>5. UNCHANGED <<now, parRequests, pendingAuth, identifiedSessions,
                  identifyReplay, records, pushed, deferred, marked, answers>>
  BY Zenon DEF CreateAuthCode
<1>6. /\ DOMAIN authCodes' = DOMAIN authCodes \cup {code}
      /\ authCodes'[code] = d
      /\ \A c \in DOMAIN authCodes : c # code => authCodes'[c] = authCodes[c]
  BY Zenon DEF CreateAuthCode, Put
<1>7. /\ code \notin DOMAIN issued
      /\ DOMAIN issued' = DOMAIN issued \cup {code}
      /\ issued'[code] = i
      /\ \A c \in DOMAIN issued : issued'[c] = issued[c]
  BY Zenon DEF CreateAuthCode, Put
<1>8. TypeOK'
  <2>1. d \in AuthCodeData
    BY <1>2, Zenon DEF AuthCodeMetadata, AuthCodeData, Params, AuthInv, TypeOK
  <2>2. IsMap(authCodes', Codes, AuthCodeData)
    BY <2>1, PutIsMap DEF CreateAuthCode, AuthInv, TypeOK
  <2>3. IsMap(issued', Codes, [uri : RequestURIs, record : RecordIDs])
    BY <1>2, PutIsMap, Zenon DEF CreateAuthCode, AuthInv, TypeOK
  <2> QED
    BY <1>4, <1>5, <2>2, <2>3, Zenon DEF AuthInv, TypeOK
<1>9. StoreBacked'
  <2>1. \A c \in DOMAIN issued' : issued'[c].uri \in DOMAIN pushed
    BY <1>1, <1>7 DEF AuthInv, StoreBacked
  <2> QED
    BY <1>5, <2>1, Zenon DEF AuthInv, StoreBacked
<1>10. RequestsBacked'
  <2>1. RequestBacked(req'[t])
    BY <1>4, Zenon DEF RequestBacked, AtAuthorize, AtIdentify
  <2> QED
    BY <1>4, <1>5, <2>1, OneRequestMoves, Zenon
<1>11. CodeBacked'
  <2>1. /\ d.client = pushed[r.uri].client /\ d.jkt = pushed[r.uri].jkt
        /\ d.challenge = pushed[r.uri].challenge /\ d.record = r.record
    BY <1>1, Zenon DEF AuthCodeMetadata
  <2>2. \/ d.record = pushed[r.uri].issuerState
        \/ /\ d.record \in DOMAIN records
           /\ records[d.record] \in DOMAIN deferred
           /\ deferred[records[d.record]] = r.uri
    BY <1>1, <2>1, Zenon DEF RecordFor, AuthInv, StoreBacked
  <2>3. issued'[code].uri = r.uri
    BY <1>7
  <2> HIDE DEF d, i
  <2> DEFINE Bound(f, u) ==
        /\ u \in DOMAIN pushed
        /\ f.client = pushed[u].client /\ f.challenge = pushed[u].challenge
        /\ f.jkt = pushed[u].jkt
        /\ \/ f.record = pushed[u].issuerState
           \/ /\ f.record \in DOMAIN records
              /\ records[f.record] \in DOMAIN deferred
              /\ deferred[records[f.record]] = u
  <2>4. \A c \in DOMAIN authCodes :
          c \in DOMAIN issued /\ Bound(authCodes[c], issued[c].uri)
    BY Zenon DEF AuthInv, CodeBacked
  <2>5. Bound(d, r.uri)
    BY <1>1, <2>1, <2>2, Zenon
  <2>6. SUFFICES \A c \in DOMAIN authCodes' :
                   c \in DOMAIN issued' /\ Bound(authCodes'[c], issued'[c].uri)
    BY <1>5, Zenon DEF CodeBacked
  <2> HIDE DEF Bound
  <2> QED
    BY <1>6, <1>7, <2>3, <2>4, <2>5, Zenon
<1>12. OffersExclusive'
  <2>1. ~HoldsOffer(req'[t])
    BY <1>4 DEF HoldsOffer
  <2>2. r.record \in IssuerStates =>
          /\ r.uri \notin DOMAIN parRequests
          /\ \A c \in DOMAIN issued :
               issued[c].record \in IssuerStates => issued[c].uri # r.uri
          /\ \A o \in Threads \ {t} : HoldsOffer(req[o]) => req[o].uri # r.uri
    BY <1>1, Zenon DEF AuthInv, OffersExclusive, HoldsOffer
  <2>3. \A o \in Threads :
          HoldsOffer(req'[o]) => o # t /\ req'[o] = req[o] /\ HoldsOffer(req[o])
    BY <1>4, <2>1, Zenon
  <2>4. issued'[code].uri = r.uri /\ issued'[code].record = r.record
    BY <1>7
  <2>5. OffersExclusive
    BY Zenon DEF AuthInv
  <2>6. ASSUME NEW c \in DOMAIN issued', issued'[c].record \in IssuerStates
        PROVE  /\ issued'[c].uri \notin DOMAIN parRequests
               /\ \A o \in Threads :
                    HoldsOffer(req'[o]) => req'[o].uri # issued'[c].uri
    <3>1. CASE c = code
      BY <2>2, <2>3, <2>4, <2>6, <3>1, Zenon
    <3>2. CASE c # code
      <4>1. c \in DOMAIN issued /\ issued'[c] = issued[c]
        BY <1>7, <2>6, <3>2, Zenon
      <4>2. /\ issued[c].uri \notin DOMAIN parRequests
            /\ \A o \in Threads : HoldsOffer(req[o]) => req[o].uri # issued[c].uri
        BY <2>5, <2>6, <4>1, Zenon DEF OffersExclusive
      <4> QED
        BY <2>3, <4>1, <4>2, Zenon
    <3> QED
      BY <3>1, <3>2, Zenon
  <2>7. ASSUME NEW c \in DOMAIN issued', issued'[c].record \in IssuerStates,
               NEW q \in DOMAIN issued', issued'[q].record \in IssuerStates,
               issued'[q].uri = issued'[c].uri
        PROVE  c = q
    <3>1. CASE c = code \/ q = code
      BY <1>7, <2>2, <2>4, <2>7, <3>1, Zenon
    <3>2. CASE c # code /\ q # code
      BY <1>7, <2>5, <2>7, <3>2, Zenon DEF OffersExclusive
    <3> QED
      BY <3>1, <3>2, Zenon
  <2>8. ASSUME NEW o \in Threads, HoldsOffer(req'[o])
        PROVE  /\ req'[o].uri \notin DOMAIN parRequests
               /\ \A q \in Threads :
                    HoldsOffer(req'[q]) /\ req'[q].uri = req'[o].uri => q = o
    BY <2>3, <2>5, <2>8, Zenon DEF OffersExclusive
  <2> QED
    BY <1>5, <2>6, <2>7, <2>8, Zenon DEF OffersExclusive
<1>13. SessionsExclusive'
  <2>1. ~AtIdentify(req'[t])
    BY <1>4, Zenon DEF AtIdentify
  <2> QED
    BY <1>4, <1>5, <2>1, SessionsKept, Zenon
<1> QED
  BY <1>5, <1>8, <1>9, <1>10, <1>11, <1>12, <1>13, Zenon
  DEF AuthInv, SessionAnswersAgree, CompletedOrRejected

-----------------------------------------------------------------------------
\* /identify/complete and /identify/reject

\* A replay repeats an answer the session already has.
LEMMA GetIdentifyReplayInv ==
  ASSUME AuthInv, NEW t \in Threads, NEW op \in {"complete", "reject"},
         NEW token \in DOMAIN deferred, GetIdentifyReplay(t, op, token)
  PROVE  AuthInv'
<1> DEFINE n(pc, outcome) ==
             [Idle EXCEPT !.pc = pc, !.op = op, !.token = token,
                          !.outcome = outcome]
           cached == identifyReplay[token]
<1>1. token \in SessionTokens
  BY Zenon DEF AuthInv, TypeOK, IsMap
<1>2. /\ UNCHANGED <<now, pendingAuth, identifiedSessions, identifyReplay,
                     authCodes, records, pushed, deferred, marked, issued>>
      /\ UNCHANGED parRequests
      /\ IsMap(parRequests', RequestURIs, [params : Params, at : Nat])
  BY DEF GetIdentifyReplay, store, AuthInv, TypeOK
<1>3. CASE /\ ReplayLive(token)
           /\ req' = [req EXCEPT ![t] = n("done", cached.to)]
           /\ answers' = answers \cup
                {[token |-> token, to |-> cached.to, uri |-> cached.uri]}
  <2>1. /\ cached.to \in Redirects
        /\ [token |-> token, to |-> cached.to, uri |-> cached.uri] \in answers
    BY <1>3 DEF ReplayLive, AuthInv, TypeOK, IsMap, SessionsExclusive
  <2>2. UNCHANGED history
    BY <1>2, <1>3, <2>1 DEF history
  <2>3. n("done", cached.to) \in Request
    BY <1>1, <2>1, Zenon DEF Idle, Request, PCs, Outcomes
  <2>4. n("done", cached.to).pc = "done"
    BY DEF Idle
  <2>5. /\ RequestBacked(n("done", cached.to))
        /\ ~HoldsOffer(n("done", cached.to))
        /\ ~AtIdentify(n("done", cached.to))
    BY <2>4 DEF RequestBacked, HoldsOffer, AtAuthorize, AtIdentify
  <2> HIDE DEF n
  <2> QED
    BY <1>2, <1>3, <2>2, <2>3, <2>5, QuietStep, Zenon
<1>4. CASE /\ req' = [req EXCEPT ![t] = n("consume_pending", Absent)]
           /\ answers' = answers
  <2>1. UNCHANGED history
    BY <1>2, <1>4 DEF history
  <2>2. n("consume_pending", Absent) \in Request
    BY <1>1, Zenon DEF Idle, Request, PCs
  <2>3. /\ n("consume_pending", Absent).pc = "consume_pending"
        /\ n("consume_pending", Absent).token = token
    BY DEF Idle
  <2>4. /\ RequestBacked(n("consume_pending", Absent))
        /\ ~HoldsOffer(n("consume_pending", Absent))
        /\ ~AtIdentify(n("consume_pending", Absent))
    BY <2>3 DEF RequestBacked, HoldsOffer, AtAuthorize, AtIdentify
  <2> HIDE DEF n
  <2> QED
    BY <1>2, <1>4, <2>1, <2>2, <2>4, QuietStep, Zenon
<1> QED
  BY <1>3, <1>4, Zenon DEF GetIdentifyReplay

\* Of the requests that complete or reject a session, one takes it.
LEMMA ConsumePendingAuthInv ==
  ASSUME AuthInv, NEW t \in Threads, ConsumePendingAuth(t)
  PROVE  AuthInv'
<1> DEFINE token == req[t].token
           entry == pendingAuth[token]
           load(pc, outcome) ==
             [req[t] EXCEPT !.pc = pc, !.outcome = outcome,
                            !.uri = entry.uri, !.params = entry.params]
<1>1. /\ req[t] \in Request /\ req[t].pc = "consume_pending"
      /\ req \in [Threads -> Request]
  <2>1. req[t].pc = "consume_pending"
    BY Zenon DEF ConsumePendingAuth
  <2> QED
    BY <2>1 DEF AuthInv, TypeOK
<1>2. UNCHANGED <<now, parRequests, identifiedSessions, identifyReplay,
                  authCodes, records, pushed, deferred, marked, issued, answers>>
  BY Zenon DEF ConsumePendingAuth, history
<1>3. /\ DOMAIN pendingAuth' = DOMAIN pendingAuth \ {token}
      /\ \A s \in DOMAIN pendingAuth' : pendingAuth'[s] = pendingAuth[s]
      /\ IsMap(pendingAuth', SessionTokens, [params : Params, uri : RequestURIs])
  <2>1. pendingAuth' = Delete(pendingAuth, token)
    BY Zenon DEF ConsumePendingAuth, TakePendingAuth
  <2>2. IsMap(pendingAuth, SessionTokens, [params : Params, uri : RequestURIs])
    BY DEF AuthInv, TypeOK
  <2>3. IsMap(pendingAuth', SessionTokens, [params : Params, uri : RequestURIs])
    BY <2>1, <2>2, DeleteIsMap
  <2> QED
    BY <2>1, <2>3 DEF Delete, Restrict
<1>4. PICK n \in Request :
        /\ req' = [req EXCEPT ![t] = n]
        /\ \/ n.pc = "done"
           \/ /\ token \in DOMAIN pendingAuth
              /\ n.token = token /\ n.uri = entry.uri
              /\ n.params = entry.params
              /\ \/ n.pc = "create_record" /\ n.op = "complete"
                 \/ n.pc = "store_replay"
  <2>1. CASE Answer(t, "invalid_session")
    BY <1>1, <2>1, AnswerFacts DEF Outcomes
  <2>2. ASSUME token \in DOMAIN pendingAuth,
               NEW pc \in {"done", "create_record", "store_replay"},
               NEW o \in Outcomes \cup {Absent},
               pc = "create_record" => req[t].op = "complete",
               req' = [req EXCEPT ![t].pc = pc, ![t].outcome = o,
                         ![t].uri = entry.uri, ![t].params = entry.params]
        PROVE  \E n \in Request :
                 /\ req' = [req EXCEPT ![t] = n]
                 /\ \/ n.pc = "done"
                    \/ /\ token \in DOMAIN pendingAuth
                       /\ n.token = token /\ n.uri = entry.uri
                       /\ n.params = entry.params
                       /\ \/ n.pc = "create_record" /\ n.op = "complete"
                          \/ n.pc = "store_replay"
    <3>1. entry.uri \in RequestURIs /\ entry.params \in Params
      BY <2>2 DEF AuthInv, TypeOK, IsMap
    <3>2. load(pc, o) \in Request
      BY <1>1, <2>2, <3>1, ZenonT(40) DEF Request, PCs
    <3>3. /\ load(pc, o).pc = pc /\ load(pc, o).token = token
          /\ load(pc, o).uri = entry.uri /\ load(pc, o).params = entry.params
          /\ load(pc, o).op = req[t].op
      BY <1>1 DEF Request
    <3>4. req' = [req EXCEPT ![t] = load(pc, o)]
      BY <1>1, <2>2, Zenon
    <3> HIDE DEF load
    <3> QED
      BY <2>2, <3>2, <3>3, <3>4, Zenon
  <2>3. {"missing_scope", "bad_redirect_uri"} \subseteq Outcomes
    BY DEF Outcomes
  <2> QED
    BY <2>1, <2>2, <2>3, Zenon DEF ConsumePendingAuth
<1>5. /\ req' \in [Threads -> Request]
      /\ req'[t] = n
      /\ \A o \in Threads : o # t => req'[o] = req[o]
  BY <1>1, <1>4
<1>6. AtIdentify(n) =>
        /\ token \in DOMAIN pendingAuth /\ n.token = token
        /\ token \in DOMAIN deferred
        /\ n.uri = deferred[token] /\ n.params = pushed[n.uri]
        /\ n.pc = "create_record" => n.op = "complete"
        /\ n.pc # "mark"
  BY <1>4, Zenon DEF AtIdentify, AuthInv, StoreBacked
<1>7. RequestBacked(n) /\ ~HoldsOffer(n)
  BY <1>4, <1>6, Zenon DEF RequestBacked, HoldsOffer, AtAuthorize, AtIdentify
<1>8. TypeOK'
  BY <1>2, <1>3, <1>5, Zenon DEF AuthInv, TypeOK
<1>9. StoreBacked'
  BY <1>2, <1>3 DEF AuthInv, StoreBacked
<1>10. RequestsBacked'
  BY <1>2, <1>5, <1>7, OneRequestMoves, Zenon
<1>11. OffersExclusive'
  <2>1. \A o \in Threads : HoldsOffer(req'[o]) => req'[o] = req[o] /\ HoldsOffer(req[o])
    BY <1>5, <1>7, Zenon
  <2> QED
    BY <1>2, <2>1, OffersKept, Zenon
<1>12. SessionsExclusive'
  <2>1. SessionsExclusive
    BY Zenon DEF AuthInv
  <2>2. token \in DOMAIN pendingAuth =>
          /\ Untouched(token) /\ NoRecord(token)
          /\ \A o \in Threads : AtIdentify(req[o]) => req[o].token # token
    BY <2>1, Zenon DEF SessionsExclusive
  <2>3. \A s : Untouched(s)' = Untouched(s) /\ NoRecord(s)' = NoRecord(s)
    BY <1>2, Zenon DEF Untouched, NoRecord
  <2>4. \A s \in DOMAIN pendingAuth' : Untouched(s)' /\ NoRecord(s)'
    BY <1>3, <2>1, <2>3, Zenon DEF SessionsExclusive
  <2>5. ASSUME NEW o \in Threads, AtIdentify(req'[o]), o # t
        PROVE  /\ req'[o] = req[o] /\ AtIdentify(req[o])
               /\ req[o].token \notin DOMAIN pendingAuth
               /\ Untouched(req[o].token)
               /\ req[o].pc = "create_record" \/ req[o].op # "complete" =>
                    NoRecord(req[o].token)
               /\ \A p \in Threads \ {t} :
                    AtIdentify(req'[p]) /\ req'[p].token = req[o].token => p = o
    BY <1>5, <2>1, <2>5 DEF SessionsExclusive
  <2>6. ASSUME NEW o \in Threads, AtIdentify(req'[o])
        PROVE  /\ req'[o].token \notin DOMAIN pendingAuth'
               /\ Untouched(req'[o].token)
               /\ req'[o].pc = "create_record" \/ req'[o].op # "complete" =>
                    NoRecord(req'[o].token)
               /\ \A p \in Threads :
                    AtIdentify(req'[p]) /\ req'[p].token = req'[o].token => p = o
    <3>1. CASE o = t
      BY <1>3, <1>5, <1>6, <2>2, <2>5, <2>6, <3>1, Zenon
    <3>2. CASE o # t
      <4>1. AtIdentify(req'[t]) => req'[t].token # req'[o].token
        BY <1>5, <1>6, <2>2, <2>5, <2>6, <3>2, Zenon
      <4> QED
        BY <1>3, <2>5, <2>6, <3>2, <4>1, Zenon
    <3> QED
      BY <3>1, <3>2, Zenon
  <2> QED
    BY <1>2, <2>1, <2>3, <2>4, <2>6, Zenon DEF SessionsExclusive
<1> QED
  BY <1>2, <1>8, <1>9, <1>10, <1>11, <1>12, Zenon
  DEF AuthInv, CodeBacked, SessionAnswersAgree, CompletedOrRejected

-----------------------------------------------------------------------------
\* A session's record is created by the request that holds the session.
LEMMA CreateRecordInv ==
  ASSUME AuthInv, NEW t \in Threads, CreateRecord(t)
  PROVE  AuthInv'
<1> DEFINE token == req[t].token
<1>1. /\ req[t] \in Request /\ req[t].pc = "create_record"
      /\ req \in [Threads -> Request]
      /\ token \in DOMAIN deferred /\ token \in SessionTokens
      /\ req[t].uri = deferred[token] /\ req[t].params = pushed[req[t].uri]
      /\ req[t].op = "complete"
  BY DEF CreateRecord, AuthInv, TypeOK, IsMap, RequestsBacked, RequestBacked,
         AtIdentify
<1>2. UNCHANGED <<now, parRequests, pendingAuth, identifiedSessions,
                  identifyReplay, authCodes, pushed, deferred, marked, issued,
                  answers>>
  BY DEF CreateRecord, store, history
<1>3. CASE records' = records /\ Answer(t, "unavailable")
  <2>1. /\ IsMap(parRequests', RequestURIs, [params : Params, at : Nat])
        /\ DOMAIN parRequests' \subseteq DOMAIN parRequests
        /\ \A u \in DOMAIN parRequests' : parRequests'[u] = parRequests[u]
    BY <1>2 DEF AuthInv, TypeOK
  <2>2. UNCHANGED history
    BY <1>2, Zenon DEF history
  <2> QED
    BY <1>2, <1>3, <2>1, <2>2, AnswerInv, Zenon DEF Outcomes
<1>4. ASSUME NEW id \in Records \ DOMAIN records,
             records' = Put(records, id, token),
             \/ req' = [req EXCEPT ![t].pc = "mark", ![t].record = id]
             \/ Answer(t, "unavailable")
      PROVE  AuthInv'
  <2>1. /\ DOMAIN records' = DOMAIN records \cup {id}
        /\ records'[id] = token
        /\ \A x \in DOMAIN records : records'[x] = records[x]
    BY <1>4 DEF Put
  <2>2. PICK n \in Request :
          /\ req' = [req EXCEPT ![t] = n]
          /\ \/ n.pc = "done"
             \/ /\ n.pc = "mark" /\ n.record = id
                /\ n.token = token /\ n.uri = req[t].uri
                /\ n.params = req[t].params /\ n.op = "complete"
    <3>1. CASE Answer(t, "unavailable")
      BY <1>1, <3>1, AnswerFacts DEF Outcomes
    <3>2. CASE req' = [req EXCEPT ![t].pc = "mark", ![t].record = id]
      <4> DEFINE m == [req[t] EXCEPT !.pc = "mark", !.record = id]
      <4>1. m \in Request
        BY <1>1, Zenon DEF Request, PCs, RecordIDs
      <4>2. /\ m.pc = "mark" /\ m.record = id
            /\ m.token = token /\ m.uri = req[t].uri
            /\ m.params = req[t].params /\ m.op = "complete"
        BY <1>1 DEF Request
      <4>3. req' = [req EXCEPT ![t] = m]
        BY <1>1, <3>2, Zenon
      <4> HIDE DEF m
      <4> QED
        BY <4>1, <4>2, <4>3, Zenon
    <3> QED
      BY <1>4, <3>1, <3>2, Zenon
  <2>3. /\ req' \in [Threads -> Request]
        /\ req'[t] = n
        /\ \A o \in Threads : o # t => req'[o] = req[o]
    BY <1>1, <2>2, Zenon
  <2>4. TypeOK'
    <3>1. IsMap(records', Records, SessionTokens)
      BY <1>1, <1>4, PutIsMap, Zenon DEF AuthInv, TypeOK
    <3> QED
      BY <1>2, <2>3, <3>1 DEF AuthInv, TypeOK
  <2>5. StoreBacked'
    BY <1>1, <1>2, <2>1 DEF AuthInv, StoreBacked
  <2>6. RequestsBacked' /\ CodeBacked'
    <3>1. RequestBacked(req[t])'
      BY <1>1, <1>2, <2>1, <2>2, <2>3, Zenon
      DEF RequestBacked, AtAuthorize, AtIdentify
    <3> QED
      BY <1>2, <2>1, <2>3, <3>1, Stable, Zenon DEF RequestsBacked
  <2>7. OffersExclusive'
    <3>1. \A o \in Threads :
            HoldsOffer(req'[o]) => req'[o] = req[o] /\ HoldsOffer(req[o])
      BY <2>2, <2>3, Zenon DEF HoldsOffer
    <3> QED
      BY <1>2, <3>1, OffersKept, Zenon
  <2>8. /\ token \notin DOMAIN pendingAuth /\ Untouched(token) /\ NoRecord(token)
        /\ \A o \in Threads : AtIdentify(req[o]) /\ req[o].token = token => o = t
    BY <1>1, Zenon DEF AuthInv, SessionsExclusive, AtIdentify
  <2>9. SessionsExclusive'
    <3>1. AtIdentify(n) => n.pc = "mark" /\ n.op = "complete" /\ n.token = token
      BY <2>2 DEF AtIdentify
    <3>2. \A s \in DOMAIN pendingAuth : s # token
      BY <2>8, Zenon
    <3>3. \A o \in Threads : o # t /\ AtIdentify(req[o]) => req[o].token # token
      BY <2>8
    <3>4. \A s \in DOMAIN pendingAuth' : Untouched(s)' /\ NoRecord(s)'
      <4>1. \A s \in DOMAIN pendingAuth : Untouched(s) /\ NoRecord(s)
        BY Zenon DEF AuthInv, SessionsExclusive
      <4>2. \A s \in DOMAIN pendingAuth : Untouched(s)'
        BY <1>2, <4>1, Zenon DEF Untouched
      <4>3. \A s \in DOMAIN pendingAuth : NoRecord(s)'
        BY <2>1, <3>2, <4>1, Zenon DEF NoRecord
      <4> QED
        BY <1>2, <4>2, <4>3, Zenon
    <3>5. ASSUME NEW u \in Threads, AtIdentify(req'[u])
          PROVE  /\ req'[u].token \notin DOMAIN pendingAuth'
                 /\ Untouched(req[u].token)'
                 /\ req'[u].pc = "create_record" \/ req'[u].op # "complete" =>
                      NoRecord(req[u].token)'
                 /\ \A o \in Threads :
                      AtIdentify(req'[o]) /\ req'[o].token = req'[u].token => o = u
      <4>1. CASE u = t
        BY <1>2, <2>3, <2>8, <3>1, <3>3, <3>5, <4>1, Zenon DEF Untouched
      <4>2. CASE u # t
        <5>1. SessionsExclusive
          BY Zenon DEF AuthInv
        <5>2. req'[u] = req[u] /\ AtIdentify(req[u]) /\ req[u].token # token
          BY <2>3, <3>3, <3>5, <4>2, Zenon
        <5>3. Untouched(req[u].token)'
          BY <1>2, <5>1, <5>2, Zenon DEF SessionsExclusive, Untouched
        <5>4. NoRecord(req[u].token) => NoRecord(req[u].token)'
          BY <2>1, <5>2, Zenon DEF NoRecord
        <5>5. \A o \in Threads :
                AtIdentify(req'[o]) /\ req'[o].token = req'[u].token => o = u
          BY <2>3, <3>1, <5>1, <5>2, Zenon DEF SessionsExclusive
        <5> QED
          BY <1>2, <5>1, <5>2, <5>3, <5>4, <5>5, Zenon DEF SessionsExclusive
      <4> QED
        BY <4>1, <4>2, Zenon
    <3> QED
      BY <1>2, <3>4, <3>5, Zenon DEF AuthInv, SessionsExclusive
  <2>10. CompletedOrRejected'
    BY <1>2, <2>1, <2>8, Zenon
    DEF AuthInv, CompletedOrRejected, Untouched, NoRecord
  <2> QED
    BY <1>2, <2>4, <2>5, <2>6, <2>7, <2>9, <2>10, Zenon
    DEF AuthInv, SessionAnswersAgree
<1> QED
  BY <1>3, <1>4, Zenon DEF CreateRecord

\* A cookie stands for the record of its own session.
LEMMA MarkIdentifiedInv ==
  ASSUME AuthInv, NEW t \in Threads, NEW k \in Cookies, MarkIdentified(t, k)
  PROVE  AuthInv'
<1> DEFINE r == req[t]
           e == [uri |-> r.uri, record |-> r.record, params |-> r.params,
                 at |-> now]
           m == [token |-> r.token, record |-> r.record]
           n == [r EXCEPT !.pc = "store_replay", !.cookie = k]
<1>1. /\ r \in Request /\ req \in [Threads -> Request] /\ r.pc = "mark"
      /\ r.token \in DOMAIN deferred /\ r.op = "complete"
      /\ r.uri = deferred[r.token] /\ r.params = pushed[r.uri]
      /\ r.record \in DOMAIN records /\ records[r.record] = r.token
  BY Zenon DEF MarkIdentified, AuthInv, TypeOK, RequestsBacked, RequestBacked,
         AtIdentify
<1>2. /\ r.uri \in DOMAIN pushed /\ r.uri \in RequestURIs
      /\ r.params \in Params /\ r.record \in RecordIDs
      /\ r.token \in SessionTokens /\ now \in Nat
  BY <1>1 DEF AuthInv, TypeOK, IsMap, StoreBacked, RecordIDs
<1>3. n \in Request
  BY <1>1, Zenon DEF Request, PCs
<1>4. /\ n.pc = "store_replay" /\ n.token = r.token /\ n.uri = r.uri
      /\ n.params = r.params /\ n.op = r.op
  BY <1>1 DEF Request
<1>5. req' = [req EXCEPT ![t] = n]
  BY <1>1, Zenon DEF MarkIdentified
<1> HIDE DEF n
<1>6. /\ req' \in [Threads -> Request]
      /\ req'[t] = n
      /\ \A o \in Threads : o # t => req'[o] = req[o]
  BY <1>1, <1>3, <1>5
<1>7. UNCHANGED <<now, parRequests, pendingAuth, identifyReplay, authCodes,
                  records, pushed, deferred, issued, answers>>
  BY DEF MarkIdentified
<1>8. /\ DOMAIN identifiedSessions' = DOMAIN identifiedSessions \cup {k}
      /\ identifiedSessions'[k] = e
      /\ \A j \in DOMAIN identifiedSessions :
           j # k => identifiedSessions'[j] = identifiedSessions[j]
  BY Zenon DEF MarkIdentified, Put
<1>9. TypeOK'
  <2>1. e \in IdentifiedEntry
    BY <1>2, Zenon DEF IdentifiedEntry
  <2>2. IsMap(identifiedSessions', Cookies, IdentifiedEntry)
    BY <2>1, PutIsMap DEF MarkIdentified, AuthInv, TypeOK
  <2>3. IsMap(marked', Cookies, [token : SessionTokens, record : RecordIDs])
    BY <1>2, PutIsMap, Zenon DEF MarkIdentified, AuthInv, TypeOK
  <2> QED
    BY <1>6, <1>7, <2>2, <2>3, Zenon DEF AuthInv, TypeOK
<1>10. StoreBacked'
  <2>1. ASSUME NEW j \in DOMAIN identifiedSessions'
        PROVE  LET f == identifiedSessions'[j]
               IN /\ f.uri \in DOMAIN pushed /\ f.params = pushed[f.uri]
                  /\ f.record \in DOMAIN records
                  /\ deferred[records[f.record]] = f.uri
    <3>1. e.uri = r.uri /\ e.params = r.params /\ e.record = r.record
      OBVIOUS
    <3> HIDE DEF e
    <3>2. CASE j = k
      BY <1>1, <1>2, <1>8, <3>1, <3>2, Zenon
    <3>3. CASE j # k
      BY <1>8, <3>3, Zenon DEF AuthInv, StoreBacked
    <3> QED
      BY <3>2, <3>3, Zenon
  <2> QED
    BY <1>7, <2>1, Zenon DEF AuthInv, StoreBacked
<1>11. RequestsBacked'
  <2>1. RequestBacked(n)
    BY <1>1, <1>4, Zenon DEF RequestBacked, AtAuthorize, AtIdentify
  <2> QED
    BY <1>6, <1>7, <2>1, OneRequestMoves, Zenon
<1>12. OffersExclusive'
  <2>1. ~HoldsOffer(n)
    BY <1>4, Zenon DEF HoldsOffer
  <2> QED
    BY <1>6, <1>7, <2>1, OffersKept, Zenon
<1>13. SessionsExclusive'
  <2>1. \A o \in Threads :
          AtIdentify(req'[o]) =>
            /\ AtIdentify(req[o]) /\ req'[o].token = req[o].token
            /\ req'[o].op = req[o].op
            /\ req'[o].pc = "create_record" => req[o].pc = "create_record"
    BY <1>1, <1>4, <1>6 DEF AtIdentify
  <2> QED
    BY <1>7, <2>1, SessionsKept, Zenon
<1> QED
  BY <1>7, <1>9, <1>10, <1>11, <1>12, <1>13, Zenon
  DEF AuthInv, CodeBacked, SessionAnswersAgree, CompletedOrRejected

\* The session's answer is its first.
LEMMA StoreIdentifyReplayInv ==
  ASSUME AuthInv, NEW t \in Threads, StoreIdentifyReplay(t)
  PROVE  AuthInv'
<1> DEFINE r  == req[t]
           to == IF r.op = "complete" THEN "authorize" ELSE "denied"
           a  == [token |-> r.token, to |-> to, uri |-> r.uri]
           e  == [to |-> to, uri |-> r.uri, expiry |-> now + ReplayTTL]
<1>1. /\ r.pc = "store_replay" /\ r.token \in DOMAIN deferred
      /\ r.uri = deferred[r.token]
  BY Zenon DEF StoreIdentifyReplay, AuthInv, RequestsBacked, RequestBacked,
         AtIdentify
<1>2. /\ r.token \in SessionTokens /\ r.uri \in RequestURIs
      /\ to \in Redirects /\ now + ReplayTTL \in Nat
  BY <1>1, TimeAssumption DEF AuthInv, TypeOK, IsMap, Redirects
<1>3. PICK n \in Request : req' = [req EXCEPT ![t] = n] /\ n.pc = "done"
  <2>1. Answer(t, to) /\ to \in Outcomes
    BY <1>2, Zenon DEF StoreIdentifyReplay, Outcomes
  <2> QED
    BY <2>1, AnswerFacts DEF AuthInv, TypeOK
<1>4. /\ req' \in [Threads -> Request]
      /\ req'[t].pc = "done"
      /\ \A o \in Threads : o # t => req'[o] = req[o]
  BY <1>3, Zenon DEF AuthInv, TypeOK
<1>5. UNCHANGED <<now, parRequests, pendingAuth, identifiedSessions,
                  authCodes, records, pushed, deferred, marked, issued>>
  BY Zenon DEF StoreIdentifyReplay
<1>6. /\ DOMAIN identifyReplay' = DOMAIN identifyReplay \cup {r.token}
      /\ identifyReplay'[r.token] = e
      /\ \A s \in DOMAIN identifyReplay :
           s # r.token => identifyReplay'[s] = identifyReplay[s]
      /\ answers' = answers \cup {a}
  BY DEF StoreIdentifyReplay, Put
<1>7. /\ r.token \notin DOMAIN pendingAuth
      /\ Untouched(r.token)
      /\ r.op # "complete" => NoRecord(r.token)
      /\ \A o \in Threads \ {t} : AtIdentify(req[o]) => req[o].token # r.token
  BY <1>1, Zenon DEF AuthInv, SessionsExclusive, AtIdentify
<1>8. TypeOK'
  <2>1. e \in [to : Redirects, uri : RequestURIs, expiry : Nat]
    BY <1>2, Zenon
  <2>2. IsMap(identifyReplay', SessionTokens,
              [to : Redirects, uri : RequestURIs, expiry : Nat])
    BY <1>2, <2>1, PutIsMap, Zenon DEF StoreIdentifyReplay, AuthInv, TypeOK
  <2>3. a \in [token : SessionTokens, to : Redirects, uri : RequestURIs]
    BY <1>2, Zenon
  <2> QED
    BY <1>4, <1>5, <1>6, <2>2, <2>3 DEF AuthInv, TypeOK
<1>9. a.token = r.token /\ a.to = to /\ (to = "denied" => r.op # "complete")
  OBVIOUS
<1>10. StoreBacked'
  BY <1>5, Zenon DEF AuthInv, StoreBacked
<1>11. RequestsBacked'
  <2>1. RequestBacked(req'[t])
    BY <1>4, Zenon DEF RequestBacked, AtAuthorize, AtIdentify
  <2> QED
    BY <1>4, <1>5, <2>1, OneRequestMoves, Zenon
<1>12. OffersExclusive'
  <2>1. ~HoldsOffer(req'[t])
    BY <1>4, Zenon DEF HoldsOffer
  <2> QED
    BY <1>4, <1>5, <2>1, OffersKept, Zenon
<1>13. SessionsExclusive'
  <2>1. \A s : Untouched(s) /\ s # r.token =>
          s \notin DOMAIN identifyReplay' /\ \A b \in answers' : b.token # s
    BY <1>6, <1>9, Zenon DEF Untouched
  <2>2. \A s \in DOMAIN identifyReplay' :
          [token |-> s, to |-> identifyReplay'[s].to,
           uri |-> identifyReplay'[s].uri] \in answers'
    <3>1. /\ e.to = to /\ e.uri = r.uri
          /\ a = [token |-> r.token, to |-> to, uri |-> r.uri]
      BY Zenon
    <3>2. \A s \in DOMAIN identifyReplay :
            [token |-> s, to |-> identifyReplay[s].to,
             uri |-> identifyReplay[s].uri] \in answers
      BY Zenon DEF AuthInv, SessionsExclusive
    <3> HIDE DEF a, e
    <3> QED
      BY <1>6, <3>1, <3>2, Zenon
  <2>3. \A b \in answers' : b.token \in DOMAIN deferred
    BY <1>1, <1>6, <1>9, Zenon DEF AuthInv, SessionsExclusive
  <2>4. ~AtIdentify(req'[t])
    BY <1>4 DEF AtIdentify
  <2>5. \A s \in DOMAIN pendingAuth' : Untouched(s)' /\ NoRecord(s)'
    BY <1>5, <1>7, <2>1, Zenon
    DEF AuthInv, SessionsExclusive, Untouched, NoRecord
  <2>6. ASSUME NEW u \in Threads, AtIdentify(req'[u])
        PROVE  /\ req'[u].token \notin DOMAIN pendingAuth'
               /\ Untouched(req[u].token)'
               /\ req'[u].pc = "create_record" \/ req'[u].op # "complete" =>
                    NoRecord(req[u].token)'
               /\ \A o \in Threads :
                    AtIdentify(req'[o]) /\ req'[o].token = req'[u].token => o = u
    <3>1. u # t /\ req'[u] = req[u] /\ AtIdentify(req[u])
      BY <1>4, <2>4, <2>6
    <3>2. Untouched(req[u].token) /\ req[u].token # r.token
      BY <1>7, <3>1, Zenon DEF AuthInv, SessionsExclusive
    <3>3. Untouched(req[u].token)'
      BY <2>1, <3>1, <3>2, Zenon DEF Untouched
    <3> QED
      BY <1>4, <1>5, <2>4, <3>1, <3>3, ZenonT(40)
      DEF AuthInv, SessionsExclusive, NoRecord
  <2> QED
    BY <1>5, <2>2, <2>3, <2>5, <2>6, Zenon DEF SessionsExclusive
<1>14. SessionAnswersAgree'
  BY <1>6, <1>7, <1>9, ZenonT(40) DEF AuthInv, SessionAnswersAgree, Untouched
<1>15. CompletedOrRejected'
  BY <1>5, <1>6, <1>7, <1>9, ZenonT(40)
  DEF AuthInv, CompletedOrRejected, NoRecord
<1> QED
  BY <1>5, <1>8, <1>10, <1>11, <1>12, <1>13, <1>14, <1>15, Zenon
  DEF AuthInv, CodeBacked

-----------------------------------------------------------------------------
\* The environment, and the theorems

\* A finished request holds nothing.
LEMMA ReplyInv ==
  ASSUME AuthInv, NEW t \in Threads, Reply(t)
  PROVE  AuthInv'
<1>1. Idle \in Request /\ Idle.pc = "idle"
  BY Zenon DEF Idle, Request, PCs, Outcomes, Redirects, Absent
<1>2. RequestBacked(Idle) /\ ~HoldsOffer(Idle) /\ ~AtIdentify(Idle)
  BY <1>1, Zenon DEF RequestBacked, HoldsOffer, AtAuthorize, AtIdentify
<1>3. /\ UNCHANGED <<now, pendingAuth, identifiedSessions, identifyReplay,
                     authCodes, records, history>>
      /\ UNCHANGED parRequests
      /\ IsMap(parRequests', RequestURIs, [params : Params, at : Nat])
  BY DEF Reply, store, AuthInv, TypeOK
<1>4. req' = [req EXCEPT ![t] = Idle]
  BY Zenon DEF Reply
<1> QED
  BY <1>1, <1>2, <1>3, <1>4, QuietStep, Zenon

\* The passing of time, and steps that change nothing.
LEMMA TickInv ==
  ASSUME AuthInv, Tick \/ UNCHANGED vars
  PROVE  AuthInv'
<1>1. /\ now' \in Nat
      /\ UNCHANGED <<parRequests, pendingAuth, identifiedSessions,
                     identifyReplay, authCodes, req, records, pushed, deferred,
                     marked, issued, answers>>
  BY DEF AuthInv, TypeOK, Tick, vars, store, history
<1>2. TypeOK'
  BY <1>1, Zenon DEF AuthInv, TypeOK
<1>3. StoreBacked' /\ CodeBacked'
  BY <1>1, Zenon DEF AuthInv, StoreBacked, CodeBacked
<1>4. RequestsBacked'
  BY <1>1, Zenon DEF AuthInv, RequestsBacked, RequestBacked, RecordFor
<1>5. OffersExclusive' /\ SessionsExclusive'
  BY <1>1, Zenon DEF AuthInv, OffersExclusive, SessionsExclusive, Untouched, NoRecord
<1>6. SessionAnswersAgree' /\ CompletedOrRejected'
  BY <1>1 DEF AuthInv, SessionAnswersAgree, CompletedOrRejected
<1> QED
  BY <1>2, <1>3, <1>4, <1>5, <1>6, Zenon DEF AuthInv

\* A restart forgets the store and the requests in progress.
LEMMA RestartInv ==
  ASSUME AuthInv, Restart
  PROVE  AuthInv'
<1>1. UNCHANGED <<now, records, pushed, deferred, marked, issued, answers>>
  BY DEF Restart, history
<1>2. /\ DOMAIN parRequests' = {} /\ DOMAIN pendingAuth' = {}
      /\ DOMAIN identifiedSessions' = {} /\ DOMAIN identifyReplay' = {}
      /\ DOMAIN authCodes' = {}
  BY EmptyFacts DEF Restart
<1>3. /\ req' \in [Threads -> Request]
      /\ \A t \in Threads : req'[t].pc = "idle"
  BY Zenon DEF Restart, Idle, Request, PCs, Outcomes, Redirects, Absent
<1>4. TypeOK'
  BY <1>1, <1>3, EmptyFacts, Zenon DEF Restart, AuthInv, TypeOK
<1>5. StoreBacked'
  BY <1>1, <1>2 DEF AuthInv, StoreBacked
<1>6. RequestsBacked'
  BY <1>3, Zenon DEF RequestsBacked, RequestBacked, AtAuthorize, AtIdentify
<1>7. OffersExclusive'
  BY <1>1, <1>2, <1>3, Zenon DEF AuthInv, OffersExclusive, HoldsOffer
<1>8. SessionsExclusive'
  BY <1>1, <1>2, <1>3 DEF AuthInv, SessionsExclusive, AtIdentify
<1> QED
  BY <1>1, <1>2, <1>4, <1>5, <1>6, <1>7, <1>8, Zenon
  DEF AuthInv, CodeBacked, SessionAnswersAgree, CompletedOrRejected

\* Every step preserves AuthInv.
LEMMA NextInv ==
  ASSUME AuthInv, [Next]_vars
  PROVE  AuthInv'
<1>1. ASSUME NEW in \in ParInputs, NEW u \in RequestURIs, HandlePar(in, u)
      PROVE  AuthInv'
  BY <1>1, HandleParInv, Zenon
<1>2. ASSUME NEW t \in Threads, Arrive(t)
      PROVE  AuthInv'
  BY <1>2, HandleAuthorizeInv, GetIdentifyReplayInv, Zenon DEF Arrive
<1>3. ASSUME NEW t \in Threads, Continue(t)
      PROVE  AuthInv'
  BY <1>3, FindByIssuerStateInv, CompleteOfferInv, CheckIdentifiedInv,
     StorePendingAuthInv, CreateAuthCodeInv, ConsumePendingAuthInv,
     CreateRecordInv, MarkIdentifiedInv, StoreIdentifyReplayInv, Zenon
  DEF Continue
<1>4. ASSUME NEW t \in Threads, Reply(t)
      PROVE  AuthInv'
  BY <1>4, ReplyInv
<1>5. CASE Tick \/ UNCHANGED vars
  BY <1>5, TickInv
<1>6. CASE Restart
  BY <1>6, RestartInv
<1> QED
  BY <1>1, <1>2, <1>3, <1>4, <1>5, <1>6 DEF Next

\* AuthInv holds in every reachable state of the authorization endpoint.
THEOREM AuthInvariant == Spec => []AuthInv
<1>1. AuthInv /\ [Next]_vars => AuthInv'
  BY NextInv
<1> QED
  BY <1>1, InitInv, PTL DEF Spec

\* The store and the requests in progress keep their types.
THEOREM TypeCorrect == Spec => []TypeOK
BY AuthInvariant, PTL DEF AuthInv

\* Every redeemable code is bound to what was pushed for its request_uri and
\* to a record that belongs to that request_uri (CreateAuthCode).
THEOREM CodeBackedHolds == Spec => []CodeBacked
BY AuthInvariant, PTL DEF AuthInv

\* However many visits to /authorize race for an offer's request_uri, one
\* creates a code (ConsumeParRequest).
THEOREM OneCodePerOfferHolds == Spec => []OneCodePerOffer
<1>1. AuthInv => OneCodePerOffer
  BY DEF AuthInv, OffersExclusive, OneCodePerOffer
<1> QED
  BY <1>1, AuthInvariant, PTL

\* However completions, rejections and their retries of a session race, all
\* that get a redirect get the same one (GetIdentifyReplay).
THEOREM SessionAnswersAgreeHolds == Spec => []SessionAnswersAgree
BY AuthInvariant, PTL DEF AuthInv

\* A session has one record at most, and none once it is denied
\* (ConsumePendingAuth).
THEOREM CompletedOrRejectedHolds == Spec => []CompletedOrRejected
BY AuthInvariant, PTL DEF AuthInv

\* Only the request that creates its code, or a restart, uses a live
\* request_uri up (PeekParRequest, ConsumeParRequest).
THEOREM OnlyCompletionBurnsHolds == Spec => OnlyCompletionBurns
<1>1. TypeOK /\ [Next]_vars => [BurnsOnlyToComplete]_vars
  <2> SUFFICES ASSUME TypeOK, Next,
                      NEW u \in DOMAIN parRequests, ParRequestLive(u),
                      u \notin DOMAIN parRequests'
               PROVE  \/ \E t \in Threads : /\ req[t].pc = "consume_par"
                                            /\ req'[t].pc = "create_code"
                                            /\ req'[t].uri = u
                      \/ \A t \in Threads : req'[t] = Idle
    BY DEF BurnsOnlyToComplete
  <2>1. ASSUME NEW v, PeekParRequest(v) PROVE FALSE
    BY <2>1 DEF PeekParRequest, Delete, Restrict
  <2>2. ASSUME UNCHANGED parRequests PROVE FALSE
    BY <2>2
  <2>3. ASSUME NEW t \in Threads, CompleteOffer(t)
        PROVE  /\ req[t].pc = "consume_par"
               /\ req'[t].pc = "create_code"
               /\ req'[t].uri = u
    <3>1. req[t].uri = u
      BY <2>3, Zenon DEF CompleteOffer, ConsumeParRequest, Delete, Restrict
    <3>2. req[t] \in Request /\ req \in [Threads -> Request]
      BY DEF TypeOK
    <3>3. /\ req[t].pc = "consume_par"
          /\ req' = [req EXCEPT ![t].pc = "create_code",
                                ![t].params = parRequests[u].params]
      BY <2>3, <3>1, Zenon DEF CompleteOffer
    <3> QED
      BY <3>1, <3>2, <3>3 DEF Request
  <2>4. CASE Restart
    BY <2>4, Zenon DEF Restart
  <2>5. ASSUME NEW in, NEW v, HandlePar(in, v) PROVE FALSE
    BY <2>5 DEF HandlePar, Put
  <2>6. ASSUME NEW t \in Threads, Arrive(t) PROVE FALSE
    BY <2>1, <2>2, <2>6, Zenon DEF Arrive, HandleAuthorize, GetIdentifyReplay, store
  <2>7. ASSUME NEW t \in Threads, Continue(t)
        PROVE  CompleteOffer(t)
    BY <2>2, <2>7, Zenon
    DEF Continue, FindByIssuerState, CheckIdentified, StorePendingAuth,
        CreateAuthCode, ConsumePendingAuth, CreateRecord, MarkIdentified,
        StoreIdentifyReplay, store
  <2>8. CASE Tick \/ \E t \in Threads : Reply(t)
    BY <2>2, <2>8 DEF Tick, Reply, store
  <2> QED
    BY <2>3, <2>4, <2>5, <2>6, <2>7, <2>8, Zenon DEF Next
<1> QED
  BY <1>1, TypeCorrect, PTL DEF Spec, OnlyCompletionBurns

=============================================================================
