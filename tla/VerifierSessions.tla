-------------------------- MODULE VerifierSessions --------------------------
(***************************************************************************)
(* The Verifier's endpoints over the verification sessions of              *)
(* internal/session's Store: CreateSession, GetRequestObject,              *)
(* HandleResponse and the poll (GetResult, Session) of internal/verifier.  *)
(*                                                                         *)
(* A request is a thread and each critical section of the store a step;    *)
(* verifying a presentation, which fetches status lists, lies between two. *)
(* Time is kept as ages: Tick makes every session and Request Object one   *)
(* older.  Dates inside a presentation are relative to its verification.   *)
(*                                                                         *)
(* state, nonce and encryption key of a session are drawn for it alone and *)
(* are named by its id.                                                    *)
(***************************************************************************)
EXTENDS Presentation, GoMaps

CONSTANTS
  VThreads,      \* requests the Verifier works on at the same time
  Sessions,      \* session ids
  Holders,       \* holder keys
  Queries,       \* what the frontend asks for: sequences of credentials
  ResponseMode,  \* "direct_post" or "direct_post.jwt"
  VPTokens,      \* the vp_tokens wallets send
  ListAnswers,   \* what the status lists may answer
  SessionTTL,    \* verificationSessionTTL
  RequestTTL     \* requestObjectTTL

ASSUME VerifierTimeAssumption ==
  SessionTTL \in Nat /\ RequestTTL \in Nat /\ RequestTTL <= SessionTTL

ASSUME ModeAssumption == ResponseMode \in {"direct_post", "direct_post.jwt"}

ASSUME SessionNamesAssumption == "" \notin Sessions

Encrypted == ResponseMode = "direct_post.jwt"

\* A wallet's POST: state and vp_token, either plain, which is accepted in both
\* modes, or in a JWE that names a kid and decrypts with that key or not.
PlainResponse == [jwe : {FALSE}, kid : {""}, opens : {FALSE},
                  state : Sessions \cup {""}, raw : VPTokens]

EncryptedResponse == [jwe : {TRUE}, kid : IF Encrypted THEN Sessions \cup {""} ELSE {""},
                      opens : BOOLEAN, state : Sessions \cup {""}, raw : VPTokens]

Response == PlainResponse \cup EncryptedResponse

VARIABLES
  verifications,   \* session id -> VerificationSession
  byState,         \* states with an entry in verificationIDByState
  byKID,           \* keys with an entry in verificationIDByEncKID
  vreq,            \* thread -> the request it is serving
  shown,           \* session -> what the last poll of it was told
  \* History variables, read by no action but for fresh ids.
  created,         \* every session id drawn
  closed,          \* sessions that were stored once and are gone
  provedBy         \* session -> subjects of the presentations that verified

verifierStore == <<verifications, byState, byKID>>
verifierHistory == <<created, closed, provedBy>>
verifierVars == <<verifierStore, vreq, shown, verifierHistory>>

-----------------------------------------------------------------------------
Subjects == {SubjectID(k) : k \in Holders}

\* One beyond the lifetimes: an age at which nothing changes any more.
Old == SessionTTL + 1

Older(age) == IF age < Old THEN age + 1 ELSE age

Statuses == {"pending", "request_sent", "verified", "failed"}

\* What CreateSession puts into the session for good.
SessionKey(s) == IF Encrypted THEN s ELSE ""

Fixed(s, query) == [nonce |-> s, key |-> SessionKey(s), query |-> query]

VIdle == [pc |-> "idle", s |-> "", v |-> <<>>, age |-> 0, tokens |-> <<>>,
          ok |-> FALSE, subject |-> NoSubject]

\* Ids somebody may have learnt: CreateSession has returned, or will never.
Known == {s \in created : \A t \in VThreads : vreq[t].pc = "store" => vreq[t].s # s}

PCs == {"idle", "store", "mark", "judge", "record"}

\* Every reachable state is well typed: a thread that serves a session knows
\* which, and a verdict without a subject is no success.
VerifierTypeOK ==
  /\ verifications = [s \in DOMAIN verifications |-> verifications[s]]
  /\ DOMAIN verifications \subseteq Sessions
  /\ \A s \in DOMAIN verifications :
       /\ verifications[s].v \in {Fixed(s, q) : q \in Queries}
       /\ verifications[s].status \in Statuses
       /\ verifications[s].subject \in Subjects \cup {NoSubject}
       /\ verifications[s].error \in BOOLEAN
       /\ verifications[s].age \in 0 .. Old
       /\ verifications[s].requestAge \in 0 .. Old
  /\ byState \subseteq Sessions
  /\ byKID \subseteq Sessions
  /\ \A t \in VThreads :
       /\ vreq[t].pc \in PCs
       /\ vreq[t].pc # "idle" => vreq[t].s \in created
       /\ vreq[t].pc = "record" =>
            (vreq[t].ok <=> vreq[t].subject \in Subjects)
  /\ created \subseteq Sessions
  /\ closed \subseteq created

VerifierInit ==
  /\ verifications = EmptyMap
  /\ byState = {}
  /\ byKID = {}
  /\ vreq = [t \in VThreads |-> VIdle]
  /\ shown = [s \in Sessions |-> ""]
  /\ created = {}
  /\ closed = {}
  /\ provedBy = [s \in Sessions |-> {}]

\* Holders are the keys behind the presentations: a response that verifies
\* names one of them.
ASSUME HoldersAssumption ==
  \A s \in Sessions, q \in Queries \ {<<>>}, raw \in VPTokens, lists \in ListAnswers :
    LET r == Judge(Fixed(s, q), AllVPTokens(raw, q), 0, lists) IN
    r.ok => r.subject \in Subjects

-----------------------------------------------------------------------------
\* The store

Expired(s) == verifications[s].age > SessionTTL

\* Mutant: a session never expires.
LiveForever(s) == s \in DOMAIN verifications

\* findVerificationLocked, findVerificationPointerLocked: the answer
Live(s) == s \in DOMAIN verifications /\ ~ Expired(s)

\* Mutant: the index by encryption key is left behind.
DeleteVerificationNoKID(s) ==
  /\ verifications' = Delete(verifications, s)
  /\ byState' = byState \ {s}
  /\ byKID' = byKID
  /\ closed' = closed \cup {s}

\* deleteVerificationLocked
DeleteVerification(s) ==
  /\ verifications' = Delete(verifications, s)
  /\ byState' = byState \ {s}
  /\ byKID' = byKID \ {s}
  /\ closed' = closed \cup {s}

\* findVerificationLocked, findVerificationPointerLocked: the lazy expiry
Expire(s) ==
  IF s \in DOMAIN verifications /\ ~ Live(s)
    THEN DeleteVerification(s)
    ELSE UNCHANGED <<verifierStore, closed>>

\* UpdateVerificationStatus and UpdateVerificationResult: new is the session
\* they leave behind, and an unknown or expired one is not touched.
Update(s, new) ==
  IF Live(s)
    THEN /\ verifications' = Put(verifications, s, new)
         /\ UNCHANGED <<byState, byKID, closed>>
    ELSE Expire(s)

\* StoreVerification
StoreVerification(s, v, requestAge) ==
  /\ verifications' = Put(verifications, s,
       [v |-> v, status |-> "pending", tokens |-> <<>>, subject |-> NoSubject,
        error |-> FALSE, age |-> 0, requestAge |-> requestAge])
  /\ byState' = byState \cup {s}
  /\ byKID' = IF Encrypted THEN byKID \cup {s} ELSE byKID

-----------------------------------------------------------------------------
\* CreateSession: the Request Object is signed, by a remote service, before
\* the session is stored; only then does anyone learn its id.
SignRequestObject(t, s, query) ==
  /\ vreq[t].pc = "idle"
  /\ s \notin created
  /\ query # <<>>
  /\ vreq' = [vreq EXCEPT ![t] = [VIdle EXCEPT !.pc = "store", !.s = s,
                                               !.v = Fixed(s, query)]]
  /\ created' = created \cup {s}
  /\ UNCHANGED <<verifierStore, shown, closed, provedBy>>

CreateSession(t) ==
  /\ vreq[t].pc = "store"
  /\ StoreVerification(vreq[t].s, vreq[t].v, vreq[t].age)
  /\ vreq' = [vreq EXCEPT ![t] = VIdle]
  /\ UNCHANGED <<shown, verifierHistory>>

\* GetRequestObject: find, then mark, in two critical sections.
GetRequestObject(t, s) ==
  /\ vreq[t].pc = "idle"
  /\ s \in Known
  /\ Expire(s)
  /\ vreq' = IF Live(s) THEN [vreq EXCEPT ![t] = [VIdle EXCEPT !.pc = "mark", !.s = s]]
                        ELSE vreq
  /\ UNCHANGED <<shown, created, provedBy>>

\* Mutant: the Request Object is signed afresh for every fetch.
SentSessionFresh(s) ==
  [verifications[s] EXCEPT !.status = "request_sent", !.requestAge = 0]

SentSession(s) == [verifications[s] EXCEPT !.status = "request_sent"]

MarkRequestSent(t) ==
  /\ vreq[t].pc = "mark"
  /\ Update(vreq[t].s, SentSession(vreq[t].s))
  /\ vreq' = [vreq EXCEPT ![t] = VIdle]
  /\ UNCHANGED <<shown, created, provedBy>>

-----------------------------------------------------------------------------
\* HandleResponse

\* The session a response belongs to, "" for none: by the key it is encrypted
\* to (kid "" is an unreadable header), or, when nothing is missing, by state.
Resolve(in) ==
  IF in.jwe THEN IF in.kid \in byKID THEN in.kid ELSE ""
            ELSE IF ~ NoVPTokens(in.raw) /\ in.state \in byState THEN in.state ELSE ""

\* What else a JWE needs before its vp_token is looked at.
WellFormed(in, s) ==
  in.jwe => in.opens /\ in.state = s /\ ~ NoVPTokens(in.raw)

\* A response without a live session, or not well formed, touches nothing.
HandleResponse(t, in) ==
  LET s == Resolve(in) IN
  /\ vreq[t].pc = "idle"
  /\ {in.kid, in.state} \subseteq Known \cup {""}
  /\ Expire(s)
  /\ vreq' = IF Live(s) /\ WellFormed(in, s)
               THEN [vreq EXCEPT ![t] =
                      [VIdle EXCEPT !.pc = "judge", !.s = s, !.v = verifications[s].v,
                         !.tokens = AllVPTokens(in.raw, verifications[s].v.query)]]
               ELSE vreq
  /\ UNCHANGED <<shown, created, provedBy>>

\* Mutant: the presentation is judged without the session's own nonce.
VerdictAnyNonce(t, lists) ==
  LET p == vreq[t].tokens[vreq[t].v.query[1].id] IN
  Judge([vreq[t].v EXCEPT !.nonce = p.kb.nonce], vreq[t].tokens, 0, lists)

\* verifyPresentations and subjectIDFromHolderKeys, over the copy of the
\* session the lookup returned
Verdict(t, lists) == Judge(vreq[t].v, vreq[t].tokens, 0, lists)

VerifyResponse(t, lists) ==
  LET r == Verdict(t, lists) IN
  /\ vreq[t].pc = "judge"
  /\ vreq' = [vreq EXCEPT ![t].pc = "record", ![t].ok = r.ok, ![t].subject = r.subject]
  /\ provedBy' = IF r.ok THEN [provedBy EXCEPT ![vreq[t].s] = @ \cup {r.subject}]
                         ELSE provedBy
  /\ UNCHANGED <<verifierStore, shown, created, closed>>

\* What UpdateVerificationResult makes of the session; error is whether it
\* holds a reason.
ResultSession(t) ==
  [verifications[vreq[t].s] EXCEPT
     !.status = IF vreq[t].ok THEN "verified" ELSE "failed",
     !.tokens = vreq[t].tokens, !.subject = vreq[t].subject, !.error = ~ vreq[t].ok]

\* Mutant: the result is stored with the copy the lookup returned.
RecordResultCopy(t) ==
  /\ vreq[t].pc = "record"
  /\ verifications' = Put(verifications, vreq[t].s,
       [v |-> vreq[t].v, status |-> IF vreq[t].ok THEN "verified" ELSE "failed",
        tokens |-> vreq[t].tokens, subject |-> vreq[t].subject, error |-> ~ vreq[t].ok,
        age |-> 0, requestAge |-> 0])
  /\ vreq' = [vreq EXCEPT ![t] = VIdle]
  /\ UNCHANGED <<byState, byKID, shown, verifierHistory>>

\* The wallet is answered by the verdict, recorded or not.
RecordResult(t) ==
  /\ vreq[t].pc = "record"
  /\ Update(vreq[t].s, ResultSession(t))
  /\ vreq' = [vreq EXCEPT ![t] = VIdle]
  /\ UNCHANGED <<shown, created, provedBy>>

-----------------------------------------------------------------------------
\* GetResult and Session: what a poll is told
PollAnswer(s) ==
  CASE ~ Live(s) -> "not_found"
    [] Live(s) /\ verifications[s].status \in {"verified", "failed"} ->
         verifications[s].status
    [] OTHER -> "pending"

GetResult(s) ==
  /\ s \in Known
  /\ shown' = [shown EXCEPT ![s] = PollAnswer(s)]
  /\ Expire(s)
  /\ UNCHANGED <<vreq, created, provedBy>>

\* Time passes.
VerifierTick ==
  /\ verifications' = [s \in DOMAIN verifications |->
       [verifications[s] EXCEPT !.age = Older(@), !.requestAge = Older(@)]]
  /\ vreq' = [t \in VThreads |-> IF vreq[t].pc = "store"
                                   THEN [vreq[t] EXCEPT !.age = Older(@)] ELSE vreq[t]]
  /\ UNCHANGED <<byState, byKID, shown, verifierHistory>>

\* The process restarts with an empty store.
VerifierRestart ==
  /\ verifications' = EmptyMap
  /\ byState' = {}
  /\ byKID' = {}
  /\ vreq' = [t \in VThreads |-> VIdle]
  /\ closed' = closed \cup DOMAIN verifications
  /\ UNCHANGED <<shown, created, provedBy>>

VerifierNext ==
  \/ \E t \in VThreads, s \in Sessions, q \in Queries : SignRequestObject(t, s, q)
  \/ \E t \in VThreads : CreateSession(t)
  \/ \E t \in VThreads, s \in Sessions : GetRequestObject(t, s)
  \/ \E t \in VThreads : MarkRequestSent(t)
  \/ \E t \in VThreads, in \in Response : HandleResponse(t, in)
  \/ \E t \in VThreads, lists \in ListAnswers : VerifyResponse(t, lists)
  \/ \E t \in VThreads : RecordResult(t)
  \/ \E s \in Sessions : GetResult(s)
  \/ VerifierTick
  \/ VerifierRestart

VerifierSpec == VerifierInit /\ [][VerifierNext]_verifierVars

Settled == {"verified", "failed", "not_found"}

\* A frontend polls until it is told an outcome, and time does not stand still.
FairVerifierSpec ==
  /\ VerifierSpec
  /\ WF_verifierVars(VerifierTick)
  /\ \A s \in Sessions : WF_verifierVars(shown[s] \notin Settled /\ GetResult(s))

-----------------------------------------------------------------------------
\* The maps from states and encryption keys to sessions name exactly the
\* sessions stored: none is left behind by lazy expiry, none is missing.
IndexesAgree ==
  /\ byState = DOMAIN verifications
  /\ byKID = IF Encrypted THEN DOMAIN verifications ELSE {}

\* A session has a subject only from one presentation that verified under its
\* own nonce, key and query, the one whose tokens it holds, however many
\* responses were verified at the same time; "verified" implies a subject.
VerifiedIsBound ==
  \A s \in DOMAIN verifications :
    LET x == verifications[s] IN
    /\ x.status = "verified" => x.subject # NoSubject
    /\ x.subject # NoSubject =>
         /\ ~ x.error
         /\ \E lists \in ListAnswers :
              LET r == Judge(Fixed(s, x.v.query), x.tokens, 0, lists) IN
              r.ok /\ r.subject = x.subject

\* What the comment on requestObjectTTL asks for: no Request Object outlives
\* the session it belongs to.
RequestDiesWithSession ==
  \A s \in DOMAIN verifications :
    Expired(s) => verifications[s].requestAge > RequestTTL

\* VerificationOutcome's variables: a session past its lifetime is closed,
\* deleted already or not.
SessionPhase ==
  [s \in Sessions |-> IF Live(s) THEN "open"
                      ELSE IF s \in closed \cup DOMAIN verifications THEN "closed"
                      ELSE "new"]

Failure == <<"failed">>

RecordedOutcome ==
  [s \in Sessions |-> IF ~ Live(s) THEN NoSubject
                      ELSE IF verifications[s].error THEN Failure
                      ELSE verifications[s].subject]

Outcome == INSTANCE VerificationOutcome WITH
  Subjects <- Subjects, None <- NoSubject, Failed <- Failure,
  phase <- SessionPhase, proved <- provedBy, outcome <- RecordedOutcome

\* Whatever requests race, the store keeps the promise of VerificationOutcome:
\* a session opens once, records only holders who presented for it, and never
\* comes back.
KeepsOutcomePromise == Outcome!OutcomeSpec

\* A frontend that polls a stored session is told verified, failed or not
\* found in the end, and not left with pending.
PollSettles ==
  \A s \in Sessions :
    s \in DOMAIN verifications ~> shown[s] \in Settled

=============================================================================
