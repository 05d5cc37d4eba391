--------------------------- MODULE VerifierProofs ---------------------------
(***************************************************************************)
(* The Verifier's sessions keep the promise of VerificationOutcome, and    *)
(* their indexes agree, for any number of requests and sessions and        *)
(* whatever Judge makes of a presentation.                                 *)
(***************************************************************************)
EXTENDS VerifierSessions, GoMapsProofs

-----------------------------------------------------------------------------
Asked == Queries \ {<<>>}

Copies == {Fixed(s, q) : s \in Sessions, q \in Asked}

TokenMaps == {<<>>} \cup {AllVPTokens(raw, q) : raw \in VPTokens, q \in Asked}

VSession == [v : Copies, status : Statuses, tokens : TokenMaps,
             subject : Subjects \cup {NoSubject}, error : BOOLEAN,
             age : 0 .. Old, requestAge : 0 .. Old]

VRequest == [pc : PCs, s : Sessions \cup {""}, v : Copies \cup {<<>>}, age : 0 .. Old,
             tokens : TokenMaps, ok : BOOLEAN, subject : Subjects \cup {NoSubject}]

\* Types that the steps below rely on, and no session stored twice.
StoreTyped ==
  /\ IsMap(verifications, Sessions, VSession)
  /\ provedBy \in [Sessions -> SUBSET Subjects]
  /\ created \subseteq Sessions /\ closed \subseteq created
  /\ DOMAIN verifications \subseteq created
  /\ closed \cap DOMAIN verifications = {}

\* A presentation of subject for s verified.
Proven(s, v, tokens, subject) ==
  /\ subject \in provedBy[s]
  /\ \E lists \in ListAnswers :
       Judge(v, tokens, 0, lists).ok /\ Judge(v, tokens, 0, lists).subject = subject

SessionBacked(s) ==
  /\ \E q \in Asked : verifications[s].v = Fixed(s, q)
  /\ verifications[s].status = "verified" => verifications[s].subject # NoSubject
  /\ verifications[s].subject # NoSubject =>
       /\ verifications[s].error = FALSE
       /\ Proven(s, verifications[s].v, verifications[s].tokens, verifications[s].subject)
  /\ verifications[s].age <= verifications[s].requestAge

Stored == DOMAIN verifications \cup closed

\* What a request in progress knows of the session it serves.
RequestBacked(t) ==
  /\ vreq[t].pc # "idle" => vreq[t].s \in created
  /\ vreq[t].pc = "store" =>
       /\ vreq[t].s \notin Stored
       /\ \E q \in Asked : vreq[t].v = Fixed(vreq[t].s, q)
  /\ vreq[t].pc \in {"mark", "judge", "record"} => vreq[t].s \in Stored
  /\ vreq[t].pc \in {"judge", "record"} /\ vreq[t].s \in DOMAIN verifications =>
       verifications[vreq[t].s].v = vreq[t].v
  /\ vreq[t].pc = "judge" =>
       \E raw \in VPTokens, q \in Asked :
         vreq[t].v = Fixed(vreq[t].s, q) /\ vreq[t].tokens = AllVPTokens(raw, q)
  /\ vreq[t].pc = "record" =>
       \/ /\ vreq[t].ok = TRUE
          /\ Proven(vreq[t].s, vreq[t].v, vreq[t].tokens, vreq[t].subject)
       \/ vreq[t].ok = FALSE /\ vreq[t].subject = NoSubject

OneStore ==
  \A t, u \in VThreads :
    vreq[t].pc = "store" /\ vreq[u].pc = "store" /\ vreq[t].s = vreq[u].s => t = u

StoreInv ==
  StoreTyped /\ IndexesAgree /\ \A s \in DOMAIN verifications : SessionBacked(s)

RequestInv ==
  vreq \in [VThreads -> VRequest] /\ OneStore /\ \A t \in VThreads : RequestBacked(t)

VerifierInv == StoreInv /\ RequestInv

\* No session comes or goes, and what was fixed stays.
StoreKept ==
  /\ Stored' = Stored
  /\ \A s \in DOMAIN verifications' :
       s \in DOMAIN verifications /\ verifications'[s].v = verifications[s].v

Promise == [Outcome!OutcomeNext]_(Outcome!outcomeVars)

-----------------------------------------------------------------------------
\* subjectIDFromHolderKeys returns no empty subject.
LEMMA SubjectFacts == NoSubject \notin Subjects
<1>1. \A k : <<"sub", k>> # <<>>
  <2>1. \A k : Len(<<"sub", k>>) = 2 /\ Len(<<>>) = 0
    OBVIOUS
  <2> QED
    BY <2>1
<1> QED
  BY <1>1, Zenon DEF Subjects, SubjectID, NoSubject

\* CreateSession fixes nonce, key and query.
LEMMA FixedFacts ==
  ASSUME NEW s \in Sessions, NEW q \in Asked
  PROVE  Fixed(s, q) \in Copies /\ Fixed(s, q).query = q
BY DEF Fixed, Copies

\* A request that is done, or just taken up.
LEMMA IdleFacts ==
  /\ VIdle \in VRequest /\ VIdle.pc = "idle"
  /\ \A s \in Sessions :
       LET m == [VIdle EXCEPT !.pc = "mark", !.s = s] IN
       m \in VRequest /\ m.pc = "mark" /\ m.s = s
<1>1. VIdle \in VRequest
  <2>1. 0 \in 0 .. Old
    BY VerifierTimeAssumption DEF Old
  <2>2. "idle" \in PCs /\ <<>> \in TokenMaps
    BY DEF PCs, TokenMaps
  <2> QED
    BY <2>1, <2>2, Zenon DEF VIdle, VRequest
<1> QED
  BY <1>1, Zenon DEF VIdle, VRequest, PCs

\* HandleResponse's verdict is yes or no, and without a yes there is no subject.
LEMMA JudgeFacts ==
  ASSUME NEW v, NEW tokens, NEW lists
  PROVE  /\ Judge(v, tokens, 0, lists).ok \in BOOLEAN
         /\ Judge(v, tokens, 0, lists).ok = FALSE => Judge(v, tokens, 0, lists).subject = NoSubject
BY Zenon DEF Judge, Judgement

-----------------------------------------------------------------------------
\* What a request in progress knows survives every step that leaves the
\* sessions it may serve alone.
LEMMA RequestStable ==
  ASSUME VerifierInv, NEW t \in VThreads, vreq'[t] = vreq[t],
         created \subseteq created',
         \A s \in Sessions : provedBy[s] \subseteq provedBy'[s],
         Stored \subseteq Stored',
         vreq[t].pc = "store" => vreq[t].s \notin Stored',
         \A s \in Stored \cap DOMAIN verifications' :
            s \in DOMAIN verifications /\ verifications'[s].v = verifications[s].v
  PROVE  RequestBacked(t)'
<1>1. RequestBacked(t) /\ created \subseteq Sessions
  BY DEF VerifierInv, RequestInv, StoreInv, StoreTyped
<1>2. \A v, tokens, subject :
         vreq[t].s \in Sessions /\ Proven(vreq[t].s, v, tokens, subject) =>
           Proven(vreq[t].s, v, tokens, subject)'
  BY Zenon DEF Proven
<1>3. vreq[t].pc # "idle" => vreq[t].s \in Sessions
  BY <1>1 DEF RequestBacked
<1> QED
  BY <1>1, <1>2, <1>3 DEF RequestBacked

\* One request moves on, to anything but storing a session.
LEMMA OneRequestInv ==
  ASSUME VerifierInv, NEW t \in VThreads, NEW e \in VRequest,
         vreq' = [vreq EXCEPT ![t] = e], e.pc # "store", RequestBacked(t)',
         UNCHANGED created,
         \A s \in Sessions : provedBy[s] \subseteq provedBy'[s],
         StoreKept
  PROVE  RequestInv'
<1>1. vreq \in [VThreads -> VRequest] /\ OneStore /\ \A u \in VThreads : RequestBacked(u)
  BY DEF VerifierInv, RequestInv
<1>2. \A u \in VThreads : vreq'[u] = IF u = t THEN e ELSE vreq[u]
  BY <1>1
<1>3. vreq' \in [VThreads -> VRequest]
  BY <1>1
<1>4. OneStore'
  BY <1>1, <1>2 DEF OneStore
<1>5. ASSUME NEW u \in VThreads, u # t PROVE RequestBacked(u)'
  <2>1. vreq'[u] = vreq[u]
    BY <1>2, <1>5
  <2>2. vreq[u].pc = "store" => vreq[u].s \notin Stored'
    BY <1>1 DEF RequestBacked, StoreKept
  <2> QED
    BY <2>1, <2>2, RequestStable DEF StoreKept
<1> QED
  BY <1>3, <1>4, <1>5 DEF RequestInv

-----------------------------------------------------------------------------
\* A session that is not touched stays as it was.
LEMMA SessionStable ==
  ASSUME NEW s \in Sessions, SessionBacked(s),
         verifications'[s] = verifications[s], provedBy[s] \subseteq provedBy'[s]
  PROVE  SessionBacked(s)'
BY Zenon DEF SessionBacked, Proven

\* Sessions that live on with the same outcome show the same.
LEMMA SameView ==
  ASSUME Stored' = Stored, \A s \in Sessions : Live(s)' <=> Live(s),
         \A s \in Sessions : Live(s) =>
            /\ verifications'[s].error = verifications[s].error
            /\ verifications'[s].subject = verifications[s].subject
  PROVE  UNCHANGED <<SessionPhase, RecordedOutcome>>
<1>1. \A s \in Sessions : Live(s) \/ s \notin DOMAIN verifications \/ s \in Stored
  BY DEF Stored
<1>2. SessionPhase' = SessionPhase
  BY Zenon DEF SessionPhase, Stored
<1>3. RecordedOutcome' = RecordedOutcome
  BY Zenon DEF RecordedOutcome
<1> QED
  BY <1>2, <1>3

\* The lazy expiry of findVerificationLocked removes only what nobody sees
\* any more, from the store and from both indexes.
LEMMA ExpireFacts ==
  ASSUME VerifierInv, NEW s, Expire(s), UNCHANGED <<created, provedBy>>
  PROVE  StoreInv' /\ StoreKept /\ UNCHANGED <<SessionPhase, RecordedOutcome>>
<1>1. StoreTyped /\ IndexesAgree /\ \A x \in DOMAIN verifications : SessionBacked(x)
  BY DEF VerifierInv, StoreInv
<1>2. CASE ~ (s \in DOMAIN verifications /\ ~ Live(s))
  <2>1. UNCHANGED <<verifications, byState, byKID, closed, created, provedBy>>
    BY <1>2 DEF Expire, verifierStore
  <2>2. StoreTyped' /\ IndexesAgree'
    BY <1>1, <2>1 DEF StoreTyped, IndexesAgree
  <2>3. \A x \in DOMAIN verifications' : SessionBacked(x)'
    BY <1>1, <2>1, Zenon DEF SessionBacked, Proven
  <2> QED
    BY <2>1, <2>2, <2>3, Zenon
       DEF StoreInv, StoreKept, Stored, SessionPhase, RecordedOutcome, Live, Expired
<1>3. CASE s \in DOMAIN verifications /\ ~ Live(s)
  <2>1. /\ verifications' = Delete(verifications, s)
        /\ byState' = byState \ {s} /\ byKID' = byKID \ {s} /\ closed' = closed \cup {s}
    BY <1>3 DEF Expire, DeleteVerification
  <2>2. /\ DOMAIN verifications' = DOMAIN verifications \ {s}
        /\ \A x \in DOMAIN verifications' : verifications'[x] = verifications[x]
    <3>1. /\ DOMAIN Delete(verifications, s) = DOMAIN verifications \ {s}
          /\ \A x \in DOMAIN verifications : x # s => Delete(verifications, s)[x] = verifications[x]
      BY DeleteFacts, Zenon
    <3> QED
      BY <2>1, <3>1
  <2>3. StoreTyped'
    BY <1>1, <1>3, <2>1, <2>2, DeleteIsMap DEF StoreTyped
  <2>4. IndexesAgree'
    BY <1>1, <2>1, <2>2 DEF IndexesAgree
  <2>5. \A x \in DOMAIN verifications' : SessionBacked(x)'
    BY <1>1, <2>2, SessionStable DEF StoreTyped
  <2>6. Stored' = Stored
    BY <1>3, <2>1, <2>2 DEF Stored
  <2>7. \A x \in Sessions : Live(x)' <=> Live(x)
    BY <1>3, <2>2 DEF Live, Expired
  <2>8. \A x \in Sessions : Live(x) => verifications'[x] = verifications[x]
    BY <1>3, <2>2 DEF Live
  <2> QED
    BY <2>2, <2>3, <2>4, <2>5, <2>6, <2>7, <2>8, SameView DEF StoreInv, StoreKept
<1> QED
  BY <1>2, <1>3

\* UpdateVerificationStatus and UpdateVerificationResult on a live session.
LEMMA UpdateFacts ==
  ASSUME VerifierInv, NEW s, Live(s), NEW new \in VSession,
         new.v = verifications[s].v,
         new.age = verifications[s].age, new.requestAge = verifications[s].requestAge,
         new.status = "verified" => new.subject # NoSubject,
         new.subject # NoSubject =>
           new.error = FALSE /\ Proven(s, new.v, new.tokens, new.subject),
         verifications' = Put(verifications, s, new),
         UNCHANGED <<byState, byKID, closed, created, provedBy>>
  PROVE  /\ StoreInv' /\ StoreKept /\ SessionPhase' = SessionPhase
         /\ \A x \in DOMAIN verifications' : x # s => verifications'[x] = verifications[x]
         /\ verifications'[s] = new
         /\ \A x \in Sessions : Live(x)' <=> Live(x)
<1>1. StoreTyped /\ IndexesAgree /\ \A x \in DOMAIN verifications : SessionBacked(x)
  BY DEF VerifierInv, StoreInv
<1>2. s \in DOMAIN verifications /\ s \in Sessions
  BY <1>1 DEF Live, StoreTyped, IsMap
<1>3. /\ DOMAIN verifications' = DOMAIN verifications
      /\ verifications'[s] = new
      /\ \A x \in DOMAIN verifications : x # s => verifications'[x] = verifications[x]
  <2>1. /\ DOMAIN Put(verifications, s, new) = DOMAIN verifications \cup {s}
        /\ Put(verifications, s, new)[s] = new
        /\ \A x \in DOMAIN verifications : x # s => Put(verifications, s, new)[x] = verifications[x]
    BY DEF Put
  <2> QED
    BY <1>2, <2>1
<1>4. StoreTyped'
  BY <1>1, <1>2, <1>3, PutIsMap DEF StoreTyped
<1>5. IndexesAgree'
  BY <1>1, <1>3 DEF IndexesAgree
<1>6. SessionBacked(s)'
  BY <1>1, <1>2, <1>3 DEF SessionBacked, Proven
<1>7. ASSUME NEW x \in DOMAIN verifications', x # s PROVE SessionBacked(x)'
  BY <1>1, <1>3, <1>7, SessionStable DEF StoreTyped, IsMap
<1>8. Stored' = Stored
  BY <1>3 DEF Stored
<1>9. \A x \in Sessions : Live(x)' <=> Live(x)
  BY <1>3 DEF Live, Expired
<1>10. SessionPhase' = SessionPhase
  BY <1>8, <1>9, Zenon DEF SessionPhase, Stored
<1>11. StoreKept
  BY <1>3, <1>8 DEF StoreKept
<1> QED
  BY <1>3, <1>4, <1>5, <1>6, <1>7, <1>9, <1>10, <1>11 DEF StoreInv

-----------------------------------------------------------------------------
\* A step nobody outside can see keeps the promise.
LEMMA Unseen ==
  ASSUME UNCHANGED <<SessionPhase, RecordedOutcome, provedBy>>
  PROVE  Promise
BY DEF Promise, Outcome!outcomeVars

\* With nothing changed in the store, nothing is seen.
LEMMA StoreUntouched ==
  ASSUME StoreInv, UNCHANGED <<verifications, byState, byKID, closed>>,
         created \subseteq created' /\ created' \subseteq Sessions,
         provedBy' \in [Sessions -> SUBSET Subjects],
         \A s \in Sessions : provedBy[s] \subseteq provedBy'[s]
  PROVE  StoreInv' /\ StoreKept /\ UNCHANGED <<SessionPhase, RecordedOutcome>>
<1>1. StoreTyped /\ IndexesAgree /\ \A x \in DOMAIN verifications : SessionBacked(x)
  BY DEF StoreInv
<1>2. StoreTyped' /\ IndexesAgree'
  BY <1>1 DEF StoreTyped, IndexesAgree
<1>3. \A x \in DOMAIN verifications' : SessionBacked(x)'
  BY <1>1, SessionStable DEF StoreTyped
<1>4. StoreKept
  BY Zenon DEF StoreKept, Stored
<1>5. UNCHANGED <<SessionPhase, RecordedOutcome>>
  BY Zenon DEF SessionPhase, RecordedOutcome, Live, Expired
<1> QED
  BY <1>2, <1>3, <1>4, <1>5 DEF StoreInv

\* CreateSession up to the signature: an id is drawn.
LEMMA SignRequestObjectStep ==
  ASSUME VerifierInv, NEW t \in VThreads, NEW s \in Sessions, NEW q \in Queries,
         SignRequestObject(t, s, q)
  PROVE  VerifierInv' /\ Promise
<1> DEFINE e == [VIdle EXCEPT !.pc = "store", !.s = s, !.v = Fixed(s, q)]
<1>1. /\ StoreInv /\ StoreTyped /\ vreq \in [VThreads -> VRequest] /\ OneStore
      /\ \A u \in VThreads : RequestBacked(u)
  BY DEF VerifierInv, StoreInv, RequestInv
<1>2. /\ s \notin created /\ q \in Asked /\ created' = created \cup {s}
      /\ vreq' = [vreq EXCEPT ![t] = e]
      /\ UNCHANGED <<verifications, byState, byKID, closed, provedBy>>
  BY DEF SignRequestObject, verifierStore, Asked
<1>3. StoreInv' /\ StoreKept /\ UNCHANGED <<SessionPhase, RecordedOutcome>>
  BY <1>1, <1>2, StoreUntouched DEF StoreTyped
<1>4. e \in VRequest /\ e.pc = "store" /\ e.s = s /\ e.v = Fixed(s, q)
  <2>1. VIdle \in VRequest /\ Fixed(s, q) \in Copies /\ "store" \in PCs
    BY <1>2, IdleFacts, FixedFacts, Zenon DEF PCs
  <2> QED
    BY <2>1, Zenon DEF VRequest
<1> HIDE DEF e
<1>5. \A u \in VThreads : vreq'[u] = IF u = t THEN e ELSE vreq[u]
  BY <1>1, <1>2
<1>6. vreq' \in [VThreads -> VRequest]
  BY <1>1, <1>2, <1>4
<1>7. s \notin Stored'
  BY <1>1, <1>2 DEF Stored, StoreTyped
<1>8. RequestBacked(t)'
  <2>1. vreq'[t] = e
    BY <1>5
  <2> QED
    BY <1>2, <1>4, <1>7, <2>1 DEF RequestBacked
<1>9. ASSUME NEW u \in VThreads, u # t PROVE RequestBacked(u)'
  <2>1. vreq'[u] = vreq[u]
    BY <1>5, <1>9
  <2>2. vreq[u].pc = "store" => vreq[u].s \notin Stored'
    BY <1>1, <1>3 DEF RequestBacked, StoreKept
  <2> QED
    BY <1>2, <1>3, <2>1, <2>2, RequestStable DEF StoreKept
<1>10. \A u \in VThreads : vreq[u].pc = "store" => vreq[u].s # s
  BY <1>1, <1>2 DEF RequestBacked
<1>11. OneStore'
  BY <1>1, <1>4, <1>5, <1>10 DEF OneStore
<1>12. VerifierInv'
  BY <1>3, <1>6, <1>8, <1>9, <1>11 DEF VerifierInv, RequestInv
<1> QED
  BY <1>2, <1>3, <1>12, Unseen

\* CreateSession: the session is stored and opens, once.
LEMMA CreateSessionStep ==
  ASSUME VerifierInv, NEW t \in VThreads, CreateSession(t)
  PROVE  VerifierInv' /\ Promise
<1> DEFINE new == [v |-> vreq[t].v, status |-> "pending", tokens |-> <<>>,
                   subject |-> NoSubject, error |-> FALSE, age |-> 0,
                   requestAge |-> vreq[t].age]
<1>1. /\ StoreTyped /\ IndexesAgree /\ vreq \in [VThreads -> VRequest] /\ OneStore
      /\ \A x \in DOMAIN verifications : SessionBacked(x)
      /\ \A u \in VThreads : RequestBacked(u)
  BY DEF VerifierInv, StoreInv, RequestInv
<1>0. PICK s \in Sessions : s = vreq[t].s
  BY <1>1 DEF CreateSession, RequestBacked, StoreTyped
<1>2. /\ vreq[t].pc = "store" /\ verifications' = Put(verifications, s, new)
      /\ byState' = byState \cup {s} /\ byKID' = IF Encrypted THEN byKID \cup {s} ELSE byKID
      /\ vreq' = [vreq EXCEPT ![t] = VIdle]
      /\ UNCHANGED <<created, closed, provedBy>>
  BY <1>0 DEF CreateSession, StoreVerification, verifierHistory
<1>3. /\ s \in created /\ s \in Sessions /\ s \notin DOMAIN verifications /\ s \notin closed
      /\ \E q \in Asked : vreq[t].v = Fixed(s, q)
  BY <1>0, <1>1, <1>2 DEF RequestBacked, Stored, StoreTyped
<1>4. vreq[t].age \in 0 .. Old /\ vreq[t].v \in Copies /\ 0 \in 0 .. Old /\ 0 <= vreq[t].age
  <2>1. vreq[t].age \in 0 .. Old
    BY <1>1 DEF VRequest
  <2>2. vreq[t].v \in Copies
    BY <1>3, FixedFacts
  <2> QED
    BY <2>1, <2>2, VerifierTimeAssumption DEF Old
<1>5. /\ new \in VSession /\ new.v = vreq[t].v /\ new.status = "pending"
      /\ new.subject = NoSubject /\ new.age = 0 /\ new.requestAge = vreq[t].age
      /\ new.error = FALSE
  <2>1. "pending" \in Statuses /\ <<>> \in TokenMaps
    BY DEF Statuses, TokenMaps
  <2> QED
    BY <1>4, <2>1, Zenon DEF VSession
<1> HIDE DEF new
<1>6. /\ DOMAIN verifications' = DOMAIN verifications \cup {s}
      /\ verifications'[s] = new
      /\ \A x \in DOMAIN verifications : verifications'[x] = verifications[x]
  BY <1>2, <1>3 DEF Put
<1>7. StoreTyped'
  BY <1>1, <1>2, <1>3, <1>5, <1>6, PutIsMap DEF StoreTyped
<1>8. IndexesAgree'
  BY <1>1, <1>2, <1>6 DEF IndexesAgree
<1>9. SessionBacked(s)'
  BY <1>3, <1>4, <1>5, <1>6 DEF SessionBacked
<1>10. \A x \in DOMAIN verifications : SessionBacked(x)'
  BY <1>1, <1>2, <1>6, SessionStable DEF StoreTyped, IsMap
<1>11. Stored' = Stored \cup {s}
  BY <1>2, <1>6 DEF Stored
<1>12. \A u \in VThreads : vreq'[u] = IF u = t THEN VIdle ELSE vreq[u]
  BY <1>1, <1>2
<1>13. vreq' \in [VThreads -> VRequest] /\ OneStore'
  BY <1>1, <1>2, <1>12, IdleFacts, ZenonT(60) DEF OneStore
<1>14. RequestBacked(t)'
  BY <1>12, IdleFacts, Zenon DEF RequestBacked
<1>15. ASSUME NEW u \in VThreads, u # t PROVE RequestBacked(u)'
  <2>1. vreq'[u] = vreq[u]
    BY <1>12, <1>15
  <2>2. vreq[u].pc = "store" => vreq[u].s \notin Stored'
    BY <1>0, <1>1, <1>2, <1>11, <1>15 DEF RequestBacked, OneStore
  <2>3. \A x \in Stored \cap DOMAIN verifications' :
           x \in DOMAIN verifications /\ verifications'[x].v = verifications[x].v
    BY <1>3, <1>6 DEF Stored
  <2> QED
    BY <1>2, <1>11, <2>1, <2>2, <2>3, RequestStable
<1>16. VerifierInv'
  BY <1>6, <1>7, <1>8, <1>9, <1>10, <1>13, <1>14, <1>15
     DEF VerifierInv, StoreInv, RequestInv
<1>17. Outcome!Open(s)
  <2>1. Live(s)' /\ ~ Live(s)
    BY <1>3, <1>5, <1>6, VerifierTimeAssumption DEF Live, Expired
  <2>2. \A x \in Sessions : x # s => (Live(x)' <=> Live(x))
    BY <1>6 DEF Live, Expired
  <2>3. SessionPhase[s] = "new"
    BY <1>3, <2>1 DEF SessionPhase
  <2>4. SessionPhase' = [SessionPhase EXCEPT ![s] = "open"]
    BY <1>2, <1>6, <2>1, <2>2, Zenon DEF SessionPhase
  <2>5. RecordedOutcome' = RecordedOutcome
    <3>1. \A x \in Sessions : Live(x) => x # s /\ verifications'[x] = verifications[x]
      BY <1>6, <2>1 DEF Live
    <3> QED
      BY <1>5, <1>6, <2>1, <2>2, <3>1 DEF RecordedOutcome
  <2> QED
    BY <1>2, <2>3, <2>4, <2>5 DEF Outcome!Open
<1> QED
  BY <1>3, <1>16, <1>17 DEF Promise, Outcome!OutcomeNext

-----------------------------------------------------------------------------
\* A request that only runs into the lazy expiry, GetResult among them.
LEMMA ExpireOnly ==
  ASSUME VerifierInv, NEW s, Expire(s), UNCHANGED <<vreq, created, provedBy>>
  PROVE  VerifierInv' /\ Promise
<1>1. StoreInv' /\ StoreKept /\ UNCHANGED <<SessionPhase, RecordedOutcome>>
  BY ExpireFacts
<1>2. vreq \in [VThreads -> VRequest] /\ OneStore /\ \A u \in VThreads : RequestBacked(u)
  BY DEF VerifierInv, RequestInv
<1>3. ASSUME NEW u \in VThreads PROVE RequestBacked(u)'
  <2>1. vreq[u].pc = "store" => vreq[u].s \notin Stored'
    BY <1>1, <1>2 DEF RequestBacked, StoreKept
  <2> QED
    BY <1>1, <2>1, RequestStable DEF StoreKept
<1>4. RequestInv'
  BY <1>2, <1>3 DEF RequestInv, OneStore
<1> QED
  BY <1>1, <1>4, Unseen DEF VerifierInv

\* A request takes up a live session.
LEMMA TakeUp ==
  ASSUME VerifierInv, NEW t \in VThreads, NEW s, NEW e \in VRequest,
         Expire(s), vreq' = [vreq EXCEPT ![t] = e], e.pc # "store", RequestBacked(t)',
         UNCHANGED <<created, provedBy>>
  PROVE  VerifierInv' /\ Promise
<1>1. StoreInv' /\ StoreKept /\ UNCHANGED <<SessionPhase, RecordedOutcome>>
  BY ExpireFacts
<1>2. \A x \in Sessions : provedBy[x] \subseteq provedBy'[x]
  OBVIOUS
<1>3. RequestInv'
  BY <1>1, <1>2, OneRequestInv, Zenon
<1> QED
  BY <1>1, <1>3, Unseen DEF VerifierInv

\* GetRequestObject finds the session.
LEMMA GetRequestObjectStep ==
  ASSUME VerifierInv, NEW t \in VThreads, NEW s \in Sessions, GetRequestObject(t, s)
  PROVE  VerifierInv' /\ Promise
<1>1. Expire(s) /\ UNCHANGED <<created, provedBy>>
  BY DEF GetRequestObject
<1>2. CASE ~ Live(s)
  BY <1>1, <1>2, ExpireOnly DEF GetRequestObject
<1>3. CASE Live(s)
  <2> DEFINE e == [VIdle EXCEPT !.pc = "mark", !.s = s]
  <2>1. vreq' = [vreq EXCEPT ![t] = e] /\ UNCHANGED <<verifications, closed>>
    BY <1>1, <1>3 DEF GetRequestObject, Expire, verifierStore
  <2>2. e \in VRequest /\ e.pc = "mark" /\ e.s = s
    BY IdleFacts, Zenon
  <2> HIDE DEF e
  <2>3. vreq'[t] = e
    BY <2>1 DEF VerifierInv, RequestInv
  <2>4. s \in created' /\ s \in Stored'
    BY <1>1, <1>3, <2>1 DEF VerifierInv, StoreInv, StoreTyped, Live, Stored
  <2>5. RequestBacked(t)'
    BY <2>2, <2>3, <2>4 DEF RequestBacked
  <2> QED
    BY <1>1, <2>1, <2>2, <2>5, TakeUp, Zenon
<1> QED
  BY <1>2, <1>3

\* HandleResponse finds the session, with the copy it will judge.
LEMMA HandleResponseStep ==
  ASSUME VerifierInv, NEW t \in VThreads, NEW in \in Response, HandleResponse(t, in)
  PROVE  VerifierInv' /\ Promise
<1>1. PICK s : /\ s = Resolve(in) /\ Expire(s) /\ UNCHANGED <<created, provedBy>>
  BY DEF HandleResponse
<1>2. CASE ~ (Live(s) /\ WellFormed(in, s))
  BY <1>1, <1>2, ExpireOnly DEF HandleResponse
<1>3. CASE Live(s) /\ WellFormed(in, s)
  <2>1. s \in Sessions /\ s \in DOMAIN verifications /\ s \in created
    BY <1>3 DEF VerifierInv, StoreInv, StoreTyped, Live
  <2>2. PICK q \in Asked : verifications[s].v = Fixed(s, q)
    BY <2>1 DEF VerifierInv, StoreInv, SessionBacked
  <2> DEFINE e == [VIdle EXCEPT !.pc = "judge", !.s = s, !.v = Fixed(s, q),
                                !.tokens = AllVPTokens(in.raw, q)]
  <2>3. verifications[s].v.query = q
    BY <2>1, <2>2, FixedFacts
  <2>4. vreq' = [vreq EXCEPT ![t] = e] /\ UNCHANGED <<verifications, closed>>
    BY <1>1, <1>3, <2>2, <2>3 DEF HandleResponse, Expire, verifierStore
  <2>5. in.raw \in VPTokens
    BY DEF Response, PlainResponse, EncryptedResponse
  <2>6. /\ e \in VRequest /\ e.pc = "judge" /\ e.s = s /\ e.v = Fixed(s, q)
        /\ e.tokens = AllVPTokens(in.raw, q)
    <3>1. VIdle \in VRequest /\ Fixed(s, q) \in Copies /\ "judge" \in PCs
      BY <2>1, IdleFacts, FixedFacts, Zenon DEF PCs
    <3>2. AllVPTokens(in.raw, q) \in TokenMaps
      BY <2>5 DEF TokenMaps
    <3> QED
      BY <2>1, <3>1, <3>2, Zenon DEF VRequest
  <2> HIDE DEF e
  <2>7. vreq'[t] = e
    BY <2>4 DEF VerifierInv, RequestInv
  <2>8. s \in created' /\ s \in Stored' /\ verifications'[s].v = Fixed(s, q)
    BY <1>1, <2>1, <2>2, <2>4 DEF Stored
  <2>9. RequestBacked(t)'
    BY <2>5, <2>6, <2>7, <2>8 DEF RequestBacked
  <2> QED
    BY <1>1, <2>4, <2>6, <2>9, TakeUp, Zenon
<1> QED
  BY <1>2, <1>3

\* HandleResponse's verdict, which no one sees but the holder.
LEMMA VerifyResponseStep ==
  ASSUME VerifierInv, NEW t \in VThreads, NEW lists \in ListAnswers,
         VerifyResponse(t, lists)
  PROVE  VerifierInv' /\ Promise
<1>1. /\ StoreInv /\ StoreTyped /\ vreq \in [VThreads -> VRequest] /\ RequestBacked(t)
      /\ vreq[t].pc = "judge"
  BY DEF VerifierInv, StoreInv, RequestInv, VerifyResponse
<1>2. PICK s \in Sessions, raw \in VPTokens, q \in Asked :
         /\ s = vreq[t].s /\ vreq[t].v = Fixed(s, q) /\ vreq[t].tokens = AllVPTokens(raw, q)
         /\ s \in Stored /\ s \in created
  BY <1>1, Zenon DEF RequestBacked, StoreTyped
<1>3. PICK r : r = Judge(vreq[t].v, vreq[t].tokens, 0, lists)
  OBVIOUS
<1>4. /\ r.ok \in BOOLEAN /\ (r.ok = FALSE => r.subject = NoSubject)
      /\ (r.ok => r.subject \in Subjects)
  <2>1. r = Judge(Fixed(s, q), AllVPTokens(raw, q), 0, lists)
    BY <1>2, <1>3
  <2>2. r.ok => r.subject \in Subjects
    BY <2>1, HoldersAssumption, Zenon DEF Asked
  <2>3. r.ok \in BOOLEAN /\ (r.ok = FALSE => r.subject = NoSubject)
    BY <2>1, JudgeFacts, Zenon
  <2> QED
    BY <2>2, <2>3, Zenon
<1>0. PICK e : e = [vreq[t] EXCEPT !.pc = "record", !.ok = r.ok, !.subject = r.subject]
  OBVIOUS
<1>5. /\ vreq' = [vreq EXCEPT ![t] = e]
      /\ provedBy' = IF r.ok THEN [provedBy EXCEPT ![s] = @ \cup {r.subject}] ELSE provedBy
      /\ UNCHANGED <<verifications, byState, byKID, closed, created>>
  BY <1>0, <1>1, <1>2, <1>3, Zenon DEF VerifyResponse, Verdict, verifierStore
<1>6. /\ e \in VRequest /\ e.pc = "record" /\ e.s = s /\ e.v = vreq[t].v
      /\ e.tokens = vreq[t].tokens /\ e.ok = r.ok /\ e.subject = r.subject
  <2>1. vreq[t] \in VRequest /\ "record" \in PCs /\ r.subject \in Subjects \cup {NoSubject}
    BY <1>1, <1>4 DEF PCs
  <2> QED
    BY <1>0, <1>2, <1>4, <2>1, Zenon DEF VRequest
<1>7. vreq'[t] = e
  BY <1>1, <1>5, SMTT(30)
<1>8. /\ provedBy' \in [Sessions -> SUBSET Subjects]
      /\ \A x \in Sessions : provedBy[x] \subseteq provedBy'[x]
      /\ r.ok => r.subject \in provedBy'[s]
  BY <1>1, <1>2, <1>4, <1>5 DEF StoreTyped
<1>9. StoreInv' /\ StoreKept /\ UNCHANGED <<SessionPhase, RecordedOutcome>>
  BY <1>1, <1>5, <1>8, StoreUntouched DEF StoreTyped
<1>10. RequestBacked(t)'
  <2>1. s \in created' /\ s \in Stored'
    BY <1>2, <1>5, <1>9, SMTT(30) DEF StoreKept
  <2>2. s \in DOMAIN verifications' => verifications'[s].v = e.v
    BY <1>1, <1>2, <1>5, <1>6 DEF RequestBacked
  <2>3. r.ok => Proven(s, e.v, e.tokens, e.subject)'
    BY <1>3, <1>6, <1>8, Zenon DEF Proven
  <2> QED
    BY <1>4, <1>6, <1>7, <2>1, <2>2, <2>3 DEF RequestBacked
<1>11. VerifierInv'
  BY <1>5, <1>6, <1>8, <1>9, <1>10, OneRequestInv, Zenon DEF VerifierInv
<1>12. CASE r.ok
  <2>1. SessionPhase[s] # "new"
    BY <1>2 DEF SessionPhase, Stored
  <2>2. Outcome!Prove(s, r.subject)
    BY <1>5, <1>9, <1>12, <2>1 DEF Outcome!Prove
  <2> QED
    BY <1>2, <1>4, <1>11, <1>12, <2>2, SMTT(30) DEF Promise, Outcome!OutcomeNext
<1>13. CASE ~ r.ok
  BY <1>5, <1>9, <1>11, <1>13, Unseen
<1> QED
  BY <1>12, <1>13

-----------------------------------------------------------------------------
\* A request is over and finds its session gone.
LEMMA OverNotLive ==
  ASSUME VerifierInv, NEW t \in VThreads, NEW s, Expire(s),
         vreq' = [vreq EXCEPT ![t] = VIdle], UNCHANGED <<created, provedBy>>
  PROVE  VerifierInv' /\ Promise
<1>1. vreq'[t] = VIdle
  BY DEF VerifierInv, RequestInv
<1>2. RequestBacked(t)'
  BY <1>1, IdleFacts, Zenon DEF RequestBacked
<1>3. VIdle \in VRequest /\ VIdle.pc # "store"
  BY IdleFacts, Zenon
<1> QED
  BY <1>2, <1>3, TakeUp, Zenon

\* A request is over and has updated its live session.
LEMMA OverLive ==
  ASSUME VerifierInv, NEW t \in VThreads, vreq' = [vreq EXCEPT ![t] = VIdle],
         StoreInv', StoreKept, UNCHANGED <<created, provedBy>>
  PROVE  VerifierInv'
<1>1. vreq'[t] = VIdle
  BY DEF VerifierInv, RequestInv
<1>2. RequestBacked(t)'
  BY <1>1, IdleFacts, Zenon DEF RequestBacked
<1>3. VIdle \in VRequest /\ VIdle.pc # "store"
  BY IdleFacts, Zenon
<1>4. \A x \in Sessions : provedBy[x] \subseteq provedBy'[x]
  OBVIOUS
<1>5. RequestInv'
  BY <1>2, <1>3, <1>4, OneRequestInv, Zenon
<1> QED
  BY <1>5 DEF VerifierInv

\* UpdateVerificationStatus changes a status and nothing anyone is promised.
LEMMA MarkRequestSentStep ==
  ASSUME VerifierInv, NEW t \in VThreads, MarkRequestSent(t)
  PROVE  VerifierInv' /\ Promise
<1>1. PICK s : s = vreq[t].s
  OBVIOUS
<1>2. /\ Update(s, SentSession(s)) /\ vreq' = [vreq EXCEPT ![t] = VIdle]
      /\ UNCHANGED <<created, provedBy>>
  BY <1>1 DEF MarkRequestSent
<1>3. CASE ~ Live(s)
  BY <1>2, <1>3, OverNotLive, Zenon DEF Update
<1>4. CASE Live(s)
  <2>1. /\ StoreTyped /\ s \in DOMAIN verifications /\ s \in Sessions
        /\ verifications[s] \in VSession /\ SessionBacked(s)
    BY <1>4 DEF VerifierInv, StoreInv, StoreTyped, IsMap, Live
  <2>2. PICK new : new = [verifications[s] EXCEPT !.status = "request_sent"]
    BY Zenon
  <2>3. /\ new \in VSession /\ new.v = verifications[s].v /\ new.status = "request_sent"
        /\ new.tokens = verifications[s].tokens /\ new.subject = verifications[s].subject
        /\ new.error = verifications[s].error /\ new.age = verifications[s].age
        /\ new.requestAge = verifications[s].requestAge
    <3>1. "request_sent" \in Statuses
      BY DEF Statuses
    <3> QED
      BY <2>1, <2>2, <3>1, Zenon DEF VSession
  <2>4. /\ verifications' = Put(verifications, s, new)
        /\ UNCHANGED <<byState, byKID, closed, created, provedBy>>
    BY <1>2, <1>4, <2>2 DEF Update, SentSession
  <2>5. new.subject # NoSubject =>
           new.error = FALSE /\ Proven(s, new.v, new.tokens, new.subject)
    BY <2>1, <2>3, Zenon DEF SessionBacked
  <2>6. /\ StoreInv' /\ StoreKept /\ SessionPhase' = SessionPhase
        /\ \A x \in DOMAIN verifications' : x # s => verifications'[x] = verifications[x]
        /\ verifications'[s] = new
        /\ \A x \in Sessions : Live(x)' <=> Live(x)
    <3>1. new.status # "verified"
      BY <2>3
    <3> QED
      BY <1>4, <2>3, <2>4, <2>5, <3>1, UpdateFacts, Zenon
  <2>7. \A x \in Sessions : Live(x) =>
           /\ verifications'[x].error = verifications[x].error
           /\ verifications'[x].subject = verifications[x].subject
    BY <2>3, <2>6 DEF Live
  <2>8. UNCHANGED <<SessionPhase, RecordedOutcome>>
    BY <2>6, <2>7, SameView DEF StoreKept
  <2> QED
    BY <1>2, <2>6, <2>8, OverLive, Unseen, Zenon
<1> QED
  BY <1>3, <1>4

\* UpdateVerificationResult decides an open session, for a holder who has
\* presented in it or against.
LEMMA RecordResultStep ==
  ASSUME VerifierInv, NEW t \in VThreads, RecordResult(t)
  PROVE  VerifierInv' /\ Promise
<1>1. PICK s : s = vreq[t].s
  OBVIOUS
<1>2. /\ Update(s, ResultSession(t)) /\ vreq' = [vreq EXCEPT ![t] = VIdle]
      /\ UNCHANGED <<created, provedBy>> /\ vreq[t].pc = "record"
  BY <1>1 DEF RecordResult
<1>3. CASE ~ Live(s)
  BY <1>2, <1>3, OverNotLive, Zenon DEF Update
<1>4. CASE Live(s)
  <2>1. /\ StoreTyped /\ s \in DOMAIN verifications /\ s \in Sessions
        /\ verifications[s] \in VSession /\ RequestBacked(t) /\ vreq[t] \in VRequest
    BY <1>4, SMTT(30) DEF VerifierInv, StoreInv, StoreTyped, IsMap, Live, RequestInv
  <2>2. /\ verifications[s].v = vreq[t].v
        /\ \/ /\ vreq[t].ok = TRUE
              /\ Proven(s, vreq[t].v, vreq[t].tokens, vreq[t].subject)
           \/ vreq[t].ok = FALSE /\ vreq[t].subject = NoSubject
    BY <1>1, <1>2, <2>1 DEF RequestBacked
  <2>3. PICK ok : ok = vreq[t].ok
    OBVIOUS
  <2>4. PICK new : new = [verifications[s] EXCEPT
           !.status = IF ok THEN "verified" ELSE "failed",
           !.tokens = vreq[t].tokens, !.subject = vreq[t].subject, !.error = ~ ok]
    OBVIOUS
  <2>5. /\ new \in VSession /\ new.v = verifications[s].v
        /\ new.status = (IF ok THEN "verified" ELSE "failed")
        /\ new.tokens = vreq[t].tokens /\ new.subject = vreq[t].subject
        /\ new.error = ~ ok /\ new.age = verifications[s].age
        /\ new.requestAge = verifications[s].requestAge
    <3>1. (IF ok THEN "verified" ELSE "failed") \in Statuses
      BY DEF Statuses
    <3>2. vreq[t].tokens \in TokenMaps /\ vreq[t].subject \in Subjects \cup {NoSubject}
      BY <2>1, Zenon DEF VRequest
    <3>3. (~ ok) \in BOOLEAN
      BY Zenon
    <3> QED
      BY <2>1, <2>4, <3>1, <3>2, <3>3, Zenon DEF VSession
  <2>6. /\ verifications' = Put(verifications, s, new)
        /\ UNCHANGED <<byState, byKID, closed, created, provedBy>>
    BY <1>1, <1>2, <1>4, <2>3, <2>4, ZenonT(60) DEF Update, ResultSession
  <2>7. ok = TRUE => new.subject \in provedBy[s] /\ new.subject # NoSubject
    BY <2>1, <2>2, <2>3, <2>5, SubjectFacts DEF Proven, StoreTyped
  <2>8. /\ new.status = "verified" => new.subject # NoSubject
        /\ new.subject # NoSubject =>
             new.error = FALSE /\ Proven(s, new.v, new.tokens, new.subject)
    <3>1. CASE ok = TRUE
      <4>1. Proven(s, new.v, new.tokens, new.subject) /\ new.error = FALSE
        BY <2>2, <2>3, <2>5, <3>1, Zenon
      <4> QED
        BY <2>7, <3>1, <4>1
    <3>2. CASE ok = FALSE
      BY <2>2, <2>3, <2>5, <3>2
    <3> QED
      BY <2>2, <2>3, <3>1, <3>2, Zenon
  <2>9. /\ StoreInv' /\ StoreKept /\ SessionPhase' = SessionPhase
        /\ \A x \in DOMAIN verifications' : x # s => verifications'[x] = verifications[x]
        /\ verifications'[s] = new
        /\ \A x \in Sessions : Live(x)' <=> Live(x)
    BY <1>4, <2>5, <2>6, <2>8, UpdateFacts, Zenon
  <2>10. PICK o : o = IF new.error THEN Failure ELSE new.subject
    OBVIOUS
  <2>11. o \in provedBy[s] \cup {Failure}
    BY <2>2, <2>3, <2>5, <2>7, <2>10, Zenon
  <2>12. RecordedOutcome' = [RecordedOutcome EXCEPT ![s] = o]
    <3>1. \A x \in Sessions : Live(x)' => x \in DOMAIN verifications'
      BY DEF Live
    <3> QED
      BY <1>4, <2>1, <2>9, <2>10, <3>1, Zenon DEF RecordedOutcome
  <2>13. SessionPhase[s] = "open"
    BY <1>4, <2>1 DEF SessionPhase
  <2>14. Outcome!Decide(s, o)
    BY <1>2, <2>9, <2>11, <2>12, <2>13 DEF Outcome!Decide
  <2>15. o \in Subjects \cup {Failure}
    BY <2>1, <2>11 DEF StoreTyped
  <2>16. VerifierInv'
    BY <1>2, <2>9, OverLive, Zenon
  <2> QED
    BY <2>1, <2>14, <2>15, <2>16 DEF Promise, Outcome!OutcomeNext
<1> QED
  BY <1>3, <1>4

-----------------------------------------------------------------------------
\* Ages grow in step.
LEMMA OlderFacts ==
  ASSUME NEW a \in 0 .. Old, NEW b \in 0 .. Old
  PROVE  /\ Older(a) \in 0 .. Old /\ a <= Older(a)
         /\ a <= b => Older(a) <= Older(b)
BY VerifierTimeAssumption DEF Older, Old

\* A session that is only older: both ages move and nothing else does.
Aged(x) == [x EXCEPT !.age = Older(@), !.requestAge = Older(@)]

LEMMA AgedSession ==
  ASSUME NEW x \in VSession
  PROVE  /\ Aged(x) \in VSession /\ Aged(x).v = x.v /\ Aged(x).status = x.status
         /\ Aged(x).tokens = x.tokens /\ Aged(x).subject = x.subject /\ Aged(x).error = x.error
         /\ Aged(x).age = Older(x.age) /\ Aged(x).requestAge = Older(x.requestAge)
<1>1. x.age \in 0 .. Old /\ x.requestAge \in 0 .. Old
  BY Zenon DEF VSession
<1>2. Older(x.age) \in 0 .. Old /\ Older(x.requestAge) \in 0 .. Old
  BY <1>1, OlderFacts, Zenon
<1> QED
  BY <1>2, ZenonT(40) DEF VSession, Aged

\* Sessions that are no longer live all close at once, and no other changes.
LEMMA CloseFacts ==
  ASSUME NEW S \in SUBSET Sessions, Stored' = Stored, UNCHANGED provedBy,
         \A s \in S : Live(s) /\ ~ Live(s)',
         \A s \in Sessions \ S :
           /\ Live(s)' <=> Live(s)
           /\ Live(s) => /\ verifications'[s].error = verifications[s].error
                         /\ verifications'[s].subject = verifications[s].subject
  PROVE  Promise
<1>1. \A s \in S : s \in Stored
  BY DEF Live, Stored
<1>2. \A s \in S : SessionPhase[s] = "open"
  BY DEF SessionPhase
<1>3. SessionPhase' = [s \in Sessions |-> IF s \in S THEN "closed" ELSE SessionPhase[s]]
  <2> DEFINE P(s) == IF Live(s) THEN "open"
                     ELSE IF s \in closed \cup DOMAIN verifications THEN "closed" ELSE "new"
  <2>1. \A s \in S : P(s)' = "closed"
    BY <1>1, Zenon DEF Stored
  <2>0. \A s : (s \in closed \cup DOMAIN verifications)' <=> s \in closed \cup DOMAIN verifications
    BY DEF Stored
  <2>2. \A s \in Sessions \ S : P(s)' = P(s)
    BY <2>0, Zenon
  <2>3. SessionPhase = [s \in Sessions |-> P(s)] /\ SessionPhase' = [s \in Sessions |-> P(s)']
    BY Zenon DEF SessionPhase
  <2> HIDE DEF P
  <2> QED
    BY <2>1, <2>2, <2>3, Zenon
<1>4. RecordedOutcome' = [s \in Sessions |-> IF s \in S THEN NoSubject ELSE RecordedOutcome[s]]
  <2> DEFINE R(s) == IF ~ Live(s) THEN NoSubject
                     ELSE IF verifications[s].error THEN Failure ELSE verifications[s].subject
  <2>1. \A s \in S : R(s)' = NoSubject
    BY Zenon
  <2>2. \A s \in Sessions \ S : R(s)' = R(s)
    BY Zenon
  <2>3. RecordedOutcome = [s \in Sessions |-> R(s)] /\ RecordedOutcome' = [s \in Sessions |-> R(s)']
    BY Zenon DEF RecordedOutcome
  <2> HIDE DEF R
  <2> QED
    BY <2>1, <2>2, <2>3, Zenon
<1>5. Outcome!Close(S)
  BY <1>2, <1>3, <1>4 DEF Outcome!Close
<1> QED
  BY <1>5 DEF Promise, Outcome!OutcomeNext

\* The sessions that reach verificationSessionTTL close.
LEMMA VerifierTickStep ==
  ASSUME VerifierInv, VerifierTick
  PROVE  VerifierInv' /\ Promise
<1>1. /\ StoreTyped /\ IndexesAgree /\ vreq \in [VThreads -> VRequest] /\ OneStore
      /\ \A x \in DOMAIN verifications : x \in Sessions /\ SessionBacked(x)
      /\ \A u \in VThreads : RequestBacked(u)
  BY DEF VerifierInv, StoreInv, RequestInv, StoreTyped
<1>0. \A x \in DOMAIN verifications : verifications'[x] = Aged(verifications[x])
  BY Zenon DEF VerifierTick, Aged
<1>2. /\ DOMAIN verifications' = DOMAIN verifications
      /\ verifications' = [x \in DOMAIN verifications' |-> verifications'[x]]
      /\ UNCHANGED <<byState, byKID, closed, created, provedBy>>
  BY Zenon DEF VerifierTick, verifierHistory
<1>3. ASSUME NEW x \in DOMAIN verifications
      PROVE  /\ verifications'[x] \in VSession
             /\ verifications'[x].v = verifications[x].v
             /\ verifications'[x].status = verifications[x].status
             /\ verifications'[x].tokens = verifications[x].tokens
             /\ verifications'[x].subject = verifications[x].subject
             /\ verifications'[x].error = verifications[x].error
             /\ verifications'[x].age = Older(verifications[x].age)
             /\ verifications'[x].requestAge = Older(verifications[x].requestAge)
  <2>1. verifications[x] \in VSession
    BY <1>1 DEF StoreTyped, IsMap
  <2> QED
    BY <1>0, <2>1, AgedSession, ZenonT(60)
<1>4. StoreTyped' /\ IndexesAgree' /\ StoreKept
  BY <1>1, <1>2, <1>3 DEF StoreTyped, IsMap, IndexesAgree, StoreKept, Stored
<1>5. ASSUME NEW x \in DOMAIN verifications PROVE SessionBacked(x)'
  <2>1. verifications[x].age \in 0 .. Old /\ verifications[x].requestAge \in 0 .. Old
    BY <1>1 DEF StoreTyped, IsMap, VSession
  <2>2. verifications'[x].age <= verifications'[x].requestAge
    BY <1>1, <1>3, <2>1, OlderFacts DEF SessionBacked
  <2> QED
    <3>1. Proven(x, verifications[x].v, verifications[x].tokens, verifications[x].subject) =>
            Proven(x, verifications[x].v, verifications[x].tokens, verifications[x].subject)'
      BY <1>2, <1>3, Zenon DEF Proven
    <3>2. SessionBacked(x)
      BY <1>1, Zenon
    <3> QED
      BY <1>3, <2>2, <3>1, <3>2, Zenon DEF SessionBacked
<1>6. StoreInv'
  BY <1>2, <1>4, <1>5 DEF StoreInv
<1>7. ASSUME NEW u \in VThreads
      PROVE  /\ vreq'[u] \in VRequest /\ vreq'[u].pc = vreq[u].pc /\ vreq'[u].s = vreq[u].s
             /\ vreq'[u].v = vreq[u].v /\ (vreq[u].pc # "store" => vreq'[u] = vreq[u])
  <2>1. vreq[u] \in VRequest
    BY <1>1
  <2>2. vreq[u].age \in 0 .. Old
    BY <2>1, Zenon DEF VRequest
  <2>3. Older(vreq[u].age) \in 0 .. Old
    BY <2>2, OlderFacts, Zenon
  <2>4. vreq'[u] = IF vreq[u].pc = "store" THEN [vreq[u] EXCEPT !.age = Older(@)] ELSE vreq[u]
    BY Zenon DEF VerifierTick
  <2> QED
    BY <2>1, <2>3, <2>4, ZenonT(60) DEF VRequest
<1>8. vreq' \in [VThreads -> VRequest] /\ OneStore'
  <2>1. vreq' = [u \in VThreads |-> vreq'[u]]
    BY Zenon DEF VerifierTick
  <2> QED
    <3>1. vreq' \in [VThreads -> VRequest]
      BY <1>7, <2>1, Zenon
    <3>2. OneStore'
      BY <1>1, <1>7, ZenonT(60) DEF OneStore
    <3> QED
      BY <3>1, <3>2
<1>9. ASSUME NEW u \in VThreads PROVE RequestBacked(u)'
  <2>1. vreq[u].pc = "store" => vreq[u].s \notin Stored'
    BY <1>1, <1>4, Zenon DEF RequestBacked, StoreKept
  <2>2. CASE vreq[u].pc = "store"
    <3>1. /\ vreq'[u].pc = "store" /\ vreq'[u].s \in created' /\ vreq'[u].s \notin Stored'
          /\ \E q \in Asked : vreq'[u].v = Fixed(vreq'[u].s, q)
      BY <1>1, <1>2, <1>7, <2>1, <2>2, Zenon DEF RequestBacked
    <3> QED
      BY <3>1, Zenon DEF RequestBacked
  <2>3. CASE vreq[u].pc # "store"
    BY <1>2, <1>4, <1>7, <2>1, <2>3, RequestStable DEF StoreKept
  <2> QED
    BY <2>2, <2>3
<1>10. VerifierInv'
  BY <1>6, <1>8, <1>9 DEF VerifierInv, RequestInv
<1>11. \A x \in Sessions : Live(x)' => Live(x)
  <2> SUFFICES ASSUME NEW x \in Sessions, Live(x)' PROVE Live(x)
    OBVIOUS
  <2>1. x \in DOMAIN verifications /\ ~ (Older(verifications[x].age) > SessionTTL)
    BY <1>2, <1>3 DEF Live, Expired
  <2>2. verifications[x].age \in 0 .. Old
    BY <1>1, <2>1 DEF StoreTyped, IsMap, VSession
  <2> QED
    BY <2>1, <2>2, VerifierTimeAssumption DEF Live, Expired, Older, Old
<1>12. PICK S \in SUBSET Sessions : S = {x \in Sessions : Live(x) /\ ~ Live(x)'}
  BY Zenon
<1>13. /\ \A x \in S : Live(x) /\ ~ Live(x)'
       /\ \A x \in Sessions \ S : Live(x)' <=> Live(x)
  BY <1>11, <1>12
<1>14. \A x \in Sessions : Live(x) => /\ verifications'[x].error = verifications[x].error
                                    /\ verifications'[x].subject = verifications[x].subject
  BY <1>3, Zenon DEF Live
<1>15. Promise
  BY <1>2, <1>4, <1>13, <1>14, CloseFacts, Zenon DEF StoreKept
<1> QED
  BY <1>10, <1>15

\* A restart closes every session.
LEMMA VerifierRestartStep ==
  ASSUME VerifierInv, VerifierRestart
  PROVE  VerifierInv' /\ Promise
<1>1. StoreTyped /\ IndexesAgree
  BY DEF VerifierInv, StoreInv
<1>2. /\ verifications' = EmptyMap /\ DOMAIN verifications' = {}
      /\ byState' = {} /\ byKID' = {} /\ closed' = closed \cup DOMAIN verifications
      /\ UNCHANGED <<created, provedBy>> /\ vreq' = [t \in VThreads |-> VIdle]
  BY EmptyFacts DEF VerifierRestart
<1>3. StoreTyped'
  BY <1>1, <1>2, EmptyFacts DEF StoreTyped
<1>4. StoreInv'
  BY <1>2, <1>3 DEF StoreInv, IndexesAgree
<1>5. RequestInv'
  <2>1. VIdle \in VRequest /\ VIdle.pc = "idle"
    BY IdleFacts, Zenon
  <2>2. \A u \in VThreads : vreq'[u] = VIdle
    BY <1>2
  <2>3. vreq' \in [VThreads -> VRequest] /\ OneStore'
    BY <1>2, <2>1, <2>2 DEF OneStore
  <2>4. \A u \in VThreads : RequestBacked(u)'
    BY <2>1, <2>2 DEF RequestBacked
  <2> QED
    BY <2>3, <2>4 DEF RequestInv
<1>6. PICK S \in SUBSET Sessions : S = {x \in Sessions : Live(x)}
  BY Zenon
<1>7. Stored' = Stored /\ \A x \in Sessions : ~ Live(x)'
  BY <1>2 DEF Stored, Live
<1>8. Promise
  BY <1>2, <1>6, <1>7, CloseFacts
<1> QED
  BY <1>4, <1>5, <1>8 DEF VerifierInv

-----------------------------------------------------------------------------
\* Every step keeps the invariant and the promise.
LEMMA VerifierStep ==
  ASSUME VerifierInv, [VerifierNext]_verifierVars
  PROVE  VerifierInv' /\ Promise
<1>1. CASE UNCHANGED verifierVars
  <2>1. UNCHANGED <<verifications, byState, byKID, closed, vreq, created, provedBy>>
    BY <1>1 DEF verifierVars, verifierStore, verifierHistory
  <2>2. StoreInv' /\ StoreKept /\ UNCHANGED <<SessionPhase, RecordedOutcome>>
    BY <2>1, StoreUntouched, SMTT(30) DEF VerifierInv, StoreInv, StoreTyped
  <2>3. \A u \in VThreads : RequestBacked(u)'
    BY <2>1, ZenonT(60) DEF VerifierInv, RequestInv, RequestBacked, Stored, Proven
  <2>4. RequestInv'
    BY <2>1, <2>3 DEF VerifierInv, RequestInv, OneStore
  <2> QED
    BY <2>1, <2>2, <2>4, Unseen DEF VerifierInv
<1>2. ASSUME NEW s \in Sessions, GetResult(s) PROVE VerifierInv' /\ Promise
  BY <1>2, ExpireOnly, Zenon DEF GetResult
<1> QED
  BY <1>1, <1>2, SignRequestObjectStep, CreateSessionStep, GetRequestObjectStep,
     MarkRequestSentStep, HandleResponseStep, VerifyResponseStep, RecordResultStep,
     VerifierTickStep, VerifierRestartStep, Zenon DEF VerifierNext

\* A Verifier that has just started satisfies the invariant and shows nothing.
LEMMA VerifierStart ==
  ASSUME VerifierInit
  PROVE  VerifierInv /\ Outcome!OutcomeInit
<1>1. DOMAIN verifications = {} /\ IsMap(verifications, Sessions, VSession)
  BY EmptyFacts DEF VerifierInit
<1>2. StoreInv
  BY <1>1 DEF VerifierInit, StoreInv, StoreTyped, IndexesAgree
<1>3. RequestInv
  <2>1. VIdle \in VRequest /\ VIdle.pc = "idle"
    BY IdleFacts, Zenon
  <2>2. \A u \in VThreads : vreq[u] = VIdle
    BY DEF VerifierInit
  <2>3. vreq \in [VThreads -> VRequest] /\ OneStore
    BY <2>1, <2>2 DEF VerifierInit, OneStore
  <2>4. \A u \in VThreads : RequestBacked(u)
    BY <2>1, <2>2 DEF RequestBacked
  <2> QED
    BY <2>3, <2>4 DEF RequestInv
<1>4. Outcome!OutcomeInit
  <2>1. \A s \in Sessions : ~ Live(s) /\ s \notin closed \cup DOMAIN verifications
    BY <1>1 DEF VerifierInit, Live
  <2>2. SessionPhase = [s \in Sessions |-> "new"]
    BY <2>1, Zenon DEF SessionPhase
  <2>3. RecordedOutcome = [s \in Sessions |-> NoSubject]
    BY <2>1, Zenon DEF RecordedOutcome
  <2> QED
    BY <2>2, <2>3 DEF Outcome!OutcomeInit, VerifierInit
<1> QED
  BY <1>2, <1>3, <1>4 DEF VerifierInv

\* VerifierInv is an invariant of the Verifier's endpoints.
THEOREM VerifierInvariant == VerifierSpec => []VerifierInv
<1>1. VerifierInit => VerifierInv
  BY VerifierStart
<1>2. VerifierInv /\ [VerifierNext]_verifierVars => VerifierInv'
  BY VerifierStep
<1> QED
  BY <1>1, <1>2, PTL DEF VerifierSpec

\* Whatever requests race on a verification session, it opens once, an
\* outcome is recorded only while it is open and only for a holder who
\* presented for it, and a closed session never comes back.
THEOREM OutcomePromiseKept == VerifierSpec => KeepsOutcomePromise
<1>1. VerifierInit => Outcome!OutcomeInit
  BY VerifierStart
<1>2. VerifierInv /\ [VerifierNext]_verifierVars => [Outcome!OutcomeNext]_(Outcome!outcomeVars)
  BY VerifierStep DEF Promise
<1> QED
  BY <1>1, <1>2, VerifierInvariant, PTL
     DEF VerifierSpec, KeepsOutcomePromise, Outcome!OutcomeSpec

\* deleteVerificationLocked and StoreVerification keep the maps by state and
\* by encryption key in step with the sessions.
THEOREM IndexesAlwaysAgree == VerifierSpec => []IndexesAgree
<1>1. VerifierInv => IndexesAgree
  BY DEF VerifierInv, StoreInv
<1> QED
  BY <1>1, VerifierInvariant, PTL

\* A session names a subject only from a presentation that HandleResponse
\* verified under the nonce, the key and the query of this very session.
THEOREM VerifiedAlwaysBound == VerifierSpec => []VerifiedIsBound
<1>1. ASSUME VerifierInv PROVE VerifiedIsBound
  <2> SUFFICES ASSUME NEW s \in DOMAIN verifications
               PROVE  /\ verifications[s].status = "verified" => verifications[s].subject # NoSubject
                      /\ verifications[s].subject # NoSubject =>
                           /\ ~ verifications[s].error
                           /\ \E lists \in ListAnswers :
                                LET r == Judge(Fixed(s, verifications[s].v.query),
                                               verifications[s].tokens, 0, lists)
                                IN r.ok /\ r.subject = verifications[s].subject
    BY Zenon DEF VerifiedIsBound
  <2>1. SessionBacked(s) /\ s \in Sessions
    BY <1>1 DEF VerifierInv, StoreInv, StoreTyped
  <2>2. Fixed(s, verifications[s].v.query) = verifications[s].v
    BY <2>1, FixedFacts, ZenonT(60) DEF SessionBacked
  <2> QED
    BY <2>1, <2>2, Zenon DEF SessionBacked, Proven
<1> QED
  BY <1>1, VerifierInvariant, PTL

\* A Request Object, signed before its session is stored, expires with it at
\* the latest.
THEOREM RequestsDieWithSessions == VerifierSpec => []RequestDiesWithSession
<1>1. ASSUME VerifierInv PROVE RequestDiesWithSession
  <2> SUFFICES ASSUME NEW s \in DOMAIN verifications, Expired(s)
               PROVE  verifications[s].requestAge > RequestTTL
    BY DEF RequestDiesWithSession
  <2>1. verifications[s] \in VSession /\ SessionBacked(s)
    BY <1>1 DEF VerifierInv, StoreInv, StoreTyped, IsMap
  <2>2. verifications[s].age \in 0 .. Old /\ verifications[s].requestAge \in 0 .. Old
    BY <2>1, Zenon DEF VSession
  <2> QED
    BY <2>1, <2>2, VerifierTimeAssumption DEF Expired, SessionBacked, Old
<1> QED
  BY <1>1, VerifierInvariant, PTL

=============================================================================
