---------------------------- MODULE BridgeProofs ----------------------------
(***************************************************************************)
(* The safety properties of the login bridge, LoginBridge and              *)
(* RefreshTokens, for every number of tabs, token requests, AuthRequests,  *)
(* sessions, codes and refresh tokens, and every choice of the lifetimes.  *)
(***************************************************************************)
EXTENDS LoginBridge, RefreshTokens, GoMapsProofs

-----------------------------------------------------------------------------
\* Refresh tokens: the inductive invariant

\* What request r is about to exchange or revoke was issued; a request that
\* exchanges speaks for the login its token goes back to, and once it has
\* deleted the token the token stays out of the store.
CallBacked(r) ==
  /\ r.pc # "idle" => r.token \in DOMAIN lineage
  /\ r.pc \in {"delete", "put"} =>
       /\ r.subject = login[lineage[r.token]].subject
       /\ r.client = login[lineage[r.token]].client
  /\ r.pc = "put" => r.token \notin DOMAIN refreshTokens

CallsBacked == \A c \in RefreshCalls : CallBacked(rcall[c])

\* What has been exchanged, handed out or revoked was issued, for logins of
\* registered clients.
HistoryIssued ==
  /\ \A x \in exchanges : x.from \in DOMAIN lineage /\ x.to \in DOMAIN lineage
  /\ revoked \subseteq DOMAIN lineage
  /\ \A l \in DOMAIN login : login[l] \in [subject : RefreshSubjects, client : RPs]

RefreshInv ==
  /\ RefreshTypeOK
  /\ CallsBacked
  /\ HistoryIssued
  /\ LineageKept
  /\ RetiredStaysGone

\* RefreshInv holds when the process starts.
LEMMA RefreshInitInv == RefreshInit => RefreshInv
<1> SUFFICES ASSUME RefreshInit PROVE RefreshInv
    OBVIOUS
<1>1. DOMAIN refreshTokens = {} /\ DOMAIN login = {} /\ DOMAIN lineage = {}
    BY EmptyFacts DEF RefreshInit
<1>2. RefreshTypeOK
    BY <1>1, EmptyFacts, Zenon DEF RefreshInit, RefreshTypeOK, RefreshIdle
<1>3. CallsBacked
    BY Zenon DEF RefreshInit, CallsBacked, CallBacked, RefreshIdle
<1>4. HistoryIssued
    BY <1>1 DEF RefreshInit, HistoryIssued
<1>5. LineageKept /\ RetiredStaysGone
    BY <1>1 DEF RefreshInit, LineageKept, RetiredStaysGone
<1> QED
    BY <1>2, <1>3, <1>4, <1>5 DEF RefreshInv

\* LineageKept stays when tokens go or grow older.
LEMMA LineageStays ==
  ASSUME LineageKept, UNCHANGED <<login, lineage, exchanges>>,
         DOMAIN refreshTokens' \subseteq DOMAIN refreshTokens,
         \A k \in DOMAIN refreshTokens' :
           /\ refreshTokens'[k].subject = refreshTokens[k].subject
           /\ refreshTokens'[k].client = refreshTokens[k].client
  PROVE  LineageKept'
BY DEF LineageKept

\* What was issued keeps its login when more is issued.
LEMMA LineageGrows ==
  ASSUME LineageKept, HistoryIssued, DOMAIN refreshTokens \subseteq DOMAIN lineage,
         \A x \in DOMAIN lineage :
           lineage'[x] = lineage[x] /\ login'[lineage[x]] = login[lineage[x]],
         \A x \in DOMAIN refreshTokens : refreshTokens'[x] = refreshTokens[x]
  PROVE  /\ \A x \in DOMAIN refreshTokens :
              /\ refreshTokens'[x].subject = login'[lineage'[x]].subject
              /\ refreshTokens'[x].client = login'[lineage'[x]].client
         /\ \A x \in exchanges :
              /\ lineage'[x.to] = lineage'[x.from]
              /\ x.subject = login'[lineage'[x.from]].subject
              /\ x.client = login'[lineage'[x.from]].client
<1>1. \A x \in DOMAIN refreshTokens :
        /\ refreshTokens'[x].subject = login'[lineage'[x]].subject
        /\ refreshTokens'[x].client = login'[lineage'[x]].client
    BY DEF LineageKept
<1>2. ASSUME NEW x \in exchanges
      PROVE  /\ lineage'[x.to] = lineage'[x.from]
             /\ x.subject = login'[lineage'[x.from]].subject
             /\ x.client = login'[lineage'[x.from]].client
  <2>1. x.from \in DOMAIN lineage /\ x.to \in DOMAIN lineage
      BY Zenon DEF HistoryIssued
  <2>2. /\ lineage[x.to] = lineage[x.from]
        /\ x.subject = login[lineage[x.from]].subject
        /\ x.client = login[lineage[x.from]].client
      BY Zenon DEF LineageKept
  <2> QED
      BY <2>1, <2>2
<1> QED
    BY <1>1, <1>2, Zenon

\* A request that stays as it is stays backed when more is issued.
LEMMA CallBackedGrows ==
  ASSUME NEW r, CallBacked(r),
         \A x \in DOMAIN lineage :
           /\ x \in DOMAIN lineage' /\ login'[lineage'[x]] = login[lineage[x]]
           /\ x \in DOMAIN refreshTokens' => x \in DOMAIN refreshTokens
  PROVE  CallBacked(r)'
<1>1. CASE r.pc = "idle"
    BY <1>1 DEF CallBacked
<1>2. CASE r.pc # "idle"
  <2>1. r.token \in DOMAIN lineage
      BY <1>2, Zenon DEF CallBacked
  <2>2. /\ r.token \in DOMAIN lineage'
        /\ login'[lineage'[r.token]] = login[lineage[r.token]]
        /\ r.token \in DOMAIN refreshTokens' => r.token \in DOMAIN refreshTokens
      BY <2>1, Zenon
  <2> QED
      BY <2>2, Zenon DEF CallBacked
<1> QED
    BY <1>1, <1>2

\* What is retired stays gone when a token that was never issued is stored and
\* at most the exchange of a token that is gone is added.
LEMMA RetiredGrows ==
  ASSUME RetiredStaysGone, HistoryIssued, NEW k, k \notin DOMAIN lineage,
         DOMAIN refreshTokens' = DOMAIN refreshTokens \cup {k}, revoked' = revoked,
         \A x \in exchanges' : x \notin exchanges => x.from \notin DOMAIN refreshTokens'
  PROVE  RetiredStaysGone'
<1>1. ASSUME NEW x \in exchanges' PROVE x.from \notin DOMAIN refreshTokens'
  <2>1. CASE x \in exchanges
    <3>1. x.from \in DOMAIN lineage
        BY <2>1, Zenon DEF HistoryIssued
    <3>2. x.from \notin DOMAIN refreshTokens
        BY <2>1 DEF RetiredStaysGone
    <3> QED
        BY <3>1, <3>2
  <2> QED
      BY <2>1
<1>2. revoked' \cap DOMAIN refreshTokens' = {}
    BY DEF RetiredStaysGone, HistoryIssued
<1> QED
    BY <1>1, <1>2 DEF RetiredStaysGone

\* The stored tokens may go, or grow older; as long as the rest of the entries
\* and the history stay as they are, only the requests have to be looked at.
LEMMA RefreshKept ==
  ASSUME RefreshInv,
         UNCHANGED <<login, lineage, exchanges, revoked>>,
         IsMap(refreshTokens', RefreshNames,
               [subject : RefreshSubjects, client : RPs, age : 0 .. RefreshOld]),
         DOMAIN refreshTokens' \subseteq DOMAIN refreshTokens,
         \A k \in DOMAIN refreshTokens' :
           /\ refreshTokens'[k].subject = refreshTokens[k].subject
           /\ refreshTokens'[k].client = refreshTokens[k].client,
         rcall' \in [RefreshCalls ->
           [pc : {"idle", "delete", "put", "revoke"}, token : RefreshNames \cup {""},
            subject : RefreshSubjects \cup {""}, client : RPs \cup {""}]],
         CallsBacked'
  PROVE  RefreshInv'
<1>1. RefreshTypeOK'
    BY Zenon DEF RefreshInv, RefreshTypeOK
<1>2. HistoryIssued'
    BY Zenon DEF RefreshInv, HistoryIssued
<1>3. LineageKept'
    BY LineageStays, Zenon DEF RefreshInv
<1>4. RetiredStaysGone'
  <2>1. RetiredStaysGone
      BY Zenon DEF RefreshInv
  <2> QED
      BY <2>1, Zenon DEF RetiredStaysGone
<1> QED
    BY <1>1, <1>2, <1>3, <1>4, Zenon DEF RefreshInv

\* Deleting a token takes that token out and leaves the others as they are.
LEMMA DropFacts ==
  ASSUME RefreshInv, NEW k, refreshTokens' = Delete(refreshTokens, k)
  PROVE  /\ IsMap(refreshTokens', RefreshNames,
                  [subject : RefreshSubjects, client : RPs, age : 0 .. RefreshOld])
         /\ DOMAIN refreshTokens' \subseteq DOMAIN refreshTokens
         /\ \A x \in DOMAIN refreshTokens' : refreshTokens'[x] = refreshTokens[x]
         /\ k \notin DOMAIN refreshTokens'
<1>1. IsMap(refreshTokens, RefreshNames,
            [subject : RefreshSubjects, client : RPs, age : 0 .. RefreshOld])
    BY Zenon DEF RefreshInv, RefreshTypeOK
<1>2. IsMap(refreshTokens', RefreshNames,
            [subject : RefreshSubjects, client : RPs, age : 0 .. RefreshOld])
    BY <1>1, DeleteIsMap
<1>3. /\ DOMAIN refreshTokens' = DOMAIN refreshTokens \ {k}
      /\ \A x \in DOMAIN refreshTokens : x # k => refreshTokens'[x] = refreshTokens[x]
    BY DeleteFacts, Zenon
<1> QED
    BY <1>2, <1>3

\* Looking a token up drops at most that token.
LEMMA ExpireFacts ==
  ASSUME RefreshInv, NEW k, ExpireRefreshToken(k)
  PROVE  /\ IsMap(refreshTokens', RefreshNames,
                  [subject : RefreshSubjects, client : RPs, age : 0 .. RefreshOld])
         /\ DOMAIN refreshTokens' \subseteq DOMAIN refreshTokens
         /\ \A x \in DOMAIN refreshTokens' : refreshTokens'[x] = refreshTokens[x]
<1>1. CASE HaveRefreshToken(k)
    BY <1>1, Zenon DEF ExpireRefreshToken, RefreshInv, RefreshTypeOK
<1>2. CASE ~ HaveRefreshToken(k)
  <2>1. refreshTokens' = Delete(refreshTokens, k)
      BY <1>2 DEF ExpireRefreshToken
  <2> QED
      BY <2>1, DropFacts, Zenon
<1> QED
    BY <1>1, <1>2

\* The requests stay backed when tokens go and one of them, c, takes a step to
\* a state r that is backed.
LEMMA OneCallMoves ==
  ASSUME RefreshInv, UNCHANGED <<login, lineage>>,
         DOMAIN refreshTokens' \subseteq DOMAIN refreshTokens,
         NEW c \in RefreshCalls,
         NEW r \in [pc : {"idle", "delete", "put", "revoke"}, token : RefreshNames \cup {""},
                    subject : RefreshSubjects \cup {""}, client : RPs \cup {""}],
         rcall' = [rcall EXCEPT ![c] = r],
         CallBacked(rcall[c])'
  PROVE  /\ CallsBacked'
         /\ rcall' \in [RefreshCalls ->
              [pc : {"idle", "delete", "put", "revoke"}, token : RefreshNames \cup {""},
               subject : RefreshSubjects \cup {""}, client : RPs \cup {""}]]
<1>1. rcall \in [RefreshCalls ->
         [pc : {"idle", "delete", "put", "revoke"}, token : RefreshNames \cup {""},
          subject : RefreshSubjects \cup {""}, client : RPs \cup {""}]]
    BY Zenon DEF RefreshInv, RefreshTypeOK
<1>2. ASSUME NEW o \in RefreshCalls, o # c
      PROVE  CallBacked(rcall[o])'
  <2>1. rcall'[o] = rcall[o]
      BY <1>1, <1>2, Zenon
  <2>2. CallBacked(rcall[o])
      BY Zenon DEF RefreshInv, CallsBacked
  <2> QED
      BY <2>1, <2>2, Zenon DEF CallBacked
<1>3. CallsBacked'
    BY <1>2, Zenon DEF CallsBacked
<1> QED
    BY <1>1, <1>3, Zenon

\* A refresh_token grant's lookup preserves RefreshInv.
LEMMA TokenRequestInv ==
  ASSUME RefreshInv, NEW c \in RefreshCalls, NEW k \in RefreshNames, NEW client \in RPs,
         TokenRequestByRefreshToken(c, k, client)
  PROVE  RefreshInv'
<1>1. /\ UNCHANGED <<login, lineage, exchanges, revoked>>
      /\ k \in DOMAIN lineage
      /\ ExpireRefreshToken(k)
    BY DEF TokenRequestByRefreshToken
<1>2. /\ IsMap(refreshTokens', RefreshNames,
               [subject : RefreshSubjects, client : RPs, age : 0 .. RefreshOld])
      /\ DOMAIN refreshTokens' \subseteq DOMAIN refreshTokens
      /\ \A x \in DOMAIN refreshTokens' : refreshTokens'[x] = refreshTokens[x]
    BY <1>1, ExpireFacts, Zenon
<1>3. CASE HaveRefreshToken(k) /\ refreshTokens[k].client = client
  <2> DEFINE r == RefreshRequest(k, client)
  <2>1. rcall' = [rcall EXCEPT ![c] = r]
      BY <1>3, Zenon DEF TokenRequestByRefreshToken
  <2>2. /\ k \in DOMAIN refreshTokens
        /\ refreshTokens[k].subject \in RefreshSubjects
      BY <1>3, Zenon DEF HaveRefreshToken, RefreshInv, RefreshTypeOK, IsMap
  <2>3. /\ r \in [pc : {"idle", "delete", "put", "revoke"}, token : RefreshNames \cup {""},
                  subject : RefreshSubjects \cup {""}, client : RPs \cup {""}]
        /\ r.pc = "delete" /\ r.token = k /\ r.client = client
        /\ r.subject = refreshTokens[k].subject
      BY <2>2, Zenon DEF RefreshRequest
  <2> HIDE DEF r
  <2>4. rcall'[c] = r
      BY <2>1, Zenon DEF RefreshInv, RefreshTypeOK
  <2>5. /\ refreshTokens[k].subject = login[lineage[k]].subject
        /\ refreshTokens[k].client = login[lineage[k]].client
      BY <2>2 DEF RefreshInv, LineageKept
  <2>6. CallBacked(rcall[c])'
      BY <1>1, <1>3, <2>3, <2>4, <2>5, Zenon DEF CallBacked
  <2>7. /\ CallsBacked'
        /\ rcall' \in [RefreshCalls ->
             [pc : {"idle", "delete", "put", "revoke"}, token : RefreshNames \cup {""},
              subject : RefreshSubjects \cup {""}, client : RPs \cup {""}]]
      BY <1>1, <1>2, <2>1, <2>3, <2>6, OneCallMoves, Zenon
  <2> QED
      BY <1>1, <1>2, <2>7, RefreshKept, Zenon
<1>4. CASE ~ (HaveRefreshToken(k) /\ refreshTokens[k].client = client)
  <2>1. rcall' = rcall
      BY <1>4, Zenon DEF TokenRequestByRefreshToken
  <2>2. CallsBacked'
      BY <1>1, <1>2, <2>1 DEF RefreshInv, CallsBacked, CallBacked
  <2>3. rcall' \in [RefreshCalls ->
             [pc : {"idle", "delete", "put", "revoke"}, token : RefreshNames \cup {""},
              subject : RefreshSubjects \cup {""}, client : RPs \cup {""}]]
      BY <2>1, Zenon DEF RefreshInv, RefreshTypeOK
  <2> QED
      BY <1>1, <1>2, <2>2, <2>3, RefreshKept, Zenon
<1> QED
    BY <1>3, <1>4

\* Deleting the current token preserves RefreshInv: from here on the request
\* counts on the token being gone.
LEMMA DeleteCurrentInv ==
  ASSUME RefreshInv, NEW c \in RefreshCalls, DeleteCurrent(c)
  PROVE  RefreshInv'
<1> DEFINE r == [rcall[c] EXCEPT !.pc = "put"]
<1>1. /\ UNCHANGED <<login, lineage, exchanges, revoked>>
      /\ rcall[c].pc = "delete"
    BY DEF DeleteCurrent
<1>2. refreshTokens' = Delete(refreshTokens, rcall[c].token)
    BY DEF DeleteCurrent
<1>3. rcall' = [rcall EXCEPT ![c] = r]
    BY DEF DeleteCurrent
<1>4. /\ IsMap(refreshTokens', RefreshNames,
               [subject : RefreshSubjects, client : RPs, age : 0 .. RefreshOld])
      /\ DOMAIN refreshTokens' \subseteq DOMAIN refreshTokens
      /\ \A x \in DOMAIN refreshTokens' : refreshTokens'[x] = refreshTokens[x]
      /\ rcall[c].token \notin DOMAIN refreshTokens'
    BY <1>2, DropFacts, Zenon
<1>5. /\ r \in [pc : {"idle", "delete", "put", "revoke"}, token : RefreshNames \cup {""},
                subject : RefreshSubjects \cup {""}, client : RPs \cup {""}]
      /\ r.pc = "put" /\ r.token = rcall[c].token
      /\ r.subject = rcall[c].subject /\ r.client = rcall[c].client
    BY Zenon DEF RefreshInv, RefreshTypeOK
<1> HIDE DEF r
<1>6. rcall'[c] = r
    BY <1>3, Zenon DEF RefreshInv, RefreshTypeOK
<1>7. /\ rcall[c].token \in DOMAIN lineage
      /\ rcall[c].subject = login[lineage[rcall[c].token]].subject
      /\ rcall[c].client = login[lineage[rcall[c].token]].client
    BY <1>1 DEF RefreshInv, CallsBacked, CallBacked
<1>8. CallBacked(rcall[c])'
    BY <1>1, <1>4, <1>5, <1>6, <1>7, Zenon DEF CallBacked
<1>9. /\ CallsBacked'
      /\ rcall' \in [RefreshCalls ->
           [pc : {"idle", "delete", "put", "revoke"}, token : RefreshNames \cup {""},
            subject : RefreshSubjects \cup {""}, client : RPs \cup {""}]]
    BY <1>1, <1>3, <1>4, <1>5, <1>8, OneCallMoves, Zenon
<1> QED
    BY <1>1, <1>4, <1>9, RefreshKept, Zenon

\* A token k that was never issued before enters the store: what is known of
\* the older ones stays as it was.
LEMMA FreshFacts ==
  ASSUME RefreshInv, NEW k \in RefreshNames, Fresh(k), NEW l,
         NEW subject \in RefreshSubjects, NEW client \in RPs,
         PutRefreshToken(k, subject, client), lineage' = Put(lineage, k, l)
  PROVE  /\ IsMap(refreshTokens', RefreshNames,
                  [subject : RefreshSubjects, client : RPs, age : 0 .. RefreshOld])
         /\ DOMAIN refreshTokens' = DOMAIN refreshTokens \cup {k}
         /\ refreshTokens'[k].subject = subject /\ refreshTokens'[k].client = client
         /\ \A x \in DOMAIN refreshTokens :
              x # k /\ refreshTokens'[x] = refreshTokens[x]
         /\ DOMAIN lineage' = DOMAIN lineage \cup {k}
         /\ lineage'[k] = l
         /\ \A x \in DOMAIN lineage : x # k /\ lineage'[x] = lineage[x]
<1> DEFINE e == [subject |-> subject, age |-> 0, client |-> client]
<1>1. refreshTokens' = Put(refreshTokens, k, e)
    BY DEF PutRefreshToken
<1>2. /\ e \in [subject : RefreshSubjects, client : RPs, age : 0 .. RefreshOld]
      /\ e.subject = subject /\ e.client = client
    BY RefreshTimeAssumption DEF RefreshOld
<1> HIDE DEF e
<1>3. /\ IsMap(refreshTokens, RefreshNames,
               [subject : RefreshSubjects, client : RPs, age : 0 .. RefreshOld])
      /\ DOMAIN refreshTokens \subseteq DOMAIN lineage
    BY Zenon DEF RefreshInv, RefreshTypeOK
<1>4. IsMap(refreshTokens', RefreshNames,
            [subject : RefreshSubjects, client : RPs, age : 0 .. RefreshOld])
    BY <1>1, <1>2, <1>3, PutIsMap, Zenon
<1>5. /\ DOMAIN refreshTokens' = DOMAIN refreshTokens \cup {k}
      /\ refreshTokens'[k] = e
      /\ \A x \in DOMAIN refreshTokens : x # k => refreshTokens'[x] = refreshTokens[x]
    BY <1>1 DEF Put
<1>6. k \notin DOMAIN lineage /\ k \notin DOMAIN refreshTokens
    BY <1>3 DEF Fresh
<1>7. /\ DOMAIN lineage' = DOMAIN lineage \cup {k}
      /\ lineage'[k] = l
      /\ \A x \in DOMAIN lineage : x # k => lineage'[x] = lineage[x]
    BY DEF Put
<1> QED
    BY <1>2, <1>4, <1>5, <1>6, <1>7, Zenon

\* The first tokens of a login preserve RefreshInv.
LEMMA GrantInv ==
  ASSUME RefreshInv, NEW l \in Logins, NEW k \in RefreshNames,
         NEW subject \in RefreshSubjects, NEW client \in RPs, Grant(l, k, subject, client)
  PROVE  RefreshInv'
<1> DEFINE e == [subject |-> subject, client |-> client]
<1>1. /\ l \notin DOMAIN login /\ Fresh(k)
      /\ PutRefreshToken(k, subject, client)
      /\ lineage' = Put(lineage, k, l)
      /\ UNCHANGED <<rcall, exchanges, revoked>>
    BY DEF Grant
<1>2. login' = Put(login, l, e)
    BY DEF Grant
<1>3. e \in [subject : RefreshSubjects, client : RPs] /\ e.subject = subject /\ e.client = client
    OBVIOUS
<1> HIDE DEF e
<1>4. /\ IsMap(refreshTokens', RefreshNames,
               [subject : RefreshSubjects, client : RPs, age : 0 .. RefreshOld])
      /\ DOMAIN refreshTokens' = DOMAIN refreshTokens \cup {k}
      /\ refreshTokens'[k].subject = subject /\ refreshTokens'[k].client = client
      /\ \A x \in DOMAIN refreshTokens :
           x # k /\ refreshTokens'[x] = refreshTokens[x]
      /\ DOMAIN lineage' = DOMAIN lineage \cup {k}
      /\ lineage'[k] = l
      /\ \A x \in DOMAIN lineage : x # k /\ lineage'[x] = lineage[x]
    BY <1>1, FreshFacts, Zenon
<1>5. /\ DOMAIN login' = DOMAIN login \cup {l}
      /\ login'[l] = e
      /\ \A x \in DOMAIN login : x # l => login'[x] = login[x]
    BY <1>2 DEF Put
<1>6. /\ IsMap(lineage, RefreshNames, DOMAIN login)
      /\ DOMAIN refreshTokens \subseteq DOMAIN lineage
      /\ \A x \in DOMAIN lineage : lineage[x] \in DOMAIN login
    BY Zenon DEF RefreshInv, RefreshTypeOK, IsMap
<1>7. \A x \in DOMAIN lineage : lineage'[x] = lineage[x] /\ login'[lineage[x]] = login[lineage[x]]
    BY <1>1, <1>4, <1>5, <1>6
<1>8. RefreshTypeOK'
  <2>1. IsMap(lineage, RefreshNames, DOMAIN login')
      BY <1>5, <1>6 DEF IsMap
  <2>2. IsMap(lineage', RefreshNames, DOMAIN login')
      BY <1>1, <1>5, <2>1, PutIsMap
  <2> QED
      BY <1>1, <1>4, <1>5, <2>2, Zenon DEF RefreshInv, RefreshTypeOK
<1>9. CallsBacked'
  <2>1. SUFFICES ASSUME NEW o \in RefreshCalls PROVE CallBacked(rcall[o])'
      BY DEF CallsBacked
  <2>2. PICK r : r = rcall[o] /\ r = rcall'[o]
      BY <1>1
  <2>3. CallBacked(r)
      BY <2>2, Zenon DEF RefreshInv, CallsBacked
  <2>4. \A x \in DOMAIN lineage :
           /\ x \in DOMAIN lineage' /\ login'[lineage'[x]] = login[lineage[x]]
           /\ x \in DOMAIN refreshTokens' => x \in DOMAIN refreshTokens
      BY <1>4, <1>7
  <2>5. CallBacked(r)'
      BY <2>3, <2>4, CallBackedGrows
  <2> QED
      BY <2>2, <2>5, Zenon DEF CallBacked
<1>10. HistoryIssued'
  <2>1. HistoryIssued
      BY Zenon DEF RefreshInv
  <2> QED
      BY <1>1, <1>3, <1>4, <1>5, <2>1 DEF HistoryIssued
<1>11. LineageKept'
  <2>1. LineageKept /\ HistoryIssued
      BY Zenon DEF RefreshInv
  <2>2. /\ \A x \in DOMAIN refreshTokens :
             /\ refreshTokens'[x].subject = login'[lineage'[x]].subject
             /\ refreshTokens'[x].client = login'[lineage'[x]].client
        /\ \A x \in exchanges :
             /\ lineage'[x.to] = lineage'[x.from]
             /\ x.subject = login'[lineage'[x.from]].subject
             /\ x.client = login'[lineage'[x.from]].client
      BY <1>4, <1>6, <1>7, <2>1, LineageGrows, Zenon
  <2>3. /\ refreshTokens'[k].subject = login'[lineage'[k]].subject
        /\ refreshTokens'[k].client = login'[lineage'[k]].client
      BY <1>3, <1>4, <1>5, Zenon
  <2>4. exchanges' = exchanges
      BY <1>1
  <2>5. \A x \in DOMAIN refreshTokens' :
          /\ refreshTokens'[x].subject = login'[lineage'[x]].subject
          /\ refreshTokens'[x].client = login'[lineage'[x]].client
      BY <1>4, <2>2, <2>3
  <2> QED
      BY <2>2, <2>4, <2>5 DEF LineageKept
<1>12. RetiredStaysGone'
  <2>1. RetiredStaysGone /\ HistoryIssued
      BY Zenon DEF RefreshInv
  <2>2. k \notin DOMAIN lineage /\ revoked' = revoked /\ exchanges' = exchanges
      BY <1>1 DEF Fresh
  <2> QED
      BY <1>4, <2>1, <2>2, RetiredGrows, Zenon
<1> QED
    BY <1>8, <1>9, <1>10, <1>11, <1>12 DEF RefreshInv

\* Storing the token that replaces the one exchanged preserves RefreshInv: it
\* goes back to the same login, and the one exchanged is not in the store.
LEMMA PutFreshInv ==
  ASSUME RefreshInv, NEW c \in RefreshCalls, NEW k \in RefreshNames, PutFresh(c, k)
  PROVE  RefreshInv'
<1> DEFINE r == rcall[c]
           l == lineage[r.token]
           x == [from |-> r.token, to |-> k, subject |-> r.subject, client |-> r.client]
<1>1. /\ r.pc = "put" /\ Fresh(k)
      /\ PutRefreshToken(k, r.subject, r.client)
      /\ lineage' = Put(lineage, k, l)
      /\ UNCHANGED <<login, revoked>>
    BY Zenon DEF PutFresh
<1>2. exchanges' = exchanges \cup {x} /\ rcall' = [rcall EXCEPT ![c] = RefreshIdle]
    BY DEF PutFresh
<1>3. x.from = r.token /\ x.to = k /\ x.subject = r.subject /\ x.client = r.client
    OBVIOUS
<1>4. /\ r.token \in DOMAIN lineage /\ r.token \notin DOMAIN refreshTokens
      /\ r.subject = login[l].subject /\ r.client = login[l].client
    BY <1>1, Zenon DEF RefreshInv, CallsBacked, CallBacked
<1> HIDE DEF r, l, x
<1>5. l \in DOMAIN login /\ login[l] \in [subject : RefreshSubjects, client : RPs]
    BY <1>4, Zenon DEF RefreshInv, RefreshTypeOK, HistoryIssued, IsMap, l
<1>6. r.subject \in RefreshSubjects /\ r.client \in RPs
    BY <1>4, <1>5, Zenon
<1>7. /\ IsMap(refreshTokens', RefreshNames,
               [subject : RefreshSubjects, client : RPs, age : 0 .. RefreshOld])
      /\ DOMAIN refreshTokens' = DOMAIN refreshTokens \cup {k}
      /\ refreshTokens'[k].subject = r.subject /\ refreshTokens'[k].client = r.client
      /\ \A y \in DOMAIN refreshTokens :
           y # k /\ refreshTokens'[y] = refreshTokens[y]
      /\ DOMAIN lineage' = DOMAIN lineage \cup {k}
      /\ lineage'[k] = l
      /\ \A y \in DOMAIN lineage : y # k /\ lineage'[y] = lineage[y]
    BY <1>1, <1>6, FreshFacts, Zenon
<1>8. RefreshTypeOK'
  <2>1. IsMap(lineage', RefreshNames, DOMAIN login)
      BY <1>1, <1>5, PutIsMap, Zenon DEF RefreshInv, RefreshTypeOK
  <2>2. rcall' \in [RefreshCalls ->
       [pc : {"idle", "delete", "put", "revoke"}, token : RefreshNames \cup {""},
        subject : RefreshSubjects \cup {""}, client : RPs \cup {""}]]
      BY <1>2, Zenon DEF RefreshInv, RefreshTypeOK, RefreshIdle
  <2> QED
      BY <1>1, <1>7, <2>1, <2>2, Zenon DEF RefreshInv, RefreshTypeOK
<1>9. CallsBacked'
  <2>1. SUFFICES ASSUME NEW o \in RefreshCalls PROVE CallBacked(rcall[o])'
      BY DEF CallsBacked
  <2>2. CASE o = c
    <3>1. rcall'[o] = RefreshIdle
        BY <1>2, <2>2, Zenon DEF RefreshInv, RefreshTypeOK
    <3>2. RefreshIdle.pc = "idle"
        BY Zenon DEF RefreshIdle
    <3> QED
        BY <3>1, <3>2 DEF CallBacked
  <2>3. CASE o # c
    <3>1. PICK q : q = rcall[o] /\ q = rcall'[o]
        BY <1>2, <2>3, Zenon DEF RefreshInv, RefreshTypeOK
    <3>2. CallBacked(q)
        BY <3>1, Zenon DEF RefreshInv, CallsBacked
    <3>3. \A y \in DOMAIN lineage :
            /\ y \in DOMAIN lineage' /\ login'[lineage'[y]] = login[lineage[y]]
            /\ y \in DOMAIN refreshTokens' => y \in DOMAIN refreshTokens
        BY <1>1, <1>7
    <3>4. CallBacked(q)'
        BY <3>2, <3>3, CallBackedGrows
    <3> QED
        BY <3>1, <3>4, Zenon DEF CallBacked
  <2> QED
      BY <2>2, <2>3
<1>10. HistoryIssued'
  <2>1. HistoryIssued
      BY Zenon DEF RefreshInv
  <2> QED
      BY <1>1, <1>2, <1>3, <1>4, <1>7, <2>1 DEF HistoryIssued
<1>11. LineageKept'
  <2>1. LineageKept /\ HistoryIssued
      BY Zenon DEF RefreshInv
  <2>2. /\ \A y \in DOMAIN refreshTokens :
             /\ refreshTokens'[y].subject = login'[lineage'[y]].subject
             /\ refreshTokens'[y].client = login'[lineage'[y]].client
        /\ \A y \in exchanges :
             /\ lineage'[y.to] = lineage'[y.from]
             /\ y.subject = login'[lineage'[y.from]].subject
             /\ y.client = login'[lineage'[y.from]].client
    <3>1. DOMAIN refreshTokens \subseteq DOMAIN lineage
        BY Zenon DEF RefreshInv, RefreshTypeOK
    <3>2. \A y \in DOMAIN lineage :
            lineage'[y] = lineage[y] /\ login'[lineage[y]] = login[lineage[y]]
        BY <1>1, <1>7, Zenon
    <3> QED
        BY <1>7, <2>1, <3>1, <3>2, LineageGrows, Zenon
  <2>3. /\ refreshTokens'[k].subject = login'[lineage'[k]].subject
        /\ refreshTokens'[k].client = login'[lineage'[k]].client
      BY <1>1, <1>4, <1>7, Zenon
  <2>4. /\ lineage'[x.to] = lineage'[x.from]
        /\ x.subject = login'[lineage'[x.from]].subject
        /\ x.client = login'[lineage'[x.from]].client
      BY <1>1, <1>3, <1>4, <1>7 DEF l
  <2>5. \A y \in DOMAIN refreshTokens' :
          /\ refreshTokens'[y].subject = login'[lineage'[y]].subject
          /\ refreshTokens'[y].client = login'[lineage'[y]].client
      BY <1>7, <2>2, <2>3
  <2>6. \A y \in exchanges' :
          /\ lineage'[y.to] = lineage'[y.from]
          /\ y.subject = login'[lineage'[y.from]].subject
          /\ y.client = login'[lineage'[y.from]].client
      BY <1>2, <2>2, <2>4
  <2> QED
      BY <2>5, <2>6 DEF LineageKept
<1>12. RetiredStaysGone'
  <2>1. RetiredStaysGone /\ HistoryIssued
      BY Zenon DEF RefreshInv
  <2>2. k \notin DOMAIN lineage /\ revoked' = revoked
      BY <1>1, Zenon DEF Fresh
  <2>3. x.from \notin DOMAIN refreshTokens'
      BY <1>3, <1>4, <1>7
  <2>4. \A y \in exchanges' : y \notin exchanges => y.from \notin DOMAIN refreshTokens'
      BY <1>2, <2>3
  <2> QED
      BY <1>7, <2>1, <2>2, <2>4, RetiredGrows, Zenon
<1> QED
    BY <1>8, <1>9, <1>10, <1>11, <1>12, Zenon DEF RefreshInv

\* A revocation request's lookup preserves RefreshInv.
LEMMA GetRefreshTokenInfoInv ==
  ASSUME RefreshInv, NEW c \in RefreshCalls, NEW k \in RefreshNames, NEW client \in RPs,
         GetRefreshTokenInfo(c, k, client)
  PROVE  RefreshInv'
<1> DEFINE r == [RefreshIdle EXCEPT !.pc = "revoke", !.token = k]
<1>1. /\ UNCHANGED <<login, lineage, exchanges, revoked>>
      /\ k \in DOMAIN lineage
      /\ ExpireRefreshToken(k)
    BY DEF GetRefreshTokenInfo
<1>2. /\ IsMap(refreshTokens', RefreshNames,
               [subject : RefreshSubjects, client : RPs, age : 0 .. RefreshOld])
      /\ DOMAIN refreshTokens' \subseteq DOMAIN refreshTokens
      /\ \A x \in DOMAIN refreshTokens' : refreshTokens'[x] = refreshTokens[x]
    BY <1>1, ExpireFacts, Zenon
<1>3. rcall' = [rcall EXCEPT ![c] = r] \/ rcall' = rcall
    BY DEF GetRefreshTokenInfo
<1>4. /\ r \in [pc : {"idle", "delete", "put", "revoke"}, token : RefreshNames \cup {""},
                subject : RefreshSubjects \cup {""}, client : RPs \cup {""}]
      /\ r.pc = "revoke" /\ r.token = k
    BY Zenon DEF RefreshIdle
<1> HIDE DEF r
<1>5. CASE rcall' = [rcall EXCEPT ![c] = r]
  <2>1. rcall'[c] = r
      BY <1>5, Zenon DEF RefreshInv, RefreshTypeOK
  <2>2. CallBacked(rcall[c])'
      BY <1>1, <1>4, <2>1, Zenon DEF CallBacked
  <2>3. /\ CallsBacked'
        /\ rcall' \in [RefreshCalls ->
             [pc : {"idle", "delete", "put", "revoke"}, token : RefreshNames \cup {""},
              subject : RefreshSubjects \cup {""}, client : RPs \cup {""}]]
      BY <1>1, <1>2, <1>4, <1>5, <2>2, OneCallMoves, Zenon
  <2> QED
      BY <1>1, <1>2, <2>3, RefreshKept, Zenon
<1>6. CASE rcall' = rcall
  <2>1. CallsBacked'
      BY <1>1, <1>2, <1>6, Zenon DEF RefreshInv, CallsBacked, CallBacked
  <2>2. rcall' \in [RefreshCalls ->
             [pc : {"idle", "delete", "put", "revoke"}, token : RefreshNames \cup {""},
              subject : RefreshSubjects \cup {""}, client : RPs \cup {""}]]
      BY <1>6, Zenon DEF RefreshInv, RefreshTypeOK
  <2> QED
      BY <1>1, <1>2, <2>1, <2>2, RefreshKept, Zenon
<1> QED
    BY <1>3, <1>5, <1>6

\* Revoking a token preserves RefreshInv.
LEMMA RevokeTokenInv ==
  ASSUME RefreshInv, NEW c \in RefreshCalls, RevokeToken(c)
  PROVE  RefreshInv'
<1> DEFINE k == rcall[c].token
<1>1. /\ UNCHANGED <<login, lineage, exchanges>>
      /\ rcall[c].pc = "revoke"
      /\ revoked' = revoked \cup {k}
    BY DEF RevokeToken
<1>2. refreshTokens' = Delete(refreshTokens, k)
    BY DEF RevokeToken
<1>3. rcall' = [rcall EXCEPT ![c] = RefreshIdle]
    BY Zenon DEF RevokeToken
<1>4. k \in DOMAIN lineage
    BY <1>1 DEF RefreshInv, CallsBacked, CallBacked
<1>5. k \in RefreshNames
    BY <1>4, Zenon DEF RefreshInv, RefreshTypeOK, IsMap
<1> HIDE DEF k
<1>6. /\ IsMap(refreshTokens', RefreshNames,
               [subject : RefreshSubjects, client : RPs, age : 0 .. RefreshOld])
      /\ DOMAIN refreshTokens' \subseteq DOMAIN refreshTokens
      /\ \A x \in DOMAIN refreshTokens' : refreshTokens'[x] = refreshTokens[x]
      /\ k \notin DOMAIN refreshTokens'
    BY <1>2, DropFacts, Zenon
<1>7. /\ RefreshIdle \in [pc : {"idle", "delete", "put", "revoke"},
                          token : RefreshNames \cup {""},
                          subject : RefreshSubjects \cup {""}, client : RPs \cup {""}]
      /\ RefreshIdle.pc = "idle"
    BY DEF RefreshIdle
<1>8. CallBacked(rcall[c])'
  <2>1. rcall'[c].pc = "idle"
      BY <1>3, <1>7, Zenon DEF RefreshInv, RefreshTypeOK
  <2> QED
      BY <2>1 DEF CallBacked
<1>9. /\ CallsBacked'
      /\ rcall' \in [RefreshCalls ->
           [pc : {"idle", "delete", "put", "revoke"}, token : RefreshNames \cup {""},
            subject : RefreshSubjects \cup {""}, client : RPs \cup {""}]]
    BY <1>1, <1>3, <1>6, <1>7, <1>8, OneCallMoves, Zenon
<1>10. RefreshTypeOK'
    BY <1>1, <1>5, <1>6, <1>9, Zenon DEF RefreshInv, RefreshTypeOK
<1>11. HistoryIssued'
    BY <1>1, <1>4, Zenon DEF RefreshInv, HistoryIssued
<1>12. LineageKept'
  <2>1. LineageKept
      BY Zenon DEF RefreshInv
  <2> QED
      BY <1>1, <1>6, <2>1 DEF LineageKept
<1>13. RetiredStaysGone'
  <2>1. RetiredStaysGone
      BY DEF RefreshInv
  <2> QED
      BY <1>1, <1>6, <2>1 DEF RetiredStaysGone
<1> QED
    BY <1>9, <1>10, <1>11, <1>12, <1>13, Zenon DEF RefreshInv

\* Time and a restart preserve RefreshInv.
LEMMA RefreshTimeInv ==
  ASSUME RefreshInv, RefreshTick \/ RefreshRestart
  PROVE  RefreshInv'
<1>1. UNCHANGED <<login, lineage, exchanges, revoked>>
    BY Zenon DEF RefreshTick, RefreshRestart
<1>2. CASE RefreshTick
  <2>1. rcall' = rcall
      BY <1>2, Zenon DEF RefreshTick
  <2>2. /\ IsMap(refreshTokens', RefreshNames,
                 [subject : RefreshSubjects, client : RPs, age : 0 .. RefreshOld])
        /\ DOMAIN refreshTokens' = DOMAIN refreshTokens
        /\ \A k \in DOMAIN refreshTokens' :
             /\ refreshTokens'[k].subject = refreshTokens[k].subject
             /\ refreshTokens'[k].client = refreshTokens[k].client
    <3> DEFINE older(e) == [e EXCEPT !.age = IF @ < RefreshOld THEN @ + 1 ELSE @]
    <3>1. refreshTokens' = [k \in DOMAIN refreshTokens |-> older(refreshTokens[k])]
        BY <1>2 DEF RefreshTick
    <3>2. ASSUME NEW e \in [subject : RefreshSubjects, client : RPs, age : 0 .. RefreshOld]
          PROVE  /\ older(e) \in [subject : RefreshSubjects, client : RPs, age : 0 .. RefreshOld]
                 /\ older(e).subject = e.subject /\ older(e).client = e.client
        BY RefreshTimeAssumption DEF RefreshOld
    <3> HIDE DEF older
    <3>3. /\ DOMAIN refreshTokens \subseteq RefreshNames
          /\ \A k \in DOMAIN refreshTokens :
               refreshTokens[k] \in [subject : RefreshSubjects, client : RPs, age : 0 .. RefreshOld]
        BY Zenon DEF RefreshInv, RefreshTypeOK, IsMap
    <3> QED
        BY <3>1, <3>2, <3>3 DEF IsMap
  <2>3. CallsBacked'
      BY <1>1, <2>1, <2>2, Zenon DEF RefreshInv, CallsBacked, CallBacked
  <2>4. rcall' \in [RefreshCalls ->
             [pc : {"idle", "delete", "put", "revoke"}, token : RefreshNames \cup {""},
              subject : RefreshSubjects \cup {""}, client : RPs \cup {""}]]
      BY <2>1, Zenon DEF RefreshInv, RefreshTypeOK
  <2> QED
      BY <1>1, <2>2, <2>3, <2>4, RefreshKept, Zenon
<1>3. CASE RefreshRestart
  <2>1. refreshTokens' = EmptyMap /\ rcall' = [c \in RefreshCalls |-> RefreshIdle]
      BY <1>3 DEF RefreshRestart
  <2>2. /\ DOMAIN refreshTokens' = {}
        /\ IsMap(refreshTokens', RefreshNames,
                 [subject : RefreshSubjects, client : RPs, age : 0 .. RefreshOld])
      BY <2>1, EmptyFacts
  <2>3. \A c \in RefreshCalls : rcall'[c].pc = "idle"
      BY <2>1, Zenon DEF RefreshIdle
  <2>4. CallsBacked'
      BY <2>3 DEF CallsBacked, CallBacked
  <2>5. rcall' \in [RefreshCalls ->
             [pc : {"idle", "delete", "put", "revoke"}, token : RefreshNames \cup {""},
              subject : RefreshSubjects \cup {""}, client : RPs \cup {""}]]
      BY <2>1, Zenon DEF RefreshIdle
  <2> QED
      BY <1>1, <2>2, <2>4, <2>5, RefreshKept, Zenon
<1> QED
    BY <1>2, <1>3

\* RefreshInv is an invariant of the refresh tokens.
THEOREM RefreshInvariant == RefreshSpec => []RefreshInv
<1>1. RefreshInit => RefreshInv
    BY RefreshInitInv
<1>2. RefreshInv /\ [RefreshNext]_refreshVars => RefreshInv'
  <2> SUFFICES ASSUME RefreshInv, [RefreshNext]_refreshVars PROVE RefreshInv'
      OBVIOUS
  <2>1. CASE RefreshNext
      BY <2>1, GrantInv, TokenRequestInv, DeleteCurrentInv, PutFreshInv,
         GetRefreshTokenInfoInv, RevokeTokenInv, RefreshTimeInv, Zenon DEF RefreshNext
  <2>2. CASE UNCHANGED refreshVars
      BY <2>2, Zenon DEF refreshVars, RefreshInv, RefreshTypeOK, CallsBacked, CallBacked,
                  HistoryIssued, LineageKept, RetiredStaysGone
  <2> QED
      BY <2>1, <2>2
<1> QED
    BY <1>1, <1>2, PTL DEF RefreshSpec

\* The refresh tokens are well typed, whatever requests overlap.
THEOREM RefreshTypeCorrect == RefreshSpec => []RefreshTypeOK
<1>1. RefreshInv => RefreshTypeOK
    BY DEF RefreshInv
<1> QED
    BY <1>1, RefreshInvariant, PTL

\* TokenRequestByRefreshToken and CreateAccessAndRefreshTokens keep every
\* token, however often it is rotated, to the subject and client of its login.
THEOREM LineageKeptHolds == RefreshSpec => []LineageKept
<1>1. RefreshInv => LineageKept
    BY DEF RefreshInv
<1> QED
    BY <1>1, RefreshInvariant, PTL

\* A token that was exchanged or whose revocation was answered never comes
\* back to the store.
THEOREM RetiredStaysGoneHolds == RefreshSpec => []RetiredStaysGone
<1>1. RefreshInv => RetiredStaysGone
    BY Zenon DEF RefreshInv
<1> QED
    BY <1>1, RefreshInvariant, PTL

-----------------------------------------------------------------------------
\* The login bridge: the inductive invariant

\* x presented a credential in a session started for AuthRequest a.
Presented(a, x) == \E s \in minted[a] : x \in proved[s]

Created(a) == a \in AuthIDs /\ authReq[a] # <<>>

\* What LoginTypeOK leaves open: where the maps and histories are defined.
LoginStateTyped ==
  /\ authReq = [a \in AuthIDs |-> authReq[a]]
  /\ minted \in [AuthIDs -> SUBSET Sessions]
  /\ phase = [s \in Sessions |-> phase[s]]
  /\ proved = [s \in Sessions |-> proved[s]]
  /\ outcome = [s \in Sessions |-> outcome[s]]
  /\ issuedCodes \subseteq Codes
  /\ \A d \in DOMAIN authCodes : Created(authCodes[d].id)

\* The Verifier names only holders who presented for the session.
OutcomesBacked == \A s \in Sessions : outcome[s] \in Subjects => outcome[s] \in proved[s]

\* The subject of an AuthRequest presented for it.
RequestBacked(a) ==
  Created(a) /\ authReq[a].subject # "" => Presented(a, authReq[a].subject)

RequestsPresented == \A a \in AuthIDs : RequestBacked(a)

\* What tab t carries from one step of a handler to the next: the session was
\* started for its AuthRequest, the subject presented for it.
TabBacked(t) ==
  /\ t.pc # "idle" => Created(t.id)
  /\ t.pc \in {"link", "outcome?"} => t.session \in minted[t.id]
  /\ t.pc \in {"length", "text", "doneAt"} =>
       t.subject \in Subjects /\ Presented(t.id, t.subject)

TabsBacked == \A b \in Tabs : TabBacked(tab[b])

\* Token request r has been checked against its AuthRequest before it issues.
CallChecked(r) ==
  /\ r.pc # "idle" => Created(r.id)
  /\ r.pc = "issue" => MayRedeem(r.id, r.client, r.verifier)

CallsChecked == \A c \in TokenCalls : CallChecked(call[c])

\* ID Token k answers an AuthRequest as LoginBacked says, if it has a subject.
TokenHeld(k) ==
  /\ Created(k.id)
  /\ k.client = authReq[k.id].input.client
  /\ k.verifier = authReq[k.id].input.challenge
  /\ k.subject # "" => Presented(k.id, k.subject)

TokensHeld == \A k \in tokens : TokenHeld(k)

\* A code is in the store, or with one token request, or spent on one ID Token.
CallsHoldCodes ==
  \A c \in TokenCalls : call[c].pc # "idle" =>
    call[c].code \in issuedCodes /\ call[c].code \notin DOMAIN authCodes

CallsApart ==
  \A c, d \in TokenCalls :
    call[c].pc # "idle" /\ call[d].pc # "idle" /\ call[c].code = call[d].code => c = d

CallsUnspent ==
  \A c \in TokenCalls, k \in tokens : call[c].pc # "idle" => k.code # call[c].code

TokensSpent == \A k \in tokens : k.code \in issuedCodes /\ k.code \notin DOMAIN authCodes

CodesExclusive ==
  /\ CallsHoldCodes /\ CallsApart /\ CallsUnspent /\ TokensSpent
  /\ CodeRedeemedOnce

LoginInv ==
  /\ LoginTypeOK
  /\ LoginStateTyped
  /\ OutcomesBacked
  /\ RequestsPresented
  /\ TabsBacked
  /\ CallsChecked
  /\ TokensHeld
  /\ CodesExclusive

\* The types of a tab, a token request and an AuthRequest's entry, and what
\* LoginTypeOK says of the entries.
TabType ==
  [pc : TabPCs, id : AuthIDs \cup {""}, session : Sessions \cup {""},
   subject : Subjects \cup {""}, told : {"", "pending", "done", "error", "not_found", "cut"}]

CallType ==
  [pc : {"idle", "lookup", "issue"}, id : AuthIDs \cup {""}, code : Codes \cup {""},
   client : Clients \cup {""}, verifier : Verifiers \cup {""}]

EntriesTyped ==
  /\ IsMap(authRequests, AuthIDs, [age : 0 .. AuthOld, session : Sessions \cup {""}])
  /\ \A a \in DOMAIN authRequests :
       authRequests[a].session \in minted[a] \cup {""} /\ authReq[a] # <<>>

RequestTyped(a) ==
  authReq[a] # <<>> =>
    authReq[a] \in [input : AuthInputs, done : BOOLEAN,
                    subject : Subjects \cup {""}, doneAt : BOOLEAN]

CodesTyped ==
  /\ IsMap(authCodes, Codes, [id : AuthIDs, age : 0 .. CodeOld])
  /\ DOMAIN authCodes \subseteq issuedCodes
  /\ issuedCodes \subseteq Codes
  /\ \A d \in DOMAIN authCodes : Created(authCodes[d].id)

VerifierTyped ==
  /\ minted \in [AuthIDs -> SUBSET Sessions]
  /\ phase = [s \in Sessions |-> phase[s]]
  /\ proved = [s \in Sessions |-> proved[s]]
  /\ outcome = [s \in Sessions |-> outcome[s]]

\* The typing conjuncts of LoginInv, one group of variables at a time.
LEMMA LoginTypes ==
  LoginTypeOK /\ LoginStateTyped <=>
    /\ EntriesTyped
    /\ authReq = [a \in AuthIDs |-> authReq[a]] /\ \A a \in AuthIDs : RequestTyped(a)
    /\ CodesTyped
    /\ tab \in [Tabs -> TabType]
    /\ call \in [TokenCalls -> CallType]
    /\ VerifierTyped
BY Zenon DEF LoginTypeOK, LoginStateTyped, EntriesTyped, RequestTyped, CodesTyped,
       VerifierTyped, TabType, CallType

\* The same for the state after a step.
LEMMA LoginTypesNext ==
  ASSUME EntriesTyped', CodesTyped', VerifierTyped',
         authReq' = [a \in AuthIDs |-> authReq'[a]], \A a \in AuthIDs : RequestTyped(a)',
         tab' \in [Tabs -> TabType], call' \in [TokenCalls -> CallType]
  PROVE  LoginTypeOK' /\ LoginStateTyped'
BY Zenon DEF LoginTypeOK, LoginStateTyped, EntriesTyped, RequestTyped, CodesTyped,
       VerifierTyped, TabType, CallType

\* LoginInv holds when the process starts.
LEMMA LoginInitInv == LoginInit => LoginInv
<1> SUFFICES ASSUME LoginInit PROVE LoginInv
    OBVIOUS
<1>1. DOMAIN authRequests = {} /\ DOMAIN authCodes = {}
    BY EmptyFacts, Zenon DEF LoginInit
<1>2. EntriesTyped /\ CodesTyped
    BY <1>1, EmptyFacts, Zenon DEF LoginInit, EntriesTyped, CodesTyped
<1>3. /\ authReq = [a \in AuthIDs |-> authReq[a]]
      /\ \A a \in AuthIDs : authReq[a] = <<>>
    BY Zenon DEF LoginInit
<1>4. /\ tab \in [Tabs -> TabType]
      /\ \A b \in Tabs : tab[b].pc = "idle"
    BY Zenon DEF LoginInit, TabType, TabIdle, TabPCs
<1>5. /\ call \in [TokenCalls -> CallType]
      /\ \A c \in TokenCalls : call[c].pc = "idle"
    BY Zenon DEF LoginInit, CallType, CallIdle
<1>6. VerifierTyped /\ OutcomesBacked
    BY OutcomeNames DEF LoginInit, OutcomeInit, VerifierTyped, OutcomesBacked
<1>7. LoginTypeOK /\ LoginStateTyped
    BY <1>2, <1>3, <1>4, <1>5, <1>6, LoginTypes, Zenon DEF RequestTyped
<1>8. RequestsPresented
    BY <1>3, Zenon DEF RequestsPresented, RequestBacked, Created
<1>9. TabsBacked /\ CallsChecked
    BY <1>4, <1>5, Zenon DEF TabsBacked, TabBacked, CallsChecked, CallChecked
<1>10. TokensHeld /\ CodesExclusive
    BY <1>5 DEF LoginInit, TokensHeld, CodesExclusive, CallsHoldCodes, CallsApart,
                CallsUnspent, TokensSpent, CodeRedeemedOnce
<1> QED
    BY <1>6, <1>7, <1>8, <1>9, <1>10, Zenon DEF LoginInv

\* An AuthRequest keeps its inputs, sessions stay started and holders stay
\* proved: whatever was backed by them stays backed.
LEMMA BackingKept ==
  ASSUME LoginInv,
         \A a \in AuthIDs : authReq[a] # <<>> =>
           authReq'[a] # <<>> /\ authReq'[a].input = authReq[a].input,
         \A a \in AuthIDs : minted[a] \subseteq minted'[a],
         \A s \in Sessions : proved[s] \subseteq proved'[s]
  PROVE  /\ \A a : Created(a) => Created(a)'
         /\ \A a, x : Created(a) /\ Presented(a, x) => Presented(a, x)'
         /\ \A a \in AuthIDs : authReq'[a] = authReq[a] => RequestBacked(a)'
         /\ \A b \in Tabs : tab'[b] = tab[b] => TabBacked(tab[b])'
         /\ \A c \in TokenCalls : call'[c] = call[c] => CallChecked(call[c])'
         /\ tokens' = tokens => TokensHeld'
<1>1. \A a \in AuthIDs : minted[a] \subseteq Sessions
    BY Zenon DEF LoginInv, LoginStateTyped
<1>2. \A a : Created(a) => Created(a)'
    BY Zenon DEF Created
<1>3. \A a, x : Created(a) /\ Presented(a, x) => Presented(a, x)'
    BY <1>1, Zenon DEF Presented, Created
<1>4. ASSUME NEW a \in AuthIDs, authReq'[a] = authReq[a]
      PROVE  RequestBacked(a)'
  <2>1. RequestBacked(a)
      BY Zenon DEF LoginInv, RequestsPresented
  <2> QED
      BY <1>3, <1>4, <2>1, Zenon DEF RequestBacked, Created
<1>5. ASSUME NEW b \in Tabs, tab'[b] = tab[b]
      PROVE  TabBacked(tab[b])'
  <2>1. TabBacked(tab[b])
      BY Zenon DEF LoginInv, TabsBacked
  <2>2. tab[b].pc # "idle" => Created(tab[b].id) /\ tab[b].id \in AuthIDs
      BY <2>1, Zenon DEF TabBacked, Created
  <2> QED
      BY <1>2, <1>3, <1>5, <2>1, <2>2 DEF TabBacked
<1>6. ASSUME NEW c \in TokenCalls, call'[c] = call[c]
      PROVE  CallChecked(call[c])'
  <2>1. CallChecked(call[c])
      BY Zenon DEF LoginInv, CallsChecked
  <2> QED
      BY <1>2, <1>6, <2>1 DEF CallChecked, MayRedeem, Created
<1>7. ASSUME tokens' = tokens
      PROVE  TokensHeld'
  <2>1. TokensHeld
      BY Zenon DEF LoginInv
  <2>2. ASSUME NEW k \in tokens PROVE TokenHeld(k)'
    <3>1. TokenHeld(k)
        BY <2>1, Zenon DEF TokensHeld
    <3> QED
        BY <1>2, <1>3, <3>1, Zenon DEF TokenHeld, Created
  <2> QED
      BY <1>7, <2>2 DEF TokensHeld
<1> QED
    BY <1>2, <1>3, <1>4, <1>5, <1>6, <1>7, Zenon

\* Codes stay exclusive as long as none is issued and none changes hands.
LEMMA CodesKept ==
  ASSUME LoginInv, UNCHANGED <<issuedCodes, tokens>>,
         DOMAIN authCodes' \subseteq DOMAIN authCodes,
         \A c \in TokenCalls : call'[c].pc # "idle" =>
           call[c].pc # "idle" /\ call'[c].code = call[c].code
  PROVE  CodesExclusive'
<1>1. CodesExclusive
    BY Zenon DEF LoginInv
<1> QED
    BY <1>1 DEF CodesExclusive, CallsHoldCodes, CallsApart, CallsUnspent, TokensSpent,
                CodeRedeemedOnce

\* A step of tab b alone, which may leave the entries changed but well typed.
LEMMA TabMoves ==
  ASSUME LoginInv, NEW b \in Tabs, NEW t \in TabType, tab' = [tab EXCEPT ![b] = t],
         TabBacked(tab[b])', EntriesTyped',
         UNCHANGED <<outcomeVars, authReq, authCodes, call, minted, issuedCodes, tokens>>
  PROVE  LoginInv'
<1>1. /\ \A a \in AuthIDs : authReq[a] # <<>> =>
           authReq'[a] # <<>> /\ authReq'[a].input = authReq[a].input
      /\ \A a \in AuthIDs : minted[a] \subseteq minted'[a]
      /\ \A s \in Sessions : proved[s] \subseteq proved'[s]
    BY Zenon DEF outcomeVars
<1>2. /\ \A a \in AuthIDs : authReq'[a] = authReq[a] => RequestBacked(a)'
      /\ \A o \in Tabs : tab'[o] = tab[o] => TabBacked(tab[o])'
      /\ \A c \in TokenCalls : call'[c] = call[c] => CallChecked(call[c])'
      /\ tokens' = tokens => TokensHeld'
    BY <1>1, BackingKept
<1>3. LoginTypeOK /\ LoginStateTyped
    BY Zenon DEF LoginInv
<1>4. tab \in [Tabs -> TabType]
    BY <1>3, LoginTypes, Zenon
<1>5. tab' \in [Tabs -> TabType] /\ \A o \in Tabs : o # b => tab'[o] = tab[o]
    BY <1>4, Zenon
<1>6. TabsBacked'
    BY <1>2, <1>5, Zenon DEF TabsBacked
<1>7. LoginTypeOK' /\ LoginStateTyped'
  <2>1. CodesTyped' /\ VerifierTyped'
      BY <1>3, LoginTypes, Zenon DEF CodesTyped, VerifierTyped, Created, outcomeVars
  <2>2. authReq' = [a \in AuthIDs |-> authReq'[a]] /\ \A a \in AuthIDs : RequestTyped(a)'
      BY <1>3, LoginTypes, Zenon DEF RequestTyped
  <2>3. call' \in [TokenCalls -> CallType]
      BY <1>3, LoginTypes, Zenon
  <2> QED
      BY <1>5, <2>1, <2>2, <2>3, LoginTypesNext, Zenon
<1>8. OutcomesBacked'
    BY Zenon DEF LoginInv, OutcomesBacked, outcomeVars
<1>9. RequestsPresented' /\ CallsChecked' /\ TokensHeld'
    BY <1>2, Zenon DEF RequestsPresented, CallsChecked
<1>10. CodesExclusive'
    BY CodesKept
<1> QED
    BY <1>6, <1>7, <1>8, <1>9, <1>10, Zenon DEF LoginInv

\* getAuthRequest drops at most an entry, so the entries stay well typed.
LEMMA EntriesExpire ==
  ASSUME LoginInv, NEW a, ExpireAuthRequest(a), UNCHANGED <<authReq, minted>>
  PROVE  EntriesTyped'
<1>1. EntriesTyped
    BY LoginTypes, Zenon DEF LoginInv
<1>2. CASE authRequests' = authRequests
    BY <1>1, <1>2, Zenon DEF EntriesTyped
<1>3. CASE authRequests' = Delete(authRequests, a)
  <2>1. IsMap(authRequests', AuthIDs, [age : 0 .. AuthOld, session : Sessions \cup {""}])
      BY <1>1, <1>3, DeleteIsMap, Zenon DEF EntriesTyped
  <2>2. /\ DOMAIN authRequests' = DOMAIN authRequests \ {a}
        /\ \A x \in DOMAIN authRequests : x # a => authRequests'[x] = authRequests[x]
      BY <1>3, DeleteFacts, Zenon
  <2> QED
      BY <1>1, <2>1, <2>2, Zenon DEF EntriesTyped
<1> QED
    BY <1>2, <1>3 DEF ExpireAuthRequest

\* The entries stay well typed when nothing happens to them.
LEMMA EntriesStay ==
  ASSUME LoginInv, UNCHANGED <<authRequests, authReq, minted>>
  PROVE  EntriesTyped'
<1>1. EntriesTyped
    BY LoginTypes, Zenon DEF LoginInv
<1> QED
    BY <1>1, Zenon DEF EntriesTyped

\* What is known of tab b, and of the entries, before a step.
LEMMA TabFacts ==
  ASSUME LoginInv, NEW b \in Tabs
  PROVE  /\ tab \in [Tabs -> TabType]
         /\ tab[b] \in TabType
         /\ TabBacked(tab[b])
         /\ TabIdle \in TabType /\ TabIdle.pc = "idle"
         /\ EntriesTyped
<1>1. tab \in [Tabs -> TabType] /\ EntriesTyped
    BY LoginTypes, Zenon DEF LoginInv
<1>2. TabBacked(tab[b])
    BY Zenon DEF LoginInv, TabsBacked
<1>3. TabIdle \in TabType /\ TabIdle.pc = "idle"
    BY DEF TabIdle, TabType, TabPCs
<1> QED
    BY <1>1, <1>2, <1>3

\* Setting the pc of a tab keeps the rest.
LEMMA TabGoto ==
  ASSUME NEW t \in TabType, NEW pc \in TabPCs
  PROVE  /\ [t EXCEPT !.pc = pc] \in TabType
         /\ [t EXCEPT !.pc = pc].pc = pc /\ [t EXCEPT !.pc = pc].id = t.id
         /\ [t EXCEPT !.pc = pc].subject = t.subject
<1>1. ASSUME NEW P, NEW I, NEW S, NEW X, NEW A, NEW p \in P,
             NEW r \in [pc : P, id : I, session : S, subject : X, told : A]
      PROVE  /\ [r EXCEPT !.pc = p] \in [pc : P, id : I, session : S, subject : X, told : A]
             /\ [r EXCEPT !.pc = p].pc = p /\ [r EXCEPT !.pc = p].id = r.id
             /\ [r EXCEPT !.pc = p].subject = r.subject
    BY <1>1
<1> QED
    BY <1>1, Zenon DEF TabType

\* Setting the session of a tab keeps the rest.
LEMMA TabSession ==
  ASSUME NEW t \in TabType, NEW x \in Sessions \cup {""}
  PROVE  /\ [t EXCEPT !.session = x] \in TabType
         /\ [t EXCEPT !.session = x].pc = t.pc /\ [t EXCEPT !.session = x].id = t.id
         /\ [t EXCEPT !.session = x].session = x
<1>1. ASSUME NEW P, NEW I, NEW S, NEW X, NEW A, NEW y \in S,
             NEW r \in [pc : P, id : I, session : S, subject : X, told : A]
      PROVE  /\ [r EXCEPT !.session = y] \in
                  [pc : P, id : I, session : S, subject : X, told : A]
             /\ [r EXCEPT !.session = y].pc = r.pc /\ [r EXCEPT !.session = y].id = r.id
             /\ [r EXCEPT !.session = y].session = y
    BY <1>1
<1>2. x \in Sessions \cup {""}
    OBVIOUS
<1> QED
    BY <1>1, <1>2, Zenon DEF TabType

\* Setting the subject of a tab keeps the rest.
LEMMA TabSubject ==
  ASSUME NEW t \in TabType, NEW x \in Subjects
  PROVE  /\ [t EXCEPT !.subject = x] \in TabType
         /\ [t EXCEPT !.subject = x].pc = t.pc /\ [t EXCEPT !.subject = x].id = t.id
         /\ [t EXCEPT !.subject = x].subject = x
<1>1. ASSUME NEW P, NEW I, NEW S, NEW X, NEW A, NEW y \in X,
             NEW r \in [pc : P, id : I, session : S, subject : X, told : A]
      PROVE  /\ [r EXCEPT !.subject = y] \in
                  [pc : P, id : I, session : S, subject : X, told : A]
             /\ [r EXCEPT !.subject = y].pc = r.pc /\ [r EXCEPT !.subject = y].id = r.id
             /\ [r EXCEPT !.subject = y].subject = y
    BY <1>1
<1>2. x \in Subjects \cup {""}
    OBVIOUS
<1> QED
    BY <1>1, <1>2, Zenon DEF TabType

\* A tab that goes idle carries nothing.
LEMMA TabGoesIdle ==
  ASSUME LoginInv, NEW b \in Tabs, tab' = [tab EXCEPT ![b] = TabIdle], EntriesTyped',
         UNCHANGED <<outcomeVars, authReq, authCodes, call, minted, issuedCodes, tokens>>
  PROVE  LoginInv'
<1>1. tab'[b].pc = "idle" /\ TabIdle \in TabType
    BY TabFacts
<1>2. TabBacked(tab[b])'
    BY <1>1 DEF TabBacked
<1> QED
    BY <1>1, <1>2, TabMoves, Zenon

\* Neither does one whose script was cut off.
LEMMA CutFacts == Cut \in TabType /\ Cut.pc = "idle"
BY DEF Cut, TabIdle, TabType, TabPCs

LEMMA TabCutOff ==
  ASSUME LoginInv, NEW b \in Tabs, tab' = [tab EXCEPT ![b] = Cut], EntriesTyped',
         UNCHANGED <<outcomeVars, authReq, authCodes, call, minted, issuedCodes, tokens>>
  PROVE  LoginInv'
<1>1. tab'[b].pc = "idle" /\ Cut \in TabType
    BY TabFacts, CutFacts, Zenon
<1>2. TabBacked(tab[b])'
    BY <1>1, Zenon DEF TabBacked
<1> QED
    BY <1>1, <1>2, TabMoves, Zenon

\* Loading the login page preserves LoginInv.
LEMMA LoadPageInv ==
  ASSUME LoginInv, NEW b \in Tabs, NEW a \in AuthIDs, LoadPage(b, a)
  PROVE  LoginInv'
<1>1. /\ authReq[a] # <<>> /\ ExpireAuthRequest(a)
      /\ UNCHANGED <<outcomeVars, authReq, authCodes, call, minted, issuedCodes, tokens>>
    BY DEF LoadPage
<1>2. EntriesTyped'
    BY <1>1, EntriesExpire
<1>3. CASE tab' = [tab EXCEPT ![b] = TabIdle]
    BY <1>1, <1>2, <1>3, TabGoesIdle, Zenon
<1>4. ASSUME NEW pc \in {"callback", "loaded"},
             tab' = [tab EXCEPT ![b] = [TabIdle EXCEPT !.pc = pc, !.id = a]]
      PROVE  LoginInv'
  <2> DEFINE t == [TabIdle EXCEPT !.pc = pc, !.id = a]
  <2>1. t \in TabType /\ t.pc = pc /\ t.id = a
      BY Zenon DEF TabIdle, TabType, TabPCs
  <2> HIDE DEF t
  <2>2. tab'[b] = t
      BY <1>4, TabFacts, Zenon DEF t
  <2>3. TabBacked(tab[b])'
      BY <1>1, <2>1, <2>2, Zenon DEF TabBacked, Created
  <2> QED
      BY <1>1, <1>2, <1>4, <2>1, <2>3, TabMoves, Zenon DEF t
<1> QED
    BY <1>3, <1>4, Zenon DEF LoadPage

\* A tab that goes on with its AuthRequest to a step that counts on nothing
\* more.
LEMMA TabGoesOn ==
  ASSUME LoginInv, NEW b \in Tabs, NEW t \in TabType, tab' = [tab EXCEPT ![b] = t],
         tab[b].pc # "idle", t.id = tab[b].id,
         t.pc \notin {"link", "outcome?", "length", "text", "doneAt"}, EntriesTyped',
         UNCHANGED <<outcomeVars, authReq, authCodes, call, minted, issuedCodes, tokens>>
  PROVE  LoginInv'
<1>1. tab'[b] = t
    BY TabFacts
<1>2. Created(tab[b].id)
    BY TabFacts DEF TabBacked
<1>3. TabBacked(tab[b])'
    BY <1>1, <1>2 DEF TabBacked, Created
<1> QED
    BY <1>3, TabMoves, Zenon

\* An answer that the tab hears sends it on with its AuthRequest.
LEMMA HeardFacts ==
  ASSUME LoginInv, NEW b \in Tabs, NEW answer \in {"pending", "done", "error", "not_found"}
  PROVE  /\ Heard(b, answer) \in TabType
         /\ Heard(b, answer).id = tab[b].id
         /\ Heard(b, answer).pc \in {"callback", "idle", "polling"}
<1>1. tab[b].id \in AuthIDs \cup {""}
    BY TabFacts, Zenon DEF TabType
<1> QED
    BY <1>1, Zenon DEF Heard, TabIdle, TabType, TabPCs

\* Told gives a tab an answer and sends it on, or cuts it off.
LEMMA ToldInv ==
  ASSUME LoginInv, NEW b \in Tabs, NEW answer \in {"pending", "done", "error", "not_found"},
         Told(b, answer), tab[b].pc # "idle", EntriesTyped',
         UNCHANGED <<outcomeVars, authReq, authCodes, call, minted, issuedCodes, tokens>>
  PROVE  LoginInv'
<1>1. CASE tab' = [tab EXCEPT ![b] = Heard(b, answer)]
  <2>1. PICK t : t = Heard(b, answer)
      OBVIOUS
  <2>2. t \in TabType /\ t.id = tab[b].id /\ t.pc \in {"callback", "idle", "polling"}
      BY <2>1, HeardFacts, Zenon
  <2> QED
      BY <1>1, <2>1, <2>2, TabGoesOn, Zenon
<1>2. CASE tab' = [tab EXCEPT ![b] = Cut]
    BY <1>2, TabCutOff, Zenon
<1> QED
    BY <1>1, <1>2, Zenon DEF Told

\* A poll that is lost preserves LoginInv.
LEMMA PollLostInv ==
  ASSUME LoginInv, NEW b \in Tabs, PollLost(b)
  PROVE  LoginInv'
<1>1. EntriesTyped'
    BY EntriesStay, Zenon DEF PollLost, loginStore
<1> QED
    BY <1>1, TabCutOff, Zenon DEF PollLost, loginStore

\* The login page's lookup of a session, and its failure to start one,
\* preserve LoginInv.
LEMMA FindPageSessionInv ==
  ASSUME LoginInv, NEW b \in Tabs, FindPageSession(b) \/ StartVerificationFails(b)
  PROVE  LoginInv'
<1>1. UNCHANGED <<outcomeVars, loginStore, call, minted, issuedCodes, tokens>>
    BY Zenon DEF FindPageSession, StartVerificationFails
<1>2. EntriesTyped'
    BY <1>1, EntriesStay DEF loginStore
<1>3. CASE FindPageSession(b)
  <2>1. PICK pc \in {"create", "polling"} : tab' = [tab EXCEPT ![b].pc = pc]
      BY <1>3, Zenon DEF FindPageSession, Goto
  <2> DEFINE t == [tab[b] EXCEPT !.pc = pc]
  <2>2. tab' = [tab EXCEPT ![b] = t]
      BY <2>1
  <2>3. t \in TabType /\ t.id = tab[b].id /\ t.pc = pc
    <3>1. tab[b] \in TabType
        BY TabFacts
    <3>2. pc \in TabPCs
        BY <2>1 DEF TabPCs
    <3> QED
        BY <3>1, <3>2, TabGoto, Zenon
  <2> HIDE DEF t
  <2>4. tab[b].pc = "loaded"
      BY <1>3, Zenon DEF FindPageSession
  <2> QED
      BY <1>1, <1>2, <2>1, <2>2, <2>3, <2>4, TabGoesOn, Zenon DEF loginStore
<1>4. CASE StartVerificationFails(b)
  <2>1. tab' = [tab EXCEPT ![b] = TabIdle]
      BY <1>4 DEF StartVerificationFails
  <2> QED
      BY <1>1, <1>2, <2>1, TabGoesIdle, Zenon DEF loginStore
<1> QED
    BY <1>3, <1>4

\* Linking the session that was started for the AuthRequest preserves LoginInv.
LEMMA LinkSessionInv ==
  ASSUME LoginInv, NEW b \in Tabs, LinkSession(b)
  PROVE  LoginInv'
<1> DEFINE t == [[tab[b] EXCEPT !.pc = "polling"] EXCEPT !.session = ""]
           a == tab[b].id
<1>1. /\ UNCHANGED <<outcomeVars, authReq, authCodes, call, minted, issuedCodes, tokens>>
      /\ tab[b].pc = "link"
      /\ LinkVerificationSession(a, tab[b].session)
    BY Zenon DEF LinkSession
<1>2. tab' = [tab EXCEPT ![b] = t]
    BY Zenon DEF LinkSession
<1>3. t \in TabType /\ t.id = tab[b].id /\ t.pc = "polling"
  <2>1. tab[b] \in TabType
      BY TabFacts
  <2>2. "polling" \in TabPCs /\ "" \in Sessions \cup {""}
      BY DEF TabPCs
  <2>3. /\ [tab[b] EXCEPT !.pc = "polling"] \in TabType
        /\ [tab[b] EXCEPT !.pc = "polling"].pc = "polling"
        /\ [tab[b] EXCEPT !.pc = "polling"].id = tab[b].id
      BY <2>1, <2>2, TabGoto, Zenon
  <2> QED
      BY <2>2, <2>3, TabSession, Zenon
<1>4. tab[b].session \in minted[a] /\ tab[b].session \in Sessions \cup {""}
    BY <1>1, TabFacts, Zenon DEF TabBacked, TabType
<1>5. EntriesTyped
    BY TabFacts
<1> HIDE DEF t, a
<1>6. EntriesTyped'
  <2>1. CASE a \in DOMAIN authRequests
    <3>1. authRequests' = [authRequests EXCEPT ![a].session = tab[b].session]
        BY <1>1, <2>1 DEF LinkVerificationSession
    <3>2. /\ DOMAIN authRequests' = DOMAIN authRequests
          /\ authRequests' = [x \in DOMAIN authRequests' |-> authRequests'[x]]
          /\ \A x \in DOMAIN authRequests : x # a => authRequests'[x] = authRequests[x]
          /\ authRequests'[a] = [authRequests[a] EXCEPT !.session = tab[b].session]
        BY <2>1, <3>1, Zenon
    <3>3. authRequests[a] \in [age : 0 .. AuthOld, session : Sessions \cup {""}]
        BY <1>5, <2>1, Zenon DEF EntriesTyped, IsMap
    <3>4. /\ authRequests'[a] \in [age : 0 .. AuthOld, session : Sessions \cup {""}]
          /\ authRequests'[a].session = tab[b].session
        BY <1>4, <3>2, <3>3, Zenon
    <3>5. IsMap(authRequests', AuthIDs, [age : 0 .. AuthOld, session : Sessions \cup {""}])
        BY <1>5, <3>2, <3>4, Zenon DEF EntriesTyped, IsMap
    <3> QED
        BY <1>1, <1>4, <1>5, <3>2, <3>4, <3>5, Zenon DEF EntriesTyped
  <2>2. CASE a \notin DOMAIN authRequests
    <3>1. authRequests' = authRequests
        BY <1>1, <2>2 DEF LinkVerificationSession
    <3> QED
        BY <1>1, <3>1, EntriesStay
  <2> QED
      BY <2>1, <2>2
<1> QED
    BY <1>1, <1>2, <1>3, <1>6, TabGoesOn, Zenon

\* A poll's lookup of the AuthRequest preserves LoginInv.
LEMMA PollLookupInv ==
  ASSUME LoginInv, NEW b \in Tabs, PollLookup(b)
  PROVE  LoginInv'
<1> DEFINE t == [tab[b] EXCEPT !.pc = "linked?"]
<1>1. /\ UNCHANGED <<outcomeVars, authReq, authCodes, call, minted, issuedCodes, tokens>>
      /\ tab[b].pc = "polling"
      /\ ExpireAuthRequest(tab[b].id)
    BY DEF PollLookup
<1>2. EntriesTyped'
    BY <1>1, EntriesExpire, Zenon
<1>3. CASE Told(b, "not_found")
    BY <1>1, <1>2, <1>3, ToldInv, Zenon
<1>4. CASE Told(b, "done")
    BY <1>1, <1>2, <1>4, ToldInv, Zenon
<1>5. CASE Goto(b, "linked?")
  <2>1. tab' = [tab EXCEPT ![b] = t]
      BY <1>5 DEF Goto
  <2>2. t \in TabType /\ t.id = tab[b].id /\ t.pc = "linked?"
    <3>1. tab[b] \in TabType
        BY TabFacts
    <3>2. "linked?" \in TabPCs
        BY DEF TabPCs
    <3> QED
        BY <3>1, <3>2, TabGoto, Zenon
  <2> HIDE DEF t
  <2> QED
      BY <1>1, <1>2, <2>1, <2>2, TabGoesOn, Zenon
<1> QED
    BY <1>3, <1>4, <1>5, Zenon DEF PollLookup

\* A poll's lookup of the session linked to the AuthRequest preserves LoginInv:
\* what is linked was started for it.
LEMMA PollSessionInv ==
  ASSUME LoginInv, NEW b \in Tabs, PollSession(b)
  PROVE  LoginInv'
<1> DEFINE s == SessionFor(tab[b].id)
           t == [[tab[b] EXCEPT !.pc = "outcome?"] EXCEPT !.session = s]
<1>1. /\ UNCHANGED <<outcomeVars, loginStore, call, minted, issuedCodes, tokens>>
      /\ tab[b].pc = "linked?"
    BY Zenon DEF PollSession
<1>2. EntriesTyped /\ EntriesTyped'
    BY <1>1, TabFacts, EntriesStay DEF loginStore
<1>3. CASE s = ""
  <2>1. Told(b, "pending")
      BY <1>3, Zenon DEF PollSession
  <2> QED
      BY <1>1, <1>2, <2>1, ToldInv DEF loginStore
<1>4. CASE s # ""
  <2>1. tab' = [tab EXCEPT ![b] = t]
      BY <1>4, Zenon DEF PollSession
  <2>2. s \in minted[tab[b].id] /\ s \in Sessions
      BY <1>2, <1>4, Zenon DEF SessionFor, EntriesTyped, IsMap
  <2> HIDE DEF s
  <2>3. t \in TabType /\ t.id = tab[b].id /\ t.pc = "outcome?" /\ t.session = s
    <3>1. tab[b] \in TabType
        BY TabFacts
    <3>2. "outcome?" \in TabPCs
        BY DEF TabPCs
    <3>3. /\ [tab[b] EXCEPT !.pc = "outcome?"] \in TabType
          /\ [tab[b] EXCEPT !.pc = "outcome?"].pc = "outcome?"
          /\ [tab[b] EXCEPT !.pc = "outcome?"].id = tab[b].id
        BY <3>1, <3>2, TabGoto, Zenon
    <3> QED
        BY <3>2, <3>3, <2>2, TabSession, Zenon
  <2> HIDE DEF t
  <2>4. tab'[b] = t
      BY <2>1, TabFacts
  <2>5. Created(tab[b].id)
      BY <1>1, TabFacts, Zenon DEF TabBacked
  <2>6. TabBacked(tab[b])'
      BY <1>1, <2>2, <2>3, <2>4, <2>5, Zenon DEF TabBacked, Created, loginStore
  <2> QED
      BY <1>1, <1>2, <2>1, <2>3, <2>6, TabMoves, Zenon DEF loginStore
<1> QED
    BY <1>3, <1>4, Zenon

\* A poll that takes over the Verifier's outcome preserves LoginInv: the holder
\* presented in the session, which was started for the AuthRequest.
LEMMA PollOutcomeInv ==
  ASSUME LoginInv, NEW b \in Tabs, PollOutcome(b)
  PROVE  LoginInv'
<1> DEFINE o == outcome[tab[b].session]
           t == [[tab[b] EXCEPT !.pc = "length"] EXCEPT !.subject = o]
<1>1. /\ UNCHANGED <<outcomeVars, loginStore, call, minted, issuedCodes, tokens>>
      /\ tab[b].pc = "outcome?"
    BY Zenon DEF PollOutcome
<1>2. EntriesTyped'
    BY <1>1, EntriesStay, Zenon DEF loginStore
<1>3. CASE Told(b, "pending")
    BY <1>1, <1>2, <1>3, ToldInv, Zenon DEF loginStore
<1>4. CASE Told(b, "error")
    BY <1>1, <1>2, <1>4, ToldInv, Zenon DEF loginStore
<1>5. CASE o \in Subjects /\ tab' = [tab EXCEPT ![b].pc = "length", ![b].subject = o]
  <2>1. tab' = [tab EXCEPT ![b] = t]
      BY <1>5, Zenon
  <2>2. Created(tab[b].id) /\ tab[b].session \in minted[tab[b].id]
      BY <1>1, TabFacts DEF TabBacked
  <2>3. tab[b].session \in Sessions
      BY <2>2 DEF LoginInv, LoginStateTyped, Created
  <2>4. Presented(tab[b].id, o)
      BY <1>5, <2>2, <2>3 DEF LoginInv, OutcomesBacked, Presented
  <2>5. o \in Subjects
      BY <1>5
  <2> HIDE DEF o
  <2>6. t \in TabType /\ t.id = tab[b].id /\ t.pc = "length" /\ t.subject = o
    <3>1. tab[b] \in TabType
        BY TabFacts
    <3>2. "length" \in TabPCs
        BY DEF TabPCs
    <3>3. /\ [tab[b] EXCEPT !.pc = "length"] \in TabType
          /\ [tab[b] EXCEPT !.pc = "length"].pc = "length"
          /\ [tab[b] EXCEPT !.pc = "length"].id = tab[b].id
        BY <3>1, <3>2, TabGoto, Zenon
    <3> QED
        BY <3>2, <3>3, <2>5, TabSubject, Zenon
  <2> HIDE DEF t
  <2>7. tab'[b] = t
      BY <2>1, TabFacts
  <2>8. TabBacked(tab[b])'
      BY <1>1, <2>2, <2>4, <2>5, <2>6, <2>7
         DEF TabBacked, Created, Presented, loginStore, outcomeVars
  <2> QED
      BY <1>1, <1>2, <2>1, <2>6, <2>8, TabMoves, Zenon DEF loginStore
<1> QED
    BY <1>3, <1>4, <1>5 DEF PollOutcome

\* op's callback preserves LoginInv.
LEMMA AuthorizeCallbackInv ==
  ASSUME LoginInv, NEW b \in Tabs, AuthorizeCallback(b)
  PROVE  LoginInv'
<1> DEFINE t == [tab[b] EXCEPT !.pc = "save"]
<1>1. /\ UNCHANGED <<outcomeVars, authReq, authCodes, call, minted, issuedCodes, tokens>>
      /\ tab[b].pc = "callback"
      /\ ExpireAuthRequest(tab[b].id)
    BY DEF AuthorizeCallback
<1>2. EntriesTyped'
    BY <1>1, EntriesExpire
<1>3. CASE tab' = [tab EXCEPT ![b] = TabIdle]
    BY <1>1, <1>2, <1>3, TabGoesIdle, Zenon
<1>4. CASE tab' = [tab EXCEPT ![b] = t]
  <2>1. t \in TabType /\ t.id = tab[b].id /\ t.pc = "save"
    <3>1. tab[b] \in TabType
        BY TabFacts
    <3>2. "save" \in TabPCs
        BY DEF TabPCs
    <3> QED
        BY <3>1, <3>2, TabGoto, Zenon
  <2> HIDE DEF t
  <2> QED
      BY <1>1, <1>2, <1>4, <2>1, TabGoesOn, Zenon
<1> QED
    BY <1>3, <1>4, Zenon DEF AuthorizeCallback

\* Starting a session for the AuthRequest preserves LoginInv.
LEMMA StartVerificationInv ==
  ASSUME LoginInv, NEW b \in Tabs, NEW s \in Sessions, StartVerification(b, s)
  PROVE  LoginInv'
<1>0. PICK a : a = tab[b].id
    OBVIOUS
<1> DEFINE t == [[tab[b] EXCEPT !.pc = "link"] EXCEPT !.session = s]
<1>1. /\ UNCHANGED <<loginStore, call, issuedCodes, tokens, proved, outcome>>
      /\ tab[b].pc = "create"
      /\ phase' = [phase EXCEPT ![s] = "open"]
      /\ minted' = [minted EXCEPT ![a] = @ \cup {s}]
    BY <1>0 DEF StartVerification, Open
<1>2. tab' = [tab EXCEPT ![b] = t]
    BY Zenon DEF StartVerification
<1>3. t \in TabType /\ t.id = a /\ t.pc = "link" /\ t.session = s
  <2>1. tab[b] \in TabType
      BY TabFacts
  <2>2. "link" \in TabPCs
      BY DEF TabPCs
  <2>3. /\ [tab[b] EXCEPT !.pc = "link"] \in TabType
        /\ [tab[b] EXCEPT !.pc = "link"].pc = "link"
        /\ [tab[b] EXCEPT !.pc = "link"].id = tab[b].id
      BY <2>1, <2>2, TabGoto, Zenon
  <2> QED
      BY <2>2, <2>3, <1>0, TabSession, Zenon
<1>4. Created(a)
    BY <1>0, <1>1, TabFacts DEF TabBacked
<1> HIDE DEF t
<1>5. LoginTypeOK /\ LoginStateTyped
    BY Zenon DEF LoginInv
<1>6. /\ minted' \in [AuthIDs -> SUBSET Sessions]
      /\ s \in minted'[a]
      /\ \A x \in AuthIDs : minted[x] \subseteq minted'[x]
    BY <1>1, <1>4, <1>5, Zenon DEF Created, LoginStateTyped
<1>7. /\ \A x \in AuthIDs : authReq[x] # <<>> =>
           authReq'[x] # <<>> /\ authReq'[x].input = authReq[x].input
      /\ \A x \in Sessions : proved[x] \subseteq proved'[x]
      /\ authReq' = authReq /\ tokens' = tokens /\ call' = call
    BY <1>1, Zenon DEF loginStore
<1>8. /\ \A x : Created(x) => Created(x)'
      /\ \A x \in AuthIDs : authReq'[x] = authReq[x] => RequestBacked(x)'
      /\ \A o \in Tabs : tab'[o] = tab[o] => TabBacked(tab[o])'
      /\ \A c \in TokenCalls : call'[c] = call[c] => CallChecked(call[c])'
      /\ tokens' = tokens => TokensHeld'
    BY <1>6, <1>7, BackingKept, Zenon
<1>9. tab \in [Tabs -> TabType]
    BY TabFacts, Zenon
<1>10. tab' \in [Tabs -> TabType] /\ tab'[b] = t /\ \A o \in Tabs : o # b => tab'[o] = tab[o]
    BY <1>2, <1>3, <1>9, Zenon
<1>11. TabsBacked'
  <2>1. Created(a)'
      BY <1>4, <1>8, Zenon
  <2>2. TabBacked(tab[b])'
      BY <1>3, <1>6, <1>10, <2>1, Zenon DEF TabBacked
  <2> QED
      BY <1>8, <1>10, <2>2, Zenon DEF TabsBacked
<1>12. LoginTypeOK' /\ LoginStateTyped'
  <2>1. VerifierTyped'
      BY <1>1, <1>5, <1>6, Zenon DEF LoginStateTyped, VerifierTyped
  <2>2. CodesTyped'
      BY <1>1, <1>5, LoginTypes, Zenon DEF CodesTyped, Created, loginStore
  <2>3. authReq' = [x \in AuthIDs |-> authReq'[x]] /\ \A x \in AuthIDs : RequestTyped(x)'
      BY <1>5, <1>7, LoginTypes, Zenon DEF RequestTyped
  <2>4. call' \in [TokenCalls -> CallType]
      BY <1>5, <1>7, LoginTypes, Zenon
  <2>5. EntriesTyped'
    <3>1. EntriesTyped
        BY <1>5, LoginTypes, Zenon
    <3> QED
        BY <1>1, <1>6, <3>1, Zenon DEF EntriesTyped, IsMap, loginStore
  <2> QED
      BY <1>10, <2>1, <2>2, <2>3, <2>4, <2>5, LoginTypesNext, Zenon
<1>13. OutcomesBacked'
    BY <1>1, Zenon DEF LoginInv, OutcomesBacked
<1>14. RequestsPresented' /\ CallsChecked' /\ TokensHeld'
    BY <1>7, <1>8, Zenon DEF RequestsPresented, CallsChecked
<1>15. CodesExclusive'
    BY <1>1, CodesKept, Zenon DEF loginStore
<1> QED
    BY <1>11, <1>12, <1>13, <1>14, <1>15, Zenon DEF LoginInv

\* An AuthRequest object is not <<>>.
LEMMA RequestIsRecord ==
  ASSUME NEW I, NEW D, NEW S, NEW A,
         NEW ar \in [input : I, done : D, subject : S, doneAt : A]
  PROVE  ar # <<>>
OBVIOUS

\* A step of the AuthRequest object of tab b, which keeps its inputs, together
\* with the tab.
LEMMA RequestMoves ==
  ASSUME LoginInv, NEW b \in Tabs, NEW t \in TabType, tab' = [tab EXCEPT ![b] = t],
         NEW ar \in [input : AuthInputs, done : BOOLEAN, subject : Subjects \cup {""},
                     doneAt : BOOLEAN],
         tab[b].pc \in {"length", "text", "doneAt"},
         authReq' = [authReq EXCEPT ![tab[b].id] = ar],
         ar.input = authReq[tab[b].id].input,
         ar.subject \in {authReq[tab[b].id].subject, tab[b].subject},
         t.pc \in {"text", "doneAt", "callback", "idle"},
         t.pc # "idle" => t.id = tab[b].id,
         t.pc \in {"text", "doneAt"} => t.subject = tab[b].subject,
         UNCHANGED <<outcomeVars, authRequests, authCodes, call, minted, issuedCodes, tokens>>
  PROVE  LoginInv'
<1>0. PICK a, x0 : a = tab[b].id /\ x0 = tab[b].subject
    OBVIOUS
<1>1. /\ Created(a) /\ authReq[a] # <<>> /\ a \in AuthIDs
      /\ x0 \in Subjects /\ Presented(a, x0)
    BY <1>0, TabFacts, Zenon DEF TabBacked, Created
<1>2. RequestBacked(a)
    BY <1>1, Zenon DEF LoginInv, RequestsPresented
<1>3. ar.subject # "" => Presented(a, ar.subject)
    BY <1>0, <1>1, <1>2, Zenon DEF RequestBacked
<1>4. LoginTypeOK /\ LoginStateTyped
    BY Zenon DEF LoginInv
<1>5. authReq = [x \in AuthIDs |-> authReq[x]] /\ \A x \in AuthIDs : RequestTyped(x)
    BY <1>4, LoginTypes, Zenon
<1>6. ar # <<>>
  <2>1. PICK B, S : ar \in [input : AuthInputs, done : B, subject : S, doneAt : B]
      OBVIOUS
  <2> QED
      BY <2>1, RequestIsRecord, Zenon
<1>7. /\ authReq' = [x \in AuthIDs |-> authReq'[x]]
      /\ authReq'[a] = ar
      /\ \A x \in AuthIDs : x # a => authReq'[x] = authReq[x]
    BY <1>0, <1>1, <1>5, Zenon
<1>8. \A x \in AuthIDs : RequestTyped(x)'
    BY <1>5, <1>7, Zenon DEF RequestTyped
<1>9. \A x \in AuthIDs : authReq[x] # <<>> =>
        authReq'[x] # <<>> /\ authReq'[x].input = authReq[x].input
    BY <1>0, <1>6, <1>7, Zenon
<1>10. /\ \A x \in AuthIDs : minted[x] \subseteq minted'[x]
       /\ \A x \in Sessions : proved[x] \subseteq proved'[x]
    BY Zenon DEF outcomeVars
<1>11. /\ \A x : Created(x) => Created(x)'
       /\ \A x, y : Created(x) /\ Presented(x, y) => Presented(x, y)'
       /\ \A x \in AuthIDs : authReq'[x] = authReq[x] => RequestBacked(x)'
       /\ \A o \in Tabs : tab'[o] = tab[o] => TabBacked(tab[o])'
       /\ \A c \in TokenCalls : call'[c] = call[c] => CallChecked(call[c])'
       /\ tokens' = tokens => TokensHeld'
    BY <1>9, <1>10, BackingKept, Zenon
<1>12. tab' \in [Tabs -> TabType] /\ tab'[b] = t /\ \A o \in Tabs : o # b => tab'[o] = tab[o]
    BY TabFacts, Zenon
<1>13. TabsBacked'
  <2>1. Created(a)' /\ Presented(a, x0)'
      BY <1>1, <1>11, Zenon
  <2>2. TabBacked(tab[b])'
      BY <1>0, <1>1, <1>12, <2>1, Zenon DEF TabBacked
  <2> QED
      BY <1>11, <1>12, <2>2, Zenon DEF TabsBacked
<1>14. RequestsPresented'
  <2>1. RequestBacked(a)'
    <3>1. ar.subject # "" => Presented(a, ar.subject)'
        BY <1>1, <1>3, <1>11, Zenon
    <3> QED
        BY <1>7, <3>1, Zenon DEF RequestBacked
  <2> QED
      BY <1>7, <1>11, <2>1, Zenon DEF RequestsPresented
<1>15. LoginTypeOK' /\ LoginStateTyped'
  <2>1. VerifierTyped'
      BY <1>4, Zenon DEF LoginStateTyped, VerifierTyped, outcomeVars
  <2>2. CodesTyped'
    <3>1. CodesTyped
        BY <1>4, LoginTypes, Zenon
    <3> QED
        BY <1>11, <3>1, Zenon DEF CodesTyped
  <2>3. call' \in [TokenCalls -> CallType]
      BY <1>4, LoginTypes, Zenon
  <2>4. EntriesTyped'
    <3>1. EntriesTyped
        BY <1>4, LoginTypes, Zenon
    <3> QED
        BY <1>9, <3>1, Zenon DEF EntriesTyped, IsMap
  <2> QED
      BY <1>7, <1>8, <1>12, <2>1, <2>2, <2>3, <2>4, LoginTypesNext, Zenon
<1>16. OutcomesBacked'
    BY Zenon DEF LoginInv, OutcomesBacked, outcomeVars
<1>17. CallsChecked' /\ TokensHeld'
    BY <1>11, Zenon DEF CallsChecked
<1>18. CodesExclusive'
    BY CodesKept, Zenon
<1> QED
    BY <1>13, <1>14, <1>15, <1>16, <1>17, <1>18, Zenon DEF LoginInv

\* Writing subject and doneAt, in the three steps of the race, preserves
\* LoginInv.
LEMMA SetSubjectInv ==
  ASSUME LoginInv, NEW b \in Tabs,
         SetSubjectLength(b) \/ SetSubjectText(b) \/ SetDoneAt(b)
  PROVE  LoginInv'
<1> DEFINE ar == authReq[tab[b].id]
           AR == [input : AuthInputs, done : BOOLEAN, subject : Subjects \cup {""},
                  doneAt : BOOLEAN]
<1>1. /\ UNCHANGED <<outcomeVars, authRequests, authCodes, call, minted, issuedCodes, tokens>>
      /\ tab[b].pc \in {"length", "text", "doneAt"}
    BY Zenon DEF SetSubjectLength, SetSubjectText, SetDoneAt
<1>2. ar \in AR
    BY <1>1, TabFacts, Zenon DEF LoginInv, LoginTypeOK, TabBacked, Created
<1>3. tab[b] \in TabType
    BY TabFacts, Zenon
<1>4. CASE SetSubjectLength(b)
  <2> DEFINE r == [ar EXCEPT !.done = TRUE]
             t == [tab[b] EXCEPT !.pc = "text"]
  <2>1. authReq' = [authReq EXCEPT ![tab[b].id] = r] /\ tab' = [tab EXCEPT ![b] = t]
      BY <1>4 DEF SetSubjectLength, Goto
  <2> HIDE DEF ar
  <2>2. r \in AR /\ r.input = ar.input /\ r.subject = ar.subject
      BY <1>2, Zenon
  <2>3. t \in TabType /\ t.id = tab[b].id /\ t.pc = "text" /\ t.subject = tab[b].subject
    <3>1. tab[b] \in TabType
        BY <1>3
    <3>2. "text" \in TabPCs
        BY DEF TabPCs
    <3> QED
        BY <3>1, <3>2, TabGoto, Zenon
  <2> HIDE DEF r, t
  <2> QED
      BY <1>1, <2>1, <2>2, <2>3, RequestMoves, Zenon DEF ar
<1>5. CASE SetSubjectText(b)
  <2> DEFINE r == [ar EXCEPT !.subject = tab[b].subject]
             t == [tab[b] EXCEPT !.pc = "doneAt"]
  <2>1. authReq' = [authReq EXCEPT ![tab[b].id] = r] /\ tab' = [tab EXCEPT ![b] = t]
      BY <1>5 DEF SetSubjectText, Goto
  <2> HIDE DEF ar
  <2>2. r \in AR /\ r.input = ar.input /\ r.subject = tab[b].subject
      BY <1>2, <1>3, Zenon DEF TabType
  <2>3. t \in TabType /\ t.id = tab[b].id /\ t.pc = "doneAt" /\ t.subject = tab[b].subject
    <3>1. tab[b] \in TabType
        BY <1>3
    <3>2. "doneAt" \in TabPCs
        BY DEF TabPCs
    <3> QED
        BY <3>1, <3>2, TabGoto, Zenon
  <2> HIDE DEF r, t
  <2> QED
      BY <1>1, <2>1, <2>2, <2>3, RequestMoves, Zenon DEF ar
<1>6. CASE SetDoneAt(b)
  <2> DEFINE r == [ar EXCEPT !.doneAt = TRUE]
  <2>1. authReq' = [authReq EXCEPT ![tab[b].id] = r]
      BY <1>6 DEF SetDoneAt
  <2> HIDE DEF ar
  <2>2. r \in AR /\ r.input = ar.input /\ r.subject = ar.subject
      BY <1>2, Zenon
  <2>3. PICK t \in TabType : /\ tab' = [tab EXCEPT ![b] = t]
                             /\ t.pc \in {"callback", "idle"}
                             /\ t.pc # "idle" => t.id = tab[b].id
    <3>1. Heard(b, "done").pc = "callback"
        BY Zenon DEF Heard, TabIdle
    <3> QED
        BY <1>6, <3>1, HeardFacts, CutFacts, Zenon DEF SetDoneAt, Told
  <2> HIDE DEF r
  <2> QED
      BY <1>1, <2>1, <2>2, <2>3, RequestMoves, Zenon DEF ar
<1> QED
    BY <1>4, <1>5, <1>6, Zenon

\* A new AuthRequest preserves LoginInv.
LEMMA CreateAuthRequestInv ==
  ASSUME LoginInv, NEW a \in AuthIDs, NEW in \in AuthInputs, CreateAuthRequest(a, in)
  PROVE  LoginInv'
<1> DEFINE AR == [input : AuthInputs, done : BOOLEAN, subject : Subjects \cup {""},
                  doneAt : BOOLEAN]
<1>1. PICK ar, e :
        /\ ar = [input |-> in, done |-> FALSE, subject |-> "", doneAt |-> FALSE]
        /\ e = [age |-> 0, session |-> ""]
    OBVIOUS
<1>2. /\ authReq[a] = <<>>
      /\ authReq' = [authReq EXCEPT ![a] = ar]
      /\ authRequests' = Put(authRequests, a, e)
      /\ UNCHANGED <<outcomeVars, authCodes, tab, call, minted, issuedCodes, tokens>>
    BY <1>1, Zenon DEF CreateAuthRequest
<1>3. ar \in AR /\ ar.subject = ""
    BY <1>1, Zenon
<1>4. ar # <<>>
    BY <1>3, RequestIsRecord, Zenon
<1>5. e \in [age : 0 .. AuthOld, session : Sessions \cup {""}] /\ e.session = ""
  <2>1. 0 \in 0 .. AuthOld /\ "" \in Sessions \cup {""}
      BY LoginTimeAssumption DEF AuthOld
  <2> QED
      BY <1>1, <2>1, Zenon
<1>6. LoginTypeOK /\ LoginStateTyped
    BY Zenon DEF LoginInv
<1>7. authReq = [x \in AuthIDs |-> authReq[x]] /\ \A x \in AuthIDs : RequestTyped(x)
    BY <1>6, LoginTypes, Zenon
<1>8. /\ authReq' = [x \in AuthIDs |-> authReq'[x]]
      /\ authReq'[a] = ar
      /\ \A x \in AuthIDs : x # a => authReq'[x] = authReq[x]
    BY <1>2, <1>7, Zenon
<1>9. \A x \in AuthIDs : authReq[x] # <<>> =>
        authReq'[x] # <<>> /\ authReq'[x].input = authReq[x].input
    BY <1>2, <1>8, Zenon
<1>10. /\ \A x \in AuthIDs : minted[x] \subseteq minted'[x]
       /\ \A x \in Sessions : proved[x] \subseteq proved'[x]
    BY <1>2, Zenon DEF outcomeVars
<1>11. /\ \A x : Created(x) => Created(x)'
       /\ \A x \in AuthIDs : authReq'[x] = authReq[x] => RequestBacked(x)'
       /\ \A o \in Tabs : tab'[o] = tab[o] => TabBacked(tab[o])'
       /\ \A c \in TokenCalls : call'[c] = call[c] => CallChecked(call[c])'
       /\ tokens' = tokens => TokensHeld'
    BY <1>9, <1>10, BackingKept, Zenon
<1>12. RequestsPresented'
  <2>1. RequestBacked(a)'
      BY <1>3, <1>8, Zenon DEF RequestBacked
  <2> QED
      BY <1>8, <1>11, <2>1, Zenon DEF RequestsPresented
<1>13. LoginTypeOK' /\ LoginStateTyped'
  <2>1. VerifierTyped'
      BY <1>2, <1>6, Zenon DEF LoginStateTyped, VerifierTyped, outcomeVars
  <2>2. CodesTyped'
    <3>1. CodesTyped
        BY <1>6, LoginTypes, Zenon
    <3> QED
        BY <1>2, <1>11, <3>1, Zenon DEF CodesTyped
  <2>3. call' \in [TokenCalls -> CallType] /\ tab' \in [Tabs -> TabType]
      BY <1>2, <1>6, LoginTypes, Zenon
  <2>4. EntriesTyped'
    <3>1. EntriesTyped
        BY <1>6, LoginTypes, Zenon
    <3>2. IsMap(authRequests', AuthIDs, [age : 0 .. AuthOld, session : Sessions \cup {""}])
        BY <1>2, <1>5, <3>1, PutIsMap, Zenon DEF EntriesTyped
    <3>3. /\ DOMAIN authRequests' = DOMAIN authRequests \cup {a}
          /\ authRequests'[a] = e
          /\ \A x \in DOMAIN authRequests : x # a => authRequests'[x] = authRequests[x]
        BY <1>2, Zenon DEF Put
    <3>4. authRequests'[a].session = "" /\ authReq'[a] # <<>>
        BY <1>4, <1>5, <1>8, <3>3, Zenon
    <3>5. \A x \in DOMAIN authRequests : x # a =>
             authRequests'[x].session \in minted'[x] \cup {""} /\ authReq'[x] # <<>>
        BY <1>2, <1>8, <3>1, <3>3, Zenon DEF EntriesTyped, IsMap
    <3> QED
        BY <3>2, <3>3, <3>4, <3>5, Zenon DEF EntriesTyped
  <2>5. \A x \in AuthIDs : RequestTyped(x)'
      BY <1>3, <1>7, <1>8, Zenon DEF RequestTyped
  <2> QED
      BY <1>8, <2>1, <2>2, <2>3, <2>4, <2>5, LoginTypesNext, Zenon
<1>14. OutcomesBacked'
    BY <1>2, Zenon DEF LoginInv, OutcomesBacked, outcomeVars
<1>15. TabsBacked' /\ CallsChecked' /\ TokensHeld'
    BY <1>2, <1>11, Zenon DEF TabsBacked, CallsChecked
<1>16. CodesExclusive'
    BY <1>2, CodesKept, Zenon
<1> QED
    BY <1>12, <1>13, <1>14, <1>15, <1>16, Zenon DEF LoginInv

\* What stays when the AuthRequest objects, the sessions and the holders do.
LEMMA ObjectsStay ==
  ASSUME LoginInv, UNCHANGED <<outcomeVars, authReq, minted>>
  PROVE  /\ VerifierTyped' /\ OutcomesBacked' /\ RequestsPresented'
         /\ authReq' = [a \in AuthIDs |-> authReq'[a]] /\ \A a \in AuthIDs : RequestTyped(a)'
         /\ \A a : Created(a) => Created(a)'
         /\ \A b \in Tabs : tab'[b] = tab[b] => TabBacked(tab[b])'
         /\ \A c \in TokenCalls : call'[c] = call[c] => CallChecked(call[c])'
         /\ tokens' = tokens => TokensHeld'
<1>1. LoginTypeOK /\ LoginStateTyped
    BY Zenon DEF LoginInv
<1>2. /\ \A x \in AuthIDs : authReq[x] # <<>> =>
           authReq'[x] # <<>> /\ authReq'[x].input = authReq[x].input
      /\ \A x \in AuthIDs : minted[x] \subseteq minted'[x]
      /\ \A x \in Sessions : proved[x] \subseteq proved'[x]
    BY Zenon DEF outcomeVars
<1>3. /\ \A x : Created(x) => Created(x)'
      /\ \A x \in AuthIDs : authReq'[x] = authReq[x] => RequestBacked(x)'
      /\ \A o \in Tabs : tab'[o] = tab[o] => TabBacked(tab[o])'
      /\ \A c \in TokenCalls : call'[c] = call[c] => CallChecked(call[c])'
      /\ tokens' = tokens => TokensHeld'
    BY <1>2, BackingKept, Zenon
<1>4. VerifierTyped' /\ OutcomesBacked'
    BY <1>1, Zenon DEF LoginInv, LoginStateTyped, VerifierTyped, OutcomesBacked, outcomeVars
<1>5. RequestsPresented'
    BY <1>3, Zenon DEF RequestsPresented
<1>6. authReq' = [a \in AuthIDs |-> authReq'[a]] /\ \A a \in AuthIDs : RequestTyped(a)'
    BY <1>1, LoginTypes, Zenon DEF RequestTyped
<1> QED
    BY <1>3, <1>4, <1>5, <1>6, Zenon

\* Saving a fresh code preserves LoginInv: no request and no ID Token has it.
LEMMA SaveAuthCodeInv ==
  ASSUME LoginInv, NEW b \in Tabs, NEW code \in Codes, SaveAuthCode(b, code)
  PROVE  LoginInv'
<1>1. PICK e : e = [id |-> tab[b].id, age |-> 0]
    OBVIOUS
<1>2. /\ tab[b].pc = "save" /\ code \notin issuedCodes
      /\ issuedCodes' = issuedCodes \cup {code}
      /\ UNCHANGED <<outcomeVars, authRequests, authReq, call, minted, tokens>>
    BY DEF SaveAuthCode
<1>3. authCodes' = Put(authCodes, code, e)
    BY <1>1 DEF SaveAuthCode
<1>4. tab' = [tab EXCEPT ![b] = TabIdle]
    BY DEF SaveAuthCode
<1>5. /\ VerifierTyped' /\ OutcomesBacked' /\ RequestsPresented'
      /\ authReq' = [a \in AuthIDs |-> authReq'[a]] /\ \A a \in AuthIDs : RequestTyped(a)'
      /\ \A a : Created(a) => Created(a)'
      /\ \A o \in Tabs : tab'[o] = tab[o] => TabBacked(tab[o])'
      /\ \A c \in TokenCalls : call'[c] = call[c] => CallChecked(call[c])'
      /\ tokens' = tokens => TokensHeld'
    BY <1>2, ObjectsStay, Zenon
<1>6. /\ tab' \in [Tabs -> TabType] /\ tab'[b].pc = "idle"
      /\ \A o \in Tabs : o # b => tab'[o] = tab[o]
    BY <1>4, TabFacts, Zenon
<1>7. TabsBacked'
  <2>1. TabBacked(tab[b])'
      BY <1>6, Zenon DEF TabBacked
  <2> QED
      BY <1>5, <1>6, <2>1, Zenon DEF TabsBacked
<1>8. Created(e.id) /\ e \in [id : AuthIDs, age : 0 .. CodeOld]
  <2>1. Created(tab[b].id) /\ tab[b].id \in AuthIDs
      BY <1>2, TabFacts DEF TabBacked, Created
  <2> QED
      BY <1>1, <2>1, LoginTimeAssumption DEF CodeOld
<1>9. CodesTyped
    BY LoginTypes, Zenon DEF LoginInv
<1>10. /\ DOMAIN authCodes' = DOMAIN authCodes \cup {code}
       /\ authCodes'[code] = e
       /\ \A x \in DOMAIN authCodes : x # code => authCodes'[x] = authCodes[x]
    BY <1>3, Zenon DEF Put
<1>11. CodesTyped'
  <2>1. IsMap(authCodes', Codes, [id : AuthIDs, age : 0 .. CodeOld])
      BY <1>3, <1>8, <1>9, PutIsMap, Zenon DEF CodesTyped
  <2>2. \A d \in DOMAIN authCodes' : Created(authCodes[d].id)'
      BY <1>2, <1>8, <1>9, <1>10, Zenon DEF CodesTyped, Created
  <2> QED
      BY <1>2, <1>9, <1>10, <2>1, <2>2, Zenon DEF CodesTyped
<1>12. LoginTypeOK' /\ LoginStateTyped'
  <2>1. call' \in [TokenCalls -> CallType]
      BY <1>2, LoginTypes, Zenon DEF LoginInv
  <2>2. EntriesTyped'
      BY <1>2, EntriesStay, Zenon
  <2> QED
      BY <1>5, <1>6, <1>11, <2>1, <2>2, LoginTypesNext, Zenon
<1>13. CodesExclusive'
  <2>1. CodesExclusive
      BY Zenon DEF LoginInv
  <2>2. CallsHoldCodes' /\ TokensSpent'
      BY <1>2, <1>10, <2>1 DEF CodesExclusive, CallsHoldCodes, TokensSpent
  <2>3. CallsApart' /\ CallsUnspent' /\ CodeRedeemedOnce'
      BY <1>2, <2>1 DEF CodesExclusive, CallsApart, CallsUnspent, CodeRedeemedOnce
  <2> QED
      BY <2>2, <2>3 DEF CodesExclusive
<1>14. CallsChecked' /\ TokensHeld'
    BY <1>2, <1>5, Zenon DEF CallsChecked
<1> QED
    BY <1>5, <1>7, <1>12, <1>13, <1>14, Zenon DEF LoginInv

\* A step of token request c.
LEMMA CallMoves ==
  ASSUME LoginInv, NEW c \in TokenCalls, NEW r \in CallType, call' = [call EXCEPT ![c] = r],
         CallChecked(call[c])', EntriesTyped', CodesTyped', CodesExclusive', TokensHeld',
         UNCHANGED <<outcomeVars, authReq, minted, tab>>
  PROVE  LoginInv'
<1>1. /\ VerifierTyped' /\ OutcomesBacked' /\ RequestsPresented'
      /\ authReq' = [a \in AuthIDs |-> authReq'[a]] /\ \A a \in AuthIDs : RequestTyped(a)'
      /\ \A o \in Tabs : tab'[o] = tab[o] => TabBacked(tab[o])'
      /\ \A d \in TokenCalls : call'[d] = call[d] => CallChecked(call[d])'
    BY ObjectsStay
<1>2. call \in [TokenCalls -> CallType] /\ tab \in [Tabs -> TabType]
    BY LoginTypes, Zenon DEF LoginInv
<1>3. call' \in [TokenCalls -> CallType] /\ \A d \in TokenCalls : d # c => call'[d] = call[d]
    BY <1>2, Zenon
<1>4. LoginTypeOK' /\ LoginStateTyped'
    BY <1>1, <1>2, <1>3, LoginTypesNext, Zenon
<1>5. TabsBacked' /\ CallsChecked'
    BY <1>1, <1>3, Zenon DEF TabsBacked, CallsChecked
<1> QED
    BY <1>1, <1>4, <1>5, Zenon DEF LoginInv

\* What is known of token request c before a step.
LEMMA CallFacts ==
  ASSUME LoginInv, NEW c \in TokenCalls
  PROVE  /\ call \in [TokenCalls -> CallType]
         /\ call[c] \in CallType
         /\ CallChecked(call[c])
         /\ CallIdle \in CallType /\ CallIdle.pc = "idle"
         /\ CodesTyped /\ CodesExclusive /\ TokensHeld
<1>1. call \in [TokenCalls -> CallType] /\ CodesTyped
    BY LoginTypes, Zenon DEF LoginInv
<1>2. CallChecked(call[c]) /\ CodesExclusive /\ TokensHeld
    BY Zenon DEF LoginInv, CallsChecked
<1>3. CallIdle \in CallType /\ CallIdle.pc = "idle"
    BY Zenon DEF CallIdle, CallType
<1> QED
    BY <1>1, <1>2, <1>3

\* The code store stays well typed when nothing happens to it.
LEMMA CodesStay ==
  ASSUME LoginInv, UNCHANGED <<authCodes, authReq, issuedCodes>>
  PROVE  CodesTyped'
<1>1. CodesTyped
    BY LoginTypes, Zenon DEF LoginInv
<1> QED
    BY <1>1 DEF CodesTyped, Created

\* consumeAuthCode preserves LoginInv: of all the requests with the same code
\* one takes it out of the store, and only that one goes on.
LEMMA ConsumeAuthCodeInv ==
  ASSUME LoginInv, NEW c \in TokenCalls, NEW code \in Codes, NEW client \in Clients,
         NEW verifier \in Verifiers, ConsumeAuthCode(c, code, client, verifier)
  PROVE  LoginInv'
<1>1. /\ call[c].pc = "idle" /\ code \in issuedCodes
      /\ UNCHANGED <<outcomeVars, authRequests, authReq, tab, minted, issuedCodes, tokens>>
    BY Zenon DEF ConsumeAuthCode
<1>2. authCodes' = Delete(authCodes, code)
    BY Zenon DEF ConsumeAuthCode, ConsumedCodes
<1>3. /\ DOMAIN authCodes' = DOMAIN authCodes \ {code}
      /\ \A x \in DOMAIN authCodes : x # code => authCodes'[x] = authCodes[x]
    BY <1>2, DeleteFacts, Zenon
<1>4. CodesTyped'
  <2>1. CodesTyped
      BY CallFacts, Zenon
  <2>2. IsMap(authCodes', Codes, [id : AuthIDs, age : 0 .. CodeOld])
      BY <1>2, <2>1, DeleteIsMap, Zenon DEF CodesTyped
  <2> QED
      BY <1>1, <1>3, <2>1, <2>2, Zenon DEF CodesTyped, Created
<1>5. EntriesTyped' /\ TokensHeld'
    BY <1>1, EntriesStay, ObjectsStay, Zenon
<1>6. CASE code \in DOMAIN authCodes /\ authCodes[code].age <= CodeTTL
  <2>1. PICK r : r = [pc |-> "lookup", id |-> authCodes[code].id, code |-> code,
                      client |-> client, verifier |-> verifier]
      OBVIOUS
  <2>2. call' = [call EXCEPT ![c] = r]
      BY <1>6, <2>1, Zenon DEF ConsumeAuthCode
  <2>3. Created(authCodes[code].id)
      BY <1>6, CallFacts, Zenon DEF CodesTyped
  <2>4. /\ r \in CallType /\ r.pc = "lookup" /\ r.id = authCodes[code].id /\ r.code = code
      BY <2>1, <2>3, Zenon DEF CallType, Created
  <2>5. call'[c] = r /\ \A d \in TokenCalls : d # c => call'[d] = call[d]
      BY <2>2, CallFacts, Zenon
  <2>6. CallChecked(call[c])'
      BY <1>1, <2>3, <2>4, <2>5, Zenon DEF CallChecked, Created
  <2>7. CodesExclusive'
    <3>1. CodesExclusive
        BY CallFacts
    <3>2. call'[c].code = code /\ code \in issuedCodes /\ code \in DOMAIN authCodes
        BY <1>1, <1>6, <2>4, <2>5, Zenon
    <3>3. CallsHoldCodes /\ CallsApart /\ CallsUnspent /\ TokensSpent /\ CodeRedeemedOnce
        BY <3>1, Zenon DEF CodesExclusive
    <3>4. \A d \in TokenCalls : d # c /\ call'[d].pc # "idle" =>
            call[d].pc # "idle" /\ call'[d].code = call[d].code /\ call'[d].code # code
        BY <2>5, <3>2, <3>3 DEF CallsHoldCodes
    <3>5. \A k \in tokens : k.code # code
        BY <3>2, <3>3, Zenon DEF TokensSpent
    <3>6. issuedCodes' = issuedCodes /\ tokens' = tokens
        BY <1>1, Zenon
    <3>7. CallsHoldCodes'
        BY <1>3, <3>2, <3>3, <3>4, <3>6 DEF CallsHoldCodes
    <3>8. CallsApart'
        BY <3>2, <3>3, <3>4 DEF CallsApart
    <3>9. CallsUnspent'
        BY <3>2, <3>3, <3>4, <3>5, <3>6 DEF CallsUnspent
    <3>10. TokensSpent' /\ CodeRedeemedOnce'
        BY <1>3, <3>3, <3>6 DEF TokensSpent, CodeRedeemedOnce
    <3> QED
        BY <3>7, <3>8, <3>9, <3>10, Zenon DEF CodesExclusive
  <2> QED
      BY <1>1, <1>4, <1>5, <2>2, <2>4, <2>6, <2>7, CallMoves, Zenon
<1>7. CASE ~ (code \in DOMAIN authCodes /\ authCodes[code].age <= CodeTTL)
  <2>1. call' = call
      BY <1>7, Zenon DEF ConsumeAuthCode
  <2>2. call' = [call EXCEPT ![c] = call[c]] /\ call[c] \in CallType
      BY <2>1, CallFacts, Zenon
  <2>3. CallChecked(call[c])'
      BY <1>1, <2>1, Zenon DEF CallChecked
  <2>4. CodesExclusive'
      BY <1>1, <1>3, <2>1, CodesKept, Zenon
  <2> QED
      BY <1>1, <1>4, <1>5, <2>2, <2>3, <2>4, CallMoves, Zenon
<1> QED
    BY <1>6, <1>7, Zenon

\* The lookup of the AuthRequest and op's checks preserve LoginInv.
LEMMA AuthRequestByCodeInv ==
  ASSUME LoginInv, NEW c \in TokenCalls, AuthRequestByCode(c)
  PROVE  LoginInv'
<1>1. PICK r : r = [call[c] EXCEPT !.pc = "issue"]
    OBVIOUS
<1>2. /\ call[c].pc = "lookup" /\ ExpireAuthRequest(call[c].id)
      /\ UNCHANGED <<outcomeVars, authReq, authCodes, tab, minted, issuedCodes, tokens>>
    BY DEF AuthRequestByCode
<1>3. EntriesTyped' /\ CodesTyped' /\ TokensHeld'
    BY <1>2, EntriesExpire, CodesStay, ObjectsStay
<1>4. /\ r \in CallType /\ r.pc = "issue" /\ r.id = call[c].id /\ r.code = call[c].code
      /\ r.client = call[c].client /\ r.verifier = call[c].verifier
    BY <1>1, CallFacts, Zenon DEF CallType
<1>5. CASE /\ MayRedeem(call[c].id, call[c].client, call[c].verifier)
           /\ call' = [call EXCEPT ![c] = r]
  <2>1. call'[c] = r /\ \A d \in TokenCalls : d # c => call'[d] = call[d]
      BY <1>5, CallFacts
  <2>2. Created(call[c].id)
      BY <1>2, CallFacts DEF CallChecked
  <2>3. CallChecked(call[c])'
      BY <1>2, <1>4, <1>5, <2>1, <2>2, Zenon DEF CallChecked, Created, MayRedeem
  <2>4. CodesExclusive'
      BY <1>2, <1>4, <2>1, CodesKept, Zenon
  <2> QED
      BY <1>2, <1>3, <1>4, <1>5, <2>3, <2>4, CallMoves, Zenon
<1>6. CASE call' = [call EXCEPT ![c] = CallIdle]
  <2>1. CallIdle \in CallType /\ call'[c].pc = "idle"
      BY <1>6, CallFacts
  <2>2. \A d \in TokenCalls : d # c => call'[d] = call[d]
      BY <1>6, CallFacts
  <2>3. CallChecked(call[c])'
      BY <2>1 DEF CallChecked
  <2>4. CodesExclusive'
      BY <1>2, <2>1, <2>2, CodesKept, Zenon
  <2> QED
      BY <1>2, <1>3, <1>6, <2>1, <2>3, <2>4, CallMoves, Zenon
<1> QED
    BY <1>1, <1>5, <1>6, Zenon DEF AuthRequestByCode

\* Issuing the ID Token preserves LoginInv: the request was checked, the
\* AuthRequest kept its inputs and its subject presented for it, and the code
\* is the request's own.
LEMMA CreateTokenResponseInv ==
  ASSUME LoginInv, NEW c \in TokenCalls, CreateTokenResponse(c)
  PROVE  LoginInv'
<1>1. PICK a, k :
        /\ a = call[c].id
        /\ k = [serial |-> Cardinality(tokens), id |-> a, code |-> call[c].code,
                client |-> call[c].client, verifier |-> call[c].verifier,
                subject |-> authReq[a].subject, authTime |-> authReq[a].doneAt]
    OBVIOUS
<1>2. /\ call[c].pc = "issue"
      /\ authRequests' = Delete(authRequests, a)
      /\ UNCHANGED <<outcomeVars, authReq, authCodes, tab, minted, issuedCodes>>
    BY <1>1, Zenon DEF CreateTokenResponse
<1>3. tokens' = tokens \cup {k}
    BY <1>1, Zenon DEF CreateTokenResponse
<1>4. call' = [call EXCEPT ![c] = CallIdle]
    BY Zenon DEF CreateTokenResponse
<1>5. /\ k.id = a /\ k.code = call[c].code /\ k.client = call[c].client
      /\ k.verifier = call[c].verifier /\ k.subject = authReq[a].subject
    BY <1>1, Zenon
<1>6. /\ CallIdle \in CallType /\ call'[c].pc = "idle"
      /\ \A d \in TokenCalls : d # c => call'[d] = call[d]
    BY <1>4, CallFacts, Zenon
<1>7. CallChecked(call[c])'
    BY <1>6, Zenon DEF CallChecked
<1>8. EntriesTyped' /\ CodesTyped'
  <2>1. CodesTyped'
      BY <1>2, CodesStay, Zenon
  <2>2. /\ IsMap(authRequests, AuthIDs, [age : 0 .. AuthOld, session : Sessions \cup {""}])
        /\ EntriesTyped
      BY LoginTypes, Zenon DEF LoginInv, EntriesTyped
  <2>3. IsMap(authRequests', AuthIDs, [age : 0 .. AuthOld, session : Sessions \cup {""}])
      BY <1>2, <2>2, DeleteIsMap, Zenon
  <2>4. /\ DOMAIN authRequests' = DOMAIN authRequests \ {a}
        /\ \A x \in DOMAIN authRequests : x # a => authRequests'[x] = authRequests[x]
      BY <1>2, DeleteFacts, Zenon
  <2> QED
      BY <1>2, <2>1, <2>2, <2>3, <2>4, Zenon DEF EntriesTyped
<1>9. TokensHeld'
  <2>1. /\ Created(a) /\ MayRedeem(a, call[c].client, call[c].verifier)
        /\ RequestBacked(a)
      BY <1>1, <1>2, CallFacts, Zenon DEF CallChecked, Created, LoginInv, RequestsPresented
  <2>2. TokenHeld(k)
      BY <1>5, <2>1, Zenon DEF TokenHeld, MayRedeem, RequestBacked
  <2>3. \A x \in tokens : TokenHeld(x)
      BY CallFacts, Zenon DEF TokensHeld
  <2>4. ASSUME NEW x, TokenHeld(x) PROVE TokenHeld(x)'
      BY <1>2, <2>4, Zenon DEF TokenHeld, Created, Presented, outcomeVars
  <2> QED
      BY <1>3, <2>2, <2>3, <2>4 DEF TokensHeld
<1>10. CodesExclusive'
  <2>1. CodesExclusive
      BY CallFacts
  <2>2. CallsHoldCodes /\ CallsApart /\ CallsUnspent /\ TokensSpent /\ CodeRedeemedOnce
      BY <2>1, Zenon DEF CodesExclusive
  <2>3. /\ k.code = call[c].code /\ call[c].pc # "idle"
        /\ k.code \in issuedCodes /\ k.code \notin DOMAIN authCodes
        /\ \A x \in tokens : x.code # k.code
      BY <1>2, <1>5, <2>2, Zenon DEF CallsHoldCodes, CallsUnspent
  <2>4. \A d \in TokenCalls : call'[d].pc # "idle" =>
          d # c /\ call[d].pc # "idle" /\ call'[d] = call[d]
      BY <1>6
  <2>5. issuedCodes' = issuedCodes /\ authCodes' = authCodes
      BY <1>2, Zenon
  <2>6. CallsHoldCodes' /\ CallsApart'
      BY <2>2, <2>4, <2>5 DEF CallsHoldCodes, CallsApart
  <2>7. CallsUnspent'
    <3>1. \A d \in TokenCalls : d # c /\ call[d].pc # "idle" => call[d].code # k.code
        BY <2>2, <2>3, Zenon DEF CallsApart
    <3> QED
        BY <1>3, <2>2, <2>4, <3>1 DEF CallsUnspent
  <2>8. TokensSpent' /\ CodeRedeemedOnce'
      BY <1>3, <2>2, <2>3, <2>5 DEF TokensSpent, CodeRedeemedOnce
  <2> QED
      BY <2>6, <2>7, <2>8, Zenon DEF CodesExclusive
<1> QED
    BY <1>2, <1>4, <1>6, <1>7, <1>8, <1>9, <1>10, CallMoves, Zenon

\* A token request that panics preserves LoginInv: its code is spent on
\* nothing.
LEMMA ReadTornSubjectInv ==
  ASSUME LoginInv, NEW c \in TokenCalls, ReadTornSubject(c)
  PROVE  LoginInv'
<1>1. /\ call' = [call EXCEPT ![c] = CallIdle]
      /\ UNCHANGED <<outcomeVars, authRequests, authReq, authCodes, tab, minted, issuedCodes,
                     tokens>>
    BY Zenon DEF ReadTornSubject, loginStore
<1>2. /\ CallIdle \in CallType /\ call'[c].pc = "idle"
      /\ \A d \in TokenCalls : d # c => call'[d] = call[d]
    BY <1>1, CallFacts, Zenon
<1>3. CallChecked(call[c])'
    BY <1>2, Zenon DEF CallChecked
<1>4. EntriesTyped' /\ CodesTyped' /\ TokensHeld'
    BY <1>1, EntriesStay, CodesStay, ObjectsStay, Zenon
<1>5. CodesExclusive'
    BY <1>1, <1>2, CodesKept, Zenon
<1> QED
    BY <1>1, <1>2, <1>3, <1>4, <1>5, CallMoves, Zenon

\* What the Verifier and its wallets do preserves LoginInv.
LEMMA VerifierStepInv ==
  ASSUME LoginInv, VerifierStep
  PROVE  LoginInv'
<1>1. UNCHANGED <<loginStore, tab, call, minted, issuedCodes, tokens>>
    BY DEF VerifierStep
<1>2. VerifierTyped /\ OutcomesBacked
    BY LoginTypes, Zenon DEF LoginInv
<1>3. /\ phase' = [s \in Sessions |-> phase'[s]]
      /\ proved' = [s \in Sessions |-> proved'[s]]
      /\ outcome' = [s \in Sessions |-> outcome'[s]]
      /\ \A s \in Sessions : proved[s] \subseteq proved'[s]
      /\ OutcomesBacked'
  <2>1. ASSUME NEW s \in Sessions, NEW x \in Subjects, Prove(s, x)
        PROVE  <1>3!:
      BY <1>2, <2>1, Zenon DEF Prove, VerifierTyped, OutcomesBacked
  <2>2. ASSUME NEW s \in Sessions, NEW o, Decide(s, o)
        PROVE  <1>3!:
      BY <1>2, <2>2, OutcomeNames DEF Decide, VerifierTyped, OutcomesBacked
  <2>3. ASSUME NEW s \in Sessions, Close({s})
        PROVE  <1>3!:
      BY <1>2, <2>3, OutcomeNames, Zenon DEF Close, VerifierTyped, OutcomesBacked
  <2> QED
      BY <2>1, <2>2, <2>3, Zenon DEF VerifierStep
<1>4. /\ \A x \in AuthIDs : authReq[x] # <<>> =>
           authReq'[x] # <<>> /\ authReq'[x].input = authReq[x].input
      /\ \A x \in AuthIDs : minted[x] \subseteq minted'[x]
    BY <1>1, Zenon DEF loginStore
<1>5. /\ \A x \in AuthIDs : authReq'[x] = authReq[x] => RequestBacked(x)'
      /\ \A o \in Tabs : tab'[o] = tab[o] => TabBacked(tab[o])'
      /\ \A c \in TokenCalls : call'[c] = call[c] => CallChecked(call[c])'
      /\ tokens' = tokens => TokensHeld'
    BY <1>3, <1>4, BackingKept, Zenon
<1>6. RequestsPresented' /\ TabsBacked' /\ CallsChecked' /\ TokensHeld'
    BY <1>1, <1>5, Zenon DEF RequestsPresented, TabsBacked, CallsChecked, loginStore
<1>7. LoginTypeOK' /\ LoginStateTyped'
  <2>1. LoginTypeOK /\ LoginStateTyped
      BY Zenon DEF LoginInv
  <2>2. EntriesTyped' /\ CodesTyped'
      BY <1>1, EntriesStay, CodesStay, Zenon DEF loginStore
  <2>3. authReq' = [x \in AuthIDs |-> authReq'[x]] /\ \A x \in AuthIDs : RequestTyped(x)'
      BY <1>1, <2>1, LoginTypes, Zenon DEF RequestTyped, loginStore
  <2>4. call' \in [TokenCalls -> CallType] /\ tab' \in [Tabs -> TabType]
      BY <1>1, <2>1, LoginTypes, Zenon
  <2>5. VerifierTyped'
      BY <1>1, <1>2, <1>3, Zenon DEF VerifierTyped
  <2> QED
      BY <2>2, <2>3, <2>4, <2>5, LoginTypesNext, Zenon
<1>8. CodesExclusive'
    BY <1>1, CodesKept, Zenon DEF loginStore
<1> QED
    BY <1>3, <1>6, <1>7, <1>8 DEF LoginInv

\* An age that grows up to its bound stays within it.
LEMMA AtMostFacts ==
  ASSUME NEW bound \in Nat, NEW n \in 0 .. bound
  PROVE  AtMost(n + 1, bound) \in 0 .. bound
BY DEF AtMost

\* Time preserves LoginInv.
LEMMA LoginTickInv ==
  ASSUME LoginInv, LoginTick
  PROVE  LoginInv'
<1> DEFINE older(e, bound) == [e EXCEPT !.age = AtMost(@ + 1, bound)]
<1>1. UNCHANGED <<outcomeVars, authReq, tab, call, minted, issuedCodes, tokens>>
    BY DEF LoginTick
<1>2. /\ authRequests' = [a \in DOMAIN authRequests |-> older(authRequests[a], AuthOld)]
      /\ authCodes' = [d \in DOMAIN authCodes |-> older(authCodes[d], CodeOld)]
    BY DEF LoginTick
<1>3. AuthOld \in Nat /\ CodeOld \in Nat
    BY LoginTimeAssumption DEF AuthOld, CodeOld
<1>4. ASSUME NEW e \in [age : 0 .. AuthOld, session : Sessions \cup {""}]
      PROVE  /\ older(e, AuthOld) \in [age : 0 .. AuthOld, session : Sessions \cup {""}]
             /\ older(e, AuthOld).session = e.session
  <2>1. e.age \in 0 .. AuthOld
      OBVIOUS
  <2>2. AtMost(e.age + 1, AuthOld) \in 0 .. AuthOld
      BY <1>3, <2>1, AtMostFacts, Zenon
  <2> QED
      BY <2>2, Zenon
<1>5. ASSUME NEW e \in [id : AuthIDs, age : 0 .. CodeOld]
      PROVE  /\ older(e, CodeOld) \in [id : AuthIDs, age : 0 .. CodeOld]
             /\ older(e, CodeOld).id = e.id
    BY <1>3 DEF AtMost
<1> HIDE DEF older
<1>6. EntriesTyped /\ CodesTyped
    BY LoginTypes, Zenon DEF LoginInv
<1>7. EntriesTyped'
    BY <1>1, <1>2, <1>4, <1>6 DEF EntriesTyped, IsMap
<1>8. CodesTyped'
    BY <1>1, <1>2, <1>5, <1>6, Zenon DEF CodesTyped, IsMap, Created
<1>9. /\ VerifierTyped' /\ OutcomesBacked' /\ RequestsPresented'
      /\ authReq' = [a \in AuthIDs |-> authReq'[a]] /\ \A a \in AuthIDs : RequestTyped(a)'
      /\ \A b \in Tabs : tab'[b] = tab[b] => TabBacked(tab[b])'
      /\ \A c \in TokenCalls : call'[c] = call[c] => CallChecked(call[c])'
      /\ tokens' = tokens => TokensHeld'
    BY <1>1, ObjectsStay, Zenon
<1>10. call' \in [TokenCalls -> CallType] /\ tab' \in [Tabs -> TabType]
    BY <1>1, LoginTypes, Zenon DEF LoginInv
<1>11. LoginTypeOK' /\ LoginStateTyped'
    BY <1>7, <1>8, <1>9, <1>10, LoginTypesNext, Zenon
<1>12. TabsBacked' /\ CallsChecked' /\ TokensHeld'
    BY <1>1, <1>9, Zenon DEF TabsBacked, CallsChecked
<1>13. CodesExclusive'
    BY <1>1, <1>2, CodesKept, Zenon
<1> QED
    BY <1>9, <1>11, <1>12, <1>13, Zenon DEF LoginInv

\* A restart preserves LoginInv: the stores are empty, pages stay as
\* they are or are cut off.
LEMMA LoginRestartInv ==
  ASSUME LoginInv, LoginRestart
  PROVE  LoginInv'
<1>1. /\ UNCHANGED <<authReq, minted, issuedCodes, tokens, proved>>
      /\ authRequests' = EmptyMap /\ authCodes' = EmptyMap
      /\ Close({s \in Sessions : phase[s] = "open"})
    BY Zenon DEF LoginRestart, Close
<1>2. LoginTypeOK /\ LoginStateTyped
    BY Zenon DEF LoginInv
<1>3. VerifierTyped' /\ OutcomesBacked'
  <2>1. VerifierTyped /\ OutcomesBacked
      BY <1>2, LoginTypes, Zenon DEF LoginInv
  <2> QED
      BY <1>1, <2>1, OutcomeNames, Zenon DEF Close, VerifierTyped, OutcomesBacked
<1>4. /\ \A x \in AuthIDs : authReq[x] # <<>> =>
           authReq'[x] # <<>> /\ authReq'[x].input = authReq[x].input
      /\ \A x \in AuthIDs : minted[x] \subseteq minted'[x]
      /\ \A s \in Sessions : proved[s] \subseteq proved'[s]
    BY <1>1, Zenon
<1>5. /\ \A x : Created(x) => Created(x)'
      /\ \A x \in AuthIDs : authReq'[x] = authReq[x] => RequestBacked(x)'
      /\ \A o \in Tabs : tab'[o] = tab[o] => TabBacked(tab[o])'
      /\ tokens' = tokens => TokensHeld'
    BY <1>4, BackingKept, Zenon
<1>6. RequestsPresented' /\ TokensHeld'
    BY <1>1, <1>5, Zenon DEF RequestsPresented
<1>7. DOMAIN authRequests' = {} /\ DOMAIN authCodes' = {}
    BY <1>1, EmptyFacts, Zenon
<1>8. EntriesTyped' /\ CodesTyped'
  <2>1. CodesTyped
      BY <1>2, LoginTypes, Zenon
  <2> QED
      BY <1>1, <1>7, <2>1, EmptyFacts, Zenon DEF EntriesTyped, CodesTyped
<1>9. call' \in [TokenCalls -> CallType] /\ \A c \in TokenCalls : call'[c].pc = "idle"
    BY Zenon DEF LoginRestart, CallIdle, CallType
<1>10. ASSUME NEW b \in Tabs
       PROVE  /\ tab'[b] \in TabType
              /\ TabBacked(tab[b])'
  <2>1. tab[b] \in TabType /\ TabBacked(tab[b]) /\ TabIdle \in TabType /\ TabIdle.pc = "idle"
      BY TabFacts, Zenon
  <2>2. CASE tab'[b] = tab[b]
      BY <1>5, <2>1, <2>2, Zenon
  <2>3. CASE tab'[b] = TabIdle
      BY <2>1, <2>3, Zenon DEF TabBacked
  <2>4. CASE tab'[b] = Cut
      BY <2>4, CutFacts, Zenon DEF TabBacked
  <2> QED
      BY <2>2, <2>3, <2>4, Zenon DEF LoginRestart
<1>11. tab' \in [Tabs -> TabType] /\ TabsBacked'
    BY <1>10, Zenon DEF TabsBacked, LoginRestart
<1>12. authReq' = [x \in AuthIDs |-> authReq'[x]] /\ \A x \in AuthIDs : RequestTyped(x)'
    BY <1>1, <1>2, LoginTypes, Zenon DEF RequestTyped
<1>13. LoginTypeOK' /\ LoginStateTyped'
    BY <1>3, <1>8, <1>9, <1>11, <1>12, LoginTypesNext, Zenon
<1>14. CallsChecked'
    BY <1>9, Zenon DEF CallsChecked, CallChecked
<1>15. CodesExclusive'
    BY <1>1, <1>7, <1>9, CodesKept, Zenon
<1> QED
    BY <1>3, <1>6, <1>11, <1>13, <1>14, <1>15, Zenon DEF LoginInv

\* LoginInv is an invariant of the login bridge.
THEOREM LoginInvariant == LoginSpec => []LoginInv
<1>1. LoginInit => LoginInv
    BY LoginInitInv
<1>2. LoginInv /\ [LoginNext]_loginVars => LoginInv'
  <2> SUFFICES ASSUME LoginInv, [LoginNext]_loginVars PROVE LoginInv'
      OBVIOUS
  <2>1. ASSUME NEW b \in Tabs, LoadStep(b) \/ PollStep(b)
        PROVE  LoginInv'
      BY <2>1, FindPageSessionInv, StartVerificationInv, LinkSessionInv, PollLookupInv,
         PollSessionInv, PollOutcomeInv, SetSubjectInv, Zenon DEF LoadStep, PollStep
  <2>2. CASE LoginNext
      BY <2>1, <2>2, CreateAuthRequestInv, LoadPageInv, AuthorizeCallbackInv,
         SaveAuthCodeInv, ConsumeAuthCodeInv, AuthRequestByCodeInv, CreateTokenResponseInv,
         ReadTornSubjectInv, PollLostInv, VerifierStepInv, LoginTickInv, LoginRestartInv, Zenon DEF LoginNext
  <2>3. CASE UNCHANGED loginVars
    <3>1. LoginTypeOK' /\ LoginStateTyped'
        BY <2>3, Zenon DEF loginVars, loginStore, outcomeVars, LoginInv, LoginTypeOK,
                    LoginStateTyped, Created
    <3>2. OutcomesBacked' /\ RequestsPresented' /\ TabsBacked' /\ CallsChecked' /\ TokensHeld'
        BY <2>3, ObjectsStay, Zenon DEF loginVars, loginStore, TabsBacked, CallsChecked
    <3>3. CodesExclusive'
        BY <2>3, CodesKept, Zenon DEF loginVars, loginStore
    <3> QED
        BY <3>1, <3>2, <3>3, Zenon DEF LoginInv
  <2> QED
      BY <2>2, <2>3
<1> QED
    BY <1>1, <1>2, PTL DEF LoginSpec

\* The login bridge is well typed, and what is linked to an AuthRequest was
\* started for it.
THEOREM LoginTypeCorrect == LoginSpec => []LoginTypeOK
<1>1. LoginInv => LoginTypeOK
    BY Zenon DEF LoginInv
<1> QED
    BY <1>1, LoginInvariant, PTL

\* That an ID Token has a subject is an invariant on top of LoginInv: codes are
\* saved and presented only for an AuthRequest that is done, and to read the
\* subject of one that is done and has none is a panic.
CodesDone == \A d \in DOMAIN authCodes : Done(authCodes[d].id)
TabsDone == \A b \in Tabs : tab[b].pc = "save" => Done(tab[b].id)
CallsDone == \A c \in TokenCalls : call[c].pc # "idle" => Done(call[c].id)
TokensNamed == \A k \in tokens : k.subject # ""

SubjectInv == CodesDone /\ TabsDone /\ CallsDone /\ TokensNamed

\* No step takes back that an AuthRequest is done.
DoneKept == \A a : Created(a) /\ Done(a) => Done(a)'

\* When the objects stay, what is done stays done.
LEMMA DoneStays ==
  ASSUME authReq' = authReq
  PROVE  DoneKept
BY Zenon DEF DoneKept, Done

\* Nothing changes for the codes, tabs and token requests that stay.
LEMMA SubjectKept ==
  ASSUME LoginInv, SubjectInv, DoneKept
  PROVE  /\ (\A d \in DOMAIN authCodes' : d \in DOMAIN authCodes
                                          /\ authCodes'[d].id = authCodes[d].id) => CodesDone'
         /\ (\A b \in Tabs : tab'[b].pc = "save" =>
               tab[b].pc = "save" /\ tab'[b].id = tab[b].id) => TabsDone'
         /\ (\A c \in TokenCalls : call'[c].pc # "idle" =>
               call[c].pc # "idle" /\ call'[c].id = call[c].id) => CallsDone'
         /\ tokens' = tokens => TokensNamed'
<1>1. \A d \in DOMAIN authCodes : Created(authCodes[d].id)
    BY Zenon DEF LoginInv, LoginStateTyped
<1>2. \A b \in Tabs : tab[b].pc = "save" => Created(tab[b].id)
    BY DEF LoginInv, TabsBacked, TabBacked
<1>3. \A c \in TokenCalls : call[c].pc # "idle" => Created(call[c].id)
    BY Zenon DEF LoginInv, CallsChecked, CallChecked
<1>4. ASSUME NEW a, NEW x, x = a, Created(a), Done(a) PROVE Done(x)'
    BY <1>4, Zenon DEF DoneKept
<1>5. ASSUME \A d \in DOMAIN authCodes' : d \in DOMAIN authCodes
                                          /\ authCodes'[d].id = authCodes[d].id
      PROVE  CodesDone'
    BY <1>1, <1>4, <1>5, Zenon DEF SubjectInv, CodesDone
<1>6. ASSUME \A b \in Tabs : tab'[b].pc = "save" =>
               tab[b].pc = "save" /\ tab'[b].id = tab[b].id
      PROVE  TabsDone'
    BY <1>2, <1>4, <1>6, Zenon DEF SubjectInv, TabsDone
<1>7. ASSUME \A c \in TokenCalls : call'[c].pc # "idle" =>
               call[c].pc # "idle" /\ call'[c].id = call[c].id
      PROVE  CallsDone'
    BY <1>3, <1>4, <1>7, Zenon DEF SubjectInv, CallsDone
<1>8. ASSUME tokens' = tokens PROVE TokensNamed'
    BY <1>8, Zenon DEF SubjectInv, TokensNamed
<1> QED
    BY <1>5, <1>6, <1>7, <1>8, Zenon

\* The three writes keep what is done done.
LEMMA SetSubjectDone ==
  ASSUME LoginInv, NEW b \in Tabs,
         SetSubjectLength(b) \/ SetSubjectText(b) \/ SetDoneAt(b)
  PROVE  DoneKept
<1>1. PICK a : a = tab[b].id
    OBVIOUS
<1>2. a \in AuthIDs /\ authReq[a] # <<>>
    BY <1>1, TabFacts DEF TabBacked, Created, SetSubjectLength, SetSubjectText, SetDoneAt
<1>3. authReq = [x \in AuthIDs |-> authReq[x]] /\ RequestTyped(a)
    BY <1>2, LoginTypes, Zenon DEF LoginInv
<1>4. PICK ar, X : /\ ar = authReq[a]
                   /\ ar \in [input : AuthInputs, done : BOOLEAN, subject : X, doneAt : BOOLEAN]
    BY <1>2, <1>3, Zenon DEF RequestTyped
<1>5. ASSUME NEW r, authReq' = [authReq EXCEPT ![a] = r], ar.done => r.done PROVE DoneKept
    BY <1>2, <1>3, <1>4, <1>5, Zenon DEF DoneKept, Done, Created
<1>6. CASE SetSubjectLength(b)
  <2>1. authReq' = [authReq EXCEPT ![a] = [ar EXCEPT !.done = TRUE]]
      BY <1>1, <1>4, <1>6, Zenon DEF SetSubjectLength
  <2>2. [ar EXCEPT !.done = TRUE].done
      BY <1>4, Zenon
  <2> QED
      BY <1>5, <2>1, <2>2, Zenon
<1>7. CASE SetSubjectText(b)
  <2>1. authReq' = [authReq EXCEPT ![a] = [ar EXCEPT !.subject = tab[b].subject]]
      BY <1>1, <1>4, <1>7, Zenon DEF SetSubjectText
  <2>2. [ar EXCEPT !.subject = tab[b].subject].done = ar.done
      BY <1>4, Zenon
  <2> QED
      BY <1>5, <2>1, <2>2, Zenon
<1>8. CASE SetDoneAt(b)
  <2>1. authReq' = [authReq EXCEPT ![a] = [ar EXCEPT !.doneAt = TRUE]]
      BY <1>1, <1>4, <1>8, Zenon DEF SetDoneAt
  <2>2. [ar EXCEPT !.doneAt = TRUE].done = ar.done
      BY <1>4, Zenon
  <2> QED
      BY <1>5, <2>1, <2>2, Zenon
<1> QED
    BY <1>6, <1>7, <1>8, Zenon

\* A step of tab b that does not take it to SaveAuthCode preserves SubjectInv.
LEMMA TabSubjectInv ==
  ASSUME LoginInv, SubjectInv, DoneKept, NEW b \in Tabs, NEW t,
         tab' = [tab EXCEPT ![b] = t], t.pc # "save",
         UNCHANGED <<authCodes, call, tokens>>
  PROVE  SubjectInv'
<1>1. \A o \in Tabs : tab'[o].pc = "save" => tab[o].pc = "save" /\ tab'[o].id = tab[o].id
    BY TabFacts, Zenon
<1> QED
    BY <1>1, SubjectKept, Zenon DEF SubjectInv

\* The steps of loading the page and of a poll are such steps.
LEMMA PageSubjectInv ==
  ASSUME LoginInv, SubjectInv, NEW b \in Tabs,
         (\E a \in AuthIDs : LoadPage(b, a)) \/ LoadStep(b) \/ PollStep(b) \/ PollLost(b)
  PROVE  SubjectInv'
<1>1. tab[b] \in TabType /\ TabIdle \in TabType /\ TabIdle.pc # "save" /\ Cut.pc # "save"
    BY TabFacts, CutFacts
<1>2. \A x : \A pc \in TabPCs : /\ [tab[b] EXCEPT !.pc = pc].pc = pc
                               /\ [[tab[b] EXCEPT !.pc = pc] EXCEPT !.session = x].pc = pc
                               /\ [[tab[b] EXCEPT !.pc = pc] EXCEPT !.subject = x].pc = pc
    BY <1>1 DEF TabType
<1>3. \A x : \A pc \in TabPCs : [TabIdle EXCEPT !.pc = pc, !.id = x].pc = pc
    BY <1>1 DEF TabType
<1>4. \A answer \in {"pending", "done", "error", "not_found"} : Heard(b, answer).pc # "save"
    BY HeardFacts
<1>5. /\ UNCHANGED <<authCodes, call, tokens>>
      /\ DoneKept
  <2>1. CASE SetSubjectLength(b) \/ SetSubjectText(b) \/ SetDoneAt(b)
      BY <2>1, SetSubjectDone, Zenon DEF SetSubjectLength, SetSubjectText, SetDoneAt
  <2>2. CASE ~ (SetSubjectLength(b) \/ SetSubjectText(b) \/ SetDoneAt(b))
    <3>1. UNCHANGED <<authReq, authCodes, call, tokens>>
        BY <2>2, Zenon DEF LoadPage, LoadStep, PollStep, PollLost, FindPageSession,
             StartVerification, StartVerificationFails, LinkSession, PollLookup, PollSession,
             PollOutcome, loginStore
    <3> QED
        BY <3>1, DoneStays, Zenon
  <2> QED
      BY <2>1, <2>2
<1>6. ASSUME NEW t, tab' = [tab EXCEPT ![b] = t], t.pc # "save" PROVE SubjectInv'
    BY <1>5, <1>6, TabSubjectInv, Zenon
<1>7. ASSUME NEW pc \in TabPCs \ {"save"},
             \/ Goto(b, pc)
             \/ \E x : tab' = [tab EXCEPT ![b] = [[tab[b] EXCEPT !.pc = pc] EXCEPT !.session = x]]
             \/ \E x : tab' = [tab EXCEPT ![b] = [[tab[b] EXCEPT !.pc = pc] EXCEPT !.subject = x]]
             \/ \E x : tab' = [tab EXCEPT ![b] = [TabIdle EXCEPT !.pc = pc, !.id = x]]
      PROVE  SubjectInv'
  <2>1. pc \in TabPCs /\ pc # "save"
      OBVIOUS
  <2>2. CASE Goto(b, pc)
    <3>1. tab' = [tab EXCEPT ![b] = [tab[b] EXCEPT !.pc = pc]]
        BY <2>2, Zenon DEF Goto
    <3> QED
        BY <1>2, <1>6, <2>1, <3>1, Zenon
  <2>3. ASSUME NEW x, tab' = [tab EXCEPT ![b] = [[tab[b] EXCEPT !.pc = pc] EXCEPT !.session = x]]
        PROVE  SubjectInv'
    <3>1. PICK t : t = [[tab[b] EXCEPT !.pc = pc] EXCEPT !.session = x]
        OBVIOUS
    <3>2. t.pc = pc
        BY <1>2, <2>1, <3>1, Zenon
    <3>3. tab' = [tab EXCEPT ![b] = t]
        BY <2>3, <3>1, Zenon
    <3> QED
        BY <1>6, <2>1, <3>2, <3>3, Zenon
  <2>4. ASSUME NEW x, tab' = [tab EXCEPT ![b] = [[tab[b] EXCEPT !.pc = pc] EXCEPT !.subject = x]]
        PROVE  SubjectInv'
    <3>1. PICK t : t = [[tab[b] EXCEPT !.pc = pc] EXCEPT !.subject = x]
        OBVIOUS
    <3>2. t.pc = pc
        BY <1>2, <2>1, <3>1, Zenon
    <3>3. tab' = [tab EXCEPT ![b] = t]
        BY <2>4, <3>1, Zenon
    <3> QED
        BY <1>6, <2>1, <3>2, <3>3, Zenon
  <2>5. ASSUME NEW x, tab' = [tab EXCEPT ![b] = [TabIdle EXCEPT !.pc = pc, !.id = x]]
        PROVE  SubjectInv'
    <3>1. PICK t : t = [TabIdle EXCEPT !.pc = pc, !.id = x]
        OBVIOUS
    <3>2. t.pc = pc
        BY <1>3, <2>1, <3>1, Zenon
    <3>3. tab' = [tab EXCEPT ![b] = t]
        BY <2>5, <3>1, Zenon
    <3> QED
        BY <1>6, <2>1, <3>2, <3>3, Zenon
  <2> QED
      BY <1>7, <2>2, <2>3, <2>4, <2>5, Zenon
<1>8. ASSUME NEW answer \in {"pending", "done", "error", "not_found"}, Told(b, answer)
      PROVE  SubjectInv'
    BY <1>1, <1>4, <1>6, <1>8, Zenon DEF Told
<1>9. {"callback", "loaded", "create", "polling", "link", "linked?", "outcome?", "length",
       "text", "doneAt"} \subseteq TabPCs \ {"save"}
    BY DEF TabPCs
<1>10. CASE \E a \in AuthIDs : LoadPage(b, a)
  <2>1. PICK a : LoadPage(b, a)
      BY <1>10
  <2>2. CASE tab' = [tab EXCEPT ![b] = TabIdle]
      BY <1>1, <1>6, <2>2, Zenon
  <2>3. ASSUME NEW pc \in {"callback", "loaded"},
               tab' = [tab EXCEPT ![b] = [TabIdle EXCEPT !.pc = pc, !.id = a]]
        PROVE  SubjectInv'
      BY <1>7, <1>9, <2>3, Zenon
  <2> QED
      BY <2>1, <2>2, <2>3, Zenon DEF LoadPage
<1>11. CASE LoadStep(b)
  <2>1. CASE FindPageSession(b)
    <3>1. Goto(b, "create") \/ Goto(b, "polling")
        BY <2>1, Zenon DEF FindPageSession
    <3> QED
        BY <1>7, <1>9, <3>1, Zenon
  <2>2. ASSUME NEW s \in Sessions, StartVerification(b, s) PROVE SubjectInv'
    <3>1. tab' = [tab EXCEPT ![b] = [[tab[b] EXCEPT !.pc = "link"] EXCEPT !.session = s]]
        BY <2>2, Zenon DEF StartVerification
    <3> QED
        BY <1>7, <1>9, <3>1, Zenon
  <2>3. CASE StartVerificationFails(b)
      BY <1>1, <1>6, <2>3, Zenon DEF StartVerificationFails
  <2>4. CASE LinkSession(b)
    <3>1. tab' = [tab EXCEPT ![b] = [[tab[b] EXCEPT !.pc = "polling"] EXCEPT !.session = ""]]
        BY <2>4, Zenon DEF LinkSession
    <3> QED
        BY <1>7, <1>9, <3>1, Zenon
  <2> QED
      BY <1>11, <2>1, <2>2, <2>3, <2>4, Zenon DEF LoadStep
<1>12. CASE PollStep(b)
  <2>1. CASE PollLookup(b)
    <3>1. Told(b, "not_found") \/ Told(b, "done") \/ Goto(b, "linked?")
        BY <2>1, Zenon DEF PollLookup
    <3> QED
        BY <1>7, <1>8, <1>9, <3>1, Zenon
  <2>2. CASE PollSession(b)
    <3>1. PICK s : s = SessionFor(tab[b].id)
        OBVIOUS
    <3>2. \/ Told(b, "pending")
          \/ tab' = [tab EXCEPT ![b] = [[tab[b] EXCEPT !.pc = "outcome?"] EXCEPT !.session = s]]
        BY <2>2, <3>1, Zenon DEF PollSession
    <3> QED
        BY <1>7, <1>8, <1>9, <3>2, Zenon
  <2>3. CASE PollOutcome(b)
    <3>1. PICK o : o = outcome[tab[b].session]
        OBVIOUS
    <3>2. \/ Told(b, "pending") \/ Told(b, "error")
          \/ tab' = [tab EXCEPT ![b] = [[tab[b] EXCEPT !.pc = "length"] EXCEPT !.subject = o]]
        BY <2>3, <3>1, Zenon DEF PollOutcome
    <3> QED
        BY <1>7, <1>8, <1>9, <3>2, Zenon
  <2>4. CASE SetSubjectLength(b) \/ SetSubjectText(b) \/ SetDoneAt(b)
    <3>1. Goto(b, "text") \/ Goto(b, "doneAt") \/ Told(b, "done")
        BY <2>4, Zenon DEF SetSubjectLength, SetSubjectText, SetDoneAt
    <3> QED
        BY <1>7, <1>8, <1>9, <3>1, Zenon
  <2> QED
      BY <1>12, <2>1, <2>2, <2>3, <2>4, Zenon DEF PollStep
<1>13. CASE PollLost(b)
    BY <1>1, <1>6, <1>13, Zenon DEF PollLost
<1> QED
    BY <1>10, <1>11, <1>12, <1>13

\* The callback goes on to SaveAuthCode only when the AuthRequest is done, and
\* the code it saves is for that AuthRequest.
LEMMA CallbackSubjectInv ==
  ASSUME LoginInv, SubjectInv, NEW b \in Tabs,
         AuthorizeCallback(b) \/ \E code \in Codes : SaveAuthCode(b, code)
  PROVE  SubjectInv'
<1>1. UNCHANGED <<authReq, call, tokens>> /\ DoneKept
    BY DoneStays, Zenon DEF AuthorizeCallback, SaveAuthCode
<1>2. TabIdle.pc # "save"
    BY TabFacts
<1>3. CASE AuthorizeCallback(b)
  <2>1. CASE tab' = [tab EXCEPT ![b] = TabIdle]
      BY <1>1, <1>2, <1>3, <2>1, TabSubjectInv, Zenon DEF AuthorizeCallback
  <2>2. CASE Done(tab[b].id) /\ tab' = [tab EXCEPT ![b] = [tab[b] EXCEPT !.pc = "save"]]
    <3>1. tab[b] \in TabType /\ tab \in [Tabs -> TabType]
        BY TabFacts
    <3>2. [tab[b] EXCEPT !.pc = "save"].id = tab[b].id
        BY <3>1 DEF TabType
    <3>3. tab'[b].id = tab[b].id /\ \A o \in Tabs : o # b => tab'[o] = tab[o]
        BY <2>2, <3>1, <3>2, Zenon
    <3>4. TabsDone'
        BY <1>1, <2>2, <3>3, Zenon DEF SubjectInv, TabsDone, Done
    <3>5. CodesDone' /\ CallsDone' /\ TokensNamed'
        BY <1>1, <1>3, SubjectKept, Zenon DEF AuthorizeCallback
    <3> QED
        BY <3>4, <3>5 DEF SubjectInv
  <2> QED
      BY <1>3, <2>1, <2>2, Zenon DEF AuthorizeCallback
<1>4. ASSUME NEW code \in Codes, SaveAuthCode(b, code)
      PROVE  SubjectInv'
  <2>0. [id |-> tab[b].id, age |-> 0].id = tab[b].id
      BY Zenon
  <2>1. PICK e : e = [id |-> tab[b].id, age |-> 0] /\ e.id = tab[b].id
      BY <2>0, Zenon
  <2>2. /\ authCodes' = Put(authCodes, code, e)
        /\ tab[b].pc = "save" /\ tab' = [tab EXCEPT ![b] = TabIdle]
      BY <1>4, <2>1, Zenon DEF SaveAuthCode
  <2>3. /\ DOMAIN authCodes' = DOMAIN authCodes \cup {code}
        /\ authCodes'[code] = e
        /\ \A x \in DOMAIN authCodes : x # code => authCodes'[x] = authCodes[x]
      BY <2>2, Zenon DEF Put
  <2>4. Done(tab[b].id)
      BY <2>2, Zenon DEF SubjectInv, TabsDone
  <2>5. CodesDone'
      BY <1>1, <2>1, <2>3, <2>4, Zenon DEF SubjectInv, CodesDone, Done
  <2>6. \A o \in Tabs : tab'[o].pc = "save" => tab[o].pc = "save" /\ tab'[o].id = tab[o].id
      BY <1>2, <2>2, TabFacts, Zenon
  <2>7. TabsDone' /\ CallsDone' /\ TokensNamed'
      BY <1>1, <2>6, SubjectKept, Zenon
  <2> QED
      BY <2>5, <2>7 DEF SubjectInv
<1> QED
    BY <1>3, <1>4

\* A token request takes its AuthRequest from the code, and issues an ID Token
\* only if the AuthRequest has a subject.
LEMMA TokenSubjectInv ==
  ASSUME LoginInv, SubjectInv, NEW c \in TokenCalls,
         \/ \E code \in Codes, client \in Clients, verifier \in Verifiers :
              ConsumeAuthCode(c, code, client, verifier)
         \/ AuthRequestByCode(c) \/ ReadTornSubject(c) \/ CreateTokenResponse(c)
  PROVE  SubjectInv'
<1>1. UNCHANGED <<authReq, tab>> /\ DoneKept
    BY DoneStays, Zenon DEF ConsumeAuthCode, AuthRequestByCode, ReadTornSubject,
         CreateTokenResponse, loginStore
<1>2. TabsDone'
    BY <1>1, SubjectKept, Zenon
<1>3. call \in [TokenCalls -> CallType] /\ CallIdle.pc = "idle"
    BY CallFacts, Zenon
<1>4. ASSUME NEW code \in Codes, NEW client \in Clients, NEW verifier \in Verifiers,
             ConsumeAuthCode(c, code, client, verifier)
      PROVE  SubjectInv'
  <2>1. authCodes' = Delete(authCodes, code) /\ tokens' = tokens
      BY <1>4, Zenon DEF ConsumeAuthCode, ConsumedCodes
  <2>2. CodesDone' /\ TokensNamed'
    <3>1. /\ DOMAIN authCodes' = DOMAIN authCodes \ {code}
          /\ \A x \in DOMAIN authCodes : x # code => authCodes'[x] = authCodes[x]
        BY <2>1, DeleteFacts, Zenon
    <3> QED
        BY <1>1, <2>1, <3>1, SubjectKept, Zenon
  <2>3. CASE call' = call
      BY <1>1, <1>2, <2>2, <2>3, SubjectKept, Zenon DEF SubjectInv
  <2>4. CASE /\ code \in DOMAIN authCodes
             /\ call' = [call EXCEPT ![c] = [pc |-> "lookup", id |-> authCodes[code].id,
                            code |-> code, client |-> client, verifier |-> verifier]]
    <3>1. call'[c].id = authCodes[code].id /\ \A d \in TokenCalls : d # c => call'[d] = call[d]
        BY <1>3, <2>4, Zenon
    <3>2. authReq[authCodes[code].id].done
        BY <2>4, Zenon DEF SubjectInv, CodesDone, Done
    <3>3. \A d \in TokenCalls : call[d].pc # "idle" => authReq[call[d].id].done
        BY Zenon DEF SubjectInv, CallsDone, Done
    <3>4. CallsDone'
        BY <1>1, <3>1, <3>2, <3>3, Zenon DEF CallsDone, Done
    <3> QED
        BY <1>2, <2>2, <3>4 DEF SubjectInv
  <2> QED
      BY <1>4, <2>3, <2>4, Zenon DEF ConsumeAuthCode
<1>5. ASSUME authCodes' = authCodes, NEW r, call' = [call EXCEPT ![c] = r],
             r.pc # "idle" => call[c].pc # "idle" /\ r.id = call[c].id
      PROVE  CodesDone' /\ CallsDone'
  <2>1. \A d \in TokenCalls : call'[d].pc # "idle" =>
          call[d].pc # "idle" /\ call'[d].id = call[d].id
      BY <1>3, <1>5, Zenon
  <2> QED
      BY <1>1, <1>5, <2>1, SubjectKept, Zenon
<1>6. CASE AuthRequestByCode(c)
  <2>1. [call[c] EXCEPT !.pc = "issue"].id = call[c].id
      BY <1>3 DEF CallType
  <2>2. CodesDone' /\ CallsDone'
      BY <1>3, <1>5, <1>6, <2>1 DEF AuthRequestByCode
  <2>3. TokensNamed'
      BY <1>1, <1>6, SubjectKept, Zenon DEF AuthRequestByCode
  <2> QED
      BY <1>2, <2>2, <2>3 DEF SubjectInv
<1>7. CASE ReadTornSubject(c)
  <2>1. CodesDone' /\ CallsDone'
      BY <1>3, <1>5, <1>7, Zenon DEF ReadTornSubject, loginStore
  <2>2. TokensNamed'
      BY <1>1, <1>7, SubjectKept, Zenon DEF ReadTornSubject
  <2> QED
      BY <1>2, <2>1, <2>2 DEF SubjectInv
<1>8. CASE CreateTokenResponse(c)
  <2>1. CodesDone' /\ CallsDone'
      BY <1>3, <1>5, <1>8, Zenon DEF CreateTokenResponse
  <2>2. Done(call[c].id) /\ ~ Torn(call[c].id)
      BY <1>8 DEF CreateTokenResponse, SubjectInv, CallsDone
  <2>3. authReq[call[c].id].subject # ""
      BY <2>2, Zenon DEF Torn
  <2>4. PICK k : tokens' = tokens \cup {k} /\ k.subject = authReq[call[c].id].subject
    <3>1. PICK a, n, k :
            /\ a = call[c].id /\ n = Cardinality(tokens)
            /\ k = [serial |-> n, id |-> a, code |-> call[c].code,
                    client |-> call[c].client, verifier |-> call[c].verifier,
                    subject |-> authReq[a].subject, authTime |-> authReq[a].doneAt]
        OBVIOUS
    <3>2. k.subject = authReq[a].subject
        BY <3>1, Zenon
    <3>3. tokens' = tokens \cup {k}
        BY <1>8, <3>1, Zenon DEF CreateTokenResponse
    <3> QED
        BY <3>1, <3>2, <3>3, Zenon
  <2>5. TokensNamed'
      BY <2>3, <2>4, Zenon DEF SubjectInv, TokensNamed
  <2> QED
      BY <1>2, <2>1, <2>5 DEF SubjectInv
<1> QED
    BY <1>4, <1>6, <1>7, <1>8

\* What the others do: a new AuthRequest, the Verifier, time, a restart.
LEMMA OtherSubjectInv ==
  ASSUME LoginInv, SubjectInv,
         \/ \E a \in AuthIDs, in \in AuthInputs : CreateAuthRequest(a, in)
         \/ VerifierStep \/ LoginTick \/ LoginRestart \/ UNCHANGED loginVars
  PROVE  SubjectInv'
<1>1. tokens' = tokens
    BY Zenon DEF CreateAuthRequest, VerifierStep, LoginTick, LoginRestart, loginVars
<1>2. DoneKept
  <2>1. ASSUME NEW a \in AuthIDs, NEW in \in AuthInputs, CreateAuthRequest(a, in)
        PROVE  DoneKept
    <3>1. authReq = [x \in AuthIDs |-> authReq[x]]
        BY LoginTypes, Zenon DEF LoginInv
    <3> QED
        BY <2>1, <3>1, Zenon DEF CreateAuthRequest, DoneKept, Done, Created
  <2>2. CASE authReq' = authReq
      BY <2>2, DoneStays, Zenon
  <2> QED
      BY <2>1, <2>2, Zenon DEF VerifierStep, LoginTick, LoginRestart, loginVars, loginStore
<1>3. CASE UNCHANGED <<authCodes, tab, call>>
    BY <1>1, <1>2, <1>3, SubjectKept, Zenon DEF SubjectInv
<1>4. CASE LoginTick
  <2>1. CodesTyped
      BY LoginTypes, Zenon DEF LoginInv
  <2>2. \A d \in DOMAIN authCodes :
          [authCodes[d] EXCEPT !.age = AtMost(@ + 1, CodeOld)].id = authCodes[d].id
      BY <2>1 DEF CodesTyped, IsMap
  <2>3. \A d \in DOMAIN authCodes' : d \in DOMAIN authCodes
                                    /\ authCodes'[d].id = authCodes[d].id
      BY <1>4, <2>2, Zenon DEF LoginTick
  <2> QED
      BY <1>1, <1>2, <1>4, <2>3, SubjectKept, Zenon DEF LoginTick, SubjectInv
<1>5. CASE LoginRestart
  <2>1. DOMAIN authCodes' = {}
      BY <1>5, EmptyFacts, Zenon DEF LoginRestart
  <2>2. \A c \in TokenCalls : call'[c].pc = "idle"
      BY <1>5, Zenon DEF LoginRestart, CallIdle
  <2>3. \A b \in Tabs : tab'[b].pc = "save" => tab[b].pc = "save" /\ tab'[b].id = tab[b].id
    <3>1. ASSUME NEW b \in Tabs
          PROVE  tab'[b] = tab[b] \/ tab'[b] = Cut \/ tab'[b] = TabIdle
        BY <1>5, Zenon DEF LoginRestart
    <3>2. ASSUME NEW b \in Tabs PROVE Cut.pc # "save" /\ TabIdle.pc # "save"
        BY CutFacts, TabFacts
    <3> QED
        BY <3>1, <3>2, Zenon
  <2> QED
      BY <1>1, <1>2, <2>1, <2>2, <2>3, SubjectKept, Zenon DEF SubjectInv
<1> QED
    BY <1>3, <1>4, <1>5, Zenon DEF CreateAuthRequest, VerifierStep, loginVars, loginStore

\* Every ID Token has a subject, and every code in use an AuthRequest that is
\* done, however a poll's writes and a token request's reads overlap.
THEOREM SubjectInvariant == LoginSpec => []SubjectInv
<1>1. LoginInit => SubjectInv
  <2> SUFFICES ASSUME LoginInit PROVE SubjectInv
      OBVIOUS
  <2>1. DOMAIN authCodes = {}
      BY EmptyFacts, Zenon DEF LoginInit
  <2>2. /\ \A b \in Tabs : tab[b].pc = "idle"
        /\ \A c \in TokenCalls : call[c].pc = "idle"
        /\ tokens = {}
      BY Zenon DEF LoginInit, TabIdle, CallIdle
  <2> QED
      BY <2>1, <2>2 DEF SubjectInv, CodesDone, TabsDone, CallsDone, TokensNamed
<1>2. LoginInv /\ SubjectInv /\ [LoginNext]_loginVars => SubjectInv'
  <2> SUFFICES ASSUME LoginInv, SubjectInv, [LoginNext]_loginVars PROVE SubjectInv'
      OBVIOUS
  <2> QED
      BY PageSubjectInv, CallbackSubjectInv, TokenSubjectInv, OtherSubjectInv, Zenon
         DEF LoginNext
<1> QED
    BY <1>1, <1>2, LoginInvariant, PTL DEF LoginSpec

\* CreateTokenResponse gives an ID Token to the client and against the verifier
\* of the AuthRequest, for a subject who presented in a session started for
\* it, however tabs, polls and token requests overlap, and in spite of the
\* unsynchronised writes of the subject.
THEOREM LoginBackedHolds == LoginSpec => []LoginBacked
<1>1. LoginInv /\ SubjectInv => LoginBacked
    BY Zenon DEF LoginInv, SubjectInv, TokensNamed, TokensHeld, TokenHeld, LoginBacked,
         Presented
<1> QED
    BY <1>1, LoginInvariant, SubjectInvariant, PTL

\* consumeAuthCode lets a code through once: however many token requests
\* present it, one ID Token comes of it.
THEOREM CodeRedeemedOnceHolds == LoginSpec => []CodeRedeemedOnce
<1>1. LoginInv => CodeRedeemedOnce
    BY DEF LoginInv, CodesExclusive
<1> QED
    BY <1>1, LoginInvariant, PTL

=============================================================================
