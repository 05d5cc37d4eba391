---------------------------- MODULE RefreshTokens ----------------------------
(***************************************************************************)
(* The login bridge's refresh tokens: issued with the first tokens of a    *)
(* login that asked for offline_access, rotated by each refresh_token      *)
(* grant, revoked.  op looks a token up and has Storage rotate it in       *)
(* separate uses of the store's mutex, so requests interleave in between.  *)
(***************************************************************************)
EXTENDS GoMaps, Naturals, FiniteSets

CONSTANTS
  RefreshCalls,    \* refresh_token and revocation requests at the same time
  RefreshNames,    \* refresh tokens
  Logins,          \* logins that asked for offline_access
  RPs,             \* registered clients
  RefreshSubjects,
  RefreshTTL       \* refreshTokenTTL

ASSUME RefreshTimeAssumption == RefreshTTL \in Nat

ASSUME RefreshNamesAssumption == "" \notin RefreshNames \cup RPs \cup RefreshSubjects

VARIABLES
  refreshTokens,   \* token -> refreshTokenEntry; age since it was put
  rcall,           \* request -> what it is doing
  \* History variables, read by no action but for fresh tokens.
  login,           \* login -> subject and client
  lineage,         \* token -> the login it goes back to
  exchanges,       \* refresh grants completed
  revoked          \* tokens whose revocation was answered

refreshVars == <<refreshTokens, rcall, login, lineage, exchanges, revoked>>

-----------------------------------------------------------------------------
RefreshOld == RefreshTTL + 1

RefreshIdle == [pc |-> "idle", token |-> "", subject |-> "", client |-> ""]

\* Every reachable state is well typed, and every token stored has a lineage.
RefreshTypeOK ==
  /\ IsMap(refreshTokens, RefreshNames,
           [subject : RefreshSubjects, client : RPs, age : 0 .. RefreshOld])
  /\ rcall \in [RefreshCalls ->
       [pc : {"idle", "delete", "put", "revoke"}, token : RefreshNames \cup {""},
        subject : RefreshSubjects \cup {""}, client : RPs \cup {""}]]
  /\ DOMAIN refreshTokens \subseteq DOMAIN lineage
  /\ IsMap(lineage, RefreshNames, DOMAIN login)
  /\ DOMAIN login \subseteq Logins
  /\ revoked \subseteq RefreshNames

RefreshInit ==
  /\ refreshTokens = EmptyMap
  /\ rcall = [c \in RefreshCalls |-> RefreshIdle]
  /\ login = EmptyMap
  /\ lineage = EmptyMap
  /\ exchanges = {}
  /\ revoked = {}

-----------------------------------------------------------------------------
\* getRefreshToken: the answer, and what it deletes
HaveRefreshToken(k) == k \in DOMAIN refreshTokens /\ refreshTokens[k].age <= RefreshTTL

ExpireRefreshToken(k) ==
  refreshTokens' = IF HaveRefreshToken(k) THEN refreshTokens ELSE Delete(refreshTokens, k)

\* putRefreshToken, with clientIDFromTokenRequest
PutRefreshToken(k, subject, client) ==
  refreshTokens' = Put(refreshTokens, k, [subject |-> subject, age |-> 0,
                                          client |-> client])

Fresh(k) == k \notin DOMAIN lineage

\* CreateAccessAndRefreshTokens for the authorization_code grant
Grant(l, k, subject, client) ==
  /\ l \notin DOMAIN login
  /\ Fresh(k)
  /\ PutRefreshToken(k, subject, client)
  /\ login' = Put(login, l, [subject |-> subject, client |-> client])
  /\ lineage' = Put(lineage, k, l)
  /\ UNCHANGED <<rcall, exchanges, revoked>>

-----------------------------------------------------------------------------
\* The refresh_token grant: TokenRequestByRefreshToken, op's comparison of
\* the client, then CreateAccessAndRefreshTokens.
RefreshRequest(k, client) ==
  [pc |-> "delete", token |-> k, subject |-> refreshTokens[k].subject,
   client |-> client]

\* Mutant: any client may use any refresh token.
TokenRequestAnyClient(c, k, client) ==
  /\ rcall[c].pc = "idle"
  /\ k \in DOMAIN lineage
  /\ ExpireRefreshToken(k)
  /\ rcall' = IF HaveRefreshToken(k) THEN [rcall EXCEPT ![c] = RefreshRequest(k, client)]
                                     ELSE rcall
  /\ UNCHANGED <<login, lineage, exchanges, revoked>>

TokenRequestByRefreshToken(c, k, client) ==
  /\ rcall[c].pc = "idle"
  /\ k \in DOMAIN lineage
  /\ ExpireRefreshToken(k)
  /\ rcall' = IF HaveRefreshToken(k) /\ refreshTokens[k].client = client
                THEN [rcall EXCEPT ![c] = RefreshRequest(k, client)] ELSE rcall
  /\ UNCHANGED <<login, lineage, exchanges, revoked>>

\* Mutant: the token exchanged is left in the store.
KeepCurrent(c) ==
  /\ rcall[c].pc = "delete"
  /\ rcall' = [rcall EXCEPT ![c].pc = "put"]
  /\ UNCHANGED <<refreshTokens, login, lineage, exchanges, revoked>>

DeleteCurrent(c) ==
  /\ rcall[c].pc = "delete"
  /\ refreshTokens' = Delete(refreshTokens, rcall[c].token)
  /\ rcall' = [rcall EXCEPT ![c].pc = "put"]
  /\ UNCHANGED <<login, lineage, exchanges, revoked>>

PutFresh(c, k) ==
  LET r == rcall[c]
      l == lineage[r.token]
  IN
  /\ r.pc = "put"
  /\ Fresh(k)
  /\ PutRefreshToken(k, r.subject, r.client)
  /\ lineage' = Put(lineage, k, l)
  /\ exchanges' = exchanges \cup
       {[from |-> r.token, to |-> k, subject |-> r.subject, client |-> r.client]}
  /\ rcall' = [rcall EXCEPT ![c] = RefreshIdle]
  /\ UNCHANGED <<login, revoked>>

-----------------------------------------------------------------------------
\* op's revocation endpoint: GetRefreshTokenInfo, then RevokeToken.  What op
\* does when the token is not this client's is left open.
GetRefreshTokenInfo(c, k, client) ==
  /\ rcall[c].pc = "idle"
  /\ k \in DOMAIN lineage
  /\ ExpireRefreshToken(k)
  /\ \/ rcall' = [rcall EXCEPT ![c] = [RefreshIdle EXCEPT !.pc = "revoke", !.token = k]]
     \/ /\ ~ (HaveRefreshToken(k) /\ refreshTokens[k].client = client)
        /\ UNCHANGED rcall
  /\ UNCHANGED <<login, lineage, exchanges, revoked>>

RevokeToken(c) ==
  /\ rcall[c].pc = "revoke"
  /\ refreshTokens' = Delete(refreshTokens, rcall[c].token)
  /\ revoked' = revoked \cup {rcall[c].token}
  /\ rcall' = [rcall EXCEPT ![c] = RefreshIdle]
  /\ UNCHANGED <<login, lineage, exchanges>>

RefreshTick ==
  /\ refreshTokens' = [k \in DOMAIN refreshTokens |->
       [refreshTokens[k] EXCEPT !.age = IF @ < RefreshOld THEN @ + 1 ELSE @]]
  /\ UNCHANGED <<rcall, login, lineage, exchanges, revoked>>

RefreshRestart ==
  /\ refreshTokens' = EmptyMap
  /\ rcall' = [c \in RefreshCalls |-> RefreshIdle]
  /\ UNCHANGED <<login, lineage, exchanges, revoked>>

RefreshNext ==
  \/ \E l \in Logins, k \in RefreshNames, s \in RefreshSubjects, r \in RPs : Grant(l, k, s, r)
  \/ \E c \in RefreshCalls, k \in RefreshNames, r \in RPs : TokenRequestByRefreshToken(c, k, r)
  \/ \E c \in RefreshCalls : DeleteCurrent(c)
  \/ \E c \in RefreshCalls, k \in RefreshNames : PutFresh(c, k)
  \/ \E c \in RefreshCalls, k \in RefreshNames, r \in RPs : GetRefreshTokenInfo(c, k, r)
  \/ \E c \in RefreshCalls : RevokeToken(c)
  \/ RefreshTick
  \/ RefreshRestart

RefreshSpec == RefreshInit /\ [][RefreshNext]_refreshVars

-----------------------------------------------------------------------------
\* However often a token is rotated, and however requests overlap, every token
\* and every refresh grant is for the subject and the client of the login its
\* lineage goes back to.
LineageKept ==
  /\ \A k \in DOMAIN refreshTokens :
       /\ refreshTokens[k].subject = login[lineage[k]].subject
       /\ refreshTokens[k].client = login[lineage[k]].client
  /\ \A x \in exchanges :
       /\ lineage[x.to] = lineage[x.from]
       /\ x.subject = login[lineage[x.from]].subject
       /\ x.client = login[lineage[x.from]].client

\* A token that was exchanged or revoked is gone for good.
RetiredStaysGone ==
  ({x.from : x \in exchanges} \cup revoked) \cap DOMAIN refreshTokens = {}

=============================================================================
