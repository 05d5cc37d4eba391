----------------------------- MODULE LoginBridge -----------------------------
(***************************************************************************)
(* The OpenID Connect login bridge, internal/oidcserver: a Relying Party's *)
(* AuthRequest, the login page and its polls, which complete it once the   *)
(* Verifier has a verified presentation, and the authorization code that   *)
(* the zitadel/oidc library (op) exchanges for tokens.                     *)
(*                                                                         *)
(* The Verifier is VerificationOutcome, which VerifierSessions implements. *)
(* A browser tab loads the page, polls, and follows the redirect; tabs and *)
(* token requests interleave at every use of the store's mutex.  An        *)
(* authRequest is reached through a pointer and its subject and doneAt are *)
(* written outside the mutex: first the length of the subject, which is    *)
(* all Done() looks at, then its text, then doneAt.  Time is kept as ages. *)
(***************************************************************************)
EXTENDS VerificationOutcome, GoMaps, Naturals, FiniteSets

CONSTANTS
  Tabs,         \* browser tabs
  TokenCalls,   \* requests to the token endpoint at the same time
  AuthIDs,      \* AuthRequest ids
  Codes,        \* authorization codes
  Clients,      \* registered Relying Parties
  AuthInputs,   \* authorization requests, as CreateAuthRequest gets them
  Verifiers,    \* code_verifiers; the challenge of one is the verifier itself
  AuthTTL,      \* authRequestTTL, and verificationSessionTTL
  CodeTTL       \* authCodeTTL

ASSUME LoginTimeAssumption == AuthTTL \in Nat /\ CodeTTL \in Nat

ASSUME AuthInputsAssumption ==
  AuthInputs \subseteq [client : Clients, challenge : Verifiers \cup {""},
                        method : {"", "plain", "S256", "other"}, credential : BOOLEAN]

ASSUME NoEmptyName == "" \notin AuthIDs \cup Sessions \cup Codes \cup Subjects

ASSUME OutcomeNames == None \notin Subjects /\ Failed \notin Subjects

VARIABLES
  authRequests,   \* id -> its entry: age and linked session
  authReq,        \* id -> the authRequest, or <<>> before it is created
  authCodes,      \* code -> its AuthRequest and age
  tab,            \* tab -> what it is doing
  call,           \* token request -> what it is doing
  \* History variables, read by no action but for fresh codes.
  minted,         \* id -> verification sessions started for it
  issuedCodes,    \* every code ever saved
  tokens          \* ID Tokens issued

loginStore == <<authRequests, authReq, authCodes>>
loginVars == <<outcomeVars, loginStore, tab, call, minted, issuedCodes, tokens>>

-----------------------------------------------------------------------------
AuthOld == AuthTTL + 1
CodeOld == CodeTTL + 1

AtMost(n, bound) == IF n < bound THEN n ELSE bound

TabIdle == [pc |-> "idle", id |-> "", session |-> "", subject |-> "", told |-> ""]
CallIdle == [pc |-> "idle", id |-> "", code |-> "", client |-> "", verifier |-> ""]

TabPCs == {"idle", "loaded", "create", "link", "polling", "linked?", "outcome?",
           "length", "text", "doneAt", "callback", "save"}

\* Every reachable state is well typed; whatever is linked was minted for the
\* AuthRequest it is linked to.
LoginTypeOK ==
  /\ IsMap(authRequests, AuthIDs, [age : 0 .. AuthOld, session : Sessions \cup {""}])
  /\ \A a \in DOMAIN authRequests :
       authRequests[a].session \in minted[a] \cup {""} /\ authReq[a] # <<>>
  /\ \A a \in AuthIDs : authReq[a] # <<>> =>
       authReq[a] \in [input : AuthInputs, done : BOOLEAN,
                       subject : Subjects \cup {""}, doneAt : BOOLEAN]
  /\ IsMap(authCodes, Codes, [id : AuthIDs, age : 0 .. CodeOld])
  /\ DOMAIN authCodes \subseteq issuedCodes
  /\ tab \in [Tabs -> [pc : TabPCs, id : AuthIDs \cup {""}, session : Sessions \cup {""},
                       subject : Subjects \cup {""},
                       told : {"", "pending", "done", "error", "not_found", "cut"}]]
  /\ call \in [TokenCalls -> [pc : {"idle", "lookup", "issue"}, id : AuthIDs \cup {""},
                              code : Codes \cup {""}, client : Clients \cup {""},
                              verifier : Verifiers \cup {""}]]

LoginInit ==
  /\ OutcomeInit
  /\ authRequests = EmptyMap
  /\ authReq = [a \in AuthIDs |-> <<>>]
  /\ authCodes = EmptyMap
  /\ tab = [b \in Tabs |-> TabIdle]
  /\ call = [c \in TokenCalls |-> CallIdle]
  /\ minted = [a \in AuthIDs |-> {}]
  /\ issuedCodes = {}
  /\ tokens = {}

-----------------------------------------------------------------------------
\* The store

\* Mutant: an AuthRequest is good for as long as it is not redeemed.
HaveAuthRequestForever(a) == a \in DOMAIN authRequests

\* getAuthRequest: the answer
HaveAuthRequest(a) == a \in DOMAIN authRequests /\ authRequests[a].age <= AuthTTL

\* getAuthRequest: what it deletes
ExpireAuthRequest(a) ==
  authRequests' = IF HaveAuthRequest(a) THEN authRequests ELSE Delete(authRequests, a)

Done(a) == authReq[a].done

\* Mutant: sessions are looked up without the AuthRequest they are linked to.
SessionForAny(a) ==
  LET linked == {authRequests[i].session : i \in DOMAIN authRequests} \ {""} IN
  IF linked = {} THEN "" ELSE CHOOSE s \in linked : TRUE

\* getVerificationSession, verificationSessionFor; "" for none
SessionFor(a) == IF a \in DOMAIN authRequests THEN authRequests[a].session ELSE ""

\* linkVerificationSession
LinkVerificationSession(a, s) ==
  authRequests' = IF a \in DOMAIN authRequests
                    THEN [authRequests EXCEPT ![a].session = s] ELSE authRequests

-----------------------------------------------------------------------------
\* op's authorization endpoint calls CreateAuthRequest and sends the browser
\* to LoginURL.
CreateAuthRequest(a, in) ==
  /\ authReq[a] = <<>>
  /\ in.challenge # "" /\ in.method = "S256"
  /\ authReq' = [authReq EXCEPT ![a] = [input |-> in, done |-> FALSE, subject |-> "",
                                        doneAt |-> FALSE]]
  /\ authRequests' = Put(authRequests, a, [age |-> 0, session |-> ""])
  /\ UNCHANGED <<outcomeVars, authCodes, tab, call, minted, issuedCodes, tokens>>

-----------------------------------------------------------------------------
\* The login page.  A tab is idle before it loads the page, and when it shows
\* an error page or has left for the Relying Party.

Goto(b, pc) == tab' = [tab EXCEPT ![b].pc = pc]

\* ServeHTTP up to its second use of the store
LoadPage(b, a) ==
  /\ tab[b].pc = "idle"
  /\ authReq[a] # <<>>
  /\ ExpireAuthRequest(a)
  /\ tab' = [tab EXCEPT ![b] =
       IF ~ HaveAuthRequest(a) THEN TabIdle
       ELSE IF Done(a) THEN [TabIdle EXCEPT !.pc = "callback", !.id = a]
       ELSE IF authReq[a].input.credential THEN [TabIdle EXCEPT !.pc = "loaded", !.id = a]
       ELSE TabIdle]
  /\ UNCHANGED <<outcomeVars, authReq, authCodes, call, minted, issuedCodes, tokens>>

FindPageSession(b) ==
  /\ tab[b].pc = "loaded"
  /\ Goto(b, IF SessionFor(tab[b].id) = "" THEN "create" ELSE "polling")
  /\ UNCHANGED <<outcomeVars, loginStore, call, minted, issuedCodes, tokens>>

\* The Verifier's CreateSession, or its failure: signing needs a remote call.
StartVerification(b, s) ==
  /\ tab[b].pc = "create"
  /\ Open(s)
  /\ tab' = [tab EXCEPT ![b].pc = "link", ![b].session = s]
  /\ minted' = [minted EXCEPT ![tab[b].id] = @ \cup {s}]
  /\ UNCHANGED <<loginStore, call, issuedCodes, tokens>>

StartVerificationFails(b) ==
  /\ tab[b].pc = "create"
  /\ tab' = [tab EXCEPT ![b] = TabIdle]
  /\ UNCHANGED <<outcomeVars, loginStore, call, minted, issuedCodes, tokens>>

LinkSession(b) ==
  /\ tab[b].pc = "link"
  /\ LinkVerificationSession(tab[b].id, tab[b].session)
  /\ tab' = [tab EXCEPT ![b].pc = "polling", ![b].session = ""]
  /\ UNCHANGED <<outcomeVars, authReq, authCodes, call, minted, issuedCodes, tokens>>

-----------------------------------------------------------------------------
\* PollHandler, called by the page's script again and again until it is told
\* done, which takes the tab to the callback, or error, which ends it.  After
\* anything else, not_found too, the script polls again.

\* A fetch that failed, or an answer that did not parse: the script has no
\* catch, so nothing polls any more, and the page stays as it is.
Cut == [TabIdle EXCEPT !.told = "cut"]

Heard(b, answer) ==
  [TabIdle EXCEPT !.id = tab[b].id, !.told = answer,
     !.pc = IF answer = "done" THEN "callback"
            ELSE IF answer = "error" THEN "idle" ELSE "polling"]

\* The handler's answer, which may be lost on its way to the page
Told(b, answer) ==
  \/ tab' = [tab EXCEPT ![b] = Heard(b, answer)]
  \/ tab' = [tab EXCEPT ![b] = Cut]

\* A poll that never reaches the handler
PollLost(b) ==
  /\ tab[b].pc = "polling"
  /\ tab' = [tab EXCEPT ![b] = Cut]
  /\ UNCHANGED <<outcomeVars, loginStore, call, minted, issuedCodes, tokens>>

PollLookup(b) ==
  LET a == tab[b].id IN
  /\ tab[b].pc = "polling"
  /\ ExpireAuthRequest(a)
  /\ IF ~ HaveAuthRequest(a) THEN Told(b, "not_found")
     ELSE IF Done(a) THEN Told(b, "done") ELSE Goto(b, "linked?")
  /\ UNCHANGED <<outcomeVars, authReq, authCodes, call, minted, issuedCodes, tokens>>

PollSession(b) ==
  LET s == SessionFor(tab[b].id) IN
  /\ tab[b].pc = "linked?"
  /\ IF s = "" THEN Told(b, "pending")
               ELSE tab' = [tab EXCEPT ![b].pc = "outcome?", ![b].session = s]
  /\ UNCHANGED <<outcomeVars, loginStore, call, minted, issuedCodes, tokens>>

\* Mutant: any outcome completes the login.
PollOutcomeAny(b) ==
  LET o == outcome[tab[b].session] IN
  /\ tab[b].pc = "outcome?"
  /\ IF o = None THEN Told(b, "pending")
                 ELSE tab' = [tab EXCEPT ![b].pc = "length", ![b].subject = o]
  /\ UNCHANGED <<outcomeVars, loginStore, call, minted, issuedCodes, tokens>>

\* A session with an outcome may still be shown without it: a late
\* GetRequestObject sets its status back to request_sent.
PollOutcome(b) ==
  LET o == outcome[tab[b].session] IN
  /\ tab[b].pc = "outcome?"
  /\ \/ Told(b, "pending")
     \/ o = Failed /\ Told(b, "error")
     \/ /\ o \in Subjects
        /\ tab' = [tab EXCEPT ![b].pc = "length", ![b].subject = o]
  /\ UNCHANGED <<outcomeVars, loginStore, call, minted, issuedCodes, tokens>>

\* ar.subject = v.SubjectID; ar.doneAt = time.Now(), on the object the lookup
\* returned, in the map or not.
SetSubjectLength(b) ==
  /\ tab[b].pc = "length"
  /\ authReq' = [authReq EXCEPT ![tab[b].id].done = TRUE]
  /\ Goto(b, "text")
  /\ UNCHANGED <<outcomeVars, authRequests, authCodes, call, minted, issuedCodes, tokens>>

SetSubjectText(b) ==
  /\ tab[b].pc = "text"
  /\ authReq' = [authReq EXCEPT ![tab[b].id].subject = tab[b].subject]
  /\ Goto(b, "doneAt")
  /\ UNCHANGED <<outcomeVars, authRequests, authCodes, call, minted, issuedCodes, tokens>>

SetDoneAt(b) ==
  /\ tab[b].pc = "doneAt"
  /\ authReq' = [authReq EXCEPT ![tab[b].id].doneAt = TRUE]
  /\ Told(b, "done")
  /\ UNCHANGED <<outcomeVars, authRequests, authCodes, call, minted, issuedCodes, tokens>>

-----------------------------------------------------------------------------
\* op's callback endpoint: AuthRequestByID, Done, then SaveAuthCode with a
\* fresh code, and the browser takes the code to the Relying Party.
AuthorizeCallback(b) ==
  LET a == tab[b].id IN
  /\ tab[b].pc = "callback"
  /\ ExpireAuthRequest(a)
  /\ tab' = [tab EXCEPT ![b] =
       IF HaveAuthRequest(a) /\ Done(a) THEN [@ EXCEPT !.pc = "save"]
                                        ELSE TabIdle]
  /\ UNCHANGED <<outcomeVars, authReq, authCodes, call, minted, issuedCodes, tokens>>

SaveAuthCode(b, code) ==
  /\ tab[b].pc = "save"
  /\ code \notin issuedCodes
  /\ authCodes' = Put(authCodes, code, [id |-> tab[b].id, age |-> 0])
  /\ issuedCodes' = issuedCodes \cup {code}
  /\ tab' = [tab EXCEPT ![b] = TabIdle]
  /\ UNCHANGED <<outcomeVars, authRequests, authReq, call, minted, tokens>>

-----------------------------------------------------------------------------
\* op's token endpoint, authorization_code grant

\* Mutant: a code stays in the store.
ConsumedCodesKept(code) == authCodes

\* consumeAuthCode: what is left
ConsumedCodes(code) == Delete(authCodes, code)

\* AuthRequestByCode, first half
ConsumeAuthCode(c, code, client, verifier) ==
  /\ call[c].pc = "idle"
  /\ code \in issuedCodes
  /\ authCodes' = ConsumedCodes(code)
  /\ call' = IF code \in DOMAIN authCodes /\ authCodes[code].age <= CodeTTL
               THEN [call EXCEPT ![c] = [pc |-> "lookup", id |-> authCodes[code].id,
                       code |-> code, client |-> client, verifier |-> verifier]]
               ELSE call
  /\ UNCHANGED <<outcomeVars, authRequests, authReq, tab, minted, issuedCodes, tokens>>

\* op compares client and code_verifier with the AuthRequest.
MayRedeem(a, client, verifier) ==
  /\ authReq[a].input.client = client
  /\ authReq[a].input.challenge = verifier

\* AuthRequestByCode, second half, and op's checks
AuthRequestByCode(c) ==
  LET a == call[c].id IN
  /\ call[c].pc = "lookup"
  /\ ExpireAuthRequest(a)
  /\ call' = [call EXCEPT ![c] =
       IF HaveAuthRequest(a) /\ MayRedeem(a, call[c].client, call[c].verifier)
         THEN [@ EXCEPT !.pc = "issue"] ELSE CallIdle]
  /\ UNCHANGED <<outcomeVars, authReq, authCodes, tab, minted, issuedCodes, tokens>>

\* Length written, text not yet: a string of some bytes at no address
Torn(a) == Done(a) /\ authReq[a].subject = ""

\* To read such a subject is a fault: the handler panics, its code is gone,
\* and net/http closes the connection.
ReadTornSubject(c) ==
  /\ call[c].pc = "issue"
  /\ Torn(call[c].id)
  /\ call' = [call EXCEPT ![c] = CallIdle]
  /\ UNCHANGED <<outcomeVars, loginStore, tab, minted, issuedCodes, tokens>>

\* CreateTokenResponse: an ID Token of the subject and doneAt as they are now;
\* then DeleteAuthRequest.
CreateTokenResponse(c) ==
  LET a == call[c].id IN
  /\ call[c].pc = "issue"
  /\ ~ Torn(a)
  /\ tokens' = tokens \cup {[serial |-> Cardinality(tokens), id |-> a, code |-> call[c].code,
                             client |-> call[c].client, verifier |-> call[c].verifier,
                             subject |-> authReq[a].subject, authTime |-> authReq[a].doneAt]}
  /\ authRequests' = Delete(authRequests, a)
  /\ call' = [call EXCEPT ![c] = CallIdle]
  /\ UNCHANGED <<outcomeVars, authReq, authCodes, tab, minted, issuedCodes>>

-----------------------------------------------------------------------------
\* Wallets present and the Verifier decides.  A session was stored after the
\* AuthRequest it is for and lives as long, so that one expires first.
VerifierStep ==
  /\ \/ \E s \in Sessions, x \in Subjects : Prove(s, x)
     \/ \E s \in Sessions, o \in Subjects \cup {Failed} : Decide(s, o)
     \/ \E s \in Sessions :
          /\ \A a \in AuthIDs : s \in minted[a] => ~ HaveAuthRequest(a)
          /\ Close({s})
  /\ UNCHANGED <<loginStore, tab, call, minted, issuedCodes, tokens>>

LoginTick ==
  /\ authRequests' = [a \in DOMAIN authRequests |->
       [authRequests[a] EXCEPT !.age = AtMost(@ + 1, AuthOld)]]
  /\ authCodes' = [c \in DOMAIN authCodes |->
       [authCodes[c] EXCEPT !.age = AtMost(@ + 1, CodeOld)]]
  /\ UNCHANGED <<outcomeVars, authReq, tab, call, minted, issuedCodes, tokens>>

\* The process, bridge and Verifier, restarts empty.  Pages stay open and poll,
\* but for those it cuts off in the middle of a poll.
LoginRestart ==
  /\ Close({s \in Sessions : phase[s] = "open"})
  /\ authRequests' = EmptyMap
  /\ authCodes' = EmptyMap
  /\ tab' = [b \in Tabs |->
       IF tab[b].pc \in {"polling", "callback"} THEN tab[b]
       ELSE IF tab[b].pc \in {"linked?", "outcome?", "length", "text", "doneAt"}
         THEN Cut
       ELSE TabIdle]
  /\ call' = [c \in TokenCalls |-> CallIdle]
  /\ UNCHANGED <<authReq, minted, issuedCodes, tokens>>

LoadStep(b) ==
  \/ FindPageSession(b)
  \/ \E s \in Sessions : StartVerification(b, s)
  \/ StartVerificationFails(b)
  \/ LinkSession(b)

PollStep(b) ==
  \/ PollLookup(b) \/ PollSession(b) \/ PollOutcome(b)
  \/ SetSubjectLength(b) \/ SetSubjectText(b) \/ SetDoneAt(b)

LoginNext ==
  \/ \E a \in AuthIDs, in \in AuthInputs : CreateAuthRequest(a, in)
  \/ \E b \in Tabs, a \in AuthIDs : LoadPage(b, a)
  \/ \E b \in Tabs : LoadStep(b)
  \/ \E b \in Tabs : PollStep(b)
  \/ \E b \in Tabs : PollLost(b)
  \/ \E b \in Tabs : AuthorizeCallback(b)
  \/ \E b \in Tabs, code \in Codes : SaveAuthCode(b, code)
  \/ \E c \in TokenCalls, code \in Codes, client \in Clients, verifier \in Verifiers :
       ConsumeAuthCode(c, code, client, verifier)
  \/ \E c \in TokenCalls : AuthRequestByCode(c)
  \/ \E c \in TokenCalls : ReadTornSubject(c)
  \/ \E c \in TokenCalls : CreateTokenResponse(c)
  \/ VerifierStep
  \/ LoginTick
  \/ LoginRestart

LoginSpec == LoginInit /\ [][LoginNext]_loginVars

\* The script of a page that still waits polls again after every answer that
\* reached it, the handler answers, and time does not stand still.
Waiting(b) == tab[b].told \in {"", "pending"}

FairLoginSpec ==
  /\ LoginSpec
  /\ WF_loginVars(LoginTick)
  /\ \A b \in Tabs : WF_loginVars(Waiting(b) /\ PollStep(b))

-----------------------------------------------------------------------------
\* An ID Token goes to the client, and against the code_verifier, of the
\* AuthRequest it answers; it has a subject, who presented a credential in a
\* session that was started for that very AuthRequest, in whichever tab, also
\* when a poll is in the middle of writing it.
LoginBacked ==
  \A k \in tokens :
    /\ k.client = authReq[k.id].input.client
    /\ k.verifier = authReq[k.id].input.challenge
    /\ \E s \in minted[k.id] : k.subject \in proved[s]

\* What the comment on consumeAuthCode promises, under concurrent token
\* requests too: a code yields tokens at most once.
CodeRedeemedOnce == \A k, l \in tokens : k.code = l.code => k = l

\* No page is told pending for ever: it is told done or error and polls no
\* more, or its AuthRequest has expired and it is told not_found, or a poll of
\* its failed and ended its script.
NotPendingForever == \A b \in Tabs : tab[b].pc = "polling" ~> ~ Waiting(b)

=============================================================================
