----------------------------- MODULE IdentifyPage -----------------------------
(***************************************************************************)
(* The identification page, web/static/app.js, in the tabs of one browser, *)
(* and the browser's cookie jar, against the endpoints it talks to: GET    *)
(* /authorize and POST /identify/complete and /identify/reject.  Authorize *)
(* models those endpoints in full; here each is one step, an answer may be *)
(* lost on its way back, with its cookie or without, and there is one      *)
(* cookie, by name and path, for all tabs.                                 *)
(*                                                                         *)
(* A session is what /authorize opens when it sends a tab to the page, and *)
(* names the cookie value too: a session is completed at most once, so     *)
(* MarkIdentified draws at most one for it.  Time is ages.  A tab is       *)
(* "leaving" when it is on its way to /authorize.                          *)
(***************************************************************************)
EXTENDS Naturals

CONSTANTS
  PageTabs,
  RequestURIs,
  PageSessions,    \* session tokens /authorize may draw
  CookieMaxAge,    \* MaxAge of setIdentifiedCookie
  RequestURITTL,   \* parRequestTTL
  IdentTTL,        \* identifiedSessionTTL
  PageReplayTTL    \* identifyReplayTTL

ASSUME PageTimeAssumption ==
  /\ CookieMaxAge \in Nat /\ RequestURITTL \in Nat
  /\ IdentTTL \in Nat /\ PageReplayTTL \in Nat
  /\ CookieMaxAge <= IdentTTL /\ RequestURITTL <= IdentTTL /\ PageReplayTTL <= IdentTTL

\* "" is the absent cookie, the session of a tab that shows no page, and the
\* request_uri of a session not opened yet.
ASSUME PageNamesAssumption == "" \notin PageSessions /\ "" \notin RequestURIs

VARIABLES
  phase,        \* tab -> what the page shows, or where the tab has gone
  claims,       \* tab -> claimsMetadata has arrived
  uri,          \* tab -> the request_uri it is for
  shown,        \* tab -> the session its page is for
  answer,       \* tab -> the answer on its way to the tab, if any
  jar,          \* the cookie the browser holds: the session it names, and its age
  pushed,       \* request_uri -> its age
  owner,        \* session -> the request_uri it was opened for
  pendingAuth,  \* session -> it is pending
  replay,       \* session -> the cached redirect and its age
  identified,   \* session -> age of the identification made in it, or Never
  decision,     \* history: session -> the last answer of its user that was accepted
  issued        \* history: session -> the decision when it last gave a code

pageVars == <<phase, claims, uri, shown, answer, jar, pushed, owner, pendingAuth, replay,
              identified, decision, issued>>

-----------------------------------------------------------------------------
Ancient == IdentTTL + 1   \* an age at which everything has expired
Never == IdentTTL + 2

GrowOld(age) == IF age < Ancient THEN age + 1 ELSE age

NoCookie == [session |-> "", age |-> 0]
NoReplay == [to |-> "", age |-> 0]
NoAnswer == [to |-> "", cookie |-> FALSE]
Error == [to |-> "error", cookie |-> FALSE]

Awaiting == {"submitting", "denying"}
OnPage == {"identify", "form", "success", "error"} \cup Awaiting
Phases == OnPage \cup {"leaving", "rejected", "completed", "refused"}

\* Every reachable state is well typed; an answer travels only to a page that
\* waits for one, and CompleteIdentification and RejectIdentification cache a
\* redirect only for a session they have consumed.
PageTypeOK ==
  /\ phase \in [PageTabs -> Phases]
  /\ claims \in [PageTabs -> BOOLEAN]
  /\ uri \in [PageTabs -> RequestURIs]
  /\ shown \in [PageTabs -> PageSessions \cup {""}]
  /\ answer \in [PageTabs -> [to : {"", "error", "authorize", "client"}, cookie : BOOLEAN]]
  /\ jar \in [session : PageSessions \cup {""}, age : 0 .. Ancient]
  /\ pushed \in [RequestURIs -> 0 .. Ancient]
  /\ owner \in [PageSessions -> RequestURIs \cup {""}]
  /\ pendingAuth \in [PageSessions -> BOOLEAN]
  /\ replay \in [PageSessions -> [to : {"", "authorize", "client"}, age : 0 .. Ancient]]
  /\ identified \in [PageSessions -> 0 .. Never]
  /\ decision \in [PageSessions -> {"", "submitted", "denied"}]
  /\ issued \in [PageSessions -> {"", "submitted", "denied"}]
  /\ \A t \in PageTabs : answer[t] # NoAnswer => phase[t] \in Awaiting
  /\ \A s \in PageSessions : pendingAuth[s] => replay[s] = NoReplay

\* Wallets have pushed their requests and send the browser to /authorize.
PageInit ==
  /\ phase = [t \in PageTabs |-> "leaving"]
  /\ claims = [t \in PageTabs |-> FALSE]
  /\ uri \in [PageTabs -> RequestURIs]
  /\ shown = [t \in PageTabs |-> ""]
  /\ answer = [t \in PageTabs |-> NoAnswer]
  /\ jar = NoCookie
  /\ pushed = [u \in RequestURIs |-> 0]
  /\ owner = [s \in PageSessions |-> ""]
  /\ pendingAuth = [s \in PageSessions |-> FALSE]
  /\ replay = [s \in PageSessions |-> NoReplay]
  /\ identified = [s \in PageSessions |-> Never]
  /\ decision = [s \in PageSessions |-> ""]
  /\ issued = [s \in PageSessions |-> ""]

server == <<pushed, owner, pendingAuth, replay, identified>>
history == <<decision, issued>>

Show(t, p) == phase' = [phase EXCEPT ![t] = p]

-----------------------------------------------------------------------------
\* The page

\* The claims arrive, or their fallback.
ClaimsArrive(t) ==
  /\ phase[t] \in OnPage /\ ~ claims[t]
  /\ claims' = [claims EXCEPT ![t] = TRUE]
  /\ UNCHANGED <<phase, uri, shown, answer, jar, server, history>>

OpenForm(t) ==
  /\ phase[t] = "identify" /\ claims[t]
  /\ Show(t, "form")
  /\ UNCHANGED <<claims, uri, shown, answer, jar, server, history>>

\* Cancel on the form, and Retry on the error
BackToIdentify(t) ==
  /\ phase[t] \in {"form", "error"}
  /\ Show(t, "identify")
  /\ UNCHANGED <<claims, uri, shown, answer, jar, server, history>>

\* The method that is not available yet, and a POST that never gets there
FailHere(t) ==
  /\ phase[t] \in {"identify", "form"}
  /\ Show(t, "error")
  /\ UNCHANGED <<claims, uri, shown, answer, jar, server, history>>

\* The jar once the headers of the answer to t have arrived
JarWith(t) == IF answer[t].cookie THEN [session |-> shown[t], age |-> 0] ELSE jar

\* The browser shows the page of tab o in tab t: a reload, or back to it, when
\* they are the same, and otherwise one link in two tabs.  An answer to t is
\* lost, its cookie perhaps not.
ShowPage(t, o) ==
  /\ shown[o] # ""
  /\ Show(t, "identify")
  /\ claims' = [claims EXCEPT ![t] = FALSE]
  /\ uri' = [uri EXCEPT ![t] = uri[o]]
  /\ shown' = [shown EXCEPT ![t] = shown[o]]
  /\ answer' = [answer EXCEPT ![t] = NoAnswer]
  /\ jar' \in {jar, JarWith(t)}
  /\ UNCHANGED <<server, history>>

-----------------------------------------------------------------------------
\* The endpoints.  The page posts and waits; the server's part happens at once.

Replayed(s) == replay[s].to # "" /\ replay[s].age <= PageReplayTTL

Answer(t, a) == answer' = [answer EXCEPT ![t] = a]

\* The cached redirect again, whichever of the two handlers is asked, and
\* without the cookie
Replay(t, s) ==
  /\ Replayed(s)
  /\ Answer(t, [to |-> replay[s].to, cookie |-> FALSE])
  /\ UNCHANGED <<pendingAuth, replay, identified>>

Consume(s) == pendingAuth' = [pendingAuth EXCEPT ![s] = FALSE]

CacheRedirect(s, to) == replay' = [replay EXCEPT ![s] = [to |-> to, age |-> 0]]

\* CompleteIdentification: creating the record may fail, with the session
\* consumed.
Complete(t, s) ==
  \/ Replay(t, s)
  \/ /\ ~ Replayed(s)
     /\ Consume(s)
     /\ \/ /\ pendingAuth[s]
           /\ Answer(t, [to |-> "authorize", cookie |-> TRUE])
           /\ identified' = [identified EXCEPT ![s] = 0]
           /\ CacheRedirect(s, "authorize")
        \/ /\ Answer(t, Error)
           /\ UNCHANGED <<identified, replay>>

\* RejectIdentification: the redirect_uri may not parse, with the session
\* consumed.
Reject(t, s) ==
  \/ Replay(t, s)
  \/ /\ ~ Replayed(s)
     /\ Consume(s)
     /\ \/ /\ pendingAuth[s]
           /\ Answer(t, [to |-> "client", cookie |-> FALSE])
           /\ CacheRedirect(s, "client")
        \/ /\ Answer(t, Error)
           /\ UNCHANGED replay
     /\ UNCHANGED identified

Decide(t, d) ==
  decision' = IF answer'[t] = Error THEN decision
                                    ELSE [decision EXCEPT ![shown[t]] = d]

\* submitIdentification
Submit(t) ==
  /\ phase[t] = "form"
  /\ Complete(t, shown[t])
  /\ Show(t, "submitting")
  /\ Decide(t, "submitted")
  /\ UNCHANGED <<claims, uri, shown, jar, pushed, owner, issued>>

\* denyAuthorization
Deny(t) ==
  /\ phase[t] = "identify"
  /\ Reject(t, shown[t])
  /\ Show(t, "denying")
  /\ Decide(t, "denied")
  /\ UNCHANGED <<claims, uri, shown, jar, pushed, owner, issued>>

\* The answer arrives: the browser takes the cookie, the page the redirect,
\* after a submit with a delay during which it shows success.
AnswerArrives(t) ==
  LET to == answer[t].to IN
  /\ answer[t] # NoAnswer
  /\ jar' = JarWith(t)
  /\ Show(t, CASE to = "authorize" /\ phase[t] = "submitting" -> "success"
               [] to = "authorize" /\ phase[t] = "denying" -> "leaving"
               [] to = "client" -> "rejected"
               [] to = "error" -> "error")
  /\ Answer(t, NoAnswer)
  /\ UNCHANGED <<claims, uri, shown, server, history>>

\* The network fails, before the headers or within the body, and the page shows
\* an error.
AnswerLost(t) ==
  /\ answer[t] # NoAnswer
  /\ jar' \in {jar, JarWith(t)}
  /\ Show(t, "error")
  /\ Answer(t, NoAnswer)
  /\ UNCHANGED <<claims, uri, shown, server, history>>

-----------------------------------------------------------------------------
\* What the browser sends, and CheckIdentified makes of it
CheckIdentified(u) ==
  /\ jar.session # "" /\ jar.age <= CookieMaxAge
  /\ owner[jar.session] = u
  /\ identified[jar.session] <= IdentTTL

\* Mutant: an identification is good for one visit.
IdentifiedUsedUp(s) == [identified EXCEPT ![s] = Never]

\* What CheckIdentified leaves of the identification in s: all of it
IdentifiedAfter(s) == identified

\* HandleAuthorize, for a tab on its way there or one that repeats the visit:
\* the request_uri has expired, or the response with a code, or the
\* identification page with a fresh session.
VisitAuthorize(t) ==
  LET u == uri[t] IN
  /\ phase[t] \in {"leaving", "success", "completed"}
  /\ \/ /\ pushed[u] > RequestURITTL
        /\ Show(t, "refused")
        /\ UNCHANGED <<claims, shown, owner, pendingAuth, identified, issued>>
     \/ /\ pushed[u] <= RequestURITTL /\ CheckIdentified(u)
        /\ Show(t, "completed")
        /\ identified' = IdentifiedAfter(jar.session)
        /\ issued' = [issued EXCEPT ![jar.session] = decision[jar.session]]
        /\ UNCHANGED <<claims, shown, owner, pendingAuth>>
     \/ /\ pushed[u] <= RequestURITTL /\ ~ CheckIdentified(u)
        /\ Show(t, "identify")
        /\ claims' = [claims EXCEPT ![t] = FALSE]
        /\ \E s \in PageSessions :
             /\ owner[s] = ""
             /\ owner' = [owner EXCEPT ![s] = u]
             /\ pendingAuth' = [pendingAuth EXCEPT ![s] = TRUE]
             /\ shown' = [shown EXCEPT ![t] = s]
        /\ UNCHANGED <<identified, issued>>
  /\ UNCHANGED <<uri, answer, jar, pushed, replay, decision>>

PageTick ==
  /\ jar' = [jar EXCEPT !.age = GrowOld(@)]
  /\ pushed' = [u \in RequestURIs |-> GrowOld(pushed[u])]
  /\ replay' = [s \in PageSessions |->
       IF replay[s] = NoReplay THEN NoReplay ELSE [replay[s] EXCEPT !.age = GrowOld(@)]]
  /\ identified' = [s \in PageSessions |-> GrowOld(identified[s])]
  /\ UNCHANGED <<phase, claims, uri, shown, answer, owner, pendingAuth, history>>

\* The server restarts empty: what it knew is as good as expired.
PageRestart ==
  /\ pushed' = [u \in RequestURIs |-> Ancient]
  /\ pendingAuth' = [s \in PageSessions |-> FALSE]
  /\ replay' = [s \in PageSessions |-> NoReplay]
  /\ identified' = [s \in PageSessions |-> IF identified[s] = Never THEN Never ELSE Ancient]
  /\ UNCHANGED <<phase, claims, uri, shown, answer, jar, owner, history>>

PageStep(t) ==
  \/ ClaimsArrive(t) \/ OpenForm(t) \/ BackToIdentify(t) \/ FailHere(t)
  \/ \E o \in PageTabs : ShowPage(t, o)
  \/ Submit(t) \/ Deny(t) \/ AnswerArrives(t) \/ AnswerLost(t) \/ VisitAuthorize(t)

PageNext == PageTick \/ PageRestart \/ \E t \in PageTabs : PageStep(t)

PageSpec == PageInit /\ [][PageNext]_pageVars

-----------------------------------------------------------------------------
\* The browser still sends the cookie of an identification for u.
Carries(u) == jar.session # "" /\ jar.age <= CookieMaxAge /\ owner[jar.session] = u

\* As long as the browser sends the cookie of an identification for the
\* request_uri it visits, the visit is not sent to the form: not when it is
\* repeated, not when it comes late, and not after a restart.  The comment on
\* setIdentifiedCookie has the cookie expire "no later than the server-side
\* session it names".
NotAskedTwice ==
  [][\A s \in PageSessions : owner[s] = "" /\ owner'[s] # "" => ~ Carries(owner'[s])]_pageVars

\* What the comments on denyAuthorization and identifyReject say of a deny that
\* was accepted: it ends in access_denied "instead of an authorization code".
DenialHolds == \A s \in PageSessions : issued[s] # "denied"

=============================================================================
