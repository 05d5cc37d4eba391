# TLA+ models of fikua-lab-idp

`fikua-lab-idp` is one Go process with three roles: an OAuth2 authorization
server for wallets (PAR, DPoP, client attestation, PKCE, JWT access tokens), an
OID4VP Verifier, and an OpenID Connect bridge that turns a presentation into a
browser login. All its state is in memory, each store method is one critical
section of a mutex, expiry is lazy (checked on read), and a restart loses
everything but the signing key. What makes it hard is what happens *between* two
store calls of a handler, and which of several clocks runs out first.

This directory models all three roles: a pushed authorization request until its
access token is revoked, a verification session from its Request Object to its
outcome, a login until its refresh tokens are gone; and the checks they rest
on, from DPoP proofs to status lists.

## Inventory

| Part | State | Operations that change it | What is hard about it |
| --- | --- | --- | --- |
| `internal/authz` | none of its own | HandlePar, HandleAuthorize, CompleteIdentification, RejectIdentification, HandleAuthCodeToken, RevokedJTIs | several store calls per handler with calls to the Credential Issuer in between; retries; double submits |
| `internal/session`, authorization half | parRequests, pendingAuth, identifiedSessions, identifyReplay, authCodes, issuedJTIByCode, revokedJTIs | Store…, Consume…, Mark…, Create…, Record…, Revoke… | single use, five different lifetimes, no sweeper |
| `internal/session`, verification half | verifications and two indexes | StoreVerification, UpdateVerificationStatus, UpdateVerificationResult, expiry on read | status written by request and response in any order |
| `internal/oauth2` | JTIStore | Accept; ValidateDPoPProof, attestation, Mint, PKCE are functions of their input | eviction at the cap; order of checks |
| `internal/issuerclient` | the Credential Issuer's records (external) | Create | a call that fails after it took effect |
| `internal/verifier` | through the session store | CreateSession, GetRequestObject, HandleResponse | concurrent responses, late fetches, binding of several credentials |
| `internal/oidcserver` | authRequests, authCodes, refreshTokens | CreateAuthRequest, login page, poll, SaveAuthCode, code and refresh redemption, revocation | driven by `zitadel/oidc`; unlocked writes; a login page loaded twice |
| `internal/oidcclients` | read-only registry | Load, validate | scope resolution |
| `internal/sdjwtverify`, `internal/mdocverify`, `internal/statuslistcheck` | none | pure checks | which checks decide; bit arithmetic |
| `web/static` | the page's phase | submit, deny, retry, reload | retry of what was already consumed; one cookie for all tabs |
| `internal/crypto`, `internal/config`, `internal/webui`, metadata, CORS, Swagger | none that a protocol step changes | — | — |

`PROJECT.json` lists the same parts with their status, and the hazards with
the line each one bites at and the property that would catch it.

## Modules

| Module | Models |
| --- | --- |
| `GoMaps` | Go maps as functions whose domain grows and shrinks |
| `Authorize` | `/par`, `/authorize`, `/identify/complete`, `/identify/reject` and their half of the session store |
| `TokenEndpoint` | `/token`, `/revoked-tokens` and their half of the session store |
| `AuthServer` | both over one clock and one store |
| `DPoP` | `SingleDPoPHeader`, `ValidateDPoPProof` and the bounded jti store both endpoints share |
| `ClientAttestation` | wallet attestations and their proofs of possession, over both transports |
| `IdentifyPage` | the identification page in several tabs of one browser: its cookie jar, reloads, and answers lost with their cookie or without |
| `SdJwt`, `Mdoc` | verification of one SD-JWT VC or mdoc presentation |
| `StatusList` | the entry of a Token Status List, with Go's integer arithmetic |
| `Presentation` | the Verifier's judgement of a `vp_token`: its shapes, both formats, the status lists, one holder, the subject |
| `Attesting`, `StatusLookup`, `Judging` | one attestation resolved, one status looked up, one response judged: a step of a behaviour that begins with any input, and what its answer promises |
| `VerificationOutcome` | abstract: what the Verifier promises of a session |
| `VerifierSessions` | the Verifier's endpoints over the verification sessions; implements `VerificationOutcome` |
| `LoginBridge` | AuthRequest, login page, polls, callback and code exchange, on top of `VerificationOutcome` |
| `RefreshTokens` | grant, rotation and revocation of the bridge's refresh tokens |
| `Registry` | loading and asking the Relying Party registry, as operators |
| `Registering` | one file loaded when the server starts, and one login that asks it |
| `MCAuthorize`, `MCTokenEndpoint`, `MCAuthServer`, `MCDPoP`, `MCIdentifyPage`, `MCVerifierSessions`, `MCLoginBridge`, `MCRefreshTokens` | instances for TLC |
| `MCStatusList`, `MCPresentation`, `MCClientAttestation`, `MCRegistry`, `MCChecks` | the inputs of the checks that keep no state, and one module that makes each check on each input |
| `MCEdge` | `MCChecks` and `MCDPoP` in one run: a behaviour is of one or of the other |
| `GoMapsProofs` | what the map operations do, for every map |
| `AuthorizeProofs`, `TokenEndpointProofs`, `VerifierProofs` | inductive invariant, its preservation, and the theorems of `Authorize`, `TokenEndpoint` and `VerifierSessions` |
| `AuthServerProofs` | the composed server: it implements `TokenEndpoint`, and what follows for both halves together |
| `BridgeProofs` | the same for the login bridge, `RefreshTokens` and `LoginBridge` |
| `EdgeProofs` | the same for what a request meets first: `DPoP`, `Attesting`, `IdentifyPage` |
| `ChecksProofs` | the theorems of `StatusLookup`, `Judging` and `Registering` |

`LoginBridge` is composed with the Verifier through its abstract specification:
the bridge is checked against what `VerificationOutcome` allows, and
`VerifierProofs` shows that `VerifierSessions` allows no more.

### How state and actions correspond to the code

A Go map is a variable of the same name. A request being served is a *thread*:
`req[t]` (`treq`, `dreq`, `vreq`, `tab`, `rcall` in the other modules) holds its
program counter and local variables, and each step is one critical section of
the store or one network call. Steps of different threads interleave freely.
`Authorize`, `TokenEndpoint` and `DPoP` have a clock up to `MaxTime`; the other
modules keep the age of everything that expires, which needs no such bound.

| Action | Code |
| --- | --- |
| `HandlePar` | `Service.HandlePar` (one critical section, so one step) |
| `HandleAuthorize`, `FindByIssuerState`, `CompleteOffer`, `CheckIdentified`, `StorePendingAuth`, `CreateAuthCode` | the store and network calls of `Service.HandleAuthorize`, in order |
| `GetIdentifyReplay`, `ConsumePendingAuth`, `CreateRecord`, `MarkIdentified`, `StoreIdentifyReplay` | those of `CompleteIdentification` and `RejectIdentification` |
| `ConsumeAuthCode`, `Mint`, `MintFails`, `RecordIssuedJTI`, `RevokeTokensForCode` | those of `Service.HandleAuthCodeToken` |
| `RevokedJTIs` | a poll of the denylist by the Credential Issuer |
| `IssueCode` | `CreateAuthCode` as the token endpoint sees it |
| `Reply`, `TokenReply` | the response leaves |
| `ValidateDPoPProof`, `Accept` | `SingleDPoPHeader` and the checks before the store; `JTIStore.Accept` |
| `SignRequestObject`, `CreateSession` | `verifier.Service.CreateSession`: the Request Object is signed, then the session stored |
| `GetRequestObject`, `MarkRequestSent` | lookup and `UpdateVerificationStatus` of `GetRequestObject` |
| `HandleResponse`, `VerifyResponse`, `RecordResult` | lookup (by key or by state), `verifyPresentations` with its fetches, and `UpdateVerificationResult` of `HandleResponse` |
| `GetResult` | a poll of the frontend |
| `CreateAuthRequest`, `LoadPage`, `LoadStep`, `PollStep` | `Storage.CreateAuthRequest`, the uses of the store in the login page's and the poll's handler |
| `AuthorizeCallback`, `SaveAuthCode`, `ConsumeAuthCode`, `AuthRequestByCode`, `CreateTokenResponse` | the Storage calls in the order in which `zitadel/oidc` makes them |
| `Grant`, `TokenRequestByRefreshToken`, `DeleteCurrent`, `PutFresh`, `GetRefreshTokenInfo`, `RevokeToken` | the Storage calls behind the refresh_token grant and revocation |
| `Submit`, `Deny`, `AnswerArrives`, `AnswerLost`, `VisitAuthorize`, … | the page's handlers in `web/static/app.js`, with the endpoint they call |
| `ShowPage` | the browser reloads the page, goes back to it, or opens it in another tab |
| `PollLost`, `ReadTornSubject` | a poll that never reaches its handler; a token request that reads a subject in the middle of its write |
| `…Tick`, `…Restart` | the clock; a crash and restart |

`RandomToken` and `RandomJTI` return a value never returned before, across
restarts too; history variables (`pushed`, `deferred`, `marked`, `issued`,
`minted`, `accepts`, `provedBy`, `decision`, …) remember what was handed out or
done. A request may present anything that was ever handed out, to anyone: the
models do not assume that a browser sends the cookie it was given, or a client
its own code. (`IdentifyPage` is the exception: it models the browser.)

What is abstracted. In `Authorize` and `TokenEndpoint` the outcome of
attestation and DPoP validation is part of a request (`attested`, `proof`); the
checks themselves are in `ClientAttestation` and `DPoP`. A signature is the key
that made it with what it covers, a digest what it was computed over, a
`code_verifier` the challenge it hashes to. Base64, JSON, CBOR and COSE
encodings are a flag that says whether they decode. `state`, `c_nonce` and
wording are left out. A request refused before it touches a store is not a
step. The record an offer's `issuer_state` points at is named by that
`issuer_state`, and the Credential Issuer is assumed to return a non-empty id
for a record it creates. Timestamps taken just before a lock count as taken
inside it. In `LoginBridge` the unlocked write of `subject` is two steps, length
and text, and the write of `doneAt` a third, as the Go memory model allows.
Between the first two the subject has a length and no text: `Done` is true of
it, and a token request that goes on to read it faults, which ends the request
after its code was consumed (`ReadTornSubject`).

## Runs

| Run | Expect | Shows |
| --- | --- | --- |
| `authorize_races` | pass | two requests on one request_uri and one session: `OneCodePerOffer`, `SessionAnswersAgree`, `CompletedOrRejected`, `OnlyCompletionBurns` |
| `server_end_to_end` | pass | two clients' requests side by side through both endpoints: `CodeBacked`, `TokenBacked`, and that the composition implements `TokenEndpoint` (`ImplementsTokenEndpoint`) |
| `token_codes` | pass | three token requests, good and flawed, redeem and reuse a code while the Credential Issuer polls: `OneTokenPerCode`, `TokenMatchesGrant`, `LateReuseRevokes`, `RevokedStaysPublished`, and the liveness `IssuerLearns` |
| `token_race` | violation | `ReusedCodeRevokes` |
| `verifier_races` | pass | fetches, responses of two holders, polls and expiry race on a session: `IndexesAgree`, `VerifiedIsBound`, `RequestDiesWithSession`, the refinement `KeepsOutcomePromise`, and the liveness `PollSettles` |
| `login_tabs` | pass | two tabs of one login, two holders, lost answers, torn writes: `LoginBacked` |
| `login_logins` | pass | two logins, two token calls, lost polls: `LoginBacked`, `CodeRedeemedOnce`, and the liveness `NotPendingForever` |
| `refresh_lineage` | pass | chains of overlapping rotations and revocations: `LineageKept`, `RetiredStaysGone` |
| `checks` | pass | the stateless checks over all their small inputs: `ValidIsEntryZero` (status lists); `NotTransferable`, `BoundToResponseKey`, `ClaimsAreCommitted`, `DisclosuresAreSealed`, `OneHolder`, `StatusDecides` (presentations); `PossessionProved`, `PoPExpires` (attestations); `OpenIDIsAWord` (registry). And flawed and good DPoP proofs at both endpoints, more than the jti store holds: `JTIStoreBounded`, `ReplayOnlyAfterEviction`, `NothingDroppedWithinCapacity`, `ReplayHorizon` |
| `status_negative` | violation | `OutOfRangeRefused` |
| `page_tabs` | pass | two tabs and two request_uris share a cookie, pages are reloaded and answers lost: `NotAskedTwice` |
| `page_denial` | violation | `DenialHolds` |

`server_end_to_end` also checks the types of the authorization server's state
(`ServerTypeOK`). The other modules' `…TypeOK` describe their state, and are
conjuncts of the inductive invariants below. The three violations state what the source says of itself and show a behaviour of the
code that does otherwise (`findings` in `PROJECT.json` quotes the lines):

1. `token_race`: a code reused between its consumption and the recording of its
   jti is refused but does not revoke the token. `LateReuseRevokes` is the
   guarantee that does hold: a reuse after the answer left always revokes.
2. `status_negative`: the range check comes after a division that rounds towards
   zero, so a small negative index is read as a valid entry of byte 0.
3. `page_denial`: a deny that follows a submit of the same session is answered
   with the submit's cached redirect. If the cookie of the submit has landed (the
   page was reloaded before the body arrived, or another tab shows it), the
   browser goes on to `/authorize` and the client gets a code. What does hold, and
   `authorize_races` checks, is that a session is not both completed and rejected.

Deadlock is checked in every run but `checks` and `status_negative`, whose behaviours end
with their answer; elsewhere a tick or a restart is always possible, so it can
only report a modelling mistake.

### Where code and comments differ

Each of these was seen as a counterexample while the models were written; the
properties above are stated so that they hold of the code as it is.

* The second visit to `/authorize` is still bound by the request_uri's 60
  seconds: the handler peeks at it before it looks at the cookie
  (`authz/service.go:253`). The identified branch never consumes the
  request_uri, so a repeated second visit mints further codes, all for the same
  record (`:302`).
* A completion that fails at the Credential Issuer has already consumed the
  session token, so the page's retry cannot succeed (`authz/service.go:396`). The
  second of two overlapping submits is refused, since the replay cache is filled
  only after the call (`:376`).
* A replayed completion carries no cookie even when the first answer never
  arrived, although `authz/service.go:373` says it "already landed": the visit it
  leads to is sent to the form. The cookie's
  Max-Age is 60 seconds, the session it names lives ten minutes
  (`httpapi/oauth_handlers.go:176`, `session/store.go:560`).
* A full jti store evicts entries whose proofs are still in their window, and
  then accepts them again (`oauth2/dpop.go:58`).
* With a trust anchor set, an attestation without `x5c` is still checked against
  its own `jwk` (`oauth2/clientattestation.go:187`).
* `statusAt` takes the entry width off the token, which its comment denies
  (`statuslistcheck.go:34`, `:86`).
* `verifyPresentations` stops at the first failing credential, so later status
  lists are not fetched (`verifier/service.go:390`); nothing compares an SD-JWT
  VC's `vct` with the query (`:445`).
* A late fetch of the Request Object sets a verified session back to
  `request_sent`; tokens and subject stay (`verifier/service.go:221`). A session
  that expires during verification records nothing, and the wallet is answered
  success (`:328`).
* Two overlapping loads of the login page start a session each
  (`oidcserver/login.go:109`). Every poll of a verified session writes `subject`
  and `doneAt`, outside the lock (`:179`). As many codes are stored as callbacks
  arrive (`oidcserver/storage.go:107`). A code may outlive its AuthRequest, and is
  then consumed in vain (`:112`).
* The login page's script stops for good after one poll that fails, and goes on
  for ever after `not_found` (`oidcserver/login.go:224`).
* Overlapping refreshes rotate one token into two; a revocation between lookup
  and rotation misses the successor (`oidcserver/storage.go:149`); and each
  rotation starts a full lifetime (`oidcserver/store.go:153`).
* `Load` refuses four of the six standard scope names `client.go:96` lists
  (`oidcclients/registry.go:163`).

### Bounds

Two threads race for everything a handler can race for; three are used where a
redemption and two reuses meet. One request_uri and one session suffice for the
races, which are per key; two request_uris of different clients are needed for
binding. In `Authorize` the unit of time is `parRequestTTL` (60 s), and the
lifetimes keep their real ratios (1, 2 and 10): within `MaxTime` 3 the
request_uri and the replay entry run out, while the identification outlives
both. In `TokenEndpoint` the lifetimes are 1, 2 and 1 for code, token and
retention (60 s, 5 and 10 minutes in the code): `2 * Retention = TokenTTL` is the
tightest case the assumption allows, and the code's values have slack.
`MaxTime` lets a token expire, and its denylist entry after it.
`token_codes` redeems a code bound to a DPoP key; `server_end_to_end` also has one
that is not, and one thread of each kind: the races inside each half are
the other runs' subject.

In `checks`, `DPoP` has three requests and a store of two, so that the third causes an
eviction or is a replay; a replay *after* an eviction needs a fourth, and is
left to the proofs, which are for any number. `MaxTime` 4 exceeds twice the
window of 1. `verifier_races` runs in `direct_post.jwt`, which also accepts
plain responses; it has one session, and presentations made for another nonce
among its inputs, since sessions meet only in the maps, whose agreement is
proved for any number. In the login runs and in `refresh_lineage` every lifetime
is one tick, so each expiry can fall between any two steps. Four refresh tokens
are enough for two chains of rotations, or one that forks twice. `IdentifyPage`
has cookie, request_uri and replay entry live one tick and the identification
two: it outlives them, as it does in the code (60, 60, 120 and 600 seconds).
Two sessions suffice for one visit to be sent to the form and another to be
sent there wrongly.

The inputs of `checks` are one good case of each kind and each of its flaws, one
or two credentials, status lists of up to two bytes with every index into and
just past them, and scope strings over two letters and the blank.

Symmetry is over pools of random values, holders, tabs and threads only, and not
used for liveness.

### Fairness

* `IssuerLearns`: weak fairness of the Credential Issuer's poll, which the
  repository's README promises ("which the Credential Issuer polls") and which is
  always enabled.
* `PollSettles`: the clock advances, and a frontend that has not been told an
  outcome polls again; the handler it calls returns.
* `NotPendingForever`: the clock advances, and the script of a page that waits
  polls again after every answer that reached it, as it does on a timer. A poll or
  an answer may be lost at any time; the script has no `catch`, so it then stops,
  and the page is cut off. That it shows an outcome in the end is therefore not
  claimed: only that it does not hear "pending" for ever. After `not_found` it is
  not assumed to poll, and nothing is claimed of it.

No wallet, browser or handler of the protocol itself is assumed to act.

## Proofs

Every safety property that a passing run checks is also proved with TLAPS, for
all values of the constants. So are the action properties
`OnlyCompletionBurns` and `NotAskedTwice` and the two refinements. "All values" means any sets of
threads, tabs, clients, keys, tokens and sessions and any lifetimes that satisfy
the named `ASSUME`s of the modules, which TLC evaluates on every run:

| Assumption | Says |
| --- | --- |
| of `Authorize`, `TokenEndpoint`, `LoginBridge`, `RefreshTokens`, `VerifierSessions` | lifetimes are naturals; the empty string is no client, key, code, record, session or holder; requests have the fields the handlers read |
| `2 * Retention >= TokenTTL` (`TokenEndpoint`, and `ServerAssumption` in `AuthServer`) | a revoked jti is kept long enough; 10 and 5 minutes in the code |
| `RequestTTL <= SessionTTL` (`VerifierSessions`) | a Request Object expires no later than its session |
| `StoreAssumption` (`DPoP`) | finitely many requests, `1 <= EvictCount <= MaxSize` |
| `PageTimeAssumption`, `PageNamesAssumption` (`IdentifyPage`) | cookie, request_uri and replay entry live no longer than the identification; the empty string is no session and no request_uri |
| `OutcomeNames` (`LoginBridge`) | no holder is called like a missing or failed outcome |
| `ResponsesAssumption`, `AttestedAssumption`, `StatusListsAssumption`, `DocsAssumption` | a query and the disclosures are sequences; a header that was sent has its members, a date is an integer; a list is a sequence of bytes; a scope string is a sequence of characters |

### Inductive invariants

Hardly any of the properties is inductive: each speaks of what was stored or
answered, and a step takes its values from a thread's local variables, read some
steps earlier. The inductive invariants add what a thread may rely on:

* `AuthInv` (`AuthorizeProofs`). Every entry of every map, and the params and
  record in the hands of a thread, belong to the request_uri they are filed
  under (`StoreBacked`, `RequestsBacked`): that gives `CodeBacked`. Among the
  threads past `ConsumeParRequest` and the codes issued there is at most one per
  request_uri on the offer path (`OffersExclusive`): that gives
  `OneCodePerOffer`. A session token is in exactly one of three places: pending,
  held by one thread past `ConsumePendingAuth`, or answered
  (`SessionsExclusive`, `Untouched`, `NoRecord`): that gives the two properties
  of sessions.
* `TokenInv` (`TokenEndpointProofs`). A code is in the store, held by at most one
  minting thread, or spent (`CodesUnspent`, `MintersExclusive`): that gives
  `OneTokenPerCode`. What a thread is about to mint is its code's grant
  (`HoldsGrant`). A code whose token was sent is still linked to its jti, or that
  jti has been revoked (`JTIsLinked`, `AnsweredAccounted`), and a thread that came
  late is on its way to revoke or finds it done (`Accounted`): that gives
  `LateReuseRevokes`.
* `ServerInv` (`AuthServerProofs`) is `AuthInv`, which the token endpoint's steps
  keep since they only take codes away, and `IssuedBacked`, the same of codes
  that are already redeemed.
* `VerifierInv` (`VerifierProofs`). A stored session's subject comes from a
  presentation judged against what was fixed when it was created
  (`SessionBacked`), and so does the verdict in a thread's hands, which belongs
  to a session that was created once (`RequestBacked`, `OneStore`).
* `RefreshInv` (`BridgeProofs`). A request that exchanges a token speaks for the
  login the token goes back to, and once it has deleted the token it stays out
  of the store (`CallsBacked`); everything exchanged or revoked was issued, so a
  fresh name is not among it (`HistoryIssued`).
* `LoginInv` (`BridgeProofs`). The subject of an AuthRequest, and the one a tab is
  about to write, each presented in a session started for that AuthRequest
  (`RequestsPresented`, `TabsBacked`, `OutcomesBacked`): a torn write then leaves
  no subject or one of those. A code is in the store, with one token request, or
  spent on one ID Token (`CodesExclusive`). `SubjectInv` adds that it is not "no
  subject": whatever a code, a tab past the callback or a token request points at
  is done (`CodesDone`, `TabsDone`, `CallsDone`), what is done stays so, and done
  with no text is what the token request cannot read (`TokensNamed`).
* `DPoPInv` (`EdgeProofs`). What a thread is about to `Accept` was in its window
  when it was checked (`InHand`), so was the first acceptance of every proof
  (`FirstInWindow`), and the store's entries and evictions account for the
  acceptances so far (`StoreCounts`).
* `PageInv` (`EdgeProofs`). The cookie in the jar, and any on its way to it,
  names a session in which an identification was made after its request was
  pushed (`JarBacked`, `CookiesBacked`): the identification is no older than the
  request_uri and lives at least as long, so it is live at every visit that gets
  past the request_uri.

Each preservation proof has one lemma per action.

### Refinements

`KeepsOutcomePromise`: a result changes the abstract outcome of
`VerificationOutcome` only if the session is still live, expiry and deletion only
close it, and every other step of `VerifierSessions` is a stutter.

`ImplementsTokenEndpoint`: under the mapping that reads the grants of
`TokenEndpoint` off the codes issued so far, creating a code is `IssueCode`, the
steps of `/token` are themselves, and the other handlers stutter. The theorems of
`TokenEndpointProofs` then hold of the whole server (`ServerRevocationHolds`).
With `ServerInv` they give `TokenBacked`, and `OneTokenPerOffer`, which
neither endpoint promises alone and which no run checks: a request_uri completed
through its offer yields one access token.

### The checks

`Attesting`, `StatusLookup` and `Judging` take one step, and `Registering` two, so
their invariants say only that the answer is the operator's; the work is in the
lemmas about the operators.

* `EachSD` and `EachMdoc`: what each check established of each presentation of a
  response that verified. From these, `NonceBinds` and `KeyBinds` show that no
  two sessions differing in nonce, or in key where there is an mdoc, accept the
  same `vp_token`, also at different times and with different status lists;
  `DisclosuresSealed` and `SubjectIsHolder` are the other two facts of this kind.
  `ClaimCommitted` follows a claim back through the merge to the disclosure or
  item it came from (of two disclosures with one name, the later).
* `StatusAtZero`: a shifted and masked byte is zero exactly when the entry's bits
  are, for the four widths of the draft. `ValidIsEntryZeroHolds` has the
  hypothesis `Indexes \subseteq Nat`, since for negative indexes the claim is
  false: that is what `status_negative` shows.
* `OtherKeyRefused` and `OutOfWindowRefused`: what makes `validateWiaAndPop` refuse.
  `AttestedPair` says which of the two transports decided.
* `ContainsScopeFindsWords`: the pass of `containsScope` over a string finds its
  words. Induction over the string is out of the prover's reach, so `ScanIsPass`
  gives the pass in closed form instead: before each character, whether a word
  that ended earlier is the one wanted (`CutBefore`), and the place after the last
  blank (`StartOf`). The closed form takes the steps of the scan (`PassSteps`), and
  any two functions that take them agree, since otherwise they would agree up to
  some greatest place and differ at the next.

### Only model-checked

* `IssuerLearns`, `PollSettles` and `NotPendingForever`: liveness under fairness is out of
  the prover's reach.

## Not modelled

* Cryptographic primitives and key files; the bytes of the Request Object, of
  client metadata and of COSE, CBOR and base64 encodings. They have no state of
  their own, and the models keep what is signed, digested and compared.
* The page's certificate confirmation: nothing in the repository sets the `cert`
  parameter that leads to it.
* Userinfo, introspection, key publication, `CredentialClaims` and
  `ResolveIdentifyScope`, which only read; error bodies and wording.
* Configuration (constants of a run of the process), static documents (metadata,
  Swagger), CORS.
* Memory growth of the maps nothing sweeps: the models keep the entries exactly
  as long as the code does, but their number is no state to bound.
