---------------------------- MODULE TokenEndpoint ----------------------------
(***************************************************************************)
(* From an authorization code to an access token, and from a reused code   *)
(* to the denylist: HandleAuthCodeToken and RevokedJTIs of internal/authz, *)
(* over authCodes, issuedJTIByCode and revokedJTIs of internal/session's   *)
(* Store.                                                                  *)
(*                                                                         *)
(* As in Authorize, a request is a thread and each critical section of the *)
(* store's mutex is a step.                                                *)
(***************************************************************************)
EXTENDS Integers, GoMaps

CONSTANTS
  TokenThreads,  \* token requests the server works on at the same time
  Codes,         \* authorization codes
  JTIs,          \* values RandomJTI returns
  RecordIDs, Clients, Keys, Challenges,
  Grants,        \* what authorization codes may stand for
  TokenInputs,   \* the token requests clients send
  CodeTTL,       \* authCodeTTL
  TokenTTL,      \* oauth2.AccessTokenTTL
  Retention,     \* revokedJTIRetention
  MaxTime        \* bound on the clock

ASSUME TokenTimeAssumption ==
  /\ CodeTTL \in Nat /\ TokenTTL \in Nat /\ Retention \in Nat
  /\ MaxTime \in Nat

\* What the comment on revokedJTIRetention asks for: a denylist entry must
\* outlive the token it names.
ASSUME RetentionAssumption == 2 * Retention >= TokenTTL

ASSUME TokenNamesAssumption == "" \notin Clients \cup Keys \cup Challenges \cup Codes

NoValue == ""

\* authCodeMetadata: what a code is bound to
Grant == [record : RecordIDs, client : Clients, challenge : Challenges,
          jkt : Keys \cup {NoValue}]

\* A token request, its code apart: the attested client, the client_id
\* parameter, the key of its DPoP proof, and the challenge its code_verifier
\* hashes to.
TokenInput == [attested : Clients \cup {NoValue, "error"},
               clientID : Clients \cup {NoValue},
               proof    : Keys \cup {"error"},
               verifier : Challenges \cup {NoValue}]

ASSUME TokenInputsAssumption == TokenInputs \subseteq TokenInput /\ Grants \subseteq Grant

VARIABLES
  now,              \* the wall clock
  authCodes,        \* authorization code -> grant and creation time
  issuedJTIByCode,  \* code -> jti of the token minted from it
  revokedJTIs,      \* revoked jti -> until when it is published
  treq,             \* thread -> the token request it is serving
  minted,           \* every access token signed: jti -> claims
  denylist,         \* the Credential Issuer's copy of the denylist
  \* History variables, read by no action.
  granted,          \* every code created -> its grant
  answered,         \* codes whose token was sent, since the last restart
  late,             \* threads whose code had been answered when they arrived
  reused,           \* codes presented again once used, since the last restart
  revoked           \* tokens revoked since the last restart

tokenStore == <<issuedJTIByCode, revokedJTIs>>
tokenHistory == <<answered, late, reused, revoked>>
tokenVars == <<now, authCodes, tokenStore, treq, minted, denylist, granted,
               tokenHistory>>

-----------------------------------------------------------------------------
\* Types

AuthCodeData == [record : RecordIDs, client : Clients, challenge : Challenges,
                 jkt : Keys \cup {NoValue}, at : Nat]

\* The claims of an access token; its code is not one of them.
Token == [code : Codes, client : Clients, key : Keys, record : RecordIDs,
          exp : Nat]

TokenRequest ==
  [pc      : {"idle", "mint", "record", "revoke", "done"},
   code    : Codes \cup {NoValue},
   client  : Clients \cup {NoValue},
   key     : Keys \cup {NoValue},
   record  : RecordIDs \cup {NoValue},
   jti     : JTIs \cup {NoValue},
   outcome : {"token", "invalid_grant", "invalid_request", NoValue}]

TokenIdle == [pc |-> "idle", code |-> NoValue, client |-> NoValue,
              key |-> NoValue, record |-> NoValue, jti |-> NoValue,
              outcome |-> NoValue]

TokenTypeOK ==
  /\ now \in Nat
  /\ IsMap(authCodes, Codes, AuthCodeData)
  /\ IsMap(issuedJTIByCode, Codes, JTIs)
  /\ IsMap(revokedJTIs, JTIs, Nat)
  /\ treq \in [TokenThreads -> TokenRequest]
  /\ IsMap(minted, JTIs, Token)
  /\ denylist \subseteq JTIs
  /\ IsMap(granted, Codes, Grant)
  /\ answered \subseteq Codes
  /\ late \subseteq TokenThreads
  /\ reused \subseteq Codes
  /\ revoked \subseteq JTIs

TokenInit ==
  /\ now = 0
  /\ authCodes = EmptyMap
  /\ issuedJTIByCode = EmptyMap
  /\ revokedJTIs = EmptyMap
  /\ treq = [t \in TokenThreads |-> TokenIdle]
  /\ minted = EmptyMap
  /\ denylist = {}
  /\ granted = EmptyMap
  /\ answered = {}
  /\ late = {}
  /\ reused = {}
  /\ revoked = {}

-----------------------------------------------------------------------------
\* CreateAuthCode: /authorize completes (module Authorize) with grant g.
IssueCode(code, g) ==
  /\ code \notin DOMAIN granted
  /\ authCodes' = Put(authCodes, code,
       [record |-> g.record, client |-> g.client, challenge |-> g.challenge,
        jkt |-> g.jkt, at |-> now])
  /\ granted' = Put(granted, code, g)
  /\ UNCHANGED <<now, tokenStore, treq, minted, denylist, tokenHistory>>

-----------------------------------------------------------------------------
\* POST /oid4vci/v1/token

\* Client attestation, client_id and DPoP proof; a request that fails here
\* is answered before the code is looked at and changes nothing.
Authentic(in) ==
  /\ in.attested \in Clients
  /\ in.clientID \in {NoValue, in.attested}
  /\ in.proof # "error"

\* Mutant: any attested client may redeem any code.
GrantMatchesAnyClient(d, in) ==
  /\ d.jkt \in {NoValue, in.proof}
  /\ in.verifier # NoValue /\ in.verifier = d.challenge

\* The bindings checked once the code is consumed: client, DPoP key, PKCE.
GrantMatches(d, in) ==
  /\ d.client = in.attested
  /\ d.jkt \in {NoValue, in.proof}
  /\ in.verifier # NoValue /\ in.verifier = d.challenge

\* Mutant: the code is only looked up.
DropAuthCodePeek(code) == UNCHANGED authCodes

DropAuthCode(code) == authCodes' = Delete(authCodes, code)

AuthCodeLive(code) ==
  /\ code \in DOMAIN authCodes
  /\ now - authCodes[code].at <= CodeTTL

\* Mutant: a code that is gone is simply unknown.
WasIssuedNever(code) == FALSE

WasIssued(code) == code \in DOMAIN issuedJTIByCode

\* ConsumeAuthCode with the checks that precede it and the ones that follow:
\* the code is used up whatever the outcome.
ConsumeAuthCode(t, code, in) ==
  LET start(pc, outcome) ==
        treq' = [treq EXCEPT ![t] =
          [pc |-> pc, code |-> code, client |-> in.attested, key |-> in.proof,
           record |-> IF pc = "mint" THEN authCodes[code].record ELSE NoValue,
           jti |-> NoValue, outcome |-> outcome]]
  IN /\ treq[t].pc = "idle"
     /\ Authentic(in)
     /\ DropAuthCode(code)
     /\ \/ /\ code \notin DOMAIN authCodes
           /\ IF WasIssued(code) THEN start("revoke", NoValue)
                                 ELSE start("done", "invalid_grant")
        \/ /\ code \in DOMAIN authCodes /\ ~AuthCodeLive(code)
           /\ start("done", "invalid_grant")
        \/ /\ AuthCodeLive(code)
           /\ IF GrantMatches(authCodes[code], in)
                THEN start("mint", NoValue)
                ELSE start("done", "invalid_grant")
     /\ late' = IF code \in answered THEN late \cup {t} ELSE late
     /\ reused' = IF code \in DOMAIN authCodes THEN reused
                                               ELSE reused \cup {code}
     /\ UNCHANGED <<now, tokenStore, minted, denylist, granted, answered,
                    revoked>>

\* Minter.Mint: the token is signed; nobody has it yet.
Mint(t, jti) ==
  LET r == treq[t]
  IN /\ r.pc = "mint"
     /\ jti \notin DOMAIN minted
     /\ minted' = Put(minted, jti, [code |-> r.code, client |-> r.client,
          key |-> r.key, record |-> r.record, exp |-> now + TokenTTL])
     /\ treq' = [treq EXCEPT ![t].pc = "record", ![t].jti = jti]
     /\ UNCHANGED <<now, authCodes, tokenStore, denylist, granted,
                    tokenHistory>>

\* Signing fails; the code stays used up.
MintFails(t) ==
  /\ treq[t].pc = "mint"
  /\ treq' = [treq EXCEPT ![t].pc = "done", ![t].outcome = "invalid_request"]
  /\ UNCHANGED <<now, authCodes, tokenStore, minted, denylist, granted,
                 tokenHistory>>

\* Mutant: the arguments of RecordIssuedJTI are swapped.
IssuedJTISwapped(code, jti) == Put(issuedJTIByCode, jti, code)

IssuedJTI(code, jti) == Put(issuedJTIByCode, code, jti)

RecordIssuedJTI(t) ==
  /\ treq[t].pc = "record"
  /\ issuedJTIByCode' = IssuedJTI(treq[t].code, treq[t].jti)
  /\ treq' = [treq EXCEPT ![t].pc = "done", ![t].outcome = "token"]
  /\ UNCHANGED <<now, authCodes, revokedJTIs, minted, denylist, granted,
                 tokenHistory>>

\* Mutant: the retention is not doubled.
PublishedUntilShort == now + Retention

PublishedUntil == now + 2 * Retention

\* Another reuse may have come first and revoked the token already.
RevokeTokensForCode(t) ==
  LET code == treq[t].code
      jti  == issuedJTIByCode[code]
  IN /\ treq[t].pc = "revoke"
     /\ \/ /\ WasIssued(code)
           /\ issuedJTIByCode' = Delete(issuedJTIByCode, code)
           /\ revokedJTIs' = Put(revokedJTIs, jti, PublishedUntil)
           /\ revoked' = revoked \cup {jti}
        \/ /\ ~WasIssued(code)
           /\ UNCHANGED <<tokenStore, revoked>>
     /\ treq' = [treq EXCEPT ![t].pc = "done", ![t].outcome = "invalid_grant"]
     /\ UNCHANGED <<now, authCodes, minted, denylist, granted, answered, late,
                    reused>>

TokenReply(t) ==
  /\ treq[t].pc = "done"
  /\ answered' = IF treq[t].outcome = "token" THEN answered \cup {treq[t].code}
                                              ELSE answered
  /\ late' = late \ {t}
  /\ treq' = [treq EXCEPT ![t] = TokenIdle]
  /\ UNCHANGED <<now, authCodes, tokenStore, minted, denylist, granted,
                 reused, revoked>>

-----------------------------------------------------------------------------
\* GET /oid4vci/v1/revoked-tokens

\* Mutant: a jti drops out as soon as its own token cannot have been revoked
\* any earlier.
PublishedStrict(jti) == now < revokedJTIs[jti] - Retention

Published(jti) == now <= revokedJTIs[jti]

\* The Credential Issuer polls: expired entries are dropped, the others
\* returned.
RevokedJTIs ==
  LET live == {jti \in DOMAIN revokedJTIs : Published(jti)}
  IN /\ revokedJTIs' = Restrict(revokedJTIs, live)
     /\ denylist' = live
     /\ UNCHANGED <<now, authCodes, issuedJTIByCode, treq, minted, granted,
                    tokenHistory>>

-----------------------------------------------------------------------------
\* The environment

TokenTick ==
  /\ now < MaxTime
  /\ now' = now + 1
  /\ UNCHANGED <<authCodes, tokenStore, treq, minted, denylist, granted,
                 tokenHistory>>

\* The store starts empty again; the signing key is persistent, so tokens
\* already signed stay valid.
TokenRestart ==
  /\ authCodes' = EmptyMap
  /\ issuedJTIByCode' = EmptyMap
  /\ revokedJTIs' = EmptyMap
  /\ treq' = [t \in TokenThreads |-> TokenIdle]
  /\ answered' = {}
  /\ late' = {}
  /\ reused' = {}
  /\ revoked' = {}
  /\ UNCHANGED <<now, minted, denylist, granted>>

TokenArrive(t) ==
  \E code \in DOMAIN granted, in \in TokenInputs : ConsumeAuthCode(t, code, in)

TokenContinue(t) ==
  \/ \E jti \in JTIs : Mint(t, jti)
  \/ MintFails(t)
  \/ RecordIssuedJTI(t)
  \/ RevokeTokensForCode(t)
  \/ TokenReply(t)

TokenNext ==
  \/ \E code \in Codes, g \in Grants : IssueCode(code, g)
  \/ \E t \in TokenThreads : TokenArrive(t) \/ TokenContinue(t)
  \/ RevokedJTIs
  \/ TokenTick
  \/ TokenRestart

TokenSpec == TokenInit /\ [][TokenNext]_tokenVars

\* The Credential Issuer keeps polling; nothing else is promised.
PollingSpec == TokenSpec /\ WF_tokenVars(RevokedJTIs)

-----------------------------------------------------------------------------
\* Properties

\* A code mints at most one access token, ever: not through concurrent
\* redemptions, not after a restart (ConsumeAuthCode).
OneTokenPerCode ==
  \A j, k \in DOMAIN minted : minted[j].code = minted[k].code => j = k

\* Every access token names the client and the issuance record its code was
\* issued for, and is bound to the DPoP key declared at the PAR endpoint if
\* one was (HandleAuthCodeToken).
TokenMatchesGrant ==
  \A j \in DOMAIN minted :
    /\ minted[j].code \in DOMAIN granted
    /\ LET g == granted[minted[j].code]
       IN /\ minted[j].client = g.client
          /\ minted[j].record = g.record
          /\ g.jkt \in {NoValue, minted[j].key}

\* Presenting a code again after its token was sent revokes that token: when
\* the second request is refused, the token minted from the code has been
\* put on the denylist, whoever else was redeeming or reusing the code at the
\* same time (HandleAuthCodeToken, RFC 6749 4.1.2).
LateReuseRevokes ==
  \A t \in late :
    treq[t].pc = "done" =>
      \E j \in revoked : minted[j].code = treq[t].code

\* As long as a revoked token has not expired, the next poll of the denylist
\* returns its jti: the entry does not lapse before the token does
\* (RevokeTokensForCode, revokedJTIRetention).
RevokedStaysPublished ==
  \A j \in revoked :
    now <= minted[j].exp => j \in DOMAIN revokedJTIs /\ Published(j)

\* A revoked token ends up on the Credential Issuer's copy of the denylist,
\* unless it expires first or this server restarts.
IssuerLearns ==
  \A j \in JTIs :
    j \in revoked ~> \/ j \in denylist
                     \/ j \notin revoked
                     \/ now > minted[j].exp

\* Stated by ConsumeAuthCode ("reuse of a code MUST be denied and the tokens
\* it issued SHOULD be revoked") and by the README: once nobody works on a
\* code that was presented again after its use, the token it minted has been
\* revoked.
ReusedCodeRevokes ==
  \A j \in DOMAIN minted :
    /\ minted[j].code \in reused
    /\ \A t \in TokenThreads : treq[t].code # minted[j].code
    /\ minted[j].code \in answered
    => j \in revoked

=============================================================================
