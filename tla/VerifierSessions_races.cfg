SPECIFICATION FairVerifierSpec
CONSTANTS
  KBSkew = 2
  ValiditySkew = 1
  ResponseURI = "uri"
  ClientID = "me"
  VThreads = {t1, t2}
  Sessions = {s1}
  Holders = {k1, k2}
  Queries <- MCQueries
  ResponseMode = "direct_post.jwt"
  VPTokens <- MCTokens
  ListAnswers <- MCLists
  SessionTTL = 1
  RequestTTL = 1
INVARIANTS IndexesAgree VerifiedIsBound RequestDiesWithSession
PROPERTIES KeepsOutcomePromise PollSettles
