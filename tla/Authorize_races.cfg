SPECIFICATION Spec
CONSTANTS
  Threads = {t1, t2}
  RequestURIs = {u1}
  SessionTokens = {s1}
  Cookies = {k1, k2}
  Codes = {d1, d2}
  Records = {r1, r2}
  Clients = {"c1", "c2"}
  Keys = {"key1", "key2"}
  Challenges = {"x1", "x2"}
  IssuerStates = {"offer"}
  ParInputs <- MCParInputs
  NoParams = NoParams
  ParTTL = 1
  IdentifiedTTL = 10
  ReplayTTL = 2
  MaxTime = 3
SYMMETRY Pools
INVARIANTS OneCodePerOffer SessionAnswersAgree CompletedOrRejected
PROPERTY OnlyCompletionBurns
