SPECIFICATION ServerSpec
CONSTANTS
  Threads = {t1}
  TokenThreads = {w1}
  RequestURIs = {u1, u2}
  SessionTokens = {s1}
  Cookies = {k1}
  Codes = {d1}
  Records = {r1}
  JTIs = {j1}
  Clients = {"c1", "c2"}
  Keys = {"key1"}
  Challenges = {"x1", "x2"}
  IssuerStates = {"offer"}
  ParInputs <- MCParInputs
  TokenInputs <- MCTokenInputs
  NoParams = NoParams
  ParTTL = 1
  IdentifiedTTL = 10
  ReplayTTL = 2
  CodeTTL = 1
  TokenTTL = 2
  Retention = 1
  MaxTime = 1
SYMMETRY Pools
INVARIANTS ServerTypeOK CodeBacked TokenBacked
PROPERTY ImplementsTokenEndpoint
