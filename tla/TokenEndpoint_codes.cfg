SPECIFICATION PollingSpec
CONSTANTS
  TokenThreads = {t1, t2, t3}
  Codes = {d1}
  JTIs = {j1, j2}
  RecordIDs = {"r1", "r2"}
  Clients = {"c1", "c2"}
  Keys = {"key1", "key2"}
  Challenges = {"x1", "x2"}
  Grants <- MCGrants
  TokenInputs <- MCTokenInputs
  CodeTTL = 1
  TokenTTL = 2
  Retention = 1
  MaxTime = 3
INVARIANTS OneTokenPerCode TokenMatchesGrant LateReuseRevokes RevokedStaysPublished
PROPERTY IssuerLearns
