SPECIFICATION FairLoginSpec
CONSTANTS
  Sessions = {s1, s2}
  Subjects = {h1}
  None = None
  Failed = Failed
  Tabs = {b1}
  TokenCalls = {c1, c2}
  AuthIDs = {a1, a2}
  Codes = {d1}
  Clients = {"rp"}
  AuthInputs <- MCMethods
  Verifiers = {"x1", "x2"}
  AuthTTL = 1
  CodeTTL = 1
INVARIANTS LoginBacked CodeRedeemedOnce
PROPERTY NotPendingForever
