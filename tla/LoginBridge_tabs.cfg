SPECIFICATION LoginSpec
CONSTANTS
  Sessions = {s1, s2}
  Subjects = {h1, h2}
  None = None
  Failed = Failed
  Tabs = {b1, b2}
  TokenCalls = {c1}
  AuthIDs = {a1}
  Codes = {d1}
  Clients = {"rp"}
  AuthInputs <- MCScopes
  Verifiers = {"x1"}
  AuthTTL = 1
  CodeTTL = 1
SYMMETRY Names
INVARIANTS LoginBacked
