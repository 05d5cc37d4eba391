SPECIFICATION RefreshSpec
CONSTANTS
  RefreshCalls = {c1, c2}
  RefreshNames = {k1, k2, k3, k4}
  Logins = {l1, l2}
  RPs = {r1, r2}
  RefreshSubjects = {h1, h2}
  RefreshTTL = 1
SYMMETRY Names
INVARIANTS LineageKept RetiredStaysGone
