SPECIFICATION PageSpec
CONSTANTS
  PageTabs = {b1, b2}
  RequestURIs = {u1, u2}
  PageSessions = {s1, s2}
  CookieMaxAge = 1
  RequestURITTL = 1
  IdentTTL = 2
  PageReplayTTL = 1
SYMMETRY PageNames
PROPERTY NotAskedTwice
