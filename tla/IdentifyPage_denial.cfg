SPECIFICATION PageSpec
CONSTANTS
  PageTabs = {b1}
  RequestURIs = {u1}
  PageSessions = {s1}
  CookieMaxAge = 1
  RequestURITTL = 1
  IdentTTL = 2
  PageReplayTTL = 1
SYMMETRY PageNames
INVARIANT DenialHolds
