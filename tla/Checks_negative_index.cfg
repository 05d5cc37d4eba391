SPECIFICATION ChecksSpec
CONSTANTS
  StatusLists <- MCLists
  Bytes = {0, 1, 2, 16, 36, 128, 201, 255}
  MaxBytes = 2
  Widths = {0, 2, 4, 8, 16}
  Indexes <- MCEdge
  KBSkew = 2
  ValiditySkew = 1
  ResponseURI = "uri"
  ClientID = "me"
  IATWindow = 3
  Responses <- Cases
  JudgeTimes = {0, 3, 4, 5}
  Listings <- MCListings
  Nonces = {"n1", "n2", "n3"}
  ResponseKeys = {"", "e1", "e2"}
  Selections <- MCSelections
  AttestedRequests <- MCAttestedRequests
  Anchors = {"", "ca"}
  Audience = "https://idp"
  ResolveTimes = {0, 3, 4}
  Docs <- MCDocs
  Characters = {" ", "o", "i"}
  OpenID <- MCOpenID
  ScopeParameters <- MCScopeParameters
  WalletKeys = {"k1", "k2", "k3"}
INVARIANT OutOfRangeRefused
CHECK_DEADLOCK FALSE
