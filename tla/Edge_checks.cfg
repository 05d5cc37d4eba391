SPECIFICATION EdgeSpec
CONSTANTS
  StatusLists <- MCLists
  Bytes = {0, 1, 2, 16, 36, 128, 201, 255}
  MaxBytes = 2
  Widths = {0, 2, 4, 8, 16}
  Indexes = {0, 1, 2, 3, 4, 5, 6, 7, 8, 9, 10, 11, 12, 13, 14, 15, 16, 17}
  KBSkew = 2
  ValiditySkew = 1
  ResponseURI = "uri"
  ClientID = "me"
  IATWindow = 3
  Responses <- Cases
  JudgeTimes = {0, 3, 4, 5}
  Listings <- MCListings
  Nonces = {"n1", "n2", "n3"}
  ResponseKeys = {"", "e1", "e2"}
  Selections <- MCSelections
  AttestedRequests <- MCAttestedRequests
  Anchors = {"", "ca"}
  Audience = "https://idp"
  ResolveTimes = {0, 3, 4}
  Docs <- MCDocs
  Characters = {" ", "o", "i"}
  OpenID <- MCOpenID
  ScopeParameters <- MCScopeParameters
  WalletKeys = {"k1", "k2", "k3"}
  Requests = {q1, q2, q3}
  JTIs = {"j1", "j2", "j3"}
  Proofs <- MCProofs
  Headers <- MCHeaders
  MaxSize = 2
  EvictCount = 1
  Window = 1
  MaxTime = 4
SYMMETRY Anonymous
INVARIANTS
  ValidIsEntryZero
  NotTransferable
  BoundToResponseKey
  ClaimsAreCommitted
  DisclosuresAreSealed
  OneHolder
  StatusDecides
  PossessionProved
  PoPExpires
  OpenIDIsAWord
  JTIStoreBounded
  ReplayOnlyAfterEviction
  NothingDroppedWithinCapacity
  ReplayHorizon
CHECK_DEADLOCK FALSE
