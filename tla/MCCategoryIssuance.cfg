SPECIFICATION MCSpec
CONSTANTS
  old = old  new = new  k1 = k1  k2 = k2  w1 = w1  w2 = w2  probe = probe  x = x  y = y
  r1 = r1  r2 = r2  c1 = c1  c2 = c2  act = act  m1 = m1  m2 = m2  d1 = d1  d2 = d2
  pool = pool  vault = vault  alice = alice  bob = bob  b1 = b1  b2 = b2  q1 = q1  q2 = q2
  NoBundle = NoBundle
  None = None
  Bundles <- MCBundles
  Keys <- MCKeys
  Calls <- MCCalls
  Workflows <- MCWorkflows
  Blocks <- MCBlocks
  Generation <- MCGeneration
  RevocationEpoch <- MCRevocationEpoch
  Revoked <- MCRevoked
  ActiveSigner <- MCActiveSigner
  Wire <- MCWire
  Signer <- MCSigner
  RollbackFloor = 1
  MaxMishaps = 1
  MaxAttempts = 3
  Captures = {c1, c2}  Branches = {b1, b2}  ForkAt = 1  Depth = 1  Ahead = 1
  MaxHeight = 3  MaxForks = 2  MaxTime = 4  Scenes <- MCScenes
  Signers = {alice, bob}  Ttl = 2  IdentityAge = 2  Request <- MCRequest
  Wanted <- MCWanted  EvidenceAnchors <- MCAnchors  OwnerOf <- MCOwner  Terms <- MCTerms
  Assurances = {"instance", "interface"}  Previews = {"passed", "failed", "unavailable"}
  Profiles <- MCProfiles  Trust <- MCTrust  Minimum = "interface"
  MinRemaining = 2  EvidenceAge = 3
  Conditioned <- MCConditions  Releases <- MCReleases  PinnedRelease <- First
  Adapters <- MCAdapters  Lags <- MCLags  CoreSkew = 1  MaxSteps = 1
  Drifts <- MCDrifts  MaxTtl = 4  MaxClock = 8  MaxIssued = 2
SYMMETRY MCSymmetry
CHECK_DEADLOCK FALSE
INVARIANTS
    OneAttestationPerKey ReservationsAreOwned QuotesAreSound VerdictsAreLive
PROPERTIES
    SignedUnderCurrentTrust TrustNeverRollsBack HandedOutLive
