SPECIFICATION MCSpec
CONSTANTS
  k1 = k1  k2 = k2  k3 = k3  r1 = r1  pub1 = pub1  pub2 = pub2  pub3 = pub3  def1 = def1  mode = mode
  KeyIds = {k1, k2, k3}
  ReleaseIds = {r1}
  Bindings = {pub1, pub2, pub3, def1}
  Modes = {mode}
  Enables <- MCEnables
  Drafts <- MCDrafts
  FloorGeneration = 1  FloorEpoch = 0
  MaxTtl = 2  MaxSkew = 0  MaxOverlap = 3
  MaxTime = 4
  NoEntry = NoEntry  NoBundle = NoBundle  None = None
  Candidates <- AllCandidates  Keys = {k1, k2}  PinnedKey = k1  Ttl = 3  CoreSkew = 2
  MaxCandidates = 2  Mandates <- AllMandates  Drifts <- AllDrifts  Offers <- AllOffers
  Lags <- AllLags  Leads <- AllLeads  LastSecond = 8  MaxIssued = 3  MaxResults = 2
  QuoteRank <- RanksOfQuotes  MaxSubmitted = 3  Settings <- MCSettings
  c1 = c1  c2 = c2  alice = alice
  Captures = {c1, c2}
  Manifest <- TwoCandidates
  Branches = {b1, b2}
  ForkAt = 1  Depth = 1  Ahead = 1  MaxHeight = 2  MaxForks = 2
  MaxOutages = 1
  Scenes <- Owners
  FirstRevoked = {}
  Selected = {"bundle", "windows", "order", "comparison", "candidate", "run"}
CHECK_DEADLOCK FALSE
INVARIANTS
    AcceptedIsSound EvaluationsAreFair
PROPERTIES
    IdentitiesArePermanent SupplyIsHonest
