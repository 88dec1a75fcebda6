SPECIFICATION MCSpec
CONSTANTS
  b1 = b1  b2 = b2  c1 = c1  c2 = c2  s1 = s1  s2 = s2  e1 = e1  e2 = e2  r1 = r1  m1 = m1  m2 = m2
  Branches = {b1, b2}  ForkAt = 1  Depth = 2  MaxHeight = 4  MaxForks = 2
  Scenes <- MCScenes  Policies <- MCPolicies  Spacing = 4
  MinTick <- MCMinTick  MaxTick = 24
  None = None  Ragged = Ragged  Asked = Asked
  Calls <- TwoCalls  Snapshots <- TwoSnapshots  Inputs <- MCInputs  Worlds <- AllWorlds
  Provider = TRUE  WithSnapshots <- SecondCall
  WordMax = 15  WordBytes = 2  Scale = 3  DecimalMax = 20  MarketsMax = 1
  Int24 <- ShortInts  V3Ticks <- PoolTicks  Uint160Max = 7  V3Sqrt <- PoolPrices
  JudgedScopes <- SmallScopes  ReadAnswers <- Answers
  Runs <- OneRun  Executors <- TwoExecutors  Deployment <- Deployed
  MandateScopes <- NoScopes  Contexts <- TwoContexts  Requests <- SomeRequests
  Readings <- Vaults  TurnsAt = 2
CHECK_DEADLOCK FALSE
INVARIANTS
    PassIsOfBothStates RangesAgree ReadingsAreSound
PROPERTIES
    ObservedForGood
