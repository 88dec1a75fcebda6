SPECIFICATION MCSpec
CONSTANTS
  Calls = {c1, c2, c3}  Options <- MCOptions
  MinRemaining = 3  Dispute = 1  Buffer = 1  Ttls = {4, 6}
  Depth = 1  Lag = 1  Start = 2  MaxHeight = 5  MaxQuotes = 1
  Attempts = {a1, a2}  Modes = {"quote", "preview", "evaluation"}
  Remaining = 1  Tolerance = 1  Skew = 1  MaxPassiveAge = 5  MaxTtl = 5
  Mandates <- MCMandates  Passives <- MCPassives  Deadlines = {5, 7, 12}
  Quotes <- MCQuotes  Flaws <- MCFlaws  From = 3  MaxTime = 10  MaxMade = 2
  None = None
SYMMETRY Symmetry
CHECK_DEADLOCK FALSE
INVARIANTS
    PrintedIsSound SpentIsSound ValidationsSpendOnce
PROPERTIES
    SpendsAsPromised
