\* Two commands.  lifecycle: all four steps, each submitted once, on a chain that only
\* grows.  reorg: the first two steps, one reorganization, one intent submitted again.
\* In both the chain outlasts the quote: a transaction may be mined too late.
CONSTANTS
    Cmd = {c1, c2}
    Tx = {t1, t2, t3, t4}
    NoTx = NoTx
    ConfirmationDepth = 1
    QuoteExpiresAt = 6
    StepBudget = 1
    ClockSkew = 0
    FundingBuffer = 0
    MaxHeight = 7
    MaxForks = 1
    MaxResubmissions = 1
    MaxFailures = 0
    Selected = {"lifecycle", "reorg"}
    ReorgExpiresAt = 3
    ReorgHeight = 5
    ReorgStepBudget = 0
    ReorgTxs = 3
SPECIFICATION MCSpec
SYMMETRY Symmetry
CHECK_DEADLOCK FALSE
INVARIANTS
    DraftsAreAccepted JournalIsOnChain CleanupMatchesJob ConfirmedInTime
PROPERTIES
    HistoryIsFinal
