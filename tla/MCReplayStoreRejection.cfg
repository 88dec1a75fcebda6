\* Two concurrent calls, no I/O error and no power loss: one of them may be rejected.
CONSTANTS
    Op = {o1, o2}
    NoOp = NoOp
    Head = {h1}
    NoHead = NoHead
    MaxFaults = 0
    MaxPowerLoss = 0
    None = None
    Selected = {"replay"}
SPECIFICATION MCSpec
CHECK_DEADLOCK FALSE
INVARIANT ConcurrentClaimsAreAnswered
