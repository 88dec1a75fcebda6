\* Each scene with the bounds its instance names in the module.
CONSTANTS
    None = None
    Selected = {"journal", "seller", "reads", "services", "interface", "exchange", "policy"}
    cmd1 = cmd1
    cmd2 = cmd2
    t1 = t1
    j1 = j1
    n1 = n1
    a1 = a1
    empty = empty
    k1 = k1
    k2 = k2
    p1 = p1
    r1 = r1
    c1 = c1
    c2 = c2
    Contracts <- MCContracts
    Zero = Zero
    Protocol = {c1}
    Proxies = {c1}
    PositionManager = PositionManager
    b1 = b1
    b2 = b2
    num1 = num1
    num2 = num2
    tx = tx
    Invalid = Invalid
    Off = Off
    NoRoute = NoRoute
    NoOutcome = NoOutcome
SPECIFICATION MCSpec
CHECK_DEADLOCK FALSE
INVARIANTS
    RequestsAreSound
PROPERTIES
    SubmissionsAreSettled FundedJobsAreDelivered EveryWaitEnds
