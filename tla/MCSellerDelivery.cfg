\* seller: two jobs, one of them signed; two requests at once; one mishap.  agent and times:
\* four blocks, one reorganization; four seconds in times, none in agent.
CONSTANTS
    None = None
    j1 = j1
    j2 = j2
    n1 = n1
    n2 = n2
    a = a
    b = b
    empty = empty
    Selected = {"seller", "agent", "times"}
    Jobs <- MCJobs
    Unsigned <- MCUnsigned
    Slots <- MCSlots
    Notices = {n1, n2}
    MaxMishaps = 1
    Mandates <- MCMandates
    Position <- Place
    Spacing = 4
    Ticks <- MCTicks
    Holders = {a, b}
    Depth = 1
    Tolerance = 1
    MaxTime = 4
    MaxBlocks = 3
    MaxForks = 1
    MinTick <- Low
    MaxTick = 24
SPECIFICATION MCSpec
SYMMETRY Alike
CHECK_DEADLOCK FALSE
INVARIANTS
    DeliveredOnce SettledIsRight OnlySignedJobsAreWorked AgentIsHonest
