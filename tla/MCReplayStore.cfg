\* Three calls of either, two heads, one I/O error and one power loss.
CONSTANTS
    Op = {o1, o2, o3}
    NoOp = NoOp
    Head = {h1, h2}
    NoHead = NoHead
    MaxFaults = 1
    MaxPowerLoss = 1
    None = None
    Selected = {"replay", "staging"}
SPECIFICATION MCSpec
SYMMETRY Symmetry
CHECK_DEADLOCK FALSE
INVARIANTS
    AnsweredClaimIsDurable MarkerIsComplete LoneCallRecovers StagedArtifactsSurvive
PROPERTIES
    ImplementsReplayClaim
