\* Two calls, the first of which is killed.
CONSTANTS
    Call = {c1, c2}
    NoCall = NoCall
    Term = {t1}
    NoTerm = NoTerm
    Inode = {i1, i2, i3}
    NoInode = NoInode
    MaxMishaps = 1
SPECIFICATION Spec
SYMMETRY Symmetry
CHECK_DEADLOCK FALSE
INVARIANT CrashLeavesRecoverableJournal
