\* Three calls; up to two kills, failing system calls or power losses.
CONSTANTS
    Call = {c1, c2, c3}
    NoCall = NoCall
    Term = {t1, t2}
    NoTerm = NoTerm
    Inode = {i1, i2, i3}
    NoInode = NoInode
    MaxMishaps = 2
SPECIFICATION Spec
SYMMETRY Symmetry
CHECK_DEADLOCK FALSE
INVARIANTS
    JournalIsWhole LoneCallStores
PROPERTIES
    ImplementsJournalHead
