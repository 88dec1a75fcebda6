\* Three calls, none of which is killed or meets a failing system call.
CONSTANTS
    Call = {c1, c2, c3}
    NoCall = NoCall
    Term = {t1}
    NoTerm = NoTerm
    Inode = {i1, i2, i3}
    NoInode = NoInode
    MaxMishaps = 0
SPECIFICATION Spec
SYMMETRY Symmetry
CHECK_DEADLOCK FALSE
INVARIANT StoredStaysInJournal
