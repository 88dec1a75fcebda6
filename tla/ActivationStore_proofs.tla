------------------------ MODULE ActivationStore_proofs ------------------------
(***************************************************************************)
(* Proofs about ActivationStore, for any number of calls, inodes, terms    *)
(* and mishaps.                                                            *)
(*                                                                         *)
(* The argument.  A name reaches the head or the marker only after its     *)
(* files were written and then synced, or taken over as they were, and no  *)
(* file that is cut short is ever completed by a second writer             *)
(* (FilesAreWhole, Authorized).                                            *)
(* Until a live lock is taken away, a call past the creation of its lock   *)
(* file owns the file at the path (LockIsHeld), so two calls are never     *)
(* there together and what one of them read under its lock still holds     *)
(* when it acts on it (ReadIsCurrent).  The head then only moves from a    *)
(* snapshot to its child, each snapshot gets one child (JournalIsChain),   *)
(* and the directory lags behind by one unreported move at most            *)
(* (DiskFollows).  A call that runs alone needs none of this: nobody else  *)
(* takes a step while it runs (LoneCallIsAlone, LoneLock, LoneCommit).     *)
(***************************************************************************)
EXTENDS ActivationStore, TLAPS

\* The steps of a call that believes it has created the lock file.
LockPC == {"initLock", "confirmLock"} \cup CommitPC \cup ReleasePC

\* A bootstrap that has not looked at the replay marker yet, or found none.
BeforeMarker == {"inspectActivation", "stage", "claim"}

Ended == {"done", "dead"}

\* A file written through a handle is a lock file, and so is one that is being read; a
\* call has a snapshot once it has begun, and one to install once it knows the marker.
NamesAreGiven ==
    \A c \in Call :
        /\ pc[c] # "idle" => snap[c] \in Call
        /\ pc[c] \in RunningPC \ BeforeMarker => target[c] \in Call
        /\ result[c] = "INVALID_TRANSITION" => target[c] \in Call
        /\ pc[c] = "initLock" => handle[c] \in Inode
        /\ pc[c] = "readLock" => seenLock[c] # NoLock

\* Nothing names the snapshot of a call that has not begun.
IdleIsUnknown ==
    \A s \in Call : pc[s] = "idle" =>
        /\ s \notin history /\ s \notin partial \cup unsynced
        /\ s \notin {head.snap, diskHead.snap, marker}
        /\ \A c \in Call : s \notin {snap[c], target[c], parent[c]}
        /\ kind[s] = "persist" /\ parent[s] = NoCall

OnlyDoneCallsAnswer ==
    \A c \in Call :
        /\ result[c] # "none" => pc[c] = "done"
        /\ pc[c] = "idle" => code[c] = "none"

\* What each call passes to the commit.
Authorized ==
    \A c \in Call :
        /\ kind[c] = "bootstrap" =>
            /\ snap[c] = c /\ parent[c] = NoCall
            /\ pc[c] = "claim" => c \in artifacts
            /\ pc[c] \in RunningPC \ BeforeMarker => target[c] = marker /\ marker # NoCall
        /\ kind[c] = "persist" /\ pc[c] # "idle" =>
            /\ snap[c] \in Call /\ target[c] = snap[c]
            /\ kind[snap[c]] = "persist" /\ parent[snap[c]] \in Call
            /\ snap[c] = c \/ (pc[snap[c]] \in Ended /\ parent[c] = NoCall)
            /\ pc[c] \notin ClaimPC
            /\ Running(c) => head.snap # NoCall
        /\ pc[c] \in WritePC => kind[c] = "persist"
        /\ pc[c] \in {"syncArtifacts", "recheck", "rename"} => target[c] \in artifacts

\* No file is both whole and cut short.  What is cut short or not synced was written for a
\* persisted snapshot, by a call past the creation of its files; a file has one writer; and
\* what goes into the head, or is there, was synced or taken over as it was.
FilesAreWhole ==
    /\ artifacts \cap partial = {}
    /\ \A s \in partial \cup unsynced :
          /\ kind[s] = "persist" /\ parent[s] # NoCall
          /\ pc[s] \in Ended \cup ReleasePC \cup {"fillArtifacts", "syncArtifacts"}
    /\ \A c \in Call : pc[c] = "fillArtifacts" =>
          /\ target[c] \in partial
          /\ \A d \in Call : pc[d] = "fillArtifacts" /\ target[d] = target[c] => d = c
    /\ \A c \in Call : pc[c] \in {"recheck", "rename"} => target[c] \notin unsynced \ adopted
    /\ head.snap \notin unsynced \ adopted /\ diskHead.snap \notin unsynced \ adopted
    /\ marker # NoCall => kind[marker] = "bootstrap"
    /\ NamedSnapshotsAreComplete

LockIsHeld ==
    ~broken => \A c \in Call : pc[c] \in LockPC =>
        /\ lock.ino = handle[c] /\ lock.owner = c
        /\ pc[c] # "initLock" => lock.full

\* What a call found under its lock.
ReadIsCurrent ==
    ~broken => \A c \in Call :
        /\ pc[c] \in {"recheck", "rename"} \cup WritePC =>
            parent[target[c]] = head.snap /\ head.snap # target[c]
        /\ pc[c] = "rename" => diskHead = head
        /\ pc[c] \in {"syncHead", "reread"} => head.snap = target[c]
        /\ pc[c] \in ReleasePC /\ code[c] = "none" => head.snap = target[c]

JournalIsChain ==
    ~broken =>
        /\ \A s \in history : parent[s] \in history \cup {NoCall} /\ parent[s] # head.snap
        /\ \A s, t \in history : parent[s] = parent[t] => s = t
        /\ head.snap \in history \cup {NoCall}

DiskFollows ==
    ~broken => \/ diskHead = head
               \/ /\ head.snap \in history \ Stored
                  /\ diskHead.snap = parent[head.snap]

StoredWasHead == ~broken => Stored \subseteq history

SafeInv ==
    /\ TypeOK /\ NamesAreGiven
    /\ IdleIsUnknown /\ OnlyDoneCallsAnswer
    /\ Authorized /\ FilesAreWhole /\ JournalStartsAtMarker
    /\ LockIsHeld /\ ReadIsCurrent /\ JournalIsChain /\ DiskFollows /\ StoredWasHead

-----------------------------------------------------------------------------
Alone(c) == Running(c) /\ c \notin overlapped

LoneCallIsAlone == \A c, q \in Call : Alone(c) /\ Running(q) => q = c

\* A call that has not created a lock file is the owner of none.
OwnersHaveLocked ==
    \A c \in Call : pc[c] \notin LockPC \cup Ended =>
        /\ lock.owner # c
        /\ \A q \in Call : aside[q].owner # c /\ seenLock[q].owner # c

\* The lock file that a lone call inspects does not change under it, and the one it
\* creates is not taken away.
LoneLock ==
    \A c \in Call : Alone(c) =>
        /\ pc[c] \in {"readLock", "judgeLock", "quarantine"} => seenLock[c] = lock
        /\ pc[c] \in {"judgeLock", "quarantine"} => lock # NoLock
        /\ pc[c] = "verifyQuarantine" => aside[c].ino = seenLock[c].ino
        /\ pc[c] \in LockPC => /\ lock.ino = handle[c] /\ lock.owner = c
                               /\ pc[c] # "initLock" => lock.full

\* What a lone call may be refused for: the head is not what its snapshot was derived
\* from, or names artifacts that a power loss took.
Refused(c) ==
    \/ code[c] = "COMPARE_AND_SWAP_FAILED" /\ base[c].snap \notin {target[c], NoCall}
    \/ code[c] = "HEAD_INTEGRITY_FAILED" /\ base[c].snap \in adopted \cap cut

LoneCommit ==
    \A c \in Call : Alone(c) /\ c \notin faulty /\ (kind[c] = "persist" => target[c] = c) =>
        /\ pc[c] \notin ReleasePC => code[c] = "none"
        /\ pc[c] \in ReleasePC => code[c] = "none" \/ Refused(c)
        /\ pc[c] \in {"recheck"} \cup WritePC => base[c] = head
        /\ pc[c] \in {"syncHead", "reread"} => head.snap = target[c]

LoneInv ==
    /\ SafeInv
    /\ LoneCallIsAlone /\ OwnersHaveLocked /\ LoneLock /\ LoneCommit /\ LoneCallStores

-----------------------------------------------------------------------------
(* Type correctness *)

TypeInv == TypeOK /\ NamesAreGiven

\* What a head file is, and that it names a snapshot unless there is none.
LEMMA HeadFileType ==
    /\ NoHead \in HeadFile
    /\ \A s, c \in Call : [snap |-> s, by |-> c] \in HeadFile
    /\ \A h \in HeadFile : h.snap \in Call \cup {NoCall} /\ (h.snap = NoCall <=> h = NoHead)
<1>1. NoHead \in HeadFile
  BY DEF HeadFile
<1>2. ASSUME NEW s \in Call, NEW c \in Call PROVE [snap |-> s, by |-> c] \in HeadFile
  BY DEF HeadFile
<1>3. ASSUME NEW h \in HeadFile
      PROVE  h.snap \in Call \cup {NoCall} /\ (h.snap = NoCall <=> h = NoHead)
  BY ConstantsAssumption DEF HeadFile, NoHead
<1> QED
  BY <1>1, <1>2, <1>3

\* What a lock file is; without an inode, an owner or a content there is none.
LEMMA LockFileType ==
    /\ NoLock \in LockFile
    /\ \A l \in LockFile :
        /\ l.ino \in Inode \cup {NoInode} /\ l.owner \in Call \cup {NoCall} /\ l.full \in BOOLEAN
        /\ l = NoLock <=> l.ino = NoInode
        /\ l = NoLock <=> l.owner = NoCall
        /\ l.full => l # NoLock
        /\ l # NoLock => [l EXCEPT !.full = TRUE] \in LockFile
        /\ \A c \in Call : l # NoLock => [l EXCEPT !.owner = c] \in LockFile
        /\ \A c \in Call : /\ [l EXCEPT !.owner = c].owner = c
                           /\ l.owner = c => [l EXCEPT !.owner = c] = l
    /\ \A i \in Inode, c \in Call, b \in BOOLEAN :
        [ino |-> i, owner |-> c, full |-> b] \in LockFile
<1>1. NoLock \in LockFile
  BY DEF LockFile
<1>2. ASSUME NEW l \in LockFile
      PROVE  /\ l.ino \in Inode \cup {NoInode} /\ l.owner \in Call \cup {NoCall}
             /\ l.full \in BOOLEAN
             /\ l = NoLock <=> l.ino = NoInode
             /\ l = NoLock <=> l.owner = NoCall
             /\ l.full => l # NoLock
  <2>1. CASE l = NoLock
    BY <2>1 DEF NoLock
  <2>2. CASE l \in [ino : Inode, owner : Call, full : BOOLEAN]
    BY <2>2, ConstantsAssumption DEF NoLock
  <2> QED
    BY <2>1, <2>2 DEF LockFile
<1>3. ASSUME NEW l \in LockFile, l # NoLock, NEW c \in Call
      PROVE  /\ [l EXCEPT !.full = TRUE] \in LockFile
             /\ [l EXCEPT !.owner = c] \in LockFile
  <2>1. l \in [ino : Inode, owner : Call, full : BOOLEAN]
    BY <1>3 DEF LockFile
  <2>2. [l EXCEPT !.full = TRUE] \in [ino : Inode, owner : Call, full : BOOLEAN]
    BY <2>1
  <2>3. [l EXCEPT !.owner = c] \in [ino : Inode, owner : Call, full : BOOLEAN]
    BY <2>1
  <2> QED
    BY <2>2, <2>3 DEF LockFile
<1>4. ASSUME NEW i \in Inode, NEW c \in Call, NEW b \in BOOLEAN
      PROVE  [ino |-> i, owner |-> c, full |-> b] \in LockFile
  BY DEF LockFile
<1>5. ASSUME NEW l \in LockFile, NEW c \in Call
      PROVE  /\ [l EXCEPT !.owner = c].owner = c
             /\ l.owner = c => [l EXCEPT !.owner = c] = l
  <2>1. CASE l = NoLock
    BY <2>1, ConstantsAssumption DEF NoLock
  <2>2. CASE l \in [ino : Inode, owner : Call, full : BOOLEAN]
    BY <2>2
  <2> QED
    BY <2>1, <2>2 DEF LockFile
<1> QED
  BY <1>1, <1>2, <1>3, <1>4, <1>5

\* The journal's directory starts within the types.
LEMMA TypeInit == Init => TypeInv
<1> SUFFICES ASSUME Init PROVE TypeInv
  OBVIOUS
<1>1. TypeOK
  <2> USE DEF Init
  <2>1. lock \in LockFile /\ aside \in [Call -> LockFile] /\ seenLock \in [Call -> LockFile]
    BY LockFileType
  <2>2. head \in HeadFile /\ diskHead \in HeadFile /\ base \in [Call -> HeadFile]
    BY HeadFileType
  <2>3. pc \in [Call -> PC] /\ code \in [Call -> Codes] /\ result \in [Call -> Results]
    BY DEF PC, Codes, Results
  <2>4. mishaps \in 0 .. MaxMishaps
    BY ConstantsAssumption
  <2> QED
    BY <2>1, <2>2, <2>3, <2>4 DEF TypeOK
<1>2. NamesAreGiven
  BY DEF Init, NamesAreGiven, RunningPC, ClaimPC, AcquirePC, CommitPC, WritePC, ReleasePC
<1> QED
  BY <1>1, <1>2 DEF TypeInv

\* No step of a call, and no mishap, leaves the types.
LEMMA TypeStep == TypeInv /\ [Next]_vars => TypeInv'
<1> SUFFICES ASSUME TypeInv, [Next]_vars PROVE TypeInv'
  OBVIOUS
<1> USE ConstantsAssumption
     DEF TypeInv, TypeOK, NamesAreGiven, PC, RunningPC, BeforeMarker,
         ClaimPC, AcquirePC, CommitPC, WritePC, ReleasePC, Codes, Results, Goto, Finish, Abort,
         NoteOverlap, files, input, env
<1>1. ASSUME NEW c \in Call, BeginBootstrap(c) PROVE TypeInv'
  BY <1>1 DEF BeginBootstrap
<1>2. ASSUME NEW c \in Call, BeginPersist(c) PROVE TypeInv'
  BY SMTT(30), <1>2, HeadFileType DEF BeginPersist
<1>3. ASSUME NEW c \in Call, InspectMarker(c) PROVE TypeInv'
  BY <1>3 DEF InspectMarker
<1>4. ASSUME NEW c \in Call, StageArtifacts(c) PROVE TypeInv'
  BY <1>4 DEF StageArtifacts
<1>5. ASSUME NEW c \in Call, ClaimReplay(c) PROVE TypeInv'
  BY <1>5 DEF ClaimReplay
<1>6. ASSUME NEW c \in Call, ReadMarkerBound(c) PROVE TypeInv'
  BY <1>6 DEF ReadMarkerBound
<1>7. ASSUME NEW c \in Call, CreateLock(c) PROVE TypeInv'
  <2>1. CASE lock # NoLock
    BY <1>7, <2>1 DEF CreateLock
  <2>2. CASE lock = NoLock
    <3>1. PICK i \in Inode : /\ lock' = [ino |-> i, owner |-> c, full |-> FALSE]
                            /\ handle' = [handle EXCEPT ![c] = i]
      BY <1>7, <2>2 DEF CreateLock
    <3>2. lock' \in LockFile
      BY <3>1, LockFileType
    <3> QED
      BY <1>7, <2>2, <3>1, <3>2 DEF CreateLock
  <2> QED
    BY <2>1, <2>2
<1>8. ASSUME NEW c \in Call, WriteLock(c) PROVE TypeInv'
  <2>1. lock' \in LockFile /\ aside' \in [Call -> LockFile]
    BY <1>8, LockFileType DEF WriteLock
  <2> QED
    BY <1>8, <2>1 DEF WriteLock
<1>9. ASSUME NEW c \in Call, ConfirmLock(c) PROVE TypeInv'
  BY <1>9 DEF ConfirmLock
<1>10. ASSUME NEW c \in Call, StatLock(c) PROVE TypeInv'
  BY <1>10, LockFileType DEF StatLock
<1>11. ASSUME NEW c \in Call, ReadLock(c) PROVE TypeInv'
  <2>1. CASE lock.full
    <3>1. seenLock[c] # NoLock /\ lock.owner \in Call
      BY <1>11, <2>1, LockFileType DEF ReadLock
    <3>2. [seenLock[c] EXCEPT !.owner = lock.owner] \in LockFile
      BY <3>1, LockFileType
    <3> QED
      BY <1>11, <2>1, <3>2 DEF ReadLock
  <2>2. CASE ~lock.full
    BY <1>11, <2>2 DEF ReadLock
  <2> QED
    BY <2>1, <2>2
<1>12. ASSUME NEW c \in Call, JudgeLock(c) PROVE TypeInv'
  BY <1>12 DEF JudgeLock
<1>13. ASSUME NEW c \in Call, QuarantineLock(c) PROVE TypeInv'
  <2>1. broken' \in BOOLEAN
    BY <1>13 DEF QuarantineLock
  <2>2. lock' \in LockFile /\ aside' \in [Call -> LockFile]
    BY <1>13, LockFileType DEF QuarantineLock
  <2> QED
    BY <1>13, <2>1, <2>2 DEF QuarantineLock
<1>14. ASSUME NEW c \in Call, VerifyQuarantine(c) PROVE TypeInv'
  <2>0. NoLock \in LockFile
    BY LockFileType
  <2>1. aside' \in [Call -> LockFile]
    BY <1>14, <2>0 DEF VerifyQuarantine
  <2> QED
    BY <1>14, <2>1 DEF VerifyQuarantine
<1>15. ASSUME NEW c \in Call, ReadHead(c) PROVE TypeInv'
  BY <1>15 DEF ReadHead
<1>16. ASSUME NEW c \in Call, CreateArtifacts(c) PROVE TypeInv'
  BY <1>16 DEF CreateArtifacts, CheckArtifacts
<1>27. ASSUME NEW c \in Call, FillArtifacts(c) PROVE TypeInv'
  BY <1>27 DEF FillArtifacts
<1>28. ASSUME NEW c \in Call, SyncArtifacts(c) PROVE TypeInv'
  BY <1>28 DEF SyncArtifacts, CheckArtifacts
<1>17. ASSUME NEW c \in Call, Recheck(c) PROVE TypeInv'
  BY <1>17 DEF Recheck
<1>18. ASSUME NEW c \in Call, RenameHead(c) PROVE TypeInv'
  BY <1>18, HeadFileType DEF RenameHead
<1>19. ASSUME NEW c \in Call, SyncHead(c) PROVE TypeInv'
  BY <1>19 DEF SyncHead
<1>20. ASSUME NEW c \in Call, RereadHead(c) PROVE TypeInv'
  BY <1>20 DEF RereadHead
<1>21. ASSUME NEW c \in Call, CheckRelease(c) PROVE TypeInv'
  BY <1>21 DEF CheckRelease
<1>22. ASSUME NEW c \in Call, UnlinkLock(c) PROVE TypeInv'
  <2>1. broken' \in BOOLEAN
    BY <1>22 DEF UnlinkLock
  <2>2. lock' \in LockFile /\ diskHead' \in HeadFile
    BY <1>22, LockFileType DEF UnlinkLock
  <2> QED
    BY <1>22, <2>1, <2>2 DEF UnlinkLock
<1>23. ASSUME NEW c \in Call, SystemError(c) PROVE TypeInv'
  BY <1>23 DEF SystemError
<1>24. ASSUME NEW c \in Call, Crash(c) PROVE TypeInv'
  <2>1. partial' \subseteq Call
    BY <1>24 DEF Crash
  <2>2. mishaps' \in 0 .. MaxMishaps
    BY <1>24 DEF Crash
  <2>3. pc' \in [Call -> PC] /\ NamesAreGiven'
    BY <1>24 DEF Crash, Running
  <2> QED
    BY <1>24, <2>1, <2>2, <2>3 DEF Crash
<1>25. CASE PowerLoss
  <2>1. lock' \in LockFile /\ head' \in HeadFile /\ history' \subseteq Call
    BY <1>25, LockFileType DEF PowerLoss
  <2>2. pc' \in [Call -> PC]
    BY <1>25 DEF PowerLoss
  <2>3. mishaps' \in 0 .. MaxMishaps
    BY <1>25 DEF PowerLoss
  <2>4. NamesAreGiven'
    BY <1>25 DEF PowerLoss, Running
  <2> QED
    BY <1>25, <2>1, <2>2, <2>3, <2>4 DEF PowerLoss
<1>26. CASE UNCHANGED vars
  BY <1>26 DEF vars, files, input, env
<1> QED
  BY <1>1, <1>2, <1>3, <1>4, <1>5, <1>6, <1>7, <1>8, <1>9, <1>10, <1>11, <1>12, <1>13, <1>14, <1>15, <1>16, <1>27, <1>28, <1>17, <1>18, <1>19, <1>20, <1>21, <1>22, <1>23, <1>24, <1>25, <1>26 DEF Next, Step

-----------------------------------------------------------------------------
(* Names *)

\* A call that has not begun stays unknown, and only calls that are over have a result.
LEMMA IdleStep ==
    TypeInv /\ IdleIsUnknown /\ OnlyDoneCallsAnswer /\ [Next]_vars
        => IdleIsUnknown' /\ OnlyDoneCallsAnswer'
<1> SUFFICES ASSUME TypeInv, IdleIsUnknown, OnlyDoneCallsAnswer, [Next]_vars
             PROVE  IdleIsUnknown' /\ OnlyDoneCallsAnswer'
  OBVIOUS
<1> USE ConstantsAssumption
     DEF IdleIsUnknown, OnlyDoneCallsAnswer, TypeInv, TypeOK, NamesAreGiven, Goto, Finish,
         Abort, files, input, env, BeforeMarker, RunningPC, ClaimPC, AcquirePC, CommitPC, WritePC,
         ReleasePC
<1>1. ASSUME NEW c \in Call, BeginBootstrap(c) PROVE IdleIsUnknown' /\ OnlyDoneCallsAnswer'
  BY <1>1, HeadFileType DEF BeginBootstrap
<1>2. ASSUME NEW c \in Call, BeginPersist(c) PROVE IdleIsUnknown' /\ OnlyDoneCallsAnswer'
  BY <1>2, HeadFileType DEF BeginPersist
<1>3. ASSUME NEW c \in Call, InspectMarker(c) PROVE IdleIsUnknown' /\ OnlyDoneCallsAnswer'
  BY <1>3 DEF InspectMarker
<1>4. ASSUME NEW c \in Call, StageArtifacts(c) PROVE IdleIsUnknown' /\ OnlyDoneCallsAnswer'
  BY <1>4 DEF StageArtifacts
<1>5. ASSUME NEW c \in Call, ClaimReplay(c) PROVE IdleIsUnknown' /\ OnlyDoneCallsAnswer'
  BY <1>5 DEF ClaimReplay
<1>6. ASSUME NEW c \in Call, ReadMarkerBound(c) PROVE IdleIsUnknown' /\ OnlyDoneCallsAnswer'
  BY <1>6 DEF ReadMarkerBound
<1>7. ASSUME NEW c \in Call, CreateLock(c) PROVE IdleIsUnknown' /\ OnlyDoneCallsAnswer'
  BY <1>7 DEF CreateLock
<1>8. ASSUME NEW c \in Call, WriteLock(c) PROVE IdleIsUnknown' /\ OnlyDoneCallsAnswer'
  BY <1>8 DEF WriteLock
<1>9. ASSUME NEW c \in Call, ConfirmLock(c) PROVE IdleIsUnknown' /\ OnlyDoneCallsAnswer'
  BY <1>9 DEF ConfirmLock
<1>10. ASSUME NEW c \in Call, StatLock(c) PROVE IdleIsUnknown' /\ OnlyDoneCallsAnswer'
  BY <1>10 DEF StatLock
<1>11. ASSUME NEW c \in Call, ReadLock(c) PROVE IdleIsUnknown' /\ OnlyDoneCallsAnswer'
  BY <1>11 DEF ReadLock
<1>12. ASSUME NEW c \in Call, JudgeLock(c) PROVE IdleIsUnknown' /\ OnlyDoneCallsAnswer'
  BY <1>12 DEF JudgeLock
<1>13. ASSUME NEW c \in Call, QuarantineLock(c) PROVE IdleIsUnknown' /\ OnlyDoneCallsAnswer'
  BY <1>13 DEF QuarantineLock
<1>14. ASSUME NEW c \in Call, VerifyQuarantine(c) PROVE IdleIsUnknown' /\ OnlyDoneCallsAnswer'
  BY <1>14 DEF VerifyQuarantine
<1>15. ASSUME NEW c \in Call, ReadHead(c) PROVE IdleIsUnknown' /\ OnlyDoneCallsAnswer'
  BY <1>15 DEF ReadHead
<1>16. ASSUME NEW c \in Call, CreateArtifacts(c) PROVE IdleIsUnknown' /\ OnlyDoneCallsAnswer'
  BY <1>16 DEF CreateArtifacts, CheckArtifacts
<1>27. ASSUME NEW c \in Call, FillArtifacts(c) PROVE IdleIsUnknown' /\ OnlyDoneCallsAnswer'
  BY <1>27 DEF FillArtifacts
<1>28. ASSUME NEW c \in Call, SyncArtifacts(c) PROVE IdleIsUnknown' /\ OnlyDoneCallsAnswer'
  BY <1>28 DEF SyncArtifacts, CheckArtifacts
<1>17. ASSUME NEW c \in Call, Recheck(c) PROVE IdleIsUnknown' /\ OnlyDoneCallsAnswer'
  BY <1>17 DEF Recheck
<1>18. ASSUME NEW c \in Call, RenameHead(c) PROVE IdleIsUnknown' /\ OnlyDoneCallsAnswer'
  BY <1>18, HeadFileType DEF RenameHead
<1>19. ASSUME NEW c \in Call, SyncHead(c) PROVE IdleIsUnknown' /\ OnlyDoneCallsAnswer'
  BY <1>19 DEF SyncHead
<1>20. ASSUME NEW c \in Call, RereadHead(c) PROVE IdleIsUnknown' /\ OnlyDoneCallsAnswer'
  BY <1>20 DEF RereadHead
<1>21. ASSUME NEW c \in Call, CheckRelease(c) PROVE IdleIsUnknown' /\ OnlyDoneCallsAnswer'
  BY <1>21 DEF CheckRelease
<1>22. ASSUME NEW c \in Call, UnlinkLock(c) PROVE IdleIsUnknown' /\ OnlyDoneCallsAnswer'
  BY <1>22 DEF UnlinkLock
<1>23. ASSUME NEW c \in Call, SystemError(c) PROVE IdleIsUnknown' /\ OnlyDoneCallsAnswer'
  BY <1>23 DEF SystemError
<1>24. ASSUME NEW c \in Call, Crash(c) PROVE IdleIsUnknown' /\ OnlyDoneCallsAnswer'
  BY <1>24 DEF Crash, Running
<1>25. CASE PowerLoss
  BY <1>25 DEF PowerLoss, Running
<1>26. CASE UNCHANGED vars
  BY <1>26 DEF vars, files, input, env
<1> QED
  BY <1>1, <1>2, <1>3, <1>4, <1>5, <1>6, <1>7, <1>8, <1>9, <1>10, <1>11, <1>12, <1>13, <1>14, <1>15, <1>16, <1>27, <1>28, <1>17, <1>18, <1>19, <1>20, <1>21, <1>22, <1>23, <1>24, <1>25, <1>26 DEF Next, Step

\* Every call commits what it may: the marker's snapshot, or one that some call derived.
LEMMA AuthorizedStep ==
    TypeInv /\ IdleIsUnknown /\ Authorized /\ FilesAreWhole /\ [Next]_vars => Authorized'
<1> SUFFICES ASSUME TypeInv, IdleIsUnknown, Authorized, FilesAreWhole, [Next]_vars
             PROVE  Authorized'
  OBVIOUS
<1> USE ConstantsAssumption
     DEF IdleIsUnknown, Authorized, TypeInv, TypeOK, NamesAreGiven, Goto, Finish,
         Abort, files, input, env, BeforeMarker, Running, RunningPC, ClaimPC, AcquirePC,
         CommitPC, WritePC, ReleasePC, Ended
<1>1. ASSUME NEW c \in Call, BeginBootstrap(c) PROVE Authorized'
  BY <1>1, HeadFileType DEF BeginBootstrap
<1>2. ASSUME NEW c \in Call, BeginPersist(c) PROVE Authorized'
  BY <1>2, HeadFileType DEF BeginPersist
<1>3. ASSUME NEW c \in Call, InspectMarker(c) PROVE Authorized'
  BY <1>3 DEF InspectMarker
<1>4. ASSUME NEW c \in Call, StageArtifacts(c) PROVE Authorized'
  BY <1>4 DEF StageArtifacts
<1>5. ASSUME NEW c \in Call, ClaimReplay(c) PROVE Authorized'
  BY <1>5 DEF ClaimReplay
<1>6. ASSUME NEW c \in Call, ReadMarkerBound(c) PROVE Authorized'
  BY <1>6 DEF ReadMarkerBound
<1>7. ASSUME NEW c \in Call, CreateLock(c) PROVE Authorized'
  BY <1>7 DEF CreateLock
<1>8. ASSUME NEW c \in Call, WriteLock(c) PROVE Authorized'
  BY <1>8 DEF WriteLock
<1>9. ASSUME NEW c \in Call, ConfirmLock(c) PROVE Authorized'
  BY <1>9 DEF ConfirmLock
<1>10. ASSUME NEW c \in Call, StatLock(c) PROVE Authorized'
  BY <1>10 DEF StatLock
<1>11. ASSUME NEW c \in Call, ReadLock(c) PROVE Authorized'
  BY <1>11 DEF ReadLock
<1>12. ASSUME NEW c \in Call, JudgeLock(c) PROVE Authorized'
  BY <1>12 DEF JudgeLock
<1>13. ASSUME NEW c \in Call, QuarantineLock(c) PROVE Authorized'
  BY <1>13 DEF QuarantineLock
<1>14. ASSUME NEW c \in Call, VerifyQuarantine(c) PROVE Authorized'
  BY <1>14 DEF VerifyQuarantine
<1>15. ASSUME NEW c \in Call, ReadHead(c) PROVE Authorized'
  <2>1. marker # NoCall => marker \in artifacts
    BY DEF FilesAreWhole, NamedSnapshotsAreComplete, Recoverable
  <2> QED
    BY <1>15, <2>1 DEF ReadHead
<1>16. ASSUME NEW c \in Call, CreateArtifacts(c) PROVE Authorized'
  BY <1>16 DEF CreateArtifacts, CheckArtifacts
<1>27. ASSUME NEW c \in Call, FillArtifacts(c) PROVE Authorized'
  BY <1>27 DEF FillArtifacts
<1>28. ASSUME NEW c \in Call, SyncArtifacts(c) PROVE Authorized'
  BY <1>28 DEF SyncArtifacts, CheckArtifacts
<1>17. ASSUME NEW c \in Call, Recheck(c) PROVE Authorized'
  BY <1>17 DEF Recheck
<1>18. ASSUME NEW c \in Call, RenameHead(c) PROVE Authorized'
  BY <1>18, HeadFileType DEF RenameHead
<1>19. ASSUME NEW c \in Call, SyncHead(c) PROVE Authorized'
  BY <1>19 DEF SyncHead
<1>20. ASSUME NEW c \in Call, RereadHead(c) PROVE Authorized'
  BY <1>20 DEF RereadHead
<1>21. ASSUME NEW c \in Call, CheckRelease(c) PROVE Authorized'
  BY <1>21 DEF CheckRelease
<1>22. ASSUME NEW c \in Call, UnlinkLock(c) PROVE Authorized'
  BY <1>22 DEF UnlinkLock
<1>23. ASSUME NEW c \in Call, SystemError(c) PROVE Authorized'
  BY <1>23 DEF SystemError
<1>24. ASSUME NEW c \in Call, Crash(c) PROVE Authorized'
  BY <1>24 DEF Crash
<1>25. CASE PowerLoss
  BY <1>25 DEF PowerLoss
<1>26. CASE UNCHANGED vars
  BY <1>26 DEF vars, files, input, env
<1> QED
  BY <1>1, <1>2, <1>3, <1>4, <1>5, <1>6, <1>7, <1>8, <1>9, <1>10, <1>11, <1>12, <1>13, <1>14, <1>15, <1>16, <1>27, <1>28, <1>17, <1>18, <1>19, <1>20, <1>21, <1>22, <1>23, <1>24, <1>25, <1>26 DEF Next, Step

\* Complete files stay complete, and head and marker only get names of complete files.
LEMMA FilesStep ==
    TypeInv /\ IdleIsUnknown /\ Authorized /\ FilesAreWhole /\ [Next]_vars => FilesAreWhole'
<1> SUFFICES ASSUME TypeInv, IdleIsUnknown, Authorized, FilesAreWhole, [Next]_vars
             PROVE  FilesAreWhole'
  OBVIOUS
<1> USE ConstantsAssumption
     DEF IdleIsUnknown, Authorized, FilesAreWhole, NamedSnapshotsAreComplete, Recoverable, TypeInv, TypeOK,
         NamesAreGiven, Goto, Finish, Abort, files, input, env, BeforeMarker, Running,
         RunningPC, ClaimPC, AcquirePC, CommitPC, WritePC, ReleasePC, Ended
<1>1. ASSUME NEW c \in Call, BeginBootstrap(c) PROVE FilesAreWhole'
  BY <1>1, HeadFileType DEF BeginBootstrap
<1>2. ASSUME NEW c \in Call, BeginPersist(c) PROVE FilesAreWhole'
  BY <1>2, HeadFileType DEF BeginPersist
<1>3. ASSUME NEW c \in Call, InspectMarker(c) PROVE FilesAreWhole'
  BY <1>3 DEF InspectMarker
<1>4. ASSUME NEW c \in Call, StageArtifacts(c) PROVE FilesAreWhole'
  BY <1>4 DEF StageArtifacts
<1>5. ASSUME NEW c \in Call, ClaimReplay(c) PROVE FilesAreWhole'
  BY <1>5 DEF ClaimReplay
<1>6. ASSUME NEW c \in Call, ReadMarkerBound(c) PROVE FilesAreWhole'
  BY <1>6 DEF ReadMarkerBound
<1>7. ASSUME NEW c \in Call, CreateLock(c) PROVE FilesAreWhole'
  BY <1>7 DEF CreateLock
<1>8. ASSUME NEW c \in Call, WriteLock(c) PROVE FilesAreWhole'
  BY <1>8 DEF WriteLock
<1>9. ASSUME NEW c \in Call, ConfirmLock(c) PROVE FilesAreWhole'
  BY <1>9 DEF ConfirmLock
<1>10. ASSUME NEW c \in Call, StatLock(c) PROVE FilesAreWhole'
  BY <1>10 DEF StatLock
<1>11. ASSUME NEW c \in Call, ReadLock(c) PROVE FilesAreWhole'
  BY <1>11 DEF ReadLock
<1>12. ASSUME NEW c \in Call, JudgeLock(c) PROVE FilesAreWhole'
  BY <1>12 DEF JudgeLock
<1>13. ASSUME NEW c \in Call, QuarantineLock(c) PROVE FilesAreWhole'
  BY <1>13 DEF QuarantineLock
<1>14. ASSUME NEW c \in Call, VerifyQuarantine(c) PROVE FilesAreWhole'
  BY <1>14 DEF VerifyQuarantine
<1>15. ASSUME NEW c \in Call, ReadHead(c) PROVE FilesAreWhole'
  BY <1>15 DEF ReadHead
<1>16. ASSUME NEW c \in Call, CreateArtifacts(c) PROVE FilesAreWhole'
  <2>1. /\ kind[target[c]] = "persist" /\ parent[target[c]] # NoCall
        /\ target[c] = c \/ pc[target[c]] \in Ended
    BY <1>16 DEF CreateArtifacts
  <2>2. CASE target[c] \in partial
    BY <1>16, <2>2 DEF CreateArtifacts
  <2>3. CASE target[c] \in artifacts
    BY <1>16, <2>3 DEF CreateArtifacts, CheckArtifacts
  <2>4. CASE target[c] \notin artifacts \cup partial
    BY <1>16, <2>1, <2>4 DEF CreateArtifacts
  <2> QED
    BY <2>2, <2>3, <2>4
<1>27. ASSUME NEW c \in Call, FillArtifacts(c) PROVE FilesAreWhole'
  BY <1>27 DEF FillArtifacts
<1>28. ASSUME NEW c \in Call, SyncArtifacts(c) PROVE FilesAreWhole'
  <2>1. target[c] = c \/ parent[c] = NoCall
    BY <1>28 DEF SyncArtifacts
  <2>2. /\ unsynced' = unsynced \ {target[c]}
        /\ UNCHANGED <<marker, artifacts, partial, head, target, kind, parent, adopted, cut>>
        /\ diskHead' = head
        /\ \A d \in Call \ {c} : pc'[d] = pc[d]
        /\ pc'[c] \in {"recheck", "release"}
    BY <1>28 DEF SyncArtifacts, CheckArtifacts
  <2>3. c \notin partial' \cup unsynced'
    <3>1. target[c] \in artifacts /\ target[c] \notin partial
      BY <1>28 DEF SyncArtifacts
    <3>2. parent[c] = NoCall => c \notin partial \cup unsynced
      OBVIOUS
    <3> QED
      BY <2>1, <2>2, <3>1, <3>2
  <2>4. \A s \in partial' \cup unsynced' : s \in Call /\ s \in partial \cup unsynced /\ pc'[s] = pc[s]
    BY <2>2, <2>3
  <2>5. \A s \in partial' \cup unsynced' :
          /\ kind'[s] = "persist" /\ parent'[s] # NoCall
          /\ pc'[s] \in Ended \cup ReleasePC \cup {"fillArtifacts", "syncArtifacts"}
    BY <2>2, <2>4
  <2>6. \A d \in Call : pc'[d] = "fillArtifacts" =>
          /\ target'[d] \in partial'
          /\ \A e \in Call : pc'[e] = "fillArtifacts" /\ target'[e] = target'[d] => e = d
    BY <2>2
  <2>7. \A d \in Call : pc'[d] \in {"recheck", "rename"} => target'[d] \notin unsynced' \ adopted'
    BY <2>2
  <2> QED
    BY <2>2, <2>5, <2>6, <2>7
<1>17. ASSUME NEW c \in Call, Recheck(c) PROVE FilesAreWhole'
  BY <1>17 DEF Recheck
<1>18. ASSUME NEW c \in Call, RenameHead(c) PROVE FilesAreWhole'
  BY <1>18 DEF RenameHead
<1>19. ASSUME NEW c \in Call, SyncHead(c) PROVE FilesAreWhole'
  BY <1>19 DEF SyncHead
<1>20. ASSUME NEW c \in Call, RereadHead(c) PROVE FilesAreWhole'
  BY <1>20 DEF RereadHead
<1>21. ASSUME NEW c \in Call, CheckRelease(c) PROVE FilesAreWhole'
  BY <1>21 DEF CheckRelease
<1>22. ASSUME NEW c \in Call, UnlinkLock(c) PROVE FilesAreWhole'
  BY <1>22 DEF UnlinkLock
<1>23. ASSUME NEW c \in Call, SystemError(c) PROVE FilesAreWhole'
  BY <1>23 DEF SystemError
<1>24. ASSUME NEW c \in Call, Crash(c) PROVE FilesAreWhole'
  BY <1>24 DEF Crash
<1>25. CASE PowerLoss
  BY <1>25 DEF PowerLoss
<1>26. CASE UNCHANGED vars
  BY <1>26 DEF vars, files, input, env
<1> QED
  BY <1>1, <1>2, <1>3, <1>4, <1>5, <1>6, <1>7, <1>8, <1>9, <1>10, <1>11, <1>12, <1>13, <1>14, <1>15, <1>16, <1>27, <1>28, <1>17, <1>18, <1>19, <1>20, <1>21, <1>22, <1>23, <1>24, <1>25, <1>26 DEF Next, Step

-----------------------------------------------------------------------------
(* The lock *)

\* While no live lock was taken away, a call that created the lock file keeps it.
LEMMA LockStep == TypeInv /\ LockIsHeld /\ [Next]_vars => LockIsHeld'
<1> SUFFICES ASSUME TypeInv, LockIsHeld, [Next]_vars PROVE LockIsHeld'
  OBVIOUS
<1> USE ConstantsAssumption
     DEF LockIsHeld, TypeInv, TypeOK, NamesAreGiven, Goto, Finish, Abort, files, input, env,
         LockPC, Running, RunningPC, ClaimPC, AcquirePC, CommitPC, WritePC, ReleasePC
<1>1. ASSUME NEW c \in Call, BeginBootstrap(c) PROVE LockIsHeld'
  BY <1>1 DEF BeginBootstrap
<1>2. ASSUME NEW c \in Call, BeginPersist(c) PROVE LockIsHeld'
  BY <1>2 DEF BeginPersist
<1>3. ASSUME NEW c \in Call, InspectMarker(c) PROVE LockIsHeld'
  BY <1>3 DEF InspectMarker
<1>4. ASSUME NEW c \in Call, StageArtifacts(c) PROVE LockIsHeld'
  BY <1>4 DEF StageArtifacts
<1>5. ASSUME NEW c \in Call, ClaimReplay(c) PROVE LockIsHeld'
  BY <1>5 DEF ClaimReplay
<1>6. ASSUME NEW c \in Call, ReadMarkerBound(c) PROVE LockIsHeld'
  BY <1>6 DEF ReadMarkerBound
<1>7. ASSUME NEW c \in Call, CreateLock(c) PROVE LockIsHeld'
  <2>1. CASE lock # NoLock
    BY <1>7, <2>1 DEF CreateLock
  <2>2. CASE lock = NoLock
    <3>1. PICK i \in Inode : /\ lock' = [ino |-> i, owner |-> c, full |-> FALSE]
                            /\ handle' = [handle EXCEPT ![c] = i]
      BY <1>7, <2>2 DEF CreateLock
    <3>2. lock.owner = NoCall
      BY <2>2 DEF NoLock
    <3>3. \A d \in Call : ~broken => pc[d] \notin LockPC
      BY <3>2
    <3> QED
      BY <1>7, <2>2, <3>1, <3>3 DEF CreateLock
  <2> QED
    BY <2>1, <2>2
<1>8. ASSUME NEW c \in Call, WriteLock(c) PROVE LockIsHeld'
  BY <1>8 DEF WriteLock
<1>9. ASSUME NEW c \in Call, ConfirmLock(c) PROVE LockIsHeld'
  BY <1>9 DEF ConfirmLock, HoldsLock
<1>10. ASSUME NEW c \in Call, StatLock(c) PROVE LockIsHeld'
  BY <1>10 DEF StatLock
<1>11. ASSUME NEW c \in Call, ReadLock(c) PROVE LockIsHeld'
  BY <1>11 DEF ReadLock
<1>12. ASSUME NEW c \in Call, JudgeLock(c) PROVE LockIsHeld'
  BY <1>12 DEF JudgeLock
<1>13. ASSUME NEW c \in Call, QuarantineLock(c) PROVE LockIsHeld'
  <2>1. CASE lock = NoLock
    BY <1>13, <2>1 DEF QuarantineLock
  <2>2. CASE lock # NoLock
    <3>1. ~broken' => \A d \in Call : pc[d] \notin LockPC
      BY <1>13, <2>2 DEF QuarantineLock, Alive
    <3> QED
      BY <1>13, <2>2, <3>1 DEF QuarantineLock
  <2> QED
    BY <2>1, <2>2
<1>14. ASSUME NEW c \in Call, VerifyQuarantine(c) PROVE LockIsHeld'
  BY <1>14 DEF VerifyQuarantine
<1>15. ASSUME NEW c \in Call, ReadHead(c) PROVE LockIsHeld'
  BY <1>15 DEF ReadHead
<1>16. ASSUME NEW c \in Call, CreateArtifacts(c) PROVE LockIsHeld'
  BY <1>16 DEF CreateArtifacts, CheckArtifacts
<1>27. ASSUME NEW c \in Call, FillArtifacts(c) PROVE LockIsHeld'
  BY <1>27 DEF FillArtifacts
<1>28. ASSUME NEW c \in Call, SyncArtifacts(c) PROVE LockIsHeld'
  BY <1>28 DEF SyncArtifacts, CheckArtifacts
<1>17. ASSUME NEW c \in Call, Recheck(c) PROVE LockIsHeld'
  BY <1>17 DEF Recheck
<1>18. ASSUME NEW c \in Call, RenameHead(c) PROVE LockIsHeld'
  BY <1>18 DEF RenameHead
<1>19. ASSUME NEW c \in Call, SyncHead(c) PROVE LockIsHeld'
  BY <1>19 DEF SyncHead
<1>20. ASSUME NEW c \in Call, RereadHead(c) PROVE LockIsHeld'
  BY <1>20 DEF RereadHead
<1>21. ASSUME NEW c \in Call, CheckRelease(c) PROVE LockIsHeld'
  BY <1>21 DEF CheckRelease
<1>22. ASSUME NEW c \in Call, UnlinkLock(c) PROVE LockIsHeld'
  BY <1>22, LockFileType DEF UnlinkLock, Alive
<1>23. ASSUME NEW c \in Call, SystemError(c) PROVE LockIsHeld'
  BY <1>23 DEF SystemError
<1>24. ASSUME NEW c \in Call, Crash(c) PROVE LockIsHeld'
  BY <1>24 DEF Crash
<1>25. CASE PowerLoss
  BY <1>25 DEF PowerLoss
<1>26. CASE UNCHANGED vars
  BY <1>26 DEF vars, files, input, env
<1> QED
  BY <1>1, <1>2, <1>3, <1>4, <1>5, <1>6, <1>7, <1>8, <1>9, <1>10, <1>11, <1>12, <1>13, <1>14, <1>15, <1>16, <1>27, <1>28, <1>17, <1>18, <1>19, <1>20, <1>21, <1>22, <1>23, <1>24, <1>25, <1>26 DEF Next, Step

\* Two calls never believe at once that they hold the lock.
LEMMA OneHolder ==
    ASSUME LockIsHeld, ~broken, NEW c \in Call, NEW d \in Call,
           pc[c] \in LockPC, pc[d] \in LockPC
    PROVE  c = d
BY DEF LockIsHeld

\* That a live lock was taken away is never forgotten.
LEMMA BrokenStays == TypeInv /\ [Next]_vars /\ broken => broken'
<1> SUFFICES ASSUME TypeInv, [Next]_vars, broken PROVE broken'
  OBVIOUS
<1> USE DEF files, input, env
<1>1. ASSUME NEW c \in Call, BeginBootstrap(c) PROVE broken'
  BY <1>1 DEF BeginBootstrap
<1>2. ASSUME NEW c \in Call, BeginPersist(c) PROVE broken'
  BY <1>2 DEF BeginPersist
<1>3. ASSUME NEW c \in Call, InspectMarker(c) PROVE broken'
  BY <1>3 DEF InspectMarker
<1>4. ASSUME NEW c \in Call, StageArtifacts(c) PROVE broken'
  BY <1>4 DEF StageArtifacts
<1>5. ASSUME NEW c \in Call, ClaimReplay(c) PROVE broken'
  BY <1>5 DEF ClaimReplay
<1>6. ASSUME NEW c \in Call, ReadMarkerBound(c) PROVE broken'
  BY <1>6 DEF ReadMarkerBound
<1>7. ASSUME NEW c \in Call, CreateLock(c) PROVE broken'
  BY <1>7 DEF CreateLock
<1>8. ASSUME NEW c \in Call, WriteLock(c) PROVE broken'
  BY <1>8 DEF WriteLock
<1>9. ASSUME NEW c \in Call, ConfirmLock(c) PROVE broken'
  BY <1>9 DEF ConfirmLock
<1>10. ASSUME NEW c \in Call, StatLock(c) PROVE broken'
  BY <1>10 DEF StatLock
<1>11. ASSUME NEW c \in Call, ReadLock(c) PROVE broken'
  BY <1>11 DEF ReadLock
<1>12. ASSUME NEW c \in Call, JudgeLock(c) PROVE broken'
  BY <1>12 DEF JudgeLock
<1>13. ASSUME NEW c \in Call, QuarantineLock(c) PROVE broken'
  BY <1>13 DEF QuarantineLock
<1>14. ASSUME NEW c \in Call, VerifyQuarantine(c) PROVE broken'
  BY <1>14 DEF VerifyQuarantine
<1>15. ASSUME NEW c \in Call, ReadHead(c) PROVE broken'
  BY <1>15 DEF ReadHead
<1>16. ASSUME NEW c \in Call, CreateArtifacts(c) PROVE broken'
  BY <1>16 DEF CreateArtifacts, CheckArtifacts
<1>27. ASSUME NEW c \in Call, FillArtifacts(c) PROVE broken'
  BY <1>27 DEF FillArtifacts
<1>28. ASSUME NEW c \in Call, SyncArtifacts(c) PROVE broken'
  BY <1>28 DEF SyncArtifacts, CheckArtifacts
<1>17. ASSUME NEW c \in Call, Recheck(c) PROVE broken'
  BY <1>17 DEF Recheck
<1>18. ASSUME NEW c \in Call, RenameHead(c) PROVE broken'
  BY <1>18 DEF RenameHead
<1>19. ASSUME NEW c \in Call, SyncHead(c) PROVE broken'
  BY <1>19 DEF SyncHead
<1>20. ASSUME NEW c \in Call, RereadHead(c) PROVE broken'
  BY <1>20 DEF RereadHead
<1>21. ASSUME NEW c \in Call, CheckRelease(c) PROVE broken'
  BY <1>21 DEF CheckRelease
<1>22. ASSUME NEW c \in Call, UnlinkLock(c) PROVE broken'
  BY <1>22 DEF UnlinkLock
<1>23. ASSUME NEW c \in Call, SystemError(c) PROVE broken'
  BY <1>23 DEF SystemError
<1>24. ASSUME NEW c \in Call, Crash(c) PROVE broken'
  BY <1>24 DEF Crash
<1>25. CASE PowerLoss
  BY <1>25 DEF PowerLoss
<1>26. CASE UNCHANGED vars
  BY <1>26 DEF vars, files, input, env
<1> QED
  BY <1>1, <1>2, <1>3, <1>4, <1>5, <1>6, <1>7, <1>8, <1>9, <1>10, <1>11, <1>12, <1>13, <1>14, <1>15, <1>16, <1>27, <1>28, <1>17, <1>18, <1>19, <1>20, <1>21, <1>22, <1>23, <1>24, <1>25, <1>26 DEF Next, Step

-----------------------------------------------------------------------------
(* The journal *)

\* The head only moves to the snapshot of a call that holds the lock and found the head
\* it was derived from, or back to what the directory holds.
LEMMA CurrentStep ==
    TypeInv /\ IdleIsUnknown /\ LockIsHeld /\ ReadIsCurrent /\ [Next]_vars => ReadIsCurrent'
<1> SUFFICES ASSUME TypeInv, IdleIsUnknown, LockIsHeld, ReadIsCurrent, [Next]_vars, ~broken'
             PROVE  ReadIsCurrent'
  BY DEF ReadIsCurrent
<1>a. ~broken
  BY BrokenStays
<1>b. LockIsHeld'
  BY LockStep
<1> USE <1>a, ConstantsAssumption
     DEF IdleIsUnknown, ReadIsCurrent, TypeInv, TypeOK, NamesAreGiven, Goto, Finish, Abort,
         files, input, env, BeforeMarker, Running, RunningPC, ClaimPC, AcquirePC, CommitPC, WritePC,
         ReleasePC
<1>1. ASSUME NEW c \in Call, BeginBootstrap(c) PROVE ReadIsCurrent'
  BY <1>1 DEF BeginBootstrap
<1>2. ASSUME NEW c \in Call, BeginPersist(c) PROVE ReadIsCurrent'
  BY <1>2 DEF BeginPersist
<1>3. ASSUME NEW c \in Call, InspectMarker(c) PROVE ReadIsCurrent'
  BY <1>3 DEF InspectMarker
<1>4. ASSUME NEW c \in Call, StageArtifacts(c) PROVE ReadIsCurrent'
  BY <1>4 DEF StageArtifacts
<1>5. ASSUME NEW c \in Call, ClaimReplay(c) PROVE ReadIsCurrent'
  BY <1>5 DEF ClaimReplay
<1>6. ASSUME NEW c \in Call, ReadMarkerBound(c) PROVE ReadIsCurrent'
  BY <1>6 DEF ReadMarkerBound
<1>7. ASSUME NEW c \in Call, CreateLock(c) PROVE ReadIsCurrent'
  BY <1>7 DEF CreateLock
<1>8. ASSUME NEW c \in Call, WriteLock(c) PROVE ReadIsCurrent'
  BY <1>8 DEF WriteLock
<1>9. ASSUME NEW c \in Call, ConfirmLock(c) PROVE ReadIsCurrent'
  BY <1>9 DEF ConfirmLock
<1>10. ASSUME NEW c \in Call, StatLock(c) PROVE ReadIsCurrent'
  BY <1>10 DEF StatLock
<1>11. ASSUME NEW c \in Call, ReadLock(c) PROVE ReadIsCurrent'
  BY <1>11 DEF ReadLock
<1>12. ASSUME NEW c \in Call, JudgeLock(c) PROVE ReadIsCurrent'
  BY <1>12 DEF JudgeLock
<1>13. ASSUME NEW c \in Call, QuarantineLock(c) PROVE ReadIsCurrent'
  BY <1>13 DEF QuarantineLock
<1>14. ASSUME NEW c \in Call, VerifyQuarantine(c) PROVE ReadIsCurrent'
  BY <1>14 DEF VerifyQuarantine
<1>15. ASSUME NEW c \in Call, ReadHead(c) PROVE ReadIsCurrent'
  BY <1>15 DEF ReadHead
<1>16. ASSUME NEW c \in Call, CreateArtifacts(c) PROVE ReadIsCurrent'
  BY <1>16 DEF CreateArtifacts, CheckArtifacts
<1>27. ASSUME NEW c \in Call, FillArtifacts(c) PROVE ReadIsCurrent'
  BY <1>27 DEF FillArtifacts
<1>28. ASSUME NEW c \in Call, SyncArtifacts(c) PROVE ReadIsCurrent'
  BY <1>28 DEF SyncArtifacts, CheckArtifacts
<1>17. ASSUME NEW c \in Call, Recheck(c) PROVE ReadIsCurrent'
  BY <1>17 DEF Recheck
<1>18. ASSUME NEW c \in Call, RenameHead(c) PROVE ReadIsCurrent'
  <2>1. \A d \in Call : pc[d] \in LockPC => d = c
    BY <1>18, OneHolder DEF RenameHead, LockPC
  <2> QED
    BY <1>18, <2>1 DEF RenameHead, LockPC
<1>19. ASSUME NEW c \in Call, SyncHead(c) PROVE ReadIsCurrent'
  BY <1>19 DEF SyncHead
<1>20. ASSUME NEW c \in Call, RereadHead(c) PROVE ReadIsCurrent'
  BY <1>20 DEF RereadHead
<1>21. ASSUME NEW c \in Call, CheckRelease(c) PROVE ReadIsCurrent'
  BY <1>21 DEF CheckRelease
<1>22. ASSUME NEW c \in Call, UnlinkLock(c) PROVE ReadIsCurrent'
  BY <1>22 DEF UnlinkLock
<1>23. ASSUME NEW c \in Call, SystemError(c) PROVE ReadIsCurrent'
  BY <1>23 DEF SystemError
<1>24. ASSUME NEW c \in Call, Crash(c) PROVE ReadIsCurrent'
  BY <1>24 DEF Crash
<1>25. CASE PowerLoss
  BY <1>25 DEF PowerLoss
<1>26. CASE UNCHANGED vars
  BY <1>26 DEF vars, files, input, env
<1> QED
  BY <1>1, <1>2, <1>3, <1>4, <1>5, <1>6, <1>7, <1>8, <1>9, <1>10, <1>11, <1>12, <1>13, <1>14, <1>15, <1>16, <1>27, <1>28, <1>17, <1>18, <1>19, <1>20, <1>21, <1>22, <1>23, <1>24, <1>25, <1>26 DEF Next, Step

\* A storage is reported for a snapshot that is the head, and nothing else is ever reported.
LEMMA StoredStep ==
    ASSUME TypeInv, IdleIsUnknown, OnlyDoneCallsAnswer, LockIsHeld, ReadIsCurrent,
           [Next]_vars, ~broken'
    PROVE  /\ Stored \subseteq Stored'
           /\ Stored' \subseteq Stored \cup {head.snap}
           /\ Stored' # Stored => /\ head' = head /\ diskHead' = head /\ history' = history
                                  /\ parent' = parent /\ head.snap # NoCall
<1>a. ~broken
  BY BrokenStays
<1>b. ASSUME target' = target, result' = result PROVE Stored' = Stored
  BY <1>b DEF Stored
<1>c. ASSUME NEW c \in Call, result[c] # "stored", result'[c] # "stored",
             \A d \in Call \ {c} : result'[d] = result[d] /\ target'[d] = target[d]
      PROVE  Stored' = Stored
  BY <1>c DEF Stored
<1> DEFINE Goal == /\ Stored \subseteq Stored'
                   /\ Stored' \subseteq Stored \cup {head.snap}
                   /\ Stored' # Stored => /\ head' = head /\ diskHead' = head
                                          /\ history' = history /\ parent' = parent
                                          /\ head.snap # NoCall
<1>d. ASSUME Stored' = Stored PROVE Goal
  BY <1>d
<1> HIDE DEF Goal
<1> USE <1>a, ConstantsAssumption
     DEF OnlyDoneCallsAnswer, TypeInv, TypeOK, NamesAreGiven, Goto, Finish, Abort, files, input,
         env
<1>1. ASSUME NEW c \in Call, BeginBootstrap(c) PROVE Goal
  BY <1>1, <1>b, <1>d DEF BeginBootstrap
<1>2. ASSUME NEW c \in Call, BeginPersist(c) PROVE Goal
  <2>1. result[c] # "stored" /\ result'[c] # "stored"
    BY <1>2 DEF BeginPersist
  <2>2. \A d \in Call \ {c} : result'[d] = result[d] /\ target'[d] = target[d]
    BY <1>2 DEF BeginPersist
  <2> QED
    BY <2>1, <2>2, <1>c, <1>d
<1>3. ASSUME NEW c \in Call, InspectMarker(c) PROVE Goal
  <2>1. result[c] # "stored" /\ result'[c] # "stored"
    BY <1>3 DEF InspectMarker
  <2>2. \A d \in Call \ {c} : result'[d] = result[d] /\ target'[d] = target[d]
    BY <1>3 DEF InspectMarker
  <2> QED
    BY <2>1, <2>2, <1>c, <1>d
<1>4. ASSUME NEW c \in Call, StageArtifacts(c) PROVE Goal
  BY <1>4, <1>b, <1>d DEF StageArtifacts
<1>5. ASSUME NEW c \in Call, ClaimReplay(c) PROVE Goal
  <2>1. result[c] # "stored" /\ result'[c] # "stored"
    BY <1>5 DEF ClaimReplay
  <2>2. \A d \in Call \ {c} : result'[d] = result[d] /\ target'[d] = target[d]
    BY <1>5 DEF ClaimReplay
  <2> QED
    BY <2>1, <2>2, <1>c, <1>d
<1>6. ASSUME NEW c \in Call, ReadMarkerBound(c) PROVE Goal
  <2>1. result[c] # "stored" /\ result'[c] # "stored"
    BY <1>6 DEF ReadMarkerBound
  <2>2. \A d \in Call \ {c} : result'[d] = result[d] /\ target'[d] = target[d]
    BY <1>6 DEF ReadMarkerBound
  <2> QED
    BY <2>1, <2>2, <1>c, <1>d
<1>7. ASSUME NEW c \in Call, CreateLock(c) PROVE Goal
  BY <1>7, <1>b, <1>d DEF CreateLock
<1>8. ASSUME NEW c \in Call, WriteLock(c) PROVE Goal
  BY <1>8, <1>b, <1>d DEF WriteLock
<1>9. ASSUME NEW c \in Call, ConfirmLock(c) PROVE Goal
  <2>1. result[c] # "stored" /\ result'[c] # "stored"
    BY <1>9 DEF ConfirmLock
  <2>2. \A d \in Call \ {c} : result'[d] = result[d] /\ target'[d] = target[d]
    BY <1>9 DEF ConfirmLock
  <2> QED
    BY <2>1, <2>2, <1>c, <1>d
<1>10. ASSUME NEW c \in Call, StatLock(c) PROVE Goal
  BY <1>10, <1>b, <1>d DEF StatLock
<1>11. ASSUME NEW c \in Call, ReadLock(c) PROVE Goal
  <2>1. result[c] # "stored" /\ result'[c] # "stored"
    BY <1>11 DEF ReadLock
  <2>2. \A d \in Call \ {c} : result'[d] = result[d] /\ target'[d] = target[d]
    BY <1>11 DEF ReadLock
  <2> QED
    BY <2>1, <2>2, <1>c, <1>d
<1>12. ASSUME NEW c \in Call, JudgeLock(c) PROVE Goal
  <2>1. result[c] # "stored" /\ result'[c] # "stored"
    BY <1>12 DEF JudgeLock
  <2>2. \A d \in Call \ {c} : result'[d] = result[d] /\ target'[d] = target[d]
    BY <1>12 DEF JudgeLock
  <2> QED
    BY <2>1, <2>2, <1>c, <1>d
<1>13. ASSUME NEW c \in Call, QuarantineLock(c) PROVE Goal
  BY <1>13, <1>b, <1>d DEF QuarantineLock
<1>14. ASSUME NEW c \in Call, VerifyQuarantine(c) PROVE Goal
  <2>1. result[c] # "stored" /\ result'[c] # "stored"
    BY <1>14 DEF VerifyQuarantine
  <2>2. \A d \in Call \ {c} : result'[d] = result[d] /\ target'[d] = target[d]
    BY <1>14 DEF VerifyQuarantine
  <2> QED
    BY <2>1, <2>2, <1>c, <1>d
<1>15. ASSUME NEW c \in Call, ReadHead(c) PROVE Goal
  BY <1>15, <1>b, <1>d DEF ReadHead
<1>16. ASSUME NEW c \in Call, CreateArtifacts(c) PROVE Goal
  BY <1>16, <1>b, <1>d DEF CreateArtifacts, CheckArtifacts
<1>27. ASSUME NEW c \in Call, FillArtifacts(c) PROVE Goal
  BY <1>27, <1>b, <1>d DEF FillArtifacts
<1>28. ASSUME NEW c \in Call, SyncArtifacts(c) PROVE Goal
  BY <1>28, <1>b, <1>d DEF SyncArtifacts, CheckArtifacts
<1>17. ASSUME NEW c \in Call, Recheck(c) PROVE Goal
  BY <1>17, <1>b, <1>d DEF Recheck
<1>18. ASSUME NEW c \in Call, RenameHead(c) PROVE Goal
  BY <1>18, <1>b, <1>d DEF RenameHead
<1>19. ASSUME NEW c \in Call, SyncHead(c) PROVE Goal
  BY <1>19, <1>b, <1>d DEF SyncHead
<1>20. ASSUME NEW c \in Call, RereadHead(c) PROVE Goal
  BY <1>20, <1>b, <1>d DEF RereadHead
<1>21. ASSUME NEW c \in Call, CheckRelease(c) PROVE Goal
  <2>1. result[c] # "stored" /\ result'[c] # "stored"
    BY <1>21 DEF CheckRelease, Codes
  <2>2. \A d \in Call \ {c} : result'[d] = result[d] /\ target'[d] = target[d]
    BY <1>21 DEF CheckRelease
  <2> QED
    BY <2>1, <2>2, <1>c, <1>d
<1>22. ASSUME NEW c \in Call, UnlinkLock(c) PROVE Goal
  <2>1. lock # NoLock /\ result[c] # "stored" /\ target[c] \in Call
    BY <1>22 DEF UnlinkLock, LockIsHeld, LockPC, ReleasePC, RunningPC, BeforeMarker, NoLock
  <2>2. \A d \in Call \ {c} : result'[d] = result[d] /\ target'[d] = target[d]
    BY <1>22 DEF UnlinkLock
  <2>3. CASE code[c] = "none"
    <3>1. head.snap = target[c]
      BY <1>22, <2>3 DEF UnlinkLock, ReadIsCurrent, ReleasePC
    <3>2. result'[c] = "stored" /\ target'[c] = target[c]
      BY <1>22, <2>1, <2>3 DEF UnlinkLock
    <3>3. Stored' = Stored \cup {head.snap}
      BY <2>1, <2>2, <3>1, <3>2 DEF Stored
    <3> QED
      BY <1>22, <2>1, <3>1, <3>3 DEF UnlinkLock, Goal
  <2>4. CASE code[c] # "none"
    <3>1. result'[c] # "stored"
      BY <1>22, <2>1, <2>4 DEF UnlinkLock, Codes
    <3> QED
      BY <2>1, <2>2, <3>1, <1>c, <1>d
  <2> QED
    BY <2>3, <2>4
<1>23. ASSUME NEW c \in Call, SystemError(c) PROVE Goal
  <2>1. result[c] # "stored" /\ result'[c] # "stored"
    BY <1>23 DEF SystemError, RunningPC, ClaimPC, AcquirePC, CommitPC, WritePC, ReleasePC
  <2>2. \A d \in Call \ {c} : result'[d] = result[d] /\ target'[d] = target[d]
    BY <1>23 DEF SystemError
  <2> QED
    BY <2>1, <2>2, <1>c, <1>d
<1>24. ASSUME NEW c \in Call, Crash(c) PROVE Goal
  BY <1>24, <1>b, <1>d DEF Crash
<1>25. CASE PowerLoss
  BY <1>25, <1>b, <1>d DEF PowerLoss
<1>26. CASE UNCHANGED vars
  BY <1>26, <1>b, <1>d DEF vars
<1> QED
  BY <1>1, <1>2, <1>3, <1>4, <1>5, <1>6, <1>7, <1>8, <1>9, <1>10, <1>11, <1>12, <1>13, <1>14, <1>15, <1>16, <1>27, <1>28, <1>17, <1>18, <1>19, <1>20, <1>21, <1>22, <1>23, <1>24, <1>25, <1>26 DEF Next, Step, Goal

Chained == JournalIsChain /\ DiskFollows /\ StoredWasHead

\* The head's parent is the head before it and has no other child; what the directory
\* lacks was reported to nobody.
LEMMA ChainStep ==
    /\ TypeInv /\ IdleIsUnknown /\ OnlyDoneCallsAnswer /\ LockIsHeld /\ ReadIsCurrent
    /\ Chained /\ [Next]_vars
    => Chained'
<1> SUFFICES ASSUME TypeInv, IdleIsUnknown, OnlyDoneCallsAnswer, LockIsHeld, ReadIsCurrent,
                    Chained, [Next]_vars, ~broken'
             PROVE  Chained'
  BY DEF Chained, JournalIsChain, DiskFollows, StoredWasHead
<1>a. ~broken
  BY BrokenStays
<1>b. /\ Stored \subseteq Stored'
      /\ Stored' \subseteq Stored \cup {head.snap}
      /\ Stored' # Stored => /\ head' = head /\ diskHead' = head /\ history' = history
                             /\ parent' = parent /\ head.snap # NoCall
  BY StoredStep
<1>c. ASSUME Stored' # Stored PROVE Chained'
  BY <1>a, <1>b, <1>c DEF Chained, JournalIsChain, DiskFollows, StoredWasHead
<1>d. ASSUME Stored' = Stored, head' = head, history' = history, diskHead' \in {diskHead, head},
             \A s \in history \cup {head.snap} : parent'[s] = parent[s]
      PROVE  Chained'
  BY <1>a, <1>d DEF Chained, JournalIsChain, DiskFollows, StoredWasHead
<1> SUFFICES ASSUME Stored' = Stored PROVE Chained'
  BY <1>c
<1>1. ASSUME NEW c \in Call, BeginBootstrap(c) PROVE Chained'
  BY <1>1, <1>d DEF BeginBootstrap, files, input, env
<1>2. ASSUME NEW c \in Call, BeginPersist(c) PROVE Chained'
  <2>1. \A s \in history \cup {head.snap} : parent'[s] = parent[s]
    <3>1. c \notin history \cup {head.snap} /\ history \subseteq Call /\ c \in Call
      BY <1>2 DEF BeginPersist, IdleIsUnknown, TypeInv, TypeOK
    <3>2. head.snap \in Call
      BY <1>2, HeadFileType DEF BeginPersist, TypeInv, TypeOK
    <3> QED
      BY <1>2, <3>1, <3>2 DEF BeginPersist, TypeInv, TypeOK
  <2> QED
    BY <1>2, <2>1, <1>d DEF BeginPersist, files
<1>3. ASSUME NEW c \in Call, InspectMarker(c) PROVE Chained'
  BY <1>3, <1>d DEF InspectMarker, files, input, env
<1>4. ASSUME NEW c \in Call, StageArtifacts(c) PROVE Chained'
  BY <1>4, <1>d DEF StageArtifacts, files, input, env
<1>5. ASSUME NEW c \in Call, ClaimReplay(c) PROVE Chained'
  BY <1>5, <1>d DEF ClaimReplay, files, input, env
<1>6. ASSUME NEW c \in Call, ReadMarkerBound(c) PROVE Chained'
  BY <1>6, <1>d DEF ReadMarkerBound, files, input, env
<1>7. ASSUME NEW c \in Call, CreateLock(c) PROVE Chained'
  BY <1>7, <1>d DEF CreateLock, files, input, env
<1>8. ASSUME NEW c \in Call, WriteLock(c) PROVE Chained'
  BY <1>8, <1>d DEF WriteLock, files, input, env
<1>9. ASSUME NEW c \in Call, ConfirmLock(c) PROVE Chained'
  BY <1>9, <1>d DEF ConfirmLock, files, input, env
<1>10. ASSUME NEW c \in Call, StatLock(c) PROVE Chained'
  BY <1>10, <1>d DEF StatLock, files, input, env
<1>11. ASSUME NEW c \in Call, ReadLock(c) PROVE Chained'
  BY <1>11, <1>d DEF ReadLock, files, input, env
<1>12. ASSUME NEW c \in Call, JudgeLock(c) PROVE Chained'
  BY <1>12, <1>d DEF JudgeLock, files, input, env
<1>13. ASSUME NEW c \in Call, QuarantineLock(c) PROVE Chained'
  BY <1>13, <1>d DEF QuarantineLock, files, input, env
<1>14. ASSUME NEW c \in Call, VerifyQuarantine(c) PROVE Chained'
  BY <1>14, <1>d DEF VerifyQuarantine, files, input, env
<1>15. ASSUME NEW c \in Call, ReadHead(c) PROVE Chained'
  BY <1>15, <1>d DEF ReadHead, files, input, env
<1>16. ASSUME NEW c \in Call, CreateArtifacts(c) PROVE Chained'
  BY <1>16, <1>d DEF CreateArtifacts, CheckArtifacts, files, input, env
<1>27. ASSUME NEW c \in Call, FillArtifacts(c) PROVE Chained'
  BY <1>27, <1>d DEF FillArtifacts, files, input, env
<1>28. ASSUME NEW c \in Call, SyncArtifacts(c) PROVE Chained'
  BY <1>28, <1>d DEF SyncArtifacts, CheckArtifacts, files, input, env
<1>17. ASSUME NEW c \in Call, Recheck(c) PROVE Chained'
  BY <1>17, <1>d DEF Recheck, files, input, env
<1>18. ASSUME NEW c \in Call, RenameHead(c) PROVE Chained'
  <2> DEFINE t == target[c]
  <2>1. t \in Call /\ head' = [snap |-> t, by |-> c] /\ history' = history \cup {t}
        /\ diskHead' = diskHead /\ parent' = parent
    BY <1>18 DEF RenameHead, TypeInv, TypeOK, NamesAreGiven, input, RunningPC, CommitPC, WritePC,
                 BeforeMarker
  <2>2. parent[t] = head.snap /\ head.snap # t /\ diskHead = head
    BY <1>18, <1>a DEF RenameHead, ReadIsCurrent
  <2>3. head'.snap = t
    BY <2>1
  <2>4. t \notin history
    BY <2>2, <1>a DEF Chained, JournalIsChain
  <2>5. t # NoCall
    BY <2>1, ConstantsAssumption
  <2>6. JournalIsChain'
    BY <2>1, <2>2, <2>3, <2>4, <2>5, <1>a DEF Chained, JournalIsChain
  <2>7. DiskFollows'
    BY <2>1, <2>2, <2>3, <2>4, <1>a DEF Chained, DiskFollows, StoredWasHead
  <2>8. StoredWasHead'
    BY <2>1, <1>a DEF Chained, StoredWasHead
  <2> QED
    BY <2>6, <2>7, <2>8 DEF Chained
<1>19. ASSUME NEW c \in Call, SyncHead(c) PROVE Chained'
  BY <1>19, <1>d DEF SyncHead, files, input, env
<1>20. ASSUME NEW c \in Call, RereadHead(c) PROVE Chained'
  BY <1>20, <1>d DEF RereadHead, files, input, env
<1>21. ASSUME NEW c \in Call, CheckRelease(c) PROVE Chained'
  BY <1>21, <1>d DEF CheckRelease, files, input, env
<1>22. ASSUME NEW c \in Call, UnlinkLock(c) PROVE Chained'
  BY <1>22, <1>d DEF UnlinkLock, files, input, env
<1>23. ASSUME NEW c \in Call, SystemError(c) PROVE Chained'
  BY <1>23, <1>d DEF SystemError, files, input, env
<1>24. ASSUME NEW c \in Call, Crash(c) PROVE Chained'
  BY <1>24, <1>d DEF Crash, files, input, env
<1>25. CASE PowerLoss
  <2>1. CASE head' = head
    BY <1>25, <2>1, <1>d DEF PowerLoss, input
  <2>2. CASE head' # head
    <3>1. head' = diskHead /\ diskHead' = diskHead /\ history' = history \ {head.snap}
          /\ parent' = parent
      BY <1>25, <2>2 DEF PowerLoss, input
    <3>2. head.snap \in history \ Stored /\ diskHead.snap = parent[head.snap]
      BY <2>2, <3>1, <1>a DEF Chained, DiskFollows
    <3>3. diskHead.snap \in (history \ {head.snap}) \cup {NoCall}
      BY <3>2, <1>a DEF Chained, JournalIsChain
    <3>4. JournalIsChain'
      BY <3>1, <3>2, <3>3, <1>a DEF Chained, JournalIsChain
    <3> QED
      BY <3>1, <3>2, <3>4, <1>a DEF Chained, DiskFollows, StoredWasHead
  <2> QED
    BY <2>1, <2>2
<1>26. CASE UNCHANGED vars
  BY <1>26, <1>d DEF vars
<1> QED
  BY <1>1, <1>2, <1>3, <1>4, <1>5, <1>6, <1>7, <1>8, <1>9, <1>10, <1>11, <1>12, <1>13, <1>14, <1>15, <1>16, <1>27, <1>28, <1>17, <1>18, <1>19, <1>20, <1>21, <1>22, <1>23, <1>24, <1>25, <1>26 DEF Next, Step

\* The first snapshot of the journal is the marker's: a bootstrap installs nothing else, and
\* every other snapshot has a parent.
LEMMA StartStep ==
    /\ TypeInv /\ IdleIsUnknown /\ Authorized /\ FilesAreWhole /\ JournalStartsAtMarker
    /\ [Next]_vars
    => JournalStartsAtMarker'
<1> SUFFICES ASSUME TypeInv, IdleIsUnknown, Authorized, FilesAreWhole, JournalStartsAtMarker,
                    [Next]_vars
             PROVE  JournalStartsAtMarker'
  OBVIOUS
<1>a. ASSUME history' \subseteq history, \A s \in history : parent'[s] = parent[s],
             marker # NoCall => marker' = marker
      PROVE  JournalStartsAtMarker'
  BY <1>a, ConstantsAssumption DEF JournalStartsAtMarker, TypeInv, TypeOK
<1>1. ASSUME NEW c \in Call, BeginBootstrap(c) PROVE JournalStartsAtMarker'
  BY <1>1, <1>a DEF BeginBootstrap, files, input, env
<1>2. ASSUME NEW c \in Call, BeginPersist(c) PROVE JournalStartsAtMarker'
  BY <1>2, <1>a DEF BeginPersist, IdleIsUnknown, TypeInv, TypeOK, files
<1>3. ASSUME NEW c \in Call, InspectMarker(c) PROVE JournalStartsAtMarker'
  BY <1>3, <1>a DEF InspectMarker, files, input, env
<1>4. ASSUME NEW c \in Call, StageArtifacts(c) PROVE JournalStartsAtMarker'
  BY <1>4, <1>a DEF StageArtifacts, files, input, env
<1>5. ASSUME NEW c \in Call, ClaimReplay(c) PROVE JournalStartsAtMarker'
  BY <1>5, <1>a DEF ClaimReplay, files, input, env
<1>6. ASSUME NEW c \in Call, ReadMarkerBound(c) PROVE JournalStartsAtMarker'
  BY <1>6, <1>a DEF ReadMarkerBound, files, input, env
<1>7. ASSUME NEW c \in Call, CreateLock(c) PROVE JournalStartsAtMarker'
  BY <1>7, <1>a DEF CreateLock, files, input, env
<1>8. ASSUME NEW c \in Call, WriteLock(c) PROVE JournalStartsAtMarker'
  BY <1>8, <1>a DEF WriteLock, files, input, env
<1>9. ASSUME NEW c \in Call, ConfirmLock(c) PROVE JournalStartsAtMarker'
  BY <1>9, <1>a DEF ConfirmLock, files, input, env
<1>10. ASSUME NEW c \in Call, StatLock(c) PROVE JournalStartsAtMarker'
  BY <1>10, <1>a DEF StatLock, files, input, env
<1>11. ASSUME NEW c \in Call, ReadLock(c) PROVE JournalStartsAtMarker'
  BY <1>11, <1>a DEF ReadLock, files, input, env
<1>12. ASSUME NEW c \in Call, JudgeLock(c) PROVE JournalStartsAtMarker'
  BY <1>12, <1>a DEF JudgeLock, files, input, env
<1>13. ASSUME NEW c \in Call, QuarantineLock(c) PROVE JournalStartsAtMarker'
  BY <1>13, <1>a DEF QuarantineLock, files, input, env
<1>14. ASSUME NEW c \in Call, VerifyQuarantine(c) PROVE JournalStartsAtMarker'
  BY <1>14, <1>a DEF VerifyQuarantine, files, input, env
<1>15. ASSUME NEW c \in Call, ReadHead(c) PROVE JournalStartsAtMarker'
  BY <1>15, <1>a DEF ReadHead, files, input, env
<1>16. ASSUME NEW c \in Call, CreateArtifacts(c) PROVE JournalStartsAtMarker'
  BY <1>16, <1>a DEF CreateArtifacts, CheckArtifacts, files, input, env
<1>27. ASSUME NEW c \in Call, FillArtifacts(c) PROVE JournalStartsAtMarker'
  BY <1>27, <1>a DEF FillArtifacts, files, input, env
<1>28. ASSUME NEW c \in Call, SyncArtifacts(c) PROVE JournalStartsAtMarker'
  BY <1>28, <1>a DEF SyncArtifacts, CheckArtifacts, files, input, env
<1>17. ASSUME NEW c \in Call, Recheck(c) PROVE JournalStartsAtMarker'
  BY <1>17, <1>a DEF Recheck, files, input, env
<1>18. ASSUME NEW c \in Call, RenameHead(c) PROVE JournalStartsAtMarker'
  <2>1. target[c] \in Call /\ kind[c] \in {"bootstrap", "persist"}
    BY <1>18 DEF RenameHead, TypeInv, TypeOK, NamesAreGiven, RunningPC, CommitPC, WritePC, BeforeMarker
  <2>2. parent[target[c]] = NoCall => target[c] = marker
    BY <1>18, <2>1, ConstantsAssumption
       DEF RenameHead, Authorized, RunningPC, CommitPC, WritePC, BeforeMarker
  <2> QED
    BY <1>18, <2>1, <2>2 DEF RenameHead, JournalStartsAtMarker, input
<1>19. ASSUME NEW c \in Call, SyncHead(c) PROVE JournalStartsAtMarker'
  BY <1>19, <1>a DEF SyncHead, files, input, env
<1>20. ASSUME NEW c \in Call, RereadHead(c) PROVE JournalStartsAtMarker'
  BY <1>20, <1>a DEF RereadHead, files, input, env
<1>21. ASSUME NEW c \in Call, CheckRelease(c) PROVE JournalStartsAtMarker'
  BY <1>21, <1>a DEF CheckRelease, files, input, env
<1>22. ASSUME NEW c \in Call, UnlinkLock(c) PROVE JournalStartsAtMarker'
  BY <1>22, <1>a DEF UnlinkLock, files, input, env
<1>23. ASSUME NEW c \in Call, SystemError(c) PROVE JournalStartsAtMarker'
  BY <1>23, <1>a DEF SystemError, files, input, env
<1>24. ASSUME NEW c \in Call, Crash(c) PROVE JournalStartsAtMarker'
  BY <1>24, <1>a DEF Crash, files, input, env
<1>25. CASE PowerLoss
  BY <1>25, <1>a DEF PowerLoss, input
<1>26. CASE UNCHANGED vars
  BY <1>26, <1>a DEF vars
<1> QED
  BY <1>1, <1>2, <1>3, <1>4, <1>5, <1>6, <1>7, <1>8, <1>9, <1>10, <1>11, <1>12, <1>13, <1>14, <1>15, <1>16, <1>27, <1>28, <1>17, <1>18, <1>19, <1>20, <1>21, <1>22, <1>23, <1>24, <1>25, <1>26 DEF Next, Step

-----------------------------------------------------------------------------
(* What the store promises *)

\* An empty directory with no call running satisfies the invariant.
LEMMA SafeInit == Init => SafeInv
<1> SUFFICES ASSUME Init PROVE SafeInv
  OBVIOUS
<1>1. Stored = {}
  BY DEF Init, Stored
<1>2. head.snap = NoCall /\ diskHead.snap = NoCall
  BY DEF Init, NoHead
<1> USE <1>2, ConstantsAssumption DEF Init
<1>3. IdleIsUnknown /\ OnlyDoneCallsAnswer /\ Authorized
  BY DEF IdleIsUnknown, OnlyDoneCallsAnswer, Authorized
<1>4. FilesAreWhole /\ JournalStartsAtMarker
  BY DEF FilesAreWhole, NamedSnapshotsAreComplete, Recoverable, JournalStartsAtMarker
<1>5. LockIsHeld /\ ReadIsCurrent
  BY DEF LockIsHeld, LockPC, CommitPC, WritePC, ReleasePC, ReadIsCurrent
<1>6. JournalIsChain /\ DiskFollows /\ StoredWasHead
  BY <1>1 DEF JournalIsChain, DiskFollows, StoredWasHead
<1> QED
  BY <1>3, <1>4, <1>5, <1>6, TypeInit DEF SafeInv, TypeInv

\* Every step preserves it.
LEMMA SafeStep == SafeInv /\ [Next]_vars => SafeInv'
BY TypeStep, IdleStep, AuthorizedStep, FilesStep, LockStep, CurrentStep, ChainStep, StartStep
   DEF SafeInv, TypeInv, Chained

\* The inductive invariant holds in every behaviour of the store.
THEOREM Invariance == Spec => []SafeInv
BY SafeInit, SafeStep, PTL DEF Spec

\* The store's variables stay within their types.
THEOREM TypeCorrect == Spec => []TypeOK
<1>1. SafeInv => TypeOK
  BY DEF SafeInv
<1> QED
  BY <1>1, Invariance, PTL

\* The journal is whole, for any number of calls and mishaps: what head and marker name is
\* complete, unless a call took its files over before anybody had synced them and a power
\* loss cut them afterwards (adopted and cut); the first snapshot is the marker's; and no
\* snapshot has two children that were reported stored while no live lock was broken.
THEOREM WholeJournal == Spec => []JournalIsWhole
<1>1. SafeInv => JournalIsWhole
  <2> SUFFICES ASSUME SafeInv PROVE JournalIsWhole
    OBVIOUS
  <2>1. NamedSnapshotsAreComplete /\ JournalStartsAtMarker
    BY DEF SafeInv, FilesAreWhole
  <2>2. AtMostOneStoredChild
    <3> SUFFICES ASSUME ~broken, NEW c \in Call, NEW d \in Call,
                        result[c] = "stored", result[d] = "stored",
                        parent[target[c]] = parent[target[d]]
                 PROVE  target[c] = target[d]
      BY DEF AtMostOneStoredChild
    <3>1. target[c] \in history /\ target[d] \in history
      BY DEF SafeInv, StoredWasHead, Stored
    <3> QED
      BY <3>1 DEF SafeInv, JournalIsChain
  <2> QED
    BY <2>1, <2>2 DEF JournalIsWhole
<1> QED
  BY <1>1, Invariance, PTL

-----------------------------------------------------------------------------
(* The store implements JournalHead *)

\* An empty directory is a register that nothing was written to.
LEMMA HeadInit == Init => Journal!JInit
<1> SUFFICES ASSUME Init PROVE Journal!JInit
  OBVIOUS
<1>1. Stored = {}
  BY DEF Init, Stored
<1> QED
  BY <1>1 DEF Init, NoHead, Journal!JInit

\* A step that neither moves the head nor reports a storage is invisible.
LEMMA HiddenStep ==
    ASSUME parent' = parent, head'.snap = head.snap, history' = history, Stored' = Stored,
           broken' = broken
    PROVE  UNCHANGED Journal!jvars
BY DEF Journal!jvars

\* Only a call that takes a lock file away may break a live lock.
LEMMA WhoBreaks ==
  ASSUME [Next]_vars
  PROVE  broken' = broken \/ \E c \in Call : QuarantineLock(c) \/ UnlinkLock(c)
<1>1. CASE UNCHANGED vars
  BY <1>1 DEF vars
<1>2. CASE PowerLoss
  BY <1>2 DEF PowerLoss
<1>3. ASSUME NEW c \in Call, SystemError(c) \/ Crash(c) PROVE broken' = broken
  BY <1>3 DEF SystemError, Crash
<1>4. ASSUME NEW c \in Call,
             \/ BeginBootstrap(c) \/ BeginPersist(c) \/ InspectMarker(c) \/ StageArtifacts(c)
             \/ ClaimReplay(c) \/ ReadMarkerBound(c)
      PROVE  broken' = broken
  BY <1>4 DEF BeginBootstrap, BeginPersist, InspectMarker, StageArtifacts, ClaimReplay,
     ReadMarkerBound, env
<1>5. ASSUME NEW c \in Call,
             \/ CreateLock(c) \/ WriteLock(c) \/ ConfirmLock(c) \/ StatLock(c)
             \/ ReadLock(c) \/ JudgeLock(c) \/ VerifyQuarantine(c)
      PROVE  broken' = broken
  BY <1>5 DEF CreateLock, WriteLock, ConfirmLock, StatLock, ReadLock, JudgeLock,
     VerifyQuarantine, env
<1>6. ASSUME NEW c \in Call,
             \/ ReadHead(c) \/ CreateArtifacts(c) \/ FillArtifacts(c) \/ SyncArtifacts(c)
             \/ Recheck(c) \/ RenameHead(c)
             \/ SyncHead(c) \/ RereadHead(c) \/ CheckRelease(c)
      PROVE  broken' = broken
  BY <1>6 DEF ReadHead, CreateArtifacts, FillArtifacts,
       SyncArtifacts, CheckArtifacts, Recheck, RenameHead, SyncHead, RereadHead,
     CheckRelease, env
<1> QED
  BY <1>1, <1>2, <1>3, <1>4, <1>5, <1>6 DEF Next, Step

\* Every step of the store is a step of the register, or invisible: the first of a call
\* that derives a snapshot derives it, the rename advances, the end of a call that stored
\* reports, a power loss reverts, and everything is allowed once a live lock was broken.
LEMMA HeadStep == SafeInv /\ [Next]_vars => [Journal!JNext]_(Journal!jvars)
<1> SUFFICES ASSUME SafeInv, [Next]_vars PROVE [Journal!JNext]_(Journal!jvars)
  OBVIOUS
<1>1. CASE broken
  BY <1>1, BrokenStays DEF SafeInv, TypeInv, Journal!JNext
<1>2. CASE ~broken /\ broken'
  <2>1. \E c \in Call : QuarantineLock(c) \/ UnlinkLock(c)
    BY <1>2, WhoBreaks
  <2>2. PICK c \in Call : QuarantineLock(c) \/ UnlinkLock(c)
    BY <2>1
  <2>3. ~UnlinkLock(c)
    BY <1>2 DEF UnlinkLock, SafeInv, LockIsHeld, LockPC, ReleasePC
  <2>4. parent' = parent /\ head' = head /\ history' = history /\ result' = result
        /\ target' = target
    BY <2>2, <2>3 DEF QuarantineLock, input
  <2>5. Stored' = Stored
    BY <2>4 DEF Stored
  <2>6. Journal!Break
    BY <1>2, <2>4, <2>5 DEF Journal!Break
  <2> QED
    BY <2>6 DEF Journal!JNext
<1>3. CASE ~broken'
  <2>a. ~broken
    BY <1>3, BrokenStays DEF SafeInv, TypeInv
  <2>b. /\ Stored \subseteq Stored'
        /\ Stored' \subseteq Stored \cup {head.snap}
        /\ Stored' # Stored => /\ head' = head /\ diskHead' = head /\ history' = history
                               /\ parent' = parent /\ head.snap # NoCall
    BY <1>3, StoredStep DEF SafeInv, TypeInv
  <2>c. broken' = broken
    <3>1. broken \in BOOLEAN /\ broken' \in BOOLEAN
      BY TypeStep DEF SafeInv, TypeInv, TypeOK
    <3> QED
      BY <1>3, <2>a, <3>1
  <2>1. CASE Stored' # Stored
    <3>1. head.snap \in history
      BY <2>a, <2>b, <2>1 DEF SafeInv, JournalIsChain
    <3>2. head.snap \in Call
      BY <3>1 DEF SafeInv, TypeOK
    <3>3. Stored' = Stored \cup {head.snap}
      BY <2>b, <2>1
    <3>4. Journal!Report(head.snap)
      BY <2>b, <2>c, <2>1, <3>1, <3>3 DEF Journal!Report
    <3> QED
      BY <3>2, <3>4 DEF Journal!JNext
  <2>2. CASE Stored' = Stored
    <3>1. ASSUME NEW c \in Call, BeginPersist(c) PROVE [Journal!JNext]_(Journal!jvars)
      <4>1. CASE parent' = parent
        BY <2>2, <2>c, <3>1, <4>1, HiddenStep DEF BeginPersist, files
      <4>2. CASE parent' # parent
        <5>1. parent' = [parent EXCEPT ![c] = head.snap] /\ head' = head /\ history' = history
          BY <3>1, <4>2 DEF BeginPersist, files
        <5>2. c \notin history
          BY <3>1 DEF BeginPersist, SafeInv, IdleIsUnknown
        <5>3. Journal!Derive(c)
          BY <2>2, <2>c, <5>1, <5>2 DEF Journal!Derive
        <5> QED
          BY <5>3 DEF Journal!JNext
      <4> QED
        BY <4>1, <4>2
    <3>2. ASSUME NEW c \in Call, RenameHead(c) PROVE [Journal!JNext]_(Journal!jvars)
      <4>1. /\ target[c] \in Call /\ head'.snap = target[c]
            /\ history' = history \cup {target[c]} /\ parent' = parent
        BY <3>2 DEF RenameHead, SafeInv, TypeOK, NamesAreGiven, input, RunningPC, CommitPC, WritePC,
                    BeforeMarker
      <4>2. parent[target[c]] = head.snap
        BY <2>a, <3>2 DEF RenameHead, SafeInv, ReadIsCurrent
      <4>3. target[c] \notin history
        BY <2>a, <4>2 DEF SafeInv, JournalIsChain
      <4>4. Journal!Advance(target[c])
        BY <2>2, <2>c, <4>1, <4>2, <4>3 DEF Journal!Advance
      <4> QED
        BY <4>1, <4>4 DEF Journal!JNext
    <3>3. ASSUME PowerLoss PROVE [Journal!JNext]_(Journal!jvars)
      <4>1. CASE head' = head
        BY <2>2, <2>c, <3>3, <4>1, HiddenStep DEF PowerLoss, input
      <4>2. CASE head' # head
        <5>1. head' = diskHead /\ history' = history \ {head.snap} /\ parent' = parent
          BY <3>3, <4>2 DEF PowerLoss, input
        <5>2. head.snap \in history \ Stored /\ diskHead.snap = parent[head.snap]
          BY <2>a, <4>2, <5>1 DEF SafeInv, DiskFollows
        <5>3. Journal!Revert
          BY <2>2, <2>c, <5>1, <5>2 DEF Journal!Revert
        <5> QED
          BY <5>3 DEF Journal!JNext
      <4> QED
        BY <4>1, <4>2
    <3>4. ASSUME NEW c \in Call,
                 \/ (Step(c) /\ ~BeginPersist(c) /\ ~RenameHead(c))
                 \/ SystemError(c) \/ Crash(c)
          PROVE  [Journal!JNext]_(Journal!jvars)
      <4>1. parent' = parent /\ head' = head /\ history' = history
        BY <3>4 DEF Step, files, input, env, BeginBootstrap, InspectMarker, StageArtifacts,
           ClaimReplay, ReadMarkerBound, CreateLock, WriteLock, ConfirmLock, StatLock, ReadLock,
           JudgeLock, QuarantineLock, VerifyQuarantine, ReadHead, CreateArtifacts, FillArtifacts,
       SyncArtifacts, CheckArtifacts, Recheck,
           SyncHead, RereadHead, CheckRelease, UnlinkLock, SystemError, Crash
      <4> QED
        BY <2>2, <2>c, <4>1, HiddenStep
    <3>5. CASE UNCHANGED vars
      BY <2>2, <2>c, <3>5, HiddenStep DEF vars
    <3> QED
      BY <3>1, <3>2, <3>3, <3>4, <3>5 DEF Next
  <2> QED
    BY <2>1, <2>2
<1> QED
  BY <1>1, <1>2, <1>3 DEF SafeInv, TypeOK

\* The store is a compare-and-swap register, until a live lock is broken.
THEOREM Refinement == Spec => ImplementsJournalHead
<1>1. Init => Journal!JInit
  BY HeadInit
<1>2. SafeInv /\ [Next]_vars => [Journal!JNext]_(Journal!jvars)
  BY HeadStep
<1> QED
  BY <1>1, <1>2, Invariance, PTL DEF Spec, ImplementsJournalHead, Journal!JSpec

-----------------------------------------------------------------------------
(* A call that runs alone *)

\* The calls that run while another one begins have met it.
LEMMA AloneStep == TypeInv /\ LoneCallIsAlone /\ [Next]_vars => LoneCallIsAlone'
<1> SUFFICES ASSUME TypeInv, LoneCallIsAlone, [Next]_vars PROVE LoneCallIsAlone'
  OBVIOUS
<1> USE DEF LoneCallIsAlone, TypeInv, TypeOK, Goto, Finish, Abort, files, input, env, Alone,
            Running, RunningPC, ClaimPC, AcquirePC, CommitPC, WritePC, ReleasePC
<1>1. ASSUME NEW c \in Call, BeginBootstrap(c) PROVE LoneCallIsAlone'
  BY <1>1 DEF BeginBootstrap, NoteOverlap
<1>2. ASSUME NEW c \in Call, BeginPersist(c) PROVE LoneCallIsAlone'
  BY <1>2 DEF BeginPersist, NoteOverlap
<1>3. ASSUME NEW c \in Call, InspectMarker(c) PROVE LoneCallIsAlone'
  BY <1>3 DEF InspectMarker
<1>4. ASSUME NEW c \in Call, StageArtifacts(c) PROVE LoneCallIsAlone'
  BY <1>4 DEF StageArtifacts
<1>5. ASSUME NEW c \in Call, ClaimReplay(c) PROVE LoneCallIsAlone'
  BY <1>5 DEF ClaimReplay
<1>6. ASSUME NEW c \in Call, ReadMarkerBound(c) PROVE LoneCallIsAlone'
  BY <1>6 DEF ReadMarkerBound
<1>7. ASSUME NEW c \in Call, CreateLock(c) PROVE LoneCallIsAlone'
  BY <1>7 DEF CreateLock
<1>8. ASSUME NEW c \in Call, WriteLock(c) PROVE LoneCallIsAlone'
  BY <1>8 DEF WriteLock
<1>9. ASSUME NEW c \in Call, ConfirmLock(c) PROVE LoneCallIsAlone'
  BY <1>9 DEF ConfirmLock
<1>10. ASSUME NEW c \in Call, StatLock(c) PROVE LoneCallIsAlone'
  BY <1>10 DEF StatLock
<1>11. ASSUME NEW c \in Call, ReadLock(c) PROVE LoneCallIsAlone'
  BY <1>11 DEF ReadLock
<1>12. ASSUME NEW c \in Call, JudgeLock(c) PROVE LoneCallIsAlone'
  BY <1>12 DEF JudgeLock
<1>13. ASSUME NEW c \in Call, QuarantineLock(c) PROVE LoneCallIsAlone'
  BY <1>13 DEF QuarantineLock
<1>14. ASSUME NEW c \in Call, VerifyQuarantine(c) PROVE LoneCallIsAlone'
  BY <1>14 DEF VerifyQuarantine
<1>15. ASSUME NEW c \in Call, ReadHead(c) PROVE LoneCallIsAlone'
  BY <1>15 DEF ReadHead
<1>16. ASSUME NEW c \in Call, CreateArtifacts(c) PROVE LoneCallIsAlone'
  BY <1>16 DEF CreateArtifacts, CheckArtifacts
<1>27. ASSUME NEW c \in Call, FillArtifacts(c) PROVE LoneCallIsAlone'
  BY <1>27 DEF FillArtifacts
<1>28. ASSUME NEW c \in Call, SyncArtifacts(c) PROVE LoneCallIsAlone'
  BY <1>28 DEF SyncArtifacts, CheckArtifacts
<1>17. ASSUME NEW c \in Call, Recheck(c) PROVE LoneCallIsAlone'
  BY <1>17 DEF Recheck
<1>18. ASSUME NEW c \in Call, RenameHead(c) PROVE LoneCallIsAlone'
  BY <1>18 DEF RenameHead
<1>19. ASSUME NEW c \in Call, SyncHead(c) PROVE LoneCallIsAlone'
  BY <1>19 DEF SyncHead
<1>20. ASSUME NEW c \in Call, RereadHead(c) PROVE LoneCallIsAlone'
  BY <1>20 DEF RereadHead
<1>21. ASSUME NEW c \in Call, CheckRelease(c) PROVE LoneCallIsAlone'
  BY <1>21 DEF CheckRelease
<1>22. ASSUME NEW c \in Call, UnlinkLock(c) PROVE LoneCallIsAlone'
  BY <1>22 DEF UnlinkLock
<1>23. ASSUME NEW c \in Call, SystemError(c) PROVE LoneCallIsAlone'
  BY <1>23 DEF SystemError
<1>24. ASSUME NEW c \in Call, Crash(c) PROVE LoneCallIsAlone'
  BY <1>24 DEF Crash
<1>25. CASE PowerLoss
  BY <1>25 DEF PowerLoss
<1>26. CASE UNCHANGED vars
  BY <1>26 DEF vars, files, input, env
<1> QED
  BY <1>1, <1>2, <1>3, <1>4, <1>5, <1>6, <1>7, <1>8, <1>9, <1>10, <1>11, <1>12, <1>13, <1>14, <1>15, <1>16, <1>27, <1>28, <1>17, <1>18, <1>19, <1>20, <1>21, <1>22, <1>23, <1>24, <1>25, <1>26 DEF Next, Step

\* While a call runs alone, only it takes steps.
LEMMA OnlyLoneMoves ==
    ASSUME TypeInv, LoneCallIsAlone, NEW c \in Call, NEW d \in Call, Alone(d)',
           Step(c) \/ SystemError(c)
    PROVE  d = c
<1> USE DEF LoneCallIsAlone, TypeInv, TypeOK, Goto, Finish, Abort, files, input, env, Alone,
            Running, RunningPC, ClaimPC, AcquirePC, CommitPC, WritePC, ReleasePC
<1>1. CASE BeginBootstrap(c) \/ BeginPersist(c)
  BY <1>1 DEF BeginBootstrap, BeginPersist, NoteOverlap
<1>2. CASE ~(BeginBootstrap(c) \/ BeginPersist(c))
  <2>1. Running(c) /\ overlapped' = overlapped /\ (d # c => pc'[d] = pc[d])
    BY <1>2 DEF Step, InspectMarker, StageArtifacts, ClaimReplay, ReadMarkerBound, CreateLock,
       WriteLock, ConfirmLock, StatLock, ReadLock, JudgeLock, QuarantineLock, VerifyQuarantine,
       ReadHead, CreateArtifacts, FillArtifacts,
       SyncArtifacts, CheckArtifacts, Recheck, RenameHead, SyncHead, RereadHead, CheckRelease,
       UnlinkLock, SystemError
  <2> QED
    BY <2>1
<1> QED
  BY <1>1, <1>2

\* Only a call that created a lock file is named as an owner.
LEMMA OwnersStep == TypeInv /\ OwnersHaveLocked /\ [Next]_vars => OwnersHaveLocked'
<1> SUFFICES ASSUME TypeInv, OwnersHaveLocked, [Next]_vars PROVE OwnersHaveLocked'
  OBVIOUS
<1> USE ConstantsAssumption
     DEF OwnersHaveLocked, TypeInv, TypeOK, NamesAreGiven, Goto, Finish, Abort, files, input,
         env, LockPC, Ended, Running, RunningPC, ClaimPC, AcquirePC, CommitPC, WritePC, ReleasePC
<1>1. ASSUME NEW c \in Call, BeginBootstrap(c) PROVE OwnersHaveLocked'
  BY <1>1 DEF BeginBootstrap
<1>2. ASSUME NEW c \in Call, BeginPersist(c) PROVE OwnersHaveLocked'
  BY <1>2 DEF BeginPersist
<1>3. ASSUME NEW c \in Call, InspectMarker(c) PROVE OwnersHaveLocked'
  BY <1>3 DEF InspectMarker
<1>4. ASSUME NEW c \in Call, StageArtifacts(c) PROVE OwnersHaveLocked'
  BY <1>4 DEF StageArtifacts
<1>5. ASSUME NEW c \in Call, ClaimReplay(c) PROVE OwnersHaveLocked'
  BY <1>5 DEF ClaimReplay
<1>6. ASSUME NEW c \in Call, ReadMarkerBound(c) PROVE OwnersHaveLocked'
  BY <1>6 DEF ReadMarkerBound
<1>7. ASSUME NEW c \in Call, CreateLock(c) PROVE OwnersHaveLocked'
  BY <1>7, LockFileType DEF CreateLock, NoLock
<1>8. ASSUME NEW c \in Call, WriteLock(c) PROVE OwnersHaveLocked'
  BY <1>8, LockFileType DEF WriteLock, NoLock
<1>9. ASSUME NEW c \in Call, ConfirmLock(c) PROVE OwnersHaveLocked'
  BY <1>9 DEF ConfirmLock
<1>10. ASSUME NEW c \in Call, StatLock(c) PROVE OwnersHaveLocked'
  BY <1>10, LockFileType DEF StatLock, NoLock
<1>11. ASSUME NEW c \in Call, ReadLock(c) PROVE OwnersHaveLocked'
  <2>1. CASE lock.full
    <3>1. lock.owner \in Call /\ lock' = lock /\ aside' = aside
      BY <1>11, <2>1, LockFileType DEF ReadLock
    <3>2. seenLock' = [seenLock EXCEPT ![c] = [seenLock[c] EXCEPT !.owner = lock.owner]]
      BY <1>11, <2>1 DEF ReadLock
    <3>3. [seenLock[c] EXCEPT !.owner = lock.owner].owner = lock.owner
      BY <3>1, LockFileType
    <3>4. seenLock'[c].owner = lock.owner
      BY <3>2, <3>3
    <3> QED
      BY <1>11, <2>1, <3>1, <3>2, <3>4 DEF ReadLock
  <2>2. CASE ~lock.full
    BY <1>11, <2>2 DEF ReadLock
  <2> QED
    BY <2>1, <2>2
<1>12. ASSUME NEW c \in Call, JudgeLock(c) PROVE OwnersHaveLocked'
  BY <1>12 DEF JudgeLock
<1>13. ASSUME NEW c \in Call, QuarantineLock(c) PROVE OwnersHaveLocked'
  <2>1. lock' \in {lock, NoLock} /\ seenLock' = seenLock
    BY <1>13 DEF QuarantineLock
  <2>2. \A q \in Call : aside'[q] \in {aside[q], lock, NoLock}
    BY <1>13 DEF QuarantineLock
  <2>3. NoLock.owner = NoCall
    BY DEF NoLock
  <2>4. \A d \in Call : pc'[d] \notin LockPC \cup Ended => pc[d] \notin LockPC \cup Ended
    BY <1>13 DEF QuarantineLock
  <2>5. ASSUME NEW d \in Call, pc'[d] \notin LockPC \cup Ended
        PROVE  lock'.owner # d /\ \A q \in Call : aside'[q].owner # d /\ seenLock'[q].owner # d
    <3>1. lock.owner # d /\ \A q \in Call : aside[q].owner # d /\ seenLock[q].owner # d
      BY <2>4, <2>5 DEF OwnersHaveLocked
    <3>2. NoLock.owner # d
      BY <2>3
    <3> QED
      BY ONLY <2>1, <2>2, <3>1, <3>2
  <2> QED
    BY ONLY <2>5 DEF OwnersHaveLocked
<1>14. ASSUME NEW c \in Call, VerifyQuarantine(c) PROVE OwnersHaveLocked'
  <2>1. lock' \in {lock, NoLock} /\ seenLock' = seenLock
    BY <1>14 DEF VerifyQuarantine
  <2>2. \A q \in Call : aside'[q] \in {aside[q], lock, NoLock}
    BY <1>14 DEF VerifyQuarantine
  <2>3. NoLock.owner = NoCall
    BY DEF NoLock
  <2>4. \A d \in Call : pc'[d] \notin LockPC \cup Ended => pc[d] \notin LockPC \cup Ended
    BY <1>14 DEF VerifyQuarantine
  <2>5. ASSUME NEW d \in Call, pc'[d] \notin LockPC \cup Ended
        PROVE  lock'.owner # d /\ \A q \in Call : aside'[q].owner # d /\ seenLock'[q].owner # d
    <3>1. lock.owner # d /\ \A q \in Call : aside[q].owner # d /\ seenLock[q].owner # d
      BY <2>4, <2>5 DEF OwnersHaveLocked
    <3>2. NoLock.owner # d
      BY <2>3
    <3> QED
      BY ONLY <2>1, <2>2, <3>1, <3>2
  <2> QED
    BY ONLY <2>5 DEF OwnersHaveLocked
<1>15. ASSUME NEW c \in Call, ReadHead(c) PROVE OwnersHaveLocked'
  BY <1>15 DEF ReadHead
<1>16. ASSUME NEW c \in Call, CreateArtifacts(c) PROVE OwnersHaveLocked'
  BY <1>16 DEF CreateArtifacts, CheckArtifacts
<1>27. ASSUME NEW c \in Call, FillArtifacts(c) PROVE OwnersHaveLocked'
  BY <1>27 DEF FillArtifacts
<1>28. ASSUME NEW c \in Call, SyncArtifacts(c) PROVE OwnersHaveLocked'
  BY <1>28 DEF SyncArtifacts, CheckArtifacts
<1>17. ASSUME NEW c \in Call, Recheck(c) PROVE OwnersHaveLocked'
  BY <1>17 DEF Recheck
<1>18. ASSUME NEW c \in Call, RenameHead(c) PROVE OwnersHaveLocked'
  BY <1>18 DEF RenameHead
<1>19. ASSUME NEW c \in Call, SyncHead(c) PROVE OwnersHaveLocked'
  BY <1>19 DEF SyncHead
<1>20. ASSUME NEW c \in Call, RereadHead(c) PROVE OwnersHaveLocked'
  BY <1>20 DEF RereadHead
<1>21. ASSUME NEW c \in Call, CheckRelease(c) PROVE OwnersHaveLocked'
  BY <1>21 DEF CheckRelease
<1>22. ASSUME NEW c \in Call, UnlinkLock(c) PROVE OwnersHaveLocked'
  BY SMTT(30), <1>22, LockFileType DEF UnlinkLock, NoLock
<1>23. ASSUME NEW c \in Call, SystemError(c) PROVE OwnersHaveLocked'
  BY <1>23 DEF SystemError
<1>24. ASSUME NEW c \in Call, Crash(c) PROVE OwnersHaveLocked'
  BY <1>24 DEF Crash
<1>25. CASE PowerLoss
  BY <1>25, LockFileType DEF PowerLoss, NoLock
<1>26. CASE UNCHANGED vars
  BY <1>26 DEF vars, files, input, env
<1> QED
  BY <1>1, <1>2, <1>3, <1>4, <1>5, <1>6, <1>7, <1>8, <1>9, <1>10, <1>11, <1>12, <1>13, <1>14, <1>15, <1>16, <1>27, <1>28, <1>17, <1>18, <1>19, <1>20, <1>21, <1>22, <1>23, <1>24, <1>25, <1>26 DEF Next, Step

\* A lone call finds the lock file as it left it.
LEMMA LoneLockStep ==
    TypeInv /\ LoneCallIsAlone /\ OwnersHaveLocked /\ LoneLock /\ [Next]_vars => LoneLock'
<1> SUFFICES ASSUME TypeInv, LoneCallIsAlone, OwnersHaveLocked, LoneLock, [Next]_vars
             PROVE  LoneLock'
  OBVIOUS
<1> DEFINE Mine(c) ==
        /\ pc[c] \in {"readLock", "judgeLock", "quarantine"} => seenLock[c] = lock
        /\ pc[c] \in {"judgeLock", "quarantine"} => lock # NoLock
        /\ pc[c] = "verifyQuarantine" => aside[c].ino = seenLock[c].ino
        /\ pc[c] \in LockPC => /\ lock.ino = handle[c] /\ lock.owner = c
                               /\ pc[c] # "initLock" => lock.full
<1>a. ASSUME NEW c \in Call, Step(c) \/ SystemError(c), Alone(c)' => Mine(c)' PROVE LoneLock'
  BY <1>a, OnlyLoneMoves DEF LoneLock
<1>b. \A c \in Call : Alone(c) => Mine(c)
  BY DEF LoneLock
<1> USE ConstantsAssumption
     DEF TypeInv, TypeOK, NamesAreGiven, Goto, Finish, Abort, files, input, env, LockPC, Alone,
         Running, RunningPC, ClaimPC, AcquirePC, CommitPC, WritePC, ReleasePC, Step
<1>1. ASSUME NEW c \in Call, BeginBootstrap(c) PROVE LoneLock'
  <2>1. Mine(c)'
    BY <1>1 DEF BeginBootstrap
  <2> QED
    BY <1>1, <2>1, <1>a
<1>2. ASSUME NEW c \in Call, BeginPersist(c) PROVE LoneLock'
  <2>1. Mine(c)'
    BY <1>2 DEF BeginPersist
  <2> QED
    BY <1>2, <2>1, <1>a
<1>3. ASSUME NEW c \in Call, InspectMarker(c) PROVE LoneLock'
  <2>1. Alone(c)' => Mine(c)'
    BY <1>3, <1>b DEF InspectMarker
  <2> QED
    BY <1>3, <2>1, <1>a
<1>4. ASSUME NEW c \in Call, StageArtifacts(c) PROVE LoneLock'
  <2>1. Alone(c)' => Mine(c)'
    BY <1>4, <1>b DEF StageArtifacts
  <2> QED
    BY <1>4, <2>1, <1>a
<1>5. ASSUME NEW c \in Call, ClaimReplay(c) PROVE LoneLock'
  <2>1. Alone(c)' => Mine(c)'
    BY <1>5, <1>b DEF ClaimReplay
  <2> QED
    BY <1>5, <2>1, <1>a
<1>6. ASSUME NEW c \in Call, ReadMarkerBound(c) PROVE LoneLock'
  <2>1. Alone(c)' => Mine(c)'
    BY <1>6, <1>b DEF ReadMarkerBound
  <2> QED
    BY <1>6, <2>1, <1>a
<1>7. ASSUME NEW c \in Call, CreateLock(c) PROVE LoneLock'
  <2>1. Alone(c)' => Mine(c)'
    BY <1>7, <1>b, LockFileType DEF CreateLock, NoLock
  <2> QED
    BY <1>7, <2>1, <1>a
<1>8. ASSUME NEW c \in Call, WriteLock(c) PROVE LoneLock'
  <2>1. Alone(c)' => Mine(c)'
    BY <1>8, <1>b, LockFileType DEF WriteLock, NoLock
  <2> QED
    BY <1>8, <2>1, <1>a
<1>9. ASSUME NEW c \in Call, ConfirmLock(c) PROVE LoneLock'
  <2>1. Alone(c)' => Mine(c)'
    BY <1>9, <1>b DEF ConfirmLock, HoldsLock
  <2> QED
    BY <1>9, <2>1, <1>a
<1>10. ASSUME NEW c \in Call, StatLock(c) PROVE LoneLock'
  <2>1. Alone(c)' => Mine(c)'
    BY <1>10, <1>b, LockFileType DEF StatLock, NoLock
  <2> QED
    BY <1>10, <2>1, <1>a
<1>11. ASSUME NEW c \in Call, ReadLock(c) PROVE LoneLock'
  <2>1. ASSUME Alone(c)' PROVE Mine(c)'
    <3>1. Alone(c) /\ seenLock[c] = lock /\ seenLock[c] # NoLock
      BY <1>11, <1>b, <2>1 DEF ReadLock
    <3>2. CASE lock.full
      <4>1. lock.owner \in Call
        BY <3>1, LockFileType
      <4>2. seenLock'[c] = lock
        BY <1>11, <3>1, <3>2, <4>1, LockFileType DEF ReadLock
      <4> QED
        BY <1>11, <3>1, <3>2, <4>2 DEF ReadLock
    <3>3. CASE ~lock.full
      BY <1>11, <3>3 DEF ReadLock
    <3> QED
      BY <3>2, <3>3
  <2> QED
    BY <1>11, <2>1, <1>a
<1>12. ASSUME NEW c \in Call, JudgeLock(c) PROVE LoneLock'
  <2>1. Alone(c)' => Mine(c)'
    BY <1>12, <1>b DEF JudgeLock
  <2> QED
    BY <1>12, <2>1, <1>a
<1>13. ASSUME NEW c \in Call, QuarantineLock(c) PROVE LoneLock'
  <2>1. Alone(c)' => Mine(c)'
    BY <1>13, <1>b, LockFileType DEF QuarantineLock, NoLock
  <2> QED
    BY <1>13, <2>1, <1>a
<1>14. ASSUME NEW c \in Call, VerifyQuarantine(c) PROVE LoneLock'
  <2>1. Alone(c)' => Mine(c)'
    BY <1>14, <1>b DEF VerifyQuarantine
  <2> QED
    BY <1>14, <2>1, <1>a
<1>15. ASSUME NEW c \in Call, ReadHead(c) PROVE LoneLock'
  <2>1. Alone(c)' => Mine(c)'
    BY <1>15, <1>b DEF ReadHead
  <2> QED
    BY <1>15, <2>1, <1>a
<1>16. ASSUME NEW c \in Call, CreateArtifacts(c) PROVE LoneLock'
  <2>1. Alone(c)' => Mine(c)'
    BY <1>16, <1>b DEF CreateArtifacts, CheckArtifacts
  <2> QED
    BY <1>16, <2>1, <1>a
<1>27. ASSUME NEW c \in Call, FillArtifacts(c) PROVE LoneLock'
  <2>1. Alone(c)' => Mine(c)'
    BY <1>27, <1>b DEF FillArtifacts
  <2> QED
    BY <1>27, <2>1, <1>a
<1>28. ASSUME NEW c \in Call, SyncArtifacts(c) PROVE LoneLock'
  <2>1. Alone(c)' => Mine(c)'
    BY <1>28, <1>b DEF SyncArtifacts, CheckArtifacts
  <2> QED
    BY <1>28, <2>1, <1>a
<1>17. ASSUME NEW c \in Call, Recheck(c) PROVE LoneLock'
  <2>1. Alone(c)' => Mine(c)'
    BY <1>17, <1>b DEF Recheck
  <2> QED
    BY <1>17, <2>1, <1>a
<1>18. ASSUME NEW c \in Call, RenameHead(c) PROVE LoneLock'
  <2>1. Alone(c)' => Mine(c)'
    BY <1>18, <1>b DEF RenameHead
  <2> QED
    BY <1>18, <2>1, <1>a
<1>19. ASSUME NEW c \in Call, SyncHead(c) PROVE LoneLock'
  <2>1. Alone(c)' => Mine(c)'
    BY <1>19, <1>b DEF SyncHead
  <2> QED
    BY <1>19, <2>1, <1>a
<1>20. ASSUME NEW c \in Call, RereadHead(c) PROVE LoneLock'
  <2>1. Alone(c)' => Mine(c)'
    BY <1>20, <1>b DEF RereadHead
  <2> QED
    BY <1>20, <2>1, <1>a
<1>21. ASSUME NEW c \in Call, CheckRelease(c) PROVE LoneLock'
  <2>1. Alone(c)' => Mine(c)'
    BY <1>21, <1>b DEF CheckRelease
  <2> QED
    BY <1>21, <2>1, <1>a
<1>22. ASSUME NEW c \in Call, UnlinkLock(c) PROVE LoneLock'
  <2>1. Alone(c)' => Mine(c)'
    BY <1>22, <1>b, LockFileType DEF UnlinkLock, NoLock
  <2> QED
    BY <1>22, <2>1, <1>a
<1>23. ASSUME NEW c \in Call, SystemError(c) PROVE LoneLock'
  <2>1. Alone(c)' => Mine(c)'
    BY <1>23, <1>b DEF SystemError
  <2> QED
    BY <1>23, <2>1, <1>a
<1>24. ASSUME NEW c \in Call, Crash(c) PROVE LoneLock'
  BY <1>24, <1>b DEF Crash, LoneLock
<1>25. CASE PowerLoss
  BY <1>25 DEF PowerLoss, LoneLock
<1>26. CASE UNCHANGED vars
  BY <1>26 DEF vars, LoneLock
<1> QED
  BY <1>1, <1>2, <1>3, <1>4, <1>5, <1>6, <1>7, <1>8, <1>9, <1>10, <1>11, <1>12, <1>13, <1>14, <1>15, <1>16, <1>27, <1>28, <1>17, <1>18, <1>19, <1>20, <1>21, <1>22, <1>23, <1>24, <1>25, <1>26 DEF Next, Step

\* What a lone call read stays true, and the only check it can fail under its lock is the
\* comparison of the head with the parent of its snapshot.
LEMMA LoneCommitStep ==
    /\ TypeInv /\ IdleIsUnknown /\ OnlyDoneCallsAnswer /\ Authorized /\ FilesAreWhole
    /\ LoneCallIsAlone /\ LoneLock /\ LoneCommit /\ [Next]_vars
    => LoneCommit'
<1> SUFFICES ASSUME TypeInv, IdleIsUnknown, OnlyDoneCallsAnswer, Authorized, FilesAreWhole,
                    LoneCallIsAlone, LoneLock, LoneCommit, [Next]_vars
             PROVE  LoneCommit'
  OBVIOUS
<1> DEFINE Subject(c) == Alone(c) /\ c \notin faulty /\ (kind[c] = "persist" => target[c] = c)
           Sure(c) == /\ pc[c] \notin ReleasePC => code[c] = "none"
                      /\ pc[c] \in ReleasePC => code[c] = "none" \/ Refused(c)
                      /\ pc[c] \in {"recheck"} \cup WritePC => base[c] = head
                      /\ pc[c] \in {"syncHead", "reread"} => head.snap = target[c]
<1>a. ASSUME NEW c \in Call, Step(c) \/ SystemError(c), Subject(c)' => Sure(c)'
      PROVE  LoneCommit'
  BY <1>a, OnlyLoneMoves DEF LoneCommit
<1>b. \A c \in Call : Subject(c) => Sure(c)
  BY DEF LoneCommit
<1>c. \A c \in Call : Alone(c) /\ pc[c] \in LockPC \ {"initLock"} => HoldsLock(c)
  BY DEF LoneLock, HoldsLock
<1> USE DEF TypeInv, TypeOK, NamesAreGiven, Goto, Finish, Abort, files, input, env, LockPC,
            Alone, Running, RunningPC, ClaimPC, AcquirePC, CommitPC, WritePC, ReleasePC, Step
<1>1. ASSUME NEW c \in Call, BeginBootstrap(c) PROVE LoneCommit'
  <2>1. Sure(c)'
    BY <1>1 DEF BeginBootstrap, OnlyDoneCallsAnswer
  <2> QED
    BY <1>1, <2>1, <1>a
<1>2. ASSUME NEW c \in Call, BeginPersist(c) PROVE LoneCommit'
  <2>1. Sure(c)'
    BY <1>2 DEF BeginPersist, OnlyDoneCallsAnswer
  <2> QED
    BY <1>2, <2>1, <1>a
<1>3. ASSUME NEW c \in Call, InspectMarker(c) PROVE LoneCommit'
  <2>1. Subject(c)' => Sure(c)'
    BY <1>3, <1>b DEF InspectMarker, Refused, Authorized
  <2> QED
    BY <1>3, <2>1, <1>a
<1>4. ASSUME NEW c \in Call, StageArtifacts(c) PROVE LoneCommit'
  <2>1. Subject(c)' => Sure(c)'
    BY <1>4, <1>b DEF StageArtifacts, Refused, Authorized
  <2> QED
    BY <1>4, <2>1, <1>a
<1>5. ASSUME NEW c \in Call, ClaimReplay(c) PROVE LoneCommit'
  <2>1. Subject(c)' => Sure(c)'
    BY <1>5, <1>b DEF ClaimReplay, Refused, Authorized
  <2> QED
    BY <1>5, <2>1, <1>a
<1>6. ASSUME NEW c \in Call, ReadMarkerBound(c) PROVE LoneCommit'
  <2>1. Subject(c)' => Sure(c)'
    BY <1>6, <1>b DEF ReadMarkerBound, Refused, Authorized
  <2> QED
    BY <1>6, <2>1, <1>a
<1>7. ASSUME NEW c \in Call, CreateLock(c) PROVE LoneCommit'
  <2>1. Subject(c)' => Sure(c)'
    BY <1>7, <1>b DEF CreateLock, Refused, Authorized
  <2> QED
    BY <1>7, <2>1, <1>a
<1>8. ASSUME NEW c \in Call, WriteLock(c) PROVE LoneCommit'
  <2>1. Subject(c)' => Sure(c)'
    BY <1>8, <1>b DEF WriteLock, Refused, Authorized
  <2> QED
    BY <1>8, <2>1, <1>a
<1>9. ASSUME NEW c \in Call, ConfirmLock(c) PROVE LoneCommit'
  <2>1. Subject(c)' => Sure(c)'
    BY <1>9, <1>b DEF ConfirmLock, Refused, Authorized
  <2> QED
    BY <1>9, <2>1, <1>a
<1>10. ASSUME NEW c \in Call, StatLock(c) PROVE LoneCommit'
  <2>1. Subject(c)' => Sure(c)'
    BY <1>10, <1>b DEF StatLock, Refused, Authorized
  <2> QED
    BY <1>10, <2>1, <1>a
<1>11. ASSUME NEW c \in Call, ReadLock(c) PROVE LoneCommit'
  <2>1. Subject(c)' => Sure(c)'
    BY <1>11, <1>b DEF ReadLock, Refused, Authorized
  <2> QED
    BY <1>11, <2>1, <1>a
<1>12. ASSUME NEW c \in Call, JudgeLock(c) PROVE LoneCommit'
  <2>1. Subject(c)' => Sure(c)'
    BY <1>12, <1>b DEF JudgeLock, Refused, Authorized
  <2> QED
    BY <1>12, <2>1, <1>a
<1>13. ASSUME NEW c \in Call, QuarantineLock(c) PROVE LoneCommit'
  <2>1. Subject(c)' => Sure(c)'
    BY <1>13, <1>b DEF QuarantineLock, Refused, Authorized
  <2> QED
    BY <1>13, <2>1, <1>a
<1>14. ASSUME NEW c \in Call, VerifyQuarantine(c) PROVE LoneCommit'
  <2>1. Subject(c)' => Sure(c)'
    BY <1>14, <1>b DEF VerifyQuarantine, Refused, Authorized
  <2> QED
    BY <1>14, <2>1, <1>a
<1>15. ASSUME NEW c \in Call, ReadHead(c) PROVE LoneCommit'
  <2>1. ASSUME Subject(c)' PROVE Sure(c)'
    <3>1. Subject(c) /\ HoldsLock(c) /\ code[c] = "none" /\ base' = [base EXCEPT ![c] = head]
          /\ head' = head /\ target' = target /\ artifacts' = artifacts
      BY <1>15, <2>1, <1>b, <1>c DEF ReadHead
    <3>2. kind[c] = "bootstrap" =>
            target[c] = marker /\ marker \in artifacts /\ parent[marker] = NoCall
      BY <1>15, ConstantsAssumption
         DEF ReadHead, Authorized, FilesAreWhole, NamedSnapshotsAreComplete, Recoverable, BeforeMarker
    <3>3. kind[c] = "persist" => head.snap # NoCall
      BY <1>15 DEF ReadHead, Authorized
    <3>4. kind[c] \in {"bootstrap", "persist"}
      OBVIOUS
    <3>0. head = NoHead <=> head.snap = NoCall
      BY HeadFileType
    <3>8. CASE head # NoHead /\ head.snap \notin artifacts
      <4>1. code' = [code EXCEPT ![c] = "HEAD_INTEGRITY_FAILED"]
            /\ pc' = [pc EXCEPT ![c] = "release"]
        BY <1>15, <3>1, <3>2, <3>4, <3>8 DEF ReadHead
      <4>2. head.snap \in adopted \cap cut /\ adopted' = adopted /\ cut' = cut
        BY <1>15, <3>0, <3>8
           DEF ReadHead, FilesAreWhole, NamedSnapshotsAreComplete, Recoverable
      <4>3. Refused(c)'
        BY <3>1, <4>1, <4>2 DEF Refused
      <4> QED
        BY <4>1, <4>3
    <3>9. ASSUME ~(head # NoHead /\ head.snap \notin artifacts) PROVE Sure(c)'
      <4>5. CASE head.snap = target[c]
        BY <1>15, <3>1, <3>2, <3>4, <3>9, <4>5 DEF ReadHead
      <4>6. CASE head.snap # target[c] /\ parent[target[c]] # head.snap
        <5>1. code' = [code EXCEPT ![c] = "COMPARE_AND_SWAP_FAILED"]
              /\ pc' = [pc EXCEPT ![c] = "release"]
          BY <1>15, <3>1, <3>2, <3>4, <3>9, <4>6 DEF ReadHead
        <5>2. head.snap \notin {target[c], NoCall}
          BY <3>2, <3>3, <3>4, <4>6
        <5>3. Refused(c)'
          BY <3>1, <5>1, <5>2 DEF Refused
        <5> QED
          BY <5>1, <5>3
      <4>7. CASE head.snap # target[c] /\ parent[target[c]] = head.snap
        BY <1>15, <3>1, <3>2, <3>4, <3>9, <4>7 DEF ReadHead
      <4> QED
        BY <4>5, <4>6, <4>7
    <3> QED
      BY <3>8, <3>9
  <2> QED
    BY <1>15, <2>1, <1>a
<1>16. ASSUME NEW c \in Call, CreateArtifacts(c) PROVE LoneCommit'
  <2>1. ASSUME Subject(c)' PROVE Sure(c)'
    <3>1. Subject(c) /\ HoldsLock(c) /\ code[c] = "none" /\ base[c] = head
      BY <1>16, <2>1, <1>b, <1>c DEF CreateArtifacts, CheckArtifacts
    <3>2. target[c] = c /\ pc[c] = "artifacts"
      BY <1>16, <3>1 DEF CreateArtifacts, CheckArtifacts, Authorized, Ended
    <3>3. target[c] \notin partial
      BY <3>2 DEF FilesAreWhole, Ended
    <3> QED
      BY <1>16, <3>1, <3>3 DEF CreateArtifacts, CheckArtifacts
  <2> QED
    BY <1>16, <2>1, <1>a
<1>27. ASSUME NEW c \in Call, FillArtifacts(c) PROVE LoneCommit'
  <2>1. Subject(c)' => Sure(c)'
    BY <1>27, <1>b DEF FillArtifacts
  <2> QED
    BY <1>27, <2>1, <1>a
<1>28. ASSUME NEW c \in Call, SyncArtifacts(c) PROVE LoneCommit'
  <2>1. Subject(c)' => Sure(c)'
    BY <1>28, <1>b, <1>c DEF SyncArtifacts, CheckArtifacts
  <2> QED
    BY <1>28, <2>1, <1>a
<1>17. ASSUME NEW c \in Call, Recheck(c) PROVE LoneCommit'
  <2>1. Subject(c)' => Sure(c)'
    BY <1>17, <1>b, <1>c DEF Recheck, Authorized
  <2> QED
    BY <1>17, <2>1, <1>a
<1>18. ASSUME NEW c \in Call, RenameHead(c) PROVE LoneCommit'
  <2>1. Subject(c)' => Sure(c)'
    <3>1. head'.snap = target[c] /\ target' = target
      BY <1>18 DEF RenameHead
    <3> QED
      BY <1>18, <1>b, <3>1 DEF RenameHead
  <2> QED
    BY <1>18, <2>1, <1>a
<1>19. ASSUME NEW c \in Call, SyncHead(c) PROVE LoneCommit'
  <2>1. Subject(c)' => Sure(c)'
    BY <1>19, <1>b DEF SyncHead, Refused, Authorized
  <2> QED
    BY <1>19, <2>1, <1>a
<1>20. ASSUME NEW c \in Call, RereadHead(c) PROVE LoneCommit'
  <2>1. Subject(c)' => Sure(c)'
    BY <1>20, <1>b, <1>c DEF RereadHead
  <2> QED
    BY <1>20, <2>1, <1>a
<1>21. ASSUME NEW c \in Call, CheckRelease(c) PROVE LoneCommit'
  <2>1. Subject(c)' => Sure(c)'
    BY <1>21, <1>b DEF CheckRelease, Refused, Authorized
  <2> QED
    BY <1>21, <2>1, <1>a
<1>22. ASSUME NEW c \in Call, UnlinkLock(c) PROVE LoneCommit'
  <2>1. Subject(c)' => Sure(c)'
    BY <1>22, <1>b DEF UnlinkLock, Refused, Authorized
  <2> QED
    BY <1>22, <2>1, <1>a
<1>23. ASSUME NEW c \in Call, SystemError(c) PROVE LoneCommit'
  <2>1. ~Subject(c)'
    BY <1>23 DEF SystemError
  <2> QED
    BY <1>23, <2>1, <1>a
<1>24. ASSUME NEW c \in Call, Crash(c) PROVE LoneCommit'
  BY <1>24, <1>b DEF Crash, LoneCommit, Refused
<1>25. CASE PowerLoss
  BY <1>25 DEF PowerLoss, LoneCommit
<1>26. CASE UNCHANGED vars
  BY <1>26 DEF vars, LoneCommit, Refused
<1> QED
  BY <1>1, <1>2, <1>3, <1>4, <1>5, <1>6, <1>7, <1>8, <1>9, <1>10, <1>11, <1>12, <1>13, <1>14, <1>15, <1>16, <1>27, <1>28, <1>17, <1>18, <1>19, <1>20, <1>21, <1>22, <1>23, <1>24, <1>25, <1>26 DEF Next, Step

\* How a lone call ends.
LoneEnd(c) ==
    \/ result[c] = "stored"
    \/ result[c] = "INVALID_TRANSITION" /\ term[c] # term[target[c]]
    \/ result[c] = "COMPARE_AND_SWAP_FAILED" /\ base[c].snap \notin {target[c], NoCall}
    \/ result[c] = "LOCK_INTEGRITY_FAILED" /\ FoundEmptyLock(c)
    \/ result[c] = "HEAD_INTEGRITY_FAILED" /\ base[c].snap \in adopted \cap cut

\* No step ends a lone call in another way.
LEMMA LoneStoresStep ==
    LoneInv /\ [Next]_vars => LoneCallStores'
<1> SUFFICES ASSUME LoneInv, [Next]_vars PROVE LoneCallStores'
  OBVIOUS
<1> DEFINE Eligible(c) == c \notin overlapped \cup faulty /\ (kind[c] = "persist" => target[c] = c)
<1>a. \A c \in Call : Eligible(c) /\ pc[c] = "done" => LoneEnd(c)
  BY DEF LoneInv, LoneCallStores, LoneEnd
<1>b. ASSUME \A c \in Call : Eligible(c)' /\ pc'[c] = "done" => LoneEnd(c)'
      PROVE  LoneCallStores'
  BY <1>b DEF LoneCallStores, LoneEnd
<1> DEFINE Others(c) ==
             /\ \A d \in Call \ {c} :
                /\ pc'[d] = pc[d] /\ result'[d] = result[d] /\ target'[d] = target[d]
                /\ base'[d] = base[d] /\ seenLock'[d] = seenLock[d] /\ kind'[d] = kind[d]
                /\ term'[d] = term[d]
             /\ pc[c] # "idle" => term' = term
             /\ overlapped \subseteq overlapped' /\ faulty \subseteq faulty'
             /\ adopted \subseteq adopted' /\ cut \subseteq cut'
<1>c. ASSUME NEW c \in Call, Others(c), Eligible(c)' /\ pc'[c] = "done" => LoneEnd(c)'
      PROVE  LoneCallStores'
  <2> SUFFICES ASSUME NEW d \in Call, Eligible(d)', pc'[d] = "done" PROVE LoneEnd(d)'
    BY <1>b
  <2>1. CASE d = c
    BY <1>c, <2>1
  <2>2. CASE d # c
    <3>1. Eligible(d) /\ pc[d] = "done"
      BY <1>c, <2>2
    <3>2. LoneEnd(d)
      BY <1>a, <3>1
    <3>3. target[d] # c \/ term' = term
      BY <1>c DEF LoneInv, SafeInv, IdleIsUnknown
    <3>4. target[d] \in Call => term'[target[d]] = term[target[d]]
      BY <1>c, <3>3
    <3>5. result[d] = "INVALID_TRANSITION" => target[d] \in Call
      BY DEF LoneInv, SafeInv, NamesAreGiven
    <3> QED
      BY <1>c, <2>2, <3>2, <3>4, <3>5 DEF LoneEnd, FoundEmptyLock
  <2> QED
    BY <2>1, <2>2
<1>d. \A c \in Call : Alone(c) /\ pc[c] \in LockPC \ {"initLock"} => HoldsLock(c)
  BY DEF LoneInv, LoneLock, HoldsLock
<1>e. TypeOK
  BY DEF LoneInv, SafeInv
<1>f. \A c \in Call :
        Alone(c) /\ Eligible(c) =>
            /\ pc[c] \notin ReleasePC => code[c] = "none"
            /\ pc[c] \in ReleasePC => code[c] = "none" \/ Refused(c)
  BY DEF LoneInv, LoneCommit
<1> USE <1>e
     DEF TypeOK, Goto, Finish, Abort, files, input, env, LockPC, Alone, Running, RunningPC,
         ClaimPC, AcquirePC, CommitPC, WritePC, ReleasePC
<1>1. ASSUME NEW c \in Call, BeginBootstrap(c) PROVE LoneCallStores'
  <2>1. Others(c)
    BY <1>1 DEF BeginBootstrap, NoteOverlap
  <2>2. pc'[c] # "done"
    BY <1>1 DEF BeginBootstrap
  <2> QED
    BY <2>1, <2>2, <1>c
<1>2. ASSUME NEW c \in Call, BeginPersist(c) PROVE LoneCallStores'
  <2>1. Others(c)
    BY <1>2 DEF BeginPersist, NoteOverlap
  <2>2. pc'[c] # "done"
    BY <1>2 DEF BeginPersist
  <2> QED
    BY <2>1, <2>2, <1>c
<1>3. ASSUME NEW c \in Call, InspectMarker(c) PROVE LoneCallStores'
  <2>1. Others(c)
    BY <1>3 DEF InspectMarker
  <2>2. pc'[c] # "done"
    BY <1>3 DEF InspectMarker
  <2> QED
    BY <2>1, <2>2, <1>c
<1>4. ASSUME NEW c \in Call, StageArtifacts(c) PROVE LoneCallStores'
  <2>1. Others(c)
    BY <1>4 DEF StageArtifacts
  <2>2. pc'[c] # "done"
    BY <1>4 DEF StageArtifacts
  <2> QED
    BY <2>1, <2>2, <1>c
<1>5. ASSUME NEW c \in Call, ClaimReplay(c) PROVE LoneCallStores'
  <2>1. Others(c)
    BY <1>5 DEF ClaimReplay
  <2>2. pc'[c] # "done"
    BY <1>5 DEF ClaimReplay
  <2> QED
    BY <2>1, <2>2, <1>c
<1>6. ASSUME NEW c \in Call, ReadMarkerBound(c) PROVE LoneCallStores'
  <2>1. Others(c)
    BY <1>6 DEF ReadMarkerBound
  <2>2. target[c] \in artifacts
    BY <1>6, ConstantsAssumption
       DEF ReadMarkerBound, LoneInv, SafeInv, Authorized, FilesAreWhole,
           NamedSnapshotsAreComplete, Recoverable, BeforeMarker
  <2>3. pc'[c] = "done" => LoneEnd(c)'
    BY <1>6, <2>2 DEF ReadMarkerBound, LoneEnd
  <2> QED
    BY <2>1, <2>3, <1>c
<1>7. ASSUME NEW c \in Call, CreateLock(c) PROVE LoneCallStores'
  <2>1. Others(c)
    BY <1>7 DEF CreateLock
  <2>2. pc'[c] # "done"
    BY <1>7 DEF CreateLock
  <2> QED
    BY <2>1, <2>2, <1>c
<1>8. ASSUME NEW c \in Call, WriteLock(c) PROVE LoneCallStores'
  <2>1. Others(c)
    BY <1>8 DEF WriteLock
  <2>2. pc'[c] # "done"
    BY <1>8 DEF WriteLock
  <2> QED
    BY <2>1, <2>2, <1>c
<1>9. ASSUME NEW c \in Call, ConfirmLock(c) PROVE LoneCallStores'
  <2>1. Others(c)
    BY <1>9 DEF ConfirmLock
  <2>2. Alone(c) => pc'[c] # "done"
    BY <1>9, <1>d DEF ConfirmLock
  <2>3. Eligible(c)' => Alone(c)
    BY <1>9 DEF ConfirmLock
  <2> QED
    BY <2>1, <2>2, <2>3, <1>c
<1>10. ASSUME NEW c \in Call, StatLock(c) PROVE LoneCallStores'
  <2>1. Others(c)
    BY <1>10 DEF StatLock
  <2>2. pc'[c] # "done"
    BY <1>10 DEF StatLock
  <2> QED
    BY <2>1, <2>2, <1>c
<1>11. ASSUME NEW c \in Call, ReadLock(c) PROVE LoneCallStores'
  <2>1. Others(c)
    BY <1>11 DEF ReadLock
  <2>2. Eligible(c)' => seenLock[c] = lock /\ seenLock[c] # NoLock
    BY <1>11 DEF ReadLock, LoneInv, LoneLock, SafeInv, NamesAreGiven
  <2>3. Eligible(c)' /\ pc'[c] = "done" => LoneEnd(c)'
    BY <1>11, <2>2 DEF ReadLock, LoneEnd, FoundEmptyLock
  <2> QED
    BY <2>1, <2>3, <1>c
<1>12. ASSUME NEW c \in Call, JudgeLock(c) PROVE LoneCallStores'
  <2>1. Others(c)
    BY <1>12 DEF JudgeLock
  <2>2. Eligible(c)' => /\ Alone(c) /\ seenLock[c] = lock /\ lock # NoLock /\ lock.owner # c
    BY <1>12 DEF JudgeLock, LoneInv, LoneLock, OwnersHaveLocked, Ended
  <2>3. Eligible(c)' => ~Alive(seenLock[c].owner)
    BY <1>12, <2>2, LockFileType DEF JudgeLock, Alive, LoneInv, LoneCallIsAlone
  <2>4. Eligible(c)' => pc'[c] # "done"
    BY <1>12, <2>2, <2>3 DEF JudgeLock
  <2> QED
    BY <2>1, <2>4, <1>c
<1>13. ASSUME NEW c \in Call, QuarantineLock(c) PROVE LoneCallStores'
  <2>1. Others(c)
    BY <1>13 DEF QuarantineLock
  <2>2. pc'[c] # "done"
    BY <1>13 DEF QuarantineLock
  <2> QED
    BY <2>1, <2>2, <1>c
<1>14. ASSUME NEW c \in Call, VerifyQuarantine(c) PROVE LoneCallStores'
  <2>1. Others(c)
    BY <1>14 DEF VerifyQuarantine
  <2>2. Eligible(c)' => pc'[c] # "done"
    BY <1>14 DEF VerifyQuarantine, LoneInv, LoneLock
  <2> QED
    BY <2>1, <2>2, <1>c
<1>15. ASSUME NEW c \in Call, ReadHead(c) PROVE LoneCallStores'
  <2>1. Others(c)
    BY <1>15 DEF ReadHead
  <2>2. pc'[c] # "done"
    BY <1>15 DEF ReadHead
  <2> QED
    BY <2>1, <2>2, <1>c
<1>16. ASSUME NEW c \in Call, CreateArtifacts(c) PROVE LoneCallStores'
  <2>1. Others(c)
    BY <1>16 DEF CreateArtifacts, CheckArtifacts
  <2>2. pc'[c] # "done"
    BY <1>16 DEF CreateArtifacts, CheckArtifacts
  <2> QED
    BY <2>1, <2>2, <1>c
<1>27. ASSUME NEW c \in Call, FillArtifacts(c) PROVE LoneCallStores'
  <2>1. Others(c)
    BY <1>27 DEF FillArtifacts
  <2>2. pc'[c] # "done"
    BY <1>27 DEF FillArtifacts
  <2> QED
    BY <2>1, <2>2, <1>c
<1>28. ASSUME NEW c \in Call, SyncArtifacts(c) PROVE LoneCallStores'
  <2>1. Others(c)
    BY <1>28 DEF SyncArtifacts, CheckArtifacts
  <2>2. pc'[c] # "done"
    BY <1>28 DEF SyncArtifacts, CheckArtifacts
  <2> QED
    BY <2>1, <2>2, <1>c
<1>17. ASSUME NEW c \in Call, Recheck(c) PROVE LoneCallStores'
  <2>1. Others(c)
    BY <1>17 DEF Recheck
  <2>2. pc'[c] # "done"
    BY <1>17 DEF Recheck
  <2> QED
    BY <2>1, <2>2, <1>c
<1>18. ASSUME NEW c \in Call, RenameHead(c) PROVE LoneCallStores'
  <2>1. Others(c)
    BY <1>18 DEF RenameHead
  <2>2. pc'[c] # "done"
    BY <1>18 DEF RenameHead
  <2> QED
    BY <2>1, <2>2, <1>c
<1>19. ASSUME NEW c \in Call, SyncHead(c) PROVE LoneCallStores'
  <2>1. Others(c)
    BY <1>19 DEF SyncHead
  <2>2. pc'[c] # "done"
    BY <1>19 DEF SyncHead
  <2> QED
    BY <2>1, <2>2, <1>c
<1>20. ASSUME NEW c \in Call, RereadHead(c) PROVE LoneCallStores'
  <2>1. Others(c)
    BY <1>20 DEF RereadHead
  <2>2. pc'[c] # "done"
    BY <1>20 DEF RereadHead
  <2> QED
    BY <2>1, <2>2, <1>c
<1>21. ASSUME NEW c \in Call, CheckRelease(c) PROVE LoneCallStores'
  <2>1. Others(c)
    BY <1>21 DEF CheckRelease
  <2>2. Eligible(c)' => pc'[c] # "done"
    BY <1>21, <1>d DEF CheckRelease
  <2> QED
    BY <2>1, <2>2, <1>c
<1>22. ASSUME NEW c \in Call, UnlinkLock(c) PROVE LoneCallStores'
  <2>1. Others(c)
    BY <1>22 DEF UnlinkLock
  <2>2. Eligible(c)' => Alone(c) /\ Eligible(c) /\ lock # NoLock
    BY <1>22, <1>d DEF UnlinkLock, HoldsLock, NoLock
  <2>3. Eligible(c)' => result'[c] = IF code[c] = "none" THEN "stored" ELSE code[c]
    BY <1>22, <2>2 DEF UnlinkLock
  <2>4. Eligible(c)' => code[c] = "none" \/ Refused(c)
    BY <1>22, <1>f, <2>2 DEF UnlinkLock
  <2>5. base' = base /\ target' = target /\ adopted' = adopted /\ cut' = cut
    BY <1>22 DEF UnlinkLock
  <2>6. Eligible(c)' => LoneEnd(c)'
    BY <2>3, <2>4, <2>5 DEF LoneEnd, Refused
  <2> QED
    BY <2>1, <2>6, <1>c
<1>23. ASSUME NEW c \in Call, SystemError(c) PROVE LoneCallStores'
  <2>1. Others(c)
    BY <1>23 DEF SystemError
  <2>2. ~Eligible(c)'
    BY <1>23 DEF SystemError
  <2> QED
    BY <2>1, <2>2, <1>c
<1>24. ASSUME NEW c \in Call, Crash(c) PROVE LoneCallStores'
  <2>1. Others(c)
    BY <1>24 DEF Crash
  <2>2. pc'[c] # "done"
    BY <1>24 DEF Crash
  <2> QED
    BY <2>1, <2>2, <1>c
<1>25. CASE PowerLoss
  <2>1. \A c \in Call : /\ pc'[c] = "done" => pc[c] = "done"
                        /\ Eligible(c)' => Eligible(c)
                        /\ LoneEnd(c) => LoneEnd(c)'
    BY <1>25 DEF PowerLoss, LoneEnd, FoundEmptyLock
  <2> QED
    BY <2>1, <1>a, <1>b
<1>26. CASE UNCHANGED vars
  <2>1. \A c \in Call : /\ pc'[c] = "done" => pc[c] = "done"
                        /\ Eligible(c)' => Eligible(c)
                        /\ LoneEnd(c) => LoneEnd(c)'
    BY <1>26 DEF vars, LoneEnd, FoundEmptyLock
  <2> QED
    BY <2>1, <1>a, <1>b
<1> QED
  BY <1>1, <1>2, <1>3, <1>4, <1>5, <1>6, <1>7, <1>8, <1>9, <1>10, <1>11, <1>12, <1>13, <1>14, <1>15, <1>16, <1>27, <1>28, <1>17, <1>18, <1>19, <1>20, <1>21, <1>22, <1>23, <1>24, <1>25, <1>26 DEF Next, Step

\* An empty directory with no call running satisfies the invariant of lone calls.
LEMMA LoneInit == Init => LoneInv
<1> SUFFICES ASSUME Init PROVE LoneInv
  OBVIOUS
<1>1. \A c \in Call : ~Running(c) /\ pc[c] = "idle"
  BY DEF Init, Running, RunningPC, ClaimPC, AcquirePC, CommitPC, WritePC, ReleasePC
<1>2. OwnersHaveLocked
  BY ConstantsAssumption DEF Init, OwnersHaveLocked, NoLock
<1> QED
  BY <1>1, <1>2, SafeInit
     DEF LoneInv, LoneCallIsAlone, LoneLock, LoneCommit, LoneCallStores, Alone

\* Every step preserves it.
LEMMA LoneStep == LoneInv /\ [Next]_vars => LoneInv'
<1> SUFFICES ASSUME LoneInv, [Next]_vars PROVE LoneInv'
  OBVIOUS
<1>1. SafeInv'
  BY SafeStep DEF LoneInv
<1>2. LoneCallIsAlone' /\ OwnersHaveLocked'
  BY AloneStep, OwnersStep DEF LoneInv, SafeInv, TypeInv
<1>3. LoneLock'
  BY LoneLockStep DEF LoneInv, SafeInv, TypeInv
<1>4. LoneCommit'
  BY LoneCommitStep DEF LoneInv, SafeInv, TypeInv
<1>5. LoneCallStores'
  BY LoneStoresStep
<1> QED
  BY <1>1, <1>2, <1>3, <1>4, <1>5 DEF LoneInv

\* A call that runs alone and meets no failing system call stores its snapshot, or finds
\* that an earlier call overtook it, or finds an empty lock file: dead calls, however many,
\* leave nothing else behind that could stop it.
THEOREM LoneCallsStore == Spec => []LoneCallStores
<1>1. LoneInv => LoneCallStores
  BY DEF LoneInv
<1> QED
  BY <1>1, LoneInit, LoneStep, PTL DEF Spec
===============================================================================
