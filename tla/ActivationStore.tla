--------------------------- MODULE ActivationStore ---------------------------
(***************************************************************************)
(* The activation journal's store, tools/agent-supply-verifier/src/        *)
(* activation/store.ts, for one activation: bootstrapActivationSnapshot    *)
(* and persistActivationSnapshot run as calls of separate processes over   *)
(* one state directory, serialized by a lock file.  A step is a file       *)
(* system operation, or a run of checks that no other call can make fail   *)
(* between them in a way that a later check would not report as well.      *)
(*                                                                         *)
(* A call either bootstraps the journal (it consumes the quote's replay    *)
(* marker, then installs the marker's snapshot as the first head) or       *)
(* persists a snapshot derived from the head it read.  Snapshots are named *)
(* after the call that derived them.  The replay store is the atomic one   *)
(* of ReplayClaim, which ReplayStore implements.                           *)
(*                                                                         *)
(* Processes may be killed anywhere, system calls may fail, power may be   *)
(* lost.  Inode numbers matter, because the code recognizes its lock by    *)
(* them: a number is free again once no name and no open handle uses it.   *)
(***************************************************************************)
EXTENDS FiniteSets, Integers

CONSTANTS
    Call,           \* the calls made over the life of the journal
    NoCall,         \* no snapshot, no call
    Term,           \* what a quote's parties agreed on; a bootstrap brings one
    NoTerm,         \* not a bootstrap's snapshot
    Inode,          \* inode numbers that lock files may get
    NoInode,
    MaxMishaps      \* bound: kills, failing system calls and power losses together

ASSUME ConstantsAssumption ==
    /\ NoCall \notin Call
    /\ NoInode \notin Inode
    /\ NoTerm \notin Term
    /\ MaxMishaps \in Nat

VARIABLES
    \* the files
    marker,         \* the snapshot bound by the quote's replay marker
    artifacts,      \* snapshots whose state and report files are complete, as read
    partial,        \* snapshots whose files were created and not filled
    unsynced,       \* of the complete ones, those whose files nobody has synced
    head,           \* the head file: the snapshot it names, the call that wrote it
    diskHead,       \* the head file as of the last directory sync
    lock,           \* the lock file: inode, owner, whether its content is there
    aside,          \* lock files moved to a quarantine name, by the call that moved them
    \* the calls
    pc,
    kind,           \* "bootstrap" or "persist"
    term,           \* the terms of each bootstrapped snapshot
    snap,           \* the snapshot the caller passed
    parent,         \* of each snapshot, the one it was derived from
    target,         \* the snapshot the call tries to install
    base,           \* the head file that the call read under its lock
    handle,         \* the inode of the lock file the call created
    seenLock,       \* the lock file that the call inspects
    code,           \* the error the call is going to throw
    result,
    \* the environment, and ghosts that only properties read
    mishaps,        \* kills, failing system calls and power losses so far
    faulty,         \* calls that met a failing system call
    overlapped,     \* calls that ran while another call was running
    adopted,        \* snapshots whose files a call took over before anybody synced them
    cut,            \* snapshots whose files a power loss took or cut short
    history,        \* the snapshots that are, or have been, the head
    broken          \* a live lock was taken away from its holder

files  == <<marker, artifacts, partial, unsynced, head, diskHead, lock, aside>>
input  == <<kind, term, snap, parent>>
env    == <<mishaps, faulty, overlapped, adopted, cut, history, broken>>
vars   == <<marker, artifacts, partial, unsynced, head, diskHead, lock, aside, pc, kind, term,
            snap, parent, target, base, handle, seenLock, code, result, mishaps, faulty,
            overlapped, adopted, cut, history, broken>>

NoHead == [snap |-> NoCall, by |-> NoCall]
NoLock == [ino |-> NoInode, owner |-> NoCall, full |-> FALSE]

HeadFile == [snap : Call, by : Call] \cup {NoHead}
LockFile == [ino : Inode, owner : Call, full : BOOLEAN] \cup {NoLock}

ClaimPC   == {"inspectActivation", "stage", "claim", "readMarkerBound"}
AcquirePC == {"acquire", "initLock", "confirmLock", "inspectLock", "readLock",
              "judgeLock", "quarantine", "verifyQuarantine"}
WritePC   == {"artifacts", "fillArtifacts", "syncArtifacts"}
CommitPC  == {"readHead", "recheck", "rename", "syncHead", "reread"} \cup WritePC
ReleasePC == {"release", "unlinkLock"}
RunningPC == ClaimPC \cup AcquirePC \cup CommitPC \cup ReleasePC
PC        == {"idle", "done", "dead"} \cup RunningPC

Codes   == {"none", "COMPARE_AND_SWAP_FAILED", "LOCK_UNAVAILABLE", "ARTIFACT_COLLISION",
            "LOCK_INTEGRITY_FAILED", "HEAD_INTEGRITY_FAILED", "INVALID_TRANSITION",
            "SYSTEM"}
Results == Codes \cup {"stored"}

TypeOK ==
    /\ marker \in Call \cup {NoCall}
    /\ artifacts \subseteq Call /\ partial \subseteq Call /\ unsynced \subseteq artifacts
    /\ head \in HeadFile /\ diskHead \in HeadFile
    /\ lock \in LockFile
    /\ aside \in [Call -> LockFile]
    /\ pc \in [Call -> PC]
    /\ kind \in [Call -> {"bootstrap", "persist"}]
    /\ term \in [Call -> Term \cup {NoTerm}]
    /\ snap \in [Call -> Call \cup {NoCall}]
    /\ parent \in [Call -> Call \cup {NoCall}]
    /\ target \in [Call -> Call \cup {NoCall}]
    /\ base \in [Call -> HeadFile]
    /\ handle \in [Call -> Inode \cup {NoInode}]
    /\ seenLock \in [Call -> LockFile]
    /\ code \in [Call -> Codes]
    /\ result \in [Call -> Results]
    /\ mishaps \in 0 .. MaxMishaps
    /\ faulty \subseteq Call /\ overlapped \subseteq Call
    /\ adopted \subseteq Call /\ cut \subseteq Call
    /\ history \subseteq Call
    /\ broken \in BOOLEAN

Init ==
    /\ marker = NoCall
    /\ artifacts = {} /\ partial = {} /\ unsynced = {}
    /\ head = NoHead /\ diskHead = NoHead
    /\ lock = NoLock
    /\ aside = [c \in Call |-> NoLock]
    /\ pc = [c \in Call |-> "idle"]
    /\ kind = [c \in Call |-> "persist"]
    /\ term = [c \in Call |-> NoTerm]
    /\ snap = [c \in Call |-> NoCall]
    /\ parent = [c \in Call |-> NoCall]
    /\ target = [c \in Call |-> NoCall]
    /\ base = [c \in Call |-> NoHead]
    /\ handle = [c \in Call |-> NoInode]
    /\ seenLock = [c \in Call |-> NoLock]
    /\ code = [c \in Call |-> "none"]
    /\ result = [c \in Call |-> "none"]
    /\ mishaps = 0
    /\ faulty = {} /\ overlapped = {} /\ adopted = {} /\ cut = {}
    /\ history = {}
    /\ broken = FALSE

-----------------------------------------------------------------------------
\* Helpers

Running(c) == pc[c] \in RunningPC

\* isProcessAlive: each call is a run of the CLI, whose process ends with it.
Alive(c) == Running(c)

\* A number in use: behind a name, or held open by a live process.
UsedInodes ==
    {lock.ino} \cup {aside[c].ino : c \in Call} \cup {handle[c] : c \in {q \in Call : Running(q)}}

Goto(c, where) == pc' = [pc EXCEPT ![c] = where]

\* Leave the call with its result; the process ends.
Finish(c, r) ==
    /\ Goto(c, "done")
    /\ result' = [result EXCEPT ![c] = r]

\* assertLockIdentity: the path still leads to the inode and the bytes of this call.
HoldsLock(c) == lock.ino = handle[c] /\ lock.owner = c /\ lock.full

\* Throw out of the section that the lock protects: the finally block releases it.
Abort(c, error) ==
    /\ code' = [code EXCEPT ![c] = error]
    /\ Goto(c, "release")

NoteOverlap(c) ==
    LET others == {q \in Call : Running(q)}
    IN overlapped' = IF others = {} THEN overlapped ELSE overlapped \cup others \cup {c}

-----------------------------------------------------------------------------
\* The two entry points, up to the lock

\* bootstrapActivationSnapshot: prepareSnapshot and captureDirectories.
BeginBootstrap(c) ==
    /\ pc[c] = "idle"
    /\ kind' = [kind EXCEPT ![c] = "bootstrap"]
    /\ snap' = [snap EXCEPT ![c] = c]
    /\ \E t \in Term : term' = [term EXCEPT ![c] = t]
    /\ NoteOverlap(c)
    /\ Goto(c, "inspectActivation")
    /\ UNCHANGED <<files, parent, target, base, handle, seenLock, code, result,
                   mishaps, faulty, adopted, cut, history, broken>>

\* persistActivationSnapshot: the caller derived a new snapshot from the head it read
\* with readCurrentActivationSnapshot, or passes the snapshot of an earlier call again.  (Sequence 0 is refused.)
BeginPersist(c) ==
    /\ pc[c] = "idle"
    /\ head # NoHead
    /\ \/ /\ head.snap \in artifacts
          /\ snap' = [snap EXCEPT ![c] = c]
          /\ target' = [target EXCEPT ![c] = c]
          /\ parent' = [parent EXCEPT ![c] = head.snap]
       \/ \E q \in Call :
            /\ kind[q] = "persist" /\ pc[q] \in {"done", "dead"}
            /\ snap' = [snap EXCEPT ![c] = snap[q]]
            /\ target' = [target EXCEPT ![c] = snap[q]]
            /\ UNCHANGED parent
    /\ NoteOverlap(c)
    /\ Goto(c, "acquire")
    /\ UNCHANGED <<files, kind, term, base, handle, seenLock, code, result,
                   mishaps, faulty, adopted, cut, history, broken>>

\* Mutant: the artifacts are not staged before the quote is consumed.
InspectMarkerUnstaged(c) ==
    /\ pc[c] = "inspectActivation"
    /\ target' = [target EXCEPT ![c] = marker]
    /\ Goto(c, IF marker # NoCall THEN "readMarkerBound" ELSE "claim")
    /\ UNCHANGED <<files, input, base, handle, seenLock, code, result, env>>

InspectMarker(c) ==
    /\ pc[c] = "inspectActivation"
    /\ \/ /\ marker # NoCall
          /\ target' = [target EXCEPT ![c] = marker]
          /\ Goto(c, "readMarkerBound")
       \/ /\ marker = NoCall
          /\ Goto(c, "stage")
          /\ UNCHANGED target
    /\ UNCHANGED <<files, input, base, handle, seenLock, code, result, env>>

\* stagePreparedSnapshot and verifyStagedSnapshot: files and directories are synced.  The
\* state carries the time of its preparation, so no other call stages the same files (how
\* calls that do would meet is ArtifactStaging's subject).
StageArtifacts(c) ==
    /\ pc[c] = "stage"
    /\ artifacts' = artifacts \cup {snap[c]}
    /\ diskHead' = head
    /\ Goto(c, "claim")
    /\ UNCHANGED <<marker, partial, unsynced, head, lock, aside, input, target, base,
                   handle, seenLock, code, result, env>>

\* Mutant: a later claim replaces the marker of an earlier one.
ClaimReplayAgain(c) ==
    /\ pc[c] = "claim"
    /\ marker' = snap[c]
    /\ target' = [target EXCEPT ![c] = marker']
    /\ Goto(c, "readMarkerBound")
    /\ UNCHANGED <<artifacts, partial, unsynced, head, diskHead, lock, aside, input, base,
                   handle, seenLock, code, result, env>>

\* claimActivation, by the contract of ReplayClaim: consumed by this call or found
\* consumed.
ClaimReplay(c) ==
    /\ pc[c] = "claim"
    /\ marker' = IF marker = NoCall THEN snap[c] ELSE marker
    /\ target' = [target EXCEPT ![c] = marker']
    /\ Goto(c, "readMarkerBound")
    /\ UNCHANGED <<artifacts, partial, unsynced, head, diskHead, lock, aside, input, base,
                   handle, seenLock, code, result, env>>

\* readMarkerBoundSnapshot and assertBootstrapSemantics: the winner's own artifacts,
\* for the same terms.
ReadMarkerBound(c) ==
    /\ pc[c] = "readMarkerBound"
    /\ IF target[c] \notin artifacts THEN Finish(c, "HEAD_INTEGRITY_FAILED")
       ELSE IF term[target[c]] # term[c] THEN Finish(c, "INVALID_TRANSITION")
       ELSE Goto(c, "acquire") /\ UNCHANGED result
    /\ UNCHANGED <<files, input, target, base, handle, seenLock, code, env>>

-----------------------------------------------------------------------------
\* acquireActivationLock

\* Mutant: open(O_CREAT) without O_EXCL, which takes over the lock file of a holder.
CreateLockShared(c) ==
    /\ pc[c] = "acquire"
    /\ \E i \in IF lock = NoLock THEN Inode \ UsedInodes ELSE {lock.ino} :
          /\ lock' = [ino |-> i, owner |-> c, full |-> FALSE]
          /\ handle' = [handle EXCEPT ![c] = i]
    /\ Goto(c, "initLock")
    /\ UNCHANGED <<marker, artifacts, partial, unsynced, head, diskHead, aside, input, target,
                   base, seenLock, code, result, env>>

\* open(O_CREAT | O_EXCL)
CreateLock(c) ==
    /\ pc[c] = "acquire"
    /\ \/ /\ lock = NoLock
          /\ \E i \in Inode \ UsedInodes :
                /\ lock' = [ino |-> i, owner |-> c, full |-> FALSE]
                /\ handle' = [handle EXCEPT ![c] = i]
          /\ Goto(c, "initLock")
       \/ /\ lock # NoLock                                       \* EEXIST
          /\ Goto(c, "inspectLock")
          /\ UNCHANGED <<lock, handle>>
    /\ UNCHANGED <<marker, artifacts, partial, unsynced, head, diskHead, aside, input, target,
                   base, seenLock, code, result, env>>

\* Mutant: the lock is written by path, also when it has been moved away.
WriteLockByPath(c) ==
    /\ pc[c] = "initLock"
    /\ lock' = [lock EXCEPT !.full = TRUE]
    /\ Goto(c, "confirmLock")
    /\ UNCHANGED <<marker, artifacts, partial, unsynced, head, diskHead, aside, input, target, base,
                   handle, seenLock, code, result, env>>

\* Write and sync through the handle, wherever its file is now.
WriteLock(c) ==
    /\ pc[c] = "initLock"
    /\ lock' = IF lock.ino = handle[c] THEN [lock EXCEPT !.full = TRUE] ELSE lock
    /\ aside' = [q \in Call |->
                    IF aside[q].ino = handle[c] THEN [aside[q] EXCEPT !.full = TRUE]
                                                ELSE aside[q]]
    /\ Goto(c, "confirmLock")
    /\ UNCHANGED <<marker, artifacts, partial, unsynced, head, diskHead, input, target, base,
                   handle, seenLock, code, result, env>>

\* assertFileIdentity, syncDirectory and the read-back.  On failure the lock file,
\* if it is still there, stays behind.
ConfirmLock(c) ==
    /\ pc[c] = "confirmLock"
    /\ IF HoldsLock(c)
       THEN /\ diskHead' = head
            /\ Goto(c, "readHead")
            /\ UNCHANGED result
       ELSE /\ Finish(c, "LOCK_INTEGRITY_FAILED")
            /\ UNCHANGED diskHead
    /\ UNCHANGED <<marker, artifacts, partial, unsynced, head, lock, aside, input, target, base,
                   handle, seenLock, code, env>>

\* inspectExistingLockPath: lstat.
StatLock(c) ==
    /\ pc[c] = "inspectLock"
    /\ seenLock' = [seenLock EXCEPT ![c] = lock]
    /\ Goto(c, IF lock = NoLock THEN "acquire" ELSE "readLock")
    /\ UNCHANGED <<files, input, target, base, handle, code, result, env>>

\* Read and parse.  A file that is gone or not filled yet is tolerated during the
\* initialization grace period, and is a failure after it.
ReadLock(c) ==
    /\ pc[c] = "readLock"
    /\ \/ /\ lock.full
          /\ seenLock' = [seenLock EXCEPT ![c].owner = lock.owner]
          /\ Goto(c, "judgeLock")
          /\ UNCHANGED result
       \/ /\ ~lock.full
          /\ \/ Goto(c, "acquire") /\ UNCHANGED result           \* within the grace period
             \/ Finish(c, "LOCK_INTEGRITY_FAILED")               \* after it
          /\ UNCHANGED seenLock
    /\ UNCHANGED <<files, input, target, base, handle, code, env>>

\* Mutant: every holder is taken to be alive.
JudgeLockAlive(c) ==
    /\ pc[c] = "judgeLock"
    /\ \/ /\ lock.ino # seenLock[c].ino
          /\ Finish(c, "LOCK_INTEGRITY_FAILED")
       \/ /\ lock.ino = seenLock[c].ino
          /\ \/ Goto(c, "acquire") /\ UNCHANGED result
             \/ Finish(c, "LOCK_UNAVAILABLE")
    /\ UNCHANGED <<files, input, target, base, handle, seenLock, code, env>>

\* The path must still lead to the inode that was inspected.  A live holder is waited
\* for, up to the deadline; the lock of a dead one is quarantined.
JudgeLock(c) ==
    /\ pc[c] = "judgeLock"
    /\ \/ /\ lock.ino # seenLock[c].ino
          /\ Finish(c, "LOCK_INTEGRITY_FAILED")
       \/ /\ lock.ino = seenLock[c].ino
          /\ Alive(seenLock[c].owner)
          /\ \/ Goto(c, "acquire") /\ UNCHANGED result
             \/ Finish(c, "LOCK_UNAVAILABLE")                    \* the deadline passed
       \/ /\ lock.ino = seenLock[c].ino
          /\ ~Alive(seenLock[c].owner)
          /\ Goto(c, "quarantine")
          /\ UNCHANGED result
    /\ UNCHANGED <<files, input, target, base, handle, seenLock, code, env>>

\* quarantineDeadLock: rename(2) moves whatever is at the path by now.
QuarantineLock(c) ==
    /\ pc[c] = "quarantine"
    /\ \/ /\ lock = NoLock                                       \* ENOENT
          /\ Goto(c, "acquire")
          /\ UNCHANGED <<lock, aside, broken>>
       \/ /\ lock # NoLock
          /\ aside' = [aside EXCEPT ![c] = lock]
          /\ lock' = NoLock
          /\ broken' = (broken \/ Alive(lock.owner))
          /\ Goto(c, "verifyQuarantine")
    /\ UNCHANGED <<marker, artifacts, partial, unsynced, head, diskHead, input, target, base,
                   handle, seenLock, code, result, mishaps, faulty, overlapped,
                   adopted, cut, history>>

\* The moved file must be the inode that was judged; then it is unlinked.
VerifyQuarantine(c) ==
    /\ pc[c] = "verifyQuarantine"
    /\ IF aside[c].ino = seenLock[c].ino
       THEN /\ aside' = [aside EXCEPT ![c] = NoLock]
            /\ diskHead' = head                                  \* syncDirectory
            /\ Goto(c, "acquire")
            /\ UNCHANGED result
       ELSE /\ Finish(c, "LOCK_INTEGRITY_FAILED")
            /\ UNCHANGED <<aside, diskHead>>
    /\ UNCHANGED <<marker, artifacts, partial, unsynced, head, lock, input, target, base, handle,
                   seenLock, code, env>>

-----------------------------------------------------------------------------
\* commitSnapshot and installReplayAuthorizedHead

\* Mutant: a child is stored whatever its parent is.
ReadHeadUnchecked(c) ==
    /\ pc[c] = "readHead"
    /\ base' = [base EXCEPT ![c] = head]
    /\ IF ~HoldsLock(c) THEN Abort(c, "LOCK_INTEGRITY_FAILED")
       ELSE IF kind[c] = "bootstrap" /\ marker # target[c] THEN Abort(c, "HEAD_INTEGRITY_FAILED")
       ELSE IF head # NoHead /\ head.snap \notin artifacts THEN Abort(c, "HEAD_INTEGRITY_FAILED")
       ELSE IF head.snap = target[c] THEN Goto(c, "release") /\ UNCHANGED code
       ELSE /\ Goto(c, IF kind[c] = "persist" THEN "artifacts" ELSE "recheck")
            /\ UNCHANGED code
    /\ UNCHANGED <<files, input, target, handle, seenLock, result, env>>

\* assertCommitAuthority and readHeadRecord, which reads the artifacts of the head as
\* well.  Storing the head's own snapshot again succeeds at once; otherwise the head must
\* be what the snapshot was derived from (nothing, for a bootstrap).  A bootstrap first
\* rechecks the marker.
ReadHead(c) ==
    /\ pc[c] = "readHead"
    /\ base' = [base EXCEPT ![c] = head]
    /\ IF ~HoldsLock(c) THEN Abort(c, "LOCK_INTEGRITY_FAILED")
       ELSE IF kind[c] = "bootstrap" /\ marker # target[c] THEN Abort(c, "HEAD_INTEGRITY_FAILED")
       ELSE IF head # NoHead /\ head.snap \notin artifacts THEN Abort(c, "HEAD_INTEGRITY_FAILED")
       ELSE IF head.snap = target[c] THEN Goto(c, "release") /\ UNCHANGED code
       ELSE IF parent[target[c]] # head.snap THEN Abort(c, "COMPARE_AND_SWAP_FAILED")
       ELSE /\ Goto(c, IF kind[c] = "persist" THEN "artifacts" ELSE "recheck")
            /\ UNCHANGED code
    /\ UNCHANGED <<files, input, target, handle, seenLock, result, env>>

\* verifyPreparedSnapshot, then the first recheck of the authority and of the head.
CheckArtifacts(c) ==
    IF ~HoldsLock(c) THEN Abort(c, "LOCK_INTEGRITY_FAILED")
    ELSE IF head # base[c] THEN Abort(c, "COMPARE_AND_SWAP_FAILED")
    ELSE Goto(c, "recheck") /\ UNCHANGED code

\* writeCanonicalPrivateFile: created exclusively, or already there with this content.
\* What is there already is taken as it is: neither it nor its directory is synced.
CreateArtifacts(c) ==
    /\ pc[c] = "artifacts"
    /\ IF target[c] \in partial
       THEN Abort(c, "ARTIFACT_COLLISION") /\ UNCHANGED <<partial, adopted>>
       ELSE IF target[c] \in artifacts
       THEN /\ adopted' = adopted \cup (unsynced \cap {target[c]})
            /\ CheckArtifacts(c)
            /\ UNCHANGED partial
       ELSE /\ partial' = partial \cup {target[c]}
            /\ Goto(c, "fillArtifacts")
            /\ UNCHANGED <<code, adopted>>
    /\ UNCHANGED <<marker, artifacts, unsynced, head, diskHead, lock, aside, input, target,
                   base, handle, seenLock, result, mishaps, faulty, overlapped, cut,
                   history, broken>>

\* handle.writeFile, through the handles of both files.
FillArtifacts(c) ==
    /\ pc[c] = "fillArtifacts"
    /\ partial' = partial \ {target[c]}
    /\ artifacts' = artifacts \cup {target[c]}
    /\ unsynced' = unsynced \cup {target[c]}
    /\ Goto(c, "syncArtifacts")
    /\ UNCHANGED <<marker, head, diskHead, lock, aside, input, target, base, handle,
                   seenLock, code, result, env>>

\* Mutant: new files are checked without having been synced.
SyncArtifactsNot(c) ==
    /\ pc[c] = "syncArtifacts"
    /\ diskHead' = head
    /\ CheckArtifacts(c)
    /\ UNCHANGED <<marker, artifacts, partial, unsynced, head, lock, aside, input, target,
                   base, handle, seenLock, result, env>>

\* The files and their directories are synced by the call that created them.
SyncArtifacts(c) ==
    /\ pc[c] = "syncArtifacts"
    /\ unsynced' = unsynced \ {target[c]}
    /\ diskHead' = head
    /\ CheckArtifacts(c)
    /\ UNCHANGED <<marker, artifacts, partial, head, lock, aside, input, target, base,
                   handle, seenLock, result, env>>

\* The temporary head is written and its directory synced; then authority and head are
\* checked a last time.
Recheck(c) ==
    /\ pc[c] = "recheck"
    /\ diskHead' = head
    /\ IF ~HoldsLock(c) THEN Abort(c, "LOCK_INTEGRITY_FAILED")
       ELSE IF head # base[c] THEN Abort(c, "COMPARE_AND_SWAP_FAILED")
       ELSE IF target[c] \notin artifacts THEN Abort(c, "HEAD_INTEGRITY_FAILED")
       ELSE Goto(c, "rename") /\ UNCHANGED code
    /\ UNCHANGED <<marker, artifacts, partial, unsynced, head, lock, aside, input, target, base,
                   handle, seenLock, result, env>>

\* rename(2) replaces the head, whatever it is by now.
RenameHead(c) ==
    /\ pc[c] = "rename"
    /\ head' = [snap |-> target[c], by |-> c]
    /\ history' = history \cup {target[c]}
    /\ Goto(c, "syncHead")
    /\ UNCHANGED <<marker, artifacts, partial, unsynced, diskHead, lock, aside, input, target,
                   base, handle, seenLock, code, result, mishaps, faulty,
                   overlapped, adopted, cut, broken>>

SyncHead(c) ==
    /\ pc[c] = "syncHead"
    /\ diskHead' = head
    /\ Goto(c, "reread")
    /\ UNCHANGED <<marker, artifacts, partial, unsynced, head, lock, aside, input, target, base,
                   handle, seenLock, code, result, env>>

\* The committed head is read back and the authority is checked once more.
RereadHead(c) ==
    /\ pc[c] = "reread"
    /\ IF head.snap # target[c] THEN Abort(c, "HEAD_INTEGRITY_FAILED")
       ELSE IF ~HoldsLock(c) THEN Abort(c, "LOCK_INTEGRITY_FAILED")
       ELSE Goto(c, "release") /\ UNCHANGED code
    /\ UNCHANGED <<files, input, target, base, handle, seenLock, result, env>>

-----------------------------------------------------------------------------
\* releaseActivationLock

\* A lock that is not ours any more turns the call into a failure.
CheckRelease(c) ==
    /\ pc[c] = "release"
    /\ IF HoldsLock(c)
       THEN Goto(c, "unlinkLock") /\ UNCHANGED result
       ELSE Finish(c, IF code[c] = "none" THEN "LOCK_INTEGRITY_FAILED" ELSE code[c])
    /\ UNCHANGED <<files, input, target, base, handle, seenLock, code, env>>

\* unlink(2) by path, then the directory sync.
UnlinkLock(c) ==
    /\ pc[c] = "unlinkLock"
    /\ IF lock = NoLock
       THEN /\ Finish(c, IF code[c] = "none" THEN "LOCK_INTEGRITY_FAILED" ELSE code[c])
            /\ UNCHANGED <<lock, diskHead, broken>>
       ELSE /\ lock' = NoLock
            /\ diskHead' = head
            /\ broken' = (broken \/ (lock.owner # c /\ Alive(lock.owner)))
            /\ Finish(c, IF code[c] = "none" THEN "stored" ELSE code[c])
    /\ UNCHANGED <<marker, artifacts, partial, unsynced, head, aside, input, target, base, handle,
                   seenLock, code, mishaps, faulty, overlapped, adopted, cut,
                   history>>

-----------------------------------------------------------------------------
\* The environment

\* A system call of the current step fails: under the lock the finally block runs,
\* elsewhere the call throws at once and leaves the files as they are.  A claim that
\* throws may have published its marker.
SystemError(c) ==
    /\ mishaps < MaxMishaps
    /\ mishaps' = mishaps + 1
    /\ faulty' = faulty \cup {c}
    /\ \/ /\ pc[c] \in CommitPC
          /\ Abort(c, "SYSTEM")
          /\ UNCHANGED result
       \/ /\ pc[c] \in RunningPC \ CommitPC
          /\ Finish(c, "SYSTEM")
          /\ UNCHANGED code
    /\ marker' \in IF pc[c] = "claim" /\ marker = NoCall THEN {NoCall, snap[c]} ELSE {marker}
    /\ UNCHANGED <<artifacts, partial, unsynced, head, diskHead, lock, aside, input, target, base,
                   handle, seenLock, overlapped, adopted, cut, history, broken>>

\* A process is killed.
Crash(c) ==
    /\ mishaps < MaxMishaps
    /\ Running(c)
    /\ mishaps' = mishaps + 1
    /\ Goto(c, "dead")
    /\ UNCHANGED <<files, input, target, base, handle, seenLock, code, result, faulty,
                   overlapped, adopted, cut, history, broken>>

\* The machine stops: running calls die, an unsynced head move is kept or undone, the
\* lock file may be there or not.  Of artifacts that were never synced a power loss leaves
\* everything, files with less than they should hold, or nothing.
PowerLoss ==
    /\ mishaps < MaxMishaps
    /\ mishaps' = mishaps + 1
    /\ pc' = [c \in Call |-> IF Running(c) THEN "dead" ELSE pc[c]]
    /\ head' \in {head, diskHead}
    /\ diskHead' = head'
    /\ history' = IF head' = head THEN history ELSE history \ {head.snap}
    /\ lock' \in {lock, NoLock}
    /\ \E whole \in SUBSET unsynced :
          /\ artifacts' = (artifacts \ unsynced) \cup whole
          /\ cut' = cut \cup (unsynced \ whole)
          /\ partial' \in SUBSET (partial \cup (unsynced \ whole))
    /\ unsynced' = {}
    /\ UNCHANGED <<marker, aside, input, target, base, handle, seenLock, code, result,
                   faulty, overlapped, adopted, broken>>

-----------------------------------------------------------------------------
Step(c) ==
    \/ BeginBootstrap(c) \/ BeginPersist(c)
    \/ InspectMarker(c) \/ StageArtifacts(c) \/ ClaimReplay(c) \/ ReadMarkerBound(c)
    \/ CreateLock(c) \/ WriteLock(c) \/ ConfirmLock(c)
    \/ StatLock(c) \/ ReadLock(c) \/ JudgeLock(c) \/ QuarantineLock(c) \/ VerifyQuarantine(c)
    \/ ReadHead(c) \/ CreateArtifacts(c) \/ FillArtifacts(c) \/ SyncArtifacts(c)
    \/ Recheck(c) \/ RenameHead(c) \/ SyncHead(c) \/ RereadHead(c)
    \/ CheckRelease(c) \/ UnlinkLock(c)

Next ==
    \/ \E c \in Call : Step(c) \/ SystemError(c) \/ Crash(c)
    \/ PowerLoss

Spec == Init /\ [][Next]_vars

-----------------------------------------------------------------------------
\* Properties

\* Of the snapshots derived from one parent at most one is ever reported as stored, as
\* long as no live lock was taken away from its holder.  (With four calls it is not so
\* afterwards: the late rename of a robbed holder replaces the head, and passing the
\* replacing snapshot again finds it there and succeeds.)
AtMostOneStoredChild ==
    ~broken => \A c, d \in Call :
        /\ result[c] = "stored" /\ result[d] = "stored"
        /\ parent[target[c]] = parent[target[d]]
        => target[c] = target[d]

\* A file that is read is whole and no name is reused, so what the head or the replay
\* marker names can be recovered, whatever is killed or lost; the marker's always.  The
\* exception is a snapshot whose writer was killed before its sync, which another call then
\* took over as it was (CreateArtifacts): a power loss after that may take it from under the
\* head, and the journal has no way on from there.
Recoverable(s) == s \in artifacts \ partial

NamedSnapshotsAreComplete ==
    /\ marker # NoCall => Recoverable(marker)
    /\ \A s \in {head.snap, diskHead.snap} \ {NoCall} :
          Recoverable(s) \/ s \in adopted \cap cut

\* The journal starts from the snapshot that consumed the quote, whoever installs it.
JournalStartsAtMarker ==
    \A s \in history : parent[s] = NoCall => s = marker

\* The lock file this call found was never filled.
FoundEmptyLock(c) == seenLock[c] # NoLock /\ ~seenLock[c].full

\* A call that ran alone, met no failing system call and was not overtaken by earlier
\* ones stores its snapshot, whatever dead calls left behind; the exceptions are a lock
\* file that a killed call left empty, and a head whose artifacts were lost as
\* NamedSnapshotsAreComplete says.
LoneCallStores ==
    \A c \in Call \ (overlapped \cup faulty) :
        pc[c] = "done" /\ (kind[c] = "persist" => target[c] = c) =>
            \/ result[c] = "stored"
            \/ result[c] = "INVALID_TRANSITION" /\ term[c] # term[target[c]]
            \/ result[c] = "COMPARE_AND_SWAP_FAILED" /\ base[c].snap \notin {target[c], NoCall}
            \/ result[c] = "LOCK_INTEGRITY_FAILED" /\ FoundEmptyLock(c)
            \/ result[c] = "HEAD_INTEGRITY_FAILED" /\ base[c].snap \in adopted \cap cut

\* The store implements JournalHead.
Stored == {target[c] : c \in {d \in Call : result[d] = "stored"}}

Journal == INSTANCE JournalHead
           WITH Snapshot <- Call, NoSnapshot <- NoCall, current <- head.snap,
                reported <- Stored

ImplementsJournalHead == Journal!JSpec

\* The tests' reading of "exactly one CAS winner": a snapshot that was reported as
\* stored stays in the journal.  (Violated: a call that judged a lock dead may move away
\* the lock that another call has taken since, because the rename in QuarantineLock acts
\* on the path, and the inode number that was judged may have been used again.  The
\* holder finds out only after its own rename, when the head it replaced is lost.)
Ancestors(s) == {s, parent[s]} \cup (IF parent[s] \in Call THEN {parent[parent[s]]} ELSE {})

StoredStaysInJournal ==
    Stored \subseteq (IF head = NoHead THEN {} ELSE Ancestors(head.snap))

\* "A crash ... leaves a consumed but recoverable marker" (ARCHITECTURE.md): a bootstrap
\* that runs alone is not turned away by what a killed one left behind.  (Violated: an
\* empty lock file is neither waited for nor quarantined, see ReadLock.)
CrashLeavesRecoverableJournal ==
    \A c \in Call \ (overlapped \cup faulty) :
        kind[c] = "bootstrap" => result[c] # "LOCK_INTEGRITY_FAILED"

\* The journal is whole: the snapshots that head and marker name are complete (but for
\* contents that were taken over unsynced and lost with the power), its first one is the
\* one the replay marker was bound to, and no snapshot has two children that were reported
\* stored unless a live lock was broken (persistActivationSnapshot,
\* bootstrapActivationSnapshot).
JournalIsWhole == NamedSnapshotsAreComplete /\ JournalStartsAtMarker /\ AtMostOneStoredChild
=============================================================================
