----------------------------- MODULE ReplayStore -----------------------------
(***************************************************************************)
(* FileReplayStore (tools/agent-supply-verifier/src/quotes/replay.ts), one *)
(* system call per step, for the calls made with one replay key.  The key  *)
(* is the SHA-256 of the quote's domain, so calls for other keys touch     *)
(* other files and a marker under this key always has this domain.         *)
(*                                                                         *)
(* A call writes its marker into a temporary file of its own, links that   *)
(* file to the marker's name (link(2) fails if the name is taken), removes *)
(* the temporary name, syncs the directory and reads the marker back.  The *)
(* inode a call creates is named after the call: temporary names carry a   *)
(* random nonce, so no two calls share one.                                *)
(*                                                                         *)
(* Calls run in any processes, may be killed at any step, may meet an I/O  *)
(* error at any step, and the machine may lose power, which undoes any     *)
(* directory change and any file content that was not synced.  Foreign     *)
(* tampering with the directory (modes, symlinks, owners), which the code  *)
(* rejects, is not modelled: the directory stays the one prepare() saw.    *)
(***************************************************************************)
EXTENDS FiniteSets, Integers

CONSTANTS
    Op,             \* the calls made over the life of the store
    NoOp,           \* no inode
    Head,           \* activation heads a v2 marker can authorize
    NoHead,         \* what a v1 marker or an inspection carries
    MaxFaults,      \* bound: I/O errors in one behaviour
    MaxPowerLoss    \* bound: power losses in one behaviour

ASSUME ConstantsAssumption ==
    /\ NoOp \notin Op
    /\ NoHead \notin Head
    /\ MaxFaults \in Nat
    /\ MaxPowerLoss \in Nat

VARIABLES
    \* the directory and the files in it
    marker,     \* the inode behind `${key}.json`
    temps,      \* inodes that still have their temporary name
    written,    \* inodes that hold a complete serialized marker
    \* what a power loss leaves
    diskMarker, diskTemps,  \* the directory as of the last directory sync
    diskWritten,            \* contents as of the last file sync
    \* the calls
    pc,
    call,       \* [kind, head] of each call
    status,     \* publicationStatus
    failed,     \* calls whose operationError is set
    seen,       \* the marker inode that recovery is working on
    answer,     \* what the call returned to its caller
    told,       \* the inode whose metadata the call read back
    \* the environment, and ghosts that only properties read
    losses,     \* power losses so far
    faulty,     \* calls that met an I/O error
    overlapped  \* calls that ran while another call was running

dir    == <<marker, temps, written>>
disk   == <<diskMarker, diskTemps, diskWritten>>
ghosts == <<losses, faulty, overlapped>>
vars   == <<marker, temps, written, diskMarker, diskTemps, diskWritten, pc, call,
            status, failed, seen, answer, told, losses, faulty, overlapped>>

Calls ==
    [kind : {"claim", "inspectActivation"}, head : {NoHead}]
        \cup [kind : {"claimActivation"}, head : Head]

PublishPC == {"temp", "written", "verified", "linked"}
CleanupPC == {"lstat", "unlink"}
ReadPC    == {"syncDirectory", "recover", "scan", "open", "fstat", "unlinkTemp",
              "syncRecovered", "read"}
RunningPC == PublishPC \cup CleanupPC \cup ReadPC
PC        == {"idle", "done", "dead"} \cup RunningPC

Won     == {"claimed", "created"}
Lost    == {"duplicate", "existing_exact", "existing_conflict"}
Answers == {"none", "absent", "present", "thrown"} \cup Won \cup Lost

TypeOK ==
    /\ marker \in Op \cup {NoOp}
    /\ temps \subseteq Op
    /\ written \subseteq Op
    /\ diskMarker \in Op \cup {NoOp}
    /\ diskTemps \subseteq Op
    /\ diskWritten \subseteq Op
    /\ pc \in [Op -> PC]
    /\ call \in [Op -> Calls]
    /\ status \in [Op -> {"none", "created", "existing"}]
    /\ failed \subseteq Op
    /\ seen \in [Op -> Op \cup {NoOp}]
    /\ answer \in [Op -> Answers]
    /\ told \in [Op -> Op \cup {NoOp}]
    /\ losses \in 0 .. MaxPowerLoss
    /\ faulty \subseteq Op
    /\ overlapped \subseteq Op

Init ==
    /\ marker = NoOp
    /\ temps = {}
    /\ written = {}
    /\ diskMarker = NoOp
    /\ diskTemps = {}
    /\ diskWritten = {}
    /\ pc = [op \in Op |-> "idle"]
    /\ call \in [Op -> Calls]
    /\ status = [op \in Op |-> "none"]
    /\ failed = {}
    /\ seen = [op \in Op |-> NoOp]
    /\ answer = [op \in Op |-> "none"]
    /\ told = [op \in Op |-> NoOp]
    /\ losses = 0
    /\ faulty = {}
    /\ overlapped = {}

-----------------------------------------------------------------------------
\* Helpers

Running(op) == pc[op] \in RunningPC

\* st_nlink of an inode: its temporary name and the marker name.
Links(inode) ==
    (IF inode \in temps THEN 1 ELSE 0) + (IF inode = marker THEN 1 ELSE 0)

Goto(op, where) == pc' = [pc EXCEPT ![op] = where]

Return(op, result, inode) ==
    /\ Goto(op, "done")
    /\ answer' = [answer EXCEPT ![op] = result]
    /\ told' = [told EXCEPT ![op] = inode]

Throw(op) == Return(op, "thrown", NoOp)

\* sameActivationBinding: the head (and its hash) must agree; claimedAt may differ.
SameActivationBinding(op, inode) == call[op].head = call[inode].head

MarkerVersion(inode) == IF call[inode].kind = "claim" THEN 1 ELSE 2

\* Everything the store remembers about a call except where it is.
callVars == <<call, status, failed, seen>>
answers  == <<answer, told>>

-----------------------------------------------------------------------------
\* claim, claimActivation: #publishMarker

\* Another call is running, in this process or in another one.
NoteOverlap(op) ==
    LET others == {q \in Op : Running(q)}
    IN overlapped' = IF others = {} THEN overlapped ELSE overlapped \cup others \cup {op}

\* #createTemporaryMarker.  A name collision is retried; 2^-256 is not modelled.
CreateTemporaryMarker(op) ==
    /\ pc[op] = "idle"
    /\ call[op].kind \in {"claim", "claimActivation"}
    /\ temps' = temps \cup {op}
    /\ Goto(op, "temp")
    /\ NoteOverlap(op)
    /\ UNCHANGED <<marker, written, disk, callVars, answers, losses, faulty>>

WriteTemporary(op) ==
    /\ pc[op] = "temp"
    /\ written' = written \cup {op}
    /\ Goto(op, "written")
    /\ UNCHANGED <<marker, temps, disk, callVars, answers, ghosts>>

\* Mutant: the temporary file is not synced before it is published.
SyncTemporaryUnsynced(op) ==
    /\ pc[op] = "written"
    /\ Goto(op, "verified")
    /\ UNCHANGED <<dir, disk, callVars, answers, ghosts>>

\* handle.sync() and the read-back of the private temporary file.
SyncTemporary(op) ==
    /\ pc[op] = "written"
    /\ diskWritten' = diskWritten \cup ({op} \cap written)
    /\ Goto(op, "verified")
    /\ UNCHANGED <<dir, diskMarker, diskTemps, callVars, answers, ghosts>>

\* Mutant: publication by rename(2), which replaces an existing marker.
LinkMarkerByRename(op) ==
    /\ pc[op] = "verified"
    /\ marker' = op
    /\ temps' = temps \ {op}
    /\ status' = [status EXCEPT ![op] = "created"]
    /\ Goto(op, "linked")
    /\ UNCHANGED <<written, disk, call, failed, seen, answers, ghosts>>

LinkMarker(op) ==
    /\ pc[op] = "verified"
    /\ \/ /\ marker = NoOp
          /\ marker' = op
          /\ status' = [status EXCEPT ![op] = "created"]
          /\ Goto(op, "linked")
       \/ /\ marker # NoOp                                       \* EEXIST
          /\ status' = [status EXCEPT ![op] = "existing"]
          /\ Goto(op, "lstat")
          /\ UNCHANGED marker
    /\ UNCHANGED <<temps, written, disk, call, failed, seen, answers, ghosts>>

\* #assertPublishedLink: our inode, with one link or two; then handle.sync().
AssertPublishedLink(op) ==
    /\ pc[op] = "linked"
    /\ failed' = IF marker = op /\ Links(op) \in {1, 2} THEN failed ELSE failed \cup {op}
    /\ Goto(op, "lstat")
    /\ UNCHANGED <<dir, disk, call, status, seen, answers, ghosts>>

\* Link counts that the cleanup accepts for the call's temporary file.
AllowedLinks(op) == IF status[op] = "created" THEN {1, 2} ELSE {1}

\* #removeTemporaryMarker, the inspection before the unlink.
InspectTemporary(op) ==
    /\ pc[op] = "lstat"
    /\ \/ /\ op \notin temps
          /\ Goto(op, "syncDirectory")
          /\ UNCHANGED failed
       \/ /\ op \in temps /\ Links(op) \in AllowedLinks(op)
          /\ Goto(op, "unlink")
          /\ UNCHANGED failed
       \/ /\ op \in temps /\ Links(op) \notin AllowedLinks(op)
          /\ Goto(op, "syncDirectory")
          /\ failed' = failed \cup {op}
    /\ UNCHANGED <<dir, disk, call, status, seen, answers, ghosts>>

\* A recoverer may have unlinked the name first: ENOENT is success.
UnlinkTemporary(op) ==
    /\ pc[op] = "unlink"
    /\ temps' = temps \ {op}
    /\ Goto(op, "syncDirectory")
    /\ UNCHANGED <<marker, written, disk, callVars, answers, ghosts>>

\* Mutant: the directory is not synced at the end of a publication.
SyncDirectorySkipped(op) ==
    /\ pc[op] = "syncDirectory"
    /\ IF op \in failed
       THEN Throw(op)
       ELSE Goto(op, "recover") /\ UNCHANGED answers
    /\ UNCHANGED <<dir, disk, callVars, ghosts>>

\* Mutant: only the winner syncs the directory.
SyncDirectoryByWinnerOnly(op) ==
    /\ pc[op] = "syncDirectory"
    /\ IF status[op] = "created"
       THEN diskMarker' = marker /\ diskTemps' = temps
       ELSE UNCHANGED <<diskMarker, diskTemps>>
    /\ IF op \in failed
       THEN Throw(op)
       ELSE Goto(op, "recover") /\ UNCHANGED answers
    /\ UNCHANGED <<dir, diskWritten, callVars, ghosts>>

\* The directory is synced whatever failed before; then the error is thrown.
SyncDirectory(op) ==
    /\ pc[op] = "syncDirectory"
    /\ diskMarker' = marker
    /\ diskTemps' = temps
    /\ IF op \in failed
       THEN Throw(op)
       ELSE Goto(op, "recover") /\ UNCHANGED answers
    /\ UNCHANGED <<dir, diskWritten, callVars, ghosts>>

-----------------------------------------------------------------------------
\* #readVerifiedMarker, which first runs #recoverInterruptedPublication

\* inspectActivation starts with an lstat of the marker.
InspectActivation(op) ==
    /\ pc[op] = "idle"
    /\ call[op].kind = "inspectActivation"
    /\ IF marker = NoOp
       THEN Return(op, "absent", NoOp)
       ELSE Goto(op, "recover") /\ UNCHANGED answers
    /\ NoteOverlap(op)
    /\ UNCHANGED <<dir, disk, callVars, losses, faulty>>

\* Mutant: an interrupted publication is not recovered before the read.
StatMarkerOnly(op) ==
    /\ pc[op] = "recover"
    /\ Goto(op, "read")
    /\ UNCHANGED <<dir, disk, callVars, answers, ghosts>>

StatMarker(op) ==
    /\ pc[op] = "recover"
    /\ seen' = [seen EXCEPT ![op] = marker]
    /\ Goto(op, IF Links(marker) = 2 THEN "scan" ELSE "read")
    /\ UNCHANGED <<dir, disk, call, status, failed, answers, ghosts>>

\* readdir and lstat: the one temporary name of the marker's inode, if it is left.
\* When it is gone the marker has one link again, which the code checks.
ScanDirectory(op) ==
    /\ pc[op] = "scan"
    /\ \/ seen[op] \in temps /\ Goto(op, "open") /\ UNCHANGED answers
       \/ seen[op] \notin temps /\ Links(marker) = 1 /\ Goto(op, "read")
                                /\ UNCHANGED answers
       \/ seen[op] \notin temps /\ Links(marker) # 1 /\ Throw(op)
    /\ UNCHANGED <<dir, disk, callVars, ghosts>>

\* ENOENT is accepted when the marker has become singly linked meanwhile.
OpenRecovered(op) ==
    /\ pc[op] = "open"
    /\ \/ seen[op] \in temps /\ Goto(op, "fstat") /\ UNCHANGED answers
       \/ seen[op] \notin temps /\ Links(marker) = 1 /\ Goto(op, "read")
                                /\ UNCHANGED answers
       \/ seen[op] \notin temps /\ Links(marker) # 1 /\ Throw(op)
    /\ UNCHANGED <<dir, disk, callVars, ghosts>>

\* The open temporary must still have two links: if the publisher, or another
\* recoverer, unlinked it since the open, this call throws.
AssertRecoverable(op) ==
    /\ pc[op] = "fstat"
    /\ IF Links(seen[op]) = 2
       THEN Goto(op, "unlinkTemp") /\ UNCHANGED answers
       ELSE Throw(op)
    /\ UNCHANGED <<dir, disk, callVars, ghosts>>

UnlinkRecovered(op) ==
    /\ pc[op] = "unlinkTemp"
    /\ \/ /\ seen[op] \in temps
          /\ temps' = temps \ {seen[op]}
          /\ Goto(op, "syncRecovered")
          /\ UNCHANGED answers
       \/ /\ seen[op] \notin temps
          /\ IF Links(marker) = 1 THEN Goto(op, "read") /\ UNCHANGED answers ELSE Throw(op)
          /\ UNCHANGED temps
    /\ UNCHANGED <<marker, written, disk, callVars, ghosts>>

SyncRecovered(op) ==
    /\ pc[op] = "syncRecovered"
    /\ diskMarker' = marker
    /\ diskTemps' = temps
    /\ IF Links(marker) = 1 /\ marker = seen[op]
       THEN Goto(op, "read") /\ UNCHANGED answers
       ELSE Throw(op)
    /\ UNCHANGED <<dir, diskWritten, callVars, ghosts>>

\* Mutant: the publication status is returned as it is.
ResultOfRaw(op, inode) ==
    IF call[op].kind = "inspectActivation" THEN "present"
    ELSE IF status[op] = "created" THEN "created" ELSE "existing"

\* Mutant: the marker's binding decides, not whether this call created it.
ResultOfBinding(op, inode) ==
    CASE call[op].kind = "claim" -> "duplicate"
      [] call[op].kind = "claimActivation" ->
            IF SameActivationBinding(op, inode) THEN "created" ELSE "existing_conflict"
      [] call[op].kind = "inspectActivation" -> "present"

\* What the three entry points make of the marker that was read.
ResultOf(op, inode) ==
    CASE call[op].kind = "claim" ->
            IF MarkerVersion(inode) # 1 THEN "thrown"
            ELSE IF status[op] = "created" THEN "claimed" ELSE "duplicate"
      [] call[op].kind = "claimActivation" ->
            IF MarkerVersion(inode) # 2 THEN "thrown"
            ELSE IF status[op] = "created" THEN "created"
            ELSE IF SameActivationBinding(op, inode) THEN "existing_exact"
            ELSE "existing_conflict"
      [] call[op].kind = "inspectActivation" ->
            IF MarkerVersion(inode) # 2 THEN "thrown" ELSE "present"

\* #readSecureFile(markerPath, {1}), then the serialized form of a created marker
\* must be the one this call asked for.
ReadMarker(op) ==
    /\ pc[op] = "read"
    /\ IF /\ Links(marker) = 1
          /\ marker \in written
          /\ status[op] = "created" => marker = op
       THEN LET result == ResultOf(op, marker)
            IN Return(op, result, marker)
       ELSE Throw(op)
    /\ UNCHANGED <<dir, disk, callVars, ghosts>>

-----------------------------------------------------------------------------
\* The environment

\* A system call of the current step fails.  Before the directory sync of a claim
\* the error is kept and the cleanup goes on; after it, and in an inspection, it
\* is thrown at once.
IoError(op) ==
    /\ Cardinality(faulty) < MaxFaults
    /\ op \notin faulty
    /\ faulty' = faulty \cup {op}
    /\ \/ /\ pc[op] \in PublishPC \cup CleanupPC
          /\ failed' = failed \cup {op}
          /\ Goto(op, IF pc[op] \in PublishPC THEN "lstat" ELSE "syncDirectory")
          /\ UNCHANGED answers
       \/ /\ pc[op] \in ReadPC
          /\ Throw(op)
          /\ UNCHANGED failed
    /\ UNCHANGED <<dir, disk, call, status, seen, losses, overlapped>>

\* The process that runs the call is killed.
Crash(op) ==
    /\ Running(op)
    /\ Goto(op, "dead")
    /\ UNCHANGED <<dir, disk, callVars, answers, ghosts>>

\* The machine stops: every call in flight dies, each directory change since the
\* last directory sync is kept or undone, and unsynced contents are gone.
PowerLoss ==
    /\ losses < MaxPowerLoss
    /\ losses' = losses + 1
    /\ marker' \in {marker, diskMarker}
    /\ temps' \in {T \in SUBSET (temps \cup diskTemps) : temps \cap diskTemps \subseteq T}
    /\ written' = diskWritten
    /\ diskMarker' = marker'
    /\ diskTemps' = temps'
    /\ pc' = [op \in Op |-> IF Running(op) THEN "dead" ELSE pc[op]]
    /\ UNCHANGED <<diskWritten, callVars, answers, faulty, overlapped>>

-----------------------------------------------------------------------------
Step(op) ==
    \/ CreateTemporaryMarker(op) \/ WriteTemporary(op) \/ SyncTemporary(op)
    \/ LinkMarker(op) \/ AssertPublishedLink(op)
    \/ InspectTemporary(op) \/ UnlinkTemporary(op) \/ SyncDirectory(op)
    \/ InspectActivation(op)
    \/ StatMarker(op) \/ ScanDirectory(op) \/ OpenRecovered(op)
    \/ AssertRecoverable(op) \/ UnlinkRecovered(op) \/ SyncRecovered(op)
    \/ ReadMarker(op)

Next ==
    \/ \E op \in Op : Step(op) \/ IoError(op) \/ Crash(op)
    \/ PowerLoss

Spec == Init /\ [][Next]_vars

-----------------------------------------------------------------------------
\* Properties

\* At most one call is ever told that it consumed the quote, whatever is killed,
\* fails or is undone by a power loss ("exactly one winner and persist").
AtMostOneWinner ==
    \A p, q \in Op : answer[p] \in Won /\ answer[q] \in Won => p = q

\* A claim that was answered describes the marker that is there now and will be
\* there after a power loss: every caller was told about the same consumption.
AnsweredClaimIsDurable ==
    \A op \in Op : answer[op] \in Won \cup Lost =>
        /\ told[op] = marker
        /\ diskMarker = marker
        /\ answer[op] \in Won <=> marker = op

\* The marker's name never leads to a file that is not complete, not even after a
\* power loss: publication is by link, after the file's sync.
MarkerIsComplete == marker # NoOp => marker \in written \cap diskWritten

\* The call read a marker of the other version, which it may not answer from.
FoundOtherVersion(op) ==
    /\ told[op] # NoOp
    /\ (MarkerVersion(told[op]) = 1) # (call[op].kind = "claim")

\* A call that ran alone and met no I/O error is only rejected for a marker of the
\* other version: whatever earlier calls left behind when they died is recovered.
LoneCallRecovers ==
    \A op \in Op :
        answer[op] = "thrown" /\ op \notin overlapped \cup faulty => FoundOtherVersion(op)

\* Once a claim has been answered the quote stays consumed, by the same marker.
ConsumptionIsFinal ==
    [][(\E op \in Op : answer[op] \in Won \cup Lost) => marker' = marker]_vars

\* The tests' reading of "concurrent replay claims have exactly one winner": every
\* one of the concurrent calls is answered, none is rejected.  (Violated: see
\* AssertRecoverable.)
ConcurrentClaimsAreAnswered ==
    \A op \in Op :
        /\ call[op].kind # "inspectActivation"
        /\ answer[op] = "thrown"
        /\ op \notin faulty
        => FoundOtherVersion(op)

\* The store implements ReplayClaim: a link is a consumption, an answer is a win or
\* a loss, and inspections are invisible.
Abstracted(kind, result) ==
    CASE result \in Won  -> "won"
      [] result \in Lost -> "lost"
      [] result = "thrown" /\ kind # "inspectActivation" -> "thrown"
      [] OTHER -> "none"

ClaimAnswer == [op \in Op |-> Abstracted(call[op].kind, answer[op])]

Claim == INSTANCE ReplayClaim WITH winner <- marker, answer <- ClaimAnswer
ImplementsReplayClaim == Claim!CSpec
=============================================================================
