--------------------------- MODULE ArtifactStaging ---------------------------
(***************************************************************************)
(* How the artifacts of one snapshot reach the disk: stagePreparedSnapshot *)
(* of activation/store.ts over writePrivateFileExclusive and               *)
(* readSecureTextFile of secure-files.ts, one system call per step.  The   *)
(* state file and the report file have names made of the digests of their  *)
(* contents, and every call that stages the snapshot writes both at once,  *)
(* or finds them there.  ActivationStore keeps one file per snapshot and   *)
(* the steps create, write, sync and take over; the two files, their       *)
(* directories and the checks on each are here.                            *)
(*                                                                         *)
(* Calls may be killed, system calls may fail, and a power loss takes      *)
(* whatever was not synced: contents by the file's own sync, its name by   *)
(* its directory's.                                                        *)
(***************************************************************************)
EXTENDS Naturals

CONSTANTS Call,
          MaxMishaps   \* bound: kills, failing system calls, power losses

BoundAssumption == MaxMishaps \in Nat

File == {"state", "report"}
Content == {"none", "short", "full"}   \* no file; anything less than it should hold

VARIABLES
  cached, disk,    \* the contents of each file, as read and as on the disk
  linked,          \* the files whose names are on the disk
  stage,           \* of each call
  step,            \* of each call, where it is with each of the files
  wrote,           \* history: the files that a call created and filled itself
  blackout,        \* history: the power was lost
  mishaps

vars == <<cached, disk, linked, stage, step, wrote, blackout, mishaps>>
files == <<cached, disk, linked>>

Running(c) == stage[c] \in {"writing", "verify", "syncDirs", "reverify"}

TypeOK ==
  /\ cached \in [File -> Content] /\ disk \in [File -> Content]
  /\ linked \subseteq File
  /\ stage \in [Call -> {"idle", "writing", "verify", "syncDirs", "reverify", "staged",
                         "failed", "dead"}]
  /\ step \in [Call -> [File -> {"create", "write", "sync", "syncDir", "read", "ok", "failed"}]]
  /\ wrote \in [Call -> SUBSET File]
  /\ mishaps \in 0..MaxMishaps
  /\ blackout \in BOOLEAN
  \* past the writing, both files are in place
  /\ \A c \in Call : Running(c) /\ stage[c] # "writing" => \A f \in File : step[c][f] = "ok"

Init ==
  /\ cached = [f \in File |-> "none"] /\ disk = [f \in File |-> "none"]
  /\ linked = {}
  /\ stage = [c \in Call |-> "idle"]
  /\ step = [c \in Call |-> [f \in File |-> "create"]]
  /\ wrote = [c \in Call |-> {}]
  /\ blackout = FALSE
  /\ mishaps = 0

-----------------------------------------------------------------------------
(* One file of one call *)

At(c, f, s) == step[c][f] = s /\ stage[c] \in {"writing", "failed"}
Move(c, f, s) == step' = [step EXCEPT ![c][f] = s]

\* An error rejects the call; the other file's operations go on behind its back.
Reject(c, f) ==
  /\ Move(c, f, "failed")
  /\ stage' = [stage EXCEPT ![c] = "failed"]

Begin(c) ==
  /\ stage[c] = "idle"
  /\ stage' = [stage EXCEPT ![c] = "writing"]
  /\ UNCHANGED <<files, step, wrote, blackout, mishaps>>

\* Mutant: the file is created without O_EXCL, and truncated.
CreateAgain(c, f) ==
  /\ At(c, f, "create")
  /\ cached' = [cached EXCEPT ![f] = "short"]
  /\ Move(c, f, "write")
  /\ UNCHANGED <<disk, linked, stage, wrote, blackout, mishaps>>

\* O_CREAT | O_EXCL
Create(c, f) ==
  /\ At(c, f, "create")
  /\ IF cached[f] = "none"
     THEN cached' = [cached EXCEPT ![f] = "short"] /\ Move(c, f, "write")
     ELSE UNCHANGED cached /\ Move(c, f, "read")
  /\ UNCHANGED <<disk, linked, stage, wrote, blackout, mishaps>>

Write(c, f) ==
  /\ At(c, f, "write")
  /\ cached' = [cached EXCEPT ![f] = "full"]
  /\ wrote' = [wrote EXCEPT ![c] = @ \cup {f}]
  /\ Move(c, f, "sync")
  /\ UNCHANGED <<disk, linked, stage, blackout, mishaps>>

\* Mutant: the new file is not synced.
SyncFileNot(c, f) ==
  /\ At(c, f, "sync")
  /\ Move(c, f, "syncDir")
  /\ UNCHANGED <<files, stage, wrote, blackout, mishaps>>

SyncFile(c, f) ==
  /\ At(c, f, "sync")
  /\ disk' = [disk EXCEPT ![f] = cached[f]]
  /\ Move(c, f, "syncDir")
  /\ UNCHANGED <<cached, linked, stage, wrote, blackout, mishaps>>

SyncParent(c, f) ==
  /\ At(c, f, "syncDir")
  /\ linked' = linked \cup {f}
  /\ Move(c, f, "ok")
  /\ UNCHANGED <<cached, disk, stage, wrote, blackout, mishaps>>

SameContent(f) == cached[f] = "full"

\* The file exists: it has to hold the same contents.  It is not synced.
Adopt(c, f) ==
  /\ At(c, f, "read")
  /\ IF SameContent(f) THEN Move(c, f, "ok") /\ UNCHANGED stage ELSE Reject(c, f)
  /\ UNCHANGED <<files, wrote, blackout, mishaps>>

FileStep(c, f) ==
  Create(c, f) \/ Write(c, f) \/ SyncFile(c, f) \/ SyncParent(c, f) \/ Adopt(c, f)

-----------------------------------------------------------------------------
(* Both files *)

\* Mutant: the first file to be in place is enough.
WrittenEither(c) ==
  /\ stage[c] = "writing"
  /\ \E f \in File : step[c][f] = "ok"
  /\ stage' = [stage EXCEPT ![c] = "verify"]
  /\ UNCHANGED <<files, step, wrote, blackout, mishaps>>

Written(c) ==
  /\ stage[c] = "writing"
  /\ \A f \in File : step[c][f] = "ok"
  /\ stage' = [stage EXCEPT ![c] = "verify"]
  /\ UNCHANGED <<files, step, wrote, blackout, mishaps>>

\* verifyPreparedSnapshot: both files are read and their digests compared.
ReadBack == \A f \in File : cached[f] = "full"

Verify(c) ==
  /\ stage[c] \in {"verify", "reverify"}
  /\ stage' = [stage EXCEPT ![c] = IF ~ReadBack THEN "failed"
                                   ELSE IF stage[c] = "verify" THEN "syncDirs" ELSE "staged"]
  /\ UNCHANGED <<files, step, wrote, blackout, mishaps>>

\* Mutant: only whoever created a file syncs its directory.
SyncedDirectoriesOwn(c) == linked

\* The names of both files are synced, whoever created them.
SyncedDirectories(c) == File

SyncDirectories(c) ==
  /\ stage[c] = "syncDirs"
  /\ linked' = linked \cup SyncedDirectories(c)
  /\ stage' = [stage EXCEPT ![c] = "reverify"]
  /\ UNCHANGED <<cached, disk, step, wrote, blackout, mishaps>>

-----------------------------------------------------------------------------
(* Mishaps *)

Mishap == mishaps < MaxMishaps /\ mishaps' = mishaps + 1

Kill(c) ==
  /\ Running(c) /\ Mishap
  /\ stage' = [stage EXCEPT ![c] = "dead"]
  /\ UNCHANGED <<files, step, wrote, blackout>>

\* A failing system call.  What was created stays.
SystemError(c, f) ==
  /\ stage[c] = "writing" /\ step[c][f] \in {"create", "write", "sync", "syncDir", "read"}
  /\ Mishap
  /\ Reject(c, f)
  /\ UNCHANGED <<files, wrote, blackout>>

\* Unsynced names and unsynced contents may be lost, each or not.
PowerLoss ==
  /\ Mishap
  /\ blackout' = TRUE
  /\ \E lost \in SUBSET (File \ linked), stale \in SUBSET File :
       LET after == [f \in File |-> IF f \in lost THEN "none"
                                    ELSE IF f \in stale /\ cached[f] # "none"
                                    THEN IF disk[f] = "none" THEN "short" ELSE disk[f]
                                    ELSE cached[f]]
       IN cached' = after /\ disk' = after
          /\ linked' = {f \in File : after[f] # "none"}
  /\ stage' = [c \in Call |-> IF Running(c) \/ stage[c] = "failed" THEN "dead" ELSE stage[c]]
  /\ UNCHANGED <<step, wrote>>

Next ==
  \/ \E c \in Call : Begin(c) \/ Written(c) \/ Verify(c) \/ SyncDirectories(c) \/ Kill(c)
  \/ \E c \in Call, f \in File : FileStep(c, f) \/ SystemError(c, f)
  \/ PowerLoss

Spec == Init /\ [][Next]_vars

-----------------------------------------------------------------------------
(* Properties *)

\* Once a call has reported the snapshot staged, both of its files stay where the head
\* and the marker will look for them, whatever is lost or killed, whoever created them.
StagedKeepsItsNames ==
  \A c \in Call : stage[c] = "staged" => \A f \in File : cached[f] # "none"

\* ... and those that it created itself keep their contents.
OwnFilesAreDurable ==
  \A c \in Call : stage[c] = "staged" => \A f \in wrote[c] : cached[f] = "full" /\ disk[f] = "full"

\* Short of a power loss, what was reported staged is complete and stays so, however many
\* calls write, adopt and die at the same time.
StagedIsComplete ==
  ~blackout => \A c \in Call : stage[c] = "staged" => \A f \in File : cached[f] = "full"
=============================================================================
