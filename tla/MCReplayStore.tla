---------------------------- MODULE MCReplayStore ----------------------------
(***************************************************************************)
(* Small instances of the two directories of a verifier: every mix of      *)
(* claims, activation claims and inspections of one replay key; and, beside*)
(* it, calls that stage the artifacts of one snapshot.  They share no      *)
(* state here: scene names the one that runs, and the variables of the     *)
(* other rest.                                                             *)
(***************************************************************************)
EXTENDS ReplayStore, TLC

CONSTANTS None,
          Selected     \* the scenes that run

VARIABLES
    scene,
    cached, disked, linked, stage, step, wrote, blackout, mishaps   \* artifacts

staging == <<cached, disked, linked, stage, step, wrote, blackout, mishaps>>

Symmetry == Permutations(Op) \cup Permutations(Head)

Staging == INSTANCE ArtifactStaging WITH Call <- Op, MaxMishaps <- MaxFaults + MaxPowerLoss,
                                      disk <- disked
ASSUME Staging!BoundAssumption

-----------------------------------------------------------------------------
RestStaging ==
    /\ cached = None /\ disked = None /\ linked = None /\ stage = None /\ step = None
    /\ wrote = None /\ blackout = None /\ mishaps = None

\* While artifacts are staged the directory of the replay store is as it was at first.
Idle == \A op \in Op : call[op] = [kind |-> "claim", head |-> NoHead]

MCInit ==
    /\ Init /\ scene \in Selected
    /\ \/ scene = "replay" /\ RestStaging
       \/ scene = "staging" /\ Idle /\ Staging!Init

MCNext ==
    /\ UNCHANGED scene
    /\ \/ scene = "replay" /\ Next /\ UNCHANGED staging
       \/ scene = "staging" /\ Staging!Next /\ UNCHANGED vars

MCSpec == MCInit /\ [][MCNext]_<<scene, vars, staging>>

-----------------------------------------------------------------------------
(* The properties of the staging, in its scene.                            *)

\* What the state of the artifacts and their calls may be.
ScenesTypeOK == scene = "staging" => Staging!TypeOK

\* Once a call has reported the snapshot staged, both of its files stay where the head and
\* the marker will look for them, whoever created them (stagePreparedSnapshot).
StagedKeepsItsNames == scene = "staging" => Staging!StagedKeepsItsNames

\* ... and those that it created itself keep their contents (writeCanonicalPrivateFile).
OwnFilesAreDurable == scene = "staging" => Staging!OwnFilesAreDurable

\* Short of a power loss, what was reported staged is complete and stays so, however many
\* calls write, adopt and die at the same time (verifyStagedSnapshot).
StagedIsComplete == scene = "staging" => Staging!StagedIsComplete

\* Artifacts reported staged survive: their names whoever created them, their contents with
\* the machine, and with a power loss too where the call itself wrote them.
StagedArtifactsSurvive ==
    /\ ScenesTypeOK
    /\ StagedKeepsItsNames
    /\ OwnFilesAreDurable
    /\ StagedIsComplete
=============================================================================
