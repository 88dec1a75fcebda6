----------------------------- MODULE JournalHead -----------------------------
(***************************************************************************)
(* What the activation store promises about the head of one journal        *)
(* (bootstrapActivationSnapshot and persistActivationSnapshot in           *)
(* activation/store.ts), without locks, files or processes: the head is a  *)
(* compare-and-swap register.  It is installed once, only moves from a     *)
(* snapshot to a child of that snapshot, and a call reports success only   *)
(* for a snapshot that is, or has been, the head.  A power loss may undo   *)
(* the latest move as long as nobody was told of it.  Nothing is promised  *)
(* any more once a live lock has been taken away from its holder.          *)
(***************************************************************************)
CONSTANTS
    Snapshot,       \* the snapshots that callers try to store
    NoSnapshot      \* not a snapshot: the journal has no head yet

VARIABLES
    parent,         \* the snapshot each snapshot was derived from
    current,        \* the head
    history,        \* the snapshots that are, or have been, the head
    reported,       \* snapshots whose storage was reported as a success
    broken          \* a live lock was taken away from its holder

jvars == <<parent, current, history, reported, broken>>

JInit ==
    /\ parent = [s \in Snapshot |-> NoSnapshot]
    /\ current = NoSnapshot
    /\ history = {}
    /\ reported = {}
    /\ broken = FALSE

\* A caller derives a new snapshot from the head it read.
Derive(s) ==
    /\ s \notin history
    /\ parent' = [parent EXCEPT ![s] = current]
    /\ UNCHANGED <<current, history, reported, broken>>

\* The compare-and-swap.
Advance(s) ==
    /\ s \notin history
    /\ parent[s] = current
    /\ current' = s
    /\ history' = history \cup {s}
    /\ UNCHANGED <<parent, reported, broken>>

Report(s) ==
    /\ s \in history
    /\ reported' = reported \cup {s}
    /\ UNCHANGED <<parent, current, history, broken>>

\* A power loss takes back the latest move.
Revert ==
    /\ current \in history \ reported
    /\ current' = parent[current]
    /\ history' = history \ {current}
    /\ UNCHANGED <<parent, reported, broken>>

Break ==
    /\ broken' = TRUE
    /\ UNCHANGED <<parent, current, history, reported>>

JNext ==
    \/ \E s \in Snapshot : Derive(s) \/ Advance(s) \/ Report(s)
    \/ Revert
    \/ Break
    \/ broken /\ broken'

JSpec == JInit /\ [][JNext]_jvars
=============================================================================
