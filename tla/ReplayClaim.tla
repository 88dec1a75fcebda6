----------------------------- MODULE ReplayClaim -----------------------------
(***************************************************************************)
(* What the replay store promises its callers, with no file system in      *)
(* sight (ReplayStore and ActivationReplayStore in quotes/replay.ts).      *)
(* A quote key is consumed by at most one call.  A call either learns that *)
(* it is the winner, learns that somebody else is, or throws; a call that  *)
(* throws says nothing about who won.  A power loss may take a win back    *)
(* only as long as no claim has been answered.                             *)
(***************************************************************************)
CONSTANTS
    Op,         \* the claim calls made for one quote key
    NoOp        \* not a call: the key has not been consumed

VARIABLES
    winner,     \* the call whose marker consumed the key
    answer      \* what each call told its caller

cvars == <<winner, answer>>

CInit ==
    /\ winner = NoOp
    /\ answer = [op \in Op |-> "none"]

Consume(op) ==
    /\ winner = NoOp
    /\ answer[op] = "none"
    /\ winner' = op
    /\ UNCHANGED answer

Win(op) ==
    /\ winner = op
    /\ answer[op] = "none"
    /\ answer' = [answer EXCEPT ![op] = "won"]
    /\ UNCHANGED winner

Lose(op) ==
    /\ winner \notin {op, NoOp}
    /\ answer[op] = "none"
    /\ answer' = [answer EXCEPT ![op] = "lost"]
    /\ UNCHANGED winner

Throw(op) ==
    /\ answer[op] = "none"
    /\ answer' = [answer EXCEPT ![op] = "thrown"]
    /\ UNCHANGED winner

\* The machine stops: the win is lost with it if nobody has been told of it.
Forget ==
    /\ \A op \in Op : answer[op] \in {"none", "thrown"}
    /\ winner' = NoOp
    /\ UNCHANGED answer

CNext ==
    \/ \E op \in Op : Consume(op) \/ Win(op) \/ Lose(op) \/ Throw(op)
    \/ Forget

CSpec == CInit /\ [][CNext]_cvars
=============================================================================
