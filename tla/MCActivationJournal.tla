------------------------- MODULE MCActivationJournal -------------------------
(***************************************************************************)
(* ActivationJournal on two small instances over the same variables, of    *)
(* which scene names the one that runs: lifecycle, all four steps on a     *)
(* chain that only grows; reorg, the first two steps with a reorganization *)
(* and an intent that is submitted again.                                  *)
(***************************************************************************)
EXTENDS ActivationJournal, TLC

CONSTANTS
    Selected,       \* the scenes that run
    ReorgExpiresAt, \* reorg: QuoteExpiresAt
    ReorgHeight,    \* reorg, bound: blocks
    ReorgStepBudget,\* reorg: StepBudget
    ReorgTxs        \* reorg, bound: transactions broadcast

VARIABLE scene

Symmetry == Permutations(Cmd) \cup Permutations(Tx)

Lifecycle == INSTANCE ActivationJournal WITH ConfirmationDepth <- 0, MaxForks <- 0,
                                             MaxResubmissions <- 0
Reorg     == INSTANCE ActivationJournal WITH QuoteExpiresAt <- ReorgExpiresAt,
                                             MaxHeight <- ReorgHeight,
                                             StepBudget <- ReorgStepBudget

everything == <<scene, vars>>

MCInit ==
    /\ scene \in Selected
    /\ \/ scene = "lifecycle" /\ Lifecycle!Init
       \/ scene = "reorg" /\ Reorg!Init

MCNext ==
    /\ UNCHANGED scene
    /\ \/ scene = "lifecycle" /\ Lifecycle!Next
       \/ /\ scene = "reorg" /\ Reorg!Next
          /\ Cardinality({t \in Tx : txs'[t].op # "none"}) <= ReorgTxs

MCSpec == MCInit /\ [][MCNext]_everything
=============================================================================
