-------------------------- MODULE ExecutionPreview --------------------------
(***************************************************************************)
(* The read-only preview of a signed rebalance (agent-supply-verifier/src/ *)
(* preview: validate.ts, pancake.ts, plan.ts, rpc.ts) and what its result  *)
(* becomes: the evidence the issuer attests and the findings of the core.  *)
(*                                                                         *)
(* A preview reads the pool and the position twice: at the very block the  *)
(* agent signed, and at a fresh block two below the head.  Every read      *)
(* names the block by its hash and asks that it be canonical; a look by    *)
(* number stands before and after.  It then simulates the plan on the      *)
(* fresh block and looks once more whether both blocks are canonical.      *)
(* The chain grows and changes branch between any two of these requests.   *)
(***************************************************************************)
EXTENDS RebalanceRange, FiniteSets

CONSTANTS
    Branches, ForkAt,     \* branches of the chain, alike below ForkAt
    Depth,                \* BSC_PANCAKE_V3.confirmationDepth, two
    MaxHeight, MaxForks,  \* bounds on the chain
    Scenes,               \* what a block may say: [tick, position, fault, authority, allowance]
    Policies, Spacing,    \* range policies, and the tick spacing of the pool
    None

ASSUME PreviewAssumption ==
    /\ {ForkAt, Depth, MaxHeight, MaxForks} \subseteq Nat
    /\ Spacing \in Nat \ {0}
    /\ \A p \in Policies : /\ p.mode \in Modes
                           /\ {p.distance, p.drift, p.width} \subseteq Nat /\ p.width > 0
                           /\ {p.low, p.high} \subseteq MinTick..MaxTick
                           /\ p.width <= p.high - p.low
ASSUME ChainAssumption == Branches # {} /\ Depth <= MaxHeight
ASSUME SceneAssumption ==
    \A s \in Scenes : /\ s.tick \in MinTick..MaxTick
                      /\ s.position \in [lower : Int, upper : Int]

VARIABLES
    branch, height, forks,   \* the canonical chain
    world,                   \* what every block says
    policy,                  \* the range policy of the mandate
    task,                    \* what the agent signed: [block, position, proposal]
    preview                  \* the preview: [step, attempt, target, fresh, result]

vars == <<branch, height, forks, world, policy, task, preview>>
chainVars == <<branch, height, forks>>

\* The blocks deep enough to be signed or read, once the chain is at its bound.
Blocks == {<<n, b>> : n \in 0..MaxHeight - Depth, b \in Branches}
Block(n) == <<n, IF n < ForkAt THEN CHOOSE b \in Branches : TRUE ELSE branch>>
Canonical(block) == block[1] <= height /\ Block(block[1]) = block

\* Whether one block descends from the other, or is it.
Descends(block, from) ==
    /\ from[1] <= block[1]
    /\ from[1] < ForkAt \/ from[2] = block[2]

Steps == {"idle", "signed_header", "signed_read", "signed_final", "fresh_head",
          "fresh_header", "fresh_read", "fresh_final", "simulate", "assert_signed",
          "assert_fresh", "done"}
Outcomes == {"pass", "invalid", "inconclusive"}

NoPreview == [step |-> "idle", attempt |-> 0, target |-> 0, fresh |-> None, result |-> None]

Init ==
    /\ branch = (CHOOSE b \in Branches : TRUE) /\ height = Depth /\ forks = 0
    /\ world \in [Blocks -> Scenes]
    /\ \A b, c \in Blocks : b[1] = c[1] /\ b[1] < ForkAt => world[b] = world[c]
    /\ policy \in Policies
    /\ task = None /\ preview = NoPreview

-----------------------------------------------------------------------------
(* The chain.                                                              *)

Mine ==
    /\ height < MaxHeight
    /\ height' = height + 1
    /\ UNCHANGED <<branch, forks, world, policy, task, preview>>

Reorganize ==
    /\ forks < MaxForks /\ height >= ForkAt
    /\ branch' \in Branches \ {branch}
    /\ forks' = forks + 1
    /\ UNCHANGED <<height, world, policy, task, preview>>

-----------------------------------------------------------------------------
(* The agent signs what it read at a block two below its head, or something *)
(* else; only what the verifier of quotes accepts reaches the preview.      *)

Claims(block) ==
    {[block |-> block, position |-> p,
      proposal |-> Proposal(policy, Spacing, p, t)] :
        p \in {s.position : s \in Scenes}, t \in {s.tick : s \in Scenes}}

Honest(claim) ==
    /\ claim.position = world[claim.block].position
    /\ claim.proposal.tick = world[claim.block].tick

Sign(claim) ==
    /\ task = None
    /\ Signable(policy, Spacing, claim.position, claim.proposal)
    /\ task' = claim
    /\ preview' = [NoPreview EXCEPT !.step = "signed_header"]
    /\ UNCHANGED <<chainVars, world, policy>>

-----------------------------------------------------------------------------
(* The preview.                                                            *)

At(step) == preview.step = step
Goes(record) == preview' = record /\ UNCHANGED <<chainVars, world, policy, task>>
Moves(step) == Goes([preview EXCEPT !.step = step])
Ends(outcome, code) ==
    Goes([preview EXCEPT !.step = "done", !.result = [outcome |-> outcome, code |-> code]])

\* A fault of the state itself, as requireState and runPreviewGate report it.
StateFault(fault, invalidCode) ==
    Ends("invalid", CASE fault = "AGENT_OWNER_MISMATCH" -> "IDENTITY_OWNER_MISMATCH"
                      [] fault = "PROVIDER_NOT_EOA" -> "CALLER_NOT_EOA"
                      [] OTHER -> invalidCode)

Unavailable == Ends("inconclusive", "PREVIEW_STATE_UNAVAILABLE")

SignedHeader ==
    /\ At("signed_header")
    /\ IF Canonical(task.block) THEN Moves("signed_read") ELSE Unavailable

SignedRead ==
    /\ At("signed_read")
    /\ IF ~Canonical(task.block) THEN Unavailable
       ELSE IF world[task.block].fault # None
       THEN StateFault(world[task.block].fault, "SIGNED_EVIDENCE_INVALID")
       ELSE Moves("signed_final")

\* Mutant: the signed evidence is not compared with what was read.
Mutant_EvidenceUnread ==
    /\ At("signed_final")
    /\ IF ~Canonical(task.block) THEN Unavailable
       ELSE Goes([preview EXCEPT !.step = "fresh_head", !.attempt = 1])

\* The last look at the signed block, and the comparison with the task.
SignedFinal ==
    /\ At("signed_final")
    /\ IF ~Canonical(task.block) THEN Unavailable
       ELSE IF ~Honest(task) THEN Ends("invalid", "SIGNED_EVIDENCE_INVALID")
       ELSE Goes([preview EXCEPT !.step = "fresh_head", !.attempt = 1])

\* Mutant: one attempt too many.
Mutant_RetryOnceMore ==
    IF preview.attempt <= 2
    THEN Goes([preview EXCEPT !.step = "fresh_head", !.attempt = @ + 1, !.fresh = None])
    ELSE Unavailable

\* A fresh snapshot that does not fit together is read once more.
Propagation ==
    IF preview.attempt = 1
    THEN Goes([preview EXCEPT !.step = "fresh_head", !.attempt = 2, !.fresh = None])
    ELSE Unavailable

\* The head as a backend sees it, which may be a block behind.
FreshHead ==
    /\ At("fresh_head")
    /\ \E seen \in {height - 1, height} \cap Nat :
        IF seen < Depth THEN Unavailable
        ELSE Goes([preview EXCEPT !.step = "fresh_header", !.target = seen - Depth])

FreshHeader ==
    /\ At("fresh_header")
    /\ Goes([preview EXCEPT !.step = "fresh_read", !.fresh = Block(preview.target)])

FreshRead ==
    /\ At("fresh_read")
    /\ IF ~Canonical(preview.fresh) THEN Propagation
       ELSE IF world[preview.fresh].fault # None
       THEN StateFault(world[preview.fresh].fault, "PREVIEW_STATE_INVALID")
       ELSE Moves("fresh_final")

\* Nothing but the tick, the approval and the allowance may have changed.
SameState(fresh) == fresh[1] >= task.block[1] /\ world[fresh].position = task.position

\* The policy of the plan on the fresh state, as far as the chain decides it.
PlanPolicy(scene) ==
    IF scene.authority = "none" THEN "POSITION_AUTHORITY_REJECTED"
    ELSE IF /\ Deliverable(policy, scene.position, task.proposal, scene.tick)
            /\ scene.allowance
    THEN "pass" ELSE "TRANSACTION_POLICY_REJECTED"

FreshFinal ==
    /\ At("fresh_final")
    /\ LET verdict == PlanPolicy(world[preview.fresh])
       IN  IF ~Canonical(preview.fresh) THEN Propagation
           ELSE IF ~SameState(preview.fresh) THEN Ends("invalid", "PREVIEW_STATE_INVALID")
           ELSE IF verdict # "pass" THEN Ends("invalid", verdict)
           ELSE Moves("simulate")

\* eth_call of the plan at the hash of the fresh block.
Simulate ==
    /\ At("simulate")
    /\ IF ~Canonical(preview.fresh) THEN Unavailable
       ELSE \/ Moves("assert_signed")
            \/ Ends("invalid", "EVM_SIMULATION_REVERTED")
            \/ Ends("invalid", "EVM_SIMULATION_INVALID")

\* Mutant: only the fresh block is looked at again.
Mutant_SignedNotAsserted == At("assert_signed") /\ Moves("assert_fresh")

AssertSigned ==
    /\ At("assert_signed")
    /\ IF Canonical(task.block) THEN Moves("assert_fresh") ELSE Unavailable

AssertFresh ==
    /\ At("assert_fresh")
    /\ IF Canonical(preview.fresh) THEN Ends("pass", None) ELSE Unavailable

\* Requests the node fails, answers out of shape or from another chain.
NodeFails ==
    /\ preview.step \in Steps \ {"idle", "done"}
    /\ Unavailable

\* A backend that has not seen the block; only a fresh snapshot is retried.
Lagging ==
    /\ preview.step \in {"fresh_header", "fresh_read", "fresh_final"}
    /\ Propagation

Gate == \/ SignedHeader \/ SignedRead \/ SignedFinal \/ FreshHead \/ FreshHeader
        \/ FreshRead \/ FreshFinal \/ Simulate \/ AssertSigned \/ AssertFresh
        \/ NodeFails \/ Lagging

Next ==
    \/ Mine \/ Reorganize
    \/ /\ task = None
       /\ \E b \in Blocks : b[1] + Depth <= height /\ \E claim \in Claims(b) : Sign(claim)
    \/ Gate

Spec == Init /\ [][Next]_vars

-----------------------------------------------------------------------------
(* What becomes of a pass.                                                 *)

Passed == preview.step = "done" /\ preview.result.outcome = "pass"
Attested == Evidence(world[preview.fresh].position, task.proposal, world[preview.fresh].tick)
Findings == RangeFindings(policy, Spacing, Attested)

-----------------------------------------------------------------------------
(* Properties.                                                             *)

\* Every preview is at a known step, tries a fresh snapshot at most twice and
\* ends with one verdict (verifyPancakeV3State, previewFailure).
TypeOK ==
    /\ height \in 0..MaxHeight /\ forks \in 0..MaxForks
    /\ preview.step \in Steps /\ preview.attempt \in 0..2
    /\ preview.fresh \in Blocks \cup {None}
    /\ preview.step \in Steps \ {"idle"} <=> task # None
    /\ preview.result = None <=> preview.step # "done"
    /\ preview.result # None => preview.result.outcome \in Outcomes

\* A pass is about two real blocks: the signed one says what the agent signed,
\* the fresh one is deep and not older, the position is the same in both, and the
\* mandate still asks for this plan at the fresh tick, whatever the chain did
\* between the requests (assertSignedEvidence, assertCrossBlockState,
\* validateRebalancePlanPolicy).
PassIsOfBothStates ==
    Passed =>
        LET fresh == world[preview.fresh]
        IN  /\ Honest(task)
            /\ preview.fresh[1] >= task.block[1] /\ preview.fresh[1] + Depth <= height
            /\ fresh.position = task.position /\ fresh.fault = None
            /\ fresh.authority # "none" /\ fresh.allowance
            /\ Fired(policy, fresh.position, fresh.tick)
            /\ Holds(task.proposal.range, fresh.tick) /\ Within(task.proposal.range, policy)
            /\ Absolute(fresh.tick - task.proposal.tick) <= policy.drift

\* The two looks after the simulation (runPreviewGate) make the fresh block a
\* descendant of the signed one, unless the chain changed branch three times
\* during the preview.
FreshDescendsFromSigned ==
    Passed /\ forks <= 2 => Descends(preview.fresh, task.block)

\* The range of every task that is previewed is the aligned one nearest the tick it
\* was signed at, ties going to the upper (deriveNearestCenteredExactRange in two
\* programs and the core's own formula).
SignedRangeIsNearest ==
    task # None => NearestOf(task.proposal.range, task.proposal.tick, policy.width, Spacing)

\* Agent and verifier agree: an offer of buildProposal about an aligned position is
\* one that assertSignedRebalancePolicy and the signed-task schema accept.
OffersAreSignable ==
    \A b \in Blocks :
        LET s == world[b]
        IN  Aligned(s.position, Spacing) /\ Offers(policy, Spacing, s.position, s.tick) =>
            Signable(policy, Spacing, s.position, Proposal(policy, Spacing, s.position, s.tick))

\* Verifier, issuer and core agree on a preview that passed: the only thing the core
\* can still find wrong with the ticks is that the tick drifted to where another range
\* is nearest (rebalancingFindings against validateRebalancePlanPolicy).
OnlyDriftIsFound ==
    Passed =>
        Findings = IF NearestOf(task.proposal.range, world[preview.fresh].tick,
                                policy.width, Spacing)
                   THEN {} ELSE {"TARGET_WIDTH_MISMATCH"}

\* The programs that compute ranges agree: what is signed is the nearest range, every range
\* offered can be signed, and a signed range is found fault with for drift alone.
RangesAgree == SignedRangeIsNearest /\ OffersAreSignable /\ OnlyDriftIsFound
=============================================================================
