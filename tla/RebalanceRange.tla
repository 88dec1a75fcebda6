--------------------------- MODULE RebalanceRange ---------------------------
(***************************************************************************)
(* The tick arithmetic of a rebalance, which four programs repeat: the     *)
(* agent that proposes (rebalance.ts), the verifier that checks what was   *)
(* signed (quotes/protocol.ts, quotes/schema.ts) and previews it on a      *)
(* fresh block (preview/plan.ts), the issuer that attests the fresh state  *)
(* (marketplace-service/issuer.ts) and the core that judges the            *)
(* attestation (marketplace-core/evaluate.ts).                             *)
(*                                                                         *)
(* A range is [lower, upper), a policy the range_policy of a mandate:      *)
(* [mode, distance, width, low, high, drift].                              *)
(***************************************************************************)
EXTENDS Integers

CONSTANTS MinTick, MaxTick    \* the ticks a pool may take

ASSUME TickAssumption == MinTick \in Int /\ MaxTick \in Int /\ MinTick < MaxTick

Modes == {"out_of_range", "boundary_proximity"}

Range(lower, upper) == [lower |-> lower, upper |-> upper]
Holds(range, tick) == range.lower <= tick /\ tick < range.upper
Aligned(range, spacing) == range.lower % spacing = 0 /\ range.upper % spacing = 0
Within(range, policy) == policy.low <= range.lower /\ range.upper <= policy.high

\* Mutant: without the half spacing, so that the range is rounded down.
Mutant_RoundedDown(tick, width, spacing) ==
    LET lower == ((2 * tick - width) \div (2 * spacing)) * spacing
    IN  Range(lower, lower + width)

\* The aligned range of this width whose middle is nearest the tick.
Nearest(tick, width, spacing) ==
    LET lower == ((2 * tick - width + spacing) \div (2 * spacing)) * spacing
    IN  Range(lower, lower + width)

Lesser(a, b) == IF a <= b THEN a ELSE b

\* How far the tick is from the end of the range it stands in.
Distance(position, tick) ==
    IF ~Holds(position, tick) THEN 0
    ELSE Lesser(tick - position.lower, position.upper - tick)

\* Whether the mandate asks for a rebalance at this tick.
Fired(policy, position, tick) ==
    \/ ~Holds(position, tick)
    \/ policy.mode = "boundary_proximity" /\ Distance(position, tick) <= policy.distance

Reason(position, tick) ==
    IF Holds(position, tick) THEN "near_range_boundary" ELSE "outside_current_range"

-----------------------------------------------------------------------------
(* The agent's offer, and what may be signed.                              *)

Proposal(policy, spacing, position, tick) ==
    [range |-> Nearest(tick, policy.width, spacing), tick |-> tick,
     reason |-> Reason(position, tick), distance |-> Distance(position, tick)]

\* Mutant: the approved bounds are not asked for.
Mutant_AnyBounds(policy, spacing, position, tick) ==
    /\ Fired(policy, position, tick)
    /\ policy.width % spacing = 0
    /\ Holds(Nearest(tick, policy.width, spacing), tick)

\* Whether buildProposal offers it; otherwise it refuses the mandate.
Offers(policy, spacing, position, tick) ==
    /\ Fired(policy, position, tick)
    /\ policy.width % spacing = 0
    /\ LET range == Nearest(tick, policy.width, spacing)
       IN  /\ MinTick <= range.lower /\ range.upper <= MaxTick
           /\ Within(range, policy)
           /\ Holds(range, tick)

\* What the verifier accepts of a signed proposal about the state it claims.
Signable(policy, spacing, position, proposal) ==
    /\ Fired(policy, position, proposal.tick)
    /\ proposal.reason = Reason(position, proposal.tick)
    /\ proposal.distance = Distance(position, proposal.tick)
    /\ proposal.range.lower < proposal.range.upper
    /\ Within(proposal.range, policy)
    /\ Holds(proposal.range, proposal.tick)
    /\ policy.width % spacing = 0
    /\ Aligned(position, spacing) /\ Aligned(proposal.range, spacing)
    /\ proposal.range.upper - proposal.range.lower = policy.width
    /\ proposal.range = Nearest(proposal.tick, policy.width, spacing)

-----------------------------------------------------------------------------
(* The fresh state, what is attested of it, and what the core finds.       *)

Absolute(n) == IF n < 0 THEN -n ELSE n

\* What the plan policy asks of the tick of the fresh block.
Deliverable(policy, position, proposal, tick) ==
    /\ Absolute(tick - proposal.tick) <= policy.drift
    /\ Fired(policy, position, tick)
    /\ Holds(proposal.range, tick)

\* The category evidence of an attestation: the fresh tick, the signed range.
Evidence(position, proposal, tick) ==
    [tick |-> tick, position |-> position, range |-> proposal.range, fired |-> TRUE,
     reason |-> Reason(position, tick), distance |-> Distance(position, tick)]

\* Mutant: the width alone is compared.
Mutant_WidthAlone(policy, spacing, e) ==
    {code \in {"TRIGGER_POLICY_MISMATCH", "RANGE_OUTSIDE_POLICY", "TARGET_WIDTH_MISMATCH"} :
        \/ code = "TRIGGER_POLICY_MISMATCH" /\ ~Fired(policy, e.position, e.tick)
        \/ code = "RANGE_OUTSIDE_POLICY" /\ ~(Within(e.range, policy) /\ Holds(e.range, e.tick))
        \/ code = "TARGET_WIDTH_MISMATCH" /\ e.range.upper - e.range.lower # policy.width}

\* The exclusions rebalancingFindings adds for the evidence of a position.
RangeFindings(policy, spacing, e) ==
    {code \in {"REBALANCE_TRIGGER_NOT_FIRED", "TRIGGER_EVIDENCE_INVALID",
               "TRIGGER_POLICY_MISMATCH", "TICK_ALIGNMENT_INVALID",
               "TARGET_WIDTH_NOT_TICK_ALIGNED", "RANGE_OUTSIDE_POLICY",
               "TARGET_WIDTH_MISMATCH"} :
        \/ code = "REBALANCE_TRIGGER_NOT_FIRED" /\ ~e.fired
        \/ /\ code = "TRIGGER_EVIDENCE_INVALID"
           /\ \/ e.distance # Distance(e.position, e.tick)
              \/ e.reason # Reason(e.position, e.tick)
        \/ code = "TRIGGER_POLICY_MISMATCH" /\ e.fired /\ ~Fired(policy, e.position, e.tick)
        \/ /\ code = "TICK_ALIGNMENT_INVALID"
           /\ ~(Aligned(e.position, spacing) /\ Aligned(e.range, spacing))
        \/ code = "TARGET_WIDTH_NOT_TICK_ALIGNED" /\ policy.width % spacing # 0
        \/ /\ code = "RANGE_OUTSIDE_POLICY"
           /\ \/ ~Within(e.range, policy) \/ ~Holds(e.range, e.tick)
              \/ e.range.lower >= e.range.upper
        \/ /\ code = "TARGET_WIDTH_MISMATCH" /\ policy.width % spacing = 0
           /\ e.range # Nearest(e.tick, policy.width, spacing)}

-----------------------------------------------------------------------------
(* What "nearest" means, without division.                                 *)

\* Twice the distance from the middle of a range to the tick.
OffCentre(range, tick) == Absolute(range.lower + range.upper - 2 * tick)

\* No aligned range of this width is nearer, and of two alike it is the upper.
NearestOf(range, tick, width, spacing) ==
    /\ range.lower % spacing = 0 /\ range.upper = range.lower + width
    /\ \A lower \in (tick - width - spacing)..(tick + width + spacing) :
        lower % spacing = 0 /\ lower # range.lower =>
            LET other == Range(lower, lower + width)
            IN  \/ OffCentre(range, tick) < OffCentre(other, tick)
                \/ OffCentre(range, tick) = OffCentre(other, tick) /\ lower < range.lower
=============================================================================
