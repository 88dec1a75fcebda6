----------------------- MODULE ExecutionPreview_proofs -----------------------
(***************************************************************************)
(* Proofs about what a verifier reads block by block.  RebalanceRange: the *)
(* formula the four programs share does yield the nearest aligned range.   *)
(* ExecutionPreview: a preview that passes is of two states that agree     *)
(* with the task, on one chain.  CategoryAdapters: every verdict is what   *)
(* the reads mean.  CategoryExecution: it is of one block, and is bound    *)
(* once.  CategoryTarget: every observation is as if made at one instant.  *)
(***************************************************************************)
EXTENDS MCExecutionPreview, Sequences, TLAPS

\* What \div and % by a positive number are.
LEMMA Division ==
  ASSUME NEW a \in Int, NEW b \in Int, b > 0
  PROVE  /\ a \div b \in Int
         /\ b * (a \div b) <= a
         /\ a < b * (a \div b) + b
BY SMTT(30)

LEMMA Modulo ==
  ASSUME NEW a \in Int, NEW b \in Int, b > 0
  PROVE  a % b = a - b * (a \div b)
BY SMTT(30)

LEMMA MultipleModulo ==
  ASSUME NEW q \in Int, NEW b \in Int, b > 0
  PROVE  (q * b) % b = 0
BY SMTT(30)

\* Two multiples of the spacing are a spacing apart.
LEMMA MultiplesApart ==
  ASSUME NEW a \in Int, NEW b \in Int, NEW s \in Int, s > 0,
         a % s = 0, b % s = 0, a # b
  PROVE  a >= b + s \/ b >= a + s
<1> DEFINE p == a \div s  q == b \div s
<1>1. p \in Int /\ q \in Int
  BY Division
<1>2. a = s * p /\ b = s * q
  BY Modulo, <1>1
<1> HIDE DEF p, q
<1>3. CASE p >= q + 1
  BY <1>1, <1>2, <1>3, s * p >= s * (q + 1)
<1>4. CASE q >= p + 1
  BY <1>1, <1>2, <1>4, s * q >= s * (p + 1)
<1>5. p # q
  BY <1>2
<1>6. QED
  BY <1>1, <1>3, <1>4, <1>5

LEMMA SumOfMultiples ==
  ASSUME NEW a \in Int, NEW b \in Int, NEW s \in Int, s > 0, a % s = 0, b % s = 0
  PROVE  (a + b) % s = 0
<1> DEFINE p == a \div s  q == b \div s
<1>1. p \in Int /\ q \in Int
  BY Division
<1>2. a = s * p /\ b = s * q
  BY Modulo, <1>1
<1> HIDE DEF p, q
<1>3. a + b = (p + q) * s /\ p + q \in Int
  BY <1>1, <1>2
<1>4. QED
  BY <1>3, MultipleModulo

\* Where the formula puts the range: its middle is at most half a spacing below the
\* tick, and less than half a spacing above.
LEMMA NearestBounds ==
  ASSUME NEW tick \in Int, NEW width \in Int, NEW spacing \in Int, spacing > 0
  PROVE  LET range == Nearest(tick, width, spacing)
         IN  /\ range.lower \in Int /\ range.lower % spacing = 0
             /\ range = Range(range.lower, range.lower + width)
             /\ 2 * range.lower + width - spacing <= 2 * tick
             /\ 2 * tick < 2 * range.lower + width + spacing
<1> DEFINE a == 2 * tick - width + spacing
           q == a \div (2 * spacing)
           lower == q * spacing
<1>1. a \in Int /\ 2 * spacing \in Int /\ 2 * spacing > 0
  OBVIOUS
<1>2. /\ q \in Int
      /\ (2 * spacing) * q <= a
      /\ a < (2 * spacing) * q + 2 * spacing
  BY <1>1, Division
<1>3. (2 * spacing) * q = 2 * lower /\ lower \in Int
  BY <1>2
<1>4. lower % spacing = 0
  BY <1>2, MultipleModulo
<1>5. Nearest(tick, width, spacing) = Range(lower, lower + width)
  BY DEF Nearest
<1> HIDE DEF q, lower
<1>6. QED
  BY <1>2, <1>3, <1>4, <1>5 DEF Range

\* The range the formula yields holds the tick, when the width is a positive multiple
\* of the spacing: the upper end is exclusive and never the tick itself
\* (deriveNearestCenteredExactRange, deriveExactTargetRange, rebalancingFindings).
THEOREM NearestHoldsTheTick ==
  ASSUME NEW tick \in Int, NEW width \in Int, NEW spacing \in Int,
         spacing > 0, width > 0, width % spacing = 0
  PROVE  Holds(Nearest(tick, width, spacing), tick)
<1> DEFINE range == Nearest(tick, width, spacing)
<1>1. 0 % spacing = 0
  BY MultipleModulo, 0 * spacing = 0
<1>2. width >= spacing
  BY <1>1, MultiplesApart
<1>3. /\ range.lower \in Int
      /\ range = Range(range.lower, range.lower + width)
      /\ 2 * range.lower + width - spacing <= 2 * tick
      /\ 2 * tick < 2 * range.lower + width + spacing
  BY NearestBounds
<1>4. range.upper = range.lower + width
  BY <1>3 DEF Range
<1> HIDE DEF range
<1>5. range.lower <= tick /\ tick < range.upper
  BY <1>2, <1>3, <1>4
<1>6. QED
  BY <1>5 DEF range, Holds

\* Every other aligned range of the width is farther from the tick, or as far and below.
LEMMA OthersAreFarther ==
  ASSUME NEW tick \in Int, NEW width \in Int, NEW spacing \in Int, spacing > 0,
         NEW lower \in Int, lower % spacing = 0,
         lower # Nearest(tick, width, spacing).lower
  PROVE  LET range == Nearest(tick, width, spacing)
             other == Range(lower, lower + width)
         IN  \/ OffCentre(range, tick) < OffCentre(other, tick)
             \/ OffCentre(range, tick) = OffCentre(other, tick) /\ lower < range.lower
<1> DEFINE range == Nearest(tick, width, spacing)
           near == range.lower
           other == Range(lower, lower + width)
<1>1. /\ near \in Int /\ near % spacing = 0
      /\ range = Range(near, near + width)
      /\ 2 * near + width - spacing <= 2 * tick
      /\ 2 * tick < 2 * near + width + spacing
  BY NearestBounds
<1>2. /\ OffCentre(range, tick) = Absolute(2 * near + width - 2 * tick)
      /\ OffCentre(other, tick) = Absolute(2 * lower + width - 2 * tick)
  <2>1. /\ range.lower = near /\ range.upper = near + width
        /\ other.lower = lower /\ other.upper = lower + width
    BY <1>1 DEF Range
  <2>2. /\ near + (near + width) - 2 * tick = 2 * near + width - 2 * tick
        /\ lower + (lower + width) - 2 * tick = 2 * lower + width - 2 * tick
    BY <1>1
  <2>3. QED
    BY <2>1, <2>2 DEF OffCentre
<1>3. lower >= near + spacing \/ near >= lower + spacing
  BY <1>1, MultiplesApart
<1> DEFINE mine == OffCentre(range, tick)
           theirs == OffCentre(other, tick)
<1>4. mine < theirs \/ (mine = theirs /\ lower < near)
  <2> HIDE DEF range, near, other, mine, theirs
  <2>1. /\ mine = Absolute(2 * near + width - 2 * tick)
        /\ theirs = Absolute(2 * lower + width - 2 * tick)
    BY <1>2 DEF mine, theirs
  <2>2. CASE lower >= near + spacing
    BY <1>1, <2>1, <2>2 DEF Absolute
  <2>3. CASE near >= lower + spacing
    BY <1>1, <2>1, <2>3 DEF Absolute
  <2>4. QED
    BY <1>3, <2>2, <2>3
<1>5. QED
  BY <1>4

\* The formula yields the nearest aligned range, ties going to the upper one.
THEOREM NearestIsNearest ==
  ASSUME NEW tick \in Int, NEW width \in Int, NEW spacing \in Int, spacing > 0
  PROVE  NearestOf(Nearest(tick, width, spacing), tick, width, spacing)
<1> DEFINE range == Nearest(tick, width, spacing)
<1>1. range.lower % spacing = 0 /\ range = Range(range.lower, range.lower + width)
  BY NearestBounds
<1>2. range.upper = range.lower + width
  BY <1>1 DEF Range
<1>3. \A lower \in (tick - width - spacing)..(tick + width + spacing) :
        lower % spacing = 0 /\ lower # range.lower =>
            LET other == Range(lower, lower + width)
            IN  \/ OffCentre(range, tick) < OffCentre(other, tick)
                \/ OffCentre(range, tick) = OffCentre(other, tick) /\ lower < range.lower
  BY OthersAreFarther
<1>4. QED
  BY <1>1, <1>2, <1>3 DEF NearestOf

\* And no other range is: whoever recomputes it finds the same one.
THEOREM NearestIsUnique ==
  ASSUME NEW tick \in Int, NEW width \in Nat, NEW spacing \in Int, spacing > 0,
         NEW range \in [lower : Int, upper : Int],
         NearestOf(range, tick, width, spacing)
  PROVE  range = Nearest(tick, width, spacing)
<1> DEFINE best == Nearest(tick, width, spacing)
<1>1. /\ best.lower \in Int /\ best.lower % spacing = 0
      /\ best = Range(best.lower, best.lower + width)
      /\ 2 * best.lower + width - spacing <= 2 * tick
      /\ 2 * tick < 2 * best.lower + width + spacing
  BY NearestBounds
<1>2. range.lower \in Int /\ range.lower % spacing = 0 /\ range.upper = range.lower + width
  BY DEF NearestOf
<1>3. range = Range(range.lower, range.lower + width)
  BY <1>2 DEF Range
<1>4. best.lower \in (tick - width - spacing)..(tick + width + spacing)
  <2> HIDE DEF best
  <2>1. QED
    BY <1>1
<1>5. OffCentre(range, tick) \in Int /\ OffCentre(best, tick) \in Int
  <2>1. best.upper = best.lower + width
    BY <1>1 DEF Range
  <2> HIDE DEF best
  <2>2. QED
    BY <1>1, <1>2, <2>1 DEF OffCentre, Absolute
<1>6. ASSUME range.lower # best.lower PROVE FALSE
  <2>1. \/ OffCentre(range, tick) < OffCentre(best, tick)
        \/ OffCentre(range, tick) = OffCentre(best, tick) /\ best.lower < range.lower
    <3>1. LET other == Range(best.lower, best.lower + width)
          IN  \/ OffCentre(range, tick) < OffCentre(other, tick)
              \/ OffCentre(range, tick) = OffCentre(other, tick) /\ best.lower < range.lower
      <4> HIDE DEF best
      <4>1. QED
        BY <1>1, <1>4, <1>6 DEF NearestOf
    <3> HIDE DEF best
    <3>2. QED
      BY <1>1, <3>1
  <2>2. \/ OffCentre(best, tick) < OffCentre(range, tick)
        \/ OffCentre(best, tick) = OffCentre(range, tick) /\ range.lower < best.lower
    BY <1>2, <1>3, <1>6, OthersAreFarther
  <2> HIDE DEF best
  <2>3. QED
    BY <1>1, <1>2, <1>5, <2>1, <2>2
<1>7. QED
  BY <1>1, <1>3, <1>6

-----------------------------------------------------------------------------
(* What the steps of a preview keep.                                       *)

\* What a preview may report.
Codes == {None, "IDENTITY_OWNER_MISMATCH", "CALLER_NOT_EOA", "SIGNED_EVIDENCE_INVALID",
          "PREVIEW_STATE_INVALID", "PREVIEW_STATE_UNAVAILABLE", "EVM_SIMULATION_REVERTED",
          "EVM_SIMULATION_INVALID", "POSITION_AUTHORITY_REJECTED",
          "TRANSACTION_POLICY_REJECTED"}

Previews == [step : Steps, attempt : 0..2, target : Nat, fresh : Blocks \cup {None},
             result : {None} \cup [outcome : Outcomes, code : Codes]]

\* A task is one the verifier of quotes accepted, about blocks and ticks.
Accepted ==
    preview.step # "idle" =>
        /\ task.block \in Blocks
        /\ task.proposal.tick \in Int /\ task.proposal.distance \in Int
        /\ task.proposal.range \in [lower : Int, upper : Int]
        /\ task.position \in [lower : Int, upper : Int]
        /\ Signable(policy, Spacing, task.position, task.proposal)

\* The steps from which on each thing has been established.
SignedSteps == {"fresh_head", "fresh_header", "fresh_read", "fresh_final", "simulate",
                "assert_signed", "assert_fresh"}
FreshSteps == {"fresh_read", "fresh_final", "simulate", "assert_signed", "assert_fresh"}
ReadSteps == {"fresh_final", "simulate", "assert_signed", "assert_fresh"}
AgreedSteps == {"simulate", "assert_signed", "assert_fresh"}

Established ==
    /\ task # None => preview.step # "idle"
    /\ preview.step \in SignedSteps \/ Passed => Honest(task)
    /\ preview.step = "fresh_header" => preview.target + Depth <= height
    /\ preview.step \in FreshSteps \/ Passed =>
        preview.fresh \in Blocks /\ preview.fresh[1] + Depth <= height
    /\ preview.step \in ReadSteps \/ Passed => world[preview.fresh].fault = None
    /\ preview.step \in AgreedSteps \/ Passed =>
        SameState(preview.fresh) /\ PlanPolicy(world[preview.fresh]) = "pass"

PreviewInv ==
    /\ height \in 0..MaxHeight /\ branch \in Branches
    /\ world \in [Blocks -> Scenes] /\ policy \in Policies
    /\ preview \in Previews
    /\ Accepted
    /\ Established

LEMMA PolicyTypes ==
  ASSUME NEW p \in Policies
  PROVE  /\ {p.distance, p.drift, p.width, p.low, p.high} \subseteq Int /\ p.width > 0
         /\ p.width <= p.high - p.low
BY PreviewAssumption, TickAssumption

LEMMA BlockIsBlock ==
  ASSUME branch \in Branches, NEW n \in Nat, n + Depth <= MaxHeight
  PROVE  Block(n) \in Blocks /\ Block(n)[1] = n
<1>1. (CHOOSE b \in Branches : TRUE) \in Branches
  BY ChainAssumption
<1>2. n \in 0..MaxHeight - Depth
  BY PreviewAssumption
<1>3. QED
  BY <1>1, <1>2 DEF Block, Blocks

LEMMA InitEstablishes == Init => PreviewInv
<1> SUFFICES ASSUME Init PROVE PreviewInv
  OBVIOUS
<1>1. (CHOOSE b \in Branches : TRUE) \in Branches
  BY ChainAssumption
<1>2. preview \in Previews
  BY DEF Init, NoPreview, Previews, Steps
<1>3. Established
  BY DEF Init, NoPreview, Established, Passed, SignedSteps, FreshSteps, ReadSteps, AgreedSteps
<1>4. Accepted
  BY DEF Init, NoPreview, Accepted
<1>5. height \in 0..MaxHeight
  BY PreviewAssumption, ChainAssumption DEF Init
<1>6. QED
  BY <1>1, <1>2, <1>3, <1>4, <1>5 DEF Init, PreviewInv

LEMMA ChainKeeps == PreviewInv /\ (Mine \/ Reorganize) => PreviewInv'
<1> SUFFICES ASSUME PreviewInv, Mine \/ Reorganize PROVE PreviewInv'
  OBVIOUS
<1>1. /\ height' \in 0..MaxHeight /\ height' >= height /\ branch' \in Branches
      /\ UNCHANGED <<world, policy, task, preview>>
  BY PreviewAssumption DEF PreviewInv, Mine, Reorganize
<1>2. Accepted'
  BY <1>1 DEF PreviewInv, Accepted
<1>3. preview.step = "fresh_header" => preview.target + Depth <= height'
  BY <1>1, PreviewAssumption DEF PreviewInv, Established, Previews
<1>4. preview.step \in FreshSteps \/ Passed =>
          preview.fresh \in Blocks /\ preview.fresh[1] + Depth <= height'
  BY <1>1, PreviewAssumption DEF PreviewInv, Established, Blocks
<1>5. /\ Honest(task)' = Honest(task) /\ SameState(preview.fresh)' = SameState(preview.fresh)
      /\ Passed' = Passed
      /\ PlanPolicy(world[preview.fresh])' = PlanPolicy(world[preview.fresh])
  BY <1>1 DEF Honest, SameState, Passed, PlanPolicy
<1>6. Established'
  BY <1>1, <1>3, <1>4, <1>5 DEF PreviewInv, Established
<1>7. QED
  BY <1>1, <1>2, <1>6 DEF PreviewInv

\* What the agent may claim is about blocks and ticks.
LEMMA ClaimTypes ==
  ASSUME PreviewInv, NEW b \in Blocks, NEW claim \in Claims(b)
  PROVE  /\ claim.block = b
         /\ claim.proposal.tick \in Int /\ claim.proposal.distance \in Int
         /\ claim.proposal.range \in [lower : Int, upper : Int]
         /\ claim.position \in [lower : Int, upper : Int]
<1>1. PICK s \in Scenes, r \in Scenes :
          claim = [block |-> b, position |-> s.position,
                   proposal |-> Proposal(policy, Spacing, s.position, r.tick)]
  BY DEF Claims
<1>2. s.position \in [lower : Int, upper : Int] /\ r.tick \in Int
  BY SceneAssumption, TickAssumption
<1>3. Distance(s.position, r.tick) \in Int
  BY <1>2 DEF Distance, Lesser, Holds
<1>4. policy.width \in Int /\ Spacing \in Int /\ Spacing > 0
  BY PolicyTypes, PreviewAssumption DEF PreviewInv
<1>5. Nearest(r.tick, policy.width, Spacing) \in [lower : Int, upper : Int]
  <2>1. /\ Nearest(r.tick, policy.width, Spacing).lower \in Int
        /\ Nearest(r.tick, policy.width, Spacing) =
             Range(Nearest(r.tick, policy.width, Spacing).lower,
                   Nearest(r.tick, policy.width, Spacing).lower + policy.width)
    BY <1>2, <1>4, NearestBounds
  <2>2. QED
    BY <2>1, <1>4 DEF Range
<1>6. QED
  BY <1>1, <1>2, <1>3, <1>5 DEF Proposal

LEMMA SignKeeps ==
  ASSUME PreviewInv, NEW b \in Blocks, NEW claim \in Claims(b), Sign(claim)
  PROVE  PreviewInv'
<1>1. Accepted'
  BY ClaimTypes DEF Sign, Accepted
<1>2. preview' = [step |-> "signed_header", attempt |-> 0, target |-> 0, fresh |-> None,
                  result |-> None]
  BY DEF Sign, NoPreview
<1>3. Established'
  BY <1>2 DEF Sign, Established, Passed, SignedSteps, FreshSteps, ReadSteps, AgreedSteps
<1>4. preview' \in Previews
  BY <1>2 DEF Previews, Steps
<1>5. QED
  BY <1>1, <1>3, <1>4 DEF PreviewInv, Sign, chainVars

\* A step of the gate leaves the chain and the task alone; what it must show is
\* that the new preview is one, and that what it claims to have seen is so.
LEMMA GateFrame ==
  ASSUME PreviewInv, preview.step # "idle",
         UNCHANGED <<chainVars, world, policy, task>>,
         preview' \in Previews, preview'.step # "idle", Established'
  PROVE  PreviewInv'
<1>1. Accepted'
  BY DEF PreviewInv, Accepted
<1>2. QED
  BY <1>1 DEF PreviewInv, chainVars

LEMMA EndsKeeps ==
  ASSUME PreviewInv, preview.step # "idle", preview.step # "done",
         NEW outcome \in Outcomes, NEW code \in Codes, Ends(outcome, code),
         outcome = "pass" => preview.step \in AgreedSteps
  PROVE  PreviewInv'
<1>1. preview \in Previews
  BY DEF PreviewInv
<1>2. /\ preview' = [preview EXCEPT !.step = "done",
                                   !.result = [outcome |-> outcome, code |-> code]]
      /\ UNCHANGED <<chainVars, world, policy, task>>
  BY DEF Ends, Goes
<1>3. /\ preview'.step = "done" /\ preview'.result = [outcome |-> outcome, code |-> code]
      /\ preview'.attempt = preview.attempt /\ preview'.target = preview.target
      /\ preview'.fresh = preview.fresh
  BY <1>1, <1>2 DEF Previews
<1>4. preview' \in Previews
  BY <1>1, <1>2 DEF Previews, Steps
<1>5. Passed' => outcome = "pass"
  BY <1>3 DEF Passed
<1>6. /\ Honest(task)' = Honest(task)
      /\ SameState(preview.fresh)' = SameState(preview.fresh)
      /\ PlanPolicy(world[preview.fresh])' = PlanPolicy(world[preview.fresh])
  BY <1>2, <1>3 DEF Honest, SameState, PlanPolicy
<1>7. outcome = "pass" =>
        /\ Honest(task)'
        /\ preview'.fresh \in Blocks /\ preview'.fresh[1] + Depth <= height'
        /\ world'[preview'.fresh].fault = None
        /\ SameState(preview.fresh)' /\ PlanPolicy(world[preview.fresh])'  = "pass"
  BY <1>2, <1>3, <1>6 DEF PreviewInv, Established, AgreedSteps, ReadSteps, FreshSteps,
                          SignedSteps, chainVars
<1>8. Established'
  BY <1>2, <1>3, <1>5, <1>6, <1>7 DEF PreviewInv, Established, AgreedSteps, ReadSteps,
                                      FreshSteps, SignedSteps
<1>9. QED
  BY <1>2, <1>3, <1>4, <1>8, GateFrame

\* A move to the next step, the other fields kept.
LEMMA MovesKeeps ==
  ASSUME PreviewInv, preview.step # "idle", NEW step \in Steps \ {"idle", "done"},
         preview.step # "done", Moves(step),
         step \in SignedSteps => Honest(task),
         step = "fresh_header" => preview.target + Depth <= height,
         step \in FreshSteps =>
             preview.fresh \in Blocks /\ preview.fresh[1] + Depth <= height,
         step \in ReadSteps => world[preview.fresh].fault = None,
         step \in AgreedSteps =>
             SameState(preview.fresh) /\ PlanPolicy(world[preview.fresh]) = "pass"
  PROVE  PreviewInv'
<1>1. preview \in Previews
  BY DEF PreviewInv
<1>2. /\ preview' = [preview EXCEPT !.step = step]
      /\ UNCHANGED <<chainVars, world, policy, task>>
  BY DEF Moves, Goes
<1>3. /\ preview'.step = step /\ preview'.result = preview.result
      /\ preview'.target = preview.target /\ preview'.fresh = preview.fresh
  BY <1>1, <1>2 DEF Previews
<1>4. preview' \in Previews
  BY <1>1, <1>2 DEF Previews
<1>5. ~Passed'
  BY <1>3 DEF Passed
<1>6. /\ Honest(task)' = Honest(task)
      /\ SameState(preview.fresh)' = SameState(preview.fresh)
      /\ PlanPolicy(world[preview.fresh])' = PlanPolicy(world[preview.fresh])
  BY <1>2, <1>3 DEF Honest, SameState, PlanPolicy
<1>7. Established'
  BY <1>2, <1>3, <1>5, <1>6 DEF PreviewInv, Established, chainVars
<1>8. QED
  BY <1>2, <1>3, <1>4, <1>7, GateFrame

\* Back to the head for another fresh snapshot, or the end of the attempts.
LEMMA RetryKeeps ==
  ASSUME PreviewInv, preview.step \in SignedSteps,
         NEW attempt \in 0..2,
         Goes([preview EXCEPT !.step = "fresh_head", !.attempt = attempt, !.fresh = None])
  PROVE  PreviewInv'
<1>1. preview \in Previews /\ Honest(task)
  BY DEF PreviewInv, Established
<1>2. /\ preview' = [preview EXCEPT !.step = "fresh_head", !.attempt = attempt, !.fresh = None]
      /\ UNCHANGED <<chainVars, world, policy, task>>
  BY DEF Goes
<1>3. preview'.step = "fresh_head" /\ preview' \in Previews
  BY <1>1, <1>2 DEF Previews, Steps
<1>4. Established'
  BY <1>1, <1>2, <1>3 DEF PreviewInv, Established, Passed, Honest, SignedSteps, FreshSteps,
                          ReadSteps, AgreedSteps
<1>5. QED
  BY <1>2, <1>3, <1>4, GateFrame DEF SignedSteps

LEMMA UnavailableKeeps ==
  ASSUME PreviewInv, preview.step \in Steps \ {"idle", "done"}, Unavailable
  PROVE  PreviewInv'
<1>1. Ends("inconclusive", "PREVIEW_STATE_UNAVAILABLE")
  BY DEF Unavailable
<1>2. "inconclusive" \in Outcomes /\ "PREVIEW_STATE_UNAVAILABLE" \in Codes
  BY DEF Outcomes, Codes
<1>3. QED
  BY <1>1, <1>2, EndsKeeps

LEMMA InvalidKeeps ==
  ASSUME PreviewInv, preview.step \in Steps \ {"idle", "done"}, NEW code \in Codes,
         Ends("invalid", code)
  PROVE  PreviewInv'
BY EndsKeeps DEF Outcomes

LEMMA PropagationKeeps ==
  ASSUME PreviewInv, preview.step \in SignedSteps, Propagation
  PROVE  PreviewInv'
<1>1. CASE Unavailable
  BY <1>1, UnavailableKeeps DEF SignedSteps, Steps
<1>2. CASE Goes([preview EXCEPT !.step = "fresh_head", !.attempt = 2, !.fresh = None])
  BY <1>2, RetryKeeps
<1>3. QED
  BY <1>1, <1>2 DEF Propagation

LEMMA FaultKeeps ==
  ASSUME PreviewInv, preview.step \in Steps \ {"idle", "done"}, NEW fault,
         NEW code \in Codes, StateFault(fault, code)
  PROVE  PreviewInv'
<1> DEFINE shown == CASE fault = "AGENT_OWNER_MISMATCH" -> "IDENTITY_OWNER_MISMATCH"
                      [] fault = "PROVIDER_NOT_EOA" -> "CALLER_NOT_EOA"
                      [] OTHER -> code
<1>1. shown \in Codes
  BY DEF Codes
<1>2. Ends("invalid", shown)
  BY DEF StateFault
<1> HIDE DEF shown
<1>3. QED
  BY <1>1, <1>2, InvalidKeeps

LEMMA GateKeeps == PreviewInv /\ Gate => PreviewInv'
<1> SUFFICES ASSUME PreviewInv, Gate PROVE PreviewInv'
  OBVIOUS
<1>0. /\ preview \in Previews /\ Established /\ branch \in Branches
      /\ height \in 0..MaxHeight
  BY DEF PreviewInv
<1>1. CASE SignedHeader
  <2>1. CASE Unavailable
    BY <1>1, <2>1, UnavailableKeeps DEF SignedHeader, At, Steps
  <2>2. CASE Moves("signed_read")
    BY <1>1, <2>2, MovesKeeps DEF SignedHeader, At, Steps, SignedSteps, FreshSteps,
                                  ReadSteps, AgreedSteps
  <2>3. QED
    BY <1>1, <2>1, <2>2 DEF SignedHeader
<1>2. CASE SignedRead
  <2>1. CASE Unavailable
    BY <1>2, <2>1, UnavailableKeeps DEF SignedRead, At, Steps
  <2>2. CASE StateFault(world[task.block].fault, "SIGNED_EVIDENCE_INVALID")
    BY <1>2, <2>2, FaultKeeps DEF SignedRead, At, Steps, Codes
  <2>3. CASE Moves("signed_final")
    BY <1>2, <2>3, MovesKeeps DEF SignedRead, At, Steps, SignedSteps, FreshSteps,
                                  ReadSteps, AgreedSteps
  <2>4. QED
    BY <1>2, <2>1, <2>2, <2>3 DEF SignedRead
<1>3. CASE SignedFinal
  <2>1. CASE Unavailable
    BY <1>3, <2>1, UnavailableKeeps DEF SignedFinal, At, Steps
  <2>2. CASE Ends("invalid", "SIGNED_EVIDENCE_INVALID")
    BY <1>3, <2>2, InvalidKeeps DEF SignedFinal, At, Steps, Codes
  <2>3. CASE Honest(task) /\ Goes([preview EXCEPT !.step = "fresh_head", !.attempt = 1])
    <3>1. /\ preview' = [preview EXCEPT !.step = "fresh_head", !.attempt = 1]
          /\ UNCHANGED <<chainVars, world, policy, task>>
      BY <2>3 DEF Goes
    <3>2. preview'.step = "fresh_head" /\ preview' \in Previews
      <4>1. 1 \in 0..2 /\ "fresh_head" \in Steps
        BY DEF Steps
      <4>2. QED
        BY <1>0, <3>1, <4>1 DEF Previews
    <3>3. Established'
      BY <1>0, <2>3, <3>1, <3>2 DEF Established, Passed, Honest, SignedSteps, FreshSteps,
                                    ReadSteps, AgreedSteps
    <3>4. QED
      BY <1>3, <3>1, <3>2, <3>3, GateFrame DEF SignedFinal, At
  <2>4. QED
    BY <1>3, <2>1, <2>2, <2>3 DEF SignedFinal
<1>4. CASE FreshHead
  <2>1. PICK seen \in {height - 1, height} \cap Nat :
            IF seen < Depth THEN Unavailable
            ELSE Goes([preview EXCEPT !.step = "fresh_header", !.target = seen - Depth])
    BY <1>4 DEF FreshHead
  <2>2. CASE Unavailable
    BY <1>4, <2>2, UnavailableKeeps DEF FreshHead, At, Steps
  <2>3. CASE seen >= Depth
             /\ Goes([preview EXCEPT !.step = "fresh_header", !.target = seen - Depth])
    <3>1. /\ preview' = [preview EXCEPT !.step = "fresh_header", !.target = seen - Depth]
          /\ UNCHANGED <<chainVars, world, policy, task>>
      BY <2>3 DEF Goes
    <3>2. seen - Depth \in Nat /\ seen - Depth + Depth <= height
      BY <1>0, <2>3, PreviewAssumption
    <3>3. /\ preview'.step = "fresh_header" /\ preview'.target = seen - Depth
          /\ preview' \in Previews
      BY <1>0, <3>1, <3>2 DEF Previews, Steps
    <3>4. Established'
      BY <1>0, <1>4, <3>1, <3>2, <3>3 DEF FreshHead, At, Established, Passed, Honest,
          SignedSteps, FreshSteps, ReadSteps, AgreedSteps, chainVars
    <3>5. QED
      BY <1>4, <3>1, <3>3, <3>4, GateFrame DEF FreshHead, At
  <2>4. QED
    BY <1>0, <2>1, <2>2, <2>3, PreviewAssumption
<1>5. CASE FreshHeader
  <2>1. /\ preview' = [preview EXCEPT !.step = "fresh_read", !.fresh = Block(preview.target)]
        /\ UNCHANGED <<chainVars, world, policy, task>>
    BY <1>5 DEF FreshHeader, Goes
  <2>2. preview.target \in Nat /\ preview.target + Depth <= height
    BY <1>0, <1>5 DEF FreshHeader, At, Established, Previews
  <2>3. Block(preview.target) \in Blocks /\ Block(preview.target)[1] = preview.target
    BY <1>0, <2>2, BlockIsBlock, PreviewAssumption
  <2>4. /\ preview'.step = "fresh_read" /\ preview'.fresh = Block(preview.target)
        /\ preview' \in Previews
    BY <1>0, <2>1, <2>3 DEF Previews, Steps
  <2>5. Established'
    BY <1>0, <1>5, <2>1, <2>2, <2>3, <2>4 DEF FreshHeader, At, Established, Passed, Honest,
        SignedSteps, FreshSteps, ReadSteps, AgreedSteps, chainVars
  <2>6. QED
    BY <1>5, <2>1, <2>4, <2>5, GateFrame DEF FreshHeader, At
<1>6. CASE FreshRead
  <2>0. preview.step = "fresh_read" /\ preview.step \in SignedSteps
    BY <1>6 DEF FreshRead, At, SignedSteps
  <2>1. CASE Propagation
    BY <2>0, <2>1, PropagationKeeps
  <2>2. CASE StateFault(world[preview.fresh].fault, "PREVIEW_STATE_INVALID")
    BY <2>0, <2>2, FaultKeeps DEF Steps, Codes
  <2>3. CASE world[preview.fresh].fault = None /\ Moves("fresh_final")
    BY <1>0, <2>0, <2>3, MovesKeeps DEF Steps, Established, SignedSteps, FreshSteps,
                                        ReadSteps, AgreedSteps
  <2>4. QED
    BY <1>6, <2>1, <2>2, <2>3 DEF FreshRead
<1>7. CASE FreshFinal
  <2>0. preview.step = "fresh_final" /\ preview.step \in SignedSteps
    BY <1>7 DEF FreshFinal, At, SignedSteps
  <2>1. CASE Propagation
    BY <2>0, <2>1, PropagationKeeps
  <2>2. CASE Ends("invalid", "PREVIEW_STATE_INVALID")
    BY <2>0, <2>2, InvalidKeeps DEF Steps, Codes
  <2>3. CASE /\ PlanPolicy(world[preview.fresh]) # "pass"
             /\ Ends("invalid", PlanPolicy(world[preview.fresh]))
    <3>1. PlanPolicy(world[preview.fresh]) \in Codes
      BY <2>3 DEF PlanPolicy, Codes
    <3>2. QED
      BY <2>0, <2>3, <3>1, InvalidKeeps DEF Steps
  <2>4. CASE /\ SameState(preview.fresh) /\ PlanPolicy(world[preview.fresh]) = "pass"
             /\ Moves("simulate")
    BY <1>0, <2>0, <2>4, MovesKeeps DEF Steps, Established, SignedSteps, FreshSteps,
                                        ReadSteps, AgreedSteps
  <2>5. QED
    BY <1>7, <2>1, <2>2, <2>3, <2>4 DEF FreshFinal
<1>8. CASE Simulate
  <2>0. preview.step = "simulate"
    BY <1>8 DEF Simulate, At
  <2>1. CASE Unavailable
    BY <2>0, <2>1, UnavailableKeeps DEF Steps
  <2>2. CASE Moves("assert_signed")
    BY <1>0, <2>0, <2>2, MovesKeeps DEF Steps, Established, SignedSteps, FreshSteps,
                                        ReadSteps, AgreedSteps
  <2>3. CASE Ends("invalid", "EVM_SIMULATION_REVERTED")
    BY <2>0, <2>3, InvalidKeeps DEF Steps, Codes
  <2>4. CASE Ends("invalid", "EVM_SIMULATION_INVALID")
    BY <2>0, <2>4, InvalidKeeps DEF Steps, Codes
  <2>5. QED
    BY <1>8, <2>1, <2>2, <2>3, <2>4 DEF Simulate
<1>9. CASE AssertSigned
  <2>0. preview.step = "assert_signed"
    BY <1>9 DEF AssertSigned, At
  <2>1. CASE Unavailable
    BY <2>0, <2>1, UnavailableKeeps DEF Steps
  <2>2. CASE Moves("assert_fresh")
    BY <1>0, <2>0, <2>2, MovesKeeps DEF Steps, Established, SignedSteps, FreshSteps,
                                        ReadSteps, AgreedSteps
  <2>3. QED
    BY <1>9, <2>1, <2>2 DEF AssertSigned
<1>10. CASE AssertFresh
  <2>0. preview.step = "assert_fresh"
    BY <1>10 DEF AssertFresh, At
  <2>1. CASE Unavailable
    BY <2>0, <2>1, UnavailableKeeps DEF Steps
  <2>2. CASE Ends("pass", None)
    BY <2>0, <2>2, EndsKeeps DEF AgreedSteps, Outcomes, Codes
  <2>3. QED
    BY <1>10, <2>1, <2>2 DEF AssertFresh
<1>11. CASE NodeFails
  BY <1>11, UnavailableKeeps DEF NodeFails
<1>12. CASE Lagging
  BY <1>12, PropagationKeeps DEF Lagging, SignedSteps
<1>13. QED
  BY <1>1, <1>2, <1>3, <1>4, <1>5, <1>6, <1>7, <1>8, <1>9, <1>10, <1>11, <1>12 DEF Gate

LEMMA StutterKeeps == PreviewInv /\ UNCHANGED vars => PreviewInv'
BY DEF PreviewInv, Accepted, Established, Passed, Honest, SameState, PlanPolicy, vars

THEOREM PreviewInvariant == Spec => []PreviewInv
<1>1. PreviewInv /\ [Next]_vars => PreviewInv'
  <2> SUFFICES ASSUME PreviewInv, [Next]_vars PROVE PreviewInv'
    OBVIOUS
  <2>1. CASE Mine \/ Reorganize
    BY <2>1, ChainKeeps
  <2>2. CASE \E b \in Blocks : \E claim \in Claims(b) : Sign(claim)
    BY <2>2, SignKeeps
  <2>3. CASE Gate
    BY <2>3, GateKeeps
  <2>4. CASE UNCHANGED vars
    BY <2>4, StutterKeeps
  <2>5. QED
    BY <2>1, <2>2, <2>3, <2>4 DEF Next
<1>2. QED
  BY InitEstablishes, <1>1, PTL DEF Spec

-----------------------------------------------------------------------------
(* What a pass means, and what the four programs agree on.                 *)

\* A preview that passed agrees with both blocks, for every chain, every scene and
\* every interleaving of blocks and branches with the requests.
THEOREM PassesAgree == Spec => []PassIsOfBothStates
<1>1. PreviewInv => PassIsOfBothStates
  <2> SUFFICES ASSUME PreviewInv, Passed PROVE PassIsOfBothStates
    BY DEF PassIsOfBothStates
  <2>1. /\ Honest(task) /\ preview.fresh \in Blocks /\ preview.fresh[1] + Depth <= height
        /\ world[preview.fresh].fault = None /\ SameState(preview.fresh)
        /\ PlanPolicy(world[preview.fresh]) = "pass"
    BY DEF PreviewInv, Established
  <2>2. Within(task.proposal.range, policy)
    BY DEF PreviewInv, Accepted, Signable, Passed
  <2>3. /\ world[preview.fresh].authority # "none" /\ world[preview.fresh].allowance
        /\ Deliverable(policy, world[preview.fresh].position, task.proposal,
                       world[preview.fresh].tick)
    BY <2>1 DEF PlanPolicy
  <2>4. QED
    BY <2>1, <2>2, <2>3 DEF PassIsOfBothStates, SameState, Deliverable
<1>2. QED
  BY <1>1, PreviewInvariant, PTL

\* What is previewed is the aligned range nearest the signed tick, whatever the
\* mandate and the spacing.
THEOREM SignedRangesAreNearest == Spec => []SignedRangeIsNearest
<1>1. PreviewInv => SignedRangeIsNearest
  <2> SUFFICES ASSUME PreviewInv, task # None
               PROVE  NearestOf(task.proposal.range, task.proposal.tick, policy.width, Spacing)
    BY DEF SignedRangeIsNearest
  <2>1. /\ task.proposal.tick \in Int
        /\ task.proposal.range = Nearest(task.proposal.tick, policy.width, Spacing)
    BY DEF PreviewInv, Accepted, Established, Signable
  <2>2. policy.width \in Int /\ Spacing \in Int /\ Spacing > 0
    BY PolicyTypes, PreviewAssumption DEF PreviewInv
  <2>3. QED
    BY <2>1, <2>2, NearestIsNearest
<1>2. QED
  BY <1>1, PreviewInvariant, PTL

\* Agent and verifier agree on every offer, whatever the tick and the mandate.
THEOREM EveryOfferIsSignable == Spec => []OffersAreSignable
<1>1. PreviewInv => OffersAreSignable
  <2> SUFFICES ASSUME PreviewInv, NEW b \in Blocks, Aligned(world[b].position, Spacing),
                      Offers(policy, Spacing, world[b].position, world[b].tick)
               PROVE  Signable(policy, Spacing, world[b].position,
                               Proposal(policy, Spacing, world[b].position, world[b].tick))
    BY DEF OffersAreSignable
  <2> DEFINE tick == world[b].tick
             range == Nearest(tick, policy.width, Spacing)
  <2>1. tick \in Int /\ policy.width \in Int /\ policy.width > 0 /\ Spacing \in Int
        /\ Spacing > 0
    BY SceneAssumption, TickAssumption, PolicyTypes, PreviewAssumption DEF PreviewInv
  <2>2. /\ range.lower \in Int /\ range.lower % Spacing = 0
        /\ range = Range(range.lower, range.lower + policy.width)
    BY <2>1, NearestBounds
  <2>3. range.upper = range.lower + policy.width
    BY <2>2 DEF Range
  <2>4. policy.width % Spacing = 0
    BY DEF Offers
  <2>5. range.upper % Spacing = 0
    <3> HIDE DEF range
    <3>1. QED
      BY <2>1, <2>2, <2>3, <2>4, SumOfMultiples
  <2>6. Holds(range, tick) /\ Within(range, policy)
    BY DEF Offers
  <2>7. Fired(policy, world[b].position, tick)
    BY DEF Offers
  <2>8. /\ range.lower < range.upper /\ range.upper - range.lower = policy.width
        /\ Aligned(range, Spacing)
    <3> HIDE DEF range
    <3>1. QED
      BY <2>1, <2>2, <2>3, <2>5 DEF Aligned
  <2>9. Proposal(policy, Spacing, world[b].position, tick) =
          [range |-> range, tick |-> tick, reason |-> Reason(world[b].position, tick),
           distance |-> Distance(world[b].position, tick)]
    BY DEF Proposal
  <2> HIDE DEF range, tick
  <2>10. QED
    BY <2>4, <2>6, <2>7, <2>8, <2>9 DEF Signable, range, tick
<1>2. QED
  BY <1>1, PreviewInvariant, PTL

\* Verifier, issuer and core agree on what passed: the drift of the tick is the only
\* thing the core can still find.
THEOREM DriftIsAllThatIsFound == Spec => []OnlyDriftIsFound
<1>1. PreviewInv => OnlyDriftIsFound
  <2> SUFFICES ASSUME PreviewInv, Passed PROVE OnlyDriftIsFound
    BY DEF OnlyDriftIsFound
  <2> DEFINE tick == world[preview.fresh].tick
             position == world[preview.fresh].position
             range == task.proposal.range
  <2>1. /\ preview.fresh \in Blocks /\ SameState(preview.fresh)
        /\ Deliverable(policy, position, task.proposal, tick)
    BY DEF PreviewInv, Established, PlanPolicy
  <2>2. /\ tick \in Int /\ policy.width \in Nat /\ Spacing \in Int /\ Spacing > 0
        /\ range \in [lower : Int, upper : Int]
    BY <2>1, SceneAssumption, TickAssumption, PreviewAssumption
       DEF PreviewInv, Accepted, Passed
  <2>3. /\ range.lower < range.upper /\ Within(range, policy)
        /\ policy.width % Spacing = 0 /\ Aligned(range, Spacing)
        /\ Aligned(task.position, Spacing)
    BY DEF PreviewInv, Accepted, Passed, Signable
  <2>4. position = task.position
    BY <2>1 DEF SameState
  <2>5. Fired(policy, position, tick) /\ Holds(range, tick)
    BY <2>1 DEF Deliverable
  <2>6. range = Nearest(tick, policy.width, Spacing) <=>
        NearestOf(range, tick, policy.width, Spacing)
    <3> HIDE DEF range, tick
    <3>1. policy.width \in Int
      BY <2>2
    <3>2. QED
      BY <2>2, <3>1, NearestIsNearest, NearestIsUnique
  <2>7. /\ Attested.tick = tick /\ Attested.position = position /\ Attested.range = range
        /\ Attested.fired = TRUE /\ Attested.reason = Reason(position, tick)
        /\ Attested.distance = Distance(position, tick)
    BY DEF Attested, Evidence
  <2> HIDE DEF tick, position, range
  <2>8. Findings = IF range = Nearest(tick, policy.width, Spacing)
                   THEN {} ELSE {"TARGET_WIDTH_MISMATCH"}
    BY <2>3, <2>4, <2>5, <2>7, <2>2 DEF Findings, RangeFindings
  <2>9. QED
    BY <2>6, <2>8 DEF OnlyDriftIsFound, tick, range
<1>2. QED
  BY <1>1, PreviewInvariant, PTL

\* The three programs that compute ranges agree, at every tick, width and spacing.
THEOREM AllRangesAgree == Spec => []RangesAgree
BY SignedRangesAreNearest, EveryOfferIsSignable, DriftIsAllThatIsFound, PTL DEF RangesAgree

-----------------------------------------------------------------------------
(* Which chain the fresh block is of.                                     *)

\* How often the chain has changed its branch by the time of each look, when the fresh
\* block is not on the branch of the signed one.
Apart == preview.fresh[1] >= ForkAt /\ preview.fresh[2] # task.block[2]
Turns ==
    task.block[1] >= ForkAt =>
        /\ preview.step \in SignedSteps /\ branch # task.block[2] => forks >= 1
        /\ preview.step \in FreshSteps /\ Apart =>
              forks >= (IF branch = preview.fresh[2] THEN 1 ELSE 2)
        /\ preview.step = "assert_fresh" /\ Apart =>
              forks >= (IF branch = preview.fresh[2] THEN 3 ELSE 2)
        /\ Passed /\ Apart => forks >= 3

TurnsInv == PreviewInv /\ forks \in Nat /\ Turns

LEMMA CanonicalIsOfTheBranch ==
  ASSUME NEW block, Canonical(block), block[1] >= ForkAt, block[1] \in Nat
  PROVE  block[2] = branch
<1>1. ~(block[1] < ForkAt)
  BY PreviewAssumption
<1>2. block = <<block[1], branch>>
  BY <1>1 DEF Canonical, Block
<1>3. QED
  BY <1>2

LEMMA ChainTurns == TurnsInv /\ (Mine \/ Reorganize) => Turns'
<1> SUFFICES ASSUME TurnsInv, Mine \/ Reorganize PROVE Turns'
  OBVIOUS
<1>1. UNCHANGED <<task, preview>> /\ (Passed' = Passed) /\ (Apart' = Apart)
  BY DEF Mine, Reorganize, Passed, Apart
<1>2. CASE Mine
  BY <1>1, <1>2 DEF TurnsInv, Turns, Mine
<1>3. CASE Reorganize
  BY <1>1, <1>3 DEF TurnsInv, Turns, Reorganize, FreshSteps, SignedSteps
<1>4. QED
  BY <1>2, <1>3

LEMMA SignTurns ==
  ASSUME NEW claim, Sign(claim)
  PROVE  Turns'
<1>1. preview'.step = "signed_header" /\ ~Passed'
  BY DEF Sign, NoPreview, Passed
<1>2. QED
  BY <1>1 DEF Turns, SignedSteps, FreshSteps

\* A step of the gate leaves the branch alone.
LEMMA EndsTurns ==
  ASSUME TurnsInv, NEW outcome, NEW code, Ends(outcome, code),
         outcome = "pass" /\ task.block[1] >= ForkAt /\ Apart => forks >= 3
  PROVE  Turns'
<1>1. preview \in Previews
  BY DEF TurnsInv, PreviewInv
<1>2. /\ preview' = [preview EXCEPT !.step = "done",
                                   !.result = [outcome |-> outcome, code |-> code]]
      /\ UNCHANGED <<branch, forks, task>>
  BY DEF Ends, Goes, chainVars
<1>3. /\ preview'.step = "done" /\ preview'.result = [outcome |-> outcome, code |-> code]
      /\ preview'.fresh = preview.fresh
  BY <1>1, <1>2 DEF Previews
<1>4. (Passed' => outcome = "pass") /\ (Apart' <=> Apart)
  BY <1>2, <1>3 DEF Passed, Apart
<1>5. QED
  BY <1>2, <1>3, <1>4 DEF Turns, SignedSteps, FreshSteps

LEMMA MovesTurns ==
  ASSUME TurnsInv, NEW step \in Steps \ {"idle", "done"}, Moves(step),
         task.block[1] >= ForkAt =>
           /\ step \in SignedSteps /\ branch # task.block[2] => forks >= 1
           /\ step \in FreshSteps /\ Apart =>
                 forks >= (IF branch = preview.fresh[2] THEN 1 ELSE 2)
           /\ step = "assert_fresh" /\ Apart =>
                 forks >= (IF branch = preview.fresh[2] THEN 3 ELSE 2)
  PROVE  Turns'
<1>1. preview \in Previews
  BY DEF TurnsInv, PreviewInv
<1>2. /\ preview' = [preview EXCEPT !.step = step]
      /\ UNCHANGED <<branch, forks, task>>
  BY DEF Moves, Goes, chainVars
<1>3. preview'.step = step /\ preview'.fresh = preview.fresh
  BY <1>1, <1>2 DEF Previews
<1>4. ~Passed' /\ (Apart' <=> Apart)
  BY <1>2, <1>3 DEF Passed, Apart
<1>5. QED
  BY <1>2, <1>3, <1>4 DEF Turns

\* Going to a step at which there is no fresh block yet.
LEMMA HeadTurns ==
  ASSUME TurnsInv, UNCHANGED <<branch, forks, task>>,
         preview'.step \in {"fresh_head", "fresh_header"},
         task.block[1] >= ForkAt /\ branch # task.block[2] => forks >= 1
  PROVE  Turns'
<1>1. ~Passed' /\ preview'.step \notin FreshSteps /\ preview'.step # "assert_fresh"
  BY DEF Passed, FreshSteps
<1>2. QED
  BY <1>1 DEF Turns

LEMMA UnavailableTurns == TurnsInv /\ Unavailable => Turns'
BY EndsTurns DEF Unavailable

LEMMA FaultTurns ==
  ASSUME TurnsInv, NEW fault, NEW code, StateFault(fault, code)
  PROVE  Turns'
<1> DEFINE shown == CASE fault = "AGENT_OWNER_MISMATCH" -> "IDENTITY_OWNER_MISMATCH"
                      [] fault = "PROVIDER_NOT_EOA" -> "CALLER_NOT_EOA"
                      [] OTHER -> code
<1>1. Ends("invalid", shown)
  BY DEF StateFault
<1> HIDE DEF shown
<1>2. QED
  BY <1>1, EndsTurns

LEMMA PropagationTurns ==
  ASSUME TurnsInv, preview.step \in SignedSteps, Propagation
  PROVE  Turns'
<1>1. CASE Unavailable
  BY <1>1, UnavailableTurns
<1>2. CASE Goes([preview EXCEPT !.step = "fresh_head", !.attempt = 2, !.fresh = None])
  <2>1. preview' = [preview EXCEPT !.step = "fresh_head", !.attempt = 2, !.fresh = None]
        /\ UNCHANGED <<branch, forks, task>>
    BY <1>2 DEF Goes, chainVars
  <2>2. preview'.step = "fresh_head"
    BY <2>1 DEF TurnsInv, PreviewInv, Previews
  <2>3. QED
    BY <2>1, <2>2, HeadTurns DEF TurnsInv, Turns
<1>3. QED
  BY <1>1, <1>2 DEF Propagation

LEMMA GateTurns == TurnsInv /\ Gate => Turns'
<1> SUFFICES ASSUME TurnsInv, Gate PROVE Turns'
  OBVIOUS
<1>0. /\ preview \in Previews /\ forks \in Nat /\ Turns /\ Established /\ Accepted
      /\ ForkAt \in Nat
  BY PreviewAssumption DEF TurnsInv, PreviewInv
<1>t. preview.step # "idle" => task.block[1] \in Nat
  BY <1>0 DEF Accepted, Blocks
<1>f. preview.step \in FreshSteps => preview.fresh[1] \in Nat
  BY <1>0 DEF Established, Blocks
<1>1. CASE SignedHeader
  <2>1. CASE Moves("signed_read")
    BY <2>1, MovesTurns DEF Steps, SignedSteps, FreshSteps
  <2>2. QED
    BY <1>1, <2>1, UnavailableTurns DEF SignedHeader
<1>2. CASE SignedRead
  <2>1. CASE Moves("signed_final")
    BY <2>1, MovesTurns DEF Steps, SignedSteps, FreshSteps
  <2>2. QED
    BY <1>2, <2>1, UnavailableTurns, FaultTurns DEF SignedRead
<1>3. CASE SignedFinal
  <2>1. CASE /\ Canonical(task.block) /\ preview.step = "signed_final"
             /\ Goes([preview EXCEPT !.step = "fresh_head", !.attempt = 1])
    <3>1. preview' = [preview EXCEPT !.step = "fresh_head", !.attempt = 1]
          /\ UNCHANGED <<branch, forks, task>>
      BY <2>1 DEF Goes, chainVars
    <3>2. preview'.step = "fresh_head"
      BY <1>0, <3>1 DEF Previews
    <3>3. task.block[1] >= ForkAt => branch = task.block[2]
      BY <1>t, <2>1, CanonicalIsOfTheBranch
    <3>4. QED
      BY <3>1, <3>2, <3>3, HeadTurns
  <2>2. QED
    BY <1>3, <2>1, UnavailableTurns, EndsTurns DEF SignedFinal, At
<1>4. CASE FreshHead
  <2>0. preview.step = "fresh_head"
    BY <1>4 DEF FreshHead, At
  <2>1. PICK seen \in {height - 1, height} \cap Nat :
            IF seen < Depth THEN Unavailable
            ELSE Goes([preview EXCEPT !.step = "fresh_header", !.target = seen - Depth])
    BY <1>4 DEF FreshHead
  <2>2. CASE Goes([preview EXCEPT !.step = "fresh_header", !.target = seen - Depth])
    <3>1. preview' = [preview EXCEPT !.step = "fresh_header", !.target = seen - Depth]
          /\ UNCHANGED <<branch, forks, task>>
      BY <2>2 DEF Goes, chainVars
    <3>2. preview'.step = "fresh_header"
      BY <1>0, <3>1 DEF Previews
    <3>3. QED
      BY <1>0, <2>0, <3>1, <3>2, HeadTurns DEF Turns, SignedSteps
  <2>3. QED
    BY <2>1, <2>2, UnavailableTurns
<1>5. CASE FreshHeader
  <2>1. /\ preview' = [preview EXCEPT !.step = "fresh_read", !.fresh = Block(preview.target)]
        /\ UNCHANGED <<branch, forks, task>> /\ preview.step = "fresh_header"
    BY <1>5 DEF FreshHeader, At, Goes, chainVars
  <2>2. preview'.step = "fresh_read" /\ preview'.fresh = Block(preview.target)
        /\ preview.target \in Nat
    BY <1>0, <2>1 DEF Previews
  <2>3. preview'.fresh[1] >= ForkAt => preview'.fresh[2] = branch
    <3>1. Block(preview.target)[1] = preview.target
      BY DEF Block
    <3>2. preview.target >= ForkAt => Block(preview.target)[2] = branch
      BY <1>0, <2>2 DEF Block
    <3>3. QED
      BY <2>2, <3>1, <3>2
  <2>4. ~Passed'
    BY <2>2 DEF Passed
  <2>5. Apart' => preview'.fresh[2] = branch /\ branch # task.block[2]
    BY <2>1, <2>3 DEF Apart
  <2>6. task.block[1] >= ForkAt /\ branch # task.block[2] => forks >= 1
    BY <1>0, <2>1 DEF Turns, SignedSteps
  <2>7. QED
    BY <2>1, <2>2, <2>4, <2>5, <2>6 DEF Turns
<1>6. CASE FreshRead
  <2>0. preview.step = "fresh_read" /\ preview.step \in SignedSteps
    BY <1>6 DEF FreshRead, At, SignedSteps
  <2>1. CASE Moves("fresh_final")
    BY <1>0, <2>0, <2>1, MovesTurns DEF Turns, Steps, SignedSteps, FreshSteps
  <2>2. QED
    BY <1>6, <2>0, <2>1, PropagationTurns, FaultTurns DEF FreshRead
<1>7. CASE FreshFinal
  <2>0. preview.step = "fresh_final" /\ preview.step \in SignedSteps
    BY <1>7 DEF FreshFinal, At, SignedSteps
  <2>1. CASE Moves("simulate")
    BY <1>0, <2>0, <2>1, MovesTurns DEF Turns, Steps, SignedSteps, FreshSteps
  <2>2. CASE Ends("invalid", "PREVIEW_STATE_INVALID")
    BY <2>2, EndsTurns
  <2>3. CASE Ends("invalid", PlanPolicy(world[preview.fresh]))
    BY <2>3, EndsTurns
  <2>4. QED
    BY <1>7, <2>0, <2>1, <2>2, <2>3, PropagationTurns DEF FreshFinal
<1>8. CASE Simulate
  <2>0. preview.step = "simulate"
    BY <1>8 DEF Simulate, At
  <2>1. CASE Moves("assert_signed")
    BY <1>0, <2>0, <2>1, MovesTurns DEF Turns, Steps, SignedSteps, FreshSteps
  <2>2. CASE Ends("invalid", "EVM_SIMULATION_REVERTED")
    BY <2>2, EndsTurns
  <2>3. CASE Ends("invalid", "EVM_SIMULATION_INVALID")
    BY <2>3, EndsTurns
  <2>4. QED
    BY <1>8, <2>1, <2>2, <2>3, UnavailableTurns DEF Simulate
<1>9. CASE AssertSigned
  <2>0. preview.step = "assert_signed"
    BY <1>9 DEF AssertSigned, At
  <2>1. CASE Canonical(task.block) /\ Moves("assert_fresh")
    <3>1. task.block[1] >= ForkAt => branch = task.block[2]
      BY <1>t, <2>0, <2>1, CanonicalIsOfTheBranch
    <3>2. task.block[1] >= ForkAt /\ Apart => branch # preview.fresh[2] /\ forks >= 2
      BY <1>0, <2>0, <3>1 DEF Turns, FreshSteps, Apart
    <3>3. QED
      BY <1>0, <2>1, <3>1, <3>2, MovesTurns DEF Steps
  <2>2. QED
    BY <1>9, <2>1, UnavailableTurns DEF AssertSigned
<1>10. CASE AssertFresh
  <2>0. preview.step = "assert_fresh" /\ preview.step \in FreshSteps
    BY <1>10 DEF AssertFresh, At, FreshSteps
  <2>1. CASE Canonical(preview.fresh) /\ Ends("pass", None)
    <3>1. preview.fresh[1] >= ForkAt => branch = preview.fresh[2]
      BY <1>f, <2>0, <2>1, CanonicalIsOfTheBranch
    <3>2. task.block[1] >= ForkAt /\ Apart => forks >= 3
      BY <1>0, <2>0, <3>1 DEF Turns, Apart
    <3>3. QED
      BY <2>1, <3>2, EndsTurns
  <2>2. QED
    BY <1>10, <2>1, UnavailableTurns DEF AssertFresh
<1>11. CASE NodeFails
  BY <1>11, UnavailableTurns DEF NodeFails
<1>12. CASE Lagging
  BY <1>12, PropagationTurns DEF Lagging, SignedSteps
<1>13. QED
  BY <1>1, <1>2, <1>3, <1>4, <1>5, <1>6, <1>7, <1>8, <1>9, <1>10, <1>11, <1>12 DEF Gate

LEMMA InitTurns == Init => TurnsInv
<1> SUFFICES ASSUME Init PROVE TurnsInv
  OBVIOUS
<1>1. PreviewInv
  BY InitEstablishes
<1>2. preview.step = "idle" /\ ~Passed /\ forks = 0
  BY DEF Init, NoPreview, Passed
<1>3. QED
  BY <1>1, <1>2 DEF TurnsInv, Turns, SignedSteps, FreshSteps

LEMMA NextTurns == TurnsInv /\ [Next]_vars => TurnsInv'
<1> SUFFICES ASSUME TurnsInv, [Next]_vars PROVE TurnsInv'
  OBVIOUS
<1>1. CASE Mine \/ Reorganize
  <2>1. forks' \in Nat
    BY <1>1 DEF TurnsInv, Mine, Reorganize
  <2>2. QED
    BY <1>1, <2>1, ChainKeeps, ChainTurns DEF TurnsInv
<1>2. CASE \E b \in Blocks : \E claim \in Claims(b) : Sign(claim)
  <2>1. PICK b \in Blocks : \E claim \in Claims(b) : Sign(claim)
    BY <1>2
  <2>2. PICK claim \in Claims(b) : Sign(claim)
    BY <2>1
  <2>3. PreviewInv' /\ Turns'
    BY <2>2, SignKeeps, SignTurns DEF TurnsInv
  <2>4. forks' \in Nat
    BY <2>2 DEF TurnsInv, Sign, chainVars
  <2>5. QED
    BY <2>3, <2>4 DEF TurnsInv
<1>3. CASE Gate
  <2>1. UNCHANGED forks
    <3>1. \A r : Goes(r) => UNCHANGED forks
      BY DEF Goes, chainVars
    <3>2. (\A o, c : Ends(o, c) => UNCHANGED forks) /\ (\A z : Moves(z) => UNCHANGED forks)
      BY <3>1 DEF Ends, Moves
    <3>3. Unavailable \/ Propagation => UNCHANGED forks
      BY <3>1, <3>2 DEF Unavailable, Propagation
    <3>4. \A x, y : StateFault(x, y) => UNCHANGED forks
      BY <3>2 DEF StateFault
    <3>5. QED
      BY <1>3, <3>1, <3>2, <3>3, <3>4 DEF Gate, SignedHeader, SignedRead, SignedFinal,
         FreshHead, FreshHeader, FreshRead, FreshFinal, Simulate, AssertSigned, AssertFresh,
         NodeFails, Lagging
  <2>2. QED
    BY <1>3, <2>1, GateKeeps, GateTurns DEF TurnsInv
<1>4. CASE UNCHANGED vars
  <2>1. UNCHANGED <<branch, forks, task, preview>>
    BY <1>4 DEF vars, chainVars
  <2>2. (Passed' <=> Passed) /\ (Apart' <=> Apart)
    BY <2>1 DEF Passed, Apart
  <2>3. Turns' /\ forks' \in Nat
    BY <2>1, <2>2 DEF TurnsInv, Turns
  <2>4. QED
    BY <1>4, <2>3, StutterKeeps DEF TurnsInv
<1>5. QED
  BY <1>1, <1>2, <1>3, <1>4 DEF Next

LEMMA TurnsDescend == TurnsInv => FreshDescendsFromSigned
<1> SUFFICES ASSUME TurnsInv, Passed, forks <= 2
             PROVE  Descends(preview.fresh, task.block)
  BY DEF FreshDescendsFromSigned
<1>1. preview.fresh \in Blocks /\ SameState(preview.fresh) /\ task.block \in Blocks
  BY DEF TurnsInv, PreviewInv, Established, Accepted, Passed
<1>2. preview.fresh[1] \in Nat /\ task.block[1] \in Nat /\ preview.fresh[1] >= task.block[1]
      /\ ForkAt \in Nat /\ forks \in Nat
  BY <1>1, PreviewAssumption DEF SameState, Blocks, TurnsInv
<1>3. CASE task.block[1] < ForkAt
  BY <1>2, <1>3 DEF Descends
<1>4. CASE task.block[1] >= ForkAt
  <2>1. ~Apart
    BY <1>1, <1>2, <1>4 DEF TurnsInv, Turns
  <2>2. preview.fresh[2] = task.block[2]
    BY <1>2, <1>4, <2>1 DEF Apart
  <2>3. QED
    BY <1>2, <2>2 DEF Descends
<1>5. QED
  BY <1>2, <1>3, <1>4

\* The two looks after the simulation make the fresh block a descendant of the signed one,
\* unless the chain changed branch three times, at whatever heights and on however many
\* branches (runPreviewGate).
THEOREM FreshBlocksDescend == Spec => []FreshDescendsFromSigned
BY InitTurns, NextTurns, TurnsDescend, PTL DEF Spec

-----------------------------------------------------------------------------
(* The adapters.                                                           *)

LEMMA Widths ==
  /\ WordMax \in Nat /\ WordMax > 0 /\ WordBytes \in Nat /\ WordBytes > 0
  /\ Scale \in Nat /\ Scale > 0 /\ DecimalMax \in Nat /\ MarketsMax \in Nat
  /\ Uint160Max \in Nat
  /\ WordMax \div 2 \in Int /\ WordMax = 2 * (WordMax \div 2) + 1
  /\ V3Ticks \subseteq Int24 /\ V3Sqrt \subseteq 0..Uint160Max
  /\ Int24 \subseteq -(WordMax \div 2) - 1..WordMax \div 2
<1>1. /\ {WordMax, WordBytes, Scale, DecimalMax, MarketsMax, Uint160Max} \subseteq Nat \ {0}
      /\ WordMax % 2 = 1
      /\ V3Ticks \subseteq Int24 /\ V3Sqrt \subseteq 0..Uint160Max
      /\ Int24 \subseteq -(WordMax \div 2) - 1..WordMax \div 2
  BY EvaluationAssumption DEF Evaluations!WidthAssumption
<1>2. WordMax \in Int /\ 2 \in Int /\ 2 > 0
  BY <1>1
<1>3. WordMax \div 2 \in Int /\ WordMax % 2 = WordMax - 2 * (WordMax \div 2)
  BY <1>2, Division, Modulo
<1>4. QED
  BY <1>1, <1>3

\* The sign of a word is decoded as it is encoded.
LEMMA SignedInverts ==
  /\ \A w \in 0..WordMax : /\ Evaluations!Signed(w) \in Int
                           /\ w = Evaluations!Signed(w) % (WordMax + 1)
  /\ \A w \in 0..WordMax, t \in V3Ticks :
        w = t % (WordMax + 1) => Evaluations!Signed(w) = t
<1> DEFINE h == WordMax \div 2
           m == WordMax + 1
<1>1. /\ h \in Int /\ m = 2 * h + 2 /\ m \in Int /\ m > 0
      /\ V3Ticks \subseteq -h - 1..h
  BY Widths
<1>2. \A w \in 0..WordMax : Evaluations!Signed(w) = IF w > h THEN w - m ELSE w
  BY DEF Evaluations!Signed
<1> HIDE DEF h
<1>3. ASSUME NEW r \in Int, 0 <= r, r < m
      PROVE  r % m = r /\ (r - m) % m = r
  <2>1. r \div m = 0
    <3>1. /\ r \div m \in Int /\ m * (r \div m) <= r /\ r < m * (r \div m) + m
      BY <1>1, <1>3, Division
    <3> DEFINE q == r \div m
    <3>2. q \in Int /\ m * q <= r /\ r < m * q + m
      BY <3>1
    <3> HIDE DEF q, m
    <3>3. CASE q >= 1
      BY <1>1, <1>3, <3>2, <3>3, m * q >= m * 1
    <3>4. CASE q <= -1
      BY <1>1, <1>3, <3>2, <3>4, m * q <= m * (-1)
    <3>5. QED
      BY <3>2, <3>3, <3>4 DEF q
  <2>2. (r - m) \div m = -1
    <3> DEFINE q == (r - m) \div m
    <3>1. q \in Int /\ m * q <= r - m /\ r - m < m * q + m
      BY <1>1, <1>3, Division
    <3> HIDE DEF q, m
    <3>3. CASE q >= 0
      BY <1>1, <1>3, <3>1, <3>3, m * q >= m * 0
    <3>4. CASE q <= -2
      BY <1>1, <1>3, <3>1, <3>4, m * q <= m * (-2)
    <3>5. QED
      BY <3>1, <3>3, <3>4 DEF q
  <2>3. /\ r % m = r - m * (r \div m)
        /\ (r - m) % m = (r - m) - m * ((r - m) \div m)
    <3>1. r - m \in Int
      BY <1>1, <1>3
    <3> HIDE DEF m
    <3>2. r % m = r - m * (r \div m)
      BY <1>1, <1>3, Modulo
    <3>3. (r - m) % m = (r - m) - m * ((r - m) \div m)
      BY <1>1, <3>1, Modulo
    <3>4. QED
      BY <3>2, <3>3
  <2> HIDE DEF m
  <2>4. QED
    BY <1>1, <1>3, <2>1, <2>2, <2>3
<1>4. \A w \in 0..WordMax : /\ Evaluations!Signed(w) \in Int
                            /\ w = Evaluations!Signed(w) % m
  <2> TAKE w \in 0..WordMax
  <2>1. w \in Int /\ 0 <= w /\ w < m
    BY Widths
  <2>2. w % m = w /\ (w - m) % m = w
    BY <2>1, <1>3
  <2> HIDE DEF m
  <2>3. QED
    BY <1>1, <1>2, <2>1, <2>2
<1>5. \A w \in 0..WordMax, t \in V3Ticks : w = t % m => Evaluations!Signed(w) = t
  <2> SUFFICES ASSUME NEW w \in 0..WordMax, NEW t \in V3Ticks, w = t % m
               PROVE  Evaluations!Signed(w) = t
    OBVIOUS
  <2>0. t \in Int /\ -h - 1 <= t /\ t <= h
    BY <1>1
  <2>1. CASE t >= 0
    <3>1. t < m
      BY <1>1, <2>0, <2>1
    <3>2. t % m = t
      BY <1>3, <2>0, <2>1, <3>1
    <3> HIDE DEF m
    <3>3. QED
      BY <1>1, <1>2, <2>0, <3>2
  <2>2. CASE t < 0
    <3>1. t + m \in Int /\ 0 <= t + m /\ t + m < m /\ t = (t + m) - m /\ t + m > h
      BY <1>1, <2>0, <2>2
    <3>2. ((t + m) - m) % m = t + m
      BY <1>3, <3>1
    <3> HIDE DEF m
    <3>3. QED
      BY <1>1, <1>2, <2>0, <3>1, <3>2
  <2>3. QED
    BY <2>0, <2>1, <2>2
<1>6. QED
  BY <1>4, <1>5

\* A rounded quotient reaches an integer exactly when the exact one does.
LEMMA RoundedReaches ==
  ASSUME NEW x \in Int, NEW s \in Int, s > 0, NEW lower \in Int
  PROVE  x \div s >= lower <=> x >= lower * s
<1> DEFINE q == x \div s
<1>1. q \in Int /\ s * q <= x /\ x < s * q + s
  BY Division
<1> HIDE DEF q
<1>2. CASE q >= lower
  BY <1>1, <1>2, s * q >= s * lower DEF q
<1>3. CASE q + 1 <= lower
  BY <1>1, <1>3, s * (q + 1) <= s * lower DEF q
<1>4. QED
  BY <1>1, <1>2, <1>3

\* Data that is neither missing nor ragged is words.
LEMMA Worded ==
  ASSUME NEW d \in Evaluations!Data, d # None, d # Ragged
  PROVE  /\ d \in Seq(0..WordMax) /\ Len(d) \in Nat
         /\ \A i \in 1..Len(d) : d[i] \in 0..WordMax /\ d[i] \in Int
         /\ Evaluations!WordCount(d) = Len(d)
<1>1. d \in Seq(0..WordMax)
  BY DEF Evaluations!Data
<1>2. QED
  BY <1>1, Widths DEF Evaluations!WordCount

\* What is asked of the judgement of a scope: a pass is an established metric within the
\* mandate, a fail one outside it, an established one is judged, and the artifact schema
\* takes the verdict and takes no fail for a pass.
JudgesWell(s, reads) ==
    LET v == Evaluations!Judge(s, reads) IN
    /\ v.status \in {"pass", "fail", "unknown", "throws"}
    /\ v.status = "pass" => Evaluations!Established(s, reads) /\ Evaluations!Satisfied(s, reads)
    /\ v.status = "fail" => Evaluations!Established(s, reads) /\ ~Evaluations!Satisfied(s, reads)
    /\ Evaluations!Established(s, reads) => v.status # "unknown"
    /\ v.status # "throws" => Evaluations!ArtifactAccepts(s, v, reads)
    /\ v.status = "fail" => ~Evaluations!PassRule(s, reads)
    /\ v.status = "throws" => v = Evaluations!Throws

LEMMA LabelsAre ==
  /\ Evaluations!LabelsOf("grid") = {"slot0"}
  /\ Evaluations!LabelsOf("yield") = {"totalAssets", "totalSupply"}
  /\ Evaluations!LabelsOf("aave") = {"getUserAccountData"}
  /\ Evaluations!LabelsOf("venus") = {"getAccountLiquidity", "getAssetsIn", "borrowBalanceStored"}
BY SMTT(20) DEF Evaluations!LabelsOf, Evaluations!ReadsOf

\* A refusal to judge is in order when nothing is established and its code says whether a
\* read is missing.
LEMMA UnknownIsWell ==
  ASSUME NEW s, NEW reads, NEW code \in Evaluations!UnknownCodes(s.adapter),
         Evaluations!Judge(s, reads) = Evaluations!Unknown(code),
         ~Evaluations!Established(s, reads),
         code = "READ_UNAVAILABLE" <=> \E l \in DOMAIN reads : reads[l] = None
  PROVE  JudgesWell(s, reads)
<1> DEFINE v == Evaluations!Judge(s, reads)
<1>1. v.status = "unknown" /\ v.code = code
  BY DEF Evaluations!Unknown
<1>2. Evaluations!ArtifactAccepts(s, v, reads)
  BY <1>1 DEF Evaluations!ArtifactAccepts
<1>3. QED
  BY <1>1, <1>2 DEF JudgesWell

LEMMA PassIsWell ==
  ASSUME NEW s, NEW reads, Evaluations!Judge(s, reads) = Evaluations!Pass,
         Evaluations!Established(s, reads), Evaluations!Satisfied(s, reads),
         Evaluations!PassRule(s, reads), \A l \in DOMAIN reads : reads[l] # None
  PROVE  JudgesWell(s, reads)
<1> DEFINE v == Evaluations!Judge(s, reads)
<1>1. v.status = "pass"
  BY DEF Evaluations!Pass
<1>2. Evaluations!ArtifactAccepts(s, v, reads)
  BY <1>1 DEF Evaluations!ArtifactAccepts
<1>3. QED
  BY <1>1, <1>2 DEF JudgesWell

LEMMA FailIsWell ==
  ASSUME NEW s, NEW reads, NEW code \in Evaluations!FailCodes(s.adapter),
         Evaluations!Judge(s, reads) = Evaluations!Fail(code),
         Evaluations!Established(s, reads), ~Evaluations!Satisfied(s, reads),
         ~Evaluations!PassRule(s, reads), \A l \in DOMAIN reads : reads[l] # None
  PROVE  JudgesWell(s, reads)
<1> DEFINE v == Evaluations!Judge(s, reads)
<1>1. v.status = "fail" /\ v.code = code
  BY DEF Evaluations!Fail
<1>2. Evaluations!ArtifactAccepts(s, v, reads)
  BY <1>1 DEF Evaluations!ArtifactAccepts
<1>3. QED
  BY <1>1, <1>2 DEF JudgesWell

LEMMA ThrowIsWell ==
  ASSUME NEW s, NEW reads, Evaluations!Judge(s, reads) = Evaluations!Throws
  PROVE  JudgesWell(s, reads)
<1>1. Evaluations!Judge(s, reads).status = "throws"
  BY DEF Evaluations!Throws
<1>2. QED
  BY <1>1 DEF JudgesWell

LEMMA GridJudgesWell ==
  ASSUME NEW s \in Evaluations!ValidScopes, s.adapter = "grid",
         NEW reads \in [Evaluations!LabelsOf("grid") -> Evaluations!Data]
  PROVE  JudgesWell(s, reads)
<1> DEFINE d == reads["slot0"]
           tick == Evaluations!Signed(d[2])
<1>1. DOMAIN reads = {"slot0"} /\ d \in Evaluations!Data
  BY LabelsAre
<1>2. Evaluations!Judge(s, reads) = Evaluations!Grid(s, reads)
  BY DEF Evaluations!Judge
<1>3. {"READ_UNAVAILABLE", "READ_RETURNDATA_MALFORMED", "GRID_TICK_UNINTERPRETABLE",
       "GRID_SQRT_PRICE_IMPLAUSIBLE"} = Evaluations!UnknownCodes(s.adapter)
  BY DEF Evaluations!UnknownCodes
<1>4. "GRID_SPOT_OUTSIDE_BAND" \in Evaluations!FailCodes(s.adapter)
  BY DEF Evaluations!FailCodes
<1>5. Evaluations!Established(s, reads) <=>
         /\ d \notin {None, Ragged} /\ Len(d) >= 2
         /\ d[1] \in V3Sqrt /\ \E t \in V3Ticks : d[2] = t % (WordMax + 1)
  BY DEF Evaluations!Established, Evaluations!SomeWords
<1>6. CASE d = None
  <2>1. Evaluations!Judge(s, reads) = Evaluations!Unknown("READ_UNAVAILABLE")
    BY <1>2, <1>6 DEF Evaluations!Grid
  <2>2. QED
    BY <1>1, <1>3, <1>5, <1>6, <2>1, UnknownIsWell
<1>7. CASE d # None /\ Evaluations!WordCount(d) < 2
  <2>1. Evaluations!Judge(s, reads) = Evaluations!Unknown("READ_RETURNDATA_MALFORMED")
    BY <1>2, <1>7 DEF Evaluations!Grid
  <2>2. ~Evaluations!Established(s, reads)
    <3>1. CASE d = Ragged
      BY <1>5, <3>1
    <3>2. CASE d # Ragged
      BY <1>1, <1>5, <1>7, <3>2, Worded
    <3>3. QED
      BY <3>1, <3>2
  <2>3. QED
    BY <1>1, <1>3, <1>7, <2>1, <2>2, UnknownIsWell
<1>8. CASE d # None /\ ~(Evaluations!WordCount(d) < 2)
  <2>1. d # Ragged
    BY <1>8 DEF Evaluations!WordCount
  <2>2. /\ Len(d) >= 2 /\ d[1] \in 0..WordMax /\ d[2] \in 0..WordMax
    BY <1>1, <1>8, <2>1, Worded
  <2>3. tick \in Int /\ d[2] = tick % (WordMax + 1)
    BY <2>2, SignedInverts
  <2>4. \A t \in V3Ticks : d[2] = t % (WordMax + 1) => tick = t
    BY <2>2, SignedInverts
  <2>5. /\ s.lower \in Int /\ s.upper \in Int
    BY DEF Evaluations!ValidScopes
  <2>6. (\E t \in V3Ticks : d[2] = t % (WordMax + 1)) <=> tick \in V3Ticks
    BY <2>3, <2>4
  <2>7. V3Ticks \subseteq Int24 /\ V3Sqrt \subseteq 0..Uint160Max /\ Uint160Max \in Nat
    BY Widths
  <2>8. \A p \in V3Sqrt : p \in Int /\ ~(p > Uint160Max)
    BY <2>7
  <2>9. Evaluations!Judge(s, reads) =
           IF tick \notin Int24 THEN Evaluations!Unknown("GRID_TICK_UNINTERPRETABLE")
           ELSE IF d[1] > Uint160Max \/ d[1] \notin V3Sqrt
                THEN Evaluations!Unknown("GRID_SQRT_PRICE_IMPLAUSIBLE")
           ELSE IF tick \notin V3Ticks THEN Evaluations!Unknown("GRID_TICK_UNINTERPRETABLE")
           ELSE IF tick \in s.lower..s.upper THEN Evaluations!Pass
           ELSE Evaluations!Fail("GRID_SPOT_OUTSIDE_BAND")
    BY <1>2, <1>8 DEF Evaluations!Grid
  <2> HIDE DEF tick, d
  <2>10. CASE ~(tick \in V3Ticks /\ d[1] \in V3Sqrt)
    <3>1. ~Evaluations!Established(s, reads)
      BY <1>5, <2>6, <2>10
    <3>2. \E code \in {"GRID_TICK_UNINTERPRETABLE", "GRID_SQRT_PRICE_IMPLAUSIBLE"} :
             Evaluations!Judge(s, reads) = Evaluations!Unknown(code)
      BY <2>9, <2>10
    <3>3. ~(\E l \in DOMAIN reads : reads[l] = None)
      BY <1>1, <1>8 DEF d
    <3>4. PICK code \in {"GRID_TICK_UNINTERPRETABLE", "GRID_SQRT_PRICE_IMPLAUSIBLE"} :
             Evaluations!Judge(s, reads) = Evaluations!Unknown(code)
      BY <3>2
    <3>5. code \in Evaluations!UnknownCodes(s.adapter) /\ code # "READ_UNAVAILABLE"
      BY <1>3
    <3>6. QED
      BY <3>1, <3>3, <3>4, <3>5, UnknownIsWell
  <2>11. CASE tick \in V3Ticks /\ d[1] \in V3Sqrt
    <3>1. Evaluations!Established(s, reads)
      BY <1>5, <1>8, <2>1, <2>2, <2>6, <2>11
    <3>2. Evaluations!TickOf(d) = tick
      BY <2>4, <2>6, <2>11 DEF Evaluations!TickOf
    <3>3. Evaluations!Satisfied(s, reads) <=> tick \in s.lower..s.upper
      BY <2>3, <2>5, <3>2 DEF Evaluations!Satisfied, d
    <3>4. Evaluations!PassRule(s, reads) <=> tick \in s.lower..s.upper
      BY <2>11 DEF Evaluations!PassRule, tick, d
    <3>5. \A l \in DOMAIN reads : reads[l] # None
      BY <1>1, <1>8 DEF d
    <3>6. tick \in Int24 /\ ~(d[1] > Uint160Max)
      BY <2>7, <2>8, <2>11
    <3>7. CASE tick \in s.lower..s.upper
      <4>1. Evaluations!Judge(s, reads) = Evaluations!Pass
        BY <2>9, <2>11, <3>6, <3>7
      <4>2. QED
        BY <3>1, <3>3, <3>4, <3>5, <3>7, <4>1, PassIsWell
    <3>8. CASE tick \notin s.lower..s.upper
      <4>1. Evaluations!Judge(s, reads) = Evaluations!Fail("GRID_SPOT_OUTSIDE_BAND")
        BY <2>9, <2>11, <3>6, <3>8
      <4>2. QED
        BY <1>4, <3>1, <3>3, <3>4, <3>5, <3>8, <4>1, FailIsWell
    <3>9. QED
      BY <3>7, <3>8
  <2>12. QED
    BY <2>10, <2>11
<1>9. QED
  BY <1>6, <1>7, <1>8

LEMMA YieldJudgesWell ==
  ASSUME NEW s \in Evaluations!ValidScopes, s.adapter = "yield",
         NEW reads \in [Evaluations!LabelsOf("yield") -> Evaluations!Data]
  PROVE  JudgesWell(s, reads)
<1> DEFINE a == reads["totalAssets"]
           u == reads["totalSupply"]
           price == Evaluations!SharePrice(a[1], u[1])
<1>1. DOMAIN reads = {"totalAssets", "totalSupply"} /\ a \in Evaluations!Data
      /\ u \in Evaluations!Data
  BY LabelsAre
<1>2. Evaluations!Judge(s, reads) = Evaluations!Yield(s, reads)
  BY DEF Evaluations!Judge
<1>3. {"READ_UNAVAILABLE", "READ_RETURNDATA_MALFORMED", "YIELD_SHARE_PRICE_UNDEFINED"}
         = Evaluations!UnknownCodes(s.adapter)
  BY DEF Evaluations!UnknownCodes
<1>4. "YIELD_SHARE_PRICE_BELOW_FLOOR" \in Evaluations!FailCodes(s.adapter)
  BY DEF Evaluations!FailCodes
<1>5. Evaluations!Established(s, reads) <=>
         /\ a \notin {None, Ragged} /\ Len(a) = 1
         /\ u \notin {None, Ragged} /\ Len(u) = 1
         /\ u[1] > 0
  BY DEF Evaluations!Established, Evaluations!Words
<1>6. Evaluations!Judge(s, reads) =
         IF None \in {a, u} THEN Evaluations!Unknown("READ_UNAVAILABLE")
         ELSE IF Evaluations!WordCount(a) # 1 \/ Evaluations!WordCount(u) # 1
              THEN Evaluations!Unknown("READ_RETURNDATA_MALFORMED")
         ELSE IF u[1] = 0 THEN Evaluations!Unknown("YIELD_SHARE_PRICE_UNDEFINED")
         ELSE IF price > DecimalMax THEN Evaluations!Throws
         ELSE IF price >= s.lower THEN Evaluations!Pass
         ELSE Evaluations!Fail("YIELD_SHARE_PRICE_BELOW_FLOOR")
  BY <1>2 DEF Evaluations!Yield
<1>7. (\E l \in DOMAIN reads : reads[l] = None) <=> None \in {a, u}
  BY <1>1
<1>8. Evaluations!Satisfied(s, reads) <=> a[1] * Scale >= s.lower * u[1]
  BY DEF Evaluations!Satisfied
<1>9. Evaluations!PassRule(s, reads) <=> u[1] # 0 /\ price >= s.lower
  BY DEF Evaluations!PassRule
<1>10. price = (a[1] * Scale) \div u[1]
  BY DEF Evaluations!SharePrice
<1> HIDE DEF a, u, price
<1>11. CASE None \in {a, u}
  <2>1. Evaluations!Judge(s, reads) = Evaluations!Unknown("READ_UNAVAILABLE")
    BY <1>6, <1>11
  <2>2. QED
    BY <1>3, <1>5, <1>7, <1>11, <2>1, UnknownIsWell
<1>12. CASE None \notin {a, u} /\ (Evaluations!WordCount(a) # 1 \/ Evaluations!WordCount(u) # 1)
  <2>1. Evaluations!Judge(s, reads) = Evaluations!Unknown("READ_RETURNDATA_MALFORMED")
    BY <1>6, <1>12
  <2>2. ~Evaluations!Established(s, reads)
    <3>1. SUFFICES ASSUME Evaluations!Established(s, reads)
                   PROVE  FALSE
      OBVIOUS
    <3>2. a # None /\ a # Ragged /\ Len(a) = 1 /\ u # None /\ u # Ragged /\ Len(u) = 1
      BY <1>5, <3>1
    <3>3. Evaluations!WordCount(a) = Len(a) /\ Evaluations!WordCount(u) = Len(u)
      BY <1>1, <3>2, Worded
    <3>4. QED
      BY <1>12, <3>2, <3>3
  <2>3. QED
    BY <1>3, <1>7, <1>12, <2>1, <2>2, UnknownIsWell
<1>13. CASE None \notin {a, u} /\ Evaluations!WordCount(a) = 1 /\ Evaluations!WordCount(u) = 1
  <2>1. a # Ragged /\ u # Ragged /\ a # None /\ u # None
    BY <1>13 DEF Evaluations!WordCount
  <2>2. Len(a) = 1 /\ Len(u) = 1 /\ a[1] \in 0..WordMax /\ u[1] \in 0..WordMax
    <3>1. /\ Len(a) = 1 /\ \A i \in 1..Len(a) : a[i] \in 0..WordMax
          /\ Len(u) = 1 /\ \A i \in 1..Len(u) : u[i] \in 0..WordMax
      BY <1>1, <1>13, <2>1, Worded
    <3>2. QED
      BY <3>1
  <2>3. a[1] \in Nat /\ u[1] \in Nat /\ Scale \in Nat /\ DecimalMax \in Nat /\ s.lower \in Int
    BY <2>2, Widths DEF Evaluations!ValidScopes
  <2>4. CASE u[1] = 0
    <3>1. Evaluations!Judge(s, reads) = Evaluations!Unknown("YIELD_SHARE_PRICE_UNDEFINED")
      BY <1>6, <1>13, <2>4
    <3>2. ~Evaluations!Established(s, reads)
      BY <1>5, <2>3, <2>4
    <3>3. QED
      BY <1>3, <1>7, <1>13, <3>1, <3>2, UnknownIsWell
  <2>5. CASE u[1] # 0
    <3>1. Evaluations!Established(s, reads)
      BY <1>5, <2>1, <2>2, <2>3, <2>5
    <3>2. a[1] * Scale \in Int /\ u[1] \in Int /\ u[1] > 0
      BY <2>3, <2>5
    <3>3. price \in Int
      BY <1>10, <3>2, Division
    <3>4. price >= s.lower <=> a[1] * Scale >= s.lower * u[1]
      BY <1>10, <2>3, <3>2, RoundedReaches
    <3>5. CASE price > DecimalMax
      <4>1. Evaluations!Judge(s, reads) = Evaluations!Throws
        BY <1>6, <1>13, <2>5, <3>5
      <4>2. QED
        BY <4>1, ThrowIsWell
    <3>6. CASE ~(price > DecimalMax) /\ price >= s.lower
      <4>1. Evaluations!Judge(s, reads) = Evaluations!Pass
        BY <1>6, <1>13, <2>5, <3>6
      <4>2. Evaluations!Satisfied(s, reads) /\ Evaluations!PassRule(s, reads)
        BY <1>8, <1>9, <2>5, <3>4, <3>6
      <4>3. QED
        BY <1>7, <1>13, <3>1, <4>1, <4>2, PassIsWell
    <3>7. CASE ~(price > DecimalMax) /\ ~(price >= s.lower)
      <4>1. Evaluations!Judge(s, reads) = Evaluations!Fail("YIELD_SHARE_PRICE_BELOW_FLOOR")
        BY <1>6, <1>13, <2>5, <3>7
      <4>2. ~Evaluations!Satisfied(s, reads) /\ ~Evaluations!PassRule(s, reads)
        BY <1>8, <1>9, <3>4, <3>7
      <4>3. QED
        BY <1>4, <1>7, <1>13, <3>1, <4>1, <4>2, FailIsWell
    <3>8. QED
      BY <3>5, <3>6, <3>7
  <2>6. QED
    BY <2>4, <2>5
<1>14. QED
  BY <1>11, <1>12, <1>13

LEMMA HealthJudgesWell ==
  ASSUME NEW s \in Evaluations!ValidScopes, s.adapter = "aave",
         NEW reads \in [Evaluations!LabelsOf("aave") -> Evaluations!Data]
  PROVE  JudgesWell(s, reads)
<1> DEFINE d == reads["getUserAccountData"]
<1>1. DOMAIN reads = {"getUserAccountData"} /\ d \in Evaluations!Data
  BY LabelsAre
<1>2. Evaluations!Judge(s, reads) = Evaluations!Health(s, reads)
  BY DEF Evaluations!Judge
<1>3. {"READ_UNAVAILABLE", "READ_RETURNDATA_MALFORMED", "HEALTH_NO_DEBT_POSITION"}
         = Evaluations!UnknownCodes(s.adapter)
  BY DEF Evaluations!UnknownCodes
<1>4. "HEALTH_FACTOR_BELOW_FLOOR" \in Evaluations!FailCodes(s.adapter)
  BY DEF Evaluations!FailCodes
<1>5. Evaluations!Established(s, reads) <=>
         d \notin {None, Ragged} /\ Len(d) = 6 /\ d[2] > 0 /\ d[6] < WordMax
  BY DEF Evaluations!Established, Evaluations!Words
<1>6. Evaluations!Judge(s, reads) =
         IF d = None THEN Evaluations!Unknown("READ_UNAVAILABLE")
         ELSE IF Evaluations!WordCount(d) # 6
              THEN Evaluations!Unknown("READ_RETURNDATA_MALFORMED")
         ELSE IF d[6] = WordMax \/ d[2] = 0
              THEN Evaluations!Unknown("HEALTH_NO_DEBT_POSITION")
         ELSE IF d[6] >= s.lower THEN Evaluations!Pass
         ELSE Evaluations!Fail("HEALTH_FACTOR_BELOW_FLOOR")
  BY <1>2 DEF Evaluations!Health, Evaluations!NoDebt, Evaluations!FactorWord,
              Evaluations!DebtWord
<1>7. (\E l \in DOMAIN reads : reads[l] = None) <=> d = None
  BY <1>1
<1>8. Evaluations!Satisfied(s, reads) <=> d[6] >= s.lower
  BY DEF Evaluations!Satisfied
<1>9. Evaluations!PassRule(s, reads) <=> d[2] # 0 /\ d[6] # WordMax /\ d[6] >= s.lower
  BY DEF Evaluations!PassRule, Evaluations!FactorWord, Evaluations!DebtWord
<1> HIDE DEF d
<1>10. CASE d = None
  <2>1. Evaluations!Judge(s, reads) = Evaluations!Unknown("READ_UNAVAILABLE")
    BY <1>6, <1>10
  <2>2. QED
    BY <1>3, <1>5, <1>7, <1>10, <2>1, UnknownIsWell
<1>11. CASE d # None /\ Evaluations!WordCount(d) # 6
  <2>1. Evaluations!Judge(s, reads) = Evaluations!Unknown("READ_RETURNDATA_MALFORMED")
    BY <1>6, <1>11
  <2>2. ~Evaluations!Established(s, reads)
    BY <1>1, <1>5, <1>11, Worded
  <2>3. QED
    BY <1>3, <1>7, <1>11, <2>1, <2>2, UnknownIsWell
<1>12. CASE d # None /\ Evaluations!WordCount(d) = 6
  <2>1. d # Ragged
    BY <1>12 DEF Evaluations!WordCount
  <2>2. Len(d) = 6 /\ d[2] \in 0..WordMax /\ d[6] \in 0..WordMax
    <3>1. Len(d) = 6 /\ \A i \in 1..Len(d) : d[i] \in 0..WordMax
      BY <1>1, <1>12, <2>1, Worded
    <3>2. QED
      BY <3>1
  <2>3. d[2] \in Nat /\ d[6] \in Nat /\ d[6] <= WordMax /\ WordMax \in Nat /\ s.lower \in Int
    BY <2>2, Widths DEF Evaluations!ValidScopes
  <2>4. CASE d[6] = WordMax \/ d[2] = 0
    <3>1. Evaluations!Judge(s, reads) = Evaluations!Unknown("HEALTH_NO_DEBT_POSITION")
      BY <1>6, <1>12, <2>4
    <3>2. ~Evaluations!Established(s, reads)
      BY <1>5, <2>3, <2>4
    <3>3. QED
      BY <1>3, <1>7, <1>12, <3>1, <3>2, UnknownIsWell
  <2>5. CASE ~(d[6] = WordMax \/ d[2] = 0)
    <3>1. Evaluations!Established(s, reads)
      BY <1>5, <1>12, <2>1, <2>2, <2>3, <2>5
    <3>2. CASE d[6] >= s.lower
      <4>1. Evaluations!Judge(s, reads) = Evaluations!Pass
        BY <1>6, <1>12, <2>5, <3>2
      <4>2. QED
        BY <1>7, <1>8, <1>9, <1>12, <2>5, <3>1, <3>2, <4>1, PassIsWell
    <3>3. CASE ~(d[6] >= s.lower)
      <4>1. Evaluations!Judge(s, reads) = Evaluations!Fail("HEALTH_FACTOR_BELOW_FLOOR")
        BY <1>6, <1>12, <2>5, <3>3
      <4>2. QED
        BY <1>4, <1>7, <1>8, <1>9, <1>12, <3>1, <3>3, <4>1, FailIsWell
    <3>4. QED
      BY <3>2, <3>3
  <2>6. QED
    BY <2>4, <2>5
<1>13. QED
  BY <1>10, <1>11, <1>12

\* A decoder holds an array of something exactly where one is encoded.
LEMMA HeldIsEncoded ==
  ASSUME NEW m \in Evaluations!Data, m # None, m # Ragged
  PROVE  Evaluations!HoldsArray(m) =>
           /\ Len(m) >= 2 /\ Evaluations!ArrayLength(m) \in Nat
           /\ Evaluations!ArrayLength(m) # 0 =>
                 \E n \in 1..Len(m) : Evaluations!Encodes(m, n)
<1> DEFINE k == Evaluations!LengthIndex(m)
<1> SUFFICES ASSUME Evaluations!HoldsArray(m)
             PROVE  /\ Len(m) >= 2 /\ Evaluations!ArrayLength(m) \in Nat
                    /\ Evaluations!ArrayLength(m) # 0 =>
                          \E n \in 1..Len(m) : Evaluations!Encodes(m, n)
  OBVIOUS
<1>1. /\ Len(m) \in Nat /\ Evaluations!WordCount(m) = Len(m)
      /\ \A i \in 1..Len(m) : m[i] \in 0..WordMax
  BY Worded
<1>2. /\ Len(m) >= 2 /\ m[1] % WordBytes = 0 /\ k < Len(m)
      /\ m[k + 1] <= Len(m) - k - 1
      /\ Evaluations!ArrayLength(m) = m[k + 1]
      /\ k = m[1] \div WordBytes
  BY <1>1 DEF Evaluations!HoldsArray, Evaluations!ArrayLength, Evaluations!LengthIndex
<1> HIDE DEF k
<1>3. m[1] \in Int /\ 0 <= m[1] /\ m[1] <= WordMax /\ WordBytes \in Int /\ WordBytes > 0
      /\ WordMax \in Nat
  BY <1>1, <1>2, Widths
<1>4. /\ k \in Int /\ WordBytes * k <= m[1] /\ m[1] < WordBytes * k + WordBytes
      /\ m[1] % WordBytes = m[1] - WordBytes * k
  BY <1>2, <1>3, Division, Modulo
<1>5. m[1] = WordBytes * k /\ m[1] = k * WordBytes
  <2>1. m[1] - WordBytes * k = 0
    BY <1>2, <1>4, Zenon
  <2>2. WordBytes * k = k * WordBytes /\ WordBytes * k \in Int
    BY <1>3, <1>4
  <2>3. QED
    BY <1>3, <2>1, <2>2
<1>6. k >= 0
  <2>1. CASE k <= -1
    BY <1>3, <1>4, <2>1, WordBytes * k <= WordBytes * (-1)
  <2>2. QED
    BY <1>4, <2>1
<1>7. m[k + 1] \in 0..WordMax
  BY <1>1, <1>2, <1>4, <1>6
<1>8. ASSUME m[k + 1] # 0
      PROVE  \E n \in 1..Len(m) : Evaluations!Encodes(m, n)
  <2>1. k # 0
    <3>1. ASSUME k = 0
          PROVE  FALSE
      <4>1. m[1] = 0
        BY <1>3, <1>5, <3>1
      <4>2. k + 1 = 1
        BY <3>1
      <4>3. QED
        BY <1>8, <4>1, <4>2
    <3>2. QED
      BY <3>1
  <2>2. k \in 1..Len(m) - 1 /\ m[k + 1] \in 1..Len(m) /\ Len(m) >= k + 1 + m[k + 1]
    <3> DEFINE x == m[k + 1]
               o == Len(m)
    <3>1. x \in Int /\ x >= 0 /\ x # 0 /\ x <= o - k - 1 /\ o \in Nat /\ k < o
      BY <1>1, <1>2, <1>3, <1>7, <1>8
    <3> HIDE DEF x, o
    <3>2. k \in 1..o - 1 /\ x \in 1..o /\ o >= k + 1 + x
      BY <1>4, <1>6, <2>1, <3>1
    <3>3. QED
      BY <3>2 DEF x, o
  <2>3. Evaluations!Encodes(m, m[k + 1])
    BY <1>5, <2>2 DEF Evaluations!Encodes
  <2>4. QED
    BY <2>2, <2>3
<1>9. QED
  BY <1>2, <1>3, <1>7, <1>8

LEMMA EncodedIsHeld ==
  ASSUME NEW m \in Evaluations!Data, m # None, m # Ragged, Len(m) >= 2,
         NEW n \in 1..Len(m), Evaluations!Encodes(m, n)
  PROVE  Evaluations!HoldsArray(m) /\ Evaluations!ArrayLength(m) = n
<1>1. /\ Len(m) \in Nat /\ Evaluations!WordCount(m) = Len(m)
      /\ \A i \in 1..Len(m) : m[i] \in 0..WordMax
  BY Worded
<1>2. PICK k \in 1..Len(m) - 1 :
         m[1] = k * WordBytes /\ m[k + 1] = n /\ Len(m) >= k + 1 + n
  BY DEF Evaluations!Encodes
<1>3. k \in Int /\ n \in Int /\ WordBytes \in Int /\ WordBytes > 0 /\ m[1] \in Int
  BY <1>1, <1>2, Widths
<1> DEFINE q == m[1] \div WordBytes
<1>4. /\ q \in Int /\ WordBytes * q <= m[1] /\ m[1] < WordBytes * q + WordBytes
      /\ m[1] % WordBytes = m[1] - WordBytes * q
  BY <1>3, Division, Modulo
<1> HIDE DEF q
<1>5. q = k
  <2>1. WordBytes * q <= k * WordBytes /\ k * WordBytes < WordBytes * q + WordBytes
    BY <1>2, <1>4
  <2>2. CASE q <= k - 1
    BY <1>3, <1>4, <2>1, <2>2, WordBytes * (q + 1) <= WordBytes * k
  <2>3. CASE q >= k + 1
    BY <1>3, <1>4, <2>1, <2>3, WordBytes * (k + 1) <= WordBytes * q
  <2>4. QED
    BY <1>3, <1>4, <2>2, <2>3
<1>6. m[1] % WordBytes = 0
  BY <1>2, <1>3, <1>4, <1>5
<1>7. Evaluations!LengthIndex(m) = k
  BY <1>5 DEF Evaluations!LengthIndex, q
<1>8. k < Len(m) /\ n <= Len(m) - k - 1
  BY <1>1, <1>2, <1>3
<1>9. QED
  BY <1>1, <1>2, <1>6, <1>7, <1>8 DEF Evaluations!HoldsArray, Evaluations!ArrayLength

LEMMA VenusJudgesWell ==
  ASSUME NEW s \in Evaluations!ValidScopes, s.adapter = "venus",
         NEW reads \in [Evaluations!LabelsOf("venus") -> Evaluations!Data]
  PROVE  JudgesWell(s, reads)
<1> DEFINE a == reads["getAccountLiquidity"]
           m == reads["getAssetsIn"]
           b == reads["borrowBalanceStored"]
           n == Evaluations!ArrayLength(m)
           Encoded == \E x \in 1..Len(m) : Evaluations!Encodes(m, x)
           Readable == /\ Evaluations!WordCount(a) = 3
                       /\ Evaluations!HoldsArray(m)
                       /\ ~(Evaluations!WordCount(b) < 1)
<1>1. /\ DOMAIN reads = {"getAccountLiquidity", "getAssetsIn", "borrowBalanceStored"}
      /\ a \in Evaluations!Data /\ m \in Evaluations!Data /\ b \in Evaluations!Data
  BY LabelsAre
<1>2. Evaluations!Judge(s, reads) = Evaluations!VenusHealth(s, reads)
  BY DEF Evaluations!Judge
<1>3. {"READ_UNAVAILABLE", "READ_RETURNDATA_MALFORMED", "VENUS_LIQUIDITY_COMPUTATION_FAILED",
       "VENUS_NO_POSITION", "VENUS_NO_DEBT_POSITION", "VENUS_LIQUIDITY_INCONSISTENT"}
         = Evaluations!UnknownCodes(s.adapter)
  BY DEF Evaluations!UnknownCodes
<1>4. {"VENUS_ACCOUNT_SHORTFALL", "VENUS_LIQUIDITY_BELOW_FLOOR"}
         = Evaluations!FailCodes(s.adapter)
  BY DEF Evaluations!FailCodes
<1>5. Evaluations!Established(s, reads) <=>
         /\ a \notin {None, Ragged} /\ Len(a) = 3 /\ a[1] = 0 /\ 0 \in {a[2], a[3]}
         /\ b \notin {None, Ragged} /\ Len(b) >= 1 /\ b[1] > 0
         /\ m \notin {None, Ragged} /\ Len(m) >= 2 /\ Encoded
  BY DEF Evaluations!Established, Evaluations!Words, Evaluations!SomeWords
<1>6. Evaluations!Judge(s, reads) =
         IF None \in {a, m, b} THEN Evaluations!Unknown("READ_UNAVAILABLE")
         ELSE IF ~Readable THEN Evaluations!Unknown("READ_RETURNDATA_MALFORMED")
         ELSE IF a[1] # 0 THEN Evaluations!Unknown("VENUS_LIQUIDITY_COMPUTATION_FAILED")
         ELSE IF a[2] > 0 /\ a[3] > 0
              THEN Evaluations!Unknown("VENUS_LIQUIDITY_INCONSISTENT")
         ELSE IF n > MarketsMax THEN Evaluations!Throws
         ELSE IF n = 0 THEN Evaluations!Unknown("VENUS_NO_POSITION")
         ELSE IF b[1] = 0 THEN Evaluations!Unknown("VENUS_NO_DEBT_POSITION")
         ELSE IF a[3] > 0 THEN Evaluations!Fail("VENUS_ACCOUNT_SHORTFALL")
         ELSE IF a[2] >= s.lower THEN Evaluations!Pass
         ELSE Evaluations!Fail("VENUS_LIQUIDITY_BELOW_FLOOR")
  BY <1>2, Zenon DEF Evaluations!VenusHealth
<1>7. (\E l \in DOMAIN reads : reads[l] = None) <=> None \in {a, m, b}
  BY <1>1
<1>8. Evaluations!Satisfied(s, reads) <=> a[2] - a[3] >= s.lower
  BY DEF Evaluations!Satisfied
<1>9. Evaluations!PassRule(s, reads) <=>
         a[3] = 0 /\ a[2] >= s.lower /\ n # 0 /\ b[1] # 0
  BY DEF Evaluations!PassRule
<1>10. ASSUME a \notin {None, Ragged}, m \notin {None, Ragged}, b \notin {None, Ragged}
       PROVE  /\ Evaluations!WordCount(a) = Len(a) /\ Len(a) \in Nat
              /\ \A i \in 1..Len(a) : a[i] \in 0..WordMax
              /\ Evaluations!WordCount(b) = Len(b) /\ Len(b) \in Nat
              /\ \A i \in 1..Len(b) : b[i] \in 0..WordMax
              /\ Evaluations!HoldsArray(m) /\ n # 0 => Len(m) >= 2 /\ Encoded
              /\ Len(m) >= 2 /\ Encoded => Evaluations!HoldsArray(m) /\ n # 0
              /\ Evaluations!HoldsArray(m) => n \in Nat
  <2>1. a # None /\ a # Ragged /\ m # None /\ m # Ragged /\ b # None /\ b # Ragged
    BY <1>10
  <2>2. /\ Evaluations!WordCount(a) = Len(a) /\ Len(a) \in Nat
        /\ \A i \in 1..Len(a) : a[i] \in 0..WordMax
    BY <1>1, <2>1, Worded
  <2>3. /\ Evaluations!WordCount(b) = Len(b) /\ Len(b) \in Nat
        /\ \A i \in 1..Len(b) : b[i] \in 0..WordMax
    BY <1>1, <2>1, Worded
  <2>4. Evaluations!HoldsArray(m) => n \in Nat /\ Len(m) >= 2 /\ (n # 0 => Encoded)
    BY <1>1, <2>1, HeldIsEncoded
  <2>5. ASSUME Len(m) >= 2, Encoded
        PROVE  Evaluations!HoldsArray(m) /\ n # 0
    <3>1. PICK x \in 1..Len(m) : Evaluations!Encodes(m, x)
      BY <2>5
    <3>2. Evaluations!HoldsArray(m) /\ n = x
      BY <1>1, <2>1, <2>5, <3>1, EncodedIsHeld
    <3>3. x # 0
      OBVIOUS
    <3>4. QED
      BY <3>2, <3>3
  <2>6. QED
    BY <2>2, <2>3, <2>4, <2>5
<1> HIDE DEF a, m, b, n, Encoded
<1>11. CASE None \in {a, m, b}
  <2>1. Evaluations!Judge(s, reads) = Evaluations!Unknown("READ_UNAVAILABLE")
    BY <1>6, <1>11
  <2>2. ~Evaluations!Established(s, reads)
    BY <1>5, <1>11
  <2>3. QED
    BY <1>3, <1>7, <1>11, <2>1, <2>2, UnknownIsWell
<1>12. CASE None \notin {a, m, b} /\ ~Readable
  <2>1. Evaluations!Judge(s, reads) = Evaluations!Unknown("READ_RETURNDATA_MALFORMED")
    BY <1>6, <1>12
  <2>2. ~Evaluations!Established(s, reads)
    <3>1. SUFFICES ASSUME Evaluations!Established(s, reads)
                   PROVE  FALSE
      OBVIOUS
    <3>2. /\ a \notin {None, Ragged} /\ Len(a) = 3 /\ m \notin {None, Ragged}
          /\ b \notin {None, Ragged} /\ Len(b) >= 1 /\ Len(m) >= 2 /\ Encoded
      BY <1>5, <3>1
    <3>3. QED
      BY <1>10, <1>12, <3>2
  <2>3. QED
    BY <1>3, <1>7, <1>12, <2>1, <2>2, UnknownIsWell
<1>13. CASE None \notin {a, m, b} /\ Readable
  <2>1. a \notin {None, Ragged} /\ b \notin {None, Ragged} /\ m \notin {None, Ragged}
    BY <1>13 DEF Evaluations!WordCount, Evaluations!HoldsArray
  <2>2. /\ Len(a) = 3 /\ \A i \in 1..Len(a) : a[i] \in 0..WordMax
        /\ Len(b) >= 1 /\ Len(b) \in Nat /\ \A i \in 1..Len(b) : b[i] \in 0..WordMax
        /\ n \in Nat
    BY <1>10, <1>13, <2>1
  <2>3. /\ a[1] \in Nat /\ a[2] \in Nat /\ a[3] \in Nat /\ b[1] \in Nat
        /\ MarketsMax \in Nat /\ s.lower \in Int /\ s.lower >= 0
    BY <2>2, Widths DEF Evaluations!ValidScopes
  <2>4. n # 0 <=> Len(m) >= 2 /\ Encoded
    BY <1>10, <1>13, <2>1
  <2>5. Evaluations!Established(s, reads) <=>
           a[1] = 0 /\ 0 \in {a[2], a[3]} /\ b[1] > 0 /\ n # 0
    BY <1>5, <2>1, <2>2, <2>4
  <2>6. Evaluations!Judge(s, reads) =
           IF a[1] # 0 THEN Evaluations!Unknown("VENUS_LIQUIDITY_COMPUTATION_FAILED")
           ELSE IF a[2] > 0 /\ a[3] > 0
                THEN Evaluations!Unknown("VENUS_LIQUIDITY_INCONSISTENT")
           ELSE IF n > MarketsMax THEN Evaluations!Throws
           ELSE IF n = 0 THEN Evaluations!Unknown("VENUS_NO_POSITION")
           ELSE IF b[1] = 0 THEN Evaluations!Unknown("VENUS_NO_DEBT_POSITION")
           ELSE IF a[3] > 0 THEN Evaluations!Fail("VENUS_ACCOUNT_SHORTFALL")
           ELSE IF a[2] >= s.lower THEN Evaluations!Pass
           ELSE Evaluations!Fail("VENUS_LIQUIDITY_BELOW_FLOOR")
    BY <1>6, <1>13
  <2>7. CASE a[1] = 0 /\ 0 \in {a[2], a[3]} /\ b[1] > 0 /\ n # 0
    <3>1. Evaluations!Established(s, reads)
      BY <2>5, <2>7
    <3>2. ~(a[2] > 0 /\ a[3] > 0) /\ b[1] # 0
      BY <2>3, <2>7
    <3>3. CASE n > MarketsMax
      <4>1. Evaluations!Judge(s, reads) = Evaluations!Throws
        BY <2>6, <2>7, <3>2, <3>3
      <4>2. QED
        BY <4>1, ThrowIsWell
    <3>4. CASE ~(n > MarketsMax) /\ a[3] > 0
      <4>1. Evaluations!Judge(s, reads) = Evaluations!Fail("VENUS_ACCOUNT_SHORTFALL")
        BY <2>6, <2>7, <3>2, <3>4
      <4>2. ~Evaluations!Satisfied(s, reads) /\ ~Evaluations!PassRule(s, reads)
        BY <1>8, <1>9, <2>3, <2>7, <3>4
      <4>3. QED
        BY <1>4, <1>7, <1>13, <3>1, <4>1, <4>2, FailIsWell
    <3>5. CASE ~(n > MarketsMax) /\ a[3] = 0 /\ a[2] >= s.lower
      <4>1. ~(a[3] > 0)
        BY <3>5
      <4>2. Evaluations!Judge(s, reads) = Evaluations!Pass
        BY <2>6, <2>7, <3>2, <3>5, <4>1
      <4>3. Evaluations!Satisfied(s, reads) /\ Evaluations!PassRule(s, reads)
        BY <1>8, <1>9, <2>3, <2>7, <3>2, <3>5
      <4>4. QED
        BY <1>7, <1>13, <3>1, <4>2, <4>3, PassIsWell
    <3>6. CASE ~(n > MarketsMax) /\ a[3] = 0 /\ ~(a[2] >= s.lower)
      <4>1. ~(a[3] > 0)
        BY <3>6
      <4>2. Evaluations!Judge(s, reads) = Evaluations!Fail("VENUS_LIQUIDITY_BELOW_FLOOR")
        BY <2>6, <2>7, <3>2, <3>6, <4>1
      <4>3. ~Evaluations!Satisfied(s, reads) /\ ~Evaluations!PassRule(s, reads)
        BY <1>8, <1>9, <2>3, <2>7, <3>6
      <4>4. QED
        BY <1>4, <1>7, <1>13, <3>1, <4>2, <4>3, FailIsWell
    <3>7. QED
      BY <2>3, <3>3, <3>4, <3>5, <3>6
  <2>8. CASE ~(a[1] = 0 /\ 0 \in {a[2], a[3]} /\ b[1] > 0 /\ n # 0)
    <3>1. ~Evaluations!Established(s, reads)
      BY <2>5, <2>8
    <3>2. \/ Evaluations!Judge(s, reads) = Evaluations!Throws
          \/ \E code \in {"VENUS_LIQUIDITY_COMPUTATION_FAILED", "VENUS_LIQUIDITY_INCONSISTENT",
                          "VENUS_NO_POSITION", "VENUS_NO_DEBT_POSITION"} :
                Evaluations!Judge(s, reads) = Evaluations!Unknown(code)
      <4>1. a[1] # 0 \/ (a[2] > 0 /\ a[3] > 0) \/ b[1] = 0 \/ n = 0
        BY <2>3, <2>8
      <4>2. QED
        BY <2>6, <4>1
    <3>3. ~(\E l \in DOMAIN reads : reads[l] = None)
      BY <1>7, <1>13
    <3>4. CASE Evaluations!Judge(s, reads) = Evaluations!Throws
      BY <3>4, ThrowIsWell
    <3>5. CASE \E code \in {"VENUS_LIQUIDITY_COMPUTATION_FAILED", "VENUS_LIQUIDITY_INCONSISTENT",
                            "VENUS_NO_POSITION", "VENUS_NO_DEBT_POSITION"} :
                  Evaluations!Judge(s, reads) = Evaluations!Unknown(code)
      <4>1. PICK code \in {"VENUS_LIQUIDITY_COMPUTATION_FAILED", "VENUS_LIQUIDITY_INCONSISTENT",
                           "VENUS_NO_POSITION", "VENUS_NO_DEBT_POSITION"} :
                  Evaluations!Judge(s, reads) = Evaluations!Unknown(code)
        BY <3>5
      <4>2. code \in Evaluations!UnknownCodes(s.adapter) /\ code # "READ_UNAVAILABLE"
        BY <1>3
      <4>3. QED
        BY <3>1, <3>3, <4>1, <4>2, UnknownIsWell
    <3>6. QED
      BY <3>2, <3>4, <3>5
  <2>9. QED
    BY <2>7, <2>8
<1>14. QED
  BY <1>11, <1>12, <1>13

LEMMA EveryAdapterJudgesWell ==
  ASSUME NEW s \in Evaluations!ValidScopes,
         NEW reads \in [Evaluations!LabelsOf(s.adapter) -> Evaluations!Data]
  PROVE  JudgesWell(s, reads)
<1>1. s.adapter \in {"grid", "yield", "aave", "venus"}
  BY DEF Evaluations!ValidScopes, Evaluations!AdapterIds
<1>2. QED
  BY <1>1, GridJudgesWell, YieldJudgesWell, HealthJudgesWell, VenusJudgesWell

-----------------------------------------------------------------------------
(* Evaluations.                                                            *)

RunSteps == {"idle", "head", "header", "reading", "closing", "done"}
XBlocks == Evaluations!Blocks
Bindings == [executor : Executors, adapter : Evaluations!AdapterIds, context : Contexts]

\* The fields of an evaluation.
IsRun(x) ==
    x \in [step : RunSteps, executor : Executors \cup {None}, scope : {x.scope},
           mode : {None, "own", "anchor", "snapshot"}, head : Int,
           anchor : XBlocks \cup {None}, answers : {x.answers}, bindTo : {x.bindTo},
           result : {x.result}]

\* What an evaluation under way, or one that ended with a measurement, works with.
Works(x) ==
    /\ x.executor \in Executors /\ x.scope \in Evaluations!ValidScopes
    /\ \E s \in Deployment[x.executor] : s.adapter = x.scope.adapter
    /\ x.answers \in [Evaluations!LabelsOf(x.scope.adapter) -> Evaluations!Data \cup {Asked}]
    /\ x.bindTo # None =>
          x.bindTo \in Requests /\ x.scope.adapter = x.bindTo.adapter /\ x.mode = "own"

\* What was read is what the pinned block says.
ReadsOneBlock(x) ==
    /\ x.anchor \in XBlocks
    /\ \A l \in DOMAIN x.answers : x.answers[l] \in {Asked, None, xWorld[x.anchor][l]}

Truth(x) == [l \in DOMAIN x.answers |-> xWorld[x.anchor][l]]
TruthOfOneBlock(x) ==
    /\ x.result.status = "pass" => /\ Evaluations!Established(x.scope, Truth(x))
                                   /\ Evaluations!Satisfied(x.scope, Truth(x))
    /\ x.result.status = "fail" => /\ Evaluations!Established(x.scope, Truth(x))
                                   /\ ~Evaluations!Satisfied(x.scope, Truth(x))

Concluded(x) == x.step = "done" /\ x.result.status \in Evaluations!Measured
UnderWay(x) == x.step \in {"head", "header", "reading", "closing"}

RunOK(x) ==
    /\ IsRun(x)
    /\ UnderWay(x) \/ Concluded(x) => Works(x)
    /\ x.step \in {"head", "header"} => \A l \in DOMAIN x.answers : x.answers[l] = Asked
    /\ x.step = "header" => x.head \in Depth + 1..MaxHeight
    /\ x.step \in {"reading", "closing"} \/ Concluded(x) => ReadsOneBlock(x)
    /\ x.step = "closing" \/ Concluded(x) => TruthOfOneBlock(x)
    /\ x.step = "closing" => x.result.status \in Evaluations!Measured \cup {"inconclusive"}
    /\ x.step = "done" =>
          x.result.status \in Evaluations!Measured \cup {"inconclusive", "rejected"}

\* What is bound is a pass of its own executor, and that of evaluateBound is bound first.
BindingOK(x, b) ==
    /\ b # None => /\ b \in Bindings
                   /\ x.step = "done" /\ x.result.status = "pass"
                   /\ x.executor = b.executor /\ x.scope.adapter = b.adapter
    /\ x.step = "done" /\ x.result.status = "pass" /\ x.bindTo # None =>
          b # None /\ b.context = x.bindTo.context

ChainOK ==
    /\ xBranch \in Branches /\ xHeight \in Depth + 1..MaxHeight /\ xForks \in 0..MaxForks
    /\ xWorld \in [XBlocks -> Readings]

SnapshotOK ==
    /\ xSnapshot \in [state : {"none", "pinning", "active", "over"}, head : 0..MaxHeight,
                      anchor : XBlocks \cup {None}]
    /\ xSnapshot.state = "pinning" => xSnapshot.head \in Depth + 1..MaxHeight
    /\ xSnapshot.state = "active" => xSnapshot.anchor \in XBlocks

AcceptedOK ==
    /\ accepted \subseteq Runs \X Bindings
    /\ \A x \in accepted : binding[x[1]] = x[2]

ExecutionInv ==
    /\ ChainOK /\ SnapshotOK /\ request \in Requests
    /\ DOMAIN run = Runs /\ DOMAIN binding = Runs
    /\ \A r \in Runs : RunOK(run[r]) /\ BindingOK(run[r], binding[r])
    /\ AcceptedOK

LEMMA ExecutionConstants ==
  /\ TurnsAt \in Nat /\ Depth \in Nat /\ MaxHeight \in Nat /\ MaxForks \in Nat
  /\ Depth < MaxHeight
  /\ Requests \subseteq [adapter : Evaluations!AdapterIds, context : Contexts]
  /\ Readings \subseteq [Evaluations!Labels -> Evaluations!Data]
  /\ MandateScopes \subseteq Evaluations!ValidScopes
  /\ \A e \in Executors : Deployment[e] \subseteq Evaluations!ValidScopes
  /\ None \notin Evaluations!AdapterIds /\ None \notin XBlocks /\ None \notin Bindings
BY EvaluationAssumption DEF Evaluations!RequestAssumption, Evaluations!ChainAssumption,
   Evaluations!ReadAssumption, Evaluations!ScopeAssumption, Evaluations!NoneAssumption,
   XBlocks, Bindings

LEMMA PinnedIsBlock ==
  ASSUME xBranch \in Branches, NEW n \in Depth + 1..MaxHeight
  PROVE  Evaluations!Block(n - Depth) \in XBlocks
<1>1. (CHOOSE b \in Branches : TRUE) \in Branches
  OBVIOUS
<1>2. n - Depth \in 1..MaxHeight - Depth
  BY ExecutionConstants
<1>3. QED
  BY <1>1, <1>2 DEF Evaluations!Block, Evaluations!Blocks, XBlocks

\* A step that changes one evaluation that was not done, and binds nothing.
LEMMA RunFrame ==
  ASSUME ExecutionInv, NEW r \in Runs, run[r].step # "done", NEW y,
         run' = [run EXCEPT ![r] = y],
         UNCHANGED <<xBranch, xHeight, xForks, xWorld, xSnapshot, request, binding, accepted>>,
         RunOK(y),
         ~(y.step = "done" /\ y.result.status = "pass" /\ y.bindTo # None)
  PROVE  ExecutionInv'
<1>1. binding[r] = None
  BY DEF ExecutionInv, BindingOK
<1>2. /\ DOMAIN run' = Runs /\ run'[r] = y
      /\ \A q \in Runs \ {r} : run'[q] = run[q]
  BY DEF ExecutionInv
<1>3. BindingOK(y, None)
  BY DEF BindingOK
<1>4. \A x : RunOK(x)' <=> RunOK(x)
  BY DEF RunOK, IsRun, Works, ReadsOneBlock, TruthOfOneBlock, Truth, Concluded, UnderWay
<1>5. \A q \in Runs : RunOK(run'[q]) /\ BindingOK(run'[q], binding[q])
  BY <1>1, <1>2, <1>3 DEF ExecutionInv
<1>6. (\A q \in Runs : RunOK(run[q]) /\ BindingOK(run[q], binding[q]))'
  BY <1>4, <1>5 DEF BindingOK
<1>7. ChainOK' /\ SnapshotOK' /\ AcceptedOK' /\ request' \in Requests /\ DOMAIN binding' = Runs
  BY DEF ExecutionInv, ChainOK, SnapshotOK, AcceptedOK
<1>8. QED
  BY <1>2, <1>6, <1>7 DEF ExecutionInv

\* A step that leaves evaluations and bindings alone.
LEMMA OtherFrame ==
  ASSUME ExecutionInv, UNCHANGED <<xWorld, run, binding>>,
         ChainOK', SnapshotOK', request' \in Requests, AcceptedOK'
  PROVE  ExecutionInv'
<1>1. \A x : RunOK(x)' <=> RunOK(x)
  BY DEF RunOK, IsRun, Works, ReadsOneBlock, TruthOfOneBlock, Truth, Concluded, UnderWay
<1>2. (\A q \in Runs : RunOK(run[q]) /\ BindingOK(run[q], binding[q]))'
  BY <1>1 DEF ExecutionInv, BindingOK
<1>3. QED
  BY <1>2 DEF ExecutionInv

\* How a run starts: where a scope is to be read, or with the answer.
Started(e, s, mode, anchor, bindTo) ==
    [Evaluations!Idle EXCEPT
        !.executor = e, !.scope = s, !.mode = mode, !.bindTo = bindTo,
        !.anchor = IF mode = "snapshot" THEN xSnapshot.anchor ELSE anchor,
        !.step = IF mode # "snapshot" THEN "head"
                 ELSE IF xSnapshot.state = "active" THEN "reading" ELSE "done",
        !.answers = [l \in Evaluations!LabelsOf(s.adapter) |-> Asked],
        !.result = IF mode = "snapshot" /\ xSnapshot.state # "active"
                   THEN Evaluations!Inconclusive("EXECUTION_INVALID") ELSE None]

LEMMA StartedFields ==
  ASSUME NEW e, NEW s, NEW mode, NEW anchor, NEW bindTo
  PROVE  LET y == Started(e, s, mode, anchor, bindTo) IN
         y = [step |-> IF mode # "snapshot" THEN "head"
                       ELSE IF xSnapshot.state = "active" THEN "reading" ELSE "done",
              executor |-> e, scope |-> s, mode |-> mode, head |-> 0,
              anchor |-> IF mode = "snapshot" THEN xSnapshot.anchor ELSE anchor,
              answers |-> [l \in Evaluations!LabelsOf(s.adapter) |-> Asked],
              bindTo |-> bindTo,
              result |-> IF mode = "snapshot" /\ xSnapshot.state # "active"
                         THEN Evaluations!Inconclusive("EXECUTION_INVALID") ELSE None]
<1> DEFINE step == IF mode # "snapshot" THEN "head"
                   ELSE IF xSnapshot.state = "active" THEN "reading" ELSE "done"
           at == IF mode = "snapshot" THEN xSnapshot.anchor ELSE anchor
           out == [l \in Evaluations!LabelsOf(s.adapter) |-> Asked]
           result == IF mode = "snapshot" /\ xSnapshot.state # "active"
                   THEN Evaluations!Inconclusive("EXECUTION_INVALID") ELSE None
<1>1. Started(e, s, mode, anchor, bindTo) =
        [Evaluations!Idle EXCEPT
        !.executor = e, !.scope = s, !.mode = mode, !.bindTo = bindTo,
        !.anchor = at, !.step = step, !.answers = out, !.result = result]
  BY DEF Started
<1> HIDE DEF step, at, out, result
<1>3. Started(e, s, mode, anchor, bindTo) =
        [step |-> step, executor |-> e, scope |-> s, mode |-> mode, head |-> 0,
         anchor |-> at, answers |-> out, bindTo |-> bindTo, result |-> result]
  BY <1>1 DEF Evaluations!Idle
<1>4. QED
  BY <1>3, Zenon DEF step, at, out, result

LEMMA BeginKeeps ==
  ASSUME ExecutionInv, NEW r \in Runs, run[r].step = "idle",
         NEW e \in Executors, NEW s \in Evaluations!ValidScopes,
         \E d \in Deployment[e] : d.adapter = s.adapter,
         NEW mode \in {"own", "anchor", "snapshot"}, NEW anchor \in XBlocks \cup {None},
         NEW bindTo,
         bindTo # None => bindTo \in Requests /\ s.adapter = bindTo.adapter /\ mode = "own",
         Evaluations!Begin(r, e, s, mode, anchor, bindTo),
         UNCHANGED <<xBranch, xHeight, xForks, xWorld, xSnapshot, request, binding, accepted>>
  PROVE  ExecutionInv'
<1> DEFINE y == Started(e, s, mode, anchor, bindTo)
<1>1. run' = [run EXCEPT ![r] = y]
  BY Zenon DEF Evaluations!Begin, Started
<1>2. /\ y.step = IF mode # "snapshot" THEN "head"
                  ELSE IF xSnapshot.state = "active" THEN "reading" ELSE "done"
      /\ y.executor = e /\ y.scope = s /\ y.mode = mode /\ y.head = 0
      /\ y.anchor = (IF mode = "snapshot" THEN xSnapshot.anchor ELSE anchor)
      /\ y.answers = [l \in Evaluations!LabelsOf(s.adapter) |-> Asked]
      /\ y.bindTo = bindTo
      /\ y.result = (IF mode = "snapshot" /\ xSnapshot.state # "active"
                     THEN Evaluations!Inconclusive("EXECUTION_INVALID") ELSE None)
  BY StartedFields
<1>3. y.anchor \in XBlocks \cup {None}
  BY <1>2 DEF ExecutionInv, SnapshotOK
<1>4. IsRun(y)
  <2>1. y.step \in RunSteps
    BY <1>2 DEF RunSteps
  <2>2. y = [step |-> y.step, executor |-> y.executor, scope |-> y.scope, mode |-> y.mode,
             head |-> y.head, anchor |-> y.anchor, answers |-> y.answers,
             bindTo |-> y.bindTo, result |-> y.result]
    <3> DEFINE z == [step |-> IF mode # "snapshot" THEN "head"
                       ELSE IF xSnapshot.state = "active" THEN "reading" ELSE "done",
              executor |-> e, scope |-> s, mode |-> mode, head |-> 0,
              anchor |-> IF mode = "snapshot" THEN xSnapshot.anchor ELSE anchor,
              answers |-> [l \in Evaluations!LabelsOf(s.adapter) |-> Asked],
              bindTo |-> bindTo,
              result |-> IF mode = "snapshot" /\ xSnapshot.state # "active"
                         THEN Evaluations!Inconclusive("EXECUTION_INVALID") ELSE None]
    <3>1. y = z
      BY StartedFields
    <3>2. z = [step |-> z.step, executor |-> z.executor, scope |-> z.scope, mode |-> z.mode,
               head |-> z.head, anchor |-> z.anchor, answers |-> z.answers,
               bindTo |-> z.bindTo, result |-> z.result]
      OBVIOUS
    <3> HIDE DEF y, z
    <3>3. QED
      BY <3>1, <3>2
  <2> HIDE DEF y
  <2>3. y.executor = e /\ y.mode = mode /\ y.head = 0
    BY <1>2
  <2>4. QED
    BY <1>3, <2>1, <2>2, <2>3 DEF IsRun
<1> HIDE DEF y
<1>5. Works(y)
  BY <1>2 DEF Works
<1>6. y.step = "reading" => ReadsOneBlock(y)
  BY <1>2 DEF ReadsOneBlock, ExecutionInv, SnapshotOK
<1>7. y.step = "done" => y.result.status = "inconclusive"
  BY <1>2 DEF Evaluations!Inconclusive
<1>8. RunOK(y) /\ ~(y.step = "done" /\ y.result.status = "pass" /\ y.bindTo # None)
  BY <1>2, <1>4, <1>5, <1>6, <1>7 DEF RunOK, UnderWay, Concluded, Evaluations!Measured
<1>9. QED
  BY <1>1, <1>8, RunFrame

\* How the fields of an evaluation are set, one at a time.
WithStep(x, value) == [x EXCEPT !.step = value]
WithHead(x, value) == [x EXCEPT !.head = value]
WithAnchor(x, value) == [x EXCEPT !.anchor = value]
WithAnswers(x, value) == [x EXCEPT !.answers = value]
WithResult(x, value) == [x EXCEPT !.result = value]

LEMMA StepSet ==
  ASSUME NEW x, IsRun(x), NEW value \in RunSteps
  PROVE  LET y == WithStep(x, value) IN
         /\ IsRun(y) /\ y.step = value /\ y.executor = x.executor /\ y.scope = x.scope
         /\ y.mode = x.mode /\ y.head = x.head /\ y.anchor = x.anchor
         /\ y.answers = x.answers /\ y.bindTo = x.bindTo /\ y.result = x.result
BY DEF IsRun, WithStep

LEMMA HeadSet ==
  ASSUME NEW x, IsRun(x), NEW value \in Int
  PROVE  LET y == WithHead(x, value) IN
         /\ IsRun(y) /\ y.step = x.step /\ y.executor = x.executor /\ y.scope = x.scope
         /\ y.mode = x.mode /\ y.head = value /\ y.anchor = x.anchor
         /\ y.answers = x.answers /\ y.bindTo = x.bindTo /\ y.result = x.result
BY DEF IsRun, WithHead

LEMMA AnchorSet ==
  ASSUME NEW x, IsRun(x), NEW value \in XBlocks
  PROVE  LET y == WithAnchor(x, value) IN
         /\ IsRun(y) /\ y.step = x.step /\ y.executor = x.executor /\ y.scope = x.scope
         /\ y.mode = x.mode /\ y.head = x.head /\ y.anchor = value
         /\ y.answers = x.answers /\ y.bindTo = x.bindTo /\ y.result = x.result
BY DEF IsRun, WithAnchor

LEMMA AnswersSet ==
  ASSUME NEW x, IsRun(x), NEW value
  PROVE  LET y == WithAnswers(x, value) IN
         /\ IsRun(y) /\ y.step = x.step /\ y.executor = x.executor /\ y.scope = x.scope
         /\ y.mode = x.mode /\ y.head = x.head /\ y.anchor = x.anchor
         /\ y.answers = value /\ y.bindTo = x.bindTo /\ y.result = x.result
BY DEF IsRun, WithAnswers

LEMMA ResultSet ==
  ASSUME NEW x, IsRun(x), NEW value
  PROVE  LET y == WithResult(x, value) IN
         /\ IsRun(y) /\ y.step = x.step /\ y.executor = x.executor /\ y.scope = x.scope
         /\ y.mode = x.mode /\ y.head = x.head /\ y.anchor = x.anchor
         /\ y.answers = x.answers /\ y.bindTo = x.bindTo /\ y.result = value
BY DEF IsRun, WithResult

\* The two updates of one evaluation the actions make.
Done(x, result) == WithResult(WithStep(x, "done"), result)

LEMMA FinishIsDone ==
  ASSUME ExecutionInv, NEW r \in Runs, NEW result
  PROVE  Evaluations!Finish(r, result) = [run EXCEPT ![r] = Done(run[r], result)]
BY DEF Evaluations!Finish, Done, WithStep, WithResult, ExecutionInv

LEMMA DoneFields ==
  ASSUME NEW x, IsRun(x), NEW value
  PROVE  LET y == Done(x, value) IN
         /\ IsRun(y) /\ y.step = "done" /\ y.executor = x.executor /\ y.scope = x.scope
         /\ y.mode = x.mode /\ y.head = x.head /\ y.anchor = x.anchor
         /\ y.answers = x.answers /\ y.bindTo = x.bindTo /\ y.result = value
<1>1. "done" \in RunSteps
  BY DEF RunSteps
<1>2. IsRun(WithStep(x, "done"))
  BY <1>1, StepSet
<1>3. QED
  BY <1>1, <1>2, StepSet, ResultSet DEF Done

\* An evaluation that ends without a measurement.
LEMMA EndsUnmeasured ==
  ASSUME ExecutionInv, NEW r \in Runs, run[r].step # "done", NEW result,
         result.status \in {"inconclusive", "rejected"},
         run' = Evaluations!Finish(r, result),
         UNCHANGED <<xBranch, xHeight, xForks, xWorld, xSnapshot, request, binding, accepted>>
  PROVE  ExecutionInv'
<1> DEFINE y == Done(run[r], result)
<1>1. run' = [run EXCEPT ![r] = y]
  BY FinishIsDone
<1>2. IsRun(run[r])
  BY DEF ExecutionInv, RunOK
<1>3. IsRun(y) /\ y.step = "done" /\ y.result = result
  BY <1>2, DoneFields
<1> HIDE DEF y
<1>4. RunOK(y) /\ ~(y.step = "done" /\ y.result.status = "pass" /\ y.bindTo # None)
  BY <1>3 DEF RunOK, UnderWay, Concluded, Evaluations!Measured
<1>5. QED
  BY <1>1, <1>4, RunFrame

Answered(e, result) ==
    [Evaluations!Idle EXCEPT !.step = "done", !.executor = e, !.result = result]

LEMMA AnsweredFields ==
  ASSUME NEW e \in Executors, NEW result
  PROVE  LET y == Answered(e, result) IN IsRun(y) /\ y.step = "done" /\ y.result = result
<1> DEFINE y == Answered(e, result)
<1>1. Answered(e, result) =
        [Evaluations!Idle EXCEPT !.step = "done", !.executor = e, !.result = result]
  BY DEF Answered
<1>2. y = [step |-> "done", executor |-> e, scope |-> None, mode |-> None, head |-> 0,
           anchor |-> None, answers |-> None, bindTo |-> None, result |-> result]
  BY <1>1 DEF Evaluations!Idle
<1> HIDE DEF y
<1>3. IsRun(y)
  BY <1>2 DEF IsRun, RunSteps
<1>4. QED
  BY <1>2, <1>3 DEF y

LEMMA AnswerKeeps ==
  ASSUME ExecutionInv, NEW r \in Runs, run[r].step = "idle", NEW e \in Executors,
         NEW code, Evaluations!Answer(r, e, Evaluations!Inconclusive(code)),
         UNCHANGED <<xBranch, xHeight, xForks, xWorld, xSnapshot, request, binding, accepted>>
  PROVE  ExecutionInv'
<1> DEFINE y == Answered(e, Evaluations!Inconclusive(code))
<1>1. run' = [run EXCEPT ![r] = y]
  BY DEF Evaluations!Answer, Answered
<1>2. IsRun(y) /\ y.step = "done" /\ y.result = Evaluations!Inconclusive(code)
  BY AnsweredFields
<1>3. y.result.status = "inconclusive"
  BY <1>2 DEF Evaluations!Inconclusive
<1> HIDE DEF y
<1>4. RunOK(y) /\ ~(y.step = "done" /\ y.result.status = "pass" /\ y.bindTo # None)
  BY <1>2, <1>3 DEF RunOK, UnderWay, Concluded, Evaluations!Measured
<1>5. QED
  BY <1>1, <1>4, RunFrame

LEMMA PinHeadKeeps ==
  ASSUME ExecutionInv, NEW r \in Runs, Evaluations!PinHead(r)
  PROVE  ExecutionInv'
<1>0. /\ run[r].step = "head" /\ RunOK(run[r])
      /\ UNCHANGED <<xBranch, xHeight, xForks, xWorld, xSnapshot, request, binding, accepted>>
  BY DEF Evaluations!PinHead, Evaluations!chainVars, ExecutionInv
<1>1. CASE run' = Evaluations!Finish(r, Evaluations!Unpinned)
  BY <1>0, <1>1, EndsUnmeasured DEF Evaluations!Unpinned, Evaluations!Inconclusive
<1>2. CASE run' = [run EXCEPT ![r].step = "header", ![r].head = xHeight]
  <2> DEFINE y == WithHead(WithStep(run[r], "header"), xHeight)
  <2>1. run' = [run EXCEPT ![r] = y]
    BY <1>2 DEF WithHead, WithStep, ExecutionInv
  <2>2. xHeight \in Depth + 1..MaxHeight /\ xHeight \in Int /\ "header" \in RunSteps
        /\ IsRun(run[r]) /\ Works(run[r])
    BY <1>0, ExecutionConstants DEF ExecutionInv, ChainOK, RunSteps, RunOK, UnderWay
  <2>3. /\ IsRun(y) /\ y.step = "header" /\ y.head = xHeight
        /\ y.executor = run[r].executor /\ y.scope = run[r].scope /\ y.mode = run[r].mode
        /\ y.answers = run[r].answers /\ y.bindTo = run[r].bindTo
    BY <2>2, StepSet, HeadSet
  <2> HIDE DEF y
  <2>4. Works(y)
    BY <2>2, <2>3 DEF Works
  <2>5. RunOK(y) /\ ~(y.step = "done" /\ y.result.status = "pass" /\ y.bindTo # None)
    BY <1>0, <2>2, <2>3, <2>4 DEF RunOK, Concluded
  <2>6. QED
    BY <1>0, <2>1, <2>5, RunFrame
<1>3. QED
  BY <1>1, <1>2 DEF Evaluations!PinHead

LEMMA PinHeaderKeeps ==
  ASSUME ExecutionInv, NEW r \in Runs, Evaluations!PinHeader(r)
  PROVE  ExecutionInv'
<1> DEFINE pinned == Evaluations!Block(run[r].head - Depth)
<1>0. /\ run[r].step = "header" /\ RunOK(run[r])
      /\ UNCHANGED <<xBranch, xHeight, xForks, xWorld, xSnapshot, request, binding, accepted>>
  BY DEF Evaluations!PinHeader, Evaluations!chainVars, ExecutionInv
<1>1. CASE run' = Evaluations!Finish(r, Evaluations!Noncanonical)
  BY <1>0, <1>1, EndsUnmeasured DEF Evaluations!Noncanonical, Evaluations!Inconclusive
<1>2. CASE run' = [run EXCEPT ![r].step = "reading", ![r].anchor = pinned]
  <2> DEFINE y == WithAnchor(WithStep(run[r], "reading"), pinned)
  <2>1. run' = [run EXCEPT ![r] = y]
    BY <1>2 DEF WithAnchor, WithStep, ExecutionInv
  <2>2. pinned \in XBlocks /\ "reading" \in RunSteps /\ IsRun(run[r]) /\ Works(run[r])
    BY <1>0, PinnedIsBlock DEF ExecutionInv, ChainOK, RunSteps, RunOK, UnderWay
  <2> HIDE DEF pinned
  <2>3. /\ IsRun(y) /\ y.step = "reading" /\ y.anchor = pinned
        /\ y.executor = run[r].executor /\ y.scope = run[r].scope /\ y.mode = run[r].mode
        /\ y.answers = run[r].answers /\ y.bindTo = run[r].bindTo
    BY <2>2, StepSet, AnchorSet
  <2> HIDE DEF y
  <2>4. Works(y)
    BY <2>2, <2>3 DEF Works
  <2>5. ReadsOneBlock(y)
    BY <1>0, <2>2, <2>3 DEF RunOK, ReadsOneBlock
  <2>6. RunOK(y) /\ ~(y.step = "done" /\ y.result.status = "pass" /\ y.bindTo # None)
    BY <2>2, <2>3, <2>4, <2>5 DEF RunOK, Concluded
  <2>7. QED
    BY <1>0, <2>1, <2>6, RunFrame
<1>3. QED
  BY <1>1, <1>2 DEF Evaluations!PinHeader

LEMMA StartKeeps ==
  ASSUME ExecutionInv, NEW r \in Runs, NEW e \in Executors, NEW s,
         \/ s \in Evaluations!ValidScopes /\ \E d \in Deployment[e] : d.adapter = s.adapter
         \/ \E code : s = Evaluations!Inconclusive(code),
         NEW place, place[1] \in {"own", "anchor", "snapshot"}, place[2] \in XBlocks \cup {None},
         NEW bindTo,
         bindTo # None /\ s \in Evaluations!ValidScopes =>
             bindTo \in Requests /\ s.adapter = bindTo.adapter /\ place[1] = "own",
         Evaluations!Start(r, e, s, place, bindTo)
  PROVE  ExecutionInv'
<1>1. /\ run[r].step = "idle"
      /\ UNCHANGED <<xBranch, xHeight, xForks, xWorld, xSnapshot, request, binding, accepted>>
      /\ IF Evaluations!IsScope(s)
         THEN Evaluations!Begin(r, e, s, place[1], place[2], bindTo)
         ELSE Evaluations!Answer(r, e, s)
  BY DEF Evaluations!Start, Evaluations!chainVars
<1>2. CASE s \in Evaluations!ValidScopes /\ \E d \in Deployment[e] : d.adapter = s.adapter
  <2>1. Evaluations!IsScope(s)
    BY <1>2 DEF Evaluations!IsScope, Evaluations!ValidScopes
  <2>2. Evaluations!Begin(r, e, s, place[1], place[2], bindTo)
    BY <1>1, <2>1
  <2>3. QED
    BY <1>1, <1>2, <2>2, BeginKeeps
<1>3. ASSUME NEW code, s = Evaluations!Inconclusive(code)
      PROVE  ExecutionInv'
  <2>1. ~Evaluations!IsScope(s)
    BY <1>3 DEF Evaluations!IsScope, Evaluations!Inconclusive
  <2>2. Evaluations!Answer(r, e, Evaluations!Inconclusive(code))
    BY <1>1, <1>3, <2>1
  <2>3. QED
    BY <1>1, <2>2, AnswerKeeps
<1>4. QED
  BY <1>2, <1>3

\* What a selection finds is a scope of the deployment, of the adapter that was named.
LEMMA SelectedIsDeployed ==
  ASSUME NEW e \in Executors, NEW selection
  PROVE  LET s == Evaluations!Selected(e, selection) IN
         \/ /\ s \in Evaluations!ValidScopes /\ s \in Deployment[e]
            /\ selection.adapter \in {None, s.adapter}
         \/ \E code : s = Evaluations!Inconclusive(code)
<1> DEFINE chosen == {s \in Evaluations!Candidates(e, selection.category) :
                        selection.adapter \in {None, s.adapter}}
<1>1. \A s \in chosen : /\ s \in Deployment[e] /\ s \in Evaluations!ValidScopes
                        /\ selection.adapter \in {None, s.adapter}
  BY ExecutionConstants DEF Evaluations!Candidates
<1>2. Evaluations!Selected(e, selection) =
        IF chosen = {} THEN Evaluations!Inconclusive("NOT_CONFIGURED")
        ELSE IF Evaluations!Cardinality(chosen) > 1
             THEN Evaluations!Inconclusive("SELECTION_REQUIRED")
        ELSE CHOOSE s \in chosen : TRUE
  BY DEF Evaluations!Selected
<1>3. chosen # {} => (CHOOSE s \in chosen : TRUE) \in chosen
  OBVIOUS
<1> HIDE DEF chosen
<1>4. \/ \E code : Evaluations!Selected(e, selection) = Evaluations!Inconclusive(code)
      \/ Evaluations!Selected(e, selection) \in chosen
  BY <1>2, <1>3
<1>5. QED
  BY <1>1, <1>4

LEMMA PlaceTypes ==
  ASSUME ExecutionInv, NEW place \in Evaluations!Places
  PROVE  place[1] \in {"own", "anchor", "snapshot"} /\ place[2] \in XBlocks \cup {None}
BY DEF Evaluations!Places, XBlocks

LEMMA CallKeeps ==
  ASSUME ExecutionInv, NEW r \in Runs, Evaluations!Call(r)
  PROVE  ExecutionInv'
<1>1. PICK e \in Executors :
        \/ \E selection \in Evaluations!Selections, place \in Evaluations!Places :
              Evaluations!Evaluate(r, e, selection, place)
        \/ \E s \in MandateScopes, place \in Evaluations!Places :
              Evaluations!EvaluateScope(r, e, s, place)
        \/ Evaluations!EvaluateBound(r, e)
  BY DEF Evaluations!Call
<1>2. ASSUME NEW selection, NEW place \in Evaluations!Places,
             Evaluations!Evaluate(r, e, selection, place)
      PROVE  ExecutionInv'
  <2> DEFINE s == Evaluations!Selected(e, selection)
  <2>1. Evaluations!Start(r, e, s, place, None)
    BY <1>2 DEF Evaluations!Evaluate
  <2>2. \/ s \in Evaluations!ValidScopes /\ \E d \in Deployment[e] : d.adapter = s.adapter
        \/ \E code : s = Evaluations!Inconclusive(code)
    BY SelectedIsDeployed
  <2> HIDE DEF s
  <2>3. QED
    BY <2>1, <2>2, PlaceTypes, StartKeeps
<1>3. ASSUME NEW z \in MandateScopes, NEW place \in Evaluations!Places,
             Evaluations!EvaluateScope(r, e, z, place)
      PROVE  ExecutionInv'
  <2> DEFINE s == Evaluations!Configured(e, z)
  <2>1. Evaluations!Start(r, e, s, place, None)
    BY <1>3 DEF Evaluations!EvaluateScope
  <2>2. \/ s \in Evaluations!ValidScopes /\ \E d \in Deployment[e] : d.adapter = s.adapter
        \/ \E code : s = Evaluations!Inconclusive(code)
    BY ExecutionConstants DEF Evaluations!Configured
  <2> HIDE DEF s
  <2>3. QED
    BY <2>1, <2>2, PlaceTypes, StartKeeps
<1>4. CASE Evaluations!EvaluateBound(r, e)
  <2> DEFINE selection == [category |-> Evaluations!CategoryOf(request.adapter),
                           adapter |-> request.adapter]
             s == Evaluations!Selected(e, selection)
  <2>1. Evaluations!Start(r, e, s, <<"own", None>>, request)
    BY <1>4 DEF Evaluations!EvaluateBound
  <2>2. request \in Requests /\ request.adapter \in Evaluations!AdapterIds
        /\ request.adapter # None
    BY ExecutionConstants DEF ExecutionInv
  <2>3. selection.adapter = request.adapter
    OBVIOUS
  <2> HIDE DEF selection
  <2>4. \/ /\ s \in Evaluations!ValidScopes /\ s \in Deployment[e]
           /\ s.adapter = request.adapter
        \/ \E code : s = Evaluations!Inconclusive(code)
    BY <2>2, <2>3, SelectedIsDeployed
  <2>5. ASSUME NEW code, s = Evaluations!Inconclusive(code)
        PROVE  s \notin Evaluations!ValidScopes
    BY <2>5 DEF Evaluations!Inconclusive, Evaluations!ValidScopes
  <2> HIDE DEF s
  <2>6. <<"own", None>>[1] = "own" /\ <<"own", None>>[2] = None
    OBVIOUS
  <2>7. s \in Evaluations!ValidScopes => s.adapter = request.adapter
    BY <2>4, <2>5
  <2> DEFINE place == <<"own", None>>
  <2> HIDE DEF place
  <2>8. QED
    BY <2>1, <2>2, <2>4, <2>6, <2>7, StartKeeps DEF place
<1>5. QED
  BY <1>1, <1>2, <1>3, <1>4

LEMMA UnreadableKeeps ==
  ASSUME ExecutionInv, NEW r \in Runs, Evaluations!Unreadable(r)
  PROVE  ExecutionInv'
<1>1. /\ UNCHANGED <<xBranch, xHeight, xForks, xWorld, xSnapshot, request, binding, accepted>>
      /\ run[r].step # "done"
      /\ \E v \in {Evaluations!Unpinned, Evaluations!Rejected} : run' = Evaluations!Finish(r, v)
  BY DEF Evaluations!Unreadable, Evaluations!chainVars
<1>2. \A v \in {Evaluations!Unpinned, Evaluations!Rejected} :
         v.status \in {"inconclusive", "rejected"}
  BY DEF Evaluations!Unpinned, Evaluations!Rejected, Evaluations!Inconclusive
<1>3. QED
  BY <1>1, <1>2, EndsUnmeasured

LEMMA ReadStateKeeps ==
  ASSUME ExecutionInv, NEW r \in Runs, NEW l, Evaluations!ReadState(r, l)
  PROVE  ExecutionInv'
<1> DEFINE x == run[r]
<1>1. /\ x.step = "reading" /\ l \in DOMAIN x.answers
      /\ UNCHANGED <<xBranch, xHeight, xForks, xWorld, xSnapshot, request, binding, accepted>>
  BY DEF Evaluations!ReadState, Evaluations!chainVars
<1>2. PICK answer \in {Evaluations!State(r, l), None} :
         run' = [run EXCEPT ![r].answers[l] = answer]
  BY DEF Evaluations!ReadState
<1>3. RunOK(x) /\ IsRun(x) /\ Works(x) /\ ReadsOneBlock(x)
  BY <1>1 DEF ExecutionInv, RunOK, UnderWay
<1> DEFINE read == [x.answers EXCEPT ![l] = answer]
           y == WithAnswers(x, read)
<1>4. run' = [run EXCEPT ![r] = y]
  BY <1>2 DEF WithAnswers, ExecutionInv
<1>5. answer \in {None, xWorld[x.anchor][l]}
  BY <1>2 DEF Evaluations!State
<1>6. xWorld[x.anchor][l] \in Evaluations!Data
  <2>1. xWorld[x.anchor] \in [Evaluations!Labels -> Evaluations!Data]
    BY <1>3, ExecutionConstants DEF ExecutionInv, ChainOK, ReadsOneBlock
  <2>2. l \in Evaluations!Labels
    BY <1>1, <1>3 DEF Works, Evaluations!Labels, Evaluations!ValidScopes
  <2>3. QED
    BY <2>1, <2>2
<1>7. answer \in Evaluations!Data
  BY <1>5, <1>6 DEF Evaluations!Data
<1>8. read \in [Evaluations!LabelsOf(x.scope.adapter) -> Evaluations!Data \cup {Asked}]
  BY <1>1, <1>3, <1>7 DEF Works
<1>9. \A k \in DOMAIN read : read[k] \in {Asked, None, xWorld[x.anchor][k]}
  BY <1>3, <1>5 DEF ReadsOneBlock
<1> HIDE DEF read
<1>10. /\ IsRun(y) /\ y.step = x.step /\ y.executor = x.executor /\ y.scope = x.scope
       /\ y.mode = x.mode /\ y.anchor = x.anchor /\ y.answers = read /\ y.bindTo = x.bindTo
  BY <1>3, AnswersSet
<1> HIDE DEF x, y
<1>11. Works(y) /\ ReadsOneBlock(y)
  BY <1>3, <1>8, <1>9, <1>10 DEF Works, ReadsOneBlock
<1>12. RunOK(y) /\ ~(y.step = "done" /\ y.result.status = "pass" /\ y.bindTo # None)
  BY <1>1, <1>10, <1>11 DEF RunOK, Concluded
<1>13. QED
  BY <1>1, <1>4, <1>12, RunFrame DEF x

LEMMA MeasuredIsComplete ==
  ASSUME NEW s, NEW v, NEW reads, Evaluations!ArtifactAccepts(s, v, reads),
         v.status \in {"pass", "fail"}
  PROVE  \A l \in DOMAIN reads : reads[l] # None
<1>1. CASE v.status = "pass"
  BY <1>1 DEF Evaluations!ArtifactAccepts
<1>2. CASE v.status = "fail"
  BY <1>2 DEF Evaluations!ArtifactAccepts
<1>3. QED
  BY <1>1, <1>2

\* The artifact of an evaluation all of whose reads are answered.
LEMMA VerdictIsTrueOfBlock ==
  ASSUME NEW r \in Runs, Works(run[r]), ReadsOneBlock(run[r]), Evaluations!AllAnswered(r)
  PROVE  LET v == Evaluations!Verdict(r) IN
         /\ v.status \in Evaluations!Measured \cup {"inconclusive"}
         /\ v.status = "pass" =>
               /\ Evaluations!Established(run[r].scope, Truth(run[r]))
               /\ Evaluations!Satisfied(run[r].scope, Truth(run[r]))
         /\ v.status = "fail" =>
               /\ Evaluations!Established(run[r].scope, Truth(run[r]))
               /\ ~Evaluations!Satisfied(run[r].scope, Truth(run[r]))
<1> DEFINE x == run[r]
           s == x.scope
           reads == x.answers
           j == Evaluations!Judge(s, reads)
           v == Evaluations!Verdict(r)
<1>1. s \in Evaluations!ValidScopes
      /\ reads \in [Evaluations!LabelsOf(s.adapter) -> Evaluations!Data \cup {Asked}]
  BY DEF Works
<1>2. \A l \in DOMAIN reads : reads[l] # Asked
  BY DEF Evaluations!AllAnswered
<1>3. \A l \in DOMAIN reads : reads[l] \in {None, xWorld[x.anchor][l]}
  BY <1>2 DEF ReadsOneBlock
<1>4. Truth(x) = [l \in DOMAIN reads |-> xWorld[x.anchor][l]]
  BY DEF Truth
<1>5. v = IF j.status # "throws" /\ Evaluations!ArtifactAccepts(s, j, reads) THEN j
          ELSE Evaluations!Inconclusive("EXECUTION_INVALID")
  BY DEF Evaluations!Verdict
<1> HIDE DEF s, reads, x, v
<1>6. reads \in [Evaluations!LabelsOf(s.adapter) -> Evaluations!Data]
  BY <1>1, <1>2
<1>7. JudgesWell(s, reads)
  BY <1>1, <1>6, EveryAdapterJudgesWell
<1>8. CASE j.status # "throws" /\ Evaluations!ArtifactAccepts(s, j, reads)
  <2>1. v = j /\ v.status \in Evaluations!Measured
    BY <1>5, <1>7, <1>8 DEF JudgesWell, Evaluations!Measured
  <2>2. v.status \in {"pass", "fail"} => reads = Truth(x)
    <3>1. ASSUME v.status \in {"pass", "fail"}
          PROVE  \A l \in DOMAIN reads : reads[l] = xWorld[x.anchor][l]
      BY <1>3, <1>8, <2>1, <3>1, MeasuredIsComplete
    <3>2. reads = [l \in DOMAIN reads |-> reads[l]]
      BY <1>6
    <3>3. QED
      BY <1>4, <3>1, <3>2
  <2>3. QED
    BY <1>7, <2>1, <2>2 DEF JudgesWell, s, x, v
<1>9. CASE ~(j.status # "throws" /\ Evaluations!ArtifactAccepts(s, j, reads))
  <2>1. v.status = "inconclusive"
    BY <1>5, <1>9 DEF Evaluations!Inconclusive
  <2>2. QED
    BY <2>1 DEF v
<1>10. QED
  BY <1>8, <1>9

LEMMA ConcludeKeeps ==
  ASSUME ExecutionInv, NEW r \in Runs, Evaluations!Conclude(r)
  PROVE  ExecutionInv'
<1> DEFINE x == run[r]
           v == Evaluations!Verdict(r)
           step == IF x.mode = "snapshot" THEN "done" ELSE "closing"
           y == WithStep(WithResult(x, v), step)
<1>1. /\ x.step = "reading" /\ Evaluations!AllAnswered(r)
      /\ UNCHANGED <<xBranch, xHeight, xForks, xWorld, xSnapshot, request, binding, accepted>>
      /\ run' = [run EXCEPT ![r].result = v, ![r].step = step]
  BY DEF Evaluations!Conclude, Evaluations!chainVars
<1>2. RunOK(x) /\ IsRun(x) /\ Works(x) /\ ReadsOneBlock(x)
  BY <1>1 DEF ExecutionInv, RunOK, UnderWay
<1>3. /\ v.status \in Evaluations!Measured \cup {"inconclusive"}
      /\ v.status = "pass" => /\ Evaluations!Established(x.scope, Truth(x))
                              /\ Evaluations!Satisfied(x.scope, Truth(x))
      /\ v.status = "fail" => /\ Evaluations!Established(x.scope, Truth(x))
                              /\ ~Evaluations!Satisfied(x.scope, Truth(x))
  BY <1>1, <1>2, VerdictIsTrueOfBlock
<1> HIDE DEF v
<1>4. run' = [run EXCEPT ![r] = y]
  BY <1>1 DEF WithStep, WithResult, ExecutionInv
<1>5. step \in RunSteps
  BY DEF RunSteps
<1>6. (x.mode = "snapshot" /\ step = "done") \/ (x.mode # "snapshot" /\ step = "closing")
  OBVIOUS
<1> HIDE DEF x, step
<1>7. /\ IsRun(y) /\ y.step = step /\ y.executor = x.executor /\ y.scope = x.scope
      /\ y.mode = x.mode /\ y.anchor = x.anchor /\ y.answers = x.answers
      /\ y.bindTo = x.bindTo /\ y.result = v
  <2>1. /\ IsRun(WithResult(x, v)) /\ WithResult(x, v).executor = x.executor
        /\ WithResult(x, v).scope = x.scope /\ WithResult(x, v).mode = x.mode
        /\ WithResult(x, v).anchor = x.anchor /\ WithResult(x, v).answers = x.answers
        /\ WithResult(x, v).bindTo = x.bindTo /\ WithResult(x, v).result = v
    BY <1>2, ResultSet
  <2>2. QED
    BY <1>5, <2>1, StepSet
<1> HIDE DEF y
<1>8. Works(y) /\ ReadsOneBlock(y)
  BY <1>2, <1>7 DEF Works, ReadsOneBlock
<1>9. TruthOfOneBlock(y)
  BY <1>3, <1>7 DEF TruthOfOneBlock, Truth
<1>10. y.step = "done" => y.bindTo = None
  BY <1>2, <1>6, <1>7 DEF Works
<1>11. RunOK(y)
  BY <1>3, <1>6, <1>7, <1>8, <1>9 DEF RunOK, Concluded, UnderWay
<1>12. QED
  BY <1>1, <1>4, <1>10, <1>11, RunFrame DEF x

\* A step that binds one evaluation, which was not bound or stays bound as it was.
LEMMA BoundFrame ==
  ASSUME ExecutionInv, NEW r \in Runs, NEW y, NEW b \in Bindings, binding[r] \in {None, b},
         DOMAIN run' = Runs, run'[r] = y, \A q \in Runs \ {r} : run'[q] = run[q],
         binding' = [binding EXCEPT ![r] = b],
         UNCHANGED <<xBranch, xHeight, xForks, xWorld, xSnapshot, request, accepted>>,
         RunOK(y), BindingOK(y, b)
  PROVE  ExecutionInv'
<1>1. /\ DOMAIN run' = Runs /\ run'[r] = y
      /\ \A q \in Runs \ {r} : run'[q] = run[q]
  OBVIOUS
<1>2. /\ DOMAIN binding' = Runs /\ binding'[r] = b
      /\ \A q \in Runs \ {r} : binding'[q] = binding[q]
  BY DEF ExecutionInv
<1>3. \A x : RunOK(x)' <=> RunOK(x)
  BY DEF RunOK, IsRun, Works, ReadsOneBlock, TruthOfOneBlock, Truth, Concluded, UnderWay
<1>4. \A q \in Runs : RunOK(run'[q]) /\ BindingOK(run'[q], binding'[q])
  BY <1>1, <1>2 DEF ExecutionInv
<1>5. (\A q \in Runs : RunOK(run[q]) /\ BindingOK(run[q], binding[q]))'
  BY <1>3, <1>4 DEF BindingOK
<1>6. AcceptedOK'
  <2>1. SUFFICES ASSUME NEW x \in accepted
                 PROVE  binding'[x[1]] = x[2]
    BY DEF AcceptedOK, ExecutionInv
  <2>2. x[1] \in Runs /\ x[2] \in Bindings /\ binding[x[1]] = x[2] /\ x[2] # None
    BY ExecutionConstants DEF AcceptedOK, ExecutionInv
  <2>3. QED
    BY <1>2, <2>2
<1>7. ChainOK' /\ SnapshotOK' /\ request' \in Requests
  BY DEF ExecutionInv, ChainOK, SnapshotOK
<1>8. QED
  BY <1>1, <1>2, <1>5, <1>6, <1>7 DEF ExecutionInv

LEMMA CloseKeeps ==
  ASSUME ExecutionInv, NEW r \in Runs, Evaluations!Close(r)
  PROVE  ExecutionInv' /\ \A q \in Runs : binding[q] # None => binding'[q] = binding[q]
<1> DEFINE x == run[r]
           holds == Evaluations!Canonical(x.anchor)
           binds == holds /\ x.result.status = "pass" /\ x.bindTo # None
           b == Evaluations!BoundTo(r, x.executor, x.scope.adapter, Evaluations!BoundContext(r))
           y == WithStep(x, "done")
<1>1. /\ x.step = "closing"
      /\ UNCHANGED <<xBranch, xHeight, xForks, xWorld, xSnapshot, request, accepted>>
      /\ run' = IF holds THEN [run EXCEPT ![r].step = "done"]
                         ELSE Evaluations!Finish(r, Evaluations!Noncanonical)
      /\ binding' = IF binds THEN [binding EXCEPT ![r] = b] ELSE binding
  BY DEF Evaluations!Close, Evaluations!chainVars
<1>2. RunOK(x) /\ IsRun(x) /\ Works(x) /\ ReadsOneBlock(x) /\ TruthOfOneBlock(x)
      /\ x.result.status \in Evaluations!Measured \cup {"inconclusive"}
  BY <1>1 DEF ExecutionInv, RunOK, UnderWay
<1>3. binding[r] = None
  BY <1>1 DEF ExecutionInv, BindingOK
<1>4. DOMAIN run = Runs /\ DOMAIN binding = Runs
  BY DEF ExecutionInv
<1>5. b = [executor |-> x.executor, adapter |-> x.scope.adapter, context |-> x.bindTo.context]
  BY DEF Evaluations!BoundTo, Evaluations!BoundContext
<1> HIDE DEF holds, b, x
<1>6. \A q \in Runs : binding[q] # None => binding'[q] = binding[q]
  BY <1>1, <1>3, <1>4
<1>7. /\ IsRun(y) /\ y.step = "done" /\ y.executor = x.executor /\ y.scope = x.scope
      /\ y.mode = x.mode /\ y.anchor = x.anchor /\ y.answers = x.answers
      /\ y.bindTo = x.bindTo /\ y.result = x.result
  BY <1>2, StepSet DEF RunSteps
<1> HIDE DEF y
<1>8. Works(y) /\ ReadsOneBlock(y) /\ TruthOfOneBlock(y)
  BY <1>2, <1>7 DEF Works, ReadsOneBlock, TruthOfOneBlock, Truth
<1>9. RunOK(y)
  BY <1>2, <1>7, <1>8 DEF RunOK, UnderWay
<1>10. CASE ~holds
  <2>1. run' = Evaluations!Finish(r, Evaluations!Noncanonical) /\ binding' = binding
    BY <1>1, <1>10
  <2>2. run[r].step # "done"
    BY <1>1 DEF x
  <2>3. QED
    BY <1>1, <1>6, <2>1, <2>2, EndsUnmeasured
       DEF Evaluations!Noncanonical, Evaluations!Inconclusive
<1>11. CASE holds
  <2>1. run' = [run EXCEPT ![r] = y]
    BY <1>1, <1>4, <1>11 DEF WithStep, x, y
  <2>2. CASE ~binds
    <3>1. binding' = binding /\ run[r].step # "done"
      BY <1>1, <2>2 DEF x
    <3>2. ~(y.step = "done" /\ y.result.status = "pass" /\ y.bindTo # None)
      BY <1>7, <1>11, <2>2
    <3>3. QED
      BY <1>1, <1>6, <1>9, <2>1, <3>1, <3>2, RunFrame
  <2>3. CASE binds
    <3>1. binding' = [binding EXCEPT ![r] = b]
      BY <1>1, <2>3
    <3>2. /\ x.executor \in Executors /\ x.scope.adapter \in Evaluations!AdapterIds
          /\ x.bindTo.context \in Contexts
      BY <1>2, <2>3, ExecutionConstants DEF Works, Evaluations!ValidScopes
    <3>3. b \in Bindings
      BY <1>5, <3>2 DEF Bindings
    <3>4. BindingOK(y, b)
      BY <1>5, <1>7, <2>3, <3>3, ExecutionConstants DEF BindingOK
    <3>5. DOMAIN run' = Runs /\ run'[r] = y /\ \A q \in Runs \ {r} : run'[q] = run[q]
      BY <1>4, <2>1
    <3>6. QED
      BY <1>1, <1>3, <1>6, <1>9, <3>1, <3>3, <3>4, <3>5, BoundFrame
  <2>4. QED
    BY <2>2, <2>3
<1>12. QED
  BY <1>10, <1>11

LEMMA BindKeeps ==
  ASSUME ExecutionInv, NEW r \in Runs, NEW e \in Executors, NEW a \in Evaluations!AdapterIds,
         NEW c \in Contexts, Evaluations!Bind(r, e, a, c)
  PROVE  ExecutionInv' /\ \A q \in Runs : binding[q] # None => binding'[q] = binding[q]
<1> DEFINE x == run[r]
           b == Evaluations!BoundTo(r, e, a, c)
<1>1. /\ x.step = "done" /\ x.result.status = "pass" /\ x.executor = e /\ x.scope.adapter = a
      /\ binding[r] \in {None, b}
      /\ binding' = [binding EXCEPT ![r] = b]
      /\ UNCHANGED <<xBranch, xHeight, xForks, xWorld, xSnapshot, request, accepted, run>>
  BY DEF Evaluations!Bind, Evaluations!Trusted, Evaluations!chainVars
<1>2. RunOK(x) /\ BindingOK(x, binding[r]) /\ DOMAIN binding = Runs /\ DOMAIN run = Runs
  BY DEF ExecutionInv
<1>3. b = [executor |-> e, adapter |-> a, context |-> c]
  BY DEF Evaluations!BoundTo
<1>4. b \in Bindings
  BY <1>3 DEF Bindings
<1>5. DOMAIN run' = Runs /\ run'[r] = x /\ \A q \in Runs \ {r} : run'[q] = run[q]
  BY <1>1, <1>2
<1> HIDE DEF x, b
<1>6. BindingOK(x, b)
  BY <1>1, <1>2, <1>3, <1>4, ExecutionConstants DEF BindingOK
<1>7. ExecutionInv'
  BY <1>1, <1>2, <1>4, <1>5, <1>6, BoundFrame
<1>8. QED
  BY <1>1, <1>2, <1>7

LEMMA AssertBoundKeeps ==
  ASSUME ExecutionInv, NEW r \in Runs, NEW e \in Executors, NEW a \in Evaluations!AdapterIds,
         NEW c \in Contexts, Evaluations!AssertBound(r, e, a, c)
  PROVE  ExecutionInv'
<1> DEFINE b == Evaluations!BoundTo(r, e, a, c)
<1>1. /\ binding[r] = b /\ accepted' = accepted \cup {<<r, b>>}
      /\ UNCHANGED <<xBranch, xHeight, xForks, xWorld, xSnapshot, request, run, binding>>
  BY DEF Evaluations!AssertBound, Evaluations!chainVars
<1>2. b \in Bindings
  BY DEF Bindings, Evaluations!BoundTo
<1> HIDE DEF b
<1>3. AcceptedOK'
  BY <1>1, <1>2 DEF AcceptedOK, ExecutionInv
<1>4. ChainOK' /\ SnapshotOK' /\ request' \in Requests
  BY <1>1 DEF ExecutionInv, ChainOK, SnapshotOK
<1>5. QED
  BY <1>1, <1>3, <1>4, OtherFrame

\* The chain, the snapshot of someone else and the caller's object.
LEMMA SurroundingsKeep ==
  ASSUME ExecutionInv,
         \/ Evaluations!Mine \/ Evaluations!Reorganize \/ Evaluations!OpenSnapshot
         \/ Evaluations!EndSnapshot \/ Evaluations!ChangeRequest
  PROVE  ExecutionInv' /\ UNCHANGED binding
<1>1. UNCHANGED <<xWorld, run, binding, accepted>>
  BY DEF Evaluations!Mine, Evaluations!Reorganize, Evaluations!OpenSnapshot,
         Evaluations!EndSnapshot, Evaluations!ChangeRequest, Evaluations!chainVars
<1>2. ChainOK'
  BY ExecutionConstants DEF ExecutionInv, ChainOK, Evaluations!Mine, Evaluations!Reorganize,
     Evaluations!OpenSnapshot, Evaluations!EndSnapshot, Evaluations!ChangeRequest,
     Evaluations!chainVars
<1>3. SnapshotOK'
  <2>1. CASE UNCHANGED xSnapshot
    BY <2>1 DEF ExecutionInv, SnapshotOK
  <2>2. CASE xSnapshot.state = "none"
             /\ xSnapshot' = [xSnapshot EXCEPT !.state = "pinning", !.head = xHeight]
    <3>1. xHeight \in Depth + 1..MaxHeight /\ xHeight \in 0..MaxHeight
      BY ExecutionConstants DEF ExecutionInv, ChainOK
    <3>2. QED
      BY <2>2, <3>1 DEF ExecutionInv, SnapshotOK
  <2>3. CASE /\ xSnapshot.state = "pinning"
             /\ xSnapshot' = [xSnapshot EXCEPT !.state = "active",
                                  !.anchor = Evaluations!Block(xSnapshot.head - Depth)]
    <3>1. Evaluations!Block(xSnapshot.head - Depth) \in XBlocks
      BY <2>3, PinnedIsBlock DEF ExecutionInv, SnapshotOK, ChainOK
    <3>2. QED
      BY <2>3, <3>1 DEF ExecutionInv, SnapshotOK
  <2>4. CASE Evaluations!EndSnapshot
    BY <2>4 DEF ExecutionInv, SnapshotOK, Evaluations!EndSnapshot
  <2>5. QED
    BY <2>1, <2>2, <2>3, <2>4 DEF Evaluations!Mine, Evaluations!Reorganize,
       Evaluations!OpenSnapshot, Evaluations!ChangeRequest
<1>4. request' \in Requests
  BY DEF ExecutionInv, Evaluations!Mine, Evaluations!Reorganize,
     Evaluations!OpenSnapshot, Evaluations!EndSnapshot, Evaluations!ChangeRequest
<1>5. AcceptedOK'
  BY <1>1 DEF ExecutionInv, AcceptedOK
<1>6. QED
  BY <1>1, <1>2, <1>3, <1>4, <1>5, OtherFrame

\* Nothing is evaluated at first.
LEMMA InitExecution ==
  ASSUME Evaluations!Init
  PROVE  ExecutionInv
<1>1. /\ Evaluations!Idle.step = "idle" /\ IsRun(Evaluations!Idle)
  BY DEF Evaluations!Idle, IsRun, RunSteps
<1>2. RunOK(Evaluations!Idle) /\ BindingOK(Evaluations!Idle, None)
  BY <1>1 DEF RunOK, BindingOK, UnderWay, Concluded
<1>3. /\ DOMAIN run = Runs /\ DOMAIN binding = Runs
      /\ \A r \in Runs : run[r] = Evaluations!Idle /\ binding[r] = None
  BY DEF Evaluations!Init
<1>4. \A r \in Runs : RunOK(run[r]) /\ BindingOK(run[r], binding[r])
  BY <1>2, <1>3
<1>5. ChainOK
  BY ExecutionConstants DEF Evaluations!Init, ChainOK, XBlocks
<1>6. SnapshotOK /\ AcceptedOK /\ request \in Requests
  BY ExecutionConstants DEF Evaluations!Init, SnapshotOK, AcceptedOK
<1>7. QED
  BY <1>3, <1>4, <1>5, <1>6 DEF ExecutionInv

\* Every step keeps the invariant, and none changes or takes away a binding.
LEMMA NextExecution ==
  ASSUME ExecutionInv, Evaluations!Next
  PROVE  ExecutionInv' /\ Evaluations!BindsForGood
<1>1. SUFFICES ExecutionInv' /\ \A q \in Runs : binding[q] # None => binding'[q] = binding[q]
  BY DEF Evaluations!BindsForGood
<1>2. CASE \/ Evaluations!Mine \/ Evaluations!Reorganize \/ Evaluations!OpenSnapshot
           \/ Evaluations!EndSnapshot \/ Evaluations!ChangeRequest
  BY <1>2, SurroundingsKeep
<1>3. ASSUME NEW r \in Runs,
             Evaluations!Call(r) \/ Evaluations!Step(r) \/ Evaluations!Use(r)
      PROVE  ExecutionInv' /\ \A q \in Runs : binding[q] # None => binding'[q] = binding[q]
  <2>1. CASE Evaluations!Call(r)
    <3>1. UNCHANGED binding
      BY <2>1 DEF Evaluations!Call, Evaluations!Evaluate, Evaluations!EvaluateScope,
         Evaluations!EvaluateBound, Evaluations!Start
    <3>2. QED
      BY <2>1, <3>1, CallKeeps
  <2>2. CASE Evaluations!PinHead(r)
    BY <2>2, PinHeadKeeps DEF Evaluations!PinHead
  <2>3. CASE Evaluations!PinHeader(r)
    BY <2>3, PinHeaderKeeps DEF Evaluations!PinHeader
  <2>4. CASE Evaluations!Conclude(r)
    BY <2>4, ConcludeKeeps DEF Evaluations!Conclude
  <2>5. CASE Evaluations!Close(r)
    BY <2>5, CloseKeeps
  <2>6. CASE Evaluations!Unreadable(r)
    BY <2>6, UnreadableKeeps DEF Evaluations!Unreadable
  <2>7. ASSUME NEW l \in Evaluations!Labels, Evaluations!ReadState(r, l)
        PROVE  ExecutionInv' /\ UNCHANGED binding
    BY <2>7, ReadStateKeeps DEF Evaluations!ReadState
  <2>8. ASSUME NEW e \in Executors, NEW a \in Evaluations!AdapterIds, NEW c \in Contexts,
               Evaluations!Bind(r, e, a, c) \/ Evaluations!AssertBound(r, e, a, c)
        PROVE  ExecutionInv' /\ \A q \in Runs : binding[q] # None => binding'[q] = binding[q]
    <3>1. CASE Evaluations!Bind(r, e, a, c)
      BY <3>1, BindKeeps
    <3>2. CASE Evaluations!AssertBound(r, e, a, c)
      <4>1. UNCHANGED binding
        BY <3>2 DEF Evaluations!AssertBound
      <4>2. QED
        BY <3>2, <4>1, AssertBoundKeeps
    <3>3. QED
      BY <2>8, <3>1, <3>2
  <2>9. QED
    BY <1>3, <2>1, <2>2, <2>3, <2>4, <2>5, <2>6, <2>7, <2>8
    DEF Evaluations!Step, Evaluations!Use
<1>4. QED
  BY <1>2, <1>3 DEF Evaluations!Next

LEMMA ExecutionRests ==
  ASSUME ExecutionInv, UNCHANGED executing
  PROVE  ExecutionInv' /\ Evaluations!BindsForGood
<1>1. UNCHANGED <<xBranch, xHeight, xForks, xWorld, xSnapshot, request, run, binding, accepted>>
  BY DEF executing
<1>2. ChainOK' /\ SnapshotOK' /\ request' \in Requests /\ AcceptedOK'
  BY <1>1 DEF ExecutionInv, ChainOK, SnapshotOK, AcceptedOK
<1>3. QED
  BY <1>1, <1>2, OtherFrame DEF Evaluations!BindsForGood

\* What the invariant says of the results.
LEMMA EvaluationsAreSound ==
  ASSUME ExecutionInv
  PROVE  /\ Evaluations!TypeOK /\ Evaluations!VerdictIsOfOneBlock
         /\ Evaluations!AcceptedOnceAndOwn /\ Evaluations!BoundAsAsked
<1> USE DEF ExecutionInv
<1>1. Evaluations!TypeOK
  <2>1. /\ xBranch \in Branches /\ xHeight \in 1..MaxHeight /\ xForks \in 0..MaxForks
        /\ xWorld \in [Evaluations!Blocks -> Readings] /\ request \in Requests
        /\ xSnapshot \in [state : {"none", "pinning", "active", "over"}, head : 0..MaxHeight,
                          anchor : Evaluations!Blocks \cup {None}]
    BY ExecutionConstants DEF ChainOK, SnapshotOK, XBlocks
  <2>2. ASSUME NEW r \in Runs
        PROVE  /\ run[r].step \in {"idle", "head", "header", "reading", "closing", "done"}
               /\ run[r].executor \in Executors \cup {None}
               /\ run[r].mode \in {None, "own", "anchor", "snapshot"}
               /\ run[r].anchor \in Evaluations!Blocks \cup {None}
    BY DEF RunOK, IsRun, RunSteps, XBlocks
  <2>3. ASSUME NEW r \in Runs
        PROVE  /\ run[r].step \in {"reading", "closing"} => run[r].anchor # None
               /\ run[r].step = "done" =>
                     run[r].result.status \in Evaluations!Measured \cup {"inconclusive", "rejected"}
               /\ binding[r] = None \/ binding[r] \in
                     [executor : Executors, adapter : Evaluations!AdapterIds, context : Contexts]
    BY ExecutionConstants DEF RunOK, ReadsOneBlock, BindingOK, Bindings
  <2>4. QED
    BY <2>1, <2>2, <2>3 DEF Evaluations!TypeOK
<1>2. Evaluations!VerdictIsOfOneBlock
  BY DEF Evaluations!VerdictIsOfOneBlock, RunOK, TruthOfOneBlock, Truth, Concluded,
     Evaluations!Measured
<1>3. Evaluations!AcceptedOnceAndOwn
  <2>1. ASSUME NEW x \in accepted
        PROVE  /\ run[x[1]].result.status = "pass"
               /\ run[x[1]].executor = x[2].executor
               /\ \E s \in Deployment[x[2].executor] : s.adapter = x[2].adapter
               /\ \A y \in accepted : x[1] = y[1] => x = y
    <3>1. /\ x \in Runs \X Bindings /\ binding[x[1]] = x[2] /\ x[1] \in Runs /\ x[2] # None
          /\ \A y \in accepted : y \in Runs \X Bindings /\ binding[y[1]] = y[2]
      BY ExecutionConstants DEF AcceptedOK
    <3>2. /\ run[x[1]].step = "done" /\ run[x[1]].result.status = "pass"
          /\ run[x[1]].executor = x[2].executor /\ run[x[1]].scope.adapter = x[2].adapter
      BY <3>1 DEF BindingOK
    <3>3. Works(run[x[1]])
      BY <3>1, <3>2 DEF RunOK, Concluded, Evaluations!Measured
    <3>4. QED
      BY <3>1, <3>2, <3>3 DEF Works
  <2>2. QED
    BY <2>1 DEF Evaluations!AcceptedOnceAndOwn
<1>4. Evaluations!BoundAsAsked
  <2>1. ASSUME NEW r \in Runs, run[r].bindTo # None, binding[r] # None
        PROVE  /\ binding[r].context = run[r].bindTo.context
               /\ binding[r].adapter = run[r].bindTo.adapter
    <3>1. /\ run[r].step = "done" /\ run[r].result.status = "pass"
          /\ run[r].scope.adapter = binding[r].adapter
          /\ binding[r].context = run[r].bindTo.context
      BY <2>1 DEF BindingOK
    <3>2. Works(run[r])
      BY <3>1 DEF RunOK, Concluded, Evaluations!Measured
    <3>3. QED
      BY <2>1, <3>1, <3>2 DEF Works
  <2>2. QED
    BY <2>1 DEF Evaluations!BoundAsAsked
<1>5. QED
  BY <1>1, <1>2, <1>3, <1>4

-----------------------------------------------------------------------------
(* Judgements.                                                             *)

JudgementInv ==
    /\ scope \in JudgedScopes /\ answers \in ReadAnswers(scope.adapter)
    /\ verdict \in {None, Evaluations!Judge(scope, answers)}

LEMMA JudgementsAreSound ==
  ASSUME JudgementInv
  PROVE  VerdictIsTrue /\ MeasuredIsJudged /\ SchemaAgrees
<1>1. /\ scope \in Evaluations!ValidScopes
      /\ answers \in [Evaluations!LabelsOf(scope.adapter) -> Evaluations!Data]
  BY JudgementAssumption DEF JudgementInv
<1>2. JudgesWell(scope, answers)
  BY <1>1, EveryAdapterJudgesWell
<1>3. verdict # None => verdict = Evaluations!Judge(scope, answers)
  BY DEF JudgementInv
<1>4. QED
  BY <1>2, <1>3 DEF JudgesWell, VerdictIsTrue, MeasuredIsJudged, SchemaAgrees

-----------------------------------------------------------------------------
(* Observations of a target.                                               *)

TargetSteps == Target!Steps \cup {"idle", "verified", "refused", "failed"}
Reading == Target!Steps \ {"chainId", "head", "header"}

\* The fields of an observation.
IsCall(x) ==
    x \in [step : TargetSteps, input : {x.input}, asked : {x.asked},
           anchor : Target!Anchors \cup {None}, head : Nat]

\* What has been read of a shape once an observation is about to take a step.
Known(step, s, i) ==
    /\ step # "code" => s.code # "empty"
    /\ step \notin {"code", "slot", "beaconSlot"} => Target!KnownProxy(s)
    /\ step \in {"beaconCode", "beaconImplementation"} => s.beacon # "zero"
    /\ step = "implementationCode" => Target!IsProxy(s)
    /\ step \notin {"code", "slot", "beaconSlot", "beaconCode"} => s.beacon # "empty"
    /\ step \notin {"code", "slot", "beaconSlot", "beaconCode", "beaconImplementation"} =>
          s.beacon = "zero" \/ s.implementation \notin {"invalid", "self", "beacon"}
    /\ step \in {"read1", "read2", "root", "finalHeader"} =>
          (Target!IsProxy(s) => Target!Implementation(s) # "empty")
    /\ step \in {"read2", "root", "finalHeader"} => s.interface
    /\ step = "read2" => Target!Reads(i) = 2
    /\ step = "root" => Target!AsksRoot(i)
    /\ step = "finalHeader" /\ Target!AsksRoot(i) => s.root # "invalid"

Deep(a) == a.number + Depth <= Len(chain)
InChain(a) == a.number <= Len(chain) /\ (tForks = 0 => Target!Canonical(a))

CallOK(x) ==
    /\ IsCall(x)
    /\ x.step # "idle" =>
          /\ x.input \in Inputs
          /\ x.asked.anchor # None => x.anchor = x.asked.anchor
          /\ x.asked.anchor = None =>
                /\ x.input.snapshot = None
                /\ x.step \in {"chainId", "head", "header"} => x.anchor = None
    /\ x.anchor # None => InChain(x.anchor)
    /\ x.step = "header" => /\ x.head \in Depth + 1..Len(chain)
                            /\ x.anchor # None => Deep(x.anchor)
    /\ x.step \in Reading =>
          /\ x.anchor # None /\ Deep(x.anchor)
          /\ Known(x.step, Target!Shape(x.anchor.block, x.input), x.input)
    /\ tForks = 0 /\ x.step = "refused" /\ x.asked.anchor = None =>
          x.anchor # None /\ Target!Verdict(x.anchor.block, x.input) = None

HandleOK(x) ==
    /\ x \in [state : {"none", "pinning", "active", "over"}, head : Nat,
              anchor : Target!Anchors \cup {None}]
    /\ x.state = "pinning" => x.head \in Depth + 1..Len(chain)
    /\ x.state = "active" => x.anchor # None
    /\ x.anchor # None => InChain(x.anchor)

Branch(c, n) == c \in Seq(Target!Blocks) /\ \A m \in 1..Len(c) : c[m].fork <= n

TargetInv ==
    /\ Branch(chain, tForks) /\ Branch(orphans, tForks)
    /\ Len(chain) \in Depth + 1..MaxHeight /\ tForks \in 0..MaxForks
    /\ DOMAIN snapshot = Snapshots /\ DOMAIN call = Calls
    /\ \A s \in Snapshots : HandleOK(snapshot[s])
    /\ \A c \in Calls : CallOK(call[c])

LEMMA TargetConstants ==
  /\ Depth \in Nat /\ MaxHeight \in Nat /\ MaxForks \in Nat /\ Depth < MaxHeight
  /\ Provider \in BOOLEAN
  /\ \A i \in Inputs : /\ i.adapter \in Target!Adapters /\ i.snapshot \in Snapshots \cup {None}
                       /\ \A w \in Worlds : w[i.target] \in Target!Shapes
  /\ None \notin Target!Anchors
  /\ None # "protocol_instance_verified" /\ None # "interface_only_unendorsed"
BY TargetAssumption DEF Target!DepthAssumption, Target!SwitchAssumption,
   Target!InputAssumption, Target!NoneAssumption

LEMMA InitTarget ==
  ASSUME Target!Init
  PROVE  TargetInv
<1>1. PICK w \in Worlds : chain = [n \in 1..Depth + 1 |-> [fork |-> 0, world |-> w]]
  BY DEF Target!Init
<1>2. /\ \A n \in 1..Depth + 1 : chain[n] \in Target!Blocks /\ chain[n].fork = 0
      /\ chain \in [1..Depth + 1 -> Target!Blocks] /\ Depth + 1 \in Nat
  BY <1>1, TargetConstants DEF Target!Blocks
<1>3. chain \in Seq(Target!Blocks) /\ Len(chain) = Depth + 1
  BY <1>2
<1>4. Branch(chain, tForks) /\ tForks = 0
  BY <1>2, <1>3 DEF Target!Init, Branch
<1>5. Branch(orphans, tForks)
  BY <1>4 DEF Target!Init, Branch
<1>6. /\ DOMAIN snapshot = Snapshots /\ DOMAIN call = Calls
      /\ \A s \in Snapshots : HandleOK(snapshot[s])
  BY TargetConstants DEF Target!Init, HandleOK
<1>7. \A c \in Calls : CallOK(call[c])
  <2>1. TAKE c \in Calls
  <2>2. /\ call[c] = [step |-> "idle", input |-> None, asked |-> None, anchor |-> None,
                      head |-> 0]
        /\ call[c].step = "idle" /\ call[c].anchor = None
    BY DEF Target!Init
  <2>3. IsCall(call[c])
    BY <2>2 DEF IsCall, TargetSteps
  <2>4. QED
    BY <2>2, <2>3 DEF CallOK, Reading, Target!Steps
<1>8. QED
  BY <1>3, <1>4, <1>5, <1>6, <1>7, TargetConstants DEF TargetInv

\* The chain grows or is reorganised under observations and snapshots.
LEMMA ChainMoves ==
  ASSUME TargetInv, UNCHANGED <<snapshot, call>>,
         Branch(chain', tForks'), Branch(orphans', tForks'),
         Len(chain') \in Len(chain)..MaxHeight, tForks' \in tForks..MaxForks,
         tForks' = 0 => \A n \in 1..Len(chain) : chain'[n] = chain[n]
  PROVE  TargetInv'
<1>1. /\ Len(chain) \in Nat /\ Len(chain') \in Nat /\ Len(chain) <= Len(chain')
      /\ tForks \in Nat /\ tForks' \in Nat /\ tForks <= tForks' /\ Depth \in Nat
  BY TargetConstants DEF TargetInv
<1>2. \A a \in Target!Anchors : InChain(a) => InChain(a)'
  BY <1>1 DEF InChain, Target!Canonical, Target!At, Target!Anchors
<1>3. \A a \in Target!Anchors : Deep(a) => Deep(a)'
  BY <1>1 DEF Deep, Target!Anchors
<1>4. \A s \in Snapshots : HandleOK(snapshot[s])'
  BY <1>1, <1>2 DEF TargetInv, HandleOK
<1>5. ASSUME NEW x, CallOK(x)
      PROVE  CallOK(x)'
  <2>1. IsCall(x)' /\ x.anchor \in Target!Anchors \cup {None}
    BY <1>5 DEF CallOK, IsCall
  <2>2. x.anchor # None => InChain(x.anchor)'
    BY <1>2, <1>5, <2>1 DEF CallOK
  <2>3. x.step = "header" => /\ x.head \in Depth + 1..Len(chain')
                             /\ x.anchor # None => Deep(x.anchor)'
    BY <1>1, <1>3, <1>5, <2>1 DEF CallOK
  <2>4. x.step \in Reading => Deep(x.anchor)'
    BY <1>3, <1>5, <2>1 DEF CallOK
  <2>5. tForks' = 0 => tForks = 0
    BY <1>1
  <2>6. QED
    BY <1>5, <2>1, <2>2, <2>3, <2>4, <2>5 DEF CallOK
<1>6. (\A c \in Calls : CallOK(call[c]))'
  BY <1>5 DEF TargetInv
<1>7. QED
  BY <1>1, <1>4, <1>6 DEF TargetInv

\* Calls that stay as they are answer as they did.
LEMMA AnswersRest ==
  ASSUME UNCHANGED call
  PROVE  UNCHANGED Target!Answer
BY DEF Target!Answer

LEMMA BlocksInSequence ==
  ASSUME NEW n \in Nat, NEW f \in [1..n -> Target!Blocks]
  PROVE  f \in Seq(Target!Blocks) /\ Len(f) = n
OBVIOUS

LEMMA MovesKeep ==
  ASSUME TargetInv, NEW w \in Worlds, Target!Moves(w)
  PROVE  TargetInv' /\ Target!ObservesAtOnce
<1>1. /\ chain \in Seq(Target!Blocks) /\ orphans \in Seq(Target!Blocks) /\ tForks \in 0..MaxForks
      /\ Len(chain) \in Depth + 1..MaxHeight /\ Depth \in Nat /\ MaxHeight \in Nat
      /\ MaxForks \in Nat /\ Len(chain) \in Nat /\ tForks \in Nat
      /\ \A n \in 1..Len(chain) : chain[n] \in Target!Blocks /\ chain[n].fork <= tForks
      /\ \A n \in 1..Len(orphans) : orphans[n] \in Target!Blocks /\ orphans[n].fork <= tForks
  BY TargetConstants DEF TargetInv, Branch
<1>a. \A b \in Target!Blocks : b.fork \in Nat
  BY <1>1 DEF Target!Blocks
<1>b. Branch(chain, tForks + 1)
  BY <1>1, <1>a DEF Branch
<1>2. /\ UNCHANGED <<snapshot, call>>
      /\ Branch(chain', tForks') /\ Branch(orphans', tForks')
      /\ Len(chain') \in Len(chain)..MaxHeight /\ tForks' \in tForks..MaxForks
      /\ tForks' = 0 => \A n \in 1..Len(chain) : chain'[n] = chain[n]
  <2>1. CASE Target!Mine(w)
    <3>1. /\ chain' = Append(chain, [fork |-> tForks, world |-> w])
          /\ Len(chain) < MaxHeight /\ UNCHANGED <<orphans, tForks, snapshot, call>>
      BY <2>1 DEF Target!Mine
    <3>2. [fork |-> tForks, world |-> w] \in Target!Blocks
      BY <1>1 DEF Target!Blocks
    <3>3. /\ chain' \in Seq(Target!Blocks) /\ Len(chain') = Len(chain) + 1
          /\ \A n \in 1..Len(chain) : chain'[n] = chain[n]
          /\ chain'[Len(chain) + 1] = [fork |-> tForks, world |-> w]
      BY <1>1, <3>1, <3>2
    <3>4. \A m \in 1..Len(chain') : chain'[m].fork <= tForks
      <4>1. TAKE m \in 1..Len(chain')
      <4>2. CASE m \in 1..Len(chain)
        BY <1>1, <3>3, <4>2
      <4>3. CASE m = Len(chain) + 1
        BY <1>1, <3>3, <4>3
      <4>4. m \in 1..Len(chain) \/ m = Len(chain) + 1
        BY <1>1, <3>3
      <4>5. QED
        BY <4>2, <4>3, <4>4
    <3>5. QED
      BY <1>1, <3>1, <3>3, <3>4 DEF Branch
  <2>2. CASE Target!Reorganize(w)
    <3>1. PICK n \in 1..Len(chain) :
              chain' = [m \in 1..Len(chain) |->
                          IF m < n THEN chain[m] ELSE [fork |-> tForks + 1, world |-> w]]
      BY <2>2 DEF Target!Reorganize
    <3>2. /\ tForks < MaxForks /\ tForks' = tForks + 1 /\ orphans' = chain
          /\ UNCHANGED <<snapshot, call>>
      BY <2>2 DEF Target!Reorganize
    <3>3. [fork |-> tForks + 1, world |-> w] \in Target!Blocks
      BY <1>1, <3>2 DEF Target!Blocks
    <3>4. chain' \in [1..Len(chain) -> Target!Blocks]
      BY <1>1, <3>1, <3>3
    <3>5. chain' \in Seq(Target!Blocks) /\ Len(chain') = Len(chain)
      BY <1>1, <3>4, BlocksInSequence
    <3>6. \A m \in 1..Len(chain') : chain'[m].fork <= tForks + 1
      <4>1. TAKE m \in 1..Len(chain')
      <4>2. m \in 1..Len(chain)
        BY <3>5
      <4>3. CASE m < n
        BY <1>1, <1>a, <3>1, <4>2, <4>3
      <4>4. CASE ~(m < n)
        <5>1. chain'[m] = [fork |-> tForks + 1, world |-> w]
          BY <3>1, <4>2, <4>4
        <5>2. QED
          BY <1>1, <5>1
      <4>5. QED
        BY <4>3, <4>4
    <3>7. QED
      BY <1>1, <1>b, <3>2, <3>5, <3>6 DEF Branch
  <2>3. CASE Target!Return(w)
    <3>1. /\ chain' = [m \in 1..Len(chain) |->
                         IF m <= Len(orphans) THEN orphans[m]
                                              ELSE [fork |-> tForks + 1, world |-> w]]
          /\ tForks < MaxForks /\ tForks' = tForks + 1 /\ orphans' = chain
          /\ UNCHANGED <<snapshot, call>>
      BY <2>3 DEF Target!Return
    <3>2. [fork |-> tForks + 1, world |-> w] \in Target!Blocks
      BY <1>1, <3>1 DEF Target!Blocks
    <3>3. chain' \in [1..Len(chain) -> Target!Blocks]
      BY <1>1, <3>1, <3>2
    <3>4. chain' \in Seq(Target!Blocks) /\ Len(chain') = Len(chain)
      BY <1>1, <3>3, BlocksInSequence
    <3>5. \A m \in 1..Len(chain') : chain'[m].fork <= tForks + 1
      <4>1. TAKE m \in 1..Len(chain')
      <4>2. m \in 1..Len(chain)
        BY <3>4
      <4>3. CASE m <= Len(orphans)
        <5>1. chain'[m] = orphans[m] /\ m \in 1..Len(orphans)
          BY <1>1, <3>1, <4>2, <4>3
        <5>2. QED
          BY <1>1, <1>a, <5>1
      <4>4. CASE ~(m <= Len(orphans))
        <5>1. chain'[m] = [fork |-> tForks + 1, world |-> w]
          BY <3>1, <4>2, <4>4
        <5>2. QED
          BY <1>1, <5>1
      <4>5. QED
        BY <4>3, <4>4
    <3>6. QED
      BY <1>1, <1>b, <3>1, <3>4, <3>5 DEF Branch
  <2>4. QED
    BY <2>1, <2>2, <2>3 DEF Target!Moves
<1>3. TargetInv'
  BY <1>2, ChainMoves
<1>4. Target!ObservesAtOnce
  BY <1>1, <1>2, AnswersRest DEF Target!ObservesAtOnce, Target!Atomic!Next, Target!Atomic!MoveChain
<1>5. QED
  BY <1>3, <1>4

\* A block of the chain, as an anchor.
LEMMA AnchorInChain ==
  ASSUME TargetInv, NEW n \in 1..Len(chain)
  PROVE  /\ Target!At(n) \in Target!Anchors /\ InChain(Target!At(n)) /\ Target!At(n) # None
         /\ Target!At(n).number = n /\ Target!At(n).block = chain[n]
<1>1. chain[n] \in Target!Blocks /\ n \in 1..MaxHeight
  BY TargetConstants DEF TargetInv, Branch
<1>2. /\ Target!At(n) \in Target!Anchors /\ Target!At(n).number = n
      /\ Target!At(n).block = chain[n]
  BY <1>1 DEF Target!At, Target!Anchors
<1>3. QED
  BY <1>2, TargetConstants DEF InChain, Target!Canonical

\* A step that changes one snapshot.
LEMMA HandleFrame ==
  ASSUME TargetInv, NEW s \in Snapshots, NEW y, HandleOK(y),
         snapshot' = [snapshot EXCEPT ![s] = y], UNCHANGED <<chain, orphans, tForks, call>>
  PROVE  TargetInv' /\ Target!ObservesAtOnce
<1>1. DOMAIN snapshot' = Snapshots /\ \A q \in Snapshots : HandleOK(snapshot'[q])
  BY DEF TargetInv
<1>2. (\A q \in Snapshots : HandleOK(snapshot[q]))'
  BY <1>1 DEF HandleOK, InChain, Target!Canonical, Target!At
<1>3. (\A c \in Calls : CallOK(call[c]))'
  BY DEF TargetInv, CallOK, IsCall, InChain, Deep, Target!Canonical, Target!At
<1>4. QED
  BY <1>1, <1>2, <1>3, AnswersRest
  DEF TargetInv, Target!ObservesAtOnce, Target!Atomic!vars

Pinning(x, h) == [[x EXCEPT !.state = "pinning"] EXCEPT !.head = h]

LEMMA PinningFields ==
  ASSUME NEW x, NEW h \in Nat,
         x \in [state : {"none", "pinning", "active", "over"}, head : Nat,
                anchor : Target!Anchors \cup {None}]
  PROVE  LET y == Pinning(x, h) IN
         /\ y.state = "pinning" /\ y.head = h /\ y.anchor = x.anchor
         /\ y \in [state : {"none", "pinning", "active", "over"}, head : Nat,
                   anchor : Target!Anchors \cup {None}]
<1> DEFINE z == [x EXCEPT !.state = "pinning"]
<1>0. z = [state |-> "pinning", head |-> x.head, anchor |-> x.anchor]
  OBVIOUS
<1>1. Pinning(x, h) = [state |-> "pinning", head |-> h, anchor |-> x.anchor]
  <2>1. Pinning(x, h) = [z EXCEPT !.head = h]
    BY DEF Pinning
  <2> HIDE DEF z
  <2>2. QED
    BY <1>0, <2>1
<1>2. QED
  BY <1>1

LEMMA HandlesKeep ==
  ASSUME TargetInv, NEW s \in Snapshots,
         Target!PinHead(s) \/ Target!PinHeader(s) \/ Target!EndSnapshot(s)
  PROVE  TargetInv' /\ Target!ObservesAtOnce
<1> DEFINE x == snapshot[s]
<1>1. /\ HandleOK(x) /\ Len(chain) \in Depth + 1..MaxHeight /\ Depth \in Nat /\ MaxHeight \in Nat
      /\ DOMAIN snapshot = Snapshots
  BY TargetConstants DEF TargetInv
<1>2. /\ x \in [state : {"none", "pinning", "active", "over"}, head : Nat,
                anchor : Target!Anchors \cup {None}]
      /\ x.anchor # None => InChain(x.anchor)
      /\ x.state = "pinning" => x.head \in Depth + 1..Len(chain)
  BY <1>1 DEF HandleOK
<1>3. CASE Target!PinHead(s)
  <2> DEFINE y == Pinning(x, Len(chain))
  <2>1. snapshot' = [snapshot EXCEPT ![s] = y] /\ UNCHANGED <<chain, orphans, tForks, call>>
    BY <1>1, <1>3 DEF Target!PinHead, Target!chainVars, Pinning
  <2>a. Len(chain) \in Nat
    BY <1>1
  <2>2. /\ Len(chain) \in Nat /\ y.state = "pinning" /\ y.head = Len(chain)
        /\ y.anchor = x.anchor
        /\ y \in [state : {"none", "pinning", "active", "over"}, head : Nat,
                  anchor : Target!Anchors \cup {None}]
    BY <1>2, <2>a, PinningFields
  <2>3. HandleOK(y)
    BY <1>1, <1>2, <2>2 DEF HandleOK
  <2>4. QED
    BY <2>1, <2>3, HandleFrame
<1>4. CASE Target!PinHeader(s)
  <2> DEFINE a == Target!At(x.head - Depth)
             y == [x EXCEPT !.state = "active", !.anchor = a]
  <2>1. /\ snapshot' = [snapshot EXCEPT ![s] = y] /\ UNCHANGED <<chain, orphans, tForks, call>>
        /\ x.state = "pinning"
    BY <1>1, <1>4 DEF Target!PinHeader, Target!chainVars
  <2>2. x.head - Depth \in 1..Len(chain)
    BY <1>1, <1>2, <2>1
  <2>3. a \in Target!Anchors /\ InChain(a) /\ a # None
    BY <2>2, AnchorInChain
  <2>4. HandleOK(y)
    <3> HIDE DEF a
    <3>1. QED
      BY <1>2, <2>3 DEF HandleOK
  <2>5. QED
    BY <2>1, <2>4, HandleFrame
<1>5. CASE Target!EndSnapshot(s)
  <2> DEFINE y == [x EXCEPT !.state = "over"]
  <2>1. snapshot' = [snapshot EXCEPT ![s] = y] /\ UNCHANGED <<chain, orphans, tForks, call>>
    BY <1>1, <1>5 DEF Target!EndSnapshot, Target!chainVars
  <2>2. HandleOK(y)
    BY <1>1, <1>2 DEF HandleOK
  <2>3. QED
    BY <2>1, <2>2, HandleFrame
<1>6. QED
  BY <1>3, <1>4, <1>5

\* What follows a read, step by step.
LEMMA FollowingIs ==
  ASSUME NEW s, NEW i
  PROVE  /\ Target!Following("code", s, i) = "slot"
         /\ Target!Following("slot", s, i) = "beaconSlot"
         /\ s.beacon # "zero" => Target!Following("beaconSlot", s, i) = "beaconCode"
         /\ s.beacon = "zero" /\ s.slot # "zero" =>
               Target!Following("beaconSlot", s, i) = "implementationCode"
         /\ s.beacon = "zero" /\ s.slot = "zero" =>
               Target!Following("beaconSlot", s, i) = "read1"
         /\ Target!Following("beaconCode", s, i) = "beaconImplementation"
         /\ Target!Following("beaconImplementation", s, i) = "implementationCode"
         /\ Target!Following("implementationCode", s, i) = "read1"
         /\ Target!Reads(i) = 2 => Target!Following("read1", s, i) = "read2"
<1>1. /\ Target!Following("code", s, i) = "slot"
      /\ Target!Following("slot", s, i) = "beaconSlot"
  BY Zenon DEF Target!Following
<1>2. /\ s.beacon # "zero" => Target!Following("beaconSlot", s, i) = "beaconCode"
      /\ s.beacon = "zero" /\ s.slot # "zero" =>
               Target!Following("beaconSlot", s, i) = "implementationCode"
      /\ s.beacon = "zero" /\ s.slot = "zero" =>
               Target!Following("beaconSlot", s, i) = "read1"
  BY Zenon DEF Target!Following
<1>3. /\ Target!Following("beaconCode", s, i) = "beaconImplementation"
      /\ Target!Following("beaconImplementation", s, i) = "implementationCode"
      /\ Target!Following("implementationCode", s, i) = "read1"
  BY Zenon DEF Target!Following
<1>4. Target!Reads(i) = 2 => Target!Following("read1", s, i) = "read2"
  BY Zenon DEF Target!Following
<1>5. QED
  BY <1>1, <1>2, <1>3, <1>4

\* After the last read of the interface.
LEMMA LastIs ==
  ASSUME NEW s, NEW i,
         NEW step \in {"read1", "read2"}, step = "read2" <=> Target!Reads(i) = 2
  PROVE  /\ Target!AsksRoot(i) => Target!Following(step, s, i) = "root"
         /\ ~Target!AsksRoot(i) => Target!Following(step, s, i) = "finalHeader"
<1>1. CASE step = "read1" /\ Target!Reads(i) # 2
  BY <1>1, Zenon DEF Target!Following
<1>2. CASE step = "read2" /\ Target!Reads(i) = 2
  BY <1>2, Zenon DEF Target!Following
<1>3. QED
  BY <1>1, <1>2

LEMMA RootIsLast ==
  ASSUME NEW s, NEW i
  PROVE  Target!Following("root", s, i) = "finalHeader"
<1>1. CASE Target!Reads(i) = 2
  BY <1>1, Zenon DEF Target!Following
<1>2. CASE Target!Reads(i) # 2
  BY <1>2, Zenon DEF Target!Following
<1>3. QED
  BY <1>1, <1>2

\* A read that is not refused tells what the next step relies on.
LEMMA ReadTells ==
  ASSUME NEW step \in Reading \ {"finalHeader"}, NEW s, NEW i, Known(step, s, i),
         ~Target!Refused(step, s)
  PROVE  /\ Target!Following(step, s, i) \in Reading
         /\ Known(Target!Following(step, s, i), s, i)
<1>1. step \in {"code", "slot", "beaconSlot", "beaconCode", "beaconImplementation",
                "implementationCode", "read1", "read2", "root"}
  BY DEF Reading, Target!Steps
<1>2. CASE step \in {"code", "slot"}
  BY <1>2, FollowingIs DEF Reading, Target!Steps, Known, Target!Refused
<1>3. CASE step = "beaconSlot"
  BY <1>3, FollowingIs
  DEF Reading, Target!Steps, Known, Target!Refused, Target!IsProxy
<1>4. CASE step \in {"beaconCode", "beaconImplementation"}
  BY <1>4, FollowingIs
  DEF Reading, Target!Steps, Known, Target!Refused, Target!IsProxy
<1>5. CASE step = "implementationCode"
  BY <1>5, FollowingIs
  DEF Reading, Target!Steps, Known, Target!Refused, Target!IsProxy
<1>6. CASE step = "read1" /\ Target!Reads(i) = 2
  BY <1>6, FollowingIs
  DEF Reading, Target!Steps, Known, Target!Refused, Target!IsProxy
<1>7. CASE step = "read1" /\ Target!Reads(i) # 2
  BY <1>7, LastIs
  DEF Reading, Target!Steps, Known, Target!Refused, Target!IsProxy
<1>8. CASE step = "read2"
  BY <1>8, LastIs
  DEF Reading, Target!Steps, Known, Target!Refused, Target!IsProxy
<1>9. CASE step = "root"
  BY <1>9, RootIsLast
  DEF Reading, Target!Steps, Known, Target!Refused, Target!IsProxy
<1>10. QED
  BY <1>1, <1>2, <1>3, <1>4, <1>5, <1>6, <1>7, <1>8, <1>9

\* A read that is refused says that the block gives no verdict.
LEMMA RefusalTells ==
  ASSUME NEW step \in Reading \ {"finalHeader"}, NEW b, NEW i,
         Known(step, Target!Shape(b, i), i), Target!Refused(step, Target!Shape(b, i))
  PROVE  Target!Verdict(b, i) = None
<1> DEFINE s == Target!Shape(b, i)
<1>1. ~Target!Sound(s) \/ (Target!AsksRoot(i) /\ s.root = "invalid")
  <2> HIDE DEF s
  <2>1. Known(step, s, i) /\ Target!Refused(step, s)
    BY DEF s
  <2>2. CASE step = "beaconSlot"
    BY <2>1, <2>2 DEF Target!Refused, Target!KnownProxy, Target!IsProxy, Target!Sound
  <2>3. CASE step # "beaconSlot"
    BY <2>1, <2>3 DEF Known, Target!Refused, Target!Implementation, Target!IsProxy, Target!Sound
  <2>4. QED
    BY <2>2, <2>3
<1>2. QED
  BY <1>1 DEF Target!Verdict

\* The reads that lead to an observation are its verdict.
LEMMA ReadsTellAll ==
  ASSUME NEW b, NEW i \in Inputs, Target!Shape(b, i) \in Target!Shapes,
         Known("finalHeader", Target!Shape(b, i), i)
  PROVE  Target!Verdict(b, i) = Target!Assurance(b, i) /\ Target!Verdict(b, i) # None
<1> DEFINE s == Target!Shape(b, i)
<1>1. Target!Sound(s)
  <2> HIDE DEF s
  <2>1. Known("finalHeader", s, i) /\ s \in Target!Shapes
    BY DEF s
  <2>2. /\ s.code \in {"plain", "delegating"} /\ Target!KnownProxy(s)
        /\ s.slot \in Target!Slots /\ s.beacon \in Target!Slots
        /\ s.implementation \in Target!Words /\ s.beacon # "empty" /\ s.interface
        /\ s.beacon = "zero" \/ s.implementation \notin {"invalid", "self", "beacon"}
        /\ Target!IsProxy(s) => Target!Implementation(s) # "empty"
    BY <2>1 DEF Known, Target!Shapes
  <2>3. QED
    BY <2>2 DEF Target!KnownProxy, Target!IsProxy, Target!Implementation, Target!Slots,
       Target!Words, Target!Sound
<1>2. ~(Target!AsksRoot(i) /\ s.root = "invalid")
  BY DEF Known
<1>3. Target!Endorsed(b, i) <=> Target!InstanceOf(s, i)
  <2>1. i.adapter \in Target!Adapters
    BY TargetConstants
  <2>2. CASE i.adapter = "grid"
    BY <2>2, Zenon DEF Target!Endorsed, Target!InstanceOf, Target!AsksRoot
  <2>3. CASE i.adapter = "yield"
    BY <2>3, Zenon DEF Target!Endorsed, Target!InstanceOf, Target!AsksRoot
  <2>4. CASE i.adapter = "health"
    BY <2>4, Zenon DEF Target!Endorsed, Target!InstanceOf, Target!AsksRoot
  <2>5. CASE i.adapter = "venusComptroller"
    BY <2>5, Zenon DEF Target!Endorsed, Target!InstanceOf, Target!AsksRoot
  <2>6. CASE i.adapter = "venusMarket"
    BY <2>6, Zenon DEF Target!Endorsed, Target!InstanceOf, Target!AsksRoot
  <2>7. QED
    BY <2>1, <2>2, <2>3, <2>4, <2>5, <2>6 DEF Target!Adapters
<1>4. QED
  BY <1>1, <1>2, <1>3, TargetConstants DEF Target!Verdict, Target!Assurance

AtStep(x, v) == [x EXCEPT !.step = v]
AtAnchor(x, a) == [x EXCEPT !.anchor = a]
AtHead(x, h) == [x EXCEPT !.head = h]

LEMMA CallStepSet ==
  ASSUME NEW x, IsCall(x), NEW v \in TargetSteps
  PROVE  LET y == AtStep(x, v) IN
         /\ IsCall(y) /\ y.step = v /\ y.input = x.input /\ y.asked = x.asked
         /\ y.anchor = x.anchor /\ y.head = x.head
BY DEF IsCall, AtStep

LEMMA CallAnchorSet ==
  ASSUME NEW x, IsCall(x), NEW a \in Target!Anchors
  PROVE  LET y == AtAnchor(x, a) IN
         /\ IsCall(y) /\ y.step = x.step /\ y.input = x.input /\ y.asked = x.asked
         /\ y.anchor = a /\ y.head = x.head
BY DEF IsCall, AtAnchor

LEMMA CallHeadSet ==
  ASSUME NEW x, IsCall(x), NEW h \in Nat
  PROVE  LET y == AtHead(x, h) IN
         /\ IsCall(y) /\ y.step = x.step /\ y.input = x.input /\ y.asked = x.asked
         /\ y.anchor = x.anchor /\ y.head = h
BY DEF IsCall, AtHead

\* A step of one observation.
LEMMA CallFrame ==
  ASSUME TargetInv, NEW c \in Calls, NEW y, CallOK(y),
         call' = [call EXCEPT ![c] = y], UNCHANGED <<chain, orphans, tForks, snapshot>>
  PROVE  TargetInv'
<1>1. DOMAIN call' = Calls /\ \A d \in Calls : CallOK(call'[d])
  BY DEF TargetInv
<1>2. (\A d \in Calls : CallOK(call[d]))'
  BY <1>1 DEF CallOK, IsCall, InChain, Deep, Target!Canonical, Target!At
<1>3. (\A s \in Snapshots : HandleOK(snapshot[s]))'
  BY DEF TargetInv, HandleOK, InChain, Target!Canonical, Target!At
<1>4. QED
  BY <1>1, <1>2, <1>3 DEF TargetInv

\* And one that observes nothing.
LEMMA CallMovesOn ==
  ASSUME TargetInv, NEW c \in Calls, NEW y, CallOK(y), call[c].step # "verified",
         y.step # "verified",
         call' = [call EXCEPT ![c] = y], UNCHANGED <<chain, orphans, tForks, snapshot>>
  PROVE  TargetInv' /\ Target!ObservesAtOnce
<1>1. \A d \in Calls : /\ call'[d] = IF d = c THEN y ELSE call[d]
  BY DEF TargetInv
<1>2. UNCHANGED Target!Answer
  BY <1>1 DEF Target!Answer
<1>3. QED
  BY <1>2, CallFrame DEF Target!ObservesAtOnce, Target!Atomic!vars

\* The input is parsed, with the anchor of its snapshot if it names one.
LEMMA ObserveKeeps ==
  ASSUME TargetInv, NEW c \in Calls, NEW i \in Inputs, NEW a,
         a = None \/ \E n \in 1..Len(chain) : a = Target!At(n),
         Target!Observe(c, i, a)
  PROVE  TargetInv' /\ Target!ObservesAtOnce
<1> DEFINE b == Target!AnchorOf(i, a)
           p == Target!Parsed(i, a)
           y == [step |-> "chainId", input |-> i, asked |-> p, anchor |-> b, head |-> 0]
<1>1. /\ call[c].step = "idle" /\ Target!ValidInput(c, i, a)
      /\ call' = [call EXCEPT ![c] = y] /\ UNCHANGED <<chain, orphans, tForks, snapshot>>
  BY DEF Target!Observe, Target!chainVars, Target!FirstRead
<1>2. a # None => a \in Target!Anchors /\ InChain(a)
  BY AnchorInChain
<1>3. i.snapshot # None => i.snapshot \in Snapshots /\ snapshot[i.snapshot].state = "active"
  BY <1>1, TargetConstants DEF Target!ValidInput, Target!Active
<1>4. i.snapshot # None => b = snapshot[i.snapshot].anchor /\ HandleOK(snapshot[i.snapshot])
  BY <1>3 DEF TargetInv, Target!AnchorOf, Target!SnapshotAnchor
<1>5. i.snapshot # None => b # None /\ b \in Target!Anchors /\ InChain(b)
  BY <1>3, <1>4 DEF HandleOK
<1>6. i.snapshot = None => b = a
  BY DEF Target!AnchorOf
<1>7. b \in Target!Anchors \cup {None} /\ (b # None => InChain(b))
  BY <1>2, <1>5, <1>6
<1>8. p.anchor = b
  BY DEF Target!Parsed
<1>9. y.step = "chainId" /\ y.input = i /\ y.asked.anchor = b /\ y.anchor = b
  BY <1>8
<1>10. IsCall(y)
  <2> HIDE DEF b, p
  <2>1. QED
    BY <1>7 DEF IsCall, TargetSteps, Target!Steps
<1> HIDE DEF y, b, p
<1>11. CallOK(y)
  BY <1>5, <1>7, <1>9, <1>10 DEF CallOK, Reading
<1>12. QED
  BY <1>1, <1>9, <1>11, CallMovesOn

\* What an observation under way is.
LEMMA CallIs ==
  ASSUME TargetInv, NEW c \in Calls
  PROVE  /\ CallOK(call[c]) /\ IsCall(call[c])
         /\ Len(chain) \in Depth + 1..MaxHeight /\ Len(chain) \in Nat /\ Depth \in Nat
BY TargetConstants DEF TargetInv, CallOK

\* An observation that ends without an answer.
LEMMA FailKeeps ==
  ASSUME TargetInv, NEW c \in Calls, Target!Fail(c)
  PROVE  TargetInv' /\ Target!ObservesAtOnce
<1> DEFINE x == call[c]
           y == AtStep(x, "failed")
<1>1. /\ x.step \in Target!Steps /\ call' = [call EXCEPT ![c] = y]
      /\ UNCHANGED <<chain, orphans, tForks, snapshot>>
  BY DEF Target!Fail, Target!Advance, Target!chainVars, AtStep
<1>2. CallOK(x) /\ IsCall(x) /\ "failed" \in TargetSteps
  BY CallIs DEF TargetSteps
<1>3. /\ IsCall(y) /\ y.step = "failed" /\ y.input = x.input /\ y.asked = x.asked
      /\ y.anchor = x.anchor
  BY <1>2, CallStepSet
<1>4. x.step \notin {"verified", "idle"}
  BY <1>1 DEF Target!Steps
<1> HIDE DEF x, y
<1>5. CallOK(y)
  BY <1>2, <1>3, <1>4 DEF CallOK, Reading, Target!Steps
<1>6. QED
  BY <1>1, <1>3, <1>4, <1>5, CallMovesOn DEF x

LEMMA ReadChainIdKeeps ==
  ASSUME TargetInv, NEW c \in Calls, Target!ReadChainId(c)
  PROVE  TargetInv' /\ Target!ObservesAtOnce
<1> DEFINE x == call[c]
           y == AtStep(x, "head")
<1>1. /\ x.step = "chainId" /\ call' = [call EXCEPT ![c] = y]
      /\ UNCHANGED <<chain, orphans, tForks, snapshot>>
  BY DEF Target!ReadChainId, Target!Advance, Target!chainVars, AtStep
<1>2. CallOK(x) /\ IsCall(x) /\ "head" \in TargetSteps
  BY CallIs DEF TargetSteps, Target!Steps
<1>3. /\ IsCall(y) /\ y.step = "head" /\ y.input = x.input /\ y.asked = x.asked
      /\ y.anchor = x.anchor
  BY <1>2, CallStepSet
<1> HIDE DEF x, y
<1>4. CallOK(y)
  BY <1>1, <1>2, <1>3 DEF CallOK, Reading, Target!Steps
<1>5. QED
  BY <1>1, <1>3, <1>4, CallMovesOn DEF x

\* The head bounds the block; without one of its own or one given to it, none is refused.
LEMMA ReadHeadKeeps ==
  ASSUME TargetInv, NEW c \in Calls, Target!ReadHead(c)
  PROVE  TargetInv' /\ Target!ObservesAtOnce
<1> DEFINE x == call[c]
           y == AtHead(AtStep(x, "header"), Len(chain))
           z == AtStep(x, "refused")
<1>1. /\ x.step = "head" /\ UNCHANGED <<chain, orphans, tForks, snapshot>>
      /\ Target!MayPin(c) => call' = [call EXCEPT ![c] = y]
      /\ ~Target!MayPin(c) => call' = [call EXCEPT ![c] = z]
  BY CallIs DEF Target!ReadHead, Target!Advance, Target!chainVars, AtStep, AtHead, IsCall
<1>2. /\ CallOK(x) /\ IsCall(x) /\ "header" \in TargetSteps /\ "refused" \in TargetSteps
      /\ Len(chain) \in Depth + 1..MaxHeight /\ Len(chain) \in Nat /\ Depth \in Nat
      /\ Len(chain) > Depth
  BY CallIs DEF TargetSteps, Target!Steps
<1>3. CASE Target!MayPin(c)
  <2> DEFINE w == AtStep(x, "header")
  <2>1. /\ IsCall(w) /\ w.step = "header" /\ w.input = x.input /\ w.asked = x.asked
        /\ w.anchor = x.anchor /\ y = AtHead(w, Len(chain))
    BY <1>2, CallStepSet
  <2> HIDE DEF w, y, x
  <2>2. /\ IsCall(y) /\ y.step = "header" /\ y.input = x.input /\ y.asked = x.asked
        /\ y.anchor = x.anchor /\ y.head = Len(chain)
    BY <1>2, <2>1, CallHeadSet
  <2>3. x.anchor # None => Deep(x.anchor)
    BY <1>3 DEF Target!MayPin, Deep, x
  <2>4. Len(chain) \in Depth + 1..Len(chain)
    BY <1>2
  <2>5. CallOK(y)
    BY <1>1, <1>2, <2>2, <2>3, <2>4 DEF CallOK, Reading, Target!Steps
  <2>6. QED
    BY <1>1, <1>3, <2>2, <2>5, CallMovesOn DEF x
<1>4. CASE ~Target!MayPin(c)
  <2>1. /\ IsCall(z) /\ z.step = "refused" /\ z.input = x.input /\ z.asked = x.asked
        /\ z.anchor = x.anchor
    BY <1>2, CallStepSet
  <2>2. x.input.snapshot # None \/ x.anchor # None
    BY <1>2, <1>4 DEF Target!MayPin
  <2> HIDE DEF x, z
  <2>3. x.asked.anchor # None
    BY <1>1, <1>2, <2>2 DEF CallOK
  <2>4. CallOK(z)
    BY <1>1, <1>2, <2>1, <2>3 DEF CallOK, Reading, Target!Steps
  <2>5. QED
    BY <1>1, <1>4, <2>1, <2>4, CallMovesOn DEF x
<1>5. QED
  BY <1>3, <1>4

\* The header of a given anchor reads as it was given, or the observation is refused.
LEMMA ReadHeaderKeeps ==
  ASSUME TargetInv, NEW c \in Calls, Target!ReadHeader(c)
  PROVE  TargetInv' /\ Target!ObservesAtOnce
<1> DEFINE x == call[c]
           a == Target!At(x.head - Depth)
           w == AtStep(x, "code")
           y == AtAnchor(w, a)
           z == AtStep(x, "refused")
<1>1. /\ x.step = "header" /\ UNCHANGED <<chain, orphans, tForks, snapshot>>
      /\ x.anchor = None => call' = [call EXCEPT ![c] = [x EXCEPT !.step = "code", !.anchor = a]]
      /\ x.anchor # None /\ Target!Canonical(x.anchor) =>
            call' = [call EXCEPT ![c] = [x EXCEPT !.step = "code"]]
      /\ x.anchor # None /\ ~Target!Canonical(x.anchor) =>
            call' = [call EXCEPT ![c] = [x EXCEPT !.step = "refused"]]
  BY Zenon DEF Target!ReadHeader, Target!Advance, Target!chainVars
<1>2. /\ CallOK(x) /\ IsCall(x)
      /\ Len(chain) \in Depth + 1..MaxHeight /\ Len(chain) \in Nat /\ Depth \in Nat
      /\ x.head \in Depth + 1..Len(chain)
  BY <1>1, CallIs DEF CallOK
<1>3. "code" \in TargetSteps /\ "refused" \in TargetSteps
  BY DEF TargetSteps, Target!Steps
<1>4. [x EXCEPT !.step = "code", !.anchor = a] = y
  BY <1>2 DEF IsCall, AtStep, AtAnchor
<1>5. /\ IsCall(w) /\ w.step = "code" /\ w.input = x.input /\ w.asked = x.asked
      /\ w.anchor = x.anchor
  BY <1>2, <1>3, CallStepSet
<1>6. x.head - Depth \in 1..Len(chain)
  BY <1>2
<1>7. a \in Target!Anchors /\ InChain(a) /\ a # None /\ a.number = x.head - Depth
  BY <1>6, AnchorInChain
<1>8. Deep(a)
  BY <1>2, <1>7 DEF Deep
<1>9. \A s, i : Known("code", s, i)
  BY DEF Known
<1>10. CASE x.anchor = None
  <2>1. call' = [call EXCEPT ![c] = y]
    BY <1>1, <1>4, <1>10
  <2>2. /\ IsCall(y) /\ y.step = "code" /\ y.input = x.input /\ y.asked = x.asked
        /\ y.anchor = a
    <3> HIDE DEF w, a
    <3>1. QED
      BY <1>5, <1>7, CallAnchorSet
  <2> HIDE DEF x, y, a
  <2>3. x.asked.anchor = None
    BY <1>1, <1>2, <1>10 DEF CallOK
  <2>4. CallOK(y)
    BY <1>1, <1>2, <1>7, <1>8, <1>9, <2>2, <2>3 DEF CallOK, Reading, Target!Steps
  <2>5. QED
    BY <1>1, <2>1, <2>2, <2>4, CallMovesOn DEF x
<1>11. CASE x.anchor # None /\ Target!Canonical(x.anchor)
  <2>1. call' = [call EXCEPT ![c] = w]
    BY <1>1, <1>11 DEF AtStep
  <2> HIDE DEF x, w
  <2>2. CallOK(w)
    BY <1>1, <1>2, <1>5, <1>9, <1>11 DEF CallOK, Reading, Target!Steps
  <2>3. QED
    BY <1>1, <1>5, <2>1, <2>2, CallMovesOn DEF x
<1>12. CASE x.anchor # None /\ ~Target!Canonical(x.anchor)
  <2>1. call' = [call EXCEPT ![c] = z]
    BY <1>1, <1>12 DEF AtStep
  <2>2. /\ IsCall(z) /\ z.step = "refused" /\ z.input = x.input /\ z.asked = x.asked
        /\ z.anchor = x.anchor
    BY <1>2, <1>3, CallStepSet
  <2> HIDE DEF x, z
  <2>3. x.asked.anchor # None
    BY <1>1, <1>2, <1>12 DEF CallOK
  <2>4. CallOK(z)
    BY <1>1, <1>2, <1>12, <2>2, <2>3 DEF CallOK, Reading, Target!Steps
  <2>5. QED
    BY <1>1, <2>1, <2>2, <2>4, CallMovesOn DEF x
<1>13. QED
  BY <1>10, <1>11, <1>12

\* A read of the state at the anchor's hash.
LEMMA ReadKeeps ==
  ASSUME TargetInv, NEW c \in Calls, Target!Read(c)
  PROVE  TargetInv' /\ Target!ObservesAtOnce
<1> DEFINE x == call[c]
           s == Target!Shape(x.anchor.block, x.input)
           next == Target!Following(x.step, s, x.input)
           reads == Target!Canonical(x.anchor) /\ ~Target!Refused(x.step, s)
           y == AtStep(x, next)
           z == AtStep(x, "refused")
<1>1. /\ x.step \in Reading \ {"finalHeader"} /\ UNCHANGED <<chain, orphans, tForks, snapshot>>
      /\ reads => call' = [call EXCEPT ![c] = y]
      /\ ~reads => call' = [call EXCEPT ![c] = z]
  BY CallIs DEF Target!Read, Target!Advance, Target!chainVars, AtStep, Reading, IsCall
<1>2. CallOK(x) /\ IsCall(x) /\ "refused" \in TargetSteps /\ Reading \subseteq TargetSteps
  BY CallIs DEF TargetSteps, Reading
<1>3. x.anchor # None /\ Deep(x.anchor) /\ Known(x.step, s, x.input)
  BY <1>1, <1>2 DEF CallOK
<1>4. x.step \notin {"verified", "idle"}
  BY <1>1 DEF Reading, Target!Steps
<1>5. CASE reads
  <2>1. next \in Reading /\ Known(next, s, x.input)
    BY <1>1, <1>3, <1>5, ReadTells
  <2>2. /\ IsCall(y) /\ y.step = next /\ y.input = x.input /\ y.asked = x.asked
        /\ y.anchor = x.anchor
    BY <1>2, <2>1, CallStepSet
  <2>3. next \notin {"chainId", "head", "header", "idle", "refused", "verified"}
    BY <2>1 DEF Reading, Target!Steps
  <2>4. Known(y.step, Target!Shape(y.anchor.block, y.input), y.input)
    BY <2>1, <2>2
  <2> HIDE DEF x, s, next, y
  <2>5. CallOK(y)
    BY <1>1, <1>2, <1>3, <1>4, <2>1, <2>2, <2>3, <2>4 DEF CallOK
  <2>6. QED
    BY <1>1, <1>4, <1>5, <2>2, <2>3, <2>5, CallMovesOn DEF x
<1>6. CASE ~reads
  <2>1. /\ IsCall(z) /\ z.step = "refused" /\ z.input = x.input /\ z.asked = x.asked
        /\ z.anchor = x.anchor
    BY <1>2, CallStepSet
  <2>2. tForks = 0 => Target!Canonical(x.anchor)
    BY <1>2, <1>3 DEF CallOK, InChain
  <2>3. tForks = 0 => Target!Refused(x.step, s)
    BY <1>6, <2>2
  <2>4. tForks = 0 => Target!Verdict(x.anchor.block, x.input) = None
    BY <1>1, <1>3, <2>3, RefusalTells
  <2> HIDE DEF x, s, z, next
  <2>5. CallOK(z)
    BY <1>2, <1>3, <1>4, <2>1, <2>4 DEF CallOK, Reading, Target!Steps
  <2>6. QED
    BY <1>1, <1>4, <1>6, <2>1, <2>5, CallMovesOn DEF x
<1>7. QED
  BY <1>5, <1>6

\* Only the header read once more makes an observation, of a block that is confirmed then.
LEMMA ReadFinalHeaderKeeps ==
  ASSUME TargetInv, NEW c \in Calls, Target!ReadFinalHeader(c)
  PROVE  TargetInv' /\ Target!ObservesAtOnce
<1> DEFINE x == call[c]
           y == AtStep(x, "verified")
           z == AtStep(x, "refused")
           b == x.anchor.block
           n == x.anchor.number
<1>1. /\ x.step = "finalHeader" /\ UNCHANGED <<chain, orphans, tForks, snapshot>>
      /\ Target!Canonical(x.anchor) => call' = [call EXCEPT ![c] = y]
      /\ ~Target!Canonical(x.anchor) => call' = [call EXCEPT ![c] = z]
  BY CallIs DEF Target!ReadFinalHeader, Target!Advance, Target!chainVars, AtStep, IsCall
<1>2. /\ CallOK(x) /\ IsCall(x) /\ "refused" \in TargetSteps /\ "verified" \in TargetSteps
      /\ "finalHeader" \in Reading
  BY CallIs DEF TargetSteps, Reading, Target!Steps
<1>3. /\ x.anchor # None /\ Deep(x.anchor) /\ x.input \in Inputs
      /\ Known("finalHeader", Target!Shape(b, x.input), x.input)
  BY <1>1, <1>2 DEF CallOK
<1>4. CASE Target!Canonical(x.anchor)
  <2>1. /\ IsCall(y) /\ y.step = "verified" /\ y.input = x.input /\ y.asked = x.asked
        /\ y.anchor = x.anchor
    BY <1>2, CallStepSet
  <2>2. CallOK(y)
    <3> HIDE DEF x, y
    <3>1. QED
      BY <1>1, <1>2, <2>1 DEF CallOK, Reading, Target!Steps
  <2>3. TargetInv'
    BY <1>1, <1>4, <2>2, CallFrame
  <2>4. /\ n \in 1..MaxHeight /\ b \in Target!Blocks /\ x.anchor \in Target!Anchors
    BY <1>2, <1>3 DEF IsCall, Target!Anchors
  <2>5. n \in 1..Len(chain) /\ n + Depth <= Len(chain) /\ chain[n] = b
    <3>1. n <= Len(chain) /\ Target!At(n) = x.anchor
      BY <1>4 DEF Target!Canonical
    <3>2. chain[n] = b
      BY <3>1 DEF Target!At
    <3>3. QED
      BY <1>3, <2>4, <3>1, <3>2, CallIs DEF Deep
  <2>6. Target!Shape(b, x.input) \in Target!Shapes
    BY <1>3, <2>4, TargetConstants DEF Target!Shape, Target!Blocks
  <2>7. /\ Target!Verdict(b, x.input) = Target!Assurance(b, x.input)
        /\ Target!Verdict(b, x.input) # None
    BY <1>3, <2>6, ReadsTellAll
  <2> DEFINE answer == [input |-> x.input, number |-> n, block |-> b,
                        assurance |-> Target!Assurance(b, x.input)]
  <2>8. \A d \in Calls : call'[d] = IF d = c THEN y ELSE call[d]
    BY <1>1, <1>4 DEF TargetInv
  <2>9. /\ Target!Answer[c] = None
        /\ Target!Answer' = [Target!Answer EXCEPT ![c] = answer]
    <3> HIDE DEF y
    <3>1. QED
      BY <1>1, <2>1, <2>8 DEF Target!Answer
  <2>10. Target!Atomic!Observe(c)
    <3> HIDE DEF x, y, b, n
    <3>1. QED
      BY <1>1, <1>3, <2>5, <2>7, <2>9 DEF Target!Atomic!Observe
  <2>11. QED
    BY <2>3, <2>10 DEF Target!ObservesAtOnce, Target!Atomic!Next
<1>5. CASE ~Target!Canonical(x.anchor)
  <2>1. /\ IsCall(z) /\ z.step = "refused" /\ z.input = x.input /\ z.asked = x.asked
        /\ z.anchor = x.anchor
    BY <1>2, CallStepSet
  <2>2. tForks # 0
    BY <1>2, <1>3, <1>5 DEF CallOK, InChain
  <2> HIDE DEF x, z
  <2>3. CallOK(z)
    BY <1>1, <1>2, <1>3, <2>1, <2>2 DEF CallOK, Reading, Target!Steps
  <2>4. QED
    BY <1>1, <1>5, <2>1, <2>3, CallMovesOn DEF x
<1>6. QED
  BY <1>4, <1>5

LEMMA TargetRests ==
  ASSUME TargetInv, UNCHANGED observing
  PROVE  TargetInv' /\ Target!ObservesAtOnce
<1>1. UNCHANGED <<chain, orphans, tForks, snapshot, call>>
  BY DEF observing
<1>2. tForks' \in tForks..MaxForks /\ Len(chain') \in Len(chain)..MaxHeight
  BY <1>1, TargetConstants DEF TargetInv
<1>3. Branch(chain', tForks') /\ Branch(orphans', tForks')
  BY <1>1 DEF TargetInv
<1>4. QED
  BY <1>1, <1>2, <1>3, ChainMoves, AnswersRest DEF Target!ObservesAtOnce, Target!Atomic!vars

LEMMA AsksKeep ==
  ASSUME TargetInv, NEW c \in Calls, NEW i \in Inputs, Target!Asks(c, i)
  PROVE  TargetInv' /\ Target!ObservesAtOnce
<1>1. CASE Target!Observe(c, i, None)
  BY <1>1, ObserveKeeps
<1>2. ASSUME NEW n \in 1..Len(chain), Target!Observe(c, i, Target!At(n))
      PROVE  TargetInv' /\ Target!ObservesAtOnce
  BY <1>2, ObserveKeeps
<1>3. QED
  BY <1>1, <1>2 DEF Target!Asks

LEMMA ServesKeeps ==
  ASSUME TargetInv, Target!Serves
  PROVE  TargetInv' /\ Target!ObservesAtOnce
<1>1. ASSUME NEW s \in Snapshots,
             Target!PinHead(s) \/ Target!PinHeader(s) \/ Target!EndSnapshot(s)
      PROVE  TargetInv' /\ Target!ObservesAtOnce
  BY <1>1, HandlesKeep
<1>2. ASSUME NEW c \in Calls,
             \/ Target!ReadChainId(c) \/ Target!ReadHead(c) \/ Target!ReadHeader(c)
             \/ Target!Read(c) \/ Target!ReadFinalHeader(c) \/ Target!Fail(c)
      PROVE  TargetInv' /\ Target!ObservesAtOnce
  BY <1>2, ReadChainIdKeeps, ReadHeadKeeps, ReadHeaderKeeps, ReadKeeps, ReadFinalHeaderKeeps,
     FailKeeps
<1>3. QED
  BY <1>1, <1>2 DEF Target!Serves

\* What the invariant says of observations.
LEMMA ObservationsAreSound ==
  ASSUME TargetInv
  PROVE  Target!TypeOK /\ Target!OneBlockPerSnapshot /\ Target!RefusesOnlyUnsound
<1>1. Target!TypeOK
  <2>1. /\ tForks \in 0..MaxForks /\ Len(chain) \in Depth + 1..MaxHeight
        /\ Len(chain) \in Nat /\ tForks \in Nat
    BY TargetConstants DEF TargetInv
  <2>2. \A n \in 1..Len(chain) : chain[n].fork \in 0..tForks
    <3>1. TAKE n \in 1..Len(chain)
    <3>2. chain[n] \in Target!Blocks /\ chain[n].fork <= tForks
      BY DEF TargetInv, Branch
    <3>3. chain[n].fork \in 0..MaxForks
      BY <3>2 DEF Target!Blocks
    <3>4. QED
      BY <2>1, <3>2, <3>3, TargetConstants
  <2>3. \A s \in Snapshots : snapshot[s].state \in {"none", "pinning", "active", "over"}
    BY DEF TargetInv, HandleOK
  <2>4. ASSUME NEW c \in Calls
        PROVE  /\ call[c].step \in Target!Steps \cup {"idle", "verified", "refused", "failed"}
               /\ call[c].anchor # None => call[c].anchor.number \in 1..Len(chain)
               /\ call[c].step \in Target!Steps \ {"chainId", "head", "header"} =>
                      call[c].anchor # None
    <3>1. CallOK(call[c]) /\ IsCall(call[c])
      BY CallIs
    <3>2. call[c].step \in TargetSteps /\ call[c].anchor \in Target!Anchors \cup {None}
      BY <3>1 DEF IsCall
    <3>3. call[c].anchor # None =>
              call[c].anchor.number \in 1..MaxHeight /\ call[c].anchor.number <= Len(chain)
      BY <3>1, <3>2 DEF CallOK, InChain, Target!Anchors
    <3>4. QED
      BY <2>1, <3>1, <3>2, <3>3, TargetConstants DEF CallOK, TargetSteps, Reading
  <2>5. QED
    BY <2>1, <2>2, <2>3, <2>4 DEF Target!TypeOK
<1>2. Target!OneBlockPerSnapshot
  <2>1. SUFFICES ASSUME NEW c \in Calls, NEW i \in Inputs, i.snapshot # None,
                        Target!Accepts(c, i, None)
                 PROVE  call[c].anchor = snapshot[i.snapshot].anchor
    BY DEF Target!OneBlockPerSnapshot
  <2> DEFINE a == snapshot[i.snapshot].anchor
  <2>2. i.snapshot \in Snapshots /\ snapshot[i.snapshot].state = "active"
    BY <2>1, TargetConstants DEF Target!Accepts, Target!ValidInput, Target!Active
  <2>3. a # None
    BY <2>2 DEF TargetInv, HandleOK
  <2>4. call[c].step = "verified" /\ call[c].asked = Target!Parsed(i, None)
    BY <2>1 DEF Target!Accepts
  <2>5. call[c].asked.anchor = a
    BY <2>1, <2>4 DEF Target!Parsed, Target!AnchorOf, Target!SnapshotAnchor
  <2>6. QED
    BY <2>3, <2>4, <2>5, CallIs DEF CallOK
<1>3. Target!RefusesOnlyUnsound
  BY CallIs DEF Target!RefusesOnlyUnsound, CallOK
<1>4. QED
  BY <1>1, <1>2, <1>3

-----------------------------------------------------------------------------
(* The scenes together.                                                    *)

ScenesInv ==
    /\ scene = "pass" => TurnsInv
    /\ OfTarget => TargetInv
    /\ scene = "judgement" => JudgementInv
    /\ OfExecution => ExecutionInv

LEMMA InitScenes == MCInit => ScenesInv
<1> SUFFICES ASSUME MCInit PROVE ScenesInv
  OBVIOUS
<1>1. CASE scene = "pass" /\ Init
  BY <1>1, InitTurns DEF ScenesInv, OfTarget, OfExecution
<1>2. CASE scene = "ticks"
  BY <1>2 DEF ScenesInv, OfTarget, OfExecution
<1>3. CASE OfTarget /\ Target!Init
  BY <1>3, InitTarget DEF ScenesInv, OfTarget, OfExecution
<1>4. CASE scene = "judgement" /\ JudgedInit
  BY <1>4 DEF JudgedInit, JudgementInv, ScenesInv, OfTarget, OfExecution
<1>5. CASE OfExecution /\ Evaluations!Init
  BY <1>5, InitExecution DEF ScenesInv, OfTarget, OfExecution
<1>6. QED
  BY <1>1, <1>2, <1>3, <1>4, <1>5 DEF MCInit

\* What no step of a scene does to the observations and bindings of it.
Lasting ==
    /\ OfTarget => Target!ObservesAtOnce
    /\ OfExecution => Evaluations!BindsForGood

LEMMA NextScenes == ScenesInv /\ MCNext => ScenesInv' /\ Lasting
<1> SUFFICES ASSUME ScenesInv, MCNext PROVE ScenesInv' /\ Lasting
  OBVIOUS
<1>0. UNCHANGED scene /\ (OfTarget' <=> OfTarget) /\ (OfExecution' <=> OfExecution)
  BY DEF MCNext, OfTarget, OfExecution
<1>1. CASE scene = "pass" /\ Next
  <2>1. TurnsInv'
    BY <1>1, NextTurns DEF ScenesInv
  <2>2. QED
    BY <1>0, <1>1, <2>1 DEF ScenesInv, Lasting, OfTarget, OfExecution
<1>2. CASE scene = "ticks"
  BY <1>0, <1>2 DEF ScenesInv, Lasting, OfTarget, OfExecution
<1>3. CASE /\ OfTarget
           /\ \/ \E w \in SceneWorlds[scene] : Target!Moves(w)
              \/ \E c \in Calls, i \in SceneInputs[scene] : Target!Asks(c, i)
              \/ Target!Serves
  <2>1. TargetInv /\ SceneWorlds[scene] \subseteq Worlds /\ SceneInputs[scene] \subseteq Inputs
    BY <1>3, ScenesAssumption DEF ScenesInv, OfTarget
  <2>2. TargetInv' /\ Target!ObservesAtOnce
    BY <1>3, <2>1, MovesKeep, AsksKeep, ServesKeeps
  <2>3. QED
    BY <1>0, <1>3, <2>2 DEF ScenesInv, Lasting, OfTarget, OfExecution
<1>4. CASE scene = "judgement" /\ Evaluate
  <2>1. JudgementInv'
    BY <1>4 DEF Evaluate, ScenesInv, JudgementInv
  <2>2. QED
    BY <1>0, <1>4, <2>1 DEF ScenesInv, Lasting, OfTarget, OfExecution
<1>5. CASE OfExecution /\ Evaluations!Next
  <2>1. ExecutionInv' /\ Evaluations!BindsForGood
    BY <1>5, NextExecution DEF ScenesInv
  <2>2. QED
    BY <1>0, <1>5, <2>1 DEF ScenesInv, Lasting, OfTarget, OfExecution
<1>6. QED
  BY <1>1, <1>2, <1>3, <1>4, <1>5 DEF MCNext

LEMMA ScenesRest ==
  ScenesInv /\ UNCHANGED <<scene, vars, observing, judging, executing>> => ScenesInv'
<1> SUFFICES ASSUME ScenesInv, UNCHANGED <<scene, vars, observing, judging, executing>>
             PROVE  ScenesInv'
  OBVIOUS
<1>1. UNCHANGED scene /\ (OfTarget' <=> OfTarget) /\ (OfExecution' <=> OfExecution)
  BY DEF OfTarget, OfExecution
<1>2. TurnsInv => TurnsInv'
  BY NextTurns
<1>3. TargetInv => TargetInv'
  BY TargetRests
<1>4. JudgementInv => JudgementInv'
  BY DEF JudgementInv, judging
<1>5. ExecutionInv => ExecutionInv'
  BY ExecutionRests
<1>6. QED
  BY <1>1, <1>2, <1>3, <1>4, <1>5 DEF ScenesInv

LEMMA ScenesAreSound == ScenesInv => ReadingsAreSound
<1> SUFFICES ASSUME ScenesInv PROVE ReadingsAreSound
  OBVIOUS
<1>1. scene = "pass" => FreshDescendsFromSigned
  BY TurnsDescend DEF ScenesInv
<1>2. OfTarget => Target!TypeOK /\ Target!OneBlockPerSnapshot /\ Target!RefusesOnlyUnsound
  BY ObservationsAreSound DEF ScenesInv
<1>3. OfExecution => /\ Evaluations!TypeOK /\ Evaluations!VerdictIsOfOneBlock
                     /\ Evaluations!AcceptedOnceAndOwn /\ Evaluations!BoundAsAsked
  BY EvaluationsAreSound DEF ScenesInv
<1>4. VerdictIsTrue /\ MeasuredIsJudged /\ SchemaAgrees
  <2>1. CASE scene = "judgement"
    BY <2>1, JudgementsAreSound DEF ScenesInv
  <2>2. CASE scene # "judgement"
    BY <2>2 DEF VerdictIsTrue, MeasuredIsJudged, SchemaAgrees
  <2>3. QED
    BY <2>1, <2>2
<1>5. QED
  BY <1>1, <1>2, <1>3, <1>4 DEF ReadingsAreSound, ScenesTypeOK, OneBlockPerSnapshot,
     RefusesOnlyUnsound, VerdictIsOfOneBlock, AcceptedOnceAndOwn, BoundAsAsked

\* What a verifier reads of a growing and forking chain is of one chain and one block,
\* is judged by what it means there, and is bound to what was asked (target.ts,
\* execute.ts, the adapters, runPreviewGate), for every chain, deployment, address shape,
\* call and return data, and whatever numbers of blocks, calls, snapshots and evaluations.
THEOREM EveryReadingIsSound == MCSpec => []ReadingsAreSound
<1>1. MCSpec => []ScenesInv
  BY InitScenes, NextScenes, ScenesRest, PTL DEF MCSpec
<1>2. QED
  BY <1>1, ScenesAreSound, PTL

\* Every observation of a target implements one made at an instant, step by step
\* (target.ts, observe), and no binding of a result is changed (execute.ts, bind).
THEOREM EveryObservationLasts == MCSpec => ObservedForGood
<1>1. MCSpec => []ScenesInv
  BY InitScenes, NextScenes, ScenesRest, PTL DEF MCSpec
<1>2. ScenesInv /\ [MCNext]_<<scene, vars, observing, judging, executing>> =>
          [/\ OfTarget => Target!ObservesAtOnce
           /\ OfExecution => Evaluations!BindsForGood
          ]_<<scene, vars, observing, judging, executing>>
  BY NextScenes DEF Lasting
<1>3. QED
  BY <1>1, <1>2, PTL DEF MCSpec, ObservedForGood
=============================================================================
