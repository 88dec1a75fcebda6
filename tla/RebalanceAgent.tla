--------------------------- MODULE RebalanceAgent ---------------------------
(***************************************************************************)
(* The rebalancing agent (mandaterebalance/app/agent/src/rebalance.ts):    *)
(* RebalanceService.prepareQuote reads a position and offers a range,      *)
(* deliver reads it again once the job is paid and answers with a receipt. *)
(* Each read (PancakeV3StateReader.read) is a row of calls pinned to the   *)
(* hash of one block, on a chain that grows and reorganizes and through a  *)
(* node that fails, while the seconds of the mandate run out.              *)
(*                                                                         *)
(* A holder stands for the owner of the position and its liquidity: Empty  *)
(* is a position without any.                                              *)
(***************************************************************************)
EXTENDS RebalanceRange, Sequences

CONSTANTS
    Mandates,      \* [expires, permission, estimated, maxAge, policy]
    Position,      \* the range of the position, which never changes
    Spacing,
    Ticks, Holders, Empty,   \* what a block may show
    Depth,         \* the confirmation depth of a pin
    Tolerance,     \* how far ahead of the clock a block or an estimate may stand
    MaxTime, MaxBlocks, MaxForks,   \* bounds on the clock and on the chain
    None

\* What the model takes for granted of the constants.
AgentAssumption ==
    /\ {Depth, Tolerance, MaxTime, MaxBlocks, MaxForks} \subseteq Nat /\ MaxBlocks > Depth
    /\ Spacing \in Nat \ {0} /\ Aligned(Position, Spacing)
    /\ {Position.lower, Position.upper} \cup Ticks \subseteq Int
    /\ \A m \in Mandates :
        /\ {m.expires, m.permission, m.estimated, m.maxAge} \subseteq Int
        /\ {m.policy.width, m.policy.low, m.policy.high} \subseteq Int
        /\ m.policy.drift \in Nat

Attempts == 2
Facts == {"tick", "holder"}
Reading == {"head", "pin", "code", "facts", "factory", "canonical", "landed"}

VARIABLES
    mandate,
    now,
    chain, forks,    \* the canonical blocks, and the reorganizations so far
    pc,              \* idle, the stage of the read under way, quoted, ended
    purpose,         \* what the read is for: "quote" or "delivery"
    attempt,         \* of the reader's two
    head, pin,       \* the head seen, and the block pinned below it
    seen,            \* the facts read of it
    quote,           \* the signed task: [evidence, proposal], or None
    answer           \* [status, code, at, evidence] of what ended last, or None

vars == <<mandate, now, chain, forks, pc, purpose, attempt, head, pin, seen, quote, answer>>

Block(fork, at, tick, holder) == [fork |-> fork, at |-> at, tick |-> tick, holder |-> holder]
Blocks == [fork : 0..MaxForks, at : 0..MaxTime, tick : Ticks, holder : Holders \cup {Empty}]
Pins == [height : Nat, block : Blocks]
Observations == [head : Nat, height : Nat, block : Blocks, tick : Ticks,
                 holder : Holders \cup {Empty}]
Codes == {"MANDATE_EXPIRED", "PERMISSION_EXPIRED", "STALE_EVIDENCE", "INVALID_MANDATE",
          "EVIDENCE_UNAVAILABLE", "STATE_DRIFT", "TARGET_RANGE_EXITED", "POSITION_INACTIVE",
          "REBALANCE_NOT_TRIGGERED", "RANGE_OUTSIDE_MANDATE", "SIGNED_TASK_INVALID"}
Quotes == [evidence : Observations,
           proposal : [range : [lower : Int, upper : Int], tick : Int,
                       reason : {"near_range_boundary", "outside_current_range"},
                       distance : Int]]
Answers == [status : {"refused", "offered", "thrown", "simulation_ready"},
            code : Codes \cup {None}, at : 0..MaxTime, evidence : Observations \cup {None}]

\* What is not there yet is not mistaken for something that is.
NoneAssumption ==
    /\ None \notin Codes /\ None \notin Ticks /\ None \notin Holders \cup {Empty}
    /\ None \notin Pins /\ None \notin Observations
    /\ None \notin Quotes /\ None \notin Answers

-----------------------------------------------------------------------------
(* The policy: the first rule that refuses, or None.                       *)

Expiry(m, at) ==
    IF m.expires <= at THEN "MANDATE_EXPIRED"
    ELSE IF m.permission <= at THEN "PERMISSION_EXPIRED" ELSE None

\* The limits and allowlists do not change with the state: a mandate of Mandates meets them.
StaticPolicy(m, at) ==
    IF Expiry(m, at) # None THEN Expiry(m, at)
    ELSE IF at - m.estimated > m.maxAge THEN "STALE_EVIDENCE"
    ELSE IF at - m.estimated < -Tolerance THEN "INVALID_MANDATE" ELSE None

Freshness(m, e, at) ==
    IF at - e.block.at > m.maxAge THEN "STALE_EVIDENCE"
    ELSE IF at - e.block.at < -Tolerance THEN "EVIDENCE_UNAVAILABLE" ELSE None

\* Mutant: what was checked before the read is not checked again after it.
Mutant_OnceIsEnough(m, e, at) == Freshness(m, e, at)

\* After a read, quote or delivery alike.
AfterRead(m, e, at) ==
    IF StaticPolicy(m, at) # None THEN StaticPolicy(m, at) ELSE Freshness(m, e, at)

\* Mutant: a tick on the lower end is outside.
Mutant_OpenBelow(m, e, proposal) ==
    /\ m.policy.width % Spacing = 0
    /\ Aligned(proposal.range, Spacing)
    /\ proposal.range.upper - proposal.range.lower = m.policy.width
    /\ Within(proposal.range, m.policy)
    /\ proposal.range.lower < e.tick /\ e.tick < proposal.range.upper
    /\ proposal.range = Nearest(e.tick, m.policy.width, Spacing)

\* What the schema of a signed task asks of its range.
SignedRange(m, e, proposal) ==
    /\ m.policy.width % Spacing = 0
    /\ Aligned(proposal.range, Spacing)
    /\ proposal.range.upper - proposal.range.lower = m.policy.width
    /\ Within(proposal.range, m.policy) /\ Holds(proposal.range, e.tick)
    /\ proposal.range = Nearest(e.tick, m.policy.width, Spacing)

\* Mutant: a drift that the mandate just tolerates is refused.
Mutant_StrictDrift(m, task, e) ==
    IF e.holder # task.evidence.holder THEN "STATE_DRIFT"
    ELSE IF Absolute(e.tick - task.evidence.tick) >= m.policy.drift THEN "STATE_DRIFT"
    ELSE IF ~Holds(task.proposal.range, e.tick) THEN "TARGET_RANGE_EXITED" ELSE None

\* Mutant: the owner is not compared.
Mutant_AnyOwner(m, task, e) ==
    IF Absolute(e.tick - task.evidence.tick) > m.policy.drift THEN "STATE_DRIFT"
    ELSE IF ~Holds(task.proposal.range, e.tick) THEN "TARGET_RANGE_EXITED" ELSE None

DeliveryState(m, task, e) ==
    IF e.holder # task.evidence.holder THEN "STATE_DRIFT"
    ELSE IF Absolute(e.tick - task.evidence.tick) > m.policy.drift THEN "STATE_DRIFT"
    ELSE IF ~Holds(task.proposal.range, e.tick) THEN "TARGET_RANGE_EXITED" ELSE None

\* Why buildProposal makes no offer.
NotOffered(m, e) ==
    IF ~Fired(m.policy, Position, e.tick) THEN "REBALANCE_NOT_TRIGGERED"
    ELSE IF ~Offers(m.policy, Spacing, Position, e.tick) THEN "RANGE_OUTSIDE_MANDATE" ELSE None

-----------------------------------------------------------------------------
(* The chain, the clock and the node.                                      *)

Tick ==
    /\ now < MaxTime /\ now' = now + 1
    /\ UNCHANGED <<mandate, chain, forks, pc, purpose, attempt, head, pin, seen, quote, answer>>

Mine ==
    /\ Len(chain) < MaxBlocks
    /\ \E tick \in Ticks, holder \in Holders \cup {Empty} :
        chain' = Append(chain, Block(forks, now, tick, holder))
    /\ UNCHANGED <<mandate, now, forks, pc, purpose, attempt, head, pin, seen, quote, answer>>

\* The blocks from one height on are replaced.
Reorganize ==
    /\ forks < MaxForks /\ forks' = forks + 1
    /\ \E from \in 2..Len(chain), tick \in Ticks, holder \in Holders \cup {Empty} :
        chain' = [h \in DOMAIN chain |->
                    IF h < from THEN chain[h]
                    ELSE Block(forks + 1, chain[h].at, tick, holder)]
    /\ UNCHANGED <<mandate, now, pc, purpose, attempt, head, pin, seen, quote, answer>>

Canonical(p) == p.height \in DOMAIN chain /\ chain[p.height] = p.block

-----------------------------------------------------------------------------
(* The service.                                                            *)

Unseen == [f \in Facts |-> None]

\* A call is over, with its receipt, its refusal or its offer.
End(why, stage, status, code, evidence) ==
    /\ pc' = stage /\ purpose' = why
    /\ answer' = [status |-> status, code |-> code, at |-> now, evidence |-> evidence]
    /\ attempt' = 0 /\ head' = 0 /\ pin' = None /\ seen' = Unseen
    /\ UNCHANGED <<mandate, now, chain, forks>>

Refuse(why, code, evidence) ==
    End(why, "ended", "refused", code, evidence) /\ UNCHANGED quote

\* An attempt of the reader begins.
Begin(why, n) ==
    /\ pc' = "head" /\ purpose' = why /\ attempt' = n
    /\ head' = 0 /\ pin' = None /\ seen' = Unseen
    /\ UNCHANGED <<mandate, now, chain, forks, quote, answer>>

\* prepareQuote, up to its read.
PrepareQuote ==
    /\ pc = "idle"
    /\ LET refusal == StaticPolicy(mandate, now)
       IN  IF refusal = None THEN Begin("quote", 1) ELSE Refuse("quote", refusal, None)

\* deliver, up to its read.
Deliver ==
    /\ pc = "quoted"
    /\ LET refusal == IF ~SignedRange(mandate, quote.evidence, quote.proposal)
                      THEN "SIGNED_TASK_INVALID" ELSE Expiry(mandate, now)
       IN  IF refusal = None THEN Begin("delivery", 1) ELSE Refuse("delivery", refusal, None)

\* Mutant: the attempts are counted, and nobody looks at the count.
Mutant_OnceMore == Begin(purpose, attempt + 1)

\* Mutant: a changed snapshot is read again however often.
Mutant_AgainAndAgain == Begin(purpose, 1)

\* The block was replaced, or the node does not know it: the reader's second attempt.
Retry ==
    IF attempt < Attempts THEN Begin(purpose, attempt + 1)
    ELSE Refuse(purpose, "EVIDENCE_UNAVAILABLE", None)

Proceed(stage) ==
    /\ pc' = stage
    /\ UNCHANGED <<mandate, now, chain, forks, purpose, attempt, quote, answer>>

\* getHead: the head, and then the header below it, asked for by its number.
SeeHead ==
    /\ pc = "head"
    /\ IF Len(chain) <= Depth THEN Retry
       ELSE head' = Len(chain) /\ UNCHANGED <<pin, seen>> /\ Proceed("pin")

PinnedHeight(h) == h - Depth

Pin ==
    /\ pc = "pin"
    /\ pin' = [height |-> PinnedHeight(head), block |-> chain[PinnedHeight(head)]]
    /\ UNCHANGED <<head, seen>> /\ Proceed("code")

\* Mutant: the call forgets its block and is answered for the latest.
Mutant_AtLatest(f) == chain[Len(chain)][f]

\* What the node answers to a call at the pinned hash.
ReadAt(f) == pin.block[f]

\* The code of the contracts; requireCanonical is true of this and of every call.
ReadCode ==
    /\ pc = "code"
    /\ IF Canonical(pin) THEN UNCHANGED <<head, pin, seen>> /\ Proceed("facts") ELSE Retry

\* slot0 and ownerOf with positions are under way together and answer in any order.
ReadFact(f) ==
    /\ pc = "facts" /\ seen[f] = None
    /\ IF Canonical(pin)
       THEN /\ seen' = [seen EXCEPT ![f] = ReadAt(f)]
            /\ UNCHANGED <<head, pin>>
            /\ Proceed(IF \A g \in Facts \ {f} : seen[g] # None THEN "factory" ELSE "facts")
       ELSE Retry

ReadFactory ==
    /\ pc = "factory"
    /\ IF Canonical(pin) THEN UNCHANGED <<head, pin, seen>> /\ Proceed("canonical") ELSE Retry

AssertCanonical ==
    /\ pc = "canonical"
    /\ IF Canonical(pin) THEN UNCHANGED <<head, pin, seen>> /\ Proceed("landed") ELSE Retry

\* The node has not the block yet, or it fails in another way.
NodeLags == pc \in Reading \ {"landed"} /\ Retry
NodeFails == pc \in Reading \ {"landed"} /\ Refuse(purpose, "EVIDENCE_UNAVAILABLE", None)

Observed ==
    [head |-> head, height |-> pin.height, block |-> pin.block,
     tick |-> seen["tick"], holder |-> seen["holder"]]

\* prepareQuote, after its read.  A task that its own schema refuses is thrown out of it.
Offer(e) ==
    LET refusal == IF AfterRead(mandate, e, now) # None THEN AfterRead(mandate, e, now)
                   ELSE NotOffered(mandate, e)
        proposal == Proposal(mandate.policy, Spacing, Position, e.tick)
    IN  IF refusal # None THEN Refuse("quote", refusal, e)
        ELSE IF ~SignedRange(mandate, e, proposal)
        THEN End("quote", "ended", "thrown", None, e) /\ UNCHANGED quote
        ELSE /\ End("quote", "quoted", "offered", None, e)
             /\ quote' = [evidence |-> e, proposal |-> proposal]

\* deliver, after its read.
Receipt(e) ==
    LET refusal == IF AfterRead(mandate, e, now) # None THEN AfterRead(mandate, e, now)
                   ELSE DeliveryState(mandate, quote, e)
    IN  IF refusal # None THEN Refuse("delivery", refusal, e)
        ELSE End("delivery", "ended", "simulation_ready", None, e) /\ UNCHANGED quote

\* The last answer of the node reaches the agent, a while after the node gave it.
Land ==
    /\ pc = "landed"
    /\ IF seen["holder"] = Empty THEN Refuse(purpose, "POSITION_INACTIVE", None)
       ELSE IF purpose = "quote" THEN Offer(Observed) ELSE Receipt(Observed)

-----------------------------------------------------------------------------
Init ==
    /\ mandate \in Mandates
    /\ now = 0 /\ forks = 0
    /\ \E tick \in Ticks, holder \in Holders \cup {Empty} :
        chain = [h \in 1..(Depth + 1) |-> Block(0, 0, tick, holder)]
    /\ pc = "idle" /\ purpose = "quote" /\ attempt = 0
    /\ head = 0 /\ pin = None /\ seen = Unseen
    /\ quote = None /\ answer = None

Read ==
    \/ SeeHead \/ Pin \/ ReadCode \/ (\E f \in Facts : ReadFact(f))
    \/ ReadFactory \/ AssertCanonical \/ Land

Next ==
    \/ Tick \/ Mine \/ Reorganize
    \/ PrepareQuote \/ Deliver \/ Read \/ NodeLags \/ NodeFails

Spec == Init /\ [][Next]_vars

\* The node answers every call, if only with an error.
FairSpec == Spec /\ WF_vars(Read)

-----------------------------------------------------------------------------
(* Properties.                                                             *)

\* The stage of a call and what is kept of its read go together.  A reader keeps two
\* attempts at most, and nothing of a read outlives it.
TypeOK ==
    /\ mandate \in Mandates /\ now \in 0..MaxTime /\ forks \in 0..MaxForks
    /\ chain \in Seq(Blocks) /\ Len(chain) \in (Depth + 1)..MaxBlocks
    /\ pc \in Reading \cup {"idle", "quoted", "ended"} /\ purpose \in {"quote", "delivery"}
    /\ attempt \in IF pc \in Reading THEN 1..Attempts ELSE {0}
    /\ (pin # None) <=> (pc \in Reading \ {"head", "pin"})
    /\ pc \in Reading \ {"head", "pin", "code", "facts"} => \A f \in Facts : seen[f] # None
    /\ (quote # None) => (quote.evidence \in Observations)
    /\ pc = "quoted" \/ purpose = "delivery" => quote # None
    /\ (answer = None) <=> (pc = "idle" \/ (pc \in Reading /\ purpose = "quote"))

\* prepareQuote, deliver: whatever the read took, an offer and a ready receipt are dated to a
\* second at which the mandate and its permissions run and neither the estimate of the costs
\* nor the evidence is older than the mandate allows.
AnswerIsLive ==
    answer # None /\ answer.status \in {"offered", "simulation_ready"} =>
        /\ answer.at < mandate.expires /\ answer.at < mandate.permission
        /\ answer.at - mandate.estimated <= mandate.maxAge
        /\ answer.at - answer.evidence.block.at <= mandate.maxAge

\* readSnapshot: the evidence names one block, Depth below the head it names, and all it says
\* is of that block, although the calls are many and the chain moved between them.
EvidenceIsOfOneBlock ==
    answer # None /\ answer.evidence # None =>
        LET e == answer.evidence
        IN  /\ e.height = e.head - Depth
            /\ e.tick = e.block.tick /\ e.holder = e.block.holder

\* prepareQuote and the schema of a task agree on every range: no offer is lost to the
\* schema, and no task the agent signed comes back as SIGNED_TASK_INVALID.
OwnTasksAreValid ==
    answer # None => answer.status # "thrown" /\ answer.code # "SIGNED_TASK_INVALID"

\* deliver: while the position and its tick are as quoted, time is the only reason left to
\* refuse what was read.
UnchangedIsDelivered ==
    pc = "ended" /\ purpose = "delivery" /\ answer.evidence # None
        /\ answer.evidence.tick = quote.evidence.tick
        /\ answer.evidence.holder = quote.evidence.holder
        /\ AfterRead(mandate, answer.evidence, answer.at) = None =>
            answer.status = "simulation_ready"

\* deliver: a ready receipt is for the holder who was quoted, within the drift the mandate
\* tolerates and for a range that still holds the tick.
ReadyIsAsQuoted ==
    answer # None /\ answer.status = "simulation_ready" =>
        /\ answer.evidence.holder = quote.evidence.holder
        /\ Absolute(answer.evidence.tick - quote.proposal.tick) <= mandate.policy.drift
        /\ Holds(quote.proposal.range, answer.evidence.tick)

\* PancakeV3StateReader.read: every read ends, however often the chain reorganizes and the
\* node lags.
EveryReadEnds == (pc \in Reading) ~> (pc \notin Reading)
=============================================================================
