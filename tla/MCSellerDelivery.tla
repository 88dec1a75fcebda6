--------------------------- MODULE MCSellerDelivery ---------------------------
(***************************************************************************)
(* Small instances of the two agents of this repository.  The seller works *)
(* on one job it signed and one it did not, for two requests at once.  The *)
(* rebalancing agent (scene agent) quotes and delivers under policies that *)
(* the tick may leave, and (scene times) under every order of the ends of  *)
(* a mandate.  Scene names the instance that runs.                         *)
(***************************************************************************)
EXTENDS SellerDelivery, Integers, Sequences, FiniteSets, TLC

CONSTANTS None, Selected,    \* the scenes that run
          j1, j2, n1, n2, a, b, empty,
          Mandates, Position, Spacing, Ticks, Holders, Depth, Tolerance,  \* of the agent
          MaxTime, MaxBlocks, MaxForks, MinTick, MaxTick

VARIABLES
    scene,
    mandate, now, blocks, forks, pc, purpose, attempt, head, pin, seen, quote, answer

agent == <<mandate, now, blocks, forks, pc, purpose, attempt, head, pin, seen, quote, answer>>
everything == <<scene, vars, agent>>

-----------------------------------------------------------------------------
\* The seller
MCJobs == {j1, j2}
MCUnsigned == {j2}
MCSlots == 1..(MaxMishaps + 1)

-----------------------------------------------------------------------------
\* The rebalancing agent
Low == -24
Place == [lower |-> 8, upper |-> 16]

Policy(mode, width, drift) ==
    [mode |-> mode, distance |-> 1, width |-> width, low |-> -8, high |-> 20, drift |-> drift]
MandateOf(expires, permission, maxAge, policy) ==
    [expires |-> expires, permission |-> permission, estimated |-> 0, maxAge |-> maxAge,
     policy |-> policy]

\* The tick may leave the range it asked for within the drift, and drift within the range.
AgentMandates == {MandateOf(9, 9, 9, Policy("out_of_range", 4, 1)),
                  MandateOf(9, 9, 9, Policy("boundary_proximity", 8, 0)),
                  MandateOf(9, 9, 9, Policy("boundary_proximity", 8, 1))}

\* One policy under every order of its three ends.
TimesMandates == {MandateOf(4, 3, 9, Policy("out_of_range", 4, 1)),
                  MandateOf(3, 3, 9, Policy("out_of_range", 4, 1)),
                  MandateOf(9, 9, 2, Policy("out_of_range", 4, 1))}

MCMandates == AgentMandates \cup TimesMandates
MCTicks == {3, 4, 12}

Agent == INSTANCE RebalanceAgent WITH Empty <- empty, chain <- blocks
ASSUME RebalancingAssumption ==
    Agent!TickAssumption /\ Agent!AgentAssumption /\ Agent!NoneAssumption

\* Nothing tells one holder from another, nor one request from another.
Alike == Permutations(Holders) \cup Permutations(Notices)

\* Each scene goes through its own part of what the agent may meet.
InScene ==
    /\ scene = "agent" => now = 0 /\ mandate \in AgentMandates
    /\ scene = "times" =>
        /\ mandate \in TimesMandates
        /\ \A h \in DOMAIN blocks : blocks[h].tick = 4
        /\ Cardinality({blocks[h].holder : h \in DOMAIN blocks} \ {empty}) <= 1

-----------------------------------------------------------------------------
\* While the other agent runs the seller is as it was at first.
SellerRests == canSubmit /\ abortable = {}

Rebalancing == scene \in {"agent", "times"}

RestAgent ==
    /\ mandate = None /\ now = None /\ blocks = None /\ forks = None /\ pc = None
    /\ purpose = None /\ attempt = None /\ head = None /\ pin = None /\ seen = None
    /\ quote = None /\ answer = None

MCInit ==
    /\ Init /\ scene \in Selected
    /\ \/ scene = "seller" /\ RestAgent
       \/ Rebalancing /\ SellerRests /\ Agent!Init
    /\ InScene

MCNext ==
    /\ UNCHANGED scene
    /\ \/ scene = "seller" /\ Next /\ UNCHANGED agent
       \/ Rebalancing /\ Agent!Next /\ UNCHANGED vars
    /\ InScene'

MCSpec == MCInit /\ [][MCNext]_everything

-----------------------------------------------------------------------------
(* The properties of the rebalancing agent, in its scenes.                 *)

\* What the state of the agent and of its chain may be.
ScenesTypeOK == Rebalancing => Agent!TypeOK

\* readSnapshot: the evidence names one block, Depth below the head it names, and all it says
\* is of that block, although the calls are many and the chain moved between them.
EvidenceIsOfOneBlock == Rebalancing => Agent!EvidenceIsOfOneBlock

\* prepareQuote and the schema of a task agree on every range: no offer is lost to the
\* schema, and no task the agent signed comes back as SIGNED_TASK_INVALID.
OwnTasksAreValid == Rebalancing => Agent!OwnTasksAreValid

\* deliver: while the position and its tick are as quoted, time is the only reason left to
\* refuse what was read.
UnchangedIsDelivered == Rebalancing => Agent!UnchangedIsDelivered

\* deliver: a ready receipt is for the holder who was quoted, within the drift the mandate
\* tolerates and for a range that still holds the tick.
ReadyIsAsQuoted == Rebalancing => Agent!ReadyIsAsQuoted

\* prepareQuote, deliver: whatever the read took, an offer and a ready receipt are dated to a
\* second at which the mandate and its permissions run and neither the estimate of the costs
\* nor the evidence is older than the mandate allows.
AnswerIsLive == Rebalancing => Agent!AnswerIsLive

\* The rebalancing agent answers for one block, signs tasks it will itself accept, delivers
\* what is still as it was quoted and nothing else, and nothing that has run out.
AgentIsHonest ==
    /\ ScenesTypeOK
    /\ EvidenceIsOfOneBlock
    /\ OwnTasksAreValid
    /\ UnchangedIsDelivered
    /\ ReadyIsAsQuoted
    /\ AnswerIsLive
=============================================================================
