------------------------- MODULE MCExecutionPreview -------------------------
(***************************************************************************)
(* Small instances of what a verifier reads of the chain block by block:   *)
(* the execution preview of a rebalance, the observation of a category     *)
(* target, the adapters' judgement of what they read, and the evaluation   *)
(* that calls them.  They share no state here: scene names the one that    *)
(* runs, and the variables of the others rest.                             *)
(***************************************************************************)
EXTENDS ExecutionPreview, TLC, FiniteSets

CONSTANTS
    b1, b2, c1, c2, s1, s2, e1, e2, r1, m1, m2,
    Calls, Snapshots, Inputs, Worlds, Provider, WithSnapshots,   \* of the observations
    WordMax, WordBytes, Scale, DecimalMax, MarketsMax,           \* of the adapters
    Int24, V3Ticks, Uint160Max, V3Sqrt, Ragged,
    JudgedScopes, ReadAnswers(_),                                \* of the judgements
    Runs, Executors, Deployment, MandateScopes, Contexts, Requests, Readings, TurnsAt,
    Asked                                                        \* of the evaluations

VARIABLES
    scene,
    chain, orphans, tForks, snapshot, call,        \* observations of a target
    scope, answers, verdict,                       \* a judgement
    xBranch, xHeight, xForks, xWorld, xSnapshot,   \* evaluations
    request, run, binding, accepted

observing == <<chain, orphans, tForks, snapshot, call>>
judging == <<scope, answers, verdict>>
executing == <<xBranch, xHeight, xForks, xWorld, xSnapshot, request, run, binding, accepted>>

-----------------------------------------------------------------------------
(* Previews: what changes between two blocks, under two policies; and every*)
(* tick on and around the ranges, on a chain of one block.                 *)
MCMinTick == -24

Scene(tick, position, fault, authority, allowance) ==
    [tick |-> tick, position |-> position, fault |-> fault, authority |-> authority,
     allowance |-> allowance]

Near == Range(0, 4)
Far == Range(8, 16)
Wide == [mode |-> "boundary_proximity", distance |-> 1, width |-> 8, low |-> -12,
         high |-> 20, drift |-> 2]
Strict == [mode |-> "out_of_range", distance |-> 9, width |-> 4, low |-> -8,
           high |-> 16, drift |-> 9]

MCPolicies == {Wide, Strict}
MCScenes ==
    {Scene(4, Near, None, "owner", TRUE),
     Scene(6, Near, None, "token_approval", TRUE),
     Scene(4, Far, None, "operator_approval", TRUE)}

MCTicks == {Scene(t, p, None, "owner", TRUE) : t \in -9..17, p \in {Near, Range(-4, 5)}}
MCWidths ==
    {[mode |-> m, distance |-> d, width |-> w, low |-> -12, high |-> 16, drift |-> 3] :
        m \in Modes, d \in {0, 2}, w \in {2, 4, 8, 12}}

Ticks == INSTANCE ExecutionPreview WITH
    Branches <- {b1}, MaxHeight <- Depth, MaxForks <- 0, Scenes <- MCTicks, Policies <- MCWidths

\* One block, or every block alike.
Still(s, p) ==
    /\ branch = b1 /\ height = Depth /\ forks = 0
    /\ world = [b \in Blocks |-> s] /\ policy = p
    /\ task = None /\ preview = NoPreview

-----------------------------------------------------------------------------
(* Observations of a target.                                               *)
Target == INSTANCE CategoryTarget WITH forks <- tForks
ASSUME TargetAssumption ==
    /\ Target!DepthAssumption /\ Target!SwitchAssumption
    /\ Target!InputAssumption /\ Target!NoneAssumption

TargetPair == {"pinned", "other"}

Ask(adapter, target, comptroller, market, s) ==
    [adapter |-> adapter, target |-> target,
     account |-> adapter \in {"health", "venusComptroller", "venusMarket"},
     comptroller |-> comptroller, market |-> market, snapshot |-> s]

Both(s) == [t \in TargetPair |-> s]
Plain == [code |-> "plain", slot |-> "zero", beacon |-> "zero",
          implementation |-> "contract", interface |-> TRUE, root |-> "endorses"]
Unendorsed == [Plain EXCEPT !.root = "other"]
Unclassified == [Plain EXCEPT !.code = "delegating", !.beacon = "contract", !.slot = "contract"]

MarketInputs == {Ask("venusMarket", "other", "pinned", None, None)}
BranchWorlds == {Both(Plain), Both(Unendorsed), Both(Unclassified)}

AllInputs ==
    {Ask("grid", "other", None, None, None), Ask("yield", "other", None, None, None),
     Ask("health", "other", None, None, None)}
    \cup {Ask("venusComptroller", t, c, m, None) :
             t \in TargetPair, c \in TargetPair \cup {None}, m \in {"other", None}}
    \cup {Ask("venusMarket", "other", c, m, None) :
             c \in TargetPair \cup {None}, m \in {"other", "pinned", None}}
    \cup {[Ask("grid", "other", None, None, None) EXCEPT !.account = TRUE],
          [Ask("health", "other", None, None, None) EXCEPT !.account = FALSE],
          Ask("yield", "other", "pinned", None, None)}
\* The beacon's word is read only when there is a beacon.
SlotWords == {"zero", "malformed", "self", "contract", "empty"}
BeaconWords == {"invalid", "self", "beacon", "contract", "empty"}
AllWorlds ==
    {Both([code |-> c, slot |-> s, beacon |-> p[1], implementation |-> p[2], interface |-> f,
           root |-> r]) :
        c \in {"empty", "plain", "delegating"}, s \in SlotWords,
        p \in {q \in SlotWords \X BeaconWords : q[1] # "contract" => q[2] = "contract"},
        f \in BOOLEAN, r \in {"endorses", "other", "invalid"}}

SnapshotInputs == {Ask("grid", "other", None, None, s) : s \in {s1, s2, None}}
TwoWorlds == {Both(Plain), Both(Unendorsed)}

MCInputs == MarketInputs \cup AllInputs \cup SnapshotInputs
TwoCalls == {c1, c2}
SecondCall == {c2}
TwoSnapshots == {s1, s2}

\* A target endorsed on one branch of the chain only, and made on another into a proxy
\* that cannot be classified, at a block of the observer's choice or at a given anchor;
\* every input over every shape, on a chain that rests; and observations under two opaque
\* snapshots, by the observer that was given them.
OfTarget == scene \in {"target", "shapes", "snapshots"}
SceneInputs == [target |-> MarketInputs, shapes |-> AllInputs, snapshots |-> SnapshotInputs]
SceneWorlds == [target |-> BranchWorlds, shapes |-> {}, snapshots |-> TwoWorlds]
ASSUME ScenesAssumption ==
    \A s \in {"target", "shapes", "snapshots"} :
        SceneInputs[s] \subseteq Inputs /\ SceneWorlds[s] \subseteq Worlds

InTarget ==
    /\ scene = "snapshots" => tForks <= 1
    /\ scene # "snapshots" => \A s \in Snapshots : snapshot[s].state = "none"

-----------------------------------------------------------------------------
(* Judgements: every adapter over every small return data.                 *)
Evaluations == INSTANCE CategoryExecution WITH
    Scopes <- MandateScopes, Scenes <- Readings, ForkAt <- TurnsAt,
    branch <- xBranch, height <- xHeight, forks <- xForks, world <- xWorld, snapshot <- xSnapshot
ASSUME EvaluationAssumption ==
    /\ Evaluations!WidthAssumption /\ Evaluations!RequestAssumption
    /\ Evaluations!ChainAssumption /\ Evaluations!ReadAssumption
    /\ Evaluations!ScopeAssumption /\ Evaluations!NoneAssumption
ASSUME JudgementAssumption ==
    /\ JudgedScopes \subseteq Evaluations!ValidScopes
    /\ \A s \in JudgedScopes :
        ReadAnswers(s.adapter) \subseteq [Evaluations!LabelsOf(s.adapter) -> Evaluations!Data]

ShortInts == -5..4
PoolTicks == -3..3
PoolPrices == 1..6

Word == 0..WordMax
Missing == {None, Ragged, <<>>}
Few == {0, 1, 3, WordMax}

SmallScopes ==
    {s \in {[adapter |-> "grid", lower |-> l, upper |-> u] : l \in -3..2, u \in -2..3} :
        s.lower < s.upper}
    \cup {[adapter |-> a, lower |-> l, upper |-> 0] : a \in {"yield", "aave", "venus"}, l \in 1..3}

GridData == Missing \cup {<<p>> : p \in Few} \cup {<<p, t>> : p \in Word, t \in Word}
            \cup {<<p, t, 0>> : p \in Few, t \in Word}
One == Missing \cup {<<w>> : w \in Word} \cup {<<1, 1>>}
AccountData == Missing \cup {<<1, d, 1, 1, 1, f>> : d \in Word, f \in Word}
               \cup {<<1, 1, 1, 1, 1>>, <<1, 1, 1, 1, 1, 3, 1>>}
LiquidityData == Missing \cup {<<e, l, s>> : e \in {0, 1}, l \in Few \cup {2}, s \in Few}
                 \cup {<<0, 3>>, <<0, 3, 0, 0>>}
ArrayData == Missing
             \cup UNION {[1..n -> {0, 1, 2, 4, 6}] : n \in 1..3}
             \cup {<<2, n, 7, 7>> : n \in 0..4}
BorrowData == {None, <<>>, <<0>>, <<3>>, <<3, 0, 0>>}

Answers(adapter) ==
    CASE adapter = "grid" -> {[l \in {"slot0"} |-> d] : d \in GridData}
      [] adapter = "yield" -> [{"totalAssets", "totalSupply"} -> One]
      [] adapter = "aave" -> {[l \in {"getUserAccountData"} |-> d] : d \in AccountData}
      [] adapter = "venus" ->
            {[l \in Evaluations!LabelsOf("venus") |->
                CASE l = "getAccountLiquidity" -> d[1]
                  [] l = "getAssetsIn" -> d[2]
                  [] OTHER -> d[3]] : d \in LiquidityData \X ArrayData \X BorrowData}

JudgedInit ==
    /\ scope \in JudgedScopes
    /\ answers \in ReadAnswers(scope.adapter)
    /\ verdict = None

Evaluate ==
    /\ verdict = None
    /\ verdict' = Evaluations!Judge(scope, answers)
    /\ UNCHANGED <<scope, answers>>

-----------------------------------------------------------------------------
(* Evaluations.                                                            *)
Vault(assets, supply) ==
       "totalAssets" :> <<assets>> @@ "totalSupply" :> <<supply>>
    @@ "slot0" :> <<3, 2>> @@ "getUserAccountData" :> <<1, 1, 1, 1, 1, 3>>
    @@ "getAccountLiquidity" :> <<0, assets, 0>>
    @@ "getAssetsIn" :> <<2, 1, 7>> @@ "borrowBalanceStored" :> <<1, 0, 0>>

YieldScope == [adapter |-> "yield", lower |-> 2, upper |-> 0]
GridScope == [adapter |-> "grid", lower |-> -1, upper |-> 3]
AaveScope == [adapter |-> "aave", lower |-> 2, upper |-> 0]
VenusScope == [adapter |-> "venus", lower |-> 3, upper |-> 0]

TwoExecutors == {e1, e2}
OneRun == {r1}
TwoContexts == {m1, m2}
NoScopes == {}
Deployed == e1 :> {YieldScope, AaveScope, VenusScope} @@ e2 :> {YieldScope, GridScope}
SomeRequests == [adapter : {"yield", "grid"}, context : {m1, m2}]

\* A vault below the floor, one above it, and the two mixed are above it as well.
Vaults == {Vault(4, 8), Vault(8, 4)}

\* In one scene one executor judges the yield of vaults on a chain that forks, for one
\* mandate; in the other two executors with different adapters, two contexts and a
\* request that changes, all at one block.
OfExecution == scene \in {"verdicts", "binding"}
InExecution ==
    /\ scene = "verdicts" =>
        /\ request = [adapter |-> "yield", context |-> m1]
        /\ \A r \in Runs : /\ run[r].executor \in {None, e1}
                           /\ run[r].scope \in {None, YieldScope}
                           /\ binding[r] # None => binding[r].context = m1
    /\ scene = "binding" =>
        /\ xHeight <= Depth + 1 /\ xForks = 0
        /\ \A block \in DOMAIN xWorld : xWorld[block] = Vault(8, 4)
        /\ \A r \in Runs : run[r].anchor # None => run[r].anchor[1] = 1

-----------------------------------------------------------------------------
(* One scene runs, the others rest.                                        *)
RestPreview == Still(CHOOSE s \in MCScenes : TRUE, Wide)
RestTarget == chain = None /\ orphans = None /\ tForks = None /\ snapshot = None /\ call = None
RestJudgement == scope = None /\ answers = None /\ verdict = None
RestExecution ==
    /\ xBranch = None /\ xHeight = None /\ xForks = None /\ xWorld = None /\ xSnapshot = None
    /\ request = None /\ run = None /\ binding = None /\ accepted = None

MCInit ==
    \/ scene = "pass" /\ Init /\ RestTarget /\ RestJudgement /\ RestExecution
    \/ /\ scene = "ticks" /\ \E s \in MCTicks, p \in MCWidths : Still(s, p)
       /\ RestTarget /\ RestJudgement /\ RestExecution
    \/ /\ RestPreview /\ RestJudgement /\ RestExecution
       /\ OfTarget /\ Target!Init
       /\ scene # "shapes" => chain[1].world \in SceneWorlds[scene]
    \/ scene = "judgement" /\ JudgedInit /\ RestPreview /\ RestTarget /\ RestExecution
    \/ /\ RestPreview /\ RestTarget /\ RestJudgement
       /\ OfExecution /\ Evaluations!Init /\ InExecution

MCNext ==
    /\ UNCHANGED scene
    /\ \/ scene = "pass" /\ Next /\ UNCHANGED <<observing, judging, executing>>
       \/ scene = "ticks" /\ Ticks!Next /\ UNCHANGED <<observing, judging, executing>>
       \/ /\ UNCHANGED <<vars, judging, executing>>
          /\ OfTarget
          /\ \/ \E w \in SceneWorlds[scene] : Target!Moves(w)
             \/ \E c \in {d \in Calls : d \in WithSnapshots <=> scene = "snapshots"} :
                    \E i \in SceneInputs[scene] : Target!Asks(c, i)
             \/ Target!Serves
          /\ InTarget'
       \/ scene = "judgement" /\ Evaluate /\ UNCHANGED <<vars, observing, executing>>
       \/ /\ UNCHANGED <<vars, observing, judging>>
          /\ OfExecution /\ Evaluations!Next /\ InExecution'

MCSpec == MCInit /\ [][MCNext]_<<scene, vars, observing, judging, executing>>

-----------------------------------------------------------------------------
(* The properties of each, in the scenes it runs in.                       *)

\* What the state of each part may be, whichever runs.
ScenesTypeOK ==
    /\ OfTarget => Target!TypeOK
    /\ OfExecution => Evaluations!TypeOK

\* What assertObserved lets through under a snapshot was observed at that snapshot's
\* block, though the handle is opaque (target.ts:377-393, 1218-1227).
OneBlockPerSnapshot == OfTarget => Target!OneBlockPerSnapshot

\* While no block is replaced, an observation ends without an answer only where the block
\* itself gives it nothing (target.ts:517-644).
RefusesOnlyUnsound == OfTarget => Target!RefusesOnlyUnsound

\* A verdict is about what was measured: a pass is an established metric within the
\* mandate in exact arithmetic, a fail one outside it.  No read that is missing,
\* malformed, a sentinel or empty of meaning becomes either.
VerdictIsTrue ==
    scene = "judgement" /\ verdict # None =>
        /\ verdict.status = "pass" =>
              Evaluations!Established(scope, answers) /\ Evaluations!Satisfied(scope, answers)
        /\ verdict.status = "fail" =>
              Evaluations!Established(scope, answers) /\ ~Evaluations!Satisfied(scope, answers)

\* An established metric is judged: an adapter does not answer unknown to reads that mean
\* something.
MeasuredIsJudged ==
    scene = "judgement" /\ verdict # None /\ Evaluations!Established(scope, answers) =>
        verdict.status # "unknown"

\* The artifact schema, which judges the evidence of a pass again and knows the codes of
\* every adapter, accepts every verdict of the adapters, and would take none of their
\* fails for a pass.
SchemaAgrees ==
    scene = "judgement" /\ verdict \notin {None, Evaluations!Throws} =>
        /\ Evaluations!ArtifactAccepts(scope, verdict, answers)
        /\ verdict.status = "fail" => ~Evaluations!PassRule(scope, answers)

\* Whatever the chain does between the reads of an evaluation, a pass is a metric within
\* the mandate and a fail one outside it in the state of the pinned block (execute.ts).
VerdictIsOfOneBlock == OfExecution => Evaluations!VerdictIsOfOneBlock

\* What a signer's assertion lets through is a pass of that very executor, always for one
\* mandate and one candidate (execute.ts, assertBound).
AcceptedOnceAndOwn == OfExecution => Evaluations!AcceptedOnceAndOwn

\* What evaluateBound binds is what its caller asked for when it called, whatever becomes
\* of the request object (execute.ts, evaluateBound).
BoundAsAsked == OfExecution => Evaluations!BoundAsAsked


\* What is read of a growing and forking chain is of one chain and one block, is judged by
\* what it means there, and is bound to what was asked.
ReadingsAreSound ==
    /\ ScenesTypeOK
    /\ scene = "pass" => FreshDescendsFromSigned
    /\ OneBlockPerSnapshot
    /\ RefusesOnlyUnsound
    /\ VerdictIsTrue
    /\ MeasuredIsJudged
    /\ SchemaAgrees
    /\ VerdictIsOfOneBlock
    /\ AcceptedOnceAndOwn
    /\ BoundAsAsked

\* Every observation of a target is as if made at one instant (target.ts:433-777), and a
\* binding is never changed or taken away (execute.ts, bind).
ObservedForGood ==
    [][/\ OfTarget => Target!ObservesAtOnce
       /\ OfExecution => Evaluations!BindsForGood]_<<scene, vars, observing, judging, executing>>
=============================================================================
