---------------------------- MODULE MCTrustBundle ----------------------------
(***************************************************************************)
(* Small instances of what a marketplace decides from: the trust bundles of*)
(* the category issuer, the evaluation of attested quotes, their comparison*)
(* by the API, and the verification of the supply of candidates.  They     *)
(* share no state here: scene names the one that runs, and the variables   *)
(* of the others rest.                                                     *)
(***************************************************************************)
EXTENDS TrustBundle, Integers, TLC

CONSTANTS k1, k2, k3, r1, pub1, pub2, pub3, def1, mode,
          c1, c2, alice, None,
          Candidates, Keys, PinnedKey, Ttl, CoreSkew, MaxCandidates, Mandates, Drifts, Offers,
          Lags, Leads, LastSecond, MaxIssued, MaxResults, QuoteRank,
          MaxSubmitted, Settings,   \* of the evaluations and comparisons
          Captures, Manifest, Branches, ForkAt, Depth, Ahead, MaxHeight, MaxForks,
          MaxOutages, Scenes,   \* of the supply verification
          Selected,    \* the scenes that run
          FirstRevoked \* the keys the first bundle may list as revoked

VARIABLES
    scene,
    time, drift, mandate, issued, results,   \* evaluations
    call, answer,                            \* comparisons
    branch, height, forks, world, today, capture,   \* a supply verification
    online, outages, scan, card, stopped, reports, runStatus

evaluating == <<time, drift, mandate, issued, results>>
comparing == <<call, answer>>
supplying == <<branch, height, forks, world, today, capture,
               online, outages, scan, card, stopped, reports, runStatus>>
everything == <<vars, scene, evaluating, comparing, supplying>>

-----------------------------------------------------------------------------
(* Bundles.  The control plane changes what it published last, one move for*)
(* every key and edge, legal or not, by one of two plans: one key replaced *)
(* by another in every way, or two rotations over three keys.  A plan names*)
(* the moves of the first signer, of the second and of the third, and those*)
(* of their edges.                                                         *)
End == 6            \* how long keys, releases and edges are valid
Lifetime == 2       \* of a bundle
MaxGeneration == 4
OneKeyReplaced ==
    [listed |-> FirstRevoked,
     old |-> {"keep", "wind down", "retire", "retire unmarked", "retire for good", "revoke",
              "remove revoked", "drop", "forget"},
     new |-> {"keep", "preactive", "activate", "rebind", "revoke"},
     third |-> {"keep"},
     oldEdges |-> {"keep", "none", "shorten"},
     newEdges |-> {"keep", "production", "backdated", "canary"},
     thirdEdges |-> {"keep"}]
TwoRotations ==
    [listed |-> {},
     old |-> {"keep", "wind down"}, new |-> {"keep", "activate", "wind down"},
     third |-> {"keep", "activate", "wind down"},
     oldEdges |-> {"keep"}, newEdges |-> {"keep", "production", "backdated"},
     thirdEdges |-> {"keep", "production", "backdated"}]

MCEnables == [x \in Bindings |-> IF x = def1 THEN {mode} ELSE {}]

OwnBinding == k1 :> pub1 @@ k2 :> pub2 @@ k3 :> pub3 @@ r1 :> def1

Record(binding, l, at) == [binding |-> binding, lifecycle |-> l, changedAt |-> at,
                           from |-> 0, until |-> End, epoch |-> 0]

\* What the control plane may do with the record and the tombstone of an id.
Moved(move, record, tomb, i, generation, epoch, t) ==
  LET Step(l) == IF record = NoEntry THEN Record(OwnBinding[i], l, t)
                 ELSE [record EXCEPT !.lifecycle = l, !.changedAt = t]
      Stone(reason, retain) ==
        [binding |-> IF record = NoEntry THEN OwnBinding[i] ELSE record.binding,
         reason |-> reason, at |-> generation, retain |-> retain]
  IN CASE move = "keep"     -> <<record, tomb>>
       [] move = "preactive" -> <<Record(OwnBinding[i], "preactive", t), tomb>>
       [] move = "activate" -> <<Step("active"), tomb>>
       [] move = "rebind"   -> <<Record(pub1, "active", t), tomb>>
       [] move = "wind down" -> <<Step("retiring"), tomb>>
       [] move = "retire"   -> <<Step("retired"), Stone("retired", generation + 1)>>
       [] move = "retire for long" -> <<Step("retired"), Stone("retired", generation + 2)>>
       [] move = "retire unmarked" -> <<Step("retired"), tomb>>
       [] move = "retire for good" -> <<Step("retired"), Stone("retired", 0)>>
       [] move = "revoke"   -> <<[Step("revoked") EXCEPT !.epoch = epoch], Stone("revoked", 0)>>
       [] move = "remove revoked" -> <<NoEntry, Stone("revoked", 0)>>
       [] move = "drop"     -> <<NoEntry, tomb>>
       [] move = "forget"   -> <<NoEntry, NoEntry>>

MovedEdge(move, edge, t) ==
  CASE move = "keep"       -> edge
    [] move = "none"       -> NoEntry
    [] move = "production" -> [channel |-> "production", from |-> t, until |-> End]
    [] move = "backdated"  -> [channel |-> "production", from |-> 0, until |-> End]
    [] move = "canary"     -> [channel |-> "canary", from |-> t, until |-> End]
    [] move = "shorten"    -> IF edge = NoEntry THEN NoEntry ELSE [edge EXCEPT !.until = t + 1]

\* The first bundle: a key signs for a release that was active before it, the second is
\* not there yet, and the third is announced where it is to take over.
First(plan, t) ==
  {[generation |-> 1, epoch |-> 0, issuedAt |-> t, expiresAt |-> t + Lifetime,
    signer |-> k1, release |-> r1,
    records |-> [i \in Ids |->
                  CASE i = k1 -> Record(pub1, "active", t)
                    [] i = r1 -> Record(def1, "active", 0)
                    [] i = k3 /\ "activate" \in plan.third -> Record(pub3, "preactive", t)
                    [] OTHER  -> NoEntry],
    tombstones |-> [i \in Ids |-> NoEntry],
    edges |-> [e \in Edges |->
                  IF e[1] = k1 THEN [channel |-> "production", from |-> t, until |-> End]
                  ELSE NoEntry],
    revokedKeys |-> listed] : listed \in SUBSET plan.listed}

PlanOf(b) == IF b.records[k3] = NoEntry THEN OneKeyReplaced ELSE TwoRotations

MovesOf(plan) ==
  {[i \in Ids |-> CASE i = k1 -> old [] i = k2 -> new [] i = k3 -> third [] OTHER -> "keep"] :
     old \in plan.old, new \in plan.new, third \in plan.third}
EdgeMovesOf(plan) ==
  {[e \in Edges |-> CASE e[1] = k1 -> old [] e[1] = k2 -> new [] e[1] = k3 -> third] :
     old \in plan.oldEdges, new \in plan.newEdges, third \in plan.thirdEdges}

MCDrafts(b, t) ==
  IF b = NoBundle THEN First(OneKeyReplaced, t) \cup First(TwoRotations, t)
  ELSE IF b.generation >= MaxGeneration THEN {}
  ELSE UNION {
    LET g == b.generation + gain
        e == b.epoch + bump
        moved == [i \in Ids |-> Moved(moves[i], b.records[i], b.tombstones[i], i, g, e, t)]
        records == [i \in Ids |-> moved[i][1]]
        tombstones == [i \in Ids |-> moved[i][2]]
        active == {k \in KeyIds : records[k] # NoEntry /\ records[k].lifecycle = "active"}
        revoked == {tombstones[k].binding : k \in {l \in KeyIds :
                      tombstones[l] # NoEntry /\ tombstones[l].reason = "revoked"}}
    IN {[generation |-> g, epoch |-> e, issuedAt |-> t, expiresAt |-> t + Lifetime,
         signer |-> signer, release |-> r1,
         records |-> records, tombstones |-> tombstones,
         edges |-> [x \in Edges |-> MovedEdge(edgeMoves[x], b.edges[x], t)],
         revokedKeys |-> listed] :
           signer \in active, edgeMoves \in EdgeMovesOf(PlanOf(b)),
           listed \in {b.revokedKeys, b.revokedKeys \cup revoked}}
    : gain \in 1..2, bump \in 0..1, moves \in MovesOf(PlanOf(b))}

-----------------------------------------------------------------------------
(* Evaluations and comparisons.                                            *)
Evaluation == INSTANCE Comparison WITH MaxTime <- LastSecond
ASSUME EvaluationAssumption ==
    Evaluation!EvaluationAssumption /\ Evaluation!ComparisonAssumption

Priced(price, gas, slippage) ==
    [price |-> price, gas |-> gas, slippage |-> slippage, exposure |-> 1, spend |-> 1]
Mandate(created, expires, permissions, skew, evidence, preview, spend) ==
    [createdAt |-> created, expiresAt |-> expires, permissions |-> permissions,
     skew |-> skew, evidenceAge |-> evidence, previewAge |-> preview,
     gas |-> 4, slippage |-> 3, exposure |-> 4, spend |-> spend]

\* One attestation under four mandates, the core's clock ahead and behind, its evidence
\* early and late.  Mandates that allow less drift than the core, or the same; that expire,
\* or whose permissions do, before a quote would.
Windows ==
    [mandates |-> {Mandate(2, 9, 9, 1, 3, 2, 2), Mandate(2, 7, 6, 2, 4, 4, 2),
                   Mandate(2, 9, 8, 0, 2, 3, 2), Mandate(2, 9, 9, 2, 6, 6, 2)},
     candidates |-> {7}, keys |-> {k1, k2}, drifts |-> {-2, 0, 1},
     lags |-> {-1, 0, 1}, leads |-> {1, 3, 6},
     offers |-> {Priced(0, 1, 1), Priced(3, 1, 1), Priced(0, 5, 0)}, until |-> 8, issued |-> 1]

\* Up to three attestations of three candidates in every order; two offers that cost as
\* much in another way, and a dearer one.
Order ==
    [mandates |-> {Mandate(2, 6, 6, 1, 3, 3, 2)},
     candidates |-> {7, 8, 11}, keys |-> {k1}, drifts |-> {1}, lags |-> {0}, leads |-> {3},
     offers |-> {Priced(0, 1, 1), Priced(0, 3, 1), Priced(0, 2, 2)}, until |-> 4, issued |-> 3]

\* Comparisons of an offer, and one that is beyond its budget; the quote ids run against
\* the candidates.
Compared ==
    [mandates |-> {Mandate(2, 7, 7, 1, 3, 3, 10000)},
     candidates |-> {7, 8}, keys |-> {k1, k2}, drifts |-> {0}, lags |-> {0}, leads |-> {1, 3},
     offers |-> {Priced(0, 1, 1), Priced(0, 5, 1)}, until |-> 4, issued |-> 2]

MCSettings == [windows |-> Windows, order |-> Order, comparison |-> Compared]
AllCandidates == {7, 8, 11}
AllMandates == UNION {MCSettings[s].mandates : s \in DOMAIN MCSettings}
AllOffers == UNION {MCSettings[s].offers : s \in DOMAIN MCSettings}
AllDrifts == -2..1
AllLags == -1..1
AllLeads == {1, 3, 6}
RanksOfQuotes == 7 :> 3 @@ 8 :> 2 @@ 11 :> 1

\* Comparisons in one scene, evaluations in the others.
OfEvaluation == scene \in DOMAIN Settings
Evaluates == OfEvaluation /\ scene # "comparison"
ASSUME SettingsAssumption ==
    /\ DOMAIN Settings \cap {"bundle", "candidate", "run"} = {}
    /\ \A s \in DOMAIN Settings :
           /\ Settings[s].mandates \subseteq Mandates /\ Settings[s].drifts \subseteq Drifts
           /\ Settings[s].candidates \subseteq Candidates /\ Settings[s].keys \subseteq Keys
           /\ Settings[s].lags \subseteq Lags /\ Settings[s].leads \subseteq Leads
           /\ Settings[s].offers \subseteq Offers

\* What may be attested in the scene, until there is enough.
Payloads ==
    LET s == Settings[scene]
    IN  IF Cardinality(issued) < s.issued
        THEN Evaluation!PayloadsOf(s.candidates, s.lags, s.leads, s.offers) ELSE {}

-----------------------------------------------------------------------------
(* The supply.  Whose the candidates are changes from block to block.      *)
Owned(owner) == [registry |-> TRUE, owner |-> owner, kind |-> "eoa"]
Owners == {Owned(alice), Owned(None)}
TwoCandidates == <<c1, c2>>

Supply == INSTANCE SupplyVerification WITH MaxTime <- Depth, now <- today
ASSUME SupplyAssumption ==
    Supply!ManifestAssumption /\ Supply!ChainAssumption /\ Supply!SceneAssumption
ASSUME NoneAssumption ==
    None \notin {"complete", "asking", "rate_limited", "ok", "not_indexed", "inconclusive",
                 "CANDIDATE_LIMIT_EXCEEDED", "EVALUATED_AT_BEFORE_MANDATE",
                 "ATTESTATION_REJECTED", "DUPLICATE_CANDIDATE"}

\* In one scene the first candidate alone, on a chain that grows and changes branch twice;
\* in the other the whole manifest, at one block that names an owner; an outage in both.
Supplying == scene \in {"candidate", "run"}
InScene ==
    /\ scene = "candidate" => \A c \in Captures \ {Manifest[1]} : scan[c] = None
    /\ scene = "run" =>
        /\ height = Depth /\ forks = 0
        /\ \A block \in DOMAIN world : world[block].owner # None

-----------------------------------------------------------------------------
(* One scene runs, the others rest.                                        *)
RestEvaluation ==
    time = None /\ drift = None /\ mandate = None /\ issued = None /\ results = None
RestComparison == call = None /\ answer = None
RestSupply ==
    /\ branch = None /\ height = None /\ forks = None /\ world = None /\ today = None
    /\ capture = None /\ online = None /\ outages = None /\ scan = None /\ card = None
    /\ stopped = None /\ reports = None /\ runStatus = None

MCInit ==
    /\ Init /\ scene \in Selected
    /\ \/ scene = "bundle" /\ RestEvaluation /\ RestComparison /\ RestSupply
       \/ /\ OfEvaluation /\ Evaluation!ComparisonInit /\ RestSupply
          /\ mandate \in Settings[scene].mandates /\ drift \in Settings[scene].drifts
       \/ Supplying /\ RestEvaluation /\ RestComparison /\ Supply!RunInit /\ InScene

MCNext ==
    /\ UNCHANGED scene
    /\ \/ scene = "bundle" /\ Next /\ UNCHANGED <<evaluating, comparing, supplying>>
       \/ /\ UNCHANGED <<vars, supplying>>
          /\ OfEvaluation
          /\ \/ /\ Evaluates /\ UNCHANGED comparing
                /\ \/ Evaluation!Tick
                   \/ Evaluation!Issues(Payloads, Settings[scene].keys)
                   \/ scene = "windows" /\ \E wires \in Evaluation!Wires : Evaluation!Evaluate(wires)
             \/ /\ scene = "comparison"
                /\ \/ Evaluation!Elsewhere(Payloads, Settings[scene].keys)
                   \/ Evaluation!Ask \/ Evaluation!Classify \/ Evaluation!Rank
          /\ time' <= Settings[scene].until
       \/ /\ UNCHANGED <<vars, evaluating, comparing>>
          /\ Supplying /\ Supply!RunNext /\ InScene'

MCSpec == MCInit /\ [][MCNext]_everything

-----------------------------------------------------------------------------
(* The properties of each, in the scenes it runs in.                       *)

\* What the state of each part may be, whichever runs.
ScenesTypeOK ==
    /\ OfEvaluation => Evaluation!TypeOK
    /\ Supplying => Supply!RunTypeOK

\* What is ranked is of evidence no older than the mandate allows and of a quote not
\* expired, but for the drift of the core's clock (issueSignedPayload).
RankedAreLive == Evaluates => Evaluation!RankedAreLive

\* An honest quote within its budgets, its evidence young and its attestation living on by
\* the drift of the clocks, is eligible.
HonestIsEligible == Evaluates => Evaluation!HonestIsEligible

\* A receipt that excluded a candidate is never contradicted by a later one about the same
\* attestation, and an eligible one never becomes inconclusive.
VerdictsOnlyAge == Evaluates => Evaluation!VerdictsOnlyAge

\* The score of one attestation never grows (ageScore, scoreEligibleQuote).
ScoresOnlyFall == Evaluates => Evaluation!ScoresOnlyFall

\* Whoever gathers the same attestations, in whatever order, gets the same decisions and
\* the same ranking (marketplace-core/README.md).
OrderDoesNotMatter == Evaluates => Evaluation!OrderDoesNotMatter

\* Every attestation that was submitted is in the answer once, among the candidates or
\* among the rejected with its code (core.ts, buildComparisonView).
EveryAttestationIsAccounted == OfEvaluation => Evaluation!EveryAttestationIsAccounted

\* Whatever is shown as a candidate verifies at the one second the view is dated to,
\* however long the two passes took.
ShownIsVerified == OfEvaluation => Evaluation!ShownIsVerified

\* Within one second, a set of different candidates gets its comparison whatever is wrong
\* with some of them.
OneBadSparesTheRest == OfEvaluation => Evaluation!OneBadSparesTheRest

\* The comparison set can be posted as it is: no two of it are one candidate (routes.ts).
ComparisonSetIsLegal == OfEvaluation => Evaluation!ComparisonSetIsLegal

\* No verdict is given while the scan or the chain is silent, and none without a reason that
\* was seen: a missing token, or an endpoint that gave another card or nothing, even where
\* this host's connection was to blame (classifyCandidate, transportFailure).
VerdictsAreGrounded == Supplying => Supply!VerdictsAreGrounded

\* The owner a report names is the owner at the block it names, although the chain may
\* have changed its branch between any two reads (verify.ts, chainObservation).
OwnersAreOfTheirBlocks == Supplying => Supply!OwnersAreOfTheirBlocks

\* A run is complete only if the scan and the chain answered for every candidate of the
\* manifest, and its endpoint did too or the candidate is unavailable (buildReport).
CompleteIsComplete == Supplying => Supply!CompleteIsComplete

\* Judgements of attestations are of what is live, never turn for the better, do not depend
\* on the order they came in, and cost no candidate its answer for the sake of another.
EvaluationsAreFair ==
    /\ ScenesTypeOK
    /\ RankedAreLive
    /\ HonestIsEligible
    /\ VerdictsOnlyAge
    /\ ScoresOnlyFall
    /\ OrderDoesNotMatter
    /\ EveryAttestationIsAccounted
    /\ ShownIsVerified
    /\ OneBadSparesTheRest
    /\ ComparisonSetIsLegal

\* A report on the supply says no more than its sources did: no verdict without the scan and
\* the chain, an owner that of the block it is given for, and a run cut short not called
\* complete; and once the scan has limited the rate, nobody is asked anything any more.  The
\* endpoint's silence does count as an answer against the candidate.
SupplyIsHonest ==
    /\ [](VerdictsAreGrounded /\ OwnersAreOfTheirBlocks /\ CompleteIsComplete)
    /\ [][Supplying => Supply!AsksNobodyOnceLimited]_everything
=============================================================================
