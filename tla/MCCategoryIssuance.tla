------------------------- MODULE MCCategoryIssuance -------------------------
(***************************************************************************)
(* Small instances of what makes a category attestation: the issuance with *)
(* its trust controller, the identity of a candidate and the quote asked of*)
(* it, and the two verdicts the Core then gives, on a report and on a      *)
(* condition.  They share no state here: scene names the one that runs,    *)
(* and the variables of the others rest.                                   *)
(***************************************************************************)
EXTENDS CategoryIssuance, Integers, FiniteSets, TLC

CONSTANTS old, new, k1, k2, w1, w2, probe, x, y,
          r1, r2, c1, c2, act, m1, m2, d1, d2, pool, vault, alice, bob, b1, b2, q1, q2,
          Captures, Branches, ForkAt, Depth, Ahead, MaxHeight, MaxForks, MaxTime, Scenes,
          Signers, Ttl, IdentityAge, Request,   \* of identities and quotes
          Wanted, EvidenceAnchors, OwnerOf, Terms, Assurances, Previews, Profiles, Trust,
          Minimum, MinRemaining, EvidenceAge,   \* of reports
          Conditioned, Releases, PinnedRelease, Adapters, Lags, CoreSkew, MaxSteps,  \* of conditions
          Drifts, MaxTtl, MaxClock, MaxIssued   \* of both

VARIABLES
    scene,
    time, drift, issued,                             \* report and condition
    unsigned, verified, report,                      \* report
    steps, release, run, receipt,                    \* condition
    branch, height, forks, world, now, capture,      \* identity and quote
    quote                                            \* quote

clock == <<time, drift, issued>>
reporting == <<unsigned, verified, report>>
condition == <<steps, release, run, receipt>>
chain == <<branch, height, forks, world, now, capture>>

-----------------------------------------------------------------------------
(* Issuance: two workflows with one bundle, and a process that rolls out   *)
(* its successor, which revokes the key they sign with.                    *)
MCBundles == {old, new}
MCKeys == {k1, k2}
MCCalls == {w1, w2, probe}
MCWorkflows == {w1, w2}
MCBlocks == {x, y}
MCGeneration == old :> 1 @@ new :> 2
MCRevocationEpoch == old :> 0 @@ new :> 1
MCRevoked == old :> {} @@ new :> {k1}
MCActiveSigner == old :> k1 @@ new :> k2
MCWire == [c \in MCCalls |-> IF c = probe THEN new ELSE old]
MCSigner == [c \in MCCalls |-> k1]
MCSymmetry == Permutations(MCWorkflows)

-----------------------------------------------------------------------------
(* Reports.  A single attestation, every window, the clocks of issuer and  *)
(* Core apart; and two attestations of two requests in two blocks of one   *)
(* height, with what came along mixed.                                     *)
NoCaps == [p \in {} |-> 0]
Mandate(mode, caps, expiresAt, permissions, maxAge) ==
    [createdAt |-> 0, expiresAt |-> expiresAt, permissions |-> permissions, skew |-> 1,
     maxAge |-> maxAge, mode |-> mode, caps |-> caps, spend |-> 0]
Requested(name, candidate, scope, mandate, asked, expiresAt, permissions) ==
    [name |-> name, candidate |-> candidate, scope |-> scope, mode |-> mandate.mode,
     mandate |-> mandate, issuedAt |-> 0, expiresAt |-> expiresAt,
     permissions |-> permissions, asked |-> asked, spend |-> 0]
Observed == Mandate("observe_only", NoCaps, 9, 8, 4)
Hurried == Mandate("observe_only", NoCaps, 9, 8, 2)
Acted == Mandate("transactional", act :> 2, 9, 8, 4)
MCWanted == {Requested(r1, c1, "pool", Observed, NoCaps, 9, 8),
             Requested(r1, c1, "vault", Hurried, NoCaps, 7, 6),
             Requested(r1, c1, "pool", Acted, act :> 1, 9, 8),
             Requested(r2, c2, "pool", Observed, NoCaps, 9, 8)}
Anchor(block, at) == [block |-> block, at |-> at]
MCAnchors == {Anchor("b1", 1), Anchor("b2", 1), Anchor("b2", 2)}
MCOwner == c1 :> "o1" @@ c2 :> "o2"
MCTerms == {[ahead |-> 0, ttl |-> 4], [ahead |-> 1, ttl |-> 6], [ahead |-> -1, ttl |-> 6]}
MCProfiles == {None, act :> 2, act :> 0}
MCTrust == [from |-> 0, until |-> 5, expires |-> 5]
MCDrifts == {-1, 0, 1}

Reports == INSTANCE CategoryReport WITH
    Requests <- Wanted, Anchors <- EvidenceAnchors, Owner <- OwnerOf,
    IdentityAge <- EvidenceAge, MaxTime <- MaxClock
ASSUME WantedAssumption == Reports!ReportAssumption

-----------------------------------------------------------------------------
(* Conditions.  One release, two mandates, the issuer's clock apart and set*)
(* once on the way; and two releases, four requests of one name (two       *)
(* policies, two subjects, a vault that the second deployment alone        *)
(* serves), two attestations, clocks that agree.                           *)
Granted(id, createdAt, expiresAt, maxAge) ==
    [id |-> id, createdAt |-> createdAt, expiresAt |-> expiresAt, skew |-> 1,
     maxAge |-> maxAge]
Asked(mandate, adapter, subject, policy) ==
    [id |-> r1, mandate |-> mandate, candidate |-> "c1", adapter |-> adapter,
     subject |-> subject, policy |-> policy]
Early == Granted(m1, 0, 6, 2)
Late == Granted(m2, 1, 8, 3)
MCConditions == {Asked(Early, pool, "s1", "wide"), Asked(Late, pool, "s1", "wide"),
                 Asked(Late, pool, "s1", "narrow"), Asked(Late, pool, "s2", "wide"),
                 Asked(Late, vault, "s3", "floor")}
First == [key |-> "k1", policy |-> "p1", deployment |-> d1]
Second == [key |-> "k1", policy |-> "p2", deployment |-> d2]
MCReleases == {First, Second}
MCAdapters == d1 :> (pool :> [subject |-> "s1", policy |-> "wide"])
           @@ d2 :> (pool :> None @@ vault :> None)
MCLags == {-1, 0, 1, 2}

Conditions == INSTANCE CategoryCondition WITH
    Requests <- Conditioned, Pinned <- PinnedRelease, MaxTime <- MaxClock
ASSUME ConditionedAssumption == Conditions!ConditionAssumption

-----------------------------------------------------------------------------
(* Identities and quotes.  One capture against a chain of three heights    *)
(* above the fork and two changes of branch; one workflow whose clock runs *)
(* to the end of its request; and two workflows for two requests, each of  *)
(* whose answers may reach the other, on a chain that does not fork.       *)
Registered(owner, kind) == [registry |-> TRUE, owner |-> owner, kind |-> kind]
MCOwned == {Registered(alice, "eoa"), Registered(bob, "erc1271")}
MCRegistered == {Registered(alice, "erc1271"), Registered(None, "eoa"),
                 [registry |-> FALSE, owner |-> None, kind |-> "eoa"]}
MCScenes == MCOwned \cup MCRegistered
MCRequest ==
    c1 :> [id |-> q1, expiresAt |-> 4, permissionsExpiresAt |-> 3, skew |-> 1]
 @@ c2 :> [id |-> q2, expiresAt |-> 3, permissionsExpiresAt |-> 5, skew |-> 0]

Quotes == INSTANCE CategoryQuote
ASSUME CandidateAssumption ==
    Quotes!ChainAssumption /\ Quotes!SceneAssumption /\ Quotes!QuoteAssumption

OnlyOne == \A c \in Captures \ {c1} : capture[c] = Quotes!Idle
Says(scenes) == \A block \in Quotes!DeepBlocks : world[block] \in scenes

Signed == issued \cup ({unsigned} \ {None})

\* Each scene goes through its own part of what reports, conditions, captures and quotes
\* may do.
InScene ==
    /\ scene = "report" =>
        /\ issued # {} => unsigned = None /\ Cardinality(issued) = 1
        /\ \A e \in Signed :
            /\ e.projection.request.name = r1
            /\ e.projection.observation.anchor # Anchor("b2", 1)
    /\ scene = "mixed" =>
        /\ drift = 0 /\ time <= 5
        /\ \A e \in Signed :
            LET p == e.projection
            IN  /\ p.request.scope = "pool" /\ p.request.mode = "observe_only"
                /\ p.observation.anchor.at = 1 /\ p.observation.targets.assurance = "instance"
                /\ p.acceptance.negotiatedAt = e.issuedAt
    /\ scene = "condition" =>
        /\ release = First
        /\ issued # {} => run = None
        /\ run # None =>
            /\ run.request.adapter = pool /\ run.request.subject = "s1"
            /\ run.request.policy = "wide"
    /\ scene = "bound" =>
        /\ drift = 0 /\ steps = 0 /\ time <= 5
        /\ run # None => run.request.mandate = Late
        /\ run # None /\ run.artifact # None =>
            run.artifact.evaluatedAt - run.artifact.observedAt \in {0, 2}
    /\ scene = "identity" =>
        /\ OnlyOne /\ Says(MCRegistered) /\ now <= 2
        /\ \A b \in Branches : world[<<2, b>>] = world[<<1, b>>]
    /\ scene = "quote" => OnlyOne /\ Says(MCOwned) /\ forks <= 1 /\ quote[c2] = Quotes!Unasked
    /\ scene = "replay" =>
        /\ branch = b1 /\ forks = 0 /\ height <= 2 /\ now <= 1 /\ Says(MCOwned)
        /\ \A block \in Quotes!DeepBlocks :
            world[block] = world[<<IF block[1] = 0 THEN 0 ELSE 1, b1>>]
        /\ \A c \in Captures :
            quote[c].envelope # None => quote[c].envelope.quoteExpiresAt <= 2

-----------------------------------------------------------------------------
(* One scene runs, the others rest.                                        *)
RestClock == time = None /\ drift = None /\ issued = None
RestReport == unsigned = None /\ verified = None /\ report = None
RestCondition == steps = None /\ release = None /\ run = None /\ receipt = None
RestChain == /\ branch = None /\ height = None /\ forks = None
             /\ world = None /\ now = None /\ capture = None

Judging ==
    /\ RestChain /\ quote = None
    /\ \/ scene \in {"report", "mixed"} /\ Reports!Init /\ RestCondition
       \/ scene \in {"condition", "bound"} /\ Conditions!Init /\ RestReport
Reading ==
    /\ RestClock /\ RestReport /\ RestCondition
    /\ \/ scene = "identity" /\ Quotes!IdentityInit /\ quote = None
       \/ scene \in {"quote", "replay"} /\ Quotes!Init

MCInit ==
    /\ Init
    /\ \/ scene = "issuance" /\ RestClock /\ RestReport /\ RestCondition /\ RestChain /\ quote = None
       \/ canonical = x /\ (Judging \/ Reading)
    /\ InScene

MCNext ==
    /\ UNCHANGED scene
    /\ \/ /\ scene = "issuance" /\ Next
          /\ UNCHANGED <<clock, reporting, condition, chain, quote>>
       \/ /\ UNCHANGED <<vars, condition, chain, quote>>
          /\ \/ scene = "mixed" /\ Reports!Next
             \/ scene = "report" /\ ((issued = {} /\ Reports!Signs) \/ Reports!Serves)
       \/ /\ UNCHANGED <<vars, reporting, chain, quote>>
          /\ scene \in {"condition", "bound"} /\ Conditions!Next
       \/ /\ UNCHANGED <<vars, clock, reporting, condition>>
          /\ \/ scene = "identity" /\ Quotes!Next /\ UNCHANGED quote
             \/ scene \in {"quote", "replay"} /\ Quotes!QuoteNext
    /\ InScene'

MCSpec == MCInit /\ [][MCNext]_<<vars, scene, clock, reporting, condition, chain, quote>>

-----------------------------------------------------------------------------
(* The properties of each, in the scenes it runs in.                       *)

\* The scenes of reports and of conditions.
Reporting == scene \in {"report", "mixed"}
Conditioning == scene \in {"condition", "bound"}

\* The scenes in which identities are captured, and those in which quotes are asked for.
Quoting == scene \in {"quote", "replay"}
Capturing == Quoting \/ scene = "identity"

\* What the state of captures, and that of quotes, may be.
CandidatesTypeOK == (Capturing => Quotes!TypeOK) /\ (Quoting => Quotes!QuoteTypeOK)

\* What the state of reports and of conditions may be.
VerdictsTypeOK ==
    /\ Reporting => Reports!TypeOK
    /\ Conditioning => Conditions!TypeOK

\* A candidate is reported hireable only while everything the report rests on has its
\* least lifetime left (category-successor.ts).
HireableIsLive == Reporting => Reports!HireableIsLive

\* A report is of one request, one candidate and one block, whatever was brought along
\* (category-production.ts).
ReportIsOfOneBlock == Reporting => Reports!ReportIsOfOneBlock

\* What the orchestrator issued is accepted by a Core whose clock is behind by no more
\* than the skew, until the report's own boundary.
IssuedIsReported == Reporting => Reports!IssuedIsAccepted

\* The boundary the Core computes and the one the form shows agree on whatever was verified.
BoundariesAgree == Reporting => Reports!BoundariesAgree

\* In the last second of a receipt the mandate and the attestation still run, and the
\* evidence is no older than the mandate allows (category-attestation.ts).
ReceiptIsLive == Conditioning => Conditions!ReceiptIsLive

\* The boundary of a receipt is the first second of its refusal.
RefusedFromBoundaryOn == Conditioning => Conditions!RefusedFromBoundaryOn

\* What the pinned release issued is accepted, with its own request, by a Core in whose
\* skew the issuer's clock is, whatever the steps of that clock in the meantime.
IssuedIsReceived == Conditioning => Conditions!IssuedIsAccepted

\* A receipt is of a pass for the subject, the policy, the mandate and the candidate of
\* the request it was asked for.
ReceiptIsOfItsRequest == Conditioning => Conditions!ReceiptIsOfItsRequest

\* Where the pinned deployment configures an adapter, a receipt of that adapter is of the
\* configured subject and policy, whatever release is running and was asked.
ReceiptIsOfConfiguration == Conditioning => Conditions!ReceiptIsOfConfiguration

\* The owner of a candidate and the kind of its account are those of one block, whatever
\* the chain does between the reads (identity.ts, readSnapshot, observeProviderCode).
AnswersAreOfOneBlock == Capturing => Quotes!AnswersAreOfOneBlock

\* The age of an identity read at a snapshot is the age of the block it was read from.
AgeIsOfTheBlock == Capturing => Quotes!AgeIsOfTheBlock

\* A verified quote was signed by the owner of the candidate at the identity's block, for
\* this very request and this very identity (verifyAccepted).
SignedForThisRequest == Quoting => Quotes!SignedForThisRequest

\* A verified quote lapses with its request and its permissions, and soon after the block
\* that names its owner.
LapsesInTime == Quoting => Quotes!LapsesInTime

\* An honest candidate that answers at once can be accepted, unless the snapshot was pinned
\* later than the skew allows after the window opened.
HonestAnswerFits == Quoting => Quotes!HonestAnswerFits

\* Identities are read of one block, and quotes bound to this request, this identity and
\* windows that neither outlive what they rest on nor shut an honest candidate out.
QuotesAreSound ==
    /\ CandidatesTypeOK
    /\ AnswersAreOfOneBlock
    /\ AgeIsOfTheBlock
    /\ SignedForThisRequest
    /\ LapsesInTime
    /\ HonestAnswerFits

\* Reports and receipts hold exactly as long as all they rest on, for what they were asked
\* about and nothing else, and what was issued honestly is accepted.
VerdictsAreLive ==
    /\ VerdictsTypeOK
    /\ HireableIsLive
    /\ ReportIsOfOneBlock
    /\ IssuedIsReported
    /\ BoundariesAgree
    /\ ReceiptIsLive
    /\ RefusedFromBoundaryOn
    /\ IssuedIsReceived
    /\ ReceiptIsOfItsRequest
    /\ ReceiptIsOfConfiguration

\* What is handed out is good when it is: an identity of a block that is canonical and deep
\* enough at its last read, a quote that has not lapsed while provider and node were waited
\* for (verifyAccepted), and a report asked for again with the same boundary, never hireable
\* once it was not.
HandedOutLive ==
    [][/\ Capturing => Quotes!HandsOutCanonical
       /\ Quoting => Quotes!HandsOutInTime
       /\ Reporting => Reports!Ages]_<<scene, chain, quote, report>>
=============================================================================
