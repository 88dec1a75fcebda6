--------------------------- MODULE CategoryReport ---------------------------
(***************************************************************************)
(* The successor attestation of a category quote: what the orchestrator    *)
(* signs (marketplace-service/src/category-successor-orchestrator.ts), and *)
(* what the Core makes of it, again and again until it lapses              *)
(* (marketplace-core/src/category-successor.ts, category-linkage.ts,       *)
(* category-production.ts).                                                *)
(*                                                                         *)
(* The issuer and the Core have clocks of their own.  Whoever asks the     *)
(* Core for a report brings the mandate, the request, the identity, the    *)
(* targets and the reads along with the attestation, and may bring those   *)
(* of another request or another block.  A digest is what was digested.    *)
(***************************************************************************)
EXTENDS Integers, FiniteSets, FiniteSetsExt

CONSTANTS
    Requests,      \* [name, candidate, scope, mode, mandate, issuedAt, expiresAt,
                   \*  permissions, asked, spend]
    Anchors,       \* [block, at]
    Owner,         \* of a candidate, as the registry has it
    Terms,         \* how an agent dates its acceptance: [ahead, ttl]
    Assurances,    \* of "instance", "interface"
    Previews,      \* what the simulation of a transaction gave: "passed", "failed", ...
    Profiles,      \* action profiles: caps of actions, or None
    Trust,         \* [from, until, expires]: the tuple's windows and the bundle's expiry
    Minimum,       \* the assurance the release asks of what only observes
    Drifts,        \* of the issuer's clock from the Core's
    MaxTtl, IdentityAge, MinRemaining,
    MaxTime, MaxIssued,          \* bounds
    None

ReportAssumption ==
    /\ {Trust.from, Trust.until, Trust.expires} \subseteq Int
    /\ Trust.until >= Trust.expires      \* assertActiveTuple of the bundle
    /\ {MaxTtl, IdentityAge, MinRemaining, MaxTime, MaxIssued} \subseteq Nat
    /\ MinRemaining \in 1..MaxTtl        \* 30 and 300 seconds
    /\ Drifts \subseteq Int
    /\ Minimum \in {"instance", "interface"} /\ Assurances \subseteq {"instance", "interface"}
    /\ \A anchor \in Anchors : anchor.at \in Int
    /\ \A terms \in Terms : terms.ahead \in Int /\ terms.ttl \in Int
    /\ \A r \in Requests :
        /\ r.mode \in {"observe_only", "transactional"}
        /\ {r.issuedAt, r.expiresAt, r.permissions} \subseteq Int
        /\ {r.mandate.createdAt, r.mandate.expiresAt, r.mandate.permissions,
            r.mandate.skew, r.mandate.maxAge} \subseteq Int

VARIABLES
    time,        \* the clock of the Core
    drift,       \* how far the issuer's clock is ahead of it
    unsigned,    \* an attestation its issuer is signing
    issued,      \* the attestations there are
    verified,    \* what the Core last verified, with what came along
    report       \* the report it last made

vars == <<time, drift, unsigned, issued, verified, report>>

Least(S) == Min(S)
IssuerClock == time + drift

-----------------------------------------------------------------------------
(* Mandate and request.                                                    *)

\* Every action asked for is granted, at no more than is granted (caps are by action).
Within(asked, caps) ==
    /\ DOMAIN asked \subseteq DOMAIN caps
    /\ \A id \in DOMAIN asked : asked[id] <= caps[id]

\* Observing takes no permission, anything else takes one.
ModeFits(mode, caps, spend) ==
    IF mode = "observe_only" THEN DOMAIN caps = {} /\ spend = 0 ELSE DOMAIN caps # {}

MandateHolds(m) ==
    /\ m.createdAt < m.expiresAt
    /\ m.permissions > m.createdAt /\ m.permissions <= m.expiresAt
    /\ ModeFits(m.mode, m.caps, m.spend)

RequestHolds(r) ==
    /\ r.issuedAt < r.expiresAt
    /\ r.permissions > r.issuedAt /\ r.permissions <= r.expiresAt
    /\ ModeFits(r.mode, r.asked, r.spend)

\* validateCategoryQuoteRequestBinding.
RequestBinds(r) ==
    LET m == r.mandate
    IN  /\ MandateHolds(m) /\ RequestHolds(r)
        /\ r.mode = m.mode /\ Within(r.asked, m.caps) /\ r.spend <= m.spend
        /\ r.permissions <= m.permissions
        /\ r.issuedAt >= m.createdAt /\ r.expiresAt <= m.expiresAt

-----------------------------------------------------------------------------
(* Evidence.                                                               *)

Identity(candidate, anchor) ==
    [candidate |-> candidate, owner |-> Owner[candidate], anchor |-> anchor]

Targets(scope, assurance, anchor) ==
    [scope |-> scope, assurance |-> assurance, anchor |-> anchor]

\* The reads of one block: what was asked follows from the scope, the answers from both.
Reads(scope, anchor) == [scope |-> scope, anchor |-> anchor]

\* validateAdapterReadProfile: the exact reads of the scope, wherever they were made.
ReadsFit(scope, reads) == reads.scope = scope

\* What came along must be of the request's candidate and scope.
EvidenceFits(r, identity, targets, reads) ==
    /\ identity.candidate = r.candidate
    /\ targets.scope = r.scope
    \* an ERC-4626 vault is never known to be more than its interface
    /\ ~(r.scope = "vault" /\ targets.assurance = "instance")
    /\ ReadsFit(r.scope, reads)

\* validateCategoryLinkageProjection, with the schema of the projection: one request, one
\* owner, one block, and every window open.
LinkageHolds(p, r, identity, targets, reads, now) ==
    LET m == r.mandate
        acceptance == p.acceptance
        anchor == p.observation.anchor
    IN  /\ p.request = r /\ p.identity = identity
        /\ p.observation.targets = targets /\ p.observation.reads = reads
        /\ acceptance.request = r /\ acceptance.owner = identity.owner
        /\ identity.anchor = anchor /\ targets.anchor = anchor
        /\ acceptance.expiresAt > acceptance.negotiatedAt
        /\ acceptance.negotiatedAt >= r.issuedAt - m.skew
        /\ acceptance.negotiatedAt <= now + m.skew
        /\ acceptance.expiresAt <= r.expiresAt
        /\ anchor.at >= m.createdAt /\ anchor.at <= now + m.skew
        /\ now < Least({m.expiresAt, r.expiresAt, r.permissions, acceptance.expiresAt,
                        anchor.at + IdentityAge + 1, anchor.at + m.maxAge + 1})

-----------------------------------------------------------------------------
(* Actions.                                                                *)

\* The approval every profile has: a draft's.
Approval(profile) == "draft_unapproved"

\* validateActionCoverage and deriveActionState.
ActionState(r, profile) ==
    IF r.mode = "observe_only" THEN [coverage |-> "not_applicable", covered |-> TRUE]
    ELSE IF profile = None THEN [coverage |-> "incomplete", covered |-> FALSE]
    ELSE LET covered == /\ Within(r.asked, r.mandate.caps) /\ Within(r.asked, profile)
                        /\ r.spend <= r.mandate.spend
         IN  [covered |-> covered,
              coverage |-> IF covered /\ Approval(profile) # "draft_unapproved"
                           THEN "complete" ELSE "incomplete"]

-----------------------------------------------------------------------------
(* Issuance.                                                               *)

\* Mutant: how long key, release and edge last is left out.
Mutant_UntilEvidenceLapses(issuedAt, r, acceptance, anchor) ==
    Least({issuedAt + MaxTtl, r.mandate.expiresAt, r.expiresAt, r.permissions,
           acceptance.expiresAt, anchor.at + IdentityAge + 1,
           anchor.at + r.mandate.maxAge + 1})

\* deriveAttestationExpiry: the least of ten bounds.
Expiry(issuedAt, r, acceptance, anchor) ==
    Least({issuedAt + MaxTtl, r.mandate.expiresAt, r.expiresAt, r.permissions,
           acceptance.expiresAt, anchor.at + IdentityAge + 1,
           anchor.at + r.mandate.maxAge + 1, Trust.until})

\* resolveMarketplaceTrustBundleAttestationTuple, for an active key and release.
Resolves(issuedAt) ==
    /\ issuedAt >= Trust.from /\ issuedAt < Trust.until /\ issuedAt < Trust.expires

\* What the agent accepted, dated by its own clock.
Acceptance(r, terms) ==
    [request |-> r, owner |-> Owner[r.candidate],
     negotiatedAt |-> time + terms.ahead, expiresAt |-> time + terms.ahead + terms.ttl]

Projection(r, anchor, acceptance, assurance, preview, profile) ==
    [request |-> r, acceptance |-> acceptance, identity |-> Identity(r.candidate, anchor),
     observation |-> [anchor |-> anchor, targets |-> Targets(r.scope, assurance, anchor),
                      reads |-> Reads(r.scope, anchor)],
     preview |-> preview, profile |-> profile]

\* The Core's judgement of a projection that nobody mixed up.
OwnHolds(p, now) ==
    /\ RequestBinds(p.request)
    /\ EvidenceFits(p.request, p.identity, p.observation.targets, p.observation.reads)
    /\ LinkageHolds(p, p.request, p.identity, p.observation.targets, p.observation.reads, now)

\* The orchestrator, which issues for observation alone, has everything and signs.
Sign ==
    /\ unsigned = None /\ Cardinality(issued) < MaxIssued
    /\ \E r \in Requests, anchor \in Anchors, terms \in Terms, assurance \in Assurances :
        LET acceptance == Acceptance(r, terms)
            p == Projection(r, anchor, acceptance, assurance, "not_applicable", None)
            expiresAt == Expiry(IssuerClock, r, acceptance, anchor)
        IN  /\ r.mode = "observe_only"
            /\ Resolves(IssuerClock) /\ OwnHolds(p, IssuerClock)
            /\ expiresAt - IssuerClock >= MinRemaining
            /\ unsigned' = [projection |-> p, issuedAt |-> IssuerClock,
                            expiresAt |-> expiresAt]
    /\ UNCHANGED <<time, drift, issued, verified, report>>

\* An issuer of transactions, which is not written yet, may sign any such projection.
SignTransaction ==
    /\ unsigned = None /\ Cardinality(issued) < MaxIssued
    /\ \E r \in Requests, anchor \in Anchors, terms \in Terms, assurance \in Assurances,
          preview \in Previews, profile \in Profiles :
        /\ r.mode = "transactional" /\ RequestBinds(r)
        /\ unsigned' = [projection |-> Projection(r, anchor, Acceptance(r, terms), assurance,
                                                  preview, profile),
                        issuedAt |-> IssuerClock, expiresAt |-> IssuerClock + MaxTtl]
    /\ UNCHANGED <<time, drift, issued, verified, report>>

-----------------------------------------------------------------------------
(* Verification.                                                           *)

\* Mutant: no attestation is of a time that has not come.
Mutant_NoSkew(e, now) ==
    LET r == e.projection.request
        anchor == e.projection.observation.anchor
    IN  /\ e.issuedAt >= r.issuedAt - r.mandate.skew /\ e.issuedAt <= now
        /\ e.expiresAt > e.issuedAt /\ e.expiresAt <= e.issuedAt + MaxTtl
        /\ e.expiresAt <= r.mandate.expiresAt /\ e.expiresAt <= r.expiresAt
        /\ e.expiresAt > now /\ anchor.at <= e.issuedAt

\* assertEnvelopeBindings.
EnvelopeHolds(e, now) ==
    LET r == e.projection.request
        anchor == e.projection.observation.anchor
    IN  /\ e.issuedAt >= r.issuedAt - r.mandate.skew
        /\ e.issuedAt <= now + r.mandate.skew
        /\ e.expiresAt > e.issuedAt /\ e.expiresAt <= e.issuedAt + MaxTtl
        /\ e.expiresAt <= r.mandate.expiresAt /\ e.expiresAt <= r.expiresAt
        /\ e.expiresAt > now
        /\ anchor.at <= e.issuedAt

\* validateSuccessorSidecars: the signed sidecars are what came along.
SidecarsHold(p, identity, targets, reads) ==
    /\ p.identity = identity
    /\ p.observation.targets = targets /\ p.observation.reads = reads

\* Mutant: only the attestation is verified, not that what came along is what it is of.
Mutant_TakesWhatCame(e, r, identity, targets, reads, now) ==
    /\ now < Trust.expires
    /\ RequestBinds(r) /\ EvidenceFits(r, identity, targets, reads)
    /\ Resolves(e.issuedAt) /\ EnvelopeHolds(e, now)

\* verifyMarketplaceCategoryQuoteAttestation.
Accepts(e, r, identity, targets, reads, now) ==
    /\ now < Trust.expires
    /\ RequestBinds(r) /\ EvidenceFits(r, identity, targets, reads)
    /\ Resolves(e.issuedAt)
    /\ e.projection.request = r /\ EnvelopeHolds(e, now)
    /\ LinkageHolds(e.projection, r, identity, targets, reads, now)
    /\ SidecarsHold(e.projection, identity, targets, reads)

\* The issuer verifies what came back from the signer as the Core would, and stores it.
Publish ==
    /\ unsigned # None
    /\ LET p == unsigned.projection
       IN  issued' = IF \/ p.request.mode = "transactional"
                        \/ Accepts(unsigned, p.request, p.identity, p.observation.targets,
                                   p.observation.reads, IssuerClock)
                     THEN issued \cup {unsigned} ELSE issued
    /\ unsigned' = None
    /\ UNCHANGED <<time, drift, verified, report>>

\* Whoever asks brings an attestation, and evidence for it or for another.
Verify ==
    /\ \E e, other \in issued :
        LET r == other.projection.request
            identity == other.projection.identity
        IN  \E targets \in {d.projection.observation.targets : d \in issued},
              reads \in {d.projection.observation.reads : d \in issued} :
            verified' = IF Accepts(e, r, identity, targets, reads, time)
                        THEN [attestation |-> e, request |-> r, identity |-> identity,
                              targets |-> targets, reads |-> reads, at |-> time]
                        ELSE None
    /\ UNCHANGED <<time, drift, unsigned, issued, report>>

-----------------------------------------------------------------------------
(* The report.                                                             *)

\* Mutant: the identity is as old as the report.
Mutant_IdentityFromNow(e, now) ==
    LET p == e.projection
    IN  Least({e.expiresAt, p.request.mandate.expiresAt, p.request.expiresAt,
               p.request.permissions, p.acceptance.expiresAt, now + IdentityAge + 1,
               p.observation.anchor.at + p.request.mandate.maxAge + 1})

\* Until when the report may be relied on.
ValidUntil(e, now) ==
    LET p == e.projection
    IN  Least({e.expiresAt, p.request.mandate.expiresAt, p.request.expiresAt,
               p.request.permissions, p.acceptance.expiresAt,
               p.identity.anchor.at + IdentityAge + 1,
               p.observation.anchor.at + p.request.mandate.maxAge + 1})

\* Mutant: evidence of the greatest age is already too old.
Mutant_ExclusiveAge(e) ==
    LET p == e.projection
    IN  Least({e.expiresAt, p.acceptance.expiresAt, p.request.mandate.expiresAt,
               p.request.permissions, p.identity.anchor.at + IdentityAge + 1,
               p.observation.anchor.at + p.request.mandate.maxAge})

\* computeCategoryValidUntil, which the form of an active candidate report asks for.
FormValidUntil(e) ==
    LET p == e.projection
    IN  Least({e.expiresAt, p.acceptance.expiresAt, p.request.mandate.expiresAt,
               p.request.permissions, p.identity.anchor.at + IdentityAge + 1,
               p.observation.anchor.at + p.request.mandate.maxAge + 1})

\* deriveStatus.
StatusBefore(e, now) ==
    LET p == e.projection
        m == p.request.mandate
        at == p.observation.anchor.at
        action == ActionState(p.request, p.profile)
    IN  IF ValidUntil(e, now) - now < MinRemaining THEN "UNAVAILABLE"
        ELSE IF p.request.mode = "observe_only" THEN "VERIFIED_HIREABLE"
        ELSE IF p.preview = "unavailable" THEN "UNAVAILABLE"
        ELSE IF p.preview = "failed" THEN "INELIGIBLE"
        ELSE IF p.preview # "passed" \/ at > now + m.skew \/ now - at > m.maxAge
        THEN "INCONCLUSIVE"
        ELSE IF ~action.covered THEN "INELIGIBLE"
        ELSE IF action.coverage # "complete" THEN "INCONCLUSIVE"
        ELSE "VERIFIED_HIREABLE"

\* The assurance a report of this mode asks for.
Asked(mode) == IF mode = "transactional" THEN "instance" ELSE Minimum

Status(e, now) ==
    LET p == e.projection
        before == StatusBefore(e, now)
    IN  IF /\ before = "VERIFIED_HIREABLE" /\ Asked(p.request.mode) = "instance"
           /\ p.observation.targets.assurance # "instance"
        THEN "INCONCLUSIVE" ELSE before

\* deriveMarketplaceCategoryActiveReport, in the second of the verification or not at all.
Report ==
    /\ verified # None /\ verified.at = time
    /\ LET e == verified.attestation
       IN  report' = [of |-> verified, at |-> time, status |-> Status(e, time),
                      validUntil |-> ValidUntil(e, time)]
    /\ UNCHANGED <<time, drift, unsigned, issued, verified>>

Tick ==
    /\ time < MaxTime /\ time' = time + 1
    /\ UNCHANGED <<drift, unsigned, issued, verified, report>>

Init ==
    /\ time = 0 /\ drift \in Drifts
    /\ unsigned = None /\ issued = {} /\ verified = None /\ report = None

Signs == Sign \/ SignTransaction
Serves == Tick \/ Publish \/ Verify \/ Report

Next == Signs \/ Serves

Spec == Init /\ [][Next]_vars

-----------------------------------------------------------------------------
(* Properties.                                                             *)

Statuses == {"VERIFIED_HIREABLE", "INELIGIBLE", "INCONCLUSIVE", "UNAVAILABLE"}

\* What is signed lives at least its minimum and at most its greatest lifetime.
TypeOK ==
    /\ time \in 0..MaxTime /\ drift \in Drifts
    /\ \A e \in issued \cup ({unsigned} \ {None}) :
        e.expiresAt - e.issuedAt \in MinRemaining..MaxTtl
    /\ report # None => report.status \in Statuses

Hireable == report # None /\ report.status = "VERIFIED_HIREABLE"

\* A candidate is reported hireable only while everything the report rests on has its
\* least lifetime left: the mandate, the permissions, the quote, the identity and the
\* evidence, and, of what the orchestrator issued, the key, the release and their edge;
\* and while the trust bundle is in force.
HireableIsLive ==
    Hireable =>
        LET e == report.of.attestation
            r == report.of.request
            last == report.at + MinRemaining - 1
        IN  /\ last < Least({r.mandate.expiresAt, r.mandate.permissions, r.expiresAt,
                             r.permissions, e.projection.acceptance.expiresAt, e.expiresAt})
            /\ last - report.of.identity.anchor.at <= IdentityAge
            /\ last - report.of.targets.anchor.at <= r.mandate.maxAge
            /\ r.mode = "observe_only" => last < Trust.until
            /\ report.at < Trust.expires

\* A report is of one request, one candidate and one block, whatever was brought along:
\* identity, targets, reads and quote are those the attestation was signed for.
ReportIsOfOneBlock ==
    report # None =>
        LET e == report.of.attestation
            p == e.projection
        IN  /\ report.of.request = p.request /\ report.of.identity.candidate = p.request.candidate
            /\ report.of.identity.anchor = report.of.targets.anchor
            /\ report.of.reads.anchor = report.of.targets.anchor
            /\ report.of.targets.scope = p.request.scope
            /\ p.acceptance.request = report.of.request
            /\ p.acceptance.owner = Owner[report.of.request.candidate]

\* What the orchestrator issued is accepted by a Core whose clock is behind by no more
\* than the skew, from then until the report's own boundary: nothing lapses before it.
IssuedIsAccepted ==
    \A e \in issued :
        LET p == e.projection
        IN  /\ p.request.mode = "observe_only"
            /\ p.acceptance.negotiatedAt <= e.issuedAt
            /\ time >= e.issuedAt - p.request.mandate.skew /\ time < ValidUntil(e, time)
            /\ time < Trust.expires
            => Accepts(e, p.request, p.identity, p.observation.targets, p.observation.reads, time)

\* The two ways to compute the boundary agree on whatever was verified.
BoundariesAgree ==
    verified # None =>
        ValidUntil(verified.attestation, verified.at) = FormValidUntil(verified.attestation)

\* Asked again of the same attestation, the Core gives the same boundary, and never calls
\* hireable what it no longer did.
Ages ==
    /\ report # None /\ report'.of.attestation = report.of.attestation
    => /\ report'.validUntil = report.validUntil
       /\ report'.status = "VERIFIED_HIREABLE" => report.status = "VERIFIED_HIREABLE"
=============================================================================
