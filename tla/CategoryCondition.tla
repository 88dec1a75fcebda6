------------------------- MODULE CategoryCondition --------------------------
(***************************************************************************)
(* The category condition attestation: a verifier service runs an adapter  *)
(* for a request and signs that its condition held                         *)
(* (marketplace-service/src/category-issuer.ts, category-runtime.ts), and  *)
(* the Core, which pins one release of that service, turns the attestation *)
(* into a receipt (marketplace-core/src/category-attestation.ts,           *)
(* category-evaluation.ts).                                                *)
(*                                                                         *)
(* An attestation is reusable until it expires: the Core may be asked for  *)
(* it any number of times, together with any request.  The clock of the    *)
(* issuer is apart from the Core's and is stepped now and then; the        *)
(* service is redeployed under another release.                            *)
(***************************************************************************)
EXTENDS Integers, FiniteSets, FiniteSetsExt

CONSTANTS
    Requests,    \* [id, mandate, candidate, adapter, subject, policy]; a mandate is
                 \* [id, createdAt, expiresAt, skew, maxAge]
    Releases,    \* [key, policy, deployment] of a verifier service
    Pinned,      \* the release the Core trusts
    Adapters,    \* Adapters[d]: the enabled adapters of deployment d, each with
                 \* its configuration [subject, policy], or None
    Lags,        \* how far the observed block's time is behind the Core's clock
    Drifts,      \* of the issuer's clock from the Core's
    MaxTtl,
    CoreSkew,    \* the skew the Core allows issuers
    MaxTime, MaxIssued, MaxSteps,      \* bounds: clock, attestations, clock steps
    None

ConditionAssumption ==
    /\ Pinned \in Releases /\ MaxTtl \in Nat \ {0} /\ CoreSkew \in Nat
    /\ {MaxTime, MaxIssued, MaxSteps} \subseteq Nat
    /\ Lags \subseteq Int /\ Drifts \subseteq Int
    /\ \A r \in Requests :
        /\ {r.mandate.createdAt, r.mandate.expiresAt, r.mandate.skew,
            r.mandate.maxAge} \subseteq Int
        /\ r.mandate.createdAt < r.mandate.expiresAt

VARIABLES
    time,        \* the Core's clock
    drift, steps,
    release,     \* of the service that is running
    run,         \* its evaluation: [request, release, artifact], or None
    issued,      \* the attestations there are
    receipt      \* the last receipt of the Core, with the request it was asked for

vars == <<time, drift, steps, release, run, issued, receipt>>

IssuerClock == time + drift

-----------------------------------------------------------------------------
(* The issuer.                                                             *)

\* Mutant: an enabled adapter serves every subject and policy.
Mutant_AnyConfiguration(r, d) == r.adapter \in DOMAIN Adapters[d]

\* assertRequestMatchesDeployment: the adapter is enabled and, where the deployment
\* configures it, configured for this subject and policy.
MatchesDeployment(r, d) ==
    /\ r.adapter \in DOMAIN Adapters[d]
    /\ Adapters[d][r.adapter] \in {None, [subject |-> r.subject, policy |-> r.policy]}

\* evaluateAndAttestCategory, up to the first wait: the request is copied and frozen.
Ask ==
    /\ run = None /\ Cardinality(issued) < MaxIssued
    /\ \E r \in Requests :
        /\ MatchesDeployment(r, release.deployment)
        /\ run' = [request |-> r, release |-> release, artifact |-> None]
    /\ UNCHANGED <<time, drift, steps, release, issued, receipt>>

\* The verifier passes: it dates the artifact by its own clock, and its evidence by the
\* block.  The runtime binds the pass to the request's mandate and candidate.
Pass ==
    /\ run # None /\ run.artifact = None
    /\ \E lag \in Lags :
        run' = [run EXCEPT !.artifact =
                    [adapter |-> run.request.adapter, subject |-> run.request.subject,
                     policy |-> run.request.policy, release |-> run.release,
                     mandate |-> run.request.mandate, candidate |-> run.request.candidate,
                     observedAt |-> time - lag, evaluatedAt |-> IssuerClock]]
    /\ UNCHANGED <<time, drift, steps, release, issued, receipt>>

\* It does not: a failed condition is an error, what is inconclusive is not attested.
DoNotPass ==
    /\ run # None /\ run.artifact = None
    /\ run' = None
    /\ UNCHANGED <<time, drift, steps, release, issued, receipt>>

\* assertCategoryExecutionBound and assertArtifactMatchesRequest.
ArtifactMatches(r, a, rel) ==
    /\ a.mandate = r.mandate /\ a.candidate = r.candidate
    /\ a.adapter = r.adapter /\ a.release = rel
    /\ a.subject = r.subject /\ a.policy = r.policy
    /\ MatchesDeployment(r, rel.deployment)

\* Mutant: evidence may be of a block the issuer's clock has not reached.
Mutant_FutureEvidence(m, a, now) ==
    /\ m.createdAt <= now /\ now < m.expiresAt
    /\ m.createdAt <= a.evaluatedAt /\ a.evaluatedAt <= now
    /\ a.observedAt <= a.evaluatedAt + m.skew
    /\ a.observedAt >= m.createdAt /\ now - a.observedAt <= m.maxAge

\* assertIssuanceChronology: of mandate m, artifact a, at second now.
Chronology(m, a, now) ==
    /\ m.createdAt <= now /\ now < m.expiresAt
    /\ m.createdAt <= a.evaluatedAt /\ a.evaluatedAt <= now
    /\ a.observedAt <= now /\ a.observedAt <= a.evaluatedAt + m.skew
    /\ a.observedAt >= m.createdAt /\ now - a.observedAt <= m.maxAge

\* How long an attestation lives, which has nothing to do with how old its evidence is.
Expiry(m, issuedAt) == Min({issuedAt + MaxTtl, m.expiresAt})

\* buildUnsignedAttestation; the digests of mandate, request, subject and policy are what
\* they are digests of.
Unsigned(r, a, rel, now) ==
    [key |-> rel.key, verifierPolicy |-> rel.policy, deployment |-> rel.deployment,
     mandate |-> r.mandate, request |-> r,
     adapter |-> a.adapter, candidate |-> r.candidate, subject |-> r.subject,
     policy |-> r.policy, observedAt |-> a.observedAt,
     issuedAt |-> now, expiresAt |-> Expiry(r.mandate, now)]

\* The rest of evaluateAndAttestCategory, in one turn: the clock is read here.
Attest ==
    /\ run # None /\ run.artifact # None
    /\ LET r == run.request
           a == run.artifact
       IN  issued' = IF /\ ArtifactMatches(r, a, run.release)
                        /\ Chronology(r.mandate, a, IssuerClock)
                        /\ Expiry(r.mandate, IssuerClock) > IssuerClock
                     THEN issued \cup {Unsigned(r, a, run.release, IssuerClock)}
                     ELSE issued
    /\ run' = None
    /\ UNCHANGED <<time, drift, steps, release, receipt>>

\* A new process, perhaps of another release; the run of the old one is lost.
Redeploy ==
    /\ release' \in Releases \ {release} /\ run' = None
    /\ UNCHANGED <<time, drift, steps, issued, receipt>>

-----------------------------------------------------------------------------
(* The Core.                                                               *)

\* Mutant: an attestation is bound to its request by the names of request and mandate.
Mutant_ByName(e, r) ==
    e.request.id = r.id /\ e.mandate.id = r.mandate.id /\ e.candidate = r.candidate

\* The attestation is of this very request.
OfRequest(e, r) ==
    /\ e.mandate = r.mandate /\ e.request = r
    /\ e.adapter = r.adapter /\ e.candidate = r.candidate
    /\ e.subject = r.subject /\ e.policy = r.policy

\* The key, the policy and the deployment are the pinned ones.
OfRelease(e) ==
    e.key = Pinned.key /\ e.verifierPolicy = Pinned.policy /\ e.deployment = Pinned.deployment

\* The times of attestation e and mandate m, at second now.
InTime(e, m, now) ==
    /\ e.issuedAt <= now + CoreSkew
    /\ e.issuedAt < m.expiresAt /\ e.expiresAt > e.issuedAt /\ e.expiresAt <= m.expiresAt
    /\ e.expiresAt <= e.issuedAt + MaxTtl
    /\ e.expiresAt > now
    /\ e.observedAt <= e.issuedAt /\ e.observedAt >= m.createdAt
    /\ e.observedAt <= now + m.skew /\ now - e.observedAt <= m.maxAge
    /\ now >= m.createdAt

\* verifyMarketplaceCategoryAttestation, of what the issuer did sign.
Verifies(e, r, now) == OfRequest(e, r) /\ OfRelease(e) /\ InTime(e, r.mandate, now)

\* Mutant: a receipt is good for as long as its attestation.
Mutant_UntilExpiry(e, m) == e.expiresAt

\* Mutant: evidence of the greatest age is too old.
Mutant_ExclusiveAge(e, m) == Min({e.expiresAt, e.observedAt + m.maxAge})

\* Both bounds are exclusive: evidence of the greatest age still counts.
ValidUntil(e, m) == Min({e.expiresAt, e.observedAt + m.maxAge + 1})

\* evaluateCategoryCondition, of any attestation with any request.
Evaluate ==
    /\ \E e \in issued, r \in Requests :
        /\ Verifies(e, r, time)
        /\ receipt' = [of |-> e, request |-> r, evaluatedAt |-> time,
                       validUntil |-> ValidUntil(e, r.mandate)]
    /\ UNCHANGED <<time, drift, steps, release, run, issued>>

-----------------------------------------------------------------------------
(* Clocks.                                                                 *)

Tick ==
    /\ time < MaxTime /\ time' = time + 1
    /\ UNCHANGED <<drift, steps, release, run, issued, receipt>>

\* The issuer's clock is set, perhaps back, between any two steps of a run.
StepClock ==
    /\ steps < MaxSteps /\ steps' = steps + 1
    /\ drift' \in Drifts \ {drift}
    /\ UNCHANGED <<time, release, run, issued, receipt>>

Init ==
    /\ time = 0 /\ drift \in Drifts /\ steps = 0
    /\ release \in Releases
    /\ run = None /\ issued = {} /\ receipt = None

Next == Ask \/ Pass \/ DoNotPass \/ Attest \/ Redeploy \/ Evaluate \/ Tick \/ StepClock

Spec == Init /\ [][Next]_vars

-----------------------------------------------------------------------------
(* Properties.                                                             *)

\* An attestation lives at least a second, and within its mandate.
TypeOK ==
    /\ time \in 0..MaxTime /\ drift \in Drifts /\ steps \in 0..MaxSteps
    /\ release \in Releases
    /\ run # None => run.request \in Requests /\ run.release = release
    /\ \A e \in issued : /\ e.request \in Requests
                         /\ e.expiresAt - e.issuedAt \in 1..MaxTtl
                         /\ e.expiresAt <= e.mandate.expiresAt
    /\ receipt # None => receipt.of \in issued /\ receipt.request \in Requests

\* In the last second of a receipt the mandate and the attestation still run, and the
\* evidence is no older than the mandate allows (category-attestation.ts, the comment on
\* validUntil), though the attestation was signed for longer.
ReceiptIsLive ==
    receipt # None =>
        LET m == receipt.request.mandate
            last == receipt.validUntil - 1
        IN  /\ receipt.evaluatedAt <= last
            /\ last < m.expiresAt /\ last < receipt.of.expiresAt
            /\ last < receipt.of.issuedAt + MaxTtl
            /\ last - receipt.of.observedAt <= m.maxAge

\* Asked again, at any later second, the Core gives the receipt until its boundary and
\* refuses it from then on: the boundary is the first second of the refusal.
RefusedFromBoundaryOn ==
    receipt # None /\ time >= receipt.evaluatedAt =>
        (Verifies(receipt.of, receipt.request, time) <=> time < receipt.validUntil)

\* What the pinned release issued is accepted, with its own request, by a Core in whose
\* skew the issuer's clock is: whatever the steps of that clock in the meantime, nothing is
\* signed that the Core would then refuse for its times.
IssuedIsAccepted ==
    \A e \in issued :
        /\ OfRelease(e)
        /\ time >= e.issuedAt - CoreSkew /\ time >= e.mandate.createdAt
        /\ time >= e.observedAt - e.mandate.skew
        /\ time < ValidUntil(e, e.mandate)
        => Verifies(e, e.request, time)

\* A receipt is of a pass for the subject, the policy, the mandate and the candidate of
\* the request it was asked for, although an attestation may be shown with any request.
ReceiptIsOfItsRequest ==
    receipt # None => receipt.of.request = receipt.request

\* Where the deployment the Core pins configures an adapter, a receipt of that adapter is of
\* the configured subject and policy, whatever release is running and was asked.
ReceiptIsOfConfiguration ==
    receipt # None =>
        LET configured == Adapters[Pinned.deployment][receipt.request.adapter]
        IN  configured # None =>
                /\ configured.subject = receipt.request.subject
                /\ configured.policy = receipt.request.policy
=============================================================================
