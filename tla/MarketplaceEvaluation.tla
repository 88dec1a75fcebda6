------------------------ MODULE MarketplaceEvaluation ------------------------
(***************************************************************************)
(* How a verified quote becomes an attestation (marketplace-service/       *)
(* issuer.ts) and attestations become a ranking (marketplace-core: the     *)
(* version 2 of evaluate.ts, attestation.ts, normalize.ts, ranking.ts).    *)
(*                                                                         *)
(* Issuer and core are two programs with a clock each.  An attestation is  *)
(* stateless: it may be evaluated any number of times, with any others, in *)
(* any order, until it expires.  Of the evidence only the times, the cost  *)
(* and the price are kept; RebalanceRange has the ticks.                   *)
(***************************************************************************)
EXTENDS Integers, FiniteSets, Sequences, SequencesExt

CONSTANTS
    Candidates,           \* token numbers of the candidates
    Keys, PinnedKey,      \* keys of verifiers, and the one the core trusts
    Ttl,                  \* MAX_MARKETPLACE_ATTESTATION_TTL_SECONDS, 300
    CoreSkew,             \* maxClockSkewSeconds of the core
    MaxCandidates,        \* MAX_CANDIDATES, eight
    Mandates,             \* the mandates: times, skew, ages and budgets
    Drifts,               \* how far the clock of the core is ahead of the issuer's
    Offers,               \* what quotes may cost: [price, gas, slippage, exposure, spend]
    Lags, Leads,          \* how old evidence is when it is attested; how long quotes live
    MaxTime, MaxIssued, MaxResults    \* bounds

EvaluationAssumption ==
    /\ {Ttl, CoreSkew, MaxCandidates, MaxTime, MaxIssued, MaxResults} \subseteq Nat
    /\ MaxCandidates > 0 /\ PinnedKey \in Keys /\ Candidates \subseteq Nat
    /\ Drifts \cup Lags \cup Leads \subseteq Int
    /\ Offers \subseteq [price : Nat, gas : Nat, slippage : Nat, exposure : Nat, spend : Nat]
    /\ Mandates \subseteq [createdAt : 0..MaxTime, expiresAt : Nat, permissions : Nat, skew : Nat,
                           evidenceAge : Nat, previewAge : Nat,
                           gas : Nat, slippage : Nat, exposure : Nat, spend : Nat]
    /\ \A m \in Mandates : /\ m.createdAt < m.expiresAt
                           /\ m.createdAt < m.permissions /\ m.permissions <= m.expiresAt

VARIABLES
    time, drift,    \* the clock of the issuer, and the core's lead
    mandate,        \* the mandate everything is about
    issued,         \* the attestations there are
    results         \* the evaluations so far: [at, wires, ranking, decisions]

vars == <<time, drift, mandate, issued, results>>

Least(S) == CHOOSE n \in S : \A k \in S : n <= k
Magnitude(n) == IF n < 0 THEN -n ELSE n
Evaluated == time + drift    \* the clock of the core

-----------------------------------------------------------------------------
(* The issuer.                                                             *)

\* What the preview and the quote of a candidate may have yielded by now.  The
\* block and the estimate are dated by others, and may be ahead of this clock.
PayloadOf(c, permissions, lag, old, lead, offer) ==
    [candidate |-> c, observedAt |-> time - lag, estimateAt |-> time - old, offer |-> offer,
     reputationAt |-> time, permissions |-> permissions,
     expiresAt |-> Least({time + lead, mandate.expiresAt, permissions})]
PayloadsOf(candidates, lags, leads, offers) ==
    {PayloadOf(c, p, lag, old, lead, o) :
        c \in candidates, p \in {mandate.permissions - 1, mandate.permissions},
        lag \in lags, old \in lags, lead \in leads, o \in offers}
Payloads == PayloadsOf(Candidates, Lags, Leads, Offers)

\* Every time evidence was observed at (assertObservationChronology).
Observations(payload) == {payload.observedAt, payload.estimateAt, payload.reputationAt}

\* issueSignedPayload: at this time, under this key.
Attestation(payload, key) ==
    [payload |-> payload, key |-> key, issuedAt |-> time,
     expiresAt |-> Least({time + Ttl, payload.expiresAt})]

\* Mutant: what was observed after the issuance is attested too.
Mutant_AnyChronology(payload, key) ==
    /\ Cardinality(issued) < MaxIssued
    /\ Attestation(payload, key).expiresAt > time
    /\ issued' = issued \cup {Attestation(payload, key)}
    /\ UNCHANGED <<time, drift, mandate, results>>

Issue(payload, key) ==
    /\ Cardinality(issued) < MaxIssued
    /\ \A at \in Observations(payload) : at <= time
    /\ Attestation(payload, key).expiresAt > time
    /\ issued' = issued \cup {Attestation(payload, key)}
    /\ UNCHANGED <<time, drift, mandate, results>>

-----------------------------------------------------------------------------
(* The core: verification of one attestation.                              *)

\* Mutant: the lifetime is measured with the skew the issuance is allowed.
Mutant_ExpiryWithSkew(a, now) ==
    /\ a.key = PinnedKey
    /\ a.issuedAt <= now + CoreSkew
    /\ a.issuedAt < a.expiresAt /\ a.expiresAt - a.issuedAt <= Ttl
    /\ a.expiresAt <= a.payload.expiresAt
    /\ a.expiresAt + CoreSkew > now
    /\ \A at \in Observations(a.payload) : at <= a.issuedAt

\* verifyMarketplaceEvaluationAttestation, for an envelope whose hashes and
\* signature are those of its issuer.
Verifies(a, now) ==
    /\ a.key = PinnedKey
    /\ a.issuedAt <= now + CoreSkew
    /\ a.issuedAt < a.expiresAt /\ a.expiresAt - a.issuedAt <= Ttl
    /\ a.expiresAt <= a.payload.expiresAt
    /\ a.expiresAt > now
    /\ \A at \in Observations(a.payload) : at <= a.issuedAt

-----------------------------------------------------------------------------
(* The core: what it finds about one quote.                                *)

\* The dated evidence of a quote, each with the age the mandate allows.
Dated(m, q) ==
    {<<"QUOTE", q.payload.observedAt, m.evidenceAge>>,
     <<"ESTIMATE", q.payload.estimateAt, m.evidenceAge>>,
     <<"REPUTATION", q.payload.reputationAt, m.evidenceAge>>,
     <<"PREVIEW", q.payload.observedAt, m.previewAge>>,
     <<"CATEGORY_EVIDENCE", q.payload.observedAt, m.evidenceAge>>}

\* The exclusions of rebalancingFindings, as far as these data tell them apart.
Exclusions(m, q, now) ==
    {<<d[1], "PRECEDES_MANDATE">> : d \in {d \in Dated(m, q) : d[2] < m.createdAt}}
    \cup {<<d[1], "STALE">> : d \in {d \in Dated(m, q) : now - d[2] > d[3]}}
    \cup {code \in {<<"MANDATE", "EXPIRED">>, <<"QUOTE", "EXPIRED">>,
                    <<"QUOTE", "OUTLIVES_MANDATE">>, <<"PERMISSION", "EXPIRED">>,
                    <<"PERMISSION", "OUTLIVES_MANDATE">>, <<"BUDGET", "EXCEEDED">>} :
            \/ code = <<"MANDATE", "EXPIRED">> /\ now >= m.expiresAt
            \/ code = <<"QUOTE", "EXPIRED">> /\ q.payload.expiresAt <= now
            \/ code = <<"QUOTE", "OUTLIVES_MANDATE">> /\ q.payload.expiresAt > m.expiresAt
            \/ code = <<"PERMISSION", "EXPIRED">> /\ q.payload.permissions <= now
            \/ /\ code = <<"PERMISSION", "OUTLIVES_MANDATE">>
               /\ q.payload.permissions > m.permissions
            \/ /\ code = <<"BUDGET", "EXCEEDED">>
               /\ \/ q.payload.offer.gas > m.gas
                  \/ q.payload.offer.slippage > m.slippage
                  \/ q.payload.offer.exposure > m.exposure
                  \/ q.payload.offer.spend > m.spend}

\* What time or a price in dollars may still settle.
Inconclusives(m, q, now) ==
    {<<d[1], "TIMESTAMP_IN_FUTURE">> : d \in {d \in Dated(m, q) : d[2] > now + m.skew}}
    \cup {code \in {<<"CAPTURE", "TIMESTAMP_IN_FUTURE">>, <<"PRICING", "USD_UNAVAILABLE">>} :
            \/ code = <<"CAPTURE", "TIMESTAMP_IN_FUTURE">> /\ q.issuedAt > now + m.skew
            \/ code = <<"PRICING", "USD_UNAVAILABLE">> /\ q.payload.offer.price # 0}

\* Mutant: evidence from the future excludes.
Mutant_FutureExcludes(m, q, now) ==
    IF Exclusions(m, q, now) # {} \/ Inconclusives(m, q, now) # {} THEN "excluded"
    ELSE "eligible"

Verdict(m, q, now) ==
    IF Exclusions(m, q, now) # {} THEN "excluded"
    ELSE IF Inconclusives(m, q, now) # {} THEN "inconclusive"
    ELSE "eligible"

-----------------------------------------------------------------------------
(* The core: the score of an eligible quote, in ten-thousandths.           *)

Bps == 10000

RatioScore(part, whole) ==
    IF whole <= 0 THEN IF part = 0 THEN Bps ELSE 0
    ELSE IF part <= 0 THEN Bps
    ELSE IF part >= whole THEN 0
    ELSE ((whole - part) * Bps) \div whole

\* Mutant: what is dated ahead of the clock scores more than the best.
Mutant_Unclamped(age, max) ==
    IF age >= max THEN 0 ELSE ((max - age) * Bps) \div max

\* Mutant: the age itself is scored.
Mutant_OlderIsBetter(age, max) ==
    IF age <= 0 THEN 0
    ELSE IF age >= max THEN Bps
    ELSE (age * Bps) \div max

AgeScore(age, max) ==
    IF age <= 0 THEN Bps
    ELSE IF age >= max THEN 0
    ELSE ((max - age) * Bps) \div max

Freshness(m, q, now) == Least({AgeScore(now - d[2], d[3]) : d \in Dated(m, q)})

Risk(m, q) ==
    LET o == q.payload.offer
    IN  (RatioScore(q.payload.permissions - m.createdAt, m.permissions - m.createdAt)
         + RatioScore(o.spend, m.spend) + RatioScore(o.exposure, m.exposure)
         + RatioScore(o.slippage, m.slippage)) \div 4

Cost(m, q) ==
    LET o == q.payload.offer
    IN  (Bps + RatioScore(o.gas, m.gas) + RatioScore(o.slippage, m.slippage)) \div 3

\* STRATEGY_WEIGHTS 30, 20, 20, 15, 10 and 5; there is no reputation yet.
Total(m, q, now) ==
    30 * Bps + 20 * Bps + 20 * Freshness(m, q, now) + 15 * Risk(m, q) + 10 * Cost(m, q)

-----------------------------------------------------------------------------
(* The core: one evaluation.                                               *)

\* Array.sort, a library function: stable, each element behind those that belong before it.
Place(s, Before(_, _), i) ==
    Cardinality({j \in DOMAIN s : Before(s[j], s[i]) \/ (j < i /\ ~Before(s[i], s[j]))})
Sorted(s, Before(_, _)) ==
    [k \in DOMAIN s |-> s[CHOOSE i \in DOMAIN s : Place(s, Before, i) = k - 1]]

Decision(m, q, now) ==
    [candidate |-> q.payload.candidate, quote |-> q, outcome |-> Verdict(m, q, now),
     total |-> IF Verdict(m, q, now) = "eligible" THEN Total(m, q, now) ELSE 0]

\* Mutant: the decisions stay in the order the attestations came in.
Mutant_AsTheyCame(m, wires, now) == [i \in DOMAIN wires |-> Decision(m, wires[i], now)]

\* The quotes in the order of their candidates, decided.
Earlier(a, b) == a.payload.candidate < b.payload.candidate
Decisions(m, wires, now) ==
    [i \in DOMAIN wires |-> Decision(m, Sorted(wires, Earlier)[i], now)]

\* By total, then by candidate.
Better(a, b) == a.total > b.total \/ (a.total = b.total /\ a.candidate < b.candidate)
Eligible(decision) == decision.outcome = "eligible"
Ranking(decisions) == Sorted(SelectSeq(decisions, Eligible), Better)

\* Whether evaluateMarketplaceV2 accepts the set at all.
Acceptable(m, wires, now) ==
    /\ Len(wires) <= MaxCandidates
    /\ now > 0 /\ now >= m.createdAt
    /\ \A i \in DOMAIN wires : Verifies(wires[i], now)
    /\ \A i, j \in DOMAIN wires :
        i # j => wires[i].payload.candidate # wires[j].payload.candidate

Result(m, wires, now) ==
    LET decisions == Decisions(m, wires, now)
    IN  [at |-> now, decisions |-> decisions, ranking |-> Ranking(decisions)]

\* One failing attestation fails the evaluation, which leaves nothing behind.
Evaluate(wires) ==
    /\ Cardinality(results) < MaxResults
    /\ Acceptable(mandate, wires, Evaluated)
    /\ results' = results \cup {Result(mandate, wires, Evaluated)}
    /\ UNCHANGED <<time, drift, mandate, issued>>

Tick ==
    /\ time < MaxTime
    /\ time' = time + 1
    /\ UNCHANGED <<drift, mandate, issued, results>>

Init ==
    /\ mandate \in Mandates /\ drift \in Drifts
    /\ time = mandate.createdAt
    /\ issued = {} /\ results = {}

Wires == UNION {SetToSeqs(S) : S \in SUBSET issued \ {{}}}

Issues(payloads, keys) == \E payload \in payloads, key \in keys : Issue(payload, key)

Next ==
    \/ Tick
    \/ Issues(Payloads, Keys)
    \/ \E wires \in Wires : Evaluate(wires)

Spec == Init /\ [][Next]_vars

-----------------------------------------------------------------------------
(* Properties.                                                             *)

Outcomes == {"eligible", "inconclusive", "excluded"}
Decided == UNION {{<<r, r.decisions[i]>> : i \in DOMAIN r.decisions} : r \in results}

\* Results are of attestations that were issued, and the score is a weighted sum of
\* factors of at most ten thousand, the reputation being none (rankingScoreSchema).
TypeOK ==
    /\ time \in 0..MaxTime /\ drift \in Drifts /\ mandate \in Mandates
    /\ \A rd \in Decided : /\ rd[2].quote \in issued /\ rd[2].outcome \in Outcomes
                           /\ rd[2].outcome = "eligible" =>
                               /\ rd[2].total \in 0..95 * Bps
                               /\ Freshness(mandate, rd[2].quote, rd[1].at) \in 0..Bps

\* In real time, whatever the clocks say: what is ranked is of evidence no older than
\* the mandate allows and of a quote not expired, but for the drift of the core's clock
\* (verifyMarketplaceEvaluationAttestation, addTimestampFindings, issueSignedPayload).
RankedAreLive ==
    \A rd \in Decided :
        rd[2].outcome = "eligible" =>
            LET q == rd[2].quote
                real == rd[1].at - drift
            IN  /\ q.key = PinnedKey
                /\ real < q.payload.expiresAt + Magnitude(drift)
                /\ real < q.issuedAt + Ttl + Magnitude(drift)
                /\ \A d \in Dated(mandate, q) :
                    /\ d[2] >= mandate.createdAt
                    /\ real - d[2] <= d[3] + Magnitude(drift)
                    /\ d[2] <= q.issuedAt

\* And nothing less is asked: a free quote within its budgets whose evidence is young
\* enough and whose attestation lives on, by the drift of the clocks, is eligible when
\* the drift is one the mandate and the core allow.
HonestIsEligible ==
    \A q \in issued :
        /\ Magnitude(drift) <= Least({mandate.skew, CoreSkew})
        /\ time + Magnitude(drift) < q.expiresAt /\ q.key = PinnedKey
        /\ Evaluated >= mandate.createdAt /\ Evaluated > 0
        /\ q.payload.offer.price = 0
        /\ q.payload.offer.gas <= mandate.gas /\ q.payload.offer.slippage <= mandate.slippage
        /\ q.payload.offer.exposure <= mandate.exposure /\ q.payload.offer.spend <= mandate.spend
        /\ \A d \in Dated(mandate, q) :
            d[2] >= mandate.createdAt /\ time + Magnitude(drift) - d[2] <= d[3]
        => Acceptable(mandate, <<q>>, Evaluated) /\ Verdict(mandate, q, Evaluated) = "eligible"

Stage == [eligible |-> 1, inconclusive |-> 0, excluded |-> 2]

\* The same attestation evaluated again later: once excluded it stays so, and once
\* eligible it never becomes inconclusive.  A receipt that excluded a candidate is
\* never contradicted by a later one about the same attestation.
VerdictsOnlyAge ==
    \A a, b \in Decided :
        a[2].quote = b[2].quote /\ a[1].at <= b[1].at =>
            Stage[a[2].outcome] <= Stage[b[2].outcome]

\* Nor does its score ever grow (ageScore, scoreEligibleQuote).
ScoresOnlyFall ==
    \A a, b \in Decided :
        /\ a[2].quote = b[2].quote /\ a[1].at <= b[1].at
        /\ a[2].outcome = "eligible" /\ b[2].outcome = "eligible"
        => a[2].total >= b[2].total

\* Whoever gathers the same attestations, in whatever order, gets the same decisions
\* and the same ranking (marketplace-core/README.md, deterministic input ordering).
OrderDoesNotMatter ==
    \A S \in SUBSET issued : \A v, w \in SetToSeqs(S) :
        /\ Acceptable(mandate, v, Evaluated) <=> Acceptable(mandate, w, Evaluated)
        /\ Acceptable(mandate, v, Evaluated) =>
            Result(mandate, v, Evaluated) = Result(mandate, w, Evaluated)
=============================================================================
