---------------------------- MODULE TrustedQuote ----------------------------
(***************************************************************************)
(* The validation of a signed quote, from the preflight to the claim that  *)
(* spends it (agent-supply-verifier/src/quotes/validate.ts, protocol.ts),  *)
(* alone or with the preview between signature and claim                   *)
(* (preview/validate.ts).                                                  *)
(*                                                                         *)
(* Several attempts run at once.  An attempt takes the clock three times,  *)
(* and waits in between for the agent, for the contract that may answer    *)
(* for a signature, for the preview and for the replay store.  Two answers *)
(* may hold one quote.  What the store promises is ReplayClaim, of which   *)
(* there is one for every quote.                                           *)
(***************************************************************************)
EXTENDS Integers, FiniteSets

CONSTANTS
    Attempts,
    Modes,                       \* of "quote", "preview", "evaluation"
    MinRemaining, Tolerance,     \* MIN_QUOTE_REMAINING_SECONDS, REBALANCE_FUTURE_TOLERANCE_SECONDS
    Skew, MaxPassiveAge, MaxTtl, \* maxClockSkewSeconds and the like of the trust entry
    Buffer,                      \* PREVIEW_FINAL_BUFFER_SECONDS
    Mandates,                    \* [expires, permissions, estimateAt, maxAge]
    Passives,                    \* sets of times of the passive report, the chain and the card
    Deadlines,                   \* of transaction plans
    Quotes,                      \* how the agent may date a quote: [ahead, lag, ttl]
    Flaws,                       \* what may be wrong with one that does not mind its dates
    Start, MaxTime, MaxQuotes,   \* bounds
    None

\* What None is told apart from: flaws and outcomes.
Words == {"mandate", "price", "signature",
          "valid", "verified", "invalid", "inconclusive", "refused"}

QuoteAssumption ==
    /\ {Tolerance, Skew, MaxPassiveAge, MaxTtl, Buffer, MaxTime, MaxQuotes} \subseteq Nat
    /\ {MinRemaining, Start} \subseteq Nat \ {0} /\ Start <= MaxTime
    /\ Modes \subseteq {"quote", "preview", "evaluation"}
    /\ Mandates \subseteq [expires : Int, permissions : Int, estimateAt : Int, maxAge : Int]
    /\ \A m \in Mandates : m.permissions <= m.expires
    /\ Passives \subseteq SUBSET Int /\ Deadlines \subseteq Int
    /\ Quotes \subseteq [ahead : Int, lag : Nat, ttl : Int]
    /\ Flaws \subseteq {None, "mandate", "price", "signature"}
    /\ None \notin Attempts \cup Words

VARIABLES
    time,               \* the clock of the validator
    mandate, passive,   \* what the operator supplied
    signed,             \* the quotes the agent has made, by number
    attempt,            \* the attempts
    winner, answer      \* the replay store, for every quote

vars == <<time, mandate, passive, signed, attempt, winner, answer>>
store == <<winner, answer>>

Numbers == 1..MaxQuotes
Keys == Numbers \X {None}    \* what the store files a quote under

\* The store as ReplayClaim describes it, for one key.
Store(key) == INSTANCE ReplayClaim WITH Op <- Attempts, NoOp <- None,
                                        winner <- winner[key], answer <- answer[key]

\* An attempt that has no quote.
Unquoted(step, mode, deadline, outcome, code) ==
    [step |-> step, mode |-> mode, deadline |-> deadline, quote |-> None,
     validatedAt |-> 0, decidedAt |-> 0, outcome |-> outcome, code |-> code, endedAt |-> 0]
Idle == Unquoted("idle", None, 0, None, None)

Steps == {"idle", "asking", "answered", "signature", "gate", "decide", "claim", "done", "dead"}

At(a, step) == attempt[a].step = step
Moves(a, record) == attempt' = [attempt EXCEPT ![a] = record]
\* Mutant: what came of it is not written down.
Mutant_EndsSilently(a, outcome, code) ==
    Moves(a, [attempt[a] EXCEPT !.step = "done", !.endedAt = time])

Ends(a, outcome, code) ==
    Moves(a, [attempt[a] EXCEPT !.step = "done", !.outcome = outcome, !.code = code,
                                  !.endedAt = time])

-----------------------------------------------------------------------------
(* The windows.                                                            *)

\* assertFreshTimestamp of everything the passive report says.
PassiveFresh(now) ==
    \A at \in passive : at <= now + Skew /\ now - at <= MaxPassiveAge

\* mandateTemporalPolicyFailure.
MandateLives(now) ==
    /\ mandate.expires - now >= MinRemaining /\ mandate.permissions - now >= MinRemaining
    /\ now - mandate.estimateAt <= mandate.maxAge
    /\ now - mandate.estimateAt >= -Tolerance

\* assertRebalanceTimestampFresh.
Fresh(at, checkedAt, now) ==
    \A seen \in {checkedAt, now} : seen - at <= mandate.maxAge /\ seen - at >= -Tolerance

\* verifyQuoteMandateBinding, with assertSignedRebalancePolicy.
Binds(q, now) ==
    /\ q.flaw # "mandate"
    /\ q.checkedAt <= now + Tolerance /\ q.checkedAt <= q.negotiatedAt + Tolerance
    /\ Fresh(q.evidenceAt, q.checkedAt, now) /\ Fresh(mandate.estimateAt, q.checkedAt, now)
    /\ \A seen \in {q.checkedAt, now} : seen < mandate.expires /\ seen < mandate.permissions
    /\ q.expiresAt <= mandate.permissions

\* Mutant: the quote must already have been made by the validator's clock.
Mutant_NoSkew(q, now) ==
    /\ q.expiresAt - q.negotiatedAt <= MaxTtl
    /\ q.negotiatedAt <= now
    /\ q.expiresAt - now >= MinRemaining
    /\ q.flaw # "price"
    /\ q.expiresAt <= mandate.permissions

\* quotePolicyAllows.
PolicyAllows(q, now) ==
    /\ q.expiresAt - q.negotiatedAt <= MaxTtl
    /\ q.negotiatedAt <= now + Skew
    /\ q.expiresAt - now >= MinRemaining
    /\ q.flaw # "price"
    /\ q.expiresAt <= mandate.permissions

\* The deadline of the plan, as the policy of the preview and the constraint of the
\* commit ask for it (validateRebalancePlanPolicy, commitConstraintAllows).
DeadlineFits(deadline, q, now) ==
    /\ deadline >= now + Buffer
    /\ deadline <= q.expiresAt /\ deadline <= mandate.permissions

-----------------------------------------------------------------------------
(* The agent.                                                              *)

\* A quote made now by a clock this far ahead, from evidence this old, living so long.
Made(dates, flaw, number) ==
    [number |-> number, flaw |-> flaw, madeAt |-> time,
     negotiatedAt |-> time + dates.ahead, checkedAt |-> time + dates.ahead,
     evidenceAt |-> time - dates.lag, expiresAt |-> time + dates.ahead + dates.ttl]

Answered(a, q) ==
    Moves(a, [attempt[a] EXCEPT !.step = "answered", !.quote = q])

\* The agent signs a new quote, or hands out one it made before.
Answer(a) ==
    /\ At(a, "asking")
    /\ \/ /\ Cardinality(signed) < MaxQuotes
          /\ \E dates \in Quotes, flaw \in Flaws :
              LET q == Made(dates, flaw, Cardinality(signed) + 1)
              IN  Answered(a, q) /\ signed' = signed \cup {q}
       \/ \E q \in signed : Answered(a, q) /\ UNCHANGED signed
    /\ UNCHANGED <<time, mandate, passive, store>>

\* No answer, one out of shape, or a refusal.
NoAnswer(a) ==
    /\ At(a, "asking")
    /\ \/ Ends(a, "inconclusive", "TRANSPORT_FAILED")
       \/ Ends(a, "invalid", "RESPONSE_SCHEMA_INVALID")
       \/ Ends(a, "refused", "QUOTE_REJECTED")
    /\ UNCHANGED <<time, mandate, passive, signed, store>>

-----------------------------------------------------------------------------
(* An attempt.                                                             *)

Goes(a, record) == Moves(a, record) /\ UNCHANGED <<time, mandate, passive, signed, store>>
Fails(a, outcome, code) ==
    Ends(a, outcome, code) /\ UNCHANGED <<time, mandate, passive, signed, store>>

\* Preflight: passive evidence and mandate at one time, and a store that is there.
Prepare(a) ==
    /\ At(a, "idle")
    /\ \E mode \in Modes, deadline \in Deadlines :
        LET Begins(step, outcome, code) ==
                Goes(a, Unquoted(step, mode, deadline, outcome, code))
        IN  IF PassiveFresh(time) /\ MandateLives(time)
            THEN \/ Begins("asking", None, None)
                 \/ mode # "evaluation" /\ Begins("done", "inconclusive", "REPLAY_STORE_UNAVAILABLE")
            ELSE Begins("done", "invalid", "PREFLIGHT_FAILED")

\* The first look at the quote: binding, hashes and expiry at one time.
Validate(a) ==
    /\ At(a, "answered")
    /\ LET q == attempt[a].quote
       IN  IF ~Binds(q, time) THEN Fails(a, "invalid", "MANDATE_BINDING_MISMATCH")
           ELSE IF q.expiresAt <= time THEN Fails(a, "invalid", "QUOTE_EXPIRED")
           ELSE Goes(a, [attempt[a] EXCEPT !.step = "signature", !.validatedAt = time])

\* The signature, recovered or asked of a contract; and the policy at the same time.
Signature(a) ==
    /\ At(a, "signature")
    /\ LET q == attempt[a].quote
       IN  \/ Fails(a, "inconclusive", "ERC1271_UNAVAILABLE")
           \/ /\ q.flaw = "signature"
              /\ Fails(a, "invalid", "PROVIDER_SIGNATURE_INVALID")
           \/ /\ q.flaw # "signature"
              /\ IF ~PolicyAllows(q, attempt[a].validatedAt)
                 THEN Fails(a, "invalid", "QUOTE_POLICY_REJECTED")
                 ELSE Goes(a, [attempt[a] EXCEPT !.step =
                                IF attempt[a].mode = "quote" THEN "decide" ELSE "gate"])

\* The preview, whose plan is judged at the time of the first look.
Gate(a) ==
    /\ At(a, "gate")
    /\ \/ Fails(a, "inconclusive", "PREVIEW_GATE_UNAVAILABLE")
       \/ Fails(a, "invalid", "PREVIEW_GATE_REJECTED")
       \/ /\ DeadlineFits(attempt[a].deadline, attempt[a].quote, attempt[a].validatedAt)
          /\ Goes(a, [attempt[a] EXCEPT !.step = "decide"])

\* What the marketplace gets instead of a claim.
Verified(me) == [me EXCEPT !.step = "done", !.decidedAt = time, !.outcome = "verified"]

\* Mutant: what held when the quote came is not looked at again.
Mutant_DecideAsValidated(a) ==
    /\ At(a, "decide")
    /\ Goes(a, [attempt[a] EXCEPT !.decidedAt = time,
                !.step = IF attempt[a].mode = "evaluation" THEN "done" ELSE "claim",
                !.outcome = IF attempt[a].mode = "evaluation" THEN "verified" ELSE None])

\* Mutant: an evaluation spends the quote too.
Mutant_EvaluationClaims(a) ==
    /\ At(a, "decide")
    /\ LET q == attempt[a].quote
       IN  IF ~PassiveFresh(time) THEN Fails(a, "invalid", "PASSIVE_PREFLIGHT_FAILED")
           ELSE IF ~MandateLives(time) THEN Fails(a, "invalid", "QUOTE_POLICY_REJECTED")
           ELSE IF ~Binds(q, time) THEN Fails(a, "invalid", "MANDATE_BINDING_MISMATCH")
           ELSE IF ~PolicyAllows(q, time) THEN Fails(a, "invalid", "QUOTE_POLICY_REJECTED")
           ELSE Goes(a, [attempt[a] EXCEPT !.step = "claim", !.decidedAt = time])

\* The decision: every window once more, at one time.
Decide(a) ==
    /\ At(a, "decide")
    /\ LET q == attempt[a].quote
           me == attempt[a]
       IN  IF ~PassiveFresh(time) THEN Fails(a, "invalid", "PASSIVE_PREFLIGHT_FAILED")
           ELSE IF ~MandateLives(time) THEN Fails(a, "invalid", "QUOTE_POLICY_REJECTED")
           ELSE IF ~Binds(q, time) THEN Fails(a, "invalid", "MANDATE_BINDING_MISMATCH")
           ELSE IF ~PolicyAllows(q, time) THEN Fails(a, "invalid", "QUOTE_POLICY_REJECTED")
           ELSE IF me.mode # "quote" /\ me.deadline < time + Buffer
           THEN Fails(a, "invalid", "PREVIEW_GATE_REJECTED")
           ELSE IF me.mode = "evaluation"
           THEN Goes(a, Verified(me))
           ELSE Goes(a, [me EXCEPT !.step = "claim", !.decidedAt = time])

-----------------------------------------------------------------------------
(* The claim.                                                              *)

\* Mutant: the key is of the attempt as well.
Mutant_KeyOfAttempt(a) == <<attempt[a].quote.number, a>>

\* computeQuoteReplayKey: the negotiation hash and where it came from.
ReplayKey(a) == <<attempt[a].quote.number, None>>

Winner(a) == IF ReplayKey(a) \in DOMAIN winner THEN winner[ReplayKey(a)] ELSE a

\* Mutant: whether the quote is spent was looked up when the attempt began.
Mutant_ConsumeUnseen(a) ==
    /\ At(a, "claim") /\ Winner(a) # a
    /\ winner' = [winner EXCEPT ![ReplayKey(a)] = a]
    /\ UNCHANGED <<time, mandate, passive, signed, attempt, answer>>

\* The store spends the quote for this attempt.
Consume(a) ==
    /\ At(a, "claim") /\ Winner(a) = None
    /\ winner' = [winner EXCEPT ![ReplayKey(a)] = a]
    /\ UNCHANGED <<time, mandate, passive, signed, attempt, answer>>

Told(a, word) ==
    /\ answer' = IF ReplayKey(a) \in DOMAIN answer
                 THEN [answer EXCEPT ![ReplayKey(a)][a] = word] ELSE answer
    /\ UNCHANGED <<time, mandate, passive, signed, winner>>



\* Claimed; spent before; or the store failed, and nobody knows which.
Claim(a) ==
    /\ At(a, "claim")
    /\ \/ /\ Winner(a) = a
          /\ Ends(a, "valid", None) /\ Told(a, "won")
       \/ /\ Winner(a) \notin {a, None}
          /\ Ends(a, "invalid", "REPLAY_DETECTED") /\ Told(a, "lost")
       \/ Ends(a, "inconclusive", "REPLAY_STORE_UNAVAILABLE") /\ Told(a, "thrown")

-----------------------------------------------------------------------------

Tick ==
    /\ time < MaxTime
    /\ time' = time + 1
    /\ UNCHANGED <<mandate, passive, signed, attempt, store>>

\* The process ends between two steps.
Die(a) ==
    /\ attempt[a].step \in Steps \ {"idle", "done", "dead"}
    /\ Goes(a, [attempt[a] EXCEPT !.step = "dead"])

Init ==
    /\ time = Start /\ mandate \in Mandates /\ passive \in Passives
    /\ signed = {}
    /\ attempt = [a \in Attempts |-> Idle]
    /\ winner = [k \in Keys |-> None]
    /\ answer = [k \in Keys |-> [a \in Attempts |-> "none"]]

Work(a) ==
    \/ Answer(a) \/ NoAnswer(a) \/ Validate(a) \/ Signature(a) \/ Gate(a) \/ Decide(a)
    \/ Consume(a) \/ Claim(a)

Next == Tick \/ \E a \in Attempts : Prepare(a) \/ Work(a) \/ Die(a)

Spec == Init /\ [][Next]_vars

-----------------------------------------------------------------------------
(* Properties.                                                             *)

Outcomes == {"valid", "verified", "invalid", "inconclusive", "refused"}

\* An attempt has a quote once it was answered, and an outcome once it is done.
TypeOK ==
    /\ time \in Start..MaxTime /\ mandate \in Mandates /\ passive \in Passives
    /\ \A a \in Attempts :
        /\ attempt[a].step \in Steps
        /\ attempt[a].quote \in signed \cup {None}
        /\ attempt[a].step = "done" <=> attempt[a].outcome \in Outcomes
    /\ winner \in [Keys -> Attempts \cup {None}]

Valid(a) == attempt[a].outcome = "valid"
Good(a) == attempt[a].outcome \in {"valid", "verified"}

\* However many attempts hold one quote, at most one of them is told it is valid
\* (validateTrustedQuote; README.md, replay protection of a validated quote).
OneValidPerQuote ==
    \A a, b \in Attempts :
        Valid(a) /\ Valid(b) /\ a # b => attempt[a].quote.number # attempt[b].quote.number

\* Bound to the mandate and open in every window when it was decided.
InTime(a) ==
    LET q == attempt[a].quote
        now == attempt[a].decidedAt
    IN  /\ q.flaw = None
        /\ q.expiresAt >= now + MinRemaining /\ q.expiresAt <= mandate.permissions
        /\ mandate.permissions >= now + MinRemaining
        /\ q.negotiatedAt <= now + Skew /\ q.expiresAt <= q.negotiatedAt + MaxTtl
        /\ \A at \in {q.evidenceAt, mandate.estimateAt} :
            now - at <= mandate.maxAge /\ at <= now + Tolerance
        /\ \A at \in passive : now - at <= MaxPassiveAge
        /\ attempt[a].mode # "quote" =>
            /\ attempt[a].deadline >= now + Buffer
            /\ attempt[a].deadline <= q.expiresAt

\* A quote that passed was bound to the mandate and open in every window at the very
\* time it was decided, however long the signature and the preview took.
GoodWasInTime == \A a \in Attempts : Good(a) => InTime(a)

\* The call that spent a quote had decided for it, and got to know or was stopped.
SpentRightly(k) ==
    LET me == attempt[winner[k]]
    IN  /\ me.decidedAt > 0 /\ me.quote.flaw = None /\ me.mode # "evaluation"
        /\ \/ me.step \in {"claim", "dead"}
           \/ me.outcome = "valid" \/ me.code = "REPLAY_STORE_UNAVAILABLE"

\* Only an attempt that decided for its quote touches the store, and an evaluation for
\* the marketplace never does: the same quote can still be claimed once.
OnlyDecidedSpend == \A k \in Keys : winner[k] # None => SpentRightly(k)

\* An honest quote, by a clock off by no more than is tolerated, before any window closes.
HonestAt(q, now) ==
    /\ q.flaw = None
    /\ q.negotiatedAt - q.madeAt \in -Tolerance..Tolerance
    /\ q.negotiatedAt - q.madeAt <= Skew /\ mandate.estimateAt <= q.madeAt
    /\ q.expiresAt - q.negotiatedAt <= MaxTtl
    /\ q.expiresAt - now >= MinRemaining /\ q.expiresAt <= mandate.permissions
    /\ mandate.permissions - now > Tolerance /\ mandate.permissions - now >= MinRemaining
    /\ \A at \in {q.evidenceAt, mandate.estimateAt} : now + Tolerance - at <= mandate.maxAge
    /\ \A at \in passive : now - at <= MaxPassiveAge

\* The honest quote of an agent whose clock is off by no more than is tolerated, when it
\* is called invalid, was spent before, or failed the preview, or met an operator whose
\* windows close within the drift, or whose estimate is dated after it: no other step of
\* validation turns it away.
HonestIsNotRefused ==
    \A a \in Attempts :
        LET me == attempt[a]
        IN  me.outcome = "invalid" /\ me.quote # None /\ HonestAt(me.quote, me.endedAt)
            => me.code \in {"PREVIEW_GATE_REJECTED", "REPLAY_DETECTED"}

\* Nothing an attempt does to the store is more than ReplayClaim lets its callers do.
KeepsToTheStore == \A k \in Keys : Store(k)!CNext \/ UNCHANGED <<winner[k], answer[k]>>

=============================================================================
