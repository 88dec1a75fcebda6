-------------------------- MODULE MCActivationOffer --------------------------
(***************************************************************************)
(* Small instances of what spends a quote: the offer of an activation, and *)
(* the validation of a quote by its trust entry.  They share no state here:*)
(* scene names the one that runs, and the variables of the other rest.     *)
(***************************************************************************)
EXTENDS ActivationOffer, TLC

CONSTANTS
    Attempts, Modes, Remaining, Tolerance, Skew, MaxPassiveAge, MaxTtl,    \* of validations
    Mandates, Passives, Deadlines, Quotes, Flaws, From, MaxTime, MaxMade

VARIABLES
    scene,
    time, mandate, passive, signed, attempt, winner, answer    \* validation

validating == <<time, mandate, passive, signed, attempt, winner, answer>>

-----------------------------------------------------------------------------
(* Offers.  Two sets of options; the deadline of the second leaves less    *)
(* than the quote does, and its job ends too early for the longest window. *)
MCOptions == {[deadline |-> 8, jobExpiresAt |-> 12, owner |-> "buyer"],
              [deadline |-> 7, jobExpiresAt |-> 9, owner |-> "buyer"]}

Symmetry == Permutations(Calls) \cup Permutations(Attempts)

-----------------------------------------------------------------------------
(* Validation.  One attempt under every window of mandate, report, plan and*)
(* quote, with what else may be wrong; and a race for the quotes of one    *)
(* agent who makes no mistake, under one mandate and in less time.         *)
Dates(ahead, lag, ttl) == [ahead |-> ahead, lag |-> lag, ttl |-> ttl]
Mandate(expires, permissions, estimateAt, maxAge) ==
    [expires |-> expires, permissions |-> permissions, estimateAt |-> estimateAt,
     maxAge |-> maxAge]
MCMandates == {Mandate(12, 12, 4, 6), Mandate(9, 8, 2, 9), Mandate(12, 12, 3, 2)}
MCPassives == {{3, 2}, {3, 4}}
MCQuotes == {Dates(0, 1, 3), Dates(1, 0, 4), Dates(2, 1, 4), Dates(-1, 2, 5), Dates(0, 0, 6)}
MCFlaws == {None, "mandate", "price", "signature"}

Validation == INSTANCE TrustedQuote WITH
    MinRemaining <- Remaining, Start <- From, MaxQuotes <- MaxMade
ASSUME ValidationAssumption == Validation!QuoteAssumption

\* One of the attempts only.
Alone == \A a, b \in Attempts : attempt[a].step # "idle" /\ attempt[b].step # "idle" => a = b

\* Several attempts, with quotes that no look at them refuses.
Race ==
    /\ time <= 5 /\ mandate = Mandate(9, 8, 2, 9) /\ passive = {3, 2}
    /\ \A a \in Attempts : attempt[a].deadline \in {0, 5}
    /\ \A q \in signed : /\ q.flaw = None /\ q.negotiatedAt - q.madeAt \in {0, 1}
                         /\ q.expiresAt - q.negotiatedAt < 5

\* Either scene goes through its own part of what the validations may do.
InScene == IF scene = "race" THEN Race ELSE Alone

-----------------------------------------------------------------------------
(* One scene runs, the other rests.                                        *)
RestValidation ==
    /\ time = None /\ mandate = None /\ passive = None /\ signed = None
    /\ attempt = None /\ winner = None /\ answer = None

MCInit ==
    /\ Init
    /\ \/ scene = "offer" /\ RestValidation
       \/ scene \in {"windows", "race"} /\ Validation!Init /\ InScene

MCNext ==
    /\ UNCHANGED scene
    /\ \/ scene = "offer" /\ Next /\ UNCHANGED validating
       \/ scene # "offer" /\ Validation!Next /\ InScene' /\ UNCHANGED vars

MCSpec == MCInit /\ [][MCNext]_<<vars, scene, validating>>

-----------------------------------------------------------------------------
(* The properties of the validation, in the scenes it runs in.             *)

\* The scenes in which quotes are validated.
Validating == scene # "offer"

\* What the state of the validation may be, whichever runs.
ScenesTypeOK == Validating => Validation!TypeOK

\* A quote that passed was bound to the mandate and open in every window at the very time
\* it was decided, however long the signature and the preview took (validateTrustedQuote).
GoodWasInTime == Validating => Validation!GoodWasInTime

\* The honest quote of an agent whose clock is off by no more than is tolerated is turned
\* away only by the preview, or since it was spent before.
HonestIsNotRefused == Validating => Validation!HonestIsNotRefused

\* However many attempts hold one quote, at most one of them is told it is valid.
OneValidPerQuote == Validating => Validation!OneValidPerQuote

\* Only an attempt that decided for its quote touches the store, and an evaluation for the
\* marketplace never does.
OnlyDecidedSpend == Validating => Validation!OnlyDecidedSpend

\* Nothing an attempt does to the store is more than ReplayClaim lets its callers do.
SpendsAsPromised == [][Validating => Validation!KeepsToTheStore]_<<scene, winner, answer>>

\* A validation calls a quote valid for one attempt at most, only in time and after all else
\* was decided, and never turns an honest agent away.
ValidationsSpendOnce ==
    /\ ScenesTypeOK
    /\ GoodWasInTime
    /\ HonestIsNotRefused
    /\ OneValidPerQuote
    /\ OnlyDecidedSpend
=============================================================================
