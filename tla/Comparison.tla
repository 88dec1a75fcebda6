----------------------------- MODULE Comparison -----------------------------
(***************************************************************************)
(* One comparison, from a caller to the page: the marketplace API          *)
(* (apps/marketplace-api: routes.ts, core.ts, display.ts) asks the core    *)
(* about each attestation alone and then about those that passed, and the  *)
(* interface (apps/marketplace-ui) posts the set the API offers it and     *)
(* shows the answer.  The core is MarketplaceEvaluation; it reads its      *)
(* clock at every call, and seconds pass between the calls.                *)
(***************************************************************************)
EXTENDS MarketplaceEvaluation, TLC

CONSTANTS
    QuoteRank,       \* the order of the candidates' quote ids
    MaxSubmitted,    \* bound on the attestations of one request
    None

ComparisonAssumption ==
    /\ QuoteRank \in [Candidates -> Nat] /\ MaxSubmitted \in Nat
    /\ \A c, d \in Candidates : c # d => QuoteRank[c] # QuoteRank[d]

VARIABLES
    call,      \* the request being answered: [wires, began, accepted, rejected], or None
    answer     \* the response: [status, body, wires, began], or None

comparisonVars == <<vars, call, answer>>

\* What a request may be: a body that is not one, a mandate that is not one, or neither.
Requests == {"unreadable", "malformed mandate", "fine"}

-----------------------------------------------------------------------------
(* The core's answer to one call, as evaluator.evaluate meets it.          *)

\* The code of the first rule a call breaks, or None.
Fault(m, wires, now) ==
    IF Acceptable(m, wires, now) THEN None
    ELSE IF Len(wires) > MaxCandidates THEN "CANDIDATE_LIMIT_EXCEEDED"
    ELSE IF now < m.createdAt \/ now <= 0 THEN "EVALUATED_AT_BEFORE_MANDATE"
    ELSE IF \E i \in DOMAIN wires : ~Verifies(wires[i], now) THEN "ATTESTATION_REJECTED"
    ELSE "DUPLICATE_CANDIDATE"

\* The body of a problem, by the path of each of its texts.
Problem(code, detail) == (<<"error", "code">> :> code) @@ (<<"error", "detail">> :> detail)

-----------------------------------------------------------------------------
(* The view.                                                               *)

\* The score over the half of the weights that vary, rounded.
Displayed(decision) ==
    IF Eligible(decision) THEN (2 * (decision.total - 50 * Bps) + 50) \div 100 ELSE -1

\* Eligible first, the higher score first, then by quote id.
Above(a, b) ==
    \/ Eligible(a) /\ ~Eligible(b)
    \/ (Eligible(a) <=> Eligible(b)) /\ Displayed(a) > Displayed(b)
    \/ /\ (Eligible(a) <=> Eligible(b)) /\ Displayed(a) = Displayed(b)
       /\ QuoteRank[a.candidate] < QuoteRank[b.candidate]

\* The view of no result is dated to the call.
NoResult == [at |-> Evaluated, decisions |-> <<>>, ranking |-> <<>>]
View(result, rejected) ==
    [at |-> result.at, candidates |-> Sorted(result.decisions, Above),
     ranking |-> result.ranking, unverified |-> rejected]

-----------------------------------------------------------------------------
(* POST /v1/evaluate.                                                      *)

Respond(status, body, wires, began) ==
    /\ call' = None
    /\ answer' = [status |-> status, body |-> body, wires |-> wires, began |-> began]
    /\ UNCHANGED vars

\* The body is read and parsed, and the mandate by the core's schema.
Post(request, wires) ==
    /\ call = None /\ answer = None
    /\ CASE request = "unreadable" \/ wires = <<>> ->
                Respond(400, Problem("REQUEST_INVALID", "the body"), wires, Evaluated)
         [] request = "malformed mandate" /\ wires # <<>> ->
                Respond(422, Problem("MANDATE_INVALID", "the mandate"), wires, Evaluated)
         [] OTHER -> /\ call' = [wires |-> wires, began |-> Evaluated,
                                 accepted |-> <<>>, rejected |-> <<>>]
                     /\ UNCHANGED <<vars, answer>>

Classified(c) == Len(c.accepted) + Len(c.rejected)

\* Mutant: the core is asked about all of them at once.
Mutant_OnePass ==
    /\ call # None /\ Classified(call) < Len(call.wires)
    /\ call' = [call EXCEPT !.accepted = [i \in DOMAIN call.wires |-> i]]
    /\ UNCHANGED <<vars, answer>>

\* Pass 1: the next attestation, alone.
Classify ==
    /\ call # None /\ Classified(call) < Len(call.wires)
    /\ LET index == Classified(call) + 1
           code == Fault(mandate, <<call.wires[index]>>, Evaluated)
       IN  call' = IF code = None THEN [call EXCEPT !.accepted = Append(@, index)]
                   ELSE [call EXCEPT !.rejected = Append(@, [index |-> index, code |-> code])]
    /\ UNCHANGED <<vars, answer>>

Survivors(c) == [i \in DOMAIN c.accepted |-> c.wires[c.accepted[i]]]

\* Mutant: what passed alone is ranked without a second look.
Mutant_PassedOnce ==
    /\ call # None /\ Classified(call) = Len(call.wires)
    /\ Respond(200, View(IF call.accepted = <<>> THEN NoResult
                         ELSE Result(mandate, Survivors(call), Evaluated), call.rejected),
               call.wires, call.began)

\* Mutant: once some are ranked, the rejected ones are not mentioned.
Mutant_WithoutReasons ==
    /\ call # None /\ Classified(call) = Len(call.wires)
    /\ LET code == Fault(mandate, Survivors(call), Evaluated)
       IN  IF call.accepted = <<>>
           THEN Respond(200, View(NoResult, call.rejected), call.wires, call.began)
           ELSE IF code # None THEN Respond(422, Problem(code, "the set"), call.wires, call.began)
           ELSE Respond(200, View(Result(mandate, Survivors(call), Evaluated), <<>>),
                        call.wires, call.began)

\* Pass 2: those that passed, together.
Rank ==
    /\ call # None /\ Classified(call) = Len(call.wires)
    /\ LET code == Fault(mandate, Survivors(call), Evaluated)
       IN  IF call.accepted = <<>>
           THEN Respond(200, View(NoResult, call.rejected), call.wires, call.began)
           ELSE IF code # None THEN Respond(422, Problem(code, "the set"), call.wires, call.began)
           ELSE Respond(200, View(Result(mandate, Survivors(call), Evaluated), call.rejected),
                        call.wires, call.began)

-----------------------------------------------------------------------------
(* The interface.                                                          *)

\* Mutant: only what is the same to the letter counts as repeated.
Mutant_SameWire(wires) ==
    LET first(i) == \A j \in 1..(i - 1) : wires[j] # wires[i]
    IN  [k \in 1..Cardinality({i \in DOMAIN wires : first(i)}) |->
            wires[CHOOSE i \in DOMAIN wires :
                    first(i) /\ Cardinality({j \in 1..i : first(j)}) = k]]

\* loadFixtureIndex: of the vectors of one candidate, the first.
ComparisonSet(wires) ==
    LET first(i) == \A j \in 1..(i - 1) :
                        wires[j].payload.candidate # wires[i].payload.candidate
    IN  [k \in 1..Cardinality({i \in DOMAIN wires : first(i)}) |->
            wires[CHOOSE i \in DOMAIN wires :
                    first(i) /\ Cardinality({j \in 1..i : first(j)}) = k]]

-----------------------------------------------------------------------------
Submissions == UNION {[1..n -> issued] : n \in 0..MaxSubmitted}

ComparisonInit == Init /\ call = None /\ answer = None

\* The world before a call: attestations are issued, time passes.
Elsewhere(payloads, keys) ==
    /\ answer = None
    /\ Tick \/ (call = None /\ Issues(payloads, keys))
    /\ UNCHANGED <<call, answer>>

\* A caller of the API, or the interface with the set it was offered.
Ask == \E wires \in Submissions :
    \/ \E request \in Requests : Post(request, wires)
    \/ Post("fine", ComparisonSet(wires))

ComparisonNext == Elsewhere(Payloads, Keys) \/ Ask \/ Classify \/ Rank

ComparisonSpec == ComparisonInit /\ [][ComparisonNext]_comparisonVars

-----------------------------------------------------------------------------
(* Properties.                                                             *)

Answered(status) == answer # None /\ answer.status = status
Shown == {answer.body.candidates[i].quote : i \in DOMAIN answer.body.candidates}
Refused == {answer.body.unverified[i].index : i \in DOMAIN answer.body.unverified}

\* core.ts, buildComparisonView: every attestation that was submitted is in the answer once,
\* among the candidates or among the rejected with its code.
EveryAttestationIsAccounted ==
    Answered(200) =>
        /\ Len(answer.body.candidates) + Len(answer.body.unverified) = Len(answer.wires)
        /\ Shown = {answer.wires[i] : i \in DOMAIN answer.wires \ Refused}

\* Pass 2 verifies again: whatever is shown as a candidate verifies at the one second the
\* view is dated to, however long the passes took.
ShownIsVerified ==
    Answered(200) => \A quote \in Shown : Verifies(quote, answer.body.at)

\* Pass 1 is there so that one attestation never costs the others their answer: within one
\* second, a set of different candidates gets its comparison whatever is wrong with some.
OneBadSparesTheRest ==
    /\ answer # None /\ answer.began = Evaluated
    /\ answer.wires # <<>> /\ Len(answer.wires) <= MaxCandidates
    /\ \A i, j \in DOMAIN answer.wires :
        i # j => answer.wires[i].payload.candidate # answer.wires[j].payload.candidate
    => answer.status # 422 \/ answer.body = Problem("MANDATE_INVALID", "the mandate")

\* routes.ts: the comparison set can be posted as it is; no two of it are one candidate.
ComparisonSetIsLegal ==
    call = None /\ answer = None => \A wires \in Submissions :
        LET set == ComparisonSet(wires)
        IN  /\ \A i, j \in DOMAIN set :
                i # j => set[i].payload.candidate # set[j].payload.candidate
            /\ {set[i].payload.candidate : i \in DOMAIN set}
                = {wires[i].payload.candidate : i \in DOMAIN wires}

=============================================================================
