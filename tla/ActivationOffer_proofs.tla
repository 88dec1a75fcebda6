----------------------- MODULE ActivationOffer_proofs -----------------------
(***************************************************************************)
(* Proofs about ActivationOffer, for any number of calls, quotes and       *)
(* options and any windows: of the calls that hold one quote one has its   *)
(* intent printed; what is printed is what was asked for and is open in    *)
(* every window; and no quote is spent on finding out that it cannot be    *)
(* activated.  Then about TrustedQuote, for any number of attempts, quotes *)
(* and windows: a quote is called valid once and in time, no honest agent  *)
(* is turned away, and the store is used as ReplayClaim promises.          *)
(***************************************************************************)
EXTENDS MCActivationOffer, FiniteSetTheorems, TLAPS

Steps == {"idle", "passed", "prepared", "staged", "claimed", "recovered", "done"}
Outcomes == {"stored", "valid", "invalid", "inconclusive", "killed", None}

QuoteRecords == [negotiatedAt : Int, expiresAt : Int, free : BOOLEAN]
CallRecords == [step : Steps, quote : Numbers \cup {0}, options : Options \cup {None},
                preview : Int, deployment : Int, snapshot : Calls \cup {None},
                outcome : Outcomes]

Types ==
    /\ height \in Int
    /\ quotes \in Seq(QuoteRecords) /\ Len(quotes) <= MaxQuotes
    /\ call \in [Calls -> CallRecords]
    /\ marker \in [Numbers -> Calls \cup {"plain", None}]
    /\ head \in [Numbers -> Calls \cup {"later", None}]

\* A call that was prepared: its quote is free and was open at its deployment.
Ready(c) ==
    /\ call[c].quote \in Signed /\ quotes[call[c].quote].free
    /\ Open(c, call[c].deployment)

Past(c) == call[c].step \in {"claimed", "recovered"} \/ Stored(c)

\* Whatever a call has got to, it works on a quote that was signed.
Working == \A c \in Calls : call[c].step # "idle" => call[c].quote \in Signed
Prepared == \A c \in Calls : call[c].step \in {"prepared", "staged"} => Ready(c)
Won == \A n \in Numbers : marker[n] \in Calls =>
        /\ call[marker[n]].quote = n /\ Ready(marker[n])
        /\ call[marker[n]].step \in {"claimed", "recovered", "done"}
Bound == \A c \in Calls : Past(c) =>
        call[c].snapshot \in Calls /\ marker[call[c].quote] = call[c].snapshot
Checked == \A c \in Calls : call[c].step = "recovered" \/ Stored(c) =>
        SameTerms(c, call[c].snapshot) /\ Open(call[c].snapshot, call[c].deployment)
Plain == \A c \in Calls : call[c].outcome = "valid" => marker[call[c].quote] = "plain"
Ended == \A c \in Calls : call[c].outcome \in {"stored", "valid"} => call[c].step = "done"

IInv == Types /\ Working /\ Prepared /\ Won /\ Bound /\ Checked /\ Plain /\ Ended

-----------------------------------------------------------------------------
(* What a step leaves as it was.                                           *)

\* What is open, ready or the same of a call depends on three of its fields and on the
\* quote it works on.
LEMMA OpenStable ==
    ASSUME NEW c \in Calls,
           call'[c].quote = call[c].quote, call'[c].options = call[c].options,
           call'[c].preview = call[c].preview,
           quotes'[call[c].quote] = quotes[call[c].quote]
    PROVE  \A b : Open(c, b)' <=> Open(c, b)
  BY DEF Open, ValidUntil

\* A call that keeps those fields and its deployment stays ready, quotes being only added.
LEMMA ReadyStable ==
    ASSUME NEW c \in Calls, Ready(c),
           call'[c].quote = call[c].quote, call'[c].options = call[c].options,
           call'[c].preview = call[c].preview, call'[c].deployment = call[c].deployment,
           quotes'[call[c].quote] = quotes[call[c].quote], Signed \subseteq Signed'
    PROVE  Ready(c)' /\ Open(c, call[c].deployment)'
  BY OpenStable DEF Ready

\* A step of one call that leaves the quotes is a step of no other.
LEMMA OneMoves ==
    ASSUME IInv, NEW c \in Calls, NEW r \in CallRecords, Moves(c, r)
    PROVE  /\ call' \in [Calls -> CallRecords] /\ call'[c] = r
           /\ \A d \in Calls : d # c => call'[d] = call[d]
  BY DEF IInv, Types, Moves

\* The call whose snapshot another holds has itself claimed, for the same quote.
LEMMA HeldByWinner ==
    ASSUME IInv, NEW c \in Calls, Past(c)
    PROVE  /\ call[c].snapshot \in Calls /\ Ready(call[c].snapshot)
           /\ call[call[c].snapshot].quote = call[c].quote
           /\ call[call[c].snapshot].step \in {"claimed", "recovered", "done"}
           /\ call[c].quote \in Numbers
<1>1. call[c].snapshot \in Calls /\ marker[call[c].quote] = call[c].snapshot
  BY DEF IInv, Bound
<1>2. call[c].step # "idle"
  BY DEF IInv, Past, Stored, Ended
<1>3. call[c].quote \in Signed
  BY <1>2 DEF IInv, Working
<1>4. Signed \subseteq Numbers
  BY OfferAssumption DEF IInv, Types, Signed, Numbers
<1>5. call[c].quote \in Numbers
  BY <1>3, <1>4
<1> QED
  BY <1>1, <1>5 DEF IInv, Won

\* A step of a call that keeps its terms disturbs nobody's.
LEMMA Kept ==
    ASSUME IInv, NEW c \in Calls, NEW r \in CallRecords, Moves(c, r), UNCHANGED quotes,
           r.quote = call[c].quote, r.options = call[c].options,
           r.preview = call[c].preview, r.deployment = call[c].deployment,
           call[c].step # "idle"
    PROVE  /\ call' \in [Calls -> CallRecords] /\ call'[c] = r /\ Working'
           /\ \A d \in Calls : d # c => call'[d] = call[d]
           /\ \A d \in Calls : /\ call'[d].quote = call[d].quote
                               /\ call'[d].deployment = call[d].deployment
                               /\ Ready(d)' <=> Ready(d)
           /\ \A d \in Calls : \A b : Open(d, b)' <=> Open(d, b)
           /\ \A d, e \in Calls : SameTerms(d, e)' <=> SameTerms(d, e)
<1>1. /\ call' \in [Calls -> CallRecords] /\ call'[c] = r
      /\ \A d \in Calls : d # c => call'[d] = call[d]
  BY OneMoves
<1>2. \A d \in Calls : /\ call'[d].quote = call[d].quote
                        /\ call'[d].options = call[d].options
                        /\ call'[d].preview = call[d].preview
                        /\ call'[d].deployment = call[d].deployment
  BY <1>1
<1>3. \A d \in Calls : \A b : Open(d, b)' <=> Open(d, b)
  BY <1>2, OpenStable
<1>4. \A d \in Calls : Ready(d)' <=> Ready(d)
  BY <1>2, <1>3 DEF Ready, Signed
<1>5. Working'
  BY <1>1, <1>2 DEF IInv, Working, Signed
<1>6. \A d, e \in Calls : SameTerms(d, e)' <=> SameTerms(d, e)
  BY <1>2 DEF SameTerms
<1> QED
  BY <1>1, <1>2, <1>3, <1>4, <1>5, <1>6

\* What a call must have made sure of for its next step to be one the store stands by.
Justified(c, r) ==
    /\ r.step \in {"prepared", "staged"} => Ready(c)
    /\ r.step \in {"claimed", "recovered"} \/ r.outcome = "stored" =>
        r.snapshot \in Calls /\ marker[call[c].quote] = r.snapshot
    /\ r.step = "recovered" \/ r.outcome = "stored" =>
        SameTerms(c, r.snapshot) /\ Open(r.snapshot, call[c].deployment)
    /\ r.outcome # "valid"
    /\ r.outcome = "stored" => r.step = "done"

\* A justified step that claims nothing keeps the invariant.
LEMMA Onwards ==
    ASSUME IInv, NEW c \in Calls, NEW r \in CallRecords, Moves(c, r),
           UNCHANGED <<height, quotes, marker>>,
           head' \in [Numbers -> Calls \cup {"later", None}],
           r.quote = call[c].quote, r.options = call[c].options,
           r.preview = call[c].preview, r.deployment = call[c].deployment,
           call[c].step # "idle", Justified(c, r),
           call[c].step \in {"claimed", "recovered", "done"} =>
               r.step \in {"claimed", "recovered", "done"}
    PROVE  IInv'
<1>1. /\ call' \in [Calls -> CallRecords] /\ call'[c] = r /\ Working'
      /\ \A d \in Calls : d # c => call'[d] = call[d]
      /\ \A d \in Calls : /\ call'[d].quote = call[d].quote
                           /\ call'[d].deployment = call[d].deployment
                           /\ Ready(d)' <=> Ready(d)
      /\ \A d \in Calls : \A b : Open(d, b)' <=> Open(d, b)
      /\ \A d, e \in Calls : SameTerms(d, e)' <=> SameTerms(d, e)
  BY Kept
<1>2. Types'
  BY <1>1 DEF IInv, Types
<1>3. Prepared'
  BY <1>1 DEF IInv, Prepared, Justified
<1>4. Won'
  BY <1>1 DEF IInv, Won
<1>5. Bound'
  BY <1>1 DEF IInv, Bound, Past, Stored, Justified
<1>6. Checked'
  <2> SUFFICES ASSUME NEW d \in Calls, call'[d].step = "recovered" \/ Stored(d)'
               PROVE  SameTerms(d, call[d].snapshot)'
                      /\ Open(call[d].snapshot, call[d].deployment)'
    BY DEF Checked
  <2>1. call'[d].snapshot \in Calls
    BY <1>5 DEF Bound, Past
  <2>2. PICK e \in Calls : e = call'[d].snapshot
    BY <2>1
  <2>3. PICK b : b = call[d].deployment
    OBVIOUS
  <2>4. SameTerms(d, e) /\ Open(e, b)
    <3>1. CASE d = c
      BY <1>1, <2>2, <2>3, <3>1 DEF Justified, Stored
    <3>2. CASE d # c
      BY <1>1, <2>2, <2>3, <3>2 DEF IInv, Checked, Stored
    <3> QED
      BY <3>1, <3>2
  <2>5. SameTerms(d, e)' /\ Open(e, b)'
    BY <1>1, <2>4
  <2>6. call'[d].deployment = b
    BY <1>1, <2>3
  <2> QED
    BY <2>2, <2>5, <2>6
<1>7. Plain' /\ Ended'
  BY <1>1 DEF IInv, Plain, Ended, Justified
<1> QED
  BY <1>1, <1>2, <1>3, <1>4, <1>5, <1>6, <1>7 DEF IInv

\* A call that has not claimed is nobody's winner: whatever becomes of its terms, what
\* the others hold stays as it was.
LEMMA NobodysWinner ==
    ASSUME IInv, NEW c \in Calls, NEW r \in CallRecords, Moves(c, r), UNCHANGED quotes,
           call[c].step \in {"idle", "passed"}
    PROVE  /\ call' \in [Calls -> CallRecords] /\ call'[c] = r
           /\ \A n \in Numbers : marker[n] # c
           /\ \A d \in Calls : d # c => call'[d] = call[d] /\ (Ready(d)' <=> Ready(d))
           /\ \A d \in Calls : d # c => \A b : Open(d, b)' <=> Open(d, b)
           /\ \A d \in Calls : d # c /\ Past(d) => call[d].snapshot # c
<1>1. /\ call' \in [Calls -> CallRecords] /\ call'[c] = r
      /\ \A d \in Calls : d # c => call'[d] = call[d]
  BY OneMoves
<1>2. \A d \in Calls : d # c => \A b : Open(d, b)' <=> Open(d, b)
  BY <1>1, OpenStable
<1>3. \A d \in Calls : d # c => (Ready(d)' <=> Ready(d))
  BY <1>1, <1>2 DEF Ready, Signed
<1>4. \A n \in Numbers : marker[n] # c
  BY DEF IInv, Won
<1>5. \A d \in Calls : Past(d) => call[d].snapshot # c
  BY HeldByWinner
<1> QED
  BY <1>1, <1>2, <1>3, <1>4, <1>5

\* A step by which such a call gets a quote, or gets ready, or is told of its quote without
\* a claim, keeps the invariant.
LEMMA Beginning ==
    ASSUME IInv, NEW c \in Calls, NEW r \in CallRecords, Moves(c, r),
           UNCHANGED <<height, quotes, head>>, call[c].step \in {"idle", "passed"},
           r.step \in {"passed", "prepared", "done"}, r.outcome # "stored",
           r.quote \in Signed, r.step = "prepared" => Ready(c)',
           r.outcome = "valid" => r.step = "done" /\ marker'[r.quote] = "plain",
           \/ UNCHANGED marker
           \/ \E n \in Numbers : marker[n] = None /\ marker' = [marker EXCEPT ![n] = "plain"]
    PROVE  IInv'
<1>1. /\ call' \in [Calls -> CallRecords] /\ call'[c] = r
      /\ \A n \in Numbers : marker[n] # c
      /\ \A d \in Calls : d # c => call'[d] = call[d] /\ (Ready(d)' <=> Ready(d))
      /\ \A d \in Calls : d # c => \A b : Open(d, b)' <=> Open(d, b)
      /\ \A d \in Calls : d # c /\ Past(d) => call[d].snapshot # c
  BY NobodysWinner
<1>2. /\ marker' \in [Numbers -> Calls \cup {"plain", None}]
      /\ \A n \in Numbers : marker'[n] # marker[n] => marker[n] = None /\ marker'[n] = "plain"
  BY DEF IInv, Types
<1>3. "plain" \notin Calls /\ None \notin Calls /\ None # "plain"
  BY OfferAssumption
<1>4. Signed \subseteq Numbers
  BY OfferAssumption DEF IInv, Types, Signed, Numbers
<1>5. Types' /\ Working' /\ Prepared' /\ Ended'
  BY <1>1, <1>2 DEF IInv, Types, Working, Prepared, Ended, Signed
<1>6. Won'
  BY <1>1, <1>2, <1>3 DEF IInv, Won
<1>7. \A d \in Calls : Past(d)' => d # c /\ Past(d)
  BY <1>1 DEF Past, Stored
<1>8. Bound'
  BY <1>1, <1>2, <1>3, <1>7, HeldByWinner DEF IInv, Bound
<1>9. Checked'
  <2> SUFFICES ASSUME NEW d \in Calls, call'[d].step = "recovered" \/ Stored(d)'
               PROVE  SameTerms(d, call[d].snapshot)'
                      /\ Open(call[d].snapshot, call[d].deployment)'
    BY DEF Checked
  <2>1. d # c /\ Past(d) /\ call'[d] = call[d]
    BY <1>1, <1>7 DEF Past
  <2>2. PICK e \in Calls : e = call[d].snapshot /\ e # c
    BY <1>1, <2>1, HeldByWinner
  <2>3. PICK b : b = call[d].deployment
    OBVIOUS
  <2>4. SameTerms(d, e) /\ Open(e, b)
    BY <2>1, <2>2, <2>3 DEF IInv, Checked, Stored
  <2>5. SameTerms(d, e)' /\ Open(e, b)'
    BY <1>1, <2>1, <2>2, <2>4 DEF SameTerms
  <2> QED
    BY <2>1, <2>2, <2>3, <2>5
<1>10. Plain'
  <2> SUFFICES ASSUME NEW d \in Calls, call'[d].outcome = "valid"
               PROVE  marker'[call'[d].quote] = "plain"
    BY DEF Plain
  <2>1. CASE d = c
    BY <1>1, <2>1
  <2>2. CASE d # c
    <3>1. call'[d] = call[d] /\ marker[call[d].quote] = "plain" /\ call[d].step # "idle"
      BY <1>1, <2>2 DEF IInv, Plain, Ended
    <3>2. call[d].quote \in Numbers
      BY <1>4, <3>1 DEF IInv, Working
    <3> QED
      BY <1>2, <1>3, <3>1, <3>2
  <2> QED
    BY <2>1, <2>2
<1> QED
  BY <1>5, <1>6, <1>8, <1>9, <1>10 DEF IInv

-----------------------------------------------------------------------------
(* The steps.                                                              *)

\* Giving up keeps the invariant.
LEMMA Unclaimed ==
    ASSUME IInv, NEW c \in Calls, Unavailable(c), call[c].step \notin {"idle", "done"}
    PROVE  IInv'
<1> DEFINE r == [call[c] EXCEPT !.step = "done", !.outcome = "inconclusive"]
<1>1. r \in CallRecords /\ Moves(c, r)
  BY DEF IInv, Types, CallRecords, Steps, Outcomes, Unavailable
<1>2. Justified(c, r)
  BY <1>1 DEF Justified, IInv, Types, CallRecords
<1> QED
  BY <1>1, <1>2, Onwards DEF Unavailable, IInv, Types, CallRecords

\* A call begins, on a quote that was signed.
LEMMA PreviewKeeps ==
    ASSUME IInv, NEW c \in Calls, Preview(c)
    PROVE  IInv'
<1>1. PICK n \in Signed, o \in Options, b \in Confirmed :
        Goes(c, [call[c] EXCEPT !.step = "passed", !.quote = n, !.options = o, !.preview = b])
  BY DEF Preview
<1> DEFINE r == [call[c] EXCEPT !.step = "passed", !.quote = n, !.options = o, !.preview = b]
<1>2. b \in Int /\ n \in Numbers
  BY OfferAssumption DEF IInv, Types, Confirmed, Signed, Numbers
<1>3. r \in CallRecords /\ r.step = "passed" /\ r.quote = n /\ r.outcome = call[c].outcome
  BY <1>2 DEF IInv, Types, CallRecords, Steps
<1>4. call[c].outcome \notin {"stored", "valid"} /\ call[c].step = "idle"
  BY DEF IInv, Ended, Preview, At
<1> QED
  BY <1>1, <1>3, <1>4, Beginning DEF Goes

\* The quote of a prepared call is free and open at the call's deployment.
LEMMA PrepareKeeps ==
    ASSUME IInv, NEW c \in Calls, Prepare(c)
    PROVE  IInv'
<1>1. call[c].step = "passed"
  BY DEF Prepare, At
<1>2. CASE Unavailable(c)
  BY <1>1, <1>2, Unclaimed
<1>3. ASSUME NEW block \in Confirmed, quotes[call[c].quote].free, Open(c, block),
             Goes(c, [call[c] EXCEPT !.step = "prepared", !.deployment = block])
      PROVE  IInv'
  <2> DEFINE r == [call[c] EXCEPT !.step = "prepared", !.deployment = block]
  <2>1. block \in Int
    BY OfferAssumption DEF IInv, Types, Confirmed
  <2>2. r \in CallRecords /\ r.step = "prepared" /\ r.quote = call[c].quote
        /\ r.options = call[c].options /\ r.preview = call[c].preview
        /\ r.deployment = block /\ r.outcome = call[c].outcome
    BY <2>1 DEF IInv, Types, CallRecords, Steps
  <2>3. call[c].outcome \notin {"stored", "valid"} /\ call[c].quote \in Signed
    BY <1>1 DEF IInv, Ended, Working
  <2>4. call'[c] = r /\ UNCHANGED quotes
    BY <1>3, <2>2, OneMoves DEF Goes
  <2>5. \A b : Open(c, b)' <=> Open(c, b)
    BY <2>2, <2>4, OpenStable
  <2>6. Open(c, block)'
    BY <1>3, <2>5
  <2>7. Ready(c)'
    BY <1>3, <2>2, <2>3, <2>4, <2>6 DEF Ready, Signed
  <2> QED
    BY <1>1, <1>3, <2>2, <2>3, <2>7, Beginning DEF Goes
<1> QED
  BY <1>2, <1>3 DEF Prepare

\* Whose snapshot is found is the winner's.
LEMMA InspectKeeps ==
    ASSUME IInv, NEW c \in Calls, Inspect(c)
    PROVE  IInv'
<1>1. call[c].step = "prepared" /\ Ready(c) /\ call[c].quote \in Numbers
      /\ call[c].outcome \notin {"stored", "valid"}
  BY OfferAssumption
  DEF IInv, Prepared, Inspect, At, Ready, Types, Signed, Numbers, Ended
<1>2. CASE Unavailable(c)
  BY <1>1, <1>2, Unclaimed
<1>3. CASE Goes(c, [call[c] EXCEPT !.step = "staged"])
  <2> DEFINE r == [call[c] EXCEPT !.step = "staged"]
  <2>1. r \in CallRecords /\ Justified(c, r)
    BY <1>1 DEF IInv, Types, CallRecords, Steps, Justified
  <2> QED
    BY <1>1, <1>3, <2>1, Onwards DEF Goes, IInv, Types, CallRecords
<1>4. CASE /\ marker[call[c].quote] \notin {None, "plain"}
           /\ Goes(c, [call[c] EXCEPT !.step = "claimed",
                                      !.snapshot = marker[call[c].quote]])
  <2> DEFINE r == [call[c] EXCEPT !.step = "claimed", !.snapshot = marker[call[c].quote]]
  <2>1. marker[call[c].quote] \in Calls
    BY <1>1, <1>4 DEF IInv, Types
  <2>2. r \in CallRecords /\ Justified(c, r)
    BY <1>1, <2>1 DEF IInv, Types, CallRecords, Steps, Justified
  <2> QED
    BY <1>1, <1>4, <2>2, Onwards DEF Goes, IInv, Types, CallRecords
<1> QED
  BY <1>2, <1>3, <1>4 DEF Inspect

\* What is recovered was compared and found open.
LEMMA RecoverKeeps ==
    ASSUME IInv, NEW c \in Calls, Recover(c)
    PROVE  IInv'
<1>1. call[c].step = "claimed" /\ call[c].outcome \notin {"stored", "valid"}
      /\ call[c].snapshot \in Calls /\ marker[call[c].quote] = call[c].snapshot
  BY DEF IInv, Bound, Past, Recover, At, Ended
<1>2. CASE Unavailable(c)
  BY <1>1, <1>2, Unclaimed
<1>3. CASE /\ SameTerms(c, call[c].snapshot) /\ Open(call[c].snapshot, call[c].deployment)
           /\ Goes(c, [call[c] EXCEPT !.step = "recovered"])
  <2> DEFINE r == [call[c] EXCEPT !.step = "recovered"]
  <2>1. r \in CallRecords /\ Justified(c, r)
    BY <1>1, <1>3 DEF IInv, Types, CallRecords, Steps, Justified
  <2> QED
    BY <1>1, <1>3, <2>1, Onwards DEF Goes, IInv, Types, CallRecords
<1> QED
  BY <1>2, <1>3 DEF Recover

\* What is installed is what was recovered.
LEMMA InstallKeeps ==
    ASSUME IInv, NEW c \in Calls, Install(c)
    PROVE  IInv'
<1>1. call[c].step = "recovered"
      /\ call[c].snapshot \in Calls /\ marker[call[c].quote] = call[c].snapshot
      /\ SameTerms(c, call[c].snapshot) /\ Open(call[c].snapshot, call[c].deployment)
  BY DEF IInv, Bound, Past, Checked, Install, At
<1>2. CASE Unavailable(c)
  BY <1>1, <1>2, Unclaimed
<1>3. CASE /\ head' = [head EXCEPT ![call[c].quote] = call[c].snapshot]
           /\ Moves(c, [call[c] EXCEPT !.step = "done", !.outcome = "stored"])
           /\ UNCHANGED <<height, quotes, marker>>
  <2> DEFINE r == [call[c] EXCEPT !.step = "done", !.outcome = "stored"]
  <2>1. r \in CallRecords /\ Justified(c, r)
    BY <1>1 DEF IInv, Types, CallRecords, Steps, Outcomes, Justified
  <2>2. head' \in [Numbers -> Calls \cup {"later", None}]
    BY <1>1, <1>3 DEF IInv, Types
  <2> QED
    BY <1>1, <1>3, <2>1, <2>2, Onwards DEF IInv, Types, CallRecords
<1> QED
  BY <1>2, <1>3 DEF Install

\* An end between two steps disturbs nothing.
LEMMA DieKeeps ==
    ASSUME IInv, NEW c \in Calls, Die(c)
    PROVE  IInv'
<1> DEFINE r == [call[c] EXCEPT !.step = "done", !.outcome = "killed"]
<1>1. r \in CallRecords /\ Justified(c, r)
  BY DEF IInv, Types, CallRecords, Steps, Outcomes, Justified
<1> QED
  BY <1>1, Onwards DEF Die, Goes, IInv, Types, CallRecords

\* The first to claim is ready, and nobody stood by another for its quote.
LEMMA ClaimKeeps ==
    ASSUME IInv, NEW c \in Calls, Claim(c)
    PROVE  IInv'
<1>1. call[c].step = "staged" /\ Ready(c) /\ call[c].quote \in Numbers
      /\ call[c].outcome \notin {"stored", "valid"}
  BY OfferAssumption
  DEF IInv, Prepared, Claim, At, Ready, Types, Signed, Numbers, Ended
<1>2. CASE Unavailable(c)
  BY <1>1, <1>2, Unclaimed
<1>3. CASE /\ marker[call[c].quote] \notin {None, "plain"}
           /\ Goes(c, [call[c] EXCEPT !.step = "claimed",
                                      !.snapshot = marker[call[c].quote]])
  <2> DEFINE r == [call[c] EXCEPT !.step = "claimed", !.snapshot = marker[call[c].quote]]
  <2>1. marker[call[c].quote] \in Calls
    BY <1>1, <1>3 DEF IInv, Types
  <2>2. r \in CallRecords /\ Justified(c, r)
    BY <1>1, <2>1 DEF IInv, Types, CallRecords, Steps, Justified
  <2> QED
    BY <1>1, <1>3, <2>2, Onwards DEF Goes, IInv, Types, CallRecords
<1>4. CASE /\ marker[call[c].quote] = None
           /\ marker' = [marker EXCEPT ![call[c].quote] = c]
           /\ Moves(c, [call[c] EXCEPT !.step = "claimed", !.snapshot = c])
           /\ UNCHANGED <<height, quotes, head>>
  <2> DEFINE r == [call[c] EXCEPT !.step = "claimed", !.snapshot = c]
  <2>1. r \in CallRecords /\ r.step = "claimed" /\ r.snapshot = c
        /\ r.outcome = call[c].outcome
        /\ r.quote = call[c].quote /\ r.options = call[c].options
        /\ r.preview = call[c].preview /\ r.deployment = call[c].deployment
        /\ Moves(c, r)
    <3>1. call[c] \in CallRecords /\ "claimed" \in Steps
      BY DEF IInv, Types, Steps
    <3> QED
      BY <1>4, <3>1 DEF CallRecords
  <2> HIDE DEF r
  <2>2. /\ call' \in [Calls -> CallRecords] /\ call'[c] = r /\ Working'
        /\ \A d \in Calls : d # c => call'[d] = call[d]
        /\ \A d \in Calls : /\ call'[d].quote = call[d].quote
                             /\ call'[d].deployment = call[d].deployment
                             /\ Ready(d)' <=> Ready(d)
        /\ \A d \in Calls : \A b : Open(d, b)' <=> Open(d, b)
        /\ \A d, e \in Calls : SameTerms(d, e)' <=> SameTerms(d, e)
    BY <1>1, <1>4, <2>1, Kept
  <2>3. /\ marker'[call[c].quote] = c
        /\ \A n \in Numbers : n # call[c].quote => marker'[n] = marker[n]
        /\ marker' \in [Numbers -> Calls \cup {"plain", None}]
    BY <1>1, <1>4 DEF IInv, Types
  <2>4. None \notin Calls /\ None # "plain"
    BY OfferAssumption
  <2>5. \A d \in Calls : d # c /\ Past(d)' => Past(d) /\ call[d].quote # call[c].quote
    BY <1>4, <2>2, <2>4, HeldByWinner DEF Past, Stored, IInv, Bound
  <2>6. Types' /\ Prepared' /\ Ended'
    BY <1>1, <1>4, <2>1, <2>2, <2>3 DEF IInv, Types, Prepared, Ended
  <2>7. Won'
    BY <1>1, <2>1, <2>2, <2>3 DEF IInv, Won
  <2>8. Bound'
    <3> SUFFICES ASSUME NEW d \in Calls, Past(d)'
                 PROVE  call'[d].snapshot \in Calls
                        /\ marker'[call'[d].quote] = call'[d].snapshot
      BY DEF Bound
    <3>1. CASE d = c
      BY <2>1, <2>2, <2>3, <3>1
    <3>2. CASE d # c
      BY <2>2, <2>3, <2>5, <3>2, HeldByWinner DEF IInv, Bound
    <3> QED
      BY <3>1, <3>2
  <2>9. Checked'
    <3> SUFFICES ASSUME NEW d \in Calls, call'[d].step = "recovered" \/ Stored(d)'
                 PROVE  SameTerms(d, call[d].snapshot)'
                        /\ Open(call[d].snapshot, call[d].deployment)'
      BY DEF Checked
    <3>1. d # c /\ call'[d] = call[d]
      BY <1>1, <2>1, <2>2 DEF Stored
    <3>2. PICK e \in Calls : e = call[d].snapshot
      BY <2>5, <3>1, HeldByWinner DEF Past
    <3>3. PICK b : b = call[d].deployment
      OBVIOUS
    <3>4. SameTerms(d, e) /\ Open(e, b)
      BY <3>1, <3>2, <3>3 DEF IInv, Checked, Stored
    <3>5. SameTerms(d, e)' /\ Open(e, b)'
      BY <2>2, <3>4
    <3> QED
      BY <3>1, <3>2, <3>3, <3>5
  <2>10. Plain'
    <3> SUFFICES ASSUME NEW d \in Calls, call'[d].outcome = "valid"
                 PROVE  marker'[call'[d].quote] = "plain"
      BY DEF Plain
    <3>1. d # c /\ call'[d] = call[d] /\ marker[call[d].quote] = "plain"
      BY <1>1, <2>1, <2>2 DEF IInv, Plain
    <3>2. call[d].quote \in Signed
      BY <3>1 DEF IInv, Ended, Working
    <3>3. Signed \subseteq Numbers
      BY OfferAssumption DEF IInv, Types, Signed, Numbers
    <3> QED
      BY <1>4, <2>3, <2>4, <3>1, <3>2, <3>3
  <2> QED
    BY <2>2, <2>6, <2>7, <2>8, <2>9, <2>10 DEF IInv
<1> QED
  BY <1>2, <1>3, <1>4 DEF Claim

\* A plain validation claims nothing for an activation.
LEMMA ValidateOnlyKeeps ==
    ASSUME IInv, NEW c \in Calls, ValidateOnly(c)
    PROVE  IInv'
<1>1. PICK n \in Signed :
        \/ /\ marker[n] = None /\ marker' = [marker EXCEPT ![n] = "plain"]
           /\ Moves(c, [call[c] EXCEPT !.step = "done", !.quote = n, !.outcome = "valid"])
        \/ /\ Moves(c, [call[c] EXCEPT !.step = "done", !.quote = n, !.outcome = "invalid"])
           /\ UNCHANGED marker
  BY DEF ValidateOnly
<1>2. n \in Numbers /\ call[c].step = "idle" /\ UNCHANGED <<height, quotes, head>>
  BY OfferAssumption DEF IInv, Types, Signed, Numbers, ValidateOnly, At
<1>3. ASSUME NEW o \in {"valid", "invalid"},
             Moves(c, [call[c] EXCEPT !.step = "done", !.quote = n, !.outcome = o]),
             \/ UNCHANGED marker /\ o = "invalid"
             \/ marker[n] = None /\ marker' = [marker EXCEPT ![n] = "plain"]
      PROVE  IInv'
  <2> DEFINE r == [call[c] EXCEPT !.step = "done", !.quote = n, !.outcome = o]
  <2>1. r \in CallRecords /\ r.step = "done" /\ r.quote = n /\ r.outcome = o
    BY <1>2 DEF IInv, Types, CallRecords, Steps, Outcomes
  <2>2. o = "valid" => marker'[n] = "plain"
    BY <1>2, <1>3 DEF IInv, Types
  <2> QED
    BY <1>2, <1>3, <2>1, <2>2, Beginning
<1> QED
  BY <1>1, <1>3

\* A quote more changes nothing for those that were signed before.
LEMMA SignKeeps ==
    ASSUME IInv, Sign
    PROVE  IInv'
<1>1. PICK ttl \in Ttls, free \in BOOLEAN :
        quotes' = Append(quotes, [negotiatedAt |-> height, expiresAt |-> height + ttl,
                                  free |-> free])
  BY DEF Sign
<1>2. /\ quotes' \in Seq(QuoteRecords) /\ Len(quotes') <= MaxQuotes
      /\ Signed \subseteq Signed' /\ \A n \in Signed : quotes'[n] = quotes[n]
  <2> DEFINE q == [negotiatedAt |-> height, expiresAt |-> height + ttl, free |-> free]
  <2>1. q \in QuoteRecords
    BY OfferAssumption DEF IInv, Types, QuoteRecords
  <2> HIDE DEF q
  <2>2. quotes \in Seq(QuoteRecords) /\ Len(quotes) < MaxQuotes /\ MaxQuotes \in Nat
    BY OfferAssumption DEF IInv, Types, Sign
  <2>3. quotes' = Append(quotes, q)
    BY <1>1 DEF q
  <2> QED
    BY <2>1, <2>2, <2>3 DEF Signed
<1>3. UNCHANGED <<height, marker, head, call>>
  BY DEF Sign
<1>4. \A d \in Calls : call[d].quote \in Signed =>
        (Ready(d) => Ready(d)') /\ \A b : Open(d, b)' <=> Open(d, b)
  BY <1>2, <1>3, OpenStable, ReadyStable
<1>5. Types' /\ Working' /\ Ended' /\ Plain' /\ Bound'
  BY <1>2, <1>3 DEF IInv, Types, Working, Ended, Plain, Bound, Past, Stored
<1>6. Prepared' /\ Won'
  BY <1>3, <1>4 DEF IInv, Prepared, Won, Ready
<1>7. Checked'
  <2> SUFFICES ASSUME NEW d \in Calls, call[d].step = "recovered" \/ Stored(d)
               PROVE  SameTerms(d, call[d].snapshot)'
                      /\ Open(call[d].snapshot, call[d].deployment)'
    BY <1>3 DEF Checked, Stored
  <2>1. PICK e \in Calls : e = call[d].snapshot /\ call[e].quote \in Signed
    BY HeldByWinner DEF Past, Ready
  <2>2. PICK b : b = call[d].deployment
    OBVIOUS
  <2>3. SameTerms(d, e) /\ Open(e, b)
    BY <2>1, <2>2 DEF IInv, Checked
  <2>4. SameTerms(d, e)' /\ Open(e, b)'
    BY <1>3, <1>4, <2>1, <2>3 DEF SameTerms
  <2> QED
    BY <1>3, <2>1, <2>2, <2>4
<1> QED
  BY <1>5, <1>6, <1>7 DEF IInv

\* Neither a block nor a later generation touches what was claimed.
LEMMA AroundKeeps ==
    ASSUME IInv, UNCHANGED <<quotes, marker, call>>, height' \in Int,
           head' \in [Numbers -> Calls \cup {"later", None}]
    PROVE  IInv'
<1>1. \A d \in Calls : \A b : Open(d, b)' <=> Open(d, b)
  BY OpenStable
<1>2. \A d \in Calls : Ready(d)' <=> Ready(d)
  BY <1>1 DEF Ready, Signed
<1>3. Types' /\ Working' /\ Ended' /\ Plain' /\ Bound'
  BY DEF IInv, Types, Working, Ended, Plain, Bound, Past, Stored, Signed
<1>4. Prepared' /\ Won'
  BY <1>2 DEF IInv, Prepared, Won
<1>5. Checked'
  BY DEF IInv, Checked, Stored, SameTerms, Open, ValidUntil
<1> QED
  BY <1>3, <1>4, <1>5 DEF IInv

-----------------------------------------------------------------------------
(* The theorems.                                                           *)

\* Nothing is claimed at first.
LEMMA Initially == Init => IInv
<1> SUFFICES ASSUME Init
             PROVE  IInv
  OBVIOUS
<1>1. None \notin Calls \cup {"plain", "later", "stored", "valid"}
  BY OfferAssumption
<1>2. Types
  BY OfferAssumption
  DEF Init, Types, Idle, CallRecords, Steps, Outcomes, Numbers, QuoteRecords
<1>3. \A c \in Calls : call[c] = Idle
  BY DEF Init
<1>4. \A n \in Numbers : marker[n] = None
  BY DEF Init
<1> QED
  BY <1>1, <1>2, <1>3, <1>4
  DEF IInv, Working, Prepared, Won, Bound, Checked, Plain, Ended, Past, Stored, Idle

\* Every step keeps the invariant.
LEMMA NextKeeps == IInv /\ [Next]_vars => IInv'
<1> SUFFICES ASSUME IInv, [Next]_vars
             PROVE  IInv'
  OBVIOUS
<1>1. CASE Sign
  BY <1>1, SignKeeps
<1>2. CASE Advance
  <2>1. head' \in [Numbers -> Calls \cup {"later", None}]
    BY <1>2 DEF Advance, IInv, Types
  <2> QED
    BY <1>2, <2>1, AroundKeeps DEF Advance, IInv, Types
<1>3. CASE Mine
  BY <1>3, AroundKeeps DEF Mine, IInv, Types
<1>4. CASE UNCHANGED vars
  BY <1>4, AroundKeeps DEF vars, IInv, Types
<1>5. ASSUME NEW c \in Calls,
             \/ Preview(c) \/ Prepare(c) \/ Inspect(c) \/ Claim(c) \/ Recover(c)
             \/ Install(c) \/ ValidateOnly(c) \/ Die(c)
      PROVE  IInv'
  BY <1>5, PreviewKeeps, PrepareKeeps, InspectKeeps, ClaimKeeps, RecoverKeeps,
     InstallKeeps, ValidateOnlyKeeps, DieKeeps
<1> QED
  BY <1>1, <1>2, <1>3, <1>4, <1>5 DEF Next

\* The invariant holds of every behaviour.
THEOREM Invariant == Spec => []IInv
  BY Initially, NextKeeps, PTL DEF Spec

\* bootstrapActivationSnapshot: every intent that is printed is open in every window at
\* the block its own call observed, whoever stored it.
THEOREM EveryPrintedIsInTime == Spec => []PrintedIsInTime
<1>1. IInv => PrintedIsInTime
  BY DEF IInv, Checked, PrintedIsInTime
<1> QED
  BY <1>1, Invariant, PTL

\* offer.ts: only a call that had everything else it needs spends a quote.
THEOREM EverySpentIsPrepared == Spec => []SpentIsPrepared
<1>1. IInv => SpentIsPrepared
  BY DEF IInv, Won, Ready, SpentIsPrepared
<1> QED
  BY <1>1, Invariant, PTL

\* assertBootstrapSemantics: what a call prints has the terms its operator gave.
THEOREM EveryPrintedIsAsked == Spec => []PrintedAsAsked
<1>1. IInv => PrintedAsAsked
  BY DEF IInv, Checked, PrintedAsAsked
<1> QED
  BY <1>1, Invariant, PTL

\* replay.ts: a quote is reported valid, or one intent is printed for it, never both and
\* never two.
THEOREM EveryQuoteOnce == Spec => []OneUsePerQuote
<1>1. ASSUME IInv
      PROVE  OneUsePerQuote
  <2> SUFFICES ASSUME NEW c \in Calls, NEW d \in Calls, Stored(c),
                      call[d].quote = call[c].quote
               PROVE  /\ call[d].outcome # "valid"
                      /\ Stored(d) => call[d].snapshot = call[c].snapshot
    BY DEF OneUsePerQuote
  <2>1. marker[call[c].quote] = call[c].snapshot /\ call[c].snapshot \in Calls
    BY <1>1 DEF IInv, Bound, Past
  <2>2. "plain" \notin Calls
    BY OfferAssumption
  <2>3. call[d].outcome # "valid"
    BY <1>1, <2>1, <2>2 DEF IInv, Plain
  <2>4. Stored(d) => call[d].snapshot = call[c].snapshot
    BY <1>1, <2>1 DEF IInv, Bound, Past
  <2> QED
    BY <2>3, <2>4
<1> QED
  BY <1>1, Invariant, PTL

\* What is printed for signing is in time, and is what the operator of that very call asked
\* for, though another call may have stored it.
THEOREM EveryPrintedIsSound == Spec => []PrintedIsSound
BY EveryPrintedIsInTime, EveryPrintedIsAsked, PTL DEF PrintedIsSound

\* A quote is spent at most once, and only for an intent that had passed every other gate.
THEOREM EverySpentIsSound == Spec => []SpentIsSound
BY EverySpentIsPrepared, EveryQuoteOnce, PTL DEF SpentIsSound

-----------------------------------------------------------------------------
(* Validation.  The quotes of an agent, and what an attempt that holds one *)
(* knows at each of its steps.                                             *)
Codes == {None, "TRANSPORT_FAILED", "RESPONSE_SCHEMA_INVALID", "QUOTE_REJECTED",
          "REPLAY_STORE_UNAVAILABLE", "PREFLIGHT_FAILED", "MANDATE_BINDING_MISMATCH",
          "QUOTE_EXPIRED", "ERC1271_UNAVAILABLE", "PROVIDER_SIGNATURE_INVALID",
          "QUOTE_POLICY_REJECTED", "PREVIEW_GATE_UNAVAILABLE", "PREVIEW_GATE_REJECTED",
          "PASSIVE_PREFLIGHT_FAILED", "REPLAY_DETECTED"}
SignedQuotes == [number : Validation!Numbers, flaw : Flaws, madeAt : Int, negotiatedAt : Int,
                 checkedAt : Int, evidenceAt : Int, expiresAt : Int]
AttemptRecords == [step : Validation!Steps, mode : Modes \cup {None}, deadline : Int,
                   quote : SignedQuotes \cup {None}, validatedAt : Int, decidedAt : Int,
                   outcome : Validation!Outcomes \cup {None}, code : Codes, endedAt : Int]

ValidationTypes ==
    /\ time \in From..MaxTime /\ mandate \in Mandates /\ passive \in Passives
    /\ signed \subseteq SignedQuotes /\ IsFiniteSet(signed)
    /\ attempt \in [Attempts -> AttemptRecords]
    /\ winner \in [Validation!Keys -> Attempts \cup {None}]
    /\ answer \in [Validation!Keys -> [Attempts -> {"none", "won", "lost", "thrown"}]]

\* An agent dates its evidence no later than it signs.
Dated == \A q \in signed : /\ From <= q.madeAt /\ q.madeAt <= time
                           /\ q.checkedAt = q.negotiatedAt /\ q.evidenceAt <= q.madeAt

Holding == {"answered", "signature", "gate", "decide", "claim"}

\* Past the preflight: what was not of the future then is not now.
NotOfTheFuture == /\ \A at \in passive : at <= time + Skew
                  /\ time - mandate.estimateAt >= -Tolerance

\* What an attempt knows.
Knows(a) ==
    LET me == attempt[a]
    IN  /\ me.step = "done" <=> me.outcome \in Validation!Outcomes
        /\ me.quote \in signed \cup {None}
        /\ me.step \in {"idle", "asking"} => me.quote = None
        /\ me.step \in Holding => me.quote \in signed
        /\ me.step \in Holding \cup {"asking"} => NotOfTheFuture
        /\ me.step \in Holding \ {"answered"} =>
            me.quote.madeAt <= me.validatedAt /\ me.validatedAt <= time
        /\ me.step \in {"gate", "decide", "claim"} => me.quote.flaw # "signature"
        /\ me.step = "decide" /\ me.mode # "quote" => me.deadline <= me.quote.expiresAt
        /\ me.step = "claim" => me.mode # "evaluation" /\ me.decidedAt > 0
        /\ me.step = "claim" \/ Validation!Good(a) => Validation!InTime(a)
        /\ Validation!Valid(a) =>
            /\ Validation!ReplayKey(a) \in Validation!Keys
            /\ winner[Validation!ReplayKey(a)] = a
        /\ me.outcome = "invalid" /\ me.quote # None /\ Validation!HonestAt(me.quote, me.endedAt)
            => me.code \in {"PREVIEW_GATE_REJECTED", "REPLAY_DETECTED"}

\* A quote is spent under its own number, by an attempt that got as far as the claim.
SpentByHolder ==
    \A k \in Validation!Keys : winner[k] # None =>
        /\ Validation!ReplayKey(winner[k]) = k
        /\ attempt[winner[k]].step \in {"claim", "dead", "done"}
        /\ Validation!SpentRightly(k)

AnsweredAreDone ==
    \A k \in Validation!Keys, a \in Attempts :
        answer[k][a] # "none" => attempt[a].step = "done"

ValidationInv == /\ ValidationTypes /\ Dated /\ (\A a \in Attempts : Knows(a))
                 /\ SpentByHolder /\ AnsweredAreDone

-----------------------------------------------------------------------------
\* What an attempt knows stays true while others step.
LEMMA KnowsStays ==
    ASSUME ValidationInv, NEW b \in Attempts, attempt'[b] = attempt[b],
           time' \in Int, time <= time', mandate' = mandate, passive' = passive,
           signed \subseteq signed',
           \A k \in Validation!Keys : winner[k] # None => winner'[k] = winner[k]
    PROVE  Knows(b)'
<1>1. Knows(b) /\ attempt[b] \in AttemptRecords /\ time \in Int
  BY DEF ValidationInv, ValidationTypes
<1>2. \A k \in Validation!Keys : winner[k] = b => winner'[k] = b
  BY ValidationAssumption DEF Validation!QuoteAssumption
<1>3. Validation!InTime(b)' <=> Validation!InTime(b)
  BY DEF Validation!InTime
<1>4. \A q, now : Validation!HonestAt(q, now)' <=> Validation!HonestAt(q, now)
  BY DEF Validation!HonestAt
<1>5. NotOfTheFuture => NotOfTheFuture'
  BY <1>1, ValidationAssumption
  DEF ValidationInv, ValidationTypes, NotOfTheFuture, Validation!QuoteAssumption
<1>6. Validation!Good(b)' <=> Validation!Good(b)
  BY DEF Validation!Good
<1>7. /\ Validation!Valid(b)' <=> Validation!Valid(b)
      /\ Validation!ReplayKey(b)' = Validation!ReplayKey(b) /\ Validation!Keys' = Validation!Keys
  BY DEF Validation!Valid, Validation!ReplayKey, Validation!Keys, Validation!Numbers
<1> QED
  BY <1>1, <1>2, <1>3, <1>4, <1>5, <1>6, <1>7
  DEF Knows, AttemptRecords, SignedQuotes, Holding, Validation!Steps

\* A step of one attempt that has not claimed, and that leaves the store.
LEMMA OneKnows ==
    ASSUME ValidationInv, NEW a \in Attempts, NEW r \in AttemptRecords,
           Validation!Moves(a, r), attempt[a].step \notin {"claim", "dead", "done"},
           Knows(a)', Dated', signed' \subseteq SignedQuotes, IsFiniteSet(signed'),
           signed \subseteq signed', UNCHANGED <<time, mandate, passive, winner, answer>>
    PROVE  ValidationInv'
<1>1. /\ attempt' \in [Attempts -> AttemptRecords] /\ attempt'[a] = r
      /\ \A d \in Attempts : d # a => attempt'[d] = attempt[d]
  BY DEF ValidationInv, ValidationTypes, Validation!Moves
<1>2. ASSUME NEW d \in Attempts
      PROVE  Knows(d)'
  <2>1. CASE d = a
    BY <2>1
  <2>2. CASE d # a
    <3>1. time \in Int
      BY DEF ValidationInv, ValidationTypes
    <3> QED
      BY <1>1, <2>2, <3>1, KnowsStays
  <2> QED
    BY <2>1, <2>2
<1>3. \A k \in Validation!Keys : winner[k] # a
  BY ValidationAssumption
  DEF ValidationInv, SpentByHolder, Validation!QuoteAssumption
<1>4. SpentByHolder'
  BY <1>1, <1>3
  DEF ValidationInv, ValidationTypes, SpentByHolder, Validation!SpentRightly,
      Validation!ReplayKey, Validation!Keys, Validation!Numbers
<1>5. AnsweredAreDone'
  BY <1>1
  DEF ValidationInv, AnsweredAreDone, Validation!Keys, Validation!Numbers
<1> QED
  BY <1>1, <1>2, <1>4, <1>5
  DEF ValidationInv, ValidationTypes, SignedQuotes, AttemptRecords, Validation!Keys,
      Validation!Numbers

\* The end of an attempt before its claim, which does not turn an honest agent away.
LEMMA FailsKeeps ==
    ASSUME ValidationInv, NEW a \in Attempts, NEW code \in Codes,
           NEW outcome \in {"invalid", "inconclusive", "refused"},
           attempt[a].step \in (Holding \cup {"asking"}) \ {"claim"},
           Validation!Fails(a, outcome, code),
           outcome = "invalid" /\ attempt[a].step # "asking"
             /\ Validation!HonestAt(attempt[a].quote, time) => code = "PREVIEW_GATE_REJECTED"
    PROVE  ValidationInv'
<1> DEFINE r == [attempt[a] EXCEPT !.step = "done", !.outcome = outcome, !.code = code,
                                   !.endedAt = time]
<1>1. attempt[a] \in AttemptRecords /\ time \in Int
  BY DEF ValidationInv, ValidationTypes
<1>2. r \in AttemptRecords
  BY <1>1 DEF AttemptRecords, Validation!Steps, Validation!Outcomes
<1>3. Validation!Moves(a, r) /\ UNCHANGED <<time, mandate, passive, signed, winner, answer>>
  BY DEF Validation!Fails, Validation!Ends, Validation!store
<1>4. attempt'[a] = r
  BY <1>3 DEF Validation!Moves, ValidationInv, ValidationTypes
<1>5. \A q, now : Validation!HonestAt(q, now)' <=> Validation!HonestAt(q, now)
  BY <1>3 DEF Validation!HonestAt
<1>6. /\ attempt[a].step = "asking" => attempt[a].quote = None
      /\ attempt[a].quote \in signed \cup {None}
  BY DEF ValidationInv, Knows
<1>7. Knows(a)'
  BY <1>1, <1>3, <1>4, <1>5, <1>6
  DEF Knows, AttemptRecords, Holding, Validation!Good, Validation!Valid, Validation!Outcomes
<1> HIDE DEF r
<1> QED
  BY <1>1, <1>2, <1>3, <1>7, OneKnows
  DEF Holding, ValidationInv, ValidationTypes, Dated

\* The preflight.
LEMMA PreflightKeeps ==
    ASSUME ValidationInv, NEW a \in Attempts, Validation!Prepare(a)
    PROVE  ValidationInv'
<1>1. PICK mode \in Modes, deadline \in Deadlines :
        LET Begins(step, outcome, code) ==
                Validation!Goes(a, Validation!Unquoted(step, mode, deadline, outcome, code))
        IN  IF Validation!PassiveFresh(time) /\ Validation!MandateLives(time)
            THEN \/ Begins("asking", None, None)
                 \/ Begins("done", "inconclusive", "REPLAY_STORE_UNAVAILABLE")
            ELSE Begins("done", "invalid", "PREFLIGHT_FAILED")
  BY DEF Validation!Prepare
<1>2. attempt[a].step = "idle"
  BY DEF Validation!Prepare, Validation!At
<1>3. deadline \in Int /\ None \notin Validation!Words
  BY ValidationAssumption DEF Validation!QuoteAssumption
<1>4. ASSUME NEW step, NEW outcome, NEW code \in Codes,
             Validation!Goes(a, Validation!Unquoted(step, mode, deadline, outcome, code)),
             \/ step = "asking" /\ outcome = None /\ NotOfTheFuture
             \/ step = "done" /\ outcome \in {"inconclusive", "invalid"}
      PROVE  ValidationInv'
  <2> DEFINE r == [step |-> step, mode |-> mode, deadline |-> deadline, quote |-> None,
                   validatedAt |-> 0, decidedAt |-> 0, outcome |-> outcome, code |-> code,
                   endedAt |-> 0]
  <2>1. Validation!Moves(a, r) /\ UNCHANGED <<time, mandate, passive, signed, winner, answer>>
    BY <1>4 DEF Validation!Unquoted, Validation!Goes, Validation!store
  <2>2. attempt'[a] = r
    BY <2>1 DEF Validation!Moves, ValidationInv, ValidationTypes
  <2>3. NotOfTheFuture' <=> NotOfTheFuture
    BY <2>1 DEF NotOfTheFuture
  <2>4. r \in AttemptRecords
    BY <1>3, <1>4 DEF AttemptRecords, Validation!Steps, Validation!Outcomes
  <2>5. Knows(a)'
    BY <1>3, <1>4, <2>2, <2>3
    DEF Knows, Holding, Validation!Good, Validation!Valid, Validation!Outcomes,
        Validation!Words
  <2> HIDE DEF r
  <2> QED
    BY <1>2, <2>1, <2>4, <2>5, OneKnows DEF ValidationInv, ValidationTypes, Dated
<1>5. Validation!PassiveFresh(time) /\ Validation!MandateLives(time) => NotOfTheFuture
  BY DEF NotOfTheFuture, Validation!PassiveFresh, Validation!MandateLives
<1> QED
  BY <1>1, <1>4, <1>5 DEF Codes

\* A quote of the agent's, new or signed before.
LEMMA AnswerKeeps ==
    ASSUME ValidationInv, NEW a \in Attempts, Validation!Answer(a)
    PROVE  ValidationInv'
<1>1. /\ attempt[a].step = "asking" /\ attempt[a] \in AttemptRecords
      /\ UNCHANGED <<time, mandate, passive, winner, answer>>
      /\ time \in From..MaxTime /\ From \in Nat
      /\ signed \subseteq SignedQuotes /\ IsFiniteSet(signed)
  BY ValidationAssumption
  DEF Validation!Answer, Validation!At, Validation!store, ValidationInv, ValidationTypes,
      Validation!QuoteAssumption
<1>2. ASSUME NEW q \in SignedQuotes, q \in signed', Validation!Answered(a, q), Dated',
             signed \subseteq signed', signed' \subseteq SignedQuotes, IsFiniteSet(signed')
      PROVE  ValidationInv'
  <2> DEFINE r == [attempt[a] EXCEPT !.step = "answered", !.quote = q]
  <2>1. r \in AttemptRecords
    BY <1>1 DEF AttemptRecords, Validation!Steps
  <2>2. Validation!Moves(a, r)
    BY <1>2 DEF Validation!Answered
  <2>3. attempt'[a] = r
    BY <2>2 DEF Validation!Moves, ValidationInv, ValidationTypes
  <2>4. NotOfTheFuture'
    BY <1>1 DEF NotOfTheFuture, ValidationInv, Knows
  <2>5. attempt[a].outcome \notin Validation!Outcomes
    BY <1>1 DEF ValidationInv, Knows
  <2>6. Knows(a)'
    BY <1>1, <1>2, <2>3, <2>4, <2>5
    DEF Knows, AttemptRecords, Holding, Validation!Good, Validation!Valid,
        Validation!Outcomes
  <2> HIDE DEF r
  <2> QED
    BY <1>1, <1>2, <2>1, <2>2, <2>6, OneKnows
<1>3. ASSUME NEW q \in signed, Validation!Answered(a, q), UNCHANGED signed
      PROVE  ValidationInv'
  <2>1. Dated'
    BY <1>1, <1>3 DEF Dated, ValidationInv
  <2> QED
    BY <1>1, <1>2, <1>3, <2>1
<1>4. ASSUME NEW dates \in Quotes, NEW flaw \in Flaws, Cardinality(signed) < MaxMade,
             LET q == Validation!Made(dates, flaw, Cardinality(signed) + 1)
             IN  Validation!Answered(a, q) /\ signed' = signed \cup {q}
      PROVE  ValidationInv'
  <2> DEFINE q == Validation!Made(dates, flaw, Cardinality(signed) + 1)
  <2>1. Cardinality(signed) \in Nat /\ MaxMade \in Nat
    BY <1>1, FS_CardinalityType, ValidationAssumption DEF Validation!QuoteAssumption
  <2>2. Cardinality(signed) + 1 \in Validation!Numbers
    BY <1>4, <2>1 DEF Validation!Numbers
  <2>3. dates \in [ahead : Int, lag : Nat, ttl : Int]
    BY ValidationAssumption DEF Validation!QuoteAssumption
  <2>4. q \in SignedQuotes
    BY <1>1, <2>2, <2>3 DEF SignedQuotes, Validation!Made
  <2>5. q.madeAt = time /\ q.checkedAt = q.negotiatedAt /\ q.evidenceAt <= q.madeAt
    BY <1>1, <2>3 DEF Validation!Made
  <2> HIDE DEF q
  <2>6. Dated'
    BY <1>1, <1>4, <2>5 DEF Dated, ValidationInv, q
  <2>7. IsFiniteSet(signed')
    BY <1>1, <1>4, FS_AddElement
  <2> QED
    BY <1>1, <1>2, <1>4, <2>4, <2>6, <2>7 DEF q
<1>5. CASE \E q \in signed : Validation!Answered(a, q) /\ UNCHANGED signed
  BY <1>3, <1>5
<1>6. Validation!Cardinality(signed) = Cardinality(signed)
  BY DEF Validation!Cardinality, Cardinality
<1>7. CASE /\ Cardinality(signed) < MaxMade
           /\ \E dates \in Quotes, flaw \in Flaws :
                LET q == Validation!Made(dates, flaw, Cardinality(signed) + 1)
                IN  Validation!Answered(a, q) /\ signed' = signed \cup {q}
  BY <1>4, <1>7, Zenon
<1> QED
  BY <1>5, <1>6, <1>7 DEF Validation!Answer

\* An attempt that goes on with its quote.
LEMMA GoesKeeps ==
    ASSUME ValidationInv, NEW a \in Attempts, NEW r \in AttemptRecords, Validation!Goes(a, r),
           attempt[a].step \in Holding \ {"claim"},
           r.quote = attempt[a].quote, Knows(a)'
    PROVE  ValidationInv'
BY OneKnows DEF ValidationInv, ValidationTypes, Dated, Validation!Goes, Validation!store, Holding

\* What the first look at a quote refuses was not honest then.
LEMMA HonestBinds ==
    ASSUME ValidationInv, NEW q \in signed, NotOfTheFuture, Validation!HonestAt(q, time)
    PROVE  /\ Validation!Binds(q, time) /\ q.expiresAt > time /\ q.flaw # "signature"
           /\ Validation!PolicyAllows(q, time)
           /\ Validation!PassiveFresh(time) /\ Validation!MandateLives(time)
<1>1. /\ q \in SignedQuotes /\ time \in Int /\ passive \subseteq Int
      /\ mandate \in [expires : Int, permissions : Int, estimateAt : Int, maxAge : Int]
      /\ mandate.permissions <= mandate.expires
      /\ {Tolerance, Skew, MaxPassiveAge, MaxTtl} \subseteq Nat /\ Remaining \in Nat \ {0}
      /\ None \notin Validation!Words
  BY ValidationAssumption
  DEF ValidationInv, ValidationTypes, Validation!QuoteAssumption
<1>2. q.madeAt <= time /\ q.checkedAt = q.negotiatedAt /\ q.evidenceAt <= q.madeAt
  BY DEF ValidationInv, Dated
<1>3. q.flaw \notin {"mandate", "price", "signature"}
  BY <1>1 DEF Validation!HonestAt, Validation!Words
<1>4. Validation!PassiveFresh(time)
  BY <1>1 DEF Validation!PassiveFresh, NotOfTheFuture, Validation!HonestAt
<1>5. Validation!MandateLives(time)
  BY <1>1 DEF Validation!MandateLives, NotOfTheFuture, Validation!HonestAt
<1>6. Validation!PolicyAllows(q, time) /\ q.expiresAt > time
  BY <1>1, <1>2, <1>3 DEF Validation!PolicyAllows, Validation!HonestAt, SignedQuotes
<1>7. Validation!Binds(q, time)
  BY <1>1, <1>2, <1>3
  DEF Validation!Binds, Validation!Fresh, NotOfTheFuture, Validation!HonestAt, SignedQuotes
<1> QED
  BY <1>3, <1>4, <1>5, <1>6, <1>7

\* No answer, or none of use.
LEMMA NoAnswerKeeps ==
    ASSUME ValidationInv, NEW a \in Attempts, Validation!NoAnswer(a)
    PROVE  ValidationInv'
<1>1. attempt[a].step = "asking"
  BY DEF Validation!NoAnswer, Validation!At
<1>2. \E o \in {"invalid", "inconclusive", "refused"}, c \in Codes : Validation!Fails(a, o, c)
  BY DEF Validation!NoAnswer, Validation!Fails, Codes
<1> QED
  BY <1>1, <1>2, FailsKeeps DEF Holding

\* The first look.
LEMMA ValidateKeeps ==
    ASSUME ValidationInv, NEW a \in Attempts, Validation!Validate(a)
    PROVE  ValidationInv'
<1> DEFINE q == attempt[a].quote
           r == [attempt[a] EXCEPT !.step = "signature", !.validatedAt = time]
<1>1. /\ attempt[a].step = "answered" /\ attempt[a] \in AttemptRecords /\ q \in signed
      /\ NotOfTheFuture /\ attempt[a].outcome \notin Validation!Outcomes /\ time \in Int
  BY DEF Validation!Validate, Validation!At, ValidationInv, ValidationTypes, Knows, Holding
<1>2. CASE ~Validation!Binds(q, time) /\ Validation!Fails(a, "invalid", "MANDATE_BINDING_MISMATCH")
  BY <1>1, <1>2, FailsKeeps, HonestBinds DEF Holding, Codes
<1>3. CASE q.expiresAt <= time /\ Validation!Fails(a, "invalid", "QUOTE_EXPIRED")
  <2>1. ~Validation!HonestAt(q, time)
    BY <1>1, <1>3, HonestBinds DEF ValidationInv, ValidationTypes, SignedQuotes
  <2> QED
    BY <1>1, <1>3, <2>1, FailsKeeps DEF Holding, Codes
<1>4. CASE Validation!Goes(a, r)
  <2>1. r \in AttemptRecords /\ r.quote = q
    BY <1>1 DEF AttemptRecords, Validation!Steps
  <2>2. /\ Validation!Moves(a, r)
        /\ UNCHANGED <<time, mandate, passive, signed, winner, answer>>
    BY <1>4 DEF Validation!Goes, Validation!store
  <2>3. attempt'[a] = r
    BY <2>2 DEF Validation!Moves, ValidationInv, ValidationTypes
  <2>4. q.madeAt <= time
    BY <1>1 DEF ValidationInv, Dated
  <2>5. NotOfTheFuture'
    BY <1>1, <2>2 DEF NotOfTheFuture
  <2>6. Knows(a)'
    BY <1>1, <2>2, <2>3, <2>4, <2>5
    DEF Knows, AttemptRecords, Holding, Validation!Good, Validation!Valid,
        Validation!Outcomes
  <2> HIDE DEF r
  <2> QED
    BY <1>1, <1>4, <2>1, <2>6, GoesKeeps DEF Holding
<1> QED
  BY <1>2, <1>3, <1>4 DEF Validation!Validate

\* The signature, and the policy at the time of the first look.
LEMMA SignatureKeeps ==
    ASSUME ValidationInv, NEW a \in Attempts, Validation!Signature(a)
    PROVE  ValidationInv'
<1> DEFINE q == attempt[a].quote
           me == attempt[a]
<1>1. /\ me.step = "signature" /\ me \in AttemptRecords /\ q \in signed
      /\ NotOfTheFuture /\ me.outcome \notin Validation!Outcomes /\ time \in Int
      /\ q.madeAt <= me.validatedAt /\ me.validatedAt <= time /\ q \in SignedQuotes
  BY DEF Validation!Signature, Validation!At, ValidationInv, ValidationTypes, Knows, Holding
<1>2. CASE Validation!Fails(a, "inconclusive", "ERC1271_UNAVAILABLE")
  BY <1>1, <1>2, FailsKeeps DEF Holding, Codes
<1>3. CASE q.flaw = "signature" /\ Validation!Fails(a, "invalid", "PROVIDER_SIGNATURE_INVALID")
  BY <1>1, <1>3, FailsKeeps, HonestBinds DEF Holding, Codes
<1>4. CASE ~Validation!PolicyAllows(q, me.validatedAt)
           /\ Validation!Fails(a, "invalid", "QUOTE_POLICY_REJECTED")
  <2>1. ~Validation!HonestAt(q, time)
    <3> SUFFICES ASSUME Validation!HonestAt(q, time)
                 PROVE  Validation!PolicyAllows(q, me.validatedAt)
      BY <1>4
    <3>1. Validation!PolicyAllows(q, time)
      BY <1>1, HonestBinds
    <3>2. q.negotiatedAt <= me.validatedAt + Skew
      BY <1>1, ValidationAssumption
      DEF Validation!HonestAt, SignedQuotes, AttemptRecords, Validation!QuoteAssumption
    <3>3. q.expiresAt - me.validatedAt >= Remaining
      BY <1>1, <3>1, ValidationAssumption
      DEF Validation!PolicyAllows, SignedQuotes, AttemptRecords, Validation!QuoteAssumption
    <3> QED
      BY <3>1, <3>2, <3>3 DEF Validation!PolicyAllows
  <2> QED
    BY <1>1, <1>4, <2>1, FailsKeeps DEF Holding, Codes
<1>5. CASE q.flaw # "signature"
           /\ Validation!Goes(a, [me EXCEPT !.step = IF me.mode = "quote" THEN "decide" ELSE "gate"])
  <2> DEFINE next == IF me.mode = "quote" THEN "decide" ELSE "gate"
             r == [me EXCEPT !.step = next]
  <2>1. next \in {"decide", "gate"} /\ (next = "decide" => me.mode = "quote")
    OBVIOUS
  <2> HIDE DEF next
  <2>2. r \in AttemptRecords /\ r.quote = q
    BY <1>1, <2>1 DEF AttemptRecords, Validation!Steps
  <2>3. /\ Validation!Moves(a, r) /\ Validation!Goes(a, r)
        /\ UNCHANGED <<time, mandate, passive, signed, winner, answer>>
    BY <1>5 DEF Validation!Goes, Validation!store, next
  <2>4. attempt'[a] = r
    BY <2>3 DEF Validation!Moves, ValidationInv, ValidationTypes
  <2>5. NotOfTheFuture'
    BY <1>1, <2>3 DEF NotOfTheFuture
  <2>6. Knows(a)'
    BY <1>1, <1>5, <2>1, <2>3, <2>4, <2>5
    DEF Knows, AttemptRecords, Holding, Validation!Good, Validation!Valid,
        Validation!Outcomes
  <2> HIDE DEF r
  <2> QED
    BY <1>1, <2>2, <2>3, <2>6, GoesKeeps DEF Holding
<1> QED
  BY <1>2, <1>3, <1>4, <1>5 DEF Validation!Signature

\* The preview, judged at the time of the first look.
LEMMA GateKeeps ==
    ASSUME ValidationInv, NEW a \in Attempts, Validation!Gate(a)
    PROVE  ValidationInv'
<1> DEFINE me == attempt[a]
           r == [me EXCEPT !.step = "decide"]
<1>1. /\ me.step = "gate" /\ me \in AttemptRecords /\ NotOfTheFuture
      /\ me.outcome \notin Validation!Outcomes
  BY DEF Validation!Gate, Validation!At, ValidationInv, ValidationTypes, Knows, Holding
<1>2. CASE Validation!Fails(a, "inconclusive", "PREVIEW_GATE_UNAVAILABLE")
  BY <1>1, <1>2, FailsKeeps DEF Holding, Codes
<1>3. CASE Validation!Fails(a, "invalid", "PREVIEW_GATE_REJECTED")
  BY <1>1, <1>3, FailsKeeps DEF Holding, Codes
<1>4. CASE Validation!DeadlineFits(me.deadline, me.quote, me.validatedAt) /\ Validation!Goes(a, r)
  <2>1. r \in AttemptRecords /\ r.quote = me.quote
    BY <1>1 DEF AttemptRecords, Validation!Steps
  <2>2. /\ Validation!Moves(a, r)
        /\ UNCHANGED <<time, mandate, passive, signed, winner, answer>>
    BY <1>4 DEF Validation!Goes, Validation!store
  <2>3. attempt'[a] = r
    BY <2>2 DEF Validation!Moves, ValidationInv, ValidationTypes
  <2>4. NotOfTheFuture'
    BY <1>1, <2>2 DEF NotOfTheFuture
  <2>5. me.deadline <= me.quote.expiresAt
    BY <1>4 DEF Validation!DeadlineFits
  <2>6. Knows(a)
    BY DEF ValidationInv
  <2>7. Knows(a)'
    BY <1>1, <2>2, <2>3, <2>4, <2>5, <2>6
    DEF Knows, AttemptRecords, Holding, Validation!Good, Validation!Valid,
        Validation!Outcomes
  <2> HIDE DEF r
  <2> QED
    BY <1>1, <1>4, <2>1, <2>7, GoesKeeps DEF Holding
<1> QED
  BY <1>2, <1>3, <1>4 DEF Validation!Gate

\* The decision: what passes it is in time.
LEMMA DecideKeeps ==
    ASSUME ValidationInv, NEW a \in Attempts, Validation!Decide(a)
    PROVE  ValidationInv'
<1> DEFINE q == attempt[a].quote
           me == attempt[a]
           r == [me EXCEPT !.step = "claim", !.decidedAt = time]
<1>1. /\ me.step = "decide" /\ me \in AttemptRecords /\ q \in signed /\ NotOfTheFuture
      /\ me.outcome \notin Validation!Outcomes /\ q \in SignedQuotes
      /\ q.flaw # "signature" /\ (me.mode # "quote" => me.deadline <= q.expiresAt)
      /\ q.madeAt <= me.validatedAt /\ me.validatedAt <= time
  BY DEF Validation!Decide, Validation!At, ValidationInv, ValidationTypes, Knows, Holding
<1>2. /\ time \in Int /\ time > 0 /\ passive \subseteq Int /\ None \notin Validation!Words
      /\ mandate \in [expires : Int, permissions : Int, estimateAt : Int, maxAge : Int]
      /\ {Tolerance, Skew, MaxPassiveAge, MaxTtl, Buffer, Remaining} \subseteq Nat
      /\ Flaws \subseteq {None, "mandate", "price", "signature"}
  BY ValidationAssumption
  DEF ValidationInv, ValidationTypes, Validation!QuoteAssumption
<1>3. CASE \E code \in Codes :
            /\ Validation!Fails(a, "invalid", code)
            /\ \/ code = "PREVIEW_GATE_REJECTED" \/ ~Validation!PassiveFresh(time)
               \/ ~Validation!MandateLives(time) \/ ~Validation!Binds(q, time)
               \/ ~Validation!PolicyAllows(q, time)
  BY <1>1, <1>3, FailsKeeps, HonestBinds DEF Holding
<1>4. CASE /\ Validation!PassiveFresh(time) /\ Validation!MandateLives(time)
           /\ Validation!Binds(q, time) /\ Validation!PolicyAllows(q, time)
           /\ ~(me.mode # "quote" /\ me.deadline < time + Buffer)
           /\ \/ me.mode = "evaluation" /\ Validation!Goes(a, Validation!Verified(me))
              \/ me.mode # "evaluation" /\ Validation!Goes(a, r)
  <2> DEFINE v == Validation!Verified(me)
  <2>1. /\ q.flaw = None
        /\ q.expiresAt >= time + Remaining /\ q.expiresAt <= mandate.permissions
        /\ mandate.permissions >= time + Remaining
        /\ q.negotiatedAt <= time + Skew /\ q.expiresAt <= q.negotiatedAt + MaxTtl
        /\ \A at \in {q.evidenceAt, mandate.estimateAt} :
            time - at <= mandate.maxAge /\ at <= time + Tolerance
        /\ \A at \in passive : time - at <= MaxPassiveAge
        /\ me.mode # "quote" => me.deadline >= time + Buffer /\ me.deadline <= q.expiresAt
    <3>1. q.flaw = None
      BY <1>1, <1>2, <1>4 DEF Validation!Binds, Validation!PolicyAllows, SignedQuotes
    <3>2. /\ q.expiresAt >= time + Remaining /\ q.expiresAt <= mandate.permissions
          /\ q.negotiatedAt <= time + Skew /\ q.expiresAt <= q.negotiatedAt + MaxTtl
      BY <1>1, <1>2, <1>4 DEF Validation!PolicyAllows, SignedQuotes
    <3>3. mandate.permissions >= time + Remaining
      BY <1>2, <1>4 DEF Validation!MandateLives
    <3>4. \A at \in {q.evidenceAt, mandate.estimateAt} :
            time - at <= mandate.maxAge /\ at <= time + Tolerance
      BY <1>1, <1>2, <1>4 DEF Validation!Binds, Validation!Fresh, SignedQuotes
    <3>5. \A at \in passive : time - at <= MaxPassiveAge
      BY <1>4 DEF Validation!PassiveFresh
    <3>6. me.mode # "quote" => me.deadline >= time + Buffer /\ me.deadline <= q.expiresAt
      BY <1>1, <1>2, <1>4 DEF AttemptRecords
    <3> QED
      BY <3>1, <3>2, <3>3, <3>4, <3>5, <3>6
  <2>2. ASSUME NEW s \in AttemptRecords, Validation!Goes(a, s), s.quote = q, s.mode = me.mode,
               s.deadline = me.deadline, s.validatedAt = me.validatedAt, s.decidedAt = time,
               \/ s.step = "claim" /\ s.outcome \notin Validation!Outcomes
                    /\ s.mode # "evaluation"
               \/ s.step = "done" /\ s.outcome = "verified"
        PROVE  ValidationInv'
    <3>1. /\ Validation!Moves(a, s)
          /\ UNCHANGED <<time, mandate, passive, signed, winner, answer>>
      BY <2>2 DEF Validation!Goes, Validation!store
    <3>2. attempt'[a] = s
      BY <3>1 DEF Validation!Moves, ValidationInv, ValidationTypes
    <3>3. Validation!InTime(a)'
      BY <2>1, <2>2, <3>1, <3>2 DEF Validation!InTime
    <3>4. NotOfTheFuture'
      BY <1>1, <3>1 DEF NotOfTheFuture
    <3>5. Knows(a)'
      BY <1>1, <1>2, <2>2, <3>1, <3>2, <3>3, <3>4
      DEF Knows, Holding, Validation!Good, Validation!Valid, Validation!Outcomes
    <3> QED
      BY <1>1, <2>2, <3>5, GoesKeeps DEF Holding
  <2>3. r \in AttemptRecords /\ v \in AttemptRecords
    BY <1>1, <1>2
    DEF AttemptRecords, Validation!Steps, Validation!Verified, Validation!Outcomes
  <2>4. CASE me.mode = "evaluation" /\ Validation!Goes(a, v)
    <3>1. /\ v.quote = q /\ v.mode = me.mode /\ v.deadline = me.deadline
          /\ v.validatedAt = me.validatedAt /\ v.decidedAt = time /\ v.step = "done" /\ v.outcome = "verified"
      BY <1>1 DEF Validation!Verified, AttemptRecords
    <3> HIDE DEF v
    <3> QED
      BY <2>2, <2>3, <2>4, <3>1
  <2>5. CASE me.mode # "evaluation" /\ Validation!Goes(a, r)
    <3>1. /\ r.quote = q /\ r.mode = me.mode /\ r.deadline = me.deadline
          /\ r.validatedAt = me.validatedAt /\ r.decidedAt = time /\ r.step = "claim" /\ r.outcome = me.outcome
      BY <1>1 DEF AttemptRecords
    <3> HIDE DEF r
    <3> QED
      BY <1>1, <2>2, <2>3, <2>5, <3>1
  <2> QED
    BY <1>4, <2>4, <2>5
<1> QED
  BY <1>3, <1>4 DEF Validation!Decide, Codes

\* An attempt before its claim works on a key of the store.
LEMMA KeyOfHolder ==
    ASSUME ValidationInv, NEW a \in Attempts, attempt[a].step = "claim"
    PROVE  /\ Validation!ReplayKey(a) \in Validation!Keys
           /\ Validation!Winner(a) = winner[Validation!ReplayKey(a)]
<1>1. attempt[a].quote \in SignedQuotes
  BY DEF ValidationInv, ValidationTypes, Knows, Holding
<1>2. attempt[a].quote.number \in Validation!Numbers
  BY <1>1 DEF SignedQuotes
<1>3. Validation!ReplayKey(a) \in Validation!Keys
  BY <1>2 DEF Validation!ReplayKey, Validation!Keys
<1>4. DOMAIN winner = Validation!Keys
  BY DEF ValidationInv, ValidationTypes
<1> QED
  BY <1>3, <1>4 DEF Validation!Winner

\* The store spends the quote.
LEMMA ConsumeKeeps ==
    ASSUME ValidationInv, NEW a \in Attempts, Validation!Consume(a)
    PROVE  ValidationInv'
<1> DEFINE k == Validation!ReplayKey(a)
<1>1. /\ attempt[a].step = "claim" /\ Validation!Winner(a) = None
      /\ winner' = [winner EXCEPT ![k] = a]
      /\ UNCHANGED <<time, mandate, passive, signed, attempt, answer>>
  BY DEF Validation!Consume, Validation!At
<1>2. k \in Validation!Keys /\ winner[k] = None
  BY <1>1, KeyOfHolder
<1> HIDE DEF k
<1>3. /\ winner' \in [Validation!Keys -> Attempts \cup {None}] /\ winner'[k] = a
      /\ \A l \in Validation!Keys : l # k => winner'[l] = winner[l]
  BY <1>1, <1>2 DEF ValidationInv, ValidationTypes
<1>4. ASSUME NEW b \in Attempts
      PROVE  Knows(b)'
  <2>1. time \in Int
    BY DEF ValidationInv, ValidationTypes
  <2>2. \A l \in Validation!Keys : winner[l] # None => winner'[l] = winner[l]
    BY <1>2, <1>3
  <2> QED
    BY <1>1, <2>1, <2>2, KnowsStays
<1>5. Knows(a)
  BY DEF ValidationInv
<1>6. /\ attempt[a].decidedAt > 0 /\ attempt[a].quote.flaw = None
      /\ attempt[a].mode # "evaluation"
  BY <1>1, <1>5 DEF Knows, Validation!InTime
<1>7. SpentByHolder'
  BY <1>1, <1>2, <1>3, <1>6
  DEF ValidationInv, SpentByHolder, Validation!SpentRightly, Validation!ReplayKey,
      Validation!Keys, Validation!Numbers, k
<1> QED
  BY <1>1, <1>3, <1>4, <1>7
  DEF ValidationInv, ValidationTypes, Dated, AnsweredAreDone, SignedQuotes, AttemptRecords,
      Validation!Keys, Validation!Numbers

\* What the caller of a claim is told, which ends its attempt.
LEMMA ClaimedKeeps ==
    ASSUME ValidationInv, NEW a \in Attempts, Validation!Claim(a)
    PROVE  ValidationInv'
<1> DEFINE k == Validation!ReplayKey(a)
           me == attempt[a]
<1>1. /\ me.step = "claim" /\ me \in AttemptRecords /\ time \in Int
      /\ me.mode # "evaluation" /\ me.decidedAt > 0 /\ Validation!InTime(a)
      /\ me.quote.flaw = None /\ me.quote \in signed
  BY DEF Validation!Claim, Holding, Validation!At, ValidationInv, ValidationTypes, Knows,
         Validation!InTime
<1>2. k \in Validation!Keys /\ Validation!Winner(a) = winner[k]
  BY <1>1, KeyOfHolder
<1> HIDE DEF k
<1>3. ASSUME NEW outcome \in {"valid", "invalid", "inconclusive"}, NEW code \in Codes,
             NEW word \in {"won", "lost", "thrown"},
             Validation!Ends(a, outcome, code), Validation!Told(a, word),
             outcome = "invalid" => winner[k] # a /\ code = "REPLAY_DETECTED",
             outcome = "valid" => winner[k] = a,
             outcome = "inconclusive" => code = "REPLAY_STORE_UNAVAILABLE"
      PROVE  ValidationInv'
  <2> DEFINE r == [me EXCEPT !.step = "done", !.outcome = outcome, !.code = code,
                             !.endedAt = time]
  <2>1. r \in AttemptRecords
    BY <1>1 DEF AttemptRecords, Validation!Steps, Validation!Outcomes
  <2>2. Validation!Moves(a, r) /\ UNCHANGED <<time, mandate, passive, signed, winner>>
    BY <1>3 DEF Validation!Ends, Validation!Told
  <2>3. /\ attempt' \in [Attempts -> AttemptRecords] /\ attempt'[a] = r
        /\ \A d \in Attempts : d # a => attempt'[d] = attempt[d]
    BY <2>1, <2>2 DEF Validation!Moves, ValidationInv, ValidationTypes
  <2>4. /\ r.step = "done" /\ r.outcome = outcome /\ r.code = code /\ r.quote = me.quote
        /\ r.mode = me.mode /\ r.deadline = me.deadline /\ r.decidedAt = me.decidedAt
    BY <1>1 DEF AttemptRecords
  <2> HIDE DEF r
  <2>5. /\ answer' \in [Validation!Keys -> [Attempts -> {"none", "won", "lost", "thrown"}]]
        /\ \A l \in Validation!Keys, d \in Attempts : d # a => answer'[l][d] = answer[l][d]
    BY <1>3 DEF Validation!Told, ValidationInv, ValidationTypes
  <2>6. Validation!InTime(a)'
    BY <1>1, <2>2, <2>3, <2>4 DEF Validation!InTime
  <2>7. Validation!ReplayKey(a)' = k
    BY <2>3, <2>4 DEF Validation!ReplayKey, k
  <2>8. Knows(a)'
    BY <1>1, <1>2, <1>3, <2>2, <2>3, <2>4, <2>6, <2>7
    DEF Knows, Holding, Validation!Good, Validation!Valid, Validation!Outcomes,
        Validation!Keys, Validation!Numbers
  <2>9. ASSUME NEW d \in Attempts
        PROVE  Knows(d)'
    <3>1. CASE d = a
      BY <2>8, <3>1
    <3>2. CASE d # a
      BY <1>1, <2>2, <2>3, <3>2, KnowsStays
    <3> QED
      BY <3>1, <3>2
  <2>10. ASSUME NEW l \in Validation!Keys', winner'[l] # None
         PROVE  (/\ Validation!ReplayKey(winner[l]) = l
                 /\ attempt[winner[l]].step \in {"claim", "dead", "done"}
                 /\ Validation!SpentRightly(l))'
    <3>1. /\ l \in Validation!Keys /\ winner[l] \in Attempts /\ winner'[l] = winner[l]
          /\ Validation!ReplayKey(winner[l]) = l
          /\ attempt[winner[l]].step \in {"claim", "dead", "done"}
          /\ Validation!SpentRightly(l)
      BY <2>2, <2>10
      DEF ValidationInv, ValidationTypes, SpentByHolder, Validation!Keys, Validation!Numbers
    <3>2. CASE winner[l] = a
      <4>1. l = k
        BY <3>1, <3>2 DEF k
      <4>2. outcome = "valid" \/ code = "REPLAY_STORE_UNAVAILABLE"
        BY <1>3, <3>2, <4>1
      <4> QED
        BY <1>1, <2>2, <2>3, <2>4, <2>7, <3>1, <3>2, <4>1, <4>2
        DEF Validation!SpentRightly
    <3>3. CASE winner[l] # a
      BY <2>2, <2>3, <3>1, <3>3 DEF Validation!SpentRightly, Validation!ReplayKey
    <3> QED
      BY <3>2, <3>3
  <2>11. SpentByHolder'
    BY <2>10 DEF SpentByHolder
  <2>12. AnsweredAreDone'
    BY <2>3, <2>4, <2>5
    DEF AnsweredAreDone, ValidationInv, Validation!Keys, Validation!Numbers
  <2> QED
    BY <2>2, <2>3, <2>5, <2>9, <2>11, <2>12
    DEF ValidationInv, ValidationTypes, Dated, SignedQuotes, AttemptRecords,
        Validation!Keys, Validation!Numbers
<1> QED
  BY <1>2, <1>3 DEF Validation!Claim, Codes

\* A kill between two steps leaves what was spent.
LEMMA KillKeeps ==
    ASSUME ValidationInv, NEW a \in Attempts, Validation!Die(a)
    PROVE  ValidationInv'
<1> DEFINE r == [attempt[a] EXCEPT !.step = "dead"]
<1>1. /\ attempt[a] \in AttemptRecords /\ time \in Int
      /\ attempt[a].step \notin {"idle", "done", "dead"}
      /\ attempt[a].outcome \notin Validation!Outcomes
      /\ attempt[a].quote \in signed \cup {None}
  BY DEF Validation!Die, ValidationInv, ValidationTypes, Knows
<1>2. /\ Validation!Moves(a, r)
      /\ UNCHANGED <<time, mandate, passive, signed, winner, answer>>
  BY DEF Validation!Die, Validation!Goes, Validation!store
<1>3. r \in AttemptRecords /\ r.step = "dead" /\ r.outcome = attempt[a].outcome
      /\ r.quote = attempt[a].quote /\ r.mode = attempt[a].mode
      /\ r.decidedAt = attempt[a].decidedAt
  BY <1>1 DEF AttemptRecords, Validation!Steps
<1> HIDE DEF r
<1>4. /\ attempt' \in [Attempts -> AttemptRecords] /\ attempt'[a] = r
      /\ \A d \in Attempts : d # a => attempt'[d] = attempt[d]
  BY <1>2, <1>3 DEF Validation!Moves, ValidationInv, ValidationTypes
<1>5. ASSUME NEW d \in Attempts
      PROVE  Knows(d)'
  <2>1. CASE d = a
    BY <1>1, <1>2, <1>3, <1>4, <2>1
    DEF Knows, Holding, Validation!Good, Validation!Valid, Validation!Outcomes
  <2>2. CASE d # a
    BY <1>1, <1>2, <1>4, <2>2, KnowsStays
  <2> QED
    BY <2>1, <2>2
<1>6. SpentByHolder'
  BY <1>1, <1>2, <1>3, <1>4
  DEF ValidationInv, ValidationTypes, SpentByHolder, Validation!SpentRightly,
      Validation!ReplayKey, Validation!Keys, Validation!Numbers
<1>7. AnsweredAreDone'
  BY <1>1, <1>2, <1>4
  DEF ValidationInv, AnsweredAreDone, Validation!Keys, Validation!Numbers
<1> QED
  BY <1>2, <1>4, <1>5, <1>6, <1>7
  DEF ValidationInv, ValidationTypes, Dated, SignedQuotes, AttemptRecords,
      Validation!Keys, Validation!Numbers

\* A second passes, or nothing does.
LEMMA TickKeeps ==
    ASSUME ValidationInv, Validation!Tick \/ UNCHANGED validating
    PROVE  ValidationInv'
<1>1. /\ time' \in From..MaxTime /\ time <= time' /\ time \in Int
      /\ UNCHANGED <<mandate, passive, signed, attempt, winner, answer>>
  BY ValidationAssumption
  DEF Validation!Tick, Validation!store, validating, ValidationInv, ValidationTypes,
      Validation!QuoteAssumption
<1>2. ASSUME NEW b \in Attempts
      PROVE  Knows(b)'
  BY <1>1, KnowsStays
<1>3. Dated'
  BY <1>1 DEF Dated, ValidationInv, ValidationTypes, SignedQuotes
<1> QED
  BY <1>1, <1>2, <1>3
  DEF ValidationInv, ValidationTypes, SpentByHolder, AnsweredAreDone, SignedQuotes,
      AttemptRecords, Validation!SpentRightly, Validation!ReplayKey, Validation!Keys,
      Validation!Numbers

\* The invariant holds at first.
LEMMA NothingIsValidated == Validation!Init => ValidationInv
<1> SUFFICES ASSUME Validation!Init
             PROVE  ValidationInv
  OBVIOUS
<1>1. /\ None \notin Attempts /\ None \notin Validation!Outcomes
      /\ From \in Nat /\ MaxTime \in Nat /\ From <= MaxTime
  BY ValidationAssumption
  DEF Validation!QuoteAssumption, Validation!Words, Validation!Outcomes
<1>2. IsFiniteSet(signed) /\ signed = {} /\ time = From
  BY FS_EmptySet DEF Validation!Init
<1>3. Validation!Idle = [step |-> "idle", mode |-> None, deadline |-> 0, quote |-> None,
          validatedAt |-> 0, decidedAt |-> 0, outcome |-> None, code |-> None, endedAt |-> 0]
  BY DEF Validation!Idle, Validation!Unquoted
<1>4. Validation!Idle \in AttemptRecords
  BY <1>3 DEF AttemptRecords, Validation!Steps, Codes
<1>5. ValidationTypes
  BY <1>1, <1>2, <1>4 DEF Validation!Init, ValidationTypes
<1>6. ASSUME NEW a \in Attempts
      PROVE  Knows(a)
  BY <1>1, <1>3
  DEF Validation!Init, Knows, Holding, Validation!Good, Validation!Valid, Validation!Outcomes
<1>7. SpentByHolder /\ AnsweredAreDone
  BY DEF Validation!Init, SpentByHolder, AnsweredAreDone
<1> QED
  BY <1>2, <1>5, <1>6, <1>7 DEF ValidationInv, Dated

\* Every step of the validations keeps the invariant.
LEMMA ValidationKeeps == ValidationInv /\ [Validation!Next]_validating => ValidationInv'
<1> SUFFICES ASSUME ValidationInv, [Validation!Next]_validating
             PROVE  ValidationInv'
  OBVIOUS
<1>1. CASE Validation!Tick \/ UNCHANGED validating
  BY <1>1, TickKeeps
<1>2. ASSUME NEW a \in Attempts,
             Validation!Prepare(a) \/ Validation!Work(a) \/ Validation!Die(a)
      PROVE  ValidationInv'
  BY <1>2, PreflightKeeps, AnswerKeeps, NoAnswerKeeps, ValidateKeeps, SignatureKeeps,
     GateKeeps, DecideKeeps, ConsumeKeeps, ClaimedKeeps, KillKeeps
  DEF Validation!Work
<1> QED
  BY <1>1, <1>2 DEF Validation!Next

-----------------------------------------------------------------------------
(* What follows for the validations, alone and as a scene of the instance. *)

\* The invariant says what a validation promises.
LEMMA ValidationIsGood ==
    ValidationInv => /\ Validation!TypeOK /\ Validation!OneValidPerQuote
                     /\ Validation!GoodWasInTime /\ Validation!HonestIsNotRefused
                     /\ Validation!OnlyDecidedSpend
<1> SUFFICES ASSUME ValidationInv
             PROVE  /\ Validation!TypeOK /\ Validation!OneValidPerQuote
                    /\ Validation!GoodWasInTime /\ Validation!HonestIsNotRefused
                    /\ Validation!OnlyDecidedSpend
  OBVIOUS
<1>1. None \notin Attempts
  BY ValidationAssumption DEF Validation!QuoteAssumption
<1>2. \A a \in Attempts : Knows(a) /\ attempt[a] \in AttemptRecords
  BY DEF ValidationInv, ValidationTypes
<1>3. Validation!OneValidPerQuote
  <2> SUFFICES ASSUME NEW a \in Attempts, NEW b \in Attempts,
                      Validation!Valid(a), Validation!Valid(b), a # b,
                      attempt[a].quote.number = attempt[b].quote.number
               PROVE  FALSE
    BY DEF Validation!OneValidPerQuote
  <2>1. Validation!ReplayKey(a) = Validation!ReplayKey(b)
    BY DEF Validation!ReplayKey
  <2> QED
    BY <1>2, <2>1 DEF Knows
<1>4. Validation!GoodWasInTime
  BY <1>2 DEF Validation!GoodWasInTime, Knows
<1>5. Validation!HonestIsNotRefused
  BY <1>2 DEF Validation!HonestIsNotRefused, Knows
<1>6. Validation!OnlyDecidedSpend
  BY DEF Validation!OnlyDecidedSpend, ValidationInv, SpentByHolder
<1> QED
  BY <1>2, <1>3, <1>4, <1>5, <1>6
  DEF Validation!TypeOK, ValidationInv, ValidationTypes, Knows, AttemptRecords

\* What a step does to the record of one quote is a step of ReplayClaim.
LEMMA StoreIsKept == ValidationInv /\ [Validation!Next]_validating => Validation!KeepsToTheStore
<1> SUFFICES ASSUME ValidationInv, [Validation!Next]_validating, NEW k \in Validation!Keys
             PROVE  Validation!Store(k)!CNext \/ UNCHANGED <<winner[k], answer[k]>>
  BY DEF Validation!KeepsToTheStore
<1>1. CASE UNCHANGED <<winner, answer>>
  BY <1>1
<1>2. ASSUME NEW a \in Attempts, Validation!Consume(a)
      PROVE  Validation!Store(k)!CNext \/ UNCHANGED <<winner[k], answer[k]>>
  <2>1. /\ attempt[a].step = "claim" /\ Validation!Winner(a) = None
        /\ winner' = [winner EXCEPT ![Validation!ReplayKey(a)] = a] /\ answer' = answer
    BY <1>2 DEF Validation!Consume, Validation!At
  <2>2. winner[Validation!ReplayKey(a)] = None
    BY <2>1, KeyOfHolder
  <2>3. answer[k][a] = "none"
    BY <2>1 DEF ValidationInv, AnsweredAreDone
  <2>4. CASE k = Validation!ReplayKey(a)
    <3>1. Validation!Store(k)!Consume(a)
      BY <2>1, <2>2, <2>3, <2>4
      DEF Validation!Store!Consume, ValidationInv, ValidationTypes
    <3> QED
      BY <3>1 DEF Validation!Store!CNext
  <2>5. CASE k # Validation!ReplayKey(a)
    BY <2>1, <2>5 DEF ValidationInv, ValidationTypes
  <2> QED
    BY <2>4, <2>5
<1>3. ASSUME NEW a \in Attempts, Validation!Claim(a)
      PROVE  Validation!Store(k)!CNext \/ UNCHANGED <<winner[k], answer[k]>>
  <2>1. attempt[a].step = "claim" /\ winner' = winner
    BY <1>3 DEF Validation!Claim, Validation!At, Validation!Told
  <2>2. /\ Validation!ReplayKey(a) \in Validation!Keys
        /\ Validation!Winner(a) = winner[Validation!ReplayKey(a)]
    BY <2>1, KeyOfHolder
  <2>3. answer[k][a] = "none"
    BY <2>1 DEF ValidationInv, AnsweredAreDone
  <2>4. PICK word : /\ Validation!Told(a, word)
                    /\ \/ word = "won" /\ Validation!Winner(a) = a
                       \/ word = "lost" /\ Validation!Winner(a) \notin {a, None}
                       \/ word = "thrown"
    BY <1>3 DEF Validation!Claim
  <2>5. CASE k = Validation!ReplayKey(a)
    <3>1. answer'[k] = [answer[k] EXCEPT ![a] = word]
      BY <2>4, <2>5 DEF Validation!Told, ValidationInv, ValidationTypes
    <3>2. Validation!Store(k)!Win(a) \/ Validation!Store(k)!Lose(a) \/ Validation!Store(k)!Throw(a)
      BY <2>1, <2>2, <2>3, <2>4, <2>5, <3>1
      DEF Validation!Store!Win, Validation!Store!Lose, Validation!Store!Throw
    <3> QED
      BY <3>2 DEF Validation!Store!CNext
  <2>6. CASE k # Validation!ReplayKey(a)
    BY <2>1, <2>4, <2>6 DEF Validation!Told, ValidationInv, ValidationTypes
  <2> QED
    BY <2>5, <2>6
<1>4. CASE UNCHANGED validating
  BY <1>1, <1>4 DEF validating
<1>5. CASE Validation!Tick
  BY <1>1, <1>5 DEF Validation!Tick, Validation!store
<1>6. ASSUME NEW a \in Attempts,
             \/ Validation!Prepare(a) \/ Validation!Answer(a) \/ Validation!NoAnswer(a)
             \/ Validation!Validate(a) \/ Validation!Signature(a) \/ Validation!Gate(a)
             \/ Validation!Decide(a) \/ Validation!Die(a)
      PROVE  UNCHANGED <<winner, answer>>
  BY <1>6
  DEF Validation!Prepare, Validation!Answer, Validation!NoAnswer, Validation!Validate,
      Validation!Signature, Validation!Gate, Validation!Decide, Validation!Die,
      Validation!Goes, Validation!Fails, Validation!store
<1> QED
  BY <1>1, <1>2, <1>3, <1>4, <1>5, <1>6 DEF Validation!Next, Validation!Work

\* validateTrustedQuote: whatever the agents and the other attempts do, a quote is called
\* valid once, in time, and what is honest is not turned away.
THEOREM EveryValidationIsSound ==
    Validation!Spec => [](/\ Validation!TypeOK /\ Validation!OneValidPerQuote
                          /\ Validation!GoodWasInTime /\ Validation!HonestIsNotRefused
                          /\ Validation!OnlyDecidedSpend)
<1>1. Validation!Spec => []ValidationInv
  <2>1. ValidationInv /\ [Validation!Next]_(Validation!vars) => ValidationInv'
    BY ValidationKeeps DEF Validation!vars, validating
  <2> QED
    BY <2>1, NothingIsValidated, PTL DEF Validation!Spec
<1> QED
  BY <1>1, ValidationIsGood, PTL

\* While the validations run, every step of the instance is one of theirs.
LEMMA SceneKeeps ==
    ASSUME Validating => ValidationInv, [MCNext]_<<vars, scene, validating>>
    PROVE  /\ (Validating => ValidationInv)'
           /\ Validating => Validation!KeepsToTheStore
<1>1. scene' = scene
  BY DEF MCNext
<1>2. Validating => [Validation!Next]_validating
  BY DEF MCNext, Validating
<1> QED
  BY <1>1, <1>2, ValidationKeeps, StoreIsKept DEF Validating

LEMMA SceneInvariant == MCSpec => [](Validating => ValidationInv)
<1>1. MCInit => (Validating => ValidationInv)
  BY NothingIsValidated DEF MCInit, Validating
<1> QED
  BY <1>1, SceneKeeps, PTL DEF MCSpec

\* However many attempts hold one quote, one of them at most is told that it is valid, each
\* in time and after all else was decided, and no honest agent is turned away.
THEOREM EveryValidationSpendsOnce == MCSpec => []ValidationsSpendOnce
<1>1. (Validating => ValidationInv) => ValidationsSpendOnce
  BY ValidationIsGood
  DEF ValidationsSpendOnce, ScenesTypeOK, GoodWasInTime, HonestIsNotRefused,
      OneValidPerQuote, OnlyDecidedSpend
<1> QED
  BY <1>1, SceneInvariant, PTL

\* replay.ts as the validations use it: for every quote, what they do is what ReplayClaim
\* lets its callers do.
THEOREM EveryClaimIsAsPromised == MCSpec => SpendsAsPromised
<1>1. (Validating => ValidationInv) /\ [MCNext]_<<vars, scene, validating>>
        => [Validating => Validation!KeepsToTheStore]_<<scene, winner, answer>>
  BY SceneKeeps
<1> QED
  BY <1>1, SceneInvariant, PTL DEF MCSpec, SpendsAsPromised
=============================================================================
