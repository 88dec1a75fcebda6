--------------------------- MODULE CategoryQuote ---------------------------
(***************************************************************************)
(* The authenticated quote of a category candidate                         *)
(* (agent-supply-verifier/src/category/quote.ts), as the orchestrator asks *)
(* for it: the window of a challenge is opened, the candidate's identity is*)
(* captured in a snapshot, the challenge goes to the candidate's endpoint, *)
(* and what comes back is verified, with an await in the middle when the   *)
(* owner is a contract.  An endpoint may answer with anything it has: its  *)
(* own signature or another's, over this challenge or an earlier one.  A   *)
(* digest is the thing it is the digest of.                                *)
(***************************************************************************)
EXTENDS CandidateIdentity

CONSTANTS
    Request,         \* Request[c]: what workflow c asks a quote for
    Signers,         \* the accounts that sign
    Ttl,             \* MAX_CATEGORY_QUOTE_TTL_SECONDS
    IdentityAge      \* MAX_CATEGORY_IDENTITY_AGE_SECONDS

\* What a candidate is asked, and who it is for.
Windows == [id : {Request[c].id : c \in Captures}, skew : Nat, issuedAt : Nat,
            expiresAt : Nat, permissionsExpiresAt : Nat]
Identities == [status : {"verified"}, block : DeepBlocks, owner : Signers,
               kind : {"eoa", "erc1271"}, observedAt : Nat]
Challenges == [request : Windows, identity : Identities]

QuoteAssumption ==
    /\ {Ttl, IdentityAge} \subseteq Nat
    /\ \A c \in Captures : {Request[c].expiresAt, Request[c].permissionsExpiresAt,
                            Request[c].skew} \subseteq Nat
    /\ \A s \in Scenes : s.owner \in Signers \cup {None}
    /\ None \notin Challenges

VARIABLE quote       \* quote[c]: the quote of workflow c
vars == <<branch, height, forks, world, now, capture, quote>>

Unasked == [step |-> "idle", expected |-> None, challenge |-> None, envelope |-> None]
Asking == {"window", "fetch", "signature", "answered"}
Init == IdentityInit /\ quote = [c \in Captures |-> Unasked]

Min2(a, b) == IF a <= b THEN a ELSE b
Moves(c, record) == quote' = [quote EXCEPT ![c] = record] /\ UNCHANGED identityVars
Refuses(c) == Moves(c, [quote[c] EXCEPT !.step = "refused"])

-----------------------------------------------------------------------------
(* The challenge.                                                          *)

\* deriveCategoryQuoteChallengeWindow, before the snapshot is opened.
Window(c) ==
    LET expiresAt == Min2(Request[c].expiresAt, now + Ttl)
        permissions == Min2(Request[c].permissionsExpiresAt, expiresAt)
    IN  /\ quote[c].step = "idle"
        /\ IF expiresAt <= now \/ permissions <= now THEN Refuses(c)
           ELSE Moves(c, [quote[c] EXCEPT !.step = "window",
                  !.expected = [id |-> Request[c].id, skew |-> Request[c].skew,
                                issuedAt |-> now, expiresAt |-> expiresAt,
                                permissionsExpiresAt |-> permissions]])

\* The identity is captured in the snapshot the workflow has opened by then.
Capture(c) ==
    /\ quote[c].step = "window"
    /\ \E anchor \in Anchors \ {None} : Start(c, anchor)
    /\ UNCHANGED quote

\* buildCategoryQuoteChallenge: what is asked, and of whom.
Challenge(c) ==
    /\ quote[c].step = "window" /\ At(c, "done")
    /\ IF ~Verified(c) THEN Refuses(c)
       ELSE Moves(c, [quote[c] EXCEPT !.step = "fetch",
              !.challenge = [request |-> quote[c].expected, identity |-> capture[c].result]])

Issued == {quote[c].challenge : c \in Captures} \ {None}

\* What an endpoint may answer: a challenge and a response to one, in its own
\* window, naming a provider, and signed.
Envelopes ==
    {e \in [challenge : Issued, answers : Issued, provider : Signers, kind : {"eoa", "erc1271"},
            negotiatedAt : 0..MaxTime, quoteExpiresAt : 0..MaxTime + 1, signer : Signers] :
        e.negotiatedAt < e.quoteExpiresAt}

-----------------------------------------------------------------------------
(* Verification.                                                           *)

\* Mutant: a challenge for another request is taken.
Mutant_AnyRequest(c, envelope) == TRUE

\* assertExpectedRequest
ExpectedRequest(c, envelope) == envelope.challenge.request = quote[c].expected

\* assertChallengeIdentity, its provider and domain aside
ChallengeIdentity(c, envelope) == envelope.challenge.identity = capture[c].result

\* assertProviderAuthority
ProviderAuthority(c, envelope) ==
    /\ envelope.provider = capture[c].result.owner
    /\ envelope.kind = capture[c].result.kind

\* Mutant: the quote may outlive the challenge it answers.
Mutant_LongLived(c, envelope) ==
    LET request == envelope.challenge.request  observedAt == capture[c].result.observedAt
    IN  /\ request.issuedAt <= now + request.skew /\ now < request.expiresAt
        /\ now < envelope.quoteExpiresAt
        /\ envelope.negotiatedAt >= request.issuedAt - request.skew
        /\ envelope.negotiatedAt <= now + request.skew
        /\ observedAt <= now + request.skew /\ now - observedAt <= IdentityAge

\* Mutant: the skew is taken off where it should be added.
Mutant_SkewSwapped(c, envelope) ==
    LET request == envelope.challenge.request
        observedAt == capture[c].result.observedAt
    IN  /\ request.issuedAt <= now + request.skew /\ now < request.expiresAt
        /\ now < envelope.quoteExpiresAt
        /\ request.issuedAt >= observedAt + request.skew
        /\ envelope.negotiatedAt >= request.issuedAt - request.skew
        /\ envelope.negotiatedAt <= now + request.skew
        /\ envelope.quoteExpiresAt <= request.expiresAt
        /\ envelope.quoteExpiresAt <= request.permissionsExpiresAt
        /\ envelope.quoteExpiresAt - envelope.negotiatedAt <= Ttl
        /\ observedAt <= now + request.skew /\ now - observedAt <= IdentityAge

\* assertChronology
Chronology(c, envelope) ==
    LET request == envelope.challenge.request
        observedAt == capture[c].result.observedAt
    IN  /\ request.issuedAt <= now + request.skew /\ now < request.expiresAt
        /\ now < envelope.quoteExpiresAt
        /\ request.issuedAt >= observedAt - request.skew
        /\ envelope.negotiatedAt >= request.issuedAt - request.skew
        /\ envelope.negotiatedAt <= now + request.skew
        /\ envelope.quoteExpiresAt <= request.expiresAt
        /\ envelope.quoteExpiresAt <= request.permissionsExpiresAt
        /\ envelope.quoteExpiresAt - envelope.negotiatedAt <= Ttl
        /\ observedAt <= now + request.skew /\ now - observedAt <= IdentityAge

\* categoryQuoteCommitments: the response names the challenge it came with.
Committed(envelope) == envelope.answers = envelope.challenge

Acceptable(c, envelope) ==
    /\ ExpectedRequest(c, envelope) /\ ChallengeIdentity(c, envelope)
    /\ ProviderAuthority(c, envelope) /\ Chronology(c, envelope) /\ Committed(envelope)

\* The answer arrives and is verified up to its signature, at one instant.
Fetch(c) ==
    /\ quote[c].step = "fetch"
    /\ \/ Refuses(c)    \* no answer, or one to another request
       \/ \E envelope \in Envelopes :
            /\ Acceptable(c, envelope)
            /\ Moves(c, [quote[c] EXCEPT !.step = "signature", !.envelope = envelope])

\* recoverMessageAddress, or the contract asked at the identity's block, which
\* has no answer once that block is gone.
Signature(c) ==
    /\ quote[c].step = "signature"
    /\ \/ /\ quote[c].envelope.signer = capture[c].result.owner
          /\ capture[c].result.kind = "erc1271" => Canonical(capture[c].result.block)
          /\ Moves(c, [quote[c] EXCEPT !.step = "answered"])
       \/ /\ quote[c].envelope.signer # capture[c].result.owner
             \/ capture[c].result.kind = "erc1271"
          /\ Refuses(c)

\* Mutant: the clock is not read again after the await.
Mutant_NoSecondClock(c) ==
    /\ quote[c].step = "answered"
    /\ Moves(c, [quote[c] EXCEPT !.step = "verified"])

\* The clock has moved on while the signature was looked at.
Verify(c) ==
    /\ quote[c].step = "answered"
    /\ IF Chronology(c, quote[c].envelope) THEN Moves(c, [quote[c] EXCEPT !.step = "verified"])
       ELSE Refuses(c)

Chain == (Tick \/ Mine \/ Reorganize) /\ UNCHANGED quote
Step(c) ==
    \/ Window(c) \/ Capture(c) \/ (Read(c) /\ UNCHANGED quote)
    \/ Challenge(c) \/ Fetch(c) \/ Signature(c) \/ Verify(c)

QuoteNext == Chain \/ \E c \in Captures : Step(c)
QuoteSpec == Init /\ [][QuoteNext]_vars

-----------------------------------------------------------------------------
(* What a verified quote says.                                             *)

Accepted(c) == quote[c].step = "verified"

QuoteTypeOK ==
    /\ TypeOK
    /\ \A c \in Captures :
        /\ quote[c].step \in Asking \cup {"idle", "refused", "verified"}
        /\ quote[c].step \in {"signature", "answered", "verified"} => Verified(c)
        \* what categoryQuoteChallengeSchema asks of a challenge's window
        /\ quote[c].expected # None =>
            LET w == quote[c].expected
            IN  /\ w.issuedAt < w.expiresAt /\ w.expiresAt - w.issuedAt <= Ttl
                /\ w.issuedAt < w.permissionsExpiresAt /\ w.permissionsExpiresAt <= w.expiresAt

\* A verified quote was signed by the account that owned the candidate at the
\* identity's block, as an answer to this very request put to this very
\* identity: an answer another workflow got, or one got for an identity since
\* transferred, is not taken for it (verifyAccepted).
SignedForThisRequest ==
    \A c \in Captures : Accepted(c) =>
        LET envelope == quote[c].envelope
        IN  /\ envelope.signer = world[capture[c].result.block].owner
            /\ envelope.answers.request.id = Request[c].id
            /\ envelope.answers.identity.owner = envelope.signer

\* When a quote is handed out it has not lapsed, nor has the challenge, and the
\* block its owner was read from is no older than an identity may be, however
\* long the provider and the node took (assertChronology, called twice).
HandsOutInTime ==
    \A c \in Captures : ~Accepted(c) /\ Accepted(c)' =>
        /\ now < quote[c].envelope.quoteExpiresAt
        /\ now < quote[c].challenge.request.expiresAt
        /\ now - Time(capture[c].result.block) <= IdentityAge

\* A verified quote lapses with the request and with the permissions it was
\* asked under, and soon after the block that names its owner.
LapsesInTime ==
    \A c \in Captures : Accepted(c) =>
        LET expiry == quote[c].envelope.quoteExpiresAt
        IN  /\ expiry <= Request[c].expiresAt /\ expiry <= Request[c].permissionsExpiresAt
            /\ expiry <= Time(capture[c].result.block) + IdentityAge + Ttl

\* An honest candidate that answers at once, while the window it was sent is
\* open and the identity young, can be accepted: the checks leave room, unless
\* the snapshot was pinned later than the skew allows after the window opened.
HonestAnswerFits ==
    \A c \in Captures :
        /\ quote[c].step = "fetch"
        /\ now < quote[c].expected.permissionsExpiresAt
        /\ now - capture[c].result.observedAt <= IdentityAge
        /\ Time(capture[c].result.block) <= quote[c].expected.issuedAt + quote[c].expected.skew
        => \E envelope \in Envelopes :
              /\ envelope.signer = capture[c].result.owner /\ envelope.negotiatedAt = now
              /\ Acceptable(c, envelope)

=============================================================================
