--------------------------- MODULE ActivationOffer ---------------------------
(***************************************************************************)
(* From a passing preview to a stored activation: prepareTrustedActivation *)
(* (agent-supply-verifier/src/activation/offer.ts) as prepare-create runs  *)
(* it, with prepareCreateActivation, the capture of the intent and the     *)
(* bootstrap of the store, several times over and beside the plain         *)
(* validation of the same quotes.                                          *)
(*                                                                         *)
(* It joins what other modules have in detail: TrustedQuote and            *)
(* ExecutionPreview lead to the preview, ReplayStore and ActivationStore   *)
(* are the claim and the installation here, ActivationJournal goes on from *)
(* the head.  A block's number is its time.  Nodes may lag.                *)
(***************************************************************************)
EXTENDS Integers, Sequences

CONSTANTS
    Calls,
    Options,            \* [deadline, jobExpiresAt, owner]: of the plan and of the command
    MinRemaining,       \* minimumQuoteRemainingSeconds("PREPARED_CREATE")
    Dispute,            \* the dispute window, and three hundred seconds
    Buffer,             \* PREVIEW_FINAL_BUFFER_SECONDS
    Ttls,               \* how long a quote is open
    Depth,              \* ACTIVATION_CONFIRMATION_DEPTH, and the preview's
    Lag,                \* by how much a node may be behind
    Start, MaxHeight, MaxQuotes,   \* bounds
    None

ASSUME OfferAssumption ==
    /\ {MinRemaining, Dispute, Buffer, Depth, Lag, Start, MaxHeight, MaxQuotes} \subseteq Nat
    /\ Ttls \subseteq Nat /\ Depth + Lag <= Start
    /\ None \notin Calls \cup {"plain", "later", "stored", "valid"}
    /\ {"plain", "later"} \cap Calls = {}

VARIABLES
    height,     \* of the chain
    quotes,     \* what the agent has signed, in order: [negotiatedAt, expiresAt, free]
    marker,     \* of each quote: what the replay store holds, a call, "plain" or None
    head,       \* of each quote's activation: the call whose snapshot is first, or "later"
    call

vars == <<height, quotes, marker, head, call>>

Numbers == 1..MaxQuotes
Idle == [step |-> "idle", quote |-> 0, options |-> None, preview |-> 0, deployment |-> 0,
         snapshot |-> None, outcome |-> None]

At(c, step) == call[c].step = step
Moves(c, record) == call' = [call EXCEPT ![c] = record]
Signed == DOMAIN quotes

\* The block that a node reports as confirmed.
Confirmed == {h - Depth : h \in height - Lag..height}

Least(a, b) == IF a < b THEN a ELSE b

\* activationPreview: the least of the windows.
ValidUntil(c) == Least(quotes[call[c].quote].expiresAt, call[c].options.deadline)

\* What the code does with an error after the claim was asked for.
Unavailable(c) ==
    /\ Moves(c, [call[c] EXCEPT !.step = "done", !.outcome = "inconclusive"])
    /\ UNCHANGED <<height, quotes, marker, head>>

Goes(c, record) == Moves(c, record) /\ UNCHANGED <<height, quotes, marker, head>>

-----------------------------------------------------------------------------
(* The checks.                                                             *)

\* assertQuoteWindow, assertPreviewWindow, assertPreviewPrecedesDeployment and
\* assertJobExpiry of the snapshot of one call, at a deployment block.
Open(c, block) ==
    LET q == quotes[call[c].quote]
        end == ValidUntil(c)
    IN  /\ block >= q.negotiatedAt /\ q.expiresAt - block >= MinRemaining
        /\ call[c].preview <= block /\ end - block >= MinRemaining
        /\ call[c].options.jobExpiresAt > Dispute + (IF end > block THEN end ELSE block)

\* assertBootstrapSemantics: the same quote, plan, expiry of the job and owner.
SameTerms(c, d) ==
    call[c].quote = call[d].quote /\ call[c].options = call[d].options

-----------------------------------------------------------------------------
(* A call.                                                                 *)

\* The agent hands out a quote, and the preview of the plan passes at a confirmed block;
\* the deadline of the plan is judged again when the quote is decided.
Preview(c) ==
    /\ At(c, "idle")
    /\ \E n \in Signed, o \in Options, b \in Confirmed :
        /\ o.deadline >= height + Buffer /\ o.deadline <= quotes[n].expiresAt
        /\ quotes[n].expiresAt > height
        /\ Goes(c, [call[c] EXCEPT !.step = "passed", !.quote = n, !.options = o,
                                   !.preview = b])

\* Mutant: the windows are the store's business.
Mutant_PrepareAnyway(c) ==
    /\ At(c, "passed")
    /\ \E block \in Confirmed :
        Goes(c, [call[c] EXCEPT !.step = "prepared", !.deployment = block])

\* replayCommit: the price, the deployment, prepareCreateActivation and the one intent
\* that the capturing wallet lets through.
Prepare(c) ==
    /\ At(c, "passed")
    /\ \/ \E block \in Confirmed :
            /\ quotes[call[c].quote].free /\ Open(c, block)
            /\ Goes(c, [call[c] EXCEPT !.step = "prepared", !.deployment = block])
       \/ ~quotes[call[c].quote].free /\ Unavailable(c)
       \/ /\ \E block \in Confirmed : ~Open(c, block)
          /\ Unavailable(c)
       \* the deployment cannot be observed
       \/ quotes[call[c].quote].free /\ Unavailable(c)

\* inspectActivation: another call's snapshot to recover, or nothing yet.
Inspect(c) ==
    /\ At(c, "prepared")
    /\ LET held == marker[call[c].quote]
       IN  IF held = None THEN Goes(c, [call[c] EXCEPT !.step = "staged"])
           ELSE IF held = "plain" THEN Unavailable(c)
           ELSE Goes(c, [call[c] EXCEPT !.step = "claimed", !.snapshot = held])

\* Mutant: the claim is this call's whoever came first.
Mutant_TakeOver(c) ==
    /\ At(c, "staged")
    /\ marker' = [marker EXCEPT ![call[c].quote] = c]
    /\ Moves(c, [call[c] EXCEPT !.step = "claimed", !.snapshot = c])
    /\ UNCHANGED <<height, quotes, head>>

\* claimActivation: first come, first served.
Claim(c) ==
    /\ At(c, "staged")
    /\ LET held == marker[call[c].quote]
       IN  IF held = None
           THEN /\ marker' = [marker EXCEPT ![call[c].quote] = c]
                /\ Moves(c, [call[c] EXCEPT !.step = "claimed", !.snapshot = c])
                /\ UNCHANGED <<height, quotes, head>>
           ELSE IF held = "plain" THEN Unavailable(c)
           ELSE Goes(c, [call[c] EXCEPT !.step = "claimed", !.snapshot = held])

\* Mutant: what the winner stored was checked by the winner.
Mutant_RecoverUnseen(c) ==
    /\ At(c, "claimed")
    /\ IF SameTerms(c, call[c].snapshot)
       THEN Goes(c, [call[c] EXCEPT !.step = "recovered"]) ELSE Unavailable(c)

\* Mutant: the quote is what matters.
Mutant_AnyTerms(c) ==
    /\ At(c, "claimed")
    /\ IF Open(call[c].snapshot, call[c].deployment)
       THEN Goes(c, [call[c] EXCEPT !.step = "recovered"]) ELSE Unavailable(c)

\* The winner's snapshot, as it is stored, against this call's own deployment.
Recover(c) ==
    /\ At(c, "claimed")
    /\ IF SameTerms(c, call[c].snapshot) /\ Open(call[c].snapshot, call[c].deployment)
       THEN Goes(c, [call[c] EXCEPT !.step = "recovered"]) ELSE Unavailable(c)

\* installReplayAuthorizedHead, under the lock.
Install(c) ==
    /\ At(c, "recovered")
    /\ LET n == call[c].quote
       IN  \/ /\ head[n] \in {None, call[c].snapshot}
              /\ head' = [head EXCEPT ![n] = call[c].snapshot]
              /\ Moves(c, [call[c] EXCEPT !.step = "done", !.outcome = "stored"])
              /\ UNCHANGED <<height, quotes, marker>>
           \/ head[n] \notin {None, call[c].snapshot} /\ Unavailable(c)

\* The quote command: the same quote, validated and no more.
ValidateOnly(c) ==
    /\ At(c, "idle")
    /\ \E n \in Signed :
        /\ quotes[n].expiresAt > height
        /\ IF marker[n] = None
           THEN /\ marker' = [marker EXCEPT ![n] = "plain"]
                /\ Moves(c, [call[c] EXCEPT !.step = "done", !.quote = n, !.outcome = "valid"])
           ELSE /\ Moves(c, [call[c] EXCEPT !.step = "done", !.quote = n,
                                            !.outcome = "invalid"])
                /\ UNCHANGED marker
    /\ UNCHANGED <<height, quotes, head>>

\* The process ends between two steps.
Die(c) ==
    /\ call[c].step \notin {"idle", "done"}
    /\ Goes(c, [call[c] EXCEPT !.step = "done", !.outcome = "killed"])

-----------------------------------------------------------------------------
(* What goes on around.                                                    *)

\* The agent signs a quote.
Sign ==
    /\ Len(quotes) < MaxQuotes
    /\ \E ttl \in Ttls, free \in BOOLEAN :
        quotes' = Append(quotes, [negotiatedAt |-> height, expiresAt |-> height + ttl,
                                  free |-> free])
    /\ UNCHANGED <<height, marker, head, call>>

\* The activation goes on: another generation is stored.
Advance ==
    /\ \E n \in Numbers :
        head[n] \notin {None, "later"} /\ head' = [head EXCEPT ![n] = "later"]
    /\ UNCHANGED <<height, quotes, marker, call>>

Mine == height < MaxHeight /\ height' = height + 1 /\ UNCHANGED <<quotes, marker, head, call>>

Init ==
    /\ height = Start
    /\ quotes = <<>>
    /\ marker = [n \in Numbers |-> None] /\ head = [n \in Numbers |-> None]
    /\ call = [c \in Calls |-> Idle]

Next ==
    \/ Sign \/ Advance \/ Mine
    \/ \E c \in Calls : \/ Preview(c) \/ Prepare(c) \/ Inspect(c) \/ Claim(c) \/ Recover(c)
                        \/ Install(c) \/ ValidateOnly(c) \/ Die(c)

Spec == Init /\ [][Next]_vars

-----------------------------------------------------------------------------
(* Properties.                                                             *)

Stored(c) == call[c].outcome = "stored"

\* A call works on a quote that was signed; a head is what the marker names, or later.
TypeOK ==
    /\ \A c \in Calls :
        /\ call[c].step # "idle" => call[c].quote \in Signed
        /\ call[c].snapshot \in Calls \cup {None}
        /\ call[c].step = "done" <=> call[c].outcome # None
    /\ \A n \in Numbers :
        /\ marker[n] \in Calls \cup {"plain", None}
        /\ head[n] = None \/ head[n] = "later" \/ head[n] = marker[n]

\* bootstrapActivationSnapshot: whatever intent is printed is open in every window, with
\* time for its four steps, by the block that the printing call itself observed.
PrintedIsInTime ==
    \A c \in Calls : Stored(c) => Open(call[c].snapshot, call[c].deployment)

\* offer.ts: a quote that cannot be activated, for its price or for the time, is not spent
\* on finding that out.
SpentIsPrepared ==
    \A n \in Numbers : marker[n] \in Calls =>
        LET c == marker[n]
        IN  quotes[n].free /\ call[c].quote = n /\ Open(c, call[c].deployment)

\* assertBootstrapSemantics: what a call prints is what its operator asked for, though
\* another call may have stored it.
PrintedAsAsked == \A c \in Calls : Stored(c) => SameTerms(c, call[c].snapshot)

\* replay.ts, store.ts: of all calls that hold one quote one alone has its intent printed,
\* by however many, and none does if the quote was reported valid.
OneUsePerQuote ==
    \A c, d \in Calls : Stored(c) /\ call[d].quote = call[c].quote =>
        /\ call[d].outcome # "valid"
        /\ Stored(d) => call[d].snapshot = call[c].snapshot

\* An intent that was printed is of terms as asked and was still open when it was.
PrintedIsSound == PrintedIsInTime /\ PrintedAsAsked

\* A quote is spent at most once, and only for an intent that had passed every other gate.
SpentIsSound == SpentIsPrepared /\ OneUsePerQuote
=============================================================================
