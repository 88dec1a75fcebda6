-------------------------- MODULE CategoryIssuance --------------------------
(***************************************************************************)
(* Issuance of a category attestation                                      *)
(* (marketplace-service/src/category-successor-orchestrator.ts), composed  *)
(* with the trust controller it asks for permits.                          *)
(*                                                                         *)
(* A workflow pins a block, observes the candidate at it, reserves the     *)
(* idempotency key of what it saw, obtains a permit, and under the fence of*)
(* the trust state and between checks that the block is still canonical    *)
(* signs the attestation and commits its record.  Every attempt has one    *)
(* number: it is the token of its reservation and names the attestation it *)
(* may sign.  All attempts are for one request and one quote, so the key is*)
(* the workflow's bundle and the block: the identity artifact, whose digest*)
(* the key covers, holds the hash of the block.                            *)
(***************************************************************************)
EXTENDS TrustController

CONSTANTS
  Workflows,    \* the callers that issue; the others only probe readiness
  Blocks,       \* the blocks that compete for the pinned height
  MaxAttempts   \* bound on the attempts to issue

ASSUME IssuanceAssumption ==
  /\ Workflows \subseteq Calls
  /\ Blocks # {}
  /\ MaxAttempts \in Nat

VARIABLES
  canonical,   \* the block that is canonical now
  store,       \* the issuance record of each idempotency key
  inFlight,    \* commits whose caller gave up waiting
  issue,       \* the attempt each workflow is making
  attempts,    \* the number of attempts made
  answered,    \* the attestations callers were given, by key
  abandoned    \* the reservations whose holder was killed or not told

issueVars == <<canonical, store, inFlight, issue, attempts, answered, abandoned>>
vars == <<trustVars, issueVars>>

IdempotencyKeys == Bundles \X Blocks
Attempts == 1..MaxAttempts
Free == [status |-> "free", by |-> 0]
Reservations == {Free} \cup [status : {"pending", "committed"}, by : Attempts]

\* The phases in which a workflow holds a reservation, and those under the fence.
Fenced == {"presign", "sign", "postsign", "finalize", "commit"}
Claimed == {"prepare", "permit", "enter", "release"} \cup Fenced
Phases == {"idle", "reserve", "recover", "recheck"} \cup Claimed

NoIssue == [phase |-> "idle", block |-> CHOOSE b \in Blocks : TRUE, attempt |-> 0]

TypeOK ==
  /\ TrustTypeOK
  /\ canonical \in Blocks
  /\ store \in [IdempotencyKeys -> Reservations]
  /\ inFlight \subseteq IdempotencyKeys \X Attempts
  /\ issue \in [Workflows -> [phase : Phases, block : Blocks, attempt : 0..MaxAttempts]]
  /\ attempts \in 0..MaxAttempts
  /\ answered \in [IdempotencyKeys -> SUBSET Attempts]
  /\ abandoned \subseteq Attempts

Init ==
  /\ TrustInit
  /\ canonical \in Blocks
  /\ store = [k \in IdempotencyKeys |-> Free]
  /\ inFlight = {}
  /\ issue = [w \in Workflows |-> NoIssue]
  /\ attempts = 0
  /\ answered = [k \in IdempotencyKeys |-> {}]
  /\ abandoned = {}

Key(w) == <<Wire[w], issue[w].block>>
Mine(w) == [status |-> "pending", by |-> issue[w].attempt]
Phase(w, phase) == issue' = [issue EXCEPT ![w].phase = phase]
Done(w) == issue' = [issue EXCEPT ![w] = NoIssue]
StillCanonical(w) == canonical = issue[w].block

\* The controller has answered the workflow's call.
Replied(w, reply) == call[w].pc = "idle" /\ call[w].reply = reply

Reorganize(b) ==
  /\ b # canonical
  /\ canonical' = b
  /\ UNCHANGED <<trustVars, store, inFlight, issue, attempts, answered, abandoned>>

-----------------------------------------------------------------------------
(* Observation and reservation *)

\* withOpaqueSnapshot pins a block; what is read there needs no state.
Pin(w) ==
  /\ issue[w].phase = "idle"
  /\ attempts < MaxAttempts
  /\ attempts' = attempts + 1
  /\ issue' = [issue EXCEPT ![w] = [phase |-> "reserve", block |-> canonical,
                                    attempt |-> attempts + 1]]
  /\ UNCHANGED <<trustVars, canonical, store, inFlight, answered, abandoned>>

\* Mutant: the token is the one of the attempt before.
ClaimStale(w) ==
  /\ issue[w].phase = "reserve"
  /\ store[Key(w)].status = "free"
  /\ store' = [store EXCEPT ![Key(w)] = [Mine(w) EXCEPT !.by = @ - 1]]
  /\ Phase(w, "prepare")
  /\ Begin(w, "prepare")
  /\ UNCHANGED <<canonical, inFlight, attempts, answered, abandoned>>

\* The key was free: the workflow holds it and has the bundle prepared.
Claim(w) ==
  /\ issue[w].phase = "reserve"
  /\ store[Key(w)].status = "free"
  /\ store' = [store EXCEPT ![Key(w)] = Mine(w)]
  /\ Phase(w, "prepare")
  /\ Begin(w, "prepare")
  /\ UNCHANGED <<canonical, inFlight, attempts, answered, abandoned>>

\* The answer to the reservation is lost: nobody knows its token.
LoseClaim(w) ==
  /\ issue[w].phase = "reserve"
  /\ store[Key(w)].status = "free"
  /\ store' = [store EXCEPT ![Key(w)] = Mine(w)]
  /\ Mishap
  /\ Done(w)
  /\ abandoned' = abandoned \cup {issue[w].attempt}
  /\ UNCHANGED <<trust, fence, late, call, permit, consumed,
                 canonical, inFlight, attempts, answered>>

\* ISSUANCE_IN_PROGRESS
InProgress(w) ==
  /\ issue[w].phase = "reserve"
  /\ store[Key(w)].status = "pending"
  /\ Done(w)
  /\ UNCHANGED <<trustVars, canonical, store, inFlight, attempts, answered, abandoned>>

\* A record exists: it is judged against the trust state of now.
Existing(w) ==
  /\ issue[w].phase = "reserve"
  /\ store[Key(w)].status = "committed"
  /\ Phase(w, "recover")
  /\ Begin(w, "prepare")
  /\ UNCHANGED <<canonical, store, inFlight, attempts, answered, abandoned>>

\* validateExistingIssuanceRecord, which may refuse (see Fail).
Recovered(w) ==
  /\ issue[w].phase = "recover"
  /\ \/ Replied(w, "ok") /\ Phase(w, "recheck")
     \/ Replied(w, "fail") /\ Done(w)
  /\ UNCHANGED <<trustVars, canonical, store, inFlight, attempts, answered, abandoned>>

Answer(w, n) == answered' = [answered EXCEPT ![Key(w)] = @ \cup {n}]

\* The check withOpaqueSnapshot ends with when nothing was finalized.
AnswerExisting(w) ==
  /\ issue[w].phase = "recheck"
  /\ StillCanonical(w)
  /\ Answer(w, store[Key(w)].by)
  /\ Done(w)
  /\ UNCHANGED <<trustVars, canonical, store, inFlight, attempts, abandoned>>

-----------------------------------------------------------------------------
(* Issuance *)

\* A commitment that does not fit the policy is a failure as well.
Prepared(w) ==
  /\ issue[w].phase = "prepare"
  /\ \/ Replied(w, "ok") /\ Phase(w, "permit") /\ Begin(w, "permit")
     \/ call[w].pc = "idle" /\ Phase(w, "release") /\ UNCHANGED trustVars
  /\ UNCHANGED <<canonical, store, inFlight, attempts, answered, abandoned>>

\* So is a permit that does not match the commitment.
Permitted(w) ==
  /\ issue[w].phase = "permit"
  /\ \/ Replied(w, "ok") /\ Phase(w, "enter") /\ AssertPermit(w, w)
     \/ call[w].pc = "idle" /\ Phase(w, "release") /\ UNCHANGED trustVars
  /\ UNCHANGED <<canonical, store, inFlight, attempts, answered, abandoned>>

\* withPermit runs the operation, or refuses a stale permit.
Entered(w) ==
  /\ issue[w].phase = "enter"
  /\ \/ call[w].pc = "inside" /\ Phase(w, "presign")
     \/ Replied(w, "fail") /\ Phase(w, "release")
  /\ UNCHANGED <<trustVars, canonical, store, inFlight, attempts, answered, abandoned>>

\* assertOpaqueCanonical before the attestation is given its identifier.
PreSign(w) ==
  /\ issue[w].phase = "presign"
  /\ StillCanonical(w)
  /\ Phase(w, "sign")
  /\ UNCHANGED <<trustVars, canonical, store, inFlight, attempts, answered, abandoned>>

Sign(w) ==
  /\ issue[w].phase = "sign"
  /\ Phase(w, "postsign")
  /\ UNCHANGED <<trustVars, canonical, store, inFlight, attempts, answered, abandoned>>

\* assertOpaqueCanonical, then the attestation is verified as a client would,
\* which fails once it or the bundle has expired (see FailFenced).
PostSign(w) ==
  /\ issue[w].phase = "postsign"
  /\ StillCanonical(w)
  /\ Phase(w, "finalize")
  /\ UNCHANGED <<trustVars, canonical, store, inFlight, attempts, answered, abandoned>>

\* finalizeOpaqueSnapshot: the last check, after which the commit is sent.
Finalize(w) ==
  /\ issue[w].phase = "finalize"
  /\ StillCanonical(w)
  /\ Phase(w, "commit")
  /\ UNCHANGED <<trustVars, canonical, store, inFlight, attempts, answered, abandoned>>

\* The store commits the record of the attempt that holds the reservation.
Commit(k, n) ==
  store' = IF store[k] = [status |-> "pending", by |-> n]
             THEN [store EXCEPT ![k].status = "committed"] ELSE store

\* The commit is taken and its caller told: the attestation is issued.
LandCommit(w) ==
  /\ issue[w].phase = "commit"
  /\ store[Key(w)] = Mine(w)
  /\ Commit(Key(w), issue[w].attempt)
  /\ Answer(w, issue[w].attempt)
  /\ Done(w)
  /\ LeaveFence(w, "ok")
  /\ UNCHANGED <<canonical, inFlight, attempts, abandoned>>

\* Mutant: a commit whose answer is lost is taken for a commit.
LoseCommitAnswered(w) ==
  /\ issue[w].phase = "commit"
  /\ Mishap
  /\ Leave(w, "fail")
  /\ inFlight' = inFlight \cup {<<Key(w), issue[w].attempt>>}
  /\ Answer(w, issue[w].attempt)
  /\ Phase(w, "release")
  /\ UNCHANGED <<canonical, store, attempts, abandoned>>

\* The commit throws; it may have been taken, or be taken yet.
LoseCommit(w) ==
  /\ issue[w].phase = "commit"
  /\ Mishap
  /\ Leave(w, "fail")
  /\ inFlight' = inFlight \cup {<<Key(w), issue[w].attempt>>}
  /\ Phase(w, "release")
  /\ UNCHANGED <<canonical, store, attempts, answered, abandoned>>

LandLateCommit(m) ==
  /\ m \in inFlight
  /\ inFlight' = inFlight \ {m}
  /\ Commit(m[1], m[2])
  /\ UNCHANGED <<trustVars, canonical, issue, attempts, answered, abandoned>>

-----------------------------------------------------------------------------
(* Failure *)

\* Before anything is claimed, a failure only ends the attempt.
FailUnclaimed(w) ==
  /\ issue[w].phase \in {"reserve", "recheck"}
  /\ Done(w)
  /\ UNCHANGED <<trustVars, canonical, store, inFlight, attempts, answered, abandoned>>

\* A check, the signer or a read fails under the fence, for whatever reason: the
\* block is gone, the attestation has expired, the signer does not answer.
FailFenced(w) ==
  /\ issue[w].phase \in Fenced \ {"commit"}
  /\ LeaveFence(w, "fail")
  /\ Phase(w, "release")
  /\ UNCHANGED <<canonical, store, inFlight, attempts, answered, abandoned>>

\* Mutant: an attempt that failed keeps its reservation.
ReleaseNothing(w) ==
  /\ issue[w].phase = "release"
  /\ Done(w)
  /\ UNCHANGED <<trustVars, canonical, store, inFlight, attempts, answered, abandoned>>

\* The reservation is given back, unless the record was committed after all.
Release(w) ==
  /\ issue[w].phase = "release"
  /\ store' = IF store[Key(w)] = Mine(w) THEN [store EXCEPT ![Key(w)] = Free] ELSE store
  /\ Done(w)
  /\ UNCHANGED <<trustVars, canonical, inFlight, attempts, answered, abandoned>>

\* The release fails and its error is swallowed.
LoseRelease(w) ==
  /\ issue[w].phase = "release"
  /\ Mishap
  /\ Done(w)
  /\ abandoned' = abandoned \cup {issue[w].attempt}
  /\ UNCHANGED <<trust, fence, late, call, permit, consumed,
                 canonical, store, inFlight, attempts, answered>>

Kill(w) ==
  /\ issue[w].phase # "idle"
  /\ KillCall(w)
  /\ inFlight' = IF issue[w].phase = "commit"
                   THEN inFlight \cup {<<Key(w), issue[w].attempt>>} ELSE inFlight
  /\ abandoned' = IF issue[w].phase \in Claimed
                    THEN abandoned \cup {issue[w].attempt} ELSE abandoned
  /\ Done(w)
  /\ UNCHANGED <<canonical, store, attempts, answered>>

-----------------------------------------------------------------------------

Observing(w) ==
  \/ Pin(w) \/ Claim(w) \/ LoseClaim(w) \/ InProgress(w)
  \/ Existing(w) \/ Recovered(w) \/ AnswerExisting(w)
Issuing(w) ==
  \/ Prepared(w) \/ Permitted(w) \/ Entered(w) \/ PreSign(w) \/ Sign(w)
  \/ PostSign(w) \/ Finalize(w) \/ LandCommit(w)
Failing(w) ==
  \/ LoseCommit(w) \/ FailUnclaimed(w) \/ FailFenced(w)
  \/ Release(w) \/ LoseRelease(w) \/ Kill(w)

Next ==
  \/ ControllerStep /\ UNCHANGED issueVars
  \/ \E c \in Calls \ Workflows : Begin(c, "prepare") /\ UNCHANGED issueVars
  \/ \E b \in Blocks : Reorganize(b)
  \/ \E w \in Workflows : Observing(w) \/ Issuing(w) \/ Failing(w)
  \/ \E m \in inFlight : LandLateCommit(m)

Spec == Init /\ [][Next]_vars

-----------------------------------------------------------------------------
(* Properties *)

\* One attestation per idempotency key: whatever is lost, killed, late or
\* retried, every caller of a key is given the attestation its record holds
\* (the terminal commit, the token of the release, the recovered record).
OneAttestationPerKey ==
  \A k \in IdempotencyKeys :
    answered[k] # {} => store[k].status = "committed" /\ answered[k] = {store[k].by}

\* An attestation is signed only while the durable trust state is the one its
\* permit was issued for, so never with a key that state has revoked, although
\* other processes advance it between any two steps (withPermit).
SignedUnderCurrentTrust ==
  [][\A w \in Workflows :
       issue[w].phase = "sign" /\ issue'[w].phase = "postsign" =>
         /\ trust = Wire[w]
         /\ Signer[w] = ActiveSigner[trust]
         /\ Signer[w] \notin Revoked[trust]]_vars

\* Every path out of an issuance gives its reservation back: one that is held
\* belongs to a running attempt, unless a process was killed or the answer to
\* the reservation or the release was lost (the catch of issue).
ReservationsAreOwned ==
  \A k \in IdempotencyKeys :
    store[k].status = "pending" /\ store[k].by \notin abandoned =>
      \E w \in Workflows : /\ issue[w].phase \in Claimed
                           /\ Key(w) = k
                           /\ issue[w].attempt = store[k].by

=============================================================================
