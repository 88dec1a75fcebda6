--------------------------- MODULE SellerDelivery ---------------------------
(***************************************************************************)
(* Background delivery of funded jobs by the seller agent (sellerCore.ts). *)
(*                                                                         *)
(* One process serves notifications.  A notification verifies the named    *)
(* job and starts its delivery in the background, together with a sweep    *)
(* that starts a delivery for every job the chain lists as funded.  The    *)
(* process is single-threaded: an action is the code between two awaits,   *)
(* or the moment the chain or a library answers the call that is awaited.  *)
(* What keeps a job from being worked on twice is the in-flight set; what  *)
(* keeps a stuck delivery from holding its job for ever is a deadline,     *)
(* after which the delivery goes on as an orphan nobody waits for.         *)
(***************************************************************************)
EXTENDS Naturals

CONSTANTS
  Jobs,        \* the jobs assigned to this provider
  Unsigned,    \* those that do not carry a quote this provider signed
  Notices,     \* the requests that may be served at once
  Slots,       \* names for the deliveries of one job that may be alive at once
  MaxMishaps   \* bound on kills, failing or hung calls and early deadlines

ASSUME JobsAssumption == Jobs # {} /\ Unsigned \subseteq Jobs
ASSUME MishapsAssumption == MaxMishaps \in Nat

VARIABLES
  chain,       \* status of each job in the commerce contract
  pending,     \* submit transactions that were broadcast and not yet mined
  canSubmit,   \* whether this kind of wallet can submit at all
  abortable,   \* the jobs whose work is done by the language model
  notice,      \* the request each handler is serving
  sweep,       \* the sweep each handler has started
  delivery,    \* the deliveries, several for one job once a deadline passed
  inflight,    \* SellerCore.inflight
  settled,     \* outcomes this process has logged as terminal
  mishaps

vars == <<chain, pending, canSubmit, abortable, notice, sweep, delivery,
          inflight, settled, mishaps>>
world == <<canSubmit, abortable>>

Deliveries == Jobs \X Slots
Phases == {"idle", "verify", "work", "gate", "submit", "receipt"}
Replies == {"none", "ok", "skip", "retry"}

Gone == [phase |-> "idle", reply |-> "none", tracked |-> FALSE, hung |-> FALSE]
NoNotice == [phase |-> "idle", reply |-> "none", job |-> CHOOSE j \in Jobs : TRUE]
NoSweep == [phase |-> "idle", jobs |-> {}]

TypeOK ==
  /\ chain \in [Jobs -> {"open", "funded", "submitted", "expired"}]
  /\ pending \subseteq Deliveries
  /\ canSubmit \in BOOLEAN
  /\ abortable \subseteq Jobs
  /\ notice \in [Notices -> [phase : {"idle", "preverify"}, reply : Replies, job : Jobs]]
  /\ sweep \in [Notices -> [phase : {"idle", "scan", "scanned"}, jobs : SUBSET Jobs]]
  /\ delivery \in [Deliveries -> [phase : Phases, reply : Replies,
                                  tracked : BOOLEAN, hung : BOOLEAN]]
  /\ inflight \subseteq Jobs
  /\ settled \in [Jobs -> {"no", "ok", "skip"}]
  /\ mishaps \in 0..MaxMishaps

Init ==
  /\ chain = [j \in Jobs |-> "open"]
  /\ pending = {}
  /\ canSubmit \in BOOLEAN
  /\ abortable \in SUBSET Jobs
  /\ notice = [n \in Notices |-> NoNotice]
  /\ sweep = [n \in Notices |-> NoSweep]
  /\ delivery = [d \in Deliveries |-> Gone]
  /\ inflight = {}
  /\ settled = [j \in Jobs |-> "no"]
  /\ mishaps = 0

Mishap == mishaps < MaxMishaps /\ mishaps' = mishaps + 1

-----------------------------------------------------------------------------
(* The chain *)

\* The buyer funds a job.
Fund(j) ==
  /\ chain[j] = "open"
  /\ chain' = [chain EXCEPT ![j] = "funded"]
  /\ UNCHANGED <<pending, world, notice, sweep, delivery, inflight, settled, mishaps>>

\* A funded job nobody has submitted to expires and is refunded.
Expire(j) ==
  /\ chain[j] = "funded"
  /\ chain' = [chain EXCEPT ![j] = "expired"]
  /\ UNCHANGED <<pending, world, notice, sweep, delivery, inflight, settled, mishaps>>

\* A submit transaction is mined; the contract takes it if the job is funded.
\* Its delivery may be gone: the process was killed or the call had failed.
Mine(d) ==
  LET j == d[1]
      taken == chain[j] = "funded" IN
  /\ d \in pending
  /\ pending' = pending \ {d}
  /\ chain' = IF taken THEN [chain EXCEPT ![j] = "submitted"] ELSE chain
  /\ delivery' = IF delivery[d].phase = "receipt"
                   THEN [delivery EXCEPT ![d].reply = IF taken THEN "ok" ELSE "retry"]
                   ELSE delivery
  /\ UNCHANGED <<world, notice, sweep, inflight, settled, mishaps>>

\* What verifySignedJob may say of a job: whether a job that was already
\* submitted to, or has expired, counts as permanently bad is the library's.
Verdicts(j) ==
  IF j \in Unsigned THEN {"skip"} ELSE
  CASE chain[j] = "open"   -> {"retry"}
    [] chain[j] = "funded" -> {"ok"}
    [] OTHER               -> {"skip", "retry"}

-----------------------------------------------------------------------------
(* Background tasks *)

Tracked(j) == {d \in {j} \X Slots : delivery[d].tracked}

FreeSlots(j) == {k \in Slots : delivery[<<j, k>>] = Gone /\ <<j, k>> \notin pending}
FreeSlot(j) == CHOOSE k \in FreeSlots(j) : TRUE

\* Start a delivery of each of the jobs, unless it is in flight or settled.
\* A verified job skips the gate.  The guard is the bound on deliveries.
SpawnJobs(S, verified) ==
  LET new == S \ inflight
      started == {<<j, FreeSlot(j)>> : j \in new} IN
  /\ \A j \in new : FreeSlots(j) # {}
  /\ inflight' = inflight \cup new
  /\ delivery' = [d \in Deliveries |->
       IF d \in started
         THEN [Gone EXCEPT !.phase = IF verified THEN "work" ELSE "verify", !.tracked = TRUE]
         ELSE delivery[d]]

\* Mutant: the slot is freed on every outcome.
FinishAlways(d, outcome) ==
  /\ delivery' = [delivery EXCEPT ![d] = Gone]
  /\ inflight' = IF delivery[d].tracked THEN inflight \ {d[1]} ELSE inflight
  /\ settled' = IF delivery[d].tracked /\ outcome \in {"ok", "skip"}
                  THEN [settled EXCEPT ![d[1]] = outcome] ELSE settled

\* Mutant: every outcome is taken for a terminal one.
FinishLogged(d, outcome) ==
  /\ delivery' = [delivery EXCEPT ![d] = Gone]
  /\ settled' = IF delivery[d].tracked THEN [settled EXCEPT ![d[1]] = outcome] ELSE settled
  /\ UNCHANGED inflight

\* The delivery ends.  One that is still awaited frees its job, unless the
\* outcome is terminal; an orphan's outcome is dropped.
Finish(d, outcome) ==
  LET j == d[1]
      terminal == outcome \in {"ok", "skip"}
      awaited == delivery[d].tracked IN
  /\ delivery' = [delivery EXCEPT ![d] = Gone]
  /\ inflight' = IF awaited /\ ~terminal THEN inflight \ {j} ELSE inflight
  /\ settled' = IF awaited /\ terminal THEN [settled EXCEPT ![j] = outcome] ELSE settled

Running(d, phase) == delivery[d].phase = phase /\ ~delivery[d].hung
Answered(d, phase) == Running(d, phase) /\ delivery[d].reply # "none"
Continue(d, phase) ==
  delivery' = [delivery EXCEPT ![d].phase = phase, ![d].reply = "none"]

\* fulfillJob: the answer of verifySignedJob is on its way ...
Verify(d) ==
  /\ Running(d, "verify") /\ delivery[d].reply = "none"
  /\ \E v \in Verdicts(d[1]) : delivery' = [delivery EXCEPT ![d].reply = v]
  /\ UNCHANGED <<chain, pending, world, notice, sweep, inflight, settled, mishaps>>

\* ... and arrives: work on the job, or give it up for now or for good.
Verified(d) ==
  /\ Answered(d, "verify")
  /\ IF delivery[d].reply = "ok"
       THEN Continue(d, "work") /\ UNCHANGED <<inflight, settled>>
       ELSE Finish(d, delivery[d].reply)
  /\ UNCHANGED <<chain, pending, world, notice, sweep, mishaps>>

\* The deterministic receipt or the language model's text is ready.  The
\* deadline aborts the model's call, and nothing else.
Work(d) ==
  /\ Running(d, "work")
  /\ IF d[1] \in abortable /\ ~delivery[d].tracked
       THEN Finish(d, "retry")
       ELSE Continue(d, "gate") /\ UNCHANGED <<inflight, settled>>
  /\ UNCHANGED <<chain, pending, world, notice, sweep, mishaps>>

\* submitResult reads the job again and refuses one that is not funded; a
\* wallet that cannot submit at all makes the job a permanent skip.
Gate(d) ==
  /\ Running(d, "gate")
  /\ \/ /\ canSubmit /\ chain[d[1]] = "funded"
        /\ Continue(d, "submit") /\ UNCHANGED <<inflight, settled>>
     \/ canSubmit /\ chain[d[1]] # "funded" /\ Finish(d, "retry")
     \/ ~canSubmit /\ Finish(d, "skip")
  /\ UNCHANGED <<chain, pending, world, notice, sweep, mishaps>>

\* submitResult broadcasts the submit transaction.
Broadcast(d) ==
  /\ Running(d, "submit")
  /\ Continue(d, "receipt")
  /\ pending' = pending \cup {d}
  /\ UNCHANGED <<chain, world, notice, sweep, inflight, settled, mishaps>>

\* Mutant: a transaction that reverted counts as submitted.
SubmittedAnyway(d) ==
  /\ Answered(d, "receipt")
  /\ Finish(d, "ok")
  /\ UNCHANGED <<chain, pending, world, notice, sweep, mishaps>>

\* submitResult returns with the landed transaction, or throws.
Submitted(d) ==
  /\ Answered(d, "receipt")
  /\ Finish(d, delivery[d].reply)
  /\ UNCHANGED <<chain, pending, world, notice, sweep, mishaps>>

\* An awaited call throws; after the broadcast, its response is lost.
Fail(d) ==
  /\ delivery[d].phase # "idle" /\ ~delivery[d].hung
  /\ Mishap
  /\ Finish(d, "retry")
  /\ UNCHANGED <<chain, pending, world, notice, sweep>>

\* An awaited call stops answering, and may answer again much later.
Hang(d) ==
  /\ delivery[d].phase # "idle" /\ ~delivery[d].hung
  /\ Mishap
  /\ delivery' = [delivery EXCEPT ![d].hung = TRUE]
  /\ UNCHANGED <<chain, pending, world, notice, sweep, inflight, settled>>

Resume(d) ==
  /\ delivery[d].hung
  /\ delivery' = [delivery EXCEPT ![d].hung = FALSE]
  /\ UNCHANGED <<chain, pending, world, notice, sweep, inflight, settled, mishaps>>

\* Mutant: the slot of a delivery that timed out stays taken.
TimeoutKeepingSlot(d) ==
  /\ delivery[d].tracked
  /\ IF delivery[d].hung THEN UNCHANGED mishaps ELSE Mishap
  /\ delivery' = [delivery EXCEPT ![d].tracked = FALSE]
  /\ UNCHANGED <<chain, pending, world, notice, sweep, settled, inflight>>

\* The deadline passes.  The slot is freed and the delivery is an orphan from
\* then on; for one that does not hang this is an early deadline.
Timeout(d) ==
  /\ delivery[d].tracked
  /\ IF delivery[d].hung THEN UNCHANGED mishaps ELSE Mishap
  /\ delivery' = [delivery EXCEPT ![d].tracked = FALSE]
  /\ inflight' = inflight \ {d[1]}
  /\ UNCHANGED <<chain, pending, world, notice, sweep, settled>>

-----------------------------------------------------------------------------
(* Notifications and sweeps *)

Idle(n) == notice[n].phase = "idle" /\ sweep[n].phase = "idle"

\* A notification without a job id only looks for stragglers.
NotifyBare(n) ==
  /\ Idle(n)
  /\ sweep' = [sweep EXCEPT ![n].phase = "scan"]
  /\ UNCHANGED <<chain, pending, world, notice, delivery, inflight, settled, mishaps>>

\* A notification names a job: it is verified before the acknowledgement.
Notify(n, j) ==
  /\ Idle(n)
  /\ notice' = [notice EXCEPT ![n] = [phase |-> "preverify", reply |-> "none", job |-> j]]
  /\ UNCHANGED <<chain, pending, world, sweep, delivery, inflight, settled, mishaps>>

Preverify(n) ==
  /\ notice[n].phase = "preverify" /\ notice[n].reply = "none"
  /\ \E v \in Verdicts(notice[n].job) : notice' = [notice EXCEPT ![n].reply = v]
  /\ UNCHANGED <<chain, pending, world, sweep, delivery, inflight, settled, mishaps>>

\* A permanently bad job is rejected, and nothing is started for it.
Reject(n) ==
  /\ notice[n].phase = "preverify" /\ notice[n].reply = "skip"
  /\ notice' = [notice EXCEPT ![n] = NoNotice]
  /\ UNCHANGED <<chain, pending, world, sweep, delivery, inflight, settled, mishaps>>

Acknowledge(n, verified) ==
  /\ SpawnJobs({notice[n].job}, verified)
  /\ notice' = [notice EXCEPT ![n] = NoNotice]
  /\ sweep' = [sweep EXCEPT ![n].phase = "scan"]

\* Any other job is accepted; its delivery skips the gate if it verified.
Accept(n) ==
  /\ notice[n].phase = "preverify" /\ notice[n].reply \in {"ok", "retry"}
  /\ Acknowledge(n, notice[n].reply = "ok")
  /\ UNCHANGED <<chain, pending, world, settled, mishaps>>

\* Mutant: a verification that failed is taken for one that passed.
AcceptOnFailure(n) ==
  /\ notice[n].phase = "preverify"
  /\ Mishap
  /\ Acknowledge(n, TRUE)
  /\ UNCHANGED <<chain, pending, world, settled>>

\* The verification throws or is too slow: accept, and verify again later.
AcceptUnverified(n) ==
  /\ notice[n].phase = "preverify"
  /\ Mishap
  /\ Acknowledge(n, FALSE)
  /\ UNCHANGED <<chain, pending, world, settled>>

\* The sweep reads the funded jobs of this provider from the chain ...
Scan(n) ==
  /\ sweep[n].phase = "scan"
  /\ sweep' = [sweep EXCEPT ![n] =
       [phase |-> "scanned", jobs |-> {j \in Jobs : chain[j] = "funded"}]]
  /\ UNCHANGED <<chain, pending, world, notice, delivery, inflight, settled, mishaps>>

\* ... and starts the deliveries of those that are not in flight.
Sweep(n) ==
  /\ sweep[n].phase = "scanned"
  /\ SpawnJobs(sweep[n].jobs, FALSE)
  /\ sweep' = [sweep EXCEPT ![n] = NoSweep]
  /\ UNCHANGED <<chain, pending, world, notice, settled, mishaps>>

\* The scan throws or is too slow: the sweep is given up.
SweepFails(n) ==
  /\ sweep[n].phase # "idle"
  /\ Mishap
  /\ sweep' = [sweep EXCEPT ![n] = NoSweep]
  /\ UNCHANGED <<chain, pending, world, notice, delivery, inflight, settled>>

\* The process is killed, or reaped while idle, and started again on demand:
\* everything it kept was in memory.
Restart ==
  /\ Mishap
  /\ notice' = [n \in Notices |-> NoNotice]
  /\ sweep' = [n \in Notices |-> NoSweep]
  /\ delivery' = [d \in Deliveries |-> Gone]
  /\ inflight' = {}
  /\ settled' = [j \in Jobs |-> "no"]
  /\ UNCHANGED <<chain, pending, world>>

-----------------------------------------------------------------------------
ChainStep == (\E j \in Jobs : Fund(j) \/ Expire(j)) \/ (\E d \in Deliveries : Mine(d))

DeliveryStep(d) ==
  Verify(d) \/ Verified(d) \/ Work(d) \/ Gate(d) \/ Broadcast(d) \/ Submitted(d)

NoticeStep(n) == Preverify(n) \/ Reject(n) \/ Accept(n) \/ Scan(n) \/ Sweep(n)

Next ==
  \/ ChainStep
  \/ \E d \in Deliveries :
       DeliveryStep(d) \/ Fail(d) \/ Hang(d) \/ Resume(d) \/ Timeout(d)
  \/ \E n \in Notices :
       \/ NoticeStep(n) \/ AcceptUnverified(n) \/ SweepFails(n)
       \/ NotifyBare(n)
       \/ \E j \in Jobs : Notify(n, j)
  \/ Restart

\* Awaited calls answer unless they hang, deadlines fire, transactions are
\* mined, and some buyer goes on sending notifications.
TimesOutHung(d) == Timeout(d) /\ delivery[d].hung
SomeNotify(n) == NotifyBare(n) \/ \E j \in Jobs : Notify(n, j)

Fairness ==
  /\ \A d \in Deliveries :
       WF_vars(DeliveryStep(d)) /\ WF_vars(TimesOutHung(d)) /\ WF_vars(Mine(d))
  /\ \A n \in Notices : WF_vars(NoticeStep(n)) /\ WF_vars(SomeNotify(n))

Spec == Init /\ [][Next]_vars /\ Fairness

-----------------------------------------------------------------------------
\* A job has at most one delivery that the process still waits for, and none
\* once the process has settled it: neither a sweep with an old list nor a
\* notification that verified the job before it was delivered starts another
\* (spawnJob's gate and the slot runJob keeps).
DeliveredOnce ==
  \A j \in Jobs :
    /\ \A c, d \in Tracked(j) : c = d
    /\ settled[j] # "no" => Tracked(j) = {}

\* What the process remembers is true of the chain: a job settled as delivered
\* has been submitted to, and a job settled as a permanent skip is not one it
\* could still deliver, although the answer it rests on was read before other
\* deliveries, orphans and transactions ran.
SettledIsRight ==
  \A j \in Jobs :
    /\ settled[j] = "ok" => chain[j] = "submitted"
    /\ settled[j] = "skip" => chain[j] \notin {"open", "funded"} \/ j \in Unsigned \/ ~canSubmit

\* No work is done on a job whose quote this provider did not sign, also when
\* the verification before the acknowledgement failed or was too slow.
OnlySignedJobsAreWorked ==
  \A d \in Deliveries : delivery[d].phase \in {"work", "gate", "submit", "receipt"}
                          => d[1] \notin Unsigned

\* A funded job this provider signed is eventually submitted to, or expires:
\* no kill, failing or hung call, early deadline or orphan takes it out of the
\* reach of later notifications for good (the deadline and finally of runJob).
FundedJobsAreDelivered ==
  \A j \in Jobs \ Unsigned :
    (chain[j] = "funded" /\ canSubmit) ~> (chain[j] \in {"submitted", "expired"})
=============================================================================
