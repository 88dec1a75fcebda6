------------------------ MODULE SellerDelivery_proofs ------------------------
(***************************************************************************)
(* Proofs about SellerDelivery, for any jobs, requests and mishaps.        *)
(*                                                                         *)
(* The argument.  A job is in flight exactly while a delivery of it is     *)
(* awaited or once it is settled (InflightIsExact), so that the gate of    *)
(* spawnJob sees everything it has to.  An answer that was read earlier is *)
(* still worth acting on because what it claims of the job cannot change   *)
(* back: an unsigned job never passes (SignedPastTheGate), a permanent     *)
(* verdict outlives the job's funding, and a mined submission stays        *)
(* (RepliesStayTrue).                                                      *)
(*                                                                         *)
(* And about RebalanceAgent, for any mandates, positions and chains.  What *)
(* a read has seen is of its pin, whatever the chain does (ReadingInv), a  *)
(* quote was offered for its own evidence (WellQuoted), and an answer is   *)
(* what the rules say of the evidence it names at its second               *)
(* (WellAnswered).                                                         *)
(***************************************************************************)
EXTENDS MCSellerDelivery, TLAPS

IdleIsGone == \A d \in Deliveries : delivery[d].phase = "idle" => delivery[d] = Gone

InflightIsExact ==
  \A j \in Jobs : j \in inflight <=> (settled[j] # "no" \/ Tracked(j) # {})

SignedPastTheGate ==
  /\ \A d \in Deliveries :
       (delivery[d].phase = "verify" /\ delivery[d].reply = "ok") => d[1] \notin Unsigned
  /\ \A n \in Notices : notice[n].reply = "ok" => notice[n].job \notin Unsigned

\* A job that can still be delivered by this provider, now or later.
Deliverable(j) == chain[j] \in {"open", "funded"} /\ j \notin Unsigned

RepliesStayTrue ==
  \A d \in Deliveries :
    /\ delivery[d].phase = "verify" /\ delivery[d].reply = "skip" => ~Deliverable(d[1])
    /\ delivery[d].phase = "receipt" =>
         /\ delivery[d].reply = "ok" => chain[d[1]] = "submitted"
         /\ delivery[d].reply # "skip"

IInv ==
  /\ TypeOK
  /\ IdleIsGone
  /\ InflightIsExact
  /\ DeliveredOnce
  /\ SignedPastTheGate
  /\ OnlySignedJobsAreWorked
  /\ RepliesStayTrue
  /\ SettledIsRight

-----------------------------------------------------------------------------
(* Type correctness *)

\* The memory of a delivery, as a type.
DeliveryType == [phase : Phases, reply : Replies, tracked : BOOLEAN, hung : BOOLEAN]

\* An idle slot, an idle handler and an idle sweep are within the types.
LEMMA IdleTypes ==
  /\ Gone \in DeliveryType
  /\ NoNotice \in [phase : {"idle", "preverify"}, reply : Replies, job : Jobs]
  /\ NoSweep \in [phase : {"idle", "scan", "scanned"}, jobs : SUBSET Jobs]
<1>1. (CHOOSE j \in Jobs : TRUE) \in Jobs
  BY JobsAssumption
<1> QED
  BY <1>1 DEF Gone, NoNotice, NoSweep, DeliveryType, Phases, Replies

\* The end of a delivery stays within the types.
LEMMA FinishType ==
  ASSUME TypeOK, NEW d \in Deliveries, NEW outcome \in {"ok", "skip", "retry"},
         Finish(d, outcome)
  PROVE  /\ delivery' \in [Deliveries -> DeliveryType]
         /\ inflight' \subseteq Jobs
         /\ settled' \in [Jobs -> {"no", "ok", "skip"}]
BY IdleTypes DEF TypeOK, Finish, Deliveries, DeliveryType

\* The start of deliveries stays within the types.
LEMMA SpawnType ==
  ASSUME TypeOK, NEW S \in SUBSET Jobs, NEW verified \in BOOLEAN, SpawnJobs(S, verified)
  PROVE  /\ delivery' \in [Deliveries -> DeliveryType]
         /\ inflight' \subseteq Jobs
<1>1. ASSUME NEW p \in Phases
      PROVE  [Gone EXCEPT !.phase = p, !.tracked = TRUE] \in DeliveryType
  BY DEF Gone, DeliveryType, Replies
<1>2. (IF verified THEN "work" ELSE "verify") \in Phases
  BY DEF Phases
<1> QED
  BY <1>1, <1>2 DEF TypeOK, SpawnJobs, DeliveryType

\* An answer, and the next phase, stay within the types.
LEMMA StepType ==
  ASSUME NEW f \in [Deliveries -> DeliveryType], NEW d \in Deliveries,
         NEW p \in Phases, NEW r \in Replies
  PROVE  /\ [f EXCEPT ![d].reply = r] \in [Deliveries -> DeliveryType]
         /\ [f EXCEPT ![d].phase = p, ![d].reply = r] \in [Deliveries -> DeliveryType]
<1>1. /\ [f[d] EXCEPT !.reply = r] \in DeliveryType
      /\ [f[d] EXCEPT !.phase = p, !.reply = r] \in DeliveryType
  BY DEF DeliveryType
<1> QED
  BY <1>1

\* The delivery's next phase stays within the types.
LEMMA ContinueType ==
  ASSUME TypeOK, NEW d \in Deliveries, NEW p \in Phases, Continue(d, p)
  PROVE  delivery' \in [Deliveries -> DeliveryType]
<1>1. delivery \in [Deliveries -> DeliveryType] /\ "none" \in Replies
  BY DEF TypeOK, DeliveryType, Replies
<1> QED
  BY <1>1, StepType DEF Continue

\* The bound on mishaps is kept.
LEMMA MishapType == TypeOK /\ Mishap => mishaps' \in 0..MaxMishaps
BY MishapsAssumption DEF TypeOK, Mishap

\* The agent starts within the types.
LEMMA TypeInit == Init => TypeOK
BY IdleTypes, MishapsAssumption DEF Init, TypeOK, DeliveryType

\* No step of the chain, a delivery, a request or a sweep leaves the types.
LEMMA TypeStep == TypeOK /\ [Next]_vars => TypeOK'
<1> SUFFICES ASSUME TypeOK, [Next]_vars PROVE TypeOK'
  OBVIOUS
<1> USE DEF world
<1>1. CASE UNCHANGED vars
  BY <1>1 DEF TypeOK, vars
<1>2. CASE ChainStep
  <2>1. ASSUME NEW j \in Jobs, Fund(j) \/ Expire(j) PROVE TypeOK'
    BY <2>1 DEF TypeOK, Fund, Expire
  <2>2. ASSUME NEW d \in Deliveries, Mine(d) PROVE TypeOK'
    BY <2>2 DEF TypeOK, Mine, Replies, Deliveries
  <2> QED
    BY <1>2, <2>1, <2>2 DEF ChainStep
<1>3. ASSUME NEW d \in Deliveries,
             DeliveryStep(d) \/ Fail(d) \/ Hang(d) \/ Resume(d) \/ Timeout(d)
      PROVE  TypeOK'
  <2>1. CASE Verify(d)
    <3>1. \A v \in Verdicts(d[1]) : v \in Replies
      BY DEF Verdicts, Replies
    <3>2. delivery' \in [Deliveries -> DeliveryType]
      <4>1. PICK v \in Replies : delivery' = [delivery EXCEPT ![d].reply = v]
        BY <2>1, <3>1 DEF Verify
      <4>2. delivery \in [Deliveries -> DeliveryType] /\ "verify" \in Phases
        BY DEF TypeOK, DeliveryType, Phases
      <4> QED
        BY <4>1, <4>2, StepType
    <3> QED
      BY <2>1, <3>2 DEF TypeOK, Verify, DeliveryType
  <2>2. CASE Verified(d)
    <3>1. CASE delivery[d].reply = "ok"
      BY <2>2, <3>1, ContinueType DEF TypeOK, Verified, DeliveryType, Phases
    <3>2. CASE delivery[d].reply # "ok"
      <4>1. delivery[d].reply \in {"ok", "skip", "retry"}
        BY <2>2 DEF Verified, Answered, TypeOK, Replies
      <4> QED
        BY <2>2, <3>2, <4>1, FinishType DEF TypeOK, Verified, DeliveryType
    <3> QED
      BY <3>1, <3>2
  <2>3. CASE Work(d)
    <3>1. CASE Finish(d, "retry")
      BY <2>3, <3>1, FinishType DEF TypeOK, Work, DeliveryType
    <3>2. CASE Continue(d, "gate") /\ UNCHANGED <<inflight, settled>>
      BY <2>3, <3>2, ContinueType DEF TypeOK, Work, DeliveryType, Phases
    <3> QED
      BY <2>3, <3>1, <3>2 DEF Work
  <2>4. CASE Gate(d)
    <3>1. CASE Finish(d, "retry") \/ Finish(d, "skip")
      BY <2>4, <3>1, FinishType DEF TypeOK, Gate, DeliveryType
    <3>2. CASE Continue(d, "submit") /\ UNCHANGED <<inflight, settled>>
      BY <2>4, <3>2, ContinueType DEF TypeOK, Gate, DeliveryType, Phases
    <3> QED
      BY <2>4, <3>1, <3>2 DEF Gate
  <2>5. CASE Broadcast(d)
    BY <2>5, ContinueType DEF TypeOK, Broadcast, DeliveryType, Phases
  <2>6. CASE Submitted(d)
    <3>1. delivery[d].reply \in {"ok", "skip", "retry"}
      BY <2>6 DEF Submitted, Answered, TypeOK, Replies
    <3> QED
      BY <2>6, <3>1, FinishType DEF TypeOK, Submitted, DeliveryType
  <2>7. CASE Fail(d)
    BY <2>7, FinishType, MishapType DEF TypeOK, Fail, DeliveryType
  <2>8. CASE Hang(d) \/ Resume(d)
    <3>1. mishaps' \in 0..MaxMishaps
      BY <2>8, MishapType DEF Hang, Resume, TypeOK
    <3>2. CASE Hang(d)
      <4>1. delivery' \in [Deliveries -> DeliveryType]
        BY <3>2 DEF TypeOK, Hang, DeliveryType
      <4> QED
        BY <3>1, <3>2, <4>1 DEF TypeOK, Hang, DeliveryType
    <3>3. CASE Resume(d)
      <4>1. delivery' \in [Deliveries -> DeliveryType]
        BY <3>3 DEF TypeOK, Resume, DeliveryType
      <4> QED
        BY <3>1, <3>3, <4>1 DEF TypeOK, Resume, DeliveryType
    <3> QED
      BY <2>8, <3>2, <3>3
  <2>9. CASE Timeout(d)
    <3>1. mishaps' \in 0..MaxMishaps
      BY <2>9, MishapType DEF Timeout, TypeOK
    <3>2. delivery' \in [Deliveries -> DeliveryType]
      BY <2>9 DEF TypeOK, Timeout, DeliveryType
    <3> QED
      BY <2>9, <3>1, <3>2 DEF TypeOK, Timeout, DeliveryType
  <2> QED
    BY <1>3, <2>1, <2>2, <2>3, <2>4, <2>5, <2>6, <2>7, <2>8, <2>9 DEF DeliveryStep
<1>4. ASSUME NEW n \in Notices,
             \/ NoticeStep(n) \/ AcceptUnverified(n) \/ SweepFails(n) \/ NotifyBare(n)
             \/ \E j \in Jobs : Notify(n, j)
      PROVE  TypeOK'
  <2>1. CASE Preverify(n)
    <3>1. \A v \in Verdicts(notice[n].job) : v \in Replies
      BY DEF Verdicts, Replies
    <3> QED
      BY <2>1, <3>1 DEF TypeOK, Preverify
  <2>2. CASE Reject(n)
    BY <2>2, IdleTypes DEF TypeOK, Reject
  <2>3. ASSUME NEW verified \in BOOLEAN, Acknowledge(n, verified),
               UNCHANGED <<chain, pending, world, settled>>, mishaps' \in 0..MaxMishaps
        PROVE  TypeOK'
    <3>1. {notice[n].job} \in SUBSET Jobs
      BY DEF TypeOK
    <3>2. delivery' \in [Deliveries -> DeliveryType] /\ inflight' \subseteq Jobs
      BY <2>3, <3>1, SpawnType DEF Acknowledge
    <3>3. /\ notice' = [notice EXCEPT ![n] = NoNotice]
          /\ sweep' = [sweep EXCEPT ![n].phase = "scan"]
      BY <2>3 DEF Acknowledge
    <3>4. notice' \in [Notices -> [phase : {"idle", "preverify"}, reply : Replies, job : Jobs]]
      BY <3>3, IdleTypes DEF TypeOK
    <3>5. sweep' \in [Notices -> [phase : {"idle", "scan", "scanned"}, jobs : SUBSET Jobs]]
      <4>1. /\ sweep \in [Notices -> [phase : {"idle", "scan", "scanned"}, jobs : SUBSET Jobs]]
            /\ [sweep[n] EXCEPT !.phase = "scan"]
                 \in [phase : {"idle", "scan", "scanned"}, jobs : SUBSET Jobs]
        BY DEF TypeOK
      <4> QED
        BY <3>3, <4>1
    <3> QED
      BY <2>3, <3>2, <3>4, <3>5 DEF TypeOK, DeliveryType
  <2>4. CASE Accept(n)
    BY <2>3, <2>4 DEF TypeOK, Accept
  <2>5. CASE AcceptUnverified(n)
    BY <2>3, <2>5, MishapType DEF AcceptUnverified
  <2>6. CASE Scan(n)
    BY <2>6 DEF TypeOK, Scan
  <2>7. CASE Sweep(n)
    <3>1. sweep[n].jobs \in SUBSET Jobs
      BY DEF TypeOK
    <3> QED
      BY <2>7, <3>1, SpawnType, IdleTypes DEF TypeOK, Sweep, DeliveryType
  <2>8. CASE SweepFails(n)
    BY <2>8, IdleTypes, MishapType DEF TypeOK, SweepFails
  <2>9. CASE NotifyBare(n)
    BY <2>9 DEF TypeOK, NotifyBare
  <2>10. ASSUME NEW j \in Jobs, Notify(n, j) PROVE TypeOK'
    BY <2>10 DEF TypeOK, Notify, Replies
  <2> QED
    BY <1>4, <2>1, <2>2, <2>4, <2>5, <2>6, <2>7, <2>8, <2>9, <2>10 DEF NoticeStep
<1>5. CASE Restart
  BY <1>5, IdleTypes, MishapType DEF TypeOK, Restart, DeliveryType
<1> QED
  BY <1>1, <1>2, <1>3, <1>4, <1>5 DEF Next

\* Every reachable state of the seller agent is well typed.
THEOREM TypeCorrect == Spec => []TypeOK
BY TypeInit, TypeStep, PTL DEF Spec

-----------------------------------------------------------------------------
(* The inductive invariant *)

\* The part of the invariant that speaks of deliveries and requests.
Parts ==
  /\ IdleIsGone
  /\ InflightIsExact
  /\ DeliveredOnce
  /\ SignedPastTheGate
  /\ OnlySignedJobsAreWorked
  /\ RepliesStayTrue
  /\ SettledIsRight

\* A delivery that ends frees its job or settles it, and an outcome that
\* settles the job is true of the chain.
LEMMA FinishPreserves ==
  ASSUME IInv, NEW d \in Deliveries, NEW outcome \in {"ok", "skip", "retry"},
         Finish(d, outcome), UNCHANGED <<chain, canSubmit, notice>>,
         outcome = "ok" => chain[d[1]] = "submitted",
         outcome = "skip" => ~Deliverable(d[1]) \/ ~canSubmit
  PROVE  Parts'
<1>0. d[1] \in Jobs /\ d = <<d[1], d[2]>> /\ d[2] \in Slots
  BY DEF Deliveries
<1>1. \A c \in Deliveries : delivery'[c] = IF c = d THEN Gone ELSE delivery[c]
  BY DEF Finish, IInv, TypeOK
<1>2. \A j \in Jobs : Tracked(j)' = Tracked(j) \ {d}
  BY <1>0, <1>1 DEF Tracked, Deliveries, Gone
<1>3. delivery[d].tracked => Tracked(d[1]) = {d} /\ settled[d[1]] = "no"
  BY <1>0 DEF IInv, DeliveredOnce, Tracked
<1>4. \A j \in Jobs : j # d[1] => d \notin Tracked(j)
  BY DEF Tracked
<1>5. d \in Tracked(d[1]) <=> delivery[d].tracked = TRUE
  BY <1>0 DEF Tracked, IInv, TypeOK
<1>6. \A j \in Jobs :
        settled'[j] = IF j = d[1] /\ delivery[d].tracked /\ outcome \in {"ok", "skip"}
                        THEN outcome ELSE settled[j]
  BY <1>0 DEF Finish, IInv, TypeOK
<1>7. \A j \in Jobs :
        j \in inflight' <=> j \in inflight /\ ~(j = d[1] /\ delivery[d].tracked /\ outcome = "retry")
  BY DEF Finish
<1>8. IdleIsGone'
  BY <1>1 DEF IInv, IdleIsGone
<1>9. InflightIsExact'
  <2> SUFFICES ASSUME NEW j \in Jobs
               PROVE  j \in inflight' <=> (settled'[j] # "no" \/ Tracked(j)' # {})
    BY DEF InflightIsExact
  <2>1. CASE j # d[1] \/ ~delivery[d].tracked
    <3>1. Tracked(j)' = Tracked(j) /\ settled'[j] = settled[j]
      BY <1>2, <1>4, <1>5, <1>6, <2>1
    <3> QED
      BY <3>1, <1>7, <2>1 DEF IInv, InflightIsExact
  <2>2. CASE j = d[1] /\ delivery[d].tracked
    <3>1. Tracked(j)' = {} /\ j \in inflight
      BY <1>2, <1>3, <2>2 DEF IInv, InflightIsExact
    <3> QED
      BY <3>1, <1>3, <1>6, <1>7, <2>2
  <2> QED
    BY <2>1, <2>2
<1>10. DeliveredOnce'
  BY <1>2, <1>3, <1>6 DEF IInv, DeliveredOnce
<1>11. SignedPastTheGate' /\ OnlySignedJobsAreWorked'
  BY <1>1 DEF IInv, SignedPastTheGate, OnlySignedJobsAreWorked, Gone
<1>12. RepliesStayTrue'
  BY <1>1 DEF IInv, RepliesStayTrue, Gone, Deliverable
<1>13. SettledIsRight'
  BY <1>0, <1>6 DEF IInv, SettledIsRight, Deliverable
<1> QED
  BY <1>8, <1>9, <1>10, <1>11, <1>12, <1>13 DEF Parts

\* Starting deliveries keeps the in-flight set exact: it starts one only of
\* a job that is neither awaited nor settled.
LEMMA SpawnPreserves ==
  ASSUME IInv, NEW S \in SUBSET Jobs, NEW verified \in BOOLEAN, SpawnJobs(S, verified),
         UNCHANGED <<chain, canSubmit, settled>>,
         verified => S \cap Unsigned = {},
         \A n \in Notices : notice'[n].reply = "ok" => notice'[n].job \notin Unsigned
  PROVE  Parts'
<1> DEFINE new == S \ inflight
           started == {<<j, FreeSlot(j)>> : j \in new}
<1>1. \A j \in new : /\ FreeSlot(j) \in Slots
                     /\ delivery[<<j, FreeSlot(j)>>] = Gone
                     /\ Tracked(j) = {} /\ settled[j] = "no"
  <2> SUFFICES ASSUME NEW j \in new
               PROVE  /\ FreeSlot(j) \in FreeSlots(j)
                      /\ Tracked(j) = {} /\ settled[j] = "no"
    BY DEF FreeSlots
  <2>1. FreeSlots(j) # {}
    BY DEF SpawnJobs
  <2> QED
    BY <2>1 DEF FreeSlot, IInv, InflightIsExact
<1>2. \A c \in Deliveries : c \notin started => delivery'[c] = delivery[c]
  BY DEF SpawnJobs
<1>3. \A c \in started :
        /\ c \in Deliveries /\ c[1] \in new
        /\ delivery'[c].phase = (IF verified THEN "work" ELSE "verify")
        /\ delivery'[c].reply = "none"
        /\ delivery'[c].tracked
  BY <1>1 DEF SpawnJobs, Deliveries, Gone
<1>4. \A j \in Jobs : Tracked(j)' = IF j \in new THEN {<<j, FreeSlot(j)>>} ELSE Tracked(j)
  <2> SUFFICES ASSUME NEW j \in Jobs, NEW c \in {j} \X Slots
               PROVE  delivery'[c].tracked <=>
                        IF j \in new THEN c = <<j, FreeSlot(j)>> ELSE delivery[c].tracked
    BY <1>1 DEF Tracked
  <2>1. c \in Deliveries /\ c[1] = j
    BY DEF Deliveries
  <2>2. c \in started <=> j \in new /\ c = <<j, FreeSlot(j)>>
    BY <2>1
  <2>3. j \in new => ~delivery[c].tracked
    BY <1>1 DEF Tracked
  <2> QED
    BY <1>2, <1>3, <2>1, <2>2, <2>3
<1>5. inflight' = inflight \cup new
  BY DEF SpawnJobs
<1>6. IdleIsGone'
  BY <1>2, <1>3 DEF IInv, IdleIsGone
<1>7. InflightIsExact'
  BY <1>4, <1>5 DEF IInv, InflightIsExact
<1>8. DeliveredOnce'
  BY <1>1, <1>4 DEF IInv, DeliveredOnce
<1>9. SignedPastTheGate' /\ OnlySignedJobsAreWorked'
  BY <1>2, <1>3 DEF IInv, SignedPastTheGate, OnlySignedJobsAreWorked
<1>10. RepliesStayTrue' /\ SettledIsRight'
  BY <1>2, <1>3 DEF IInv, RepliesStayTrue, SettledIsRight, Deliverable
<1> QED
  BY <1>6, <1>7, <1>8, <1>9, <1>10 DEF Parts

\* A delivery that goes on keeps its place; what it has been told, and the
\* phase it enters, must be right.
LEMMA GoingOnPreserves ==
  ASSUME IInv, NEW d \in Deliveries,
         UNCHANGED <<chain, canSubmit, notice, inflight, settled>>,
         \A c \in Deliveries \ {d} : delivery'[c] = delivery[c],
         delivery'[d].tracked = delivery[d].tracked,
         delivery'[d].phase # "idle",
         delivery'[d].phase = "verify" =>
           /\ delivery'[d].reply = "ok" => d[1] \notin Unsigned
           /\ delivery'[d].reply = "skip" => ~Deliverable(d[1]),
         delivery'[d].phase \in {"work", "gate", "submit", "receipt"} => d[1] \notin Unsigned,
         delivery'[d].phase = "receipt" =>
           /\ delivery'[d].reply = "ok" => chain[d[1]] = "submitted"
           /\ delivery'[d].reply # "skip"
  PROVE  Parts'
<1>1. \A j \in Jobs : Tracked(j)' = Tracked(j)
  BY DEF Tracked, Deliveries
<1>2. IdleIsGone'
  BY DEF IInv, IdleIsGone
<1>3. InflightIsExact' /\ DeliveredOnce'
  BY <1>1 DEF IInv, InflightIsExact, DeliveredOnce
<1>4. SignedPastTheGate'
  BY DEF IInv, SignedPastTheGate
<1>5. OnlySignedJobsAreWorked'
  BY DEF IInv, OnlySignedJobsAreWorked
<1>6. RepliesStayTrue'
  BY DEF IInv, RepliesStayTrue, Deliverable
<1>7. SettledIsRight'
  BY DEF IInv, SettledIsRight
<1> QED
  BY <1>2, <1>3, <1>4, <1>5, <1>6, <1>7 DEF Parts

\* A delivery whose call is still going on is awaited or an orphan; the steps
\* that only start the next call keep the invariant.
LEMMA ContinuePreserves ==
  ASSUME IInv, NEW d \in Deliveries, NEW p \in {"work", "gate", "submit", "receipt"},
         Continue(d, p), d[1] \notin Unsigned,
         UNCHANGED <<chain, canSubmit, notice, inflight, settled>>
  PROVE  Parts'
<1>1. /\ \A c \in Deliveries \ {d} : delivery'[c] = delivery[c]
      /\ delivery'[d].tracked = delivery[d].tracked
      /\ delivery'[d].phase = p
      /\ delivery'[d].reply = "none"
  BY DEF Continue, IInv, TypeOK
<1> QED
  BY <1>1, GoingOnPreserves

\* A verdict is right when it is read: an accepted job is signed, and one that
\* is refused for good cannot be delivered.
LEMMA VerdictIsRight ==
  ASSUME NEW j \in Jobs, NEW v \in Verdicts(j)
  PROVE  /\ v = "ok" => j \notin Unsigned
         /\ v = "skip" => ~Deliverable(j)
<1>1. CASE j \in Unsigned
  BY <1>1 DEF Verdicts, Deliverable
<1>2. CASE j \notin Unsigned /\ chain[j] = "open"
  BY <1>2 DEF Verdicts
<1>3. CASE j \notin Unsigned /\ chain[j] = "funded"
  BY <1>3 DEF Verdicts
<1>4. CASE j \notin Unsigned /\ chain[j] \notin {"open", "funded"}
  BY <1>4 DEF Deliverable
<1> QED
  BY <1>1, <1>2, <1>3, <1>4

\* Every step of a delivery keeps the invariant.
LEMMA DeliveryPreserves ==
  ASSUME IInv, NEW d \in Deliveries, DeliveryStep(d) \/ Fail(d)
  PROVE  Parts'
<1> USE DEF world
<1>1. CASE Verify(d)
  <2>1. PICK v \in Verdicts(d[1]) : delivery' = [delivery EXCEPT ![d].reply = v]
    BY <1>1 DEF Verify
  <2>2. /\ \A c \in Deliveries \ {d} : delivery'[c] = delivery[c]
        /\ delivery'[d].tracked = delivery[d].tracked
        /\ delivery'[d].phase = "verify"
        /\ delivery'[d].reply = v
    BY <1>1, <2>1 DEF IInv, TypeOK, Verify, Running
  <2>3. /\ v = "ok" => d[1] \notin Unsigned
        /\ v = "skip" => ~Deliverable(d[1])
    BY VerdictIsRight DEF Deliveries
  <2> QED
    BY <1>1, <2>2, <2>3, GoingOnPreserves DEF Verify
<1>2. CASE Verified(d)
  <2>1. CASE delivery[d].reply = "ok"
    <3>1. d[1] \notin Unsigned
      BY <1>2, <2>1 DEF Verified, Answered, Running, IInv, SignedPastTheGate
    <3> QED
      BY <1>2, <2>1, <3>1, ContinuePreserves DEF Verified
  <2>2. CASE delivery[d].reply # "ok"
    <3>1. /\ delivery[d].reply \in {"skip", "retry"}
          /\ delivery[d].reply = "skip" => ~Deliverable(d[1])
      BY <1>2, <2>2 DEF Verified, Answered, Running, IInv, TypeOK, Replies, RepliesStayTrue
    <3> QED
      BY <1>2, <2>2, <3>1, FinishPreserves DEF Verified
  <2> QED
    BY <2>1, <2>2
<1>3. CASE Work(d)
  <2>1. d[1] \notin Unsigned
    BY <1>3 DEF Work, Running, IInv, OnlySignedJobsAreWorked
  <2>2. CASE Finish(d, "retry")
    BY <1>3, <2>2, FinishPreserves DEF Work
  <2>3. CASE Continue(d, "gate") /\ UNCHANGED <<inflight, settled>>
    BY <1>3, <2>1, <2>3, ContinuePreserves DEF Work
  <2> QED
    BY <1>3, <2>2, <2>3 DEF Work
<1>4. CASE Gate(d)
  <2>1. d[1] \notin Unsigned
    BY <1>4 DEF Gate, Running, IInv, OnlySignedJobsAreWorked
  <2>2. CASE Finish(d, "retry")
    BY <1>4, <2>2, FinishPreserves DEF Gate
  <2>3. CASE ~canSubmit /\ Finish(d, "skip")
    BY <1>4, <2>3, FinishPreserves DEF Gate
  <2>4. CASE Continue(d, "submit") /\ UNCHANGED <<inflight, settled>>
    BY <1>4, <2>1, <2>4, ContinuePreserves DEF Gate
  <2> QED
    BY <1>4, <2>2, <2>3, <2>4 DEF Gate
<1>5. CASE Broadcast(d)
  <2>1. d[1] \notin Unsigned
    BY <1>5 DEF Broadcast, Running, IInv, OnlySignedJobsAreWorked
  <2> QED
    BY <1>5, <2>1, ContinuePreserves DEF Broadcast
<1>6. CASE Submitted(d)
  <2>1. /\ delivery[d].reply \in {"ok", "retry"}
        /\ delivery[d].reply = "ok" => chain[d[1]] = "submitted"
    BY <1>6 DEF Submitted, Answered, Running, IInv, TypeOK, Replies, RepliesStayTrue
  <2> QED
    BY <1>6, <2>1, FinishPreserves DEF Submitted
<1>7. CASE Fail(d)
  BY <1>7, FinishPreserves DEF Fail
<1> QED
  BY <1>1, <1>2, <1>3, <1>4, <1>5, <1>6, <1>7 DEF DeliveryStep

\* The deadline turns an awaited delivery into an orphan and frees its job.
LEMMA TimeoutPreserves ==
  ASSUME IInv, NEW d \in Deliveries, Timeout(d)
  PROVE  Parts'
<1>0. d[1] \in Jobs /\ d \in {d[1]} \X Slots
  BY DEF Deliveries
<1>1. /\ \A c \in Deliveries \ {d} : delivery'[c] = delivery[c]
      /\ delivery'[d].tracked = FALSE
      /\ delivery'[d].phase = delivery[d].phase
      /\ delivery'[d].reply = delivery[d].reply
      /\ delivery[d].tracked
  BY DEF Timeout, IInv, TypeOK
<1>2. \A j \in Jobs : Tracked(j)' = Tracked(j) \ {d}
  BY <1>1 DEF Tracked, Deliveries
<1>3. Tracked(d[1]) = {d} /\ settled[d[1]] = "no"
  BY <1>0, <1>1 DEF IInv, DeliveredOnce, Tracked
<1>4. \A j \in Jobs : j # d[1] => d \notin Tracked(j)
  BY DEF Tracked
<1>5. IdleIsGone'
  BY <1>1 DEF IInv, IdleIsGone, Gone
<1>6. InflightIsExact'
  <2>1. Tracked(d[1])' = {}
    BY <1>0, <1>2, <1>3
  <2>2. \A j \in Jobs : j # d[1] => Tracked(j)' = Tracked(j)
    BY <1>2, <1>4
  <2> QED
    BY <1>3, <2>1, <2>2 DEF Timeout, IInv, InflightIsExact
<1>7. DeliveredOnce'
  BY <1>2 DEF Timeout, IInv, DeliveredOnce
<1>8. SignedPastTheGate' /\ OnlySignedJobsAreWorked'
  BY <1>1 DEF Timeout, IInv, SignedPastTheGate, OnlySignedJobsAreWorked
<1>9. RepliesStayTrue'
  BY <1>1 DEF Timeout, IInv, RepliesStayTrue, Deliverable
<1>10. SettledIsRight'
  BY DEF Timeout, IInv, SettledIsRight, world
<1> QED
  BY <1>5, <1>6, <1>7, <1>8, <1>9, <1>10 DEF Parts

\* A step of the chain keeps the invariant: no status turns back into one an
\* answer was based on.
LEMMA ChainPreserves ==
  ASSUME IInv, ChainStep
  PROVE  Parts'
<1> USE DEF world
<1>1. ASSUME NEW j \in Jobs, Fund(j) \/ Expire(j)
      PROVE  Parts'
  <2>1. /\ UNCHANGED <<delivery, notice, inflight, settled, canSubmit>>
        /\ \A i \in Jobs : chain[i] = "submitted" => chain'[i] = "submitted"
        /\ \A i \in Jobs : ~Deliverable(i) => ~Deliverable(i)'
    BY <1>1 DEF Fund, Expire, Deliverable, IInv, TypeOK
  <2>2. IdleIsGone' /\ SignedPastTheGate' /\ OnlySignedJobsAreWorked'
    BY <2>1 DEF IInv, IdleIsGone, SignedPastTheGate, OnlySignedJobsAreWorked
  <2>3. InflightIsExact' /\ DeliveredOnce'
    BY <2>1 DEF IInv, InflightIsExact, DeliveredOnce, Tracked
  <2>4. RepliesStayTrue'
    BY <2>1 DEF IInv, RepliesStayTrue, Deliveries
  <2>5. SettledIsRight'
    BY <2>1 DEF IInv, SettledIsRight, Deliverable
  <2> QED
    BY <2>2, <2>3, <2>4, <2>5 DEF Parts
<1>2. ASSUME NEW d \in Deliveries, Mine(d)
      PROVE  Parts'
  <2>1. /\ UNCHANGED <<notice, inflight, settled, canSubmit>>
        /\ \A i \in Jobs : chain[i] = "submitted" => chain'[i] = "submitted"
        /\ \A i \in Jobs : ~Deliverable(i) => ~Deliverable(i)'
    BY <1>2 DEF Mine, Deliverable, IInv, TypeOK
  <2>2. /\ \A c \in Deliveries \ {d} : delivery'[c] = delivery[c]
        /\ delivery'[d].tracked = delivery[d].tracked
        /\ delivery'[d].phase = delivery[d].phase
        /\ delivery[d].phase # "receipt" => delivery' = delivery
        /\ delivery[d].phase = "receipt" =>
             /\ delivery'[d].reply \in {"ok", "retry"}
             /\ delivery'[d].reply = "ok" => chain'[d[1]] = "submitted"
    BY <1>2 DEF Mine, IInv, TypeOK, Deliveries
  <2>3. \A j \in Jobs : Tracked(j)' = Tracked(j)
    BY <2>2 DEF Tracked, Deliveries
  <2>4. IdleIsGone' /\ SignedPastTheGate' /\ OnlySignedJobsAreWorked'
    BY <2>1, <2>2 DEF IInv, IdleIsGone, SignedPastTheGate, OnlySignedJobsAreWorked
  <2>5. InflightIsExact' /\ DeliveredOnce'
    BY <2>1, <2>3 DEF IInv, InflightIsExact, DeliveredOnce
  <2>6. RepliesStayTrue'
    BY <2>1, <2>2 DEF IInv, RepliesStayTrue, Deliveries
  <2>7. SettledIsRight'
    BY <2>1 DEF IInv, SettledIsRight, Deliverable
  <2> QED
    BY <2>4, <2>5, <2>6, <2>7 DEF Parts
<1> QED
  BY <1>1, <1>2 DEF ChainStep

\* Steps of a request that start no delivery keep the invariant.
LEMMA WaitingPreserves ==
  ASSUME IInv, UNCHANGED <<chain, canSubmit, delivery, inflight, settled>>,
         \A n \in Notices : notice'[n].reply = "ok" => notice'[n].job \notin Unsigned
  PROVE  Parts'
<1>1. IdleIsGone' /\ SignedPastTheGate' /\ OnlySignedJobsAreWorked'
  BY DEF IInv, IdleIsGone, SignedPastTheGate, OnlySignedJobsAreWorked
<1>2. InflightIsExact' /\ DeliveredOnce'
  BY DEF IInv, InflightIsExact, DeliveredOnce, Tracked
<1>3. RepliesStayTrue' /\ SettledIsRight'
  BY DEF IInv, RepliesStayTrue, Deliverable, SettledIsRight
<1> QED
  BY <1>1, <1>2, <1>3 DEF Parts

\* Every step of a request or its sweep keeps the invariant.
LEMMA NoticePreserves ==
  ASSUME IInv, NEW n \in Notices,
         \/ NoticeStep(n) \/ AcceptUnverified(n) \/ SweepFails(n) \/ NotifyBare(n)
         \/ \E j \in Jobs : Notify(n, j)
  PROVE  Parts'
<1> USE DEF world
<1>0. \A m \in Notices : notice[m].reply = "ok" => notice[m].job \notin Unsigned
  BY DEF IInv, SignedPastTheGate
<1>1. CASE Preverify(n)
  <2>1. PICK v \in Verdicts(notice[n].job) : notice' = [notice EXCEPT ![n].reply = v]
    BY <1>1 DEF Preverify
  <2>2. notice[n].job \in Jobs
    BY DEF IInv, TypeOK
  <2>3. v = "ok" => notice[n].job \notin Unsigned
    BY <2>2, VerdictIsRight
  <2>4. \A m \in Notices : notice'[m].reply = "ok" => notice'[m].job \notin Unsigned
    BY <1>0, <2>1, <2>3 DEF IInv, TypeOK
  <2> QED
    BY <1>1, <2>4, WaitingPreserves DEF Preverify
<1>2. CASE Reject(n)
  <2>1. \A m \in Notices : notice'[m].reply = "ok" => notice'[m].job \notin Unsigned
    BY <1>0, <1>2 DEF Reject, NoNotice, IInv, TypeOK
  <2> QED
    BY <1>2, <2>1, WaitingPreserves DEF Reject
<1>3. ASSUME NEW verified \in BOOLEAN, Acknowledge(n, verified),
             UNCHANGED <<chain, canSubmit, settled>>,
             verified => notice[n].reply = "ok"
      PROVE  Parts'
  <2>1. \A m \in Notices : notice'[m].reply = "ok" => notice'[m].job \notin Unsigned
    BY <1>0, <1>3 DEF Acknowledge, NoNotice, IInv, TypeOK
  <2>2. {notice[n].job} \in SUBSET Jobs
    BY DEF IInv, TypeOK
  <2>3. verified => {notice[n].job} \cap Unsigned = {}
    BY <1>0, <1>3
  <2> QED
    BY <1>3, <2>1, <2>2, <2>3, SpawnPreserves DEF Acknowledge
<1>4. CASE Accept(n)
  BY <1>3, <1>4 DEF Accept
<1>5. CASE AcceptUnverified(n)
  BY <1>3, <1>5 DEF AcceptUnverified
<1>6. CASE Scan(n) \/ SweepFails(n) \/ NotifyBare(n)
  BY <1>0, <1>6, WaitingPreserves DEF Scan, SweepFails, NotifyBare
<1>7. CASE Sweep(n)
  <2>1. sweep[n].jobs \in SUBSET Jobs
    BY DEF IInv, TypeOK
  <2> QED
    BY <1>0, <1>7, <2>1, SpawnPreserves DEF Sweep
<1>8. ASSUME NEW j \in Jobs, Notify(n, j) PROVE Parts'
  <2>1. \A m \in Notices : notice'[m].reply = "ok" => notice'[m].job \notin Unsigned
    BY <1>0, <1>8 DEF Notify, IInv, TypeOK
  <2> QED
    BY <1>8, <2>1, WaitingPreserves DEF Notify
<1> QED
  BY <1>1, <1>2, <1>4, <1>5, <1>6, <1>7, <1>8 DEF NoticeStep

-----------------------------------------------------------------------------
(* Theorems *)

\* What an idle slot and an idle handler hold.
LEMMA IdleValues ==
  /\ Gone.phase = "idle" /\ Gone.reply = "none" /\ Gone.tracked = FALSE
  /\ NoNotice.reply = "none"
BY DEF Gone, NoNotice

\* The agent starts within the invariant.
LEMMA InvInit == Init => IInv
<1> SUFFICES ASSUME Init PROVE IInv
  OBVIOUS
<1>1. TypeOK
  BY TypeInit
<1>2. /\ \A d \in Deliveries : delivery[d] = Gone
      /\ \A n \in Notices : notice[n] = NoNotice
      /\ \A j \in Jobs : settled[j] = "no"
      /\ inflight = {}
  BY DEF Init
<1>3. IdleIsGone /\ SignedPastTheGate /\ OnlySignedJobsAreWorked /\ RepliesStayTrue
  BY <1>2, IdleValues DEF IdleIsGone, SignedPastTheGate, OnlySignedJobsAreWorked, RepliesStayTrue
<1>4. \A j \in Jobs : Tracked(j) = {}
  BY <1>2, IdleValues DEF Tracked, Deliveries
<1>5. InflightIsExact /\ DeliveredOnce /\ SettledIsRight
  BY <1>2, <1>4 DEF InflightIsExact, DeliveredOnce, SettledIsRight
<1> QED
  BY <1>1, <1>3, <1>5 DEF IInv

\* Every step keeps the invariant.
LEMMA InvStep == IInv /\ [Next]_vars => IInv'
<1> SUFFICES ASSUME IInv, [Next]_vars PROVE IInv'
  OBVIOUS
<1>1. TypeOK'
  BY TypeStep DEF IInv
<1>2. Parts'
  <2>1. CASE UNCHANGED vars
    BY <2>1, WaitingPreserves DEF vars, IInv, SignedPastTheGate
  <2>2. CASE ChainStep
    BY <2>2, ChainPreserves
  <2>3. ASSUME NEW d \in Deliveries,
               DeliveryStep(d) \/ Fail(d) \/ Hang(d) \/ Resume(d) \/ Timeout(d)
        PROVE  Parts'
    <3>1. CASE Hang(d) \/ Resume(d)
      <4>1. /\ \A c \in Deliveries \ {d} : delivery'[c] = delivery[c]
            /\ delivery'[d].tracked = delivery[d].tracked
            /\ delivery'[d].phase = delivery[d].phase
            /\ delivery'[d].reply = delivery[d].reply
        BY <3>1 DEF Hang, Resume, IInv, TypeOK
      <4>2. delivery[d].phase # "idle"
        BY <3>1 DEF Hang, Resume, IInv, IdleIsGone, Gone
      <4>3. UNCHANGED <<chain, canSubmit, notice, inflight, settled>>
        BY <3>1 DEF Hang, Resume, world
      <4>4. /\ delivery[d].phase = "verify" =>
                 /\ delivery[d].reply = "ok" => d[1] \notin Unsigned
                 /\ delivery[d].reply = "skip" => ~Deliverable(d[1])
            /\ delivery[d].phase \in {"work", "gate", "submit", "receipt"} => d[1] \notin Unsigned
            /\ delivery[d].phase = "receipt" =>
                 /\ delivery[d].reply = "ok" => chain[d[1]] = "submitted"
                 /\ delivery[d].reply # "skip"
        BY DEF IInv, SignedPastTheGate, OnlySignedJobsAreWorked, RepliesStayTrue
      <4> QED
        BY <4>1, <4>2, <4>3, <4>4, GoingOnPreserves
    <3> QED
      BY <2>3, <3>1, DeliveryPreserves, TimeoutPreserves
  <2>4. ASSUME NEW n \in Notices,
               \/ NoticeStep(n) \/ AcceptUnverified(n) \/ SweepFails(n) \/ NotifyBare(n)
               \/ \E j \in Jobs : Notify(n, j)
        PROVE  Parts'
    BY <2>4, NoticePreserves
  <2>5. CASE Restart
    <3>1. /\ \A d \in Deliveries : delivery'[d] = Gone
          /\ \A n \in Notices : notice'[n] = NoNotice
          /\ \A j \in Jobs : settled'[j] = "no"
          /\ inflight' = {}
      BY <2>5 DEF Restart
    <3>2. IdleIsGone' /\ SignedPastTheGate' /\ OnlySignedJobsAreWorked' /\ RepliesStayTrue'
      BY <3>1, IdleValues DEF IdleIsGone, SignedPastTheGate, OnlySignedJobsAreWorked,
         RepliesStayTrue
    <3>3. \A j \in Jobs : Tracked(j)' = {}
      BY <3>1, IdleValues DEF Tracked, Deliveries
    <3>4. InflightIsExact' /\ DeliveredOnce' /\ SettledIsRight'
      BY <3>1, <3>3 DEF InflightIsExact, DeliveredOnce, SettledIsRight
    <3> QED
      BY <3>2, <3>4 DEF Parts
  <2> QED
    BY <2>1, <2>2, <2>3, <2>4, <2>5 DEF Next
<1> QED
  BY <1>1, <1>2 DEF IInv, Parts

\* The inductive invariant holds in every reachable state.
THEOREM Invariance == Spec => []IInv
BY InvInit, InvStep, PTL DEF Spec

\* A job is never delivered by two awaited deliveries, nor once it is settled.
THEOREM NoSecondDelivery == Spec => []DeliveredOnce
<1>1. IInv => DeliveredOnce
  BY DEF IInv
<1> QED
  BY <1>1, Invariance, PTL

\* What the process has settled is true of the chain, whatever fails.
THEOREM SettledTruthfully == Spec => []SettledIsRight
<1>1. IInv => SettledIsRight
  BY DEF IInv
<1> QED
  BY <1>1, Invariance, PTL

\* No work is ever done for terms this provider did not sign.
THEOREM OnlySignedWork == Spec => []OnlySignedJobsAreWorked
<1>1. IInv => OnlySignedJobsAreWorked
  BY DEF IInv
<1> QED
  BY <1>1, Invariance, PTL

-----------------------------------------------------------------------------
(* The arithmetic of ranges.                                               *)

LEMMA ModuloIs ==
  ASSUME NEW n \in Int, NEW s \in Int, s > 0
  PROVE  n \div s \in Int /\ n % s = n - s * (n \div s)
BY SMTT(30)

LEMMA MultipleModulo ==
  ASSUME NEW q \in Int, NEW s \in Int, s > 0
  PROVE  (q * s) % s = 0
BY SMTT(30)

LEMMA SumOfMultiples ==
  ASSUME NEW m \in Int, NEW n \in Int, NEW s \in Int, s > 0, m % s = 0, n % s = 0
  PROVE  (m + n) % s = 0
<1> DEFINE p == m \div s
           q == n \div s
<1>1. p \in Int /\ q \in Int /\ m = s * p /\ n = s * q
  BY ModuloIs
<1> HIDE DEF p, q
<1>2. m + n = (p + q) * s /\ p + q \in Int
  BY <1>1
<1> QED
  BY <1>2, MultipleModulo

\* The formula yields an aligned range of the width.
LEMMA NearestIsAligned ==
  ASSUME NEW tick \in Int, NEW width \in Int, NEW s \in Int, s > 0, width % s = 0
  PROVE  LET range == Agent!Nearest(tick, width, s)
         IN  /\ range.lower \in Int /\ range.upper \in Int
             /\ range = [lower |-> range.lower, upper |-> range.upper]
             /\ Agent!Aligned(range, s) /\ range.upper - range.lower = width
<1> DEFINE q == (2 * tick - width + s) \div (2 * s)
           lower == q * s
<1>1. q \in Int
  <2>1. 2 * tick - width + s \in Int /\ 2 * s \in Int /\ 2 * s > 0
    OBVIOUS
  <2> QED
    BY <2>1, ModuloIs
<1>2. Agent!Nearest(tick, width, s) = [lower |-> lower, upper |-> lower + width]
  BY DEF Agent!Nearest, Agent!Range
<1> HIDE DEF q
<1>3. lower \in Int /\ lower % s = 0
  BY <1>1, MultipleModulo
<1> HIDE DEF lower
<1>4. (lower + width) % s = 0 /\ lower + width \in Int /\ lower + width - lower = width
  BY <1>3, SumOfMultiples
<1> QED
  BY <1>2, <1>3, <1>4 DEF Agent!Aligned

-----------------------------------------------------------------------------
(* The rebalancing agent.                                                  *)

LEMMA AgentNumbers ==
  /\ Depth \in Nat /\ Tolerance \in Nat /\ MaxTime \in Nat /\ MaxBlocks \in Nat
  /\ MaxForks \in Nat /\ MaxBlocks > Depth
  /\ Spacing \in Nat \ {0} /\ Position.lower \in Int /\ Position.upper \in Int
  /\ Ticks \subseteq Int
  /\ \A m \in Mandates :
      /\ m.expires \in Int /\ m.permission \in Int /\ m.estimated \in Int /\ m.maxAge \in Int
      /\ m.policy.width \in Int /\ m.policy.low \in Int /\ m.policy.high \in Int
      /\ m.policy.drift \in Nat
  /\ None \notin Agent!Codes /\ None \notin Ticks /\ None \notin Holders \cup {empty}
  /\ None \notin Agent!Pins /\ None \notin Agent!Observations
  /\ None \notin Agent!Quotes /\ None \notin Agent!Answers
BY RebalancingAssumption DEF Agent!AgentAssumption, Agent!NoneAssumption

\* What a call may be refused with, its own task being signed well.
Refusals == Agent!Codes \ {"SIGNED_TASK_INVALID"}

\* The evidence of one block, below the head it names.
OfOneBlock(e) ==
  /\ e \in Agent!Observations
  /\ e.height = e.head - Depth /\ e.tick = e.block.tick /\ e.holder = e.block.holder

\* A signed task is one its own schema takes.
WellQuoted(m, q) ==
  /\ q \in Agent!Quotes /\ Agent!SignedRange(m, q.evidence, q.proposal)
  /\ q.proposal.tick = q.evidence.tick

\* An answer says what it may, of the purpose it is for and the stage it led to.
WellAnswered(m, r, q, why, stage) ==
  /\ r.status # "thrown" /\ r.code # "SIGNED_TASK_INVALID"
  /\ r.evidence # None => OfOneBlock(r.evidence)
  /\ r.status \in {"offered", "simulation_ready"} =>
      r.evidence # None /\ Agent!AfterRead(m, r.evidence, r.at) = None
  /\ r.status = "simulation_ready" =>
      q # None /\ Agent!DeliveryState(m, q, r.evidence) = None
  /\ /\ stage = "ended" /\ why = "delivery" /\ r.evidence # None
     /\ Agent!AfterRead(m, r.evidence, r.at) = None
     /\ Agent!DeliveryState(m, q, r.evidence) = None
     => r.status = "simulation_ready"

RebalanceChainInv ==
  /\ mandate \in Mandates /\ now \in 0..MaxTime /\ forks \in 0..MaxForks
  /\ blocks \in Seq(Agent!Blocks) /\ Len(blocks) \in (Depth + 1)..MaxBlocks

\* What is kept of a read at each of its stages.
ReadingInv ==
  /\ pc \in Agent!Reading \cup {"idle", "quoted", "ended"}
  /\ attempt \in IF pc \in Agent!Reading THEN 1..Agent!Attempts ELSE {0}
  /\ pc \in Agent!Reading \ {"head"} => head \in (Depth + 1)..Len(blocks)
  /\ IF pc \in Agent!Reading \ {"head", "pin"}
     THEN pin \in Agent!Pins /\ pin.height = head - Depth ELSE pin = None
  /\ seen \in [Agent!Facts -> Ticks \cup Holders \cup {empty} \cup {None}]
  /\ seen["tick"] \in {None, pin.block.tick} /\ seen["holder"] \in {None, pin.block.holder}
  /\ pc \in {"head", "pin"} => seen["tick"] = None /\ seen["holder"] = None
  /\ pc \in Agent!Reading \ {"head", "pin", "code", "facts"} =>
      \A f \in Agent!Facts : seen[f] # None

\* What is kept of the service.
ServiceInv ==
  /\ purpose \in {"quote", "delivery"}
  /\ quote # None => WellQuoted(mandate, quote)
  /\ pc = "quoted" \/ purpose = "delivery" => quote # None
  /\ (answer = None) <=> (pc = "idle" \/ (pc \in Agent!Reading /\ purpose = "quote"))
  /\ answer # None => answer \in Agent!Answers /\ WellAnswered(mandate, answer, quote, purpose, pc)

RebalanceInv == RebalanceChainInv /\ ReadingInv /\ ServiceInv

LEMMA UnseenIs ==
  /\ Agent!Unseen \in [Agent!Facts -> Ticks \cup Holders \cup {empty} \cup {None}]
  /\ Agent!Unseen["tick"] = None /\ Agent!Unseen["holder"] = None
BY DEF Agent!Unseen, Agent!Facts

LEMMA RebalanceInitKeeps ==
  ASSUME Agent!Init
  PROVE  RebalanceInv
<1>1. PICK tick \in Ticks, holder \in Holders \cup {empty} :
        blocks = [h \in 1..(Depth + 1) |-> Agent!Block(0, 0, tick, holder)]
  BY DEF Agent!Init
<1>2. Agent!Block(0, 0, tick, holder) \in Agent!Blocks
  BY AgentNumbers DEF Agent!Block, Agent!Blocks
<1>3. blocks \in Seq(Agent!Blocks) /\ Len(blocks) = Depth + 1
  BY <1>1, <1>2, AgentNumbers
<1>4. RebalanceChainInv
  BY <1>3, AgentNumbers DEF Agent!Init, RebalanceChainInv
<1>5. ReadingInv
  BY UnseenIs DEF Agent!Init, ReadingInv, Agent!Reading
<1>6. ServiceInv
  BY DEF Agent!Init, ServiceInv, Agent!Reading
<1> QED
  BY <1>4, <1>5, <1>6 DEF RebalanceInv

LEMMA RebalanceChainKeeps ==
  ASSUME RebalanceInv, Agent!Tick \/ Agent!Mine \/ Agent!Reorganize
  PROVE  RebalanceInv'
<1>1. UNCHANGED <<mandate, pc, purpose, attempt, head, pin, seen, quote, answer>>
  BY DEF Agent!Tick, Agent!Mine, Agent!Reorganize
<1>2. /\ RebalanceChainInv' /\ Len(blocks') >= Len(blocks)
      /\ Len(blocks') \in Nat /\ Len(blocks) \in Nat
  <2>1. CASE Agent!Tick
    BY <2>1, AgentNumbers DEF Agent!Tick, RebalanceInv, RebalanceChainInv
  <2>2. CASE Agent!Mine
    <3>1. PICK tick \in Ticks, holder \in Holders \cup {empty} :
            blocks' = Append(blocks, Agent!Block(forks, now, tick, holder))
      BY <2>2 DEF Agent!Mine
    <3>2. Agent!Block(forks, now, tick, holder) \in Agent!Blocks
      BY DEF Agent!Block, Agent!Blocks, RebalanceInv, RebalanceChainInv
    <3> QED
      BY <2>2, <3>1, <3>2, AgentNumbers DEF Agent!Mine, RebalanceInv, RebalanceChainInv
  <2>3. CASE Agent!Reorganize
    <3>1. PICK from \in 2..Len(blocks), tick \in Ticks, holder \in Holders \cup {empty} :
            blocks' = [h \in DOMAIN blocks |->
                        IF h < from THEN blocks[h]
                        ELSE Agent!Block(forks + 1, blocks[h].at, tick, holder)]
      BY <2>3 DEF Agent!Reorganize
    <3>2. forks + 1 \in 0..MaxForks
      BY <2>3, AgentNumbers DEF Agent!Reorganize, RebalanceInv, RebalanceChainInv
    <3>3. ASSUME NEW h \in DOMAIN blocks
          PROVE  blocks[h] \in Agent!Blocks
      BY DEF RebalanceInv, RebalanceChainInv
    <3>4. ASSUME NEW h \in DOMAIN blocks
          PROVE  blocks'[h] \in Agent!Blocks
      <4>1. Agent!Block(forks + 1, blocks[h].at, tick, holder) \in Agent!Blocks
        BY <3>2, <3>3 DEF Agent!Block, Agent!Blocks
      <4> QED
        BY <3>1, <3>3, <4>1
    <3>5. blocks' \in Seq(Agent!Blocks) /\ Len(blocks') = Len(blocks)
      <4>1. DOMAIN blocks = 1..Len(blocks) /\ Len(blocks) \in Nat
        BY DEF RebalanceInv, RebalanceChainInv
      <4>2. blocks' \in [1..Len(blocks) -> Agent!Blocks]
        BY <3>1, <3>4, <4>1
      <4> QED
        BY <4>1, <4>2
    <3> QED
      BY <2>3, <3>2, <3>5 DEF Agent!Reorganize, RebalanceInv, RebalanceChainInv
  <2> QED
    BY <2>1, <2>2, <2>3
<1>3. ReadingInv'
  BY <1>1, <1>2, AgentNumbers DEF RebalanceInv, ReadingInv
<1>4. ServiceInv'
  BY <1>1 DEF RebalanceInv, ServiceInv
<1> QED
  BY <1>2, <1>3, <1>4 DEF RebalanceInv

\* A read begins.
LEMMA ReadBegins ==
  ASSUME RebalanceInv, NEW why, NEW n, Agent!Begin(why, n), n \in 1..Agent!Attempts,
         \/ pc = "idle" /\ why = "quote"
         \/ pc = "quoted" /\ why = "delivery"
         \/ pc \in Agent!Reading /\ why = purpose
  PROVE  RebalanceInv'
<1>1. /\ pc' = "head" /\ purpose' = why /\ attempt' = n /\ head' = 0 /\ pin' = None
      /\ seen' = Agent!Unseen /\ UNCHANGED <<mandate, now, blocks, forks, quote, answer>>
  BY DEF Agent!Begin
<1>2. RebalanceChainInv'
  BY <1>1 DEF RebalanceInv, RebalanceChainInv
<1>3. ReadingInv'
  BY <1>1, UnseenIs DEF ReadingInv, Agent!Reading
<1>4. ServiceInv'
  BY <1>1 DEF RebalanceInv, ServiceInv, Agent!Reading, WellAnswered
<1> QED
  BY <1>2, <1>3, <1>4 DEF RebalanceInv

\* A call is over.
LEMMA CallEnds ==
  ASSUME RebalanceInv, NEW why \in {"quote", "delivery"}, NEW stage \in {"quoted", "ended"},
         NEW status \in {"refused", "offered", "thrown", "simulation_ready"},
         NEW code \in Agent!Codes \cup {None}, NEW evidence \in Agent!Observations \cup {None},
         Agent!End(why, stage, status, code, evidence),
         quote' = quote \/ WellQuoted(mandate, quote'),
         stage = "quoted" \/ why = "delivery" => quote' # None,
         WellAnswered(mandate, [status |-> status, code |-> code, at |-> now,
                                evidence |-> evidence], quote', why, stage)
  PROVE  RebalanceInv'
<1>1. /\ pc' = stage /\ purpose' = why /\ attempt' = 0 /\ head' = 0 /\ pin' = None
      /\ seen' = Agent!Unseen /\ UNCHANGED <<mandate, now, blocks, forks>>
      /\ answer' = [status |-> status, code |-> code, at |-> now, evidence |-> evidence]
  BY DEF Agent!End
<1>2. RebalanceChainInv'
  BY <1>1 DEF RebalanceInv, RebalanceChainInv
<1>3. ReadingInv'
  BY <1>1, UnseenIs DEF ReadingInv, Agent!Reading
<1>4. answer' \in Agent!Answers /\ answer' # None
  BY <1>1, AgentNumbers DEF Agent!Answers, RebalanceInv, RebalanceChainInv
<1>5. ServiceInv'
  BY <1>1, <1>4 DEF RebalanceInv, ServiceInv, Agent!Reading
<1> QED
  BY <1>2, <1>3, <1>5 DEF RebalanceInv

LEMMA RefusalKeeps ==
  ASSUME RebalanceInv, NEW why \in {"quote", "delivery"},
         NEW code \in Refusals, Agent!Refuse(why, code, None),
         why = "delivery" => quote # None
  PROVE  RebalanceInv'
<1>1. Agent!End(why, "ended", "refused", code, None) /\ quote' = quote
  BY DEF Agent!Refuse
<1>2. WellAnswered(mandate, [status |-> "refused", code |-> code, at |-> now,
                             evidence |-> None], quote', why, "ended")
  BY DEF WellAnswered, Refusals
<1> QED
  BY <1>1, <1>2, CallEnds DEF Refusals

\* What the policy and the state of a delivery refuse with.
LEMMA CodesAre ==
  ASSUME NEW m, NEW e, NEW q, NEW second
  PROVE  /\ Agent!Expiry(m, second) \in Refusals \cup {None}
         /\ Agent!StaticPolicy(m, second) \in Refusals \cup {None}
         /\ Agent!AfterRead(m, e, second) \in Refusals \cup {None}
         /\ Agent!DeliveryState(m, q, e) \in Refusals \cup {None}
         /\ Agent!NotOffered(m, e) \in Refusals \cup {None}
<1>1. Agent!Expiry(m, second) \in Refusals \cup {None}
  BY DEF Agent!Expiry, Refusals, Agent!Codes
<1>2. Agent!StaticPolicy(m, second) \in Refusals \cup {None}
  BY <1>1 DEF Agent!StaticPolicy, Refusals, Agent!Codes
<1>3. Agent!Freshness(m, e, second) \in Refusals \cup {None}
  BY DEF Agent!Freshness, Refusals, Agent!Codes
<1>4. Agent!AfterRead(m, e, second) \in Refusals \cup {None}
  BY <1>2, <1>3 DEF Agent!AfterRead
<1>5. Agent!DeliveryState(m, q, e) \in Refusals \cup {None}
  BY DEF Agent!DeliveryState, Refusals, Agent!Codes
<1>6. Agent!NotOffered(m, e) \in Refusals \cup {None}
  BY DEF Agent!NotOffered, Refusals, Agent!Codes
<1> QED
  BY <1>1, <1>2, <1>4, <1>5, <1>6

LEMMA CallKeeps ==
  ASSUME RebalanceInv, Agent!PrepareQuote \/ Agent!Deliver
  PROVE  RebalanceInv'
<1>1. CASE Agent!PrepareQuote
  <2> DEFINE refusal == Agent!StaticPolicy(mandate, now)
  <2>1. /\ pc = "idle"
        /\ IF refusal = None THEN Agent!Begin("quote", 1) ELSE Agent!Refuse("quote", refusal, None)
    BY <1>1 DEF Agent!PrepareQuote
  <2>2. refusal \in Refusals \cup {None}
    BY CodesAre
  <2> QED
    BY <2>1, <2>2, ReadBegins, RefusalKeeps DEF Agent!Attempts
<1>2. CASE Agent!Deliver
  <2> DEFINE refusal == Agent!Expiry(mandate, now)
  <2>1. pc = "quoted" /\ quote # None /\ Agent!SignedRange(mandate, quote.evidence, quote.proposal)
    BY <1>2 DEF Agent!Deliver, RebalanceInv, ServiceInv, WellQuoted
  <2>2. IF refusal = None THEN Agent!Begin("delivery", 1)
        ELSE Agent!Refuse("delivery", refusal, None)
    BY <1>2, <2>1 DEF Agent!Deliver
  <2>3. refusal \in Refusals \cup {None}
    BY CodesAre
  <2> QED
    BY <2>1, <2>2, <2>3, ReadBegins, RefusalKeeps DEF Agent!Attempts
<1> QED
  BY <1>1, <1>2

LEMMA Refusable ==
  ASSUME RebalanceInv
  PROVE  /\ purpose \in {"quote", "delivery"}
         /\ purpose = "delivery" => quote # None
         /\ "EVIDENCE_UNAVAILABLE" \in Refusals
         /\ "POSITION_INACTIVE" \in Refusals
BY DEF RebalanceInv, ServiceInv, Agent!Codes, Refusals

LEMMA ReadAgainKeeps ==
  ASSUME RebalanceInv, pc \in Agent!Reading, Agent!Retry
  PROVE  RebalanceInv'
<1>1. attempt \in 1..Agent!Attempts /\ Agent!Attempts \in Nat
  BY DEF RebalanceInv, ReadingInv, Agent!Attempts
<1>2. CASE attempt < Agent!Attempts /\ Agent!Begin(purpose, attempt + 1)
  BY <1>1, <1>2, ReadBegins
<1>3. CASE Agent!Refuse(purpose, "EVIDENCE_UNAVAILABLE", None)
  BY <1>3, Refusable, RefusalKeeps
<1> QED
  BY <1>2, <1>3 DEF Agent!Retry

\* A stage of a read is passed.
LEMMA ReadGoesOn ==
  ASSUME RebalanceInv, NEW stage \in Agent!Reading, Agent!Proceed(stage), pc \in Agent!Reading,
         ReadingInv'
  PROVE  RebalanceInv'
<1>1. pc' = stage /\ UNCHANGED <<mandate, now, blocks, forks, purpose, attempt, quote, answer>>
  BY DEF Agent!Proceed
<1>2. RebalanceChainInv' /\ ServiceInv'
  BY <1>1 DEF RebalanceInv, RebalanceChainInv, ServiceInv, WellAnswered, Agent!Reading
<1> QED
  BY <1>2 DEF RebalanceInv

\* The stages of a read, one by one.
LEMMA StagesKeep ==
  ASSUME RebalanceInv,
         \/ Agent!SeeHead \/ Agent!Pin \/ Agent!ReadCode
         \/ (\E f \in Agent!Facts : Agent!ReadFact(f))
         \/ Agent!ReadFactory \/ Agent!AssertCanonical
  PROVE  RebalanceInv'
<1> USE DEF Agent!Reading
<1>a. ReadingInv /\ RebalanceChainInv /\ Len(blocks) \in Nat
  BY DEF RebalanceInv, RebalanceChainInv
<1>1. CASE Agent!SeeHead
  <2>1. CASE Agent!Retry
    BY <1>1, <2>1, ReadAgainKeeps DEF Agent!SeeHead
  <2>2. CASE ~(Len(blocks) <= Depth) /\ head' = Len(blocks) /\ UNCHANGED <<pin, seen>>
             /\ Agent!Proceed("pin")
    <3>1. head' \in (Depth + 1)..Len(blocks)
      BY <1>a, <2>2, AgentNumbers
    <3>2. ReadingInv'
      BY <1>1, <1>a, <2>2, <3>1 DEF ReadingInv, Agent!SeeHead, Agent!Proceed, Agent!Facts
    <3> QED
      BY <1>1, <2>2, <3>2, ReadGoesOn DEF Agent!SeeHead
  <2> QED
    BY <1>1, <2>1, <2>2 DEF Agent!SeeHead
<1>2. CASE Agent!Pin
  <2>1. /\ pc = "pin" /\ UNCHANGED <<head, seen>> /\ Agent!Proceed("code")
        /\ pin' = [height |-> head - Depth, block |-> blocks[head - Depth]]
    BY <1>2 DEF Agent!Pin, Agent!PinnedHeight
  <2>2. head - Depth \in 1..Len(blocks) /\ head - Depth \in Nat
    BY <1>a, <2>1, AgentNumbers DEF ReadingInv
  <2>3. blocks[head - Depth] \in Agent!Blocks
    BY <1>a, <2>2 DEF RebalanceChainInv
  <2>4. pin' \in Agent!Pins /\ pin'.height = head - Depth
    BY <2>1, <2>2, <2>3 DEF Agent!Pins
  <2>5. seen["tick"] = None /\ seen["holder"] = None
    BY <1>a, <2>1 DEF ReadingInv
  <2>6. ReadingInv'
    BY <1>a, <2>1, <2>4, <2>5 DEF ReadingInv, Agent!Proceed
  <2> QED
    BY <2>1, <2>6, ReadGoesOn
<1>3. CASE Agent!ReadCode
  <2>1. CASE UNCHANGED <<head, pin, seen>> /\ Agent!Proceed("facts")
    BY <1>3, <1>a, <2>1, ReadGoesOn DEF Agent!ReadCode, ReadingInv, Agent!Proceed
  <2> QED
    BY <1>3, <2>1, ReadAgainKeeps DEF Agent!ReadCode
<1>4. ASSUME NEW f \in Agent!Facts, Agent!ReadFact(f)
      PROVE  RebalanceInv'
  <2> DEFINE stage == IF \A g \in Agent!Facts \ {f} : seen[g] # None THEN "factory" ELSE "facts"
  <2>1. CASE seen' = [seen EXCEPT ![f] = Agent!ReadAt(f)] /\ UNCHANGED <<head, pin>>
             /\ Agent!Proceed(stage)
    <3>1. pc = "facts" /\ pin \in Agent!Pins
      BY <1>4, <1>a DEF Agent!ReadFact, ReadingInv
    <3>2. pin.block.tick \in Ticks /\ pin.block.holder \in Holders \cup {empty}
      BY <3>1 DEF Agent!Pins, Agent!Blocks
    <3>3. f \in {"tick", "holder"} /\ Agent!Facts = {"tick", "holder"}
      BY DEF Agent!Facts
    <3>4. /\ f = "tick" => Agent!ReadAt(f) = pin.block.tick
          /\ f = "holder" => Agent!ReadAt(f) = pin.block.holder
      BY DEF Agent!ReadAt
    <3>5. Agent!ReadAt(f) \in Ticks \cup Holders \cup {empty} /\ Agent!ReadAt(f) # None
      BY <3>2, <3>3, <3>4, AgentNumbers
    <3>6. seen' \in [Agent!Facts -> Ticks \cup Holders \cup {empty} \cup {None}]
      BY <1>a, <2>1, <3>5 DEF ReadingInv
    <3>7. /\ seen'["tick"] \in {None, pin.block.tick}
          /\ seen'["holder"] \in {None, pin.block.holder}
      BY <1>a, <2>1, <3>3, <3>4 DEF ReadingInv
    <3>8. stage = "factory" => \A g \in Agent!Facts : seen'[g] # None
      BY <1>a, <2>1, <3>5 DEF ReadingInv
    <3>9. stage \in {"factory", "facts"}
      OBVIOUS
    <3> HIDE DEF stage
    <3>10. pc' = stage /\ UNCHANGED <<blocks, attempt>>
      BY <2>1 DEF Agent!Proceed
    <3>11. ReadingInv'
      BY <1>a, <2>1, <3>1, <3>6, <3>7, <3>8, <3>9, <3>10 DEF ReadingInv
    <3> QED
      BY <2>1, <3>1, <3>9, <3>11, ReadGoesOn
  <2> QED
    BY <1>4, <2>1, ReadAgainKeeps DEF Agent!ReadFact
<1>5. CASE Agent!ReadFactory
  <2>1. CASE UNCHANGED <<head, pin, seen>> /\ Agent!Proceed("canonical")
    BY <1>5, <1>a, <2>1, ReadGoesOn DEF Agent!ReadFactory, ReadingInv, Agent!Proceed
  <2> QED
    BY <1>5, <2>1, ReadAgainKeeps DEF Agent!ReadFactory
<1>6. CASE Agent!AssertCanonical
  <2>1. CASE UNCHANGED <<head, pin, seen>> /\ Agent!Proceed("landed")
    BY <1>6, <1>a, <2>1, ReadGoesOn DEF Agent!AssertCanonical, ReadingInv, Agent!Proceed
  <2> QED
    BY <1>6, <2>1, ReadAgainKeeps DEF Agent!AssertCanonical
<1> QED
  BY <1>1, <1>2, <1>3, <1>4, <1>5, <1>6

\* What is observed is of the pinned block.
LEMMA ObservedIs ==
  ASSUME RebalanceInv, pc = "landed"
  PROVE  /\ OfOneBlock(Agent!Observed) /\ Agent!Observed.tick \in Int
         /\ Agent!Observed # None
<1>1. /\ pin \in Agent!Pins /\ pin.height = head - Depth /\ head \in Nat
      /\ seen["tick"] = pin.block.tick /\ seen["holder"] = pin.block.holder
  BY AgentNumbers DEF RebalanceInv, ReadingInv, RebalanceChainInv, Agent!Reading, Agent!Facts
<1>2. /\ pin.height \in Nat /\ pin.block \in Agent!Blocks
      /\ pin.block.tick \in Ticks /\ pin.block.holder \in Holders \cup {empty}
  BY <1>1 DEF Agent!Pins, Agent!Blocks
<1>3. Agent!Observed \in Agent!Observations
  BY <1>1, <1>2 DEF Agent!Observed, Agent!Observations
<1> QED
  BY <1>1, <1>2, <1>3, AgentNumbers DEF OfOneBlock, Agent!Observed

\* An offer is one that its own schema takes.
LEMMA OfferIsSigned ==
  ASSUME NEW m \in Mandates, NEW e \in Agent!Observations, e.tick \in Int,
         Agent!NotOffered(m, e) = None
  PROVE  LET proposal == Agent!Proposal(m.policy, Spacing, Position, e.tick)
         IN  WellQuoted(m, [evidence |-> e, proposal |-> proposal])
<1> DEFINE range == Agent!Nearest(e.tick, m.policy.width, Spacing)
           proposal == Agent!Proposal(m.policy, Spacing, Position, e.tick)
           q == [evidence |-> e, proposal |-> proposal]
<1>1. Agent!Offers(m.policy, Spacing, Position, e.tick)
  BY AgentNumbers DEF Agent!NotOffered, Agent!Codes
<1>2. /\ m.policy.width % Spacing = 0 /\ Agent!Within(range, m.policy)
      /\ Agent!Holds(range, e.tick)
  BY <1>1 DEF Agent!Offers
<1>3. /\ range = [lower |-> range.lower, upper |-> range.upper]
      /\ range.lower \in Int /\ range.upper \in Int
      /\ Agent!Aligned(range, Spacing) /\ range.upper - range.lower = m.policy.width
  BY <1>2, NearestIsAligned, AgentNumbers
<1>4. proposal = [range |-> range, tick |-> e.tick, reason |-> Agent!Reason(Position, e.tick),
                  distance |-> Agent!Distance(Position, e.tick)]
  BY DEF Agent!Proposal
<1>5. /\ Agent!Distance(Position, e.tick) \in Int
      /\ Agent!Reason(Position, e.tick) \in {"near_range_boundary", "outside_current_range"}
  BY AgentNumbers DEF Agent!Distance, Agent!Lesser, Agent!Reason
<1>6. range \in [lower : Int, upper : Int]
  BY <1>3
<1> HIDE DEF range
<1>7. proposal \in [range : [lower : Int, upper : Int], tick : Int,
                    reason : {"near_range_boundary", "outside_current_range"},
                    distance : Int]
  BY <1>4, <1>5, <1>6
<1>8. proposal.range = range /\ proposal.tick = e.tick
  BY <1>4
<1>9. Agent!SignedRange(m, e, proposal)
  BY <1>2, <1>3, <1>8 DEF Agent!SignedRange, range
<1> HIDE DEF proposal
<1>10. q \in Agent!Quotes /\ q.evidence = e /\ q.proposal = proposal
  BY <1>7 DEF Agent!Quotes
<1> QED
  BY <1>8, <1>9, <1>10 DEF WellQuoted, proposal

LEMMA LandKeeps ==
  ASSUME RebalanceInv, Agent!Land
  PROVE  RebalanceInv'
<1> DEFINE e == Agent!Observed
           after == Agent!AfterRead(mandate, e, now)
<1>1. /\ pc = "landed" /\ mandate \in Mandates /\ now \in 0..MaxTime
      /\ OfOneBlock(e) /\ e.tick \in Int /\ e # None /\ e \in Agent!Observations
  BY ObservedIs DEF Agent!Land, RebalanceInv, RebalanceChainInv, OfOneBlock
<1>2. CASE Agent!Refuse(purpose, "POSITION_INACTIVE", None)
  BY <1>2, Refusable, RefusalKeeps
<1>3. CASE purpose = "quote" /\ Agent!Offer(e)
  <2> DEFINE refusal == IF after # None THEN after ELSE Agent!NotOffered(mandate, e)
             proposal == Agent!Proposal(mandate.policy, Spacing, Position, e.tick)
  <2>1. refusal \in Refusals \cup {None}
    BY CodesAre
  <2>2. CASE refusal # None
    <3>1. Agent!End("quote", "ended", "refused", refusal, e) /\ quote' = quote
      BY <1>3, <2>2 DEF Agent!Offer, Agent!Refuse
    <3> HIDE DEF refusal, e
    <3>2. WellAnswered(mandate, [status |-> "refused", code |-> refusal, at |-> now,
                                 evidence |-> e], quote', "quote", "ended")
      BY <1>1, <2>1, <2>2 DEF WellAnswered, Refusals
    <3> QED
      BY <1>1, <2>1, <2>2, <3>1, <3>2, CallEnds DEF Refusals
  <2>3. CASE refusal = None
    <3>1. after = None /\ Agent!NotOffered(mandate, e) = None
      BY <2>3
    <3>2. WellQuoted(mandate, [evidence |-> e, proposal |-> proposal])
      BY <1>1, <3>1, OfferIsSigned
    <3>3. Agent!SignedRange(mandate, e, proposal)
      BY <3>2 DEF WellQuoted
    <3>4. /\ Agent!End("quote", "quoted", "offered", None, e)
          /\ quote' = [evidence |-> e, proposal |-> proposal]
      BY <1>3, <2>3, <3>3 DEF Agent!Offer
    <3>5. quote' # None /\ WellQuoted(mandate, quote')
      BY <3>2, <3>4, AgentNumbers DEF WellQuoted
    <3> HIDE DEF refusal, e
    <3>6. WellAnswered(mandate, [status |-> "offered", code |-> None, at |-> now,
                                 evidence |-> e], quote', "quote", "quoted")
      <4>1. None # "SIGNED_TASK_INVALID"
        BY AgentNumbers DEF Agent!Codes
      <4> QED
        BY <1>1, <3>1, <4>1 DEF WellAnswered
    <3> QED
      BY <1>1, <3>4, <3>5, <3>6, CallEnds
  <2> QED
    BY <2>2, <2>3
<1>4. CASE purpose = "delivery" /\ Agent!Receipt(e)
  <2> DEFINE state == Agent!DeliveryState(mandate, quote, e)
             refusal == IF after # None THEN after ELSE state
  <2>1. refusal \in Refusals \cup {None} /\ quote # None
    BY <1>4, CodesAre, Refusable
  <2>2. CASE refusal # None
    <3>1. Agent!End("delivery", "ended", "refused", refusal, e) /\ quote' = quote
      BY <1>4, <2>2 DEF Agent!Receipt, Agent!Refuse
    <3>2. ~(after = None /\ state = None)
      BY <2>2
    <3> HIDE DEF refusal, e
    <3>3. WellAnswered(mandate, [status |-> "refused", code |-> refusal, at |-> now,
                                 evidence |-> e], quote', "delivery", "ended")
      BY <1>1, <2>1, <2>2, <3>1, <3>2 DEF WellAnswered, Refusals
    <3> QED
      BY <1>1, <2>1, <2>2, <3>1, <3>3, CallEnds DEF Refusals
  <2>3. CASE refusal = None
    <3>1. after = None /\ state = None
      BY <2>3
    <3>2. Agent!End("delivery", "ended", "simulation_ready", None, e) /\ quote' = quote
      BY <1>4, <2>3 DEF Agent!Receipt
    <3> HIDE DEF refusal, e
    <3>3. WellAnswered(mandate, [status |-> "simulation_ready", code |-> None, at |-> now,
                                 evidence |-> e], quote', "delivery", "ended")
      <4>1. None # "SIGNED_TASK_INVALID"
        BY AgentNumbers DEF Agent!Codes
      <4> QED
        BY <1>1, <2>1, <3>1, <3>2, <4>1 DEF WellAnswered
    <3> QED
      BY <1>1, <2>1, <3>2, <3>3, CallEnds
  <2> QED
    BY <2>2, <2>3
<1> QED
  BY <1>2, <1>3, <1>4, Refusable DEF Agent!Land

LEMMA RebalanceStep ==
  ASSUME RebalanceInv, [Agent!Next]_agent
  PROVE  RebalanceInv'
<1>1. CASE UNCHANGED agent
  BY <1>1 DEF agent, RebalanceInv, RebalanceChainInv, ReadingInv, ServiceInv
<1>2. CASE Agent!NodeLags \/ Agent!NodeFails
  BY <1>2, ReadAgainKeeps, Refusable, RefusalKeeps DEF Agent!NodeLags, Agent!NodeFails
<1>3. CASE Agent!Next /\ ~(Agent!NodeLags \/ Agent!NodeFails)
  BY <1>3, RebalanceChainKeeps, CallKeeps, StagesKeep, LandKeeps DEF Agent!Next, Agent!Read
<1> QED
  BY <1>1, <1>2, <1>3

\* What the agent promises follows.
LEMMA AgentTypes ==
  ASSUME RebalanceInv
  PROVE  Agent!TypeOK
<1>1. (pin # None) <=> (pc \in Agent!Reading \ {"head", "pin"})
  BY AgentNumbers DEF RebalanceInv, ReadingInv
<1>2. quote # None => quote.evidence \in Agent!Observations
  BY DEF RebalanceInv, ServiceInv, WellQuoted, Agent!Quotes
<1> QED
  BY <1>1, <1>2 DEF Agent!TypeOK, RebalanceInv, RebalanceChainInv, ReadingInv, ServiceInv

LEMMA NothingRefused ==
  ASSUME NEW m, NEW e, NEW second, Agent!AfterRead(m, e, second) = None
  PROVE  Agent!StaticPolicy(m, second) = None /\ Agent!Freshness(m, e, second) = None
BY DEF Agent!AfterRead

LEMMA AgentPromises ==
  ASSUME RebalanceInv
  PROVE  /\ Agent!EvidenceIsOfOneBlock /\ Agent!OwnTasksAreValid
         /\ Agent!UnchangedIsDelivered /\ Agent!ReadyIsAsQuoted /\ Agent!AnswerIsLive
<1>a. /\ "MANDATE_EXPIRED" # None /\ "PERMISSION_EXPIRED" # None /\ "STALE_EVIDENCE" # None
      /\ "INVALID_MANDATE" # None /\ "EVIDENCE_UNAVAILABLE" # None
      /\ "STATE_DRIFT" # None /\ "TARGET_RANGE_EXITED" # None
  BY AgentNumbers DEF Agent!Codes
<1>b. /\ answer # None =>
           answer \in Agent!Answers /\ WellAnswered(mandate, answer, quote, purpose, pc)
      /\ quote # None => WellQuoted(mandate, quote)
      /\ mandate \in Mandates
      /\ (answer = None) <=> (pc = "idle" \/ (pc \in Agent!Reading /\ purpose = "quote"))
      /\ purpose = "delivery" => quote # None
  BY DEF RebalanceInv, RebalanceChainInv, ServiceInv
<1>1. Agent!EvidenceIsOfOneBlock
  BY <1>b DEF Agent!EvidenceIsOfOneBlock, WellAnswered, OfOneBlock
<1>2. Agent!OwnTasksAreValid
  BY <1>b DEF Agent!OwnTasksAreValid, WellAnswered
<1>3. Agent!UnchangedIsDelivered
  <2>1. SUFFICES ASSUME pc = "ended", purpose = "delivery", answer.evidence # None,
                        answer.evidence.tick = quote.evidence.tick,
                        answer.evidence.holder = quote.evidence.holder,
                        Agent!AfterRead(mandate, answer.evidence, answer.at) = None
                 PROVE  answer.status = "simulation_ready"
    BY DEF Agent!UnchangedIsDelivered
  <2>2. /\ answer # None /\ WellAnswered(mandate, answer, quote, purpose, pc)
        /\ WellQuoted(mandate, quote)
    BY <1>b, <2>1 DEF Agent!Reading
  <2>3. quote.evidence.tick \in Int /\ mandate.policy.drift \in Nat
    BY <1>b, <2>2, AgentNumbers DEF WellQuoted, Agent!Quotes, Agent!Observations
  <2>4. Agent!Absolute(answer.evidence.tick - quote.evidence.tick) = 0
    BY <2>1, <2>3 DEF Agent!Absolute
  <2>5. Agent!Holds(quote.proposal.range, answer.evidence.tick)
    BY <2>1, <2>2 DEF WellQuoted, Agent!SignedRange
  <2>6. Agent!DeliveryState(mandate, quote, answer.evidence) = None
    BY <2>1, <2>3, <2>4, <2>5 DEF Agent!DeliveryState
  <2> QED
    BY <2>1, <2>2, <2>6 DEF WellAnswered
<1>4. Agent!ReadyIsAsQuoted
  <2>1. SUFFICES ASSUME answer # None, answer.status = "simulation_ready"
                 PROVE  /\ answer.evidence.holder = quote.evidence.holder
                        /\ Agent!Absolute(answer.evidence.tick - quote.proposal.tick)
                             <= mandate.policy.drift
                        /\ Agent!Holds(quote.proposal.range, answer.evidence.tick)
    BY DEF Agent!ReadyIsAsQuoted
  <2>2. /\ quote # None /\ Agent!DeliveryState(mandate, quote, answer.evidence) = None
        /\ quote.proposal.tick = quote.evidence.tick /\ quote \in Agent!Quotes
        /\ OfOneBlock(answer.evidence)
    BY <1>b, <2>1 DEF WellAnswered, WellQuoted
  <2>3. /\ answer.evidence.holder = quote.evidence.holder
        /\ ~(Agent!Absolute(answer.evidence.tick - quote.evidence.tick) > mandate.policy.drift)
        /\ Agent!Holds(quote.proposal.range, answer.evidence.tick)
    BY <1>a, <2>2 DEF Agent!DeliveryState
  <2>4. answer.evidence.tick \in Int /\ quote.evidence.tick \in Int /\ mandate.policy.drift \in Int
    BY <1>b, <2>2, AgentNumbers DEF OfOneBlock, Agent!Observations, Agent!Quotes
  <2>5. Agent!Absolute(answer.evidence.tick - quote.evidence.tick) \in Int
    BY <2>4 DEF Agent!Absolute
  <2> QED
    BY <2>2, <2>3, <2>4, <2>5
<1>5. Agent!AnswerIsLive
  <2>1. SUFFICES ASSUME answer # None, answer.status \in {"offered", "simulation_ready"}
                 PROVE  /\ answer.at < mandate.expires /\ answer.at < mandate.permission
                        /\ answer.at - mandate.estimated <= mandate.maxAge
                        /\ answer.at - answer.evidence.block.at <= mandate.maxAge
    BY DEF Agent!AnswerIsLive
  <2>2. /\ Agent!AfterRead(mandate, answer.evidence, answer.at) = None
        /\ OfOneBlock(answer.evidence) /\ answer \in Agent!Answers
    BY <1>b, <2>1 DEF WellAnswered
  <2>3. /\ Agent!StaticPolicy(mandate, answer.at) = None
        /\ Agent!Freshness(mandate, answer.evidence, answer.at) = None
    BY <2>2, NothingRefused
  <2>4. /\ Agent!Expiry(mandate, answer.at) = None
        /\ ~(answer.at - mandate.estimated > mandate.maxAge)
    BY <1>a, <2>3 DEF Agent!StaticPolicy
  <2>5. ~(mandate.expires <= answer.at) /\ ~(mandate.permission <= answer.at)
    BY <1>a, <2>4 DEF Agent!Expiry
  <2>6. ~(answer.at - answer.evidence.block.at > mandate.maxAge)
    BY <1>a, <2>3 DEF Agent!Freshness
  <2>7. /\ answer.at \in Int /\ answer.evidence.block.at \in Int /\ mandate.expires \in Int
        /\ mandate.permission \in Int /\ mandate.estimated \in Int /\ mandate.maxAge \in Int
    BY <1>b, <2>2, AgentNumbers DEF Agent!Answers, OfOneBlock, Agent!Observations, Agent!Blocks
  <2> QED
    BY <2>4, <2>5, <2>6, <2>7
<1> QED
  BY <1>1, <1>2, <1>3, <1>4, <1>5

RebalancingInv == Rebalancing => RebalanceInv

\* The rebalancing agent answers for one block, signs tasks it will itself accept, delivers
\* what is still as it was quoted and nothing else, and nothing that has run out, for any
\* mandates, position, spacing, chain, reorganizations and clock (rebalance.ts).
THEOREM EveryAnswerIsHonest ==
  Agent!Spec => [](/\ Agent!EvidenceIsOfOneBlock /\ Agent!OwnTasksAreValid
                   /\ Agent!UnchangedIsDelivered /\ Agent!ReadyIsAsQuoted
                   /\ Agent!AnswerIsLive)
<1>1. Agent!vars = agent
  BY DEF Agent!vars, agent
<1>2. ASSUME RebalanceInv, [Agent!Next]_(Agent!vars)
      PROVE  RebalanceInv'
  <2>1. [Agent!Next]_agent
    BY <1>2 DEF Agent!vars, agent
  <2> QED
    BY <1>2, <2>1, RebalanceStep
<1> QED
  BY <1>2, RebalanceInitKeeps, AgentPromises, PTL DEF Agent!Spec

\* The same of the scenes in which that agent runs.
THEOREM EveryScenesAgentIsHonest == MCSpec => []AgentIsHonest
<1>1. MCInit => RebalancingInv
  BY RebalanceInitKeeps DEF MCInit, RebalancingInv, Rebalancing
<1>2. RebalancingInv /\ [MCNext]_everything => RebalancingInv'
  <2>1. SUFFICES ASSUME RebalancingInv, [MCNext]_everything
                 PROVE  RebalancingInv'
    OBVIOUS
  <2>2. UNCHANGED scene
    BY <2>1 DEF MCNext, everything
  <2>3. ASSUME Rebalancing
        PROVE  [Agent!Next]_agent
    BY <2>1, <2>3 DEF MCNext, Rebalancing, everything
  <2> QED
    BY <2>1, <2>2, <2>3, RebalanceStep DEF RebalancingInv, Rebalancing
<1>3. RebalancingInv => AgentIsHonest
  BY AgentTypes, AgentPromises
     DEF RebalancingInv, AgentIsHonest, ScenesTypeOK, EvidenceIsOfOneBlock, OwnTasksAreValid,
         UnchangedIsDelivered, ReadyIsAsQuoted, AnswerIsLive
<1> QED
  BY <1>1, <1>2, <1>3, PTL DEF MCSpec
=============================================================================
