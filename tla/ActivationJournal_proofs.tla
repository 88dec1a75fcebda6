----------------------- MODULE ActivationJournal_proofs -----------------------
(***************************************************************************)
(* Proofs about ActivationJournal, for any number of commands,             *)
(* transactions, blocks, reorganizations and resubmissions, and any        *)
(* confirmation depth and windows.                                         *)
(*                                                                         *)
(* The argument.  A generation is sound when it passes the checks of       *)
(* schema.ts and state.ts, its cleanup duties are those of its phase, and  *)
(* what it says of the chain is final: it was read at the confirmation     *)
(* depth, which no reorganization reaches.  The head, what the commands    *)
(* have read and what they are about to store are all sound.  A receipt    *)
(* that was fetched is still that of its transaction as long as its block  *)
(* is canonical, because a fork's blocks are never mined again.  A         *)
(* receipt never lies below an earlier one, since the intent of a step is  *)
(* known to nobody before the step before it was confirmed.                *)
(***************************************************************************)
EXTENDS ActivationJournal, SequenceTheorems, TLAPS

\* A command that has read the head.
Working(c) == pc[c] \in {"persist", "persistSubmission", "fetch", "check"}

\* What the chain holds of a transaction.
ChainIsKept ==
    /\ Height > ConfirmationDepth
    /\ \A n \in 1 .. Height : chain[n] <= fork
    /\ \A t \in Tx :
        /\ txs[t].op = "none" <=> txs[t].status = "unsent"
        /\ txs[t].op = "create_job" => txs[t].job = t
        /\ txs[t].status \in {"success", "reverted"} =>
              txs[t].num \in 1 .. Height /\ chain[txs[t].num] = txs[t].fork
        /\ txs[t].status \in {"unsent", "pending"} => txs[t].num = 0

\* What a generation says of the chain is so, and final: found are the transactions, height
\* the number of blocks.
Recorded(s, found, height) ==
    /\ \A i \in 1 .. Len(s.receipts) :
        LET r == s.receipts[i]
        IN /\ found[r.tx].status = "success"
           /\ found[r.tx].op = ExpectedOperations[i] /\ found[r.tx].job = s.job
           /\ found[r.tx].num = r.num /\ found[r.tx].fork = r.fork
           /\ r.num <= height - ConfirmationDepth
    /\ s.observed = "reverted" =>
        /\ found[s.submission].status = "reverted"
        /\ found[s.submission].num <= height - ConfirmationDepth

\* Unless a hash is missing, the duties are those of the phase.
Dutiful(s) ==
    s.condition \in {"ready", "cleanup_required", "aborted"} =>
        s.cleanup = CleanupForPhase(s.phase)

InPreview(s) == Len(s.receipts) = 4 => s.receipts[4].num <= s.validUntil

Proper(s) == s \in States /\ Valid(s) /\ Dutiful(s) /\ InPreview(s)

Sound(s) == Proper(s) /\ Recorded(s, txs, Height)

JournalIsSound == journal # NoState => Sound(journal)

\* What a command has read and what it is about to store are sound; the latter is a child
\* of the former, and the receipt it adds settles the submission that was read.
Legal(c) ==
    /\ Working(c) => Sound(read[c])
    /\ pc[c] = "bootstrap" => draft[c] = FirstState
    /\ pc[c] \in {"persist", "persistSubmission"} =>
          /\ Sound(draft[c])
          /\ draft[c] = read[c] \/ ChildTransition(read[c], draft[c])
    /\ pc[c] = "persist" /\ Len(draft[c].receipts) > Len(read[c].receipts) =>
          draft[c].receipts[Len(draft[c].receipts)].tx = read[c].submission
    /\ pc[c] = "persistSubmission" => draft[c].condition = "reconcile_required"
    /\ pc[c] \in {"fetch", "check"} => read[c].condition = "reconcile_required"

\* The receipts of an earlier generation are the first ones of a later one.
Precedes(s, d) ==
    /\ Len(s.receipts) <= Len(d.receipts)
    /\ \A i \in 1 .. Len(s.receipts) : d.receipts[i] = s.receipts[i]

\* A command whose read is fresh has read the head; every read is a part of the head's past.
ReadIsPast(c) ==
    /\ c \in fresh => Working(c) /\ read[c] = journal
    /\ Working(c) => journal # NoState /\ Precedes(read[c], journal)

\* A receipt that was fetched is its transaction's as long as its block is canonical.
FetchedIsTrue(c) ==
    pc[c] = "check" =>
        /\ receipt[c] \in Fetched
        /\ MatchesIntent(read[c].submission, read[c])
        /\ receipt[c].num <= Height /\ receipt[c].fork <= fork
        /\ Canonical(receipt[c]) =>
            LET t == txs[read[c].submission]
            IN /\ t.num = receipt[c].num /\ t.fork = receipt[c].fork
               /\ t.status = receipt[c].status

CommandIsSound(c) == Legal(c) /\ ReadIsPast(c) /\ FetchedIsTrue(c)

\* The intents of a step become known after the step before it was confirmed, so their
\* transactions are mined above its receipt.
IntentsFollowReceipts ==
    \A t \in Tx, k \in 1 .. 4 : txs[t].op = ExpectedOperations[k] =>
        /\ journal # NoState /\ k <= Len(journal.receipts) + 1
        /\ \A i \in 1 .. Len(journal.receipts) :
              i < k => txs[t].num = 0 \/ journal.receipts[i].num <= txs[t].num

CommandsAreSound == \A c \in Cmd : CommandIsSound(c)

IInv ==
    /\ TypeOK
    /\ ChainIsKept
    /\ JournalIsSound
    /\ IntentsFollowReceipts
    /\ CommandsAreSound

-----------------------------------------------------------------------------
(* The phase tables of state.ts *)

\* A prepared phase awaits the receipt of the operation it prepares, and its confirmation.
LEMMA PreparedTables ==
    \A p \in PreparedPhases :
        /\ p \in Phases /\ p \notin ConfirmedPhases
        /\ Operation[p] \in Operations
        /\ ExpectedReceipts[p] \in 0 .. 3
        /\ Operation[p] = ExpectedOperations[ExpectedReceipts[p] + 1]
        /\ p = "PREPARED_CREATE" <=> ExpectedReceipts[p] = 0
        /\ p = "PREPARED_FUND" <=> ExpectedReceipts[p] = 3
        /\ CleanupForPhase(p) = IF p = "PREPARED_CREATE" THEN "none" ELSE "reject"
        /\ ConfirmedPhaseFor[p] \in ConfirmedPhases /\ ConfirmedPhaseFor[p] \in Phases
        /\ ConfirmedPhaseFor[p] = "FUNDED_CONFIRMED" <=> p = "PREPARED_FUND"
        /\ ExpectedReceipts[ConfirmedPhaseFor[p]] = ExpectedReceipts[p] + 1
BY DEF PreparedPhases, ConfirmedPhases, Phases, Operation, Operations, ExpectedReceipts,
       ExpectedOperations, CleanupForPhase, ConfirmedPhaseFor

\* A confirmed phase other than the last is followed by the preparation of the next step.
LEMMA ConfirmedTables ==
    /\ \A p \in DOMAIN NextPreparedPhase :
        /\ p \in ConfirmedPhases /\ p # "FUNDED_CONFIRMED"
        /\ NextPreparedPhase[p] \in PreparedPhases \ {"PREPARED_CREATE"}
        /\ ExpectedReceipts[NextPreparedPhase[p]] = ExpectedReceipts[p]
    /\ \A p \in ConfirmedPhases :
        /\ p \notin PreparedPhases
        /\ ExpectedReceipts[p] \in 1 .. 4
        /\ p = "FUNDED_CONFIRMED" <=> ExpectedReceipts[p] = 4
        /\ CleanupForPhase(p) = IF p = "FUNDED_CONFIRMED" THEN "refund" ELSE "reject"
BY DEF PreparedPhases, ConfirmedPhases, ExpectedReceipts, CleanupForPhase, NextPreparedPhase

\* The four operations of a lifecycle differ.
LEMMA OperationsDiffer ==
    /\ \A i, k \in 1 .. 4 : ExpectedOperations[i] = ExpectedOperations[k] => i = k
    /\ \A i \in 1 .. 4 : /\ ExpectedOperations[i] \in Operations
                         /\ ExpectedOperations[i] # "none"
                         /\ ExpectedOperations[i] = "create_job" <=> i = 1
BY DEF ExpectedOperations, Operations

-----------------------------------------------------------------------------
(* Generations *)

\* The fields of a generation.
LEMMA FieldsOf ==
    ASSUME NEW s \in States
    PROVE  /\ s.phase \in Phases /\ s.condition \in Conditions /\ s.job \in Tx \cup {NoTx}
           /\ s.submission \in Tx \cup {NoTx} /\ s.observed \in Unresolved \cup {"none", "reverted"}
           /\ s.receipts \in Seq(Receipts) /\ Len(s.receipts) \in Nat
           /\ \A i \in 1 .. Len(s.receipts) : /\ s.receipts[i].tx \in Tx
                                              /\ s.receipts[i].num \in 1 .. MaxHeight
                                              /\ s.receipts[i].fork \in 0 .. MaxForks
           /\ s.validUntil \in 0 .. QuoteExpiresAt
           /\ s # NoState
<1>1. /\ s.phase \in Phases /\ s.condition \in Conditions /\ s.job \in Tx \cup {NoTx}
      /\ s.submission \in Tx \cup {NoTx} /\ s.observed \in Unresolved \cup {"none", "reverted"}
      /\ s.receipts \in Seq(Receipts) /\ s.validUntil \in 0 .. QuoteExpiresAt
  BY DEF States
<1>2. \A i \in 1 .. Len(s.receipts) : s.receipts[i] \in Receipts
  BY <1>1
<1>3. NoState.condition = "none"
  BY DEF NoState, FirstState
<1>4. s # NoState
  BY <1>1, <1>3 DEF Conditions
<1> QED
  BY <1>1, <1>2, <1>4 DEF Receipts

\* A prepared generation lacks the receipt of its own operation, a confirmed one has it.
LEMMA ReceiptsOf ==
    ASSUME NEW s, Proper(s)
    PROVE  /\ s.phase \in PreparedPhases => Len(s.receipts) \in 0 .. 3
           /\ s.phase \in ConfirmedPhases => Len(s.receipts) \in 1 .. 4
           /\ Len(s.receipts) \in 0 .. 4
           /\ s.submission # NoTx => s.phase \in PreparedPhases
           /\ s.phase = "PREPARED_CREATE" <=> Len(s.receipts) = 0
           /\ s.condition = "reconcile_required" =>
                s.phase \in PreparedPhases /\ s.submission \in Tx
<1>1. s.phase \in Phases /\ s.submission \in Tx \cup {NoTx}
  BY FieldsOf DEF Proper
<1>2. Len(s.receipts) = ExpectedReceipts[s.phase]
  BY DEF Proper, Valid
<1>3. s.submission # NoTx => s.phase \in PreparedPhases
  BY DEF Proper, Valid
<1>4. s.condition = "reconcile_required" => s.phase \in PreparedPhases /\ s.submission # NoTx
  BY DEF Proper, Valid
<1>5. CASE s.phase \in PreparedPhases
  BY <1>1, <1>2, <1>4, <1>5, PreparedTables
<1>6. CASE s.phase \in ConfirmedPhases
  <2>1. s.phase \notin PreparedPhases /\ Len(s.receipts) \in 1 .. 4
    BY <1>2, <1>6, ConfirmedTables
  <2>2. "PREPARED_CREATE" \in PreparedPhases
    BY DEF PreparedPhases
  <2> QED
    BY <1>3, <1>4, <2>1, <2>2
<1> QED
  BY <1>1, <1>5, <1>6 DEF Phases

\* A generation whose receipts, job and submission are another's says no more of the chain.
LEMMA RecordedSame ==
    ASSUME NEW s, NEW d, NEW found, NEW height, Recorded(s, found, height),
           d.receipts = s.receipts, d.job = s.job, d.observed # "reverted"
    PROVE  Recorded(d, found, height)
BY DEF Recorded

\* prepareCreateActivation
LEMMA FirstIsSound ==
    \A found, height : Proper(FirstState) /\ Recorded(FirstState, found, height)
<1>1. FirstState \in States
  BY ConstantsAssumption DEF FirstState, States, Phases, PreparedPhases, Conditions
<1>2. Len(FirstState.receipts) = 0
  BY DEF FirstState
<1>3. Valid(FirstState)
  BY <1>2 DEF FirstState, Valid, Terminal, Unresolved, PreparedPhases, ExpectedReceipts
<1>4. Dutiful(FirstState) /\ InPreview(FirstState)
  BY <1>2 DEF FirstState, Dutiful, InPreview, CleanupForPhase
<1>5. \A found, height : Recorded(FirstState, found, height)
  BY <1>2 DEF FirstState, Recorded
<1> QED
  BY <1>1, <1>3, <1>4, <1>5 DEF Proper

\* recordActivationReconciliation of an observation that settles nothing
LEMMA ObservedIsLegal ==
    ASSUME NEW s, Proper(s), s.condition = "reconcile_required", NEW o \in Unresolved
    PROVE  LET d == Observed(s, o)
           IN /\ Proper(d) /\ ChildTransition(s, d)
              /\ d.receipts = s.receipts /\ d.job = s.job /\ d.observed # "reverted"
<1> DEFINE d == Observed(s, o)
<1>1. s \in States
  BY DEF Proper
<1>2. /\ d \in States
      /\ d.phase = s.phase /\ d.condition = s.condition /\ d.job = s.job
      /\ d.submission = s.submission /\ d.observed = o /\ d.receipts = s.receipts
      /\ d.cleanup = s.cleanup /\ d.validUntil = s.validUntil
  BY <1>1 DEF Observed, States
<1> HIDE DEF d
<1>3. o # "none" /\ o # "reverted"
  BY DEF Unresolved
<1>4. Valid(d)
  BY <1>2, <1>3 DEF Proper, Valid, Terminal
<1>5. Dutiful(d) /\ InPreview(d)
  BY <1>2 DEF Proper, Dutiful, InPreview
<1>6. SubSeq(d.receipts, 1, Len(s.receipts)) = s.receipts
  BY <1>1, <1>2, FieldsOf
<1>7. Extends(s, d)
  BY <1>1, <1>2, <1>6, FieldsOf DEF Extends
<1>8. SamePhaseTransition(s, d)
  BY <1>2, ReceiptsOf DEF SamePhaseTransition
<1> QED
  BY <1>2, <1>3, <1>4, <1>5, <1>7, <1>8 DEF Proper, ChildTransition, d

\* recordActivationSubmission
LEMMA SubmissionIsLegal ==
    ASSUME NEW s, Proper(s), NEW t \in Tx, MayRecordSubmission(s, t)
    PROVE  LET d == RecordSubmission(s, t)
           IN /\ Proper(d) /\ (d = s \/ ChildTransition(s, d))
              /\ d.condition = "reconcile_required" /\ d.submission = t
              /\ d.receipts = s.receipts /\ d.job = s.job
              /\ d = s \/ d.observed # "reverted"
<1> DEFINE d == RecordSubmission(s, t)
<1>1. s \in States
  BY DEF Proper
<1>2. CASE s.submission = t
  <2>1. d = s
    BY <1>2 DEF RecordSubmission
  <2>2. s.condition = "reconcile_required"
    BY <1>2, ConstantsAssumption DEF Proper, Valid, MayRecordSubmission
  <2> QED
    BY <1>2, <2>1, <2>2
<1>3. CASE s.submission # t
  <2>1. /\ d \in States
        /\ d.phase = s.phase /\ d.condition = "reconcile_required" /\ d.job = s.job
        /\ d.submission = t /\ d.observed = "none" /\ d.receipts = s.receipts
        /\ d.cleanup = s.cleanup /\ d.validUntil = s.validUntil
    BY <1>1, <1>3 DEF RecordSubmission, States, Conditions
  <2> HIDE DEF d
  <2>2. t # NoTx /\ s.submission = NoTx
    BY <1>3, ConstantsAssumption DEF MayRecordSubmission
  <2>3. Valid(d)
    BY <2>1, <2>2 DEF Proper, Valid, Terminal, Unresolved, MayRecordSubmission
  <2>4. Dutiful(d) /\ InPreview(d)
    BY <2>1 DEF Proper, Dutiful, InPreview
  <2>5. SubSeq(d.receipts, 1, Len(s.receipts)) = s.receipts
    BY <1>1, <2>1, FieldsOf
  <2>6. Extends(s, d)
    BY <1>1, <2>1, <2>5, FieldsOf DEF Extends
  <2>7. s.condition \in {"ready", "broadcast_unknown"}
    BY <2>2 DEF Proper, Valid, MayRecordSubmission
  <2>8. SamePhaseTransition(s, d)
    BY <2>1, <2>2, <2>7 DEF SamePhaseTransition, MayRecordSubmission
  <2> QED
    BY <2>1, <2>3, <2>4, <2>6, <2>8 DEF Proper, ChildTransition, d
<1> QED
  BY <1>2, <1>3

\* markActivationBroadcastUnknown
LEMMA UnknownIsLegal ==
    ASSUME NEW s, Proper(s), s.phase \in PreparedPhases, s.condition = "ready"
    PROVE  LET d == [s EXCEPT !.condition = "broadcast_unknown", !.cleanup = "none"]
           IN /\ Proper(d) /\ ChildTransition(s, d)
              /\ d.receipts = s.receipts /\ d.job = s.job /\ d.observed # "reverted"
<1> DEFINE d == [s EXCEPT !.condition = "broadcast_unknown", !.cleanup = "none"]
<1>1. s \in States
  BY DEF Proper
<1>2. /\ d \in States
      /\ d.phase = s.phase /\ d.condition = "broadcast_unknown" /\ d.job = s.job
      /\ d.submission = s.submission /\ d.observed = s.observed /\ d.receipts = s.receipts
      /\ d.cleanup = "none" /\ d.validUntil = s.validUntil
  BY <1>1 DEF States, Conditions
<1> HIDE DEF d
<1>3. s.submission = NoTx /\ s.observed = "none"
  BY DEF Proper, Valid
<1>4. Valid(d)
  BY <1>2, <1>3 DEF Proper, Valid, Terminal, Unresolved
<1>5. Dutiful(d) /\ InPreview(d)
  BY <1>2 DEF Proper, Dutiful, InPreview
<1>6. SubSeq(d.receipts, 1, Len(s.receipts)) = s.receipts
  BY <1>1, <1>2, FieldsOf
<1>7. Extends(s, d)
  BY <1>1, <1>2, <1>6, FieldsOf DEF Extends
<1>8. SamePhaseTransition(s, d)
  BY <1>2, <1>3 DEF SamePhaseTransition
<1> QED
  BY <1>2, <1>3, <1>4, <1>5, <1>7, <1>8 DEF Proper, ChildTransition, d

\* The generations that prepareNextActivationStep derives from s.
NextOf(s, d) ==
    LET next  == NextPreparedPhase[s.phase]
        child == [s EXCEPT !.phase = next, !.cleanup = CleanupForPhase(next)]
    IN \/ next # "PREPARED_FUND" /\ d = child
       \/ /\ next = "PREPARED_FUND"
          /\ \E end \in 1 .. QuoteExpiresAt : d = [child EXCEPT !.validUntil = end]

\* prepareNextActivationStep
LEMMA PreparedIsLegal ==
    ASSUME NEW s, Proper(s), s.condition = "ready", s.phase \in DOMAIN NextPreparedPhase,
           NEW d, NextOf(s, d)
    PROVE  /\ Proper(d) /\ ChildTransition(s, d)
           /\ d.receipts = s.receipts /\ d.job = s.job /\ d.observed # "reverted"
<1> DEFINE next == NextPreparedPhase[s.phase]
<1>1. s \in States
  BY DEF Proper
<1>2. next \in PreparedPhases \ {"PREPARED_CREATE"} /\ ExpectedReceipts[next] = ExpectedReceipts[s.phase]
      /\ s.phase \in ConfirmedPhases \ PreparedPhases
      /\ s.phase # "FUNDED_CONFIRMED" /\ CleanupForPhase(next) = "reject" /\ next \in Phases
      /\ next # s.phase
  BY PreparedTables, ConfirmedTables
<1>a. s.submission = NoTx /\ s.observed = "none" /\ s.validUntil = 0
  <2>1. s.submission = NoTx /\ s.observed = "none"
    BY DEF Proper, Valid
  <2>2. s.validUntil = 0
    BY <1>2 DEF Proper, Valid, PreparedPhases
  <2> QED
    BY <2>1, <2>2
<1> DEFINE Fields == /\ d \in States
                     /\ d.phase = next /\ d.condition = "ready" /\ d.job = s.job
                     /\ d.submission = NoTx /\ d.observed = "none" /\ d.receipts = s.receipts
                     /\ d.cleanup = "reject" /\ d.validUntil \in 0 .. QuoteExpiresAt
                     /\ d.validUntil # 0 <=> next = "PREPARED_FUND"
           child == [s EXCEPT !.phase = next, !.cleanup = CleanupForPhase(next)]
<1>b. /\ child \in States
      /\ child.phase = next /\ child.condition = "ready" /\ child.job = s.job
      /\ child.submission = NoTx /\ child.observed = "none" /\ child.receipts = s.receipts
      /\ child.cleanup = "reject" /\ child.validUntil = 0
  <2> HIDE DEF next
  <2> QED
    BY <1>1, <1>2, <1>a DEF States
<1> HIDE DEF child, next
<1>c. ASSUME next # "PREPARED_FUND", d = child PROVE Fields
  BY <1>b, <1>c, ConstantsAssumption
<1>d. ASSUME NEW end \in 1 .. QuoteExpiresAt, next = "PREPARED_FUND",
             d = [child EXCEPT !.validUntil = end]
      PROVE  Fields
  <2>1. d \in States
    BY <1>b, <1>d, ConstantsAssumption DEF States
  <2>2. /\ d.phase = child.phase /\ d.condition = child.condition /\ d.job = child.job
        /\ d.submission = child.submission /\ d.observed = child.observed
        /\ d.receipts = child.receipts /\ d.cleanup = child.cleanup /\ d.validUntil = end
    BY <1>b, <1>d DEF States
  <2> QED
    BY <1>b, <1>d, <2>1, <2>2
<1>3. Fields
  BY <1>c, <1>d DEF child, next, NextOf
<1>4. Valid(d)
  BY <1>2, <1>3 DEF Proper, Valid, Terminal, Unresolved
<1>5. Dutiful(d) /\ InPreview(d)
  <2>1. Len(d.receipts) \in 0 .. 3
    BY <1>2, <1>3, <1>4, PreparedTables DEF Valid
  <2> QED
    BY <1>2, <1>3, <2>1 DEF Dutiful, InPreview
<1>6. SubSeq(d.receipts, 1, Len(s.receipts)) = s.receipts
  BY <1>1, <1>3, FieldsOf
<1>7. Extends(s, d)
  BY <1>1, <1>3, <1>6, <1>a, FieldsOf DEF Extends
<1>8. PreparationTransition(s, d)
  BY <1>2, <1>3, <1>a DEF PreparationTransition, next
<1> QED
  BY <1>2, <1>3, <1>4, <1>5, <1>7, <1>8 DEF Proper, ChildTransition

\* recordActivationReconciliation of a canonical revert
LEMMA RevertedIsLegal ==
    ASSUME NEW s, Proper(s), s.condition = "reconcile_required"
    PROVE  LET d == Reverted(s)
           IN /\ Proper(d) /\ ChildTransition(s, d)
              /\ d.receipts = s.receipts /\ d.job = s.job /\ d.submission = s.submission
<1> DEFINE d == Reverted(s)
<1>1. s \in States
  BY DEF Proper
<1>2. s.phase \in PreparedPhases /\ s.submission # NoTx
  BY DEF Proper, Valid
<1>3. /\ d \in States
      /\ d.phase = s.phase /\ d.job = s.job
      /\ d.submission = s.submission /\ d.observed = "reverted" /\ d.receipts = s.receipts
      /\ d.cleanup = CleanupForPhase(s.phase) /\ d.validUntil = s.validUntil
      /\ d.condition \in Terminal
  <2>1. CASE s.phase = "PREPARED_CREATE"
    BY <1>1, <1>2, <2>1, PreparedTables DEF Reverted, States, Conditions, Terminal
  <2>2. CASE s.phase # "PREPARED_CREATE"
    BY <1>1, <1>2, <2>2, PreparedTables DEF Reverted, States, Conditions, Terminal
  <2> QED
    BY <2>1, <2>2
<1> HIDE DEF d
<1>4. Valid(d)
  BY <1>2, <1>3 DEF Proper, Valid, Terminal, Unresolved
<1>5. Dutiful(d) /\ InPreview(d)
  BY <1>3 DEF Proper, Dutiful, InPreview
<1>6. SubSeq(d.receipts, 1, Len(s.receipts)) = s.receipts
  BY <1>1, <1>3, FieldsOf
<1>7. Extends(s, d)
  BY <1>1, <1>3, <1>6, FieldsOf DEF Extends
<1>8. SamePhaseTransition(s, d)
  BY <1>2, <1>3 DEF SamePhaseTransition
<1> QED
  BY <1>3, <1>4, <1>5, <1>7, <1>8 DEF Proper, ChildTransition, d

\* reconcileActivationStep, for a receipt that assertReceiptMatches accepts.
LEMMA ConfirmedIsLegal ==
    ASSUME NEW s, Proper(s), s.condition = "reconcile_required",
           NEW r \in Fetched, r.num <= QuoteExpiresAt,
           s.phase = "PREPARED_FUND" => r.num <= s.validUntil,
           \A i \in 1 .. Len(s.receipts) : s.receipts[i].num <= r.num
    PROVE  LET d == Confirmed(s, r)
           IN /\ Proper(d) /\ ChildTransition(s, d)
              /\ Len(d.receipts) = Len(s.receipts) + 1
              /\ \A i \in 1 .. Len(s.receipts) : d.receipts[i] = s.receipts[i]
              /\ d.receipts[Len(s.receipts) + 1] =
                    [tx |-> s.submission, num |-> r.num, fork |-> r.fork]
              /\ d.job = IF s.job = NoTx THEN s.submission ELSE s.job
              /\ d.observed = "none"
<1> DEFINE d == Confirmed(s, r)
           phase == ConfirmedPhaseFor[s.phase]
           last == [tx |-> s.submission, num |-> r.num, fork |-> r.fork]
           n == Len(s.receipts)
<1>1. s \in States
  BY DEF Proper
<1>2. s.phase \in PreparedPhases /\ s.submission \in Tx
  BY ReceiptsOf
<1>3. last \in Receipts
  BY <1>2 DEF Receipts, Fetched
<1>4. s.receipts \in Seq(Receipts) /\ n \in Nat
  BY <1>1, FieldsOf
<1>5. /\ Append(s.receipts, last) \in Seq(Receipts)
      /\ Len(Append(s.receipts, last)) = n + 1
      /\ SubSeq(Append(s.receipts, last), 1, n) = s.receipts
      /\ \A i \in 1 .. n : Append(s.receipts, last)[i] = s.receipts[i]
      /\ Append(s.receipts, last)[n + 1] = last
  BY <1>3, <1>4
<1>6. phase \in Phases /\ phase \in ConfirmedPhases /\ phase # s.phase
      /\ CleanupForPhase(phase) \in {"none", "reject", "refund"}
  BY <1>2, PreparedTables, ConfirmedTables
<1>7. /\ d \in States
      /\ d.phase = phase /\ d.condition = "ready" /\ d.submission = NoTx /\ d.observed = "none"
      /\ d.cleanup = CleanupForPhase(phase) /\ d.receipts = Append(s.receipts, last)
      /\ d.job = (IF s.job = NoTx THEN s.submission ELSE s.job)
      /\ d.validUntil = s.validUntil
  <2> HIDE DEF phase, last
  <2>1. d = [s EXCEPT !.phase = phase, !.condition = "ready", !.submission = NoTx,
                 !.observed = "none", !.cleanup = CleanupForPhase(phase),
                 !.job = IF s.job = NoTx THEN s.submission ELSE s.job,
                 !.receipts = Append(s.receipts, last)]
    BY DEF Confirmed, phase, last
  <2> QED
    <3>1. CleanupForPhase(phase) \in {"none", "reject", "refund"} /\ phase \in Phases
          /\ "ready" \in Conditions /\ "none" \in Unresolved \cup {"none", "reverted"}
          /\ NoTx \in Tx \cup {NoTx}
      BY <1>6 DEF Conditions
    <3>2. (IF s.job = NoTx THEN s.submission ELSE s.job) \in Tx \cup {NoTx}
      BY <1>1, <1>2 DEF States
    <3> DEFINE all == Append(s.receipts, last)
               job == IF s.job = NoTx THEN s.submission ELSE s.job
               duty == CleanupForPhase(phase)
    <3>3. all \in Seq(Receipts) /\ job \in Tx \cup {NoTx}
          /\ duty \in {"none", "reject", "refund"} /\ s \in States
      BY <1>1, <1>5, <3>1, <3>2
    <3>4. d = [s EXCEPT !.phase = phase, !.condition = "ready", !.submission = NoTx,
                 !.observed = "none", !.cleanup = duty, !.job = job, !.receipts = all]
      BY <2>1
    <3> HIDE DEF all, job, duty, d
    <3>5. /\ d \in States
          /\ d.phase = phase /\ d.condition = "ready" /\ d.submission = NoTx
          /\ d.observed = "none" /\ d.cleanup = duty /\ d.receipts = all /\ d.job = job
          /\ d.validUntil = s.validUntil
      BY <3>1, <3>3, <3>4 DEF States
    <3> QED
      BY <3>5 DEF all, job, duty
<1>8. last.tx = s.submission /\ last.num = r.num
  OBVIOUS
<1>9. n = ExpectedReceipts[s.phase]
  BY DEF Proper, Valid
<1> HIDE DEF d, phase, last, n
<1>10. /\ Len(d.receipts) = n + 1
       /\ \A i \in 1 .. n : d.receipts[i] = s.receipts[i]
       /\ d.receipts[n + 1] = last
  BY <1>5, <1>7
<1>11. Valid(d)
  <2>1. Len(d.receipts) = ExpectedReceipts[d.phase]
    BY <1>2, <1>7, <1>9, <1>10, PreparedTables DEF phase
  <2>2. d.job = IF Len(d.receipts) = 0 THEN NoTx ELSE d.receipts[1].tx
    <3>1. CASE n = 0
      <4>1. s.job = NoTx
        BY <3>1 DEF Proper, Valid, n
      <4> QED
        BY <1>7, <1>8, <1>10, <3>1, <4>1
    <3>2. CASE n # 0
      <4>1. s.job = s.receipts[1].tx /\ s.receipts[1].tx \in Tx
        BY <1>1, <1>4, <3>2, FieldsOf DEF Proper, Valid, n
      <4> QED
        BY <1>4, <1>7, <1>10, <3>2, <4>1, ConstantsAssumption
    <3> QED
      BY <3>1, <3>2
  <2>3. \A i \in 1 .. n + 1 : /\ d.receipts[i].num <= QuoteExpiresAt
                              /\ d.receipts[i].tx \in Tx
    <3>1. \A i \in 1 .. n : s.receipts[i].num <= QuoteExpiresAt /\ s.receipts[i].tx \in Tx
      BY <1>1, FieldsOf DEF Proper, Valid, n
    <3> QED
      BY <1>2, <1>4, <1>8, <1>10, <3>1
  <2>4. \A i \in 1 .. n + 1 : \A k \in 1 .. i - 1 :
            d.receipts[k].tx # d.receipts[i].tx /\ d.receipts[k].num <= d.receipts[i].num
    <3>1. \A i \in 1 .. n : \A k \in 1 .. i - 1 :
            s.receipts[k].tx # s.receipts[i].tx /\ s.receipts[k].num <= s.receipts[i].num
      BY DEF Proper, Valid, n
    <3>2. \A k \in 1 .. n : s.receipts[k].tx # s.submission /\ s.receipts[k].num <= r.num
      BY DEF Proper, Valid, n
    <3>3. ASSUME NEW i \in 1 .. n, NEW k \in 1 .. i - 1
          PROVE  d.receipts[k].tx # d.receipts[i].tx /\ d.receipts[k].num <= d.receipts[i].num
      <4>1. k \in 1 .. n /\ i \in 1 .. n
        BY <1>4
      <4>2. d.receipts[k] = s.receipts[k] /\ d.receipts[i] = s.receipts[i]
        BY <1>10, <4>1
      <4> QED
        BY <3>1, <4>2
    <3>4. ASSUME NEW k \in 1 .. n
          PROVE  /\ d.receipts[k].tx # d.receipts[n + 1].tx
                 /\ d.receipts[k].num <= d.receipts[n + 1].num
      BY <1>4, <1>8, <1>10, <3>2, <3>4
    <3> QED
      BY <1>4, <3>3, <3>4
  <2>5. \A i \in 1 .. n + 1 : d.submission # d.receipts[i].tx
    BY <1>7, <2>3, ConstantsAssumption
  <2>6. d.validUntil # 0 => d.phase = "FUNDED_CONFIRMED"
    BY <1>2, <1>7, PreparedTables DEF Proper, Valid, phase, PreparedPhases
  <2>7. d.phase # "PREPARED_FUND"
    BY <1>6, <1>7 DEF ConfirmedPhases
  <2> QED
    BY <1>4, <1>7, <1>10, <2>1, <2>2, <2>3, <2>4, <2>5, <2>6, <2>7
       DEF Valid, Terminal, Unresolved
<1>12. Dutiful(d)
  BY <1>7 DEF Dutiful
<1>13. InPreview(d)
  <2> SUFFICES ASSUME Len(d.receipts) = 4 PROVE d.receipts[4].num <= d.validUntil
    BY DEF InPreview
  <2>0. n + 1 = 4
    BY <1>10
  <2>1. n = 3 /\ s.phase = "PREPARED_FUND"
    BY <1>2, <1>4, <1>9, <2>0, PreparedTables
  <2> QED
    BY <1>7, <1>8, <1>10, <2>1
<1>14. Extends(s, d)
  <2>1. s.job # NoTx => d.job = s.job
    BY <1>7
  <2> QED
    BY <1>4, <1>5, <1>7, <1>10, <2>1 DEF Extends, n
<1>15. ConfirmationTransition(s, d)
  <2>1. d.job # NoTx
    BY <1>2, <1>7, ConstantsAssumption
  <2> QED
    BY <1>2, <1>7, <1>10, <2>1 DEF ConfirmationTransition, phase, n
<1>16. Proper(d) /\ ChildTransition(s, d)
  BY <1>6, <1>7, <1>11, <1>12, <1>13, <1>14, <1>15 DEF Proper, ChildTransition
<1> QED
  BY <1>7, <1>10, <1>16 DEF d, n, last

\* What a confirmed generation adds to what is known of the chain is the receipt.
LEMMA ConfirmedIsRecorded ==
    ASSUME NEW s, Proper(s), s.condition = "reconcile_required",
           NEW r \in Fetched, NEW d, NEW found, NEW height \in Int,
           Recorded(s, found, height),
           Len(d.receipts) = Len(s.receipts) + 1,
           \A i \in 1 .. Len(s.receipts) : d.receipts[i] = s.receipts[i],
           d.receipts[Len(s.receipts) + 1] =
                    [tx |-> s.submission, num |-> r.num, fork |-> r.fork],
           d.job = IF s.job = NoTx THEN s.submission ELSE s.job,
           d.observed = "none",
           found[s.submission].status = "success",
           found[s.submission].op = ExpectedOperations[Len(s.receipts) + 1],
           found[s.submission].job = d.job,
           found[s.submission].num = r.num, found[s.submission].fork = r.fork,
           r.num <= height - ConfirmationDepth
    PROVE  Recorded(d, found, height)
<1>1. s \in States
  BY DEF Proper
<1>2. \A i \in 1 .. Len(s.receipts) : found[s.receipts[i].tx].job = d.job
  <2> SUFFICES ASSUME NEW i \in 1 .. Len(s.receipts) PROVE s.job = d.job
    BY DEF Recorded
  <2>1. Len(s.receipts) # 0 /\ 1 \in 1 .. Len(s.receipts)
    BY <1>1, FieldsOf
  <2>2. s.job = s.receipts[1].tx /\ s.receipts[1].tx \in Tx
    BY <1>1, <2>1, FieldsOf DEF Proper, Valid
  <2> QED
    BY <2>2, ConstantsAssumption
<1>3. Len(s.receipts) \in Nat
  BY <1>1, FieldsOf
<1>4. ASSUME NEW i \in 1 .. Len(s.receipts)
      PROVE  LET x == d.receipts[i]
             IN /\ found[x.tx].status = "success"
                /\ found[x.tx].op = ExpectedOperations[i] /\ found[x.tx].job = d.job
                /\ found[x.tx].num = x.num /\ found[x.tx].fork = x.fork
                /\ x.num <= height - ConfirmationDepth
  BY <1>2, <1>4 DEF Recorded
<1>5. LET x == d.receipts[Len(s.receipts) + 1]
      IN /\ x.tx = s.submission /\ x.num = r.num /\ x.fork = r.fork
  OBVIOUS
<1> QED
  BY <1>3, <1>4, <1>5 DEF Recorded
-----------------------------------------------------------------------------
(* The chain *)

Record == [op : Operations \cup {"none"}, job : Tx \cup {NoTx}, status : TxStatus,
           num : 0 .. MaxHeight, fork : 0 .. MaxForks]

\* The types of the chain.
ChainTypes ==
    /\ chain \in Seq(0 .. MaxForks) /\ Height \in 1 .. MaxHeight
    /\ fork \in 0 .. MaxForks
    /\ txs \in [Tx -> Record]

Network == (\E t \in Tx : Broadcast(t)) \/ MineBlock \/ Reorganize

\* What a step of the network does: the chain never gets shorter, what was mined in its
\* final blocks stays, and a block that is replaced is of no earlier fork any more.
Grows ==
    /\ Height' >= Height /\ fork' >= fork
    /\ \A t \in Tx : \/ txs'[t].op = txs[t].op /\ txs'[t].job = txs[t].job
                     \/ /\ txs[t].op = "none" /\ txs'[t].num = 0
                        /\ journal # NoState /\ txs'[t].op \in Prepared
    /\ \A t \in Tx : txs[t].num \in 1 .. Height - ConfirmationDepth => txs'[t] = txs[t]
    /\ \A t \in Tx : txs'[t].num # txs[t].num => txs'[t].num \in {0, Height + 1}
    /\ \A n \in 1 .. Height : chain'[n] # chain[n] => chain'[n] > fork
    /\ \A t \in Tx : txs[t].num # 0 /\ txs'[t] # txs[t] =>
            chain'[txs[t].num] # chain[txs[t].num]

\* A transaction as it is broadcast, mined, or dropped by a fork.
AsSent(r, op, job) == [r EXCEPT !.op = op, !.status = "pending", !.job = job]

AsMined(r, status, num, f) == [r EXCEPT !.status = status, !.num = num, !.fork = f]

LEMMA SentRecord ==
    ASSUME NEW r \in Record, NEW op \in Operations, NEW job \in Tx \cup {NoTx}
    PROVE  /\ AsSent(r, op, job) \in Record
           /\ AsSent(r, op, job).op = op /\ AsSent(r, op, job).job = job
           /\ AsSent(r, op, job).status = "pending"
           /\ AsSent(r, op, job).num = r.num /\ AsSent(r, op, job).fork = r.fork
BY DEF Record, TxStatus, AsSent

LEMMA MinedRecord ==
    ASSUME NEW r \in Record, NEW status \in TxStatus, NEW num \in 0 .. MaxHeight,
           NEW f \in 0 .. MaxForks
    PROVE  /\ AsMined(r, status, num, f) \in Record
           /\ AsMined(r, status, num, f).op = r.op /\ AsMined(r, status, num, f).job = r.job
           /\ AsMined(r, status, num, f).status = status
           /\ AsMined(r, status, num, f).num = num /\ AsMined(r, status, num, f).fork = f
BY DEF Record, TxStatus, AsMined

\* The intents that were prepared are those of the receipts, and of the step after them.
LEMMA PreparedAreNext ==
    ASSUME Proper(journal), NEW op \in Prepared
    PROVE  \E k \in 1 .. 4 : op = ExpectedOperations[k] /\ k <= Len(journal.receipts) + 1
<1>1. /\ journal.phase \in PreparedPhases => Len(journal.receipts) \in 0 .. 3
      /\ Len(journal.receipts) \in 0 .. 4
  BY ReceiptsOf
<1> DEFINE extra == IF journal.phase \in PreparedPhases THEN 1 ELSE 0
<1>2. PICK i \in 1 .. Len(journal.receipts) + extra : op = ExpectedOperations[i]
  BY DEF Prepared
<1>3. CASE journal.phase \in PreparedPhases
  <2>1. extra = 1 /\ Len(journal.receipts) \in 0 .. 3
    BY <1>1, <1>3
  <2>2. i \in 1 .. Len(journal.receipts) + 1
    BY <2>1
  <2>3. \A n \in 0 .. 3 : \A k \in 1 .. n + 1 : k \in 1 .. 4 /\ k <= n + 1
    OBVIOUS
  <2>4. i \in 1 .. 4 /\ i <= Len(journal.receipts) + 1
    BY <2>1, <2>2, <2>3
  <2> QED
    BY <1>2, <2>4
<1>4. CASE journal.phase \notin PreparedPhases
  <2>1. extra = 0
    BY <1>4
  <2>2. Len(journal.receipts) \in 0 .. 4 /\ Len(journal.receipts) + 0 = Len(journal.receipts)
    BY <1>1
  <2>3. i \in 1 .. Len(journal.receipts)
    BY <2>1, <2>2
  <2>4. \A n \in 0 .. 4 : \A k \in 1 .. n : k \in 1 .. 4 /\ k <= n + 1
    OBVIOUS
  <2>5. i \in 1 .. 4 /\ i <= Len(journal.receipts) + 1
    BY <2>2, <2>3, <2>4
  <2> QED
    BY <1>2, <2>5
<1> QED
  BY <1>3, <1>4

\* A transaction is broadcast that the chain did not know.
LEMMA BroadcastGrows ==
    ASSUME ChainTypes, ChainIsKept, journal # NoState => Proper(journal),
           NEW t \in Tx, Broadcast(t)
    PROVE  ChainTypes' /\ ChainIsKept' /\ Grows
<1> USE ConstantsAssumption DEF Height
<1>1. journal # NoState /\ Proper(journal) /\ chain' = chain /\ fork' = fork
  BY DEF Broadcast
<1>2. txs[t] \in Record /\ txs[t].op = "none" /\ txs[t].status = "unsent" /\ txs[t].num = 0
  BY DEF Broadcast, ChainIsKept, ChainTypes
<1>3. PICK op \in Prepared :
        txs' = [txs EXCEPT ![t].op = op, ![t].status = "pending",
                           ![t].job = IF op = "create_job" THEN t ELSE journal.job]
  BY DEF Broadcast
<1>4. op \in Operations /\ op # "none"
  BY <1>1, PreparedAreNext, OperationsDiffer
<1> DEFINE job == IF op = "create_job" THEN t ELSE journal.job
           new == AsSent(txs[t], op, job)
<1>5. txs' = [txs EXCEPT ![t] = new]
  BY <1>3 DEF ChainTypes, AsSent
<1>6. job \in Tx \cup {NoTx} /\ (op = "create_job" => job = t)
  BY <1>1, FieldsOf DEF Proper
<1> HIDE DEF job
<1>7. /\ new \in Record
      /\ new.op = op /\ new.status = "pending" /\ new.num = 0 /\ new.job = job
  BY <1>2, <1>4, <1>6, SentRecord
<1> HIDE DEF new
<1>8. txs' \in [Tx -> Record] /\ txs'[t] = new /\ \A u \in Tx \ {t} : txs'[u] = txs[u]
  BY <1>5, <1>7 DEF ChainTypes
<1>9. ChainTypes'
  BY <1>1, <1>8 DEF ChainTypes
<1>10. ChainIsKept'
  <2>1. ASSUME NEW u \in Tx \ {t}
        PROVE  /\ txs'[u].op = "none" <=> txs'[u].status = "unsent"
               /\ txs'[u].op = "create_job" => txs'[u].job = u
               /\ txs'[u].status \in {"success", "reverted"} =>
                    txs'[u].num \in 1 .. Height /\ chain[txs'[u].num] = txs'[u].fork
               /\ txs'[u].status \in {"unsent", "pending"} => txs'[u].num = 0
    BY <1>8 DEF ChainIsKept
  <2>2. /\ txs'[t].op = "none" <=> txs'[t].status = "unsent"
        /\ txs'[t].op = "create_job" => txs'[t].job = t
        /\ txs'[t].status = "pending" /\ txs'[t].num = 0
    BY <1>4, <1>6, <1>7, <1>8
  <2> QED
    BY <1>1, <2>1, <2>2 DEF ChainIsKept
<1>11. Grows
  <2>1. \A u \in Tx \ {t} : txs'[u] = txs[u]
    BY <1>8
  <2>2. txs'[t].num = 0 /\ txs[t].num = 0 /\ txs[t].op = "none" /\ txs'[t].op \in Prepared
    BY <1>2, <1>7, <1>8
  <2>3. Height \in Nat /\ fork \in Nat
    BY DEF ChainTypes
  <2>4. Height' = Height /\ fork' = fork
    BY <1>1
  <2> QED
    BY <1>1, <2>1, <2>2, <2>3, <2>4 DEF Grows
<1> QED
  BY <1>9, <1>10, <1>11

\* A block is mined on the current fork, with one transaction of the pool or none.
LEMMA MineGrows ==
    ASSUME ChainTypes, ChainIsKept, MineBlock
    PROVE  ChainTypes' /\ ChainIsKept' /\ Grows
<1> USE ConstantsAssumption DEF Height
<1>1. /\ chain \in Seq(0 .. MaxForks) /\ Height \in 1 .. MaxHeight /\ Height < MaxHeight
      /\ fork \in 0 .. MaxForks /\ fork' = fork /\ txs \in [Tx -> Record]
      /\ chain' = Append(chain, fork)
  BY DEF MineBlock, ChainTypes
<1>2. /\ chain' \in Seq(0 .. MaxForks) /\ Height' = Height + 1
      /\ \A n \in 1 .. Height : chain'[n] = chain[n]
      /\ chain'[Height + 1] = fork
  <2>1. chain' \in Seq(0 .. MaxForks) /\ Len(chain') = Len(chain) + 1
    BY <1>1
  <2>2. \A n \in 1 .. Len(chain) : chain'[n] = chain[n]
    BY <1>1
  <2>3. chain'[Len(chain) + 1] = fork
    BY <1>1
  <2> QED
    BY <2>1, <2>2, <2>3 DEF Height
<1>3. \A t \in Tx : txs[t].num \in 0 .. Height
  BY <1>1 DEF ChainIsKept, Record, TxStatus
<1>4. \A n \in 1 .. Height' : chain'[n] <= fork'
  BY <1>1, <1>2 DEF ChainIsKept
<1>5. CASE txs' = txs
  <2>1. ChainTypes'
    BY <1>1, <1>2, <1>5 DEF ChainTypes
  <2>2. ChainIsKept'
    BY <1>1, <1>2, <1>4, <1>5 DEF ChainIsKept
  <2>3. Grows
    BY <1>1, <1>2, <1>5 DEF Grows
  <2> QED
    BY <2>1, <2>2, <2>3
<1>6. ASSUME NEW t \in Tx, txs[t].status = "pending", NEW status \in {"success", "reverted"},
             txs' = [txs EXCEPT ![t].status = status, ![t].num = Height + 1, ![t].fork = fork]
      PROVE  ChainTypes' /\ ChainIsKept' /\ Grows
  <2> DEFINE new == AsMined(txs[t], status, Height + 1, fork)
  <2>1. txs[t] \in Record /\ txs[t].num = 0 /\ txs[t].op # "none"
    BY <1>1, <1>6 DEF ChainIsKept
  <2>2. txs' = [txs EXCEPT ![t] = new]
    BY <1>1, <1>6 DEF AsMined
  <2>3. status \in TxStatus /\ Height + 1 \in 0 .. MaxHeight /\ fork \in 0 .. MaxForks
    BY <1>1 DEF TxStatus
  <2>4. /\ new \in Record
        /\ new.op = txs[t].op /\ new.job = txs[t].job /\ new.status = status
        /\ new.num = Height + 1 /\ new.fork = fork
    BY <2>1, <2>3, MinedRecord
  <2> HIDE DEF new
  <2>5. txs' \in [Tx -> Record] /\ txs'[t] = new /\ \A u \in Tx \ {t} : txs'[u] = txs[u]
    BY <1>1, <2>2, <2>4
  <2>6. ChainTypes'
    BY <1>1, <1>2, <2>5 DEF ChainTypes
  <2>7. ChainIsKept'
    <3>1. ASSUME NEW u \in Tx \ {t}
          PROVE  /\ txs'[u].op = "none" <=> txs'[u].status = "unsent"
                 /\ txs'[u].op = "create_job" => txs'[u].job = u
                 /\ txs'[u].status \in {"success", "reverted"} =>
                      txs'[u].num \in 1 .. Height' /\ chain'[txs'[u].num] = txs'[u].fork
                 /\ txs'[u].status \in {"unsent", "pending"} => txs'[u].num = 0
      BY <1>1, <1>2, <2>5 DEF ChainIsKept
    <3>2. /\ new.op = "none" <=> new.status = "unsent"
          /\ new.op = "create_job" => new.job = t
          /\ new.status \in {"success", "reverted"} =>
               new.num \in 1 .. Height' /\ chain'[new.num] = new.fork
          /\ new.status \in {"unsent", "pending"} => new.num = 0
      BY <1>1, <1>2, <2>1, <2>4 DEF ChainIsKept
    <3> QED
      BY <1>1, <1>2, <1>4, <2>5, <3>1, <3>2 DEF ChainIsKept
  <2>8. Grows
    <3>1. \A u \in Tx \ {t} : txs'[u] = txs[u]
      BY <2>5
    <3>2. /\ txs'[t].op = txs[t].op /\ txs'[t].job = txs[t].job
          /\ txs'[t].num = Height + 1 /\ txs[t].num = 0
      BY <2>1, <2>4, <2>5
    <3> QED
      BY SMTT(30), <1>1, <1>2, <3>1, <3>2 DEF Grows
  <2> QED
    BY <2>6, <2>7, <2>8
<1> QED
  BY <1>5, <1>6 DEF MineBlock

\* A fork replaces blocks that are not final, under a name that was never used.
LEMMA ReorganizeGrows ==
    ASSUME ChainTypes, ChainIsKept, Reorganize
    PROVE  ChainTypes' /\ ChainIsKept' /\ Grows
<1> USE ConstantsAssumption DEF Height
<1>1. /\ chain \in Seq(0 .. MaxForks) /\ Height \in 1 .. MaxHeight
      /\ fork \in 0 .. MaxForks /\ txs \in [Tx -> Record]
  BY DEF ChainTypes
<1>2. fork' = fork + 1 /\ fork' \in 0 .. MaxForks
  <2>1. fork < MaxForks /\ fork' = fork + 1
    BY DEF Reorganize
  <2> QED
    BY <1>1, <2>1
<1>3. PICK depth \in 1 .. ConfirmationDepth :
        /\ chain' = [n \in 1 .. Height |-> IF n > Height - depth THEN fork' ELSE chain[n]]
        /\ txs' = [t \in Tx |->
                        IF txs[t].num > Height - depth
                        THEN [txs[t] EXCEPT !.status = "pending", !.num = 0, !.fork = 0]
                        ELSE txs[t]]
  BY DEF Reorganize
<1>4. Height - depth \in 1 .. Height /\ depth \in 1 .. ConfirmationDepth
  BY <1>1 DEF ChainIsKept
<1>5. /\ chain' \in Seq(0 .. MaxForks) /\ Height' = Height
      /\ \A n \in 1 .. Height : chain'[n] = IF n > Height - depth THEN fork' ELSE chain[n]
  <2>1. \A n \in 1 .. Height : chain[n] \in 0 .. MaxForks
    BY <1>1 DEF Height
  <2>2. chain' \in [1 .. Height -> 0 .. MaxForks]
    BY <1>2, <1>3, <2>1
  <2>3. Height \in Nat /\ DOMAIN chain' = 1 .. Height
    BY <1>1, <2>2
  <2>4. chain' \in Seq(0 .. MaxForks)
    BY <2>2, <2>3, SeqDef
  <2>5. Len(chain') = Height
    BY <2>3, <2>4, LenProperties
  <2> QED
    BY <1>3, <2>4, <2>5 DEF Height
<1>6. ASSUME NEW t \in Tx
      PROVE  /\ txs'[t] \in Record
             /\ txs'[t].op = txs[t].op /\ txs'[t].job = txs[t].job
             /\ txs[t].num > Height - depth => txs'[t].status = "pending" /\ txs'[t].num = 0
             /\ ~(txs[t].num > Height - depth) => txs'[t] = txs[t]
  <2> DEFINE dropped == AsMined(txs[t], "pending", 0, 0)
  <2>1. txs[t] \in Record
    BY <1>1
  <2>2. "pending" \in TxStatus /\ 0 \in 0 .. MaxHeight /\ 0 \in 0 .. MaxForks
    BY DEF TxStatus
  <2>3. /\ dropped \in Record /\ dropped.op = txs[t].op /\ dropped.job = txs[t].job
        /\ dropped.status = "pending" /\ dropped.num = 0
    BY <2>1, <2>2, MinedRecord
  <2>4. txs'[t] = IF txs[t].num > Height - depth THEN dropped ELSE txs[t]
    BY <1>3 DEF AsMined
  <2> HIDE DEF dropped
  <2> QED
    BY <2>1, <2>3, <2>4
<1>7. txs' \in [Tx -> Record]
  <2>1. txs' = [t \in Tx |-> txs'[t]]
    BY <1>3
  <2> QED
    BY <1>6, <2>1
<1>8. ChainTypes'
  BY <1>1, <1>2, <1>5, <1>7 DEF ChainTypes
<1>9. \A t \in Tx : txs[t].num \in 0 .. Height /\ (txs[t].num # 0 => txs[t].op # "none")
  BY <1>1 DEF ChainIsKept, Record, TxStatus
<1>10. ChainIsKept'
  <2>1. \A n \in 1 .. Height' : chain'[n] <= fork'
    BY SMTT(30), <1>1, <1>2, <1>5 DEF ChainIsKept
  <2>2. ASSUME NEW t \in Tx
        PROVE  /\ txs'[t].op = "none" <=> txs'[t].status = "unsent"
               /\ txs'[t].op = "create_job" => txs'[t].job = t
               /\ txs'[t].status \in {"success", "reverted"} =>
                    txs'[t].num \in 1 .. Height' /\ chain'[txs'[t].num] = txs'[t].fork
               /\ txs'[t].status \in {"unsent", "pending"} => txs'[t].num = 0
    <3>1. CASE txs[t].num > Height - depth
      <4>1. txs[t].op # "none"
        BY <1>1, <1>4, <1>9, <3>1
      <4> QED
        BY <1>6, <3>1, <4>1 DEF ChainIsKept
    <3>2. CASE ~(txs[t].num > Height - depth)
      <4>1. txs'[t] = txs[t] /\ txs[t].num \in 0 .. Height /\ txs[t].num <= Height - depth
        BY <1>1, <1>4, <1>6, <1>9, <3>2
      <4>2. txs[t].num \in 1 .. Height => chain'[txs[t].num] = chain[txs[t].num]
        BY SMTT(30), <1>1, <1>4, <1>5, <4>1
      <4> QED
        BY <1>5, <4>1, <4>2 DEF ChainIsKept
    <3> QED
      BY <3>1, <3>2
  <2> QED
    BY <1>5, <2>1, <2>2 DEF ChainIsKept
<1>11. Grows
  <2>1. \A t \in Tx : txs[t].num \in 1 .. Height - ConfirmationDepth => txs'[t] = txs[t]
    BY <1>1, <1>4, <1>6
  <2>2. \A n \in 1 .. Height : chain'[n] # chain[n] => chain'[n] > fork
    BY <1>1, <1>2, <1>5
  <2>3. ASSUME NEW t \in Tx, txs[t].num # 0, txs'[t] # txs[t]
        PROVE  chain'[txs[t].num] # chain[txs[t].num]
    <3>1. txs[t].num > Height - depth /\ txs[t].num \in 1 .. Height
      BY <1>1, <1>6, <1>9, <2>3
    <3>2. chain'[txs[t].num] = fork + 1 /\ chain[txs[t].num] <= fork
      BY <1>2, <1>5, <3>1 DEF ChainIsKept
    <3>3. chain[txs[t].num] \in 0 .. MaxForks
      BY <1>1, <3>1 DEF Height
    <3> QED
      BY <1>1, <3>2, <3>3
  <2>4. \A t \in Tx : txs'[t].num # txs[t].num => txs'[t].num \in {0, Height + 1}
    BY <1>6
  <2> QED
    BY <1>1, <1>2, <1>5, <1>6, <2>1, <2>2, <2>3, <2>4 DEF Grows
<1> QED
  BY <1>8, <1>10, <1>11

-----------------------------------------------------------------------------
(* The network *)

\* What is recorded is final.
LEMMA RecordedStays ==
    ASSUME ChainTypes, ChainIsKept, Grows, NEW s, Sound(s)
    PROVE  Sound(s)'
<1>1. Proper(s) /\ s \in States /\ Recorded(s, txs, Height)
  BY DEF Sound, Proper
<1>2. \A t \in Tx : txs[t].status \in {"success", "reverted"}
                        /\ txs[t].num <= Height - ConfirmationDepth => txs'[t] = txs[t]
  <2> SUFFICES ASSUME NEW t \in Tx, txs[t].status \in {"success", "reverted"},
                      txs[t].num <= Height - ConfirmationDepth
               PROVE  txs'[t] = txs[t]
    OBVIOUS
  <2>1. txs[t].num \in 1 .. Height
    BY DEF ChainIsKept
  <2>2. txs[t].num \in 1 .. Height - ConfirmationDepth
    BY <2>1, ConstantsAssumption DEF ChainTypes
  <2> QED
    BY <2>2 DEF Grows
<1>3. Height \in Nat /\ Height' \in Nat /\ Height' >= Height /\ ConfirmationDepth \in Nat
  BY ConstantsAssumption, LenProperties DEF Grows, ChainTypes, Height
<1>4. ASSUME NEW i \in 1 .. Len(s.receipts)
      PROVE  /\ txs'[s.receipts[i].tx].status = "success"
             /\ txs'[s.receipts[i].tx].op = ExpectedOperations[i]
             /\ txs'[s.receipts[i].tx].job = s.job
             /\ txs'[s.receipts[i].tx].num = s.receipts[i].num
             /\ txs'[s.receipts[i].tx].fork = s.receipts[i].fork
             /\ s.receipts[i].num <= Height' - ConfirmationDepth
  <2>1. s.receipts[i].tx \in Tx /\ s.receipts[i].num \in 1 .. MaxHeight
    BY <1>1, FieldsOf
  <2>2. /\ txs[s.receipts[i].tx].status = "success"
        /\ txs[s.receipts[i].tx].op = ExpectedOperations[i]
        /\ txs[s.receipts[i].tx].job = s.job
        /\ txs[s.receipts[i].tx].num = s.receipts[i].num
        /\ txs[s.receipts[i].tx].fork = s.receipts[i].fork
        /\ s.receipts[i].num <= Height - ConfirmationDepth
    BY <1>1 DEF Recorded
  <2>3. txs'[s.receipts[i].tx] = txs[s.receipts[i].tx]
    BY <1>2, <2>1, <2>2
  <2> QED
    BY <1>3, <2>1, <2>2, <2>3
<1>5. ASSUME s.observed = "reverted"
      PROVE  /\ txs'[s.submission].status = "reverted"
             /\ txs'[s.submission].num <= Height' - ConfirmationDepth
  <2>1. s.submission \in Tx
    BY <1>1, <1>5, FieldsOf DEF Proper, Valid
  <2>2. txs[s.submission].status = "reverted" /\ txs[s.submission].num <= Height - ConfirmationDepth
    BY <1>1, <1>5 DEF Recorded
  <2>3. txs[s.submission].num \in 1 .. Height
    BY <2>1, <2>2 DEF ChainIsKept
  <2>4. txs'[s.submission] = txs[s.submission]
    BY <1>2, <2>1, <2>2
  <2> QED
    BY <1>3, <2>2, <2>3, <2>4
<1>6. Recorded(s, txs', Height')
  BY <1>4, <1>5 DEF Recorded
<1> QED
  BY <1>1, <1>6 DEF Sound

\* A fetched receipt stays its transaction's, or is not canonical any more.
LEMMA FetchedStays ==
    ASSUME ChainTypes, ChainTypes', ChainIsKept, Grows, NEW c \in Cmd,
           UNCHANGED commands, CommandIsSound(c)
    PROVE  FetchedIsTrue(c)'
<1> SUFFICES ASSUME pc[c] = "check"
             PROVE  /\ receipt[c] \in Fetched
                    /\ MatchesIntent(read[c].submission, read[c])'
                    /\ receipt[c].num <= Height' /\ receipt[c].fork <= fork'
                    /\ chain'[receipt[c].num] = receipt[c].fork =>
                        LET t == txs'[read[c].submission]
                        IN /\ t.num = receipt[c].num /\ t.fork = receipt[c].fork
                           /\ t.status = receipt[c].status
  BY DEF FetchedIsTrue, commands, Canonical
<1> DEFINE s == read[c]
           r == receipt[c]
           t == read[c].submission
<1>1. /\ Proper(s) /\ s \in States /\ s.condition = "reconcile_required"
      /\ r \in Fetched /\ MatchesIntent(t, s) /\ r.num <= Height /\ r.fork <= fork
      /\ chain[r.num] = r.fork =>
            txs[t].num = r.num /\ txs[t].fork = r.fork /\ txs[t].status = r.status
  BY DEF CommandIsSound, Legal, FetchedIsTrue, Working, Sound, Proper, Canonical
<1>2. t \in Tx /\ s.phase \in PreparedPhases
  BY <1>1, ReceiptsOf
<1>3. r.num \in 1 .. MaxHeight /\ r.fork \in 0 .. MaxForks
  BY <1>1 DEF Fetched
<1>4. /\ Height \in Nat /\ Height' \in Nat /\ Height' >= Height
      /\ fork \in Nat /\ fork' \in Nat /\ fork' >= fork
  BY LenProperties, ConstantsAssumption DEF Grows, ChainTypes, Height
<1>5. Operation[s.phase] \in Operations /\ "none" \notin Operations
  BY <1>2, PreparedTables DEF Operations
<1>6. txs'[t].op = txs[t].op /\ txs'[t].job = txs[t].job
  <2>1. txs[t].op # "none"
    BY <1>1, <1>5 DEF MatchesIntent
  <2> QED
    BY <1>2, <2>1 DEF Grows
<1>7. MatchesIntent(t, s)'
  BY <1>1, <1>6 DEF MatchesIntent, commands
<1>8. ASSUME chain'[r.num] = r.fork
      PROVE  txs'[t] = txs[t] /\ chain[r.num] = r.fork
  <2>1. r.num \in 1 .. Height
    BY <1>1, <1>3, <1>4
  <2>2. chain[r.num] = r.fork
    BY <1>1, <1>3, <1>4, <1>8, <2>1 DEF Grows
  <2>3. txs[t].num # 0 /\ txs[t].num = r.num
    BY <1>1, <1>3, <2>2
  <2> QED
    BY <1>2, <1>8, <2>2, <2>3 DEF Grows
<1> HIDE DEF s, r, t
<1>9. r.num <= Height' /\ r.fork <= fork'
  BY <1>1, <1>3, <1>4
<1> QED
  BY <1>1, <1>7, <1>8, <1>9 DEF s, r, t

\* A new transaction is one of an intent that was prepared, and lies above the receipts.
LEMMA IntentsStay ==
    ASSUME ChainTypes, ChainIsKept, JournalIsSound, IntentsFollowReceipts, Grows,
           UNCHANGED journal
    PROVE  IntentsFollowReceipts'
<1> SUFFICES ASSUME NEW t \in Tx, NEW k \in 1 .. 4, txs'[t].op = ExpectedOperations[k]
             PROVE  /\ journal # NoState /\ k <= Len(journal.receipts) + 1
                    /\ \A i \in 1 .. Len(journal.receipts) :
                         i < k => txs'[t].num = 0 \/ journal.receipts[i].num <= txs'[t].num
  BY DEF IntentsFollowReceipts
<1>1. CASE txs'[t].op = txs[t].op
  <2>1. /\ journal # NoState /\ k <= Len(journal.receipts) + 1
        /\ \A i \in 1 .. Len(journal.receipts) :
              i < k => txs[t].num = 0 \/ journal.receipts[i].num <= txs[t].num
    BY <1>1 DEF IntentsFollowReceipts
  <2>2. CASE txs'[t].num = txs[t].num
    BY <2>1, <2>2
  <2>3. CASE txs'[t].num # txs[t].num
    <3>1. txs'[t].num \in {0, Height + 1} /\ Height \in Nat
      BY <2>3 DEF Grows, ChainTypes
    <3>2. Sound(journal) /\ journal \in States
      BY <2>1 DEF JournalIsSound, Sound, Proper
    <3>3. ASSUME NEW i \in 1 .. Len(journal.receipts)
          PROVE  journal.receipts[i].num <= Height + 1
      <4>1. journal.receipts[i].num \in 1 .. MaxHeight
        BY <3>2, FieldsOf
      <4>2. journal.receipts[i].num <= Height - ConfirmationDepth
        BY <3>2 DEF Sound, Recorded
      <4> QED
        BY <3>1, <4>1, <4>2, ConstantsAssumption
    <3> QED
      BY <2>1, <3>1, <3>3
  <2> QED
    BY <2>2, <2>3
<1>2. CASE txs'[t].op # txs[t].op
  <2>1. txs'[t].num = 0 /\ journal # NoState /\ txs'[t].op \in Prepared
    BY <1>2 DEF Grows
  <2>2. Proper(journal)
    BY <2>1 DEF JournalIsSound, Sound
  <2>3. PICK l \in 1 .. 4 : txs'[t].op = ExpectedOperations[l] /\ l <= Len(journal.receipts) + 1
    BY <2>1, <2>2, PreparedAreNext
  <2>4. k = l
    BY <2>3, OperationsDiffer
  <2> QED
    BY <2>1, <2>3, <2>4
<1> QED
  BY <1>1, <1>2

\* The network disturbs no invariant.
LEMMA NetworkStep ==
    ASSUME IInv, Network
    PROVE  IInv'
<1>1. /\ TypeOK /\ ChainTypes /\ ChainIsKept /\ JournalIsSound /\ IntentsFollowReceipts
      /\ \A c \in Cmd : CommandIsSound(c)
  BY DEF IInv, CommandsAreSound, TypeOK, ChainTypes, Height, Record
<1>2. ChainTypes' /\ ChainIsKept' /\ Grows
  <2>1. journal # NoState => Proper(journal)
    BY <1>1 DEF JournalIsSound, Sound
  <2> QED
    BY <1>1, <2>1, BroadcastGrows, MineGrows, ReorganizeGrows DEF Network
<1>3. UNCHANGED <<journal, pc, read, fresh, draft, receipt, failures>>
  BY DEF Network, Broadcast, MineBlock, Reorganize, commands
<1>4. TypeOK'
  BY <1>1, <1>2, <1>3 DEF TypeOK, ChainTypes, Height, Record
<1>5. JournalIsSound'
  BY <1>1, <1>2, <1>3, RecordedStays DEF JournalIsSound, Sound
<1>6. ASSUME NEW c \in Cmd PROVE CommandIsSound(c)'
  <2>1. CommandIsSound(c)
    BY <1>1
  <2>2. \A s : Sound(s) => Sound(s)'
    BY <1>1, <1>2, RecordedStays
  <2>3. Legal(c)'
    BY <1>3, <2>1, <2>2 DEF CommandIsSound, Legal, Working
  <2>4. ReadIsPast(c)'
    BY <1>3, <2>1 DEF CommandIsSound, ReadIsPast, Working
  <2>5. FetchedIsTrue(c)'
    BY <1>1, <1>2, <1>3, <2>1, FetchedStays DEF commands
  <2> QED
    BY <2>3, <2>4, <2>5 DEF CommandIsSound
<1>7. IntentsFollowReceipts'
  BY <1>1, <1>2, <1>3, IntentsStay
<1> QED
  BY <1>2, <1>4, <1>5, <1>6, <1>7 DEF IInv, CommandsAreSound

-----------------------------------------------------------------------------
(* The commands *)

\* The type invariant, taken apart.
LEMMA Types ==
    ASSUME IInv
    PROVE  /\ ChainTypes /\ ChainIsKept /\ IntentsFollowReceipts
           /\ journal # NoState => Proper(journal) /\ Sound(journal)
           /\ journal \in States \cup {NoState}
           /\ pc \in [Cmd -> PC] /\ read \in [Cmd -> States \cup {NoState}]
           /\ draft \in [Cmd -> States \cup {NoState}]
           /\ receipt \in [Cmd -> Fetched \cup {NoFetched}]
           /\ fresh \subseteq Cmd /\ failures \in 0 .. MaxFailures
           /\ \A c \in Cmd : Legal(c) /\ ReadIsPast(c) /\ FetchedIsTrue(c)
BY DEF IInv, TypeOK, ChainTypes, Height, Record, JournalIsSound, Sound, CommandsAreSound,
       CommandIsSound

\* What a step of command c may change: its own progress and, if it stores a generation,
\* the head, of which the new one must be a child.
OfCommand(c) ==
    /\ UNCHANGED network
    /\ pc' = [pc EXCEPT ![c] = pc'[c]] /\ pc'[c] \in PC
    /\ read' = [read EXCEPT ![c] = read'[c]] /\ read'[c] \in States \cup {NoState}
    /\ draft' = [draft EXCEPT ![c] = draft'[c]] /\ draft'[c] \in States \cup {NoState}
    /\ receipt' = [receipt EXCEPT ![c] = receipt'[c]] /\ receipt'[c] \in Fetched \cup {NoFetched}
    /\ failures' \in 0 .. MaxFailures
    /\ fresh' \subseteq fresh \cup {c}
    /\ \/ journal' = journal
       \/ /\ fresh' \subseteq {c} /\ Sound(journal')
          /\ journal # NoState => Precedes(journal, journal')

LEMMA PrecedesTransitive ==
    ASSUME NEW s, NEW d, NEW e, Precedes(s, d), Precedes(d, e),
           Len(s.receipts) \in Nat, Len(d.receipts) \in Nat, Len(e.receipts) \in Nat
    PROVE  Precedes(s, e)
BY DEF Precedes

\* Such a step leaves the other commands as sound as they were.
LEMMA OthersStay ==
    ASSUME IInv, NEW c \in Cmd, OfCommand(c), NEW d \in Cmd, d # c
    PROVE  CommandIsSound(d)'
<1>1. Legal(d) /\ ReadIsPast(d) /\ FetchedIsTrue(d)
  BY Types
<1>2. /\ pc'[d] = pc[d] /\ read'[d] = read[d] /\ draft'[d] = draft[d]
      /\ receipt'[d] = receipt[d] /\ (d \in fresh' => d \in fresh)
      /\ chain' = chain /\ fork' = fork /\ txs' = txs
  BY Types DEF OfCommand, network
<1>3. Legal(d)'
  <2>1. \A s : Sound(s) => Sound(s)'
    BY <1>2 DEF Sound, Height
  <2>2. Working(d)' <=> Working(d)
    BY <1>2 DEF Working
  <2> QED
    BY <1>1, <1>2, <2>1, <2>2 DEF Legal
<1>4. ReadIsPast(d)'
  <2>1. CASE journal' = journal
    BY <1>1, <1>2, <2>1 DEF ReadIsPast, Working
  <2>2. CASE journal' # journal
    <3>1. d \notin fresh' /\ Sound(journal') /\ (journal # NoState => Precedes(journal, journal'))
      BY <2>2 DEF OfCommand
    <3>2. ASSUME Working(d)
          PROVE  journal' # NoState /\ Precedes(read[d], journal')
      <4>1. journal # NoState /\ Precedes(read[d], journal) /\ Sound(read[d])
        BY <1>1, <3>2 DEF Legal, ReadIsPast
      <4>2. journal \in States /\ journal' \in States /\ read[d] \in States
        BY <3>1, <4>1, Types DEF Sound, Proper
      <4>3. /\ Len(journal.receipts) \in Nat /\ Len(journal'.receipts) \in Nat
            /\ Len(read[d].receipts) \in Nat /\ journal' # NoState
        BY <4>2, FieldsOf
      <4> QED
        BY <3>1, <4>1, <4>3, PrecedesTransitive
    <3> QED
      BY <1>2, <3>1, <3>2 DEF ReadIsPast, Working
  <2> QED
    BY <2>1, <2>2
<1>5. FetchedIsTrue(d)'
  BY <1>1, <1>2 DEF FetchedIsTrue, MatchesIntent, Canonical, Height
<1> QED
  BY <1>3, <1>4, <1>5 DEF CommandIsSound

\* It disturbs no invariant, then, if the command itself is sound after it.
LEMMA CommandStays ==
    ASSUME IInv, NEW c \in Cmd, OfCommand(c), CommandIsSound(c)'
    PROVE  IInv'
<1>1. chain' = chain /\ fork' = fork /\ txs' = txs
  BY DEF OfCommand, network
<1>2. journal' = journal \/ (journal' \in States /\ Sound(journal'))
  BY DEF OfCommand, Sound, Proper
<1>3. TypeOK'
  <2>1. journal' \in States \cup {NoState}
    BY <1>2, Types
  <2>2. pc' \in [Cmd -> PC] /\ read' \in [Cmd -> States \cup {NoState}]
    BY Types DEF OfCommand
  <2>3. draft' \in [Cmd -> States \cup {NoState}] /\ receipt' \in [Cmd -> Fetched \cup {NoFetched}]
    BY Types DEF OfCommand
  <2>4. fresh' \subseteq Cmd /\ failures' \in 0 .. MaxFailures
    BY Types DEF OfCommand
  <2> QED
    BY <1>1, <2>1, <2>2, <2>3, <2>4 DEF IInv, TypeOK
<1>4. ChainIsKept'
  BY <1>1, Types DEF ChainIsKept, Height
<1>5. JournalIsSound'
  BY <1>1, <1>2, Types DEF JournalIsSound, Sound, Height
<1>6. IntentsFollowReceipts'
  <2> SUFFICES ASSUME NEW t \in Tx, NEW k \in 1 .. 4, txs[t].op = ExpectedOperations[k]
               PROVE  /\ journal' # NoState /\ k <= Len(journal'.receipts) + 1
                      /\ \A i \in 1 .. Len(journal'.receipts) :
                            i < k => txs[t].num = 0 \/ journal'.receipts[i].num <= txs[t].num
    BY <1>1 DEF IntentsFollowReceipts
  <2>1. /\ journal # NoState /\ k <= Len(journal.receipts) + 1
        /\ \A i \in 1 .. Len(journal.receipts) :
              i < k => txs[t].num = 0 \/ journal.receipts[i].num <= txs[t].num
    BY Types DEF IntentsFollowReceipts
  <2>2. CASE journal' = journal
    BY <2>1, <2>2
  <2>3. CASE journal' # journal
    <3>1. Precedes(journal, journal') /\ journal' \in States /\ journal \in States
      BY <1>2, <2>1, <2>3, Types DEF OfCommand
    <3>2. Len(journal.receipts) \in Nat /\ Len(journal'.receipts) \in Nat /\ journal' # NoState
      BY <3>1, FieldsOf
    <3>3. Len(journal.receipts) <= Len(journal'.receipts)
      BY <3>1 DEF Precedes
    <3>4. ASSUME NEW i \in 1 .. Len(journal'.receipts), i < k
          PROVE  txs[t].num = 0 \/ journal'.receipts[i].num <= txs[t].num
      <4>1. i \in 1 .. Len(journal.receipts)
        BY <2>1, <3>2, <3>4
      <4>2. journal'.receipts[i] = journal.receipts[i]
        BY <3>1, <4>1 DEF Precedes
      <4> QED
        BY <2>1, <3>4, <4>1, <4>2
    <3> QED
      BY <2>1, <3>2, <3>3, <3>4
  <2> QED
    BY <2>2, <2>3
<1>7. CommandsAreSound'
  BY OthersStay DEF CommandsAreSound
<1> QED
  BY <1>3, <1>4, <1>5, <1>6, <1>7 DEF IInv

\* A command that ends.
LEMMA EndIsSound ==
    ASSUME IInv, NEW c \in Cmd, Finish(c), c \notin fresh', fresh' \subseteq fresh,
           UNCHANGED network, failures' \in 0 .. MaxFailures,
           \/ journal' = journal
           \/ /\ fresh' = {} /\ Sound(journal')
              /\ journal # NoState => Precedes(journal, journal')
    PROVE  OfCommand(c) /\ CommandIsSound(c)'
<1>1. /\ pc'[c] = "idle" /\ read'[c] = NoState /\ draft'[c] = NoState
      /\ receipt'[c] = NoFetched
      /\ pc' = [pc EXCEPT ![c] = "idle"] /\ read' = [read EXCEPT ![c] = NoState]
      /\ draft' = [draft EXCEPT ![c] = NoState] /\ receipt' = [receipt EXCEPT ![c] = NoFetched]
  BY Types DEF Finish, Goto
<1>2. OfCommand(c)
  BY <1>1 DEF OfCommand, PC
<1>3. CommandIsSound(c)'
  BY <1>1 DEF CommandIsSound, Legal, ReadIsPast, FetchedIsTrue, Working
<1> QED
  BY <1>2, <1>3

\* A command that has read the head and derived its draft from it.
LEMMA DerivedIsSound ==
    ASSUME IInv, NEW c \in Cmd, journal # NoState, ReadHead(c),
           NEW d, draft' = [draft EXCEPT ![c] = d],
           NEW where \in {"persist", "persistSubmission"}, Goto(c, where),
           UNCHANGED <<journal, receipt, failures, network>>,
           Proper(d), d.receipts = journal.receipts, d.job = journal.job,
           d = journal \/ (d.observed # "reverted" /\ ChildTransition(journal, d)),
           where = "persistSubmission" => d.condition = "reconcile_required"
    PROVE  OfCommand(c) /\ CommandIsSound(c)'
<1>1. Sound(journal) /\ Proper(journal) /\ Recorded(journal, txs, Height) /\ journal \in States
  BY Types DEF Sound, Proper
<1>2. Sound(d) /\ d \in States
  <2>1. Recorded(d, txs, Height)
    BY <1>1, RecordedSame
  <2> QED
    BY <2>1 DEF Sound, Proper
<1>3. Sound(d)' /\ Sound(journal)'
  BY <1>1, <1>2 DEF Sound, Height, network
<1>4. /\ pc' = [pc EXCEPT ![c] = where] /\ read' = [read EXCEPT ![c] = journal]
      /\ pc'[c] = where /\ read'[c] = journal /\ draft'[c] = d /\ fresh' = fresh \cup {c}
      /\ journal' = journal /\ receipt' = receipt
  BY Types DEF ReadHead, Goto
<1>5. OfCommand(c)
  BY <1>1, <1>2, <1>4, Types DEF OfCommand, PC
<1>6. Legal(c)'
  BY <1>1, <1>3, <1>4 DEF Legal, Working
<1>7. ReadIsPast(c)'
  <2>1. Precedes(journal, journal)
    BY <1>1, FieldsOf DEF Precedes
  <2> QED
    BY <1>4, <2>1 DEF ReadIsPast, Working
<1>8. FetchedIsTrue(c)'
  BY <1>4 DEF FetchedIsTrue
<1> QED
  BY <1>5, <1>6, <1>7, <1>8 DEF CommandIsSound

\* A command that has observed the chain and derived its draft from that.
LEMMA DraftIsSound ==
    ASSUME IInv, NEW c \in Cmd, pc[c] \in {"fetch", "check"}, NEW d, Draft(c, d),
           UNCHANGED <<journal, receipt, failures, network>>,
           Sound(d), ChildTransition(read[c], d),
           Len(d.receipts) > Len(read[c].receipts) =>
                d.receipts[Len(d.receipts)].tx = read[c].submission
    PROVE  OfCommand(c) /\ CommandIsSound(c)'
<1>1. Legal(c) /\ ReadIsPast(c) /\ Working(c) /\ Sound(read[c])
  BY Types DEF Legal, Working
<1>2. /\ pc' = [pc EXCEPT ![c] = "persist"] /\ draft' = [draft EXCEPT ![c] = d]
      /\ pc'[c] = "persist" /\ draft'[c] = d
      /\ read' = read /\ fresh' = fresh /\ journal' = journal /\ receipt' = receipt
  BY Types DEF Draft, Goto
<1>3. d \in States
  BY DEF Sound, Proper
<1>4. Sound(d)' /\ Sound(read[c])'
  BY <1>1, <1>2 DEF Sound, Height, network
<1>5. OfCommand(c)
  BY <1>2, <1>3, Types DEF OfCommand, PC
<1>6. Legal(c)'
  BY <1>2, <1>4 DEF Legal, Working
<1>7. ReadIsPast(c)' /\ FetchedIsTrue(c)'
  BY <1>1, <1>2 DEF ReadIsPast, FetchedIsTrue, Working
<1> QED
  BY <1>5, <1>6, <1>7 DEF CommandIsSound

\* prepare-create, up to the bootstrap and with it.
LEMMA CreateStep ==
    ASSUME IInv, NEW c \in Cmd, PrepareCreate(c) \/ Bootstrap(c)
    PROVE  OfCommand(c) /\ CommandIsSound(c)'
<1>1. Legal(c) /\ ReadIsPast(c) /\ c \notin fresh
  BY Types DEF ReadIsPast, Working, PrepareCreate, Bootstrap
<1>2. Proper(FirstState) /\ Recorded(FirstState, txs, Height) /\ FirstState \in States
  BY FirstIsSound DEF Proper
<1>3. CASE PrepareCreate(c)
  <2>1. /\ pc' = [pc EXCEPT ![c] = "bootstrap"] /\ draft' = [draft EXCEPT ![c] = FirstState]
        /\ pc'[c] = "bootstrap" /\ draft'[c] = FirstState
        /\ UNCHANGED <<journal, read, fresh, receipt, failures, network>>
    BY <1>3, Types DEF PrepareCreate, Goto
  <2>2. OfCommand(c)
    BY <1>2, <2>1, Types DEF OfCommand, PC
  <2>3. CommandIsSound(c)'
    BY <1>1, <2>1 DEF CommandIsSound, Legal, ReadIsPast, FetchedIsTrue, Working
  <2> QED
    BY <2>2, <2>3
<1>4. CASE Bootstrap(c)
  <2>1. /\ draft[c] = FirstState /\ Finish(c) /\ fresh' = fresh
        /\ UNCHANGED <<failures, network>>
        /\ journal' = IF journal = NoState THEN FirstState ELSE journal
    BY <1>1, <1>4 DEF Bootstrap, Legal
  <2>2. CASE journal # NoState
    BY <1>1, <2>1, <2>2, Types, EndIsSound
  <2>3. CASE journal = NoState
    <3>1. fresh' = {}
      BY <2>1, <2>3, Types DEF ReadIsPast
    <3>2. Sound(journal')
      BY <1>2, <2>1, <2>3 DEF Sound
    <3> QED
      BY <1>1, <2>1, <2>3, <3>1, <3>2, Types, EndIsSound
  <2> QED
    BY <2>2, <2>3
<1> QED
  BY <1>3, <1>4

\* prepare-next, broadcast-unknown and reconcile, up to their first persist.
LEMMA DeriveStep ==
    ASSUME IInv, NEW c \in Cmd, PrepareNext(c) \/ BroadcastUnknown(c) \/ Reconcile(c)
    PROVE  OfCommand(c) /\ CommandIsSound(c)'
<1>1. NoState.condition = "none"
  BY DEF NoState, FirstState
<1>2. journal # NoState /\ Proper(journal) /\ ReadHead(c)
      /\ UNCHANGED <<journal, receipt, failures, network>>
  BY <1>1, Types DEF PrepareNext, BroadcastUnknown, Reconcile
<1>3. CASE PrepareNext(c)
  <2>1. PICK d : NextOf(journal, d) /\ draft' = [draft EXCEPT ![c] = d]
    BY <1>3 DEF PrepareNext, NextOf
  <2>2. /\ journal.condition = "ready" /\ journal.phase \in DOMAIN NextPreparedPhase
        /\ Goto(c, "persist")
    BY <1>3 DEF PrepareNext
  <2>3. /\ Proper(d) /\ ChildTransition(journal, d)
        /\ d.receipts = journal.receipts /\ d.job = journal.job /\ d.observed # "reverted"
    BY <1>2, <2>1, <2>2, PreparedIsLegal
  <2> QED
    BY <1>2, <2>1, <2>2, <2>3, DerivedIsSound
<1>4. CASE BroadcastUnknown(c)
  <2> DEFINE d == [journal EXCEPT !.condition = "broadcast_unknown", !.cleanup = "none"]
  <2>1. /\ journal.condition = "ready" /\ journal.phase \in PreparedPhases
        /\ draft' = [draft EXCEPT ![c] = d] /\ Goto(c, "persist")
    BY <1>4 DEF BroadcastUnknown
  <2>2. /\ Proper(d) /\ ChildTransition(journal, d)
        /\ d.receipts = journal.receipts /\ d.job = journal.job /\ d.observed # "reverted"
    BY <1>2, <2>1, UnknownIsLegal
  <2> HIDE DEF d
  <2> QED
    BY <1>2, <2>1, <2>2, DerivedIsSound
<1>5. CASE Reconcile(c)
  <2>1. PICK t \in Tx : /\ MayRecordSubmission(journal, t)
                        /\ draft' = [draft EXCEPT ![c] = RecordSubmission(journal, t)]
    BY <1>5 DEF Reconcile
  <2>2. Goto(c, "persistSubmission")
    BY <1>5 DEF Reconcile
  <2> DEFINE d == RecordSubmission(journal, t)
  <2>3. /\ Proper(d) /\ (d = journal \/ ChildTransition(journal, d))
        /\ d.condition = "reconcile_required"
        /\ d.receipts = journal.receipts /\ d.job = journal.job
        /\ d = journal \/ d.observed # "reverted"
    BY <1>2, <2>1, SubmissionIsLegal
  <2> HIDE DEF d
  <2> QED
    BY <1>2, <2>1, <2>2, <2>3, DerivedIsSound DEF d
<1> QED
  BY <1>3, <1>4, <1>5

\* A child that the store accepts comes after its parent.
LEMMA ChildComesAfter ==
    ASSUME NEW s, Proper(s), NEW d, Proper(d), d = s \/ ChildTransition(s, d)
    PROVE  Precedes(s, d)
<1>1. /\ s.receipts \in Seq(Receipts) /\ d.receipts \in Seq(Receipts)
      /\ Len(s.receipts) \in Nat /\ Len(d.receipts) \in Nat
  BY FieldsOf DEF Proper
<1>2. CASE d = s
  BY <1>1, <1>2 DEF Precedes
<1>3. CASE ChildTransition(s, d)
  <2>1. /\ Len(d.receipts) >= Len(s.receipts)
        /\ SubSeq(d.receipts, 1, Len(s.receipts)) = s.receipts
    BY <1>3 DEF ChildTransition, Extends
  <2>2. ASSUME NEW i \in 1 .. Len(s.receipts)
        PROVE  d.receipts[i] = s.receipts[i]
    <3>1. SubSeq(d.receipts, 1, Len(s.receipts))[i] = d.receipts[i]
      BY <1>1, <2>1
    <3> QED
      BY <2>1, <3>1
  <2> QED
    BY <1>1, <2>1, <2>2 DEF Precedes
<1> QED
  BY <1>2, <1>3

\* What is stored is a child of the head.
LEMMA StoredIsChild ==
    ASSUME IInv, NEW c \in Cmd, pc[c] \in {"persist", "persistSubmission"}, CanPersist(c)
    PROVE  /\ read[c] = journal /\ journal # NoState /\ Sound(journal)
           /\ Sound(draft[c]) /\ Precedes(journal, draft[c])
           /\ draft[c] = journal \/ ChildTransition(journal, draft[c])
<1>1. Legal(c) /\ ReadIsPast(c) /\ Working(c)
  BY Types DEF Working
<1>2. read[c] = journal /\ journal # NoState
  BY <1>1 DEF ReadIsPast, CanPersist
<1>3. /\ Sound(journal) /\ Sound(draft[c])
      /\ draft[c] = journal \/ ChildTransition(journal, draft[c])
  BY <1>1, <1>2 DEF Legal
<1>4. Precedes(journal, draft[c])
  BY <1>3, ChildComesAfter DEF Sound
<1> QED
  BY <1>2, <1>3, <1>4

\* The first persist of reconcile, and the last persist of every command.
LEMMA PersistStep ==
    ASSUME IInv, NEW c \in Cmd, PersistSubmission(c) \/ Persist(c)
    PROVE  OfCommand(c) /\ CommandIsSound(c)'
<1>1. /\ Legal(c) /\ ReadIsPast(c) /\ UNCHANGED <<failures, network>>
      /\ pc[c] \in {"persist", "persistSubmission"}
  BY Types DEF PersistSubmission, Persist
<1>2. CASE ~CanPersist(c)
  <2>1. Finish(c) /\ fresh' = fresh \ {c} /\ journal' = journal
    BY <1>2 DEF PersistSubmission, Persist
  <2> QED
    BY <1>1, <2>1, Types, EndIsSound
<1>3. CASE CanPersist(c) /\ Persist(c)
  <2>1. Finish(c) /\ fresh' = {} /\ journal' = draft[c]
    BY <1>3 DEF Persist
  <2>2. Sound(journal') /\ Precedes(journal, journal')
    BY <1>1, <1>3, <2>1, StoredIsChild
  <2> QED
    BY <1>1, <2>1, <2>2, Types, EndIsSound
<1>4. CASE CanPersist(c) /\ PersistSubmission(c)
  <2>1. /\ journal' = draft[c] /\ fresh' = IF draft[c] = read[c] THEN fresh ELSE {c}
        /\ read' = [read EXCEPT ![c] = draft[c]] /\ Goto(c, "fetch")
        /\ UNCHANGED <<draft, receipt>> /\ pc[c] = "persistSubmission"
    BY <1>4 DEF PersistSubmission
  <2>2. pc' = [pc EXCEPT ![c] = "fetch"] /\ pc'[c] = "fetch" /\ read'[c] = draft[c]
    BY <2>1, Types DEF Goto
  <2>3. /\ read[c] = journal /\ Sound(draft[c]) /\ Precedes(journal, draft[c])
        /\ draft[c] \in States
    BY <1>1, <1>4, StoredIsChild DEF Sound, Proper
  <2>4. fresh' \subseteq fresh \cup {c} /\ (journal' # journal => fresh' \subseteq {c})
    BY <2>1, <2>3
  <2>5. OfCommand(c)
    BY <1>1, <2>1, <2>2, <2>3, <2>4, Types DEF OfCommand, PC
  <2>6. Sound(draft[c])'
    BY <1>1, <2>1, <2>3 DEF Sound, Height, network
  <2>7. Legal(c)'
    BY <1>1, <2>1, <2>2, <2>6 DEF Legal, Working
  <2>8. ReadIsPast(c)'
    <3>1. draft[c] # NoState /\ Precedes(draft[c], draft[c])
      BY <2>3, FieldsOf DEF Precedes
    <3> QED
      BY <2>1, <2>2, <3>1 DEF ReadIsPast, Working
  <2>9. FetchedIsTrue(c)'
    BY <2>2 DEF FetchedIsTrue
  <2> QED
    BY <2>5, <2>7, <2>8, <2>9 DEF CommandIsSound
<1> QED
  BY <1>2, <1>3, <1>4

\* A command that throws.
LEMMA ThrowIsSound ==
    ASSUME IInv, NEW c \in Cmd, Throw(c), UNCHANGED <<journal, network>>,
           failures' \in 0 .. MaxFailures
    PROVE  OfCommand(c) /\ CommandIsSound(c)'
BY EndIsSound DEF Throw

LEMMA FailStep ==
    ASSUME IInv, NEW c \in Cmd, Fail(c)
    PROVE  OfCommand(c) /\ CommandIsSound(c)'
<1>1. failures' \in 0 .. MaxFailures
  BY Types, ConstantsAssumption DEF Fail
<1> QED
  BY <1>1, ThrowIsSound DEF Fail

\* An observation that settles nothing.
LEMMA ObservedStep ==
    ASSUME IInv, NEW c \in Cmd, pc[c] \in {"fetch", "check"}, NEW o \in Unresolved,
           Draft(c, Observed(read[c], o)), UNCHANGED <<journal, receipt, failures, network>>
    PROVE  OfCommand(c) /\ CommandIsSound(c)'
<1> DEFINE d == Observed(read[c], o)
<1>1. /\ Sound(read[c]) /\ Proper(read[c]) /\ Recorded(read[c], txs, Height)
      /\ read[c].condition = "reconcile_required" /\ read[c] \in States
  BY Types DEF Legal, Working, Sound, Proper
<1>2. /\ Proper(d) /\ ChildTransition(read[c], d)
      /\ d.receipts = read[c].receipts /\ d.job = read[c].job /\ d.observed # "reverted"
  BY <1>1, ObservedIsLegal
<1>3. Len(read[c].receipts) \in Nat
  BY <1>1, FieldsOf
<1> HIDE DEF d
<1>4. Sound(d)
  BY <1>1, <1>2, RecordedSame DEF Sound
<1>5. ~(Len(d.receipts) > Len(read[c].receipts))
  BY <1>2, <1>3
<1>6. Draft(c, d)
  BY DEF d
<1> QED
  BY <1>2, <1>4, <1>5, <1>6, DraftIsSound

\* The first requests of an observation.
LEMMA FetchStep ==
    ASSUME IInv, NEW c \in Cmd, FetchReceipt(c)
    PROVE  OfCommand(c) /\ CommandIsSound(c)'
<1> DEFINE t == read[c].submission
<1>1. /\ pc[c] = "fetch" /\ UNCHANGED <<journal, failures, network>>
      /\ Legal(c) /\ ReadIsPast(c) /\ Working(c)
      /\ Sound(read[c]) /\ Proper(read[c])
      /\ read[c].condition = "reconcile_required"
  BY Types DEF FetchReceipt, Legal, Working, Sound
<1>2. t \in Tx
  BY <1>1, ReceiptsOf
<1>3. {"not_found", "pending", "reorged", "unconfirmed"} \subseteq Unresolved
  BY DEF Unresolved
<1>4. CASE Draft(c, Observed(read[c], "not_found")) /\ UNCHANGED receipt
  BY <1>1, <1>3, <1>4, ObservedStep
<1>5. CASE Draft(c, Observed(read[c], "pending")) /\ UNCHANGED receipt
  BY <1>1, <1>3, <1>5, ObservedStep
<1>6. CASE Draft(c, Observed(read[c], "reorged")) /\ UNCHANGED receipt
  BY <1>1, <1>3, <1>6, ObservedStep
<1>7. CASE Throw(c)
  BY <1>1, <1>7, Types, ThrowIsSound
<1>8. CASE /\ txs[t].status \in {"success", "reverted"} /\ MatchesIntent(t, read[c])
           /\ receipt' = [receipt EXCEPT ![c] =
                   [num |-> txs[t].num, fork |-> txs[t].fork, status |-> txs[t].status]]
           /\ Goto(c, "check") /\ UNCHANGED <<read, fresh, draft>>
  <2> DEFINE r == [num |-> txs[t].num, fork |-> txs[t].fork, status |-> txs[t].status]
  <2>1. /\ txs[t] \in Record /\ txs[t].num \in 1 .. Height /\ chain[txs[t].num] = txs[t].fork
        /\ Height \in 1 .. MaxHeight /\ \A n \in 1 .. Height : chain[n] <= fork
    BY <1>2, <1>8, Types DEF ChainTypes, ChainIsKept
  <2>2. txs[t].num \in 1 .. MaxHeight /\ txs[t].fork \in 0 .. MaxForks /\ txs[t].fork <= fork
    BY <2>1 DEF Record
  <2>3. r.num = txs[t].num /\ r.fork = txs[t].fork /\ r.status = txs[t].status /\ r \in Fetched
    BY <1>8, <2>2 DEF Fetched
  <2> HIDE DEF r
  <2>4. receipt' = [receipt EXCEPT ![c] = r] /\ pc' = [pc EXCEPT ![c] = "check"]
        /\ receipt'[c] = r /\ pc'[c] = "check"
    BY <1>8, Types DEF r, Goto
  <2>5. OfCommand(c)
    BY <1>1, <1>8, <2>3, <2>4, Types DEF OfCommand, PC
  <2>6. Sound(read[c])' /\ MatchesIntent(t, read[c])' /\ r.num <= Height'
    BY <1>1, <1>8, <2>1, <2>3 DEF Sound, Height, network, MatchesIntent
  <2>7. Legal(c)'
    BY <1>1, <1>8, <2>4, <2>6 DEF Legal, Working
  <2>8. ReadIsPast(c)'
    BY <1>1, <1>8, <2>4 DEF ReadIsPast, Working
  <2>9. FetchedIsTrue(c)'
    BY <1>1, <1>8, <2>2, <2>3, <2>4, <2>6 DEF FetchedIsTrue, network
  <2> QED
    BY <2>5, <2>7, <2>8, <2>9 DEF CommandIsSound
<1> QED
  BY <1>4, <1>5, <1>6, <1>7, <1>8 DEF FetchReceipt

\* The later requests of an observation, and what is derived from it.
LEMMA CheckStep ==
    ASSUME IInv, NEW c \in Cmd, CheckReceipt(c)
    PROVE  OfCommand(c) /\ CommandIsSound(c)'
<1> DEFINE s == read[c]
           r == receipt[c]
           t == txs[s.submission]
<1>1. /\ pc[c] = "check" /\ UNCHANGED <<journal, failures, network>>
      /\ Legal(c) /\ ReadIsPast(c) /\ FetchedIsTrue(c) /\ Working(c)
      /\ Sound(s) /\ Proper(s) /\ Recorded(s, txs, Height) /\ s \in States
      /\ s.condition = "reconcile_required"
  BY Types DEF CheckReceipt, Legal, Working, Sound, Proper
<1>2. /\ s.submission \in Tx /\ s.phase \in PreparedPhases /\ Len(s.receipts) \in 0 .. 3
      /\ s.phase = "PREPARED_CREATE" <=> Len(s.receipts) = 0
  BY <1>1, ReceiptsOf
<1>3. /\ r \in Fetched /\ MatchesIntent(s.submission, s)
      /\ Canonical(r) => t.num = r.num /\ t.fork = r.fork /\ t.status = r.status
  BY <1>1 DEF FetchedIsTrue
<1>4. Height \in Nat /\ r.num \in 1 .. MaxHeight
  BY <1>3, Types DEF ChainTypes, Fetched
<1>5. Deep(r) => r.num <= Height - ConfirmationDepth
  BY <1>4, ConstantsAssumption DEF Deep
<1>6. {"not_found", "pending", "reorged", "unconfirmed"} \subseteq Unresolved
  BY DEF Unresolved
<1>7. CASE Draft(c, Observed(s, "reorged")) /\ UNCHANGED receipt
  BY <1>1, <1>6, <1>7, ObservedStep
<1>8. CASE Draft(c, Observed(s, "unconfirmed")) /\ UNCHANGED receipt
  BY <1>1, <1>6, <1>8, ObservedStep
<1>9. CASE Throw(c)
  BY <1>1, <1>9, Types, ThrowIsSound
<1>10. CASE /\ Canonical(r) /\ Deep(r) /\ r.status = "reverted"
            /\ Draft(c, Reverted(s)) /\ UNCHANGED receipt
  <2> DEFINE d == Reverted(s)
  <2>1. /\ Proper(d) /\ ChildTransition(s, d)
        /\ d.receipts = s.receipts /\ d.job = s.job /\ d.submission = s.submission
    BY <1>1, RevertedIsLegal
  <2> HIDE DEF d
  <2>2. Recorded(d, txs, Height)
    <3>1. txs[d.submission].status = "reverted"
          /\ txs[d.submission].num <= Height - ConfirmationDepth
      BY <1>3, <1>5, <1>10, <2>1
    <3>2. Recorded(s, txs, Height)
      BY <1>1
    <3> QED
      BY <2>1, <3>1, <3>2 DEF Recorded
  <2>3. Sound(d) /\ ~(Len(d.receipts) > Len(s.receipts))
    BY <1>2, <2>1, <2>2 DEF Sound
  <2>4. Draft(c, d)
    BY <1>10 DEF d
  <2> QED
    BY <1>1, <1>10, <2>1, <2>3, <2>4, DraftIsSound
<1>11. CASE /\ Canonical(r) /\ Deep(r) /\ r.status = "success" /\ MayConfirm(s, r)
            /\ Draft(c, Confirmed(s, r)) /\ UNCHANGED receipt
  <2> DEFINE d == Confirmed(s, r)
             n == Len(s.receipts)
  <2>1. r.num <= QuoteExpiresAt /\ (s.phase = "PREPARED_FUND" => r.num <= s.validUntil)
    BY <1>11 DEF MayConfirm
  <2>2. /\ t.op = ExpectedOperations[n + 1] /\ n + 1 \in 1 .. 4
        /\ s.phase # "PREPARED_CREATE" => t.job = s.job
    <3>1. n = ExpectedReceipts[s.phase]
      BY <1>1 DEF Proper, Valid
    <3>2. t.op = ExpectedOperations[n + 1]
      BY <1>2, <1>3, <3>1, PreparedTables DEF MatchesIntent
    <3>3. n + 1 \in 1 .. 4
      <4>1. \A m \in 0 .. 3 : m + 1 \in 1 .. 4
        OBVIOUS
      <4> QED
        BY <1>2, <4>1
    <3>4. s.phase # "PREPARED_CREATE" => t.job = s.job
      BY <1>3 DEF MatchesIntent
    <3> QED
      BY <3>2, <3>3, <3>4
  <2>3. t.num = r.num /\ t.fork = r.fork /\ t.status = "success"
    BY <1>3, <1>11
  <2>4. \A i \in 1 .. n : s.receipts[i].num <= r.num
    <3>1. /\ journal # NoState /\ Precedes(s, journal)
          /\ \A i \in 1 .. Len(journal.receipts) :
                i < n + 1 => t.num = 0 \/ journal.receipts[i].num <= t.num
      BY <1>1, <1>2, <2>2, Types DEF ReadIsPast, IntentsFollowReceipts
    <3>2. Len(journal.receipts) \in Nat /\ t.num # 0
      BY <1>4, <2>3, <3>1, Types, FieldsOf
    <3>3. ASSUME NEW i \in 1 .. n
          PROVE  s.receipts[i].num <= r.num
      <4>1. i \in 1 .. Len(journal.receipts) /\ i < n + 1 /\ journal.receipts[i] = s.receipts[i]
        BY <1>2, <3>1, <3>2 DEF Precedes
      <4> QED
        BY <2>3, <3>1, <3>2, <4>1
    <3> QED
      BY <3>3
  <2>5. /\ Proper(d) /\ ChildTransition(s, d) /\ Len(d.receipts) = n + 1
        /\ \A i \in 1 .. n : d.receipts[i] = s.receipts[i]
        /\ d.receipts[n + 1] = [tx |-> s.submission, num |-> r.num, fork |-> r.fork]
        /\ d.job = IF s.job = NoTx THEN s.submission ELSE s.job
        /\ d.observed = "none"
    BY <1>1, <1>3, <2>1, <2>4, ConfirmedIsLegal
  <2> HIDE DEF d
  <2>6. t.job = d.job
    <3>1. s.job = IF n = 0 THEN NoTx ELSE s.receipts[1].tx
      BY <1>1 DEF Proper, Valid
    <3>2. CASE n = 0
      <4>1. t.op = "create_job"
        BY <2>2, <3>2, OperationsDiffer
      <4>2. t.job = s.submission
        BY <1>2, <4>1, Types DEF ChainIsKept
      <4> QED
        BY <2>5, <3>1, <3>2, <4>2
    <3>3. CASE n # 0
      <4>1. s.receipts[1].tx \in Tx
        BY <1>1, <1>2, <3>3, FieldsOf
      <4> QED
        BY <1>2, <2>2, <2>5, <3>1, <3>3, <4>1, ConstantsAssumption
    <3> QED
      BY <3>2, <3>3
  <2>7. Recorded(d, txs, Height)
    BY <1>1, <1>3, <1>4, <1>5, <1>11, <2>2, <2>3, <2>5, <2>6, ConfirmedIsRecorded
  <2>8. Sound(d) /\ Draft(c, d) /\ d.receipts[Len(d.receipts)].tx = s.submission
    BY <1>11, <2>5, <2>7 DEF Sound, d
  <2> QED
    BY <1>1, <1>11, <2>5, <2>8, DraftIsSound
<1> QED
  BY <1>7, <1>8, <1>9, <1>10, <1>11 DEF CheckReceipt

-----------------------------------------------------------------------------
(* The theorems *)

LEMMA Initially ==
    ASSUME Init
    PROVE  IInv
<1> USE ConstantsAssumption
<1>1. /\ chain \in Seq(0 .. MaxForks) /\ Len(chain) = ConfirmationDepth + 1
      /\ \A n \in 1 .. Len(chain) : chain[n] = 0
  <2>1. chain \in [1 .. ConfirmationDepth + 1 -> 0 .. MaxForks] /\ ConfirmationDepth + 1 \in Nat
    BY DEF Init
  <2>2. chain \in Seq(0 .. MaxForks) /\ DOMAIN chain = 1 .. ConfirmationDepth + 1
    BY <2>1, SeqDef
  <2>3. Len(chain) = ConfirmationDepth + 1
    BY <2>1, <2>2, LenProperties
  <2> QED
    BY <2>2, <2>3 DEF Init
<1>2. \A t \in Tx : /\ txs[t].op = "none" /\ txs[t].status = "unsent" /\ txs[t].num = 0
                    /\ txs[t] \in Record
  BY DEF Init, Unsent, Record, TxStatus
<1>3. txs \in [Tx -> Record]
  <2>1. txs = [t \in Tx |-> txs[t]]
    BY DEF Init
  <2> QED
    BY <1>2, <2>1
<1>4. TypeOK
  <2>1. Len(chain) \in 1 .. MaxHeight
    BY <1>1
  <2>2. journal \in States \cup {NoState} /\ fresh \subseteq Cmd /\ failures \in 0 .. MaxFailures
        /\ fork \in 0 .. MaxForks
    BY DEF Init
  <2>3. /\ pc \in [Cmd -> PC] /\ read \in [Cmd -> States \cup {NoState}]
        /\ draft \in [Cmd -> States \cup {NoState}]
        /\ receipt \in [Cmd -> Fetched \cup {NoFetched}]
    BY DEF Init, PC
  <2> QED
    BY <1>1, <1>3, <2>1, <2>2, <2>3 DEF TypeOK, Record
<1>5. ChainIsKept
  BY <1>1, <1>2 DEF ChainIsKept, Height, Init
<1>6. JournalIsSound
  BY DEF JournalIsSound, Init
<1>7. IntentsFollowReceipts
  BY <1>2, OperationsDiffer DEF IntentsFollowReceipts
<1>8. CommandsAreSound
  BY DEF CommandsAreSound, CommandIsSound, Legal, ReadIsPast, FetchedIsTrue, Working, Init
<1> QED
  BY <1>4, <1>5, <1>6, <1>7, <1>8 DEF IInv

LEMMA Step ==
    ASSUME IInv, [Next]_vars
    PROVE  IInv'
<1>1. ASSUME NEW c \in Cmd, Command(c) \/ Fail(c)
      PROVE  IInv'
  <2>1. OfCommand(c) /\ CommandIsSound(c)'
    BY <1>1, CreateStep, DeriveStep, PersistStep, FetchStep, CheckStep, FailStep DEF Command
  <2> QED
    BY <2>1, CommandStays
<1>2. CASE Network
  BY <1>2, NetworkStep
<1>3. CASE UNCHANGED vars
  <2>1. \A s : Sound(s) => Sound(s)'
    BY <1>3 DEF vars, Sound, Height
  <2>2. TypeOK' /\ ChainIsKept' /\ JournalIsSound' /\ IntentsFollowReceipts'
    BY <1>3 DEF vars, IInv, TypeOK, ChainIsKept, JournalIsSound, IntentsFollowReceipts,
                Sound, Height
  <2>3. CommandsAreSound'
    BY <1>3, <2>1 DEF vars, IInv, CommandsAreSound, CommandIsSound, Legal, ReadIsPast,
                FetchedIsTrue, Working, MatchesIntent, Canonical, Height
  <2> QED
    BY <2>2, <2>3 DEF IInv
<1> QED
  BY <1>1, <1>2, <1>3 DEF Next, Network

\* The inductive invariant.
THEOREM Invariance == Spec => []IInv
<1>1. Init => IInv
  BY Initially
<1>2. IInv /\ [Next]_vars => IInv'
  BY Step
<1> QED
  BY <1>1, <1>2, PTL DEF Spec

\* The types are kept.
THEOREM TypeCorrect == Spec => []TypeOK
<1>1. IInv => TypeOK
  BY DEF IInv
<1> QED
  BY <1>1, Invariance, PTL

\* Whatever state.ts derives, the schema, the integrity checks and the store's transition
\* policy accept it.
THEOREM LegalDrafts == Spec => []DraftsAreAccepted
<1>1. IInv => DraftsAreAccepted
  <2> SUFFICES ASSUME IInv, NEW c \in Cmd
               PROVE  /\ pc[c] = "bootstrap" => Valid(draft[c])
                      /\ pc[c] \in {"persist", "persistSubmission"} =>
                            /\ Valid(draft[c])
                            /\ draft[c] = read[c] \/ ChildTransition(read[c], draft[c])
    BY DEF DraftsAreAccepted
  <2>1. Legal(c) /\ Valid(FirstState)
    BY Types, FirstIsSound DEF Proper
  <2> QED
    BY <2>1 DEF Legal, Sound, Proper
<1> QED
  BY <1>1, Invariance, PTL

\* NoState holds nothing that could be wrong.
LEMMA NothingYet ==
    /\ NoState.condition = "none" /\ NoState.observed = "none" /\ NoState.receipts = <<>>
    /\ NoState.submission = NoTx
BY DEF NoState, FirstState

\* The journal is never ahead of the chain, under any reorganization.
THEOREM OnChainForGood == Spec => []JournalIsOnChain
<1>1. IInv => JournalIsOnChain
  <2> SUFFICES ASSUME IInv PROVE JournalIsOnChain
    OBVIOUS
  <2>1. CASE journal = NoState
    BY <2>1, NothingYet DEF JournalIsOnChain
  <2>2. CASE journal # NoState
    <3>1. Recorded(journal, txs, Height) /\ ChainIsKept /\ journal \in States
      BY <2>2, Types DEF Sound, Proper
    <3>2. ASSUME NEW i \in 1 .. Len(journal.receipts)
          PROVE  LET r == journal.receipts[i]
                 IN /\ txs[r.tx].status = "success"
                    /\ txs[r.tx].op = ExpectedOperations[i] /\ txs[r.tx].job = journal.job
                    /\ txs[r.tx].num = r.num /\ chain[r.num] = r.fork
      <4> DEFINE r == journal.receipts[i]
      <4>1. r.tx \in Tx
        BY <3>1, FieldsOf
      <4>2. /\ txs[r.tx].status = "success"
            /\ txs[r.tx].op = ExpectedOperations[i] /\ txs[r.tx].job = journal.job
            /\ txs[r.tx].num = r.num /\ txs[r.tx].fork = r.fork
        BY <3>1 DEF Recorded
      <4>3. chain[txs[r.tx].num] = txs[r.tx].fork
        BY <3>1, <4>1, <4>2 DEF ChainIsKept
      <4> QED
        BY <4>2, <4>3
    <3> QED
      BY <3>1, <3>2 DEF JournalIsOnChain, Recorded
  <2> QED
    BY <2>1, <2>2
<1> QED
  BY <1>1, Invariance, PTL

\* Nothing is confirmed that was mined after the quote or the preview expired.
THEOREM InTime == Spec => []ConfirmedInTime
<1>1. IInv => ConfirmedInTime
  <2> SUFFICES ASSUME IInv, NEW i \in 1 .. Len(journal.receipts)
               PROVE  /\ txs[journal.receipts[i].tx].num <= QuoteExpiresAt
                      /\ i = 4 => txs[journal.receipts[i].tx].num <= journal.validUntil
    BY DEF ConfirmedInTime
  <2>1. journal # NoState
    BY NothingYet
  <2>2. Sound(journal) /\ Proper(journal) /\ Len(journal.receipts) \in 0 .. 4
    BY <2>1, Types, ReceiptsOf DEF Sound
  <2>3. txs[journal.receipts[i].tx].num = journal.receipts[i].num
    BY <2>2 DEF Sound, Recorded
  <2>4. journal.receipts[i].num <= QuoteExpiresAt
    BY <2>2 DEF Proper, Valid
  <2>5. i = 4 => journal.receipts[4].num <= journal.validUntil
    BY <2>2 DEF Proper, InPreview
  <2> QED
    BY <2>3, <2>4, <2>5
<1> QED
  BY <1>1, Invariance, PTL

\* The duties in the journal are those of the job it knows.
THEOREM DutiesMatch == Spec => []CleanupMatchesJob
<1>1. IInv => CleanupMatchesJob
  <2> SUFFICES ASSUME IInv, journal.condition \in {"ready", "cleanup_required", "aborted"}
               PROVE  /\ journal.cleanup = "none"   => journal.job = NoTx
                      /\ journal.phase = "FUNDED_CONFIRMED" => journal.cleanup = "refund"
                      /\ journal.cleanup = "reject" => Done("create_job", journal.job, Height)
                      /\ journal.cleanup = "refund" => Done("fund", journal.job, Height)
    BY DEF CleanupMatchesJob
  <2>1. journal # NoState
    BY NothingYet
  <2>2. /\ Proper(journal) /\ Recorded(journal, txs, Height) /\ journal \in States
        /\ Len(journal.receipts) \in 0 .. 4
        /\ journal.phase = "PREPARED_CREATE" <=> Len(journal.receipts) = 0
        /\ Len(journal.receipts) = ExpectedReceipts[journal.phase]
        /\ journal.phase \in PreparedPhases \cup ConfirmedPhases
    BY <2>1, Types, ReceiptsOf, FieldsOf DEF Sound, Proper, Valid, Phases
  <2>3. journal.cleanup = CleanupForPhase(journal.phase)
    BY <2>2 DEF Proper, Dutiful
  <2>4. /\ journal.cleanup = "none" => journal.phase = "PREPARED_CREATE"
        /\ journal.cleanup = "refund" <=> journal.phase = "FUNDED_CONFIRMED"
        /\ journal.cleanup = "reject" => journal.phase # "PREPARED_CREATE"
    BY <2>3 DEF CleanupForPhase
  <2>5. journal.cleanup = "none" => journal.job = NoTx
    BY <2>2, <2>4 DEF Proper, Valid
  <2>6. ASSUME NEW i \in 1 .. Len(journal.receipts)
        PROVE  Done(ExpectedOperations[i], journal.job, Height)
    <3> DEFINE t == journal.receipts[i].tx
    <3>1. t \in Tx /\ journal.receipts[i].num \in 1 .. MaxHeight
      BY <2>2, FieldsOf
    <3>2. /\ txs[t].status = "success" /\ txs[t].op = ExpectedOperations[i]
          /\ txs[t].job = journal.job
      BY <2>2 DEF Recorded
    <3>3. txs[t].num \in 1 .. Height /\ Height \in Nat
      BY <3>1, <3>2, Types DEF ChainIsKept, ChainTypes
    <3> HIDE DEF t
    <3> QED
      BY <3>1, <3>2, <3>3 DEF Done
  <2>7. ExpectedOperations[1] = "create_job" /\ ExpectedOperations[4] = "fund"
    BY DEF ExpectedOperations
  <2>8. journal.cleanup = "reject" => 1 \in 1 .. Len(journal.receipts)
    BY <2>2, <2>4
  <2>9. journal.cleanup = "refund" => 4 \in 1 .. Len(journal.receipts)
    BY <2>2, <2>4 DEF ExpectedReceipts
  <2> QED
    BY <2>4, <2>5, <2>6, <2>7, <2>8, <2>9
<1> QED
  BY <1>1, Invariance, PTL

\* What a step may do to a generation that is stored.
FinalStep ==
    journal # NoState /\ journal' # journal =>
        /\ journal.condition \notin Terminal
        /\ Extends(journal, journal')
        /\ journal.condition = "broadcast_unknown" =>
              journal'.phase = journal.phase /\ journal'.condition = "reconcile_required"
        /\ journal.submission # NoTx =>
              \/ journal'.submission = journal.submission
              \/ /\ Len(journal'.receipts) > 0
                 /\ journal'.receipts[Len(journal'.receipts)].tx = journal.submission

\* A child keeps what its parent settled; if it drops the submission it confirms the step.
LEMMA ChildKeeps ==
    ASSUME NEW p, Proper(p), NEW d, Proper(d), ChildTransition(p, d)
    PROVE  /\ p.condition \notin Terminal /\ Extends(p, d)
           /\ p.condition = "broadcast_unknown" =>
                d.phase = p.phase /\ d.condition = "reconcile_required"
           /\ p.submission # NoTx =>
                \/ d.submission = p.submission
                \/ d.condition = "ready" /\ Len(d.receipts) = Len(p.receipts) + 1
<1>1. Extends(p, d) /\ (p.condition = "ready" => p.submission = NoTx)
  BY DEF ChildTransition, Proper, Valid
<1>2. CASE d.phase = p.phase /\ SamePhaseTransition(p, d)
  BY <1>1, <1>2 DEF SamePhaseTransition, Terminal
<1>3. CASE ConfirmationTransition(p, d)
  BY <1>1, <1>3 DEF ConfirmationTransition, Terminal
<1>4. CASE PreparationTransition(p, d)
  BY <1>1, <1>4 DEF PreparationTransition, Terminal
<1> QED
  BY <1>2, <1>3, <1>4 DEF ChildTransition

\* What a generation says is final once it is stored.
THEOREM FinalHistory == Spec => HistoryIsFinal
<1>1. IInv /\ [Next]_vars => [FinalStep]_vars
  <2> SUFFICES ASSUME IInv, Next, journal # NoState, journal' # journal
               PROVE  FinalStep
    BY DEF FinalStep
  <2>1. PICK c \in Cmd : PersistSubmission(c) \/ Persist(c)
    <3>1. ASSUME NEW c \in Cmd, Command(c) \/ Fail(c), ~PersistSubmission(c), ~Persist(c)
          PROVE  journal' = journal
      BY <3>1 DEF Command, Fail, PrepareCreate, Bootstrap, PrepareNext, BroadcastUnknown,
                  Reconcile, FetchReceipt, CheckReceipt
    <3>2. Network => journal' = journal
      BY DEF Network, Broadcast, MineBlock, Reorganize
    <3> QED
      BY <3>1, <3>2 DEF Next, Network, Command
  <2>2. CanPersist(c) /\ journal' = draft[c] /\ pc[c] \in {"persist", "persistSubmission"}
    BY <2>1 DEF PersistSubmission, Persist
  <2>3. /\ read[c] = journal /\ Proper(journal) /\ Proper(draft[c])
        /\ ChildTransition(journal, draft[c])
    BY <2>2, StoredIsChild DEF Sound
  <2>4. /\ journal.condition \notin Terminal /\ Extends(journal, journal')
        /\ journal.condition = "broadcast_unknown" =>
                journal'.phase = journal.phase /\ journal'.condition = "reconcile_required"
        /\ journal.submission # NoTx =>
                \/ journal'.submission = journal.submission
                \/ /\ journal'.condition = "ready"
                   /\ Len(journal'.receipts) = Len(journal.receipts) + 1
    BY <2>2, <2>3, ChildKeeps
  <2>5. ASSUME journal'.condition = "ready", Len(journal'.receipts) = Len(journal.receipts) + 1
        PROVE  /\ Len(journal'.receipts) > 0
               /\ journal'.receipts[Len(journal'.receipts)].tx = journal.submission
    <3>1. pc[c] = "persist" /\ Legal(c)
      BY <2>2, <2>5, Types DEF Legal
    <3>2. Len(journal.receipts) \in Nat
      BY <2>3, FieldsOf DEF Proper
    <3>3. Len(draft[c].receipts) > Len(read[c].receipts) /\ Len(journal'.receipts) > 0
      BY <2>2, <2>3, <2>5, <3>2
    <3> QED
      BY <2>2, <2>3, <3>1, <3>3 DEF Legal
  <2> QED
    BY <2>4, <2>5 DEF FinalStep
<1>2. [][FinalStep]_vars => HistoryIsFinal
  BY PTL DEF HistoryIsFinal, FinalStep
<1> QED
  BY <1>1, <1>2, Invariance, PTL DEF Spec
=============================================================================
