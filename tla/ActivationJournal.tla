-------------------------- MODULE ActivationJournal --------------------------
(***************************************************************************)
(* One activation's journal, from its first generation on: the commands of *)
(* activation-cli.ts (prepare-create, prepare-next, reconcile and          *)
(* broadcast-unknown), the state machine of activation/state.ts that they  *)
(* drive, the receipt observation of activation/rpc.ts and reconcile.ts,   *)
(* and the transition policy that activation/store.ts enforces, over a     *)
(* chain that grows, reverts transactions and is reorganized.              *)
(*                                                                         *)
(* Commands run concurrently.  Each reads the head of the journal, derives *)
(* a child and stores it; the store is the compare-and-swap register of    *)
(* JournalHead.  A state carries its parent's hash and a time, so no two   *)
(* generations are equal: a command's read is either the head still or     *)
(* never again, which `fresh' records.                                     *)
(*                                                                         *)
(* Blocks stand for time: a block's number is its timestamp.  Transactions *)
(* are signed and broadcast outside the program, and by whom or how often  *)
(* is not its business: any intent that was ever prepared may be submitted *)
(* any number of times, with or without a hash coming back.                *)
(***************************************************************************)
EXTENDS Integers, Sequences, FiniteSets

CONSTANTS
    Cmd,                \* command processes
    Tx,                 \* transaction hashes
    NoTx,
    ConfirmationDepth,  \* ACTIVATION_CONFIRMATION_DEPTH
    QuoteExpiresAt,     \* binding.quoteExpiresAt, in blocks
    StepBudget,         \* ACTIVATION_STEP_BUDGET_SECONDS, in blocks
    ClockSkew,          \* ACTIVATION_CLOCK_SKEW_SECONDS, in blocks
    FundingBuffer,      \* ACTIVATION_FUNDING_PREVIEW_BUFFER_SECONDS, in blocks
    MaxHeight,          \* bound: blocks
    MaxForks,           \* bound: reorganizations
    MaxResubmissions,   \* bound: intents submitted again
    MaxFailures         \* bound: commands that are killed or meet an RPC failure

ASSUME ConstantsAssumption ==
    /\ NoTx \notin Tx
    /\ ConfirmationDepth \in Nat
    /\ QuoteExpiresAt \in Nat /\ StepBudget \in Nat /\ ClockSkew \in Nat
    /\ FundingBuffer \in Nat /\ MaxHeight \in Nat /\ MaxForks \in Nat
    /\ MaxResubmissions \in Nat /\ MaxFailures \in Nat
    /\ MaxHeight > ConfirmationDepth

VARIABLES
    journal,    \* the head of the journal
    \* the commands
    pc,
    read,       \* the generation the command works on
    fresh,      \* commands whose generation is the head still
    draft,      \* the child the command is about to store
    receipt,    \* the receipt that a reconciliation has fetched
    failures,   \* commands that died so far
    \* the chain
    chain,      \* the canonical blocks, each named by the fork it was mined on
    fork,       \* reorganizations so far
    txs         \* what became of each transaction

commands == <<pc, read, fresh, draft, receipt, failures>>
network  == <<chain, fork, txs>>
vars     == <<journal, pc, read, fresh, draft, receipt, failures, chain, fork, txs>>

-----------------------------------------------------------------------------
\* deployment.ts and the phase tables of state.ts

PreparedPhases  == {"PREPARED_CREATE", "PREPARED_REGISTER", "PREPARED_SET_BUDGET",
                    "PREPARED_FUND"}
ConfirmedPhases == {"CREATE_CONFIRMED", "REGISTER_CONFIRMED", "BUDGET_CONFIRMED",
                    "FUNDED_CONFIRMED"}
Phases          == PreparedPhases \cup ConfirmedPhases

Operation ==
    [PREPARED_CREATE     |-> "create_job",  PREPARED_REGISTER |-> "register_job",
     PREPARED_SET_BUDGET |-> "set_budget",  PREPARED_FUND     |-> "fund"]

Operations == {"create_job", "register_job", "set_budget", "fund"}

ConfirmedPhaseFor ==
    [PREPARED_CREATE     |-> "CREATE_CONFIRMED", PREPARED_REGISTER |-> "REGISTER_CONFIRMED",
     PREPARED_SET_BUDGET |-> "BUDGET_CONFIRMED", PREPARED_FUND     |-> "FUNDED_CONFIRMED"]

NextPreparedPhase ==
    [CREATE_CONFIRMED |-> "PREPARED_REGISTER", REGISTER_CONFIRMED |-> "PREPARED_SET_BUDGET",
     BUDGET_CONFIRMED |-> "PREPARED_FUND"]

PriorConfirmedPhase ==
    [PREPARED_REGISTER |-> "CREATE_CONFIRMED", PREPARED_SET_BUDGET |-> "REGISTER_CONFIRMED",
     PREPARED_FUND     |-> "BUDGET_CONFIRMED"]

ExpectedReceipts ==
    [PREPARED_CREATE     |-> 0, CREATE_CONFIRMED   |-> 1,
     PREPARED_REGISTER   |-> 1, REGISTER_CONFIRMED |-> 2,
     PREPARED_SET_BUDGET |-> 2, BUDGET_CONFIRMED   |-> 3,
     PREPARED_FUND       |-> 3, FUNDED_CONFIRMED   |-> 4]

ExpectedOperations == <<"create_job", "register_job", "set_budget", "fund">>

\* minimumQuoteRemainingSeconds
MinimumQuoteRemaining ==
    [PREPARED_CREATE     |-> 4 * StepBudget + ClockSkew,
     PREPARED_REGISTER   |-> 3 * StepBudget + ClockSkew,
     PREPARED_SET_BUDGET |-> 2 * StepBudget + ClockSkew,
     PREPARED_FUND       |-> StepBudget + ClockSkew + FundingBuffer]

\* cleanup.requiredActions: none, reject, or claimRefund and then markExpired.
CleanupForPhase(phase) ==
    CASE phase = "FUNDED_CONFIRMED" -> "refund"
      [] phase = "PREPARED_CREATE"  -> "none"
      [] OTHER                      -> "reject"

-----------------------------------------------------------------------------
\* Types

Conditions == {"ready", "broadcast_unknown", "reconcile_required", "cleanup_required",
               "aborted"}
Terminal   == {"cleanup_required", "aborted"}
Unresolved == {"not_found", "pending", "unconfirmed", "reorged"}
Receipts   == [tx : Tx, num : 1 .. MaxHeight, fork : 0 .. MaxForks]

\* The part of ActivationState that changes between generations; the job is named by
\* the transaction that created it, a preview by the time it is valid until (0: none).
States ==
    [phase : Phases, condition : Conditions, job : Tx \cup {NoTx},
     submission : Tx \cup {NoTx}, observed : Unresolved \cup {"none", "reverted"},
     receipts : Seq(Receipts), cleanup : {"none", "reject", "refund"},
     validUntil : 0 .. QuoteExpiresAt]

\* prepareCreateActivation
FirstState ==
    [phase |-> "PREPARED_CREATE", condition |-> "ready", job |-> NoTx, submission |-> NoTx,
     observed |-> "none", receipts |-> <<>>, cleanup |-> "none", validUntil |-> 0]

NoState == [FirstState EXCEPT !.condition = "none"]   \* no head yet; nothing read yet

Fetched   == [num : 1 .. MaxHeight, fork : 0 .. MaxForks, status : {"success", "reverted"}]
NoFetched == [num |-> 0, fork |-> 0, status |-> "none"]

TxStatus == {"unsent", "pending", "success", "reverted"}
PC == {"idle", "bootstrap", "persist", "persistSubmission", "fetch", "check"}

TypeOK ==
    /\ journal \in States \cup {NoState}
    /\ pc \in [Cmd -> PC]
    /\ read \in [Cmd -> States \cup {NoState}]
    /\ fresh \subseteq Cmd
    /\ draft \in [Cmd -> States \cup {NoState}]
    /\ receipt \in [Cmd -> Fetched \cup {NoFetched}]
    /\ failures \in 0 .. MaxFailures
    /\ chain \in Seq(0 .. MaxForks) /\ Len(chain) \in 1 .. MaxHeight
    /\ fork \in 0 .. MaxForks
    /\ txs \in [Tx -> [op : Operations \cup {"none"}, job : Tx \cup {NoTx},
                       status : TxStatus, num : 0 .. MaxHeight, fork : 0 .. MaxForks]]

Unsent == [op |-> "none", job |-> NoTx, status |-> "unsent", num |-> 0, fork |-> 0]

Init ==
    /\ journal = NoState
    /\ pc = [c \in Cmd |-> "idle"]
    /\ read = [c \in Cmd |-> NoState]
    /\ fresh = {}
    /\ draft = [c \in Cmd |-> NoState]
    /\ receipt = [c \in Cmd |-> NoFetched]
    /\ failures = 0
    /\ chain = [n \in 1 .. ConfirmationDepth + 1 |-> 0]
    /\ fork = 0
    /\ txs = [t \in Tx |-> Unsent]

-----------------------------------------------------------------------------
\* The chain as the commands see it

Height == Len(chain)

\* The block that observeDeployment() without a block number reads.
DeploymentBlock == Height - ConfirmationDepth

\* What a job looks like in the state of block n (observeJob).
Done(op, job, n) ==
    \E t \in Tx : /\ txs[t].op = op /\ txs[t].job = job
                  /\ txs[t].status = "success" /\ txs[t].num <= n

\* assertJobMatches
JobMatches(confirmed, job, n) ==
    /\ Done("create_job", job, n)
    /\ Done("register_job", job, n) <=> confirmed # "CREATE_CONFIRMED"
    /\ Done("set_budget", job, n) <=> confirmed \in {"BUDGET_CONFIRMED", "FUNDED_CONFIRMED"}
    /\ Done("fund", job, n) <=> confirmed = "FUNDED_CONFIRMED"

\* The transaction has the sender, target and calldata of the state's intent.
MatchesIntent(t, s) ==
    /\ txs[t].op = Operation[s.phase]
    /\ s.phase # "PREPARED_CREATE" => txs[t].job = s.job

\* assertQuoteWindow and assertPreviewWindow, for the end of a window
WithinWindow(phase, end, now) == end - now >= MinimumQuoteRemaining[phase]

-----------------------------------------------------------------------------
\* schema.ts (superRefine) and assertStateIntegrity: what every stored state satisfies

Valid(s) ==
    /\ s.submission # NoTx => s.phase \in PreparedPhases
    /\ s.observed # "none" => s.submission # NoTx
    /\ s.condition = "broadcast_unknown" => s.phase \in PreparedPhases /\ s.submission = NoTx
    /\ s.condition = "reconcile_required" => s.phase \in PreparedPhases /\ s.submission # NoTx
    /\ s.condition = "ready" => s.submission = NoTx
    /\ s.condition \in Terminal <=> s.observed = "reverted"
    /\ s.observed \in Unresolved => s.condition = "reconcile_required"
    /\ s.phase = "PREPARED_FUND" => s.validUntil # 0
    /\ s.validUntil # 0 => s.phase \in {"PREPARED_FUND", "FUNDED_CONFIRMED"}
    /\ Len(s.receipts) = ExpectedReceipts[s.phase]
    /\ s.job = IF Len(s.receipts) = 0 THEN NoTx ELSE s.receipts[1].tx
    /\ \A i \in 1 .. Len(s.receipts) :
          /\ s.receipts[i].num <= QuoteExpiresAt
          /\ s.submission # s.receipts[i].tx
          /\ \A k \in 1 .. i - 1 : /\ s.receipts[k].tx # s.receipts[i].tx
                                   /\ s.receipts[k].num <= s.receipts[i].num

\* assertChildTransition, with its three kinds of steps
Extends(parent, child) ==
    /\ Len(child.receipts) >= Len(parent.receipts)
    /\ SubSeq(child.receipts, 1, Len(parent.receipts)) = parent.receipts
    /\ parent.job # NoTx => child.job = parent.job
    /\ parent.validUntil # 0 => child.validUntil = parent.validUntil

SamePhaseTransition(parent, child) ==
    /\ parent.phase \in PreparedPhases
    /\ child.receipts = parent.receipts
    /\ child.job = parent.job /\ child.validUntil = parent.validUntil
    /\ \/ /\ parent.condition = "ready" /\ child.condition = "broadcast_unknown"
          /\ parent.submission = NoTx /\ child.submission = NoTx
       \/ /\ parent.condition \in {"ready", "broadcast_unknown"}
          /\ child.condition = "reconcile_required"
          /\ parent.submission = NoTx /\ child.submission # NoTx
          /\ child.observed = "none" /\ child.cleanup = parent.cleanup
       \/ /\ parent.condition = "reconcile_required" /\ child.condition = "reconcile_required"
          /\ child.submission = parent.submission
          /\ child.observed \in Unresolved /\ child.cleanup = parent.cleanup
       \/ /\ parent.condition = "reconcile_required" /\ child.condition \in Terminal
          /\ child.submission = parent.submission /\ child.observed = "reverted"

ConfirmationTransition(parent, child) ==
    /\ parent.phase \in PreparedPhases /\ child.phase = ConfirmedPhaseFor[parent.phase]
    /\ parent.condition \in {"ready", "reconcile_required"} /\ child.condition = "ready"
    /\ child.submission = NoTx /\ child.observed = "none"
    /\ Len(child.receipts) = Len(parent.receipts) + 1
    /\ child.job # NoTx /\ child.validUntil = parent.validUntil

PreparationTransition(parent, child) ==
    /\ parent.phase \in DOMAIN NextPreparedPhase
    /\ child.phase = NextPreparedPhase[parent.phase]
    /\ parent.condition = "ready" /\ child.condition = "ready"
    /\ child.submission = NoTx /\ child.observed = "none"
    /\ child.receipts = parent.receipts /\ child.job = parent.job
    /\ \/ child.phase = "PREPARED_FUND" /\ parent.validUntil = 0 /\ child.validUntil # 0
       \/ child.validUntil = parent.validUntil

ChildTransition(parent, child) ==
    /\ Extends(parent, child)
    /\ \/ child.phase = parent.phase /\ SamePhaseTransition(parent, child)
       \/ child.phase # parent.phase /\ ConfirmationTransition(parent, child)
       \/ child.phase # parent.phase /\ PreparationTransition(parent, child)

-----------------------------------------------------------------------------
\* The commands.  One that throws before it has stored anything changes nothing but its
\* own progress; a condition under which it always throws is a guard here.

Goto(c, where) == pc' = [pc EXCEPT ![c] = where]

\* The process ends, and forgets what it knew.
Finish(c) ==
    /\ Goto(c, "idle")
    /\ read' = [read EXCEPT ![c] = NoState]
    /\ draft' = [draft EXCEPT ![c] = NoState]
    /\ receipt' = [receipt EXCEPT ![c] = NoFetched]

\* readCurrentStateForCommand: the state passed on the command line must be the head.
ReadHead(c) ==
    /\ read' = [read EXCEPT ![c] = journal]
    /\ fresh' = fresh \cup {c}

\* prepare-create up to the bootstrap, over a fresh deployment observation and preview.
\* It covers the recovery of an existing first generation, which repeats the checks.
PrepareCreate(c) ==
    /\ pc[c] = "idle"
    /\ journal \in {NoState, FirstState}
    /\ WithinWindow("PREPARED_CREATE", QuoteExpiresAt, DeploymentBlock)
    /\ draft' = [draft EXCEPT ![c] = FirstState]
    /\ Goto(c, "bootstrap")
    /\ UNCHANGED <<journal, read, fresh, receipt, failures, network>>

\* bootstrapActivationSnapshot installs the first generation, or recovers the one there.
Bootstrap(c) ==
    /\ pc[c] = "bootstrap"
    /\ journal' = IF journal = NoState THEN draft[c] ELSE journal
    /\ Finish(c)
    /\ UNCHANGED <<fresh, failures, network>>

\* prepare-next up to the persist: prepareNextActivationStep over the deployment and the
\* job in one confirmed block, and before funding over a fresh preview.
PrepareNext(c) ==
    /\ pc[c] = "idle"
    /\ journal.condition = "ready"
    /\ journal.phase \in DOMAIN NextPreparedPhase
    /\ JobMatches(journal.phase, journal.job, DeploymentBlock)
    /\ LET next == NextPreparedPhase[journal.phase]
           child == [journal EXCEPT !.phase = next, !.cleanup = CleanupForPhase(next)]
       IN /\ WithinWindow(next, QuoteExpiresAt, DeploymentBlock)
          /\ \/ /\ next # "PREPARED_FUND"
                /\ draft' = [draft EXCEPT ![c] = child]
             \/ /\ next = "PREPARED_FUND"
                /\ \E end \in 1 .. QuoteExpiresAt :
                      /\ WithinWindow(next, end, DeploymentBlock)
                      /\ draft' = [draft EXCEPT ![c] = [child EXCEPT !.validUntil = end]]
    /\ ReadHead(c)
    /\ Goto(c, "persist")
    /\ UNCHANGED <<journal, receipt, failures, network>>

\* broadcast-unknown up to the persist: markActivationBroadcastUnknown.
BroadcastUnknown(c) ==
    /\ pc[c] = "idle"
    /\ journal.phase \in PreparedPhases /\ journal.condition = "ready"
    /\ draft' = [draft EXCEPT ![c] =
                    [journal EXCEPT !.condition = "broadcast_unknown", !.cleanup = "none"]]
    /\ ReadHead(c)
    /\ Goto(c, "persist")
    /\ UNCHANGED <<journal, receipt, failures, network>>

\* Mutant: the cleanup duties are derived again when the hash is recorded.
RecordSubmissionResettingCleanup(s, t) ==
    IF s.submission = t THEN s
    ELSE [s EXCEPT !.condition = "reconcile_required", !.submission = t, !.observed = "none",
                   !.cleanup = CleanupForPhase(s.phase)]

\* recordActivationSubmission.  A hash that is recorded already is accepted again; it
\* cannot be replaced, and the hash of an earlier step fails the integrity check.
RecordSubmission(s, t) ==
    IF s.submission = t THEN s
    ELSE [s EXCEPT !.condition = "reconcile_required", !.submission = t, !.observed = "none"]

\* Mutant: a hash that is recorded already is not accepted again.
MayRecordSubmissionOnce(s, t) ==
    /\ s.phase \in PreparedPhases
    /\ s.condition \in {"ready", "broadcast_unknown"}
    /\ \A i \in 1 .. Len(s.receipts) : s.receipts[i].tx # t

MayRecordSubmission(s, t) ==
    /\ s.phase \in PreparedPhases
    /\ s.condition \in {"ready", "broadcast_unknown", "reconcile_required"}
    /\ s.submission \in {NoTx, t}
    /\ \A i \in 1 .. Len(s.receipts) : s.receipts[i].tx # t

\* reconcile, with whatever hash it is given, up to its first persist.
Reconcile(c) ==
    /\ pc[c] = "idle"
    /\ journal # NoState
    /\ \E t \in Tx :
          /\ MayRecordSubmission(journal, t)
          /\ draft' = [draft EXCEPT ![c] = RecordSubmission(journal, t)]
    /\ ReadHead(c)
    /\ Goto(c, "persistSubmission")
    /\ UNCHANGED <<journal, receipt, failures, network>>

\* Mutant: the head is not compared with the generation that was read.
CanPersistAnyway(c) == draft[c] = read[c] \/ ChildTransition(read[c], draft[c])

\* persistActivationSnapshot: the generation that was read must be the head still, and
\* the child a legal successor; a child that is the head itself is stored already.
CanPersist(c) ==
    /\ c \in fresh
    /\ draft[c] = read[c] \/ ChildTransition(read[c], draft[c])

\* The submission is stored before anything is asked of the chain.
PersistSubmission(c) ==
    /\ pc[c] = "persistSubmission"
    /\ \/ /\ CanPersist(c)
          /\ journal' = draft[c]
          /\ fresh' = IF draft[c] = read[c] THEN fresh ELSE {c}
          /\ read' = [read EXCEPT ![c] = draft[c]]
          /\ Goto(c, "fetch")
          /\ UNCHANGED <<draft, receipt>>
       \/ /\ ~CanPersist(c)
          /\ fresh' = fresh \ {c}
          /\ Finish(c)
          /\ UNCHANGED journal
    /\ UNCHANGED <<failures, network>>

\* The command goes on to store a child, or throws.
Draft(c, child) ==
    /\ draft' = [draft EXCEPT ![c] = child]
    /\ Goto(c, "persist")
    /\ UNCHANGED <<read, fresh>>

Throw(c) ==
    /\ fresh' = fresh \ {c}
    /\ Finish(c)

\* recordActivationReconciliation of an observation that settles nothing
Observed(s, observation) == [s EXCEPT !.observed = observation]

\* The transaction and its receipt are asked for at once: the block that mines it, or the
\* fork that drops it, may come between the two answers.
Straddled(t, s) ==
    \/ txs[t].num = Height /\ MatchesIntent(t, s)
    \/ txs[t].status = "pending" /\ fork > 0

\* observeReceipt, its first requests: the transaction and its receipt.  A transaction
\* that is not the intent's fails the command; one that waits in the pool need not be
\* known to the node that is asked.
FetchReceipt(c) ==
    /\ pc[c] = "fetch"
    /\ LET t == read[c].submission
       IN \/ /\ txs[t].status \in {"unsent", "pending"}
             /\ Draft(c, Observed(read[c], "not_found"))
             /\ UNCHANGED receipt
          \/ /\ txs[t].status # "unsent" /\ ~MatchesIntent(t, read[c])
             /\ Throw(c)
          \/ /\ txs[t].status = "pending" /\ MatchesIntent(t, read[c])
             /\ Draft(c, Observed(read[c], "pending"))
             /\ UNCHANGED receipt
          \/ /\ Straddled(t, read[c])
             /\ Draft(c, Observed(read[c], "reorged"))
             /\ UNCHANGED receipt
          \/ /\ txs[t].status \in {"success", "reverted"} /\ MatchesIntent(t, read[c])
             /\ receipt' = [receipt EXCEPT ![c] =
                   [num |-> txs[t].num, fork |-> txs[t].fork, status |-> txs[t].status]]
             /\ Goto(c, "check")
             /\ UNCHANGED <<read, fresh, draft>>
    /\ UNCHANGED <<journal, failures, network>>

\* reconcileActivationStep
Confirmed(s, r) ==
    LET phase == ConfirmedPhaseFor[s.phase]
    IN [s EXCEPT !.phase = phase, !.condition = "ready", !.submission = NoTx,
                 !.observed = "none", !.cleanup = CleanupForPhase(phase),
                 !.job = IF s.job = NoTx THEN s.submission ELSE s.job,
                 !.receipts = Append(s.receipts,
                                     [tx |-> s.submission, num |-> r.num, fork |-> r.fork])]

\* Mutant: a funding is not held to the preview it was prepared on.
MayConfirmWithoutPreview(s, r) ==
    /\ r.num <= QuoteExpiresAt
    /\ JobMatches(ConfirmedPhaseFor[s.phase], IF s.job = NoTx THEN s.submission ELSE s.job,
                  r.num)

\* Mutant: the time of the block is not compared with the end of the quote.
MayConfirmLate(s, r) ==
    /\ s.phase = "PREPARED_FUND" => r.num <= s.validUntil
    /\ JobMatches(ConfirmedPhaseFor[s.phase], IF s.job = NoTx THEN s.submission ELSE s.job,
                  r.num)

\* assertReceiptMatches and assertJobMatches
MayConfirm(s, r) ==
    /\ r.num <= QuoteExpiresAt
    /\ s.phase = "PREPARED_FUND" => r.num <= s.validUntil
    /\ JobMatches(ConfirmedPhaseFor[s.phase], IF s.job = NoTx THEN s.submission ELSE s.job,
                  r.num)

\* Mutant: a terminal condition that the schema does not know.
RevertedAsFailed(s) ==
    [s EXCEPT !.condition = "failed", !.observed = "reverted",
              !.cleanup = CleanupForPhase(s.phase)]

\* Mutant: every revert aborts, as that of the creation does.
RevertedAborts(s) ==
    [s EXCEPT !.condition = "aborted", !.observed = "reverted", !.cleanup = "none"]

\* recordActivationReconciliation of a canonical revert
Reverted(s) ==
    IF s.phase = "PREPARED_CREATE"
    THEN [s EXCEPT !.condition = "aborted", !.observed = "reverted", !.cleanup = "none"]
    ELSE [s EXCEPT !.condition = "cleanup_required", !.observed = "reverted",
                   !.cleanup = CleanupForPhase(s.phase)]

MayRevert(s, r) ==
    s.phase # "PREPARED_CREATE" => JobMatches(PriorConfirmedPhase[s.phase], s.job, r.num)

\* The receipt's block is canonical, and deep enough.
Canonical(r) == chain[r.num] = r.fork

\* Mutant: one confirmation too few.
DeepOffByOne(r) == Height - r.num >= ConfirmationDepth - 1

Deep(r) == Height - r.num >= ConfirmationDepth

\* observeReceipt, its later requests (canonical block, head, deployment), then
\* observeJob and the new state.  The blocks are read again by hash after the head was,
\* so that the outcome is the one of a single moment.
CheckReceipt(c) ==
    /\ pc[c] = "check"
    /\ LET r == receipt[c]
           s == read[c]
           MayDraft(ok, child) == IF ok THEN Draft(c, child) /\ UNCHANGED receipt
                                        ELSE Throw(c)
       IN \/ ~Canonical(r) /\ MayDraft(TRUE, Observed(s, "reorged"))
          \/ Canonical(r) /\ ~Deep(r) /\ MayDraft(TRUE, Observed(s, "unconfirmed"))
          \/ /\ Canonical(r) /\ Deep(r) /\ r.status = "reverted"
             /\ MayDraft(MayRevert(s, r), Reverted(s))
          \/ /\ Canonical(r) /\ Deep(r) /\ r.status = "success"
             /\ MayDraft(MayConfirm(s, r), Confirmed(s, r))
    /\ UNCHANGED <<journal, failures, network>>

\* The last persist of a command.
Persist(c) ==
    /\ pc[c] = "persist"
    /\ IF CanPersist(c)
       THEN journal' = draft[c] /\ fresh' = {}
       ELSE fresh' = fresh \ {c} /\ UNCHANGED journal
    /\ Finish(c)
    /\ UNCHANGED <<failures, network>>

\* A command is killed, or a request or a file operation of it fails.
Fail(c) ==
    /\ pc[c] # "idle"
    /\ failures < MaxFailures
    /\ failures' = failures + 1
    /\ Throw(c)
    /\ UNCHANGED <<journal, network>>

-----------------------------------------------------------------------------
\* Outside the program: the executor that signs and broadcasts, and the chain

\* The operations whose intents have been prepared.
Prepared ==
    {ExpectedOperations[i] :
        i \in 1 .. Len(journal.receipts) + (IF journal.phase \in PreparedPhases THEN 1 ELSE 0)}

Resubmissions ==
    LET broadcast == {t \in Tx : txs[t].op # "none"}
    IN Cardinality(broadcast) - Cardinality({txs[t].op : t \in broadcast})

Broadcast(t) ==
    /\ journal # NoState
    /\ txs[t].status = "unsent"
    /\ \E op \in Prepared :
          txs' = [txs EXCEPT ![t].op = op, ![t].status = "pending",
                             ![t].job = IF op = "create_job" THEN t ELSE journal.job]
    /\ Resubmissions' <= MaxResubmissions
    /\ UNCHANGED <<journal, commands, chain, fork>>

\* The contracts let each step of a job's lifecycle succeed once, and a budget be set
\* again until the job is funded; any transaction may also revert.
Succeeds(t) ==
    LET done(op) == Done(op, txs[t].job, Height)
    IN CASE txs[t].op = "create_job"   -> TRUE
         [] txs[t].op = "register_job" -> done("create_job") /\ ~done("register_job")
         [] txs[t].op = "set_budget"   -> done("create_job") /\ ~done("fund")
         [] txs[t].op = "fund"         -> done("set_budget") /\ ~done("fund")

\* A block with at most one of the pending transactions.
MineBlock ==
    /\ Height < MaxHeight
    /\ chain' = Append(chain, fork)
    /\ \/ UNCHANGED txs
       \/ \E t \in Tx :
             /\ txs[t].status = "pending"
             /\ \E status \in {"success", "reverted"} :
                   /\ status = "success" => Succeeds(t)
                   /\ txs' = [txs EXCEPT ![t].status = status, ![t].num = Height + 1,
                                         ![t].fork = fork]
    /\ UNCHANGED <<journal, commands, fork>>

\* Another fork takes over, no deeper than the confirmation depth.  Transactions of the
\* abandoned blocks are pending again.
Reorganize ==
    /\ fork < MaxForks
    /\ fork' = fork + 1
    /\ \E depth \in 1 .. ConfirmationDepth :
          /\ chain' = [n \in 1 .. Height |-> IF n > Height - depth THEN fork' ELSE chain[n]]
          /\ txs' = [t \in Tx |->
                        IF txs[t].num > Height - depth
                        THEN [txs[t] EXCEPT !.status = "pending", !.num = 0, !.fork = 0]
                        ELSE txs[t]]
    /\ UNCHANGED <<journal, commands>>

-----------------------------------------------------------------------------
Command(c) ==
    \/ PrepareCreate(c) \/ Bootstrap(c) \/ PrepareNext(c) \/ BroadcastUnknown(c)
    \/ Reconcile(c) \/ PersistSubmission(c) \/ FetchReceipt(c) \/ CheckReceipt(c)
    \/ Persist(c)

Next ==
    \/ \E c \in Cmd : Command(c) \/ Fail(c)
    \/ \E t \in Tx : Broadcast(t)
    \/ MineBlock
    \/ Reorganize

Spec == Init /\ [][Next]_vars

\* A command that was started goes on, blocks are mined, and the operator runs reconcile
\* as long as a submission is recorded.
Carries(c) ==
    Bootstrap(c) \/ PersistSubmission(c) \/ FetchReceipt(c) \/ CheckReceipt(c) \/ Persist(c)

ReconcilesAgain(c) == Reconcile(c) /\ journal.submission # NoTx

Fairness ==
    /\ \A c \in Cmd : WF_vars(Carries(c)) /\ WF_vars(ReconcilesAgain(c))
    /\ WF_vars(MineBlock)

FairSpec == Spec /\ Fairness

-----------------------------------------------------------------------------
\* Properties

\* Two modules decide what a legal generation is: whatever state.ts derives, under any
\* interleaving and any reorganization, satisfies the schema and the integrity checks,
\* and is a transition the store accepts.  A command never fails for that reason.
DraftsAreAccepted ==
    \A c \in Cmd :
        /\ pc[c] = "bootstrap" => Valid(draft[c])
        /\ pc[c] \in {"persist", "persistSubmission"} =>
              /\ Valid(draft[c])
              /\ draft[c] = read[c] \/ ChildTransition(read[c], draft[c])

\* The journal is never ahead of the chain: every receipt it holds is that of a
\* successful transaction of the journal's own job in a block that is canonical now, and
\* an evidence of a revert is canonical too.
JournalIsOnChain ==
    /\ \A i \in 1 .. Len(journal.receipts) :
          LET r == journal.receipts[i]
          IN /\ txs[r.tx].status = "success"
             /\ txs[r.tx].op = ExpectedOperations[i] /\ txs[r.tx].job = journal.job
             /\ txs[r.tx].num = r.num /\ chain[r.num] = r.fork
    /\ journal.observed = "reverted" => txs[journal.submission].status = "reverted"

\* Unless a hash is missing, the cleanup duties in the journal are those of the job it
\* knows: an open job must be rejected, a funded one refunded, and an aborted activation
\* has created none.  A submission recorded after a missing hash keeps the empty list
\* until it is resolved.
CleanupMatchesJob ==
    journal.condition \in {"ready", "cleanup_required", "aborted"} =>
        /\ journal.cleanup = "none"   => journal.job = NoTx
        /\ journal.phase = "FUNDED_CONFIRMED" => journal.cleanup = "refund"
        /\ journal.cleanup = "reject" => Done("create_job", journal.job, Height)
        /\ journal.cleanup = "refund" => Done("fund", journal.job, Height)

\* The quote bounds the whole lifecycle: nothing is confirmed that was mined after it
\* expired, and no funding that was mined after its own preview did.
ConfirmedInTime ==
    \A i \in 1 .. Len(journal.receipts) :
        /\ txs[journal.receipts[i].tx].num <= QuoteExpiresAt
        /\ i = 4 => txs[journal.receipts[i].tx].num <= journal.validUntil

\* What a generation says is final once it is stored: receipts, job and preview stay,
\* a recorded hash stays until its own receipt settles it, a terminal generation is the
\* last one, and an intent whose broadcast is in doubt waits for its hash.
HistoryIsFinal ==
    [][journal # NoState /\ journal' # journal =>
        /\ journal.condition \notin Terminal
        /\ Extends(journal, journal')
        /\ journal.condition = "broadcast_unknown" =>
              journal'.phase = journal.phase /\ journal'.condition = "reconcile_required"
        /\ journal.submission # NoTx =>
              \/ journal'.submission = journal.submission
              \/ /\ Len(journal'.receipts) > 0
                 /\ journal'.receipts[Len(journal'.receipts)].tx = journal.submission]_vars

\* A receipt that can settle the recorded submission: final, for the right intent, and
\* in time.
Settles(t) ==
    LET r == [num |-> txs[t].num, fork |-> txs[t].fork, status |-> txs[t].status]
    IN /\ journal.submission = t /\ journal.condition = "reconcile_required"
       /\ r.status \in {"success", "reverted"}
       /\ Canonical(r) /\ Deep(r) /\ MatchesIntent(t, journal)
       /\ IF r.status = "success" THEN MayConfirm(journal, r) ELSE MayRevert(journal, r)

\* Such a submission is eventually settled, whatever other commands store meanwhile and
\* even if the process that recorded it died before it looked at the chain.
SubmissionsAreSettled == \A t \in Tx : Settles(t) ~> journal.condition # "reconcile_required"
=============================================================================
