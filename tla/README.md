# A formal model of MandateX

MandateX evaluates, quotes and (off-line, never signing) prepares the hiring of
autonomous agents. Most of the code validates documents: but it does so in programs that
have a clock each, against a chain that moves between any two reads, over a network that
may fail, and with documents that are signed by one program and judged by another. The
parts that keep state besides (a quote is consumed once, an activation has one journal, a
funded job is delivered once, a revoked key stays revoked) are where a wrong answer costs
money. This directory specifies the system in TLA+, checks it with TLC on small instances
and proves the central results for every instance with TLAPS.

Paths below are relative to `src/`; `ASV` is `tools/agent-supply-verifier/src`, `CORE`
`tools/marketplace-core/src`, `SVC` `tools/marketplace-service/src`, `AG`
`agents/mandaterebalance/app/agent/src`, `API` and `UI` `apps/marketplace-api/src` and
`apps/marketplace-ui/src`.

## The system

| Component | State it keeps | Operations | What makes it hard | What makes it correct |
|---|---|---|---|---|
| Quote replay protection (`ASV/quotes/replay.ts`, `secure-files.ts`) | one marker file per quote, temporary files, a directory | claim, claimActivation, inspectActivation | processes race on names; kills, I/O errors and power loss between system calls | one winner; an answer is durable and final; what a dead call left is recovered |
| Activation store (`ASV/activation/store.ts`) | artifacts, a head file, a lock file | bootstrap, persist | a lock file with takeover from dead owners; check and rename are separate | the head is a compare-and-swap register starting at the replay marker |
| Activation state machine (`activation/state.ts`, `schema.ts`) | generations: phase, receipts, pending hash, deadlines, cleanup duties | prepare, record submission, unknown broadcast, reconcile | two modules decide what is a legal generation; long protocol | generations are accepted, final, and describe the chain |
| Observation and commands (`activation/rpc.ts`, `reconcile.ts`, `deployment.ts`, `activation-cli.ts`) | none of their own | prepare-create, prepare-next, reconcile, broadcast-unknown | reads are several RPC calls apart; reorganizations; a reconcile writes twice | nothing is recorded that is not final on the canonical chain |
| Seller delivery (`AG/sellerCore.ts`, `signing.ts`) | in-flight set, background tasks | notify, sweep, deliver | promises that time out go on as orphans; stale verifications; restarts | no second delivery; settled means so; a funded job is delivered |
| Trust controller (`CORE/category-trust-controller.ts`) | durable trust state (CAS), single-use permits | prepare, commit, withPermit | lost CAS responses; permits checked before a revision fence | no permit is used under an advanced state, or twice |
| Category issuance (`SVC/category-successor-orchestrator.ts`) | idempotency reservations, records | reserve, sign, fence, commit, release | lost commit responses; dead reservations; snapshot fences | one record per request; no signature past a revocation |
| Activation offer (`ASV/activation/offer.ts`, `capture.ts`) | none of its own | prepare-create: preview, deployment, intent, bootstrap | it spends a quote in the last gate of a validation; another call may win | nothing is spent in vain, what is printed is in time and as asked |
| Trust bundle (`CORE/trust-bundle.ts`) | generation, revocation epochs, tombstones | verify the next bundle, resolve a tuple | long sequences of legal bundles; two lifecycles and the edges between them | nothing revoked comes back; what may issue verifies |
| Category targets and execution (`ASV/category`, `tools/category-adapters`) | one opaque snapshot per run; bindings | observe, execute, bind | everything must be read at one block; arithmetic at the edges of a word | evidence of one canonical block, judged exactly |
| Candidate identity and category quote (`ASV/sources/erc8004.ts`, `ASV/category/identity.ts`, `quote.ts`) | none | capture, challenge, verify | lagging nodes, an await in the middle of a verification | an owner of one block; an answer to this request, in time |
| Quote validation and preview (`ASV/quotes`, `ASV/preview`) | none | attempt, preview, claim | windows that close during an await; two blocks that must be on one branch | valid means in time, and spent once |
| Evaluation, ranking, issuers (`CORE/evaluate.ts`, `ranking.ts`, `category-*.ts`, `SVC/issuer.ts`, `category-issuer.ts`) | none | attest, verify, report, rank | issuer and judge have clocks of their own | they agree at every boundary, verdicts only age |
| Rebalancing agent (`AG/rebalance.ts`) | none | prepare a quote, deliver | two reads of a moving position | evidence of one block, no answer past its end |
| Supply verification (`ASV/verify.ts`, `sources`, `probes`) | a run over a manifest | verify a candidate, stop | outages, rate limits, silence | no verdict without the scan and the chain, an owner of its block, a run cut short is not complete |
| Transport (`ASV/transport/http.ts`) | one exchange, its timers and sockets | request, abort | deadline against last byte; the caller keeps the route object | exactly one outcome; what is sent was checked |
| Services (`apps/*`) | phase of a process, requests in flight | boot, drain, readiness, evaluate | two passes over a set; three timeouts in a row | every attestation accounted for; the API's drain ends, the interface's unless a client stalls |
| Seller transport, deployment, fixtures, research data | none that lasts | wiring, scripts, data | - | - |

How they interact: the commands of `activation-cli.ts` read the journal's head from the
store, ask the chain through `rpc.ts`, let `state.ts` derive the next generation and hand
it back to the store; the store consumes the quote through the replay store when it
installs the first generation. The seller agent meets the same commerce contract from the
provider's side; it shares no files with the verifier. The category services call the
verifier's category modules and Core, and keep their durable state in stores that the
repository only declares as interfaces. An attestation is a document without state: the
verifier service signs it, the marketplace API hands it to the core, alone and in a set,
as often as the interface is asked to.

## The modules

| Module | Models | Kind |
|---|---|---|
| `ReplayClaim` | what a replay store promises: one atomic claim | abstract specification |
| `ReplayStore` | `quotes/replay.ts`, one system call at a time | detailed, implements `ReplayClaim` |
| `JournalHead` | what the activation store promises: a compare-and-swap register | abstract specification |
| `ActivationStore` | `activation/store.ts`, over `ReplayClaim`'s atomic marker | detailed, implements `JournalHead` |
| `ActivationJournal` | `state.ts`, `schema.ts`, the transition policy of `store.ts`, `rpc.ts`, `reconcile.ts` and the commands, over `JournalHead`'s register and a chain | composition |
| `SellerDelivery` | `sellerCore.ts` over `signing.ts`, and the commerce contract's side of it | component |
| `TrustController` | `CORE/category-trust-controller.ts` over its external state store | component |
| `CategoryIssuance` | `issue` of `SVC/category-successor-orchestrator.ts` and the opaque snapshot of `ASV/category/rpc.ts`, over `TrustController` and the external record store | composition |
| `ArtifactStaging` | the staging of one snapshot's artifacts, one system call at a time | detailed, below `ActivationStore` |
| `ActivationOffer` | `offer.ts`: from a passing preview through the claim to the installation | composition, over the promises of store and marker |
| `TrustBundle` | `trust-bundle.ts`: the life of signer keys, releases, edges and tombstones | component |
| `TransportPolicy` | which route and body may leave | operators |
| `HttpExchange` | one request of `transport/http.ts`, over `TransportPolicy` | component |
| `AtomicTarget` | what an observation promises: all of it read at one instant | abstract specification |
| `CategoryTarget` | `category/target.ts` and the snapshots of `category/rpc.ts` | detailed, implements `AtomicTarget` |
| `CategoryAdapters` | the four adapters and the artifact's rules, against exact definitions | operators |
| `CategoryExecution` | `category/execute.ts`, over `CategoryAdapters` | component |
| `CandidateIdentity` | `sources/erc8004.ts` and `category/identity.ts` | component |
| `CategoryQuote` | `category/quote.ts`, over `CandidateIdentity` | composition |
| `SupplyVerification` | `verify.ts` and its three sources, over `CandidateIdentity` | composition |
| `RebalanceRange` | the tick arithmetic that four programs repeat | operators |
| `ExecutionPreview` | `ASV/preview`, over `RebalanceRange` | component |
| `RebalanceAgent` | `AG/rebalance.ts`, over `RebalanceRange` | component |
| `TrustedQuote` | `quotes/validate.ts` and `protocol.ts` with the preview's gate | component, implements `ReplayClaim` per quote |
| `MarketplaceEvaluation` | `SVC/issuer.ts`, `CORE/evaluate.ts`, `attestation.ts`, `ranking.ts` | two programs |
| `Comparison` | one `POST /v1/evaluate` from the page and back, over `MarketplaceEvaluation` | composition |
| `CategoryCondition` | the older condition attestation, from `SVC/category-issuer.ts` to the core's receipt | two programs |
| `CategoryReport` | the successor attestation and the report made of it | two programs |
| `Services` | boot, drain and readiness of verifier, API and interface | composition |
| `ReplayStore_proofs`, `ActivationStore_proofs`, `ActivationJournal_proofs`, `SellerDelivery_proofs`, `CategoryIssuance_proofs`, `TrustBundle_proofs`, `ExecutionPreview_proofs`, `ActivationOffer_proofs` | theorems | proofs |
| `MC...` | small instances, one or several scenes each, with symmetry where the values are interchangeable | TLC |

The layers are composed by their promises: `ReplayStore` is shown to implement the atomic
claim, `ActivationStore` uses the atomic claim and is shown to implement the
compare-and-swap register, and `ActivationJournal` uses that register. `CategoryIssuance`
extends `TrustController`: a workflow's steps begin and end the controller's calls, and the
controller's own steps interleave with those of everybody else. Definitions whose
comment begins with *Mutant* are faulty variants of the definition after them; nothing
refers to them, and each breaks a property when put in its place.

### ReplayStore

`pc[op]` is where a call stands between two system calls; a call is killed anywhere
(`Crash`), a system call fails (`IoError`), the machine loses power (`PowerLoss`). A file
is named after the call that created it: `temps` and `marker` are directory entries,
`written` the files whose content was written, and the variables with `disk` in front what
a power loss preserves (an unsynced entry or content survives or not, nondeterministically).
The publication is create, write, sync, link, check, unlink, sync directory, read back;
`StatMarker` to `SyncRecovered` are the recovery of an interrupted publication. `seen`
holds what a call read earlier and uses later. An answer is what the three entry points
make of the marker they read back (`ResultOf`).

### ActivationStore

`lock`, `head`, `marker` and `artifacts` are the files. A lock file carries an inode and
an owner: the code recognizes its own lock by the inode number, so numbers may be reused
once nobody holds the file. `StatLock`, `ReadLock`, `JudgeLock`, `QuarantineLock` and
`VerifyQuarantine` are the takeover from a dead owner, each a system call. A call ends
with a result or an error code, and releases a lock it still holds. A call stages its
snapshot's files in steps: it creates them (`partial`), writes them (`artifacts`) and syncs
them, or finds them there, compares their contents and takes them over as they are.
`unsynced` are complete files that nobody has synced: a power loss may take or cut them.
`adopted` and `cut` record, for the properties, which snapshots were taken over in that state
and which lost their files.

### ActivationJournal

`journal` is the head; `read[c]` and `draft[c]` are the generation a command works on and
the child it is about to store. `RecordSubmission`, `Confirmed`, `Reverted`, `Observed`
and so on are the functions of `state.ts`; `Valid`, `ChildTransition` and the operators it
is made of are the checks of `schema.ts` and `store.ts`. A reconcile stores the recorded
submission, fetches the receipt and checks it in a later step, since the code reads
receipt, block, depth and job in separate calls. Blocks stand for time. The chain mines or
reverts what is pending, and may abandon its last blocks; transactions are broadcast by
an executor outside the program, as often as it likes.

### SellerDelivery

An action is the code between two awaits, or the moment at which the other side answers.
`inflight` is the set of the code; a delivery is `tracked` while `runJob` awaits it, and an
orphan once its deadline fired. A reply is read at one moment and acted on at a later one,
so everything may happen in between. `settled` records what `runJob` logged as terminal;
it is not a variable of the code, only the properties read it. The wallet's ability to
submit at all, and which jobs are done by the language model (whose call the deadline
aborts), are chosen at the start.

### TrustController

`trust` is the durable state, named by the bundle it was derived from: the verification
makes the state a function of the bundle, since every revoked fingerprint must be in the
bundle's own signed set. `call[c]` is where a call stands between two answers of the store.
`Load`, `LandSwap` or `LoseSwap`, `Reload` and `Confirm` are `verifyAndCommit`; `Verifies`
keeps of the verification what concerns the prior state: generation, revocation epoch,
revoked keys. Expiry, malformed bundles and failing reads are the choice to fail that every
read has. `AssertPermit` and `EnterFence` are the two halves of `withPermit`; `consumed` is
the set `consumedPermits`. The store is declared as an interface only, and behaves as its
comment demands: `compareAndSwap` is atomic and kept out while an operation holds a
revision. A swap whose answer was lost may land later (`late`).

### CategoryIssuance

`issue[w]` is the attempt a workflow makes: its phase is the code between two awaits,
`block` the block it has pinned. An attempt has one number, which stands for the token of
its reservation and for the attestation identifier it would draw. All attempts are for one
request and one quote, which leaves the bundle and the block in the idempotency key: the
identity artifact in it names the block. `store` is the external record store, which keeps
what the comment on its interface promises: reserve, commit and release are atomic, a
release is conditional on the token, and a commit is terminal. `inFlight` are commits
that threw and may land later. `FailFenced` and `FailUnclaimed` are every reason to stop;
`Release` is the catch at the end of `issue`. `answered` and `abandoned` are not variables
of the code, only the properties read them.

### ArtifactStaging

The state file and the report file of one snapshot, their directories, and every call that
stages them: open exclusively, write, sync, or read what is there. What a power loss keeps
of names and of contents are separate. `ActivationStore` has one file for the two, without
directories, in the same order of create, write, sync and take over.

### ActivationOffer

`call[c]` is one prepare-create between a passing preview and its end, or a plain `quote`
command. `Prepare` is the callback `replayCommit` up to the bootstrap: price, deployment,
windows, intent. `Inspect`, `Claim`, `Recover` and `Install` are `bootstrapActivationSnapshot`
with the marker and the head as the atomic objects that `ReplayClaim` and `JournalHead`
promise; a snapshot is named by the call that made it, so that a winner is a call. A block's
number is its time. Whatever fails once the claim was asked for is `inconclusive`.

### TrustBundle

`durable` is the state of the last accepted bundle. A key and a release have the same
lifecycle, so both are *materials*; an edge joins a key to a release for a period. A draft is
what the control plane may sign next: the accepted bundle with something changed,
legally or not. `Accept` is the whole of `verifyMarketplaceTrustBundle`: the bundle by
itself and then against its predecessor. `Verifies` is the resolution of an attestation's
tuple.

### TransportPolicy and HttpExchange

`RouteAllowed` and the body rules say what may be sent of a route, every purpose by the
contracts, block and calldata it approved. An action of `HttpExchange` is one turn of the
event loop: the copy of the route and its check are one turn, the resolver and the response
answer in later ones, the caller may change its route object at any moment, and a timer
that is due fires before the clock moves on.

### CategoryTarget, CategoryAdapters, CategoryExecution

`call[c]` is an observation between two remote reads, and the chain grows or changes its
branch between any two. `AtomicTarget` is instantiated with the block that was read. A
snapshot is opaque: it may end before the observation that was asked in it. The adapters are
functions of return data; word width, bounds of ticks and scales are constants so that
signs, sentinels and overflows occur in three or four words. An execution asks all reads
of an adapter together and judges them when the last has answered; a result may be bound
to a mandate once.

### CandidateIdentity, CategoryQuote, SupplyVerification

A capture reads head, code, owner and the owner's code at one hash, with a look by number
before and after; an answer may come from a backend that lags. `CategoryQuote` opens the
challenge's window, captures, asks the endpoint (which answers with any envelope it has) and
verifies with an await when the owner is a contract. `SupplyVerification` walks a manifest
through the scan, the chain and the card while the host's network comes and goes.

### RebalanceRange, ExecutionPreview, RebalanceAgent

The tick arithmetic is written once, for any spacing, and stands for its four copies. The
preview reads the block the agent signed and a fresh one, compares, simulates, and looks
once more; the agent's two reads have one retry. A block says one of a few things of the pool
and the position.

### TrustedQuote, MarketplaceEvaluation, Comparison

An attempt takes the clock three times, and a quote is decided on the last. The agent that
dates a quote has its own clock, and so have the issuer of an attestation and the core: the
skew is a constant. `Evaluate` of `Comparison` asks the core about each attestation alone
and then about the set; seconds pass in between.

### CategoryCondition, CategoryReport

An issuer signs under its release, at its own clock; the core is shown the document with the
request, identity, target and reads that the caller brings along, its own or another's.

### Services

Readiness is asked of the API, or of the interface that asks the API, which probes the
verifier: three timeouts in a row. The API and the interface are told to stop, drain, and are
started again; a client may stall. The API ends what is left after a grace period (`Force`);
the interface has no timer and closes when its last client is gone (`CloseUi`). The verifier
drains under a timer like the API's and is only modelled as the one that answers or does not.

## The runs

| Run | Instances | Question | Result |
|---|---|---|---|
| `replay` | `replay`: 3 calls of any kind, 2 heads, 1 I/O error, 1 power loss, kills anywhere; `staging`: 3 calls, 2 mishaps | one winner, durable answers, complete markers, recovery, refinement of `ReplayClaim`; artifacts whole for whoever staged them | holds |
| `replay_rejection` | 2 claims, nothing fails | are both of two concurrent claims answered? | violated: finding 1 |
| `store` | 3 calls, 2 terms, 3 inodes, 2 mishaps | one stored child, whole snapshots (but for files taken over unsynced), start at the marker, a lone call stores, refinement of `JournalHead` | holds |
| `store_lost_commit` | 3 calls, nothing fails | does a stored snapshot stay in the journal? | violated: finding 2 |
| `store_wedged_lock` | 2 calls, 1 mishap | does a kill leave a journal that the next call can use? | violated: finding 3 |
| `journal` | 2 commands; `lifecycle`: 4 steps, 4 transactions, 7 blocks, a quote until the 6th, reverts; `reorg`: 3 transactions, depth 1, 5 blocks, a quote until the 3rd, 1 reorganization, 1 resubmission | accepted generations, journal on the canonical chain, finality, cleanup duties, deadlines | holds |
| `seller` | `seller`: 2 jobs (one not signed), 2 requests with their sweeps, 1 mishap; `agent`, `times`: the rebalancing agent under each of its policies, and under each order of a mandate's ends | no second delivery, settled is true, only signed work; the agent signs and delivers what it can stand for | holds |
| `issuance` | `issuance`: 2 workflows, a bundle and its successor that revokes their key, 2 blocks, 3 attempts, 1 mishap; `identity`, `quote`, `replay`; `report`, `mixed`; `condition`, `bound` | one attestation per key, none under a superseded state, sound quotes, live verdicts | holds |
| `offer` | `offer`: 3 calls, 2 sets of options; `windows`, `race`: one attempt under every window, and two attempts for the quotes of one agent | nothing printed late or not as asked, nothing spent in vain or twice | holds |
| `trust` | `bundle`: 3 keys, 1 release, so that one key is prepared while another retires; `windows`, `order`, `comparison`; `candidate`, `run` | revocation is final, rotation stays possible, fair evaluations, honest reports on the supply | holds |
| `preview` | `preview`, `ticks`; `target`, `shapes`; `snapshots`, `judgement`, `verdicts`, `binding` | evidence of one chain and block, ranges that agree, verdicts that are true of what was read | holds |
| `progress` | `journal`, `seller`, `reads`, `services`, `interface`, `exchange`, `policy` | what must happen at last, and what timers and drains must never do | holds |

**Scenes.** Where components answer to one question but share no state, one MC module
holds an instance of each over variables of its own. `scene`, chosen at the start and never
changed, names the one that runs; the variables of the others rest at `None`, so a state
space is the sum of its scenes and not their product, and every property says for which
scene it speaks. A run is a question about the system; its scenes are the places where the
question arises.

`CHECK_DEADLOCK FALSE` is said where calls are finitely many or the chain of an instance
ends, so that the system does stop: everywhere but in `seller`, whose agents serve for ever.

**The bounds.** A race needs two actors; a third is there because the interesting
recoveries are a third party's: a claim that recovers what a killed one left while a live
one runs, or a lock that is taken between the judgement of a dead lock and its removal.
Three inode numbers let a number be freed and reused while another is in use. One power
loss or kill suffices to leave every intermediate state behind, and the remaining calls meet
it. In the journal the four operations differ only by their tables, so two of them, with a
spare transaction, show the reorganizations and resubmissions, and `lifecycle` goes through
all four without them. A reorganization is at most as deep as the confirmation depth, which
is the assumption that depth stands for. In both scenes blocks are mined after the quote has
expired, so that a create may be mined too late, and a preview ends within the run. The seller's
jobs interact only through sweeps that list both, which two jobs show; two requests at once give
a verification that is older than the other request's delivery. The number of deliveries of one
job (`Slots`) exceeds the mishaps by one, so that its guard in `SpawnJobs` never refuses a
start. In `issuance` three attempts let a third one recover the record of a commit that landed
after a second one had reserved. Clocks are small numbers whose order is all that the code looks
at: every window is opened, met at its end and passed. Ticks and words have a few values on both
sides of every sign, sentinel and limit. Three keys and a release show every pair of lifecycles,
one key prepared while another retires among them. What the theorems below state does not depend
on any of these bounds.

**Fairness** is stated in `progress` only, and weak throughout. Journal: a command that was
started goes on (the code has no waits that another command could block), blocks are mined,
and the operator runs `reconcile` as long as a submission is recorded; the command line has
no retry of its own, so without the last assumption nothing is promised. Seller: awaited
calls answer unless they hang, a timer fires (the only thing assumed of a hung call),
transactions are mined, and notifications keep coming: sweeps run only on notifications, and
the file's header leaves a periodic poller to a later version. Agent: the read that was begun
is carried on. Services and exchange: time passes, timers fire, and a process that drains
closes what is idle and, once nothing is left, itself (the interface as well, `CloseUi`);
nothing is assumed of a client or of a remote host, so the interface's drain is only promised
as long as no client of it stalls. Kills, failures and
hung calls are bounded, as no property survives if every attempt is killed. A job that is not
funded yet is taken to be refused only for now; if the library refused such a job
permanently, its slot would stay taken.

### The properties

- `AnsweredClaimIsDurable`, `MarkerIsComplete`, `LoneCallRecovers`,
  `ImplementsReplayClaim`: a quote is consumed once and for good. `StagedArtifactsSurvive`:
  an artifact reported staged is whole and keeps its name, whoever created it; after a power
  loss only where the call itself wrote it.
- `JournalIsWhole`, `LoneCallStores`, `ImplementsJournalHead`: the files are one register.
  `JournalIsWhole` has three parts. `JournalStartsAtMarker` holds always.
  `NamedSnapshotsAreComplete` says that the files of the marker's snapshot are always complete,
  and those of the head's unless a call took them over before anybody had synced them and a
  power loss cut them afterwards; the code does not sync what it takes over, and such a journal
  has no way on (every later call ends with `HEAD_INTEGRITY_FAILED`, which `LoneCallStores`
  excepts as well). `AtMostOneStoredChild`, like the promises of `JournalHead`, holds until a
  live lock is taken away from its holder (finding 2).
- `DraftsAreAccepted`: the two modules that define legal generations agree.
  `JournalIsOnChain`, `HistoryIsFinal`, `CleanupMatchesJob`, `ConfirmedInTime`,
  `SubmissionsAreSettled`: the journal follows the chain and never has to take anything
  back.
- `DeliveredOnce`, `SettledIsRight`, `OnlySignedJobsAreWorked`, `FundedJobsAreDelivered`:
  the seller's memory is never wrong about a job, and loses none. `AgentIsHonest`: one block
  per receipt, tasks its own schema takes, deliveries that are still as quoted.
- `TrustNeverRollsBack`, `SignedUnderCurrentTrust`: a revocation is final, and effective
  for every signature that follows it. `OneAttestationPerKey`, `ReservationsAreOwned`: a
  retry is given what its key was given before, and no way out of an issuance forgets to
  give its reservation back. `QuotesAreSound`, `VerdictsAreLive`, `HandedOutLive`: quotes,
  reports and receipts hold exactly as long as all they rest on.
- `PrintedIsSound`, `SpentIsSound`: the offer. `ValidationsSpendOnce`, `SpendsAsPromised`:
  an attempt uses a quote as `ReplayClaim` lets it.
- `AcceptedIsSound` (`RevokedNeverReturns`, `AcceptedIsConsistent`, `ActiveTupleMayIssue`,
  `IssuedVerifies`, `OnlyActiveMaterialVerifies`), `IdentitiesArePermanent`: over every sequence
  of legal bundles. `EvaluationsAreFair`: judgements are of what is live, only age, and do not
  depend on the order. `SupplyIsHonest`: nothing is decided without the scan and the chain, an
  owner is that of the block he is given for, a run that was cut short is never called complete,
  and nobody is asked once the rate was limited. An endpoint that does not answer does count
  against its candidate, and as an answer of that source, whatever broke the connection.
- `PassIsOfBothStates`, `RangesAgree`, `ReadingsAreSound`, `ObservedForGood`: what is read
  at several blocks or in several calls is judged as one state.
- `RequestsAreSound`, `EveryWaitEnds`: what is sent was checked, as far as the code checks it
  (`SentReadsAreBound`: over a route that binds its reads, the code, storage or call of the
  approved contract, with the approved calldata where there is one, at the approved block; over
  `bsc-rpc`, a method of the list and no more); an answer is complete when it is taken; a
  readiness request that was taken is finished (`ReadinessFinishes`); and every wait has an end,
  except that of the interface for a client that stalls while it drains.

A property that has several parts names them; each part is a definition with a comment of
its own.

### Findings

1. **A concurrent claim may be rejected** (`ASV/quotes/replay.ts:646`). The claim that
   loses the link recovers the winner's publication and asserts that the temporary file it
   opened has two links, while the winner unlinks that file as its next step. The loser
   then throws `STATE_WRITE_FAILED`, where the tests expect "duplicate".
2. **A stored snapshot may be lost** (`ASV/activation/store.ts:1455`). The quarantine of a
   dead lock renames a path; the path may hold a live lock by then, and with a reused inode
   number the check before it does not notice. Two holders run at once.
3. **A kill may wedge a journal** (`ASV/activation/store.ts:1404`). A lock file that was
   created and never filled is neither waited for for long nor quarantined.

Divergences met while modelling, which no run shows:

- `CORE/category-trust-controller.ts:310`: `withPermit` checks that its permit is unused
  before it waits for the fence and not again inside; two concurrent uses of one permit both
  run, where a test calls permits single-use. The orchestrator uses each permit once.
- `CORE/trust-bundle.ts:1518`: the first bundle is not held against its own list of revoked
  keys, so one that lists its active signer is accepted (`FirstListsNoLiveKey`); nor are its
  tombstones held against its records (`FirstIsConsistent`), nor its production edges against
  the lifecycles of their ends (`FirstProductionIsActive`). `:958`: because of the last, an
  attestation dated before its key was activated is refused while the key is active and
  verifies once it retires, if the first bundle's edge reaches back that far. `AcceptedIsSound`
  is stated of a first bundle for which all three hold (`FirstIsClean`; in the run,
  `FirstRevoked = {}` and drafts that are well formed otherwise). `:1794`:
  after a key was retired no bundle verifies until its edge has ended. `:1840`: the table
  lets a retired key be revoked, the checks do not.
- `ASV/category/target.ts:847`: an observation may claim membership of a protocol, which
  the comment at line 302 excludes. `tools/category-adapters/src/yield.ts:75`: a huge share
  price makes the adapter throw, which its README excludes; the executor catches it.
- `API/core.ts:183`: an attestation that expires between the passes is reported as a fault
  of the set. `API/display.ts:260`: the view is sorted by a rounded score, not as the core
  ranked. `UI/api.ts:155`: the page looks for the error's code in the wrong place.
  `API/routes.ts:463`: a mandate that is no mandate is answered 422 and not 400. `:193`:
  readiness compares the verifier's key and not its policy.
- `ASV/transport/http.ts:1725`: an oversized body is reported as an aborted one. `:1583`: the
  resolver is awaited before any timer runs. `:686` and `:762`: a request of kind `bsc-rpc` is
  bound to its method only, not to a contract; `SentReadsAreBound` says no more of it.
- `ASV/probes/a2a.ts:240`: a card request that times out or whose connection breaks makes the
  candidate `UNAVAILABLE`, and the source counts as answered, whatever caused it; the
  verifier's ARCHITECTURE.md:101 says that an outage is never converted into `UNAVAILABLE`. The
  model follows the code (`Probe` answers "silence" for both), so an outage of the verifier's
  own host during that one request is reported against the candidate; `SupplyIsHonest` says
  what is left.
- `API/server.ts:3` says that a shutdown lets requests in flight finish; it ends them after 10
  seconds, where a request may take 15 to come in. `UI/server.ts:432` only calls
  `server.close()`: a client that stalls keeps the interface draining for ever, where the API
  and the verifier have a forced end.
- `ASV/activation/store.ts:1249`: an artifact that exists is compared and accepted without being
  synced. A call that is killed between its write and its sync, a second call that takes the
  artifact over and installs the head, and a power loss leave a head that names lost contents,
  after the second call reported "stored". That is why `StagedArtifactsSurvive` promises
  contents after a power loss only to the call that wrote them, and why
  `NamedSnapshotsAreComplete` excepts what was adopted and cut. `:1252`: an artifact that a kill
  cut short makes every later staging of its snapshot fail.
- `ASV/sources/8004scan.ts:153`: a 404 with a Retry-After header does not stop the run.

## The proofs

TLAPS proves what follows for every value of the constants that meets the named assumptions
of the modules. Each module states its inductive invariant, proves that every action keeps
it, and derives the theorems. None of the safety properties is inductive as it stands.

**`ReplayStore_proofs`**: `TypeCorrect`, `OneWinner`, `AnswersAreDurable`,
`CompleteMarkers`, `FinalConsumption` and `Refinement` (the specification implements
`ReplayClaim`), for any number of calls, heads, I/O errors and power losses. That an answered
claim is durable says nothing of a claim about to answer. The invariant adds where each call
stands: the marker's name is only given when nobody has it, and a power loss keeps what was
synced (`SyncedMarkerIsThere`); a call past its directory sync found a marker there when it
synced, so that marker is durable (`PastSyncIsDurable`), and until then the name is taken
(`PublishedIsTaken`); only the call whose file is the marker has the status "created"
(`StatusFollowsPC`); contents are synced before the link (`ContentsAreSynced`). The
refinement maps the claim to the step that links, and every answer to that of the abstract
claim.
`LoneCallsRecover` follows one call through whatever earlier ones left: while it runs alone
nobody else moves a name (`LoneCallIsAlone`), so a marker or a file of its own that it has
looked up is still there when it acts on it, and its only way out without an answer is a
marker of the other version (`LoneCallIsOnTrack`). `ArtifactsSurvive` is about the files a
snapshot is staged in: a name is reported only after its directory was synced
(`NamesAreOfFiles`), contents are synced by the call that wrote them (`OwnFilesAreFilled`),
and a call that adopts a file has read it whole (`VerifiedIsWhole`).

**`ActivationStore_proofs`**: `TypeCorrect`, `WholeJournal`, `Refinement` (the
specification implements `JournalHead`) and `LoneCallsStore`, for any number of calls,
inodes, terms and mishaps. A name reaches the head or the marker only after its files were
written and then synced, or taken over as they were; what was synced no power loss takes, and
what was taken over unsynced is recorded as adopted, which is the exception that
`NamedSnapshotsAreComplete` makes. A file that a kill cut short belongs to a snapshot that
nobody can stage any more (`FilesAreWhole`, `Authorized`). Until a live lock is taken away, a
call past the creation of its lock file owns the file at the path (`LockIsHeld`), so two calls
are never there together and what one of them read under its lock still holds when it acts on it
(`ReadIsCurrent`). The head then moves only from a snapshot to its child, and each snapshot gets
one child (`JournalIsChain`); the directory lags behind by one unreported move at most
(`DiskFollows`), which is what the refinement needs at a power loss. A call that runs alone
needs none of this: nobody else takes a step while it runs.

**`ActivationJournal_proofs`**: `TypeCorrect`, `LegalDrafts`, `OnChainForGood`, `InTime`,
`DutiesMatch` and `FinalHistory`, for any number of commands, transactions, blocks,
reorganizations and resubmissions, any confirmation depth and any windows; the chain must be
able to grow past the confirmation depth. A generation is sound when it passes the checks of
`schema.ts` and `state.ts`, has the duties of its phase, and what it says of the chain is
final: it was read at the confirmation depth, which no reorganization reaches. The head, what
a command has read (`ReadIsPast`), what it is about to store (`Legal`) and the receipt it
has fetched (`FetchedIsTrue`) are all sound. A fetched receipt is still that of its
transaction as long as its block is canonical, because the blocks of a fork are never mined
again (`ChainIsKept`). And a receipt never lies below an earlier one, since the intent of a
step is known to nobody before the step before it was confirmed (`IntentsFollowReceipts`).

**`SellerDelivery_proofs`**: `TypeCorrect`, `NoSecondDelivery`, `SettledTruthfully` and
`OnlySignedWork`, for any jobs, requests and mishaps. A job is in flight exactly while a
delivery is awaited or once it is settled (`InflightIsExact`), so the gate of `spawnJob` sees
all it has to. And an answer that was read earlier is still right when it is used
(`RepliesStayTrue`, `SignedPastTheGate`), because what it claims cannot turn back: a
signature stays, a mined submission stays, and a job refused for good never becomes
deliverable again.
Of `RebalanceAgent` it proves `EveryAnswerIsHonest`, for any mandates, position, spacing, chain,
reorganizations and clock, if the position is aligned to the spacing and the chain may grow past
the depth, and `EveryScenesAgentIsHonest`, the same of the scenes. What a read has seen is of the
block it pinned, whatever became of the chain (`ReadingInv`); what was quoted was offered for its
own evidence, in a range the schema takes (`WellQuoted`, from the arithmetic of ranges); and an
answer is what the rules say of the evidence it names, at its second (`WellAnswered`).

**`CategoryIssuance_proofs`**: `TypeCorrect`, `OneAttestation`, `ReservationsOwned`,
`NoRollback` and `SignedUnderTrust`, for any bundles, callers, blocks and bounds, if
generations and epochs are numbers and no bundle names its own active signer as revoked. Of
the controller: a swap on its way, late or not, was verified against the very state it
expects (`SwapsAdvance`), so it may land at any time; the fence is held exactly by the call
that is inside (`FenceIsHeld`), and nothing lands meanwhile, so the state is still the
permit's (`FenceKeepsRevision`). Of the issuer: a workflow is in a phase that signs or commits
only inside the fence (`FencedIsInside`), and a record that is being recovered is final
(`RecoveredIsFinal`). Each action is first shown to keep the controller's layer and to throw
nobody else out of the fence (`InsideStays`); that is all the issuer's layer needs.
Of identities and quotes it proves `EveryAcceptedQuoteIsSound`, for any
captures, chain, reorganizations, requests and limits, if who may own a candidate may sign
and a challenge is not mistaken for none. What a capture has read was said by one block that
was deep when it was named (`Knows`), and a block says the same for ever. A workflow holds
the window it opened and, from the challenge on, an identity that is over and dated by its
snapshot (`Anchored`), so what an answer was found to match it still matches, and only the
clock has to be read again (`Holds`). `HonestAnswerFits` is proved by the answer itself: one
that is made now and lapses in a second.
Of reports and conditions it proves `EveryReportIsLive` and `EveryReceiptIsLive`, for any
requests, anchors, terms, releases, clocks and limits, if what lives the least lifetime does not
outlive the greatest (30 and 300 seconds). `EveryQuoteIsSound`, `EveryVerdictIsLive` and
`EveryHandoverIsLive` say the same of the scenes that the run goes through. What was signed is
of one candidate and one block (`WellSigned`); what is issued was accepted at some second, with
the very evidence it is of (`WellIssued`). Of all that acceptance rests on, only the windows
depend on the second, and the boundary of a report is the least of their ends (`BoundaryIs`): so
what was accepted once is accepted at every second from there to the boundary, and the two ways
to compute the boundary agree because the agent's acceptance never outlives its request. An
attestation is of its own request, which its deployment serves, and in order
(`WellAttested`); a receipt is of what verified when it was given (`WellReceived`).

**`ActivationOffer_proofs`**: `EveryPrintedIsSound` and `EverySpentIsSound`, and their
parts, for any number of calls, quotes and options and any windows. The invariant says what
a call still knows at each of its steps: past its preparation its quote is one that can be
activated and was open when the deployment was read (`Prepared`), and so it is for whoever
won the quote's marker (`Won`); past the claim a call goes on with the snapshot the marker
names (`Bound`), and past the recovery that snapshot has its own terms and was open at its
own deployment (`Checked`).
Of `TrustedQuote` it proves `EveryValidationIsSound`, `EveryValidationSpendsOnce` and
`EveryClaimIsAsPromised` (each quote's record in the store is used as `ReplayClaim` lets its
callers), for any attempts, agents and windows. What an attempt knows at each of its awaits
(`Knows`) is a fact about times that lie behind it, which no tick takes back: what was not
of the future at the preflight is not now (`NotOfTheFuture`), the first look came after the
quote was made, and what was decided was in time when it was. A quote is spent under its own
number by an attempt that got as far as its claim (`SpentByHolder`). The proof also found
that an honest quote is refused, by an operator whose estimate is dated after it, within the
tolerance of the preflight: `HonestIsNotRefused` now says so, and the instance has such an
operator.

**`TrustBundle_proofs`**: `TypeCorrect`, `EveryAcceptedIsSound` and its parts,
`OnlyActiveVerifies` and `PermanentIdentities`, for any keys, releases, clocks and bundles the
root may sign. What one verification checks of a bundle alone stays true of the accepted
bundle (`Sound`). What it checks against the predecessor carries three facts from bundle to
bundle: every key ever called revoked is on the list (`RevokedIsListed`), an id that was once
active is buried or past activation for ever (`PastActivation`), and a production edge starts
after the activation of its ends (`EdgesSinceActivation`). The first bundle has no
predecessor to be held against, and the code does not ask of it what it asks of a successor.
Each theorem assumes the one thing of the first bundle that it rests on: `RevokedForGood`
`FirstListsNoLiveKey`, `OnlyActiveVerifies` `FirstProductionIsActive`, `ConsistentForEver`
`FirstIsConsistent`, and `EveryAcceptedIsSound`, which joins them, all three (`FirstIsClean`);
`ActivePairIssues`, `IssuedIsVerified` and `PermanentIdentities` assume nothing.

Of `MarketplaceEvaluation` and `Comparison` it proves `EveryEvaluationIsFair`, for any mandates,
clocks, drifts, offers, lags and requests. A decision is a function of the mandate, the
attestation and the second (`Judged`); with the second the reasons to exclude only grow and each
score only falls (`FitsBefore`, `TotalFalls`), and so does the total, as weights keep the order
(`WeightsKeepOrder`). That the order of arrival does not matter is proved without induction over
sequences: the sort is defined by places, an element's place being the number of those that
come before it (`Place`), and in a set whose elements differ in the order no two have the same
(`SmallerOrders`, `PlacesAreOfTheSet`).

Of `SupplyVerification` it proves `EverySupplyRunIsHonest`, for any manifest, chain, forks and
outages, and from it `SuppliesAreHonest` for the scenes. What the chain's reader has seen at
each of its steps is a fact about the block it names, which no reorganization changes (`Saw`),
so a report that copies it stays true (`Honest`). That nobody is asked once the rate was limited
rests on the order of the questions: whoever is not in turn has been asked for everything, or
for nothing (`AskedInTurn`). It needs no more of the constants than that the manifest is a
sequence of the candidates and `None` no answer.

**`ExecutionPreview_proofs`**: `PassesAgree` and `AllRangesAgree` with its parts, for any
chain, forks, policies and ticks; and of the formula the four programs share, for every tick,
width and spacing: it yields the nearest aligned range of that width (`NearestIsNearest`),
no other is (`NearestIsUnique`), and if the width is a multiple of the spacing it holds the
tick (`NearestHoldsTheTick`).
`FreshBlocksDescend` counts how often the chain can have changed its branch by the time of
each look (`Turns`): each of the two looks after the simulation costs a chain that is to
fool the gate one more change.

Of adapters, executions and observations it proves `EveryReadingIsSound` and
`EveryObservationLasts`, for any deployments, scopes the schemas let through, return data,
shapes of a target, calls, snapshots, chains and bounds, if words have an odd maximum and ticks
fit into one, a mandate's least values are not negative, and `None` is no block, anchor or
verdict. Each adapter is proved to judge what its reads mean (`EveryAdapterJudgesWell`): the
signed decoding inverts the encoding, the rounded quotient reaches a floor exactly when the
product does, and the decoder of arrays finds what is encoded. The rest is about time. What an
evaluation has been answered is what its pinned block says, or nothing (`ReadsOneBlock`), so the
verdict on a complete set is true of that block, whatever the chain does; a result is bound only
when it is done, and nobody else can have bound one that `evaluateBound` still closes
(`BindingOK`). An observation knows at each of its reads what the earlier ones have ruled out
(`Known`): when the header is read once more that is all of the verdict, and a read that is
refused is a reason for none. Its last look finds the block canonical and still as deep, which
makes the step one of `AtomicTarget`, and every other step a stutter of it.

The proof found two definitions of the model whose CASE had overlapping guards, of which TLA+
promises no order (TLC takes the first): the read after the first of two, and where an
evaluation begins. Both say now what the code does.

Only model-checked:

- `SubmissionsAreSettled`, `FundedJobsAreDelivered`, `EveryWaitEnds`: liveness under fairness
  and ENABLED are out of the prover's reach.
- `RequestsAreSound`: a property of components whose state is little more than the clock and
  one call at a time, so that its instances already run through the cases there are.

## What is not modelled

- In the modelled components: tampering with files by other programs and the permission
  checks against it; the byte-level parsing of files; pid reuse; addresses, calldata and
  amounts; job statuses other than open and funded; deployment fingerprints.
  `negotiate` and `settle` keep no state in the seller, and x402 is a library's.
- A delivery whose receipt is a refusal is a delivery: `rebalance.deliver` turns a failed
  chain read into a refusal receipt, which is submitted and settles the job.
- An orphan is not counted by `isBusy`, so a runtime may be reaped while one is
  submitting; `Restart` may happen at any time and covers it.
- A create that is mined after the quote expired is refused by every reconcile, while the
  cleanup list still says that there is no job; a wrong hash recorded by the operator is
  waited for for ever; a second transaction for the same intent that reverted cannot be
  reconciled. The journal stops in these cases, and no property promises more.
- In the issuance: the observation before the reservation is one step without state, and so
  are the reads of the adapters; several requests, which have keys of their own; the gap
  between the last canonicality check and the commit, which no code on this side can close
  (the record names its block). Reservations that a killed process left are kept for ever:
  the store is an interface, and its comment leaves them to a reconciliation of its own.
- The seller's transport, the deployment rehearsal, the attestation fixtures and the
  research data keep no state worth modelling. Rendering, wording and the layout of pages and
  reports are left out everywhere.

## Plan

1. Lemmas about the operators that several components use and no theorem is about yet, and
   the type invariants of the components that have none proved.
2. `RequestsAreSound` proved of the API's processes and of the transport, and the interface's
   page requests beside its drain.
