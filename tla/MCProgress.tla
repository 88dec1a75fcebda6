------------------------------ MODULE MCProgress ------------------------------
(***************************************************************************)
(* What must happen at last, on instances small enough for it: the journal *)
(* of an activation, the deliveries of the seller, the reads of the        *)
(* rebalancing agent, the services as they boot, drain and answer for      *)
(* readiness, and one request of the transport (exchange), whose policy is *)
(* also run over every shape of request (policy).  They share no state:    *)
(* scene names the one that runs, and the variables of the others rest.    *)
(***************************************************************************)
EXTENDS TransportPolicy, Integers, FiniteSets

CONSTANTS
    None, Selected,                \* the scenes that run
    cmd1, cmd2, t1,                \* journal
    j1, n1,                        \* seller
    a1, empty,                     \* reads
    k1, k2, p1, r1,                \* services
    c1, c2,                        \* exchange, policy: contracts, c1 one of the protocol
    b1, b2, num1, num2, tx,        \* ... blocks, their numbers, and a transaction
    Off, NoRoute, NoOutcome

VARIABLES
    scene,
    journal, pc, read, fresh, draft, receipt, failures, chain, fork, txs,
    contract, pending, canSubmit, abortable, notice, sweep, delivery, inflight, settled,
    mishaps,
    mandate, now, blocks, forks, stage, purpose, attempt, head, pin, seen, quote, answer,
    verifier, api, interface, request, deploys,
    phase, route, snapshot, sent, pinned, remote, timers, received, outcome, asked,
    sentAge, offered

journalVars  == <<journal, pc, read, fresh, draft, receipt, failures, chain, fork, txs>>
sellerVars   == <<contract, pending, canSubmit, abortable, notice, sweep, delivery, inflight,
                  settled, mishaps>>
readVars     == <<mandate, now, blocks, forks, stage, purpose, attempt, head, pin, seen, quote,
                  answer>>
serviceVars  == <<verifier, api, interface, request, deploys>>
exchangeVars == <<phase, route, snapshot, sent, pinned, remote, timers, received, outcome,
                  asked, sentAge, offered>>
everything   == <<scene, journalVars, sellerVars, readVars, serviceVars, exchangeVars>>

-----------------------------------------------------------------------------
\* Two commands, one of which may die, and the first step of an activation.
JournalCmd == {cmd1, cmd2}
JournalTx  == {t1}

Journal == INSTANCE ActivationJournal WITH
    Cmd <- JournalCmd, Tx <- JournalTx, NoTx <- None, ConfirmationDepth <- 1,
    QuoteExpiresAt <- 5, StepBudget <- 0, ClockSkew <- 1, FundingBuffer <- 0, MaxHeight <- 5,
    MaxForks <- 0, MaxResubmissions <- 0, MaxFailures <- 1

\* One signed job, one request at a time; two mishaps.
SellerJobs     == {j1}
SellerUnsigned == {}
SellerSlots    == 1..3
SellerNotices  == {n1}

Seller == INSTANCE SellerDelivery WITH
    Jobs <- SellerJobs, Unsigned <- SellerUnsigned, Slots <- SellerSlots,
    Notices <- SellerNotices, MaxMishaps <- 2, chain <- contract

\* One policy under every order of its three ends, and one reorganization.
Low == -24
Place == [lower |-> 8, upper |-> 16]
ReadsPolicy == [mode |-> "out_of_range", distance |-> 1, width |-> 4, low |-> -8,
                high |-> 20, drift |-> 1]
ReadsMandates ==
    {[expires |-> e[1], permission |-> e[2], estimated |-> 0, maxAge |-> e[3],
      policy |-> ReadsPolicy] : e \in {<<4, 3, 9>>, <<3, 3, 9>>, <<9, 9, 2>>}}
ReadsTicks   == {4}
ReadsHolders == {a1}

Reads == INSTANCE RebalanceAgent WITH
    Mandates <- ReadsMandates, Position <- Place, Spacing <- 4, Ticks <- ReadsTicks,
    Holders <- ReadsHolders, Empty <- empty, Depth <- 1, Tolerance <- 1, MaxTime <- 1,
    MaxBlocks <- 3, MaxForks <- 1, MinTick <- Low, MaxTick <- 24,
    chain <- blocks, pc <- stage

\* Two keys, one policy, one request for readiness, one redeploy.
ServiceKeys     == {k1, k2}
ServicePolicies == {p1}
ServiceRequests == {r1}

Deployed == INSTANCE Services WITH
    Keys <- ServiceKeys, Policies <- ServicePolicies, Requests <- ServiceRequests,
    ProbeTimeout <- 1, UiTimeout <- 2, Grace <- 2, MaxDeploys <- 1

\* Two scenes: in the first the interface stays up, in the second a verifier stays as it
\* was booted, with a policy, and no client of the API stalls.
Serving == scene \in {"services", "interface"}

ASSUME Reads!AgentAssumption /\ Deployed!ServicesAssumption

-----------------------------------------------------------------------------
\* Routes: for every purpose the request its approvals allow, and requests that differ from
\* it in one part.
MCContracts  == {c1, c2, Zero}
Anything     == [selector |-> "approve", form |-> "other"]
Call(to, data) == [to |-> to, data |-> data]
Body(method, params) == [strict |-> TRUE, method |-> method, params |-> params]

TimerAddresses == {1, 2, 3}
TimerReserved  == {2}
TimerChunks    == {1, 2, 3}
PolicyAddresses == {1}
PolicyChunks    == {3}
Small           == [k \in Kinds |-> 2]

\* An approval of every name.
Approved == [number |-> num1, transaction |-> tx, block |-> b1, target |-> c1, caller |-> c2,
             slot |-> "implementation", calldata |-> [selector |-> "slot0", form |-> "none"]]

ChainRoute(kind, aim, approved, params) ==
    [kind |-> kind, url |-> "bsc", verb |-> "POST", purpose |-> aim, size |-> 1,
     approved |-> [n \in Approvals(kind, aim) |-> approved[n]],
     body |-> Body(Method(aim), params)]

\* Parameters of every shape, for the approved contract and block and for others.
ParamsOf(data) ==
    {<<>>, <<tx>>, <<num1, FALSE>>, <<num2, FALSE>>, <<num1, TRUE>>} \cup
    {<<c, Pinned(b)>> : c \in {c1, c2}, b \in {b1, b2}} \cup
    {<<c1, [Pinned(b1) EXCEPT !.requireCanonical = FALSE]>>} \cup
    {<<c, s, Pinned(b)>> : c \in {c1, c2}, s \in {"implementation", "admin"}, b \in {b1, b2}} \cup
    {<<Call(c, d), Pinned(b)>> : c \in {c1, c2}, d \in {data, Anything}, b \in {b1, b2}} \cup
    {<<[from |-> f, to |-> PositionManager, data |-> data, gas |-> "fixed", value |-> v], Pinned(b1)>>
       : f \in {c1, c2}, v \in {0, 1}}

DataOf(aim) == [selector |-> IF aim = "simulation" THEN "multicall" ELSE "slot0",
                    form |-> "none"]

PolicyRoutes ==
    UNION {UNION {{ChainRoute(kind, aim, approved, p) :
        approved \in {[Approved EXCEPT !.calldata = DataOf(aim), !.target = t, !.block = b]
                        : t \in Contracts, b \in {b1, Invalid}},
        p \in ParamsOf(DataOf(aim))}
      : aim \in Purposes(kind)} : kind \in ChainKinds}
    \cup
    {[kind |-> "bsc-quote-rpc", url |-> "bsc", verb |-> "POST", size |-> 1,
      approved |-> [target |-> c1, block |-> b1], body |-> Body(m, p)] :
       m \in {"eth_getCode", "eth_call", "eth_chainId"},
       p \in ParamsOf([selector |-> "isValidSignature", form |-> "other"])}
    \cup
    {[kind |-> "bsc-rpc", url |-> "bsc", verb |-> "POST", size |-> 1, approved |-> <<>>,
      body |-> [Body(m, p) EXCEPT !.strict = s]] :
       m \in {"eth_getCode", "eth_getStorageAt", "eth_call"}, s \in BOOLEAN,
       p \in ParamsOf(Anything)}

\* Two routes that the exchange can tell apart, one that is too long and one refused.
Card(url, size) == [kind |-> "agent-card", url |-> url, verb |-> "GET", size |-> size,
                    approved |-> [url |-> "agent"]]
ExchangeRoutes ==
    {ChainRoute("bsc-preview-rpc", "contract-code", Approved, <<c1, Pinned(b1)>>),
     Card("agent", 1), Card("agent", 9), Card("elsewhere", 1)}

NoSwaps == {}

Exchange == INSTANCE HttpExchange WITH
    Routes <- ExchangeRoutes, Swaps <- ExchangeRoutes, Addresses <- TimerAddresses,
    Reserved <- TimerReserved, RequestLimit <- Small, ResponseLimit <- Small,
    ConnectTimeout <- 1, HeadersTimeout <- 2, TotalTimeout <- 3, Chunks <- TimerChunks,
    MaxAge <- 5

Policy == INSTANCE HttpExchange WITH
    Routes <- PolicyRoutes, Swaps <- NoSwaps, Addresses <- PolicyAddresses,
    Reserved <- NoSwaps, RequestLimit <- Small, ResponseLimit <- Small,
    ConnectTimeout <- 1, HeadersTimeout <- 2, TotalTimeout <- 3, Chunks <- PolicyChunks,
    MaxAge <- 5

ASSUME Exchange!LimitsAssumption /\ Policy!LimitsAssumption

-----------------------------------------------------------------------------
RestJournal ==
    /\ journal = None /\ pc = None /\ read = None /\ fresh = None /\ draft = None
    /\ receipt = None /\ failures = None /\ chain = None /\ fork = None /\ txs = None

RestSeller ==
    /\ contract = None /\ pending = None /\ canSubmit = None /\ abortable = None
    /\ notice = None /\ sweep = None /\ delivery = None /\ inflight = None
    /\ settled = None /\ mishaps = None

RestReads ==
    /\ mandate = None /\ now = None /\ blocks = None /\ forks = None /\ stage = None
    /\ purpose = None /\ attempt = None /\ head = None /\ pin = None /\ seen = None
    /\ quote = None /\ answer = None

RestServices ==
    /\ verifier = None /\ api = None /\ interface = None /\ request = None /\ deploys = None

RestExchange ==
    /\ phase = None /\ route = None /\ snapshot = None /\ sent = None /\ pinned = None
    /\ remote = None /\ timers = None /\ received = None /\ outcome = None
    /\ asked = None /\ sentAge = None /\ offered = None

MCInit ==
    /\ scene \in Selected
    /\ scene # "journal" => RestJournal
    /\ scene # "seller" => RestSeller
    /\ scene # "reads" => RestReads
    /\ ~Serving => RestServices
    /\ scene \notin {"exchange", "policy"} => RestExchange
    /\ \/ scene = "journal" /\ Journal!Init
       \/ scene = "seller" /\ Seller!Init
       \/ scene = "reads" /\ Reads!Init
       \/ Serving /\ Deployed!Init /\ (scene = "interface" => verifier.policy = p1)
       \/ scene \in {"exchange", "policy"} /\ Exchange!Init

MCNext ==
    /\ UNCHANGED scene
    /\ \/ /\ scene = "journal" /\ Journal!Next
          /\ UNCHANGED <<sellerVars, readVars, serviceVars, exchangeVars>>
       \/ /\ scene = "seller" /\ Seller!Next
          /\ UNCHANGED <<journalVars, readVars, serviceVars, exchangeVars>>
       \/ /\ scene = "reads" /\ Reads!Next
          /\ UNCHANGED <<journalVars, sellerVars, serviceVars, exchangeVars>>
       \/ /\ Serving /\ Deployed!Next
          /\ scene = "services" => UNCHANGED interface
          /\ scene = "interface" => UNCHANGED verifier /\ ~api'.stalled
          /\ UNCHANGED <<journalVars, sellerVars, readVars, exchangeVars>>
       \/ /\ UNCHANGED <<journalVars, sellerVars, readVars, serviceVars>>
          /\ \/ scene = "exchange" /\ Exchange!Next
             \/ scene = "policy" /\ Policy!Next

\* What each component calls fair, in its scene.
JournalFairness ==
    /\ \A c \in JournalCmd :
          /\ WF_journalVars(scene = "journal" /\ Journal!Carries(c))
          /\ WF_journalVars(scene = "journal" /\ Journal!ReconcilesAgain(c))
    /\ WF_journalVars(scene = "journal" /\ Journal!MineBlock)

SellerFairness ==
    /\ \A d \in SellerJobs \X SellerSlots :
          /\ WF_sellerVars(scene = "seller" /\ Seller!DeliveryStep(d))
          /\ WF_sellerVars(scene = "seller" /\ Seller!TimesOutHung(d))
          /\ WF_sellerVars(scene = "seller" /\ Seller!Mine(d))
    /\ \A n \in SellerNotices :
          /\ WF_sellerVars(scene = "seller" /\ Seller!NoticeStep(n))
          /\ WF_sellerVars(scene = "seller" /\ Seller!SomeNotify(n))

ReadsFairness == WF_readVars(scene = "reads" /\ Reads!Read)

ServicesFairness ==
    /\ WF_serviceVars(Serving /\ Deployed!Tick)
    /\ WF_serviceVars(Serving /\ Deployed!CloseCleanly)
    /\ WF_serviceVars(Serving /\ Deployed!Force)
    /\ WF_serviceVars(Serving /\ Deployed!CloseUi)
    /\ \A r \in ServiceRequests :
          /\ WF_serviceVars(Serving /\ Deployed!ProbeExpires(r))
          /\ WF_serviceVars(Serving /\ Deployed!UiExpires(r))

ExchangeFairness ==
    /\ WF_exchangeVars(scene = "exchange" /\ Exchange!Tick)
    /\ WF_exchangeVars(scene = "exchange" /\ Exchange!FireSome)
    /\ WF_exchangeVars(scene = "exchange" /\ Exchange!Answer)

MCSpec ==
    /\ MCInit /\ [][MCNext]_everything
    /\ JournalFairness /\ SellerFairness /\ ReadsFairness /\ ServicesFairness
    /\ ExchangeFairness

-----------------------------------------------------------------------------
(* The properties, each in its scene.                                      *)

\* What the state of each part may be, whichever runs.
ScenesTypeOK ==
    /\ scene = "reads" => Reads!TypeOK
    /\ Serving => Deployed!TypeOK
    /\ scene = "exchange" => Exchange!TypeOK

\* Journal: a submission that its receipt can settle is settled at last, whatever other
\* commands store meanwhile and even if the process that recorded it died before it looked
\* at the chain (reconcile of activation-cli.ts).
SubmissionsAreSettled ==
    \A t \in JournalTx :
        (scene = "journal" /\ Journal!Settles(t))
            ~> (scene = "journal" /\ journal.condition # "reconcile_required")

\* Seller: a funded job this provider signed is submitted to at last, or expires: no kill,
\* failing or hung call, early deadline or orphan takes it out of the reach of later
\* notifications for good (the deadline and finally of runJob).
FundedJobsAreDelivered ==
    \A j \in SellerJobs :
        (scene = "seller" /\ contract[j] = "funded" /\ canSubmit)
            ~> (scene = "seller" /\ contract[j] \in {"submitted", "expired"})

\* Agent: every read ends, however often the chain reorganizes and the node lags
\* (PancakeV3StateReader.read).
EveryReadEnds ==
    (scene = "reads" /\ stage \in Reads!Reading)
        ~> (scene = "reads" /\ stage \notin Reads!Reading)

\* API: it reports that the keys agree only if the verifier did run with the pinned key
\* while it was asked, whoever was redeployed meanwhile (probeVerifier).
OkWasSeen == Serving => Deployed!OkWasSeen

\* API: a redeploy lets the readiness requests in flight finish, though not a request that
\* is still coming in when the grace period ends (shutdown in server.ts).
ReadinessFinishes == Serving => Deployed!ReadinessFinishes

\* Interface: it says degraded because the API refused it, was not ready, or was reached too
\* late or not at all: the API's own probe never makes it give up (server.ts, api.ts).
DegradedHasCause == Serving => Deployed!DegradedHasCause

\* Whoever asks for readiness is answered, however slow the verifier is (probeVerifier).
EveryReadinessAnswers ==
    \A r \in ServiceRequests :
        (Serving /\ r \in Deployed!Waiting)
            ~> (Serving /\ Deployed!At(r, "done"))

\* Told to stop, the API does, however slow a client is; the interface does unless a client
\* stalls, for its own requests all end (shutdown in the two server.ts).
EveryDrainEnds ==
    /\ (Serving /\ api.phase = "draining")
           ~> (Serving /\ api.phase = "down")
    /\ (Serving /\ interface.phase = "draining" /\ ~interface.stalled)
           ~> (Serving /\ interface.phase = "down")

\* Transport: a response that is delivered is all the server sent, within the limit of its
\* kind, and came from the one address that was checked, among answers all public.
SuccessIsComplete == scene = "exchange" => Exchange!SuccessIsComplete

\* Transport: what went to the wire is the route as it was when the caller passed it,
\* whatever the caller does to its object while the host is resolved.
SentIsValidated == scene = "exchange" => Exchange!SentIsValidated

\* Transport: a request that was sent has settled when its total time is over, however
\* slowly the server feeds it.
SentEndsInTime == scene = "exchange" => Exchange!SentEndsInTime

\* Transport: a settled request leaves no timer that would destroy anything later.
NoTimerSurvives == scene = "exchange" => Exchange!NoTimerSurvives

\* Transport: every request is settled, also with a server that never answers.
EveryRequestSettles ==
    (scene = "exchange" /\ phase # "idle") ~> (scene = "exchange" /\ Exchange!Settled)

\* Policy: a read of contract state over a route that binds its reads is of the approved
\* contract, calldata and canonical block; one over a bsc-rpc route has a method of the list,
\* and no more is known of it (validateTransportRouteSnapshot).
SentReadsAreBound == scene = "policy" => Policy!SentReadsAreBound

\* The services tell of the verifier what was seen, give up for a cause and let readiness
\* requests in flight finish; an exchange sends what was checked, is settled in time and once, and
\* delivers a whole response of the checked address; a read is bound to its block.
RequestsAreSound ==
    /\ ScenesTypeOK
    /\ OkWasSeen
    /\ ReadinessFinishes
    /\ DegradedHasCause
    /\ SuccessIsComplete
    /\ SentIsValidated
    /\ SentEndsInTime
    /\ NoTimerSurvives
    /\ SentReadsAreBound

\* Reads of the agent, readiness probes, drains and requests of the transport all end.
EveryWaitEnds ==
    /\ EveryReadEnds
    /\ EveryReadinessAnswers
    /\ EveryDrainEnds
    /\ EveryRequestSettles
=============================================================================
