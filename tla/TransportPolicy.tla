--------------------------- MODULE TransportPolicy ---------------------------
(***************************************************************************)
(* Which requests may leave the verifier (transport/http.ts).              *)
(*                                                                         *)
(* A route names its kind, and for the readers of the chain its purpose and*)
(* what the caller approved: contracts, a block, a call.  The body, which  *)
(* is built elsewhere, must be the one request that these allow.  A body   *)
(* is its JSON-RPC method and parameters here; calldata is a selector with *)
(* the form of its arguments.  A URL is the name of an endpoint, or Invalid*)
(***************************************************************************)
EXTENDS Naturals, Sequences

CONSTANTS
  Contracts, Zero,         \* addresses, and the zero address
  Protocol,                \* BSC_ACTIVATION_TARGETS
  Proxies,                 \* ... of them, the two behind a proxy
  PositionManager,
  Invalid                  \* a URL, hash, number or calldata in no canonical form

ChainKinds == {"bsc-preview-rpc", "bsc-category-rpc", "bsc-category-target-rpc",
               "bsc-activation-rpc"}
Kinds == ChainKinds \cup {"scan-detail", "agent-card", "bsc-rpc", "bsc-quote-rpc", "a2a-quote"}

Purposes(kind) ==
  {"chain-id", "head-block-number", "block-header"} \cup
  CASE kind = "bsc-preview-rpc"         -> {"contract-code", "state-read", "simulation"}
    [] kind = "bsc-category-rpc"        -> {"state-read"}
    [] kind = "bsc-category-target-rpc" -> {"contract-code", "proxy-slot", "provenance-read"}
    [] kind = "bsc-activation-rpc"      -> {"transaction", "receipt", "contract-code",
                                            "proxy-implementation", "state-read"}

Method(purpose) ==
  CASE purpose = "chain-id"          -> "eth_chainId"
    [] purpose = "head-block-number" -> "eth_blockNumber"
    [] purpose = "block-header"      -> "eth_getBlockByNumber"
    [] purpose = "transaction"       -> "eth_getTransactionByHash"
    [] purpose = "receipt"           -> "eth_getTransactionReceipt"
    [] purpose = "contract-code"     -> "eth_getCode"
    [] purpose \in {"proxy-slot", "proxy-implementation"} -> "eth_getStorageAt"
    [] OTHER                         -> "eth_call"

\* The methods of the routes that bind no purpose.
AllowedMethods == {"eth_chainId", "eth_blockNumber", "eth_getBlockByNumber",
                   "eth_getBlockByHash", "eth_getCode", "eth_call"}
QuoteMethods == {"eth_getCode", "eth_call"}

\* What the caller has to approve for a purpose, and nothing else.
Approvals(kind, purpose) ==
  CASE purpose \in {"chain-id", "head-block-number"} -> {}
    [] purpose = "block-header"            -> {"number"}
    [] purpose \in {"transaction", "receipt"} -> {"transaction"}
    [] purpose = "simulation"              -> {"block", "caller", "calldata"}
    [] purpose = "proxy-slot"              -> {"block", "target", "slot"}
    [] purpose = "provenance-read" \/ (purpose = "state-read" /\ kind = "bsc-category-rpc")
                                           -> {"block", "target", "calldata"}
    [] OTHER                               -> {"block", "target"}

-----------------------------------------------------------------------------
(* Calldata: a selector, and the form of what follows it *)

Forms == {"none", "word", "address", "other"}

CategoryReads == {"slot0", "totalAssets", "totalSupply", "getUserAccountData",
                  "getAccountLiquidity", "getAssetsIn", "borrowBalanceStored"}
NoArguments == {"slot0", "totalAssets", "totalSupply", "factory", "deployer", "implementation"}
ProvenanceReads == CategoryReads \cup
  {"factory", "deployer", "ownerOf", "comptroller", "markets", "getPool", "implementation"}
PreviewReads == {"ownerOf", "factory", "deployer", "positions", "getApproved", "isApprovedForAll",
  "slot0", "liquidity", "token0", "token1", "fee", "tickSpacing", "getPool",
  "feeAmountTickSpacing", "decimals", "balanceOf", "allowance"}
ActivationReads == {"paymentToken", "getJob", "jobHasBudget", "commerce", "jobPolicy",
  "policyWhitelist", "paused", "inflightJobCount", "router", "disputeWindow"}

CategoryCalldata(data) ==
  /\ data.selector \in CategoryReads
  /\ data.form = IF data.selector \in NoArguments THEN "none" ELSE "address"

\* The token id of ownerOf may be any word.
ProvenanceCalldata(data) ==
  /\ data.selector \in ProvenanceReads
  /\ CASE data.selector \in NoArguments -> data.form = "none"
       [] data.selector = "ownerOf"     -> data.form \in {"word", "address"}
       [] OTHER                         -> data.form = "address"

-----------------------------------------------------------------------------
(* The body that a purpose and its approvals allow *)

Pinned(block) == [blockHash |-> block, requireCanonical |-> TRUE]

ApprovedTarget(kind, target) ==
  /\ target \in Contracts \ {Zero}
  /\ kind = "bsc-activation-rpc" => target \in Protocol

\* Mutant: the body of a state read may name any block.
CallOfAnyBlock(call, block, body) ==
  /\ Len(body.params) = 2
  /\ body.params[1] = call

\* The parameters are one call, at the approved block, which has to be canonical.
CallIs(call, block, body) ==
  /\ Len(body.params) = 2
  /\ body.params[1] = call
  /\ block # Invalid
  /\ body.params[2] = Pinned(block)

\* A read whose calldata the caller did not approve: any with a known selector.
ReadOf(selectors, a, body) ==
  \E data \in [selector : selectors, form : Forms] :
    CallIs([to |-> a.target, data |-> data], a.block, body)

StorageIs(slot, a, body) ==
  /\ a.block # Invalid
  /\ body.params = <<a.target, slot, Pinned(a.block)>>

\* The purposes that every kind of route has.
HeadBody(purpose, a, body) ==
  \/ purpose \in {"chain-id", "head-block-number"} /\ body.params = <<>>
  \/ purpose = "block-header" /\ a.number # Invalid /\ body.params = <<a.number, FALSE>>

CodeBody(kind, a, body) == ApprovedTarget(kind, a.target) /\ CallIs(a.target, a.block, body)

PreviewBody(purpose, a, body) ==
  CASE purpose = "contract-code" -> CodeBody("bsc-preview-rpc", a, body)
    [] purpose = "state-read" ->
         ApprovedTarget("bsc-preview-rpc", a.target) /\ ReadOf(PreviewReads, a, body)
    [] purpose = "simulation" ->
         /\ a.caller \in Contracts
         /\ a.calldata # Invalid /\ a.calldata.selector = "multicall"
         /\ CallIs([from |-> a.caller, to |-> PositionManager, data |-> a.calldata,
                    gas |-> "fixed", value |-> 0], a.block, body)
    [] OTHER -> HeadBody(purpose, a, body)

\* Here the calldata itself is approved.
ApprovedCall(kind, a, body) ==
  /\ ApprovedTarget(kind, a.target)
  /\ a.calldata # Invalid
  /\ IF kind = "bsc-category-rpc" THEN CategoryCalldata(a.calldata)
     ELSE ProvenanceCalldata(a.calldata)
  /\ CallIs([to |-> a.target, data |-> a.calldata], a.block, body)

CategoryBody(purpose, a, body) ==
  IF purpose = "state-read" THEN ApprovedCall("bsc-category-rpc", a, body)
  ELSE HeadBody(purpose, a, body)

TargetBody(purpose, a, body) ==
  CASE purpose = "contract-code" -> CodeBody("bsc-category-target-rpc", a, body)
    [] purpose = "proxy-slot" ->
         /\ ApprovedTarget("bsc-category-target-rpc", a.target)
         /\ a.slot \in {"implementation", "beacon"}
         /\ StorageIs(a.slot, a, body)
    [] purpose = "provenance-read" ->
         ApprovedCall("bsc-category-target-rpc", a, body)
    [] OTHER -> HeadBody(purpose, a, body)

ActivationBody(purpose, a, body) ==
  CASE purpose \in {"transaction", "receipt"} ->
         a.transaction # Invalid /\ body.params = <<a.transaction>>
    [] purpose = "contract-code" -> CodeBody("bsc-activation-rpc", a, body)
    [] purpose = "proxy-implementation" ->
         /\ ApprovedTarget("bsc-activation-rpc", a.target) /\ a.target \in Proxies
         /\ StorageIs("implementation", a, body)
    [] purpose = "state-read" ->
         ApprovedTarget("bsc-activation-rpc", a.target) /\ ReadOf(ActivationReads, a, body)
    [] OTHER -> HeadBody(purpose, a, body)

BodyAllowed(kind, purpose, a, body) ==
  CASE kind = "bsc-preview-rpc"         -> PreviewBody(purpose, a, body)
    [] kind = "bsc-category-rpc"        -> CategoryBody(purpose, a, body)
    [] kind = "bsc-category-target-rpc" -> TargetBody(purpose, a, body)
    [] kind = "bsc-activation-rpc"      -> ActivationBody(purpose, a, body)

\* assertPreviewRpcRoute and its three siblings
ChainRouteAllowed(route) ==
  /\ route.purpose \in Purposes(route.kind)
  /\ DOMAIN route.approved = Approvals(route.kind, route.purpose)
  /\ route.body.strict
  /\ route.body.method = Method(route.purpose)
  /\ BodyAllowed(route.kind, route.purpose, route.approved, route.body)

\* assertQuoteRpcBody: the code of the provider, or isValidSignature asked of it.
QuoteBodyAllowed(route) ==
  LET a == route.approved  body == route.body IN
  /\ body.strict
  /\ body.method \in QuoteMethods
  /\ Len(body.params) = 2
  /\ a.target \in Contracts
  /\ IF body.method = "eth_getCode" THEN CallIs(a.target, a.block, body)
     ELSE ReadOf({"isValidSignature"}, a, body)

\* assertQuoteBody: one message/send with one message of one data part that asks to
\* negotiate, over a mandate or a category challenge, and nothing else (strict).
MessageAllowed(route) == route.body.strict /\ route.body.method = "message/send"

Endpoint(route) ==
  CASE route.kind = "scan-detail" -> "scan"
    [] route.kind \in {"agent-card", "a2a-quote"} -> route.approved.url
    [] OTHER -> "bsc"

\* validateTransportRouteSnapshot
RouteAllowed(route) ==
  /\ route.url # Invalid
  /\ route.verb = IF route.kind \in {"scan-detail", "agent-card"} THEN "GET" ELSE "POST"
  /\ route.url = Endpoint(route)
  /\ CASE route.kind \in ChainKinds       -> ChainRouteAllowed(route)
       [] route.kind = "bsc-quote-rpc"    -> QuoteBodyAllowed(route)
       \* assertRpcBodyMethod: neither parameters nor block are looked at.
       [] route.kind = "bsc-rpc"          -> route.body.method \in AllowedMethods
       [] route.kind = "a2a-quote"        -> MessageAllowed(route)
       [] OTHER                           -> TRUE
=============================================================================
