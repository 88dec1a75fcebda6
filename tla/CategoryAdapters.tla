-------------------------- MODULE CategoryAdapters --------------------------
(***************************************************************************)
(* The four category adapters (src/tools/category-adapters/src) as         *)
(* functions from the return data of their reads to a verdict, and the     *)
(* rule by which the artifact schema (agent-supply-verifier/src/category/  *)
(* schema.ts) judges the evidence of a pass again.  Return data is a       *)
(* sequence of words; the widths and protocol bounds are constants, so     *)
(* that sentinels, signs, overflows and rounding occur in small instances. *)
(***************************************************************************)
EXTENDS Integers, Sequences

CONSTANTS
    WordMax,               \* type(uint256).max: the largest word
    WordBytes,             \* bytes of a word, by which offsets are counted
    Scale,                 \* RATIO_SCALE
    DecimalMax,            \* the largest number uint256DecimalSchema takes
    MarketsMax,            \* the most entered markets the evidence takes
    Int24, V3Ticks,        \* the ticks an int24 can hold, and those a pool can
    Uint160Max, V3Sqrt,    \* the largest uint160, and the prices a pool can hold
    Ragged,                \* data that is empty of hex or not a number of words
    None                   \* a read that did not come back

WidthAssumption ==
    /\ {WordMax, WordBytes, Scale, DecimalMax, MarketsMax, Uint160Max} \subseteq Nat \ {0}
    /\ WordMax <= DecimalMax
    /\ WordMax % 2 = 1
    /\ V3Ticks \subseteq Int24 /\ Int24 \subseteq -(WordMax \div 2) - 1..WordMax \div 2
    /\ V3Sqrt \subseteq 0..Uint160Max

AdapterIds == {"grid", "yield", "aave", "venus"}

\* What a read may come back with, and what the schemas require of a scope at the least.
Data == {None, Ragged} \cup Seq(0..WordMax)
ValidScopes == {s \in [adapter : AdapterIds, lower : Int, upper : Int] :
                   s.adapter # "grid" => s.lower >= 0}
CategoryOf(adapter) == IF adapter \in {"aave", "venus"} THEN "health" ELSE adapter

\* What each adapter reads, in the order it asks.
ReadsOf(adapter) ==
    CASE adapter = "grid" -> <<"slot0">>
      [] adapter = "yield" -> <<"totalAssets", "totalSupply">>
      [] adapter = "aave" -> <<"getUserAccountData">>
      [] adapter = "venus" -> <<"getAccountLiquidity", "getAssetsIn", "borrowBalanceStored">>

LabelsOf(adapter) == {ReadsOf(adapter)[i] : i \in DOMAIN ReadsOf(adapter)}
Labels == UNION {LabelsOf(a) : a \in AdapterIds}

Pass == [status |-> "pass", code |-> "none"]
Fail(code) == [status |-> "fail", code |-> code]
Unknown(code) == [status |-> "unknown", code |-> code]
Throws == [status |-> "throws", code |-> "none"]   \* the evidence does not parse

-----------------------------------------------------------------------------
(* Decoding.                                                               *)

\* Zero stands for the undefined of a payload that is empty or ragged.
WordCount(data) == IF data = Ragged THEN 0 ELSE Len(data)

\* Mutant: the word is not sign-extended.
Mutant_Unsigned(word) == word

Signed(word) == IF word > WordMax \div 2 THEN word - (WordMax + 1) ELSE word

LengthIndex(data) == data[1] \div WordBytes

HoldsArray(data) ==
    /\ WordCount(data) >= 2
    /\ data[1] % WordBytes = 0
    /\ LengthIndex(data) < Len(data)
    /\ data[LengthIndex(data) + 1] <= Len(data) - LengthIndex(data) - 1

ArrayLength(data) == data[LengthIndex(data) + 1]

-----------------------------------------------------------------------------
(* The adapters.  A scope names an adapter and its thresholds: lower and   *)
(* upper for a grid, lower for the others.                                 *)

Grid(scope, answers) ==
    LET data == answers["slot0"]
        sqrtPriceX96 == data[1]
        spotTick == Signed(data[2])
    IN  IF data = None THEN Unknown("READ_UNAVAILABLE")
        ELSE IF WordCount(data) < 2 THEN Unknown("READ_RETURNDATA_MALFORMED")
        ELSE IF spotTick \notin Int24 THEN Unknown("GRID_TICK_UNINTERPRETABLE")
        ELSE IF sqrtPriceX96 > Uint160Max \/ sqrtPriceX96 \notin V3Sqrt
             THEN Unknown("GRID_SQRT_PRICE_IMPLAUSIBLE")
        ELSE IF spotTick \notin V3Ticks THEN Unknown("GRID_TICK_UNINTERPRETABLE")
        ELSE IF spotTick \in scope.lower..scope.upper THEN Pass
        ELSE Fail("GRID_SPOT_OUTSIDE_BAND")

SharePrice(assets, supply) == (assets * Scale) \div supply

Yield(scope, answers) ==
    LET assets == answers["totalAssets"]
        supply == answers["totalSupply"]
        sharePriceScaled == SharePrice(assets[1], supply[1])
    IN  IF None \in {assets, supply} THEN Unknown("READ_UNAVAILABLE")
        ELSE IF WordCount(assets) # 1 \/ WordCount(supply) # 1
             THEN Unknown("READ_RETURNDATA_MALFORMED")
        ELSE IF supply[1] = 0 THEN Unknown("YIELD_SHARE_PRICE_UNDEFINED")
        ELSE IF sharePriceScaled > DecimalMax THEN Throws
        ELSE IF sharePriceScaled >= scope.lower THEN Pass
        ELSE Fail("YIELD_SHARE_PRICE_BELOW_FLOOR")

DebtWord == 2
FactorWord == 6

\* Mutant: no debt is seen only when both fields say so.
Mutant_NoDebt(data) == data[FactorWord] = WordMax /\ data[DebtWord] = 0

NoDebt(data) == data[FactorWord] = WordMax \/ data[DebtWord] = 0

Health(scope, answers) ==
    LET data == answers["getUserAccountData"] IN
    IF data = None THEN Unknown("READ_UNAVAILABLE")
    ELSE IF WordCount(data) # 6 THEN Unknown("READ_RETURNDATA_MALFORMED")
    ELSE IF NoDebt(data) THEN Unknown("HEALTH_NO_DEBT_POSITION")
    ELSE IF data[FactorWord] >= scope.lower THEN Pass
    ELSE Fail("HEALTH_FACTOR_BELOW_FLOOR")

VenusHealth(scope, answers) ==
    LET account == answers["getAccountLiquidity"]
        markets == answers["getAssetsIn"]
        borrow == answers["borrowBalanceStored"]
        liquidity == account[2]
        shortfall == account[3]
    IN  IF None \in {account, markets, borrow} THEN Unknown("READ_UNAVAILABLE")
        ELSE IF WordCount(account) # 3 \/ ~HoldsArray(markets) \/ WordCount(borrow) < 1
             THEN Unknown("READ_RETURNDATA_MALFORMED")
        ELSE IF account[1] # 0 THEN Unknown("VENUS_LIQUIDITY_COMPUTATION_FAILED")
        ELSE IF liquidity > 0 /\ shortfall > 0 THEN Unknown("VENUS_LIQUIDITY_INCONSISTENT")
        ELSE IF ArrayLength(markets) > MarketsMax THEN Throws
        ELSE IF ArrayLength(markets) = 0 THEN Unknown("VENUS_NO_POSITION")
        ELSE IF borrow[1] = 0 THEN Unknown("VENUS_NO_DEBT_POSITION")
        ELSE IF shortfall > 0 THEN Fail("VENUS_ACCOUNT_SHORTFALL")
        ELSE IF liquidity >= scope.lower THEN Pass
        ELSE Fail("VENUS_LIQUIDITY_BELOW_FLOOR")

Judge(scope, answers) ==
    CASE scope.adapter = "grid" -> Grid(scope, answers)
      [] scope.adapter = "yield" -> Yield(scope, answers)
      [] scope.adapter = "aave" -> Health(scope, answers)
      [] scope.adapter = "venus" -> VenusHealth(scope, answers)

-----------------------------------------------------------------------------
(* The artifact's own rule for the evidence of a pass.                     *)

\* Mutant: the band of the grid is open above.
Mutant_OpenBand(scope, answers) ==
    scope.adapter = "grid" =>
        Signed(answers["slot0"][2]) \in scope.lower..(scope.upper - 1)

PassRule(scope, answers) ==
    CASE scope.adapter = "grid" ->
            LET tick == Signed(answers["slot0"][2]) IN
            /\ tick \in V3Ticks \cap (scope.lower..scope.upper)
            /\ answers["slot0"][1] \in V3Sqrt
      [] scope.adapter = "yield" ->
            LET supply == answers["totalSupply"][1] IN
            supply # 0 /\ SharePrice(answers["totalAssets"][1], supply) >= scope.lower
      [] scope.adapter = "aave" ->
            LET data == answers["getUserAccountData"] IN
            data[DebtWord] # 0 /\ data[FactorWord] # WordMax /\ data[FactorWord] >= scope.lower
      [] scope.adapter = "venus" ->
            LET account == answers["getAccountLiquidity"] IN
            /\ account[3] = 0 /\ account[2] >= scope.lower
            /\ ArrayLength(answers["getAssetsIn"]) # 0
            /\ answers["borrowBalanceStored"][1] # 0

FailCodes(adapter) ==
    CASE adapter = "grid" -> {"GRID_SPOT_OUTSIDE_BAND"}
      [] adapter = "yield" -> {"YIELD_SHARE_PRICE_BELOW_FLOOR"}
      [] adapter = "aave" -> {"HEALTH_FACTOR_BELOW_FLOOR"}
      [] adapter = "venus" -> {"VENUS_ACCOUNT_SHORTFALL", "VENUS_LIQUIDITY_BELOW_FLOOR"}

UnknownCodes(adapter) ==
    {"READ_UNAVAILABLE", "READ_RETURNDATA_MALFORMED"} \cup
    CASE adapter = "grid" -> {"GRID_TICK_UNINTERPRETABLE", "GRID_SQRT_PRICE_IMPLAUSIBLE"}
      [] adapter = "yield" -> {"YIELD_SHARE_PRICE_UNDEFINED"}
      [] adapter = "aave" -> {"HEALTH_NO_DEBT_POSITION"}
      [] adapter = "venus" ->
            {"VENUS_LIQUIDITY_COMPUTATION_FAILED", "VENUS_NO_POSITION",
             "VENUS_NO_DEBT_POSITION", "VENUS_LIQUIDITY_INCONSISTENT"}

\* What the artifact schema takes: a measured result has all its reads, a
\* missing read is what READ_UNAVAILABLE and nothing else says, and a pass
\* satisfies the rule.
ArtifactAccepts(scope, verdict, answers) ==
    LET complete == \A l \in DOMAIN answers : answers[l] # None IN
    CASE verdict.status = "pass" -> complete /\ PassRule(scope, answers)
      [] verdict.status = "fail" -> complete /\ verdict.code \in FailCodes(scope.adapter)
      [] verdict.status = "unknown" ->
            /\ verdict.code \in UnknownCodes(scope.adapter)
            /\ verdict.code = "READ_UNAVAILABLE" <=> ~complete

-----------------------------------------------------------------------------
(* What the reads mean, said without the adapters' decoding: exact         *)
(* arithmetic, encodings instead of decoders.                              *)

Words(data, n) == data \notin {None, Ragged} /\ Len(data) = n
SomeWords(data, n) == data \notin {None, Ragged} /\ Len(data) >= n

\* The tick a pool says it is at.
TickOf(data) == CHOOSE t \in V3Ticks : data[2] = t % (WordMax + 1)

\* data is the encoding of an array of n elements.
Encodes(data, n) ==
    \E k \in 1..Len(data) - 1 :
        data[1] = k * WordBytes /\ data[k + 1] = n /\ Len(data) >= k + 1 + n

\* The reads establish the metric: there is something to hold or to break.
Established(scope, answers) ==
    CASE scope.adapter = "grid" ->
            LET d == answers["slot0"] IN
            /\ SomeWords(d, 2)
            /\ d[1] \in V3Sqrt
            /\ \E t \in V3Ticks : d[2] = t % (WordMax + 1)
      [] scope.adapter = "yield" ->
            /\ Words(answers["totalAssets"], 1) /\ Words(answers["totalSupply"], 1)
            /\ answers["totalSupply"][1] > 0
      [] scope.adapter = "aave" ->
            LET d == answers["getUserAccountData"] IN
            Words(d, 6) /\ d[2] > 0 /\ d[6] < WordMax
      [] scope.adapter = "venus" ->
            LET a == answers["getAccountLiquidity"]
                m == answers["getAssetsIn"]
                b == answers["borrowBalanceStored"]
            IN  /\ Words(a, 3) /\ a[1] = 0 /\ 0 \in {a[2], a[3]}
                /\ SomeWords(b, 1) /\ b[1] > 0
                /\ SomeWords(m, 2) /\ \E n \in 1..Len(m) : Encodes(m, n)

\* The metric, once established, is within what the mandate allows.
Satisfied(scope, answers) ==
    CASE scope.adapter = "grid" ->
            TickOf(answers["slot0"]) >= scope.lower /\ TickOf(answers["slot0"]) <= scope.upper
      [] scope.adapter = "yield" ->
            answers["totalAssets"][1] * Scale >= scope.lower * answers["totalSupply"][1]
      [] scope.adapter = "aave" -> answers["getUserAccountData"][6] >= scope.lower
      [] scope.adapter = "venus" ->
            answers["getAccountLiquidity"][2] - answers["getAccountLiquidity"][3] >= scope.lower
=============================================================================
