--------------------------- MODULE SpendingRules ---------------------------
(***************************************************************************)
(* The internal functions of src/src/SpendingAccount.sol: how a call is    *)
(* parsed into an amount, what the preflight and the recording of a spend  *)
(* check, and which storage they leave.  Nothing here has state: a         *)
(* function that may revert is a pair of operators, the condition under    *)
(* which it returns (canF) and the storage it then leaves (F).  The state  *)
(* machines that call them are SpendingAccount and EntryPoint.             *)
(***************************************************************************)
EXTENDS LimitPolicy, Sequences

CONSTANTS
    Limit,                \* Limit[asset][window]: the four immutable limits
    usdcPerEth,           \* the operator's rate
    EtherUnit,            \* 1e18
    BPS,                  \* 10000, the unit of the basis-point constants
    PANIC_THRESHOLD_BPS,  \* 5000
    COOLDOWN_PERIOD,      \* 1 hour
    WITHDRAW_TIMELOCK,    \* 48 hours
    TRANSFER_SELECTOR,    \* IERC20.transfer.selector, as a number
    MaxUint256            \* the largest uint256 (checked arithmetic)

Assets  == {"eth", "usdc"}
Uint256 == 0..MaxUint256

ASSUME RulesAssumption ==
    /\ MaxUint256 \in Nat
    /\ Limit \in [Assets -> [Windows -> Uint256]]
    /\ usdcPerEth \in Uint256
    /\ EtherUnit \in Nat \ {0}
    /\ BPS \in Nat \ {0}
    /\ PANIC_THRESHOLD_BPS \in Nat
    /\ COOLDOWN_PERIOD \in Nat
    /\ WITHDRAW_TIMELOCK \in Nat \ {0}
    /\ TRANSFER_SELECTOR \in Nat \ {0}

-----------------------------------------------------------------------------
(***************************************************************************)
(* Storage.  The constructor anchors both windows at the deployment; the   *)
(* other slots start at zero.                                              *)
(***************************************************************************)
Storage == [spent : [Assets -> [Windows -> Nat]],
            lastReset : [Windows -> Nat],
            lastLargeSpendTime : Nat,
            emergencyWithdrawRequestTime : Nat]

constructor(nowTs) ==
    [spent |-> [x \in Assets |-> [w \in Windows |-> 0]],
     lastReset |-> [w \in Windows |-> nowTs],
     lastLargeSpendTime |-> 0,
     emergencyWithdrawRequestTime |-> 0]

-----------------------------------------------------------------------------
(***************************************************************************)
(* _parseSpendAmounts.  A call is a record of target, value and data; of   *)
(* data the parser sees its length, the 32-byte word that follows the      *)
(* selector (mload(data + 0x24)), and the decoded amount, while USDC sees  *)
(* the selector and the amount.  A word is known                           *)
(* by its first and its last four bytes: shr(224, word) moves the first    *)
(* four to the end and fills with zeros, and a bytes4 variable is the      *)
(* first four bytes of the stack slot that holds it.                       *)
(***************************************************************************)
\* Who may be called: USDC, somebody without code, somebody with code that may
\* call back, the account itself.
Targets == {"usdc", "eoa", "contract", "self"}

Call == [target : Targets, value : Uint256,
         data : [length : Nat, selector : Nat, word : [first : Nat, last : Nat],
                 amount : Uint256]]

Shr224(word) == [first |-> 0, last |-> word.first]

Bytes4(slot) == slot.first

selector(data) == Bytes4(Shr224(data.word))

canParseSpendAmounts(c) ==
    IF c.target = "usdc"
    THEN /\ c.value = 0
         /\ c.data.length >= 68
         /\ selector(c.data) = TRANSFER_SELECTOR
    ELSE c.value > 0

parseSpendAmounts(c) ==
    [x \in Assets |-> IF x = "eth" THEN c.value
                      ELSE IF c.target = "usdc" THEN c.data.amount ELSE 0]

(***************************************************************************)
(* The summing loop of executeBatch and of _parseSpendAmountsFromCallData: *)
(* the running total of asset x after each call.  The set is a singleton,  *)
(* and empty exactly when one of the checked additions overflows.          *)
(***************************************************************************)
RunningTotals(calls, x) ==
    {total \in [1..Len(calls) -> Uint256] :
        \A i \in 1..Len(calls) :
            total[i] = parseSpendAmounts(calls[i])[x]
                       + (IF i = 1 THEN 0 ELSE total[i-1])}

canParseCalls(calls) ==
    /\ \A i \in DOMAIN calls : canParseSpendAmounts(calls[i])
    /\ \A x \in Assets : RunningTotals(calls, x) # {}

parseCalls(calls) ==
    [x \in Assets |-> CHOOSE total \in RunningTotals(calls, x) : TRUE]

\* What the first i calls spend, and what they all spend.
UpTo(total, i) == [x \in Assets |-> IF i = 0 THEN 0 ELSE total[x][i]]

\* Mutant of totalSpend: the loop assigns where it should add.
totalSpend_Last(calls) ==
    [x \in Assets |-> IF calls = <<>> THEN 0 ELSE parseSpendAmounts(calls[Len(calls)])[x]]

totalSpend(calls) == UpTo(parseCalls(calls), Len(calls))

-----------------------------------------------------------------------------
(***************************************************************************)
(* _checkAndUpdatePanicCooldown, with the checked multiplications and the  *)
(* checked addition it makes.  d is a spend: an amount of each asset.      *)
(***************************************************************************)
getUsdValue(ethAmount) == (ethAmount * usdcPerEth) \div EtherUnit

panicThreshold == (Limit["usdc"]["daily"] * PANIC_THRESHOLD_BPS) \div BPS

isLarge(d) == getUsdValue(d["eth"]) + d["usdc"] > panicThreshold

\* Mutant of cooldownActive: the cooldown ends one tick early.
cooldownActive_Short(a, nowTs) ==
    /\ a.lastLargeSpendTime # 0
    /\ nowTs + 1 < a.lastLargeSpendTime + COOLDOWN_PERIOD

cooldownActive(a, nowTs) ==
    /\ a.lastLargeSpendTime # 0
    /\ nowTs < a.lastLargeSpendTime + COOLDOWN_PERIOD

canUpdatePanicCooldown(a, d, nowTs) ==
    /\ ~cooldownActive(a, nowTs)
    /\ d["eth"] * usdcPerEth <= MaxUint256
    /\ getUsdValue(d["eth"]) + d["usdc"] <= MaxUint256
    /\ Limit["usdc"]["daily"] * PANIC_THRESHOLD_BPS <= MaxUint256

checkAndUpdatePanicCooldown(a, d, nowTs) ==
    [a EXCEPT !.lastLargeSpendTime = IF isLarge(d) THEN nowTs ELSE @]

-----------------------------------------------------------------------------
\* Mutant of canValidatePreflightLimits: the preflight forgets the limits.
canValidatePreflightLimits_Cooldown(a, d, nowTs) == canUpdatePanicCooldown(a, d, nowTs)

(***************************************************************************)
(* _validatePreflightLimits: both assets' counters are reset against the   *)
(* stored timestamps, only to be compared with the limits; the only slot   *)
(* it writes is the cooldown's.                                            *)
(***************************************************************************)
canValidatePreflightLimits(a, d, nowTs) ==
    /\ \A x \in Assets : d[x] > 0 =>
          validateSpend(resetSpent(a.lastReset, a.spent[x], nowTs), Limit[x], d[x])
    /\ canUpdatePanicCooldown(a, d, nowTs)

\* validateUserOp adds the projected gas cost to the USDC it checks.
withGas(d, usdcGasCost) ==
    [x \in Assets |-> IF x = "usdc" THEN d[x] + usdcGasCost ELSE d[x]]

validatePreflightLimits(a, d, nowTs) == checkAndUpdatePanicCooldown(a, d, nowTs)

\* Mutant of countersToCharge: ETH too is reset against the new timestamps.
countersToCharge_Rolled(a, x, nowTs) ==
    resetSpent(newReset(a.lastReset, nowTs), a.spent[x], nowTs)

(***************************************************************************)
(* _applySpendAndUpdate.  The ETH counters are reset against the stored    *)
(* timestamps, the USDC counters against the timestamps that first call of *)
(* maybeResetWindows returned.  An asset with a zero amount keeps its      *)
(* stored counters; both timestamps are stored in every case.              *)
(***************************************************************************)
countersToCharge(a, x, nowTs) ==
    IF x = "eth"
    THEN resetSpent(a.lastReset, a.spent[x], nowTs)
    ELSE resetSpent(newReset(a.lastReset, nowTs), a.spent[x], nowTs)

\* Mutant of canApplySpendAndUpdate: only the daily limit is checked.
canApplySpendAndUpdate_Daily(a, d, nowTs) ==
    \A x \in Assets :
        d[x] > 0 => countersToCharge(a, x, nowTs)["daily"] + d[x] <= Limit[x]["daily"]

canApplySpendAndUpdate(a, d, nowTs) ==
    \A x \in Assets :
        d[x] > 0 => validateSpend(countersToCharge(a, x, nowTs), Limit[x], d[x])

\* Mutant of applySpendAndUpdate: the new timestamps are not stored.
applySpendAndUpdate_Anchored(a, d, nowTs) ==
    [a EXCEPT !.spent =
                  [x \in Assets |->
                      IF d[x] > 0
                      THEN [w \in Windows |-> countersToCharge(a, x, nowTs)[w] + d[x]]
                      ELSE a.spent[x]]]

applySpendAndUpdate(a, d, nowTs) ==
    [a EXCEPT !.spent =
                  [x \in Assets |->
                      IF d[x] > 0
                      THEN [w \in Windows |-> countersToCharge(a, x, nowTs)[w] + d[x]]
                      ELSE a.spent[x]],
              !.lastReset = newReset(a.lastReset, nowTs)]

\* _applyUsdcSpend: as above for USDC alone, and with no test for a zero amount.
canApplyUsdcSpend(a, amount, nowTs) ==
    validateSpend(countersToCharge(a, "usdc", nowTs), Limit["usdc"], amount)

applyUsdcSpend(a, amount, nowTs) ==
    [a EXCEPT !.spent["usdc"] =
                  [w \in Windows |-> countersToCharge(a, "usdc", nowTs)[w] + amount],
              !.lastReset = newReset(a.lastReset, nowTs)]

(***************************************************************************)
(* What execute and executeBatch check and record before their first       *)
(* external call: the cooldown first, then the counters.                   *)
(***************************************************************************)
canValidateAndRecordSpend(a, d, nowTs) ==
    /\ canUpdatePanicCooldown(a, d, nowTs)
    /\ canApplySpendAndUpdate(a, d, nowTs)

validateAndRecordSpend(a, d, nowTs) ==
    applySpendAndUpdate(checkAndUpdatePanicCooldown(a, d, nowTs), d, nowTs)
=============================================================================
