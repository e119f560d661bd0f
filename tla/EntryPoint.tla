----------------------------- MODULE EntryPoint -----------------------------
(***************************************************************************)
(* A bundle of user operations on its way through the EntryPoint, the      *)
(* SpendingAccount and the SpendingPaymaster: handleOps validates all the  *)
(* operations of the bundle before it executes the first one.              *)
(*                                                                         *)
(* chain is everything a revert rolls back.  A bundle keeps the chain as   *)
(* it was when handleOps began, and as it was when the inner call of the   *)
(* operation being executed began.  Foreign code that runs inside an       *)
(* operation is the subject of SpendingAccount and does not call back      *)
(* here; the owner's emergency withdrawal is there too.                    *)
(***************************************************************************)
EXTENDS SpendingRules, FiniteSetsExt

CONSTANTS
    PREMIUM_BPS,     \* 500
    MAX_COST_CAP,    \* 0.01 ether
    MIN_POSTOP_GAS,  \* 100_000
    Ops,             \* the operations the owner may sign: see Op
    MaxOps,          \* bound on the length of a bundle
    MaxNonce,        \* bound on the account's nonce
    Prices,          \* what a unit of gas may cost in a block
    GasUsed,         \* what an operation may use before its postOp
    PostOpGas,       \* and what its postOp may use
    Funding,         \* the balances and deposits at deployment
    MaxFunds,        \* bound on a balance or deposit a transfer may lead to
    Deployed,        \* whether the account exists at the start
    DeployTime,      \* block.timestamp at the start
    MaxTime          \* bound on block.timestamp

Parties == {"account", "paymaster"}

\* A call of USDC or of somebody without code.
PlainCall == {c \in Call : c.target \in {"usdc", "eoa"}}

\* gas is the sum of the operation's gas limits, of which postOpGasLimit is one;
\* paymaster says whether the SpendingPaymaster sponsors the operation, signed
\* whether the owner's key signed it; without callData, fn = "none".  initCode is
\* "own" if it has the factory create the sender, "other" if it creates another
\* account or none.
Op == [initCode : {"none", "own", "other"}, fn : {"none", "execute"},
       calls : Seq(PlainCall), gas : Nat, postOpGasLimit : Nat,
       maxFeePerGas : Nat, paymaster : BOOLEAN, signed : BOOLEAN]

ASSUME EntryPointAssumption ==
    /\ PREMIUM_BPS \in Nat /\ MAX_COST_CAP \in Nat /\ MIN_POSTOP_GAS \in Nat
    /\ Ops \subseteq Op
    /\ MaxOps \in Nat /\ MaxNonce \in Nat /\ MaxFunds \in Nat /\ MaxTime \in Nat
    /\ Prices \subseteq Nat /\ GasUsed \subseteq Nat /\ PostOpGas \subseteq Nat
    /\ Funding \in [eth : Nat, usdc : Nat, deposit : [Parties -> Nat]]
    /\ DeployTime \in Nat \ {0} /\ Deployed \in BOOLEAN

VARIABLES
    now,     \* block.timestamp
    chain,   \* the contracts' storage and balances
    bundle   \* the handleOps call under way

vars == <<now, chain, bundle>>

\* ethOut and ran are history: the ETH the account has sent or prefunded since
\* lastReset, and the nonces executed.
Chain == [deployed : BOOLEAN, acct : Storage, funds : [Assets -> Nat],
          deposit : [Parties -> Nat], balance : Nat, nonce : Nat,
          paymasterUsdc : Nat, ethOut : [Windows -> Nat], ran : Seq(Nat)]

-----------------------------------------------------------------------------
(***************************************************************************)
(* Costs.  Both the account's projection and the paymaster's price are the *)
(* gas cost plus a premium, in USDC.                                       *)
(***************************************************************************)
min(a, b) == IF a < b THEN a ELSE b

getUserOpGasPrice(op, price) == min(op.maxFeePerGas, price)

getRequiredPrefund(op) == op.gas * op.maxFeePerGas

costInUsdc(cost) == ((cost + (cost * PREMIUM_BPS) \div BPS) * usdcPerEth) \div EtherUnit

getUsdcGasCostIfPaymaster(op, price) ==
    IF op.paymaster THEN costInUsdc(op.gas * getUserOpGasPrice(op, price)) ELSE 0

payer(op) == IF op.paymaster THEN "paymaster" ELSE "account"

incrementDeposit(ch, who, amount) == [ch EXCEPT !.deposit[who] = @ + amount]

-----------------------------------------------------------------------------
(***************************************************************************)
(* The account's creation, by the factory or by an operation's initCode.   *)
(* Its address is known before: it may have ETH, USDC and a deposit then.  *)
(* CREATE2 fails where there is code.                                      *)
(***************************************************************************)
canCreateAccount(ch) == ~ch.deployed

createAccount(ch, nowTs) == [ch EXCEPT !.deployed = TRUE, !.acct = constructor(nowTs)]

\* _createSenderIfNeeded: AA10, AA13, AA14 and AA15.
canCreateSender(ch, op) ==
    op.initCode # "none" => op.initCode = "own" /\ canCreateAccount(ch)

createSenderIfNeeded(ch, op, nowTs) ==
    IF op.initCode = "none" THEN ch ELSE createAccount(ch, nowTs)

-----------------------------------------------------------------------------
(***************************************************************************)
(* _validatePrepayment and the calls it makes.  The account pays what its  *)
(* deposit lacks into the EntryPoint's receive(), if it has that much; the *)
(* prefund is then taken from the deposit of whoever pays.                 *)
(***************************************************************************)
missingAccountFunds(ch, op) ==
    IF op.paymaster \/ ch.deposit["account"] > getRequiredPrefund(op)
    THEN 0 ELSE getRequiredPrefund(op) - ch.deposit["account"]

payPrefund(ch, op) ==
    LET paid == IF missingAccountFunds(ch, op) <= ch.funds["eth"]
                THEN missingAccountFunds(ch, op) ELSE 0
    IN  [incrementDeposit(ch, "account", paid) EXCEPT
            !.funds["eth"] = @ - paid,
            !.balance = @ + paid,
            !.ethOut = [w \in Windows |-> @[w] + paid]]

opSpend(op) == IF op.fn = "none" THEN [x \in Assets |-> 0] ELSE totalSpend(op.calls)

preflightSpend(op, price) == withGas(opSpend(op), getUsdcGasCostIfPaymaster(op, price))

\* The missing answer of an address without code is taken for one.
canValidateUserOp_Undeployed(ch, op, price, nowTs) ==
    /\ op.fn # "none" => canParseCalls(op.calls)
    /\ preflightSpend(op, price)["usdc"] <= MaxUint256
    /\ canValidatePreflightLimits(ch.acct, preflightSpend(op, price), nowTs)

canValidateUserOp(ch, op, price, nowTs) ==
    /\ ch.deployed
    /\ op.fn # "none" => canParseCalls(op.calls)
    /\ preflightSpend(op, price)["usdc"] <= MaxUint256
    /\ canValidatePreflightLimits(ch.acct, preflightSpend(op, price), nowTs)

validateUserOp(ch, op, price, nowTs) ==
    payPrefund([ch EXCEPT !.acct =
                   validatePreflightLimits(@, preflightSpend(op, price), nowTs)], op)

canValidatePaymasterUserOp(ch, op) ==
    /\ op.postOpGasLimit >= MIN_POSTOP_GAS
    /\ getRequiredPrefund(op) <= MAX_COST_CAP
    /\ ch.funds["usdc"] >= costInUsdc(getRequiredPrefund(op))

\* Mutant of validateAndUpdateNonce: the nonce is compared and not incremented.
validateAndUpdateNonce_Kept(ch) == ch

validateAndUpdateNonce(ch) == [ch EXCEPT !.nonce = @ + 1]

canValidatePrepayment(ch, op, nonce, price, nowTs) ==
    LET created == createSenderIfNeeded(ch, op, nowTs)
        after   == validateUserOp(created, op, price, nowTs)
    IN  /\ canCreateSender(ch, op)
        /\ canValidateUserOp(created, op, price, nowTs)
        /\ after.deposit[payer(op)] >= getRequiredPrefund(op)
        /\ nonce = ch.nonce
        /\ op.paymaster => canValidatePaymasterUserOp(after, op)

\* Mutant of validatePrepayment: the prefund is checked and not taken.
validatePrepayment_Free(ch, op, price, nowTs) ==
    validateAndUpdateNonce(
        validateUserOp(createSenderIfNeeded(ch, op, nowTs), op, price, nowTs))

validatePrepayment(ch, op, price, nowTs) ==
    LET after == validateAndUpdateNonce(
                    validateUserOp(createSenderIfNeeded(ch, op, nowTs), op, price, nowTs))
    IN  [after EXCEPT !.deposit[payer(op)] = @ - getRequiredPrefund(op)]

-----------------------------------------------------------------------------
(***************************************************************************)
(* The call of the account that innerHandleOp makes.  All its sends are    *)
(* made or none: recording the spend comes first, and a send the balance   *)
(* does not cover reverts the lot.                                         *)
(***************************************************************************)
canExecute(ch, op, nowTs) ==
    op.fn # "none" =>
        /\ canParseCalls(op.calls)
        /\ canValidateAndRecordSpend(ch.acct, opSpend(op), nowTs)
        /\ \A x \in Assets : opSpend(op)[x] <= ch.funds[x]

execute(ch, op, nowTs) ==
    IF op.fn = "none" THEN ch
    ELSE [ch EXCEPT
            !.acct = validateAndRecordSpend(@, opSpend(op), nowTs),
            !.funds = [x \in Assets |-> @[x] - opSpend(op)[x]],
            !.ethOut = [w \in Windows |->
                (IF Expired(ch.acct.lastReset, w, nowTs) THEN 0 ELSE @[w])
                + opSpend(op)["eth"]]]

\* Mutant of canPostOp: the transfer is made without the balance.
canPostOp_Unfunded(ch, actualGasCost, nowTs) ==
    canApplyUsdcSpend(ch.acct, costInUsdc(actualGasCost), nowTs)

\* The paymaster's postOp: payForGasInUsdc on the account, with USDC's transfer.
canPostOp(ch, actualGasCost, nowTs) ==
    /\ canApplyUsdcSpend(ch.acct, costInUsdc(actualGasCost), nowTs)
    /\ costInUsdc(actualGasCost) <= ch.funds["usdc"]

postOp(ch, actualGasCost, nowTs) ==
    [ch EXCEPT
        !.acct = applyUsdcSpend(@, costInUsdc(actualGasCost), nowTs),
        !.funds["usdc"] = @ - costInUsdc(actualGasCost),
        !.paymasterUsdc = @ + costInUsdc(actualGasCost),
        !.ethOut = [w \in Windows |->
            IF Expired(ch.acct.lastReset, w, nowTs) THEN 0 ELSE @[w]]]
-----------------------------------------------------------------------------
Idle == [phase |-> "idle"]

Init ==
    /\ now = DeployTime
    /\ chain = [deployed |-> Deployed,
                acct |-> constructor(DeployTime),   \* not read before it is deployed
                funds |-> [x \in Assets |-> Funding[x]],
                deposit |-> Funding.deposit,
                balance |-> Funding.deposit["account"] + Funding.deposit["paymaster"],
                nonce |-> 0,
                paymasterUsdc |-> 0,
                ethOut |-> [w \in Windows |-> 0],
                ran |-> <<>>]
    /\ bundle = Idle

Tick ==
    /\ bundle = Idle /\ now < MaxTime
    /\ now' = now + 1
    /\ UNCHANGED <<chain, bundle>>

\* Anybody has the factory create the account.
createAccountDirectly ==
    /\ bundle = Idle /\ canCreateAccount(chain)
    /\ chain' = createAccount(chain, now)
    /\ UNCHANGED <<now, bundle>>

\* Somebody sends ETH or USDC to the account.
receive(x) ==
    /\ bundle = Idle /\ chain.funds[x] < MaxFunds
    /\ chain' = [chain EXCEPT !.funds[x] = @ + 1]
    /\ UNCHANGED <<now, bundle>>

\* Somebody calls depositTo for the account or the paymaster, the account's
\* addDeposit, or the paymaster's deposit.
depositTo(who) ==
    /\ bundle = Idle /\ chain.deposit[who] < MaxFunds
    /\ chain' = [incrementDeposit(chain, who, 1) EXCEPT !.balance = @ + 1]
    /\ UNCHANGED <<now, bundle>>

\* The paymaster's owner withdraws from its deposit.
withdrawTo ==
    /\ bundle = Idle /\ chain.deposit["paymaster"] > 0
    /\ chain' = [chain EXCEPT !.deposit["paymaster"] = @ - 1, !.balance = @ - 1]
    /\ UNCHANGED <<now, bundle>>

-----------------------------------------------------------------------------
handleOps(ops, nonces, price) ==
    /\ bundle = Idle
    /\ bundle' = [phase |-> "validation", ops |-> ops, nonces |-> nonces,
                  price |-> price, i |-> 1, collected |-> 0,
                  start |-> chain, inner |-> chain, success |-> FALSE]
    /\ UNCHANGED <<now, chain>>

CurrentOp == bundle.ops[bundle.i]

\* A wrong signature is only looked at when all the rest has been validated.
validateSignature(op) == op.signed

CanValidate ==
    /\ canValidatePrepayment(chain, CurrentOp, bundle.nonces[bundle.i], bundle.price, now)
    /\ validateSignature(CurrentOp)

\* One round of _iterateValidationPhase; after the last, execution begins.
validateOp ==
    /\ bundle.phase = "validation" /\ CanValidate
    /\ chain' = validatePrepayment(chain, CurrentOp, bundle.price, now)
    /\ bundle' = IF bundle.i < Len(bundle.ops)
                 THEN [bundle EXCEPT !.i = @ + 1]
                 ELSE [bundle EXCEPT !.i = 1, !.phase = "execution"]
    /\ UNCHANGED now

\* An operation that does not validate reverts the whole of handleOps (FailedOp),
\* and so does a bundler who leaves too little gas for an inner call (AA95).
bundleReverts ==
    /\ \/ bundle.phase = "validation" /\ ~CanValidate
       \/ bundle.phase = "execution"
    /\ chain' = bundle.start
    /\ bundle' = Idle
    /\ UNCHANGED now

\* innerHandleOp calls the account, which returns or reverts.
executeUserOp(success) ==
    /\ bundle.phase = "execution" /\ bundle.i <= Len(bundle.ops)
    /\ IF success THEN canExecute(chain, CurrentOp, now) ELSE CurrentOp.fn # "none"
    /\ chain' = IF success THEN execute(chain, CurrentOp, now) ELSE chain
    /\ bundle' = [bundle EXCEPT !.phase = "post", !.inner = chain, !.success = success]
    /\ UNCHANGED now

\* The operation is over: cost is collected, the rest of the prefund refunded.
Settle(ch, cost) ==
    /\ chain' = [incrementDeposit(ch, payer(CurrentOp),
                                  getRequiredPrefund(CurrentOp) - cost)
                    EXCEPT !.ran = Append(@, bundle.nonces[bundle.i])]
    /\ bundle' = [bundle EXCEPT !.phase = "execution", !.i = @ + 1,
                               !.collected = @ + cost]
    /\ UNCHANGED now

\* _postExecution inside innerHandleOp.  The cost handed to postOp is the cost so
\* far; the gas of postOp itself comes on top.  If the prefund does not cover it
\* all, the inner call reverts and the whole prefund is the cost.
postExecution(gasUsed, postOpGas) ==
    LET op     == CurrentOp
        price  == getUserOpGasPrice(op, bundle.price)
        soFar  == gasUsed * price
        cost   == (gasUsed + postOpGas) * price
        after  == IF op.paymaster THEN postOp(chain, soFar, now) ELSE chain
    IN  /\ bundle.phase = "post"
        /\ op.paymaster => canPostOp(chain, soFar, now)
        /\ ~op.paymaster => postOpGas = 0
        /\ IF cost <= getRequiredPrefund(op)
           THEN Settle(after, cost)
           ELSE Settle(bundle.inner, getRequiredPrefund(op))

\* A postOp that reverts, for the account's reasons or USDC's, takes the inner
\* call with it; _postExecution in mode postOpReverted charges the paymaster.
postOpReverted(gasUsed, postOpGas) ==
    LET cost == (gasUsed + postOpGas) * getUserOpGasPrice(CurrentOp, bundle.price)
    IN  /\ bundle.phase = "post" /\ CurrentOp.paymaster
        /\ Settle(bundle.inner, min(cost, getRequiredPrefund(CurrentOp)))

\* All operations are executed: the bundler gets what was collected.
compensate ==
    /\ bundle.phase = "execution" /\ bundle.i > Len(bundle.ops)
    /\ chain' = [chain EXCEPT !.balance = @ - bundle.collected]
    /\ bundle' = Idle
    /\ UNCHANGED now

BundleStep ==
    \/ validateOp
    \/ bundleReverts
    \/ \E success \in BOOLEAN : executeUserOp(success)
    \/ \E g \in GasUsed, p \in PostOpGas : postExecution(g, p)
    \/ \E g \in GasUsed, p \in PostOpGas : postOpReverted(g, p)
    \/ compensate

Next ==
    \/ Tick
    \/ createAccountDirectly
    \/ \E x \in Assets : receive(x)
    \/ \E who \in Parties : depositTo(who)
    \/ withdrawTo
    \/ \E n \in 1..MaxOps : \E ops \in [1..n -> Ops], nonces \in [1..n -> 0..MaxNonce],
          price \in Prices : handleOps(ops, nonces, price)
    \/ BundleStep

Spec == Init /\ [][Next]_vars

-----------------------------------------------------------------------------
\* The types of the contracts' storage and balances; in particular no deposit
\* and no balance is ever overdrawn, by prefunds, refunds or the compensation.
ChainTypeOK ==
    /\ now \in Nat
    /\ chain \in Chain
    /\ bundle.phase \in {"idle", "validation", "execution", "post"}

\* The operations whose prefund the EntryPoint holds.
InFlight ==
    CASE bundle.phase = "idle"       -> {}
      [] bundle.phase = "validation" -> 1..(bundle.i - 1)
      [] OTHER                       -> bundle.i..Len(bundle.ops)

\* The EntryPoint's ETH is at every instant what it owes: the deposits, the
\* prefunds taken in validation and not yet settled, and the fees collected and
\* not yet paid out (_validatePrepayment, _postExecution, _compensate).
Solvency ==
    LET prefund == [k \in InFlight |-> getRequiredPrefund(bundle.ops[k])]
    IN  chain.balance = chain.deposit["account"] + chain.deposit["paymaster"]
                        + MapThenSumSet(LAMBDA k : prefund[k], InFlight)
                        + (IF bundle = Idle THEN 0 ELSE bundle.collected)

\* Every nonce the account has used belongs to one operation that was executed,
\* once and in order: also when its call, its postOp or the prefund failed, and
\* whatever bundles were reverted in between.
ExactlyOnce == bundle = Idle => chain.ran = [k \in 1..chain.nonce |-> k - 1]

\* Whatever has been done in the account's name was done by the account: no nonce of
\* it is used, no operation is executed and nothing it paid is gone before it exists,
\* also when the bundle that created it, or an operation behind it, is reverted, or
\* somebody else has created it first (_createSenderIfNeeded, _callValidateUserOp).
ActsOnceCreated ==
    ~chain.deployed =>
        /\ chain.nonce = 0 /\ chain.ran = <<>> /\ chain.paymasterUsdc = 0
        /\ \A w \in Windows : chain.ethOut[w] = 0
        /\ bundle.phase \in {"idle", "validation"}

AboutToExecuteAlone ==
    bundle.phase = "execution" /\ bundle.i = 1 /\ Len(bundle.ops) = 1

\* What the preflight of validateUserOp lets through, execute records: an
\* operation on ETH, alone in its bundle and not large, never fails a limit or
\* the cooldown after it has been charged for its validation.
PreflightSound ==
    AboutToExecuteAlone /\ CurrentOp.fn # "none"
    /\ ~isLarge(preflightSpend(CurrentOp, bundle.price)) /\ opSpend(CurrentOp)["usdc"] = 0
        => canValidateAndRecordSpend(chain.acct, opSpend(CurrentOp), now)

-----------------------------------------------------------------------------
\* SpendingAccountAdversarial.t.sol:226, "large spend can proceed again": a large
\* operation that passed validateUserOp, alone in its bundle, passes execute.
LargeOpExecutes ==
    AboutToExecuteAlone /\ CurrentOp.fn # "none" /\ isLarge(opSpend(CurrentOp))
        => canValidateAndRecordSpend(chain.acct, opSpend(CurrentOp), now)
=============================================================================
