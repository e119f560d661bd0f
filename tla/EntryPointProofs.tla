-------------------------- MODULE EntryPointProofs --------------------------
(***************************************************************************)
(* The bundles of EntryPoint, for any operations, prices, limits and       *)
(* bounds.                                                                 *)
(*                                                                         *)
(* A bundle that reverts brings back the chain it started from, and an     *)
(* inner call that reverts the one before it: the invariant says of each   *)
(* of the saved chains what it says of the current one.  Between bundles a *)
(* chain is settled.  Inside one, the nonces run ahead of the operations   *)
(* executed, and the balance ahead of the deposits, by what the operations *)
(* in flight and the fees collected account for.                           *)
(***************************************************************************)
EXTENDS EntryPoint, SpendingRulesProofs, FiniteSums

Deposits(ch) == ch.deposit["account"] + ch.deposit["paymaster"]

\* The first m nonces are the ones executed.
RanFirst(ch, m) == Len(ch.ran) = m /\ \A k \in 1..m : ch.ran[k] = k - 1

Unused(ch) ==
    /\ ch.nonce = 0 /\ ch.ran = <<>> /\ ch.paymasterUsdc = 0
    /\ \A w \in Windows : ch.ethOut[w] = 0

\* The chain between two bundles.
Settled(ch) ==
    /\ ch \in Chain
    /\ RanFirst(ch, ch.nonce)
    /\ ~ch.deployed => Unused(ch)
    /\ ch.balance = Deposits(ch)

Bundle == [phase : {"validation", "execution", "post"}, ops : Seq(Ops), nonces : Seq(Nat),
           price : Nat, i : Nat, collected : Nat, start : Chain, inner : Chain,
           success : BOOLEAN]

Prefund(ops, S) == [k \in S |-> getRequiredPrefund(ops[k])]

\* Bundle b has taken in more than it has put into the deposits.
Held(b, S) == SumOf(Prefund(b.ops, S), S) + b.collected

\* The nonces of the first m operations of b follow those used before it.
NoncesOK(b, m) == \A k \in 1..m : b.nonces[k] = b.start.nonce + k - 1

ValidationOK(b, ch) ==
    b.phase = "validation" =>
        /\ b.i <= Len(b.ops)
        /\ ch.nonce = b.start.nonce + b.i - 1
        /\ RanFirst(ch, b.start.nonce)
        /\ NoncesOK(b, b.i - 1)
        /\ ~ch.deployed => Unused(ch)
        /\ ch.balance = Deposits(ch) + Held(b, 1..(b.i - 1))

\* The chain while the operations from the i-th on are not settled.
ExecutingOK(b, ch) ==
    /\ ch \in Chain /\ ch.deployed
    /\ ch.nonce = b.start.nonce + Len(b.ops)
    /\ RanFirst(ch, b.start.nonce + b.i - 1)
    /\ ch.balance = Deposits(ch) + Held(b, b.i..Len(b.ops))

ExecutionOK(b, ch) ==
    b.phase \in {"execution", "post"} =>
        /\ b.i <= Len(b.ops) + 1
        /\ b.phase = "post" => b.i <= Len(b.ops) /\ ExecutingOK(b, b.inner)
        /\ NoncesOK(b, Len(b.ops))
        /\ ExecutingOK(b, ch)

\* The preflight of an operation that is alone and not large still holds when it is
\* about to be executed.
PreflightHolds(b, ch, n) ==
    b.phase = "execution" /\ b.i = 1 /\ Len(b.ops) = 1 /\ b.ops[1].fn # "none"
    /\ ~isLarge(preflightSpend(b.ops[1], b.price))
        => /\ canParseCalls(b.ops[1].calls)
           /\ canValidatePreflightLimits(ch.acct, preflightSpend(b.ops[1], b.price), n)

UnderWay(b, ch, n) ==
    /\ b \in Bundle /\ b.i >= 1 /\ Len(b.nonces) = Len(b.ops)
    /\ Settled(b.start)
    /\ ch \in Chain
    /\ ValidationOK(b, ch)
    /\ ExecutionOK(b, ch)
    /\ PreflightHolds(b, ch, n)

EntryPointInv ==
    /\ now \in Nat
    /\ bundle = Idle => Settled(chain)
    /\ bundle # Idle => UnderWay(bundle, chain, now)

-----------------------------------------------------------------------------
(***************************************************************************)
(* Operations and costs.                                                   *)
(***************************************************************************)
LEMMA OpTypes ==
    ASSUME NEW op \in Ops
    PROVE  /\ op \in Op /\ op.calls \in Seq(Call)
           /\ op.gas \in Nat /\ op.maxFeePerGas \in Nat /\ op.paymaster \in BOOLEAN
           /\ getRequiredPrefund(op) \in Nat
           /\ payer(op) \in Parties
<1>1. op \in Op
  BY EntryPointAssumption
<1>2. /\ op.calls \in Seq(PlainCall) /\ op.gas \in Nat /\ op.maxFeePerGas \in Nat
      /\ op.paymaster \in BOOLEAN
  BY <1>1 DEF Op
<1>3. op.calls \in Seq(Call)
  <2>1. \A c \in PlainCall : c \in Call
    BY DEF PlainCall
  <2>2. /\ Len(op.calls) \in Nat
        /\ op.calls \in [1..Len(op.calls) -> PlainCall]
    BY <1>2
  <2>3. op.calls \in [1..Len(op.calls) -> Call]
    BY <2>1, <2>2
  <2> QED
    BY <2>2, <2>3, FunctionIsSequence
<1>4. getRequiredPrefund(op) \in Nat
  BY <1>2 DEF getRequiredPrefund
<1>5. payer(op) \in Parties
  BY DEF payer, Parties
<1> QED
  BY <1>1, <1>2, <1>3, <1>4, <1>5

LEMMA CostTypes ==
    ASSUME NEW cost \in Nat
    PROVE  costInUsdc(cost) \in Nat
<1>1. cost * PREMIUM_BPS \in Nat
  BY EntryPointAssumption
<1>2. (cost * PREMIUM_BPS) \div BPS \in Nat
  BY <1>1, RulesAssumption, QuotientSmaller
<1>3. usdcPerEth \in Nat
  BY RulesAssumption DEF Uint256
<1> DEFINE q == (cost * PREMIUM_BPS) \div BPS
<1>4. q \in Nat
  BY <1>2
<1> HIDE DEF q
<1>5. (cost + q) * usdcPerEth \in Nat
  BY <1>3, <1>4
<1>6. ((cost + q) * usdcPerEth) \div EtherUnit \in Nat
  BY <1>5, RulesAssumption, QuotientSmaller
<1> QED
  BY <1>6 DEF costInUsdc, q

LEMMA GasPriceTypes ==
    ASSUME NEW op \in Ops, NEW price \in Nat
    PROVE  /\ getUserOpGasPrice(op, price) \in Nat
           /\ getUsdcGasCostIfPaymaster(op, price) \in Nat
<1>1. op.gas \in Nat /\ op.maxFeePerGas \in Nat
  BY OpTypes
<1>2. getUserOpGasPrice(op, price) \in Nat
  BY <1>1 DEF getUserOpGasPrice, min
<1>3. op.gas * getUserOpGasPrice(op, price) \in Nat
  BY <1>1, <1>2
<1>4. costInUsdc(op.gas * getUserOpGasPrice(op, price)) \in Nat
  BY <1>3, CostTypes
<1> QED
  BY <1>2, <1>4 DEF getUsdcGasCostIfPaymaster

\* An operation that was parsed spends naturals.
LEMMA SpendTypes ==
    ASSUME NEW op \in Ops, op.fn # "none" => canParseCalls(op.calls), NEW price \in Nat
    PROVE  /\ opSpend(op) \in [Assets -> Nat]
           /\ preflightSpend(op, price)["eth"] = opSpend(op)["eth"]
           /\ preflightSpend(op, price)["usdc"]
                 = opSpend(op)["usdc"] + getUsdcGasCostIfPaymaster(op, price)
<1>1. opSpend(op) \in [Assets -> Nat]
  BY OpTypes, TotalsTypes DEF opSpend
<1> QED
  BY <1>1 DEF preflightSpend, withGas, Assets

-----------------------------------------------------------------------------
(***************************************************************************)
(* What the functions of the EntryPoint, the account and the paymaster     *)
(* make of the chain.                                                      *)
(***************************************************************************)
LEMMA ChainTypes ==
    ASSUME NEW ch \in Chain
    PROVE  /\ ch.deployed \in BOOLEAN /\ ch.acct \in Storage
           /\ ch.funds \in [Assets -> Nat] /\ ch.deposit \in [Parties -> Nat]
           /\ ch.funds["eth"] \in Nat /\ ch.funds["usdc"] \in Nat
           /\ ch.deposit["account"] \in Nat /\ ch.deposit["paymaster"] \in Nat
           /\ Deposits(ch) \in Nat
           /\ ch.balance \in Nat /\ ch.nonce \in Nat /\ ch.paymasterUsdc \in Nat
           /\ ch.ethOut \in [Windows -> Nat] /\ ch.ran \in Seq(Nat)
BY DEF Chain, Assets, Parties, Deposits

LEMMA ConstructorTypes ==
    ASSUME NEW n \in Nat
    PROVE  constructor(n) \in Storage
BY DEF constructor, Storage

LEMMA AccountCreated ==
    ASSUME NEW ch \in Chain, NEW n \in Nat
    PROVE  \E c \in Chain :
              /\ c = createAccount(ch, n)
              /\ c.deployed /\ c.funds = ch.funds /\ c.deposit = ch.deposit
              /\ c.balance = ch.balance /\ c.nonce = ch.nonce
              /\ c.paymasterUsdc = ch.paymasterUsdc /\ c.ethOut = ch.ethOut
              /\ c.ran = ch.ran
<1> DEFINE c == createAccount(ch, n)
<1>1. constructor(n) \in Storage
  BY ConstructorTypes
<1>2. c \in Chain
  BY <1>1 DEF createAccount, Chain
<1>3. /\ c.deployed /\ c.funds = ch.funds /\ c.deposit = ch.deposit
      /\ c.balance = ch.balance /\ c.nonce = ch.nonce
      /\ c.paymasterUsdc = ch.paymasterUsdc /\ c.ethOut = ch.ethOut
      /\ c.ran = ch.ran
  BY DEF createAccount, Chain
<1> QED
  BY <1>2, <1>3

LEMMA SenderCreated ==
    ASSUME NEW ch \in Chain, NEW op, NEW n \in Nat
    PROVE  \E c \in Chain :
              /\ c = createSenderIfNeeded(ch, op, n)
              /\ c.funds = ch.funds /\ c.deposit = ch.deposit
              /\ c.balance = ch.balance /\ c.nonce = ch.nonce
              /\ c.paymasterUsdc = ch.paymasterUsdc /\ c.ethOut = ch.ethOut
              /\ c.ran = ch.ran
<1>1. CASE op.initCode = "none"
  BY <1>1 DEF createSenderIfNeeded
<1>2. CASE op.initCode # "none"
  BY <1>2, AccountCreated DEF createSenderIfNeeded
<1> QED
  BY <1>1, <1>2

\* A deposit changes, and the balance with it or not.
LEMMA DepositSet ==
    ASSUME NEW ch \in Chain, NEW who \in Parties, NEW amount \in Int,
           ch.deposit[who] + amount \in Nat
    PROVE  \E c \in Chain :
              /\ c = [ch EXCEPT !.deposit[who] = @ + amount]
              /\ c.deployed = ch.deployed /\ c.acct = ch.acct /\ c.funds = ch.funds
              /\ c.deposit[who] = ch.deposit[who] + amount
              /\ Deposits(c) = Deposits(ch) + amount
              /\ c.balance = ch.balance /\ c.nonce = ch.nonce
              /\ c.paymasterUsdc = ch.paymasterUsdc /\ c.ethOut = ch.ethOut
              /\ c.ran = ch.ran
<1> DEFINE c == [ch EXCEPT !.deposit[who] = @ + amount]
<1>1. /\ c.deployed = ch.deployed /\ c.acct = ch.acct /\ c.funds = ch.funds
      /\ c.deposit = [ch.deposit EXCEPT ![who] = ch.deposit[who] + amount]
      /\ c.balance = ch.balance /\ c.nonce = ch.nonce
      /\ c.paymasterUsdc = ch.paymasterUsdc /\ c.ethOut = ch.ethOut
      /\ c.ran = ch.ran
  BY DEF Chain
<1>2. c.deposit \in [Parties -> Nat]
  BY <1>1 DEF Chain
<1>3. c \in Chain
  BY <1>2 DEF Chain
<1>4. Deposits(c) = Deposits(ch) + amount
  BY <1>1, ChainTypes DEF Deposits, Parties, Chain
<1>5. c.deposit[who] = ch.deposit[who] + amount
  BY <1>1 DEF Chain
<1> QED
  BY <1>1, <1>3, <1>4, <1>5

\* The account moves ETH into its deposit.
LEMMA Prefunded ==
    ASSUME NEW ch \in Chain, NEW op \in Ops
    PROVE  \E c \in Chain :
              /\ c = payPrefund(ch, op)
              /\ c.deployed = ch.deployed /\ c.acct = ch.acct
              /\ c.balance - Deposits(c) = ch.balance - Deposits(ch)
              /\ c.nonce = ch.nonce
              /\ c.paymasterUsdc = ch.paymasterUsdc /\ c.ran = ch.ran
<1> DEFINE missing == missingAccountFunds(ch, op)
           paid == IF missing <= ch.funds["eth"] THEN missing ELSE 0
           d == incrementDeposit(ch, "account", paid)
           c == [d EXCEPT !.funds["eth"] = @ - paid, !.balance = @ + paid,
                          !.ethOut = [w \in Windows |-> @[w] + paid]]
<1>1. missing \in Nat
  BY OpTypes, ChainTypes DEF missingAccountFunds
<1> HIDE DEF missing
<1>2. paid \in Nat /\ paid <= ch.funds["eth"]
  BY <1>1, ChainTypes
<1> HIDE DEF paid
<1>3. /\ d \in Chain
      /\ d.deployed = ch.deployed /\ d.acct = ch.acct /\ d.funds = ch.funds
      /\ Deposits(d) = Deposits(ch) + paid
      /\ d.balance = ch.balance /\ d.nonce = ch.nonce
      /\ d.paymasterUsdc = ch.paymasterUsdc /\ d.ethOut = ch.ethOut
      /\ d.ran = ch.ran
  <2>1. "account" \in Parties /\ ch.deposit["account"] + paid \in Nat
    BY <1>2, ChainTypes DEF Parties
  <2> QED
    BY <2>1, <1>2, DepositSet DEF incrementDeposit
<1> HIDE DEF d
<1>4. /\ c.deployed = d.deployed /\ c.acct = d.acct /\ c.deposit = d.deposit
      /\ c.nonce = d.nonce /\ c.paymasterUsdc = d.paymasterUsdc /\ c.ran = d.ran
      /\ c.balance = d.balance + paid
      /\ c.funds = [d.funds EXCEPT !["eth"] = d.funds["eth"] - paid]
      /\ c.ethOut = [w \in Windows |-> d.ethOut[w] + paid]
  BY <1>3 DEF Chain
<1>5. c.funds \in [Assets -> Nat] /\ c.ethOut \in [Windows -> Nat] /\ c.balance \in Nat
  <2>1. /\ d.funds \in [Assets -> Nat] /\ d.ethOut \in [Windows -> Nat] /\ d.balance \in Nat
        /\ d.funds["eth"] \in Nat /\ paid <= d.funds["eth"]
    BY <1>2, <1>3, ChainTypes
  <2>2. d.funds["eth"] - paid \in Nat /\ d.balance + paid \in Nat
    BY <1>2, <2>1
  <2> HIDE DEF c
  <2>3. c.funds \in [Assets -> Nat] /\ c.balance \in Nat
    BY <1>4, <2>1, <2>2
  <2>4. c.ethOut \in [Windows -> Nat]
    BY <1>2, <1>4, <2>1
  <2> QED
    BY <2>3, <2>4
<1>6. c \in Chain
  BY <1>3, <1>5 DEF Chain
<1>7. c.balance - Deposits(c) = ch.balance - Deposits(ch)
  <2>1. Deposits(c) = Deposits(d)
    BY <1>4 DEF Deposits
  <2> QED
    BY <2>1, <1>2, <1>3, <1>4, ChainTypes
<1>8. c = payPrefund(ch, op)
  BY DEF payPrefund, c, d, paid, missing
<1> HIDE DEF c
<1> QED
  BY <1>3, <1>4, <1>6, <1>7, <1>8

\* A chain with other storage for the account.
LEMMA StorageSet ==
    ASSUME NEW ch \in Chain, NEW a \in Storage
    PROVE  \E c \in Chain :
              /\ c = [ch EXCEPT !.acct = a]
              /\ c.acct = a
              /\ c.deployed = ch.deployed /\ c.funds = ch.funds /\ c.deposit = ch.deposit
              /\ c.balance = ch.balance /\ c.nonce = ch.nonce
              /\ c.paymasterUsdc = ch.paymasterUsdc /\ c.ethOut = ch.ethOut
              /\ c.ran = ch.ran
<1> DEFINE c == [ch EXCEPT !.acct = a]
<1>1. c \in Chain
  BY DEF Chain
<1>2. /\ c.acct = a
      /\ c.deployed = ch.deployed /\ c.funds = ch.funds /\ c.deposit = ch.deposit
      /\ c.balance = ch.balance /\ c.nonce = ch.nonce
      /\ c.paymasterUsdc = ch.paymasterUsdc /\ c.ethOut = ch.ethOut
      /\ c.ran = ch.ran
  BY DEF Chain
<1> QED
  BY <1>1, <1>2

LEMMA NonceUsed ==
    ASSUME NEW ch \in Chain
    PROVE  \E c \in Chain :
              /\ c = validateAndUpdateNonce(ch)
              /\ c.nonce = ch.nonce + 1
              /\ c.deployed = ch.deployed /\ c.acct = ch.acct /\ c.deposit = ch.deposit
              /\ c.balance = ch.balance
              /\ c.paymasterUsdc = ch.paymasterUsdc /\ c.ran = ch.ran
<1> DEFINE c == validateAndUpdateNonce(ch)
<1>1. c \in Chain
  <2>1. ch.nonce + 1 \in Nat
    BY ChainTypes
  <2> QED
    BY <2>1 DEF Chain, validateAndUpdateNonce
<1>2. /\ c.nonce = ch.nonce + 1
      /\ c.deployed = ch.deployed /\ c.acct = ch.acct /\ c.deposit = ch.deposit
      /\ c.balance = ch.balance
      /\ c.paymasterUsdc = ch.paymasterUsdc /\ c.ran = ch.ran
  BY DEF Chain, validateAndUpdateNonce
<1> QED
  BY <1>1, <1>2

\* A preflight that is not of a large spend leaves the storage for another like it.
LEMMA PreflightRepeats ==
    ASSUME NEW a \in Storage, NEW d, NEW n \in Nat,
           canValidatePreflightLimits(a, d, n), ~isLarge(d)
    PROVE  canValidatePreflightLimits(validatePreflightLimits(a, d, n), d, n)
<1> DEFINE b == validatePreflightLimits(a, d, n)
<1>1. /\ b.spent = a.spent /\ b.lastReset = a.lastReset
      /\ b.lastLargeSpendTime = a.lastLargeSpendTime
  BY CooldownUpdated DEF validatePreflightLimits
<1> HIDE DEF b
<1>2. canUpdatePanicCooldown(b, d, n)
  BY <1>1 DEF canValidatePreflightLimits, canUpdatePanicCooldown, cooldownActive
<1>3. ASSUME NEW x \in Assets, d[x] > 0
      PROVE  validateSpend(resetSpent(b.lastReset, b.spent[x], n), Limit[x], d[x])
  BY <1>1, <1>3 DEF canValidatePreflightLimits
<1>4. canValidatePreflightLimits(b, d, n)
  BY <1>2, <1>3 DEF canValidatePreflightLimits
<1> QED
  BY <1>4 DEF b

LEMMA OpValidated ==
    ASSUME NEW ch \in Chain, NEW op \in Ops, NEW n \in Nat, NEW price \in Nat,
           canValidateUserOp(ch, op, price, n)
    PROVE  \E c \in Chain :
              /\ c = validateUserOp(ch, op, price, n)
              /\ c.deployed
              /\ ~isLarge(preflightSpend(op, price)) =>
                    canValidatePreflightLimits(c.acct, preflightSpend(op, price), n)
              /\ c.balance - Deposits(c) = ch.balance - Deposits(ch)
              /\ c.nonce = ch.nonce
              /\ c.paymasterUsdc = ch.paymasterUsdc /\ c.ran = ch.ran
<1> DEFINE d == preflightSpend(op, price)
           a == validatePreflightLimits(ch.acct, d, n)
<1>1. ch.deployed /\ canValidatePreflightLimits(ch.acct, d, n)
  BY DEF canValidateUserOp
<1>2. ch.acct \in Storage
  BY ChainTypes
<1> HIDE DEF d
<1>3. a \in Storage /\ (~isLarge(d) => canValidatePreflightLimits(a, d, n))
  <2>1. a \in Storage
    BY <1>2, CooldownUpdated DEF validatePreflightLimits
  <2> QED
    BY <2>1, <1>1, <1>2, PreflightRepeats
<1> HIDE DEF a
<1>4. PICK e \in Chain :
         /\ e = [ch EXCEPT !.acct = a]
         /\ e.acct = a /\ e.deployed = ch.deployed /\ e.deposit = ch.deposit
         /\ e.balance = ch.balance /\ e.nonce = ch.nonce
         /\ e.paymasterUsdc = ch.paymasterUsdc /\ e.ran = ch.ran
  BY <1>3, StorageSet
<1>5. PICK c \in Chain :
         /\ c = payPrefund(e, op)
         /\ c.deployed = e.deployed /\ c.acct = e.acct
         /\ c.balance - Deposits(c) = e.balance - Deposits(e)
         /\ c.nonce = e.nonce
         /\ c.paymasterUsdc = e.paymasterUsdc /\ c.ran = e.ran
  BY Prefunded
<1>6. c = validateUserOp(ch, op, price, n)
  BY <1>4, <1>5 DEF validateUserOp, a, d
<1>7. Deposits(e) = Deposits(ch)
  BY <1>4 DEF Deposits
<1> QED
  BY <1>1, <1>3, <1>4, <1>5, <1>6, <1>7 DEF d

\* The validation of an operation takes its prefund and uses its nonce.
LEMMA Validated ==
    ASSUME NEW ch \in Chain, NEW op \in Ops, NEW nonce, NEW n \in Nat, NEW price \in Nat,
           canValidatePrepayment(ch, op, nonce, price, n)
    PROVE  /\ nonce = ch.nonce
           /\ op.fn # "none" => canParseCalls(op.calls)
           /\ \E c \in Chain :
                 /\ c = validatePrepayment(ch, op, price, n)
                 /\ c.deployed
                 /\ ~isLarge(preflightSpend(op, price)) =>
                       canValidatePreflightLimits(c.acct, preflightSpend(op, price), n)
                 /\ c.balance - Deposits(c)
                       = ch.balance - Deposits(ch) + getRequiredPrefund(op)
                 /\ c.nonce = ch.nonce + 1
                 /\ c.paymasterUsdc = ch.paymasterUsdc /\ c.ran = ch.ran
<1>1. PICK e \in Chain :
         /\ e = createSenderIfNeeded(ch, op, n)
         /\ e.deposit = ch.deposit /\ e.balance = ch.balance /\ e.nonce = ch.nonce
         /\ e.paymasterUsdc = ch.paymasterUsdc /\ e.ran = ch.ran
  BY SenderCreated
<1>2. /\ nonce = ch.nonce
      /\ canValidateUserOp(e, op, price, n)
      /\ validateUserOp(e, op, price, n).deposit[payer(op)] >= getRequiredPrefund(op)
  BY <1>1 DEF canValidatePrepayment
<1>3. op.fn # "none" => canParseCalls(op.calls)
  BY <1>2 DEF canValidateUserOp
<1>4. PICK v \in Chain :
         /\ v = validateUserOp(e, op, price, n)
         /\ v.deployed
         /\ ~isLarge(preflightSpend(op, price)) =>
               canValidatePreflightLimits(v.acct, preflightSpend(op, price), n)
         /\ v.balance - Deposits(v) = e.balance - Deposits(e)
         /\ v.nonce = e.nonce
         /\ v.paymasterUsdc = e.paymasterUsdc /\ v.ran = e.ran
  BY <1>2, OpValidated
<1>5. PICK u \in Chain :
         /\ u = validateAndUpdateNonce(v)
         /\ u.nonce = v.nonce + 1
         /\ u.deployed = v.deployed /\ u.acct = v.acct /\ u.deposit = v.deposit
         /\ u.balance = v.balance
         /\ u.paymasterUsdc = v.paymasterUsdc /\ u.ran = v.ran
  BY NonceUsed
<1> DEFINE fee == getRequiredPrefund(op)
<1>6. /\ fee \in Nat /\ -fee \in Int /\ payer(op) \in Parties
      /\ u.deposit \in [Parties -> Nat]
      /\ u.deposit[payer(op)] \in Nat /\ u.deposit[payer(op)] >= fee
  BY <1>2, <1>4, <1>5, OpTypes, ChainTypes
<1>7. u.deposit[payer(op)] + (-fee) \in Nat
  BY <1>6
<1>8. PICK c \in Chain :
         /\ c = [u EXCEPT !.deposit[payer(op)] = @ + (-fee)]
         /\ c.deployed = u.deployed /\ c.acct = u.acct
         /\ Deposits(c) = Deposits(u) + (-fee)
         /\ c.balance = u.balance /\ c.nonce = u.nonce
         /\ c.paymasterUsdc = u.paymasterUsdc /\ c.ran = u.ran
  BY <1>6, <1>7, DepositSet
<1>9. c = validatePrepayment(ch, op, price, n)
  <2>1. c = [u EXCEPT !.deposit[payer(op)] = @ - fee]
    <3>1. u.deposit[payer(op)] + (-fee) = u.deposit[payer(op)] - fee
      BY <1>6
    <3> QED
      BY <3>1, <1>8
  <2> QED
    BY <2>1, <1>1, <1>4, <1>5 DEF validatePrepayment
<1>10. c.balance - Deposits(c) = ch.balance - Deposits(ch) + fee
  <2>1. Deposits(u) = Deposits(v) /\ Deposits(e) = Deposits(ch)
    BY <1>1, <1>5 DEF Deposits
  <2>2. /\ Deposits(u) \in Int /\ u.balance \in Int
        /\ Deposits(ch) \in Int /\ ch.balance \in Int
    BY ChainTypes
  <2>3. c.balance = u.balance /\ Deposits(c) = Deposits(u) - fee
    BY <1>6, <1>8, <2>2
  <2>4. u.balance - Deposits(u) = ch.balance - Deposits(ch)
    BY <2>1, <1>1, <1>4, <1>5
  <2> QED
    BY <1>6, <2>2, <2>3, <2>4
<1>11. c.nonce = ch.nonce + 1 /\ c.paymasterUsdc = ch.paymasterUsdc /\ c.ran = ch.ran
  BY <1>1, <1>4, <1>5, <1>8
<1>12. c.deployed /\ c.acct = v.acct
  BY <1>4, <1>5, <1>8, Zenon
<1>13. ~isLarge(preflightSpend(op, price)) =>
          canValidatePreflightLimits(c.acct, preflightSpend(op, price), n)
  BY <1>4, <1>12, Zenon
<1> QED
  BY <1>2, <1>3, <1>9, <1>10, <1>11, <1>12, <1>13, Zenon

LEMMA RecordedStorage ==
    ASSUME NEW a \in Storage, NEW n \in Nat
    PROVE  /\ \A d \in [Assets -> Nat] : validateAndRecordSpend(a, d, n) \in Storage
           /\ \A amount \in Nat : applyUsdcSpend(a, amount, n) \in Storage
<1>1. ASSUME NEW d \in [Assets -> Nat] PROVE validateAndRecordSpend(a, d, n) \in Storage
  BY RecordedTypes
<1>2. ASSUME NEW amount \in Nat PROVE applyUsdcSpend(a, amount, n) \in Storage
  BY ChargedTypes
<1> QED
  BY <1>1, <1>2

\* The account's call and the paymaster's postOp leave alone what the EntryPoint keeps.
LEMMA Executed ==
    ASSUME NEW ch \in Chain, NEW op \in Ops, NEW n \in Nat, canExecute(ch, op, n)
    PROVE  \E c \in Chain :
              /\ c = execute(ch, op, n)
              /\ c.deployed = ch.deployed /\ c.deposit = ch.deposit
              /\ c.balance = ch.balance /\ c.nonce = ch.nonce /\ c.ran = ch.ran
<1>1. CASE op.fn = "none"
  BY <1>1 DEF execute
<1>2. CASE op.fn # "none"
  <2> DEFINE d == opSpend(op)
             a == validateAndRecordSpend(ch.acct, d, n)
             funds == [x \in Assets |-> ch.funds[x] - d[x]]
             out == [w \in Windows |->
                        (IF Expired(ch.acct.lastReset, w, n) THEN 0 ELSE ch.ethOut[w])
                        + d["eth"]]
             c == [ch EXCEPT !.acct = a, !.funds = funds, !.ethOut = out]
  <2>1. d \in [Assets -> Nat] /\ \A x \in Assets : d[x] <= ch.funds[x]
    BY <1>2, SpendTypes DEF canExecute
  <2>2. c = execute(ch, op, n)
    BY <1>2 DEF execute
  <2> HIDE DEF d
  <2>3. a \in Storage
    <3>1. ch.acct \in Storage
      BY ChainTypes
    <3> QED
      BY <2>1, <3>1, RecordedStorage
  <2>4. funds \in [Assets -> Nat]
    BY <2>1, ChainTypes
  <2>5. out \in [Windows -> Nat]
    <3>1. "eth" \in Assets /\ ch.ethOut \in [Windows -> Nat]
      BY ChainTypes DEF Assets
    <3>2. d["eth"] \in Nat
      BY <2>1, <3>1
    <3> QED
      BY <3>1, <3>2
  <2> HIDE DEF a, funds, out
  <2>6. c \in Chain
    BY <2>3, <2>4, <2>5 DEF Chain
  <2>7. /\ c.deployed = ch.deployed /\ c.deposit = ch.deposit
        /\ c.balance = ch.balance /\ c.nonce = ch.nonce /\ c.ran = ch.ran
    BY DEF Chain
  <2> QED
    BY <2>2, <2>6, <2>7
<1> QED
  BY <1>1, <1>2

LEMMA GasCharged ==
    ASSUME NEW ch \in Chain, NEW cost \in Nat, NEW n \in Nat, canPostOp(ch, cost, n)
    PROVE  \E c \in Chain :
              /\ c = postOp(ch, cost, n)
              /\ c.deployed = ch.deployed /\ c.deposit = ch.deposit
              /\ c.balance = ch.balance /\ c.nonce = ch.nonce /\ c.ran = ch.ran
<1> DEFINE usdc == costInUsdc(cost)
           a == applyUsdcSpend(ch.acct, usdc, n)
           funds == [ch.funds EXCEPT !["usdc"] = ch.funds["usdc"] - usdc]
           out == [w \in Windows |->
                      IF Expired(ch.acct.lastReset, w, n) THEN 0 ELSE ch.ethOut[w]]
           c == [ch EXCEPT !.acct = a, !.funds["usdc"] = @ - usdc,
                           !.paymasterUsdc = @ + usdc, !.ethOut = out]
<1>1. usdc \in Nat /\ usdc <= ch.funds["usdc"]
  BY CostTypes DEF canPostOp
<1>2. c = postOp(ch, cost, n)
  BY DEF postOp
<1> HIDE DEF usdc
<1>3. a \in Storage
  <2>1. ch.acct \in Storage
    BY ChainTypes
  <2> QED
    BY <1>1, <2>1, RecordedStorage
<1>4. ch.funds["usdc"] - usdc \in Nat /\ ch.paymasterUsdc + usdc \in Nat
  BY <1>1, ChainTypes
<1>5. funds \in [Assets -> Nat]
  BY <1>4, ChainTypes
<1>6. out \in [Windows -> Nat]
  BY ChainTypes
<1> HIDE DEF a, out
<1>7. c.funds = funds /\ c.paymasterUsdc = ch.paymasterUsdc + usdc
  BY DEF Chain
<1>8. c \in Chain
  BY <1>3, <1>4, <1>5, <1>6, <1>7 DEF Chain
<1>9. /\ c.deployed = ch.deployed /\ c.deposit = ch.deposit
      /\ c.balance = ch.balance /\ c.nonce = ch.nonce /\ c.ran = ch.ran
  BY DEF Chain
<1> QED
  BY <1>2, <1>8, <1>9

\* The refund, and the nonce that is now executed.
Refund(ch, who, amount, nonce) ==
    [incrementDeposit(ch, who, amount) EXCEPT !.ran = Append(@, nonce)]

LEMMA Refunded ==
    ASSUME NEW ch \in Chain, NEW who \in Parties, NEW amount \in Nat, NEW nonce \in Nat
    PROVE  \E c \in Chain :
              /\ c = Refund(ch, who, amount, nonce)
              /\ c.deployed = ch.deployed /\ Deposits(c) = Deposits(ch) + amount
              /\ c.balance = ch.balance /\ c.nonce = ch.nonce
              /\ c.ran = Append(ch.ran, nonce)
<1>1. ch.deposit[who] + amount \in Nat /\ amount \in Int
  BY ChainTypes
<1>2. PICK d \in Chain :
         /\ d = [ch EXCEPT !.deposit[who] = @ + amount]
         /\ d.deployed = ch.deployed /\ Deposits(d) = Deposits(ch) + amount
         /\ d.balance = ch.balance /\ d.nonce = ch.nonce /\ d.ran = ch.ran
  BY <1>1, DepositSet
<1> DEFINE s == Append(d.ran, nonce)
           c == [d EXCEPT !.ran = s]
<1>3. c = Refund(ch, who, amount, nonce)
  BY <1>2 DEF Refund, incrementDeposit
<1>4. s \in Seq(Nat)
  BY ChainTypes
<1>5. s = Append(ch.ran, nonce)
  BY <1>2
<1> HIDE DEF s
<1>6. c \in Chain
  BY <1>4 DEF Chain
<1>7. /\ c.deployed = d.deployed /\ c.deposit = d.deposit
      /\ c.balance = d.balance /\ c.nonce = d.nonce /\ c.ran = s
  BY DEF Chain
<1>8. Deposits(c) = Deposits(d)
  BY <1>7 DEF Deposits
<1> HIDE DEF c
<1> QED
  BY <1>2, <1>3, <1>5, <1>6, <1>7, <1>8

-----------------------------------------------------------------------------
(***************************************************************************)
(* The prefunds of consecutive operations.                                 *)
(***************************************************************************)
LEMMA PrefundTypes ==
    ASSUME NEW ops \in Seq(Ops), NEW S \in SUBSET (1..Len(ops))
    PROVE  /\ IsFiniteSet(S) /\ Prefund(ops, S) \in [S -> Int]
           /\ \A k \in S : Prefund(ops, S)[k] = getRequiredPrefund(ops[k])
           /\ SumOf(Prefund(ops, S), S) \in Int
<1>1. Len(ops) \in Nat /\ \A k \in S : ops[k] \in Ops
  OBVIOUS
<1>2. IsFiniteSet(S)
  <2>1. IsFiniteSet(1..Len(ops))
    BY <1>1, FS_Interval
  <2> QED
    BY <2>1, FS_Subset
<1>3. /\ Prefund(ops, S) \in [S -> Int]
      /\ \A k \in S : Prefund(ops, S)[k] = getRequiredPrefund(ops[k])
  BY <1>1, OpTypes DEF Prefund
<1> QED
  BY <1>2, <1>3, SumIsInt

LEMMA NothingHeld ==
    ASSUME NEW ops \in Seq(Ops)
    PROVE  SumOf(Prefund(ops, {}), {}) = 0
<1>1. {} \in SUBSET (1..Len(ops))
  OBVIOUS
<1> QED
  BY <1>1, PrefundTypes, SumOfZeros

LEMMA HeldWithOneMore ==
    ASSUME NEW ops \in Seq(Ops), NEW S \in SUBSET (1..Len(ops)),
           NEW i \in 1..Len(ops), i \notin S
    PROVE  SumOf(Prefund(ops, S \cup {i}), S \cup {i})
              = SumOf(Prefund(ops, S), S) + getRequiredPrefund(ops[i])
<1> DEFINE T == S \cup {i}
<1>1. T \in SUBSET (1..Len(ops)) /\ i \in T
  OBVIOUS
<1>2. /\ Prefund(ops, T) \in [T -> Int]
      /\ \A k \in T : Prefund(ops, T)[k] = getRequiredPrefund(ops[k])
  BY <1>1, PrefundTypes
<1>3. /\ IsFiniteSet(S) /\ Prefund(ops, S) \in [S -> Int]
      /\ \A k \in S : Prefund(ops, S)[k] = getRequiredPrefund(ops[k])
  BY PrefundTypes
<1>4. SumOf(Prefund(ops, T), T) = SumOf(Prefund(ops, S), S) + Prefund(ops, T)[i]
  <2>1. \A k \in S : Prefund(ops, T)[k] = Prefund(ops, S)[k]
    BY <1>2, <1>3
  <2> DEFINE f == Prefund(ops, S)
             h == Prefund(ops, T)
  <2>2. /\ f \in [S -> Int] /\ h \in [S \cup {i} -> Int] /\ \A k \in S : h[k] = f[k]
    BY <1>2, <1>3, <2>1
  <2> HIDE DEF f, h
  <2>3. SumOf(h, S \cup {i}) = SumOf(f, S) + h[i]
    BY <1>3, <2>2, SumExtended
  <2> QED
    BY <2>3 DEF f, h
<1> QED
  BY <1>1, <1>2, <1>4

LEMMA HeldGrows ==
    ASSUME NEW ops \in Seq(Ops), NEW i \in 1..Len(ops)
    PROVE  /\ 1..(i - 1) \in SUBSET (1..Len(ops)) /\ 1..i \in SUBSET (1..Len(ops))
           /\ SumOf(Prefund(ops, 1..i), 1..i)
                 = SumOf(Prefund(ops, 1..(i - 1)), 1..(i - 1)) + getRequiredPrefund(ops[i])
<1> DEFINE S == 1..(i - 1)
<1>1. S \in SUBSET (1..Len(ops)) /\ 1..i \in SUBSET (1..Len(ops)) /\ i \notin S
      /\ S \cup {i} = 1..i
  OBVIOUS
<1> HIDE DEF S
<1>2. SumOf(Prefund(ops, S \cup {i}), S \cup {i})
         = SumOf(Prefund(ops, S), S) + getRequiredPrefund(ops[i])
  BY <1>1, HeldWithOneMore
<1>3. SumOf(Prefund(ops, 1..i), 1..i) = SumOf(Prefund(ops, S), S) + getRequiredPrefund(ops[i])
  BY <1>1, <1>2, Zenon
<1> QED
  BY <1>1, <1>3 DEF S

LEMMA HeldShrinks ==
    ASSUME NEW ops \in Seq(Ops), NEW i \in 1..Len(ops)
    PROVE  /\ i..Len(ops) \in SUBSET (1..Len(ops))
           /\ (i + 1)..Len(ops) \in SUBSET (1..Len(ops))
           /\ SumOf(Prefund(ops, i..Len(ops)), i..Len(ops))
                 = SumOf(Prefund(ops, (i + 1)..Len(ops)), (i + 1)..Len(ops))
                   + getRequiredPrefund(ops[i])
<1> DEFINE S == (i + 1)..Len(ops)
           T == i..Len(ops)
<1>1. S \in SUBSET (1..Len(ops)) /\ T \in SUBSET (1..Len(ops)) /\ i \notin S
      /\ S \cup {i} = T
  OBVIOUS
<1> HIDE DEF S, T
<1>2. SumOf(Prefund(ops, S \cup {i}), S \cup {i})
         = SumOf(Prefund(ops, S), S) + getRequiredPrefund(ops[i])
  BY <1>1, HeldWithOneMore
<1>3. SumOf(Prefund(ops, T), T) = SumOf(Prefund(ops, S), S) + getRequiredPrefund(ops[i])
  BY <1>1, <1>2, Zenon
<1> QED
  BY <1>1, <1>3 DEF S, T

-----------------------------------------------------------------------------
(***************************************************************************)
(* Between bundles.                                                        *)
(***************************************************************************)
LEMMA BundleTypes ==
    ASSUME NEW b \in Bundle
    PROVE  /\ b # Idle /\ b.phase \in {"validation", "execution", "post"}
           /\ b.ops \in Seq(Ops) /\ b.nonces \in Seq(Nat) /\ b.price \in Nat
           /\ b.i \in Nat /\ b.collected \in Nat /\ b.start \in Chain /\ b.inner \in Chain
           /\ Len(b.ops) \in Nat /\ b.start.nonce \in Nat
<1>1. /\ b.phase \in {"validation", "execution", "post"}
      /\ b.ops \in Seq(Ops) /\ b.nonces \in Seq(Nat) /\ b.price \in Nat
      /\ b.i \in Nat /\ b.collected \in Nat /\ b.start \in Chain /\ b.inner \in Chain
  BY DEF Bundle
<1>2. b # Idle
  BY <1>1 DEF Idle
<1> QED
  BY <1>1, <1>2, ChainTypes

LEMMA PhaseOfBundle ==
    ASSUME EntryPointInv
    PROVE  /\ now \in Nat /\ chain \in Chain
           /\ bundle = Idle <=> bundle.phase = "idle"
           /\ bundle.phase # "idle" => UnderWay(bundle, chain, now) /\ bundle \in Bundle
           /\ bundle.phase \in {"idle", "validation", "execution", "post"}
<1>1. CASE bundle = Idle
  BY <1>1 DEF EntryPointInv, Settled, Idle
<1>2. CASE bundle # Idle
  <2>1. now \in Nat /\ UnderWay(bundle, chain, now)
    BY <1>2 DEF EntryPointInv
  <2>2. bundle \in Bundle /\ chain \in Chain
    BY <2>1 DEF UnderWay
  <2>3. bundle.phase \in {"validation", "execution", "post"}
    BY <2>2, BundleTypes
  <2> QED
    BY <1>2, <2>1, <2>2, <2>3
<1> QED
  BY <1>1, <1>2

LEMMA StaysSettled ==
    ASSUME NEW ch, Settled(ch), NEW c \in Chain, c.nonce = ch.nonce, c.ran = ch.ran,
           c.deployed \/ ( /\ c.deployed = ch.deployed /\ c.paymasterUsdc = ch.paymasterUsdc
                           /\ c.ethOut = ch.ethOut),
           c.balance - Deposits(c) = ch.balance - Deposits(ch)
    PROVE  Settled(c)
<1>1. ch \in Chain
  BY DEF Settled
<1>2. RanFirst(c, c.nonce)
  BY DEF Settled, RanFirst
<1>3. ~c.deployed => Unused(c)
  BY DEF Settled, Unused
<1>4. c.balance = Deposits(c)
  <2>1. ch.balance = Deposits(ch)
    BY DEF Settled
  <2>2. ch.balance \in Int /\ c.balance \in Int /\ Deposits(c) \in Int
    BY <1>1, ChainTypes
  <2> QED
    BY <2>1, <2>2
<1> QED
  BY <1>2, <1>3, <1>4 DEF Settled

LEMMA InitSettled ==
    ASSUME Init
    PROVE  EntryPointInv
<1> DEFINE dep == Funding.deposit
           a == constructor(DeployTime)
           funds == [x \in Assets |-> Funding[x]]
           out == [w \in Windows |-> 0]
<1>1. dep \in [Parties -> Nat] /\ dep["account"] + dep["paymaster"] \in Nat
  BY EntryPointAssumption DEF Parties
<1>2. a \in Storage
  BY EntryPointAssumption, ConstructorTypes
<1>3. funds \in [Assets -> Nat]
  BY EntryPointAssumption DEF Assets
<1>4. out \in [Windows -> Nat] /\ \A w \in Windows : out[w] = 0
  OBVIOUS
<1>5. chain = [deployed |-> Deployed, acct |-> a, funds |-> funds, deposit |-> dep,
               balance |-> dep["account"] + dep["paymaster"], nonce |-> 0,
               paymasterUsdc |-> 0, ethOut |-> out, ran |-> <<>>]
  BY DEF Init
<1> HIDE DEF dep, a, funds, out
<1>6. chain \in Chain
  BY <1>1, <1>2, <1>3, <1>4, <1>5, EntryPointAssumption DEF Chain
<1>7. RanFirst(chain, chain.nonce)
  BY <1>5 DEF RanFirst
<1>8. Unused(chain)
  BY <1>4, <1>5 DEF Unused
<1>9. chain.balance = Deposits(chain)
  BY <1>5 DEF Deposits
<1>10. Settled(chain)
  BY <1>6, <1>7, <1>8, <1>9 DEF Settled
<1> QED
  BY <1>10, EntryPointAssumption DEF Init, EntryPointInv

LEMMA TickKeeps ==
    ASSUME EntryPointInv, Tick
    PROVE  EntryPointInv'
<1>1. bundle' = Idle /\ now' \in Nat /\ Settled(chain)
  BY DEF EntryPointInv, Tick
<1>2. Settled(chain')
  BY <1>1 DEF Tick
<1> QED
  BY <1>1, <1>2 DEF EntryPointInv

LEMMA CreationKeeps ==
    ASSUME EntryPointInv, createAccountDirectly
    PROVE  EntryPointInv'
<1>1. /\ now \in Nat /\ bundle = Idle /\ Settled(chain) /\ chain \in Chain
      /\ now' = now /\ bundle' = bundle /\ chain' = createAccount(chain, now)
  BY DEF EntryPointInv, createAccountDirectly, Settled
<1>2. PICK c \in Chain :
         /\ c = createAccount(chain, now)
         /\ c.deployed /\ c.deposit = chain.deposit
         /\ c.balance = chain.balance /\ c.nonce = chain.nonce /\ c.ran = chain.ran
  BY <1>1, AccountCreated
<1>3. Deposits(c) = Deposits(chain)
  BY <1>2 DEF Deposits
<1>4. Settled(c)
  BY <1>1, <1>2, <1>3, StaysSettled
<1> QED
  BY <1>1, <1>2, <1>4 DEF EntryPointInv

LEMMA ReceiveKeeps ==
    ASSUME EntryPointInv, NEW x \in Assets, receive(x)
    PROVE  EntryPointInv'
<1>1. /\ now \in Nat /\ bundle = Idle /\ Settled(chain) /\ chain \in Chain
      /\ now' = now /\ bundle' = bundle
      /\ chain' = [chain EXCEPT !.funds[x] = @ + 1]
  BY DEF EntryPointInv, receive, Settled
<1> DEFINE c == [chain EXCEPT !.funds[x] = @ + 1]
<1>2. chain.funds \in [Assets -> Nat] /\ chain.funds[x] + 1 \in Nat
  BY <1>1, ChainTypes
<1>3. /\ c.deployed = chain.deployed /\ c.deposit = chain.deposit
      /\ c.balance = chain.balance /\ c.nonce = chain.nonce
      /\ c.paymasterUsdc = chain.paymasterUsdc /\ c.ethOut = chain.ethOut
      /\ c.ran = chain.ran
      /\ c.funds = [chain.funds EXCEPT ![x] = chain.funds[x] + 1]
  BY <1>1 DEF Chain
<1>4. c.funds \in [Assets -> Nat]
  BY <1>2, <1>3
<1>5. c \in Chain
  BY <1>1, <1>4 DEF Chain
<1>6. Deposits(c) = Deposits(chain)
  BY <1>3 DEF Deposits
<1> HIDE DEF c
<1>7. Settled(c)
  BY <1>1, <1>3, <1>5, <1>6, StaysSettled
<1>8. chain' = c
  BY <1>1 DEF c
<1> QED
  BY <1>1, <1>7, <1>8 DEF EntryPointInv

\* A deposit and the balance change by the same amount.
LEMMA DepositMoved ==
    ASSUME NEW ch, Settled(ch), NEW who \in Parties, NEW amount \in Int,
           ch.deposit[who] + amount \in Nat
    PROVE  Settled([[ch EXCEPT !.deposit[who] = @ + amount] EXCEPT !.balance = @ + amount])
<1>1. ch \in Chain
  BY DEF Settled
<1>2. PICK d \in Chain :
         /\ d = [ch EXCEPT !.deposit[who] = @ + amount]
         /\ d.deployed = ch.deployed /\ Deposits(d) = Deposits(ch) + amount
         /\ d.balance = ch.balance /\ d.nonce = ch.nonce
         /\ d.paymasterUsdc = ch.paymasterUsdc /\ d.ethOut = ch.ethOut
         /\ d.ran = ch.ran
  BY <1>1, DepositSet
<1>3. d.balance + amount \in Nat
  <2>1. Deposits(d) \in Nat
    BY ChainTypes
  <2> QED
    BY <1>2, <2>1 DEF Settled
<1> DEFINE c == [d EXCEPT !.balance = @ + amount]
<1>4. c \in Chain
  BY <1>3 DEF Chain
<1>5. /\ c.deployed = d.deployed /\ c.deposit = d.deposit
      /\ c.balance = d.balance + amount /\ c.nonce = d.nonce
      /\ c.paymasterUsdc = d.paymasterUsdc /\ c.ethOut = d.ethOut
      /\ c.ran = d.ran
  BY DEF Chain
<1>6. Deposits(c) = Deposits(d)
  BY <1>5 DEF Deposits
<1> HIDE DEF c
<1>7. c.balance - Deposits(c) = ch.balance - Deposits(ch)
  <2>1. ch.balance \in Int /\ Deposits(ch) \in Int
    BY <1>1, ChainTypes
  <2> QED
    BY <1>2, <1>5, <1>6, <2>1
<1>8. Settled(c)
  BY <1>2, <1>4, <1>5, <1>7, StaysSettled
<1> QED
  BY <1>2, <1>8 DEF c

LEMMA DepositKeeps ==
    ASSUME EntryPointInv, NEW who \in Parties, depositTo(who)
    PROVE  EntryPointInv'
<1>1. /\ now \in Nat /\ bundle = Idle /\ Settled(chain) /\ chain \in Chain
      /\ now' = now /\ bundle' = bundle
      /\ chain' = [[chain EXCEPT !.deposit[who] = @ + 1] EXCEPT !.balance = @ + 1]
  BY DEF EntryPointInv, depositTo, Settled, incrementDeposit
<1>2. chain.deposit[who] + 1 \in Nat /\ 1 \in Int
  BY <1>1, ChainTypes
<1>3. Settled([[chain EXCEPT !.deposit[who] = @ + 1] EXCEPT !.balance = @ + 1])
  BY <1>1, <1>2, DepositMoved, Zenon
<1>4. Settled(chain')
  BY <1>1, <1>3, Zenon
<1> QED
  BY <1>1, <1>4 DEF EntryPointInv

LEMMA WithdrawalKeeps ==
    ASSUME EntryPointInv, withdrawTo
    PROVE  EntryPointInv'
<1>1. /\ now \in Nat /\ bundle = Idle /\ Settled(chain) /\ chain \in Chain
      /\ now' = now /\ bundle' = bundle /\ chain.deposit["paymaster"] > 0
      /\ chain' = [chain EXCEPT !.deposit["paymaster"] = @ - 1, !.balance = @ - 1]
  BY DEF EntryPointInv, withdrawTo, Settled
<1>2. /\ chain.deposit["paymaster"] + (-1) \in Nat /\ "paymaster" \in Parties
      /\ chain.deposit["paymaster"] + (-1) = chain.deposit["paymaster"] - 1
      /\ chain.balance + (-1) = chain.balance - 1 /\ -1 \in Int
  BY <1>1, ChainTypes DEF Parties
<1>3. chain' = [[chain EXCEPT !.deposit["paymaster"] = @ + (-1)] EXCEPT !.balance = @ + (-1)]
  BY <1>1, <1>2 DEF Chain
<1>4. Settled([[chain EXCEPT !.deposit["paymaster"] = @ + (-1)] EXCEPT !.balance = @ + (-1)])
  BY <1>1, <1>2, DepositMoved, Zenon
<1>5. Settled(chain')
  BY <1>3, <1>4, Zenon
<1> QED
  BY <1>1, <1>5 DEF EntryPointInv

-----------------------------------------------------------------------------
(***************************************************************************)
(* A bundle begins, and its operations are validated.                      *)
(***************************************************************************)
LEMMA BundleBegins ==
    ASSUME EntryPointInv, NEW n \in 1..MaxOps, NEW ops \in [1..n -> Ops],
           NEW nonces \in [1..n -> 0..MaxNonce], NEW price \in Prices,
           handleOps(ops, nonces, price)
    PROVE  EntryPointInv'
<1>1. /\ now' = now /\ chain' = chain /\ now \in Nat /\ Settled(chain) /\ chain \in Chain
      /\ bundle' = [phase |-> "validation", ops |-> ops, nonces |-> nonces,
                    price |-> price, i |-> 1, collected |-> 0,
                    start |-> chain, inner |-> chain, success |-> FALSE]
  BY DEF handleOps, EntryPointInv, Settled
<1>2. n \in Nat /\ n >= 1 /\ price \in Nat /\ 0..MaxNonce \subseteq Nat
  BY EntryPointAssumption
<1>3. /\ ops \in Seq(Ops) /\ Len(ops) = n /\ nonces \in Seq(Nat) /\ Len(nonces) = n
  <2>1. nonces \in [1..n -> Nat]
    BY <1>2
  <2> QED
    BY <2>1, <1>2, FunctionIsSequence
<1>4. bundle' \in Bundle
  BY <1>1, <1>2, <1>3 DEF Bundle
<1>5. /\ bundle'.phase = "validation" /\ bundle'.ops = ops /\ bundle'.nonces = nonces
      /\ bundle'.i = 1 /\ bundle'.collected = 0 /\ bundle'.start = chain
  BY <1>1
<1>6. 1..(1 - 1) = {} /\ \A k : k \notin 1..(1 - 1)
  OBVIOUS
<1>7. Held(bundle', 1..(bundle'.i - 1)) = 0
  <2>1. SumOf(Prefund(ops, {}), {}) = 0
    BY <1>3, NothingHeld
  <2>2. Held(bundle', {}) = 0
    BY <1>5, <2>1 DEF Held
  <2> QED
    BY <1>5, <1>6, <2>2
<1>8. ValidationOK(bundle', chain)
  <2>1. RanFirst(chain, bundle'.start.nonce) /\ (~chain.deployed => Unused(chain))
    BY <1>1, <1>5 DEF Settled
  <2>2. NoncesOK(bundle', bundle'.i - 1)
    BY <1>5, <1>6 DEF NoncesOK
  <2>3. bundle'.i <= Len(bundle'.ops)
    BY <1>2, <1>3, <1>5
  <2>4. chain.nonce = bundle'.start.nonce + bundle'.i - 1
    BY <1>1, <1>5, ChainTypes
  <2>5. chain.balance = Deposits(chain) + Held(bundle', 1..(bundle'.i - 1))
    BY <1>1, <1>7, ChainTypes DEF Settled
  <2> QED
    BY <2>1, <2>2, <2>3, <2>4, <2>5 DEF ValidationOK
<1>9. ExecutionOK(bundle', chain) /\ PreflightHolds(bundle', chain, now)
  BY <1>5 DEF ExecutionOK, PreflightHolds
<1>10. UnderWay(bundle', chain, now)
  BY <1>1, <1>3, <1>4, <1>5, <1>8, <1>9 DEF UnderWay
<1>11. bundle' # Idle
  BY <1>4, BundleTypes
<1>12. UnderWay(bundle', chain', now')
  BY <1>1, <1>10, Zenon
<1> QED
  BY <1>1, <1>11, <1>12 DEF EntryPointInv

\* What of a bundle may change: where it is, and what it has saved and collected.
LEMMA BundleMoves ==
    ASSUME NEW b \in Bundle, NEW i \in Nat, NEW ph \in {"validation", "execution", "post"},
           NEW inner \in Chain, NEW s \in BOOLEAN, NEW coll \in Nat
    PROVE  /\ [b EXCEPT !.i = i] \in Bundle
           /\ [b EXCEPT !.i = i, !.phase = ph] \in Bundle
           /\ [b EXCEPT !.phase = ph, !.inner = inner, !.success = s] \in Bundle
           /\ [b EXCEPT !.phase = ph, !.i = i, !.collected = coll] \in Bundle
<1>1. [b EXCEPT !.i = i] \in Bundle
  BY DEF Bundle
<1>2. [b EXCEPT !.i = i, !.phase = ph] \in Bundle
  BY DEF Bundle
<1>3. [b EXCEPT !.phase = ph, !.inner = inner, !.success = s] \in Bundle
  BY DEF Bundle
<1>4. [b EXCEPT !.phase = ph, !.i = i, !.collected = coll] \in Bundle
  BY DEF Bundle
<1> QED
  BY <1>1, <1>2, <1>3, <1>4

\* The nonce that is compared with the account's is the next one.
LEMMA NextNonce ==
    ASSUME NEW b \in Bundle, NEW ch, b.i \in 1..Len(b.ops), NoncesOK(b, b.i - 1),
           b.nonces[b.i] = ch.nonce, ch.nonce = b.start.nonce + b.i - 1
    PROVE  NoncesOK(b, b.i)
<1>1. b.i \in Nat /\ b.start.nonce \in Nat
  BY BundleTypes
<1> SUFFICES ASSUME NEW k \in 1..b.i PROVE b.nonces[k] = b.start.nonce + k - 1
  BY DEF NoncesOK
<1>2. CASE k = b.i
  BY <1>2
<1>3. CASE k # b.i
  <2>1. k \in 1..(b.i - 1)
    BY <1>1, <1>3
  <2> QED
    BY <2>1 DEF NoncesOK
<1> QED
  BY <1>2, <1>3

\* The next operation is validated.
LEMMA ValidationGoesOn ==
    ASSUME NEW n \in Nat, NEW b, NEW ch, UnderWay(b, ch, n), b.phase = "validation",
           NEW c \in Chain, c.deployed,
           NoncesOK(b, b.i), c.nonce = ch.nonce + 1, c.ran = ch.ran,
           c.balance = Deposits(c) + Held(b, 1..b.i),
           b.i < Len(b.ops)
    PROVE  UnderWay([b EXCEPT !.i = @ + 1], c, n)
<1> DEFINE e == [b EXCEPT !.i = @ + 1]
<1>1. /\ b \in Bundle /\ b.i >= 1 /\ Len(b.nonces) = Len(b.ops) /\ Settled(b.start)
      /\ ch \in Chain /\ ValidationOK(b, ch)
  BY DEF UnderWay
<1>2. b.i \in Nat /\ b.i + 1 \in Nat /\ Len(b.ops) \in Nat /\ b.start.nonce \in Nat
      /\ ch.nonce = b.start.nonce + b.i - 1 /\ RanFirst(ch, b.start.nonce)
  BY <1>1, BundleTypes DEF ValidationOK
<1>3. e \in Bundle
  BY <1>1, <1>2, BundleMoves
<1>4. /\ e.i = b.i + 1 /\ e.phase = "validation" /\ e.ops = b.ops /\ e.nonces = b.nonces
      /\ e.start = b.start /\ e.collected = b.collected
  BY <1>1 DEF Bundle
<1> HIDE DEF e
<1>5. /\ e.i - 1 = b.i /\ e.i <= Len(e.ops) /\ e.i >= 1
      /\ c.nonce = e.start.nonce + e.i - 1
  <2>1. e.i = b.i + 1 /\ Len(e.ops) = Len(b.ops) /\ e.start.nonce = b.start.nonce
    BY <1>4
  <2>2. e.i - 1 = b.i /\ e.i >= 1
    BY <1>2, <2>1
  <2>3. e.i <= Len(e.ops)
    BY <1>2, <2>1
  <2>4. c.nonce = e.start.nonce + e.i - 1
    <3>1. c.nonce \in Nat /\ ch.nonce \in Nat /\ c.nonce = ch.nonce + 1
      BY <1>1, ChainTypes
    <3>2. c.nonce = b.start.nonce + b.i
      BY <1>2, <3>1
    <3>3. b.start.nonce + b.i = b.start.nonce + (b.i + 1) - 1
      BY <1>2
    <3> QED
      BY <2>1, <3>2, <3>3
  <2> QED
    BY <2>2, <2>3, <2>4
<1>6. RanFirst(c, e.start.nonce) /\ NoncesOK(e, e.i - 1)
  <2>1. RanFirst(c, e.start.nonce)
    BY <1>2, <1>4 DEF RanFirst
  <2>2. NoncesOK(e, b.i)
    BY <1>4 DEF NoncesOK
  <2> QED
    BY <1>5, <2>1, <2>2
<1>7. c.balance = Deposits(c) + Held(e, 1..(e.i - 1))
  BY <1>4, <1>5 DEF Held
<1>8. ValidationOK(e, c)
  BY <1>5, <1>6, <1>7 DEF ValidationOK
<1>9. ExecutionOK(e, c) /\ PreflightHolds(e, c, n)
  BY <1>4 DEF ExecutionOK, PreflightHolds
<1>10. UnderWay(e, c, n)
  BY <1>1, <1>3, <1>4, <1>5, <1>8, <1>9 DEF UnderWay
<1> QED
  BY <1>10 DEF e

\* The last operation is validated: what was validated is what is to be executed.
LEMMA ExecutionBegins ==
    ASSUME NEW n \in Nat, NEW b, NEW ch, UnderWay(b, ch, n), b.phase = "validation",
           NEW c \in Chain, c.deployed,
           NoncesOK(b, b.i), c.nonce = ch.nonce + 1, c.ran = ch.ran,
           c.balance = Deposits(c) + Held(b, 1..b.i),
           ~(b.i < Len(b.ops)),
           b.ops[b.i].fn # "none" => canParseCalls(b.ops[b.i].calls),
           ~isLarge(preflightSpend(b.ops[b.i], b.price)) =>
               canValidatePreflightLimits(c.acct, preflightSpend(b.ops[b.i], b.price), n)
    PROVE  UnderWay([b EXCEPT !.i = 1, !.phase = "execution"], c, n)
<1> DEFINE e == [b EXCEPT !.i = 1, !.phase = "execution"]
<1>1. /\ b \in Bundle /\ b.i >= 1 /\ Len(b.nonces) = Len(b.ops) /\ Settled(b.start)
      /\ ch \in Chain /\ ValidationOK(b, ch)
  BY DEF UnderWay
<1>2. b.i \in Nat /\ Len(b.ops) \in Nat /\ b.start.nonce \in Nat
      /\ ch.nonce = b.start.nonce + b.i - 1 /\ RanFirst(ch, b.start.nonce)
      /\ b.i = Len(b.ops)
  BY <1>1, BundleTypes DEF ValidationOK
<1>3. e \in Bundle
  BY <1>1, BundleMoves
<1>4. /\ e.i = 1 /\ e.phase = "execution" /\ e.ops = b.ops /\ e.nonces = b.nonces
      /\ e.start = b.start /\ e.collected = b.collected /\ e.price = b.price
  BY <1>1 DEF Bundle
<1> HIDE DEF e
<1>5. NoncesOK(e, Len(e.ops))
  BY <1>2, <1>4 DEF NoncesOK
<1>6. ExecutingOK(e, c)
  <2>1. c.nonce = e.start.nonce + Len(e.ops)
    BY <1>2, <1>4
  <2>2. RanFirst(c, e.start.nonce + e.i - 1)
    <3>1. e.start.nonce + e.i - 1 = b.start.nonce
      BY <1>2, <1>4
    <3>2. RanFirst(c, b.start.nonce)
      BY <1>2 DEF RanFirst
    <3> QED
      BY <3>1, <3>2
  <2>3. c.balance = Deposits(c) + Held(e, e.i..Len(e.ops))
    BY <1>2, <1>4 DEF Held
  <2> QED
    BY <2>1, <2>2, <2>3 DEF ExecutingOK
<1>7. ExecutionOK(e, c)
  BY <1>1, <1>2, <1>4, <1>5, <1>6 DEF ExecutionOK
<1>8. ValidationOK(e, c)
  BY <1>4 DEF ValidationOK
<1>9. PreflightHolds(e, c, n)
  <2> SUFFICES ASSUME e.i = 1, Len(e.ops) = 1, e.ops[1].fn # "none",
                      ~isLarge(preflightSpend(e.ops[1], e.price))
               PROVE  /\ canParseCalls(e.ops[1].calls)
                      /\ canValidatePreflightLimits(c.acct,
                                preflightSpend(e.ops[1], e.price), n)
    BY DEF PreflightHolds
  <2>1. b.i = 1 /\ b.ops[b.i] = e.ops[1] /\ e.price = b.price
    BY <1>2, <1>4
  <2> QED
    BY <2>1
<1>10. UnderWay(e, c, n)
  BY <1>1, <1>3, <1>4, <1>7, <1>8, <1>9 DEF UnderWay
<1> QED
  BY <1>10 DEF e

LEMMA ValidationKeeps ==
    ASSUME EntryPointInv, validateOp
    PROVE  EntryPointInv'
<1> DEFINE b == bundle
           op == b.ops[b.i]
<1>1. /\ now \in Nat /\ UnderWay(b, chain, now) /\ b \in Bundle /\ chain \in Chain
      /\ b.phase = "validation" /\ now' = now
  BY PhaseOfBundle DEF validateOp
<1>2. /\ b.i \in 1..Len(b.ops) /\ b.price \in Nat /\ b.ops \in Seq(Ops)
      /\ b.collected \in Nat
      /\ NoncesOK(b, b.i - 1) /\ chain.nonce = b.start.nonce + b.i - 1
      /\ chain.balance = Deposits(chain) + Held(b, 1..(b.i - 1))
  BY <1>1, BundleTypes DEF UnderWay, ValidationOK
<1>3. op \in Ops
  BY <1>2
<1>4. /\ canValidatePrepayment(chain, op, b.nonces[b.i], b.price, now)
      /\ chain' = validatePrepayment(chain, op, b.price, now)
      /\ b' = IF b.i < Len(b.ops) THEN [b EXCEPT !.i = @ + 1]
              ELSE [b EXCEPT !.i = 1, !.phase = "execution"]
  BY DEF validateOp, CanValidate, CurrentOp
<1> HIDE DEF b, op
<1>5. /\ b.nonces[b.i] = chain.nonce
      /\ op.fn # "none" => canParseCalls(op.calls)
      /\ \E c \in Chain :
            /\ c = validatePrepayment(chain, op, b.price, now)
            /\ c.deployed
            /\ ~isLarge(preflightSpend(op, b.price)) =>
                  canValidatePreflightLimits(c.acct, preflightSpend(op, b.price), now)
            /\ c.balance - Deposits(c)
                  = chain.balance - Deposits(chain) + getRequiredPrefund(op)
            /\ c.nonce = chain.nonce + 1
            /\ c.paymasterUsdc = chain.paymasterUsdc /\ c.ran = chain.ran
  BY <1>1, <1>2, <1>3, <1>4, Validated
<1>6. PICK c \in Chain :
         /\ c = validatePrepayment(chain, op, b.price, now)
         /\ c.deployed
         /\ ~isLarge(preflightSpend(op, b.price)) =>
               canValidatePreflightLimits(c.acct, preflightSpend(op, b.price), now)
         /\ c.balance - Deposits(c)
               = chain.balance - Deposits(chain) + getRequiredPrefund(op)
         /\ c.nonce = chain.nonce + 1
         /\ c.ran = chain.ran
  BY <1>5
<1>7. NoncesOK(b, b.i)
  BY <1>1, <1>2, <1>5, NextNonce
<1>8. c.balance = Deposits(c) + Held(b, 1..b.i)
  <2> DEFINE before == SumOf(Prefund(b.ops, 1..(b.i - 1)), 1..(b.i - 1))
             after == SumOf(Prefund(b.ops, 1..b.i), 1..b.i)
  <2>1. /\ 1..(b.i - 1) \in SUBSET (1..Len(b.ops))
        /\ after = before + getRequiredPrefund(op)
    BY <1>2, HeldGrows DEF op
  <2>2. before \in Int
    BY <1>2, <2>1, PrefundTypes
  <2>3. Held(b, 1..(b.i - 1)) = before + b.collected /\ Held(b, 1..b.i) = after + b.collected
    BY DEF Held
  <2> HIDE DEF before, after
  <2>4. /\ Deposits(c) \in Int /\ c.balance \in Int /\ getRequiredPrefund(op) \in Int
        /\ Deposits(chain) \in Int
    BY <1>1, <1>3, ChainTypes, OpTypes
  <2> QED
    BY <1>2, <1>6, <2>1, <2>2, <2>3, <2>4
<1>9. UnderWay(b', c, now)
  <2>1. CASE b.i < Len(b.ops)
    BY <1>1, <1>4, <1>6, <1>7, <1>8, <2>1, ValidationGoesOn
  <2>2. CASE ~(b.i < Len(b.ops))
    <3>1. UnderWay([b EXCEPT !.i = 1, !.phase = "execution"], c, now)
      BY <1>1, <1>5, <1>6, <1>7, <1>8, <2>2, ExecutionBegins DEF op
    <3> QED
      BY <1>4, <2>2, <3>1
  <2> QED
    BY <2>1, <2>2
<1>10. UnderWay(b', chain', now')
  BY <1>1, <1>4, <1>6, <1>9, Zenon
<1>11. b' # Idle
  BY <1>9, BundleTypes DEF UnderWay
<1>12. now' \in Nat
  BY <1>1
<1> QED
  BY <1>10, <1>11, <1>12 DEF EntryPointInv, b

-----------------------------------------------------------------------------
(***************************************************************************)
(* The operations are executed and settled one after the other, or all of  *)
(* it is undone.                                                           *)
(***************************************************************************)
LEMMA RevertKeeps ==
    ASSUME EntryPointInv, bundleReverts
    PROVE  EntryPointInv'
<1>1. bundle.phase # "idle" /\ chain' = bundle.start /\ bundle' = Idle /\ now' = now
  BY DEF bundleReverts
<1>2. now \in Nat /\ Settled(bundle.start)
  BY <1>1, PhaseOfBundle DEF UnderWay
<1> QED
  BY <1>1, <1>2 DEF EntryPointInv

LEMMA CompensationKeeps ==
    ASSUME EntryPointInv, compensate
    PROVE  EntryPointInv'
<1> DEFINE b == bundle
           c == [chain EXCEPT !.balance = @ - b.collected]
<1>1. b.phase = "execution" /\ b.i > Len(b.ops) /\ chain' = c /\ bundle' = Idle /\ now' = now
  BY DEF compensate
<1>2. now \in Nat /\ UnderWay(b, chain, now) /\ b \in Bundle /\ chain \in Chain
  BY <1>1, PhaseOfBundle
<1> HIDE DEF b
<1>3. ExecutingOK(b, chain) /\ b.i <= Len(b.ops) + 1
  BY <1>1, <1>2 DEF UnderWay, ExecutionOK
<1>4. /\ b.i \in Nat /\ Len(b.ops) \in Nat /\ b.ops \in Seq(Ops) /\ b.collected \in Nat
      /\ b.start.nonce \in Nat
  BY <1>2, BundleTypes
<1>5. b.i = Len(b.ops) + 1
  BY <1>1, <1>3, <1>4
<1>6. b.i..Len(b.ops) = {}
  BY <1>4, <1>5
<1>7. Held(b, b.i..Len(b.ops)) = b.collected
  <2>1. Held(b, {}) = b.collected
    BY <1>4, NothingHeld DEF Held
  <2> QED
    BY <1>6, <2>1
<1>8. chain.balance - b.collected = Deposits(chain) /\ Deposits(chain) \in Nat
  BY <1>2, <1>3, <1>4, <1>7, ChainTypes DEF ExecutingOK
<1>9. c \in Chain
  BY <1>2, <1>8 DEF Chain
<1>10. /\ c.deployed = chain.deployed /\ c.deposit = chain.deposit
       /\ c.balance = chain.balance - b.collected
       /\ c.nonce = chain.nonce /\ c.ran = chain.ran
  BY <1>2 DEF Chain
<1> HIDE DEF c
<1>11. RanFirst(c, c.nonce)
  <2>1. chain.nonce = b.start.nonce + Len(b.ops)
        /\ RanFirst(chain, b.start.nonce + b.i - 1)
    BY <1>3 DEF ExecutingOK
  <2>2. b.start.nonce + b.i - 1 = b.start.nonce + Len(b.ops)
    BY <1>4, <1>5
  <2>3. RanFirst(chain, chain.nonce)
    BY <2>1, <2>2
  <2> QED
    BY <1>10, <2>3 DEF RanFirst
<1>12. c.balance = Deposits(c)
  BY <1>8, <1>10 DEF Deposits
<1>13. c.deployed
  BY <1>3, <1>10 DEF ExecutingOK
<1>14. Settled(c)
  BY <1>9, <1>11, <1>12, <1>13 DEF Settled
<1> QED
  BY <1>1, <1>2, <1>14 DEF EntryPointInv

LEMMA StillExecuting ==
    ASSUME NEW b, NEW ch, ExecutingOK(b, ch), NEW c \in Chain,
           c.deployed = ch.deployed, c.deposit = ch.deposit, c.balance = ch.balance,
           c.nonce = ch.nonce, c.ran = ch.ran
    PROVE  ExecutingOK(b, c)
<1>1. Deposits(c) = Deposits(ch)
  BY DEF Deposits
<1>2. RanFirst(c, b.start.nonce + b.i - 1)
  BY DEF ExecutingOK, RanFirst
<1> QED
  BY <1>1, <1>2 DEF ExecutingOK

LEMMA ExecutionKeeps ==
    ASSUME EntryPointInv, NEW success \in BOOLEAN, executeUserOp(success)
    PROVE  EntryPointInv'
<1> DEFINE b == bundle
           op == b.ops[b.i]
           e == [b EXCEPT !.phase = "post", !.inner = chain, !.success = success]
<1>1. /\ b.phase = "execution" /\ b.i <= Len(b.ops)
      /\ success => canExecute(chain, op, now)
      /\ chain' = IF success THEN execute(chain, op, now) ELSE chain
      /\ bundle' = e /\ now' = now
  BY DEF executeUserOp, CurrentOp
<1>2. now \in Nat /\ UnderWay(b, chain, now) /\ b \in Bundle /\ chain \in Chain
  BY <1>1, PhaseOfBundle
<1> HIDE DEF b
<1>3. /\ ExecutingOK(b, chain) /\ NoncesOK(b, Len(b.ops))
      /\ b.i >= 1 /\ Len(b.nonces) = Len(b.ops) /\ Settled(b.start)
  BY <1>1, <1>2 DEF UnderWay, ExecutionOK
<1>4. /\ b.i \in Nat /\ Len(b.ops) \in Nat /\ b.ops \in Seq(Ops)
  BY <1>2, BundleTypes
<1>5. op \in Ops
  BY <1>1, <1>3, <1>4
<1>6. chain' \in Chain /\ ExecutingOK(b, chain')
  <2>1. CASE success
    <3>1. PICK c \in Chain :
             /\ c = execute(chain, op, now)
             /\ c.deployed = chain.deployed /\ c.deposit = chain.deposit
             /\ c.balance = chain.balance /\ c.nonce = chain.nonce /\ c.ran = chain.ran
      BY <1>1, <1>2, <1>5, <2>1, Executed
    <3>2. ExecutingOK(b, c)
      BY <1>3, <3>1, StillExecuting
    <3> QED
      BY <1>1, <2>1, <3>1, <3>2
  <2>2. CASE ~success
    BY <1>1, <1>2, <1>3, <2>2
  <2> QED
    BY <2>1, <2>2
<1>7. e \in Bundle
  BY <1>2, BundleMoves
<1>8. /\ e.phase = "post" /\ e.i = b.i /\ e.ops = b.ops /\ e.nonces = b.nonces
      /\ e.start = b.start /\ e.collected = b.collected /\ e.inner = chain
  BY <1>2 DEF Bundle
<1> HIDE DEF e, op
<1>9. ASSUME NEW ch, ExecutingOK(b, ch) PROVE ExecutingOK(e, ch)
  <2>1. Held(e, e.i..Len(e.ops)) = Held(b, b.i..Len(b.ops))
    BY <1>8 DEF Held
  <2> QED
    BY <1>8, <1>9, <2>1 DEF ExecutingOK
<1>10. NoncesOK(e, Len(e.ops))
  BY <1>3, <1>8 DEF NoncesOK
<1>11. ExecutionOK(e, chain')
  <2>1. e.i <= Len(e.ops) /\ e.i <= Len(e.ops) + 1
    BY <1>1, <1>4, <1>8
  <2>2. ExecutingOK(e, e.inner) /\ ExecutingOK(e, chain')
    BY <1>3, <1>6, <1>8, <1>9
  <2> QED
    BY <1>10, <2>1, <2>2 DEF ExecutionOK
<1>12. ValidationOK(e, chain') /\ PreflightHolds(e, chain', now)
  BY <1>8 DEF ValidationOK, PreflightHolds
<1>13. UnderWay(e, chain', now)
  BY <1>3, <1>6, <1>7, <1>8, <1>11, <1>12 DEF UnderWay
<1>14. e # Idle
  BY <1>7, BundleTypes
<1>15. UnderWay(bundle', chain', now') /\ bundle' # Idle /\ now' \in Nat
  BY <1>1, <1>2, <1>13, <1>14, Zenon
<1> QED
  BY <1>15 DEF EntryPointInv

LEMMA Successor ==
    ASSUME NEW s \in Nat, NEW i \in Nat
    PROVE  (s + i - 1) + 1 = s + (i + 1) - 1
OBVIOUS

LEMMA RanNext ==
    ASSUME NEW ch, NEW c, NEW m \in Nat, ch.ran \in Seq(Nat), RanFirst(ch, m),
           c.ran = Append(ch.ran, m)
    PROVE  RanFirst(c, m + 1)
<1>1. Len(ch.ran) = m /\ \A k \in 1..m : ch.ran[k] = k - 1
  BY DEF RanFirst
<1>2. Len(c.ran) = m + 1
  BY <1>1
<1>3. ASSUME NEW k \in 1..(m + 1) PROVE c.ran[k] = k - 1
  <2>1. CASE k = m + 1
    <3>1. c.ran[m + 1] = m
      BY <1>1
    <3> QED
      BY <2>1, <3>1
  <2>2. CASE k # m + 1
    <3>1. k \in 1..m
      BY <2>2
    <3>2. c.ran[k] = ch.ran[k]
      BY <1>1, <3>1
    <3> QED
      BY <1>1, <3>1, <3>2
  <2> QED
    BY <2>1, <2>2
<1> QED
  BY <1>2, <1>3 DEF RanFirst

\* The operation is settled on the chain as the inner call left it, or found it.
LEMMA SettlementKeeps ==
    ASSUME EntryPointInv, bundle.phase = "post", NEW ch, ExecutingOK(bundle, ch),
           NEW cost \in Nat, cost <= getRequiredPrefund(CurrentOp), Settle(ch, cost)
    PROVE  EntryPointInv'
<1> DEFINE b == bundle
           op == b.ops[b.i]
           e == [b EXCEPT !.phase = "execution", !.i = @ + 1, !.collected = @ + cost]
           refund == getRequiredPrefund(op) - cost
           nonce == b.nonces[b.i]
<1>1. /\ chain' = Refund(ch, payer(op), refund, nonce)
      /\ bundle' = e /\ now' = now /\ cost <= getRequiredPrefund(op)
  BY DEF Settle, CurrentOp, Refund
<1>2. now \in Nat /\ UnderWay(b, chain, now) /\ b \in Bundle /\ b.phase = "post"
  BY PhaseOfBundle
<1>3. ExecutingOK(b, ch)
  OBVIOUS
<1> HIDE DEF b
<1>4. /\ ch \in Chain /\ NoncesOK(b, Len(b.ops))
      /\ b.i >= 1 /\ b.i <= Len(b.ops) /\ Len(b.nonces) = Len(b.ops) /\ Settled(b.start)
  BY <1>2, <1>3 DEF UnderWay, ExecutionOK, ExecutingOK
<1>5. /\ b.i \in Nat /\ b.i + 1 \in Nat /\ Len(b.ops) \in Nat /\ b.ops \in Seq(Ops)
      /\ b.start.nonce \in Nat /\ b.collected \in Nat /\ b.collected + cost \in Nat
  BY <1>2, BundleTypes
<1>6. op \in Ops /\ b.i \in 1..Len(b.ops)
  BY <1>4, <1>5
<1>7. /\ getRequiredPrefund(op) \in Nat /\ refund \in Nat /\ payer(op) \in Parties
  BY <1>1, <1>6, OpTypes
<1>8. nonce = b.start.nonce + b.i - 1 /\ nonce \in Nat
  <2>1. nonce = b.start.nonce + b.i - 1
    BY <1>4, <1>6 DEF NoncesOK
  <2>2. b.start.nonce + b.i - 1 \in Nat
    BY <1>4, <1>5
  <2> QED
    BY <2>1, <2>2, Zenon
<1>9. e \in Bundle
  BY <1>2, <1>5 DEF Bundle
<1>10. /\ e.phase = "execution" /\ e.i = b.i + 1 /\ e.ops = b.ops /\ e.nonces = b.nonces
       /\ e.start = b.start /\ e.collected = b.collected + cost
  BY <1>2 DEF Bundle
<1> HIDE DEF e, op, refund, nonce
<1>11. PICK c \in Chain :
          /\ c = Refund(ch, payer(op), refund, nonce)
          /\ c.deployed = ch.deployed /\ Deposits(c) = Deposits(ch) + refund
          /\ c.balance = ch.balance /\ c.nonce = ch.nonce
          /\ c.ran = Append(ch.ran, nonce)
  <2>1. ch \in Chain /\ payer(op) \in Parties /\ refund \in Nat /\ nonce \in Nat
    BY <1>4, <1>7, <1>8
  <2> QED
    BY <2>1, Refunded, Zenon
<1>12. ExecutingOK(e, c)
  <2>1. c.deployed /\ c.nonce = e.start.nonce + Len(e.ops)
    BY <1>3, <1>10, <1>11 DEF ExecutingOK
  <2>2. RanFirst(c, e.start.nonce + e.i - 1)
    <3>1. ch.ran \in Seq(Nat) /\ RanFirst(ch, nonce)
      BY <1>3, <1>4, <1>8, ChainTypes DEF ExecutingOK
    <3>2. RanFirst(c, nonce + 1)
      BY <1>8, <1>11, <3>1, RanNext
    <3>3. nonce + 1 = b.start.nonce + (b.i + 1) - 1
      <4>1. b.start.nonce \in Nat /\ b.i \in Nat /\ nonce = b.start.nonce + b.i - 1
        BY <1>5, <1>8
      <4> QED
        BY <4>1, Successor
    <3> QED
      BY <1>10, <3>2, <3>3
  <2>3. c.balance = Deposits(c) + Held(e, e.i..Len(e.ops))
    <3> DEFINE before == SumOf(Prefund(b.ops, b.i..Len(b.ops)), b.i..Len(b.ops))
               after == SumOf(Prefund(b.ops, (b.i + 1)..Len(b.ops)), (b.i + 1)..Len(b.ops))
    <3>1. /\ (b.i + 1)..Len(b.ops) \in SUBSET (1..Len(b.ops))
          /\ before = after + getRequiredPrefund(op)
      BY <1>5, <1>6, HeldShrinks DEF op
    <3>2. after \in Int
      BY <1>5, <3>1, PrefundTypes
    <3>3. /\ Held(b, b.i..Len(b.ops)) = before + b.collected
          /\ Held(e, e.i..Len(e.ops)) = after + (b.collected + cost)
      BY <1>10 DEF Held
    <3>4. ch.balance = Deposits(ch) + (before + b.collected) /\ Deposits(ch) \in Nat
      BY <1>3, <1>4, <3>3, ChainTypes DEF ExecutingOK
    <3> HIDE DEF before, after
    <3>5. refund = getRequiredPrefund(op) - cost
      BY DEF refund
    <3>6. c.balance = Deposits(ch) + (before + b.collected)
          /\ Deposits(c) = Deposits(ch) + refund
      BY <1>11, <3>4
    <3>7. Deposits(ch) + (before + b.collected)
             = (Deposits(ch) + refund) + (after + (b.collected + cost))
      <4>1. before = after + (refund + cost) /\ refund \in Nat
        BY <1>7, <3>1, <3>5
      <4> QED
        BY <1>5, <3>2, <3>4, <4>1
    <3> QED
      BY <3>3, <3>6, <3>7
  <2> QED
    BY <2>1, <2>2, <2>3 DEF ExecutingOK
<1>13. NoncesOK(e, Len(e.ops))
  BY <1>4, <1>10 DEF NoncesOK
<1>14. e.i <= Len(e.ops) + 1 /\ e.i >= 1 /\ e.i # 1
  <2>1. b.i + 1 <= Len(b.ops) + 1 /\ b.i + 1 >= 1 /\ b.i + 1 # 1
    BY <1>4, <1>5
  <2> QED
    BY <1>10, <2>1
<1>15. ExecutionOK(e, c)
  BY <1>10, <1>12, <1>13, <1>14 DEF ExecutionOK
<1>16. ValidationOK(e, c) /\ PreflightHolds(e, c, now)
  BY <1>10, <1>14 DEF ValidationOK, PreflightHolds
<1>17. UnderWay(e, c, now)
  BY <1>4, <1>9, <1>10, <1>14, <1>15, <1>16 DEF UnderWay
<1>18. e # Idle
  BY <1>9, BundleTypes
<1>19. UnderWay(bundle', chain', now') /\ bundle' # Idle /\ now' \in Nat
  BY <1>1, <1>2, <1>11, <1>17, <1>18, Zenon
<1> QED
  BY <1>19 DEF EntryPointInv

LEMMA PostExecutionKeeps ==
    ASSUME EntryPointInv, NEW g \in GasUsed, NEW p \in PostOpGas, postExecution(g, p)
    PROVE  EntryPointInv'
<1> DEFINE b == bundle
           op == CurrentOp
           price == getUserOpGasPrice(op, b.price)
           soFar == g * price
           cost == (g + p) * price
           after == IF op.paymaster THEN postOp(chain, soFar, now) ELSE chain
<1>1. /\ b.phase = "post"
      /\ op.paymaster => canPostOp(chain, soFar, now)
      /\ IF cost <= getRequiredPrefund(op)
         THEN Settle(after, cost) ELSE Settle(b.inner, getRequiredPrefund(op))
  BY DEF postExecution
<1>2. now \in Nat /\ UnderWay(b, chain, now) /\ b \in Bundle
  BY <1>1, PhaseOfBundle
<1>3. /\ ExecutingOK(b, chain) /\ ExecutingOK(b, b.inner) /\ chain \in Chain
      /\ b.i >= 1 /\ b.i <= Len(b.ops)
  BY <1>1, <1>2 DEF UnderWay, ExecutionOK
<1>4. b.i \in Nat /\ Len(b.ops) \in Nat /\ b.ops \in Seq(Ops) /\ b.price \in Nat
  BY <1>2, BundleTypes
<1>5. op \in Ops
  BY <1>3, <1>4 DEF CurrentOp
<1>6. price \in Nat /\ getRequiredPrefund(op) \in Nat /\ g \in Nat /\ p \in Nat
  BY <1>4, <1>5, GasPriceTypes, OpTypes, EntryPointAssumption
<1> HIDE DEF price
<1>7. soFar \in Nat /\ cost \in Nat
  <2>1. g + p \in Nat
    BY <1>6
  <2> QED
    BY <1>6, <2>1
<1> HIDE DEF soFar, cost
<1>8. ExecutingOK(b, after)
  <2>1. CASE op.paymaster
    <3>1. PICK c \in Chain :
             /\ c = postOp(chain, soFar, now)
             /\ c.deployed = chain.deployed /\ c.deposit = chain.deposit
             /\ c.balance = chain.balance /\ c.nonce = chain.nonce /\ c.ran = chain.ran
      BY <1>1, <1>2, <1>3, <1>7, <2>1, GasCharged
    <3>2. ExecutingOK(b, c)
      BY <1>3, <3>1, StillExecuting
    <3> QED
      BY <2>1, <3>1, <3>2
  <2>2. CASE ~op.paymaster
    BY <1>3, <2>2
  <2> QED
    BY <2>1, <2>2
<1> HIDE DEF after, op
<1>9. CASE cost <= getRequiredPrefund(op)
  <2>1. Settle(after, cost)
    BY <1>1, <1>9
  <2> QED
    BY <1>1, <1>7, <1>8, <1>9, <2>1, SettlementKeeps DEF op
<1>10. CASE ~(cost <= getRequiredPrefund(op))
  <2>1. Settle(b.inner, getRequiredPrefund(op)) /\ getRequiredPrefund(op) <= getRequiredPrefund(op)
    BY <1>1, <1>6, <1>10
  <2> QED
    BY <1>1, <1>3, <1>6, <2>1, SettlementKeeps DEF op
<1> QED
  BY <1>9, <1>10

LEMMA PostOpRevertedKeeps ==
    ASSUME EntryPointInv, NEW g \in GasUsed, NEW p \in PostOpGas, postOpReverted(g, p)
    PROVE  EntryPointInv'
<1> DEFINE b == bundle
           op == CurrentOp
           price == getUserOpGasPrice(op, b.price)
           cost == (g + p) * price
           charged == min(cost, getRequiredPrefund(op))
<1>1. b.phase = "post" /\ Settle(b.inner, charged)
  BY DEF postOpReverted
<1>2. now \in Nat /\ UnderWay(b, chain, now) /\ b \in Bundle
  BY <1>1, PhaseOfBundle
<1>3. ExecutingOK(b, b.inner) /\ b.i >= 1 /\ b.i <= Len(b.ops)
  BY <1>1, <1>2 DEF UnderWay, ExecutionOK
<1>4. b.i \in Nat /\ Len(b.ops) \in Nat /\ b.ops \in Seq(Ops) /\ b.price \in Nat
  BY <1>2, BundleTypes
<1>5. op \in Ops
  BY <1>3, <1>4 DEF CurrentOp
<1>6. price \in Nat /\ getRequiredPrefund(op) \in Nat /\ g \in Nat /\ p \in Nat
  BY <1>4, <1>5, GasPriceTypes, OpTypes, EntryPointAssumption
<1> HIDE DEF price
<1>7. cost \in Nat
  <2>1. g + p \in Nat
    BY <1>6
  <2> QED
    BY <1>6, <2>1
<1> HIDE DEF cost, op
<1>8. charged \in Nat /\ charged <= getRequiredPrefund(op)
  BY <1>6, <1>7 DEF min
<1> HIDE DEF charged
<1> QED
  BY <1>1, <1>3, <1>8, SettlementKeeps DEF op

-----------------------------------------------------------------------------
(***************************************************************************)
(* The invariant, and what follows from it.                                *)
(***************************************************************************)
LEMMA InvariantStep ==
    ASSUME EntryPointInv, [Next]_vars
    PROVE  EntryPointInv'
<1>1. CASE UNCHANGED vars
  BY <1>1 DEF vars, EntryPointInv
<1>2. CASE Tick
  BY <1>2, TickKeeps
<1>3. CASE createAccountDirectly
  BY <1>3, CreationKeeps
<1>4. ASSUME NEW x \in Assets, receive(x) PROVE EntryPointInv'
  BY <1>4, ReceiveKeeps
<1>5. ASSUME NEW who \in Parties, depositTo(who) PROVE EntryPointInv'
  BY <1>5, DepositKeeps
<1>6. CASE withdrawTo
  BY <1>6, WithdrawalKeeps
<1>7. ASSUME NEW n \in 1..MaxOps, NEW ops \in [1..n -> Ops],
             NEW nonces \in [1..n -> 0..MaxNonce], NEW price \in Prices,
             handleOps(ops, nonces, price)
      PROVE  EntryPointInv'
  BY <1>7, BundleBegins
<1>8. CASE validateOp
  BY <1>8, ValidationKeeps
<1>9. CASE bundleReverts
  BY <1>9, RevertKeeps
<1>10. ASSUME NEW success \in BOOLEAN, executeUserOp(success) PROVE EntryPointInv'
  BY <1>10, ExecutionKeeps
<1>11. ASSUME NEW g \in GasUsed, NEW p \in PostOpGas, postExecution(g, p)
       PROVE  EntryPointInv'
  BY <1>11, PostExecutionKeeps
<1>12. ASSUME NEW g \in GasUsed, NEW p \in PostOpGas, postOpReverted(g, p)
       PROVE  EntryPointInv'
  BY <1>12, PostOpRevertedKeeps
<1>13. CASE compensate
  BY <1>13, CompensationKeeps
<1> QED
  BY <1>1, <1>2, <1>3, <1>4, <1>5, <1>6, <1>7, <1>8, <1>9, <1>10, <1>11, <1>12, <1>13
  DEF Next, BundleStep

LEMMA InvariantHolds == Spec => []EntryPointInv
<1>1. Init => EntryPointInv
  BY InitSettled
<1>2. EntryPointInv /\ [Next]_vars => EntryPointInv'
  BY InvariantStep
<1> QED
  BY <1>1, <1>2, PTL DEF Spec

\* The types of the contracts' storage and balances: no prefund, refund, withdrawal or
\* compensation overdraws a deposit or the EntryPoint's balance, and no send or gas
\* charge the account's funds (_validatePrepayment, _postExecution, _compensate, execute,
\* payForGasInUsdc).
THEOREM EntryPointTypes == Spec => []ChainTypeOK
<1>1. EntryPointInv => ChainTypeOK
  BY PhaseOfBundle DEF ChainTypeOK
<1> QED
  BY <1>1, InvariantHolds, PTL

\* The EntryPoint's ETH is what it owes, at every instant of a bundle and whatever
\* fails in it: the deposits, the prefunds of the operations in flight and the fees
\* collected (_validatePrepayment, _postExecution, _compensate).
THEOREM EntryPointSolvent == Spec => []Solvency
<1>1. EntryPointInv => Solvency
  <2> SUFFICES ASSUME EntryPointInv PROVE Solvency
    OBVIOUS
  <2>1. CASE bundle = Idle
    <3> DEFINE f == [k \in {} |-> getRequiredPrefund(bundle.ops[k])]
    <3>1. InFlight = {}
      BY <2>1 DEF InFlight, Idle
    <3>2. f \in [{} -> Int] /\ IsFiniteSet({})
      BY FS_EmptySet
    <3> HIDE DEF f
    <3>3. SumOf(f, {}) = 0
      BY <3>2, SumOfZeros
    <3>4. chain.balance = Deposits(chain) /\ Deposits(chain) \in Nat
      BY <2>1, ChainTypes DEF EntryPointInv, Settled
    <3>5. Solvency <=> chain.balance = chain.deposit["account"] + chain.deposit["paymaster"]
                                       + SumOf(f, {}) + 0
      BY <2>1, <3>1 DEF Solvency, SumOf, f
    <3> QED
      BY <3>3, <3>4, <3>5 DEF Deposits
  <2>2. CASE bundle # Idle
    <3> DEFINE S == InFlight
               held == SumOf(Prefund(bundle.ops, S), S)
    <3>1. UnderWay(bundle, chain, now) /\ bundle \in Bundle /\ chain \in Chain
      BY <2>2, PhaseOfBundle
    <3>2. chain.balance = Deposits(chain) + (held + bundle.collected)
      <4>1. CASE bundle.phase = "validation"
        BY <3>1, <4>1 DEF UnderWay, ValidationOK, Held, InFlight
      <4>2. CASE bundle.phase \in {"execution", "post"}
        BY <3>1, <4>2 DEF UnderWay, ExecutionOK, ExecutingOK, Held, InFlight
      <4> QED
        BY <3>1, <4>1, <4>2, BundleTypes
    <3>3. Deposits(chain) \in Nat /\ bundle.collected \in Nat
      BY <3>1, ChainTypes, BundleTypes
    <3>4. held \in Int
      <4>1. S \in SUBSET (1..Len(bundle.ops))
        <5>1. bundle.i \in Nat /\ Len(bundle.ops) \in Nat /\ bundle.i >= 1
              /\ (bundle.phase = "validation" => bundle.i <= Len(bundle.ops))
              /\ bundle.phase # "idle"
          BY <3>1, BundleTypes DEF UnderWay, ValidationOK
        <5> QED
          BY <5>1 DEF InFlight
      <4> QED
        BY <3>1, <4>1, PrefundTypes, BundleTypes
    <3>5. Solvency <=> chain.balance = chain.deposit["account"] + chain.deposit["paymaster"]
                                       + held + bundle.collected
      BY <2>2 DEF Solvency, SumOf, Prefund
    <3> HIDE DEF held
    <3> QED
      BY <3>2, <3>3, <3>4, <3>5 DEF Deposits
  <2> QED
    BY <2>1, <2>2
<1> QED
  BY <1>1, InvariantHolds, PTL

\* Every nonce the account has used belongs to one operation that was executed, once
\* and in order, also after calls, postOps, prefunds and whole bundles that failed
\* (_validateAndUpdateNonce, _executeUserOp).
THEOREM ExecutedOnce == Spec => []ExactlyOnce
<1>1. EntryPointInv => ExactlyOnce
  <2> SUFFICES ASSUME EntryPointInv, bundle = Idle
               PROVE  chain.ran = [k \in 1..chain.nonce |-> k - 1]
    BY DEF ExactlyOnce
  <2>1. chain \in Chain /\ RanFirst(chain, chain.nonce)
    BY DEF EntryPointInv, Settled
  <2>2. chain.ran \in Seq(Nat) /\ Len(chain.ran) = chain.nonce
        /\ \A k \in 1..chain.nonce : chain.ran[k] = k - 1
    BY <2>1, ChainTypes DEF RanFirst
  <2>3. chain.ran = [k \in 1..Len(chain.ran) |-> chain.ran[k]]
    BY <2>2
  <2> QED
    BY <2>2, <2>3
<1> QED
  BY <1>1, InvariantHolds, PTL

\* Nothing is done in the account's name before it exists, also when the bundle that
\* created it is reverted or somebody else created it first (_createSenderIfNeeded,
\* _callValidateUserOp).
THEOREM CreatedFirst == Spec => []ActsOnceCreated
<1>1. EntryPointInv => ActsOnceCreated
  <2> SUFFICES ASSUME EntryPointInv, ~chain.deployed
               PROVE  Unused(chain) /\ bundle.phase \in {"idle", "validation"}
    BY DEF ActsOnceCreated, Unused
  <2>1. CASE bundle = Idle
    BY <2>1 DEF EntryPointInv, Settled, Idle
  <2>2. CASE bundle # Idle
    <3>1. UnderWay(bundle, chain, now) /\ bundle \in Bundle
      BY <2>2, PhaseOfBundle
    <3>2. bundle.phase \notin {"execution", "post"}
      BY <3>1 DEF UnderWay, ExecutionOK, ExecutingOK
    <3>3. bundle.phase = "validation"
      BY <3>1, <3>2, BundleTypes
    <3> QED
      BY <3>1, <3>3 DEF UnderWay, ValidationOK
  <2> QED
    BY <2>1, <2>2
<1> QED
  BY <1>1, InvariantHolds, PTL

\* What passes the preflight of validateUserOp passes execute: _validatePreflightLimits
\* and _validateAndRecordSpend agree on an operation on ETH that is alone in its bundle
\* and not large, for any limits, windows and counters.
THEOREM PreflightAgrees == Spec => []PreflightSound
<1>1. EntryPointInv => PreflightSound
  <2> DEFINE op == CurrentOp
             a == chain.acct
             d == opSpend(op)
             f == preflightSpend(op, bundle.price)
  <2> SUFFICES ASSUME EntryPointInv, AboutToExecuteAlone, op.fn # "none",
                      ~isLarge(f), d["usdc"] = 0
               PROVE  canValidateAndRecordSpend(a, d, now)
    BY DEF PreflightSound
  <2>1. UnderWay(bundle, chain, now) /\ bundle \in Bundle /\ now \in Nat /\ chain \in Chain
        /\ bundle.i = 1 /\ Len(bundle.ops) = 1 /\ bundle.phase = "execution"
    BY PhaseOfBundle DEF AboutToExecuteAlone
  <2>2. op = bundle.ops[1] /\ op \in Ops /\ bundle.price \in Nat
    BY <2>1, BundleTypes DEF CurrentOp
  <2>3. canParseCalls(op.calls) /\ canValidatePreflightLimits(a, f, now)
    BY <2>1, <2>2 DEF UnderWay, PreflightHolds
  <2> DEFINE gas == getUsdcGasCostIfPaymaster(op, bundle.price)
  <2>4. /\ d \in [Assets -> Nat] /\ f["eth"] = d["eth"] /\ f["usdc"] = d["usdc"] + gas
        /\ gas \in Nat
    BY <2>2, <2>3, SpendTypes, GasPriceTypes
  <2>5. a \in Storage
    BY <2>1, ChainTypes
  <2> HIDE DEF op, a, d, f, gas
  <2>6. d["eth"] \in Nat /\ usdcPerEth \in Nat /\ MaxUint256 \in Nat
    BY <2>4, RulesAssumption DEF Assets, Uint256
  <2>7. getUsdValue(d["eth"]) \in Nat
    <3>1. d["eth"] * usdcPerEth \in Nat
      BY <2>6
    <3> QED
      BY <3>1, RulesAssumption, QuotientSmaller DEF getUsdValue
  <2>8. canUpdatePanicCooldown(a, d, now)
    <3>1. /\ ~cooldownActive(a, now)
          /\ d["eth"] * usdcPerEth <= MaxUint256
          /\ getUsdValue(d["eth"]) + f["usdc"] <= MaxUint256
          /\ Limit["usdc"]["daily"] * PANIC_THRESHOLD_BPS <= MaxUint256
      BY <2>3, <2>4 DEF canValidatePreflightLimits, canUpdatePanicCooldown
    <3>2. getUsdValue(d["eth"]) + d["usdc"] <= MaxUint256
      BY <2>4, <2>6, <2>7, <3>1
    <3> QED
      BY <3>1, <3>2 DEF canUpdatePanicCooldown
  <2>9. canApplySpendAndUpdate(a, d, now)
    <3> SUFFICES ASSUME NEW x \in Assets, d[x] > 0
                 PROVE  validateSpend(countersToCharge(a, x, now), Limit[x], d[x])
      BY DEF canApplySpendAndUpdate
    <3>1. x = "eth"
      BY <2>4 DEF Assets
    <3>2. validateSpend(resetSpent(a.lastReset, a.spent[x], now), Limit[x], d[x])
      BY <2>3, <2>4, <3>1 DEF canValidatePreflightLimits
    <3> QED
      BY <3>1, <3>2 DEF countersToCharge
  <2> QED
    BY <2>8, <2>9 DEF canValidateAndRecordSpend
<1> QED
  BY <1>1, InvariantHolds, PTL
=============================================================================
