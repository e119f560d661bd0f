# A bounded spending account, in TLA+

The repository is an ERC-4337 account that lets its owner spend ETH and USDC up to
immutable daily and monthly limits, with the account-abstraction library it is built
on vendored in `lib/`. This directory models the account, its paymaster and factory and
the part of the EntryPoint they live on, and the library's TypeScript client tooling
(signer, operation queue, deployment, gas measurement), model-checks them with TLC, and
proves the safety properties of every component, contracts and client code, with TLAPS.
Line numbers are those of the sources named in `PROJECT.json`.

## 1. Inventory

| Component | State | Operations | Interacts with |
|---|---|---|---|
| `LimitPolicy.sol` | none | `maybeResetWindows`, `validateEthSpend`, `validateUsdcSpend` | called by the account |
| `SpendingAccount.sol` | four counters (asset x window), two reset timestamps, `lastLargeSpendTime`, `emergencyWithdrawRequestTime`; its ETH and USDC | `validateUserOp`, `execute`, `executeBatch` (EntryPoint only), `payForGasInUsdc` (paymaster only), `requestEmergencyWithdraw`, `emergencyWithdraw` (owner only), `receive`, `addDeposit` | calls any target with ETH, USDC, the EntryPoint |
| `SpendingPaymaster.sol` (and `BasePaymaster.sol`) | its deposit in the EntryPoint | `_validatePaymasterUserOp`, `_postOp`, `deposit`, `withdrawTo` | reads the account's USDC balance, calls `payForGasInUsdc` |
| `EntryPoint.sol`, `StakeManager.sol`, `NonceManager.sol`, `SenderCreator.sol` | deposits, stakes, nonces, its ETH | `handleOps`: validate all (creating senders), execute all, compensate; `addStake`, `unlockStake`, `withdrawStake`, `withdrawTo` | calls account, paymaster and factory, pays recipients |
| `SpendingAccountFactory.sol` | none | `createAccount`, `getAddress` | CREATE2 of an account |
| `AASigner.ts`: `queueUserOpSender` | per queue: operations by sender, a counter, a time stamp, an interval; one `sending` flag per process | enqueue, `push`, `setInterval`, `cancelInterval`, `sendQueuedUserOps` | sends bundles to the EntryPoint through a node |
| `AASigner.ts`: the signer | `_account`, `_isPhantom`; per transaction the promises and the listener of its response | `syncAccount`, `connectAccountAddress`, `_createUserOperation`, `sendTransaction`, `userEventResponse` | node, bundler, events of the EntryPoint |
| `Create2Factory.ts` | `factoryDeployed` | `deploy`, `deployFactory`, `_isFactoryDeployed` | node; a factory whoever comes first deploys |
| `gascalc/` (`GasChecker.ts`, the test files) | the collector and its table; per file `createdAccounts`, `locked`; `gasEstimatePerExec` | `GasCheckCollector.init`, `createAccounts1`, `addTestRow`, `runTest` | mocha, node, EntryPoint |
| `runop.ts`, `hardhat.config.ts`, `deploy/`, `Deploy.s.sol`, tests, forge-std | - | - | - |

The last four rows that are modelled belong to the vendored library: they are how its
own developers, and whoever writes a client from them, talk to the contracts above.

What is hard in it:

* **Callbacks.** `_doCall` and `emergencyWithdraw` hand control to foreign code in
  the middle of a batch or a withdrawal; that code may have the account called again.
* **Reverts.** A failing call undoes its frame and everything nested in it, but
  nothing below it; a failing `postOp` undoes the executed operation but not its validation.
* **Two phases.** A bundle validates every operation before it executes any, so what
  the preflight and the paymaster checked may be gone when it is used.
* **Rolling windows.** Two assets share the reset timestamps; a reset happens in the
  first transaction after expiry, and only the asset charged has its counter written.
* **Timers.** Cooldown and timelock, at their last instant and across failures.
* **Awaits.** The client code interleaves at every `await`: flags and fields are read
  before one and used after it, requests fail, transactions are accepted long before
  they are mined, events come in any order, and what was read of the chain is old.

What makes each part correct:

* the account: counters within the limits; counters never behind what calls and gas
  charges have taken; a cooldown after a large spend; one request per emergency
  withdrawal; spending possible again once the windows have elapsed;
* the promise to the owner: how much can go in an arbitrary interval of a window's length;
* EntryPoint and paymaster: solvency, each nonce executed once, the preflight agrees
  with execution, nothing happens in an account's name before the account exists, a
  stake is locked for its delay and can be had back;
* the queue: one bundle at a time, operations in their order and once, none left behind;
* the signer: a receipt is that of the caller's own operation, and comes;
* the deployer: an address that is returned has code, and retries get it;
* the gas suite: no row is lost, workers exclude each other, the suite ends.

`PROJECT.json` lists the hazards with their lines and the properties aimed at them.

## 2. Modules

```
LimitPolicy  <- SpendingRules <- SpendingAccount <- MCSpendingAccount
     ^               ^                |
     |               |                | implements
     |               |                v
     |               |          BoundedSpender <- SpendingHistory <- MCSpendingHistory
     +---------------+-- EntryPoint <- MCEntryPoint

StakeManager      UserOpQueue      AASigner <- MCAASigner
Create2Factory <- MCCreate2Factory      GasChecker <- MCGasChecker

Proofs: SpendingRulesProofs <- SpendingAccountProofs
                            <- EntryPointProofs
                FiniteSums  <- EntryPointProofs, StakeManagerProofs
        SpendingHistoryProofs <- SpendingAccountProofs (INSTANCE)
        AASignerProofs (UserOpQueue, AASigner)
        ToolingProofs (Create2Factory, GasChecker)
```

**LimitPolicy** is the library: when a window is over, which timestamps and counters
`maybeResetWindows` returns, when a spend fits. Counters and timestamps that the code
keeps in pairs of variables are functions of the window.

**SpendingRules** holds the account's internal functions. A function that may revert
is two operators: `canF`, when it returns, and `F`, the storage it then leaves.
Of call data only what the parser and USDC look at is kept: its length, the selector
USDC sees, the word the parser loads, the amount. The order of resets in
`_applySpendAndUpdate` is in `countersToCharge`: ETH against the stored timestamps,
USDC against those just computed. `_applyUsdcSpend` passes one wrong counter to its
first reset, whose counters it drops; that has no effect and is left out. Amounts and
sums are bounded by `MaxUint256` wherever the code's checked arithmetic reverts.

**SpendingAccount** is the account under everybody who may call it. State: the storage,
the balances, the time, two histories (what really moved since each reset; when the
last large operation and the last withdrawal were), and a stack of suspended frames.

| Action | Code |
|---|---|
| `validateUserOp` | the whole function, with the preflight's cooldown write and the prefund whose failure is ignored |
| `executeBatch` | `execute` (a batch of one) and `executeBatch` up to the first call |
| `doCall`, `executeReturns` | the loop of `_doCall`s; the return |
| `payForGasInUsdc` | the whole function; USDC calls nobody back |
| `requestEmergencyWithdraw` | the whole function |
| `emergencyWithdraw`, `withdrawReturns` | up to the recipient's call; the USDC transfer after it |
| `callReverts` | any failing call: the top frame restores what it found |
| `receive`, `Tick` | money comes in; a later block |

A call that reverts before it has called anybody changes nothing and is not a step.
While foreign code runs (`ForeignCodeRuns`) every action its caller's identity permits
may happen. The model is generous here: it lets the owner act within any callback, as
if he were called too, so the properties hold against more than the code allows.
`EntryPointMayCall` is `nonReentrant` of `handleOps`: no operation within an operation,
though one within an emergency withdrawal.

**EntryPoint** is a bundle on its way: `handleOps` starts it, `validateOp` is one round
of the validation loop, `executeUserOp` the account's call in `innerHandleOp`,
`postExecution` and `postOpReverted` its settlement, `compensate` its end,
`bundleReverts` FailedOp and AA95. `chain` is everything a revert rolls back; a bundle
remembers the chain at its start and at the start of the inner call. The account may
have to be created first, by an operation's `initCode` (`canCreateSender`,
`createSenderIfNeeded`) or by anybody (`createAccountDirectly`). It uses the same
SpendingRules as SpendingAccount. Gas is what the code cannot foresee: how much an operation
and its postOp use (with penalties) is chosen from `GasUsed` and `PostOpGas`, and so is
whether a call or postOp runs out of it. One sender, one nonce key. Callees without
code: callbacks are the subject of SpendingAccount.

**BoundedSpender** is the abstract specification: time passes, and transactions move
amounts that fit rolling windows. **SpendingHistory** adds the history of totals that
the statement about arbitrary intervals needs, and says (`Recorded`) how somebody who
sees only the windows of a spender would keep it.

**StakeManager** is the stake's life: `addStake`, `unlockStake`, `withdrawStake`, with
`depositTo` and `withdrawTo`. Whoever is paid may have any of them called again or
revert; a frame keeps the world a revert restores. History: the longest promise made
for a stake, and the last payout.

The client modules share one convention. JavaScript runs from one `await` to the next
without interruption, so that stretch is one action; a call's program counter names the
await it is at; the node's answer to a read may be a step of its own, so that it can be
old when it is used; and an action for the failure of an awaited request stands beside
the ones for its success.

**UserOpQueue** is `queueUserOpSender` and `sendQueuedUserOps`. `queueSize` and
`lastQueueUpdate` are never initialised: `Plus` and `Less` compute with `NaN` as
JavaScript does. `Push` is the call up to its first await, `PackThrows` the same call
when `packUserOp` throws over an operation already taken off its queue, `CallHandleOps`,
`Submit`, `Receipt` and `Fail` what follows, `Mine` the chain.

**AASigner** has the calls that may overlap on a signer: transactions (`SyncAccount` to
`SendReturns`), calls that only sync, and `connectAccountAddress`. `UserEventResponse`
starts a listener and a timer; `On`, `Timer`, `CheckEvent` and `Resolve` are its life.
`MineOp`, `OtherBlock` and `Drop` are what bundler and EntryPoint do with operations.
`sendUserOp` is `rpcUserOpSender` or `localUserOpSender`; the request of either may be
refused or fail. An operation is its sender, initCode, nonce and what it calls; equal
operations are those of equal hashes.

**Create2Factory** is `deploy` with `deployFactory` inside it, for calls on several
objects. The deployer's presigned transaction can be mined once; a transaction to an
address without code succeeds and does nothing; a chain may be reset under the objects.
`GetCode` is the node's answer to `getCode`, a step of its own: when the call goes on
with it (`IsFactoryDeployed`, `CheckAddress`, `Verify`) another call may have created
the contract, or the chain been reset. `since` remembers how often it had been when a
call began.

**GasChecker** is the suite as mocha runs it: files are loaded, rows run one after
another, a row creates accounts and starts a worker per account. A worker that throws,
before the lock (`WorkerRequestFails`) or while it holds it (`Filled`), ends its row
while the others go on. Estimates are right or wrong (made for an account that does not
exist yet), gas amounts are left out.

## 3. Runs

| Run | Result | Shows |
|---|---|---|
| `account` | pass, 215 thousand states | `TypeOK`, `WithinLimits`, `CallsAndChargesCounted`, `CooldownHonoured`, `WithdrawalsSpaced`, `EthSpendableAfterReset`; the account implements BoundedSpender (`KeepsPromise`) |
| `history_span` | pass, 37 thousand | `SpanBound`: at most twice the limit in any interval shorter than a window |
| `entrypoint` | pass, 1.5 million | `ChainTypeOK`, `Solvency`, `ExactlyOnce`, `ActsOnceCreated`, `PreflightSound`, no deadlock |
| `stake_lifecycle` | pass, 1.4 million | `StakeTypeOK`, `LockedForDelay`, `HoldsWhatItOwes`, `NoStakeIsStuck`, no deadlock |
| `queue` | pass, 52 thousand | `QueueTypeOK`, `OneBundleInFlight`, `ExecutedInOrder`, `TimerIsOwned`; liveness `QueueDrains` |
| `signer` | pass, 324 thousand | `SignerTypeOK`, `ReceiptIsOwn`; liveness `LaterBlockIsReported` |
| `create2` | pass, 908 thousand | `Create2TypeOK`, `FactoryComesFirst`, `ReturnedIsDeployed`; liveness `RetriesSucceed` |
| `gas` | pass, 125 thousand | `GasTypeOK`, `RowsAreKept`, `OneFillsAtATime`, `OnlyFaultsFail`; liveness `SuiteEnds` |
| `account_usdc_transfer` | violation | finding 1 |
| `account_usdc_reset` | violation | finding 2 |
| `entrypoint_large_op` | violation | finding 3 |
| `signer_late_block` | violation | finding 4 |

**Bounds.** Units are scaled so that small numbers meet every boundary: limits of one
to six, a uint256 of two or three bits, windows of one to five ticks.

* `account`: three ticks for a daily window and a timelock of one, and a monthly window
  and a cooldown of two: several daily windows, the end of a monthly one and of a
  cooldown, two rounds of request and withdrawal. One unit of balance that can be
  refilled, also from inside a callback; batches of two, a send of one unit to the
  account itself, which is executed, and one of two units, which never is: it is parsed
  and counted, then fails for want of balance and is rolled back, and two of them
  overflow the sum of a batch; sends to a contract that calls back, a USDC transfer the
  parser refuses, spends that are large and spends that are not; operations nested in
  withdrawals and withdrawals in operations. The one prefund asked for is sometimes more
  than the balance, and then not paid.
* `entrypoint`: bundles of two out of seven kinds of operation (self-paid with and
  without an initCode, sponsored and large by its projected gas, sponsored and small,
  badly signed, with another account's initCode, sponsored without postOp gas), nonces
  right and wrong, postOp gas that does and does not fit the prefund, an ETH limit that
  two operations use up, across a daily reset; the account does not exist at first.
* `history_span`: nine ticks, windows of two and five that do not divide each other.
* `stake_lifecycle`: two entities, delays of zero, one and two in four ticks, two nested
  withdrawals, a stake at the limit of its type.
* `queue`: two queues and two senders, three operations in all, at most two of one
  sender in a queue; an interval is set, replaced and cancelled.
* `signer`: one transaction next to one call that syncs or connects, two blocks, which
  may hold somebody else's operation or the account's creation, one failing request, both
  kinds of sender. The overlap of two transactions of one signer is not in the instance;
  the proofs of section 5 cover it.
* `create2`: three calls on two objects, two of them for the same contract, one with
  estimated gas, a contract the default gas does not suffice for, one reset, which may
  come between an answer of the node and its use; two fees are enough for both objects
  to fund the deployer, only one of which its transaction uses.
* `gas`: five rows of three files, up to three workers, one fault at any request, chains
  that mine at once and later.

`entrypoint` and `stake_lifecycle` check for deadlock: a bundle can always be submitted
and a call always made, so a deadlock would be a bundle or a withdrawal that is stuck.
The other runs turn the check off, as time ends at `MaxTime` and the calls and
operations of an instance are finitely many.

**Fairness.** The account, BoundedSpender, EntryPoint and StakeManager are checked for
safety only. Each client module has a fair specification (`FairSpec`, `SignerFairSpec`,
`GasFairSpec`): weak fairness of what a running JavaScript process and a live node do:

* queue: an interval that is set keeps firing (the push it makes may throw), requests
  are answered, submitted transactions are mined, time passes. Not assumed: that anybody
  pushes or enqueues.
* signer: the block number is answered, ethers polls for events and runs its callbacks,
  the timer fires. Not assumed: that an operation is accepted, mined or sent at all.
* create2: calls go on, transactions are mined, and whoever's call throws calls again,
  which is the caller's part; a chain may or may not be reset.
* gas: mocha and the event loop go on, requests are answered or fail, transactions are
  mined.

**Mutants.** Beside a definition stands its plausible bug (`canApplySpendAndUpdate_Daily`,
`timelockMet_Unrequested`, ...); each property of a passing run is violated when the
bug `PROJECT.json` names replaces the definition.

## 4. Findings

1. `SpendingAccount.sol:292` reads the selector at the wrong offset and shifts it out of
   a `bytes4`: no USDC transfer through `execute` is ever accepted, where
   `INVARIANTS.md:26` allows it. The USDC counters are thus only charged for gas.
2. `SpendingAccount.sol:329-340, 385-396` reset the USDC counters against the timestamps
   just renewed: they are never zeroed, where `LimitPolicy.sol:11` says they are. Once
   they reach the monthly limit, gas can never be paid in USDC again.
3. `SpendingAccount.sol:179, 194`: the preflight of a large operation starts the
   cooldown that makes its own execution revert.
4. `AASigner.ts:267` asks for the block number and does not wait for it before the
   operation is sent. If the answer is the block that executes the operation, line 274
   ignores its event, and `wait()` never settles.

Further divergences that the models contain and no run is devoted to:

* `SpendingAccount.sol:202`: the ETH prefund the account pays for its own gas is on no
  counter, where `INVARIANTS.md:9` has "gas paid" on the recorded side and line 14 says
  that no path transfers ETH without updating counters. The first operation that pays
  for itself contradicts both. Whatever this project shows of counted spending
  (`CallsAndChargesCounted`, `KeepsPromise`, `AccountSpans`) is therefore about the calls
  of `execute` and `executeBatch` and the charges of `payForGasInUsdc`; prefunds come on
  top. So do emergency withdrawals, which send everything to the owner's recipient
  (line 432) and touch no counter.
* `SpendingAccount.sol:367-368, 407-408` renew the timestamps without writing the ETH
  counters when no ETH is spent: the previous window's ETH spend counts in the new one,
  where `LimitPolicy.sol:11` zeroes the counter. An ETH send, a day, and a gas charge in
  USDC lead there. It lasts until an ETH spend is the first to see an expiry, which is
  the case `EthSpendableAfterReset` is about.
* `SpendingPaymaster.sol:58`: operations of one bundle are checked against the same USDC
  balance; with USDC for the gas of one of two, the second is executed, its postOp
  reverts and the paymaster pays, where `COMPATIBILITY.md:50` has an operation without
  the USDC for its gas refused in validation.
* `AASigner.ts:131`: a full queue waits as well while operations keep coming, where line
  121 says it is sent at once; `queueSize` is `NaN` throughout.
* `AASigner.ts:351`: the account's address is asked for with salt 0, whatever the index,
  where `runop.ts:52` gives accounts different indices; the index is the nonce of the
  operation that creates the account (line 392).
* `AASigner.ts:237, 352`: a `syncAccount` that overlaps with `connectAccountAddress` may
  store the counterfactual address after the latter has cleared `_isPhantom`; the signer
  then takes an account without code for created.
* `Create2Factory.ts:38`: `deploy` of a contract that exists returns its address, where
  line 25 says it fails.
* `GasChecker.ts:171`: `createAccounts1` returns when the transaction that creates the
  accounts is accepted; on a node that mines in intervals rows run without their accounts.

Finding 2 and the second of these err on the safe side, which is why `WithinLimits` and
`KeepsPromise` hold.

## 5. Proofs

Every theorem is `Spec => ...` for all values of the constants that satisfy the named
assumptions of the modules (`WindowAssumption`, `RulesAssumption`, `AccountAssumption`,
`EntryPointAssumption`, `StakeAssumption`, `QueueAssumption`, `Create2Assumption`, ...).
They fix types, and little else: windows, the divisors of the code and the timelock are
not zero, the senders of a queue and the entities with a stake are finitely many, a
queue has room for one timer. `GasAssumption` also says that the suite's first row has
no hook: the files of `gascalc/` run in the order of their names, and the first is the
warmup `0-init-gas-checker.ts`, which has no `before()`. A `before()` in the first file
would find the collector's promise unsettled and `OnlyFaultsFail` would not hold.

**SpendingRulesProofs** has the lemmas about the account's functions that both state
machines call: what `maybeResetWindows`, the panic check, the recording of a spend and a
gas charge leave in storage, and what parsed calls amount to.

**SpendingAccountProofs** (any limits, windows, periods, calls, batch length, depth of
re-entrancy) proves `TypeOK`, `WithinLimits`, `CallsAndChargesCounted`,
`CooldownHonoured`, `WithdrawalsSpaced` (`TypeCorrect`, `LimitsHold`, `AccountingHolds`,
`CooldownHolds`, `TimelockHolds`), `EthSpendableAfterReset` (`EthSpendable`) and the
refinement `KeepsPromise` (`PromiseKept`).

None of these is inductive. `callReverts` makes an old world current, so what is
claimed of the current world has to hold of every world a frame has saved, relative to
the frames that lie below it. `IInv` says so: `Sound(stack, World, Len(stack), now)` for
the present and `Sound(stack, stack[i].saved, i - 1, now)` for the past. `Sound` is

* `Covers`: the counters cover what moved and what the one suspended batch among the
  frames below has still to send;
* `LimitsKept`;
* `ClocksRemember`: the slots of cooldown and timelock are at least as late as the
  events they stand for, which is what the guards compare against.

`StackOK` adds that at most one frame is an execution (from `EntryPointMayCall`), that
its totals are the running sums of its calls, and that its clocks had allowed it. Lemmas
about windows (a charge keeps the counters ahead of the movements, also when one is
reset and the other stale), about running totals (what a call moves is at most what it
was parsed as) and about stacks (pushing, popping, and changing the top frame) carry one
step per action.

`EthSpendable` has a hypothesis, `ProductsFit`: the two products of the panic check fit a
uint256 for amounts within the limits. The constructor does not check it, and with an
"unlimited" limit of 2^256 - 1 it is false and every operation reverts; with limits
below 2^256 / 5000 it holds.

For `PromiseKept` the abstract spender sees what is committed: the world under the
lowest frame. `RInv` says that the current and every saved world `Follows` from it by
spends that fit its windows, so that the step that empties the stack is one spend of
the abstract specification, a revert and a step inside a callback are stutters.

**SpendingHistoryProofs** proves `SpenderTypes` and `SpanBounded`, `SpenderSpec =>
[]SpanBound`. The invariant `SpanInv` splits an interval at the last reset: what moved
since is what the window has counted; what moved before it, within less than a window,
lies in one earlier window, since nothing moves between expiry and the transaction that
resets.

`PromiseBoundsSpans` says the same of whoever keeps the promise: `Promise /\ Recorded =>
[]SpanBound`. `Recorded` constrains nothing but the history variable: a step adds to `total`
what the day's window has gained, which is what the step spent, because a window that is
reset begins later than it began before (`RecordIsHistory`). SpendingAccountProofs
instantiates it with what the account has committed and `PromiseKept`, and so has the whole
way from the model of the code to "twice the limit" for what `execute`, `executeBatch` and
`payForGasInUsdc` take: `AccountSpans`. The bound is tight: on
the instance of `history_span` TLC finds a span in which exactly twice the limit moves, and
on one of SpendingAccount a span in which more than the limit does.

**EntryPointProofs** (any operations, bundle lengths, prices, gas, limits, funding)
proves the five invariants of `entrypoint`: `EntryPointTypes` (`ChainTypeOK`),
`EntryPointSolvent` (`Solvency`), `ExecutedOnce` (`ExactlyOnce`), `CreatedFirst`
(`ActsOnceCreated`), `PreflightAgrees` (`PreflightSound`). `EntryPointInv` is needed
because two reverts bring back chains: `bundleReverts` the one at the start of
`handleOps`, a failed settlement the one before the inner call. It says that

* between bundles, and at the start saved in one, the chain is `Settled`: the nonces
  used are the nonces executed, the balance is the deposits, an account that does not
  exist has done nothing;
* in validation the nonce is i - 1 ahead of that start, and the balance ahead of the
  deposits by the prefunds of the i - 1 operations validated;
* in execution, of the chain and of the saved inner chain: the operations before the
  i-th are executed and the balance is ahead by the prefunds from the i-th on and by
  what was collected (`ExecutingOK`);
* the preflight of a lone operation that is not large still holds of the storage it is
  about to be executed on (`PreflightHolds`).

One lemma per function says what it makes of the chain, one per action that the
invariant survives. **FiniteSums** is about the sums in it and in `HoldsWhatItOwes`:
changing one term, adding an element. `MapThenSumSet` is a recursive function over
subsets; its equation and the lemmas are proved from a smallest counterexample, which
the library's theorem on well-founded orders provides without an operator parameter.

**StakeManagerProofs** (any entities, amounts, delays, depth of nested withdrawals)
proves `StakeTypes`, `DelayServed` (`LockedForDelay`), `NeverStuck` (`NoStakeIsStuck`)
and `BalanceIsOwed` (`HoldsWhatItOwes`). In `StakeInv` a record is locked, unlocking or
without a stake, and in each phase bounds the end of the longest delay promised: by now
and the delay, by the withdrawal time, by now. It holds of the saved worlds too, with
the present time.

**AASignerProofs** is about the two parts of `AASigner.ts`.

Of the queue (any queues, senders, operations) it proves `QueueTypes`, `OneBundle`
(`OneBundleInFlight`), `TimerOwned` (`TimerIsOwned`) and `InOrder` (`ExecutedInOrder`).
`QueueInv` adds that the numbers of a sender's operations increase along the way from
the queue's end through the bundle in flight to the operations executed.

Of the signer (any signers, any number of transactions, syncs and connects on each, any
number of blocks and failing requests) it proves `SignerTypesHold` (`SignerTypeOK`) and
`ReceiptsOwn` (`ReceiptIsOwn`). `ReceiptIsOwn` compares the event a listener found with an
operation and a block number that the call keeps in its own variables, and several steps
lie between the two. `SignerInv` bridges them:

* `CallOK`: listener, timer, block number and result exist only once the call has filled in
  its operation; nothing that a call does from then on changes it. Whoever has synced
  has an account to send from, which is what makes the sender of an operation an
  address;
* `HearingOK`: an invocation of a listener is about an event of the chain, and one that
  waits for its receipt has compared that event with the call's operation and block
  number (`Tells`);
* `ReceiptOK`: so has a result that was reported.

Every action is a change of one call, of the invocations, or of the chain; one lemma for
each kind says what of the invariant it keeps, one lemma per action applies it.

**ToolingProofs** is about the scripts beside the contracts.

Of Create2Factory (any objects, calls, contracts) it proves `Create2Types`,
`FactoryFirst` (`FactoryComesFirst`) and `ReturnsDeployed` (`ReturnedIsDeployed`).
`ReturnedIsDeployed` speaks of a call that has returned and of the chain at any time
after it, so `Create2Inv` has to carry what was seen: on a chain that was not reset
since a call began, an answer "code" that the call has not yet used is still true, and
so is what it returned. It adds that on a chain that was never reset whoever is past
`deployFactory`, or whose object's flag is up, has a factory, and that the factory's
transaction is accepted only with its fee there.

Of the gas suite (any rows, files, accounts, failing requests) it proves `GasTypes`
(`GasTypeOK`), `RowsKept` (`RowsAreKept`), `FillersExclude` (`OneFillsAtATime`) and
`CleanSuite` (`OnlyFaultsFail`). `GasInv` is

* `CollectorOK`: at most one initialisation is under way, none once a collector is in use,
  and rows are added only to a collector in use; so the table an initialisation
  replaces is empty;
* `LockOK`: whoever fills in an operation holds the lock of its file, and holds it alone.
  It speaks of the workers of all rows, since those of a row that threw go on;
* `Clean`, while the chain mines at once and no request has failed: an account that
  `createAccounts1` will not create again exists or is about to be submitted, so every
  worker has an account, its estimate is right, no worker throws and no row fails.

`IInv`, `EntryPointInv`, `QueueInv`, `SignerInv` and `GasInv` were checked by TLC as
invariants of the instances of section 3 before they were proved, `AccountSpans` on an
instance of SpendingAccount with the history variable (1.3 million states).

**Model-checked only.** Every safety property of a passing run has its theorem. The
liveness properties (`QueueDrains`, `LaterBlockIsReported`, `RetriesSucceed`,
`SuiteEnds`) and the absence of deadlock are beyond the prover, which has no rule for
fairness or `ENABLED`.

## 6. Not modelled

Signatures and hashes (an operation is signed by the owner or not); aggregators;
`incrementNonce` and other nonce keys; simulations and EIP-7702; events, except the one
the signer listens to; the deployment scripts and the configuration of the vendored
library, which have no state; `runop.ts`, a script that makes two of AASigner's calls one
after the other. Of the client code: amounts of gas, fees and the printed table, methods
that only throw, `AAProvider`. Gas is a choice, not a quantity: the `gasleft()` guard of
`payForGasInUsdc` and the inner out-of-gas test appear as `postOpReverted` and
`bundleReverts`.

## 7. Plan

Done: all modules above and their runs; every safety property of every module proved, with
the account's refinement of BoundedSpender and the bound on arbitrary spans that follows
from it.

Next: emergency withdrawal and callbacks inside bundles, that is SpendingAccount's frames
under EntryPoint's; two overlapping transactions of one signer in the instance that
checks liveness.
