-------------------------- MODULE SpendingAccount --------------------------
(***************************************************************************)
(* One SpendingAccount (src/src/SpendingAccount.sol) and everybody who may *)
(* call it: the EntryPoint, the paymaster, the vault owner, and the code   *)
(* that runs while one of the account's own external calls is in progress. *)
(* Such a call suspends the function that made it, so the account keeps a  *)
(* stack of suspended frames, and whoever is called may call back.         *)
(*                                                                         *)
(* A frame that reverts restores what it saw on entry.  A call that        *)
(* reverts before its first external call changes nothing, and is a step   *)
(* the model does not take; so is a transaction that its caller reverts.   *)
(***************************************************************************)
EXTENDS SpendingRules

CONSTANTS
    DeployTime,   \* block.timestamp of the constructor
    MaxTime,      \* bound on block.timestamp
    MaxFunds,     \* bound on each balance
    Calls,        \* the calls an operation may contain
    MaxCalls,     \* bound on the length of a batch
    Recipients,   \* to whom the owner may withdraw; empty if he never does
    GasCosts,     \* USDC amounts: projected gas costs, and gas charges
    Prefunds      \* missingAccountFunds the EntryPoint may ask for

ASSUME AccountAssumption ==
    /\ DeployTime \in Nat \ {0}
    /\ MaxTime \in Nat
    /\ MaxFunds \in Nat
    /\ Calls \subseteq Call
    /\ MaxCalls \in Nat
    /\ Recipients \subseteq {"eoa", "contract", "self"}
    /\ GasCosts \subseteq Uint256
    /\ Prefunds \subseteq Uint256

VARIABLES
    now,      \* block.timestamp
    acct,     \* the account's storage
    funds,    \* its balance of each asset
    moved,    \* history: moved[x][w] is what operations and gas charges have
              \* taken of asset x since lastReset[w]
    lastAt,   \* history: when the preflight or the execution of an operation last
              \* met a large spend, and when an emergency withdrawal last began
              \* (0: never)
    stack     \* the suspended frames, the outermost first

vars == <<now, acct, funds, moved, lastAt, stack>>

\* What a revert restores.
World == [acct |-> acct, funds |-> funds, moved |-> moved, lastAt |-> lastAt]

Top == stack[Len(stack)]

Frames(kind) == {i \in DOMAIN stack : stack[i].kind = kind}

(***************************************************************************)
(* Foreign code runs at top level, and while a call to a contract is in    *)
(* progress: USDC has no hooks, and an emergency withdrawal of no ETH      *)
(* makes no call before it transfers USDC.                                 *)
(***************************************************************************)
ForeignCodeRuns ==
    stack # <<>> => Top.done > 0 /\ Top.callee = "contract"

\* handleOps is nonReentrant, and execute only ever runs inside it.
EntryPointMayCall == ForeignCodeRuns /\ Frames("execute") = {}

Charge(m, lastReset, d, nowTs) ==
    [x \in Assets |-> [w \in Windows |->
        (IF Expired(lastReset, w, nowTs) THEN 0 ELSE m[x][w]) + d[x]]]

NoSpend == [x \in Assets |-> 0]

\* What a call really takes from the account: its value, and the amount if it
\* is a USDC transfer.
Moves(c) ==
    [x \in Assets |->
        IF x = "eth" THEN c.value
        ELSE IF c.target = "usdc" /\ c.data.selector = TRANSFER_SELECTOR
             THEN c.data.amount ELSE 0]

Init ==
    /\ now = DeployTime
    /\ acct = constructor(DeployTime)
    /\ funds = [x \in Assets |-> 0]
    /\ moved = [x \in Assets |-> [w \in Windows |-> 0]]
    /\ lastAt = [large |-> 0, withdraw |-> 0]
    /\ stack = <<>>

-----------------------------------------------------------------------------
\* A later block.
Tick ==
    /\ stack = <<>>
    /\ now < MaxTime
    /\ now' = now + 1
    /\ UNCHANGED <<acct, funds, moved, lastAt, stack>>

\* receive() for ETH; for USDC, a transfer by somebody else.
receive(x) ==
    /\ ForeignCodeRuns
    /\ funds[x] < MaxFunds
    /\ funds' = [funds EXCEPT ![x] = @ + 1]
    /\ UNCHANGED <<now, acct, moved, lastAt, stack>>

(***************************************************************************)
(* validateUserOp, for callData that holds calls (an execute holds one, an *)
(* executeBatch any number, callData of under four bytes none).  A prefund *)
(* the account cannot afford is a failed call whose result is ignored.     *)
(* The signature decides only what validateUserOp returns; the EntryPoint  *)
(* reverts the bundle of an operation whose signature is not the owner's.  *)
(***************************************************************************)
validateUserOp(calls, usdcGasCost, missingAccountFunds) ==
    /\ EntryPointMayCall
    /\ canParseCalls(calls)
    /\ LET d == withGas(totalSpend(calls), usdcGasCost)
       IN  /\ d["usdc"] <= MaxUint256
           /\ canValidatePreflightLimits(acct, d, now)
           /\ acct' = validatePreflightLimits(acct, d, now)
           /\ lastAt' = [lastAt EXCEPT !.large = IF isLarge(d) THEN now ELSE @]
    /\ funds' = [funds EXCEPT !["eth"] =
                    IF missingAccountFunds <= @ THEN @ - missingAccountFunds ELSE @]
    /\ UNCHANGED <<now, moved, stack>>

(***************************************************************************)
(* execute (a batch of one) and executeBatch up to their first call: the   *)
(* whole spend is parsed, checked and recorded.                            *)
(***************************************************************************)
executeBatch(calls) ==
    /\ EntryPointMayCall
    /\ canParseCalls(calls)
    /\ canValidateAndRecordSpend(acct, totalSpend(calls), now)
    /\ acct' = validateAndRecordSpend(acct, totalSpend(calls), now)
    /\ moved' = Charge(moved, acct.lastReset, NoSpend, now)
    /\ lastAt' = [lastAt EXCEPT !.large = IF isLarge(totalSpend(calls)) THEN now ELSE @]
    /\ stack' = Append(stack, [kind |-> "execute", calls |-> calls,
                               total |-> parseCalls(calls), done |-> 0,
                               callee |-> "none", saved |-> World])
    /\ UNCHANGED <<now, funds>>

(***************************************************************************)
(* _doCall of the next call, up to the point where the callee runs.  ETH   *)
(* sent to the account itself comes back through receive(), or goes on to  *)
(* the EntryPoint if the data names addDeposit.                            *)
(***************************************************************************)
doCall ==
    /\ stack # <<>> /\ Top.kind = "execute" /\ Top.done < Len(Top.calls)
    /\ LET i == Top.done + 1
           c == Top.calls[i]
           d == Moves(c)
       IN  /\ \A x \in Assets : d[x] <= funds[x]
           /\ \/ funds' = [x \in Assets |-> funds[x] - d[x]]
              \/ c.target = "self" /\ UNCHANGED funds
           /\ moved' = [x \in Assets |-> [w \in Windows |-> moved[x][w] + d[x]]]
           /\ stack' = [stack EXCEPT ![Len(stack)] =
                            [@ EXCEPT !.done = i, !.callee = c.target]]
    /\ UNCHANGED <<now, acct, lastAt>>

\* The last call has returned, and so do execute and handleOps' inner call.
executeReturns ==
    /\ stack # <<>> /\ Top.kind = "execute" /\ Top.done = Len(Top.calls)
    /\ stack' = SubSeq(stack, 1, Len(stack) - 1)
    /\ UNCHANGED <<now, acct, funds, moved, lastAt>>

\* Mutant of canPayForGas: the transfer is made without the balance.
canPayForGas_Unfunded(amount) == canApplyUsdcSpend(acct, amount, now)

\* The charge fits the limits, and USDC's transfer does not revert.
canPayForGas(amount) ==
    /\ canApplyUsdcSpend(acct, amount, now)
    /\ amount <= funds["usdc"]

(***************************************************************************)
(* payForGasInUsdc, called by the paymaster's postOp, that is between the  *)
(* executions of a bundle.  USDC hands over no control.                    *)
(***************************************************************************)
payForGasInUsdc(amount) ==
    /\ EntryPointMayCall
    /\ canPayForGas(amount)
    /\ acct' = applyUsdcSpend(acct, amount, now)
    /\ funds' = [funds EXCEPT !["usdc"] = @ - amount]
    /\ moved' = Charge(moved, acct.lastReset,
                       [x \in Assets |-> IF x = "usdc" THEN amount ELSE 0], now)
    /\ UNCHANGED <<now, lastAt, stack>>

requestEmergencyWithdraw ==
    /\ ForeignCodeRuns
    /\ acct' = [acct EXCEPT !.emergencyWithdrawRequestTime = now]
    /\ UNCHANGED <<now, funds, moved, lastAt, stack>>

\* Mutant of timelockMet: nobody asks whether a withdrawal was requested.
timelockMet_Unrequested(a, nowTs) ==
    nowTs >= a.emergencyWithdrawRequestTime + WITHDRAW_TIMELOCK

timelockMet(a, nowTs) ==
    /\ a.emergencyWithdrawRequestTime # 0
    /\ nowTs >= a.emergencyWithdrawRequestTime + WITHDRAW_TIMELOCK

\* emergencyWithdraw up to the point where the recipient has the ETH.
emergencyWithdraw(recipient) ==
    /\ ForeignCodeRuns
    /\ timelockMet(acct, now)
    /\ acct' = [acct EXCEPT !.emergencyWithdrawRequestTime = 0]
    /\ funds' = [funds EXCEPT !["eth"] = IF recipient = "self" THEN @ ELSE 0]
    /\ lastAt' = [lastAt EXCEPT !.withdraw = now]
    /\ stack' = Append(stack, [kind |-> "withdraw", calls |-> <<>>,
                               total |-> [x \in Assets |-> <<>>],
                               done |-> IF funds["eth"] > 0 THEN 1 ELSE 0,
                               callee |-> recipient, saved |-> World])
    /\ UNCHANGED <<now, moved>>

\* The recipient has returned: all the USDC there is by then is transferred.
withdrawReturns ==
    /\ stack # <<>> /\ Top.kind = "withdraw"
    /\ funds' = [funds EXCEPT !["usdc"] = IF Top.callee = "self" THEN @ ELSE 0]
    /\ stack' = SubSeq(stack, 1, Len(stack) - 1)
    /\ UNCHANGED <<now, acct, moved, lastAt>>

\* A call the top frame makes fails: execute and emergencyWithdraw revert.
callReverts ==
    /\ stack # <<>>
    /\ acct' = Top.saved.acct
    /\ funds' = Top.saved.funds
    /\ moved' = Top.saved.moved
    /\ lastAt' = Top.saved.lastAt
    /\ stack' = SubSeq(stack, 1, Len(stack) - 1)
    /\ UNCHANGED now

-----------------------------------------------------------------------------
Batches == UNION {[1..n -> Calls] : n \in 0..MaxCalls}

Next ==
    \/ Tick
    \/ \E x \in Assets : receive(x)
    \* sponsored, with a projected gas cost; and self-paid, with missing funds
    \/ \E calls \in Batches, g \in GasCosts : validateUserOp(calls, g, 0)
    \/ \E calls \in Batches, m \in Prefunds : validateUserOp(calls, 0, m)
    \/ \E calls \in Batches : executeBatch(calls)
    \/ doCall
    \/ executeReturns
    \/ \E amount \in GasCosts : payForGasInUsdc(amount)
    \/ Recipients # {} /\ requestEmergencyWithdraw
    \/ \E recipient \in Recipients : emergencyWithdraw(recipient)
    \/ withdrawReturns
    \/ callReverts

Spec == Init /\ [][Next]_vars

-----------------------------------------------------------------------------
WorldType == [acct : Storage, funds : [Assets -> Nat],
              moved : [Assets -> [Windows -> Nat]],
              lastAt : [large : Nat, withdraw : Nat]]

Frame == [kind : {"execute", "withdraw"}, calls : Seq(Call),
          total : [Assets -> Seq(Uint256)], done : Nat,
          callee : Targets \cup {"none"}, saved : WorldType]

\* The types of the variables, and of the frames that execute, executeBatch and
\* emergencyWithdraw suspend.
TypeOK ==
    /\ now \in Nat
    /\ World \in WorldType
    /\ stack \in Seq(Frame)

\* No operation, gas charge or re-entrant sequence of them gets a counter
\* past its immutable limit (_applySpendAndUpdate, _applyUsdcSpend).
WithinLimits == \A x \in Assets : \A w \in Windows : acct.spent[x][w] <= Limit[x][w]

\* What the calls an execute frame has still to make will spend.
Pending(f) ==
    [x \in Assets |-> UpTo(f.total, Len(f.calls))[x] - UpTo(f.total, f.done)[x]]

\* At every instant, also in the middle of a batch and inside a callback, the
\* counters cover what the calls of execute and executeBatch and the charges of
\* payForGasInUsdc have taken since their window was reset, and what the calls of
\* a suspended batch are still going to send (_validateAndRecordSpend comes before
\* _doCall).  The ETH prefund of _payPrefund and emergencyWithdraw are recorded
\* nowhere and are not part of this: INVARIANTS.md:9 and :14, which have gas paid on
\* the recorded side and no transfer without a counter, are not true of the prefund.
CallsAndChargesCounted ==
    \A x \in Assets : \A w \in Windows :
        /\ Frames("execute") = {} => moved[x][w] <= acct.spent[x][w]
        /\ \A i \in Frames("execute") :
              moved[x][w] + Pending(stack[i])[x] <= acct.spent[x][w]

\* Panic cooldown: an operation only ever runs when the last large spend is at
\* least COOLDOWN_PERIOD old, also one that only its preflight saw because the
\* operation itself failed afterwards.
CooldownHonoured ==
    \A i \in Frames("execute") :
        LET large == stack[i].saved.lastAt.large
        IN  large # 0 => now >= large + COOLDOWN_PERIOD

\* One request backs one withdrawal: two emergency withdrawals are at least a
\* timelock apart, even if the recipient of the first calls back.
WithdrawalsSpaced ==
    \A i \in Frames("withdraw") :
        LET withdrawn == stack[i].saved.lastAt.withdraw
        IN  withdrawn # 0 => now >= withdrawn + WITHDRAW_TIMELOCK

WindowsElapsed == \A w \in Windows : now - acct.lastReset[w] >= WindowLength[w]

Only(x, amount) == [y \in Assets |-> IF y = x THEN amount ELSE 0]

\* Once both windows have elapsed and no cooldown is active, the account
\* accepts any amount of ETH that both limits allow.
EthSpendableAfterReset ==
    WindowsElapsed /\ ~cooldownActive(acct, now) =>
        \A v \in Uint256 :
            (\A w \in Windows : v <= Limit["eth"][w]) =>
                canValidateAndRecordSpend(acct, Only("eth", v), now)

\* The same for a gas charge in USDC: LimitPolicy.sol:11 says that the counter
\* is zeroed when the window has elapsed.
UsdcSpendableAfterReset ==
    WindowsElapsed =>
        \A v \in Uint256 :
            (\A w \in Windows : v <= Limit["usdc"][w]) => canApplyUsdcSpend(acct, v, now)

\* INVARIANTS.md:26: the allowed operations are ETH sends and USDC transfer. A
\* well-formed transfer(address,uint256) that the balance, the limits and the
\* cooldown allow is accepted by execute.
UsdcTransferAccepted ==
    \A c \in Calls :
        /\ c.target = "usdc" /\ c.value = 0
        /\ c.data.selector = TRANSFER_SELECTOR /\ c.data.length = 68
        /\ c.data.amount <= funds["usdc"]
        /\ canValidateAndRecordSpend(acct, Only("usdc", c.data.amount), now)
        => canParseCalls(<<c>>)

-----------------------------------------------------------------------------
(***************************************************************************)
(* The inductive invariant behind the safety properties.  A revert makes   *)
(* an earlier world current again, so what holds of the current world must *)
(* hold of every world a frame has saved, relative to the frames below it. *)
(* Stated for any stack st, any world and any time n, so that the proofs   *)
(* can speak of a stack and of what a step makes of it in one breath.      *)
(***************************************************************************)
ExecuteFrames(st) == {i \in DOMAIN st : st[i].kind = "execute"}

\* A suspended batch has its running totals, and its clocks have allowed it.
FrameOK(f, n) ==
    /\ f.kind = "execute" =>
          /\ f.done <= Len(f.calls)
          /\ \A x \in Assets : f.total[x] \in RunningTotals(f.calls, x)
          /\ f.saved.lastAt.large # 0 => n >= f.saved.lastAt.large + COOLDOWN_PERIOD
    /\ f.kind = "withdraw" /\ f.saved.lastAt.withdraw # 0 =>
          n >= f.saved.lastAt.withdraw + WITHDRAW_TIMELOCK

\* The counters of world cover what has moved and what the execute frame among
\* the first depth frames has still to send.
Covers(st, world, depth) ==
    \A x \in Assets : \A w \in Windows :
        /\ (\A i \in ExecuteFrames(st) : i > depth) =>
               world.moved[x][w] <= world.acct.spent[x][w]
        /\ \A i \in ExecuteFrames(st) :
               i <= depth =>
                   world.moved[x][w] + Pending(st[i])[x] <= world.acct.spent[x][w]

LimitsKept(world) ==
    \A x \in Assets : \A w \in Windows : world.acct.spent[x][w] <= Limit[x][w]

\* The slots of the cooldown and of the timelock remember the last events.
ClocksRemember(world, n) ==
    /\ world.lastAt.large # 0 => world.acct.lastLargeSpendTime >= world.lastAt.large
    /\ world.lastAt.large <= n
    /\ world.lastAt.withdraw <= n
    /\ world.lastAt.withdraw # 0 /\ world.acct.emergencyWithdrawRequestTime # 0
          => world.acct.emergencyWithdrawRequestTime >= world.lastAt.withdraw

Sound(st, world, depth, n) ==
    /\ Covers(st, world, depth)
    /\ LimitsKept(world)
    /\ ClocksRemember(world, n)

StackOK(st, n) ==
    /\ st \in Seq(Frame)
    /\ \A i, j \in ExecuteFrames(st) : i = j
    /\ \A i \in DOMAIN st : FrameOK(st[i], n) /\ Sound(st, st[i].saved, i - 1, n)

IInv ==
    /\ now \in Nat
    /\ World \in WorldType
    /\ StackOK(stack, now)
    /\ Sound(stack, World, Len(stack), now)

-----------------------------------------------------------------------------
\* What is there for good: what a revert of everything under way would leave.
Committed == IF stack = <<>> THEN World ELSE stack[1].saved

Owner == INSTANCE BoundedSpender
    WITH Amounts <- Uint256,
         lastReset <- Committed.acct.lastReset,
         moved <- Committed.moved

\* The account implements BoundedSpender: whatever is called in whatever order,
\* a top-level call of execute, executeBatch or payForGasInUsdc moves amounts
\* that fit the windows, and every other call leaves windows and movements alone.
KeepsPromise == Owner!Promise
=============================================================================
