---------------------------- MODULE StakeManager ----------------------------
(***************************************************************************)
(* The deposits and stakes that the EntryPoint keeps for accounts,         *)
(* paymasters and factories (StakeManager.sol), which the paymaster's      *)
(* owner reaches through the functions BasePaymaster forwards.             *)
(*                                                                         *)
(* A withdrawal pays a recipient whose code runs then and may have any of  *)
(* the functions called again, also by the entity that is being paid.  The *)
(* world is what a revert rolls back; a withdrawal under way keeps the     *)
(* world its revert goes back to.  A call that reverts before it pays      *)
(* anybody changes nothing.                                                *)
(***************************************************************************)
EXTENDS Integers, Sequences, FiniteSets, FiniteSetsExt

CONSTANTS
    Entities,    \* addresses with a deposit or a stake
    Amounts,     \* the values calls may carry, or withdraw
    Delays,      \* the values unstakeDelaySec may have
    MaxUint112,  \* type(uint112).max
    MaxUint48,   \* type(uint48).max
    MaxTime,     \* bound on block.timestamp
    MaxDepth,    \* bound on withdrawals inside withdrawals
    MaxBalance   \* bound on what the EntryPoint holds

ASSUME StakeAssumption ==
    /\ IsFiniteSet(Entities)
    /\ Amounts \subseteq Nat /\ Delays \subseteq Nat
    /\ MaxUint112 \in Nat /\ MaxUint48 \in Nat /\ MaxDepth \in Nat /\ MaxBalance \in Nat
    /\ MaxTime \in Nat \ {0}

VARIABLES
    now,     \* block.timestamp
    world,   \* see World
    frames   \* the worlds to go back to, of the withdrawals under way

vars == <<now, world, frames>>

DepositInfo ==
    [deposit : Nat, staked : BOOLEAN, stake : 0..MaxUint112, unstakeDelaySec : Nat,
     withdrawTime : 0..MaxUint48]

\* promised[e]: the end of the longest delay that the stake of e has been locked for,
\* counted from the last moment at which it was; payout: when a stake was last paid out,
\* and what had been promised.
World ==
    [deposits : [Entities -> DepositInfo], balance : Nat,
     promised : [Entities -> Nat], payout : [at : Nat, promised : Nat]]

StakeTypeOK ==
    /\ now \in 1..MaxTime
    /\ world \in World
    /\ frames \in Seq(World)

NoDeposit ==
    [deposit |-> 0, staked |-> FALSE, stake |-> 0, unstakeDelaySec |-> 0, withdrawTime |-> 0]

Init ==
    /\ now = 1
    /\ world = [deposits |-> [e \in Entities |-> NoDeposit], balance |-> 0,
                promised |-> [e \in Entities |-> 0], payout |-> [at |-> 0, promised |-> 0]]
    /\ frames = <<>>

-----------------------------------------------------------------------------
\* Received value, up to the bound.
CanReceive(amount) == world.balance + amount <= MaxBalance

depositTo(e, amount) ==
    /\ CanReceive(amount)
    /\ world' = [world EXCEPT !.deposits[e].deposit = @ + amount, !.balance = @ + amount]
    /\ UNCHANGED <<now, frames>>

\* Any delay will do.
canAddStake_Shorter(info, delay, amount) ==
    /\ delay > 0
    /\ info.stake + amount > 0 /\ info.stake + amount <= MaxUint112

canAddStake(info, delay, amount) ==
    /\ delay > 0 /\ delay >= info.unstakeDelaySec
    /\ info.stake + amount > 0 /\ info.stake + amount <= MaxUint112

\* An unstake that is pending is forgotten, and nothing is locked again.
staked_Unlocked(info, delay, amount) ==
    [info EXCEPT !.stake = @ + amount, !.unstakeDelaySec = delay, !.withdrawTime = 0]

staked(info, delay, amount) ==
    [info EXCEPT !.staked = TRUE, !.stake = @ + amount, !.unstakeDelaySec = delay,
                 !.withdrawTime = 0]

later(s, t) == IF s < t THEN t ELSE s

addStake(e, delay, amount) ==
    /\ CanReceive(amount)
    /\ canAddStake(world.deposits[e], delay, amount)
    /\ world' = [world EXCEPT !.deposits[e] = staked(@, delay, amount),
                              !.balance = @ + amount,
                              !.promised[e] = later(@, now + delay)]
    /\ UNCHANGED <<now, frames>>

unlockStake(e) ==
    LET info == world.deposits[e]
    IN  /\ info.unstakeDelaySec # 0
        /\ info.staked
        /\ now + info.unstakeDelaySec <= MaxUint48
        /\ world' = [world EXCEPT !.deposits[e].staked = FALSE,
                                  !.deposits[e].withdrawTime = now + info.unstakeDelaySec]
        /\ UNCHANGED <<now, frames>>

-----------------------------------------------------------------------------
(***************************************************************************)
(* Withdrawals, up to the call of the recipient.                           *)
(***************************************************************************)
canWithdrawStake(info) ==
    /\ info.stake > 0
    /\ info.withdrawTime > 0
    /\ info.withdrawTime <= now

\* The stake is still on record while its recipient is paid.
unstaked_Later(info) == [info EXCEPT !.unstakeDelaySec = 0]

unstaked(info) == [info EXCEPT !.unstakeDelaySec = 0, !.withdrawTime = 0, !.stake = 0]

withdrawStake(e) ==
    LET info == world.deposits[e]
    IN  /\ Len(frames) < MaxDepth
        /\ canWithdrawStake(info)
        /\ info.stake <= world.balance
        /\ world' = [world EXCEPT !.deposits[e] = unstaked(@),
                                  !.balance = @ - info.stake,
                                  !.payout = [at |-> now, promised |-> world.promised[e]]]
        /\ frames' = Append(frames, world)
        /\ UNCHANGED now

\* What is withdrawn is not compared with what is there.
canWithdraw_Any(info, amount) == TRUE

canWithdraw(info, amount) == amount <= info.deposit

withdrawTo(e, amount) ==
    /\ Len(frames) < MaxDepth
    /\ canWithdraw(world.deposits[e], amount)
    /\ amount <= world.balance
    /\ world' = [world EXCEPT !.deposits[e].deposit = @ - amount, !.balance = @ - amount]
    /\ frames' = Append(frames, world)
    /\ UNCHANGED now

Pop == SubSeq(frames, 1, Len(frames) - 1)

\* The recipient returns.
withdrawReturns ==
    /\ frames # <<>>
    /\ frames' = Pop
    /\ UNCHANGED <<now, world>>

\* The recipient reverts, and the withdrawal with it: "failed to withdraw".
withdrawReverts ==
    /\ frames # <<>>
    /\ world' = frames[Len(frames)]
    /\ frames' = Pop
    /\ UNCHANGED now

\* Between transactions, time passes; what is locked stays locked for its delay.
Tick ==
    /\ frames = <<>> /\ now < MaxTime
    /\ now' = now + 1
    /\ world' = [world EXCEPT !.promised =
                    [e \in Entities |->
                        IF world.deposits[e].staked
                        THEN later(@[e], now' + world.deposits[e].unstakeDelaySec) ELSE @[e]]]
    /\ UNCHANGED frames

Next ==
    \/ \E e \in Entities, amount \in Amounts :
          \/ depositTo(e, amount)
          \/ withdrawTo(e, amount)
          \/ \E delay \in Delays : addStake(e, delay, amount)
    \/ \E e \in Entities : unlockStake(e) \/ withdrawStake(e)
    \/ withdrawReturns \/ withdrawReverts
    \/ Tick

Spec == Init /\ [][Next]_vars

-----------------------------------------------------------------------------
(***************************************************************************)
(* Properties.                                                             *)
(***************************************************************************)

\* withdrawStake: a stake is paid out only when every delay it was ever locked for is
\* over, counted from the last moment at which it was locked, whatever sequence of
\* stakes, unlocks and withdrawals, in callbacks and undone by reverts, came before.
LockedForDelay == world.payout.at >= world.payout.promised

\* StakeManager: at every moment, inside callbacks too, the EntryPoint holds exactly the
\* deposits and stakes it has on record, so that nobody's withdrawal uses another's ETH.
HoldsWhatItOwes ==
    LET owed == [e \in Entities |-> world.deposits[e].deposit + world.deposits[e].stake]
    IN  world.balance = MapThenSumSet(LAMBDA e : owed[e], Entities)

\* unlockStake, withdrawStake: a stake on record can be unlocked now, or has been, and
\* is due within its delay.
NoStakeIsStuck ==
    \A e \in Entities :
        LET info == world.deposits[e]
        IN  info.stake > 0 =>
                \/ info.staked /\ info.unstakeDelaySec > 0
                \/ info.withdrawTime > 0 /\ info.withdrawTime <= now + info.unstakeDelaySec
=============================================================================
