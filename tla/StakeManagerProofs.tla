------------------------- MODULE StakeManagerProofs -------------------------
(***************************************************************************)
(* The locking of stakes in StakeManager, for any entities, amounts,       *)
(* delays and bounds.                                                      *)
(*                                                                         *)
(* An entity's record is in one of three phases: locked, unlocking, and    *)
(* without a stake.  In each of them the end of the longest delay that was *)
(* ever promised is bounded by what the record still says: by now and the  *)
(* delay, by the withdrawal time, by now.  A revert brings back an earlier *)
(* world at the same time, so the invariant holds of the saved worlds too. *)
(* That the balance is the sum of the records is kept by steps that change *)
(* one record and the balance by the same amount.                          *)
(***************************************************************************)
EXTENDS StakeManager, FiniteSums, SequenceTheorems

\* info is the record of an entity, end the end of the delays promised, n the time.
Locked(info, end, n) ==
    info.staked =>
        /\ info.unstakeDelaySec > 0
        /\ info.withdrawTime = 0
        /\ end <= n + info.unstakeDelaySec

Unlocking(info, end, n) ==
    info.withdrawTime > 0 =>
        /\ end <= info.withdrawTime
        /\ info.withdrawTime <= n + info.unstakeDelaySec

Unstaked(info, end, n) ==
    ~info.staked /\ info.withdrawTime = 0 => info.stake = 0 /\ end <= n

PhaseOK(info, end, n) ==
    Locked(info, end, n) /\ Unlocking(info, end, n) /\ Unstaked(info, end, n)

\* What the EntryPoint owes for a record, and each entity.
Due(info) == info.deposit + info.stake
Owed(w) == [e \in Entities |-> Due(w.deposits[e])]

WorldOK(w, n) ==
    /\ w \in World
    /\ w.balance = SumOf(Owed(w), Entities)
    /\ \A e \in Entities : PhaseOK(w.deposits[e], w.promised[e], n)
    /\ w.payout.at >= w.payout.promised

StakeInv ==
    /\ now \in 1..MaxTime
    /\ WorldOK(world, now)
    /\ frames \in Seq(World)
    /\ \A i \in DOMAIN frames : WorldOK(frames[i], now)

-----------------------------------------------------------------------------
(***************************************************************************)
(* Records and worlds.                                                     *)
(***************************************************************************)
LEMMA InfoTypes ==
    ASSUME NEW info \in DepositInfo
    PROVE  /\ info.deposit \in Nat /\ info.staked \in BOOLEAN /\ info.stake \in Nat
           /\ info.stake <= MaxUint112 /\ info.unstakeDelaySec \in Nat
           /\ info.withdrawTime \in Nat /\ info.withdrawTime <= MaxUint48
           /\ Due(info) \in Nat
<1>1. /\ info.deposit \in Nat /\ info.staked \in BOOLEAN /\ info.stake \in Nat
      /\ info.stake <= MaxUint112 /\ info.unstakeDelaySec \in Nat
      /\ info.withdrawTime \in Nat /\ info.withdrawTime <= MaxUint48
  BY StakeAssumption DEF DepositInfo
<1> QED
  BY <1>1 DEF Due

LEMMA WorldTypes ==
    ASSUME NEW w \in World
    PROVE  /\ w.deposits \in [Entities -> DepositInfo] /\ w.balance \in Nat
           /\ w.promised \in [Entities -> Nat]
           /\ w.payout.at \in Nat /\ w.payout.promised \in Nat
BY DEF World

\* The record of one entity is replaced.
LEMMA RecordReplaced ==
    ASSUME NEW w, NEW n \in Nat, WorldOK(w, n),
           NEW e \in Entities, NEW info \in DepositInfo,
           NEW ends \in [Entities -> Nat],
           \A f \in Entities : f # e => ends[f] = w.promised[f],
           PhaseOK(info, ends[e], n),
           NEW b \in Nat,
           b = w.balance + Due(info) - Due(w.deposits[e]),
           NEW p \in [at : Nat, promised : Nat], p.at >= p.promised
    PROVE  WorldOK([deposits |-> [w.deposits EXCEPT ![e] = info], balance |-> b,
                    promised |-> ends, payout |-> p], n)
<1> DEFINE v == [deposits |-> [w.deposits EXCEPT ![e] = info], balance |-> b,
                 promised |-> ends, payout |-> p]
<1>1. w.deposits \in [Entities -> DepositInfo]
  BY WorldTypes DEF WorldOK
<1>2. v \in World /\ v.payout.at >= v.payout.promised
  BY <1>1 DEF World
<1>3. ASSUME NEW f \in Entities PROVE PhaseOK(v.deposits[f], v.promised[f], n)
  <2>1. PhaseOK(w.deposits[f], w.promised[f], n)
    BY DEF WorldOK
  <2>2. CASE f = e
    BY <1>1, <2>2
  <2>3. CASE f # e
    <3>1. v.deposits[f] = w.deposits[f] /\ v.promised[f] = w.promised[f]
      BY <1>1, <2>3
    <3> QED
      BY <2>1, <3>1
  <2> QED
    BY <2>2, <2>3
<1>4. v.balance = b /\ v.deposits = [w.deposits EXCEPT ![e] = info]
  OBVIOUS
<1> HIDE DEF v
<1>5. b = SumOf(Owed(v), Entities)
  <2>1. w.balance \in Nat /\ w.balance = SumOf(Owed(w), Entities)
    BY WorldTypes DEF WorldOK
  <2>2. /\ Owed(w) \in [Entities -> Int]
        /\ Owed(w)[e] = Due(w.deposits[e])
    BY <1>1, InfoTypes DEF Owed
  <2>3. v.deposits \in [Entities -> DepositInfo]
    BY <1>2, WorldTypes
  <2>4. /\ Owed(v) \in [Entities -> Int]
        /\ Owed(v)[e] = Due(info)
    BY <1>1, <1>4, <2>3, InfoTypes DEF Owed
  <2>5. \A f \in Entities : f # e => Owed(v)[f] = Owed(w)[f]
    BY <1>1, <1>4 DEF Owed
  <2>6. SumOf(Owed(v), Entities) = SumOf(Owed(w), Entities) + Owed(v)[e] - Owed(w)[e]
    BY <2>2, <2>4, <2>5, SumChanged, StakeAssumption
  <2>7. Owed(v)[e] \in Int /\ Owed(w)[e] \in Int
    BY <2>2, <2>4
  <2>8. b = w.balance + Owed(v)[e] - Owed(w)[e]
    BY <2>2, <2>4
  <2> QED
    BY <2>1, <2>6, <2>7, <2>8
<1>6. WorldOK(v, n)
  BY <1>2, <1>3, <1>4, <1>5 DEF WorldOK
<1> QED
  BY <1>6 DEF v

\* Steps that only change the world; withdrawals, which save it.
LEMMA SameFrames ==
    ASSUME StakeInv, now' = now, frames' = frames, WorldOK(world', now)
    PROVE  StakeInv'
BY DEF StakeInv

LEMMA WorldSaved ==
    ASSUME StakeInv, now' = now, frames' = Append(frames, world), WorldOK(world', now)
    PROVE  StakeInv'
<1>1. frames \in Seq(World) /\ world \in World
  BY DEF StakeInv, WorldOK
<1>2. frames' \in Seq(World)
  BY <1>1
<1>3. ASSUME NEW i \in DOMAIN frames' PROVE WorldOK(frames'[i], now)
  <2>1. CASE i \in DOMAIN frames
    <3>1. frames'[i] = frames[i]
      BY <1>1, <2>1
    <3> QED
      BY <2>1, <3>1 DEF StakeInv
  <2>2. CASE i \notin DOMAIN frames
    <3>1. frames'[i] = world
      BY <1>1, <2>2
    <3> QED
      BY <3>1 DEF StakeInv
  <2> QED
    BY <2>1, <2>2
<1> QED
  BY <1>2, <1>3 DEF StakeInv

LEMMA NowTypes ==
    ASSUME StakeInv
    PROVE  /\ now \in Nat /\ now >= 1 /\ now <= MaxTime /\ MaxTime \in Nat
           /\ WorldOK(world, now) /\ world \in World
           /\ world.payout \in [at : Nat, promised : Nat]
           /\ world.payout.at >= world.payout.promised
           /\ world.balance \in Nat /\ world.promised \in [Entities -> Nat]
           /\ \A e \in Entities :
                 /\ world.deposits[e] \in DepositInfo
                 /\ PhaseOK(world.deposits[e], world.promised[e], now)
<1>1. now \in Nat /\ now >= 1 /\ now <= MaxTime /\ MaxTime \in Nat
  BY StakeAssumption DEF StakeInv
<1>2. WorldOK(world, now) /\ world \in World
  BY DEF StakeInv, WorldOK
<1>3. world.payout \in [at : Nat, promised : Nat]
  BY <1>2 DEF World
<1> QED
  BY <1>1, <1>2, <1>3, WorldTypes DEF WorldOK

-----------------------------------------------------------------------------
(***************************************************************************)
(* The operations.                                                         *)
(***************************************************************************)
LEMMA DepositStep ==
    ASSUME StakeInv, NEW e \in Entities, NEW amount \in Amounts, depositTo(e, amount)
    PROVE  StakeInv'
<1> DEFINE info == [world.deposits[e] EXCEPT !.deposit = @ + amount]
<1>1. amount \in Nat
  BY StakeAssumption
<1>2. info \in DepositInfo /\ PhaseOK(info, world.promised[e], now)
  BY <1>1, NowTypes DEF DepositInfo, PhaseOK, Locked, Unlocking, Unstaked
<1>3. world' = [deposits |-> [world.deposits EXCEPT ![e] = info],
                balance |-> world.balance + amount,
                promised |-> world.promised, payout |-> world.payout]
  <2>1. world \in World
    BY NowTypes
  <2> QED
    BY <2>1 DEF depositTo, World
<1>4. /\ world.balance + amount \in Nat
      /\ world.balance + amount = world.balance + Due(info) - Due(world.deposits[e])
  BY <1>1, NowTypes, InfoTypes DEF DepositInfo, Due
<1> HIDE DEF info
<1>5. WorldOK(world', now)
  BY <1>2, <1>3, <1>4, NowTypes, RecordReplaced
<1> QED
  BY <1>5, SameFrames DEF depositTo

LEMMA WithdrawToStep ==
    ASSUME StakeInv, NEW e \in Entities, NEW amount \in Amounts, withdrawTo(e, amount)
    PROVE  StakeInv'
<1> DEFINE info == [world.deposits[e] EXCEPT !.deposit = @ - amount]
<1>1. amount \in Nat /\ amount <= world.deposits[e].deposit /\ amount <= world.balance
  BY StakeAssumption DEF withdrawTo, canWithdraw
<1>2. info \in DepositInfo /\ PhaseOK(info, world.promised[e], now)
  BY <1>1, NowTypes DEF DepositInfo, PhaseOK, Locked, Unlocking, Unstaked
<1>3. world' = [deposits |-> [world.deposits EXCEPT ![e] = info],
                balance |-> world.balance - amount,
                promised |-> world.promised, payout |-> world.payout]
  <2>1. world \in World
    BY NowTypes
  <2> QED
    BY <2>1 DEF withdrawTo, World
<1>4. /\ world.balance - amount \in Nat
      /\ world.balance - amount = world.balance + Due(info) - Due(world.deposits[e])
  BY <1>1, NowTypes, InfoTypes DEF DepositInfo, Due
<1> HIDE DEF info
<1>5. WorldOK(world', now)
  BY <1>2, <1>3, <1>4, NowTypes, RecordReplaced
<1> QED
  BY <1>5, WorldSaved DEF withdrawTo

\* A new stake is locked for at least the delay it had, so the longest promise ends
\* when the new delay does.
LEMMA AddStakeStep ==
    ASSUME StakeInv, NEW e \in Entities, NEW amount \in Amounts, NEW delay \in Delays,
           addStake(e, delay, amount)
    PROVE  StakeInv'
<1> DEFINE old == world.deposits[e]
           info == staked(old, delay, amount)
           ends == [world.promised EXCEPT ![e] = later(@, now + delay)]
<1>1. /\ amount \in Nat /\ delay \in Nat /\ delay > 0 /\ delay >= old.unstakeDelaySec
      /\ old.stake + amount <= MaxUint112
  BY StakeAssumption DEF addStake, canAddStake
<1>2. old \in DepositInfo /\ PhaseOK(old, world.promised[e], now)
  BY NowTypes
<1>3. /\ info.staked = TRUE /\ info.unstakeDelaySec = delay /\ info.withdrawTime = 0
      /\ info.deposit = old.deposit /\ info.stake = old.stake + amount
      /\ info \in DepositInfo
  <2>1. old.stake + amount \in 0..MaxUint112 /\ 0 \in 0..MaxUint48
    BY <1>1, <1>2, InfoTypes, StakeAssumption
  <2> HIDE DEF old
  <2>2. info \in DepositInfo
    BY <1>1, <1>2, <2>1 DEF staked, DepositInfo
  <2>3. /\ info.staked = TRUE /\ info.unstakeDelaySec = delay /\ info.withdrawTime = 0
        /\ info.deposit = old.deposit /\ info.stake = old.stake + amount
    BY <1>2 DEF staked, DepositInfo
  <2> QED
    BY <2>2, <2>3
<1>4. world.promised[e] \in Nat /\ world.promised[e] <= now + delay
  <2>1. world.promised[e] \in Nat
    BY NowTypes
  <2>2. /\ old.staked => world.promised[e] <= now + old.unstakeDelaySec
        /\ old.withdrawTime > 0 => world.promised[e] <= now + old.unstakeDelaySec
        /\ ~old.staked /\ old.withdrawTime = 0 => world.promised[e] <= now
    <3>1. old.withdrawTime \in Nat /\ old.unstakeDelaySec \in Nat
      BY <1>2, InfoTypes
    <3> QED
      BY <1>2, <2>1, <3>1, NowTypes DEF PhaseOK, Locked, Unlocking, Unstaked
  <2>3. old.withdrawTime \in Nat /\ old.unstakeDelaySec \in Nat
    BY <1>2, InfoTypes
  <2> QED
    BY <1>1, <2>1, <2>2, <2>3, NowTypes
<1>5. ends \in [Entities -> Nat] /\ ends[e] = now + delay
      /\ \A f \in Entities : f # e => ends[f] = world.promised[f]
  BY <1>1, <1>4, NowTypes DEF later
<1>6. PhaseOK(info, ends[e], now)
  BY <1>1, <1>3, <1>5, NowTypes DEF PhaseOK, Locked, Unlocking, Unstaked
<1>7. world' = [deposits |-> [world.deposits EXCEPT ![e] = info],
                balance |-> world.balance + amount,
                promised |-> ends, payout |-> world.payout]
  <2>1. world \in World
    BY NowTypes
  <2> QED
    BY <2>1 DEF addStake, World
<1>8. /\ world.balance + amount \in Nat
      /\ world.balance + amount = world.balance + Due(info) - Due(world.deposits[e])
  BY <1>1, <1>2, <1>3, NowTypes, InfoTypes DEF Due
<1> HIDE DEF info, ends, old
<1>9. WorldOK(world', now)
  BY <1>3, <1>5, <1>6, <1>7, <1>8, NowTypes, RecordReplaced
<1> QED
  BY <1>9, SameFrames DEF addStake

LEMMA UnlockStep ==
    ASSUME StakeInv, NEW e \in Entities, unlockStake(e)
    PROVE  StakeInv'
<1> DEFINE old == world.deposits[e]
           info == [old EXCEPT !.staked = FALSE, !.withdrawTime = now + old.unstakeDelaySec]
<1>1. old.staked /\ now + old.unstakeDelaySec <= MaxUint48
  BY DEF unlockStake
<1>2. old \in DepositInfo /\ PhaseOK(old, world.promised[e], now)
  BY NowTypes
<1>3. /\ info.staked = FALSE /\ info.unstakeDelaySec = old.unstakeDelaySec
      /\ info.withdrawTime = now + old.unstakeDelaySec
      /\ info.deposit = old.deposit /\ info.stake = old.stake
      /\ info \in DepositInfo
  <2>1. now + old.unstakeDelaySec \in 0..MaxUint48
    BY <1>1, <1>2, InfoTypes, NowTypes, StakeAssumption
  <2> HIDE DEF old
  <2>2. info \in DepositInfo
    BY <1>2, <2>1 DEF DepositInfo
  <2>3. /\ info.staked = FALSE /\ info.unstakeDelaySec = old.unstakeDelaySec
        /\ info.withdrawTime = now + old.unstakeDelaySec
        /\ info.deposit = old.deposit /\ info.stake = old.stake
    BY <1>2 DEF DepositInfo
  <2> QED
    BY <2>2, <2>3
<1>4. PhaseOK(info, world.promised[e], now)
  <2>1. world.promised[e] <= now + old.unstakeDelaySec /\ old.unstakeDelaySec \in Nat
    BY <1>1, <1>2, InfoTypes DEF PhaseOK, Locked
  <2> QED
    BY <1>3, <2>1, NowTypes DEF PhaseOK, Locked, Unlocking, Unstaked
<1>5. world' = [deposits |-> [world.deposits EXCEPT ![e] = info],
                balance |-> world.balance,
                promised |-> world.promised, payout |-> world.payout]
  <2>1. world \in World
    BY NowTypes
  <2> QED
    BY <2>1 DEF unlockStake, World
<1>6. world.balance = world.balance + Due(info) - Due(world.deposits[e])
  BY <1>2, <1>3, NowTypes, InfoTypes DEF Due
<1> HIDE DEF info, old
<1>7. WorldOK(world', now)
  BY <1>3, <1>4, <1>5, <1>6, NowTypes, RecordReplaced
<1> QED
  BY <1>7, SameFrames DEF unlockStake

\* A stake is paid out at or after its withdrawal time, which no promise exceeds.
LEMMA WithdrawStakeStep ==
    ASSUME StakeInv, NEW e \in Entities, withdrawStake(e)
    PROVE  StakeInv'
<1> DEFINE old == world.deposits[e]
           info == unstaked(old)
           paid == [at |-> now, promised |-> world.promised[e]]
<1>1. /\ old.withdrawTime > 0 /\ old.withdrawTime <= now /\ old.stake <= world.balance
  BY DEF withdrawStake, canWithdrawStake
<1>2. old \in DepositInfo /\ PhaseOK(old, world.promised[e], now)
  BY NowTypes
<1>3. world.promised[e] \in Nat /\ world.promised[e] <= now
  <2>1. old.withdrawTime \in Nat /\ world.promised[e] \in Nat
    BY <1>2, NowTypes, InfoTypes
  <2>2. world.promised[e] <= old.withdrawTime
    BY <1>1, <1>2 DEF PhaseOK, Unlocking
  <2> QED
    BY <1>1, <2>1, <2>2, NowTypes
<1>4. info \in DepositInfo /\ info.staked = old.staked /\ info.stake = 0
      /\ info.withdrawTime = 0 /\ info.deposit = old.deposit
  <2>1. 0 \in 0..MaxUint112 /\ 0 \in 0..MaxUint48
    BY StakeAssumption
  <2> HIDE DEF old
  <2>2. info \in DepositInfo
    BY <1>2, <2>1 DEF unstaked, DepositInfo
  <2>3. /\ info.staked = old.staked /\ info.stake = 0 /\ info.withdrawTime = 0
        /\ info.deposit = old.deposit
    BY <1>2 DEF unstaked, DepositInfo
  <2> QED
    BY <2>2, <2>3
<1>5. ~info.staked
  <2>1. old.withdrawTime # 0
    BY <1>1
  <2> QED
    BY <1>2, <1>4, <2>1 DEF PhaseOK, Locked
<1>6. PhaseOK(info, world.promised[e], now)
  BY <1>3, <1>4, <1>5 DEF PhaseOK, Locked, Unlocking, Unstaked
<1>7. paid \in [at : Nat, promised : Nat] /\ paid.at >= paid.promised
  BY <1>3, NowTypes
<1>8. /\ world.balance - old.stake \in Nat
      /\ world.balance - old.stake = world.balance + Due(info) - Due(world.deposits[e])
  BY <1>1, <1>2, <1>4, NowTypes, InfoTypes DEF Due
<1>9. world' = [deposits |-> [world.deposits EXCEPT ![e] = info],
                balance |-> world.balance - old.stake,
                promised |-> world.promised, payout |-> paid]
  <2>1. world \in World
    BY NowTypes
  <2> QED
    BY <2>1 DEF withdrawStake, World
<1> HIDE DEF info, old, paid
<1>10. WorldOK(world', now)
  BY <1>4, <1>6, <1>7, <1>8, <1>9, NowTypes, RecordReplaced
<1> QED
  BY <1>10, WorldSaved DEF withdrawStake

\* A withdrawal is over: its saved world is dropped, or is the world again.
LEMMA Popped ==
    ASSUME StakeInv, frames # <<>>
    PROVE  /\ Pop \in Seq(World)
           /\ \A i \in DOMAIN Pop : WorldOK(Pop[i], now)
           /\ WorldOK(frames[Len(frames)], now)
<1>1. frames \in Seq(World) /\ Len(frames) \in Nat /\ Len(frames) >= 1
      /\ DOMAIN frames = 1..Len(frames)
  BY DEF StakeInv
<1> DEFINE n == Len(frames) - 1
<1>2. n \in Nat /\ n < Len(frames) /\ \A i \in 1..n : frames[i] \in World
  BY <1>1
<1> HIDE DEF n
<1>3. /\ SubSeq(frames, 1, n) \in Seq(World)
      /\ Len(SubSeq(frames, 1, n)) = IF 1 <= n THEN n - 1 + 1 ELSE 0
      /\ \A i \in 1..(n - 1 + 1) : SubSeq(frames, 1, n)[i] = frames[1 + i - 1]
  BY <1>2, SubSeqProperties
<1>4. Pop = SubSeq(frames, 1, n)
  BY DEF Pop, n
<1>5. Pop \in Seq(World) /\ DOMAIN Pop = 1..n /\ \A i \in 1..n : Pop[i] = frames[i]
  BY <1>2, <1>3, <1>4
<1>6. \A i \in 1..Len(frames) : WorldOK(frames[i], now)
  BY <1>1 DEF StakeInv
<1> QED
  BY <1>1, <1>2, <1>5, <1>6

\* Time passes; what is locked is promised for the delay counted from the new time.
LEMMA TickStep ==
    ASSUME StakeInv, Tick
    PROVE  StakeInv'
<1> DEFINE ends == [e \in Entities |->
                       IF world.deposits[e].staked
                       THEN later(world.promised[e], now + 1 + world.deposits[e].unstakeDelaySec)
                       ELSE world.promised[e]]
<1>1. frames = <<>> /\ frames' = frames /\ now' = now + 1 /\ now < MaxTime
  BY DEF Tick
<1>2. world' = [deposits |-> world.deposits, balance |-> world.balance,
                promised |-> ends, payout |-> world.payout]
  <2>1. world \in World
    BY NowTypes
  <2> QED
    BY <1>1, <2>1 DEF Tick, World
<1>3. ASSUME NEW e \in Entities
      PROVE  ends[e] \in Nat /\ PhaseOK(world.deposits[e], ends[e], now + 1)
  <2> DEFINE info == world.deposits[e]
             end == world.promised[e]
  <2>1. /\ now \in Nat /\ end \in Nat /\ info.unstakeDelaySec \in Nat
        /\ info.withdrawTime \in Nat
    BY NowTypes, InfoTypes
  <2>2. PhaseOK(info, end, now)
    BY NowTypes
  <2>3. ends[e] = IF info.staked THEN later(end, now + 1 + info.unstakeDelaySec) ELSE end
    OBVIOUS
  <2> HIDE DEF info, end, ends
  <2>4. CASE info.staked
    <3>1. ends[e] = now + 1 + info.unstakeDelaySec
      BY <2>1, <2>2, <2>3, <2>4 DEF later, PhaseOK, Locked
    <3> QED
      BY <2>1, <2>2, <2>4, <3>1 DEF PhaseOK, Locked, Unlocking, Unstaked, info
  <2>5. CASE ~info.staked
    <3>1. ends[e] = end
      BY <2>3, <2>5
    <3> QED
      BY <2>1, <2>2, <2>5, <3>1 DEF PhaseOK, Locked, Unlocking, Unstaked, info
  <2> QED
    BY <2>4, <2>5
<1>4. ends \in [Entities -> Nat]
  BY <1>3
<1> HIDE DEF ends
<1>5. world' \in World
  BY <1>2, <1>4, NowTypes DEF World
<1>6. WorldOK(world', now + 1)
  <2>1. world'.balance = world.balance /\ Owed(world') = Owed(world)
    BY <1>2 DEF Owed
  <2>2. world'.balance = SumOf(Owed(world'), Entities)
    BY <2>1, NowTypes DEF WorldOK
  <2> QED
    BY <1>2, <1>3, <1>5, <2>2, NowTypes DEF WorldOK
<1>7. now' \in 1..MaxTime
  BY <1>1, NowTypes
<1> QED
  BY <1>1, <1>6, <1>7 DEF StakeInv

LEMMA StakeInit == Init => StakeInv
<1> SUFFICES ASSUME Init PROVE StakeInv
  OBVIOUS
<1>1. NoDeposit \in DepositInfo /\ PhaseOK(NoDeposit, 0, now)
  BY StakeAssumption
     DEF Init, NoDeposit, DepositInfo, PhaseOK, Locked, Unlocking, Unstaked
<1>2. world \in World
  BY <1>1 DEF Init, World
<1>3. world.balance = SumOf(Owed(world), Entities)
  <2>1. /\ Owed(world) \in [Entities -> Int]
        /\ \A e \in Entities : Owed(world)[e] = 0
    BY DEF Init, NoDeposit, Owed, Due
  <2>2. SumOf(Owed(world), Entities) = 0
    BY <2>1, SumOfZeros, StakeAssumption
  <2> QED
    BY <2>2 DEF Init
<1>4. WorldOK(world, now)
  BY <1>1, <1>2, <1>3 DEF Init, WorldOK
<1> QED
  BY <1>4, StakeAssumption DEF Init, StakeInv

LEMMA StakeNext == StakeInv /\ [Next]_vars => StakeInv'
<1> SUFFICES ASSUME StakeInv, [Next]_vars PROVE StakeInv'
  OBVIOUS
<1>1. CASE \E e \in Entities, amount \in Amounts : depositTo(e, amount)
  BY <1>1, DepositStep
<1>2. CASE \E e \in Entities, amount \in Amounts : withdrawTo(e, amount)
  BY <1>2, WithdrawToStep
<1>3. CASE \E e \in Entities, amount \in Amounts, delay \in Delays : addStake(e, delay, amount)
  BY <1>3, AddStakeStep
<1>4. CASE \E e \in Entities : unlockStake(e)
  BY <1>4, UnlockStep
<1>5. CASE \E e \in Entities : withdrawStake(e)
  BY <1>5, WithdrawStakeStep
<1>6. CASE withdrawReturns
  BY <1>6, Popped DEF withdrawReturns, StakeInv
<1>7. CASE withdrawReverts
  BY <1>7, Popped DEF withdrawReverts, StakeInv
<1>8. CASE Tick
  BY <1>8, TickStep
<1>9. CASE UNCHANGED vars
  BY <1>9 DEF vars, StakeInv
<1> QED
  BY <1>1, <1>2, <1>3, <1>4, <1>5, <1>6, <1>7, <1>8, <1>9 DEF Next

LEMMA AlwaysStakeInv == Spec => []StakeInv
  BY StakeInit, StakeNext, PTL DEF Spec

-----------------------------------------------------------------------------
\* StakeManager: stakes stay within uint112, withdrawal times within uint48, and no
\* deposit and no balance is ever overdrawn, inside callbacks and after reverts too.
THEOREM StakeTypes == Spec => []StakeTypeOK
<1>1. StakeInv => StakeTypeOK
  BY DEF StakeInv, WorldOK, StakeTypeOK
<1> QED
  BY <1>1, AlwaysStakeInv, PTL

\* withdrawStake pays a stake out only when every delay it was ever locked for is over,
\* whatever sequence of addStake, unlockStake, withdrawals, callbacks and reverts came
\* before: addStake never shortens a delay, and forgets a withdrawal time only to lock.
THEOREM DelayServed == Spec => []LockedForDelay
<1>1. StakeInv => LockedForDelay
  BY DEF StakeInv, WorldOK, LockedForDelay
<1> QED
  BY <1>1, AlwaysStakeInv, PTL

\* unlockStake, withdrawStake: a stake on record can be unlocked now, or is due within
\* its delay, so no sequence of calls and reverts strands it.
THEOREM NeverStuck == Spec => []NoStakeIsStuck
<1>1. StakeInv => NoStakeIsStuck
  <2> SUFFICES ASSUME StakeInv, NEW e \in Entities, world.deposits[e].stake > 0
               PROVE  \/ /\ world.deposits[e].staked
                         /\ world.deposits[e].unstakeDelaySec > 0
                      \/ /\ world.deposits[e].withdrawTime > 0
                         /\ world.deposits[e].withdrawTime
                                <= now + world.deposits[e].unstakeDelaySec
    BY DEF NoStakeIsStuck
  <2>1. /\ PhaseOK(world.deposits[e], world.promised[e], now)
        /\ world.deposits[e].withdrawTime \in Nat
    BY NowTypes, InfoTypes
  <2>2. CASE world.deposits[e].staked
    BY <2>1, <2>2 DEF PhaseOK, Locked
  <2>3. CASE world.deposits[e].withdrawTime > 0
    BY <2>1, <2>3 DEF PhaseOK, Unlocking
  <2>4. CASE ~world.deposits[e].staked /\ world.deposits[e].withdrawTime = 0
    BY <2>1, <2>4 DEF PhaseOK, Unstaked
  <2> QED
    BY <2>1, <2>2, <2>3, <2>4
<1> QED
  BY <1>1, AlwaysStakeInv, PTL

\* StakeManager: at every moment, inside callbacks and after reverts too, the EntryPoint
\* holds exactly the deposits and stakes it has on record: depositTo, addStake and the
\* withdrawals change one record and the balance by the same amount, before they pay.
THEOREM BalanceIsOwed == Spec => []HoldsWhatItOwes
<1>1. StakeInv => HoldsWhatItOwes
  BY DEF StakeInv, WorldOK, HoldsWhatItOwes, SumOf, Owed, Due
<1> QED
  BY <1>1, AlwaysStakeInv, PTL
=============================================================================
