----------------------- MODULE SpendingAccountProofs -----------------------
(***************************************************************************)
(* The safety of SpendingAccount for every choice of limits, windows,      *)
(* rates and calls: its types, the limits, the completeness of the         *)
(* accounting, the cooldown and the timelock; that it implements           *)
(* BoundedSpender; and what this is worth in a span of any beginning.      *)
(***************************************************************************)
EXTENDS SpendingAccount, SpendingRulesProofs, SequenceTheorems

-----------------------------------------------------------------------------
(***************************************************************************)
(* The stack as a sequence.                                                *)
(***************************************************************************)
LEMMA Push ==
    ASSUME NEW S, NEW s \in Seq(S), NEW e \in S
    PROVE  /\ Append(s, e) \in Seq(S)
           /\ Len(Append(s, e)) = Len(s) + 1
           /\ \A i \in 1..Len(s) : Append(s, e)[i] = s[i]
           /\ Append(s, e)[Len(s) + 1] = e
OBVIOUS

LEMMA Pop ==
    ASSUME NEW S, NEW s \in Seq(S), s # <<>>
    PROVE  /\ SubSeq(s, 1, Len(s) - 1) \in Seq(S)
           /\ Len(SubSeq(s, 1, Len(s) - 1)) = Len(s) - 1
           /\ \A i \in 1..(Len(s) - 1) : SubSeq(s, 1, Len(s) - 1)[i] = s[i]
           /\ Len(s) \in Nat /\ Len(s) >= 1 /\ s[Len(s)] \in S
<1>1. /\ Len(s) \in Nat /\ Len(s) >= 1
      /\ \A i \in 1..Len(s) : s[i] \in S
  OBVIOUS
<1> DEFINE n == Len(s) - 1
<1>2. n \in Nat /\ \A i \in 1..n : s[i] \in S
  BY <1>1
<1> HIDE DEF n
<1>3. /\ SubSeq(s, 1, n) \in Seq(S)
      /\ Len(SubSeq(s, 1, n)) = IF 1 <= n THEN n - 1 + 1 ELSE 0
      /\ \A i \in 1..(n - 1 + 1) : SubSeq(s, 1, n)[i] = s[1 + i - 1]
  BY <1>2, SubSeqProperties
<1>4. Len(SubSeq(s, 1, n)) = n /\ \A i \in 1..n : SubSeq(s, 1, n)[i] = s[i]
  BY <1>2, <1>3
<1> QED
  BY <1>1, <1>3, <1>4 DEF n

LEMMA BatchesAreSequences ==
    ASSUME NEW calls \in Batches
    PROVE  calls \in Seq(Call)
<1>1. PICK n \in 0..MaxCalls : calls \in [1..n -> Calls]
  BY DEF Batches
<1>2. n \in Nat
  BY <1>1, AccountAssumption
<1>3. \A i \in 1..n : calls[i] \in Call
  BY <1>1, AccountAssumption
<1> QED
  BY <1>1, <1>2, <1>3

-----------------------------------------------------------------------------
(***************************************************************************)
(* The functions of the account.                                           *)
(***************************************************************************)
\* What a call takes is at most what it is parsed to spend.
LEMMA ParseTypes ==
    ASSUME NEW c \in Call
    PROVE  /\ Moves(c) \in [Assets -> Nat]
           /\ parseSpendAmounts(c) \in [Assets -> Nat]
           /\ \A x \in Assets : Moves(c)[x] <= parseSpendAmounts(c)[x]
<1>1. c.value \in Nat /\ c.data.amount \in Nat
  BY RulesAssumption DEF Call, Uint256
<1> QED
  BY <1>1 DEF Moves, parseSpendAmounts

-----------------------------------------------------------------------------
(***************************************************************************)
(* Frames.                                                                 *)
(***************************************************************************)

\* What a batch has still to send is a number, nothing once all its calls are
\* made, and each call lowers it by what it is parsed to spend.
LEMMA PendingFacts ==
    ASSUME NEW f \in Frame, NEW n \in Nat, FrameOK(f, n), f.kind = "execute",
           NEW x \in Assets
    PROVE  /\ Pending(f)[x] \in Int
           /\ f.done = Len(f.calls) => Pending(f)[x] = 0
           /\ f.done < Len(f.calls) =>
                 /\ f.calls[f.done + 1] \in Call
                 /\ \A g : g.total = f.total /\ g.calls = f.calls /\ g.done = f.done + 1 =>
                       Pending(f)[x] =
                           Pending(g)[x] + parseSpendAmounts(f.calls[f.done + 1])[x]
<1>1. /\ f.done \in Nat /\ f.calls \in Seq(Call) /\ Len(f.calls) \in Nat
      /\ f.done <= Len(f.calls)
      /\ f.total[x] \in RunningTotals(f.calls, x)
  BY DEF Frame, FrameOK
<1> DEFINE t == f.total[x]
           L == Len(f.calls)
<1>2. /\ t \in [1..L -> Nat]
      /\ \A i \in 1..L : t[i] = parseSpendAmounts(f.calls[i])[x] + (IF i = 1 THEN 0 ELSE t[i-1])
  BY <1>1, RulesAssumption DEF RunningTotals, Uint256
<1>3. \A i \in 0..L : UpTo(f.total, i)[x] = IF i = 0 THEN 0 ELSE t[i]
  BY DEF UpTo
<1>4. Pending(f)[x] = UpTo(f.total, L)[x] - UpTo(f.total, f.done)[x]
  BY DEF Pending
<1> HIDE DEF t, L
<1>5. L \in Nat /\ f.done \in 0..L /\ L \in 0..L
  BY <1>1 DEF L
<1>6. \A i \in 0..L : UpTo(f.total, i)[x] \in Nat
  BY <1>2, <1>3, <1>5
<1>7. ASSUME f.done < L
      PROVE  /\ f.calls[f.done + 1] \in Call
             /\ \A g : g.total = f.total /\ g.calls = f.calls /\ g.done = f.done + 1 =>
                   Pending(f)[x] =
                       Pending(g)[x] + parseSpendAmounts(f.calls[f.done + 1])[x]
  <2>1. f.done + 1 \in 1..L /\ f.done + 1 \in 0..L /\ f.done + 1 - 1 = f.done
    BY <1>5, <1>7
  <2>2. f.calls[f.done + 1] \in Call
    BY <1>1, <2>1 DEF L
  <2>3. parseSpendAmounts(f.calls[f.done + 1])[x] \in Nat
    BY <2>2, ParseTypes
  <2>4. t[f.done + 1] = parseSpendAmounts(f.calls[f.done + 1])[x]
                        + (IF f.done = 0 THEN 0 ELSE t[f.done])
    BY <1>2, <1>5, <2>1
  <2>5. UpTo(f.total, f.done + 1)[x] =
            parseSpendAmounts(f.calls[f.done + 1])[x] + UpTo(f.total, f.done)[x]
    BY <1>3, <1>5, <2>1, <2>4
  <2>6. ASSUME NEW g, g.total = f.total, g.calls = f.calls, g.done = f.done + 1
        PROVE  Pending(f)[x] = Pending(g)[x] + parseSpendAmounts(f.calls[f.done + 1])[x]
    <3>1. Pending(g)[x] = UpTo(f.total, L)[x] - UpTo(f.total, f.done + 1)[x]
      BY <2>6 DEF Pending, L
    <3> QED
      BY <3>1, <1>4, <1>5, <1>6, <2>1, <2>3, <2>5
  <2> QED
    BY <2>2, <2>6
<1>8. f.done = L => Pending(f)[x] = 0
  BY <1>4, <1>5, <1>6
<1>9. Pending(f)[x] \in Int
  BY <1>4, <1>5, <1>6
<1> QED
  BY <1>7, <1>8, <1>9 DEF L

LEMMA ExecuteFramesOf ==
    ASSUME NEW st \in Seq(Frame)
    PROVE  /\ DOMAIN st = 1..Len(st) /\ Len(st) \in Nat
           /\ \A i : i \in ExecuteFrames(st) <=> i \in 1..Len(st) /\ st[i].kind = "execute"
           /\ \A i \in 1..Len(st) : st[i] \in Frame
BY DEF ExecuteFrames

\* Covers(st, world, depth) depends on the first depth frames only.
LEMMA CoversPrefix ==
    ASSUME NEW st \in Seq(Frame), NEW su \in Seq(Frame), NEW world, NEW depth \in Nat,
           depth <= Len(st), depth <= Len(su),
           \A i \in 1..depth : st[i] = su[i],
           Covers(st, world, depth)
    PROVE  Covers(su, world, depth)
<1>1. \A i : i \in ExecuteFrames(su) /\ i <= depth => i \in ExecuteFrames(st) /\ st[i] = su[i]
  BY ExecuteFramesOf
<1>2. \A i : i \in ExecuteFrames(st) /\ i <= depth => i \in ExecuteFrames(su)
  BY ExecuteFramesOf
<1>3. \A i \in ExecuteFrames(st) : i \in Nat
  BY ExecuteFramesOf
<1>4. \A i \in ExecuteFrames(su) : i \in Nat
  BY ExecuteFramesOf
<1>5. (\A i \in ExecuteFrames(su) : i > depth) => (\A i \in ExecuteFrames(st) : i > depth)
  BY <1>2, <1>3
<1> QED
  BY <1>1, <1>5 DEF Covers

\* Time only helps.
LEMMA Later ==
    ASSUME NEW n \in Nat, NEW m \in Nat, n <= m
    PROVE  /\ \A f \in Frame : FrameOK(f, n) => FrameOK(f, m)
           /\ \A world \in WorldType : ClocksRemember(world, n) => ClocksRemember(world, m)
           /\ \A st \in Seq(Frame) : StackOK(st, n) => StackOK(st, m)
<1>1. ASSUME NEW world \in WorldType, ClocksRemember(world, n)
      PROVE  ClocksRemember(world, m)
  <2>1. world.lastAt.large \in Nat /\ world.lastAt.withdraw \in Nat
    BY DEF WorldType
  <2> QED
    BY <1>1, <2>1 DEF ClocksRemember
<1>2. ASSUME NEW f \in Frame, FrameOK(f, n)
      PROVE  FrameOK(f, m)
  <2>1. f.saved.lastAt.large \in Nat /\ f.saved.lastAt.withdraw \in Nat
    BY DEF Frame, WorldType
  <2>2. COOLDOWN_PERIOD \in Nat /\ WITHDRAW_TIMELOCK \in Nat
    BY RulesAssumption
  <2>3. f.saved.lastAt.large # 0 /\ f.kind = "execute" =>
           m >= f.saved.lastAt.large + COOLDOWN_PERIOD
    BY <1>2, <2>1, <2>2 DEF FrameOK
  <2>4. f.saved.lastAt.withdraw # 0 /\ f.kind = "withdraw"
            => m >= f.saved.lastAt.withdraw + WITHDRAW_TIMELOCK
    BY <1>2, <2>1, <2>2 DEF FrameOK
  <2> QED
    BY <1>2, <2>3, <2>4 DEF FrameOK
<1>3. ASSUME NEW st \in Seq(Frame), StackOK(st, n)
      PROVE  StackOK(st, m)
  <2>1. ASSUME NEW i \in DOMAIN st
        PROVE  FrameOK(st[i], m) /\ Sound(st, st[i].saved, i - 1, m)
    <3>1. st[i] \in Frame /\ st[i].saved \in WorldType
      BY ExecuteFramesOf DEF Frame
    <3>2. FrameOK(st[i], n) /\ Sound(st, st[i].saved, i - 1, n)
      BY <1>3 DEF StackOK
    <3> QED
      BY <3>1, <3>2, <1>1, <1>2 DEF Sound
  <2> QED
    BY <1>3, <2>1 DEF StackOK
<1> QED
  BY <1>1, <1>2, <1>3

\* A new frame that saves a sound world.
LEMMA StackPush ==
    ASSUME NEW st \in Seq(Frame), NEW n \in Nat, StackOK(st, n),
           NEW world \in WorldType, Sound(st, world, Len(st), n),
           NEW f \in Frame, f.saved = world, FrameOK(f, n),
           f.kind = "execute" => ExecuteFrames(st) = {}
    PROVE  /\ StackOK(Append(st, f), n)
           /\ ExecuteFrames(Append(st, f)) =
                  IF f.kind = "execute" THEN {Len(st) + 1} ELSE ExecuteFrames(st)
<1> DEFINE su == Append(st, f)
<1>1. /\ su \in Seq(Frame)
      /\ Len(su) = Len(st) + 1
      /\ \A i \in 1..Len(st) : su[i] = st[i]
      /\ su[Len(st) + 1] = f
  BY Push
<1> HIDE DEF su
<1>2. Len(st) \in Nat /\ DOMAIN st = 1..Len(st) /\ DOMAIN su = 1..Len(su)
  BY <1>1, ExecuteFramesOf
<1>3. ExecuteFrames(su) = IF f.kind = "execute" THEN {Len(st) + 1} ELSE ExecuteFrames(st)
  <2>1. ASSUME NEW i
        PROVE  i \in ExecuteFrames(su) <=>
                   i \in ExecuteFrames(st) \/ (i = Len(st) + 1 /\ f.kind = "execute")
    BY <1>1, <1>2, ExecuteFramesOf
  <2> QED
    BY <2>1
<1>4. \A i, j \in ExecuteFrames(su) : i = j
  BY <1>3 DEF StackOK
<1>5. ASSUME NEW i \in DOMAIN su
      PROVE  FrameOK(su[i], n) /\ Sound(su, su[i].saved, i - 1, n)
  <2>1. CASE i = Len(st) + 1
    <3>1. Covers(su, world, Len(st))
      BY <1>1, <1>2, CoversPrefix DEF Sound
    <3>2. su[i] = f /\ i - 1 = Len(st)
      BY <2>1, <1>1, <1>2
    <3> QED
      BY <3>1, <3>2 DEF Sound
  <2>2. CASE i # Len(st) + 1
    <3>1. i \in 1..Len(st) /\ i - 1 \in Nat /\ i - 1 <= Len(st) /\ i - 1 <= Len(su)
      BY <2>2, <1>1, <1>2
    <3>2. \A j \in 1..(i - 1) : st[j] = su[j]
      BY <3>1, <1>1, <1>2
    <3>3. FrameOK(st[i], n) /\ Sound(st, st[i].saved, i - 1, n)
      BY <3>1, <1>2 DEF StackOK
    <3>4. Covers(su, st[i].saved, i - 1)
      BY <3>1, <3>2, <3>3, <1>1, CoversPrefix DEF Sound
    <3> QED
      BY <3>1, <3>3, <3>4, <1>1 DEF Sound
  <2> QED
    BY <2>1, <2>2
<1> QED
  BY <1>1, <1>3, <1>4, <1>5 DEF StackOK, su

\* The stack without its top frame, and what that frame saved.
LEMMA StackPop ==
    ASSUME NEW st \in Seq(Frame), NEW n \in Nat, StackOK(st, n), st # <<>>,
           NEW su, su = SubSeq(st, 1, Len(st) - 1)
    PROVE  /\ StackOK(su, n)
           /\ Len(su) = Len(st) - 1
           /\ ExecuteFrames(su) = ExecuteFrames(st) \ {Len(st)}
           /\ Sound(su, st[Len(st)].saved, Len(su), n)
           /\ \A i \in 1..Len(su) : su[i] = st[i]
<1>1. /\ su \in Seq(Frame)
      /\ Len(su) = Len(st) - 1
      /\ \A i \in 1..(Len(st) - 1) : su[i] = st[i]
      /\ Len(st) \in Nat /\ Len(st) >= 1
  BY Pop
<1>2. Len(su) \in Nat /\ DOMAIN st = 1..Len(st) /\ DOMAIN su = 1..Len(su)
  BY <1>1, ExecuteFramesOf
<1>3. ExecuteFrames(su) = ExecuteFrames(st) \ {Len(st)}
  <2>1. ASSUME NEW i
        PROVE  i \in ExecuteFrames(su) <=> i \in ExecuteFrames(st) /\ i # Len(st)
    <3>1. i \in ExecuteFrames(su) <=> i \in 1..Len(su) /\ su[i].kind = "execute"
      BY <1>1, ExecuteFramesOf
    <3>2. i \in ExecuteFrames(st) <=> i \in 1..Len(st) /\ st[i].kind = "execute"
      BY ExecuteFramesOf
    <3>3. i \in 1..Len(su) <=> i \in 1..Len(st) /\ i # Len(st)
      BY <1>1, <1>2
    <3>4. i \in 1..Len(su) => su[i] = st[i]
      BY <1>1
    <3> QED
      BY <3>1, <3>2, <3>3, <3>4
  <2> QED
    BY <2>1
<1>4. ASSUME NEW i \in 1..Len(st)
      PROVE  FrameOK(st[i], n) /\ Sound(su, st[i].saved, i - 1, n)
  <2>1. i - 1 \in Nat /\ i - 1 <= Len(su) /\ i - 1 <= Len(st)
    BY <1>1, <1>2
  <2>2. \A j \in 1..(i - 1) : st[j] = su[j]
    BY <2>1, <1>1, <1>2
  <2>3. FrameOK(st[i], n) /\ Sound(st, st[i].saved, i - 1, n)
    BY <1>2 DEF StackOK
  <2>4. Covers(su, st[i].saved, i - 1)
    BY <2>1, <2>2, <2>3, <1>1, CoversPrefix DEF Sound
  <2> QED
    BY <2>3, <2>4 DEF Sound
<1>5. \A i \in DOMAIN su : FrameOK(su[i], n) /\ Sound(su, su[i].saved, i - 1, n)
  BY <1>1, <1>2, <1>4
<1>6. \A i, j \in ExecuteFrames(su) : i = j
  BY <1>3 DEF StackOK
<1>7. Sound(su, st[Len(st)].saved, Len(su), n)
  BY <1>1, <1>4
<1> QED
  BY <1>1, <1>3, <1>5, <1>6, <1>7 DEF StackOK

LEMMA FrameAfterCall ==
    ASSUME NEW f \in Frame, NEW t \in Targets,
           NEW g, g = [f EXCEPT !.done = f.done + 1, !.callee = t]
    PROVE  /\ g \in Frame /\ g.kind = f.kind /\ g.calls = f.calls /\ g.total = f.total
           /\ g.saved = f.saved /\ g.done = f.done + 1
<1>1. g = [kind |-> f.kind, calls |-> f.calls, total |-> f.total,
           done |-> f.done + 1, callee |-> t, saved |-> f.saved]
  BY DEF Frame
<1>2. /\ f.kind \in {"execute", "withdraw"} /\ f.calls \in Seq(Call)
      /\ f.total \in [Assets -> Seq(Uint256)] /\ f.saved \in WorldType
      /\ f.done + 1 \in Nat
  BY DEF Frame
<1> QED
  BY <1>1, <1>2 DEF Frame

\* The stack after the top frame, a batch, has made its next call.
LEMMA StackCall ==
    ASSUME NEW st \in Seq(Frame), NEW n \in Nat, StackOK(st, n),
           NEW L, L = Len(st), L \in 1..L,
           st[L].kind = "execute", st[L].done < Len(st[L].calls),
           NEW su \in Seq(Frame), Len(su) = L,
           \A i \in 1..L : i # L => su[i] = st[i],
           NEW g \in Frame, su[L] = g,
           g.kind = "execute", g.calls = st[L].calls, g.total = st[L].total,
           g.done = st[L].done + 1, g.saved = st[L].saved
    PROVE  /\ StackOK(su, n)
           /\ ExecuteFrames(su) = {L}
           /\ ExecuteFrames(st) = {L}
<1> DEFINE f == st[L]
<1>1. L \in Nat /\ L >= 1 /\ f \in Frame /\ DOMAIN st = 1..L
  BY ExecuteFramesOf
<1>2. /\ g \in Frame /\ g.kind = f.kind /\ g.calls = f.calls /\ g.total = f.total
      /\ g.saved = f.saved /\ g.done = f.done + 1
  OBVIOUS
<1>3. FrameOK(f, n)
  BY <1>1 DEF StackOK
<1>4. f.kind = "execute" /\ f.done \in Nat /\ Len(f.calls) \in Nat /\ f.done < Len(f.calls)
  BY <1>1 DEF Frame
<1>5. FrameOK(g, n)
  BY <1>2, <1>3, <1>4 DEF FrameOK
<1> HIDE DEF f
<1>6. /\ su \in Seq(Frame) /\ Len(su) = L /\ su[L] = g
      /\ \A i \in 1..L : i # L => su[i] = st[i]
  OBVIOUS
<1>7. st[L] = f
  BY DEF f
<1>8. ExecuteFrames(st) = {L}
  <2>1. L \in ExecuteFrames(st)
    BY <1>1, <1>4, <1>7, ExecuteFramesOf
  <2> QED
    BY <2>1 DEF StackOK
<1>9. ExecuteFrames(su) = {L}
  <2>1. ASSUME NEW i
        PROVE  i \in ExecuteFrames(su) <=> i \in ExecuteFrames(st)
    <3>1. i \in ExecuteFrames(su) <=> i \in 1..L /\ su[i].kind = "execute"
      BY <1>6, ExecuteFramesOf
    <3>2. i \in ExecuteFrames(st) <=> i \in 1..L /\ st[i].kind = "execute"
      BY ExecuteFramesOf
    <3> QED
      BY <3>1, <3>2, <1>2, <1>6, <1>7
  <2> QED
    BY <2>1, <1>8
<1>10. ASSUME NEW i \in DOMAIN su
       PROVE  FrameOK(su[i], n) /\ Sound(su, su[i].saved, i - 1, n)
  <2>1. i \in 1..L /\ i - 1 \in Nat /\ i - 1 <= L /\ i - 1 <= Len(su) /\ i - 1 <= Len(st)
    BY <1>1, <1>6, ExecuteFramesOf
  <2>2. \A j \in 1..(i - 1) : st[j] = su[j]
    BY <2>1, <1>1, <1>6
  <2>3. FrameOK(st[i], n) /\ Sound(st, st[i].saved, i - 1, n)
    BY <2>1, <1>1 DEF StackOK
  <2>4. Covers(su, st[i].saved, i - 1)
    BY <2>1, <2>2, <2>3, <1>6, CoversPrefix DEF Sound
  <2>5. su[i].saved = st[i].saved /\ FrameOK(su[i], n)
    BY <2>1, <2>3, <1>2, <1>5, <1>6, <1>7
  <2> QED
    BY <2>3, <2>4, <2>5 DEF Sound
<1>11. \A i, j \in ExecuteFrames(su) : i = j
  BY <1>9
<1>12. StackOK(su, n)
  BY <1>6, <1>10, <1>11 DEF StackOK
<1> QED
  BY <1>2, <1>6, <1>8, <1>9, <1>12

-----------------------------------------------------------------------------
(***************************************************************************)
(* The inductive invariant.                                                *)
(***************************************************************************)
LEMMA IInvTypes ==
    ASSUME IInv
    PROVE  /\ now \in Nat /\ acct \in Storage /\ funds \in [Assets -> Nat]
           /\ moved \in [Assets -> [Windows -> Nat]]
           /\ lastAt \in [large : Nat, withdraw : Nat]
           /\ stack \in Seq(Frame)
           /\ World.acct = acct /\ World.funds = funds
           /\ World.moved = moved /\ World.lastAt = lastAt
BY DEF IInv, World, WorldType, StackOK

LEMMA InitIInv == Init => IInv
<1> SUFFICES ASSUME Init PROVE IInv
  OBVIOUS
<1>1. now \in Nat /\ stack = <<>>
  BY AccountAssumption DEF Init
<1>2. acct \in Storage
  BY AccountAssumption DEF Init, constructor, Storage
<1>3. World \in WorldType
  BY <1>2 DEF Init, World, WorldType
<1>4. StackOK(stack, now)
  BY <1>1 DEF StackOK, ExecuteFrames
<1>5. Covers(stack, World, Len(stack))
  <2>1. ASSUME NEW x \in Assets, NEW w \in Windows
        PROVE  World.moved[x][w] <= World.acct.spent[x][w]
    BY DEF Init, World, constructor
  <2>2. ExecuteFrames(stack) = {}
    BY <1>1 DEF ExecuteFrames
  <2> QED
    BY <2>1, <2>2 DEF Covers
<1>6. LimitsKept(World)
  <2>1. ASSUME NEW x \in Assets, NEW w \in Windows
        PROVE  World.acct.spent[x][w] <= Limit[x][w]
    BY LimitTypes DEF Init, World, constructor
  <2> QED
    BY <2>1 DEF LimitsKept
<1>7. ClocksRemember(World, now)
  BY <1>1 DEF Init, World, ClocksRemember
<1> QED
  BY <1>1, <1>3, <1>4, <1>5, <1>6, <1>7 DEF IInv, Sound

\* Steps that leave the stack, the counters and what has moved alone.
LEMMA QuietStep ==
    ASSUME IInv, now' \in Nat, now <= now', stack' = stack,
           acct' \in Storage, funds' \in [Assets -> Nat],
           acct'.spent = acct.spent, moved' = moved,
           \/ acct'.lastLargeSpendTime = acct.lastLargeSpendTime /\ lastAt' = lastAt
           \/ acct'.lastLargeSpendTime = now /\ lastAt' = [lastAt EXCEPT !.large = now],
           \/ acct'.emergencyWithdrawRequestTime = acct.emergencyWithdrawRequestTime
           \/ acct'.emergencyWithdrawRequestTime = now
    PROVE  IInv'
<1> USE IInvTypes
<1>1. StackOK(stack', now')
  BY Later DEF IInv
<1>8. /\ lastAt' \in [large : Nat, withdraw : Nat]
      /\ lastAt'.withdraw = lastAt.withdraw
      /\ \/ acct'.lastLargeSpendTime = acct.lastLargeSpendTime /\ lastAt'.large = lastAt.large
         \/ acct'.lastLargeSpendTime = now /\ lastAt'.large = now
  BY DEF IInv
<1>2. World' \in WorldType
  BY <1>8 DEF World, WorldType
<1>3. /\ World'.acct = acct' /\ World'.moved = moved /\ World'.lastAt = lastAt'
  BY DEF World
<1>4. Covers(stack', World', Len(stack'))
  BY <1>3 DEF IInv, Sound, Covers
<1>5. LimitsKept(World')
  BY <1>3 DEF IInv, Sound, LimitsKept
<1>6. ClocksRemember(World', now')
  <2>1. /\ lastAt.large \in Nat /\ lastAt.withdraw \in Nat
        /\ acct.lastLargeSpendTime \in Nat /\ acct.emergencyWithdrawRequestTime \in Nat
    BY DEF Storage
  <2>2. /\ lastAt.large # 0 => acct.lastLargeSpendTime >= lastAt.large
        /\ lastAt.large <= now
        /\ lastAt.withdraw <= now
        /\ lastAt.withdraw # 0 /\ acct.emergencyWithdrawRequestTime # 0
              => acct.emergencyWithdrawRequestTime >= lastAt.withdraw
    BY DEF IInv, Sound, ClocksRemember
  <2>3. /\ lastAt'.large # 0 => acct'.lastLargeSpendTime >= lastAt'.large
        /\ lastAt'.large <= now'
        /\ lastAt'.withdraw <= now'
        /\ lastAt'.withdraw # 0 /\ acct'.emergencyWithdrawRequestTime # 0
              => acct'.emergencyWithdrawRequestTime >= lastAt'.withdraw
    BY <2>1, <2>2, <1>8
  <2> QED
    BY <1>3, <2>3 DEF ClocksRemember
<1> QED
  BY <1>1, <1>2, <1>4, <1>5, <1>6 DEF IInv, Sound

\* The parts of soundness of the current world, spelt out.
LEMMA SoundNow ==
    ASSUME IInv
    PROVE  /\ StackOK(stack, now)
           /\ \A x \in Assets : \A w \in Windows :
                 /\ acct.spent[x][w] \in Nat /\ moved[x][w] \in Nat
                 /\ acct.spent[x][w] <= Limit[x][w]
                 /\ ExecuteFrames(stack) = {} => moved[x][w] <= acct.spent[x][w]
                 /\ \A i \in ExecuteFrames(stack) :
                       moved[x][w] + Pending(stack[i])[x] <= acct.spent[x][w]
           /\ lastAt.large \in Nat /\ lastAt.withdraw \in Nat
           /\ acct.lastLargeSpendTime \in Nat /\ acct.emergencyWithdrawRequestTime \in Nat
           /\ lastAt.large # 0 => acct.lastLargeSpendTime >= lastAt.large
           /\ lastAt.large <= now
           /\ lastAt.withdraw <= now
           /\ lastAt.withdraw # 0 /\ acct.emergencyWithdrawRequestTime # 0
                 => acct.emergencyWithdrawRequestTime >= lastAt.withdraw
<1> USE IInvTypes
<1>1. \A i \in ExecuteFrames(stack) : i <= Len(stack)
  BY ExecuteFramesOf
<1>2. Covers(stack, World, Len(stack)) /\ LimitsKept(World) /\ ClocksRemember(World, now)
  BY DEF IInv, Sound
<1>3. ASSUME NEW x \in Assets, NEW w \in Windows
      PROVE  /\ ExecuteFrames(stack) = {} => moved[x][w] <= acct.spent[x][w]
             /\ \A i \in ExecuteFrames(stack) :
                   moved[x][w] + Pending(stack[i])[x] <= acct.spent[x][w]
             /\ acct.spent[x][w] <= Limit[x][w]
  BY <1>1, <1>2 DEF Covers, LimitsKept
<1>4. \A x \in Assets : \A w \in Windows : acct.spent[x][w] \in Nat /\ moved[x][w] \in Nat
  BY DEF Storage
<1>5. /\ lastAt.large \in Nat /\ lastAt.withdraw \in Nat
      /\ acct.lastLargeSpendTime \in Nat /\ acct.emergencyWithdrawRequestTime \in Nat
  BY DEF Storage
<1>6. /\ lastAt.large # 0 => acct.lastLargeSpendTime >= lastAt.large
      /\ lastAt.large <= now
      /\ lastAt.withdraw <= now
      /\ lastAt.withdraw # 0 /\ acct.emergencyWithdrawRequestTime # 0
            => acct.emergencyWithdrawRequestTime >= lastAt.withdraw
  BY <1>2 DEF ClocksRemember
<1> QED
  BY <1>3, <1>4, <1>5, <1>6 DEF IInv

\* And how to establish it after a step.
LEMMA SoundThen ==
    ASSUME now' \in Nat, StackOK(stack', now'),
           acct' \in Storage, funds' \in [Assets -> Nat],
           moved' \in [Assets -> [Windows -> Nat]],
           lastAt' \in [large : Nat, withdraw : Nat],
           \A x \in Assets : \A w \in Windows :
                 /\ acct'.spent[x][w] <= Limit[x][w]
                 /\ ExecuteFrames(stack') = {} => moved'[x][w] <= acct'.spent[x][w]
                 /\ \A i \in ExecuteFrames(stack') :
                       moved'[x][w] + Pending(stack'[i])[x] <= acct'.spent[x][w],
           lastAt'.large # 0 => acct'.lastLargeSpendTime >= lastAt'.large,
           lastAt'.large <= now',
           lastAt'.withdraw <= now',
           lastAt'.withdraw # 0 /\ acct'.emergencyWithdrawRequestTime # 0
                 => acct'.emergencyWithdrawRequestTime >= lastAt'.withdraw
    PROVE  IInv'
<1>1. World' \in WorldType
  BY DEF World, WorldType
<1>2. /\ World'.acct = acct' /\ World'.moved = moved' /\ World'.lastAt = lastAt'
  BY DEF World
<1>3. \A i \in ExecuteFrames(stack') : i <= Len(stack')
  <2>1. stack' \in Seq(Frame)
    BY DEF StackOK
  <2> QED
    BY <2>1, ExecuteFramesOf
<1>4. (\A i \in ExecuteFrames(stack') : i > Len(stack')) => ExecuteFrames(stack') = {}
  <2>1. stack' \in Seq(Frame)
    BY DEF StackOK
  <2>2. \A i \in ExecuteFrames(stack') : i \in 1..Len(stack') /\ Len(stack') \in Nat
    BY <2>1, ExecuteFramesOf
  <2> QED
    BY <2>2
<1>5. Covers(stack', World', Len(stack'))
  BY <1>2, <1>3, <1>4 DEF Covers
<1>6. LimitsKept(World')
  BY <1>2 DEF LimitsKept
<1>7. ClocksRemember(World', now')
  BY <1>2 DEF ClocksRemember
<1> QED
  BY <1>1, <1>5, <1>6, <1>7 DEF IInv, Sound

-----------------------------------------------------------------------------
LEMMA TickStep == IInv /\ Tick => IInv'
<1> SUFFICES ASSUME IInv, Tick PROVE IInv'
  OBVIOUS
<1> QED
  BY IInvTypes, QuietStep DEF Tick

LEMMA ReceiveStep == ASSUME NEW x \in Assets PROVE IInv /\ receive(x) => IInv'
<1> SUFFICES ASSUME IInv, receive(x) PROVE IInv'
  OBVIOUS
<1>1. funds' \in [Assets -> Nat]
  BY IInvTypes DEF receive
<1> QED
  BY <1>1, IInvTypes, QuietStep DEF receive

LEMMA ValidateStep ==
    ASSUME NEW calls \in Batches, NEW g \in Uint256, NEW m \in Uint256
    PROVE  IInv /\ validateUserOp(calls, g, m) => IInv'
<1> SUFFICES ASSUME IInv, validateUserOp(calls, g, m) PROVE IInv'
  OBVIOUS
<1> DEFINE d == withGas(totalSpend(calls), g)
<1>1. /\ acct' = [acct EXCEPT !.lastLargeSpendTime = IF isLarge(d) THEN now ELSE @]
      /\ lastAt' = [lastAt EXCEPT !.large = IF isLarge(d) THEN now ELSE @]
  BY DEF validateUserOp, validatePreflightLimits, checkAndUpdatePanicCooldown
<1> HIDE DEF d
<1>2. /\ acct' \in Storage /\ acct'.spent = acct.spent
      /\ acct'.emergencyWithdrawRequestTime = acct.emergencyWithdrawRequestTime
      /\ \/ acct'.lastLargeSpendTime = acct.lastLargeSpendTime /\ lastAt' = lastAt
         \/ acct'.lastLargeSpendTime = now /\ lastAt' = [lastAt EXCEPT !.large = now]
  BY <1>1, IInvTypes DEF Storage
<1>3. funds' \in [Assets -> Nat]
  <2>1. m \in Nat /\ "eth" \in Assets
    BY RulesAssumption DEF Uint256, Assets
  <2> QED
    BY <2>1, IInvTypes DEF validateUserOp
<1> QED
  BY <1>2, <1>3, IInvTypes, QuietStep DEF validateUserOp

LEMMA RequestStep == IInv /\ requestEmergencyWithdraw => IInv'
<1> SUFFICES ASSUME IInv, requestEmergencyWithdraw PROVE IInv'
  OBVIOUS
<1>1. /\ acct' \in Storage /\ acct'.spent = acct.spent
      /\ acct'.lastLargeSpendTime = acct.lastLargeSpendTime
      /\ acct'.emergencyWithdrawRequestTime = now
  BY IInvTypes DEF requestEmergencyWithdraw, Storage
<1> QED
  BY <1>1, IInvTypes, QuietStep DEF requestEmergencyWithdraw

LEMMA PayForGasStep ==
    ASSUME NEW amount \in GasCosts PROVE IInv /\ payForGasInUsdc(amount) => IInv'
<1> SUFFICES ASSUME IInv, payForGasInUsdc(amount) PROVE IInv'
  OBVIOUS
<1> DEFINE d == [x \in Assets |-> IF x = "usdc" THEN amount ELSE 0]
<1>1. amount \in Nat /\ "usdc" \in Assets /\ d \in [Assets -> Nat]
  BY AccountAssumption, RulesAssumption DEF Uint256, Assets
<1>2. ExecuteFrames(stack) = {}
  BY DEF payForGasInUsdc, EntryPointMayCall, Frames, ExecuteFrames
<1>3. /\ acct' \in Storage
      /\ \A x \in Assets : \A w \in Windows : acct'.spent[x][w] <= Limit[x][w]
      /\ \A w \in Windows : acct'.spent["eth"][w] = acct.spent["eth"][w]
      /\ \A w \in Windows :
            /\ acct'.spent["usdc"][w] >= amount
            /\ ~Expired(acct.lastReset, w, now) =>
                   acct'.spent["usdc"][w] >= acct.spent["usdc"][w] + amount
      /\ acct'.lastLargeSpendTime = acct.lastLargeSpendTime
      /\ acct'.emergencyWithdrawRequestTime = acct.emergencyWithdrawRequestTime
  BY <1>1, IInvTypes, SoundNow, Charged DEF payForGasInUsdc, canPayForGas
<1>4. funds' \in [Assets -> Nat]
  BY <1>1, IInvTypes DEF payForGasInUsdc, canPayForGas
<1>5. moved' = Charge(moved, acct.lastReset, d, now)
  BY DEF payForGasInUsdc
<1>6. /\ d["usdc"] = amount /\ \A x \in Assets : x # "usdc" => x = "eth" /\ d[x] = 0
  BY <1>1 DEF Assets
<1> HIDE DEF d
<1>7. /\ moved' \in [Assets -> [Windows -> Nat]]
      /\ \A x \in Assets : \A w \in Windows :
            moved'[x][w] = (IF Expired(acct.lastReset, w, now) THEN 0 ELSE moved[x][w]) + d[x]
  <2>1. moved \in [Assets -> [Windows -> Nat]] /\ d \in [Assets -> Nat]
    BY <1>1, IInvTypes
  <2> QED
    BY <2>1, <1>5 DEF Charge
<1>8. ASSUME NEW x \in Assets, NEW w \in Windows
      PROVE  moved'[x][w] <= acct'.spent[x][w]
  <2>1. /\ moved[x][w] \in Nat /\ acct.spent[x][w] \in Nat /\ acct'.spent[x][w] \in Nat
        /\ moved[x][w] <= acct.spent[x][w]
    BY <1>2, <1>3, SoundNow DEF Storage
  <2>2. CASE x = "usdc"
    BY <1>1, <1>3, <1>6, <1>7, <2>1, <2>2
  <2>3. CASE x # "usdc"
    <3>1. x = "eth" /\ d[x] = 0 /\ acct'.spent[x][w] = acct.spent[x][w]
      BY <1>3, <1>6, <2>3
    <3>2. moved'[x][w] = (IF Expired(acct.lastReset, w, now) THEN 0 ELSE moved[x][w]) + 0
      BY <1>7, <3>1
    <3> QED
      BY <2>1, <3>1, <3>2
  <2> QED
    BY <2>2, <2>3
<1> QED
  BY <1>2, <1>3, <1>4, <1>7, <1>8, IInvTypes, SoundNow, SoundThen DEF payForGasInUsdc

LEMMA ExecuteStep ==
    ASSUME NEW calls \in Batches PROVE IInv /\ executeBatch(calls) => IInv'
<1> SUFFICES ASSUME IInv, executeBatch(calls) PROVE IInv'
  OBVIOUS
<1> DEFINE d == totalSpend(calls)
           f == [kind |-> "execute", calls |-> calls, total |-> parseCalls(calls),
                 done |-> 0, callee |-> "none", saved |-> World]
<1>1. /\ canParseCalls(calls) /\ canValidateAndRecordSpend(acct, d, now)
      /\ acct' = validateAndRecordSpend(acct, d, now)
      /\ moved' = Charge(moved, acct.lastReset, NoSpend, now)
      /\ lastAt' = [lastAt EXCEPT !.large = IF isLarge(d) THEN now ELSE @]
      /\ stack' = Append(stack, f)
      /\ now' = now /\ funds' = funds
  BY DEF executeBatch
<1>2. ExecuteFrames(stack) = {}
  BY DEF executeBatch, EntryPointMayCall, Frames, ExecuteFrames
<1>3. /\ calls \in Seq(Call)
      /\ \A x \in Assets : parseCalls(calls)[x] \in RunningTotals(calls, x)
      /\ parseCalls(calls) \in [Assets -> Seq(Uint256)]
      /\ d \in [Assets -> Nat]
  BY <1>1, BatchesAreSequences, TotalsTypes
<1>4. World \in WorldType /\ World.lastAt = lastAt
  BY IInvTypes DEF IInv
<1>5. f \in Frame /\ f.kind = "execute" /\ f.saved = World
  BY <1>3, <1>4 DEF Frame
<1>6. \A x \in Assets : Pending(f)[x] = d[x]
  <2>1. ASSUME NEW x \in Assets PROVE Pending(f)[x] = d[x] - 0
    BY DEF Pending, UpTo, totalSpend
  <2> QED
    BY <2>1, <1>3
<1>7. FrameOK(f, now)
  <2>1. lastAt.large # 0 => now >= lastAt.large + COOLDOWN_PERIOD
    <3>1. ~cooldownActive(acct, now)
      BY <1>1 DEF canValidateAndRecordSpend, canUpdatePanicCooldown
    <3>2. COOLDOWN_PERIOD \in Nat
      BY RulesAssumption
    <3> QED
      BY <3>1, <3>2, IInvTypes, SoundNow DEF cooldownActive
  <2>2. 0 <= Len(calls)
    BY <1>3
  <2> QED
    BY <1>3, <1>4, <2>1, <2>2 DEF FrameOK
<1> HIDE DEF f, d
<1>8. StackOK(stack', now') /\ ExecuteFrames(stack') = {Len(stack) + 1}
  BY <1>1, <1>2, <1>4, <1>5, <1>7, IInvTypes, StackPush DEF IInv
<1>9. stack'[Len(stack) + 1] = f
  BY <1>1, <1>5, IInvTypes, Push
<1>10. /\ acct' \in Storage
       /\ \A x \in Assets : \A w \in Windows : acct'.spent[x][w] <= Limit[x][w]
       /\ \A x \in Assets : \A w \in Windows :
             /\ acct'.spent[x][w] >= d[x]
             /\ ~Expired(acct.lastReset, w, now) => acct'.spent[x][w] >= acct.spent[x][w] + d[x]
       /\ acct'.lastLargeSpendTime = IF isLarge(d) THEN now ELSE acct.lastLargeSpendTime
       /\ acct'.emergencyWithdrawRequestTime = acct.emergencyWithdrawRequestTime
  <2>1. \A x \in Assets : \A w \in Windows : acct.spent[x][w] <= Limit[x][w]
    BY SoundNow
  <2>2. /\ acct \in Storage /\ now \in Nat /\ d \in [Assets -> Nat]
        /\ canValidateAndRecordSpend(acct, d, now)
        /\ acct' = validateAndRecordSpend(acct, d, now)
    BY <1>1, <1>3, IInvTypes
  <2> QED
    BY <2>1, <2>2, Recorded
<1>11. /\ moved' \in [Assets -> [Windows -> Nat]]
       /\ \A x \in Assets : \A w \in Windows :
             moved'[x][w] = IF Expired(acct.lastReset, w, now) THEN 0 ELSE moved[x][w]
  <2>1. NoSpend \in [Assets -> Nat] /\ \A x \in Assets : NoSpend[x] = 0
    BY DEF NoSpend
  <2>2. /\ moved' \in [Assets -> [Windows -> Nat]]
        /\ \A x \in Assets : \A w \in Windows :
              moved'[x][w] = (IF Expired(acct.lastReset, w, now) THEN 0 ELSE moved[x][w])
                             + NoSpend[x]
    <3>1. moved \in [Assets -> [Windows -> Nat]]
      BY IInvTypes
    <3> QED
      BY <1>1, <2>1, <3>1 DEF Charge
  <2> QED
    BY <2>1, <2>2, SoundNow
<1>12. ASSUME NEW x \in Assets, NEW w \in Windows
       PROVE  moved'[x][w] + Pending(f)[x] <= acct'.spent[x][w]
  <2>1. /\ moved[x][w] \in Nat /\ acct.spent[x][w] \in Nat /\ acct'.spent[x][w] \in Nat
        /\ d[x] \in Nat /\ moved[x][w] <= acct.spent[x][w]
    BY <1>2, <1>3, <1>10, SoundNow DEF Storage
  <2>2. Pending(f)[x] = d[x]
    BY <1>6
  <2> QED
    BY <1>10, <1>11, <2>1, <2>2
<1>13. /\ lastAt' \in [large : Nat, withdraw : Nat] /\ lastAt'.withdraw = lastAt.withdraw
       /\ lastAt'.large = IF isLarge(d) THEN now ELSE lastAt.large
  BY <1>1, IInvTypes
<1>14. /\ lastAt'.large # 0 => acct'.lastLargeSpendTime >= lastAt'.large
       /\ lastAt'.large <= now
  BY <1>10, <1>13, IInvTypes, SoundNow
<1>15. \A x \in Assets : \A w \in Windows :
          /\ acct'.spent[x][w] <= Limit[x][w]
          /\ ExecuteFrames(stack') = {} => moved'[x][w] <= acct'.spent[x][w]
          /\ \A i \in ExecuteFrames(stack') :
                moved'[x][w] + Pending(stack'[i])[x] <= acct'.spent[x][w]
  BY <1>8, <1>9, <1>10, <1>12
<1>16. lastAt'.withdraw # 0 /\ acct'.emergencyWithdrawRequestTime # 0
          => acct'.emergencyWithdrawRequestTime >= lastAt'.withdraw
  BY <1>10, <1>13, SoundNow
<1>17. lastAt'.withdraw <= now' /\ now' \in Nat /\ lastAt'.large <= now'
       /\ funds' \in [Assets -> Nat]
  BY <1>1, <1>13, <1>14, SoundNow, IInvTypes
<1> QED
  BY <1>8, <1>10, <1>11, <1>13, <1>14, <1>15, <1>16, <1>17, SoundThen

LEMMA DoCallStep == IInv /\ doCall => IInv'
<1> SUFFICES ASSUME IInv, doCall PROVE IInv'
  OBVIOUS
<1> DEFINE L == Len(stack)
           f == stack[L]
           c == f.calls[f.done + 1]
           d == Moves(c)
<1>1. /\ stack # <<>> /\ f.kind = "execute" /\ f.done < Len(f.calls)
      /\ \A x \in Assets : d[x] <= funds[x]
      /\ \/ funds' = [x \in Assets |-> funds[x] - d[x]]
         \/ funds' = funds
      /\ moved' = [x \in Assets |-> [w \in Windows |-> moved[x][w] + d[x]]]
      /\ stack' = [stack EXCEPT ![L] = [@ EXCEPT !.done = f.done + 1, !.callee = c.target]]
      /\ now' = now /\ acct' = acct /\ lastAt' = lastAt
  BY DEF doCall, Top
<1>2. L \in 1..Len(stack) /\ f \in Frame
  BY <1>1, IInvTypes, Pop
<1>3. StackOK(stack, now) /\ FrameOK(f, now)
  BY <1>2, IInvTypes, ExecuteFramesOf DEF IInv, StackOK
<1>4. c \in Call
  <2>1. "eth" \in Assets
    BY DEF Assets
  <2> QED
    BY <1>1, <1>2, <1>3, <2>1, IInvTypes, PendingFacts
<1>5. c.target \in Targets
  BY <1>4 DEF Call
<1>6. /\ d \in [Assets -> Nat] /\ parseSpendAmounts(c) \in [Assets -> Nat]
      /\ \A x \in Assets : d[x] <= parseSpendAmounts(c)[x]
  BY <1>4, ParseTypes
<1>7. /\ StackOK(stack', now)
      /\ ExecuteFrames(stack') = {L}
      /\ ExecuteFrames(stack) = {L}
      /\ stack'[L].total = f.total
      /\ stack'[L].calls = f.calls
      /\ stack'[L].done = f.done + 1
  <2>1. stack \in Seq(Frame) /\ now \in Nat
    BY IInvTypes
  <2> DEFINE g == [f EXCEPT !.done = f.done + 1, !.callee = c.target]
  <2>2. stack' = [stack EXCEPT ![L] = g]
    BY <1>1
  <2>3. /\ g \in Frame /\ g.kind = f.kind /\ g.calls = f.calls /\ g.total = f.total
        /\ g.saved = f.saved /\ g.done = f.done + 1
    <3> HIDE DEF f, c
    <3> QED
      BY <1>2, <1>5, FrameAfterCall
  <2>4. stack # <<>> /\ f.kind = "execute" /\ f.done < Len(f.calls)
    BY <1>1
  <2> HIDE DEF g, c
  <2>5. L \in Nat /\ L \in 1..L /\ L = Len(stack) /\ DOMAIN stack = 1..L
        /\ \A i \in 1..L : stack[i] \in Frame
    BY <1>2, <2>1, ExecuteFramesOf
  <2>6. stack'[L] = g /\ \A i \in 1..L : i # L => stack'[i] = stack[i]
    BY <2>2, <2>5
  <2>7. stack' \in [1..L -> Frame]
    BY <2>2, <2>3, <2>5
  <2>8. stack' \in Seq(Frame) /\ Len(stack') = L
    BY <2>5, <2>7, FunctionIsSequence
  <2> HIDE DEF L
  <2> QED
    BY <1>3, <2>1, <2>3, <2>4, <2>5, <2>6, <2>8, StackCall
<1>8. \A x \in Assets : /\ Pending(f)[x] \in Int
                        /\ Pending(f)[x] = Pending(stack'[L])[x] + parseSpendAmounts(c)[x]
  <2> TAKE x \in Assets
  <2> QED
    BY <1>1, <1>2, <1>3, <1>7, IInvTypes, PendingFacts
<1>9. \A x \in Assets : Pending(stack'[L])[x] \in Int
  <2> SUFFICES ASSUME NEW x \in Assets PROVE Pending(stack'[L])[x] \in Int
    OBVIOUS
  <2>1. stack' \in Seq(Frame) /\ L \in ExecuteFrames(stack')
    BY <1>7 DEF StackOK
  <2>2. L \in DOMAIN stack' /\ stack'[L] \in Frame /\ stack'[L].kind = "execute"
    BY <2>1, ExecuteFramesOf
  <2>3. FrameOK(stack'[L], now)
    BY <1>7, <2>2 DEF StackOK
  <2> QED
    BY <2>2, <2>3, IInvTypes, PendingFacts
<1> HIDE DEF L, f, c, d
<1>10. funds' \in [Assets -> Nat] /\ moved' \in [Assets -> [Windows -> Nat]]
  <2>1. funds \in [Assets -> Nat] /\ moved \in [Assets -> [Windows -> Nat]]
    BY IInvTypes
  <2>2. funds' \in [Assets -> Nat]
    BY <1>1, <1>6, <2>1
  <2>3. moved' \in [Assets -> [Windows -> Nat]]
    BY <1>1, <1>6, <2>1
  <2> QED
    BY <2>2, <2>3
<1>11. ASSUME NEW x \in Assets, NEW w \in Windows
       PROVE  moved'[x][w] + Pending(stack'[L])[x] <= acct'.spent[x][w]
  <2>1. moved[x][w] \in Nat /\ acct.spent[x][w] \in Nat /\ d[x] \in Nat
        /\ parseSpendAmounts(c)[x] \in Nat /\ d[x] <= parseSpendAmounts(c)[x]
    BY <1>6, SoundNow
  <2>2. moved[x][w] + Pending(f)[x] <= acct.spent[x][w]
    BY <1>7, SoundNow DEF f
  <2>3. moved'[x][w] = moved[x][w] + d[x] /\ acct'.spent[x][w] = acct.spent[x][w]
    BY <1>1
  <2> QED
    BY <1>8, <1>9, <2>1, <2>2, <2>3
<1>12. \A x \in Assets : \A w \in Windows :
          /\ acct'.spent[x][w] <= Limit[x][w]
          /\ ExecuteFrames(stack') = {} => moved'[x][w] <= acct'.spent[x][w]
          /\ \A i \in ExecuteFrames(stack') :
                moved'[x][w] + Pending(stack'[i])[x] <= acct'.spent[x][w]
  BY <1>1, <1>7, <1>11, SoundNow
<1> QED
  BY <1>1, <1>7, <1>10, <1>12, IInvTypes, SoundNow, SoundThen

LEMMA ExecuteReturnsStep == IInv /\ executeReturns => IInv'
<1> SUFFICES ASSUME IInv, executeReturns PROVE IInv'
  OBVIOUS
<1> DEFINE L == Len(stack)
<1>1. /\ stack # <<>> /\ stack[L].kind = "execute"
      /\ stack[L].done = Len(stack[L].calls)
      /\ stack' = SubSeq(stack, 1, L - 1)
      /\ now' = now /\ acct' = acct /\ funds' = funds /\ moved' = moved /\ lastAt' = lastAt
  BY DEF executeReturns, Top
<1>2. StackOK(stack, now)
  BY SoundNow
<1>3. StackOK(stack', now) /\ ExecuteFrames(stack') = ExecuteFrames(stack) \ {L}
  <2>1. stack \in Seq(Frame) /\ now \in Nat
    BY IInvTypes
  <2> QED
    BY <1>1, <1>2, <2>1, StackPop
<1>4. L \in 1..L /\ stack[L] \in Frame /\ L \in ExecuteFrames(stack)
  <2>1. stack \in Seq(Frame)
    BY IInvTypes
  <2>2. L \in 1..L /\ stack[L] \in Frame
    BY <1>1, <2>1, Pop
  <2> QED
    BY <1>1, <2>1, <2>2, ExecuteFramesOf
<1>5. ExecuteFrames(stack') = {}
  BY <1>2, <1>3, <1>4 DEF StackOK
<1>6. FrameOK(stack[L], now)
  BY <1>2, <1>4, IInvTypes, ExecuteFramesOf DEF StackOK
<1>7. ASSUME NEW x \in Assets, NEW w \in Windows
      PROVE  moved[x][w] <= acct.spent[x][w]
  <2>1. Pending(stack[L])[x] = 0
    BY <1>1, <1>4, <1>6, IInvTypes, PendingFacts
  <2>2. moved[x][w] + Pending(stack[L])[x] <= acct.spent[x][w] /\ moved[x][w] \in Nat
    BY <1>4, SoundNow
  <2> QED
    BY <2>1, <2>2
<1> QED
  BY <1>1, <1>3, <1>5, <1>7, IInvTypes, SoundNow, SoundThen

LEMMA WithdrawStep ==
    ASSUME NEW recipient \in Recipients PROVE IInv /\ emergencyWithdraw(recipient) => IInv'
<1> SUFFICES ASSUME IInv, emergencyWithdraw(recipient) PROVE IInv'
  OBVIOUS
<1> DEFINE f == [kind |-> "withdraw", calls |-> <<>>, total |-> [x \in Assets |-> <<>>],
                 done |-> IF funds["eth"] > 0 THEN 1 ELSE 0,
                 callee |-> recipient, saved |-> World]
<1>1. /\ timelockMet(acct, now)
      /\ acct' = [acct EXCEPT !.emergencyWithdrawRequestTime = 0]
      /\ funds' = [funds EXCEPT !["eth"] = IF recipient = "self" THEN @ ELSE 0]
      /\ lastAt' = [lastAt EXCEPT !.withdraw = now]
      /\ stack' = Append(stack, f)
      /\ now' = now /\ moved' = moved
  BY DEF emergencyWithdraw
<1>2. World \in WorldType /\ World.lastAt = lastAt /\ Sound(stack, World, Len(stack), now)
  BY IInvTypes DEF IInv
<1>3. f \in Frame /\ f.kind = "withdraw" /\ f.saved = World
  <2>1. recipient \in Targets \cup {"none"}
    BY AccountAssumption DEF Targets
  <2>2. [x \in Assets |-> <<>>] \in [Assets -> Seq(Uint256)]
    OBVIOUS
  <2>3. <<>> \in Seq(Call)
    OBVIOUS
  <2> QED
    BY <1>2, <2>1, <2>2, <2>3 DEF Frame
<1>4. FrameOK(f, now)
  <2>1. lastAt.withdraw # 0 => now >= lastAt.withdraw + WITHDRAW_TIMELOCK
    <3>1. WITHDRAW_TIMELOCK \in Nat
      BY RulesAssumption
    <3> QED
      BY <1>1, <3>1, IInvTypes, SoundNow DEF timelockMet
  <2> QED
    BY <1>2, <1>3, <2>1 DEF FrameOK
<1> HIDE DEF f
<1>5. StackOK(stack', now') /\ ExecuteFrames(stack') = ExecuteFrames(stack)
  <2>1. StackOK(stack, now)
    BY SoundNow
  <2>2. stack \in Seq(Frame) /\ now \in Nat
    BY IInvTypes
  <2> QED
    BY <1>1, <1>2, <1>3, <1>4, <2>1, <2>2, StackPush
<1>6. \A i \in ExecuteFrames(stack) : stack'[i] = stack[i]
  BY <1>1, <1>3, IInvTypes, Push, ExecuteFramesOf
<1>7. /\ acct' \in Storage /\ acct'.spent = acct.spent
      /\ acct'.lastLargeSpendTime = acct.lastLargeSpendTime
      /\ acct'.emergencyWithdrawRequestTime = 0
  BY <1>1, IInvTypes DEF Storage
<1>8. funds' \in [Assets -> Nat]
  BY <1>1, IInvTypes
<1>9. /\ lastAt' \in [large : Nat, withdraw : Nat]
      /\ lastAt'.large = lastAt.large /\ lastAt'.withdraw = now
  BY <1>1, IInvTypes
<1>10. \A x \in Assets : \A w \in Windows :
          /\ acct'.spent[x][w] <= Limit[x][w]
          /\ ExecuteFrames(stack') = {} => moved'[x][w] <= acct'.spent[x][w]
          /\ \A i \in ExecuteFrames(stack') :
                moved'[x][w] + Pending(stack'[i])[x] <= acct'.spent[x][w]
  BY <1>1, <1>5, <1>6, <1>7, SoundNow
<1>11. /\ now' \in Nat /\ moved' \in [Assets -> [Windows -> Nat]]
       /\ lastAt'.large # 0 => acct'.lastLargeSpendTime >= lastAt'.large
       /\ lastAt'.large <= now'
       /\ lastAt'.withdraw <= now'
  BY <1>1, <1>7, <1>9, IInvTypes, SoundNow
<1> QED
  BY <1>5, <1>7, <1>8, <1>9, <1>10, <1>11, SoundThen

LEMMA WithdrawReturnsStep == IInv /\ withdrawReturns => IInv'
<1> SUFFICES ASSUME IInv, withdrawReturns PROVE IInv'
  OBVIOUS
<1> DEFINE L == Len(stack)
<1>1. /\ stack # <<>> /\ stack[L].kind = "withdraw"
      /\ funds' = [funds EXCEPT !["usdc"] = IF Top.callee = "self" THEN @ ELSE 0]
      /\ stack' = SubSeq(stack, 1, L - 1)
      /\ now' = now /\ acct' = acct /\ moved' = moved /\ lastAt' = lastAt
  BY DEF withdrawReturns, Top
<1>2. StackOK(stack, now)
  BY SoundNow
<1>3. /\ StackOK(stack', now) /\ ExecuteFrames(stack') = ExecuteFrames(stack) \ {L}
      /\ \A i \in 1..(L - 1) : stack'[i] = stack[i]
  <2>1. stack \in Seq(Frame) /\ now \in Nat
    BY IInvTypes
  <2>2. stack # <<>> /\ stack' = SubSeq(stack, 1, Len(stack) - 1)
    BY <1>1
  <2>3. StackOK(stack', now) /\ ExecuteFrames(stack') = ExecuteFrames(stack) \ {Len(stack)}
    BY <1>2, <2>1, <2>2, StackPop
  <2>4. \A i \in 1..(Len(stack) - 1) : stack'[i] = stack[i]
    BY <2>1, <2>2, Pop
  <2> QED
    BY <2>3, <2>4
<1>4. L \in Nat /\ L \notin ExecuteFrames(stack)
  BY <1>1, IInvTypes, ExecuteFramesOf
<1>5. \A i \in ExecuteFrames(stack) : stack'[i] = stack[i]
  <2>1. \A i \in ExecuteFrames(stack) : i \in 1..L /\ i # L
    BY <1>4, IInvTypes, ExecuteFramesOf
  <2> QED
    BY <1>3, <1>4, <2>1
<1>6. ExecuteFrames(stack') = ExecuteFrames(stack)
  BY <1>3, <1>4
<1>7. funds' \in [Assets -> Nat]
  BY <1>1, IInvTypes
<1>8. \A x \in Assets : \A w \in Windows :
          /\ acct'.spent[x][w] <= Limit[x][w]
          /\ ExecuteFrames(stack') = {} => moved'[x][w] <= acct'.spent[x][w]
          /\ \A i \in ExecuteFrames(stack') :
                moved'[x][w] + Pending(stack'[i])[x] <= acct'.spent[x][w]
  BY <1>1, <1>5, <1>6, SoundNow
<1> QED
  BY <1>1, <1>3, <1>7, <1>8, IInvTypes, SoundNow, SoundThen

LEMMA CallRevertsStep == IInv /\ callReverts => IInv'
<1> SUFFICES ASSUME IInv, callReverts PROVE IInv'
  OBVIOUS
<1> DEFINE L == Len(stack)
           world == stack[L].saved
<1>1. /\ stack # <<>>
      /\ acct' = world.acct /\ funds' = world.funds /\ moved' = world.moved
      /\ lastAt' = world.lastAt
      /\ stack' = SubSeq(stack, 1, L - 1)
      /\ now' = now
  BY DEF callReverts, Top
<1>2. world \in WorldType
  <2>1. stack[L] \in Frame
    BY <1>1, IInvTypes, Pop
  <2> QED
    BY <2>1 DEF Frame
<1>3. StackOK(stack', now) /\ Sound(stack', world, Len(stack'), now)
  BY <1>1, IInvTypes, SoundNow, StackPop
<1> HIDE DEF world
<1>4. World' = world
  BY <1>1, <1>2 DEF World, WorldType
<1> QED
  BY <1>1, <1>2, <1>3, <1>4, IInvTypes DEF IInv

LEMMA NextIInv == IInv /\ [Next]_vars => IInv'
<1> SUFFICES ASSUME IInv, [Next]_vars PROVE IInv'
  OBVIOUS
<1>1. CASE Tick
  BY <1>1, TickStep
<1>2. CASE \E x \in Assets : receive(x)
  BY <1>2, ReceiveStep
<1>0. 0 \in Uint256 /\ GasCosts \subseteq Uint256 /\ Prefunds \subseteq Uint256
  BY AccountAssumption, RulesAssumption DEF Uint256
<1>3. CASE \E calls \in Batches, g \in GasCosts : validateUserOp(calls, g, 0)
  BY <1>0, <1>3, ValidateStep
<1>13. CASE \E calls \in Batches, m \in Prefunds : validateUserOp(calls, 0, m)
  BY <1>0, <1>13, ValidateStep
<1>4. CASE \E calls \in Batches : executeBatch(calls)
  BY <1>4, ExecuteStep
<1>5. CASE doCall
  BY <1>5, DoCallStep
<1>6. CASE executeReturns
  BY <1>6, ExecuteReturnsStep
<1>7. CASE \E amount \in GasCosts : payForGasInUsdc(amount)
  BY <1>7, PayForGasStep
<1>8. CASE Recipients # {} /\ requestEmergencyWithdraw
  BY <1>8, RequestStep
<1>9. CASE \E recipient \in Recipients : emergencyWithdraw(recipient)
  BY <1>9, WithdrawStep
<1>10. CASE withdrawReturns
  BY <1>10, WithdrawReturnsStep
<1>11. CASE callReverts
  BY <1>11, CallRevertsStep
<1>12. CASE UNCHANGED vars
  BY <1>12, IInvTypes, QuietStep DEF vars
<1> QED
  BY <1>1, <1>2, <1>3, <1>4, <1>5, <1>6, <1>7, <1>8, <1>9, <1>10, <1>11, <1>12,
     <1>13 DEF Next

LEMMA AlwaysIInv == Spec => []IInv
<1>1. Init => IInv
  BY InitIInv
<1>2. IInv /\ [Next]_vars => IInv'
  BY NextIInv
<1> QED
  BY <1>1, <1>2, PTL DEF Spec

-----------------------------------------------------------------------------
\* Whatever the limits, calls, recipients and bounds, the variables and the
\* suspended frames of execute and emergencyWithdraw keep their types: no
\* balance is overdrawn by a call, a gas charge or a withdrawal.
THEOREM TypeCorrect == Spec => []TypeOK
<1>1. IInv => TypeOK
  BY DEF IInv, StackOK, TypeOK
<1> QED
  BY <1>1, AlwaysIInv, PTL

\* No sequence of operations, gas charges, callbacks and reverts gets a counter
\* of _applySpendAndUpdate or _applyUsdcSpend past its immutable limit.
THEOREM LimitsHold == Spec => []WithinLimits
<1>1. IInv => WithinLimits
  BY SoundNow DEF WithinLimits
<1> QED
  BY <1>1, AlwaysIInv, PTL

\* The counters cover what operations' calls and USDC gas charges have taken since
\* the windows were reset, and what suspended batches are still going to send, at
\* every instant, also inside a callback.  Nothing is said of _payPrefund's ETH and
\* of emergency withdrawals, which no counter records.
THEOREM AccountingHolds == Spec => []CallsAndChargesCounted
<1>1. IInv => CallsAndChargesCounted
  <2>1. Frames("execute") = ExecuteFrames(stack)
    BY DEF Frames, ExecuteFrames
  <2> QED
    BY <2>1, SoundNow DEF CallsAndChargesCounted
<1> QED
  BY <1>1, AlwaysIInv, PTL

\* Every execute that passed _checkAndUpdatePanicCooldown comes a full cooldown
\* after the last large spend that a preflight or an execution met and that was not
\* reverted.
THEOREM CooldownHolds == Spec => []CooldownHonoured
<1>1. IInv => CooldownHonoured
  <2> SUFFICES ASSUME IInv, NEW i \in Frames("execute")
               PROVE  LET large == stack[i].saved.lastAt.large
                      IN  large # 0 => now >= large + COOLDOWN_PERIOD
    BY DEF CooldownHonoured
  <2>1. i \in DOMAIN stack /\ stack[i].kind = "execute"
    BY DEF Frames
  <2>2. FrameOK(stack[i], now)
    BY <2>1 DEF IInv, StackOK
  <2> QED
    BY <2>1, <2>2 DEF FrameOK
<1> QED
  BY <1>1, AlwaysIInv, PTL

\* Two emergency withdrawals are a timelock apart, even if the recipient of the
\* first calls requestEmergencyWithdraw and emergencyWithdraw again.
THEOREM TimelockHolds == Spec => []WithdrawalsSpaced
<1>1. IInv => WithdrawalsSpaced
  <2> SUFFICES ASSUME IInv, NEW i \in Frames("withdraw")
               PROVE  LET withdrawn == stack[i].saved.lastAt.withdraw
                      IN  withdrawn # 0 => now >= withdrawn + WITHDRAW_TIMELOCK
    BY DEF WithdrawalsSpaced
  <2>1. i \in DOMAIN stack /\ stack[i].kind = "withdraw"
    BY DEF Frames
  <2>2. FrameOK(stack[i], now)
    BY <2>1 DEF IInv, StackOK
  <2> QED
    BY <2>1, <2>2 DEF FrameOK
<1> QED
  BY <1>1, AlwaysIInv, PTL

-----------------------------------------------------------------------------
\* The products of _checkAndUpdatePanicCooldown fit a uint256 for every amount within
\* the limits.  The constructor does not check it; limits below 2^256 / 5000, and
\* whose value in USDC is below 2^256, satisfy it.
ProductsFit ==
    /\ Limit["eth"]["daily"] * usdcPerEth <= MaxUint256
    /\ Limit["usdc"]["daily"] * PANIC_THRESHOLD_BPS <= MaxUint256

\* Once both windows are over and no cooldown is active, execute accepts any ETH amount
\* within the limits, whatever the counters were left at, provided the products of the
\* panic check fit a uint256: ETH counters are reset against the stored timestamps.
THEOREM EthSpendable == ProductsFit => (Spec => []EthSpendableAfterReset)
<1> SUFFICES ASSUME ProductsFit PROVE Spec => []EthSpendableAfterReset
  OBVIOUS
<1>1. IInv => EthSpendableAfterReset
  <2> SUFFICES ASSUME IInv, WindowsElapsed, ~cooldownActive(acct, now), NEW v \in Uint256,
                      \A w \in Windows : v <= Limit["eth"][w]
               PROVE  canValidateAndRecordSpend(acct, Only("eth", v), now)
    BY DEF EthSpendableAfterReset
  <2> DEFINE d == Only("eth", v)
  <2>1. /\ "eth" \in Assets /\ "usdc" \in Assets /\ "daily" \in Windows
        /\ v \in Nat /\ usdcPerEth \in Nat /\ MaxUint256 \in Nat /\ EtherUnit \in Nat \ {0}
        /\ Limit["eth"]["daily"] \in Nat
    BY RulesAssumption, LimitTypes DEF Assets, Windows, Uint256
  <2>2. d["eth"] = v /\ \A x \in Assets : x # "eth" => d[x] = 0
    BY <2>1 DEF Only
  <2>3. d["usdc"] = 0
    BY <2>1, <2>2
  <2> HIDE DEF d
  <2>4. v * usdcPerEth \in Nat /\ v * usdcPerEth <= MaxUint256
    <3>1. v <= Limit["eth"]["daily"]
      BY <2>1
    <3>2. /\ v * usdcPerEth \in Nat /\ Limit["eth"]["daily"] * usdcPerEth \in Nat
          /\ v * usdcPerEth <= Limit["eth"]["daily"] * usdcPerEth
      BY <2>1, <3>1, ProductMonotonic
    <3> QED
      BY <2>1, <3>2 DEF ProductsFit
  <2>5. getUsdValue(v) \in Nat /\ getUsdValue(v) <= MaxUint256
    <3> DEFINE p == v * usdcPerEth
    <3>1. p \in Nat /\ p <= MaxUint256
      BY <2>4
    <3> HIDE DEF p
    <3>2. p \div EtherUnit \in Nat /\ p \div EtherUnit <= p
      BY <2>1, <3>1, QuotientSmaller
    <3>3. getUsdValue(v) = p \div EtherUnit
      BY DEF getUsdValue, p
    <3> QED
      BY <2>1, <3>1, <3>2, <3>3
  <2>6. canUpdatePanicCooldown(acct, d, now)
    BY <2>2, <2>3, <2>4, <2>5 DEF canUpdatePanicCooldown, ProductsFit
  <2>7. ASSUME NEW w \in Windows PROVE countersToCharge(acct, "eth", now)[w] = 0
    <3>1. now \in Nat /\ acct.lastReset[w] \in Nat /\ WindowLength[w] \in Nat
      BY IInvTypes, WindowPositive DEF Storage
    <3>2. Expired(acct.lastReset, w, now)
      BY <3>1 DEF WindowsElapsed, Expired
    <3> QED
      BY <3>2 DEF countersToCharge, resetSpent
  <2>8. validateSpend(countersToCharge(acct, "eth", now), Limit["eth"], v)
    BY <2>1, <2>7 DEF validateSpend
  <2>9. canApplySpendAndUpdate(acct, d, now)
    BY <2>2, <2>8 DEF canApplySpendAndUpdate
  <2> QED
    BY <2>6, <2>9 DEF canValidateAndRecordSpend, d
<1> QED
  BY <1>1, AlwaysIInv, PTL

-----------------------------------------------------------------------------
(***************************************************************************)
(* The account keeps the promise of BoundedSpender, for every choice of    *)
(* limits, windows, rates, calls and recipients.                           *)
(*                                                                         *)
(* Committed is the world below everything that is under way.  It changes  *)
(* in one step, when the outermost frame returns, by all that its calls    *)
(* and the calls made back to the account have done.  RInv keeps the       *)
(* account of that: each world, the current one and those the frames have  *)
(* saved, comes from the committed one by nothing at all or by one spend.  *)
(* Time stands still meanwhile, so a window that was reset by the first of *)
(* several charges is not reset by the next one, and the charges add up.   *)
(***************************************************************************)

\* world is what a transaction that moves d makes of base.
Spent(base, world, d, n) ==
    /\ world.acct.lastReset = newReset(base.acct.lastReset, n)
    /\ world.moved = Charge(base.moved, base.acct.lastReset, d, n)

\* No window of base has been reset, and nothing has moved.
Untouched(base, world) ==
    /\ world.acct.lastReset = base.acct.lastReset
    /\ world.moved = base.moved

\* What the first depth frames have made of base; if a batch is among them, the
\* windows have been rolled forward already.
Follows(st, base, world, depth, n) ==
    \/ (\A i \in ExecuteFrames(st) : i > depth) /\ Untouched(base, world)
    \/ \E d \in [Assets -> Nat] : Spent(base, world, d, n)

RInv ==
    /\ Follows(stack, Committed, World, Len(stack), now)
    /\ \A i \in DOMAIN stack : Follows(stack, Committed, stack[i].saved, i - 1, now)

\* A step made of charges and reverts: every world still comes from the world that was
\* committed before the step, and that one stays committed while a frame is left.
Carried ==
    /\ Follows(stack', Committed, World', Len(stack'), now)
    /\ \A i \in DOMAIN stack' : Follows(stack', Committed, stack'[i].saved, i - 1, now)
    /\ stack' # <<>> => Committed' = Committed

-----------------------------------------------------------------------------
(***************************************************************************)
(* Charges.                                                                *)
(***************************************************************************)

\* A window that has just been reset, or was not over, is not over.
LEMMA ResetOnce ==
    ASSUME NEW r \in [Windows -> Nat], NEW n \in Nat
    PROVE  /\ \A w \in Windows : ~Expired(newReset(r, n), w, n)
           /\ newReset(newReset(r, n), n) = newReset(r, n)
<1>1. ASSUME NEW w \in Windows PROVE ~Expired(newReset(r, n), w, n)
  <2>1. newReset(r, n)[w] = IF n >= r[w] + WindowLength[w] THEN n ELSE r[w]
    BY DEF newReset, Expired
  <2>2. r[w] \in Nat /\ WindowLength[w] \in Nat /\ WindowLength[w] >= 1
    BY WindowPositive
  <2> QED
    BY <2>1, <2>2 DEF Expired
<1>2. newReset(newReset(r, n), n) = [w \in Windows |-> newReset(r, n)[w]]
  BY <1>1 DEF newReset
<1>3. newReset(r, n) = [w \in Windows |-> newReset(r, n)[w]]
  BY DEF newReset
<1> QED
  BY <1>1, <1>2, <1>3

\* Two charges at the same time are one charge of the sum.
LEMMA ChargeTwice ==
    ASSUME NEW m \in [Assets -> [Windows -> Nat]], NEW r \in [Windows -> Nat], NEW n \in Nat,
           NEW d \in [Assets -> Nat], NEW e \in [Assets -> Nat]
    PROVE  \E s \in [Assets -> Nat] :
               Charge(Charge(m, r, d, n), newReset(r, n), e, n) = Charge(m, r, s, n)
<1> DEFINE s == [x \in Assets |-> d[x] + e[x]]
<1>0. s \in [Assets -> Nat] /\ \A x \in Assets : s[x] = d[x] + e[x]
  OBVIOUS
<1> HIDE DEF s
<1> DEFINE one == Charge(m, r, d, n)
           two == Charge(one, newReset(r, n), e, n)
           sum == Charge(m, r, s, n)
<1>1. /\ one \in [Assets -> [Windows -> Nat]]
      /\ \A x \in Assets : \A w \in Windows :
            one[x][w] = (IF Expired(r, w, n) THEN 0 ELSE m[x][w]) + d[x]
  BY DEF Charge
<1>2. /\ sum \in [Assets -> [Windows -> Nat]]
      /\ \A x \in Assets : \A w \in Windows :
            sum[x][w] = (IF Expired(r, w, n) THEN 0 ELSE m[x][w]) + s[x]
  BY <1>0 DEF Charge
<1> HIDE DEF one, sum
<1>3. /\ two \in [Assets -> [Windows -> Nat]]
      /\ \A x \in Assets : \A w \in Windows :
            two[x][w] = (IF Expired(newReset(r, n), w, n) THEN 0 ELSE one[x][w]) + e[x]
  BY <1>1 DEF Charge
<1> HIDE DEF two
<1>4. ASSUME NEW x \in Assets, NEW w \in Windows PROVE two[x][w] = sum[x][w]
  <2>1. ~Expired(newReset(r, n), w, n)
    BY ResetOnce
  <2>2. m[x][w] \in Nat /\ d[x] \in Nat /\ e[x] \in Nat /\ s[x] = d[x] + e[x]
    BY <1>0
  <2> QED
    BY <1>1, <1>2, <1>3, <2>1, <2>2
<1>5. two = sum
  BY <1>2, <1>3, <1>4
<1> QED
  BY <1>0, <1>5 DEF one, two, sum

\* A charge of e to a world that follows base makes it a world spent from base.
LEMMA SpentAgain ==
    ASSUME NEW base \in WorldType, NEW world \in WorldType, NEW n \in Nat,
           NEW st, NEW depth, Follows(st, base, world, depth, n),
           NEW e \in [Assets -> Nat],
           NEW then,
           then.acct.lastReset = newReset(world.acct.lastReset, n),
           then.moved = Charge(world.moved, world.acct.lastReset, e, n)
    PROVE  \E d \in [Assets -> Nat] : Spent(base, then, d, n)
<1> DEFINE r == base.acct.lastReset
           m == base.moved
<1>1. r \in [Windows -> Nat] /\ m \in [Assets -> [Windows -> Nat]]
  BY DEF WorldType, Storage
<1>2. CASE Untouched(base, world)
  BY <1>2 DEF Untouched, Spent
<1>3. CASE \E d \in [Assets -> Nat] : Spent(base, world, d, n)
  <2>1. PICK d \in [Assets -> Nat] : Spent(base, world, d, n)
    BY <1>3
  <2>2. world.acct.lastReset = newReset(r, n) /\ world.moved = Charge(m, r, d, n)
    BY <2>1 DEF Spent
  <2> HIDE DEF r, m
  <2>3. PICK s \in [Assets -> Nat] :
            Charge(Charge(m, r, d, n), newReset(r, n), e, n) = Charge(m, r, s, n)
    BY <1>1, ChargeTwice
  <2>4. newReset(newReset(r, n), n) = newReset(r, n)
    BY <1>1, ResetOnce
  <2>5. then.acct.lastReset = newReset(r, n) /\ then.moved = Charge(m, r, s, n)
    BY <2>2, <2>3, <2>4
  <2>6. Spent(base, then, s, n)
    BY <2>5 DEF Spent, r, m
  <2> QED
    BY <2>6
<1> QED
  BY <1>2, <1>3 DEF Follows

\* Of a world only the windows and the movements matter, of the stack only whether a
\* batch is among the frames counted.
LEMMA FollowsSame ==
    ASSUME NEW st, NEW su, NEW base, NEW world, NEW then, NEW depth, NEW level, NEW n,
           Follows(st, base, world, depth, n),
           then.acct.lastReset = world.acct.lastReset, then.moved = world.moved,
           (\A i \in ExecuteFrames(st) : i > depth) => (\A i \in ExecuteFrames(su) : i > level)
    PROVE  Follows(su, base, then, level, n)
BY DEF Follows, Untouched, Spent

LEMMA CommittedType == ASSUME IInv PROVE Committed \in WorldType
<1>1. CASE stack = <<>>
  BY <1>1 DEF Committed, IInv
<1>2. CASE stack # <<>>
  <2>1. stack[1] \in Frame
    BY <1>2, IInvTypes
  <2> QED
    BY <1>2, <2>1 DEF Committed, Frame
<1> QED
  BY <1>1, <1>2

-----------------------------------------------------------------------------
(***************************************************************************)
(* What each step makes of the worlds.                                     *)
(***************************************************************************)
LEMMA WorldFields ==
    /\ World.acct = acct /\ World.moved = moved
    /\ World'.acct = acct' /\ World'.moved = moved'
BY DEF World

\* Calls that neither reset a window nor move anything under the limits: receive,
\* validateUserOp, requestEmergencyWithdraw.
LEMMA QuietCarries ==
    ASSUME IInv, RInv, stack' = stack, acct'.lastReset = acct.lastReset, moved' = moved
    PROVE  Carried
<1>1. Follows(stack', Committed, World', Len(stack'), now)
  BY WorldFields, FollowsSame DEF RInv
<1>2. \A i \in DOMAIN stack' : Follows(stack', Committed, stack'[i].saved, i - 1, now)
  BY DEF RInv
<1>3. stack' # <<>> => Committed' = Committed
  BY DEF Committed
<1> QED
  BY <1>1, <1>2, <1>3 DEF Carried

\* A frame is pushed that saves the world: execute, executeBatch, emergencyWithdraw.
LEMMA PushCarries ==
    ASSUME IInv, RInv, NEW f \in Frame, f.saved = World, stack' = Append(stack, f),
           Follows(stack', Committed, World', Len(stack'), now)
    PROVE  Carried
<1>1. /\ stack \in Seq(Frame) /\ stack' \in Seq(Frame) /\ Len(stack) \in Nat
      /\ DOMAIN stack = 1..Len(stack) /\ DOMAIN stack' = 1..(Len(stack) + 1)
      /\ \A i \in 1..Len(stack) : stack'[i] = stack[i]
      /\ stack'[Len(stack) + 1] = f
  BY IInvTypes, Push
<1>2. \A i \in 1..Len(stack) : i \in ExecuteFrames(stack) <=> i \in ExecuteFrames(stack')
  BY <1>1 DEF ExecuteFrames
<1>3. ASSUME NEW k \in 0..Len(stack), \A i \in ExecuteFrames(stack) : i > k
      PROVE  \A i \in ExecuteFrames(stack') : i > k
  <2> SUFFICES ASSUME NEW i \in ExecuteFrames(stack') PROVE i > k
    OBVIOUS
  <2>1. i \in 1..(Len(stack) + 1)
    BY <1>1 DEF ExecuteFrames
  <2> QED
    BY <1>1, <1>2, <1>3, <2>1
<1>4. ASSUME NEW i \in DOMAIN stack'
      PROVE  Follows(stack', Committed, stack'[i].saved, i - 1, now)
  <2>1. i \in 1..(Len(stack) + 1) /\ i - 1 \in 0..Len(stack)
    BY <1>1
  <2>2. (\A j \in ExecuteFrames(stack) : j > i - 1) => \A j \in ExecuteFrames(stack') : j > i - 1
    BY <1>3, <2>1
  <2>3. CASE i = Len(stack) + 1
    <3>1. i - 1 = Len(stack) /\ stack'[i].saved = World
      BY <1>1, <2>3
    <3>2. Follows(stack, Committed, World, i - 1, now)
      BY <3>1 DEF RInv
    <3> QED
      BY <2>2, <3>1, <3>2, FollowsSame
  <2>4. CASE i # Len(stack) + 1
    <3>1. i \in DOMAIN stack /\ stack'[i] = stack[i]
      BY <1>1, <2>1, <2>4
    <3>2. Follows(stack, Committed, stack[i].saved, i - 1, now)
      BY <3>1 DEF RInv
    <3> QED
      BY <2>2, <3>1, <3>2, FollowsSame
  <2> QED
    BY <2>3, <2>4
<1>5. Committed' = Committed
  <2>1. stack' # <<>>
    BY <1>1
  <2>2. CASE stack = <<>>
    BY <1>1, <2>1, <2>2 DEF Committed
  <2>3. CASE stack # <<>>
    <3>1. 1 \in 1..Len(stack)
      BY <1>1, <2>3
    <3> QED
      BY <1>1, <2>1, <2>3, <3>1 DEF Committed
  <2> QED
    BY <2>2, <2>3
<1> QED
  BY <1>4, <1>5 DEF Carried

\* The top frame is popped, by a return or by a revert.
LEMMA PopCarries ==
    ASSUME IInv, RInv, stack # <<>>, stack' = SubSeq(stack, 1, Len(stack) - 1),
           Follows(stack', Committed, World', Len(stack'), now)
    PROVE  Carried
<1>1. /\ stack' \in Seq(Frame) /\ Len(stack') = Len(stack) - 1 /\ Len(stack) \in Nat
      /\ ExecuteFrames(stack') = ExecuteFrames(stack) \ {Len(stack)}
      /\ \A i \in 1..Len(stack') : stack'[i] = stack[i]
  <2>1. StackOK(stack, now) /\ stack \in Seq(Frame) /\ now \in Nat
    BY IInvTypes DEF IInv
  <2>2. ExecuteFrames(stack') = ExecuteFrames(stack) \ {Len(stack)}
    BY <2>1, StackPop
  <2> QED
    BY <2>1, <2>2, Pop
<1>2. DOMAIN stack' = 1..Len(stack') /\ DOMAIN stack = 1..Len(stack) /\ Len(stack') \in Nat
  BY <1>1, IInvTypes
<1>3. ASSUME NEW i \in DOMAIN stack'
      PROVE  Follows(stack', Committed, stack'[i].saved, i - 1, now)
  <2>1. i \in DOMAIN stack /\ stack'[i] = stack[i]
    BY <1>1, <1>2
  <2>2. Follows(stack, Committed, stack[i].saved, i - 1, now)
    BY <2>1 DEF RInv
  <2>3. \A j \in ExecuteFrames(stack') : j \in ExecuteFrames(stack)
    BY <1>1
  <2>4. (\A j \in ExecuteFrames(stack) : j > i - 1) => \A j \in ExecuteFrames(stack') : j > i - 1
    BY <2>3, Zenon
  <2> QED
    BY <2>1, <2>2, <2>4, Zenon DEF Follows
<1>4. ASSUME stack' # <<>> PROVE Committed' = Committed
  <2>1. 1 \in 1..Len(stack')
    BY <1>1, <1>2, <1>4
  <2> QED
    BY <1>1, <1>4, <2>1 DEF Committed
<1> QED
  BY <1>3, <1>4 DEF Carried

LEMMA PayForGasCarries ==
    ASSUME IInv, RInv, NEW amount \in GasCosts, payForGasInUsdc(amount)
    PROVE  Carried
<1> DEFINE d == [x \in Assets |-> IF x = "usdc" THEN amount ELSE 0]
<1>1. d \in [Assets -> Nat] /\ "usdc" \in Assets
  BY AccountAssumption, RulesAssumption DEF Uint256, Assets
<1>2. /\ acct' = applyUsdcSpend(acct, amount, now)
      /\ moved' = Charge(moved, acct.lastReset, d, now)
      /\ stack' = stack
  BY DEF payForGasInUsdc
<1> HIDE DEF d
<1>3. acct'.lastReset = newReset(acct.lastReset, now)
  BY <1>2, IInvTypes DEF applyUsdcSpend, Storage
<1>4. \E e \in [Assets -> Nat] : Spent(Committed, World', e, now)
  <2>1. World \in WorldType /\ Committed \in WorldType /\ now \in Nat
    BY CommittedType DEF IInv
  <2>2. /\ World'.acct.lastReset = newReset(World.acct.lastReset, now)
        /\ World'.moved = Charge(World.moved, World.acct.lastReset, d, now)
    BY <1>2, <1>3, WorldFields
  <2> QED
    BY <1>1, <2>1, <2>2, SpentAgain DEF RInv
<1>5. Follows(stack', Committed, World', Len(stack'), now)
  BY <1>4 DEF Follows
<1>6. \A i \in DOMAIN stack' : Follows(stack', Committed, stack'[i].saved, i - 1, now)
  BY <1>2 DEF RInv
<1>7. stack' # <<>> => Committed' = Committed
  BY <1>2 DEF Committed
<1> QED
  BY <1>5, <1>6, <1>7 DEF Carried

LEMMA ExecuteCarries ==
    ASSUME IInv, RInv, NEW calls \in Batches, executeBatch(calls)
    PROVE  Carried
<1> DEFINE f == [kind |-> "execute", calls |-> calls, total |-> parseCalls(calls),
                 done |-> 0, callee |-> "none", saved |-> World]
<1>1. /\ canParseCalls(calls)
      /\ acct' = validateAndRecordSpend(acct, totalSpend(calls), now)
      /\ moved' = Charge(moved, acct.lastReset, NoSpend, now)
      /\ stack' = Append(stack, f)
  BY DEF executeBatch
<1>2. f \in Frame /\ f.saved = World
  <2>1. calls \in Seq(Call) /\ parseCalls(calls) \in [Assets -> Seq(Uint256)]
    BY <1>1, BatchesAreSequences, TotalsTypes
  <2> QED
    BY <2>1 DEF Frame, IInv
<1> HIDE DEF f
<1>3. acct'.lastReset = newReset(acct.lastReset, now)
  BY <1>1, IInvTypes
     DEF validateAndRecordSpend, applySpendAndUpdate, checkAndUpdatePanicCooldown, Storage
<1>4. \E e \in [Assets -> Nat] : Spent(Committed, World', e, now)
  <2>1. World \in WorldType /\ Committed \in WorldType /\ now \in Nat
    BY CommittedType DEF IInv
  <2>2. /\ World'.acct.lastReset = newReset(World.acct.lastReset, now)
        /\ World'.moved = Charge(World.moved, World.acct.lastReset, NoSpend, now)
    BY <1>1, <1>3, WorldFields
  <2>3. NoSpend \in [Assets -> Nat]
    BY DEF NoSpend
  <2> QED
    BY <2>1, <2>2, <2>3, SpentAgain DEF RInv
<1>5. Follows(stack', Committed, World', Len(stack'), now)
  BY <1>4 DEF Follows
<1> QED
  BY <1>1, <1>2, <1>5, PushCarries

\* _doCall adds to a spend whose windows execute has rolled forward.
LEMMA DoCallCarries ==
    ASSUME IInv, RInv, doCall
    PROVE  Carried
<1> DEFINE L == Len(stack)
           c == stack[L].calls[stack[L].done + 1]
           e == Moves(c)
<1>1. /\ stack # <<>> /\ stack[L].kind = "execute" /\ stack[L].done < Len(stack[L].calls)
      /\ moved' = [x \in Assets |-> [w \in Windows |-> moved[x][w] + e[x]]]
      /\ stack' = [stack EXCEPT ![L] = [@ EXCEPT !.done = stack[L].done + 1,
                                                 !.callee = c.target]]
      /\ acct' = acct
  BY DEF doCall, Top
<1>2. L \in Nat /\ L \in 1..L /\ DOMAIN stack = 1..L /\ \A i \in 1..L : stack[i] \in Frame
  BY <1>1, IInvTypes, Pop
<1>3. /\ DOMAIN stack' = 1..L /\ L = Len(stack')
      /\ \A i \in 1..L : stack'[i].saved = stack[i].saved /\ stack'[i].kind = stack[i].kind
  <2> DEFINE g == [stack[L] EXCEPT !.done = stack[L].done + 1, !.callee = c.target]
  <2>1. g.saved = stack[L].saved /\ g.kind = stack[L].kind
    BY <1>2 DEF Frame
  <2>2. stack' = [stack EXCEPT ![L] = g]
    BY <1>1
  <2> HIDE DEF g, c
  <2>3. DOMAIN stack' = 1..L /\ L = Len(stack')
    BY <1>2, <2>2, IInvTypes
  <2> HIDE DEF L
  <2>4. \A i \in 1..L : stack'[i] = IF i = L THEN g ELSE stack[i]
    BY <1>2, <2>2
  <2> QED
    BY <2>1, <2>3, <2>4
<1>4. e \in [Assets -> Nat]
  <2>1. stack[L] \in Frame /\ FrameOK(stack[L], now) /\ now \in Nat /\ "eth" \in Assets
    BY <1>2, IInvTypes DEF IInv, StackOK, Assets
  <2>2. c \in Call
    BY <1>1, <2>1, PendingFacts
  <2> QED
    BY <2>2, ParseTypes
<1> HIDE DEF e, c
<1>5. ExecuteFrames(stack') = ExecuteFrames(stack) /\ L \in ExecuteFrames(stack)
  BY <1>1, <1>2, <1>3 DEF ExecuteFrames
<1>6. PICK d \in [Assets -> Nat] : Spent(Committed, World, d, now)
  <2>1. ~(\A i \in ExecuteFrames(stack) : i > L)
    BY <1>2, <1>5
  <2> QED
    BY <2>1 DEF RInv, Follows
<1>7. /\ Committed.acct.lastReset \in [Windows -> Nat] /\ now \in Nat
      /\ World \in WorldType /\ Committed \in WorldType
  BY CommittedType DEF IInv, WorldType, Storage
<1>8. /\ \A w \in Windows : ~Expired(acct.lastReset, w, now)
      /\ newReset(acct.lastReset, now) = acct.lastReset
  <2>1. acct.lastReset = newReset(Committed.acct.lastReset, now)
    BY <1>6, WorldFields DEF Spent
  <2> QED
    BY <1>7, <2>1, ResetOnce
<1>9. moved' = Charge(moved, acct.lastReset, e, now)
  BY <1>1, <1>8 DEF Charge
<1>10. \E s \in [Assets -> Nat] : Spent(Committed, World', s, now)
  <2>1. /\ World'.acct.lastReset = newReset(World.acct.lastReset, now)
        /\ World'.moved = Charge(World.moved, World.acct.lastReset, e, now)
    BY <1>1, <1>8, <1>9, WorldFields
  <2> QED
    BY <1>4, <1>7, <2>1, SpentAgain DEF RInv
<1>11. Follows(stack', Committed, World', Len(stack'), now)
  BY <1>10 DEF Follows
<1>12. ASSUME NEW i \in DOMAIN stack'
       PROVE  Follows(stack', Committed, stack'[i].saved, i - 1, now)
  <2>1. Follows(stack, Committed, stack[i].saved, i - 1, now) /\ stack'[i].saved = stack[i].saved
    BY <1>2, <1>3 DEF RInv
  <2> QED
    BY <1>5, <2>1, Zenon DEF Follows
<1>13. Committed' = Committed
  <2>1. stack' # <<>> /\ 1 \in 1..L
    BY <1>2, <1>3
  <2> QED
    BY <1>1, <1>3, <2>1 DEF Committed
<1> QED
  BY <1>11, <1>12, <1>13 DEF Carried

LEMMA ExecuteReturnsCarries ==
    ASSUME IInv, RInv, executeReturns
    PROVE  Carried
<1>1. /\ stack # <<>> /\ stack[Len(stack)].kind = "execute"
      /\ stack' = SubSeq(stack, 1, Len(stack) - 1)
      /\ acct' = acct /\ moved' = moved
  BY DEF executeReturns, Top
<1>2. Len(stack) \in Nat /\ Len(stack) \in ExecuteFrames(stack)
  <2>1. Len(stack) \in 1..Len(stack) /\ DOMAIN stack = 1..Len(stack)
    BY <1>1, IInvTypes, Pop
  <2> QED
    BY <1>1, <2>1 DEF ExecuteFrames
<1>3. PICK d \in [Assets -> Nat] : Spent(Committed, World, d, now)
  <2>1. ~(\A i \in ExecuteFrames(stack) : i > Len(stack))
    BY <1>2
  <2> QED
    BY <2>1 DEF RInv, Follows
<1>4. Spent(Committed, World', d, now)
  BY <1>1, <1>3, WorldFields DEF Spent
<1>5. Follows(stack', Committed, World', Len(stack'), now)
  BY <1>4 DEF Follows
<1> QED
  BY <1>1, <1>5, PopCarries

LEMMA WithdrawCarries ==
    ASSUME IInv, RInv, NEW recipient \in Recipients, emergencyWithdraw(recipient)
    PROVE  Carried
<1> DEFINE f == [kind |-> "withdraw", calls |-> <<>>, total |-> [x \in Assets |-> <<>>],
                 done |-> IF funds["eth"] > 0 THEN 1 ELSE 0,
                 callee |-> recipient, saved |-> World]
<1>1. /\ acct' = [acct EXCEPT !.emergencyWithdrawRequestTime = 0]
      /\ stack' = Append(stack, f)
      /\ moved' = moved
  BY DEF emergencyWithdraw
<1>2. f \in Frame /\ f.kind = "withdraw" /\ f.saved = World
  <2>1. recipient \in Targets \cup {"none"}
    BY AccountAssumption DEF Targets
  <2>2. [x \in Assets |-> <<>>] \in [Assets -> Seq(Uint256)] /\ <<>> \in Seq(Call)
    OBVIOUS
  <2> QED
    BY <2>1, <2>2 DEF Frame, IInv
<1> HIDE DEF f
<1>3. acct'.lastReset = acct.lastReset
  BY <1>1, IInvTypes DEF Storage
<1>4. /\ Len(stack) \in Nat /\ Len(stack') = Len(stack) + 1
      /\ \A i \in ExecuteFrames(stack') : i \in ExecuteFrames(stack) /\ i \in 1..Len(stack)
  <2>1. /\ stack \in Seq(Frame) /\ stack' \in Seq(Frame) /\ Len(stack') = Len(stack) + 1
        /\ \A i \in 1..Len(stack) : stack'[i] = stack[i]
        /\ stack'[Len(stack) + 1] = f /\ Len(stack) \in Nat
    BY <1>1, <1>2, IInvTypes, Push
  <2> QED
    BY <1>2, <2>1, ExecuteFramesOf
<1>5. ASSUME \A i \in ExecuteFrames(stack) : i > Len(stack)
      PROVE  \A i \in ExecuteFrames(stack') : i > Len(stack')
  BY <1>4, <1>5
<1>6. Follows(stack', Committed, World', Len(stack'), now)
  <2>1. Follows(stack, Committed, World, Len(stack), now)
    BY DEF RInv
  <2>2. World'.acct.lastReset = World.acct.lastReset /\ World'.moved = World.moved
    BY <1>1, <1>3, WorldFields
  <2> QED
    BY <1>5, <2>1, <2>2, Zenon DEF Follows, Untouched, Spent
<1> QED
  BY <1>1, <1>2, <1>6, PushCarries

LEMMA WithdrawReturnsCarries ==
    ASSUME IInv, RInv, withdrawReturns
    PROVE  Carried
<1>1. /\ stack # <<>> /\ stack' = SubSeq(stack, 1, Len(stack) - 1)
      /\ acct' = acct /\ moved' = moved
  BY DEF withdrawReturns
<1>2. /\ Len(stack) \in Nat /\ Len(stack') = Len(stack) - 1
      /\ \A i \in ExecuteFrames(stack') : i \in ExecuteFrames(stack) /\ i \in Nat
  <2>1. StackOK(stack, now) /\ stack \in Seq(Frame) /\ now \in Nat
    BY IInvTypes DEF IInv
  <2>2. ExecuteFrames(stack') = ExecuteFrames(stack) \ {Len(stack)}
    BY <1>1, <2>1, StackPop
  <2>3. \A i \in ExecuteFrames(stack) : i \in Nat
    BY <2>1, ExecuteFramesOf
  <2> QED
    BY <1>1, <2>1, <2>2, <2>3, Pop
<1>3. ASSUME \A i \in ExecuteFrames(stack) : i > Len(stack)
      PROVE  \A i \in ExecuteFrames(stack') : i > Len(stack')
  BY <1>2, <1>3
<1>4. Follows(stack', Committed, World', Len(stack'), now)
  <2>1. Follows(stack, Committed, World, Len(stack), now)
    BY DEF RInv
  <2>2. World'.acct.lastReset = World.acct.lastReset /\ World'.moved = World.moved
    BY <1>1, WorldFields
  <2> QED
    BY <1>3, <2>1, <2>2, Zenon DEF Follows, Untouched, Spent
<1> QED
  BY <1>1, <1>4, PopCarries

LEMMA CallRevertsCarries ==
    ASSUME IInv, RInv, callReverts
    PROVE  Carried
<1> DEFINE L == Len(stack)
<1>1. /\ stack # <<>> /\ stack' = SubSeq(stack, 1, L - 1)
      /\ acct' = stack[L].saved.acct /\ moved' = stack[L].saved.moved
  BY DEF callReverts, Top
<1>2. /\ L \in DOMAIN stack /\ Len(stack') = L - 1
      /\ \A i \in ExecuteFrames(stack') : i \in ExecuteFrames(stack)
  <2>1. StackOK(stack, now) /\ stack \in Seq(Frame) /\ now \in Nat
    BY IInvTypes DEF IInv
  <2>2. ExecuteFrames(stack') = ExecuteFrames(stack) \ {Len(stack)}
    BY <1>1, <2>1, StackPop
  <2> QED
    BY <1>1, <2>1, <2>2, Pop
<1>3. Follows(stack', Committed, World', Len(stack'), now)
  <2>1. Follows(stack, Committed, stack[L].saved, L - 1, now)
    BY <1>2 DEF RInv
  <2>2. /\ World'.acct.lastReset = stack[L].saved.acct.lastReset
        /\ World'.moved = stack[L].saved.moved
    BY <1>1, WorldFields
  <2> QED
    BY <1>2, <2>1, <2>2, Zenon DEF Follows, Untouched, Spent
<1> QED
  BY <1>1, <1>3, PopCarries

-----------------------------------------------------------------------------
(***************************************************************************)
(* Every step.                                                             *)
(***************************************************************************)

\* Every step of the account but the passing of time.
LEMMA StepCarries ==
    ASSUME IInv, RInv, [Next]_vars, ~Tick
    PROVE  Carried /\ now' = now
<1>1. CASE \E x \in Assets : receive(x)
  BY <1>1, QuietCarries DEF receive
<1>2. CASE \/ \E calls \in Batches, g \in GasCosts : validateUserOp(calls, g, 0)
           \/ \E calls \in Batches, m \in Prefunds : validateUserOp(calls, 0, m)
  <2>1. PICK calls, g, m : validateUserOp(calls, g, m)
    BY <1>2
  <2>2. acct'.lastReset = acct.lastReset
    BY <2>1, IInvTypes
       DEF validateUserOp, validatePreflightLimits, checkAndUpdatePanicCooldown, Storage
  <2> QED
    BY <2>1, <2>2, QuietCarries DEF validateUserOp
<1>3. CASE \E calls \in Batches : executeBatch(calls)
  BY <1>3, ExecuteCarries DEF executeBatch
<1>4. CASE doCall
  BY <1>4, DoCallCarries DEF doCall
<1>5. CASE executeReturns
  BY <1>5, ExecuteReturnsCarries DEF executeReturns
<1>6. CASE \E amount \in GasCosts : payForGasInUsdc(amount)
  BY <1>6, PayForGasCarries DEF payForGasInUsdc
<1>7. CASE Recipients # {} /\ requestEmergencyWithdraw
  <2>1. acct'.lastReset = acct.lastReset
    BY <1>7, IInvTypes DEF requestEmergencyWithdraw, Storage
  <2> QED
    BY <1>7, <2>1, QuietCarries DEF requestEmergencyWithdraw
<1>8. CASE \E recipient \in Recipients : emergencyWithdraw(recipient)
  BY <1>8, WithdrawCarries DEF emergencyWithdraw
<1>9. CASE withdrawReturns
  BY <1>9, WithdrawReturnsCarries DEF withdrawReturns
<1>10. CASE callReverts
  BY <1>10, CallRevertsCarries DEF callReverts
<1>11. CASE UNCHANGED vars
  BY <1>11, QuietCarries DEF vars
<1> QED
  BY <1>1, <1>2, <1>3, <1>4, <1>5, <1>6, <1>7, <1>8, <1>9, <1>10, <1>11 DEF Next

\* With nothing under way, the world is the committed one.
LEMMA NothingUnderWay ==
    ASSUME NEW st, st = <<>>, NEW world, NEW n
    PROVE  /\ Follows(st, world, world, Len(st), n)
           /\ \A i \in DOMAIN st : Follows(st, world, st[i].saved, i - 1, n)
BY DEF Follows, Untouched, ExecuteFrames

LEMMA NextRInv ==
    ASSUME IInv, RInv, [Next]_vars
    PROVE  RInv'
<1>1. CASE stack' = <<>>
  <2>1. Committed' = World'
    BY <1>1 DEF Committed
  <2>2. /\ Follows(stack', World', World', Len(stack'), now')
        /\ \A i \in DOMAIN stack' : Follows(stack', World', stack'[i].saved, i - 1, now')
    BY <1>1, NothingUnderWay
  <2> QED
    BY <2>1, <2>2 DEF RInv
<1>2. CASE stack' # <<>>
  <2>1. ~Tick
    BY <1>2 DEF Tick
  <2>2. Carried /\ now' = now
    BY <2>1, StepCarries
  <2> QED
    BY <1>2, <2>2 DEF Carried, RInv
<1> QED
  BY <1>1, <1>2

LEMMA AlwaysRInv == Spec => [](IInv /\ RInv)
<1>1. Init => RInv
  <2> SUFFICES ASSUME Init PROVE RInv
    OBVIOUS
  <2>1. stack = <<>> /\ Committed = World
    BY DEF Init, Committed
  <2> QED
    BY <2>1, NothingUnderWay DEF RInv
<1>2. IInv /\ RInv /\ [Next]_vars => RInv'
  BY NextRInv
<1> QED
  BY <1>1, <1>2, AlwaysIInv, PTL DEF Spec

\* The windows of the promise are the windows of the account.
LEMMA SameWindows ==
    /\ Owner!Windows = Windows
    /\ \A r, n : Owner!newReset(r, n) = newReset(r, n)
    /\ \A r, w, n : Owner!Expired(r, w, n) = Expired(r, w, n)
    /\ \A r, s, n : Owner!resetSpent(r, s, n) = resetSpent(r, s, n)
<1>1. Owner!Windows = Windows
  BY DEF Owner!Windows, Windows
<1>2. Owner!WindowLength = WindowLength
  BY <1>1 DEF Owner!WindowLength, WindowLength
<1>3. \A r, w, n : Owner!Expired(r, w, n) = Expired(r, w, n)
  BY <1>2 DEF Owner!Expired, Expired
<1>4. \A r, n : Owner!newReset(r, n) = newReset(r, n)
  BY <1>1, <1>3 DEF Owner!newReset, newReset
<1>5. \A r, s, n : Owner!resetSpent(r, s, n) = resetSpent(r, s, n)
  BY <1>1, <1>3 DEF Owner!resetSpent, resetSpent
<1> QED
  BY <1>1, <1>3, <1>4, <1>5

\* A spend that leaves the movements within the limits is one the promise allows.
LEMMA SpendAllowed ==
    ASSUME IInv, IInv', stack' = <<>>, now' = now,
           NEW d \in [Assets -> Nat], Spent(Committed, World', d, now)
    PROVE  d \in [Assets -> Uint256] /\ Owner!Spend(d)
<1>1. Committed' = World'
  BY DEF Committed
<1> DEFINE base == Committed
           then == Committed'
<1>2. base.moved \in [Assets -> [Windows -> Nat]]
  BY CommittedType DEF WorldType
<1>3. /\ then.acct.lastReset = newReset(base.acct.lastReset, now)
      /\ then.moved = Charge(base.moved, base.acct.lastReset, d, now)
  BY <1>1 DEF Spent
<1>4. \A x \in Assets : \A w \in Windows :
          /\ then.moved[x][w] \in Nat
          /\ then.moved[x][w] <= Limit[x][w]
  <2> SUFFICES ASSUME NEW x \in Assets, NEW w \in Windows
               PROVE  then.moved[x][w] \in Nat /\ then.moved[x][w] <= Limit[x][w]
    OBVIOUS
  <2>1. ExecuteFrames(stack') = {} /\ Len(stack') = 0
    BY DEF ExecuteFrames
  <2>2. /\ World'.moved[x][w] <= World'.acct.spent[x][w]
        /\ World'.acct.spent[x][w] <= Limit[x][w]
    BY <2>1 DEF IInv, Sound, Covers, LimitsKept
  <2>3. World'.moved[x][w] \in Nat /\ World'.acct.spent[x][w] \in Nat /\ Limit[x][w] \in Nat
    BY LimitTypes DEF IInv, WorldType, Storage
  <2> QED
    BY <1>1, <2>2, <2>3
<1> HIDE DEF base, then
<1>5. ASSUME NEW x \in Assets PROVE d[x] \in Uint256
  <2>1. PICK w \in Windows : TRUE
    BY DEF Windows
  <2>2. then.moved[x][w] = (IF Expired(base.acct.lastReset, w, now) THEN 0 ELSE base.moved[x][w])
                           + d[x]
    BY <1>2, <1>3 DEF Charge
  <2>3. /\ base.moved[x][w] \in Nat /\ d[x] \in Nat /\ then.moved[x][w] <= Limit[x][w]
        /\ Limit[x][w] \in Nat /\ Limit[x][w] <= MaxUint256 /\ MaxUint256 \in Nat
    BY <1>2, <1>4, RulesAssumption DEF Uint256
  <2> QED
    BY <2>2, <2>3 DEF Uint256
<1>6. then.moved = [x \in Assets |-> [w \in Windows |->
                       resetSpent(base.acct.lastReset, base.moved[x], now)[w] + d[x]]]
  BY <1>3 DEF Charge, resetSpent
<1>7. Owner!Spend(d)
  BY <1>3, <1>4, <1>6, SameWindows DEF Owner!Spend, base, then
<1> QED
  BY <1>5, <1>7

\* The account implements BoundedSpender: under every interleaving of operations, gas
\* charges, emergency withdrawals and callbacks, whatever reverts, what execute,
\* executeBatch and payForGasInUsdc take for good stays within the limits of both
\* windows, and the windows move on only when they are over.
THEOREM PromiseKept == Spec => KeepsPromise
<1>1. Init => Owner!PromiseInit
  <2> SUFFICES ASSUME Init PROVE Owner!PromiseInit
    OBVIOUS
  <2>1. Committed.acct = acct /\ Committed.moved = moved
    BY WorldFields DEF Init, Committed
  <2> QED
    BY <2>1, SameWindows DEF Init, constructor, Owner!PromiseInit
<1>2. ASSUME IInv, RInv, IInv', [Next]_vars
      PROVE  [Owner!PromiseNext]_(Owner!promiseVars)
  <2>1. CASE Tick
    <3>1. Committed' = Committed
      BY <2>1, WorldFields DEF Tick, Committed, World
    <3> QED
      BY <2>1, <3>1 DEF Tick, Owner!PromiseNext, Owner!Advance
  <2>2. CASE ~Tick
    <3>1. Carried /\ now' = now
      BY <1>2, <2>2, StepCarries
    <3>2. CASE stack' # <<>>
      BY <3>1, <3>2 DEF Carried, Owner!promiseVars
    <3>3. CASE stack' = <<>>
      <4>1. Committed' = World'
        BY <3>3 DEF Committed
      <4>2. CASE Untouched(Committed, World')
        BY <3>1, <4>1, <4>2 DEF Untouched, Owner!promiseVars
      <4>3. CASE \E d \in [Assets -> Nat] : Spent(Committed, World', d, now)
        BY <1>2, <3>1, <3>3, <4>3, SpendAllowed DEF Owner!PromiseNext
      <4> QED
        BY <3>1, <4>2, <4>3 DEF Carried, Follows
    <3> QED
      BY <3>2, <3>3
  <2> QED
    BY <2>1, <2>2
<1> QED
  BY <1>1, <1>2, AlwaysRInv, PTL DEF Spec, KeepsPromise, Owner!Promise

-----------------------------------------------------------------------------
(***************************************************************************)
(* What the promise is worth.  total is a record, kept from outside, of    *)
(* what operations and USDC gas charges that were not reverted have taken. *)
(***************************************************************************)
VARIABLE total

Book == INSTANCE SpendingHistoryProofs
    WITH Amounts <- Uint256,
         lastReset <- Committed.acct.lastReset,
         moved <- Committed.moved

LEMMA BookAssumptions == Book!WindowAssumption /\ Book!SpenderAssumption
BY WindowAssumption, RulesAssumption, AccountAssumption
   DEF Book!WindowAssumption, Book!SpenderAssumption, Book!Windows, Windows, Uint256

\* Whatever is called in whatever order, and whatever reverts, the calls of execute and
\* executeBatch and the charges of payForGasInUsdc that are not reverted take at most
\* twice a window's limit of an asset in any span shorter than the window.  _payPrefund
\* and emergencyWithdraw take ETH (and USDC) on top of that.
THEOREM AccountSpans == Spec /\ Book!Recorded => []Book!SpanBound
<1>1. Owner!PromiseInit => Book!PromiseInit
  BY DEF Owner!PromiseInit, Book!PromiseInit, Owner!Windows, Book!Windows
<1>2. [Owner!PromiseNext]_(Owner!promiseVars) => [Book!PromiseNext]_(Book!promiseVars)
  BY DEF Owner!PromiseNext, Book!PromiseNext, Owner!promiseVars, Book!promiseVars,
         Owner!Advance, Book!Advance, Owner!Spend, Book!Spend,
         Owner!newReset, Book!newReset, Owner!resetSpent, Book!resetSpent,
         Owner!Expired, Book!Expired, Owner!WindowLength, Book!WindowLength,
         Owner!Windows, Book!Windows
<1>3. Spec => Book!Promise
  BY <1>1, <1>2, PromiseKept, PTL DEF KeepsPromise, Owner!Promise, Book!Promise
<1>4. Book!Promise /\ Book!Recorded => []Book!SpanBound
  BY BookAssumptions, Book!PromiseBoundsSpans
<1> QED
  BY <1>3, <1>4, PTL
=============================================================================
