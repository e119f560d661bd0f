------------------------ MODULE SpendingRulesProofs ------------------------
(***************************************************************************)
(* What the functions of SpendingRules return and leave in storage, for    *)
(* the proofs about the state machines that call them.                     *)
(***************************************************************************)
EXTENDS SpendingRules, TLAPS

-----------------------------------------------------------------------------
(***************************************************************************)
(* Sequences and arithmetic.                                               *)
(***************************************************************************)
LEMMA FunctionIsSequence ==
    ASSUME NEW S, NEW n \in Nat, NEW s \in [1..n -> S]
    PROVE  s \in Seq(S) /\ Len(s) = n
OBVIOUS

LEMMA ProductMonotonic ==
    ASSUME NEW a \in Nat, NEW b \in Nat, NEW c \in Nat, a <= b
    PROVE  a * c \in Nat /\ b * c \in Nat /\ a * c <= b * c
<1>1. PICK k \in Nat : b = a + k
  <2>1. b - a \in Nat /\ b = a + (b - a)
    OBVIOUS
  <2> QED
    BY <2>1
<1>2. (a + k) * c = a * c + k * c
  OBVIOUS
<1>3. a * c \in Nat /\ k * c \in Nat
  OBVIOUS
<1> QED
  BY <1>1, <1>2, <1>3

LEMMA QuotientSmaller ==
    ASSUME NEW a \in Nat, NEW n \in Nat \ {0}
    PROVE  a \div n \in Nat /\ a \div n <= a
OBVIOUS

-----------------------------------------------------------------------------
(***************************************************************************)
(* Windows and counters.                                                   *)
(***************************************************************************)
LEMMA LimitTypes ==
    ASSUME NEW x \in Assets, NEW w \in Windows
    PROVE  Limit[x][w] \in Nat
BY RulesAssumption DEF Uint256

LEMMA WindowPositive ==
    ASSUME NEW w \in Windows
    PROVE  WindowLength[w] \in Nat /\ WindowLength[w] >= 1
BY WindowAssumption DEF WindowLength, Windows

LEMMA ResetTypes ==
    ASSUME NEW r \in [Windows -> Nat], NEW s \in [Windows -> Nat], NEW n \in Nat
    PROVE  newReset(r, n) \in [Windows -> Nat] /\ resetSpent(r, s, n) \in [Windows -> Nat]
BY DEF newReset, resetSpent

LEMMA CountersTypes ==
    ASSUME NEW a \in Storage, NEW x \in Assets, NEW n \in Nat
    PROVE  countersToCharge(a, x, n) \in [Windows -> Nat]
<1>1. a.lastReset \in [Windows -> Nat] /\ a.spent[x] \in [Windows -> Nat]
  BY DEF Storage
<1>2. newReset(a.lastReset, n) \in [Windows -> Nat]
  BY <1>1, ResetTypes
<1> QED
  BY <1>1, <1>2, ResetTypes DEF countersToCharge

-----------------------------------------------------------------------------
(***************************************************************************)
(* The parsed amounts, and what recording them leaves in storage.          *)
(***************************************************************************)
LEMMA TotalsTypes ==
    ASSUME NEW calls \in Seq(Call), canParseCalls(calls)
    PROVE  /\ \A x \in Assets : parseCalls(calls)[x] \in RunningTotals(calls, x)
           /\ parseCalls(calls) \in [Assets -> Seq(Uint256)]
           /\ totalSpend(calls) \in [Assets -> Nat]
<1>1. ASSUME NEW x \in Assets
      PROVE  /\ parseCalls(calls)[x] \in RunningTotals(calls, x)
             /\ parseCalls(calls)[x] \in [1..Len(calls) -> Uint256]
  <2>1. PICK t : t \in RunningTotals(calls, x)
    BY DEF canParseCalls
  <2>2. parseCalls(calls)[x] \in RunningTotals(calls, x)
    BY <2>1 DEF parseCalls
  <2> QED
    BY <2>2 DEF RunningTotals
<1>2. Len(calls) \in Nat
  OBVIOUS
<1>3. \A x \in Assets : parseCalls(calls)[x] \in Seq(Uint256)
  BY <1>1, <1>2
<1>4. parseCalls(calls) \in [Assets -> Seq(Uint256)]
  BY <1>3 DEF parseCalls
<1>5. totalSpend(calls) \in [Assets -> Nat]
  BY <1>1, <1>2, RulesAssumption DEF totalSpend, UpTo, Uint256
<1> QED
  BY <1>1, <1>4, <1>5

\* The panic check writes one slot.
LEMMA CooldownUpdated ==
    ASSUME NEW a \in Storage, NEW d, NEW n \in Nat
    PROVE  /\ checkAndUpdatePanicCooldown(a, d, n) \in Storage
           /\ checkAndUpdatePanicCooldown(a, d, n).spent = a.spent
           /\ checkAndUpdatePanicCooldown(a, d, n).lastReset = a.lastReset
           /\ checkAndUpdatePanicCooldown(a, d, n).lastLargeSpendTime
                 = IF isLarge(d) THEN n ELSE a.lastLargeSpendTime
           /\ checkAndUpdatePanicCooldown(a, d, n).emergencyWithdrawRequestTime
                 = a.emergencyWithdrawRequestTime
BY DEF checkAndUpdatePanicCooldown, Storage

\* Recording a spend leaves well-typed storage, with the spend on top of the counters.
LEMMA RecordedTypes ==
    ASSUME NEW a \in Storage, NEW d \in [Assets -> Nat], NEW n \in Nat
    PROVE  \E b \in Storage :
              /\ b = validateAndRecordSpend(a, d, n)
              /\ b.spent = [x \in Assets |-> IF d[x] > 0
                              THEN [w \in Windows |-> countersToCharge(a, x, n)[w] + d[x]]
                              ELSE a.spent[x]]
              /\ b.lastReset = newReset(a.lastReset, n)
              /\ b.lastLargeSpendTime = IF isLarge(d) THEN n ELSE a.lastLargeSpendTime
              /\ b.emergencyWithdrawRequestTime = a.emergencyWithdrawRequestTime
<1> DEFINE a1 == checkAndUpdatePanicCooldown(a, d, n)
           b == applySpendAndUpdate(a1, d, n)
<1>1. /\ a1 \in Storage /\ a1.spent = a.spent /\ a1.lastReset = a.lastReset
      /\ a1.lastLargeSpendTime = IF isLarge(d) THEN n ELSE a.lastLargeSpendTime
      /\ a1.emergencyWithdrawRequestTime = a.emergencyWithdrawRequestTime
  BY CooldownUpdated
<1>2. b = validateAndRecordSpend(a, d, n)
  BY DEF validateAndRecordSpend
<1> HIDE DEF a1
<1>3. ASSUME NEW x \in Assets
      PROVE  countersToCharge(a1, x, n) = countersToCharge(a, x, n)
  BY <1>1 DEF countersToCharge
<1>4. /\ b.spent = [x \in Assets |-> IF d[x] > 0
                        THEN [w \in Windows |-> countersToCharge(a1, x, n)[w] + d[x]]
                        ELSE a1.spent[x]]
      /\ b.lastReset = newReset(a1.lastReset, n)
      /\ b.lastLargeSpendTime = a1.lastLargeSpendTime
      /\ b.emergencyWithdrawRequestTime = a1.emergencyWithdrawRequestTime
  BY <1>1 DEF applySpendAndUpdate, Storage
<1>5. newReset(a1.lastReset, n) \in [Windows -> Nat]
  BY <1>1, ResetTypes DEF Storage
<1>6. b.spent \in [Assets -> [Windows -> Nat]]
  <2>1. ASSUME NEW x \in Assets PROVE b.spent[x] \in [Windows -> Nat]
    <3>1. countersToCharge(a1, x, n) \in [Windows -> Nat] /\ a1.spent[x] \in [Windows -> Nat]
      BY <1>1, CountersTypes DEF Storage
    <3> QED
      BY <3>1, <1>4
  <2> QED
    BY <2>1, <1>4
<1>7. b \in Storage
  BY <1>1, <1>4, <1>5, <1>6 DEF Storage, applySpendAndUpdate
<1>8. b.spent = [x \in Assets |-> IF d[x] > 0
                   THEN [w \in Windows |-> countersToCharge(a, x, n)[w] + d[x]]
                   ELSE a.spent[x]]
  BY <1>1, <1>3, <1>4
<1> HIDE DEF b
<1> QED
  BY <1>1, <1>2, <1>4, <1>7, <1>8

\* Within the limits, and the counters cover the spend on top of anything they covered
\* in the same window.
LEMMA Recorded ==
    ASSUME NEW a \in Storage, NEW d \in [Assets -> Nat], NEW n \in Nat,
           canValidateAndRecordSpend(a, d, n),
           \A x \in Assets : \A w \in Windows : a.spent[x][w] <= Limit[x][w],
           NEW b, b = validateAndRecordSpend(a, d, n)
    PROVE  /\ b \in Storage
           /\ \A x \in Assets : \A w \in Windows : b.spent[x][w] <= Limit[x][w]
           /\ \A x \in Assets : \A w \in Windows :
                 /\ b.spent[x][w] >= d[x]
                 /\ ~Expired(a.lastReset, w, n) => b.spent[x][w] >= a.spent[x][w] + d[x]
           /\ b.lastReset = newReset(a.lastReset, n)
           /\ b.lastLargeSpendTime = IF isLarge(d) THEN n ELSE a.lastLargeSpendTime
           /\ b.emergencyWithdrawRequestTime = a.emergencyWithdrawRequestTime
<1>1. /\ b \in Storage
      /\ b.spent = [x \in Assets |-> IF d[x] > 0
                      THEN [w \in Windows |-> countersToCharge(a, x, n)[w] + d[x]]
                      ELSE a.spent[x]]
      /\ b.lastReset = newReset(a.lastReset, n)
      /\ b.lastLargeSpendTime = IF isLarge(d) THEN n ELSE a.lastLargeSpendTime
      /\ b.emergencyWithdrawRequestTime = a.emergencyWithdrawRequestTime
  BY RecordedTypes
<1>2. ASSUME NEW x \in Assets, NEW w \in Windows
      PROVE  /\ b.spent[x][w] <= Limit[x][w]
             /\ b.spent[x][w] >= d[x]
             /\ ~Expired(a.lastReset, w, n) => b.spent[x][w] >= a.spent[x][w] + d[x]
  <2>1. a.spent[x][w] \in Nat /\ d[x] \in Nat /\ Limit[x][w] \in Nat
    BY LimitTypes DEF Storage
  <2>2. countersToCharge(a, x, n) \in [Windows -> Nat]
    BY CountersTypes
  <2>3. CASE d[x] > 0
    <3>1. b.spent[x][w] = countersToCharge(a, x, n)[w] + d[x]
      BY <2>3, <1>1
    <3>2. countersToCharge(a, x, n)[w] + d[x] <= Limit[x][w]
      BY <2>3 DEF canValidateAndRecordSpend, canApplySpendAndUpdate, validateSpend
    <3>3. ~Expired(a.lastReset, w, n) => countersToCharge(a, x, n)[w] = a.spent[x][w]
      BY DEF countersToCharge, resetSpent, newReset, Expired
    <3> QED
      BY <2>1, <2>2, <3>1, <3>2, <3>3
  <2>4. CASE ~(d[x] > 0)
    <3>1. b.spent[x][w] = a.spent[x][w] /\ d[x] = 0
      BY <2>1, <2>4, <1>1
    <3> QED
      BY <2>1, <3>1
  <2> QED
    BY <2>3, <2>4
<1> QED
  BY <1>1, <1>2

\* The same for a gas charge.
LEMMA ChargedTypes ==
    ASSUME NEW a \in Storage, NEW amount \in Nat, NEW n \in Nat
    PROVE  \E b \in Storage :
              /\ b = applyUsdcSpend(a, amount, n)
              /\ b.spent["usdc"] = [w \in Windows |-> countersToCharge(a, "usdc", n)[w] + amount]
              /\ b.spent["eth"] = a.spent["eth"]
              /\ b.lastLargeSpendTime = a.lastLargeSpendTime
              /\ b.emergencyWithdrawRequestTime = a.emergencyWithdrawRequestTime
<1> DEFINE b == applyUsdcSpend(a, amount, n)
<1>1. "usdc" \in Assets /\ "eth" \in Assets
  BY DEF Assets
<1>2. newReset(a.lastReset, n) \in [Windows -> Nat]
  BY ResetTypes, <1>1 DEF Storage
<1>3. countersToCharge(a, "usdc", n) \in [Windows -> Nat]
  BY <1>1, CountersTypes
<1>4. /\ b.spent["usdc"] = [w \in Windows |-> countersToCharge(a, "usdc", n)[w] + amount]
      /\ b.spent["eth"] = a.spent["eth"]
      /\ b.spent = [a.spent EXCEPT !["usdc"] = b.spent["usdc"]]
      /\ b.lastReset = newReset(a.lastReset, n)
      /\ b.lastLargeSpendTime = a.lastLargeSpendTime
      /\ b.emergencyWithdrawRequestTime = a.emergencyWithdrawRequestTime
  BY <1>1 DEF applyUsdcSpend, Storage
<1>5. b.spent["usdc"] \in [Windows -> Nat]
  BY <1>3, <1>4
<1>6. b \in Storage
  BY <1>2, <1>4, <1>5 DEF Storage, applyUsdcSpend
<1> HIDE DEF b
<1>7. b = applyUsdcSpend(a, amount, n)
  BY DEF b
<1> QED
  BY <1>4, <1>6, <1>7

LEMMA Charged ==
    ASSUME NEW a \in Storage, NEW amount \in Nat, NEW n \in Nat,
           canApplyUsdcSpend(a, amount, n),
           \A x \in Assets : \A w \in Windows : a.spent[x][w] <= Limit[x][w],
           NEW b, b = applyUsdcSpend(a, amount, n)
    PROVE  /\ b \in Storage
           /\ \A x \in Assets : \A w \in Windows : b.spent[x][w] <= Limit[x][w]
           /\ \A w \in Windows : b.spent["eth"][w] = a.spent["eth"][w]
           /\ \A w \in Windows :
                 /\ b.spent["usdc"][w] >= amount
                 /\ ~Expired(a.lastReset, w, n) =>
                        b.spent["usdc"][w] >= a.spent["usdc"][w] + amount
           /\ b.lastLargeSpendTime = a.lastLargeSpendTime
           /\ b.emergencyWithdrawRequestTime = a.emergencyWithdrawRequestTime
<1>1. "usdc" \in Assets /\ "eth" \in Assets
  BY DEF Assets
<1>3. countersToCharge(a, "usdc", n) \in [Windows -> Nat]
  BY <1>1, CountersTypes
<1>4. /\ b \in Storage
      /\ b.spent["usdc"] = [w \in Windows |-> countersToCharge(a, "usdc", n)[w] + amount]
      /\ b.spent["eth"] = a.spent["eth"]
      /\ b.lastLargeSpendTime = a.lastLargeSpendTime
      /\ b.emergencyWithdrawRequestTime = a.emergencyWithdrawRequestTime
  BY ChargedTypes
<1>7. ASSUME NEW w \in Windows
      PROVE  /\ b.spent["usdc"][w] <= Limit["usdc"][w]
             /\ b.spent["usdc"][w] >= amount
             /\ ~Expired(a.lastReset, w, n) =>
                    b.spent["usdc"][w] >= a.spent["usdc"][w] + amount
  <2>1. a.spent["usdc"][w] \in Nat /\ Limit["usdc"][w] \in Nat
        /\ countersToCharge(a, "usdc", n)[w] \in Nat
    BY <1>1, <1>3, LimitTypes DEF Storage
  <2>2. countersToCharge(a, "usdc", n)[w] + amount <= Limit["usdc"][w]
    BY DEF canApplyUsdcSpend, validateSpend
  <2>3. ~Expired(a.lastReset, w, n) =>
            countersToCharge(a, "usdc", n)[w] = a.spent["usdc"][w]
    BY DEF countersToCharge, resetSpent, newReset, Expired
  <2>4. b.spent["usdc"][w] = countersToCharge(a, "usdc", n)[w] + amount
    BY <1>4
  <2> QED
    BY <2>1, <2>2, <2>3, <2>4
<1>8. ASSUME NEW x \in Assets, NEW w \in Windows
      PROVE  b.spent[x][w] <= Limit[x][w]
  BY <1>1, <1>4, <1>7 DEF Assets
<1> QED
  BY <1>4, <1>7, <1>8
=============================================================================
