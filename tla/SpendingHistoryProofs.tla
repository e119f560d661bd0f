----------------------- MODULE SpendingHistoryProofs -----------------------
(***************************************************************************)
(* Proof that what BoundedSpender promises bounds the spending in every    *)
(* span shorter than a window, whatever the assets, limits and windows,    *)
(* and whoever keeps the promise.                                          *)
(***************************************************************************)
EXTENDS SpendingHistory, TLAPS

LEMMA WindowPositive ==
    ASSUME NEW w \in Windows
    PROVE  WindowLength[w] \in Nat /\ WindowLength[w] >= 1
BY WindowAssumption DEF WindowLength, Windows

\* The types of the single entries, in the form the provers want them.
LEMMA EntryTypes ==
    ASSUME SpenderTypeOK, NEW x \in Assets, NEW w \in Windows
    PROVE  /\ now \in Nat /\ now >= 1
           /\ lastReset[w] \in Nat /\ lastReset[w] >= 1 /\ lastReset[w] <= now
           /\ moved[x][w] \in Nat /\ Limit[x][w] \in Nat
           /\ \A t \in Nat : t <= now => total[x][t] \in Nat
BY SpenderAssumption DEF SpenderTypeOK

\* The initial states satisfy the invariant.
LEMMA SpanInit == SpenderInit => SpanInv
<1> SUFFICES ASSUME SpenderInit PROVE SpanInv
  OBVIOUS
<1> USE DEF SpenderInit, PromiseInit
<1>1. SpenderTypeOK
  BY SpenderAssumption DEF SpenderTypeOK
<1>2. Monotone
  BY SpenderAssumption DEF Monotone
<1>3. WithinLimits
  BY SpenderAssumption DEF WithinLimits
<1>4. SinceReset
  BY SpenderAssumption DEF SinceReset
<1>5. QuietWhenExpired
  BY SpenderAssumption DEF QuietWhenExpired
<1>6. BeforeReset
  BY SpenderAssumption DEF BeforeReset
<1> QED
  BY <1>1, <1>2, <1>3, <1>4, <1>5, <1>6 DEF SpanInv

\* Time passes: the history is continued, nothing else changes.
LEMMA AdvanceKeepsSpan == SpanInv /\ SpenderAdvance => SpanInv'
<1> SUFFICES ASSUME SpenderTypeOK, Monotone, WithinLimits, SinceReset,
                    QuietWhenExpired, BeforeReset, SpenderAdvance
             PROVE  SpanInv'
  BY DEF SpanInv
<1>1. /\ now \in Nat /\ now >= 1
      /\ now' = now + 1 /\ lastReset' = lastReset /\ moved' = moved
  BY DEF SpenderAdvance, Advance, SpenderTypeOK
<1>2. ASSUME NEW x \in Assets
      PROVE  /\ \A t \in 0..now : total'[x][t] = total[x][t]
             /\ total'[x][now + 1] = total[x][now]
  BY <1>1 DEF SpenderAdvance
<1>3. SpenderTypeOK'
  BY DEF SpenderTypeOK, SpenderAdvance, Advance
<1>4. Monotone'
  <2> SUFFICES ASSUME NEW x \in Assets, NEW s \in 0..(now + 1), NEW t \in 0..(now + 1),
                      s <= t
               PROVE  total'[x][s] <= total'[x][t]
    BY <1>1 DEF Monotone
  <2>1. /\ \A i \in 0..now : total[x][i] \in Nat
        /\ \A i, j \in 0..now : i <= j => total[x][i] <= total[x][j]
    BY DEF Monotone, SpenderTypeOK
  <2>2. CASE t \in 0..now
    BY <2>1, <2>2, <1>1, <1>2
  <2>3. CASE t = now + 1 /\ s \in 0..now
    BY <2>1, <2>3, <1>1, <1>2
  <2>4. CASE t = now + 1 /\ s = now + 1
    BY <2>1, <2>4, <1>1, <1>2
  <2> QED
    BY <1>1, <2>2, <2>3, <2>4
<1>5. WithinLimits'
  BY <1>1 DEF WithinLimits
<1>6. SinceReset'
  <2> SUFFICES ASSUME NEW x \in Assets, NEW w \in Windows
               PROVE  total'[x][now + 1] - total'[x][lastReset[w] - 1] = moved[x][w]
    BY <1>1 DEF SinceReset
  <2>1. lastReset[w] - 1 \in 0..now
    BY EntryTypes
  <2> QED
    BY <1>2, <2>1 DEF SinceReset
<1>7. QuietWhenExpired'
  <2> SUFFICES ASSUME NEW x \in Assets
               PROVE  total'[x][now + 1] = total'[x][(now + 1) - 1]
    BY <1>1 DEF QuietWhenExpired
  <2>1. (now + 1) - 1 = now /\ now \in 0..now
    BY <1>1
  <2> QED
    BY <1>2, <2>1
<1>8. BeforeReset'
  <2> SUFFICES ASSUME NEW x \in Assets, NEW w \in Windows, NEW s \in 1..lastReset[w],
                      lastReset[w] - s < WindowLength[w]
               PROVE  total'[x][lastReset[w] - 1] - total'[x][s - 1] <= Limit[x][w]
    BY <1>1 DEF BeforeReset
  <2>1. lastReset[w] - 1 \in 0..now /\ s - 1 \in 0..now
    BY EntryTypes
  <2> QED
    BY <1>2, <2>1 DEF BeforeReset
<1> QED
  BY <1>3, <1>4, <1>5, <1>6, <1>7, <1>8 DEF SpanInv

\* A transaction moves something, and begins the windows that have elapsed.
LEMMA SpendKeepsSpan == SpanInv /\ SpenderSpend => SpanInv'
<1> SUFFICES ASSUME SpenderTypeOK, Monotone, WithinLimits, SinceReset,
                    QuietWhenExpired, BeforeReset,
                    NEW d \in [Assets -> Amounts], Spend(d),
                    total' = [x \in Assets |-> [t \in 0..now |->
                        IF t < now THEN total[x][t] ELSE total[x][now] + d[x]]]
             PROVE  SpanInv'
  BY DEF SpanInv, SpenderSpend
<1>1. now \in Nat /\ now >= 1 /\ now' = now
  BY DEF Spend, SpenderTypeOK
<1>2. \A x \in Assets : d[x] \in Nat
  BY SpenderAssumption
<1>3. ASSUME NEW x \in Assets
      PROVE  /\ \A t \in 0..(now - 1) : total'[x][t] = total[x][t]
             /\ total'[x][now] = total[x][now] + d[x]
  BY <1>1
<1>4. ASSUME NEW x \in Assets, NEW w \in Windows, Expired(lastReset, w, now)
      PROVE  /\ lastReset'[w] = now
             /\ moved'[x][w] = d[x]
             /\ ~(Expired(lastReset, w, now)')
  BY <1>1, <1>2, <1>4, WindowPositive DEF Spend, newReset, resetSpent, Expired
<1>5. ASSUME NEW x \in Assets, NEW w \in Windows, ~Expired(lastReset, w, now)
      PROVE  /\ lastReset'[w] = lastReset[w]
             /\ moved'[x][w] = moved[x][w] + d[x]
             /\ ~(Expired(lastReset, w, now)')
  BY <1>1, <1>5 DEF Spend, newReset, resetSpent, Expired
<1>6. SpenderTypeOK'
  <2>1. lastReset' \in [Windows -> 1..now]
    BY <1>1 DEF Spend, newReset, SpenderTypeOK
  <2>2. moved' \in [Assets -> [Windows -> Nat]]
    BY <1>2 DEF Spend, resetSpent, SpenderTypeOK
  <2>3. total' \in [Assets -> [0..now -> Nat]]
    BY <1>1, <1>2 DEF SpenderTypeOK
  <2> QED
    BY <1>1, <2>1, <2>2, <2>3 DEF SpenderTypeOK
<1>7. Monotone'
  <2> SUFFICES ASSUME NEW x \in Assets, NEW s \in 0..now, NEW t \in 0..now, s <= t
               PROVE  total'[x][s] <= total'[x][t]
    BY <1>1 DEF Monotone
  <2>1. /\ \A i \in 0..now : total[x][i] \in Nat
        /\ \A i, j \in 0..now : i <= j => total[x][i] <= total[x][j]
    BY DEF Monotone, SpenderTypeOK
  <2>2. CASE t < now
    BY <2>1, <2>2, <1>1, <1>3
  <2>3. CASE t = now /\ s < now
    BY <2>1, <2>3, <1>1, <1>2, <1>3
  <2>4. CASE t = now /\ s = now
    BY <2>1, <2>4, <1>1, <1>2, <1>3
  <2> QED
    BY <1>1, <2>2, <2>3, <2>4
<1>8. WithinLimits'
  BY DEF Spend, WithinLimits
<1>9. SinceReset'
  <2> SUFFICES ASSUME NEW x \in Assets, NEW w \in Windows
               PROVE  total'[x][now] - total'[x][lastReset'[w] - 1] = moved'[x][w]
    BY <1>1 DEF SinceReset
  <2>1. /\ lastReset[w] - 1 \in 0..(now - 1) /\ now - 1 \in 0..(now - 1)
        /\ \A t \in 0..now : total[x][t] \in Nat
        /\ moved[x][w] \in Nat /\ d[x] \in Nat
    BY <1>1, <1>2, EntryTypes
  <2>2. CASE Expired(lastReset, w, now)
    <3>1. total[x][now] = total[x][now - 1]
      BY <2>2 DEF QuietWhenExpired
    <3> QED
      BY <2>1, <2>2, <3>1, <1>1, <1>3, <1>4
  <2>3. CASE ~Expired(lastReset, w, now)
    <3>1. total[x][now] - total[x][lastReset[w] - 1] = moved[x][w]
      BY DEF SinceReset
    <3> QED
      <4>1. /\ total'[x][now] = total[x][now] + d[x]
            /\ total'[x][lastReset[w] - 1] = total[x][lastReset[w] - 1]
        BY <2>1, <1>3
      <4>2. lastReset'[w] = lastReset[w] /\ moved'[x][w] = moved[x][w] + d[x]
        BY <2>3, <1>5
      <4>3. total[x][now] \in Nat /\ total[x][lastReset[w] - 1] \in Nat
        BY <2>1, <1>1
      <4> QED
        BY <2>1, <3>1, <4>1, <4>2, <4>3
  <2> QED
    BY <2>2, <2>3
<1>10. QuietWhenExpired'
  BY <1>4, <1>5 DEF QuietWhenExpired
<1>11. BeforeReset'
  <2> SUFFICES ASSUME NEW x \in Assets, NEW w \in Windows, NEW s \in 1..lastReset'[w],
                      lastReset'[w] - s < WindowLength[w]
               PROVE  total'[x][lastReset'[w] - 1] - total'[x][s - 1] <= Limit[x][w]
    BY DEF BeforeReset
  <2>1. CASE Expired(lastReset, w, now)
    <3>1. /\ lastReset'[w] = now /\ s \in Nat
          /\ lastReset[w] <= s - 1 /\ s - 1 <= now - 1
      BY <2>1, <1>1, <1>4, WindowPositive, EntryTypes DEF Expired
    <3>2. /\ lastReset[w] - 1 \in 0..now /\ s - 1 \in 0..now
          /\ s - 1 \in 0..(now - 1) /\ now - 1 \in 0..(now - 1)
          /\ now \in 0..now /\ now - 1 \in 0..now
          /\ \A t \in 0..now : total[x][t] \in Nat
          /\ Limit[x][w] \in Nat
      BY <3>1, <1>1, EntryTypes
    <3>3. total[x][now - 1] <= total[x][now]
      BY <3>2, <1>1 DEF Monotone
    <3>4. total[x][lastReset[w] - 1] <= total[x][s - 1]
      BY <3>1, <3>2, EntryTypes DEF Monotone
    <3>5. total[x][now] - total[x][lastReset[w] - 1] <= Limit[x][w]
      BY DEF SinceReset, WithinLimits
    <3>6. total'[x][now - 1] = total[x][now - 1] /\ total'[x][s - 1] = total[x][s - 1]
      BY <3>2, <1>3
    <3>7. /\ total[x][now - 1] \in Nat /\ total[x][now] \in Nat
          /\ total[x][s - 1] \in Nat /\ total[x][lastReset[w] - 1] \in Nat
      BY <3>2
    <3>8. total[x][now - 1] - total[x][s - 1] <= Limit[x][w]
      <4> DEFINE a == total[x][now - 1]
                 b == total[x][now]
                 c == total[x][s - 1]
                 e == total[x][lastReset[w] - 1]
                 l == Limit[x][w]
      <4>1. /\ a \in Nat /\ b \in Nat /\ c \in Nat /\ e \in Nat /\ l \in Nat
            /\ a <= b /\ e <= c /\ b - e <= l
        BY <3>2, <3>3, <3>4, <3>5, <3>7
      <4> HIDE DEF a, b, c, e, l
      <4>2. a - c <= l
        BY <4>1
      <4> QED
        BY <4>2 DEF a, c, l
    <3> QED
      BY <3>1, <3>6, <3>8
  <2>2. CASE ~Expired(lastReset, w, now)
    <3>1. lastReset'[w] = lastReset[w]
      BY <2>2, <1>5
    <3>2. lastReset[w] - 1 \in 0..(now - 1) /\ s - 1 \in 0..(now - 1)
      BY <3>1, <1>1, EntryTypes
    <3>3. total[x][lastReset[w] - 1] - total[x][s - 1] <= Limit[x][w]
      BY <3>1 DEF BeforeReset
    <3>4. /\ total'[x][lastReset[w] - 1] = total[x][lastReset[w] - 1]
          /\ total'[x][s - 1] = total[x][s - 1]
      BY <3>2, <1>3
    <3> QED
      BY <3>1, <3>3, <3>4
  <2> QED
    BY <2>1, <2>2
<1> QED
  BY <1>6, <1>7, <1>8, <1>9, <1>10, <1>11 DEF SpanInv

\* The invariant implies the bound: the span lies in the current window, or in
\* it and the stretch before it.
LEMMA SpanInvImpliesBound == SpanInv => SpanBound
<1> SUFFICES ASSUME SpenderTypeOK, Monotone, WithinLimits, SinceReset, BeforeReset,
                    NEW x \in Assets, NEW w \in Windows, NEW s \in 1..now,
                    now - s < WindowLength[w]
             PROVE  total[x][now] - total[x][s - 1] <= 2 * Limit[x][w]
  BY DEF SpanBound, SpanInv
<1>1. /\ lastReset[w] - 1 \in 0..now /\ s - 1 \in 0..now /\ now \in 0..now
      /\ \A t \in 0..now : total[x][t] \in Nat
      /\ Limit[x][w] \in Nat /\ moved[x][w] \in Nat
  BY EntryTypes
<1>2. total[x][now] - total[x][lastReset[w] - 1] <= Limit[x][w]
  BY DEF SinceReset, WithinLimits
<1>3. CASE s >= lastReset[w]
  <2>1. total[x][lastReset[w] - 1] <= total[x][s - 1]
    BY <1>1, <1>3, EntryTypes DEF Monotone
  <2> QED
    BY <2>1, <1>1, <1>2
<1>4. CASE s < lastReset[w]
  <2>1. s \in 1..lastReset[w] /\ lastReset[w] - s < WindowLength[w]
    BY <1>4, EntryTypes, WindowPositive
  <2>2. total[x][lastReset[w] - 1] - total[x][s - 1] <= Limit[x][w]
    BY <2>1 DEF BeforeReset
  <2> QED
    BY <2>2, <1>1, <1>2
<1> QED
  BY <1>3, <1>4, EntryTypes

LEMMA SpanStep == SpanInv /\ [SpenderNext]_spenderVars => SpanInv'
<1> SUFFICES ASSUME SpanInv, [SpenderNext]_spenderVars PROVE SpanInv'
  OBVIOUS
<1>1. CASE SpenderNext
  BY <1>1, AdvanceKeepsSpan, SpendKeepsSpan DEF SpenderNext
<1>2. CASE UNCHANGED spenderVars
  BY <1>2 DEF spenderVars, SpanInv, SpenderTypeOK, Monotone, WithinLimits, SinceReset,
              QuietWhenExpired, BeforeReset, Expired
<1> QED
  BY <1>1, <1>2

LEMMA AlwaysSpan == SpenderSpec => []SpanInv
  BY SpanInit, SpanStep, PTL DEF SpenderSpec

\* Whatever maybeResetWindows makes of its timestamps, a window never begins in the
\* future, and what has moved stays a number.
THEOREM SpenderTypes == SpenderSpec => []SpenderTypeOK
<1>1. SpanInv => SpenderTypeOK
  BY DEF SpanInv
<1> QED
  BY <1>1, AlwaysSpan, PTL

\* Whatever the limits and the lengths of the windows, a spender that keeps the
\* promise of BoundedSpender (LimitPolicy's windows, enforced) moves at most
\* twice a window's limit in any span shorter than the window.
THEOREM SpanBounded == SpenderSpec => []SpanBound
  BY AlwaysSpan, SpanInvImpliesBound, PTL

-----------------------------------------------------------------------------
(***************************************************************************)
(* A record kept from outside is the history variable of SpendingHistory.  *)
(***************************************************************************)
LEMMA RecordIsHistory ==
    ASSUME SpanInv, [PromiseNext]_promiseVars, [Record]_spenderVars
    PROVE  [SpenderNext]_spenderVars
<1> USE DEF SpanInv
<1>1. /\ now \in Nat /\ now >= 1
      /\ total \in [Assets -> [0..now -> Nat]]
      /\ moved \in [Assets -> [Windows -> Nat]]
      /\ "daily" \in Windows
  BY DEF SpenderTypeOK, Windows
<1>2. CASE UNCHANGED spenderVars
  BY <1>2
<1>3. CASE Record /\ UNCHANGED promiseVars
  <2>1. \A x \in Assets : JustMoved(x) = 0
    BY <1>1, <1>3 DEF promiseVars, JustMoved
  <2>2. total' = [x \in Assets |-> [t \in 0..now |->
                    IF t < now THEN total[x][t] ELSE total[x][now] + 0]]
    BY <1>3, <2>1 DEF promiseVars, Record
  <2>3. \A x \in Assets : total'[x] = total[x]
    BY <1>1, <2>2
  <2>4. total' = total
    BY <1>1, <2>2, <2>3
  <2> QED
    BY <1>3, <2>4 DEF promiseVars, spenderVars
<1>4. CASE Record /\ Advance
  <2>1. /\ now' = now + 1
        /\ \A x \in Assets : JustMoved(x) = 0
    BY <1>1, <1>4 DEF Advance, JustMoved
  <2>2. total' = [x \in Assets |-> [t \in 0..(now + 1) |->
                    IF t < now + 1 THEN total[x][t] ELSE total[x][now] + 0]]
    BY <1>4, <2>1 DEF Record
  <2>3. total' = [x \in Assets |-> [t \in 0..(now + 1) |->
                    IF t <= now THEN total[x][t] ELSE total[x][now]]]
    BY <1>1, <2>2
  <2> QED
    BY <1>4, <2>3 DEF SpenderNext, SpenderAdvance
<1>5. CASE Record /\ \E d \in [Assets -> Amounts] : Spend(d)
  <2>1. PICK d \in [Assets -> Amounts] : Spend(d)
    BY <1>5
  <2>2. ASSUME NEW x \in Assets
        PROVE  JustMoved(x) = d[x]
    <3>1. /\ d[x] \in Nat /\ moved[x]["daily"] \in Nat
          /\ lastReset["daily"] \in Nat
          /\ WindowLength["daily"] \in Nat /\ WindowLength["daily"] >= 1
      BY <1>1, SpenderAssumption, WindowPositive, EntryTypes DEF SpenderTypeOK
    <3>2. /\ lastReset'["daily"] =
                IF Expired(lastReset, "daily", now) THEN now ELSE lastReset["daily"]
          /\ moved'[x]["daily"] =
                (IF Expired(lastReset, "daily", now) THEN 0 ELSE moved[x]["daily"]) + d[x]
      BY <1>1, <2>1 DEF Spend, newReset, resetSpent
    <3>3. Expired(lastReset, "daily", now) => now # lastReset["daily"]
      BY <1>1, <3>1 DEF Expired
    <3> QED
      BY <3>1, <3>2, <3>3 DEF JustMoved
  <2>3. now' = now
    BY <2>1 DEF Spend
  <2>4. total' = [x \in Assets |-> [t \in 0..now |->
                    IF t < now THEN total[x][t] ELSE total[x][now] + d[x]]]
    BY <1>5, <2>2, <2>3 DEF Record
  <2> QED
    BY <2>1, <2>4 DEF SpenderNext, SpenderSpend
<1> QED
  BY <1>2, <1>3, <1>4, <1>5 DEF PromiseNext, promiseVars, spenderVars

\* Whoever keeps the promise of BoundedSpender, however it is implemented, moves at most
\* twice a window's limit in any span shorter than the window.
THEOREM PromiseBoundsSpans == Promise /\ Recorded => []SpanBound
<1>1. PromiseInit /\ RecordInit => SpanInv
  BY SpanInit DEF RecordInit, SpenderInit, PromiseInit
<1>2. SpanInv /\ [PromiseNext]_promiseVars /\ [Record]_spenderVars => SpanInv'
  BY RecordIsHistory, SpanStep
<1> QED
  BY <1>1, <1>2, SpanInvImpliesBound, PTL DEF Promise, Recorded
=============================================================================
