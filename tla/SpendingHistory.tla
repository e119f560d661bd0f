-------------------------- MODULE SpendingHistory --------------------------
(***************************************************************************)
(* BoundedSpender with a history variable: total[x][t] is all that has     *)
(* moved of asset x up to and including time t.  It says what the promise  *)
(* is worth to somebody whose 24 hours begin when he likes.                *)
(***************************************************************************)
EXTENDS BoundedSpender

VARIABLE total

spenderVars == <<now, lastReset, moved, total>>

SpenderInit ==
    /\ PromiseInit
    /\ total = [x \in Assets |-> [t \in 0..DeployTime |-> 0]]

SpenderAdvance ==
    /\ Advance
    /\ total' = [x \in Assets |-> [t \in 0..(now + 1) |->
                    IF t <= now THEN total[x][t] ELSE total[x][now]]]

SpenderSpend ==
    \E d \in [Assets -> Amounts] :
        /\ Spend(d)
        /\ total' = [x \in Assets |-> [t \in 0..now |->
                        IF t < now THEN total[x][t] ELSE total[x][now] + d[x]]]

SpenderNext == SpenderAdvance \/ SpenderSpend

SpenderSpec == SpenderInit /\ [][SpenderNext]_spenderVars

(***************************************************************************)
(* The same history, kept by somebody who sees only the windows of a       *)
(* spender: what a step has moved shows in the day's counter, which begins *)
(* at 0 when the day does.                                                 *)
(***************************************************************************)
JustMoved(x) ==
    IF lastReset'["daily"] = lastReset["daily"]
    THEN moved'[x]["daily"] - moved[x]["daily"]
    ELSE moved'[x]["daily"]

RecordInit == total = [x \in Assets |-> [t \in 0..now |-> 0]]

Record ==
    total' = [x \in Assets |-> [t \in 0..now' |->
                 IF t < now' THEN total[x][t] ELSE total[x][now] + JustMoved(x)]]

Recorded == RecordInit /\ [][Record]_spenderVars

-----------------------------------------------------------------------------
\* The types of the variables; in particular a window never begins in the
\* future, whatever maybeResetWindows makes of its timestamps.
SpenderTypeOK ==
    /\ now \in Nat \ {0}
    /\ lastReset \in [Windows -> 1..now]
    /\ moved \in [Assets -> [Windows -> Nat]]
    /\ total \in [Assets -> [0..now -> Nat]]

\* Whenever somebody starts his clock, less than a window later no more than
\* twice the window's limit has moved: the counters of maybeResetWindows are
\* re-anchored at the first transaction after expiry, so the end of one window
\* and the beginning of the next may both be spent in full, and no third.
SpanBound ==
    \A x \in Assets : \A w \in Windows : \A s \in 1..now :
        now - s < WindowLength[w] => total[x][now] - total[x][s - 1] <= 2 * Limit[x][w]

-----------------------------------------------------------------------------
(***************************************************************************)
(* Why SpanBound holds: what has moved since a window began is what the    *)
(* window has counted (SinceReset), and what moved in the stretch before   *)
(* it that is shorter than a window lies in the window before (Before      *)
(* Reset).  The first transaction after expiry is the one that resets, so  *)
(* nothing moves between the two (QuietWhenExpired).                       *)
(***************************************************************************)
Monotone ==
    \A x \in Assets : \A s, t \in 0..now : s <= t => total[x][s] <= total[x][t]

WithinLimits == \A x \in Assets : \A w \in Windows : moved[x][w] <= Limit[x][w]

SinceReset ==
    \A x \in Assets : \A w \in Windows :
        total[x][now] - total[x][lastReset[w] - 1] = moved[x][w]

QuietWhenExpired ==
    \A x \in Assets : \A w \in Windows :
        Expired(lastReset, w, now) => total[x][now] = total[x][now - 1]

BeforeReset ==
    \A x \in Assets : \A w \in Windows : \A s \in 1..lastReset[w] :
        lastReset[w] - s < WindowLength[w] =>
            total[x][lastReset[w] - 1] - total[x][s - 1] <= Limit[x][w]

\* The inductive invariant.
SpanInv ==
    /\ SpenderTypeOK
    /\ Monotone
    /\ WithinLimits
    /\ SinceReset
    /\ QuietWhenExpired
    /\ BeforeReset
=============================================================================
