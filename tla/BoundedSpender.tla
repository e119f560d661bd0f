--------------------------- MODULE BoundedSpender ---------------------------
(***************************************************************************)
(* What a SpendingAccount promises its owner, with no word on how: time    *)
(* passes, and now and then a transaction moves some of each asset.  A     *)
(* window that has elapsed starts afresh with the next such transaction,   *)
(* and what has moved within a window never exceeds its limit.             *)
(***************************************************************************)
EXTENDS LimitPolicy

CONSTANTS
    Assets,      \* the assets
    Amounts,     \* what one transaction may move of an asset
    Limit,       \* Limit[asset][window]
    DeployTime,  \* when both windows start
    MaxTime      \* bound on the time

ASSUME SpenderAssumption ==
    /\ Amounts \subseteq Nat
    /\ Limit \in [Assets -> [Windows -> Nat]]
    /\ DeployTime \in Nat \ {0}
    /\ MaxTime \in Nat

VARIABLES
    now,         \* the time
    lastReset,   \* lastReset[window]: when the window began
    moved        \* moved[asset][window]: what has moved since

promiseVars == <<now, lastReset, moved>>

PromiseInit ==
    /\ now = DeployTime
    /\ lastReset = [w \in Windows |-> DeployTime]
    /\ moved = [x \in Assets |-> [w \in Windows |-> 0]]

Advance ==
    /\ now < MaxTime
    /\ now' = now + 1
    /\ UNCHANGED <<lastReset, moved>>

Spend(d) ==
    /\ lastReset' = newReset(lastReset, now)
    /\ moved' = [x \in Assets |-> [w \in Windows |->
                    resetSpent(lastReset, moved[x], now)[w] + d[x]]]
    /\ \A x \in Assets : \A w \in Windows : moved'[x][w] <= Limit[x][w]
    /\ UNCHANGED now

PromiseNext == Advance \/ \E d \in [Assets -> Amounts] : Spend(d)

Promise == PromiseInit /\ [][PromiseNext]_promiseVars

=============================================================================
