---------------------------- MODULE LimitPolicy ----------------------------
(***************************************************************************)
(* The window arithmetic of src/src/LimitPolicy.sol: pure functions, no    *)
(* state.  The contract keeps one counter per asset and window and one     *)
(* reset timestamp per window; here a pair of counters is a function from  *)
(* Windows, and a pair of reset timestamps as well.                        *)
(***************************************************************************)
EXTENDS Integers

CONSTANTS
    DAILY_WINDOW,    \* length of the daily window (24 hours)
    MONTHLY_WINDOW   \* length of the monthly window (30 days)

ASSUME WindowAssumption ==
    /\ DAILY_WINDOW \in Nat \ {0}
    /\ MONTHLY_WINDOW \in Nat \ {0}

Windows == {"daily", "monthly"}

WindowLength ==
    [w \in Windows |-> IF w = "daily" THEN DAILY_WINDOW ELSE MONTHLY_WINDOW]

\* Mutant of Expired: the daily constant is used for both windows.
Expired_Daily(lastReset, w, nowTs) == nowTs >= lastReset[w] + DAILY_WINDOW

\* The test of maybeResetWindows: the window anchored at lastReset is over.
Expired(lastReset, w, nowTs) == nowTs >= lastReset[w] + WindowLength[w]

\* Mutant of newReset: stores when the window will be over, not when it began.
newReset_AtExpiry(lastReset, nowTs) ==
    [w \in Windows |-> IF Expired(lastReset, w, nowTs) THEN nowTs + WindowLength[w]
                       ELSE lastReset[w]]

(***************************************************************************)
(* maybeResetWindows returns two reset timestamps and two counters; each   *)
(* pair is an operator of its own, since most callers drop one of them.    *)
(***************************************************************************)
newReset(lastReset, nowTs) ==
    [w \in Windows |-> IF Expired(lastReset, w, nowTs) THEN nowTs ELSE lastReset[w]]

resetSpent(lastReset, spent, nowTs) ==
    [w \in Windows |-> IF Expired(lastReset, w, nowTs) THEN 0 ELSE spent[w]]

\* TRUE where validateEthSpend and validateUsdcSpend, which have the same
\* body, return; FALSE where they revert.
validateSpend(spent, limit, amount) ==
    \A w \in Windows : spent[w] + amount <= limit[w]
=============================================================================
