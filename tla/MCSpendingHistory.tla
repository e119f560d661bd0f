------------------------- MODULE MCSpendingHistory -------------------------
(***************************************************************************)
(* A small instance of SpendingHistory: one asset, and windows that do not *)
(* divide each other.                                                      *)
(***************************************************************************)
EXTENDS SpendingHistory

MCLimit == [x \in Assets |-> [w \in Windows |-> IF w = "daily" THEN 3 ELSE 4]]
=============================================================================
