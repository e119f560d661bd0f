-------------------------- MODULE MCCreate2Factory --------------------------
(***************************************************************************)
(* Small instances of Create2Factory: calls 1 and 2 are made on one object *)
(* and call 3 on another; calls 1 and 3 deploy the same contract.          *)
(***************************************************************************)
EXTENDS Create2Factory

MCClientOf == [c \in Calls |-> IF c = 3 THEN 2 ELSE 1]
MCContract == [c \in Calls |-> IF c = 2 THEN "b" ELSE "a"]
=============================================================================
