---------------------------- MODULE MCGasChecker ----------------------------
(***************************************************************************)
(* Files of the suite with small tests: the warmup, a file with a test of  *)
(* two rows and another test, and a file whose before() deploys a          *)
(* paymaster.                                                              *)
(***************************************************************************)
EXTENDS GasChecker

MCRow(file, test, count, hook, report) ==
    [file |-> file, test |-> test, count |-> count, hook |-> hook, report |-> report]

Suite ==
    <<MCRow(1, 1, 1, FALSE, FALSE),
      MCRow(2, 2, 1, FALSE, TRUE), MCRow(2, 2, 2, FALSE, TRUE),
      MCRow(2, 3, 3, FALSE, TRUE),
      MCRow(3, 4, 1, TRUE, TRUE)>>
=============================================================================
