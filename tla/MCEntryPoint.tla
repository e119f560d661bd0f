---------------------------- MODULE MCEntryPoint ----------------------------
(***************************************************************************)
(* Small instances of EntryPoint.  A basis point is a half: the premium is *)
(* 50 percent, and with a daily USDC limit of five units a spend of three  *)
(* units is large.                                                         *)
(***************************************************************************)
EXTENDS EntryPoint

MCLimit == [eth  |-> [daily |-> 3, monthly |-> 4], usdc |-> [daily |-> 5, monthly |-> 6]]

\* Two sends of one unit use up the daily limit of ETH.
TightLimit == [MCLimit EXCEPT !["eth"] = [daily |-> 2, monthly |-> 3]]

Send(value) ==
    [target |-> "eoa", value |-> value,
     data |-> [length |-> 0, selector |-> 0, word |-> [first |-> 0, last |-> 0],
               amount |-> 0]]

MCOp(fn, calls, gas, fee, paymaster, signed) ==
    [initCode |-> "none", fn |-> fn, calls |-> calls, gas |-> gas, maxFeePerGas |-> fee,
     postOpGasLimit |-> IF paymaster THEN 1 ELSE 0,
     paymaster |-> paymaster, signed |-> signed]

MCFunding == [eth |-> 2, usdc |-> 2, deposit |-> [account |-> 0, paymaster |-> 3]]

\* Self-paid, with and without an initCode that creates the account; sponsored, with a
\* projected cost that makes it large, and with one that does not; without callData,
\* and a signature that is not the owner's or another account's initCode; sponsored,
\* with no gas for postOp.
MixedOps ==
    {MCOp("execute", <<Send(1)>>, 1, 1, FALSE, TRUE),
     [MCOp("execute", <<Send(1)>>, 1, 1, FALSE, TRUE) EXCEPT !.initCode = "own"],
     MCOp("execute", <<Send(1)>>, 1, 2, TRUE, TRUE),
     MCOp("execute", <<Send(1)>>, 1, 1, TRUE, TRUE),
     [MCOp("none", <<>>, 0, 1, FALSE, FALSE) EXCEPT !.initCode = "own"],
     [MCOp("none", <<>>, 0, 1, FALSE, TRUE) EXCEPT !.initCode = "other"],
     [MCOp("none", <<>>, 0, 1, TRUE, TRUE) EXCEPT !.postOpGasLimit = 0]}

AmpleFunding == [eth |-> 5, usdc |-> 0, deposit |-> [account |-> 0, paymaster |-> 0]]

SelfPaidOps ==
    {MCOp("execute", <<Send(1)>>, 1, 1, FALSE, TRUE),
     MCOp("execute", <<Send(3)>>, 1, 1, FALSE, TRUE),
     MCOp("none", <<>>, 1, 1, FALSE, TRUE)}
=============================================================================
