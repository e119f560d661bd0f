------------------------- MODULE MCSpendingAccount -------------------------
(***************************************************************************)
(* Small instances of SpendingAccount.  One unit of ETH is worth one unit  *)
(* of USDC, and the panic threshold is the whole daily USDC limit of one   *)
(* unit: an operation of two units is large, and one of one unit is not.   *)
(***************************************************************************)
EXTENDS SpendingAccount

MCLimit == [eth  |-> [daily |-> 2, monthly |-> 3], usdc |-> [daily |-> 1, monthly |-> 2]]

Send(target, value) ==
    [target |-> target, value |-> value,
     data |-> [length |-> 0, selector |-> 0, word |-> [first |-> 0, last |-> 0],
               amount |-> 0]]

\* transfer(to, amount): the word after the selector is the padded address.
Transfer(amount) ==
    [target |-> "usdc", value |-> 0,
     data |-> [length |-> 68, selector |-> TRANSFER_SELECTOR,
               word |-> [first |-> 0, last |-> 1], amount |-> amount]]

\* Two sends of two units overflow the uint256 of these instances.
PlainCalls == {Send("eoa", 1), Send("self", 2), Transfer(1)}
MixedCalls == {Send("contract", 1), Send("self", 1), Send("self", 2), Transfer(1)}
=============================================================================
