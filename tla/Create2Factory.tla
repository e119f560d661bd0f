--------------------------- MODULE Create2Factory ---------------------------
(***************************************************************************)
(* Create2Factory.ts: contracts deployed at addresses known in advance, by *)
(* a factory that whoever needs it first deploys with a presigned          *)
(* transaction of an account he funds.                                     *)
(*                                                                         *)
(* Several objects, and several calls on one of them, may be at work at    *)
(* once; whoever's call throws may call again.  A call runs from one await *)
(* to the next in one step.                                                *)
(***************************************************************************)
EXTENDS Naturals, FiniteSets

CONSTANTS
    Clients,    \* Create2Factory objects
    Calls,      \* calls of deploy
    ClientOf,   \* the object a call is made on
    Contract,   \* Contract[c]: the initCode and salt, hence the address, of a call
    Estimated,  \* calls with gasLimit 'estimate'
    Heavy,      \* contracts that need more gas than the size of their code suggests
    MaxFunds,   \* bound on the fees counted, sent to the factory's deployer or with it
    MaxResets   \* bound on how often the chain may lose its state

ASSUME Create2Assumption ==
    /\ ClientOf \in [Calls -> Clients]
    /\ Estimated \subseteq Calls
    /\ MaxFunds \in Nat \ {0} /\ MaxResets \in Nat

Address == {Contract[c] : c \in Calls}

VARIABLES
    factoryDeployed,  \* the flag an object keeps
    pc,               \* what a call waits for
    answer,           \* what getCode told a call that has not gone on since
    chain,            \* the deployer's fees, and the contracts that exist
    mempool,          \* transactions accepted and not mined
    receipt,          \* the status of a call's mined transaction
    resets,           \* how often the chain has lost its state
    since             \* history: resets when a call of deploy began

vars == <<factoryDeployed, pc, answer, chain, mempool, receipt, resets, since>>

Step == {"idle", "isDeployed", "fund", "timeout", "sendFactory", "waitFactory", "recheck",
         "check", "estimate", "sendDeploy", "waitDeploy", "verify", "returned", "threw"}

\* The types of what an object, a call and the node keep; in particular a call has
\* waited for its transaction, and it has not reverted, when it looks whether the
\* contract is there.
Create2TypeOK ==
    /\ factoryDeployed \in [Clients -> BOOLEAN]
    /\ pc \in [Calls -> Step]
    /\ answer \in [Calls -> {"none", "empty", "code"}]
    /\ chain \in [funds : 0..MaxFunds, factory : BOOLEAN, code : SUBSET Address]
    /\ mempool \in [fund : 0..MaxFunds, factory : BOOLEAN, deploy : SUBSET Calls]
    /\ receipt \in [Calls -> {"none", "success", "reverted"}]
    /\ resets \in 0..MaxResets
    /\ since \in [Calls -> 0..MaxResets]
    /\ \A c \in Calls : pc[c] = "verify" => receipt[c] = "success"

Genesis == [funds |-> 0, factory |-> FALSE, code |-> {}]
NoTransactions == [fund |-> 0, factory |-> FALSE, deploy |-> {}]

Init ==
    /\ factoryDeployed = [f \in Clients |-> FALSE]
    /\ pc = [c \in Calls |-> "idle"]
    /\ answer = [c \in Calls |-> "none"]
    /\ chain = Genesis
    /\ mempool = NoTransactions
    /\ receipt = [c \in Calls |-> "none"]
    /\ resets = 0
    /\ since = [c \in Calls |-> 0]

-----------------------------------------------------------------------------
\* Counting up to the bound.
OneMore(n) == IF n < MaxFunds THEN n + 1 ELSE n

Goto(c, step) == pc' = [pc EXCEPT ![c] = step]

\* A call that has been told what is at an address goes on.
Told(c, step) == Goto(c, step) /\ answer' = [answer EXCEPT ![c] = "none"]

\* getCode, of the factory's address unless the flag is up, or of the contract's: the
\* node looks now, and what it saw may be past when the call goes on.
GetCode(c) ==
    /\ answer[c] = "none"
    /\ \/ pc[c] \in {"check", "verify"}
       \/ pc[c] \in {"isDeployed", "recheck"} /\ ~factoryDeployed[ClientOf[c]]
    /\ LET there == IF pc[c] \in {"check", "verify"} THEN Contract[c] \in chain.code
                    ELSE chain.factory
       IN  answer' = [answer EXCEPT ![c] = IF there THEN "code" ELSE "empty"]
    /\ UNCHANGED <<factoryDeployed, pc, chain, mempool, receipt, resets, since>>

\* _isFactoryDeployed: the flag, or the chain's answer, of which TRUE is kept.
IsFactoryDeployed(c, yes, no) ==
    LET flag == factoryDeployed[ClientOf[c]]
    IN  /\ flag \/ answer[c] # "none"
        /\ Told(c, IF flag \/ answer[c] = "code" THEN yes ELSE no)
        /\ factoryDeployed' = [factoryDeployed EXCEPT
                                  ![ClientOf[c]] = @ \/ answer[c] = "code"]
        /\ UNCHANGED <<chain, mempool, receipt, resets, since>>

\* deploy is called, also again after it threw.
Deploy(c) ==
    /\ pc[c] \in {"idle", "threw"}
    /\ Goto(c, "isDeployed")
    /\ receipt' = [receipt EXCEPT ![c] = "none"]
    /\ since' = [since EXCEPT ![c] = resets]
    /\ UNCHANGED <<factoryDeployed, answer, chain, mempool, resets>>

DeployFactory(c) ==
    /\ pc[c] = "isDeployed"
    /\ IsFactoryDeployed(c, "check", "fund")

\* The node has the transaction that funds the deployer; nobody waits for it.
FundDeployer(c) ==
    /\ pc[c] = "fund"
    /\ mempool' = [mempool EXCEPT !.fund = OneMore(@)]
    /\ Goto(c, "timeout")
    /\ UNCHANGED <<factoryDeployed, answer, chain, receipt, resets, since>>

\* 100 ms later.
Timeout(c) ==
    /\ pc[c] = "timeout"
    /\ Goto(c, "sendFactory")
    /\ UNCHANGED <<factoryDeployed, answer, chain, mempool, receipt, resets, since>>

\* factoryTx has the deployer's first nonce and costs all of the fee: the node
\* refuses it if it has it already, has mined it, or sees no fee.
SendFactoryTx(c) ==
    /\ pc[c] = "sendFactory"
    /\ IF ~mempool.factory /\ ~chain.factory /\ chain.funds > 0
       THEN mempool' = [mempool EXCEPT !.factory = TRUE] /\ Goto(c, "waitFactory")
       ELSE Goto(c, "threw") /\ UNCHANGED mempool
    /\ UNCHANGED <<factoryDeployed, answer, chain, receipt, resets, since>>

\* The call goes on as soon as the node has the transaction.
FactoryMined_NoWait(c) ==
    /\ pc[c] = "waitFactory"
    /\ Goto(c, "check")
    /\ UNCHANGED <<factoryDeployed, answer, chain, mempool, receipt, resets, since>>

FactoryMined(c) ==
    /\ pc[c] = "waitFactory" /\ ~mempool.factory
    /\ Goto(c, "recheck")
    /\ UNCHANGED <<factoryDeployed, answer, chain, mempool, receipt, resets, since>>

Recheck(c) ==
    /\ pc[c] = "recheck"
    /\ IsFactoryDeployed(c, "check", "threw")

\* No look at the address before deploying.
CheckAddress_Skips(c) ==
    /\ pc[c] = "check"
    /\ Told(c, IF c \in Estimated THEN "estimate" ELSE "sendDeploy")
    /\ UNCHANGED <<factoryDeployed, chain, mempool, receipt, resets, since>>

CheckAddress(c) ==
    /\ pc[c] = "check" /\ answer[c] # "none"
    /\ Told(c, IF answer[c] = "code" THEN "returned"
               ELSE IF c \in Estimated THEN "estimate" ELSE "sendDeploy")
    /\ UNCHANGED <<factoryDeployed, chain, mempool, receipt, resets, since>>

\* estimateGas throws where the transaction would revert.
EstimateGas(c) ==
    /\ pc[c] = "estimate"
    /\ Goto(c, IF chain.factory /\ Contract[c] \in chain.code THEN "threw" ELSE "sendDeploy")
    /\ UNCHANGED <<factoryDeployed, answer, chain, mempool, receipt, resets, since>>

\* The receipt is not waited for.
SendDeployTx_NoWait(c) ==
    /\ pc[c] = "sendDeploy"
    /\ mempool' = [mempool EXCEPT !.deploy = @ \cup {c}]
    /\ Goto(c, "verify")
    /\ UNCHANGED <<factoryDeployed, answer, chain, receipt, resets, since>>

SendDeployTx(c) ==
    /\ pc[c] = "sendDeploy"
    /\ mempool' = [mempool EXCEPT !.deploy = @ \cup {c}]
    /\ Goto(c, "waitDeploy")
    /\ UNCHANGED <<factoryDeployed, answer, chain, receipt, resets, since>>

\* wait() throws for a transaction that reverted.
DeployMined(c) ==
    /\ pc[c] = "waitDeploy" /\ receipt[c] # "none"
    /\ Goto(c, IF receipt[c] = "success" THEN "verify" ELSE "threw")
    /\ UNCHANGED <<factoryDeployed, answer, chain, mempool, receipt, resets, since>>

\* A transaction that did not revert is taken for a contract that exists.
Verify_Trusts(c) ==
    /\ pc[c] = "verify" /\ answer[c] # "none"
    /\ Told(c, "returned")
    /\ UNCHANGED <<factoryDeployed, chain, mempool, receipt, resets, since>>

Verify(c) ==
    /\ pc[c] = "verify" /\ answer[c] # "none"
    /\ Told(c, IF answer[c] = "code" THEN "returned" ELSE "threw")
    /\ UNCHANGED <<factoryDeployed, chain, mempool, receipt, resets, since>>

-----------------------------------------------------------------------------
(***************************************************************************)
(* The chain.                                                              *)
(***************************************************************************)
MineFund ==
    /\ mempool.fund > 0
    /\ mempool' = [mempool EXCEPT !.fund = @ - 1]
    /\ chain' = [chain EXCEPT !.funds = OneMore(@)]
    /\ UNCHANGED <<factoryDeployed, pc, answer, receipt, resets, since>>

MineFactory ==
    /\ mempool.factory
    /\ mempool' = [mempool EXCEPT !.factory = FALSE]
    /\ chain' = [chain EXCEPT !.funds = @ - 1, !.factory = TRUE]
    /\ UNCHANGED <<factoryDeployed, pc, answer, receipt, resets, since>>

\* Gas that is enough for the contract: estimated, or as much as its size suggests.
EnoughGas(c) == c \in Estimated \/ Contract[c] \notin Heavy

\* Without a factory at its address the transaction does nothing and succeeds.  The
\* factory reverts if the address is taken or the gas runs out.
MineDeploy(c) ==
    /\ c \in mempool.deploy
    /\ mempool' = [mempool EXCEPT !.deploy = @ \ {c}]
    /\ LET created == chain.factory /\ Contract[c] \notin chain.code /\ EnoughGas(c)
       IN  /\ chain' = IF created THEN [chain EXCEPT !.code = @ \cup {Contract[c]}] ELSE chain
           /\ receipt' = [receipt EXCEPT ![c] =
                             IF created \/ ~chain.factory THEN "success" ELSE "reverted"]
    /\ UNCHANGED <<factoryDeployed, pc, answer, resets, since>>

\* A test network goes back to a snapshot, or is restarted; the objects live on, and
\* calls that wait for a transaction get an error.
Reset ==
    /\ resets < MaxResets
    /\ resets' = resets + 1
    /\ chain' = Genesis
    /\ mempool' = NoTransactions
    /\ pc' = [c \in Calls |-> IF pc[c] \in {"waitFactory", "waitDeploy"} THEN "threw" ELSE pc[c]]
    /\ UNCHANGED <<factoryDeployed, answer, receipt, since>>

CallStep(c) ==
    \/ GetCode(c)
    \/ Deploy(c) \/ DeployFactory(c) \/ FundDeployer(c) \/ Timeout(c) \/ SendFactoryTx(c)
    \/ FactoryMined(c) \/ Recheck(c) \/ CheckAddress(c) \/ EstimateGas(c)
    \/ SendDeployTx(c) \/ DeployMined(c) \/ Verify(c)

Next ==
    \/ \E c \in Calls : CallStep(c) \/ MineDeploy(c)
    \/ MineFund \/ MineFactory
    \/ Reset

Spec == Init /\ [][Next]_vars

\* Nodes answer, transactions are mined, and whoever's call throws tries again.
FairSpec ==
    /\ Spec
    /\ \A c \in Calls : WF_vars(CallStep(c)) /\ WF_vars(MineDeploy(c))
    /\ WF_vars(MineFund) /\ WF_vars(MineFactory)

-----------------------------------------------------------------------------
(***************************************************************************)
(* Properties.                                                             *)
(***************************************************************************)

\* deployFactory: no transaction for the factory is on its way before the factory
\* exists, where it would succeed and do nothing, whoever else is deploying it.
FactoryComesFirst == resets = 0 /\ mempool.deploy # {} => chain.factory

\* deploy: a contract is at the address that was returned, unless the chain has lost
\* its state since deploy was called: although the node's answer is old when the call
\* goes on, though the flag may have outlived the factory, and though a transaction to
\* an address without a factory succeeds.
ReturnedIsDeployed ==
    \A c \in Calls : pc[c] = "returned" /\ since[c] = resets => Contract[c] \in chain.code

\* deploy: on a chain that keeps its state, several callers that need the same factory
\* and the same contracts at the same time all get their addresses, if those whose call
\* throws call again and their gas is enough.
RetriesSucceed ==
    [](resets = 0) => \A c \in Calls : EnoughGas(c) => <>(pc[c] = "returned")
=============================================================================
