--------------------------- MODULE ToolingProofs ----------------------------
(***************************************************************************)
(* Two tools of the library: the deployment of contracts at known          *)
(* addresses (Create2Factory), for any objects, calls and contracts, and   *)
(* the gas measurements (GasChecker), for any suite that begins with a row *)
(* without a hook.  They share no state; Spec is Create2Factory's, GasSpec *)
(* that of the suite.                                                      *)
(***************************************************************************)
EXTENDS Create2Factory, GasChecker, NaturalsInduction, FiniteSetTheorems, SequenceTheorems,
        TLAPS

(***************************************************************************)
(* Create2Factory.                                                         *)
(*                                                                         *)
(* As long as the chain keeps its state, whoever is past deployFactory has *)
(* seen the factory: the flag of his object is raised, or the chain's      *)
(* answer was yes.  The factory's transaction is accepted only when the    *)
(* deployer has its fee, and nothing else spends that.  An answer of the   *)
(* node may be old, but what it found stays there until the next reset; a  *)
(* call's transaction is on its way only while the call waits for it.      *)
(***************************************************************************)
PastDeployFactory == {"check", "estimate", "sendDeploy", "waitDeploy", "verify"}

FactorySeen ==
    resets = 0 =>
        /\ \A f \in Clients : factoryDeployed[f] => chain.factory
        /\ \A c \in Calls : pc[c] \in PastDeployFactory => chain.factory

FeeIsThere == mempool.factory => chain.funds > 0

AnswerOK(c) ==
    /\ since[c] <= resets
    /\ answer[c] = "code" /\ since[c] = resets =>
          /\ pc[c] \in {"isDeployed", "recheck"} => chain.factory
          /\ pc[c] \in {"check", "verify"} => Contract[c] \in chain.code
    /\ pc[c] = "returned" /\ since[c] = resets => Contract[c] \in chain.code

\* An answer is there only while the call that asked has not gone on.
Asking == {"isDeployed", "recheck", "check", "verify"}

CallOK(c) ==
    /\ answer[c] # "none" => pc[c] \in Asking
    /\ pc[c] \notin {"waitDeploy", "verify", "returned", "threw"} => receipt[c] = "none"
    /\ c \in mempool.deploy => pc[c] = "waitDeploy" /\ receipt[c] = "none"

CallsOK == \A c \in Calls : AnswerOK(c) /\ CallOK(c)

Create2Inv == Create2TypeOK /\ FactorySeen /\ FeeIsThere /\ FactoryComesFirst /\ CallsOK

-----------------------------------------------------------------------------
LEMMA Create2Init == Init => Create2Inv
<1> SUFFICES ASSUME Init PROVE Create2Inv
  OBVIOUS
<1>1. Create2TypeOK
  BY Create2Assumption DEF Init, Create2TypeOK, Genesis, NoTransactions, Step
<1>2. FactorySeen /\ FeeIsThere /\ FactoryComesFirst
  BY DEF Init, FactorySeen, FeeIsThere, FactoryComesFirst, NoTransactions, PastDeployFactory
<1>3. CallsOK
  BY DEF Init, CallsOK, AnswerOK, CallOK, NoTransactions
<1> QED
  BY <1>1, <1>2, <1>3 DEF Create2Inv

\* A step of one call leaves what is known of the others alone, as long as the chain keeps
\* what it has and no other call's transaction is touched.
LEMMA OthersKept ==
    ASSUME Create2Inv, NEW c \in Calls, AnswerOK(c)', CallOK(c)',
           \A d \in Calls \ {c} :
               /\ pc'[d] = pc[d] /\ answer'[d] = answer[d] /\ receipt'[d] = receipt[d]
               /\ since'[d] = since[d]
               /\ d \in mempool'.deploy => d \in mempool.deploy,
           resets' = resets, chain.factory => chain'.factory, chain.code \subseteq chain'.code
    PROVE  CallsOK'
<1> SUFFICES ASSUME NEW d \in Calls \ {c} PROVE AnswerOK(d)' /\ CallOK(d)'
  BY DEF CallsOK
<1>1. AnswerOK(d) /\ CallOK(d)
  BY DEF Create2Inv, CallsOK
<1>2. AnswerOK(d)'
  BY <1>1 DEF AnswerOK
<1>3. CallOK(d)'
  BY <1>1 DEF CallOK
<1> QED
  BY <1>2, <1>3

\* A step of a call that only moves the call on.
LEMMA Moves ==
    ASSUME Create2Inv, NEW c \in Calls, NEW step \in Step, Goto(c, step),
           step \in PastDeployFactory /\ resets = 0 => chain.factory,
           UNCHANGED <<factoryDeployed, chain, mempool, resets>>,
           answer' = [answer EXCEPT ![c] = "none"],
           \/ UNCHANGED <<receipt, since>>
           \/ /\ step = "isDeployed"
              /\ receipt' = [receipt EXCEPT ![c] = "none"]
              /\ since' = [since EXCEPT ![c] = resets],
           c \notin mempool.deploy,
           step = "verify" => receipt[c] = "success" /\ UNCHANGED receipt,
           step \notin {"waitDeploy", "verify", "returned", "threw"} => receipt'[c] = "none",
           step = "returned" /\ since[c] = resets => Contract[c] \in chain.code
    PROVE  Create2Inv'
<1>1. /\ pc \in [Calls -> Step] /\ answer \in [Calls -> {"none", "empty", "code"}]
      /\ receipt \in [Calls -> {"none", "success", "reverted"}]
      /\ since \in [Calls -> 0..MaxResets] /\ resets \in 0..MaxResets
      /\ \A d \in Calls : pc[d] = "verify" => receipt[d] = "success"
  BY DEF Create2Inv, Create2TypeOK
<1>2. /\ pc' = [pc EXCEPT ![c] = step]
      /\ answer' \in [Calls -> {"none", "empty", "code"}]
      /\ receipt' \in [Calls -> {"none", "success", "reverted"}]
      /\ since' \in [Calls -> 0..MaxResets]
  BY <1>1 DEF Goto
<1>3. \A d \in Calls : pc'[d] = "verify" => receipt'[d] = "success"
  BY <1>1, <1>2
<1>4. Create2TypeOK'
  BY <1>1, <1>2, <1>3 DEF Create2Inv, Create2TypeOK
<1>5. FactorySeen'
  BY <1>1, <1>2 DEF Create2Inv, FactorySeen
<1>6. FeeIsThere' /\ FactoryComesFirst'
  BY DEF Create2Inv, FeeIsThere, FactoryComesFirst
<1>7. AnswerOK(c) /\ since[c] <= resets
  BY DEF Create2Inv, CallsOK, AnswerOK
<1>8. AnswerOK(c)'
  <2>1. answer'[c] = "none" /\ pc'[c] = step /\ (since'[c] = since[c] \/ since'[c] = resets)
    BY <1>1, <1>2
  <2>2. since'[c] <= resets
    BY <1>1, <1>7, <2>1
  <2>3. step = "returned" /\ since'[c] = resets => Contract[c] \in chain.code
    BY <1>1
  <2> QED
    BY <2>1, <2>2, <2>3 DEF AnswerOK
<1>9. CallOK(c)'
  BY <1>1, <1>2 DEF CallOK
<1>10. CallsOK'
  BY <1>1, <1>2, <1>8, <1>9, OthersKept
<1> QED
  BY <1>4, <1>5, <1>6, <1>10 DEF Create2Inv

\* A call that asks nothing has no answer.
LEMMA NotAsking ==
    ASSUME Create2Inv, NEW c \in Calls, pc[c] \notin Asking
    PROVE  answer = [answer EXCEPT ![c] = "none"]
<1>1. answer[c] = "none" /\ answer \in [Calls -> {"none", "empty", "code"}]
  BY DEF Create2Inv, Create2TypeOK, CallsOK, CallOK
<1> QED
  BY <1>1

LEMMA FactoryAnswer ==
    ASSUME Create2Inv, NEW c \in Calls, NEW no \in {"fund", "threw"},
           pc[c] \in {"isDeployed", "recheck"}, IsFactoryDeployed(c, "check", no)
    PROVE  Create2Inv'
<1> DEFINE client == ClientOf[c]
           yes == factoryDeployed[client] \/ answer[c] = "code"
           next == IF yes THEN "check" ELSE no
<1>1. client \in Clients /\ next \in Step /\ next \notin Asking \ {"check"}
      /\ next \notin {"waitDeploy", "verify", "returned"}
      /\ (next \in PastDeployFactory => yes)
  BY Create2Assumption DEF Step, Asking, PastDeployFactory
<1>2. /\ pc' = [pc EXCEPT ![c] = next]
      /\ answer' = [answer EXCEPT ![c] = "none"]
      /\ factoryDeployed' = [factoryDeployed EXCEPT
                                ![client] = factoryDeployed[client] \/ answer[c] = "code"]
      /\ UNCHANGED <<chain, mempool, receipt, resets, since>>
  BY DEF IsFactoryDeployed, Told, Goto
<1>3. /\ pc \in [Calls -> Step] /\ factoryDeployed \in [Clients -> BOOLEAN]
      /\ answer \in [Calls -> {"none", "empty", "code"}]
      /\ \A d \in Calls : pc[d] = "verify" => receipt[d] = "success"
  BY DEF Create2Inv, Create2TypeOK
<1>4. yes /\ resets = 0 => chain.factory
  <2>1. since[c] \in 0..MaxResets /\ since[c] <= resets
    BY DEF Create2Inv, Create2TypeOK, CallsOK, AnswerOK
  <2>2. resets = 0 => since[c] = resets
    BY <2>1
  <2>3. answer[c] = "code" /\ resets = 0 => chain.factory
    BY <2>2 DEF Create2Inv, CallsOK, AnswerOK
  <2>4. factoryDeployed[client] /\ resets = 0 => chain.factory
    BY <1>1 DEF Create2Inv, FactorySeen
  <2> QED
    BY <2>3, <2>4
<1>12. \A f \in Clients : factoryDeployed'[f] => factoryDeployed[f] \/ yes
  BY <1>1, <1>2, <1>3
<1>5. factoryDeployed' \in [Clients -> BOOLEAN]
  BY <1>1, <1>2, <1>3
<1> HIDE DEF yes, next, client
<1>6. Create2TypeOK'
  <2>1. pc' \in [Calls -> Step] /\ answer' \in [Calls -> {"none", "empty", "code"}]
    BY <1>1, <1>2, <1>3
  <2>2. \A d \in Calls : pc'[d] = "verify" => receipt'[d] = "success"
    BY <1>1, <1>2, <1>3
  <2> QED
    BY <1>2, <1>5, <2>1, <2>2 DEF Create2Inv, Create2TypeOK
<1>7. FactorySeen'
  <2> SUFFICES ASSUME resets' = 0
               PROVE  /\ \A f \in Clients : factoryDeployed'[f] => chain'.factory
                      /\ \A d \in Calls : pc'[d] \in PastDeployFactory => chain'.factory
    BY DEF FactorySeen
  <2>1. /\ \A f \in Clients : factoryDeployed[f] => chain.factory
        /\ \A d \in Calls : pc[d] \in PastDeployFactory => chain.factory
    BY <1>2 DEF Create2Inv, FactorySeen
  <2>2. ASSUME NEW f \in Clients, factoryDeployed'[f] PROVE chain'.factory
    BY <1>2, <1>4, <1>12, <2>1, <2>2
  <2>3. ASSUME NEW d \in Calls, pc'[d] \in PastDeployFactory PROVE chain'.factory
    BY <1>1, <1>2, <1>3, <1>4, <2>1, <2>3
  <2> QED
    BY <2>2, <2>3
<1>8. FeeIsThere' /\ FactoryComesFirst'
  BY <1>2 DEF Create2Inv, FeeIsThere, FactoryComesFirst
<1>9. AnswerOK(c) /\ CallOK(c)
  BY DEF Create2Inv, CallsOK
<1>10. AnswerOK(c)'
  BY <1>1, <1>2, <1>3, <1>9 DEF AnswerOK
<1>11. CallOK(c)'
  BY <1>1, <1>2, <1>3, <1>9 DEF CallOK
<1>13. CallsOK'
  BY <1>2, <1>3, <1>10, <1>11, OthersKept
<1> QED
  BY <1>6, <1>7, <1>8, <1>13 DEF Create2Inv

LEMMA GetCodeStep ==
    ASSUME Create2Inv, NEW c \in Calls, GetCode(c)
    PROVE  Create2Inv'
<1>1. /\ UNCHANGED <<factoryDeployed, pc, chain, mempool, receipt, resets, since>>
      /\ pc[c] \in Asking /\ answer[c] = "none"
  BY DEF GetCode, Asking
<1>2. answer' \in [Calls -> {"none", "empty", "code"}]
      /\ \A d \in Calls \ {c} : answer'[d] = answer[d]
  BY DEF GetCode, Create2Inv, Create2TypeOK
<1>3. answer'[c] = "code" =>
         /\ pc[c] \in {"isDeployed", "recheck"} => chain.factory
         /\ pc[c] \in {"check", "verify"} => Contract[c] \in chain.code
  BY DEF GetCode, Create2Inv, Create2TypeOK
<1>4. Create2TypeOK' /\ FactorySeen' /\ FeeIsThere' /\ FactoryComesFirst'
  BY <1>1, <1>2 DEF Create2Inv, Create2TypeOK, FactorySeen, FeeIsThere, FactoryComesFirst
<1>5. AnswerOK(c)' /\ CallOK(c)'
  BY <1>1, <1>3 DEF Create2Inv, CallsOK, AnswerOK, CallOK
<1>6. CallsOK'
  BY <1>1, <1>2, <1>5, OthersKept
<1> QED
  BY <1>4, <1>6 DEF Create2Inv

\* The transactions a call sends.
LEMMA FundDeployerStep ==
    ASSUME Create2Inv, NEW c \in Calls, FundDeployer(c)
    PROVE  Create2Inv'
<1>1. mempool'.fund \in 0..MaxFunds /\ mempool'.factory = mempool.factory
      /\ mempool'.deploy = mempool.deploy
      /\ mempool' \in [fund : 0..MaxFunds, factory : BOOLEAN, deploy : SUBSET Calls]
  BY Create2Assumption DEF FundDeployer, OneMore, Create2Inv, Create2TypeOK
<1>2. /\ pc[c] = "fund" /\ pc' = [pc EXCEPT ![c] = "timeout"] /\ pc \in [Calls -> Step]
      /\ UNCHANGED <<factoryDeployed, answer, chain, receipt, resets, since>>
  BY DEF FundDeployer, Goto, Create2Inv, Create2TypeOK
<1>3. Create2TypeOK'
  BY <1>1, <1>2 DEF Create2Inv, Create2TypeOK, Step
<1>4. FactorySeen'
  BY <1>2 DEF Create2Inv, FactorySeen, PastDeployFactory
<1>5. FeeIsThere' /\ FactoryComesFirst'
  BY <1>1, <1>2 DEF Create2Inv, FeeIsThere, FactoryComesFirst
<1>6. AnswerOK(c)' /\ CallOK(c)'
  BY <1>1, <1>2 DEF Create2Inv, CallsOK, AnswerOK, CallOK, Asking
<1>7. CallsOK'
  BY <1>1, <1>2, <1>6, OthersKept
<1> QED
  BY <1>3, <1>4, <1>5, <1>7 DEF Create2Inv

LEMMA SendFactoryTxStep ==
    ASSUME Create2Inv, NEW c \in Calls, SendFactoryTx(c)
    PROVE  Create2Inv'
<1>1. CASE ~mempool.factory /\ ~chain.factory /\ chain.funds > 0
  <2>1. /\ mempool' = [mempool EXCEPT !.factory = TRUE] /\ pc' = [pc EXCEPT ![c] = "waitFactory"]
        /\ pc[c] = "sendFactory" /\ pc \in [Calls -> Step]
        /\ UNCHANGED <<factoryDeployed, answer, chain, receipt, resets, since>>
    BY <1>1 DEF SendFactoryTx, Goto, Create2Inv, Create2TypeOK
  <2>2. /\ mempool' \in [fund : 0..MaxFunds, factory : BOOLEAN, deploy : SUBSET Calls]
        /\ mempool'.deploy = mempool.deploy
    BY <2>1 DEF Create2Inv, Create2TypeOK
  <2>3. Create2TypeOK'
    BY <2>1, <2>2 DEF Create2Inv, Create2TypeOK, Step
  <2>4. FactorySeen'
    BY <2>1 DEF Create2Inv, FactorySeen, PastDeployFactory
  <2>5. FeeIsThere' /\ FactoryComesFirst'
    BY <1>1, <2>1, <2>2 DEF Create2Inv, FeeIsThere, FactoryComesFirst
  <2>6. AnswerOK(c)' /\ CallOK(c)'
    BY <2>1, <2>2 DEF Create2Inv, CallsOK, AnswerOK, CallOK, Asking
  <2>7. CallsOK'
    BY <2>1, <2>2, <2>6, OthersKept
  <2> QED
    BY <2>3, <2>4, <2>5, <2>7 DEF Create2Inv
<1>2. CASE ~(~mempool.factory /\ ~chain.factory /\ chain.funds > 0)
  <2>1. /\ Goto(c, "threw") /\ pc[c] = "sendFactory"
        /\ UNCHANGED <<factoryDeployed, answer, chain, mempool, receipt, resets, since>>
    BY <1>2 DEF SendFactoryTx
  <2>2. "threw" \in Step /\ "threw" \notin PastDeployFactory
    BY DEF Step, PastDeployFactory
  <2>3. c \notin mempool.deploy
    BY <2>1 DEF Create2Inv, CallsOK, CallOK
  <2>4. answer' = [answer EXCEPT ![c] = "none"]
    BY <2>1, NotAsking DEF Asking
  <2> QED
    BY <2>1, <2>2, <2>3, <2>4, Moves
<1> QED
  BY <1>1, <1>2

LEMMA SendDeployTxStep ==
    ASSUME Create2Inv, NEW c \in Calls, SendDeployTx(c)
    PROVE  Create2Inv'
<1>1. /\ mempool'.deploy = mempool.deploy \cup {c} /\ mempool'.factory = mempool.factory
      /\ mempool' \in [fund : 0..MaxFunds, factory : BOOLEAN, deploy : SUBSET Calls]
  BY DEF SendDeployTx, Create2Inv, Create2TypeOK
<1>2. /\ pc[c] = "sendDeploy" /\ pc' = [pc EXCEPT ![c] = "waitDeploy"] /\ pc \in [Calls -> Step]
      /\ UNCHANGED <<factoryDeployed, answer, chain, receipt, resets, since>>
  BY DEF SendDeployTx, Goto, Create2Inv, Create2TypeOK
<1>3. resets = 0 => chain.factory
  BY <1>2 DEF Create2Inv, FactorySeen, PastDeployFactory
<1>4. Create2TypeOK'
  BY <1>1, <1>2 DEF Create2Inv, Create2TypeOK, Step
<1>5. FactorySeen'
  BY <1>2, <1>3 DEF Create2Inv, FactorySeen
<1>6. FeeIsThere' /\ FactoryComesFirst'
  BY <1>1, <1>2, <1>3 DEF Create2Inv, FeeIsThere, FactoryComesFirst
<1>7. AnswerOK(c)' /\ CallOK(c)'
  BY <1>1, <1>2 DEF Create2Inv, CallsOK, AnswerOK, CallOK, Asking
<1>8. CallsOK'
  BY <1>1, <1>2, <1>7, OthersKept
<1> QED
  BY <1>4, <1>5, <1>6, <1>8 DEF Create2Inv

LEMMA CallStepKeeps ==
    ASSUME Create2Inv, NEW c \in Calls, CallStep(c)
    PROVE  Create2Inv'
<1>1. /\ receipt \in [Calls -> {"none", "success", "reverted"}]
      /\ receipt[c] \in {"none", "success", "reverted"}
  BY DEF Create2Inv, Create2TypeOK
<1>2. pc[c] \in PastDeployFactory /\ resets = 0 => chain.factory
  BY DEF Create2Inv, FactorySeen
<1>3. CallOK(c) /\ AnswerOK(c)
  BY DEF Create2Inv, CallsOK
<1>4. pc[c] # "waitDeploy" \/ receipt[c] # "none" => c \notin mempool.deploy
  BY <1>3 DEF CallOK
<1>5. pc[c] \notin {"waitDeploy", "verify", "returned", "threw"} => receipt[c] = "none"
  BY <1>3 DEF CallOK
<1>6. CASE GetCode(c)
  BY <1>6, GetCodeStep
<1>7. CASE Deploy(c)
  BY <1>1, <1>4, <1>7, NotAsking, Moves DEF Deploy, Step, PastDeployFactory, Asking
<1>8. CASE DeployFactory(c)
  BY <1>8, FactoryAnswer DEF DeployFactory
<1>9. CASE FundDeployer(c)
  BY <1>9, FundDeployerStep
<1>10. CASE Timeout(c)
  BY <1>4, <1>5, <1>10, NotAsking, Moves DEF Timeout, Step, PastDeployFactory, Asking
<1>11. CASE SendFactoryTx(c)
  BY <1>11, SendFactoryTxStep
<1>12. CASE FactoryMined(c)
  BY <1>4, <1>5, <1>12, NotAsking, Moves DEF FactoryMined, Step, PastDeployFactory, Asking
<1>13. CASE Recheck(c)
  BY <1>13, FactoryAnswer DEF Recheck
<1>14. CASE CheckAddress(c)
  <2>1. answer[c] = "code" /\ since[c] = resets => Contract[c] \in chain.code
    BY <1>3, <1>14 DEF AnswerOK, CheckAddress
  <2>2. /\ pc[c] = "check" /\ answer' = [answer EXCEPT ![c] = "none"]
        /\ UNCHANGED <<factoryDeployed, chain, mempool, receipt, resets, since>>
        /\ \/ answer[c] = "code" /\ Goto(c, "returned")
           \/ Goto(c, "estimate")
           \/ Goto(c, "sendDeploy")
    BY <1>14 DEF CheckAddress, Told
  <2> QED
    BY <1>2, <1>4, <1>5, <2>1, <2>2, Moves DEF Step, PastDeployFactory
<1>15. CASE EstimateGas(c)
  BY <1>2, <1>4, <1>5, <1>15, NotAsking, Moves DEF EstimateGas, Step, PastDeployFactory, Asking
<1>16. CASE SendDeployTx(c)
  BY <1>16, SendDeployTxStep
<1>17. CASE DeployMined(c)
  BY <1>2, <1>4, <1>17, NotAsking, Moves DEF DeployMined, Step, PastDeployFactory, Asking
<1>18. CASE Verify(c)
  <2>1. answer[c] = "code" /\ since[c] = resets => Contract[c] \in chain.code
    BY <1>3, <1>18 DEF AnswerOK, Verify
  <2>2. /\ pc[c] = "verify" /\ answer' = [answer EXCEPT ![c] = "none"]
        /\ UNCHANGED <<factoryDeployed, chain, mempool, receipt, resets, since>>
        /\ \/ answer[c] = "code" /\ Goto(c, "returned")
           \/ Goto(c, "threw")
    BY <1>18 DEF Verify, Told
  <2> QED
    BY <1>2, <1>4, <2>1, <2>2, Moves DEF Step, PastDeployFactory
<1> QED
  BY <1>6, <1>7, <1>8, <1>9, <1>10, <1>11, <1>12, <1>13, <1>14, <1>15, <1>16, <1>17, <1>18
     DEF CallStep

-----------------------------------------------------------------------------
(***************************************************************************)
(* The chain.                                                              *)
(***************************************************************************)
LEMMA MineDeployStep ==
    ASSUME Create2Inv, NEW c \in Calls, MineDeploy(c)
    PROVE  Create2Inv'
<1>1. /\ mempool' \in [fund : 0..MaxFunds, factory : BOOLEAN, deploy : SUBSET Calls]
      /\ mempool'.factory = mempool.factory /\ mempool'.deploy = mempool.deploy \ {c}
  BY DEF MineDeploy, Create2Inv, Create2TypeOK
<1>2. /\ chain' \in [funds : 0..MaxFunds, factory : BOOLEAN, code : SUBSET Address]
      /\ chain'.factory = chain.factory /\ chain'.funds = chain.funds
      /\ chain.code \subseteq chain'.code
  <2>1. Contract[c] \in Address
    BY DEF Address
  <2>2. chain' = chain \/ chain' = [chain EXCEPT !.code = @ \cup {Contract[c]}]
    BY DEF MineDeploy
  <2> QED
    BY <2>1, <2>2 DEF Create2Inv, Create2TypeOK
<1>3. receipt' \in [Calls -> {"none", "success", "reverted"}]
      /\ \A d \in Calls \ {c} : receipt'[d] = receipt[d]
  BY DEF MineDeploy, Create2Inv, Create2TypeOK
<1>4. UNCHANGED <<factoryDeployed, pc, answer, resets, since>>
  BY DEF MineDeploy
<1>5. pc[c] = "waitDeploy" /\ AnswerOK(c) /\ CallOK(c)
  BY DEF MineDeploy, Create2Inv, CallsOK, CallOK
<1>6. Create2TypeOK'
  BY <1>1, <1>2, <1>3, <1>4, <1>5 DEF Create2Inv, Create2TypeOK
<1>7. FactorySeen' /\ FeeIsThere' /\ FactoryComesFirst'
  BY <1>1, <1>2, <1>4 DEF Create2Inv, FactorySeen, FeeIsThere, FactoryComesFirst
<1>8. AnswerOK(c)' /\ CallOK(c)'
  BY <1>1, <1>4, <1>5 DEF AnswerOK, CallOK, Asking
<1>9. CallsOK'
  BY <1>1, <1>2, <1>3, <1>4, <1>8, OthersKept
<1> QED
  BY <1>6, <1>7, <1>9 DEF Create2Inv

LEMMA MineFundStep ==
    ASSUME Create2Inv, MineFund
    PROVE  Create2Inv'
<1>1. /\ mempool.fund \in 0..MaxFunds /\ chain.funds \in 0..MaxFunds /\ MaxFunds \in Nat
  BY Create2Assumption DEF Create2Inv, Create2TypeOK
<1>2. mempool.fund - 1 \in 0..MaxFunds /\ OneMore(chain.funds) \in 0..MaxFunds
      /\ OneMore(chain.funds) >= chain.funds
  BY <1>1 DEF MineFund, OneMore
<1>3. /\ mempool' \in [fund : 0..MaxFunds, factory : BOOLEAN, deploy : SUBSET Calls]
      /\ mempool'.factory = mempool.factory /\ mempool'.deploy = mempool.deploy
  BY <1>2 DEF MineFund, Create2Inv, Create2TypeOK
<1>4. /\ chain' \in [funds : 0..MaxFunds, factory : BOOLEAN, code : SUBSET Address]
      /\ chain'.factory = chain.factory /\ chain'.funds = OneMore(chain.funds)
      /\ chain'.code = chain.code
  BY <1>2 DEF MineFund, Create2Inv, Create2TypeOK
<1>5. UNCHANGED <<factoryDeployed, pc, answer, receipt, resets, since>>
  BY DEF MineFund
<1>6. Create2TypeOK'
  BY <1>3, <1>4, <1>5 DEF Create2Inv, Create2TypeOK
<1>7. FeeIsThere'
  BY <1>1, <1>2, <1>3, <1>4 DEF Create2Inv, FeeIsThere
<1>8. FactorySeen' /\ FactoryComesFirst' /\ CallsOK'
  BY <1>3, <1>4, <1>5
     DEF Create2Inv, FactorySeen, FactoryComesFirst, CallsOK, AnswerOK, CallOK
<1> QED
  BY <1>6, <1>7, <1>8 DEF Create2Inv

LEMMA MineFactoryStep ==
    ASSUME Create2Inv, MineFactory
    PROVE  Create2Inv'
<1>1. chain.funds \in 0..MaxFunds /\ MaxFunds \in Nat /\ chain.funds > 0
  BY Create2Assumption DEF MineFactory, Create2Inv, Create2TypeOK, FeeIsThere
<1>2. chain.funds - 1 \in 0..MaxFunds
  BY <1>1
<1>3. /\ mempool' \in [fund : 0..MaxFunds, factory : BOOLEAN, deploy : SUBSET Calls]
      /\ ~mempool'.factory /\ mempool'.deploy = mempool.deploy
  BY DEF MineFactory, Create2Inv, Create2TypeOK
<1>4. /\ chain' \in [funds : 0..MaxFunds, factory : BOOLEAN, code : SUBSET Address]
      /\ chain'.factory /\ chain'.code = chain.code
  BY <1>2 DEF MineFactory, Create2Inv, Create2TypeOK
<1>5. UNCHANGED <<factoryDeployed, pc, answer, receipt, resets, since>>
  BY DEF MineFactory
<1>6. Create2TypeOK'
  BY <1>3, <1>4, <1>5 DEF Create2Inv, Create2TypeOK
<1>7. FactorySeen' /\ FeeIsThere' /\ FactoryComesFirst'
  BY <1>3, <1>4 DEF FactorySeen, FeeIsThere, FactoryComesFirst
<1>8. CallsOK'
  BY <1>3, <1>4, <1>5 DEF Create2Inv, CallsOK, AnswerOK, CallOK
<1> QED
  BY <1>6, <1>7, <1>8 DEF Create2Inv

LEMMA ResetStep ==
    ASSUME Create2Inv, Reset
    PROVE  Create2Inv'
<1>1. resets' \in 0..MaxResets /\ resets' = resets + 1 /\ resets \in Nat /\ resets' # 0
  BY Create2Assumption DEF Reset, Create2Inv, Create2TypeOK
<1>2. /\ pc' \in [Calls -> Step]
      /\ \A c \in Calls : pc'[c] = pc[c] \/ (pc'[c] = "threw" /\ pc[c] \notin Asking)
      /\ UNCHANGED <<factoryDeployed, answer, receipt, since>>
  BY DEF Reset, Create2Inv, Create2TypeOK, Step, Asking
<1>3. Create2TypeOK'
  BY <1>1, <1>2, Create2Assumption
     DEF Reset, Create2Inv, Create2TypeOK, Genesis, NoTransactions
<1>4. FactorySeen' /\ FeeIsThere' /\ FactoryComesFirst'
  BY <1>1 DEF Reset, FactorySeen, FeeIsThere, FactoryComesFirst, NoTransactions
<1>5. ASSUME NEW c \in Calls PROVE AnswerOK(c)' /\ CallOK(c)'
  <2>1. since[c] \in 0..MaxResets /\ AnswerOK(c) /\ CallOK(c)
    BY DEF Create2Inv, Create2TypeOK, CallsOK
  <2>2. since'[c] <= resets' /\ since'[c] # resets'
    BY <1>1, <1>2, <2>1, Create2Assumption DEF AnswerOK
  <2>3. AnswerOK(c)'
    BY <2>2 DEF AnswerOK
  <2>4. mempool'.deploy = {}
    BY DEF Reset, NoTransactions
  <2> QED
    BY <1>2, <2>1, <2>3, <2>4 DEF CallOK
<1> QED
  BY <1>3, <1>4, <1>5 DEF Create2Inv, CallsOK

LEMMA Create2Next == Create2Inv /\ [Next]_vars => Create2Inv'
<1> SUFFICES ASSUME Create2Inv, [Next]_vars PROVE Create2Inv'
  OBVIOUS
<1>1. CASE \E c \in Calls : CallStep(c)
  BY <1>1, CallStepKeeps
<1>2. CASE \E c \in Calls : MineDeploy(c)
  BY <1>2, MineDeployStep
<1>3. CASE MineFund
  BY <1>3, MineFundStep
<1>4. CASE MineFactory
  BY <1>4, MineFactoryStep
<1>5. CASE Reset
  BY <1>5, ResetStep
<1>6. CASE UNCHANGED vars
  BY <1>6 DEF vars, Create2Inv, Create2TypeOK, FactorySeen, FeeIsThere, FactoryComesFirst,
              CallsOK, AnswerOK, CallOK
<1> QED
  BY <1>1, <1>2, <1>3, <1>4, <1>5, <1>6 DEF Next

LEMMA AlwaysCreate2Inv == Spec => []Create2Inv
  BY Create2Init, Create2Next, PTL DEF Spec

-----------------------------------------------------------------------------
\* Create2Factory: every call stays within the steps of deploy and deployFactory and looks
\* for its contract only after a transaction that did not revert, and the factory's
\* deployer never spends a fee it does not have.
THEOREM Create2Types == Spec => []Create2TypeOK
  BY AlwaysCreate2Inv, PTL DEF Create2Inv

\* deployFactory, deploy: on a chain that keeps its state no deployment is sent to the
\* factory's address before the factory is there, however the calls interleave.
THEOREM FactoryFirst == Spec => []FactoryComesFirst
  BY AlwaysCreate2Inv, PTL DEF Create2Inv

\* deploy: the address a call has returned has code, for as long as the chain keeps the
\* state it had when deploy was called: although the node's answers are old when they are
\* looked at, the object's flag may be of an earlier state of the chain, and a transaction
\* to an address without a factory succeeds.
THEOREM ReturnsDeployed == Spec => []ReturnedIsDeployed
<1>1. Create2Inv => ReturnedIsDeployed
  BY DEF Create2Inv, CallsOK, AnswerOK, ReturnedIsDeployed
<1> QED
  BY <1>1, AlwaysCreate2Inv, PTL

-----------------------------------------------------------------------------
(***************************************************************************)
(* The gas suite.                                                          *)
(*                                                                         *)
(* The table is replaced only by an initialisation, and none is under way  *)
(* once rows are added.  The lock of a file is taken while one of its      *)
(* workers fills.  On a chain that mines at once, and without faults,      *)
(* every account that a worker uses exists, so that its estimate is right. *)
(***************************************************************************)
RunOK ==
    /\ run.n >= 1
    /\ run.pc \in {"start", "init"} => run.n = 1
    /\ run.pc # "start" => run.row \in DOMAIN Rows

\* One initialisation at most is ever under way, and none once a collector is in use:
\* the table that it would replace is empty.
CollectorOK ==
    /\ col.inits > 0 => col.inits = 1 /\ col.promise = "pending" /\ ~col.inst
    /\ col.inst => col.promise = "resolved"
    /\ run.pc \in {"create", "work", "handleOps"} => col.inst
    /\ passed # <<>> => col.inst
    /\ table = passed

Filling(k, i) == worker[k][i].pc = "fill"

\* Whoever fills holds the lock of his file, and holds it alone.
LockOK ==
    \A k, l \in DOMAIN Rows : \A i, j \in Index :
        Filling(k, i) =>
            /\ locked[Rows[k].file]
            /\ Filling(l, j) /\ Rows[l].file = Rows[k].file => l = k /\ j = i

\* An account that createAccounts1 will not create again is there, or is in the
\* operations about to be submitted.
CreatedOK ==
    /\ \A f \in Files : \A i \in created[f] :
          <<f, i>> \in ledger.accounts \/ (run.pc = "create" /\ <<f, i>> \in run.ops)
    /\ run.pc = "create" => \A i \in 1..run.n - 1 : i \in created[Rows[run.row].file]

\* A worker has an account and works with an estimate that was made for one.
WorkerOK(k, i) ==
    /\ worker[k][i].pc # "off" => <<Rows[k].file, i>> \in ledger.accounts
    /\ worker[k][i].pc # "threw"
    /\ worker[k][i].pc \in {"lock", "fill", "packed"} => est[k] = "right"
    /\ worker[k][i].pc \in {"fill", "packed"} => worker[k][i].limit = "right"

\* A suite on a chain that mines at once, and in which no request has failed.
Clean ==
    /\ failed = {}
    /\ col.promise # "rejected"
    /\ run.row > 1 => col.inst
    /\ CreatedOK
    /\ \A k \in DOMAIN Rows : \A i \in Index : WorkerOK(k, i)
    /\ cache # "wrong"
    /\ run.pc = "handleOps" =>
          \A i \in 1..Rows[run.row].count : worker[run.row][i].pc = "packed"

GasInv ==
    /\ GasTypeOK
    /\ RunOK
    /\ CollectorOK
    /\ LockOK
    /\ ledger.instant /\ faults = 0 => Clean

-----------------------------------------------------------------------------
LEMMA RowFacts ==
    /\ Len(Rows) \in Nat /\ DOMAIN Rows = 1..Len(Rows)
    /\ \A k \in DOMAIN Rows :
          /\ Rows[k] \in Row
          /\ Rows[k].file \in Files
          /\ \A i \in 1..Rows[k].count : i \in Index
<1>1. Len(Rows) \in Nat /\ DOMAIN Rows = 1..Len(Rows)
  BY GasAssumption
<1>2. ASSUME NEW k \in DOMAIN Rows PROVE Rows[k] \in Row /\ Rows[k].file \in Files
  BY GasAssumption DEF Files
<1>3. ASSUME NEW k \in DOMAIN Rows, NEW i \in 1..Rows[k].count PROVE i \in Index
  BY DEF Index
<1> QED BY <1>1, <1>2, <1>3

LEMMA IndexPositive == \A i \in Index : i \in Nat /\ i >= 1
BY RowFacts DEF Index, Row

\* A nonempty set of row numbers has a smallest one.
LEMMA SmallestRow ==
    ASSUME NEW S \in SUBSET Nat, S # {}
    PROVE  \E j \in S : \A i \in S : j <= i
<1>1. IsWellFoundedOn(OpToRel(<, Nat), Nat)
  BY NatLessThanWellFounded
<1>2. PICK j \in S : \A i \in S : ~(<<i, j>> \in OpToRel(<, Nat))
  BY <1>1, WFMin
<1>3. ASSUME NEW i \in S, i < j PROVE FALSE
  <2>1. <<i, j>> \in OpToRel(<, Nat)
    BY <1>3 DEF OpToRel
  <2> QED BY <1>2, <2>1
<1> QED BY <1>3

\* Whatever throws, the suite goes on with a row of its own or ends.
LEMMA LaterIsRow ==
    ASSUME NEW k \in DOMAIN Rows, NEW hook \in BOOLEAN
    PROVE  Later(k, hook) \in 1..Len(Rows) + 1
<1> DEFINE rest == {j \in k + 1..Len(Rows) :
                       IF hook THEN Rows[j].file # Rows[k].file ELSE Rows[j].test # Rows[k].test}
                   \cup {Len(Rows) + 1}
<1>1. /\ rest \subseteq 1..Len(Rows) + 1 /\ rest \in SUBSET Nat /\ rest # {}
  BY RowFacts
<1>2. \E j \in rest : \A i \in rest : j <= i
  BY <1>1, SmallestRow
<1>3. Later(k, hook) = CHOOSE j \in rest : \A i \in rest : j <= i
  BY DEF Later
<1> HIDE DEF rest
<1>4. Later(k, hook) \in rest
  BY <1>2, <1>3
<1> QED BY <1>1, <1>4

\* A row that has begun and throws.
LEMMA ThrowsTypes ==
    ASSUME GasTypeOK, run.row \in DOMAIN Rows, NEW hook \in BOOLEAN, Throws(hook)
    PROVE  /\ run' \in RunState /\ failed' \subseteq DOMAIN Rows
           /\ run'.pc = "start" /\ run'.n = 1
<1>1. Later(run.row, hook) \in 1..Len(Rows) + 1
  BY LaterIsRow
<1> QED BY <1>1 DEF Throws, GasTypeOK, RunState, StartRow, Account

LEMMA GasInitInv == GasInit => GasInv
<1> SUFFICES ASSUME GasInit PROVE GasInv
  OBVIOUS
<1>1. GasTypeOK
  BY RowFacts, GasAssumption DEF GasInit, GasTypeOK, StartRow, RunState, Idle, Estimate, Account
<1>2. RunOK /\ CollectorOK
  BY DEF GasInit, RunOK, CollectorOK, StartRow
<1>3. LockOK
  BY DEF GasInit, LockOK, Filling, Idle
<1>4. Clean
  BY DEF GasInit, Clean, CreatedOK, WorkerOK, StartRow, Idle
<1> QED BY <1>1, <1>2, <1>3, <1>4 DEF GasInv

-----------------------------------------------------------------------------
(***************************************************************************)
(* One lemma per kind of step.                                             *)
(***************************************************************************)
LEMMA CollectorStep ==
    ASSUME GasTypeOK,
           NEW p \in {"none", "pending", "resolved", "rejected"}, NEW n \in Nat
    PROVE  [col EXCEPT !.promise = p, !.inits = n] \in
              [inst : BOOLEAN, promise : {"none", "pending", "resolved", "rejected"}, inits : Nat]
BY DEF GasTypeOK

LEMMA CollectorInitTypes ==
    ASSUME GasTypeOK
    PROVE  CollectorInit \in
              [inst : BOOLEAN, promise : {"none", "pending", "resolved", "rejected"}, inits : Nat]
<1>1. col.inits + 1 \in Nat
  BY DEF GasTypeOK
<1> QED BY <1>1, CollectorStep DEF CollectorInit, GasTypeOK

LEMMA LoadKeeps ==
    ASSUME GasInv, NEW f \in Files, Load(f)
    PROVE  GasInv'
<1> USE DEF GasInv, Load
<1>1. GasTypeOK'
  BY CollectorInitTypes DEF GasTypeOK
<1>2. RunOK'
  BY DEF RunOK
<1>3. CollectorOK'
  BY DEF CollectorOK, GasTypeOK, CollectorInit
<1>4. LockOK'
  BY DEF LockOK, Filling
<1>5. ASSUME ledger.instant /\ faults = 0 PROVE Clean'
  BY <1>5 DEF Clean, CreatedOK, WorkerOK, GasTypeOK, CollectorInit
<1> QED BY <1>1, <1>2, <1>3, <1>4, <1>5

LEMMA InitDoneKeeps ==
    ASSUME GasInv, InitDone
    PROVE  GasInv'
<1> USE DEF GasInv, InitDone
<1>1. GasTypeOK'
  BY DEF GasTypeOK
<1>2. RunOK'
  BY DEF RunOK
<1>3. CollectorOK'
  BY DEF CollectorOK, GasTypeOK
<1>4. LockOK'
  BY DEF LockOK, Filling
<1>5. ASSUME ledger.instant /\ faults = 0 PROVE Clean'
  BY <1>5 DEF Clean, CreatedOK, WorkerOK, GasTypeOK
<1> QED BY <1>1, <1>2, <1>3, <1>4, <1>5

LEMMA InitFailsKeeps ==
    ASSUME GasInv, InitFails
    PROVE  GasInv'
<1> USE DEF GasInv, InitFails, Fault
<1>1. GasTypeOK'
  <2>1. col.inits - 1 \in Nat /\ faults' \in 0..MaxFaults
    BY GasAssumption DEF GasTypeOK
  <2>2. col' \in [inst : BOOLEAN, promise : {"none", "pending", "resolved", "rejected"},
                  inits : Nat]
    BY <2>1, CollectorStep
  <2> QED BY <2>1, <2>2 DEF GasTypeOK
<1>2. RunOK'
  BY DEF RunOK
<1>3. CollectorOK'
  BY DEF CollectorOK, GasTypeOK
<1>4. LockOK'
  BY DEF LockOK, Filling
<1>5. faults' # 0
  BY DEF GasTypeOK
<1> QED BY <1>1, <1>2, <1>3, <1>4, <1>5

\* A row throws: what a row leaves behind besides is as it was.
LEMMA ThrowKeeps ==
    ASSUME GasInv, run.row \in DOMAIN Rows, NEW hook \in BOOLEAN, Throws(hook),
           ~(ledger.instant /\ faults' = 0), faults' \in 0..MaxFaults,
           UNCHANGED <<loaded, col, table, passed, created, locked, cache, est, worker, ledger>>
    PROVE  GasInv'
<1> USE DEF GasInv
<1>1. /\ run' \in RunState /\ failed' \subseteq DOMAIN Rows
      /\ run'.pc = "start" /\ run'.n = 1
  BY ThrowsTypes
<1>2. GasTypeOK'
  BY <1>1 DEF GasTypeOK
<1>3. RunOK' /\ CollectorOK'
  BY <1>1 DEF RunOK, CollectorOK
<1>4. LockOK'
  BY DEF LockOK, Filling
<1> QED BY <1>2, <1>3, <1>4

LEMMA BeginRowKeeps ==
    ASSUME GasInv, BeginRow
    PROVE  GasInv'
<1> USE DEF GasInv, BeginRow
<1>1. run.row \in DOMAIN Rows
  BY RowFacts DEF GasTypeOK, RunState
<1>2. CASE Current.hook /\ ~col.inst
  <2>1. run.row # 1
    BY <1>1, <1>2, RowFacts, GasAssumption DEF Current
  <2>2. ~(ledger.instant /\ faults = 0)
    BY <1>1, <1>2, <2>1, RowFacts DEF Clean
  <2> QED BY <1>1, <1>2, <2>2, ThrowKeeps DEF GasTypeOK
<1>3. CASE ~(Current.hook /\ ~col.inst)
  <2> USE <1>3
  <2>1. /\ run' = [run EXCEPT !.pc = "init"] /\ run.pc = "start" /\ col' = CollectorInit
        /\ UNCHANGED <<loaded, table, passed, failed, created, locked, cache, est, worker,
                       ledger, faults>>
    OBVIOUS
  <2> HIDE DEF BeginRow
  <2>2. GasTypeOK'
    BY <2>1, CollectorInitTypes DEF GasTypeOK, RunState
  <2>3. RunOK'
    BY <1>1, <2>1 DEF RunOK, GasTypeOK, RunState
  <2>4. CollectorOK'
    BY <2>1 DEF CollectorOK, GasTypeOK, RunState, CollectorInit
  <2>5. LockOK'
    BY <2>1 DEF LockOK, Filling
  <2>6. ASSUME ledger.instant /\ faults = 0 PROVE Clean'
    BY <2>1, <2>6 DEF Clean, CreatedOK, WorkerOK, GasTypeOK, RunState, CollectorInit
  <2> QED BY <2>1, <2>2, <2>3, <2>4, <2>5, <2>6
<1> QED BY <1>2, <1>3

LEMMA InitialisedKeeps ==
    ASSUME GasInv, Initialised
    PROVE  GasInv'
<1> USE DEF GasInv, Initialised
<1>1. run.row \in DOMAIN Rows
  BY DEF RunOK
<1>2. CASE ~col.inst
  BY <1>1, <1>2, ThrowKeeps DEF GasTypeOK, Clean
<1>3. CASE col.inst
  <2>1. /\ run' = [run EXCEPT !.pc = "create"] /\ run.pc = "init"
        /\ UNCHANGED <<loaded, col, table, passed, failed, created, locked, cache, est, worker,
                       ledger, faults>>
    BY <1>3
  <2> HIDE DEF Initialised
  <2>2. GasTypeOK'
    BY <2>1 DEF GasTypeOK, RunState
  <2>3. RunOK' /\ CollectorOK'
    BY <1>1, <1>3, <2>1 DEF RunOK, CollectorOK, GasTypeOK, RunState
  <2>5. LockOK'
    BY <2>1 DEF LockOK, Filling
  <2>6. ASSUME ledger.instant /\ faults = 0 PROVE Clean'
    BY <2>1, <2>6 DEF Clean, CreatedOK, WorkerOK, GasTypeOK, RunState, RunOK
  <2> QED BY <2>1, <2>2, <2>3, <2>5, <2>6
<1> QED BY <1>2, <1>3

LEMMA CreateAccountKeeps ==
    ASSUME GasInv, CreateAccount
    PROVE  GasInv'
<1> USE DEF GasInv
<1> DEFINE f == Rows[run.row].file
           ops == IF run.n \in created[f] THEN run.ops
                  ELSE run.ops \cup ({<<f, run.n>>} \ ledger.accounts)
<1>1. /\ run.row \in DOMAIN Rows /\ run.pc = "create" /\ f \in Files
      /\ run.n \in Nat /\ run.n >= 1 /\ run.n \in 1..Rows[run.row].count /\ run.n \in Index
  BY RowFacts DEF CreateAccount, InLoop, Current, RunOK, GasTypeOK, RunState, Row
<1>2. /\ run' = [run EXCEPT !.n = run.n + 1, !.ops = ops]
      /\ created' = [created EXCEPT ![f] = created[f] \cup {run.n}]
      /\ UNCHANGED <<loaded, col, table, passed, failed, locked, cache, est, worker, ledger,
                     faults>>
  BY DEF CreateAccount, Current
<1>3. ops \in SUBSET Account
  BY <1>1 DEF GasTypeOK, RunState, Account
<1>4. /\ run'.pc = "create" /\ run'.row = run.row /\ run'.n = run.n + 1 /\ run'.ops = ops
      /\ run' \in RunState
  <2> HIDE DEF ops
  <2>1. run.n + 1 \in Nat
    BY <1>1
  <2> QED BY <1>1, <1>2, <1>3, <2>1 DEF GasTypeOK, RunState
<1>5. GasTypeOK'
  <2>1. created' \in [Files -> SUBSET Index]
    BY <1>1, <1>2 DEF GasTypeOK
  <2> QED BY <1>2, <1>4, <2>1 DEF GasTypeOK
<1>6. RunOK' /\ CollectorOK'
  BY <1>1, <1>2, <1>4 DEF RunOK, CollectorOK
<1>7. LockOK'
  BY <1>2 DEF LockOK, Filling
<1>8. ASSUME ledger.instant /\ faults = 0 PROVE Clean'
  <2>1. Clean
    BY <1>8
  <2>2. run.ops \subseteq ops
    OBVIOUS
  <2>3. ASSUME NEW g \in Files, NEW i \in created'[g]
        PROVE  <<g, i>> \in ledger.accounts \/ <<g, i>> \in ops
    <3>1. CASE i \in created[g]
      BY <1>1, <2>1, <2>2, <3>1 DEF Clean, CreatedOK
    <3>2. CASE i \notin created[g]
      <4>1. g = f /\ i = run.n
        BY <1>1, <1>2, <2>3, <3>2 DEF GasTypeOK
      <4> QED BY <3>2, <4>1
    <3> QED BY <3>1, <3>2
  <2>4. ASSUME NEW i \in 1..run.n PROVE i \in created'[f]
    BY <1>1, <1>2, <2>1 DEF Clean, CreatedOK, GasTypeOK
  <2> HIDE DEF ops
  <2>5. CreatedOK'
    BY <1>1, <1>2, <1>4, <2>3, <2>4 DEF CreatedOK
  <2> QED BY <1>1, <1>2, <1>4, <2>1, <2>5 DEF Clean, WorkerOK
<1> QED BY <1>2, <1>5, <1>6, <1>7, <1>8

LEMMA SubmitCreationKeeps ==
    ASSUME GasInv, SubmitCreation
    PROVE  GasInv'
<1> USE DEF GasInv
<1> DEFINE k == run.row
           start == [i \in Index |-> IF i <= Rows[k].count THEN [Idle EXCEPT !.pc = "estimate"]
                                     ELSE Idle]
<1>1. /\ k \in DOMAIN Rows /\ run.pc = "create" /\ Rows[k].count \in Nat
      /\ run.n \in Nat /\ run.n > Rows[k].count
  BY RowFacts DEF SubmitCreation, InLoop, Current, RunOK, GasTypeOK, RunState, Row
<1>2. /\ run' = [run EXCEPT !.pc = "work"]
      /\ worker' = [worker EXCEPT ![k] = start]
      /\ ledger' = IF ledger.instant
                   THEN [ledger EXCEPT !.accounts = ledger.accounts \cup run.ops]
                   ELSE [ledger EXCEPT !.pending = ledger.pending \cup run.ops]
      /\ UNCHANGED <<loaded, col, table, passed, failed, created, locked, cache, est, faults>>
  BY DEF SubmitCreation, Current
<1>3. /\ run'.pc = "work" /\ run'.row = k /\ run'.n = run.n /\ run' \in RunState
  BY <1>1, <1>2 DEF GasTypeOK, RunState
<1>4. start \in [Index -> [pc : {"off", "estimate"}, limit : Estimate]]
  BY DEF Idle, Estimate
<1>5. \A i \in Index : start[i].pc \in {"off", "estimate"}
                       /\ (start[i].pc # "off" => i <= Rows[k].count)
  BY DEF Idle
<1>6. /\ ledger' \in [accounts : SUBSET Account, pending : SUBSET Account, instant : BOOLEAN]
      /\ ledger'.instant = ledger.instant
      /\ ledger.instant => ledger'.accounts = ledger.accounts \cup run.ops
  BY <1>2 DEF GasTypeOK, RunState
<1> HIDE DEF start
<1>7. GasTypeOK'
  <2>1. worker' \in [DOMAIN Rows -> [Index -> [
            pc : {"off", "estimate", "estimating", "lock", "fill", "packed", "threw"},
            limit : Estimate]]]
    BY <1>1, <1>2, <1>4 DEF GasTypeOK
  <2>2. ASSUME NEW l \in DOMAIN Rows, NEW i \in Index
        PROVE  /\ worker'[l][i].pc \in {"lock", "fill", "packed"} => est'[l] # "none"
               /\ worker'[l][i].pc \in {"fill", "packed"} => worker'[l][i].limit # "none"
    <3>1. CASE l = k
      BY <1>1, <1>2, <1>5, <3>1 DEF GasTypeOK
    <3>2. CASE l # k
      BY <1>1, <1>2, <3>2 DEF GasTypeOK
    <3> QED BY <3>1, <3>2
  <2> QED BY <1>2, <1>3, <1>6, <2>1, <2>2 DEF GasTypeOK
<1>8. RunOK' /\ CollectorOK'
  BY <1>1, <1>2, <1>3 DEF RunOK, CollectorOK
<1>9. \A l \in DOMAIN Rows : worker'[l] = IF l = k THEN start ELSE worker[l]
  BY <1>1, <1>2 DEF GasTypeOK
<1>10. LockOK'
  BY <1>2, <1>5, <1>9 DEF LockOK, Filling
<1>11. ASSUME ledger.instant /\ faults = 0 PROVE Clean'
  <2>1. Clean
    BY <1>11
  <2>2. \A g \in Files : \A i \in created[g] : <<g, i>> \in ledger'.accounts
    BY <1>6, <1>11, <2>1 DEF Clean, CreatedOK
  <2>3. CreatedOK'
    BY <1>2, <1>3, <2>2 DEF CreatedOK
  <2>4. ASSUME NEW i \in Index, i <= Rows[k].count
        PROVE  <<Rows[k].file, i>> \in ledger'.accounts
    <3>1. i \in 1..run.n - 1
      BY <1>1, <2>4, IndexPositive
    <3> QED BY <1>1, <2>1, <2>2, <3>1, RowFacts DEF Clean, CreatedOK
  <2>5. ASSUME NEW l \in DOMAIN Rows, NEW i \in Index PROVE WorkerOK(l, i)'
    <3>1. CASE l = k
      BY <1>2, <1>5, <1>9, <2>4, <3>1 DEF WorkerOK
    <3>2. CASE l # k
      BY <1>2, <1>6, <1>9, <1>11, <2>1, <3>2 DEF WorkerOK, Clean
    <3> QED BY <3>1, <3>2
  <2> QED BY <1>2, <1>3, <2>1, <2>3, <2>5 DEF Clean
<1> QED BY <1>2, <1>6, <1>7, <1>8, <1>10, <1>11

LEMMA MineCreationKeeps ==
    ASSUME GasInv, MineCreation
    PROVE  GasInv'
<1> USE DEF GasInv
<1>1. /\ ledger' \in [accounts : SUBSET Account, pending : SUBSET Account, instant : BOOLEAN]
      /\ ledger'.instant = ledger.instant
      /\ ledger.accounts \subseteq ledger'.accounts
  BY DEF MineCreation, GasTypeOK
<1>2. UNCHANGED <<loaded, col, table, passed, failed, run, created, locked, cache, est, worker,
                  faults>>
  BY DEF MineCreation
<1>3. GasTypeOK' /\ RunOK' /\ CollectorOK' /\ LockOK'
  BY <1>1, <1>2 DEF GasTypeOK, RunOK, CollectorOK, LockOK, Filling
<1>4. ASSUME ledger.instant /\ faults = 0 PROVE Clean'
  BY <1>1, <1>2, <1>4 DEF Clean, CreatedOK, WorkerOK
<1> QED BY <1>1, <1>2, <1>3, <1>4

LEMMA RequestFailsKeeps ==
    ASSUME GasInv, RequestFails
    PROVE  GasInv'
<1>1. run.row \in DOMAIN Rows
  BY DEF GasInv, RunOK, RequestFails
<1>2. faults' \in 0..MaxFaults /\ faults' # 0
  BY GasAssumption DEF GasInv, GasTypeOK, RequestFails, Fault
<1> QED BY <1>1, <1>2, ThrowKeeps DEF RequestFails

LEMMA PackedKeeps ==
    ASSUME GasInv, Packed
    PROVE  GasInv'
<1> USE DEF GasInv
<1>1. /\ run.pc = "work" /\ run' = [run EXCEPT !.pc = "handleOps"]
      /\ \A i \in 1..Rows[run.row].count : worker[run.row][i].pc = "packed"
      /\ UNCHANGED <<loaded, col, table, passed, failed, created, locked, cache, est, worker,
                     ledger, faults>>
  BY DEF Packed, Current
<1>2. run' \in RunState /\ run'.pc = "handleOps" /\ run'.row = run.row /\ run'.n = run.n
  BY <1>1 DEF GasTypeOK, RunState
<1>3. GasTypeOK' /\ RunOK' /\ CollectorOK'
  BY <1>1, <1>2 DEF GasTypeOK, RunOK, CollectorOK
<1>4. LockOK'
  BY <1>1 DEF LockOK, Filling
<1>5. ASSUME ledger.instant /\ faults = 0 PROVE Clean'
  BY <1>1, <1>2, <1>5 DEF Clean, CreatedOK, WorkerOK
<1> QED BY <1>1, <1>3, <1>4, <1>5

LEMMA WorkerThrewKeeps ==
    ASSUME GasInv, WorkerThrew
    PROVE  GasInv'
<1>1. run.row \in DOMAIN Rows
  BY DEF GasInv, RunOK, WorkerThrew
<1>2. ~(ledger.instant /\ faults = 0)
  BY <1>1, RowFacts DEF GasInv, WorkerThrew, Current, Clean, WorkerOK
<1> QED BY <1>1, <1>2, ThrowKeeps DEF WorkerThrew, GasInv, GasTypeOK

LEMMA ReceiptKeeps ==
    ASSUME GasInv, Receipt
    PROVE  GasInv'
<1> USE DEF GasInv
<1>1. run.row \in DOMAIN Rows /\ run.pc = "handleOps" /\ col.inst
  BY DEF RunOK, CollectorOK, Receipt
<1>2. CASE ~\A i \in 1..Current.count : worker[run.row][i].limit = "right"
  <2>1. ~(ledger.instant /\ faults = 0)
    BY <1>1, <1>2, RowFacts DEF Current, Clean, WorkerOK
  <2> QED BY <1>1, <1>2, <2>1, ThrowKeeps DEF Receipt, GasTypeOK
<1>3. CASE \A i \in 1..Current.count : worker[run.row][i].limit = "right"
  <2>1. /\ table' = IF Current.report THEN Append(table, run.row) ELSE table
        /\ passed' = IF Current.report THEN Append(passed, run.row) ELSE passed
        /\ run' = StartRow(run.row + 1)
        /\ UNCHANGED <<loaded, col, failed, created, locked, cache, est, worker, ledger, faults>>
    BY <1>3 DEF Receipt
  <2>2. run' \in RunState /\ run'.pc = "start" /\ run'.n = 1
    <3>1. run.row + 1 \in 1..Len(Rows) + 1
      BY <1>1, RowFacts
    <3> QED BY <2>1, <3>1 DEF RunState, StartRow
  <2>3. table' \in Seq(DOMAIN Rows) /\ passed' \in Seq(DOMAIN Rows)
    <3>1. table \in Seq(DOMAIN Rows) /\ passed \in Seq(DOMAIN Rows)
      BY DEF GasTypeOK
    <3> HIDE DEF GasInv
    <3>2. /\ Append(table, run.row) \in Seq(DOMAIN Rows)
          /\ Append(passed, run.row) \in Seq(DOMAIN Rows)
      BY <1>1, <3>1, AppendProperties
    <3> QED BY <2>1, <3>1, <3>2
  <2>4. GasTypeOK' /\ RunOK'
    BY <2>1, <2>2, <2>3 DEF GasTypeOK, RunOK
  <2>5. CollectorOK'
    BY <1>1, <2>1, <2>2 DEF CollectorOK
  <2>6. LockOK'
    BY <2>1 DEF LockOK, Filling
  <2>7. ASSUME ledger.instant /\ faults = 0 PROVE Clean'
    BY <1>1, <2>1, <2>2, <2>7 DEF Clean, CreatedOK, WorkerOK
  <2> QED BY <2>1, <2>4, <2>5, <2>6, <2>7
<1> QED BY <1>2, <1>3

-----------------------------------------------------------------------------
(***************************************************************************)
(* Workers, those of rows that are over included.                          *)
(***************************************************************************)
WorkerPc == {"off", "estimate", "estimating", "lock", "fill", "packed", "threw"}

LEMMA WorkerGoes ==
    ASSUME GasTypeOK, NEW k \in DOMAIN Rows, NEW i \in Index, NEW to \in WorkerPc,
           WorkerGoto(k, i, to)
    PROVE  /\ worker' \in [DOMAIN Rows -> [Index -> [pc : WorkerPc, limit : Estimate]]]
           /\ worker'[k][i].pc = to /\ worker'[k][i].limit = worker[k][i].limit
           /\ \A l \in DOMAIN Rows : \A j \in Index :
                 <<l, j>> # <<k, i>> => worker'[l][j] = worker[l][j]
<1> DEFINE w == [worker[k][i] EXCEPT !.pc = to]
<1>1. worker[k][i] \in [pc : WorkerPc, limit : Estimate]
  BY DEF GasTypeOK, WorkerPc
<1>2. w \in [pc : WorkerPc, limit : Estimate] /\ w.pc = to /\ w.limit = worker[k][i].limit
  BY <1>1
<1>3. worker' = [worker EXCEPT ![k][i] = w]
  BY DEF WorkerGoto
<1> HIDE DEF w
<1>4. /\ worker' \in [DOMAIN Rows -> [Index -> [pc : WorkerPc, limit : Estimate]]]
      /\ worker'[k][i] = w
      /\ \A l \in DOMAIN Rows : \A j \in Index :
            <<l, j>> # <<k, i>> => worker'[l][j] = worker[l][j]
  BY <1>2, <1>3 DEF GasTypeOK, WorkerPc
<1> QED BY <1>2, <1>4

\* Nobody begins to fill.
LEMMA LockUntouched ==
    ASSUME LockOK, UNCHANGED locked,
           \A l \in DOMAIN Rows : \A j \in Index :
               worker'[l][j].pc = "fill" => worker[l][j].pc = "fill"
    PROVE  LockOK'
<1>1. \A l \in DOMAIN Rows : \A j \in Index : Filling(l, j)' => Filling(l, j)
  BY DEF Filling
<1> HIDE DEF Filling
<1> QED BY <1>1 DEF LockOK

\* A worker takes a step to w that leaves the runner, the collector and the chain alone.
LEMMA WorkerStepKeeps ==
    ASSUME GasInv, NEW k \in DOMAIN Rows, NEW i \in Index,
           worker' \in [DOMAIN Rows -> [Index -> [pc : WorkerPc, limit : Estimate]]],
           \A l \in DOMAIN Rows : \A j \in Index :
               <<l, j>> # <<k, i>> => worker'[l][j] = worker[l][j],
           worker[k][i].pc \notin {"off", "packed"},
           est' \in [DOMAIN Rows -> Estimate], cache' \in Estimate,
           worker'[k][i].pc \in {"lock", "fill", "packed"} => est'[k] # "none",
           worker'[k][i].pc \in {"fill", "packed"} => worker'[k][i].limit # "none",
           \A l \in DOMAIN Rows : est[l] # "none" => est'[l] # "none",
           locked' \in [Files -> BOOLEAN], faults' \in 0..MaxFaults, faults' = 0 => faults = 0,
           LockOK',
           Clean /\ ledger.instant /\ faults' = 0 =>
               /\ WorkerOK(k, i)'
               /\ cache' # "wrong"
               /\ \A l \in DOMAIN Rows : est'[l] = est[l] \/ est'[l] = "right",
           UNCHANGED <<loaded, col, table, passed, failed, run, created, ledger>>
    PROVE  GasInv'
<1> USE DEF GasInv
<1>1. GasTypeOK'
  <2>1. ASSUME NEW l \in DOMAIN Rows, NEW j \in Index
        PROVE  /\ worker'[l][j].pc \in {"lock", "fill", "packed"} => est'[l] # "none"
               /\ worker'[l][j].pc \in {"fill", "packed"} => worker'[l][j].limit # "none"
    <3>1. CASE <<l, j>> = <<k, i>>
      BY <3>1
    <3>2. CASE <<l, j>> # <<k, i>>
      BY <3>2 DEF GasTypeOK
    <3> QED BY <3>1, <3>2
  <2> QED BY <2>1 DEF GasTypeOK, WorkerPc
<1>2. RunOK' /\ CollectorOK'
  BY DEF RunOK, CollectorOK
<1>3. ASSUME ledger.instant /\ faults' = 0 PROVE Clean'
  <2>1. Clean
    BY <1>3
  <2>2. CreatedOK'
    BY <2>1 DEF Clean, CreatedOK
  <2>3. ASSUME NEW l \in DOMAIN Rows, NEW j \in Index PROVE WorkerOK(l, j)'
    <3>1. CASE <<l, j>> = <<k, i>>
      BY <1>3, <2>1, <3>1
    <3>2. CASE <<l, j>> # <<k, i>>
      <4>1. worker'[l][j] = worker[l][j] /\ WorkerOK(l, j)
        BY <2>1, <3>2 DEF Clean
      <4>2. est'[l] = est[l] \/ est'[l] = "right"
        BY <1>3, <2>1
      <4> QED BY <4>1, <4>2 DEF WorkerOK
    <3> QED BY <3>1, <3>2
  <2>4. ASSUME run.pc = "handleOps", NEW j \in 1..Rows[run.row].count
        PROVE  worker'[run.row][j].pc = "packed"
    <3>1. run.row \in DOMAIN Rows /\ j \in Index
      BY <2>4, RowFacts DEF RunOK
    <3>2. worker[run.row][j].pc = "packed"
      BY <2>1, <2>4 DEF Clean
    <3> QED BY <3>1, <3>2
  <2> QED BY <1>3, <2>1, <2>2, <2>3, <2>4 DEF Clean
<1> QED BY <1>1, <1>2, <1>3

LEMMA LookUpKeeps ==
    ASSUME GasInv, NEW k \in DOMAIN Rows, NEW i \in Index, LookUp(k, i)
    PROVE  GasInv'
<1> DEFINE to == IF cache = "none" THEN "estimating" ELSE "lock"
<1>1. GasTypeOK /\ LockOK /\ worker[k][i].pc = "estimate"
  BY DEF GasInv, LookUp
<1>2. /\ WorkerGoto(k, i, to) /\ to \in WorkerPc /\ to # "fill"
      /\ est' = IF cache = "none" THEN est ELSE [est EXCEPT ![k] = cache]
      /\ UNCHANGED <<loaded, col, table, passed, failed, run, created, locked, cache, ledger,
                     faults>>
  BY DEF LookUp, WorkerPc
<1> HIDE DEF to
<1>3. /\ worker' \in [DOMAIN Rows -> [Index -> [pc : WorkerPc, limit : Estimate]]]
      /\ worker'[k][i].pc = to
      /\ \A l \in DOMAIN Rows : \A j \in Index :
            <<l, j>> # <<k, i>> => worker'[l][j] = worker[l][j]
  BY <1>1, <1>2, WorkerGoes
<1>4. LockOK'
  <2>1. \A l \in DOMAIN Rows : \A j \in Index :
           worker'[l][j].pc = "fill" => worker[l][j].pc = "fill"
    BY <1>2, <1>3
  <2> QED BY <1>1, <1>2, <2>1, LockUntouched
<1>5. est' \in [DOMAIN Rows -> Estimate]
  BY <1>1, <1>2 DEF GasTypeOK
<1>6. ASSUME Clean PROVE /\ WorkerOK(k, i)' /\ cache' # "wrong"
                         /\ \A l \in DOMAIN Rows : est'[l] = est[l] \/ est'[l] = "right"
  BY <1>1, <1>2, <1>3, <1>6 DEF Clean, WorkerOK, GasTypeOK, Estimate, to
<1>7. cache' \in Estimate /\ locked' \in [Files -> BOOLEAN] /\ faults' \in 0..MaxFaults
  BY <1>1, <1>2 DEF GasTypeOK
<1>8. /\ to = "lock" => est'[k] # "none"
      /\ to \notin {"fill", "packed"}
      /\ \A l \in DOMAIN Rows : est[l] # "none" => est'[l] # "none"
  BY <1>1, <1>2 DEF GasTypeOK, to
<1> QED BY <1>1, <1>2, <1>3, <1>4, <1>5, <1>6, <1>7, <1>8, WorkerStepKeeps

LEMMA GotEstimateKeeps ==
    ASSUME GasInv, NEW k \in DOMAIN Rows, NEW i \in Index, GotEstimate(k, i)
    PROVE  GasInv'
<1>1. GasTypeOK /\ LockOK /\ worker[k][i].pc = "estimating"
  BY DEF GasInv, GotEstimate
<1>2. /\ WorkerGoto(k, i, "lock") /\ "lock" \in WorkerPc
      /\ cache' = IF <<Rows[k].file, i>> \in ledger.accounts THEN "right" ELSE "wrong"
      /\ est' = [est EXCEPT ![k] = cache']
      /\ UNCHANGED <<loaded, col, table, passed, failed, run, created, locked, ledger, faults>>
  BY DEF GotEstimate, WorkerPc
<1>3. /\ worker' \in [DOMAIN Rows -> [Index -> [pc : WorkerPc, limit : Estimate]]]
      /\ worker'[k][i].pc = "lock"
      /\ \A l \in DOMAIN Rows : \A j \in Index :
            <<l, j>> # <<k, i>> => worker'[l][j] = worker[l][j]
  BY <1>1, <1>2, WorkerGoes
<1>4. LockOK'
  <2>1. \A l \in DOMAIN Rows : \A j \in Index :
           worker'[l][j].pc = "fill" => worker[l][j].pc = "fill"
    BY <1>2, <1>3
  <2> QED BY <1>1, <1>2, <2>1, LockUntouched
<1>5. cache' \in Estimate /\ est' \in [DOMAIN Rows -> Estimate]
  BY <1>1, <1>2 DEF GasTypeOK, Estimate
<1>6. ASSUME Clean PROVE /\ WorkerOK(k, i)' /\ cache' # "wrong"
                         /\ \A l \in DOMAIN Rows : est'[l] = est[l] \/ est'[l] = "right"
  BY <1>1, <1>2, <1>3, <1>6 DEF Clean, WorkerOK, GasTypeOK
<1>7. locked' \in [Files -> BOOLEAN] /\ faults' \in 0..MaxFaults
  BY <1>1, <1>2 DEF GasTypeOK
<1>8. est'[k] # "none" /\ \A l \in DOMAIN Rows : est[l] # "none" => est'[l] # "none"
  BY <1>1, <1>2 DEF GasTypeOK
<1> QED BY <1>1, <1>2, <1>3, <1>4, <1>5, <1>6, <1>7, <1>8, WorkerStepKeeps

LEMMA WorkerRequestFailsKeeps ==
    ASSUME GasInv, NEW k \in DOMAIN Rows, NEW i \in Index, WorkerRequestFails(k, i)
    PROVE  GasInv'
<1>1. GasTypeOK /\ LockOK /\ worker[k][i].pc \in {"estimate", "estimating"}
  BY DEF GasInv, WorkerRequestFails
<1>2. /\ WorkerGoto(k, i, "threw") /\ "threw" \in WorkerPc
      /\ UNCHANGED <<loaded, col, table, passed, failed, run, created, locked, cache, est, ledger>>
  BY DEF WorkerRequestFails, WorkerPc
<1>3. /\ worker' \in [DOMAIN Rows -> [Index -> [pc : WorkerPc, limit : Estimate]]]
      /\ worker'[k][i].pc = "threw"
      /\ \A l \in DOMAIN Rows : \A j \in Index :
            <<l, j>> # <<k, i>> => worker'[l][j] = worker[l][j]
  BY <1>1, <1>2, WorkerGoes
<1>4. LockOK'
  <2>1. \A l \in DOMAIN Rows : \A j \in Index :
           worker'[l][j].pc = "fill" => worker[l][j].pc = "fill"
    BY <1>2, <1>3
  <2> QED BY <1>1, <1>2, <2>1, LockUntouched
<1>5. faults' \in 0..MaxFaults /\ faults' # 0
  BY <1>1, GasAssumption DEF WorkerRequestFails, Fault, GasTypeOK
<1>6. /\ est' \in [DOMAIN Rows -> Estimate] /\ cache' \in Estimate
      /\ locked' \in [Files -> BOOLEAN] /\ \A l \in DOMAIN Rows : est'[l] = est[l]
  BY <1>1, <1>2 DEF GasTypeOK
<1> QED BY <1>1, <1>2, <1>3, <1>4, <1>5, <1>6, WorkerStepKeeps

LEMMA LockKeeps ==
    ASSUME GasInv, NEW k \in DOMAIN Rows, NEW i \in Index, Lock(k, i)
    PROVE  GasInv'
<1>1. /\ GasTypeOK /\ LockOK /\ worker[k][i].pc = "lock" /\ ~locked[Rows[k].file]
      /\ Rows[k].file \in Files
  BY RowFacts DEF GasInv, Lock, MayLock
<1>2. /\ worker' = [worker EXCEPT ![k][i] = [pc |-> "fill", limit |-> est[k]]]
      /\ locked' = [locked EXCEPT ![Rows[k].file] = TRUE]
      /\ UNCHANGED <<loaded, col, table, passed, failed, run, created, cache, est, ledger, faults>>
  BY DEF Lock
<1>3. [pc |-> "fill", limit |-> est[k]] \in [pc : WorkerPc, limit : Estimate]
  BY <1>1 DEF GasTypeOK, WorkerPc
<1>4. /\ worker' \in [DOMAIN Rows -> [Index -> [pc : WorkerPc, limit : Estimate]]]
      /\ worker'[k][i] = [pc |-> "fill", limit |-> est[k]]
      /\ \A l \in DOMAIN Rows : \A j \in Index :
            <<l, j>> # <<k, i>> => worker'[l][j] = worker[l][j]
  <2> DEFINE w == [pc |-> "fill", limit |-> est[k]]
  <2>1. w \in [pc : WorkerPc, limit : Estimate] /\ worker' = [worker EXCEPT ![k][i] = w]
    BY <1>2, <1>3
  <2> SUFFICES /\ worker' \in [DOMAIN Rows -> [Index -> [pc : WorkerPc, limit : Estimate]]]
               /\ worker'[k][i] = w
               /\ \A l \in DOMAIN Rows : \A j \in Index :
                     <<l, j>> # <<k, i>> => worker'[l][j] = worker[l][j]
    OBVIOUS
  <2> HIDE DEF w
  <2> QED BY <1>1, <2>1 DEF GasTypeOK, WorkerPc
<1>5. /\ locked' \in [Files -> BOOLEAN] /\ locked'[Rows[k].file]
      /\ \A f \in Files : locked[f] => locked'[f]
  BY <1>1, <1>2 DEF GasTypeOK
<1>6. LockOK'
  <2>1. ASSUME NEW l \in DOMAIN Rows, NEW j \in Index, Filling(l, j), Rows[l].file = Rows[k].file
        PROVE  FALSE
    BY <1>1, <2>1 DEF LockOK
  <2>2. ASSUME NEW l \in DOMAIN Rows, NEW j \in Index
        PROVE  Filling(l, j)' <=> Filling(l, j) \/ (l = k /\ j = i)
    BY <1>4 DEF Filling
  <2> HIDE DEF Filling
  <2>3. SUFFICES ASSUME NEW l \in DOMAIN Rows, NEW m \in DOMAIN Rows,
                        NEW j \in Index, NEW n \in Index,
                        Filling(l, j)'
                 PROVE  /\ locked'[Rows[l].file]
                        /\ Filling(m, n)' /\ Rows[m].file = Rows[l].file => m = l /\ n = j
    BY DEF LockOK
  <2> QED BY <1>1, <1>5, <2>1, <2>2, <2>3, RowFacts DEF LockOK
<1>7. ASSUME Clean PROVE WorkerOK(k, i)' /\ cache' # "wrong"
  BY <1>1, <1>2, <1>4, <1>7 DEF Clean, WorkerOK
<1>8. /\ est' \in [DOMAIN Rows -> Estimate] /\ cache' \in Estimate /\ faults' \in 0..MaxFaults
      /\ \A l \in DOMAIN Rows : est'[l] = est[l]
      /\ est'[k] # "none" /\ worker'[k][i].limit # "none"
  BY <1>1, <1>2, <1>4 DEF GasTypeOK
<1> QED BY <1>1, <1>2, <1>4, <1>5, <1>6, <1>7, <1>8, WorkerStepKeeps

LEMMA FilledKeeps ==
    ASSUME GasInv, NEW k \in DOMAIN Rows, NEW i \in Index, Filled(k, i)
    PROVE  GasInv'
<1>1. /\ GasTypeOK /\ LockOK /\ worker[k][i].pc = "fill" /\ Rows[k].file \in Files
  BY RowFacts DEF GasInv, Filled
<1>2. /\ locked' = [locked EXCEPT ![Rows[k].file] = FALSE]
      /\ UNCHANGED <<loaded, col, table, passed, failed, run, created, cache, est, ledger>>
  BY DEF Filled, Unlocked
<1>3. PICK to \in {"packed", "threw"} :
         /\ WorkerGoto(k, i, to)
         /\ faults' \in 0..MaxFaults /\ (faults' = 0 => faults = 0)
         /\ to = "threw" /\ faults' = 0 => <<Rows[k].file, i>> \notin ledger.accounts
  <2>1. CASE /\ <<Rows[k].file, i>> \in ledger.accounts
             /\ WorkerGoto(k, i, "packed") /\ UNCHANGED faults
    BY <1>1, <2>1 DEF GasTypeOK
  <2>2. CASE /\ WorkerGoto(k, i, "threw")
             /\ IF <<Rows[k].file, i>> \in ledger.accounts THEN Fault ELSE UNCHANGED faults
    <3>1. faults' \in 0..MaxFaults /\ (faults' = 0 => faults = 0)
      BY <1>1, <2>2, GasAssumption DEF Fault, GasTypeOK
    <3>2. faults' = 0 => <<Rows[k].file, i>> \notin ledger.accounts
      BY <1>1, <2>2 DEF Fault, GasTypeOK
    <3> QED BY <2>2, <3>1, <3>2
  <2> QED BY <2>1, <2>2 DEF Filled
<1>4. /\ worker' \in [DOMAIN Rows -> [Index -> [pc : WorkerPc, limit : Estimate]]]
      /\ worker'[k][i].pc = to /\ worker'[k][i].limit = worker[k][i].limit
      /\ \A l \in DOMAIN Rows : \A j \in Index :
            <<l, j>> # <<k, i>> => worker'[l][j] = worker[l][j]
  <2>1. to \in WorkerPc
    BY DEF WorkerPc
  <2> QED BY <1>1, <1>3, <2>1, WorkerGoes
<1>5. /\ locked' \in [Files -> BOOLEAN]
      /\ \A f \in Files : f # Rows[k].file => locked'[f] = locked[f]
  BY <1>1, <1>2 DEF GasTypeOK
<1>6. LockOK'
  <2>1. ASSUME NEW l \in DOMAIN Rows, NEW j \in Index, Filling(l, j)'
        PROVE  Filling(l, j) /\ Rows[l].file # Rows[k].file
    <3>1. <<l, j>> # <<k, i>>
      BY <1>3, <1>4, <2>1 DEF Filling
    <3>2. Filling(l, j) /\ Filling(k, i)
      BY <1>1, <1>4, <2>1, <3>1 DEF Filling
    <3> QED BY <1>1, <3>1, <3>2 DEF LockOK
  <2> HIDE DEF Filling
  <2> QED BY <1>1, <1>5, <2>1, RowFacts DEF LockOK
<1>7. ASSUME Clean, faults' = 0 PROVE WorkerOK(k, i)' /\ cache' # "wrong"
  BY <1>1, <1>2, <1>3, <1>4, <1>7 DEF Clean, WorkerOK
<1>8. /\ est' \in [DOMAIN Rows -> Estimate] /\ cache' \in Estimate
      /\ \A l \in DOMAIN Rows : est'[l] = est[l]
      /\ est'[k] # "none" /\ worker'[k][i].limit # "none"
  BY <1>1, <1>2, <1>4 DEF GasTypeOK
<1> QED BY <1>1, <1>2, <1>3, <1>4, <1>5, <1>6, <1>7, <1>8, WorkerStepKeeps

-----------------------------------------------------------------------------
LEMMA GasStep == GasInv /\ [GasNext]_gasVars => GasInv'
<1> SUFFICES ASSUME GasInv, [GasNext]_gasVars PROVE GasInv'
  OBVIOUS
<1>1. CASE UNCHANGED gasVars
  <2> USE <1>1 DEF gasVars, GasInv
  <2>1. GasTypeOK' /\ RunOK' /\ CollectorOK'
    BY DEF GasTypeOK, RunOK, CollectorOK
  <2>2. LockOK'
    BY LockUntouched
  <2>3. Clean => Clean'
    BY DEF Clean, CreatedOK, WorkerOK
  <2> QED BY <2>1, <2>2, <2>3
<1>2. CASE \E f \in Files : Load(f)
  BY <1>2, LoadKeeps
<1>3. CASE InitDone \/ InitFails
  BY <1>3, InitDoneKeeps, InitFailsKeeps
<1>4. CASE RunnerStep \/ RequestFails
  BY <1>4, BeginRowKeeps, InitialisedKeeps, CreateAccountKeeps, SubmitCreationKeeps, PackedKeeps,
     WorkerThrewKeeps, ReceiptKeeps, RequestFailsKeeps DEF RunnerStep
<1>5. CASE MineCreation
  BY <1>5, MineCreationKeeps
<1>6. CASE \E k \in DOMAIN Rows, i \in Index : WorkerStep(k, i)
  BY <1>6, LookUpKeeps, GotEstimateKeeps, WorkerRequestFailsKeeps, LockKeeps, FilledKeeps
     DEF WorkerStep
<1> QED BY <1>1, <1>2, <1>3, <1>4, <1>5, <1>6 DEF GasNext

LEMMA AlwaysGas == GasSpec => []GasInv
BY GasInitInv, GasStep, PTL DEF GasSpec

\* runTest, for any suite of rows: the types of its state, and no operation is filled in
\* with the callGasLimit that accountEst starts from.
THEOREM GasTypes == GasSpec => []GasTypeOK
<1>1. GasInv => GasTypeOK
  BY DEF GasInv
<1> QED BY <1>1, AlwaysGas, PTL

\* GasCheckCollector.init: however many files call it, and whenever its promise is
\* settled, no row that was added to the table is lost.
THEOREM RowsKept == GasSpec => []RowsAreKept
<1>1. GasInv => RowsAreKept
  BY DEF GasInv, CollectorOK, RowsAreKept
<1> QED BY <1>1, AlwaysGas, PTL

\* runTest's lock: at most one worker of a GasChecker fills in an operation, for any
\* number of rows and accounts, the rows that threw while workers went on included.
THEOREM FillersExclude == GasSpec => []OneFillsAtATime
<1>1. ASSUME GasInv PROVE OneFillsAtATime
  <2> SUFFICES ASSUME NEW f \in Files
               PROVE  Cardinality({w \in (DOMAIN Rows) \X Index :
                          Rows[w[1]].file = f /\ worker[w[1]][w[2]].pc = "fill"}) <= 1
    BY DEF OneFillsAtATime
  <2> DEFINE filling == {w \in (DOMAIN Rows) \X Index :
                          Rows[w[1]].file = f /\ worker[w[1]][w[2]].pc = "fill"}
  <2> SUFFICES Cardinality(filling) <= 1
    OBVIOUS
  <2>1. ASSUME NEW v \in filling, NEW w \in filling PROVE v = w
    BY <1>1, <2>1 DEF GasInv, LockOK, Filling
  <2> HIDE DEF filling
  <2>2. CASE filling = {}
    BY <2>2, FS_EmptySet
  <2>3. CASE filling # {}
    <3>1. PICK w \in filling : TRUE
      BY <2>3
    <3>2. filling = {w}
      BY <2>1
    <3>3. Cardinality({w}) = 1
      BY FS_Singleton
    <3> QED BY <3>2, <3>3
  <2> QED BY <2>2, <2>3
<1> QED BY <1>1, AlwaysGas, PTL

\* runTest on a chain that mines at once: nothing but a failing request makes a row
\* throw, for any suite that begins with a row without a hook.
THEOREM CleanSuite == GasSpec => []OnlyFaultsFail
<1>1. GasInv => OnlyFaultsFail
  BY DEF GasInv, Clean, OnlyFaultsFail
<1> QED BY <1>1, AlwaysGas, PTL
=============================================================================
