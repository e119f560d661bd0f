------------------------------ MODULE AASigner ------------------------------
(***************************************************************************)
(* AASigner.ts: an ethers signer that turns a transaction into a user      *)
(* operation of the owner's account, sends it, and fabricates a response   *)
(* whose wait() listens for the EntryPoint's event.                        *)
(*                                                                         *)
(* The methods are async: a call runs from one await to the next in one    *)
(* step, calls interleave there, and what a node answers is computed in a  *)
(* step of its own and may be old when the call goes on.                   *)
(***************************************************************************)
EXTENDS Integers, FiniteSets

CONSTANTS
    Signers,     \* AASigner objects of one owner and one account factory
    Index,       \* Index[s]: the index s was constructed with
    Sends,       \* calls of sendTransaction
    Syncs,       \* calls that may be of getAddress, getAccount or isPhantom
    Connects,    \* calls that may be of connectAccountAddress
    SignerOf,    \* the signer a call is made on
    Data,        \* Data[c]: a number for what the transaction of c calls
    Own,         \* the address the factory answers for the owner and salt 0
    Other,       \* another account of the owner, which exists
    MaxBlock,    \* bound on the block number
    MaxFaults    \* bound on the requests that fail or whose answer is lost

Calls == Sends \cup Syncs \cup Connects

NoAddress == "none"
Pending == "pending"

\* Answers of the node are numbers; a call of an address without code reverts.
NoReply == -1
Revert == -2

\* The length of '0x', and of the code of a contract.
EmptyCode == 2
SomeCode == 3

ASSUME SignerAssumption ==
    /\ Index \in [Signers -> Nat]
    /\ SignerOf \in [Calls -> Signers]
    /\ Sends \cap (Syncs \cup Connects) = {}
    /\ Own # Other /\ NoAddress \notin {Own, Other}
    /\ MaxBlock \in Nat /\ MaxFaults \in Nat

Address == {Own, Other}

\* userOpHash covers all of the operation: two operations are equal if their hashes are.
UserOp ==
    [sender : Address \cup {NoAddress}, init : BOOLEAN, nonce : Nat,
     data : {Data[c] : c \in Sends} \cup {0}]

\* What a call holds until it has filled in its operation.
NoOp == [sender |-> NoAddress, init |-> FALSE, nonce |-> 0, data |-> 0]

\* An operation of somebody else's account.
ForeignOp == [NoOp EXCEPT !.nonce = 1]

Event == [op : UserOp, success : BOOLEAN, block : 1..MaxBlock]

VARIABLES
    sendUserOp,  \* of a signer: rpcUserOpSender or localUserOpSender
    account,     \* _account of a signer
    phantom,     \* _isPhantom of a signer
    call,        \* the local state of every call: see CallState
    hearing,     \* invocations of the listener of a response under way
    chain,       \* code, nonces, block number and events
    faults       \* requests that have failed so far

signerVars == <<sendUserOp, account, phantom, call, hearing, chain, faults>>

\* target is the address a request is about, reply its answer; block is what the
\* promise currentBLock holds, missed tells that a request of the listener failed, and
\* fate what has become of the operation sent.
CallState ==
    [pc : {"idle", "getAccountAddress", "getCode", "connect", "synced", "populate", "getNonce",
           "respond", "send", "sending", "returned", "threw"},
     target : Address \cup {NoAddress},
     reply : Nat \cup {NoReply, Revert},
     init : BOOLEAN,
     op : UserOp,
     block : Nat \cup {NoReply},
     listening : BOOLEAN, timer : BOOLEAN, heard : SUBSET Event, missed : BOOLEAN,
     fate : {"none", "pool", "mined", "dropped"},
     result : {Pending, "success", "failure"}]

SignerTypeOK ==
    /\ sendUserOp \in [Signers -> {"rpc", "local"}]
    /\ account \in [Signers -> Address \cup {NoAddress}]
    /\ phantom \in [Signers -> BOOLEAN]
    /\ \A c \in Calls :
          /\ call[c] \in CallState
          /\ call[c].pc \in {"respond", "send", "sending"} => call[c].op.sender \in Address
    /\ hearing \subseteq [call : Sends, event : Event, at : {"block", "receipt"}]
    /\ chain.code \subseteq Address
    /\ chain.nonce \in [Address -> Nat]
    /\ chain.block \in 0..MaxBlock
    /\ chain.events \subseteq Event
    /\ faults \in 0..MaxFaults

SignerInit ==
    /\ sendUserOp \in [Signers -> {"rpc", "local"}]
    /\ account = [s \in Signers |-> NoAddress]
    /\ phantom = [s \in Signers |-> TRUE]
    /\ call = [c \in Calls |->
                 [pc |-> "idle", target |-> NoAddress, reply |-> NoReply, init |-> FALSE,
                  op |-> NoOp, block |-> NoReply, listening |-> FALSE, timer |-> FALSE,
                  heard |-> {}, missed |-> FALSE, fate |-> "none", result |-> Pending]]
    /\ hearing = {}
    /\ \E code \in {{Other}, Address} :
          chain = [code |-> code, nonce |-> [a \in Address |-> 0], block |-> 0, events |-> {}]
    /\ faults = 0

-----------------------------------------------------------------------------
(***************************************************************************)
(* Requests to the node.                                                   *)
(***************************************************************************)
Goto(c, pc) == call' = [call EXCEPT ![c].pc = pc]

Ask(c, request, address) ==
    call' = [call EXCEPT ![c].pc = request, ![c].target = address, ![c].reply = NoReply]

\* The node computes an answer; the call uses it later.
NodeAnswers(c) ==
    /\ call[c].pc \in {"getCode", "connect", "getNonce"} /\ call[c].reply = NoReply
    /\ LET a == call[c].target
       IN  call' = [call EXCEPT ![c].reply =
                      IF call[c].pc = "getNonce"
                      THEN IF a \in chain.code THEN chain.nonce[a] ELSE Revert
                      ELSE IF a \in chain.code THEN SomeCode ELSE EmptyCode]
    /\ UNCHANGED <<sendUserOp, account, phantom, hearing, chain, faults>>

Rpc(c) == sendUserOp[SignerOf[c]] = "rpc"

\* An awaited request fails, or the answer to one that was received is lost (to
\* eth_sendUserOperation; to handleOps or its receipt): the call throws.
RequestFails(c) ==
    /\ faults < MaxFaults
    /\ call[c].pc \in {"getAccountAddress", "getCode", "connect", "populate", "getNonce",
                       "respond", "sending"}
    /\ Goto(c, "threw")
    /\ faults' = faults + 1
    /\ UNCHANGED <<sendUserOp, account, phantom, hearing, chain>>

-----------------------------------------------------------------------------
(***************************************************************************)
(* syncAccount, and connectAccountAddress.                                 *)
(***************************************************************************)
\* A phantom account is looked up again.
Recheck(c, a) ==
    IF phantom[SignerOf[c]] THEN Ask(c, "getCode", a) ELSE Goto(c, "synced")

SyncAccount(c) ==
    /\ call[c].pc = "idle"
    /\ IF account[SignerOf[c]] = NoAddress THEN Goto(c, "getAccountAddress")
       ELSE Recheck(c, account[SignerOf[c]])
    /\ UNCHANGED <<sendUserOp, account, phantom, hearing, chain, faults>>

\* The answer is not kept.
GotAccountAddress_Unassigned(c) ==
    /\ call[c].pc = "getAccountAddress"
    /\ Recheck(c, Own)
    /\ UNCHANGED <<sendUserOp, account, phantom, hearing, chain, faults>>

\* getAccountAddress: the factory's answer for the owner; the index plays no part.
GotAccountAddress(c) ==
    /\ call[c].pc = "getAccountAddress"
    /\ account' = [account EXCEPT ![SignerOf[c]] = Own]
    /\ Recheck(c, Own)
    /\ UNCHANGED <<sendUserOp, phantom, hearing, chain, faults>>

\* _isPhantom = size === 2.
PhantomAfter(size) == size = EmptyCode

GotCode(c) ==
    /\ call[c].pc = "getCode" /\ call[c].reply # NoReply
    /\ phantom' = [phantom EXCEPT ![SignerOf[c]] = PhantomAfter(call[c].reply)]
    /\ Goto(c, "synced")
    /\ UNCHANGED <<sendUserOp, account, hearing, chain, faults>>

\* getAddress, getAccount and isPhantom return.
SyncReturns(c) ==
    /\ c \in Syncs
    /\ call[c].pc = "synced"
    /\ Goto(c, "returned")
    /\ UNCHANGED <<sendUserOp, account, phantom, hearing, chain, faults>>

ConnectAccountAddress(c, a) ==
    /\ call[c].pc = "idle"
    /\ IF account[SignerOf[c]] # NoAddress THEN Goto(c, "threw") ELSE Ask(c, "connect", a)
    /\ UNCHANGED <<sendUserOp, account, phantom, hearing, chain, faults>>

Connected(c) ==
    /\ call[c].pc = "connect" /\ call[c].reply # NoReply
    /\ IF call[c].reply > EmptyCode
       THEN /\ account' = [account EXCEPT ![SignerOf[c]] = call[c].target]
            /\ phantom' = [phantom EXCEPT ![SignerOf[c]] = FALSE]
            /\ Goto(c, "returned")
       ELSE /\ Goto(c, "threw")
            /\ UNCHANGED <<sendUserOp, account, phantom>>
    /\ UNCHANGED <<sendUserOp, hearing, chain, faults>>

-----------------------------------------------------------------------------
(***************************************************************************)
(* _createUserOperation: initCode is decided first, the sender is read     *)
(* after another await, and the nonce comes from the chain, or is the      *)
(* signer's index if there is an initCode.                                 *)
(***************************************************************************)
DecideInitCode(c) ==
    /\ c \in Sends
    /\ call[c].pc = "synced"
    /\ call' = [call EXCEPT ![c].pc = "populate", ![c].init = phantom[SignerOf[c]]]
    /\ UNCHANGED <<sendUserOp, account, phantom, hearing, chain, faults>>

Operation(c, sender, nonce) ==
    [sender |-> sender, init |-> call[c].init, nonce |-> nonce, data |-> Data[c]]

FillUserOp(c) ==
    /\ call[c].pc = "populate"
    /\ LET s == SignerOf[c]
       IN  IF call[c].init
           THEN call' = [call EXCEPT ![c].pc = "respond",
                                     ![c].op = Operation(c, account[s], Index[s])]
           ELSE Ask(c, "getNonce", account[s])
    /\ UNCHANGED <<sendUserOp, account, phantom, hearing, chain, faults>>

GotNonce(c) ==
    /\ call[c].pc = "getNonce" /\ call[c].reply # NoReply
    /\ IF call[c].reply = Revert THEN Goto(c, "threw")
       ELSE call' = [call EXCEPT ![c].pc = "respond",
                                 ![c].op = Operation(c, call[c].target, call[c].reply)]
    /\ UNCHANGED <<sendUserOp, account, phantom, hearing, chain, faults>>

-----------------------------------------------------------------------------
(***************************************************************************)
(* sendTransaction: the response, then sendUserOp.                         *)
(***************************************************************************)
\* userEventResponse: the block number is asked for and not awaited, the listener
\* is on, and the one-shot timer is set.
UserEventResponse(c) ==
    /\ call[c].pc = "respond"
    /\ call' = [call EXCEPT ![c].pc = "send", ![c].listening = TRUE, ![c].timer = TRUE]
    /\ UNCHANGED <<sendUserOp, account, phantom, hearing, chain, faults>>

\* The answer to getBlockNumber.
CurrentBlock(c) ==
    /\ call[c].listening /\ call[c].block = NoReply
    /\ call' = [call EXCEPT ![c].block = chain.block]
    /\ UNCHANGED <<sendUserOp, account, phantom, hearing, chain, faults>>

\* rpcUserOpSender, localUserOpSender: the request leaves; a bundler may refuse the
\* operation, and a node the transaction.
SendUserOp(c) ==
    /\ call[c].pc = "send"
    /\ \/ call' = [call EXCEPT ![c].pc = "sending", ![c].fate = "pool"]
       \/ Goto(c, "threw")
    /\ UNCHANGED <<sendUserOp, account, phantom, hearing, chain, faults>>

\* rpc: the bundler has accepted the operation.  local: handleOps is mined, or
\* has reverted.
SendReturns(c) ==
    /\ call[c].pc = "sending"
    /\ \/ (Rpc(c) \/ call[c].fate = "mined") /\ Goto(c, "returned")
       \/ ~Rpc(c) /\ call[c].fate = "dropped" /\ Goto(c, "threw")
    /\ UNCHANGED <<sendUserOp, account, phantom, hearing, chain, faults>>

\* validateUserOp's nonce (AA25), and the rules on initCode (AA10, AA20).
Acceptable(op) ==
    /\ op.nonce = chain.nonce[op.sender]
    /\ op.init <=> op.sender \notin chain.code

\* A block with the operation of c.
MineOp(c) ==
    LET op == call[c].op
    IN  /\ call[c].fate = "pool"
        /\ Acceptable(op)
        /\ chain.block < MaxBlock
        /\ \E success \in BOOLEAN :
              chain' = [code |-> chain.code \cup {op.sender},
                        nonce |-> [chain.nonce EXCEPT ![op.sender] = @ + 1],
                        block |-> chain.block + 1,
                        events |-> chain.events \cup
                            {[op |-> op, success |-> success, block |-> chain.block + 1]}]
        /\ call' = [call EXCEPT ![c].fate = "mined"]
        /\ UNCHANGED <<sendUserOp, account, phantom, hearing, faults>>

\* A block without operations of these calls, and perhaps with somebody else's, or
\* with a call of the factory that creates the owner's account.
OtherBlock ==
    /\ chain.block < MaxBlock
    /\ \E ops \in SUBSET {ForeignOp}, code \in {chain.code, Address} :
          chain' = [chain EXCEPT !.block = @ + 1, !.code = code,
                                 !.events = @ \cup {[op |-> op, success |-> TRUE,
                                                     block |-> chain.block + 1] : op \in ops}]
    /\ UNCHANGED <<sendUserOp, account, phantom, call, hearing, faults>>

\* The EntryPoint refuses the operation, or the bundler gives it up.
Drop(c) ==
    /\ call[c].fate = "pool"
    /\ Rpc(c) \/ ~Acceptable(call[c].op)
    /\ call' = [call EXCEPT ![c].fate = "dropped"]
    /\ UNCHANGED <<sendUserOp, account, phantom, hearing, chain, faults>>

-----------------------------------------------------------------------------
(***************************************************************************)
(* The listener of a response.                                             *)
(***************************************************************************)
Invoke(c, e) == {h \in {[call |-> c, event |-> e, at |-> "block"]} : call[c].result = Pending}

\* 'on' reports an event of the EntryPoint, of any operation and any block, once.
On(c, e) ==
    /\ call[c].listening /\ e \notin call[c].heard
    /\ call' = [call EXCEPT ![c].heard = @ \cup {e}]
    /\ hearing' = hearing \cup Invoke(c, e)
    /\ UNCHANGED <<sendUserOp, account, phantom, chain, faults>>

\* The one-shot timer looks for the event itself.
Timer(c) ==
    /\ call[c].timer
    /\ call' = [call EXCEPT ![c].timer = FALSE]
    /\ hearing' = hearing \cup UNION {Invoke(c, e) : e \in {f \in chain.events : f.op = call[c].op}}
    /\ UNCHANGED <<sendUserOp, account, phantom, chain, faults>>

\* Whichever operation the event is about.
Matches_Any(h) == h.event.block > call[h.call].block

\* Not of a block at or before the one currentBLock holds, and of this operation.
Matches(h) ==
    /\ h.event.block > call[h.call].block
    /\ h.event.op = call[h.call].op

\* Listening stops with the first event, whatever it is about.
CheckEvent_OffFirst(h) ==
    /\ h.at = "block" /\ call[h.call].block # NoReply
    /\ hearing' = (hearing \ {h}) \cup {[g EXCEPT !.at = "receipt"] : g \in {k \in {h} : Matches(k)}}
    /\ call' = [call EXCEPT ![h.call].listening = FALSE]
    /\ UNCHANGED <<sendUserOp, account, phantom, chain, faults>>

\* The listener goes on once the block number is there.
CheckEvent(h) ==
    /\ h.at = "block" /\ call[h.call].block # NoReply
    /\ hearing' = (hearing \ {h}) \cup {[g EXCEPT !.at = "receipt"] : g \in {k \in {h} : Matches(k)}}
    /\ UNCHANGED <<sendUserOp, account, phantom, call, chain, faults>>

\* The receipt is there.  If the operation failed its status is set to 0; the query
\* for a reason passes the sender where the event has its userOpHash, and finds none.
\* A promise keeps its first result.
Resolve(h) ==
    /\ h.at = "receipt"
    /\ hearing' = hearing \ {h}
    /\ call' = [call EXCEPT ![h.call].listening = FALSE,
                            ![h.call].result =
                                IF @ # Pending THEN @
                                ELSE IF h.event.success THEN "success" ELSE "failure"]
    /\ UNCHANGED <<sendUserOp, account, phantom, chain, faults>>

\* A request of the listener fails: nobody looks at the event again.
ListenerFails(h) ==
    /\ h.at = "receipt" /\ faults < MaxFaults
    /\ hearing' = hearing \ {h}
    /\ call' = [call EXCEPT ![h.call].missed = TRUE]
    /\ faults' = faults + 1
    /\ UNCHANGED <<sendUserOp, account, phantom, chain>>

-----------------------------------------------------------------------------
Listening ==
    \/ \E c \in Sends : (\E e \in chain.events : On(c, e)) \/ Timer(c)
    \/ \E h \in hearing : CheckEvent(h) \/ Resolve(h)

SendStep(c) ==
    \/ SyncAccount(c) \/ DecideInitCode(c) \/ FillUserOp(c) \/ GotNonce(c)
    \/ UserEventResponse(c) \/ CurrentBlock(c) \/ SendUserOp(c) \/ SendReturns(c)
    \/ MineOp(c) \/ Drop(c)

SignerNext ==
    \/ \E c \in Calls : NodeAnswers(c) \/ RequestFails(c) \/ GotAccountAddress(c) \/ GotCode(c)
    \/ \E c \in Sends : SendStep(c)
    \/ \E c \in Syncs : SyncAccount(c) \/ SyncReturns(c)
    \/ \E c \in Connects : (\E a \in Address : ConnectAccountAddress(c, a)) \/ Connected(c)
    \/ OtherBlock
    \/ Listening
    \/ \E h \in hearing : ListenerFails(h)

SignerSpec == SignerInit /\ [][SignerNext]_signerVars

\* A request is answered, ethers polls for events and runs its callbacks, and a timer
\* fires.
SignerFairSpec ==
    /\ SignerSpec
    /\ \A c \in Sends :
          /\ WF_signerVars(CurrentBlock(c))
          /\ WF_signerVars(\E e \in chain.events : On(c, e))
          /\ WF_signerVars(Timer(c))
    /\ WF_signerVars(\E h \in hearing : CheckEvent(h) \/ Resolve(h))

-----------------------------------------------------------------------------
(***************************************************************************)
(* Properties.                                                             *)
(***************************************************************************)

\* userEventResponse: a receipt tells the outcome of the operation the call itself
\* sent, executed after the call asked for the block number, however the calls, the
\* events, the timer and the block numbers interleave.
ReceiptIsOwn ==
    \A c \in Sends : call[c].result # Pending =>
        \E e \in chain.events :
            /\ e.op = call[c].op
            /\ e.success <=> call[c].result = "success"
            /\ e.block > call[c].block

\* userEventResponse: an operation executed in a block after the one the call was
\* told of is reported, though the listener hears of other operations and of other
\* blocks first, unless a request of the listener itself fails.
LaterBlockIsReported ==
    \A c \in Sends :
        (call[c].fate = "mined" /\ \E e \in chain.events :
            e.op = call[c].op /\ call[c].block # NoReply /\ e.block > call[c].block)
        ~> (call[c].result # Pending \/ call[c].missed)

\* sendTransaction, "the response waits for events, which might be triggered before
\* the actual send returns": every operation that is executed is reported.
ExecutedIsReported ==
    \A c \in Sends : call[c].fate = "mined" ~> call[c].result # Pending
=============================================================================
