---------------------------- MODULE UserOpQueue ----------------------------
(***************************************************************************)
(* queueUserOpSender and sendQueuedUserOps of AASigner.ts: senders queue   *)
(* user operations, and a timer (or a caller of push) takes the first one  *)
(* of each sender and sends them to the EntryPoint as one bundle.          *)
(*                                                                         *)
(* Code between two awaits runs to its end before anything else does, so   *)
(* it is one step.  A push that returns early leaves everything as it was. *)
(***************************************************************************)
EXTENDS Integers, Sequences, FiniteSets

CONSTANTS
    Queues,                 \* the objects queueUserOpSender returned
    Senders,                \* the accounts that queue operations
    MaxOps,                 \* bound on the operations a sender gives to a queue
    MaxGiven,               \* bound on the operations of all senders
    MaxTimers,              \* bound on the intervals ever set on a queue
    IDLE_TIME,              \* 5000 ms, in ticks of the model's clock
    BUNDLE_SIZE_IMMEDIATE,  \* 3
    NaN                     \* JavaScript's undefined and NaN, which compare alike

ASSUME QueueAssumption ==
    /\ IsFiniteSet(Senders)
    /\ MaxOps \in Nat /\ MaxGiven \in Nat /\ MaxTimers \in Nat \ {0}
    /\ IDLE_TIME \in Nat /\ BUNDLE_SIZE_IMMEDIATE \in Nat
    /\ NaN \notin Int

VARIABLES
    given,      \* how many operations s has given to q
    queue,      \* queue[q][s]: the operations of s waiting in q
    queueSize,  \* the counter the code keeps of them
    age,        \* time since lastQueueUpdate, up to IDLE_TIME
    timers,     \* the intervals of q that are running
    handle,     \* _cancelInterval: the interval q remembers
    sending,    \* one flag for all the queues of the process
    flights,    \* the calls of sendQueuedUserOps that wait for an answer
    mempool,    \* bundles submitted and not mined, in the signer's nonce order
    mined       \* mined[q][s]: what has been executed, in order

vars == <<given, queue, queueSize, age, timers, handle, sending, flights, mempool, mined>>

\* The n-th operation that a sender gives to a queue.
Op == [queue : Queues, sender : Senders, n : 1..MaxOps]

\* handleOps is never called with an empty array.
Bundle == (SUBSET Op) \ {{}}

Flight == [queue : Queues, ops : Bundle, at : {"getSigner", "handleOps", "wait"}]

None == 0

\* The types of what queueUserOpSender and sendQueuedUserOps keep; in particular no
\* bundle that waits for an answer or to be mined is empty.
QueueTypeOK ==
    /\ given \in [Queues -> [Senders -> 0..MaxOps]]
    /\ queue \in [Queues -> [Senders -> Seq(Op)]]
    /\ queueSize \in [Queues -> Int \cup {NaN}]
    /\ age \in [Queues -> 0..IDLE_TIME \cup {NaN}]
    /\ timers \in [Queues -> SUBSET (1..MaxTimers)]
    /\ handle \in [Queues -> 0..MaxTimers]
    /\ sending \in BOOLEAN
    /\ flights \subseteq Flight
    /\ mempool \in Seq(Bundle)
    /\ mined \in [Queues -> [Senders -> Seq(1..MaxOps)]]

-----------------------------------------------------------------------------
\* Numbers as JavaScript has them: NaN absorbs, and compares false.
Plus(x, d) == IF x = NaN THEN NaN ELSE x + d

Less(x, y) == x # NaN /\ x < y

\* A counter and a time stamp that start at zero: not what the code does.
QueueInit_Initialised ==
    /\ queueSize = [q \in Queues |-> 0]
    /\ age = [q \in Queues |-> IDLE_TIME]

\* The new object's queueSize and lastQueueUpdate are never assigned.
QueueInit ==
    /\ queueSize = [q \in Queues |-> NaN]
    /\ age = [q \in Queues |-> NaN]

\* intervalMs is given (it has a default) or is null.
Init ==
    /\ given = [q \in Queues |-> [s \in Senders |-> 0]]
    /\ queue = [q \in Queues |-> [s \in Senders |-> <<>>]]
    /\ QueueInit
    /\ \/ handle = [q \in Queues |-> 1] /\ timers = [q \in Queues |-> {1}]
       \/ handle = [q \in Queues |-> None] /\ timers = [q \in Queues |-> {}]
    /\ sending = FALSE
    /\ flights = {}
    /\ mempool = <<>>
    /\ mined = [q \in Queues |-> [s \in Senders |-> <<>>]]

MayGive(q, s) ==
    /\ given[q][s] < MaxOps
    /\ Cardinality({op \in Op : op.n <= given[op.queue][op.sender]}) < MaxGiven

\* ret(userOp): the operation joins its sender's queue.
Enqueue(q, s) ==
    /\ MayGive(q, s)
    /\ given' = [given EXCEPT ![q][s] = @ + 1]
    /\ queue' = [queue EXCEPT ![q][s] =
                    Append(@, [queue |-> q, sender |-> s, n |-> given[q][s] + 1])]
    /\ age' = [age EXCEPT ![q] = 0]
    /\ queueSize' = [queueSize EXCEPT ![q] = Plus(@, 1)]
    /\ UNCHANGED <<timers, handle, sending, flights, mempool, mined>>

-----------------------------------------------------------------------------
(***************************************************************************)
(* The interval.                                                           *)
(***************************************************************************)
CancelledTimers(q) == IF handle[q] = None THEN timers[q] ELSE timers[q] \ {handle[q]}

CancelInterval(q) ==
    /\ timers' = [timers EXCEPT ![q] = CancelledTimers(q)]
    /\ handle' = [handle EXCEPT ![q] = None]
    /\ UNCHANGED <<given, queue, queueSize, age, sending, flights, mempool, mined>>

\* An interval that replaces the handle of one still running.
SetInterval_Leaks(q) ==
    /\ \E t \in 1..MaxTimers \ timers[q] :
          /\ timers' = [timers EXCEPT ![q] = @ \cup {t}]
          /\ handle' = [handle EXCEPT ![q] = t]
    /\ UNCHANGED <<given, queue, queueSize, age, sending, flights, mempool, mined>>

SetInterval(q) ==
    /\ \E t \in 1..MaxTimers \ timers[q] :
          /\ timers' = [timers EXCEPT ![q] = CancelledTimers(q) \cup {t}]
          /\ handle' = [handle EXCEPT ![q] = t]
    /\ UNCHANGED <<given, queue, queueSize, age, sending, flights, mempool, mined>>

-----------------------------------------------------------------------------
(***************************************************************************)
(* sendQueuedUserOps.                                                      *)
(***************************************************************************)
\* "queue too small/too young": the push returns.
Waits(q) ==
    \/ Less(queueSize[q], BUNDLE_SIZE_IMMEDIATE)
    \/ Less(age[q], IDLE_TIME)

NonEmpty(q) == {s \in Senders : queue[q][s] # <<>>}

\* pop(): the last operation.
shift_Pop(ops) == [op |-> ops[Len(ops)], rest |-> SubSeq(ops, 1, Len(ops) - 1)]

\* shift(): the first operation, and what it leaves.
shift(ops) == [op |-> Head(ops), rest |-> Tail(ops)]

\* What is left when queue[sender].shift() was called for the senders of S.
AfterShift(q, S) ==
    [queue EXCEPT ![q] =
        [s \in Senders |-> IF s \in S THEN shift(@[s]).rest ELSE @[s]]]

\* The operations that are packed when every sender had its turn.
Taken(q) == {shift(queue[q][s]).op : s \in NonEmpty(q)}

\* No flag keeps a second push from starting while one waits for an answer.
MayStart_Always == TRUE

MayStart == ~sending

\* Nobody looks whether there is anything to send.
Sendable_Empty(q) == ~Waits(q)

Sendable(q) == ~Waits(q) /\ NonEmpty(q) # {}

\* push: the call up to its first await.
Push(q) ==
    /\ MayStart
    /\ Sendable(q)
    /\ sending' = TRUE
    /\ queue' = AfterShift(q, NonEmpty(q))
    /\ queueSize' = [queueSize EXCEPT ![q] = Plus(@, -Cardinality(Taken(q)))]
    /\ flights' = flights \cup {[queue |-> q, ops |-> Taken(q), at |-> "getSigner"]}
    /\ UNCHANGED <<given, age, timers, handle, mempool, mined>>

\* packUserOp throws on the operation of s, which has left its queue by then and is
\* not counted.  It is lost with the ones packed before it; the senders behind s
\* have not had their turn.  The finally block lowers the flag.
PackThrows(q) ==
    /\ MayStart
    /\ Sendable(q)
    /\ \E s \in NonEmpty(q) : \E packed \in SUBSET (NonEmpty(q) \ {s}) :
          /\ queue' = AfterShift(q, packed \cup {s})
          /\ queueSize' = [queueSize EXCEPT ![q] = Plus(@, -Cardinality(packed))]
    /\ UNCHANGED <<given, age, timers, handle, sending, flights, mempool, mined>>

TimerFires(q) == timers[q] # {} /\ (Push(q) \/ PackThrows(q))

\* The signer's address is known: handleOps is called.
CallHandleOps(f) ==
    /\ f.at = "getSigner"
    /\ flights' = (flights \ {f}) \cup {[f EXCEPT !.at = "handleOps"]}
    /\ UNCHANGED <<given, queue, queueSize, age, timers, handle, sending, mempool, mined>>

\* The node accepts the transaction.
Submit(f) ==
    /\ f.at = "handleOps"
    /\ flights' = (flights \ {f}) \cup {[f EXCEPT !.at = "wait"]}
    /\ mempool' = Append(mempool, f.ops)
    /\ UNCHANGED <<given, queue, queueSize, age, timers, handle, sending, mined>>

\* The finally block, after the receipt or after whatever was thrown on the way.
Finish(f) ==
    /\ flights' = flights \ {f}
    /\ sending' = FALSE
    /\ UNCHANGED <<given, queue, queueSize, age, timers, handle, mempool, mined>>

\* An await throws: the node is unreachable, or refuses the transaction.
Fail(f) == Finish(f)

\* The receipt arrives, or says that the transaction reverted.
Receipt(f) ==
    /\ f.at = "wait"
    /\ \A i \in DOMAIN mempool : mempool[i] # f.ops
    /\ Finish(f)

\* The oldest transaction of the signer is mined: its operations are executed,
\* or the EntryPoint refuses one of them and with it the bundle.
Mine(executed) ==
    /\ mempool # <<>>
    /\ mempool' = Tail(mempool)
    /\ mined' = [q \in Queues |-> [s \in Senders |->
                    mined[q][s] \o
                    IF executed /\ \E op \in Head(mempool) : op.queue = q /\ op.sender = s
                    THEN << (CHOOSE op \in Head(mempool) : op.queue = q /\ op.sender = s).n >>
                    ELSE <<>>]]
    /\ UNCHANGED <<given, queue, queueSize, age, timers, handle, sending, flights>>

\* Time passes.
Tick ==
    /\ \E q \in Queues : Less(age[q], IDLE_TIME)
    /\ age' = [q \in Queues |-> IF Less(age[q], IDLE_TIME) THEN age[q] + 1 ELSE age[q]]
    /\ UNCHANGED <<given, queue, queueSize, timers, handle, sending, flights, mempool, mined>>

Next ==
    \/ \E q \in Queues :
          \/ \E s \in Senders : Enqueue(q, s)
          \/ CancelInterval(q)
          \/ SetInterval(q)
          \/ Push(q)
          \/ PackThrows(q)
    \/ \E f \in flights : CallHandleOps(f) \/ Submit(f) \/ Receipt(f) \/ Fail(f)
    \/ \E executed \in BOOLEAN : Mine(executed)
    \/ Tick

Spec == Init /\ [][Next]_vars

\* A running interval keeps firing, the clock keeps going, a request is answered or
\* fails, and a submitted transaction is mined.
FairSpec ==
    /\ Spec
    /\ \A q \in Queues : WF_vars(TimerFires(q))
    /\ WF_vars(\E f \in flights : CallHandleOps(f) \/ Submit(f) \/ Receipt(f))
    /\ WF_vars(\E executed \in BOOLEAN : Mine(executed))
    /\ WF_vars(Tick)

-----------------------------------------------------------------------------
(***************************************************************************)
(* Properties.                                                             *)
(***************************************************************************)

\* sendQueuedUserOps: at most one call is past the flag, the flag is up exactly
\* while one is, and a bundle has one operation of a sender at most, whichever of
\* the awaits failed in the calls before.
OneBundleInFlight ==
    /\ sending <=> flights # {}
    /\ \A f, g \in flights : f = g
    /\ \A f \in flights : \A o, p \in f.ops : o.sender = p.sender => o = p

\* The operations of a sender that may still be executed.
Outstanding(q, s) ==
    LET Of(ops) == {op.n : op \in {o \in ops : o.queue = q /\ o.sender = s}}
    IN  {queue[q][s][i].n : i \in DOMAIN queue[q][s]}
        \cup (UNION {Of(f.ops) : f \in {g \in flights : g.at # "wait"}})
        \cup (UNION {Of(mempool[i]) : i \in DOMAIN mempool})

\* queueUserOpSender: the operations of a sender are executed in the order in which
\* it queued them and none is executed twice, though a failed call may leave its
\* transaction behind and the next bundle overtakes the receipt.
ExecutedInOrder ==
    \A q \in Queues, s \in Senders :
        /\ \A i, j \in DOMAIN mined[q][s] : i < j => mined[q][s][i] < mined[q][s][j]
        /\ \A i \in DOMAIN mined[q][s], k \in Outstanding(q, s) : mined[q][s][i] < k

\* setInterval, cancelInterval: the interval that runs is the one the queue can
\* still cancel.
TimerIsOwned ==
    \A q \in Queues : timers[q] = IF handle[q] = None THEN {} ELSE {handle[q]}

\* sendQueuedUserOps, "after that much time with no new TX, send whatever you can":
\* while the interval runs, every operation leaves the queue, however few wait.
QueueDrains ==
    \A q \in Queues : [](timers[q] # {}) =>
        \A s \in Senders, n \in 1..MaxOps :
            LET waiting == [queue |-> q, sender |-> s, n |-> n] \in
                               {queue[q][s][i] : i \in DOMAIN queue[q][s]}
            IN  waiting ~> ~waiting
=============================================================================
