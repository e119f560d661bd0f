--------------------------- MODULE AASignerProofs ---------------------------
(***************************************************************************)
(* The two parts of AASigner.ts: the queues, for any queues, senders and   *)
(* bounds, and the signer, for any signers and overlapping calls.  They    *)
(* share no state; Spec is that of the queues, SignerSpec the signer's.    *)
(***************************************************************************)
EXTENDS UserOpQueue, AASigner, FiniteSetTheorems, TLAPS

(***************************************************************************)
(* The queues.                                                             *)
(*                                                                         *)
(* The operations of one sender to one queue pass through the places they  *)
(* can be in without overtaking each other: what is executed has lower     *)
(* numbers than what is in the mempool, that has lower numbers than what a *)
(* call is about to submit, and all of it lower ones than what still       *)
(* waits.  A call that waits for its receipt has submitted its operations: *)
(* they are in the mempool or done with, and are not counted twice.        *)
(***************************************************************************)
Waiting(q, s) == {queue[q][s][i] : i \in DOMAIN queue[q][s]}

SameSource(o, p) == o.queue = p.queue /\ o.sender = p.sender

\* o has been given, and came before everything that still waits.
LeftQueue(o) ==
    /\ o.n <= given[o.queue][o.sender]
    /\ \A w \in Waiting(o.queue, o.sender) : o.n < w.n

QueuesInOrder ==
    \A q \in Queues, s \in Senders :
        /\ \A w \in Waiting(q, s) : w.queue = q /\ w.sender = s /\ w.n <= given[q][s]
        /\ \A i, j \in DOMAIN queue[q][s] : i < j => queue[q][s][i].n < queue[q][s][j].n

FlightsInOrder ==
    \A f \in flights : \A o \in f.ops : o.queue = f.queue /\ LeftQueue(o)

MempoolInOrder ==
    \A i \in DOMAIN mempool : \A o \in mempool[i] :
        /\ LeftQueue(o)
        /\ \A p \in mempool[i] : SameSource(o, p) => o = p
        /\ \A j \in DOMAIN mempool : i < j =>
              \A p \in mempool[j] : SameSource(o, p) => o.n < p.n
        /\ \A f \in flights : f.at # "wait" =>
              \A p \in f.ops : SameSource(o, p) => o.n < p.n

\* What has been executed for q and s came before o.
After(o, q, s) ==
    o.queue = q /\ o.sender = s => \A i \in DOMAIN mined[q][s] : mined[q][s][i] < o.n

MinedInOrder ==
    \A q \in Queues, s \in Senders :
        /\ \A i \in DOMAIN mined[q][s] : mined[q][s][i] <= given[q][s]
        /\ \A i, j \in DOMAIN mined[q][s] : i < j => mined[q][s][i] < mined[q][s][j]
        /\ \A w \in Waiting(q, s) : After(w, q, s)
        /\ \A f \in flights : f.at # "wait" => \A o \in f.ops : After(o, q, s)
        /\ \A i \in DOMAIN mempool : \A o \in mempool[i] : After(o, q, s)

Ordered == QueuesInOrder /\ FlightsInOrder /\ MempoolInOrder /\ MinedInOrder

QueueInv == QueueTypeOK /\ OneBundleInFlight /\ TimerIsOwned /\ Ordered

-----------------------------------------------------------------------------
LEMMA OpTypes ==
    ASSUME NEW o \in Op
    PROVE  o.queue \in Queues /\ o.sender \in Senders /\ o.n \in Nat /\ o.n \in 1..MaxOps
BY QueueAssumption DEF Op

LEMMA ElementType ==
    ASSUME NEW S, NEW seq \in Seq(S), NEW i \in DOMAIN seq
    PROVE  seq[i] \in S
OBVIOUS

LEMMA AppendType ==
    ASSUME NEW S, NEW seq \in Seq(S), NEW x \in S
    PROVE  Append(seq, x) \in Seq(S)
OBVIOUS

\* The elements of a sequence with one more, and without the first.
LEMMA Appended ==
    ASSUME NEW S, NEW seq \in Seq(S), NEW x \in S, NEW i \in DOMAIN Append(seq, x)
    PROVE  /\ i \in Nat
           /\ \/ i \in DOMAIN seq /\ Append(seq, x)[i] = seq[i]
              \/ i = Len(seq) + 1 /\ Append(seq, x)[i] = x
OBVIOUS

LEMMA Shifted ==
    ASSUME NEW S, NEW seq \in Seq(S), seq # <<>>
    PROVE  /\ 1 \in DOMAIN seq /\ Head(seq) = seq[1] /\ Tail(seq) \in Seq(S)
           /\ \A i \in DOMAIN Tail(seq) :
                 i \in Nat /\ 1 < i + 1 /\ i + 1 \in DOMAIN seq /\ Tail(seq)[i] = seq[i + 1]
OBVIOUS

LEMMA PlaceTypes ==
    ASSUME QueueTypeOK
    PROVE  /\ \A q \in Queues, s \in Senders :
                 /\ queue[q][s] \in Seq(Op) /\ Waiting(q, s) \subseteq Op
                 /\ given[q][s] \in Nat /\ mined[q][s] \in Seq(1..MaxOps)
                 /\ \A i \in DOMAIN mined[q][s] : mined[q][s][i] \in Nat
           /\ \A f \in flights : f.queue \in Queues /\ f.ops \subseteq Op
           /\ mempool \in Seq(Bundle)
           /\ \A i \in DOMAIN mempool : mempool[i] \subseteq Op
<1>1. ASSUME NEW q \in Queues, NEW s \in Senders
      PROVE  /\ queue[q][s] \in Seq(Op) /\ Waiting(q, s) \subseteq Op
             /\ given[q][s] \in Nat /\ mined[q][s] \in Seq(1..MaxOps)
             /\ \A i \in DOMAIN mined[q][s] : mined[q][s][i] \in Nat
  <2>1. queue[q][s] \in Seq(Op) /\ given[q][s] \in 0..MaxOps /\ mined[q][s] \in Seq(1..MaxOps)
    BY DEF QueueTypeOK
  <2>2. Waiting(q, s) \subseteq Op
    BY <2>1 DEF Waiting
  <2>3. \A i \in DOMAIN mined[q][s] : mined[q][s][i] \in 1..MaxOps
    BY <2>1, ElementType
  <2> QED
    BY <2>1, <2>2, <2>3, QueueAssumption
<1>2. \A f \in flights : f.queue \in Queues /\ f.ops \subseteq Op
  BY DEF QueueTypeOK, Flight, Bundle
<1>3. mempool \in Seq(Bundle) /\ \A i \in DOMAIN mempool : mempool[i] \subseteq Op
  BY DEF QueueTypeOK, Bundle
<1> QED
  BY <1>1, <1>2, <1>3

\* An operation that has left its queue stays ahead of it: the queue loses operations,
\* or gains one with the next number.
LEMMA StaysAhead ==
    ASSUME QueueTypeOK, QueueTypeOK', NEW o \in Op, LeftQueue(o),
           given'[o.queue][o.sender] >= given[o.queue][o.sender],
           \A w \in Waiting(o.queue, o.sender)' :
               w \in Waiting(o.queue, o.sender) \/ w.n > given[o.queue][o.sender]
    PROVE  LeftQueue(o)'
<1>1. o.n \in Nat /\ o.queue \in Queues /\ o.sender \in Senders
  BY OpTypes
<1>2. given[o.queue][o.sender] \in Nat /\ given'[o.queue][o.sender] \in Nat
      /\ Waiting(o.queue, o.sender)' \subseteq Op
  <2>1. given[o.queue][o.sender] \in Nat
    BY <1>1, PlaceTypes
  <2>2. given'[o.queue][o.sender] \in 0..MaxOps
    BY <1>1 DEF QueueTypeOK
  <2>3. queue'[o.queue][o.sender] \in Seq(Op)
    BY <1>1 DEF QueueTypeOK
  <2> QED
    BY <2>1, <2>2, <2>3, QueueAssumption DEF Waiting
<1>3. o.n <= given[o.queue][o.sender]
  BY DEF LeftQueue
<1>4. ASSUME NEW w \in Waiting(o.queue, o.sender)' PROVE o.n < w.n
  <2>1. w.n \in Nat
    BY <1>2, OpTypes
  <2> QED
    BY <1>1, <1>2, <1>3, <2>1 DEF LeftQueue
<1> QED
  BY <1>1, <1>2, <1>3, <1>4 DEF LeftQueue

\* Steps that take calls away, or move them on.
LEMMA FewerFlights ==
    ASSUME Ordered, UNCHANGED <<given, queue, mempool, mined>>,
           \A f \in flights' : \E g \in flights :
               f.queue = g.queue /\ f.ops = g.ops /\ (f.at # "wait" => g.at # "wait")
    PROVE  Ordered'
<1>1. QueuesInOrder'
  BY DEF Ordered, QueuesInOrder, Waiting
<1>2. FlightsInOrder'
  BY DEF Ordered, FlightsInOrder, LeftQueue, Waiting
<1>3. MempoolInOrder'
  BY DEF Ordered, MempoolInOrder, LeftQueue, Waiting
<1>4. MinedInOrder'
  BY DEF Ordered, MinedInOrder, After, Waiting
<1> QED
  BY <1>1, <1>2, <1>3, <1>4 DEF Ordered

LEMMA SameOrder ==
    ASSUME Ordered, UNCHANGED <<given, queue, flights, mempool, mined>>
    PROVE  Ordered'
BY FewerFlights

-----------------------------------------------------------------------------
(***************************************************************************)
(* ret(userOp), setInterval, cancelInterval, time.                         *)
(***************************************************************************)
LEMMA EnqueueStep ==
    ASSUME QueueInv, NEW q \in Queues, NEW s \in Senders, Enqueue(q, s)
    PROVE  QueueInv'
<1> DEFINE new == [queue |-> q, sender |-> s, n |-> given[q][s] + 1]
<1>1. given[q][s] \in Nat /\ given[q][s] + 1 \in 1..MaxOps
  BY QueueAssumption, PlaceTypes DEF QueueInv, Enqueue, MayGive
<1>2. new \in Op /\ new.queue = q /\ new.sender = s /\ new.n = given[q][s] + 1
  BY <1>1 DEF Op
<1> HIDE DEF new
<1>3. /\ given' = [given EXCEPT ![q][s] = @ + 1]
      /\ queue' = [queue EXCEPT ![q][s] = Append(@, new)]
      /\ age' = [age EXCEPT ![q] = 0]
      /\ queueSize' = [queueSize EXCEPT ![q] = Plus(@, 1)]
      /\ UNCHANGED <<timers, handle, sending, flights, mempool, mined>>
  BY DEF Enqueue, new
<1>4. QueueTypeOK'
  <2>1. given' \in [Queues -> [Senders -> 0..MaxOps]]
    BY <1>1, <1>3, QueueAssumption DEF QueueInv, QueueTypeOK
  <2>2. queue' \in [Queues -> [Senders -> Seq(Op)]]
    BY <1>2, <1>3 DEF QueueInv, QueueTypeOK
  <2>3. queueSize' \in [Queues -> Int \cup {NaN}]
    BY <1>3 DEF QueueInv, QueueTypeOK, Plus
  <2>4. age' \in [Queues -> 0..IDLE_TIME \cup {NaN}]
    BY <1>3, QueueAssumption DEF QueueInv, QueueTypeOK
  <2> QED
    BY <1>3, <2>1, <2>2, <2>3, <2>4 DEF QueueInv, QueueTypeOK
<1>5. OneBundleInFlight' /\ TimerIsOwned'
  BY <1>3 DEF QueueInv, OneBundleInFlight, TimerIsOwned
<1>6. ASSUME NEW p \in Queues, NEW r \in Senders
      PROVE  \/ /\ p = q /\ r = s
                /\ given'[p][r] = given[p][r] + 1 /\ queue'[p][r] = Append(queue[p][r], new)
             \/ /\ ~(p = q /\ r = s)
                /\ given'[p][r] = given[p][r] /\ queue'[p][r] = queue[p][r]
  BY <1>3 DEF QueueInv, QueueTypeOK
<1>7. ASSUME NEW p \in Queues, NEW r \in Senders
      PROVE  /\ given'[p][r] \in Nat /\ given'[p][r] >= given[p][r]
             /\ \A w \in Waiting(p, r)' :
                   \/ w \in Waiting(p, r)
                   \/ w = new /\ p = q /\ r = s
  <2>1. queue[p][r] \in Seq(Op) /\ given[p][r] \in Nat
    BY PlaceTypes DEF QueueInv
  <2>2. CASE queue'[p][r] = queue[p][r] /\ given'[p][r] = given[p][r]
    BY <2>1, <2>2 DEF Waiting
  <2>3. CASE /\ p = q /\ r = s
             /\ given'[p][r] = given[p][r] + 1 /\ queue'[p][r] = Append(queue[p][r], new)
    <3>1. ASSUME NEW i \in DOMAIN queue'[p][r]
          PROVE  \/ queue'[p][r][i] = new
                 \/ i \in DOMAIN queue[p][r] /\ queue'[p][r][i] = queue[p][r][i]
      BY <1>2, <2>1, <2>3, Appended
    <3> QED
      BY <2>1, <2>3, <3>1 DEF Waiting
  <2> QED
    BY <1>6, <2>2, <2>3
<1>8. ASSUME NEW o \in Op, LeftQueue(o) PROVE LeftQueue(o)'
  <2>1. o.queue \in Queues /\ o.sender \in Senders
    BY OpTypes
  <2>2. ASSUME NEW w \in Waiting(o.queue, o.sender)'
        PROVE  w \in Waiting(o.queue, o.sender) \/ w.n > given[o.queue][o.sender]
    BY <1>1, <1>2, <1>7, <2>1
  <2> QED
    BY <1>4, <1>7, <1>8, <2>1, <2>2, StaysAhead DEF QueueInv
<1>9. QueuesInOrder'
  <2> SUFFICES ASSUME NEW p \in Queues, NEW r \in Senders
               PROVE  /\ \A w \in Waiting(p, r)' :
                            w.queue = p /\ w.sender = r /\ w.n <= given'[p][r]
                      /\ \A i, j \in DOMAIN queue'[p][r] :
                            i < j => queue'[p][r][i].n < queue'[p][r][j].n
    BY DEF QueuesInOrder
  <2>1. /\ queue[p][r] \in Seq(Op) /\ Waiting(p, r) \subseteq Op /\ given[p][r] \in Nat
        /\ \A i \in DOMAIN queue[p][r] : queue[p][r][i] \in Waiting(p, r)
    BY PlaceTypes DEF QueueInv, Waiting
  <2>2. /\ \A w \in Waiting(p, r) : w.queue = p /\ w.sender = r /\ w.n <= given[p][r]
        /\ \A i, j \in DOMAIN queue[p][r] : i < j => queue[p][r][i].n < queue[p][r][j].n
    BY DEF QueueInv, Ordered, QueuesInOrder
  <2>3. ASSUME NEW w \in Waiting(p, r)'
        PROVE  w.queue = p /\ w.sender = r /\ w.n <= given'[p][r]
    <3>1. CASE w \in Waiting(p, r)
      <4>1. w.n \in Nat
        BY <2>1, <3>1, OpTypes
      <4> QED
        BY <1>7, <2>1, <2>2, <3>1, <4>1
    <3>2. CASE w = new /\ p = q /\ r = s
      BY <1>1, <1>2, <1>6, <3>2
    <3> QED
      BY <1>7, <3>1, <3>2
  <2>4. ASSUME NEW i \in DOMAIN queue'[p][r], NEW j \in DOMAIN queue'[p][r], i < j
        PROVE  queue'[p][r][i].n < queue'[p][r][j].n
    <3>1. CASE queue'[p][r] = queue[p][r]
      BY <2>2, <2>4, <3>1
    <3>2. CASE p = q /\ r = s /\ queue'[p][r] = Append(queue[p][r], new)
      <4>1. /\ i \in DOMAIN queue[p][r] /\ queue'[p][r][i] = queue[p][r][i]
            /\ \/ j \in DOMAIN queue[p][r] /\ queue'[p][r][j] = queue[p][r][j]
               \/ queue'[p][r][j] = new
        BY <1>2, <2>1, <2>4, <3>2
      <4>2. queue[p][r][i].n \in Nat /\ queue[p][r][i].n <= given[p][r]
        BY <2>1, <2>2, <4>1, OpTypes
      <4>3. CASE j \in DOMAIN queue[p][r] /\ queue'[p][r][j] = queue[p][r][j]
        BY <2>2, <2>4, <4>1, <4>3
      <4>4. CASE queue'[p][r][j] = new
        <5>1. queue'[p][r][j].n = given[p][r] + 1
          BY <1>2, <3>2, <4>4
        <5>2. queue'[p][r][i].n \in Nat /\ queue'[p][r][i].n <= given[p][r]
          BY <4>1, <4>2
        <5> QED
          BY <2>1, <5>1, <5>2
      <4> QED
        BY <4>1, <4>3, <4>4
    <3> QED
      BY <1>6, <3>1, <3>2
  <2> QED
    BY <2>3, <2>4
<1>10. FlightsInOrder'
  BY <1>3, <1>8, PlaceTypes DEF QueueInv, Ordered, FlightsInOrder
<1>11. MempoolInOrder'
  BY <1>3, <1>8, PlaceTypes DEF QueueInv, Ordered, MempoolInOrder
<1>12. MinedInOrder'
  <2> SUFFICES ASSUME NEW p \in Queues, NEW r \in Senders
               PROVE  /\ \A i \in DOMAIN mined[p][r] : mined[p][r][i] <= given'[p][r]
                      /\ \A w \in Waiting(p, r)' : After(w, p, r)
    BY <1>3 DEF QueueInv, Ordered, MinedInOrder, After
  <2>1. /\ \A i \in DOMAIN mined[p][r] : mined[p][r][i] <= given[p][r] /\ mined[p][r][i] \in Nat
        /\ given[p][r] \in Nat
        /\ \A w \in Waiting(p, r) : After(w, p, r)
    BY PlaceTypes DEF QueueInv, Ordered, MinedInOrder
  <2>2. \A i \in DOMAIN mined[p][r] : mined[p][r][i] <= given'[p][r]
    BY <1>7, <2>1
  <2>3. p = q /\ r = s => After(new, p, r)
    BY <1>1, <1>2, <2>1 DEF After
  <2> QED
    BY <1>7, <2>1, <2>2, <2>3
<1> QED
  BY <1>4, <1>5, <1>9, <1>10, <1>11, <1>12 DEF QueueInv, Ordered


LEMMA TimerStep ==
    ASSUME QueueInv, NEW q \in Queues, CancelInterval(q) \/ SetInterval(q)
    PROVE  QueueInv'
<1>1. /\ timers \in [Queues -> SUBSET (1..MaxTimers)] /\ handle \in [Queues -> 0..MaxTimers]
      /\ timers[q] = IF handle[q] = None THEN {} ELSE {handle[q]}
  BY DEF QueueInv, QueueTypeOK, TimerIsOwned
<1>2. CancelledTimers(q) = {}
  BY <1>1 DEF CancelledTimers
<1>3. UNCHANGED <<given, queue, queueSize, age, sending, flights, mempool, mined>>
  BY DEF CancelInterval, SetInterval
<1>4. /\ timers' \in [Queues -> SUBSET (1..MaxTimers)] /\ handle' \in [Queues -> 0..MaxTimers]
      /\ TimerIsOwned'
  <2>1. CASE CancelInterval(q)
    <3>1. /\ timers' = [timers EXCEPT ![q] = {}] /\ handle' = [handle EXCEPT ![q] = None]
          /\ None \in 0..MaxTimers
      BY <1>2, <2>1, QueueAssumption DEF CancelInterval, None
    <3> QED
      BY <1>1, <3>1 DEF QueueInv, TimerIsOwned
  <2>2. CASE SetInterval(q)
    <3>1. PICK t \in 1..MaxTimers :
             timers' = [timers EXCEPT ![q] = {t}] /\ handle' = [handle EXCEPT ![q] = t]
      BY <1>2, <2>2 DEF SetInterval
    <3>2. t # None /\ t \in 0..MaxTimers
      BY QueueAssumption DEF None
    <3> QED
      BY <1>1, <3>1, <3>2 DEF QueueInv, TimerIsOwned
  <2> QED
    BY <2>1, <2>2
<1>5. QueueTypeOK' /\ OneBundleInFlight'
  BY <1>3, <1>4 DEF QueueInv, QueueTypeOK, OneBundleInFlight
<1>6. Ordered'
  BY <1>3, SameOrder DEF QueueInv
<1> QED
  BY <1>4, <1>5, <1>6 DEF QueueInv

LEMMA TickStep ==
    ASSUME QueueInv, Tick
    PROVE  QueueInv'
<1>1. UNCHANGED <<given, queue, queueSize, timers, handle, sending, flights, mempool, mined>>
  BY DEF Tick
<1>2. age' \in [Queues -> 0..IDLE_TIME \cup {NaN}]
  <2>1. ASSUME NEW q \in Queues
        PROVE  (IF Less(age[q], IDLE_TIME) THEN age[q] + 1 ELSE age[q]) \in 0..IDLE_TIME \cup {NaN}
    <3>1. age[q] \in 0..IDLE_TIME \cup {NaN}
      BY DEF QueueInv, QueueTypeOK
    <3> QED
      BY <3>1, QueueAssumption DEF Less
  <2> QED
    BY <2>1 DEF Tick
<1>3. QueueTypeOK' /\ OneBundleInFlight' /\ TimerIsOwned'
  BY <1>1, <1>2 DEF QueueInv, QueueTypeOK, OneBundleInFlight, TimerIsOwned
<1>4. Ordered'
  BY <1>1, SameOrder DEF QueueInv
<1> QED
  BY <1>3, <1>4 DEF QueueInv

-----------------------------------------------------------------------------
(***************************************************************************)
(* sendQueuedUserOps.                                                      *)
(***************************************************************************)
LEMMA TakenTypes ==
    ASSUME QueueInv, NEW q \in Queues
    PROVE  /\ Taken(q) \in SUBSET Op /\ (NonEmpty(q) # {} => Taken(q) \in Bundle)
           /\ Cardinality(Taken(q)) \in Nat
           /\ \A o \in Taken(q) :
                 /\ o.queue = q /\ o.sender \in Senders
                 /\ queue[q][o.sender] # <<>> /\ o = queue[q][o.sender][1]
                 /\ o \in Waiting(q, o.sender)
<1>1. ASSUME NEW s \in NonEmpty(q)
      PROVE  /\ shift(queue[q][s]).op = queue[q][s][1] /\ queue[q][s] # <<>>
             /\ queue[q][s][1] \in Op /\ queue[q][s][1] \in Waiting(q, s)
             /\ queue[q][s][1].queue = q /\ queue[q][s][1].sender = s
  <2>1. s \in Senders /\ queue[q][s] # <<>> /\ queue[q][s] \in Seq(Op)
    BY PlaceTypes DEF NonEmpty, QueueInv
  <2>2. 1 \in DOMAIN queue[q][s] /\ Head(queue[q][s]) = queue[q][s][1]
    BY <2>1, Shifted
  <2>3. queue[q][s][1] \in Op /\ queue[q][s][1] \in Waiting(q, s)
    BY <2>1, <2>2, ElementType DEF Waiting
  <2> QED
    BY <2>1, <2>2, <2>3 DEF shift, QueueInv, Ordered, QueuesInOrder
<1>2. ASSUME NEW o \in Taken(q)
      PROVE  /\ o \in Op /\ o.queue = q /\ o.sender \in Senders
             /\ queue[q][o.sender] # <<>> /\ o = queue[q][o.sender][1]
             /\ o \in Waiting(q, o.sender)
  <2>1. PICK s \in NonEmpty(q) : o = shift(queue[q][s]).op
    BY DEF Taken
  <2>2. o = queue[q][s][1] /\ o.sender = s /\ s \in Senders
    BY <1>1, <2>1 DEF NonEmpty
  <2> QED
    BY <1>1, <2>1, <2>2
<1>4. NonEmpty(q) # {} => Taken(q) # {}
  BY DEF Taken
<1>3. Cardinality(Taken(q)) \in Nat
  <2>1. IsFiniteSet(NonEmpty(q))
    <3>1. NonEmpty(q) \subseteq Senders
      BY DEF NonEmpty
    <3> QED
      BY <3>1, QueueAssumption, FS_Subset
  <2> DEFINE Op1 == [s \in NonEmpty(q) |-> shift(queue[q][s]).op]
  <2>2. Op1 \in Surjection(NonEmpty(q), Taken(q))
    BY DEF Surjection, Taken
  <2>3. IsFiniteSet(Taken(q))
    BY <2>1, <2>2, FS_Surjection
  <2> QED
    BY <2>3, FS_CardinalityType
<1>5. Taken(q) \subseteq Op
  BY <1>2
<1>6. NonEmpty(q) # {} => Taken(q) \in Bundle
  BY <1>4, <1>5, Zenon DEF Bundle
<1> QED
  BY <1>2, <1>3, <1>5, <1>6

\* Some of the senders that wait lose their first operation.
LEMMA ShiftFacts ==
    ASSUME QueueInv, NEW q \in Queues, NEW S \in SUBSET NonEmpty(q),
           queue' = AfterShift(q, S)
    PROVE  /\ queue' \in [Queues -> [Senders -> Seq(Op)]]
           /\ \A p \in Queues, r \in Senders :
                 /\ Waiting(p, r)' \subseteq Waiting(p, r)
                 /\ p = q /\ r \in S =>
                       \A w \in Waiting(p, r)' : queue[p][r][1].n < w.n
                 /\ \A i, j \in DOMAIN queue'[p][r] :
                       i < j => queue'[p][r][i].n < queue'[p][r][j].n
<1>1. ASSUME NEW p \in Queues, NEW r \in Senders
      PROVE  \/ queue'[p][r] = queue[p][r] /\ (p # q \/ r \notin S)
             \/ queue'[p][r] = Tail(queue[p][r]) /\ p = q /\ queue[p][r] # <<>>
  BY DEF AfterShift, shift, NonEmpty, QueueInv, QueueTypeOK
<1>2. queue' \in [Queues -> [Senders -> Seq(Op)]]
  <2>1. ASSUME NEW r \in Senders
        PROVE  (IF r \in S THEN shift(queue[q][r]).rest ELSE queue[q][r]) \in Seq(Op)
    <3>1. queue[q][r] \in Seq(Op)
      BY PlaceTypes DEF QueueInv
    <3> QED
      BY <3>1, Shifted DEF shift, NonEmpty
  <2> QED
    BY <2>1 DEF AfterShift, QueueInv, QueueTypeOK
<1>3. ASSUME NEW p \in Queues, NEW r \in Senders
      PROVE  /\ Waiting(p, r)' \subseteq Waiting(p, r)
             /\ p = q /\ r \in S =>
                   \A w \in Waiting(p, r)' : queue[p][r][1].n < w.n
             /\ \A i, j \in DOMAIN queue'[p][r] :
                   i < j => queue'[p][r][i].n < queue'[p][r][j].n
  <2>1. queue[p][r] \in Seq(Op)
    BY PlaceTypes DEF QueueInv
  <2>2. \A i, j \in DOMAIN queue[p][r] : i < j => queue[p][r][i].n < queue[p][r][j].n
    BY DEF QueueInv, Ordered, QueuesInOrder
  <2>3. CASE queue'[p][r] = queue[p][r] /\ (p # q \/ r \notin S)
    BY <2>2, <2>3 DEF Waiting
  <2>4. CASE queue'[p][r] = Tail(queue[p][r]) /\ p = q /\ queue[p][r] # <<>>
    <3>1. /\ 1 \in DOMAIN queue[p][r]
          /\ \A i \in DOMAIN queue'[p][r] :
                /\ i \in Nat /\ 1 < i + 1 /\ i + 1 \in DOMAIN queue[p][r]
                /\ queue'[p][r][i] = queue[p][r][i + 1]
      BY <2>1, <2>4, Shifted
    <3>2. Waiting(p, r)' \subseteq Waiting(p, r)
      BY <3>1 DEF Waiting
    <3>3. \A w \in Waiting(p, r)' : queue[p][r][1].n < w.n
      BY <2>2, <3>1 DEF Waiting
    <3>4. ASSUME NEW i \in DOMAIN queue'[p][r], NEW j \in DOMAIN queue'[p][r], i < j
          PROVE  queue'[p][r][i].n < queue'[p][r][j].n
      <4>1. i + 1 < j + 1
        BY <3>1, <3>4
      <4> QED
        BY <2>2, <3>1, <4>1
    <3> QED
      BY <3>2, <3>3, <3>4
  <2> QED
    BY <1>1, <2>3, <2>4
<1> QED
  BY <1>2, <1>3

LEMMA PushStep ==
    ASSUME QueueInv, NEW q \in Queues, Push(q)
    PROVE  QueueInv'
<1> DEFINE new == [queue |-> q, ops |-> Taken(q), at |-> "getSigner"]
<1>1. flights = {} /\ flights' = {new} /\ sending'
      /\ UNCHANGED <<given, age, timers, handle, mempool, mined>>
  BY DEF Push, MayStart, QueueInv, OneBundleInFlight
<1>2. new \in Flight /\ new.queue = q /\ new.ops = Taken(q) /\ new.at = "getSigner"
  BY TakenTypes DEF Flight, Push, Sendable
<1>3. NonEmpty(q) \in SUBSET NonEmpty(q) /\ queue' = AfterShift(q, NonEmpty(q))
  BY DEF Push
<1> HIDE DEF new
<1>4. QueueTypeOK'
  <2>1. queue' \in [Queues -> [Senders -> Seq(Op)]]
    BY <1>3, ShiftFacts
  <2>2. queueSize' \in [Queues -> Int \cup {NaN}]
    <3>1. queueSize' = [queueSize EXCEPT ![q] = Plus(@, -Cardinality(Taken(q)))]
      BY DEF Push
    <3>2. Plus(queueSize[q], -Cardinality(Taken(q))) \in Int \cup {NaN}
      BY TakenTypes DEF Plus, QueueInv, QueueTypeOK
    <3> QED
      BY <3>1, <3>2 DEF QueueInv, QueueTypeOK
  <2>3. sending' \in BOOLEAN
    BY DEF Push
  <2> QED
    BY <1>1, <1>2, <2>1, <2>2, <2>3 DEF QueueInv, QueueTypeOK
<1>5. TimerIsOwned'
  BY <1>1 DEF QueueInv, TimerIsOwned
<1>6. OneBundleInFlight'
  BY <1>1, <1>2, TakenTypes DEF OneBundleInFlight
<1>7. ASSUME NEW p \in Queues, NEW r \in Senders
      PROVE  /\ Waiting(p, r)' \subseteq Waiting(p, r)
             /\ p = q /\ queue[p][r] # <<>> =>
                   \A w \in Waiting(p, r)' : queue[p][r][1].n < w.n
             /\ \A i, j \in DOMAIN queue'[p][r] :
                   i < j => queue'[p][r][i].n < queue'[p][r][j].n
  <2>1. p = q /\ queue[p][r] # <<>> => r \in NonEmpty(q)
    BY DEF NonEmpty
  <2> QED
    BY <1>3, <2>1, ShiftFacts
<1>8. ASSUME NEW o \in Op, LeftQueue(o) PROVE LeftQueue(o)'
  <2>1. o.queue \in Queues /\ o.sender \in Senders
    BY OpTypes
  <2>2. given'[o.queue][o.sender] >= given[o.queue][o.sender]
    BY <1>1, <2>1, PlaceTypes DEF QueueInv
  <2> QED
    BY <1>4, <1>7, <1>8, <2>1, <2>2, StaysAhead DEF QueueInv
<1>9. QueuesInOrder'
  BY <1>1, <1>7 DEF QueueInv, Ordered, QueuesInOrder
<1>10. FlightsInOrder'
  <2> SUFFICES ASSUME NEW o \in Taken(q) PROVE o.queue = q /\ LeftQueue(o)'
    BY <1>1, <1>2 DEF FlightsInOrder
  <2>1. /\ o.queue = q /\ o.sender \in Senders /\ queue[q][o.sender] # <<>>
        /\ o = queue[q][o.sender][1] /\ o \in Waiting(q, o.sender)
    BY TakenTypes
  <2>2. o.n <= given'[o.queue][o.sender]
    BY <1>1, <2>1 DEF QueueInv, Ordered, QueuesInOrder
  <2>3. \A w \in Waiting(o.queue, o.sender)' : o.n < w.n
    BY <1>7, <2>1
  <2> QED
    BY <2>1, <2>2, <2>3 DEF LeftQueue
<1>11. MempoolInOrder'
  <2> SUFFICES ASSUME NEW i \in DOMAIN mempool, NEW o \in mempool[i]
               PROVE  /\ LeftQueue(o)'
                      /\ \A p \in Taken(q) : SameSource(o, p) => o.n < p.n
    BY <1>1, <1>2 DEF MempoolInOrder, QueueInv, Ordered
  <2>1. o \in Op /\ LeftQueue(o)
    BY PlaceTypes DEF QueueInv, Ordered, MempoolInOrder
  <2>2. ASSUME NEW p \in Taken(q), SameSource(o, p) PROVE o.n < p.n
    <3>1. p \in Waiting(o.queue, o.sender)
      BY <2>2, TakenTypes DEF SameSource
    <3> QED
      BY <2>1, <3>1 DEF LeftQueue
  <2> QED
    BY <1>8, <2>1, <2>2
<1>12. MinedInOrder'
  <2> SUFFICES ASSUME NEW p \in Queues, NEW r \in Senders
               PROVE  /\ \A w \in Waiting(p, r)' : After(w, p, r)
                      /\ \A o \in Taken(q) : After(o, p, r)
    BY <1>1, <1>2 DEF QueueInv, Ordered, MinedInOrder, After
  <2>1. \A w \in Waiting(p, r) : After(w, p, r)
    BY DEF QueueInv, Ordered, MinedInOrder
  <2>2. ASSUME NEW o \in Taken(q), o.queue = p, o.sender = r PROVE After(o, p, r)
    BY <2>1, <2>2, TakenTypes
  <2> QED
    BY <1>7, <2>1, <2>2 DEF After
<1> QED
  BY <1>4, <1>5, <1>6, <1>9, <1>10, <1>11, <1>12 DEF QueueInv, Ordered

LEMMA PackThrowsStep ==
    ASSUME QueueInv, NEW q \in Queues, PackThrows(q)
    PROVE  QueueInv'
<1>1. UNCHANGED <<given, age, timers, handle, sending, flights, mempool, mined>>
  BY DEF PackThrows
<1>2. PICK s \in NonEmpty(q) : \E packed \in SUBSET (NonEmpty(q) \ {s}) :
         /\ queue' = AfterShift(q, packed \cup {s})
         /\ queueSize' = [queueSize EXCEPT ![q] = Plus(@, -Cardinality(packed))]
  BY DEF PackThrows
<1>12. PICK packed \in SUBSET (NonEmpty(q) \ {s}) :
         /\ queue' = AfterShift(q, packed \cup {s})
         /\ queueSize' = [queueSize EXCEPT ![q] = Plus(@, -Cardinality(packed))]
  BY <1>2
<1>3. packed \cup {s} \in SUBSET NonEmpty(q)
  OBVIOUS
<1>4. /\ queue' \in [Queues -> [Senders -> Seq(Op)]]
      /\ \A p \in Queues, r \in Senders :
            /\ Waiting(p, r)' \subseteq Waiting(p, r)
            /\ \A i, j \in DOMAIN queue'[p][r] :
                  i < j => queue'[p][r][i].n < queue'[p][r][j].n
  BY <1>12, <1>3, ShiftFacts
<1>5. QueueTypeOK'
  <2>1. Cardinality(packed) \in Nat
    <3>1. packed \subseteq Senders
      BY DEF NonEmpty
    <3> QED
      BY <3>1, QueueAssumption, FS_Subset, FS_CardinalityType
  <2>2. Plus(queueSize[q], -Cardinality(packed)) \in Int \cup {NaN}
    BY <2>1 DEF Plus, QueueInv, QueueTypeOK
  <2>3. queueSize' \in [Queues -> Int \cup {NaN}]
    BY <1>12, <2>2 DEF QueueInv, QueueTypeOK
  <2> QED
    BY <1>1, <1>4, <2>3 DEF QueueInv, QueueTypeOK
<1>6. TimerIsOwned' /\ OneBundleInFlight'
  BY <1>1 DEF QueueInv, TimerIsOwned, OneBundleInFlight
<1>7. ASSUME NEW o \in Op, LeftQueue(o) PROVE LeftQueue(o)'
  <2>1. o.queue \in Queues /\ o.sender \in Senders
    BY OpTypes
  <2>2. given'[o.queue][o.sender] >= given[o.queue][o.sender]
    BY <1>1, <2>1, PlaceTypes DEF QueueInv
  <2> QED
    BY <1>4, <1>5, <1>7, <2>1, <2>2, StaysAhead DEF QueueInv
<1>8. QueuesInOrder'
  BY <1>1, <1>4 DEF QueueInv, Ordered, QueuesInOrder
<1>9. FlightsInOrder'
  <2>1. \A f \in flights : f.ops \subseteq Op
    BY PlaceTypes DEF QueueInv
  <2> QED
    BY <1>1, <1>7, <2>1 DEF QueueInv, Ordered, FlightsInOrder
<1>10. MempoolInOrder'
  <2>1. \A i \in DOMAIN mempool : mempool[i] \subseteq Op
    BY PlaceTypes DEF QueueInv
  <2> QED
    BY <1>1, <1>7, <2>1 DEF QueueInv, Ordered, MempoolInOrder
<1>11. MinedInOrder'
  BY <1>1, <1>4 DEF QueueInv, Ordered, MinedInOrder, After
<1> QED
  BY <1>5, <1>6, <1>8, <1>9, <1>10, <1>11 DEF QueueInv, Ordered

\* The one call under way moves on.
LEMMA FlightMoves ==
    ASSUME QueueInv, NEW f \in flights, NEW step \in {"handleOps", "wait"},
           flights' = (flights \ {f}) \cup {[f EXCEPT !.at = step]},
           UNCHANGED sending
    PROVE  \E g \in Flight :
              /\ flights' = {g} /\ g.queue = f.queue /\ g.ops = f.ops /\ g.at = step
              /\ OneBundleInFlight'
<1>1. flights = {f} /\ f \in Flight
  BY DEF QueueInv, OneBundleInFlight, QueueTypeOK
<1> DEFINE g == [f EXCEPT !.at = step]
<1>2. g \in Flight /\ g.queue = f.queue /\ g.ops = f.ops /\ g.at = step
  BY <1>1 DEF Flight
<1>3. flights' = {g}
  BY <1>1
<1> HIDE DEF g
<1>4. OneBundleInFlight'
  BY <1>1, <1>2, <1>3 DEF QueueInv, OneBundleInFlight
<1> QED
  BY <1>2, <1>3, <1>4

LEMMA CallHandleOpsStep ==
    ASSUME QueueInv, NEW f \in flights, CallHandleOps(f)
    PROVE  QueueInv'
<1>1. PICK g \in Flight :
         /\ flights' = {g} /\ g.queue = f.queue /\ g.ops = f.ops /\ g.at = "handleOps"
         /\ OneBundleInFlight'
  BY FlightMoves DEF CallHandleOps
<1>2. f.at # "wait"
      /\ UNCHANGED <<given, queue, queueSize, age, timers, handle, sending, mempool, mined>>
  BY DEF CallHandleOps
<1>3. QueueTypeOK' /\ TimerIsOwned'
  BY <1>1, <1>2 DEF QueueInv, QueueTypeOK, TimerIsOwned
<1>4. Ordered'
  BY <1>1, <1>2, FewerFlights DEF QueueInv
<1> QED
  BY <1>1, <1>3, <1>4 DEF QueueInv

LEMMA FinishStep ==
    ASSUME QueueInv, NEW f \in flights, Finish(f)
    PROVE  QueueInv'
<1>1. flights' = {} /\ sending' = FALSE
      /\ UNCHANGED <<given, queue, queueSize, age, timers, handle, mempool, mined>>
  BY DEF Finish, QueueInv, OneBundleInFlight
<1>2. QueueTypeOK' /\ TimerIsOwned' /\ OneBundleInFlight'
  BY <1>1 DEF QueueInv, QueueTypeOK, TimerIsOwned, OneBundleInFlight
<1>3. Ordered'
  BY <1>1, FewerFlights DEF QueueInv
<1> QED
  BY <1>2, <1>3 DEF QueueInv

\* The bundle joins the mempool behind what the signer submitted before.
LEMMA SubmitStep ==
    ASSUME QueueInv, NEW f \in flights, Submit(f)
    PROVE  QueueInv'
<1>1. PICK g \in Flight :
         /\ flights' = {g} /\ g.queue = f.queue /\ g.ops = f.ops /\ g.at = "wait"
         /\ OneBundleInFlight'
  BY FlightMoves DEF Submit
<1>2. /\ f.at # "wait" /\ mempool' = Append(mempool, f.ops)
      /\ UNCHANGED <<given, queue, queueSize, age, timers, handle, sending, mined>>
  BY DEF Submit
<1>3. mempool \in Seq(Bundle) /\ f.ops \in Bundle /\ f.ops \subseteq Op
  BY PlaceTypes DEF QueueInv, QueueTypeOK, Flight
<1>4. QueueTypeOK' /\ TimerIsOwned'
  <2>1. mempool' \in Seq(Bundle)
    BY <1>2, <1>3, AppendType
  <2> QED
    BY <1>1, <1>2, <2>1 DEF QueueInv, QueueTypeOK, TimerIsOwned
<1>5. ASSUME NEW i \in DOMAIN mempool'
      PROVE  /\ i \in Nat
             /\ \/ i \in DOMAIN mempool /\ mempool'[i] = mempool[i]
                \/ i = Len(mempool) + 1 /\ mempool'[i] = f.ops
  BY <1>2, <1>3, Appended
<1>6. \A o \in Op : LeftQueue(o)' <=> LeftQueue(o)
  BY <1>2 DEF LeftQueue, Waiting
<1>7. \A o \in f.ops : o.queue = f.queue /\ LeftQueue(o)
  BY DEF QueueInv, Ordered, FlightsInOrder
<1>8. QueuesInOrder'
  BY <1>2 DEF QueueInv, Ordered, QueuesInOrder, Waiting
<1>9. FlightsInOrder'
  BY <1>1, <1>3, <1>6, <1>7 DEF FlightsInOrder
<1>10. MempoolInOrder'
  <2> SUFFICES ASSUME NEW i \in DOMAIN mempool', NEW o \in mempool'[i]
               PROVE  /\ LeftQueue(o)'
                      /\ \A p \in mempool'[i] : SameSource(o, p) => o = p
                      /\ \A j \in DOMAIN mempool' : i < j =>
                            \A p \in mempool'[j] : SameSource(o, p) => o.n < p.n
    BY <1>1 DEF MempoolInOrder
  <2>1. CASE i \in DOMAIN mempool /\ mempool'[i] = mempool[i]
    <3>1. /\ o \in Op /\ LeftQueue(o)
          /\ \A p \in mempool[i] : SameSource(o, p) => o = p
          /\ \A j \in DOMAIN mempool : i < j =>
                \A p \in mempool[j] : SameSource(o, p) => o.n < p.n
          /\ \A p \in f.ops : SameSource(o, p) => o.n < p.n
      BY <1>2, <2>1, PlaceTypes DEF QueueInv, Ordered, MempoolInOrder
    <3> QED
      BY <1>5, <1>6, <2>1, <3>1
  <2>2. CASE i = Len(mempool) + 1 /\ mempool'[i] = f.ops
    <3>1. o \in Op /\ LeftQueue(o)
      BY <1>3, <1>7, <2>2
    <3>2. ASSUME NEW p \in f.ops, SameSource(o, p) PROVE o = p
      BY <2>2, <3>2 DEF SameSource, QueueInv, OneBundleInFlight
    <3>3. \A j \in DOMAIN mempool' : ~(i < j)
      BY <1>2, <1>3, <2>2
    <3> QED
      BY <1>6, <2>2, <3>1, <3>2, <3>3
  <2> QED
    BY <1>5, <2>1, <2>2
<1>11. MinedInOrder'
  <2> SUFFICES ASSUME NEW q \in Queues, NEW s \in Senders
               PROVE  \A i \in DOMAIN mempool' : \A o \in mempool'[i] : After(o, q, s)
    BY <1>1, <1>2 DEF QueueInv, Ordered, MinedInOrder, After, Waiting
  <2>1. /\ \A i \in DOMAIN mempool : \A o \in mempool[i] : After(o, q, s)
        /\ \A o \in f.ops : After(o, q, s)
    BY <1>2 DEF QueueInv, Ordered, MinedInOrder
  <2> QED
    BY <1>5, <2>1
<1> QED
  BY <1>1, <1>4, <1>8, <1>9, <1>10, <1>11 DEF QueueInv, Ordered

-----------------------------------------------------------------------------
(***************************************************************************)
(* The oldest bundle is mined.                                             *)
(***************************************************************************)
LEMMA MineStep ==
    ASSUME QueueInv, NEW executed \in BOOLEAN, Mine(executed)
    PROVE  QueueInv'
<1>1. /\ mempool # <<>> /\ mempool' = Tail(mempool)
      /\ UNCHANGED <<given, queue, queueSize, age, timers, handle, sending, flights>>
  BY DEF Mine
<1>2. /\ mempool \in Seq(Bundle) /\ mempool' \in Seq(Bundle)
      /\ 1 \in DOMAIN mempool /\ Head(mempool) = mempool[1] /\ mempool[1] \subseteq Op
      /\ \A i \in DOMAIN mempool' :
            /\ i \in Nat /\ 1 < i + 1 /\ i + 1 \in DOMAIN mempool
            /\ mempool'[i] = mempool[i + 1]
  BY <1>1, PlaceTypes, Shifted DEF QueueInv
<1>3. ASSUME NEW q \in Queues, NEW s \in Senders
      PROVE  \/ mined'[q][s] = mined[q][s]
             \/ \E o \in mempool[1] :
                   o.queue = q /\ o.sender = s /\ mined'[q][s] = Append(mined[q][s], o.n)
  <2> DEFINE Source(o) == o.queue = q /\ o.sender = s
             first == CHOOSE o \in mempool[1] : Source(o)
  <2>1. mined[q][s] \in Seq(1..MaxOps)
    BY PlaceTypes DEF QueueInv
  <2>2. CASE executed /\ \E o \in mempool[1] : Source(o)
    <3>1. first \in mempool[1] /\ Source(first)
      BY <2>2
    <3>2. first.n \in 1..MaxOps
      BY <1>2, <3>1, OpTypes
    <3>3. mined'[q][s] = mined[q][s] \o <<first.n>>
      BY <1>2, <2>2 DEF Mine
    <3> HIDE DEF first
    <3>4. mined'[q][s] = Append(mined[q][s], first.n)
      BY <2>1, <3>2, <3>3
    <3> QED
      BY <3>1, <3>4
  <2>3. CASE ~(executed /\ \E o \in mempool[1] : Source(o))
    <3>1. mined'[q][s] = mined[q][s] \o <<>>
      BY <1>2, <2>3 DEF Mine
    <3> QED
      BY <2>1, <3>1
  <2> QED
    BY <2>2, <2>3
<1>4. QueueTypeOK' /\ OneBundleInFlight' /\ TimerIsOwned'
  <2>1. ASSUME NEW q \in Queues, NEW s \in Senders PROVE mined'[q][s] \in Seq(1..MaxOps)
    <3>1. mined[q][s] \in Seq(1..MaxOps)
      BY PlaceTypes DEF QueueInv
    <3>2. \A o \in mempool[1] : o.n \in 1..MaxOps
      BY <1>2, OpTypes
    <3>3. \A o \in mempool[1] : Append(mined[q][s], o.n) \in Seq(1..MaxOps)
      BY <3>1, <3>2, AppendType
    <3>4. CASE mined'[q][s] = mined[q][s]
      BY <3>1, <3>4
    <3>5. ASSUME NEW o \in mempool[1], mined'[q][s] = Append(mined[q][s], o.n)
          PROVE  mined'[q][s] \in Seq(1..MaxOps)
      BY <3>3, <3>5
    <3> QED
      BY <1>3, <3>4, <3>5
  <2>2. mined' \in [Queues -> [Senders -> Seq(1..MaxOps)]]
    <3>1. mined' = [q \in Queues |-> [s \in Senders |-> mined'[q][s]]]
      BY DEF Mine
    <3> QED
      BY <2>1, <3>1
  <2> QED
    BY <1>1, <1>2, <2>2 DEF QueueInv, QueueTypeOK, OneBundleInFlight, TimerIsOwned
<1>5. \A o \in Op : LeftQueue(o)' <=> LeftQueue(o)
  BY <1>1 DEF LeftQueue, Waiting
<1>6. QueuesInOrder' /\ FlightsInOrder'
  BY <1>1 DEF QueueInv, Ordered, QueuesInOrder, FlightsInOrder, LeftQueue, Waiting
<1>7. MempoolInOrder'
  <2> SUFFICES ASSUME NEW i \in DOMAIN mempool', NEW o \in mempool'[i]
               PROVE  /\ LeftQueue(o)'
                      /\ \A p \in mempool'[i] : SameSource(o, p) => o = p
                      /\ \A j \in DOMAIN mempool' : i < j =>
                            \A p \in mempool'[j] : SameSource(o, p) => o.n < p.n
                      /\ \A f \in flights : f.at # "wait" =>
                            \A p \in f.ops : SameSource(o, p) => o.n < p.n
    BY <1>1 DEF MempoolInOrder
  <2>1. i + 1 \in DOMAIN mempool /\ o \in mempool[i + 1] /\ mempool'[i] = mempool[i + 1]
        /\ i \in Nat
    BY <1>2
  <2>2. /\ o \in Op /\ LeftQueue(o)
        /\ \A p \in mempool[i + 1] : SameSource(o, p) => o = p
        /\ \A j \in DOMAIN mempool : i + 1 < j =>
              \A p \in mempool[j] : SameSource(o, p) => o.n < p.n
        /\ \A f \in flights : f.at # "wait" =>
              \A p \in f.ops : SameSource(o, p) => o.n < p.n
    BY <2>1, PlaceTypes DEF QueueInv, Ordered, MempoolInOrder
  <2>3. ASSUME NEW j \in DOMAIN mempool', i < j
        PROVE  \A p \in mempool'[j] : SameSource(o, p) => o.n < p.n
    <3>1. j + 1 \in DOMAIN mempool /\ i + 1 < j + 1 /\ mempool'[j] = mempool[j + 1]
      BY <1>2, <2>1, <2>3
    <3> QED
      BY <2>2, <3>1
  <2> QED
    BY <1>5, <2>1, <2>2, <2>3
<1>8. MinedInOrder'
  <2> SUFFICES ASSUME NEW q \in Queues, NEW s \in Senders
               PROVE  /\ \A i \in DOMAIN mined'[q][s] : mined'[q][s][i] <= given[q][s]
                      /\ \A i, j \in DOMAIN mined'[q][s] :
                            i < j => mined'[q][s][i] < mined'[q][s][j]
                      /\ \A w \in Waiting(q, s) : After(w, q, s)'
                      /\ \A f \in flights : f.at # "wait" => \A o \in f.ops : After(o, q, s)'
                      /\ \A i \in DOMAIN mempool' : \A o \in mempool'[i] : After(o, q, s)'
    BY <1>1 DEF MinedInOrder, Waiting
  <2>1. /\ \A i \in DOMAIN mined[q][s] : mined[q][s][i] <= given[q][s]
        /\ \A i, j \in DOMAIN mined[q][s] : i < j => mined[q][s][i] < mined[q][s][j]
        /\ \A w \in Waiting(q, s) : After(w, q, s)
        /\ \A f \in flights : f.at # "wait" => \A o \in f.ops : After(o, q, s)
        /\ \A i \in DOMAIN mempool : \A o \in mempool[i] : After(o, q, s)
    BY DEF QueueInv, Ordered, MinedInOrder
  <2>2. CASE mined'[q][s] = mined[q][s]
    BY <1>2, <2>1, <2>2 DEF After
  <2>3. ASSUME NEW o \in mempool[1], o.queue = q, o.sender = s,
               mined'[q][s] = Append(mined[q][s], o.n)
        PROVE  /\ \A i \in DOMAIN mined'[q][s] : mined'[q][s][i] <= given[q][s]
               /\ \A i, j \in DOMAIN mined'[q][s] :
                     i < j => mined'[q][s][i] < mined'[q][s][j]
               /\ \A w \in Waiting(q, s) : After(w, q, s)'
               /\ \A f \in flights : f.at # "wait" => \A p \in f.ops : After(p, q, s)'
               /\ \A i \in DOMAIN mempool' : \A p \in mempool'[i] : After(p, q, s)'
    <3>1. o \in Op /\ o.n \in 1..MaxOps /\ mined[q][s] \in Seq(1..MaxOps)
      BY <1>2, PlaceTypes, OpTypes DEF QueueInv
    <3>2. ASSUME NEW i \in DOMAIN mined'[q][s]
          PROVE  /\ i \in Nat
                 /\ \/ i \in DOMAIN mined[q][s] /\ mined'[q][s][i] = mined[q][s][i]
                    \/ i = Len(mined[q][s]) + 1 /\ mined'[q][s][i] = o.n
      BY <2>3, <3>1, Appended
    <3>3. LeftQueue(o) /\ After(o, q, s)
      BY <1>2, <2>1 DEF QueueInv, Ordered, MempoolInOrder
    <3>4. \A i \in DOMAIN mined[q][s] : mined[q][s][i] < o.n
      BY <2>3, <3>3 DEF After
    <3>5. \A i \in DOMAIN mined'[q][s] : mined'[q][s][i] <= given[q][s]
      BY <2>1, <2>3, <3>2, <3>3 DEF LeftQueue
    <3>6. ASSUME NEW i \in DOMAIN mined'[q][s], NEW j \in DOMAIN mined'[q][s], i < j
          PROVE  mined'[q][s][i] < mined'[q][s][j]
      <4>1. i \in DOMAIN mined[q][s] /\ mined'[q][s][i] = mined[q][s][i]
        <5>1. j <= Len(mined[q][s]) + 1 /\ j \in Nat /\ i \in Nat
              /\ Len(mined[q][s]) \in Nat
          BY <3>1, <3>2
        <5>2. i # Len(mined[q][s]) + 1
          BY <3>6, <5>1
        <5> QED
          BY <3>2, <5>2
      <4> QED
        BY <2>1, <3>2, <3>4, <3>6, <4>1
    <3>7. ASSUME NEW p \in Op, After(p, q, s), SameSource(o, p) => o.n < p.n
          PROVE  After(p, q, s)'
      BY <2>3, <3>2, <3>7 DEF After, SameSource
    <3>8. ASSUME NEW w \in Waiting(q, s) PROVE After(w, q, s)'
      <4>1. w \in Op /\ After(w, q, s) /\ o.n < w.n
        BY <2>1, <2>3, <3>3, PlaceTypes DEF QueueInv, LeftQueue
      <4> QED
        BY <3>7, <4>1
    <3>9. ASSUME NEW f \in flights, f.at # "wait", NEW p \in f.ops PROVE After(p, q, s)'
      <4>1. p \in Op /\ After(p, q, s) /\ (SameSource(o, p) => o.n < p.n)
        BY <1>2, <2>1, <3>9, PlaceTypes DEF QueueInv, Ordered, MempoolInOrder
      <4> QED
        BY <3>7, <4>1
    <3>10. ASSUME NEW i \in DOMAIN mempool', NEW p \in mempool'[i] PROVE After(p, q, s)'
      <4>1. 1 < i + 1 /\ i + 1 \in DOMAIN mempool /\ p \in mempool[i + 1]
        BY <1>2
      <4>2. p \in Op /\ After(p, q, s) /\ (SameSource(o, p) => o.n < p.n)
        BY <1>2, <2>1, <4>1, PlaceTypes DEF QueueInv, Ordered, MempoolInOrder
      <4> QED
        BY <3>7, <4>2
    <3> QED
      BY <3>5, <3>6, <3>8, <3>9, <3>10
  <2> QED
    BY <1>3, <2>2, <2>3
<1> QED
  BY <1>4, <1>6, <1>7, <1>8 DEF QueueInv, Ordered

-----------------------------------------------------------------------------
LEMMA QueueInvInit == Init => QueueInv
<1> SUFFICES ASSUME Init PROVE QueueInv
  OBVIOUS
<1>1. QueueTypeOK /\ TimerIsOwned
  <2>1. timers \in [Queues -> SUBSET (1..MaxTimers)] /\ handle \in [Queues -> 0..MaxTimers]
        /\ TimerIsOwned
    <3>1. 1 \in 1..MaxTimers /\ 1 \in 0..MaxTimers /\ 0 \in 0..MaxTimers
      BY QueueAssumption
    <3>2. CASE handle = [q \in Queues |-> 1] /\ timers = [q \in Queues |-> {1}]
      BY <3>1, <3>2 DEF TimerIsOwned, None
    <3>3. CASE handle = [q \in Queues |-> None] /\ timers = [q \in Queues |-> {}]
      BY <3>1, <3>3 DEF TimerIsOwned, None
    <3> QED
      BY <3>2, <3>3 DEF Init
  <2>2. given \in [Queues -> [Senders -> 0..MaxOps]]
    BY QueueAssumption DEF Init
  <2>3. /\ queue \in [Queues -> [Senders -> Seq(Op)]]
        /\ mined \in [Queues -> [Senders -> Seq(1..MaxOps)]]
        /\ mempool \in Seq(Bundle)
    BY DEF Init
  <2>4. /\ queueSize \in [Queues -> Int \cup {NaN}]
        /\ age \in [Queues -> 0..IDLE_TIME \cup {NaN}]
        /\ sending \in BOOLEAN /\ flights \subseteq Flight
    BY DEF Init, QueueInit
  <2> QED
    BY <2>1, <2>2, <2>3, <2>4 DEF QueueTypeOK
<1>2. OneBundleInFlight
  BY DEF Init, OneBundleInFlight
<1>3. /\ flights = {} /\ DOMAIN mempool = {}
      /\ \A q \in Queues, s \in Senders :
            DOMAIN queue[q][s] = {} /\ DOMAIN mined[q][s] = {} /\ Waiting(q, s) = {}
  BY DEF Init, Waiting
<1>4. Ordered
  BY <1>3 DEF Ordered, QueuesInOrder, FlightsInOrder, MempoolInOrder, MinedInOrder
<1> QED
  BY <1>1, <1>2, <1>4 DEF QueueInv

LEMMA QueueInvNext == QueueInv /\ [Next]_vars => QueueInv'
<1> SUFFICES ASSUME QueueInv, [Next]_vars PROVE QueueInv'
  OBVIOUS
<1>1. CASE \E q \in Queues, s \in Senders : Enqueue(q, s)
  BY <1>1, EnqueueStep
<1>2. CASE \E q \in Queues : CancelInterval(q) \/ SetInterval(q)
  BY <1>2, TimerStep
<1>3. CASE \E q \in Queues : Push(q) \/ PackThrows(q)
  BY <1>3, PushStep, PackThrowsStep
<1>4. CASE \E f \in flights : CallHandleOps(f)
  BY <1>4, CallHandleOpsStep
<1>5. CASE \E f \in flights : Submit(f)
  BY <1>5, SubmitStep
<1>6. CASE \E f \in flights : Receipt(f) \/ Fail(f)
  BY <1>6, FinishStep DEF Receipt, Fail
<1>7. CASE \E executed \in BOOLEAN : Mine(executed)
  BY <1>7, MineStep
<1>8. CASE Tick
  BY <1>8, TickStep
<1>9. CASE UNCHANGED vars
  <2>1. QueueTypeOK' /\ OneBundleInFlight' /\ TimerIsOwned'
    BY <1>9 DEF vars, QueueInv, QueueTypeOK, OneBundleInFlight, TimerIsOwned
  <2>2. Ordered'
    BY <1>9, SameOrder DEF vars, QueueInv
  <2> QED
    BY <2>1, <2>2 DEF QueueInv
<1> QED
  BY <1>1, <1>2, <1>3, <1>4, <1>5, <1>6, <1>7, <1>8, <1>9 DEF Next

LEMMA AlwaysQueueInv == Spec => []QueueInv
  BY QueueInvInit, QueueInvNext, PTL DEF Spec

-----------------------------------------------------------------------------
\* queueUserOpSender, sendQueuedUserOps: queues, intervals, bundles and executed
\* operations keep their types; queueSize may be NaN and may be negative.
THEOREM QueueTypes == Spec => []QueueTypeOK
  BY AlwaysQueueInv, PTL DEF QueueInv

\* sendQueuedUserOps: one call at most is past the flag, which is up exactly while one
\* is, and its bundle has one operation of a sender at most, for any number of queues.
THEOREM OneBundle == Spec => []OneBundleInFlight
  BY AlwaysQueueInv, PTL DEF QueueInv

\* setInterval, cancelInterval: the one interval that runs is the one the queue can
\* cancel, whatever sequence of calls came before.
THEOREM TimerOwned == Spec => []TimerIsOwned
  BY AlwaysQueueInv, PTL DEF QueueInv

\* queueUserOpSender: the operations of a sender are executed in the order in which it
\* queued them and none twice, whichever awaits of sendQueuedUserOps failed and left a
\* transaction behind.
THEOREM InOrder == Spec => []ExecutedInOrder
<1>1. QueueInv => ExecutedInOrder
  <2> SUFFICES ASSUME QueueInv, NEW q \in Queues, NEW s \in Senders
               PROVE  /\ \A i, j \in DOMAIN mined[q][s] : i < j => mined[q][s][i] < mined[q][s][j]
                      /\ \A i \in DOMAIN mined[q][s], k \in Outstanding(q, s) :
                            mined[q][s][i] < k
    BY DEF ExecutedInOrder
  <2>1. /\ \A i, j \in DOMAIN mined[q][s] : i < j => mined[q][s][i] < mined[q][s][j]
        /\ \A w \in Waiting(q, s) : After(w, q, s) /\ w.queue = q /\ w.sender = s
        /\ \A f \in flights : f.at # "wait" => \A o \in f.ops : After(o, q, s)
        /\ \A i \in DOMAIN mempool : \A o \in mempool[i] : After(o, q, s)
    BY DEF QueueInv, Ordered, MinedInOrder, QueuesInOrder
  <2>2. ASSUME NEW k \in Outstanding(q, s)
        PROVE  \A i \in DOMAIN mined[q][s] : mined[q][s][i] < k
    <3>1. CASE \E i \in DOMAIN queue[q][s] : k = queue[q][s][i].n
      BY <2>1, <3>1 DEF After, Waiting
    <3>2. CASE \E f \in flights : f.at # "wait" /\ \E o \in f.ops :
                  o.queue = q /\ o.sender = s /\ k = o.n
      BY <2>1, <3>2 DEF After
    <3>3. CASE \E i \in DOMAIN mempool : \E o \in mempool[i] :
                  o.queue = q /\ o.sender = s /\ k = o.n
      BY <2>1, <3>3 DEF After
    <3>4. CASE k \in {queue[q][s][i].n : i \in DOMAIN queue[q][s]}
      BY <3>1, <3>4
    <3> DEFINE Of(ops) == {op.n : op \in {o \in ops : o.queue = q /\ o.sender = s}}
    <3>5. ASSUME NEW ops, k \in Of(ops)
          PROVE  \E o \in ops : o.queue = q /\ o.sender = s /\ k = o.n
      BY <3>5
    <3> HIDE DEF Of
    <3>6. CASE k \in UNION {Of(f.ops) : f \in {g \in flights : g.at # "wait"}}
      <4>1. PICK f \in flights : f.at # "wait" /\ k \in Of(f.ops)
        BY <3>6
      <4> QED
        BY <3>2, <3>5, <4>1
    <3>7. CASE k \in UNION {Of(mempool[i]) : i \in DOMAIN mempool}
      <4>1. PICK i \in DOMAIN mempool : k \in Of(mempool[i])
        BY <3>7
      <4> QED
        BY <3>3, <3>5, <4>1
    <3>8. \/ k \in {queue[q][s][i].n : i \in DOMAIN queue[q][s]}
          \/ k \in UNION {Of(f.ops) : f \in {g \in flights : g.at # "wait"}}
          \/ k \in UNION {Of(mempool[i]) : i \in DOMAIN mempool}
      BY DEF Outstanding, Of
    <3> QED
      BY <3>4, <3>6, <3>7, <3>8
  <2> QED
    BY <2>1, <2>2
<1> QED
  BY <1>1, AlwaysQueueInv, PTL

-----------------------------------------------------------------------------
(***************************************************************************)
(* The signer.                                                             *)
(*                                                                         *)
(* A listener's invocation that waits for its receipt has an event of the  *)
(* chain that matches its call, and the match lasts: a call whose listener *)
(* is on changes neither its operation nor a block number it was told.     *)
(***************************************************************************)
\* A call that has filled in its operation and set up its response, or that threw.
Done == {"send", "sending", "returned", "threw"}

\* Whoever has synced has an account to send from.  What sendTransaction sets up after
\* the operation is filled in is there only then.
CallOK(c) ==
    /\ call[c].pc \in {"getCode", "synced", "populate", "getNonce"} =>
          account[SignerOf[c]] # NoAddress
    /\ call[c].pc \in {"connect", "getNonce"} => call[c].target \in Address
    /\ call[c].pc \in {"respond", "send", "sending"} => call[c].op.sender \in Address
    /\ call[c].fate # "none" => call[c].op.sender \in Address
    /\ \/ call[c].listening \/ call[c].timer
       \/ call[c].fate # "none" \/ call[c].block # NoReply \/ call[c].result # Pending
       => call[c].pc \in Done

\* Event e is about the operation of c, in a block after the one c was told of.
Tells(e, c) ==
    /\ call[c].block # NoReply
    /\ e.op = call[c].op
    /\ e.block > call[c].block

HearingOK ==
    \A h \in hearing :
        /\ h.event \in chain.events
        /\ call[h.call].pc \in Done
        /\ h.at = "receipt" => Tells(h.event, h.call)

ReceiptOK ==
    \A c \in Sends : call[c].result # Pending =>
        \E e \in chain.events : Tells(e, c) /\ (e.success <=> call[c].result = "success")

Chain ==
    [code : SUBSET Address, nonce : [Address -> Nat], block : 0..MaxBlock, events : SUBSET Event]

SignerTypes ==
    /\ sendUserOp \in [Signers -> {"rpc", "local"}]
    /\ account \in [Signers -> Address \cup {NoAddress}]
    /\ phantom \in [Signers -> BOOLEAN]
    /\ call \in [Calls -> CallState]
    /\ hearing \subseteq [call : Sends, event : Event, at : {"block", "receipt"}]
    /\ chain \in Chain
    /\ faults \in 0..MaxFaults

SignerInv ==
    /\ SignerTypes
    /\ \A c \in Calls : CallOK(c)
    /\ HearingOK
    /\ ReceiptOK
-----------------------------------------------------------------------------
LEMMA SignerOpTypes ==
    /\ NoOp \in UserOp /\ ForeignOp \in UserOp
    /\ \A e \in Event : e.op \in UserOp /\ e.success \in BOOLEAN /\ e.block \in 1..MaxBlock
BY DEF NoOp, ForeignOp, UserOp, Event

LEMMA SignerInitInv == SignerInit => SignerInv
<1> SUFFICES ASSUME SignerInit PROVE SignerInv
  OBVIOUS
<1>1. call \in [Calls -> CallState]
  BY SignerOpTypes DEF SignerInit, CallState, Pending, NoReply
<1>2. chain \in Chain /\ faults \in 0..MaxFaults
  BY SignerAssumption DEF SignerInit, Chain, Address
<1>3. SignerTypes
  BY <1>1, <1>2 DEF SignerInit, SignerTypes
<1>4. ASSUME NEW c \in Calls PROVE CallOK(c)
  BY DEF SignerInit, CallOK
<1>5. HearingOK /\ ReceiptOK
  BY DEF SignerInit, HearingOK, ReceiptOK, Calls
<1> QED BY <1>3, <1>4, <1>5 DEF SignerInv

(***************************************************************************)
(* A step of one call that neither hears of an event nor settles its       *)
(* result.  Once the operation is filled in it stays, and so does the      *)
(* block number once it is known.                                          *)
(***************************************************************************)
LEMMA CallStepKeeps ==
    ASSUME SignerInv, NEW c \in Calls, SignerTypes',
           \A d \in Calls : d # c => call'[d] = call[d],
           CallOK(c)',
           \A s \in Signers : account[s] # NoAddress => account'[s] # NoAddress,
           call[c].pc \in Done =>
               /\ call'[c].pc \in Done
               /\ call'[c].op = call[c].op
               /\ call[c].block # NoReply => call'[c].block = call[c].block,
           call'[c].result = call[c].result,
           chain.events \subseteq chain'.events,
           hearing' = hearing
    PROVE  SignerInv'
<1>1. ASSUME NEW d \in Calls PROVE CallOK(d)'
  <2>1. CASE d = c
    BY <2>1
  <2>2. CASE d # c
    <3>1. call'[d] = call[d] /\ CallOK(d) /\ SignerOf[d] \in Signers
      BY <2>2, SignerAssumption DEF SignerInv
    <3> QED BY <3>1 DEF CallOK
  <2> QED BY <2>1, <2>2
<1>2. ASSUME NEW d \in Calls, call[d].pc \in Done
      PROVE  /\ call'[d].pc \in Done /\ call'[d].op = call[d].op
             /\ call[d].block # NoReply => call'[d].block = call[d].block
  BY <1>2
<1>3. HearingOK'
  <2> SUFFICES ASSUME NEW h \in hearing
               PROVE  /\ h.event \in chain'.events /\ call'[h.call].pc \in Done
                      /\ h.at = "receipt" => Tells(h.event, h.call)'
    BY DEF HearingOK
  <2>1. h.call \in Calls /\ HearingOK
    BY DEF SignerInv, SignerTypes, Calls
  <2> QED BY <1>2, <2>1 DEF HearingOK, Tells
<1>4. ReceiptOK'
  <2> SUFFICES ASSUME NEW d \in Sends, call'[d].result # Pending
               PROVE  \E e \in chain'.events :
                         Tells(e, d)' /\ (e.success <=> call'[d].result = "success")
    BY DEF ReceiptOK
  <2>1. d \in Calls /\ call[d].result # Pending /\ call'[d].result = call[d].result
    BY DEF Calls
  <2>2. PICK e \in chain.events : Tells(e, d) /\ (e.success <=> call[d].result = "success")
    BY <2>1 DEF SignerInv, ReceiptOK
  <2>3. call[d].pc \in Done
    BY <2>1 DEF SignerInv, CallOK
  <2>4. Tells(e, d)'
    BY <1>2, <2>1, <2>2, <2>3 DEF Tells
  <2> QED BY <2>1, <2>2, <2>4
<1> QED BY <1>1, <1>3, <1>4 DEF SignerInv

Pc == {"idle", "getAccountAddress", "getCode", "connect", "synced", "populate", "getNonce",
       "respond", "send", "sending", "returned", "threw"}

\* What the response of a call is made from.
SameResponse(c) ==
    /\ call'[c].op = call[c].op /\ call'[c].block = call[c].block
    /\ call'[c].result = call[c].result /\ call'[c].fate = call[c].fate
    /\ call'[c].listening = call[c].listening /\ call'[c].timer = call[c].timer

LEMMA Goes ==
    ASSUME call \in [Calls -> CallState], NEW c \in Calls, NEW pc \in Pc, Goto(c, pc)
    PROVE  /\ call' \in [Calls -> CallState]
           /\ call'[c].pc = pc /\ call'[c].target = call[c].target /\ SameResponse(c)
           /\ \A d \in Calls : d # c => call'[d] = call[d]
BY DEF Goto, CallState, Pc, SameResponse

LEMMA Asks ==
    ASSUME call \in [Calls -> CallState], NEW c \in Calls, NEW pc \in Pc,
           NEW a \in Address \cup {NoAddress}, Ask(c, pc, a)
    PROVE  /\ call' \in [Calls -> CallState]
           /\ call'[c].pc = pc /\ call'[c].target = a /\ SameResponse(c)
           /\ \A d \in Calls : d # c => call'[d] = call[d]
<1> DEFINE r == [call[c] EXCEPT !.pc = pc, !.target = a, !.reply = NoReply]
<1>1. r \in CallState
  <2>1. call[c] \in CallState
    OBVIOUS
  <2>2. [call[c] EXCEPT !.pc = pc] \in CallState
    BY <2>1 DEF CallState, Pc
  <2>3. ASSUME NEW q \in CallState PROVE [q EXCEPT !.target = a] \in CallState
    BY DEF CallState
  <2>4. ASSUME NEW q \in CallState PROVE [q EXCEPT !.reply = NoReply] \in CallState
    BY DEF CallState
  <2> QED BY <2>2, <2>3, <2>4
<1>2. call' = [call EXCEPT ![c] = r]
  BY DEF Ask
<1>3. /\ r.pc = pc /\ r.target = a /\ r.op = call[c].op /\ r.block = call[c].block
      /\ r.result = call[c].result /\ r.fate = call[c].fate
      /\ r.listening = call[c].listening /\ r.timer = call[c].timer
  BY DEF CallState
<1> HIDE DEF r
<1>4. call' \in [Calls -> CallState] /\ call'[c] = r /\ \A d \in Calls : d # c => call'[d] = call[d]
  BY <1>1, <1>2
<1> QED BY <1>3, <1>4 DEF SameResponse

\* A step of a call that leaves its response alone.
LEMMA QuietStepKeeps ==
    ASSUME SignerInv, NEW c \in Calls, SignerTypes',
           \A d \in Calls : d # c => call'[d] = call[d],
           SameResponse(c),
           call[c].pc \in Done => call'[c].pc \in Done,
           call'[c].pc \in {"getCode", "synced", "populate", "getNonce"} =>
               account'[SignerOf[c]] # NoAddress,
           call'[c].pc \in {"connect", "getNonce"} => call'[c].target \in Address,
           call'[c].pc \in {"respond", "send", "sending"} => call[c].op.sender \in Address,
           \A s \in Signers : account[s] # NoAddress => account'[s] # NoAddress,
           UNCHANGED <<chain, hearing>>
    PROVE  SignerInv'
<1>1. CallOK(c)
  BY DEF SignerInv
<1>2. CallOK(c)'
  BY <1>1 DEF CallOK, SameResponse
<1> QED BY <1>2, CallStepKeeps DEF SameResponse

-----------------------------------------------------------------------------
(***************************************************************************)
(* Requests, and syncAccount.                                              *)
(***************************************************************************)
LEMMA NodeAnswersKeeps ==
    ASSUME SignerInv, NEW c \in Calls, NodeAnswers(c)
    PROVE  SignerInv'
<1> DEFINE x == IF call[c].pc = "getNonce"
                THEN IF call[c].target \in chain.code THEN chain.nonce[call[c].target] ELSE Revert
                ELSE IF call[c].target \in chain.code THEN SomeCode ELSE EmptyCode
           r == [call[c] EXCEPT !.reply = x]
<1>1. SignerTypes /\ CallOK(c) /\ call[c] \in CallState /\ call \in [Calls -> CallState]
  BY DEF SignerInv, SignerTypes
<1>2. x \in Nat \cup {NoReply, Revert}
  BY <1>1 DEF SignerTypes, Chain, SomeCode, EmptyCode
<1>3. /\ call' = [call EXCEPT ![c] = r]
      /\ UNCHANGED <<sendUserOp, account, phantom, hearing, chain, faults>>
  BY DEF NodeAnswers
<1> HIDE DEF x
<1>4. /\ r \in CallState /\ r.pc = call[c].pc /\ r.target = call[c].target
      /\ r.op = call[c].op /\ r.block = call[c].block
      /\ r.result = call[c].result /\ r.fate = call[c].fate
      /\ r.listening = call[c].listening /\ r.timer = call[c].timer
  BY <1>1, <1>2 DEF CallState
<1> HIDE DEF r
<1>5. /\ call' \in [Calls -> CallState] /\ call'[c] = r
      /\ \A d \in Calls : d # c => call'[d] = call[d]
  BY <1>1, <1>3, <1>4
<1>6. SignerTypes'
  BY <1>1, <1>3, <1>5 DEF SignerTypes
<1> QED BY <1>1, <1>3, <1>4, <1>5, <1>6, QuietStepKeeps DEF SameResponse, CallOK

LEMMA RequestFailsKeeps ==
    ASSUME SignerInv, NEW c \in Calls, RequestFails(c)
    PROVE  SignerInv'
<1>1. SignerTypes /\ CallOK(c) /\ call \in [Calls -> CallState]
  BY DEF SignerInv, SignerTypes
<1>2. /\ Goto(c, "threw") /\ faults' = faults + 1 /\ faults < MaxFaults
      /\ UNCHANGED <<sendUserOp, account, phantom, hearing, chain>>
  BY DEF RequestFails
<1>3. /\ call' \in [Calls -> CallState] /\ call'[c].pc = "threw" /\ SameResponse(c)
      /\ \A d \in Calls : d # c => call'[d] = call[d]
  BY <1>1, <1>2, Goes DEF Pc
<1>4. faults' \in 0..MaxFaults
  BY <1>1, <1>2, SignerAssumption DEF SignerTypes
<1>5. SignerTypes'
  BY <1>1, <1>2, <1>3, <1>4 DEF SignerTypes
<1> QED BY <1>2, <1>3, <1>5, QuietStepKeeps DEF Done

\* A step that only moves a call, to pc, or asks the node about address a.
LEMMA MoveKeeps ==
    ASSUME SignerInv, NEW c \in Calls, NEW pc \in Pc, NEW a \in Address \cup {NoAddress},
           \/ Goto(c, pc) /\ a = call[c].target
           \/ Ask(c, pc, a),
           call[c].pc \in Done => pc \in Done,
           pc \in {"getCode", "synced", "populate", "getNonce"} =>
               account'[SignerOf[c]] # NoAddress,
           pc \in {"connect", "getNonce"} => a \in Address,
           pc \in {"respond", "send", "sending"} => call[c].op.sender \in Address,
           \A s \in Signers : account[s] # NoAddress => account'[s] # NoAddress,
           account' \in [Signers -> Address \cup {NoAddress}],
           phantom' \in [Signers -> BOOLEAN],
           UNCHANGED <<sendUserOp, chain, hearing, faults>>
    PROVE  SignerInv'
<1>1. SignerTypes /\ call \in [Calls -> CallState]
  BY DEF SignerInv, SignerTypes
<1>2. /\ call' \in [Calls -> CallState] /\ call'[c].pc = pc /\ call'[c].target = a
      /\ SameResponse(c) /\ \A d \in Calls : d # c => call'[d] = call[d]
  BY <1>1, Goes, Asks
<1>3. SignerTypes'
  BY <1>1, <1>2 DEF SignerTypes
<1> QED BY <1>2, <1>3, QuietStepKeeps

\* What the steps of syncAccount and the others below find.
LEMMA CallFacts ==
    ASSUME SignerInv, NEW c \in Calls
    PROVE  /\ SignerTypes /\ CallOK(c) /\ call[c] \in CallState /\ SignerOf[c] \in Signers
           /\ call[c].target \in Address \cup {NoAddress}
           /\ account \in [Signers -> Address \cup {NoAddress}]
           /\ account[SignerOf[c]] \in Address \cup {NoAddress}
           /\ phantom \in [Signers -> BOOLEAN]
<1>1. SignerTypes /\ CallOK(c) /\ call[c] \in CallState
  BY DEF SignerInv, SignerTypes
<1>2. SignerOf[c] \in Signers
  BY SignerAssumption
<1>3. call[c].target \in Address \cup {NoAddress}
  BY <1>1 DEF CallState
<1> QED BY <1>1, <1>2, <1>3 DEF SignerTypes

LEMMA RecheckKeeps ==
    ASSUME SignerInv, NEW c \in Calls, NEW a \in Address, Recheck(c, a),
           call[c].pc \notin Done,
           account' \in [Signers -> Address \cup {NoAddress}],
           account'[SignerOf[c]] # NoAddress,
           \A s \in Signers : account[s] # NoAddress => account'[s] # NoAddress,
           UNCHANGED <<sendUserOp, phantom, chain, hearing, faults>>
    PROVE  SignerInv'
<1>1. phantom' \in [Signers -> BOOLEAN] /\ call[c].target \in Address \cup {NoAddress}
  BY CallFacts
<1>2. CASE Ask(c, "getCode", a)
  BY <1>1, <1>2, MoveKeeps DEF Pc
<1>3. CASE Goto(c, "synced")
  BY <1>1, <1>3, MoveKeeps DEF Pc
<1> QED BY <1>2, <1>3 DEF Recheck

LEMMA SyncAccountKeeps ==
    ASSUME SignerInv, NEW c \in Calls, SyncAccount(c)
    PROVE  SignerInv'
<1>1. /\ call[c].pc = "idle" /\ call[c].pc \notin Done
      /\ UNCHANGED <<sendUserOp, account, phantom, hearing, chain, faults>>
  BY DEF SyncAccount, Done
<1>2. CASE account[SignerOf[c]] = NoAddress
  <2>1. Goto(c, "getAccountAddress")
    BY <1>2 DEF SyncAccount
  <2> QED BY <1>1, <2>1, CallFacts, MoveKeeps DEF Pc
<1>3. CASE account[SignerOf[c]] # NoAddress
  <2>1. Recheck(c, account[SignerOf[c]]) /\ account[SignerOf[c]] \in Address
    BY <1>3, CallFacts DEF SyncAccount
  <2> QED BY <1>1, <1>3, <2>1, CallFacts, RecheckKeeps
<1> QED BY <1>2, <1>3

LEMMA GotAccountAddressKeeps ==
    ASSUME SignerInv, NEW c \in Calls, GotAccountAddress(c)
    PROVE  SignerInv'
<1>1. /\ call[c].pc = "getAccountAddress" /\ call[c].pc \notin Done /\ Recheck(c, Own)
      /\ account' = [account EXCEPT ![SignerOf[c]] = Own]
      /\ UNCHANGED <<sendUserOp, phantom, hearing, chain, faults>>
  BY DEF GotAccountAddress, Done
<1>2. Own \in Address /\ Own # NoAddress
  BY SignerAssumption DEF Address
<1>3. /\ account' \in [Signers -> Address \cup {NoAddress}] /\ account'[SignerOf[c]] # NoAddress
      /\ \A s \in Signers : account[s] # NoAddress => account'[s] # NoAddress
  BY <1>1, <1>2, CallFacts
<1> QED BY <1>1, <1>2, <1>3, RecheckKeeps

LEMMA GotCodeKeeps ==
    ASSUME SignerInv, NEW c \in Calls, GotCode(c)
    PROVE  SignerInv'
<1>1. /\ call[c].pc = "getCode" /\ call[c].pc \notin Done /\ Goto(c, "synced")
      /\ phantom' = [phantom EXCEPT ![SignerOf[c]] = PhantomAfter(call[c].reply)]
      /\ UNCHANGED <<sendUserOp, account, hearing, chain, faults>>
  BY DEF GotCode, Done
<1>2. phantom' \in [Signers -> BOOLEAN]
  BY <1>1, CallFacts DEF PhantomAfter
<1>3. account[SignerOf[c]] # NoAddress
  BY <1>1, CallFacts DEF CallOK
<1> QED BY <1>1, <1>2, <1>3, CallFacts, MoveKeeps DEF Pc

LEMMA SyncReturnsKeeps ==
    ASSUME SignerInv, NEW c \in Calls, SyncReturns(c)
    PROVE  SignerInv'
<1>1. /\ Goto(c, "returned") /\ "returned" \in Pc /\ "returned" \in Done
      /\ UNCHANGED <<sendUserOp, account, phantom, hearing, chain, faults>>
  BY DEF SyncReturns, Pc, Done
<1> QED BY <1>1, CallFacts, MoveKeeps

LEMMA ConnectAccountAddressKeeps ==
    ASSUME SignerInv, NEW c \in Calls, NEW a \in Address, ConnectAccountAddress(c, a)
    PROVE  SignerInv'
<1>1. /\ call[c].pc = "idle" /\ call[c].pc \notin Done
      /\ UNCHANGED <<sendUserOp, account, phantom, hearing, chain, faults>>
  BY DEF ConnectAccountAddress, Done
<1>2. CASE Goto(c, "threw")
  BY <1>1, <1>2, CallFacts, MoveKeeps DEF Pc
<1>3. CASE Ask(c, "connect", a)
  BY <1>1, <1>3, CallFacts, MoveKeeps DEF Pc
<1> QED BY <1>2, <1>3 DEF ConnectAccountAddress

LEMMA ConnectedKeeps ==
    ASSUME SignerInv, NEW c \in Calls, Connected(c)
    PROVE  SignerInv'
<1>1. /\ call[c].pc = "connect" /\ call[c].pc \notin Done
      /\ UNCHANGED <<sendUserOp, hearing, chain, faults>>
  BY DEF Connected, Done
<1>2. CASE call[c].reply > EmptyCode
  <2>1. /\ account' = [account EXCEPT ![SignerOf[c]] = call[c].target]
        /\ phantom' = [phantom EXCEPT ![SignerOf[c]] = FALSE]
        /\ Goto(c, "returned")
    BY <1>2 DEF Connected
  <2>2. call[c].target \in Address /\ call[c].target # NoAddress
    BY <1>1, CallFacts, SignerAssumption DEF CallOK, Address
  <2>3. /\ account' \in [Signers -> Address \cup {NoAddress}]
        /\ \A s \in Signers : account[s] # NoAddress => account'[s] # NoAddress
        /\ phantom' \in [Signers -> BOOLEAN]
    BY <2>1, <2>2, CallFacts
  <2> QED BY <1>1, <2>1, <2>2, <2>3, MoveKeeps DEF Pc
<1>3. CASE ~(call[c].reply > EmptyCode)
  <2>1. Goto(c, "threw") /\ UNCHANGED <<account, phantom>>
    BY <1>3 DEF Connected
  <2> QED BY <1>1, <2>1, CallFacts, MoveKeeps DEF Pc
<1> QED BY <1>2, <1>3

-----------------------------------------------------------------------------
(***************************************************************************)
(* _createUserOperation and sendTransaction.                               *)
(***************************************************************************)
LEMMA DecideInitCodeKeeps ==
    ASSUME SignerInv, NEW c \in Calls, DecideInitCode(c)
    PROVE  SignerInv'
<1> DEFINE r == [call[c] EXCEPT !.pc = "populate", !.init = phantom[SignerOf[c]]]
<1>1. call[c].pc = "synced" /\ phantom[SignerOf[c]] \in BOOLEAN
  BY CallFacts DEF DecideInitCode
<1>2. /\ call' = [call EXCEPT ![c] = r]
      /\ UNCHANGED <<sendUserOp, account, phantom, hearing, chain, faults>>
  BY DEF DecideInitCode
<1>3. r \in CallState
  <2>1. [call[c] EXCEPT !.pc = "populate"] \in CallState
    BY CallFacts DEF CallState
  <2>2. ASSUME NEW q \in CallState, NEW b \in BOOLEAN PROVE [q EXCEPT !.init = b] \in CallState
    BY DEF CallState
  <2> QED BY <1>1, <2>1, <2>2
<1>4. /\ r.pc = "populate" /\ r.op = call[c].op /\ r.block = call[c].block
      /\ r.result = call[c].result /\ r.fate = call[c].fate
      /\ r.listening = call[c].listening /\ r.timer = call[c].timer
  BY CallFacts DEF CallState
<1> HIDE DEF r
<1>5. /\ call' \in [Calls -> CallState] /\ call'[c] = r
      /\ \A d \in Calls : d # c => call'[d] = call[d]
  BY <1>2, <1>3, CallFacts DEF SignerTypes
<1>6. SignerTypes'
  BY <1>2, <1>5, CallFacts DEF SignerTypes
<1>7. account[SignerOf[c]] # NoAddress
  BY <1>1, CallFacts DEF CallOK
<1> QED BY <1>1, <1>2, <1>4, <1>5, <1>6, <1>7, QuietStepKeeps DEF SameResponse, Done

\* The operation is filled in, for an account of the signer.
LEMMA FillKeeps ==
    ASSUME SignerInv, NEW c \in Sends, call[c].pc \in {"populate", "getNonce"},
           NEW a \in Address, NEW n \in Nat,
           call' = [call EXCEPT ![c].pc = "respond", ![c].op = Operation(c, a, n)],
           UNCHANGED <<sendUserOp, account, phantom, hearing, chain, faults>>
    PROVE  SignerInv'
<1> DEFINE o == Operation(c, a, n)
           r == [call[c] EXCEPT !.pc = "respond", !.op = o]
<1>1. c \in Calls
  BY DEF Calls
<1>2. o \in UserOp /\ o.sender = a
  BY <1>1, CallFacts DEF Operation, UserOp, CallState
<1> HIDE DEF o
<1>3. call' = [call EXCEPT ![c] = r]
  BY DEF o
<1>4. r \in CallState
  <2>1. [call[c] EXCEPT !.pc = "respond"] \in CallState
    BY <1>1, CallFacts DEF CallState
  <2>2. ASSUME NEW q \in CallState PROVE [q EXCEPT !.op = o] \in CallState
    BY <1>2 DEF CallState
  <2> QED BY <2>1, <2>2
<1>5. /\ r.pc = "respond" /\ r.op = o /\ r.block = call[c].block
      /\ r.result = call[c].result /\ r.fate = call[c].fate
      /\ r.listening = call[c].listening /\ r.timer = call[c].timer
  BY <1>1, CallFacts DEF CallState
<1> HIDE DEF r
<1>6. /\ call' \in [Calls -> CallState] /\ call'[c] = r
      /\ \A d \in Calls : d # c => call'[d] = call[d]
  BY <1>1, <1>3, <1>4, CallFacts DEF SignerTypes
<1>7. SignerTypes'
  BY <1>1, <1>6, CallFacts DEF SignerTypes
<1>8. CallOK(c) /\ call[c].pc \notin Done
  BY <1>1, CallFacts DEF Done
<1>9. CallOK(c)'
  BY <1>2, <1>5, <1>6, <1>8 DEF CallOK
<1> QED BY <1>1, <1>5, <1>6, <1>7, <1>8, <1>9, CallStepKeeps

LEMMA FillUserOpKeeps ==
    ASSUME SignerInv, NEW c \in Sends, FillUserOp(c)
    PROVE  SignerInv'
<1>1. /\ c \in Calls /\ call[c].pc = "populate" /\ call[c].pc \notin Done
      /\ UNCHANGED <<sendUserOp, account, phantom, hearing, chain, faults>>
  BY DEF FillUserOp, Calls, Done
<1>2. account[SignerOf[c]] \in Address /\ account[SignerOf[c]] # NoAddress
  BY <1>1, CallFacts DEF CallOK
<1>3. CASE call[c].init
  <2>1. Index[SignerOf[c]] \in Nat
    BY <1>1, SignerAssumption
  <2>2. call' = [call EXCEPT ![c].pc = "respond",
                             ![c].op = Operation(c, account[SignerOf[c]], Index[SignerOf[c]])]
    BY <1>3 DEF FillUserOp
  <2> QED BY <1>1, <1>2, <2>1, <2>2, FillKeeps
<1>4. CASE ~call[c].init
  <2>1. Ask(c, "getNonce", account[SignerOf[c]])
    BY <1>4 DEF FillUserOp
  <2> QED BY <1>1, <1>2, <2>1, CallFacts, MoveKeeps DEF Pc
<1> QED BY <1>3, <1>4

LEMMA GotNonceKeeps ==
    ASSUME SignerInv, NEW c \in Sends, GotNonce(c)
    PROVE  SignerInv'
<1>1. /\ c \in Calls /\ call[c].pc = "getNonce" /\ call[c].reply # NoReply
      /\ call[c].pc \notin Done
      /\ UNCHANGED <<sendUserOp, account, phantom, hearing, chain, faults>>
  BY DEF GotNonce, Calls, Done
<1>2. CASE call[c].reply = Revert
  <2>1. Goto(c, "threw")
    BY <1>2 DEF GotNonce
  <2> QED BY <1>1, <2>1, CallFacts, MoveKeeps DEF Pc
<1>3. CASE call[c].reply # Revert
  <2>1. call[c].reply \in Nat
    BY <1>1, <1>3, CallFacts DEF CallState
  <2>2. call[c].target \in Address
    BY <1>1, CallFacts DEF CallOK
  <2>3. call' = [call EXCEPT ![c].pc = "respond",
                             ![c].op = Operation(c, call[c].target, call[c].reply)]
    BY <1>3 DEF GotNonce
  <2> QED BY <1>1, <2>1, <2>2, <2>3, FillKeeps
<1> QED BY <1>2, <1>3

LEMMA UserEventResponseKeeps ==
    ASSUME SignerInv, NEW c \in Calls, UserEventResponse(c)
    PROVE  SignerInv'
<1> DEFINE r == [call[c] EXCEPT !.pc = "send", !.listening = TRUE, !.timer = TRUE]
<1>1. /\ call[c].pc = "respond" /\ call' = [call EXCEPT ![c] = r]
      /\ UNCHANGED <<sendUserOp, account, phantom, hearing, chain, faults>>
  BY DEF UserEventResponse
<1>2. r \in CallState
  <2>1. [call[c] EXCEPT !.pc = "send"] \in CallState
    BY CallFacts DEF CallState
  <2>2. ASSUME NEW q \in CallState PROVE [q EXCEPT !.listening = TRUE] \in CallState
    BY DEF CallState
  <2>3. ASSUME NEW q \in CallState PROVE [q EXCEPT !.timer = TRUE] \in CallState
    BY DEF CallState
  <2> QED BY <2>1, <2>2, <2>3
<1>3. /\ r.pc = "send" /\ r.op = call[c].op /\ r.block = call[c].block
      /\ r.result = call[c].result /\ r.fate = call[c].fate
  BY CallFacts DEF CallState
<1> HIDE DEF r
<1>4. /\ call' \in [Calls -> CallState] /\ call'[c] = r
      /\ \A d \in Calls : d # c => call'[d] = call[d]
  BY <1>1, <1>2, CallFacts DEF SignerTypes
<1>5. SignerTypes'
  BY <1>1, <1>4, CallFacts DEF SignerTypes
<1>6. CallOK(c)'
  BY <1>1, <1>3, <1>4, CallFacts DEF CallOK, Done
<1> QED BY <1>1, <1>3, <1>4, <1>5, <1>6, CallStepKeeps DEF Done

LEMMA CurrentBlockKeeps ==
    ASSUME SignerInv, NEW c \in Calls, CurrentBlock(c)
    PROVE  SignerInv'
<1> DEFINE r == [call[c] EXCEPT !.block = chain.block]
<1>1. /\ call[c].listening /\ call[c].block = NoReply /\ call' = [call EXCEPT ![c] = r]
      /\ UNCHANGED <<sendUserOp, account, phantom, hearing, chain, faults>>
  BY DEF CurrentBlock
<1>2. chain.block \in Nat
  BY CallFacts, SignerAssumption DEF SignerTypes, Chain
<1>3. /\ r \in CallState /\ r.pc = call[c].pc /\ r.target = call[c].target
      /\ r.op = call[c].op /\ r.result = call[c].result /\ r.fate = call[c].fate
  BY <1>2, CallFacts DEF CallState
<1> HIDE DEF r
<1>4. /\ call' \in [Calls -> CallState] /\ call'[c] = r
      /\ \A d \in Calls : d # c => call'[d] = call[d]
  BY <1>1, <1>3, CallFacts DEF SignerTypes
<1>5. SignerTypes'
  BY <1>1, <1>4, CallFacts DEF SignerTypes
<1>6. CallOK(c)' /\ call[c].pc \in Done
  BY <1>1, <1>3, <1>4, CallFacts DEF CallOK
<1> QED BY <1>1, <1>3, <1>4, <1>5, <1>6, CallStepKeeps

\* The bundler and the EntryPoint change the fate of an operation that was sent.
LEMMA FateKeeps ==
    ASSUME SignerInv, NEW c \in Calls, NEW pc \in {call[c].pc, "sending"},
           NEW fate \in {"pool", "mined", "dropped"},
           call[c].pc \in Done, pc \in Done, call[c].op.sender \in Address,
           call' = [call EXCEPT ![c] = [call[c] EXCEPT !.pc = pc, !.fate = fate]],
           chain' \in Chain, chain.events \subseteq chain'.events,
           UNCHANGED <<sendUserOp, account, phantom, hearing, faults>>
    PROVE  SignerInv'
<1> DEFINE r == [call[c] EXCEPT !.pc = pc, !.fate = fate]
<1>1. r \in CallState
  <2>1. [call[c] EXCEPT !.pc = pc] \in CallState
    BY CallFacts DEF CallState
  <2>2. ASSUME NEW q \in CallState PROVE [q EXCEPT !.fate = fate] \in CallState
    BY DEF CallState
  <2> QED BY <2>1, <2>2
<1>2. /\ r.pc = pc /\ r.op = call[c].op /\ r.block = call[c].block /\ r.target = call[c].target
      /\ r.result = call[c].result
  BY CallFacts DEF CallState
<1>3. call' = [call EXCEPT ![c] = r]
  OBVIOUS
<1> HIDE DEF r
<1>4. /\ call' \in [Calls -> CallState] /\ call'[c] = r
      /\ \A d \in Calls : d # c => call'[d] = call[d]
  BY <1>1, <1>3, CallFacts DEF SignerTypes
<1>5. SignerTypes'
  BY <1>4, CallFacts DEF SignerTypes
<1>6. CallOK(c)'
  BY <1>2, <1>4, CallFacts DEF CallOK, Done
<1> QED BY <1>2, <1>4, <1>5, <1>6, CallStepKeeps

LEMMA SendUserOpKeeps ==
    ASSUME SignerInv, NEW c \in Calls, SendUserOp(c)
    PROVE  SignerInv'
<1>1. /\ call[c].pc = "send" /\ call[c].pc \in Done
      /\ UNCHANGED <<sendUserOp, account, phantom, hearing, chain, faults>>
  BY DEF SendUserOp, Done
<1>2. CASE call' = [call EXCEPT ![c].pc = "sending", ![c].fate = "pool"]
  <2>1. call[c].op.sender \in Address /\ chain \in Chain
    BY <1>1, CallFacts DEF CallOK, SignerTypes
  <2>2. call' = [call EXCEPT ![c] = [call[c] EXCEPT !.pc = "sending", !.fate = "pool"]]
    BY <1>2
  <2> QED BY <1>1, <2>1, <2>2, FateKeeps DEF Done
<1>3. CASE Goto(c, "threw")
  BY <1>1, <1>3, CallFacts, MoveKeeps DEF Pc, Done
<1> QED BY <1>2, <1>3 DEF SendUserOp

LEMMA SendReturnsKeeps ==
    ASSUME SignerInv, NEW c \in Calls, SendReturns(c)
    PROVE  SignerInv'
<1>1. PICK pc \in {"returned", "threw"} :
         Goto(c, pc) /\ UNCHANGED <<sendUserOp, account, phantom, hearing, chain, faults>>
  BY DEF SendReturns
<1> QED BY <1>1, CallFacts, MoveKeeps DEF Pc, Done

LEMMA MineOpKeeps ==
    ASSUME SignerInv, NEW c \in Calls, MineOp(c)
    PROVE  SignerInv'
<1> DEFINE op == call[c].op
<1>1. /\ call[c].fate = "pool" /\ chain.block < MaxBlock
      /\ call' = [call EXCEPT ![c].fate = "mined"]
      /\ UNCHANGED <<sendUserOp, account, phantom, hearing, faults>>
  BY DEF MineOp
<1>2. PICK success \in BOOLEAN :
         chain' = [code |-> chain.code \cup {op.sender},
                   nonce |-> [chain.nonce EXCEPT ![op.sender] = @ + 1],
                   block |-> chain.block + 1,
                   events |-> chain.events \cup
                       {[op |-> op, success |-> success, block |-> chain.block + 1]}]
  BY DEF MineOp
<1>3. /\ op.sender \in Address /\ call[c].pc \in Done /\ op \in UserOp /\ chain \in Chain
      /\ call[c].pc \in Pc
  BY <1>1, CallFacts DEF CallOK, CallState, SignerTypes, Pc
<1>4. chain.block + 1 \in 1..MaxBlock
  BY <1>1, <1>3, SignerAssumption DEF Chain
<1>5. [op |-> op, success |-> success, block |-> chain.block + 1] \in Event
  BY <1>3, <1>4 DEF Event
<1>6. [chain.nonce EXCEPT ![op.sender] = @ + 1] \in [Address -> Nat]
  BY <1>3 DEF Chain
<1>7. chain' \in Chain /\ chain.events \subseteq chain'.events
  BY <1>2, <1>3, <1>4, <1>5, <1>6 DEF Chain
<1>8. call' = [call EXCEPT ![c] = [call[c] EXCEPT !.pc = call[c].pc, !.fate = "mined"]]
  BY <1>1, CallFacts DEF SignerTypes, CallState
<1> QED BY <1>1, <1>3, <1>7, <1>8, FateKeeps

LEMMA DropKeeps ==
    ASSUME SignerInv, NEW c \in Calls, Drop(c)
    PROVE  SignerInv'
<1>1. /\ call[c].fate = "pool" /\ call' = [call EXCEPT ![c].fate = "dropped"]
      /\ UNCHANGED <<sendUserOp, account, phantom, hearing, chain, faults>>
  BY DEF Drop
<1>2. call[c].op.sender \in Address /\ call[c].pc \in Done /\ chain \in Chain
  BY <1>1, CallFacts DEF CallOK, SignerTypes
<1>3. call' = [call EXCEPT ![c] = [call[c] EXCEPT !.pc = call[c].pc, !.fate = "dropped"]]
  BY <1>1, CallFacts DEF SignerTypes, CallState
<1> QED BY <1>1, <1>2, <1>3, FateKeeps

-----------------------------------------------------------------------------
(***************************************************************************)
(* Blocks of others, and the listener.                                     *)
(***************************************************************************)
LEMMA OtherBlockKeeps ==
    ASSUME SignerInv, OtherBlock
    PROVE  SignerInv'
<1>1. /\ chain.block < MaxBlock
      /\ UNCHANGED <<sendUserOp, account, phantom, call, hearing, faults>>
  BY DEF OtherBlock
<1>2. PICK ops \in SUBSET {ForeignOp}, code \in {chain.code, Address} :
         chain' = [chain EXCEPT !.block = @ + 1, !.code = code,
                                !.events = @ \cup {[op |-> op, success |-> TRUE,
                                                    block |-> chain.block + 1] : op \in ops}]
  BY DEF OtherBlock
<1>3. SignerTypes /\ chain \in Chain /\ HearingOK /\ ReceiptOK /\ \A c \in Calls : CallOK(c)
  BY DEF SignerInv, SignerTypes
<1>4. chain.block + 1 \in 1..MaxBlock
  BY <1>1, <1>3, SignerAssumption DEF Chain
<1> DEFINE new == {[op |-> op, success |-> TRUE, block |-> chain.block + 1] : op \in ops}
<1>5. new \subseteq Event
  <2>1. ASSUME NEW op \in ops
        PROVE  [op |-> op, success |-> TRUE, block |-> chain.block + 1] \in Event
    BY <1>4, SignerOpTypes DEF Event
  <2> QED BY <2>1
<1>6. chain' = [chain EXCEPT !.block = chain.block + 1, !.code = code,
                             !.events = chain.events \cup new]
  BY <1>2
<1> HIDE DEF new
<1>7. chain' \in Chain /\ chain.events \subseteq chain'.events
  <2>1. /\ code \in SUBSET Address /\ chain.block + 1 \in 0..MaxBlock
        /\ chain.events \cup new \in SUBSET Event
    BY <1>3, <1>4, <1>5 DEF Chain
  <2> QED BY <1>3, <1>6, <2>1 DEF Chain
<1>8. SignerTypes' /\ \A c \in Calls : CallOK(c)'
  BY <1>1, <1>3, <1>7 DEF SignerTypes, CallOK
<1>9. HearingOK' /\ ReceiptOK'
  BY <1>1, <1>3, <1>7 DEF HearingOK, ReceiptOK, Tells
<1> QED BY <1>8, <1>9 DEF SignerInv

\* The result of c stays, or is that of an event that tells of its operation.
SettlesOwn(c) ==
    \/ call'[c].result = call[c].result
    \/ \E e \in chain.events : Tells(e, c) /\ (e.success <=> call'[c].result = "success")

\* What is heard was heard before, or is heard by the listener of c.
HearsFor(c) ==
    \A h \in hearing' :
        \/ h \in hearing
        \/ /\ h.call = c /\ h.event \in chain.events
           /\ h.at = "receipt" => Tells(h.event, c)

\* A step of the listener of c: the operation, the block number and the calls go on as
\* they were, and what is heard is heard of c or was before.
LEMMA ListenStepKeeps ==
    ASSUME SignerInv, NEW c \in Sends, call[c].pc \in Done,
           call' \in [Calls -> CallState],
           \A d \in Calls : d # c => call'[d] = call[d],
           call'[c].pc = call[c].pc, call'[c].target = call[c].target,
           call'[c].op = call[c].op, call'[c].block = call[c].block, call'[c].fate = call[c].fate,
           SettlesOwn(c), HearsFor(c),
           hearing' \subseteq [call : Sends, event : Event, at : {"block", "receipt"}],
           faults' \in 0..MaxFaults,
           UNCHANGED <<sendUserOp, account, phantom, chain>>
    PROVE  SignerInv'
<1>1. c \in Calls /\ SignerTypes /\ HearingOK /\ ReceiptOK
  BY DEF Calls, SignerInv
<1>2. SignerTypes'
  BY <1>1 DEF SignerTypes
<1>3. ASSUME NEW d \in Calls
      PROVE  /\ call'[d].pc = call[d].pc /\ call'[d].target = call[d].target
             /\ call'[d].op = call[d].op
             /\ call'[d].block = call[d].block /\ call'[d].fate = call[d].fate
  OBVIOUS
<1>4. ASSUME NEW d \in Calls PROVE CallOK(d)'
  <2>1. CASE d = c
    BY <1>1, <1>3, <2>1 DEF SignerInv, CallOK
  <2>2. CASE d # c
    BY <2>2 DEF SignerInv, CallOK
  <2> QED BY <2>1, <2>2
<1>5. ASSUME NEW d \in Calls, NEW e PROVE Tells(e, d)' <=> Tells(e, d)
  BY <1>3 DEF Tells
<1>6. HearingOK'
  <2> SUFFICES ASSUME NEW h \in hearing'
               PROVE  /\ h.event \in chain.events /\ call'[h.call].pc \in Done
                      /\ h.at = "receipt" => Tells(h.event, h.call)'
    BY DEF HearingOK
  <2>1. h.call \in Calls
    BY DEF Calls
  <2>2. /\ h.event \in chain.events /\ call[h.call].pc \in Done
        /\ h.at = "receipt" => Tells(h.event, h.call)
    BY <1>1 DEF HearingOK, HearsFor
  <2> QED BY <1>3, <1>5, <2>1, <2>2
<1>7. ReceiptOK'
  <2> SUFFICES ASSUME NEW d \in Sends, call'[d].result # Pending
               PROVE  \E e \in chain.events :
                         Tells(e, d)' /\ (e.success <=> call'[d].result = "success")
    BY DEF ReceiptOK
  <2>1. d \in Calls
    BY DEF Calls
  <2>2. \E e \in chain.events : Tells(e, d) /\ (e.success <=> call'[d].result = "success")
    <3>1. CASE call'[d].result = call[d].result
      BY <1>1, <3>1 DEF ReceiptOK
    <3>2. CASE call'[d].result # call[d].result
      BY <2>1, <3>2 DEF SettlesOwn
    <3> QED BY <3>1, <3>2
  <2> QED BY <1>5, <2>1, <2>2
<1> QED BY <1>2, <1>4, <1>6, <1>7 DEF SignerInv

LEMMA OnKeeps ==
    ASSUME SignerInv, NEW c \in Sends, NEW e \in chain.events, On(c, e)
    PROVE  SignerInv'
<1> DEFINE r == [call[c] EXCEPT !.heard = call[c].heard \cup {e}]
<1>1. /\ call[c].listening /\ call' = [call EXCEPT ![c] = r]
      /\ hearing' = hearing \cup Invoke(c, e)
      /\ UNCHANGED <<sendUserOp, account, phantom, chain, faults>>
  BY DEF On
<1>2. c \in Calls /\ SignerTypes /\ e \in Event /\ call[c].pc \in Done
  BY <1>1, CallFacts DEF Calls, CallOK, SignerTypes, Chain
<1>3. /\ r \in CallState /\ r.pc = call[c].pc /\ r.target = call[c].target /\ r.op = call[c].op
      /\ r.block = call[c].block /\ r.fate = call[c].fate /\ r.result = call[c].result
  BY <1>2, CallFacts DEF CallState
<1> HIDE DEF r
<1>4. /\ call' \in [Calls -> CallState] /\ call'[c] = r
      /\ \A d \in Calls : d # c => call'[d] = call[d]
  BY <1>1, <1>2, <1>3 DEF SignerTypes
<1>5. /\ hearing' \subseteq [call : Sends, event : Event, at : {"block", "receipt"}]
      /\ HearsFor(c)
  BY <1>1, <1>2 DEF Invoke, SignerTypes, HearsFor
<1>6. faults' \in 0..MaxFaults
  BY <1>1, <1>2 DEF SignerTypes
<1>7. SettlesOwn(c)
  BY <1>3, <1>4 DEF SettlesOwn
<1> QED BY <1>1, <1>2, <1>3, <1>4, <1>5, <1>6, <1>7, ListenStepKeeps

LEMMA TimerKeeps ==
    ASSUME SignerInv, NEW c \in Sends, Timer(c)
    PROVE  SignerInv'
<1> DEFINE r == [call[c] EXCEPT !.timer = FALSE]
<1>1. /\ call[c].timer /\ call' = [call EXCEPT ![c] = r]
      /\ hearing' = hearing \cup
            UNION {Invoke(c, e) : e \in {f \in chain.events : f.op = call[c].op}}
      /\ UNCHANGED <<sendUserOp, account, phantom, chain, faults>>
  BY DEF Timer
<1>2. c \in Calls /\ SignerTypes /\ chain.events \subseteq Event /\ call[c].pc \in Done
  BY <1>1, CallFacts DEF Calls, CallOK, SignerTypes, Chain
<1>3. /\ r \in CallState /\ r.pc = call[c].pc /\ r.target = call[c].target /\ r.op = call[c].op
      /\ r.block = call[c].block /\ r.fate = call[c].fate /\ r.result = call[c].result
  BY <1>2, CallFacts DEF CallState
<1> HIDE DEF r
<1>4. /\ call' \in [Calls -> CallState] /\ call'[c] = r
      /\ \A d \in Calls : d # c => call'[d] = call[d]
  BY <1>1, <1>2, <1>3 DEF SignerTypes
<1>5. ASSUME NEW h \in hearing', h \notin hearing
      PROVE  \E e \in chain.events : h = [call |-> c, event |-> e, at |-> "block"]
  BY <1>1, <1>5 DEF Invoke
<1>6. /\ hearing' \subseteq [call : Sends, event : Event, at : {"block", "receipt"}]
      /\ HearsFor(c)
  BY <1>2, <1>5 DEF SignerTypes, HearsFor
<1>7. faults' \in 0..MaxFaults
  BY <1>1, <1>2 DEF SignerTypes
<1>8. SettlesOwn(c)
  BY <1>3, <1>4 DEF SettlesOwn
<1> QED BY <1>1, <1>2, <1>3, <1>4, <1>6, <1>7, <1>8, ListenStepKeeps

\* What an invocation of a listener is about.
LEMMA HearingFacts ==
    ASSUME SignerInv, NEW h \in hearing
    PROVE  /\ h \in [call : Sends, event : Event, at : {"block", "receipt"}]
           /\ h.call \in Sends /\ h.call \in Calls /\ h.event \in chain.events
           /\ call[h.call] \in CallState /\ call[h.call].pc \in Done
           /\ h.at = "receipt" => Tells(h.event, h.call)
           /\ SignerTypes
BY DEF SignerInv, SignerTypes, HearingOK, Calls

LEMMA CheckEventKeeps ==
    ASSUME SignerInv, NEW h \in hearing, CheckEvent(h)
    PROVE  SignerInv'
<1>1. /\ call[h.call].block # NoReply
      /\ hearing' = (hearing \ {h}) \cup
            {[g EXCEPT !.at = "receipt"] : g \in {k \in {h} : Matches(k)}}
      /\ UNCHANGED <<sendUserOp, account, phantom, call, chain, faults>>
  BY DEF CheckEvent
<1>2. ASSUME NEW g \in hearing', g \notin hearing
      PROVE  /\ g \in [call : Sends, event : Event, at : {"block", "receipt"}]
             /\ g.call = h.call /\ g.event = h.event /\ Tells(g.event, h.call)
  <2>1. g = [h EXCEPT !.at = "receipt"] /\ Matches(h)
    BY <1>1, <1>2
  <2>2. /\ g \in [call : Sends, event : Event, at : {"block", "receipt"}]
        /\ g.call = h.call /\ g.event = h.event
    BY <2>1, HearingFacts
  <2> QED BY <1>1, <2>1, <2>2 DEF Matches, Tells
<1>3. hearing' \subseteq [call : Sends, event : Event, at : {"block", "receipt"}]
  BY <1>2, HearingFacts DEF SignerTypes
<1>4. call' \in [Calls -> CallState] /\ faults' \in 0..MaxFaults
  BY <1>1, HearingFacts DEF SignerTypes
<1>5. HearsFor(h.call)
  BY <1>2, HearingFacts DEF HearsFor
<1>6. SettlesOwn(h.call)
  BY <1>1 DEF SettlesOwn
<1> QED BY <1>1, <1>3, <1>4, <1>5, <1>6, HearingFacts, ListenStepKeeps

LEMMA ResolveKeeps ==
    ASSUME SignerInv, NEW h \in hearing, Resolve(h)
    PROVE  SignerInv'
<1> DEFINE c == h.call
           res == IF call[c].result # Pending THEN call[c].result
                  ELSE IF h.event.success THEN "success" ELSE "failure"
           r == [call[c] EXCEPT !.listening = FALSE, !.result = res]
<1>1. /\ h.at = "receipt" /\ hearing' = hearing \ {h} /\ call' = [call EXCEPT ![c] = r]
      /\ UNCHANGED <<sendUserOp, account, phantom, chain, faults>>
  BY DEF Resolve
<1>2. /\ c \in Sends /\ c \in Calls /\ SignerTypes /\ call[c].pc \in Done /\ call[c] \in CallState
      /\ h.event \in chain.events /\ Tells(h.event, c)
  BY <1>1, HearingFacts
<1>3. /\ res \in {Pending, "success", "failure"}
      /\ res # call[c].result => (h.event.success <=> res = "success")
  BY <1>2 DEF CallState
<1> HIDE DEF res
<1>4. r \in CallState
  <2>1. [call[c] EXCEPT !.listening = FALSE] \in CallState
    BY <1>2 DEF CallState
  <2>2. ASSUME NEW q \in CallState PROVE [q EXCEPT !.result = res] \in CallState
    BY <1>3 DEF CallState
  <2> QED BY <2>1, <2>2
<1>5. /\ r.pc = call[c].pc /\ r.target = call[c].target /\ r.op = call[c].op
      /\ r.block = call[c].block /\ r.fate = call[c].fate /\ r.result = res
  BY <1>2 DEF CallState
<1> HIDE DEF r
<1>6. /\ call' \in [Calls -> CallState] /\ call'[c] = r
      /\ \A d \in Calls : d # c => call'[d] = call[d]
  BY <1>1, <1>2, <1>4 DEF SignerTypes
<1>7. hearing' \subseteq [call : Sends, event : Event, at : {"block", "receipt"}]
      /\ faults' \in 0..MaxFaults /\ hearing' \subseteq hearing
  BY <1>1, <1>2 DEF SignerTypes
<1>8. SettlesOwn(c)
  BY <1>2, <1>3, <1>5, <1>6 DEF SettlesOwn
<1>9. HearsFor(c)
  BY <1>7 DEF HearsFor
<1> HIDE DEF c
<1> QED BY <1>1, <1>2, <1>5, <1>6, <1>7, <1>8, <1>9, ListenStepKeeps

LEMMA ListenerFailsKeeps ==
    ASSUME SignerInv, NEW h \in hearing, ListenerFails(h)
    PROVE  SignerInv'
<1> DEFINE c == h.call
           r == [call[c] EXCEPT !.missed = TRUE]
<1>1. /\ hearing' = hearing \ {h} /\ call' = [call EXCEPT ![c] = r]
      /\ faults < MaxFaults /\ faults' = faults + 1
      /\ UNCHANGED <<sendUserOp, account, phantom, chain>>
  BY DEF ListenerFails
<1>2. c \in Sends /\ c \in Calls /\ SignerTypes /\ call[c].pc \in Done /\ call[c] \in CallState
  BY HearingFacts
<1>3. /\ r \in CallState /\ r.pc = call[c].pc /\ r.target = call[c].target /\ r.op = call[c].op
      /\ r.block = call[c].block /\ r.fate = call[c].fate /\ r.result = call[c].result
  BY <1>2 DEF CallState
<1> HIDE DEF r
<1>4. /\ call' \in [Calls -> CallState] /\ call'[c] = r
      /\ \A d \in Calls : d # c => call'[d] = call[d]
  BY <1>1, <1>2, <1>3 DEF SignerTypes
<1>5. /\ hearing' \subseteq [call : Sends, event : Event, at : {"block", "receipt"}]
      /\ hearing' \subseteq hearing
  BY <1>1, <1>2 DEF SignerTypes
<1>6. faults' \in 0..MaxFaults
  BY <1>1, <1>2, SignerAssumption DEF SignerTypes
<1>7. SettlesOwn(c) /\ HearsFor(c)
  BY <1>3, <1>4, <1>5 DEF SettlesOwn, HearsFor
<1> HIDE DEF c
<1> QED BY <1>1, <1>2, <1>3, <1>4, <1>5, <1>6, <1>7, ListenStepKeeps

-----------------------------------------------------------------------------
LEMMA SignerStep == SignerInv /\ [SignerNext]_signerVars => SignerInv'
<1> SUFFICES ASSUME SignerInv, [SignerNext]_signerVars PROVE SignerInv'
  OBVIOUS
<1>1. CASE UNCHANGED signerVars
  <2> USE <1>1 DEF signerVars, SignerInv
  <2>1. SignerTypes' /\ \A c \in Calls : CallOK(c)'
    BY DEF SignerTypes, CallOK
  <2>2. HearingOK' /\ ReceiptOK'
    BY DEF HearingOK, ReceiptOK, Tells
  <2> QED BY <2>1, <2>2
<1>2. CASE \E c \in Calls : NodeAnswers(c) \/ RequestFails(c) \/ GotAccountAddress(c) \/ GotCode(c)
  BY <1>2, NodeAnswersKeeps, RequestFailsKeeps, GotAccountAddressKeeps, GotCodeKeeps
<1>3. CASE \E c \in Sends : SendStep(c)
  <2>1. PICK c \in Sends : SendStep(c)
    BY <1>3
  <2>2. c \in Calls
    BY DEF Calls
  <2> QED BY <2>1, <2>2, SyncAccountKeeps, DecideInitCodeKeeps, FillUserOpKeeps, GotNonceKeeps,
             UserEventResponseKeeps, CurrentBlockKeeps, SendUserOpKeeps, SendReturnsKeeps,
             MineOpKeeps, DropKeeps DEF SendStep
<1>4. CASE \E c \in Syncs : SyncAccount(c) \/ SyncReturns(c)
  BY <1>4, SyncAccountKeeps, SyncReturnsKeeps DEF Calls
<1>5. CASE \E c \in Connects : (\E a \in Address : ConnectAccountAddress(c, a)) \/ Connected(c)
  BY <1>5, ConnectAccountAddressKeeps, ConnectedKeeps DEF Calls
<1>6. CASE OtherBlock
  BY <1>6, OtherBlockKeeps
<1>7. CASE Listening
  BY <1>7, OnKeeps, TimerKeeps, CheckEventKeeps, ResolveKeeps DEF Listening
<1>8. CASE \E h \in hearing : ListenerFails(h)
  BY <1>8, ListenerFailsKeeps
<1> QED BY <1>1, <1>2, <1>3, <1>4, <1>5, <1>6, <1>7, <1>8 DEF SignerNext

LEMMA AlwaysSigner == SignerSpec => []SignerInv
BY SignerInitInv, SignerStep, PTL DEF SignerSpec

\* syncAccount and _createUserOperation: for any signers and overlapping calls the state
\* keeps its types; no operation is sent without a sender.
THEOREM SignerTypesHold == SignerSpec => []SignerTypeOK
<1>1. SignerInv => SignerTypeOK
  BY DEF SignerInv, SignerTypes, SignerTypeOK, CallOK, Chain
<1> QED BY <1>1, AlwaysSigner, PTL

\* userEventResponse: a promise of wait() is only ever settled with the outcome of the
\* call's own operation, for any number of signers, overlapping transactions, blocks,
\* events and failing requests.
THEOREM ReceiptsOwn == SignerSpec => []ReceiptIsOwn
<1>1. SignerInv => ReceiptIsOwn
  BY DEF SignerInv, ReceiptOK, ReceiptIsOwn, Tells
<1> QED BY <1>1, AlwaysSigner, PTL
=============================================================================
