----------------------------- MODULE GasChecker -----------------------------
(***************************************************************************)
(* gascalc/GasChecker.ts: test files that measure the gas of bundles of    *)
(* user operations and add a row each to one table.                        *)
(*                                                                         *)
(* Every file makes a GasChecker when it is loaded; the first one starts   *)
(* the collector's asynchronous initialisation, which nobody awaits there. *)
(* The rows of a test, and the tests, run one after the other.  A row      *)
(* creates the accounts it needs and builds one operation per account, all *)
(* at the same time.  Promise.all rejects with the first that throws; the  *)
(* others go on while the next test runs.  The gas of a call is estimated  *)
(* once: rightly, or for an account that does not exist yet.               *)
(***************************************************************************)
EXTENDS Naturals, Sequences, FiniteSets

CONSTANTS
    Rows,      \* the calls of runTest, in the order of the files and their tests
    MaxFaults  \* bound on the requests that fail

\* hook: the row is the first of a file with a before() that uses the collector;
\* report: the row goes into the table (addTestRow), as the warmup's does not.
Row == [file : Nat, test : Nat, count : Nat \ {0}, hook : BOOLEAN, report : BOOLEAN]

\* The suite is gascalc/*, in the order of the names: it begins with the warmup, whose
\* file has no hook.
ASSUME GasAssumption ==
    /\ Rows \in Seq(Row)
    /\ Rows # <<>> => ~Rows[1].hook
    /\ MaxFaults \in Nat

Files == {Rows[k].file : k \in DOMAIN Rows}
Index == UNION {1..Rows[k].count : k \in DOMAIN Rows}

\* An account of the owner that the file's GasChecker made up.
Account == Files \X Index

VARIABLES
    loaded,    \* files loaded so far
    col,       \* GasCheckCollector: inst, initPromise, the _init calls under way
    table,     \* the rows in the table of the collector in use
    passed,    \* the rows that have been added to a table
    failed,    \* the rows that threw, or whose file's hook did
    run,       \* the row that runs: see RunState
    created,   \* createdAccounts of a file's GasChecker
    locked,    \* its lock
    cache,     \* gasEstimatePerExec
    est,       \* the variable accountEst of a row
    worker,    \* what a row does for an account: its step, and the callGasLimit used
    ledger,    \* accounts that exist, those in transactions not mined, and whether a
               \* transaction is mined when it is accepted
    faults

gasVars == <<loaded, col, table, passed, failed, run, created, locked, cache, est, worker,
             ledger, faults>>

Estimate == {"none", "right", "wrong"}

RunState ==
    [row : 1..Len(Rows) + 1, pc : {"start", "init", "create", "work", "handleOps"},
     n : Nat, ops : SUBSET Account]

Idle == [pc |-> "off", limit |-> "none"]

\* A worker waits for the lock when the row's accountEst has been estimated, and fills in
\* no operation whose callGasLimit is the zero that accountEst starts from.
GasTypeOK ==
    /\ loaded \in SUBSET Files
    /\ col \in [inst : BOOLEAN, promise : {"none", "pending", "resolved", "rejected"},
                inits : Nat]
    /\ table \in Seq(DOMAIN Rows) /\ passed \in Seq(DOMAIN Rows)
    /\ failed \subseteq DOMAIN Rows
    /\ run \in RunState
    /\ created \in [Files -> SUBSET Index]
    /\ locked \in [Files -> BOOLEAN]
    /\ cache \in Estimate /\ est \in [DOMAIN Rows -> Estimate]
    /\ worker \in [DOMAIN Rows -> [Index -> [
          pc : {"off", "estimate", "estimating", "lock", "fill", "packed", "threw"},
          limit : Estimate]]]
    /\ \A k \in DOMAIN Rows, i \in Index :
          /\ worker[k][i].pc \in {"lock", "fill", "packed"} => est[k] # "none"
          /\ worker[k][i].pc \in {"fill", "packed"} => worker[k][i].limit # "none"
    /\ ledger \in [accounts : SUBSET Account, pending : SUBSET Account, instant : BOOLEAN]
    /\ faults \in 0..MaxFaults

StartRow(k) == [row |-> k, pc |-> "start", n |-> 1, ops |-> {}]

GasInit ==
    /\ loaded = {}
    /\ col = [inst |-> FALSE, promise |-> "none", inits |-> 0]
    /\ table = <<>> /\ passed = <<>> /\ failed = {}
    /\ run = StartRow(1)
    /\ created = [f \in Files |-> {}]
    /\ locked = [f \in Files |-> FALSE]
    /\ cache = "none" /\ est = [k \in DOMAIN Rows |-> "none"]
    /\ worker = [k \in DOMAIN Rows |-> [i \in Index |-> Idle]]
    /\ ledger \in [accounts : {{}}, pending : {{}}, instant : BOOLEAN]
    /\ faults = 0

Fault == faults < MaxFaults /\ faults' = faults + 1

-----------------------------------------------------------------------------
(***************************************************************************)
(* GasCheckCollector.                                                      *)
(***************************************************************************)
\* A collector for everybody who finds none.
CollectorInit_NoPromise ==
    IF ~col.inst THEN [col EXCEPT !.promise = "pending", !.inits = @ + 1] ELSE col

\* GasCheckCollector.init, up to its await.
CollectorInit ==
    IF ~col.inst /\ col.promise = "none"
    THEN [col EXCEPT !.promise = "pending", !.inits = @ + 1] ELSE col

\* A file is loaded, in any order: new GasChecker().
Load(f) ==
    /\ f \notin loaded
    /\ loaded' = loaded \cup {f}
    /\ col' = CollectorInit
    /\ UNCHANGED <<table, passed, failed, run, created, locked, cache, est, worker, ledger, faults>>

\* _init is done: there is a collector, with a table that has no rows.
InitDone ==
    /\ col.inits > 0
    /\ col' = [inst |-> TRUE, promise |-> "resolved", inits |-> col.inits - 1]
    /\ table' = <<>>
    /\ UNCHANGED <<loaded, passed, failed, run, created, locked, cache, est, worker, ledger, faults>>

\* deployEntryPoint throws; the rejected promise is kept.
InitFails ==
    /\ col.inits > 0
    /\ Fault
    /\ col' = [col EXCEPT !.promise = "rejected", !.inits = @ - 1]
    /\ UNCHANGED <<loaded, table, passed, failed, run, created, locked, cache, est, worker, ledger>>

-----------------------------------------------------------------------------
(***************************************************************************)
(* Rows.                                                                   *)
(***************************************************************************)
Current == Rows[run.row]

\* What is left after row k has thrown: the next test; after a hook has: the next file.
Later(k, hook) ==
    LET rest == {j \in k + 1..Len(Rows) :
                    IF hook THEN Rows[j].file # Rows[k].file ELSE Rows[j].test # Rows[k].test}
                \cup {Len(Rows) + 1}
    IN  CHOOSE j \in rest : \A i \in rest : j <= i

Throws(hook) ==
    /\ run' = StartRow(Later(run.row, hook))
    /\ failed' = failed \cup {run.row}

\* The before() of a file, which does not wait for the collector, then addTestRow.
BeginRow ==
    /\ run.row <= Len(Rows) /\ loaded = Files
    /\ run.pc = "start"
    /\ IF Current.hook /\ ~col.inst
       THEN Throws(TRUE) /\ UNCHANGED col
       ELSE /\ run' = [run EXCEPT !.pc = "init"]
            /\ col' = CollectorInit
            /\ UNCHANGED failed
    /\ UNCHANGED <<loaded, table, passed, created, locked, cache, est, worker, ledger, faults>>

Initialised ==
    /\ run.pc = "init"
    /\ \/ col.inst /\ run' = [run EXCEPT !.pc = "create"] /\ UNCHANGED failed
       \/ ~col.inst /\ col.promise = "rejected" /\ Throws(FALSE)
    /\ UNCHANGED <<loaded, col, table, passed, created, locked, cache, est, worker, ledger, faults>>

InLoop_Short(n) == n < Current.count

\* for (const n of range(count)), counted from 1.
InLoop(n) == n <= Current.count

\* createAccounts1: one turn of its loop.
CreateAccount ==
    /\ run.pc = "create" /\ InLoop(run.n)
    /\ LET f == Current.file
           new == {<<f, run.n>>} \ ledger.accounts
       IN  /\ run' = [run EXCEPT !.n = @ + 1,
                                 !.ops = IF run.n \in created[f] THEN @ ELSE @ \cup new]
           /\ created' = [created EXCEPT ![f] = @ \cup {run.n}]
    /\ UNCHANGED <<loaded, col, table, passed, failed, locked, cache, est, worker, ledger, faults>>

\* ... and handleOps after it, which is accepted; the row's workers start.
SubmitCreation ==
    /\ run.pc = "create" /\ ~InLoop(run.n)
    /\ ledger' = IF ledger.instant THEN [ledger EXCEPT !.accounts = @ \cup run.ops]
                 ELSE [ledger EXCEPT !.pending = @ \cup run.ops]
    /\ run' = [run EXCEPT !.pc = "work"]
    /\ worker' = [worker EXCEPT ![run.row] =
                    [i \in Index |-> IF i <= Current.count THEN [Idle EXCEPT !.pc = "estimate"]
                                     ELSE Idle]]
    /\ UNCHANGED <<loaded, col, table, passed, failed, created, locked, cache, est, faults>>

MineCreation ==
    /\ ledger.pending # {}
    /\ ledger' = [ledger EXCEPT !.accounts = @ \cup ledger.pending, !.pending = {}]
    /\ UNCHANGED <<loaded, col, table, passed, failed, run, created, locked, cache, est, worker,
                   faults>>

\* A request of createAccounts1 or of the bundle fails.
RequestFails ==
    /\ run.pc \in {"create", "handleOps"}
    /\ Fault
    /\ Throws(FALSE)
    /\ UNCHANGED <<loaded, col, table, passed, created, locked, cache, est, worker, ledger>>

\* Promise.all.
Packed ==
    /\ run.pc = "work"
    /\ \A i \in 1..Current.count : worker[run.row][i].pc = "packed"
    /\ run' = [run EXCEPT !.pc = "handleOps"]
    /\ UNCHANGED <<loaded, col, table, passed, failed, created, locked, cache, est, worker, ledger,
                   faults>>

WorkerThrew ==
    /\ run.pc = "work"
    /\ \E i \in 1..Current.count : worker[run.row][i].pc = "threw"
    /\ Throws(FALSE)
    /\ UNCHANGED <<loaded, col, table, passed, created, locked, cache, est, worker, ledger, faults>>

\* The receipt: every operation has succeeded, the row is added and the test goes on with
\* its next call; or one ran out of the gas it was given.
Receipt ==
    /\ run.pc = "handleOps"
    /\ IF \A i \in 1..Current.count : worker[run.row][i].limit = "right"
       THEN /\ LET add(s) == IF Current.report THEN Append(s, run.row) ELSE s
               IN  table' = add(table) /\ passed' = add(passed)
            /\ run' = StartRow(run.row + 1)
            /\ UNCHANGED failed
       ELSE Throws(FALSE) /\ UNCHANGED <<table, passed>>
    /\ UNCHANGED <<loaded, col, created, locked, cache, est, worker, ledger, faults>>

-----------------------------------------------------------------------------
(***************************************************************************)
(* Workers: the functions that runTest maps over the accounts.             *)
(***************************************************************************)
WorkerGoto(k, i, pc) == worker' = [worker EXCEPT ![k][i].pc = pc]

\* The cached estimate, if there is one.
LookUp(k, i) ==
    /\ worker[k][i].pc = "estimate"
    /\ IF cache = "none" THEN WorkerGoto(k, i, "estimating") /\ UNCHANGED est
       ELSE WorkerGoto(k, i, "lock") /\ est' = [est EXCEPT ![k] = cache]
    /\ UNCHANGED <<loaded, col, table, passed, failed, run, created, locked, cache, ledger, faults>>

\* The estimate stays in the inner accountEst, which hides the row's.
GotEstimate_Shadowed(k, i) ==
    /\ worker[k][i].pc = "estimating"
    /\ cache' = IF <<Rows[k].file, i>> \in ledger.accounts THEN "right" ELSE "wrong"
    /\ WorkerGoto(k, i, "lock")
    /\ UNCHANGED <<loaded, col, table, passed, failed, run, created, locked, est, ledger, faults>>

\* A call of an address without code costs less than one of the account.
GotEstimate(k, i) ==
    /\ worker[k][i].pc = "estimating"
    /\ cache' = IF <<Rows[k].file, i>> \in ledger.accounts THEN "right" ELSE "wrong"
    /\ est' = [est EXCEPT ![k] = cache']
    /\ WorkerGoto(k, i, "lock")
    /\ UNCHANGED <<loaded, col, table, passed, failed, run, created, locked, ledger, faults>>

\* A request before the lock fails: estimateGas, or one that gives a random destination
\* its balance.
WorkerRequestFails(k, i) ==
    /\ worker[k][i].pc \in {"estimate", "estimating"}
    /\ Fault
    /\ WorkerGoto(k, i, "threw")
    /\ UNCHANGED <<loaded, col, table, passed, failed, run, created, locked, cache, est, ledger>>

MayLock_Always(f) == TRUE

\* while (this.locked) ...
MayLock(f) == ~locked[f]

\* The rest of the turn: the lock, and callGasLimit from the row's accountEst.
Lock(k, i) ==
    /\ worker[k][i].pc = "lock" /\ MayLock(Rows[k].file)
    /\ locked' = [locked EXCEPT ![Rows[k].file] = TRUE]
    /\ worker' = [worker EXCEPT ![k][i] = [pc |-> "fill", limit |-> est[k]]]
    /\ UNCHANGED <<loaded, col, table, passed, failed, run, created, cache, est, ledger, faults>>

\* The lock is released on the way out, but not by an exception.
Unlocked_NoFinally(f, threw) == [locked EXCEPT ![f] = threw]

\* finally.
Unlocked(f, threw) == [locked EXCEPT ![f] = FALSE]

\* fillSignAndPack: the nonce of an account that does not exist cannot be read.
Filled(k, i) ==
    /\ worker[k][i].pc = "fill"
    /\ LET exists == <<Rows[k].file, i>> \in ledger.accounts
       IN  \/ exists /\ WorkerGoto(k, i, "packed")
              /\ locked' = Unlocked(Rows[k].file, FALSE) /\ UNCHANGED faults
           \/ WorkerGoto(k, i, "threw") /\ locked' = Unlocked(Rows[k].file, TRUE)
              /\ IF exists THEN Fault ELSE UNCHANGED faults
    /\ UNCHANGED <<loaded, col, table, passed, failed, run, created, cache, est, ledger>>

WorkerStep(k, i) ==
    LookUp(k, i) \/ GotEstimate(k, i) \/ WorkerRequestFails(k, i) \/ Lock(k, i) \/ Filled(k, i)

-----------------------------------------------------------------------------
RunnerStep ==
    \/ BeginRow \/ Initialised \/ CreateAccount \/ SubmitCreation
    \/ Packed \/ WorkerThrew \/ Receipt

GasNext ==
    \/ \E f \in Files : Load(f)
    \/ InitDone \/ InitFails
    \/ RunnerStep \/ RequestFails
    \/ MineCreation
    \/ \E k \in DOMAIN Rows, i \in Index : WorkerStep(k, i)

GasSpec == GasInit /\ [][GasNext]_gasVars

\* The event loop runs what can run, and requests are answered.
GasFairSpec ==
    /\ GasSpec
    /\ WF_gasVars(\E f \in Files : Load(f))
    /\ WF_gasVars(InitDone \/ InitFails)
    /\ WF_gasVars(RunnerStep)
    /\ WF_gasVars(MineCreation)
    /\ \A k \in DOMAIN Rows, i \in Index : WF_gasVars(WorkerStep(k, i))

-----------------------------------------------------------------------------
(***************************************************************************)
(* Properties.                                                             *)
(***************************************************************************)

\* GasCheckCollector.init, "create the singleton the first time (or return its
\* existing instance)": no row is lost with the table of a collector that another
\* call has replaced, however the files' calls of init overlap.
RowsAreKept == table = passed

\* runTest: the workers of a GasChecker, those of a row that has failed included,
\* fill in one operation at a time.
OneFillsAtATime ==
    \A f \in Files :
        LET filling == {w \in (DOMAIN Rows) \X Index :
                           Rows[w[1]].file = f /\ worker[w[1]][w[2]].pc = "fill"}
        IN  Cardinality(filling) <= 1

\* runTest: on a chain that mines at once no row throws unless a request does: the
\* hooks find the collector, the estimates are right and the accounts are there.
OnlyFaultsFail == ledger.instant /\ faults = 0 => failed = {}

\* runTest: every row is reported or throws, whatever the others of its GasChecker
\* left behind.
SuiteEnds == <>(run.row > Len(Rows))
=============================================================================
