------------------------------ MODULE ScanJobs ------------------------------
(***************************************************************************)
(* The asynchronous scan jobs of QuantumShield: batch scans               *)
(* (routers/scanner.py: batch_scan, run_scan_job) and the API and VPN      *)
(* scans (routers/api_scanner.py: scan_api, scan_vpn, _run_scan_bg).       *)
(*                                                                         *)
(* Each action is the code between two database commits.  A row of         *)
(* scan_jobs survives a crash; a job's place in a queue, its thread, its   *)
(* session and the results it has collected live in the memory of the      *)
(* server process that accepted it and do not.                             *)
(*                                                                         *)
(* SQLAlchemy: a commit whose flush fails rolls the transaction back and   *)
(* leaves the session inactive; every later statement on it raises until   *)
(* rollback() is called.  _save_scan calls it; the error handlers of       *)
(* run_scan_job and _run_scan_bg query first and roll back afterwards.     *)
(*                                                                         *)
(* Abstracted: what a scan finds (an outcome per target), the names of     *)
(* the targets (their position in the request), ids and timestamps.        *)
(***************************************************************************)
EXTENDS Integers, Sequences, FiniteSets

CONSTANTS
    Jobs,           \* identifiers of the jobs that may be submitted
    BatchJobs,      \* the jobs of POST /scan/batch; the others are API or VPN jobs
    Total,          \* [BatchJobs -> Nat]: how many targets a batch names
    Procs,          \* server processes over the one database
    Capacity,       \* [Pools -> Nat]: threads of each pool of a process
    FaultKinds,     \* which faults the environment may inject
    MaxFaults       \* bound on the number of faults of a behaviour

Pools == {"threadpool", "executor"}

AllFaultKinds == {"crash", "write", "read", "requester"}

ASSUME JobsAssumption ==
    /\ BatchJobs \subseteq Jobs
    /\ Total \in [BatchJobs -> Nat \ {0}]
    /\ Capacity \in [Pools -> Nat \ {0}]
    /\ FaultKinds \subseteq AllFaultKinds
    /\ MaxFaults \in Nat

NoProc == "no process"
ASSUME NoProcAssumption == NoProc \notin Procs

VARIABLES
    row,        \* the job's row in scan_jobs, as committed
    history,    \* [Jobs -> target positions whose record was inserted into scan_history]
    pc,         \* where the code that handles the job stands
    owner,      \* the process that accepted the job
    queue,      \* [Procs -> [Pools -> Seq(Jobs)]]: accepted, waiting for a thread
    usable,     \* [Jobs -> BOOLEAN]: the session of the job's thread is not inactive
    results,    \* [Jobs -> Seq(Outcome)]: run_scan_job's local list
    faults,     \* faults so far
    hit         \* jobs whose code a fault has struck

vars == <<row, history, pc, owner, queue, usable, results, faults, hit>>

-----------------------------------------------------------------------------
(* Rows *)

\* "scanned" stands for every report a scan returns, one that reports a
\* failed connection included; "error" for a scan that raised.
Outcome == {"scanned", "error", "blocked"}

NoResult == <<>>
NoSummary == [total_scanned |-> 0, blocked |-> 0, errors |-> 0]
NoRow == [status |-> "none", progress |-> 0, result |-> NoResult,
          summary |-> NoSummary, error |-> FALSE]

Status == {"none", "queued", "running", "completed", "done", "error"}

\* Mutant: a status outside the documented ones.
FinalStatusTypo(j) == IF j \in BatchJobs THEN "complete" ELSE "done"
FinalStatus(j) == IF j \in BatchJobs THEN "completed" ELSE "done"
Finished(j) == row[j].status \in {"completed", "done", "error"}

CountOf(s, o) == Cardinality({i \in DOMAIN s : s[i] = o})
Summary(s) == [total_scanned |-> Len(s), blocked |-> CountOf(s, "blocked"),
               errors |-> CountOf(s, "error")]

Pool(j) == IF j \in BatchJobs THEN "threadpool" ELSE "executor"

\* A thread of the pool is held from run_scan_job's first statement to its last.
Working == {"loop", "target", "save", "scan", "finish", "handler"}
\* Mutant: a thread is not given back.
BusyForever(p, pool) == {j \in Jobs : owner[j] = p /\ Pool(j) = pool /\ pc[j] \in Working \cup {"over"}}
Busy(p, pool) == {j \in Jobs : owner[j] = p /\ Pool(j) = pool /\ pc[j] \in Working}

Init == /\ row = [j \in Jobs |-> NoRow]
        /\ history = [j \in Jobs |-> {}]
        /\ pc = [j \in Jobs |-> "idle"]
        /\ owner = [j \in Jobs |-> NoProc]
        /\ queue = [p \in Procs |-> [pool \in Pools |-> <<>>]]
        /\ usable = [j \in Jobs |-> TRUE]
        /\ results = [j \in Jobs |-> <<>>]
        /\ faults = 0
        /\ hit = {}

-----------------------------------------------------------------------------
(* Faults *)

Fault(kind, js) == /\ kind \in FaultKinds
                   /\ faults < MaxFaults
                   /\ faults' = faults + 1
                   /\ hit' = hit \cup js

NoFault == UNCHANGED <<faults, hit>>

Goto(j, label) == pc' = [pc EXCEPT ![j] = label]

\* db.commit() of the job's thread fails: nothing is written, the exception
\* leaves the try block and the session stays inactive.
WriteFails(j) == /\ Fault("write", {j})
                 /\ usable' = [usable EXCEPT ![j] = FALSE]
                 /\ Goto(j, "handler")
                 /\ UNCHANGED <<row, history, owner, queue, results>>

-----------------------------------------------------------------------------
(* The request handlers batch_scan, scan_api and scan_vpn *)

\* The row is inserted and committed before anything is scheduled.
SubmitJob(j, p) ==
    /\ pc[j] = "idle"
    /\ row[j] = NoRow
    /\ row' = [row EXCEPT ![j].status = "queued"]
    /\ owner' = [owner EXCEPT ![j] = p]
    /\ Goto(j, "submitted")
    /\ NoFault
    /\ UNCHANGED <<history, queue, usable, results>>

\* After the audit entry the job is handed to its pool.
EnqueueJob(j) ==
    /\ pc[j] = "submitted"
    /\ queue' = [queue EXCEPT ![owner[j]][Pool(j)] = Append(@, j)]
    /\ Goto(j, "queued")
    /\ NoFault
    /\ UNCHANGED <<row, history, owner, usable, results>>

\* The commit expired current_user, and the arguments of audit.record read
\* it back: if the account was deleted meanwhile the handler raises here,
\* the row is already there and the job is never handed to a pool.
RequesterDeleted(j) ==
    /\ pc[j] = "submitted"
    /\ Fault("requester", {j})
    /\ Goto(j, "over")
    /\ UNCHANGED <<row, history, owner, queue, usable, results>>

-----------------------------------------------------------------------------
(* The job's thread *)

\* Mutant: the job stays in the queue.
TakesThreadStays(j) ==
    /\ pc[j] = "queued"
    /\ Cardinality(Busy(owner[j], Pool(j))) < Capacity[Pool(j)]
    /\ Head(queue[owner[j]][Pool(j)]) = j
    /\ UNCHANGED queue

TakesThread(j) ==
    /\ pc[j] = "queued"
    /\ Cardinality(Busy(owner[j], Pool(j))) < Capacity[Pool(j)]
    /\ Head(queue[owner[j]][Pool(j)]) = j
    /\ queue' = [queue EXCEPT ![owner[j]][Pool(j)] = Tail(@)]

\* Mutant: the row is not marked running.
StartedQuietly(j) == "queued"
StartedStatus(j) == "running"

\* The row is found, marked running and committed.
StartJob(j) ==
    /\ TakesThread(j)
    /\ row' = [row EXCEPT ![j].status = StartedStatus(j)]
    /\ Goto(j, IF j \in BatchJobs THEN "loop" ELSE "scan")
    /\ NoFault
    /\ UNCHANGED <<history, owner, usable, results>>

StartWriteFails(j) ==
    /\ TakesThread(j)
    /\ Fault("write", {j})
    /\ usable' = [usable EXCEPT ![j] = FALSE]
    /\ Goto(j, "handler")
    /\ UNCHANGED <<row, history, owner, results>>

\* The first query raises: the session has flushed nothing and stays usable.
StartReadFails(j) ==
    /\ TakesThread(j)
    /\ Fault("read", {j})
    /\ Goto(j, "handler")
    /\ UNCHANGED <<row, history, owner, usable, results>>

\* Mutant: idx counts from one already.
CurrentFromOne(j) == Len(results[j]) + 2
Current(j) == Len(results[j]) + 1

\* for idx, target in enumerate(targets): set_progress; commit
CommitProgress(j) ==
    /\ pc[j] = "loop"
    /\ Len(results[j]) < Total[j]
    /\ \/ /\ row' = [row EXCEPT ![j].progress = Current(j)]
          /\ Goto(j, "target")
          /\ NoFault
          /\ UNCHANGED <<history, owner, queue, usable, results>>
       \/ WriteFails(j)

AppendOutcome(j, o) == results' = [results EXCEPT ![j] = Append(@, o)]

\* Mutants: a target is saved before it is validated; nothing is saved.
SavedUnvalidated(j) == history' = [history EXCEPT ![j] = @ \cup {Len(results[j]) + 1}]
SavedNothing(j) == UNCHANGED history

\* Targets without a report leave no record; a report leaves one.
SavesNoRecord(j) == UNCHANGED history
SavesRecord(j) == history' = [history EXCEPT ![j] = @ \cup {Len(results[j]) + 1}]

\* validate_target refuses the target, or the scan raises: no history record.
SkipTarget(j) ==
    /\ pc[j] = "target"
    /\ \E o \in {"blocked", "error"} : AppendOutcome(j, o)
    /\ SavesNoRecord(j)
    /\ Goto(j, "loop")
    /\ NoFault
    /\ UNCHANGED <<row, owner, queue, usable>>

\* The scan returns a report; _save_scan comes next.
ScanTarget(j) ==
    /\ pc[j] = "target"
    /\ Goto(j, "save")
    /\ NoFault
    /\ UNCHANGED <<row, history, owner, queue, usable, results>>

\* _save_scan commits the record, or rolls back and carries on: either way
\* the report joins the results.
SaveScan(j) ==
    /\ pc[j] = "save"
    /\ \/ /\ SavesRecord(j)
          /\ NoFault
       \/ /\ Fault("write", {j})
          /\ UNCHANGED history
    /\ AppendOutcome(j, "scanned")
    /\ Goto(j, "loop")
    /\ UNCHANGED <<row, owner, queue, usable>>

\* scan_api_endpoints or scan_vpn_endpoints returns, or raises into the handler.
RunTool(j) ==
    /\ pc[j] = "scan"
    /\ \/ /\ AppendOutcome(j, "scanned")
          /\ Goto(j, "finish")
       \/ /\ Goto(j, "handler")
          /\ UNCHANGED results
    /\ NoFault
    /\ UNCHANGED <<row, history, owner, queue, usable>>

\* Mutant: the loop leaves out the last target.
AllButLastScanned(j) == IF j \in BatchJobs
                        THEN pc[j] = "loop" /\ Len(results[j]) = Total[j] - 1
                        ELSE pc[j] = "finish"

AllScanned(j) == IF j \in BatchJobs
                 THEN pc[j] = "loop" /\ Len(results[j]) = Total[j]
                 ELSE pc[j] = "finish"

\* Mutant: the code after the last commit raises.
RaisesAfterCommit(j) == Goto(j, "handler")
Ends(j) == Goto(j, "over")

\* Result, summary (batch only) and final status are committed together.
FinishJob(j) ==
    /\ AllScanned(j)
    /\ \/ /\ row' = [row EXCEPT ![j].status = FinalStatus(j),
                                ![j].result = results[j],
                                ![j].summary = IF j \in BatchJobs
                                               THEN Summary(results[j]) ELSE NoSummary]
          /\ Ends(j)
          /\ NoFault
          /\ UNCHANGED <<history, owner, queue, usable, results>>
       \/ WriteFails(j)

\* Mutant: the failure is only logged.
OnlyLogged(j) == UNCHANGED row
MarkedError(j) == row' = [row EXCEPT ![j].status = "error", ![j].error = TRUE]

\* except Exception: look the row up again and mark it "error".  The query
\* raises when the session is inactive, and the inner except gives up.
HandleError(j) ==
    /\ pc[j] = "handler"
    /\ \/ /\ usable[j]
          /\ MarkedError(j)
          /\ NoFault
       \/ /\ usable[j]
          /\ Fault("write", {j})
          /\ UNCHANGED row
       \/ /\ ~usable[j]
          /\ NoFault
          /\ UNCHANGED row
    /\ Goto(j, "over")
    /\ UNCHANGED <<history, owner, queue, usable, results>>

-----------------------------------------------------------------------------
(* Crash and restart of a process *)

Alive(j) == pc[j] \notin {"idle", "over"}

\* Whatever the process held in memory is gone.  Start-up (main.lifespan)
\* creates tables and seeds accounts; it does not look at scan_jobs.
CrashRestart(p) ==
    LET lost == {j \in Jobs : owner[j] = p /\ Alive(j)} IN
    /\ Fault("crash", lost)
    /\ pc' = [j \in Jobs |-> IF j \in lost THEN "over" ELSE pc[j]]
    /\ queue' = [queue EXCEPT ![p] = [pool \in Pools |-> <<>>]]
    /\ results' = [j \in Jobs |-> IF j \in lost THEN <<>> ELSE results[j]]
    /\ usable' = [j \in Jobs |-> IF j \in lost THEN TRUE ELSE usable[j]]
    /\ UNCHANGED <<row, history, owner>>

-----------------------------------------------------------------------------
JobStep(j) ==
    \/ EnqueueJob(j) \/ StartJob(j) \/ CommitProgress(j) \/ SkipTarget(j)
    \/ ScanTarget(j) \/ SaveScan(j) \/ RunTool(j) \/ FinishJob(j)
    \/ HandleError(j)

StartFault(j) == RequesterDeleted(j) \/ StartWriteFails(j) \/ StartReadFails(j)

Next == \/ \E j \in Jobs : JobStep(j) \/ StartFault(j)
        \/ \E j \in Jobs, p \in Procs : SubmitJob(j, p)
        \/ \E p \in Procs : CrashRestart(p)

\* The threads of a live process run: sockets have time-outs, so a scan
\* returns or raises.  Submissions and faults are the environment's choice.
Fairness == \A j \in Jobs : WF_vars(JobStep(j))

Spec == Init /\ [][Next]_vars
FairSpec == Spec /\ Fairness

-----------------------------------------------------------------------------
(* Properties *)

RowType == [status : Status, progress : Nat, result : Seq(Outcome),
            summary : [total_scanned : Nat, blocked : Nat, errors : Nat],
            error : BOOLEAN]

\* Every variable has its type.
TypeOK ==
    /\ row \in [Jobs -> RowType]
    /\ history \in [Jobs -> SUBSET (Nat \ {0})]
    /\ pc \in [Jobs -> {"idle", "submitted", "queued", "over"} \cup Working]
    /\ owner \in [Jobs -> Procs \cup {NoProc}]
    /\ queue \in [Procs -> [Pools -> Seq(Jobs)]]
    /\ usable \in [Jobs -> BOOLEAN]
    /\ results \in [Jobs -> Seq(Outcome)]
    /\ faults \in 0..MaxFaults
    /\ hit \subseteq Jobs

\* A row that reads "completed" or "done" carries the whole answer, one
\* outcome per requested target and a summary that counts them, and no other
\* row carries any: a poll between two commits never sees a partial result.
AnswerIffFinished == \A j \in Jobs :
    IF row[j].status \in {"completed", "done"}
    THEN /\ row[j].status = FinalStatus(j)
         /\ Len(row[j].result) = (IF j \in BatchJobs THEN Total[j] ELSE 1)
         /\ j \in BatchJobs => row[j].summary = Summary(row[j].result)
    ELSE row[j].result = NoResult /\ row[j].summary = NoSummary

\* While a batch runs, the progress a poll sees is at most one target ahead
\* of the results collected in memory and never behind them, and it never
\* exceeds the number of targets (a failed save or a blocked target included).
ProgressTruthful == \A j \in BatchJobs :
    /\ row[j].progress <= Total[j]
    /\ Alive(j) => row[j].progress \in {Len(results[j]), Len(results[j]) + 1}

\* A job inserts a record for a target into scan_history only if the scan of that target
\* returned a report: never a blocked target, never one not reached yet.
HistoryFaithful == \A j \in Jobs : \A i \in history[j] :
    /\ i <= row[j].progress
    /\ i \in DOMAIN results[j] => results[j][i] = "scanned"
    /\ i \in DOMAIN row[j].result => row[j].result[i] = "scanned"

\* A completed batch that no database error struck has inserted every report
\* of its result into scan_history too: the two stores agree until a user
\* deletes a record.
HistoryComplete == \A j \in BatchJobs :
    (row[j].status = "completed" /\ j \notin hit)
        => history[j] = {i \in DOMAIN row[j].result : row[j].result[i] = "scanned"}

\* A job waits in the queue of its process and pool exactly once, and nothing
\* else is in the queues, after any sequence of submissions and crashes.
QueueExact ==
    /\ \A j \in Jobs : pc[j] = "queued" =>
          \E i \in DOMAIN queue[owner[j]][Pool(j)] : queue[owner[j]][Pool(j)][i] = j
    /\ \A p \in Procs, pool \in Pools : LET q == queue[p][pool] IN
          /\ \A i \in DOMAIN q : pc[q[i]] = "queued" /\ owner[q[i]] = p /\ Pool(q[i]) = pool
          /\ \A i, k \in DOMAIN q : q[i] = q[k] => i = k

\* A job whose code has ended has a final status, unless a fault struck that
\* very job: no interleaving of other jobs, full pools or failing scans
\* leaves it "queued" or "running".
OnlyFaultsStrand == \A j \in Jobs :
    (pc[j] = "over" /\ j \notin hit) => Finished(j)

\* Once a poll has seen a final status, every later poll sees the same row.
FinishedIsForever == [][\A j \in Jobs : Finished(j) => row'[j] = row[j]]_vars

\* Every accepted job that no fault strikes ends, also when faults strike the
\* jobs ahead of it in the queue or another process.
JobFinishes == \A j \in Jobs :
    (row[j].status = "queued") ~> (Finished(j) \/ j \in hit)

\* The jobs implement the life cycle the polling client relies on.
Lifecycle == INSTANCE JobLifecycle WITH
    status <- [j \in Jobs |-> row[j].status],
    answered <- {j \in Jobs : row[j].result # NoResult}
ImplementsLifecycle == Lifecycle!Spec

\* models/scan_job.py:5 and routers/scanner.py:6: jobs "survive restarts".
SurvivesRestarts == \A j \in Jobs : (row[j].status = "queued") ~> Finished(j)

\* run_scan_job's and _run_scan_bg's except branches are there to turn every
\* failure into a row marked "error" (routers/scanner.py:126-133).
FailureIsRecorded == \A j \in Jobs : pc[j] = "over" => Finished(j)
=============================================================================
