---------------------------- MODULE JobLifecycle ----------------------------
(***************************************************************************)
(* What a scan job promises the client that polls it, whatever kind of     *)
(* scan it runs: the values of scan_jobs.status (models/scan_job.py:28)    *)
(* and the order in which a row may take them.  A result appears in the    *)
(* same step as the final status and never changes again.                  *)
(*                                                                         *)
(* ScanJobs.tla models the code and is shown to implement this             *)
(* specification.                                                          *)
(***************************************************************************)
CONSTANTS Jobs,         \* identifiers of the jobs that may be submitted
          BatchJobs     \* those that POST /scan/batch creates

VARIABLES status,       \* [Jobs -> Status]
          answered      \* jobs whose row holds a result

vars == <<status, answered>>

Status == {"none", "queued", "running", "completed", "done", "error"}

\* Batch jobs end "completed", the API and VPN jobs end "done".
FinalStatus(j) == IF j \in BatchJobs THEN "completed" ELSE "done"

Init == /\ status = [j \in Jobs |-> "none"]
        /\ answered = {}

Submit(j) == /\ status[j] = "none"
             /\ status' = [status EXCEPT ![j] = "queued"]
             /\ UNCHANGED answered

Start(j) == /\ status[j] = "queued"
            /\ status' = [status EXCEPT ![j] = "running"]
            /\ UNCHANGED answered

Finish(j) == /\ status[j] = "running"
             /\ status' = [status EXCEPT ![j] = FinalStatus(j)]
             /\ answered' = answered \cup {j}

Fail(j) == /\ status[j] \in {"queued", "running"}
           /\ status' = [status EXCEPT ![j] = "error"]
           /\ UNCHANGED answered

Next == \E j \in Jobs : Submit(j) \/ Start(j) \/ Finish(j) \/ Fail(j)

Spec == Init /\ [][Next]_vars
=============================================================================
