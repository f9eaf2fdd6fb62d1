----------------------------- MODULE MCScanJobs -----------------------------
(* One batch of two targets and two API jobs over two processes whose pools *)
(* have a single thread each, so that jobs wait for one another.            *)
EXTENDS ScanJobs

CONSTANTS b1, a1, a2, p1, p2

MCJobs == {b1, a1, a2}
MCBatchJobs == {b1}
MCTotal == [j \in MCBatchJobs |-> 2]
MCProcs == {p1, p2}
MCCapacity == [pool \in Pools |-> 1]
MCAllFaults == AllFaultKinds
MCCrash == {"crash"}
MCWrite == {"write"}
=============================================================================
