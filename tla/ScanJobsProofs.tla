--------------------------- MODULE ScanJobsProofs ---------------------------
(***************************************************************************)
(* Proofs about ScanJobs.tla, for any number of jobs, targets, processes   *)
(* and threads, and any number of faults of any kind.                      *)
(*                                                                         *)
(* The invariant that carries them, JobInv, says what the position of a    *)
(* job's code implies for its row: the status the row shows, how many      *)
(* results have been collected, and that a row holds an answer exactly     *)
(* when its status is final.  It is a statement about each job by itself;  *)
(* TakesThread only needs, besides, that a queued job is in its queue.     *)
(* RecordInv(j) adds what is recorded while a job runs: the progress in    *)
(* its row and the rows of the history, against the outcomes so far.       *)
(***************************************************************************)
EXTENDS ScanJobs, FiniteSetTheorems, TLAPS

-----------------------------------------------------------------------------
(* Rows *)

\* The summary of any list of outcomes has its type.
LEMMA SummaryType ==
    ASSUME NEW s \in Seq(Outcome)
    PROVE  Summary(s) \in [total_scanned : Nat, blocked : Nat, errors : Nat]
<1>1. ASSUME NEW o
      PROVE  CountOf(s, o) \in Nat
  <2>1. DOMAIN s = 1..Len(s) /\ Len(s) \in Nat
    OBVIOUS
  <2>2. IsFiniteSet(1..Len(s))
    BY <2>1, FS_Interval
  <2>3. IsFiniteSet({i \in DOMAIN s : s[i] = o})
    BY <2>1, <2>2, FS_Subset
  <2>4. QED
    BY <2>3, FS_CardinalityType DEF CountOf
<1>2. QED
  BY <1>1 DEF Summary

\* Writing a column of one row: the row's other columns and the other rows
\* stay as they are.
LEMMA WriteStatus ==
    ASSUME TypeOK, NEW j \in Jobs, NEW v \in Status,
           row' = [row EXCEPT ![j].status = v]
    PROVE  /\ row' \in [Jobs -> RowType]
           /\ row'[j] = [row[j] EXCEPT !.status = v]
           /\ row'[j].status = v
           /\ row'[j].progress = row[j].progress
           /\ row'[j].result = row[j].result
           /\ row'[j].summary = row[j].summary
           /\ \A k \in Jobs : k # j => row'[k] = row[k]
<1>1. row \in [Jobs -> RowType] /\ row[j] \in RowType
  BY DEF TypeOK
<1>2. [row[j] EXCEPT !.status = v] \in RowType
  BY <1>1 DEF RowType
<1>3. row'[j] = [row[j] EXCEPT !.status = v]
  BY <1>1
<1>4. QED
  BY <1>1, <1>2, <1>3 DEF RowType

LEMMA WriteProgress ==
    ASSUME TypeOK, NEW j \in Jobs, NEW n \in Nat,
           row' = [row EXCEPT ![j].progress = n]
    PROVE  /\ row' \in [Jobs -> RowType]
           /\ row'[j].status = row[j].status
           /\ row'[j].progress = n
           /\ row'[j].result = row[j].result
           /\ row'[j].summary = row[j].summary
           /\ \A k \in Jobs : k # j => row'[k] = row[k]
<1>1. row \in [Jobs -> RowType] /\ row[j] \in RowType
  BY DEF TypeOK
<1>2. [row[j] EXCEPT !.progress = n] \in RowType
  BY <1>1 DEF RowType
<1>3. row'[j] = [row[j] EXCEPT !.progress = n]
  BY <1>1
<1>4. QED
  BY <1>1, <1>2, <1>3 DEF RowType

LEMMA WriteAnswer ==
    ASSUME TypeOK, NEW j \in Jobs, NEW v \in Status, NEW s \in Seq(Outcome),
           NEW m \in [total_scanned : Nat, blocked : Nat, errors : Nat],
           row' = [row EXCEPT ![j].status = v, ![j].result = s, ![j].summary = m]
    PROVE  /\ row' \in [Jobs -> RowType]
           /\ row'[j].status = v
           /\ row'[j].progress = row[j].progress
           /\ row'[j].result = s
           /\ row'[j].summary = m
           /\ \A k \in Jobs : k # j => row'[k] = row[k]
<1>1. row \in [Jobs -> RowType] /\ row[j] \in RowType
  BY DEF TypeOK
<1> DEFINE r == [row[j] EXCEPT !.status = v, !.result = s, !.summary = m]
<1>2. r \in RowType
  BY <1>1 DEF RowType
<1>3. row' = [row EXCEPT ![j] = r]
  BY <1>1
<1>4. r.status = v /\ r.progress = row[j].progress /\ r.result = s /\ r.summary = m
  BY <1>1 DEF RowType
<1> HIDE DEF r
<1>5. QED
  BY <1>1, <1>2, <1>3, <1>4

LEMMA WriteError ==
    ASSUME TypeOK, NEW j \in Jobs, MarkedError(j)
    PROVE  /\ row' \in [Jobs -> RowType]
           /\ row'[j].status = "error"
           /\ row'[j].progress = row[j].progress
           /\ row'[j].result = row[j].result
           /\ row'[j].summary = row[j].summary
           /\ \A k \in Jobs : k # j => row'[k] = row[k]
<1>1. row \in [Jobs -> RowType] /\ row[j] \in RowType
  BY DEF TypeOK
<1> DEFINE r == [row[j] EXCEPT !.status = "error", !.error = TRUE]
<1>2. r \in RowType
  BY <1>1 DEF RowType, Status
<1>3. row' = [row EXCEPT ![j] = r]
  BY <1>1 DEF MarkedError
<1>4. /\ r.status = "error" /\ r.progress = row[j].progress
      /\ r.result = row[j].result /\ r.summary = row[j].summary
  BY <1>1 DEF RowType
<1> HIDE DEF r
<1>5. QED
  BY <1>1, <1>2, <1>3, <1>4

-----------------------------------------------------------------------------
(* The queues *)

OwnerKnown == \A j \in Jobs : pc[j] # "idle" => owner[j] \in Procs

QueueInv == QueueExact /\ OwnerKnown

\* What an action that leaves the queues alone has to show.
LEMMA QueuesUndisturbed ==
    ASSUME TypeOK, QueueInv,
           UNCHANGED queue,
           \A k \in Jobs : pc'[k] = "queued" <=> pc[k] = "queued",
           \A k \in Jobs : pc[k] = "queued" => owner'[k] = owner[k],
           \A k \in Jobs : pc'[k] # "idle" => owner'[k] \in Procs
    PROVE  QueueInv'
<1>1. OwnerKnown'
  BY DEF OwnerKnown
<1>2. ASSUME NEW j \in Jobs, pc'[j] = "queued"
      PROVE  \E i \in DOMAIN queue'[owner'[j]][Pool(j)] : queue'[owner'[j]][Pool(j)][i] = j
  BY <1>2 DEF QueueInv, QueueExact
<1>3. ASSUME NEW p \in Procs, NEW pool \in Pools,
             NEW i \in DOMAIN queue'[p][pool]
      PROVE  /\ pc'[queue'[p][pool][i]] = "queued"
             /\ owner'[queue'[p][pool][i]] = p
             /\ Pool(queue'[p][pool][i]) = pool
             /\ \A k \in DOMAIN queue'[p][pool] :
                   queue'[p][pool][i] = queue'[p][pool][k] => i = k
  <2>1. queue[p][pool] \in Seq(Jobs) /\ i \in DOMAIN queue[p][pool]
    BY <1>3 DEF TypeOK
  <2>2. queue[p][pool][i] \in Jobs
    BY <2>1
  <2>3. /\ pc[queue[p][pool][i]] = "queued"
        /\ owner[queue[p][pool][i]] = p
        /\ Pool(queue[p][pool][i]) = pool
        /\ \A k \in DOMAIN queue[p][pool] : queue[p][pool][i] = queue[p][pool][k] => i = k
    BY <2>1 DEF QueueInv, QueueExact
  <2>4. QED
    BY <2>2, <2>3
<1>4. QueueExact'
  BY <1>2, <1>3 DEF QueueExact, Pool
<1>5. QED
  BY <1>1, <1>4 DEF QueueInv

\* A job that joins the end of its queue was in none.
LEMMA EnqueueKeepsQueues ==
    ASSUME TypeOK, QueueInv, NEW j \in Jobs, EnqueueJob(j)
    PROVE  QueueInv'
<1> DEFINE p == owner[j]  pool == Pool(j)  q == queue[p][pool]
<1>1. p \in Procs /\ pool \in Pools
  BY DEF EnqueueJob, QueueInv, OwnerKnown, Pool, Pools
<1>2. q \in Seq(Jobs)
  BY <1>1 DEF TypeOK
<1>3. \A i \in DOMAIN q : q[i] # j
  BY <1>1 DEF QueueInv, QueueExact, EnqueueJob
<1>4. \A o \in Procs, l \in Pools :
        queue'[o][l] = IF o = p /\ l = pool THEN Append(q, j) ELSE queue[o][l]
  BY DEF EnqueueJob, TypeOK
<1>5. /\ \A k \in Jobs : pc'[k] = IF k = j THEN "queued" ELSE pc[k]
      /\ owner' = owner
  BY DEF EnqueueJob, Goto, TypeOK
<1>6. /\ Len(Append(q, j)) = Len(q) + 1 /\ Len(q) \in Nat
      /\ DOMAIN q = 1..Len(q) /\ DOMAIN Append(q, j) = 1..(Len(q) + 1)
      /\ \A i \in DOMAIN q : Append(q, j)[i] = q[i]
      /\ Append(q, j)[Len(q) + 1] = j
  BY <1>2
<1>7. ASSUME NEW k \in Jobs, pc'[k] = "queued"
      PROVE  \E i \in DOMAIN queue'[owner'[k]][Pool(k)] : queue'[owner'[k]][Pool(k)][i] = k
  <2>1. CASE k = j
    <3>1. queue'[owner'[k]][Pool(k)] = Append(q, j)
      BY <1>1, <1>4, <1>5, <2>1
    <3>2. QED
      BY <1>6, <2>1, <3>1
  <2>2. CASE k # j
    <3>1. owner[k] \in Procs /\ Pool(k) \in Pools /\ pc[k] = "queued"
      BY <1>5, <1>7, <2>2 DEF QueueInv, OwnerKnown, Pool, Pools
    <3>2. PICK i \in DOMAIN queue[owner[k]][Pool(k)] : queue[owner[k]][Pool(k)][i] = k
      BY <3>1 DEF QueueInv, QueueExact
    <3>3. i \in DOMAIN queue'[owner[k]][Pool(k)] /\ queue'[owner[k]][Pool(k)][i] = k
      <4>1. CASE owner[k] = p /\ Pool(k) = pool
        <5>1. queue'[owner[k]][Pool(k)] = Append(q, j) /\ i \in DOMAIN q /\ q[i] = k
          BY <1>4, <3>1, <3>2, <4>1
        <5> HIDE DEF q
        <5>2. QED
          BY <1>6, <5>1
      <4>2. CASE ~(owner[k] = p /\ Pool(k) = pool)
        <5>1. queue'[owner[k]][Pool(k)] = queue[owner[k]][Pool(k)]
          BY <1>4, <3>1, <4>2
        <5>2. QED
          BY <3>2, <5>1
      <4>3. QED
        BY <4>1, <4>2
    <3>4. QED
      BY <1>5, <3>3
  <2>3. QED
    BY <2>1, <2>2
<1>8. ASSUME NEW o \in Procs, NEW l \in Pools
      PROVE  /\ \A i \in DOMAIN queue'[o][l] :
                   /\ pc'[queue'[o][l][i]] = "queued"
                   /\ owner'[queue'[o][l][i]] = o
                   /\ Pool(queue'[o][l][i]) = l
             /\ \A i, k \in DOMAIN queue'[o][l] : queue'[o][l][i] = queue'[o][l][k] => i = k
  <2>1. queue[o][l] \in Seq(Jobs)
    BY DEF TypeOK
  <2>2. /\ \A i \in DOMAIN queue[o][l] :
              /\ queue[o][l][i] \in Jobs
              /\ pc[queue[o][l][i]] = "queued"
              /\ owner[queue[o][l][i]] = o
              /\ Pool(queue[o][l][i]) = l
        /\ \A i, k \in DOMAIN queue[o][l] : queue[o][l][i] = queue[o][l][k] => i = k
    BY <2>1 DEF QueueInv, QueueExact
  <2>3. CASE o = p /\ l = pool
    <3>1. queue'[o][l] = Append(q, j) /\ queue[o][l] = q
      BY <1>4, <2>3
    <3> HIDE DEF q
    <3>2. \A i \in DOMAIN Append(q, j) :
              /\ pc'[Append(q, j)[i]] = "queued"
              /\ owner'[Append(q, j)[i]] = o
              /\ Pool(Append(q, j)[i]) = l
      BY <1>5, <1>6, <2>2, <2>3, <3>1
    <3>3. \A i, k \in DOMAIN Append(q, j) : Append(q, j)[i] = Append(q, j)[k] => i = k
      BY <1>3, <1>6, <2>2, <3>1
    <3>4. QED
      BY <3>1, <3>2, <3>3
  <2>4. CASE ~(o = p /\ l = pool)
    <3>1. queue'[o][l] = queue[o][l]
      BY <1>4, <2>4
    <3>2. QED
      BY <1>5, <2>2, <3>1
  <2>5. QED
    BY <2>3, <2>4
<1>9. QueueExact'
  BY <1>7, <1>8 DEF QueueExact, Pool
<1>10. OwnerKnown'
  BY <1>1, <1>5 DEF QueueInv, OwnerKnown
<1>11. QED
  BY <1>9, <1>10 DEF QueueInv

\* A queued job is in its queue, which therefore has a head and a tail.
LEMMA TakenQueue ==
    ASSUME TypeOK, QueueInv, NEW j \in Jobs, TakesThread(j)
    PROVE  /\ owner[j] \in Procs
           /\ Pool(j) \in Pools
           /\ queue[owner[j]][Pool(j)] \in Seq(Jobs) \ {<<>>}
           /\ queue[owner[j]][Pool(j)][1] = j
           /\ queue' \in [Procs -> [Pools -> Seq(Jobs)]]
           /\ \A o \in Procs, l \in Pools :
                 queue'[o][l] = IF o = owner[j] /\ l = Pool(j)
                                THEN Tail(queue[o][l]) ELSE queue[o][l]
<1> DEFINE q == queue[owner[j]][Pool(j)]
<1>1. owner[j] \in Procs /\ Pool(j) \in Pools
  BY DEF TakesThread, QueueInv, OwnerKnown, Pool, Pools
<1>2. q \in Seq(Jobs)
  BY <1>1 DEF TypeOK
<1>3. \E i \in DOMAIN q : q[i] = j
  BY DEF TakesThread, QueueInv, QueueExact
<1>4. q # <<>> /\ q[1] = j
  BY <1>2, <1>3 DEF TakesThread
<1>5. Tail(q) \in Seq(Jobs)
  BY <1>2, <1>4
<1>6. \A o \in Procs, l \in Pools :
        queue'[o][l] = IF o = owner[j] /\ l = Pool(j) THEN Tail(queue[o][l]) ELSE queue[o][l]
  BY DEF TakesThread, TypeOK
<1>7. queue' \in [Procs -> [Pools -> Seq(Jobs)]]
  <2>1. queue \in [Procs -> [Pools -> Seq(Jobs)]]
    BY DEF TypeOK
  <2>2. [queue[owner[j]] EXCEPT ![Pool(j)] = Tail(q)] \in [Pools -> Seq(Jobs)]
    BY <1>1, <1>5, <2>1
  <2>3. queue' = [queue EXCEPT ![owner[j]] = [queue[owner[j]] EXCEPT ![Pool(j)] = Tail(q)]]
    BY DEF TakesThread
  <2> HIDE DEF q
  <2>4. QED
    BY <1>1, <2>1, <2>2, <2>3
<1>8. QED
  BY <1>1, <1>2, <1>4, <1>6, <1>7

LEMMA TakeKeepsQueues ==
    ASSUME TypeOK, QueueInv, NEW j \in Jobs, TakesThread(j),
           UNCHANGED owner,
           \A k \in Jobs : k # j => pc'[k] = pc[k],
           pc'[j] # "queued"
    PROVE  QueueInv'
<1> DEFINE p == owner[j]  pool == Pool(j)  q == queue[p][pool]
<1>1. /\ p \in Procs /\ pool \in Pools
      /\ q \in Seq(Jobs) \ {<<>>}
      /\ q[1] = j
      /\ \A o \in Procs, l \in Pools :
            queue'[o][l] = IF o = p /\ l = pool THEN Tail(q) ELSE queue[o][l]
  BY TakenQueue
<1>2. /\ DOMAIN q = 1..Len(q) /\ Len(q) \in Nat \ {0}
      /\ DOMAIN Tail(q) = 1..(Len(q) - 1)
      /\ \A i \in DOMAIN Tail(q) : Tail(q)[i] = q[i + 1]
  BY <1>1
<1>3. ASSUME NEW o \in Procs, NEW l \in Pools
      PROVE  /\ \A i \in DOMAIN queue'[o][l] :
                   /\ pc'[queue'[o][l][i]] = "queued"
                   /\ owner'[queue'[o][l][i]] = o
                   /\ Pool(queue'[o][l][i]) = l
             /\ \A i, k \in DOMAIN queue'[o][l] : queue'[o][l][i] = queue'[o][l][k] => i = k
  <2>1. queue[o][l] \in Seq(Jobs)
    BY DEF TypeOK
  <2>2. /\ \A i \in DOMAIN queue[o][l] :
              /\ queue[o][l][i] \in Jobs
              /\ pc[queue[o][l][i]] = "queued"
              /\ owner[queue[o][l][i]] = o
              /\ Pool(queue[o][l][i]) = l
        /\ \A i, k \in DOMAIN queue[o][l] : queue[o][l][i] = queue[o][l][k] => i = k
    BY <2>1 DEF QueueInv, QueueExact
  <2>3. CASE o = p /\ l = pool
    <3>1. queue'[o][l] = Tail(q) /\ queue[o][l] = q
      BY <1>1, <2>3
    <3> HIDE DEF q
    <3>2. \A i \in DOMAIN Tail(q) : i + 1 \in DOMAIN q /\ i + 1 # 1 /\ 1 \in DOMAIN q
      BY <1>2
    <3>3. \A i \in DOMAIN Tail(q) : q[i + 1] \in Jobs /\ q[i + 1] # j
      BY <1>1, <2>2, <3>1, <3>2
    <3>4. \A i \in DOMAIN Tail(q) :
              /\ pc'[Tail(q)[i]] = "queued"
              /\ owner'[Tail(q)[i]] = o
              /\ Pool(Tail(q)[i]) = l
      BY <1>2, <2>2, <3>1, <3>2, <3>3
    <3>5. \A i, k \in DOMAIN Tail(q) : Tail(q)[i] = Tail(q)[k] => i = k
      <4> SUFFICES ASSUME NEW i \in DOMAIN Tail(q), NEW k \in DOMAIN Tail(q),
                          Tail(q)[i] = Tail(q)[k]
                   PROVE  i = k
        OBVIOUS
      <4>1. i + 1 = k + 1
        BY <1>2, <2>2, <3>1, <3>2
      <4>2. QED
        BY <1>2, <4>1
    <3>6. QED
      BY <3>1, <3>4, <3>5
  <2>4. CASE ~(o = p /\ l = pool)
    <3>1. queue'[o][l] = queue[o][l]
      BY <1>1, <2>4
    <3>2. \A i \in DOMAIN queue[o][l] : queue[o][l][i] # j
      BY <2>2, <2>4
    <3>3. QED
      BY <2>2, <3>1, <3>2
  <2>5. QED
    BY <2>3, <2>4
<1>4. ASSUME NEW k \in Jobs, pc'[k] = "queued"
      PROVE  \E i \in DOMAIN queue'[owner'[k]][Pool(k)] : queue'[owner'[k]][Pool(k)][i] = k
  <2>1. k # j /\ pc[k] = "queued" /\ owner[k] \in Procs /\ Pool(k) \in Pools /\ owner' = owner
    BY <1>4 DEF QueueInv, OwnerKnown, Pool, Pools
  <2>2. PICK i \in DOMAIN queue[owner[k]][Pool(k)] : queue[owner[k]][Pool(k)][i] = k
    BY <2>1 DEF QueueInv, QueueExact
  <2>3. CASE owner[k] = p /\ Pool(k) = pool
    <3>1. queue'[owner'[k]][Pool(k)] = Tail(q) /\ i \in DOMAIN q /\ q[i] = k
      BY <1>1, <2>1, <2>2, <2>3
    <3> HIDE DEF q
    <3>2. i # 1
      BY <1>1, <2>1, <3>1
    <3>3. i - 1 \in DOMAIN Tail(q) /\ Tail(q)[i - 1] = k
      BY <1>2, <3>1, <3>2
    <3>4. QED
      BY <3>1, <3>3
  <2>4. CASE ~(owner[k] = p /\ Pool(k) = pool)
    <3>1. queue'[owner'[k]][Pool(k)] = queue[owner[k]][Pool(k)]
      BY <1>1, <2>1, <2>4
    <3>2. QED
      BY <2>2, <3>1
  <2>5. QED
    BY <2>3, <2>4
<1>5. QueueExact'
  BY <1>3, <1>4 DEF QueueExact, Pool
<1>6. OwnerKnown'
  BY <1>1 DEF QueueInv, OwnerKnown
<1>7. QED
  BY <1>5, <1>6 DEF QueueInv

\* A crash empties the queues of the process and ends the jobs in them.
LEMMA CrashKeepsQueues ==
    ASSUME TypeOK, QueueInv, NEW p \in Procs, CrashRestart(p)
    PROVE  QueueInv'
<1>1. /\ owner' = owner
      /\ \A k \in Jobs : pc'[k] = IF owner[k] = p /\ Alive(k) THEN "over" ELSE pc[k]
      /\ \A o \in Procs, l \in Pools :
            queue'[o][l] = IF o = p THEN <<>> ELSE queue[o][l]
  BY DEF CrashRestart, TypeOK
<1>2. ASSUME NEW k \in Jobs, pc'[k] = "queued"
      PROVE  \E i \in DOMAIN queue'[owner'[k]][Pool(k)] : queue'[owner'[k]][Pool(k)][i] = k
  <2>1. pc[k] = "queued" /\ owner[k] # p /\ owner[k] \in Procs /\ Pool(k) \in Pools
    BY <1>1, <1>2 DEF QueueInv, OwnerKnown, Pool, Pools, Alive
  <2>2. queue'[owner'[k]][Pool(k)] = queue[owner[k]][Pool(k)]
    BY <1>1, <2>1
  <2>3. QED
    BY <2>1, <2>2 DEF QueueInv, QueueExact
<1>3. ASSUME NEW o \in Procs, NEW l \in Pools
      PROVE  /\ \A i \in DOMAIN queue'[o][l] :
                   /\ pc'[queue'[o][l][i]] = "queued"
                   /\ owner'[queue'[o][l][i]] = o
                   /\ Pool(queue'[o][l][i]) = l
             /\ \A i, k \in DOMAIN queue'[o][l] : queue'[o][l][i] = queue'[o][l][k] => i = k
  <2>1. CASE o = p
    BY <1>1, <2>1
  <2>2. CASE o # p
    <3>1. queue[o][l] \in Seq(Jobs) /\ queue'[o][l] = queue[o][l]
      BY <1>1, <2>2 DEF TypeOK
    <3>2. /\ \A i \in DOMAIN queue[o][l] :
                /\ queue[o][l][i] \in Jobs
                /\ pc[queue[o][l][i]] = "queued"
                /\ owner[queue[o][l][i]] = o
                /\ Pool(queue[o][l][i]) = l
          /\ \A i, k \in DOMAIN queue[o][l] : queue[o][l][i] = queue[o][l][k] => i = k
      BY <3>1 DEF QueueInv, QueueExact
    <3>3. QED
      BY <1>1, <2>2, <3>1, <3>2
  <2>3. QED
    BY <2>1, <2>2
<1>4. QueueExact'
  BY <1>2, <1>3 DEF QueueExact, Pool
<1>5. OwnerKnown'
  BY <1>1 DEF QueueInv, OwnerKnown, Alive
<1>6. QED
  BY <1>4, <1>5 DEF QueueInv

-----------------------------------------------------------------------------
(* Types *)

PcValues == {"idle", "submitted", "queued", "over"} \cup Working

LEMMA GotoType ==
    ASSUME TypeOK, NEW j \in Jobs, NEW label \in PcValues, Goto(j, label)
    PROVE  pc' \in [Jobs -> {"idle", "submitted", "queued", "over"} \cup Working]
BY DEF TypeOK, Goto, PcValues

LEMMA FaultType ==
    ASSUME TypeOK, NEW kind, NEW js \in SUBSET Jobs, Fault(kind, js)
    PROVE  faults' \in 0..MaxFaults /\ hit' \subseteq Jobs
BY JobsAssumption DEF TypeOK, Fault

LEMMA OutcomeType ==
    ASSUME TypeOK, NEW j \in Jobs, NEW o \in Outcome, AppendOutcome(j, o)
    PROVE  results' \in [Jobs -> Seq(Outcome)]
BY DEF TypeOK, AppendOutcome

LEMMA TypeStep == TypeOK /\ QueueInv /\ [Next]_vars => TypeOK'
<1> SUFFICES ASSUME TypeOK, QueueInv, [Next]_vars
             PROVE  TypeOK'
  OBVIOUS
<1>1. CASE UNCHANGED vars
  BY <1>1 DEF vars, TypeOK
<1>2. ASSUME NEW j \in Jobs, NEW p \in Procs, SubmitJob(j, p)
      PROVE  TypeOK'
  <2>1. row' \in [Jobs -> RowType]
    BY <1>2, WriteStatus DEF SubmitJob, Status
  <2>2. pc' \in [Jobs -> {"idle", "submitted", "queued", "over"} \cup Working]
    BY <1>2, GotoType DEF SubmitJob, PcValues
  <2>3. QED
    BY <1>2, <2>1, <2>2 DEF SubmitJob, NoFault, TypeOK
<1>3. ASSUME NEW j \in Jobs, EnqueueJob(j)
      PROVE  TypeOK'
  <2>1. pc' \in [Jobs -> {"idle", "submitted", "queued", "over"} \cup Working]
    BY <1>3, GotoType DEF EnqueueJob, PcValues
  <2>2. queue' \in [Procs -> [Pools -> Seq(Jobs)]]
    <3> DEFINE q == queue[owner[j]][Pool(j)]
    <3>1. owner[j] \in Procs /\ Pool(j) \in Pools
      BY <1>3 DEF EnqueueJob, QueueInv, OwnerKnown, Pool, Pools
    <3>2. queue \in [Procs -> [Pools -> Seq(Jobs)]]
      BY DEF TypeOK
    <3>3. Append(q, j) \in Seq(Jobs)
      BY <3>1, <3>2
    <3>4. queue' = [queue EXCEPT ![owner[j]] = [queue[owner[j]] EXCEPT ![Pool(j)] = Append(q, j)]]
      BY <1>3 DEF EnqueueJob
    <3> HIDE DEF q
    <3>5. QED
      BY <3>1, <3>2, <3>3, <3>4
  <2>3. QED
    BY <1>3, <2>1, <2>2 DEF EnqueueJob, NoFault, TypeOK
<1>4. ASSUME NEW j \in Jobs, RequesterDeleted(j)
      PROVE  TypeOK'
  <2>1. pc' \in [Jobs -> {"idle", "submitted", "queued", "over"} \cup Working]
    BY <1>4, GotoType DEF RequesterDeleted, PcValues
  <2>2. faults' \in 0..MaxFaults /\ hit' \subseteq Jobs
    BY <1>4, FaultType DEF RequesterDeleted
  <2>3. QED
    BY <1>4, <2>1, <2>2 DEF RequesterDeleted, TypeOK
<1>5. ASSUME NEW j \in Jobs, StartJob(j)
      PROVE  TypeOK'
  <2>1. row' \in [Jobs -> RowType]
    BY <1>5, WriteStatus DEF StartJob, StartedStatus, Status
  <2>2. pc' \in [Jobs -> {"idle", "submitted", "queued", "over"} \cup Working]
    BY <1>5, GotoType DEF StartJob, PcValues, Working
  <2>3. queue' \in [Procs -> [Pools -> Seq(Jobs)]]
    BY <1>5, TakenQueue DEF StartJob
  <2>4. QED
    BY <1>5, <2>1, <2>2, <2>3 DEF StartJob, NoFault, TypeOK
<1>6. ASSUME NEW j \in Jobs, StartWriteFails(j)
      PROVE  TypeOK'
  <2>1. faults' \in 0..MaxFaults /\ hit' \subseteq Jobs
    BY <1>6, FaultType DEF StartWriteFails
  <2>2. pc' \in [Jobs -> {"idle", "submitted", "queued", "over"} \cup Working]
    BY <1>6, GotoType DEF StartWriteFails, PcValues, Working
  <2>3. queue' \in [Procs -> [Pools -> Seq(Jobs)]]
    BY <1>6, TakenQueue DEF StartWriteFails
  <2>4. QED
    BY <1>6, <2>1, <2>2, <2>3 DEF StartWriteFails, TypeOK
<1>7. ASSUME NEW j \in Jobs, StartReadFails(j)
      PROVE  TypeOK'
  <2>1. faults' \in 0..MaxFaults /\ hit' \subseteq Jobs
    BY <1>7, FaultType DEF StartReadFails
  <2>2. pc' \in [Jobs -> {"idle", "submitted", "queued", "over"} \cup Working]
    BY <1>7, GotoType DEF StartReadFails, PcValues, Working
  <2>3. queue' \in [Procs -> [Pools -> Seq(Jobs)]]
    BY <1>7, TakenQueue DEF StartReadFails
  <2>4. QED
    BY <1>7, <2>1, <2>2, <2>3 DEF StartReadFails, TypeOK
<1>8. ASSUME NEW j \in Jobs, WriteFails(j)
      PROVE  TypeOK'
  <2>1. faults' \in 0..MaxFaults /\ hit' \subseteq Jobs
    BY <1>8, FaultType DEF WriteFails
  <2>2. pc' \in [Jobs -> {"idle", "submitted", "queued", "over"} \cup Working]
    BY <1>8, GotoType DEF WriteFails, PcValues, Working
  <2>3. QED
    BY <1>8, <2>1, <2>2 DEF WriteFails, TypeOK
<1>9. ASSUME NEW j \in Jobs, CommitProgress(j)
      PROVE  TypeOK'
  <2>1. CASE row' = [row EXCEPT ![j].progress = Current(j)] /\ ~WriteFails(j)
    <3>1. Current(j) \in Nat
      BY DEF TypeOK, Current
    <3>2. row' \in [Jobs -> RowType]
      BY <2>1, <3>1, WriteProgress
    <3>3. pc' \in [Jobs -> {"idle", "submitted", "queued", "over"} \cup Working]
      BY <1>9, <2>1, GotoType DEF CommitProgress, PcValues, Working
    <3>4. QED
      BY <1>9, <2>1, <3>2, <3>3 DEF CommitProgress, NoFault, TypeOK
  <2>2. QED
    BY <1>8, <1>9, <2>1 DEF CommitProgress
<1>10. ASSUME NEW j \in Jobs, SkipTarget(j)
       PROVE  TypeOK'
  <2>1. results' \in [Jobs -> Seq(Outcome)]
    BY <1>10, OutcomeType DEF SkipTarget, Outcome
  <2>2. pc' \in [Jobs -> {"idle", "submitted", "queued", "over"} \cup Working]
    BY <1>10, GotoType DEF SkipTarget, PcValues, Working
  <2>3. QED
    BY <1>10, <2>1, <2>2 DEF SkipTarget, SavesNoRecord, NoFault, TypeOK
<1>11. ASSUME NEW j \in Jobs, ScanTarget(j)
       PROVE  TypeOK'
  <2>1. pc' \in [Jobs -> {"idle", "submitted", "queued", "over"} \cup Working]
    BY <1>11, GotoType DEF ScanTarget, PcValues, Working
  <2>2. QED
    BY <1>11, <2>1 DEF ScanTarget, NoFault, TypeOK
<1>12. ASSUME NEW j \in Jobs, SaveScan(j)
       PROVE  TypeOK'
  <2>1. results' \in [Jobs -> Seq(Outcome)]
    BY <1>12, OutcomeType DEF SaveScan, Outcome
  <2>2. pc' \in [Jobs -> {"idle", "submitted", "queued", "over"} \cup Working]
    BY <1>12, GotoType DEF SaveScan, PcValues, Working
  <2>3. history' \in [Jobs -> SUBSET (Nat \ {0})]
    BY <1>12 DEF SaveScan, SavesRecord, TypeOK
  <2>4. faults' \in 0..MaxFaults /\ hit' \subseteq Jobs
    BY <1>12, FaultType DEF SaveScan, NoFault, TypeOK
  <2>5. QED
    BY <1>12, <2>1, <2>2, <2>3, <2>4 DEF SaveScan, TypeOK
<1>13. ASSUME NEW j \in Jobs, RunTool(j)
       PROVE  TypeOK'
  <2>1. results' \in [Jobs -> Seq(Outcome)]
    <3>1. CASE AppendOutcome(j, "scanned")
      BY <3>1, OutcomeType DEF Outcome
    <3>2. CASE UNCHANGED results
      BY <3>2 DEF TypeOK
    <3>3. QED
      BY <1>13, <3>1, <3>2 DEF RunTool
  <2>2. pc' \in [Jobs -> {"idle", "submitted", "queued", "over"} \cup Working]
    BY <1>13, GotoType DEF RunTool, PcValues, Working
  <2>3. QED
    BY <1>13, <2>1, <2>2 DEF RunTool, NoFault, TypeOK
<1>14. ASSUME NEW j \in Jobs, FinishJob(j)
       PROVE  TypeOK'
  <2>1. CASE ~WriteFails(j)
    <3> DEFINE m == IF j \in BatchJobs THEN Summary(results[j]) ELSE NoSummary
    <3>1. results[j] \in Seq(Outcome)
      BY DEF TypeOK
    <3>2. m \in [total_scanned : Nat, blocked : Nat, errors : Nat]
      BY <3>1, SummaryType DEF NoSummary
    <3>3. FinalStatus(j) \in Status
      BY DEF FinalStatus, Status
    <3>4. row' = [row EXCEPT ![j].status = FinalStatus(j), ![j].result = results[j], ![j].summary = m]
      BY <1>14, <2>1 DEF FinishJob
    <3> HIDE DEF m
    <3>5. row' \in [Jobs -> RowType]
      BY <3>1, <3>2, <3>3, <3>4, WriteAnswer
    <3>6. pc' \in [Jobs -> {"idle", "submitted", "queued", "over"} \cup Working]
      BY <1>14, <2>1, GotoType DEF FinishJob, Ends, PcValues
    <3>7. QED
      BY <1>14, <2>1, <3>5, <3>6 DEF FinishJob, NoFault, TypeOK
  <2>2. QED
    BY <1>8, <2>1
<1>15. ASSUME NEW j \in Jobs, HandleError(j)
       PROVE  TypeOK'
  <2>1. row' \in [Jobs -> RowType]
    BY <1>15, WriteError DEF HandleError, TypeOK
  <2>2. pc' \in [Jobs -> {"idle", "submitted", "queued", "over"} \cup Working]
    BY <1>15, GotoType DEF HandleError, PcValues
  <2>3. faults' \in 0..MaxFaults /\ hit' \subseteq Jobs
    BY <1>15, FaultType DEF HandleError, NoFault, TypeOK
  <2>4. QED
    BY <1>15, <2>1, <2>2, <2>3 DEF HandleError, TypeOK
<1>16. ASSUME NEW p \in Procs, CrashRestart(p)
       PROVE  TypeOK'
  <2>1. faults' \in 0..MaxFaults /\ hit' \subseteq Jobs
    BY <1>16, FaultType DEF CrashRestart
  <2>2. pc' \in [Jobs -> {"idle", "submitted", "queued", "over"} \cup Working]
    BY <1>16 DEF CrashRestart, TypeOK
  <2>3. queue' \in [Procs -> [Pools -> Seq(Jobs)]]
    BY <1>16 DEF CrashRestart, TypeOK
  <2>4. results' \in [Jobs -> Seq(Outcome)]
    <3>1. \A j \in Jobs : results[j] \in Seq(Outcome) /\ <<>> \in Seq(Outcome)
      BY DEF TypeOK
    <3>2. \E lost : results' = [j \in Jobs |-> IF j \in lost THEN <<>> ELSE results[j]]
      BY <1>16 DEF CrashRestart
    <3>3. QED
      BY <3>1, <3>2
  <2>5. QED
    BY <1>16, <2>1, <2>2, <2>3, <2>4 DEF CrashRestart, TypeOK
<1>17. QED
  BY <1>1, <1>2, <1>3, <1>4, <1>5, <1>6, <1>7, <1>9, <1>10, <1>11, <1>12,
     <1>13, <1>14, <1>15, <1>16 DEF Next, JobStep, StartFault

\* Where an action of job j that leaves the queues alone sends its code.
LEMMA QueuesAfterGoto ==
    ASSUME TypeOK, QueueInv, NEW j \in Jobs,
           UNCHANGED <<queue, owner>>,
           pc[j] \notin {"idle", "queued"},
           NEW label \in PcValues \ {"idle", "queued"}, Goto(j, label)
    PROVE  QueueInv'
<1>1. /\ queue' = queue /\ owner' = owner
      /\ \A k \in Jobs : pc'[k] = IF k = j THEN label ELSE pc[k]
  BY DEF Goto, TypeOK
<1>2. \A k \in Jobs : pc'[k] = "queued" <=> pc[k] = "queued"
  BY <1>1
<1>3. \A k \in Jobs : pc'[k] # "idle" => owner'[k] \in Procs
  BY <1>1 DEF QueueInv, OwnerKnown
<1>4. QED
  BY <1>1, <1>2, <1>3, QueuesUndisturbed

LEMMA QueueStep == TypeOK /\ QueueInv /\ [Next]_vars => QueueInv'
<1> SUFFICES ASSUME TypeOK, QueueInv, [Next]_vars
             PROVE  QueueInv'
  OBVIOUS
<1> USE DEF PcValues, Working
<1>1. CASE UNCHANGED vars
  <2>1. UNCHANGED <<queue, pc, owner>>
    BY <1>1 DEF vars
  <2>2. QED
    BY <2>1, QueuesUndisturbed DEF QueueInv, OwnerKnown
<1>2. ASSUME NEW j \in Jobs, NEW p \in Procs, SubmitJob(j, p)
      PROVE  QueueInv'
  <2>1. /\ queue' = queue /\ pc[j] = "idle"
        /\ \A k \in Jobs : pc'[k] = IF k = j THEN "submitted" ELSE pc[k]
        /\ \A k \in Jobs : owner'[k] = IF k = j THEN p ELSE owner[k]
    BY <1>2 DEF SubmitJob, Goto, TypeOK
  <2>2. \A k \in Jobs : pc'[k] = "queued" <=> pc[k] = "queued"
    BY <2>1
  <2>3. \A k \in Jobs : pc[k] = "queued" => owner'[k] = owner[k]
    BY <2>1
  <2>4. \A k \in Jobs : pc'[k] # "idle" => owner'[k] \in Procs
    BY <2>1 DEF QueueInv, OwnerKnown
  <2>5. QED
    BY <2>1, <2>2, <2>3, <2>4, QueuesUndisturbed
<1>3. ASSUME NEW j \in Jobs, RequesterDeleted(j)
      PROVE  QueueInv'
  BY <1>3, QueuesAfterGoto DEF RequesterDeleted
<1>4. ASSUME NEW j \in Jobs, StartJob(j) \/ StartWriteFails(j) \/ StartReadFails(j)
      PROVE  QueueInv'
  <2>1. TakesThread(j) /\ UNCHANGED owner
    BY <1>4 DEF StartJob, StartWriteFails, StartReadFails
  <2>2. /\ \A k \in Jobs : k # j => pc'[k] = pc[k]
        /\ pc'[j] # "queued"
    BY <1>4 DEF StartJob, StartWriteFails, StartReadFails, Goto, TypeOK
  <2>3. QED
    BY <2>1, <2>2, TakeKeepsQueues
<1>5. ASSUME NEW j \in Jobs, WriteFails(j), pc[j] \in {"loop", "finish"}
      PROVE  QueueInv'
  BY <1>5, QueuesAfterGoto DEF WriteFails
<1>6. ASSUME NEW j \in Jobs, CommitProgress(j)
      PROVE  QueueInv'
  BY <1>5, <1>6, QueuesAfterGoto DEF CommitProgress
<1>7. ASSUME NEW j \in Jobs, SkipTarget(j)
      PROVE  QueueInv'
  BY <1>7, QueuesAfterGoto DEF SkipTarget
<1>8. ASSUME NEW j \in Jobs, ScanTarget(j)
      PROVE  QueueInv'
  BY <1>8, QueuesAfterGoto DEF ScanTarget
<1>9. ASSUME NEW j \in Jobs, SaveScan(j)
      PROVE  QueueInv'
  BY <1>9, QueuesAfterGoto DEF SaveScan
<1>10. ASSUME NEW j \in Jobs, RunTool(j)
       PROVE  QueueInv'
  BY <1>10, QueuesAfterGoto DEF RunTool
<1>11. ASSUME NEW j \in Jobs, FinishJob(j)
       PROVE  QueueInv'
  <2>1. pc[j] \in {"loop", "finish"}
    BY <1>11 DEF FinishJob, AllScanned
  <2>2. QED
    BY <1>5, <1>11, <2>1, QueuesAfterGoto DEF FinishJob, Ends
<1>12. ASSUME NEW j \in Jobs, HandleError(j)
       PROVE  QueueInv'
  BY <1>12, QueuesAfterGoto DEF HandleError
<1>13. QED
  BY <1>1, <1>2, <1>3, <1>4, <1>6, <1>7, <1>8, <1>9, <1>10, <1>11, <1>12,
     EnqueueKeepsQueues, CrashKeepsQueues DEF Next, JobStep, StartFault

\* Types are kept, and each queue holds exactly the jobs that wait in it.
THEOREM TypesAndQueues == Spec => [](TypeOK /\ QueueInv)
<1>1. Init => TypeOK /\ QueueInv
  <2> SUFFICES ASSUME Init
               PROVE  TypeOK /\ QueueInv
    OBVIOUS
  <2>1. NoRow \in RowType
    BY DEF NoRow, RowType, Status, NoResult, NoSummary
  <2>2. TypeOK
    BY <2>1, JobsAssumption DEF Init, TypeOK
  <2>3. QueueInv
    BY DEF Init, QueueInv, QueueExact, OwnerKnown
  <2>4. QED
    BY <2>2, <2>3
<1>2. QED
  BY <1>1, TypeStep, QueueStep, PTL DEF Spec

THEOREM TypeCorrect == Spec => []TypeOK
BY TypesAndQueues, PTL

\* A job waits in its own queue exactly once, and nothing else does.
THEOREM QueuesAreExact == Spec => []QueueExact
BY TypesAndQueues, PTL DEF QueueInv

-----------------------------------------------------------------------------
(* What the position of a job's code implies for its row *)

AwaitsThread == {"submitted", "queued"}
Scanning == {"loop", "target", "save", "scan", "finish"}

\* The status a client reads, for each position of the code.
StatusFits(j) ==
    /\ pc[j] \in AwaitsThread => row[j].status = "queued"
    /\ pc[j] \in Scanning => row[j].status = "running"
    /\ pc[j] = "handler" => row[j].status \in {"queued", "running"}

\* How many outcomes the code has collected, for each position.
ResultsFit(j) ==
    /\ pc[j] \in {"idle", "submitted", "queued", "scan"} => results[j] = <<>>
    /\ pc[j] \in {"loop", "target", "save"} => j \in BatchJobs /\ Len(results[j]) <= Total[j]
    /\ pc[j] \in {"target", "save"} => Len(results[j]) < Total[j]
    /\ pc[j] \in {"scan", "finish"} => j \notin BatchJobs
    /\ pc[j] = "finish" => Len(results[j]) = 1

\* One job's part of AnswerIffFinished.
AnswerFits(j) ==
    IF row[j].status \in {"completed", "done"}
    THEN /\ row[j].status = FinalStatus(j)
         /\ Len(row[j].result) = (IF j \in BatchJobs THEN Total[j] ELSE 1)
         /\ j \in BatchJobs => row[j].summary = Summary(row[j].result)
    ELSE row[j].result = NoResult /\ row[j].summary = NoSummary

\* One job's part of OnlyFaultsStrand, and what keeps it: a session is
\* inactive only after a fault of its own job.
StrandFits(j) ==
    /\ (pc[j] = "over" /\ j \notin hit) => Finished(j)
    /\ ~usable[j] => j \in hit

JobInv(j) == StatusFits(j) /\ ResultsFit(j) /\ AnswerFits(j) /\ StrandFits(j)

\* A step of another job's code disturbs nothing of this one.
LEMMA OthersUndisturbed ==
    ASSUME NEW k \in Jobs, JobInv(k),
           pc'[k] = pc[k], row'[k] = row[k], results'[k] = results[k],
           usable'[k] = usable[k], hit \subseteq hit'
    PROVE  JobInv(k)'
<1>1. StatusFits(k)' /\ ResultsFit(k)'
  BY DEF JobInv, StatusFits, ResultsFit
<1>2. AnswerFits(k)'
  BY DEF JobInv, AnswerFits, FinalStatus, Summary, CountOf
<1>3. StrandFits(k)'
  BY DEF JobInv, StrandFits, Finished
<1>4. QED
  BY <1>1, <1>2, <1>3 DEF JobInv

\* The answer of a row that is written without touching result and summary,
\* from one status that is not "completed" or "done" to another.
LEMMA NoAnswerYet ==
    ASSUME NEW j \in Jobs, AnswerFits(j),
           row[j].status \notin {"completed", "done"},
           row'[j].status \notin {"completed", "done"},
           row'[j].result = row[j].result,
           row'[j].summary = row[j].summary
    PROVE  AnswerFits(j)'
BY DEF AnswerFits

LEMMA SameAnswer ==
    ASSUME NEW j \in Jobs, AnswerFits(j), row'[j] = row[j]
    PROVE  AnswerFits(j)'
BY DEF AnswerFits, FinalStatus, Summary, CountOf

\* An action of job j touches only j's code, row, results and session.
Local(j) == \A k \in Jobs : k # j =>
    /\ pc'[k] = pc[k]
    /\ row'[k] = row[k]
    /\ results'[k] = results[k]
    /\ usable'[k] = usable[k]

LEMMA JobStepsAreLocal ==
    ASSUME TypeOK, NEW j \in Jobs,
           JobStep(j) \/ StartFault(j) \/ \E p \in Procs : SubmitJob(j, p)
    PROVE  Local(j) /\ hit \subseteq hit'
<1> USE DEF Local, Goto, NoFault, Fault, AppendOutcome
<1>1. CASE \E p \in Procs : SubmitJob(j, p)
  BY <1>1 DEF SubmitJob, TypeOK
<1>2. CASE EnqueueJob(j) \/ RequesterDeleted(j)
  BY <1>2 DEF EnqueueJob, RequesterDeleted, TypeOK
<1>3. CASE StartJob(j) \/ StartWriteFails(j) \/ StartReadFails(j)
  BY <1>3 DEF StartJob, StartWriteFails, StartReadFails, TypeOK
<1>4. CASE WriteFails(j)
  BY <1>4 DEF WriteFails, TypeOK
<1>5. CASE CommitProgress(j)
  BY <1>4, <1>5 DEF CommitProgress, TypeOK
<1>6. CASE SkipTarget(j) \/ ScanTarget(j) \/ SaveScan(j)
  BY <1>6 DEF SkipTarget, ScanTarget, SaveScan, TypeOK
<1>7. CASE RunTool(j)
  BY <1>7 DEF RunTool, TypeOK
<1>8. CASE FinishJob(j)
  BY <1>4, <1>8 DEF FinishJob, Ends, TypeOK
<1>9. CASE HandleError(j)
  BY <1>9 DEF HandleError, MarkedError, TypeOK
<1>10. QED
  BY <1>1, <1>2, <1>3, <1>5, <1>6, <1>7, <1>8, <1>9 DEF JobStep, StartFault

LEMMA JobInvStep ==
    ASSUME TypeOK, TypeOK', NEW j \in Jobs, JobInv(j),
           JobStep(j) \/ StartFault(j) \/ \E p \in Procs : SubmitJob(j, p)
    PROVE  JobInv(j)'
<1> USE DEF NoFault, Goto
<1>0. /\ StatusFits(j) /\ ResultsFit(j) /\ AnswerFits(j) /\ StrandFits(j)
      /\ results[j] \in Seq(Outcome)
      /\ j \in BatchJobs => Total[j] \in Nat \ {0}
  BY JobsAssumption DEF JobInv, TypeOK
<1>1. ASSUME NEW p \in Procs, SubmitJob(j, p)
      PROVE  JobInv(j)'
  <2>1. /\ pc[j] = "idle" /\ pc'[j] = "submitted"
        /\ results' = results /\ usable' = usable /\ hit' = hit
    BY <1>1 DEF SubmitJob, TypeOK
  <2>2. row'[j].status = "queued" /\ row'[j].result = row[j].result /\ row'[j].summary = row[j].summary
    BY <1>1, WriteStatus DEF SubmitJob, Status
  <2>3. row[j].status = "none"
    BY <1>1 DEF SubmitJob, NoRow
  <2>4. AnswerFits(j)'
    BY <1>0, <2>2, <2>3, NoAnswerYet
  <2>5. StatusFits(j)' /\ ResultsFit(j)' /\ StrandFits(j)'
    BY <1>0, <2>1, <2>2 DEF StatusFits, ResultsFit, StrandFits, AwaitsThread, Scanning
  <2>6. QED
    BY <2>4, <2>5 DEF JobInv
<1>2. ASSUME EnqueueJob(j)
      PROVE  JobInv(j)'
  <2>1. /\ pc[j] = "submitted" /\ pc'[j] = "queued"
        /\ row' = row /\ results' = results /\ usable' = usable /\ hit' = hit
    BY <1>2 DEF EnqueueJob, TypeOK
  <2>2. StatusFits(j)' /\ ResultsFit(j)' /\ StrandFits(j)'
    BY <1>0, <2>1 DEF StatusFits, ResultsFit, StrandFits, AwaitsThread, Scanning
  <2>3. QED
    BY <1>0, <2>1, <2>2, SameAnswer DEF JobInv
<1>3. ASSUME RequesterDeleted(j)
      PROVE  JobInv(j)'
  <2>1. /\ pc[j] = "submitted" /\ pc'[j] = "over"
        /\ row' = row /\ results' = results /\ usable' = usable /\ j \in hit'
    BY <1>3 DEF RequesterDeleted, Fault, TypeOK
  <2>2. StatusFits(j)' /\ ResultsFit(j)' /\ StrandFits(j)'
    BY <1>0, <2>1 DEF StatusFits, ResultsFit, StrandFits, AwaitsThread, Scanning
  <2>3. QED
    BY <1>0, <2>1, <2>2, SameAnswer DEF JobInv
<1>4. ASSUME StartJob(j)
      PROVE  JobInv(j)'
  <2>1. /\ pc[j] = "queued"
        /\ pc'[j] = IF j \in BatchJobs THEN "loop" ELSE "scan"
        /\ results' = results /\ usable' = usable /\ hit' = hit
    BY <1>4 DEF StartJob, TakesThread, TypeOK
  <2>2. row'[j].status = "running" /\ row'[j].result = row[j].result /\ row'[j].summary = row[j].summary
    BY <1>4, WriteStatus DEF StartJob, StartedStatus, Status
  <2>3. row[j].status = "queued"
    BY <1>0, <2>1 DEF StatusFits, AwaitsThread
  <2>4. AnswerFits(j)'
    BY <1>0, <2>2, <2>3, NoAnswerYet
  <2>5. results[j] = <<>> /\ Len(results[j]) = 0
    BY <1>0, <2>1 DEF ResultsFit
  <2>6. StatusFits(j)' /\ ResultsFit(j)' /\ StrandFits(j)'
    BY <1>0, <2>1, <2>2, <2>5 DEF StatusFits, ResultsFit, StrandFits, AwaitsThread, Scanning
  <2>7. QED
    BY <2>4, <2>6 DEF JobInv
<1>5. ASSUME StartWriteFails(j) \/ StartReadFails(j)
      PROVE  JobInv(j)'
  <2>1. /\ pc[j] = "queued" /\ pc'[j] = "handler"
        /\ row' = row /\ results' = results /\ j \in hit'
    BY <1>5 DEF StartWriteFails, StartReadFails, TakesThread, Fault, TypeOK
  <2>2. StatusFits(j)' /\ ResultsFit(j)' /\ StrandFits(j)'
    BY <1>0, <2>1 DEF StatusFits, ResultsFit, StrandFits, AwaitsThread, Scanning
  <2>3. QED
    BY <1>0, <2>1, <2>2, SameAnswer DEF JobInv
<1>6. ASSUME WriteFails(j), pc[j] \in {"loop", "finish"}
      PROVE  JobInv(j)'
  <2>1. /\ pc'[j] = "handler"
        /\ row' = row /\ results' = results /\ j \in hit'
    BY <1>6 DEF WriteFails, Fault, TypeOK
  <2>2. StatusFits(j)' /\ ResultsFit(j)' /\ StrandFits(j)'
    BY <1>0, <1>6, <2>1 DEF StatusFits, ResultsFit, StrandFits, AwaitsThread, Scanning
  <2>3. QED
    BY <1>0, <2>1, <2>2, SameAnswer DEF JobInv
<1>7. ASSUME CommitProgress(j), ~WriteFails(j)
      PROVE  JobInv(j)'
  <2>1. /\ pc[j] = "loop" /\ pc'[j] = "target" /\ Len(results[j]) < Total[j]
        /\ results' = results /\ usable' = usable /\ hit' = hit
    BY <1>7 DEF CommitProgress, TypeOK
  <2>2. Current(j) \in Nat
    BY <1>0 DEF Current
  <2>3. /\ row'[j].status = row[j].status
        /\ row'[j].result = row[j].result /\ row'[j].summary = row[j].summary
    BY <1>7, <2>2, WriteProgress DEF CommitProgress
  <2>4. row[j].status = "running"
    BY <1>0, <2>1 DEF StatusFits, Scanning
  <2>5. AnswerFits(j)'
    BY <1>0, <2>3, <2>4, NoAnswerYet
  <2>6. StatusFits(j)' /\ ResultsFit(j)' /\ StrandFits(j)'
    BY <1>0, <2>1, <2>3, <2>4 DEF StatusFits, ResultsFit, StrandFits, AwaitsThread, Scanning
  <2>7. QED
    BY <2>5, <2>6 DEF JobInv
<1>8. ASSUME SkipTarget(j) \/ SaveScan(j)
      PROVE  JobInv(j)'
  <2>1. /\ pc[j] \in {"target", "save"} /\ pc'[j] = "loop"
        /\ row' = row /\ usable' = usable /\ hit \subseteq hit'
    BY <1>8 DEF SkipTarget, SaveScan, Fault, TypeOK
  <2>2. Len(results'[j]) = Len(results[j]) + 1
    BY <1>0, <1>8 DEF SkipTarget, SaveScan, AppendOutcome, TypeOK
  <2>3. Len(results'[j]) <= Total[j] /\ j \in BatchJobs
    BY <1>0, <2>1, <2>2 DEF ResultsFit
  <2>4. StatusFits(j)' /\ ResultsFit(j)' /\ StrandFits(j)'
    BY <1>0, <2>1, <2>3 DEF StatusFits, ResultsFit, StrandFits, AwaitsThread, Scanning
  <2>5. QED
    BY <1>0, <2>1, <2>4, SameAnswer DEF JobInv
<1>9. ASSUME ScanTarget(j)
      PROVE  JobInv(j)'
  <2>1. /\ pc[j] = "target" /\ pc'[j] = "save"
        /\ row' = row /\ results' = results /\ usable' = usable /\ hit' = hit
    BY <1>9 DEF ScanTarget, TypeOK
  <2>2. StatusFits(j)' /\ ResultsFit(j)' /\ StrandFits(j)'
    BY <1>0, <2>1 DEF StatusFits, ResultsFit, StrandFits, AwaitsThread, Scanning
  <2>3. QED
    BY <1>0, <2>1, <2>2, SameAnswer DEF JobInv
<1>10. ASSUME RunTool(j)
       PROVE  JobInv(j)'
  <2>1. /\ pc[j] = "scan"
        /\ row' = row /\ usable' = usable /\ hit' = hit
    BY <1>10 DEF RunTool, TypeOK
  <2>2. \/ pc'[j] = "finish" /\ Len(results'[j]) = 1
        \/ pc'[j] = "handler"
    <3>1. results[j] = <<>>
      BY <1>0, <2>1 DEF ResultsFit
    <3>2. CASE AppendOutcome(j, "scanned") /\ pc'[j] = "finish"
      BY <1>0, <3>1, <3>2 DEF AppendOutcome, TypeOK
    <3>3. QED
      BY <1>10, <3>2 DEF RunTool, TypeOK
  <2>3. StatusFits(j)' /\ ResultsFit(j)' /\ StrandFits(j)'
    BY <1>0, <2>1, <2>2 DEF StatusFits, ResultsFit, StrandFits, AwaitsThread, Scanning
  <2>4. QED
    BY <1>0, <2>1, <2>3, SameAnswer DEF JobInv
<1>11. ASSUME FinishJob(j), ~WriteFails(j)
       PROVE  JobInv(j)'
  <2> DEFINE m == IF j \in BatchJobs THEN Summary(results[j]) ELSE NoSummary
  <2>1. /\ pc'[j] = "over" /\ usable' = usable /\ hit' = hit /\ results' = results
    BY <1>11 DEF FinishJob, Ends, TypeOK
  <2>2. Len(results[j]) = IF j \in BatchJobs THEN Total[j] ELSE 1
    BY <1>0, <1>11 DEF FinishJob, AllScanned, ResultsFit
  <2>3. /\ m \in [total_scanned : Nat, blocked : Nat, errors : Nat]
        /\ FinalStatus(j) \in Status
    BY <1>0, SummaryType DEF NoSummary, FinalStatus, Status
  <2>4. row' = [row EXCEPT ![j].status = FinalStatus(j), ![j].result = results[j], ![j].summary = m]
    BY <1>11 DEF FinishJob
  <2>5. j \in BatchJobs => m = Summary(results[j])
    OBVIOUS
  <2> HIDE DEF m
  <2>6. row'[j].status = FinalStatus(j) /\ row'[j].result = results[j] /\ row'[j].summary = m
    <3>1. results[j] \in Seq(Outcome)
      BY <1>0
    <3> DEFINE v == FinalStatus(j)  s == results[j]
    <3>2. v \in Status /\ s \in Seq(Outcome)
      BY <2>3, <3>1
    <3>3. row' = [row EXCEPT ![j].status = v, ![j].result = s, ![j].summary = m]
      BY <2>4
    <3> HIDE DEF v, s
    <3>4. /\ row' \in [Jobs -> RowType]
          /\ row'[j].status = v
          /\ row'[j].progress = row[j].progress
          /\ row'[j].result = s
          /\ row'[j].summary = m
          /\ \A k \in Jobs : k # j => row'[k] = row[k]
      BY <2>3, <3>2, <3>3, WriteAnswer
    <3>5. QED
      BY <3>4 DEF v, s
  <2>7. AnswerFits(j)'
    <3>1. row'[j].status = FinalStatus(j)' /\ row'[j].status \in {"completed", "done"}
      BY <2>6 DEF FinalStatus
    <3>2. j \in BatchJobs => row'[j].summary = Summary(row'[j].result)
      BY <2>5, <2>6
    <3>3. QED
      BY <2>2, <2>6, <3>1, <3>2 DEF AnswerFits, Summary, CountOf
  <2>8. StatusFits(j)' /\ ResultsFit(j)' /\ StrandFits(j)'
    BY <1>0, <2>1, <2>6
       DEF StatusFits, ResultsFit, StrandFits, AwaitsThread, Scanning, Finished, FinalStatus
  <2>9. QED
    BY <2>7, <2>8 DEF JobInv
<1>12. ASSUME HandleError(j)
       PROVE  JobInv(j)'
  <2>1. /\ pc[j] = "handler" /\ pc'[j] = "over"
        /\ usable' = usable /\ hit \subseteq hit'
    BY <1>12 DEF HandleError, Fault, TypeOK
  <2>2. row[j].status \in {"queued", "running"}
    BY <1>0, <2>1 DEF StatusFits
  <2>3. CASE MarkedError(j)
    <3>1. row'[j].status = "error" /\ row'[j].result = row[j].result /\ row'[j].summary = row[j].summary
      BY <2>3, WriteError
    <3>2. AnswerFits(j)'
      BY <1>0, <2>2, <3>1, NoAnswerYet
    <3>3. StatusFits(j)' /\ ResultsFit(j)' /\ StrandFits(j)'
      BY <1>0, <2>1, <3>1
         DEF StatusFits, ResultsFit, StrandFits, AwaitsThread, Scanning, Finished
    <3>4. QED
      BY <3>2, <3>3 DEF JobInv
  <2>4. CASE row' = row /\ j \in hit'
    <3>1. StatusFits(j)' /\ ResultsFit(j)' /\ StrandFits(j)'
      BY <1>0, <2>1, <2>4
         DEF StatusFits, ResultsFit, StrandFits, AwaitsThread, Scanning
    <3>2. QED
      BY <1>0, <2>4, <3>1, SameAnswer DEF JobInv
  <2>5. QED
    BY <1>0, <1>12, <2>3, <2>4 DEF HandleError, Fault, StrandFits, TypeOK
<1>13. QED
  <2>1. CASE CommitProgress(j)
    BY <1>6, <1>7, <2>1 DEF CommitProgress
  <2>2. CASE FinishJob(j)
    BY <1>6, <1>11, <2>2 DEF FinishJob, AllScanned
  <2>3. QED
    BY <1>1, <1>2, <1>3, <1>4, <1>5, <1>8, <1>9, <1>10, <1>12, <2>1, <2>2
       DEF JobStep, StartFault

LEMMA JobInvCrash ==
    ASSUME TypeOK, NEW p \in Procs, CrashRestart(p), NEW k \in Jobs, JobInv(k)
    PROVE  JobInv(k)'
<1>1. row' = row /\ hit \subseteq hit'
  BY DEF CrashRestart, Fault
<1>2. CASE owner[k] = p /\ Alive(k)
  <2>1. pc'[k] = "over" /\ results'[k] = <<>> /\ usable'[k] = TRUE /\ k \in hit'
    BY <1>2 DEF CrashRestart, Fault
  <2>2. StatusFits(k)' /\ ResultsFit(k)' /\ StrandFits(k)'
    BY <2>1 DEF StatusFits, ResultsFit, StrandFits, AwaitsThread, Scanning
  <2>3. AnswerFits(k)
    BY DEF JobInv
  <2>4. QED
    BY <1>1, <2>2, <2>3, SameAnswer DEF JobInv
<1>3. CASE ~(owner[k] = p /\ Alive(k))
  <2>1. pc'[k] = pc[k] /\ results'[k] = results[k] /\ usable'[k] = usable[k] /\ row'[k] = row[k]
    BY <1>1, <1>3 DEF CrashRestart
  <2>2. QED
    BY <1>1, <2>1, OthersUndisturbed
<1>4. QED
  BY <1>2, <1>3

\* The rows of all jobs fit the positions of their codes.
THEOREM RowsFit == Spec => [](\A j \in Jobs : JobInv(j))
<1>1. Init => \A j \in Jobs : JobInv(j)
  <2> SUFFICES ASSUME Init, NEW j \in Jobs
               PROVE  JobInv(j)
    OBVIOUS
  <2>1. pc[j] = "idle" /\ row[j] = NoRow /\ results[j] = <<>> /\ usable[j] = TRUE
    BY DEF Init
  <2>2. /\ row[j].status = "none" /\ row[j].result = NoResult /\ row[j].summary = NoSummary
    BY <2>1 DEF NoRow
  <2>3. QED
    BY <2>1, <2>2 DEF JobInv, StatusFits, ResultsFit, AnswerFits, StrandFits,
                      AwaitsThread, Scanning
<1>2. TypeOK /\ TypeOK' /\ (\A j \in Jobs : JobInv(j)) /\ [Next]_vars
        => (\A j \in Jobs : JobInv(j))'
  <2> SUFFICES ASSUME TypeOK, TypeOK', \A j \in Jobs : JobInv(j), [Next]_vars,
                      NEW k \in Jobs
               PROVE  JobInv(k)'
    OBVIOUS
  <2>1. CASE UNCHANGED vars
    BY <2>1, OthersUndisturbed DEF vars
  <2>2. ASSUME NEW j \in Jobs,
               JobStep(j) \/ StartFault(j) \/ \E p \in Procs : SubmitJob(j, p)
        PROVE  JobInv(k)'
    <3>1. CASE j = k
      BY <2>2, <3>1, JobInvStep
    <3>2. CASE j # k
      <4>1. /\ pc'[k] = pc[k] /\ row'[k] = row[k] /\ results'[k] = results[k]
            /\ usable'[k] = usable[k] /\ hit \subseteq hit'
        BY <2>2, <3>2, JobStepsAreLocal DEF Local
      <4>2. QED
        BY <4>1, OthersUndisturbed
    <3>3. QED
      BY <3>1, <3>2
  <2>3. ASSUME NEW p \in Procs, CrashRestart(p)
        PROVE  JobInv(k)'
    BY <2>3, JobInvCrash
  <2>4. QED
    BY <2>1, <2>2, <2>3 DEF Next
<1>3. QED
  BY <1>1, <1>2, TypeCorrect, PTL DEF Spec

\* A client never sees part of an answer, nor a final status without one.
THEOREM AnswersAreWhole == Spec => []AnswerIffFinished
<1>1. (\A j \in Jobs : JobInv(j)) => AnswerIffFinished
  BY DEF JobInv, AnswerFits, AnswerIffFinished
<1>2. QED
  BY <1>1, RowsFit, PTL

\* Nothing but a fault of its own leaves a job without a final status.
THEOREM OnlyOwnFaultsStrand == Spec => []OnlyFaultsStrand
<1>1. (\A j \in Jobs : JobInv(j)) => OnlyFaultsStrand
  BY DEF JobInv, StrandFits, OnlyFaultsStrand
<1>2. QED
  BY <1>1, RowsFit, PTL

-----------------------------------------------------------------------------
(* How a row moves, and the life cycle *)

SameResult(j) == row'[j].result = row[j].result

Submits(j) == row[j].status = "none" /\ row'[j].status = "queued" /\ SameResult(j)
Starts(j) == row[j].status = "queued" /\ row'[j].status = "running" /\ SameResult(j)
Proceeds(j) == row[j].status = "running" /\ row'[j].status = "running" /\ SameResult(j)
Finishes(j) == /\ row[j].status = "running"
               /\ row'[j].status = FinalStatus(j)
               /\ row'[j].result # NoResult
Failed(j) == /\ row[j].status \in {"queued", "running"}
             /\ row'[j].status = "error"
             /\ SameResult(j)

RowMoves(j) == /\ \A k \in Jobs : k # j => row'[k] = row[k]
               /\ Submits(j) \/ Starts(j) \/ Proceeds(j) \/ Finishes(j) \/ Failed(j)

LEMMA StepsMoveOneRow ==
    ASSUME TypeOK, NEW j \in Jobs, JobInv(j),
           JobStep(j) \/ StartFault(j) \/ \E p \in Procs : SubmitJob(j, p)
    PROVE  row' = row \/ RowMoves(j)
<1> USE DEF RowMoves, SameResult
<1>0. /\ StatusFits(j) /\ ResultsFit(j)
      /\ results[j] \in Seq(Outcome)
      /\ j \in BatchJobs => Total[j] \in Nat \ {0}
  BY JobsAssumption DEF JobInv, TypeOK
<1>1. CASE \E p \in Procs : SubmitJob(j, p)
  <2>1. row[j].status = "none"
    BY <1>1 DEF SubmitJob, NoRow
  <2>2. row' = [row EXCEPT ![j].status = "queued"] /\ "queued" \in Status
    BY <1>1 DEF SubmitJob, Status
  <2>3. row'[j].status = "queued" /\ SameResult(j) /\ \A k \in Jobs : k # j => row'[k] = row[k]
    BY <2>2, WriteStatus
  <2>4. QED
    BY <2>1, <2>3 DEF Submits
<1>2. CASE StartJob(j)
  <2>1. row[j].status = "queued"
    BY <1>0, <1>2 DEF StartJob, TakesThread, StatusFits, AwaitsThread
  <2>2. row' = [row EXCEPT ![j].status = "running"] /\ "running" \in Status
    BY <1>2 DEF StartJob, StartedStatus, Status
  <2>3. row'[j].status = "running" /\ SameResult(j) /\ \A k \in Jobs : k # j => row'[k] = row[k]
    BY <2>2, WriteStatus
  <2>4. QED
    BY <2>1, <2>3 DEF Starts
<1>3. CASE CommitProgress(j) /\ ~(row' = row)
  <2>1. row[j].status = "running"
    BY <1>0, <1>3 DEF CommitProgress, StatusFits, Scanning
  <2>2. row' = [row EXCEPT ![j].progress = Current(j)] /\ Current(j) \in Nat
    BY <1>0, <1>3 DEF CommitProgress, WriteFails, Current
  <2>3. row'[j].status = row[j].status /\ SameResult(j) /\ \A k \in Jobs : k # j => row'[k] = row[k]
    BY <2>2, WriteProgress
  <2>4. QED
    BY <2>1, <2>3 DEF Proceeds
<1>4. CASE FinishJob(j) /\ ~(row' = row)
  <2> DEFINE m == IF j \in BatchJobs THEN Summary(results[j]) ELSE NoSummary
             v == FinalStatus(j)
             s == results[j]
  <2>1. row[j].status = "running"
    BY <1>0, <1>4 DEF FinishJob, AllScanned, StatusFits, Scanning
  <2>2. row' = [row EXCEPT ![j].status = v, ![j].result = s, ![j].summary = m]
    BY <1>4 DEF FinishJob, WriteFails
  <2>3. /\ m \in [total_scanned : Nat, blocked : Nat, errors : Nat]
        /\ v \in Status /\ s \in Seq(Outcome)
    BY <1>0, SummaryType DEF NoSummary, FinalStatus, Status
  <2>4. s # NoResult
    <3>1. Len(s) # 0
      BY <1>0, <1>4 DEF FinishJob, AllScanned, ResultsFit
    <3>2. QED
      BY <3>1 DEF NoResult
  <2>5. v = FinalStatus(j)
    OBVIOUS
  <2> HIDE DEF m, v, s
  <2>6. /\ row' \in [Jobs -> RowType]
        /\ row'[j].status = v
        /\ row'[j].progress = row[j].progress
        /\ row'[j].result = s
        /\ row'[j].summary = m
        /\ \A k \in Jobs : k # j => row'[k] = row[k]
    BY <2>2, <2>3, WriteAnswer
  <2>7. QED
    BY <2>1, <2>4, <2>5, <2>6 DEF Finishes
<1>5. CASE HandleError(j) /\ ~(row' = row)
  <2>1. row[j].status \in {"queued", "running"}
    BY <1>0, <1>5 DEF HandleError, StatusFits
  <2>2. MarkedError(j)
    BY <1>5 DEF HandleError
  <2>3. row'[j].status = "error" /\ SameResult(j) /\ \A k \in Jobs : k # j => row'[k] = row[k]
    BY <2>2, WriteError
  <2>4. QED
    BY <2>1, <2>3 DEF Failed
<1>6. QED
  BY <1>1, <1>2, <1>3, <1>4, <1>5
     DEF JobStep, StartFault, EnqueueJob, RequesterDeleted, StartWriteFails, StartReadFails,
         SkipTarget, ScanTarget, SaveScan, RunTool

\* What any step of the system does to the rows.
LEMMA StepsMoveARow ==
    ASSUME TypeOK, \A j \in Jobs : JobInv(j), [Next]_vars
    PROVE  row' = row \/ \E j \in Jobs : RowMoves(j)
<1>1. CASE UNCHANGED vars
  BY <1>1 DEF vars
<1>2. ASSUME NEW j \in Jobs,
             JobStep(j) \/ StartFault(j) \/ \E p \in Procs : SubmitJob(j, p)
      PROVE  row' = row \/ \E i \in Jobs : RowMoves(i)
  BY <1>2, StepsMoveOneRow
<1>3. ASSUME NEW p \in Procs, CrashRestart(p)
      PROVE  row' = row
  BY <1>3 DEF CrashRestart
<1>4. QED
  BY <1>1, <1>2, <1>3 DEF Next

\* A final row never changes: polls after the first final one all agree.
THEOREM FinalRowsAreFinal == Spec => FinishedIsForever
<1>1. TypeOK /\ (\A j \in Jobs : JobInv(j)) /\ [Next]_vars
        => [\A j \in Jobs : Finished(j) => row'[j] = row[j]]_vars
  <2> SUFFICES ASSUME TypeOK, \A j \in Jobs : JobInv(j), [Next]_vars,
                      NEW k \in Jobs, Finished(k)
               PROVE  row'[k] = row[k]
    OBVIOUS
  <2>1. ASSUME NEW j \in Jobs, RowMoves(j)
        PROVE  row'[k] = row[k]
    <3>1. j # k
      BY <2>1 DEF RowMoves, Submits, Starts, Proceeds, Finishes, Failed, Finished
    <3>2. QED
      BY <2>1, <3>1 DEF RowMoves
  <2>2. QED
    BY <2>1, StepsMoveARow
<1>2. QED
  BY <1>1, TypeCorrect, RowsFit, PTL DEF Spec, FinishedIsForever

\* The jobs implement JobLifecycle: each step of the code is one step of the
\* life cycle or none at all.
THEOREM JobsFollowTheLifecycle == Spec => ImplementsLifecycle
<1> DEFINE status == [j \in Jobs |-> row[j].status]
           answered == {j \in Jobs : row[j].result # NoResult}
<1>1. Init => Lifecycle!Init
  <2> SUFFICES ASSUME Init
               PROVE  Lifecycle!Init
    OBVIOUS
  <2>1. \A j \in Jobs : row[j].status = "none" /\ row[j].result = NoResult
    BY DEF Init, NoRow
  <2>2. QED
    BY <2>1 DEF Lifecycle!Init
<1>2. TypeOK /\ (\A j \in Jobs : JobInv(j)) /\ [Next]_vars => [Lifecycle!Next]_(Lifecycle!vars)
  <2> SUFFICES ASSUME TypeOK, \A j \in Jobs : JobInv(j), [Next]_vars
               PROVE  Lifecycle!Next \/ UNCHANGED <<status, answered>>
    BY DEF Lifecycle!vars
  <2>1. CASE row' = row
    BY <2>1
  <2>2. ASSUME NEW j \in Jobs, RowMoves(j)
        PROVE  Lifecycle!Next \/ UNCHANGED <<status, answered>>
    <3>1. \A k \in Jobs : k # j => row'[k] = row[k]
      BY <2>2 DEF RowMoves
    <3>2. status' = [status EXCEPT ![j] = row'[j].status]
      BY <3>1
    <3>3. SameResult(j) => answered' = answered
      BY <3>1 DEF SameResult
    <3>4. row'[j].result # NoResult => answered' = answered \cup {j}
      BY <3>1
    <3>5. CASE Submits(j)
      BY <3>2, <3>3, <3>5 DEF Submits, Lifecycle!Next, Lifecycle!Submit
    <3>6. CASE Starts(j)
      BY <3>2, <3>3, <3>6 DEF Starts, Lifecycle!Next, Lifecycle!Start
    <3>7. CASE Proceeds(j)
      BY <3>2, <3>3, <3>7 DEF Proceeds
    <3>8. CASE Finishes(j)
      BY <3>2, <3>4, <3>8 DEF Finishes, FinalStatus,
         Lifecycle!Next, Lifecycle!Finish, Lifecycle!FinalStatus
    <3>9. CASE Failed(j)
      BY <3>2, <3>3, <3>9 DEF Failed, Lifecycle!Next, Lifecycle!Fail
    <3>10. QED
      BY <2>2, <3>5, <3>6, <3>7, <3>8, <3>9 DEF RowMoves
  <2>3. QED
    BY <2>1, <2>2, StepsMoveARow
<1>3. QED
  BY <1>1, <1>2, TypeCorrect, RowsFit, PTL DEF Spec, ImplementsLifecycle, Lifecycle!Spec
-----------------------------------------------------------------------------
(* Progress and the scan history *)

Between == {"idle", "submitted", "queued", "loop", "handler"}
InTarget == {"target", "save"}

\* A record belongs to a target that was reached, and whose outcome is a report
\* wherever the outcome is kept; an API or VPN job inserts none.
HistoryFits(j) ==
    /\ j \notin BatchJobs => history[j] = {}
    /\ \A i \in history[j] :
          /\ i <= row[j].progress
          /\ i \in DOMAIN results[j] => results[j][i] = "scanned"
          /\ i \in DOMAIN row[j].result => row[j].result[i] = "scanned"

\* The progress of a batch counts the outcomes collected, and the target in
\* hand; while its code lives the records are those of the reports collected.
ProgressFits(j) == j \in BatchJobs =>
    /\ row[j].progress <= Total[j]
    /\ pc[j] \in Between => row[j].progress = Len(results[j])
    /\ pc[j] \in InTarget => row[j].progress = Len(results[j]) + 1
    /\ pc[j] \in Between \cup InTarget =>
          /\ history[j] \subseteq DOMAIN results[j]
          /\ j \notin hit => \A i \in DOMAIN results[j] : results[j][i] = "scanned" => i \in history[j]
    /\ (row[j].status = "completed" /\ j \notin hit) =>
          history[j] = {i \in DOMAIN row[j].result : row[j].result[i] = "scanned"}

RecordInv(j) == HistoryFits(j) /\ ProgressFits(j)

\* What a step has to show that changes neither progress, outcomes nor records.
LEMMA RecordsUndisturbed ==
    ASSUME NEW k \in Jobs, RecordInv(k),
           row'[k].progress = row[k].progress, row'[k].result = row[k].result,
           row'[k].status = "completed" => row[k].status = "completed",
           results'[k] = results[k], history'[k] = history[k], hit \subseteq hit',
           k \in BatchJobs /\ pc'[k] \in Between => pc[k] \in Between,
           k \in BatchJobs /\ pc'[k] \in InTarget => pc[k] \in InTarget
    PROVE  RecordInv(k)'
<1>1. HistoryFits(k)'
  BY DEF RecordInv, HistoryFits
<1>2. ProgressFits(k)'
  BY DEF RecordInv, ProgressFits
<1>3. QED
  BY <1>1, <1>2 DEF RecordInv

\* The steps of a job's own code that change neither of them.
LEMMA QuietSteps ==
    ASSUME TypeOK, NEW j \in Jobs, JobInv(j), RecordInv(j),
           \/ \E p \in Procs : SubmitJob(j, p)
           \/ EnqueueJob(j) \/ StartFault(j) \/ StartJob(j) \/ ScanTarget(j) \/ HandleError(j)
           \/ WriteFails(j) /\ pc[j] \in {"loop", "finish"}
    PROVE  RecordInv(j)'
<1> USE DEF Between, InTarget
<1>1. CASE \E p \in Procs : SubmitJob(j, p)
  <2>1. row' = [row EXCEPT ![j].status = "queued"] /\ "queued" \in Status
    BY <1>1 DEF SubmitJob, Status
  <2>2. /\ row'[j].progress = row[j].progress /\ row'[j].result = row[j].result
        /\ row'[j].status = "queued"
    BY <2>1, WriteStatus
  <2>3. /\ pc[j] = "idle" /\ pc'[j] = "submitted"
        /\ results' = results /\ history' = history /\ hit' = hit
    BY <1>1 DEF SubmitJob, Goto, NoFault, TypeOK
  <2>4. QED
    BY <2>2, <2>3, RecordsUndisturbed
<1>2. CASE StartJob(j)
  <2>1. row' = [row EXCEPT ![j].status = "running"] /\ "running" \in Status
    BY <1>2 DEF StartJob, StartedStatus, Status
  <2>2. /\ row'[j].progress = row[j].progress /\ row'[j].result = row[j].result
        /\ row'[j].status = "running"
    BY <2>1, WriteStatus
  <2>3. /\ pc[j] = "queued" /\ pc'[j] \in {"loop", "scan"}
        /\ results' = results /\ history' = history /\ hit' = hit
    BY <1>2 DEF StartJob, TakesThread, Goto, NoFault, TypeOK
  <2>4. QED
    BY <2>2, <2>3, RecordsUndisturbed
<1>3. CASE HandleError(j)
  <2>1. /\ row'[j].progress = row[j].progress /\ row'[j].result = row[j].result
        /\ row'[j].status = "completed" => row[j].status = "completed"
    BY <1>3, WriteError DEF HandleError
  <2>2. /\ pc'[j] = "over" /\ results' = results /\ history' = history /\ hit \subseteq hit'
    BY <1>3 DEF HandleError, Goto, NoFault, Fault, TypeOK
  <2>3. QED
    BY <2>1, <2>2, RecordsUndisturbed
<1>4. CASE EnqueueJob(j) \/ StartFault(j) \/ ScanTarget(j)
  <2>1. /\ \/ pc[j] \in Between /\ pc'[j] \in Between \cup {"over"}
           \/ pc[j] = "target" /\ pc'[j] = "save"
        /\ row' = row /\ results' = results /\ history' = history /\ hit \subseteq hit'
    BY <1>4 DEF EnqueueJob, StartFault, RequesterDeleted, StartWriteFails, StartReadFails,
       TakesThread, ScanTarget, Goto, NoFault, Fault, TypeOK
  <2>2. QED
    BY <2>1, RecordsUndisturbed
<1>5. CASE WriteFails(j) /\ pc[j] \in {"loop", "finish"}
  <2>1. /\ pc'[j] = "handler"
        /\ row' = row /\ results' = results /\ history' = history /\ hit \subseteq hit'
    BY <1>5 DEF WriteFails, Goto, Fault, TypeOK
  <2>2. j \in BatchJobs => pc[j] = "loop"
    BY <1>5 DEF JobInv, ResultsFit
  <2>3. QED
    BY <2>1, <2>2, RecordsUndisturbed
<1>6. QED
  BY <1>1, <1>2, <1>3, <1>4, <1>5

\* progress is committed before the target is touched.
LEMMA ProgressStep ==
    ASSUME TypeOK, NEW j \in Jobs, JobInv(j), RecordInv(j), CommitProgress(j), ~WriteFails(j)
    PROVE  RecordInv(j)'
<1>1. /\ pc[j] = "loop" /\ pc'[j] = "target" /\ Len(results[j]) < Total[j]
      /\ results' = results /\ history' = history /\ hit' = hit
      /\ row' = [row EXCEPT ![j].progress = Current(j)]
  BY DEF CommitProgress, Goto, NoFault, TypeOK
<1>2. /\ results[j] \in Seq(Outcome) /\ Len(results[j]) \in Nat
      /\ j \in BatchJobs /\ Total[j] \in Nat
      /\ history[j] \subseteq Nat
  BY <1>1, JobsAssumption DEF TypeOK, JobInv, ResultsFit
<1>3. Current(j) \in Nat /\ Current(j) = Len(results[j]) + 1
  BY <1>2 DEF Current
<1>4. /\ row'[j].progress = Len(results[j]) + 1
      /\ row'[j].result = row[j].result /\ row'[j].status = row[j].status
  BY <1>1, <1>3, WriteProgress
<1>5. row[j].progress = Len(results[j])
  BY <1>1, <1>2 DEF RecordInv, ProgressFits, Between
<1>6. HistoryFits(j)'
  <2>1. \A i \in history[j] : i <= Len(results[j]) + 1
    BY <1>2, <1>5 DEF RecordInv, HistoryFits
  <2>2. QED
    BY <1>1, <1>2, <1>4, <2>1 DEF RecordInv, HistoryFits
<1>7. ProgressFits(j)'
  BY <1>1, <1>2, <1>4 DEF RecordInv, ProgressFits, Between, InTarget
<1>8. QED
  BY <1>6, <1>7 DEF RecordInv

\* An outcome joins the results: a record was inserted for it, or it is no
\* report, or a database error struck the job.
LEMMA OutcomeStep ==
    ASSUME TypeOK, NEW j \in Jobs, JobInv(j), RecordInv(j), SkipTarget(j) \/ SaveScan(j)
    PROVE  RecordInv(j)'
<1> DEFINE n == Len(results[j]) + 1
<1>1. /\ pc[j] \in InTarget /\ pc'[j] = "loop" /\ row' = row /\ hit \subseteq hit'
  BY DEF SkipTarget, SaveScan, Goto, NoFault, Fault, InTarget, TypeOK
<1>2. /\ results[j] \in Seq(Outcome) /\ Len(results[j]) \in Nat
      /\ j \in BatchJobs
      /\ history[j] \subseteq 1..Len(results[j])
      /\ row[j].progress = n
  BY <1>1 DEF TypeOK, JobInv, ResultsFit, RecordInv, ProgressFits, InTarget
<1>3. PICK o \in Outcome :
         /\ results'[j] = Append(results[j], o)
         /\ \/ o # "scanned" /\ history'[j] = history[j]
            \/ o = "scanned" /\ history'[j] = history[j] \cup {n}
            \/ j \in hit' /\ history'[j] = history[j]
  BY DEF SkipTarget, SaveScan, AppendOutcome, SavesNoRecord, SavesRecord, NoFault, Fault,
     Outcome, TypeOK
<1>4. /\ DOMAIN results[j] = 1..Len(results[j])
      /\ DOMAIN results'[j] = 1..n
      /\ Len(results'[j]) = n
      /\ results'[j][n] = o
      /\ \A i \in 1..Len(results[j]) : results'[j][i] = results[j][i]
  BY <1>2, <1>3
<1>5. row[j].result = NoResult /\ row[j].status # "completed"
  BY <1>1 DEF JobInv, StatusFits, AnswerFits, InTarget, Scanning
<1>6. HistoryFits(j)'
  <2>1. ASSUME NEW i \in history'[j]
        PROVE  i <= n /\ results'[j][i] = "scanned"
    <3>1. CASE i \in history[j]
      BY <1>2, <1>4, <3>1 DEF RecordInv, HistoryFits
    <3>2. CASE i \notin history[j]
      BY <1>2, <1>3, <1>4, <3>2
    <3>3. QED
      BY <3>1, <3>2
  <2>2. DOMAIN row'[j].result = {}
    BY <1>1, <1>5 DEF NoResult
  <2>3. QED
    BY <1>1, <1>2, <2>1, <2>2 DEF HistoryFits
<1>7. ProgressFits(j)'
  <2>1. history'[j] \subseteq 1..n
    BY <1>2, <1>3
  <2>2. ASSUME j \notin hit', NEW i \in 1..n, results'[j][i] = "scanned"
        PROVE  i \in history'[j]
    <3>1. CASE i = n
      BY <1>3, <1>4, <2>2, <3>1
    <3>2. CASE i # n
      <4>1. i \in 1..Len(results[j])
        BY <1>2, <2>2, <3>2
      <4>2. results[j][i] = "scanned" /\ j \notin hit
        BY <1>1, <1>4, <2>2, <4>1
      <4>3. i \in history[j]
        BY <1>1, <1>2, <1>4, <4>1, <4>2 DEF RecordInv, ProgressFits
      <4>4. QED
        BY <1>3, <2>2, <4>3
    <3>3. QED
      BY <3>1, <3>2
  <2>3. row[j].progress <= Total[j]
    BY <1>2 DEF RecordInv, ProgressFits
  <2>4. QED
    BY <1>1, <1>2, <1>4, <1>5, <2>1, <2>2, <2>3 DEF ProgressFits, Between, InTarget
<1>8. QED
  BY <1>6, <1>7 DEF RecordInv

\* The answer is the list of outcomes, so the records are those of its reports.
LEMMA FinishStep ==
    ASSUME TypeOK, NEW j \in Jobs, JobInv(j), RecordInv(j), FinishJob(j), ~WriteFails(j)
    PROVE  RecordInv(j)'
<1> DEFINE m == IF j \in BatchJobs THEN Summary(results[j]) ELSE NoSummary
           v == FinalStatus(j)
           s == results[j]
<1>1. /\ pc'[j] = "over" /\ results' = results /\ history' = history /\ hit' = hit
      /\ row' = [row EXCEPT ![j].status = v, ![j].result = s, ![j].summary = m]
  BY DEF FinishJob, Ends, Goto, NoFault, TypeOK
<1>2. /\ m \in [total_scanned : Nat, blocked : Nat, errors : Nat]
      /\ v \in Status /\ s \in Seq(Outcome)
  BY SummaryType DEF NoSummary, FinalStatus, Status, TypeOK
<1>3. row'[j].result = results[j] /\ row'[j].progress = row[j].progress
  <2> HIDE DEF m, v, s
  <2>1. /\ row' \in [Jobs -> RowType]
        /\ row'[j].status = v
        /\ row'[j].progress = row[j].progress
        /\ row'[j].result = s
        /\ row'[j].summary = m
        /\ \A k \in Jobs : k # j => row'[k] = row[k]
    BY <1>1, <1>2, WriteAnswer
  <2>2. QED
    BY <2>1 DEF s
<1>4. HistoryFits(j)'
  BY <1>1, <1>3 DEF RecordInv, HistoryFits
<1>5. ProgressFits(j)'
  <2>1. j \in BatchJobs => pc[j] = "loop"
    BY DEF FinishJob, AllScanned
  <2>2. j \in BatchJobs /\ j \notin hit =>
          history[j] = {i \in DOMAIN results[j] : results[j][i] = "scanned"}
    BY <2>1 DEF RecordInv, HistoryFits, ProgressFits, Between
  <2>3. QED
    BY <1>1, <1>3, <2>2 DEF RecordInv, ProgressFits, Between, InTarget
<1>6. QED
  BY <1>4, <1>5 DEF RecordInv

\* The one outcome of an API or VPN job has no record.
LEMMA ToolStep ==
    ASSUME TypeOK, NEW j \in Jobs, JobInv(j), RecordInv(j), RunTool(j)
    PROVE  RecordInv(j)'
<1>1. row' = row /\ history' = history /\ j \notin BatchJobs
  BY DEF RunTool, JobInv, ResultsFit
<1>2. QED
  BY <1>1 DEF RecordInv, HistoryFits, ProgressFits

\* The records of other jobs are not touched, nor those of any job by a crash.
LEMMA RecordsAreLocal ==
    ASSUME TypeOK, NEW j \in Jobs,
           JobStep(j) \/ StartFault(j) \/ \E p \in Procs : SubmitJob(j, p)
    PROVE  \A k \in Jobs : k # j => history'[k] = history[k]
BY DEF TypeOK, JobStep, StartFault, SubmitJob, EnqueueJob, RequesterDeleted, StartJob,
   StartWriteFails, StartReadFails, CommitProgress, WriteFails, SkipTarget, SavesNoRecord,
   ScanTarget, SaveScan, SavesRecord, RunTool, FinishJob, HandleError

LEMMA RecordsAfterCrash ==
    ASSUME NEW p \in Procs, CrashRestart(p), NEW k \in Jobs, RecordInv(k)
    PROVE  RecordInv(k)'
<1>1. row' = row /\ history' = history /\ hit \subseteq hit'
  BY DEF CrashRestart, Fault
<1>2. CASE owner[k] = p /\ Alive(k)
  <2>1. pc'[k] = "over" /\ results'[k] = <<>>
    BY <1>2 DEF CrashRestart
  <2>2. HistoryFits(k)'
    BY <1>1, <2>1 DEF RecordInv, HistoryFits
  <2>3. ProgressFits(k)'
    BY <1>1, <2>1 DEF RecordInv, ProgressFits, Between, InTarget
  <2>4. QED
    BY <2>2, <2>3 DEF RecordInv
<1>3. CASE ~(owner[k] = p /\ Alive(k))
  <2>1. pc'[k] = pc[k] /\ results'[k] = results[k]
    BY <1>3 DEF CrashRestart
  <2>2. QED
    BY <1>1, <2>1, RecordsUndisturbed
<1>4. QED
  BY <1>2, <1>3

\* Progress, outcomes and records of every job agree, whatever the others do
\* and whichever faults strike.
THEOREM RecordsFit == Spec => [](\A j \in Jobs : RecordInv(j))
<1>1. Init => \A j \in Jobs : RecordInv(j)
  <2> SUFFICES ASSUME Init, NEW j \in Jobs
               PROVE  RecordInv(j)
    OBVIOUS
  <2>1. /\ pc[j] = "idle" /\ results[j] = <<>> /\ history[j] = {}
        /\ row[j].progress = 0 /\ row[j].result = <<>> /\ row[j].status = "none"
    BY DEF Init, NoRow, NoResult
  <2>2. j \in BatchJobs => Total[j] \in Nat
    BY JobsAssumption
  <2>3. QED
    BY <2>1, <2>2 DEF RecordInv, HistoryFits, ProgressFits, InTarget
<1>2. TypeOK /\ (\A j \in Jobs : JobInv(j)) /\ (\A j \in Jobs : RecordInv(j)) /\ [Next]_vars
        => (\A j \in Jobs : RecordInv(j))'
  <2> SUFFICES ASSUME TypeOK, \A j \in Jobs : JobInv(j), \A j \in Jobs : RecordInv(j),
                      [Next]_vars, NEW k \in Jobs
               PROVE  RecordInv(k)'
    OBVIOUS
  <2>1. CASE UNCHANGED vars
    BY <2>1, RecordsUndisturbed DEF vars
  <2>2. ASSUME NEW j \in Jobs,
               JobStep(j) \/ StartFault(j) \/ \E p \in Procs : SubmitJob(j, p)
        PROVE  RecordInv(k)'
    <3>1. CASE j = k
      <4>1. CASE WriteFails(j) /\ (CommitProgress(j) \/ FinishJob(j))
        <5>1. pc[j] \in {"loop", "finish"}
          BY <4>1 DEF CommitProgress, FinishJob, AllScanned
        <5>2. QED
          BY <3>1, <4>1, <5>1, QuietSteps
      <4>2. QED
        BY <2>2, <3>1, <4>1, QuietSteps, ProgressStep, OutcomeStep, FinishStep, ToolStep
           DEF JobStep
    <3>2. CASE j # k
      <4>1. /\ pc'[k] = pc[k] /\ row'[k] = row[k] /\ results'[k] = results[k]
            /\ history'[k] = history[k] /\ hit \subseteq hit'
        BY <2>2, <3>2, JobStepsAreLocal, RecordsAreLocal DEF Local
      <4>2. QED
        BY <4>1, RecordsUndisturbed
    <3>3. QED
      BY <3>1, <3>2
  <2>3. QED
    BY <2>1, <2>2, RecordsAfterCrash DEF Next
<1>3. QED
  BY <1>1, <1>2, TypeCorrect, RowsFit, PTL DEF Spec

\* The progress a poll reads is never behind the outcomes nor more than one
\* target ahead of them, for any number of targets and any faults.
THEOREM ProgressIsTruthful == Spec => []ProgressTruthful
<1>1. (\A j \in Jobs : JobInv(j)) /\ (\A j \in Jobs : RecordInv(j)) /\ TypeOK => ProgressTruthful
  <2> SUFFICES ASSUME TypeOK, NEW j \in BatchJobs, JobInv(j), RecordInv(j)
               PROVE  /\ row[j].progress <= Total[j]
                      /\ Alive(j) => row[j].progress \in {Len(results[j]), Len(results[j]) + 1}
    BY JobsAssumption DEF ProgressTruthful
  <2>1. Alive(j) => pc[j] \in Between \cup InTarget
    BY JobsAssumption DEF Alive, TypeOK, Working, JobInv, ResultsFit, Between, InTarget
  <2>2. QED
    BY <2>1 DEF RecordInv, ProgressFits
<1>2. QED
  BY <1>1, RowsFit, RecordsFit, TypeCorrect, PTL

\* A record in the history is the record of a target that was scanned.
THEOREM HistoryIsFaithful == Spec => []HistoryFaithful
<1>1. (\A j \in Jobs : RecordInv(j)) => HistoryFaithful
  BY DEF RecordInv, HistoryFits, HistoryFaithful
<1>2. QED
  BY <1>1, RecordsFit, PTL

\* A completed batch that no fault struck has a record of each of its reports.
THEOREM HistoryIsComplete == Spec => []HistoryComplete
<1>1. (\A j \in Jobs : RecordInv(j)) => HistoryComplete
  BY JobsAssumption DEF RecordInv, ProgressFits, HistoryComplete
<1>2. QED
  BY <1>1, RecordsFit, PTL
=============================================================================
