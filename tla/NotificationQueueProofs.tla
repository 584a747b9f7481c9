----------------------- MODULE NotificationQueueProofs -----------------------
(***************************************************************************)
(* What holds of NotificationQueue for every number of jobs, services and  *)
(* requests, every batch limit and every number of crashes.                *)
(***************************************************************************)
EXTENDS NotificationQueue, TLAPS

(* The backoff factor is a natural number of delays, whatever the count.   *)
LEMMA BackoffType == \A n \in Nat : Backoff(n) \in Nat
<1> SUFFICES ASSUME NEW n \in Nat PROVE Backoff(n) \in Nat
  OBVIOUS
<1>1. CASE n \in 0..6
  <2>1. <<1, 2, 4, 8, 16, 32, 64>>[n + 1] \in Nat
    BY <1>1
  <2> QED
    BY <1>1, <2>1 DEF Backoff
<1>2. CASE n \in 7..62
  BY <1>2 DEF Backoff
<1>3. CASE n > 62
  BY <1>3 DEF Backoff
<1> QED
  BY <1>1, <1>2, <1>3

(* Add writes a well-formed pending row for every request.                 *)
LEMMA NewRowType ==
  ASSUME NEW r \in Requests
  PROVE  NewRow(r) \in Row
BY QueueAssumption DEF NewRow, OrDefault, Row, Statuses

(* UPDATE keeps the table well-formed.                                     *)
LEMMA SetRowType ==
  ASSUME queue \in [Jobs -> Row], NEW j \in Jobs, NEW row \in Row
  PROVE  SetRow(j, row) \in [Jobs -> Row]
BY DEF SetRow

(* So do the rows that processQueuedJob writes.                            *)
LEMMA RowTypes ==
  ASSUME NEW row \in Row
  PROVE  MarkedRunning(row) \in Row /\ Completed(row) \in Row
           /\ Failed(row) \in Row /\ Retrying(row) \in Row
<1>1. Backoff(row.retryCount) \in Nat /\ row.retryCount + 1 \in Nat
  BY BackoffType DEF Row
<1>2. Retrying(row) \in Row
  BY <1>1 DEF Retrying, Row, Statuses
<1> QED
  BY <1>2 DEF MarkedRunning, Completed, Failed, Row, Statuses

(* The row that processQueuedJob writes in the end is well-formed.         *)
LEMMA ReportedType ==
  ASSUME queue \in [Jobs -> Row], NEW p, NEW j \in Jobs
  PROVE  Reported(p, j) \in Row
BY RowTypes DEF Reported

(* The loop's bookkeeping after a job keeps the goroutine well-formed.     *)
LEMMA FinishJobType ==
  ASSUME TypeOK, NEW p \in Processors, NEW j \in Jobs, FinishJob(p, j)
  PROVE  /\ pc' \in [Processors -> {"off", "idle", "batch", "sending", "report"}]
         /\ batch' \in [Processors -> SUBSET Jobs]
         /\ seen' \in [Processors -> [Jobs -> Nat]]
         /\ cur' \in [Processors -> Jobs \cup {0}]
         /\ ok' \in [Processors -> SUBSET Services]
BY DEF TypeOK, FinishJob

(* Every step keeps the types.                                             *)
LEMMA StepType ==
  ASSUME TypeOK, [Next]_vars
  PROVE  TypeOK'
<1> USE QueueAssumption DEF TypeOK, table, life, work, history
<1>1. ASSUME NEW r \in Requests, Add(r) PROVE TypeOK'
  BY <1>1, NewRowType DEF Add, Jobs
<1>2. ASSUME NEW j \in Jobs, DeleteJob(j) PROVE TypeOK'
  BY <1>2 DEF DeleteJob
<1>3. CASE CleanupCompletedJobs
  BY <1>3 DEF CleanupCompletedJobs
<1>4. ASSUME NEW p \in Processors, Start(p) PROVE TypeOK'
  BY <1>4 DEF Start
<1>5. CASE Stop
  BY <1>5 DEF Stop
<1>6. ASSUME NEW p \in Processors, Cancel(p) PROVE TypeOK'
  BY <1>6 DEF Cancel
<1>7. CASE ProcessExit
  <2>1. faults' \in 0..MaxFaults
    BY <1>7 DEF ProcessExit
  <2>2. seen' \in [Processors -> [Jobs -> Nat]]
    BY <1>7 DEF ProcessExit
  <2> QED
    BY <1>7, <2>1, <2>2 DEF ProcessExit
<1>8. ASSUME NEW j \in Jobs, Elapse(j) PROVE TypeOK'
  <2>1. queue[j] \in Row /\ queue[j].wait - 1 \in Nat
    BY <1>8 DEF Elapse, Row
  <2>2. [queue[j] EXCEPT !.wait = @ - 1] \in Row
    BY <2>1 DEF Row
  <2>3. queue' \in [Jobs -> Row]
    BY <1>8, <2>2 DEF Elapse
  <2> QED
    BY <1>8, <2>3 DEF Elapse
<1>9. ASSUME NEW p \in Processors, Exit(p) PROVE TypeOK'
  BY <1>9 DEF Exit
<1>10. ASSUME NEW p \in Processors, FetchBatch(p) PROVE TypeOK'
  <2>1. GetPendingJobs(BatchLimit) \in SUBSET Jobs
    BY DEF GetPendingJobs, Due
  <2>2. \A j \in Jobs : queue[j].retryCount \in Nat
    BY DEF Row
  <2> QED
    BY <1>10, <2>1, <2>2 DEF FetchBatch
<1>11. ASSUME NEW p \in Processors, NEW j \in Jobs, MarkRunning(p, j) PROVE TypeOK'
  <2>1. queue' \in [Jobs -> Row]
    BY <1>11, RowTypes, SetRowType DEF MarkRunning
  <2> QED
    BY <1>11, <2>1 DEF MarkRunning
<1>12. ASSUME NEW p \in Processors, NEW j \in Jobs, MarkRunningFails(p, j) PROVE TypeOK'
  BY <1>12, FinishJobType DEF MarkRunningFails
<1>13. ASSUME NEW p \in Processors, NEW j \in Jobs, NotifyAll(p, j) PROVE TypeOK'
  <2>1. Usable(j) \subseteq Services
    BY DEF Usable, Row
  <2>2. attempts' \in [Jobs -> Nat]
    BY <1>13 DEF NotifyAll
  <2>3. confirmed' \in [Jobs -> [Services -> Nat]]
    BY <1>13 DEF NotifyAll
  <2>4. ok' \in [Processors -> SUBSET Services]
    BY <1>13, <2>1 DEF NotifyAll
  <2> QED
    BY <1>13, <2>2, <2>3, <2>4 DEF NotifyAll
<1>14. ASSUME NEW p \in Processors, NEW j \in Jobs, Report(p, j) PROVE TypeOK'
  <2>1. queue' \in [Jobs -> Row]
    BY <1>14, ReportedType, SetRowType DEF Report
  <2> QED
    BY <1>14, <2>1, FinishJobType DEF Report
<1>15. ASSUME NEW p \in Processors, NEW j \in Jobs, ReportFails(p, j) PROVE TypeOK'
  BY <1>15, FinishJobType DEF ReportFails
<1>16. CASE UNCHANGED vars
  BY <1>16 DEF vars
<1> QED
  BY <1>1, <1>2, <1>3, <1>4, <1>5, <1>6, <1>7, <1>8, <1>9, <1>10, <1>11, <1>12, <1>13,
     <1>14, <1>15, <1>16
     DEF Next, Owner, Environment, Step, Trouble

(* They hold when the scheduler is created.                                *)
LEMMA InitType == Init => TypeOK
<1> SUFFICES ASSUME Init PROVE TypeOK
  OBVIOUS
<1>1. BlankRow \in Row
  BY DEF BlankRow, Row, Statuses
<1>2. queue \in [Jobs -> Row]
  BY <1>1 DEF Init
<1>3. nextId \in 1..(MaxJobs + 1) /\ faults \in 0..MaxFaults
  BY QueueAssumption DEF Init
<1>4. attempts \in [Jobs -> Nat] /\ confirmed \in [Jobs -> [Services -> Nat]]
  BY DEF Init
<1>5. seen \in [Processors -> [Jobs -> Nat]]
  BY DEF Init
<1> QED
  BY <1>2, <1>3, <1>4, <1>5 DEF Init, TypeOK

(* Every reachable state is well-typed: rows, copies, counters and the     *)
(* places the goroutines are at.                                           *)
THEOREM TypeCorrect == Spec => []TypeOK
<1>1. TypeOK /\ [Next]_vars => TypeOK'
  BY StepType
<1> QED
  BY <1>1, InitType, PTL DEF Spec

-----------------------------------------------------------------------------
(* The inductive invariant, action by action.                              *)

(* Only the goroutine that takes the step is alive.                        *)
LEMMA OthersAreOff ==
  ASSUME Inductive, NEW p \in Processors, pc[p] # "off", NEW q \in Processors, q # p
  PROVE  pc[q] = "off" /\ batch[q] = {} /\ cur[q] = 0 /\ ok[q] = {}
BY DEF Inductive, OneLive, GoroutineShape

(* What a step says of a row it does not touch.                            *)
LEMMA RowFrame ==
  ASSUME NEW j \in Jobs, RowAgrees(j), VerdictIsTrue(j),
         queue'[j] = queue[j], attempts'[j] = attempts[j], confirmed'[j] = confirmed[j],
         j \in present' => j \in present, j >= nextId' => j >= nextId
  PROVE  RowAgrees(j)' /\ VerdictIsTrue(j)'
BY DEF RowAgrees, VerdictIsTrue, Unsent, SentTo, Retried, Usable, Budget, Confirmed

(* What it says of a copy whose row and goroutine it leaves alone.         *)
LEMMA CopyFrame ==
  ASSUME NEW p \in Processors, NEW j \in Jobs, CopyIsCurrent(p, j), nextId' \in Int,
         nextId \in Int, nextId' >= nextId,
         queue'[j] = queue[j], attempts'[j] = attempts[j], confirmed'[j] = confirmed[j],
         seen'[p][j] = seen[p][j], j = cur[p] => j = cur'[p]
  PROVE  CopyIsCurrent(p, j)'
BY DEF CopyIsCurrent, Unsent, Retried, Jobs

(* What it says of the job being processed, when it leaves that one alone. *)
LEMMA CurrentFrame ==
  ASSUME NEW p \in Processors, CurrentJob(p), pc'[p] = pc[p], cur'[p] = cur[p], ok'[p] = ok[p],
         pc[p] \in {"sending", "report"} =>
           /\ queue'[cur[p]] = queue[cur[p]]
           /\ attempts'[cur[p]] = attempts[cur[p]] /\ confirmed'[cur[p]] = confirmed[cur[p]]
           /\ cur[p] \in present' => cur[p] \in present
  PROVE  CurrentJob(p)'
BY DEF CurrentJob, Unsent, SentTo, Retried, Usable

(* Adding a row keeps the bookkeeping.                                     *)
LEMMA AddKeeps ==
  ASSUME Inductive, NEW r \in Requests, Add(r)
  PROVE  Inductive'
<1>0. [Next]_vars
  BY DEF Next, Owner
<1>1. TypeOK /\ TypeOK' /\ nextId \in Jobs /\ nextId \in Int
  BY <1>0, StepType DEF Inductive, Add, Jobs
<1>2. \A j \in Jobs : j # nextId => queue'[j] = queue[j]
  BY <1>1 DEF Add, TypeOK
<1>3. OneLive' /\ GoroutineShape'
  BY DEF Add, Inductive, OneLive, GoroutineShape, life, work
<1>4. ASSUME NEW p \in Processors PROVE CurrentJob(p)'
  <2>1. pc[p] \in {"sending", "report"} => cur[p] \in Jobs /\ cur[p] # nextId
    BY <1>1 DEF Inductive, GoroutineShape, CopyIsCurrent, TypeOK
  <2>2. pc[p] \in {"sending", "report"} => (cur[p] \in present' => cur[p] \in present)
    BY <2>1 DEF Add
  <2> QED
    BY <1>2, <2>1, <2>2, CurrentFrame DEF Add, Inductive, life, work, history
<1>5. ASSUME NEW p \in Processors, NEW j \in batch'[p] PROVE CopyIsCurrent(p, j)'
  <2>1. j \in Jobs /\ j # nextId /\ CopyIsCurrent(p, j)
    BY <1>1 DEF Add, Inductive, CopyIsCurrent, TypeOK, work
  <2>2. nextId' \in Int /\ nextId' >= nextId
    BY <1>1 DEF Add
  <2> QED
    BY <1>1, <1>2, <2>1, <2>2, CopyFrame DEF Add, life, work, history
<1>6. ASSUME NEW j \in Jobs PROVE RowAgrees(j)' /\ VerdictIsTrue(j)'
  <2>1. CASE j = nextId
    <3>1. queue'[j] = NewRow(r) /\ attempts'[j] = attempts[j] /\ confirmed'[j] = confirmed[j]
      BY <2>1, <1>1 DEF Add, TypeOK, history
    <3>2. Unsent(j) /\ Retried(j) = 0
      BY <2>1, <1>1 DEF Inductive, RowAgrees
    <3>3. /\ NewRow(r).retryCount = NewRow(r).asked /\ NewRow(r).status = "pending"
          /\ NewRow(r).retryCount \in Nat /\ NewRow(r).maxRetries \in Int
      BY NewRowType DEF NewRow, Row
    <3>4. Retried(j)' = 0 /\ Unsent(j)' /\ (Retried(j) < Budget(j))'
      BY <3>1, <3>2, <3>3 DEF Unsent, Retried, Budget
    <3>5. ~(j >= nextId')
      BY <2>1, <1>1 DEF Add
    <3> QED
      BY <3>1, <3>3, <3>4, <3>5 DEF RowAgrees, VerdictIsTrue
  <2>2. CASE j # nextId
    <3>1. (j \in present' => j \in present) /\ (j >= nextId' => j >= nextId)
      BY <2>2, <1>1 DEF Add, Jobs
    <3> QED
      BY <2>2, <3>1, <1>2, RowFrame DEF Add, Inductive, history
  <2> QED
    BY <2>1, <2>2
<1> QED
  BY <1>1, <1>3, <1>4, <1>5, <1>6 DEF Inductive

(* DeleteJob and CleanupCompletedJobs only take ids out of the table.      *)
LEMMA DeletionKeeps ==
  ASSUME Inductive, present' \subseteq present, [Next]_vars,
         UNCHANGED <<queue, nextId, life, pc, work, faults, history>>
  PROVE  Inductive'
<1> USE DEF life, work, history
<1>1. TypeOK /\ TypeOK' /\ nextId \in Int
  BY StepType DEF Inductive, TypeOK
<1>2. OneLive' /\ GoroutineShape'
  BY DEF Inductive, OneLive, GoroutineShape
<1>3. ASSUME NEW p \in Processors PROVE CurrentJob(p)'
  BY CurrentFrame DEF Inductive
<1>4. ASSUME NEW p \in Processors, NEW j \in batch'[p] PROVE CopyIsCurrent(p, j)'
  BY <1>1, CopyFrame DEF Inductive, TypeOK
<1>5. ASSUME NEW j \in Jobs PROVE RowAgrees(j)' /\ VerdictIsTrue(j)'
  BY RowFrame DEF Inductive
<1> QED
  BY <1>1, <1>2, <1>3, <1>4, <1>5 DEF Inductive

(* The steps that move a goroutine only into or out of `off` and `idle`.   *)
LEMMA LifeKeeps ==
  ASSUME ~Overlap, Inductive, [Next]_vars,
         \/ \E p \in Processors : Start(p) \/ Cancel(p) \/ Exit(p)
         \/ Stop \/ ProcessExit
  PROVE  Inductive'
<1> USE DEF table, life, work, history
<1>1. TypeOK /\ TypeOK' /\ nextId \in Int /\ UNCHANGED <<table, history>>
  BY StepType DEF Inductive, TypeOK, Start, Cancel, Exit, Stop, ProcessExit
<1>2. OneLive'
  BY <1>1 DEF Inductive, OneLive, TypeOK, Start, Cancel, Exit, Stop, ProcessExit
<1>3. ASSUME NEW p \in Processors
      PROVE  \/ /\ batch'[p] = batch[p] /\ seen'[p] = seen[p]
                /\ cur'[p] = cur[p] /\ ok'[p] = ok[p]
                /\ pc'[p] = pc[p] \/ (pc[p] \in {"off", "idle"} /\ pc'[p] \in {"off", "idle"})
             \/ batch'[p] = {} /\ cur'[p] = 0 /\ ok'[p] = {} /\ pc'[p] = "off"
  BY <1>1 DEF Inductive, TypeOK, Start, Cancel, Exit, Stop, ProcessExit
<1>4. GoroutineShape'
  <2> SUFFICES ASSUME NEW p \in Processors
               PROVE  /\ pc'[p] \in {"off", "idle"} => batch'[p] = {}
                      /\ pc'[p] \in {"sending", "report"} => cur'[p] \in batch'[p]
                      /\ pc'[p] \notin {"sending", "report"} => cur'[p] = 0
                      /\ ok'[p] # {} => pc'[p] = "report"
    BY DEF GoroutineShape
  <2> QED
    BY <1>3 DEF Inductive, GoroutineShape
<1>5. ASSUME NEW p \in Processors PROVE CurrentJob(p)'
  <2>1. CASE pc'[p] = pc[p] /\ cur'[p] = cur[p] /\ ok'[p] = ok[p]
    BY <1>1, <2>1, CurrentFrame DEF Inductive
  <2>2. CASE pc'[p] \in {"off", "idle"}
    BY <2>2 DEF CurrentJob
  <2> QED
    BY <1>3, <2>1, <2>2
<1>6. ASSUME NEW p \in Processors, NEW j \in batch'[p] PROVE CopyIsCurrent(p, j)'
  <2>1. j \in batch[p] /\ seen'[p] = seen[p] /\ cur'[p] = cur[p]
    BY <1>3, <1>6
  <2> QED
    BY <1>1, <2>1, CopyFrame DEF Inductive, TypeOK
<1>7. ASSUME NEW j \in Jobs PROVE RowAgrees(j)' /\ VerdictIsTrue(j)'
  BY <1>1, RowFrame DEF Inductive
<1> QED
  BY <1>1, <1>2, <1>4, <1>5, <1>6, <1>7 DEF Inductive

(* next_retry_at draws nearer only for rows no goroutine holds.            *)
LEMMA ElapseKeeps ==
  ASSUME Inductive, NEW j \in Jobs, Elapse(j)
  PROVE  Inductive'
<1> USE DEF life, work, history
<1>0. [Next]_vars
  BY DEF Next, Environment
<1>1. TypeOK /\ TypeOK' /\ nextId \in Int /\ queue[j] \in Row
  BY <1>0, StepType DEF Inductive, TypeOK
<1>2. \A i \in Jobs : i # j => queue'[i] = queue[i]
  BY <1>1 DEF Elapse, TypeOK
<1>3. /\ queue'[j].status = queue[j].status /\ queue'[j].retryCount = queue[j].retryCount
      /\ queue'[j].asked = queue[j].asked
      /\ queue'[j].maxRetries = queue[j].maxRetries /\ queue'[j].services = queue[j].services
  BY <1>1 DEF Elapse, TypeOK, Row
<1>4. OneLive' /\ GoroutineShape'
  BY DEF Elapse, Inductive, OneLive, GoroutineShape
<1>5. ASSUME NEW p \in Processors PROVE CurrentJob(p)'
  <2>1. pc[p] \in {"sending", "report"} => cur[p] \in Jobs /\ cur[p] # j
    BY <1>1 DEF Inductive, GoroutineShape, CurrentJob, Elapse, TypeOK
  <2> QED
    BY <1>2, <2>1, CurrentFrame DEF Elapse, Inductive
<1>6. ASSUME NEW p \in Processors, NEW i \in batch'[p] PROVE CopyIsCurrent(p, i)'
  <2>1. i \in batch[p] /\ i \in Jobs /\ CopyIsCurrent(p, i)
    BY <1>1, <1>6 DEF Elapse, Inductive, TypeOK
  <2>2. CASE i # j
    BY <1>1, <1>2, <2>1, <2>2, CopyFrame DEF Elapse
  <2>3. CASE i = j
    <3>1. i = cur[p]
      BY <1>1, <2>1, <2>3 DEF CopyIsCurrent, Elapse
    <3> QED
      BY <1>3, <2>1, <2>3, <3>1 DEF CopyIsCurrent, Elapse
  <2> QED
    BY <2>2, <2>3
<1>7. ASSUME NEW i \in Jobs PROVE RowAgrees(i)' /\ VerdictIsTrue(i)'
  <2>1. CASE i # j
    BY <1>2, <2>1, RowFrame DEF Elapse, Inductive
  <2>2. CASE i = j
    <3>1. RowAgrees(j) /\ VerdictIsTrue(j) /\ UNCHANGED <<present, nextId, attempts, confirmed>>
      BY DEF Elapse, Inductive
    <3>2. RowAgrees(j)'
      BY <1>3, <3>1 DEF RowAgrees, Unsent, SentTo, Retried, Usable, Budget
    <3>3. VerdictIsTrue(j)'
      BY <1>3, <3>1 DEF VerdictIsTrue, Usable, Budget, Confirmed
    <3> QED
      BY <2>2, <3>2, <3>3
  <2> QED
    BY <2>1, <2>2
<1> QED
  BY <1>1, <1>4, <1>5, <1>6, <1>7 DEF Inductive

(* A fresh batch holds copies of rows that are due, so of unsent jobs.     *)
LEMMA FetchKeeps ==
  ASSUME Inductive, NEW p \in Processors, FetchBatch(p)
  PROVE  Inductive'
<1> USE DEF table, life, history
<1> DEFINE new == GetPendingJobs(BatchLimit)
<1>0. [Next]_vars
  BY DEF Next, Step
<1>1. TypeOK /\ TypeOK' /\ nextId \in Int /\ pc[p] = "idle" /\ UNCHANGED <<table, history>>
  BY <1>0, StepType DEF Inductive, TypeOK, FetchBatch
<1>2. new \subseteq Due /\ new \subseteq Jobs /\ new # {}
  BY <1>1 DEF GetPendingJobs, Due, TypeOK, FetchBatch
<1>3. /\ batch'[p] = new /\ pc'[p] = "batch"
      /\ \A j \in new : seen'[p][j] = queue[j].retryCount
      /\ cur' = cur /\ ok' = ok
      /\ \A q \in Processors : q # p => batch'[q] = batch[q] /\ seen'[q] = seen[q] /\ pc'[q] = pc[q]
  BY <1>1, <1>2 DEF FetchBatch, TypeOK
<1>4. cur[p] = 0 /\ ok[p] = {}
  BY <1>1 DEF Inductive, GoroutineShape
<1>5. OneLive'
  BY <1>1, <1>3 DEF Inductive, OneLive
<1>6. GoroutineShape'
  <2> SUFFICES ASSUME NEW q \in Processors
               PROVE  /\ pc'[q] \in {"off", "idle"} => batch'[q] = {}
                      /\ pc'[q] \in {"sending", "report"} => cur'[q] \in batch'[q]
                      /\ pc'[q] \notin {"sending", "report"} => cur'[q] = 0
                      /\ ok'[q] # {} => pc'[q] = "report"
    BY DEF GoroutineShape
  <2> QED
    BY <1>3, <1>4 DEF Inductive, GoroutineShape
<1>7. ASSUME NEW q \in Processors PROVE CurrentJob(q)'
  <2>1. CASE q = p
    BY <1>3, <2>1 DEF CurrentJob
  <2>2. CASE q # p
    BY <1>1, <1>3, <2>2, CurrentFrame DEF Inductive
  <2> QED
    BY <2>1, <2>2
<1>8. ASSUME NEW q \in Processors, NEW j \in batch'[q] PROVE CopyIsCurrent(q, j)'
  <2>1. CASE q = p
    <3>1. j \in new /\ j \in Jobs /\ j \in Due
      BY <1>2, <1>3, <1>8, <2>1
    <3>2. j \in present /\ queue[j].status \in {"pending", "retrying"} /\ queue[j].wait = 0
      BY <3>1 DEF Due
    <3>3. j < nextId
      BY <1>1, <3>2 DEF TypeOK
    <3>4. Unsent(j)
      BY <3>1, <3>2 DEF Inductive, RowAgrees
    <3> QED
      BY <1>1, <1>3, <2>1, <3>1, <3>2, <3>3, <3>4 DEF CopyIsCurrent, Unsent, Retried
  <2>2. CASE q # p
    BY <1>1, <1>3, <1>8, <2>2, CopyFrame DEF Inductive, TypeOK
  <2> QED
    BY <2>1, <2>2
<1>9. ASSUME NEW j \in Jobs PROVE RowAgrees(j)' /\ VerdictIsTrue(j)'
  BY <1>1, RowFrame DEF Inductive
<1> QED
  BY <1>1, <1>5, <1>6, <1>7, <1>8, <1>9 DEF Inductive

(* The row goes to running, unless it was deleted since it was copied.     *)
LEMMA MarkKeeps ==
  ASSUME Inductive, NEW p \in Processors, NEW j \in Jobs, MarkRunning(p, j)
  PROVE  Inductive'
<1> USE DEF life, history
<1>0. [Next]_vars
  BY DEF Next, Step
<1>1. TypeOK /\ TypeOK' /\ nextId \in Int /\ pc[p] = "batch" /\ j \in batch[p] /\ cur[p] = 0
  BY <1>0, StepType DEF Inductive, TypeOK, MarkRunning, IsNext, GoroutineShape
<1>2. /\ Unsent(j) /\ queue[j].status \in {"pending", "retrying"} /\ queue[j].wait = 0
      /\ j < nextId /\ seen[p][j] = queue[j].retryCount /\ ok[p] = {}
  BY <1>1 DEF Inductive, CopyIsCurrent, Jobs, GoroutineShape
<1>3. /\ \A i \in Jobs : i # j => queue'[i] = queue[i]
      /\ j \in present => queue'[j].status = "running"
      /\ j \notin present => queue'[j].status = queue[j].status
      /\ queue'[j].retryCount = queue[j].retryCount /\ queue'[j].wait = queue[j].wait
      /\ queue'[j].asked = queue[j].asked
      /\ queue'[j].maxRetries = queue[j].maxRetries /\ queue'[j].services = queue[j].services
  BY <1>1 DEF MarkRunning, SetRow, MarkedRunning, TypeOK, Row
<1>4. /\ pc'[p] = "sending" /\ cur'[p] = j /\ batch' = batch /\ seen' = seen /\ ok' = ok
      /\ \A q \in Processors : q # p => cur'[q] = cur[q] /\ pc'[q] = pc[q]
  BY <1>1 DEF MarkRunning, TypeOK
<1>5. OneLive'
  BY <1>1, <1>4 DEF Inductive, OneLive
<1>6. GoroutineShape'
  <2> SUFFICES ASSUME NEW q \in Processors
               PROVE  /\ pc'[q] \in {"off", "idle"} => batch'[q] = {}
                      /\ pc'[q] \in {"sending", "report"} => cur'[q] \in batch'[q]
                      /\ pc'[q] \notin {"sending", "report"} => cur'[q] = 0
                      /\ ok'[q] # {} => pc'[q] = "report"
    BY DEF GoroutineShape
  <2> QED
    BY <1>1, <1>2, <1>4 DEF Inductive, GoroutineShape
<1>7. ASSUME NEW q \in Processors PROVE CurrentJob(q)'
  <2>1. CASE q = p
    <3>1. Unsent(j)'
      BY <1>2, <1>3 DEF Unsent, Retried, MarkRunning
    <3> QED
      BY <1>2, <1>3, <1>4, <2>1, <3>1 DEF CurrentJob, MarkRunning, Decided
  <2>2. CASE q # p
    <3>1. pc[q] = "off"
      BY <1>1, <2>2, OthersAreOff
    <3> QED
      BY <1>4, <2>2, <3>1 DEF CurrentJob
  <2> QED
    BY <2>1, <2>2
<1>8. ASSUME NEW q \in Processors, NEW i \in batch'[q] PROVE CopyIsCurrent(q, i)'
  <2>1. q = p
    BY <1>1, <1>4, <1>8, OthersAreOff
  <2>2. CASE i # j
    <3>1. i \in Jobs /\ i # cur[p] /\ CopyIsCurrent(p, i)
      BY <1>1, <1>4, <1>8, <2>1 DEF Inductive, TypeOK, Jobs
    <3> QED
      BY <1>1, <1>3, <1>4, <2>1, <2>2, <3>1, CopyFrame DEF MarkRunning
  <2>3. CASE i = j
    BY <1>2, <1>3, <1>4, <2>1, <2>3 DEF CopyIsCurrent, MarkRunning
  <2> QED
    BY <2>2, <2>3
<1>9. ASSUME NEW i \in Jobs PROVE RowAgrees(i)' /\ VerdictIsTrue(i)'
  <2>1. CASE i # j
    BY <1>3, <2>1, RowFrame DEF Inductive, MarkRunning
  <2>2. CASE i = j
    BY <1>1, <1>2, <1>3, <2>2 DEF Inductive, RowAgrees, VerdictIsTrue, Unsent,
                                   Retried, Budget, MarkRunning, Jobs
  <2> QED
    BY <2>1, <2>2
<1> QED
  BY <1>1, <1>5, <1>6, <1>7, <1>8, <1>9 DEF Inductive

(* The attempt is counted, and whoever took the job is in `ok`.            *)
LEMMA NotifyKeeps ==
  ASSUME Inductive, NEW p \in Processors, NEW j \in Jobs, NotifyAll(p, j)
  PROVE  Inductive'
<1> USE DEF table, life
<1>0. [Next]_vars
  BY DEF Next, Step
<1>1. /\ TypeOK /\ TypeOK' /\ nextId \in Int /\ pc[p] = "sending" /\ cur[p] = j /\ j \in batch[p]
      /\ UNCHANGED <<table, batch, seen, cur>>
  BY <1>0, StepType DEF Inductive, TypeOK, NotifyAll, GoroutineShape
<1>2. Unsent(j) /\ CurrentJob(p) /\ CopyIsCurrent(p, j) /\ queue[j].status \notin Decided
  BY <1>1 DEF Inductive, CurrentJob
<1>3. PICK got \in SUBSET Usable(j) :
        /\ ok' = [ok EXCEPT ![p] = got]
        /\ confirmed' = [confirmed EXCEPT ![j] =
                           [s \in Services |-> IF s \in got THEN @[s] + 1 ELSE @[s]]]
  BY DEF NotifyAll
<1>4. \A i \in Jobs : i # j => attempts'[i] = attempts[i] /\ confirmed'[i] = confirmed[i]
  BY <1>1, <1>3 DEF NotifyAll, TypeOK
<1>5. SentTo(j, got)'
  <2>1. attempts'[j] = Retried(j)' + 1
    BY <1>1, <1>2 DEF Unsent, Retried, NotifyAll, TypeOK
  <2>2. ASSUME NEW s \in Services PROVE confirmed'[j][s] = IF s \in got THEN 1 ELSE 0
    BY <1>1, <1>2, <1>3 DEF Unsent, TypeOK
  <2> QED
    BY <2>1, <2>2 DEF SentTo
<1>6. /\ ok'[p] = got /\ pc'[p] = "report"
      /\ \A q \in Processors : q # p => ok'[q] = ok[q] /\ pc'[q] = pc[q]
  BY <1>1, <1>3 DEF NotifyAll, TypeOK
<1>7. OneLive'
  BY <1>1, <1>6 DEF Inductive, OneLive
<1>8. GoroutineShape'
  <2> SUFFICES ASSUME NEW q \in Processors
               PROVE  /\ pc'[q] \in {"off", "idle"} => batch'[q] = {}
                      /\ pc'[q] \in {"sending", "report"} => cur'[q] \in batch'[q]
                      /\ pc'[q] \notin {"sending", "report"} => cur'[q] = 0
                      /\ ok'[q] # {} => pc'[q] = "report"
    BY DEF GoroutineShape
  <2> QED
    BY <1>1, <1>6 DEF Inductive, GoroutineShape
<1>9. ASSUME NEW q \in Processors PROVE CurrentJob(q)'
  <2>1. CASE q = p
    BY <1>1, <1>2, <1>3, <1>5, <1>6, <2>1 DEF CurrentJob, Usable
  <2>2. CASE q # p
    <3>1. pc[q] = "off"
      BY <1>1, <2>2, OthersAreOff
    <3> QED
      BY <1>6, <2>2, <3>1 DEF CurrentJob
  <2> QED
    BY <2>1, <2>2
<1>10. ASSUME NEW q \in Processors, NEW i \in batch'[q] PROVE CopyIsCurrent(q, i)'
  <2>1. q = p
    BY <1>1, <1>10, OthersAreOff
  <2>2. CASE i # j
    <3>1. i \in Jobs /\ CopyIsCurrent(p, i)
      BY <1>1, <1>10, <2>1 DEF Inductive, TypeOK
    <3> QED
      BY <1>1, <1>4, <2>1, <2>2, <3>1, CopyFrame
  <2>3. CASE i = j
    BY <1>1, <1>2, <2>1, <2>3 DEF CopyIsCurrent
  <2> QED
    BY <2>2, <2>3
<1>11. ASSUME NEW i \in Jobs PROVE RowAgrees(i)' /\ VerdictIsTrue(i)'
  <2>1. CASE i # j
    BY <1>1, <1>4, <2>1, RowFrame DEF Inductive
  <2>2. CASE i = j
    <3>1. RowAgrees(j) /\ j < nextId
      BY <1>2 DEF Inductive, CopyIsCurrent
    <3>2. queue'[j].status \notin {"pending", "retrying"} \/ j \notin present'
      BY <1>1 DEF Inductive, CurrentJob
    <3>3. RowAgrees(j)'
      BY <1>1, <1>3, <1>5, <3>1, <3>2 DEF RowAgrees, Retried, Usable, Budget, Jobs
    <3> QED
      BY <1>1, <1>2, <2>2, <3>3 DEF VerdictIsTrue, Decided
  <2> QED
    BY <2>1, <2>2
<1> QED
  BY <1>1, <1>7, <1>8, <1>9, <1>10, <1>11 DEF Inductive

(* What FinishJob leaves of the goroutines when the row it reports is      *)
(* well-behaved, whether or not the row was written.                       *)
LEMMA FinishKeeps ==
  ASSUME Inductive, TypeOK', NEW p \in Processors, NEW j \in batch[p], FinishJob(p, j),
         pc[p] # "off", cur[p] \in {0, j}, UNCHANGED <<nextId, history>>, present' = present,
         \A i \in Jobs : i # j => queue'[i] = queue[i]
  PROVE  /\ OneLive' /\ GoroutineShape'
         /\ \A q \in Processors : CurrentJob(q)' /\ \A i \in batch'[q] : CopyIsCurrent(q, i)'
         /\ \A i \in Jobs : i # j => RowAgrees(i)' /\ VerdictIsTrue(i)'
<1> USE DEF history
<1>1. TypeOK /\ nextId \in Int /\ j \in Jobs
  BY DEF Inductive, TypeOK
<1>2. /\ batch'[p] = batch[p] \ {j} /\ cur'[p] = 0 /\ ok'[p] = {}
      /\ pc'[p] = IF batch[p] = {j} THEN "idle" ELSE "batch"
      /\ \A i \in Jobs : i # j => seen'[p][i] = seen[p][i]
  BY <1>1 DEF FinishJob, TypeOK
<1>3. \A q \in Processors : q # p =>
        batch'[q] = batch[q] /\ cur'[q] = cur[q] /\ ok'[q] = ok[q] /\ pc'[q] = pc[q]
  BY <1>1 DEF FinishJob, TypeOK
<1>4. \A q \in Processors : q # p => pc[q] = "off" /\ batch[q] = {} /\ cur[q] = 0 /\ ok[q] = {}
  BY OthersAreOff
<1>5. OneLive'
  BY <1>2, <1>3, <1>4 DEF OneLive
<1>6. GoroutineShape'
  <2> SUFFICES ASSUME NEW q \in Processors
               PROVE  /\ pc'[q] \in {"off", "idle"} => batch'[q] = {}
                      /\ pc'[q] \in {"sending", "report"} => cur'[q] \in batch'[q]
                      /\ pc'[q] \notin {"sending", "report"} => cur'[q] = 0
                      /\ ok'[q] # {} => pc'[q] = "report"
    BY DEF GoroutineShape
  <2> QED
    BY <1>2, <1>3, <1>4
<1>7. ASSUME NEW q \in Processors PROVE CurrentJob(q)'
  BY <1>2, <1>3, <1>4 DEF CurrentJob
<1>8. ASSUME NEW q \in Processors, NEW i \in batch'[q] PROVE CopyIsCurrent(q, i)'
  <2>1. q = p /\ i \in batch[p] /\ i # j
    BY <1>2, <1>3, <1>4, <1>8
  <2>2. i \in Jobs /\ i # cur[p] /\ CopyIsCurrent(p, i)
    BY <1>1, <2>1 DEF Inductive, TypeOK, Jobs
  <2> QED
    BY <1>1, <1>2, <2>1, <2>2, CopyFrame
<1>9. ASSUME NEW i \in Jobs, i # j PROVE RowAgrees(i)' /\ VerdictIsTrue(i)'
  BY <1>9, RowFrame DEF Inductive
<1> QED
  BY <1>5, <1>6, <1>7, <1>8, <1>9

(* A failed UPDATE leaves the table as it was.                             *)
LEMMA FailureKeeps ==
  ASSUME Inductive, NEW p \in Processors, NEW j \in Jobs,
         MarkRunningFails(p, j) \/ ReportFails(p, j)
  PROVE  Inductive'
<1> USE DEF table, life, history
<1>0. [Next]_vars
  BY DEF Next, Trouble
<1>1. /\ TypeOK /\ TypeOK' /\ FinishJob(p, j) /\ pc[p] # "off" /\ UNCHANGED <<table, history>>
      /\ j \in batch[p] /\ cur[p] \in {0, j}
  BY <1>0, StepType DEF Inductive, GoroutineShape, MarkRunningFails, ReportFails, IsNext
<1>2. RowAgrees(j)' /\ VerdictIsTrue(j)'
  BY <1>1, RowFrame DEF Inductive
<1> QED
  BY <1>1, <1>2, FinishKeeps DEF Inductive

(* The verdict is read off the answers; a retry stays within the budget    *)
(* because the copy's count still is the row's.                            *)
LEMMA ReportKeeps ==
  ASSUME Inductive, NEW p \in Processors, NEW j \in Jobs, Report(p, j)
  PROVE  Inductive'
<1> USE DEF life, history
<1>0. [Next]_vars
  BY DEF Next, Step
<1>1. /\ TypeOK /\ TypeOK' /\ FinishJob(p, j) /\ pc[p] = "report" /\ cur[p] = j /\ j \in batch[p]
      /\ UNCHANGED <<present, nextId, attempts, confirmed>>
  BY <1>0, StepType DEF Inductive, GoroutineShape, Report
<1>2. /\ ok[p] \subseteq Usable(j) /\ SentTo(j, ok[p]) /\ queue[j].status \notin Decided
      /\ j < nextId /\ seen[p][j] = queue[j].retryCount
      /\ Retried(j) >= 0 /\ Retried(j) < Budget(j) /\ RowAgrees(j)
  BY <1>1 DEF Inductive, CurrentJob, CopyIsCurrent, RowAgrees
<1>3. \A i \in Jobs : i # j => queue'[i] = queue[i]
  BY <1>1 DEF Report, SetRow, TypeOK
<1>4. /\ queue[j] \in Row /\ queue[j].retryCount \in Nat /\ queue[j].asked \in Nat
      /\ queue[j].maxRetries \in Int
      /\ nextId \in Int /\ Usable(j) \subseteq Services
  BY <1>1 DEF TypeOK, Row, Usable
<1>5. PICK S \in SUBSET Usable(j) : S = ok[p] /\ SentTo(j, S)
  BY <1>2
<1>6. RowAgrees(j)' /\ VerdictIsTrue(j)'
  <2>1. CASE j \notin present
    <3>1. queue' = queue
      BY <2>1 DEF Report, SetRow
    <3> QED
      BY <1>1, <3>1, RowFrame DEF Inductive
  <2>2. CASE j \in present
    <3>1. queue'[j] = Reported(p, j)
      BY <1>1, <2>2 DEF Report, SetRow, TypeOK
    <3>2. CASE Succeeded(p, j)
      <4>1. queue'[j] = Completed(queue[j])
        BY <3>1, <3>2 DEF Reported
      <4>2. /\ queue'[j].status = "completed" /\ queue'[j].retryCount = queue[j].retryCount
            /\ queue'[j].asked = queue[j].asked
            /\ queue'[j].maxRetries = queue[j].maxRetries /\ queue'[j].services = queue[j].services
        BY <1>4, <4>1 DEF Completed, Row
      <4>3. RowAgrees(j)'
        <5>1. SentTo(j, S)' /\ S \in SUBSET (Usable(j)')
          BY <1>1, <1>5, <4>2 DEF SentTo, Retried, Usable
        <5>2. (Retried(j) >= 0 /\ Retried(j) < Budget(j))' /\ ~(j >= nextId')
          BY <1>1, <1>2, <1>4, <4>2 DEF Retried, Budget, Jobs
        <5> QED
          BY <4>2, <5>1, <5>2 DEF RowAgrees
      <4>4. Confirmed(j)' # {} \/ Usable(j)' = {}
        BY <1>1, <1>2, <1>4, <3>2, <4>2 DEF Succeeded, SentTo, Confirmed, Usable
      <4> QED
        BY <4>2, <4>3, <4>4 DEF VerdictIsTrue
    <3>3. CASE ~Succeeded(p, j) /\ CanRetry(p, j)
      <4>1. queue'[j] = Retrying(queue[j])
        BY <3>1, <3>3 DEF Reported
      <4>2. /\ queue'[j].status = "retrying" /\ queue'[j].retryCount = queue[j].retryCount + 1
            /\ queue'[j].asked = queue[j].asked /\ queue'[j].maxRetries = queue[j].maxRetries
        BY <1>4, <4>1 DEF Retrying, Row
      <4>3. Unsent(j)'
        BY <1>1, <1>2, <1>4, <3>3, <4>2 DEF SentTo, Unsent, Retried, Succeeded
      <4>4. (Retried(j) >= 0 /\ Retried(j) < Budget(j))'
        BY <1>2, <1>4, <3>3, <4>2 DEF CanRetry, Retried, Budget
      <4> QED
        BY <1>1, <1>2, <1>4, <4>2, <4>3, <4>4 DEF RowAgrees, VerdictIsTrue, Jobs
    <3>4. CASE ~Succeeded(p, j) /\ ~CanRetry(p, j)
      <4>1. queue'[j] = Failed(queue[j])
        BY <3>1, <3>4 DEF Reported
      <4>2. /\ queue'[j].status = "failed" /\ queue'[j].retryCount = queue[j].retryCount
            /\ queue'[j].asked = queue[j].asked
            /\ queue'[j].maxRetries = queue[j].maxRetries /\ queue'[j].services = queue[j].services
        BY <1>4, <4>1 DEF Failed, Row
      <4>3. ok[p] = {} /\ Usable(j) # {}
        BY <3>4 DEF Succeeded
      <4>4. attempts[j] = Budget(j)
        BY <1>2, <1>4, <3>4 DEF CanRetry, Retried, Budget, SentTo
      <4>5. RowAgrees(j)'
        <5>1. SentTo(j, S)' /\ S \in SUBSET (Usable(j)')
          BY <1>1, <1>5, <4>2 DEF SentTo, Retried, Usable
        <5>2. (Retried(j) >= 0 /\ Retried(j) < Budget(j))' /\ ~(j >= nextId')
          BY <1>1, <1>2, <1>4, <4>2 DEF Retried, Budget, Jobs
        <5> QED
          BY <4>2, <5>1, <5>2 DEF RowAgrees
      <4>6. Confirmed(j)' = {}
        BY <1>1, <1>2, <4>3 DEF SentTo, Confirmed
      <4> QED
        BY <1>1, <4>2, <4>3, <4>4, <4>5, <4>6 DEF VerdictIsTrue, Usable, Budget
    <3> QED
      BY <3>2, <3>3, <3>4
  <2> QED
    BY <2>1, <2>2
<1> QED
  BY <1>1, <1>3, <1>6, FinishKeeps DEF Inductive

(* The bookkeeping holds of the empty queue.                               *)
LEMMA InitInductive == Init => Inductive
<1> SUFFICES ASSUME Init PROVE Inductive
  OBVIOUS
<1>1. TypeOK
  BY InitType
<1>2. OneLive /\ GoroutineShape /\ \A p \in Processors : batch[p] = {} /\ pc[p] = "off"
  BY DEF Init, OneLive, GoroutineShape
<1>3. ASSUME NEW j \in Jobs PROVE RowAgrees(j) /\ VerdictIsTrue(j)
  <2>1. Unsent(j) /\ j \notin present /\ queue[j].status = "pending" /\ Retried(j) = 0
    BY DEF Init, Unsent, Retried, BlankRow
  <2> QED
    BY <2>1 DEF RowAgrees, VerdictIsTrue, Budget, Init, BlankRow
<1> QED
  BY <1>1, <1>2, <1>3 DEF Inductive, CurrentJob

(* Every step keeps the bookkeeping when goroutines do not overlap.        *)
LEMMA StepInductive ==
  ASSUME ~Overlap, Inductive, [Next]_vars
  PROVE  Inductive'
<1> USE DEF table, life, work, history
<1>1. ASSUME NEW r \in Requests, Add(r) PROVE Inductive'
  BY <1>1, AddKeeps
<1>2. ASSUME NEW j \in Jobs, DeleteJob(j) PROVE Inductive'
  BY <1>2, DeletionKeeps DEF DeleteJob
<1>3. CASE CleanupCompletedJobs
  BY <1>3, DeletionKeeps DEF CleanupCompletedJobs
<1>4. CASE \/ \E p \in Processors : Start(p) \/ Cancel(p) \/ Exit(p)
           \/ Stop \/ ProcessExit
  BY <1>4, LifeKeeps
<1>5. ASSUME NEW j \in Jobs, Elapse(j) PROVE Inductive'
  BY <1>5, ElapseKeeps
<1>6. ASSUME NEW p \in Processors, Step(p) PROVE Inductive'
  BY <1>6, FetchKeeps, MarkKeeps, NotifyKeeps, ReportKeeps DEF Step
<1>7. ASSUME NEW p \in Processors, NEW j \in Jobs, MarkRunningFails(p, j) \/ ReportFails(p, j)
      PROVE  Inductive'
  BY <1>7, FailureKeeps
<1>8. CASE UNCHANGED vars
  BY <1>8, DeletionKeeps DEF vars
<1> QED
  BY <1>1, <1>2, <1>3, <1>4, <1>5, <1>6, <1>7, <1>8 DEF Next, Owner, Environment, Trouble

(* As long as no goroutine is started over a living one, the table, the    *)
(* copies the goroutine works on and what was really sent stay in step.    *)
THEOREM Bookkeeping == ~Overlap => (Spec => []Inductive)
<1> SUFFICES ASSUME ~Overlap PROVE Spec => []Inductive
  OBVIOUS
<1>1. Inductive /\ [Next]_vars => Inductive'
  BY StepInductive
<1> QED
  BY <1>1, InitInductive, PTL DEF Spec

(* No service takes the same job twice, however often it is retried and    *)
(* whatever fails, is deleted or crashes on the way.                       *)
THEOREM NoDoubleDelivery == ~Overlap => (Spec => []AtMostOnceConfirmed)
<1> SUFFICES ASSUME ~Overlap PROVE Spec => []AtMostOnceConfirmed
  OBVIOUS
<1>1. Inductive => AtMostOnceConfirmed
  BY DEF Inductive, RowAgrees, Unsent, SentTo, AtMostOnceConfirmed
<1> QED
  BY <1>1, Bookkeeping, PTL

(* NotifyAll runs at most once for a job and once for each retry left over *)
(* the retry_count it was inserted with.                                   *)
THEOREM BudgetKept == ~Overlap => (Spec => []AttemptsWithinBudget)
<1> SUFFICES ASSUME ~Overlap PROVE Spec => []AttemptsWithinBudget
  OBVIOUS
<1>1. Inductive => AttemptsWithinBudget
  <2> SUFFICES ASSUME Inductive, NEW j \in Jobs PROVE attempts[j] <= Budget(j)
    BY DEF AttemptsWithinBudget
  <2>1. Retried(j) \in Int /\ Budget(j) \in Int
    BY DEF Inductive, TypeOK, Row, Retried, Budget
  <2> QED
    BY <2>1 DEF Inductive, RowAgrees, Unsent, SentTo
<1> QED
  BY <1>1, Bookkeeping, PTL

(* Completed means delivered, or nothing to deliver to; failed means every *)
(* attempt of the budget was made and no service took the job.             *)
THEOREM VerdictsTrue == ~Overlap => (Spec => []VerdictMatchesDelivery)
<1> SUFFICES ASSUME ~Overlap PROVE Spec => []VerdictMatchesDelivery
  OBVIOUS
<1>1. Inductive => VerdictMatchesDelivery
  BY DEF Inductive, VerdictMatchesDelivery
<1> QED
  BY <1>1, Bookkeeping, PTL

=============================================================================
