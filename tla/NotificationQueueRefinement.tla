--------------------- MODULE NotificationQueueRefinement ---------------------
(***************************************************************************)
(* What a step of NotificationQueue may never do, in which order jobs are  *)
(* first attempted, and that the queue implements DeliveryContract, for    *)
(* every value of the constants.                                           *)
(***************************************************************************)
EXTENDS NotificationQueueProofs, FiniteSetTheorems

(* What the bookkeeping says of a job when a goroutine writes its row.     *)
LEMMA Writers ==
  ASSUME Inductive, NEW p \in Processors, NEW j \in Jobs
  PROVE  /\ MarkRunning(p, j) => queue[j].status \notin Decided /\ j < nextId
         /\ NotifyAll(p, j) \/ Report(p, j) =>
              /\ queue[j].status \notin Decided /\ queue[j].wait = 0 /\ j < nextId
<1>1. ASSUME MarkRunning(p, j) PROVE queue[j].status \notin Decided /\ j < nextId
  <2>1. CopyIsCurrent(p, j) /\ cur[p] = 0
    BY <1>1 DEF Inductive, GoroutineShape, MarkRunning, IsNext
  <2> QED
    BY <2>1 DEF CopyIsCurrent, Decided, Jobs
<1>2. ASSUME NotifyAll(p, j) \/ Report(p, j)
      PROVE  queue[j].status \notin Decided /\ queue[j].wait = 0 /\ j < nextId
  <2>1. cur[p] = j /\ pc[p] \in {"sending", "report"} /\ CopyIsCurrent(p, j) /\ CurrentJob(p)
    BY <1>2 DEF Inductive, GoroutineShape, NotifyAll, Report
  <2> QED
    BY <2>1 DEF CopyIsCurrent, CurrentJob
<1> QED
  BY <1>1, <1>2

(* The row an UPDATE does not name stays as it is.                         *)
LEMMA OtherRows ==
  ASSUME TypeOK, NEW j \in Jobs, NEW row, NEW i \in Jobs, i # j
  PROVE  SetRow(j, row)[i] = queue[i]
BY DEF SetRow, TypeOK

(* No step takes a row out of completed or failed.                         *)
LEMMA VerdictStep ==
  ASSUME Inductive, [Next]_vars, NEW i \in Jobs, queue[i].status \in Decided
  PROVE  queue'[i].status = queue[i].status
<1> USE DEF table, life, work, history
<1>1. TypeOK /\ nextId \in Int
  BY DEF Inductive, TypeOK
<1>2. ASSUME NEW r \in Requests, Add(r) PROVE queue'[i] = queue[i]
  BY <1>1, <1>2 DEF Add, Inductive, RowAgrees, Decided, TypeOK
<1>3. ASSUME NEW j \in Jobs, Elapse(j) PROVE queue'[i].status = queue[i].status
  BY <1>1, <1>3 DEF Elapse, TypeOK, Row
<1>4. ASSUME NEW p \in Processors, NEW j \in Jobs, MarkRunning(p, j) PROVE queue'[i] = queue[i]
  BY <1>1, <1>4, Writers, OtherRows DEF MarkRunning
<1>5. ASSUME NEW p \in Processors, NEW j \in Jobs, Report(p, j) PROVE queue'[i] = queue[i]
  BY <1>1, <1>5, Writers, OtherRows DEF Report
<1>6. CASE UNCHANGED queue
  BY <1>6
<1>7. CASE Owner \/ ProcessExit
  BY <1>2, <1>6, <1>7
     DEF Owner, DeleteJob, CleanupCompletedJobs, Start, Stop, Cancel, ProcessExit
<1>8. ASSUME NEW p \in Processors, Step(p) \/ Trouble(p)
      PROVE  queue'[i].status = queue[i].status
  BY <1>4, <1>5, <1>6, <1>8
     DEF Step, Trouble, FetchBatch, NotifyAll, Exit, MarkRunningFails, ReportFails
<1> QED
  BY <1>3, <1>6, <1>7, <1>8 DEF Next, Environment, vars

(* Completed and failed are final.                                         *)
THEOREM VerdictsFinal == ~Overlap => (Spec => VerdictIsFinal)
<1> SUFFICES ASSUME ~Overlap PROVE Spec => VerdictIsFinal
  OBVIOUS
<1>1. Inductive /\ [Next]_vars =>
        [\A j \in Jobs : queue[j].status \in Decided => queue'[j].status = queue[j].status]_vars
  BY VerdictStep
<1> QED
  BY <1>1, Bookkeeping, PTL DEF Spec, VerdictIsFinal

(* A job that waits for its next_retry_at is not sent before it.           *)
THEOREM RetriesWait == ~Overlap => (Spec => RetryWaits)
<1> SUFFICES ASSUME ~Overlap PROVE Spec => RetryWaits
  OBVIOUS
<1>1. ASSUME Inductive, [Next]_vars, NEW i \in Jobs, attempts'[i] > attempts[i]
      PROVE  queue[i].wait = 0
  <2>1. attempts \in [Jobs -> Nat]
    BY <1>1 DEF Inductive, TypeOK
  <2>2. \E p \in Processors, j \in Jobs : NotifyAll(p, j)
    BY <1>1, <2>1 DEF Next, Owner, Environment, Step, Trouble, vars, history, Add, DeleteJob,
       CleanupCompletedJobs, Start, Stop, Cancel, ProcessExit, Elapse, Exit, FetchBatch,
       MarkRunning, MarkRunningFails, Report, ReportFails
  <2>3. PICK p \in Processors, j \in Jobs : NotifyAll(p, j)
    BY <2>2
  <2>4. i = j
    BY <1>1, <2>1, <2>3 DEF NotifyAll
  <2> QED
    BY <1>1, <2>3, <2>4, Writers
<1>2. Inductive /\ [Next]_vars =>
        [\A j \in Jobs : attempts'[j] > attempts[j] => queue[j].wait = 0]_vars
  BY <1>1
<1> QED
  BY <1>2, Bookkeeping, PTL DEF Spec, RetryWaits

-----------------------------------------------------------------------------
(* A running row is being processed, unless a crash or a failed statement  *)
(* has orphaned it.                                                        *)
LEMMA HeldStep ==
  ASSUME Inductive, Inductive', RunningIsHeld, [Next]_vars
  PROVE  RunningIsHeld'
<1> SUFFICES ASSUME NEW i \in present', queue'[i].status = "running", ~(faults' > 0)
             PROVE  \E q \in Processors : cur'[q] = i /\ pc'[q] \in {"sending", "report"}
  BY DEF RunningIsHeld
<1> USE DEF table, life, work, history
<1>1. TypeOK /\ TypeOK' /\ i \in Jobs /\ nextId \in Int
  <2>1. TypeOK /\ TypeOK'
    BY DEF Inductive
  <2>2. present' \subseteq Jobs /\ nextId \in Int
    BY <2>1 DEF TypeOK
  <2> QED
    BY <2>1, <2>2
<1>2. faults = 0 /\ faults' = 0
  <2>1. faults \in Nat /\ faults' \in Nat
    BY <1>1, QueueAssumption DEF TypeOK
  <2>2. faults' = faults \/ faults' = faults + 1
    BY DEF Next, Owner, Environment, Step, Trouble, vars, Add, DeleteJob,
       CleanupCompletedJobs, Start, Stop, Cancel, ProcessExit, Elapse, Exit, FetchBatch,
       MarkRunning, MarkRunningFails, NotifyAll, Report, ReportFails
  <2> QED
    BY <2>1, <2>2
<1> DEFINE Held == \E q \in Processors : cur[q] = i /\ pc[q] \in {"sending", "report"}
           HeldNext == \E q \in Processors : cur'[q] = i /\ pc'[q] \in {"sending", "report"}
<1>3. ASSUME i \in present, queue[i].status = "running" PROVE Held
  BY <1>2, <1>3 DEF RunningIsHeld
<1>4. ASSUME NEW r \in Requests, Add(r) PROVE HeldNext
  <2>1. i # nextId
    BY <1>1, <1>4 DEF Add, NewRow, TypeOK
  <2> QED
    BY <1>1, <1>3, <1>4, <2>1 DEF Add, TypeOK
<1>5. ASSUME NEW j \in Jobs, Elapse(j) PROVE HeldNext
  BY <1>1, <1>3, <1>5 DEF Elapse, TypeOK, Row
<1>6. ASSUME NEW p \in Processors, NEW j \in Jobs, MarkRunning(p, j) PROVE HeldNext
  <2>1. CASE i = j
    BY <1>1, <1>6, <2>1 DEF MarkRunning, TypeOK
  <2>2. CASE i # j
    BY <1>1, <1>3, <1>6, <2>2, OtherRows DEF MarkRunning, TypeOK, Inductive, GoroutineShape
  <2> QED
    BY <2>1, <2>2
<1>7. ASSUME NEW p \in Processors, NEW j \in Jobs, Report(p, j) PROVE HeldNext
  <2>1. i # j
    <3>1. CASE i = j
      <4>1. queue'[j] = Reported(p, j) /\ queue[j] \in Row
        BY <1>1, <1>7, <3>1 DEF Report, SetRow, TypeOK
      <4> QED
        BY <4>1, <3>1 DEF Reported, Completed, Failed, Retrying, Row
    <3> QED
      BY <3>1
  <2> QED
    BY <1>1, <1>3, <1>7, <2>1, OtherRows DEF Report, FinishJob, TypeOK
<1>8. ASSUME NEW p \in Processors, NEW j \in Jobs, NotifyAll(p, j) PROVE HeldNext
  BY <1>1, <1>3, <1>8 DEF NotifyAll, TypeOK
<1>9. ASSUME NEW p \in Processors, Start(p) \/ Exit(p) \/ FetchBatch(p) PROVE HeldNext
  BY <1>1, <1>3, <1>9 DEF Start, Exit, FetchBatch, TypeOK
<1>10. CASE UNCHANGED <<queue, cur, pc>> /\ present' \subseteq present
  BY <1>3, <1>10
<1>11. CASE \/ \E j \in Jobs : DeleteJob(j)
            \/ CleanupCompletedJobs \/ Stop \/ \E p \in Processors : Cancel(p)
  BY <1>10, <1>11 DEF DeleteJob, CleanupCompletedJobs, Stop, Cancel
<1>12. ~ProcessExit /\ \A p \in Processors, j \in Jobs :
         ~MarkRunningFails(p, j) /\ ~ReportFails(p, j)
  BY <1>2 DEF ProcessExit, MarkRunningFails, ReportFails
<1> QED
  BY <1>4, <1>5, <1>6, <1>7, <1>8, <1>9, <1>10, <1>11, <1>12
     DEF Next, Owner, Environment, Step, Trouble, vars

(* A row that says running is being processed, unless a fault orphaned     *)
(* it.                                                                     *)
THEOREM RunningHeld == ~Overlap => (Spec => []RunningIsHeld)
<1> SUFFICES ASSUME ~Overlap PROVE Spec => []RunningIsHeld
  OBVIOUS
<1>1. Init => RunningIsHeld
  BY DEF Init, RunningIsHeld
<1>2. Inductive /\ RunningIsHeld /\ [Next]_vars => RunningIsHeld'
  BY StepInductive, HeldStep
<1> QED
  BY <1>1, <1>2, Bookkeeping, PTL DEF Spec

-----------------------------------------------------------------------------
(* The order of first attempts.  A row that was never tried is due until a *)
(* goroutine holds it, so the batch a job is in has every older row of at  *)
(* least its priority that has not been tried, and serves it first.        *)
Ahead(i, j) == i < j /\ queue[i].priority >= queue[j].priority

UntriedIsDue ==
  \A i \in present :
    attempts[i] = 0 => queue[i].status \in {"pending", "running"} /\ queue[i].wait = 0

BatchIsComplete ==
  faults = 0 =>
    \A p \in Processors : \A j \in batch[p], i \in present :
      Ahead(i, j) => attempts[i] > 0 \/ i \in batch[p]

CurrentIsFirst ==
  \A p \in Processors :
    pc[p] \in {"sending", "report"} => \A i \in batch[p] \ {cur[p]} : Before(cur[p], i)

InOrder == UntriedIsDue /\ BatchIsComplete /\ CurrentIsFirst /\ FirstAttemptsInOrder

(* What the order compares are integers.                                   *)
LEMMA OrderType ==
  ASSUME TypeOK, NEW i \in Jobs
  PROVE  queue[i].priority \in Int /\ i \in Int
<1>1. queue[i] \in Row /\ i \in Int
  BY QueueAssumption DEF TypeOK, Jobs
<1> QED
  BY <1>1 DEF Row

(* The one that is ahead comes first.                                      *)
LEMMA AheadIsBefore ==
  ASSUME TypeOK, NEW i \in Jobs, NEW j \in Jobs, Ahead(i, j)
  PROVE  Before(i, j) /\ ~Before(j, i)
<1>1. queue[i].priority \in Int /\ queue[j].priority \in Int /\ i \in Int /\ j \in Int
  BY OrderType
<1> QED
  BY <1>1 DEF Ahead, Before

(* Nothing that is due is left behind by GetPendingJobs for something it   *)
(* is ahead of: fewer rows come before it.                                 *)
LEMMA PendingIsUpward ==
  ASSUME TypeOK, NEW j \in GetPendingJobs(BatchLimit), NEW i \in Due, Ahead(i, j)
  PROVE  i \in GetPendingJobs(BatchLimit)
<1> DEFINE First(k) == {x \in Due : Before(x, k)}
<1>1. j \in Due /\ Cardinality(First(j)) < BatchLimit
  BY Zenon DEF GetPendingJobs
<1>2. Due \subseteq Jobs
  BY DEF Due, TypeOK
<1>3. IsFiniteSet(Jobs)
  BY QueueAssumption, FS_Interval DEF Jobs
<1>4. First(j) \in SUBSET Jobs
  BY <1>2
<1>5. IsFiniteSet(First(j)) /\ Cardinality(First(j)) \in Nat
  BY <1>3, <1>4, FS_Subset, FS_CardinalityType
<1>6. First(i) \in SUBSET First(j)
  <2> SUFFICES ASSUME NEW x \in Due, Before(x, i) PROVE Before(x, j)
    OBVIOUS
  <2>1. /\ queue[x].priority \in Int /\ queue[i].priority \in Int /\ queue[j].priority \in Int
        /\ x \in Int /\ i \in Int /\ j \in Int
    BY <1>1, <1>2, OrderType
  <2> QED
    BY <2>1 DEF Before, Ahead
<1>7. IsFiniteSet(First(i)) /\ Cardinality(First(i)) <= Cardinality(First(j))
  BY <1>5, <1>6, FS_Subset
<1>8. Cardinality(First(i)) \in Nat /\ BatchLimit \in Int
  BY <1>7, FS_CardinalityType, QueueAssumption
<1>9. Cardinality(First(i)) < BatchLimit
  BY <1>1, <1>5, <1>7, <1>8
<1> QED
  BY <1>9, Zenon DEF GetPendingJobs

(* Steps that try nothing and start nothing, and that take a job from a    *)
(* batch only after trying it, or by a fault.                              *)
LEMMA OrderFrame ==
  ASSUME Inductive, TypeOK', InOrder, present' \subseteq present, attempts' = attempts,
         \A i \in Jobs : queue'[i].priority = queue[i].priority,
         \A i \in present' : attempts[i] = 0 =>
           /\ queue'[i].wait = 0
           /\ queue'[i].status = queue[i].status \/ queue'[i].status = "running",
         \A p \in Processors : batch'[p] \subseteq batch[p],
         faults' = 0 => faults = 0 /\
           \A p \in Processors, i \in Jobs : i \in batch[p] \ batch'[p] => attempts[i] > 0,
         \A p \in Processors :
           pc'[p] \in {"sending", "report"} =>
             pc[p] \in {"sending", "report"} /\ cur'[p] = cur[p]
  PROVE  InOrder'
<1>1. present \subseteq Jobs /\ \A p \in Processors : batch[p] \subseteq Jobs
  BY DEF Inductive, TypeOK
<1>2. \A i, j \in Jobs : (Ahead(i, j)' <=> Ahead(i, j)) /\ (Before(i, j)' <=> Before(i, j))
  BY DEF Ahead, Before
<1>3. UntriedIsDue'
  BY DEF InOrder, UntriedIsDue
<1>4. BatchIsComplete'
  <2> SUFFICES ASSUME faults' = 0, NEW p \in Processors, NEW j \in batch'[p], NEW i \in present',
                      Ahead(i, j)'
               PROVE  attempts'[i] > 0 \/ i \in batch'[p]
    BY DEF BatchIsComplete
  <2>1. i \in Jobs /\ j \in Jobs /\ i \in present /\ j \in batch[p]
    BY <1>1
  <2>2. attempts[i] > 0 \/ i \in batch[p]
    BY <1>2, <2>1 DEF InOrder, BatchIsComplete
  <2> QED
    BY <2>1, <2>2
<1>5. CurrentIsFirst'
  <2> SUFFICES ASSUME NEW p \in Processors, pc'[p] \in {"sending", "report"},
                      NEW i \in batch'[p] \ {cur'[p]}
               PROVE  Before(cur[p], i)'
    BY DEF CurrentIsFirst
  <2>1. pc[p] \in {"sending", "report"} /\ cur'[p] = cur[p] /\ i \in batch[p] \ {cur[p]}
    OBVIOUS
  <2>2. i \in Jobs /\ cur[p] \in Jobs
    BY <1>1, <2>1 DEF Inductive, GoroutineShape
  <2>3. Before(cur[p], i)
    BY <2>1 DEF InOrder, CurrentIsFirst
  <2> QED
    BY <2>1, <2>2, <2>3 DEF Before
<1>6. FirstAttemptsInOrder'
  <2> SUFFICES ASSUME NEW i \in present', NEW j \in present', Ahead(i, j)', attempts'[j] > 0
               PROVE  attempts'[i] > 0 \/ faults' > 0
    BY DEF FirstAttemptsInOrder, Ahead
  <2>1. attempts[i] > 0 \/ faults > 0
    BY <1>1, <1>2 DEF InOrder, FirstAttemptsInOrder, Ahead
  <2>2. faults > 0 => faults' > 0
    BY QueueAssumption DEF Inductive, TypeOK
  <2> QED
    BY <2>1, <2>2
<1> QED
  BY <1>3, <1>4, <1>5, <1>6 DEF InOrder

(* The priority of a row that exists never changes.                        *)
LEMMA PriorityKept ==
  ASSUME TypeOK, NEW j \in Jobs, NEW row \in Row, row.priority = queue[j].priority
  PROVE  \A i \in Jobs : SetRow(j, row)[i].priority = queue[i].priority
BY DEF SetRow, TypeOK

(* What processQueuedJob writes keeps it, and a reported row was tried.    *)
LEMMA RowsKeepPriority ==
  ASSUME NEW row \in Row
  PROVE  /\ MarkedRunning(row).priority = row.priority /\ MarkedRunning(row).wait = row.wait
         /\ MarkedRunning(row).status = "running"
         /\ Completed(row).priority = row.priority
         /\ Failed(row).priority = row.priority
         /\ Retrying(row).priority = row.priority
BY DEF MarkedRunning, Completed, Failed, Retrying, Row

(* A new row is behind all those there are.                                *)
LEMMA AddInOrder ==
  ASSUME Inductive, Inductive', InOrder, NEW r \in Requests, Add(r)
  PROVE  InOrder'
<1> USE DEF life, work, history
<1>1. /\ TypeOK /\ nextId \in Jobs /\ present' = present \cup {nextId}
      /\ UNCHANGED <<pc, batch, cur, faults, attempts>>
  BY DEF Inductive, Add
<1>2. \A i \in Jobs : i \in Int
  BY <1>1, OrderType
<1>3. \A i \in Jobs : i # nextId => queue'[i] = queue[i]
  BY <1>1 DEF Add, TypeOK
<1>4. \A i \in present : i < nextId /\ i \in Jobs /\ i # nextId
  BY <1>1, <1>2 DEF TypeOK
<1>5. \A p \in Processors : \A i \in batch[p] : i < nextId /\ i \in Jobs /\ i # nextId
  BY <1>1, <1>2 DEF Inductive, CopyIsCurrent, TypeOK
<1>6. attempts[nextId] = 0
  BY <1>1, <1>2 DEF Inductive, RowAgrees, Unsent
<1>7. UntriedIsDue'
  <2>1. queue'[nextId].status = "pending" /\ queue'[nextId].wait = 0
    BY <1>1 DEF Add, NewRow, TypeOK
  <2> QED
    BY <1>1, <1>3, <1>4, <2>1 DEF InOrder, UntriedIsDue
<1>8. ASSUME NEW i \in present', NEW j \in Jobs, j < nextId, Ahead(i, j)'
      PROVE  i \in present /\ Ahead(i, j)
  <2>1. i # nextId
    BY <1>1, <1>2, <1>8 DEF Ahead
  <2> QED
    BY <1>1, <1>2, <1>3, <1>4, <1>8, <2>1 DEF Ahead
<1>9. BatchIsComplete'
  BY <1>1, <1>5, <1>8 DEF InOrder, BatchIsComplete
<1>10. CurrentIsFirst'
  <2> SUFFICES ASSUME NEW p \in Processors, pc[p] \in {"sending", "report"},
                      NEW i \in batch[p] \ {cur[p]}
               PROVE  Before(cur[p], i)'
    BY <1>1 DEF CurrentIsFirst
  <2>1. Before(cur[p], i) /\ cur[p] \in batch[p]
    BY DEF InOrder, CurrentIsFirst, Inductive, GoroutineShape
  <2> QED
    BY <1>1, <1>3, <1>5, <2>1 DEF Before
<1>11. FirstAttemptsInOrder'
  <2> SUFFICES ASSUME NEW i \in present', NEW j \in present', Ahead(i, j)', attempts'[j] > 0
               PROVE  attempts'[i] > 0 \/ faults' > 0
    BY DEF FirstAttemptsInOrder, Ahead
  <2>1. j \in present /\ j < nextId /\ j \in Jobs
    BY <1>1, <1>4, <1>6
  <2>2. i \in present /\ Ahead(i, j)
    BY <1>8, <2>1
  <2> QED
    BY <1>1, <2>1, <2>2 DEF InOrder, FirstAttemptsInOrder, Ahead
<1> QED
  BY <1>7, <1>9, <1>10, <1>11 DEF InOrder

(* A batch leaves no untried row behind that is ahead of one it has.       *)
LEMMA FetchInOrder ==
  ASSUME Inductive, RunningIsHeld, InOrder, NEW p \in Processors, FetchBatch(p)
  PROVE  InOrder'
<1> USE DEF table, life, history
<1> DEFINE new == GetPendingJobs(BatchLimit)
<1>1. TypeOK /\ pc[p] = "idle" /\ UNCHANGED <<queue, present, cur, faults, attempts>>
  BY DEF Inductive, FetchBatch
<1>2. /\ batch'[p] = new /\ pc'[p] = "batch" /\ new \subseteq Due /\ new \subseteq Jobs
      /\ \A q \in Processors : q # p => batch'[q] = batch[q] /\ pc'[q] = pc[q]
  BY <1>1 DEF FetchBatch, TypeOK, GetPendingJobs, Due
<1>3. \A q \in Processors : q # p => pc[q] = "off" /\ batch[q] = {}
  BY <1>1, OthersAreOff
<1>4. ASSUME faults = 0, NEW i \in present, attempts[i] = 0 PROVE i \in Due
  <2>1. queue[i].status \in {"pending", "running"} /\ queue[i].wait = 0
    BY <1>4 DEF InOrder, UntriedIsDue
  <2>2. queue[i].status # "running"
    BY <1>1, <1>3, <1>4 DEF RunningIsHeld
  <2> QED
    BY <2>1, <2>2 DEF Due
<1>5. BatchIsComplete'
  <2> SUFFICES ASSUME faults = 0, NEW q \in Processors, NEW j \in batch'[q], NEW i \in present,
                      Ahead(i, j)'
               PROVE  attempts[i] > 0 \/ i \in batch'[q]
    BY <1>1 DEF BatchIsComplete
  <2>1. q = p /\ j \in new /\ Ahead(i, j)
    BY <1>1, <1>2, <1>3 DEF Ahead
  <2>2. attempts[i] \in Nat
    BY <1>1 DEF TypeOK
  <2>3. CASE attempts[i] = 0
    BY <1>1, <1>2, <1>4, <2>1, <2>3, PendingIsUpward
  <2> QED
    BY <2>2, <2>3
<1>6. CurrentIsFirst'
  BY <1>1, <1>2, <1>3 DEF CurrentIsFirst
<1>7. UntriedIsDue' /\ FirstAttemptsInOrder'
  BY <1>1 DEF InOrder, UntriedIsDue, FirstAttemptsInOrder
<1> QED
  BY <1>5, <1>6, <1>7 DEF InOrder

(* The job that is served is the first of the batch.                       *)
LEMMA MarkInOrder ==
  ASSUME Inductive, InOrder, NEW p \in Processors, NEW j \in Jobs, MarkRunning(p, j)
  PROVE  InOrder'
<1> USE DEF life, history
<1>1. /\ TypeOK /\ pc[p] = "batch" /\ j \in batch[p] /\ queue[j] \in Row
      /\ UNCHANGED <<present, batch, faults, attempts>>
  BY DEF Inductive, TypeOK, MarkRunning, IsNext
<1>2. /\ pc'[p] = "sending" /\ cur'[p] = j
      /\ \A q \in Processors : q # p => pc[q] = "off" /\ pc'[q] = "off"
  BY <1>1, OthersAreOff DEF MarkRunning, TypeOK
<1>3. \A i \in Jobs : queue'[i].priority = queue[i].priority
  BY <1>1, PriorityKept, RowsKeepPriority, RowTypes DEF MarkRunning
<1>4. \A i, k \in Jobs : (Ahead(i, k)' <=> Ahead(i, k)) /\ (Before(i, k)' <=> Before(i, k))
  BY <1>3 DEF Ahead, Before
<1>5. \A i \in Jobs :
        \/ queue'[i] = queue[i]
        \/ queue'[i].status = "running" /\ queue'[i].wait = queue[i].wait
  BY <1>1, RowsKeepPriority DEF MarkRunning, SetRow, TypeOK
<1>6. present \subseteq Jobs /\ \A q \in Processors : batch[q] \subseteq Jobs
  BY <1>1 DEF TypeOK
<1>7. UntriedIsDue'
  BY <1>1, <1>5, <1>6 DEF InOrder, UntriedIsDue
<1>8. BatchIsComplete'
  BY <1>1, <1>4, <1>6 DEF InOrder, BatchIsComplete
<1>9. CurrentIsFirst'
  <2>1. \A i \in batch[p] \ {j} : Before(j, i)'
    BY <1>1, <1>4, <1>6 DEF MarkRunning, IsNext
  <2> QED
    BY <1>1, <1>2, <2>1 DEF CurrentIsFirst
<1>10. FirstAttemptsInOrder'
  BY <1>1, <1>3, <1>6 DEF InOrder, FirstAttemptsInOrder
<1> QED
  BY <1>7, <1>8, <1>9, <1>10 DEF InOrder

(* So whatever is ahead of the job being sent has been tried.              *)
LEMMA NotifyInOrder ==
  ASSUME Inductive, Inductive', InOrder, NEW p \in Processors, NEW j \in Jobs, NotifyAll(p, j)
  PROVE  InOrder'
<1> USE DEF table, life
<1>1. /\ TypeOK /\ pc[p] = "sending" /\ cur[p] = j /\ j \in batch[p]
      /\ UNCHANGED <<queue, present, batch, cur, faults>>
      /\ attempts' = [attempts EXCEPT ![j] = @ + 1]
  BY DEF Inductive, NotifyAll, GoroutineShape
<1>2. /\ present \subseteq Jobs /\ attempts'[j] > 0
      /\ \A i \in Jobs : attempts[i] \in Nat /\ (attempts[i] > 0 => attempts'[i] > 0)
      /\ \A i \in Jobs : i # j => attempts'[i] = attempts[i]
  BY <1>1 DEF TypeOK
<1>3. UntriedIsDue'
  BY <1>1, <1>2 DEF InOrder, UntriedIsDue
<1>4. BatchIsComplete'
  BY <1>1, <1>2 DEF InOrder, BatchIsComplete, Ahead
<1>5. CurrentIsFirst'
  <2>1. \A q \in Processors : pc'[q] \in {"sending", "report"} => pc[q] \in {"sending", "report"}
    BY <1>1 DEF NotifyAll, TypeOK
  <2> QED
    BY <1>1, <2>1 DEF InOrder, CurrentIsFirst, Before
<1>6. FirstAttemptsInOrder'
  <2> SUFFICES ASSUME NEW i \in present, NEW k \in present, Ahead(i, k), attempts'[k] > 0
               PROVE  attempts'[i] > 0 \/ faults > 0
    BY <1>1 DEF FirstAttemptsInOrder, Ahead
  <2>1. CASE k # j
    BY <1>2, <2>1 DEF InOrder, FirstAttemptsInOrder, Ahead
  <2>2. CASE k = j /\ faults = 0
    <3>1. attempts[i] > 0 \/ i \in batch[p]
      BY <1>1, <2>2 DEF InOrder, BatchIsComplete
    <3>2. ~Before(j, i)
      BY <1>1, <1>2, <2>2, AheadIsBefore
    <3>3. i \in batch[p] => i = j
      BY <1>1, <3>2 DEF InOrder, CurrentIsFirst
    <3> QED
      BY <1>2, <3>1, <3>3
  <2>3. faults = 0 \/ faults > 0
    BY <1>1, QueueAssumption DEF TypeOK
  <2> QED
    BY <2>1, <2>2, <2>3
<1> QED
  BY <1>3, <1>4, <1>5, <1>6 DEF InOrder

(* A job leaves its batch after an attempt, or by a fault.                 *)
LEMMA FinishInOrder ==
  ASSUME Inductive, Inductive', InOrder, NEW p \in Processors, NEW j \in Jobs,
         \/ Report(p, j) \/ ReportFails(p, j) \/ MarkRunningFails(p, j)
  PROVE  InOrder'
<1> USE DEF table, life, history
<1>1. TypeOK /\ TypeOK' /\ FinishJob(p, j) /\ UNCHANGED <<present, attempts>> /\ queue[j] \in Row
  BY DEF Inductive, TypeOK, Report, ReportFails, MarkRunningFails
<1>2. Report(p, j) => attempts[j] > 0
  <2>1. ASSUME Report(p, j) PROVE attempts[j] > 0
    <3>1. SentTo(j, ok[p])
      BY <2>1 DEF Inductive, CurrentJob, Report
    <3>2. Retried(j) \in Nat
      BY <1>1 DEF Inductive, RowAgrees, Retried, Row
    <3> QED
      BY <3>1, <3>2 DEF SentTo
  <2> QED
    BY <2>1
<1>3. faults' = 0 => Report(p, j) /\ faults = 0
  BY <1>1, QueueAssumption DEF TypeOK, Report, ReportFails, MarkRunningFails
<1>4. \A i \in Jobs : queue'[i].priority = queue[i].priority
  <2>1. ASSUME Report(p, j) PROVE \A i \in Jobs : queue'[i].priority = queue[i].priority
    <3>1. Reported(p, j) \in Row /\ Reported(p, j).priority = queue[j].priority
      BY <1>1, ReportedType, RowsKeepPriority DEF Reported, TypeOK
    <3> QED
      BY <1>1, <2>1, <3>1, PriorityKept DEF Report
  <2> QED
    BY <2>1 DEF ReportFails, MarkRunningFails
<1>5. ASSUME NEW i \in present', attempts[i] = 0
      PROVE  queue'[i].wait = 0 /\ queue'[i].status = queue[i].status
  <2>1. i \in Jobs /\ i \in present /\ queue[i].wait = 0
    BY <1>1, <1>5 DEF TypeOK, InOrder, UntriedIsDue
  <2>2. Report(p, j) => i # j
    BY <1>2, <1>5
  <2> QED
    BY <1>1, <2>1, <2>2, OtherRows DEF Report, ReportFails, MarkRunningFails
<1>6. /\ \A q \in Processors : batch'[q] \subseteq batch[q]
      /\ \A q \in Processors, i \in Jobs : i \in batch[q] \ batch'[q] => i = j
      /\ \A q \in Processors :
           pc'[q] \in {"sending", "report"} => pc[q] \in {"sending", "report"} /\ cur'[q] = cur[q]
  BY <1>1 DEF FinishJob, TypeOK
<1> QED
  BY <1>1, <1>2, <1>3, <1>4, <1>5, <1>6, OrderFrame

(* Every step keeps the order.                                             *)
LEMMA OrderStep ==
  ASSUME Inductive, Inductive', RunningIsHeld, InOrder, [Next]_vars
  PROVE  InOrder'
<1> USE DEF table, life, work, history
<1>1. TypeOK /\ TypeOK' /\ \A i \in present : attempts[i] = 0 => queue[i].wait = 0
  BY DEF Inductive, InOrder, UntriedIsDue
<1>2. ASSUME UNCHANGED <<queue, attempts, batch>>, present' \subseteq present, faults' = 0 => faults = 0,
             \A p \in Processors :
               pc'[p] \in {"sending", "report"} =>
                 pc[p] \in {"sending", "report"} /\ cur'[p] = cur[p]
      PROVE  InOrder'
  BY <1>1, <1>2, OrderFrame
<1>3. CASE \/ \E j \in Jobs : DeleteJob(j)
           \/ CleanupCompletedJobs \/ Stop \/ UNCHANGED vars
           \/ \E p \in Processors : Start(p) \/ Cancel(p) \/ Exit(p)
  BY <1>1, <1>2, <1>3
     DEF DeleteJob, CleanupCompletedJobs, Start, Stop, Cancel, Exit, vars, TypeOK
<1>4. CASE ProcessExit
  <2>1. /\ faults' # 0 /\ UNCHANGED <<queue, present, attempts>>
        /\ \A p \in Processors : batch'[p] = {} /\ pc'[p] = "off"
    BY <1>1, <1>4, QueueAssumption DEF ProcessExit, TypeOK
  <2> QED
    BY <1>1, <2>1, OrderFrame
<1>5. ASSUME NEW j \in Jobs, Elapse(j) PROVE InOrder'
  <2>1. \A i \in Jobs : queue'[i].priority = queue[i].priority /\ queue'[i].status = queue[i].status
    BY <1>1, <1>5 DEF Elapse, TypeOK, Row
  <2>2. \A i \in Jobs : queue[i].wait = 0 => queue'[i] = queue[i]
    BY <1>1, <1>5 DEF Elapse, TypeOK
  <2>3. present \subseteq Jobs /\ UNCHANGED <<present, attempts, batch, faults, pc, cur>>
    BY <1>1, <1>5 DEF Elapse, TypeOK
  <2> QED
    BY <1>1, <2>1, <2>2, <2>3, OrderFrame
<1>6. ASSUME NEW p \in Processors, Step(p) PROVE InOrder'
  BY <1>6, FetchInOrder, MarkInOrder, NotifyInOrder, FinishInOrder DEF Step
<1>7. ASSUME NEW p \in Processors, NEW j \in Jobs, MarkRunningFails(p, j) \/ ReportFails(p, j)
      PROVE  InOrder'
  BY <1>7, FinishInOrder
<1>8. ASSUME NEW r \in Requests, Add(r) PROVE InOrder'
  BY <1>8, AddInOrder
<1> QED
  BY <1>3, <1>4, <1>5, <1>6, <1>7, <1>8 DEF Next, Owner, Environment, Trouble

(* Of two rows where the older has at least the newer's priority, the      *)
(* older is attempted first, unless it was deleted or a fault skipped it.  *)
THEOREM OlderFirst == ~Overlap => (Spec => []FirstAttemptsInOrder)
<1> SUFFICES ASSUME ~Overlap PROVE Spec => []FirstAttemptsInOrder
  OBVIOUS
<1>1. Init => InOrder
  BY DEF Init, InOrder, UntriedIsDue, BatchIsComplete, CurrentIsFirst, FirstAttemptsInOrder
<1>2. Inductive /\ RunningIsHeld /\ InOrder /\ [Next]_vars => InOrder'
  BY StepInductive, OrderStep
<1>3. InOrder => FirstAttemptsInOrder
  BY DEF InOrder
<1> QED
  BY <1>1, <1>2, <1>3, Bookkeeping, RunningHeld, PTL DEF Spec

-----------------------------------------------------------------------------
(* The queue implements DeliveryContract.                                  *)

(* A job whose row, columns and history stay as they are in what the       *)
(* contract sees of them is a job the contract sees unchanged.             *)
LEMMA SameToContract ==
  ASSUME NEW j \in Jobs, attempts'[j] = attempts[j], confirmed'[j] = confirmed[j],
         queue'[j].maxRetries = queue[j].maxRetries, queue'[j].services = queue[j].services,
         queue'[j].asked = queue[j].asked,
         nextId \in Int, nextId' \in Int, j >= nextId' <=> j >= nextId,
         \/ queue'[j].status = queue[j].status
         \/ queue'[j].status \notin Decided /\ queue[j].status \notin Decided
  PROVE  /\ Verdict(j)' = Verdict(j) /\ Usable(j)' = Usable(j)
         /\ Budget(j)' = Budget(j) /\ Confirmed(j)' = Confirmed(j)
<1>1. Usable(j)' = Usable(j) /\ Budget(j)' = Budget(j) /\ Confirmed(j)' = Confirmed(j)
  BY DEF Usable, Budget, Confirmed
<1> USE DEF Jobs
<1>2. CASE j >= nextId
  BY <1>1, <1>2 DEF Verdict
<1>3. CASE ~(j >= nextId)
  <2>1. CASE queue'[j].status = queue[j].status
    BY <1>1, <1>3, <2>1 DEF Verdict
  <2>2. CASE queue'[j].status \notin Decided /\ queue[j].status \notin Decided
    BY <1>1, <1>3, <2>2 DEF Verdict
  <2> QED
    BY <2>1, <2>2
<1> QED
  BY <1>1, <1>2, <1>3

(* A step the contract sees nothing of.                                    *)
LEMMA ContractStutter ==
  ASSUME attempts' = attempts, confirmed' = confirmed, nextId' = nextId, nextId \in Int,
         \A j \in Jobs :
           /\ queue'[j].maxRetries = queue[j].maxRetries /\ queue'[j].asked = queue[j].asked
           /\ queue'[j].services = queue[j].services
           /\ \/ queue'[j].status = queue[j].status
              \/ queue'[j].status \notin Decided /\ queue[j].status \notin Decided
  PROVE  UNCHANGED Contract!vars
<1>1. ASSUME NEW j \in Jobs
      PROVE  /\ Verdict(j)' = Verdict(j) /\ Usable(j)' = Usable(j)
             /\ Budget(j)' = Budget(j) /\ Confirmed(j)' = Confirmed(j)
  BY SameToContract
<1> QED
  BY <1>1 DEF Contract!vars

(* Add is the Accept of the contract.                                      *)
LEMMA AddAccepts ==
  ASSUME Inductive, NEW r \in Requests, Add(r)
  PROVE  Contract!Accept(nextId)
<1> USE DEF history
<1>0. TypeOK /\ nextId \in Jobs /\ nextId \in Int /\ Jobs \subseteq Int
  BY DEF Inductive, Add, Jobs
<1>1. /\ queue' = [queue EXCEPT ![nextId] = NewRow(r)] /\ nextId' = nextId + 1
      /\ attempts' = attempts /\ confirmed' = confirmed
  BY DEF Add
<1>2. NewRow(r) \in Row /\ NewRow(r).status = "pending"
  BY NewRowType DEF NewRow
<1>3. ASSUME NEW j \in Jobs, j # nextId
      PROVE  Verdict(j)' = Verdict(j) /\ Usable(j)' = Usable(j) /\ Budget(j)' = Budget(j)
  BY <1>0, <1>1, <1>3, SameToContract DEF TypeOK
<1>4. Verdict(nextId) = "none"
  BY <1>0 DEF Verdict
<1>5. [j \in Jobs |-> Verdict(j)]' = [[j \in Jobs |-> Verdict(j)] EXCEPT ![nextId] = "open"]
  <2>1. \A j \in Jobs : j = nextId => Verdict(j)' = "open"
    BY <1>0, <1>1, <1>2 DEF Verdict, TypeOK, Decided
  <2> QED
    BY <1>3, <2>1
<1>6. \A j \in Jobs : j = nextId => Usable(j)' \subseteq Services /\ Budget(j)' \in Nat \ {0}
  BY <1>0, <1>1, <1>2 DEF Usable, Budget, TypeOK, Row
<1>7. [j \in Jobs |-> Usable(j)]' =
        [[j \in Jobs |-> Usable(j)] EXCEPT ![nextId] = [j \in Jobs |-> Usable(j)]'[nextId]]
  BY <1>0, <1>3
<1>8. [j \in Jobs |-> Budget(j)]' =
        [[j \in Jobs |-> Budget(j)] EXCEPT ![nextId] = [j \in Jobs |-> Budget(j)]'[nextId]]
  BY <1>0, <1>3
<1>9. UNCHANGED <<attempts, [j \in Jobs |-> Confirmed(j)]>>
  BY <1>1 DEF Confirmed
<1> QED
  BY <1>0, <1>4, <1>5, <1>6, <1>7, <1>8, <1>9 DEF Contract!Accept

(* NotifyAll is its Try.                                                   *)
LEMMA NotifyTries ==
  ASSUME Inductive, NEW p \in Processors, NEW j \in Jobs, NotifyAll(p, j)
  PROVE  Contract!Try(j)
<1>1. /\ TypeOK /\ Unsent(j) /\ queue[j].status \notin Decided /\ j < nextId
      /\ Retried(j) < Budget(j) /\ nextId \in Int /\ j \in Int
  <2>1. TypeOK /\ CurrentJob(p) /\ RowAgrees(j)
    BY DEF Inductive
  <2>2. nextId \in Int /\ j \in Int
    BY <2>1 DEF TypeOK, Jobs
  <2>3. Unsent(j) /\ Retried(j) < Budget(j)
    BY <2>1 DEF CurrentJob, RowAgrees, NotifyAll
  <2> QED
    BY <2>1, <2>2, <2>3, Writers
<1>2. /\ UNCHANGED <<queue, nextId>> /\ attempts' = [attempts EXCEPT ![j] = @ + 1]
  BY DEF NotifyAll, table
<1>3. PICK got \in SUBSET Usable(j) :
        confirmed' = [confirmed EXCEPT ![j] =
                        [s \in Services |-> IF s \in got THEN @[s] + 1 ELSE @[s]]]
  BY DEF NotifyAll
<1>4. Verdict(j) = "open" /\ Confirmed(j) = {} /\ attempts[j] < Budget(j)
  BY <1>1 DEF Verdict, Unsent, Confirmed
<1>5. \A i \in Jobs : i # j => Confirmed(i)' = Confirmed(i)
  BY <1>1, <1>3 DEF TypeOK, Confirmed
<1>6. Confirmed(j)' = got
  <2>1. got \subseteq Services
    BY <1>1 DEF Usable, TypeOK, Row
  <2>2. ASSUME NEW s \in Services PROVE confirmed'[j][s] = IF s \in got THEN 1 ELSE 0
    BY <1>1, <1>3 DEF TypeOK, Unsent
  <2> QED
    BY <2>1, <2>2 DEF Confirmed
<1>7. [i \in Jobs |-> Confirmed(i)]' = [[i \in Jobs |-> Confirmed(i)] EXCEPT ![j] = got]
  BY <1>5, <1>6
<1>8. /\ UNCHANGED <<[i \in Jobs |-> Verdict(i)], [i \in Jobs |-> Usable(i)],
                     [i \in Jobs |-> Budget(i)]>>
  BY <1>2 DEF Verdict, Usable, Budget
<1> QED
  BY <1>2, <1>4, <1>7, <1>8 DEF Contract!Try

(* The last UPDATE is its Complete, its GiveUp or, for a retry, no step.   *)
LEMMA ReportDecides ==
  ASSUME Inductive, NEW p \in Processors, NEW j \in Jobs, Report(p, j)
  PROVE  Contract!Complete(j) \/ Contract!GiveUp(j) \/ UNCHANGED Contract!vars
<1>1. /\ TypeOK /\ queue[j].status \notin Decided /\ j < nextId /\ nextId \in Int
      /\ queue[j] \in Row /\ j \in Int
  <2>1. TypeOK
    BY DEF Inductive
  <2>2. nextId \in Int /\ j \in Int /\ queue[j] \in Row
    BY <2>1 DEF TypeOK, Jobs
  <2> QED
    BY <2>1, <2>2, Writers
<1>2. /\ SentTo(j, ok[p]) /\ ok[p] \subseteq Usable(j) /\ seen[p][j] = queue[j].retryCount
      /\ Retried(j) >= 0 /\ Retried(j) < Budget(j) /\ Usable(j) \subseteq Services
  BY <1>1 DEF Inductive, CurrentJob, CopyIsCurrent, RowAgrees, GoroutineShape, Report, Row, Usable
<1>3. /\ attempts' = attempts /\ confirmed' = confirmed /\ nextId' = nextId
      /\ queue' = SetRow(j, Reported(p, j))
  BY DEF Report, history
<1>4. CASE j \notin present
  BY <1>1, <1>3, <1>4, ContractStutter DEF SetRow
<1>5. CASE j \in present
  <2>1. queue'[j] = Reported(p, j) /\ \A i \in Jobs : i # j => queue'[i] = queue[i]
    BY <1>1, <1>3, <1>5 DEF SetRow, TypeOK
  <2>2. /\ queue'[j].services = queue[j].services /\ queue'[j].maxRetries = queue[j].maxRetries
      /\ queue'[j].asked = queue[j].asked
    BY <1>1, <2>1 DEF Reported, Completed, Failed, Retrying, Row
  <2>3. UNCHANGED <<[i \in Jobs |-> Usable(i)], [i \in Jobs |-> Budget(i)],
                    [i \in Jobs |-> Confirmed(i)], attempts>>
    BY <1>3, <2>1, <2>2 DEF Usable, Budget, Confirmed
  <2>4. Confirmed(j) = ok[p]
    BY <1>2 DEF Confirmed, SentTo
  <2>5. ASSUME NEW v \in Decided, queue'[j].status = v
        PROVE  [i \in Jobs |-> Verdict(i)]' = [[i \in Jobs |-> Verdict(i)] EXCEPT ![j] = v]
    <3>1. Verdict(j)' = v
      BY <1>1, <1>3, <2>5 DEF Verdict
    <3>2. \A i \in Jobs : i # j => Verdict(i)' = Verdict(i)
      BY <1>3, <2>1 DEF Verdict
    <3> QED
      BY <3>1, <3>2
  <2>6. Verdict(j) = "open" /\ attempts[j] > 0
    BY <1>1, <1>2 DEF Verdict, SentTo, Retried, Row
  <2>7. CASE Succeeded(p, j)
    <3>1. queue'[j].status = "completed"
      BY <1>1, <2>1, <2>7 DEF Reported, Completed, Row
    <3>2. Confirmed(j) # {} \/ Usable(j) = {}
      BY <2>4, <2>7 DEF Succeeded
    <3> QED
      BY <2>3, <2>5, <2>6, <3>1, <3>2 DEF Contract!Complete, Decided
  <2>8. CASE ~Succeeded(p, j) /\ CanRetry(p, j)
    <3>1. queue'[j].status = "retrying"
      BY <1>1, <2>1, <2>8 DEF Reported, Retrying, Row
    <3> QED
      BY <1>1, <1>3, <2>1, <2>2, <3>1, ContractStutter DEF Decided
  <2>9. CASE ~Succeeded(p, j) /\ ~CanRetry(p, j)
    <3>1. queue'[j].status = "failed"
      BY <1>1, <2>1, <2>9 DEF Reported, Failed, Row
    <3>2. Confirmed(j) = {} /\ Usable(j) # {}
      BY <2>4, <2>9 DEF Succeeded
    <3>3. attempts[j] = Budget(j)
      BY <1>1, <1>2, <2>9 DEF CanRetry, Budget, Retried, SentTo, Row
    <3> QED
      BY <2>3, <2>5, <2>6, <3>1, <3>2, <3>3 DEF Contract!GiveUp, Decided
  <2> QED
    BY <2>7, <2>8, <2>9
<1> QED
  BY <1>4, <1>5

(* Every step of the queue is a step of the contract or none.              *)
LEMMA ContractStep ==
  ASSUME Inductive, [Next]_vars
  PROVE  [Contract!Next]_(Contract!vars)
<1>1. TypeOK /\ nextId \in Int
  BY DEF Inductive, TypeOK
<1>2. ASSUME NEW r \in Requests, Add(r) PROVE Contract!Next
  BY <1>2, AddAccepts DEF Contract!Next, Add
<1>3. ASSUME NEW p \in Processors, NEW j \in Jobs, NotifyAll(p, j) PROVE Contract!Next
  BY <1>3, NotifyTries DEF Contract!Next
<1>4. ASSUME NEW p \in Processors, NEW j \in Jobs, Report(p, j)
      PROVE  [Contract!Next]_(Contract!vars)
  BY <1>4, ReportDecides DEF Contract!Next
<1>5. ASSUME NEW j \in Jobs, Elapse(j) PROVE UNCHANGED Contract!vars
  <2>1. /\ attempts' = attempts /\ confirmed' = confirmed /\ nextId' = nextId
        /\ queue' = [queue EXCEPT ![j].wait = @ - 1]
    BY <1>5 DEF Elapse, history
  <2>2. \A i \in Jobs :
          /\ queue'[i].maxRetries = queue[i].maxRetries /\ queue'[i].asked = queue[i].asked
          /\ queue'[i].services = queue[i].services
          /\ queue'[i].status = queue[i].status
    BY <1>1, <2>1 DEF TypeOK, Row
  <2> QED
    BY <1>1, <2>1, <2>2, ContractStutter
<1>6. ASSUME NEW p \in Processors, NEW j \in Jobs, MarkRunning(p, j)
      PROVE  UNCHANGED Contract!vars
  <2>1. /\ attempts' = attempts /\ confirmed' = confirmed /\ nextId' = nextId
        /\ queue' = SetRow(j, MarkedRunning(queue[j])) /\ queue[j].status \notin Decided
    BY <1>6, Writers DEF MarkRunning, history
  <2>2. \A i \in Jobs : i # j => queue'[i] = queue[i]
    BY <1>1, <2>1, OtherRows
  <2>3. /\ queue'[j].maxRetries = queue[j].maxRetries /\ queue'[j].asked = queue[j].asked
        /\ queue'[j].services = queue[j].services
        /\ queue'[j].status \notin Decided
    BY <1>1, <2>1 DEF TypeOK, Row, SetRow, MarkedRunning, Decided
  <2> QED
    BY <1>1, <2>1, <2>2, <2>3, ContractStutter
<1>7. CASE UNCHANGED <<queue, nextId, attempts, confirmed>>
  BY <1>1, <1>7, ContractStutter
<1>8. CASE Owner \/ ProcessExit
  BY <1>2, <1>7, <1>8
     DEF Owner, DeleteJob, CleanupCompletedJobs, Start, Stop, Cancel, ProcessExit, table, history
<1>9. ASSUME NEW p \in Processors, Step(p) \/ Trouble(p)
      PROVE  [Contract!Next]_(Contract!vars)
  BY <1>3, <1>4, <1>6, <1>7, <1>9
     DEF Step, Trouble, FetchBatch, Exit, MarkRunningFails, ReportFails, table, history
<1> QED
  BY <1>5, <1>7, <1>8, <1>9 DEF Next, Environment, vars, table, history

(* Every job lives the life DeliveryContract promises: accepted once,      *)
(* tried within its budget until a service takes it, decided once.         *)
THEOREM QueueImplementsContract == ~Overlap => (Spec => ContractSpec)
<1> SUFFICES ASSUME ~Overlap PROVE Spec => ContractSpec
  OBVIOUS
<1>1. Init => Contract!Init
  <2> SUFFICES ASSUME Init PROVE Contract!Init
    OBVIOUS
  <2>1. \A j \in Jobs : Verdict(j) = "none" /\ Usable(j) = {} /\ Budget(j) = 1 /\ Confirmed(j) = {}
    BY DEF Init, BlankRow, Verdict, Usable, Budget, Confirmed, Jobs
  <2> QED
    BY <2>1 DEF Init, Contract!Init
<1>2. Inductive /\ [Next]_vars => [Contract!Next]_(Contract!vars)
  BY ContractStep
<1> QED
  BY <1>1, <1>2, Bookkeeping, PTL DEF Spec, ContractSpec, Contract!Spec
=============================================================================
