-------------------------- MODULE NotificationQueue --------------------------
(***************************************************************************)
(* The notification queue of apprise/scheduler_queue.go: the table         *)
(* notification_queue, the operations of NotificationQueue on it, and the  *)
(* processQueue goroutines that NotificationScheduler.Start spawns.        *)
(*                                                                         *)
(* Every SQL statement is one step (q.mu and SQLite make it atomic); what  *)
(* a goroutine does between two statements is interleaved with everything  *)
(* else.  A goroutine works on the copies GetPendingJobs returned: only    *)
(* retry_count can differ between a copy and its row, so `seen` keeps the  *)
(* copied counts and the immutable columns are read from the row, which    *)
(* keeps its contents after it is deleted.                                 *)
(***************************************************************************)
EXTENDS Integers, FiniteSets

CONSTANTS
  MaxJobs,     \* bound: how many rows AUTOINCREMENT numbers
  Services,    \* service URLs a job can name
  Unusable,    \* those of them Apprise.Add rejects
  Requests,    \* what callers of Add ask for
  BatchLimit,  \* rows per batch; 10 in processQueueBatch
  Processors,  \* bound: how many processQueue goroutines can exist at once
  Cancellable, \* those whose context is ever cancelled
  Overlap,     \* may Start be called while an older goroutine still runs?
  MaxFaults    \* bound: crashes plus failed UPDATE statements

Jobs == 1..MaxJobs

ASSUME QueueAssumption ==
  /\ MaxJobs \in Nat /\ BatchLimit \in Nat /\ MaxFaults \in Nat
  /\ Unusable \subseteq Services /\ Cancellable \subseteq Processors
  /\ Requests \subseteq [priority: Int, maxRetries: Int, retryCount: Nat,
                          services: SUBSET Services]
  /\ Overlap \in BOOLEAN

VARIABLES
  queue,     \* the rows, by id; a deleted row keeps its last contents here
  present,   \* the ids the table holds
  nextId,    \* the next AUTOINCREMENT id
  running,   \* NotificationScheduler.running
  cancelled, \* goroutines whose context is done
  pc,        \* where each goroutine is
  batch,     \* the copies it has not finished
  seen,      \* the RetryCount of each copy
  cur,       \* the job it is processing
  ok,        \* the services that answered Success to it
  faults,    \* crashes and failed statements so far
  attempts,  \* history: how often NotifyAll ran for each job
  confirmed  \* history: how often each service took each job

table == <<queue, present, nextId>>
life == <<running, cancelled>>
work == <<batch, seen, cur, ok>>
history == <<attempts, confirmed>>
vars == <<table, life, pc, work, faults, history>>

-----------------------------------------------------------------------------
(* Rows. `wait` counts the units of retry_delay left until next_retry_at;  *)
(* `asked` is history: the retry_count the row was inserted with.          *)

Statuses == {"pending", "running", "completed", "failed", "retrying"}
Decided == {"completed", "failed"}

Row == [status: Statuses, priority: Int, maxRetries: Int, retryCount: Nat,
        asked: Nat, wait: Nat, services: SUBSET Services]

BlankRow == [status |-> "pending", priority |-> 0, maxRetries |-> 0,
             retryCount |-> 0, asked |-> 0, wait |-> 0, services |-> {}]

OrDefault(x, default) == IF x = 0 THEN default ELSE x

(* Add inserts the caller's RetryCount as it is.  None of the repository   *)
(* sets it; a negative one is left out: 1 << RetryCount would panic.       *)
NewRow(r) ==
  [status |-> "pending", priority |-> OrDefault(r.priority, 1),
   maxRetries |-> OrDefault(r.maxRetries, 3),
   retryCount |-> r.retryCount, asked |-> r.retryCount, wait |-> 0,
   services |-> r.services]

(* A mistake for the runs to catch: the first retry counted as the zeroth. *)
BackoffOffByOne(n) == n - 1

(* 1 << RetryCount on a 64-bit int: capped at 64, negative for 63, 0 above. *)
(* A factor that is not positive puts next_retry_at in the past.           *)
Backoff(n) ==
  CASE n \in 0..6 -> <<1, 2, 4, 8, 16, 32, 64>>[n + 1]
    [] n \in 7..62 -> 64
    [] OTHER -> 0

Usable(j) == queue[j].services \ Unusable

(* created_at follows the ids: Add reads the clock and inserts under q.mu. *)
Before(i, j) ==
  \/ queue[i].priority > queue[j].priority
  \/ queue[i].priority = queue[j].priority /\ i < j

(* Mistakes for the runs to catch: the WHERE clause without its status,    *)
(* without its next_retry_at, without 'retrying'.                          *)
DueAnyStatus == {j \in present : queue[j].wait = 0}
DueIgnoringWait == {j \in present : queue[j].status \in {"pending", "retrying"}}
DuePendingOnly == {j \in present : queue[j].status = "pending"}

Due == {j \in present : queue[j].status \in {"pending", "retrying"} /\ queue[j].wait = 0}

(* Another: created_at DESC.                                               *)
NewestFirst(limit) == {j \in Due : Cardinality({i \in Due : i > j}) < limit}

GetPendingJobs(limit) == {j \in Due : Cardinality({i \in Due : Before(i, j)}) < limit}

(* UPDATE ... WHERE id = ?: a row that is gone matches nothing, no error.  *)
SetRow(j, row) == IF j \in present THEN [queue EXCEPT ![j] = row] ELSE queue

-----------------------------------------------------------------------------
(* The operations of the queue and of its owner.                           *)

Init ==
  /\ queue = [j \in Jobs |-> BlankRow] /\ present = {} /\ nextId = 1
  /\ running = FALSE /\ cancelled = {}
  /\ pc = [p \in Processors |-> "off"]
  /\ batch = [p \in Processors |-> {}]
  /\ seen = [p \in Processors |-> [j \in Jobs |-> 0]]
  /\ cur = [p \in Processors |-> 0]
  /\ ok = [p \in Processors |-> {}]
  /\ faults = 0
  /\ attempts = [j \in Jobs |-> 0]
  /\ confirmed = [j \in Jobs |-> [s \in Services |-> 0]]

Add(r) ==
  /\ nextId \in Jobs
  /\ queue' = [queue EXCEPT ![nextId] = NewRow(r)]
  /\ present' = present \cup {nextId}
  /\ nextId' = nextId + 1
  /\ UNCHANGED <<life, pc, work, faults, history>>

DeleteJob(j) ==
  /\ j \in present
  /\ present' = present \ {j}
  /\ UNCHANGED <<queue, nextId, life, pc, work, faults, history>>

(* olderThan is the caller's, so any finished rows can be the older ones.  *)
CleanupCompletedJobs ==
  \E old \in SUBSET {j \in present : queue[j].status \in Decided} :
    /\ old # {}
    /\ present' = present \ old
    /\ UNCHANGED <<queue, nextId, life, pc, work, faults, history>>

Start(p) ==
  /\ ~running
  /\ pc[p] = "off"
  /\ Overlap \/ \A q \in Processors : pc[q] = "off"
  /\ running' = TRUE
  /\ pc' = [pc EXCEPT ![p] = "idle"]
  /\ UNCHANGED <<table, cancelled, work, faults, history>>

(* Stop stops cron and clears the flag; the goroutine is not told.         *)
Stop ==
  /\ running
  /\ running' = FALSE
  /\ UNCHANGED <<table, cancelled, pc, work, faults, history>>

Cancel(p) ==
  /\ p \in Cancellable \ cancelled
  /\ pc[p] # "off"
  /\ cancelled' = cancelled \cup {p}
  /\ UNCHANGED <<table, running, pc, work, faults, history>>

(* The program ends, by a crash or by main returning: the table survives.  *)
ProcessExit ==
  /\ faults < MaxFaults
  /\ running \/ \E p \in Processors : pc[p] # "off"
  /\ faults' = faults + 1
  /\ running' = FALSE
  /\ cancelled' = {}
  /\ pc' = [p \in Processors |-> "off"]
  /\ batch' = [p \in Processors |-> {}]
  /\ seen' = [p \in Processors |-> [j \in Jobs |-> 0]]
  /\ cur' = [p \in Processors |-> 0]
  /\ ok' = [p \in Processors |-> {}]
  /\ UNCHANGED <<table, history>>

(* One unit of job j's retry_delay passes.                                 *)
Elapse(j) ==
  /\ queue[j].wait > 0
  /\ queue' = [queue EXCEPT ![j].wait = @ - 1]
  /\ UNCHANGED <<present, nextId, life, pc, work, faults, history>>

-----------------------------------------------------------------------------
(* processQueue, processQueueBatch and processQueuedJob.                   *)

(* A mistake for the runs to catch: ctx.Done() heeded in the middle of a   *)
(* batch.                                                                  *)
ExitMidBatch(p) ==
  /\ p \in cancelled
  /\ pc' = [pc EXCEPT ![p] = "off"]
  /\ batch' = [batch EXCEPT ![p] = {}]
  /\ cur' = [cur EXCEPT ![p] = 0]
  /\ ok' = [ok EXCEPT ![p] = {}]
  /\ cancelled' = cancelled \ {p}
  /\ UNCHANGED <<table, running, seen, faults, history>>

Exit(p) ==
  /\ pc[p] = "idle"
  /\ p \in cancelled
  /\ pc' = [pc EXCEPT ![p] = "off"]
  /\ cancelled' = cancelled \ {p}
  /\ UNCHANGED <<table, running, work, faults, history>>

FetchBatch(p) ==
  LET jobs == GetPendingJobs(BatchLimit)
  IN  /\ pc[p] = "idle"
      /\ jobs # {}
      /\ pc' = [pc EXCEPT ![p] = "batch"]
      /\ batch' = [batch EXCEPT ![p] = jobs]
      /\ seen' = [seen EXCEPT ![p] =
                    [j \in Jobs |-> IF j \in jobs THEN queue[j].retryCount ELSE 0]]
      /\ UNCHANGED <<table, life, cur, ok, faults, history>>

(* The batch is a slice in Before order: its next job is its first one.    *)
IsNext(p, j) == j \in batch[p] /\ \A i \in batch[p] \ {j} : Before(j, i)

(* The loop is done with job j: the next one, or back to the ticker.       *)
FinishJob(p, j) ==
  /\ batch' = [batch EXCEPT ![p] = @ \ {j}]
  /\ seen' = [seen EXCEPT ![p][j] = 0]
  /\ cur' = [cur EXCEPT ![p] = 0]
  /\ ok' = [ok EXCEPT ![p] = {}]
  /\ pc' = [pc EXCEPT ![p] = IF batch[p] = {j} THEN "idle" ELSE "batch"]

(* A mistake for the runs to catch: the row is left as it was.             *)
NotMarked(row) == row
MarkedRunning(row) == [row EXCEPT !.status = "running"]

MarkRunning(p, j) ==
  /\ pc[p] = "batch" /\ IsNext(p, j)
  /\ queue' = SetRow(j, MarkedRunning(queue[j]))
  /\ pc' = [pc EXCEPT ![p] = "sending"]
  /\ cur' = [cur EXCEPT ![p] = j]
  /\ UNCHANGED <<present, nextId, life, batch, seen, ok, faults, history>>

MarkRunningFails(p, j) ==
  /\ pc[p] = "batch" /\ IsNext(p, j)
  /\ faults < MaxFaults
  /\ faults' = faults + 1
  /\ FinishJob(p, j)
  /\ UNCHANGED <<table, life, history>>

(* The temporary Apprise sends to the services it accepted; any set of     *)
(* them answers Success before NotifyAll returns.                          *)
NotifyAll(p, j) ==
  /\ pc[p] = "sending" /\ cur[p] = j
  /\ \E got \in SUBSET Usable(j) :
       /\ ok' = [ok EXCEPT ![p] = got]
       /\ confirmed' = [confirmed EXCEPT ![j] =
                          [s \in Services |-> IF s \in got THEN @[s] + 1 ELSE @[s]]]
  /\ attempts' = [attempts EXCEPT ![j] = @ + 1]
  /\ pc' = [pc EXCEPT ![p] = "report"]
  /\ UNCHANGED <<table, life, batch, seen, cur, faults>>

(* A mistake for the runs to catch: <= for <.                              *)
CanRetryOnceMore(p, j) == seen[p][j] <= queue[j].maxRetries

CanRetry(p, j) == seen[p][j] < queue[j].maxRetries

(* Mistakes for the runs to catch: completion only when every service      *)
(* succeeded; successful >= 0 for successful > 0.                          *)
AllSucceeded(p, j) == ok[p] = Usable(j)
AlwaysSucceeded(p, j) == ok[p] \subseteq Usable(j)

(* successful == len(responses), with none of them too, or successful > 0. *)
Succeeded(p, j) == ok[p] = Usable(j) \/ ok[p] # {}

Completed(row) == [row EXCEPT !.status = "completed"]
Failed(row) == [row EXCEPT !.status = "failed"]
Retrying(row) == [row EXCEPT !.status = "retrying", !.retryCount = @ + 1,
                             !.wait = Backoff(row.retryCount)]

Reported(p, j) ==
  IF Succeeded(p, j) THEN Completed(queue[j])
  ELSE IF CanRetry(p, j) THEN Retrying(queue[j]) ELSE Failed(queue[j])

Report(p, j) ==
  /\ pc[p] = "report" /\ cur[p] = j
  /\ queue' = SetRow(j, Reported(p, j))
  /\ FinishJob(p, j)
  /\ UNCHANGED <<present, nextId, life, faults, history>>

(* The last UPDATE fails: it is logged, and the row stays running.         *)
ReportFails(p, j) ==
  /\ pc[p] = "report" /\ cur[p] = j
  /\ faults < MaxFaults
  /\ faults' = faults + 1
  /\ FinishJob(p, j)
  /\ UNCHANGED <<table, life, history>>

-----------------------------------------------------------------------------
Owner ==
  \/ \E r \in Requests : Add(r)
  \/ \E j \in Jobs : DeleteJob(j)
  \/ CleanupCompletedJobs
  \/ \E p \in Processors : Start(p)
  \/ Stop
  \/ \E p \in Processors : Cancel(p)

Environment ==
  \/ ProcessExit
  \/ \E j \in Jobs : Elapse(j)

Step(p) ==
  \/ FetchBatch(p)
  \/ \E j \in Jobs : MarkRunning(p, j)
  \/ \E j \in Jobs : NotifyAll(p, j)
  \/ \E j \in Jobs : Report(p, j)

Trouble(p) ==
  \/ Exit(p)
  \/ \E j \in Jobs : MarkRunningFails(p, j)
  \/ \E j \in Jobs : ReportFails(p, j)

Next == Owner \/ Environment \/ \E p \in Processors : Step(p) \/ Trouble(p)

Spec == Init /\ [][Next]_vars

(* cmd/apprise-api calls Start unconditionally, the ticker of a live       *)
(* goroutine keeps firing, NotifyAll returns (its sends run under the      *)
(* Apprise timeout), and time passes.  Callers promise nothing.            *)
Fairness ==
  /\ WF_vars(\E p \in Processors : Start(p))
  /\ \A p \in Processors : WF_vars(Step(p))
  /\ \A j \in Jobs : WF_vars(Elapse(j))

FairSpec == Spec /\ Fairness

-----------------------------------------------------------------------------
(* Properties. *)

TypeOK ==
  /\ queue \in [Jobs -> Row] /\ present \subseteq Jobs
  /\ nextId \in 1..(MaxJobs + 1) /\ present \subseteq 1..(nextId - 1)
  /\ running \in BOOLEAN /\ cancelled \subseteq Processors
  /\ pc \in [Processors -> {"off", "idle", "batch", "sending", "report"}]
  /\ batch \in [Processors -> SUBSET Jobs]
  /\ seen \in [Processors -> [Jobs -> Nat]]
  /\ cur \in [Processors -> Jobs \cup {0}]
  /\ ok \in [Processors -> SUBSET Services]
  /\ faults \in 0..MaxFaults
  /\ attempts \in [Jobs -> Nat]
  /\ confirmed \in [Jobs -> [Services -> Nat]]

Confirmed(j) == {s \in Services : confirmed[j][s] > 0}

(* One attempt, and one for each retry the inserted retry_count has left.  *)
Budget(j) ==
  IF queue[j].maxRetries > queue[j].asked
  THEN queue[j].maxRetries - queue[j].asked + 1 ELSE 1

(* No service takes the same job twice: a job is sent again only when no   *)
(* service took it, whatever crashes, failed updates or deletions happen   *)
(* between GetPendingJobs and the last UpdateJobStatus.                    *)
AtMostOnceConfirmed == \A j \in Jobs, s \in Services : confirmed[j][s] <= 1

(* NotifyAll runs at most once, and once more for each retry that          *)
(* max_retries has left over the retry_count the row was inserted with.    *)
AttemptsWithinBudget == \A j \in Jobs : attempts[j] <= Budget(j)

(* A status tells the truth about the deliveries: completed means that a   *)
(* service took the job or none of its URLs was usable; failed means that  *)
(* usable services refused it as often as max_retries allows.              *)
VerdictIsTrue(j) ==
  /\ queue[j].status = "completed" => Confirmed(j) # {} \/ Usable(j) = {}
  /\ queue[j].status = "failed" =>
       Confirmed(j) = {} /\ Usable(j) # {} /\ attempts[j] = Budget(j)

VerdictMatchesDelivery == \A j \in Jobs : VerdictIsTrue(j)

(* What the bookkeeping is at every step, when one goroutine at most lives: *)
(* the parts that together are inductive.                                  *)
OneLive == \A p, q \in Processors : pc[p] # "off" /\ pc[q] # "off" => p = q

Retried(j) == queue[j].retryCount - queue[j].asked
Unsent(j) == attempts[j] = Retried(j) /\ \A s \in Services : confirmed[j][s] = 0
SentTo(j, S) ==
  /\ attempts[j] = Retried(j) + 1
  /\ \A s \in Services : confirmed[j][s] = IF s \in S THEN 1 ELSE 0

GoroutineShape ==
  \A p \in Processors :
    /\ pc[p] \in {"off", "idle"} => batch[p] = {}
    /\ pc[p] \in {"sending", "report"} => cur[p] \in batch[p]
    /\ pc[p] \notin {"sending", "report"} => cur[p] = 0
    /\ ok[p] # {} => pc[p] = "report"

(* A copy that has not been processed still agrees with its row.           *)
CopyIsCurrent(p, j) ==
  /\ j < nextId
  /\ seen[p][j] = queue[j].retryCount
  /\ j # cur[p] => Unsent(j) /\ queue[j].status \in {"pending", "retrying"} /\ queue[j].wait = 0

CurrentJob(p) ==
  pc[p] \in {"sending", "report"} =>
    /\ queue[cur[p]].status \notin Decided /\ queue[cur[p]].wait = 0
    /\ cur[p] \in present => queue[cur[p]].status = "running"
    /\ pc[p] = "sending" => Unsent(cur[p])
    /\ pc[p] = "report" => ok[p] \subseteq Usable(cur[p]) /\ SentTo(cur[p], ok[p])

RowAgrees(j) ==
  /\ j \in present /\ queue[j].status \in {"pending", "retrying"} => Unsent(j)
  /\ j >= nextId => Unsent(j) /\ Retried(j) = 0 /\ queue[j].status = "pending"
  /\ Unsent(j) \/ \E S \in SUBSET Usable(j) : SentTo(j, S)
  /\ Retried(j) >= 0 /\ Retried(j) < Budget(j)

Inductive ==
  /\ TypeOK /\ OneLive /\ GoroutineShape
  /\ \A p \in Processors : CurrentJob(p) /\ \A j \in batch[p] : CopyIsCurrent(p, j)
  /\ \A j \in Jobs : RowAgrees(j) /\ VerdictIsTrue(j)

(* A running row is being processed, unless a crash or a failed statement  *)
(* has orphaned it.                                                        *)
RunningIsHeld ==
  \A j \in present :
    queue[j].status = "running" =>
      faults > 0 \/ \E p \in Processors : cur[p] = j /\ pc[p] \in {"sending", "report"}

(* Of two rows where the older has at least the newer's priority, the      *)
(* older is attempted first, unless it was deleted or a fault skipped it.  *)
FirstAttemptsInOrder ==
  \A i, j \in present :
    (i < j /\ queue[i].priority >= queue[j].priority /\ attempts[j] > 0)
      => attempts[i] > 0 \/ faults > 0

(* Completed and failed are final: no late update, of a stale copy or      *)
(* another batch, takes a row out of them.                                 *)
VerdictIsFinal ==
  [][\A j \in Jobs : queue[j].status \in Decided => queue'[j].status = queue[j].status]_vars

(* A job that waits for its next_retry_at is not sent before it.           *)
RetryWaits ==
  [][\A j \in Jobs : attempts'[j] > attempts[j] => queue[j].wait = 0]_vars

(* The n-th retry waits retry_delay * 2^n, and at most 64 * retry_delay:   *)
(* what UpdateJobStatus's comments say of every row it sets to retrying.   *)
RetryBacksOff ==
  [][\A j \in Jobs :
       queue'[j].retryCount > queue[j].retryCount =>
         queue'[j].wait = IF queue[j].retryCount <= 6 THEN 2 ^ queue[j].retryCount
                                                     ELSE 64]_vars

(* A goroutine takes no work from the table while the scheduler is stopped. *)
NoFetchWhileStopped ==
  [][\A p \in Processors : pc[p] = "idle" /\ pc'[p] = "batch" => running]_vars

(* The queue implements DeliveryContract: a deleted row stays with what it  *)
(* was, a retry is a step inside `open`.                                   *)
Verdict(j) ==
  CASE j >= nextId -> "none"
    [] j < nextId /\ queue[j].status \in Decided -> queue[j].status
    [] OTHER -> "open"

Contract == INSTANCE DeliveryContract WITH
  verdict <- [j \in Jobs |-> Verdict(j)],
  targets <- [j \in Jobs |-> Usable(j)],
  budget <- [j \in Jobs |-> Budget(j)],
  tries <- attempts,
  taken <- [j \in Jobs |-> Confirmed(j)]

ContractSpec == Contract!Spec

(* Every accepted job is completed, failed or deleted in the end.  Only of *)
(* callers who stop adding: NotificationStream is about those who do not.  *)
JobsAreSettled ==
  \A j \in Jobs :
    j \in present ~> (j \notin present \/ queue[j].status \in Decided)
=============================================================================
