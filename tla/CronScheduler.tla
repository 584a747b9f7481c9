---------------------------- MODULE CronScheduler ----------------------------
(***************************************************************************)
(* Scheduled jobs: the table scheduled_jobs, the entries of the cron       *)
(* object, the methods of NotificationScheduler that change them, the API  *)
(* handler that updates a job by reading it first, and the goroutine       *)
(* executeScheduledJob that cron starts each time an entry comes due.      *)
(*                                                                         *)
(* The methods hold s.mu, so each of them is one step; executeScheduledJob *)
(* and the handlers do not, so each SQL statement of theirs is one.        *)
(***************************************************************************)
EXTENDS Integers, FiniteSets

CONSTANTS
  MaxJobs,   \* bound: how many rows AUTOINCREMENT numbers
  Exprs,     \* cron expressions
  Invalid,   \* those of them cron.ParseStandard rejects
  Runs,      \* bound: how many executeScheduledJob goroutines exist at once
  Callers,   \* bound: how many API updates are under way at once
  MaxQueued, \* bound: rows the cron runs put in the queue
  MaxEntries, \* bound: entries of one job on one expression
  MaxFaults  \* bound: ends of the process plus failed SQL statements

Jobs == 1..MaxJobs
QueueIds == 1..MaxQueued

ASSUME CronAssumption ==
  /\ MaxJobs \in Nat /\ MaxQueued \in Nat /\ MaxEntries \in Nat /\ MaxFaults \in Nat
  /\ Invalid \subseteq Exprs /\ Exprs # {}
ASSUME RunsAssumption == IsFiniteSet(Runs)

VARIABLES
  jobs,        \* scheduled_jobs, by id; a deleted row keeps its last contents
  present,     \* the ids the table holds
  nextId,      \* the next AUTOINCREMENT id
  entries,     \* how many entries of the cron object run a job on an expression
  running,     \* NotificationScheduler.running: cron has been started
  pc,          \* where each executeScheduledJob is
  job,         \* the job id it was started for
  copy,        \* what each API update has read: an id (0: nothing) and its row
  scheduledId, \* the column of that name, by queue id; 0 is NULL
  queued,      \* how many rows the runs have put in the queue
  faults,      \* ends of the process and failed statements
  reload,      \* history: how the last loadScheduledJobs ended: "whole", with
               \* an error ("failed"), or without one but early ("short")
  triggered    \* history: how many queue rows each job has had

table == <<jobs, present, nextId>>
run == <<pc, job>>
queueCols == <<scheduledId, queued, triggered>>
trouble == <<faults, reload>>
vars == <<table, entries, running, run, copy, queueCols, trouble>>

Row == [expr: Exprs, enabled: BOOLEAN, runCount: Nat]
AnExpr == CHOOSE e \in Exprs : TRUE
BlankRow == [expr |-> AnExpr, enabled |-> FALSE, runCount |-> 0]
NoCopy == [id |-> 0, row |-> BlankRow]

-----------------------------------------------------------------------------
(* The cron object.                                                        *)

(* The entries AddFunc makes for the enabled rows whose expression parses. *)
(* Entries the object already has are not looked at.                       *)
Scheduled(rows, ids, j, e) == j \in ids /\ rows[j].enabled /\ rows[j].expr = e /\ e \notin Invalid

AddEntries(rows, ids) ==
  /\ \A j \in Jobs, e \in Exprs : Scheduled(rows, ids, j, e) => entries[j][e] < MaxEntries
  /\ entries' = [j \in Jobs |-> [e \in Exprs |->
                   IF Scheduled(rows, ids, j, e) THEN entries[j][e] + 1 ELSE entries[j][e]]]

(* A SELECT that fails, or the scan of one of its rows, is reported; the   *)
(* rows before it have got their entries.  An error that ends the loop     *)
(* over the rows is not: rows.Err() is not called, so the rows that were   *)
(* not reached are left out and the load passes for a good one.            *)
LoadScheduledJobs(rows, ids) ==
  \/ AddEntries(rows, ids) /\ reload' = "whole" /\ UNCHANGED faults
  \/ /\ faults < MaxFaults
     /\ faults' = faults + 1
     /\ reload' \in {"failed", "short"}
     /\ \E some \in SUBSET ids : (some = {} \/ some # ids) /\ AddEntries(rows, some)

NoEntries == [j \in Jobs |-> [e \in Exprs |-> 0]]

-----------------------------------------------------------------------------
(* The methods of NotificationScheduler.                                   *)

Init ==
  /\ jobs = [j \in Jobs |-> BlankRow] /\ present = {} /\ nextId = 1
  /\ entries = NoEntries /\ running = FALSE
  /\ pc = [p \in Runs |-> "off"] /\ job = [p \in Runs |-> 0]
  /\ copy = [c \in Callers |-> NoCopy]
  /\ scheduledId = [i \in QueueIds |-> 0] /\ queued = 0 /\ faults = 0 /\ reload = "whole"
  /\ triggered = [j \in Jobs |-> 0]

Start ==
  /\ ~running
  /\ LoadScheduledJobs(jobs, present)
  /\ running' = (reload' # "failed")
  /\ UNCHANGED <<table, run, copy, queueCols>>

(* cron.Stop keeps the entries, and the runs under way go on.              *)
Stop ==
  /\ running
  /\ running' = FALSE
  /\ UNCHANGED <<table, entries, run, copy, queueCols, trouble>>

(* A mistake for the runs to catch: a new job waits for the next Start.    *)
EntryAtNextStart(e, enabled) == entries' = entries

EntryOfNewJob(e, enabled) ==
  entries' = IF enabled THEN [entries EXCEPT ![nextId][e] = @ + 1] ELSE entries

AddScheduledJob(e, enabled) ==
  /\ e \notin Invalid
  /\ nextId \in Jobs
  /\ jobs' = [jobs EXCEPT ![nextId] = [expr |-> e, enabled |-> enabled, runCount |-> 0]]
  /\ present' = present \cup {nextId}
  /\ nextId' = nextId + 1
  /\ EntryOfNewJob(e, enabled)
  /\ UNCHANGED <<running, run, copy, queueCols, trouble>>

(* handleUpdateScheduledJob reads the row first...                         *)
GetScheduledJob(c, j) ==
  /\ copy[c] = NoCopy
  /\ j \in present
  /\ copy' = [copy EXCEPT ![c] = [id |-> j, row |-> jobs[j]]]
  /\ UNCHANGED <<table, entries, running, run, queueCols, trouble>>

(* A mistake for the runs to catch: every column written back.             *)
WithEveryColumn(old, mine, e, enabled) == [mine EXCEPT !.expr = e, !.enabled = enabled]

(* The columns that the UPDATE names: run_count is not one of them, and    *)
(* those that are written as they were read are not kept here.             *)
WithColumns(old, mine, e, enabled) == [old EXCEPT !.expr = e, !.enabled = enabled]

(* ... and writes it back, with `enabled` and perhaps a new expression, an *)
(* unparsable one too; then every enabled job is loaded again.             *)
UpdateScheduledJob(c, e, enabled) ==
  LET j == copy[c].id
  IN  /\ copy[c] # NoCopy
      /\ jobs' = IF j \in present
                 THEN [jobs EXCEPT ![j] = WithColumns(jobs[j], copy[c].row, e, enabled)]
                 ELSE jobs
      /\ copy' = [copy EXCEPT ![c] = NoCopy]
      /\ LoadScheduledJobs(jobs', present)
      /\ UNCHANGED <<present, nextId, running, run, queueCols>>

(* The UPDATE fails: the handler answers with an error.                    *)
UpdateFails(c) ==
  /\ copy[c] # NoCopy
  /\ faults < MaxFaults
  /\ faults' = faults + 1
  /\ copy' = [copy EXCEPT ![c] = NoCopy]
  /\ UNCHANGED <<table, entries, running, run, queueCols, reload>>

SetScheduledJobEnabled(j, enabled) ==
  /\ jobs' = IF j \in present THEN [jobs EXCEPT ![j].enabled = enabled] ELSE jobs
  /\ LoadScheduledJobs(jobs', present)
  /\ UNCHANGED <<present, nextId, running, run, copy, queueCols>>

(* A mistake for the runs to catch: no ON DELETE clause.                   *)
LinksKept(j) == scheduledId

(* ON DELETE SET NULL.                                                     *)
LinksWithout(j) == [i \in QueueIds |-> IF scheduledId[i] = j THEN 0 ELSE scheduledId[i]]

(* The row read from the table has CronID 0: cron keeps its entries.       *)
RemoveScheduledJob(j) ==
  /\ j \in present
  /\ present' = present \ {j}
  /\ scheduledId' = LinksWithout(j)
  /\ UNCHANGED <<jobs, nextId, entries, running, run, copy, queued, triggered, trouble>>

ProcessExit ==
  /\ faults < MaxFaults
  /\ faults' = faults + 1
  /\ entries' = NoEntries
  /\ running' = FALSE
  /\ pc' = [p \in Runs |-> "off"] /\ job' = [p \in Runs |-> 0]
  /\ copy' = [c \in Callers |-> NoCopy]
  /\ UNCHANGED <<table, queueCols, reload>>

-----------------------------------------------------------------------------
(* cron, and executeScheduledJob.                                          *)

(* An entry comes due: cron runs its function in a goroutine of its own.   *)
Fire(p, j) ==
  /\ running
  /\ pc[p] = "off"
  /\ \E e \in Exprs : entries[j][e] > 0
  /\ pc' = [pc EXCEPT ![p] = "read"]
  /\ job' = [job EXCEPT ![p] = j]
  /\ UNCHANGED <<table, entries, running, copy, queueCols, trouble>>

(* A mistake for the runs to catch: no return after the early exits.       *)
NotReturning(p) == pc' = pc /\ job' = [job EXCEPT ![p] = 0]

Done(p) == pc' = [pc EXCEPT ![p] = "off"] /\ job' = [job EXCEPT ![p] = 0]

Read(p) ==
  /\ pc[p] = "read"
  /\ IF job[p] \in present /\ jobs[job[p]].enabled
     THEN pc' = [pc EXCEPT ![p] = "add"] /\ job' = job
     ELSE Done(p)
  /\ UNCHANGED <<table, entries, running, copy, queueCols, trouble>>

(* A mistake for the runs to catch: no foreign key.                        *)
AnyLink(j) == TRUE

(* The foreign key of the new row's scheduled_id.                          *)
LinkHolds(j) == j \in present

(* queue.Add: the INSERT fails when the job was removed after Read.        *)
Add(p) ==
  /\ pc[p] = "add"
  /\ queued < MaxQueued
  /\ IF LinkHolds(job[p])
     THEN /\ queued' = queued + 1
          /\ scheduledId' = [scheduledId EXCEPT ![queued + 1] = job[p]]
          /\ triggered' = [triggered EXCEPT ![job[p]] = @ + 1]
          /\ pc' = [pc EXCEPT ![p] = "stats"] /\ job' = job
     ELSE Done(p) /\ UNCHANGED queueCols
  /\ UNCHANGED <<table, entries, running, copy, trouble>>

UpdateScheduledJobStats(p) ==
  /\ pc[p] = "stats"
  /\ jobs' = IF job[p] \in present THEN [jobs EXCEPT ![job[p]].runCount = @ + 1] ELSE jobs
  /\ Done(p)
  /\ UNCHANGED <<present, nextId, entries, running, copy, queueCols, trouble>>

(* Whichever statement of the run fails, the run ends.                     *)
RunFails(p) ==
  /\ pc[p] # "off"
  /\ faults < MaxFaults
  /\ faults' = faults + 1
  /\ Done(p)
  /\ UNCHANGED <<table, entries, running, copy, queueCols, reload>>

-----------------------------------------------------------------------------
Methods ==
  \/ Start
  \/ Stop
  \/ \E e \in Exprs, enabled \in BOOLEAN : AddScheduledJob(e, enabled)
  \/ \E c \in Callers, j \in Jobs : GetScheduledJob(c, j)
  \/ \E c \in Callers, e \in Exprs, enabled \in BOOLEAN : UpdateScheduledJob(c, e, enabled)
  \/ \E c \in Callers : UpdateFails(c)
  \/ \E j \in Jobs, enabled \in BOOLEAN : SetScheduledJobEnabled(j, enabled)
  \/ \E j \in Jobs : RemoveScheduledJob(j)
  \/ ProcessExit

Run(p) ==
  \/ \E j \in Jobs : Fire(p, j)
  \/ Read(p)
  \/ Add(p)
  \/ UpdateScheduledJobStats(p)
  \/ RunFails(p)

Next == Methods \/ \E p \in Runs : Run(p)

Spec == Init /\ [][Next]_vars

-----------------------------------------------------------------------------
(* Properties. *)

TypeOK ==
  /\ jobs \in [Jobs -> Row] /\ present \subseteq Jobs /\ nextId \in 1..(MaxJobs + 1)
  /\ entries \in [Jobs -> [Exprs -> Nat]] /\ running \in BOOLEAN
  /\ pc \in [Runs -> {"off", "read", "add", "stats"}] /\ job \in [Runs -> Jobs \cup {0}]
  /\ \A p \in Runs : pc[p] # "off" => job[p] \in Jobs
  /\ copy \in [Callers -> [id: Jobs \cup {0}, row: Row]]
  /\ scheduledId \in [QueueIds -> Jobs \cup {0}] /\ queued \in 0..MaxQueued
  /\ faults \in 0..MaxFaults /\ reload \in {"whole", "failed", "short"}
  /\ triggered \in [Jobs -> Nat]

(* While the scheduler runs, every enabled job of the table has a cron     *)
(* entry on its own expression, unless that expression does not parse:     *)
(* Start, AddScheduledJob, UpdateScheduledJob and EnableScheduledJob keep  *)
(* the two apart stores, table and cron object, from losing a job.  Only a *)
(* reload that met an error in the middle, reported or not, may lose one,  *)
(* until the next reload that meets none.                                  *)
EnabledIsScheduled ==
  running /\ reload = "whole" =>
    \A j \in present, e \in Exprs : Scheduled(jobs, present, j, e) => entries[j][e] > 0

(* A queue row names a scheduled job that exists, or none, though jobs are *)
(* removed between the reading of a job and the INSERT it leads to.        *)
LinksAreLive == \A i \in QueueIds : scheduledId[i] \in present \cup {0}

(* run_count counts the queue rows of a job: updates that write back what  *)
(* they read before lose none; only a process that ends between the INSERT *)
(* and the UPDATE, or an UPDATE that fails, does.                          *)
Uncounted(j) == Cardinality({p \in Runs : pc[p] = "stats" /\ job[p] = j})

RunCountTellsTruth ==
  \A j \in present :
    /\ jobs[j].runCount + Uncounted(j) <= triggered[j]
    /\ faults = 0 => jobs[j].runCount + Uncounted(j) = triggered[j]

(* A removed job is never queued again, though cron keeps its entries and  *)
(* a run may have read it before.                                          *)
RemovedIsQuiet ==
  [][\A j \in Jobs : j < nextId /\ j \notin present => triggered'[j] = triggered[j]]_vars

(* After an update the cron object holds one entry for the job it updated, *)
(* on its current expression, and none if it is disabled: what the reload  *)
(* at the end of UpdateScheduledJob is for.                                *)
ReloadReplacesEntries ==
  [][\A c \in Callers, e \in Exprs, enabled \in BOOLEAN :
       running /\ reload' = "whole" /\ UpdateScheduledJob(c, e, enabled) =>
         \A x \in Exprs :
           entries'[copy[c].id][x] =
             IF Scheduled(jobs', present, copy[c].id, x) THEN 1 ELSE 0]_vars
=============================================================================
