------------------------- MODULE CronSchedulerProofs -------------------------
(***************************************************************************)
(* What holds of CronScheduler for every number of jobs, expressions,      *)
(* goroutines, updates and restarts.                                       *)
(***************************************************************************)
EXTENDS CronScheduler, FiniteSetTheorems, TLAPS

(* The blank row and the empty copy are well-formed.                       *)
LEMMA BlankRowType == BlankRow \in Row /\ NoCopy \in [id: Jobs \cup {0}, row: Row]
<1>1. AnExpr \in Exprs
  BY CronAssumption DEF AnExpr
<1> QED
  BY <1>1 DEF BlankRow, NoCopy, Row

(* A load changes nothing but the counts, and never lowers one.            *)
LEMMA LoadType ==
  ASSUME entries \in [Jobs -> [Exprs -> Nat]], faults \in 0..MaxFaults,
         NEW rows, NEW ids, LoadScheduledJobs(rows, ids)
  PROVE  /\ entries' \in [Jobs -> [Exprs -> Nat]]
         /\ faults' \in 0..MaxFaults /\ reload' \in {"whole", "failed", "short"}
         /\ reload' = "whole" =>
              \A j \in Jobs, e \in Exprs : Scheduled(rows, ids, j, e) => entries'[j][e] > 0
<1>1. ASSUME NEW some, AddEntries(rows, some)
      PROVE  /\ entries' \in [Jobs -> [Exprs -> Nat]]
             /\ \A j \in Jobs, e \in Exprs : Scheduled(rows, some, j, e) => entries'[j][e] > 0
  BY <1>1 DEF AddEntries
<1>2. CASE AddEntries(rows, ids) /\ reload' = "whole" /\ UNCHANGED faults
  BY <1>1, <1>2
<1>3. ASSUME faults < MaxFaults, faults' = faults + 1, reload' \in {"failed", "short"},
             NEW some \in SUBSET ids, AddEntries(rows, some)
      PROVE  /\ entries' \in [Jobs -> [Exprs -> Nat]]
             /\ faults' \in 0..MaxFaults /\ reload' \in {"failed", "short"}
  BY <1>1, <1>3, CronAssumption
<1> QED
  BY <1>2, <1>3 DEF LoadScheduledJobs

(* A new job that is enabled gets an entry, and no entry is lost.          *)
LEMMA EntryOfNewJobType ==
  ASSUME entries \in [Jobs -> [Exprs -> Nat]], nextId \in Jobs, NEW e \in Exprs,
         NEW enabled \in BOOLEAN, EntryOfNewJob(e, enabled)
  PROVE  /\ entries' \in [Jobs -> [Exprs -> Nat]]
         /\ enabled => entries'[nextId][e] > 0
         /\ \A j \in Jobs, x \in Exprs : entries[j][x] > 0 => entries'[j][x] > 0
BY DEF EntryOfNewJob

(* The methods and the handler keep the types.                             *)
LEMMA MethodsType ==
  ASSUME TypeOK, Methods
  PROVE  TypeOK'
<1> USE CronAssumption DEF TypeOK, table, run, queueCols, trouble
<1>1. CASE Start
  BY <1>1, LoadType DEF Start
<1>2. CASE Stop
  BY <1>2 DEF Stop
<1>3. ASSUME NEW e \in Exprs, NEW enabled \in BOOLEAN, AddScheduledJob(e, enabled)
      PROVE  TypeOK'
  <2>1. [expr |-> e, enabled |-> enabled, runCount |-> 0] \in Row
    BY DEF Row
  <2>2. entries' \in [Jobs -> [Exprs -> Nat]]
    BY <1>3, EntryOfNewJobType DEF AddScheduledJob
  <2>3. nextId' \in 1..(MaxJobs + 1) /\ jobs' \in [Jobs -> Row] /\ present' \subseteq Jobs
    BY <1>3, <2>1 DEF AddScheduledJob, Jobs
  <2> QED
    BY <1>3, <2>2, <2>3 DEF AddScheduledJob
<1>4. ASSUME NEW c \in Callers, NEW j \in Jobs, GetScheduledJob(c, j) PROVE TypeOK'
  BY <1>4 DEF GetScheduledJob
<1>5. ASSUME NEW c \in Callers, NEW e \in Exprs, NEW enabled \in BOOLEAN,
             UpdateScheduledJob(c, e, enabled)
      PROVE  TypeOK'
  <2>1. \A row \in Row : WithColumns(row, copy[c].row, e, enabled) \in Row
    BY DEF WithColumns, Row
  <2>2. jobs' \in [Jobs -> Row]
    BY <1>5, <2>1 DEF UpdateScheduledJob
  <2>3. entries' \in [Jobs -> [Exprs -> Nat]] /\ faults' \in 0..MaxFaults /\ reload' \in {"whole", "failed", "short"}
    BY <1>5, LoadType DEF UpdateScheduledJob
  <2>4. copy' \in [Callers -> [id: Jobs \cup {0}, row: Row]]
    BY <1>5, BlankRowType DEF UpdateScheduledJob
  <2> QED
    BY <1>5, <2>2, <2>3, <2>4 DEF UpdateScheduledJob
<1>6. ASSUME NEW j \in Jobs, NEW enabled \in BOOLEAN, SetScheduledJobEnabled(j, enabled)
      PROVE  TypeOK'
  <2>1. \A row \in Row : [row EXCEPT !.enabled = enabled] \in Row
    BY DEF Row
  <2>2. jobs' \in [Jobs -> Row]
    BY <1>6, <2>1 DEF SetScheduledJobEnabled
  <2>3. entries' \in [Jobs -> [Exprs -> Nat]] /\ faults' \in 0..MaxFaults /\ reload' \in {"whole", "failed", "short"}
    BY <1>6, LoadType DEF SetScheduledJobEnabled
  <2> QED
    BY <1>6, <2>2, <2>3 DEF SetScheduledJobEnabled
<1>7. ASSUME NEW j \in Jobs, RemoveScheduledJob(j) PROVE TypeOK'
  BY <1>7 DEF RemoveScheduledJob, LinksWithout
<1>8. CASE ProcessExit
  <2>1. copy' \in [Callers -> [id: Jobs \cup {0}, row: Row]]
    BY <1>8, BlankRowType DEF ProcessExit
  <2>2. entries' \in [Jobs -> [Exprs -> Nat]] /\ faults' \in 0..MaxFaults
    BY <1>8 DEF ProcessExit, NoEntries
  <2> QED
    BY <1>8, <2>1, <2>2 DEF ProcessExit
<1>9. ASSUME NEW c \in Callers, UpdateFails(c) PROVE TypeOK'
  <2>1. copy' \in [Callers -> [id: Jobs \cup {0}, row: Row]] /\ faults' \in 0..MaxFaults
    BY <1>9, BlankRowType DEF UpdateFails
  <2> QED
    BY <1>9, <2>1 DEF UpdateFails
<1> QED
  BY <1>1, <1>2, <1>3, <1>4, <1>5, <1>6, <1>7, <1>8, <1>9 DEF Methods

(* So does a run of a scheduled job.                                       *)
LEMMA RunType ==
  ASSUME TypeOK, NEW p \in Runs, Run(p)
  PROVE  TypeOK'
<1> USE CronAssumption DEF TypeOK, table, run, queueCols, trouble
<1>1. ASSUME NEW j \in Jobs, Fire(p, j) PROVE TypeOK'
  BY <1>1 DEF Fire
<1>2. CASE Read(p)
  BY <1>2 DEF Read, Done
<1>3. CASE Add(p)
  <2>1. CASE LinkHolds(job[p])
    <3>1. job[p] \in Jobs /\ queued + 1 \in QueueIds
      BY <1>3 DEF Add, QueueIds
    <3>2. scheduledId' \in [QueueIds -> Jobs \cup {0}] /\ queued' \in 0..MaxQueued
      BY <1>3, <2>1, <3>1 DEF Add
    <3>3. triggered' \in [Jobs -> Nat]
      BY <1>3, <2>1, <3>1 DEF Add
    <3> QED
      BY <1>3, <2>1, <3>2, <3>3 DEF Add
  <2>2. CASE ~LinkHolds(job[p])
    BY <1>3, <2>2 DEF Add, Done
  <2> QED
    BY <2>1, <2>2
<1>4. CASE UpdateScheduledJobStats(p)
  <2>1. \A row \in Row : [row EXCEPT !.runCount = @ + 1] \in Row
    BY DEF Row
  <2>2. jobs' \in [Jobs -> Row]
    BY <1>4, <2>1 DEF UpdateScheduledJobStats
  <2> QED
    BY <1>4, <2>2 DEF UpdateScheduledJobStats, Done
<1>5. CASE RunFails(p)
  <2>1. faults' \in 0..MaxFaults
    BY <1>5 DEF RunFails
  <2> QED
    BY <1>5, <2>1 DEF RunFails, Done
<1> QED
  BY <1>1, <1>2, <1>3, <1>4, <1>5 DEF Run

(* Every step keeps the types.                                             *)
LEMMA StepType ==
  ASSUME TypeOK, [Next]_vars
  PROVE  TypeOK'
<1>1. CASE UNCHANGED vars
  BY <1>1 DEF vars, table, run, queueCols, trouble, TypeOK
<1> QED
  BY <1>1, MethodsType, RunType DEF Next

(* They hold when the scheduler is created.                                *)
LEMMA InitType == Init => TypeOK
<1> SUFFICES ASSUME Init PROVE TypeOK
  OBVIOUS
<1>1. jobs \in [Jobs -> Row] /\ copy \in [Callers -> [id: Jobs \cup {0}, row: Row]]
  BY BlankRowType DEF Init
<1>2. entries \in [Jobs -> [Exprs -> Nat]]
  BY DEF Init, NoEntries
<1>3. nextId \in 1..(MaxJobs + 1) /\ queued \in 0..MaxQueued /\ faults \in 0..MaxFaults
  BY CronAssumption DEF Init
<1> QED
  BY <1>1, <1>2, <1>3 DEF Init, TypeOK

(* Rows, entries, goroutines and queue columns are always well-formed.     *)
THEOREM TypeCorrect == Spec => []TypeOK
<1>1. TypeOK /\ [Next]_vars => TypeOK'
  BY StepType
<1> QED
  BY <1>1, InitType, PTL DEF Spec

-----------------------------------------------------------------------------
(* Which steps can unschedule a job, and that they do not.                 *)

(* No step takes the entry of an enabled job away, or enables one without  *)
(* it.                                                                     *)
LEMMA ScheduleKept ==
  ASSUME TypeOK, TypeOK', EnabledIsScheduled, [Next]_vars
  PROVE  EnabledIsScheduled'
<1> SUFFICES ASSUME running', reload' = "whole", NEW j \in present', NEW e \in Exprs, Scheduled(jobs', present', j, e)
             PROVE  entries'[j][e] > 0
  BY DEF EnabledIsScheduled, Scheduled
<1> USE DEF table, run, queueCols, trouble
<1>1. entries \in [Jobs -> [Exprs -> Nat]] /\ j \in Jobs /\ jobs \in [Jobs -> Row]
  BY DEF TypeOK
<1>2. ASSUME running, reload = "whole", j \in present, jobs[j].enabled = jobs'[j].enabled, jobs[j].expr = jobs'[j].expr
      PROVE  entries[j][e] > 0
  BY <1>2 DEF EnabledIsScheduled, Scheduled
<1>3. CASE Start
  BY <1>1, <1>3, LoadType DEF Start, TypeOK
<1>4. ASSUME NEW x \in Exprs, NEW enabled \in BOOLEAN, AddScheduledJob(x, enabled)
      PROVE  entries'[j][e] > 0
  <2>1. CASE j = nextId
    <3>1. jobs'[j].expr = x /\ jobs'[j].enabled = enabled
      BY <1>1, <1>4, <2>1 DEF AddScheduledJob
    <3> QED
      BY <1>1, <1>4, <2>1, <3>1, EntryOfNewJobType DEF AddScheduledJob, Scheduled
  <2>2. CASE j # nextId
    <3>1. jobs'[j] = jobs[j] /\ j \in present /\ running /\ reload = "whole"
      BY <1>1, <1>4, <2>2 DEF AddScheduledJob
    <3> QED
      BY <1>1, <1>2, <1>4, <3>1, EntryOfNewJobType DEF AddScheduledJob
  <2> QED
    BY <2>1, <2>2
<1>5. ASSUME NEW c \in Callers, NEW x \in Exprs, NEW enabled \in BOOLEAN,
             UpdateScheduledJob(c, x, enabled)
      PROVE  entries'[j][e] > 0
  BY <1>1, <1>5, LoadType DEF UpdateScheduledJob, TypeOK
<1>6. ASSUME NEW i \in Jobs, NEW enabled \in BOOLEAN, SetScheduledJobEnabled(i, enabled)
      PROVE  entries'[j][e] > 0
  BY <1>1, <1>6, LoadType DEF SetScheduledJobEnabled, TypeOK
<1>7. ASSUME NEW i \in Jobs, RemoveScheduledJob(i) PROVE entries'[j][e] > 0
  BY <1>2, <1>7 DEF RemoveScheduledJob
<1>8. ASSUME NEW p \in Runs, UpdateScheduledJobStats(p) PROVE entries'[j][e] > 0
  <2>1. jobs'[j].enabled = jobs[j].enabled /\ jobs'[j].expr = jobs[j].expr
    BY <1>1, <1>8 DEF UpdateScheduledJobStats, Row
  <2> QED
    BY <1>2, <1>8, <2>1 DEF UpdateScheduledJobStats
<1>9. CASE UNCHANGED <<table, entries, running, reload>>
  BY <1>2, <1>9
<1>10. ASSUME NEW p \in Runs, Run(p) PROVE entries'[j][e] > 0
  BY <1>8, <1>9, <1>10 DEF Run, Fire, Read, Add, RunFails
<1>11. CASE Methods
  BY <1>3, <1>4, <1>5, <1>6, <1>7, <1>9, <1>11 DEF Methods, Stop, GetScheduledJob,
     UpdateFails, ProcessExit
<1> QED
  BY <1>9, <1>10, <1>11 DEF Next, vars

(* While the scheduler runs, no enabled job with a good expression is ever *)
(* without its cron entry, unless an error, reported or not, cut the last   *)
(* reload short.                                                           *)
THEOREM NoJobUnscheduled == Spec => []EnabledIsScheduled
<1>1. Init => EnabledIsScheduled
  BY DEF Init, EnabledIsScheduled
<1>2. TypeOK /\ TypeOK' /\ EnabledIsScheduled /\ [Next]_vars => EnabledIsScheduled'
  BY ScheduleKept
<1> QED
  BY <1>1, <1>2, TypeCorrect, PTL DEF Spec

(* Neither a removal nor an INSERT leaves a link to a job that is gone.    *)
LEMMA LinksKeptLive ==
  ASSUME TypeOK, LinksAreLive, [Next]_vars
  PROVE  LinksAreLive'
<1> USE DEF LinksAreLive, TypeOK, table, run, queueCols, trouble
<1>1. ASSUME NEW j \in Jobs, RemoveScheduledJob(j) PROVE LinksAreLive'
  BY <1>1 DEF RemoveScheduledJob, LinksWithout
<1>2. ASSUME NEW p \in Runs, Add(p) PROVE LinksAreLive'
  BY <1>2 DEF Add, LinkHolds, Done
<1>3. ASSUME UNCHANGED scheduledId, present \subseteq present' PROVE LinksAreLive'
  BY <1>3
<1>4. ASSUME NEW p \in Runs, Run(p) PROVE LinksAreLive'
  BY <1>2, <1>3, <1>4 DEF Run, Fire, Read, UpdateScheduledJobStats, RunFails
<1>5. CASE Methods
  BY <1>1, <1>3, <1>5 DEF Methods, Start, Stop, AddScheduledJob, GetScheduledJob,
     UpdateScheduledJob, UpdateFails, SetScheduledJobEnabled, ProcessExit
<1> QED
  BY <1>3, <1>4, <1>5 DEF Next, vars

(* No queue row ever names a scheduled job that is gone.                   *)
THEOREM NoDanglingLink == Spec => []LinksAreLive
<1>1. Init => LinksAreLive
  BY DEF Init, LinksAreLive
<1>2. TypeOK /\ LinksAreLive /\ [Next]_vars => LinksAreLive'
  BY LinksKeptLive
<1> QED
  BY <1>1, <1>2, TypeCorrect, PTL DEF Spec

(* Once removed, a job is never queued again, whatever entries and runs of *)
(* it are left.                                                            *)
THEOREM RemovalIsFinal == Spec => RemovedIsQuiet
<1>1. ASSUME TypeOK, [Next]_vars, NEW j \in Jobs, j \notin present
      PROVE  triggered'[j] = triggered[j]
  <2>1. ASSUME NEW p \in Runs, Add(p) PROVE triggered'[j] = triggered[j]
    BY <1>1, <2>1 DEF Add, LinkHolds, queueCols, TypeOK
  <2>2. CASE UNCHANGED triggered
    BY <2>2
  <2>3. ASSUME NEW p \in Runs, Run(p) PROVE triggered'[j] = triggered[j]
    BY <2>1, <2>2, <2>3 DEF Run, Fire, Read, UpdateScheduledJobStats, RunFails, queueCols
  <2>4. CASE Methods
    BY <2>2, <2>4 DEF Methods, Start, Stop, AddScheduledJob, GetScheduledJob,
       UpdateScheduledJob, UpdateFails, SetScheduledJobEnabled, RemoveScheduledJob, ProcessExit,
       queueCols
  <2> QED
    BY <1>1, <2>2, <2>3, <2>4 DEF Next, vars, queueCols
<1>2. TypeOK /\ [Next]_vars =>
        [\A j \in Jobs : j < nextId /\ j \notin present => triggered'[j] = triggered[j]]_vars
  BY <1>1
<1> QED
  BY <1>2, TypeCorrect, PTL DEF Spec, RemovedIsQuiet

-----------------------------------------------------------------------------
(* run_count.  An id that AUTOINCREMENT has not reached has no entry, no   *)
(* run and no queue row, so a new job starts with nothing to count; after  *)
(* that, an INSERT counts a row and a goroutine that will count it, and    *)
(* the UPDATE moves that goroutine to run_count.                           *)
CountsAgree(j) ==
  /\ jobs[j].runCount + Uncounted(j) <= triggered[j]
  /\ faults = 0 => jobs[j].runCount + Uncounted(j) = triggered[j]

Counted ==
  /\ TypeOK
  /\ \A j \in present : j < nextId
  /\ \A p \in Runs : pc[p] # "off" => job[p] < nextId
  /\ \A j \in Jobs : j >= nextId => triggered[j] = 0 /\ \A e \in Exprs : entries[j][e] = 0
  /\ \A j \in present : CountsAgree(j)

(* The goroutines between the INSERT and the UPDATE are finitely many.     *)
LEMMA UncountedType ==
  ASSUME NEW j
  PROVE  /\ IsFiniteSet({p \in Runs : pc[p] = "stats" /\ job[p] = j})
         /\ Uncounted(j) \in Nat
<1>1. {p \in Runs : pc[p] = "stats" /\ job[p] = j} \in SUBSET Runs
  OBVIOUS
<1>2. IsFiniteSet({p \in Runs : pc[p] = "stats" /\ job[p] = j})
  BY <1>1, RunsAssumption, FS_Subset
<1> QED
  BY <1>2, FS_CardinalityType DEF Uncounted

(* A goroutine that ends is not counted any more.                          *)
LEMMA UncountedByOne ==
  ASSUME TypeOK, NEW p \in Runs, Done(p), NEW j \in Jobs
  PROVE  Uncounted(j)' = IF pc[p] = "stats" /\ job[p] = j THEN Uncounted(j) - 1
                                                           ELSE Uncounted(j)
<1> DEFINE Before == {q \in Runs : pc[q] = "stats" /\ job[q] = j}
           After == {q \in Runs : pc'[q] = "stats" /\ job'[q] = j}
<1>1. After = Before \ {p}
  BY DEF Done, TypeOK
<1>2. IsFiniteSet(Before)
  BY UncountedType
<1>3. Cardinality(After) = IF p \in Before THEN Cardinality(Before) - 1 ELSE Cardinality(Before)
  BY <1>1, <1>2, FS_RemoveElement
<1> QED
  BY <1>3 DEF Uncounted

(* A goroutine that has done the INSERT is one more.                       *)
LEMMA UncountedByOneMore ==
  ASSUME TypeOK, NEW p \in Runs, pc[p] = "add", pc' = [pc EXCEPT ![p] = "stats"], job' = job,
         NEW j \in Jobs
  PROVE  Uncounted(j)' = IF job[p] = j THEN Uncounted(j) + 1 ELSE Uncounted(j)
<1> DEFINE Before == {q \in Runs : pc[q] = "stats" /\ job[q] = j}
           After == {q \in Runs : pc'[q] = "stats" /\ job'[q] = j}
<1>1. After = IF job[p] = j THEN Before \cup {p} ELSE Before
  BY DEF TypeOK
<1>2. IsFiniteSet(Before) /\ p \notin Before
  BY UncountedType
<1>3. Cardinality(Before \cup {p}) = Cardinality(Before) + 1
  BY <1>2, FS_AddElement
<1> QED
  BY <1>1, <1>3 DEF Uncounted

(* Nobody is counted who was not, if no goroutine is at the UPDATE anew.   *)
LEMMA UncountedSame ==
  ASSUME NEW j,
         \A p \in Runs : (pc'[p] = "stats" /\ job'[p] = j) <=> (pc[p] = "stats" /\ job[p] = j)
  PROVE  Uncounted(j)' = Uncounted(j)
<1>1. {p \in Runs : pc'[p] = "stats" /\ job'[p] = j} = {p \in Runs : pc[p] = "stats" /\ job[p] = j}
  OBVIOUS
<1> QED
  BY <1>1 DEF Uncounted

(* A reload gives entries only to ids of the table.                        *)
LEMMA LoadLeavesOthers ==
  ASSUME TypeOK, NEW rows, LoadScheduledJobs(rows, present), NEW j \in Jobs, j \notin present
  PROVE  \A e \in Exprs : entries'[j][e] = entries[j][e]
BY DEF LoadScheduledJobs, AddEntries, Scheduled, TypeOK

(* A reload neither touches the ids to come nor ends the fault count.      *)
LEMMA LoadKeepsCounts ==
  ASSUME Counted, NEW rows, LoadScheduledJobs(rows, present)
  PROVE  /\ \A j \in Jobs : j >= nextId => \A e \in Exprs : entries'[j][e] = entries[j][e]
         /\ faults' = 0 => faults = 0
<1>1. \A j \in Jobs : j >= nextId => j \notin present
  BY DEF Counted, Jobs, TypeOK
<1>2. faults' = 0 => faults = 0
  BY CronAssumption DEF LoadScheduledJobs, Counted, TypeOK
<1> QED
  BY <1>1, <1>2, LoadLeavesOthers DEF Counted

(* Steps by which no goroutine gets to the UPDATE or leaves it, no row is  *)
(* queued and no run_count written.                                        *)
LEMMA CountsUntouched ==
  ASSUME Counted, TypeOK', UNCHANGED <<triggered, nextId>>, present' \subseteq present,
         \A p \in Runs : pc'[p] # "off" => job'[p] < nextId,
         \A j \in present, p \in Runs :
           (pc'[p] = "stats" /\ job'[p] = j) <=> (pc[p] = "stats" /\ job[p] = j),
         \A j \in present' : jobs'[j].runCount = jobs[j].runCount,
         \A j \in Jobs : j >= nextId => \A e \in Exprs : entries'[j][e] = entries[j][e],
         faults' = 0 => faults = 0
  PROVE  Counted'
<1>1. ASSUME NEW j \in present' PROVE CountsAgree(j)'
  <2>1. Uncounted(j)' = Uncounted(j)
    BY <1>1, UncountedSame
  <2> QED
    BY <1>1, <2>1 DEF Counted, CountsAgree
<1> QED
  BY <1>1 DEF Counted

(* A new row starts with nothing counted and nothing to count.             *)
LEMMA NewJobCounts ==
  ASSUME Counted, TypeOK', NEW e \in Exprs, NEW enabled \in BOOLEAN, AddScheduledJob(e, enabled)
  PROVE  Counted'
<1>1. TypeOK /\ nextId \in Jobs /\ nextId \in Nat /\ \A j \in Jobs : j \in Nat
  BY CronAssumption DEF Counted, AddScheduledJob, Jobs
<1>2. /\ nextId' = nextId + 1 /\ present' = present \cup {nextId}
      /\ jobs' = [jobs EXCEPT ![nextId] = [expr |-> e, enabled |-> enabled, runCount |-> 0]]
      /\ UNCHANGED <<pc, job, triggered, faults>>
  BY DEF AddScheduledJob, run, queueCols, trouble
<1>3. ASSUME NEW j \in present' PROVE CountsAgree(j)'
  <2>1. Uncounted(j)' = Uncounted(j)
    BY <1>2, UncountedSame
  <2>2. CASE j = nextId
    <3>1. {p \in Runs : pc[p] = "stats" /\ job[p] = j} = {}
      BY <1>1, <2>2 DEF Counted
    <3>2. Uncounted(j) = 0
      BY <3>1, FS_EmptySet DEF Uncounted
    <3>3. jobs'[j].runCount = 0 /\ triggered'[j] = 0
      BY <1>1, <1>2, <2>2 DEF Counted, TypeOK
    <3> QED
      BY <2>1, <3>2, <3>3 DEF CountsAgree
  <2>3. CASE j # nextId
    <3>1. j \in present /\ jobs'[j] = jobs[j] /\ triggered'[j] = triggered[j] /\ faults' = faults
      BY <1>1, <1>2, <1>3, <2>3 DEF TypeOK
    <3> QED
      BY <2>1, <3>1 DEF Counted, CountsAgree
  <2> QED
    BY <2>2, <2>3
<1>4. \A j \in Jobs : j < nextId => j < nextId'
  BY <1>1, <1>2
<1>5. \A j \in present' : j < nextId'
  BY <1>1, <1>2, <1>4 DEF Counted, TypeOK
<1>6. \A p \in Runs : pc'[p] # "off" => job'[p] < nextId'
  BY <1>1, <1>2, <1>4 DEF Counted, TypeOK
<1>7. ASSUME NEW j \in Jobs, j >= nextId'
      PROVE  triggered'[j] = 0 /\ \A x \in Exprs : entries'[j][x] = 0
  <2>1. j >= nextId /\ j # nextId
    BY <1>1, <1>2, <1>7
  <2>2. \A x \in Exprs : entries'[j][x] = entries[j][x]
    BY <1>1, <2>1 DEF AddScheduledJob, EntryOfNewJob, TypeOK
  <2> QED
    BY <1>2, <2>1, <2>2 DEF Counted
<1> QED
  BY <1>3, <1>5, <1>6, <1>7 DEF Counted

(* The end of the process counts as a fault, and ends every goroutine.     *)
LEMMA ExitCounts ==
  ASSUME Counted, TypeOK', ProcessExit
  PROVE  Counted'
<1>1. /\ TypeOK /\ faults' = faults + 1 /\ faults \in Nat /\ entries' = NoEntries
      /\ pc' = [p \in Runs |-> "off"] /\ UNCHANGED <<table, triggered>>
  BY CronAssumption DEF Counted, TypeOK, ProcessExit, queueCols
<1>2. ASSUME NEW j \in present' PROVE CountsAgree(j)'
  <2>1. {p \in Runs : pc'[p] = "stats" /\ job'[p] = j} = {}
    BY <1>1
  <2>2. Uncounted(j)' = 0
    BY <2>1, FS_EmptySet DEF Uncounted
  <2>3. j \in present /\ j \in Jobs /\ jobs' = jobs /\ triggered' = triggered
    BY <1>1, <1>2 DEF table, TypeOK
  <2>4. jobs[j].runCount + Uncounted(j) <= triggered[j] /\ Uncounted(j) \in Nat
    BY <2>3, UncountedType DEF Counted, CountsAgree
  <2>5. jobs[j].runCount \in Nat /\ triggered[j] \in Nat
    BY <1>1, <2>3 DEF TypeOK, Row
  <2>6. jobs'[j].runCount + 0 <= triggered'[j] /\ faults' # 0
    BY <1>1, <2>3, <2>4, <2>5
  <2> QED
    BY <2>2, <2>6 DEF CountsAgree
<1> QED
  BY <1>1, <1>2 DEF Counted, table, NoEntries

(* The methods and the handler: an update writes no run_count back.        *)
LEMMA MethodsKeepCounts ==
  ASSUME Counted, TypeOK', Methods
  PROVE  Counted'
<1> USE DEF table, run, queueCols, trouble
<1>1. TypeOK /\ \A p \in Runs : pc[p] # "off" => job[p] < nextId
  BY DEF Counted
<1>2. ASSUME UNCHANGED <<pc, job, triggered, nextId, entries>>, present' \subseteq present,
             jobs' = jobs, faults' = 0 => faults = 0
      PROVE  Counted'
  BY <1>1, <1>2, CountsUntouched
<1>3. ASSUME UNCHANGED <<pc, job, triggered, nextId, present>>, LoadScheduledJobs(jobs', present),
             \A j \in present : jobs'[j].runCount = jobs[j].runCount
      PROVE  Counted'
  BY <1>1, <1>3, LoadKeepsCounts, CountsUntouched
<1>4. CASE Start
  BY <1>3, <1>4 DEF Start
<1>5. ASSUME NEW c \in Callers, NEW e \in Exprs, NEW enabled \in BOOLEAN,
             UpdateScheduledJob(c, e, enabled)
      PROVE  Counted'
  <2>1. \A j \in present : jobs'[j].runCount = jobs[j].runCount
    BY <1>1, <1>5 DEF UpdateScheduledJob, WithColumns, TypeOK, Row
  <2> QED
    BY <1>3, <1>5, <2>1 DEF UpdateScheduledJob
<1>6. ASSUME NEW j \in Jobs, NEW enabled \in BOOLEAN, SetScheduledJobEnabled(j, enabled)
      PROVE  Counted'
  <2>1. \A i \in present : jobs'[i].runCount = jobs[i].runCount
    BY <1>1, <1>6 DEF SetScheduledJobEnabled, TypeOK, Row
  <2> QED
    BY <1>3, <1>6, <2>1 DEF SetScheduledJobEnabled
<1>7. ASSUME NEW j \in Jobs, RemoveScheduledJob(j) PROVE Counted'
  BY <1>2, <1>7 DEF RemoveScheduledJob
<1>8. ASSUME NEW c \in Callers, UpdateFails(c) PROVE Counted'
  BY <1>1, <1>2, <1>8, CronAssumption DEF UpdateFails, TypeOK
<1>9. ASSUME Stop \/ \E c \in Callers, j \in Jobs : GetScheduledJob(c, j) PROVE Counted'
  BY <1>2, <1>9 DEF Stop, GetScheduledJob
<1> QED
  BY <1>4, <1>5, <1>6, <1>7, <1>8, <1>9, NewJobCounts, ExitCounts DEF Methods

(* The INSERT: one row more, and one goroutine that has to count it.       *)
LEMMA AddCounts ==
  ASSUME Counted, TypeOK', NEW p \in Runs, Add(p)
  PROVE  Counted'
<1>1. /\ TypeOK /\ pc[p] = "add" /\ job[p] \in Jobs /\ job[p] < nextId
      /\ UNCHANGED <<table, entries, faults>>
  BY DEF Counted, Add, TypeOK, trouble
<1>2. CASE LinkHolds(job[p])
  <2>1. /\ triggered' = [triggered EXCEPT ![job[p]] = @ + 1]
        /\ pc' = [pc EXCEPT ![p] = "stats"] /\ job' = job
    BY <1>2 DEF Add
  <2>2. ASSUME NEW j \in present' PROVE CountsAgree(j)'
    <3>1. j \in present /\ j \in Jobs /\ jobs' = jobs
      BY <1>1, <2>2 DEF TypeOK, table
    <3>2. Uncounted(j)' = IF job[p] = j THEN Uncounted(j) + 1 ELSE Uncounted(j)
      BY <1>1, <2>1, <3>1, UncountedByOneMore
    <3>3. triggered'[j] = IF job[p] = j THEN triggered[j] + 1 ELSE triggered[j]
      BY <1>1, <2>1, <3>1 DEF TypeOK
    <3>4. jobs[j].runCount \in Nat /\ triggered[j] \in Nat /\ Uncounted(j) \in Nat
      BY <1>1, <3>1, UncountedType DEF TypeOK, Row
    <3>5. CountsAgree(j)
      BY <3>1 DEF Counted
    <3> QED
      BY <1>1, <3>1, <3>2, <3>3, <3>4, <3>5 DEF CountsAgree
  <2>3. \A q \in Runs : pc'[q] # "off" => job'[q] < nextId'
    BY <1>1, <2>1 DEF Counted, TypeOK, table
  <2>4. \A j \in Jobs : j >= nextId' => triggered'[j] = 0 /\ \A e \in Exprs : entries'[j][e] = 0
    <3>1. \A j \in Jobs : j >= nextId => j # job[p]
      BY <1>1 DEF TypeOK, Jobs
    <3> QED
      BY <1>1, <2>1, <3>1 DEF Counted, TypeOK, table
  <2> QED
    BY <1>1, <2>2, <2>3, <2>4 DEF Counted, table
<1>3. CASE ~LinkHolds(job[p])
  <2>1. Done(p) /\ UNCHANGED triggered
    BY <1>3 DEF Add, queueCols
  <2>2. \A q \in Runs : pc'[q] # "off" => pc[q] # "off" /\ job'[q] = job[q]
    BY <1>1, <2>1 DEF Done, TypeOK
  <2>3. \A j \in present, q \in Runs :
          (pc'[q] = "stats" /\ job'[q] = j) <=> (pc[q] = "stats" /\ job[q] = j)
    BY <1>1, <2>1 DEF Done, TypeOK
  <2> QED
    BY <1>1, <2>1, <2>2, <2>3, CountsUntouched DEF Counted, table
<1> QED
  BY <1>2, <1>3

(* The UPDATE: the goroutine's row is counted, if the job is still there.  *)
LEMMA StatsCount ==
  ASSUME Counted, TypeOK', NEW p \in Runs, UpdateScheduledJobStats(p)
  PROVE  Counted'
<1>1. /\ TypeOK /\ pc[p] = "stats" /\ Done(p)
      /\ UNCHANGED <<present, nextId, entries, triggered, faults>>
  BY DEF Counted, UpdateScheduledJobStats, queueCols, trouble
<1>2. ASSUME NEW j \in present' PROVE CountsAgree(j)'
  <2>1. j \in present /\ j \in Jobs
    BY <1>1, <1>2 DEF TypeOK
  <2>2. Uncounted(j)' = IF job[p] = j THEN Uncounted(j) - 1 ELSE Uncounted(j)
    BY <1>1, <2>1, UncountedByOne
  <2>3. jobs'[j].runCount = IF job[p] = j THEN jobs[j].runCount + 1 ELSE jobs[j].runCount
    BY <1>1, <2>1 DEF UpdateScheduledJobStats, TypeOK, Row
  <2>4. jobs[j].runCount \in Nat /\ triggered[j] \in Nat /\ Uncounted(j) \in Nat
    BY <1>1, <2>1, UncountedType DEF TypeOK, Row
  <2>5. CountsAgree(j)
    BY <2>1 DEF Counted
  <2> QED
    BY <1>1, <2>2, <2>3, <2>4, <2>5 DEF CountsAgree
<1>3. \A q \in Runs : pc'[q] # "off" => job'[q] < nextId'
  BY <1>1 DEF Counted, Done, TypeOK
<1> QED
  BY <1>1, <1>2, <1>3 DEF Counted

(* A goroutine that ends early may leave its row uncounted: a fault.       *)
LEMMA FailureCounts ==
  ASSUME Counted, TypeOK', NEW p \in Runs, RunFails(p)
  PROVE  Counted'
<1>1. /\ TypeOK /\ Done(p) /\ faults' # 0 /\ UNCHANGED <<table, entries, triggered>>
  BY CronAssumption DEF Counted, RunFails, queueCols, TypeOK
<1>2. ASSUME NEW j \in present' PROVE CountsAgree(j)'
  <2>1. j \in present /\ j \in Jobs /\ jobs' = jobs
    BY <1>1, <1>2 DEF TypeOK, table
  <2>2. Uncounted(j)' \in {Uncounted(j), Uncounted(j) - 1}
    BY <1>1, <2>1, UncountedByOne
  <2>3. jobs[j].runCount \in Nat /\ triggered[j] \in Nat /\ Uncounted(j) \in Nat
    BY <1>1, <2>1, UncountedType DEF TypeOK, Row
  <2>4. CountsAgree(j)
    BY <2>1 DEF Counted
  <2> QED
    BY <1>1, <2>1, <2>2, <2>3, <2>4 DEF CountsAgree
<1>3. \A q \in Runs : pc'[q] # "off" => job'[q] < nextId'
  BY <1>1 DEF Counted, Done, TypeOK, table
<1> QED
  BY <1>1, <1>2, <1>3 DEF Counted, table

(* So every step of a run keeps the count; one that starts is of a job     *)
(* that has an entry, and no id to come has.                               *)
LEMMA RunKeepsCounts ==
  ASSUME Counted, TypeOK', NEW p \in Runs, Run(p)
  PROVE  Counted'
<1> USE DEF table, run, queueCols, trouble
<1>1. TypeOK
  BY DEF Counted
<1>2. ASSUME NEW j \in Jobs, Fire(p, j) PROVE Counted'
  <2>1. j < nextId
    BY <1>1, <1>2 DEF Counted, Fire, Jobs, TypeOK
  <2>2. \A q \in Runs : pc'[q] # "off" => job'[q] < nextId
    BY <1>1, <1>2, <2>1 DEF Counted, Fire, TypeOK
  <2>3. \A i \in present, q \in Runs :
          (pc'[q] = "stats" /\ job'[q] = i) <=> (pc[q] = "stats" /\ job[q] = i)
    BY <1>1, <1>2 DEF Fire, TypeOK
  <2> QED
    BY <1>2, <2>2, <2>3, CountsUntouched DEF Fire
<1>3. CASE Read(p)
  <2>1. \A q \in Runs : pc'[q] # "off" => pc[q] # "off" /\ job'[q] = job[q]
    BY <1>1, <1>3 DEF Read, Done, TypeOK
  <2>2. \A i \in present, q \in Runs :
          (pc'[q] = "stats" /\ job'[q] = i) <=> (pc[q] = "stats" /\ job[q] = i)
    BY <1>1, <1>3 DEF Read, Done, TypeOK
  <2> QED
    BY <1>3, <2>1, <2>2, CountsUntouched DEF Counted, Read
<1> QED
  BY <1>2, <1>3, AddCounts, StatsCount, FailureCounts DEF Run

(* run_count, with the goroutines that have still to write it, never says  *)
(* more than the job has queued, and exactly that while nothing failed.    *)
THEOREM RunCountCorrect == Spec => []RunCountTellsTruth
<1>1. Init => Counted
  <2>1. ASSUME Init PROVE Counted
    BY <2>1, InitType DEF Counted, Init, NoEntries
  <2> QED
    BY <2>1
<1>2. Counted /\ [Next]_vars => Counted'
  <2>1. ASSUME Counted, [Next]_vars PROVE Counted'
    <3>1. TypeOK /\ TypeOK'
      BY <2>1, StepType DEF Counted
    <3>2. CASE UNCHANGED vars
      BY <2>1, <3>1, <3>2, CountsUntouched DEF Counted, vars, table, run, queueCols, trouble
    <3> QED
      BY <2>1, <3>1, <3>2, MethodsKeepCounts, RunKeepsCounts DEF Next
  <2> QED
    BY <2>1
<1>3. Counted => RunCountTellsTruth
  BY DEF Counted, CountsAgree, RunCountTellsTruth
<1> QED
  BY <1>1, <1>2, <1>3, PTL DEF Spec
=============================================================================
