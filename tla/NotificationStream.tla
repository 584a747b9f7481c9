-------------------------- MODULE NotificationStream --------------------------
(***************************************************************************)
(* The queue of NotificationQueue under callers who never stop adding.     *)
(*                                                                         *)
(* AUTOINCREMENT numbers rows for ever; a model with MaxJobs ids ends, and *)
(* in one that ends every row gets its turn.  But nothing reads an id      *)
(* except to compare it with others, so the newest id can be given out     *)
(* again once its row is gone and no goroutine has a copy of it: the next  *)
(* row is then as much newer than the rows that are left as it would be    *)
(* with an id of its own.  So MaxJobs bounds the rows there are at once,   *)
(* and no longer how many there ever are.                                  *)
(***************************************************************************)
EXTENDS NotificationQueue

Recycle(j) ==
  /\ nextId = j + 1
  /\ j \notin present
  /\ \A p \in Processors : j \notin batch[p]
  /\ nextId' = j
  /\ queue' = [queue EXCEPT ![j] = BlankRow]
  /\ attempts' = [attempts EXCEPT ![j] = 0]
  /\ confirmed' = [confirmed EXCEPT ![j] = [s \in Services |-> 0]]
  /\ UNCHANGED <<present, life, pc, work, faults>>

EndlessNext == Next \/ \E j \in Jobs : Recycle(j)
EndlessSpec == Init /\ [][EndlessNext]_vars /\ Fairness

-----------------------------------------------------------------------------
Unsettled(j) == j \in present /\ queue[j].status \notin Decided

(* A whole batch of rows that are due has a higher priority than job j.    *)
Outranked(j) ==
  Cardinality({i \in Due : queue[i].priority > queue[j].priority}) >= BatchLimit

(* A row is left unsettled for ever only if again and again a whole batch  *)
(* of rows is due that callers gave a higher priority: GetPendingJobs      *)
(* sorts by priority and does not age rows, so those who never stop adding *)
(* more urgent jobs can starve a row; nobody else can, neither by as many  *)
(* newer rows of the same priority nor by rows that wait for a retry.      *)
OnlyUrgentRowsStarve == \A j \in Jobs : []<>(~Unsettled(j) \/ Outranked(j))
=============================================================================
