------------------------------ MODULE Dispatch ------------------------------
(***************************************************************************)
(* Apprise.NotifyAll on an Apprise that several goroutines use at once,    *)
(* and the MetricsManager they share: the goroutine NotifyAll starts for   *)
(* each service, the two calls with which it records the outcome, and      *)
(* GetAllServiceMetrics.                                                   *)
(*                                                                         *)
(* The lock mm.mu is Go's sync.RWMutex: Lock announces the writer, waits   *)
(* until the readers are gone, and meanwhile RLock blocks.  Critical       *)
(* sections that do not block in the middle are single steps; those of     *)
(* serviceMetric.mu and GetServiceMetrics by itself are among them.        *)
(***************************************************************************)
EXTENDS Integers, FiniteSets

CONSTANTS
  Calls,    \* calls of NotifyAll
  Slots,    \* indices of Apprise.services
  Services, \* service ids
  ServiceOf, \* the id of the service at an index
  Readers   \* goroutines that call GetAllServiceMetrics, again and again

ASSUME DispatchAssumption ==
  /\ IsFiniteSet(Calls) /\ IsFiniteSet(Slots)
  /\ ServiceOf \in [Slots -> Services]

VARIABLES
  call,      \* where each NotifyAll is
  pc,        \* where the goroutine of each call and slot is
  responses, \* what it put at its index
  known,     \* the keys of mm.serviceMetrics
  sent,      \* TotalSent of each service
  failed,    \* TotalFailed of each service
  reading,   \* the readers inside GetAllServiceMetrics, holding mm.mu
  todo,      \* the keys a reader has not copied yet
  snapshot   \* the TotalSent it has copied for the others

metrics == <<known, sent, failed>>
reader == <<reading, todo, snapshot>>
vars == <<call, pc, responses, metrics, reader>>

Outcomes == {"success", "failed"}
Zero == [s \in Services |-> 0]

Init ==
  /\ call = [c \in Calls |-> "off"]
  /\ pc = [c \in Calls |-> [i \in Slots |-> "off"]]
  /\ responses = [c \in Calls |-> [i \in Slots |-> "none"]]
  /\ known = {} /\ sent = Zero /\ failed = Zero
  /\ reading = {} /\ todo = [r \in Readers |-> {}] /\ snapshot = [r \in Readers |-> Zero]

-----------------------------------------------------------------------------
(* sync.RWMutex.                                                           *)

Announced == {"lockForError", "lockForRecord"}
WriterWaits == \E c \in Calls, i \in Slots : pc[c][i] \in Announced
CanRead == ~WriterWaits

(* A mistake for the runs to catch: a writer that takes the read lock.     *)
CanShare == TRUE
CanWrite == reading = {}

Goto(c, i, label) == pc' = [pc EXCEPT ![c][i] = label]

(* Lock: one writer at a time announces itself.                            *)
Lock(c, i, from, to) ==
  /\ pc[c][i] = from
  /\ ~WriterWaits
  /\ Goto(c, i, to)
  /\ UNCHANGED <<call, responses, metrics, reader>>

-----------------------------------------------------------------------------
(* NotifyAll and the goroutines it starts.                                 *)

NotifyAll(c) ==
  /\ call[c] = "off"
  /\ call' = [call EXCEPT ![c] = "waiting"]
  /\ pc' = [pc EXCEPT ![c] = [i \in Slots |-> "sending"]]
  /\ UNCHANGED <<responses, metrics, reader>>

Send(c, i) ==
  /\ pc[c][i] = "sending"
  /\ \E outcome \in Outcomes :
       /\ responses' = [responses EXCEPT ![c][i] = outcome]
       /\ Goto(c, i, IF outcome = "failed" THEN "error" ELSE "record")
  /\ UNCHANGED <<call, metrics, reader>>

(* A mistake for the runs to catch: the metrics kept by index.             *)
KeyOfSlot(i) == i

(* svc.GetServiceID().                                                     *)
Key(i) == ServiceOf[i]

(* RecordNotificationError: the entry is found or made under mm.mu, and    *)
(* counted on after that.                                                  *)
FindEntry(c, i) ==
  /\ pc[c][i] = "lockForError"
  /\ CanWrite
  /\ known' = known \cup {Key(i)}
  /\ Goto(c, i, "count")
  /\ UNCHANGED <<call, responses, sent, failed, reader>>

CountError(c, i) ==
  /\ pc[c][i] = "count"
  /\ failed' = [failed EXCEPT ![Key(i)] = @ + 1]
  /\ Goto(c, i, "record")
  /\ UNCHANGED <<call, responses, known, sent, reader>>

(* A mistake for the runs to catch: the status compared with another word. *)
NeverSuccess(status) == FALSE
IsSuccess(status) == status = "success"

RecordNotification(c, i) ==
  /\ pc[c][i] = "lockForRecord"
  /\ CanWrite
  /\ known' = known \cup {Key(i)}
  /\ IF IsSuccess(responses[c][i])
     THEN sent' = [sent EXCEPT ![Key(i)] = @ + 1] /\ UNCHANGED failed
     ELSE failed' = [failed EXCEPT ![Key(i)] = @ + 1] /\ UNCHANGED sent
  /\ Goto(c, i, "done")
  /\ UNCHANGED <<call, responses, reader>>

(* A mistake for the runs to catch: wg.Done as soon as the answer is there. *)
Answered(c) == \A i \in Slots : pc[c][i] # "sending"

(* wg.Wait.                                                                *)
AllDone(c) == \A i \in Slots : pc[c][i] = "done"

Return(c) ==
  /\ call[c] = "waiting"
  /\ AllDone(c)
  /\ call' = [call EXCEPT ![c] = "returned"]
  /\ UNCHANGED <<pc, responses, metrics, reader>>

-----------------------------------------------------------------------------
(* GetAllServiceMetrics.                                                   *)

(* A mistake for the runs to catch: the outer RLock left to the inner one. *)
NotHeld(r) == reading' = reading
Held(r) == reading' = reading \cup {r}

StartReading(r) ==
  /\ r \notin reading /\ todo[r] = {}
  /\ CanRead
  /\ Held(r)
  /\ todo' = [todo EXCEPT ![r] = known]
  /\ snapshot' = [snapshot EXCEPT ![r] = Zero]
  /\ UNCHANGED <<call, pc, responses, metrics>>

(* GetServiceMetrics takes the read lock again.                            *)
GetServiceMetrics(r, s) ==
  /\ s \in todo[r]
  /\ CanRead
  /\ snapshot' = [snapshot EXCEPT ![r][s] = sent[s]]
  /\ todo' = [todo EXCEPT ![r] = @ \ {s}]
  /\ UNCHANGED <<call, pc, responses, metrics, reading>>

FinishReading(r) ==
  /\ r \in reading /\ todo[r] = {}
  /\ reading' = reading \ {r}
  /\ UNCHANGED <<call, pc, responses, metrics, todo, snapshot>>

-----------------------------------------------------------------------------
Sender(c, i) ==
  \/ Send(c, i)
  \/ Lock(c, i, "error", "lockForError")
  \/ FindEntry(c, i)
  \/ CountError(c, i)
  \/ Lock(c, i, "record", "lockForRecord")
  \/ RecordNotification(c, i)

Reader(r) ==
  \/ \E s \in Services : GetServiceMetrics(r, s)
  \/ FinishReading(r)

Next ==
  \/ \E c \in Calls : NotifyAll(c) \/ Return(c)
  \/ \E c \in Calls, i \in Slots : Sender(c, i)
  \/ \E r \in Readers : StartReading(r) \/ Reader(r)

Spec == Init /\ [][Next]_vars

(* Goroutines that can run do, and a send returns.                         *)
Fairness ==
  /\ \A c \in Calls : WF_vars(Return(c))
  /\ \A c \in Calls, i \in Slots : SF_vars(Sender(c, i))
  /\ \A r \in Readers : SF_vars(Reader(r))

FairSpec == Spec /\ Fairness

-----------------------------------------------------------------------------
(* Properties. *)

TypeOK ==
  /\ call \in [Calls -> {"off", "waiting", "returned"}]
  /\ pc \in [Calls -> [Slots -> {"off", "sending", "error", "lockForError", "count",
                                 "record", "lockForRecord", "done"}]]
  /\ responses \in [Calls -> [Slots -> Outcomes \cup {"none"}]]
  /\ known \subseteq Services /\ sent \in [Services -> Nat] /\ failed \in [Services -> Nat]
  /\ reading \subseteq Readers /\ todo \in [Readers -> SUBSET Services]
  /\ snapshot \in [Readers -> [Services -> Nat]]

(* What GetAllServiceMetrics has copied so far is one moment's totals: no  *)
(* send is recorded, and no service appears, between its first key and its *)
(* last.  (TotalFailed is no such thing: RecordNotificationError counts    *)
(* outside mm.mu.)                                                         *)
SnapshotIsConsistent ==
  \A r \in Readers, s \in Services :
    (r \in reading \/ todo[r] # {}) /\ s \notin todo[r] => snapshot[r][s] = sent[s]

(* When NotifyAll returns, each index holds the outcome of its own service *)
(* and that outcome has been recorded, whatever other calls do.            *)
ReturnIsComplete ==
  \A c \in Calls : call[c] = "returned" =>
    \A i \in Slots : pc[c][i] = "done" /\ responses[c][i] \in Outcomes
                     /\ ServiceOf[i] \in known

(* TotalSent counts each successful send once, though goroutines of one    *)
(* service record at the same time: exactly, once all calls have returned. *)
Answers(s, outcome) ==
  {x \in Calls \X Slots : ServiceOf[x[2]] = s /\ responses[x[1]][x[2]] = outcome}

SentTellsTruth ==
  (\A c \in Calls : call[c] # "waiting") =>
    \A s \in Services : sent[s] = Cardinality(Answers(s, "success"))

(* Dispatch implements NotifyContract: an answer is counted when its       *)
(* goroutine is done, and a read gets all of its totals at the moment it   *)
(* takes mm.mu, those it has yet to copy included.                         *)
Counted == {x \in Calls \X Slots : pc[x[1]][x[2]] = "done"}
Seen(r) == [s \in Services |-> IF s \in todo[r] THEN sent[s] ELSE snapshot[r][s]]

Contract == INSTANCE NotifyContract WITH
  answer <- responses,
  counted <- Counted,
  seen <- [r \in Readers |-> Seen(r)]

ContractSpec == Contract!Spec

(* TotalFailed counts each failed send once, at most: what the tests of    *)
(* RecordNotification and of RecordNotificationError expect of a failure.  *)
FailuresCountedOnce ==
  \A s \in Services : failed[s] <= Cardinality(Answers(s, "failed"))

(* A call that has started its sends returns: what goroutine-safe means    *)
(* for callers who also read the metrics.                                  *)
CallsReturn == \A c \in Calls : call[c] = "waiting" ~> call[c] = "returned"
=============================================================================
