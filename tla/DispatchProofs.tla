--------------------------- MODULE DispatchProofs ---------------------------
(***************************************************************************)
(* What holds of Dispatch for every number of calls, services and readers. *)
(***************************************************************************)
EXTENDS Dispatch, FiniteSetTheorems, TLAPS

(* Every step keeps the types.                                             *)
LEMMA StepType ==
  ASSUME TypeOK, [Next]_vars
  PROVE  TypeOK'
<1> USE DispatchAssumption DEF TypeOK, metrics, reader, Outcomes
<1>1. ASSUME NEW c \in Calls, NotifyAll(c) PROVE TypeOK'
  BY <1>1 DEF NotifyAll
<1>2. ASSUME NEW c \in Calls, Return(c) PROVE TypeOK'
  BY <1>2 DEF Return
<1>3. ASSUME NEW c \in Calls, NEW i \in Slots, Sender(c, i) PROVE TypeOK'
  <2>1. CASE Send(c, i)
    BY <2>1 DEF Send, Goto
  <2>2. ASSUME NEW from, NEW to \in Announced, Lock(c, i, from, to) PROVE TypeOK'
    BY <2>2 DEF Lock, Goto, Announced
  <2>3. CASE FindEntry(c, i)
    <3>1. known' \subseteq Services
      BY <2>3 DEF FindEntry, Key
    <3> QED
      BY <2>3, <3>1 DEF FindEntry, Goto
  <2>4. CASE CountError(c, i)
    BY <2>4 DEF CountError, Goto, Key
  <2>5. CASE RecordNotification(c, i)
    <3>1. Key(i) \in Services
      BY DEF Key
    <3>2. sent' \in [Services -> Nat]
      BY <2>5, <3>1 DEF RecordNotification
    <3>3. failed' = failed \/ failed' = [failed EXCEPT ![Key(i)] = @ + 1]
      BY <2>5 DEF RecordNotification
    <3>4. failed' \in [Services -> Nat]
      BY <3>1, <3>3
    <3>5. known' \subseteq Services
      BY <2>5, <3>1 DEF RecordNotification
    <3>6. pc' = [pc EXCEPT ![c][i] = "done"] /\ UNCHANGED <<call, responses, reader>>
      BY <2>5 DEF RecordNotification, Goto
    <3> QED
      BY <3>2, <3>4, <3>5, <3>6
  <2> QED
    BY <1>3, <2>1, <2>2, <2>3, <2>4, <2>5 DEF Sender, Announced
<1>4. ASSUME NEW r \in Readers, StartReading(r) PROVE TypeOK'
  BY <1>4 DEF StartReading, Held, Zero
<1>5. ASSUME NEW r \in Readers, Reader(r) PROVE TypeOK'
  <2>1. ASSUME NEW s \in Services, GetServiceMetrics(r, s) PROVE TypeOK'
    <3>1. snapshot' \in [Readers -> [Services -> Nat]] /\ todo' \in [Readers -> SUBSET Services]
      BY <2>1 DEF GetServiceMetrics
    <3> QED
      BY <2>1, <3>1 DEF GetServiceMetrics
  <2> QED
    BY <1>5, <2>1 DEF Reader, FinishReading
<1>6. CASE UNCHANGED vars
  BY <1>6 DEF vars
<1> QED
  BY <1>1, <1>2, <1>3, <1>4, <1>5, <1>6 DEF Next

(* So are the initial states.                                              *)
LEMMA InitType == Init => TypeOK
BY DEF Init, TypeOK, Zero

(* Calls, locks, counters and snapshots are always well-formed.            *)
THEOREM TypeCorrect == Spec => []TypeOK
<1>1. TypeOK /\ [Next]_vars => TypeOK'
  BY StepType
<1> QED
  BY <1>1, InitType, PTL DEF Spec

-----------------------------------------------------------------------------
(* GetAllServiceMetrics under its read lock.                               *)

(* A key that is still to be copied is copied under the lock, and a        *)
(* service without an entry has no sends.                                  *)
ReadUnderLock ==
  /\ \A r \in Readers : todo[r] # {} => r \in reading
  /\ \A s \in Services \ known : sent[s] = 0
  /\ SnapshotIsConsistent

(* Only recorders change a total, and they wait for the readers to leave.  *)
LEMMA ReadersKeep ==
  ASSUME TypeOK, ReadUnderLock, [Next]_vars
  PROVE  ReadUnderLock'
<1> USE DispatchAssumption DEF ReadUnderLock, SnapshotIsConsistent, TypeOK, metrics, reader
<1>1. ASSUME UNCHANGED <<sent, reader>>, known \subseteq known' PROVE ReadUnderLock'
  BY <1>1
<1>2. ASSUME NEW c \in Calls, NEW i \in Slots, RecordNotification(c, i) PROVE ReadUnderLock'
  <2>1. reading = {} /\ UNCHANGED reader /\ known' = known \cup {Key(i)}
    BY <1>2 DEF RecordNotification, CanWrite
  <2>2. \A s \in Services \ known' : sent'[s] = 0
    BY <1>2, <2>1 DEF RecordNotification, Key
  <2> QED
    BY <2>1, <2>2
<1>3. ASSUME NEW c \in Calls, NEW i \in Slots, Sender(c, i) PROVE ReadUnderLock'
  BY <1>1, <1>2, <1>3 DEF Sender, Send, Lock, FindEntry, CountError
<1>4. ASSUME NEW r \in Readers, StartReading(r) PROVE ReadUnderLock'
  BY <1>4 DEF StartReading, Held, Zero
<1>5. ASSUME NEW r \in Readers, NEW s \in Services, GetServiceMetrics(r, s) PROVE ReadUnderLock'
  BY <1>5 DEF GetServiceMetrics
<1>6. ASSUME NEW r \in Readers, FinishReading(r) PROVE ReadUnderLock'
  BY <1>6 DEF FinishReading
<1>7. ASSUME NEW c \in Calls, NotifyAll(c) \/ Return(c) PROVE ReadUnderLock'
  BY <1>1, <1>7 DEF NotifyAll, Return
<1>8. CASE UNCHANGED vars
  BY <1>1, <1>8 DEF vars
<1> QED
  BY <1>3, <1>4, <1>5, <1>6, <1>7, <1>8 DEF Next, Reader

(* Before any read there is nothing to copy.                               *)
LEMMA InitReads == Init => ReadUnderLock
BY DEF Init, ReadUnderLock, SnapshotIsConsistent, Zero

(* The totals GetAllServiceMetrics returns are those of one moment.        *)
THEOREM OneMoment == Spec => []SnapshotIsConsistent
<1>1. Init => ReadUnderLock
  BY InitReads
<1>2. TypeOK /\ ReadUnderLock /\ [Next]_vars => ReadUnderLock'
  BY ReadersKeep
<1>3. ReadUnderLock => SnapshotIsConsistent
  BY DEF ReadUnderLock
<1> QED
  BY <1>1, <1>2, <1>3, TypeCorrect, PTL DEF Spec

-----------------------------------------------------------------------------
(* What a goroutine has done by the time it is somewhere.                  *)

SenderShape(c, i) ==
  /\ pc[c][i] \in {"off", "sending"} <=> responses[c][i] = "none"
  /\ pc[c][i] = "done" => Key(i) \in known

CallShape(c) ==
  /\ call[c] = "off" => \A i \in Slots : pc[c][i] = "off"
  /\ call[c] = "returned" => \A i \in Slots : pc[c][i] = "done"

Shape == \A c \in Calls : CallShape(c) /\ \A i \in Slots : SenderShape(c, i)

(* A step of one goroutine, from a place between off and done.             *)
LEMMA SenderKeepsShape ==
  ASSUME TypeOK, Shape, NEW c \in Calls, NEW i \in Slots, Sender(c, i)
  PROVE  Shape'
<1> USE DEF TypeOK, Outcomes
<1>1. /\ pc[c][i] \notin {"off", "done"} /\ pc'[c][i] \notin {"off", "sending"}
      /\ pc[c][i] = "sending" => responses'[c][i] # "none"
      /\ pc[c][i] # "sending" => responses'[c][i] = responses[c][i]
      /\ pc'[c][i] = "done" => Key(i) \in known'
  <2>1. CASE Send(c, i)
    BY <2>1 DEF Send, Goto
  <2>2. CASE Lock(c, i, "error", "lockForError")
    BY <2>2 DEF Lock, Goto
  <2>3. CASE Lock(c, i, "record", "lockForRecord")
    BY <2>3 DEF Lock, Goto
  <2>4. CASE FindEntry(c, i)
    BY <2>4 DEF FindEntry, Goto
  <2>5. CASE CountError(c, i)
    BY <2>5 DEF CountError, Goto
  <2>6. CASE RecordNotification(c, i)
    BY <2>6 DEF RecordNotification, Goto
  <2> QED
    BY <2>1, <2>2, <2>3, <2>4, <2>5, <2>6 DEF Sender
<1>2. call' = call /\ known \subseteq known'
  BY DEF Sender, Send, Lock, FindEntry, CountError, RecordNotification, metrics
<1>3. \A d \in Calls, k \in Slots : d # c \/ k # i =>
        pc'[d][k] = pc[d][k] /\ responses'[d][k] = responses[d][k]
  BY DEF Sender, Send, Lock, FindEntry, CountError, RecordNotification, Goto
<1>4. ASSUME NEW d \in Calls PROVE CallShape(d)'
  <2>1. CASE d = c
    <3>1. call[c] # "off" /\ call[c] # "returned"
      BY <1>1 DEF Shape, CallShape
    <3> QED
      BY <1>2, <2>1, <3>1 DEF CallShape
  <2>2. CASE d # c
    <3>1. \A k \in Slots : pc'[d][k] = pc[d][k]
      BY <1>3, <2>2
    <3> QED
      BY <1>2, <3>1 DEF Shape, CallShape
  <2> QED
    BY <2>1, <2>2
<1>5. SenderShape(c, i)'
  BY <1>1 DEF Shape, SenderShape
<1>6. ASSUME NEW d \in Calls, NEW k \in Slots, d # c \/ k # i PROVE SenderShape(d, k)'
  BY <1>2, <1>3, <1>6 DEF Shape, SenderShape, Key
<1> QED
  BY <1>4, <1>5, <1>6 DEF Shape

(* Every step keeps the shape.                                             *)
LEMMA StepShape ==
  ASSUME TypeOK, Shape, [Next]_vars
  PROVE  Shape'
<1> USE DEF TypeOK, Shape, CallShape, SenderShape, Key
<1>1. ASSUME NEW c \in Calls, NotifyAll(c) PROVE Shape'
  <2>1. \A d \in Calls : CallShape(d)'
    BY <1>1 DEF NotifyAll
  <2>2. \A d \in Calls, i \in Slots : SenderShape(d, i)'
    BY <1>1 DEF NotifyAll, metrics
  <2> QED
    BY <2>1, <2>2
<1>2. ASSUME NEW c \in Calls, Return(c) PROVE Shape'
  BY <1>2 DEF Return, AllDone, metrics
<1>3. CASE UNCHANGED <<call, pc, responses, known>>
  BY <1>3
<1>4. ASSUME NEW r \in Readers, StartReading(r) \/ Reader(r) PROVE Shape'
  BY <1>3, <1>4 DEF StartReading, Reader, GetServiceMetrics, FinishReading, metrics
<1> QED
  BY <1>1, <1>2, <1>3, <1>4, SenderKeepsShape DEF Next, vars, metrics

(* Before any call the shape holds.                                        *)
LEMMA InitShape == Init => Shape
BY DEF Init, Shape, CallShape, SenderShape

(* A call that has returned has every answer, and every one is recorded.   *)
THEOREM ReturnsComplete == Spec => []ReturnIsComplete
<1>1. TypeOK /\ Shape /\ [Next]_vars => Shape'
  BY StepShape
<1>2. TypeOK /\ Shape => ReturnIsComplete
  <2> SUFFICES ASSUME TypeOK, Shape, NEW c \in Calls, call[c] = "returned", NEW i \in Slots
               PROVE  /\ pc[c][i] = "done" /\ responses[c][i] \in Outcomes
                      /\ ServiceOf[i] \in known
    BY DEF ReturnIsComplete
  <2>1. pc[c][i] = "done"
    BY DEF Shape, CallShape
  <2>2. responses[c][i] # "none" /\ ServiceOf[i] \in known
    BY <2>1 DEF Shape, SenderShape, Key
  <2>3. responses[c][i] \in Outcomes \cup {"none"}
    BY DEF TypeOK
  <2> QED
    BY <2>1, <2>2, <2>3
<1> QED
  BY <1>1, <1>2, InitShape, TypeCorrect, PTL DEF Spec

-----------------------------------------------------------------------------
(* TotalSent and the answers it counts.                                    *)

Recorded(s) ==
  {x \in Calls \X Slots : /\ ServiceOf[x[2]] = s
                          /\ responses[x[1]][x[2]] = "success"
                          /\ pc[x[1]][x[2]] = "done"}

SentCounts == \A s \in Services : sent[s] = Cardinality(Recorded(s))

(* Goroutines that do not arrive at done leave the sets alone.             *)
LEMMA NoneRecorded ==
  ASSUME SentCounts, sent' = sent,
         \A c \in Calls, i \in Slots :
           /\ pc'[c][i] = "done" <=> pc[c][i] = "done"
           /\ pc[c][i] = "done" => responses'[c][i] = responses[c][i]
  PROVE  SentCounts'
<1>1. \A s \in Services : Recorded(s)' = Recorded(s)
  BY DEF Recorded
<1> QED
  BY <1>1 DEF SentCounts

(* The one that does adds itself to the set of its service.                *)
LEMMA OneRecorded ==
  ASSUME TypeOK, SentCounts, NEW c \in Calls, NEW i \in Slots, RecordNotification(c, i)
  PROVE  SentCounts'
<1> USE DispatchAssumption DEF TypeOK
<1>1. /\ pc[c][i] = "lockForRecord" /\ responses' = responses
      /\ pc' = [pc EXCEPT ![c][i] = "done"]
  BY DEF RecordNotification, Goto
<1>2. \A s \in Services : IsFiniteSet(Recorded(s))
  <2>1. IsFiniteSet(Calls \X Slots)
    BY FS_Product
  <2> QED
    BY <2>1, FS_Subset DEF Recorded
<1>3. CASE responses[c][i] = "success"
  <2>1. sent' = [sent EXCEPT ![ServiceOf[i]] = @ + 1]
    BY <1>3 DEF RecordNotification, IsSuccess, Key
  <2>2. <<c, i>> \notin Recorded(ServiceOf[i])
    BY <1>1 DEF Recorded
  <2>3. Recorded(ServiceOf[i])' = Recorded(ServiceOf[i]) \cup {<<c, i>>}
    BY <1>1, <1>3 DEF Recorded
  <2>4. \A s \in Services \ {ServiceOf[i]} : Recorded(s)' = Recorded(s)
    BY <1>1 DEF Recorded
  <2>5. Cardinality(Recorded(ServiceOf[i])') = Cardinality(Recorded(ServiceOf[i])) + 1
    BY <1>2, <2>2, <2>3, FS_AddElement
  <2> QED
    BY <2>1, <2>4, <2>5 DEF SentCounts
<1>4. CASE responses[c][i] # "success"
  <2>1. sent' = sent
    BY <1>4 DEF RecordNotification, IsSuccess
  <2>2. \A s \in Services : Recorded(s)' = Recorded(s)
    BY <1>1, <1>4 DEF Recorded
  <2> QED
    BY <2>1, <2>2 DEF SentCounts
<1> QED
  BY <1>3, <1>4

(* Every step keeps the count.                                             *)
LEMMA StepCounts ==
  ASSUME TypeOK, Shape, SentCounts, [Next]_vars
  PROVE  SentCounts'
<1> USE DEF TypeOK
<1>1. ASSUME NEW c \in Calls, NotifyAll(c) PROVE SentCounts'
  BY <1>1, NoneRecorded DEF NotifyAll, Shape, CallShape, metrics
<1>2. CASE UNCHANGED <<pc, responses, sent>>
  BY <1>2, NoneRecorded
<1>3. ASSUME NEW c \in Calls, NEW i \in Slots, Sender(c, i) PROVE SentCounts'
  <2>1. CASE Send(c, i)
    BY <2>1, NoneRecorded DEF Send, Goto, metrics
  <2>2. CASE Lock(c, i, "error", "lockForError")
    BY <2>2, NoneRecorded DEF Lock, Goto, metrics
  <2>3. CASE Lock(c, i, "record", "lockForRecord")
    BY <2>3, NoneRecorded DEF Lock, Goto, metrics
  <2>4. CASE FindEntry(c, i)
    BY <2>4, NoneRecorded DEF FindEntry, Goto
  <2>5. CASE CountError(c, i)
    BY <2>5, NoneRecorded DEF CountError, Goto
  <2> QED
    BY <1>3, <2>1, <2>2, <2>3, <2>4, <2>5, OneRecorded DEF Sender
<1> QED
  BY <1>1, <1>2, <1>3 DEF Next, Return, StartReading, Reader, GetServiceMetrics, FinishReading,
     vars, metrics

(* Before any send there is nothing to count.                              *)
LEMMA InitCounts == Init => SentCounts
<1>1. ASSUME Init, NEW s \in Services PROVE Recorded(s) = {}
  BY <1>1 DEF Init, Recorded
<1> QED
  BY <1>1, FS_EmptySet DEF SentCounts, Init, Zero

(* Once every call that was started has returned, TotalSent is the number  *)
(* of successful sends of each service.                                    *)
THEOREM SendsCounted == Spec => []SentTellsTruth
<1>1. Init => SentCounts
  BY InitCounts
<1>2. TypeOK /\ Shape /\ SentCounts /\ [Next]_vars => SentCounts'
  BY StepCounts
<1>3. TypeOK /\ Shape /\ [Next]_vars => Shape'
  BY StepShape
<1>4. TypeOK /\ Shape /\ SentCounts => SentTellsTruth
  <2> SUFFICES ASSUME TypeOK, Shape, SentCounts, \A c \in Calls : call[c] # "waiting",
                      NEW s \in Services
               PROVE  sent[s] = Cardinality(Answers(s, "success"))
    BY DEF SentTellsTruth
  <2>1. \A c \in Calls, i \in Slots : responses[c][i] = "success" => pc[c][i] = "done"
    BY DEF TypeOK, Shape, CallShape, SenderShape
  <2>2. Answers(s, "success") = Recorded(s)
    BY <2>1 DEF Answers, Recorded
  <2> QED
    BY <2>2 DEF SentCounts
<1> QED
  BY <1>1, <1>2, <1>3, <1>4, InitShape, TypeCorrect, PTL DEF Spec

-----------------------------------------------------------------------------
(* Dispatch implements NotifyContract.                                     *)

(* What the contract's invariant is made of.                               *)
Consistent == TypeOK /\ Shape /\ ReadUnderLock /\ SentCounts

LEMMA StaysConsistent == Spec => []Consistent
<1>1. Init => Shape /\ ReadUnderLock /\ SentCounts
  BY InitShape, InitReads, InitCounts
<1>2. Consistent /\ [Next]_vars => Consistent'
  BY StepType, StepShape, ReadersKeep, StepCounts DEF Consistent
<1>3. Init => TypeOK
  BY InitType
<1>4. Init => Consistent
  BY <1>1, <1>3 DEF Consistent
<1> QED
  BY <1>2, <1>4, PTL DEF Spec

(* The totals of the contract are those of the metrics.                    *)
LEMMA TotalsAreSent == ASSUME TypeOK, SentCounts PROVE Contract!Totals = sent
<1>1. ASSUME NEW s \in Services
      PROVE  {x \in Counted : ServiceOf[x[2]] = s /\ responses[x[1]][x[2]] = "success"} = Recorded(s)
  BY DEF Counted, Recorded
<1>2. Contract!Totals = [s \in Services |-> Cardinality(Recorded(s))]
  <2>1. \A S : Contract!Cardinality(S) = Cardinality(S)
    BY Zenon DEF Contract!Cardinality, Cardinality
  <2> QED
    BY <1>1, <2>1 DEF Contract!Totals
<1>3. sent = [s \in Services |-> Cardinality(Recorded(s))]
  BY DEF SentCounts, TypeOK
<1> QED
  BY <1>2, <1>3

(* The steps the contract sees nothing of, but for the answers and calls.  *)
LEMMA CountedStays ==
  ASSUME \A c \in Calls, i \in Slots : pc'[c][i] = "done" <=> pc[c][i] = "done"
  PROVE  Counted' = Counted
BY DEF Counted

LEMMA SeenStays ==
  ASSUME UNCHANGED <<todo, snapshot>>, sent' = sent \/ \A r \in Readers : todo[r] = {}
  PROVE  [r \in Readers |-> Seen(r)]' = [r \in Readers |-> Seen(r)]
BY DEF Seen

(* Send is the contract's Answer.                                          *)
LEMMA SendAnswers ==
  ASSUME Consistent, NEW c \in Calls, NEW i \in Slots, Send(c, i)
  PROVE  Contract!Answer(c, i)
<1> USE DEF Consistent, TypeOK, metrics, reader
<1>1. call[c] = "waiting" /\ responses[c][i] = "none"
  BY DEF Send, Shape, CallShape, SenderShape
<1>2. \E outcome \in {"success", "failed"} : responses' = [responses EXCEPT ![c][i] = outcome]
  BY DEF Send, Outcomes
<1>3. Counted' = Counted
  BY CountedStays DEF Send, Goto
<1>4. [r \in Readers |-> Seen(r)]' = [r \in Readers |-> Seen(r)]
  BY SeenStays DEF Send
<1> QED
  BY <1>1, <1>2, <1>3, <1>4 DEF Send, Contract!Answer

(* RecordNotification is its Count: nobody is in the middle of a read.     *)
LEMMA RecordCounts ==
  ASSUME Consistent, NEW c \in Calls, NEW i \in Slots, RecordNotification(c, i)
  PROVE  Contract!Count(c, i)
<1> USE DEF Consistent, TypeOK, metrics, reader
<1>1. pc[c][i] = "lockForRecord" /\ pc' = [pc EXCEPT ![c][i] = "done"]
  BY DEF RecordNotification, Goto
<1>2. call[c] = "waiting" /\ responses[c][i] # "none"
  BY <1>1 DEF Shape, CallShape, SenderShape
<1>3. Counted' = Counted \cup {<<c, i>>} /\ <<c, i>> \notin Counted
  BY <1>1 DEF Counted
<1>4. \A r \in Readers : todo[r] = {}
  BY DEF RecordNotification, CanWrite, ReadUnderLock
<1>5. [r \in Readers |-> Seen(r)]' = [r \in Readers |-> Seen(r)]
  BY <1>4, SeenStays DEF RecordNotification
<1> QED
  BY <1>2, <1>3, <1>5 DEF RecordNotification, Contract!Count

(* StartReading is its Read, as what is not known has no sends.            *)
LEMMA StartReads ==
  ASSUME Consistent, NEW r \in Readers, StartReading(r)
  PROVE  Contract!Read(r)
<1> USE DEF Consistent, TypeOK, metrics, reader
<1>1. Contract!Totals = sent
  BY TotalsAreSent
<1>2. /\ todo' = [todo EXCEPT ![r] = known] /\ snapshot' = [snapshot EXCEPT ![r] = Zero]
      /\ sent' = sent /\ pc' = pc /\ reading' = reading \cup {r} /\ r \notin reading
  BY DEF StartReading, Held
<1>3. Seen(r)' = sent
  BY <1>2 DEF Seen, ReadUnderLock, Zero
<1>4. \A q \in Readers \ {r} : Seen(q)' = Seen(q)
  BY <1>2 DEF Seen
<1>5. [q \in Readers |-> Seen(q)]' = [[q \in Readers |-> Seen(q)] EXCEPT ![r] = sent]
  BY <1>3, <1>4
<1>6. Counted' = Counted
  BY <1>2, CountedStays
<1> QED
  BY <1>1, <1>2, <1>5, <1>6 DEF StartReading, Contract!Read

(* Copying a key is no step of the contract.                               *)
LEMMA CopyStutters ==
  ASSUME Consistent, NEW r \in Readers, NEW s \in Services, GetServiceMetrics(r, s)
  PROVE  UNCHANGED Contract!vars
<1> USE DEF Consistent, TypeOK, metrics, reader
<1>1. ASSUME NEW q \in Readers PROVE Seen(q)' = Seen(q)
  <2>1. \A t \in Services : (IF t \in todo'[q] THEN sent'[t] ELSE snapshot'[q][t])
                           = (IF t \in todo[q] THEN sent[t] ELSE snapshot[q][t])
    BY DEF GetServiceMetrics
  <2> QED
    BY <2>1 DEF Seen
<1>2. Counted' = Counted
  BY CountedStays DEF GetServiceMetrics
<1> QED
  BY <1>1, <1>2 DEF GetServiceMetrics, Contract!vars

(* The locks and the errors are none either.                               *)
LEMMA SenderFollows ==
  ASSUME Consistent, NEW c \in Calls, NEW i \in Slots, Sender(c, i)
  PROVE  Contract!Answer(c, i) \/ Contract!Count(c, i) \/ UNCHANGED Contract!vars
<1> USE DEF Consistent, TypeOK, metrics, reader
<1>1. ASSUME UNCHANGED <<call, responses, reader, sent>>, NEW to, to # "done",
             pc[c][i] # "done", Goto(c, i, to)
      PROVE  UNCHANGED Contract!vars
  <2>1. Counted' = Counted
    BY <1>1, CountedStays DEF Goto
  <2>2. [r \in Readers |-> Seen(r)]' = [r \in Readers |-> Seen(r)]
    BY <1>1, SeenStays
  <2> QED
    BY <1>1, <2>1, <2>2 DEF Contract!vars
<1>2. CASE Send(c, i)
  BY <1>2, SendAnswers
<1>3. CASE RecordNotification(c, i)
  BY <1>3, RecordCounts
<1>4. CASE Lock(c, i, "error", "lockForError") \/ Lock(c, i, "record", "lockForRecord")
  BY <1>1, <1>4 DEF Lock
<1>5. CASE FindEntry(c, i) \/ CountError(c, i)
  BY <1>1, <1>5 DEF FindEntry, CountError
<1> QED
  BY <1>2, <1>3, <1>4, <1>5 DEF Sender

(* Every step of Dispatch is a step of the contract or none.               *)
LEMMA ContractStep ==
  ASSUME Consistent, [Next]_vars
  PROVE  [Contract!Next]_(Contract!vars)
<1> USE DEF Consistent, TypeOK, metrics, reader
<1>1. ASSUME NEW c \in Calls, NotifyAll(c) PROVE Contract!Start(c)
  <2>1. Counted' = Counted
    BY <1>1, CountedStays DEF NotifyAll, Shape, CallShape
  <2>2. [r \in Readers |-> Seen(r)]' = [r \in Readers |-> Seen(r)]
    BY <1>1, SeenStays DEF NotifyAll
  <2> QED
    BY <1>1, <2>1, <2>2 DEF NotifyAll, Contract!Start
<1>2. ASSUME NEW c \in Calls, Return(c) PROVE Contract!Return(c)
  <2>1. Counted' = Counted /\ \A i \in Slots : <<c, i>> \in Counted
    BY <1>2, CountedStays DEF Return, AllDone, Counted
  <2>2. [r \in Readers |-> Seen(r)]' = [r \in Readers |-> Seen(r)]
    BY <1>2, SeenStays DEF Return
  <2> QED
    BY <1>2, <2>1, <2>2 DEF Return, Contract!Return
<1>3. ASSUME NEW r \in Readers, FinishReading(r) PROVE Contract!EndRead(r)
  <2>1. Counted' = Counted
    BY <1>3, CountedStays DEF FinishReading
  <2>2. [q \in Readers |-> Seen(q)]' = [q \in Readers |-> Seen(q)]
    BY <1>3, SeenStays DEF FinishReading
  <2> QED
    BY <1>3, <2>1, <2>2 DEF FinishReading, Contract!EndRead
<1>4. ASSUME NEW c \in Calls, NEW i \in Slots, Sender(c, i)
      PROVE  [Contract!Next]_(Contract!vars)
  BY <1>4, SenderFollows DEF Contract!Next
<1>5. ASSUME NEW r \in Readers, StartReading(r) PROVE Contract!Next
  BY <1>5, StartReads DEF Contract!Next
<1>6. ASSUME NEW r \in Readers, Reader(r) PROVE [Contract!Next]_(Contract!vars)
  BY <1>3, <1>6, CopyStutters DEF Reader, Contract!Next
<1>7. CASE UNCHANGED vars
  <2>1. Counted' = Counted /\ [r \in Readers |-> Seen(r)]' = [r \in Readers |-> Seen(r)]
    BY <1>7, CountedStays, SeenStays DEF vars
  <2> QED
    BY <1>7, <2>1 DEF vars, Contract!vars
<1> QED
  BY <1>1, <1>2, <1>4, <1>5, <1>6, <1>7 DEF Next, Contract!Next

(* With all its goroutines and locks, Dispatch is as NotifyContract says:  *)
(* an answer each, counted once and before the call returns, and reads of  *)
(* one moment.                                                             *)
THEOREM DispatchImplementsContract == Spec => ContractSpec
<1>1. Init => Contract!Init
  <2> SUFFICES ASSUME Init PROVE Contract!Init
    OBVIOUS
  <2>1. Counted = {}
    BY DEF Init, Counted
  <2>2. \A r \in Readers : Seen(r) = [s \in Services |-> 0]
    BY DEF Init, Seen, Zero
  <2> QED
    BY <2>1, <2>2 DEF Init, Contract!Init
<1>2. Consistent /\ [Next]_vars => [Contract!Next]_(Contract!vars)
  BY ContractStep
<1> QED
  BY <1>1, <1>2, StaysConsistent, PTL DEF Spec, ContractSpec, Contract!Spec
=============================================================================
