--------------------------- MODULE NotifyContract ---------------------------
(***************************************************************************)
(* What NotifyAll and the metrics promise the goroutines that use them at  *)
(* the same time, as if they had no locks to take and no keys to go        *)
(* through: every service answers once, at its own index; the answer is    *)
(* counted at one moment, once, before the call returns; and a reader sees *)
(* the successes counted by one moment of its read.  (The failures are not *)
(* part of it: a failed send is counted twice, once outside the lock.)     *)
(***************************************************************************)
EXTENDS Integers, FiniteSets

CONSTANTS Calls, Slots, Services, ServiceOf, Readers

VARIABLES
  call,    \* "off", "waiting" or "returned"
  answer,  \* "none" or what the service at an index of a call answered
  counted, \* the calls and indices whose answer is counted
  reading, \* the readers inside a read
  seen     \* the totals each reader got

vars == <<call, answer, counted, reading, seen>>

Totals ==
  [s \in Services |->
     Cardinality({x \in counted : ServiceOf[x[2]] = s /\ answer[x[1]][x[2]] = "success"})]

Init ==
  /\ call = [c \in Calls |-> "off"]
  /\ answer = [c \in Calls |-> [i \in Slots |-> "none"]]
  /\ counted = {} /\ reading = {} /\ seen = [r \in Readers |-> [s \in Services |-> 0]]

Start(c) ==
  /\ call[c] = "off"
  /\ call' = [call EXCEPT ![c] = "waiting"]
  /\ UNCHANGED <<answer, counted, reading, seen>>

Answer(c, i) ==
  /\ call[c] = "waiting" /\ answer[c][i] = "none"
  /\ \E outcome \in {"success", "failed"} : answer' = [answer EXCEPT ![c][i] = outcome]
  /\ UNCHANGED <<call, counted, reading, seen>>

Count(c, i) ==
  /\ call[c] = "waiting" /\ answer[c][i] # "none" /\ <<c, i>> \notin counted
  /\ counted' = counted \cup {<<c, i>>}
  /\ UNCHANGED <<call, answer, reading, seen>>

Return(c) ==
  /\ call[c] = "waiting" /\ \A i \in Slots : <<c, i>> \in counted
  /\ call' = [call EXCEPT ![c] = "returned"]
  /\ UNCHANGED <<answer, counted, reading, seen>>

Read(r) ==
  /\ r \notin reading
  /\ reading' = reading \cup {r} /\ seen' = [seen EXCEPT ![r] = Totals]
  /\ UNCHANGED <<call, answer, counted>>

EndRead(r) ==
  /\ r \in reading
  /\ reading' = reading \ {r}
  /\ UNCHANGED <<call, answer, counted, seen>>

Next ==
  \/ \E c \in Calls : Start(c) \/ Return(c) \/ \E i \in Slots : Answer(c, i) \/ Count(c, i)
  \/ \E r \in Readers : Read(r) \/ EndRead(r)

Spec == Init /\ [][Next]_vars
=============================================================================
