-------------------------- MODULE DeliveryContract --------------------------
(***************************************************************************)
(* What the notification queue promises about a job, whatever rows,        *)
(* copies, goroutines and crashes it takes: the job is tried at most       *)
(* `budget` times, never again once a service has taken it, and it is      *)
(* decided once, on the evidence of its tries.                             *)
(***************************************************************************)
EXTENDS Integers

CONSTANTS Jobs, Services

VARIABLES
  verdict, \* "none" until the job is accepted, then "open" until decided
  targets, \* the services that can take the job
  budget,  \* how often it may be tried
  tries,   \* how often it was
  taken    \* the services that took it

vars == <<verdict, targets, budget, tries, taken>>

Init ==
  /\ verdict = [j \in Jobs |-> "none"]
  /\ targets = [j \in Jobs |-> {}]
  /\ budget = [j \in Jobs |-> 1]
  /\ tries = [j \in Jobs |-> 0]
  /\ taken = [j \in Jobs |-> {}]

Accept(j) ==
  /\ verdict[j] = "none"
  /\ verdict' = [verdict EXCEPT ![j] = "open"]
  /\ targets'[j] \subseteq Services /\ targets' = [targets EXCEPT ![j] = targets'[j]]
  /\ budget'[j] \in Nat \ {0} /\ budget' = [budget EXCEPT ![j] = budget'[j]]
  /\ UNCHANGED <<tries, taken>>

Try(j) ==
  /\ verdict[j] = "open" /\ taken[j] = {} /\ tries[j] < budget[j]
  /\ tries' = [tries EXCEPT ![j] = @ + 1]
  /\ \E T \in SUBSET targets[j] : taken' = [taken EXCEPT ![j] = T]
  /\ UNCHANGED <<verdict, targets, budget>>

Complete(j) ==
  /\ verdict[j] = "open" /\ tries[j] > 0
  /\ taken[j] # {} \/ targets[j] = {}
  /\ verdict' = [verdict EXCEPT ![j] = "completed"]
  /\ UNCHANGED <<targets, budget, tries, taken>>

GiveUp(j) ==
  /\ verdict[j] = "open" /\ tries[j] = budget[j]
  /\ taken[j] = {} /\ targets[j] # {}
  /\ verdict' = [verdict EXCEPT ![j] = "failed"]
  /\ UNCHANGED <<targets, budget, tries, taken>>

Next == \E j \in Jobs : Accept(j) \/ Try(j) \/ Complete(j) \/ GiveUp(j)

Spec == Init /\ [][Next]_vars
=============================================================================
