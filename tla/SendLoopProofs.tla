--------------------------- MODULE SendLoopProofs ---------------------------
(* What SendLoop promises of every table of senders: its types without     *)
(* condition, the rest of tables whose plans are well made.                *)
EXTENDS SendLoop, TLAPS

USE DEF Any2xx, Success, Answers

-----------------------------------------------------------------------------
LEMMA HopelessIsPlan == Hopeless \in Plans
<1>1. <<>> \in Seq(Requests)
  OBVIOUS
<1> QED
  BY <1>1 DEF Hopeless, Plan, Plans

(* The request a running Send is at has the type of requests.              *)
LEMMA RequestIsTyped ==
  ASSUME TypeOK, Running
  PROVE  Request \in Requests
<1>1. plan.requests \in Seq(Requests)
  BY DEF TypeOK, Plans
<1>2. at \in DOMAIN plan.requests
  BY DEF Running
<1> QED
  BY <1>1, <1>2 DEF Request

LEMMA ReachKeepsType ==
  ASSUME TypeOK, NEW got \in SUBSET Recipients, Reach(got)
  PROVE  copies' \in [Recipients -> Nat]
BY DEF TypeOK, Reach

LEMMA FailKeepsType ==
  ASSUME TypeOK, Running, Fail
  PROVE  /\ sending' \in BOOLEAN /\ noted' \in BOOLEAN /\ at' \in Nat \ {0}
         /\ result' \in {"none", "nil", "error"}
         /\ served' \subseteq Recipients /\ loggedIn' \in BOOLEAN
<1>1. Request \in Requests
  BY RequestIsTyped
<1>2. Request.skip \in Nat
  BY <1>1 DEF Requests
<1>3. at \in Nat \ {0} /\ noted \in BOOLEAN /\ sending \in BOOLEAN /\ loggedIn \in BOOLEAN
      /\ result \in {"none", "nil", "error"} /\ served \subseteq Recipients
  BY DEF TypeOK
<1>4. UNCHANGED <<served, loggedIn>>
  BY DEF Fail
<1>5. CASE Return
  BY <1>3, <1>4, <1>5 DEF Return
<1>6. CASE GoOn /\ noted' \in BOOLEAN
  <2>1. at' \in Nat \ {0}
    BY <1>2, <1>3, <1>6 DEF GoOn
  <2> QED
    BY <1>3, <1>4, <1>6, <2>1 DEF GoOn
<1>7. Return \/ (GoOn /\ noted' \in BOOLEAN)
  BY <1>3 DEF Fail
<1> QED
  BY <1>5, <1>6, <1>7

(* A Send begins in the types of its variables.                            *)
LEMMA BeginKeepsType ==
  ASSUME TypeOK, NEW in \in BOOLEAN, Begin(in)
  PROVE  /\ service' \in {"none", "rejected", "ready"} /\ plans' \in [BOOLEAN -> Plans]
         /\ plan' \in Plans /\ loggedIn' \in BOOLEAN /\ sending' \in BOOLEAN
         /\ tokenless' \in BOOLEAN
         /\ noted' \in BOOLEAN /\ at' \in Nat \ {0} /\ cut' \in Nat
         /\ ticks' \in 0..TicksPerSend /\ served' \subseteq Recipients
         /\ result' \in {"none", "nil", "error"}
<1>1. loggedIn' \in BOOLEAN
  <2>1. loggedIn' = (in /\ ~LogsIn(plans[in]))
    BY DEF Begin
  <2> QED
    BY <2>1, Zenon
<1>2. plans[in] \in Plans
  BY DEF TypeOK
<1>3. plan' \in Plans /\ service' = service /\ plans' = plans /\ served' = {}
  BY <1>2 DEF Begin
<1>4. sending' = TRUE /\ noted' = FALSE /\ at' = 1 /\ cut' = 0 /\ ticks' = 0 /\ result' = "none"
      /\ tokenless' = FALSE
  BY DEF Begin
<1>5. ticks' \in 0..TicksPerSend
  BY <1>4, TicksAssumption
<1>6. service' \in {"none", "rejected", "ready"} /\ plans' \in [BOOLEAN -> Plans]
  BY <1>3 DEF TypeOK
<1>7. sending' \in BOOLEAN /\ noted' \in BOOLEAN /\ tokenless' \in BOOLEAN /\ result' \in {"none", "nil", "error"}
  BY <1>4
<1>8. at' \in Nat \ {0} /\ cut' \in Nat /\ served' \subseteq Recipients
  BY <1>3, <1>4
<1> QED
  BY <1>1, <1>3, <1>5, <1>6, <1>7, <1>8

(* Every step keeps every variable in its type.                            *)
LEMMA NextKeepsType ==
  ASSUME TypeOK, [Next]_vars
  PROVE  TypeOK'
<1>1. ASSUME NEW u \in Urls, Add(u) PROVE TypeOK'
  <2>1. plans' \in [BOOLEAN -> Plans]
    BY <1>1, PlansAreTyped, HopelessIsPlan DEF Add, Nothing
  <2> QED
    BY <1>1, <2>1 DEF Add, TypeOK
<1>2. CASE Notify
  <2>1. loggedIn \in BOOLEAN /\ Begin(loggedIn)
    BY <1>2 DEF Notify, TypeOK
  <2>2. /\ attempts' \in 0..MaxAttempts /\ copies' \in [Recipients -> Nat]
        /\ unsure' \subseteq Recipients
    BY <1>2, MaxAttemptsAssumption DEF Notify
  <2> QED
    BY <2>1, <2>2, BeginKeepsType DEF TypeOK
<1>3. CASE Retry
  <2>1. Begin(FALSE)
    BY <1>3 DEF Retry
  <2>2. /\ attempts' \in 0..MaxAttempts /\ copies' \in [Recipients -> Nat]
        /\ unsure' \subseteq Recipients
    BY <1>3, MaxAttemptsAssumption DEF Retry, TypeOK
  <2> QED
    BY <2>1, <2>2, BeginKeepsType DEF TypeOK
<1>4. ASSUME NEW a \in Answers, Answer(a) PROVE TypeOK'
  <2>0. tokenless' \in BOOLEAN
    <3>1. tokenless' = (tokenless \/ a = "bare")
      BY <1>4 DEF Answer
    <3> QED
      BY <3>1, Zenon
  <2>1. Request \in Requests /\ Running
    BY <1>4, RequestIsTyped DEF Answer
  <2>2. Request.to \subseteq Recipients /\ Request.login \in BOOLEAN
    BY <2>1 DEF Requests
  <2> DEFINE got == Told(a \in Success)
  <2>3. got \in SUBSET Recipients
    BY <2>2 DEF Told
  <2>4. Reach(got)
    BY <1>4 DEF Answer
  <2>5. copies' \in [Recipients -> Nat]
    BY <2>3, <2>4, ReachKeepsType
  <2>6. UNCHANGED <<service, plans, plan, cut, ticks, attempts>>
    BY <1>4 DEF Answer
  <2>7. CASE Succeed(a) /\ UNCHANGED unsure
    <3>1. served' \subseteq Recipients
      BY <2>2, <2>7 DEF Succeed, Told, TypeOK
    <3>2. loggedIn' \in BOOLEAN
      <4>1. loggedIn' = (loggedIn \/ (Request.login /\ a # "bare"))
        BY <2>7 DEF Succeed
      <4> QED
        BY <4>1, Zenon
    <3>3. at' = at + 1 /\ UNCHANGED <<sending, noted, result, unsure>>
      BY <2>7 DEF Succeed
    <3>4. at' \in Nat \ {0}
      BY <3>3 DEF TypeOK
    <3> QED
      BY <2>0, <2>5, <2>6, <3>1, <3>2, <3>3, <3>4 DEF TypeOK
  <2>8. CASE Fail /\ unsure' = unsure \cup got
    <3>1. unsure' \subseteq Recipients
      BY <2>3, <2>8 DEF TypeOK
    <3> QED
      BY <2>0, <2>1, <2>5, <2>6, <2>8, <3>1, FailKeepsType DEF TypeOK
  <2> QED
    BY <1>4, <2>7, <2>8 DEF Answer
<1>5. ASSUME NEW arrived \in BOOLEAN, Lose(arrived) PROVE TypeOK'
  <2>1. Request \in Requests /\ Running
    BY <1>5, RequestIsTyped DEF Lose
  <2> DEFINE got == Told(arrived)
  <2>2. got \in SUBSET Recipients
    BY <2>1 DEF Told, Requests
  <2>3. Reach(got) /\ unsure' = unsure \cup got /\ Fail
        /\ UNCHANGED <<service, plans, tokenless, plan, cut, ticks, attempts>>
    BY <1>5 DEF Lose
  <2>4. copies' \in [Recipients -> Nat]
    BY <2>2, <2>3, ReachKeepsType
  <2>5. unsure' \subseteq Recipients
    BY <2>2, <2>3 DEF TypeOK
  <2> QED
    BY <2>1, <2>3, <2>4, <2>5, FailKeepsType DEF TypeOK
<1>6. CASE Timeout
  BY <1>6 DEF Timeout, TypeOK
<1>7. CASE TickFires
  BY <1>7, TicksAssumption DEF TickFires, TypeOK
<1>8. CASE TickCut
  BY <1>8 DEF TickCut, Return, TypeOK
<1>9. CASE Finish
  BY <1>9 DEF Finish, Verdict, TypeOK
<1>10. CASE UNCHANGED vars
  BY <1>10 DEF vars, TypeOK
<1> QED
  BY <1>1, <1>2, <1>3, <1>4, <1>5, <1>6, <1>7, <1>8, <1>9, <1>10 DEF Next

LEMMA InitIsTyped == Init => TypeOK
<1> SUFFICES ASSUME Init PROVE TypeOK
  OBVIOUS
<1>1. plans \in [BOOLEAN -> Plans] /\ plan \in Plans
  BY HopelessIsPlan DEF Init, Nothing
<1>2. ticks \in 0..TicksPerSend /\ attempts \in 0..MaxAttempts
  BY MaxAttemptsAssumption, TicksAssumption DEF Init
<1>3. loggedIn \in BOOLEAN /\ tokenless \in BOOLEAN
      /\ sending \in BOOLEAN /\ noted \in BOOLEAN /\ service \in {"none", "rejected", "ready"} /\ result \in {"none", "nil", "error"}
  BY DEF Init
<1>4. at \in Nat \ {0} /\ cut \in Nat /\ copies \in [Recipients -> Nat]
      /\ served \subseteq Recipients /\ unsure \subseteq Recipients
  BY DEF Init
<1> QED
  BY <1>1, <1>2, <1>3, <1>4 DEF TypeOK

(* TypeOK holds for every table, number of attempts and number of ticks.   *)
THEOREM TypeCorrect == Spec => []TypeOK
BY InitIsTyped, NextKeepsType, PTL DEF Spec

-----------------------------------------------------------------------------
(* The strengthening.  Past are the requests a Send has behind it.         *)
Past == {i \in DOMAIN plan.requests : i < at}
To(i) == plan.requests[i].to

(* What holds of the plans follows from the table.                         *)
Made ==
  /\ WellMadePair(plans) /\ WellMade(plan)
  /\ sending => result = "none"
  /\ sending \/ result # "none" =>
       service = "ready" /\ CanForget(plan) = CanForget(plans[FALSE])

(* Who is served was named by a request that is past and has the message;  *)
(* without a noted error every past request that was made served its own;  *)
(* a noted one served nobody.                                              *)
Bookkeeping ==
  /\ \A r \in served : \E i \in Past : r \in To(i)
  /\ ~noted => \A i \in Past : plan.requests[i].real => To(i) \subseteq served
  /\ noted => \E j \in Past : plan.requests[j].fail = "note" /\ To(j) \cap served = {}
  /\ \A r \in served : copies[r] > 0

(* Where no success is forgotten, who has the message is unsure, or was    *)
(* served once by this very Send; after an error only the former.          *)
Counted ==
  ~CanForget(plan) => \A r \in Recipients \ unsure : copies[r] > 0 =>
    copies[r] = 1 /\ r \in served /\ result # "error"

(* The login is the first request, and past only if it gave a token, or    *)
(* none where none is looked for.                                          *)
Token == loggedIn \/ (tokenless /\ Trusts(plan))
TokenFirst == sending /\ LogsIn(plan) /\ at > 1 => Token

IInv == TypeOK /\ Made /\ Bookkeeping /\ Counted /\ TokenFirst /\ NilMeansServed

(* The table's part of it, which TLC checks as PlansAreWellMade.           *)
SoundTable ==
  \A u \in Urls : Accepts(u) => WellMadePair([in \in BOOLEAN |-> PlanOf(u, in)])

-----------------------------------------------------------------------------
(* The request a Send is at: typed, a request of the plan, not past, and   *)
(* its recipients are not among the served.                                *)
LEMMA AtRequest ==
  ASSUME IInv, Running
  PROVE  /\ at \in DOMAIN plan.requests /\ DOMAIN plan.requests \subseteq Nat
         /\ Request = plan.requests[at] /\ Request.to = To(at)
         /\ Request.skip \in Nat /\ Request.to \subseteq Recipients
         /\ Request.to \cap served = {}
         /\ at \in Nat \ {0} /\ at \notin Past
<1>1. plan.requests \in Seq(Requests) /\ at \in Nat \ {0}
  BY DEF IInv, TypeOK, Plans
<1>2. at \in DOMAIN plan.requests
  BY DEF Running
<1>3. Request = plan.requests[at] /\ Request.to = To(at)
  BY DEF Request, To
<1>4. Request \in Requests /\ DOMAIN plan.requests \subseteq Nat
  BY <1>1, <1>2, <1>3
<1>5. Request.skip \in Nat /\ Request.to \subseteq Recipients
  BY <1>4 DEF Requests
<1>6. at \notin Past
  BY <1>1 DEF Past
<1>7. \A i \in Past : i \in DOMAIN plan.requests /\ i # at
  BY <1>6 DEF Past
<1>8. \A i, j \in DOMAIN plan.requests :
        i # j => plan.requests[i].to \cap plan.requests[j].to = {}
  BY DEF IInv, Made, WellMade
<1>9. \A i \in Past : To(i) \cap To(at) = {}
  BY <1>2, <1>7, <1>8 DEF To
<1>10. \A r \in served : \E i \in Past : r \in To(i)
  BY DEF IInv, Bookkeeping
<1>11. Request.to \cap served = {}
  BY <1>3, <1>9, <1>10
<1> QED
  BY <1>1, <1>2, <1>3, <1>4, <1>5, <1>6, <1>11

(* What WellMade says of that request.                                     *)
LEMMA AtWellMade ==
  ASSUME IInv, Running
  PROVE  /\ Request.tick => Request.to = {} /\ Request.fail = "return" /\ ~Request.login
         /\ Request.fail = "forget" => Request.to = {} /\ Request.skip = 0
         /\ Request.login => at = 1 /\ Request.to = {} /\ Request.fail = "return"
<1>1. \A i \in DOMAIN plan.requests : LET r == plan.requests[i] IN
        /\ r.tick => r.to = {} /\ r.fail = "return" /\ ~r.login
        /\ r.fail = "forget" => r.to = {} /\ r.skip = 0
        /\ r.login => i = 1 /\ r.to = {} /\ r.fail = "return"
  BY DEF IInv, Made, WellMade
<1>2. at \in DOMAIN plan.requests /\ Request = plan.requests[at]
  BY DEF Running, Request
<1> QED
  BY <1>1, <1>2

(* In a plan that logs in the first request is the login.                  *)
LEMMA LoginIsFirst ==
  ASSUME WellMade(plan), LogsIn(plan)
  PROVE  1 \in DOMAIN plan.requests /\ plan.requests[1].login
BY DEF WellMade, LogsIn

(* A copy is counted for those it was brought to.                          *)
LEMMA Reached ==
  ASSUME TypeOK, NEW got \in SUBSET Recipients, Reach(got)
  PROVE  \A r \in Recipients :
           copies[r] \in Nat /\ copies'[r] = (IF r \in got THEN copies[r] + 1 ELSE copies[r])
BY DEF TypeOK, Reach

-----------------------------------------------------------------------------
(* A step that changes no plan, and none but the running Send's result.    *)
LEMMA MadeKept ==
  ASSUME Made, UNCHANGED <<service, plans, plan>>,
         sending' => sending /\ result' = result,
         sending' \/ result' # "none" => sending \/ result # "none"
  PROVE  Made'
<1>1. WellMadePair(plans)' /\ WellMade(plan)'
  BY DEF Made
<1>2. (CanForget(plan) = CanForget(plans[FALSE]))' = (CanForget(plan) = CanForget(plans[FALSE]))
  OBVIOUS
<1> QED
  BY <1>1, <1>2 DEF Made

(* A request goes well, or a tick comes.                                   *)
LEMMA SucceedKeeps ==
  ASSUME IInv, Running, UNCHANGED <<service, plans, plan, sending, noted, result, unsure>>,
         NEW got \in SUBSET Recipients, Reach(got),
         got = IF Request.real THEN Request.to ELSE {},
         at' = at + 1, served' = served \cup got,
         Request.login \/ Token => Token'
  PROVE  (Made /\ Bookkeeping /\ Counted /\ TokenFirst /\ NilMeansServed)'
<1>1. /\ at \in DOMAIN plan.requests /\ DOMAIN plan.requests \subseteq Nat
      /\ Request = plan.requests[at] /\ Request.to = To(at)
      /\ Request.to \subseteq Recipients /\ Request.to \cap served = {}
      /\ at \in Nat \ {0}
  BY AtRequest
<1>2. \A r \in Recipients :
        copies[r] \in Nat /\ copies'[r] = (IF r \in got THEN copies[r] + 1 ELSE copies[r])
  BY Reached DEF IInv
<1>3. sending /\ result = "none"
  BY DEF IInv, Made, Running
<1>4. Past' = Past \cup {at}
  BY <1>1 DEF Past
<1>5. \A i : To(i)' = To(i)
  BY DEF To
<1>6. Made'
  BY MadeKept DEF IInv
<1>7. Bookkeeping'
  <2>1. (\A r \in served : \E i \in Past : r \in To(i))'
    BY <1>1, <1>4, <1>5 DEF IInv, Bookkeeping
  <2>2. (~noted => \A i \in Past : plan.requests[i].real => To(i) \subseteq served)'
    BY <1>1, <1>4, <1>5 DEF IInv, Bookkeeping
  <2>3. (noted => \E j \in Past : plan.requests[j].fail = "note" /\ To(j) \cap served = {})'
    <3> SUFFICES ASSUME noted
                 PROVE  \E j \in Past' : plan.requests[j].fail = "note" /\ To(j) \cap served' = {}
      BY <1>5
    <3>1. PICK j \in Past : plan.requests[j].fail = "note" /\ To(j) \cap served = {}
      BY DEF IInv, Bookkeeping
    <3>2. j \in DOMAIN plan.requests /\ j # at
      BY <1>1, <3>1 DEF Past
    <3>3. To(j) \cap To(at) = {}
      BY <1>1, <3>2 DEF IInv, Made, WellMade, To
    <3> QED
      BY <1>1, <1>4, <3>1, <3>3
  <2>4. (\A r \in served : copies[r] > 0)'
    <3> SUFFICES ASSUME NEW r \in served'
                 PROVE  copies'[r] > 0
      OBVIOUS
    <3>1. r \in Recipients
      BY <1>1 DEF IInv, TypeOK
    <3>2. CASE r \in served
      BY <1>2, <3>1, <3>2 DEF IInv, Bookkeeping
    <3>3. CASE r \in got
      BY <1>2, <3>1, <3>3
    <3> QED
      BY <3>2, <3>3
  <2> QED
    BY <2>1, <2>2, <2>3, <2>4 DEF Bookkeeping
<1>8. Counted'
  <2> SUFFICES ASSUME ~CanForget(plan), NEW r \in Recipients \ unsure, copies'[r] > 0
               PROVE  copies'[r] = 1 /\ r \in served' /\ result # "error"
    BY DEF Counted
  <2>1. copies[r] > 0 => copies[r] = 1 /\ r \in served
    BY DEF IInv, Counted
  <2>2. CASE r \in got
    BY <1>1, <1>2, <1>3, <2>1, <2>2
  <2>3. CASE r \notin got
    BY <1>1, <1>2, <1>3, <2>1, <2>3
  <2> QED
    BY <2>2, <2>3
<1>9. TokenFirst'
  <2> SUFFICES ASSUME LogsIn(plan)
               PROVE  Token'
    BY DEF TokenFirst
  <2>1. CASE at = 1
    BY <1>1, <2>1, LoginIsFirst DEF IInv, Made
  <2>2. CASE at # 1
    BY <1>1, <1>3, <2>2 DEF IInv, TokenFirst
  <2> QED
    BY <2>1, <2>2
<1>10. NilMeansServed'
  BY <1>3 DEF NilMeansServed
<1> QED
  BY <1>6, <1>7, <1>8, <1>9, <1>10

(* Send returns an error in the middle.                                    *)
LEMMA ReturnKeeps ==
  ASSUME IInv, Running, Return, Request.fail = "return",
         UNCHANGED <<service, plans, plan, served>>,
         NEW got \in SUBSET Recipients, Reach(got), unsure' = unsure \cup got
  PROVE  (Made /\ Bookkeeping /\ Counted /\ TokenFirst /\ NilMeansServed)'
<1>1. /\ at \in DOMAIN plan.requests /\ DOMAIN plan.requests \subseteq Nat
      /\ Request = plan.requests[at] /\ at \in Nat \ {0}
  BY AtRequest
<1>2. \A r \in Recipients :
        copies[r] \in Nat /\ copies'[r] = (IF r \in got THEN copies[r] + 1 ELSE copies[r])
  BY Reached DEF IInv
<1>3. sending /\ ~sending' /\ result' = "error" /\ UNCHANGED <<at, noted>>
  BY DEF Running, Return
<1>4. Made'
  BY <1>3, MadeKept DEF IInv
<1>5. Bookkeeping'
  <2>1. Past' = Past /\ \A i : To(i)' = To(i)
    BY <1>3 DEF Past, To
  <2>2. (\A r \in served : copies[r] > 0)'
    BY <1>2 DEF IInv, Bookkeeping, TypeOK
  <2> QED
    BY <1>3, <2>1, <2>2 DEF IInv, Bookkeeping
<1>6. Counted'
  <2> SUFFICES ASSUME ~CanForget(plan), NEW r \in Recipients \ unsure', copies'[r] > 0
               PROVE  FALSE
    BY DEF Counted
  <2>1. r \in Recipients \ unsure /\ copies[r] > 0
    BY <1>2
  <2>2. r \in served
    BY <2>1 DEF IInv, Counted
  <2>3. PICK i \in Past : r \in To(i)
    BY <2>2 DEF IInv, Bookkeeping
  <2>4. i \in DOMAIN plan.requests /\ i < at /\ plan.requests[i].to # {}
    BY <2>3 DEF Past, To
  <2>5. i # at /\ plan.requests[at].fail = "return"
    BY <1>1, <2>4
  <2> QED
    BY <1>1, <2>4, <2>5 DEF CanForget
<1>7. TokenFirst' /\ NilMeansServed'
  BY <1>3 DEF TokenFirst, NilMeansServed
<1> QED
  BY <1>4, <1>5, <1>6, <1>7

(* Send notes the error of a request, or forgets it, and goes on.          *)
LEMMA GoOnKeeps ==
  ASSUME IInv, Running, GoOn, UNCHANGED <<service, plans, plan, served>>, Token => Token',
         \/ Request.fail = "note" /\ noted'
         \/ Request.fail = "forget" /\ noted' = noted,
         NEW got \in SUBSET Recipients, Reach(got), unsure' = unsure \cup got
  PROVE  (Made /\ Bookkeeping /\ Counted /\ TokenFirst /\ NilMeansServed)'
<1>1. /\ at \in DOMAIN plan.requests /\ DOMAIN plan.requests \subseteq Nat
      /\ Request = plan.requests[at] /\ Request.to = To(at)
      /\ Request.skip \in Nat /\ Request.to \cap served = {} /\ at \in Nat \ {0}
  BY AtRequest
<1>2. \A r \in Recipients :
        copies[r] \in Nat /\ copies'[r] = (IF r \in got THEN copies[r] + 1 ELSE copies[r])
  BY Reached DEF IInv
<1>3. sending /\ sending' /\ result = "none" /\ result' = result /\ at' = at + 1 + Request.skip
  BY DEF IInv, Made, Running, GoOn
<1>4. Made'
  BY <1>3, MadeKept DEF IInv
<1>5. Past \cup {at} \subseteq Past' /\ \A i : To(i)' = To(i)
  BY <1>1, <1>3 DEF Past, To
<1>6. Bookkeeping'
  <2>1. (\A r \in served : \E i \in Past : r \in To(i))'
    BY <1>5 DEF IInv, Bookkeeping
  <2>2. (\A r \in served : copies[r] > 0)'
    BY <1>2 DEF IInv, Bookkeeping, TypeOK
  <2>3. CASE Request.fail = "note" /\ noted'
    <3>1. at \in Past' /\ plan.requests[at].fail = "note" /\ To(at) \cap served = {}
      BY <1>1, <1>5, <2>3
    <3>2. (noted => \E j \in Past : plan.requests[j].fail = "note" /\ To(j) \cap served = {})'
      BY <1>5, <3>1
    <3> QED
      BY <2>1, <2>2, <2>3, <3>2 DEF Bookkeeping
  <2>4. CASE Request.fail = "forget" /\ noted' = noted
    <3>1. Request.to = {} /\ Request.skip = 0
      BY <2>4, AtWellMade
    <3>2. Past' = Past \cup {at}
      BY <1>1, <1>3, <3>1 DEF Past
    <3>3. (~noted => \A i \in Past : plan.requests[i].real => To(i) \subseteq served)'
      <4> SUFFICES ASSUME ~noted, NEW i \in Past \cup {at}, plan.requests[i].real
                   PROVE  To(i) \subseteq served
        BY <1>5, <2>4, <3>2
      <4>1. CASE i \in Past
        BY <4>1 DEF IInv, Bookkeeping
      <4>2. CASE i = at
        BY <1>1, <3>1, <4>2
      <4> QED
        BY <4>1, <4>2
    <3>4. (noted => \E j \in Past : plan.requests[j].fail = "note" /\ To(j) \cap served = {})'
      BY <1>5, <2>4, <3>2 DEF IInv, Bookkeeping
    <3> QED
      BY <2>1, <2>2, <3>3, <3>4 DEF Bookkeeping
  <2> QED
    BY <2>3, <2>4
<1>7. Counted'
  <2> SUFFICES ASSUME ~CanForget(plan), NEW r \in Recipients \ unsure', copies'[r] > 0
               PROVE  copies'[r] = 1 /\ r \in served /\ result # "error"
    BY <1>3 DEF Counted
  <2> QED
    BY <1>2 DEF IInv, Counted
<1>8. TokenFirst'
  <2> SUFFICES ASSUME LogsIn(plan)
               PROVE  Token'
    BY DEF TokenFirst
  <2>1. ~Request.login
    BY AtWellMade
  <2>2. plan.requests[1].login
    BY LoginIsFirst DEF IInv, Made
  <2>3. at > 1
    BY <1>1, <2>1, <2>2
  <2> QED
    BY <1>3, <2>3 DEF IInv, TokenFirst
<1>9. NilMeansServed'
  BY <1>3 DEF NilMeansServed
<1> QED
  BY <1>4, <1>6, <1>7, <1>8, <1>9

-----------------------------------------------------------------------------
(* A Send begins with nothing behind it.                                   *)
LEMMA BeginKeeps ==
  ASSUME IInv, NEW in \in BOOLEAN, Begin(in), service = "ready",
         \A r \in Recipients \ unsure' : copies'[r] = 0 \/ CanForget(plan')
  PROVE  (Made /\ Bookkeeping /\ Counted /\ TokenFirst /\ NilMeansServed)'
<1>1. /\ sending' = TRUE /\ plan' = plans[in] /\ at' = 1 /\ served' = {}
      /\ noted' = FALSE /\ result' = "none" /\ UNCHANGED <<service, plans>>
  BY DEF Begin
<1>2. WellMadePair(plans)
  BY DEF IInv, Made
<1>3. Made'
  <2>1. WellMade(plans[in]) /\ CanForget(plans[in]) = CanForget(plans[FALSE])
    BY <1>2 DEF WellMadePair
  <2>2. WellMade(plan)' /\ WellMadePair(plans)'
    BY <1>1, <1>2, <2>1
  <2>3. (CanForget(plan) = CanForget(plans[FALSE]))'
    BY <1>1, <2>1
  <2> QED
    BY <1>1, <2>2, <2>3 DEF Made
<1>4. Past' = {}
  <2>1. plan'.requests \in Seq(Requests)
    BY <1>1 DEF IInv, TypeOK, Plans
  <2> QED
    BY <1>1, <2>1 DEF Past
<1>5. Bookkeeping'
  BY <1>1, <1>4 DEF Bookkeeping
<1>6. Counted'
  BY DEF Counted
<1>7. TokenFirst' /\ NilMeansServed'
  BY <1>1 DEF TokenFirst, NilMeansServed
<1> QED
  BY <1>3, <1>5, <1>6, <1>7

(* Where an error can be returned for a notification, its copies are those *)
(* of requests that seemed to fail, or the service can forget.             *)
LEMMA RetryKeeps ==
  ASSUME IInv, Retry
  PROVE  (Made /\ Bookkeeping /\ Counted /\ TokenFirst /\ NilMeansServed)'
<1>1. result = "error" /\ Begin(FALSE) /\ UNCHANGED <<copies, unsure>>
  BY DEF Retry
<1>2. service = "ready" /\ CanForget(plan) = CanForget(plans[FALSE])
  BY <1>1 DEF IInv, Made
<1>3. plan' = plans[FALSE]
  BY <1>1 DEF Begin
<1>4. ASSUME NEW r \in Recipients \ unsure'
      PROVE  copies'[r] = 0 \/ CanForget(plan')
  <2>1. CanForget(plan) => CanForget(plan')
    BY <1>2, <1>3
  <2>2. ~CanForget(plan) => ~(copies[r] > 0)
    BY <1>1, <1>4 DEF IInv, Counted
  <2>3. copies[r] \in Nat
    BY DEF IInv, TypeOK
  <2> QED
    BY <1>1, <2>1, <2>2, <2>3
<1> QED
  BY <1>1, <1>2, <1>4, BeginKeeps

LEMMA NotifyKeeps ==
  ASSUME IInv, Notify
  PROVE  (Made /\ Bookkeeping /\ Counted /\ TokenFirst /\ NilMeansServed)'
<1>1. loggedIn \in BOOLEAN /\ Begin(loggedIn) /\ service = "ready"
  BY DEF Notify, IInv, TypeOK
<1>2. \A r \in Recipients \ unsure' : copies'[r] = 0
  BY DEF Notify
<1> QED
  BY <1>1, <1>2, BeginKeeps

(* A service is made by Add before anything is sent with it.               *)
LEMMA AddKeeps ==
  ASSUME SoundTable, IInv, NEW u \in Urls, Add(u)
  PROVE  (Made /\ Bookkeeping /\ Counted /\ TokenFirst /\ NilMeansServed)'
<1>1. UNCHANGED <<loggedIn, tokenless, sending, plan, at, served, noted, result, copies,
                 unsure>>
  BY DEF Add
<1>2. ~sending /\ result = "none"
  BY DEF Add, IInv, Made
<1>3. WellMadePair(plans')
  <2>1. CASE Accepts(u)
    BY <2>1 DEF SoundTable, Add
  <2>2. CASE ~Accepts(u)
    <3>1. WellMade(Hopeless)
      BY DEF WellMade, RecipientsOf, RequestsOf, Hopeless, Plan
    <3>2. WellMadePair(Nothing)
      BY <3>1 DEF WellMadePair, Nothing
    <3> QED
      BY <2>2, <3>2 DEF Add
  <2> QED
    BY <2>1, <2>2
<1>4. WellMade(plan)'
  BY <1>1 DEF IInv, Made
<1>5. Made'
  BY <1>1, <1>2, <1>3, <1>4 DEF Made
<1>6. Past' = Past /\ \A i : To(i)' = To(i)
  BY <1>1 DEF Past, To
<1>7. Bookkeeping'
  BY <1>1, <1>6 DEF IInv, Bookkeeping
<1>8. Counted' /\ TokenFirst' /\ NilMeansServed'
  BY <1>1, <1>2 DEF IInv, Counted, TokenFirst, Token, NilMeansServed
<1> QED
  BY <1>5, <1>7, <1>8

(* The verdict: nil for those who are served, an error for what a later    *)
(* Send may repeat.                                                        *)
LEMMA FinishKeeps ==
  ASSUME IInv, Finish
  PROVE  (Made /\ Bookkeeping /\ Counted /\ TokenFirst /\ NilMeansServed)'
<1>1. /\ UNCHANGED <<service, plans, plan, at, served, noted, copies, unsure, loggedIn>>
      /\ sending /\ ~sending' /\ result' = Verdict
  BY DEF Finish
<1>2. Made'
  BY <1>1, MadeKept DEF IInv
<1>3. Past' = Past /\ \A i : To(i)' = To(i)
  BY <1>1 DEF Past, To
<1>4. Bookkeeping'
  BY <1>1, <1>3 DEF IInv, Bookkeeping
<1>5. Past = DOMAIN plan.requests
  <2>1. plan.requests \in Seq(Requests) /\ at \in Nat \ {0}
    BY DEF IInv, TypeOK, Plans
  <2>2. at \notin DOMAIN plan.requests
    BY DEF Finish, Running
  <2>3. DOMAIN plan.requests = 1..Len(plan.requests) /\ Len(plan.requests) \in Nat
    BY <2>1
  <2> QED
    BY <2>1, <2>2, <2>3 DEF Past
<1>6. served \subseteq RecipientsOf(plan)
  <2> SUFFICES ASSUME NEW r \in served
               PROVE  r \in RecipientsOf(plan)
    OBVIOUS
  <2>1. PICK i \in DOMAIN plan.requests : r \in plan.requests[i].to
    BY <1>5 DEF IInv, Bookkeeping, To
  <2> QED
    BY <2>1 DEF RecipientsOf, RequestsOf
<1>7. Honest(plan) /\ ~noted => RecipientsOf(plan) \subseteq served
  <2> SUFFICES ASSUME Honest(plan), ~noted, NEW i \in DOMAIN plan.requests
               PROVE  plan.requests[i].to \subseteq served
    BY DEF RecipientsOf, RequestsOf
  <2>1. plan.requests[i].real
    BY DEF Honest, RequestsOf
  <2> QED
    BY <1>5, <2>1 DEF IInv, Bookkeeping, To
<1>8. plan.hopeless <=> RecipientsOf(plan) = {}
  BY DEF IInv, Made, WellMade
<1>9. Counted'
  <2> SUFFICES ASSUME ~CanForget(plan), NEW r \in Recipients \ unsure, copies[r] > 0,
                      Verdict = "error"
               PROVE  FALSE
    BY <1>1 DEF IInv, Counted
  <2>1. r \in served
    BY DEF IInv, Counted
  <2>2. noted /\ ~plan.some
    BY <1>6, <1>8, <2>1 DEF Verdict
  <2>3. PICK j \in DOMAIN plan.requests :
          plan.requests[j].fail = "note" /\ To(j) \cap served = {}
    BY <1>5, <2>2 DEF IInv, Bookkeeping
  <2>4. PICK i \in DOMAIN plan.requests : r \in plan.requests[i].to
    BY <1>5, <2>1 DEF IInv, Bookkeeping, To
  <2>5. i # j /\ plan.requests[i].to # {}
    BY <2>1, <2>3, <2>4 DEF To
  <2> QED
    BY <2>2, <2>3, <2>5 DEF CanForget
<1>10. NilMeansServed'
  <2> SUFFICES ASSUME Verdict = "nil"
               PROVE  /\ \A r \in served : copies[r] > 0
                      /\ Honest(plan) =>
                           served # {} /\ (plan.some \/ served = RecipientsOf(plan))
    BY <1>1 DEF NilMeansServed
  <2>1. ~plan.hopeless /\ (noted => plan.some /\ served # {})
    BY DEF Verdict
  <2>2. Honest(plan) => served # {} /\ (plan.some \/ served = RecipientsOf(plan))
    BY <1>6, <1>7, <1>8, <2>1
  <2> QED
    BY <2>2 DEF IInv, Bookkeeping
<1>11. TokenFirst'
  BY <1>1 DEF TokenFirst
<1> QED
  BY <1>2, <1>4, <1>9, <1>10, <1>11

-----------------------------------------------------------------------------
(* Every step keeps the invariant.                                         *)
LEMMA NextKeeps ==
  ASSUME SoundTable, IInv, [Next]_vars
  PROVE  IInv'
<1> DEFINE Rest == Made /\ Bookkeeping /\ Counted /\ TokenFirst /\ NilMeansServed
<1> SUFFICES Rest'
  BY NextKeepsType DEF IInv
<1>1. ASSUME NEW u \in Urls, Add(u) PROVE Rest'
  BY <1>1, AddKeeps
<1>2. CASE Notify
  BY <1>2, NotifyKeeps
<1>3. CASE Retry
  BY <1>3, RetryKeeps
<1>4. ASSUME NEW a \in Answers, Answer(a) PROVE Rest'
  <2> DEFINE got == Told(a \in Success)
  <2>1. Running /\ a \in Possible /\ Reach(got) /\ UNCHANGED <<service, plans, plan>>
    BY <1>4 DEF Answer
  <2>6. tokenless' = (tokenless \/ a = "bare")
    BY <1>4 DEF Answer
  <2>2. got \in SUBSET Recipients
    BY <2>1, AtRequest DEF Told
  <2>3. CASE a \in Request.ok /\ Succeed(a) /\ UNCHANGED unsure
    <3>1. Request.ok \subseteq Success
      BY <2>1, RequestIsTyped DEF IInv, Requests
    <3>2. got = IF Request.real THEN Request.to ELSE {}
      BY <2>3, <3>1 DEF Told
    <3>3. at' = at + 1 /\ served' = served \cup got
          /\ UNCHANGED <<sending, noted, result>>
      BY <2>3, <3>2 DEF Succeed, Told
    <3>4. Request.login \/ Token => Token'
      <4>1. loggedIn' = (loggedIn \/ (Request.login /\ a # "bare"))
        BY <2>3 DEF Succeed
      <4>2. Request \in RequestsOf(plan)
        BY <2>1, AtRequest DEF RequestsOf
      <4>3. Request.login /\ a = "bare" => Trusts(plan)
        BY <2>3, <4>2 DEF Trusts
      <4>4. Trusts(plan)' <=> Trusts(plan)
        BY <2>1
      <4> QED
        BY <2>6, <4>1, <4>3, <4>4, Zenon DEF Token
    <3> HIDE DEF got
    <3> QED
      BY <2>1, <2>2, <2>3, <3>2, <3>3, <3>4, SucceedKeeps
  <2>4. CASE Fail /\ unsure' = unsure \cup got
    <3>1. UNCHANGED <<served, loggedIn>>
      BY <2>4 DEF Fail
    <3>5. Token => Token'
      BY <2>1, <2>6, <3>1 DEF Token
    <3> HIDE DEF got
    <3>2. CASE Request.fail = "return" /\ Return
      BY <2>1, <2>2, <2>4, <3>1, <3>2, ReturnKeeps
    <3>3. CASE GoOn /\ Request.fail = "note" /\ noted' = TRUE
      BY <2>1, <2>2, <2>4, <3>1, <3>3, <3>5, GoOnKeeps
    <3>4. CASE GoOn /\ Request.fail = "forget" /\ noted' = noted
      BY <2>1, <2>2, <2>4, <3>1, <3>4, <3>5, GoOnKeeps
    <3> QED
      BY <2>4, <3>2, <3>3, <3>4 DEF Fail
  <2> QED
    BY <1>4, <2>3, <2>4 DEF Answer
<1>5. ASSUME NEW arrived \in BOOLEAN, Lose(arrived) PROVE Rest'
  <2> DEFINE got == Told(arrived)
  <2>1. /\ Running /\ Reach(got) /\ UNCHANGED <<service, plans, plan, tokenless>>
        /\ unsure' = unsure \cup got /\ Fail
    BY <1>5 DEF Lose
  <2>2. got \in SUBSET Recipients
    BY <2>1, AtRequest DEF Told
  <2>3. UNCHANGED <<served, loggedIn>>
    BY <2>1 DEF Fail
  <2>7. Token => Token'
    BY <2>1, <2>3 DEF Token
  <2> HIDE DEF got
  <2>4. CASE Request.fail = "return" /\ Return
    BY <2>1, <2>2, <2>3, <2>4, ReturnKeeps
  <2>5. CASE GoOn /\ Request.fail = "note" /\ noted' = TRUE
    BY <2>1, <2>2, <2>3, <2>5, <2>7, GoOnKeeps
  <2>6. CASE GoOn /\ Request.fail = "forget" /\ noted' = noted
    BY <2>1, <2>2, <2>3, <2>6, <2>7, GoOnKeeps
  <2> QED
    BY <2>1, <2>4, <2>5, <2>6 DEF Fail
<1>6. CASE TickFires
  <2>1. /\ Running /\ Request.tick /\ at' = at + 1
        /\ UNCHANGED <<service, plans, plan, sending, served, noted, result, unsure,
                       copies, loggedIn, tokenless>>
    BY <1>6 DEF TickFires
  <2>2. Request.to = {} /\ ~Request.login
    BY <2>1, AtWellMade
  <2>3. Reach({}) /\ served' = served \cup {}
    <3>1. copies \in [Recipients -> Nat]
      BY DEF IInv, TypeOK
    <3> QED
      BY <2>1, <2>2, <3>1 DEF Reach
  <2>4. {} \in SUBSET Recipients /\ {} = (IF Request.real THEN Request.to ELSE {})
    BY <2>2
  <2>5. Request.login \/ Token => Token'
    BY <2>1, <2>2 DEF Token
  <2> QED
    BY <2>1, <2>3, <2>4, <2>5, SucceedKeeps
<1>7. CASE TickCut
  <2>1. /\ Running /\ Request.tick /\ Return
        /\ UNCHANGED <<service, plans, plan, served, copies, unsure>>
    BY <1>7 DEF TickCut
  <2>2. Request.fail = "return"
    BY <2>1, AtWellMade
  <2>3. Reach({}) /\ unsure' = unsure \cup {}
    <3>1. copies \in [Recipients -> Nat]
      BY DEF IInv, TypeOK
    <3> QED
      BY <2>1, <3>1 DEF Reach
  <2>4. {} \in SUBSET Recipients
    OBVIOUS
  <2> QED
    BY <2>1, <2>2, <2>3, <2>4, ReturnKeeps
<1>8. CASE Finish
  BY <1>8, FinishKeeps
<1>9. ASSUME UNCHANGED <<service, plans, plan, loggedIn, tokenless, sending, at, served,
                          noted, result, copies, unsure>>
       PROVE  Rest'
  <2>1. Past' = Past /\ \A i : To(i)' = To(i)
    BY <1>9 DEF Past, To
  <2>2. Made'
    BY <1>9, MadeKept DEF IInv
  <2>3. Bookkeeping'
    BY <1>9, <2>1 DEF IInv, Bookkeeping
  <2>4. Counted' /\ TokenFirst' /\ NilMeansServed'
    BY <1>9 DEF IInv, Counted, TokenFirst, Token, NilMeansServed
  <2> QED
    BY <2>2, <2>3, <2>4
<1>10. Timeout \/ UNCHANGED vars => Rest'
  BY <1>9 DEF Timeout, vars
<1> HIDE DEF Rest
<1> QED
  BY <1>1, <1>2, <1>3, <1>4, <1>5, <1>6, <1>7, <1>8, <1>10 DEF Next

LEMMA InitGivesIt == Init => IInv
<1> SUFFICES ASSUME Init PROVE IInv
  OBVIOUS
<1>1. TypeOK
  BY InitIsTyped
<1>2. Made
  <2>1. WellMade(Hopeless)
    BY DEF WellMade, RecipientsOf, RequestsOf, Hopeless, Plan
  <2>2. WellMadePair(Nothing)
    BY <2>1 DEF WellMadePair, Nothing
  <2> QED
    BY <2>1, <2>2 DEF Init, Made
<1>3. Past = {}
  BY DEF Init, Past, Hopeless, Plan
<1>4. Bookkeeping /\ Counted
  BY <1>3 DEF Init, Bookkeeping, Counted
<1>5. TokenFirst /\ NilMeansServed
  BY DEF Init, TokenFirst, NilMeansServed
<1> QED
  BY <1>1, <1>2, <1>4, <1>5 DEF IInv

(* The invariant holds for every table that is sound.                      *)
THEOREM InvariantHolds == SoundTable => (Spec => []IInv)
<1> SUFFICES ASSUME SoundTable PROVE Spec => []IInv
  OBVIOUS
<1>1. IInv /\ [Next]_vars => IInv'
  BY NextKeeps
<1> QED
  BY <1>1, InitGivesIt, PTL DEF Spec

(* A Service that was accepted has well made plans.                        *)
THEOREM PlansCorrect == SoundTable => (Spec => []PlansAreWellMade)
<1>1. IInv => PlansAreWellMade
  BY DEF IInv, Made, PlansAreWellMade
<1> QED
  BY <1>1, InvariantHolds, PTL

(* A nil of a Send that makes its requests means that its recipients, or   *)
(* some if those are enough, are served, for every sound table.            *)
THEOREM NilCorrect == SoundTable => (Spec => []NilMeansServed)
<1>1. IInv => NilMeansServed
  BY DEF IInv
<1> QED
  BY <1>1, InvariantHolds, PTL

(* A second copy has one of the two causes, whatever the number of Sends.  *)
THEOREM SecondCopyCorrect == SoundTable => (Spec => []SecondCopyHasCause)
<1>1. IInv => SecondCopyHasCause
  <2> SUFFICES ASSUME IInv, NEW r \in Recipients, copies[r] > 1, r \notin unsure,
                      ~CanForget(plan)
               PROVE  FALSE
    BY DEF SecondCopyHasCause
  <2>1. copies[r] \in Nat
    BY DEF IInv, TypeOK
  <2>2. copies[r] = 1
    BY <2>1 DEF IInv, Counted
  <2> QED
    BY <2>2
<1> QED
  BY <1>1, InvariantHolds, PTL

(* Nothing is posted before the login went well, nor without a token that  *)
(* somebody looks for, for every sound table.                              *)
THEOREM LoginCorrect == SoundTable => (Spec => []NoPostWithoutLogin)
<1>1. IInv => NoPostWithoutLogin
  <2> SUFFICES ASSUME IInv, Running, LogsIn(plan), Request.to # {}
               PROVE  Token
    BY DEF NoPostWithoutLogin, Token
  <2>1. plan.requests[1].login
    BY LoginIsFirst DEF IInv, Made
  <2>2. at > 1
    BY <2>1, AtRequest, AtWellMade
  <2> QED
    BY <2>2 DEF IInv, TokenFirst, Running
<1> QED
  BY <1>1, InvariantHolds, PTL

-----------------------------------------------------------------------------
(* A plan is that of an accepted URL, or there is none.                    *)
OfTable(p) ==
  p = Hopeless \/ \E u \in Urls, in \in BOOLEAN : Accepts(u) /\ p = PlanOf(u, in)
FromTable == OfTable(plan) /\ \A in \in BOOLEAN : OfTable(plans[in])

(* Every plan a Service holds, or a Send follows, is one of the table's.   *)
THEOREM PlansOfTable == Spec => []FromTable
<1>1. ASSUME Init PROVE FromTable
  <2>1. plan = Hopeless /\ \A in \in BOOLEAN : plans[in] = Hopeless
    BY <1>1 DEF Init, Nothing
  <2> QED
    BY <2>1 DEF FromTable, OfTable
<1>2. ASSUME FromTable, TypeOK, [Next]_vars PROVE FromTable'
  <2>1. ASSUME NEW u \in Urls, Add(u) PROVE FromTable'
    <3>1. \A in \in BOOLEAN : plans'[in] = Hopeless \/ (Accepts(u) /\ plans'[in] = PlanOf(u, in))
      BY <2>1 DEF Add, Nothing
    <3>2. plan' = plan
      BY <2>1 DEF Add
    <3> QED
      BY <1>2, <3>1, <3>2 DEF FromTable, OfTable
  <2>2. ASSUME NEW in \in BOOLEAN, Begin(in) PROVE FromTable'
    <3>1. plan' = plans[in] /\ plans' = plans
      BY <2>2 DEF Begin
    <3> QED
      BY <1>2, <3>1 DEF FromTable
  <2>3. Notify \/ Retry => \E in \in BOOLEAN : Begin(in)
    BY <1>2 DEF Notify, Retry, TypeOK
  <2>4. ASSUME UNCHANGED <<plan, plans>> PROVE FromTable'
    BY <1>2, <2>4 DEF FromTable
  <2>5. \/ \E u \in Urls : Add(u)
        \/ Notify \/ Retry
        \/ UNCHANGED <<plan, plans>>
    BY <1>2 DEF Next, Answer, Lose, Timeout, TickFires, TickCut, Finish, vars
  <2> QED
    BY <2>1, <2>2, <2>3, <2>4, <2>5
<1> QED
  BY <1>1, <1>2, TypeCorrect, PTL DEF Spec

(* Where every plan makes its requests, a nil means that somebody has the  *)
(* message, and everybody unless some are enough.                          *)
NilReaches ==
  result = "nil" =>
    /\ served # {} /\ (plan.some \/ served = RecipientsOf(plan))
    /\ \A r \in served : copies[r] > 0

(* That holds of a sound table all of whose plans make their requests.     *)
THEOREM NilReachesThem ==
  SoundTable /\ (\A p : OfTable(p) => Honest(p)) => (Spec => []NilReaches)
<1> SUFFICES ASSUME SoundTable, \A p : OfTable(p) => Honest(p)
             PROVE  Spec => []NilReaches
  OBVIOUS
<1>1. FromTable /\ NilMeansServed => NilReaches
  BY DEF FromTable, NilMeansServed, NilReaches
<1> QED
  BY <1>1, PlansOfTable, NilCorrect, PTL

(* Who posts after a login has the token.                                  *)
PostHoldsToken == Running /\ LogsIn(plan) /\ Request.to # {} => loggedIn

(* That holds of a sound table whose logins look for the token.            *)
THEOREM PostsHoldToken ==
  SoundTable /\ (\A p : OfTable(p) => ~Trusts(p)) => (Spec => []PostHoldsToken)
<1> SUFFICES ASSUME SoundTable, \A p : OfTable(p) => ~Trusts(p)
             PROVE  Spec => []PostHoldsToken
  OBVIOUS
<1>1. FromTable /\ NoPostWithoutLogin => PostHoldsToken
  BY DEF FromTable, NoPostWithoutLogin, PostHoldsToken
<1> QED
  BY <1>1, PlansOfTable, LoginCorrect, PTL
=============================================================================
