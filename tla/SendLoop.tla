------------------------------ MODULE SendLoop ------------------------------
(***************************************************************************)
(* One service of an Apprise from its URL to the end of its Sends: what    *)
(* Add makes of the URL, the requests of a Send in order, the end of the   *)
(* context NotifyAll gives it, and the retry of a notification that failed *)
(* with a new service made from the same URL.  The table of the senders is *)
(* a parameter, so that what is said here is said of every such table.     *)
(***************************************************************************)
EXTENDS SendPlans

CONSTANTS Urls,             \* service URLs
          Accepts(_),       \* whether ParseURL returns nil
          PlanOf(_, _),     \* the plan of a Send, given the URL and the login
          Recipients,
          MaxAttempts,      \* Sends of one notification
          TicksPerSend      \* times the ticker fires before the context ends

Requests == [to : SUBSET Recipients, ok : SUBSET Success, flag : BOOLEAN,
             fail : {"return", "note", "forget"}, skip : Nat, tick : BOOLEAN,
             login : BOOLEAN, real : BOOLEAN, heeds : {"context", "timeout", "nothing"}]
Plans == [requests : Seq(Requests), some : BOOLEAN, hopeless : BOOLEAN]

ASSUME PlansAreTyped ==
  \A u \in Urls : /\ Accepts(u) \in BOOLEAN
                   /\ Accepts(u) => \A in \in BOOLEAN : PlanOf(u, in) \in Plans
ASSUME MaxAttemptsAssumption == MaxAttempts \in Nat \ {0}
ASSUME TicksAssumption == TicksPerSend \in Nat

VARIABLES service,    \* the state of the service: "none", "rejected" or "ready"
          plans,      \* its plans, without and with a login
          loggedIn,   \* whether it holds the token its posts need
          tokenless,  \* whether the login of this Send gave it none
          sending,    \* whether a Send is running
          plan,       \* the plan of that Send
          at,         \* the request it is at
          cut,        \* the request that was running when the context ended, or 0
          ticks,      \* ticks it has waited for
          served,     \* the recipients of its requests that went well
          noted,      \* whether it noted an error
          result,     \* "nil" or "error" when it has ended
          attempts,   \* Sends of this notification
          copies,     \* how often it has reached each recipient
          unsure      \* the recipients it has reached in a request that seemed to fail

vars == <<service, plans, loggedIn, tokenless, sending, plan, at, cut, ticks, served,
          noted, result, attempts, copies, unsure>>

Nothing == [in \in BOOLEAN |-> Hopeless]
Init ==
  /\ service = "none" /\ plans = Nothing /\ loggedIn = FALSE /\ tokenless = FALSE
  /\ sending = FALSE /\ plan = Hopeless /\ at = 1 /\ cut = 0 /\ ticks = 0
  /\ served = {} /\ noted = FALSE /\ result = "none"
  /\ attempts = 0 /\ copies = [r \in Recipients |-> 0] /\ unsure = {}

-----------------------------------------------------------------------------
(* Add keeps the service only if ParseURL accepts the URL.                 *)
Add(u) ==
  /\ service # "ready"
  /\ IF Accepts(u)
     THEN service' = "ready" /\ plans' = [in \in BOOLEAN |-> PlanOf(u, in)]
     ELSE service' = "rejected" /\ plans' = Nothing
  /\ UNCHANGED <<loggedIn, tokenless, sending, plan, at, cut, ticks, served, noted,
                 result, attempts, copies, unsure>>

LogsIn(p) == \E i \in DOMAIN p.requests : p.requests[i].login

(* A Send that logs in does not use the token of an earlier login.         *)
Begin(in) ==
  /\ sending' = TRUE /\ plan' = plans[in] /\ loggedIn' = (in /\ ~LogsIn(plans[in]))
  /\ at' = 1 /\ cut' = 0 /\ ticks' = 0 /\ served' = {} /\ noted' = FALSE
  /\ result' = "none" /\ tokenless' = FALSE
  /\ UNCHANGED <<service, plans>>

(* NotifyAll sends the next notification to the same service.              *)
Notify ==
  /\ service = "ready" /\ ~sending
  /\ Begin(loggedIn)
  /\ attempts' = 1 /\ copies' = [r \in Recipients |-> 0] /\ unsure' = {}

(* The queue retries a notification that failed with a new Apprise.        *)
(* A mistake for the runs to catch: one Send more than there may be.       *)
EagerRetry ==
  /\ result = "error" /\ attempts <= MaxAttempts
  /\ Begin(FALSE)
  /\ attempts' = attempts + 1
  /\ UNCHANGED <<copies, unsure>>
Retry ==
  /\ result = "error" /\ attempts < MaxAttempts
  /\ Begin(FALSE)
  /\ attempts' = attempts + 1
  /\ UNCHANGED <<copies, unsure>>

-----------------------------------------------------------------------------
Request == plan.requests[at]
Running == sending /\ at \in DOMAIN plan.requests

(* Once its context has ended no request leaves that heeds it; the one     *)
(* that was under way may still have arrived.                              *)
Alive == cut \in {0, at} \/ Request.heeds # "context"

Reach(got) == copies' = [r \in Recipients |-> IF r \in got THEN copies[r] + 1 ELSE copies[r]]

(* Whom an answer, or its loss, leaves with the message.                   *)
Told(arrived) == IF Request.real /\ arrived THEN Request.to ELSE {}

Succeed(a) ==
  /\ at' = at + 1
  /\ served' = served \cup Told(TRUE)
  /\ loggedIn' = (loggedIn \/ (Request.login /\ a # "bare"))
  /\ UNCHANGED <<sending, noted, result>>

Return == sending' = FALSE /\ result' = "error" /\ UNCHANGED <<at, noted>>
GoOn == at' = at + 1 + Request.skip /\ UNCHANGED <<sending, result>>

Fail ==
  /\ \/ Request.fail = "return" /\ Return
     \/ Request.fail = "note" /\ GoOn /\ noted' = TRUE
     \/ Request.fail = "forget" /\ GoOn /\ noted' = noted
  /\ UNCHANGED <<served, loggedIn>>

Possible ==
  {a \in Answers : /\ Request.real \/ a = "ok"
                   /\ Request.flag \/ a \notin {"denied", "odd"}
                   /\ Request.login \/ a # "bare"}

(* An answer arrives; if the server did as asked the message is there.     *)
Answer(a) ==
  /\ Running /\ ~Request.tick /\ Alive
  /\ a \in Possible
  /\ tokenless' = (tokenless \/ a = "bare")
  /\ LET got == Told(a \in Success)
     IN  /\ Reach(got)
         /\ \/ a \in Request.ok /\ Succeed(a) /\ UNCHANGED unsure
            \/ a \notin Request.ok /\ Fail /\ unsure' = unsure \cup got
  /\ UNCHANGED <<service, plans, plan, cut, ticks, attempts>>

(* No answer: the request or the answer is lost, or the wait is over.      *)
Lose(arrived) ==
  /\ Running /\ ~Request.tick /\ Request.real
  /\ arrived => Alive
  /\ LET got == Told(arrived) IN Reach(got) /\ unsure' = unsure \cup got
  /\ Fail
  /\ UNCHANGED <<service, plans, tokenless, plan, cut, ticks, attempts>>

Timeout ==
  /\ Running /\ cut = 0
  /\ cut' = at
  /\ UNCHANGED <<service, plans, loggedIn, tokenless, sending, plan, at, ticks, served,
                 noted, result, attempts, copies, unsure>>

TickFires ==
  /\ Running /\ Request.tick /\ ticks < TicksPerSend
  /\ ticks' = ticks + 1 /\ at' = at + 1
  /\ UNCHANGED <<service, plans, loggedIn, tokenless, sending, plan, cut, served, noted,
                 result, attempts, copies, unsure>>

(* A mistake for the runs to catch: the wait is for the ticker alone.      *)
DeafTickCut == FALSE
TickCut ==
  /\ Running /\ Request.tick /\ cut # 0
  /\ Return
  /\ UNCHANGED <<service, plans, loggedIn, tokenless, plan, cut, ticks, served, attempts,
                 copies, unsure>>

(* A mistake for the runs to catch: one error outweighs every success.     *)
StrictVerdict == IF plan.hopeless \/ noted THEN "error" ELSE "nil"
Verdict ==
  IF plan.hopeless \/ (noted /\ ~(plan.some /\ served # {})) THEN "error" ELSE "nil"

Finish ==
  /\ sending /\ ~Running
  /\ sending' = FALSE /\ result' = Verdict
  /\ UNCHANGED <<service, plans, loggedIn, tokenless, plan, at, cut, ticks, served, noted,
                 attempts, copies, unsure>>

Next ==
  \/ \E u \in Urls : Add(u)
  \/ Notify \/ Retry
  \/ \E a \in Answers : Answer(a)
  \/ \E arrived \in BOOLEAN : Lose(arrived)
  \/ Timeout \/ TickFires \/ TickCut \/ Finish

(* The timer of the context goes off; a request it ends, or that has a     *)
(* timeout of its own, ends; the code between two requests runs.  That an  *)
(* answer arrives otherwise, or the ticker fires in time, is not assumed.  *)
Overdue ==
  /\ Request.heeds = "timeout" \/ (Request.heeds = "context" /\ cut # 0)
  /\ (\E a \in Answers : Answer(a)) \/ (\E arrived \in BOOLEAN : Lose(arrived))
Fairness == WF_vars(Timeout) /\ WF_vars((Running /\ Overdue) \/ TickCut \/ Finish)

Spec == Init /\ [][Next]_vars /\ Fairness

-----------------------------------------------------------------------------
(* Every variable has its type; in particular the plan is one of the       *)
(* table's, or none (the state a Service value and a Send keep).           *)
TypeOK ==
  /\ service \in {"none", "rejected", "ready"}
  /\ plans \in [BOOLEAN -> Plans] /\ plan \in Plans
  /\ loggedIn \in BOOLEAN /\ tokenless \in BOOLEAN
  /\ sending \in BOOLEAN /\ noted \in BOOLEAN
  /\ at \in Nat \ {0} /\ cut \in Nat /\ ticks \in 0..TicksPerSend
  /\ served \subseteq Recipients /\ unsure \subseteq Recipients
  /\ result \in {"none", "nil", "error"} /\ attempts \in 0..MaxAttempts
  /\ copies \in [Recipients -> Nat]

RequestsOf(p) == {p.requests[i] : i \in DOMAIN p.requests}
RecipientsOf(p) == UNION {r.to : r \in RequestsOf(p)}
Honest(p) == \A r \in RequestsOf(p) : r.real

(* A Send that returns nil served somebody; all of its recipients, unless  *)
(* its code says that some are enough; and who it served has the message   *)
(* (the counters and early returns of the Sends, as in sendToChannel,      *)
(* against the answers).  Only of the Sends that make their requests: that *)
(* of rich and batch mobile push makes none, returns nil and has served    *)
(* nobody, and of those nothing is said.                                   *)
NilMeansServed ==
  result = "nil" =>
    /\ \A r \in served : copies[r] > 0
    /\ Honest(plan) => served # {} /\ (plan.some \/ served = RecipientsOf(plan))

(* A Send that fails although one of its posts went well: a later request, *)
(* or the wait for a tick, ends it in an error, or an error is noted that  *)
(* no success outweighs.                                                   *)
CanForget(p) ==
  \E i, j \in DOMAIN p.requests :
    /\ i # j /\ p.requests[i].to # {}
    /\ \/ i < j /\ p.requests[j].fail = "return"
       \/ p.requests[j].fail = "note" /\ ~p.some

(* What the senders have in common.  Each recipient is in one request; a   *)
(* wait brings nobody anything and may end the Send; an error is forgotten *)
(* only where no recipient depends on it; a login comes first and must     *)
(* succeed; a Send without hope posts nothing, and any other something.    *)
WellMade(p) ==
  /\ \A i, j \in DOMAIN p.requests :
       i # j => p.requests[i].to \cap p.requests[j].to = {}
  /\ \A i \in DOMAIN p.requests : LET r == p.requests[i] IN
       /\ r.tick => r.to = {} /\ r.fail = "return" /\ ~r.login
       /\ r.fail = "forget" => r.to = {} /\ r.skip = 0
       /\ r.login => i = 1 /\ r.to = {} /\ r.fail = "return"
  /\ p.hopeless <=> RecipientsOf(p) = {}

WellMadePair(ps) ==
  /\ \A in \in BOOLEAN : WellMade(ps[in])
  /\ CanForget(ps[TRUE]) = CanForget(ps[FALSE])

(* Every URL that ParseURL accepts gives a Service such plans: somebody to *)
(* tell, or the certainty of an error; nobody told twice by one Send.      *)
PlansAreWellMade == service = "ready" => WellMadePair(plans)

(* The retry of a notification gives nobody a second copy, unless the      *)
(* request that brought the first seemed to fail or the service is one of  *)
(* those that return an error in spite of a post that went well.           *)
SecondCopyHasCause ==
  \A r \in Recipients : copies[r] > 1 => r \in unsure \/ CanForget(plan)

Trusts(p) == \E r \in RequestsOf(p) : r.login /\ "bare" \in r.ok

(* No post goes out of a Send that has to log in before a login went well, *)
(* and none without the token but where the answer to the login held none  *)
(* and the sender does not look (Matrix, Rocket.Chat and Reddit, which     *)
(* post with an empty token; Mattermost looks).                            *)
NoPostWithoutLogin ==
  Running /\ LogsIn(plan) /\ Request.to # {} =>
    loggedIn \/ (tokenless /\ Trusts(plan))

(* When the context of its NotifyAll has ended a Send returns, if all of   *)
(* its requests heed the context or have a timeout (those of email and of  *)
(* the desktop's openURL do not).                                          *)
HeedsTime(p) == \A r \in RequestsOf(p) : r.heeds # "nothing"
SendsEnd == (sending /\ HeedsTime(plan)) ~> ~sending
=============================================================================
