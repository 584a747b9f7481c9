------------------------------ MODULE SendPlans ------------------------------
(***************************************************************************)
(* The vocabulary in which the senders of apprise/<service>.go are told:   *)
(* what their ParseURL reads of a service URL, and the requests their Send *)
(* makes, one after the other, with what it does when one of them fails.   *)
(*                                                                         *)
(* A URL is a record of what some ParseURL tells apart:                    *)
(*   user   "none", "empty", "key" (looks like an API key or a user id),   *)
(*          "ios" and "both" (mobile platforms), or "given"                *)
(*   pass   "none", "empty", "parts" (secrets joined by colons, as many as *)
(*          the service asks for, none empty), or "given"                  *)
(*   host   "empty", "region" (us or eu), or "given"                       *)
(*   path   the number of its segments, none of them empty                 *)
(*   hook   whether host or path have the form of the service's webhook    *)
(*   frag   whether there is a fragment                                    *)
(*   query  the keys with a value that is not empty                        *)
(*   bad    those of them whose value is none of the valid ones, and       *)
(*          "path" when segments are not what the service asks for         *)
(***************************************************************************)
EXTENDS Integers, Sequences, FiniteSets

HasUser(u) == u.user # "none"                   \* serviceURL.User != nil
Username(u) == u.user \notin {"none", "empty"}  \* Username() != ""
HasPassword(u) == u.pass # "none"               \* the bool of Password()
Password(u) == u.pass \notin {"none", "empty"}
HasHost(u) == u.host # "empty"
Has(u, key) == key \in u.query                  \* query.Get(key) != ""
HasAll(u, keys) == keys \subseteq u.query
Bad(u, key) == key \in u.bad

Plus(n, condition) == IF condition THEN n + 1 ELSE n

-----------------------------------------------------------------------------
(* Requests.  A request brings the message to the recipients `to`, and its *)
(* sender takes the answers `ok` for success: "ok" is a 200, "created"     *)
(* another 2xx and "error" any other status; where the code looks at the   *)
(* body (flag), also "denied", a 2xx whose body is not that of a success,  *)
(* and "odd", the body of a success under another status; and "bare", a    *)
(* login that succeeded and gave no token.                                 *)
(* Otherwise Send returns an error at once, or notes the error and goes on *)
(* after `skip` more requests, or forgets it.  A request ends with the     *)
(* context of the Send, with a timeout of its own, or waits as long as it  *)
(* takes (heeds).                                                          *)

Any2xx == {"ok", "created"}
Success == Any2xx \cup {"odd", "bare"}       \* what the server did
Answers == Success \cup {"error", "denied"}

Post(to) == [to |-> to, ok |-> Any2xx, flag |-> FALSE, fail |-> "return", skip |-> 0,
             tick |-> FALSE, login |-> FALSE, real |-> TRUE, heeds |-> "context"]
Call == Post({})                       \* a request that brings nobody anything
Only200(r) == [r EXCEPT !.ok = {"ok"}]
Flagged(r) == [r EXCEPT !.flag = TRUE]
BodyOnly(r) == [r EXCEPT !.flag = TRUE, !.ok = @ \cup {"odd"}]
Noting(r) == [r EXCEPT !.fail = "note"]
Forgiving(r) == [r EXCEPT !.fail = "forget"]
Skipping(r, n) == [r EXCEPT !.skip = n]
Deaf(r) == [r EXCEPT !.heeds = "nothing"]
OwnTimeout(r) == [r EXCEPT !.heeds = "timeout"]
Login(r) == [r EXCEPT !.login = TRUE]
Trusting(r) == [r EXCEPT !.ok = @ \cup {"bare"}]   \* the token is not looked at

(* Built, and nothing more: the request succeeds and is never made.        *)
Feigned(r) == [r EXCEPT !.real = FALSE, !.heeds = "timeout"]

(* No request: a wait for a ticker or for the end of the context.          *)
Tick == [Call EXCEPT !.tick = TRUE]

(* No request: attachments read and encoded, or a file written.            *)
Local == OwnTimeout(Call)

(* Plans.  When its requests are done, Send returns nil unless it noted an *)
(* error; if `some` one of its posts that went well outweighs those.       *)
Plan(requests) == [requests |-> requests, some |-> FALSE, hopeless |-> FALSE]
SomeOf(requests) == [Plan(requests) EXCEPT !.some = TRUE]

(* Send returns an error and made no request.                              *)
Hopeless == [Plan(<<>>) EXCEPT !.hopeless = TRUE]

Each(n) == [i \in 1..n |-> Post({i})]
One(n) == Plan(<<Post(1..n)>>)                 \* one request for all
EachOrReturn(n) == Plan(Each(n))               \* until one fails
EachNoted(n) == SomeOf([i \in 1..n |-> Noting(Post({i}))])

When(condition, requests) == IF condition THEN requests ELSE <<>>

(* net/http refuses a request whose URL has no host.                       *)
ToHost(u, plan) == IF HasHost(u) THEN plan ELSE Hopeless
=============================================================================
