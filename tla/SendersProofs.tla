--------------------------- MODULE SendersProofs ----------------------------
(* The table of the senders is sound: for every URL that the ParseURL of a *)
(* service accepts, whatever the number of its recipients, the plans of    *)
(* its Send are well made.  So what SendLoopProofs shows of sound tables   *)
(* holds of this one, without the bound of the run.                        *)
EXTENDS SendLoopProofs, Senders, FiniteSetTheorems, SequenceTheorems

(* Every URL: any scheme, any number of segments, any keys.                *)
ServiceUrls ==
  [scheme : STRING, user : STRING, pass : STRING, host : STRING, path : Nat,
   hook : BOOLEAN, frag : BOOLEAN, query : SUBSET STRING, bad : SUBSET STRING]

(* Requests and plans that tell any number of recipients.                  *)
Anyone == Nat \ {0}
AllRequests ==
  [to : SUBSET Anyone, ok : SUBSET Success, flag : BOOLEAN,
   fail : {"return", "note", "forget"}, skip : Nat, tick : BOOLEAN,
   login : BOOLEAN, real : BOOLEAN, heeds : {"context", "timeout", "nothing"}]
AllPlans == [requests : Seq(AllRequests), some : BOOLEAN, hopeless : BOOLEAN]
Fit(p) == p \in AllPlans /\ WellMade(p)
Sound(p) == Fit(p) /\ Honest(p)
Plain(p) == Sound(p) /\ ~LogsIn(p)

(* Requests that tell somebody, and those that tell nobody.                *)
Telling == {r \in AllRequests : /\ r.to # {} /\ ~r.tick /\ ~r.login /\ r.fail # "forget"
                                /\ r.real}
Quiet == {r \in AllRequests : /\ r.to = {} /\ ~r.login /\ (r.tick => r.fail = "return")
                              /\ (r.fail = "forget" => r.skip = 0) /\ r.real}

-----------------------------------------------------------------------------
(* The requests of the vocabulary: those that tell somebody...             *)
LEMMA PostTells ==
  ASSUME NEW S \in SUBSET Anyone, S # {}
  PROVE  Post(S) \in Telling /\ Post(S).to = S
<1>1. /\ Post(S).to = S /\ ~Post(S).tick /\ ~Post(S).login /\ Post(S).fail = "return"
      /\ Post(S).real /\ Post(S) \in AllRequests
  BY DEF Post, AllRequests, Any2xx, Success
<1> QED
  BY <1>1 DEF Telling

(* What a sender makes of such a request tells the same ones.              *)
LEMMA StillTells ==
  ASSUME NEW r \in Telling
  PROVE  /\ Flagged(r) \in Telling /\ Flagged(r).to = r.to
         /\ Noting(r) \in Telling /\ Noting(r).to = r.to
         /\ Deaf(r) \in Telling /\ Deaf(r).to = r.to
         /\ BodyOnly(r) \in Telling /\ BodyOnly(r).to = r.to
<1>1. r \in AllRequests /\ r.to # {} /\ ~r.tick /\ ~r.login /\ r.real
  BY DEF Telling
<1>2. /\ Flagged(r) \in AllRequests /\ Noting(r) \in AllRequests
      /\ Deaf(r) \in AllRequests
  BY <1>1 DEF Flagged, Noting, Deaf, AllRequests
<1>3. Flagged(r).to = r.to /\ Noting(r).to = r.to /\ Deaf(r).to = r.to /\ BodyOnly(r).to = r.to
  BY <1>1 DEF Flagged, Noting, Deaf, BodyOnly, AllRequests
<1>4. \A q \in {Flagged(r), Noting(r), Deaf(r), BodyOnly(r)} :
        q.tick = r.tick /\ q.login = r.login /\ q.real = r.real
  BY <1>1 DEF Flagged, Noting, Deaf, BodyOnly, AllRequests
<1>5. \A q \in {Flagged(r), Noting(r), Deaf(r), BodyOnly(r)} : q.fail \in {"note", r.fail}
  BY <1>1 DEF Flagged, Noting, Deaf, BodyOnly, AllRequests
<1>6. r.fail # "forget"
  BY DEF Telling
<1>7. BodyOnly(r) \in AllRequests
  BY <1>1 DEF BodyOnly, AllRequests, Success
<1> QED
  BY <1>1, <1>2, <1>3, <1>4, <1>5, <1>6, <1>7 DEF Telling

(* ...and those that tell nobody.                                          *)
LEMMA CallIsQuiet == Call \in Quiet /\ Call.fail = "return" /\ Call.skip = 0
<1>1. Call \in AllRequests
  BY DEF Call, Post, AllRequests, Any2xx, Success
<1>2. /\ Call.to = {} /\ ~Call.login /\ ~Call.tick /\ Call.fail = "return" /\ Call.skip = 0
      /\ Call.real
  BY DEF Call, Post
<1> QED
  BY <1>1, <1>2 DEF Quiet

(* What a sender makes of such a request tells nobody either.              *)
LEMMA StillQuiet ==
  ASSUME NEW r \in Quiet
  PROVE  /\ Deaf(r) \in Quiet /\ OwnTimeout(r) \in Quiet /\ Flagged(r) \in Quiet
         /\ r.fail = "return" => [r EXCEPT !.tick = TRUE] \in Quiet
         /\ ~r.tick => Skipping(Noting(r), 1) \in Quiet
         /\ ~r.tick /\ r.skip = 0 => Forgiving(r) \in Quiet
<1>1. r \in AllRequests
  BY DEF Quiet
<1>2. Deaf(r) \in Quiet
  BY <1>1 DEF Deaf, Quiet, AllRequests
<1>3. OwnTimeout(r) \in Quiet
  BY <1>1 DEF OwnTimeout, Quiet, AllRequests
<1>4. Flagged(r) \in Quiet
  BY <1>1 DEF Flagged, Quiet, AllRequests
<1>5. r.fail = "return" => [r EXCEPT !.tick = TRUE] \in Quiet
  BY <1>1 DEF Quiet, AllRequests
<1>6. ~r.tick => Skipping(Noting(r), 1) \in Quiet
  BY <1>1 DEF Skipping, Noting, Quiet, AllRequests
<1>7. ~r.tick /\ r.skip = 0 => Forgiving(r) \in Quiet
  BY <1>1 DEF Forgiving, Quiet, AllRequests
<1> QED
  BY <1>2, <1>3, <1>4, <1>5, <1>6, <1>7

(* Who has a request is a recipient.                                       *)
LEMMA SomebodyTold ==
  ASSUME NEW p, NEW i \in DOMAIN p.requests, p.requests[i].to # {}
  PROVE  RecipientsOf(p) # {}
<1>1. PICK x : x \in p.requests[i].to
  OBVIOUS
<1>2. p.requests[i] \in RequestsOf(p)
  BY DEF RequestsOf
<1>3. x \in RecipientsOf(p)
  BY <1>1, <1>2 DEF RecipientsOf
<1> QED
  BY <1>3

(* A plan in which every recipient has its request.                        *)
LEMMA OneEach ==
  ASSUME NEW n \in Nat \ {0}, NEW rs \in Seq(AllRequests), Len(rs) = n,
         \A i \in 1..n : rs[i] \in Telling /\ rs[i].to = {i}
  PROVE  Plain(Plan(rs)) /\ Plain(SomeOf(rs))
<1>1. /\ Plan(rs) \in AllPlans /\ Plan(rs).requests = rs /\ ~Plan(rs).hopeless
      /\ SomeOf(rs) \in AllPlans /\ SomeOf(rs).requests = rs /\ ~SomeOf(rs).hopeless
  <2>1. Plan(rs) \in AllPlans /\ Plan(rs).requests = rs /\ ~Plan(rs).hopeless
    BY DEF Plan, AllPlans
  <2> QED
    BY <2>1 DEF SomeOf, AllPlans
<1>2. DOMAIN rs = 1..n /\ 1 \in 1..n
  OBVIOUS
<1>3. \A i, j \in DOMAIN rs : i # j => rs[i].to \cap rs[j].to = {}
  BY <1>2
<1>4. \A i \in DOMAIN rs : ~rs[i].tick /\ rs[i].fail # "forget" /\ ~rs[i].login /\ rs[i].real
  BY <1>2 DEF Telling
<1>5. ASSUME NEW p, p.requests = rs, ~p.hopeless
      PROVE  WellMade(p) /\ ~LogsIn(p) /\ Honest(p)
  <2>1. 1 \in DOMAIN p.requests /\ p.requests[1].to # {}
    BY <1>2, <1>5
  <2>2. RecipientsOf(p) # {}
    BY <2>1, SomebodyTold
  <2> QED
    BY <1>3, <1>4, <1>5, <2>2 DEF WellMade, LogsIn, Honest, RequestsOf
<1> QED
  BY <1>1, <1>5 DEF Plain, Sound, Fit

(* A plan with one request that tells anybody.                             *)
LEMMA OneTeller ==
  ASSUME NEW p, ~p.hopeless, NEW n \in DOMAIN p.requests, p.requests[n] \in Telling,
         \A i \in DOMAIN p.requests : i # n => p.requests[i] \in Quiet
  PROVE  WellMade(p) /\ ~LogsIn(p) /\ Honest(p)
<1>1. \A i \in DOMAIN p.requests : i # n => p.requests[i].to = {}
  BY DEF Quiet
<1>2. \A i, j \in DOMAIN p.requests : i # j => p.requests[i].to \cap p.requests[j].to = {}
  BY <1>1
<1>3. \A i \in DOMAIN p.requests :
        /\ ~p.requests[i].login /\ p.requests[i].real
        /\ p.requests[i].tick => p.requests[i].to = {} /\ p.requests[i].fail = "return"
        /\ p.requests[i].fail = "forget" => p.requests[i].to = {} /\ p.requests[i].skip = 0
  BY DEF Quiet, Telling
<1>4. RecipientsOf(p) # {}
  BY SomebodyTold DEF Telling
<1> QED
  BY <1>2, <1>3, <1>4 DEF WellMade, LogsIn, Honest, RequestsOf

(* One telling request among quiet ones.                                   *)
LEMMA OneTelling ==
  ASSUME NEW r \in Telling, NEW before \in Seq(Quiet), NEW after \in Seq(Quiet)
  PROVE  Plain(Plan(before \o <<r>> \o after))
<1>1. Quiet \subseteq AllRequests /\ Telling \subseteq AllRequests
  BY DEF Quiet, Telling
<1>2. /\ before \in Seq(AllRequests) /\ after \in Seq(AllRequests) /\ <<r>> \in Seq(AllRequests)
      /\ Len(before) \in Nat /\ Len(after) \in Nat /\ Len(<<r>>) = 1 /\ <<r>>[1] = r
  BY <1>1, SeqMonotonic
<1> DEFINE n == Len(before) + 1
<1>3. /\ before \o <<r>> \in Seq(AllRequests) /\ Len(before \o <<r>>) = n
      /\ \A i \in 1..n : (before \o <<r>>)[i] = IF i < n THEN before[i] ELSE r
  BY <1>2, ConcatProperties
<1>4. PICK rs : rs = before \o <<r>> \o after
  OBVIOUS
<1>5. /\ rs \in Seq(AllRequests) /\ Len(rs) = n + Len(after) /\ n \in Nat
      /\ \A i \in 1..Len(rs) : rs[i] = IF i <= n THEN (before \o <<r>>)[i] ELSE after[i - n]
  BY <1>2, <1>3, <1>4, ConcatProperties
<1>6. ASSUME NEW i \in 1..Len(rs) PROVE IF i = n THEN rs[i] = r ELSE rs[i] \in Quiet
  <2>1. CASE i < n
    BY <1>2, <1>3, <1>5, <2>1, ElementOfSeq
  <2>2. CASE i = n
    BY <1>2, <1>3, <1>5, <2>2
  <2>3. CASE i > n
    <3>1. i - n \in 1..Len(after) /\ rs[i] = after[i - n]
      BY <1>2, <1>5, <2>3
    <3> QED
      BY <2>3, <3>1, ElementOfSeq
  <2> QED
    BY <1>5, <2>1, <2>2, <2>3
<1>7. Plan(rs) \in AllPlans /\ Plan(rs).requests = rs /\ ~Plan(rs).hopeless
  BY <1>5 DEF Plan, AllPlans
<1>8. DOMAIN rs = 1..Len(rs) /\ n \in DOMAIN rs
  BY <1>2, <1>5
<1>9. rs[n] \in Telling /\ \A i \in DOMAIN rs : i # n => rs[i] \in Quiet
  BY <1>6, <1>8
<1>10. WellMade(Plan(rs)) /\ ~LogsIn(Plan(rs)) /\ Honest(Plan(rs))
  BY <1>7, <1>8, <1>9, OneTeller
<1> QED
  BY <1>4, <1>7, <1>10 DEF Plain, Sound, Fit

(* A login, or a quiet request, before those of a plan.                    *)
Logins ==
  {r \in AllRequests : r.to = {} /\ ~r.tick /\ r.login /\ r.fail = "return" /\ r.real}

(* Nobody is told iff no request has a recipient.                          *)
LEMMA NobodyTold ==
  ASSUME NEW p
  PROVE  RecipientsOf(p) = {} <=> \A i \in DOMAIN p.requests : p.requests[i].to = {}
<1>1. ASSUME \A i \in DOMAIN p.requests : p.requests[i].to = {} PROVE RecipientsOf(p) = {}
  BY <1>1 DEF RecipientsOf, RequestsOf
<1> QED
  BY <1>1, SomebodyTold

(* A request in front that tells nobody.                                   *)
LEMMA OneBefore ==
  ASSUME NEW l \in Logins \cup Quiet, NEW p \in AllPlans, WellMade(p), ~LogsIn(p), Honest(p),
         NEW q \in AllPlans, q.requests = <<l>> \o p.requests, q.hopeless = p.hopeless
  PROVE  WellMade(q) /\ Honest(q) /\ \A r \in RequestsOf(q) : r.login => r = l
<1> DEFINE n == Len(p.requests)
<1>1. l \in AllRequests /\ p.requests \in Seq(AllRequests) /\ DOMAIN p.requests = 1..n /\ n \in Nat
  BY DEF Logins, Quiet, AllPlans
<1>2. PICK rs : rs = q.requests
  OBVIOUS
<1>3. /\ rs \in Seq(AllRequests) /\ Len(rs) = 1 + n
      /\ \A i \in 1..1 + n : rs[i] = IF i <= 1 THEN l ELSE p.requests[i - 1]
  <2>1. <<l>> \in Seq(AllRequests) /\ Len(<<l>>) = 1 /\ <<l>>[1] = l
    BY <1>1
  <2> QED
    BY <1>1, <1>2, <2>1, ConcatProperties
<1>4. DOMAIN rs = 1..1 + n /\ rs[1] = l /\ l.to = {}
  BY <1>1, <1>3 DEF Logins, Quiet
<1>5. \A i \in DOMAIN rs : i # 1 => i - 1 \in DOMAIN p.requests /\ rs[i] = p.requests[i - 1]
  BY <1>1, <1>3, <1>4
<1>6. ASSUME NEW i \in DOMAIN p.requests
      PROVE  i + 1 \in DOMAIN rs /\ rs[i + 1] = p.requests[i]
  <2>1. i \in 1..n /\ i + 1 \in 1..1 + n /\ ~(i + 1 <= 1) /\ (i + 1) - 1 = i
    BY <1>1
  <2> QED
    BY <1>3, <1>4, <2>1
<1>7. \A i, j \in DOMAIN rs : i # j => rs[i].to \cap rs[j].to = {}
  <2> SUFFICES ASSUME NEW i \in DOMAIN rs, NEW j \in DOMAIN rs, i # j
               PROVE  rs[i].to \cap rs[j].to = {}
    OBVIOUS
  <2>1. CASE i = 1 \/ j = 1
    BY <1>4, <2>1
  <2>2. CASE i # 1 /\ j # 1
    <3>1. i - 1 # j - 1
      BY <1>4
    <3> QED
      BY <1>5, <2>2, <3>1 DEF WellMade
  <2> QED
    BY <2>1, <2>2
<1>8. ASSUME NEW i \in DOMAIN rs
      PROVE  /\ rs[i].tick => rs[i].to = {} /\ rs[i].fail = "return" /\ ~rs[i].login
             /\ rs[i].fail = "forget" => rs[i].to = {} /\ rs[i].skip = 0
             /\ rs[i].login => i = 1 /\ rs[i].to = {} /\ rs[i].fail = "return"
  <2>1. CASE i = 1
    BY <1>4, <2>1 DEF Logins, Quiet
  <2>2. CASE i # 1
    BY <1>5, <2>2 DEF WellMade, LogsIn
  <2> QED
    BY <2>1, <2>2
<1>9. q.hopeless <=> RecipientsOf(q) = {}
  <2>1. (\A i \in DOMAIN rs : rs[i].to = {}) <=>
          \A i \in DOMAIN p.requests : p.requests[i].to = {}
    BY <1>4, <1>5, <1>6
  <2> QED
    BY <1>2, <2>1, NobodyTold DEF WellMade
<1>10. ASSUME NEW i \in DOMAIN rs PROVE rs[i].real /\ (rs[i].login => rs[i] = l)
  <2>1. CASE i = 1
    BY <1>4, <2>1 DEF Logins, Quiet
  <2>2. CASE i # 1
    BY <1>5, <2>2 DEF LogsIn, Honest, RequestsOf
  <2> QED
    BY <2>1, <2>2
<1>11. WellMade(q)
  BY <1>2, <1>7, <1>8, <1>9 DEF WellMade
<1> QED
  BY <1>2, <1>10, <1>11 DEF Honest, RequestsOf

(* A plan in which every post has a quiet request before it.               *)
LEMMA OneEachAfterQuiet ==
  ASSUME NEW n \in Nat \ {0}, NEW rs \in Seq(AllRequests), Len(rs) = 2 * n,
         \A i \in 1..2 * n : IF i % 2 = 1 THEN rs[i] \in Quiet
                             ELSE rs[i] \in Telling /\ rs[i].to = {i \div 2}
  PROVE  Plain(SomeOf(rs))
<1>1. SomeOf(rs) \in AllPlans /\ SomeOf(rs).requests = rs /\ ~SomeOf(rs).hopeless
  <2>1. Plan(rs) \in AllPlans /\ Plan(rs).requests = rs /\ ~Plan(rs).hopeless
    BY DEF Plan, AllPlans
  <2> QED
    BY <2>1 DEF SomeOf, AllPlans
<1>2. DOMAIN rs = 1..2 * n /\ 2 \in 1..2 * n /\ 2 % 2 # 1
  OBVIOUS
<1>3. \A i, j \in DOMAIN rs : i # j => rs[i].to \cap rs[j].to = {}
  <2> SUFFICES ASSUME NEW i \in DOMAIN rs, NEW j \in DOMAIN rs, i # j
               PROVE  rs[i].to \cap rs[j].to = {}
    OBVIOUS
  <2>1. CASE i % 2 = 1 \/ j % 2 = 1
    BY <1>2, <2>1 DEF Quiet
  <2>2. CASE i % 2 # 1 /\ j % 2 # 1
    <3>1. i \div 2 # j \div 2
      BY <1>2, <2>2
    <3>2. rs[i].to = {i \div 2} /\ rs[j].to = {j \div 2}
      BY <1>2, <2>2
    <3> QED
      BY <3>1, <3>2
  <2> QED
    BY <2>1, <2>2
<1>4. \A i \in DOMAIN rs :
        /\ ~rs[i].login /\ rs[i].real
        /\ rs[i].tick => rs[i].to = {} /\ rs[i].fail = "return"
        /\ rs[i].fail = "forget" => rs[i].to = {} /\ rs[i].skip = 0
  BY <1>2 DEF Quiet, Telling
<1>5. ASSUME NEW p, p.requests = rs, ~p.hopeless
      PROVE  WellMade(p) /\ ~LogsIn(p) /\ Honest(p)
  <2>1. 2 \in DOMAIN p.requests /\ p.requests[2].to # {}
    BY <1>2, <1>5 DEF Telling
  <2>2. RecipientsOf(p) # {}
    BY <2>1, SomebodyTold
  <2> QED
    BY <1>3, <1>4, <1>5, <2>2 DEF WellMade, LogsIn, Honest, RequestsOf
<1> QED
  BY <1>1, <1>5 DEF Plain, Sound, Fit

-----------------------------------------------------------------------------
(* The plans of the vocabulary.                                            *)
LEMMA HopelessIsPlain == Plain(Hopeless)
<1>1. PICK n : n = Plan(<<>>)
  OBVIOUS
<1>2. n \in AllPlans /\ n.requests = <<>>
  <2>1. <<>> \in Seq(AllRequests)
    OBVIOUS
  <2> QED
    BY <1>1, <2>1 DEF Plan, AllPlans
<1>3. PICK p : p = [n EXCEPT !.hopeless = TRUE]
  OBVIOUS
<1>4. p \in AllPlans /\ p.requests = <<>> /\ p.hopeless
  BY <1>2, <1>3 DEF AllPlans
<1>5. DOMAIN p.requests = {}
  BY <1>4
<1>6. RecipientsOf(p) = {}
  BY <1>5, NobodyTold
<1>7. WellMade(p) /\ ~LogsIn(p) /\ Honest(p)
  BY <1>4, <1>5, <1>6 DEF WellMade, LogsIn, Honest, RequestsOf
<1> QED
  BY <1>1, <1>3, <1>4, <1>7 DEF Hopeless, Plain, Sound, Fit

(* A single request that tells somebody.                                   *)
LEMMA OneRequestIsPlain == ASSUME NEW r \in Telling PROVE Plain(Plan(<<r>>))
<1>1. <<>> \in Seq(Quiet) /\ <<>> \o <<r>> \o <<>> = <<r>>
  OBVIOUS
<1> QED
  BY <1>1, OneTelling

(* A single post to n recipients.                                          *)
LEMMA OneIsPlain == ASSUME NEW n \in Nat \ {0} PROVE Plain(One(n))
<1>1. 1..n \in SUBSET Anyone /\ 1..n # {}
  BY DEF Anyone
<1> QED
  BY <1>1, PostTells, OneRequestIsPlain DEF One

(* A post to each of n recipients.                                         *)
LEMMA EachIsPlain ==
  ASSUME NEW n \in Nat \ {0}
  PROVE  /\ Plain(EachOrReturn(n)) /\ Plain(EachNoted(n))
         /\ Plain(SomeOf([i \in 1..n |-> Noting(Flagged(Post({i})))]))
         /\ Plain(SomeOf([i \in 1..n |-> Noting(BodyOnly(Post({i})))]))
         /\ [i \in 1..n |-> Noting(Flagged(Post({i})))] \in Seq(AllRequests)
<1>1. ASSUME NEW i \in 1..n
      PROVE  /\ Post({i}) \in Telling /\ Post({i}).to = {i}
             /\ Noting(Post({i})) \in Telling /\ Noting(Post({i})).to = {i}
             /\ Noting(Flagged(Post({i}))) \in Telling /\ Noting(Flagged(Post({i}))).to = {i}
             /\ Noting(BodyOnly(Post({i}))) \in Telling /\ Noting(BodyOnly(Post({i}))).to = {i}
  <2>1. Post({i}) \in Telling /\ Post({i}).to = {i}
    BY PostTells DEF Anyone
  <2> QED
    BY <2>1, StillTells
<1>2. ASSUME NEW rs \in [1..n -> Telling], \A i \in 1..n : rs[i].to = {i}
      PROVE  Plain(Plan(rs)) /\ Plain(SomeOf(rs)) /\ rs \in Seq(AllRequests)
  <2>1. rs \in [1..n -> AllRequests]
    BY DEF Telling
  <2>2. rs \in Seq(AllRequests) /\ Len(rs) = n
    BY <2>1, SeqDef
  <2> QED
    BY <1>2, <2>2, OneEach
<1>3. Plain(EachOrReturn(n))
  BY <1>1, <1>2 DEF EachOrReturn, Each
<1>4. Plain(EachNoted(n))
  BY <1>1, <1>2 DEF EachNoted
<1> QED
  BY <1>1, <1>2, <1>3, <1>4

(* The same for the lists of the senders, none of them empty.              *)
LEMMA ManyArePlain ==
  \A n \in Nat : n > 0 =>
    /\ Plain(One(n)) /\ Plain(EachOrReturn(n)) /\ Plain(EachNoted(n))
    /\ Plain(SomeOf([i \in 1..n |-> Noting(Flagged(Post({i})))]))
    /\ Plain(SomeOf([i \in 1..n |-> Noting(BodyOnly(Post({i})))]))
    /\ [i \in 1..n |-> Noting(Flagged(Post({i})))] \in Seq(AllRequests)
<1>1. \A n \in Nat : n > 0 => n \in Nat \ {0}
  OBVIOUS
<1> QED
  BY <1>1, OneIsPlain, EachIsPlain, Zenon

(* A plan that a URL without a host makes hopeless.                        *)
LEMMA ToHostIsPlain == ASSUME NEW u, NEW p, Plain(p) PROVE Plain(ToHost(u, p))
BY HopelessIsPlain DEF ToHost

(* A sequence of two is two sequences of one.                              *)
LEMMA TwoRequests ==
  ASSUME NEW a, NEW b
  PROVE  <<a, b>> = <<a>> \o <<b>>
<1>1. /\ <<a>> \in Seq({a, b}) /\ <<b>> \in Seq({a, b}) /\ <<a, b>> \in Seq({a, b})
      /\ Len(<<a>>) = 1 /\ Len(<<b>>) = 1 /\ Len(<<a, b>>) = 2
  OBVIOUS
<1>2. /\ <<a>> \o <<b>> \in Seq({a, b}) /\ Len(<<a>> \o <<b>>) = 2
      /\ (<<a>> \o <<b>>)[1] = a /\ (<<a>> \o <<b>>)[2] = b
  BY <1>1, ConcatProperties
<1>3. \A i \in 1..2 : <<a, b>>[i] = (<<a>> \o <<b>>)[i]
  <2>1. \A i \in 1..2 : i = 1 \/ i = 2
    OBVIOUS
  <2> QED
    BY <1>2, <2>1
<1> QED
  BY <1>1, <1>2, <1>3, SeqEqual

(* A telling request that comes last.                                      *)
LEMMA OneLast ==
  ASSUME NEW r \in Telling, NEW before \in Seq(Quiet)
  PROVE  Plain(Plan(before \o <<r>>))
<1>1. <<>> \in Seq(Quiet) /\ before \o <<r>> \o <<>> = before \o <<r>>
  <2>1. before \in Seq(Quiet \cup Telling) /\ <<r>> \in Seq(Quiet \cup Telling)
    BY SeqMonotonic
  <2>2. before \o <<r>> \in Seq(Quiet \cup Telling)
    BY <2>1, ConcatProperties
  <2> QED
    BY <2>2, ConcatEmptySeq
<1> QED
  BY <1>1, OneTelling

(* A telling request that comes first.                                     *)
LEMMA OneFirst ==
  ASSUME NEW r \in Telling, NEW after \in Seq(Quiet)
  PROVE  Plain(Plan(<<r>> \o after))
<1>1. <<>> \in Seq(Quiet) /\ <<>> \o <<r>> = <<r>>
  OBVIOUS
<1> QED
  BY <1>1, OneTelling

(* A service that logs in once has two plans; a success of the one is a    *)
(* success of the other.                                                   *)
LEMMA LoginBefore ==
  ASSUME NEW l \in Logins, NEW p \in AllPlans, Plain(p),
         NEW q \in AllPlans, q.requests = <<l>> \o p.requests, q.hopeless = p.hopeless,
         q.some = p.some
  PROVE  /\ Sound(q) /\ (CanForget(q) <=> CanForget(p))
         /\ \A r \in RequestsOf(q) : r.login => r = l
<1>1. WellMade(q) /\ Honest(q) /\ \A r \in RequestsOf(q) : r.login => r = l
  BY OneBefore DEF Plain, Sound, Fit
<1> DEFINE n == Len(p.requests)
           rs == q.requests
<1>2. l \in AllRequests /\ p.requests \in Seq(AllRequests) /\ DOMAIN p.requests = 1..n /\ n \in Nat
  BY DEF Logins, AllPlans
<1>3. /\ rs \in Seq(AllRequests) /\ Len(rs) = 1 + n
      /\ \A i \in 1..1 + n : rs[i] = IF i <= 1 THEN l ELSE p.requests[i - 1]
  <2>1. <<l>> \in Seq(AllRequests) /\ Len(<<l>>) = 1 /\ <<l>>[1] = l
    BY <1>2
  <2> QED
    BY <1>2, <2>1, ConcatProperties
<1>4. DOMAIN rs = 1..1 + n /\ rs[1] = l /\ l.to = {} /\ l.fail = "return"
  BY <1>2, <1>3 DEF Logins
<1> HIDE DEF rs
<1>5. ASSUME NEW i \in DOMAIN rs, i # 1
      PROVE  i - 1 \in DOMAIN p.requests /\ rs[i] = p.requests[i - 1] /\ i > 1
  BY <1>2, <1>3, <1>4, <1>5
<1>6. ASSUME NEW i \in DOMAIN p.requests
      PROVE  i + 1 \in DOMAIN rs /\ rs[i + 1] = p.requests[i]
  <2>1. i \in 1..n /\ i + 1 \in 1..1 + n /\ ~(i + 1 <= 1) /\ (i + 1) - 1 = i
    BY <1>2
  <2> QED
    BY <1>3, <1>4, <2>1
<1>7. ASSUME CanForget(p) PROVE CanForget(q)
  <2>1. PICK i \in DOMAIN p.requests, j \in DOMAIN p.requests :
          /\ i # j /\ p.requests[i].to # {}
          /\ \/ i < j /\ p.requests[j].fail = "return"
             \/ p.requests[j].fail = "note" /\ ~p.some
    BY <1>7 DEF CanForget
  <2>2. i + 1 # j + 1 /\ (i < j => i + 1 < j + 1)
    BY <1>2, <2>1
  <2> QED
    BY <1>6, <2>1, <2>2 DEF CanForget, rs
<1>8. ASSUME CanForget(q) PROVE CanForget(p)
  <2>1. PICK i \in DOMAIN rs, j \in DOMAIN rs :
          /\ i # j /\ rs[i].to # {}
          /\ \/ i < j /\ rs[j].fail = "return"
             \/ rs[j].fail = "note" /\ ~p.some
    BY <1>8 DEF CanForget, rs
  <2>2. i # 1
    BY <1>4, <2>1
  <2>3. i > 1 /\ j # 1
    BY <1>4, <1>5, <2>1, <2>2
  <2>4. i - 1 # j - 1 /\ (i < j => i - 1 < j - 1)
    BY <1>4, <2>1
  <2> QED
    BY <1>5, <2>1, <2>2, <2>3, <2>4 DEF CanForget
<1> QED
  BY <1>1, <1>7, <1>8 DEF Sound, Fit

(* A login in front, or none.                                              *)
LEMMA MaybeLogin ==
  ASSUME NEW l \in Logins, NEW rs \in Seq(AllRequests), NEW c \in BOOLEAN
  PROVE  /\ Plain(Plan(rs)) =>
              /\ Sound(Plan(When(c, <<l>>) \o rs))
              /\ CanForget(Plan(When(c, <<l>>) \o rs)) <=> CanForget(Plan(rs))
         /\ Plain(SomeOf(rs)) =>
              /\ Sound(SomeOf(When(c, <<l>>) \o rs))
              /\ CanForget(SomeOf(When(c, <<l>>) \o rs)) <=> CanForget(SomeOf(rs))
              /\ \A r \in RequestsOf(SomeOf(When(c, <<l>>) \o rs)) : r.login => r = l
<1>1. <<>> \o rs = rs
  BY ConcatEmptySeq
<1>2. <<l>> \in Seq(AllRequests) /\ <<l>> \o rs \in Seq(AllRequests)
  <2>1. <<l>> \in Seq(AllRequests)
    BY DEF Logins
  <2> QED
    BY <2>1, ConcatProperties
<1>3. CASE c
  <2>1. /\ Plan(<<l>> \o rs) \in AllPlans /\ Plan(rs) \in AllPlans /\ Plan(rs).requests = rs
        /\ Plan(<<l>> \o rs).requests = <<l>> \o rs
        /\ Plan(<<l>> \o rs).hopeless = Plan(rs).hopeless
        /\ Plan(<<l>> \o rs).some = Plan(rs).some
    BY <1>2 DEF Plan, AllPlans
  <2>2. /\ SomeOf(<<l>> \o rs) \in AllPlans /\ SomeOf(rs) \in AllPlans /\ SomeOf(rs).requests = rs
        /\ SomeOf(<<l>> \o rs).requests = <<l>> \o rs
        /\ SomeOf(<<l>> \o rs).hopeless = SomeOf(rs).hopeless
        /\ SomeOf(<<l>> \o rs).some = SomeOf(rs).some
    BY <2>1 DEF SomeOf, AllPlans
  <2>3. Plain(Plan(rs)) => /\ Sound(Plan(<<l>> \o rs))
                           /\ CanForget(Plan(<<l>> \o rs)) <=> CanForget(Plan(rs))
    BY <2>1, LoginBefore
  <2>4. Plain(SomeOf(rs)) => /\ Sound(SomeOf(<<l>> \o rs))
                             /\ CanForget(SomeOf(<<l>> \o rs)) <=> CanForget(SomeOf(rs))
                             /\ \A r \in RequestsOf(SomeOf(<<l>> \o rs)) : r.login => r = l
    BY <2>2, LoginBefore
  <2> QED
    BY <1>3, <2>3, <2>4 DEF When
<1>4. CASE ~c
  BY <1>1, <1>4 DEF When, Plain, LogsIn, RequestsOf
<1> QED
  BY <1>3, <1>4

(* The logins of the senders are such requests; that of Mattermost takes   *)
(* no answer without a token.                                              *)
LEMMA LoginIsLogin ==
  /\ Login(Call) \in Logins /\ "bare" \notin Login(Call).ok
  /\ Trusting(Login(Flagged(Call))) \in Logins
  /\ Trusting(Login(Flagged(Only200(Call)))) \in Logins
<1> DEFINE Blank == {r \in AllRequests : /\ r.to = {} /\ ~r.tick /\ r.fail = "return" /\ r.real
                                        /\ "bare" \notin r.ok}
<1>1. Call \in Blank
  BY DEF Call, Post, AllRequests, Any2xx, Success
<1>2. ASSUME NEW r \in Blank
      PROVE  /\ Only200(r) \in Blank /\ Flagged(r) \in Blank
             /\ Login(r) \in Logins /\ Login(r).ok = r.ok
  <2>1. {"ok"} \in SUBSET Success
    BY DEF Any2xx, Success
  <2>2. Only200(r) \in Blank
    BY <2>1 DEF Only200, AllRequests
  <2>3. Flagged(r) \in Blank
    BY DEF Flagged, AllRequests
  <2>4. Login(r) \in Logins /\ Login(r).ok = r.ok
    BY DEF Login, Logins, AllRequests
  <2> QED
    BY <2>2, <2>3, <2>4
<1>3. ASSUME NEW r \in Logins PROVE Trusting(r) \in Logins
  <2>1. r.ok \cup {"bare"} \in SUBSET Success
    BY DEF Logins, AllRequests, Success
  <2> QED
    BY <2>1 DEF Trusting, Logins, AllRequests
<1>4. Call \in Blank /\ Flagged(Call) \in Blank /\ Flagged(Only200(Call)) \in Blank
  BY <1>1, <1>2
<1>5. Login(Call).ok = Call.ok /\ "bare" \notin Call.ok
  BY <1>1, <1>2
<1> HIDE DEF Blank
<1> QED
  BY <1>2, <1>3, <1>4, <1>5

-----------------------------------------------------------------------------
(* The services.  Each of the following says that what a ParseURL accepts  *)
(* gives its Send a plan that is well made, and that logs in nowhere.      *)
LEMMA PathIsNumber == ASSUME NEW u \in ServiceUrls PROVE u.path \in Nat
BY DEF ServiceUrls

(* Of a few keys, a query has a number.                                    *)
LEMMA KeysOfQuery ==
  ASSUME NEW given
  PROVE  /\ Cardinality(given \cap {"cc", "bcc"}) \in Nat
         /\ Cardinality(given \cap {"device", "email", "channel"}) \in Nat
<1>1. IsFiniteSet({"bcc"}) /\ IsFiniteSet({"channel"})
  BY FS_Singleton
<1>2. IsFiniteSet({"bcc"} \cup {"cc"}) /\ IsFiniteSet({"channel"} \cup {"email"})
  BY <1>1, FS_AddElement
<1>3. IsFiniteSet({"channel"} \cup {"email"} \cup {"device"})
  BY <1>2, FS_AddElement
<1>4. /\ {"bcc"} \cup {"cc"} = {"cc", "bcc"}
      /\ {"channel"} \cup {"email"} \cup {"device"} = {"device", "email", "channel"}
  OBVIOUS
<1>5. IsFiniteSet({"cc", "bcc"}) /\ IsFiniteSet({"device", "email", "channel"})
  BY <1>2, <1>3, <1>4
<1>6. \A keys : given \cap keys \in SUBSET keys
  OBVIOUS
<1> QED
  BY <1>5, <1>6, FS_Subset, FS_CardinalityType

(* The posts of the senders are such requests.                             *)
LEMMA PostOne ==
  /\ Post({1}) \in Telling /\ Flagged(Post({1})) \in Telling
  /\ Plain(One(1)) /\ Plain(Plan(<<Post({1})>>)) /\ Plain(Plan(<<Flagged(Post({1}))>>))
  /\ Plain(Plan(<<BodyOnly(Post({1}))>>))
<1>1. {1} \in SUBSET Anyone /\ {1} # {}
  BY DEF Anyone
<1>2. /\ Post({1}) \in Telling /\ Flagged(Post({1})) \in Telling
      /\ BodyOnly(Post({1})) \in Telling
  BY <1>1, PostTells, StillTells
<1>3. Plain(One(1))
  BY OneIsPlain
<1> QED
  BY <1>2, <1>3, OneRequestIsPlain DEF Plain

(* What is done locally, and commands that nobody waits for.               *)
LEMMA QuietOnes ==
  /\ Local \in Quiet /\ <<Local>> \in Seq(Quiet) /\ Tick \in Quiet /\ EmailCommand \in Quiet
  /\ OpenURL \in Quiet /\ SaveHistory \in Quiet /\ MattermostGetChannelID \in Quiet
<1>1. PICK c : c = Call
  OBVIOUS
<1>2. c \in Quiet /\ c.fail = "return" /\ c.skip = 0 /\ ~c.tick
  BY <1>1, CallIsQuiet DEF Call, Post
<1>3. OwnTimeout(c) \in Quiet /\ Deaf(c) \in Quiet /\ Flagged(c) \in Quiet
  BY <1>2, StillQuiet
<1>4. /\ ~OwnTimeout(c).tick /\ OwnTimeout(c).skip = 0
      /\ ~Deaf(c).tick /\ Deaf(c).skip = 0 /\ ~Flagged(c).tick
  BY <1>2 DEF OwnTimeout, Deaf, Flagged, Quiet, AllRequests
<1>5. /\ Forgiving(OwnTimeout(c)) \in Quiet /\ Forgiving(Deaf(c)) \in Quiet
      /\ Skipping(Noting(Flagged(c)), 1) \in Quiet
  BY <1>3, <1>4, StillQuiet
<1>6. Local \in Quiet /\ Tick \in Quiet /\ EmailCommand \in Quiet
  BY <1>1, <1>2, <1>3, StillQuiet DEF Local, Tick, EmailCommand
<1>7. OpenURL \in Quiet /\ SaveHistory \in Quiet /\ MattermostGetChannelID \in Quiet
  BY <1>1, <1>5 DEF OpenURL, SaveHistory, Local, MattermostGetChannelID
<1>8. <<Local>> \in Seq(Quiet)
  BY <1>6
<1> QED
  BY <1>6, <1>7, <1>8

(* ChatSenders, but for those that log in.                                 *)
LEMMA ChatIsPlain ==
  ASSUME NEW u \in ServiceUrls
  PROVE  /\ Plain(SlackSend(u)) /\ Plain(DiscordSend(u)) /\ Plain(MSTeamsSend(u))
         /\ TelegramParseURL(u) => Plain(TelegramSend(u))
<1>1. Plain(SlackSend(u)) /\ Plain(DiscordSend(u))
  BY PostOne DEF SlackSend, SlackSendPayload, SlackSendBotPayload, DiscordSend
<1>2. Plain(MSTeamsSend(u))
  BY QuietOnes, PostOne, TwoRequests, OneLast DEF MSTeamsSend
<1>3. TelegramParseURL(u) => Plain(TelegramSend(u))
  BY PathIsNumber, ManyArePlain DEF TelegramParseURL, TelegramSend
<1> QED
  BY <1>1, <1>2, <1>3

(* SmsSenders.                                                             *)
LEMMA SmsIsPlain ==
  ASSUME NEW u \in ServiceUrls
  PROVE  /\ TwilioParseURL(u) => Plain(TwilioSend(u))
         /\ NexmoParseURL(u) => Plain(NexmoSend(u))
         /\ PlivoParseURL(u) => Plain(PlivoSend(u))
         /\ BulkSMSParseURL(u) => Plain(BulkSMSSend(u))
         /\ MessageBirdParseURL(u) => Plain(MessageBirdSend(u))
         /\ ClickSendParseURL(u) => Plain(ClickSendSend(u))
         /\ TextMagicParseURL(u) => Plain(TextMagicSend(u))
         /\ WhatsAppParseURL(u) => Plain(WhatsAppSend(u))
         /\ SignalParseURL(u) => Plain(SignalSend(u))
         /\ Plain(AWSSNSSMSSend(u))
<1>0. u.path \in Nat /\ HostAndPath(u) \in Nat
  BY PathIsNumber DEF HostAndPath, Plus
<1>1. TwilioParseURL(u) => Plain(TwilioSend(u))
  <2> SUFFICES ASSUME u.path > 0 PROVE Plain(TwilioSend(u))
    BY DEF TwilioParseURL
  <2> DEFINE n == u.path
  <2>1. n \in Nat \ {0}
    BY PathIsNumber
  <2>2. Tick \in Quiet
    BY QuietOnes
  <2>3. ASSUME NEW i \in 1..2 * n, i % 2 # 1
        PROVE  Noting(Post({i \div 2})) \in Telling /\ Noting(Post({i \div 2})).to = {i \div 2}
    <3>1. i \div 2 \in Nat \ {0}
      BY <2>1, <2>3
    <3>2. Post({i \div 2}) \in Telling /\ Post({i \div 2}).to = {i \div 2}
      BY <3>1, PostTells DEF Anyone
    <3> QED
      BY <3>2, StillTells
  <2>4. PICK rs : rs = [i \in 1..2 * n |-> IF i % 2 = 1 THEN Tick ELSE Noting(Post({i \div 2}))]
    OBVIOUS
  <2>5. rs \in [1..2 * n -> AllRequests]
    BY <2>2, <2>3, <2>4 DEF Quiet, Telling
  <2>6. rs \in Seq(AllRequests) /\ Len(rs) = 2 * n
    BY <2>1, <2>5, SeqDef
  <2>7. \A i \in 1..2 * n : IF i % 2 = 1 THEN rs[i] \in Quiet
                            ELSE rs[i] \in Telling /\ rs[i].to = {i \div 2}
    BY <2>2, <2>3, <2>4
  <2>8. Plain(SomeOf(rs))
    BY <2>1, <2>6, <2>7, OneEachAfterQuiet
  <2> QED
    BY <2>4, <2>8 DEF TwilioSend
<1>2. /\ NexmoParseURL(u) => Plain(NexmoSend(u))
      /\ PlivoParseURL(u) => Plain(PlivoSend(u))
      /\ WhatsAppParseURL(u) => Plain(WhatsAppSend(u))
      /\ SignalParseURL(u) => Plain(SignalSend(u))
  BY PathIsNumber, ManyArePlain DEF NexmoParseURL, NexmoSend, PlivoParseURL, PlivoSend,
     WhatsAppParseURL, WhatsAppSend, SignalParseURL, SignalSend
<1>3. BulkSMSParseURL(u) => Plain(BulkSMSSend(u))
  BY <1>0, ManyArePlain DEF BulkSMSParseURL, BulkSMSSend
<1>4. /\ MessageBirdParseURL(u) => Plain(MessageBirdSend(u))
      /\ ClickSendParseURL(u) => Plain(ClickSendSend(u))
      /\ TextMagicParseURL(u) => Plain(TextMagicSend(u))
  BY <1>0, ManyArePlain DEF MessageBirdParseURL, MessageBirdSend, ClickSendParseURL,
     ClickSendSend, TextMagicParseURL, TextMagicSend
<1>5. Plain(AWSSNSSMSSend(u))
  BY HopelessIsPlain DEF AWSSNSSMSSend
<1> QED
  BY <1>1, <1>2, <1>3, <1>4, <1>5

(* WebSenders, but for reddit.                                             *)
LEMMA WebIsPlain ==
  ASSUME NEW u \in ServiceUrls
  PROVE  /\ Plain(IFTTTSend(u)) /\ Plain(ZapierSend(u)) /\ Plain(NodeREDSend(u))
         /\ Plain(HomeAssistantSend(u)) /\ Plain(FacebookSend(u)) /\ Plain(InstagramSend(u))
         /\ Plain(YouTubeSend(u)) /\ Plain(TikTokSend(u)) /\ Plain(MastodonSend(u))
         /\ SendGridParseURL(u) => Plain(SendGridSend(u))
         /\ MailgunParseURL(u) => Plain(MailgunSend(u))
         /\ Plain(WebhookSend(u)) /\ Plain(TwitterSend(u)) /\ Plain(LinkedInSend(u))
<1>1. /\ Plain(IFTTTSend(u)) /\ Plain(ZapierSend(u)) /\ Plain(NodeREDSend(u))
      /\ Plain(HomeAssistantSend(u)) /\ Plain(FacebookSend(u)) /\ Plain(MastodonSend(u))
  BY PostOne DEF IFTTTSend, ZapierSend, NodeREDSend, HomeAssistantSend, FacebookSend,
     MastodonSend
<1>2. Plain(InstagramSend(u)) /\ Plain(YouTubeSend(u)) /\ Plain(TikTokSend(u))
  BY HopelessIsPlain DEF InstagramSend, YouTubeSend, TikTokSend
<1>3. /\ SendGridParseURL(u) => Plain(SendGridSend(u))
      /\ MailgunParseURL(u) => Plain(MailgunSend(u))
  BY PathIsNumber, ManyArePlain DEF SendGridParseURL, SendGridSend, MailgunParseURL,
     MailgunSend
<1>4. Plain(ToHost(u, One(1)))
  BY PostOne, ToHostIsPlain
<1>5. Plain(WebhookSend(u)) /\ Plain(TwitterSend(u)) /\ Plain(LinkedInSend(u))
  BY <1>4, PostOne DEF WebhookSend, TwitterSend, TwitterSendViaWebhook, TwitterSendDirectly,
     LinkedInSend, LinkedInSendViaWebhook, LinkedInSendDirectly
<1> QED
  BY <1>1, <1>2, <1>3, <1>5

(* PushSenders.                                                            *)
LEMMA PushIsPlain ==
  ASSUME NEW u \in ServiceUrls
  PROVE  /\ Plain(PushoverSend(u)) /\ Plain(PushbulletSend(u)) /\ Plain(NtfySend(u))
         /\ Plain(GotifySend(u)) /\ Plain(FCMSend(u)) /\ Plain(APNSSend(u))
<1>1. Plain(PushoverSend(u))
  <2>1. PICK n : n = u.path
    OBVIOUS
  <2>2. n \in Nat /\ (n # 0 => n > 0)
    BY <2>1, PathIsNumber
  <2>3. n # 0 => Plain(SomeOf([i \in 1..n |-> Noting(BodyOnly(Post({i})))]))
    BY <2>2, ManyArePlain
  <2> QED
    BY <2>1, <2>3, PostOne DEF PushoverSend, PushoverSendToDevice
<1>2. Plain(PushbulletSend(u))
  <2>1. PICK n : n = PushbulletTargets(u)
    OBVIOUS
  <2>2. PICK k : k = Cardinality(u.query \cap {"device", "email", "channel"})
    OBVIOUS
  <2>3. k \in Nat /\ u.path \in Nat
    BY <2>2, KeysOfQuery, PathIsNumber
  <2>4. n \in Nat /\ (n # 0 => n > 0)
    BY <2>1, <2>2, <2>3 DEF PushbulletTargets, Plus
  <2>5. n # 0 => Plain(SomeOf([i \in 1..n |-> Noting(Flagged(Post({i})))]))
    BY <2>4, ManyArePlain
  <2> QED
    BY <2>1, <2>5, PostOne DEF PushbulletSend, PushbulletSendPush
<1>3. /\ Plain(NtfySend(u)) /\ Plain(GotifySend(u)) /\ Plain(FCMSend(u)) /\ Plain(APNSSend(u))
  BY PostOne, ToHostIsPlain DEF NtfySend, GotifySend, FCMSend, APNSSend
<1> QED
  BY <1>1, <1>2, <1>3

(* Rich and batch mobile push: a request for each platform, none made.     *)
LEMMA RichIsFit ==
  ASSUME NEW u \in ServiceUrls
  PROVE  Fit(RichMobilePushSend(u)) /\ ~LogsIn(RichMobilePushSend(u))
<1>1. PICK n \in {1, 2} : n = IF u.user = "both" THEN 2 ELSE 1
  OBVIOUS
<1>2. ASSUME NEW i \in 1..n
      PROVE  LET r == RichMobilePushSendTo(i) IN
             r \in AllRequests /\ r.to = {i} /\ ~r.tick /\ ~r.login /\ r.fail = "note"
  <2>1. {i} \in SUBSET Anyone
    BY DEF Anyone
  <2>2. PICK r : r = Post({i})
    OBVIOUS
  <2>3. r \in AllRequests /\ r.to = {i} /\ ~r.tick /\ ~r.login
    BY <2>1, <2>2 DEF Post, AllRequests, Any2xx, Success
  <2> QED
    BY <2>2, <2>3 DEF RichMobilePushSendTo, Noting, Feigned, AllRequests
<1>3. PICK rs : rs = [i \in 1..n |-> RichMobilePushSendTo(i)]
  OBVIOUS
<1>4. rs \in [1..n -> AllRequests]
  BY <1>2, <1>3
<1>5. rs \in Seq(AllRequests) /\ DOMAIN rs = 1..n /\ 1 \in DOMAIN rs
  BY <1>4, SeqDef
<1>6. PICK p : p = Plan(rs)
  OBVIOUS
<1>7. p \in AllPlans /\ p.requests = rs /\ ~p.hopeless
  BY <1>5, <1>6 DEF Plan, AllPlans
<1>8. \A i \in DOMAIN rs : rs[i].to = {i} /\ ~rs[i].tick /\ ~rs[i].login /\ rs[i].fail = "note"
  BY <1>2, <1>3, <1>5
<1>9. RecipientsOf(p) # {}
  BY <1>5, <1>7, <1>8, SomebodyTold
<1>10. WellMade(p) /\ ~LogsIn(p)
  BY <1>7, <1>8, <1>9 DEF WellMade, LogsIn
<1> QED
  BY <1>1, <1>3, <1>6, <1>7, <1>10 DEF RichMobilePushSend, Fit

(* OpsSenders.                                                             *)
LEMMA OpsIsPlain ==
  ASSUME NEW u \in ServiceUrls
  PROVE  /\ Plain(PagerDutySend(u)) /\ Plain(OpsgenieSend(u)) /\ Plain(GitHubSend(u))
         /\ Plain(GitLabSend(u)) /\ Plain(JiraSend(u)) /\ Plain(DatadogSend(u))
         /\ Plain(NewRelicSend(u))
<1>1. Plain(PagerDutySend(u)) /\ Plain(OpsgenieSend(u))
  BY PostOne DEF PagerDutySend, OpsgenieSend
<1>2. Plain(One(1)) /\ Plain(ToHost(u, One(1)))
  BY PostOne, ToHostIsPlain
<1>3. Plain(One(Kinds)) /\ Plain(ToHost(u, One(Kinds))) /\ Plain(EachOrReturn(Kinds))
  <2>1. Kinds \in Nat /\ Kinds > 0
    BY DEF Kinds
  <2>2. Plain(One(Kinds)) /\ Plain(EachOrReturn(Kinds))
    BY <2>1, ManyArePlain
  <2> QED
    BY <2>2, ToHostIsPlain
<1>4. Plain(GitHubSend(u)) /\ Plain(GitLabSend(u)) /\ Plain(JiraSend(u))
  BY <1>2 DEF GitHubSend, GitHubSendViaWebhook, GitHubSendDirectly, GitLabSend,
     GitLabSendViaWebhook, GitLabSendDirectly, JiraSend, JiraSendViaWebhook,
     JiraSendIssueDirectly
<1>5. Plain(DatadogSend(u)) /\ Plain(NewRelicSend(u))
  BY <1>3 DEF DatadogSend, DatadogSendViaWebhook, DatadogSendDirectly, NewRelicSend,
     NewRelicSendViaWebhook, NewRelicSendDirectly
<1> QED
  BY <1>1, <1>4, <1>5

(* CloudSenders.                                                           *)
LEMMA CloudIsPlain ==
  ASSUME NEW u \in ServiceUrls
  PROVE  /\ Plain(SESSend(u)) /\ Plain(SNSSend(u)) /\ Plain(PubSubSend(u))
         /\ Plain(AzureSBSend(u)) /\ Plain(AWSIoTSend(u)) /\ Plain(GCPIoTSend(u))
         /\ Plain(PollySend(u))
         /\ TwilioVoiceParseURL(u) => Plain(TwilioVoiceSend(u))
<1>1. Plain(SESSend(u))
  <2>0. PICK k : k = Cardinality(u.query \cap {"cc", "bcc"})
    OBVIOUS
  <2>1. PICK n : n = 1 + k
    OBVIOUS
  <2>2. n \in Nat \ {0}
    <3>1. k \in Nat
      BY <2>0, KeysOfQuery
    <3> QED
      BY <2>1, <3>1
  <2>3. 1..n \in SUBSET Anyone /\ 1..n # {}
    BY <2>2 DEF Anyone
  <2>4. Post(1..n) \in Telling
    BY <2>3, PostTells
  <2>5. Plain(Plan(<<Local, Post(1..n)>>))
    BY <2>4, QuietOnes, TwoRequests, OneLast
  <2> QED
    BY <2>0, <2>1, <2>5 DEF SESSend, SESProcessAttachments
<1>2. Plain(One(1)) /\ Plain(ToHost(u, One(1)))
  BY PostOne, ToHostIsPlain
<1>3. Plain(SNSSend(u)) /\ Plain(PubSubSend(u)) /\ Plain(AzureSBSend(u))
  BY <1>2 DEF SNSSend, PubSubSend, AzureSBSend
<1>4. Plain(AWSIoTSend(u)) /\ Plain(GCPIoTSend(u)) /\ Plain(PollySend(u))
  BY <1>2, HopelessIsPlain DEF AWSIoTSend, AWSIoTSendViaWebhook, AWSIoTSendDirectly, GCPIoTSend,
     GCPIoTSendViaWebhook, GCPIoTSendDirectly, PollySend, PollySendViaWebhook, PollySendDirectly
<1>5. TwilioVoiceParseURL(u) => Plain(TwilioVoiceSend(u))
  <2>1. TwilioVoiceCallees(u) \in Nat
    BY PathIsNumber DEF TwilioVoiceCallees, Plus
  <2>2. TwilioVoiceCallees(u) > 0 => /\ Plain(One(TwilioVoiceCallees(u)))
                                     /\ Plain(EachOrReturn(TwilioVoiceCallees(u)))
    BY <2>1, ManyArePlain
  <2> QED
    BY <2>2, ToHostIsPlain DEF TwilioVoiceParseURL, TwilioVoiceSend, TwilioVoiceSendViaWebhook,
       TwilioVoiceSendCallsDirectly
<1> QED
  BY <1>1, <1>3, <1>4, <1>5

(* Email: the handshake, then one message to all.                          *)
LEMMA EmailIsPlain == ASSUME NEW u \in ServiceUrls, EmailParseURL(u) PROVE Plain(EmailSend(u))
<1>1. PICK n : n = EmailRecipients(u)
  OBVIOUS
<1>2. n \in Nat \ {0}
  <2>1. u.path \in Nat /\ u.path > 0
    BY PathIsNumber DEF EmailParseURL
  <2>2. PICK k : k = Cardinality((u.query \ u.bad) \cap {"cc", "bcc"})
    OBVIOUS
  <2>3. k \in Nat
    BY <2>2, KeysOfQuery
  <2> QED
    BY <1>1, <2>1, <2>2, <2>3 DEF EmailRecipients
<1>3. Deaf(Post(1..n)) \in Telling
  <2>1. 1..n \in SUBSET Anyone /\ 1..n # {}
    BY <1>2 DEF Anyone
  <2> QED
    BY <2>1, PostTells, StillTells
<1>4. EmailCommand \in Quiet /\ Local \in Quiet /\ OwnTimeout(Call) \in Quiet /\ Call \in Quiet
  BY QuietOnes, CallIsQuiet, StillQuiet
<1>5. EmailCreateMessage \in Seq(Quiet)
  BY <1>4 DEF EmailCreateMessage
<1>6. EmailAuth(u) \in Seq(Quiet)
  BY <1>4 DEF EmailAuth, When
<1>7. EmailConnectSMTP(u) \in Seq(Quiet)
  <2>1. <<IF u.scheme = "mailtos" THEN OwnTimeout(Call) ELSE Call, EmailCommand>> \in Seq(Quiet)
    BY <1>4
  <2>2. When(u.scheme = "mailto" /\ ~Has(u, "no_tls"), <<EmailCommand>>) \in Seq(Quiet)
    BY <1>4 DEF When
  <2> QED
    BY <2>1, <2>2, ConcatProperties DEF EmailConnectSMTP
<1>8. EmailEnvelope(u) \in Seq(Quiet)
  <2>1. n + 2 \in Nat /\ [i \in 1..n + 2 |-> EmailCommand] \in [1..n + 2 -> Quiet]
    BY <1>2, <1>4
  <2> QED
    BY <1>1, <2>1, SeqDef DEF EmailEnvelope
<1>9. EmailCreateMessage \o EmailConnectSMTP(u) \in Seq(Quiet)
  BY <1>5, <1>7, ConcatProperties
<1>10. EmailCreateMessage \o EmailConnectSMTP(u) \o EmailAuth(u) \in Seq(Quiet)
  BY <1>6, <1>9, ConcatProperties
<1>11. EmailCreateMessage \o EmailConnectSMTP(u) \o EmailAuth(u) \o EmailEnvelope(u) \in Seq(Quiet)
  BY <1>8, <1>10, ConcatProperties
<1> QED
  BY <1>1, <1>3, <1>11, OneLast DEF EmailSend

(* LocalSenders: a command, or nothing to run.                             *)
LEMMA DesktopIsPlain ==
  ASSUME NEW u \in ServiceUrls
  PROVE  /\ Plain(DesktopSend(u)) /\ Plain(LinuxDBusSend(u)) /\ Plain(AdvancedDesktopSend(u))
         /\ Sound(PersistentDesktopSend(u))
<1>1. \A tools : Plain(Need(tools))
  BY PostOne, HopelessIsPlain DEF Need, Command
<1>2. \A v : Plain(DesktopSend(v))
  BY <1>1, HopelessIsPlain DEF DesktopSend
<1>3. Plain(LinuxDBusSend(u))
  BY <1>2 DEF LinuxDBusSend
<1>4. Plain(Interactive(u))
  <2>1. HandleInteraction(u) \in Seq(Quiet)
    BY QuietOnes DEF HandleInteraction, When
  <2> QED
    BY <2>1, PostOne, OneFirst DEF Interactive, Command
<1>5. Plain(AdvancedDesktopSend(u))
  BY <1>1, <1>2, <1>4, HopelessIsPlain DEF AdvancedDesktopSend
<1>6. Sound(PersistentDesktopSend(u))
  <2>1. PICK p : p = AdvancedDesktopSend(u)
    OBVIOUS
  <2>2. p \in AllPlans /\ Plain(p)
    BY <1>5, <2>1 DEF Plain, Sound, Fit
  <2>3. PICK q : q = [p EXCEPT !.requests = <<SaveHistory>> \o @]
    OBVIOUS
  <2>4. <<SaveHistory>> \o p.requests \in Seq(AllRequests)
    <3>1. SaveHistory \in AllRequests /\ <<SaveHistory>> \in Seq(AllRequests)
      BY QuietOnes DEF Quiet
    <3>2. p.requests \in Seq(AllRequests)
      BY <2>2 DEF AllPlans
    <3> QED
      BY <3>1, <3>2, ConcatProperties
  <2>5. q \in AllPlans /\ q.requests = <<SaveHistory>> \o p.requests /\ q.hopeless = p.hopeless
    BY <2>2, <2>3, <2>4 DEF AllPlans
  <2>6. WellMade(q) /\ Honest(q)
    BY <2>2, <2>5, QuietOnes, OneBefore DEF Plain, Sound, Fit
  <2> QED
    BY <2>1, <2>3, <2>5, <2>6 DEF PersistentDesktopSend, Sound, Fit
<1> QED
  BY <1>2, <1>3, <1>5, <1>6

(* The four that may have to log in: their plans with and without a login  *)
(* are well made, and forget a success both or neither.                    *)
Agree(p, q) == Sound(p) /\ (CanForget(p) <=> CanForget(q))

(* Matrix: a post to each room.                                            *)
LEMMA MatrixIsSound ==
  ASSUME NEW u \in ServiceUrls, MatrixParseURL(u)
  PROVE  \A in \in BOOLEAN : Agree(MatrixSend(u, in), MatrixSend(u, FALSE))
<1>1. PICK n : n = RoomsOf(u)
  OBVIOUS
<1>2. n \in Nat /\ n > 0
  BY <1>1, PathIsNumber DEF MatrixParseURL, RoomsOf, Plus
<1>3. PICK rs : rs = [i \in 1..n |-> Noting(Flagged(Post({i})))]
  OBVIOUS
<1>4. rs \in Seq(AllRequests) /\ Plain(SomeOf(rs))
  BY <1>2, <1>3, ManyArePlain
<1>5. PICK l : l = Trusting(Login(Flagged(Call))) /\ l \in Logins
  BY LoginIsLogin
<1>6. \A in \in BOOLEAN :
        MatrixSend(u, in) = SomeOf(When(~TokenGiven(u) /\ ~in, <<l>>) \o rs)
  BY <1>1, <1>3, <1>5 DEF MatrixSend, MatrixLogin, MatrixSendToRoom
<1>7. \A c \in BOOLEAN : /\ Sound(SomeOf(When(c, <<l>>) \o rs))
                         /\ CanForget(SomeOf(When(c, <<l>>) \o rs)) <=> CanForget(SomeOf(rs))
  BY <1>4, <1>5, MaybeLogin
<1>8. \A in \in BOOLEAN : (~TokenGiven(u) /\ ~in) \in BOOLEAN
  OBVIOUS
<1> QED
  BY <1>6, <1>7, <1>8 DEF Agree

(* Mattermost: a name and a post for each room, and no trust in the login. *)
LEMMA MattermostIsSound ==
  ASSUME NEW u \in ServiceUrls, MattermostParseURL(u)
  PROVE  \A in \in BOOLEAN : /\ Agree(MattermostSend(u, in), MattermostSend(u, FALSE))
                              /\ ~Trusts(MattermostSend(u, in))
<1>1. PICK n : n = RoomsOf(u)
  OBVIOUS
<1>2. n \in Nat \ {0}
  BY <1>1, PathIsNumber DEF MattermostParseURL, RoomsOf, Plus
<1>3. PICK rs : rs = [i \in 1..2 * n |-> IF i % 2 = 1 THEN MattermostGetChannelID
                                         ELSE MattermostSendToChannel(i \div 2)]
  OBVIOUS
<1>4. ASSUME NEW i \in 1..2 * n
      PROVE  IF i % 2 = 1 THEN rs[i] \in Quiet
             ELSE rs[i] \in Telling /\ rs[i].to = {i \div 2}
  <2>1. CASE i % 2 = 1
    BY <1>3, <2>1, QuietOnes
  <2>2. CASE i % 2 # 1
    <3>1. i \div 2 \in Nat \ {0} /\ rs[i] = Noting(Post({i \div 2}))
      BY <1>2, <1>3, <2>2 DEF MattermostSendToChannel
    <3>2. Post({i \div 2}) \in Telling /\ Post({i \div 2}).to = {i \div 2}
      BY <3>1, PostTells DEF Anyone
    <3> QED
      BY <2>2, <3>1, <3>2, StillTells
  <2> QED
    BY <2>1, <2>2
<1>5. rs \in Seq(AllRequests) /\ Len(rs) = 2 * n
  <2>1. rs \in [1..2 * n -> AllRequests]
    <3>1. \A i \in 1..2 * n : rs[i] \in AllRequests
      BY <1>4 DEF Quiet, Telling
    <3>2. DOMAIN rs = 1..2 * n /\ rs = [i \in 1..2 * n |-> rs[i]]
      BY <1>3
    <3> QED
      BY <3>1, <3>2
  <2> QED
    BY <1>2, <2>1, SeqDef
<1>6. Plain(SomeOf(rs))
  BY <1>2, <1>4, <1>5, OneEachAfterQuiet
<1>7. PICK l : l = Login(Call) /\ l \in Logins /\ "bare" \notin l.ok
  BY LoginIsLogin
<1>8. \A in \in BOOLEAN :
        MattermostSend(u, in) = SomeOf(When(~TokenGiven(u) /\ ~in, <<l>>) \o rs)
  BY <1>1, <1>3, <1>7 DEF MattermostSend, MattermostAuthenticate
<1>9. \A c \in BOOLEAN : /\ Sound(SomeOf(When(c, <<l>>) \o rs))
                         /\ CanForget(SomeOf(When(c, <<l>>) \o rs)) <=> CanForget(SomeOf(rs))
                         /\ ~Trusts(SomeOf(When(c, <<l>>) \o rs))
  <2> SUFFICES ASSUME NEW c \in BOOLEAN
               PROVE  /\ Sound(SomeOf(When(c, <<l>>) \o rs))
                      /\ CanForget(SomeOf(When(c, <<l>>) \o rs)) <=> CanForget(SomeOf(rs))
                      /\ ~Trusts(SomeOf(When(c, <<l>>) \o rs))
    OBVIOUS
  <2>1. /\ Sound(SomeOf(When(c, <<l>>) \o rs))
        /\ CanForget(SomeOf(When(c, <<l>>) \o rs)) <=> CanForget(SomeOf(rs))
        /\ \A r \in RequestsOf(SomeOf(When(c, <<l>>) \o rs)) : r.login => r = l
    BY <1>5, <1>6, <1>7, MaybeLogin
  <2> QED
    BY <1>7, <2>1 DEF Trusts
<1>10. \A in \in BOOLEAN : (~TokenGiven(u) /\ ~in) \in BOOLEAN
  OBVIOUS
<1> QED
  BY <1>8, <1>9, <1>10 DEF Agree

(* A login, or none, and one post.                                         *)
LEMMA OneAfterLogin ==
  ASSUME NEW r \in Telling, NEW l \in Logins, NEW c \in BOOLEAN
  PROVE  /\ Sound(Plan(When(c, <<l>>) \o <<r>>))
         /\ CanForget(Plan(When(c, <<l>>) \o <<r>>)) <=> CanForget(Plan(<<r>>))
<1>1. <<r>> \in Seq(AllRequests) /\ Plain(Plan(<<r>>))
  BY OneRequestIsPlain DEF Telling
<1> QED
  BY <1>1, MaybeLogin

(* Rocket.Chat: the webhook, or the API.                                   *)
LEMMA RocketChatIsSound ==
  ASSUME NEW u \in ServiceUrls
  PROVE  \A in \in BOOLEAN : Agree(RocketChatSend(u, in), RocketChatSend(u, FALSE))
<1>1. CASE u.hook
  BY <1>1, PostOne DEF RocketChatSend, RocketChatSendViaWebhook, Agree, Plain
<1>2. CASE ~u.hook
  <2>1. PICK l : l = Trusting(Login(Flagged(Only200(Call)))) /\ l \in Logins
    BY LoginIsLogin
  <2>2. PICK r : r = Flagged(Post({1})) /\ r \in Telling
    BY PostOne
  <2>3. \A in \in BOOLEAN :
          RocketChatSend(u, in) = Plan(When(~RocketChatAuthToken(u) /\ ~in, <<l>>) \o <<r>>)
    BY <1>2, <2>1, <2>2 DEF RocketChatSend, RocketChatSendViaAPI, RocketChatLogin
  <2>4. \A c \in BOOLEAN : /\ Sound(Plan(When(c, <<l>>) \o <<r>>))
                           /\ CanForget(Plan(When(c, <<l>>) \o <<r>>)) <=> CanForget(Plan(<<r>>))
    BY <2>1, <2>2, OneAfterLogin
  <2>5. \A in \in BOOLEAN : (~RocketChatAuthToken(u) /\ ~in) \in BOOLEAN
    OBVIOUS
  <2> QED
    BY <2>3, <2>4, <2>5 DEF Agree
<1> QED
  BY <1>1, <1>2

(* Reddit logs in at each Send.                                            *)
LEMMA RedditIsSound == ASSUME NEW u \in ServiceUrls PROVE Sound(RedditSend(u))
<1>1. PICK l : l = RedditAuthenticate /\ l \in Logins
  BY LoginIsLogin DEF RedditAuthenticate
<1>2. Sound(Plan(When(TRUE, <<l>>) \o <<Post({1})>>))
  BY <1>1, PostOne, OneAfterLogin
<1>3. When(TRUE, <<l>>) = <<l>>
  BY DEF When
<1> QED
  BY <1>1, <1>2, <1>3, TwoRequests DEF RedditSend

-----------------------------------------------------------------------------
(* The registry.  These keep the token of a login for later Sends, and     *)
(* these make no request.                                                  *)
KeepsLogin == {"matrix", "mattermost", "mmosts", "rocketchat", "rocket"}
Feigning == {"rich-mobile-push", "batch-mobile-push"}

(* The services without a token to keep, group by group.                   *)
LEMMA AcceptedIsSound ==
  ASSUME NEW u \in ServiceUrls, ParseURL(u), u.scheme \notin KeepsLogin \cup Feigning,
         NEW in \in BOOLEAN
  PROVE  Sound(Send(u, in))
<1>1. CASE u.scheme \in {"discord", "slack", "telegram", "tgram", "msteams"}
  BY <1>1, ChatIsPlain DEF ParseURL, Send, DBus, Plain
<1>2. CASE u.scheme \in {"mailto", "mailtos", "reddit"}
  BY <1>2, EmailIsPlain, RedditIsSound DEF ParseURL, Send, DBus, Plain
<1>3. CASE u.scheme \in {"sendgrid", "mailgun", "webhook", "webhooks", "json", "ifttt", "zapier",
                         "nodered", "homeassistant", "hass", "facebook", "instagram", "youtube",
                         "tiktok", "mastodon", "twitter", "linkedin"}
  BY <1>3, WebIsPlain DEF ParseURL, Send, DBus, Plain
<1>4. CASE u.scheme \in {"pushover", "pover", "pushbullet", "pball", "ntfy", "ntfys", "gotify",
                         "gotifys", "fcm", "apns"}
  BY <1>4, PushIsPlain DEF ParseURL, Send, DBus, Plain
<1>5. CASE u.scheme \in {"twilio", "nexmo", "vonage", "plivo", "bulksms", "clicksend",
                         "messagebird", "textmagic", "aws-sns-sms", "signal", "whatsapp"}
  BY <1>5, SmsIsPlain DEF ParseURL, Send, DBus, Plain
<1>6. CASE u.scheme \in {"twilio-voice", "polly", "aws-iot", "gcp-iot", "sns", "ses", "azuresb",
                         "pubsub"}
  BY <1>6, CloudIsPlain DEF ParseURL, Send, DBus, Plain
<1>7. CASE u.scheme \in {"pagerduty", "opsgenie", "datadog", "newrelic", "github", "gitlab", "jira"}
  BY <1>7, OpsIsPlain DEF ParseURL, Send, DBus, Plain
<1> QED
  BY <1>1, <1>2, <1>3, <1>4, <1>5, <1>6, <1>7, DesktopIsPlain DEF Send, DBus, Plain, KeepsLogin,
     Feigning

(* A plan that no login changes agrees with itself.                        *)
LEMMA SchemeIsSound ==
  ASSUME NEW u \in ServiceUrls, ParseURL(u), u.scheme \notin Feigning
  PROVE  \A in \in BOOLEAN : Agree(Send(u, in), Send(u, FALSE))
<1>1. CASE u.scheme \notin KeepsLogin
  <2>1. \A in : Send(u, in) = Send(u, FALSE)
    BY <1>1 DEF Send, DBus, KeepsLogin
  <2> QED
    BY <1>1, <2>1, AcceptedIsSound DEF Agree
<1>2. CASE u.scheme = "matrix"
  BY <1>2, MatrixIsSound DEF ParseURL, Send, DBus
<1>3. CASE u.scheme \in {"mattermost", "mmosts"}
  BY <1>3, MattermostIsSound DEF ParseURL, Send, DBus
<1>4. CASE u.scheme \in {"rocketchat", "rocket"}
  BY <1>4, RocketChatIsSound DEF ParseURL, Send, DBus
<1> QED
  BY <1>1, <1>2, <1>3, <1>4 DEF KeepsLogin

(* Of all schemes that holds but for the honesty of the plan.              *)
LEMMA SchemeIsFit ==
  ASSUME NEW u \in ServiceUrls, ParseURL(u), NEW in \in BOOLEAN
  PROVE  Fit(Send(u, in)) /\ (CanForget(Send(u, in)) <=> CanForget(Send(u, FALSE)))
<1>1. CASE u.scheme \notin Feigning
  BY <1>1, SchemeIsSound DEF Agree, Sound
<1>2. CASE u.scheme \in Feigning
  <2>1. Send(u, in) = RichMobilePushSend(u) /\ Send(u, FALSE) = RichMobilePushSend(u)
    BY <1>2 DEF Send, Feigning, DBus
  <2> QED
    BY <2>1, RichIsFit
<1> QED
  BY <1>1, <1>2

-----------------------------------------------------------------------------
(* The URLs and the two constant operators of SendLoop are the registry's; *)
(* senders_safety checks an instance.                                      *)
TheTable ==
  /\ Urls \subseteq ServiceUrls
  /\ \A u \in Urls : /\ Accepts(u) => ParseURL(u)
                     /\ \A in \in BOOLEAN : PlanOf(u, in) = Send(u, in)

(* Every URL that a ParseURL of the registry accepts has well made plans,  *)
(* whatever the number of its recipients.                                  *)
THEOREM TableIsSound == TheTable => SoundTable
<1> SUFFICES ASSUME TheTable, NEW u \in Urls, Accepts(u)
             PROVE  WellMadePair([in \in BOOLEAN |-> PlanOf(u, in)])
  BY DEF SoundTable
<1>1. u \in ServiceUrls /\ ParseURL(u) /\ \A in \in BOOLEAN : PlanOf(u, in) = Send(u, in)
  BY DEF TheTable
<1>2. \A in \in BOOLEAN : /\ Fit(PlanOf(u, in))
                          /\ CanForget(PlanOf(u, in)) <=> CanForget(PlanOf(u, FALSE))
  BY <1>1, SchemeIsFit
<1>3. \A in \in BOOLEAN : WellMade(PlanOf(u, in))
  BY <1>2 DEF Fit
<1>4. CanForget(PlanOf(u, TRUE)) <=> CanForget(PlanOf(u, FALSE))
  BY <1>2
<1> QED
  BY <1>3, <1>4 DEF WellMadePair, CanForget

(* With no bound on the recipients every plan of the registry is typed, as *)
(* SendLoop assumes of its table (PlansAreTyped).                          *)
THEOREM TableIsTyped ==
  TheTable /\ Recipients = Anyone =>
    \A u \in Urls : Accepts(u) => \A in \in BOOLEAN : PlanOf(u, in) \in Plans
<1> SUFFICES ASSUME TheTable, Recipients = Anyone, NEW u \in Urls, Accepts(u), NEW in \in BOOLEAN
             PROVE  PlanOf(u, in) \in Plans
  OBVIOUS
<1>1. Fit(PlanOf(u, in))
  BY SchemeIsFit DEF TheTable
<1>2. PlanOf(u, in) \in AllPlans
  BY <1>1 DEF Fit
<1> QED
  BY <1>2 DEF AllPlans, Plans, AllRequests, Requests

(* A Service that apprise.go's registry makes of a URL has well made plans.*)
THEOREM ServicesAreWellMade == TheTable => (Spec => []PlansAreWellMade)
BY TableIsSound, PlansCorrect

(* Only the plans of rich and batch mobile push are not honest.            *)
LEMMA TableIsHonest ==
  ASSUME TheTable, \A u \in Urls : u.scheme \notin Feigning
  PROVE  \A p : OfTable(p) => Honest(p)
<1>1. Honest(Hopeless)
  BY HopelessIsPlain DEF Plain, Sound
<1>2. ASSUME NEW u \in Urls, NEW in \in BOOLEAN, Accepts(u) PROVE Honest(PlanOf(u, in))
  <2>1. u \in ServiceUrls /\ ParseURL(u) /\ u.scheme \notin Feigning /\ PlanOf(u, in) = Send(u, in)
    BY <1>2 DEF TheTable
  <2> QED
    BY <2>1, SchemeIsSound DEF Agree, Sound
<1> QED
  BY <1>1, <1>2 DEF OfTable

(* A nil from any service but those two means that somebody has the        *)
(* message, and all of its recipients unless its Send says that some are   *)
(* enough.                                                                 *)
THEOREM ServicesReachThem ==
  TheTable /\ (\A u \in Urls : u.scheme \notin Feigning) => (Spec => []NilReaches)
BY TableIsSound, TableIsHonest, NilReachesThem

(* With those two, of whose nil it says nothing: what the run checks.      *)
THEOREM ServicesTellTheTruth == TheTable => (Spec => []NilMeansServed)
BY TableIsSound, NilCorrect

(* A second copy of a notification has one of the two causes, for all.     *)
THEOREM ServicesRepeatWithCause == TheTable => (Spec => []SecondCopyHasCause)
BY TableIsSound, SecondCopyCorrect

(* No service posts before its login went well, nor without a token that   *)
(* it looks for.                                                           *)
THEOREM ServicesLogInFirst == TheTable => (Spec => []NoPostWithoutLogin)
BY TableIsSound, LoginCorrect

(* Mattermost, which looks for it, never posts without the token.          *)
THEOREM MattermostHoldsToken ==
  TheTable /\ (\A u \in Urls : u.scheme \in {"mattermost", "mmosts"}) =>
    (Spec => []PostHoldsToken)
<1> SUFFICES ASSUME TheTable, \A u \in Urls : u.scheme \in {"mattermost", "mmosts"}
             PROVE  Spec => []PostHoldsToken
  OBVIOUS
<1>1. ~Trusts(Hopeless)
  BY HopelessIsPlain DEF Plain, LogsIn, Trusts, RequestsOf
<1>2. ASSUME NEW u \in Urls, NEW in \in BOOLEAN, Accepts(u) PROVE ~Trusts(PlanOf(u, in))
  <2>1. /\ u \in ServiceUrls /\ ParseURL(u) /\ u.scheme \in {"mattermost", "mmosts"}
        /\ PlanOf(u, in) = Send(u, in)
    BY <1>2 DEF TheTable
  <2>2. MattermostParseURL(u) /\ Send(u, in) = MattermostSend(u, in)
    BY <2>1 DEF ParseURL, Send, DBus
  <2> QED
    BY <2>1, <2>2, MattermostIsSound
<1>3. \A p : OfTable(p) => ~Trusts(p)
  BY <1>1, <1>2 DEF OfTable
<1> QED
  BY <1>3, TableIsSound, PostsHoldToken
=============================================================================
