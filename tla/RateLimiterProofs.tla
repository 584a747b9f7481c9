------------------------- MODULE RateLimiterProofs -------------------------
(***************************************************************************)
(* What holds of RateLimiter for every limit, window, number of clients    *)
(* and requests: its types, the budget of a client, who is turned away,    *)
(* and that no entry is deleted in its window unless a request was still   *)
(* on it.                                                                  *)
(***************************************************************************)
EXTENDS RateLimiter, FiniteSetTheorems, TLAPS

USE DEF entries, cleanup, stops, history

(* What is assumed of the numbers.                                         *)
LEMMA Constants ==
  /\ RequestsPerMin \in Nat \ {0} /\ WindowSize \in Nat \ {0}
  /\ MaxTime \in Nat /\ MaxEntries \in Nat /\ MaxStops \in Nat
BY RateLimiterAssumption

(* A request is admitted or turned away in the types of the variables.     *)
LEMMA CheckKeepsType ==
  ASSUME TypeOK, NEW r \in Requests, Check(r)
  PROVE  TypeOK'
<1> DEFINE e == held[r]
<1>1. e \in Entries /\ CountNow(e) \in 0..RequestsPerMin
  <2>1. e \in Entries
    BY Constants DEF Check, TypeOK, NoEntry, Entries
  <2>2. count[e] \in 0..RequestsPerMin /\ 0 \in 0..RequestsPerMin
    BY <2>1, Constants DEF TypeOK
  <2> QED
    BY <2>1, <2>2 DEF CountNow
<1>2. held' \in [Requests -> 0..MaxEntries]
  <2>1. NoEntry \in 0..MaxEntries
    BY Constants DEF NoEntry
  <2> QED
    BY <2>1 DEF Check, TypeOK
<1>3. windowStart' \in [Entries -> Times]
  BY <1>1 DEF Check, TypeOK
<1>4. UNCHANGED <<now, clients, made, owner, cleanup, ticker, stops>>
  BY DEF Check
<1>5. CASE LimitExceeded(CountNow(e))
  <2>1. /\ count' = [count EXCEPT ![e] = CountNow(e)]
        /\ UNCHANGED <<lastRequest, history>>
    BY <1>5 DEF Check
  <2>2. count' \in [Entries -> 0..RequestsPerMin]
    BY <1>1, <2>1 DEF TypeOK
  <2> QED
    BY <1>2, <1>3, <1>4, <2>1, <2>2 DEF TypeOK
<1>6. CASE ~LimitExceeded(CountNow(e))
  <2>1. CountNow(e) + 1 \in 0..RequestsPerMin
    BY <1>1, <1>6, Constants DEF LimitExceeded
  <2>2. count' \in [Entries -> 0..RequestsPerMin]
    BY <1>1, <1>6, <2>1 DEF Check, TypeOK
  <2>3. lastRequest' \in [Entries -> Times]
    BY <1>1, <1>6 DEF Check, TypeOK, Touched
  <2>4. /\ owner[e] \in Clients /\ now \in Times
        /\ Append(admitted[owner[e]], now) \in Seq(Times)
        /\ Append(onTime[owner[e]], now) \in Seq(Times) /\ late[e] + 1 \in Nat
    BY <1>1 DEF TypeOK
  <2>5. /\ admitted' \in [Clients -> Seq(Times)] /\ onTime' \in [Clients -> Seq(Times)]
        /\ late' \in [Entries -> Nat]
    BY <1>1, <1>6, <2>4 DEF Check, TypeOK
  <2> QED
    BY <1>2, <1>3, <1>4, <2>2, <2>3, <2>5 DEF TypeOK
<1> QED
  BY <1>5, <1>6

(* An entry is made in the types of the variables.                         *)
LEMMA LookupKeepsType ==
  ASSUME TypeOK, NEW r \in Requests, NEW c \in Clients, Lookup(r, c)
  PROVE  TypeOK'
<1>1. UNCHANGED <<now, cleanup, ticker, stops, history>>
  BY DEF Lookup
<1>2. CASE clients[c] # NoEntry
  <2>1. held' = [held EXCEPT ![r] = clients[c]] /\ UNCHANGED <<clients, entries>>
    BY <1>2 DEF Lookup
  <2>2. held' \in [Requests -> 0..MaxEntries]
    BY <2>1 DEF TypeOK
  <2> QED
    BY <1>1, <2>1, <2>2 DEF TypeOK
<1>3. CASE clients[c] = NoEntry
  <2>1. /\ made < MaxEntries /\ made' = made + 1
        /\ clients' = [clients EXCEPT ![c] = made'] /\ held' = [held EXCEPT ![r] = made']
        /\ owner' = [owner EXCEPT ![made'] = c]
        /\ windowStart' = [windowStart EXCEPT ![made'] = now]
        /\ lastRequest' = [lastRequest EXCEPT ![made'] = now] /\ UNCHANGED count
    BY <1>3 DEF Lookup
  <2>2. made' \in Entries /\ made' \in 0..MaxEntries
    BY <2>1, Constants DEF TypeOK, Entries
  <2>3. clients' \in [Clients -> 0..MaxEntries] /\ held' \in [Requests -> 0..MaxEntries]
    BY <2>1, <2>2 DEF TypeOK
  <2>4. owner' \in [Entries -> Clients]
    BY <2>1, <2>2 DEF TypeOK
  <2>5. windowStart' \in [Entries -> Times] /\ lastRequest' \in [Entries -> Times]
    BY <2>1, <2>2 DEF TypeOK
  <2> QED
    BY <1>1, <2>1, <2>2, <2>3, <2>4, <2>5 DEF TypeOK
<1> QED
  BY <1>2, <1>3

(* Every step keeps the types.                                             *)
LEMMA NextKeepsType ==
  ASSUME TypeOK, [Next]_vars
  PROVE  TypeOK'
<1>1. ASSUME NEW r \in Requests, NEW c \in Clients, Lookup(r, c) PROVE TypeOK'
  BY <1>1, LookupKeepsType
<1>2. ASSUME NEW r \in Requests, Check(r) PROVE TypeOK'
  BY <1>2, CheckKeepsType
<1>3. CASE TickerFires
  BY <1>3 DEF TickerFires, TypeOK
<1>4. CASE CleanupTick
  <2>1. now \in Int /\ WindowSize \in Int
    BY Constants DEF TypeOK, Times
  <2>2. cutoff' \in Int
    BY <1>4, <2>1 DEF CleanupTick
  <2>3. todo' \subseteq Clients
    BY <1>4 DEF CleanupTick
  <2> QED
    BY <1>4, <2>2, <2>3 DEF CleanupTick, TypeOK
<1>5. ASSUME NEW c \in Clients, Examine(c) PROVE TypeOK'
  BY <1>5 DEF Examine, TypeOK
<1>6. ASSUME NEW c \in Clients, Delete(c) PROVE TypeOK'
  <2>1. clients' \in [Clients -> 0..MaxEntries]
    BY <1>6, Constants DEF Delete, TypeOK, NoEntry
  <2> QED
    BY <1>6, <2>1 DEF Delete, TypeOK
<1>7. CASE CleanupDone
  BY <1>7 DEF CleanupDone, NextRound, TypeOK
<1>8. CASE Stop
  <2>1. stopping' \in 0..MaxStops /\ stopped' \in 0..MaxStops - stopping'
    BY <1>8, Constants DEF Stop, TypeOK
  <2> QED
    BY <1>8, <2>1 DEF Stop, TypeOK
<1>9. CASE StopReceived
  <2>1. stopping' \in 0..MaxStops /\ stopped' \in 0..MaxStops - stopping'
    BY <1>9, Constants DEF StopReceived, TypeOK
  <2> QED
    BY <1>9, <2>1 DEF StopReceived, TypeOK
<1>10. CASE ClockTicks
  <2>1. now' \in Times
    BY <1>10, Constants DEF ClockTicks, TypeOK, Times
  <2> QED
    BY <1>10, <2>1 DEF ClockTicks, TypeOK
<1>11. CASE UNCHANGED vars
  BY <1>11 DEF vars, TypeOK
<1> QED
  BY <1>1, <1>2, <1>3, <1>4, <1>5, <1>6, <1>7, <1>8, <1>9, <1>10, <1>11 DEF Next, Cleanup

(* They hold when the limiter is made.                                     *)
LEMMA InitIsTyped == Init => TypeOK
<1> SUFFICES ASSUME Init PROVE TypeOK
  OBVIOUS
<1>1. owner \in [Entries -> Clients]
  <2>1. (CHOOSE c \in Clients : TRUE) \in Clients
    BY RateLimiterAssumption
  <2> QED
    BY <2>1 DEF Init
<1>2. 0 \in Times /\ 0 \in 0..RequestsPerMin /\ 0 \in 0..MaxEntries /\ 0 \in 0..MaxStops
  BY Constants DEF Times
<1>3. count \in [Entries -> 0..RequestsPerMin] /\ now \in Times
  BY <1>2 DEF Init
<1>4. windowStart \in [Entries -> Times] /\ lastRequest \in [Entries -> Times]
  BY <1>2 DEF Init
<1>5. /\ admitted \in [Clients -> Seq(Times)] /\ onTime \in [Clients -> Seq(Times)]
      /\ late \in [Entries -> Nat]
  BY DEF Init
<1>6. clients \in [Clients -> 0..MaxEntries] /\ held \in [Requests -> 0..MaxEntries]
  BY <1>2 DEF Init, NoEntry
<1>7. cutoff \in Int /\ todo \subseteq Clients /\ doomed \subseteq Clients
  BY DEF Init
<1>8. cleaner \in {"select", "cleaning", "gone"} /\ ticker \in {"on", "due", "off"}
  BY DEF Init
<1>9. made \in 0..MaxEntries /\ stopping \in 0..MaxStops /\ stopped \in 0..MaxStops - stopping
  BY Constants DEF Init
<1> QED
  BY <1>1, <1>3, <1>4, <1>5, <1>6, <1>7, <1>8, <1>9 DEF TypeOK

(* The types hold, and with them that no entry counts more than the limit. *)
THEOREM TypeCorrect == Spec => []TypeOK
BY InitIsTyped, NextKeepsType, PTL DEF Spec

-----------------------------------------------------------------------------
(* How many of some requests fall in a set of times.                       *)
Many(ts, S) == Cardinality({i \in DOMAIN ts : ts[i] \in S})
NoneAfter(ts, t) == \A i \in DOMAIN ts : ts[i] <= t

(* They are finitely many.                                                 *)
LEMMA ManyType ==
  ASSUME NEW ts \in Seq(Times), NEW S
  PROVE  IsFiniteSet({i \in DOMAIN ts : ts[i] \in S}) /\ Many(ts, S) \in Nat
<1>1. IsFiniteSet(DOMAIN ts)
  BY FS_Interval
<1>2. {i \in DOMAIN ts : ts[i] \in S} \in SUBSET DOMAIN ts
  OBVIOUS
<1>3. IsFiniteSet({i \in DOMAIN ts : ts[i] \in S})
  BY <1>1, <1>2, FS_Subset
<1> QED
  BY <1>3, FS_CardinalityType DEF Many

(* One more request counts where it falls.                                 *)
LEMMA ManyAppend ==
  ASSUME NEW ts \in Seq(Times), NEW t \in Times, NEW S
  PROVE  Many(Append(ts, t), S) = IF t \in S THEN Many(ts, S) + 1 ELSE Many(ts, S)
<1> DEFINE old == {i \in DOMAIN ts : ts[i] \in S}
           n == Len(ts) + 1
           longer == Append(ts, t)
           new == {i \in DOMAIN longer : longer[i] \in S}
<1>1. /\ n \in Nat /\ n \notin DOMAIN ts /\ DOMAIN longer = DOMAIN ts \cup {n}
      /\ longer[n] = t /\ \A i \in DOMAIN ts : longer[i] = ts[i]
  OBVIOUS
<1>2. new = IF t \in S THEN old \cup {n} ELSE old
  BY <1>1
<1>3. IsFiniteSet(old) /\ n \notin old
  BY <1>1, ManyType
<1>4. Cardinality(old \cup {n}) = Cardinality(old) + 1
  BY <1>3, FS_AddElement
<1>5. Cardinality(new) = IF t \in S THEN Cardinality(old) + 1 ELSE Cardinality(old)
  BY <1>2, <1>4
<1> QED
  BY <1>5 DEF Many

(* What falls in one set or another falls in the one or in the other.      *)
LEMMA ManyOfTwo ==
  ASSUME NEW ts \in Seq(Times), NEW S, NEW T, NEW U,
         \A i \in DOMAIN ts : ts[i] \in S => ts[i] \in T \/ ts[i] \in U
  PROVE  Many(ts, S) <= Many(ts, T) + Many(ts, U)
<1> DEFINE of(X) == {i \in DOMAIN ts : ts[i] \in X}
<1>1. IsFiniteSet(of(T)) /\ IsFiniteSet(of(U)) /\ of(S) \in SUBSET (of(T) \cup of(U))
  BY ManyType
<1>2. of(T) \cap of(U) \in SUBSET of(T)
  OBVIOUS
<1>3. /\ IsFiniteSet(of(T) \cup of(U)) /\ IsFiniteSet(of(T) \cap of(U))
      /\ Cardinality(of(T) \cup of(U))
           = Cardinality(of(T)) + Cardinality(of(U)) - Cardinality(of(T) \cap of(U))
  BY <1>1, <1>2, FS_Union, FS_Subset
<1>4. Cardinality(of(S)) <= Cardinality(of(T) \cup of(U)) /\ IsFiniteSet(of(S))
  BY <1>1, <1>3, FS_Subset
<1>5. /\ Cardinality(of(S)) \in Nat /\ Cardinality(of(T)) \in Nat /\ Cardinality(of(U)) \in Nat
      /\ Cardinality(of(T) \cap of(U)) \in Nat
  BY <1>1, <1>3, <1>4, FS_CardinalityType
<1>6. Cardinality(of(S)) <= Cardinality(of(T)) + Cardinality(of(U))
  BY <1>3, <1>4, <1>5
<1> QED
  BY <1>6 DEF Many

(* What falls in one set and so in another.                                *)
LEMMA ManyWithin ==
  ASSUME NEW ts \in Seq(Times), NEW S, NEW T, \A i \in DOMAIN ts : ts[i] \in S => ts[i] \in T
  PROVE  Many(ts, S) <= Many(ts, T)
<1>1. {i \in DOMAIN ts : ts[i] \in S} \in SUBSET {i \in DOMAIN ts : ts[i] \in T}
  OBVIOUS
<1>2. IsFiniteSet({i \in DOMAIN ts : ts[i] \in T})
  BY ManyType
<1> QED
  BY <1>1, <1>2, FS_Subset DEF Many

(* None of the requests falls in a set none of them is in.                 *)
LEMMA ManyNone ==
  ASSUME NEW ts \in Seq(Times), NEW S, \A i \in DOMAIN ts : ts[i] \notin S
  PROVE  Many(ts, S) = 0
<1>1. {i \in DOMAIN ts : ts[i] \in S} = {}
  OBVIOUS
<1> QED
  BY <1>1, FS_EmptySet DEF Many

(* The last request is the latest.                                         *)
LEMMA NoneAfterAppend ==
  ASSUME NEW ts \in Seq(Times), NEW t \in Times, NoneAfter(ts, t)
  PROVE  NoneAfter(Append(ts, t), t)
<1>1. ASSUME NEW i \in DOMAIN Append(ts, t)
      PROVE  Append(ts, t)[i] = t \/ (i \in DOMAIN ts /\ Append(ts, t)[i] = ts[i])
  <2>1. i \in 1..Len(ts) + 1 /\ Len(ts) \in Nat
    OBVIOUS
  <2> QED
    BY <2>1
<1>2. t <= t
  BY Constants DEF Times
<1> QED
  BY <1>1, <1>2 DEF NoneAfter

-----------------------------------------------------------------------------
(* The inductive invariant.  What an entry has counted was admitted since  *)
(* its window began; while it is in the map, its client has had no more    *)
(* than that on time since then, and no more than the limit in the window  *)
(* before.  An entry about to be deleted was idle since the cutoff, so the *)
(* window of the one that comes after it starts with nothing behind it.    *)
(* Each request is late once on an entry: it let go of it.                 *)
Since(w) == {x \in Times : w <= x}
SpanBefore(w) == {x \in Times : w - WindowSize < x /\ x < w}
Holders(e) == {r \in Requests : held[r] = e}

EntryIsSound(e) ==
  /\ windowStart[e] <= lastRequest[e] /\ lastRequest[e] <= now
  /\ lastRequest[e] < windowStart[e] + WindowSize
  /\ e > made => count[e] = 0 /\ late[e] = 0
  /\ InMap(e) => late[e] = 0
  /\ late[e] + Cardinality(Holders(e)) <= Cardinality(Requests)
  /\ count[e] <= Many(admitted[owner[e]], Since(windowStart[e]))

ClientIsSound(c) ==
  /\ clients[c] <= made
  /\ clients[c] # NoEntry => owner[clients[c]] = c
  /\ NoneAfter(admitted[c], now)
  /\ \A t \in Times : In(onTime[c], t) <= 2 * RequestsPerMin
  /\ clients[c] = NoEntry => NoneAfter(onTime[c], now - WindowSize)
  /\ clients[c] # NoEntry /\ c \in doomed =>
       /\ NoneAfter(onTime[c], cutoff)
       /\ lastRequest[clients[c]] < cutoff \/ late[clients[c]] > 0
  /\ clients[c] # NoEntry /\ c \notin doomed =>
       /\ NoneAfter(onTime[c], lastRequest[clients[c]])
       /\ Many(onTime[c], Since(windowStart[clients[c]])) <= count[clients[c]]
       /\ Many(onTime[c], SpanBefore(windowStart[clients[c]])) <= RequestsPerMin

IInv ==
  /\ TypeOK
  /\ \A e \in Entries : EntryIsSound(e)
  /\ \A c \in Clients : ClientIsSound(c)
  /\ \A r \in Requests : held[r] <= made
  /\ cleaner = "cleaning" => cutoff <= now - 2 * WindowSize
  /\ doomed # {} => cleaner = "cleaning"
  /\ \A c, d \in doomed : c = d

(* The fields are numbers, and what is not NoEntry is an entry.            *)
LEMMA Numbers ==
  ASSUME TypeOK
  PROVE  /\ now \in Nat /\ now \in Times /\ made \in Nat /\ cutoff \in Int
         /\ \A e \in Entries :
              /\ windowStart[e] \in Nat /\ windowStart[e] \in Times
              /\ lastRequest[e] \in Nat /\ lastRequest[e] \in Times
              /\ count[e] \in 0..RequestsPerMin /\ count[e] \in Nat /\ late[e] \in Nat
              /\ owner[e] \in Clients /\ e \in Nat /\ e # NoEntry
         /\ \A c \in Clients :
              /\ clients[c] \in Nat /\ (clients[c] # NoEntry => clients[c] \in Entries)
              /\ onTime[c] \in Seq(Times) /\ admitted[c] \in Seq(Times)
         /\ \A r \in Requests : held[r] \in Nat /\ (held[r] # NoEntry => held[r] \in Entries)
<1>1. ASSUME NEW e \in Entries
      PROVE  /\ windowStart[e] \in Nat /\ windowStart[e] \in Times
             /\ lastRequest[e] \in Nat /\ lastRequest[e] \in Times
             /\ count[e] \in 0..RequestsPerMin /\ count[e] \in Nat /\ late[e] \in Nat
             /\ owner[e] \in Clients /\ e \in Nat /\ e # NoEntry
  <2>1. /\ windowStart[e] \in Times /\ lastRequest[e] \in Times /\ count[e] \in 0..RequestsPerMin
        /\ late[e] \in Nat /\ owner[e] \in Clients
    BY <1>1 DEF TypeOK
  <2> QED
    BY <1>1, <2>1, Constants DEF Times, Entries, NoEntry
<1>2. \A i \in 0..MaxEntries : i \in Nat /\ (i # NoEntry => i \in Entries)
  BY Constants DEF Entries, NoEntry
<1>3. now \in Nat /\ made \in Nat
  BY Constants DEF TypeOK, Times
<1> QED
  BY <1>1, <1>2, <1>3 DEF TypeOK

(* Requests are finitely many, so those on one entry are.                  *)
LEMMA HoldersType ==
  ASSUME NEW e
  PROVE  /\ IsFiniteSet(Holders(e)) /\ Cardinality(Holders(e)) \in Nat
         /\ Cardinality(Holders(e)) <= Cardinality(Requests) /\ Cardinality(Requests) \in Nat
<1>1. Holders(e) \in SUBSET Requests /\ IsFiniteSet(Requests)
  BY RateLimiterAssumption DEF Holders
<1> QED
  BY <1>1, FS_Subset, FS_CardinalityType

(* A request that lets an entry go is one less on it.                      *)
LEMMA LetGo ==
  ASSUME TypeOK, NEW r \in Requests, held[r] # NoEntry, held' = [held EXCEPT ![r] = NoEntry],
         NEW e \in Entries
  PROVE  Cardinality(Holders(e)') = IF e = held[r] THEN Cardinality(Holders(e)) - 1
                                                   ELSE Cardinality(Holders(e))
<1>1. e # NoEntry
  BY Numbers
<1>2. Holders(e)' = IF e = held[r] THEN Holders(e) \ {r} ELSE Holders(e)
  BY <1>1 DEF Holders, TypeOK
<1>3. IsFiniteSet(Holders(e)) /\ (e = held[r] => r \in Holders(e))
  BY HoldersType DEF Holders
<1>4. e = held[r] => Cardinality(Holders(e) \ {r}) = Cardinality(Holders(e)) - 1
  BY <1>3, FS_RemoveElement
<1> QED
  BY <1>2, <1>4

(* The invariant holds of an empty limiter.                                *)
LEMMA InitIsInv == Init => IInv
<1> SUFFICES ASSUME Init PROVE IInv
  OBVIOUS
<1>1. TypeOK
  BY InitIsTyped
<1>2. ASSUME NEW e \in Entries PROVE EntryIsSound(e)
  <2>1. /\ windowStart[e] = 0 /\ lastRequest[e] = 0 /\ count[e] = 0 /\ late[e] = 0 /\ now = 0
        /\ 0 < 0 + WindowSize
    BY Constants DEF Init
  <2>2. Cardinality(Holders(e)) \in Nat /\ Cardinality(Holders(e)) <= Cardinality(Requests)
    BY HoldersType
  <2>3. Many(admitted[owner[e]], Since(windowStart[e])) \in Nat
    BY <1>1, Numbers, ManyType
  <2> QED
    BY <2>1, <2>2, <2>3 DEF EntryIsSound
<1>3. ASSUME NEW c \in Clients PROVE ClientIsSound(c)
  <2>1. onTime[c] = <<>> /\ admitted[c] = <<>> /\ clients[c] = NoEntry /\ made = 0
    BY DEF Init
  <2>2. ASSUME NEW t \in Times PROVE In(onTime[c], t) = 0
    <3>1. onTime[c] \in Seq(Times) /\ \A i \in DOMAIN onTime[c] : onTime[c][i] \notin Window(t)
      BY <2>1
    <3> QED
      BY <3>1, ManyNone DEF In, Many
  <2> QED
    BY <2>1, <2>2, Constants DEF ClientIsSound, NoneAfter, NoEntry
<1> QED
  BY <1>1, <1>2, <1>3 DEF Init, IInv, NoEntry

-----------------------------------------------------------------------------
(* A request under the lock of its entry.                                  *)

(* What an admission on an entry in the map does to the spans of its       *)
(* client: a span that holds this request begins less than a window before *)
(* it, so in the window of the entry or in the one before.                 *)
LEMMA SpansKept ==
  ASSUME TypeOK, NEW ts \in Seq(Times), NEW w \in Times, NEW last \in Times,
         NEW n \in 0..RequestsPerMin, NEW w2 \in Times, NEW n2 \in 0..RequestsPerMin,
         w <= last, last <= now, last < w + WindowSize, NoneAfter(ts, last),
         Many(ts, Since(w)) <= n, Many(ts, SpanBefore(w)) <= RequestsPerMin,
         \/ now - w >= WindowSize /\ w2 = now /\ n2 = 1
         \/ now - w < WindowSize /\ w2 = w /\ n2 = n + 1
  PROVE  /\ Many(Append(ts, now), Since(w2)) <= n2
         /\ Many(Append(ts, now), SpanBefore(w2)) <= RequestsPerMin
         /\ \A t \in Times : t >= now => In(Append(ts, now), t) <= 2 * RequestsPerMin
<1> DEFINE new == Append(ts, now)
<1>1. /\ now \in Times /\ now \in Nat /\ w \in Nat /\ last \in Nat /\ w2 \in Nat
      /\ n \in Nat /\ n2 \in Nat /\ RequestsPerMin \in Nat /\ WindowSize \in Nat /\ WindowSize > 0
      /\ \A x \in Times : x \in Nat
  BY Constants, Numbers DEF Times
<1>2. now \in Since(w2) /\ now \notin SpanBefore(w2)
  BY <1>1 DEF Since, SpanBefore
<1>3. /\ Many(new, Since(w2)) = Many(ts, Since(w2)) + 1
      /\ Many(new, SpanBefore(w2)) = Many(ts, SpanBefore(w2))
  BY <1>1, <1>2, ManyAppend
<1>4. /\ Many(ts, Since(w2)) \in Nat /\ Many(ts, SpanBefore(w2)) \in Nat
      /\ Many(ts, Since(w)) \in Nat
  BY ManyType
<1>5. Many(new, Since(w2)) <= n2 /\ Many(new, SpanBefore(w2)) <= RequestsPerMin
  <2>1. CASE now - w >= WindowSize
    <3>1. w2 = now /\ n2 = 1
      BY <1>1, <2>1
    <3>2. ASSUME NEW i \in DOMAIN ts PROVE ts[i] \in Times /\ ts[i] \in Nat /\ ts[i] < now
      <4>1. ts[i] \in Times /\ ts[i] <= last
        BY DEF NoneAfter
      <4>2. ts[i] \in Nat
        BY <1>1, <4>1
      <4> QED
        BY <1>1, <2>1, <4>1, <4>2
    <3>3. \A i \in DOMAIN ts : ts[i] \notin Since(w2)
      BY <1>1, <3>1, <3>2 DEF Since
    <3>4. \A i \in DOMAIN ts : ts[i] \in SpanBefore(w2) => ts[i] \in Since(w)
      BY <1>1, <2>1, <3>1, <3>2 DEF Since, SpanBefore
    <3>5. Many(ts, Since(w2)) = 0 /\ Many(ts, SpanBefore(w2)) <= Many(ts, Since(w))
      BY <3>3, <3>4, ManyNone, ManyWithin
    <3> QED
      BY <1>1, <1>3, <1>4, <3>1, <3>5
  <2>2. CASE now - w < WindowSize
    BY <1>1, <1>3, <1>4, <2>2
  <2> QED
    BY <1>1, <2>1, <2>2
<1>6. ASSUME NEW t \in Times, t >= now PROVE In(new, t) <= 2 * RequestsPerMin
  <2>1. new \in Seq(Times)
    BY <1>1
  <2>2. \A x \in Window(t) : x \in SpanBefore(w2) \/ x \in Since(w2)
    BY <1>1, <1>6 DEF Window, Since, SpanBefore
  <2>3. Many(new, Window(t)) <= Many(new, SpanBefore(w2)) + Many(new, Since(w2))
    BY <2>1, <2>2, ManyOfTwo
  <2>4. /\ Many(new, Window(t)) \in Nat /\ Many(new, SpanBefore(w2)) \in Nat
        /\ Many(new, Since(w2)) \in Nat
    BY <2>1, ManyType
  <2>5. Many(new, Window(t)) <= 2 * RequestsPerMin
    BY <1>1, <1>5, <2>3, <2>4
  <2> QED
    BY <2>5 DEF In, Many
<1> QED
  BY <1>5, <1>6

(* A request that is turned away only lets go of the entry: the window is  *)
(* not over, as the limit is not zero.                                     *)
LEMMA DenialChangesNothing ==
  ASSUME TypeOK, NEW r \in Requests, Check(r), LimitExceeded(CountNow(held[r]))
  PROVE  /\ UNCHANGED <<now, clients, entries, cleanup, ticker, stops, history>>
         /\ ~WindowExpired(held[r]) /\ count[held[r]] >= RequestsPerMin
<1> DEFINE e == held[r]
<1>1. e \in Entries
  BY Numbers DEF Check
<1>2. ~WindowExpired(e)
  BY Constants DEF LimitExceeded, CountNow
<1>3. windowStart' = windowStart /\ count' = count
  BY <1>1, <1>2 DEF Check, CountNow, TypeOK
<1> QED
  BY <1>2, <1>3 DEF Check, LimitExceeded, CountNow

(* What an admission does.                                                 *)
LEMMA AdmissionEffect ==
  ASSUME TypeOK, NEW r \in Requests, NEW e \in Entries, NEW c \in Clients,
         e = held[r], c = owner[e], Check(r), ~LimitExceeded(CountNow(e))
  PROVE  /\ UNCHANGED <<now, clients, made, owner, cleaner, todo, cutoff, doomed>>
         /\ held' = [held EXCEPT ![r] = NoEntry]
         /\ \/ now - windowStart[e] >= WindowSize /\ windowStart'[e] = now /\ count'[e] = 1
            \/ /\ now - windowStart[e] < WindowSize
               /\ windowStart'[e] = windowStart[e] /\ count'[e] = count[e] + 1
         /\ lastRequest'[e] = now /\ admitted'[c] = Append(admitted[c], now)
         /\ \A f \in Entries : f # e =>
              /\ windowStart'[f] = windowStart[f] /\ count'[f] = count[f]
              /\ lastRequest'[f] = lastRequest[f] /\ late'[f] = late[f]
         /\ \A d \in Clients : d # c => admitted'[d] = admitted[d] /\ onTime'[d] = onTime[d]
         /\ InMap(e) => late' = late /\ onTime'[c] = Append(onTime[c], now)
         /\ ~InMap(e) => late'[e] = late[e] + 1 /\ onTime'[c] = onTime[c]
<1>1. now \in Nat /\ windowStart[e] \in Nat /\ WindowSize \in Nat
  BY Numbers, Constants
<1>2. /\ UNCHANGED <<now, clients, made, owner, cleaner, todo, cutoff, doomed>>
      /\ held' = [held EXCEPT ![r] = NoEntry]
  BY DEF Check
<1>3. /\ windowStart' = [windowStart EXCEPT ![e] = IF WindowExpired(e) THEN now ELSE @]
      /\ count' = [count EXCEPT ![e] = CountNow(e) + 1]
      /\ lastRequest' = [lastRequest EXCEPT ![e] = now]
      /\ admitted' = [admitted EXCEPT ![c] = Append(@, now)]
      /\ \/ InMap(e) /\ onTime' = [onTime EXCEPT ![c] = Append(@, now)] /\ late' = late
         \/ ~InMap(e) /\ late' = [late EXCEPT ![e] = @ + 1] /\ onTime' = onTime
  BY DEF Check, Touched
<1>4. \/ now - windowStart[e] >= WindowSize /\ windowStart'[e] = now /\ count'[e] = 1
      \/ /\ now - windowStart[e] < WindowSize
         /\ windowStart'[e] = windowStart[e] /\ count'[e] = count[e] + 1
  BY <1>1, <1>3 DEF WindowExpired, CountNow, TypeOK
<1>5. \A f \in Entries : f # e =>
        /\ windowStart'[f] = windowStart[f] /\ count'[f] = count[f]
        /\ lastRequest'[f] = lastRequest[f] /\ late'[f] = late[f]
  BY <1>1, <1>3 DEF TypeOK
<1>6. \A d \in Clients : d # c => admitted'[d] = admitted[d] /\ onTime'[d] = onTime[d]
  BY <1>1, <1>3 DEF TypeOK
<1>7. /\ lastRequest'[e] = now /\ admitted'[c] = Append(admitted[c], now)
      /\ InMap(e) => late' = late /\ onTime'[c] = Append(onTime[c], now)
      /\ ~InMap(e) => late'[e] = late[e] + 1 /\ onTime'[c] = onTime[c]
  BY <1>1, <1>3 DEF TypeOK
<1> QED
  BY <1>1, <1>2, <1>4, <1>5, <1>6, <1>7

(* It counts for its client in the spans that hold it.                    *)
LEMMA AdmissionIsCounted ==
  ASSUME TypeOK, NEW r \in Requests, NEW e \in Entries, NEW c \in Clients,
         e = held[r], c = owner[e], Check(r), ~LimitExceeded(CountNow(e)),
         NEW d \in Clients, NEW w \in Times
  PROVE  /\ Many(admitted[d], Since(w)) \in Nat
         /\ Many(admitted'[d], Since(w)) =
              IF d = c /\ w <= now THEN Many(admitted[d], Since(w)) + 1
                                   ELSE Many(admitted[d], Since(w))
<1>1. admitted[d] \in Seq(Times) /\ now \in Times
  BY Numbers
<1>2. now \in Since(w) <=> w <= now
  BY <1>1 DEF Since
<1>3. Many(Append(admitted[d], now), Since(w)) =
        IF now \in Since(w) THEN Many(admitted[d], Since(w)) + 1 ELSE Many(admitted[d], Since(w))
  BY <1>1, ManyAppend
<1>4. IF d = c THEN admitted'[d] = Append(admitted[d], now) ELSE admitted'[d] = admitted[d]
  BY AdmissionEffect
<1>5. Many(admitted[d], Since(w)) \in Nat
  BY <1>1, ManyType
<1> QED
  BY <1>2, <1>3, <1>4, <1>5

(* It leaves the entries sound...                                          *)
LEMMA AdmissionKeepsEntries ==
  ASSUME IInv, NEW r \in Requests, NEW e \in Entries, NEW c \in Clients,
         e = held[r], c = owner[e], Check(r), ~LimitExceeded(CountNow(e)), NEW f \in Entries
  PROVE  EntryIsSound(f)'
<1>1. TypeOK /\ EntryIsSound(f) /\ EntryIsSound(e) /\ e <= made
  BY DEF IInv
<1>2. /\ now \in Nat /\ now \in Times /\ made \in Nat /\ e \in Nat
      /\ WindowSize \in Nat /\ WindowSize > 0
      /\ windowStart[e] \in Nat /\ late[e] \in Nat /\ count[e] \in Nat /\ owner[f] \in Clients
      /\ count[f] \in Nat /\ late[f] \in Nat
  BY <1>1, Numbers, Constants
<1>3. UNCHANGED <<now, clients, made, owner, doomed>>
  BY <1>1, AdmissionEffect
<1>4. InMap(f)' <=> InMap(f)
  BY <1>3 DEF InMap
<1>5. /\ Cardinality(Holders(f)') = IF f = e THEN Cardinality(Holders(f)) - 1
                                             ELSE Cardinality(Holders(f))
      /\ Cardinality(Holders(f)) \in Nat /\ Cardinality(Requests) \in Nat
  BY <1>1, AdmissionEffect, LetGo, HoldersType DEF Check
<1>6. ASSUME NEW w \in Times
      PROVE  /\ Many(admitted[owner[f]], Since(w)) \in Nat
             /\ Many(admitted'[owner[f]], Since(w)) =
                  IF owner[f] = c /\ w <= now THEN Many(admitted[owner[f]], Since(w)) + 1
                                              ELSE Many(admitted[owner[f]], Since(w))
  <2>1. ASSUME NEW d \in Clients
        PROVE  /\ Many(admitted[d], Since(w)) \in Nat
               /\ Many(admitted'[d], Since(w)) =
                    IF d = c /\ w <= now THEN Many(admitted[d], Since(w)) + 1
                                         ELSE Many(admitted[d], Since(w))
    BY <1>1, AdmissionIsCounted
  <2> QED
    BY <1>2, <2>1
<1>7. CASE f = e
  <2>1. /\ \/ now - windowStart[e] >= WindowSize /\ windowStart'[e] = now /\ count'[e] = 1
           \/ /\ now - windowStart[e] < WindowSize
              /\ windowStart'[e] = windowStart[e] /\ count'[e] = count[e] + 1
        /\ lastRequest'[e] = now
        /\ InMap(e) => late' = late
        /\ ~InMap(e) => late'[e] = late[e] + 1
    BY <1>1, AdmissionEffect
  <2>2. windowStart'[e] \in Times /\ windowStart'[e] <= now /\ now < windowStart'[e] + WindowSize
    <3>1. windowStart[e] \in Times /\ lastRequest[e] \in Nat
      BY <1>1, Numbers
    <3> QED
      BY <1>1, <1>2, <2>1, <3>1 DEF EntryIsSound
  <2>3. count'[e] <= Many(admitted'[c], Since(windowStart'[e]))
    BY <1>1, <1>2, <1>6, <1>7, <2>1, <2>2 DEF EntryIsSound
  <2>4. late'[e] + Cardinality(Holders(e)') <= Cardinality(Requests)
    BY <1>1, <1>2, <1>5, <1>7, <2>1 DEF EntryIsSound
  <2>5. InMap(e) => late'[e] = 0
    BY <1>1, <2>1 DEF EntryIsSound
  <2> QED
    BY <1>1, <1>2, <1>3, <1>4, <1>7, <2>1, <2>2, <2>3, <2>4, <2>5 DEF EntryIsSound
<1>8. CASE f # e
  <2>1. /\ windowStart'[f] = windowStart[f] /\ count'[f] = count[f]
        /\ lastRequest'[f] = lastRequest[f] /\ late'[f] = late[f]
    BY <1>1, <1>8, AdmissionEffect
  <2>2. windowStart[f] \in Times
    BY <1>1, Numbers
  <2>3. count[f] <= Many(admitted'[owner[f]], Since(windowStart[f]))
    <3> DEFINE before == Many(admitted[owner[f]], Since(windowStart[f]))
               after == Many(admitted'[owner[f]], Since(windowStart[f]))
    <3>1. before \in Nat /\ (after = before + 1 \/ after = before) /\ count[f] <= before
      BY <1>1, <1>6, <2>2 DEF EntryIsSound
    <3> QED
      BY <1>2, <3>1
  <2> QED
    BY <1>1, <1>3, <1>4, <1>5, <1>8, <2>1, <2>3 DEF EntryIsSound
<1> QED
  BY <1>7, <1>8

(* ...and the clients: those that have another entry as they were...       *)
LEMMA OtherClientsKept ==
  ASSUME IInv, NEW r \in Requests, NEW e \in Entries, NEW c \in Clients,
         e = held[r], c = owner[e], Check(r), ~LimitExceeded(CountNow(e)),
         NEW d \in Clients, d # c
  PROVE  ClientIsSound(d)'
<1>1. TypeOK /\ ClientIsSound(d)
  BY DEF IInv
<1>2. /\ UNCHANGED <<now, clients, made, owner, cutoff, doomed>>
      /\ admitted'[d] = admitted[d] /\ onTime'[d] = onTime[d]
  BY <1>1, AdmissionEffect
<1>3. clients[d] # NoEntry => clients[d] \in Entries /\ clients[d] # e
  BY <1>1, Numbers DEF ClientIsSound
<1>4. clients[d] # NoEntry => /\ windowStart'[clients[d]] = windowStart[clients[d]]
                              /\ count'[clients[d]] = count[clients[d]]
                              /\ lastRequest'[clients[d]] = lastRequest[clients[d]]
                              /\ late'[clients[d]] = late[clients[d]]
  <2> DEFINE f == clients[d]
  <2>1. f \in Entries /\ f # e => /\ windowStart'[f] = windowStart[f] /\ count'[f] = count[f]
                                  /\ lastRequest'[f] = lastRequest[f] /\ late'[f] = late[f]
    BY <1>1, AdmissionEffect
  <2> QED
    BY <1>3, <2>1
<1>5. \A t \in Times : In(onTime[d], t)' = In(onTime[d], t)
  BY <1>2 DEF In, Window
<1> QED
  BY <1>1, <1>2, <1>4, <1>5 DEF ClientIsSound

(* ...the one whose entry it is, in the map...                             *)
LEMMA OwnClientOnTime ==
  ASSUME IInv, NEW r \in Requests, NEW e \in Entries, NEW c \in Clients,
         e = held[r], c = owner[e], Check(r), ~LimitExceeded(CountNow(e)), InMap(e)
  PROVE  ClientIsSound(c)'
<1>1. TypeOK /\ ClientIsSound(c) /\ EntryIsSound(e) /\ TypeOK'
  <2>1. TypeOK
    BY DEF IInv
  <2>2. TypeOK'
    BY <2>1, CheckKeepsType
  <2> QED
    BY <2>1, <2>2 DEF IInv
<1>2. clients[c] = e /\ c \notin doomed /\ e # NoEntry
  <2>1. PICK d \in Clients \ doomed : clients[d] = e
    BY DEF InMap
  <2>2. e # NoEntry /\ ClientIsSound(d)
    BY <1>1, Numbers DEF IInv
  <2> QED
    BY <2>1, <2>2 DEF ClientIsSound
<1>3. /\ UNCHANGED <<now, clients, made, owner, cutoff, doomed>>
      /\ lastRequest'[e] = now /\ admitted'[c] = Append(admitted[c], now)
      /\ onTime'[c] = Append(onTime[c], now)
      /\ \/ now - windowStart[e] >= WindowSize /\ windowStart'[e] = now /\ count'[e] = 1
         \/ /\ now - windowStart[e] < WindowSize
            /\ windowStart'[e] = windowStart[e] /\ count'[e] = count[e] + 1
  <2>1. /\ UNCHANGED <<now, clients, made, owner, cutoff, doomed>>
        /\ lastRequest'[e] = now /\ admitted'[c] = Append(admitted[c], now)
    BY <1>1, AdmissionEffect
  <2>2. onTime'[c] = Append(onTime[c], now)
    BY <1>1, AdmissionEffect
  <2>3. \/ now - windowStart[e] >= WindowSize /\ windowStart'[e] = now /\ count'[e] = 1
        \/ /\ now - windowStart[e] < WindowSize
           /\ windowStart'[e] = windowStart[e] /\ count'[e] = count[e] + 1
    BY <1>1, AdmissionEffect
  <2> QED
    BY <2>1, <2>2, <2>3
<1>4. /\ onTime[c] \in Seq(Times) /\ admitted[c] \in Seq(Times) /\ now \in Times
      /\ windowStart[e] \in Times /\ lastRequest[e] \in Times
      /\ count[e] \in 0..RequestsPerMin
  BY <1>1, Numbers
<1>5. windowStart'[e] \in Times /\ count'[e] \in 0..RequestsPerMin
  BY <1>1 DEF TypeOK
<1>6. /\ NoneAfter(onTime[c], lastRequest[e]) /\ NoneAfter(onTime[c], now)
      /\ NoneAfter(admitted[c], now)
      /\ Many(onTime[c], Since(windowStart[e])) <= count[e]
      /\ Many(onTime[c], SpanBefore(windowStart[e])) <= RequestsPerMin
  <2>1. NoneAfter(onTime[c], lastRequest[e]) /\ lastRequest[e] <= now
    BY <1>1, <1>2 DEF ClientIsSound, EntryIsSound
  <2>2. ASSUME NEW i \in DOMAIN onTime[c] PROVE onTime[c][i] <= now
    <3>1. onTime[c][i] \in Times /\ onTime[c][i] <= lastRequest[e]
      BY <1>4, <2>1 DEF NoneAfter
    <3> QED
      BY <1>4, <2>1, <3>1, Constants DEF Times
  <2> QED
    BY <1>1, <1>2, <2>1, <2>2 DEF ClientIsSound, NoneAfter
<1>7. /\ Many(onTime'[c], Since(windowStart'[e])) <= count'[e]
      /\ Many(onTime'[c], SpanBefore(windowStart'[e])) <= RequestsPerMin
      /\ \A t \in Times : t >= now => In(onTime'[c], t) <= 2 * RequestsPerMin
  <2>1. /\ windowStart[e] <= lastRequest[e] /\ lastRequest[e] <= now
        /\ lastRequest[e] < windowStart[e] + WindowSize
    BY <1>1 DEF EntryIsSound
  <2>2. /\ Many(Append(onTime[c], now), Since(windowStart'[e])) <= count'[e]
        /\ Many(Append(onTime[c], now), SpanBefore(windowStart'[e])) <= RequestsPerMin
        /\ \A t \in Times : t >= now => In(Append(onTime[c], now), t) <= 2 * RequestsPerMin
    BY <1>1, <1>3, <1>4, <1>5, <1>6, <2>1, SpansKept
  <2> QED
    BY <1>3, <2>2
<1>8. ASSUME NEW t \in Times PROVE In(onTime'[c], t) <= 2 * RequestsPerMin
  <2>1. CASE t >= now
    BY <1>7, <2>1
  <2>2. CASE ~(t >= now)
    <3>1. now \notin Window(t)
      BY <1>4, <2>2, Constants DEF Window, Times
    <3>2. Many(Append(onTime[c], now), Window(t)) = Many(onTime[c], Window(t))
      BY <1>4, <3>1, ManyAppend
    <3>3. Many(onTime[c], Window(t)) <= 2 * RequestsPerMin
      BY <1>1 DEF ClientIsSound, In, Many
    <3>4. Many(onTime'[c], Window(t)) <= 2 * RequestsPerMin
      BY <1>3, <3>2, <3>3
    <3> QED
      BY <3>4 DEF In, Many
  <2> QED
    BY <2>1, <2>2
<1>9. NoneAfter(onTime'[c], now) /\ NoneAfter(admitted'[c], now)
  <2>1. NoneAfter(Append(onTime[c], now), now) /\ NoneAfter(Append(admitted[c], now), now)
    BY <1>4, <1>6, NoneAfterAppend
  <2> QED
    BY <1>3, <2>1
<1>10. clients'[c] = e /\ c \notin doomed' /\ now' = now /\ lastRequest'[e] = now
       /\ clients'[c] <= made' /\ owner'[e] = c
  BY <1>1, <1>2, <1>3 DEF ClientIsSound
<1>11. \A t \in Times : In(onTime[c], t)' = In(onTime'[c], t)
  BY DEF In, Window
<1> QED
  BY <1>2, <1>7, <1>8, <1>9, <1>10, <1>11 DEF ClientIsSound

(* ...and the one whose entry it was, doomed or deleted.                   *)
LEMMA OwnClientLate ==
  ASSUME IInv, NEW r \in Requests, NEW e \in Entries, NEW c \in Clients,
         e = held[r], c = owner[e], Check(r), ~LimitExceeded(CountNow(e)), ~InMap(e)
  PROVE  ClientIsSound(c)'
<1>1. TypeOK /\ ClientIsSound(c)
  BY DEF IInv
<1>2. /\ UNCHANGED <<now, clients, made, owner, cutoff, doomed>>
      /\ admitted'[c] = Append(admitted[c], now) /\ onTime'[c] = onTime[c]
      /\ late'[e] = late[e] + 1
  BY <1>1, AdmissionEffect
<1>3. admitted[c] \in Seq(Times) /\ now \in Times /\ late[e] \in Nat
  BY <1>1, Numbers
<1>4. NoneAfter(admitted'[c], now)
  <2>1. NoneAfter(Append(admitted[c], now), now)
    BY <1>1, <1>3, NoneAfterAppend DEF ClientIsSound
  <2> QED
    BY <1>2, <2>1
<1>5. \A t \in Times : In(onTime[c], t)' = In(onTime[c], t)
  BY <1>2 DEF In, Window
<1>6. CASE clients[c] = e
  <2>1. c \in doomed
    BY <1>6 DEF InMap
  <2>2. late'[clients[c]] > 0
    BY <1>2, <1>3, <1>6
  <2> QED
    BY <1>1, <1>2, <1>4, <1>5, <2>1, <2>2 DEF ClientIsSound
<1>7. CASE clients[c] # e
  <2>1. clients[c] # NoEntry => /\ windowStart'[clients[c]] = windowStart[clients[c]]
                                /\ count'[clients[c]] = count[clients[c]]
                                /\ lastRequest'[clients[c]] = lastRequest[clients[c]]
                                /\ late'[clients[c]] = late[clients[c]]
    <3> DEFINE f == clients[c]
    <3>1. f \in Entries /\ f # e => /\ windowStart'[f] = windowStart[f] /\ count'[f] = count[f]
                                    /\ lastRequest'[f] = lastRequest[f] /\ late'[f] = late[f]
      BY <1>1, AdmissionEffect
    <3> QED
      BY <1>1, <1>7, <3>1, Numbers
  <2> QED
    BY <1>1, <1>2, <1>4, <1>5, <2>1 DEF ClientIsSound
<1> QED
  BY <1>6, <1>7

(* A request under the lock, admitted or turned away.                      *)
LEMMA CheckKeepsInv == ASSUME IInv, NEW r \in Requests, Check(r) PROVE IInv'
<1>1. TypeOK /\ held[r] \in Entries /\ owner[held[r]] \in Clients
  BY Numbers DEF IInv, Check
<1>2. TypeOK'
  BY <1>1, CheckKeepsType
<1>3. UNCHANGED <<now, clients, made, owner, cleaner, todo, cutoff, doomed>>
      /\ held' = [held EXCEPT ![r] = NoEntry]
  BY DEF Check
<1>4. \A s \in Requests : held'[s] <= made'
  <2>1. NoEntry <= made
    BY <1>1, Numbers DEF NoEntry
  <2> QED
    BY <1>1, <1>3, <2>1 DEF IInv, TypeOK
<1>5. CASE LimitExceeded(CountNow(held[r]))
  <2>1. UNCHANGED <<now, clients, entries, cleanup, ticker, stops, history>>
    BY <1>1, <1>5, DenialChangesNothing
  <2>2. ASSUME NEW f \in Entries PROVE EntryIsSound(f)'
    <3>1. /\ Cardinality(Holders(f)') <= Cardinality(Holders(f))
          /\ Cardinality(Holders(f)') \in Nat /\ Cardinality(Holders(f)) \in Nat
          /\ Cardinality(Requests) \in Nat /\ late[f] \in Nat
      <4>1. Cardinality(Holders(f)') = IF f = held[r] THEN Cardinality(Holders(f)) - 1
                                                     ELSE Cardinality(Holders(f))
        BY <1>1, <1>3, LetGo, Numbers
      <4>2. Cardinality(Holders(f)) \in Nat /\ Cardinality(Requests) \in Nat
        BY HoldersType
      <4>3. Holders(f)' \in SUBSET Requests /\ IsFiniteSet(Requests)
        BY RateLimiterAssumption DEF Holders
      <4>4. Cardinality(Holders(f)') \in Nat
        BY <4>3, FS_Subset, FS_CardinalityType
      <4> QED
        BY <1>1, <4>1, <4>2, <4>4, Numbers
    <3>2. EntryIsSound(f) /\ (InMap(f)' <=> InMap(f))
      BY <2>1 DEF IInv, InMap
    <3> QED
      BY <2>1, <3>1, <3>2 DEF EntryIsSound
  <2>3. ASSUME NEW d \in Clients PROVE ClientIsSound(d)'
    <3>1. ClientIsSound(d) /\ \A t \in Times : In(onTime[d], t)' = In(onTime[d], t)
      BY <2>1 DEF IInv, In, Window
    <3> QED
      BY <2>1, <3>1 DEF ClientIsSound
  <2> QED
    BY <1>2, <1>3, <1>4, <2>2, <2>3 DEF IInv
<1>6. CASE ~LimitExceeded(CountNow(held[r]))
  <2>1. \A f \in Entries : EntryIsSound(f)'
    BY <1>1, <1>6, AdmissionKeepsEntries
  <2>2. ASSUME NEW d \in Clients PROVE ClientIsSound(d)'
    <3>1. CASE d # owner[held[r]]
      BY <1>1, <1>6, <3>1, OtherClientsKept
    <3>2. CASE d = owner[held[r]] /\ InMap(held[r])
      BY <1>1, <1>6, <3>2, OwnClientOnTime
    <3>3. CASE d = owner[held[r]] /\ ~InMap(held[r])
      BY <1>1, <1>6, <3>3, OwnClientLate
    <3> QED
      BY <3>1, <3>2, <3>3
  <2> QED
    BY <1>2, <1>3, <1>4, <2>1, <2>2 DEF IInv
<1> QED
  BY <1>5, <1>6

-----------------------------------------------------------------------------
(* A request that looks up its entry.  One that is in the map has had no   *)
(* late request, so the new holder is one of the requests that exist.      *)
LEMMA LookupOfEntry ==
  ASSUME IInv, NEW r \in Requests, NEW c \in Clients, Lookup(r, c), clients[c] # NoEntry
  PROVE  IInv'
<1>1. /\ TypeOK /\ doomed = {} /\ clients[c] \in Entries /\ clients[c] <= made
  <2>1. TypeOK /\ doomed = {} /\ ClientIsSound(c)
    BY DEF IInv, Lookup, MapIsFree
  <2> QED
    BY <2>1, Numbers DEF ClientIsSound
<1>2. /\ held' = [held EXCEPT ![r] = clients[c]] /\ held[r] = NoEntry
      /\ UNCHANGED <<now, clients, entries, cleanup, ticker, stops, history>>
  BY DEF Lookup
<1>3. TypeOK'
  BY <1>1, LookupKeepsType
<1>4. ASSUME NEW f \in Entries PROVE EntryIsSound(f)'
  <2>1. EntryIsSound(f) /\ (InMap(f)' <=> InMap(f)) /\ late[f] \in Nat /\ f # NoEntry
    BY <1>1, <1>2, Numbers DEF IInv, InMap
  <2>2. /\ Cardinality(Holders(f)') \in Nat /\ Cardinality(Holders(f)') <= Cardinality(Requests)
        /\ Cardinality(Requests) \in Nat
    <3>1. Holders(f)' \in SUBSET Requests /\ IsFiniteSet(Requests)
      BY RateLimiterAssumption DEF Holders
    <3> QED
      BY <3>1, FS_Subset, FS_CardinalityType
  <2>3. late[f] + Cardinality(Holders(f)') <= Cardinality(Requests)
    <3>1. CASE f = clients[c]
      <4>1. late[f] = 0
        BY <1>1, <2>1, <3>1 DEF InMap, EntryIsSound
      <4> QED
        BY <2>2, <4>1
    <3>2. CASE f # clients[c]
      <4>1. Holders(f)' = Holders(f)
        BY <1>1, <1>2, <2>1, <3>2 DEF Holders, TypeOK
      <4> QED
        BY <2>1, <4>1 DEF EntryIsSound
    <3> QED
      BY <3>1, <3>2
  <2> QED
    BY <1>2, <2>1, <2>3 DEF EntryIsSound
<1>5. ASSUME NEW d \in Clients PROVE ClientIsSound(d)'
  <2>1. ClientIsSound(d) /\ \A t \in Times : In(onTime[d], t)' = In(onTime[d], t)
    BY <1>2 DEF IInv, In, Window
  <2> QED
    BY <1>2, <2>1 DEF ClientIsSound
<1>6. \A s \in Requests : held'[s] <= made'
  BY <1>1, <1>2 DEF IInv, TypeOK
<1> QED
  BY <1>2, <1>3, <1>4, <1>5, <1>6 DEF IInv

(* One that makes its entry: nothing of the client's is behind it.         *)
LEMMA LookupOfNone ==
  ASSUME IInv, NEW r \in Requests, NEW c \in Clients, Lookup(r, c), clients[c] = NoEntry,
         NEW n \in Entries, n = made + 1
  PROVE  IInv'
<1>1. TypeOK /\ doomed = {} /\ held[r] = NoEntry
  BY DEF IInv, Lookup, MapIsFree
<1>2. /\ made' = n /\ clients' = [clients EXCEPT ![c] = n] /\ held' = [held EXCEPT ![r] = n]
      /\ owner' = [owner EXCEPT ![n] = c] /\ windowStart' = [windowStart EXCEPT ![n] = now]
      /\ lastRequest' = [lastRequest EXCEPT ![n] = now]
      /\ UNCHANGED <<count, now, cleanup, ticker, stops, history>>
  BY DEF Lookup
<1>3. TypeOK'
  BY <1>1, LookupKeepsType
<1>4. /\ now \in Nat /\ now \in Times /\ made \in Nat /\ n \in Nat /\ n # NoEntry
      /\ WindowSize \in Nat /\ WindowSize > 0 /\ RequestsPerMin \in Nat /\ \A x \in Times : x \in Nat
  BY <1>1, Numbers, Constants DEF Times
<1>5. /\ windowStart'[n] = now /\ lastRequest'[n] = now /\ owner'[n] = c
      /\ count'[n] = 0 /\ late'[n] = 0 /\ clients'[c] = n
  <2>1. EntryIsSound(n)
    BY DEF IInv
  <2>2. count[n] = 0 /\ late[n] = 0
    BY <1>4, <2>1 DEF EntryIsSound
  <2> QED
    BY <1>1, <1>2, <2>2 DEF TypeOK
<1>6. \A f \in Entries : f # n =>
        /\ windowStart'[f] = windowStart[f] /\ lastRequest'[f] = lastRequest[f]
        /\ owner'[f] = owner[f] /\ count'[f] = count[f] /\ late'[f] = late[f]
  BY <1>1, <1>2 DEF TypeOK
<1>7. \A d \in Clients : d # c => clients'[d] = clients[d]
  BY <1>1, <1>2 DEF TypeOK
<1>8. ASSUME NEW f \in Entries PROVE EntryIsSound(f)'
  <2>1. /\ Cardinality(Holders(f)') \in Nat /\ Cardinality(Holders(f)') <= Cardinality(Requests)
        /\ Cardinality(Requests) \in Nat
    <3>1. Holders(f)' \in SUBSET Requests /\ IsFiniteSet(Requests)
      BY RateLimiterAssumption DEF Holders
    <3> QED
      BY <3>1, FS_Subset, FS_CardinalityType
  <2>2. CASE f = n
    <3>1. Many(admitted'[owner'[f]], Since(windowStart'[f])) \in Nat
      BY <1>3, Numbers, ManyType DEF TypeOK
    <3> QED
      BY <1>2, <1>4, <1>5, <2>1, <2>2, <3>1 DEF EntryIsSound
  <2>3. CASE f # n
    <3>1. EntryIsSound(f) /\ f # NoEntry /\ f \in Nat
      BY <1>1, Numbers DEF IInv
    <3>2. Holders(f)' = Holders(f)
      BY <1>1, <1>2, <2>3, <3>1 DEF Holders, TypeOK
    <3>3. InMap(f)' => InMap(f)
      BY <1>1, <1>2, <1>5, <1>7, <2>3 DEF InMap
    <3>4. f > made' => f > made
      BY <1>2, <1>4, <3>1
    <3> QED
      BY <1>2, <1>6, <2>3, <3>1, <3>2, <3>3, <3>4 DEF EntryIsSound
  <2> QED
    BY <2>2, <2>3
<1>9. ASSUME NEW d \in Clients PROVE ClientIsSound(d)'
  <2>1. ClientIsSound(d) /\ \A t \in Times : In(onTime[d], t)' = In(onTime[d], t)
    BY <1>2 DEF IInv, In, Window
  <2>2. CASE d = c
    <3>1. onTime[c] \in Seq(Times) /\ NoneAfter(onTime[c], now - WindowSize)
      BY <1>1, <2>1, <2>2, Numbers DEF ClientIsSound, Lookup
    <3>2. ASSUME NEW i \in DOMAIN onTime[c]
          PROVE  /\ onTime[c][i] <= now
                 /\ onTime[c][i] \notin Since(now) /\ onTime[c][i] \notin SpanBefore(now)
      <4>1. onTime[c][i] \in Times /\ onTime[c][i] <= now - WindowSize
        BY <3>1 DEF NoneAfter
      <4>2. onTime[c][i] \in Nat
        BY <1>4, <4>1
      <4> QED
        BY <1>4, <4>1, <4>2 DEF Since, SpanBefore
    <3>3. Many(onTime[c], Since(now)) = 0 /\ Many(onTime[c], SpanBefore(now)) = 0
      BY <3>1, <3>2, ManyNone
    <3>4. NoneAfter(onTime[c], now)
      BY <3>2 DEF NoneAfter
    <3>5. Many(onTime[c], Since(now)) <= 0 /\ Many(onTime[c], SpanBefore(now)) <= RequestsPerMin
      BY <1>4, <3>3
    <3> QED
      BY <1>1, <1>2, <1>4, <1>5, <2>1, <2>2, <3>4, <3>5 DEF ClientIsSound
  <2>3. CASE d # c
    <3>1. clients'[d] = clients[d] /\ clients[d] <= made /\ clients[d] # n /\ clients[d] <= made'
      <4>1. clients[d] <= made /\ clients[d] \in Nat
        BY <1>1, <2>1, Numbers DEF ClientIsSound
      <4> QED
        BY <1>2, <1>4, <1>7, <2>3, <4>1
    <3>2. clients[d] # NoEntry =>
            /\ windowStart'[clients[d]] = windowStart[clients[d]]
            /\ lastRequest'[clients[d]] = lastRequest[clients[d]]
            /\ owner'[clients[d]] = owner[clients[d]]
            /\ count'[clients[d]] = count[clients[d]]
      BY <1>1, <1>6, <3>1, Numbers
    <3> QED
      BY <1>1, <1>2, <2>1, <3>1, <3>2 DEF ClientIsSound
  <2> QED
    BY <2>2, <2>3
<1>10. \A s \in Requests : held'[s] <= made'
  <2>1. \A s \in Requests : held[s] <= made /\ held[s] \in Nat
    BY <1>1, Numbers DEF IInv
  <2> QED
    BY <1>1, <1>2, <1>4, <2>1 DEF TypeOK
<1> QED
  BY <1>1, <1>2, <1>3, <1>8, <1>9, <1>10 DEF IInv

LEMMA LookupKeepsInv ==
  ASSUME IInv, NEW r \in Requests, NEW c \in Clients, Lookup(r, c)
  PROVE  IInv'
<1>1. CASE clients[c] # NoEntry
  BY <1>1, LookupOfEntry
<1>2. CASE clients[c] = NoEntry
  <2>1. made + 1 \in Entries
    <3>1. made \in Nat /\ made < MaxEntries
      BY <1>2, Numbers DEF IInv, Lookup
    <3> QED
      BY <3>1, Constants DEF Entries
  <2> QED
    BY <1>2, <2>1, LookupOfNone
<1> QED
  BY <1>1, <1>2

-----------------------------------------------------------------------------
(* The removal of entries, and the clock.                                  *)
LEMMA NoneAfterLater ==
  ASSUME NEW ts \in Seq(Times), NEW t \in Int, NEW u \in Int, t <= u, NoneAfter(ts, t)
  PROVE  NoneAfter(ts, u)
<1>1. ASSUME NEW i \in DOMAIN ts PROVE ts[i] <= u
  <2>1. ts[i] \in Times /\ ts[i] <= t
    BY DEF NoneAfter
  <2>2. ts[i] \in Int
    BY <2>1, Constants DEF Times
  <2> QED
    BY <2>1, <2>2
<1> QED
  BY <1>1 DEF NoneAfter

(* A step that touches no entry, no request and no client.                 *)
LEMMA QuietStep ==
  ASSUME IInv, [Next]_vars, UNCHANGED <<now, clients, entries, held, doomed, history>>,
         cutoff' = cutoff \/ doomed = {}, cleaner' = "cleaning" => cutoff' <= now - 2 * WindowSize,
         doomed # {} => cleaner' = "cleaning"
  PROVE  IInv'
<1>1. TypeOK'
  BY NextKeepsType DEF IInv
<1>2. ASSUME NEW e \in Entries PROVE EntryIsSound(e)'
  BY DEF IInv, EntryIsSound, InMap, Holders
<1>3. ASSUME NEW c \in Clients PROVE ClientIsSound(c)'
  <2>1. ClientIsSound(c) /\ \A t \in Times : In(onTime[c], t)' = In(onTime[c], t)
    BY DEF IInv, In, Window
  <2> QED
    BY <2>1 DEF ClientIsSound
<1> QED
  BY <1>1, <1>2, <1>3 DEF IInv

(* An entry is looked at: the idle one is about to be deleted, and the     *)
(* requests of its client were all before the cutoff.                      *)
LEMMA ExamineKeepsInv == ASSUME IInv, NEW c \in Clients, Examine(c) PROVE IInv'
<1>1. TypeOK /\ doomed = {} /\ cleaner = "cleaning"
  BY DEF IInv, Examine
<1>2. /\ UNCHANGED <<now, clients, entries, held, cleaner, cutoff, ticker, stops, history>>
      /\ (doomed' = {c} /\ Stale(clients[c])) \/ doomed' = {}
  BY DEF Examine
<1>3. TypeOK'
  BY <1>1, NextKeepsType DEF Next, Cleanup
<1>4. ASSUME NEW e \in Entries PROVE EntryIsSound(e)'
  <2>1. InMap(e)' => InMap(e)
    BY <1>1, <1>2 DEF InMap
  <2>2. EntryIsSound(e) /\ Holders(e)' = Holders(e)
    BY <1>2 DEF IInv, Holders
  <2> QED
    BY <1>2, <2>1, <2>2 DEF EntryIsSound
<1>5. ASSUME NEW d \in Clients PROVE ClientIsSound(d)'
  <2>1. ClientIsSound(d) /\ \A t \in Times : In(onTime[d], t)' = In(onTime[d], t)
    BY <1>2 DEF IInv, In, Window
  <2>2. CASE clients[d] # NoEntry /\ d \in doomed'
    <3>1. NoneAfter(onTime[d], lastRequest[clients[d]]) /\ lastRequest[clients[d]] < cutoff
      BY <1>1, <1>2, <2>1, <2>2 DEF ClientIsSound, Stale
    <3>2. NoneAfter(onTime[d], cutoff)
      <4>1. /\ onTime[d] \in Seq(Times) /\ cutoff \in Int /\ lastRequest[clients[d]] \in Int
        BY <1>1, <2>2, Numbers
      <4> QED
        BY <3>1, <4>1, NoneAfterLater
    <3> QED
      BY <1>2, <2>1, <2>2, <3>1, <3>2 DEF ClientIsSound
  <2>3. CASE clients[d] = NoEntry \/ d \notin doomed'
    BY <1>1, <1>2, <2>1, <2>3 DEF ClientIsSound
  <2> QED
    BY <2>2, <2>3
<1> QED
  BY <1>1, <1>2, <1>3, <1>4, <1>5 DEF IInv

(* It is deleted: its client has had nobody admitted on time for a window. *)
LEMMA DeleteKeepsInv == ASSUME IInv, NEW c \in Clients, Delete(c) PROVE IInv'
<1>1. /\ TypeOK /\ c \in doomed /\ cutoff <= now - 2 * WindowSize
      /\ \A d \in doomed : d = c
  BY DEF IInv, Delete
<1>2. /\ UNCHANGED <<now, entries, held, cleaner, todo, cutoff, ticker, stops, history>>
      /\ clients' = [clients EXCEPT ![c] = NoEntry] /\ doomed' = {}
  BY DEF Delete
<1>3. TypeOK'
  BY <1>1, NextKeepsType DEF Next, Cleanup
<1>4. clients'[c] = NoEntry /\ \A d \in Clients : d # c => clients'[d] = clients[d]
  BY <1>1, <1>2 DEF TypeOK
<1>5. ASSUME NEW e \in Entries PROVE EntryIsSound(e)'
  <2>1. InMap(e)' => InMap(e)
    BY <1>1, <1>2, <1>4, Numbers DEF InMap
  <2>2. EntryIsSound(e) /\ Holders(e)' = Holders(e)
    BY <1>2 DEF IInv, Holders
  <2> QED
    BY <1>2, <2>1, <2>2 DEF EntryIsSound
<1>6. ASSUME NEW d \in Clients PROVE ClientIsSound(d)'
  <2>1. ClientIsSound(d) /\ \A t \in Times : In(onTime[d], t)' = In(onTime[d], t)
    BY <1>2 DEF IInv, In, Window
  <2>2. CASE d = c
    <3>1. NoneAfter(onTime[c], now - WindowSize)
      <4>1. /\ onTime[c] \in Seq(Times) /\ cutoff \in Int /\ now \in Nat
            /\ WindowSize \in Nat /\ WindowSize > 0
        BY <1>1, Numbers, Constants
      <4>2. CASE clients[c] = NoEntry
        BY <2>1, <2>2, <4>2 DEF ClientIsSound
      <4>3. CASE clients[c] # NoEntry
        <5>1. NoneAfter(onTime[c], cutoff)
          BY <1>1, <2>1, <2>2, <4>3 DEF ClientIsSound
        <5>2. cutoff <= now - WindowSize /\ now - WindowSize \in Int
          BY <1>1, <4>1
        <5> QED
          BY <4>1, <5>1, <5>2, NoneAfterLater
      <4> QED
        BY <4>2, <4>3
    <3>2. NoEntry <= made
      BY <1>1, Numbers DEF NoEntry
    <3> QED
      BY <1>2, <1>4, <2>1, <2>2, <3>1, <3>2 DEF ClientIsSound
  <2>3. CASE d # c
    BY <1>1, <1>2, <1>4, <2>1, <2>3 DEF ClientIsSound
  <2> QED
    BY <2>2, <2>3
<1> QED
  BY <1>1, <1>2, <1>3, <1>5, <1>6 DEF IInv

(* Time passes: what was before a moment is before a later one.            *)
LEMMA ClockKeepsInv == ASSUME IInv, ClockTicks PROVE IInv'
<1>1. TypeOK /\ now \in Nat /\ WindowSize \in Nat /\ cutoff \in Int
  BY Numbers, Constants DEF IInv
<1>2. now' = now + 1 /\ UNCHANGED <<clients, entries, held, cleanup, ticker, stops, history>>
  BY DEF ClockTicks
<1>3. TypeOK'
  BY <1>1, NextKeepsType DEF Next
<1>4. ASSUME NEW e \in Entries PROVE EntryIsSound(e)'
  <2>1. EntryIsSound(e) /\ (InMap(e)' <=> InMap(e)) /\ Holders(e)' = Holders(e)
    BY <1>2 DEF IInv, InMap, Holders
  <2>2. lastRequest[e] <= now'
    BY <1>1, <1>2, <2>1, Numbers DEF EntryIsSound
  <2> QED
    BY <1>2, <2>1, <2>2 DEF EntryIsSound
<1>5. ASSUME NEW c \in Clients PROVE ClientIsSound(c)'
  <2>1. ClientIsSound(c) /\ \A t \in Times : In(onTime[c], t)' = In(onTime[c], t)
    BY <1>2 DEF IInv, In, Window
  <2>2. admitted[c] \in Seq(Times) /\ onTime[c] \in Seq(Times)
    BY <1>1, Numbers
  <2>3. NoneAfter(admitted[c], now')
    BY <1>1, <1>2, <2>1, <2>2, NoneAfterLater DEF ClientIsSound
  <2>4. clients[c] = NoEntry => NoneAfter(onTime[c], now' - WindowSize)
    BY <1>1, <1>2, <2>1, <2>2, NoneAfterLater DEF ClientIsSound
  <2> QED
    BY <1>2, <2>1, <2>3, <2>4 DEF ClientIsSound
<1>6. cleaner' = "cleaning" => cutoff' <= now' - 2 * WindowSize
  BY <1>1, <1>2 DEF IInv
<1> QED
  BY <1>2, <1>3, <1>4, <1>5, <1>6 DEF IInv

(* Every step keeps the invariant.                                         *)
LEMMA NextKeepsInv == IInv /\ [Next]_vars => IInv'
<1> SUFFICES ASSUME IInv, [Next]_vars PROVE IInv'
  OBVIOUS
<1>1. ASSUME NEW r \in Requests, NEW c \in Clients, Lookup(r, c) PROVE IInv'
  BY <1>1, LookupKeepsInv
<1>2. ASSUME NEW r \in Requests, Check(r) PROVE IInv'
  BY <1>2, CheckKeepsInv
<1>3. ASSUME NEW c \in Clients, Examine(c) PROVE IInv'
  BY <1>3, ExamineKeepsInv
<1>4. ASSUME NEW c \in Clients, Delete(c) PROVE IInv'
  BY <1>4, DeleteKeepsInv
<1>5. CASE CleanupTick
  <2>1. now - 2 * WindowSize <= now - 2 * WindowSize
    BY Numbers, Constants DEF IInv
  <2> QED
    BY <1>5, <2>1, QuietStep DEF CleanupTick, IInv
<1>6. CASE CleanupDone
  BY <1>6, QuietStep DEF CleanupDone, NextRound, IInv
<1>7. CASE TickerFires
  BY <1>7, QuietStep DEF TickerFires, IInv
<1>8. CASE Stop
  BY <1>8, QuietStep DEF Stop, IInv
<1>9. CASE StopReceived
  BY <1>9, QuietStep DEF StopReceived, IInv
<1>10. CASE ClockTicks
  BY <1>10, ClockKeepsInv
<1>11. CASE UNCHANGED vars
  BY <1>11, QuietStep DEF vars, IInv
<1> QED
  BY <1>1, <1>2, <1>3, <1>4, <1>5, <1>6, <1>7, <1>8, <1>9, <1>10, <1>11 DEF Next, Cleanup

LEMMA InvariantHolds == Spec => []IInv
BY InitIsInv, NextKeepsInv, PTL DEF Spec

-----------------------------------------------------------------------------
(* In no span as long as a window does a client get more than twice the    *)
(* limit, late requests apart, whatever is removed and looked up again.    *)
THEOREM BudgetIsKept == Spec => []ClientBudget
<1>1. IInv => ClientBudget
  BY DEF IInv, ClientIsSound, ClientBudget
<1> QED
  BY <1>1, InvariantHolds, PTL

(* No more requests are late on an entry than there are requests.          *)
THEOREM LateOnesAreFew == Spec => []LateAreFew
<1>1. IInv => LateAreFew
  <2> SUFFICES ASSUME IInv, NEW e \in Entries PROVE late[e] <= Cardinality(Requests)
    BY DEF LateAreFew
  <2>1. late[e] \in Nat /\ late[e] + Cardinality(Holders(e)) <= Cardinality(Requests)
    BY Numbers DEF IInv, EntryIsSound
  <2>2. Cardinality(Holders(e)) \in Nat /\ Cardinality(Requests) \in Nat
    BY HoldersType
  <2> QED
    BY <2>1, <2>2
<1> QED
  BY <1>1, InvariantHolds, PTL

(* Who is turned away has had the limit since the window of the entry      *)
(* began, which is within the last window.                                 *)
LEMMA DenialMeansSpent ==
  ASSUME IInv, NEW r \in Requests, Check(r), admitted' = admitted
  PROVE  In(admitted[owner[held[r]]], now) >= RequestsPerMin
<1> DEFINE e == held[r]
           ts == admitted[owner[e]]
<1>1. TypeOK /\ e \in Entries /\ owner[e] \in Clients
  BY Numbers DEF IInv, Check
<1>2. /\ now \in Nat /\ windowStart[e] \in Nat /\ count[e] \in Nat /\ WindowSize \in Nat
      /\ RequestsPerMin \in Nat /\ ts \in Seq(Times) /\ \A x \in Times : x \in Nat
  BY <1>1, Numbers, Constants DEF Times
<1>3. LimitExceeded(CountNow(e))
  <2> SUFFICES ASSUME ~LimitExceeded(CountNow(e)) PROVE FALSE
    OBVIOUS
  <2>1. admitted' = [admitted EXCEPT ![owner[e]] = Append(@, now)]
    BY DEF Check
  <2>2. ts = Append(ts, now)
    BY <1>1, <2>1 DEF TypeOK
  <2>3. Len(Append(ts, now)) = Len(ts) + 1 /\ Len(ts) \in Nat
    BY <1>2
  <2> QED
    BY <2>2, <2>3
<1>4. ~WindowExpired(e) /\ count[e] >= RequestsPerMin
  BY <1>1, <1>3, DenialChangesNothing
<1>5. EntryIsSound(e) /\ ClientIsSound(owner[e])
  BY <1>1 DEF IInv
<1>6. ASSUME NEW i \in DOMAIN ts, ts[i] \in Since(windowStart[e]) PROVE ts[i] \in Window(now)
  <2>1. ts[i] \in Times /\ ts[i] <= now /\ windowStart[e] <= ts[i]
    BY <1>2, <1>5, <1>6 DEF ClientIsSound, NoneAfter, Since
  <2> QED
    BY <1>2, <1>4, <2>1 DEF Window, WindowExpired
<1>7. Many(ts, Since(windowStart[e])) <= Many(ts, Window(now))
  BY <1>2, <1>6, ManyWithin
<1>8. count[e] <= Many(ts, Since(windowStart[e]))
  BY <1>5 DEF EntryIsSound
<1>9. Many(ts, Since(windowStart[e])) \in Nat /\ Many(ts, Window(now)) \in Nat
  BY <1>2, ManyType
<1>10. Many(ts, Window(now)) >= RequestsPerMin
  BY <1>2, <1>4, <1>7, <1>8, <1>9
<1> QED
  BY <1>10 DEF In, Many

(* CheckLimit turns nobody away who has not had the limit in one window.   *)
THEOREM DeniedHasSpent == Spec => DeniedMeansSpent
<1>1. IInv /\ [Next]_vars =>
        [\A r \in Requests :
           Check(r) /\ admitted' = admitted =>
             In(admitted[owner[held[r]]], now) >= RequestsPerMin]_vars
  BY DenialMeansSpent
<1> QED
  BY <1>1, InvariantHolds, PTL DEF Spec, DeniedMeansSpent

(* An entry is deleted after its window, or with a late request on it.     *)
LEMMA DeletesForgetNothing ==
  ASSUME IInv, [Next]_vars, NEW c \in Clients, clients[c] # NoEntry, clients'[c] = NoEntry
  PROVE  now >= windowStart[clients[c]] + WindowSize \/ late[clients[c]] > 0
<1>1. TypeOK
  BY DEF IInv
<1>2. ~UNCHANGED clients
  OBVIOUS
<1>3. ASSUME NEW r \in Requests, NEW d \in Clients, Lookup(r, d) PROVE FALSE
  BY <1>1, <1>2, <1>3, Constants DEF Lookup, TypeOK, NoEntry
<1>4. PICK d \in Clients : Delete(d)
  BY <1>2, <1>3 DEF Next, vars, Cleanup, Check, TickerFires, CleanupTick, Examine,
     CleanupDone, Stop, StopReceived, ClockTicks
<1>5. c \in doomed
  BY <1>1, <1>4 DEF Delete, TypeOK
<1>6. /\ cutoff <= now - 2 * WindowSize
      /\ lastRequest[clients[c]] < cutoff \/ late[clients[c]] > 0
  BY <1>5 DEF IInv, ClientIsSound
<1>7. clients[c] \in Entries
  BY <1>1, Numbers
<1>8. /\ windowStart[clients[c]] \in Nat /\ lastRequest[clients[c]] \in Nat
      /\ now \in Nat /\ cutoff \in Int /\ WindowSize \in Nat
      /\ windowStart[clients[c]] <= lastRequest[clients[c]]
  BY <1>1, <1>7, Numbers, Constants DEF IInv, EntryIsSound
<1> QED
  BY <1>6, <1>8

(* No step deletes an entry in its window unless a request was still on it *)
(* after cleanupStaleClients had looked.                                   *)
THEOREM NothingIsForgotten == Spec => NothingForgotten
<1>1. IInv /\ [Next]_vars =>
        [\A c \in Clients : clients[c] # NoEntry /\ clients'[c] = NoEntry =>
           LET e == clients[c]
           IN  now >= windowStart[e] + WindowSize \/ late[e] > 0]_vars
  BY DeletesForgetNothing
<1> QED
  BY <1>1, InvariantHolds, PTL DEF Spec, NothingForgotten
=============================================================================
