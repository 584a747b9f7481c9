---------------------------- MODULE RateLimiter -----------------------------
(***************************************************************************)
(* The rate limiter of the API server (api/ratelimit.go): a fixed window   *)
(* of requests per client, a map of clients under one lock and an entry    *)
(* per client under a lock of its own, and a goroutine that removes the    *)
(* entries nobody has used for two windows.  CheckLimit takes the entry    *)
(* out of the map and lets the lock of the map go before it takes the lock *)
(* of the entry, so an entry may be removed with requests still on it.     *)
(*                                                                         *)
(* Time is counted in ticks of a clock the program reads.  A critical      *)
(* section of an entry is one step; that of the removal, which covers the  *)
(* whole map, is not.                                                      *)
(***************************************************************************)
EXTENDS Integers, FiniteSets, Sequences

CONSTANTS Clients,         \* identifiers of clients
          Requests,        \* goroutines that serve a request
          MaxStops,        \* calls of Stop
          RequestsPerMin,  \* config.RequestsPerMin
          WindowSize,      \* config.WindowSize
          MaxTime,         \* the clock stops here
          MaxEntries       \* entries ever made

ASSUME RateLimiterAssumption ==
  /\ RequestsPerMin \in Nat \ {0} /\ WindowSize \in Nat \ {0}
  /\ MaxTime \in Nat /\ MaxEntries \in Nat /\ MaxStops \in Nat
  /\ IsFiniteSet(Requests) /\ Clients # {}

Times == 0..MaxTime
Entries == 1..MaxEntries
NoEntry == 0

VARIABLES now,        \* time.Now()
          clients,    \* the map: the entry of each client, or NoEntry
          made,       \* entries made so far
          owner,      \* the client each was made for
          count, windowStart, lastRequest,        \* the fields of an entry
          held,       \* the entry each request has looked up, or NoEntry
          cleaner,    \* the goroutine: "select", "cleaning" (with the map) or "gone"
          todo,       \* clients whose entry it has yet to look at
          cutoff,     \* what it takes for two windows ago
          doomed,     \* the client whose entry it is about to delete
          ticker,     \* "on", "due" (a tick waits) or "off"
          stopping,   \* calls of Stop that wait for the channel
          stopped,    \* calls of Stop that have returned
          admitted,   \* history: when requests of each client were admitted
          onTime,     \* history: those of them on an entry in the map, not doomed
          late        \* history: how many were admitted on an entry after that

entries == <<made, owner, count, windowStart, lastRequest>>
cleanup == <<cleaner, todo, cutoff, doomed>>
stops == <<stopping, stopped>>
history == <<admitted, onTime, late>>
vars == <<now, clients, entries, held, cleanup, ticker, stops, history>>

Init ==
  /\ now = 0 /\ clients = [c \in Clients |-> NoEntry]
  /\ made = 0 /\ owner \in [Entries -> {CHOOSE c \in Clients : TRUE}]
  /\ count = [e \in Entries |-> 0]
  /\ windowStart = [e \in Entries |-> 0] /\ lastRequest = [e \in Entries |-> 0]
  /\ held = [r \in Requests |-> NoEntry]
  /\ cleaner = "select" /\ todo = {} /\ cutoff = 0 /\ doomed = {} /\ ticker = "on"
  /\ stopping = 0 /\ stopped = 0
  /\ admitted = [c \in Clients |-> <<>>] /\ onTime = [c \in Clients |-> <<>>]
  /\ late = [e \in Entries |-> 0]

-----------------------------------------------------------------------------
(* A mistake for the runs to catch: the map is not locked for the removal. *)
UnlockedMap == TRUE
MapIsFree == cleaner # "cleaning"

(* CheckLimit: the entry of the client, made if there is none.             *)
Lookup(r, c) ==
  /\ held[r] = NoEntry /\ MapIsFree
  /\ IF clients[c] # NoEntry
     THEN /\ held' = [held EXCEPT ![r] = clients[c]]
          /\ UNCHANGED <<clients, entries>>
     ELSE /\ made < MaxEntries
          /\ made' = made + 1
          /\ clients' = [clients EXCEPT ![c] = made']
          /\ held' = [held EXCEPT ![r] = made']
          /\ owner' = [owner EXCEPT ![made'] = c]
          /\ windowStart' = [windowStart EXCEPT ![made'] = now]
          /\ lastRequest' = [lastRequest EXCEPT ![made'] = now]
          /\ UNCHANGED count
  /\ UNCHANGED <<now, cleanup, ticker, stops, history>>

(* A mistake for the runs to catch: a window one tick longer.              *)
LongWindow(e) == now - windowStart[e] > WindowSize
WindowExpired(e) == now - windowStart[e] >= WindowSize

(* A mistake for the runs to catch: one request more than the limit.       *)
OneMore(n) == n > RequestsPerMin
LimitExceeded(n) == n >= RequestsPerMin

CountNow(e) == IF WindowExpired(e) THEN 0 ELSE count[e]
InMap(e) == \E c \in Clients \ doomed : clients[c] = e

(* A mistake for the runs to catch: the time of the request is not kept.   *)
Untouched(e) == lastRequest
Touched(e) == [lastRequest EXCEPT ![e] = now]

(* CheckLimit under the lock of the entry, in the map or not.              *)
Check(r) ==
  /\ held[r] # NoEntry
  /\ held' = [held EXCEPT ![r] = NoEntry]
  /\ LET e == held[r]
     IN  /\ windowStart' = [windowStart EXCEPT ![e] = IF WindowExpired(e) THEN now ELSE @]
         /\ IF LimitExceeded(CountNow(e))
            THEN /\ count' = [count EXCEPT ![e] = CountNow(e)]
                 /\ UNCHANGED <<lastRequest, history>>
            ELSE /\ count' = [count EXCEPT ![e] = CountNow(e) + 1]
                 /\ lastRequest' = Touched(e)
                 /\ admitted' = [admitted EXCEPT ![owner[e]] = Append(@, now)]
                 /\ IF InMap(e)
                    THEN onTime' = [onTime EXCEPT ![owner[e]] = Append(@, now)] /\ UNCHANGED late
                    ELSE late' = [late EXCEPT ![e] = @ + 1] /\ UNCHANGED onTime
  /\ UNCHANGED <<now, clients, made, owner, cleanup, ticker, stops>>

-----------------------------------------------------------------------------
TickerFires ==
  /\ ticker = "on" /\ ticker' = "due"
  /\ UNCHANGED <<now, clients, entries, held, cleanup, stops, history>>

(* cleanupStaleClients: the map is locked, entry after entry is looked at  *)
(* under its lock, and deleted after that lock is let go.                  *)
CleanupTick ==
  /\ cleaner = "select" /\ ticker = "due"
  /\ cleaner' = "cleaning" /\ ticker' = "on"
  /\ todo' = {c \in Clients : clients[c] # NoEntry}
  /\ cutoff' = now - 2 * WindowSize
  /\ UNCHANGED <<now, clients, entries, held, doomed, stops, history>>

(* A mistake for the runs to catch: the entries in use are the stale ones. *)
Fresh(e) == lastRequest[e] >= cutoff
Stale(e) == lastRequest[e] < cutoff

Examine(c) ==
  /\ cleaner = "cleaning" /\ doomed = {} /\ c \in todo
  /\ todo' = todo \ {c}
  /\ doomed' = IF Stale(clients[c]) THEN {c} ELSE {}
  /\ UNCHANGED <<now, clients, entries, held, cleaner, cutoff, ticker, stops, history>>

Delete(c) ==
  /\ c \in doomed
  /\ doomed' = {} /\ clients' = [clients EXCEPT ![c] = NoEntry]
  /\ UNCHANGED <<now, entries, held, cleaner, todo, cutoff, ticker, stops, history>>

(* A mistake for the runs to catch: the goroutine is done after one round. *)
OneRound == "gone"
NextRound == "select"
CleanupDone ==
  /\ cleaner = "cleaning" /\ todo = {} /\ doomed = {}
  /\ cleaner' = NextRound
  /\ UNCHANGED <<now, clients, entries, held, todo, cutoff, doomed, ticker, stops, history>>

(* Stop sends on a channel without a buffer; the goroutine receives once.  *)
(* No tick comes after the ticker is stopped.                              *)
Stop ==
  /\ stopping + stopped < MaxStops
  /\ stopping' = stopping + 1 /\ ticker' = "off"
  /\ UNCHANGED <<now, clients, entries, held, cleanup, stopped, history>>

StopReceived ==
  /\ cleaner = "select" /\ stopping > 0
  /\ cleaner' = "gone" /\ stopping' = stopping - 1 /\ stopped' = stopped + 1
  /\ UNCHANGED <<now, clients, entries, held, todo, cutoff, doomed, ticker, history>>

ClockTicks ==
  /\ now < MaxTime /\ now' = now + 1
  /\ UNCHANGED <<clients, entries, held, cleanup, ticker, stops, history>>

Cleanup == CleanupTick \/ (\E c \in Clients : Examine(c) \/ Delete(c)) \/ CleanupDone

Next ==
  \/ \E r \in Requests : (\E c \in Clients : Lookup(r, c)) \/ Check(r)
  \/ TickerFires \/ Cleanup \/ Stop \/ StopReceived
  \/ ClockTicks

(* The goroutine of cleanup runs.                                          *)
Fairness == WF_vars(Cleanup \/ StopReceived)
Spec == Init /\ [][Next]_vars /\ Fairness

-----------------------------------------------------------------------------
(* Every variable has its type; no entry ever counts more requests than    *)
(* the limit (count, map and entries of RateLimiter).                      *)
TypeOK ==
  /\ now \in Times /\ made \in 0..MaxEntries
  /\ clients \in [Clients -> 0..MaxEntries] /\ held \in [Requests -> 0..MaxEntries]
  /\ owner \in [Entries -> Clients] /\ count \in [Entries -> 0..RequestsPerMin]
  /\ windowStart \in [Entries -> Times] /\ lastRequest \in [Entries -> Times]
  /\ cleaner \in {"select", "cleaning", "gone"} /\ ticker \in {"on", "due", "off"}
  /\ todo \subseteq Clients /\ doomed \subseteq Clients /\ cutoff \in Int
  /\ stopping \in 0..MaxStops /\ stopped \in 0..MaxStops - stopping
  /\ admitted \in [Clients -> Seq(Times)] /\ onTime \in [Clients -> Seq(Times)]
  /\ late \in [Entries -> Nat]

(* How many of some requests fall in the window that ends with t.          *)
Window(t) == {s \in Times : t - WindowSize < s /\ s <= t}
In(times, t) == Cardinality({i \in DOMAIN times : times[i] \in Window(t)})

(* In no span as long as a window does a client get more than twice the    *)
(* limit, removals of its entry included, but for the requests that were   *)
(* on an entry as it was removed (CheckLimit against cleanupStaleClients). *)
ClientBudget ==
  \A c \in Clients : \A t \in Times : In(onTime[c], t) <= 2 * RequestsPerMin

(* Those are few: a request that finds its entry removed had looked it up  *)
(* before, so each request in flight is one of them once.                  *)
LateAreFew == \A e \in Entries : late[e] <= Cardinality(Requests)

(* Who is turned away has used up the limit within the last window.        *)
DeniedMeansSpent ==
  [][\A r \in Requests :
       Check(r) /\ admitted' = admitted =>
         In(admitted[owner[held[r]]], now) >= RequestsPerMin]_vars

(* An entry is deleted when its window is over, or has counted nobody but  *)
(* a late request since it was looked at: nobody's requests are forgotten  *)
(* because the entry looked idle (cleanupStaleClients).                    *)
NothingForgotten ==
  [][\A c \in Clients : clients[c] # NoEntry /\ clients'[c] = NoEntry =>
       LET e == clients[c]
       IN  now >= windowStart[e] + WindowSize \/ late[e] > 0]_vars

(* A call of Stop ends the goroutine (the calls after it wait for ever).   *)
StopEnds == stopping > 0 ~> cleaner = "gone" /\ stopped > 0
=============================================================================
