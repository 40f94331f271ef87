----------------------------- MODULE RateLimiter -----------------------------
(***************************************************************************)
(* cli_serve.zig, RateLimiter: a token bucket per client, refilled lazily  *)
(* from a monotonic clock whenever the client asks, in a table that drops  *)
(* the client that asked longest ago.  Connection workers call tryAcquire  *)
(* concurrently: the clock is read first, and the mutex is taken after.    *)
(*                                                                         *)
(* Time is counted in quanta, TicksPerSecond of them to a second, and      *)
(* tokens in parts of a token so that one quantum refills Rps parts: the   *)
(* f64 arithmetic of the code is exact here.                               *)
(***************************************************************************)
EXTENDS Integers, FiniteSets

CONSTANTS
  Clients, Threads,
  NoClient,
  MaxClients,       \* rate_limit_max_clients
  Rps,              \* --rate-limit
  TicksPerSecond,
  MaxTime,          \* bound: how far the clock runs
  MaxCalls          \* bound: how many requests are decided

ASSUME LimiterAssumption ==
  /\ MaxClients \in Nat \ {0}
  /\ Rps \in Nat \ {0}
  /\ TicksPerSecond \in Nat \ {0}
  /\ MaxTime \in Nat
  /\ MaxCalls \in Nat
  /\ NoClient \notin Clients

VARIABLES
  clock,
  caller,    \* caller[t]: the client thread t asks for, or NoClient
  now,       \* now[t]: the thread's reading of the clock, while it asks
  buckets,   \* the table: client -> [tokens, lastTick, lastRefill]
  tick,
  ledger,    \* history, per client, since its bucket was made: see Ledgers
  before     \* history: <<c, d>>, both in the table: c asked last before d did

vars == <<clock, caller, now, buckets, tick, ledger, before>>

Token    == TicksPerSecond
Capacity == 2 * Rps * Token
Times    == 0 .. MaxTime

\* What is remembered of a client since its bucket was made: granted[n], how many
\* requests were granted at readings of the clock up to n; when the bucket was last
\* full, what was spent since, and the latest reading that was used since; and
\* whether a decision ever used an older reading than the one before it.
Ledgers == [granted : [Times -> 0 .. MaxCalls], full : Times, spent : 0 .. MaxCalls,
            latest : Times, slipped : {0, 1}]

Later(m, n) == IF n > m THEN n ELSE m

NoGrants == [n \in Times |-> 0]

\* The grants g, and k more at reading n.
Counted(g, n, k) == [m \in Times |-> IF m < n THEN g[m] ELSE g[m] + k]

\* Of the grants g, those at readings from .. to.
Between(g, from, to) == g[to] - (IF from = 0 THEN 0 ELSE g[from - 1])

Buckets == [tokens : 0 .. Capacity, lastTick : 0 .. MaxCalls, lastRefill : Times]

Known(c) == c \in DOMAIN buckets

Init ==
  /\ clock = 0
  /\ caller = [t \in Threads |-> NoClient]
  /\ now = [t \in Threads |-> 0]
  /\ buckets = [c \in {} |-> 0]
  /\ tick = 0
  /\ ledger = [c \in Clients |-> [granted |-> NoGrants, full |-> 0, spent |-> 0,
                                  latest |-> 0, slipped |-> 0]]
  /\ before = {}

ClockTick ==
  /\ clock < MaxTime
  /\ clock' = clock + 1
  /\ UNCHANGED <<caller, now, buckets, tick, ledger, before>>

\* tryAcquire reads the clock before it takes the mutex.
ReadClock(t, c) ==
  /\ caller[t] = NoClient
  /\ tick + Cardinality({u \in Threads : caller[u] # NoClient}) < MaxCalls
  /\ caller' = [caller EXCEPT ![t] = c]
  /\ now' = [now EXCEPT ![t] = clock]
  /\ UNCHANGED <<clock, buckets, tick, ledger, before>>

-----------------------------------------------------------------------------
(* tryAcquireAt, under the mutex.                                          *)

Answer(t) ==
  /\ caller[t] # NoClient
  /\ caller' = [caller EXCEPT ![t] = NoClient]
  /\ now' = [now EXCEPT ![t] = 0]
  /\ tick' = tick + 1
  /\ UNCHANGED clock

\* Fault: the time that passed is credited with its sign.
RefillSigned(b, n) ==
  LET sum == b.tokens + (n - b.lastRefill) * Rps
  IN  IF sum > Capacity THEN Capacity ELSE IF sum < 0 THEN 0 ELSE sum

\* Fault: a bucket may grow past its capacity.
RefillUncapped(b, n) == b.tokens + (IF n > b.lastRefill THEN n - b.lastRefill ELSE 0) * Rps

\* The tokens of bucket b at reading n: nothing is added for a reading in the past.
Refill(b, n) ==
  LET sum == b.tokens + (IF n > b.lastRefill THEN n - b.lastRefill ELSE 0) * Rps
  IN  IF sum > Capacity THEN Capacity ELSE sum

\* Fault: the stamp the eviction goes by is only set when the bucket is made.
TouchedOnce(b, n, left) == [tokens |-> left, lastTick |-> b.lastTick, lastRefill |-> n]

\* The bucket as the next request finds it.
Touched(b, n, left) == [tokens |-> left, lastTick |-> tick + 1, lastRefill |-> n]

\* getOrPut cannot grow the table: fail open.
FailOpen(t) ==
  /\ ~Known(caller[t])
  /\ Answer(t)
  /\ UNCHANGED <<buckets, ledger, before>>

\* maybeEvict: the entry with the smallest last_tick goes when there are too many.
Evict(table) ==
  IF Cardinality(DOMAIN table) <= MaxClients THEN table
  ELSE LET oldest == CHOOSE c \in DOMAIN table :
                       \A d \in DOMAIN table : table[c].lastTick <= table[d].lastTick
       IN  [c \in DOMAIN table \ {oldest} |-> table[c]]

\* Client c is the last one of the table that asked.
AskedLast(c) ==
  LET others == DOMAIN buckets' \ {c}
  IN  before' = (before \cap (others \X others)) \cup (others \X {c})

\* A new client starts with a full bucket, and is charged one token.
AdmitNew(t) ==
  LET c == caller[t]
      made == [tokens |-> Capacity - Token, lastTick |-> tick + 1, lastRefill |-> now[t]]
  IN  /\ ~Known(c)
      /\ Answer(t)
      /\ buckets' = Evict([d \in DOMAIN buckets \cup {c} |->
                             IF d = c THEN made ELSE buckets[d]])
      /\ ledger' = [ledger EXCEPT ![c] = [granted |-> Counted(NoGrants, now[t], 1),
                                          full |-> now[t], spent |-> 1,
                                          latest |-> now[t], slipped |-> 0]]
      /\ AskedLast(c)

\* A known client is refilled, and charged one token if it has one.
Decide(t) ==
  LET c == caller[t]
      b == buckets[c]
      tokens == Refill(b, now[t])
      ok == tokens >= Token
      charge == IF ok THEN 1 ELSE 0
      l == ledger[c]
      isFull == tokens >= Capacity
  IN  /\ Known(c)
      /\ Answer(t)
      /\ buckets' = [buckets EXCEPT ![c] = Touched(b, now[t], tokens - charge * Token)]
      /\ ledger' = [ledger EXCEPT ![c] =
                      [granted |-> Counted(l.granted, now[t], charge),
                       full    |-> IF isFull THEN now[t] ELSE l.full,
                       spent   |-> IF isFull THEN charge ELSE l.spent + charge,
                       latest  |-> IF isFull THEN now[t] ELSE Later(l.latest, now[t]),
                       slipped |-> IF now[t] < b.lastRefill THEN 1 ELSE l.slipped]]
      /\ AskedLast(c)

-----------------------------------------------------------------------------
\* The bounds are reached.
Quiet ==
  /\ clock = MaxTime
  /\ tick = MaxCalls
  /\ UNCHANGED vars

Next ==
  \/ ClockTick
  \/ \E t \in Threads, c \in Clients : ReadClock(t, c)
  \/ \E t \in Threads : FailOpen(t) \/ AdmitNew(t) \/ Decide(t)
  \/ Quiet

Spec == Init /\ [][Next]_vars

-----------------------------------------------------------------------------
(* Properties.                                                             *)

\* Every variable keeps its type; the table stays within its limit.
TypeOK ==
  /\ clock \in Times
  /\ caller \in [Threads -> Clients \cup {NoClient}]
  /\ now \in [Threads -> Times]
  /\ DOMAIN buckets \subseteq Clients
  /\ Cardinality(DOMAIN buckets) <= MaxClients
  /\ \A c \in DOMAIN buckets : buckets[c] \in Buckets
  /\ tick \in 0 .. MaxCalls
  /\ ledger \in [Clients -> Ledgers]
  /\ before \subseteq Clients \X Clients

\* Nobody is refused within the rate: what a bucket holds is never less than the
\* capacity, less what was spent since it was full, plus what the time from then
\* to the latest reading refills.  This is so whatever the order in which the
\* readings arrive: one from the past takes nothing away.
FairShare ==
  \A c \in DOMAIN buckets :
    buckets[c].tokens >=
      Capacity - ledger[c].spent * Token + (ledger[c].latest - ledger[c].full) * Rps

\* The documented rate: in no stretch of time is a client granted more than the
\* bucket holds plus what that stretch refills.
WithinRate(c) ==
  \A from, to \in Times : from <= to =>
    Between(ledger[c].granted, from, to) * Token <= Capacity + (to - from) * Rps

\* The documented rate holds for a client whose readings were used in order.
OrderedRate ==
  \A c \in DOMAIN buckets : ledger[c].slipped = 0 => WithinRate(c)

\* The documented rate, whatever the threads do: the code does not keep it, since
\* an older reading moves last_refill_ns back and its time is credited again.
DocumentedRate ==
  \A c \in DOMAIN buckets : WithinRate(c)

\* A client leaves the table only when the table is full, and then it is the one
\* that asked longest ago: nobody who keeps asking gets a fresh bucket.
EvictsLeastRecent ==
  [][\A c \in DOMAIN buckets \ DOMAIN buckets' :
       /\ Cardinality(DOMAIN buckets) = MaxClients
       /\ \A d \in DOMAIN buckets \ {c} : <<c, d>> \in before]_vars
=============================================================================
