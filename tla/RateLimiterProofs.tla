-------------------------- MODULE RateLimiterProofs --------------------------
(***************************************************************************)
(* RateLimiter refuses nobody within the rate, and grants nobody more than *)
(* it whose readings of the clock are used in order; it forgets only the   *)
(* client that asked longest ago.  For every number of clients and         *)
(* threads, every rate, every size of the table and every bound.           *)
(***************************************************************************)
EXTENDS RateLimiter, CollectionTheorems

USE LimiterAssumption

\* What FairShare needs to know of the types.
Numbers ==
  /\ clock \in Int
  /\ now \in [Threads -> Int]
  /\ caller \in [Threads -> Clients \cup {NoClient}]
  /\ DOMAIN buckets \subseteq Clients
  /\ \A c \in DOMAIN buckets : buckets[c].tokens \in Int /\ buckets[c].lastRefill \in Int
  /\ DOMAIN ledger = Clients
  /\ \A c \in Clients :
       ledger[c].spent \in Int /\ ledger[c].full \in Int /\ ledger[c].latest \in Int

\* The share of a client, given what is in its bucket and what is remembered.
Share(b, l) ==
  b.tokens >= Capacity - l.spent * Token + (l.latest - l.full) * Rps

\* The bucket's reading is one of those that are remembered.
InOrder(b, l) == b.lastRefill <= l.latest

\* Multiplication distributes over the difference of two readings.
LEMMA Distribute ==
  ASSUME NEW a \in Int, NEW b \in Int, NEW c \in Int, NEW k \in Int
  PROVE  (b - c) * k = (a - c) * k + (b - a) * k
OBVIOUS

\* More time does not refill less.
LEMMA Credit ==
  ASSUME NEW d \in Int
  PROVE  /\ d * Rps \in Int
         /\ d >= 0 => d * Rps >= 0
OBVIOUS

\* The capacity is a whole number of parts of a token.
LEMMA CapacityIsInt == Capacity \in Int /\ Token \in Int
BY DEF Capacity, Token

\* There is room for two tokens at least.
LEMMA CapacityIsPositive == Capacity \in Int /\ Token \in Int /\ Token > 0 /\ Capacity >= Token
<1>1. Rps * TicksPerSecond \in Int /\ Rps * TicksPerSecond >= TicksPerSecond
  OBVIOUS
<1> DEFINE x == Rps * TicksPerSecond
<1>2. Capacity = 2 * x
  BY DEF Capacity, Token
<1> HIDE DEF x
<1>3. x \in Int /\ x >= TicksPerSecond
  BY <1>1 DEF x
<1> QED BY <1>2, <1>3 DEF Token

\* A new bucket, charged one token, has its share.
LEMMA NewShare ==
  ASSUME NEW n \in Int, NEW b, NEW l,
         b.tokens = Capacity - Token, l.spent = 1, l.full = n, l.latest = n
  PROVE  Share(b, l)
<1>1. (n - n) * Rps = 0
  OBVIOUS
<1>2. 1 * Token = Token
  BY CapacityIsInt
<1> QED BY <1>1, <1>2, CapacityIsInt DEF Share

\* A refill gives a whole number of parts of a token.
LEMMA RefillIsInt ==
  ASSUME NEW b, NEW n \in Int, b.tokens \in Int, b.lastRefill \in Int
  PROVE  Refill(b, n) \in Int
<1> DEFINE d == IF n > b.lastRefill THEN n - b.lastRefill ELSE 0
           sum == b.tokens + d * Rps
<1>1. d \in Int
  OBVIOUS
<1>2. d * Rps \in Int
  BY <1>1, Credit
<1> HIDE DEF d
<1>3. sum \in Int
  BY <1>2
<1>4. Refill(b, n) = IF sum > Capacity THEN Capacity ELSE sum
  BY DEF Refill, d
<1> HIDE DEF sum
<1> QED BY <1>3, <1>4, CapacityIsInt

\* A refill never fills a bucket beyond its capacity.
LEMMA RefillCapped ==
  ASSUME NEW b, NEW n \in Int, b.tokens \in Int, b.lastRefill \in Int,
         Refill(b, n) >= Capacity
  PROVE  Refill(b, n) = Capacity
<1> DEFINE d == IF n > b.lastRefill THEN n - b.lastRefill ELSE 0
           sum == b.tokens + d * Rps
<1>1. d \in Int
  OBVIOUS
<1>2. d * Rps \in Int
  BY <1>1, Credit
<1> HIDE DEF d
<1>3. sum \in Int
  BY <1>2
<1>4. Refill(b, n) = IF sum > Capacity THEN Capacity ELSE sum
  BY DEF Refill, d
<1> HIDE DEF sum
<1> QED BY <1>3, <1>4, CapacityIsInt

\* A bucket that is not full after a refill was credited at least the time that
\* passed since the latest reading: nothing, for a reading in the past.
LEMMA RefillCredits ==
  ASSUME NEW b, NEW n \in Int, NEW m \in Int, b.tokens \in Int, b.lastRefill \in Int,
         b.lastRefill <= m, ~(Refill(b, n) >= Capacity)
  PROVE  Refill(b, n) >= b.tokens + (Later(m, n) - m) * Rps
<1> DEFINE d == IF n > b.lastRefill THEN n - b.lastRefill ELSE 0
           e == Later(m, n) - m
           sum == b.tokens + d * Rps
<1>1. d \in Int /\ e \in Int
  BY DEF Later
<1>2. d * Rps \in Int /\ e * Rps \in Int
  <2> HIDE DEF d, e
  <2> QED BY <1>1, Credit
<1>3. e * Rps <= d * Rps
  <2>1. CASE n > m
    <3>1. d = n - b.lastRefill /\ e = n - m
      BY <2>1 DEF Later
    <3>2. (n - b.lastRefill) * Rps = (m - b.lastRefill) * Rps + (n - m) * Rps
      BY Distribute
    <3>3. (m - b.lastRefill) * Rps \in Int /\ (m - b.lastRefill) * Rps >= 0
      <4>1. m - b.lastRefill \in Int /\ m - b.lastRefill >= 0
        OBVIOUS
      <4> QED BY <4>1, Credit
    <3> HIDE DEF d, e
    <3> QED BY <3>1, <3>2, <3>3, <1>2
  <2>2. CASE ~(n > m)
    <3>1. e = 0 /\ d >= 0
      BY <2>2 DEF Later
    <3> HIDE DEF d, e
    <3>2. e * Rps = 0 /\ d * Rps >= 0
      BY <3>1, <1>1, Credit
    <3> QED BY <3>2, <1>2
  <2> QED BY <2>1, <2>2
<1>4. Refill(b, n) = IF sum > Capacity THEN Capacity ELSE sum
  BY DEF Refill
<1> HIDE DEF d, e
<1>5. sum \in Int
  BY <1>2
<1>6. Refill(b, n) = sum
  <2> HIDE DEF sum
  <2> QED BY <1>4, <1>5, CapacityIsInt
<1>7. Refill(b, n) >= b.tokens + e * Rps
  BY <1>2, <1>3, <1>6
<1> QED BY <1>7 DEF e

\* The bucket of a decided request, and what is then remembered of the client.
Spent(b, n, charge) == [tokens |-> Refill(b, n) - charge * Token, lastRefill |-> n]
Remember(b, l, n, charge) ==
  [full |-> IF Refill(b, n) >= Capacity THEN n ELSE l.full,
   spent |-> IF Refill(b, n) >= Capacity THEN charge ELSE l.spent + charge,
   latest |-> IF Refill(b, n) >= Capacity THEN n ELSE Later(l.latest, n)]

\* A bucket that had its share has it after a refill and a charge, whatever the
\* reading that is used.
LEMMA RefillKeepsShare ==
  ASSUME NEW b, NEW l, NEW n \in Int, NEW charge \in {0, 1},
         b.tokens \in Int, b.lastRefill \in Int, l.spent \in Int, l.full \in Int,
         l.latest \in Int, Share(b, l), InOrder(b, l)
  PROVE  Share(Spent(b, n, charge), Remember(b, l, n, charge))
<1> DEFINE r == Refill(b, n)
           s == Spent(b, n, charge)
           m == Remember(b, l, n, charge)
<1>1. r \in Int
  BY RefillIsInt
<1>2. charge * Token \in Int /\ l.spent * Token \in Int
  BY CapacityIsInt
<1>3. s.tokens = r - charge * Token
  BY DEF Spent
<1>4. CASE r >= Capacity
  <2>1. r = Capacity
    BY <1>4, RefillCapped
  <2>2. m.full = n /\ m.spent = charge /\ m.latest = n
    BY <1>4 DEF Remember
  <2>3. (n - n) * Rps = 0
    OBVIOUS
  <2> HIDE DEF r, s, m
  <2>4. s.tokens = Capacity - m.spent * Token + (m.latest - m.full) * Rps
    BY <1>2, <1>3, <2>1, <2>2, <2>3, CapacityIsInt
  <2>5. s.tokens \in Int
    BY <1>1, <1>2, <1>3
  <2>6. Share(s, m)
    BY <2>4, <2>5 DEF Share
  <2> QED BY <2>6 DEF s, m
<1>5. CASE ~(r >= Capacity)
  <2> DEFINE k == Later(l.latest, n)
  <2>0. k \in Int
    BY DEF Later
  <2>1. m.full = l.full /\ m.spent = l.spent + charge /\ m.latest = k
    BY <1>5 DEF Remember
  <2>2. r >= b.tokens + (k - l.latest) * Rps
    BY <1>5, RefillCredits DEF InOrder
  <2> HIDE DEF k
  <2>3. (k - l.full) * Rps = (l.latest - l.full) * Rps + (k - l.latest) * Rps
    BY <2>0, Distribute
  <2>4. (l.spent + charge) * Token = l.spent * Token + charge * Token
    BY CapacityIsInt
  <2>5. b.tokens >= Capacity - l.spent * Token + (l.latest - l.full) * Rps
    BY DEF Share
  <2>6. (l.latest - l.full) * Rps \in Int /\ (k - l.latest) * Rps \in Int
    BY <2>0, Credit
  <2> HIDE DEF r
  <2>7. r - charge * Token >=
          Capacity - (l.spent * Token + charge * Token)
            + ((l.latest - l.full) * Rps + (k - l.latest) * Rps)
    BY <1>1, <1>2, <2>2, <2>5, <2>6, CapacityIsInt
  <2> HIDE DEF s, m
  <2>8. s.tokens >= Capacity - m.spent * Token + (m.latest - m.full) * Rps
    BY <1>3, <2>1, <2>3, <2>4, <2>7
  <2>9. Share(s, m)
    BY <2>8 DEF Share
  <2> QED BY <2>9 DEF s, m
<1> QED BY <1>4, <1>5

\* The buckets that are left after an eviction are as they were before it.
LEMMA EvictKeeps ==
  ASSUME NEW table
  PROVE  /\ DOMAIN Evict(table) \subseteq DOMAIN table
         /\ \A c \in DOMAIN Evict(table) : Evict(table)[c] = table[c]
BY DEF Evict

-----------------------------------------------------------------------------
\* The inductive invariant: FairShare, over numbers, and no bucket is ahead of
\* the latest reading that is remembered of its client.
FairInv ==
  /\ Numbers
  /\ FairShare
  /\ \A c \in DOMAIN buckets : InOrder(buckets[c], ledger[c])

\* FairShare, client by client.
LEMMA ShareByClient ==
  FairShare <=> \A c \in DOMAIN buckets : Share(buckets[c], ledger[c])
BY DEF FairShare, Share

\* FairShare after a step, client by client.
LEMMA ShareByClientNext ==
  FairShare' <=> \A c \in DOMAIN buckets' : Share(buckets'[c], ledger'[c])
BY DEF FairShare, Share, Capacity, Token

\* There is no bucket to begin with.
LEMMA InitFair == Init => FairInv
<1> SUFFICES ASSUME Init PROVE FairInv
  OBVIOUS
<1>1. DOMAIN buckets = {}
  BY DEF Init
<1>2. Numbers
  BY <1>1, NoClient \notin Clients DEF Init, Numbers
<1> QED BY <1>1, <1>2 DEF FairInv, FairShare

\* A step that leaves the table and the ledger alone disturbs nothing but the
\* numbers of the clock and the readings.
LEMMA TableKept ==
  ASSUME FairInv, UNCHANGED <<buckets, ledger>>, clock' \in Int,
         now' \in [Threads -> Int], caller' \in [Threads -> Clients \cup {NoClient}]
  PROVE  FairInv'
<1>1. Numbers'
  BY DEF FairInv, Numbers
<1>2. FairShare'
  BY ShareByClient, ShareByClientNext DEF FairInv
<1>3. \A c \in DOMAIN buckets' : InOrder(buckets'[c], ledger'[c])
  BY DEF FairInv
<1>4. (\A c \in DOMAIN buckets : InOrder(buckets[c], ledger[c]))'
  BY <1>3 DEF InOrder
<1> QED BY <1>1, <1>2, <1>4 DEF FairInv

\* An answer is given to a client, and keeps the numbers of clock and threads.
LEMMA AnswerNumbers ==
  ASSUME NEW t \in Threads, Numbers, Answer(t)
  PROVE  /\ caller[t] \in Clients
         /\ now[t] \in Int
         /\ clock' \in Int
         /\ now' \in [Threads -> Int]
         /\ caller' \in [Threads -> Clients \cup {NoClient}]
BY DEF Numbers, Answer

\* A new client gets its share; the others keep their buckets, or lose them.
LEMMA AdmitFair ==
  ASSUME NEW t \in Threads, FairInv, AdmitNew(t)
  PROVE  FairInv'
<1> DEFINE c == caller[t]
           made == [tokens |-> Capacity - Token, lastTick |-> tick + 1,
                    lastRefill |-> now[t]]
           table == [d \in DOMAIN buckets \cup {c} |-> IF d = c THEN made ELSE buckets[d]]
           line == [granted |-> Counted(NoGrants, now[t], 1), full |-> now[t],
                    spent |-> 1, latest |-> now[t], slipped |-> 0]
<1>1. Numbers /\ FairShare
  BY DEF FairInv
<1>2. /\ Answer(t)
      /\ buckets' = Evict(table)
      /\ ledger' = [ledger EXCEPT ![c] = line]
  BY DEF AdmitNew
<1>3. /\ c \in Clients /\ now[t] \in Int /\ clock' \in Int
      /\ now' \in [Threads -> Int]
      /\ caller' \in [Threads -> Clients \cup {NoClient}]
  BY <1>1, <1>2, AnswerNumbers
<1>4. /\ made.tokens = Capacity - Token /\ made.lastRefill = now[t]
      /\ line.spent = 1 /\ line.full = now[t] /\ line.latest = now[t]
  OBVIOUS
<1> HIDE DEF made, line
<1>5. ledger'[c] = line /\ \A d \in Clients \ {c} : ledger'[d] = ledger[d]
  BY <1>1, <1>2, <1>3 DEF Numbers
<1>6. DOMAIN ledger' = Clients
  BY <1>1, <1>2 DEF Numbers
<1>7. /\ DOMAIN table = DOMAIN buckets \cup {c}
      /\ table[c] = made
      /\ \A d \in DOMAIN buckets \ {c} : table[d] = buckets[d]
  OBVIOUS
<1> HIDE DEF table
<1>8. /\ DOMAIN buckets' \subseteq DOMAIN table
      /\ \A d \in DOMAIN buckets' : buckets'[d] = table[d]
  BY <1>2, EvictKeeps
<1>9. Share(made, line) /\ InOrder(made, line)
  BY <1>3, <1>4, NewShare DEF InOrder
<1>10. ASSUME NEW d \in DOMAIN buckets'
       PROVE  /\ d \in Clients
              /\ buckets'[d].tokens \in Int /\ buckets'[d].lastRefill \in Int
              /\ Share(buckets'[d], ledger'[d])
              /\ InOrder(buckets'[d], ledger'[d])
  <2>1. CASE d = c
    <3>1. buckets'[d] = made /\ ledger'[d] = line
      BY <2>1, <1>5, <1>7, <1>8
    <3>2. made.tokens \in Int /\ made.lastRefill \in Int
      BY <1>3, <1>4, CapacityIsInt
    <3> QED BY <2>1, <3>1, <3>2, <1>3, <1>9
  <2>2. CASE d # c
    <3>1. d \in DOMAIN buckets /\ d \in Clients
      BY <2>2, <1>1, <1>7, <1>8 DEF Numbers
    <3>2. buckets'[d] = buckets[d] /\ ledger'[d] = ledger[d]
      BY <2>2, <3>1, <1>5, <1>7, <1>8
    <3>3. Share(buckets[d], ledger[d]) /\ InOrder(buckets[d], ledger[d])
      BY <3>1, <1>1, ShareByClient DEF FairInv
    <3>4. buckets[d].tokens \in Int /\ buckets[d].lastRefill \in Int
      BY <3>1, <1>1 DEF Numbers
    <3> QED BY <3>1, <3>2, <3>3, <3>4
  <2> QED BY <2>1, <2>2
<1>11. \A d \in Clients : ledger'[d].spent \in Int /\ ledger'[d].full \in Int
                          /\ ledger'[d].latest \in Int
  <2> SUFFICES ASSUME NEW d \in Clients
               PROVE  ledger'[d].spent \in Int /\ ledger'[d].full \in Int
                      /\ ledger'[d].latest \in Int
    OBVIOUS
  <2>1. CASE d = c
    BY <2>1, <1>3, <1>4, <1>5
  <2>2. CASE d # c
    BY <2>2, <1>1, <1>5 DEF Numbers
  <2> QED BY <2>1, <2>2
<1>12. Numbers'
  BY <1>3, <1>6, <1>10, <1>11 DEF Numbers
<1>13. FairShare'
  BY <1>10, ShareByClientNext
<1>14. (\A d \in DOMAIN buckets : InOrder(buckets[d], ledger[d]))'
  BY <1>10 DEF InOrder
<1> QED BY <1>12, <1>13, <1>14 DEF FairInv

\* A known client keeps its share; nobody else is touched.
LEMMA DecideFair ==
  ASSUME NEW t \in Threads, FairInv, Decide(t)
  PROVE  FairInv'
<1> DEFINE c == caller[t]
           b == buckets[c]
           l == ledger[c]
           n == now[t]
           charge == IF Refill(b, n) >= Token THEN 1 ELSE 0
           left == Touched(b, n, Refill(b, n) - charge * Token)
           isFull == Refill(b, n) >= Capacity
           line == [granted |-> Counted(l.granted, n, charge),
                    full |-> IF isFull THEN n ELSE l.full,
                    spent |-> IF isFull THEN charge ELSE l.spent + charge,
                    latest |-> IF isFull THEN n ELSE Later(l.latest, n),
                    slipped |-> IF n < b.lastRefill THEN 1 ELSE l.slipped]
           s == Spent(b, n, charge)
           m == Remember(b, l, n, charge)
<1>1. Numbers /\ FairShare
  BY DEF FairInv
<1>2. /\ Answer(t)
      /\ c \in DOMAIN buckets
      /\ buckets' = [buckets EXCEPT ![c] = left]
      /\ ledger' = [ledger EXCEPT ![c] = line]
  BY DEF Decide, Known
<1>3. /\ c \in Clients /\ n \in Int /\ clock' \in Int
      /\ now' \in [Threads -> Int]
      /\ caller' \in [Threads -> Clients \cup {NoClient}]
  BY <1>1, <1>2, AnswerNumbers
<1>4. /\ b.tokens \in Int /\ b.lastRefill \in Int
      /\ l.spent \in Int /\ l.full \in Int /\ l.latest \in Int
  BY <1>1, <1>2, <1>3 DEF Numbers
<1>5. Share(b, l) /\ InOrder(b, l)
  BY <1>1, <1>2, ShareByClient DEF FairInv
<1>6. charge \in {0, 1}
  OBVIOUS
<1>7. /\ left.tokens = s.tokens /\ left.lastRefill = s.lastRefill
      /\ left.tokens = Refill(b, n) - charge * Token /\ left.lastRefill = n
  BY DEF Touched, Spent
<1>8. line.full = m.full /\ line.spent = m.spent /\ line.latest = m.latest
  BY DEF Remember
<1>9. /\ line.full \in Int /\ line.spent \in Int /\ line.latest \in Int
      /\ n <= line.latest
  BY <1>3, <1>4, <1>6 DEF Later
<1> HIDE DEF charge
<1>10. Share(s, m)
  BY <1>3, <1>4, <1>5, <1>6, RefillKeepsShare
<1>11. Refill(b, n) \in Int
  BY <1>3, <1>4, RefillIsInt
<1>12. left.tokens \in Int /\ left.lastRefill \in Int
  <2>1. charge * Token \in Int
    BY <1>6, CapacityIsInt
  <2> HIDE DEF left
  <2> QED BY <2>1, <1>3, <1>7, <1>11
<1> HIDE DEF left, line, s, m
<1>13. Share(left, line) /\ InOrder(left, line)
  BY <1>7, <1>8, <1>9, <1>10 DEF Share, InOrder
<1>14. /\ DOMAIN buckets' = DOMAIN buckets /\ buckets'[c] = left
       /\ \A d \in DOMAIN buckets \ {c} : buckets'[d] = buckets[d]
  BY <1>2
<1>15. /\ DOMAIN ledger' = Clients /\ ledger'[c] = line
       /\ \A d \in Clients \ {c} : ledger'[d] = ledger[d]
  BY <1>1, <1>2, <1>3 DEF Numbers
<1>16. ASSUME NEW d \in DOMAIN buckets'
       PROVE  /\ d \in Clients
              /\ buckets'[d].tokens \in Int /\ buckets'[d].lastRefill \in Int
              /\ Share(buckets'[d], ledger'[d])
              /\ InOrder(buckets'[d], ledger'[d])
  <2>1. CASE d = c
    BY <2>1, <1>3, <1>12, <1>13, <1>14, <1>15
  <2>2. CASE d # c
    <3>1. d \in DOMAIN buckets /\ d \in Clients
      BY <1>1, <1>14 DEF Numbers
    <3>2. buckets'[d] = buckets[d] /\ ledger'[d] = ledger[d]
      BY <2>2, <3>1, <1>14, <1>15
    <3>3. Share(buckets[d], ledger[d]) /\ InOrder(buckets[d], ledger[d])
      BY <3>1, <1>1, ShareByClient DEF FairInv
    <3>4. buckets[d].tokens \in Int /\ buckets[d].lastRefill \in Int
      BY <3>1, <1>1 DEF Numbers
    <3> QED BY <3>1, <3>2, <3>3, <3>4
  <2> QED BY <2>1, <2>2
<1>17. \A d \in Clients : ledger'[d].spent \in Int /\ ledger'[d].full \in Int
                          /\ ledger'[d].latest \in Int
  BY <1>1, <1>9, <1>15 DEF Numbers
<1>18. Numbers'
  BY <1>3, <1>15, <1>16, <1>17 DEF Numbers
<1>19. FairShare'
  BY <1>16, ShareByClientNext
<1>20. (\A d \in DOMAIN buckets : InOrder(buckets[d], ledger[d]))'
  BY <1>16 DEF InOrder
<1> QED BY <1>18, <1>19, <1>20 DEF FairInv

\* No step takes a client below its share.
LEMMA StepFair == FairInv /\ [Next]_vars => FairInv'
<1> SUFFICES ASSUME FairInv, [Next]_vars PROVE FairInv'
  OBVIOUS
<1>0. /\ clock \in Int /\ now \in [Threads -> Int]
      /\ caller \in [Threads -> Clients \cup {NoClient}]
  BY DEF FairInv, Numbers
<1>1. CASE ClockTick
  <2>1. clock' \in Int /\ UNCHANGED <<buckets, ledger>> /\ UNCHANGED <<now, caller>>
    BY <1>0, <1>1 DEF ClockTick
  <2> QED BY <1>0, <2>1, TableKept
<1>2. CASE \E t \in Threads, c \in Clients : ReadClock(t, c)
  <2>1. PICK t \in Threads, c \in Clients : ReadClock(t, c)
    BY <1>2
  <2>2. /\ UNCHANGED <<buckets, ledger>> /\ clock' \in Int
        /\ now' = [now EXCEPT ![t] = clock] /\ caller' = [caller EXCEPT ![t] = c]
    BY <1>0, <2>1 DEF ReadClock
  <2>3. now' \in [Threads -> Int] /\ caller' \in [Threads -> Clients \cup {NoClient}]
    BY <1>0, <2>2
  <2> QED BY <2>2, <2>3, TableKept
<1>3. CASE \E t \in Threads : FailOpen(t) \/ AdmitNew(t) \/ Decide(t)
  <2>1. PICK t \in Threads : FailOpen(t) \/ AdmitNew(t) \/ Decide(t)
    BY <1>3
  <2>2. CASE FailOpen(t)
    <3>1. Answer(t) /\ UNCHANGED <<buckets, ledger>>
      BY <2>2 DEF FailOpen
    <3>2. /\ clock' \in Int /\ now' \in [Threads -> Int]
          /\ caller' \in [Threads -> Clients \cup {NoClient}]
      BY <3>1, AnswerNumbers DEF FairInv
    <3> QED BY <3>1, <3>2, TableKept
  <2> QED BY <2>1, <2>2, AdmitFair, DecideFair
<1>4. CASE Quiet \/ UNCHANGED vars
  <2>1. UNCHANGED vars
    BY <1>4 DEF Quiet
  <2>2. /\ UNCHANGED <<buckets, ledger>>
        /\ UNCHANGED <<clock, now, caller>>
    BY <2>1 DEF vars
  <2> QED BY <1>0, <2>2, TableKept
<1> QED BY <1>1, <1>2, <1>3, <1>4 DEF Next

\* Nobody is refused within the rate, whatever the order in which the readings
\* of the clock reach the table.
THEOREM FairShareCorrect == Spec => []FairShare
<1>1. FairInv => FairShare
  BY DEF FairInv
<1> QED BY InitFair, StepFair, <1>1, PTL DEF Spec

-----------------------------------------------------------------------------
(* The documented rate.                                                    *)

\* No grant was counted at a reading behind the bucket's.
Flat(b, g) == \A m \in Times : m >= b.lastRefill => g[m] = g[b.lastRefill]

\* What is left in the bucket, and what was granted up to its reading, came out of
\* a full bucket and what the time refilled.
Owed(b, g) ==
  \A from \in Times : from <= b.lastRefill =>
    b.tokens + Between(g, from, b.lastRefill) * Token
      <= Capacity + (b.lastRefill - from) * Rps

\* No stretch of time has more grants than the documented rate allows.
Rated(g) ==
  \A from, to \in Times : from <= to =>
    Between(g, from, to) * Token <= Capacity + (to - from) * Rps

\* A bucket and what is remembered of its client: nothing is lent, and as long as
\* the readings come in order, the grants are accounted for.
Metered(b, l) ==
  /\ b.tokens \in Int /\ b.tokens >= 0
  /\ b.lastRefill \in Times
  /\ l.granted \in [Times -> Int]
  /\ l.slipped = 0 => Flat(b, l.granted) /\ Owed(b, l.granted) /\ Rated(l.granted)

\* The readings of the clock are numbers.
LEMMA TimesAreInts == Times \subseteq Int /\ \A n \in Times : n >= 0 /\ n <= MaxTime
BY DEF Times

\* What was granted in a stretch of time is a number.
LEMMA BetweenIsInt ==
  ASSUME NEW g \in [Times -> Int], NEW from \in Times, NEW to \in Times
  PROVE  Between(g, from, to) \in Int
BY DEF Between, Times

\* Another k grants at a reading behind the bucket's count in every stretch that
\* reaches it, and in no other.
LEMMA BetweenCounted ==
  ASSUME NEW g \in [Times -> Int], NEW n \in Times, NEW k \in Int,
         NEW from \in Times, NEW to \in Times, from <= to
  PROVE  /\ Counted(g, n, k) \in [Times -> Int]
         /\ to < n => Between(Counted(g, n, k), from, to) = Between(g, from, to)
         /\ from <= n /\ n <= to =>
              Between(Counted(g, n, k), from, to) = Between(g, from, to) + k
         /\ n < from => Between(Counted(g, n, k), from, to) = Between(g, from, to)
<1> DEFINE h == Counted(g, n, k)
<1>0. from \in Int /\ to \in Int /\ n \in Int /\ from >= 0 /\ n >= 0
  BY TimesAreInts
<1>1. /\ h \in [Times -> Int]
      /\ \A m \in Times : h[m] = IF m < n THEN g[m] ELSE g[m] + k
  BY DEF Counted
<1>2. from # 0 => from - 1 \in Times
  BY DEF Times
<1> HIDE DEF h
<1>3. /\ h[to] = IF to < n THEN g[to] ELSE g[to] + k
      /\ from # 0 => h[from - 1] = IF from - 1 < n THEN g[from - 1] ELSE g[from - 1] + k
      /\ g[to] \in Int /\ (from # 0 => g[from - 1] \in Int)
  BY <1>1, <1>2
<1>4. /\ to < n => Between(h, from, to) = Between(g, from, to)
      /\ from <= n /\ n <= to => Between(h, from, to) = Between(g, from, to) + k
      /\ n < from => Between(h, from, to) = Between(g, from, to)
  <2>1. CASE from = 0
    BY <1>0, <1>3, <2>1 DEF Between
  <2>2. CASE from # 0
    <3>1. /\ Between(h, from, to) = h[to] - h[from - 1]
          /\ Between(g, from, to) = g[to] - g[from - 1]
      BY <2>2 DEF Between
    <3>2. g[to] \in Int /\ g[from - 1] \in Int
      BY <1>3, <2>2
    <3>3. to < n => h[to] = g[to] /\ h[from - 1] = g[from - 1]
      BY <1>0, <1>3, <2>2
    <3>4. from <= n /\ n <= to => h[to] = g[to] + k /\ h[from - 1] = g[from - 1]
      BY <1>0, <1>3, <2>2
    <3>5. n < from => h[to] = g[to] + k /\ h[from - 1] = g[from - 1] + k
      BY <1>0, <1>3, <2>2
    <3> QED BY <3>1, <3>2, <3>3, <3>4, <3>5
  <2> QED BY <2>1, <2>2
<1> QED BY <1>1, <1>4 DEF h

\* A stretch that ends with the counted reading has all of them.
LEMMA CountedLast ==
  ASSUME NEW g \in [Times -> Int], NEW n \in Times, NEW k \in Int,
         NEW from \in Times, from <= n
  PROVE  Between(Counted(g, n, k), from, n) = Between(g, from, n) + k
<1>1. n <= n
  BY TimesAreInts
<1> QED BY <1>1, BetweenCounted

\* The refill of a reading that is not in the past: no more than the time since the
\* last one, never more than the capacity, and never less than there was.
LEMMA RefillBounds ==
  ASSUME NEW b, NEW n \in Int, b.tokens \in Int, b.tokens >= 0, b.lastRefill \in Int
  PROVE  /\ Refill(b, n) \in Int
         /\ Refill(b, n) >= 0
         /\ Refill(b, n) <= Capacity
         /\ n >= b.lastRefill => Refill(b, n) <= b.tokens + (n - b.lastRefill) * Rps
<1> DEFINE d == IF n > b.lastRefill THEN n - b.lastRefill ELSE 0
           sum == b.tokens + d * Rps
<1>1. d \in Int /\ d >= 0
  OBVIOUS
<1>2. d * Rps \in Int /\ d * Rps >= 0
  <2> HIDE DEF d
  <2> QED BY <1>1, Credit
<1>3. n >= b.lastRefill => d = n - b.lastRefill
  OBVIOUS
<1>4. Refill(b, n) = IF sum > Capacity THEN Capacity ELSE sum
  BY DEF Refill
<1> HIDE DEF d
<1>5. sum \in Int /\ sum >= 0
  BY <1>2
<1>6. n >= b.lastRefill => sum = b.tokens + (n - b.lastRefill) * Rps
  BY <1>3
<1>7. Capacity \in Int /\ Capacity >= 0
  BY CapacityIsPositive
<1> HIDE DEF sum
<1> QED BY <1>4, <1>5, <1>6, <1>7

\* A new bucket, charged one token for the grant that made it.
LEMMA NewMetered ==
  ASSUME NEW n \in Times, NEW b, NEW l,
         b.tokens = Capacity - Token, b.lastRefill = n, l.granted = Counted(NoGrants, n, 1)
  PROVE  Metered(b, l)
<1> DEFINE g == Counted(NoGrants, n, 1)
<1>1. NoGrants \in [Times -> Int] /\ \A m \in Times : NoGrants[m] = 0
  BY DEF NoGrants
<1>2. g \in [Times -> Int] /\ \A m \in Times : g[m] = IF m < n THEN 0 ELSE 1
  BY <1>1 DEF Counted
<1>3. \A from, to \in Times : from <= to => Between(g, from, to) \in {0, 1}
  <2> SUFFICES ASSUME NEW from \in Times, NEW to \in Times, from <= to
               PROVE  Between(g, from, to) \in {0, 1}
    OBVIOUS
  <2>1. from # 0 => from - 1 \in Times /\ from - 1 <= to
    BY DEF Times
  <2>2. from # 0 => g[from - 1] <= g[to] /\ g[from - 1] \in {0, 1}
    <3> HIDE DEF g
    <3> QED BY <1>2, <2>1, TimesAreInts
  <2>3. g[to] \in {0, 1}
    <3> HIDE DEF g
    <3> QED BY <1>2
  <2> HIDE DEF g
  <2> QED BY <2>2, <2>3 DEF Between
<1>4. Capacity \in Int /\ Token \in Int /\ Token > 0 /\ Capacity >= Token
  BY CapacityIsPositive
<1> HIDE DEF g
<1>5. \A from, to \in Times : from <= to =>
        /\ (to - from) * Rps \in Int /\ (to - from) * Rps >= 0
        /\ Between(g, from, to) * Token \in {0, Token}
  <2> SUFFICES ASSUME NEW from \in Times, NEW to \in Times, from <= to
               PROVE  /\ (to - from) * Rps \in Int /\ (to - from) * Rps >= 0
                      /\ Between(g, from, to) * Token \in {0, Token}
    OBVIOUS
  <2>1. to - from \in Int /\ to - from >= 0
    BY TimesAreInts
  <2>2. Between(g, from, to) \in {0, 1}
    BY <1>3
  <2>3. 0 * Token = 0 /\ 1 * Token = Token
    BY <1>4
  <2> QED BY <2>1, <2>2, <2>3, Credit
<1>6. b.tokens \in Int /\ b.tokens >= 0
  BY <1>4
<1>7. Flat(b, g)
  BY <1>2, TimesAreInts DEF Flat
<1>8. Owed(b, g)
  BY <1>4, <1>5 DEF Owed
<1>9. Rated(g)
  BY <1>4, <1>5 DEF Rated
<1> QED BY <1>2, <1>6, <1>7, <1>8, <1>9 DEF Metered, g

\* One more, or no more, grants at the reading of a refill that is not in the past:
\* what is left in the bucket pays for it.
LEMMA RefillMetered ==
  ASSUME NEW b, NEW l, NEW n \in Times, NEW charge \in {0, 1}, NEW c, NEW m,
         Metered(b, l), charge = 1 => Refill(b, n) >= Token,
         c.tokens = Refill(b, n) - charge * Token, c.lastRefill = n,
         m.granted = Counted(l.granted, n, charge),
         m.slipped = IF n < b.lastRefill THEN 1 ELSE l.slipped
  PROVE  Metered(c, m)
<1> DEFINE g == l.granted
           h == Counted(g, n, charge)
           L == b.lastRefill
           r == Refill(b, n)
           cost == charge * Token
<1>1. /\ b.tokens \in Int /\ b.tokens >= 0 /\ L \in Times /\ g \in [Times -> Int]
      /\ l.slipped = 0 => Flat(b, g) /\ Owed(b, g) /\ Rated(g)
  BY DEF Metered
<1>2. Capacity \in Int /\ Token \in Int /\ Token > 0 /\ Capacity >= Token
  BY CapacityIsPositive
<1>3. cost \in Int /\ cost >= 0 /\ (charge = 1 => cost = Token) /\ (charge = 0 => cost = 0)
  BY <1>2
<1>4. n \in Int /\ L \in Int
  BY <1>1, TimesAreInts
<1>5. /\ r \in Int /\ r >= 0 /\ r <= Capacity
      /\ n >= L => r <= b.tokens + (n - L) * Rps
  BY <1>1, <1>4, RefillBounds
<1>6. h \in [Times -> Int]
  BY <1>1 DEF Counted
<1>7. r - cost \in Int /\ r - cost >= 0
  <2> HIDE DEF r, cost
  <2> QED BY <1>2, <1>3, <1>5 DEF r
<1> SUFFICES ASSUME m.slipped = 0 PROVE Flat(c, h) /\ Owed(c, h) /\ Rated(h)
  BY <1>6, <1>7 DEF Metered
<1>8. n >= L /\ Flat(b, g) /\ Owed(b, g) /\ Rated(g)
  BY <1>1, <1>4
<1> HIDE DEF h, r, cost
<1>9. Flat(c, h)
  <2>1. \A k \in Times : h[k] = IF k < n THEN g[k] ELSE g[k] + charge
    BY <1>1 DEF h, Counted
  <2>2. \A k \in Times : k >= n => g[k] = g[L] /\ g[n] = g[L]
    BY <1>4, <1>8, TimesAreInts DEF Flat
  <2> QED BY <1>1, <1>4, <2>1, <2>2, TimesAreInts DEF Flat
<1>10. ASSUME NEW from \in Times, from <= n
       PROVE  /\ Between(h, from, n) \in Int
              /\ (r - cost) + Between(h, from, n) * Token <= Capacity + (n - from) * Rps
              /\ (n - from) * Rps \in Int /\ (n - from) * Rps >= 0
  <2>1. from \in Int /\ n - from \in Int /\ n - from >= 0
    BY <1>4, <1>10, TimesAreInts
  <2>2. (n - from) * Rps \in Int /\ (n - from) * Rps >= 0
    BY <2>1, Credit
  <2>3. /\ Between(h, from, n) = Between(g, from, n) + charge
        /\ Between(g, from, n) \in Int
    <3>1. charge \in Int /\ g \in [Times -> Int]
      BY <1>1
    <3> HIDE DEF g
    <3>2. Between(Counted(g, n, charge), from, n) = Between(g, from, n) + charge
      BY <1>10, <3>1, CountedLast
    <3> QED BY <3>1, <3>2, BetweenIsInt DEF h
  <2>4. CASE from <= L
    <3> DEFINE x == Between(g, from, L)
    <3>1. g[n] = g[L]
      BY <1>8 DEF Flat
    <3>2. Between(g, from, n) = x
      BY <3>1 DEF Between
    <3>3. x \in Int
      BY <1>1, BetweenIsInt
    <3>4. b.tokens + x * Token <= Capacity + (L - from) * Rps
      BY <1>8, <2>4 DEF Owed
    <3>5. (n - from) * Rps = (L - from) * Rps + (n - L) * Rps
      BY <1>4, <2>1, Distribute
    <3>6. (L - from) * Rps \in Int /\ (n - L) * Rps \in Int
      BY <1>4, <2>1, Credit
    <3> HIDE DEF x
    <3>7. (x + charge) * Token = x * Token + cost /\ x * Token \in Int
      BY <1>2, <3>3 DEF cost
    <3>8. (r - cost) + (x * Token + cost) <= Capacity + ((L - from) * Rps + (n - L) * Rps)
      BY <1>1, <1>2, <1>3, <1>5, <1>8, <3>4, <3>6, <3>7
    <3> QED BY <2>2, <2>3, <3>2, <3>3, <3>5, <3>7, <3>8
  <2>5. CASE ~ (from <= L)
    <3>0. L >= 0 /\ L <= MaxTime /\ from <= MaxTime
      BY <1>1, TimesAreInts
    <3>1. from # 0 /\ from - 1 \in Times /\ from - 1 >= L
      <4> HIDE DEF L
      <4> QED BY <1>4, <2>1, <2>5, <3>0 DEF Times
    <3>2. g[n] = g[L] /\ g[from - 1] = g[L] /\ g[L] \in Int
      BY <1>1, <1>8, <3>1 DEF Flat
    <3>3. Between(h, from, n) = charge
      BY <2>3, <3>1, <3>2 DEF Between
    <3> QED BY <1>2, <1>3, <1>5, <2>2, <3>3 DEF cost
  <2> QED BY <2>4, <2>5
<1>11. Owed(c, h)
  BY <1>7, <1>10 DEF Owed, r, cost
<1>12. Rated(h)
  <2> SUFFICES ASSUME NEW from \in Times, NEW to \in Times, from <= to
               PROVE  Between(h, from, to) * Token <= Capacity + (to - from) * Rps
    BY DEF Rated
  <2>0. from \in Int /\ to \in Int /\ to - from \in Int /\ to - from >= 0
    BY TimesAreInts
  <2>1. Between(g, from, to) * Token <= Capacity + (to - from) * Rps
    BY <1>8 DEF Rated
  <2>2. CASE to < n \/ n < from
    <3> HIDE DEF g
    <3>1. charge \in Int
      OBVIOUS
    <3>2. /\ to < n => Between(Counted(g, n, charge), from, to) = Between(g, from, to)
          /\ n < from => Between(Counted(g, n, charge), from, to) = Between(g, from, to)
      BY <1>1, <3>1, BetweenCounted
    <3> QED BY <2>1, <2>2, <3>2 DEF h
  <2>3. CASE from <= n /\ n <= to
    <3>1. h[to] = h[n]
      BY <1>9, <2>3 DEF Flat
    <3>2. Between(h, from, to) = Between(h, from, n)
      BY <3>1 DEF Between
    <3>3. /\ (r - cost) + Between(h, from, n) * Token <= Capacity + (n - from) * Rps
          /\ (n - from) * Rps \in Int /\ Between(h, from, n) \in Int
      BY <1>10, <2>3
    <3>4. Between(h, from, n) * Token \in Int
      BY <1>2, <3>3
    <3>5. (to - from) * Rps = (n - from) * Rps + (to - n) * Rps
      BY <1>4, <2>0, Distribute
    <3>6. (to - n) * Rps \in Int /\ (to - n) * Rps >= 0
      <4>1. to - n \in Int /\ to - n >= 0
        BY <1>4, <2>0, <2>3
      <4> QED BY <4>1, Credit
    <3>7. Between(h, from, n) * Token <= Capacity + ((n - from) * Rps + (to - n) * Rps)
      BY <1>2, <1>7, <3>3, <3>4, <3>6
    <3> QED BY <3>2, <3>5, <3>7
  <2> QED BY <1>4, <2>0, <2>2, <2>3
<1> QED BY <1>9, <1>11, <1>12

\* Every reading is a time, and every bucket is metered.
RateInv ==
  /\ clock \in Times
  /\ now \in [Threads -> Times]
  /\ \A c \in DOMAIN buckets : Metered(buckets[c], ledger[c])

\* The readings of a step that leaves the table and the ledger alone.
LEMMA MetersKept ==
  ASSUME RateInv, UNCHANGED <<buckets, ledger>>, clock' \in Times, now' \in [Threads -> Times]
  PROVE  RateInv'
<1>1. \A c \in DOMAIN buckets' : Metered(buckets'[c], ledger'[c])
  BY DEF RateInv
<1>2. (\A c \in DOMAIN buckets : Metered(buckets[c], ledger[c]))'
  BY <1>1 DEF Metered, Flat, Owed, Rated, Between, Times, Token, Capacity
<1> QED BY <1>2 DEF RateInv, Times

\* Metered after a step, client by client.
LEMMA MeteredNext ==
  ASSUME clock' \in Times, now' \in [Threads -> Times],
         \A c \in DOMAIN buckets' : Metered(buckets'[c], ledger'[c])
  PROVE  RateInv'
<1>1. (\A c \in DOMAIN buckets : Metered(buckets[c], ledger[c]))'
  BY DEF Metered, Flat, Owed, Rated, Between, Times, Token, Capacity
<1> QED BY <1>1 DEF RateInv, Times

\* An answer keeps the clock, and sets the thread's reading back.
LEMMA AnswerTimes ==
  ASSUME NEW t \in Threads, RateInv, Answer(t)
  PROVE  now[t] \in Times /\ clock' \in Times /\ now' \in [Threads -> Times]
<1>1. 0 \in Times
  BY DEF Times
<1> QED BY <1>1 DEF RateInv, Answer

\* A new bucket is metered; the others are kept, or lost.
LEMMA AdmitRate ==
  ASSUME NEW t \in Threads, FairInv, RateInv, AdmitNew(t)
  PROVE  RateInv'
<1> DEFINE c == caller[t]
           made == [tokens |-> Capacity - Token, lastTick |-> tick + 1,
                    lastRefill |-> now[t]]
           table == [d \in DOMAIN buckets \cup {c} |-> IF d = c THEN made ELSE buckets[d]]
           line == [granted |-> Counted(NoGrants, now[t], 1), full |-> now[t],
                    spent |-> 1, latest |-> now[t], slipped |-> 0]
<1>1. /\ Answer(t)
      /\ buckets' = Evict(table)
      /\ ledger' = [ledger EXCEPT ![c] = line]
  BY DEF AdmitNew
<1>2. now[t] \in Times /\ clock' \in Times /\ now' \in [Threads -> Times]
  BY <1>1, AnswerTimes
<1>3. c \in Clients /\ DOMAIN ledger = Clients /\ DOMAIN buckets \subseteq Clients
  BY <1>1, AnswerNumbers DEF FairInv, Numbers
<1>4. Metered(made, line)
  <2>1. /\ made.tokens = Capacity - Token /\ made.lastRefill = now[t]
        /\ line.granted = Counted(NoGrants, now[t], 1)
    OBVIOUS
  <2> HIDE DEF made, line
  <2> QED BY <1>2, <2>1, NewMetered
<1> HIDE DEF made, line
<1>5. ledger'[c] = line /\ \A d \in Clients \ {c} : ledger'[d] = ledger[d]
  BY <1>1, <1>3
<1>6. /\ DOMAIN table = DOMAIN buckets \cup {c}
      /\ table[c] = made
      /\ \A d \in DOMAIN buckets \ {c} : table[d] = buckets[d]
  OBVIOUS
<1> HIDE DEF table
<1>7. /\ DOMAIN buckets' \subseteq DOMAIN table
      /\ \A d \in DOMAIN buckets' : buckets'[d] = table[d]
  BY <1>1, EvictKeeps
<1>8. \A d \in DOMAIN buckets' : Metered(buckets'[d], ledger'[d])
  <2> SUFFICES ASSUME NEW d \in DOMAIN buckets'
               PROVE  Metered(buckets'[d], ledger'[d])
    OBVIOUS
  <2>1. CASE d = c
    BY <2>1, <1>4, <1>5, <1>6, <1>7
  <2>2. CASE d # c
    <3>1. d \in DOMAIN buckets /\ d \in Clients
      BY <2>2, <1>3, <1>6, <1>7
    <3>2. buckets'[d] = buckets[d] /\ ledger'[d] = ledger[d]
      BY <2>2, <3>1, <1>5, <1>6, <1>7
    <3> QED BY <3>1, <3>2 DEF RateInv
  <2> QED BY <2>1, <2>2
<1> QED BY <1>2, <1>8, MeteredNext

\* The bucket of a known client stays metered; nobody else's is touched.
LEMMA DecideRate ==
  ASSUME NEW t \in Threads, FairInv, RateInv, Decide(t)
  PROVE  RateInv'
<1> DEFINE c == caller[t]
           b == buckets[c]
           l == ledger[c]
           n == now[t]
           charge == IF Refill(b, n) >= Token THEN 1 ELSE 0
           left == Touched(b, n, Refill(b, n) - charge * Token)
           isFull == Refill(b, n) >= Capacity
           line == [granted |-> Counted(l.granted, n, charge),
                    full |-> IF isFull THEN n ELSE l.full,
                    spent |-> IF isFull THEN charge ELSE l.spent + charge,
                    latest |-> IF isFull THEN n ELSE Later(l.latest, n),
                    slipped |-> IF n < b.lastRefill THEN 1 ELSE l.slipped]
<1>1. /\ Answer(t)
      /\ c \in DOMAIN buckets
      /\ buckets' = [buckets EXCEPT ![c] = left]
      /\ ledger' = [ledger EXCEPT ![c] = line]
  BY DEF Decide, Known
<1>2. n \in Times /\ clock' \in Times /\ now' \in [Threads -> Times]
  BY <1>1, AnswerTimes
<1>3. c \in Clients /\ DOMAIN ledger = Clients /\ DOMAIN buckets \subseteq Clients
  BY <1>1 DEF FairInv, Numbers
<1>4. Metered(b, l)
  BY <1>1 DEF RateInv
<1>5. charge \in {0, 1} /\ (charge = 1 => Refill(b, n) >= Token)
  OBVIOUS
<1>6. /\ left.tokens = Refill(b, n) - charge * Token /\ left.lastRefill = n
      /\ line.granted = Counted(l.granted, n, charge)
      /\ line.slipped = IF n < b.lastRefill THEN 1 ELSE l.slipped
  BY DEF Touched
<1> HIDE DEF charge, left, line, b, l, n
<1>7. Metered(left, line)
  BY <1>2, <1>4, <1>5, <1>6, RefillMetered
<1>8. /\ DOMAIN buckets' = DOMAIN buckets /\ buckets'[c] = left
      /\ \A d \in DOMAIN buckets \ {c} : buckets'[d] = buckets[d]
  BY <1>1
<1>9. /\ ledger'[c] = line
      /\ \A d \in Clients \ {c} : ledger'[d] = ledger[d]
  BY <1>1, <1>3
<1>10. \A d \in DOMAIN buckets' : Metered(buckets'[d], ledger'[d])
  <2> SUFFICES ASSUME NEW d \in DOMAIN buckets'
               PROVE  Metered(buckets'[d], ledger'[d])
    OBVIOUS
  <2>1. CASE d = c
    BY <2>1, <1>7, <1>8, <1>9
  <2>2. CASE d # c
    <3>1. d \in DOMAIN buckets /\ d \in Clients
      BY <1>3, <1>8
    <3>2. buckets'[d] = buckets[d] /\ ledger'[d] = ledger[d]
      BY <2>2, <3>1, <1>8, <1>9
    <3> QED BY <3>1, <3>2 DEF RateInv
  <2> QED BY <2>1, <2>2
<1> QED BY <1>2, <1>10, MeteredNext

\* No step grants more than the documented rate to a client whose readings are
\* used in order.
LEMMA StepRate == FairInv /\ RateInv /\ [Next]_vars => RateInv'
<1> SUFFICES ASSUME FairInv, RateInv, [Next]_vars PROVE RateInv'
  OBVIOUS
<1>0. clock \in Times /\ now \in [Threads -> Times]
  BY DEF RateInv
<1>1. CASE ClockTick
  <2>1. clock' \in Times /\ UNCHANGED <<buckets, ledger>> /\ UNCHANGED now
    BY <1>0, <1>1 DEF ClockTick, Times
  <2> QED BY <1>0, <2>1, MetersKept
<1>2. CASE \E t \in Threads, c \in Clients : ReadClock(t, c)
  <2>1. PICK t \in Threads, c \in Clients : ReadClock(t, c)
    BY <1>2
  <2>2. /\ UNCHANGED <<buckets, ledger>> /\ clock' \in Times
        /\ now' = [now EXCEPT ![t] = clock]
    BY <1>0, <2>1 DEF ReadClock
  <2>3. now' \in [Threads -> Times]
    BY <1>0, <2>2
  <2> QED BY <2>2, <2>3, MetersKept
<1>3. CASE \E t \in Threads : FailOpen(t) \/ AdmitNew(t) \/ Decide(t)
  <2>1. PICK t \in Threads : FailOpen(t) \/ AdmitNew(t) \/ Decide(t)
    BY <1>3
  <2>2. CASE FailOpen(t)
    <3>1. Answer(t) /\ UNCHANGED <<buckets, ledger>>
      BY <2>2 DEF FailOpen
    <3> QED BY <3>1, AnswerTimes, MetersKept
  <2> QED BY <2>1, <2>2, AdmitRate, DecideRate
<1>4. CASE Quiet \/ UNCHANGED vars
  <2>1. UNCHANGED <<buckets, ledger>> /\ UNCHANGED <<clock, now>>
    BY <1>4 DEF Quiet, vars
  <2> QED BY <1>0, <2>1, MetersKept
<1> QED BY <1>1, <1>2, <1>3, <1>4 DEF Next

\* The documented rate holds for a client whose readings were used in order.
THEOREM OrderedRateCorrect == Spec => []OrderedRate
<1>1. Init => RateInv
  <2>1. 0 \in Times
    BY DEF Times
  <2> QED BY <2>1 DEF Init, RateInv
<1>2. RateInv => OrderedRate
  BY DEF RateInv, Metered, Rated, OrderedRate, WithinRate
<1> QED BY <1>1, <1>2, InitFair, StepFair, StepRate, PTL DEF Spec

-----------------------------------------------------------------------------
(* The table.                                                              *)

\* The table is within its limit, every bucket has a stamp of its own, and the
\* stamps tell who asked before whom.
TableInv ==
  /\ tick \in Nat
  /\ IsFiniteSet(DOMAIN buckets) /\ Cardinality(DOMAIN buckets) <= MaxClients
  /\ \A c \in DOMAIN buckets : buckets[c].lastTick \in Nat /\ buckets[c].lastTick <= tick
  /\ \A c, d \in DOMAIN buckets : c # d =>
       /\ buckets[c].lastTick # buckets[d].lastTick
       /\ buckets[c].lastTick < buckets[d].lastTick => <<c, d>> \in before

\* A client of a table whose stamps are numbers is evicted only when there are too
\* many, and then nobody has an older stamp.
LEMMA EvictsOldest ==
  ASSUME NEW table, IsFiniteSet(DOMAIN table),
         \A c \in DOMAIN table : table[c].lastTick \in Nat
  PROVE  \/ Cardinality(DOMAIN table) <= MaxClients /\ Evict(table) = table
         \/ /\ ~ (Cardinality(DOMAIN table) <= MaxClients)
            /\ \E oldest \in DOMAIN table :
                 /\ Evict(table) = [c \in DOMAIN table \ {oldest} |-> table[c]]
                 /\ \A d \in DOMAIN table : table[oldest].lastTick <= table[d].lastTick
<1>1. CASE Cardinality(DOMAIN table) <= MaxClients
  BY <1>1 DEF Evict
<1>2. CASE ~ (Cardinality(DOMAIN table) <= MaxClients)
  <2> DEFINE Stamps == {table[c].lastTick : c \in DOMAIN table}
             Oldest(c) == \A d \in DOMAIN table : table[c].lastTick <= table[d].lastTick
  <2>1. DOMAIN table # {}
    BY <1>2, FS_EmptySet
  <2>2. Stamps \subseteq Nat /\ Stamps # {}
    BY <2>1
  <2>3. PICK s \in Stamps : \A k \in Stamps : s <= k
    <3> HIDE DEF Stamps
    <3> QED BY <2>2, LeastNat
  <2>4. \E c \in DOMAIN table : Oldest(c)
    BY <2>3
  <2>5. (CHOOSE c \in DOMAIN table : Oldest(c)) \in DOMAIN table
        /\ Oldest(CHOOSE c \in DOMAIN table : Oldest(c))
    <3> HIDE DEF Oldest
    <3> QED BY <2>4
  <2>6. Evict(table) =
          [c \in DOMAIN table \ {CHOOSE c \in DOMAIN table : Oldest(c)} |-> table[c]]
    BY <1>2 DEF Evict
  <2> QED BY <1>2, <2>5, <2>6
<1> QED BY <1>1, <1>2

\* Who is made, and who goes, when a new client asks.
LEMMA AdmitTable ==
  ASSUME NEW t \in Threads, FairInv, TableInv, AdmitNew(t)
  PROVE  /\ TableInv'
         /\ \A c \in DOMAIN buckets \ DOMAIN buckets' :
              /\ Cardinality(DOMAIN buckets) = MaxClients
              /\ \A d \in DOMAIN buckets \ {c} : <<c, d>> \in before
<1> DEFINE c == caller[t]
           made == [tokens |-> Capacity - Token, lastTick |-> tick + 1,
                    lastRefill |-> now[t]]
           table == [d \in DOMAIN buckets \cup {c} |-> IF d = c THEN made ELSE buckets[d]]
           others == DOMAIN buckets' \ {c}
<1>1. /\ tick' = tick + 1 /\ c \notin DOMAIN buckets
      /\ buckets' = Evict(table)
      /\ before' = (before \cap (others \X others)) \cup (others \X {c})
  BY DEF AdmitNew, Answer, Known, AskedLast
<1>2. /\ DOMAIN table = DOMAIN buckets \cup {c}
      /\ table[c].lastTick = tick + 1
      /\ \A d \in DOMAIN buckets : table[d] = buckets[d]
  BY <1>1
<1> HIDE DEF table, made
<1>3. /\ tick \in Nat /\ tick' \in Nat
      /\ \A d \in DOMAIN buckets : buckets[d].lastTick \in Nat /\ buckets[d].lastTick <= tick
  BY <1>1 DEF TableInv
<1>4. /\ IsFiniteSet(DOMAIN table)
      /\ Cardinality(DOMAIN table) = Cardinality(DOMAIN buckets) + 1
      /\ Cardinality(DOMAIN buckets) \in Nat
  BY <1>1, <1>2, FS_AddElement, FS_CardinalityType DEF TableInv
<1>5. \A d \in DOMAIN table : table[d].lastTick \in Nat /\ table[d].lastTick <= tick + 1
  BY <1>2, <1>3
<1>6. ASSUME NEW e \in DOMAIN table, NEW d \in DOMAIN table, e # d
      PROVE  /\ table[e].lastTick # table[d].lastTick
             /\ table[e].lastTick < table[d].lastTick =>
                  e \in DOMAIN buckets /\ (d # c => <<e, d>> \in before)
  <2>1. CASE e = c
    <3>1. d \in DOMAIN buckets /\ table[d].lastTick <= tick
      BY <1>2, <1>3, <1>6, <2>1
    <3> QED BY <1>2, <1>3, <1>5, <2>1, <3>1
  <2>2. CASE d = c
    <3>1. e \in DOMAIN buckets /\ table[e].lastTick <= tick
      BY <1>2, <1>3, <1>6, <2>2
    <3> QED BY <1>2, <1>3, <1>5, <2>2, <3>1
  <2>3. CASE e # c /\ d # c
    BY <1>2, <1>6, <2>3 DEF TableInv
  <2> QED BY <2>1, <2>2, <2>3
<1>7. ASSUME DOMAIN buckets' \subseteq DOMAIN table,
             \A d \in DOMAIN buckets' : buckets'[d] = table[d]
      PROVE  \A e, d \in DOMAIN buckets' : e # d =>
               /\ buckets'[e].lastTick # buckets'[d].lastTick
               /\ buckets'[e].lastTick < buckets'[d].lastTick => <<e, d>> \in before'
  <2> SUFFICES ASSUME NEW e \in DOMAIN buckets', NEW d \in DOMAIN buckets', e # d
               PROVE  /\ buckets'[e].lastTick # buckets'[d].lastTick
                      /\ buckets'[e].lastTick < buckets'[d].lastTick => <<e, d>> \in before'
    OBVIOUS
  <2>1. /\ e \in DOMAIN table /\ d \in DOMAIN table
        /\ buckets'[e] = table[e] /\ buckets'[d] = table[d]
    BY <1>7
  <2>2. table[e].lastTick # table[d].lastTick
    BY <1>6, <2>1
  <2>3. ASSUME table[e].lastTick < table[d].lastTick PROVE <<e, d>> \in before'
    <3>1. e \in DOMAIN buckets /\ (d # c => <<e, d>> \in before)
      BY <1>6, <2>1, <2>3
    <3>2. e \in others
      BY <1>1, <3>1
    <3>3. CASE d = c
      BY <1>1, <3>2, <3>3
    <3>4. CASE d # c
      BY <1>1, <3>1, <3>2, <3>4
    <3> QED BY <3>3, <3>4
  <2> QED BY <2>1, <2>2, <2>3
<1> HIDE DEF others
<1>8. CASE Cardinality(DOMAIN table) <= MaxClients /\ Evict(table) = table
  <2>1. buckets' = table
    BY <1>1, <1>8
  <2>2. DOMAIN buckets \ DOMAIN buckets' = {}
    BY <1>2, <2>1
  <2>3. TableInv'
    BY <1>1, <1>3, <1>4, <1>5, <1>7, <1>8, <2>1 DEF TableInv
  <2> QED BY <2>2, <2>3
<1>9. CASE /\ ~ (Cardinality(DOMAIN table) <= MaxClients)
           /\ \E oldest \in DOMAIN table :
                /\ Evict(table) = [d \in DOMAIN table \ {oldest} |-> table[d]]
                /\ \A d \in DOMAIN table : table[oldest].lastTick <= table[d].lastTick
  <2>1. PICK oldest \in DOMAIN table :
          /\ Evict(table) = [d \in DOMAIN table \ {oldest} |-> table[d]]
          /\ \A d \in DOMAIN table : table[oldest].lastTick <= table[d].lastTick
    BY <1>9
  <2>2. Cardinality(DOMAIN buckets) = MaxClients
    BY <1>4, <1>9 DEF TableInv
  <2>3. DOMAIN buckets # {}
    BY <2>2, FS_EmptySet
  <2>4. oldest # c
    <3> SUFFICES ASSUME oldest = c PROVE FALSE
      OBVIOUS
    <3>1. PICK d : d \in DOMAIN buckets
      BY <2>3
    <3>2. tick + 1 <= buckets[d].lastTick
      BY <1>2, <2>1, <3>1
    <3> QED BY <1>3, <3>1, <3>2
  <2>5. oldest \in DOMAIN buckets
    BY <1>2, <2>4
  <2>6. /\ DOMAIN buckets' = DOMAIN table \ {oldest}
        /\ \A d \in DOMAIN buckets' : buckets'[d] = table[d]
    BY <1>1, <2>1
  <2>7. DOMAIN buckets \ DOMAIN buckets' = {oldest}
    BY <1>2, <2>5, <2>6
  <2>8. \A d \in DOMAIN buckets \ {oldest} : <<oldest, d>> \in before
    <3> SUFFICES ASSUME NEW d \in DOMAIN buckets \ {oldest} PROVE <<oldest, d>> \in before
      OBVIOUS
    <3>1. d \in DOMAIN table /\ d # c /\ d # oldest
      BY <1>1, <1>2
    <3>2. table[oldest].lastTick <= table[d].lastTick
      BY <2>1, <3>1
    <3>3. table[oldest].lastTick # table[d].lastTick
      BY <1>6, <3>1
    <3>4. table[oldest].lastTick < table[d].lastTick
      BY <1>5, <3>1, <3>2, <3>3
    <3> QED BY <1>6, <3>1, <3>4
  <2>9. IsFiniteSet(DOMAIN buckets') /\ Cardinality(DOMAIN buckets') <= MaxClients
    <3>1. /\ IsFiniteSet(DOMAIN table \ {oldest})
          /\ Cardinality(DOMAIN table \ {oldest}) = Cardinality(DOMAIN table) - 1
      BY <1>4, FS_RemoveElement
    <3>2. Cardinality(DOMAIN table) - 1 = MaxClients
      BY <1>4, <2>2
    <3> QED BY <2>6, <3>1, <3>2
  <2>10. \A d \in DOMAIN buckets' : buckets'[d].lastTick \in Nat /\ buckets'[d].lastTick <= tick'
    BY <1>1, <1>5, <2>6
  <2>11. TableInv'
    BY <1>3, <1>7, <2>6, <2>9, <2>10 DEF TableInv
  <2> QED BY <2>2, <2>7, <2>8, <2>11
<1> QED BY <1>4, <1>5, <1>8, <1>9, EvictsOldest

\* A known client gets the newest stamp; nobody goes.
LEMMA DecideTable ==
  ASSUME NEW t \in Threads, TableInv, Decide(t)
  PROVE  TableInv' /\ DOMAIN buckets' = DOMAIN buckets
<1> DEFINE c == caller[t]
           others == DOMAIN buckets' \ {c}
<1> DEFINE r == Refill(buckets[c], now[t])
           left == Touched(buckets[c], now[t], r - (IF r >= Token THEN 1 ELSE 0) * Token)
<1>1. /\ tick' = tick + 1 /\ c \in DOMAIN buckets
      /\ buckets' = [buckets EXCEPT ![c] = left] /\ left.lastTick = tick + 1
      /\ before' = (before \cap (others \X others)) \cup (others \X {c})
  BY DEF Decide, Answer, Known, AskedLast, Touched
<1> HIDE DEF left
<1>2. /\ DOMAIN buckets' = DOMAIN buckets /\ buckets'[c].lastTick = tick + 1
      /\ \A d \in DOMAIN buckets \ {c} : buckets'[d] = buckets[d]
  BY <1>1
<1>3. /\ tick \in Nat /\ tick' \in Nat
      /\ \A d \in DOMAIN buckets : buckets[d].lastTick \in Nat /\ buckets[d].lastTick <= tick
  BY <1>1 DEF TableInv
<1>4. \A d \in DOMAIN buckets' : buckets'[d].lastTick \in Nat /\ buckets'[d].lastTick <= tick'
  BY <1>1, <1>2, <1>3
<1>5. ASSUME NEW e \in DOMAIN buckets', NEW d \in DOMAIN buckets', e # d
      PROVE  /\ buckets'[e].lastTick # buckets'[d].lastTick
             /\ buckets'[e].lastTick < buckets'[d].lastTick => <<e, d>> \in before'
  <2>1. CASE e = c
    <3>1. buckets'[d].lastTick <= tick /\ buckets'[d].lastTick \in Nat
      BY <1>2, <1>3, <1>5, <2>1
    <3> QED BY <1>2, <1>3, <2>1, <3>1
  <2>2. CASE d = c
    <3>1. buckets'[e].lastTick <= tick /\ buckets'[e].lastTick \in Nat
      BY <1>2, <1>3, <1>5, <2>2
    <3>2. <<e, d>> \in before'
      BY <1>1, <1>5, <2>2
    <3> QED BY <1>2, <1>3, <2>2, <3>1, <3>2
  <2>3. CASE e # c /\ d # c
    <3>1. /\ buckets'[e] = buckets[e] /\ buckets'[d] = buckets[d]
          /\ e \in DOMAIN buckets /\ d \in DOMAIN buckets
      BY <1>2, <2>3
    <3>2. e \in others /\ d \in others
      BY <2>3
    <3>3. /\ buckets[e].lastTick # buckets[d].lastTick
          /\ buckets[e].lastTick < buckets[d].lastTick => <<e, d>> \in before
      BY <1>5, <3>1 DEF TableInv
    <3> HIDE DEF others
    <3>4. <<e, d>> \in before => <<e, d>> \in before'
      BY <1>1, <3>2
    <3> QED BY <3>1, <3>3, <3>4
  <2> QED BY <2>1, <2>2, <2>3
<1>6. TableInv'
  BY <1>2, <1>3, <1>4, <1>5 DEF TableInv
<1> QED BY <1>2, <1>6

\* A step that leaves the table alone.
LEMMA TableUntouched ==
  ASSUME TableInv, UNCHANGED <<buckets, before>>, tick' \in {tick, tick + 1}
  PROVE  TableInv' /\ DOMAIN buckets' = DOMAIN buckets
BY DEF TableInv

\* What each step does to the table.
LEMMA StepTable ==
  ASSUME FairInv, TableInv, [Next]_vars
  PROVE  /\ TableInv'
         /\ \A c \in DOMAIN buckets \ DOMAIN buckets' :
              /\ Cardinality(DOMAIN buckets) = MaxClients
              /\ \A d \in DOMAIN buckets \ {c} : <<c, d>> \in before
<1>1. CASE ClockTick
  BY <1>1, TableUntouched DEF ClockTick
<1>2. CASE \E t \in Threads, c \in Clients : ReadClock(t, c)
  BY <1>2, TableUntouched DEF ReadClock
<1>3. CASE \E t \in Threads : FailOpen(t) \/ AdmitNew(t) \/ Decide(t)
  <2>1. PICK t \in Threads : FailOpen(t) \/ AdmitNew(t) \/ Decide(t)
    BY <1>3
  <2>2. CASE FailOpen(t)
    BY <2>2, TableUntouched DEF FailOpen, Answer
  <2>3. CASE Decide(t)
    BY <2>3, DecideTable
  <2> QED BY <2>1, <2>2, <2>3, AdmitTable
<1>4. CASE Quiet \/ UNCHANGED vars
  BY <1>4, TableUntouched DEF Quiet, vars
<1> QED BY <1>1, <1>2, <1>3, <1>4 DEF Next

\* Only the client that asked longest ago leaves the table, and only a full table.
THEOREM EvictsLeastRecentCorrect == Spec => EvictsLeastRecent
<1>1. Init => TableInv
  <2> SUFFICES ASSUME Init PROVE TableInv
    OBVIOUS
  <2>1. DOMAIN buckets = {} /\ tick = 0
    BY DEF Init
  <2>2. IsFiniteSet({}) /\ Cardinality({}) = 0
    BY FS_EmptySet
  <2> QED BY <2>1, <2>2 DEF TableInv
<1> DEFINE Goes == \A c \in DOMAIN buckets \ DOMAIN buckets' :
                     /\ Cardinality(DOMAIN buckets) = MaxClients
                     /\ \A d \in DOMAIN buckets \ {c} : <<c, d>> \in before
<1>2. FairInv /\ TableInv /\ [Next]_vars => TableInv' /\ Goes
  BY StepTable
<1> QED BY <1>1, <1>2, InitFair, StepFair, PTL DEF Spec, EvictsLeastRecent
=============================================================================
