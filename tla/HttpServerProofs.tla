-------------------------- MODULE HttpServerProofs --------------------------
(***************************************************************************)
(* The HTTP server and the two components it runs on, for any threads,       *)
(* requests, limits and clocks: the bound on what security/RateLimiter       *)
(* allows; each script of ScriptPluginAdapter working on its own call's      *)
(* arguments; that the server uses both only by their operations, so that    *)
(* what holds of each alone holds in the server; and that 200 means that     *)
(* the tool succeeded.                                                       *)
(***************************************************************************)
EXTENDS HttpServer, FiniteSetTheorems, TLAPS

-----------------------------------------------------------------------------
(* security/RateLimiter                                                    *)

\* What \div computes, by the two products around it.
LEMMA DivBounds ==
    ASSUME NEW x \in Nat, NEW k \in Nat \ {0}
    PROVE  /\ x \div k \in Nat
           /\ k * (x \div k) <= x
           /\ x < k * ((x \div k) + 1)
  OBVIOUS

\* Arithmetic modulo k never adds.
LEMMA ModBounds ==
    ASSUME NEW x \in Nat, NEW k \in Nat \ {0}
    PROVE  x % k \in 0 .. k - 1 /\ x % k <= x
  OBVIOUS

\* A common factor can be taken away from an inequality.
LEMMA CancelFactor ==
    ASSUME NEW x \in Nat, NEW y \in Nat, NEW k \in Nat \ {0}, k * x < k * y
    PROVE  x < y
  OBVIOUS

\* Rounding down twice loses no less than rounding down once.
LEMMA DivSuperadditive ==
    ASSUME NEW x \in Nat, NEW y \in Nat, NEW k \in Nat \ {0}
    PROVE  (x \div k) + (y \div k) <= (x + y) \div k
<1> DEFINE p == x \div k
           q == y \div k
           r == (x + y) \div k
<1>1. p \in Nat /\ q \in Nat /\ r \in Nat
  BY DivBounds
<1>2. k * p <= x /\ k * q <= y /\ x + y < k * (r + 1)
  BY DivBounds
<1> HIDE DEF p, q, r
<1>3. k * (p + q) = k * p + k * q
  BY <1>1
<1>4. k * (p + q) < k * (r + 1)
  <2>1. k * p \in Nat /\ k * q \in Nat /\ k * (r + 1) \in Nat
    BY <1>1
  <2> QED
    BY <1>2, <1>3, <2>1
<1>5. p + q < r + 1
  <2>1. p + q \in Nat /\ r + 1 \in Nat
    BY <1>1
  <2> QED
    BY <1>4, <2>1, CancelFactor
<1> QED
  BY <1>1, <1>5 DEF p, q, r

\* More time never means less.
LEMMA DivMonotone ==
    ASSUME NEW x \in Nat, NEW y \in Nat, NEW k \in Nat \ {0}, x <= y
    PROVE  x \div k <= y \div k
<1>1. y - x \in Nat /\ y = x + (y - x)
  OBVIOUS
<1>2. (x \div k) + ((y - x) \div k) <= y \div k
  BY <1>1, DivSuperadditive
<1>3. x \div k \in Nat /\ y \div k \in Nat /\ (y - x) \div k \in Nat
  BY <1>1, DivBounds
<1> QED
  BY <1>2, <1>3

-----------------------------------------------------------------------------
\* Tokens that the whole seconds between two times have refilled.
Earned(from, to) == (((to - from) \div Second) * m_MaxTokens) \div Minute

\* The account behind RateBound: what was allowed and what is left is never
\* more than the bucket and what was refilled up to m_LastRefill.
Account ==
    \A c \in Seen :
        /\ since[c] <= m_Buckets[c].m_LastRefill
        /\ m_MaxTokens > 0 =>
              allowed[c] + m_Buckets[c].m_Tokens
                 <= m_MaxTokens + Earned(since[c], m_Buckets[c].m_LastRefill)

\* With a limit of 0 the wrapped count is gone after the first refill.
ZeroLimit ==
    m_MaxTokens = 0 =>
        \A c \in Seen : m_Buckets[c].m_LastRefill # since[c] => m_Buckets[c].m_Tokens = 0

\* Nothing is allowed to a client that has no bucket yet.
FreshClients == \A c \in Client \ Seen : allowed[c] = 0

RateIInv == RateTypeOK /\ Account /\ ZeroLimit /\ FreshClients

\* The refill of an interval and of the next one are within that of both.
LEMMA EarnedAdds ==
    ASSUME NEW x \in Nat, NEW y \in Nat, NEW z \in Nat, x <= y, y <= z,
           m_MaxTokens \in Nat
    PROVE  /\ Earned(x, y) \in Nat /\ Earned(y, z) \in Nat /\ Earned(x, z) \in Nat
           /\ Earned(x, y) + Earned(y, z) <= Earned(x, z)
<1> DEFINE p == (y - x) \div Second
           q == (z - y) \div Second
           r == (z - x) \div Second
           M == m_MaxTokens
<1>1. Second \in Nat \ {0} /\ Minute \in Nat \ {0}
  BY RateAssumption
<1>2. p \in Nat /\ q \in Nat /\ r \in Nat
  BY <1>1, DivBounds
<1>3. p + q <= r
  <2>1. y - x \in Nat /\ z - y \in Nat /\ (y - x) + (z - y) = z - x
    OBVIOUS
  <2> QED
    BY <1>1, <2>1, DivSuperadditive
<1> HIDE DEF p, q, r
<1>4. p * M \in Nat /\ q * M \in Nat /\ r * M \in Nat /\ p * M + q * M <= r * M
  <2>1. (p + q) * M = p * M + q * M
    BY <1>2
  <2>2. (p + q) * M <= r * M
    BY <1>2, <1>3
  <2> QED
    BY <1>2, <2>1, <2>2
<1> DEFINE P == (p * M) \div Minute
           Q == (q * M) \div Minute
           R == (r * M) \div Minute
<1>5. P \in Nat /\ Q \in Nat /\ R \in Nat
  BY <1>1, <1>4, DivBounds
<1>6. P + Q <= R
  <2> DEFINE T == (p * M + q * M) \div Minute
  <2>1. P + Q <= T
    BY <1>1, <1>4, DivSuperadditive
  <2>2. T <= R
    BY <1>1, <1>4, DivMonotone
  <2>3. T \in Nat
    BY <1>1, <1>4, DivBounds
  <2> HIDE DEF P, Q, R, T
  <2> QED
    BY <1>5, <2>1, <2>2, <2>3
<1> QED
  BY <1>5, <1>6 DEF Earned, p, q, r

\* The limit, and what a refill adds, do not wrap.
LEMMA NoWrap ==
    ASSUME RateTypeOK, NEW e \in Nat, e <= MaxTime \div Second
    PROVE  /\ m_MaxTokens \in Nat /\ Word \in Nat \ {0} /\ m_MaxTokens < Word
           /\ e * m_MaxTokens \in 0 .. Word - 1
<1> DEFINE K == MaxTime \div Second
           M == m_MaxTokens
<1>1. K \in Nat /\ M \in Nat /\ Word \in Nat \ {0} /\ M * (K + 1) < Word
  BY RateAssumption, DivBounds DEF RateTypeOK
<1> HIDE DEF K, M
<1>2. M * (K + 1) = M * K + M /\ M * K \in Nat
  BY <1>1
<1>3. e * M \in Nat /\ e * M <= M * K
  BY <1>1 DEF K
<1> QED
  BY <1>1, <1>2, <1>3 DEF M

\* A bucket after a refill: no later than now, no earlier than before, with at
\* most the tokens that the time in between has earned.
LEMMA RefilledBucket ==
    ASSUME RateTypeOK, NEW c \in Seen
    PROVE  LET old == m_Buckets[c]
               new == Refilled(old)
           IN  /\ new \in [m_Tokens : 0 .. Word - 1, m_LastRefill : 0 .. now]
               /\ old.m_LastRefill <= new.m_LastRefill
               /\ new.m_Tokens <= old.m_Tokens + Earned(old.m_LastRefill, new.m_LastRefill)
               /\ m_MaxTokens = 0 => new = old \/ new.m_Tokens = 0
<1> DEFINE old == m_Buckets[c]
           new == Refilled(old)
           e == (now - old.m_LastRefill) \div Second
           refill == (e * m_MaxTokens) \div Minute
           sum == (old.m_Tokens + refill) % Word
<1>1. /\ now \in Nat /\ now <= MaxTime /\ m_MaxTokens \in Nat
      /\ old \in [m_Tokens : 0 .. Word - 1, m_LastRefill : 0 .. now]
      /\ Second \in Nat \ {0} /\ Minute \in Nat \ {0} /\ MaxTime \in Nat
  BY RateAssumption DEF RateTypeOK
<1>2. old.m_LastRefill \in Nat /\ old.m_LastRefill <= now /\ old.m_Tokens \in 0 .. Word - 1
  BY <1>1
<1>3. e \in Nat /\ e <= MaxTime \div Second
  <2>1. now - old.m_LastRefill \in Nat /\ now - old.m_LastRefill <= MaxTime
    BY <1>1, <1>2
  <2> QED
    BY <1>1, <2>1, DivBounds, DivMonotone
<1>4. /\ Word \in Nat \ {0} /\ m_MaxTokens < Word
      /\ e * m_MaxTokens \in 0 .. Word - 1
  BY <1>3, NoWrap
<1>5. (e * m_MaxTokens) % Word = e * m_MaxTokens
  <2> HIDE DEF e
  <2> QED
    BY <1>4, SMTT(30)
<1>6. refill \in Nat
  BY <1>1, <1>4, DivBounds
<1>7. CASE e = 0
  <2>1. new = old
    BY <1>7 DEF Refilled
  <2>2. Earned(old.m_LastRefill, old.m_LastRefill) \in Nat
    BY <1>1, <1>2, EarnedAdds
  <2> QED
    BY <1>1, <1>2, <2>1, <2>2
<1>8. CASE e # 0
  <2>1. new = [m_Tokens |-> Smaller(m_MaxTokens, sum), m_LastRefill |-> now]
    BY <1>5, <1>8 DEF Refilled
  <2>2. refill = Earned(old.m_LastRefill, now)
    BY DEF Earned
  <2> HIDE DEF refill
  <2>3. sum \in Nat /\ sum <= old.m_Tokens + refill
    <3> DEFINE total == old.m_Tokens + refill
    <3>1. total \in Nat
      BY <1>2, <1>4, <1>6
    <3> HIDE DEF total
    <3>2. total % Word \in 0 .. Word - 1 /\ total % Word <= total
      BY <1>4, <3>1, ModBounds
    <3> QED
      BY <1>4, <3>1, <3>2 DEF total
  <2> HIDE DEF sum
  <2>4. /\ Smaller(m_MaxTokens, sum) \in 0 .. Word - 1
        /\ Smaller(m_MaxTokens, sum) <= old.m_Tokens + refill
        /\ m_MaxTokens = 0 => Smaller(m_MaxTokens, sum) = 0
    BY <1>1, <1>2, <1>4, <1>6, <2>3 DEF Smaller
  <2> HIDE DEF old, new
  <2>5. new.m_Tokens = Smaller(m_MaxTokens, sum) /\ new.m_LastRefill = now
    BY <2>1
  <2>6. new \in [m_Tokens : 0 .. Word - 1, m_LastRefill : 0 .. now]
    BY <1>1, <2>1, <2>4
  <2> QED
    BY <1>2, <2>2, <2>4, <2>5, <2>6 DEF old, new
<1> QED
  BY <1>7, <1>8

\* A client's bucket after its request.
LEMMA ChargedBucket ==
    ASSUME RateIInv, NEW c \in Client, AllowRequest(c)
    PROVE  LET new == Charged(c)
           IN  /\ new \in [m_Tokens : 0 .. Word - 1, m_LastRefill : 0 .. now]
               /\ since'[c] <= new.m_LastRefill /\ since'[c] \in 0 .. now
               /\ allowed'[c] \in Nat
               /\ m_MaxTokens > 0 => allowed'[c] + new.m_Tokens
                                        <= m_MaxTokens + Earned(since'[c], new.m_LastRefill)
               /\ m_MaxTokens = 0 => (new.m_LastRefill # since'[c] => new.m_Tokens = 0)
<1> DEFINE new == Charged(c)
<1>1. /\ now \in Nat /\ m_MaxTokens \in Nat /\ Word \in Nat \ {0} /\ m_MaxTokens < Word
      /\ allowed \in [Client -> Nat] /\ since \in [Client -> 0 .. now]
  <2>1. MaxTime \div Second \in Nat
    BY RateAssumption, DivBounds
  <2>2. 0 \in Nat /\ 0 <= MaxTime \div Second
    BY <2>1
  <2>3. RateTypeOK
    BY DEF RateIInv
  <2> QED
    BY <2>2, <2>3, NoWrap, RateAssumption DEF RateTypeOK
<1>2. CASE c \notin Seen
  <2>1. new = FirstBucket /\ since'[c] = now
    BY <1>1, <1>2 DEF Charged, AllowRequest
  <2>2. allowed'[c] = allowed[c] + 1
    BY <1>1, <1>2 DEF AllowRequest, Allows
  <2>3. FirstBucket.m_LastRefill = now /\ FirstBucket.m_Tokens = (m_MaxTokens + Word - 1) % Word
    BY DEF FirstBucket
  <2>4. m_MaxTokens > 0 => (m_MaxTokens + Word - 1) % Word = m_MaxTokens - 1
    BY <1>1
  <2>5. (m_MaxTokens + Word - 1) % Word \in 0 .. Word - 1
    BY <1>1
  <2>6. FirstBucket \in [m_Tokens : 0 .. Word - 1, m_LastRefill : 0 .. now]
    BY <1>1, <2>5 DEF FirstBucket
  <2>7. Earned(now, now) \in Nat
    BY <1>1, EarnedAdds
  <2>8. allowed[c] = 0
    BY <1>2 DEF RateIInv, FreshClients
  <2> HIDE DEF new
  <2> QED
    BY <1>1, <2>1, <2>2, <2>3, <2>4, <2>6, <2>7, <2>8 DEF new
<1>3. CASE c \in Seen
  <2> DEFINE old == m_Buckets[c]
             mid == Refilled(old)
             left == IF Allows(c) THEN mid.m_Tokens - 1 ELSE mid.m_Tokens
             more == IF Allows(c) THEN 1 ELSE 0
  <2>1. /\ mid \in [m_Tokens : 0 .. Word - 1, m_LastRefill : 0 .. now]
        /\ old.m_LastRefill <= mid.m_LastRefill
        /\ mid.m_Tokens <= old.m_Tokens + Earned(old.m_LastRefill, mid.m_LastRefill)
        /\ m_MaxTokens = 0 => mid = old \/ mid.m_Tokens = 0
    BY <1>3, RefilledBucket DEF RateIInv
  <2>2. old \in [m_Tokens : 0 .. Word - 1, m_LastRefill : 0 .. now]
    BY <1>3 DEF RateIInv, RateTypeOK
  <2>3. since'[c] = since[c] /\ since[c] \in 0 .. now /\ since[c] <= old.m_LastRefill
    BY <1>1, <1>3 DEF AllowRequest, RateIInv, Account
  <2>4. allowed'[c] = allowed[c] + more /\ allowed[c] \in Nat
    BY <1>1 DEF AllowRequest
  <2>5. Allows(c) <=> mid.m_Tokens > 0
    BY <1>3 DEF Allows
  <2>6. new = [m_Tokens |-> left, m_LastRefill |-> mid.m_LastRefill]
    <3>1. new = IF Allows(c) THEN [mid EXCEPT !.m_Tokens = @ - 1] ELSE mid
      BY <1>3, Zenon DEF Charged
    <3> HIDE DEF mid, new
    <3> QED
      BY <2>1, <3>1
  <2>7. /\ mid.m_Tokens \in 0 .. Word - 1 /\ mid.m_LastRefill \in 0 .. now
        /\ old.m_Tokens \in 0 .. Word - 1 /\ old.m_LastRefill \in 0 .. now
    BY <2>1, <2>2
  <2>8. left + more = mid.m_Tokens /\ left \in 0 .. Word - 1 /\ more \in {0, 1}
    BY <1>1, <2>5, <2>7
  <2>9. m_MaxTokens > 0 =>
           allowed[c] + old.m_Tokens <= m_MaxTokens + Earned(since[c], old.m_LastRefill)
    BY <1>3 DEF RateIInv, Account
  <2>10. /\ Earned(since[c], old.m_LastRefill) \in Nat
         /\ Earned(old.m_LastRefill, mid.m_LastRefill) \in Nat
         /\ Earned(since[c], mid.m_LastRefill) \in Nat
         /\ Earned(since[c], old.m_LastRefill) + Earned(old.m_LastRefill, mid.m_LastRefill)
               <= Earned(since[c], mid.m_LastRefill)
    <3>1. /\ since[c] \in Nat /\ old.m_LastRefill \in Nat /\ mid.m_LastRefill \in Nat
          /\ since[c] <= old.m_LastRefill /\ old.m_LastRefill <= mid.m_LastRefill
      BY <1>1, <2>1, <2>3, <2>7
    <3> HIDE DEF old, mid
    <3> QED
      BY <1>1, <3>1, EarnedAdds
  <2>11. m_MaxTokens = 0 => (mid.m_LastRefill # since[c] => mid.m_Tokens = 0)
    BY <1>3, <2>1 DEF RateIInv, ZeroLimit
  <2> HIDE DEF old, mid, left, more, new
  <2>12. new.m_Tokens = left /\ new.m_LastRefill = mid.m_LastRefill
         /\ new \in [m_Tokens : 0 .. Word - 1, m_LastRefill : 0 .. now]
    BY <2>6, <2>7, <2>8
  <2>13. m_MaxTokens > 0 => allowed'[c] + left
                               <= m_MaxTokens + Earned(since[c], mid.m_LastRefill)
    BY <1>1, <2>1, <2>4, <2>7, <2>8, <2>9, <2>10
  <2>14. m_MaxTokens = 0 => (mid.m_LastRefill # since[c] => left = 0)
    BY <2>7, <2>8, <2>11
  <2> QED
    BY <1>1, <2>1, <2>3, <2>4, <2>7, <2>8, <2>12, <2>13, <2>14 DEF new
<1> QED
  BY <1>2, <1>3

\* RateIInv is inductive.
LEMMA RateInductive == RateIInv /\ [RateNext]_rateVars => RateIInv'
<1> SUFFICES ASSUME RateIInv, [RateNext]_rateVars PROVE RateIInv'
  OBVIOUS
<1> USE DEF RateIInv
<1>0. now \in Nat /\ MaxTime \in Nat
  BY RateAssumption DEF RateTypeOK
<1>1. CASE Tick
  <2>1. /\ now' = now + 1 /\ now < MaxTime
        /\ UNCHANGED <<m_MaxTokens, m_Buckets, allowed, since>>
    BY <1>1 DEF Tick
  <2>2. Seen' = Seen
    BY <2>1 DEF Seen
  <2>3. \A c \in Seen : m_Buckets[c] \in [m_Tokens : 0 .. Word - 1, m_LastRefill : 0 .. now']
    <3> SUFFICES ASSUME NEW c \in Seen
                 PROVE  m_Buckets[c] \in [m_Tokens : 0 .. Word - 1, m_LastRefill : 0 .. now']
      OBVIOUS
    <3>1. m_Buckets[c] \in [m_Tokens : 0 .. Word - 1, m_LastRefill : 0 .. now]
      BY DEF RateTypeOK
    <3>2. 0 .. now \subseteq 0 .. now'
      BY <1>0, <2>1
    <3> QED
      BY <3>1, <3>2
  <2>4. RateTypeOK'
    <3>1. m_Buckets' \in [Seen' -> [m_Tokens : 0 .. Word - 1, m_LastRefill : 0 .. now']]
      BY <2>1, <2>2, <2>3 DEF RateTypeOK
    <3>2. now' \in 0 .. MaxTime /\ since' \in [Client -> 0 .. now']
      BY <1>0, <2>1 DEF RateTypeOK
    <3> QED
      BY <2>1, <2>2, <3>1, <3>2 DEF RateTypeOK
  <2>5. Account' /\ ZeroLimit' /\ FreshClients'
    BY <2>1, <2>2 DEF Account, ZeroLimit, FreshClients, Earned
  <2> QED
    BY <2>4, <2>5
<1>2. ASSUME NEW c \in Client, AllowRequest(c) PROVE RateIInv'
  <2> DEFINE new == Charged(c)
  <2>1. /\ new \in [m_Tokens : 0 .. Word - 1, m_LastRefill : 0 .. now]
        /\ since'[c] <= new.m_LastRefill /\ since'[c] \in 0 .. now
        /\ allowed'[c] \in Nat
        /\ m_MaxTokens > 0 => allowed'[c] + new.m_Tokens
                                 <= m_MaxTokens + Earned(since'[c], new.m_LastRefill)
        /\ m_MaxTokens = 0 => (new.m_LastRefill # since'[c] => new.m_Tokens = 0)
    BY <1>2, ChargedBucket
  <2> HIDE DEF new
  <2>2. /\ m_Buckets' = [d \in Seen \cup {c} |-> IF d = c THEN new ELSE m_Buckets[d]]
        /\ UNCHANGED <<m_MaxTokens, now>>
    BY <1>2 DEF AllowRequest, new
  <2>3. Seen' = Seen \cup {c}
    BY <2>2 DEF Seen
  <2>4. \A d \in Client \ {c} : since'[d] = since[d] /\ allowed'[d] = allowed[d]
    BY <1>2 DEF AllowRequest, RateTypeOK
  <2>5. DOMAIN since' = Client /\ DOMAIN allowed' = Client
        /\ since' = [d \in Client |-> since'[d]] /\ allowed' = [d \in Client |-> allowed'[d]]
    BY <1>2 DEF AllowRequest, RateTypeOK
  <2>6. RateTypeOK'
    <3>1. m_Buckets' \in [Seen' -> [m_Tokens : 0 .. Word - 1, m_LastRefill : 0 .. now]]
      BY <2>1, <2>2, <2>3 DEF RateTypeOK
    <3>2. allowed' \in [Client -> Nat] /\ since' \in [Client -> 0 .. now]
      BY <2>1, <2>4, <2>5 DEF RateTypeOK
    <3> QED
      BY <2>2, <2>3, <3>1, <3>2 DEF RateTypeOK
  <2>7. m_Buckets'[c] = new /\ \A d \in Seen \ {c} : m_Buckets'[d] = m_Buckets[d]
    BY <2>2
  <2>8. Account'
    BY <2>1, <2>2, <2>3, <2>4, <2>7 DEF Account, Earned, RateTypeOK
  <2>9. ZeroLimit'
    BY <2>1, <2>2, <2>3, <2>4, <2>7 DEF ZeroLimit, RateTypeOK
  <2>10. FreshClients'
    BY <2>3, <2>4 DEF FreshClients
  <2> QED
    BY <2>6, <2>8, <2>9, <2>10
<1>3. CASE UNCHANGED rateVars
  BY <1>3 DEF rateVars, RateTypeOK, Account, ZeroLimit, FreshClients, Seen, Earned
<1> QED
  BY <1>1, <1>2, <1>3 DEF RateNext

\* Nothing has been asked for at the start.
LEMMA RateStarts == RateInit => RateIInv
<1> SUFFICES ASSUME RateInit PROVE RateIInv
  OBVIOUS
<1>1. Seen = {}
  BY DEF RateInit, Seen
<1>2. RateTypeOK
  BY <1>1, RateAssumption DEF RateInit, RateTypeOK, Seen
<1> QED
  BY <1>1, <1>2 DEF RateInit, RateIInv, Account, ZeroLimit, FreshClients

\* The account up to the last refill bounds what was allowed up to now.
LEMMA AccountBounds == RateIInv => RateInv
<1> SUFFICES ASSUME RateIInv, NEW c \in Seen, m_MaxTokens > 0
             PROVE  allowed[c] <= m_MaxTokens + Earned(since[c], now)
  BY RateAssumption DEF RateIInv, RateInv, RateBound, RateTypeOK, ZeroLimit, Earned
<1> DEFINE last == m_Buckets[c].m_LastRefill
           tokens == m_Buckets[c].m_Tokens
<1>1. /\ c \in Client /\ m_MaxTokens \in Nat /\ now \in Nat /\ Word \in Nat
      /\ allowed[c] \in Nat /\ since[c] \in Nat
      /\ m_Buckets[c] \in [m_Tokens : 0 .. Word - 1, m_LastRefill : 0 .. now]
  BY RateAssumption DEF RateIInv, RateTypeOK
<1>2. tokens \in Nat /\ last \in Nat /\ last <= now /\ since[c] <= last
      /\ allowed[c] + tokens <= m_MaxTokens + Earned(since[c], last)
  BY <1>1 DEF RateIInv, Account
<1> HIDE DEF last, tokens
<1>3. /\ Earned(since[c], last) \in Nat /\ Earned(last, now) \in Nat
      /\ Earned(since[c], now) \in Nat
      /\ Earned(since[c], last) + Earned(last, now) <= Earned(since[c], now)
  BY <1>1, <1>2, EarnedAdds
<1> QED
  BY <1>1, <1>2, <1>3

\* RateInv: whatever the requests and their times, AllowRequest lets no client
\* have more than the bucket and the seconds since its first request give, for
\* every limit, although each refill moves the time on and rounds down.
THEOREM RateLimited == RateSpec => []RateInv
<1>1. RateSpec => []RateIInv
  BY RateStarts, RateInductive, PTL DEF RateSpec
<1> QED
  BY <1>1, AccountBounds, PTL

-----------------------------------------------------------------------------
(* plugins/ScriptPluginAdapter.  OwnArguments alone is not inductive: it     *)
(* rests on the numbers that s_Counter hands out being fresh and distinct,   *)
(* and on a script nobody has given up on being waited for.                  *)

Writers == {t \in Thread : step[t] = "write"}

\* The bound on calls leaves a number for everyone about to take one.
Room == s_Counter + Cardinality(Writers) <= MaxCalls

\* A call in progress has arguments; one that waits has a number given out,
\* which no other waiting call has and nobody has given up on.
Numbered ==
    /\ \A t \in Thread : step[t] # "idle" => args[t] \in Args
    /\ \A t \in Thread : step[t] = "wait" =>
          call[t] \in Number /\ call[t] < s_Counter /\ call[t] \notin overdue
    /\ \A t, u \in Thread :
          step[t] = "wait" /\ step[u] = "wait" /\ call[t] = call[u] => t = u

\* Numbers not yet given out are unused.
Fresh == \A n \in Number : n >= s_Counter =>
            script[n] = "none" /\ file[n] = NoArgs /\ n \notin overdue

\* A script that is not overdue is waited for.
Awaited ==
    \A n \in Number :
        script[n] \in Output \cup {"spawned", "running"} /\ n \notin overdue =>
            \E t \in Thread : step[t] = "wait" /\ call[t] = n

ScriptIInv == ScriptTypeOK /\ Room /\ Numbered /\ Fresh /\ Awaited /\ OwnArguments

\* How the number of writers changes when a thread moves.
LEMMA WritersMove ==
    ASSUME ScriptTypeOK, NEW t \in Thread, NEW place \in {"idle", "write", "wait"},
           step' = [step EXCEPT ![t] = place]
    PROVE  /\ Cardinality(Writers) \in Nat /\ Cardinality(Writers') \in Nat
           /\ step[t] # "write" /\ place = "write" =>
                 Cardinality(Writers') = Cardinality(Writers) + 1
           /\ step[t] = "write" /\ place # "write" =>
                 /\ Cardinality(Writers') = Cardinality(Writers) - 1
                 /\ Cardinality(Writers) > 0
           /\ step[t] # "write" /\ place # "write" => Writers' = Writers
<1>1. IsFiniteSet(Thread) /\ Writers \subseteq Thread /\ Writers' \subseteq Thread
  BY ScriptAssumption DEF Writers
<1>2. IsFiniteSet(Writers) /\ IsFiniteSet(Writers')
  BY <1>1, FS_Subset
<1>3. Cardinality(Writers) \in Nat /\ Cardinality(Writers') \in Nat
  BY <1>2, FS_CardinalityType
<1>4. Writers' = IF place = "write" THEN Writers \cup {t} ELSE Writers \ {t}
  BY DEF Writers, ScriptTypeOK
<1>5. t \in Writers <=> step[t] = "write"
  BY DEF Writers
<1>6. ASSUME step[t] # "write", place = "write"
      PROVE  Cardinality(Writers') = Cardinality(Writers) + 1
  BY <1>2, <1>4, <1>5, <1>6, FS_AddElement
<1>7. ASSUME step[t] = "write", place # "write"
      PROVE  Cardinality(Writers') = Cardinality(Writers) - 1
  BY <1>2, <1>4, <1>5, <1>7, FS_RemoveElement
<1>8. ASSUME step[t] # "write", place # "write" PROVE Writers' = Writers
  BY <1>4, <1>5, <1>8
<1> QED
  BY <1>3, <1>6, <1>7, <1>8

\* A call that is accepted is about to write and changes no file or script.
LEMMA ExecuteStep ==
    ASSUME ScriptIInv, NEW t \in Thread, NEW a \in Args, ExecuteAsync(t, a)
    PROVE  ScriptIInv'
<1> USE DEF ScriptIInv
<1>1. /\ step[t] = "idle" /\ step' = [step EXCEPT ![t] = "write"]
      /\ args' = [args EXCEPT ![t] = a]
      /\ UNCHANGED <<s_Counter, file, script, got, call, overdue>>
  BY DEF ExecuteAsync
<1>2. ScriptTypeOK'
  BY <1>1 DEF ScriptTypeOK
<1>3. Room'
  <2>1. s_Counter + Cardinality(Writers) < MaxCalls
    BY DEF ExecuteAsync, Writers
  <2>2. Cardinality(Writers') = Cardinality(Writers) + 1 /\ Cardinality(Writers) \in Nat
    BY <1>1, WritersMove
  <2> QED
    BY <1>1, <2>1, <2>2, ScriptAssumption DEF Room, ScriptTypeOK
<1>4. \A u \in Thread : step'[u] = "wait" <=> step[u] = "wait"
  BY <1>1 DEF ScriptTypeOK
<1>5. \A u \in Thread : u # t => args'[u] = args[u] /\ step'[u] = step[u]
  BY <1>1 DEF ScriptTypeOK
<1>6. Numbered' /\ Fresh' /\ Awaited'
  BY <1>1, <1>4, <1>5 DEF Numbered, Fresh, Awaited, ScriptTypeOK
<1>7. OwnArguments'
  BY <1>1, <1>4, <1>5 DEF OwnArguments
<1> QED
  BY <1>2, <1>3, <1>6, <1>7

\* A call writes its arguments under a fresh number and starts its script.
LEMMA WriteStep ==
    ASSUME ScriptIInv, NEW t \in Thread, WriteArgs(t)
    PROVE  ScriptIInv'
<1> USE DEF ScriptIInv
<1> DEFINE n == s_Counter
<1>1. /\ step[t] = "write" /\ step' = [step EXCEPT ![t] = "wait"]
      /\ call' = [call EXCEPT ![t] = n] /\ s_Counter' = n + 1
      /\ file' = [file EXCEPT ![n] = args[t]]
      /\ script' = [script EXCEPT ![n] = "spawned"]
      /\ UNCHANGED <<got, args, overdue>>
  BY DEF WriteArgs, TakeNumber
<1>2. Room' /\ n \in Number /\ n \in Nat /\ n < MaxCalls
  <2>1. /\ Cardinality(Writers') = Cardinality(Writers) - 1
        /\ Cardinality(Writers) > 0 /\ Cardinality(Writers) \in Nat
    BY <1>1, WritersMove
  <2> QED
    BY <1>1, <2>1, ScriptAssumption DEF Room, ScriptTypeOK, Number
<1>3. args[t] \in Args /\ args[t] # NoArgs
  BY <1>1, ScriptAssumption DEF Numbered
<1>4. ScriptTypeOK'
  BY <1>1, <1>2, <1>3, ScriptAssumption DEF ScriptTypeOK
<1>5. script[n] = "none" /\ file[n] = NoArgs /\ n \notin overdue
  BY <1>2 DEF Fresh
<1>6. /\ step'[t] = "wait" /\ call'[t] = n
      /\ \A u \in Thread : u # t => step'[u] = step[u] /\ call'[u] = call[u]
  BY <1>1 DEF ScriptTypeOK
<1>7. /\ file'[n] = args[t] /\ script'[n] = "spawned"
      /\ \A m \in Number : m # n => file'[m] = file[m] /\ script'[m] = script[m]
  BY <1>1, <1>2 DEF ScriptTypeOK
<1>8. \A u \in Thread : u # t /\ step[u] = "wait" =>
         call[u] \in Number /\ call[u] \in Nat /\ call[u] < n /\ call[u] # n
  BY <1>2 DEF Numbered, Number
<1> HIDE DEF n
<1>9. Numbered'
  BY <1>1, <1>2, <1>3, <1>5, <1>6, <1>8 DEF Numbered
<1>10. Fresh'
  BY <1>1, <1>2, <1>7 DEF Fresh, Number, n
<1>11. Awaited'
  BY <1>1, <1>6, <1>7 DEF Awaited, Number
<1>12. OwnArguments'
  <2>1. ASSUME NEW u \in Thread, step'[u] = "wait"
        PROVE  /\ file'[call'[u]] = args'[u]
               /\ script'[call'[u]] # "spawned" => got'[call'[u]] = args'[u]
    BY <1>1, <1>6, <1>7, <1>8, <2>1 DEF OwnArguments
  <2>2. ASSUME NEW m \in Number
        PROVE  /\ script'[m] \in Output \cup {"running"} /\ got'[m] = NoArgs => m \in overdue'
               /\ file'[m] # NoArgs => \E u \in Thread : step'[u] = "wait" /\ call'[u] = m
    <3>1. CASE m = n
      BY <1>6, <1>7, <3>1 DEF Output
    <3>2. CASE m # n
      BY <1>1, <1>6, <1>7, <3>2 DEF OwnArguments
    <3> QED
      BY <3>1, <3>2
  <2> QED
    BY <2>1, <2>2 DEF OwnArguments
<1> QED
  BY <1>2, <1>4, <1>9, <1>10, <1>11, <1>12

\* A file that cannot be written uses up its number and nothing else.
LEMMA WriteFailsStep ==
    ASSUME ScriptIInv, NEW t \in Thread, WriteFails(t)
    PROVE  ScriptIInv'
<1> USE DEF ScriptIInv
<1> DEFINE n == s_Counter
<1>1. /\ step[t] = "write" /\ step' = [step EXCEPT ![t] = "idle"]
      /\ args' = [args EXCEPT ![t] = NoArgs] /\ s_Counter' = n + 1
      /\ file' = [file EXCEPT ![n] = NoArgs]
      /\ UNCHANGED <<script, got, call, overdue>>
  BY DEF WriteFails
<1>2. Room' /\ n \in Number /\ n \in Nat /\ n < MaxCalls
  <2>1. /\ Cardinality(Writers') = Cardinality(Writers) - 1
        /\ Cardinality(Writers) > 0 /\ Cardinality(Writers) \in Nat
    BY <1>1, WritersMove
  <2> QED
    BY <1>1, <2>1, ScriptAssumption DEF Room, ScriptTypeOK, Number
<1>3. ScriptTypeOK'
  BY <1>1, <1>2, ScriptAssumption DEF ScriptTypeOK
<1>4. file' = file
  BY <1>1, <1>2 DEF Fresh, ScriptTypeOK
<1>5. \A u \in Thread : /\ step'[u] = "wait" <=> step[u] = "wait"
                        /\ u # t => step'[u] = step[u] /\ args'[u] = args[u]
  BY <1>1 DEF ScriptTypeOK
<1>6. step'[t] = "idle"
  BY <1>1 DEF ScriptTypeOK
<1> HIDE DEF n
<1>7. Numbered'
  BY <1>1, <1>2, <1>5, <1>6 DEF Numbered, Number, n
<1>8. Fresh' /\ Awaited'
  BY <1>1, <1>2, <1>4, <1>5 DEF Fresh, Awaited, Number, n
<1>9. OwnArguments'
  BY <1>1, <1>4, <1>5, <1>6 DEF OwnArguments
<1> QED
  BY <1>2, <1>3, <1>7, <1>8, <1>9

\* A call that returns, with its script's output or without, takes its file
\* with it and leaves those of the others alone.
LEMMA ReturnStep ==
    ASSUME ScriptIInv, NEW t \in Thread, Ready(t) \/ TimedOut(t)
    PROVE  ScriptIInv'
<1> USE DEF ScriptIInv
<1> DEFINE n == call[t]
<1>1. /\ step[t] = "wait" /\ step' = [step EXCEPT ![t] = "idle"]
      /\ args' = [args EXCEPT ![t] = NoArgs]
      /\ file' = [file EXCEPT ![n] = NoArgs]
      /\ call' = [call EXCEPT ![t] = 0]
      /\ UNCHANGED s_Counter
  BY DEF Ready, TimedOut, Returns
<1>2. n \in Number /\ n \in Nat /\ n < s_Counter /\ n \notin overdue
  BY <1>1 DEF Numbered, Number
<1>3. /\ script' \in [Number -> Output \cup {"none", "spawned", "running", "over"}]
      /\ got' \in [Number -> Args \cup {NoArgs}] /\ overdue' \subseteq Number
      /\ \A m \in Number : m # n => /\ script'[m] = script[m] /\ got'[m] = got[m]
                                    /\ m \in overdue' <=> m \in overdue
      /\ script'[n] = "over" \/ n \in overdue'
  BY <1>2 DEF Ready, TimedOut, ScriptTypeOK
<1>4. /\ file'[n] = NoArgs /\ \A m \in Number : m # n => file'[m] = file[m]
  BY <1>1, <1>2 DEF ScriptTypeOK
<1>5. /\ step'[t] = "idle"
      /\ \A u \in Thread : u # t => /\ step'[u] = step[u] /\ args'[u] = args[u]
                                    /\ call'[u] = call[u]
                                    /\ step[u] = "wait" => call[u] # n /\ call[u] \in Number
  BY <1>1 DEF ScriptTypeOK, Numbered
<1>6. ScriptTypeOK'
  BY <1>1, <1>2, <1>3 DEF ScriptTypeOK
<1>7. Room'
  <2>1. Writers' = Writers
    BY <1>1, WritersMove
  <2> QED
    BY <1>1, <2>1 DEF Room
<1> HIDE DEF n
<1>8. Numbered'
  BY <1>1, <1>3, <1>5 DEF Numbered
<1>9. Fresh'
  BY <1>1, <1>2, <1>3, <1>4 DEF Fresh, Number, ScriptTypeOK
<1>10. Awaited'
  <2> SUFFICES ASSUME NEW m \in Number, script'[m] \in Output \cup {"spawned", "running"},
                      m \notin overdue'
               PROVE  \E u \in Thread : step'[u] = "wait" /\ call'[u] = m
    BY DEF Awaited
  <2>1. m # n
    BY <1>3 DEF Output
  <2>2. PICK u \in Thread : step[u] = "wait" /\ call[u] = m
    BY <1>3, <2>1 DEF Awaited
  <2> QED
    BY <1>5, <2>1, <2>2 DEF n
<1>11. OwnArguments'
  <2>1. ASSUME NEW u \in Thread, step'[u] = "wait"
        PROVE  /\ file'[call'[u]] = args'[u]
               /\ script'[call'[u]] # "spawned" => got'[call'[u]] = args'[u]
    BY <1>3, <1>4, <1>5, <2>1 DEF OwnArguments
  <2>2. ASSUME NEW m \in Number
        PROVE  /\ script'[m] \in Output \cup {"running"} /\ got'[m] = NoArgs => m \in overdue'
               /\ file'[m] # NoArgs => \E u \in Thread : step'[u] = "wait" /\ call'[u] = m
    <3>1. CASE m = n
      BY <1>3, <1>4, <3>1 DEF Output
    <3>2. CASE m # n
      <4>1. script'[m] \in Output \cup {"running"} /\ got'[m] = NoArgs => m \in overdue'
        BY <1>3, <3>2 DEF OwnArguments
      <4>2. ASSUME file'[m] # NoArgs
            PROVE  \E u \in Thread : step'[u] = "wait" /\ call'[u] = m
        <5>1. PICK u \in Thread : step[u] = "wait" /\ call[u] = m
          BY <1>4, <3>2, <4>2 DEF OwnArguments
        <5> QED
          BY <1>5, <3>2, <5>1 DEF n
      <4> QED
        BY <4>1, <4>2
    <3> QED
      BY <3>1, <3>2
  <2> QED
    BY <2>1, <2>2 DEF OwnArguments
<1> QED
  BY <1>6, <1>7, <1>8, <1>9, <1>10, <1>11

\* A script that opens its file finds its own call's arguments, or nothing.
LEMMA ReadsStep ==
    ASSUME ScriptIInv, NEW n \in Number, ScriptReads(n)
    PROVE  ScriptIInv'
<1> USE DEF ScriptIInv
<1>1. /\ script[n] = "spawned" /\ script' = [script EXCEPT ![n] = "running"]
      /\ got' = [got EXCEPT ![n] = file[n]]
      /\ UNCHANGED <<s_Counter, file, step, call, args, overdue>>
  BY DEF ScriptReads
<1>2. ScriptTypeOK'
  BY <1>1 DEF ScriptTypeOK
<1>3. Room' /\ Numbered'
  BY <1>1 DEF Room, Numbered, Writers
<1>4. /\ script'[n] = "running" /\ got'[n] = file[n]
      /\ \A m \in Number : m # n => script'[m] = script[m] /\ got'[m] = got[m]
  BY <1>1 DEF ScriptTypeOK
<1>5. Fresh' /\ Awaited'
  BY <1>1, <1>4 DEF Fresh, Awaited
<1>6. n \notin overdue => file[n] # NoArgs
  <2> SUFFICES ASSUME n \notin overdue PROVE file[n] # NoArgs
    OBVIOUS
  <2>1. PICK t \in Thread : step[t] = "wait" /\ call[t] = n
    BY <1>1 DEF Awaited
  <2> QED
    BY <2>1, ScriptAssumption DEF OwnArguments, Numbered
<1>7. \A t \in Thread : step[t] = "wait" => call[t] \in Number
  BY DEF Numbered
<1>8. OwnArguments'
  BY <1>1, <1>4, <1>6, <1>7 DEF OwnArguments
<1> QED
  BY <1>2, <1>3, <1>5, <1>8

\* A script that ends changes what it printed, and is forgotten when overdue.
LEMMA RunStep ==
    ASSUME ScriptIInv, NEW n \in Number, RunCommand(n)
    PROVE  ScriptIInv'
<1> USE DEF ScriptIInv
<1>1. script[n] = "running" /\ UNCHANGED <<s_Counter, file, step, call, args>>
  BY DEF RunCommand
<1>2. /\ script' \in [Number -> Output \cup {"none", "spawned", "running", "over"}]
      /\ got' \in [Number -> Args \cup {NoArgs}] /\ overdue' \subseteq overdue
      /\ \A m \in Number : m # n => /\ script'[m] = script[m] /\ got'[m] = got[m]
                                    /\ m \in overdue' <=> m \in overdue
  BY DEF RunCommand, ScriptTypeOK
<1>3. \/ n \in overdue /\ script'[n] = "over"
      \/ n \notin overdue /\ n \notin overdue' /\ script'[n] \in Output /\ got'[n] = got[n]
  BY DEF RunCommand, ScriptTypeOK
<1>4. ScriptTypeOK'
  BY <1>1, <1>2 DEF ScriptTypeOK
<1>5. Room' /\ Numbered'
  BY <1>1, <1>2 DEF Room, Numbered, Writers
<1>6. Fresh'
  BY <1>1, <1>2 DEF Fresh
<1>7. Awaited'
  BY <1>1, <1>2, <1>3 DEF Awaited, Output
<1>8. OwnArguments'
  <2>1. ASSUME NEW t \in Thread, step'[t] = "wait"
        PROVE  /\ file'[call'[t]] = args'[t]
               /\ script'[call'[t]] # "spawned" => got'[call'[t]] = args'[t]
    <3>1. step[t] = "wait" /\ call[t] \in Number /\ call[t] \notin overdue
      BY <1>1, <2>1 DEF Numbered
    <3> QED
      BY <1>1, <1>2, <1>3, <3>1 DEF OwnArguments
  <2>2. ASSUME NEW m \in Number
        PROVE  /\ script'[m] \in Output \cup {"running"} /\ got'[m] = NoArgs => m \in overdue'
               /\ file'[m] # NoArgs => \E t \in Thread : step'[t] = "wait" /\ call'[t] = m
    BY <1>1, <1>2, <1>3 DEF OwnArguments, Output
  <2> QED
    BY <2>1, <2>2 DEF OwnArguments
<1> QED
  BY <1>4, <1>5, <1>6, <1>7, <1>8

\* ScriptIInv is inductive.
LEMMA ScriptInductive == ScriptIInv /\ [ScriptNext]_scriptVars => ScriptIInv'
<1> SUFFICES ASSUME ScriptIInv, [ScriptNext]_scriptVars PROVE ScriptIInv'
  OBVIOUS
<1>1. ASSUME NEW t \in Thread, ScriptStep(t) PROVE ScriptIInv'
  BY <1>1, ExecuteStep, WriteStep, WriteFailsStep, ReturnStep DEF ScriptStep
<1>2. CASE Scripts
  BY <1>2, ReadsStep, RunStep DEF Scripts
<1>3. CASE UNCHANGED scriptVars
  BY <1>3 DEF scriptVars, ScriptIInv, ScriptTypeOK, Room, Writers, Numbered, Fresh,
              Awaited, OwnArguments
<1> QED
  BY <1>1, <1>2, <1>3 DEF ScriptNext

\* No call has been made at the start.
LEMMA ScriptStarts == ScriptInit => ScriptIInv
<1> SUFFICES ASSUME ScriptInit PROVE ScriptIInv
  OBVIOUS
<1>1. Writers = {}
  BY DEF ScriptInit, Writers
<1>2. Room
  BY <1>1, FS_EmptySet, ScriptAssumption DEF ScriptInit, Room
<1>3. ScriptTypeOK
  BY ScriptAssumption DEF ScriptInit, ScriptTypeOK, Number
<1> QED
  BY <1>2, <1>3 DEF ScriptInit, ScriptIInv, Numbered, Fresh, Awaited, OwnArguments, Output

\* ScriptInv: whatever the calls, their time-outs and the pace of the scripts,
\* a script of ExecuteAsync works on its own call's arguments or finds no file,
\* and no file outlives its call.
THEOREM ScriptsGetOwnArguments == ScriptSpec => []ScriptInv
<1>1. ScriptSpec => []ScriptIInv
  BY ScriptStarts, ScriptInductive, PTL DEF ScriptSpec
<1>2. ScriptIInv => ScriptInv
  BY DEF ScriptIInv, ScriptInv
<1> QED
  BY <1>1, <1>2, PTL

-----------------------------------------------------------------------------
(* The server                                                              *)

\* A thread that calls a script does so for the POST it handles.
CallOfRequest == \A t \in Thread : pc[t] = "call" => args[t] = req[t].args

HttpIInv == ScriptIInv /\ HttpInv /\ CallOfRequest

\* Every step of the server is a step of the limiter or leaves it alone.
LEMMA StepsLimiter == [Next]_vars => [RateNext]_rateVars
<1> SUFFICES ASSUME [Next]_vars PROVE [RateNext]_rateVars
  OBVIOUS
<1>1. ASSUME NEW t \in Thread, NEW r \in Request,
             Get(t, r) \/ RefuseLarge(t, r) \/ HandleRequest(t, r)
      PROVE  [RateNext]_rateVars
  BY <1>1, HttpAssumption DEF Get, RefuseLarge, HandleRequest, RateNext
<1>2. ASSUME NEW t \in Thread, Handler(t) PROVE UNCHANGED rateVars
  BY <1>2 DEF Handler, LogFailure, WriteTempFile, ToolReturns
<1> QED
  BY <1>1, <1>2 DEF Next, Arrive, vars, RateNext

\* Every step of the server is a step of the adapter or leaves it alone.
LEMMA StepsScripts == [Next]_vars => [ScriptNext]_scriptVars
<1> SUFFICES ASSUME [Next]_vars PROVE [ScriptNext]_scriptVars
  OBVIOUS
<1>1. ASSUME NEW t \in Thread, NEW r \in Request,
             Get(t, r) \/ RefuseLarge(t, r) \/ HandleRequest(t, r)
      PROVE  UNCHANGED scriptVars \/ ExecuteAsync(t, r.args)
  BY <1>1 DEF Get, RefuseLarge, HandleRequest
<1>2. ASSUME NEW t \in Thread, Handler(t)
      PROVE  UNCHANGED scriptVars \/ WriteArgs(t) \/ WriteFails(t) \/ Ready(t) \/ TimedOut(t)
  BY <1>2 DEF Handler, LogFailure, WriteTempFile, ToolReturns
<1>3. \A r \in Request : r.args \in Args
  BY HttpAssumption
<1> QED
  BY <1>1, <1>2, <1>3 DEF Next, Arrive, vars, ScriptNext, ScriptStep

\* The server behaves towards the limiter and the scripts as each alone: no
\* handler thread charges a bucket or touches a call's file but through
\* AllowRequest and ExecuteAsync.
THEOREM ServerImplementsParts == Spec => RateSpec /\ ScriptSpec
<1>1. Init => RateInit /\ ScriptInit
  BY DEF Init
<1> QED
  BY <1>1, StepsLimiter, StepsScripts, PTL DEF Spec, RateSpec, ScriptSpec

\* RateInv in the server: however handler threads interleave, no client of
\* POST /mcp gets past RateLimiter more often than its limit allows.
THEOREM ServerIsRateLimited == Spec => []RateInv
  BY ServerImplementsParts, RateLimited, PTL

\* ScriptInv in the server: no request's script reads the arguments of
\* another's.
THEOREM ServerKeepsArgumentsApart == Spec => []ScriptInv
  BY ServerImplementsParts, ScriptsGetOwnArguments, PTL

-----------------------------------------------------------------------------
\* What Respond does to a thread, and when it leaves a reply.
LEMMA RespondEffect ==
    ASSUME TypeOK, NEW t \in Thread, NEW r, NEW status, Respond(t, r, status)
    PROVE  /\ pc' \in [Thread -> {"idle", "call", "badRequest", "badResponse"}]
           /\ req' \in [Thread -> Request \cup {NoRequest}]
           /\ pc'[t] = "idle" /\ req'[t] = NoRequest
           /\ \A u \in Thread : u # t => pc'[u] = pc[u] /\ req'[u] = req[u]
           /\ status # 200 => reply' = NoReply
           /\ reply' # NoReply /\ pc[t] = "call" =>
                 reply'.args = r.args /\ reply'.got = got[call[t]]
                 /\ reply'.output = script[call[t]]
  BY DEF Respond, TypeOK

\* A step of a thread that has no call before and none after.
LEMMA ThreadWithoutCall ==
    ASSUME HttpIInv, ScriptIInv', NEW t \in Thread, pc[t] # "call",
           UNCHANGED scriptVars, crashed' \in BOOLEAN,
           pc' \in [Thread -> {"idle", "call", "badRequest", "badResponse"}],
           req' \in [Thread -> Request \cup {NoRequest}],
           pc'[t] # "call", pc'[t] = "idle" <=> req'[t] = NoRequest,
           \A u \in Thread : u # t => pc'[u] = pc[u] /\ req'[u] = req[u],
           reply' = NoReply
    PROVE  HttpIInv'
  BY DEF HttpIInv, HttpInv, TypeOK, OkMeansToolSucceeded, CallOfRequest, scriptVars

\* No error text becomes a 200.
LEMMA ErrorStatus == \A error : Status(error) # 200
  BY DEF Status

\* A request that arrives is answered with an error, or its call begins.
LEMMA ArriveStep ==
    ASSUME HttpIInv, ScriptIInv', NEW t \in Thread, NEW r \in Request,
           Get(t, r) \/ RefuseLarge(t, r) \/ HandleRequest(t, r)
    PROVE  HttpIInv'
<1>0. TypeOK /\ NoRequest \notin Request
  BY HttpAssumption DEF HttpIInv, HttpInv
<1>1. CASE Get(t, r)
  <2>1. /\ pc[t] = "idle" /\ r.route = "GET" /\ Respond(t, r, 200)
        /\ UNCHANGED scriptVars /\ crashed' = crashed
    BY <1>1 DEF Get
  <2>2. reply' = NoReply
    BY <2>1 DEF Respond
  <2>3. crashed' \in BOOLEAN
    BY <1>0, <2>1 DEF TypeOK
  <2> QED
    BY <1>0, <2>1, <2>2, <2>3, RespondEffect, ThreadWithoutCall
<1>2. CASE RefuseLarge(t, r)
  <2>1. /\ pc[t] = "idle" /\ Respond(t, r, Status("Payload too large"))
        /\ UNCHANGED scriptVars /\ crashed' = crashed
    BY <1>2 DEF RefuseLarge
  <2>2. crashed' \in BOOLEAN
    BY <1>0, <2>1 DEF TypeOK
  <2> QED
    <3> DEFINE status == Status("Payload too large")
    <3>1. status # 200 /\ Respond(t, r, status)
      BY <2>1, ErrorStatus
    <3> HIDE DEF status
    <3>2. /\ pc' \in [Thread -> {"idle", "call", "badRequest", "badResponse"}]
          /\ req' \in [Thread -> Request \cup {NoRequest}]
          /\ pc'[t] = "idle" /\ req'[t] = NoRequest /\ reply' = NoReply
          /\ \A u \in Thread : u # t => pc'[u] = pc[u] /\ req'[u] = req[u]
      BY <1>0, <3>1, RespondEffect
    <3> QED
      BY <2>1, <2>2, <3>2, ThreadWithoutCall
<1>3. CASE HandleRequest(t, r)
  <2> DEFINE verdict == Verdict(r, Allows(r.client))
  <2>0. pc[t] = "idle"
    BY <1>3 DEF HandleRequest
  <2>1. CASE verdict = "execute"
    <3>1. /\ ExecuteAsync(t, r.args) /\ pc' = [pc EXCEPT ![t] = "call"]
          /\ req' = [req EXCEPT ![t] = r] /\ reply' = NoReply /\ crashed' = crashed
      BY <1>3, <2>1 DEF HandleRequest
    <3>2. /\ step' = [step EXCEPT ![t] = "write"] /\ args' = [args EXCEPT ![t] = r.args]
          /\ step \in [Thread -> {"idle", "write", "wait"}]
          /\ args \in [Thread -> Args \cup {NoArgs}]
      BY <3>1 DEF ExecuteAsync, HttpIInv, ScriptIInv, ScriptTypeOK
    <3>3. TypeOK'
      BY <1>0, <3>1, <3>2 DEF TypeOK
    <3>4. CallOfRequest'
      BY <1>0, <3>1, <3>2 DEF CallOfRequest, HttpIInv, TypeOK
    <3> QED
      BY <3>1, <3>3, <3>4 DEF HttpIInv, HttpInv, OkMeansToolSucceeded
  <2>2. CASE verdict = "Invalid request schema"
    <3>1. /\ FailValidation(t, "badRequest") /\ req' = [req EXCEPT ![t] = r]
          /\ reply' = NoReply /\ UNCHANGED scriptVars
      BY <1>3, <2>2 DEF HandleRequest
    <3>2. pc' = [pc EXCEPT ![t] = "badRequest"] /\ crashed' \in BOOLEAN
      BY <1>0, <3>1 DEF FailValidation, TypeOK
    <3>3. /\ pc' \in [Thread -> {"idle", "call", "badRequest", "badResponse"}]
          /\ req' \in [Thread -> Request \cup {NoRequest}]
          /\ pc'[t] = "badRequest" /\ req'[t] # NoRequest
          /\ \A u \in Thread : u # t => pc'[u] = pc[u] /\ req'[u] = req[u]
      BY <1>0, <3>1, <3>2 DEF TypeOK
    <3> QED
      BY <2>0, <3>1, <3>2, <3>3, ThreadWithoutCall
  <2>3. CASE verdict \notin {"execute", "Invalid request schema"}
    <3>1. Respond(t, r, Status(verdict)) /\ UNCHANGED scriptVars /\ crashed' = crashed
      BY <1>3, <2>3 DEF HandleRequest
    <3>2. crashed' \in BOOLEAN
      BY <1>0, <3>1 DEF TypeOK
    <3> QED
      BY <1>0, <2>0, <3>1, <3>2, ErrorStatus, RespondEffect, ThreadWithoutCall
  <2> QED
    BY <2>1, <2>2, <2>3
<1> QED
  BY <1>1, <1>2, <1>3

\* A call that ends is answered 200 only with a status of its own script's.
LEMMA ReturnsStep ==
    ASSUME HttpIInv, ScriptIInv', NEW t \in Thread, ToolReturns(t)
    PROVE  HttpIInv'
<1>0. /\ TypeOK /\ pc[t] = "call" /\ args[t] = req[t].args
      /\ req[t] \in Request \cup {NoRequest} /\ req[t] # NoRequest
  <2>1. TypeOK /\ CallOfRequest /\ pc[t] = "call"
    BY DEF HttpIInv, HttpInv, ToolReturns
  <2>2. args[t] = req[t].args
    BY <2>1, Zenon DEF CallOfRequest
  <2>3. req[t] \in Request \cup {NoRequest}
    BY <2>1 DEF TypeOK
  <2>4. req[t] # NoRequest
    BY <2>1 DEF TypeOK
  <2> QED
    BY <2>1, <2>2, <2>3, <2>4
<1>1. /\ step' = [step EXCEPT ![t] = "idle"] /\ args' = [args EXCEPT ![t] = NoArgs]
      /\ step \in [Thread -> {"idle", "write", "wait"}]
      /\ args \in [Thread -> Args \cup {NoArgs}]
  BY DEF ToolReturns, WriteFails, Ready, TimedOut, Returns, HttpIInv, ScriptIInv, ScriptTypeOK
<1>2. PICK answer : /\ CreateResponse(t, answer)
                    /\ \/ answer = "noStatus"
                       \/ Ready(t) /\ answer = Answer(script[call[t]])
  BY DEF ToolReturns
<1>3. /\ pc' \in [Thread -> {"idle", "call", "badRequest", "badResponse"}]
      /\ req' \in [Thread -> Request \cup {NoRequest}]
      /\ pc'[t] \in {"idle", "badResponse"} /\ (pc'[t] = "idle" <=> req'[t] = NoRequest)
      /\ \A u \in Thread : u # t => pc'[u] = pc[u] /\ req'[u] = req[u]
      /\ crashed' \in BOOLEAN
  <2>1. CASE answer = "noStatus"
    BY <1>0, <1>2, <2>1 DEF CreateResponse, FailValidation, TypeOK
  <2>2. CASE answer # "noStatus"
    <3>1. /\ Respond(t, req[t], IF answer \in {"throws", "okError"} THEN 400 ELSE 200)
          /\ crashed' = crashed
      BY <1>2, <2>2 DEF CreateResponse
    <3>2. crashed' \in BOOLEAN
      BY <1>0, <3>1 DEF TypeOK
    <3> QED
      BY <1>0, <3>1, <3>2, RespondEffect
  <2> QED
    BY <2>1, <2>2
<1>4. TypeOK'
  BY <1>0, <1>1, <1>3 DEF TypeOK
<1>5. CallOfRequest'
  BY <1>1, <1>3 DEF CallOfRequest, HttpIInv
<1>6. OkMeansToolSucceeded'
  <2> SUFFICES ASSUME reply' # NoReply
               PROVE  reply'.output \in {"ok", "okOddError"} /\ reply'.got = reply'.args
    BY DEF OkMeansToolSucceeded
  <2>1. answer # "noStatus"
    BY <1>2 DEF CreateResponse
  <2>2. Ready(t) /\ answer = Answer(script[call[t]])
    BY <1>2, <2>1
  <2>3. Respond(t, req[t], IF answer \in {"throws", "okError"} THEN 400 ELSE 200)
    BY <1>2, <2>1 DEF CreateResponse
  <2>4. /\ answer \notin {"throws", "okError"}
        /\ reply'.args = req[t].args /\ reply'.got = got[call[t]]
        /\ reply'.output = script[call[t]]
    BY <1>0, <2>3, RespondEffect
  <2>5. step[t] = "wait" /\ script[call[t]] \in Output
    BY <2>2 DEF Ready
  <2>6. script[call[t]] \in {"ok", "okOddError"}
    BY <2>1, <2>2, <2>4, <2>5 DEF Answer, Output
  <2>7. got[call[t]] = args[t]
    BY <2>5, <2>6 DEF HttpIInv, ScriptIInv, OwnArguments
  <2> QED
    BY <1>0, <2>4, <2>6, <2>7
<1> QED
  BY <1>4, <1>5, <1>6 DEF HttpIInv, HttpInv

\* HttpIInv is inductive.
LEMMA HttpInductive == HttpIInv /\ [Next]_vars => HttpIInv'
<1> SUFFICES ASSUME HttpIInv, [Next]_vars PROVE HttpIInv'
  OBVIOUS
<1>0. ScriptIInv' /\ TypeOK
  BY StepsScripts, ScriptInductive DEF HttpIInv, HttpInv
<1>1. ASSUME NEW t \in Thread, Arrive(t) PROVE HttpIInv'
  BY <1>0, <1>1, ArriveStep DEF Arrive
<1>2. ASSUME NEW t \in Thread, LogFailure(t) PROVE HttpIInv'
  <2>1. /\ pc[t] # "call" /\ Respond(t, req[t], 400)
        /\ UNCHANGED scriptVars /\ crashed' = crashed
    BY <1>2 DEF LogFailure
  <2>2. crashed' \in BOOLEAN
    BY <1>0, <2>1 DEF TypeOK
  <2> QED
    BY <1>0, <2>1, <2>2, RespondEffect, ThreadWithoutCall
<1>3. ASSUME NEW t \in Thread, WriteTempFile(t) PROVE HttpIInv'
  <2>1. /\ step[t] = "write" /\ step' = [step EXCEPT ![t] = "wait"] /\ args' = args
        /\ reply' = NoReply /\ UNCHANGED <<pc, req, crashed>>
    BY <1>3 DEF WriteTempFile, WriteArgs
  <2>2. TypeOK'
    BY <1>0, <2>1 DEF TypeOK, HttpIInv, ScriptIInv, ScriptTypeOK
  <2> QED
    BY <1>0, <2>1, <2>2 DEF HttpIInv, HttpInv, OkMeansToolSucceeded, CallOfRequest
<1>4. ASSUME NEW t \in Thread, ToolReturns(t) PROVE HttpIInv'
  BY <1>0, <1>4, ReturnsStep
<1>5. ASSUME UNCHANGED <<step, args, pc, req, crashed>>, reply' = NoReply \/ reply' = reply
      PROVE  HttpIInv'
  BY <1>0, <1>5 DEF HttpIInv, HttpInv, TypeOK, OkMeansToolSucceeded, CallOfRequest
<1>6. CASE Scripts /\ reply' = NoReply /\ UNCHANGED <<rateVars, pc, req, crashed>>
  BY <1>5, <1>6 DEF Scripts, ScriptReads, RunCommand
<1>7. CASE Tick /\ reply' = NoReply /\ UNCHANGED <<scriptVars, pc, req, crashed>>
  BY <1>5, <1>7 DEF scriptVars
<1>8. CASE UNCHANGED vars
  BY <1>5, <1>8 DEF vars, scriptVars
<1> QED
  BY <1>1, <1>2, <1>3, <1>4, <1>6, <1>7, <1>8 DEF Next, Handler

\* HttpInv: POST /mcp is answered 200 only if the script of that request, on
\* its own arguments, came to its end in time with a status other than error,
\* whatever ProtocolHandler's other threads do.
THEOREM OkOnlyAfterSuccess == Spec => []HttpInv
<1>1. Init => HttpIInv
  <2> SUFFICES ASSUME Init PROVE HttpIInv
    OBVIOUS
  <2>1. ScriptIInv
    BY ScriptStarts DEF Init
  <2>2. TypeOK
    BY DEF Init, ScriptInit, TypeOK
  <2>3. CallOfRequest /\ OkMeansToolSucceeded
    BY DEF Init, CallOfRequest, OkMeansToolSucceeded
  <2> QED
    BY <2>1, <2>2, <2>3 DEF HttpIInv, HttpInv
<1>2. HttpIInv => HttpInv
  BY DEF HttpIInv
<1> QED
  BY <1>1, <1>2, HttpInductive, PTL DEF Spec
=============================================================================
