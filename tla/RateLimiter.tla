----------------------------- MODULE RateLimiter -----------------------------
(***************************************************************************)
(* security/RateLimiter: a token bucket for each client address, refilled   *)
(* in whole tokens from whole seconds when a request comes.  AllowRequest   *)
(* runs under one mutex and is one step; the clock moves between requests.  *)
(* size_t is a number modulo Word.                                          *)
(***************************************************************************)
EXTENDS Naturals

CONSTANTS Client,
          Limits,       \* the settings of requestsPerMinute considered
          Second,       \* ticks of the clock in a second
          Minute,       \* seconds in a minute
          Word,         \* 2^64
          MaxTime       \* bound on the clock

ASSUME RateAssumption ==
    /\ Limits \subseteq Nat /\ MaxTime \in Nat
    /\ Second \in Nat \ {0} /\ Minute \in Nat \ {0} /\ Word \in Nat \ {0}
    /\ \A limit \in Limits : limit * (MaxTime \div Second + 1) < Word

VARIABLES
    m_MaxTokens,    \* requestsPerMinute
    m_Buckets,      \* tokens and time of the last refill, of the clients seen
    now,            \* the steady clock
    allowed,        \* history: requests allowed, by client
    since           \* history: when the client's bucket was made

rateVars == <<m_MaxTokens, m_Buckets, now, allowed, since>>

RateInit ==
    /\ m_MaxTokens \in Limits
    /\ m_Buckets = [c \in {} |-> 0]
    /\ now = 0
    /\ allowed = [c \in Client |-> 0] /\ since = [c \in Client |-> 0]

Tick ==
    /\ now < MaxTime
    /\ now' = now + 1
    /\ UNCHANGED <<m_MaxTokens, m_Buckets, allowed, since>>

Smaller(a, b) == IF a < b THEN a ELSE b

\* Fault: the refill has no upper bound.
RefillUncapped(bucket) ==
    LET elapsed == (now - bucket.m_LastRefill) \div Second
    IN  IF elapsed = 0 THEN bucket
        ELSE [m_Tokens |-> bucket.m_Tokens + elapsed * m_MaxTokens, m_LastRefill |-> now]

\* Less than a second changes nothing; more sets the time to now, although the
\* tokens are rounded down.
Refilled(bucket) ==
    LET elapsed == (now - bucket.m_LastRefill) \div Second
        refill  == ((elapsed * m_MaxTokens) % Word) \div Minute
    IN  IF elapsed = 0 THEN bucket
        ELSE [m_Tokens |-> Smaller(m_MaxTokens, (bucket.m_Tokens + refill) % Word),
              m_LastRefill |-> now]

\* A first request is allowed whatever the limit, and a limit of 0 wraps.
FirstBucket == [m_Tokens |-> (m_MaxTokens + Word - 1) % Word, m_LastRefill |-> now]

Seen == DOMAIN m_Buckets
Allows(c) == c \in Seen => Refilled(m_Buckets[c]).m_Tokens > 0

\* The bucket of c after the request.
Charged(c) ==
    IF c \notin Seen THEN FirstBucket
    ELSE LET bucket == Refilled(m_Buckets[c])
         IN  IF Allows(c) THEN [bucket EXCEPT !.m_Tokens = @ - 1] ELSE bucket

AllowRequest(c) ==
    /\ m_Buckets' = [d \in Seen \cup {c} |-> IF d = c THEN Charged(c) ELSE m_Buckets[d]]
    /\ since' = IF c \in Seen THEN since ELSE [since EXCEPT ![c] = now]
    /\ allowed' = IF Allows(c) THEN [allowed EXCEPT ![c] = @ + 1] ELSE allowed
    /\ UNCHANGED <<m_MaxTokens, now>>

-----------------------------------------------------------------------------
(* The limiter alone, for its theorems.                                    *)
RateNext == Tick \/ \E c \in Client : AllowRequest(c)
RateSpec == RateInit /\ [][RateNext]_rateVars

RateTypeOK ==
    /\ m_MaxTokens \in Limits /\ now \in 0 .. MaxTime
    /\ Seen \subseteq Client
    /\ m_Buckets \in [Seen -> [m_Tokens : 0 .. Word - 1, m_LastRefill : 0 .. now]]
    /\ allowed \in [Client -> Nat] /\ since \in [Client -> 0 .. now]

\* A client is never allowed more requests than the bucket holds and the time
\* since its first request has refilled, whatever the order of requests and
\* whatever is lost to rounding.  A limit of 0 allows none but those in the
\* first second, in which the wrapped count is not yet capped.
RateBound ==
    \A c \in Seen :
        IF m_MaxTokens > 0
        THEN allowed[c] <= m_MaxTokens
                              + (((now - since[c]) \div Second) * m_MaxTokens) \div Minute
        ELSE m_Buckets[c].m_LastRefill # since[c] => m_Buckets[c].m_Tokens = 0

\* What holds of the limiter at every step.
RateInv == RateTypeOK /\ RateBound
=============================================================================
