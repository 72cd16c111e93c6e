--------------------------- MODULE HttpRateLimit ---------------------------
(***************************************************************************)
(* The request budget of the HTTP endpoint (_http_rate_limit_allow in      *)
(* src/source/server.py, called by MCPHTTPAuthMiddleware before it         *)
(* authenticates): per client address, the times of the requests let       *)
(* through in the last window.  A request over the budget is refused with  *)
(* the number of seconds after which to try again.                         *)
(*                                                                         *)
(* Time passes in ticks, of which a second has several: the clock is a     *)
(* float, the answer a whole number of seconds.  The clock is taken not to *)
(* go back.                                                                *)
(***************************************************************************)
EXTENDS Integers, Sequences

CONSTANTS
    Clients,      \* addresses
    Budget,       \* MCP_HTTP_RATE_LIMIT_REQUESTS
    Window,       \* MCP_HTTP_RATE_LIMIT_WINDOW_SECONDS, in ticks
    Second,       \* ticks of a second
    RateMaxNow    \* bound on the clock

ASSUME RateAssumption ==
    /\ Budget \in Nat \ {0} /\ Window \in Nat \ {0} /\ Second \in Nat \ {0} /\ RateMaxNow \in Nat

VARIABLES
    rateNow,
    rateBucket,   \* the times of the requests that still count
    rateLet,      \* history: the times of all requests let through
    rateWait      \* history: when the last refusal told the client to be back; 0: none since it was let through

rateVars == <<rateNow, rateBucket, rateLet, rateWait>>

RateTypeOK ==
    /\ rateNow \in Nat
    /\ rateBucket \in [Clients -> Seq(Nat)]
    /\ \A c \in Clients : Len(rateBucket[c]) <= Budget
    /\ rateLet \in [Clients -> Seq(Nat)]
    /\ rateWait \in [Clients -> Nat]

RateInit ==
    /\ rateNow = 0
    /\ rateBucket = [c \in Clients |-> <<>>]
    /\ rateLet = [c \in Clients |-> <<>>]
    /\ rateWait = [c \in Clients |-> 0]

-----------------------------------------------------------------------------
\* Broken variant: what is exactly a window old does not count any more.
OutdatedAtEdge(bucket, k) ==
    /\ \A i \in 1..k : bucket[i] <= rateNow - Window
    /\ k < Len(bucket) => bucket[k + 1] > rateNow - Window

\* The first k of the bucket, and no more, are popped: they are older than the window.
Outdated(bucket, k) ==
    /\ \A i \in 1..k : bucket[i] < rateNow - Window
    /\ k < Len(bucket) => bucket[k + 1] >= rateNow - Window

\* Broken variant: the seconds are cut off, not rounded up.
RetryCut(oldest, seconds) ==
    LET left == oldest + Window - rateNow IN
    \/ seconds = 1 /\ left < 2 * Second
    \/ seconds > 1 /\ seconds * Second <= left /\ left < (seconds + 1) * Second

\* max(1, ceil(bucket[0] + window - now)).
RetryAfter(oldest, seconds) ==
    LET left == oldest + Window - rateNow IN
    /\ left <= seconds * Second
    /\ seconds > 1 => (seconds - 1) * Second < left

RateFull(bucket) == Len(bucket) >= Budget

LetThrough(c, bucket) ==
    /\ ~RateFull(bucket)
    /\ rateBucket' = [rateBucket EXCEPT ![c] = Append(bucket, rateNow)]
    /\ rateLet' = [rateLet EXCEPT ![c] = Append(@, rateNow)]
    /\ rateWait' = [rateWait EXCEPT ![c] = 0]

Refuse(c, bucket) ==
    /\ RateFull(bucket)
    /\ rateBucket' = [rateBucket EXCEPT ![c] = bucket]
    /\ \E seconds \in 1..(Window + 1) :
          /\ RetryAfter(bucket[1], seconds)
          /\ rateWait' = [rateWait EXCEPT ![c] = rateNow + seconds * Second]
    /\ UNCHANGED rateLet

\* A request from this address, under the lock.
Request(c) ==
    /\ \E k \in 0..Len(rateBucket[c]) :
          /\ Outdated(rateBucket[c], k)
          /\ LET bucket == SubSeq(rateBucket[c], k + 1, Len(rateBucket[c]))
             IN LetThrough(c, bucket) \/ Refuse(c, bucket)
    /\ UNCHANGED rateNow

RateTick ==
    /\ rateNow < RateMaxNow
    /\ rateNow' = rateNow + 1
    /\ UNCHANGED <<rateBucket, rateLet, rateWait>>

RateNext == RateTick \/ \E c \in Clients : Request(c)

RateSpec == RateInit /\ [][RateNext]_rateVars

-----------------------------------------------------------------------------
\* Properties.

\* However the requests are spread, of one address no more than the budget are let
\* through in any span of one window, both ends included.
WithinBudget ==
    \A c \in Clients : \A i \in DOMAIN rateLet[c] :
        i + Budget \in DOMAIN rateLet[c] => rateLet[c][i + Budget] - rateLet[c][i] > Window

\* A client that was refused and waits longer than it was told is not refused again,
\* unless it has been let through in the meantime.
WaitSuffices ==
    [][\A c \in Clients :
         rateWait'[c] \notin {rateWait[c], 0} => rateWait[c] = 0 \/ rateNow <= rateWait[c]]_rateVars

-----------------------------------------------------------------------------
\* What makes them inductive: the bucket is the end of the requests let through, the
\* others are older than a window, and a refused client's bucket is full.
BucketIsEnd ==
    \A c \in Clients :
        LET let == rateLet[c]
            bucket == rateBucket[c]
            gone == Len(let) - Len(bucket)
        IN /\ Len(bucket) <= Len(let)
           /\ \A i \in 1..Len(bucket) : bucket[i] = let[gone + i]
           /\ \A i \in 1..gone : let[i] < rateNow - Window
           /\ \A i \in 1..Len(let) : let[i] <= rateNow

RefusedIsFull ==
    \A c \in Clients :
        rateWait[c] # 0 => /\ Len(rateBucket[c]) = Budget
                           /\ rateBucket[c][1] + Window <= rateWait[c]

RateIInv == RateTypeOK /\ WithinBudget /\ BucketIsEnd /\ RefusedIsFull
=============================================================================
