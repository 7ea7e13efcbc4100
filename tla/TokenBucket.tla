----------------------------- MODULE TokenBucket -----------------------------
(***************************************************************************)
(* The rate limiter's token bucket: the Lua script that Redis evaluates    *)
(* atomically for every limited operation (src/lib/redis/index.ts) and the *)
(* two validators its result passes through, there and in                  *)
(* src/graphql/operation-limiter.ts.                                       *)
(*                                                                         *)
(* Tokens are kept in fractions of 1/Scale, and the part of a fraction     *)
(* that a refill leaves over in "remainder", in units of 1/interval.  The  *)
(* clock is the one of the Redis server; it may be stepped back.  A        *)
(* deployment may change the policy of buckets that exist.                 *)
(***************************************************************************)
EXTENDS Integers

CONSTANTS
  Policies,      \* the policies an operation class may be given
  Costs,         \* the costs of its operations
  Scale,         \* TOKEN_MICRO_SCALE
  Absent,        \* no such key in Redis
  MaxTime,       \* bound: where the clock stops
  Budget,        \* bound: steps back of the clock and deployments
  MaxStep        \* bound: the length of a step back

CeilDiv(a, b) == (a + b - 1) \div b

\* The time to live that validateTokenBucketInput and validPolicy ask for.
FullRefill(p) == CeilDiv(p.capacity, p.refill) * p.interval

\* What Redis stores under a key; a missing key is none of these.
Bucket == [tokens : Nat, updated : Int, remainder : Nat, expiry : Int]

TokenBucketAssumption ==
  /\ Policies \subseteq [capacity : Nat \ {0}, refill : Nat \ {0},
                         interval : Nat \ {0}, ttl : Nat \ {0}]
  /\ \A p \in Policies : FullRefill(p) <= p.ttl /\ \A c \in Costs : c <= p.capacity
  /\ Costs \subseteq Nat \ {0}
  /\ Scale \in Nat \ {0}
  /\ MaxTime \in Nat /\ Budget \in Nat /\ MaxStep \in Nat
  /\ Absent \notin Bucket

VARIABLES
  policy,     \* the policy in force
  bucket,     \* the hash stored under the key: tokens, updated, remainder, expiry
  clock,      \* the TIME of the Redis server
  granted,    \* history: the tokens granted since the key or the policy is new
  elapsed,    \* history: how far the clock has advanced since the first of them
  behind,     \* history: how far it is behind its furthest position
  result,     \* the last result: cost, allowed, remaining and retryAfter
  budget

vars == <<policy, bucket, clock, granted, elapsed, behind, result, budget>>

-----------------------------------------------------------------------------

Capacity == policy.capacity * Scale
Refill == policy.refill * Scale
Interval == policy.interval

NoResult == [cost |-> 0, allowed |-> TRUE, remaining |-> 0, retryAfter |-> 0]

Init ==
  /\ policy \in Policies
  /\ bucket = Absent
  /\ clock = 0
  /\ granted = 0
  /\ elapsed = 0
  /\ behind = 0
  /\ result = NoResult
  /\ budget = Budget

Max2(a, b) == IF a >= b THEN a ELSE b
Min2(a, b) == IF a <= b THEN a ELSE b

\* Mutant: a remainder of another interval is kept.
ReadMutant(now) ==
  IF bucket = Absent
    THEN [tokens |-> Capacity, updated |-> now, remainder |-> 0]
    ELSE [tokens |-> Min2(bucket.tokens, Capacity),
          updated |-> bucket.updated, remainder |-> bucket.remainder]

\* What the script reads: a missing bucket is full, and a stored one is
\* brought within a policy that has changed.
Read(now) ==
  IF bucket = Absent
    THEN [tokens |-> Capacity, updated |-> now, remainder |-> 0]
    ELSE [tokens |-> Min2(bucket.tokens, Capacity),
          updated |-> bucket.updated,
          remainder |-> IF bucket.remainder >= Interval THEN 0 ELSE bucket.remainder]

\* Mutant: the remainder of the previous refill is lost.
RefilledMutant(b, now) ==
  LET age == now - b.updated
      tokens == b.tokens + (age * Refill) \div Interval
  IN  IF age <= 0 \/ b.tokens >= Capacity
        THEN [b EXCEPT !.updated = Max2(b.updated, now)]
      ELSE [tokens |-> Min2(tokens, Capacity), updated |-> now,
            remainder |-> IF tokens >= Capacity THEN 0
                            ELSE (age * Refill) % Interval]

\* The bucket b at time now: whole intervals first, then the rest of the time
\* by milliseconds, with products that stay small.
Refilled(b, now) ==
  LET age == now - b.updated
      whole == age \div Interval
      partial == age % Interval
      numerator == partial * (Refill % Interval) + b.remainder
      tokens == b.tokens + whole * Refill
                  + partial * (Refill \div Interval) + numerator \div Interval
      full == \/ whole >= CeilDiv(Capacity - b.tokens, Refill)
              \/ tokens >= Capacity
  IN  IF age <= 0 \/ b.tokens >= Capacity
        THEN [b EXCEPT !.updated = Max2(b.updated, now)]
        ELSE [tokens |-> IF full THEN Capacity ELSE tokens,
              updated |-> now,
              remainder |-> IF full THEN 0 ELSE numerator % Interval]

\* Mutant: the wait is rounded down.
RetryAfterMutant(cost, remaining) == ((cost * Scale - remaining) * Interval) \div Refill

\* normalizeTokenBucketResult: the milliseconds after which to try again.
RetryAfter(cost, remaining) == CeilDiv((cost * Scale - remaining) * Interval, Refill)

\* Mutant: the bucket is dated by the clock even if the clock was stepped back.
StoreMutant(b, tokens) ==
  [tokens |-> tokens, remainder |-> b.remainder, updated |-> clock,
   expiry |-> clock + policy.ttl]

\* Mutant: the life of the key is not extended by a later call.
StoreOnceMutant(b, tokens) ==
  [tokens |-> tokens, remainder |-> b.remainder, updated |-> b.updated,
   expiry |-> IF bucket = Absent THEN clock + policy.ttl ELSE bucket.expiry]

Store(b, tokens) ==
  [tokens |-> tokens, remainder |-> b.remainder, updated |-> b.updated,
   expiry |-> clock + policy.ttl]

Admits(b, cost) == b.tokens >= cost * Scale

\* One call of consumeTokenBucket.
Consume(cost) ==
  LET b == Refilled(Read(clock), clock)
      allowed == Admits(b, cost)
      tokens == IF allowed THEN b.tokens - cost * Scale ELSE b.tokens
      first == bucket = Absent \/ granted = 0
  IN  /\ bucket' = Store(b, tokens)
      /\ granted' = (IF bucket = Absent THEN 0 ELSE granted) + (IF allowed THEN cost ELSE 0)
      /\ elapsed' = IF first THEN 0 ELSE elapsed
      /\ behind' = IF first THEN 0 ELSE behind
      /\ result' = [cost |-> cost, allowed |-> allowed, remaining |-> tokens,
                    retryAfter |-> IF allowed THEN 0 ELSE RetryAfter(cost, tokens)]
      /\ UNCHANGED <<policy, clock, budget>>

\* A millisecond passes; a key that has reached its expiry is gone.
Tick ==
  /\ clock < MaxTime
  /\ clock' = clock + 1
  /\ bucket' = IF bucket # Absent /\ bucket.expiry <= clock + 1 THEN Absent ELSE bucket
  /\ elapsed' = IF behind = 0 THEN elapsed + 1 ELSE elapsed
  /\ behind' = IF behind = 0 THEN 0 ELSE behind - 1
  /\ result' = NoResult
  /\ UNCHANGED <<policy, granted, budget>>

StepBack(n) ==
  /\ budget > 0
  /\ budget' = budget - 1
  /\ clock' = clock - n
  /\ behind' = behind + n
  /\ result' = NoResult
  /\ UNCHANGED <<policy, bucket, granted, elapsed>>

\* The histories start anew with the first grant under the new policy.
Deploy(p) ==
  /\ budget > 0
  /\ budget' = budget - 1
  /\ policy' = p
  /\ granted' = 0
  /\ elapsed' = 0
  /\ result' = NoResult
  /\ UNCHANGED <<bucket, clock, behind>>

Next ==
  \/ \E c \in Costs : Consume(c)
  \/ Tick
  \/ \E n \in 1..MaxStep : StepBack(n)
  \/ \E p \in Policies \ {policy} : Deploy(p)

Spec == Init /\ [][Next]_vars

-----------------------------------------------------------------------------
(* Properties. *)

\* The bucket is absent or a well-formed hash; a bucket that a call has stored
\* under the policy in force stays within it.
TypeOK ==
  /\ policy \in Policies
  /\ bucket \in Bucket \cup {Absent}
  /\ clock \in Int /\ clock <= MaxTime
  /\ granted \in Nat /\ elapsed \in Nat /\ behind \in Nat /\ budget \in Nat
  /\ result \in [cost : Nat, allowed : BOOLEAN, remaining : Nat, retryAfter : Nat]
  /\ granted > 0 /\ bucket # Absent =>
       bucket.tokens <= Capacity /\ bucket.remainder < Interval

\* As long as its key lives, a bucket grants no more than it holds when full and
\* what flows in while the clock advances: a clock that is stepped back and
\* covers the same time again brings nothing.  A change of the policy may add
\* less than one unit of 1/Scale, the remainder of the old one.
RateBound ==
  granted * Scale * Interval < Capacity * Interval + Refill * elapsed + Interval

\* The key's end is not a gift: the bucket that Redis drops would have been full,
\* but for what the steps back of the clock have held up (granted > 0: its life
\* is of the policy in force; one that a deployment replaced may have been shorter).
ExpiryIsHarmless ==
  [][bucket # Absent /\ bucket' = Absent /\ granted > 0 =>
       LET heldUp == (Budget - budget) * MaxStep
       IN  Refilled(Read(clock'), clock' + heldUp).tokens = Capacity]_vars

\* Calls that are denied neither add tokens nor lose them by rounding: to
\* refill at one moment and again a millisecond or an interval later is to refill
\* once.
PollingIsNeutral ==
  \A s \in 1..Interval + 1, t \in {1, Interval} :
    LET b == Read(clock)
        from == Max2(clock, b.updated)
    IN  Refilled(Refilled(b, from + s), from + s + t) = Refilled(b, from + s + t)

\* A caller that is denied and waits as long as it is told is admitted, if no
\* other call comes first and the clock had not been stepped back.
RetryAfterSuffices ==
  ~result.allowed /\ bucket.updated = clock =>
    Refilled(Read(clock), clock + result.retryAfter).tokens >= result.cost * Scale

-----------------------------------------------------------------------------
(* The inductive invariant of TokenBucketProofs. *)

\* What is in the bucket, in units of 1/(Scale * interval).
Content(b) == b.tokens * Interval + b.remainder

\* Where the clock stood at the first grant, and how much of the time since then the
\* bucket has been credited.
Began == clock + behind - elapsed
Credited == Min2(bucket.updated - Began, elapsed)

\* What was granted and what is left has been there when full or has flowed in.
FlowOK ==
  bucket # Absent /\ granted > 0 =>
    /\ Began <= bucket.updated
    /\ granted * Scale * Interval + Content(bucket)
         < Capacity * Interval + Refill * Credited + Interval

HeldUp == (Budget - budget) * MaxStep

\* The bucket is ahead of the clock, and of the call that set its life, by steps back only.
DatesOK ==
  /\ budget <= Budget
  /\ bucket # Absent => bucket.updated <= clock + HeldUp
  /\ bucket # Absent /\ granted > 0 => bucket.updated <= bucket.expiry - policy.ttl + HeldUp

\* The last result, if it was a denial, describes the bucket.
ResultOK ==
  ~result.allowed =>
    /\ bucket # Absent
    /\ result.cost \in Costs /\ result.remaining = bucket.tokens
    /\ bucket.tokens < result.cost * Scale
    /\ bucket.tokens <= Capacity /\ bucket.remainder < Interval
    /\ result.retryAfter = RetryAfter(result.cost, bucket.tokens)

IInv == TypeOK /\ RateBound /\ FlowOK /\ DatesOK /\ ResultOK

=============================================================================
