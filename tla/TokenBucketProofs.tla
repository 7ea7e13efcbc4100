-------------------------- MODULE TokenBucketProofs --------------------------
(***************************************************************************)
(* Proofs about TokenBucket, for every set of policies that the validators *)
(* admit, and for every number of deployments and steps back of the clock. *)
(*                                                                         *)
(* A refill is first shown to add Refill units per millisecond to the      *)
(* content of the bucket, counted in units of 1/(Scale * interval), and to *)
(* lose none of them unless the bucket is full.  The rest is linear.       *)
(***************************************************************************)
EXTENDS TokenBucket, TLAPS

-----------------------------------------------------------------------------
(* Arithmetic. *)

\* Division with a remainder.
LEMMA DivMod ==
  ASSUME NEW a \in Int, NEW b \in Nat \ {0}
  PROVE  /\ a \div b \in Int /\ a % b \in Nat
         /\ a = b * (a \div b) + (a % b)
         /\ a % b < b
OBVIOUS

\* The quotient and the remainder are determined.
LEMMA DivModUnique ==
  ASSUME NEW b \in Nat \ {0}, NEW t \in Nat, NEW r \in Nat, NEW u \in Nat, NEW s \in Nat,
         r < b, s < b, t * b + r = u * b + s
  PROVE  t = u /\ r = s
<1>1. ~(t + 1 <= u)
  <2> SUFFICES ASSUME t + 1 <= u PROVE FALSE
    OBVIOUS
  <2>1. (t + 1) * b <= u * b
    OBVIOUS
  <2> QED BY <2>1
<1>2. ~(u + 1 <= t)
  <2> SUFFICES ASSUME u + 1 <= t PROVE FALSE
    OBVIOUS
  <2>1. (u + 1) * b <= t * b
    OBVIOUS
  <2> QED BY <2>1
<1> QED BY <1>1, <1>2

\* A multiple of what was rounded up is no less than what was divided, and no
\* rounding happens to a number below one.
LEMMA RoundedUp ==
  ASSUME NEW a \in Nat, NEW b \in Nat \ {0}
  PROVE  /\ CeilDiv(a, b) \in Nat
         /\ b * CeilDiv(a, b) >= a
         /\ a > 0 => CeilDiv(a, b) > 0
<1> DEFINE q == (a + b - 1) \div b
<1>1. q \in Int /\ a + b - 1 = b * q + ((a + b - 1) % b)
      /\ (a + b - 1) % b \in Nat /\ (a + b - 1) % b < b
  BY DivMod
<1>2. PICK r \in Nat : r < b /\ a + b - 1 = b * q + r
  BY <1>1
<1> HIDE DEF q
<1>3. b * q > a - 1
  BY <1>1, <1>2
<1>4. b * q >= a
  BY <1>1, <1>3
<1>5. q >= 0
  <2> SUFFICES ASSUME q <= -1 PROVE FALSE
    BY <1>1
  <2>1. b * (q + 1) <= 0 /\ b * (q + 1) = b * q + b
    BY <1>1
  <2> QED BY <2>1, <1>1, <1>2
<1>6. a > 0 => q # 0
  BY <1>4
<1> QED BY <1>1, <1>4, <1>5, <1>6 DEF CeilDiv, q

\* What the parts of a refill add up to: R per millisecond.
LEMMA PartsAddUp ==
  ASSUME NEW R \in Nat, NEW I \in Nat \ {0}, NEW rq \in Nat, NEW rr \in Nat, R = I * rq + rr,
         NEW age \in Nat, NEW w \in Nat, NEW p \in Nat, age = I * w + p,
         NEW n \in Nat, NEW rem \in Nat, n = p * rr + rem,
         NEW nq \in Nat, NEW nr \in Nat, n = I * nq + nr, NEW t \in Nat
  PROVE  (t + w * R + p * rq + nq) * I + nr = t * I + rem + R * age
OBVIOUS

\* The quotient of a natural number is one.
LEMMA QuotientNat ==
  ASSUME NEW a \in Nat, NEW b \in Nat \ {0}
  PROVE  a \div b \in Nat
OBVIOUS

-----------------------------------------------------------------------------
(* A refill. *)

\* What a refill of I-th parts at the rate R makes of t whole ones and rem parts: the
\* number of whole ones, the parts that are left over, and whether C is reached.
Numerator(R, I, rem, age) == (age % I) * (R % I) + rem
Whole(R, I, t, rem, age) ==
  t + (age \div I) * R + (age % I) * (R \div I) + (Numerator(R, I, rem, age) \div I)
Left(R, I, rem, age) == Numerator(R, I, rem, age) % I
Full(C, R, I, t, rem, age) ==
  age \div I >= CeilDiv(C - t, R) \/ Whole(R, I, t, rem, age) >= C

\* Nothing is lost or gained, and the short cut for a long time agrees.
LEMMA RefillIsExact ==
  ASSUME NEW C \in Nat, NEW R \in Nat \ {0}, NEW I \in Nat \ {0},
         NEW t \in Nat, t < C, NEW rem \in Nat, rem < I, NEW age \in Nat
  PROVE  /\ Whole(R, I, t, rem, age) \in Nat /\ Left(R, I, rem, age) \in Nat
         /\ Left(R, I, rem, age) < I
         /\ Whole(R, I, t, rem, age) * I + Left(R, I, rem, age) = t * I + rem + R * age
         /\ Full(C, R, I, t, rem, age) <=> t * I + rem + R * age >= C * I
<1>1. PICK w \in Nat, p \in Nat : w = age \div I /\ p = age % I /\ age = I * w + p
  BY DivMod, QuotientNat
<1>2. PICK rq \in Nat, rr \in Nat : rq = R \div I /\ rr = R % I /\ R = I * rq + rr
  BY DivMod, QuotientNat
<1>3. PICK n \in Nat : n = p * rr + rem
  OBVIOUS
<1>4. PICK nq \in Nat, nr \in Nat : nq = n \div I /\ nr = n % I /\ n = I * nq + nr /\ nr < I
  BY DivMod, QuotientNat
<1>5. PICK k \in Nat : k = t + w * R + p * rq + nq
  OBVIOUS
<1>6. Numerator(R, I, rem, age) = n
  BY <1>1, <1>2, <1>3 DEF Numerator
<1>7. Left(R, I, rem, age) = nr
  BY <1>4, <1>6 DEF Left
<1>8. Whole(R, I, t, rem, age) = k
  BY <1>1, <1>2, <1>4, <1>5, <1>6, Zenon DEF Whole
<1>9. k * I + nr = t * I + rem + R * age
  <2>1. R = I * rq + rr
    BY <1>2
  <2>2. age = I * w + p
    BY <1>1
  <2>3. n = I * nq + nr
    BY <1>4
  <2>4. (t + w * R + p * rq + nq) * I + nr = t * I + rem + R * age
    BY <2>1, <2>2, <2>3, <1>3, PartsAddUp
  <2> QED BY <2>4, <1>5
<1>10. w >= CeilDiv(C - t, R) => k >= C
  <2> SUFFICES ASSUME w >= CeilDiv(C - t, R) PROVE k >= C
    OBVIOUS
  <2>1. PICK c \in Nat : c = CeilDiv(C - t, R) /\ R * c >= C - t
    BY RoundedUp
  <2>2. w * R >= R * c
    BY <2>1
  <2>3. PICK x \in Nat, y \in Nat : x = w * R /\ y = p * rq
    OBVIOUS
  <2>4. x >= C - t
    BY <2>1, <2>2, <2>3
  <2> QED BY <2>3, <2>4, <1>5
<1>11. k >= C <=> t * I + rem + R * age >= C * I
  <2>1. ASSUME k >= C PROVE k * I + nr >= C * I
    <3>1. k * I >= C * I
      BY <2>1
    <3> QED BY <3>1
  <2>2. ASSUME k + 1 <= C PROVE k * I + nr < C * I
    <3>1. (k + 1) * I <= C * I /\ (k + 1) * I = k * I + I
      BY <2>2
    <3> QED BY <3>1, <1>4
  <2> QED BY <2>1, <2>2, <1>9
<1>12. Full(C, R, I, t, rem, age) <=> k >= C
  <2>1. Full(C, R, I, t, rem, age) <=> (w >= CeilDiv(C - t, R) \/ k >= C)
    BY <1>1, <1>8, Zenon DEF Full
  <2> QED BY <2>1, <1>10
<1>13. /\ k \in Nat /\ nr \in Nat /\ nr < I
       /\ k * I + nr = t * I + rem + R * age
       /\ Full(C, R, I, t, rem, age) <=> t * I + rem + R * age >= C * I
  BY <1>4, <1>9, <1>11, <1>12
<1> QED BY <1>7, <1>8, <1>13, Zenon

\* The policy in force is as the validators demand.
LEMMA PolicyFacts ==
  ASSUME TokenBucketAssumption, policy \in Policies
  PROVE  /\ Capacity \in Nat \ {0} /\ Refill \in Nat \ {0} /\ Interval \in Nat \ {0}
         /\ Scale \in Nat \ {0} /\ policy.ttl \in Nat /\ FullRefill(policy) <= policy.ttl
         /\ Capacity = policy.capacity * Scale /\ Refill = policy.refill * Scale
         /\ policy.capacity \in Nat \ {0} /\ policy.refill \in Nat \ {0}
         /\ policy.interval = Interval
         /\ \A c \in Costs : c \in Nat \ {0} /\ c <= policy.capacity
<1>1. /\ policy.capacity \in Nat \ {0} /\ policy.refill \in Nat \ {0}
      /\ policy.interval \in Nat \ {0} /\ policy.ttl \in Nat
      /\ FullRefill(policy) <= policy.ttl
      /\ \A c \in Costs : c \in Nat \ {0} /\ c <= policy.capacity
      /\ Scale \in Nat \ {0}
  BY DEF TokenBucketAssumption
<1>2. policy.capacity * Scale \in Nat \ {0} /\ policy.refill * Scale \in Nat \ {0}
  BY <1>1
<1> QED BY <1>1, <1>2 DEF Capacity, Refill, Interval

\* What a call reads of a bucket.
ReadBucket == [tokens : Nat, updated : Int, remainder : Nat]

\* The content of a bucket some time after its date, if nothing could spill.
Due(b, now) == Content(b) + Refill * (now - b.updated)

\* A bucket that is full or dated ahead keeps what it has and is dated at the later
\* of the two moments; any other holds what is due, or is full.
LEMMA RefilledIs ==
  ASSUME TokenBucketAssumption, policy \in Policies, NEW b \in ReadBucket,
         b.tokens <= Capacity, b.remainder < Interval, NEW now \in Int
  PROVE  /\ now <= b.updated \/ b.tokens >= Capacity =>
              Refilled(b, now) = [tokens |-> b.tokens, updated |-> Max2(b.updated, now),
                                  remainder |-> b.remainder]
         /\ now > b.updated /\ b.tokens < Capacity /\ Due(b, now) >= Capacity * Interval =>
              Refilled(b, now) = [tokens |-> Capacity, updated |-> now, remainder |-> 0]
         /\ now > b.updated /\ b.tokens < Capacity /\ Due(b, now) < Capacity * Interval =>
              \E t \in Nat, r \in Nat :
                /\ t < Capacity /\ r < Interval
                /\ t * Interval + r = Due(b, now)
                /\ Refilled(b, now) = [tokens |-> t, updated |-> now, remainder |-> r]
<1>1. PICK C \in Nat \ {0}, R \in Nat \ {0}, I \in Nat \ {0} :
        C = Capacity /\ R = Refill /\ I = Interval
  BY PolicyFacts
<1>2. PICK t \in Nat, u \in Int, m \in Nat :
        b.tokens = t /\ b.updated = u /\ b.remainder = m
        /\ b = [tokens |-> t, updated |-> u, remainder |-> m]
  BY DEF ReadBucket
<1>3. PICK age \in Int : age = now - u
  OBVIOUS
<1>4. Due(b, now) = t * I + m + R * age
  BY <1>1, <1>2, <1>3 DEF Due, Content
<1>5. t <= C /\ m < I
  BY <1>1, <1>2
<1>6. ASSUME age <= 0 \/ t >= C
      PROVE  Refilled(b, now) = [tokens |-> t, updated |-> Max2(u, now), remainder |-> m]
  <2>1. PICK x : x = Max2(u, now)
    OBVIOUS
  <2>2. Refilled(b, now) = [b EXCEPT !.updated = Max2(u, now)]
    BY <1>1, <1>2, <1>3, <1>6, Zenon DEF Refilled
  <2>3. [b EXCEPT !.updated = x] = [tokens |-> t, updated |-> x, remainder |-> m]
    BY <1>2
  <2> QED BY <2>1, <2>2, <2>3, Zenon
<1>7. ASSUME ~(age <= 0 \/ t >= C)
      PROVE  Refilled(b, now) =
               [tokens |-> IF Full(C, R, I, t, m, age) THEN C ELSE Whole(R, I, t, m, age),
                updated |-> now,
                remainder |-> IF Full(C, R, I, t, m, age) THEN 0 ELSE Left(R, I, m, age)]
  <2>1. b.tokens = t /\ b.updated = u /\ b.remainder = m
    BY <1>2
  <2> QED BY <1>1, <2>1, <1>3, <1>7, Zenon DEF Refilled, Full, Whole, Left, Numerator
<1>8. CASE age <= 0 \/ t >= C
  <2>1. ~(now > u /\ t < C) /\ (now <= u \/ t >= C)
    BY <1>3, <1>8
  <2> QED BY <2>1, <1>1, <1>2, <1>6, <1>8
<1>9. CASE age > 0 /\ t < C
  <2>1. now > u /\ ~(now <= u) /\ ~(t >= C) /\ ~(age <= 0 \/ t >= C) /\ age \in Nat
    BY <1>3, <1>9
  <2>2. PICK k \in Nat, r \in Nat : k = Whole(R, I, t, m, age) /\ r = Left(R, I, m, age)
    BY <1>5, <1>9, <2>1, RefillIsExact
  <2>3. r < I /\ k * I + r = t * I + m + R * age
    <3>1. /\ Left(R, I, m, age) < I
          /\ Whole(R, I, t, m, age) * I + Left(R, I, m, age) = t * I + m + R * age
          /\ Full(C, R, I, t, m, age) <=> t * I + m + R * age >= C * I
      <4>1. C \in Nat /\ R \in Nat \ {0} /\ I \in Nat \ {0} /\ t \in Nat /\ m \in Nat
            /\ age \in Nat /\ t < C /\ m < I
        BY <1>5, <1>9, <2>1
      <4> QED BY <4>1, RefillIsExact
    <3> QED BY <3>1, <2>2, Zenon
  <2>4. Full(C, R, I, t, m, age) <=> Due(b, now) >= C * I
    BY <1>4, <1>5, <1>9, <2>1, RefillIsExact
  <2>5. CASE Due(b, now) >= C * I
    <3>1. Refilled(b, now) = [tokens |-> C, updated |-> now, remainder |-> 0]
      BY <1>7, <2>1, <2>4, <2>5
    <3>2. ~(Due(b, now) < C * I)
      BY <2>5, <1>4
    <3> QED BY <1>1, <1>2, <2>1, <2>5, <3>1, <3>2
  <2>6. CASE Due(b, now) < C * I
    <3>1. ~(Due(b, now) >= C * I)
      BY <2>6, <1>4
    <3>2. Refilled(b, now) = [tokens |-> k, updated |-> now, remainder |-> r]
      BY <1>7, <2>1, <2>2, <2>4, <3>1
    <3>3. k < C
      <4>1. k * I < C * I
        BY <2>3, <2>6, <1>4
      <4> QED BY <4>1
    <3>4. k * I + r = Due(b, now)
      BY <2>3, <1>4
    <3> QED BY <1>1, <1>2, <2>1, <2>3, <3>1, <3>2, <3>3, <3>4
  <2> QED BY <2>5, <2>6, <1>4
<1> QED BY <1>8, <1>9

\* A refill leaves the bucket within the policy and credits no more than flows in.
LEMMA RefillCredits ==
  ASSUME TokenBucketAssumption, policy \in Policies, NEW b \in ReadBucket,
         b.tokens <= Capacity, b.remainder < Interval, NEW now \in Int
  PROVE  \E t \in Nat, u \in Int, r \in Nat :
           /\ Refilled(b, now) = [tokens |-> t, updated |-> u, remainder |-> r]
           /\ t <= Capacity /\ r < Interval
           /\ now <= b.updated => /\ u = b.updated
                                  /\ t * Interval + r = Content(b)
           /\ now > b.updated => /\ u = now
                                 /\ t * Interval + r <= Due(b, now)
<1>1. PICK C \in Nat \ {0}, R \in Nat \ {0}, I \in Nat \ {0} :
        C = Capacity /\ R = Refill /\ I = Interval
  BY PolicyFacts
<1>2. PICK t \in Nat, u \in Int, m \in Nat :
        b.tokens = t /\ b.updated = u /\ b.remainder = m
  BY DEF ReadBucket
<1>3. t <= C /\ m < I
  BY <1>1, <1>2
<1>4. Content(b) = t * I + m
  BY <1>1, <1>2 DEF Content
<1>5. Due(b, now) = t * I + m + R * (now - u)
  BY <1>1, <1>2, <1>4 DEF Due
<1>6. CASE now <= u
  <2>1. Max2(u, now) = u
    BY <1>6 DEF Max2
  <2>2. Refilled(b, now) = [tokens |-> t, updated |-> u, remainder |-> m]
    BY <1>2, <1>6, <2>1, RefilledIs
  <2> QED BY <1>1, <1>2, <1>3, <1>4, <1>6, <2>2
<1>7. CASE now > u /\ t >= C
  <2>1. Max2(u, now) = now
    BY <1>7 DEF Max2
  <2>2. Refilled(b, now) = [tokens |-> t, updated |-> now, remainder |-> m]
    BY <1>1, <1>2, <1>7, <2>1, RefilledIs
  <2>3. t * I + m <= Due(b, now)
    <3>1. R * (now - u) >= 0
      BY <1>7
    <3> QED BY <3>1, <1>5
  <2> QED BY <1>1, <1>2, <1>3, <1>7, <2>2, <2>3
<1>8. CASE now > u /\ t < C /\ Due(b, now) >= C * I
  <2>1. Refilled(b, now) = [tokens |-> C, updated |-> now, remainder |-> 0]
    BY <1>1, <1>2, <1>8, RefilledIs
  <2>2. C * I + 0 <= Due(b, now)
    BY <1>8, <1>5
  <2> QED BY <1>1, <1>2, <1>8, <2>1, <2>2
<1>9. CASE now > u /\ t < C /\ Due(b, now) < C * I
  <2>1. PICK k \in Nat, r \in Nat :
          /\ k < C /\ r < I /\ k * I + r = Due(b, now)
          /\ Refilled(b, now) = [tokens |-> k, updated |-> now, remainder |-> r]
    BY <1>1, <1>2, <1>9, RefilledIs
  <2>2. k * I + r <= Due(b, now) /\ k <= C
    BY <2>1, <1>5
  <2> QED BY <1>1, <1>2, <1>9, <2>1, <2>2
<1> QED BY <1>3, <1>5, <1>6, <1>7, <1>8, <1>9

\* THEOREM: refilling a bucket at one moment and again at a later one is refilling
\* it at the later one, whatever the moments (PollingIsNeutral has a few of them).
THEOREM RefillsCompose ==
  ASSUME TokenBucketAssumption, policy \in Policies, NEW b \in ReadBucket,
         b.tokens <= Capacity, b.remainder < Interval,
         NEW x \in Int, NEW y \in Int, b.updated < x, x < y
  PROVE  Refilled(Refilled(b, x), y) = Refilled(b, y)
<1>1. PICK C \in Nat \ {0}, R \in Nat \ {0}, I \in Nat \ {0} :
        C = Capacity /\ R = Refill /\ I = Interval
  BY PolicyFacts
<1>2. PICK t \in Nat, u \in Int, m \in Nat :
        b.tokens = t /\ b.updated = u /\ b.remainder = m
  BY DEF ReadBucket
<1>3. t <= C /\ m < I /\ u < x /\ u < y
  BY <1>1, <1>2
<1>4. \A n \in Int : Due(b, n) = t * I + m + R * (n - u)
  BY <1>1, <1>2 DEF Due, Content
<1>5. Due(b, y) = Due(b, x) + R * (y - x) /\ R * (y - x) >= 0
  <2>1. R * (y - u) = R * (x - u) + R * (y - x)
    OBVIOUS
  <2>2. R * (y - x) >= 0
    OBVIOUS
  <2> QED BY <1>4, <2>1, <2>2
<1>6. \A k \in Nat, r \in Nat : k <= C /\ r < I =>
        LET c == [tokens |-> k, updated |-> x, remainder |-> r]
        IN  /\ c \in ReadBucket /\ c.tokens = k /\ c.updated = x /\ c.remainder = r
            /\ Due(c, y) = k * I + r + R * (y - x)
  BY <1>1 DEF ReadBucket, Due, Content
<1>7. \A r \in Nat : r < I =>
        Refilled([tokens |-> C, updated |-> x, remainder |-> r], y)
          = [tokens |-> C, updated |-> y, remainder |-> r]
  <2> SUFFICES ASSUME NEW r \in Nat, r < I
               PROVE  Refilled([tokens |-> C, updated |-> x, remainder |-> r], y)
                        = [tokens |-> C, updated |-> y, remainder |-> r]
    OBVIOUS
  <2>1. Max2(x, y) = y
    BY DEF Max2
  <2>2. PICK c \in ReadBucket : /\ c = [tokens |-> C, updated |-> x, remainder |-> r]
                                /\ c.tokens = C /\ c.updated = x /\ c.remainder = r
    <3>1. [tokens |-> C, updated |-> x, remainder |-> r] \in ReadBucket
      BY DEF ReadBucket
    <3> QED BY <3>1
  <2>3. c.tokens <= Capacity /\ c.tokens >= Capacity /\ c.remainder < Interval
    BY <1>1, <2>2
  <2>4. Refilled(c, y) = [tokens |-> c.tokens, updated |-> Max2(c.updated, y),
                          remainder |-> c.remainder]
    BY <2>3, RefilledIs
  <2> QED BY <2>1, <2>2, <2>4
<1>8. CASE t >= C
  <2>1. Max2(u, x) = x /\ Max2(u, y) = y
    BY <1>3 DEF Max2
  <2>2. /\ Refilled(b, x) = [tokens |-> t, updated |-> x, remainder |-> m]
        /\ Refilled(b, y) = [tokens |-> t, updated |-> y, remainder |-> m]
    BY <1>1, <1>2, <1>8, <2>1, RefilledIs
  <2>3. t = C
    BY <1>3, <1>8
  <2> QED BY <1>3, <1>7, <2>2, <2>3
<1>9. CASE t < C /\ Due(b, x) >= C * I
  <2>1. Due(b, y) >= C * I
    BY <1>4, <1>5, <1>9
  <2>2. /\ Refilled(b, x) = [tokens |-> C, updated |-> x, remainder |-> 0]
        /\ Refilled(b, y) = [tokens |-> C, updated |-> y, remainder |-> 0]
    BY <1>1, <1>2, <1>3, <1>9, <2>1, RefilledIs
  <2>3. 0 < I /\ 0 \in Nat /\ C \in Nat
    OBVIOUS
  <2> QED BY <1>7, <2>2, <2>3
<1>10. CASE t < C /\ Due(b, x) < C * I
  <2>1. PICK k \in Nat, r \in Nat :
          /\ k < C /\ r < I /\ k * I + r = Due(b, x)
          /\ Refilled(b, x) = [tokens |-> k, updated |-> x, remainder |-> r]
    BY <1>1, <1>2, <1>3, <1>10, RefilledIs
  <2>2. PICK c \in ReadBucket : /\ c = [tokens |-> k, updated |-> x, remainder |-> r]
                                /\ c.tokens = k /\ c.updated = x /\ c.remainder = r
                                /\ Due(c, y) = k * I + r + R * (y - x)
    BY <1>6, <2>1
  <2>3. Due(c, y) = Due(b, y)
    BY <1>5, <2>1, <2>2
  <2>4. c.tokens < Capacity /\ c.tokens <= Capacity /\ c.remainder < Interval /\ y > c.updated
    BY <1>1, <2>1, <2>2
  <2>5. CASE Due(b, y) >= C * I
    <3>1. Refilled(c, y) = [tokens |-> C, updated |-> y, remainder |-> 0]
      BY <1>1, <2>3, <2>4, <2>5, RefilledIs
    <3>2. Refilled(b, y) = [tokens |-> C, updated |-> y, remainder |-> 0]
      BY <1>1, <1>2, <1>3, <1>10, <2>5, RefilledIs
    <3> QED BY <2>1, <2>2, <3>1, <3>2
  <2>6. CASE Due(b, y) < C * I
    <3>1. PICK i \in Nat, j \in Nat :
            /\ i < C /\ j < I /\ i * I + j = Due(c, y)
            /\ Refilled(c, y) = [tokens |-> i, updated |-> y, remainder |-> j]
      BY <1>1, <2>3, <2>4, <2>6, RefilledIs
    <3>2. PICK v \in Nat, w \in Nat :
            /\ v < C /\ w < I /\ v * I + w = Due(b, y)
            /\ Refilled(b, y) = [tokens |-> v, updated |-> y, remainder |-> w]
      BY <1>1, <1>2, <1>3, <1>10, <2>6, RefilledIs
    <3>3. i = v /\ j = w
      BY <2>3, <3>1, <3>2, DivModUnique
    <3> QED BY <2>1, <2>2, <3>1, <3>2, <3>3
  <2> QED BY <2>5, <2>6, <1>4
<1> QED BY <1>3, <1>4, <1>8, <1>9, <1>10

-----------------------------------------------------------------------------
(* The steps. *)

\* What a call reads is within the policy, and is what is stored if that is too.
LEMMA ReadIs ==
  ASSUME TokenBucketAssumption, TypeOK, NEW now \in Int
  PROVE  \E t \in Nat, u \in Int, m \in Nat :
           /\ Read(now) = [tokens |-> t, updated |-> u, remainder |-> m]
           /\ t <= Capacity /\ m < Interval
           /\ bucket = Absent => u = now
           /\ bucket # Absent => u = bucket.updated
           /\ bucket # Absent /\ bucket.tokens <= Capacity /\ bucket.remainder < Interval =>
                t = bucket.tokens /\ m = bucket.remainder
<1>1. PICK C \in Nat \ {0}, I \in Nat \ {0} : C = Capacity /\ I = Interval
  BY PolicyFacts DEF TypeOK
<1>2. CASE bucket = Absent
  <2>1. Read(now) = [tokens |-> C, updated |-> now, remainder |-> 0]
    BY <1>1, <1>2 DEF Read
  <2> QED BY <1>1, <1>2, <2>1
<1>3. CASE bucket # Absent
  <2>1. PICK t \in Nat, u \in Int, m \in Nat :
          bucket.tokens = t /\ bucket.updated = u /\ bucket.remainder = m
    BY <1>3 DEF TypeOK, Bucket
  <2>2. PICK k \in Nat : k = Min2(t, C) /\ k <= C /\ (t <= C => k = t)
    BY DEF Min2
  <2>3. PICK r \in Nat : r = (IF m >= I THEN 0 ELSE m) /\ r < I /\ (m < I => r = m)
    OBVIOUS
  <2>4. Read(now) = [tokens |-> k, updated |-> u, remainder |-> r]
    BY <1>1, <1>3, <2>1, <2>2, <2>3, Zenon DEF Read
  <2> QED BY <1>1, <1>3, <2>1, <2>2, <2>3, <2>4
<1> QED BY <1>2, <1>3

\* What a call does, in terms of what it reads (t, u, m), of the refilled bucket
\* (k, v, r) and of the tokens that it leaves (l).
LEMMA ConsumeIs ==
  ASSUME TokenBucketAssumption, TypeOK, NEW cost \in Costs, Consume(cost)
  PROVE  \E t \in Nat, u \in Int, m \in Nat, k \in Nat, v \in Int, r \in Nat, l \in Nat :
           /\ t <= Capacity /\ m < Interval
           /\ bucket = Absent => u = clock
           /\ bucket # Absent => u = bucket.updated
           /\ bucket # Absent /\ bucket.tokens <= Capacity /\ bucket.remainder < Interval =>
                t = bucket.tokens /\ m = bucket.remainder
           /\ k <= Capacity /\ r < Interval
           /\ clock <= u => v = u /\ k * Interval + r = t * Interval + m
           /\ clock > u => /\ v = clock
                           /\ k * Interval + r <= t * Interval + m + Refill * (clock - u)
           /\ bucket' = [tokens |-> l, remainder |-> r, updated |-> v,
                         expiry |-> clock + policy.ttl]
           /\ \/ /\ k >= cost * Scale /\ l = k - cost * Scale
                 /\ granted' = (IF bucket = Absent THEN 0 ELSE granted) + cost
                 /\ result' = [cost |-> cost, allowed |-> TRUE, remaining |-> l, retryAfter |-> 0]
              \/ /\ k < cost * Scale /\ l = k
                 /\ granted' = (IF bucket = Absent THEN 0 ELSE granted)
                 /\ result' = [cost |-> cost, allowed |-> FALSE, remaining |-> l,
                               retryAfter |-> RetryAfter(cost, l)]
<1> DEFINE Reads(t, u, m, k, v, r, l) ==
           /\ t <= Capacity /\ m < Interval
           /\ bucket = Absent => u = clock
           /\ bucket # Absent => u = bucket.updated
           /\ bucket # Absent /\ bucket.tokens <= Capacity /\ bucket.remainder < Interval =>
                t = bucket.tokens /\ m = bucket.remainder
           /\ k <= Capacity /\ r < Interval
           /\ clock <= u => v = u /\ k * Interval + r = t * Interval + m
           /\ clock > u => /\ v = clock
                           /\ k * Interval + r <= t * Interval + m + Refill * (clock - u)
           /\ bucket' = [tokens |-> l, remainder |-> r, updated |-> v,
                         expiry |-> clock + policy.ttl]
           /\ \/ /\ k >= cost * Scale /\ l = k - cost * Scale
                 /\ granted' = (IF bucket = Absent THEN 0 ELSE granted) + cost
                 /\ result' = [cost |-> cost, allowed |-> TRUE, remaining |-> l, retryAfter |-> 0]
              \/ /\ k < cost * Scale /\ l = k
                 /\ granted' = (IF bucket = Absent THEN 0 ELSE granted)
                 /\ result' = [cost |-> cost, allowed |-> FALSE, remaining |-> l,
                               retryAfter |-> RetryAfter(cost, l)]
<1>1. PICK C \in Nat \ {0}, R \in Nat \ {0}, I \in Nat \ {0}, cs \in Nat \ {0}, w \in Int :
        /\ C = Capacity /\ R = Refill /\ I = Interval /\ cs = cost * Scale /\ w = clock
        /\ cost \in Nat \ {0}
  <2>1. cost * Scale \in Nat \ {0} /\ cost \in Nat \ {0}
    BY PolicyFacts DEF TypeOK
  <2> QED BY <2>1, PolicyFacts DEF TypeOK
<1>2. PICK t \in Nat, u \in Int, m \in Nat :
        /\ Read(clock) = [tokens |-> t, updated |-> u, remainder |-> m]
        /\ t <= Capacity /\ m < Interval
        /\ bucket = Absent => u = clock
        /\ bucket # Absent => u = bucket.updated
        /\ bucket # Absent /\ bucket.tokens <= Capacity /\ bucket.remainder < Interval =>
             t = bucket.tokens /\ m = bucket.remainder
  BY ReadIs DEF TypeOK
<1>3. PICK b \in ReadBucket : /\ b = Read(clock)
                              /\ b.tokens = t /\ b.updated = u /\ b.remainder = m
  <2>1. [tokens |-> t, updated |-> u, remainder |-> m] \in ReadBucket
    BY DEF ReadBucket
  <2> QED BY <1>2, <2>1
<1>4. Content(b) = t * I + m /\ Due(b, w) = t * I + m + R * (w - u)
  BY <1>1, <1>3 DEF Content, Due
<1>5. PICK k \in Nat, v \in Int, r \in Nat :
        /\ Refilled(b, w) = [tokens |-> k, updated |-> v, remainder |-> r]
        /\ k <= Capacity /\ r < Interval
        /\ w <= u => v = u /\ k * Interval + r = Content(b)
        /\ w > u => v = w /\ k * Interval + r <= Due(b, w)
  <2>1. b.tokens <= Capacity /\ b.remainder < Interval /\ policy \in Policies
    BY <1>2, <1>3 DEF TypeOK
  <2>2. \E k \in Nat, v \in Int, r \in Nat :
          /\ Refilled(b, w) = [tokens |-> k, updated |-> v, remainder |-> r]
          /\ k <= Capacity /\ r < Interval
          /\ w <= b.updated => v = b.updated /\ k * Interval + r = Content(b)
          /\ w > b.updated => v = w /\ k * Interval + r <= Due(b, w)
    BY <2>1, RefillCredits
  <2> QED BY <1>3, <2>2, Zenon
<1>6. /\ w <= u => v = u /\ k * I + r = t * I + m
      /\ w > u => v = w /\ k * I + r <= t * I + m + R * (w - u)
  BY <1>1, <1>4, <1>5, Zenon
<1>7. PICK c : c = Refilled(Read(clock), clock) /\ c.tokens = k /\ c.remainder = r /\ c.updated = v
  BY <1>1, <1>3, <1>5
<1>8. Admits(c, cost) = (k >= cs)
  BY <1>1, <1>7, Zenon DEF Admits
<1>9. PICK l \in Nat : l = IF k >= cs THEN k - cs ELSE k
  <2>1. CASE k >= cs
    <3>1. k - cs \in Nat
      BY <2>1
    <3> QED BY <2>1, <3>1, Zenon
  <2> QED BY <2>1, Zenon
<1>11. /\ bucket' = Store(c, l)
       /\ granted' = (IF bucket = Absent THEN 0 ELSE granted) + (IF k >= cs THEN cost ELSE 0)
       /\ result' = [cost |-> cost, allowed |-> k >= cs, remaining |-> l,
                     retryAfter |-> IF k >= cs THEN 0 ELSE RetryAfter(cost, l)]
  BY <1>1, <1>7, <1>8, <1>9, Zenon DEF Consume
<1>12. bucket' = [tokens |-> l, remainder |-> r, updated |-> v, expiry |-> clock + policy.ttl]
  BY <1>7, <1>11, Zenon DEF Store
<1>13. \/ /\ k >= cs /\ l = k - cs
          /\ granted' = (IF bucket = Absent THEN 0 ELSE granted) + cost
          /\ result' = [cost |-> cost, allowed |-> TRUE, remaining |-> l, retryAfter |-> 0]
       \/ /\ k < cs /\ l = k
          /\ granted' = (IF bucket = Absent THEN 0 ELSE granted)
          /\ result' = [cost |-> cost, allowed |-> FALSE, remaining |-> l,
                        retryAfter |-> RetryAfter(cost, l)]
  <2>1. CASE k >= cs
    <3>1. l = k - cs /\ (k >= cs) = TRUE
      BY <1>9, <2>1
    <3> QED BY <2>1, <3>1, <1>11, Zenon
  <2>2. CASE k < cs
    <3>1. l = k /\ ~(k >= cs) /\ (k >= cs) = FALSE
      BY <1>9, <2>2
    <3>2. PICK g \in Nat : g = (IF bucket = Absent THEN 0 ELSE granted)
      BY DEF TypeOK
    <3>3. g + 0 = g
      OBVIOUS
    <3> QED BY <2>2, <3>1, <3>2, <3>3, <1>11, Zenon
  <2> QED BY <2>1, <2>2
<1>14. /\ t <= Capacity /\ m < Interval
       /\ bucket = Absent => u = clock
       /\ bucket # Absent => u = bucket.updated
       /\ bucket # Absent /\ bucket.tokens <= Capacity /\ bucket.remainder < Interval =>
            t = bucket.tokens /\ m = bucket.remainder
       /\ k <= Capacity /\ r < Interval
  BY <1>2, <1>5
<1>15. /\ clock <= u => v = u /\ k * Interval + r = t * Interval + m
       /\ clock > u => /\ v = clock
                       /\ k * Interval + r <= t * Interval + m + Refill * (clock - u)
  BY <1>1, <1>6, Zenon
<1>16. \/ /\ k >= cost * Scale /\ l = k - cost * Scale
          /\ granted' = (IF bucket = Absent THEN 0 ELSE granted) + cost
          /\ result' = [cost |-> cost, allowed |-> TRUE, remaining |-> l, retryAfter |-> 0]
       \/ /\ k < cost * Scale /\ l = k
          /\ granted' = (IF bucket = Absent THEN 0 ELSE granted)
          /\ result' = [cost |-> cost, allowed |-> FALSE, remaining |-> l,
                        retryAfter |-> RetryAfter(cost, l)]
  BY <1>1, <1>13, Zenon
<1>17. Reads(t, u, m, k, v, r, l)
  BY <1>12, <1>14, <1>15, <1>16, Zenon
<1> HIDE DEF Reads
<1>18. \E t_ \in Nat, u_ \in Int, m_ \in Nat, k_ \in Nat, v_ \in Int, r_ \in Nat, l_ \in Nat :
         Reads(t_, u_, m_, k_, v_, r_, l_)
  BY <1>17, Zenon
<1> QED BY <1>18, Zenon DEF Reads

\* With nothing granted, nothing has been granted too much.
LEMMA NothingGranted ==
  ASSUME TokenBucketAssumption, TypeOK, granted = 0
  PROVE  RateBound
<1>1. PICK C \in Nat \ {0}, R \in Nat \ {0}, I \in Nat \ {0}, S \in Nat \ {0}, e \in Nat :
        C = Capacity /\ R = Refill /\ I = Interval /\ S = Scale /\ e = elapsed
  BY PolicyFacts DEF TypeOK
<1>2. 0 * S * I < C * I + R * e + I
  <2>1. C * I \in Nat /\ R * e \in Nat
    OBVIOUS
  <2> QED BY <2>1
<1> QED BY <1>1, <1>2, Zenon DEF RateBound

\* The flow of a living bucket bounds its rate.
LEMMA FlowBoundsRate ==
  ASSUME TokenBucketAssumption, TypeOK, FlowOK, bucket # Absent
  PROVE  RateBound
<1>1. CASE granted = 0
  BY <1>1, NothingGranted
<1>2. CASE granted # 0
  <2>1. PICK C \in Nat \ {0}, R \in Nat \ {0}, I \in Nat \ {0}, S \in Nat \ {0}, e \in Nat :
          C = Capacity /\ R = Refill /\ I = Interval /\ S = Scale /\ e = elapsed
    BY PolicyFacts DEF TypeOK
  <2>2. PICK t \in Nat, m \in Nat, u \in Int, w \in Int, g \in Nat :
          bucket.tokens = t /\ bucket.remainder = m /\ bucket.updated = u
          /\ w = Began /\ g = granted
    BY DEF TypeOK, Bucket, Began
  <2>3. PICK c \in Int : c = Credited /\ c <= e
    BY <2>1, <2>2 DEF Credited, Min2
  <2>4. Content(bucket) = t * I + m
    BY <2>1, <2>2 DEF Content
  <2>5. g * S * I + (t * I + m) < C * I + R * c + I
    BY <1>2, <2>1, <2>2, <2>3, <2>4 DEF FlowOK, TypeOK
  <2>6. R * c <= R * e
    BY <2>3
  <2>7. t * I + m \in Nat
    OBVIOUS
  <2>8. g * S * I < C * I + R * e + I
    BY <2>5, <2>6, <2>7
  <2> QED BY <2>1, <2>2, <2>8, Zenon DEF RateBound
<1> QED BY <1>1, <1>2

\* The same after a step.
Living == bucket # Absent
NoneGranted == granted = 0

LEMMA FlowBoundsRateNext ==
  ASSUME TokenBucketAssumption
  PROVE  (TypeOK' /\ FlowOK' /\ Living') => RateBound'
<1>1. (TypeOK /\ FlowOK /\ Living) => RateBound
  BY FlowBoundsRate DEF Living
<1> QED BY <1>1, PTL

LEMMA NothingGrantedNext ==
  ASSUME TokenBucketAssumption
  PROVE  (TypeOK' /\ NoneGranted') => RateBound'
<1>1. (TypeOK /\ NoneGranted) => RateBound
  BY NothingGranted DEF NoneGranted
<1> QED BY <1>1, PTL

\* The wait that a denial answers is a number of milliseconds that suffices for
\* what is missing at the rate of the policy.
LEMMA WaitIsEnough ==
  ASSUME TokenBucketAssumption, policy \in Policies, NEW cost \in Costs,
         NEW l \in Nat, l < cost * Scale
  PROVE  /\ RetryAfter(cost, l) \in Nat \ {0}
         /\ Refill * RetryAfter(cost, l) >= (cost * Scale - l) * Interval
<1>1. PICK R \in Nat \ {0}, I \in Nat \ {0}, cs \in Nat \ {0} :
        R = Refill /\ I = Interval /\ cs = cost * Scale
  <2>1. cost * Scale \in Nat \ {0}
    BY PolicyFacts
  <2> QED BY <2>1, PolicyFacts
<1>2. PICK a \in Nat \ {0} : a = (cs - l) * I
  BY <1>1
<1>3. RetryAfter(cost, l) = CeilDiv(a, R)
  BY <1>1, <1>2, Zenon DEF RetryAfter
<1>4. CeilDiv(a, R) \in Nat \ {0} /\ R * CeilDiv(a, R) >= a
  BY RoundedUp
<1> QED BY <1>1, <1>2, <1>3, <1>4, Zenon

\* What the histories are after a call.
LEMMA HistoriesAfterConsume ==
  ASSUME TypeOK, NEW cost \in Costs, Consume(cost)
  PROVE  /\ UNCHANGED <<policy, clock, budget>>
         /\ bucket = Absent \/ granted = 0 => elapsed' = 0 /\ behind' = 0
         /\ ~(bucket = Absent \/ granted = 0) => UNCHANGED <<elapsed, behind>>
BY DEF Consume

LEMMA ConsumeKeepsTypes ==
  ASSUME TokenBucketAssumption, IInv, NEW cost \in Costs, Consume(cost)
  PROVE  TypeOK' /\ Living' /\ DatesOK' /\ ResultOK'
<1> USE DEF IInv
<1>1. PICK t \in Nat, u \in Int, m \in Nat, k \in Nat, v \in Int, r \in Nat, l \in Nat :
        /\ bucket = Absent => u = clock
        /\ bucket # Absent => u = bucket.updated
        /\ k <= Capacity /\ r < Interval
        /\ clock <= u => v = u
        /\ clock > u => v = clock
        /\ bucket' = [tokens |-> l, remainder |-> r, updated |-> v,
                      expiry |-> clock + policy.ttl]
        /\ \/ /\ k >= cost * Scale /\ l = k - cost * Scale
              /\ granted' = (IF bucket = Absent THEN 0 ELSE granted) + cost
              /\ result' = [cost |-> cost, allowed |-> TRUE, remaining |-> l, retryAfter |-> 0]
           \/ /\ k < cost * Scale /\ l = k
              /\ granted' = (IF bucket = Absent THEN 0 ELSE granted)
              /\ result' = [cost |-> cost, allowed |-> FALSE, remaining |-> l,
                            retryAfter |-> RetryAfter(cost, l)]
  BY ConsumeIs
<1>2. PICK C \in Nat \ {0}, I \in Nat \ {0}, cs \in Nat \ {0}, ttl \in Nat, w \in Int :
        /\ C = Capacity /\ I = Interval /\ cs = cost * Scale /\ ttl = policy.ttl /\ w = clock
        /\ cost \in Nat \ {0}
  <2>1. cost * Scale \in Nat \ {0} /\ cost \in Nat \ {0}
    BY PolicyFacts DEF TypeOK
  <2> QED BY <2>1, PolicyFacts DEF TypeOK
<1>3. Capacity' = C /\ Interval' = I /\ policy' = policy /\ clock' = w /\ budget' = budget
  BY <1>2, HistoriesAfterConsume DEF Capacity, Interval
<1>4. l <= k /\ l <= C /\ r < I
  BY <1>1, <1>2
<1>5. PICK x \in Bucket : /\ x = bucket' /\ x.tokens = l /\ x.remainder = r
                          /\ x.updated = v /\ x.expiry = w + ttl
  <2>1. [tokens |-> l, remainder |-> r, updated |-> v, expiry |-> w + ttl] \in Bucket
    BY DEF Bucket
  <2> QED BY <1>1, <1>2, <2>1
<1>6. Living' /\ bucket' \in Bucket
  BY <1>5 DEF Living, TokenBucketAssumption
<1>7. elapsed' \in Nat /\ behind' \in Nat
  BY HistoriesAfterConsume DEF TypeOK
<1>8. granted' \in Nat
  BY <1>1, <1>2 DEF TypeOK
<1>9. l < cs => RetryAfter(cost, l) \in Nat
  BY <1>2, WaitIsEnough DEF TypeOK
<1>10. result' \in [cost : Nat, allowed : BOOLEAN, remaining : Nat, retryAfter : Nat]
  <2>1. CASE result' = [cost |-> cost, allowed |-> TRUE, remaining |-> l, retryAfter |-> 0]
    BY <1>2, <2>1
  <2>2. CASE /\ l < cs
             /\ result' = [cost |-> cost, allowed |-> FALSE, remaining |-> l,
                           retryAfter |-> RetryAfter(cost, l)]
    <3>1. PICK w1 \in Nat : w1 = RetryAfter(cost, l)
      BY <1>9, <2>2
    <3>2. [cost |-> cost, allowed |-> FALSE, remaining |-> l, retryAfter |-> w1]
            \in [cost : Nat, allowed : BOOLEAN, remaining : Nat, retryAfter : Nat]
      BY <1>2
    <3> QED BY <2>2, <3>1, <3>2, Zenon
  <2> QED BY <1>1, <1>2, <2>1, <2>2
<1>11. TypeOK'
  BY <1>3, <1>4, <1>5, <1>6, <1>7, <1>8, <1>10, <1>2 DEF TypeOK
<1>12. DatesOK'
  <2>1. PICK h \in Nat : h = HeldUp /\ HeldUp' = h
    <3>1. (Budget - budget) * MaxStep \in Nat
      BY DEF DatesOK, TypeOK, TokenBucketAssumption
    <3> QED BY <3>1, <1>3 DEF HeldUp
  <2>2. u <= w + h
    BY <1>1, <1>2, <2>1 DEF DatesOK
  <2>3. v <= w + h
    BY <1>1, <1>2, <2>1, <2>2
  <2>4. bucket'.updated <= clock' + h /\ bucket'.updated <= (bucket'.expiry - policy'.ttl) + h
    BY <1>2, <1>3, <1>5, <2>3
  <2> QED BY <1>3, <2>1, <2>4 DEF DatesOK
<1>13. ResultOK'
  <2>1. CASE result'.allowed
    BY <2>1 DEF ResultOK
  <2>2. CASE ~result'.allowed
    <3>1. l < cs /\ result' = [cost |-> cost, allowed |-> FALSE, remaining |-> l,
                              retryAfter |-> RetryAfter(cost, l)]
      BY <1>1, <1>2, <2>2
    <3>2. RetryAfter(cost, l)' = RetryAfter(cost, l)
      BY <1>3 DEF RetryAfter, Interval, Refill
    <3>3. /\ result'.cost = cost /\ result'.remaining = l
          /\ result'.retryAfter = RetryAfter(cost, l)
      BY <3>1
    <3>4. RetryAfter(result.cost, bucket.tokens)' = RetryAfter(cost, l)
      BY <1>3, <1>5, <3>3 DEF RetryAfter, Interval, Refill
    <3>5. bucket'.tokens < result'.cost * Scale /\ bucket'.tokens <= C /\ bucket'.remainder < I
      BY <1>2, <1>4, <1>5, <3>1, <3>3
    <3> QED BY <1>3, <1>5, <1>6, <3>3, <3>4, <3>5 DEF ResultOK, Living
  <2> QED BY <2>1, <2>2
<1> QED BY <1>6, <1>11, <1>12, <1>13

\* What is granted is taken from what is left.
LEMMA Exchange ==
  ASSUME NEW g \in Nat, NEW c \in Nat, NEW S \in Nat, NEW I \in Nat, NEW k \in Nat, NEW r \in Nat
  PROVE  (g + c) * S * I + ((k - c * S) * I + r) = g * S * I + (k * I + r)
<1>1. PICK x \in Nat, y \in Nat : x = g * S /\ y = c * S
  OBVIOUS
<1>2. (g + c) * S = x + y
  BY <1>1
<1>3. (x + y) * I = x * I + y * I /\ (k - y) * I = k * I - y * I
  OBVIOUS
<1>4. PICK a \in Nat, b \in Nat, z \in Nat : a = x * I /\ b = y * I /\ z = k * I
  OBVIOUS
<1>5. (x + y) * I + ((k - y) * I + r) = x * I + (k * I + r)
  BY <1>3, <1>4
<1> QED BY <1>1, <1>2, <1>5, Zenon

\* A call that grants takes no more than has flowed in: the first one starts the
\* account, a later one continues it.
LEMMA ConsumeKeepsFlow ==
  ASSUME TokenBucketAssumption, IInv, NEW cost \in Costs, Consume(cost)
  PROVE  FlowOK'
<1> USE DEF IInv
<1>1. PICK t \in Nat, u \in Int, m \in Nat, k \in Nat, v \in Int, r \in Nat, l \in Nat :
        /\ t <= Capacity /\ m < Interval
        /\ bucket = Absent => u = clock
        /\ bucket # Absent => u = bucket.updated
        /\ bucket # Absent /\ bucket.tokens <= Capacity /\ bucket.remainder < Interval =>
             t = bucket.tokens /\ m = bucket.remainder
        /\ k <= Capacity /\ r < Interval
        /\ clock <= u => v = u /\ k * Interval + r = t * Interval + m
        /\ clock > u => /\ v = clock
                        /\ k * Interval + r <= t * Interval + m + Refill * (clock - u)
        /\ bucket' = [tokens |-> l, remainder |-> r, updated |-> v,
                      expiry |-> clock + policy.ttl]
        /\ \/ /\ k >= cost * Scale /\ l = k - cost * Scale
              /\ granted' = (IF bucket = Absent THEN 0 ELSE granted) + cost
              /\ result' = [cost |-> cost, allowed |-> TRUE, remaining |-> l, retryAfter |-> 0]
           \/ /\ k < cost * Scale /\ l = k
              /\ granted' = (IF bucket = Absent THEN 0 ELSE granted)
              /\ result' = [cost |-> cost, allowed |-> FALSE, remaining |-> l,
                            retryAfter |-> RetryAfter(cost, l)]
  BY ConsumeIs
<1>2. PICK C \in Nat \ {0}, R \in Nat \ {0}, I \in Nat \ {0}, S \in Nat \ {0}, w \in Int,
           f \in Nat, e \in Nat :
        /\ C = Capacity /\ R = Refill /\ I = Interval /\ S = Scale /\ w = clock
        /\ f = behind /\ e = elapsed /\ cost \in Nat \ {0}
  BY PolicyFacts DEF TypeOK
<1>3. Capacity' = C /\ Refill' = R /\ Interval' = I /\ clock' = w
  BY <1>2, HistoriesAfterConsume DEF Capacity, Refill, Interval
<1>4. PICK g \in Nat, d \in Nat : /\ g = (IF bucket = Absent THEN 0 ELSE granted)
                                  /\ d = granted' /\ k * I + r \in Nat
                                  /\ \/ k >= cost * S /\ l = k - cost * S /\ d = g + cost
                                     \/ l = k /\ d = g
  <2>1. PICK g \in Nat : g = (IF bucket = Absent THEN 0 ELSE granted)
    BY DEF TypeOK
  <2>2. k * I + r \in Nat
    OBVIOUS
  <2> QED BY <1>1, <1>2, <2>1, <2>2
<1>5. Content(bucket)' = l * I + r /\ bucket'.updated = v
  BY <1>1, <1>3 DEF Content
<1>6. d * S * I + (l * I + r) = g * S * I + (k * I + r)
  <2>1. CASE l = k /\ d = g
    BY <2>1
  <2>2. CASE k >= cost * S /\ l = k - cost * S /\ d = g + cost
    <3>1. (g + cost) * S * I + ((k - cost * S) * I + r) = g * S * I + (k * I + r)
      BY <1>2, Exchange
    <3> QED BY <2>2, <3>1, Zenon
  <2> QED BY <1>4, <2>1, <2>2
<1>7. CASE bucket = Absent \/ granted = 0
  <2>1. elapsed' = 0 /\ behind' = 0
    BY <1>7, HistoriesAfterConsume
  <2>2. g = 0
    BY <1>4, <1>7
  <2>3. Began' = w
    BY <1>2, <1>3, <2>1 DEF Began
  <2>4. v >= w
    BY <1>1, <1>2
  <2>5. Min2(v - w, 0) = 0
    BY <2>4 DEF Min2
  <2>6. Credited' = 0
    BY <1>5, <2>1, <2>3, <2>5 DEF Credited, Min2
  <2>7. (d * S * I) + (l * I + r) < C * I + R * 0 + I
    <3>1. k * I <= C * I
      BY <1>1, <1>2
    <3>2. r < I
      BY <1>1, <1>2
    <3>3. g * S * I = 0 /\ R * 0 = 0
      BY <2>2
    <3> QED BY <1>6, <3>1, <3>2, <3>3
  <2>8. (granted * Scale * Interval + Content(bucket))' = d * S * I + (l * I + r)
    BY <1>2, <1>3, <1>4, <1>5, Zenon
  <2>9. (Capacity * Interval + Refill * Credited + Interval)' = C * I + R * 0 + I
    BY <1>3, <2>6, Zenon
  <2>10. Began' <= bucket'.updated
    BY <1>5, <2>3, <2>4
  <2> QED BY <2>7, <2>8, <2>9, <2>10, Zenon DEF FlowOK
<1>8. CASE bucket # Absent /\ granted > 0
  <2>1. elapsed' = e /\ behind' = f
    BY <1>2, <1>8, HistoriesAfterConsume
  <2>2. g = granted /\ g > 0
    BY <1>4, <1>8
  <2>3. t = bucket.tokens /\ m = bucket.remainder /\ u = bucket.updated
    BY <1>1, <1>8 DEF TypeOK
  <2>4. PICK n \in Int : n = Began /\ n = w + f - e
    BY <1>2 DEF Began
  <2>5. Began' = n
    BY <1>3, <2>1, <2>4 DEF Began
  <2>6. PICK c \in Int : c = Credited /\ c = Min2(u - n, e)
    BY <1>2, <2>3, <2>4 DEF Credited, Min2
  <2>7. PICK h \in Int : h = Credited' /\ h = Min2(v - n, e)
    <3>1. Min2(v - n, e) \in Int
      BY DEF Min2
    <3>2. Credited' = Min2(v - n, e)
      BY <1>5, <2>1, <2>5, Zenon DEF Credited
    <3> QED BY <3>1, <3>2
  <2>8. Content(bucket) = t * I + m
    BY <1>2, <2>3 DEF Content
  <2>9. n <= u /\ g * S * I + (t * I + m) < C * I + R * c + I
    BY <1>2, <1>8, <2>2, <2>3, <2>4, <2>6, <2>8, Zenon DEF FlowOK
  <2>10. n <= v /\ g * S * I + (k * I + r) < C * I + R * h + I
    <3>1. CASE w <= u
      <4>1. v = u /\ k * I + r = t * I + m /\ h = c
        BY <1>1, <1>2, <2>6, <2>7, <3>1
      <4> QED BY <2>9, <4>1
    <3>2. CASE w > u
      <4>1. v = w /\ k * I + r <= t * I + m + R * (w - u)
        BY <1>1, <1>2, <3>2
      <4>2. c = u - n /\ h = w - n /\ n <= w
        BY <2>4, <2>6, <2>7, <2>9, <3>2, <4>1 DEF Min2
      <4>3. R * h = R * c + R * (w - u)
        BY <4>2
      <4>4. PICK a \in Int, b \in Int, z \in Int, p \in Int, q \in Int, y \in Int :
              /\ a = g * S * I /\ b = t * I /\ z = k * I /\ p = R * c /\ q = R * h
              /\ y = R * (w - u)
        OBVIOUS
      <4>5. /\ a + (b + m) < C * I + p + I
            /\ z + r <= b + m + y
            /\ q = p + y
        BY <2>9, <4>1, <4>3, <4>4, Zenon
      <4>6. a + (z + r) < C * I + q + I
        BY <4>5
      <4> QED BY <4>1, <4>2, <4>4, <4>6, Zenon
    <3> QED BY <3>1, <3>2
  <2>11. d * S * I + (l * I + r) < C * I + R * h + I
    BY <1>6, <2>10
  <2>12. (granted * Scale * Interval + Content(bucket))' = d * S * I + (l * I + r)
    BY <1>2, <1>3, <1>4, <1>5, Zenon
  <2>13. (Capacity * Interval + Refill * Credited + Interval)' = C * I + R * h + I
    BY <1>3, <2>7, Zenon
  <2>14. Began' <= bucket'.updated
    BY <1>5, <2>5, <2>10
  <2> QED BY <2>11, <2>12, <2>13, <2>14, Zenon DEF FlowOK
<1> QED BY <1>7, <1>8 DEF TypeOK

\* Time credits what it may: a step between calls keeps the account, and the bound
\* also when it drops the key.
LEMMA TimeKeepsFlow ==
  ASSUME TokenBucketAssumption, TypeOK, RateBound, FlowOK, TypeOK',
         UNCHANGED <<policy, granted>>, bucket' = bucket \/ bucket' = Absent,
         elapsed' >= elapsed, Began' = Began
  PROVE  FlowOK' /\ RateBound'
<1>1. PICK C \in Nat \ {0}, R \in Nat \ {0}, I \in Nat \ {0}, S \in Nat \ {0},
           g \in Nat, e \in Nat, n \in Int, x \in Nat :
        /\ C = Capacity /\ R = Refill /\ I = Interval /\ S = Scale
        /\ g = granted /\ e = elapsed /\ n = Began /\ x = elapsed' /\ x >= e
  BY PolicyFacts DEF TypeOK, Began
<1>2. Capacity' = C /\ Refill' = R /\ Interval' = I /\ granted' = g
  BY <1>1 DEF Capacity, Refill, Interval
<1>3. RateBound'
  <2>1. g * S * I < C * I + R * e + I
    BY <1>1, Zenon DEF RateBound
  <2>2. R * e <= R * x
    <3>1. e <= x
      BY <1>1
    <3> QED BY <3>1
  <2>3. g * S * I < C * I + R * x + I
    BY <2>1, <2>2
  <2> QED BY <1>1, <1>2, <2>3, Zenon DEF RateBound
<1>4. FlowOK'
  <2>1. CASE bucket' = Absent \/ ~(granted > 0)
    BY <2>1, <1>1, <1>2 DEF FlowOK
  <2>2. CASE bucket' # Absent /\ granted > 0
    <3>1. bucket' = bucket /\ bucket # Absent
      BY <2>2
    <3>2. PICK t \in Nat, m \in Nat, u \in Int :
            bucket.tokens = t /\ bucket.remainder = m /\ bucket.updated = u
      BY <3>1 DEF TypeOK, Bucket
    <3>3. PICK c \in Int : c = Credited /\ c = Min2(u - n, e)
      BY <1>1, <3>2 DEF Credited, Min2
    <3>4. PICK h \in Int : h = Credited' /\ h = Min2(u - n, x)
      <4>1. Min2(u - n, x) \in Int
        BY DEF Min2
      <4>2. Credited' = Min2(u - n, x)
        BY <1>1, <3>1, <3>2, Zenon DEF Credited
      <4> QED BY <4>1, <4>2
    <3>5. c <= h
      BY <1>1, <3>3, <3>4 DEF Min2
    <3>6. Content(bucket) = t * I + m
      BY <1>1, <3>2 DEF Content
    <3>7. Content(bucket)' = t * I + m
      BY <1>2, <3>1, <3>2 DEF Content
    <3>8. n <= u /\ g * S * I + (t * I + m) < C * I + R * c + I
      BY <1>1, <2>2, <3>1, <3>2, <3>3, <3>6, Zenon DEF FlowOK
    <3>9. R * c <= R * h
      BY <3>5
    <3>10. g * S * I + (t * I + m) < C * I + R * h + I
      BY <3>8, <3>9
    <3>11. Began' <= bucket'.updated
      BY <1>1, <3>1, <3>2, <3>8
    <3>12. (granted * Scale * Interval + Content(bucket))' = g * S * I + (t * I + m)
      BY <1>1, <1>2, <3>7, Zenon
    <3>13. (Capacity * Interval + Refill * Credited + Interval)' = C * I + R * h + I
      BY <1>2, <3>4, Zenon
    <3> QED BY <3>10, <3>11, <3>12, <3>13, Zenon DEF FlowOK
  <2> QED BY <2>1, <2>2
<1> QED BY <1>3, <1>4

LEMMA TickKeeps ==
  ASSUME TokenBucketAssumption, IInv, Tick
  PROVE  IInv'
<1> USE DEF IInv
<1>1. /\ clock' = clock + 1 /\ clock' <= MaxTime
      /\ bucket' = bucket \/ bucket' = Absent
      /\ result' = NoResult /\ UNCHANGED <<policy, granted, budget>>
  BY DEF Tick, TypeOK, TokenBucketAssumption
<1>2. /\ elapsed' \in Nat /\ behind' \in Nat /\ elapsed' >= elapsed
      /\ clock' + behind' - elapsed' = clock + behind - elapsed
  BY DEF Tick, TypeOK
<1>3. Capacity' = Capacity /\ Interval' = Interval
  BY <1>1 DEF Capacity, Interval
<1>4. TypeOK'
  BY <1>1, <1>2, <1>3 DEF TypeOK, NoResult
<1>5. FlowOK' /\ RateBound'
  BY <1>1, <1>2, <1>4, TimeKeepsFlow DEF Began
<1>6. DatesOK'
  <2>1. PICK h \in Int : h = HeldUp /\ HeldUp' = h
    BY <1>1 DEF HeldUp, TypeOK, TokenBucketAssumption
  <2>2. ASSUME bucket' # Absent PROVE bucket' = bucket /\ bucket # Absent
    BY <1>1, <2>2
  <2>3. bucket' # Absent => bucket'.updated <= clock' + h
    <3> SUFFICES ASSUME bucket' # Absent PROVE bucket.updated <= (clock + 1) + h
      BY <1>1, <2>2
    <3>1. bucket.updated <= clock + h /\ bucket.updated \in Int
      BY <2>1, <2>2 DEF DatesOK, TypeOK, Bucket
    <3> QED BY <3>1 DEF TypeOK
  <2> QED BY <1>1, <2>1, <2>2, <2>3 DEF DatesOK
<1>7. ResultOK'
  BY <1>1 DEF ResultOK, NoResult
<1> QED BY <1>4, <1>5, <1>6, <1>7

LEMMA StepBackKeeps ==
  ASSUME TokenBucketAssumption, IInv, NEW n \in 1..MaxStep, StepBack(n)
  PROVE  IInv'
<1> USE DEF IInv
<1>1. /\ clock' = clock - n /\ behind' = behind + n /\ budget' = budget - 1 /\ budget > 0
      /\ result' = NoResult /\ UNCHANGED <<policy, bucket, granted, elapsed>>
      /\ n \in Nat /\ n <= MaxStep
  BY DEF StepBack, TokenBucketAssumption
<1>2. Capacity' = Capacity /\ Interval' = Interval
  BY <1>1 DEF Capacity, Interval
<1>3. TypeOK'
  BY <1>1, <1>2 DEF TypeOK, NoResult, TokenBucketAssumption
<1>4. clock' + behind' - elapsed' = clock + behind - elapsed
  BY <1>1 DEF TypeOK
<1>5. FlowOK' /\ RateBound'
  BY <1>1, <1>3, <1>4, TimeKeepsFlow DEF Began, TypeOK
<1>6. DatesOK'
  <2>1. PICK h \in Int, i \in Int : h = HeldUp /\ HeldUp' = i /\ i = h + MaxStep
    <3>1. (Budget - (budget - 1)) * MaxStep = (Budget - budget) * MaxStep + MaxStep
      BY DEF TypeOK, TokenBucketAssumption
    <3> QED BY <1>1, <3>1 DEF HeldUp, TypeOK, TokenBucketAssumption
  <2>2. bucket # Absent => bucket.updated <= (clock - n) + i
    BY <1>1, <2>1 DEF DatesOK, TypeOK, Bucket, TokenBucketAssumption
  <2>3. bucket # Absent /\ granted > 0 =>
          bucket.updated <= (bucket.expiry - policy.ttl) + i
    <3>1. policy.ttl \in Nat
      BY PolicyFacts DEF TypeOK
    <3> QED BY <3>1, <2>1 DEF DatesOK, TypeOK, Bucket, TokenBucketAssumption
  <2>4. budget' <= Budget
    BY <1>1 DEF DatesOK, TypeOK, TokenBucketAssumption
  <2> QED BY <1>1, <2>1, <2>2, <2>3, <2>4 DEF DatesOK
<1>7. ResultOK'
  BY <1>1 DEF ResultOK, NoResult
<1> QED BY <1>3, <1>5, <1>6, <1>7

LEMMA DeployKeeps ==
  ASSUME TokenBucketAssumption, IInv, NEW p \in Policies, Deploy(p)
  PROVE  IInv'
<1> USE DEF IInv
<1>1. /\ budget > 0 /\ budget' = budget - 1 /\ policy' = p /\ granted' = 0 /\ elapsed' = 0
      /\ result' = NoResult /\ UNCHANGED <<bucket, clock, behind>>
  BY DEF Deploy
<1>2. TypeOK'
  BY <1>1 DEF TypeOK, NoResult
<1>3. RateBound'
  BY <1>1, <1>2, NothingGrantedNext DEF NoneGranted
<1>4. FlowOK'
  BY <1>1 DEF FlowOK
<1>5. DatesOK'
  <2>1. PICK h \in Int, i \in Int : h = HeldUp /\ HeldUp' = i /\ i >= h
    <3>1. (Budget - (budget - 1)) * MaxStep = (Budget - budget) * MaxStep + MaxStep
      BY DEF TypeOK, TokenBucketAssumption
    <3> QED BY <1>1, <3>1 DEF HeldUp, TypeOK, TokenBucketAssumption
  <2>2. bucket # Absent => bucket.updated <= clock + i
    BY <1>1, <2>1 DEF DatesOK, TypeOK, Bucket
  <2>3. budget' <= Budget
    BY <1>1 DEF DatesOK, TypeOK, TokenBucketAssumption
  <2> QED BY <1>1, <2>1, <2>2, <2>3 DEF DatesOK
<1>6. ResultOK'
  BY <1>1 DEF ResultOK, NoResult
<1> QED BY <1>2, <1>3, <1>4, <1>5, <1>6

-----------------------------------------------------------------------------
(* Theorems. *)

\* THEOREM: the inductive invariant: what has been granted, together with what is in
\* the bucket, is within the account of the time credited (consumeTokenBucket).
THEOREM BucketInvariance ==
  ASSUME TokenBucketAssumption
  PROVE  Spec => []IInv
<1>1. Init => IInv
  <2> SUFFICES ASSUME Init PROVE IInv
    OBVIOUS
  <2>1. TypeOK
    BY DEF Init, TypeOK, NoResult, TokenBucketAssumption
  <2>2. RateBound
    BY <2>1, NothingGranted DEF Init
  <2>3. FlowOK /\ ResultOK /\ DatesOK
    BY DEF Init, FlowOK, ResultOK, DatesOK, NoResult, TokenBucketAssumption
  <2> QED BY <2>1, <2>2, <2>3 DEF IInv
<1>2. IInv /\ [Next]_vars => IInv'
  <2> SUFFICES ASSUME IInv, [Next]_vars PROVE IInv'
    OBVIOUS
  <2>1. CASE \E c \in Costs : Consume(c)
    <3>1. PICK c \in Costs : Consume(c)
      BY <2>1
    <3>2. TypeOK' /\ Living' /\ DatesOK' /\ ResultOK'
      BY <3>1, ConsumeKeepsTypes
    <3>3. FlowOK'
      BY <3>1, ConsumeKeepsFlow
    <3>4. RateBound'
      BY <3>2, <3>3, FlowBoundsRateNext
    <3> QED BY <3>2, <3>3, <3>4 DEF IInv
  <2>2. CASE Tick
    BY <2>2, TickKeeps
  <2>3. CASE \E n \in 1..MaxStep : StepBack(n)
    BY <2>3, StepBackKeeps
  <2>4. CASE \E p \in Policies \ {policy} : Deploy(p)
    BY <2>4, DeployKeeps
  <2>5. CASE UNCHANGED vars
    BY <2>5 DEF vars, IInv, TypeOK, RateBound, FlowOK, DatesOK, ResultOK, Capacity, Refill,
                Interval, Content, Began, Credited, HeldUp, RetryAfter
  <2> QED BY <2>1, <2>2, <2>3, <2>4, <2>5 DEF Next
<1> QED BY <1>1, <1>2, PTL DEF Spec

\* THEOREM: the bucket and the results keep their types, and a bucket that a call has
\* stored is within the policy.
THEOREM BucketTypes ==
  ASSUME TokenBucketAssumption
  PROVE  Spec => []TypeOK
<1>1. IInv => TypeOK
  BY DEF IInv
<1> QED BY <1>1, BucketInvariance, PTL

\* THEOREM: as long as its key lives, a bucket grants no more than it holds when full
\* and what flows in while the clock advances, for every policy, every number of
\* deployments and every step back of the clock.
THEOREM RateIsBounded ==
  ASSUME TokenBucketAssumption
  PROVE  Spec => []RateBound
<1>1. IInv => RateBound
  BY DEF IInv
<1> QED BY <1>1, BucketInvariance, PTL

\* THEOREM: calls that are denied neither add tokens nor lose them by rounding.
THEOREM PollingCostsNothing ==
  ASSUME TokenBucketAssumption
  PROVE  Spec => []PollingIsNeutral
<1>1. IInv => PollingIsNeutral
  <2> SUFFICES ASSUME TypeOK, NEW s \in 1..Interval + 1, NEW t \in {1, Interval}
               PROVE  LET b == Read(clock)
                          from == Max2(clock, b.updated)
                      IN  Refilled(Refilled(b, from + s), from + s + t)
                            = Refilled(b, from + s + t)
    BY DEF PollingIsNeutral, IInv
  <2>1. PICK i \in Nat, u \in Int, m \in Nat :
          /\ Read(clock) = [tokens |-> i, updated |-> u, remainder |-> m]
          /\ i <= Capacity /\ m < Interval
    BY ReadIs DEF TypeOK
  <2>2. PICK b \in ReadBucket : /\ b = Read(clock)
                                /\ b.tokens = i /\ b.updated = u /\ b.remainder = m
    <3>1. [tokens |-> i, updated |-> u, remainder |-> m] \in ReadBucket
      BY DEF ReadBucket
    <3> QED BY <2>1, <3>1
  <2>3. PICK f \in Int : f = Max2(clock, u) /\ u <= f
    BY DEF Max2, TypeOK
  <2>4. s \in Nat \ {0} /\ t \in Nat \ {0}
    BY PolicyFacts DEF TypeOK
  <2>5. b.updated < f + s /\ f + s < f + s + t
    BY <2>2, <2>3, <2>4
  <2>6. b.tokens <= Capacity /\ b.remainder < Interval /\ policy \in Policies
    BY <2>1, <2>2 DEF TypeOK
  <2>7. f + s \in Int /\ f + s + t \in Int
    BY <2>3, <2>4
  <2>8. Refilled(Refilled(b, f + s), f + s + t) = Refilled(b, f + s + t)
    BY <2>5, <2>6, <2>7, RefillsCompose
  <2> QED BY <2>2, <2>3, <2>8, Zenon
<1> QED BY <1>1, BucketInvariance, PTL

\* THEOREM: a caller that is denied and waits as long as normalizeTokenBucketResult
\* tells it is admitted, if no other call comes first.
THEOREM WaitSuffices ==
  ASSUME TokenBucketAssumption
  PROVE  Spec => []RetryAfterSuffices
<1>1. IInv => RetryAfterSuffices
  <2> SUFFICES ASSUME IInv, ~result.allowed, bucket.updated = clock
               PROVE  Refilled(Read(clock), clock + result.retryAfter).tokens
                        >= result.cost * Scale
    BY DEF RetryAfterSuffices
  <2>1. PICK cost \in Costs : cost = result.cost
    BY DEF IInv, ResultOK
  <2>2. PICK C \in Nat \ {0}, R \in Nat \ {0}, I \in Nat \ {0}, cs \in Nat, w \in Int :
          C = Capacity /\ R = Refill /\ I = Interval /\ cs = cost * Scale /\ w = clock
          /\ cs <= C
    <3>1. PICK pc \in Nat, sc \in Nat : /\ pc = policy.capacity /\ sc = Scale /\ cost \in Nat
                                       /\ cost <= pc /\ Capacity = pc * sc
      BY PolicyFacts DEF IInv, TypeOK
    <3>2. cost * sc \in Nat /\ cost * sc <= pc * sc
      BY <3>1
    <3> QED BY <3>1, <3>2, PolicyFacts DEF IInv, TypeOK
  <2>3. PICK l \in Nat, m \in Nat : l = bucket.tokens /\ m = bucket.remainder
    BY DEF IInv, ResultOK, TypeOK, Bucket
  <2>4. l < cs /\ l <= C /\ m < I /\ result.retryAfter = RetryAfter(cost, l)
    BY <2>1, <2>2, <2>3 DEF IInv, ResultOK
  <2>5. PICK n \in Nat \ {0} : n = RetryAfter(cost, l) /\ R * n >= (cs - l) * I
    BY <2>2, <2>4, WaitIsEnough DEF IInv, TypeOK
  <2>6. Read(clock) = [tokens |-> l, updated |-> w, remainder |-> m]
    <3>1. PICK t \in Nat, u \in Int, k \in Nat :
            /\ Read(clock) = [tokens |-> t, updated |-> u, remainder |-> k]
            /\ u = bucket.updated /\ t = bucket.tokens /\ k = bucket.remainder
      BY ReadIs DEF IInv, ResultOK, TypeOK
    <3> QED BY <2>2, <2>3, <3>1
  <2>7. PICK b \in ReadBucket : /\ b = Read(clock)
                                /\ b.tokens = l /\ b.updated = w /\ b.remainder = m
    <3>1. [tokens |-> l, updated |-> w, remainder |-> m] \in ReadBucket
      BY DEF ReadBucket
    <3> QED BY <2>6, <3>1
  <2>8. Due(b, w + n) = l * I + m + R * n
    <3>1. (w + n) - w = n
      OBVIOUS
    <3> QED BY <2>2, <2>7, <3>1, Zenon DEF Due, Content
  <2>9. l * I + m + R * n >= cs * I
    <3>1. (cs - l) * I = cs * I - l * I
      OBVIOUS
    <3> QED BY <2>5, <3>1
  <2>10. b.tokens < Capacity /\ b.tokens <= Capacity /\ b.remainder < Interval
         /\ w + n > b.updated
    BY <2>2, <2>4, <2>7
  <2>11. Refilled(b, w + n).tokens >= cs
    <3>1. CASE Due(b, w + n) >= C * I
      <4>1. Refilled(b, w + n) = [tokens |-> C, updated |-> w + n, remainder |-> 0]
        BY <2>2, <2>10, <3>1, RefilledIs DEF IInv, TypeOK
      <4> QED BY <2>2, <4>1
    <3>2. CASE Due(b, w + n) < C * I
      <4>1. PICK t \in Nat, r \in Nat :
              /\ r < I /\ t * I + r = Due(b, w + n)
              /\ Refilled(b, w + n) = [tokens |-> t, updated |-> w + n, remainder |-> r]
        BY <2>2, <2>10, <3>2, RefilledIs DEF IInv, TypeOK
      <4>2. t * I + r >= cs * I
        BY <2>8, <2>9, <4>1
      <4>3. t >= cs
        <5> SUFFICES ASSUME t + 1 <= cs PROVE FALSE
          OBVIOUS
        <5>1. (t + 1) * I <= cs * I /\ (t + 1) * I = t * I + I
          OBVIOUS
        <5> QED BY <4>1, <4>2, <5>1
      <4> QED BY <4>1, <4>3
    <3> QED BY <2>8, <3>1, <3>2
  <2> QED BY <2>1, <2>2, <2>4, <2>5, <2>7, <2>11
<1> QED BY <1>1, BucketInvariance, PTL

\* THEOREM: a key that reaches its end takes nothing with it that a full bucket would
\* not have, but for what the steps back of the clock have held up (PEXPIRE with the
\* time to live that validateTokenBucketInput asks for).
THEOREM ExpiryCostsNothing ==
  ASSUME TokenBucketAssumption
  PROVE  Spec => ExpiryIsHarmless
<1>1. IInv /\ IInv' /\ [Next]_vars =>
        [bucket # Absent /\ bucket' = Absent /\ granted > 0 =>
           LET heldUp == (Budget - budget) * MaxStep
           IN  Refilled(Read(clock'), clock' + heldUp).tokens = Capacity]_vars
  <2> SUFFICES ASSUME IInv, [Next]_vars, bucket # Absent, bucket' = Absent, granted > 0
               PROVE  Refilled(Read(clock'), clock' + (Budget - budget) * MaxStep).tokens
                        = Capacity
    OBVIOUS
  <2> USE DEF IInv
  <2>1. Tick
    <3>1. ~(\E c \in Costs : Consume(c))
      BY ConsumeKeepsTypes DEF Living
    <3>2. ~UNCHANGED vars
      BY DEF vars
    <3> QED BY <3>1, <3>2 DEF Next, StepBack, Deploy
  <2>2. bucket.expiry <= clock + 1 /\ clock' = clock + 1
    BY <2>1 DEF Tick
  <2>3. PICK C \in Nat \ {0}, R \in Nat \ {0}, I \in Nat \ {0}, ttl \in Nat, w \in Int, h \in Nat :
          /\ C = Capacity /\ R = Refill /\ I = Interval /\ ttl = policy.ttl /\ w = clock'
          /\ h = HeldUp
    <3>1. (Budget - budget) * MaxStep \in Nat
      BY DEF DatesOK, TypeOK, TokenBucketAssumption
    <3> QED BY <2>2, <3>1, PolicyFacts DEF HeldUp, TypeOK
  <2>4. PICK l \in Nat, m \in Nat, u \in Int, x \in Int :
          /\ l = bucket.tokens /\ m = bucket.remainder /\ u = bucket.updated /\ x = bucket.expiry
          /\ l <= C /\ m < I
    BY <2>3 DEF TypeOK, Bucket
  <2>5. x <= w /\ u <= (x - ttl) + h
    BY <2>2, <2>3, <2>4 DEF DatesOK
  <2>6. PICK b \in ReadBucket : /\ b = Read(w)
                                /\ b.tokens = l /\ b.updated = u /\ b.remainder = m
    <3>1. PICK t \in Nat, v \in Int, k \in Nat :
            /\ Read(w) = [tokens |-> t, updated |-> v, remainder |-> k]
            /\ v = bucket.updated /\ t = bucket.tokens /\ k = bucket.remainder
      <4>1. TypeOK /\ bucket.tokens <= Capacity /\ bucket.remainder < Interval
        BY <2>3, <2>4
      <4>2. \E t \in Nat, v \in Int, k \in Nat :
              /\ Read(w) = [tokens |-> t, updated |-> v, remainder |-> k]
              /\ t <= Capacity /\ k < Interval
              /\ bucket = Absent => v = w
              /\ bucket # Absent => v = bucket.updated
              /\ bucket # Absent /\ bucket.tokens <= Capacity /\ bucket.remainder < Interval =>
                   t = bucket.tokens /\ k = bucket.remainder
        BY <4>1, ReadIs, Zenon
      <4> QED BY <4>1, <4>2, Zenon
    <3>2. [tokens |-> l, updated |-> u, remainder |-> m] \in ReadBucket
      BY DEF ReadBucket
    <3> QED BY <2>4, <3>1, <3>2
  <2>7. PICK n \in Int : n = (w + h) - u /\ n >= ttl
    BY <2>5
  <2>8. R * ttl >= C * I
    <3>1. PICK pc \in Nat \ {0}, pr \in Nat \ {0}, S \in Nat \ {0} :
            /\ pc = policy.capacity /\ pr = policy.refill /\ S = Scale
            /\ C = pc * S /\ R = pr * S
      BY <2>3, PolicyFacts DEF TypeOK
    <3>2. PICK q \in Nat : q = CeilDiv(pc, pr) /\ pr * q >= pc
      BY RoundedUp
    <3>3. FullRefill(policy) = q * I
      BY <2>3, <3>1, <3>2 DEF FullRefill, Interval
    <3>4. q * I <= ttl
      BY <2>3, <3>3, PolicyFacts DEF TypeOK
    <3>5. R * (q * I) <= R * ttl
      BY <3>4
    <3>6. PICK y \in Nat : y = pr * q /\ y >= pc
      BY <3>2
    <3>7. R * (q * I) = y * S * I
      BY <3>1, <3>6
    <3>8. pc * S <= y * S
      BY <3>6
    <3>9. C * I <= y * S * I
      BY <3>1, <3>8
    <3> QED BY <3>5, <3>7, <3>9
  <2>9. Refilled(b, w + h).tokens = C
    <3>1. l <= C /\ b.tokens <= Capacity /\ b.remainder < Interval /\ policy \in Policies
      BY <2>3, <2>4, <2>6 DEF TypeOK
    <3>2. CASE l >= C
      <4>1. Refilled(b, w + h) = [tokens |-> l, updated |-> Max2(u, w + h), remainder |-> m]
        BY <2>3, <2>6, <3>1, <3>2, RefilledIs
      <4>2. l = C
        BY <3>1, <3>2
      <4> QED BY <4>1, <4>2
    <3>3. CASE l < C
      <4>1. Due(b, w + h) = l * I + m + R * n
        BY <2>3, <2>6, <2>7, Zenon DEF Due, Content
      <4>2. R * n >= R * ttl
        BY <2>7
      <4>3. l * I >= 0
        OBVIOUS
      <4>4. Due(b, w + h) >= C * I
        BY <2>8, <4>1, <4>2, <4>3
      <4>5. n > 0
        <5> SUFFICES ASSUME n <= 0 PROVE FALSE
          BY <2>7
        <5>1. R * n <= 0
          OBVIOUS
        <5>2. C * I > 0
          OBVIOUS
        <5> QED BY <2>8, <4>2, <5>1, <5>2
      <4>6. w + h > b.updated /\ b.tokens < Capacity
        <5>1. w + h > u
          BY <2>7, <4>5
        <5> QED BY <2>3, <2>6, <3>3, <5>1
      <4>7. Refilled(b, w + h) = [tokens |-> C, updated |-> w + h, remainder |-> 0]
        BY <2>3, <3>1, <4>4, <4>6, RefilledIs
      <4> QED BY <4>7
    <3> QED BY <2>3, <2>4, <3>2, <3>3
  <2> QED BY <2>3, <2>6, <2>9, Zenon DEF HeldUp
<1> QED BY <1>1, BucketInvariance, PTL DEF Spec, ExpiryIsHarmless

=============================================================================
