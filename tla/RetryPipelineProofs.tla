------------------------- MODULE RetryPipelineProofs -------------------------
(***************************************************************************)
(* Theorems about RetryPipeline for any messages, policies, stamps and     *)
(* bounds.                                                                 *)
(***************************************************************************)
EXTENDS RetryPipeline, SequenceTheorems, WellFoundedInduction, TLAPS

-----------------------------------------------------------------------------
(* Natural numbers.  The induction theorems of the library speak of an     *)
(* operator; here is what is needed of them, about sets.                   *)

LEMMA LeastNatural ==
    ASSUME NEW S \in SUBSET Nat, S # {}
    PROVE  \E n \in S : \A k \in S : n <= k
<1>1. PICK n \in S : \A k \in S : ~(<<k, n>> \in OpToRel(<, Nat))
  BY NatLessThanWellFounded, WFMin
<1>2. \A k \in S : ~(k < n)
  BY <1>1 DEF OpToRel
<1> QED
  BY <1>2

LEMMA InductiveSet ==
    ASSUME NEW S \in SUBSET Nat, 0 \in S, \A n \in S : n + 1 \in S
    PROVE  S = Nat
<1> SUFFICES ASSUME Nat \ S # {} PROVE FALSE
  OBVIOUS
<1>1. PICK n \in Nat \ S : \A k \in Nat \ S : n <= k
  BY LeastNatural
<1>2. n - 1 \in S
  BY <1>1
<1>3. (n - 1) + 1 \in S
  BY <1>2
<1> QED
  BY <1>1, <1>3

\* A function given by its value at 0 and a step exists.
Iterates(f, D, x, s) == f \in [Nat -> D] /\ f[0] = x /\ \A n \in Nat : f[n + 1] = s[f[n]]

LEMMA Recursion ==
    ASSUME NEW D, NEW x \in D, NEW s \in [D -> D]
    PROVE  \E f : Iterates(f, D, x, s)
<1> DEFINE Start(n, g) == g[0] = x /\ \A i \in 0..(n - 1) : g[i + 1] = s[g[i]]
           G(n) == CHOOSE g \in [0..n -> D] : Start(n, g)
           f == [n \in Nat |-> G(n)[n]]
<1>1. ASSUME NEW n \in Nat PROVE G(n) \in [0..n -> D] /\ Start(n, G(n))
  <2> DEFINE S == {k \in Nat : \E g \in [0..k -> D] : Start(k, g)}
  <2>1. 0 \in S
    <3>1. /\ [i \in 0..0 |-> x] \in [0..0 -> D]
          /\ Start(0, [i \in 0..0 |-> x])
      OBVIOUS
    <3> QED
      BY <3>1
  <2>2. ASSUME NEW k \in S PROVE k + 1 \in S
    <3>1. PICK g \in [0..k -> D] : Start(k, g)
      OBVIOUS
    <3> DEFINE h == [i \in 0..(k + 1) |-> IF i = k + 1 THEN s[g[k]] ELSE g[i]]
    <3>2. h \in [0..(k + 1) -> D]
      OBVIOUS
    <3>3. Start(k + 1, h)
      BY <3>1
    <3> HIDE DEF h, Start
    <3>4. \E j \in [0..(k + 1) -> D] : Start(k + 1, j)
      BY <3>2, <3>3
    <3> QED
      BY <3>4
  <2>3. S = Nat
    <3> HIDE DEF S
    <3>1. S \in SUBSET Nat
      BY DEF S
    <3> QED
      BY <2>1, <2>2, <3>1, InductiveSet
  <2>4. \E g \in [0..n -> D] : Start(n, g)
    BY <2>3
  <2> QED
    BY <2>4
<1>2. ASSUME NEW n \in Nat PROVE G(n + 1)[n] = G(n)[n]
  <2> DEFINE S == {k \in Nat : k <= n => G(n + 1)[k] = G(n)[k]}
  <2> HIDE DEF G
  <2>1. Start(n, G(n)) /\ Start(n + 1, G(n + 1))
    BY <1>1
  <2>2. 0 \in S
    BY <2>1
  <2>3. ASSUME NEW k \in S PROVE k + 1 \in S
    BY <2>1
  <2>4. S = Nat
    <3> HIDE DEF S
    <3>1. S \in SUBSET Nat
      BY DEF S
    <3> QED
      BY <2>2, <2>3, <3>1, InductiveSet
  <2> QED
    BY <2>4
<1> HIDE DEF G
<1>3. f \in [Nat -> D]
  BY <1>1
<1>4. f[0] = x
  BY <1>1
<1>5. ASSUME NEW n \in Nat PROVE f[n + 1] = s[f[n]]
  <2>1. f[n + 1] = G(n + 1)[n + 1] /\ f[n] = G(n)[n]
    OBVIOUS
  <2>2. G(n + 1)[n + 1] = s[G(n + 1)[n]]
    BY <1>1
  <2> QED
    BY <1>2, <2>1, <2>2
<1>6. Iterates(f, D, x, s)
  BY <1>3, <1>4, <1>5 DEF Iterates
<1> QED
  BY <1>6

-----------------------------------------------------------------------------
(* The retry policy.                                                       *)

Delay == [num : Nat, den : Nat \ {0}]

LEMMA PolicyNumbers ==
    ASSUME NEW p \in Policies
    PROVE  /\ MaxRetries(p) \in Nat
           /\ Base(p) \in Nat \ {0} /\ Cap(p) \in Nat \ {0}
           /\ Tenths(p) \in Nat /\ Tenths(p) >= 10
<1>1. /\ p.maxRetries \in Int /\ p.backoff \in Int /\ p.multiplier \in Int /\ p.maxBackoff \in Int
      /\ Tick \in Nat \ {0}
  BY PolicyAssumption
<1> QED
  BY <1>1 DEF MaxRetries, Base, Cap, Tenths

\* A round keeps a delay a delay and does not shorten it.  Delays are compared as
\* fractions.
LEMMA RoundType ==
    ASSUME NEW p \in Policies, NEW d \in Delay
    PROVE  Round(p, d) \in Delay
<1>1. d.num \in Nat /\ d.den \in Nat \ {0}
  BY DEF Delay
<1>2. /\ Cap(p) \in Nat /\ Tenths(p) \in Nat
      /\ d.num * Tenths(p) \in Nat /\ d.den * 10 \in Nat \ {0}
  BY <1>1, PolicyNumbers
<1> QED
  BY <1>2 DEF Round, Delay

\* Rounds(p) is the function its equation says it is.
LEMMA RoundsValue ==
    ASSUME NEW p \in Policies
    PROVE  /\ Rounds(p) \in [Nat -> Delay]
           /\ Rounds(p)[0] = [num |-> Base(p), den |-> 1]
           /\ \A n \in Nat : Rounds(p)[n + 1] = Round(p, Rounds(p)[n])
<1> DEFINE first == [num |-> Base(p), den |-> 1]
           step == [d \in Delay |-> Round(p, d)]
           Eqn(f) == f = [n \in Nat |-> IF n = 0 THEN first ELSE Round(p, f[n - 1])]
<1>1. first \in Delay
  BY PolicyNumbers DEF Delay
<1>2. step \in [Delay -> Delay]
  BY RoundType
<1>3. PICK f \in [Nat -> Delay] : f[0] = first /\ \A n \in Nat : f[n + 1] = step[f[n]]
  <2> HIDE DEF first, step
  <2>1. PICK f : Iterates(f, Delay, first, step)
    BY <1>1, <1>2, Recursion
  <2> QED
    BY <2>1 DEF Iterates
<1>4. Eqn(f)
  <2>1. ASSUME NEW n \in Nat PROVE f[n] = IF n = 0 THEN first ELSE Round(p, f[n - 1])
    <3>1. CASE n = 0
      BY <1>3, <3>1
    <3>2. CASE n # 0
      <4>1. n - 1 \in Nat /\ (n - 1) + 1 = n
        BY <3>2
      <4>2. f[(n - 1) + 1] = step[f[n - 1]] /\ f[n - 1] \in Delay
        BY <1>3, <4>1
      <4> QED
        BY <3>2, <4>1, <4>2
    <3> QED
      BY <3>1, <3>2
  <2> HIDE DEF first
  <2> QED
    BY <1>3, <2>1
<1>5. Eqn(Rounds(p))
  BY <1>4 DEF Rounds
<1> DEFINE R == Rounds(p)
<1> HIDE DEF R
<1>6. R = [n \in Nat |-> IF n = 0 THEN first ELSE Round(p, R[n - 1])]
  BY <1>5 DEF R
<1> HIDE DEF first, Eqn
<1>7. R[0] = first
  BY <1>6
<1>8. ASSUME NEW n \in Nat PROVE R[n + 1] = Round(p, R[n])
  <2>1. n + 1 \in Nat /\ n + 1 # 0 /\ (n + 1) - 1 = n
    OBVIOUS
  <2>2. R[n + 1] = IF n + 1 = 0 THEN first ELSE Round(p, R[(n + 1) - 1])
    BY <1>6, <2>1
  <2> QED
    BY <2>1, <2>2
<1>9. {n \in Nat : R[n] \in Delay} = Nat
  <2> DEFINE S == {n \in Nat : R[n] \in Delay}
  <2>1. 0 \in S
    BY <1>1, <1>7
  <2>2. ASSUME NEW n \in S PROVE n + 1 \in S
    BY <1>8, RoundType
  <2> HIDE DEF S
  <2>3. S \in SUBSET Nat
    BY DEF S
  <2>4. S = Nat
    BY <2>1, <2>2, <2>3, InductiveSet
  <2> QED
    BY <2>4 DEF S
<1>10. R \in [Nat -> Delay]
  BY <1>6, <1>9
<1> QED
  BY <1>7, <1>8, <1>10 DEF R, first
\* Division of natural numbers rounds down.
LEMMA Quotient ==
    ASSUME NEW a \in Nat, NEW b \in Nat \ {0}
    PROVE  /\ a \div b \in Nat
           /\ (a \div b) * b <= a
           /\ \A q \in Nat : q * b <= a => q <= a \div b
<1>1. a \div b \in Int /\ a = (a \div b) * b + (a % b) /\ a % b \in 0..(b - 1)
  OBVIOUS
<1> DEFINE d == a \div b
<1> HIDE DEF d
<1>2. d \in Int /\ d * b <= a /\ a < (d + 1) * b
  BY <1>1 DEF d
<1>3. ASSUME NEW q \in Int, q * b <= a PROVE q <= d
  <2> SUFFICES ASSUME d + 1 <= q PROVE FALSE
    BY <1>2
  <2>1. (d + 1) * b <= q * b
    BY <1>2
  <2> QED
    BY <1>2, <1>3, <2>1
<1>4. 0 * b <= a
  OBVIOUS
<1>5. d \in Nat
  BY <1>2, <1>3, <1>4
<1> QED
  BY <1>2, <1>3, <1>5 DEF d

\* Multiplying by at least 1 does not make a quotient smaller.
LEMMA QuotientGrows ==
    ASSUME NEW a \in Nat, NEW b \in Nat \ {0}, NEW t \in Nat, t >= 10
    PROVE  a \div b <= (a * t) \div (b * 10)
<1> DEFINE q == a \div b
<1>1. q \in Nat /\ q * b <= a
  BY Quotient
<1>2. a * t \in Nat /\ b * 10 \in Nat \ {0} /\ q * b \in Nat
  BY <1>1
<1> HIDE DEF q
<1>3. q * (b * 10) = (q * b) * 10
  BY <1>1
<1>4. (q * b) * 10 <= a * 10
  BY <1>1, <1>2
<1>5. a * 10 <= a * t
  OBVIOUS
<1>6. q * (b * 10) <= a * t
  BY <1>1, <1>2, <1>3, <1>4, <1>5
<1> QED
  BY <1>1, <1>2, <1>6, Quotient DEF q

\* What Backoff makes of the fraction the loop ends with.
Capped(p, d) == IF d.num \div d.den > Cap(p) THEN Cap(p) ELSE d.num \div d.den

\* No round makes a delay shorter than a tick, or shorter than it was.
LEMMA RoundGrows ==
    ASSUME NEW p \in Policies, NEW d \in Delay, d.num >= d.den
    PROVE  /\ Round(p, d).num >= Round(p, d).den
           /\ Capped(p, d) <= Capped(p, Round(p, d))
<1>1. /\ d.num \in Nat /\ d.den \in Nat \ {0}
      /\ Cap(p) \in Nat \ {0} /\ Tenths(p) \in Nat /\ Tenths(p) >= 10
      /\ d.num \div d.den \in Nat
  BY PolicyNumbers, Quotient DEF Delay
<1>2. CASE d.num * Tenths(p) >= Cap(p) * (d.den * 10)
  <2>1. Round(p, d) = [num |-> Cap(p), den |-> 1]
    BY <1>2 DEF Round
  <2>2. Cap(p) \div 1 = Cap(p)
    BY <1>1
  <2> QED
    BY <1>1, <2>1, <2>2 DEF Capped
<1>3. CASE ~(d.num * Tenths(p) >= Cap(p) * (d.den * 10))
  <2>1. Round(p, d) = [num |-> d.num * Tenths(p), den |-> d.den * 10]
    BY <1>3 DEF Round
  <2>2. d.num * Tenths(p) >= d.den * 10
    <3>1. d.num * 10 <= d.num * Tenths(p)
      BY <1>1
    <3> QED
      BY <1>1, <3>1
  <2>3. /\ d.num \div d.den <= (d.num * Tenths(p)) \div (d.den * 10)
        /\ (d.num * Tenths(p)) \div (d.den * 10) \in Nat
    <3> DEFINE t == Tenths(p)
    <3> HIDE DEF t
    <3>1. d.num \in Nat /\ d.den \in Nat \ {0} /\ t \in Nat /\ t >= 10
      BY <1>1 DEF t
    <3>2. d.num \div d.den <= (d.num * t) \div (d.den * 10)
      BY <3>1, QuotientGrows, Zenon
    <3>3. d.num * t \in Nat /\ d.den * 10 \in Nat \ {0}
      BY <3>1
    <3>4. (d.num * t) \div (d.den * 10) \in Nat
      BY <3>3, Quotient, Zenon
    <3> QED
      BY <3>2, <3>4 DEF t
  <2> QED
    BY <1>1, <2>1, <2>2, <2>3 DEF Capped
<1> QED
  BY <1>2, <1>3

LEMMA RoundsAboveOne ==
    ASSUME NEW p \in Policies, NEW k \in Nat
    PROVE  Rounds(p)[k] \in Delay /\ Rounds(p)[k].num >= Rounds(p)[k].den
<1> DEFINE S == {i \in Nat : Rounds(p)[i].num >= Rounds(p)[i].den}
<1>1. 0 \in S
  <2>1. Rounds(p)[0] = [num |-> Base(p), den |-> 1]
    BY RoundsValue
  <2>2. Base(p) \in Nat /\ Base(p) >= 1
    BY PolicyNumbers
  <2> QED
    BY <2>1, <2>2
<1>2. ASSUME NEW i \in S PROVE i + 1 \in S
  <2>1. Rounds(p)[i + 1] = Round(p, Rounds(p)[i]) /\ Rounds(p)[i] \in Delay
    BY RoundsValue
  <2>2. Round(p, Rounds(p)[i]).num >= Round(p, Rounds(p)[i]).den
    BY <2>1, RoundGrows
  <2> QED
    BY <2>1, <2>2
<1>3. S = Nat
  <2> HIDE DEF S
  <2>1. S \in SUBSET Nat
    BY DEF S
  <2> QED
    BY <1>1, <1>2, <2>1, InductiveSet
<1> QED
  BY <1>3, RoundsValue

\* Every delay is at least a tick and at most the cap.
LEMMA BackoffBounds ==
    ASSUME NEW p \in Policies, NEW n \in Int
    PROVE  Backoff(p, n) \in 1..Cap(p)
<1> DEFINE k == IF n < 1 THEN 0 ELSE n - 1
           d == Rounds(p)[k]
<1>1. k \in Nat
  OBVIOUS
<1>2. Backoff(p, n) = Capped(p, d)
  BY DEF Backoff, Capped
<1> HIDE DEF k
<1>3. d.num \in Nat /\ d.den \in Nat \ {0} /\ d.num >= d.den
  BY <1>1, RoundsAboveOne DEF Delay
<1> HIDE DEF d
<1>4. d.num \div d.den \in Nat /\ 1 <= d.num \div d.den
  BY <1>3, Quotient
<1> QED
  BY <1>2, <1>4, PolicyNumbers DEF Capped

LEMMA BackoffGrowsFromOne ==
    ASSUME NEW p \in Policies, NEW m \in Nat \ {0}, NEW n \in Nat \ {0}, m <= n
    PROVE  Backoff(p, m) <= Backoff(p, n)
<1>1. ASSUME NEW k \in Nat \ {0} PROVE Backoff(p, k) <= Backoff(p, k + 1)
  <2> DEFINE d == Rounds(p)[k - 1]
  <2>1. Rounds(p)[(k + 1) - 1] = Round(p, d)
    <3>1. k - 1 \in Nat /\ (k - 1) + 1 = (k + 1) - 1
      OBVIOUS
    <3> QED
      BY <3>1, RoundsValue
  <2>2. Capped(p, d) <= Capped(p, Round(p, d))
    BY RoundsAboveOne, RoundGrows
  <2> QED
    BY <2>1, <2>2 DEF Backoff, Capped
<1> DEFINE S == {k \in Nat : Backoff(p, m) <= Backoff(p, m + k)}
<1>2. 0 \in S
  BY BackoffBounds
<1>3. ASSUME NEW k \in S PROVE k + 1 \in S
  <2>1. /\ m + k \in Nat \ {0} /\ (m + k) + 1 = m + (k + 1)
        /\ Backoff(p, m) <= Backoff(p, m + k)
    OBVIOUS
  <2>2. /\ Backoff(p, m) \in Nat /\ Backoff(p, m + k) \in Nat /\ Backoff(p, (m + k) + 1) \in Nat
        /\ Backoff(p, m + k) <= Backoff(p, (m + k) + 1)
    BY <1>1, <2>1, BackoffBounds, PolicyNumbers
  <2> QED
    BY <2>1, <2>2
<1>4. S = Nat
  <2> HIDE DEF S
  <2>1. S \in SUBSET Nat
    BY DEF S
  <2> QED
    BY <1>2, <1>3, <2>1, InductiveSet
<1>5. n - m \in Nat /\ m + (n - m) = n
  OBVIOUS
<1>6. Backoff(p, m) <= Backoff(p, m + (n - m))
  <2>1. n - m \in S
    BY <1>4, <1>5
  <2> QED
    BY <2>1
<1> QED
  BY <1>5, <1>6

\* A later retry waits no shorter than an earlier one.
LEMMA BackoffGrows ==
    ASSUME NEW p \in Policies, NEW m \in Int, NEW n \in Int, m <= n
    PROVE  Backoff(p, m) <= Backoff(p, n)
<1>1. ASSUME NEW k \in Int, k < 1 PROVE Backoff(p, k) = Backoff(p, 1)
  BY <1>1 DEF Backoff
<1>2. Backoff(p, m) \in Nat /\ Backoff(p, n) \in Nat /\ Backoff(p, 1) \in Nat
  BY BackoffBounds, PolicyNumbers
<1>3. CASE n < 1
  BY <1>1, <1>2, <1>3
<1>4. CASE n >= 1 /\ m < 1
  <2>1. Backoff(p, 1) <= Backoff(p, n)
    BY <1>4, BackoffGrowsFromOne
  <2> QED
    BY <1>1, <1>4, <2>1
<1>5. CASE m >= 1
  BY <1>5, BackoffGrowsFromOne
<1> QED
  BY <1>3, <1>4, <1>5

LEMMA QuotientMonotone ==
    ASSUME NEW a \in Nat, NEW b \in Nat, NEW t \in Nat \ {0}, a <= b
    PROVE  a \div t <= b \div t
<1>1. a \div t \in Nat /\ (a \div t) * t <= a
  BY Quotient
<1>2. (a \div t) * t \in Nat
  BY <1>1
<1> DEFINE q == a \div t
<1> HIDE DEF q
<1>3. q \in Nat /\ q * t <= b
  BY <1>1, <1>2 DEF q
<1>4. q <= b \div t
  BY <1>3, Quotient
<1> QED
  BY <1>4 DEF q

\* An expiration is within the cap, not 0 when the durations of the policy are
\* whole milliseconds or more, and no shorter than that of an earlier retry.
LEMMA Expirations ==
    ASSUME NEW p \in Policies, NEW n \in Int
    PROVE  /\ Expiration(p, n) \in 0..(Cap(p) \div Tick)
           /\ Cap(p) \div Tick \in Nat
           /\ Tick <= Base(p) /\ Tick <= Cap(p) => Expiration(p, n) # 0
           /\ \A m \in Int : m <= n => Expiration(p, m) <= Expiration(p, n)
<1>1. Tick \in Nat \ {0} /\ Cap(p) \in Nat \ {0} /\ Base(p) \in Nat \ {0}
  BY PolicyAssumption, PolicyNumbers
<1>2. \A m \in Int : Backoff(p, m) \in Nat /\ Backoff(p, m) <= Cap(p)
  BY <1>1, BackoffBounds
<1>3. Expiration(p, n) \in Nat /\ Cap(p) \div Tick \in Nat /\ Expiration(p, n) <= Cap(p) \div Tick
  <2>1. Backoff(p, n) \div Tick \in Nat /\ Cap(p) \div Tick \in Nat
    BY <1>1, <1>2, Quotient
  <2>2. Backoff(p, n) \div Tick <= Cap(p) \div Tick
    BY <1>1, <1>2, QuotientMonotone
  <2> QED
    BY <2>1, <2>2 DEF Expiration
<1>4. ASSUME Tick <= Base(p), Tick <= Cap(p) PROVE Expiration(p, n) # 0
  <2> DEFINE first == IF n < 0 THEN n ELSE 0
             d == [num |-> Base(p), den |-> 1]
  <2>1. Backoff(p, first) <= Backoff(p, n)
    BY BackoffGrows
  <2>2. Backoff(p, first) = Capped(p, d)
    <3>1. (IF first < 1 THEN 0 ELSE first - 1) = 0
      OBVIOUS
    <3> HIDE DEF first, d
    <3>2. Backoff(p, first) = Capped(p, Rounds(p)[0])
      BY <3>1 DEF Backoff, Capped
    <3> QED
      BY <3>2, RoundsValue DEF d
  <2>3. Base(p) \div 1 = Base(p)
    BY <1>1
  <2>4. Tick <= Capped(p, d)
    BY <1>1, <1>4, <2>3 DEF Capped
  <2> HIDE DEF first
  <2>5. first \in Int
    BY DEF first
  <2>6. Tick <= Backoff(p, n)
    BY <1>1, <1>2, <2>1, <2>2, <2>4, <2>5
  <2>7. 1 * Tick <= Backoff(p, n)
    BY <1>1, <2>6
  <2>8. 1 <= Backoff(p, n) \div Tick /\ Backoff(p, n) \div Tick \in Nat
    BY <1>1, <1>2, <2>7, Quotient
  <2> QED
    BY <2>8 DEF Expiration
<1>5. ASSUME NEW m \in Int, m <= n PROVE Expiration(p, m) <= Expiration(p, n)
  <2>1. Backoff(p, m) <= Backoff(p, n)
    BY <1>5, BackoffGrows
  <2> QED
    BY <1>1, <1>2, <2>1, QuotientMonotone DEF Expiration
<1> QED
  BY <1>3, <1>4, <1>5

-----------------------------------------------------------------------------
(* What the loop computes: Backoff scaled by BackoffMultiplier for each    *)
(* subsequent retry, capped by MaxBackoff.                                 *)

\* Powers(b)[n] is the nth power of b.
Powers(b) ==
    LET power[n \in Nat] == IF n = 0 THEN 1 ELSE b * power[n - 1]
    IN  power

\* Powers(b) is the function its equation says it is.
LEMMA PowersValue ==
    ASSUME NEW b \in Nat \ {0}
    PROVE  /\ Powers(b) \in [Nat -> Nat \ {0}]
           /\ Powers(b)[0] = 1
           /\ \A n \in Nat : Powers(b)[n + 1] = b * Powers(b)[n]
<1> DEFINE D == Nat \ {0}
           step == [d \in D |-> b * d]
           Eqn(f) == f = [n \in Nat |-> IF n = 0 THEN 1 ELSE b * f[n - 1]]
<1>1. \A d \in D : b * d \in D
  OBVIOUS
<1>2. PICK f \in [Nat -> D] : f[0] = 1 /\ \A n \in Nat : f[n + 1] = step[f[n]]
  <2>1. step \in [D -> D] /\ 1 \in D
    BY <1>1
  <2> HIDE DEF D, step
  <2>2. PICK f : Iterates(f, D, 1, step)
    BY <2>1, Recursion
  <2> QED
    BY <2>2 DEF Iterates
<1> HIDE DEF D
<1>3. Eqn(f)
  <2>1. ASSUME NEW n \in Nat PROVE f[n] = IF n = 0 THEN 1 ELSE b * f[n - 1]
    <3>1. CASE n # 0
      <4>1. n - 1 \in Nat /\ (n - 1) + 1 = n
        BY <3>1
      <4>2. f[(n - 1) + 1] = step[f[n - 1]] /\ f[n - 1] \in D
        BY <1>2, <4>1
      <4> QED
        BY <3>1, <4>1, <4>2
    <3> QED
      BY <1>2, <3>1
  <2> QED
    BY <1>2, <2>1
<1>4. Eqn(Powers(b))
  BY <1>3 DEF Powers
<1> DEFINE R == Powers(b)
<1> HIDE DEF R
<1>5. R = [n \in Nat |-> IF n = 0 THEN 1 ELSE b * R[n - 1]]
  BY <1>4 DEF R
<1> HIDE DEF Eqn
<1>6. R[0] = 1
  BY <1>5
<1>7. ASSUME NEW n \in Nat PROVE R[n + 1] = b * R[n]
  <2>1. n + 1 \in Nat /\ n + 1 # 0 /\ (n + 1) - 1 = n
    OBVIOUS
  <2>2. R[n + 1] = IF n + 1 = 0 THEN 1 ELSE b * R[(n + 1) - 1]
    BY <1>5, <2>1
  <2> QED
    BY <2>1, <2>2
<1>8. {n \in Nat : R[n] \in D} = Nat
  <2> DEFINE S == {n \in Nat : R[n] \in D}
  <2>1. 0 \in S
    BY <1>6 DEF D
  <2>2. ASSUME NEW n \in S PROVE n + 1 \in S
    BY <1>1, <1>7
  <2> HIDE DEF S
  <2>3. S \in SUBSET Nat
    BY DEF S
  <2>4. S = Nat
    BY <2>1, <2>2, <2>3, InductiveSet
  <2> QED
    BY <2>4 DEF S
<1>9. R \in [Nat -> D]
  BY <1>5, <1>8
<1> QED
  BY <1>6, <1>7, <1>9 DEF R, D

\* Once the growth has reached the cap it stays there: no multiplier is below 1.
LEMMA GrowthStaysAbove ==
    ASSUME NEW a \in Nat, NEW b \in Nat, NEW c \in Nat, NEW t \in Nat, t >= 10, a >= c * b
    PROVE  a * t >= c * (10 * b)
<1>1. c * b \in Nat /\ c * (10 * b) = (c * b) * 10
  OBVIOUS
<1>2. (c * b) * 10 <= a * 10
  BY <1>1
<1>3. a * 10 <= a * t
  OBVIOUS
<1> QED
  BY <1>1, <1>2, <1>3

\* The delay after n rounds, as a fraction that is not reduced.
Grown(p, n) == [num |-> Base(p) * Powers(Tenths(p))[n], den |-> Powers(10)[n]]

LEMMA RoundsGrow ==
    ASSUME NEW p \in Policies, NEW n \in Nat
    PROVE  \/ Rounds(p)[n] = Grown(p, n)
           \/ /\ Rounds(p)[n] = [num |-> Cap(p), den |-> 1]
              /\ Grown(p, n).num >= Cap(p) * Grown(p, n).den
<1> DEFINE T == Tenths(p)
           Full == [num |-> Cap(p), den |-> 1]
           Reached(k) == Grown(p, k).num >= Cap(p) * Grown(p, k).den
           S == {k \in Nat : Rounds(p)[k] = Grown(p, k) \/ (Rounds(p)[k] = Full /\ Reached(k))}
<1>1. /\ Base(p) \in Nat \ {0} /\ Cap(p) \in Nat \ {0} /\ T \in Nat \ {0} /\ T >= 10
  BY PolicyNumbers
<1>2. /\ Powers(T) \in [Nat -> Nat \ {0}] /\ Powers(T)[0] = 1
      /\ \A k \in Nat : Powers(T)[k + 1] = T * Powers(T)[k]
  <2> HIDE DEF T
  <2> QED
    BY <1>1, PowersValue
<1>3. /\ Powers(10) \in [Nat -> Nat \ {0}] /\ Powers(10)[0] = 1
      /\ \A k \in Nat : Powers(10)[k + 1] = 10 * Powers(10)[k]
  BY PowersValue
<1>4. ASSUME NEW k \in Nat
      PROVE  /\ Grown(p, k).num \in Nat /\ Grown(p, k).den \in Nat \ {0}
             /\ Grown(p, k + 1) = [num |-> Grown(p, k).num * T, den |-> Grown(p, k).den * 10]
  <2> DEFINE x == Powers(T)[k]
             y == Powers(10)[k]
  <2>1. x \in Nat \ {0} /\ y \in Nat \ {0}
    BY <1>2, <1>3
  <2>2. Grown(p, k) = [num |-> Base(p) * x, den |-> y]
    BY DEF Grown
  <2>3. Grown(p, k + 1) = [num |-> Base(p) * (T * x), den |-> 10 * y]
    BY <1>2, <1>3 DEF Grown
  <2> HIDE DEF x, y, T
  <2>4. Base(p) * x \in Nat /\ Base(p) * (T * x) = (Base(p) * x) * T /\ 10 * y = y * 10
    BY <1>1, <2>1
  <2> QED
    BY <2>1, <2>2, <2>3, <2>4
<1>5. 0 \in S
  BY <1>1, <1>2, <1>3, RoundsValue DEF Grown
<1>6. ASSUME NEW k \in S PROVE k + 1 \in S
  <2> DEFINE a == Grown(p, k).num
             b == Grown(p, k).den
  <2>1. k \in Nat /\ Rounds(p)[k + 1] = Round(p, Rounds(p)[k])
    BY RoundsValue
  <2>2. /\ a \in Nat /\ b \in Nat \ {0}
        /\ Grown(p, k + 1) = [num |-> a * T, den |-> b * 10]
    BY <1>4, <2>1
  <2>3. CASE Rounds(p)[k] = Grown(p, k)
    <3>1. Rounds(p)[k + 1] = IF a * T >= Cap(p) * (b * 10) THEN Full
                             ELSE [num |-> a * T, den |-> b * 10]
      BY <2>1, <2>3 DEF Round
    <3> HIDE DEF a, b, T
    <3> QED
      BY <2>1, <2>2, <3>1
  <2>4. CASE Rounds(p)[k] = Full /\ Reached(k)
    <3>1. Cap(p) * T >= Cap(p) * (1 * 10)
      BY <1>1
    <3>2. Rounds(p)[k + 1] = Full
      BY <2>1, <2>4, <3>1 DEF Round
    <3>3. a * T >= Cap(p) * (10 * b)
      <4>1. a >= Cap(p) * b
        BY <2>4
      <4> HIDE DEF a, b, T
      <4> QED
        BY <1>1, <2>2, <4>1, GrowthStaysAbove
    <3>4. Reached(k + 1)
      <4> HIDE DEF a, b, T
      <4>1. 10 * b = b * 10
        BY <2>2
      <4> QED
        BY <2>2, <3>3, <4>1
    <3> QED
      BY <2>1, <3>2, <3>4
  <2> QED
    BY <2>3, <2>4
<1>7. S = Nat
  <2> HIDE DEF S
  <2>1. S \in SUBSET Nat
    BY DEF S
  <2> QED
    BY <1>5, <1>6, <2>1, InductiveSet
<1> QED
  BY <1>7

\* RetryPolicy.backoff, which leaves its loop at the first delay that reaches the
\* cap, computes the geometric growth that the fields of RetryPolicy document:
\* the delay of retry n is Backoff scaled n - 1 times by BackoffMultiplier, or
\* MaxBackoff if that is less.
THEOREM DelaysAreGeometric ==
    ASSUME NEW p \in Policies, NEW n \in Nat \ {0}
    PROVE  LET ticks == (Base(p) * Powers(Tenths(p))[n - 1]) \div Powers(10)[n - 1]
           IN  Backoff(p, n) = IF ticks > Cap(p) THEN Cap(p) ELSE ticks
<1> DEFINE g == Grown(p, n - 1)
<1>1. n - 1 \in Nat
  OBVIOUS
<1>2. g.num = Base(p) * Powers(Tenths(p))[n - 1] /\ g.den = Powers(10)[n - 1]
  BY DEF Grown
<1>3. Backoff(p, n) = Capped(p, Rounds(p)[n - 1])
  <2>1. (IF n < 1 THEN 0 ELSE n - 1) = n - 1
    BY <1>1
  <2> HIDE DEF g
  <2> QED
    BY <2>1 DEF Backoff, Capped
<1>4. Capped(p, Rounds(p)[n - 1]) = Capped(p, g)
  <2>1. CASE Rounds(p)[n - 1] = g
    BY <2>1
  <2>2. CASE Rounds(p)[n - 1] = [num |-> Cap(p), den |-> 1] /\ g.num >= Cap(p) * g.den
    <3>1. g.num \in Nat /\ g.den \in Nat \ {0} /\ Cap(p) \in Nat \ {0}
      <4>1. /\ Base(p) \in Nat \ {0} /\ Cap(p) \in Nat \ {0}
            /\ Tenths(p) \in Nat \ {0} /\ 10 \in Nat \ {0}
        BY PolicyNumbers
      <4>2. Powers(Tenths(p))[n - 1] \in Nat /\ Powers(10)[n - 1] \in Nat \ {0}
        BY <1>1, <4>1, PowersValue
      <4> QED
        BY <1>2, <4>1, <4>2
    <3> HIDE DEF g
    <3>2. Cap(p) <= g.num \div g.den /\ g.num \div g.den \in Nat
      BY <2>2, <3>1, Quotient
    <3>3. Cap(p) \div 1 = Cap(p)
      BY <3>1
    <3> QED
      BY <2>2, <3>1, <3>2, <3>3 DEF Capped
  <2> QED
    BY <1>1, <2>1, <2>2, RoundsGrow
<1> HIDE DEF g
<1> QED
  BY <1>2, <1>3, <1>4 DEF Capped

-----------------------------------------------------------------------------
(* Types and places.                                                       *)

USE Assumption DEF Runs, Nil, Ids

Frames(r) == 1..Len(wire[r])
Busy(r)   == cons[r].at \notin {"none", "idle"}

\* Runs begin in order; until its context is done, a run's channel is published.
Numbered ==
    /\ handle <= run /\ \A r \in cancelled : r <= run
    /\ run \notin {0} \cup cancelled => handle = run
    /\ \A r \in Runs : r > run => cons[r] = Gone
    /\ \A r \in Runs : chan[r] = "none" <=> r > run

\* What is delivered or on a wire is so on an open channel.
Placed ==
    \A c \in Ids : copies[c].at \in {"delivered", "held", "toRetry", "toDLQ"} =>
        copies[c].on \in Runs /\ chan[copies[c].on] = "open"

\* Every frame speaks of a copy of its own on the same channel: a publish of one
\* that is on the wire, an answer of one that is held.
Framed ==
    \A r \in Runs :
        /\ chan[r] # "open" => wire[r] = <<>>
        /\ \A i \in Frames(r) :
               /\ copies[wire[r][i].copy].on = r
               /\ copies[wire[r][i].copy].at \in
                      IF wire[r][i].kind = "publish" THEN {"toRetry", "toDLQ"} ELSE {"held"}
        /\ \A i, j \in Frames(r) : wire[r][i].copy = wire[r][j].copy => i = j

\* As long as its channel is open, what a goroutine works on is held, and not yet
\* answered.
Working ==
    \A r \in Runs : Busy(r) =>
        /\ cons[r].id \in Ids /\ cons[r].d \in Copy
        /\ cons[r].at \in {"sendingRetry", "sendingDLQ"} => cons[r].over \in Runs
        /\ chan[r] = "open" =>
               /\ cons[r].d.on = r
               /\ copies[cons[r].id] = [cons[r].d EXCEPT !.at = "held"]
               /\ \A i \in Frames(r) : wire[r][i].copy # cons[r].id

BaseInv == TypeOK /\ Numbered /\ Placed /\ Framed /\ Working

LEMMA InitBaseInv == Init => BaseInv
<1> SUFFICES ASSUME Init PROVE BaseInv
  OBVIOUS
<1>1. Gone \in Goroutine
  BY DEF Gone, Goroutine
<1>2. \A r \in Runs : wire[r] \in Seq(Frame) /\ wire[r] = <<>>
  BY DEF Init
<1>3. TypeOK
  BY <1>1, <1>2 DEF Init, TypeOK, Free
<1>4. Numbered /\ Placed /\ Framed /\ Working
  BY <1>2 DEF Init, Numbered, Placed, Framed, Working, Busy, Frames, Gone, Free
<1> QED
  BY <1>3, <1>4 DEF BaseInv

LEMMA CopyIsNotFree ==
    ASSUME NEW k \in Copy \cup {Free}
    PROVE  /\ k \in Copy <=> k.at # "free"
           /\ k \in Copy <=> k # Free
BY DEF Copy, Free

\* What is left of a copy that moves.
Same(j, k) == j.msg = k.msg /\ j.hdr = k.hdr /\ j.exp = k.exp /\ j.origin = k.origin

Moved(k, o, a) == [k EXCEPT !.on = o, !.at = a]

LEMMA MovedCopy ==
    ASSUME NEW k \in Copy, NEW o \in 0..MaxRuns,
           NEW a \in {"work", "delivered", "held", "toRetry", "toDLQ", "retry"}
    PROVE  /\ Moved(k, o, a) \in Copy
           /\ Moved(k, o, a).on = o /\ Moved(k, o, a).at = a
           /\ Same(Moved(k, o, a), k)
BY DEF Copy, Same, Moved

LEMMA DeliveredCopy ==
    ASSUME NEW k \in Copy, NEW r \in Runs
    PROVE  /\ Moved(k, r, "delivered") \in Copy
           /\ Moved(k, r, "delivered").on = r /\ Moved(k, r, "delivered").at = "delivered"
           /\ Same(Moved(k, r, "delivered"), k)
<1>1. r \in 0..MaxRuns
  OBVIOUS
<1> QED
  BY <1>1, MovedCopy

LEMMA HomeCopy ==
    ASSUME NEW k \in Copy, NEW a \in {"work", "retry"}
    PROVE  /\ Moved(k, Nil, a) \in Copy
           /\ Moved(k, Nil, a).at = a
           /\ Same(Moved(k, Nil, a), k)
<1> DEFINE o == Nil
<1>1. o \in 0..MaxRuns
  OBVIOUS
<1> HIDE DEF o
<1>2. CASE a = "work"
  <2>1. /\ Moved(k, o, "work") \in Copy
        /\ Moved(k, o, "work").at = "work"
        /\ Same(Moved(k, o, "work"), k)
    BY <1>1, MovedCopy
  <2> QED
    BY <1>2, <2>1 DEF o
<1>3. CASE a = "retry"
  <2>1. /\ Moved(k, o, "retry") \in Copy
        /\ Moved(k, o, "retry").at = "retry"
        /\ Same(Moved(k, o, "retry"), k)
    BY <1>1, MovedCopy
  <2> QED
    BY <1>3, <2>1 DEF o
<1> QED
  BY <1>2, <1>3

LEMMA HeldCopy ==
    ASSUME NEW k \in Copy
    PROVE  /\ [k EXCEPT !.at = "held"] \in Copy
           /\ [k EXCEPT !.at = "held"].at = "held"
           /\ Same([k EXCEPT !.at = "held"], k)
BY DEF Copy, Same

LEMMA ExpiredCopy ==
    ASSUME NEW k \in Copy
    PROVE  /\ [k EXCEPT !.at = "work"] \in Copy
           /\ [k EXCEPT !.at = "work"].at = "work"
           /\ Same([k EXCEPT !.at = "work"], k)
BY DEF Copy, Same

LEMMA FreshIsFree ==
    ASSUME SomeFree
    PROVE  FreshId \in Ids /\ copies[FreshId] = Free
<1> DEFINE S == {c \in Ids : copies[c] = Free}
<1>1. S \in SUBSET Nat /\ S # {}
  BY DEF SomeFree
<1>2. PICK c \in S : \A b \in S : c <= b
  BY <1>1, LeastNatural
<1>3. c \in Ids /\ copies[c] = Free /\ \A b \in Ids : copies[b] = Free => c <= b
  BY <1>2
<1> QED
  BY <1>3 DEF FreshId

\* A free copy is nowhere: not on a wire, not in anybody's hands.
LEMMA FreeIsNowhere ==
    ASSUME BaseInv, NEW c \in Ids, copies[c] = Free, NEW r \in Runs
    PROVE  /\ \A i \in Frames(r) : wire[r][i].copy # c
           /\ Busy(r) /\ chan[r] = "open" => cons[r].id # c
<1>1. copies[c].at = "free"
  BY DEF Free
<1>2. ASSUME NEW i \in Frames(r), wire[r][i].copy = c PROVE FALSE
  BY <1>1, <1>2 DEF BaseInv, Framed
<1>3. ASSUME Busy(r), chan[r] = "open", cons[r].id = c PROVE FALSE
  <2>1. copies[c] = [cons[r].d EXCEPT !.at = "held"] /\ cons[r].d \in Copy
    BY <1>3 DEF BaseInv, Working
  <2>2. copies[c].at = "held"
    BY <2>1 DEF Copy
  <2> QED
    BY <1>1, <2>2
<1> QED
  BY <1>2, <1>3

-----------------------------------------------------------------------------
(* The broker and the publisher.                                           *)

\* A step that leaves alone what goroutines work on.
LEMMA StillWorking ==
    ASSUME BaseInv, UNCHANGED <<chan, wire, cons>>,
           \A r \in Runs : Busy(r) /\ chan[r] = "open" => copies'[cons[r].id] = copies[cons[r].id]
    PROVE  Working'
<1> SUFFICES ASSUME NEW r \in Runs, Busy(r)
             PROVE  /\ cons[r].id \in Ids /\ cons[r].d \in Copy
                    /\ cons[r].at \in {"sendingRetry", "sendingDLQ"} => cons[r].over \in Runs
                    /\ chan[r] = "open" =>
                           /\ cons[r].d.on = r
                           /\ copies'[cons[r].id] = [cons[r].d EXCEPT !.at = "held"]
                           /\ \A i \in Frames(r) : wire[r][i].copy # cons[r].id
  BY DEF Working, Busy, Frames
<1> QED
  BY DEF BaseInv, Working

\* A step that changes one copy and nothing else on the channels, where the copy
\* is not held or on a wire before.
LEMMA OneCopyBaseInv ==
    ASSUME BaseInv, NEW c \in Ids, NEW k \in Copy \cup {Free},
           copies' = [copies EXCEPT ![c] = k],
           copies[c].at \notin {"held", "toRetry", "toDLQ"},
           k.at \in {"delivered"} => k.on \in Runs /\ chan[k.on] = "open",
           k.at \notin {"held", "toRetry", "toDLQ"},
           sent' \subseteq Msgs,
           UNCHANGED <<policy, stamp, lifeVars, chan, wire, cons, tallyVars, dead, lost>>
    PROVE  BaseInv'
<1> USE DEF BaseInv, lifeVars, tallyVars
<1>1. copies \in [Ids -> Copy \cup {Free}] /\ wire \in [Runs -> Seq(Frame)]
  BY DEF TypeOK
<1>2. TypeOK'
  BY <1>1 DEF TypeOK
<1>3. Numbered'
  BY DEF Numbered
<1>4. Placed'
  BY <1>1 DEF Placed
<1>5. ASSUME NEW r \in Runs, NEW i \in Frames(r) PROVE wire[r][i].copy \in Ids \ {c}
  <2>1. wire[r][i] \in Frame
    BY <1>1, ElementOfSeq DEF Frames
  <2>2. wire[r][i].copy # c
    BY DEF Framed
  <2> QED
    BY <2>1, <2>2 DEF Frame
<1>6. Framed'
  <2>1. ASSUME NEW r \in Runs, NEW i \in Frames(r)
        PROVE  copies'[wire[r][i].copy] = copies[wire[r][i].copy]
    BY <1>1, <1>5
  <2>2. wire' = wire /\ chan' = chan
    OBVIOUS
  <2> QED
    BY <2>1, <2>2 DEF Framed, Frames
<1>7. ASSUME NEW r \in Runs, Busy(r), chan[r] = "open"
      PROVE  cons[r].id \in Ids /\ copies'[cons[r].id] = copies[cons[r].id]
  <2>1. /\ cons[r].id \in Ids /\ cons[r].d \in Copy
        /\ copies[cons[r].id] = [cons[r].d EXCEPT !.at = "held"]
    BY <1>7 DEF Working
  <2>2. copies[cons[r].id].at = "held"
    BY <2>1 DEF Copy
  <2> QED
    BY <1>1, <2>1, <2>2
<1>8. Working'
  <2>1. UNCHANGED <<chan, wire, cons>>
    OBVIOUS
  <2> HIDE DEF BaseInv
  <2> QED
    BY <1>7, <2>1, StillWorking
<1> QED
  BY <1>2, <1>3, <1>4, <1>6, <1>8

LEMMA PublishedCopy ==
    ASSUME BaseInv, NEW m \in Msgs
    PROVE  /\ stamp[m] \in Int /\ m \in Msgs
           /\ [msg |-> m, hdr |-> stamp[m], exp |-> NoExpiration,
               origin |-> Nil, on |-> Nil, at |-> "work"] \in Copy
<1>1. policy \in Policies /\ stamp \in [Msgs -> Stamps[policy]]
  BY DEF BaseInv, TypeOK
<1>2. stamp[m] \in (-MaxInt32)..MaxInt32
  BY <1>1, PolicyAssumption
<1>3. stamp[m] \in Int
  BY <1>2
<1> QED
  BY <1>3 DEF Copy

LEMMA PublisherBaseInv == ASSUME BaseInv, NEW m \in Msgs, PublisherSends(m) PROVE BaseInv'
<1> DEFINE k == [msg |-> m, hdr |-> stamp[m], exp |-> NoExpiration,
                 origin |-> Nil, on |-> Nil, at |-> "work"]
<1>1. copies' = [copies EXCEPT ![FreshId] = k] /\ sent' \subseteq Msgs
  BY DEF PublisherSends, BaseInv, TypeOK
<1>2. FreshId \in Ids /\ copies[FreshId].at = "free"
  BY FreshIsFree DEF PublisherSends, Free
<1>3. k \in Copy /\ k.at = "work"
  BY PublishedCopy
<1> HIDE DEF k
<1> QED
  BY <1>1, <1>2, <1>3, OneCopyBaseInv DEF PublisherSends

LEMMA DeliversBaseInv == ASSUME BaseInv, NEW c \in Ids, Delivers(c) PROVE BaseInv'
<1>1. PICK r \in Runs :
          chan[r] = "open" /\ copies' = [copies EXCEPT ![c].at = "delivered", ![c].on = r]
  BY DEF Delivers
<1> DEFINE k == [copies[c] EXCEPT !.at = "delivered", !.on = r]
<1>2. copies \in [Ids -> Copy \cup {Free}] /\ copies[c].at = "work"
  BY DEF BaseInv, TypeOK, Delivers
<1>3. k \in Copy /\ k.at = "delivered" /\ k.on = r
  <2>1. copies[c] \in Copy
    BY <1>2, CopyIsNotFree
  <2>2. k = Moved(copies[c], r, "delivered")
    BY DEF Moved
  <2> HIDE DEF k
  <2> QED
    BY <2>1, <2>2, DeliveredCopy
<1>4. copies' = [copies EXCEPT ![c] = k]
  BY <1>1, <1>2
<1>5. /\ sent' \subseteq Msgs
      /\ UNCHANGED <<policy, stamp, lifeVars, chan, wire, cons, tallyVars, dead, lost>>
  BY DEF BaseInv, TypeOK, Delivers
<1> HIDE DEF k
<1> QED
  BY <1>1, <1>2, <1>3, <1>4, <1>5, OneCopyBaseInv

LEMMA ExpiresBaseInv == ASSUME BaseInv, NEW c \in Ids, Expires(c) PROVE BaseInv'
<1> DEFINE k == [copies[c] EXCEPT !.at = "work"]
<1>1. copies \in [Ids -> Copy \cup {Free}] /\ copies[c].at = "retry"
  BY DEF BaseInv, TypeOK, Expires, ExpiresTo
<1>2. k \in Copy /\ k.at = "work"
  <2>1. copies[c] \in Copy
    BY <1>1, CopyIsNotFree
  <2> QED
    BY <2>1, ExpiredCopy
<1>3. copies' = [copies EXCEPT ![c] = k]
  BY DEF Expires, ExpiresTo
<1>4. sent' \subseteq Msgs
  BY DEF BaseInv, TypeOK, Expires, ExpiresTo
<1> QED
  BY <1>1, <1>2, <1>3, <1>4, OneCopyBaseInv DEF Expires, ExpiresTo

\* What is left of a sequence of frames when the first was read.
LEMMA TailFrames ==
    ASSUME wire \in [Runs -> Seq(Frame)], NEW r \in Runs, wire[r] # <<>>,
           wire' = [wire EXCEPT ![r] = Tail(@)]
    PROVE  /\ wire' \in [Runs -> Seq(Frame)]
           /\ 1 \in Frames(r) /\ Head(wire[r]) = wire[r][1] /\ wire[r][1] \in Frame
           /\ \A q \in Runs \ {r} : wire'[q] = wire[q]
           /\ \A i \in Frames(r)' : i + 1 \in Frames(r) /\ wire'[r][i] = wire[r][i + 1]
           /\ \A i \in Frames(r) \ {1} : i - 1 \in Frames(r)' /\ wire'[r][i - 1] = wire[r][i]
<1>1. wire[r] \in Seq(Frame) /\ Len(wire[r]) \in Nat \ {0}
  BY EmptySeq
<1>2. /\ Tail(wire[r]) \in Seq(Frame) /\ Len(Tail(wire[r])) = Len(wire[r]) - 1
      /\ \A i \in 1..Len(Tail(wire[r])) : Tail(wire[r])[i] = wire[r][i + 1]
  BY <1>1, HeadTailProperties
<1>3. Head(wire[r]) = wire[r][1] /\ 1 \in Frames(r) /\ wire[r][1] \in Frame
  BY <1>1, HeadTailProperties, ElementOfSeq DEF Frames
<1>4. wire'[r] = Tail(wire[r]) /\ \A q \in Runs \ {r} : wire'[q] = wire[q]
  OBVIOUS
<1>5. ASSUME NEW i \in Frames(r)' PROVE i + 1 \in Frames(r) /\ wire'[r][i] = wire[r][i + 1]
  BY <1>1, <1>2, <1>4 DEF Frames
<1>6. ASSUME NEW i \in Frames(r) \ {1} PROVE i - 1 \in Frames(r)' /\ wire'[r][i - 1] = wire[r][i]
  <2>1. i - 1 \in 1..Len(Tail(wire[r])) /\ (i - 1) + 1 = i
    BY <1>1, <1>2 DEF Frames
  <2> QED
    BY <1>2, <1>4, <2>1 DEF Frames
<1>7. wire' \in [Runs -> Seq(Frame)]
  BY <1>2
<1> QED
  BY <1>3, <1>4, <1>5, <1>6, <1>7

\* A sequence of frames when one more is sent.
Sends(r, f) ==
    /\ wire' \in [Runs -> Seq(Frame)]
    /\ \A q \in Runs \ {r} : wire'[q] = wire[q]
    /\ \A i \in Frames(r) : i \in Frames(r)' /\ i # Len(wire[r]) + 1 /\ wire'[r][i] = wire[r][i]
    /\ Len(wire[r]) + 1 \in Frames(r)' /\ wire'[r][Len(wire[r]) + 1] = f
    /\ \A i \in Frames(r)' : i \in Frames(r) \/ i = Len(wire[r]) + 1
    /\ Len(wire[r]) \in Nat

LEMMA AppendFrames ==
    ASSUME wire \in [Runs -> Seq(Frame)], NEW r \in Runs, NEW f \in Frame,
           wire' = [wire EXCEPT ![r] = Append(@, f)]
    PROVE  Sends(r, f)
<1>1. wire[r] \in Seq(Frame) /\ Len(wire[r]) \in Nat
  BY LenProperties
<1>2. /\ Append(wire[r], f) \in Seq(Frame) /\ Len(Append(wire[r], f)) = Len(wire[r]) + 1
      /\ \A i \in 1..Len(wire[r]) : Append(wire[r], f)[i] = wire[r][i]
      /\ Append(wire[r], f)[Len(wire[r]) + 1] = f
  BY <1>1, AppendProperties
<1>3. wire'[r] = Append(wire[r], f) /\ \A q \in Runs \ {r} : wire'[q] = wire[q]
  OBVIOUS
<1>4. wire' \in [Runs -> Seq(Frame)]
  BY <1>2
<1> QED
  BY <1>1, <1>2, <1>3, <1>4 DEF Frames, Sends

\* The copy the first frame of a channel speaks of.
Read(r) == wire[r][1].copy

\* What reading a frame does.
LEMMA ReadEffect ==
    ASSUME BaseInv, NEW r \in Runs, BrokerReads(r)
    PROVE  /\ chan[r] = "open" /\ 1 \in Frames(r) /\ wire[r][1] \in Frame
           /\ Read(r) \in Ids /\ copies[Read(r)] \in Copy /\ copies[Read(r)].on = r
           /\ \A c \in Ids \ {Read(r)} : copies'[c] = copies[c]
           /\ \/ /\ wire[r][1].kind = "publish" /\ copies[Read(r)].at = "toRetry"
                 /\ copies'[Read(r)] = Moved(copies[Read(r)], Nil, "retry")
                 /\ dead' = dead
              \/ /\ wire[r][1].kind = "publish" /\ copies[Read(r)].at = "toDLQ"
                 /\ copies'[Read(r)] = Free
                 /\ dead' = dead \cup {copies[Read(r)].msg}
              \/ /\ wire[r][1].kind = "requeue" /\ copies[Read(r)].at = "held"
                 /\ copies'[Read(r)] = Moved(copies[Read(r)], Nil, "work")
                 /\ dead' = dead
              \/ /\ wire[r][1].kind \in {"ack", "discard"} /\ copies[Read(r)].at = "held"
                 /\ copies'[Read(r)] = Free
                 /\ dead' = dead
           /\ \A q \in Runs : \A i \in Frames(q) : q # r \/ i # 1 => wire[q][i].copy # Read(r)
<1>1. /\ wire \in [Runs -> Seq(Frame)] /\ copies \in [Ids -> Copy \cup {Free}]
      /\ wire[r] # <<>> /\ wire' = [wire EXCEPT ![r] = Tail(@)]
  BY DEF BaseInv, TypeOK, BrokerReads
<1>2. chan[r] = "open"
  BY <1>1 DEF BaseInv, Framed
<1>3. 1 \in Frames(r) /\ Head(wire[r]) = wire[r][1] /\ wire[r][1] \in Frame
  BY <1>1, TailFrames
<1> DEFINE f == wire[r][1]
           c == copies[f.copy]
<1>4. /\ f.copy \in Ids /\ f.kind \in {"publish", "ack", "requeue", "discard"}
      /\ c.on = r
      /\ c.at \in IF f.kind = "publish" THEN {"toRetry", "toDLQ"} ELSE {"held"}
  BY <1>3 DEF BaseInv, Framed, Frame
<1>5. c \in Copy
  BY <1>1, <1>4, CopyIsNotFree
<1>6. /\ copies' = [copies EXCEPT ![f.copy] =
            CASE f.kind = "publish" /\ c.at = "toRetry" -> [c EXCEPT !.on = Nil, !.at = "retry"]
              [] f.kind = "requeue" -> [c EXCEPT !.on = Nil, !.at = "work"]
              [] OTHER -> Free]
      /\ dead' = IF f.kind = "publish" /\ c.at = "toDLQ" THEN dead \cup {c.msg} ELSE dead
  BY <1>3 DEF BrokerReads
<1>7. ASSUME NEW q \in Runs, NEW i \in Frames(q), q # r \/ i # 1 PROVE wire[q][i].copy # f.copy
  <2>1. CASE q # r
    <3>1. copies[wire[q][i].copy].on = q
      BY DEF BaseInv, Framed
    <3> QED
      BY <1>4, <2>1, <3>1
  <2>2. CASE q = r
    BY <1>3, <1>7, <2>2 DEF BaseInv, Framed
  <2> QED
    BY <2>1, <2>2
<1>8. \A b \in Ids \ {f.copy} : copies'[b] = copies[b]
  BY <1>1, <1>6
<1>9. copies'[f.copy] =
          CASE f.kind = "publish" /\ c.at = "toRetry" -> Moved(c, Nil, "retry")
            [] f.kind = "requeue" -> Moved(c, Nil, "work")
            [] OTHER -> Free
  <2> DEFINE k == CASE f.kind = "publish" /\ c.at = "toRetry" -> Moved(c, Nil, "retry")
                    [] f.kind = "requeue" -> Moved(c, Nil, "work")
                    [] OTHER -> Free
  <2>1. copies' = [copies EXCEPT ![f.copy] = k]
    BY <1>6 DEF Moved
  <2> HIDE DEF k
  <2>2. copies'[f.copy] = k
    BY <1>1, <1>4, <2>1
  <2> QED
    BY <2>2 DEF k
<1>10. CASE f.kind = "publish" /\ c.at = "toRetry"
  BY <1>2, <1>3, <1>4, <1>5, <1>6, <1>7, <1>8, <1>9, <1>10 DEF Read
<1>11. CASE f.kind = "publish" /\ c.at = "toDLQ"
  BY <1>2, <1>3, <1>4, <1>5, <1>6, <1>7, <1>8, <1>9, <1>11 DEF Read
<1>12. CASE f.kind = "requeue"
  BY <1>2, <1>3, <1>4, <1>5, <1>6, <1>7, <1>8, <1>9, <1>12 DEF Read
<1>13. CASE f.kind \in {"ack", "discard"}
  BY <1>2, <1>3, <1>4, <1>5, <1>6, <1>7, <1>8, <1>9, <1>13 DEF Read
<1> QED
  BY <1>4, <1>10, <1>11, <1>12, <1>13

LEMMA ReadsBaseInv == ASSUME BaseInv, NEW r \in Runs, BrokerReads(r) PROVE BaseInv'
<1> DEFINE x == Read(r)
<1>1. /\ wire \in [Runs -> Seq(Frame)] /\ copies \in [Ids -> Copy \cup {Free}]
      /\ wire[r] # <<>> /\ wire' = [wire EXCEPT ![r] = Tail(@)]
      /\ UNCHANGED <<policy, stamp, sent, lifeVars, chan, cons, tallyVars, lost>>
  BY DEF BaseInv, TypeOK, BrokerReads
<1>2. /\ chan[r] = "open" /\ x \in Ids /\ copies[x] \in Copy /\ copies[x].on = r
      /\ \A c \in Ids \ {x} : copies'[c] = copies[c]
      /\ \A q \in Runs : \A i \in Frames(q) : q # r \/ i # 1 => wire[q][i].copy # x
      /\ 1 \in Frames(r) /\ wire[r][1] \in Frame
  BY ReadEffect
<1>3. copies'[x] \in Copy \cup {Free} /\ copies'[x].at \in {"free", "work", "retry"}
  <2>1. \/ copies'[x] = Free
        \/ copies'[x] = Moved(copies[x], Nil, "retry")
        \/ copies'[x] = Moved(copies[x], Nil, "work")
    BY ReadEffect
  <2>2. /\ Moved(copies[x], Nil, "retry") \in Copy
        /\ Moved(copies[x], Nil, "retry").at = "retry"
        /\ Moved(copies[x], Nil, "work") \in Copy
        /\ Moved(copies[x], Nil, "work").at = "work"
    BY <1>2, HomeCopy
  <2>3. Free.at = "free"
    BY DEF Free
  <2> QED
    BY <2>1, <2>2, <2>3
<1>4. /\ wire' \in [Runs -> Seq(Frame)]
      /\ \A q \in Runs \ {r} : wire'[q] = wire[q]
      /\ \A i \in Frames(r)' : i + 1 \in Frames(r) /\ wire'[r][i] = wire[r][i + 1]
  BY <1>1, TailFrames
<1> HIDE DEF x
<1>5. copies' \in [Ids -> Copy \cup {Free}]
  <2>1. DOMAIN copies' = Ids /\ copies' = [c \in Ids |-> copies'[c]]
    BY <1>1 DEF BrokerReads
  <2> QED
    BY <1>1, <1>2, <1>3, <2>1
<1>6. dead' \subseteq Msgs
  <2>1. dead \subseteq Msgs /\ (dead' = dead \/ dead' = dead \cup {copies[x].msg})
    BY ReadEffect DEF BaseInv, TypeOK, x
  <2> QED
    BY <1>2, <2>1 DEF Copy
<1>7. TypeOK'
  BY <1>1, <1>4, <1>5, <1>6 DEF BaseInv, TypeOK, lifeVars, tallyVars
<1>8. Numbered'
  BY <1>1 DEF BaseInv, Numbered, lifeVars
<1>9. Placed'
  BY <1>1, <1>2, <1>3 DEF BaseInv, Placed
<1>10. ASSUME NEW q \in Runs, NEW i \in Frames(q)'
       PROVE  \E j \in Frames(q) :
                  /\ wire'[q][i] = wire[q][j] /\ wire[q][j] \in Frame
                  /\ wire[q][j].copy \in Ids \ {x}
                  /\ j = IF q = r THEN i + 1 ELSE i
  <2>1. CASE q = r
    <3>1. i + 1 \in Frames(r) /\ i + 1 # 1 /\ wire'[r][i] = wire[r][i + 1]
      BY <1>4, <2>1 DEF Frames
    <3>2. wire[r][i + 1] \in Frame
      BY <1>1, <3>1, ElementOfSeq DEF Frames
    <3> QED
      BY <1>2, <2>1, <3>1, <3>2 DEF Frame
  <2>2. CASE q # r
    <3>1. i \in Frames(q) /\ wire'[q][i] = wire[q][i]
      BY <1>4, <2>2 DEF Frames
    <3>2. wire[q][i] \in Frame
      BY <1>1, <3>1, ElementOfSeq DEF Frames
    <3> QED
      BY <1>2, <2>2, <3>1, <3>2 DEF Frame
  <2> QED
    BY <2>1, <2>2
<1>11. Framed'
  <2> SUFFICES ASSUME NEW q \in Runs
               PROVE  /\ chan'[q] # "open" => wire'[q] = <<>>
                      /\ \A i \in Frames(q)' :
                             /\ copies'[wire'[q][i].copy].on = q
                             /\ copies'[wire'[q][i].copy].at \in
                                   IF wire'[q][i].kind = "publish" THEN {"toRetry", "toDLQ"} ELSE {"held"}
                      /\ \A i, j \in Frames(q)' : wire'[q][i].copy = wire'[q][j].copy => i = j
    BY DEF Framed, Frames
  <2>1. chan'[q] # "open" => wire'[q] = <<>>
    BY <1>1, <1>2, <1>4 DEF BaseInv, Framed
  <2>2. ASSUME NEW i \in Frames(q)'
        PROVE  /\ copies'[wire'[q][i].copy].on = q
               /\ copies'[wire'[q][i].copy].at \in
                      IF wire'[q][i].kind = "publish" THEN {"toRetry", "toDLQ"} ELSE {"held"}
    <3>1. PICK j \in Frames(q) : wire'[q][i] = wire[q][j] /\ wire[q][j].copy \in Ids \ {x}
      BY <1>10
    <3> QED
      BY <1>2, <3>1 DEF BaseInv, Framed
  <2>3. ASSUME NEW i \in Frames(q)', NEW j \in Frames(q)', wire'[q][i].copy = wire'[q][j].copy
        PROVE  i = j
    <3>1. PICK k \in Frames(q) : wire'[q][i] = wire[q][k] /\ k = IF q = r THEN i + 1 ELSE i
      BY <1>10
    <3>2. PICK l \in Frames(q) : wire'[q][j] = wire[q][l] /\ l = IF q = r THEN j + 1 ELSE j
      BY <1>10
    <3>3. k = l
      <4>1. wire[q][k].copy = wire[q][l].copy
        BY <2>3, <3>1, <3>2
      <4>2. \A a, b \in Frames(q) : wire[q][a].copy = wire[q][b].copy => a = b
        BY DEF BaseInv, Framed
      <4> QED
        BY <3>1, <3>2, <4>1, <4>2
    <3>4. i \in Nat /\ j \in Nat
      BY <2>3 DEF Frames
    <3> QED
      BY <3>1, <3>2, <3>3, <3>4
  <2> QED
    BY <2>1, <2>2, <2>3
<1>12. Working'
  <2> SUFFICES ASSUME NEW q \in Runs, Busy(q)
               PROVE  /\ cons[q].id \in Ids /\ cons[q].d \in Copy
                      /\ cons[q].at \in {"sendingRetry", "sendingDLQ"} => cons[q].over \in Runs
                      /\ chan[q] = "open" =>
                             /\ cons[q].d.on = q
                             /\ copies'[cons[q].id] = [cons[q].d EXCEPT !.at = "held"]
                             /\ \A i \in Frames(q)' : wire'[q][i].copy # cons[q].id
    <3>1. chan' = chan /\ cons' = cons
      BY <1>1
    <3> QED
      BY <3>1, Zenon DEF Working, Busy, Frames
  <2>1. /\ cons[q].id \in Ids /\ cons[q].d \in Copy
        /\ cons[q].at \in {"sendingRetry", "sendingDLQ"} => cons[q].over \in Runs
        /\ chan[q] = "open" =>
               /\ cons[q].d.on = q
               /\ copies[cons[q].id] = [cons[q].d EXCEPT !.at = "held"]
               /\ \A i \in Frames(q) : wire[q][i].copy # cons[q].id
    BY DEF BaseInv, Working
  <2>2. chan[q] = "open" => cons[q].id # x
    <3>1. CASE q = r
      BY <1>2, <2>1, <3>1 DEF x, Read
    <3>2. CASE q # r
      BY <1>2, <2>1, <3>2 DEF Copy
    <3> QED
      BY <3>1, <3>2
  <2>3. ASSUME chan[q] = "open", NEW i \in Frames(q)' PROVE wire'[q][i].copy # cons[q].id
    BY <1>10, <2>1, <2>3
  <2> QED
    BY <1>2, <2>1, <2>2, <2>3
<1> QED
  BY <1>7, <1>8, <1>9, <1>11, <1>12 DEF BaseInv

-----------------------------------------------------------------------------
(* Channels that close, and runs.                                          *)

\* What a closing channel does to a copy.
LEMMA CloseEffect ==
    ASSUME BaseInv, NEW r \in Runs, Closes(r), NEW c \in Ids
    PROVE  \/ /\ copies[c].at \in {"delivered", "held"} /\ copies[c].on = r
              /\ copies'[c] = Moved(copies[c], Nil, "work")
           \/ /\ copies[c].at \in {"toRetry", "toDLQ"} /\ copies[c].on = r
              /\ copies'[c] = Free
           \/ /\ copies[c].at \in {"delivered", "held", "toRetry", "toDLQ"} => copies[c].on # r
              /\ copies'[c] = copies[c]
<1>1. copies'[c] =
          CASE copies[c].at \in {"delivered", "held"} /\ copies[c].on = r ->
                 Moved(copies[c], Nil, "work")
            [] copies[c].at \in {"toRetry", "toDLQ"} /\ copies[c].on = r -> Free
            [] OTHER -> copies[c]
  BY DEF Closes, Moved
<1>2. CASE copies[c].at \in {"delivered", "held"} /\ copies[c].on = r
  BY <1>1, <1>2
<1>3. CASE copies[c].at \in {"toRetry", "toDLQ"} /\ copies[c].on = r
  BY <1>1, <1>3
<1>4. CASE copies[c].at \in {"delivered", "held", "toRetry", "toDLQ"} => copies[c].on # r
  BY <1>1, <1>4
<1> QED
  BY <1>2, <1>3, <1>4

LEMMA ClosesBaseInv ==
    ASSUME BaseInv, NEW r \in Runs, chan[r] = "open", Closes(r),
           stopping' \subseteq Runs,
           UNCHANGED <<policy, stamp, sent, handle, run, cancelled, cons, tallyVars, dead>>
    PROVE  BaseInv'
<1> USE DEF tallyVars
<1>1. /\ wire \in [Runs -> Seq(Frame)] /\ copies \in [Ids -> Copy \cup {Free}]
      /\ chan \in [Runs -> {"none", "open", "closed"}]
      /\ chan' = [chan EXCEPT ![r] = "closed"] /\ wire' = [wire EXCEPT ![r] = <<>>]
  BY DEF BaseInv, TypeOK, Closes
<1>2. ASSUME NEW c \in Ids
      PROVE  /\ copies'[c] \in Copy \cup {Free}
             /\ copies'[c].at \in {"delivered", "held", "toRetry", "toDLQ"} =>
                    copies'[c] = copies[c] /\ copies[c].on # r
             /\ copies[c].at \in {"held", "toRetry", "toDLQ"} /\ copies[c].on # r =>
                    copies'[c] = copies[c]
  <2>1. copies[c] \in Copy \cup {Free}
    BY <1>1
  <2>2. CASE /\ copies[c].at \in {"delivered", "held"} /\ copies[c].on = r
             /\ copies'[c] = Moved(copies[c], Nil, "work")
    <3>1. copies[c] \in Copy
      BY <2>1, <2>2, CopyIsNotFree
    <3>2. copies'[c] \in Copy /\ copies'[c].at = "work"
      BY <2>2, <3>1, HomeCopy
    <3> QED
      BY <2>2, <3>2
  <2>3. CASE /\ copies[c].at \in {"toRetry", "toDLQ"} /\ copies[c].on = r
             /\ copies'[c] = Free
    BY <2>1, <2>3 DEF Free
  <2>4. CASE /\ copies[c].at \in {"delivered", "held", "toRetry", "toDLQ"} => copies[c].on # r
             /\ copies'[c] = copies[c]
    BY <2>1, <2>4
  <2> QED
    BY <2>2, <2>3, <2>4, CloseEffect
<1>3. TypeOK'
  <2>1. copies' \in [Ids -> Copy \cup {Free}]
    <3>1. copies' = [c \in Ids |-> copies'[c]]
      BY DEF Closes
    <3> QED
      BY <1>2, <3>1
  <2>2. lost' \subseteq Msgs
    <3>1. ASSUME NEW c \in Ids, copies[c].at \in {"toRetry", "toDLQ"} PROVE copies[c].msg \in Msgs
      BY <1>1, <3>1, CopyIsNotFree DEF Copy
    <3>2. lost \subseteq Msgs
      BY DEF BaseInv, TypeOK
    <3> QED
      BY <3>1, <3>2 DEF Closes
  <2>3. wire' \in [Runs -> Seq(Frame)] /\ chan' \in [Runs -> {"none", "open", "closed"}]
    <3>1. <<>> \in Seq(Frame)
      OBVIOUS
    <3> QED
      BY <1>1, <3>1
  <2> QED
    BY <2>1, <2>2, <2>3 DEF BaseInv, TypeOK
<1>4. Numbered'
  BY <1>1 DEF BaseInv, Numbered
<1>5. Placed'
  <2> SUFFICES ASSUME NEW c \in Ids, copies'[c].at \in {"delivered", "held", "toRetry", "toDLQ"}
               PROVE  copies'[c].on \in Runs /\ chan'[copies'[c].on] = "open"
    BY DEF Placed
  <2>1. copies'[c] = copies[c] /\ copies[c].on # r
    BY <1>2
  <2> QED
    BY <1>1, <2>1 DEF BaseInv, Placed
<1>6. ASSUME NEW q \in Runs, NEW i \in Frames(q)'
      PROVE  /\ q # r /\ i \in Frames(q) /\ wire'[q] = wire[q]
             /\ wire[q][i].copy \in Ids /\ copies'[wire[q][i].copy] = copies[wire[q][i].copy]
  <2>1. q # r /\ wire'[q] = wire[q] /\ i \in Frames(q)
    BY <1>1 DEF Frames
  <2>2. wire[q][i] \in Frame
    BY <1>1, <2>1, ElementOfSeq DEF Frames
  <2>3. wire[q][i].copy \in Ids
    BY <2>2 DEF Frame
  <2>4. /\ copies[wire[q][i].copy].on = q
        /\ copies[wire[q][i].copy].at \in {"held", "toRetry", "toDLQ"}
    BY <2>1 DEF BaseInv, Framed
  <2> QED
    BY <1>2, <2>1, <2>3, <2>4
<1>7. Framed'
  <2> SUFFICES ASSUME NEW q \in Runs
               PROVE  /\ chan'[q] # "open" => wire'[q] = <<>>
                      /\ \A i \in Frames(q)' :
                             /\ copies'[wire'[q][i].copy].on = q
                             /\ copies'[wire'[q][i].copy].at \in
                                   IF wire'[q][i].kind = "publish" THEN {"toRetry", "toDLQ"} ELSE {"held"}
                      /\ \A i, j \in Frames(q)' : wire'[q][i].copy = wire'[q][j].copy => i = j
    BY DEF Framed, Frames
  <2>1. chan'[q] # "open" => wire'[q] = <<>>
    BY <1>1 DEF BaseInv, Framed
  <2> QED
    BY <1>6, <2>1 DEF BaseInv, Framed
<1>8. Working'
  <2> SUFFICES ASSUME NEW q \in Runs, Busy(q)
               PROVE  /\ cons[q].id \in Ids /\ cons[q].d \in Copy
                      /\ cons[q].at \in {"sendingRetry", "sendingDLQ"} => cons[q].over \in Runs
                      /\ chan'[q] = "open" =>
                             /\ cons[q].d.on = q
                             /\ copies'[cons[q].id] = [cons[q].d EXCEPT !.at = "held"]
                             /\ \A i \in Frames(q)' : wire'[q][i].copy # cons[q].id
    BY DEF Working, Busy, Frames
  <2>1. /\ cons[q].id \in Ids /\ cons[q].d \in Copy
        /\ cons[q].at \in {"sendingRetry", "sendingDLQ"} => cons[q].over \in Runs
        /\ chan[q] = "open" =>
               /\ cons[q].d.on = q
               /\ copies[cons[q].id] = [cons[q].d EXCEPT !.at = "held"]
               /\ \A i \in Frames(q) : wire[q][i].copy # cons[q].id
    BY DEF BaseInv, Working
  <2>2. chan'[q] = "open" => chan[q] = "open" /\ q # r
    BY <1>1
  <2>3. chan'[q] = "open" => copies[cons[q].id].at = "held" /\ copies[cons[q].id].on # r
    BY <2>1, <2>2 DEF Copy
  <2> QED
    BY <1>2, <1>6, <2>1, <2>2, <2>3
<1> QED
  BY <1>3, <1>4, <1>5, <1>7, <1>8 DEF BaseInv

\* A step that leaves alone what is on the channels.
LEMMA StillFramed ==
    ASSUME BaseInv, UNCHANGED <<chan, wire, copies>>
    PROVE  Placed' /\ Framed'
<1>1. Placed'
  BY DEF BaseInv, Placed
<1>2. wire' = wire /\ chan' = chan /\ copies' = copies
  OBVIOUS
<1>3. Framed' <=> Framed
  BY <1>2 DEF Framed, Frames
<1> QED
  BY <1>1, <1>3 DEF BaseInv

\* A step that touches neither messages nor goroutines.
LEMMA LifeBaseInv ==
    ASSUME BaseInv, Numbered',
           handle' \in 0..MaxRuns /\ cancelled' \subseteq Runs /\ stopping' \subseteq Runs,
           UNCHANGED <<policy, stamp, sent, run, chan, wire, copies, cons, tallyVars, dead, lost>>
    PROVE  BaseInv'
<1>1. TypeOK'
  BY DEF BaseInv, TypeOK, tallyVars
<1>2. UNCHANGED <<chan, wire, copies, cons>>
  OBVIOUS
<1>3. Placed' /\ Framed'
  BY <1>2, StillFramed
<1>4. Working'
  BY <1>2, StillWorking
<1> QED
  BY <1>1, <1>3, <1>4 DEF BaseInv

LEMMA CancelBaseInv == ASSUME BaseInv, Cancels \/ StopTakes PROVE BaseInv'
<1>1. /\ handle \in 0..MaxRuns /\ run \in 0..MaxRuns /\ cancelled \subseteq Runs /\ stopping \subseteq Runs
      /\ handle <= run /\ \A r \in cancelled : r <= run
      /\ run \notin {0} \cup cancelled => handle = run
  BY DEF BaseInv, TypeOK, Numbered
<1>2. CASE Cancels
  <2>1. cancelled' \subseteq Runs /\ stopping' = stopping /\ handle' = handle
    <3>1. cancelled' = cancelled \cup {run} /\ run \in Runs
      BY <1>1, <1>2 DEF Cancels
    <3> QED
      BY <1>1, <1>2, <3>1 DEF Cancels
  <2>2. Numbered'
    BY <1>1, <1>2 DEF BaseInv, Numbered, Cancels
  <2> QED
    BY <1>1, <1>2, <2>1, <2>2, LifeBaseInv DEF Cancels
<1>3. CASE StopTakes
  <2>1. /\ handle \in Runs /\ run \in Runs
        /\ cancelled' \subseteq Runs /\ stopping' \subseteq Runs /\ handle' = Nil
    BY <1>1, <1>3 DEF StopTakes
  <2>2. Numbered'
    BY <1>1, <1>3 DEF BaseInv, Numbered, StopTakes
  <2> QED
    BY <1>1, <1>3, <2>1, <2>2, LifeBaseInv DEF StopTakes
<1> QED
  BY <1>2, <1>3

LEMMA InstallsBaseInv == ASSUME BaseInv, Installs PROVE BaseInv'
<1> DEFINE n == run + 1
<1>1. /\ run \in 0..MaxRuns /\ n \in Runs /\ cancelled \subseteq Runs
      /\ chan \in [Runs -> {"none", "open", "closed"}] /\ cons \in [Runs -> Goroutine]
      /\ run' = n /\ handle' = n
      /\ chan' = [chan EXCEPT ![n] = "open"] /\ cons' = [cons EXCEPT ![n] = Idle]
      /\ UNCHANGED <<policy, stamp, sent, cancelled, stopping, wire, copies, tallyVars, dead, lost>>
  BY DEF BaseInv, TypeOK, Installs
<1>2. Idle \in Goroutine /\ Idle.at = "idle"
  BY DEF Idle, Gone, Goroutine
<1>3. chan[n] = "none" /\ wire[n] = <<>>
  BY <1>1 DEF BaseInv, Numbered, Framed
<1>4. TypeOK'
  BY <1>1, <1>2 DEF BaseInv, TypeOK, tallyVars
<1>5. Numbered'
  BY <1>1, <1>2 DEF BaseInv, Numbered
<1>6. Placed'
  BY <1>1 DEF BaseInv, Placed
<1>7. Framed'
  BY <1>1, <1>3 DEF BaseInv, Framed, Frames
<1>8. Working'
  BY <1>1, <1>2 DEF BaseInv, Working, Busy, Frames
<1> QED
  BY <1>4, <1>5, <1>6, <1>7, <1>8 DEF BaseInv

LEMMA CloseBaseInv == ASSUME BaseInv, NEW r \in Runs, Drops(r) \/ StopCloses(r) PROVE BaseInv'
<1>1. stopping \subseteq Runs
  BY DEF BaseInv, TypeOK
<1>2. CASE Drops(r)
  <2>1. stopping' \subseteq Runs
    BY <1>1, <1>2 DEF Drops, lifeVars
  <2> QED
    BY <1>2, <2>1, ClosesBaseInv DEF Drops, lifeVars
<1>3. CASE StopCloses(r)
  <2>1. stopping' \subseteq Runs
    BY <1>1, <1>3 DEF StopCloses
  <2>2. CASE chan[r] = "open" /\ Closes(r)
    BY <1>3, <2>1, <2>2, ClosesBaseInv DEF StopCloses
  <2>3. CASE UNCHANGED <<chan, wire, copies, lost>>
    <3>1. /\ handle' \in 0..MaxRuns /\ cancelled' \subseteq Runs
          /\ UNCHANGED <<policy, stamp, sent, run, chan, wire, copies, cons, tallyVars, dead, lost>>
      BY <1>3, <2>3 DEF BaseInv, TypeOK, StopCloses
    <3>2. Numbered'
      BY <1>3, <3>1 DEF BaseInv, Numbered, StopCloses
    <3> QED
      BY <2>1, <3>1, <3>2, LifeBaseInv
  <2> QED
    BY <1>3, <2>2, <2>3 DEF StopCloses
<1> QED
  BY <1>2, <1>3

-----------------------------------------------------------------------------
(* Consumer goroutines.                                                    *)

\* A step of a goroutine that touches no copy and no wire, and leaves it working
\* on the same delivery or on none.
LEMMA TurnBaseInv ==
    ASSUME BaseInv, NEW r \in Runs, cons[r].at # "none", NEW g \in Goroutine,
           cons' = [cons EXCEPT ![r] = g],
           g.at \notin {"none", "idle"} => Busy(r) /\ g.id = cons[r].id /\ g.d = cons[r].d,
           g.at \in {"sendingRetry", "sendingDLQ"} => g.over \in Runs,
           fails' \in [Msgs -> Nat], done' \subseteq Msgs, dropped' \subseteq Msgs,
           UNCHANGED <<policy, stamp, sent, lifeVars, chan, wire, copies, dead, lost>>
    PROVE  BaseInv'
<1>1. cons \in [Runs -> Goroutine]
  BY DEF BaseInv, TypeOK
<1>2. /\ cons' \in [Runs -> Goroutine] /\ cons'[r] = g
      /\ \A q \in Runs \ {r} : cons'[q] = cons[q]
  BY <1>1
<1>3. TypeOK'
  BY <1>2 DEF BaseInv, TypeOK, lifeVars
<1>4. Numbered'
  <2>1. r <= run
    <3>1. r > run => cons[r] = Gone
      BY DEF BaseInv, Numbered
    <3>2. run \in 0..MaxRuns /\ Gone.at = "none"
      BY DEF BaseInv, TypeOK, Gone
    <3> QED
      BY <3>1, <3>2
  <2>2. run \in Nat
    BY DEF BaseInv, TypeOK
  <2> QED
    BY <1>2, <2>1, <2>2 DEF BaseInv, Numbered, lifeVars
<1>5. Placed' /\ Framed'
  BY StillFramed
<1>6. Working'
  BY <1>2 DEF BaseInv, Working, Busy, Frames
<1> QED
  BY <1>3, <1>4, <1>5, <1>6 DEF BaseInv

\* What Turns does.
LEMMA TurnsTo ==
    ASSUME BaseInv, NEW r \in Runs, Busy(r), NEW to,
           to \in {"handling", "retrying", "deadLettering", "acking", "requeueing", "discarding"},
           Turns(r, to)
    PROVE  /\ [cons[r] EXCEPT !.at = to] \in Goroutine
           /\ cons' = [cons EXCEPT ![r] = [cons[r] EXCEPT !.at = to]]
           /\ cons[r] \in Goroutine /\ cons[r].d \in Copy
           /\ \A q \in Runs \ {r} : cons'[q] = cons[q]
           /\ cons'[r].at = to /\ cons'[r].id = cons[r].id /\ cons'[r].d = cons[r].d
<1>1. cons \in [Runs -> Goroutine] /\ cons[r].d \in Copy
  BY DEF BaseInv, TypeOK, Working
<1>2. cons[r] \in Goroutine
  BY <1>1
<1>3. [cons[r] EXCEPT !.at = to] \in Goroutine
  BY <1>2 DEF Goroutine
<1>4. cons' = [cons EXCEPT ![r] = [cons[r] EXCEPT !.at = to]]
  BY DEF Turns
<1> QED
  BY <1>1, <1>2, <1>3, <1>4 DEF Goroutine

LEMMA TurnsBaseInv ==
    ASSUME BaseInv, NEW r \in Runs, Busy(r), NEW to,
           to \in {"handling", "retrying", "deadLettering", "acking", "requeueing", "discarding"},
           Turns(r, to),
           fails' \in [Msgs -> Nat], done' \subseteq Msgs, dropped' \subseteq Msgs,
           UNCHANGED <<policy, stamp, sent, lifeVars, chan, wire, copies, dead, lost>>
    PROVE  BaseInv'
<1> DEFINE g == [cons[r] EXCEPT !.at = to]
<1>1. g \in Goroutine /\ cons' = [cons EXCEPT ![r] = g] /\ cons[r] \in Goroutine
  BY TurnsTo
<1>2. g.at = to /\ g.id = cons[r].id /\ g.d = cons[r].d
  BY <1>1 DEF Goroutine
<1> HIDE DEF g
<1>3. cons[r].at # "none"
  BY DEF Busy
<1> QED
  BY <1>1, <1>2, <1>3, TurnBaseInv

\* The outcomes of the handler.
HandlerStep(r) == HandlerAccepts(r) \/ HandlerFails(r) \/ HandlerDrops(r)

LEMMA HandlerTurns ==
    ASSUME BaseInv, NEW r \in Runs, HandlerStep(r)
    PROVE  /\ Busy(r) /\ cons[r].at = "handling" /\ cons[r].d \in Copy
           /\ fails' \in [Msgs -> Nat] /\ done' \subseteq Msgs /\ dropped' \subseteq Msgs
           /\ UNCHANGED <<policy, stamp, sent, lifeVars, chan, wire, copies, dead, lost>>
           /\ \E to \in {"retrying", "deadLettering", "acking", "requeueing", "discarding"} : Turns(r, to)
<1>1. cons[r].at = "handling"
  BY DEF HandlerStep, HandlerAccepts, HandlerFails, HandlerFailsWhen, HandlerDrops
<1>2. Busy(r) /\ cons[r].d \in Copy
  BY <1>1 DEF Busy, BaseInv, Working
<1>3. /\ cons[r].d.msg \in Msgs /\ fails \in [Msgs -> Nat]
      /\ done \subseteq Msgs /\ dropped \subseteq Msgs
  BY <1>2 DEF Copy, BaseInv, TypeOK
<1>4. fails' \in [Msgs -> Nat]
  BY <1>3 DEF HandlerStep, HandlerAccepts, HandlerFails, HandlerFailsWhen, HandlerDrops
<1>5. done' \subseteq Msgs /\ dropped' \subseteq Msgs
  BY <1>3 DEF HandlerStep, HandlerAccepts, HandlerFails, HandlerFailsWhen, HandlerDrops
<1>6. UNCHANGED <<policy, stamp, sent, lifeVars, chan, wire, copies, dead, lost>>
  BY DEF HandlerStep, HandlerAccepts, HandlerFails, HandlerFailsWhen, HandlerDrops
<1>7. \E to \in {"retrying", "deadLettering", "acking", "requeueing", "discarding"} : Turns(r, to)
  BY DEF HandlerStep, HandlerAccepts, HandlerFails, HandlerFailsWhen, HandlerDrops
<1> QED
  BY <1>1, <1>2, <1>4, <1>5, <1>6, <1>7

LEMMA HandlerBaseInv == ASSUME BaseInv, NEW r \in Runs, HandlerStep(r) PROVE BaseInv'
BY HandlerTurns, TurnsBaseInv

\* publish finds no channel, or one.
LEMMA ReadsChannelEffect ==
    ASSUME BaseInv, NEW r \in Runs, ReadsChannel(r)
    PROVE  /\ Busy(r) /\ cons[r].d \in Copy
           /\ UNCHANGED <<policy, stamp, sent, lifeVars, chan, wire, copies, tallyVars, dead, lost>>
           /\ \/ (handle = Nil \/ chan[handle] = "closed") /\ Turns(r, "requeueing")
              \/ \E g \in Goroutine :
                     /\ cons' = [cons EXCEPT ![r] = g]
                     /\ g.id = cons[r].id /\ g.d = cons[r].d /\ g.over \in Runs
                     /\ \/ cons[r].at = "retrying" /\ g.at = "sendingRetry"
                        \/ cons[r].at = "deadLettering" /\ g.at = "sendingDLQ"
<1>1. Busy(r) /\ cons[r].at \in {"retrying", "deadLettering"}
  BY DEF ReadsChannel, Busy
<1>2. cons[r] \in Goroutine /\ cons[r].d \in Copy /\ handle \in 0..MaxRuns
  BY <1>1 DEF BaseInv, TypeOK, Working
<1>3. UNCHANGED <<policy, stamp, sent, lifeVars, chan, wire, copies, tallyVars, dead, lost>>
  BY DEF ReadsChannel
<1>4. CASE handle = Nil \/ (handle # Nil /\ chan[handle] = "closed")
  BY <1>1, <1>2, <1>3, <1>4 DEF ReadsChannel
<1>5. CASE ~(handle = Nil \/ (handle # Nil /\ chan[handle] = "closed"))
  <2> DEFINE to == IF cons[r].at = "retrying" THEN "sendingRetry" ELSE "sendingDLQ"
             g == [cons[r] EXCEPT !.over = handle, !.at = to]
  <2>1. cons' = [cons EXCEPT ![r] = g]
    BY <1>5 DEF ReadsChannel
  <2>2. g \in Goroutine /\ g.id = cons[r].id /\ g.d = cons[r].d /\ g.over = handle /\ g.at = to
    BY <1>2 DEF Goroutine
  <2> HIDE DEF g
  <2>3. handle \in Runs
    BY <1>2, <1>5
  <2>4. \/ cons[r].at = "retrying" /\ g.at = "sendingRetry"
        \/ cons[r].at = "deadLettering" /\ g.at = "sendingDLQ"
    BY <1>1, <2>2
  <2>5. \E h \in Goroutine :
            /\ cons' = [cons EXCEPT ![r] = h]
            /\ h.id = cons[r].id /\ h.d = cons[r].d /\ h.over \in Runs
            /\ \/ cons[r].at = "retrying" /\ h.at = "sendingRetry"
               \/ cons[r].at = "deadLettering" /\ h.at = "sendingDLQ"
    BY <2>1, <2>2, <2>3, <2>4
  <2> QED
    BY <1>1, <1>2, <1>3, <2>5
<1> QED
  BY <1>4, <1>5

LEMMA ReadsChannelBaseInv == ASSUME BaseInv, NEW r \in Runs, ReadsChannel(r) PROVE BaseInv'
<1>1. /\ fails' \in [Msgs -> Nat] /\ done' \subseteq Msgs /\ dropped' \subseteq Msgs
      /\ Busy(r) /\ cons[r].at # "none"
      /\ UNCHANGED <<policy, stamp, sent, lifeVars, chan, wire, copies, dead, lost>>
  BY ReadsChannelEffect DEF BaseInv, TypeOK, tallyVars, Busy
<1>2. CASE Turns(r, "requeueing")
  BY <1>1, <1>2, TurnsBaseInv
<1>3. CASE \E g \in Goroutine :
                /\ cons' = [cons EXCEPT ![r] = g]
                /\ g.id = cons[r].id /\ g.d = cons[r].d /\ g.over \in Runs
  BY <1>1, <1>3, TurnBaseInv
<1> QED
  BY <1>2, <1>3, ReadsChannelEffect

LEMMA ExitsBaseInv == ASSUME BaseInv, NEW r \in Runs, Exits(r) PROVE BaseInv'
<1>1. Gone \in Goroutine /\ Gone.at = "none"
  BY DEF Gone, Goroutine
<1>2. /\ fails' \in [Msgs -> Nat] /\ done' \subseteq Msgs /\ dropped' \subseteq Msgs
      /\ cons[r].at # "none" /\ cons' = [cons EXCEPT ![r] = Gone]
      /\ UNCHANGED <<policy, stamp, sent, lifeVars, chan, wire, copies, dead, lost>>
  BY DEF Exits, BaseInv, TypeOK, tallyVars
<1> QED
  BY <1>1, <1>2, TurnBaseInv

\* A goroutine takes a delivery.
LEMMA TakesEffect ==
    ASSUME BaseInv, NEW r \in Runs, NEW c \in Ids, Takes(r, c)
    PROVE  /\ cons[r].at = "idle" /\ chan[r] = "open"
           /\ copies[c] \in Copy /\ copies[c].at = "delivered" /\ copies[c].on = r
           /\ copies' = [copies EXCEPT ![c] = [copies[c] EXCEPT !.at = "held"]]
           /\ [copies[c] EXCEPT !.at = "held"] \in Copy
           /\ cons' = [cons EXCEPT ![r] = [at |-> "handling", id |-> c, d |-> copies[c], over |-> Nil]]
           /\ [at |-> "handling", id |-> c, d |-> copies[c], over |-> Nil] \in Goroutine
           /\ \A q \in Runs : \A i \in Frames(q) : wire[q][i].copy # c
           /\ UNCHANGED <<policy, stamp, sent, lifeVars, chan, wire, tallyVars, dead, lost>>
<1>1. copies \in [Ids -> Copy \cup {Free}] /\ copies[c].at = "delivered" /\ copies[c].on = r
  BY DEF BaseInv, TypeOK, Takes
<1>2. copies[c] \in Copy
  BY <1>1, CopyIsNotFree
<1>3. [copies[c] EXCEPT !.at = "held"] \in Copy
  BY <1>2 DEF Copy
<1>4. [at |-> "handling", id |-> c, d |-> copies[c], over |-> Nil] \in Goroutine
  BY <1>2 DEF Goroutine
<1>5. chan[r] = "open"
  BY <1>1 DEF BaseInv, Placed
<1>6. ASSUME NEW q \in Runs, NEW i \in Frames(q) PROVE wire[q][i].copy # c
  BY <1>1 DEF BaseInv, Framed
<1> QED
  BY <1>1, <1>2, <1>3, <1>4, <1>5, <1>6 DEF Takes

LEMMA TakesBaseInv == ASSUME BaseInv, NEW r \in Runs, NEW c \in Ids, Takes(r, c) PROVE BaseInv'
<1> DEFINE k == [copies[c] EXCEPT !.at = "held"]
           g == [at |-> "handling", id |-> c, d |-> copies[c], over |-> Nil]
<1>1. /\ cons[r].at = "idle" /\ chan[r] = "open"
      /\ copies[c] \in Copy /\ copies[c].at = "delivered" /\ copies[c].on = r
      /\ copies' = [copies EXCEPT ![c] = k] /\ k \in Copy
      /\ cons' = [cons EXCEPT ![r] = g] /\ g \in Goroutine
      /\ \A q \in Runs : \A i \in Frames(q) : wire[q][i].copy # c
      /\ UNCHANGED <<policy, stamp, sent, lifeVars, chan, wire, tallyVars, dead, lost>>
  BY TakesEffect
<1>2. /\ copies \in [Ids -> Copy \cup {Free}] /\ cons \in [Runs -> Goroutine]
      /\ wire \in [Runs -> Seq(Frame)]
  BY DEF BaseInv, TypeOK
<1>3. k.at = "held" /\ k.on = r /\ g.at = "handling" /\ g.id = c /\ g.d = copies[c]
  BY <1>1 DEF Copy
<1>4. /\ copies'[c] = k /\ \A b \in Ids \ {c} : copies'[b] = copies[b]
      /\ cons'[r] = g /\ \A q \in Runs \ {r} : cons'[q] = cons[q]
  BY <1>1, <1>2
<1>5. TypeOK'
  BY <1>1, <1>2 DEF BaseInv, TypeOK, lifeVars, tallyVars
<1>6. Numbered'
  <2>1. r <= run /\ run \in Nat
    BY <1>1 DEF BaseInv, Numbered, TypeOK, Gone
  <2> QED
    BY <1>1, <1>4, <2>1 DEF BaseInv, Numbered, lifeVars
<1>7. Placed'
  BY <1>1, <1>3, <1>4 DEF BaseInv, Placed
<1>8. Framed'
  <2>1. ASSUME NEW q \in Runs, NEW i \in Frames(q)
        PROVE  wire[q][i].copy \in Ids /\ copies'[wire[q][i].copy] = copies[wire[q][i].copy]
    <3>1. wire[q][i] \in Frame
      BY <1>2, ElementOfSeq DEF Frames
    <3> QED
      BY <1>1, <1>4, <3>1 DEF Frame
  <2> QED
    BY <1>1, <2>1 DEF BaseInv, Framed, Frames
<1>9. Working'
  <2> SUFFICES ASSUME NEW q \in Runs, Busy(q)'
               PROVE  /\ cons'[q].id \in Ids /\ cons'[q].d \in Copy
                      /\ cons'[q].at \in {"sendingRetry", "sendingDLQ"} => cons'[q].over \in Runs
                      /\ chan[q] = "open" =>
                             /\ cons'[q].d.on = q
                             /\ copies'[cons'[q].id] = [cons'[q].d EXCEPT !.at = "held"]
                             /\ \A i \in Frames(q) : wire[q][i].copy # cons'[q].id
    <3>1. chan' = chan /\ wire' = wire
      BY <1>1
    <3> QED
      BY <3>1 DEF Working, Busy, Frames
  <2>1. CASE q = r
    BY <1>1, <1>3, <1>4, <2>1
  <2>2. CASE q # r
    <3>1. cons'[q] = cons[q] /\ Busy(q)
      BY <1>4, <2>2 DEF Busy
    <3>2. ASSUME chan[q] = "open" PROVE cons[q].id # c
      <4>1. copies[cons[q].id] = [cons[q].d EXCEPT !.at = "held"] /\ cons[q].d \in Copy
        BY <3>1, <3>2 DEF BaseInv, Working
      <4>2. copies[cons[q].id].at = "held"
        BY <4>1 DEF Copy
      <4> QED
        BY <1>1, <4>2
    <3> QED
      BY <1>4, <3>1, <3>2 DEF BaseInv, Working
  <2> QED
    BY <2>1, <2>2
<1> QED
  BY <1>5, <1>6, <1>7, <1>8, <1>9 DEF BaseInv

\* What publishing does: a copy on the wire of the channel it found, or nothing.
LEMMA PublishEffect ==
    ASSUME BaseInv, NEW r \in Runs, Republishes(r)
    PROVE  /\ Busy(r) /\ cons[r].d \in Copy /\ cons[r].over \in Runs
           /\ cons[r].at \in {"sendingRetry", "sendingDLQ"}
           /\ UNCHANGED <<policy, stamp, sent, lifeVars, chan, tallyVars, dead, lost>>
           /\ \/ /\ chan[cons[r].over] = "open" /\ Turns(r, "acking")
                 /\ FreshId \in Ids /\ copies[FreshId] = Free
                 /\ wire' = [wire EXCEPT ![cons[r].over] =
                        Append(@, [kind |-> "publish", copy |-> FreshId])]
                 /\ \E k \in Copy :
                        /\ copies' = [copies EXCEPT ![FreshId] = k]
                        /\ k.msg = cons[r].d.msg /\ k.origin = r /\ k.on = cons[r].over
                        /\ \/ /\ cons[r].at = "sendingRetry" /\ k.at = "toRetry"
                              /\ k.hdr = cons[r].d.hdr + 1 /\ k.exp = Expiration(policy, k.hdr)
                           \/ /\ cons[r].at = "sendingDLQ" /\ k.at = "toDLQ"
                              /\ k.hdr = cons[r].d.hdr /\ k.exp = NoExpiration
              \/ /\ chan[cons[r].over] = "closed" \/ r \in cancelled
                 /\ Turns(r, "requeueing")
                 /\ UNCHANGED <<copies, wire>>
<1>1. /\ cons[r].at \in {"sendingRetry", "sendingDLQ"} /\ Busy(r)
      /\ UNCHANGED <<policy, stamp, sent, lifeVars, chan, tallyVars, dead, lost>>
  BY DEF Republishes, Publishes, Busy
<1>2. cons[r].d \in Copy /\ cons[r].over \in Runs /\ policy \in Policies
  BY <1>1 DEF BaseInv, TypeOK, Working
<1>3. cons[r].d.msg \in Msgs /\ cons[r].d.hdr \in Int
  BY <1>2 DEF Copy
<1> DEFINE o == cons[r].over
           k == IF cons[r].at = "sendingRetry" THEN RetryCopy(r, cons[r].d.hdr + 1) ELSE DeadCopy(r)
<1>4. CASE /\ chan[o] = "open" /\ SomeFree /\ Turns(r, "acking")
           /\ copies' = [copies EXCEPT ![FreshId] = k]
           /\ wire' = [wire EXCEPT ![o] = Append(@, [kind |-> "publish", copy |-> FreshId])]
  <2>1. FreshId \in Ids /\ copies[FreshId] = Free
    BY <1>4, FreshIsFree
  <2>2. CASE cons[r].at = "sendingRetry"
    <3>1. Expiration(policy, cons[r].d.hdr + 1) \in Nat
      BY <1>2, <1>3, Expirations
    <3>2. k = RetryCopy(r, cons[r].d.hdr + 1)
      BY <2>2
    <3>3. /\ k \in Copy /\ k.msg = cons[r].d.msg /\ k.origin = r /\ k.on = o /\ k.at = "toRetry"
          /\ k.hdr = cons[r].d.hdr + 1 /\ k.exp = Expiration(policy, k.hdr)
      BY <1>2, <1>3, <3>1, <3>2 DEF RetryCopy, Copy
    <3> HIDE DEF k
    <3> QED
      BY <1>1, <1>2, <1>4, <2>1, <2>2, <3>3
  <2>3. CASE cons[r].at = "sendingDLQ"
    <3>1. k = DeadCopy(r)
      BY <2>3
    <3>2. /\ k \in Copy /\ k.msg = cons[r].d.msg /\ k.origin = r /\ k.on = o /\ k.at = "toDLQ"
          /\ k.hdr = cons[r].d.hdr /\ k.exp = NoExpiration
      BY <1>2, <1>3, <3>1 DEF DeadCopy, Copy
    <3> HIDE DEF k
    <3> QED
      BY <1>1, <1>2, <1>4, <2>1, <2>3, <3>2
  <2> QED
    BY <1>1, <2>2, <2>3
<1>5. CASE /\ chan[o] = "closed" \/ r \in cancelled
           /\ Turns(r, "requeueing") /\ UNCHANGED <<copies, wire>>
  BY <1>1, <1>2, <1>5
<1> QED
  BY <1>4, <1>5 DEF Republishes, Publishes

LEMMA SendBaseInv ==
    ASSUME BaseInv, NEW r \in Runs, Busy(r), NEW o \in Runs, chan[o] = "open",
           NEW b \in Ids, copies[b] = Free,
           NEW k \in Copy, k.at \in {"toRetry", "toDLQ"}, k.on = o,
           copies' = [copies EXCEPT ![b] = k],
           wire' = [wire EXCEPT ![o] = Append(@, [kind |-> "publish", copy |-> b])],
           Turns(r, "acking"),
           UNCHANGED <<policy, stamp, sent, lifeVars, chan, tallyVars, dead, lost>>
    PROVE  BaseInv'
<1> DEFINE f == [kind |-> "publish", copy |-> b]
           last == Len(wire[o]) + 1
<1>1. /\ copies \in [Ids -> Copy \cup {Free}] /\ cons \in [Runs -> Goroutine]
      /\ wire \in [Runs -> Seq(Frame)] /\ f \in Frame /\ f.kind = "publish" /\ f.copy = b
  BY DEF BaseInv, TypeOK, Frame
<1>2. /\ copies'[b] = k /\ \A c \in Ids \ {b} : copies'[c] = copies[c]
      /\ copies' \in [Ids -> Copy \cup {Free}]
  BY <1>1
<1>3. /\ [cons[r] EXCEPT !.at = "acking"] \in Goroutine
      /\ cons' = [cons EXCEPT ![r] = [cons[r] EXCEPT !.at = "acking"]]
      /\ \A q \in Runs \ {r} : cons'[q] = cons[q]
      /\ cons'[r].at = "acking" /\ cons'[r].id = cons[r].id /\ cons'[r].d = cons[r].d
  BY TurnsTo
<1> HIDE DEF f
<1>4. /\ wire' \in [Runs -> Seq(Frame)]
      /\ \A q \in Runs \ {o} : wire'[q] = wire[q]
      /\ \A i \in Frames(o) : i \in Frames(o)' /\ i # last /\ wire'[o][i] = wire[o][i]
      /\ last \in Frames(o)' /\ wire'[o][last] = f
      /\ \A i \in Frames(o)' : i \in Frames(o) \/ i = last
  <2>1. wire' = [wire EXCEPT ![o] = Append(@, f)]
    BY DEF f
  <2>2. f \in Frame /\ wire \in [Runs -> Seq(Frame)]
    BY <1>1
  <2>3. Sends(o, f)
    BY <2>1, <2>2, AppendFrames
  <2> QED
    BY <2>3 DEF Sends
<1> HIDE DEF last
<1>5. TypeOK'
  BY <1>1, <1>2, <1>3, <1>4 DEF BaseInv, TypeOK, lifeVars, tallyVars
<1>6. Numbered'
  <2>1. r <= run /\ run \in Nat
    BY DEF BaseInv, Numbered, TypeOK, Gone, Busy
  <2> QED
    BY <1>3, <2>1 DEF BaseInv, Numbered, lifeVars
<1>7. Placed'
  BY <1>2 DEF BaseInv, Placed
\* The frames there were, and the one that is new.
<1>8. ASSUME NEW q \in Runs, NEW i \in Frames(q)'
      PROVE  \/ /\ i \in Frames(q) /\ wire'[q][i] = wire[q][i]
                /\ wire[q][i].copy \in Ids \ {b}
             \/ q = o /\ i = last /\ wire'[q][i] = f
  <2>1. ASSUME i \in Frames(q) PROVE wire[q][i].copy \in Ids \ {b}
    <3>1. wire[q][i] \in Frame
      BY <1>1, <2>1, ElementOfSeq DEF Frames
    <3>2. wire[q][i].copy # b
      BY <2>1, FreeIsNowhere
    <3> QED
      BY <3>1, <3>2 DEF Frame
  <2>2. CASE q = o
    BY <1>4, <2>1, <2>2
  <2>3. CASE q # o
    BY <1>4, <2>1, <2>3 DEF Frames
  <2> QED
    BY <2>2, <2>3
<1>9. Framed'
  <2> SUFFICES ASSUME NEW q \in Runs
               PROVE  /\ chan'[q] # "open" => wire'[q] = <<>>
                      /\ \A i \in Frames(q)' :
                             /\ copies'[wire'[q][i].copy].on = q
                             /\ copies'[wire'[q][i].copy].at \in
                                   IF wire'[q][i].kind = "publish" THEN {"toRetry", "toDLQ"} ELSE {"held"}
                      /\ \A i, j \in Frames(q)' : wire'[q][i].copy = wire'[q][j].copy => i = j
    BY DEF Framed, Frames
  <2>1. chan'[q] # "open" => wire'[q] = <<>>
    BY <1>4 DEF BaseInv, Framed
  <2>2. ASSUME NEW i \in Frames(q)'
        PROVE  /\ copies'[wire'[q][i].copy].on = q
               /\ copies'[wire'[q][i].copy].at \in
                      IF wire'[q][i].kind = "publish" THEN {"toRetry", "toDLQ"} ELSE {"held"}
    <3>1. CASE i \in Frames(q) /\ wire'[q][i] = wire[q][i] /\ wire[q][i].copy \in Ids \ {b}
      <4>1. /\ copies[wire[q][i].copy].on = q
            /\ copies[wire[q][i].copy].at \in
                   IF wire[q][i].kind = "publish" THEN {"toRetry", "toDLQ"} ELSE {"held"}
        BY <3>1 DEF BaseInv, Framed
      <4>2. copies'[wire'[q][i].copy] = copies[wire[q][i].copy]
        BY <1>2, <3>1
      <4> QED
        BY <3>1, <4>1, <4>2
    <3>2. CASE q = o /\ i = last /\ wire'[q][i] = f
      BY <1>1, <1>2, <3>2
    <3> QED
      BY <1>8, <3>1, <3>2
  <2>3. ASSUME NEW i \in Frames(q)', NEW j \in Frames(q)', wire'[q][i].copy = wire'[q][j].copy
        PROVE  i = j
    <3>1. f.copy = b
      BY <1>1
    <3>2. CASE i \in Frames(q) /\ wire'[q][i] = wire[q][i] /\ wire[q][i].copy \in Ids \ {b}
      <4>1. wire'[q][j].copy # b
        BY <2>3, <3>2
      <4>2. j \in Frames(q) /\ wire'[q][j] = wire[q][j]
        BY <1>8, <3>1, <4>1
      <4>3. \A m, l \in Frames(q) : wire[q][m].copy = wire[q][l].copy => m = l
        BY DEF BaseInv, Framed
      <4>4. wire[q][i].copy = wire[q][j].copy
        BY <2>3, <3>2, <4>2
      <4> QED
        BY <3>2, <4>2, <4>3, <4>4
    <3>3. CASE q = o /\ i = last /\ wire'[q][i] = f
      BY <1>8, <2>3, <3>1, <3>3
    <3> QED
      BY <1>8, <3>2, <3>3
  <2> QED
    BY <2>1, <2>2, <2>3
<1>10. Working'
  <2> SUFFICES ASSUME NEW q \in Runs, Busy(q)'
               PROVE  /\ cons'[q].id \in Ids /\ cons'[q].d \in Copy
                      /\ cons'[q].at \in {"sendingRetry", "sendingDLQ"} => cons'[q].over \in Runs
                      /\ chan[q] = "open" =>
                             /\ cons'[q].d.on = q
                             /\ copies'[cons'[q].id] = [cons'[q].d EXCEPT !.at = "held"]
                             /\ \A i \in Frames(q)' : wire'[q][i].copy # cons'[q].id
    BY DEF Working, Busy, Frames
  <2>1. /\ Busy(q) /\ cons'[q].id = cons[q].id /\ cons'[q].d = cons[q].d
        /\ cons'[q].at \in {"sendingRetry", "sendingDLQ"} => cons'[q] = cons[q]
    BY <1>3 DEF Busy
  <2>2. chan[q] = "open" => cons[q].id # b
    BY <2>1, FreeIsNowhere
  <2>3. ASSUME chan[q] = "open", NEW i \in Frames(q)' PROVE wire'[q][i].copy # cons[q].id
    <3>1. \A j \in Frames(q) : wire[q][j].copy # cons[q].id
      BY <2>1, <2>3 DEF BaseInv, Working
    <3>2. f.copy = b /\ cons[q].id # b
      BY <1>1, <2>2, <2>3
    <3> QED
      BY <1>8, <3>1, <3>2
  <2>4. /\ cons[q].id \in Ids /\ cons[q].d \in Copy
        /\ cons[q].at \in {"sendingRetry", "sendingDLQ"} => cons[q].over \in Runs
        /\ chan[q] = "open" =>
               /\ cons[q].d.on = q
               /\ copies[cons[q].id] = [cons[q].d EXCEPT !.at = "held"]
    BY <2>1 DEF BaseInv, Working
  <2>5. chan[q] = "open" => copies'[cons[q].id] = copies[cons[q].id]
    BY <1>2, <2>2, <2>4
  <2> QED
    BY <2>1, <2>3, <2>4, <2>5
<1> QED
  BY <1>5, <1>6, <1>7, <1>9, <1>10 DEF BaseInv

LEMMA RepublishesBaseInv == ASSUME BaseInv, NEW r \in Runs, Republishes(r) PROVE BaseInv'
<1>1. /\ Busy(r) /\ cons[r].over \in Runs
      /\ UNCHANGED <<policy, stamp, sent, lifeVars, chan, tallyVars, dead, lost>>
  BY PublishEffect
<1>2. CASE /\ chan[cons[r].over] = "open" /\ Turns(r, "acking")
           /\ FreshId \in Ids /\ copies[FreshId] = Free
           /\ wire' = [wire EXCEPT ![cons[r].over] = Append(@, [kind |-> "publish", copy |-> FreshId])]
           /\ \E k \in Copy :
                  /\ copies' = [copies EXCEPT ![FreshId] = k]
                  /\ k.on = cons[r].over /\ k.at \in {"toRetry", "toDLQ"}
  BY <1>1, <1>2, SendBaseInv
<1>3. CASE Turns(r, "requeueing") /\ UNCHANGED <<copies, wire>>
  <2>1. fails' \in [Msgs -> Nat] /\ done' \subseteq Msgs /\ dropped' \subseteq Msgs
    BY <1>1 DEF BaseInv, TypeOK, tallyVars
  <2> QED
    BY <1>1, <1>3, <2>1, TurnsBaseInv
<1> QED
  BY <1>2, <1>3, PublishEffect

\* What answering a delivery does.
LEMMA AnswerEffect ==
    ASSUME BaseInv, NEW r \in Runs, Answers(r)
    PROVE  /\ Busy(r) /\ cons[r].at \in {"acking", "requeueing", "discarding"}
           /\ cons' = [cons EXCEPT ![r] = Idle] /\ Idle \in Goroutine /\ Idle.at = "idle"
           /\ UNCHANGED <<policy, stamp, sent, lifeVars, chan, copies, tallyVars, dead, lost>>
           /\ \/ chan[r] # "open" /\ wire' = wire
              \/ /\ chan[r] = "open"
                 /\ \E kind \in {"ack", "requeue", "discard"} :
                        /\ wire' = [wire EXCEPT ![r] = Append(@, [kind |-> kind, copy |-> cons[r].id])]
                        /\ kind = "ack" <=> cons[r].at = "acking"
                        /\ kind = "discard" <=> cons[r].at = "discarding"
<1>1. /\ cons[r].at \in {"acking", "requeueing", "discarding"} /\ Busy(r)
      /\ cons' = [cons EXCEPT ![r] = Idle]
      /\ UNCHANGED <<policy, stamp, sent, lifeVars, chan, copies, tallyVars, dead, lost>>
  BY DEF Answers, Busy
<1>2. Idle \in Goroutine /\ Idle.at = "idle"
  BY DEF Idle, Gone, Goroutine
<1> DEFINE kind == CASE cons[r].at = "acking" -> "ack"
                     [] cons[r].at = "requeueing" -> "requeue"
                     [] cons[r].at = "discarding" -> "discard"
<1>3. /\ kind \in {"ack", "requeue", "discard"}
      /\ kind = "ack" <=> cons[r].at = "acking"
      /\ kind = "discard" <=> cons[r].at = "discarding"
  BY <1>1
<1>4. CASE chan[r] = "open"
  <2>1. wire' = [wire EXCEPT ![r] = Append(@, [kind |-> kind, copy |-> cons[r].id])]
    BY <1>4 DEF Answers
  <2> HIDE DEF kind
  <2> QED
    BY <1>1, <1>2, <1>3, <1>4, <2>1
<1>5. CASE chan[r] # "open"
  BY <1>1, <1>2, <1>5 DEF Answers
<1> QED
  BY <1>4, <1>5

LEMMA AnswersBaseInv == ASSUME BaseInv, NEW r \in Runs, Answers(r) PROVE BaseInv'
<1>1. /\ Busy(r) /\ cons[r].at # "none"
      /\ cons' = [cons EXCEPT ![r] = Idle] /\ Idle \in Goroutine /\ Idle.at = "idle"
      /\ UNCHANGED <<policy, stamp, sent, lifeVars, chan, copies, tallyVars, dead, lost>>
  BY AnswerEffect DEF Busy
<1>2. /\ copies \in [Ids -> Copy \cup {Free}] /\ cons \in [Runs -> Goroutine]
      /\ wire \in [Runs -> Seq(Frame)]
      /\ fails' \in [Msgs -> Nat] /\ done' \subseteq Msgs /\ dropped' \subseteq Msgs
  BY <1>1 DEF BaseInv, TypeOK, tallyVars
<1>3. CASE wire' = wire
  BY <1>1, <1>2, <1>3, TurnBaseInv
<1>4. CASE /\ chan[r] = "open"
           /\ \E kind \in {"ack", "requeue", "discard"} :
                  wire' = [wire EXCEPT ![r] = Append(@, [kind |-> kind, copy |-> cons[r].id])]
  <2>1. PICK kind \in {"ack", "requeue", "discard"} :
            wire' = [wire EXCEPT ![r] = Append(@, [kind |-> kind, copy |-> cons[r].id])]
    BY <1>4
  <2> DEFINE f == [kind |-> kind, copy |-> cons[r].id]
             last == Len(wire[r]) + 1
  <2>2. /\ cons[r].id \in Ids /\ cons[r].d \in Copy /\ cons[r].d.on = r
        /\ copies[cons[r].id] = [cons[r].d EXCEPT !.at = "held"]
        /\ \A i \in Frames(r) : wire[r][i].copy # cons[r].id
    BY <1>1, <1>4 DEF BaseInv, Working
  <2>3. f \in Frame /\ f.kind # "publish" /\ f.copy = cons[r].id
    BY <2>2 DEF Frame
  <2>4. copies[f.copy].at = "held" /\ copies[f.copy].on = r
    BY <2>2 DEF Copy
  <2> HIDE DEF f
  <2>5. /\ wire' \in [Runs -> Seq(Frame)]
        /\ \A q \in Runs \ {r} : wire'[q] = wire[q]
        /\ \A i \in Frames(r) : i \in Frames(r)' /\ i # last /\ wire'[r][i] = wire[r][i]
        /\ last \in Frames(r)' /\ wire'[r][last] = f
        /\ \A i \in Frames(r)' : i \in Frames(r) \/ i = last
    <3>1. wire' = [wire EXCEPT ![r] = Append(@, f)]
      BY <2>1 DEF f
    <3> QED
      BY <1>2, <2>3, <3>1, AppendFrames DEF Sends
  <2> HIDE DEF last
  <2>6. cons' \in [Runs -> Goroutine] /\ cons'[r] = Idle /\ \A q \in Runs \ {r} : cons'[q] = cons[q]
    BY <1>1, <1>2
  <2>7. TypeOK'
    BY <1>1, <1>2, <2>5, <2>6 DEF BaseInv, TypeOK, lifeVars, tallyVars
  <2>8. Numbered'
    <3>1. r <= run /\ run \in Nat
      BY <1>1 DEF BaseInv, Numbered, TypeOK, Gone
    <3> QED
      BY <1>1, <2>6, <3>1 DEF BaseInv, Numbered, lifeVars
  <2>9. Placed'
    BY <1>1 DEF BaseInv, Placed
  <2>10. ASSUME NEW q \in Runs, NEW i \in Frames(q)'
         PROVE  \/ i \in Frames(q) /\ wire'[q][i] = wire[q][i]
                \/ q = r /\ i = last /\ wire'[q][i] = f
    BY <2>5 DEF Frames
  <2>11. Framed'
    <3> SUFFICES ASSUME NEW q \in Runs
                 PROVE  /\ chan'[q] # "open" => wire'[q] = <<>>
                        /\ \A i \in Frames(q)' :
                               /\ copies'[wire'[q][i].copy].on = q
                               /\ copies'[wire'[q][i].copy].at \in
                                     IF wire'[q][i].kind = "publish" THEN {"toRetry", "toDLQ"} ELSE {"held"}
                        /\ \A i, j \in Frames(q)' : wire'[q][i].copy = wire'[q][j].copy => i = j
      BY DEF Framed, Frames
    <3>1. chan'[q] # "open" => wire'[q] = <<>>
      BY <1>1, <1>4, <2>5 DEF BaseInv, Framed
    <3>2. ASSUME NEW i \in Frames(q)'
          PROVE  /\ copies'[wire'[q][i].copy].on = q
                 /\ copies'[wire'[q][i].copy].at \in
                        IF wire'[q][i].kind = "publish" THEN {"toRetry", "toDLQ"} ELSE {"held"}
      BY <1>1, <2>3, <2>4, <2>10 DEF BaseInv, Framed
    <3>3. ASSUME NEW i \in Frames(q)', NEW j \in Frames(q)', wire'[q][i].copy = wire'[q][j].copy
          PROVE  i = j
      BY <2>2, <2>3, <2>10, <3>3 DEF BaseInv, Framed
    <3> QED
      BY <3>1, <3>2, <3>3
  <2>12. Working'
    <3> SUFFICES ASSUME NEW q \in Runs, Busy(q)'
                 PROVE  /\ cons'[q].id \in Ids /\ cons'[q].d \in Copy
                        /\ cons'[q].at \in {"sendingRetry", "sendingDLQ"} => cons'[q].over \in Runs
                        /\ chan[q] = "open" =>
                               /\ cons'[q].d.on = q
                               /\ copies[cons'[q].id] = [cons'[q].d EXCEPT !.at = "held"]
                               /\ \A i \in Frames(q)' : wire'[q][i].copy # cons'[q].id
      <4>1. chan' = chan /\ copies' = copies
        BY <1>1
      <4> QED
        BY <4>1 DEF Working, Busy, Frames
    <3>1. q # r /\ cons'[q] = cons[q] /\ wire'[q] = wire[q] /\ Busy(q)
      BY <1>1, <2>5, <2>6 DEF Busy
    <3> QED
      BY <3>1 DEF BaseInv, Working, Frames
  <2> QED
    BY <2>7, <2>8, <2>9, <2>11, <2>12 DEF BaseInv
<1> QED
  BY <1>3, <1>4, AnswerEffect

-----------------------------------------------------------------------------
LEMMA NextBaseInv == BaseInv /\ [Next]_vars => BaseInv'
<1> SUFFICES ASSUME BaseInv, [Next]_vars PROVE BaseInv'
  OBVIOUS
<1>1. CASE \E m \in Msgs : PublisherSends(m)
  BY <1>1, PublisherBaseInv
<1>2. CASE Installs
  BY <1>2, InstallsBaseInv
<1>3. CASE Cancels \/ StopTakes
  BY <1>3, CancelBaseInv
<1>4. CASE BrokerStep
  BY <1>4, DeliversBaseInv, ExpiresBaseInv, ReadsBaseInv DEF BrokerStep
<1>5. ASSUME NEW r \in Runs, ConsumerStep(r) PROVE BaseInv'
  <2>1. CASE \E c \in Ids : Takes(r, c)
    BY <2>1, TakesBaseInv
  <2>2. CASE HandlerStep(r)
    BY <2>2, HandlerBaseInv
  <2>3. CASE ReadsChannel(r)
    BY <2>3, ReadsChannelBaseInv
  <2>4. CASE Republishes(r)
    BY <2>4, RepublishesBaseInv
  <2>5. CASE Answers(r)
    BY <2>5, AnswersBaseInv
  <2>6. CASE Exits(r)
    BY <2>6, ExitsBaseInv
  <2> QED
    BY <1>5, <2>1, <2>2, <2>3, <2>4, <2>5, <2>6 DEF ConsumerStep, HandlerStep
<1>6. CASE \E r \in Runs : StopCloses(r) \/ Drops(r)
  BY <1>6, CloseBaseInv
<1>7. CASE UNCHANGED vars
  <2>1. /\ stopping' \subseteq Runs /\ handle' \in 0..MaxRuns /\ cancelled' \subseteq Runs
        /\ UNCHANGED <<policy, stamp, sent, run, chan, wire, copies, cons, tallyVars, dead, lost>>
    BY <1>7 DEF vars, lifeVars, BaseInv, TypeOK
  <2>2. Numbered'
    BY <1>7 DEF vars, lifeVars, BaseInv, Numbered
  <2> QED
    BY <2>1, <2>2, LifeBaseInv
<1> QED
  BY <1>1, <1>2, <1>3, <1>4, <1>5, <1>6, <1>7 DEF Next

\* Frames, copies and goroutines always refer to each other as the comments above
\* say: no frame speaks of a copy that another frame or goroutine has answered.
THEOREM BaseInvariant == Spec => []BaseInv
<1>1. Init => BaseInv
  BY InitBaseInv
<1>2. BaseInv /\ [Next]_vars => BaseInv'
  BY NextBaseInv
<1> QED
  BY <1>1, <1>2, PTL DEF Spec

\* Every reachable state of the pipeline has its type.
THEOREM TypeCorrect == Spec => []TypeOK
<1>1. BaseInv => TypeOK
  BY DEF BaseInv
<1> QED
  BY <1>1, BaseInvariant, PTL

-----------------------------------------------------------------------------
(* What a step does to one copy, to one goroutine and to the tallies.      *)

CopyRests(c) == copies'[c] = copies[c] \/ copies'[c] = Free

CopyMoves(c) ==
    /\ copies[c] \in Copy /\ copies'[c] \in Copy /\ Same(copies'[c], copies[c])
    /\ \/ copies[c].at = "toRetry" /\ copies'[c].at = "retry"
       \/ /\ copies[c].at \in {"work", "delivered", "held", "retry"}
          /\ copies'[c].at \in {"work", "delivered", "held"}

CopyStamped(c) ==
    /\ copies[c] = Free /\ copies'[c] \in Copy
    /\ copies'[c].at = "work" /\ copies'[c].hdr = stamp[copies'[c].msg]
    /\ copies'[c].exp = NoExpiration

\* Goroutine r publishes it.
CopySent(r, c) ==
    /\ copies[c] = Free /\ copies'[c] \in Copy
    /\ cons[r].d \in Copy /\ copies'[c].msg = cons[r].d.msg
    /\ \/ /\ cons[r].at = "sendingRetry" /\ copies'[c].at = "toRetry"
          /\ copies'[c].hdr = cons[r].d.hdr + 1
          /\ copies'[c].exp = Expiration(policy, copies'[c].hdr)
       \/ /\ cons[r].at = "sendingDLQ" /\ copies'[c].at = "toDLQ"
          /\ copies'[c].hdr = cons[r].d.hdr /\ copies'[c].exp = NoExpiration

CopyStep(c) ==
    CopyRests(c) \/ CopyMoves(c) \/ CopyStamped(c) \/ \E r \in Runs : CopySent(r, c)

LEMMA CopyStepStamped == ASSUME BaseInv, NEW m \in Msgs, PublisherSends(m), NEW c \in Ids PROVE CopyStep(c)
<1> DEFINE k == [msg |-> m, hdr |-> stamp[m], exp |-> NoExpiration,
                 origin |-> Nil, on |-> Nil, at |-> "work"]
<1>1. copies' = [copies EXCEPT ![FreshId] = k] /\ copies \in [Ids -> Copy \cup {Free}]
  BY DEF PublisherSends, BaseInv, TypeOK
<1>2. FreshId \in Ids /\ copies[FreshId] = Free
  BY FreshIsFree DEF PublisherSends
<1>3. /\ k \in Copy /\ k.at = "work" /\ k.hdr = stamp[m] /\ k.msg = m
      /\ k.exp = NoExpiration
  BY PublishedCopy
<1> HIDE DEF k
<1>4. CASE c = FreshId
  BY <1>1, <1>2, <1>3, <1>4 DEF CopyStep, CopyStamped
<1>5. CASE c # FreshId
  BY <1>1, <1>2, <1>5 DEF CopyStep, CopyRests
<1> QED
  BY <1>4, <1>5

LEMMA CopyStepBroker == ASSUME BaseInv, BrokerStep, NEW c \in Ids PROVE CopyStep(c)
<1>1. copies \in [Ids -> Copy \cup {Free}]
  BY DEF BaseInv, TypeOK
<1>2. ASSUME NEW b \in Ids, Delivers(b) PROVE CopyStep(c)
  <2>1. PICK r \in Runs : copies' = [copies EXCEPT ![b].at = "delivered", ![b].on = r]
    BY <1>2 DEF Delivers
  <2>2. copies[b] \in Copy /\ copies[b].at = "work" /\ r \in 0..MaxRuns
    BY <1>1, <1>2, CopyIsNotFree DEF Delivers
  <2>3. copies' = [copies EXCEPT ![b] = Moved(copies[b], r, "delivered")]
    BY <1>1, <2>1 DEF Moved
  <2>4. /\ Moved(copies[b], r, "delivered") \in Copy
        /\ Moved(copies[b], r, "delivered").at = "delivered"
        /\ Same(Moved(copies[b], r, "delivered"), copies[b])
    BY <2>2, DeliveredCopy
  <2>5. CASE c = b
    BY <1>1, <2>2, <2>3, <2>4, <2>5 DEF CopyStep, CopyMoves
  <2>6. CASE c # b
    BY <1>1, <2>3, <2>6 DEF CopyStep, CopyRests
  <2> QED
    BY <2>5, <2>6
<1>3. ASSUME NEW b \in Ids, Expires(b) PROVE CopyStep(c)
  <2> DEFINE k == [copies[b] EXCEPT !.at = "work"]
  <2>1. copies[b] \in Copy /\ copies[b].at = "retry" /\ copies' = [copies EXCEPT ![b] = k]
    BY <1>1, <1>3, CopyIsNotFree DEF Expires, ExpiresTo
  <2>2. k \in Copy /\ k.at = "work" /\ Same(k, copies[b])
    BY <2>1, ExpiredCopy
  <2> HIDE DEF k
  <2>3. CASE c = b
    BY <1>1, <2>1, <2>2, <2>3 DEF CopyStep, CopyMoves
  <2>4. CASE c # b
    BY <1>1, <2>1, <2>4 DEF CopyStep, CopyRests
  <2> QED
    BY <2>3, <2>4
<1>4. ASSUME NEW r \in Runs, BrokerReads(r) PROVE CopyStep(c)
  <2> DEFINE x == Read(r)
  <2>1. /\ x \in Ids /\ copies[x] \in Copy /\ \A b \in Ids \ {x} : copies'[b] = copies[b]
        /\ \/ copies'[x] = Free
           \/ copies[x].at = "toRetry" /\ copies'[x] = Moved(copies[x], Nil, "retry")
           \/ copies[x].at = "held" /\ copies'[x] = Moved(copies[x], Nil, "work")
    BY <1>4, ReadEffect
  <2> HIDE DEF x
  <2>2. CASE c = x /\ copies'[x] = Free
    BY <2>2 DEF CopyStep, CopyRests
  <2>3. CASE c = x /\ copies[x].at = "toRetry" /\ copies'[x] = Moved(copies[x], Nil, "retry")
    <3>1. copies'[x] \in Copy /\ copies'[x].at = "retry" /\ Same(copies'[x], copies[x])
      BY <2>1, <2>3, HomeCopy
    <3> QED
      BY <2>1, <2>3, <3>1 DEF CopyStep, CopyMoves
  <2>4. CASE c = x /\ copies[x].at = "held" /\ copies'[x] = Moved(copies[x], Nil, "work")
    <3>1. copies'[x] \in Copy /\ copies'[x].at = "work" /\ Same(copies'[x], copies[x])
      BY <2>1, <2>4, HomeCopy
    <3> QED
      BY <2>1, <2>4, <3>1 DEF CopyStep, CopyMoves
  <2>5. CASE c # x
    BY <2>1, <2>5 DEF CopyStep, CopyRests
  <2> QED
    BY <2>1, <2>2, <2>3, <2>4, <2>5
<1> QED
  BY <1>2, <1>3, <1>4 DEF BrokerStep

LEMMA CopyStepCloses == ASSUME BaseInv, NEW r \in Runs, Closes(r), NEW c \in Ids PROVE CopyStep(c)
<1>1. CASE /\ copies[c].at \in {"delivered", "held"}
           /\ copies'[c] = Moved(copies[c], Nil, "work")
  <2>1. copies[c] \in Copy
    BY <1>1, CopyIsNotFree DEF BaseInv, TypeOK
  <2>2. copies'[c] \in Copy /\ copies'[c].at = "work" /\ Same(copies'[c], copies[c])
    BY <1>1, <2>1, HomeCopy
  <2> QED
    BY <1>1, <2>1, <2>2 DEF CopyStep, CopyMoves
<1>2. CASE copies'[c] = Free \/ copies'[c] = copies[c]
  BY <1>2 DEF CopyStep, CopyRests
<1> QED
  BY <1>1, <1>2, CloseEffect

LEMMA CopyStepTakes == ASSUME BaseInv, NEW r \in Runs, NEW b \in Ids, Takes(r, b), NEW c \in Ids PROVE CopyStep(c)
<1> DEFINE k == [copies[b] EXCEPT !.at = "held"]
<1>1. copies[b] \in Copy /\ copies[b].at = "delivered" /\ copies' = [copies EXCEPT ![b] = k]
  BY TakesEffect
<1>2. k \in Copy /\ k.at = "held" /\ Same(k, copies[b])
  BY <1>1, HeldCopy
<1> HIDE DEF k
<1>3. copies'[b] = k /\ (c # b => copies'[c] = copies[c])
  BY <1>1 DEF BaseInv, TypeOK
<1>4. CASE c = b
  BY <1>1, <1>2, <1>3, <1>4 DEF CopyStep, CopyMoves
<1>5. CASE c # b
  BY <1>3, <1>5 DEF CopyStep, CopyRests
<1> QED
  BY <1>4, <1>5

LEMMA CopyStepSends == ASSUME BaseInv, NEW r \in Runs, Republishes(r), NEW c \in Ids PROVE CopyStep(c)
<1>1. copies \in [Ids -> Copy \cup {Free}] /\ cons[r].d \in Copy
  BY PublishEffect DEF BaseInv, TypeOK
<1>2. CASE UNCHANGED copies
  BY <1>2 DEF CopyStep, CopyRests
<1>3. ASSUME NEW k \in Copy, copies' = [copies EXCEPT ![FreshId] = k],
             FreshId \in Ids, copies[FreshId] = Free, k.msg = cons[r].d.msg,
             \/ /\ cons[r].at = "sendingRetry" /\ k.at = "toRetry"
                /\ k.hdr = cons[r].d.hdr + 1 /\ k.exp = Expiration(policy, k.hdr)
             \/ /\ cons[r].at = "sendingDLQ" /\ k.at = "toDLQ"
                /\ k.hdr = cons[r].d.hdr /\ k.exp = NoExpiration
      PROVE  CopyStep(c)
  <2>1. CASE c = FreshId
    <3>1. copies'[c] = k
      BY <1>1, <1>3, <2>1
    <3>2. CopySent(r, c)
      BY <1>1, <1>3, <2>1, <3>1 DEF CopySent
    <3> QED
      BY <3>2 DEF CopyStep
  <2>2. CASE c # FreshId
    BY <1>1, <1>3, <2>2 DEF CopyStep, CopyRests
  <2> QED
    BY <2>1, <2>2
<1> QED
  BY <1>2, <1>3, PublishEffect

LEMMA CopySteps == ASSUME BaseInv, [Next]_vars, NEW c \in Ids PROVE CopyStep(c)
<1>1. ASSUME UNCHANGED copies PROVE CopyStep(c)
  BY <1>1 DEF CopyStep, CopyRests
<1>2. CASE \E m \in Msgs : PublisherSends(m)
  BY <1>2, CopyStepStamped
<1>3. CASE Installs \/ Cancels \/ StopTakes
  BY <1>1, <1>3 DEF Installs, Cancels, StopTakes
<1>4. CASE BrokerStep
  BY <1>4, CopyStepBroker
<1>5. ASSUME NEW r \in Runs, ConsumerStep(r) PROVE CopyStep(c)
  <2>1. CASE \E b \in Ids : Takes(r, b)
    BY <2>1, CopyStepTakes
  <2>2. CASE HandlerStep(r)
    BY <1>1, <2>2, HandlerTurns
  <2>3. CASE ReadsChannel(r) \/ Answers(r) \/ Exits(r)
    BY <1>1, <2>3 DEF ReadsChannel, Answers, Exits
  <2>4. CASE Republishes(r)
    BY <2>4, CopyStepSends
  <2> QED
    BY <1>5, <2>1, <2>2, <2>3, <2>4 DEF ConsumerStep, HandlerStep
<1>6. ASSUME NEW r \in Runs, StopCloses(r) \/ Drops(r) PROVE CopyStep(c)
  BY <1>1, <1>6, CopyStepCloses DEF StopCloses, Drops
<1>7. CASE UNCHANGED vars
  BY <1>1, <1>7 DEF vars
<1> QED
  BY <1>2, <1>3, <1>4, <1>5, <1>6, <1>7 DEF Next

\* What a goroutine that works on a delivery turns to.
Works(r) ==
    /\ Busy(r) /\ cons[r].d \in Copy
    /\ cons'[r].d = cons[r].d /\ cons'[r].id = cons[r].id
    /\ \/ HandlerAccepts(r) /\ cons'[r].at = "acking"
       \/ HandlerFails(r) /\ cons'[r].at = "requeueing" /\ ~policy.retry
       \/ /\ HandlerFails(r) /\ cons'[r].at = "deadLettering" /\ policy.retry
          /\ cons[r].d.hdr >= MaxRetries(policy)
       \/ /\ HandlerFails(r) /\ cons'[r].at = "retrying" /\ policy.retry
          /\ ~(cons[r].d.hdr >= MaxRetries(policy))
       \/ HandlerDrops(r) /\ cons'[r].at = "deadLettering" /\ policy.retry
       \/ HandlerDrops(r) /\ cons'[r].at = "discarding" /\ ~policy.retry
       \/ ReadsChannel(r) /\ cons[r].at = "retrying" /\ cons'[r].at = "sendingRetry"
       \/ ReadsChannel(r) /\ cons[r].at = "deadLettering" /\ cons'[r].at = "sendingDLQ"
       \/ ReadsChannel(r) /\ cons'[r].at = "requeueing" /\ (handle = Nil \/ chan[handle] = "closed")
       \/ Republishes(r) /\ cons'[r].at = "acking"
       \/ /\ Republishes(r) /\ cons'[r].at = "requeueing"
          /\ chan[cons[r].over] = "closed" \/ r \in cancelled

LEMMA HandlerWorks == ASSUME BaseInv, NEW r \in Runs, HandlerStep(r) PROVE Works(r)
<1>1. Busy(r) /\ cons[r].d \in Copy
  BY HandlerTurns
<1>2. ASSUME NEW to \in {"retrying", "deadLettering", "acking", "requeueing", "discarding"}, Turns(r, to)
      PROVE  cons'[r].at = to /\ cons'[r].d = cons[r].d /\ cons'[r].id = cons[r].id
  BY <1>1, <1>2, TurnsTo
<1>3. CASE HandlerAccepts(r)
  <2>1. Turns(r, "acking")
    BY <1>3 DEF HandlerAccepts
  <2> QED
    BY <1>1, <1>2, <1>3, <2>1 DEF Works
<1>4. CASE HandlerFails(r)
  <2>1. \/ ~policy.retry /\ Turns(r, "requeueing")
        \/ policy.retry /\ cons[r].d.hdr >= MaxRetries(policy) /\ Turns(r, "deadLettering")
        \/ policy.retry /\ ~(cons[r].d.hdr >= MaxRetries(policy)) /\ Turns(r, "retrying")
    BY <1>4 DEF HandlerFails, HandlerFailsWhen
  <2> QED
    BY <1>1, <1>2, <1>4, <2>1 DEF Works
<1>5. CASE HandlerDrops(r)
  <2>1. CASE policy.retry
    <3>1. Turns(r, "deadLettering")
      BY <1>5, <2>1 DEF HandlerDrops
    <3> QED
      BY <1>1, <1>2, <1>5, <2>1, <3>1 DEF Works
  <2>2. CASE ~policy.retry
    <3>1. Turns(r, "discarding")
      BY <1>5, <2>2 DEF HandlerDrops
    <3> QED
      BY <1>1, <1>2, <1>5, <2>2, <3>1 DEF Works
  <2> QED
    BY <2>1, <2>2
<1> QED
  BY <1>3, <1>4, <1>5 DEF HandlerStep

LEMMA ReadsChannelWorks == ASSUME BaseInv, NEW r \in Runs, ReadsChannel(r) PROVE Works(r)
<1>1. Busy(r) /\ cons[r].d \in Copy /\ cons \in [Runs -> Goroutine]
  BY ReadsChannelEffect DEF BaseInv, TypeOK
<1>2. CASE (handle = Nil \/ chan[handle] = "closed") /\ Turns(r, "requeueing")
  <2>1. cons'[r].at = "requeueing" /\ cons'[r].d = cons[r].d /\ cons'[r].id = cons[r].id
    BY <1>1, <1>2, TurnsTo
  <2> QED
    BY <1>1, <1>2, <2>1 DEF Works
<1>3. ASSUME NEW g \in Goroutine, cons' = [cons EXCEPT ![r] = g], g.id = cons[r].id, g.d = cons[r].d,
             \/ cons[r].at = "retrying" /\ g.at = "sendingRetry"
             \/ cons[r].at = "deadLettering" /\ g.at = "sendingDLQ"
      PROVE  Works(r)
  <2>1. cons'[r] = g
    BY <1>1, <1>3
  <2> QED
    BY <1>1, <1>3, <2>1 DEF Works
<1> QED
  BY <1>2, <1>3, ReadsChannelEffect

LEMMA RepublishesWorks == ASSUME BaseInv, NEW r \in Runs, Republishes(r) PROVE Works(r)
<1>1. Busy(r) /\ cons[r].d \in Copy
  BY PublishEffect
<1>2. CASE Turns(r, "acking")
  <2>1. cons'[r].at = "acking" /\ cons'[r].d = cons[r].d /\ cons'[r].id = cons[r].id
    BY <1>1, <1>2, TurnsTo
  <2> QED
    BY <1>1, <2>1 DEF Works
<1>3. CASE (chan[cons[r].over] = "closed" \/ r \in cancelled) /\ Turns(r, "requeueing")
  <2>1. cons'[r].at = "requeueing" /\ cons'[r].d = cons[r].d /\ cons'[r].id = cons[r].id
    BY <1>1, <1>3, TurnsTo
  <2> QED
    BY <1>1, <1>3, <2>1 DEF Works
<1> QED
  BY <1>2, <1>3, PublishEffect

\* Goroutine r takes up copy c.
TakesUp(r, c) ==
    /\ Takes(r, c) /\ copies[c] \in Copy /\ copies[c].at = "delivered"
    /\ cons'[r].at = "handling" /\ cons'[r].id = c /\ cons'[r].d = copies[c]

LEMMA TakesTakesUp == ASSUME BaseInv, NEW r \in Runs, NEW c \in Ids, Takes(r, c) PROVE TakesUp(r, c)
<1> DEFINE g == [at |-> "handling", id |-> c, d |-> copies[c], over |-> Nil]
<1>1. copies[c] \in Copy /\ copies[c].at = "delivered"
  BY TakesEffect
<1>2. cons' = [cons EXCEPT ![r] = g]
  BY DEF Takes
<1>3. g.at = "handling" /\ g.id = c /\ g.d = copies[c]
  OBVIOUS
<1> HIDE DEF g
<1>4. cons'[r] = g
  BY <1>2 DEF BaseInv, TypeOK
<1> QED
  BY <1>1, <1>3, <1>4 DEF TakesUp

GoroutineStep(r) ==
    \/ cons'[r] = cons[r]
    \/ cons'[r].at \in {"none", "idle"}
    \/ \E c \in Ids : TakesUp(r, c)
    \/ Works(r)

LEMMA GoroutineSteps == ASSUME BaseInv, [Next]_vars, NEW r \in Runs PROVE GoroutineStep(r)
<1>1. cons \in [Runs -> Goroutine]
  BY DEF BaseInv, TypeOK
<1>2. ASSUME UNCHANGED cons PROVE GoroutineStep(r)
  BY <1>2 DEF GoroutineStep
<1>3. CASE \/ \E m \in Msgs : PublisherSends(m)
           \/ Cancels \/ StopTakes \/ BrokerStep
           \/ \E q \in Runs : StopCloses(q) \/ Drops(q)
           \/ UNCHANGED vars
  BY <1>2, <1>3 DEF PublisherSends, Cancels, StopTakes, BrokerStep, Delivers, Expires,
                    ExpiresTo, BrokerReads, StopCloses, Drops, vars
<1>4. CASE Installs
  <2>1. cons' = [cons EXCEPT ![run + 1] = Idle] /\ run + 1 \in Runs
    BY <1>4 DEF Installs, BaseInv, TypeOK
  <2>2. cons'[r] = cons[r] \/ cons'[r] = Idle
    BY <1>1, <2>1
  <2> QED
    BY <2>2 DEF GoroutineStep, Idle, Gone
<1>5. ASSUME NEW q \in Runs, ConsumerStep(q) PROVE GoroutineStep(r)
  <2>1. CASE q = r
    <3>1. CASE Answers(r) \/ Exits(r)
      <4>1. cons'[r] \in {Idle, Gone}
        BY <1>1, <3>1 DEF Answers, Exits
      <4> QED
        BY <4>1 DEF GoroutineStep, Idle, Gone
    <3>2. ASSUME NEW c \in Ids, Takes(r, c) PROVE TakesUp(r, c)
      BY <3>2, TakesTakesUp
    <3>3. CASE HandlerStep(r) \/ ReadsChannel(r) \/ Republishes(r)
      BY <3>3, HandlerWorks, ReadsChannelWorks, RepublishesWorks DEF GoroutineStep
    <3> QED
      BY <1>5, <2>1, <3>1, <3>2, <3>3 DEF ConsumerStep, HandlerStep, GoroutineStep
  <2>2. CASE q # r
    <3>1. cons'[r] = cons[r]
      BY <1>1, <1>5, <2>2 DEF ConsumerStep, Takes, HandlerAccepts, HandlerFails, HandlerFailsWhen,
                              HandlerDrops, ReadsChannel, Republishes, Publishes, Answers, Exits, Turns
    <3> QED
      BY <3>1 DEF GoroutineStep
  <2> QED
    BY <2>1, <2>2
<1> QED
  BY <1>3, <1>4, <1>5 DEF Next

\* The policy and the counts messages come with stay what they are, the other
\* counts only grow, and what is known of a message stays known.
Grows ==
    /\ policy' = policy /\ policy \in Policies
    /\ stamp' = stamp /\ sent \subseteq sent'
    /\ done \subseteq done' /\ dropped \subseteq dropped'
    /\ dead \subseteq dead' /\ lost \subseteq lost'
    /\ \A m \in Msgs : /\ fails[m] \in Nat /\ fails'[m] \in Nat /\ fails[m] <= fails'[m]
                       /\ stamp[m] \in Int
                       /\ RetriesLeft(m)' = RetriesLeft(m) /\ MaxFails(m)' = MaxFails(m)

\* The retries that are left reach the policy's maximum.
LEMMA Left ==
    ASSUME BaseInv, NEW m \in Msgs
    PROVE  /\ policy \in Policies /\ stamp[m] \in Int /\ MaxRetries(policy) \in Nat
           /\ RetriesLeft(m) \in Nat /\ MaxRetries(policy) <= stamp[m] + RetriesLeft(m)
           /\ stamp[m] <= MaxRetries(policy) => RetriesLeft(m) = MaxRetries(policy) - stamp[m]
           /\ MaxFails(m) = RetriesLeft(m) + 2
<1>1. policy \in Policies /\ stamp[m] \in Int
  BY PublishedCopy DEF BaseInv, TypeOK
<1>2. MaxRetries(policy) \in Nat
  BY <1>1, PolicyNumbers
<1> QED
  BY <1>1, <1>2 DEF RetriesLeft, MaxFails

LEMMA Growing == ASSUME BaseInv, [Next]_vars PROVE Grows
<1>1. BaseInv'
  BY NextBaseInv
<1>2. /\ fails \in [Msgs -> Nat] /\ fails' \in [Msgs -> Nat]
      /\ policy \in Policies
  BY <1>1 DEF BaseInv, TypeOK
<1>3. ASSUME NEW m \in Msgs
      PROVE  fails[m] \in Nat /\ fails'[m] \in Nat /\ stamp[m] \in Int /\ MaxFails(m) \in Nat
  BY <1>2, Left
<1>4. /\ UNCHANGED <<policy, stamp>> /\ sent \subseteq sent'
      /\ UNCHANGED fails \/ \E r \in Runs : HandlerFails(r)
      /\ done \subseteq done' /\ dropped \subseteq dropped'
      /\ dead \subseteq dead' /\ lost \subseteq lost'
  <2> DEFINE Goal == /\ UNCHANGED <<policy, stamp>> /\ sent \subseteq sent'
                     /\ UNCHANGED fails \/ \E r \in Runs : HandlerFails(r)
                     /\ done \subseteq done' /\ dropped \subseteq dropped'
                     /\ dead \subseteq dead' /\ lost \subseteq lost'
  <2>1. CASE \E m \in Msgs : PublisherSends(m)
    BY <2>1 DEF PublisherSends, tallyVars
  <2>2. CASE Installs \/ Cancels \/ StopTakes
    BY <2>2 DEF Installs, Cancels, StopTakes, tallyVars
  <2>3. CASE BrokerStep
    BY <2>3 DEF BrokerStep, Delivers, Expires, ExpiresTo, BrokerReads, tallyVars
  <2>4. ASSUME NEW r \in Runs, ConsumerStep(r) PROVE Goal
    <3>1. CASE (\E c \in Ids : Takes(r, c)) \/ ReadsChannel(r) \/ Republishes(r) \/ Answers(r) \/ Exits(r)
      BY <3>1 DEF Takes, ReadsChannel, Republishes, Publishes, Answers, Exits, tallyVars
    <3>2. CASE HandlerAccepts(r) \/ HandlerDrops(r)
      BY <3>2 DEF HandlerAccepts, HandlerDrops
    <3>3. CASE HandlerFails(r)
      BY <3>3 DEF HandlerFails, HandlerFailsWhen
    <3> QED
      BY <2>4, <3>1, <3>2, <3>3 DEF ConsumerStep
  <2>5. ASSUME NEW r \in Runs, StopCloses(r) \/ Drops(r) PROVE Goal
    BY <2>5 DEF StopCloses, Drops, Closes, tallyVars
  <2>6. CASE UNCHANGED vars
    BY <2>6 DEF vars, tallyVars
  <2> QED
    BY <2>1, <2>2, <2>3, <2>4, <2>5, <2>6 DEF Next
<1>5. ASSUME NEW m \in Msgs
      PROVE  RetriesLeft(m)' = RetriesLeft(m) /\ MaxFails(m)' = MaxFails(m)
  BY <1>4 DEF RetriesLeft, MaxFails
<1>6. ASSUME NEW m \in Msgs PROVE fails[m] <= fails'[m]
  <2>1. ASSUME NEW r \in Runs, HandlerFails(r) PROVE fails[m] <= fails'[m]
    <3>1. fails' = [fails EXCEPT ![cons[r].d.msg] =
              IF @ < MaxFails(cons[r].d.msg) THEN @ + 1 ELSE @]
      BY <2>1 DEF HandlerFails, HandlerFailsWhen
    <3>2. fails'[m] = fails[m] \/ fails'[m] = fails[m] + 1
      BY <1>2, <3>1
    <3> QED
      BY <1>3, <3>2
  <2> QED
    BY <1>3, <1>4, <2>1
<1> QED
  BY <1>2, <1>3, <1>4, <1>5, <1>6 DEF Grows

-----------------------------------------------------------------------------
(* Delays of retry copies.                                                 *)

\* Counts start from what a message comes with and go up to the policy's maximum,
\* and an expiration is the one of its count.
Delayed(c) ==
    /\ stamp[copies[c].msg] <= copies[c].hdr
    /\ copies[c].exp # NoExpiration => copies[c].exp = Expiration(policy, copies[c].hdr)
    /\ copies[c].at \in {"toRetry", "retry"} =>
           /\ stamp[copies[c].msg] < copies[c].hdr /\ copies[c].hdr <= MaxRetries(policy)
           /\ copies[c].exp # NoExpiration
DelayInv ==
    /\ \A c \in Ids : copies[c] \in Copy => Delayed(c)
    /\ \A r \in Runs : Busy(r) =>
           /\ stamp[cons[r].d.msg] <= cons[r].d.hdr
           /\ cons[r].at \in {"retrying", "sendingRetry"} => cons[r].d.hdr < MaxRetries(policy)

LEMMA InitDelayInv == Init => DelayInv
<1> SUFFICES ASSUME Init PROVE DelayInv
  OBVIOUS
<1>1. \A c \in Ids : copies[c] \notin Copy
  BY DEF Init, Free, Copy
<1>2. \A r \in Runs : ~Busy(r)
  BY DEF Init, Busy, Gone
<1> QED
  BY <1>1, <1>2 DEF DelayInv

LEMMA NextDelayInv == BaseInv /\ DelayInv /\ [Next]_vars => DelayInv'
<1> SUFFICES ASSUME BaseInv, DelayInv, [Next]_vars PROVE DelayInv'
  OBVIOUS
<1>1. /\ policy' = policy /\ policy \in Policies /\ MaxRetries(policy) \in Nat
      /\ stamp' = stamp /\ \A m \in Msgs : stamp[m] \in Int
  BY Growing, PolicyNumbers DEF Grows
<1>2. ASSUME NEW c \in Ids, copies'[c] \in Copy PROVE Delayed(c)'
  <2> SUFFICES /\ stamp[copies'[c].msg] <= copies'[c].hdr
               /\ copies'[c].exp # NoExpiration => copies'[c].exp = Expiration(policy, copies'[c].hdr)
               /\ copies'[c].at \in {"toRetry", "retry"} =>
                      /\ stamp[copies'[c].msg] < copies'[c].hdr
                      /\ copies'[c].hdr <= MaxRetries(policy)
                      /\ copies'[c].exp # NoExpiration
    BY <1>1 DEF Delayed
  <2>1. CASE CopyRests(c)
    <3>1. copies'[c] = copies[c] /\ copies[c] \in Copy
      BY <1>2, <2>1, CopyIsNotFree DEF CopyRests
    <3> QED
      BY <3>1 DEF DelayInv, Delayed
  <2>2. CASE CopyMoves(c)
    BY <2>2 DEF CopyMoves, DelayInv, Delayed, Same
  <2>3. CASE CopyStamped(c)
    <3>1. copies'[c].msg \in Msgs
      BY <1>2 DEF Copy
    <3> QED
      BY <1>1, <2>3, <3>1 DEF CopyStamped
  <2>4. ASSUME NEW r \in Runs, CopySent(r, c)
        PROVE  /\ stamp[copies'[c].msg] <= copies'[c].hdr
               /\ copies'[c].exp # NoExpiration => copies'[c].exp = Expiration(policy, copies'[c].hdr)
               /\ copies'[c].at \in {"toRetry", "retry"} =>
                      /\ stamp[copies'[c].msg] < copies'[c].hdr
                      /\ copies'[c].hdr <= MaxRetries(policy)
                      /\ copies'[c].exp # NoExpiration
    <3>1. /\ cons[r].d \in Copy /\ copies'[c].msg = cons[r].d.msg /\ Busy(r)
          /\ cons[r].at \in {"sendingRetry", "sendingDLQ"}
      BY <2>4 DEF CopySent, Busy
    <3>2. /\ cons[r].d.hdr \in Int /\ cons[r].d.msg \in Msgs /\ stamp[cons[r].d.msg] \in Int
          /\ stamp[cons[r].d.msg] <= cons[r].d.hdr
          /\ cons[r].at = "sendingRetry" => cons[r].d.hdr < MaxRetries(policy)
      BY <1>1, <3>1 DEF Copy, DelayInv
    <3>3. CASE cons[r].at = "sendingRetry"
      <4>1. /\ copies'[c].at = "toRetry" /\ copies'[c].hdr = cons[r].d.hdr + 1
            /\ copies'[c].exp = Expiration(policy, copies'[c].hdr)
        BY <2>4, <3>3 DEF CopySent
      <4>2. Expiration(policy, copies'[c].hdr) \in Nat
        BY <1>1, <3>2, <4>1, Expirations
      <4> QED
        BY <1>1, <3>1, <3>2, <3>3, <4>1, <4>2 DEF NoExpiration
    <3>4. CASE cons[r].at = "sendingDLQ"
      <4>1. /\ copies'[c].at = "toDLQ" /\ copies'[c].hdr = cons[r].d.hdr
            /\ copies'[c].exp = NoExpiration
        BY <2>4, <3>4 DEF CopySent
      <4> QED
        BY <3>1, <3>2, <4>1
    <3> QED
      BY <3>1, <3>3, <3>4
  <2> QED
    BY <2>1, <2>2, <2>3, <2>4, CopySteps DEF CopyStep
<1>3. ASSUME NEW r \in Runs, Busy(r)'
      PROVE  /\ stamp[cons'[r].d.msg] <= cons'[r].d.hdr
             /\ cons'[r].at \in {"retrying", "sendingRetry"} => cons'[r].d.hdr < MaxRetries(policy)
  <2>1. CASE cons'[r] = cons[r]
    BY <1>3, <2>1 DEF DelayInv, Busy
  <2>2. ASSUME NEW c \in Ids, TakesUp(r, c)
        PROVE  stamp[cons'[r].d.msg] <= cons'[r].d.hdr /\ cons'[r].at = "handling"
    BY <2>2 DEF TakesUp, DelayInv, Delayed
  <2>3. CASE Works(r)
    <3>1. /\ Busy(r) /\ cons[r].d \in Copy /\ cons'[r].d = cons[r].d
          /\ cons'[r].at \in {"retrying", "sendingRetry"} =>
                 ~(cons[r].d.hdr >= MaxRetries(policy)) \/ cons[r].at = "retrying"
      BY <2>3 DEF Works
    <3>2. cons[r].d.hdr \in Int
      BY <3>1 DEF Copy
    <3> QED
      BY <1>1, <3>1, <3>2 DEF DelayInv
  <2> QED
    BY <1>3, <2>1, <2>2, <2>3, GoroutineSteps DEF GoroutineStep, Busy
<1> QED
  BY <1>1, <1>2, <1>3 DEF DelayInv

LEMMA DelayInvImplies == BaseInv /\ DelayInv => RetryCopiesDelayed
<1> SUFFICES ASSUME BaseInv, DelayInv PROVE RetryCopiesDelayed
  OBVIOUS
<1>1. /\ policy \in Policies /\ MaxRetries(policy) \in Nat
      /\ copies \in [Ids -> Copy \cup {Free}]
  BY PolicyNumbers DEF BaseInv, TypeOK
<1>2. ASSUME NEW c \in Ids, copies[c] # Free
      PROVE  /\ copies[c].msg \in Msgs /\ stamp[copies[c].msg] \in Int /\ copies[c].hdr \in Int
             /\ Delayed(c)
  <2>1. copies[c] \in Copy
    BY <1>1, <1>2
  <2>2. copies[c].msg \in Msgs /\ copies[c].hdr \in Int
    BY <2>1 DEF Copy
  <2> QED
    BY <2>1, <2>2, PublishedCopy DEF DelayInv
<1>3. ASSUME NEW c \in Ids, copies[c].at \in {"toRetry", "retry"}
      PROVE  /\ copies[c].hdr \in (stamp[copies[c].msg] + 1)..MaxRetries(policy)
             /\ copies[c].exp \in 0..(Cap(policy) \div Tick)
             /\ Tick <= Base(policy) /\ Tick <= Cap(policy) => copies[c].exp # 0
  <2>1. copies[c] # Free
    BY <1>3 DEF Free
  <2>2. /\ stamp[copies[c].msg] < copies[c].hdr /\ copies[c].hdr <= MaxRetries(policy)
        /\ copies[c].exp = Expiration(policy, copies[c].hdr)
        /\ stamp[copies[c].msg] \in Int /\ copies[c].hdr \in Int
    BY <1>2, <1>3, <2>1 DEF Delayed
  <2>3. copies[c].hdr \in (stamp[copies[c].msg] + 1)..MaxRetries(policy)
    BY <1>1, <2>2
  <2> QED
    BY <1>1, <2>2, <2>3, Expirations
<1>4. ASSUME NEW b \in Ids, copies[b] # Free, copies[b].exp # NoExpiration,
             NEW c \in Ids, copies[c] # Free, copies[c].exp # NoExpiration,
             copies[b].hdr <= copies[c].hdr
      PROVE  copies[b].exp <= copies[c].exp
  <2>1. /\ copies[b].hdr \in Int /\ copies[c].hdr \in Int
        /\ copies[b].exp = Expiration(policy, copies[b].hdr)
        /\ copies[c].exp = Expiration(policy, copies[c].hdr)
    BY <1>2, <1>4 DEF Delayed
  <2> QED
    BY <1>1, <1>4, <2>1, Expirations
<1> QED
  BY <1>3, <1>4 DEF RetryCopiesDelayed

\* Whatever number a message comes with, negative or above the limit, and however
\* short the policy's durations are: a copy on its way to or in the retry queue
\* counts a retry the policy allows and carries an expiration, which is within
\* the cap, not 0 when the durations are a millisecond or more, and no shorter
\* than that of a copy with fewer retries.
THEOREM DelaysKept == Spec => []RetryCopiesDelayed
<1>1. Init => DelayInv
  BY InitDelayInv
<1>2. BaseInv /\ DelayInv /\ [Next]_vars => DelayInv'
  BY NextDelayInv
<1>3. BaseInv /\ DelayInv => RetryCopiesDelayed
  BY DelayInvImplies
<1> QED
  BY <1>1, <1>2, <1>3, BaseInvariant, PTL DEF Spec

-----------------------------------------------------------------------------
(* Dead-lettered messages.                                                 *)

\* h is no more than the count the message came with and the errors that were
\* counted since.
Counted(m, h) == h <= stamp[m] + fails[m] \/ MaxFails(m) <= fails[m]
Earned(m) == m \in dropped \/ stamp[m] + fails[m] > MaxRetries(policy)

\* Every count there is was earned by as many errors, and every way to the
\* dead-letter queue by a handler's wish or by enough of them.
EarnedInv ==
    /\ DeadLettersEarned
    /\ \A c \in Ids : copies[c] \in Copy =>
           /\ Counted(copies[c].msg, copies[c].hdr)
           /\ copies[c].at = "toDLQ" => Earned(copies[c].msg)
    /\ \A r \in Runs : Busy(r) =>
           /\ Counted(cons[r].d.msg, cons[r].d.hdr)
           /\ cons[r].at \in {"retrying", "sendingRetry"} => Counted(cons[r].d.msg, cons[r].d.hdr + 1)
           /\ cons[r].at \in {"deadLettering", "sendingDLQ"} => Earned(cons[r].d.msg)

LEMMA InitEarnedInv == Init => EarnedInv
<1> SUFFICES ASSUME Init PROVE EarnedInv
  OBVIOUS
<1>1. DeadLettersEarned
  BY DEF Init, DeadLettersEarned
<1>2. \A c \in Ids : copies[c] \notin Copy
  BY DEF Init, Free, Copy
<1>3. \A r \in Runs : ~Busy(r)
  BY DEF Init, Busy, Gone
<1> QED
  BY <1>1, <1>2, <1>3 DEF EarnedInv

\* What is counted stays counted, what is earned stays earned.
LEMMA StaysCounted ==
    ASSUME BaseInv, [Next]_vars, NEW m \in Msgs
    PROVE  /\ \A h \in Int : Counted(m, h) => Counted(m, h)'
           /\ Earned(m) => Earned(m)'
<1>1. /\ fails[m] \in Nat /\ fails'[m] \in Nat /\ fails[m] <= fails'[m]
      /\ stamp[m] \in Int /\ stamp' = stamp /\ MaxFails(m)' = MaxFails(m) /\ MaxFails(m) \in Nat
      /\ policy' = policy /\ MaxRetries(policy) \in Nat /\ dropped \subseteq dropped'
  BY Growing, Left DEF Grows
<1>2. ASSUME NEW h \in Int, Counted(m, h) PROVE Counted(m, h)'
  BY <1>1, <1>2 DEF Counted
<1>3. ASSUME Earned(m) PROVE Earned(m)'
  BY <1>1, <1>3 DEF Earned
<1> QED
  BY <1>2, <1>3

LEMMA FailsCount ==
    ASSUME BaseInv, [Next]_vars, NEW r \in Runs, HandlerFails(r), policy.retry,
           NEW m \in Msgs, m = cons[r].d.msg, NEW h \in Int, Counted(m, h)
    PROVE  /\ Counted(m, h + 1)'
           /\ h >= MaxRetries(policy) => Earned(m)'
<1>1. /\ fails[m] \in Nat /\ stamp[m] \in Int /\ policy' = policy /\ stamp' = stamp
      /\ MaxFails(m)' = MaxFails(m)
  BY Growing DEF Grows
<1>2. /\ MaxRetries(policy) \in Nat /\ MaxFails(m) \in Nat
      /\ MaxRetries(policy) < stamp[m] + MaxFails(m)
  BY <1>1, Left
<1>3. /\ fails' = [fails EXCEPT ![m] = IF @ < MaxFails(m) THEN @ + 1 ELSE @]
      /\ fails \in [Msgs -> Nat]
  BY DEF HandlerFails, HandlerFailsWhen, BaseInv, TypeOK
<1>4. fails'[m] = IF fails[m] < MaxFails(m) THEN fails[m] + 1 ELSE fails[m]
  BY <1>3
<1>5. h <= stamp[m] + fails[m] \/ MaxFails(m) <= fails[m]
  BY DEF Counted
<1>6. h + 1 <= stamp[m] + fails'[m] \/ MaxFails(m) <= fails'[m]
  BY <1>1, <1>2, <1>4, <1>5
<1>7. ASSUME h >= MaxRetries(policy) PROVE stamp[m] + fails'[m] > MaxRetries(policy)
  <2>1. fails'[m] \in Nat
    BY <1>1, <1>4
  <2> QED
    BY <1>1, <1>2, <1>6, <1>7, <2>1
<1> QED
  BY <1>1, <1>6, <1>7 DEF Counted, Earned

LEMMA NextEarnedInv == BaseInv /\ EarnedInv /\ [Next]_vars => EarnedInv'
<1> SUFFICES ASSUME BaseInv, EarnedInv, [Next]_vars PROVE EarnedInv'
  OBVIOUS
<1>1. policy' = policy /\ policy \in Policies /\ MaxRetries(policy) \in Nat
  BY Growing, PolicyNumbers DEF Grows
<1>2. ASSUME NEW r \in Runs, Busy(r)
      PROVE  /\ cons[r].d \in Copy /\ cons[r].d.msg \in Msgs /\ cons[r].d.hdr \in Int
             /\ Counted(cons[r].d.msg, cons[r].d.hdr)
             /\ cons[r].at \in {"retrying", "sendingRetry"} => Counted(cons[r].d.msg, cons[r].d.hdr + 1)
             /\ cons[r].at \in {"deadLettering", "sendingDLQ"} => Earned(cons[r].d.msg)
  BY <1>2 DEF BaseInv, Working, EarnedInv, Copy
<1>3. ASSUME NEW c \in Ids, copies[c] \in Copy
      PROVE  /\ copies[c].msg \in Msgs /\ copies[c].hdr \in Int
             /\ Counted(copies[c].msg, copies[c].hdr)
             /\ copies[c].at = "toDLQ" => Earned(copies[c].msg)
  BY <1>3 DEF EarnedInv, Copy
<1>4. ASSUME NEW m \in dead' PROVE Earned(m)'
  <2>1. CASE m \in dead
    <3>1. m \in Msgs /\ Earned(m)
      BY <2>1 DEF BaseInv, TypeOK, EarnedInv, DeadLettersEarned, Earned
    <3> QED
      BY <3>1, StaysCounted
  <2>2. CASE m \notin dead
    <3>1. PICK r \in Runs : BrokerReads(r)
      BY <1>4, <2>2 DEF Next, vars, PublisherSends, Installs, Cancels, StopTakes, BrokerStep, Delivers,
         Expires, ExpiresTo, StopCloses, Drops, ConsumerStep, Takes, HandlerAccepts, HandlerFails,
         HandlerFailsWhen, HandlerDrops, ReadsChannel, Republishes, Publishes, Answers, Exits
    <3>2. /\ Read(r) \in Ids /\ copies[Read(r)] \in Copy
          /\ copies[Read(r)].at = "toDLQ" /\ m = copies[Read(r)].msg
      BY <1>4, <2>2, <3>1, ReadEffect
    <3>3. m \in Msgs /\ Earned(m)
      BY <1>3, <3>2
    <3> QED
      BY <3>3, StaysCounted
  <2> QED
    BY <2>1, <2>2
<1>5. ASSUME NEW c \in Ids, copies'[c] \in Copy
      PROVE  /\ Counted(copies[c].msg, copies[c].hdr)'
             /\ copies'[c].at = "toDLQ" => Earned(copies[c].msg)'
  <2> DEFINE Goal(m, h) == Counted(m, h)' /\ (copies'[c].at = "toDLQ" => Earned(m)')
  <2>1. CASE CopyRests(c)
    <3>1. copies'[c] = copies[c] /\ copies[c] \in Copy
      BY <1>5, <2>1, CopyIsNotFree DEF CopyRests
    <3> QED
      BY <1>3, <3>1, StaysCounted
  <2>2. CASE CopyMoves(c)
    <3>1. copies[c] \in Copy /\ Same(copies'[c], copies[c]) /\ copies'[c].at # "toDLQ"
      BY <2>2 DEF CopyMoves
    <3>2. copies'[c].msg = copies[c].msg /\ copies'[c].hdr = copies[c].hdr
      BY <3>1 DEF Same
    <3>3. Counted(copies[c].msg, copies[c].hdr) /\ copies[c].msg \in Msgs /\ copies[c].hdr \in Int
      BY <1>3, <3>1
    <3> QED
      BY <3>1, <3>2, <3>3, StaysCounted
  <2>3. CASE CopyStamped(c)
    <3>1. /\ copies'[c].at = "work" /\ copies'[c].hdr = stamp[copies'[c].msg]
          /\ copies'[c].msg \in Msgs
      BY <1>5, <2>3 DEF CopyStamped, Copy
    <3>2. fails'[copies'[c].msg] \in Nat /\ stamp[copies'[c].msg] \in Int /\ stamp' = stamp
      BY <3>1, Growing DEF Grows
    <3> QED
      BY <3>1, <3>2 DEF Counted
  <2>4. ASSUME NEW r \in Runs, CopySent(r, c)
        PROVE  /\ Counted(copies[c].msg, copies[c].hdr)'
               /\ copies'[c].at = "toDLQ" => Earned(copies[c].msg)'
    <3>1. Busy(r) /\ copies'[c].msg = cons[r].d.msg
      BY <2>4 DEF CopySent, Busy
    <3>2. CASE cons[r].at = "sendingRetry" /\ copies'[c].at = "toRetry" /\ copies'[c].hdr = cons[r].d.hdr + 1
      <4>1. /\ cons[r].d.msg \in Msgs /\ cons[r].d.hdr + 1 \in Int
            /\ Counted(cons[r].d.msg, cons[r].d.hdr + 1)
        BY <1>2, <3>1, <3>2
      <4> QED
        BY <3>1, <3>2, <4>1, StaysCounted
    <3>3. CASE cons[r].at = "sendingDLQ" /\ copies'[c].at = "toDLQ" /\ copies'[c].hdr = cons[r].d.hdr
      <4>1. /\ cons[r].d.msg \in Msgs /\ cons[r].d.hdr \in Int
            /\ Counted(cons[r].d.msg, cons[r].d.hdr) /\ Earned(cons[r].d.msg)
        BY <1>2, <3>1, <3>3
      <4> QED
        BY <3>1, <3>3, <4>1, StaysCounted
    <3> QED
      BY <2>4, <3>2, <3>3 DEF CopySent
  <2> QED
    BY <2>1, <2>2, <2>3, <2>4, CopySteps DEF CopyStep
<1>6. ASSUME NEW r \in Runs, Busy(r)'
      PROVE  /\ Counted(cons[r].d.msg, cons[r].d.hdr)'
             /\ cons'[r].at \in {"retrying", "sendingRetry"} => Counted(cons[r].d.msg, cons[r].d.hdr + 1)'
             /\ cons'[r].at \in {"deadLettering", "sendingDLQ"} => Earned(cons[r].d.msg)'
  <2>1. CASE cons'[r] = cons[r]
    <3>1. Busy(r)
      BY <1>6, <2>1 DEF Busy
    <3> QED
      BY <1>2, <2>1, <3>1, StaysCounted
  <2>2. ASSUME NEW c \in Ids, TakesUp(r, c)
        PROVE  /\ Counted(cons[r].d.msg, cons[r].d.hdr)'
               /\ cons'[r].at = "handling"
    <3>1. cons'[r].at = "handling" /\ cons'[r].d = copies[c] /\ copies[c] \in Copy
      BY <2>2 DEF TakesUp
    <3> QED
      BY <1>3, <3>1, StaysCounted
  <2>3. CASE Works(r)
    <3> DEFINE m == cons[r].d.msg
               h == cons[r].d.hdr
    <3>1. Busy(r) /\ cons'[r].d = cons[r].d
      BY <2>3 DEF Works
    <3>2. /\ m \in Msgs /\ h \in Int /\ h + 1 \in Int /\ Counted(m, h)
          /\ cons[r].at \in {"retrying", "sendingRetry"} => Counted(m, h + 1)
          /\ cons[r].at \in {"deadLettering", "sendingDLQ"} => Earned(m)
      BY <1>2, <3>1
    <3>3. cons'[r].d.msg = m /\ cons'[r].d.hdr = h
      BY <3>1
    <3> HIDE DEF m, h
    <3>4. PICK n \in Msgs, i \in Int : n = m /\ i = h
      BY <3>2
    <3>5. Counted(n, i)' /\ (Counted(n, i + 1) => Counted(n, i + 1)') /\ (Earned(n) => Earned(n)')
      BY <3>2, <3>4, StaysCounted
    <3>6. ASSUME HandlerFails(r), policy.retry
          PROVE  Counted(n, i + 1)' /\ (i >= MaxRetries(policy) => Earned(n)')
      BY <3>2, <3>4, <3>6, FailsCount DEF m
    <3>7. ASSUME HandlerDrops(r) PROVE Earned(n)'
      BY <3>4, <3>7 DEF HandlerDrops, Earned, m
    <3>8. cons'[r].at \in {"retrying", "sendingRetry"} => Counted(n, i + 1)'
      BY <2>3, <3>2, <3>4, <3>5, <3>6 DEF Works
    <3>9. cons'[r].at \in {"deadLettering", "sendingDLQ"} => Earned(n)'
      BY <2>3, <3>2, <3>4, <3>5, <3>6, <3>7 DEF Works, h
    <3> QED
      BY <3>3, <3>4, <3>5, <3>8, <3>9
  <2> QED
    BY <1>6, <2>1, <2>2, <2>3, GoroutineSteps DEF GoroutineStep, Busy
<1>7. DeadLettersEarned'
  BY <1>4 DEF DeadLettersEarned, Earned
<1> QED
  BY <1>5, <1>6, <1>7 DEF EarnedInv, Busy

\* However messages are duplicated, redelivered or sent with a count of their own,
\* one that is in the dead-letter queue was sent there by a handler, or has had
\* its retries.
THEOREM DeadLettersAreEarned == Spec => []DeadLettersEarned
<1>1. Init => EarnedInv
  BY InitEarnedInv
<1>2. BaseInv /\ EarnedInv /\ [Next]_vars => EarnedInv'
  BY NextEarnedInv
<1>3. EarnedInv => DeadLettersEarned
  BY DEF EarnedInv
<1> QED
  BY <1>1, <1>2, <1>3, BaseInvariant, PTL DEF Spec

-----------------------------------------------------------------------------
(* What is kept of a message.                                              *)

\* The goroutine of the channel is about to acknowledge or discard copy c, or
\* has sent the frame that does.
Answering(c) == cons[copies[c].on].at \in {"acking", "discarding"} /\ cons[copies[c].on].id = c
AnswerSent(c) ==
    \E i \in Frames(copies[c].on) :
        /\ wire[copies[c].on][i].kind \in {"ack", "discard"}
        /\ wire[copies[c].on][i].copy = c
Answered(c) == Answering(c) \/ AnswerSent(c)

\* No frame on any wire makes an end of copy c of message m.
Safe(c, m) ==
    /\ copies[c].msg = m
    /\ \/ copies[c].at \in {"work", "delivered", "retry"}
       \/ copies[c].at = "held" /\ ~Answered(c)

\* Copy b of message m is published ahead of what is sent on the same channel to
\* answer copy c.
Ahead(b, c) ==
    \E j \in Frames(copies[b].on) :
        /\ wire[copies[b].on][j].copy = b
        /\ \A i \in Frames(copies[b].on) : wire[copies[b].on][i].copy = c => j < i

Backed(b, c, m) ==
    /\ copies[b].msg = m /\ copies[b].at \in {"toRetry", "toDLQ"}
    /\ copies[b].origin = copies[b].on
    /\ copies[c].msg = m /\ copies[c].at = "held" /\ copies[c].on = copies[b].on
    /\ Ahead(b, c)

Over(m) == Finished(m) \/ m \in lost
Alive(m) ==
    \/ Over(m) \/ Crossing(m)
    \/ \E c \in Ids : Safe(c, m)
    \/ \E b, c \in Ids : Backed(b, c, m)

KeptInv == \A m \in Msgs : Sent(m) => Alive(m)

LEMMA KeptInvImplies == KeptInv => KeptOnOneChannel
<1> SUFFICES ASSUME KeptInv, NEW m \in Msgs, Sent(m)
             PROVE  Finished(m) \/ AtBroker(m) \/ Crossing(m) \/ m \in lost
  BY DEF KeptOnOneChannel
<1>1. ASSUME NEW c \in Ids, Safe(c, m) PROVE AtBroker(m)
  BY <1>1 DEF Safe, AtBroker
<1>2. ASSUME NEW b \in Ids, NEW c \in Ids, Backed(b, c, m) PROVE AtBroker(m)
  BY <1>2 DEF Backed, AtBroker
<1> QED
  BY <1>1, <1>2 DEF KeptInv, Alive, Over

LEMMA InitKeptInv == Init => KeptInv
BY DEF Init, KeptInv, Sent

LEMMA OverStays == ASSUME BaseInv, [Next]_vars, NEW m \in Msgs, Over(m) PROVE Over(m)'
BY Growing DEF Grows, Over, Finished

\* What does not change with a copy's own channel.
LEMMA AnsweredStays ==
    ASSUME NEW c \in Ids, copies'[c] = copies[c],
           wire'[copies[c].on] = wire[copies[c].on], cons'[copies[c].on] = cons[copies[c].on]
    PROVE  Answered(c)' <=> Answered(c)
BY DEF Answered, Answering, AnswerSent, Frames

LEMMA BackedStays ==
    ASSUME NEW m \in Msgs, NEW b \in Ids, NEW c \in Ids, Backed(b, c, m),
           copies'[b] = copies[b], copies'[c] = copies[c],
           wire'[copies[b].on] = wire[copies[b].on]
    PROVE  Backed(b, c, m)'
BY DEF Backed, Ahead, Frames

LEMMA CrossingStays ==
    ASSUME NEW m \in Msgs, NEW b \in Ids, copies'[b] = copies[b],
           copies[b].at \in {"toRetry", "toDLQ"}, copies[b].msg = m,
           copies[b].origin # copies[b].on
    PROVE  Crossing(m)'
BY DEF Crossing

\* Steps that leave the copies and the wires alone: goroutines that turn, and the
\* component's runs.
LEMMA StillAlive ==
    ASSUME BaseInv, [Next]_vars, NEW m \in Msgs, Alive(m), UNCHANGED <<copies, wire>>,
           \A c \in Ids : copies[c].at = "held" /\ copies[c].msg = m /\ Answering(c)' =>
                              Answering(c) \/ Over(m)'
    PROVE  Alive(m)'
<1>1. CASE Over(m)
  BY <1>1, OverStays DEF Alive
<1>2. CASE Crossing(m)
  BY <1>2 DEF Crossing, Alive
<1>3. ASSUME NEW c \in Ids, Safe(c, m) PROVE Alive(m)'
  <2>1. CASE copies[c].at = "held"
    <3>1. AnswerSent(c)' <=> AnswerSent(c)
      BY DEF AnswerSent, Frames
    <3>2. ~Answered(c)' \/ Over(m)'
      BY <1>3, <2>1, <3>1 DEF Safe, Answered
    <3> QED
      BY <1>3, <2>1, <3>2 DEF Safe, Alive
  <2>2. CASE copies[c].at # "held"
    BY <1>3, <2>2 DEF Safe, Alive
  <2> QED
    BY <2>1, <2>2
<1>4. ASSUME NEW b \in Ids, NEW c \in Ids, Backed(b, c, m) PROVE Alive(m)'
  BY <1>4, BackedStays DEF Alive
<1> QED
  BY <1>1, <1>2, <1>3, <1>4 DEF Alive

\* A copy is delivered, or its time in the retry queue is over.
LEMMA BrokerEffect ==
    ASSUME BaseInv, NEW x \in Ids, Delivers(x) \/ Expires(x)
    PROVE  /\ UNCHANGED <<wire, cons>> /\ copies[x] \in Copy
           /\ copies[x].at \in {"work", "retry"} /\ copies'[x].at \in {"work", "delivered"}
           /\ copies'[x].msg = copies[x].msg /\ copies'[x].hdr = copies[x].hdr
           /\ \A c \in Ids \ {x} : copies'[c] = copies[c]
<1>1. copies \in [Ids -> Copy \cup {Free}] /\ UNCHANGED <<wire, cons>>
  BY DEF BaseInv, TypeOK, Delivers, Expires, ExpiresTo
<1>2. copies[x].at \in {"work", "retry"}
  BY DEF Delivers, Expires, ExpiresTo
<1>3. copies[x] \in Copy
  <2>1. copies[x] \in Copy \cup {Free} /\ copies[x].at # "free"
    BY <1>1, <1>2
  <2> QED
    BY <2>1, CopyIsNotFree
<1>4. CASE Delivers(x)
  <2>1. PICK q \in Runs : copies' = [copies EXCEPT ![x].at = "delivered", ![x].on = q]
    BY <1>4 DEF Delivers
  <2>2. copies' = [copies EXCEPT ![x] = Moved(copies[x], q, "delivered")]
    BY <1>1, <2>1 DEF Moved
  <2>3. Moved(copies[x], q, "delivered").at = "delivered" /\ Same(Moved(copies[x], q, "delivered"), copies[x])
    BY <1>3, DeliveredCopy
  <2>4. copies'[x] = Moved(copies[x], q, "delivered") /\ \A c \in Ids \ {x} : copies'[c] = copies[c]
    BY <1>1, <2>2
  <2> QED
    BY <1>1, <1>2, <1>3, <2>3, <2>4 DEF Same
<1>5. CASE Expires(x)
  <2> DEFINE k == [copies[x] EXCEPT !.at = "work"]
  <2>1. copies' = [copies EXCEPT ![x] = k]
    BY <1>5 DEF Expires, ExpiresTo
  <2>2. k.at = "work" /\ Same(k, copies[x])
    BY <1>3, ExpiredCopy
  <2> HIDE DEF k
  <2>3. copies'[x] = k /\ \A c \in Ids \ {x} : copies'[c] = copies[c]
    BY <1>1, <2>1
  <2> QED
    BY <1>1, <1>2, <1>3, <2>2, <2>3 DEF Same
<1> QED
  BY <1>4, <1>5

\* Steps of the broker and the publisher that bring one copy to the work queue or
\* from there.
LEMMA OneCopyAlive ==
    ASSUME BaseInv, [Next]_vars, NEW x \in Ids, UNCHANGED <<wire, cons>>,
           \A c \in Ids \ {x} : copies'[c] = copies[c],
           copies[x].at \in {"free", "work", "retry"}, copies'[x].at \in {"work", "delivered"},
           copies[x].at # "free" => copies'[x].msg = copies[x].msg,
           NEW m \in Msgs, Alive(m)
    PROVE  Alive(m)'
<1>1. CASE Over(m)
  BY <1>1, OverStays DEF Alive
<1>2. CASE Crossing(m)
  <2>1. PICK b \in Ids : /\ copies[b].at \in {"toRetry", "toDLQ"}
                         /\ copies[b].msg = m /\ copies[b].origin # copies[b].on
    BY <1>2 DEF Crossing
  <2> QED
    BY <2>1, CrossingStays DEF Alive
<1>3. ASSUME NEW c \in Ids, Safe(c, m) PROVE Alive(m)'
  <2>1. CASE c = x
    BY <1>3, <2>1 DEF Safe, Alive
  <2>2. CASE c # x
    <3>1. Safe(c, m)'
      BY <1>3, <2>2, AnsweredStays DEF Safe
    <3> QED
      BY <3>1 DEF Alive
  <2> QED
    BY <2>1, <2>2
<1>4. ASSUME NEW b \in Ids, NEW c \in Ids, Backed(b, c, m) PROVE Alive(m)'
  <2>1. b # x /\ c # x
    BY <1>4 DEF Backed
  <2> QED
    BY <1>4, <2>1, BackedStays DEF Alive
<1> QED
  BY <1>1, <1>2, <1>3, <1>4 DEF Alive

LEMMA ReadsAlive ==
    ASSUME BaseInv, [Next]_vars, NEW r \in Runs, BrokerReads(r), NEW m \in Msgs, Alive(m)
    PROVE  Alive(m)'
<1> DEFINE x == Read(r)
<1>1. /\ wire \in [Runs -> Seq(Frame)] /\ wire[r] # <<>> /\ wire' = [wire EXCEPT ![r] = Tail(@)]
      /\ UNCHANGED <<policy, cons, tallyVars, lost>>
  BY DEF BaseInv, TypeOK, BrokerReads
<1>2. /\ \A q \in Runs \ {r} : wire'[q] = wire[q]
      /\ \A i \in Frames(r)' : i + 1 \in Frames(r) /\ wire'[r][i] = wire[r][i + 1]
      /\ \A i \in Frames(r) \ {1} : i - 1 \in Frames(r)' /\ wire'[r][i - 1] = wire[r][i]
  BY <1>1, TailFrames
<1>3. /\ 1 \in Frames(r) /\ x \in Ids /\ copies[x] \in Copy /\ copies[x].on = r
      /\ wire[r][1].copy = x
      /\ \A c \in Ids \ {x} : copies'[c] = copies[c]
  BY ReadEffect DEF Read
<1>4. ASSUME copies[x].at \in {"toRetry", "toDLQ"}, copies[x].msg = m PROVE Alive(m)'
  <2>1. CASE copies'[x] = Moved(copies[x], Nil, "retry")
    <3>1. copies'[x].msg = m /\ copies'[x].at = "retry"
      BY <1>3, <1>4, <2>1, HomeCopy DEF Same
    <3> QED
      BY <1>3, <3>1 DEF Alive, Safe
  <2>2. CASE dead' = dead \cup {copies[x].msg}
    BY <1>4, <2>2 DEF Alive, Over, Finished
  <2> QED
    BY <1>4, <2>1, <2>2, ReadEffect
<1>5. ASSUME copies[x].at = "held", copies[x].msg = m, ~AnswerSent(x) PROVE Alive(m)'
  <2>1. wire[r][1].kind \notin {"ack", "discard"}
    BY <1>3, <1>5 DEF AnswerSent
  <2>2. copies'[x] = Moved(copies[x], Nil, "work")
    BY <1>5, <2>1, ReadEffect
  <2>3. copies'[x].msg = m /\ copies'[x].at = "work"
    BY <1>3, <1>5, <2>2, HomeCopy DEF Same
  <2> QED
    BY <1>3, <2>3 DEF Alive, Safe
<1> HIDE DEF x
<1>6. ASSUME NEW c \in Ids \ {x}, copies[c].at = "held", AnswerSent(c)' PROVE AnswerSent(c)
  <2>1. copies'[c] = copies[c] /\ copies[c].on \in Runs
    BY <1>3, <1>6 DEF BaseInv, Placed
  <2>2. PICK i \in 1..Len(wire'[copies[c].on]) : /\ wire'[copies[c].on][i].kind \in {"ack", "discard"}
                                                 /\ wire'[copies[c].on][i].copy = c
    BY <1>6, <2>1 DEF AnswerSent, Frames
  <2>3. CASE copies[c].on = r
    <3>1. i + 1 \in Frames(r) /\ wire'[r][i] = wire[r][i + 1]
      BY <1>2, <2>2, <2>3 DEF Frames
    <3> QED
      BY <2>2, <2>3, <3>1 DEF AnswerSent
  <2>4. CASE copies[c].on # r
    BY <1>2, <2>1, <2>2, <2>4 DEF AnswerSent, Frames
  <2> QED
    BY <2>3, <2>4
<1>7. CASE Over(m)
  BY <1>7, OverStays DEF Alive
<1>8. CASE Crossing(m)
  <2>1. PICK b \in Ids : /\ copies[b].at \in {"toRetry", "toDLQ"}
                         /\ copies[b].msg = m /\ copies[b].origin # copies[b].on
    BY <1>8 DEF Crossing
  <2>2. CASE b = x
    BY <1>4, <2>1, <2>2
  <2>3. CASE b # x
    BY <1>3, <2>1, <2>3, CrossingStays DEF Alive
  <2> QED
    BY <2>2, <2>3
<1>9. ASSUME NEW c \in Ids, Safe(c, m) PROVE Alive(m)'
  <2>1. CASE c = x
    <3>1. copies[x].at \in {"toRetry", "toDLQ", "held"}
      BY ReadEffect DEF x
    <3> QED
      BY <1>5, <1>9, <2>1, <3>1 DEF Safe, Answered
  <2>2. CASE c # x
    <3>1. copies'[c] = copies[c] /\ (copies[c].at = "held" => ~Answered(c)')
      BY <1>1, <1>3, <1>6, <1>9, <2>2 DEF Safe, Answered, Answering
    <3>2. Safe(c, m)'
      BY <1>9, <3>1 DEF Safe
    <3> QED
      BY <3>2 DEF Alive
  <2> QED
    BY <2>1, <2>2
<1>10. ASSUME NEW b \in Ids, NEW c \in Ids, Backed(b, c, m) PROVE Alive(m)'
  <2>1. CASE b = x
    BY <1>4, <1>10, <2>1 DEF Backed
  <2>2. CASE b # x
    <3>1. copies[b].on \in Runs /\ copies[c].on = copies[b].on
      BY <1>10 DEF Backed, BaseInv, Placed
    <3>2. PICK j \in Frames(copies[b].on) :
              /\ wire[copies[b].on][j].copy = b
              /\ \A i \in Frames(copies[b].on) : wire[copies[b].on][i].copy = c => j < i
      BY <1>10 DEF Backed, Ahead
    <3>3. c # x
      <4> SUFFICES ASSUME c = x PROVE FALSE
        OBVIOUS
      <4>1. copies[b].on = r /\ wire[copies[b].on][1].copy = c /\ 1 \in Frames(copies[b].on)
        BY <1>3, <3>1
      <4>2. j < 1
        BY <3>2, <4>1
      <4> QED
        BY <3>2, <4>2 DEF Frames
    <3>4. copies'[b] = copies[b] /\ copies'[c] = copies[c]
      BY <1>3, <2>2, <3>3
    <3>5. CASE copies[b].on # r
      BY <1>2, <1>10, <3>1, <3>4, <3>5, BackedStays DEF Alive
    <3>6. CASE copies[b].on = r
      <4>1. j \in Frames(r) \ {1}
        BY <1>3, <2>2, <3>2, <3>6
      <4>2. j - 1 \in Frames(r)' /\ wire'[r][j - 1].copy = b
        BY <1>2, <3>2, <3>6, <4>1
      <4>3. ASSUME NEW i \in Frames(r)', wire'[r][i].copy = c PROVE j - 1 < i
        <5>1. i + 1 \in Frames(r) /\ wire[r][i + 1].copy = c
          BY <1>2, <4>3
        <5>2. j < i + 1
          BY <3>2, <3>6, <5>1
        <5> QED
          BY <4>1, <5>2 DEF Frames
      <4>4. Ahead(b, c)'
        BY <3>4, <3>6, <4>2, <4>3 DEF Ahead, Frames
      <4> QED
        BY <1>10, <3>4, <4>4 DEF Backed, Alive
    <3> QED
      BY <3>5, <3>6
  <2> QED
    BY <2>1, <2>2
<1> QED
  BY <1>7, <1>8, <1>9, <1>10 DEF Alive

LEMMA ClosesAlive ==
    ASSUME BaseInv, [Next]_vars, NEW r \in Runs, Closes(r), UNCHANGED cons, NEW m \in Msgs, Alive(m)
    PROVE  Alive(m)'
<1>1. \A q \in Runs \ {r} : wire'[q] = wire[q]
  BY DEF BaseInv, TypeOK, Closes
<1>2. ASSUME NEW c \in Ids, copies[c].at \in {"delivered", "held"}, copies[c].on = r, copies[c].msg = m
      PROVE  Alive(m)'
  <2>1. copies'[c] = Moved(copies[c], Nil, "work") /\ copies[c] \in Copy
    BY <1>2, CloseEffect, CopyIsNotFree DEF BaseInv, TypeOK
  <2>2. copies'[c].msg = m /\ copies'[c].at = "work"
    BY <1>2, <2>1, HomeCopy DEF Same
  <2> QED
    BY <2>2 DEF Alive, Safe
<1>3. CASE Over(m)
  BY <1>3, OverStays DEF Alive
<1>4. CASE Crossing(m)
  <2>1. PICK b \in Ids : /\ copies[b].at \in {"toRetry", "toDLQ"}
                         /\ copies[b].msg = m /\ copies[b].origin # copies[b].on
    BY <1>4 DEF Crossing
  <2>2. CASE copies[b].on = r
    <3>1. m \in lost'
      BY <2>1, <2>2 DEF Closes
    <3> QED
      BY <3>1 DEF Over, Alive
  <2>3. CASE copies[b].on # r
    <3>1. copies'[b] = copies[b]
      BY <2>3, CloseEffect
    <3> QED
      BY <2>1, <3>1, CrossingStays DEF Alive
  <2> QED
    BY <2>2, <2>3
<1>5. ASSUME NEW c \in Ids, Safe(c, m) PROVE Alive(m)'
  <2>1. CASE copies[c].at \in {"delivered", "held"} /\ copies[c].on = r
    BY <1>2, <1>5, <2>1 DEF Safe
  <2>2. CASE ~(copies[c].at \in {"delivered", "held"} /\ copies[c].on = r)
    <3>1. copies'[c] = copies[c]
      BY <1>5, <2>2, CloseEffect DEF Safe
    <3>2. copies[c].at = "held" => (Answered(c)' <=> Answered(c))
      <4> SUFFICES ASSUME copies[c].at = "held" PROVE Answered(c)' <=> Answered(c)
        OBVIOUS
      <4>1. copies[c].on \in Runs \ {r}
        BY <2>2 DEF BaseInv, Placed
      <4> QED
        BY <1>1, <3>1, <4>1, AnsweredStays
    <3>3. Safe(c, m)'
      BY <1>5, <3>1, <3>2 DEF Safe
    <3> QED
      BY <3>3 DEF Alive
  <2> QED
    BY <2>1, <2>2
<1>6. ASSUME NEW b \in Ids, NEW c \in Ids, Backed(b, c, m) PROVE Alive(m)'
  <2>1. /\ copies[b].on \in Runs /\ copies[c].on = copies[b].on
        /\ copies[c].at = "held" /\ copies[c].msg = m
    BY <1>6 DEF Backed, BaseInv, Placed
  <2>2. CASE copies[b].on = r
    BY <1>2, <2>1, <2>2
  <2>3. CASE copies[b].on # r
    <3>1. copies'[b] = copies[b] /\ copies'[c] = copies[c]
      BY <2>1, <2>3, CloseEffect
    <3> QED
      BY <1>1, <1>6, <2>1, <2>3, <3>1, BackedStays DEF Alive
  <2> QED
    BY <2>2, <2>3
<1> QED
  BY <1>3, <1>4, <1>5, <1>6 DEF Alive

LEMMA TakesAlive ==
    ASSUME BaseInv, [Next]_vars, NEW r \in Runs, NEW x \in Ids, Takes(r, x), NEW m \in Msgs, Alive(m)
    PROVE  Alive(m)'
<1> DEFINE k == [copies[x] EXCEPT !.at = "held"]
<1>1. /\ copies[x] \in Copy /\ copies[x].at = "delivered" /\ copies[x].on = r
      /\ copies' = [copies EXCEPT ![x] = k]
      /\ UNCHANGED wire
  BY TakesEffect
<1>2. k.at = "held" /\ k.on = r /\ k.msg = copies[x].msg
  BY <1>1 DEF Copy
<1>3. /\ cons'[r].at = "handling"
      /\ \A q \in Runs \ {r} : cons'[q] = cons[q]
  <2>1. cons'[r].at = "handling"
    BY TakesTakesUp DEF TakesUp
  <2> QED
    BY <2>1 DEF Takes, BaseInv, TypeOK
<1> HIDE DEF k
<1>4. copies'[x] = k /\ \A c \in Ids \ {x} : copies'[c] = copies[c]
  BY <1>1 DEF BaseInv, TypeOK
<1>5. CASE Over(m)
  BY <1>5, OverStays DEF Alive
<1>6. CASE Crossing(m)
  <2>1. PICK b \in Ids : /\ copies[b].at \in {"toRetry", "toDLQ"}
                         /\ copies[b].msg = m /\ copies[b].origin # copies[b].on
    BY <1>6 DEF Crossing
  <2> QED
    BY <1>1, <1>4, <2>1, CrossingStays DEF Alive
<1>7. ASSUME NEW c \in Ids, Safe(c, m) PROVE Alive(m)'
  <2>1. CASE c = x
    <3>1. ~Answering(x)'
      BY <1>2, <1>3, <1>4 DEF Answering
    <3>2. ~AnswerSent(x)'
      <4>1. \A i \in Frames(r) : wire[r][i].copy # x
        BY <1>1 DEF BaseInv, Framed
      <4> QED
        BY <1>1, <1>2, <1>4, <4>1 DEF AnswerSent, Frames
    <3>3. Safe(x, m)'
      BY <1>2, <1>4, <1>7, <2>1, <3>1, <3>2 DEF Safe, Answered
    <3> QED
      BY <3>3 DEF Alive
  <2>2. CASE c # x
    <3>1. copies'[c] = copies[c]
      BY <1>4, <2>2
    <3>2. copies[c].at = "held" => ~Answered(c)'
      <4> SUFFICES ASSUME copies[c].at = "held" PROVE ~Answered(c)'
        OBVIOUS
      <4>1. copies[c].on \in Runs /\ ~Answered(c)
        BY <1>7 DEF BaseInv, Placed, Safe
      <4>2. ~AnswerSent(c)'
        BY <1>1, <3>1, <4>1 DEF Answered, AnswerSent, Frames
      <4>3. ~Answering(c)'
        BY <1>3, <3>1, <4>1 DEF Answered, Answering
      <4> QED
        BY <4>2, <4>3 DEF Answered
    <3>3. Safe(c, m)'
      BY <1>7, <3>1, <3>2 DEF Safe
    <3> QED
      BY <3>3 DEF Alive
  <2> QED
    BY <2>1, <2>2
<1>8. ASSUME NEW b \in Ids, NEW c \in Ids, Backed(b, c, m) PROVE Alive(m)'
  <2>1. b # x /\ c # x
    BY <1>1, <1>8 DEF Backed
  <2> QED
    BY <1>1, <1>4, <1>8, <2>1, BackedStays DEF Alive
<1> QED
  BY <1>5, <1>6, <1>7, <1>8 DEF Alive

\* A goroutine only makes an end of a copy that is over, or backed.
LEMMA AnsweringGrows ==
    ASSUME BaseInv, [Next]_vars, UNCHANGED copies, NEW m \in Msgs, NEW c \in Ids,
           copies[c].at = "held", copies[c].msg = m, Answering(c)'
    PROVE  Answering(c) \/ Over(m)'
<1> DEFINE q == copies[c].on
<1>1. q \in Runs /\ chan[q] = "open"
  BY DEF BaseInv, Placed
<1>2. cons'[q].at \in {"acking", "discarding"} /\ cons'[q].id = c
  BY DEF Answering
<1> HIDE DEF q
<1>3. CASE cons'[q] = cons[q]
  BY <1>2, <1>3 DEF Answering, q
<1>4. CASE Works(q)
  <2>1. /\ cons[q].id = c /\ cons[q].d \in Copy
        /\ copies[c] = [cons[q].d EXCEPT !.at = "held"]
    BY <1>1, <1>2, <1>4 DEF Works, BaseInv, Working
  <2>2. cons[q].d.msg = m
    BY <2>1 DEF Copy
  <2>3. CASE HandlerAccepts(q)
    BY <2>2, <2>3 DEF HandlerAccepts, Over, Finished
  <2>4. CASE HandlerDrops(q) /\ ~policy.retry
    BY <2>2, <2>4 DEF HandlerDrops, Over, Finished
  <2>5. CASE Republishes(q)
    <3>1. CASE Turns(q, "requeueing")
      <4>1. cons'[q].at = "requeueing"
        BY <1>1, <3>1 DEF Turns, BaseInv, TypeOK, Goroutine
      <4> QED
        BY <1>2, <4>1
    <3>2. ASSUME FreshId \in Ids, copies[FreshId] = Free, NEW k \in Copy,
                 copies' = [copies EXCEPT ![FreshId] = k]
          PROVE  FALSE
      <4>1. copies'[FreshId] = k /\ k # Free
        BY <3>2, CopyIsNotFree DEF BaseInv, TypeOK
      <4> QED
        BY <3>2, <4>1
    <3> QED
      BY <1>1, <2>5, <3>1, <3>2, PublishEffect
  <2> QED
    BY <1>2, <1>4, <2>3, <2>4, <2>5 DEF Works
<1> QED
  BY <1>1, <1>2, <1>3, <1>4, GoroutineSteps DEF GoroutineStep, TakesUp

LEMMA QuietAlive ==
    ASSUME BaseInv, [Next]_vars, UNCHANGED <<copies, wire>>, NEW m \in Msgs, Alive(m)
    PROVE  Alive(m)'
BY AnsweringGrows, StillAlive

\* Frame f comes last on channel r, at place n.
Lasts(r, f, n) ==
    /\ \A q \in Runs \ {r} : wire'[q] = wire[q]
    /\ \A i \in Frames(r) : i \in Frames(r)' /\ i < n /\ wire'[r][i] = wire[r][i]
    /\ n \in Frames(r)' /\ wire'[r][n] = f
    /\ \A i \in Frames(r)' : i \in Frames(r) \/ i = n

LEMMA SendsLast == ASSUME NEW r \in Runs, NEW f, Sends(r, f) PROVE \E n : Lasts(r, f, n)
<1> DEFINE n == Len(wire[r]) + 1
<1>1. \A i \in Frames(r) : i < n
  BY DEF Sends, Frames
<1>2. /\ \A q \in Runs \ {r} : wire'[q] = wire[q]
      /\ \A i \in Frames(r) : i \in Frames(r)' /\ wire'[r][i] = wire[r][i]
      /\ n \in Frames(r)' /\ wire'[r][n] = f
      /\ \A i \in Frames(r)' : i \in Frames(r) \/ i = n
  BY DEF Sends
<1>3. Lasts(r, f, n)
  BY <1>1, <1>2 DEF Lasts
<1> QED
  BY <1>3

LEMMA PublishAlive ==
    ASSUME BaseInv, [Next]_vars, NEW r \in Runs, Busy(r), Turns(r, "acking"),
           NEW o \in Runs, chan[o] = "open", NEW x \in Ids, copies[x] = Free,
           wire' = [wire EXCEPT ![o] = Append(@, [kind |-> "publish", copy |-> x])],
           NEW k \in Copy, copies' = [copies EXCEPT ![x] = k],
           k.msg = cons[r].d.msg, k.origin = r, k.on = o, k.at \in {"toRetry", "toDLQ"},
           NEW m \in Msgs, Alive(m)
    PROVE  Alive(m)'
<1>1. copies'[x] = k /\ \A c \in Ids \ {x} : copies'[c] = copies[c]
  BY DEF BaseInv, TypeOK
<1>2. /\ cons'[r].at = "acking" /\ cons'[r].id = cons[r].id
      /\ \A q \in Runs \ {r} : cons'[q] = cons[q]
  BY TurnsTo
<1>3. copies[x].at = "free"
  BY DEF Free
<1>4. PICK f : f \in Frame /\ f.kind = "publish" /\ f.copy = x /\ Sends(o, f)
  <2> DEFINE g == [kind |-> "publish", copy |-> x]
  <2>1. g \in Frame /\ g.kind = "publish" /\ g.copy = x /\ wire' = [wire EXCEPT ![o] = Append(@, g)]
    BY DEF Frame
  <2> HIDE DEF g
  <2>2. Sends(o, g)
    BY <2>1, AppendFrames DEF BaseInv, TypeOK
  <2> QED
    BY <2>1, <2>2
<1> PICK last : Lasts(o, f, last)
  BY <1>4, SendsLast
<1>5. /\ \A q \in Runs \ {o} : wire'[q] = wire[q]
      /\ \A i \in Frames(o) : i \in Frames(o)' /\ i < last /\ wire'[o][i] = wire[o][i]
      /\ last \in Frames(o)' /\ wire'[o][last] = f
      /\ \A i \in Frames(o)' : i \in Frames(o) \/ i = last
  BY DEF Lasts
<1>6. CASE Over(m)
  BY <1>6, OverStays DEF Alive
<1>7. CASE cons[r].d.msg = m
  <2>1. CASE o # r
    BY <1>1, <1>7, <2>1 DEF Alive, Crossing
  <2>2. CASE o = r
    <3>1. PICK c \in Ids : /\ cons[r].d \in Copy /\ cons[r].d.on = r
                           /\ copies[c] = [cons[r].d EXCEPT !.at = "held"]
                           /\ \A i \in Frames(r) : wire[r][i].copy # c
      BY <2>2 DEF BaseInv, Working
    <3>2. copies[c].at = "held" /\ copies[c].on = r /\ copies[c].msg = m
      BY <1>7, <3>1 DEF Copy
    <3>3. c # x
      BY <1>3, <3>2
    <3>4. copies'[c] = copies[c] /\ copies'[x].on = r
      <4>1. copies'[c] = copies[c]
        BY <1>1, <3>3
      <4>2. copies'[x].on = r
        BY <1>1, <2>2
      <4> QED
        BY <4>1, <4>2
    <3>5. ASSUME NEW i \in Frames(r)' PROVE wire'[r][i].copy # c
      <4>1. CASE i = last
        BY <1>4, <1>5, <2>2, <3>3, <4>1
      <4>2. CASE i \in Frames(r)
        <5>1. wire'[r][i] = wire[r][i]
          BY <1>5, <2>2, <4>2
        <5> QED
          BY <3>1, <4>2, <5>1
      <4> QED
        BY <1>5, <2>2, <4>1, <4>2
    <3>6. last \in Frames(r)' /\ wire'[r][last].copy = x
      BY <1>4, <1>5, <2>2
    <3>7. Ahead(x, c)'
      BY <3>4, <3>5, <3>6 DEF Ahead, Frames
    <3>8. Backed(x, c, m)'
      BY <1>1, <1>7, <2>2, <3>2, <3>4, <3>7 DEF Backed
    <3> QED
      BY <3>1, <3>8 DEF Alive
  <2> QED
    BY <2>1, <2>2
<1>8. CASE Crossing(m)
  <2>1. PICK b \in Ids : /\ copies[b].at \in {"toRetry", "toDLQ"}
                         /\ copies[b].msg = m /\ copies[b].origin # copies[b].on
    BY <1>8 DEF Crossing
  <2>2. copies'[b] = copies[b]
    BY <1>1, <1>3, <2>1
  <2> QED
    BY <2>1, <2>2, CrossingStays DEF Alive
<1>9. ASSUME cons[r].d.msg # m, NEW c \in Ids, Safe(c, m) PROVE Alive(m)'
  <2>1. copies'[c] = copies[c]
    BY <1>1, <1>3, <1>9 DEF Safe
  <2>2. ASSUME copies[c].at = "held" PROVE ~Answered(c)'
    <3>1. PICK q \in Runs : copies[c].on = q /\ chan[q] = "open" /\ ~Answering(c) /\ ~AnswerSent(c)
      BY <1>9, <2>2 DEF BaseInv, Placed, Safe, Answered
    <3>2. ASSUME Answering(c)' PROVE FALSE
      <4>1. cons'[q].at \in {"acking", "discarding"} /\ cons'[q].id = c
        BY <2>1, <3>1, <3>2 DEF Answering
      <4>2. q = r
        BY <1>2, <3>1, <4>1 DEF Answering
      <4>3. cons[r].d \in Copy /\ copies[c] = [cons[r].d EXCEPT !.at = "held"]
        BY <1>2, <3>1, <4>1, <4>2 DEF BaseInv, Working
      <4>4. copies[c].msg = cons[r].d.msg
        BY <4>3 DEF Copy
      <4> QED
        BY <1>9, <4>4 DEF Safe
    <3>3. ASSUME AnswerSent(c)' PROVE FALSE
      <4>1. PICK i \in 1..Len(wire'[q]) : /\ wire'[q][i].kind \in {"ack", "discard"}
                                          /\ wire'[q][i].copy = c
        BY <2>1, <3>1, <3>3 DEF AnswerSent, Frames
      <4>2. ~(q = o /\ i = last)
        BY <1>4, <1>5, <4>1
      <4>3. i \in Frames(q) /\ wire'[q][i] = wire[q][i]
        BY <1>5, <3>1, <4>1, <4>2 DEF Frames
      <4> QED
        BY <3>1, <4>1, <4>3 DEF AnswerSent
    <3> QED
      BY <3>2, <3>3 DEF Answered
  <2>3. Safe(c, m)'
    BY <1>9, <2>1, <2>2 DEF Safe
  <2> QED
    BY <2>3 DEF Alive
<1>10. ASSUME NEW b \in Ids, NEW c \in Ids, Backed(b, c, m) PROVE Alive(m)'
  <2>1. b # x /\ c # x
    BY <1>3, <1>10 DEF Backed
  <2>2. copies'[b] = copies[b] /\ copies'[c] = copies[c] /\ copies[b].on \in Runs
    BY <1>1, <1>10, <2>1 DEF Backed, BaseInv, Placed
  <2>3. CASE copies[b].on # o
    BY <1>5, <1>10, <2>2, <2>3, BackedStays DEF Alive
  <2>4. CASE copies[b].on = o
    <3>1. PICK j \in Frames(o) : /\ wire[o][j].copy = b
                                 /\ \A i \in Frames(o) : wire[o][i].copy = c => j < i
      BY <1>10, <2>4 DEF Backed, Ahead
    <3>2. j \in Frames(o)' /\ wire'[o][j].copy = b
      BY <1>5, <3>1
    <3>3. ASSUME NEW i \in Frames(o)', wire'[o][i].copy = c PROVE j < i
      <4>1. i # last
        BY <1>4, <1>5, <2>1, <3>3
      <4>2. i \in Frames(o) /\ wire[o][i].copy = c
        BY <1>5, <3>3, <4>1
      <4> QED
        BY <3>1, <4>2
    <3>4. copies'[b].on = o /\ wire'[o][j].copy = b
      BY <2>2, <2>4, <3>2
    <3>5. Ahead(b, c)'
      BY <3>2, <3>3, <3>4 DEF Ahead, Frames
    <3>6. Backed(b, c, m)'
      BY <1>10, <2>2, <3>5 DEF Backed
    <3> QED
      BY <3>6 DEF Alive
  <2> QED
    BY <2>3, <2>4
<1> QED
  BY <1>6, <1>7, <1>8, <1>9, <1>10 DEF Alive

LEMMA RepublishesAlive ==
    ASSUME BaseInv, [Next]_vars, NEW r \in Runs, Republishes(r), NEW m \in Msgs, Alive(m)
    PROVE  Alive(m)'
<1>1. CASE UNCHANGED <<copies, wire>>
  BY <1>1, QuietAlive
<1>2. /\ Busy(r) /\ cons[r].over \in Runs
      /\ \/ UNCHANGED <<copies, wire>>
         \/ /\ chan[cons[r].over] = "open" /\ Turns(r, "acking")
            /\ FreshId \in Ids /\ copies[FreshId] = Free
            /\ wire' = [wire EXCEPT ![cons[r].over] = Append(@, [kind |-> "publish", copy |-> FreshId])]
            /\ \E k \in Copy :
                   /\ copies' = [copies EXCEPT ![FreshId] = k]
                   /\ k.msg = cons[r].d.msg /\ k.origin = r /\ k.on = cons[r].over
                   /\ k.at \in {"toRetry", "toDLQ"}
  BY PublishEffect
<1>3. CASE ~UNCHANGED <<copies, wire>>
  <2>1. PICK o \in Runs, x \in Ids, k \in Copy :
            /\ chan[o] = "open" /\ Turns(r, "acking") /\ copies[x] = Free
            /\ wire' = [wire EXCEPT ![o] = Append(@, [kind |-> "publish", copy |-> x])]
            /\ copies' = [copies EXCEPT ![x] = k]
            /\ k.msg = cons[r].d.msg /\ k.origin = r /\ k.on = o /\ k.at \in {"toRetry", "toDLQ"}
    BY <1>2, <1>3
  <2> QED
    BY <1>2, <2>1, PublishAlive
<1> QED
  BY <1>1, <1>3

LEMMA AnswersAlive ==
    ASSUME BaseInv, [Next]_vars, NEW r \in Runs, Answers(r), NEW m \in Msgs, Alive(m)
    PROVE  Alive(m)'
<1>1. /\ Busy(r) /\ UNCHANGED copies
      /\ cons'[r].at = "idle" /\ \A q \in Runs \ {r} : cons'[q] = cons[q]
  <2>1. Busy(r) /\ UNCHANGED copies /\ cons' = [cons EXCEPT ![r] = Idle] /\ Idle.at = "idle"
    BY AnswerEffect
  <2> QED
    BY <2>1 DEF BaseInv, TypeOK
<1>2. CASE wire' = wire
  BY <1>1, <1>2, QuietAlive
<1>3. ASSUME chan[r] = "open", NEW kind \in {"ack", "requeue", "discard"},
             wire' = [wire EXCEPT ![r] = Append(@, [kind |-> kind, copy |-> cons[r].id])],
             kind \in {"ack", "discard"} => cons[r].at \in {"acking", "discarding"}
      PROVE  Alive(m)'
  <2>1. PICK f : f \in Frame /\ f.kind = kind /\ f.copy = cons[r].id /\ Sends(r, f)
    <3> DEFINE g == [kind |-> kind, copy |-> cons[r].id]
    <3>1. cons[r].id \in Ids
      BY <1>1 DEF BaseInv, Working
    <3>2. g \in Frame /\ g.kind = kind /\ g.copy = cons[r].id /\ wire' = [wire EXCEPT ![r] = Append(@, g)]
      BY <1>3, <3>1 DEF Frame
    <3> HIDE DEF g
    <3>3. Sends(r, g)
      BY <3>2, AppendFrames DEF BaseInv, TypeOK
    <3> QED
      BY <3>2, <3>3
  <2> PICK last : Lasts(r, f, last)
    BY <2>1, SendsLast
  <2>2. /\ \A q \in Runs \ {r} : wire'[q] = wire[q]
        /\ \A i \in Frames(r) : i \in Frames(r)' /\ i < last /\ wire'[r][i] = wire[r][i]
        /\ last \in Frames(r)' /\ wire'[r][last] = f
        /\ \A i \in Frames(r)' : i \in Frames(r) \/ i = last
    BY DEF Lasts
  <2>3. CASE Over(m)
    BY <2>3, OverStays DEF Alive
  <2>4. CASE Crossing(m)
    BY <1>1, <2>4 DEF Crossing, Alive
  <2>5. ASSUME NEW c \in Ids, Safe(c, m) PROVE Alive(m)'
    <3>1. copies'[c] = copies[c]
      BY <1>1
    <3>2. ASSUME copies[c].at = "held" PROVE ~Answered(c)'
      <4>1. PICK q \in Runs : copies[c].on = q /\ ~Answering(c) /\ ~AnswerSent(c)
        BY <2>5, <3>2 DEF BaseInv, Placed, Safe, Answered
      <4>2. ~Answering(c)'
        BY <1>1, <4>1 DEF Answering
      <4>3. ASSUME AnswerSent(c)' PROVE FALSE
        <5>1. PICK i \in 1..Len(wire'[q]) : /\ wire'[q][i].kind \in {"ack", "discard"}
                                            /\ wire'[q][i].copy = c
          BY <3>1, <4>1, <4>3 DEF AnswerSent, Frames
        <5>2. ~(q = r /\ i = last)
          BY <1>3, <2>1, <2>2, <4>1, <5>1 DEF Answering
        <5>3. i \in Frames(q) /\ wire'[q][i] = wire[q][i]
          BY <2>2, <5>1, <5>2 DEF Frames
        <5> QED
          BY <4>1, <5>1, <5>3 DEF AnswerSent
      <4> QED
        BY <4>2, <4>3 DEF Answered
    <3>3. Safe(c, m)'
      BY <2>5, <3>1, <3>2 DEF Safe
    <3> QED
      BY <3>3 DEF Alive
  <2>6. ASSUME NEW b \in Ids, NEW c \in Ids, Backed(b, c, m) PROVE Alive(m)'
    <3>1. copies'[b] = copies[b] /\ copies'[c] = copies[c] /\ copies[b].on \in Runs
      BY <1>1, <2>6 DEF Backed, BaseInv, Placed
    <3>2. CASE copies[b].on # r
      BY <2>2, <2>6, <3>1, <3>2, BackedStays DEF Alive
    <3>3. CASE copies[b].on = r
      <4>1. PICK j \in Frames(r) : /\ wire[r][j].copy = b
                                   /\ \A i \in Frames(r) : wire[r][i].copy = c => j < i
        BY <2>6, <3>3 DEF Backed, Ahead
      <4>2. j \in Frames(r)' /\ wire'[r][j].copy = b /\ j < last
        BY <2>2, <4>1
      <4>3. \A i \in Frames(r)' : wire'[r][i].copy = c => j < i
        BY <2>2, <4>1, <4>2
      <4>4. Ahead(b, c)'
        BY <3>1, <3>3, <4>2, <4>3 DEF Ahead, Frames
      <4>5. Backed(b, c, m)'
        BY <2>6, <3>1, <4>4 DEF Backed
      <4> QED
        BY <4>5 DEF Alive
    <3> QED
      BY <3>2, <3>3
  <2> QED
    BY <2>3, <2>4, <2>5, <2>6 DEF Alive
<1> QED
  BY <1>2, <1>3, AnswerEffect

LEMMA PublisherAlive ==
    ASSUME BaseInv, [Next]_vars, NEW p \in Msgs, PublisherSends(p), NEW m \in Msgs, Sent(m) => Alive(m), Sent(m)'
    PROVE  Alive(m)'
<1>1. /\ UNCHANGED <<policy, stamp>> /\ p \notin sent /\ sent' = sent \cup {p}
      /\ copies' = [copies EXCEPT ![FreshId] =
            [msg |-> p, hdr |-> stamp[p], exp |-> NoExpiration,
             origin |-> Nil, on |-> Nil, at |-> "work"]]
  BY DEF PublisherSends
<1>2. PICK x \in Ids : x = FreshId /\ copies[x] = Free
  BY FreshIsFree DEF PublisherSends
<1>3. copies[x].at = "free"
  BY <1>2 DEF Free
<1> DEFINE k == [msg |-> p, hdr |-> stamp[p], exp |-> NoExpiration,
                 origin |-> Nil, on |-> Nil, at |-> "work"]
<1>4. copies' = [copies EXCEPT ![x] = k] /\ k.at = "work" /\ k.msg = p
  BY <1>1, <1>2
<1> HIDE DEF k
<1>5. copies'[x].at = "work" /\ copies'[x].msg = p /\ \A c \in Ids \ {x} : copies'[c] = copies[c]
  BY <1>4 DEF BaseInv, TypeOK
<1>6. CASE Sent(m)
  <2>1. UNCHANGED <<wire, cons>> /\ Alive(m)
    BY <1>6 DEF PublisherSends
  <2> QED
    BY <1>3, <1>5, <2>1, OneCopyAlive
<1>7. CASE ~Sent(m)
  <2>1. m = p
    BY <1>1, <1>7 DEF Sent
  <2>2. Safe(x, m)'
    BY <1>5, <2>1 DEF Safe
  <2> QED
    BY <2>2 DEF Alive
<1> QED
  BY <1>6, <1>7

LEMMA BrokerAlive ==
    ASSUME BaseInv, [Next]_vars, NEW x \in Ids, Delivers(x) \/ Expires(x), NEW m \in Msgs, Alive(m)
    PROVE  Alive(m)'
BY BrokerEffect, OneCopyAlive

LEMMA NextKeptInv == BaseInv /\ KeptInv /\ [Next]_vars => KeptInv'
<1> SUFFICES ASSUME BaseInv, KeptInv, [Next]_vars, NEW m \in Msgs, Sent(m)' PROVE Alive(m)'
  BY DEF KeptInv, Sent
<1>1. ASSUME NEW p \in Msgs, PublisherSends(p) PROVE Alive(m)'
  BY <1>1, PublisherAlive DEF KeptInv
<1>2. CASE ~\E p \in Msgs : PublisherSends(p)
  <2>1. sent' = sent
    BY <1>2 DEF Next, Installs, Cancels, StopTakes, BrokerStep, Delivers, Expires, ExpiresTo, BrokerReads,
               ConsumerStep, Takes, HandlerAccepts, HandlerFails, HandlerFailsWhen, HandlerDrops, ReadsChannel,
               Republishes, Publishes, Answers, Exits, StopCloses, Drops, vars
  <2>2. Alive(m)
    BY <2>1 DEF KeptInv, Sent
  <2>3. CASE UNCHANGED <<copies, wire>>
    BY <2>2, <2>3, QuietAlive
  <2>4. CASE Installs \/ Cancels \/ StopTakes
    BY <2>3, <2>4 DEF Installs, Cancels, StopTakes
  <2>5. CASE BrokerStep
    BY <2>2, <2>5, BrokerAlive, ReadsAlive DEF BrokerStep
  <2>6. ASSUME NEW r \in Runs, ConsumerStep(r) PROVE Alive(m)'
    <3>1. CASE HandlerAccepts(r) \/ HandlerFails(r) \/ HandlerDrops(r) \/ ReadsChannel(r) \/ Exits(r)
      BY <2>3, <3>1 DEF HandlerAccepts, HandlerFails, HandlerFailsWhen, HandlerDrops, ReadsChannel, Exits
    <3>2. CASE (\E c \in Ids : Takes(r, c)) \/ Republishes(r) \/ Answers(r)
      BY <2>2, <3>2, TakesAlive, RepublishesAlive, AnswersAlive
    <3> QED
      BY <2>6, <3>1, <3>2 DEF ConsumerStep
  <2>7. ASSUME NEW r \in Runs, StopCloses(r) \/ Drops(r) PROVE Alive(m)'
    <3>1. (Closes(r) /\ UNCHANGED cons) \/ UNCHANGED <<copies, wire>>
      BY <2>7 DEF StopCloses, Drops
    <3> QED
      BY <2>2, <2>3, <3>1, ClosesAlive
  <2>8. CASE UNCHANGED vars
    BY <2>3, <2>8 DEF vars
  <2> QED
    BY <1>2, <2>4, <2>5, <2>6, <2>7, <2>8 DEF Next
<1> QED
  BY <1>1, <1>2

\* What is left of a message that no handler finished with: a copy no frame makes
\* an end of, or one that is published ahead of the frame that does, or one
\* on a channel other than its original's.
THEOREM MessagesKept == Spec => []KeptOnOneChannel
<1>1. Init => KeptInv
  BY InitKeptInv
<1>2. BaseInv /\ KeptInv /\ [Next]_vars => KeptInv'
  BY NextKeptInv
<1>3. KeptInv => KeptOnOneChannel
  BY KeptInvImplies
<1> QED
  BY <1>1, <1>2, <1>3, BaseInvariant, PTL DEF Spec

-----------------------------------------------------------------------------
(* An undisturbed run.                                                     *)

Quiet == Undisturbed /\ policy.retry

\* Copies that no frame and no goroutine has made, or is about to make, an end of.
Live(c) == copies[c].at # "free" /\ ~(copies[c].at = "held" /\ Answered(c))

\* A message whose copy counts h retries has failed at most as often as it was
\* counted since it was published, and may fail once more.
Few(m, h) == fails[m] <= h - stamp[m] /\ fails[m] <= RetriesLeft(m)

OneLive == \A b, c \in Ids : Live(b) /\ Live(c) /\ copies[b].msg = copies[c].msg => b = c
FewAway ==
    \A c \in Ids : copies[c].at \in {"work", "delivered", "toRetry", "retry"} =>
        Few(copies[c].msg, copies[c].hdr)
FewHere ==
    \A r \in Runs :
        /\ cons[r].at = "handling" => Few(cons[r].d.msg, cons[r].d.hdr)
        /\ cons[r].at \in {"retrying", "sendingRetry"} => Few(cons[r].d.msg, cons[r].d.hdr + 1)
        /\ cons[r].at \notin {"requeueing", "discarding"}
PlainFrames == \A r \in Runs : \A i \in Frames(r) : wire[r][i].kind \in {"publish", "ack"}
Unseen ==
    \A m \in Msgs : ~Sent(m) => /\ fails[m] = 0
                                /\ \A c \in Ids : copies[c].at # "free" => copies[c].msg # m
Bounded == \A m \in Msgs : fails[m] <= RetriesLeft(m) + 1

\* As long as nothing is disturbed, a message has one live copy, which has not
\* failed more often than it counts; nothing is requeued.
Once == OneLive /\ FewAway /\ FewHere /\ PlainFrames /\ Unseen /\ Bounded
OnceInv == Quiet => Once

LEMMA InitOnceInv == Init => OnceInv
<1> SUFFICES ASSUME Init PROVE Once
  BY DEF OnceInv
<1>1. \A c \in Ids : copies[c].at = "free"
  BY DEF Init, Free
<1>2. \A m \in Msgs : RetriesLeft(m) \in Nat
  BY InitBaseInv, Left
<1>3. OneLive /\ FewAway
  BY <1>1 DEF OneLive, Live, FewAway
<1>4. FewHere /\ PlainFrames
  BY DEF Init, FewHere, PlainFrames, Frames, Gone
<1>5. \A m \in Msgs : fails[m] = 0
  BY DEF Init
<1>6. Unseen /\ Bounded
  BY <1>1, <1>2, <1>5 DEF Unseen, Bounded
<1> QED
  BY <1>3, <1>4, <1>6 DEF Once

\* What a goroutine works on in an undisturbed run.
LEMMA QuietBusy ==
    ASSUME BaseInv, Quiet, NEW r \in Runs, Busy(r)
    PROVE  /\ r = run /\ handle = run /\ run \in Runs /\ chan[r] = "open"
           /\ cons[r].id \in Ids /\ cons[r].d \in Copy
           /\ copies[cons[r].id].at = "held" /\ copies[cons[r].id].on = r
           /\ copies[cons[r].id].msg = cons[r].d.msg /\ copies[cons[r].id].hdr = cons[r].d.hdr
           /\ ~AnswerSent(cons[r].id)
<1>1. r <= run /\ run <= 1 /\ run \in 0..MaxRuns /\ cancelled = {}
  BY DEF BaseInv, Numbered, TypeOK, Quiet, Undisturbed, Busy, Gone
<1>2. r = run /\ run \in Runs
  BY <1>1
<1>3. handle = run
  BY <1>1, <1>2 DEF BaseInv, Numbered
<1>4. chan[r] = "open"
  BY <1>1, <1>2 DEF BaseInv, Numbered, TypeOK, Quiet, Undisturbed
<1>5. /\ cons[r].id \in Ids /\ cons[r].d \in Copy /\ cons[r].d.on = r
      /\ copies[cons[r].id] = [cons[r].d EXCEPT !.at = "held"]
      /\ \A i \in Frames(r) : wire[r][i].copy # cons[r].id
  BY <1>4 DEF BaseInv, Working
<1>6. /\ copies[cons[r].id].at = "held" /\ copies[cons[r].id].on = r
      /\ copies[cons[r].id].msg = cons[r].d.msg /\ copies[cons[r].id].hdr = cons[r].d.hdr
  BY <1>5 DEF Copy
<1>7. ~AnswerSent(cons[r].id)
  BY <1>5, <1>6 DEF AnswerSent
<1> QED
  BY <1>2, <1>3, <1>4, <1>5, <1>6, <1>7

\* It is live until the goroutine is about to acknowledge it.
LEMMA QuietLive ==
    ASSUME BaseInv, Quiet, NEW r \in Runs, Busy(r), cons[r].at \notin {"acking", "discarding"}
    PROVE  Live(cons[r].id)
<1>1. /\ copies[cons[r].id].at = "held" /\ copies[cons[r].id].on = r
      /\ ~AnswerSent(cons[r].id)
  BY QuietBusy
<1>2. ~Answering(cons[r].id)
  BY <1>1 DEF Answering
<1> QED
  BY <1>1, <1>2 DEF Live, Answered

LEMMA LiveStays ==
    ASSUME NEW c \in Ids, copies'[c] = copies[c], NEW q, copies[c].on = q,
           wire'[q] = wire[q], cons[q].at \in {"acking", "discarding"} => cons'[q] = cons[q],
           Live(c)'
    PROVE  Live(c)
<1>1. Answering(c) => Answering(c)'
  BY DEF Answering
<1>2. AnswerSent(c) => AnswerSent(c)'
  BY DEF AnswerSent, Frames
<1> QED
  BY <1>1, <1>2 DEF Live, Answered

\* Steps that count nothing and bring no copy to a queue that was not in one or on
\* its way to it.
LEMMA OnceCopies ==
    ASSUME BaseInv, Once, UNCHANGED <<policy, stamp, sent, fails>>,
           \A c \in Ids : copies'[c].at # "free" =>
               /\ copies[c].at # "free"
               /\ copies'[c].msg = copies[c].msg /\ copies'[c].hdr = copies[c].hdr
               /\ copies'[c].at \in {"work", "delivered", "toRetry", "retry"} =>
                      copies[c].at \in {"work", "delivered", "toRetry", "retry"},
           \A c \in Ids : Live(c)' => Live(c)
    PROVE  OneLive' /\ FewAway' /\ Unseen' /\ Bounded'
<1>1. OneLive'
  <2> SUFFICES ASSUME NEW b \in Ids, NEW c \in Ids, Live(b)', Live(c)', copies'[b].msg = copies'[c].msg
               PROVE  b = c
    BY DEF OneLive
  <2>1. Live(b) /\ Live(c) /\ copies'[b].at # "free" /\ copies'[c].at # "free"
    BY DEF Live
  <2> QED
    BY <2>1 DEF Once, OneLive
<1>2. FewAway'
  <2> SUFFICES ASSUME NEW c \in Ids, copies'[c].at \in {"work", "delivered", "toRetry", "retry"}
               PROVE  Few(copies'[c].msg, copies'[c].hdr)
    BY DEF FewAway, Few, RetriesLeft
  <2>1. /\ copies[c].at \in {"work", "delivered", "toRetry", "retry"}
        /\ copies'[c].msg = copies[c].msg /\ copies'[c].hdr = copies[c].hdr
    OBVIOUS
  <2> QED
    BY <2>1 DEF Once, FewAway
<1>3. Unseen'
  BY DEF Once, Unseen, Sent
<1>4. Bounded'
  BY DEF Once, Bounded, RetriesLeft
<1> QED
  BY <1>1, <1>2, <1>3, <1>4

\* A goroutine that is not about to answer changes what it does, or no goroutine
\* does.
LEMMA OnceTurns ==
    ASSUME BaseInv, Once, UNCHANGED <<policy, stamp, sent, fails, copies, wire>>, NEW r \in Runs,
           cons[r].at \notin {"acking", "discarding"}, \A q \in Runs \ {r} : cons'[q] = cons[q],
           cons'[r].at \notin {"handling", "requeueing", "discarding"},
           cons'[r].at \in {"retrying", "sendingRetry"} =>
               cons[r].at \in {"retrying", "sendingRetry"} /\ cons'[r].d = cons[r].d
    PROVE  Once'
<1>1. ASSUME NEW c \in Ids, Live(c)' PROVE Live(c)
  <2>1. CASE copies[c].at = "held"
    <3>1. copies[c].on \in Runs
      BY <2>1 DEF BaseInv, Placed
    <3> QED
      BY <1>1, <3>1, LiveStays
  <2>2. CASE copies[c].at # "held"
    BY <1>1, <2>2 DEF Live
  <2> QED
    BY <2>1, <2>2
<1>2. OneLive' /\ FewAway' /\ Unseen' /\ Bounded'
  BY <1>1, OnceCopies
<1>3. FewHere'
  <2> SUFFICES ASSUME NEW q \in Runs
               PROVE  /\ cons'[q].at = "handling" => Few(cons'[q].d.msg, cons'[q].d.hdr)
                      /\ cons'[q].at \in {"retrying", "sendingRetry"} =>
                             Few(cons'[q].d.msg, cons'[q].d.hdr + 1)
                      /\ cons'[q].at \notin {"requeueing", "discarding"}
    BY DEF FewHere, Few, RetriesLeft
  <2>1. CASE q = r
    BY <2>1 DEF Once, FewHere
  <2>2. CASE q # r
    BY <2>2 DEF Once, FewHere
  <2> QED
    BY <2>1, <2>2
<1>4. PlainFrames'
  BY DEF Once, PlainFrames, Frames
<1> QED
  BY <1>2, <1>3, <1>4 DEF Once

LEMMA PublisherOnce ==
    ASSUME BaseInv, Quiet, Once, NEW p \in Msgs, PublisherSends(p)
    PROVE  Once'
<1>1. /\ UNCHANGED <<policy, stamp>> /\ p \notin sent /\ sent' = sent \cup {p}
      /\ copies' = [copies EXCEPT ![FreshId] =
            [msg |-> p, hdr |-> stamp[p], exp |-> NoExpiration,
             origin |-> Nil, on |-> Nil, at |-> "work"]]
  BY DEF PublisherSends
<1>2. PICK x \in Ids : x = FreshId /\ copies[x] = Free
  BY FreshIsFree DEF PublisherSends
<1> DEFINE k == [msg |-> p, hdr |-> stamp[p], exp |-> NoExpiration,
                 origin |-> Nil, on |-> Nil, at |-> "work"]
<1>3. copies' = [copies EXCEPT ![x] = k] /\ k.at = "work" /\ k.msg = p /\ k.hdr = stamp[p]
  BY <1>1, <1>2
<1> HIDE DEF k
<1>4. /\ copies'[x].at = "work" /\ copies'[x].msg = p /\ copies'[x].hdr = stamp[p]
      /\ \A c \in Ids \ {x} : copies'[c] = copies[c]
  BY <1>3 DEF BaseInv, TypeOK
<1>5. /\ UNCHANGED <<policy, fails, wire, cons>>
      /\ fails[p] = 0 /\ \A c \in Ids : copies[c].at # "free" => copies[c].msg # p
  BY DEF PublisherSends, tallyVars, Once, Unseen, Sent
<1>6. RetriesLeft(p) \in Nat /\ stamp[p] \in Int
  BY Left
<1>7. ASSUME NEW c \in Ids \ {x}, Live(c)' PROVE Live(c) /\ copies'[c].msg # p
  <2>1. copies'[c] = copies[c]
    BY <1>4
  <2>2. Live(c)
    <3>1. CASE copies[c].at = "held"
      BY <1>5, <1>7, <2>1, LiveStays
    <3>2. CASE copies[c].at # "held"
      BY <1>7, <2>1, <3>2 DEF Live
    <3> QED
      BY <3>1, <3>2
  <2> QED
    BY <1>5, <2>1, <2>2 DEF Live
<1>8. OneLive'
  <2> SUFFICES ASSUME NEW b \in Ids, NEW c \in Ids, Live(b)', Live(c)', copies'[b].msg = copies'[c].msg
               PROVE  b = c
    BY DEF OneLive
  <2>1. CASE b = x \/ c = x
    BY <1>4, <1>7, <2>1
  <2>2. CASE b # x /\ c # x
    BY <1>4, <1>7, <2>2 DEF Once, OneLive
  <2> QED
    BY <2>1, <2>2
<1>9. FewAway'
  <2> SUFFICES ASSUME NEW c \in Ids, copies'[c].at \in {"work", "delivered", "toRetry", "retry"}
               PROVE  Few(copies'[c].msg, copies'[c].hdr)
    BY <1>1, <1>5 DEF FewAway, Few, RetriesLeft
  <2>1. CASE c = x
    BY <1>4, <1>5, <1>6, <2>1 DEF Few
  <2>2. CASE c # x
    BY <1>4, <2>2 DEF Once, FewAway
  <2> QED
    BY <2>1, <2>2
<1>10. Unseen'
  <2> SUFFICES ASSUME NEW m \in Msgs, ~Sent(m)'
               PROVE  fails[m] = 0 /\ \A c \in Ids : copies'[c].at # "free" => copies'[c].msg # m
    BY <1>5 DEF Unseen, Sent
  <2>1. m # p /\ ~Sent(m)
    BY <1>1 DEF Sent
  <2> QED
    BY <1>4, <2>1 DEF Once, Unseen, Sent
<1>11. FewHere' /\ PlainFrames' /\ Bounded'
  BY <1>1, <1>5 DEF Once, FewHere, Few, RetriesLeft, PlainFrames, Frames, Bounded
<1> QED
  BY <1>8, <1>9, <1>10, <1>11 DEF Once

LEMMA BrokerOnce ==
    ASSUME BaseInv, Quiet, Once, NEW x \in Ids, Delivers(x) \/ Expires(x)
    PROVE  Once'
<1>1. UNCHANGED <<policy, stamp, sent, fails, wire, cons>>
  BY DEF Delivers, Expires, ExpiresTo, tallyVars
<1>2. copies[x] \in Copy /\ copies[x].at \in {"work", "retry"}
  BY BrokerEffect
<1>3. /\ copies'[x].at \in {"work", "delivered"}
      /\ copies'[x].msg = copies[x].msg /\ copies'[x].hdr = copies[x].hdr
      /\ \A c \in Ids \ {x} : copies'[c] = copies[c]
  BY BrokerEffect
<1>4. ASSUME NEW c \in Ids, Live(c)' PROVE Live(c)
  <2>1. CASE copies[c].at = "held"
    BY <1>1, <1>2, <1>3, <1>4, <2>1, LiveStays
  <2>2. CASE copies[c].at # "held"
    BY <1>2, <1>3, <1>4, <2>2 DEF Live
  <2> QED
    BY <2>1, <2>2
<1>5. ASSUME NEW c \in Ids, copies'[c].at # "free"
      PROVE  /\ copies[c].at # "free"
             /\ copies'[c].msg = copies[c].msg /\ copies'[c].hdr = copies[c].hdr
             /\ copies'[c].at \in {"work", "delivered", "toRetry", "retry"} =>
                    copies[c].at \in {"work", "delivered", "toRetry", "retry"}
  BY <1>2, <1>3, <1>5
<1>6. OneLive' /\ FewAway' /\ Unseen' /\ Bounded'
  BY <1>1, <1>4, <1>5, OnceCopies
<1>7. FewHere' /\ PlainFrames'
  BY <1>1 DEF Once, FewHere, Few, RetriesLeft, PlainFrames, Frames
<1> QED
  BY <1>6, <1>7 DEF Once

LEMMA ReadsOnce == ASSUME BaseInv, Quiet, Once, NEW r \in Runs, BrokerReads(r) PROVE Once'
<1>1. /\ wire \in [Runs -> Seq(Frame)] /\ wire[r] # <<>> /\ wire' = [wire EXCEPT ![r] = Tail(@)]
      /\ UNCHANGED <<policy, stamp, sent, fails, cons>>
  BY DEF BaseInv, TypeOK, BrokerReads, tallyVars
<1>2. /\ \A q \in Runs \ {r} : wire'[q] = wire[q]
      /\ \A i \in Frames(r)' : i + 1 \in Frames(r) /\ wire'[r][i] = wire[r][i + 1]
      /\ \A i \in Frames(r) \ {1} : i - 1 \in Frames(r)' /\ wire'[r][i - 1] = wire[r][i]
  BY <1>1, TailFrames
<1>3. PICK x \in Ids : /\ 1 \in Frames(r) /\ copies[x] \in Copy /\ x = Read(r)
                       /\ wire[r][1].copy = x
                       /\ \A c \in Ids \ {x} : copies'[c] = copies[c]
  BY ReadEffect DEF Read
<1>4. \/ copies[x].at = "toRetry" /\ copies'[x] = Moved(copies[x], Nil, "retry")
      \/ copies'[x] = Free
  <2>1. wire[r][1].kind # "requeue"
    BY <1>3 DEF Once, PlainFrames
  <2> QED
    BY <1>3, <2>1, ReadEffect
<1>5. \/ /\ copies[x].at = "toRetry" /\ copies'[x].at = "retry"
         /\ copies'[x].msg = copies[x].msg /\ copies'[x].hdr = copies[x].hdr
      \/ copies'[x].at = "free"
  BY <1>3, <1>4, HomeCopy DEF Same, Free
<1>6. ASSUME NEW c \in Ids, Live(c)' PROVE Live(c)
  <2>1. CASE c = x
    BY <1>5, <1>6, <2>1 DEF Live
  <2>2. CASE c # x
    <3>1. copies'[c] = copies[c]
      BY <1>3, <2>2
    <3>2. CASE copies[c].at = "held"
      <4>1. PICK q \in Runs : copies[c].on = q
        BY <3>2 DEF BaseInv, Placed
      <4>2. Answering(c) => Answering(c)'
        BY <1>1, <3>1 DEF Answering
      <4>3. ASSUME AnswerSent(c) PROVE AnswerSent(c)'
        <5>1. PICK i \in 1..Len(wire[q]) : wire[q][i].kind \in {"ack", "discard"} /\ wire[q][i].copy = c
          BY <4>1, <4>3 DEF AnswerSent, Frames
        <5>2. \E j \in 1..Len(wire'[q]) : wire'[q][j] = wire[q][i]
          <6>1. CASE q = r
            <7>1. i \in Frames(r) \ {1}
              BY <1>3, <2>2, <5>1, <6>1 DEF Frames
            <7> QED
              BY <1>2, <6>1, <7>1 DEF Frames
          <6>2. CASE q # r
            BY <1>2, <5>1, <6>2
          <6> QED
            BY <6>1, <6>2
        <5> QED
          BY <3>1, <4>1, <5>1, <5>2 DEF AnswerSent, Frames
      <4> QED
        BY <1>6, <3>1, <4>2, <4>3 DEF Live, Answered
    <3>3. CASE copies[c].at # "held"
      BY <1>6, <3>1, <3>3 DEF Live
    <3> QED
      BY <3>2, <3>3
  <2> QED
    BY <2>1, <2>2
<1>7. ASSUME NEW c \in Ids, copies'[c].at # "free"
      PROVE  /\ copies[c].at # "free"
             /\ copies'[c].msg = copies[c].msg /\ copies'[c].hdr = copies[c].hdr
             /\ copies'[c].at \in {"work", "delivered", "toRetry", "retry"} =>
                    copies[c].at \in {"work", "delivered", "toRetry", "retry"}
  <2>1. CASE c = x
    BY <1>5, <1>7, <2>1
  <2>2. CASE c # x
    BY <1>3, <1>7, <2>2
  <2> QED
    BY <2>1, <2>2
<1>8. OneLive' /\ FewAway' /\ Unseen' /\ Bounded'
  BY <1>1, <1>6, <1>7, OnceCopies
<1>9. FewHere'
  BY <1>1 DEF Once, FewHere, Few, RetriesLeft
<1>10. PlainFrames'
  <2> SUFFICES ASSUME NEW q \in Runs, NEW i \in Frames(q)' PROVE wire'[q][i].kind \in {"publish", "ack"}
    BY DEF PlainFrames
  <2>1. CASE q = r
    BY <1>2, <2>1 DEF Once, PlainFrames
  <2>2. CASE q # r
    BY <1>2, <2>2 DEF Once, PlainFrames, Frames
  <2> QED
    BY <2>1, <2>2
<1> QED
  BY <1>8, <1>9, <1>10 DEF Once

LEMMA TakesOnce ==
    ASSUME BaseInv, Quiet, Once, NEW r \in Runs, NEW x \in Ids, Takes(r, x)
    PROVE  Once'
<1> DEFINE k == [copies[x] EXCEPT !.at = "held"]
<1>1. /\ cons[r].at = "idle" /\ copies[x] \in Copy /\ copies[x].at = "delivered"
      /\ copies' = [copies EXCEPT ![x] = k]
      /\ UNCHANGED <<policy, stamp, sent, fails, wire>>
  BY TakesEffect DEF tallyVars
<1>2. k.at = "held" /\ k.msg = copies[x].msg /\ k.hdr = copies[x].hdr
  BY <1>1 DEF Copy
<1> HIDE DEF k
<1>3. /\ copies'[x].at = "held" /\ copies'[x].msg = copies[x].msg /\ copies'[x].hdr = copies[x].hdr
      /\ \A c \in Ids \ {x} : copies'[c] = copies[c]
  BY <1>1, <1>2 DEF BaseInv, TypeOK
<1>4. /\ cons'[r].at = "handling" /\ cons'[r].d = copies[x]
      /\ \A q \in Runs \ {r} : cons'[q] = cons[q]
  <2>1. cons'[r].at = "handling" /\ cons'[r].d = copies[x]
    BY TakesTakesUp DEF TakesUp
  <2> QED
    BY <2>1 DEF Takes, BaseInv, TypeOK
<1>5. ASSUME NEW c \in Ids, Live(c)' PROVE Live(c)
  <2>1. CASE copies[c].at = "held"
    <3>1. c # x /\ copies[c].on \in Runs
      BY <1>1, <2>1 DEF BaseInv, Placed
    <3> QED
      BY <1>1, <1>3, <1>4, <1>5, <3>1, LiveStays
  <2>2. CASE copies[c].at # "held"
    BY <1>1, <1>3, <1>5, <2>2 DEF Live
  <2> QED
    BY <2>1, <2>2
<1>6. ASSUME NEW c \in Ids, copies'[c].at # "free"
      PROVE  /\ copies[c].at # "free"
             /\ copies'[c].msg = copies[c].msg /\ copies'[c].hdr = copies[c].hdr
             /\ copies'[c].at \in {"work", "delivered", "toRetry", "retry"} =>
                    copies[c].at \in {"work", "delivered", "toRetry", "retry"}
  BY <1>1, <1>3, <1>6
<1>7. OneLive' /\ FewAway' /\ Unseen' /\ Bounded'
  BY <1>1, <1>5, <1>6, OnceCopies
<1>8. FewHere'
  <2> SUFFICES ASSUME NEW q \in Runs
               PROVE  /\ cons'[q].at = "handling" => Few(cons'[q].d.msg, cons'[q].d.hdr)
                      /\ cons'[q].at \in {"retrying", "sendingRetry"} =>
                             Few(cons'[q].d.msg, cons'[q].d.hdr + 1)
                      /\ cons'[q].at \notin {"requeueing", "discarding"}
    BY <1>1 DEF FewHere, Few, RetriesLeft
  <2>1. CASE q = r
    <3>1. Few(copies[x].msg, copies[x].hdr)
      BY <1>1 DEF Once, FewAway
    <3> QED
      BY <1>4, <2>1, <3>1
  <2>2. CASE q # r
    BY <1>4, <2>2 DEF Once, FewHere
  <2> QED
    BY <2>1, <2>2
<1>9. PlainFrames'
  BY <1>1 DEF Once, PlainFrames, Frames
<1> QED
  BY <1>7, <1>8, <1>9 DEF Once

LEMMA FailsOnce ==
    ASSUME BaseInv, Quiet, Once, NEW r \in Runs, HandlerFails(r)
    PROVE  Once'
<1>1. Busy(r) /\ cons[r].at = "handling"
  BY DEF HandlerFails, HandlerFailsWhen, Busy
<1>2. /\ Works(r) /\ policy.retry
  BY <1>1, HandlerWorks DEF HandlerStep, Quiet
<1>3. /\ policy' = policy /\ UNCHANGED <<stamp, sent, wire, copies>>
      /\ fails' = [fails EXCEPT ![cons[r].d.msg] =
            IF @ < MaxFails(cons[r].d.msg) THEN @ + 1 ELSE @]
      /\ \A q \in Runs \ {r} : cons'[q] = cons[q]
  BY DEF HandlerFails, HandlerFailsWhen, Turns, BaseInv, TypeOK
<1>4. /\ cons'[r].d = cons[r].d
      /\ \/ cons'[r].at = "deadLettering"
         \/ cons'[r].at = "retrying" /\ ~(cons[r].d.hdr >= MaxRetries(policy))
  BY <1>1, <1>2 DEF Works, HandlerAccepts, HandlerFails, HandlerFailsWhen, HandlerDrops, ReadsChannel,
                    Republishes, Publishes, Turns, BaseInv, TypeOK, Goroutine
<1>5. PICK m \in Msgs : m = cons[r].d.msg
  BY <1>1, QuietBusy DEF Copy
<1>6. PICK x \in Ids : copies[x].at = "held" /\ copies[x].msg = m /\ Live(x)
  BY <1>1, <1>5, QuietBusy, QuietLive
<1>7. /\ MaxRetries(policy) \in Nat /\ RetriesLeft(m) \in Nat /\ stamp[m] \in Int
      /\ MaxFails(m) = RetriesLeft(m) + 2
      /\ stamp[m] <= MaxRetries(policy) => RetriesLeft(m) = MaxRetries(policy) - stamp[m]
      /\ fails[m] \in Nat /\ fails \in [Msgs -> Nat]
  BY Left DEF BaseInv, TypeOK
<1>8. /\ fails[m] <= cons[r].d.hdr - stamp[m] /\ fails[m] <= RetriesLeft(m)
      /\ cons[r].d.hdr \in Int
  <2>1. Few(m, cons[r].d.hdr)
    BY <1>1, <1>5 DEF Once, FewHere
  <2> QED
    BY <1>1, <2>1, QuietBusy DEF Few, Copy
<1>9. fails'[m] = fails[m] + 1 /\ \A n \in Msgs \ {m} : fails'[n] = fails[n]
  <2>1. fails[m] < MaxFails(m)
    BY <1>7, <1>8
  <2> QED
    BY <1>3, <1>5, <1>7, <2>1
<1>10. ASSUME NEW c \in Ids, Live(c)' PROVE Live(c)
  <2>1. CASE copies[c].at = "held"
    <3>1. copies[c].on \in Runs
      BY <2>1 DEF BaseInv, Placed
    <3> QED
      BY <1>1, <1>3, <1>10, <3>1, LiveStays
  <2>2. CASE copies[c].at # "held"
    BY <1>3, <1>10, <2>2 DEF Live
  <2> QED
    BY <2>1, <2>2
<1>11. OneLive'
  BY <1>3, <1>10 DEF Once, OneLive
<1>12. FewAway'
  <2> SUFFICES ASSUME NEW c \in Ids, copies[c].at \in {"work", "delivered", "toRetry", "retry"}
               PROVE  /\ fails'[copies[c].msg] <= copies[c].hdr - stamp[copies[c].msg]
                      /\ fails'[copies[c].msg] <= RetriesLeft(copies[c].msg)
    BY <1>3 DEF FewAway, Few, RetriesLeft
  <2>1. Live(c) /\ c # x
    BY <1>6 DEF Live
  <2>2. copies[c].msg # m
    BY <1>6, <2>1 DEF Once, OneLive
  <2>3. copies[c].msg \in Msgs
    BY CopyIsNotFree DEF BaseInv, TypeOK, Copy
  <2>4. fails'[copies[c].msg] = fails[copies[c].msg]
    BY <1>9, <2>2, <2>3
  <2> QED
    BY <2>4 DEF Once, FewAway, Few
<1>13. FewHere'
  <2> SUFFICES ASSUME NEW q \in Runs
               PROVE  /\ cons'[q].at # "handling"
                      /\ cons'[q].at \in {"retrying", "sendingRetry"} =>
                             Few(cons[q].d.msg, cons[q].d.hdr + 1)'
                      /\ cons'[q].at \notin {"requeueing", "discarding"}
    BY DEF FewHere
  <2>1. CASE q = r
    <3>1. CASE cons'[r].at = "deadLettering"
      BY <2>1, <3>1
    <3>2. CASE cons'[r].at = "retrying" /\ ~(cons[r].d.hdr >= MaxRetries(policy))
      <4>1. fails'[m] <= cons[r].d.hdr + 1 - stamp[m] /\ fails'[m] <= RetriesLeft(m)
        BY <1>7, <1>8, <1>9, <3>2
      <4>2. policy' = policy /\ stamp' = stamp
        BY <1>3
      <4>3. cons'[r].d.msg = m /\ cons'[r].d.hdr = cons[r].d.hdr
        BY <1>4, <1>5
      <4>4. Few(cons[r].d.msg, cons[r].d.hdr + 1)'
        BY <1>7, <1>8, <4>1, <4>2, <4>3 DEF Few, RetriesLeft
      <4> QED
        BY <2>1, <3>2, <4>4
    <3> QED
      BY <1>4, <3>1, <3>2
  <2>2. CASE q # r
    <3>1. ~Busy(q)
      BY <1>1, <2>2, QuietBusy
    <3> QED
      BY <1>3, <2>2, <3>1 DEF Busy
  <2> QED
    BY <2>1, <2>2
<1>14. PlainFrames'
  BY <1>3 DEF Once, PlainFrames, Frames
<1>15. Unseen'
  <2> SUFFICES ASSUME NEW n \in Msgs, ~Sent(n)
               PROVE  fails'[n] = 0 /\ \A c \in Ids : copies[c].at # "free" => copies[c].msg # n
    BY <1>3 DEF Unseen, Sent
  <2>1. fails[n] = 0 /\ \A c \in Ids : copies[c].at # "free" => copies[c].msg # n
    BY DEF Once, Unseen
  <2>2. n # m
    BY <1>6, <2>1
  <2> QED
    BY <1>9, <2>1, <2>2
<1>16. Bounded'
  <2> SUFFICES ASSUME NEW n \in Msgs PROVE fails'[n] <= RetriesLeft(n) + 1
    BY <1>3 DEF Bounded, RetriesLeft
  <2>1. CASE n = m
    BY <1>7, <1>8, <1>9, <2>1
  <2>2. CASE n # m
    BY <1>9, <2>2 DEF Once, Bounded
  <2> QED
    BY <2>1, <2>2
<1> QED
  BY <1>11, <1>12, <1>13, <1>14, <1>15, <1>16 DEF Once

\* The goroutine's other turns.
LEMMA TurnsOnce ==
    ASSUME BaseInv, Quiet, Once, NEW r \in Runs,
           HandlerAccepts(r) \/ HandlerDrops(r) \/ ReadsChannel(r) \/ Exits(r)
    PROVE  Once'
<1>1. /\ UNCHANGED <<policy, stamp, sent, fails, copies, wire>>
      /\ cons[r].at \notin {"acking", "discarding"}
      /\ \A q \in Runs \ {r} : cons'[q] = cons[q]
  BY DEF HandlerAccepts, HandlerDrops, ReadsChannel, Exits, Turns, BaseInv, TypeOK, tallyVars
<1>2. CASE HandlerAccepts(r)
  <2>1. cons'[r].at = "acking"
    BY <1>2 DEF HandlerAccepts, Turns, BaseInv, TypeOK, Goroutine
  <2> QED
    BY <1>1, <2>1, OnceTurns
<1>3. CASE HandlerDrops(r)
  <2>1. cons'[r].at = "deadLettering"
    BY <1>3 DEF HandlerDrops, Turns, BaseInv, TypeOK, Goroutine, Quiet
  <2> QED
    BY <1>1, <2>1, OnceTurns
<1>4. CASE Exits(r)
  <2>1. cons'[r].at = "none"
    BY <1>4 DEF Exits, BaseInv, TypeOK, Gone
  <2> QED
    BY <1>1, <2>1, OnceTurns
<1>5. CASE ReadsChannel(r)
  <2>1. Busy(r) /\ cons[r].at \in {"retrying", "deadLettering"}
    BY <1>5 DEF ReadsChannel, Busy
  <2>2. handle # Nil /\ chan[handle] # "closed"
    BY <2>1, QuietBusy
  <2>3. PICK g \in Goroutine :
            /\ cons' = [cons EXCEPT ![r] = g] /\ g.d = cons[r].d
            /\ \/ cons[r].at = "retrying" /\ g.at = "sendingRetry"
               \/ cons[r].at = "deadLettering" /\ g.at = "sendingDLQ"
    BY <1>5, <2>2, ReadsChannelEffect
  <2>4. cons'[r] = g
    BY <2>3 DEF BaseInv, TypeOK
  <2> QED
    BY <1>1, <2>3, <2>4, OnceTurns
<1> QED
  BY <1>2, <1>3, <1>4, <1>5

LEMMA PublishOnce ==
    ASSUME BaseInv, Quiet, Once, NEW r \in Runs, Busy(r), Turns(r, "acking"),
           cons[r].at \in {"sendingRetry", "sendingDLQ"},
           NEW o \in Runs, NEW x \in Ids, copies[x] = Free,
           wire' = [wire EXCEPT ![o] = Append(@, [kind |-> "publish", copy |-> x])],
           NEW k \in Copy, copies' = [copies EXCEPT ![x] = k],
           k.msg = cons[r].d.msg,
           \/ k.at = "toRetry" /\ cons[r].at = "sendingRetry" /\ k.hdr = cons[r].d.hdr + 1
           \/ k.at = "toDLQ",
           UNCHANGED <<policy, stamp, sent, fails>>
    PROVE  Once'
<1>1. copies'[x] = k /\ \A c \in Ids \ {x} : copies'[c] = copies[c]
  BY DEF BaseInv, TypeOK
<1>2. /\ cons'[r].at = "acking" /\ cons'[r].id = cons[r].id
      /\ \A q \in Runs \ {r} : cons'[q] = cons[q]
  BY TurnsTo
<1>3. copies[x].at = "free"
  BY DEF Free
<1>4. PICK f : f \in Frame /\ f.kind = "publish" /\ f.copy = x /\ Sends(o, f)
  <2> DEFINE g == [kind |-> "publish", copy |-> x]
  <2>1. g \in Frame /\ g.kind = "publish" /\ g.copy = x /\ wire' = [wire EXCEPT ![o] = Append(@, g)]
    BY DEF Frame
  <2> HIDE DEF g
  <2>2. Sends(o, g)
    BY <2>1, AppendFrames DEF BaseInv, TypeOK
  <2> QED
    BY <2>1, <2>2
<1> PICK last : Lasts(o, f, last)
  BY <1>4, SendsLast
<1>5. /\ \A q \in Runs \ {o} : wire'[q] = wire[q]
      /\ \A i \in Frames(o) : i \in Frames(o)' /\ wire'[o][i] = wire[o][i]
      /\ last \in Frames(o)' /\ wire'[o][last] = f
      /\ \A i \in Frames(o)' : i \in Frames(o) \/ i = last
  BY DEF Lasts
<1>6. PICK y \in Ids : /\ y = cons[r].id /\ copies[y].at = "held" /\ copies[y].on = r
                       /\ copies[y].msg = cons[r].d.msg /\ Live(y)
  BY QuietBusy, QuietLive
<1>7. y # x /\ ~Live(y)'
  <2>1. y # x
    BY <1>3, <1>6
  <2>2. copies'[y] = copies[y]
    BY <1>1, <2>1
  <2>3. Answering(y)'
    BY <1>2, <1>6, <2>2 DEF Answering
  <2> QED
    BY <1>6, <2>1, <2>2, <2>3 DEF Live, Answered
<1>8. ASSUME NEW c \in Ids \ {x}, Live(c)' PROVE Live(c)
  <2>1. copies'[c] = copies[c]
    BY <1>1
  <2>2. CASE copies[c].at = "held"
    <3>1. PICK q \in Runs : copies[c].on = q
      BY <2>2 DEF BaseInv, Placed
    <3>2. Answering(c) => Answering(c)'
      <4> SUFFICES ASSUME Answering(c) PROVE Answering(c)'
        OBVIOUS
      <4>1. cons[q].at \in {"acking", "discarding"} /\ cons[q].id = c
        BY <3>1 DEF Answering
      <4>2. cons'[q] = cons[q]
        BY <1>2, <4>1
      <4> QED
        BY <2>1, <3>1, <4>1, <4>2 DEF Answering
    <3>3. ASSUME AnswerSent(c) PROVE AnswerSent(c)'
      <4>1. PICK i \in Frames(q) : wire[q][i].kind \in {"ack", "discard"} /\ wire[q][i].copy = c
        BY <3>1, <3>3 DEF AnswerSent
      <4>2. i \in 1..Len(wire'[q]) /\ wire'[q][i] = wire[q][i]
        BY <1>5, <4>1 DEF Frames
      <4> QED
        BY <2>1, <3>1, <4>1, <4>2 DEF AnswerSent, Frames
    <3> QED
      BY <1>8, <2>1, <3>2, <3>3 DEF Live, Answered
  <2>3. CASE copies[c].at # "held"
    BY <1>8, <2>1, <2>3 DEF Live
  <2> QED
    BY <2>2, <2>3
<1>9. OneLive'
  <2> SUFFICES ASSUME NEW b \in Ids, NEW c \in Ids, Live(b)', Live(c)', copies'[b].msg = copies'[c].msg
               PROVE  b = c
    BY DEF OneLive
  <2>1. ASSUME NEW a \in Ids \ {x}, Live(a)', copies'[a].msg = k.msg PROVE FALSE
    <3>1. Live(a) /\ copies[a].msg = copies[y].msg
      BY <1>1, <1>6, <1>8, <2>1
    <3>2. a = y
      BY <1>6, <3>1 DEF Once, OneLive
    <3> QED
      BY <1>7, <2>1, <3>2
  <2>2. CASE b = x \/ c = x
    BY <1>1, <2>1, <2>2
  <2>3. CASE b # x /\ c # x
    BY <1>1, <1>8, <2>3 DEF Once, OneLive
  <2> QED
    BY <2>2, <2>3
<1>10. FewAway'
  <2> SUFFICES ASSUME NEW c \in Ids, copies'[c].at \in {"work", "delivered", "toRetry", "retry"}
               PROVE  Few(copies'[c].msg, copies'[c].hdr)
    BY DEF FewAway, Few, RetriesLeft
  <2>1. CASE c = x
    <3>1. cons[r].at = "sendingRetry" /\ k.hdr = cons[r].d.hdr + 1
      BY <1>1, <2>1
    <3>2. Few(cons[r].d.msg, cons[r].d.hdr + 1)
      BY <3>1 DEF Once, FewHere
    <3> QED
      BY <1>1, <2>1, <3>1, <3>2
  <2>2. CASE c # x
    BY <1>1, <2>2 DEF Once, FewAway
  <2> QED
    BY <2>1, <2>2
<1>11. FewHere'
  <2> SUFFICES ASSUME NEW q \in Runs
               PROVE  /\ cons'[q].at = "handling" => Few(cons'[q].d.msg, cons'[q].d.hdr)
                      /\ cons'[q].at \in {"retrying", "sendingRetry"} =>
                             Few(cons'[q].d.msg, cons'[q].d.hdr + 1)
                      /\ cons'[q].at \notin {"requeueing", "discarding"}
    BY DEF FewHere, Few, RetriesLeft
  <2> QED
    BY <1>2 DEF Once, FewHere
<1>12. PlainFrames'
  <2> SUFFICES ASSUME NEW q \in Runs, NEW i \in Frames(q)' PROVE wire'[q][i].kind \in {"publish", "ack"}
    BY DEF PlainFrames
  <2>1. CASE q = o /\ i = last
    BY <1>4, <1>5, <2>1
  <2>2. CASE q = o /\ i # last
    <3>1. i \in Frames(q) /\ wire'[q][i] = wire[q][i]
      BY <1>5, <2>2
    <3> QED
      BY <3>1 DEF Once, PlainFrames
  <2>3. CASE q # o
    BY <1>5, <2>3 DEF Once, PlainFrames, Frames
  <2> QED
    BY <2>1, <2>2, <2>3
<1>13. Unseen'
  <2> SUFFICES ASSUME NEW m \in Msgs, ~Sent(m)
               PROVE  fails[m] = 0 /\ \A c \in Ids : copies'[c].at # "free" => copies'[c].msg # m
    BY DEF Unseen, Sent
  <2>1. fails[m] = 0 /\ \A c \in Ids : copies[c].at # "free" => copies[c].msg # m
    BY DEF Once, Unseen
  <2>2. k.msg # m
    BY <1>6, <2>1
  <2> QED
    BY <1>1, <2>1, <2>2
<1>14. Bounded'
  BY DEF Once, Bounded, RetriesLeft
<1> QED
  BY <1>9, <1>10, <1>11, <1>12, <1>13, <1>14 DEF Once

LEMMA RepublishesOnce == ASSUME BaseInv, Quiet, Once, NEW r \in Runs, Republishes(r) PROVE Once'
<1>1. /\ Busy(r) /\ cons[r].over \in Runs /\ cons[r].at \in {"sendingRetry", "sendingDLQ"}
      /\ UNCHANGED <<policy, stamp, sent, fails>>
  BY PublishEffect DEF tallyVars
<1>2. \/ /\ Turns(r, "acking")
         /\ FreshId \in Ids /\ copies[FreshId] = Free
         /\ wire' = [wire EXCEPT ![cons[r].over] = Append(@, [kind |-> "publish", copy |-> FreshId])]
         /\ \E k \in Copy :
                /\ copies' = [copies EXCEPT ![FreshId] = k]
                /\ k.msg = cons[r].d.msg
                /\ \/ k.at = "toRetry" /\ cons[r].at = "sendingRetry" /\ k.hdr = cons[r].d.hdr + 1
                   \/ k.at = "toDLQ"
      \/ chan[cons[r].over] = "closed" \/ r \in cancelled
  BY PublishEffect
<1>3. chan[cons[r].over] # "closed" /\ r \notin cancelled
  BY <1>1 DEF Quiet, Undisturbed
<1> QED
  BY <1>1, <1>2, <1>3, PublishOnce

LEMMA AnswersOnce == ASSUME BaseInv, Quiet, Once, NEW r \in Runs, Answers(r) PROVE Once'
<1>1. /\ Busy(r) /\ cons[r].at \in {"acking", "requeueing", "discarding"}
      /\ UNCHANGED <<policy, stamp, sent, fails, copies>>
      /\ cons'[r].at = "idle" /\ \A q \in Runs \ {r} : cons'[q] = cons[q]
  <2>1. /\ Busy(r) /\ cons[r].at \in {"acking", "requeueing", "discarding"}
        /\ UNCHANGED <<policy, stamp, sent, tallyVars, copies>>
        /\ cons' = [cons EXCEPT ![r] = Idle] /\ Idle.at = "idle"
    BY AnswerEffect
  <2> QED
    BY <2>1 DEF BaseInv, TypeOK, tallyVars
<1>2. chan[r] = "open" /\ cons[r].at = "acking" /\ copies[cons[r].id].on = r
  BY <1>1, QuietBusy DEF Once, FewHere
<1>3. PICK f : f \in Frame /\ f.kind = "ack" /\ f.copy = cons[r].id /\ Sends(r, f)
  <2> DEFINE g == [kind |-> "ack", copy |-> cons[r].id]
  <2>1. PICK kind \in {"ack", "requeue", "discard"} :
            /\ wire' = [wire EXCEPT ![r] = Append(@, [kind |-> kind, copy |-> cons[r].id])]
            /\ kind = "ack" <=> cons[r].at = "acking"
    BY <1>2, AnswerEffect
  <2>2. cons[r].id \in Ids
    BY <1>1, QuietBusy
  <2>3. g \in Frame /\ g.kind = "ack" /\ g.copy = cons[r].id /\ wire' = [wire EXCEPT ![r] = Append(@, g)]
    BY <1>2, <2>1, <2>2 DEF Frame
  <2> HIDE DEF g
  <2>4. Sends(r, g)
    BY <2>3, AppendFrames DEF BaseInv, TypeOK
  <2> QED
    BY <2>3, <2>4
<1> PICK last : Lasts(r, f, last)
  BY <1>3, SendsLast
<1>4. /\ \A q \in Runs \ {r} : wire'[q] = wire[q]
      /\ \A i \in Frames(r) : i \in Frames(r)' /\ wire'[r][i] = wire[r][i]
      /\ last \in Frames(r)' /\ wire'[r][last] = f
      /\ \A i \in Frames(r)' : i \in Frames(r) \/ i = last
  BY DEF Lasts
<1>5. ASSUME NEW c \in Ids, Live(c)' PROVE Live(c)
  <2>1. copies'[c] = copies[c]
    BY <1>1
  <2>2. CASE copies[c].at = "held"
    <3>1. PICK q \in Runs : copies[c].on = q
      BY <2>2 DEF BaseInv, Placed
    <3>2. ASSUME Answering(c) PROVE Answered(c)'
      <4>1. cons[q].at \in {"acking", "discarding"} /\ cons[q].id = c
        BY <3>1, <3>2 DEF Answering
      <4>2. CASE q # r
        <5>1. cons'[q] = cons[q]
          BY <1>1, <4>2
        <5> QED
          BY <2>1, <3>1, <4>1, <5>1 DEF Answered, Answering
      <4>3. CASE q = r
        <5>1. last \in 1..Len(wire'[q]) /\ wire'[q][last].kind = "ack" /\ wire'[q][last].copy = c
          BY <1>3, <1>4, <4>1, <4>3 DEF Frames
        <5> QED
          BY <2>1, <3>1, <5>1 DEF Answered, AnswerSent, Frames
      <4> QED
        BY <4>2, <4>3
    <3>3. ASSUME AnswerSent(c) PROVE Answered(c)'
      <4>1. PICK i \in Frames(q) : wire[q][i].kind \in {"ack", "discard"} /\ wire[q][i].copy = c
        BY <3>1, <3>3 DEF AnswerSent
      <4>2. i \in 1..Len(wire'[q]) /\ wire'[q][i] = wire[q][i]
        BY <1>4, <4>1 DEF Frames
      <4> QED
        BY <2>1, <3>1, <4>1, <4>2 DEF Answered, AnswerSent, Frames
    <3> QED
      BY <1>5, <2>1, <3>2, <3>3 DEF Live, Answered
  <2>3. CASE copies[c].at # "held"
    BY <1>5, <2>1, <2>3 DEF Live
  <2> QED
    BY <2>2, <2>3
<1>6. OneLive' /\ FewAway' /\ Unseen' /\ Bounded'
  BY <1>1, <1>5, OnceCopies
<1>7. FewHere'
  <2> SUFFICES ASSUME NEW q \in Runs
               PROVE  /\ cons'[q].at = "handling" => Few(cons'[q].d.msg, cons'[q].d.hdr)
                      /\ cons'[q].at \in {"retrying", "sendingRetry"} =>
                             Few(cons'[q].d.msg, cons'[q].d.hdr + 1)
                      /\ cons'[q].at \notin {"requeueing", "discarding"}
    BY <1>1 DEF FewHere, Few, RetriesLeft
  <2> QED
    BY <1>1 DEF Once, FewHere
<1>8. PlainFrames'
  <2> SUFFICES ASSUME NEW q \in Runs, NEW i \in Frames(q)' PROVE wire'[q][i].kind \in {"publish", "ack"}
    BY DEF PlainFrames
  <2>1. CASE q = r /\ i = last
    BY <1>3, <1>4, <2>1
  <2>2. CASE q = r /\ i # last
    <3>1. i \in Frames(q) /\ wire'[q][i] = wire[q][i]
      BY <1>4, <2>2
    <3> QED
      BY <3>1 DEF Once, PlainFrames
  <2>3. CASE q # r
    BY <1>4, <2>3 DEF Once, PlainFrames, Frames
  <2> QED
    BY <2>1, <2>2, <2>3
<1> QED
  BY <1>6, <1>7, <1>8 DEF Once

LEMMA InstallsOnce == ASSUME BaseInv, Once, Installs PROVE Once'
<1> DEFINE n == run + 1
<1>1. /\ n \in Runs /\ cons' = [cons EXCEPT ![n] = Idle]
      /\ UNCHANGED <<policy, stamp, sent, fails, copies, wire>>
  BY DEF Installs, BaseInv, TypeOK, tallyVars
<1>2. cons[n] = Gone
  BY <1>1 DEF BaseInv, Numbered, TypeOK
<1>3. cons[n].at = "none" /\ cons'[n].at = "idle" /\ \A q \in Runs \ {n} : cons'[q] = cons[q]
  BY <1>1, <1>2 DEF Gone, Idle, BaseInv, TypeOK
<1> HIDE DEF n
<1>4. \E r \in Runs : /\ cons[r].at = "none" /\ cons'[r].at = "idle"
                      /\ \A q \in Runs \ {r} : cons'[q] = cons[q]
  BY <1>1, <1>3
<1> QED
  BY <1>1, <1>4, OnceTurns

\* What is undisturbed was so before, and no step disturbed it.
LEMMA WasQuiet ==
    ASSUME BaseInv, [Next]_vars, Quiet'
    PROVE  Quiet /\ ~Cancels /\ ~StopTakes /\ \A r \in Runs : ~StopCloses(r) /\ ~Drops(r)
<1>1. run' <= 1 /\ cancelled' = {} /\ (\A r \in Runs : chan'[r] # "closed") /\ policy'.retry
  BY DEF Quiet, Undisturbed
<1>2. run \in 0..MaxRuns /\ chan \in [Runs -> {"none", "open", "closed"}] /\ policy' = policy
  BY Growing DEF BaseInv, TypeOK, Grows
<1>3. ~Cancels /\ ~StopTakes
  BY <1>1 DEF Cancels, StopTakes
<1>4. ASSUME NEW r \in Runs PROVE ~StopCloses(r) /\ ~Drops(r)
  <2>1. ~Closes(r)
    BY <1>1, <1>2 DEF Closes
  <2> QED
    BY <1>1, <2>1 DEF StopCloses, Drops
<1>5. \/ UNCHANGED <<run, cancelled, chan>>
      \/ Installs
  <2>1. CASE \E m \in Msgs : PublisherSends(m)
    BY <2>1 DEF PublisherSends, lifeVars
  <2>2. CASE BrokerStep
    BY <2>2 DEF BrokerStep, Delivers, Expires, ExpiresTo, BrokerReads, lifeVars
  <2>3. ASSUME NEW r \in Runs, ConsumerStep(r) PROVE UNCHANGED <<run, cancelled, chan>>
    BY <2>3 DEF ConsumerStep, Takes, HandlerAccepts, HandlerFails, HandlerFailsWhen, HandlerDrops, ReadsChannel,
               Republishes, Publishes, Answers, Exits, lifeVars
  <2>4. CASE UNCHANGED vars
    BY <2>4 DEF vars, lifeVars
  <2> QED
    BY <1>3, <1>4, <2>1, <2>2, <2>3, <2>4 DEF Next
<1>6. CASE Installs
  <2>1. run <= 1 /\ cancelled = {}
    BY <1>1, <1>2, <1>6 DEF Installs
  <2>2. \A r \in Runs : r # run + 1 => chan'[r] = chan[r]
    BY <1>2, <1>6 DEF Installs
  <2>3. \A r \in Runs : r > run => chan[r] = "none"
    BY DEF BaseInv, Numbered
  <2>4. \A r \in Runs : chan[r] # "closed"
    BY <1>1, <1>2, <2>2, <2>3
  <2> QED
    BY <1>1, <1>2, <1>3, <1>4, <2>1, <2>4 DEF Quiet, Undisturbed
<1> QED
  BY <1>1, <1>2, <1>3, <1>4, <1>5, <1>6 DEF Quiet, Undisturbed

LEMMA NextOnceInv == BaseInv /\ OnceInv /\ [Next]_vars => OnceInv'
<1> SUFFICES ASSUME BaseInv, OnceInv, [Next]_vars, Quiet' PROVE Once'
  BY DEF OnceInv
<1>1. Quiet /\ ~Cancels /\ ~StopTakes /\ (\A r \in Runs : ~StopCloses(r) /\ ~Drops(r)) /\ Once
  BY WasQuiet DEF OnceInv
<1>2. CASE \E m \in Msgs : PublisherSends(m)
  BY <1>1, <1>2, PublisherOnce
<1>3. CASE Installs
  BY <1>1, <1>3, InstallsOnce
<1>4. CASE BrokerStep
  BY <1>1, <1>4, BrokerOnce, ReadsOnce DEF BrokerStep
<1>5. ASSUME NEW r \in Runs, ConsumerStep(r) PROVE Once'
  <2>1. CASE \E c \in Ids : Takes(r, c)
    BY <1>1, <2>1, TakesOnce
  <2>2. CASE HandlerAccepts(r) \/ HandlerDrops(r) \/ ReadsChannel(r) \/ Exits(r)
    BY <1>1, <2>2, TurnsOnce
  <2>3. CASE HandlerFails(r) \/ Republishes(r) \/ Answers(r)
    BY <1>1, <2>3, FailsOnce, RepublishesOnce, AnswersOnce
  <2> QED
    BY <1>5, <2>1, <2>2, <2>3 DEF ConsumerStep
<1>6. CASE UNCHANGED vars
  <2>1. UNCHANGED <<policy, stamp, sent, fails, copies, wire, cons>>
    BY <1>6 DEF vars, tallyVars
  <2>2. \A c \in Ids : Live(c)' <=> Live(c)
    BY <2>1 DEF Live, Answered, Answering, AnswerSent, Frames
  <2>3. OneLive' /\ FewAway' /\ Unseen' /\ Bounded'
    BY <1>1, <2>1, <2>2, OnceCopies
  <2>4. FewHere' /\ PlainFrames'
    BY <1>1, <2>1 DEF Once, FewHere, Few, RetriesLeft, PlainFrames, Frames
  <2> QED
    BY <2>3, <2>4 DEF Once
<1> QED
  BY <1>1, <1>2, <1>3, <1>4, <1>5, <1>6 DEF Next

\* As long as nothing broke or restarted, a handler fails on a message once and
\* then at most as often as the policy leaves it retries, whatever count it is
\* published with: it never has two copies at once that a handler may still see,
\* and each counts every failure since the message was published.
THEOREM RetriesAreBounded == Spec => []RetriesBounded
<1>1. Init => OnceInv
  BY InitOnceInv
<1>2. BaseInv /\ OnceInv /\ [Next]_vars => OnceInv'
  BY NextOnceInv
<1>3. OnceInv => RetriesBounded
  BY DEF OnceInv, Once, Bounded, Quiet, RetriesBounded
<1> QED
  BY <1>1, <1>2, <1>3, BaseInvariant, PTL DEF Spec
=============================================================================
