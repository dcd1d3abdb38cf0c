--------------------------- MODULE MCRetryPipeline ---------------------------
(* The policies RetryPipeline is checked with, and the delays they give.    *)
EXTENDS RetryPipeline

Policy(retry, max, backoff, tenths, cap) ==
    [retry |-> retry, maxRetries |-> max, backoff |-> backoff, multiplier |-> tenths,
     maxBackoff |-> cap]

\* Two retries, the first after half a millisecond and the second after three
\* times as long; the zero policy, which allows three retries and has all the
\* defaults; one retry, its delay above the cap; no retries; and no policy.
Growing  == Policy(TRUE, 2, 1, 30, 0)
Default  == Policy(TRUE, 0, 0, 0, 0)
Constant == Policy(TRUE, 1, 1400, 5, 1200)
NoRetry  == Policy(TRUE, -1, 1000, 15, 0)
NoPolicy == Policy(FALSE, -1, 0, 0, 0)

FewPolicies == {Growing, Default, Constant, NoRetry, NoPolicy}

\* Counts that leave from no to four retries: none, negative ones, and some at or
\* above the limit.
FewStamps ==
    [p \in FewPolicies |->
        CASE p = Growing -> {-1, 0}
          [] p = Default -> {-1, 0, 1}
          [] p = Constant -> {0, 2}
          [] p = NoRetry -> {0}
          [] p = NoPolicy -> {0}]

\* One run where there may be many retries, a restart where there are few.
FewStarts == [p \in FewPolicies |-> IF p \in {Growing, Default} THEN 1 ELSE 2]

-----------------------------------------------------------------------------
(* Backoff runs the loop of RetryPolicy.backoff.  What it computes is what  *)
(* the fields of RetryPolicy document: Backoff scaled by BackoffMultiplier  *)
(* for each subsequent retry, capped by MaxBackoff.                         *)

Geometric(p, n) ==
    LET ticks == (Base(p) * Tenths(p)^(n - 1)) \div 10^(n - 1)
    IN  IF ticks > Cap(p) THEN Cap(p) ELSE ticks

Shapes == {Policy(TRUE, 3, b, t, c) :
               b \in {-1, 0, 1, 700, 1000}, t \in {-5, 0, 5, 10, 15, 20, 35}, c \in {-1, 0, 1, 600, 2000}}

ASSUME BackoffIsGeometric ==
    \A p \in Shapes : /\ \A n \in 1..4 : Backoff(p, n) = Geometric(p, n)
                      /\ \A n \in -1..0 : Backoff(p, n) = Backoff(p, 1)

=============================================================================
