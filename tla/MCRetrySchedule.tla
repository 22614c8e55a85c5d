-------------------------- MODULE MCRetrySchedule --------------------------
(* Instances of RetrySchedule for TLC. *)
EXTENDS RetrySchedule

CONSTANTS r1, r2, r3

\* Quarters of a second: .25, .5, .75
Quarters == <<<<2, 5>>, <<5>>, <<7, 5>>>>

Sample == {0, 1, 2, 32}

Environment(base, timeout, retries) ==
  [retryBase |-> base, forwardTimeout |-> timeout, maxRetries |-> retries]

\* A base of half a second, none, negative, two that overflow (one into a negative
\* base, one in Duration), and the two settings that are refused.
Several ==
  {Environment(1, 1, 3), Environment(1, 1, Unset), Environment(0, 1, 3), Environment(-1, 1, 3),
   Environment(32, 1, 3), Environment(16, 1, 3), Environment(1, 0, 3), Environment(1, 1, 0)}
=============================================================================
