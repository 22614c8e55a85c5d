---------------------------- MODULE RetrySchedule ----------------------------
(***************************************************************************)
(* When retries happen: the durations of internal/dispatcher/backoff.go,   *)
(* the settings that config.Load takes from the environment for them, the  *)
(* next_retry_at column as text, its comparison and order in               *)
(* DueDeliveries, and the ticker of cmd/server/main.go that wakes Retry.   *)
(*                                                                         *)
(* Time is a number of units, Second of them in a second.  The clock       *)
(* advances by one unit, and not past what the goroutine does promptly: it *)
(* takes a waiting tick at once, and a POST ends within the timeout.       *)
(* Integers wrap at IntMax as int64 does.                                  *)
(*                                                                         *)
(* Abstractions.  What an attempt does to a row beside its time is in      *)
(* module Dispatcher; here the first attempt and the manual retry are one  *)
(* step, and statements take no time.  next is 0 where the column is NULL. *)
(* The year and the rest of the text of a second have a fixed width, so    *)
(* that seconds compare as numbers do.                                     *)
(***************************************************************************)
EXTENDS Integers, Sequences, FiniteSets

CONSTANTS
  Rows,          \* ids of deliveries
  Inherited,     \* those the database already has, due at once
  Limit,         \* limit of DueDeliveries (100 in Retry)
  Second,        \* units of time in a second
  Milli,         \* units in a millisecond
  Digits,        \* the decimals of a fraction of a second, no zero at the end
  IntMax,        \* the largest int64
  Jitters,       \* the draws of the generator that are considered
  Environments,  \* values of the variables that config.Load reads
  Unset,         \* a variable that is not set, or that ParseInt refuses
  Horizon,       \* bound: the clock stops there
  MaxRequeues    \* bound: manual retries in a behaviour

ASSUME ScheduleAssumption ==
  /\ IsFiniteSet(Rows) /\ Inherited \subseteq Rows
  /\ Limit \in Nat \ {0}
  /\ Second \in Nat \ {0}
  /\ Milli \in Nat \ {0}
  /\ Digits \in [1..(Second - 1) -> Seq(0..9)]
  /\ IntMax \in Nat \ {0}
  /\ Jitters \subseteq Nat /\ 0 \in Jitters
  /\ \A e \in Environments :
       \A v \in {e.retryBase, e.forwardTimeout, e.maxRetries} : v = Unset \/ v \in Int
  /\ Horizon \in Nat
  /\ MaxRequeues \in Nat

VARIABLES
  phase,      \* of the process: "starting", "refused", "running", "down"
  cfg,        \* RetryBase, ForwardTimeout and MaxRetries as loaded
  now,        \* the clock
  rows,       \* table deliveries
  queue,      \* the batch Retry is at work on, its first row being posted
  since,      \* when that POST began, 0 without one
  tick,       \* is a tick waiting in the channel of the ticker?
  tickAt,     \* when the ticker fires next
  failedAt,   \* history: when a retrying row was given its time
  posts,      \* history: failed posts since the row was created or requeued
  requeues    \* counts against MaxRequeues

vars == <<phase, cfg, now, rows, queue, since, tick, tickAt, failedAt, posts, requeues>>

process == <<phase, cfg>>
worker == <<queue, since>>
ticker == <<tick, tickAt>>

-----------------------------------------------------------------------------
\* int64, and what Load makes of the environment.

Wrap(n) == ((n + IntMax + 1) % (2 * (IntMax + 1))) - (IntMax + 1)

Setting(value, default) == IF value = Unset THEN default ELSE value

\* time.Duration(n) * time.Millisecond
Millis(n) == Wrap(n * Milli)

Load(e) ==
  [base    |-> Millis(Setting(e.retryBase, Second \div Milli)),
   timeout |-> Millis(Setting(e.forwardTimeout, 5 * (Second \div Milli))),
   retries |-> Setting(e.maxRetries, 5)]

\* RetryBase is not among the settings that are checked.
Valid(c) == c.retries > 0 /\ c.timeout > 0

-----------------------------------------------------------------------------
\* next_retry_at as RFC3339Nano text: the second, then 'Z', or '.' with the
\* decimals and 'Z'.  Bytes are numbered so that '.' < '0' .. '9' < 'Z'.

Dot == -1
Zed == 10

Text(t) ==
  IF t % Second = 0
  THEN <<t \div Second, Zed>>
  ELSE <<t \div Second, Dot>> \o Digits[t % Second] \o <<Zed>>

\* The order of SQLite's BINARY collation, on texts none of which is a prefix
\* of another.
Before(s, t) ==
  \E i \in DOMAIN s \cap DOMAIN t :
    /\ s[i] < t[i]
    /\ \A j \in 1..(i - 1) : s[j] = t[j]

-----------------------------------------------------------------------------
\* Slips: what a definition below would be with a plausible mistake in the code
\* it stands for.  No definition of the system uses them.

IsDueEastOfUTC(row, t) ==              \* written in local time, four seconds ahead
  /\ row.status \in {"failed", "retrying"}
  /\ ~Before(Text((t \div Second) * Second), Text(row.next + 4 * Second))

IsDueWestOfUTC(row, t) ==              \* the same, four seconds behind
  /\ row.status \in {"failed", "retrying"}
  /\ ~Before(Text((t \div Second) * Second), Text(row.next - 4 * Second))

OrderedAnyhow(q, due) == TRUE          \* no ORDER BY

DrawsBelowBase(base) == {j \in Jitters : j < base}    \* Int63n(base)

DoublingsLate(attempt) == IF attempt <= 2 THEN 0 ELSE IF attempt >= 6 THEN 4 ELSE attempt - 2

DeadAsFailed(row, n) == [status |-> "failed", attempts |-> n, next |-> 0]

-----------------------------------------------------------------------------
\* Backoff.Duration.

\* How often the loop doubles mul before it reaches maxMul.
Doublings(attempt) == IF attempt <= 1 THEN 0 ELSE IF attempt >= 5 THEN 4 ELSE attempt - 1

Mul(attempt) == <<1, 2, 4, 8, 16>>[Doublings(attempt) + 1]

\* The values of rng.Int63n(base + 1), which panics when there are none.
Draws(base) == {j \in Jitters : j < Wrap(base + 1)}

Duration(base, attempt, jitter) == Wrap(Wrap(base * Mul(attempt)) + jitter)

-----------------------------------------------------------------------------
\* Rows.

NoRow == [status |-> "absent", attempts |-> 0, next |-> 0]

Pending == [status |-> "pending", attempts |-> 0, next |-> 0]

Delivered(row) == [status |-> "delivered", attempts |-> row.attempts + 1, next |-> row.next]

Dead(row, n) == [status |-> "dead", attempts |-> n, next |-> 0]

Retrying(n, t) == [status |-> "retrying", attempts |-> n, next |-> t]

\* The count that markFailed arrives at: an answered POST counts twice.
Counted(row, answer) == row.attempts + (IF answer = "non2xx" THEN 2 ELSE 1)

\* The WHERE clause of DueDeliveries, with t cut to whole seconds.
IsDue(row, t) ==
  /\ row.status \in {"failed", "retrying"}
  /\ ~Before(Text((t \div Second) * Second), Text(row.next))

DueRows == {r \in Rows : IsDue(rows[r], now)}

\* ORDER BY next_retry_at: nothing stands before q or inside it that should not.
Ordered(q, due) ==
  /\ \A i, j \in DOMAIN q : i < j => ~Before(Text(rows[q[j]].next), Text(rows[q[i]].next))
  /\ \A i \in DOMAIN q : \A r \in due :
       r \notin {q[j] : j \in DOMAIN q} => ~Before(Text(rows[r].next), Text(rows[q[i]].next))

\* What the query may return.
Batches ==
  LET n == IF Cardinality(DueRows) < Limit THEN Cardinality(DueRows) ELSE Limit
  IN  {q \in [1..n -> DueRows] :
         (\A i, j \in 1..n : q[i] = q[j] => i = j) /\ Ordered(q, DueRows)}

-----------------------------------------------------------------------------
Init ==
  /\ phase = "starting"
  /\ cfg = [base |-> 0, timeout |-> 0, retries |-> 0]
  /\ now \in 0..(Second - 1)
  /\ rows = [r \in Rows |-> IF r \in Inherited THEN Retrying(1, now) ELSE NoRow]
  /\ queue = <<>>
  /\ since = 0
  /\ tick = FALSE
  /\ tickAt = 0
  /\ failedAt = [r \in Rows |-> now]
  /\ posts = [r \in Rows |-> 0]
  /\ requeues = 0

\* main: Load, and the ticker of the background goroutine.
Start(e) ==
  /\ phase = "starting"
  /\ cfg' = Load(e)
  /\ phase' = IF Valid(Load(e)) THEN "running" ELSE "refused"
  /\ tickAt' = now + Second
  /\ UNCHANGED <<now, rows, worker, tick, failedAt, posts, requeues>>

\* The row and the history of r when an attempt, the n-th as it is counted,
\* has failed and rng has given jitter.
Failed(r, n, jitter) ==
  IF n >= cfg.retries
  THEN /\ rows' = [rows EXCEPT ![r] = Dead(rows[r], n)]
       /\ failedAt' = [failedAt EXCEPT ![r] = 0]
       /\ posts' = [posts EXCEPT ![r] = 0]
  ELSE /\ rows' = [rows EXCEPT ![r] = Retrying(n, now + Duration(cfg.base, n, jitter))]
       /\ failedAt' = [failedAt EXCEPT ![r] = now]
       /\ posts' = [posts EXCEPT ![r] = @ + 1]

Succeeded(r) ==
  /\ rows' = [rows EXCEPT ![r] = Delivered(rows[r])]
  /\ failedAt' = [failedAt EXCEPT ![r] = 0]
  /\ posts' = [posts EXCEPT ![r] = 0]

\* The draws that markFailed makes when it arrives at n; {0} when it makes none.
Drawn(n) == IF n >= cfg.retries THEN {0} ELSE Draws(cfg.base)

\* The first attempt of a new delivery, by its handler.
FirstAttempt(r) ==
  /\ phase = "running"
  /\ rows[r].status = "absent"
  /\ \/ Succeeded(r)
     \/ \E answer \in {"non2xx", "error"} :
          LET n == Counted(rows[r], answer)
          IN  \E jitter \in Drawn(n) : Failed(r, n, jitter)
  /\ UNCHANGED <<process, now, worker, ticker, requeues>>

\* The same when rng panics; net/http recovers, and the row stays pending.
FirstAttemptPanics(r) ==
  /\ phase = "running"
  /\ rows[r].status = "absent"
  /\ \E answer \in {"non2xx", "error"} : Drawn(Counted(rows[r], answer)) = {}
  /\ rows' = [rows EXCEPT ![r] = Pending]
  /\ UNCHANGED <<process, now, worker, ticker, failedAt, posts, requeues>>

\* Requeue.  A panic is recovered and leaves everything as it was.
Requeue(r) ==
  /\ phase = "running"
  /\ rows[r].status = "dead"
  /\ requeues < MaxRequeues
  /\ requeues' = requeues + 1
  /\ \E jitter \in Draws(cfg.base) :
       rows' = [rows EXCEPT ![r] = Retrying(0, now + Duration(cfg.base, 1, jitter))]
  /\ failedAt' = [failedAt EXCEPT ![r] = now]
  /\ posts' = [posts EXCEPT ![r] = 0]
  /\ UNCHANGED <<process, now, worker, ticker>>

-----------------------------------------------------------------------------
\* The background goroutine.

\* A tick is taken: DueDeliveries, and the first POST of its batch.
Wake ==
  /\ phase = "running"
  /\ queue = <<>>
  /\ tick
  /\ tick' = FALSE
  /\ queue' \in Batches
  /\ since' = IF queue' = <<>> THEN 0 ELSE now
  /\ UNCHANGED <<process, now, rows, tickAt, failedAt, posts, requeues>>

\* send has ended for the first row of the batch, and the next is begun.
Sent ==
  /\ phase = "running"
  /\ queue # <<>>
  /\ LET r == Head(queue) IN
     \/ Succeeded(r)
     \/ \E answer \in {"non2xx", "error"} :
          LET n == Counted(rows[r], answer)
          IN  \E jitter \in Drawn(n) : Failed(r, n, jitter)
  /\ queue' = Tail(queue)
  /\ since' = IF Tail(queue) = <<>> THEN 0 ELSE now
  /\ UNCHANGED <<process, now, ticker, requeues>>

\* rng panics in the background goroutine: the process ends.
WorkerPanics ==
  /\ phase = "running"
  /\ queue # <<>>
  /\ \E answer \in {"non2xx", "error"} : Drawn(Counted(rows[Head(queue)], answer)) = {}
  /\ phase' = "down"
  /\ queue' = <<>>
  /\ since' = 0
  /\ UNCHANGED <<cfg, now, rows, ticker, failedAt, posts, requeues>>

\* What cannot wait: a POST at its timeout, a tick that nobody is busy for.
Urgent == IF queue = <<>> THEN tick ELSE now - since >= cfg.timeout

\* The clock.  The channel of the ticker holds one tick; more are dropped.
Advance ==
  /\ phase = "running"
  /\ ~Urgent
  /\ now < Horizon
  /\ now' = now + 1
  /\ IF now' = tickAt THEN tick' = TRUE /\ tickAt' = tickAt + Second
                      ELSE UNCHANGED ticker
  /\ UNCHANGED <<process, rows, worker, failedAt, posts, requeues>>

Next ==
  \/ \E e \in Environments : Start(e)
  \/ \E r \in Rows : FirstAttempt(r) \/ FirstAttemptPanics(r) \/ Requeue(r)
  \/ Wake \/ Sent \/ WorkerPanics
  \/ Advance

Spec == Init /\ [][Next]_vars

-----------------------------------------------------------------------------
\* Properties.

Row == [status   : {"absent", "pending", "delivered", "retrying", "dead"},
        attempts : Nat,
        next     : Int]

\* A base that no duration made of it overflows.
Sane == 0 <= cfg.base /\ 17 * cfg.base <= IntMax

SecondOf(r) == rows[r].next \div Second

\* Every variable has its type, and Retry is at work on retrying rows only.
TypeOK ==
  /\ phase \in {"starting", "refused", "running", "down"}
  /\ cfg \in [base : Int, timeout : Int, retries : Int]
  /\ now \in Nat
  /\ rows \in [Rows -> Row]
  /\ queue \in Seq(Rows)
  /\ since \in Nat
  /\ tick \in BOOLEAN
  /\ tickAt \in Nat
  /\ failedAt \in [Rows -> Nat]
  /\ posts \in [Rows -> Nat]
  /\ requeues \in Nat

\* The text comparison takes rows up before their time, as '.' sorts before 'Z',
\* but never by a second or more, whatever decimals the text has.
EarlyByLessThanASecond ==
  \A i \in DOMAIN queue : since > rows[queue[i]].next - Second

\* The text order misplaces instants within a second only: no row is left out of a
\* batch for one whose time is in a later second.
OldestSecondsFirst ==
  [][Wake => \A i \in DOMAIN queue' : \A r \in DueRows :
       r \notin {queue'[j] : j \in DOMAIN queue'} => SecondOf(queue'[i]) <= SecondOf(r)]_vars

\* 1/2/4/8/16: the multiple of the base that README.md gives the n-th pause.
Factor(n) == IF n <= 1 THEN 1 ELSE IF n = 2 THEN 2 ELSE IF n = 3 THEN 4 ELSE IF n = 4 THEN 8 ELSE 16

\* After the n-th failed post since its creation or manual retry a row waits
\* 2^(n-1) times the base at least (16 times at most), and one base after a manual
\* retry, though Duration is called with the doubly counted attempts; and never more
\* than 17 bases.
PausesGrow ==
  Sane => \A r \in Rows :
    rows[r].status = "retrying" /\ (posts[r] > 0 \/ r \notin Inherited) =>
      /\ rows[r].next - failedAt[r] >= cfg.base * Factor(posts[r])
      /\ rows[r].next - failedAt[r] <= 17 * cfg.base

\* With a base that fits, zero included, no draw panics: no first attempt leaves its
\* row pending for good, and the process stays up.
FittingBaseNeverPanics ==
  Sane => phase # "down" /\ \A r \in Rows : rows[r].status # "pending"

\* How long a retrying row has waited for its post beyond its time.
Late(r) == (IF queue # <<>> /\ r = Head(queue) THEN since ELSE now) - rows[r].next

\* The longest time from one query to the next.
Round == LET batch == Limit * cfg.timeout IN IF batch < Second THEN Second ELSE batch

\* How many batches the other rows can fill.
FullBatches == (Cardinality(Rows) - 1) \div Limit

\* One round until it is asked for, one for every batch that other rows fill, and the
\* posts before it in its own batch; where others can fill one, the rest of its second
\* too, in which rows that fail may come before it again.
MaxLate ==
  (IF FullBatches = 0 THEN 0 ELSE Second) + (1 + FullBatches) * Round + (Limit - 1) * cfg.timeout

\* No retrying row waits longer than that: dropped ticks, a batch smaller than the
\* number of due rows, and rows that fail again and are due at once cost it no more.
Punctual ==
  Sane /\ phase = "running" =>
    \A r \in Rows : rows[r].status = "retrying" => Late(r) <= MaxLate
=============================================================================
