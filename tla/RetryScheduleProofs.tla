------------------------- MODULE RetryScheduleProofs -------------------------
(***************************************************************************)
(* Proofs about the schedule of retries, for every length of a second,     *)
(* every decimal notation of its fractions, every width of integers and    *)
(* every environment.                                                      *)
(***************************************************************************)
EXTENDS RetrySchedule, FiniteSetTheorems, SequenceTheorems, TLAPS

-----------------------------------------------------------------------------
\* Arithmetic.

\* Division and remainder by Second.
LEMMA Division ==
  ASSUME NEW t \in Int
  PROVE  /\ t \div Second \in Int
         /\ t % Second \in 0..(Second - 1)
         /\ t = Second * (t \div Second) + (t % Second)
BY ScheduleAssumption, SMT

\* A multiple of a positive number, unless it is 0, is not smaller.
LEMMA Multiple ==
  ASSUME NEW s \in Nat \ {0}, NEW k \in Int, k >= 1
  PROVE  s * k >= s
<1>1. s * (k - 1) >= 0
  BY SMT
<1>2. s * k = s * (k - 1) + s
  BY SMT
<1> QED
  BY <1>1, <1>2, SMT

\* A time cut to whole seconds is one, and in the same second.
LEMMA WholeSecond ==
  ASSUME NEW q \in Int
  PROVE  /\ (q * Second) % Second = 0
         /\ (q * Second) \div Second = q
<1> DEFINE t == q * Second
           d == t \div Second
           m == t % Second
<1>1. Second \in Nat \ {0}
  BY ScheduleAssumption
<1>2. t \in Int
  BY <1>1, SMT
<1>3. d \in Int /\ m \in 0..(Second - 1) /\ t = Second * d + m
  BY <1>2, Division
<1> HIDE DEF d, m
<1>4. Second * (q - d) = m
  BY <1>1, <1>3, SMT
<1>5. q - d < 1
  BY <1>1, <1>3, <1>4, Multiple, SMT
<1>6. q - d > -1
  <2>1. SUFFICES ASSUME d - q >= 1
                 PROVE  FALSE
    BY <1>3, SMT
  <2>2. Second * (d - q) >= Second
    BY <1>1, <1>3, <2>1, Multiple
  <2>3. Second * (d - q) = -(Second * (q - d))
    BY <1>1, <1>3, SMT
  <2> QED
    BY <1>1, <1>3, <1>4, <2>2, <2>3, SMT
<1>7. d = q /\ m = 0
  BY <1>1, <1>3, <1>4, <1>5, <1>6, SMT
<1> QED
  BY <1>7 DEF d, m

\* A number that fits is not changed by wrapping.
LEMMA Remainder ==
  ASSUME NEW m \in Nat, NEW n \in Nat, n < m
  PROVE  n % m = n
BY SMT

LEMMA WrapFits ==
  ASSUME NEW n \in Int, -IntMax - 1 <= n, n <= IntMax
  PROVE  Wrap(n) = n
<1>1. IntMax \in Nat
  BY ScheduleAssumption
<1>2. /\ n + IntMax + 1 \in Nat
      /\ 2 * (IntMax + 1) \in Nat
      /\ n + IntMax + 1 < 2 * (IntMax + 1)
  BY <1>1, SMT
<1>3. (n + IntMax + 1) % (2 * (IntMax + 1)) = n + IntMax + 1
  BY <1>2, Remainder
<1> QED
  BY <1>1, <1>3, SMT DEF Wrap

LEMMA WrapType ==
  ASSUME NEW n \in Int
  PROVE  Wrap(n) \in Int
BY ScheduleAssumption, SMT DEF Wrap

-----------------------------------------------------------------------------
\* Types.

\* Load makes numbers of what the environment gives.
LEMMA LoadType ==
  ASSUME NEW e \in Environments
  PROVE  Load(e) \in [base : Int, timeout : Int, retries : Int]
<1>1. /\ e.retryBase = Unset \/ e.retryBase \in Int
      /\ e.forwardTimeout = Unset \/ e.forwardTimeout \in Int
      /\ e.maxRetries = Unset \/ e.maxRetries \in Int
  BY ScheduleAssumption
<1>2. Second \div Milli \in Int
  BY ScheduleAssumption, SMT
<1>3. /\ Setting(e.retryBase, Second \div Milli) \in Int
      /\ Setting(e.forwardTimeout, 5 * (Second \div Milli)) \in Int
      /\ Setting(e.maxRetries, 5) \in Int
  BY <1>1, <1>2, SMT DEF Setting
<1>4. ASSUME NEW n \in Int PROVE Millis(n) \in Int
  <2>1. n * Milli \in Int
    BY ScheduleAssumption, SMT
  <2> QED
    BY <2>1, WrapType DEF Millis
<1> QED
  BY <1>3, <1>4 DEF Load

\* The multiples of the loop.
LEMMA MulValues ==
  ASSUME NEW n \in Nat
  PROVE  /\ Mul(n) \in {1, 2, 4, 8, 16}
         /\ \A m \in Nat : m <= n => Factor(m) <= Mul(n)
BY SMT DEF Mul, Doublings, Factor

LEMMA DurationType ==
  ASSUME NEW base \in Int, NEW n \in Nat, NEW jitter \in Nat
  PROVE  Duration(base, n, jitter) \in Int
<1>1. Mul(n) \in Int
  BY MulValues
<1>2. base * Mul(n) \in Int
  BY <1>1, SMT
<1>3. Wrap(base * Mul(n)) + jitter \in Int
  BY <1>2, WrapType, SMT
<1> QED
  BY <1>3, WrapType DEF Duration

\* The count of an attempt, and what it draws.
LEMMA CountedDrawn ==
  ASSUME NEW row \in Row, NEW answer \in {"non2xx", "error"}
  PROVE  /\ Counted(row, answer) \in Nat
         /\ Counted(row, answer) > row.attempts
         /\ Drawn(Counted(row, answer)) \subseteq Nat
<1>1. Counted(row, answer) \in Nat /\ Counted(row, answer) > row.attempts
  BY SMT DEF Row, Counted
<1>2. Draws(cfg.base) \subseteq Nat
  BY ScheduleAssumption DEF Draws
<1>3. Drawn(Counted(row, answer)) \subseteq Nat
  BY <1>2, 0 \in Nat DEF Drawn
<1> QED
  BY <1>1, <1>3

\* A batch is a sequence of due rows, none twice.
LEMMA BatchType ==
  ASSUME TypeOK, NEW q \in Batches
  PROVE  /\ q \in Seq(Rows)
         /\ \A i \in DOMAIN q : q[i] \in Rows /\ IsDue(rows[q[i]], now)
         /\ \A i, j \in DOMAIN q : q[i] = q[j] => i = j
         /\ Ordered(q, DueRows)
<1>1. IsFiniteSet(DueRows) /\ Cardinality(DueRows) \in Nat
  BY ScheduleAssumption, FS_Subset, FS_CardinalityType DEF DueRows
<1>2. PICK n \in Nat : /\ q \in [1..n -> DueRows]
                       /\ \A i, j \in 1..n : q[i] = q[j] => i = j
                       /\ Ordered(q, DueRows)
  BY <1>1, ScheduleAssumption DEF Batches
<1>3. DOMAIN q = 1..n
  BY <1>2
<1>4. q \in Seq(DueRows)
  BY <1>2, SMT
<1>5. DueRows \subseteq Rows
  BY DEF DueRows
<1> QED
  BY <1>2, <1>3, <1>4, <1>5 DEF DueRows

\* What a failed attempt leaves has its type, and only the row of r is changed.
LEMMA FailedType ==
  ASSUME TypeOK, NEW r \in Rows, NEW n \in Nat, NEW jitter \in Nat, Failed(r, n, jitter)
  PROVE  /\ rows' \in [Rows -> Row]
         /\ failedAt' \in [Rows -> Nat]
         /\ posts' \in [Rows -> Nat]
         /\ \A s \in Rows : s # r => rows'[s] = rows[s] /\ failedAt'[s] = failedAt[s]
                                     /\ posts'[s] = posts[s]
         /\ rows'[r].status \in {"retrying", "dead"}
<1>1. now + Duration(cfg.base, n, jitter) \in Int
  <2>1. cfg.base \in Int /\ now \in Int
    BY DEF TypeOK
  <2>2. Duration(cfg.base, n, jitter) \in Int
    BY <2>1, DurationType
  <2> QED
    BY <2>1, <2>2, SMT
<1>2. /\ Dead(rows[r], n) \in Row
      /\ Retrying(n, now + Duration(cfg.base, n, jitter)) \in Row
  BY <1>1 DEF Dead, Retrying, Row
<1>3. posts[r] + 1 \in Nat
  BY DEF TypeOK
<1>4. \/ rows' = [rows EXCEPT ![r] = Dead(rows[r], n)]
      \/ rows' = [rows EXCEPT ![r] = Retrying(n, now + Duration(cfg.base, n, jitter))]
  BY DEF Failed
<1>5. \/ failedAt' = [failedAt EXCEPT ![r] = 0] /\ posts' = [posts EXCEPT ![r] = 0]
      \/ failedAt' = [failedAt EXCEPT ![r] = now] /\ posts' = [posts EXCEPT ![r] = @ + 1]
  BY DEF Failed
<1>6. rows' \in [Rows -> Row] /\ \A s \in Rows : s # r => rows'[s] = rows[s]
  BY <1>2, <1>4 DEF TypeOK
<1>7. rows'[r].status \in {"retrying", "dead"}
  BY <1>4 DEF TypeOK, Dead, Retrying
<1>8. /\ failedAt' \in [Rows -> Nat]
      /\ \A s \in Rows : s # r => failedAt'[s] = failedAt[s]
  BY <1>5, 0 \in Nat DEF TypeOK
<1>9. /\ posts' \in [Rows -> Nat]
      /\ \A s \in Rows : s # r => posts'[s] = posts[s]
  BY <1>3, <1>5, 0 \in Nat DEF TypeOK
<1> QED
  BY <1>6, <1>7, <1>8, <1>9

LEMMA SucceededType ==
  ASSUME TypeOK, NEW r \in Rows, Succeeded(r)
  PROVE  /\ rows' \in [Rows -> Row]
         /\ failedAt' \in [Rows -> Nat]
         /\ posts' \in [Rows -> Nat]
         /\ \A s \in Rows : s # r => rows'[s] = rows[s] /\ failedAt'[s] = failedAt[s]
                                     /\ posts'[s] = posts[s]
         /\ rows'[r].status = "delivered"
<1>1. rows[r] \in Row /\ Delivered(rows[r]) \in Row
  BY DEF TypeOK, Row, Delivered
<1>2. rows' \in [Rows -> Row] /\ \A s \in Rows : s # r => rows'[s] = rows[s]
  BY <1>1 DEF TypeOK, Succeeded
<1>3. rows'[r].status = "delivered"
  BY DEF TypeOK, Succeeded, Delivered
<1> QED
  BY <1>2, <1>3 DEF TypeOK, Succeeded

-----------------------------------------------------------------------------
\* The batch of the worker.

\* What precedes a text decides on its first character.
LEMMA FirstOfConcatenation ==
  ASSUME NEW s \in Seq(Int), NEW u \in Seq(Int), Len(s) >= 1
  PROVE  /\ s \o u \in Seq(Int)
         /\ Len(s \o u) >= 1
         /\ (s \o u)[1] = s[1]
<1>1. s \o u \in Seq(Int) /\ Len(s \o u) = Len(s) + Len(u)
  BY ConcatProperties
<1>2. Len(s) \in Nat /\ Len(u) \in Nat
  BY LenProperties
<1>3. (s \o u)[1] = s[1]
  BY <1>2, ConcatProperties, SMT
<1> QED
  BY <1>1, <1>2, <1>3, SMT

\* A text begins with its second.
LEMMA FirstOfText ==
  ASSUME NEW t \in Int
  PROVE  /\ 1 \in DOMAIN Text(t)
         /\ Text(t)[1] = t \div Second
<1>1. t \div Second \in Int /\ t % Second \in 0..(Second - 1)
  BY Division
<1>2. CASE t % Second = 0
  BY <1>1, <1>2 DEF Text
<1>3. CASE t % Second # 0
  <2>1. Digits[t % Second] \in Seq(Int)
    <3>1. t % Second \in 1..(Second - 1)
      BY <1>1, <1>3, ScheduleAssumption, SMT
    <3>2. Digits[t % Second] \in Seq(0..9)
      BY <3>1, ScheduleAssumption
    <3> QED
      BY <3>2, SMT
  <2>2. <<t \div Second, Dot>> \in Seq(Int) /\ <<Zed>> \in Seq(Int)
    BY <1>1 DEF Dot, Zed
  <2> DEFINE a == <<t \div Second, Dot>>
             b == Digits[t % Second]
             c == <<Zed>>
  <2>3. Text(t) = a \o b \o c
    BY <1>3 DEF Text
  <2>4. Len(a) = 2 /\ a[1] = t \div Second
    OBVIOUS
  <2> HIDE DEF a, b, c
  <2>5. a \in Seq(Int) /\ b \in Seq(Int) /\ c \in Seq(Int)
    BY <2>1, <2>2 DEF a, b, c
  <2>6. /\ 1 \in DOMAIN ((a \o b) \o c)
        /\ ((a \o b) \o c)[1] = a[1]
    <3>1. a \o b \in Seq(Int) /\ Len(a \o b) >= 1 /\ (a \o b)[1] = a[1]
      <4>1. Len(a) >= 1
        BY <2>4, SMT
      <4> QED
        BY <4>1, <2>4, <2>5, FirstOfConcatenation
    <3>2. /\ (a \o b) \o c \in Seq(Int) /\ Len((a \o b) \o c) >= 1
          /\ ((a \o b) \o c)[1] = a[1]
      BY <3>1, <2>5, FirstOfConcatenation
    <3> QED
      BY <3>2, LenProperties, SMT
  <2> QED
    BY <2>3, <2>4, <2>6
<1> QED
  BY <1>2, <1>3

\* An instant in the second of another, or in a later one, is less than a second before it.
LEMMA SameSecond ==
  ASSUME NEW t \in Int, NEW n \in Int, t \div Second <= n \div Second
  PROVE  n > t - Second
<1> DEFINE a == t \div Second
           b == n \div Second
<1>1. /\ a \in Int /\ b \in Int /\ a <= b
      /\ t < Second * a + Second
      /\ n >= Second * b
  BY Division, ScheduleAssumption, SMT
<1>2. Second \in Nat \ {0}
  BY ScheduleAssumption
<1> HIDE DEF a, b
<1>3. CASE a = b
  BY <1>1, <1>2, <1>3, SMT
<1>4. CASE b - a >= 1
  <2>1. Second * (b - a) >= Second
    BY <1>1, <1>2, <1>4, Multiple
  <2>2. Second * (b - a) = Second * b - Second * a
    BY <1>1, <1>2, SMT
  <2> QED
    BY <1>1, <1>2, <2>1, <2>2, SMT
<1> QED
  BY <1>1, <1>3, <1>4, SMT

\* A row that is due at t has its time in the second of t or before it.
LEMMA DueSeconds ==
  ASSUME NEW row \in Row, NEW t \in Int, IsDue(row, t)
  PROVE  row.next \div Second <= t \div Second
<1> DEFINE d == t \div Second
           n == row.next \div Second
<1>1. d \in Int /\ n \in Int
  BY Division DEF Row
<1>2. (d * Second) % Second = 0 /\ (d * Second) \div Second = d
  BY <1>1, WholeSecond
<1>3. Text(d * Second) = <<d, Zed>>
  BY <1>2 DEF Text
<1> HIDE DEF d, n
<1>4. ~Before(<<d, Zed>>, Text(row.next))
  BY <1>3 DEF IsDue, d
<1>5. 1 \in DOMAIN Text(row.next) /\ Text(row.next)[1] = n
  BY FirstOfText DEF Row, n
<1>6. 1 \in DOMAIN <<d, Zed>> /\ <<d, Zed>>[1] = d
  BY <1>1
<1>7. ~(d < n)
  BY <1>4, <1>5, <1>6, SMT DEF Before
<1> QED
  BY <1>1, <1>7, SMT DEF d, n

\* The rows of a batch are different and stay retrying until their POST has ended, and
\* nobody else touches them: this makes EarlyByLessThanASecond inductive.
BatchHeld ==
  /\ \A i, j \in DOMAIN queue : queue[i] = queue[j] => i = j
  /\ \A i \in DOMAIN queue : rows[queue[i]].status = "retrying"
  /\ queue # <<>> => since <= now

WorkInv == TypeOK /\ BatchHeld /\ EarlyByLessThanASecond

\* The part of WorkInv that a step of others keeps, when the rows of the batch do not
\* change and no POST begins.
LEMMA BatchUntouched ==
  ASSUME WorkInv, UNCHANGED worker, now' \in Int, now' >= now,
         \A r \in Rows : rows[r].status = "retrying" => rows'[r] = rows[r]
  PROVE  (BatchHeld /\ EarlyByLessThanASecond)'
<1>1. queue' = queue /\ since' = since
  BY DEF worker
<1>2. \A i \in DOMAIN queue : queue[i] \in Rows
  BY SMT DEF WorkInv, TypeOK
<1>3. \A i \in DOMAIN queue : rows'[queue[i]] = rows[queue[i]]
  BY <1>2 DEF WorkInv, BatchHeld
<1>4. now \in Int /\ since \in Int
  BY DEF WorkInv, TypeOK
<1>5. queue # <<>> => since <= now'
  <2>1. SUFFICES ASSUME queue # <<>> PROVE since <= now'
    OBVIOUS
  <2>2. since <= now
    BY <2>1 DEF WorkInv, BatchHeld
  <2> QED
    BY <1>4, <2>2, SMT
<1> QED
  BY <1>1, <1>3, <1>5 DEF WorkInv, BatchHeld, EarlyByLessThanASecond

LEMMA WorkInit == Init => WorkInv
<1> SUFFICES ASSUME Init PROVE WorkInv
  OBVIOUS
<1>1. now \in Nat
  BY ScheduleAssumption, SMT DEF Init
<1>2. rows \in [Rows -> Row]
  <2>1. \A r \in Rows : Retrying(1, now) \in Row /\ NoRow \in Row
    BY <1>1, SMT DEF Retrying, NoRow, Row
  <2> QED
    BY <2>1 DEF Init
<1>3. queue = <<>> /\ queue \in Seq(Rows)
  BY DEF Init
<1>4. DOMAIN queue = {}
  BY <1>3, SMT
<1>5. cfg \in [base : Int, timeout : Int, retries : Int]
  BY SMT DEF Init
<1>6. failedAt \in [Rows -> Nat] /\ posts \in [Rows -> Nat]
  BY <1>1 DEF Init
<1>7. TypeOK
  BY <1>1, <1>2, <1>3, <1>5, <1>6, 0 \in Nat DEF Init, TypeOK
<1>8. BatchHeld /\ EarlyByLessThanASecond
  BY <1>3, <1>4 DEF BatchHeld, EarlyByLessThanASecond
<1> QED
  BY <1>7, <1>8 DEF WorkInv

\* A handler's attempt finds no row, so that no batch holds it.
LEMMA FirstAttemptKeeps ==
  ASSUME WorkInv, NEW r \in Rows, FirstAttempt(r)
  PROVE  WorkInv'
<1>1. TypeOK
  BY DEF WorkInv
<1> DEFINE OneRow ==
             /\ rows' \in [Rows -> Row] /\ failedAt' \in [Rows -> Nat] /\ posts' \in [Rows -> Nat]
             /\ \A s \in Rows : s # r => rows'[s] = rows[s]
<1>2. OneRow
  <2>1. CASE Succeeded(r)
    BY <1>1, <2>1, SucceededType
  <2>2. ASSUME NEW answer \in {"non2xx", "error"},
               NEW jitter \in Drawn(Counted(rows[r], answer)),
               Failed(r, Counted(rows[r], answer), jitter)
        PROVE  OneRow
    <3>1. rows[r] \in Row
      BY <1>1 DEF TypeOK
    <3>2. Counted(rows[r], answer) \in Nat /\ jitter \in Nat
      BY <3>1, CountedDrawn
    <3> QED
      BY <1>1, <2>2, <3>2, FailedType
  <2> QED
    BY <2>1, <2>2 DEF FirstAttempt
<1>3. TypeOK'
  BY <1>1, <1>2 DEF TypeOK, FirstAttempt, process, worker, ticker
<1>4. \A s \in Rows : rows[s].status = "retrying" => rows'[s] = rows[s]
  BY <1>2 DEF FirstAttempt
<1>5. UNCHANGED worker /\ now' \in Int /\ now' >= now
  BY <1>1, SMT DEF FirstAttempt, TypeOK
<1> QED
  BY <1>3, <1>4, <1>5, BatchUntouched DEF WorkInv

\* The worker's own step: it gives up the first row of its batch.
LEMMA SentKeeps ==
  ASSUME WorkInv, Sent
  PROVE  WorkInv'
<1> DEFINE r == Head(queue)
<1>1. TypeOK /\ queue # <<>> /\ queue \in Seq(Rows) /\ since \in Nat /\ now \in Nat
  BY DEF WorkInv, TypeOK, Sent
<1>2. r \in Rows /\ r = queue[1] /\ 1 \in DOMAIN queue
  BY <1>1, SMT
<1> DEFINE OneRow ==
             /\ rows' \in [Rows -> Row] /\ failedAt' \in [Rows -> Nat] /\ posts' \in [Rows -> Nat]
             /\ \A s \in Rows : s # r => rows'[s] = rows[s]
<1>3. OneRow
  <2>1. CASE Succeeded(r)
    BY <1>1, <1>2, <2>1, SucceededType
  <2>2. ASSUME NEW answer \in {"non2xx", "error"},
               NEW jitter \in Drawn(Counted(rows[r], answer)),
               Failed(r, Counted(rows[r], answer), jitter)
        PROVE  OneRow
    <3>1. rows[r] \in Row
      BY <1>1, <1>2 DEF TypeOK
    <3>2. Counted(rows[r], answer) \in Nat /\ jitter \in Nat
      BY <3>1, CountedDrawn
    <3> QED
      BY <1>1, <1>2, <2>2, <3>2, FailedType
  <2> QED
    BY <2>1, <2>2 DEF Sent
<1>4. /\ queue' = Tail(queue)
      /\ since' = IF queue' = <<>> THEN 0 ELSE now
  BY DEF Sent
<1>5. queue' \in Seq(Rows) /\ since' \in Nat /\ now' = now
  BY <1>1, <1>4, SMT DEF Sent
<1>6. TypeOK'
  BY <1>1, <1>3, <1>5 DEF TypeOK, Sent, process, ticker
<1>7. \A i \in DOMAIN queue' : i + 1 \in DOMAIN queue /\ queue'[i] = queue[i + 1] /\ i \in Nat \ {0}
  BY <1>1, <1>4, SMT
<1>8. \A i \in DOMAIN queue' : queue'[i] # r /\ queue'[i] \in Rows
  <2>1. TAKE i \in DOMAIN queue'
  <2>2. i + 1 # 1
    BY <1>7, SMT
  <2>3. queue[i + 1] # queue[1]
    BY <1>2, <1>7, <2>2 DEF WorkInv, BatchHeld
  <2>4. queue'[i] \in Rows
    BY <1>5, SMT
  <2> QED
    BY <1>2, <1>7, <2>3, <2>4
<1>9. \A i \in DOMAIN queue' : rows'[queue'[i]] = rows[queue[i + 1]]
  BY <1>3, <1>7, <1>8
<1>10. \A i, j \in DOMAIN queue' : queue'[i] = queue'[j] => i = j
  <2>1. SUFFICES ASSUME NEW i \in DOMAIN queue', NEW j \in DOMAIN queue',
                        queue'[i] = queue'[j]
                 PROVE  i = j
    OBVIOUS
  <2>2. i + 1 = j + 1
    BY <1>7, <2>1 DEF WorkInv, BatchHeld
  <2> QED
    BY <1>7, <2>2, SMT
<1>11. queue' # <<>> => since' <= now'
  BY <1>1, <1>4, <1>5, SMT
<1>12. BatchHeld'
  BY <1>7, <1>9, <1>10, <1>11 DEF WorkInv, BatchHeld
<1>13. EarlyByLessThanASecond'
  <2>1. SUFFICES ASSUME NEW i \in DOMAIN queue'
                 PROVE  since' > rows'[queue'[i]].next - Second
    BY DEF EarlyByLessThanASecond
  <2>2. since > rows[queue[i + 1]].next - Second
    BY <1>7 DEF WorkInv, EarlyByLessThanASecond
  <2>3. queue' # <<>>
    BY SMT
  <2>4. since' = now /\ since <= now
    BY <1>1, <1>4, <2>3 DEF WorkInv, BatchHeld
  <2>5. rows'[queue'[i]] = rows[queue[i + 1]] /\ rows'[queue'[i]].next \in Int
    BY <1>3, <1>8, <1>9 DEF Row
  <2> QED
    BY <1>1, <2>2, <2>4, <2>5, ScheduleAssumption, SMT
<1> QED
  BY <1>6, <1>12, <1>13 DEF WorkInv

\* A batch begins with due rows.
LEMMA WakeKeeps ==
  ASSUME WorkInv, Wake
  PROVE  WorkInv'
<1>1. TypeOK /\ now \in Nat
  BY DEF WorkInv, TypeOK
<1>2. /\ queue' \in Batches
      /\ since' = IF queue' = <<>> THEN 0 ELSE now
      /\ now' = now /\ rows' = rows
  BY DEF Wake
<1>3. /\ queue' \in Seq(Rows)
      /\ \A i \in DOMAIN queue' : queue'[i] \in Rows /\ IsDue(rows[queue'[i]], now)
      /\ \A i, j \in DOMAIN queue' : queue'[i] = queue'[j] => i = j
  BY <1>1, <1>2, BatchType
<1>4. TypeOK'
  BY <1>1, <1>2, <1>3, 0 \in Nat DEF TypeOK, Wake, process
<1>5. \A i \in DOMAIN queue' : rows[queue'[i]] \in Row
  BY <1>1, <1>3 DEF TypeOK
<1>6. BatchHeld'
  <2>1. \A i \in DOMAIN queue' : rows[queue'[i]].status = "retrying"
    BY <1>3, <1>5 DEF IsDue, Row
  <2>2. queue' # <<>> => since' <= now'
    BY <1>1, <1>2, SMT
  <2> QED
    BY <1>2, <1>3, <2>1, <2>2 DEF BatchHeld
<1>7. EarlyByLessThanASecond'
  <2>1. SUFFICES ASSUME NEW i \in DOMAIN queue'
                 PROVE  since' > rows[queue'[i]].next - Second
    BY <1>2 DEF EarlyByLessThanASecond
  <2> DEFINE t == rows[queue'[i]].next
  <2>2. t \in Int /\ since' = now
    <3>1. queue' # <<>>
      BY SMT
    <3> QED
      BY <1>2, <1>5, <3>1 DEF Row
  <2>3. t \div Second <= now \div Second
    BY <1>1, <1>3, <1>5, DueSeconds, SMT
  <2> HIDE DEF t
  <2>4. now > t - Second
    BY <1>1, <2>2, <2>3, SameSecond
  <2> QED
    BY <2>2, <2>4 DEF t
<1> QED
  BY <1>4, <1>6, <1>7 DEF WorkInv

LEMMA WorkNext == WorkInv /\ [Next]_vars => WorkInv'
<1> SUFFICES ASSUME WorkInv, [Next]_vars PROVE WorkInv'
  OBVIOUS
<1>0. TypeOK /\ now \in Nat
  BY DEF WorkInv, TypeOK
<1>1. ASSUME NEW e \in Environments, Start(e)
      PROVE  WorkInv'
  <2>1. Load(e) \in [base : Int, timeout : Int, retries : Int]
    BY LoadType
  <2>2. now + Second \in Nat
    BY <1>0, ScheduleAssumption, SMT
  <2>3. TypeOK'
    BY <1>0, <1>1, <2>1, <2>2 DEF TypeOK, Start, worker
  <2>4. now' \in Int /\ now' >= now
    BY <1>0, <1>1, SMT DEF Start
  <2> QED
    BY <1>1, <2>3, <2>4, BatchUntouched DEF Start, WorkInv
<1>2. ASSUME NEW r \in Rows, FirstAttempt(r)
      PROVE  WorkInv'
  BY <1>2, FirstAttemptKeeps
<1>3. ASSUME NEW r \in Rows, FirstAttemptPanics(r)
      PROVE  WorkInv'
  <2>1. Pending \in Row
    BY DEF Pending, Row
  <2>2. TypeOK'
    BY <1>0, <1>3, <2>1 DEF TypeOK, FirstAttemptPanics, process, worker, ticker
  <2>3. now' \in Int /\ now' >= now
    BY <1>0, <1>3, SMT DEF FirstAttemptPanics
  <2>4. \A s \in Rows : rows[s].status = "retrying" => rows'[s] = rows[s]
    BY <1>0, <1>3 DEF FirstAttemptPanics, TypeOK
  <2> QED
    BY <1>3, <2>2, <2>3, <2>4, BatchUntouched DEF FirstAttemptPanics, WorkInv
<1>4. ASSUME NEW r \in Rows, Requeue(r)
      PROVE  WorkInv'
  <2>1. PICK jitter \in Draws(cfg.base) :
          rows' = [rows EXCEPT ![r] = Retrying(0, now + Duration(cfg.base, 1, jitter))]
    BY <1>4 DEF Requeue
  <2>2. jitter \in Nat /\ cfg.base \in Int
    BY <1>0, ScheduleAssumption DEF Draws, TypeOK
  <2>3. Duration(cfg.base, 1, jitter) \in Int
    BY <2>2, 1 \in Nat, DurationType
  <2>4. Retrying(0, now + Duration(cfg.base, 1, jitter)) \in Row
    <3>1. now + Duration(cfg.base, 1, jitter) \in Int
      BY <1>0, <2>3, SMT
    <3> QED
      BY <3>1, 0 \in Nat DEF Retrying, Row
  <2>5. /\ rows' \in [Rows -> Row]
        /\ \A s \in Rows : rows[s].status = "retrying" => rows'[s] = rows[s]
    BY <1>0, <1>4, <2>1, <2>4 DEF Requeue, TypeOK
  <2>6. /\ failedAt' \in [Rows -> Nat] /\ posts' \in [Rows -> Nat]
        /\ requeues' \in Nat /\ now' = now
    BY <1>0, <1>4, SMT DEF Requeue, TypeOK
  <2>7. TypeOK'
    BY <1>0, <1>4, <2>5, <2>6 DEF TypeOK, Requeue, process, worker, ticker
  <2>8. now' \in Int /\ now' >= now
    BY <1>0, <2>6, SMT
  <2> QED
    BY <1>4, <2>5, <2>7, <2>8, BatchUntouched DEF Requeue, WorkInv
<1>5. CASE Wake
  BY <1>5, WakeKeeps
<1>6. CASE Sent
  BY <1>6, SentKeeps
<1>7. CASE WorkerPanics
  <2>1. queue' = <<>> /\ DOMAIN queue' = {} /\ queue' \in Seq(Rows)
    BY <1>7, SMT DEF WorkerPanics
  <2>2. TypeOK'
    BY <1>0, <1>7, <2>1, 0 \in Nat DEF TypeOK, WorkerPanics, ticker
  <2> QED
    BY <2>1, <2>2 DEF WorkInv, BatchHeld, EarlyByLessThanASecond
<1>8. CASE Advance
  <2>1. now' \in Nat /\ now' \in Int /\ now' >= now
    BY <1>0, <1>8, SMT DEF Advance
  <2>2. tick' \in BOOLEAN /\ tickAt' \in Nat
    <3>1. tickAt + Second \in Nat /\ tick \in BOOLEAN /\ tickAt \in Nat
      BY <1>0, ScheduleAssumption, SMT DEF TypeOK
    <3> QED
      BY <1>8, <3>1 DEF Advance, ticker
  <2>3. TypeOK'
    BY <1>0, <1>8, <2>1, <2>2 DEF TypeOK, Advance, process, worker
  <2> QED
    BY <1>8, <2>1, <2>3, BatchUntouched DEF Advance, WorkInv
<1>9. CASE UNCHANGED vars
  BY <1>9 DEF vars, WorkInv, TypeOK, BatchHeld, EarlyByLessThanASecond, worker, process, ticker
<1> QED
  BY <1>1, <1>2, <1>3, <1>4, <1>5, <1>6, <1>7, <1>8, <1>9 DEF Next

LEMMA WorkHolds == Spec => []WorkInv
BY WorkInit, WorkNext, PTL DEF Spec

\* Every variable keeps its type: whatever the environment says, the settings are
\* numbers, wrapped or not, and so is every time that is made of them.
THEOREM TypeCorrect == Spec => []TypeOK
<1>1. WorkInv => TypeOK
  BY DEF WorkInv
<1> QED
  BY <1>1, WorkHolds, PTL

\* No retry is posted a second or more before its time (DueDeliveries compares text),
\* for every decimal notation of the fractions and every length of a second.
THEOREM NeverASecondEarly == Spec => []EarlyByLessThanASecond
<1>1. WorkInv => EarlyByLessThanASecond
  BY DEF WorkInv
<1> QED
  BY <1>1, WorkHolds, PTL

\* Texts order their seconds.
LEMMA TextOrdersSeconds ==
  ASSUME NEW s \in Int, NEW t \in Int, ~Before(Text(t), Text(s))
  PROVE  s \div Second <= t \div Second
<1>1. /\ 1 \in DOMAIN Text(s) /\ Text(s)[1] = s \div Second
      /\ 1 \in DOMAIN Text(t) /\ Text(t)[1] = t \div Second
      /\ s \div Second \in Int /\ t \div Second \in Int
  BY FirstOfText, Division
<1> DEFINE a == Text(s)
           b == Text(t)
<1> HIDE DEF a, b
<1>2. ~Before(b, a)
  BY DEF a, b
<1>3. ~(b[1] < a[1])
  BY <1>1, <1>2, SMT DEF Before, a, b
<1> QED
  BY <1>1, <1>3, SMT DEF a, b

\* A batch leaves no row out for one of a later second, whatever the limit
\* (the ORDER BY of DueDeliveries, on text).
THEOREM LaterSecondsWait == Spec => OldestSecondsFirst
<1>1. ASSUME TypeOK, Wake,
             NEW i \in DOMAIN queue', NEW r \in DueRows,
             r \notin {queue'[j] : j \in DOMAIN queue'}
      PROVE  SecondOf(queue'[i]) <= SecondOf(r)
  <2>1. queue' \in Batches
    BY <1>1 DEF Wake
  <2>2. Ordered(queue', DueRows) /\ queue'[i] \in Rows
    BY <1>1, <2>1, BatchType
  <2>3. ~Before(Text(rows[r].next), Text(rows[queue'[i]].next))
    BY <1>1, <2>2 DEF Ordered
  <2>4. rows[r].next \in Int /\ rows[queue'[i]].next \in Int
    BY <1>1, <2>2 DEF TypeOK, Row, DueRows
  <2> QED
    BY <2>3, <2>4, TextOrdersSeconds DEF SecondOf
<1>2. TypeOK /\ [Next]_vars =>
        [Wake => \A i \in DOMAIN queue' : \A r \in DueRows :
           r \notin {queue'[j] : j \in DOMAIN queue'} => SecondOf(queue'[i]) <= SecondOf(r)]_vars
  BY <1>1
<1> QED
  BY <1>2, TypeCorrect, PTL DEF Spec, OldestSecondsFirst

-----------------------------------------------------------------------------
\* The pauses.

\* With a sane base every duration is what the arithmetic says, and there is a draw.
LEMMA SaneDurations ==
  ASSUME cfg.base \in Int, Sane
  PROVE  /\ Draws(cfg.base) # {}
         /\ \A n, m \in Nat : \A jitter \in Draws(cfg.base) : m <= n =>
              /\ Duration(cfg.base, n, jitter) \in Int
              /\ Duration(cfg.base, n, jitter) >= cfg.base * Factor(m)
              /\ Duration(cfg.base, n, jitter) <= 17 * cfg.base
<1> DEFINE b == cfg.base
<1>1. b \in Nat /\ IntMax \in Nat \ {0} /\ 17 * b <= IntMax
  BY ScheduleAssumption, SMT DEF Sane
<1> HIDE DEF b
<1>2. Wrap(b + 1) = b + 1
  <2>1. b + 1 \in Int /\ -IntMax - 1 <= b + 1 /\ b + 1 <= IntMax
    BY <1>1, SMT
  <2> QED
    BY <2>1, WrapFits
<1>3. \A j \in Draws(b) : j \in Nat /\ j <= b
  BY <1>1, <1>2, ScheduleAssumption, SMT DEF Draws
<1>4. 0 \in Draws(b)
  BY <1>1, <1>2, ScheduleAssumption, SMT DEF Draws
<1>5. ASSUME NEW n \in Nat, NEW m \in Nat, NEW jitter \in Draws(b), m <= n
      PROVE  /\ Duration(b, n, jitter) \in Int
             /\ Duration(b, n, jitter) >= b * Factor(m)
             /\ Duration(b, n, jitter) <= 17 * b
  <2>1. jitter \in Nat /\ jitter <= b
    BY <1>3
  <2>2. Mul(n) \in {1, 2, 4, 8, 16} /\ Factor(m) <= Mul(n) /\ Factor(m) \in {1, 2, 4, 8, 16}
    <3>1. Factor(m) \in {1, 2, 4, 8, 16}
      BY SMT DEF Factor
    <3> QED
      BY <1>5, <3>1, MulValues
  <2> DEFINE k == Mul(n)
             f == Factor(m)
  <2>3. Duration(b, n, jitter) = Wrap(Wrap(b * k) + jitter)
    BY DEF Duration
  <2>4. k \in {1, 2, 4, 8, 16} /\ f \in {1, 2, 4, 8, 16} /\ f <= k
    BY <2>2
  <2> HIDE DEF k, f
  <2>5. b * k \in Nat /\ b * k <= 16 * b /\ b * f <= b * k
    BY <1>1, <2>4, SMT
  <2>6. Wrap(b * k) = b * k
    <3>1. b * k \in Int /\ -IntMax - 1 <= b * k /\ b * k <= IntMax
      BY <1>1, <2>5, SMT
    <3> QED
      BY <3>1, WrapFits
  <2>7. Wrap(b * k + jitter) = b * k + jitter
    <3>1. b * k + jitter \in Int /\ -IntMax - 1 <= b * k + jitter /\ b * k + jitter <= IntMax
      BY <1>1, <2>1, <2>5, SMT
    <3> QED
      BY <3>1, WrapFits
  <2>8. Duration(b, n, jitter) = b * k + jitter
    BY <2>3, <2>6, <2>7
  <2>9. b * f \in Int
    BY <1>1, <2>4, SMT
  <2> QED
    BY <1>1, <2>1, <2>5, <2>8, <2>9, SMT DEF f
<1> QED
  BY <1>4, <1>5 DEF b

\* The time of a retrying row against the posts of its history: the count in the row,
\* which Duration is called with, is never behind them.  Before Start there are the
\* inherited rows only, and they have no history.
Spaced(r) ==
  /\ posts[r] <= rows[r].attempts
  /\ rows[r].status = "retrying" /\ (posts[r] > 0 \/ r \notin Inherited) =>
       /\ rows[r].next - failedAt[r] >= cfg.base * Factor(posts[r])
       /\ rows[r].next - failedAt[r] <= 17 * cfg.base

Fresh ==
  phase = "starting" =>
    \A r \in Rows :
      /\ posts[r] = 0
      /\ rows[r].status \in {"absent", "retrying"}
      /\ rows[r].status = "retrying" => r \in Inherited

Paced ==
  /\ Fresh
  /\ Sane => (\A r \in Rows : Spaced(r)) /\ FittingBaseNeverPanics

PauseInv == WorkInv /\ Paced

\* A failed attempt leaves a row that is spaced.
LEMMA FailedSpaced ==
  ASSUME TypeOK, Sane, cfg' = cfg, NEW r \in Rows, NEW answer \in {"non2xx", "error"},
         NEW jitter \in Drawn(Counted(rows[r], answer)),
         Failed(r, Counted(rows[r], answer), jitter),
         posts[r] <= rows[r].attempts
  PROVE  Spaced(r)'
<1> DEFINE n == Counted(rows[r], answer)
           t == now + Duration(cfg.base, n, jitter)
<1>1. /\ rows[r] \in Row /\ posts[r] \in Nat /\ now \in Nat /\ cfg.base \in Int
      /\ rows[r].attempts \in Nat
  BY DEF TypeOK, Row
<1>2. n \in Nat /\ n > rows[r].attempts /\ jitter \in Nat
  BY <1>1, CountedDrawn
<1> HIDE DEF n
<1>3. CASE n >= cfg.retries
  <2>1. rows'[r].status = "dead" /\ rows'[r].attempts = n /\ posts'[r] = 0
    BY <1>3 DEF Failed, TypeOK, Dead, n
  <2>2. posts'[r] <= rows'[r].attempts
    BY <1>2, <2>1, SMT
  <2> QED
    BY <2>1, <2>2 DEF Spaced
<1>4. CASE ~(n >= cfg.retries)
  <2>1. jitter \in Draws(cfg.base)
    BY <1>4 DEF Drawn, n
  <2>2. /\ rows' = [rows EXCEPT ![r] = Retrying(n, t)]
        /\ failedAt' = [failedAt EXCEPT ![r] = now]
        /\ posts' = [posts EXCEPT ![r] = @ + 1]
    BY <1>4 DEF Failed, n, t
  <2>3. /\ rows'[r].attempts = n /\ rows'[r].next = t
        /\ failedAt'[r] = now
        /\ posts'[r] = posts[r] + 1
    BY <2>2 DEF TypeOK, Retrying
  <2>4. posts[r] + 1 \in Nat /\ posts[r] + 1 <= n
    BY <1>1, <1>2, SMT
  <2> DEFINE d == Duration(cfg.base, n, jitter)
  <2>5. /\ d \in Int /\ d >= cfg.base * Factor(posts[r] + 1) /\ d <= 17 * cfg.base
    BY <1>1, <1>2, <2>1, <2>4, SaneDurations
  <2>6. t = now + d
    OBVIOUS
  <2> HIDE DEF d, t
  <2>7. t - now = d
    BY <1>1, <2>5, <2>6, SMT
  <2> QED
    BY <2>3, <2>4, <2>5, <2>7 DEF Spaced
<1> QED
  BY <1>3, <1>4

\* A row that is retrying with its history unchanged, or not retrying, is spaced.
LEMMA StillSpaced ==
  ASSUME cfg' = cfg, NEW r \in Rows, Spaced(r),
         \/ rows'[r] = rows[r] /\ failedAt'[r] = failedAt[r] /\ posts'[r] = posts[r]
         \/ rows'[r].status # "retrying" /\ posts'[r] <= rows'[r].attempts
  PROVE  Spaced(r)'
BY DEF Spaced

LEMMA PauseInit == Init => PauseInv
<1> SUFFICES ASSUME Init PROVE PauseInv
  OBVIOUS
<1>1. WorkInv
  BY WorkInit
<1>2. \A r \in Rows : /\ posts[r] = 0
                      /\ rows[r] = IF r \in Inherited THEN Retrying(1, now) ELSE NoRow
  BY DEF Init
<1>3. \A r \in Rows : /\ posts[r] = 0
                      /\ rows[r].status \in {"absent", "retrying"}
                      /\ rows[r].status = "retrying" <=> r \in Inherited
                      /\ posts[r] <= rows[r].attempts
  BY <1>2, SMT DEF Retrying, NoRow
<1>4. \A r \in Rows : Spaced(r)
  BY <1>3, SMT DEF Spaced
<1>5. FittingBaseNeverPanics
  BY <1>3 DEF FittingBaseNeverPanics, Init
<1> QED
  BY <1>1, <1>3, <1>4, <1>5 DEF PauseInv, Paced, Fresh

LEMMA PauseNext == PauseInv /\ [Next]_vars => PauseInv'
<1> SUFFICES ASSUME PauseInv, [Next]_vars PROVE PauseInv'
  OBVIOUS
<1>0. /\ WorkInv /\ WorkInv' /\ TypeOK /\ TypeOK'
      /\ cfg.base \in Int
  <2>1. WorkInv /\ WorkInv'
    BY WorkNext DEF PauseInv
  <2> QED
    BY <2>1 DEF WorkInv, TypeOK
<1>1. ASSUME NEW e \in Environments, Start(e)
      PROVE  Paced'
  <2>1. /\ phase = "starting" /\ phase' \in {"running", "refused"}
        /\ rows' = rows /\ posts' = posts /\ failedAt' = failedAt
    BY <1>1 DEF Start
  <2>2. \A r \in Rows : /\ posts[r] = 0
                        /\ rows[r].status \in {"absent", "retrying"}
                        /\ rows[r].status = "retrying" => r \in Inherited
    BY <2>1 DEF PauseInv, Paced, Fresh
  <2>3. \A r \in Rows : posts[r] <= rows[r].attempts
    BY <1>0, <2>2, SMT DEF TypeOK, Row
  <2>4. \A r \in Rows : Spaced(r)'
    BY <2>1, <2>2, <2>3, SMT DEF Spaced
  <2>5. FittingBaseNeverPanics'
    BY <2>1, <2>2 DEF FittingBaseNeverPanics
  <2>6. Fresh'
    BY <2>1 DEF Fresh
  <2> QED
    BY <2>4, <2>5, <2>6 DEF Paced
<1>2. ASSUME phase = "running", phase' = "running", cfg' = cfg, NEW r \in Rows,
             \A s \in Rows : s # r => rows'[s] = rows[s] /\ failedAt'[s] = failedAt[s]
                                      /\ posts'[s] = posts[s],
             Sane => Spaced(r)' /\ rows'[r].status # "pending"
      PROVE  Paced'
  <2>1. Fresh'
    BY <1>2 DEF Fresh
  <2>2. Sane' <=> Sane
    BY <1>2 DEF Sane
  <2>3. ASSUME Sane
        PROVE  (\A s \in Rows : Spaced(s)') /\ FittingBaseNeverPanics'
    <3>1. \A s \in Rows : Spaced(s) /\ rows[s].status # "pending"
      BY <2>3 DEF PauseInv, Paced, FittingBaseNeverPanics
    <3>2. \A s \in Rows : Spaced(s)'
      BY <1>2, <2>3, <3>1, StillSpaced
    <3> QED
      BY <1>2, <2>3, <3>1, <3>2 DEF FittingBaseNeverPanics
  <2> QED
    BY <2>1, <2>2, <2>3 DEF Paced
<1>3. ASSUME phase = "running", phase' = "running", cfg' = cfg, NEW r \in Rows,
             \/ Succeeded(r)
             \/ \E answer \in {"non2xx", "error"} :
                  \E jitter \in Drawn(Counted(rows[r], answer)) :
                    Failed(r, Counted(rows[r], answer), jitter)
      PROVE  Paced'
  <2>1. CASE Succeeded(r)
    <3>1. /\ rows'[r].status = "delivered" /\ posts'[r] = 0
          /\ \A s \in Rows : s # r => rows'[s] = rows[s] /\ failedAt'[s] = failedAt[s]
                                      /\ posts'[s] = posts[s]
      BY <1>0, <2>1, SucceededType DEF Succeeded, TypeOK
    <3>2. posts'[r] <= rows'[r].attempts
      BY <1>0, <3>1, SMT DEF TypeOK, Row
    <3>3. Spaced(r)'
      BY <3>1, <3>2 DEF Spaced
    <3> QED
      BY <1>2, <1>3, <3>1, <3>3
  <2>2. ASSUME NEW answer \in {"non2xx", "error"},
               NEW jitter \in Drawn(Counted(rows[r], answer)),
               Failed(r, Counted(rows[r], answer), jitter)
        PROVE  Paced'
    <3>1. rows[r] \in Row
      BY <1>0 DEF TypeOK
    <3>2. Counted(rows[r], answer) \in Nat /\ jitter \in Nat
      BY <3>1, CountedDrawn
    <3>3. /\ rows'[r].status \in {"retrying", "dead"}
          /\ \A s \in Rows : s # r => rows'[s] = rows[s] /\ failedAt'[s] = failedAt[s]
                                      /\ posts'[s] = posts[s]
      BY <1>0, <2>2, <3>2, FailedType
    <3>4. Sane => Spaced(r)'
      <4>1. SUFFICES ASSUME Sane PROVE Spaced(r)'
        OBVIOUS
      <4>2. posts[r] <= rows[r].attempts
        BY <4>1 DEF PauseInv, Paced, Spaced
      <4> QED
        BY <1>0, <1>3, <2>2, <4>1, <4>2, FailedSpaced
    <3> QED
      BY <1>2, <1>3, <3>3, <3>4
  <2> QED
    BY <1>3, <2>1, <2>2
<1>4. ASSUME NEW r \in Rows, FirstAttempt(r)
      PROVE  Paced'
  BY <1>3, <1>4 DEF FirstAttempt, process
<1>5. ASSUME NEW r \in Rows, FirstAttemptPanics(r)
      PROVE  Paced'
  <2>1. ~Sane
    <3>1. SUFFICES ASSUME Sane PROVE FALSE
      OBVIOUS
    <3>2. Draws(cfg.base) # {}
      BY <1>0, <3>1, SaneDurations
    <3> QED
      BY <1>5, <3>2 DEF FirstAttemptPanics, Drawn
  <2> QED
    BY <1>5, <2>1 DEF FirstAttemptPanics, process, Fresh, Sane, Paced
<1>6. ASSUME NEW r \in Rows, Requeue(r)
      PROVE  Paced'
  <2>1. PICK jitter \in Draws(cfg.base) :
          rows' = [rows EXCEPT ![r] = Retrying(0, now + Duration(cfg.base, 1, jitter))]
    BY <1>6 DEF Requeue
  <2>2. /\ \A s \in Rows : s # r => rows'[s] = rows[s] /\ failedAt'[s] = failedAt[s]
                                    /\ posts'[s] = posts[s]
        /\ rows'[r].status = "retrying" /\ rows'[r].attempts = 0
        /\ rows'[r].next = now + Duration(cfg.base, 1, jitter)
        /\ failedAt'[r] = now /\ posts'[r] = 0
    BY <1>0, <1>6, <2>1 DEF Requeue, TypeOK, Retrying
  <2>3. Sane => Spaced(r)'
    <3>1. SUFFICES ASSUME Sane PROVE Spaced(r)'
      OBVIOUS
    <3> DEFINE d == Duration(cfg.base, 1, jitter)
    <3>2. d \in Int /\ d >= cfg.base * Factor(0) /\ d <= 17 * cfg.base
      <4>1. 0 \in Nat /\ 1 \in Nat /\ 0 <= 1
        BY SMT
      <4> QED
        BY <1>0, <3>1, <4>1, SaneDurations
    <3> HIDE DEF d
    <3>3. (now + d) - now = d
      BY <1>0, <3>2, SMT DEF TypeOK
    <3>4. rows'[r].next = now + d
      BY <2>2 DEF d
    <3>5. posts'[r] <= rows'[r].attempts
      BY <2>2, SMT
    <3>6. cfg' = cfg
      BY <1>6 DEF Requeue, process
    <3>7. rows'[r].next - failedAt'[r] = d
      <4>1. failedAt'[r] = now
        BY <2>2
      <4> QED
        BY <3>3, <3>4, <4>1
    <3>8. posts'[r] = 0
      BY <2>2
    <3> QED
      BY <3>2, <3>5, <3>6, <3>7, <3>8, Zenon DEF Spaced
  <2>4. phase = "running" /\ phase' = "running" /\ cfg' = cfg
    BY <1>6 DEF Requeue, process
  <2> QED
    BY <1>2, <2>2, <2>3, <2>4
<1>7. ASSUME UNCHANGED <<phase, cfg, rows, failedAt, posts>>
      PROVE  Paced'
  BY <1>7 DEF PauseInv, Paced, Fresh, Sane, Spaced, FittingBaseNeverPanics
<1>8. ASSUME Sent
      PROVE  Paced'
  <2>1. Head(queue) \in Rows
    BY <1>0, <1>8, SMT DEF Sent, TypeOK
  <2>2. phase = "running" /\ phase' = "running" /\ cfg' = cfg
    BY <1>8 DEF Sent, process
  <2>3. \/ Succeeded(Head(queue))
        \/ \E answer \in {"non2xx", "error"} :
             \E jitter \in Drawn(Counted(rows[Head(queue)], answer)) :
               Failed(Head(queue), Counted(rows[Head(queue)], answer), jitter)
    BY <1>8 DEF Sent
  <2> QED
    BY <1>3, <2>1, <2>2, <2>3
<1>9. ASSUME WorkerPanics
      PROVE  Paced'
  <2>1. ~Sane
    <3>1. SUFFICES ASSUME Sane PROVE FALSE
      OBVIOUS
    <3>2. Draws(cfg.base) # {}
      BY <1>0, <3>1, SaneDurations
    <3> QED
      BY <1>9, <3>2 DEF WorkerPanics, Drawn
  <2>2. phase' = "down" /\ cfg' = cfg
    BY <1>9 DEF WorkerPanics
  <2>3. ~Sane' /\ Fresh'
    BY <2>1, <2>2 DEF Sane, Fresh
  <2> QED
    BY <2>3 DEF Paced
<1>10. ASSUME Wake \/ Advance \/ UNCHANGED vars
      PROVE  Paced'
  <2>1. UNCHANGED <<phase, cfg, rows, failedAt, posts>>
    BY <1>10 DEF Wake, Advance, process, vars
  <2> QED
    BY <1>7, <2>1
<1>11. Paced'
  BY <1>1, <1>4, <1>5, <1>6, <1>8, <1>9, <1>10 DEF Next
<1> QED
  BY <1>0, <1>11 DEF PauseInv

LEMMA PauseHolds == Spec => []PauseInv
BY PauseInit, PauseNext, PTL DEF Spec

\* The pause after the n-th failed POST is 2^(n-1) bases at least (16 at most), though
\* Duration is called with the count in the row, which an answered POST raises twice;
\* and it is never more than 17 bases: for every base that fits int64 17 times.
THEOREM PausesCorrect == Spec => []PausesGrow
<1>1. PauseInv => PausesGrow
  BY DEF PauseInv, Paced, Spaced, PausesGrow
<1> QED
  BY <1>1, PauseHolds, PTL

\* With such a base the generator never panics, in no handler and not in the worker.
THEOREM FittingBaseIsSafe == Spec => []FittingBaseNeverPanics
<1>1. PauseInv => FittingBaseNeverPanics
  BY DEF PauseInv, Paced, FittingBaseNeverPanics
<1> QED
  BY <1>1, PauseHolds, PTL

-----------------------------------------------------------------------------
\* Taking turns.

\* The latest time at which the worker asks for due rows again: when the batch is done,
\* and a tick is there.
NextQuery ==
  LET free == since + Len(queue) * cfg.timeout IN
  IF queue = <<>> THEN IF tick THEN now ELSE tickAt
  ELSE IF tick \/ tickAt <= free THEN free ELSE tickAt

Queued == {queue[j] : j \in DOMAIN queue}

\* The rows that the next batches may hold before r, or instead of it.
Ahead(r) == {q \in Rows \ {r} : rows[q].status = "retrying" /\ SecondOf(q) <= SecondOf(r)} \ Queued

\* The ticker, the POST in progress and the next query are near.
Clocked ==
  /\ cfg.timeout > 0
  /\ now < tickAt /\ tickAt <= now + Second
  /\ queue # <<>> => since <= now /\ now <= since + cfg.timeout
  /\ NextQuery <= now + Round

\* Where the others can fill no batch, the next query is for r too.  Where they can, and
\* once the second of r is over, nobody gets ahead of r any more, and each batch without
\* r is filled with rows that were.
InTurn(r) ==
  IF FullBatches = 0 THEN NextQuery <= rows[r].next + Round
  ELSE SecondOf(r) < now \div Second =>
         NextQuery <=
           rows[r].next + Second + (1 + FullBatches - Cardinality(Ahead(r)) \div Limit) * Round

Turns ==
  /\ \A r \in Rows \ Queued : rows[r].status = "retrying" => InTurn(r)
  /\ \A i \in DOMAIN queue : since + (i - 1) * cfg.timeout <= rows[queue[i]].next + MaxLate

\* What the worker finds when it starts.
Unbegun ==
  phase = "starting" =>
    /\ queue = <<>> /\ ~tick
    /\ \A r \in Rows : rows[r].status = "retrying" => rows[r].next = now

TurnInv == Unbegun /\ (phase = "running" => Clocked /\ (Sane => Turns))

\* A round has a second and every batch in it.
LEMMA RoundFacts ==
  ASSUME cfg.timeout \in Int, cfg.timeout > 0
  PROVE  /\ Round \in Nat /\ Round >= Second /\ Second \in Nat \ {0} /\ Limit \in Nat \ {0}
         /\ \A n \in Nat : /\ n * cfg.timeout \in Nat
                           /\ (n + 1) * cfg.timeout = n * cfg.timeout + cfg.timeout
                           /\ n <= Limit => n * cfg.timeout <= Round
<1> DEFINE t == cfg.timeout
<1>1. t \in Nat \ {0} /\ Limit \in Nat \ {0} /\ Second \in Nat \ {0}
  BY ScheduleAssumption
<1> HIDE DEF t
<1>2. \A n \in Nat : n * t \in Nat /\ (n + 1) * t = n * t + t
  BY <1>1
<1>3. ASSUME NEW n \in Nat, n <= Limit PROVE n * t <= Limit * t
  <2>1. (Limit - n) \in Nat /\ (Limit - n) * t \in Nat
    BY <1>1, <1>3
  <2>2. Limit * t = n * t + (Limit - n) * t
    BY <1>1, <1>3
  <2> QED BY <1>1, <1>2, <1>3, <2>1, <2>2
<1>4. Limit * t \in Nat
  BY <1>1
<1>5. Round = IF Limit * t < Second THEN Second ELSE Limit * t
  BY DEF Round, t
<1>6. Round \in Nat /\ Round >= Second /\ Round >= Limit * t
  BY <1>1, <1>4, <1>5
<1>7. \A n \in Nat : n <= Limit => n * t <= Round
  BY <1>2, <1>3, <1>4, <1>6
<1> QED BY <1>1, <1>2, <1>6, <1>7 DEF t

\* Quotients grow with what is divided, and fall by one with a whole divisor.
LEMMA Quotients ==
  ASSUME NEW n \in Nat, NEW m \in Nat, n <= m, NEW d \in Nat \ {0}
  PROVE  /\ n \div d \in Nat /\ m \div d \in Nat /\ n \div d <= m \div d
         /\ n >= d => (n - d) \div d = (n \div d) - 1
         /\ n < d => n \div d = 0
<1> DEFINE a == n \div d
           b == m \div d
<1>1. /\ a \in Int /\ b \in Int
      /\ d * a <= n /\ n < d * a + d /\ d * b <= m /\ m < d * b + d
  BY SMT
<1> HIDE DEF a, b
<1>2. a >= 0
  <2>1. SUFFICES ASSUME a <= -1 PROVE FALSE
    BY <1>1
  <2>2. d * (-1 - a) >= 0
    BY <1>1, <2>1, SMT
  <2> QED BY <1>1, <2>2, SMT
<1>3. a <= b
  <2>1. SUFFICES ASSUME b <= a - 1 PROVE FALSE
    BY <1>1
  <2>2. d * (a - 1 - b) >= 0
    BY <1>1, <2>1, SMT
  <2> QED BY <1>1, <2>2, SMT
<1>4. ASSUME n >= d PROVE (n - d) \div d = a - 1
  <2> DEFINE c == (n - d) \div d
  <2>1. c \in Int /\ d * c <= n - d /\ n - d < d * c + d
    BY <1>4, SMT
  <2> HIDE DEF c
  <2>2. ~(c <= a - 2)
    <3>1. SUFFICES ASSUME c <= a - 2 PROVE FALSE
      OBVIOUS
    <3>2. d * (a - 2 - c) >= 0
      BY <1>1, <2>1, <3>1, SMT
    <3> QED BY <1>1, <2>1, <3>2, SMT
  <2>3. ~(c >= a)
    <3>1. SUFFICES ASSUME c >= a PROVE FALSE
      OBVIOUS
    <3>2. d * (c - a) >= 0
      BY <1>1, <2>1, <3>1, SMT
    <3> QED BY <1>1, <2>1, <3>2, SMT
  <2> QED BY <1>1, <2>1, <2>2, <2>3 DEF c
<1>5. ASSUME n < d PROVE a = 0
  <2>1. SUFFICES ASSUME a >= 1 PROVE FALSE
    BY <1>1, <1>2
  <2>2. d * (a - 1) >= 0
    BY <1>1, <2>1, SMT
  <2> QED BY <1>1, <1>5, <2>2, SMT
<1>6. b >= 0
  BY <1>1, <1>2, <1>3
<1> QED BY <1>1, <1>2, <1>3, <1>4, <1>5, <1>6 DEF a, b

\* More rounds take more time.
LEMMA MoreRounds ==
  ASSUME NEW a \in Int, NEW b \in Int, a <= b, NEW n \in Nat
  PROVE  a * n \in Int /\ b * n \in Int /\ a * n <= b * n /\ (a + 1) * n = a * n + n
<1>1. (b - a) * n >= 0
  BY SMT
<1>2. b * n = a * n + (b - a) * n
  BY SMT
<1> QED BY <1>1, <1>2, SMT

\* A row that is retrying and not due has its time in a later second.
LEMMA NotDueYet ==
  ASSUME NEW row \in Row, NEW t \in Int, row.status = "retrying", ~IsDue(row, t)
  PROVE  t \div Second < row.next \div Second
<1> DEFINE d == t \div Second
           n == row.next \div Second
           x == Text(row.next)
<1>1. d \in Int /\ n \in Int
  BY Division DEF Row
<1>2. (d * Second) % Second = 0 /\ (d * Second) \div Second = d
  BY <1>1, WholeSecond
<1>3. Text(d * Second) = <<d, Zed>>
  BY <1>2 DEF Text
<1>4. x[1] = n /\ (2 \in DOMAIN x => x[2] \in {Dot, Zed})
  <2>1. x[1] = n
    BY FirstOfText DEF Row
  <2>2. CASE row.next % Second = 0
    BY <2>1, <2>2 DEF Text
  <2>3. CASE row.next % Second # 0
    <3> DEFINE m == row.next % Second
    <3>1. m \in 1 .. (Second - 1)
      <4>1. m \in 0 .. (Second - 1) /\ m # 0 /\ Second \in Nat
        BY <2>3, Division, ScheduleAssumption DEF Row
      <4> HIDE DEF m
      <4> QED BY <4>1
    <3>2. Digits[m] \in Seq(Int) /\ <<Zed>> \in Seq(Int) /\ <<n, Dot>> \in Seq(Int)
      <4>1. Digits[m] \in Seq(0..9)
        BY <3>1, ScheduleAssumption
      <4>2. Seq(0..9) \subseteq Seq(Int)
        BY SMT
      <4>3. Zed \in Int /\ Dot \in Int
        BY DEF Zed, Dot
      <4> HIDE DEF m, n
      <4> QED BY <1>1, <4>1, <4>2, <4>3 DEF n
    <3>3. x = (<<n, Dot>> \o Digits[m]) \o <<Zed>>
      BY <2>3 DEF Text
    <3> HIDE DEF m, n, x
    <3>4. (<<n, Dot>> \o Digits[m])[2] = Dot /\ Len(<<n, Dot>> \o Digits[m]) >= 2
          /\ <<n, Dot>> \o Digits[m] \in Seq(Int)
      BY <3>2, SMT
    <3>5. x[2] = Dot
      BY <3>2, <3>3, <3>4, SMT
    <3> QED BY <2>1, <3>5
  <2> QED BY <2>2, <2>3
<1> HIDE DEF d, n, x
<1>5. Before(<<d, Zed>>, x)
  BY <1>3 DEF IsDue, d, x
<1>6. PICK i \in DOMAIN <<d, Zed>> \cap DOMAIN x :
        <<d, Zed>>[i] < x[i] /\ \A j \in 1 .. (i - 1) : <<d, Zed>>[j] = x[j]
  BY <1>5 DEF Before
<1>7. i \in {1, 2}
  BY <1>6, SMT
<1>8. i # 2
  <2>1. SUFFICES ASSUME i = 2 PROVE FALSE
    OBVIOUS
  <2>2. Zed < x[2] /\ x[2] \in {Dot, Zed}
    BY <1>4, <1>6, <2>1
  <2> QED BY <2>2 DEF Zed, Dot
<1>9. d < n
  BY <1>1, <1>4, <1>6, <1>7, <1>8
<1> QED BY <1>9 DEF d, n

\* No more rows can be ahead than the others, and no more batches of them.
LEMMA AheadCount ==
  ASSUME NEW r \in Rows
  PROVE  /\ IsFiniteSet(Ahead(r)) /\ Cardinality(Ahead(r)) \in Nat
         /\ FullBatches \in Nat
         /\ Cardinality(Ahead(r)) \div Limit \in Nat
         /\ Cardinality(Ahead(r)) \div Limit <= FullBatches
<1> DEFINE n == Cardinality(Rows) - 1
           k == Cardinality(Ahead(r))
<1>1. IsFiniteSet(Rows \ {r}) /\ Cardinality(Rows \ {r}) = n
  BY ScheduleAssumption, FS_RemoveElement
<1>2. Ahead(r) \subseteq Rows \ {r}
  BY DEF Ahead
<1>3. IsFiniteSet(Ahead(r)) /\ k <= n /\ k \in Nat /\ n \in Nat
  BY <1>1, <1>2, FS_Subset, FS_CardinalityType
<1>4. FullBatches = n \div Limit
  BY DEF FullBatches
<1> HIDE DEF k, n
<1>5. k \div Limit \in Nat /\ n \div Limit \in Nat /\ k \div Limit <= n \div Limit
  BY <1>3, Quotients, ScheduleAssumption
<1> QED BY <1>3, <1>4, <1>5 DEF k

\* The next query is not past.
LEMMA QueryAhead ==
  ASSUME TypeOK, Clocked
  PROVE  /\ NextQuery \in Int /\ now <= NextQuery /\ now \in Nat /\ cfg.timeout \in Int
         /\ Len(queue) \in Nat /\ Len(queue) * cfg.timeout \in Nat
         /\ queue = <<>> /\ tick => NextQuery = now
<1>1. /\ now \in Nat /\ since \in Nat /\ tickAt \in Nat /\ tick \in BOOLEAN
      /\ cfg.timeout \in Int /\ queue \in Seq(Rows)
  BY DEF TypeOK
<1>2. Len(queue) \in Nat /\ (queue # <<>> => Len(queue) - 1 \in Nat)
  BY <1>1, SMT
<1>3. Len(queue) * cfg.timeout \in Nat
  BY <1>1, <1>2, RoundFacts DEF Clocked
<1>4. queue # <<>> => cfg.timeout <= Len(queue) * cfg.timeout
  <2> DEFINE m == Len(queue) - 1
  <2>1. SUFFICES ASSUME queue # <<>> PROVE cfg.timeout <= (m + 1) * cfg.timeout
    BY <1>2
  <2>2. m \in Nat
    BY <1>2, <2>1
  <2> HIDE DEF m
  <2>3. (m + 1) * cfg.timeout = m * cfg.timeout + cfg.timeout /\ m * cfg.timeout \in Nat
    BY <1>1, <2>2, RoundFacts DEF Clocked
  <2> DEFINE p == m * cfg.timeout
  <2> HIDE DEF p
  <2>4. p \in Nat /\ (m + 1) * cfg.timeout = p + cfg.timeout
    BY <2>3 DEF p
  <2> QED BY <1>1, <2>4
<1> DEFINE p == Len(queue) * cfg.timeout
<1>5. NextQuery = IF queue = <<>> THEN IF tick THEN now ELSE tickAt
                  ELSE IF tick \/ tickAt <= since + p THEN since + p ELSE tickAt
  BY DEF NextQuery
<1> HIDE DEF p
<1>6. p \in Nat /\ (queue # <<>> => cfg.timeout <= p)
  BY <1>3, <1>4 DEF p
<1>7. now < tickAt /\ (queue # <<>> => now <= since + cfg.timeout)
  BY DEF Clocked
<1>8. NextQuery \in Int /\ now <= NextQuery /\ (queue = <<>> /\ tick => NextQuery = now)
  BY <1>1, <1>5, <1>6, <1>7
<1> QED BY <1>1, <1>2, <1>3, <1>8

LEMMA QueryType == TypeOK /\ Clocked => NextQuery \in Int
BY QueryAhead

\* The goroutine takes its next row before the POST of this one can have lasted too long,
LEMMA ClockSent ==
  ASSUME WorkInv, Clocked, Sent
  PROVE  Clocked' /\ NextQuery' <= NextQuery
<1>1. /\ TypeOK /\ queue # <<>> /\ queue' = Tail(queue) /\ UNCHANGED <<phase, cfg, now, tick, tickAt>>
      /\ since' = IF queue' = <<>> THEN 0 ELSE now
  BY DEF WorkInv, Sent, process, ticker
<1>2. /\ queue \in Seq(Rows) /\ now \in Nat /\ since \in Nat /\ tickAt \in Nat /\ cfg.timeout \in Int
      /\ tick \in BOOLEAN
  BY <1>1 DEF TypeOK
<1> DEFINE m == Len(queue')
           t == cfg.timeout
<1>3. m \in Nat /\ Len(queue) = m + 1 /\ (queue' = <<>> <=> m = 0)
  <2>1. queue' \in Seq(Rows) /\ m = Len(queue) - 1 /\ Len(queue) \in Nat
    BY <1>1, <1>2, HeadTailProperties
  <2>2. queue' = <<>> <=> m = 0
    BY <2>1, EmptySeq
  <2>3. m \in Nat
    BY <2>1
  <2> HIDE DEF m
  <2> QED BY <2>1, <2>2, <2>3
<1>4. /\ t > 0 /\ now < tickAt /\ tickAt <= now + Second /\ since <= now /\ now <= since + t
      /\ NextQuery <= now + Round
  BY <1>1 DEF Clocked
<1>5. m * t \in Nat /\ Len(queue) * t = m * t + t
  <2> HIDE DEF m
  <2> QED BY <1>2, <1>3, <1>4, RoundFacts
<1> DEFINE p == m * t
<1>6. NextQuery = IF tick \/ tickAt <= since + (p + t) THEN since + (p + t) ELSE tickAt
  BY <1>1, <1>5 DEF NextQuery
<1>7. NextQuery' = IF queue' = <<>> THEN IF tick THEN now ELSE tickAt
                   ELSE IF tick \/ tickAt <= now + p THEN now + p ELSE tickAt
  BY <1>1 DEF NextQuery
<1>8. Round' = Round /\ Round \in Nat
  BY <1>1, <1>2, <1>4, RoundFacts DEF Round
<1>9. p \in Nat /\ t \in Int
  BY <1>2, <1>5
<1> HIDE DEF p, t, m
<1>10. NextQuery' <= NextQuery
  BY <1>2, <1>4, <1>6, <1>7, <1>9
<1>11. NextQuery' <= now + Round
  BY <1>2, <1>4, <1>6, <1>7, <1>8, <1>9
<1>12. queue' # <<>> => since' <= now' /\ now' <= since' + t
  BY <1>1, <1>2, <1>4, <1>9
<1> QED BY <1>1, <1>4, <1>8, <1>10, <1>11, <1>12 DEF Clocked, t

\* and the clock does not pass what is urgent: a tick is there when it is expected.
LEMMA ClockAdvance ==
  ASSUME WorkInv, Clocked, Advance
  PROVE  Clocked' /\ NextQuery' <= NextQuery
<1>1. /\ TypeOK /\ UNCHANGED <<phase, cfg, queue, since>> /\ now' = now + 1
      /\ \/ now' = tickAt /\ tick' = TRUE /\ tickAt' = tickAt + Second
         \/ now' # tickAt /\ tick' = tick /\ tickAt' = tickAt
      /\ queue = <<>> => ~tick
      /\ queue # <<>> => ~(now - since >= cfg.timeout)
  BY DEF WorkInv, Advance, process, worker, ticker, Urgent
<1>2. /\ now \in Nat /\ since \in Nat /\ tickAt \in Nat /\ cfg.timeout \in Int /\ tick \in BOOLEAN
      /\ Second \in Nat \ {0}
  BY <1>1, ScheduleAssumption DEF TypeOK
<1>3. /\ cfg.timeout > 0 /\ now < tickAt /\ tickAt <= now + Second
      /\ queue # <<>> => since <= now /\ now <= since + cfg.timeout
      /\ NextQuery <= now + Round
  BY DEF Clocked
<1> DEFINE p == Len(queue) * cfg.timeout
<1>4. p \in Nat /\ Round' = Round /\ Round \in Nat
  BY <1>1, <1>2, <1>3, QueryAhead, RoundFacts DEF Round
<1>5. NextQuery = IF queue = <<>> THEN IF tick THEN now ELSE tickAt
                  ELSE IF tick \/ tickAt <= since + p THEN since + p ELSE tickAt
  BY DEF NextQuery
<1>6. NextQuery' = IF queue = <<>> THEN IF tick' THEN now' ELSE tickAt'
                   ELSE IF tick' \/ tickAt' <= since + p THEN since + p ELSE tickAt'
  BY <1>1 DEF NextQuery
<1> HIDE DEF p
<1>7. NextQuery' <= NextQuery
  <2>1. CASE queue = <<>>
    BY <1>1, <1>2, <1>5, <1>6, <2>1
  <2>2. ASSUME queue # <<>> PROVE NextQuery' <= NextQuery
    <3> DEFINE f == since + p
    <3>1. /\ NextQuery = IF tick \/ tickAt <= f THEN f ELSE tickAt
          /\ NextQuery' = IF tick' \/ tickAt' <= f THEN f ELSE tickAt'
          /\ f \in Nat
      BY <1>1, <1>2, <1>4, <1>5, <1>6, <2>2
    <3> HIDE DEF f
    <3>2. f <= NextQuery
      BY <1>2, <3>1
    <3>3. CASE tick' = TRUE
      BY <3>1, <3>2, <3>3
    <3>4. CASE tick' = tick /\ tickAt' = tickAt
      BY <1>2, <3>1, <3>4
    <3> QED BY <1>1, <3>3, <3>4
  <2> QED BY <2>1, <2>2
<1>8. NextQuery \in Int /\ NextQuery' \in Int
  BY <1>1, <1>2, <1>4, <1>5, <1>6
<1>9. now' < tickAt' /\ tickAt' <= now' + Second /\ NextQuery' <= now' + Round
  BY <1>1, <1>2, <1>3, <1>4, <1>7, <1>8
<1>10. queue # <<>> => since <= now' /\ now' <= since + cfg.timeout
  BY <1>1, <1>2, <1>3
<1> QED BY <1>1, <1>3, <1>4, <1>7, <1>9, <1>10 DEF Clocked

\* A query is asked when it is expected, and the next within a round.
LEMMA ClockWake ==
  ASSUME WorkInv, Clocked, Wake, Len(queue') <= Limit, queue' \in Seq(Rows)
  PROVE  Clocked' /\ NextQuery = now /\ NextQuery' <= now + Round
<1>1. /\ TypeOK /\ UNCHANGED <<phase, cfg, now, tickAt>> /\ queue = <<>> /\ tick /\ tick' = FALSE
      /\ since' = IF queue' = <<>> THEN 0 ELSE now
  BY DEF WorkInv, Wake, process
<1>2. now \in Nat /\ tickAt \in Nat /\ cfg.timeout \in Int /\ Second \in Nat \ {0}
  BY <1>1, ScheduleAssumption DEF TypeOK
<1>3. cfg.timeout > 0 /\ now < tickAt /\ tickAt <= now + Second
  BY DEF Clocked
<1>4. Round' = Round /\ Round \in Nat /\ Round >= Second
  BY <1>1, <1>2, <1>3, RoundFacts DEF Round
<1> DEFINE m == Len(queue')
           p == m * cfg.timeout
<1>5. m \in Nat
  OBVIOUS
<1>6. p \in Nat /\ p <= Round
  <2> HIDE DEF m
  <2> QED BY <1>2, <1>3, <1>5, RoundFacts DEF m
<1>7. NextQuery' = IF queue' = <<>> THEN tickAt ELSE IF tickAt <= now + p THEN now + p ELSE tickAt
  BY <1>1 DEF NextQuery
<1> HIDE DEF p
<1>8. NextQuery' <= now + Round
  BY <1>2, <1>3, <1>4, <1>6, <1>7
<1>9. queue' # <<>> => since' <= now' /\ now' <= since' + cfg.timeout
  BY <1>1, <1>2, <1>3
<1> QED BY <1>1, <1>3, <1>4, <1>8, <1>9, QueryAhead DEF Clocked

\* A row that is retrying has its time from now on, when it is given one.
LEMMA FailedLater ==
  ASSUME TypeOK, Sane, NEW r \in Rows, NEW answer \in {"non2xx", "error"},
         NEW jitter \in Drawn(Counted(rows[r], answer)),
         Failed(r, Counted(rows[r], answer), jitter), rows'[r].status = "retrying"
  PROVE  rows'[r].next >= now
<1> DEFINE n == Counted(rows[r], answer)
           d == Duration(cfg.base, n, jitter)
<1>1. rows \in [Rows -> Row] /\ now \in Nat /\ cfg.base \in Int /\ cfg.retries \in Int
  BY DEF TypeOK
<1>2. n \in Nat
  BY <1>1, CountedDrawn
<1>3. ~(n >= cfg.retries)
  BY <1>1 DEF Failed, Dead
<1>4. jitter \in Draws(cfg.base)
  BY <1>3 DEF Drawn
<1>5. d \in Int /\ d >= cfg.base * Factor(0)
  <2> HIDE DEF n
  <2> QED BY <1>1, <1>2, <1>4, SaneDurations
<1>6. Factor(0) = 1
  BY DEF Factor
<1>7. d >= 0
  BY <1>1, <1>5, <1>6 DEF Sane
<1>8. rows'[r] = Retrying(n, now + d)
  BY <1>1, <1>3 DEF Failed
<1> HIDE DEF n, d
<1> QED BY <1>1, <1>5, <1>7, <1>8 DEF Retrying

\* Seconds follow one another.
LEMMA SecondsFollow ==
  ASSUME NEW t \in Int, NEW n \in Int, t <= n
  PROVE  t \div Second <= n \div Second
<1>1. ASSUME n \div Second < t \div Second PROVE FALSE
  <2> DEFINE a == n \div Second
             b == t \div Second
  <2>1. /\ a \in Int /\ b \in Int /\ Second \in Nat \ {0}
        /\ n < Second * a + Second /\ t >= Second * b /\ a < b
    BY <1>1, ScheduleAssumption, Division, SMT
  <2> HIDE DEF a, b
  <2>2. Second * (b - a - 1) >= 0
    BY <2>1, SMT
  <2> QED BY <2>1, <2>2, SMT
<1>2. n \div Second \in Int /\ t \div Second \in Int
  BY Division
<1> QED BY <1>1, <1>2

\* The turn of a row that waits, as long as no batch is taken: others get no way ahead.
LEMMA TurnsKept ==
  ASSUME WorkInv, TypeOK', Clocked, Clocked', NextQuery' <= NextQuery,
         UNCHANGED cfg, now' >= now, Queued' \subseteq Queued,
         \A q \in Rows \ Queued : rows[q].status = "retrying" => InTurn(q),
         \A q \in Rows : rows'[q].status = "retrying" =>
            \/ rows'[q] = rows[q] /\ (q \notin Queued' => q \notin Queued)
            \/ rows'[q].next >= now',
         NEW r \in Rows \ Queued', rows'[r].status = "retrying"
  PROVE  InTurn(r)'
<1>1. /\ TypeOK /\ now \in Nat /\ now' \in Nat /\ NextQuery \in Int /\ NextQuery' \in Int
      /\ \A q \in Rows : rows[q] \in Row /\ rows'[q] \in Row
      /\ cfg.timeout \in Int
  <2>1. TypeOK /\ TypeOK'
    BY DEF WorkInv
  <2>2. NextQuery \in Int /\ now \in Nat /\ cfg.timeout \in Int
    BY <2>1, QueryAhead
  <2>3. (TypeOK /\ Clocked => NextQuery \in Int)'
    BY QueryType, PTL
  <2> QED BY <2>1, <2>2, <2>3 DEF TypeOK
<1>2. /\ Round' = Round /\ Round \in Nat /\ Round >= Second /\ Second \in Nat \ {0}
      /\ NextQuery <= now + Round /\ NextQuery' <= now' + Round
  <2>1. cfg.timeout > 0 /\ NextQuery <= now + Round
    BY DEF Clocked
  <2>2. NextQuery' <= now' + Round'
    BY DEF Clocked
  <2>3. Round' = Round
    BY DEF Round
  <2> QED BY <1>1, <2>1, <2>2, <2>3, RoundFacts
<1> DEFINE x == rows'[r].next
           k == Cardinality(Ahead(r))
           k2 == Cardinality(Ahead(r)')
           f == FullBatches
<1>3. /\ x \in Int /\ f \in Nat /\ IsFiniteSet(Ahead(r)) /\ k \in Nat /\ k \div Limit \in Nat
      /\ k \div Limit <= f
  BY <1>1, AheadCount DEF Row
<1>4. k2 \in Nat /\ k2 \div Limit \in Nat /\ k2 \div Limit <= f
  <2> DEFINE A == Ahead(r)'
  <2>1. A \subseteq Rows \ {r}
    BY DEF Ahead
  <2> HIDE DEF A
  <2>2. IsFiniteSet(Rows \ {r}) /\ Cardinality(Rows \ {r}) = Cardinality(Rows) - 1
    BY ScheduleAssumption, FS_RemoveElement
  <2>3. /\ Cardinality(A) \in Nat /\ Cardinality(Rows) - 1 \in Nat
        /\ Cardinality(A) <= Cardinality(Rows) - 1
    BY <2>1, <2>2, FS_Subset, FS_CardinalityType
  <2>4. /\ Cardinality(A) \div Limit \in Nat
        /\ Cardinality(A) \div Limit <= (Cardinality(Rows) - 1) \div Limit
    BY <2>3, Quotients, ScheduleAssumption
  <2> QED BY <2>3, <2>4 DEF A, FullBatches
<1>5. SecondOf(r)' = x \div Second
  BY DEF SecondOf
<1>6. (FullBatches' = f) /\ Cardinality(Ahead(r))' = k2
  BY DEF FullBatches
<1>7. InTurn(r)' <=>
        IF f = 0 THEN NextQuery' <= x + Round
        ELSE x \div Second < now' \div Second =>
               NextQuery' <= x + Second + (1 + f - k2 \div Limit) * Round
  BY <1>2, <1>5, <1>6 DEF InTurn
<1>8. CASE x >= now'
  <2>1. now' \div Second <= x \div Second /\ now' \div Second \in Int /\ x \div Second \in Int
    BY <1>1, <1>3, <1>8, SecondsFollow, Division
  <2>2. NextQuery' <= x + Round
    BY <1>1, <1>2, <1>3, <1>8
  <2> QED BY <1>7, <2>1, <2>2
<1>9. CASE rows'[r] = rows[r] /\ r \notin Queued
  <2>1. x = rows[r].next /\ InTurn(r)
    BY <1>9
  <2>2. CASE f = 0
    <3>1. NextQuery <= x + Round
      BY <2>1, <2>2 DEF InTurn
    <3> QED BY <1>1, <1>2, <1>3, <1>7, <2>2, <3>1
  <2>3. CASE f # 0 /\ x \div Second < now' \div Second
    <3>1. k2 <= k
      <4>1. ASSUME NEW q \in Ahead(r)' PROVE q \in Ahead(r)
        <5>1. /\ q \in Rows \ {r} /\ rows'[q].status = "retrying" /\ q \notin Queued'
              /\ rows'[q].next \div Second <= x \div Second
          BY <4>1 DEF Ahead, SecondOf
        <5>2. ~(rows'[q].next >= now')
          <6>1. rows'[q].next \in Int
            BY <1>1, <5>1 DEF Row
          <6>2. SUFFICES ASSUME rows'[q].next >= now' PROVE FALSE
            OBVIOUS
          <6>3. now' \div Second <= rows'[q].next \div Second
            BY <1>1, <6>1, <6>2, SecondsFollow
          <6>4. /\ now' \div Second \in Int /\ x \div Second \in Int
                /\ rows'[q].next \div Second \in Int
            BY <1>1, <1>3, <6>1, Division
          <6> QED BY <2>3, <5>1, <6>3, <6>4
        <5>3. rows'[q] = rows[q] /\ q \notin Queued
          BY <5>1, <5>2
        <5> QED BY <2>1, <5>1, <5>3 DEF Ahead, SecondOf
      <4>2. Ahead(r)' \subseteq Ahead(r)
        BY <4>1
      <4> QED BY <1>3, <4>2, FS_Subset
    <3>2. k2 \div Limit <= k \div Limit
      <4> HIDE DEF k, k2
      <4> QED BY <1>3, <1>4, <3>1, Quotients, ScheduleAssumption
    <3> DEFINE a == 1 + f - k \div Limit
               b == 1 + f - k2 \div Limit
    <3>3. a \in Int /\ b \in Int /\ 1 <= a /\ a <= b
      BY <1>3, <1>4, <3>2
    <3>4. x \div Second < now \div Second => NextQuery <= x + Second + a * Round
      BY <2>1, <2>3 DEF InTurn, SecondOf
    <3>5. now \div Second <= x \div Second => now < x + Second
      BY <1>1, <1>2, <1>3, SameSecond
    <3>6. x \div Second \in Int /\ now \div Second \in Int
      BY <1>1, <1>3, Division
    <3> HIDE DEF a, b
    <3>7. a * Round \in Int /\ b * Round \in Int /\ a * Round <= b * Round /\ Round <= b * Round
      <4>1. 1 <= b /\ 1 * Round = Round
        BY <1>2, <3>3
      <4> QED BY <1>2, <3>3, <4>1, MoreRounds
    <3>8. NextQuery' <= x + Second + b * Round
      <4> DEFINE ar == a * Round
                 br == b * Round
      <4>1. ar \in Int /\ br \in Int /\ ar <= br /\ Round <= br
        BY <3>7
      <4>2. NextQuery <= x + Second + ar \/ now < x + Second
        BY <3>4, <3>5, <3>6
      <4> HIDE DEF ar, br, x
      <4>3. NextQuery' <= x + Second + br
        BY <1>1, <1>2, <1>3, <4>1, <4>2
      <4> QED BY <4>3 DEF br
    <3> QED BY <1>7, <2>3, <3>8 DEF b
  <2> QED BY <1>7, <2>2, <2>3
<1> QED BY <1>8, <1>9

\* A batch has no more rows than the limit, and as many if it leaves a due row out.
LEMMA BatchFull ==
  ASSUME TypeOK, NEW q \in Batches
  PROVE  LET Taken == {q[j] : j \in DOMAIN q} IN
         /\ Len(q) \in Nat /\ Len(q) <= Limit /\ DOMAIN q = 1 .. Len(q)
         /\ IsFiniteSet(Taken) /\ Cardinality(Taken) = Len(q)
         /\ \A r \in DueRows : r \notin Taken => Len(q) = Limit
<1> DEFINE Taken == {q[j] : j \in DOMAIN q}
           d == Cardinality(DueRows)
           n == IF d < Limit THEN d ELSE Limit
<1>1. IsFiniteSet(DueRows) /\ d \in Nat /\ Limit \in Nat
  BY ScheduleAssumption, FS_Subset, FS_CardinalityType DEF DueRows
<1>2. q \in [1..n -> DueRows] /\ \A i, j \in 1..n : q[i] = q[j] => i = j
  BY DEF Batches
<1>3. n \in Nat /\ n <= Limit /\ (n < Limit => n = d)
  BY <1>1
<1> HIDE DEF n, d
<1>4. q \in Seq(DueRows) /\ Len(q) = n /\ DOMAIN q = 1..n
  BY <1>2, <1>3
<1>5. IsFiniteSet(1..n) /\ Cardinality(1..n) = n
  BY <1>3, FS_Interval
<1>6. q \in Surjection(1..n, Taken) /\ q \in Injection(1..n, Taken)
  BY <1>2, <1>4 DEF Surjection, Injection, IsInjective
<1>7. IsFiniteSet(Taken) /\ Cardinality(Taken) = n
  BY <1>5, <1>6, FS_Surjection
<1>8. ASSUME NEW r \in DueRows, r \notin Taken PROVE n = Limit
  <2>1. IsFiniteSet(DueRows \ {r}) /\ Cardinality(DueRows \ {r}) = d - 1
    BY <1>1, <1>8, FS_RemoveElement DEF d
  <2>2. Taken \subseteq DueRows \ {r}
    BY <1>2, <1>8
  <2>3. n <= d - 1
    BY <1>7, <2>1, <2>2, FS_Subset
  <2> QED BY <1>1, <1>3, <2>3 DEF d
<1> HIDE DEF Taken
<1>9. Len(q) \in Nat /\ Len(q) <= Limit /\ DOMAIN q = 1 .. Len(q)
      /\ IsFiniteSet(Taken) /\ Cardinality(Taken) = Len(q)
      /\ \A r \in DueRows : r \notin Taken => Len(q) = Limit
  BY <1>3, <1>4, <1>7, <1>8
<1> QED BY <1>9 DEF Taken

\* The rows that a batch takes before r are ahead of it no more.
LEMMA AheadTaken ==
  ASSUME WorkInv, Wake, NEW r \in Rows \ Queued', rows[r].status = "retrying",
         SecondOf(r) < now \div Second
  PROVE  Cardinality(Ahead(r)') = Cardinality(Ahead(r)) - Limit /\ Limit <= Cardinality(Ahead(r))
<1>1. /\ TypeOK /\ queue' \in Batches /\ queue = <<>> /\ UNCHANGED rows
      /\ rows \in [Rows -> Row] /\ now \in Nat /\ now \in Int
  BY DEF WorkInv, Wake, TypeOK
<1>2. Queued = {} /\ Queued' = {queue'[j] : j \in DOMAIN queue'}
  BY <1>1 DEF Queued
<1>3. r \in DueRows
  <2>1. rows[r] \in Row /\ rows[r].next \in Int
    BY <1>1 DEF Row
  <2>2. now \div Second \in Int /\ rows[r].next \div Second \in Int
    BY <1>1, <2>1, Division
  <2> QED BY <1>1, <2>1, <2>2, NotDueYet DEF DueRows, SecondOf
<1>4. IsFiniteSet(Queued') /\ Cardinality(Queued') = Limit
  BY <1>1, <1>2, <1>3, BatchFull
<1>5. Queued' \subseteq Ahead(r)
  <2>1. SUFFICES ASSUME NEW i \in DOMAIN queue' PROVE queue'[i] \in Ahead(r)
    BY <1>2
  <2>2. queue'[i] \in Rows /\ IsDue(rows[queue'[i]], now) /\ Ordered(queue', DueRows)
    BY <1>1, BatchType
  <2>3. rows[queue'[i]].status = "retrying"
    BY <1>1, <2>2 DEF IsDue, Row
  <2>4. r \notin {queue'[j] : j \in DOMAIN queue'}
    BY <1>2
  <2>5. ~Before(Text(rows[r].next), Text(rows[queue'[i]].next))
    BY <1>3, <2>2, <2>4 DEF Ordered
  <2>6. SecondOf(queue'[i]) <= SecondOf(r)
    BY <1>1, <2>2, <2>5, TextOrdersSeconds DEF SecondOf, Row
  <2> QED BY <1>2, <2>2, <2>3, <2>4, <2>6 DEF Ahead
<1>6. Ahead(r)' = Ahead(r) \ Queued'
  BY <1>1, <1>2 DEF Ahead, SecondOf
<1> DEFINE A == Ahead(r)
           B == Queued'
<1>7. IsFiniteSet(A) /\ IsFiniteSet(A \ B) /\ IsFiniteSet(B)
  BY <1>4, AheadCount, FS_Subset
<1>8. Cardinality(A) \in Nat /\ Cardinality(A \ B) = Cardinality(A) - Cardinality(A \cap B)
  BY <1>7, FS_Difference, FS_CardinalityType
<1>9. A \cap B = B
  BY <1>5
<1>10. Cardinality(A \ B) \in Nat /\ Limit \in Nat
  BY <1>7, FS_CardinalityType, ScheduleAssumption
<1> QED BY <1>4, <1>6, <1>8, <1>9, <1>10

\* A batch keeps the turns: who is in it is posted in time, and who is not has fewer ahead.
LEMMA TurnsWake ==
  ASSUME WorkInv, WorkInv', Clocked, Wake, Turns
  PROVE  Turns'
<1>1. /\ TypeOK /\ queue' \in Batches /\ queue = <<>> /\ UNCHANGED <<rows, now, cfg>>
      /\ rows \in [Rows -> Row] /\ now \in Nat /\ now \in Int /\ cfg.timeout \in Int /\ cfg.timeout > 0
      /\ since' = IF queue' = <<>> THEN 0 ELSE now
  BY DEF WorkInv, Wake, TypeOK, process, Clocked
<1>2. queue' \in Seq(Rows) /\ Len(queue') <= Limit /\ Len(queue') \in Nat /\ DOMAIN queue' = 1 .. Len(queue')
  BY <1>1, BatchType, BatchFull
<1>3. NextQuery = now /\ NextQuery' <= now + Round /\ Clocked'
  BY <1>2, ClockWake
<1>4. /\ Round \in Nat /\ Round' = Round /\ Second \in Nat \ {0} /\ Limit \in Nat \ {0}
      /\ MaxLate' = MaxLate /\ FullBatches' = FullBatches
  BY <1>1, RoundFacts DEF Round, MaxLate, FullBatches
<1>5. Queued = {} /\ Queued' = {queue'[j] : j \in DOMAIN queue'} /\ Queued' \subseteq Rows
  BY <1>1, <1>2 DEF Queued
<1>6. NextQuery' \in Int
  <2>1. TypeOK'
    BY DEF WorkInv
  <2>2. (TypeOK /\ Clocked => NextQuery \in Int)'
    BY QueryType, PTL
  <2> QED BY <1>3, <2>1, <2>2
<1> DEFINE f == FullBatches
           g == IF f = 0 THEN 0 ELSE Second
\* The query itself is in time.
<1>7. ASSUME NEW r \in Rows, rows[r].status = "retrying"
      PROVE  /\ f \in Nat /\ (1 + f) * Round \in Nat
             /\ now <= rows[r].next + g + (1 + f) * Round
  <2> DEFINE x == rows[r].next
             k == Cardinality(Ahead(r))
             a == 1 + f - k \div Limit
  <2>1. InTurn(r)
    BY <1>5, <1>7 DEF Turns
  <2>2. x \in Int /\ f \in Nat /\ k \div Limit \in Nat
    BY <1>1, AheadCount DEF Row
  <2>3. a \in Int /\ a <= 1 + f /\ 1 + f \in Nat
    BY <2>2
  <2>4. a * Round \in Int /\ (1 + f) * Round \in Nat /\ a * Round <= (1 + f) * Round
    <3> HIDE DEF a, f
    <3> QED BY <1>4, <2>3, MoreRounds
  <2>5. CASE f = 0
    <3>1. now <= x + Round
      BY <1>3, <2>1, <2>5 DEF InTurn
    <3>2. (1 + f) * Round = Round
      BY <1>4, <2>5
    <3> QED BY <1>1, <1>4, <2>2, <2>4, <2>5, <3>1, <3>2
  <2>6. CASE f # 0 /\ SecondOf(r) < now \div Second
    <3> DEFINE ar == a * Round
               br == (1 + f) * Round
    <3>1. now <= x + Second + ar
      BY <1>3, <2>1, <2>6 DEF InTurn
    <3>2. ar \in Int /\ br \in Nat /\ ar <= br
      BY <2>4
    <3>3. g = Second
      BY <2>6
    <3> HIDE DEF ar, br, x, g
    <3>4. now <= x + g + br
      BY <1>1, <1>4, <2>2, <3>1, <3>2, <3>3
    <3> QED BY <2>2, <2>4, <3>4 DEF br, x
  <2>7. CASE f # 0 /\ now \div Second <= SecondOf(r)
    <3> DEFINE br == (1 + f) * Round
    <3>1. now < x + Second
      <4>1. now \div Second <= x \div Second
        BY <2>7 DEF SecondOf
      <4> HIDE DEF x
      <4>2. x > now - Second
        BY <1>1, <2>2, <4>1, SameSecond
      <4> QED BY <1>1, <1>4, <2>2, <4>2
    <3>2. g = Second /\ br \in Nat
      BY <2>4, <2>7
    <3> HIDE DEF br, x, g
    <3>3. now <= x + g + br
      BY <1>1, <1>4, <2>2, <3>1, <3>2
    <3> QED BY <2>2, <2>4, <3>3 DEF br, x
  <2>8. now \div Second \in Int /\ SecondOf(r) \in Int
    BY <1>1, <2>2, Division DEF SecondOf
  <2> QED BY <2>5, <2>6, <2>7, <2>8
<1>8. ASSUME NEW i \in DOMAIN queue'
      PROVE  since' + (i - 1) * cfg.timeout <= rows[queue'[i]].next + MaxLate
  <2> DEFINE r == queue'[i]
             m == i - 1
             lead == Limit - 1
  <2>1. r \in Rows /\ rows[r].status = "retrying" /\ rows[r].next \in Int
    <3>1. r \in Rows /\ IsDue(rows[r], now)
      BY <1>1, BatchType
    <3> QED BY <1>1, <3>1 DEF IsDue, Row
  <2>2. since' = now
    BY <1>1, <1>2
  <2>3. m \in Nat /\ lead \in Nat /\ m <= lead
    BY <1>2, <1>4
  <2>4. m * cfg.timeout \in Int /\ lead * cfg.timeout \in Int /\ m * cfg.timeout <= lead * cfg.timeout
    <3> HIDE DEF m, lead
    <3> QED BY <1>1, <2>3, MoreRounds
  <2>5. MaxLate = g + (1 + f) * Round + lead * cfg.timeout
    BY DEF MaxLate
  <2> DEFINE x == rows[r].next
             mt == m * cfg.timeout
             lt == lead * cfg.timeout
             br == (1 + f) * Round
  <2>6. x \in Int /\ mt \in Int /\ lt \in Int /\ br \in Nat /\ mt <= lt /\ now <= x + g + br /\ g \in Int
    BY <1>4, <1>7, <2>1, <2>4
  <2> HIDE DEF x, mt, lt, br, g
  <2>7. now + mt <= x + (g + br + lt)
    BY <1>1, <2>6
  <2> QED BY <2>2, <2>5, <2>7 DEF x, mt, lt, br
<1>9. ASSUME NEW r \in Rows \ Queued', rows[r].status = "retrying"
      PROVE  InTurn(r)'
  <2> DEFINE x == rows[r].next
             k == Cardinality(Ahead(r))
             k2 == Cardinality(Ahead(r)')
  <2>1. InTurn(r) /\ x \in Int /\ f \in Nat /\ k \in Nat
    BY <1>1, <1>5, <1>9, AheadCount DEF Turns, Row
  <2>2. InTurn(r)' <=>
          IF f = 0 THEN NextQuery' <= x + Round
          ELSE x \div Second < now \div Second =>
                 NextQuery' <= x + Second + (1 + f - k2 \div Limit) * Round
    BY <1>1, <1>4 DEF InTurn, SecondOf
  <2>3. CASE f = 0
    <3>1. r \notin DueRows
      <4>1. SUFFICES ASSUME r \in DueRows PROVE FALSE
        OBVIOUS
      <4>2. Len(queue') = Limit /\ Cardinality(Queued') = Limit
        BY <1>1, <1>5, <4>1, BatchFull
      <4>3. Queued' \subseteq Rows \ {r}
        BY <1>5, <1>9
      <4>4. IsFiniteSet(Rows \ {r}) /\ Cardinality(Rows \ {r}) = Cardinality(Rows) - 1
        BY ScheduleAssumption, FS_RemoveElement
      <4>5. Limit <= Cardinality(Rows) - 1 /\ Cardinality(Rows) - 1 \in Nat
        BY <4>2, <4>3, <4>4, FS_Subset, FS_CardinalityType
      <4> DEFINE c == Cardinality(Rows) - 1
      <4>6. c \in Nat /\ Limit <= c /\ c \div Limit = 0
        BY <2>3, <4>5 DEF FullBatches
      <4> HIDE DEF c
      <4>7. (c - Limit) \div Limit = -1 /\ c - Limit \in Nat
        BY <1>4, <4>6, Quotients
      <4> DEFINE e == c - Limit
      <4> HIDE DEF e
      <4>8. e \in Nat /\ e \div Limit = -1
        BY <4>7 DEF e
      <4>9. e \div Limit \in Nat
        BY <1>4, <4>8, Quotients
      <4> QED BY <4>8, <4>9
    <3>2. x \div Second > now \div Second
      BY <1>1, <1>9, <3>1, NotDueYet DEF DueRows
    <3>3. now <= x
      <4>1. ASSUME x <= now PROVE x \div Second <= now \div Second
        BY <1>1, <2>1, <4>1, SecondsFollow
      <4>2. x \div Second \in Int /\ now \div Second \in Int
        BY <1>1, <2>1, Division
      <4> QED BY <1>1, <2>1, <3>2, <4>1, <4>2
    <3>4. NextQuery' <= x + Round
      BY <1>1, <1>3, <1>4, <1>6, <2>1, <3>3
    <3> QED BY <2>2, <2>3, <3>4
  <2>4. CASE f # 0 /\ x \div Second < now \div Second
    <3>1. k2 = k - Limit /\ Limit <= k
      BY <1>9, <2>4, AheadTaken DEF SecondOf
    <3>2. k2 \div Limit = k \div Limit - 1 /\ k \div Limit \in Nat
      <4>1. k \in Nat /\ k <= k
        BY <2>1
      <4> HIDE DEF k, k2
      <4>2. (k - Limit) \div Limit = (k \div Limit) - 1 /\ k \div Limit \in Nat
        BY <1>4, <3>1, <4>1, Quotients
      <4> QED BY <3>1, <4>2
    <3> DEFINE a == 1 + f - k \div Limit
    <3>3. a \in Int /\ 1 + f - k2 \div Limit = a + 1
      BY <2>1, <3>2
    <3>4. now <= x + Second + a * Round
      BY <1>3, <2>1, <2>4 DEF InTurn, SecondOf
    <3> HIDE DEF a
    <3>5. a * Round \in Int /\ (a + 1) * Round = a * Round + Round
      BY <1>4, <3>3, MoreRounds
    <3> DEFINE ar == a * Round
    <3>6. ar \in Int /\ now <= x + Second + ar /\ (a + 1) * Round = ar + Round
      BY <3>4, <3>5
    <3> HIDE DEF ar, x
    <3>7. NextQuery' <= x + Second + (ar + Round)
      BY <1>1, <1>3, <1>4, <1>6, <2>1, <3>6
    <3> QED BY <2>2, <2>4, <3>3, <3>6, <3>7 DEF x
  <2> QED BY <2>2, <2>3, <2>4
<1> QED BY <1>1, <1>4, <1>8, <1>9 DEF Turns

\* A step that leaves the batch alone and gives no row a time that is past keeps the turns.
LEMMA TurnsUntouched ==
  ASSUME WorkInv, WorkInv', Clocked, Clocked', NextQuery' <= NextQuery, Turns,
         UNCHANGED <<cfg, queue, since>>, now' >= now,
         \A q \in Rows : rows'[q].status = "retrying" => rows'[q] = rows[q] \/ rows'[q].next >= now',
         \A q \in Rows : rows[q].status = "retrying" => rows'[q] = rows[q]
  PROVE  Turns'
<1>1. Queued' = Queued /\ MaxLate' = MaxLate /\ TypeOK'
  BY DEF Queued, MaxLate, Round, WorkInv
<1>2. \A r \in Rows \ Queued' : rows'[r].status = "retrying" => InTurn(r)'
  BY <1>1, TurnsKept DEF Turns
<1>3. \A i \in DOMAIN queue : rows'[queue[i]] = rows[queue[i]]
  BY DEF WorkInv, BatchHeld, TypeOK
<1> QED BY <1>1, <1>2, <1>3 DEF Turns

\* The worker's own step: the rows behind move up as the time passes.
LEMMA TurnsSent ==
  ASSUME WorkInv, WorkInv', Clocked, Sent, Sane, Turns
  PROVE  Turns'
<1> DEFINE h == Head(queue)
<1>1. /\ TypeOK /\ queue # <<>> /\ queue' = Tail(queue) /\ UNCHANGED <<phase, cfg, now, tick, tickAt>>
      /\ since' = IF queue' = <<>> THEN 0 ELSE now
      /\ queue \in Seq(Rows) /\ now \in Nat /\ since \in Nat /\ cfg.timeout \in Int /\ rows \in [Rows -> Row]
      /\ TypeOK' /\ rows' \in [Rows -> Row]
  BY DEF WorkInv, Sent, process, ticker, TypeOK
<1>2. Clocked' /\ NextQuery' <= NextQuery
  BY ClockSent
<1>3. /\ h \in Rows /\ h = queue[1] /\ 1 \in DOMAIN queue /\ queue' \in Seq(Rows)
      /\ \A i \in DOMAIN queue' : /\ i \in Nat \ {0} /\ i + 1 \in DOMAIN queue /\ i + 1 # 1
                                 /\ queue'[i] = queue[i + 1]
      /\ \A i \in DOMAIN queue : i = 1 \/ (i - 1 \in DOMAIN queue' /\ queue[i] = queue'[i - 1])
  BY <1>1, HeadTailProperties, SMT
<1>4. /\ \A q \in Rows : q # h => rows'[q] = rows[q]
      /\ rows'[h].status = "retrying" => rows'[h].next >= now
  <2>1. CASE Succeeded(h)
    BY <1>1, <1>3, <2>1 DEF Succeeded, Delivered
  <2>2. ASSUME NEW answer \in {"non2xx", "error"}, NEW jitter \in Drawn(Counted(rows[h], answer)),
               Failed(h, Counted(rows[h], answer), jitter)
        PROVE  /\ \A q \in Rows : q # h => rows'[q] = rows[q]
               /\ rows'[h].status = "retrying" => rows'[h].next >= now
    <3>1. rows'[h].status = "retrying" => rows'[h].next >= now
      BY <1>1, <1>3, <2>2, FailedLater
    <3>2. Counted(rows[h], answer) \in Nat /\ jitter \in Nat
      BY <1>1, <1>3, CountedDrawn
    <3> QED BY <1>1, <1>3, <2>2, <3>1, <3>2, FailedType
  <2> QED BY <2>1, <2>2 DEF Sent
<1>5. Queued' = Queued \ {h}
  <2>1. \A i, j \in DOMAIN queue : queue[i] = queue[j] => i = j
    BY DEF WorkInv, BatchHeld
  <2>2. \A i \in DOMAIN queue' : queue'[i] # h
    BY <1>3, <2>1
  <2> QED BY <1>3, <2>2 DEF Queued
<1>6. ASSUME NEW r \in Rows \ Queued', rows'[r].status = "retrying" PROVE InTurn(r)'
  <2>1. \A q \in Rows : rows'[q].status = "retrying" =>
           \/ rows'[q] = rows[q] /\ (q \notin Queued' => q \notin Queued)
           \/ rows'[q].next >= now'
    BY <1>1, <1>4, <1>5
  <2>2. now' >= now /\ Queued' \subseteq Queued /\ UNCHANGED cfg
    BY <1>1, <1>5
  <2>3. \A q \in Rows \ Queued : rows[q].status = "retrying" => InTurn(q)
    BY DEF Turns
  <2> QED BY <1>1, <1>2, <1>6, <2>1, <2>2, <2>3, TurnsKept
<1>7. ASSUME NEW i \in DOMAIN queue'
      PROVE  since' + (i - 1) * cfg.timeout <= rows'[queue'[i]].next + MaxLate
  <2> DEFINE m == i - 1
             q == queue'[i]
  <2>1. /\ i + 1 \in DOMAIN queue /\ q = queue[i + 1] /\ m \in Nat /\ i = m + 1 /\ (i + 1) - 1 = m + 1
        /\ q \in Rows
    BY <1>1, <1>3
  <2>2. rows'[q] = rows[q] /\ rows[q].next \in Int
    <3>1. i + 1 # 1
      BY <1>3
    <3>2. q # h
      BY <1>3, <2>1, <3>1 DEF WorkInv, BatchHeld
    <3> QED BY <1>1, <1>4, <2>1, <3>2 DEF Row
  <2>3. since + (m + 1) * cfg.timeout <= rows[q].next + MaxLate
    BY <2>1 DEF Turns
  <2>4. (m + 1) * cfg.timeout = m * cfg.timeout + cfg.timeout /\ m * cfg.timeout \in Nat
    <3> HIDE DEF m
    <3> QED BY <1>1, <2>1, RoundFacts DEF Clocked
  <2>5. since' = now /\ now <= since + cfg.timeout
    <3>1. queue' # <<>>
      OBVIOUS
    <3> QED BY <1>1, <3>1 DEF Clocked
  <2>6. MaxLate \in Int
    <3>1. FullBatches \in Int
      BY <1>3, AheadCount
    <3>2. /\ Round \in Nat /\ Second \in Nat /\ Limit - 1 \in Nat /\ 1 + FullBatches \in Int
      BY <1>1, <3>1, RoundFacts, ScheduleAssumption DEF Clocked
    <3>3. (1 + FullBatches) * Round \in Int /\ (Limit - 1) * cfg.timeout \in Int
      BY <1>1, <3>2
    <3> QED BY <3>2, <3>3 DEF MaxLate
  <2> DEFINE mt == m * cfg.timeout
             x == rows[q].next
  <2>7. mt \in Nat /\ x \in Int /\ since + (mt + cfg.timeout) <= x + MaxLate
    BY <2>2, <2>3, <2>4
  <2> HIDE DEF mt, x
  <2>8. now + mt <= x + MaxLate
    BY <1>1, <2>5, <2>6, <2>7
  <2> QED BY <2>1, <2>2, <2>5, <2>8 DEF mt, x
<1>8. MaxLate' = MaxLate /\ cfg' = cfg
  BY <1>1 DEF MaxLate, Round, FullBatches
<1> QED BY <1>6, <1>7, <1>8 DEF Turns

\* Nothing waits at the start.
LEMMA TurnInit == Init => TurnInv
BY DEF Init, TurnInv, Unbegun, NoRow, Retrying

LEMMA RoundType == cfg.timeout \in Int /\ cfg.timeout > 0 => Round \in Nat /\ Round >= Second
BY RoundFacts

\* The worker starts with a tick a second ahead, and inherited rows are just due.
LEMMA TurnStart ==
  ASSUME WorkInv, WorkInv', TurnInv, NEW e \in Environments, Start(e)
  PROVE  TurnInv'
<1>1. /\ phase = "starting" /\ UNCHANGED <<now, rows, queue, since, tick>> /\ tickAt' = now + Second
      /\ cfg' = Load(e) /\ phase' = (IF Valid(Load(e)) THEN "running" ELSE "refused")
      /\ queue = <<>> /\ ~tick /\ \A r \in Rows : rows[r].status = "retrying" => rows[r].next = now
      /\ now \in Nat /\ cfg' \in [base : Int, timeout : Int, retries : Int]
  BY DEF Start, worker, TurnInv, Unbegun, WorkInv, TypeOK
<1>2. SUFFICES ASSUME Valid(cfg') PROVE Clocked' /\ Turns'
  BY <1>1 DEF TurnInv, Unbegun
<1>3. cfg'.timeout \in Int /\ cfg'.timeout > 0
  BY <1>1, <1>2 DEF Valid
<1>4. Round' \in Nat /\ Round' >= Second /\ Second \in Nat \ {0}
  <2>1. (cfg.timeout \in Int /\ cfg.timeout > 0 => Round \in Nat /\ Round >= Second)'
    BY RoundType, PTL
  <2> QED BY <1>3, <2>1, ScheduleAssumption
<1>5. NextQuery' = now + Second
  BY <1>1 DEF NextQuery
<1>6. NextQuery' <= now' + Round'
  <2>1. \A q, r \in Int : q = now + Second /\ r >= Second => q <= now + r
    <3>1. now \in Int /\ Second \in Int
      BY <1>1, <1>4
    <3> QED BY <3>1
  <2>2. NextQuery' \in Int /\ Round' \in Int
    <3>1. now \in Nat /\ Second \in Nat
      BY <1>1, <1>4
    <3>2. now + Second \in Int
      BY <3>1
    <3> QED BY <1>4, <1>5, <3>2
  <2>3. NextQuery' <= now + Round'
    BY <1>4, <1>5, <2>1, <2>2, Zenon
  <2> QED BY <1>1, <2>3, Zenon
<1>7. Clocked'
  <2>1. now' < tickAt' /\ tickAt' <= now' + Second /\ queue' = <<>>
    BY <1>1, <1>4
  <2> QED BY <1>3, <1>6, <2>1 DEF Clocked
<1>8. \A r \in Rows : rows'[r].status = "retrying" => InTurn(r)'
  <2>1. now \div Second \in Int
    BY <1>1, Division
  <2> QED BY <1>1, <1>6, <2>1 DEF InTurn, SecondOf
<1> QED BY <1>1, <1>7, <1>8 DEF Turns

\* Handlers leave the worker's clock alone.
LEMMA ClockKept ==
  ASSUME TypeOK, Clocked, UNCHANGED <<cfg, now, queue, since, tick, tickAt>>
  PROVE  Clocked' /\ NextQuery' = NextQuery /\ NextQuery' <= NextQuery
<1>1. NextQuery' = NextQuery /\ Round' = Round
  BY DEF NextQuery, Round
<1>2. NextQuery \in Int
  BY QueryType
<1> QED BY <1>1, <1>2 DEF Clocked

LEMMA TurnNext == WorkInv /\ WorkInv' /\ TurnInv /\ [Next]_vars => TurnInv'
<1> SUFFICES ASSUME WorkInv, WorkInv', TurnInv, [Next]_vars PROVE TurnInv'
  OBVIOUS
<1>t. /\ TypeOK /\ TypeOK' /\ now \in Nat /\ cfg.base \in Int
      /\ rows \in [Rows -> Row] /\ rows' \in [Rows -> Row]
  BY DEF WorkInv, TypeOK
<1>1. ASSUME NEW e \in Environments, Start(e) PROVE TurnInv'
  BY <1>1, TurnStart
<1>2. ASSUME phase = "running", phase' = "running", UNCHANGED <<cfg, now, queue, since, tick, tickAt>>,
             NEW r \in Rows, rows[r].status # "retrying",
             \A q \in Rows : q # r => rows'[q] = rows[q],
             Sane => (rows'[r].status = "retrying" => rows'[r].next >= now)
      PROVE  TurnInv'
  <2>1. Clocked /\ Clocked' /\ NextQuery' <= NextQuery
    BY <1>t, <1>2, ClockKept DEF TurnInv
  <2>2. ASSUME Sane PROVE Turns'
    <3>1. /\ \A q \in Rows : rows'[q].status = "retrying" => rows'[q] = rows[q] \/ rows'[q].next >= now'
          /\ \A q \in Rows : rows[q].status = "retrying" => rows'[q] = rows[q]
      BY <1>2, <2>2
    <3>2. Turns /\ now' >= now
      BY <1>t, <1>2, <2>2 DEF TurnInv
    <3> QED BY <1>2, <2>1, <3>1, <3>2, TurnsUntouched
  <2>3. Sane' <=> Sane
    BY <1>2 DEF Sane
  <2> QED BY <1>2, <2>1, <2>2, <2>3 DEF TurnInv, Unbegun
<1>3. ASSUME NEW r \in Rows, FirstAttempt(r) PROVE TurnInv'
  <2>1. /\ phase = "running" /\ UNCHANGED <<phase, cfg, now, queue, since, tick, tickAt>>
        /\ rows[r].status = "absent"
    BY <1>3 DEF FirstAttempt, process, worker, ticker
  <2>2. CASE Succeeded(r)
    <3>1. /\ rows'[r].status # "retrying" /\ \A q \in Rows : q # r => rows'[q] = rows[q]
      BY <1>t, <2>2 DEF Succeeded, Delivered
    <3> QED BY <1>2, <2>1, <3>1
  <2>3. ASSUME NEW answer \in {"non2xx", "error"}, NEW jitter \in Drawn(Counted(rows[r], answer)),
               Failed(r, Counted(rows[r], answer), jitter)
        PROVE  TurnInv'
    <3>1. Sane => (rows'[r].status = "retrying" => rows'[r].next >= now)
      BY <1>t, <2>3, FailedLater
    <3>2. Counted(rows[r], answer) \in Nat /\ jitter \in Nat
      BY <1>t, CountedDrawn
    <3>3. \A q \in Rows : q # r => rows'[q] = rows[q]
      BY <1>t, <2>3, <3>2, FailedType
    <3> QED BY <1>2, <2>1, <3>1, <3>3
  <2> QED BY <1>3, <2>2, <2>3 DEF FirstAttempt
<1>4. ASSUME NEW r \in Rows, FirstAttemptPanics(r) PROVE TurnInv'
  <2>1. /\ phase = "running" /\ UNCHANGED <<phase, cfg, now, queue, since, tick, tickAt>>
        /\ rows[r].status = "absent" /\ rows' = [rows EXCEPT ![r] = Pending]
    BY <1>4 DEF FirstAttemptPanics, process, worker, ticker
  <2>2. rows'[r].status # "retrying" /\ \A q \in Rows : q # r => rows'[q] = rows[q]
    BY <1>t, <2>1 DEF Pending
  <2> QED BY <1>2, <2>1, <2>2
<1>5. ASSUME NEW r \in Rows, Requeue(r) PROVE TurnInv'
  <2>1. /\ phase = "running" /\ UNCHANGED <<phase, cfg, now, queue, since, tick, tickAt>>
        /\ rows[r].status = "dead"
    BY <1>5 DEF Requeue, process, worker, ticker
  <2>2. PICK jitter \in Draws(cfg.base) :
          rows' = [rows EXCEPT ![r] = Retrying(0, now + Duration(cfg.base, 1, jitter))]
    BY <1>5 DEF Requeue
  <2> DEFINE d == Duration(cfg.base, 1, jitter)
  <2>3. Sane => d \in Int /\ d >= 0
    <3>1. SUFFICES ASSUME Sane PROVE d \in Int /\ d >= 0
      OBVIOUS
    <3>2. d \in Int /\ d >= cfg.base * Factor(0)
      BY <1>t, <3>1, SaneDurations
    <3>3. Factor(0) = 1 /\ cfg.base >= 0
      BY <3>1 DEF Factor, Sane
    <3> QED BY <1>t, <3>2, <3>3
  <2>4. rows'[r].next = now + d /\ \A q \in Rows : q # r => rows'[q] = rows[q]
    BY <1>t, <2>2 DEF Retrying
  <2> HIDE DEF d
  <2>5. Sane => rows'[r].next >= now
    BY <1>t, <2>3, <2>4
  <2> QED BY <1>2, <2>1, <2>4, <2>5
<1>6. CASE Wake
  <2>1. /\ phase = "running" /\ UNCHANGED <<phase, cfg>> /\ queue' \in Batches
    BY <1>6 DEF Wake, process
  <2>2. Clocked /\ (Sane => Turns) /\ (Sane' <=> Sane)
    BY <2>1 DEF TurnInv, Sane
  <2>3. Clocked'
    BY <1>t, <1>6, <2>1, <2>2, BatchType, BatchFull, ClockWake
  <2>4. Sane => Turns'
    BY <1>6, <2>2, TurnsWake
  <2> QED BY <2>1, <2>2, <2>3, <2>4 DEF TurnInv, Unbegun
<1>7. CASE Sent
  <2>1. phase = "running" /\ UNCHANGED <<phase, cfg>>
    BY <1>7 DEF Sent, process
  <2>2. Clocked /\ (Sane => Turns) /\ (Sane' <=> Sane)
    BY <2>1 DEF TurnInv, Sane
  <2>3. Clocked'
    BY <1>7, <2>2, ClockSent
  <2>4. Sane => Turns'
    BY <1>7, <2>2, TurnsSent
  <2> QED BY <2>1, <2>2, <2>3, <2>4 DEF TurnInv, Unbegun
<1>8. CASE WorkerPanics
  BY <1>8 DEF WorkerPanics, TurnInv, Unbegun
<1>9. CASE Advance
  <2>1. /\ phase = "running" /\ UNCHANGED <<phase, cfg, rows, queue, since>> /\ now' = now + 1
    BY <1>9 DEF Advance, process, worker
  <2>2. Clocked /\ (Sane => Turns) /\ (Sane' <=> Sane)
    BY <2>1 DEF TurnInv, Sane
  <2>3. Clocked' /\ NextQuery' <= NextQuery
    BY <1>9, <2>2, ClockAdvance
  <2>4. now' >= now
    BY <1>t, <2>1
  <2>5. Sane => Turns'
    BY <2>1, <2>2, <2>3, <2>4, TurnsUntouched
  <2> QED BY <2>1, <2>2, <2>3, <2>5 DEF TurnInv, Unbegun
<1>10. CASE UNCHANGED vars
  <2>1. UNCHANGED <<phase, cfg, now, rows, queue, since, tick, tickAt>>
    BY <1>10 DEF vars, process, worker, ticker
  <2>2. (Sane' <=> Sane) /\ (Unbegun' <=> Unbegun)
    BY <2>1 DEF Sane, Unbegun
  <2>3. ASSUME phase = "running" PROVE Clocked' /\ (Sane => Turns')
    <3>1. Clocked /\ Clocked' /\ NextQuery' <= NextQuery
      BY <1>t, <2>1, <2>3, ClockKept DEF TurnInv
    <3>2. ASSUME Sane PROVE Turns'
      BY <1>t, <2>1, <2>3, <3>1, <3>2, TurnsUntouched DEF TurnInv
    <3> QED BY <3>1, <3>2
  <2> QED BY <2>1, <2>2, <2>3 DEF TurnInv
<1> QED BY <1>1, <1>3, <1>4, <1>5, <1>6, <1>7, <1>8, <1>9, <1>10 DEF Next

\* No retry is late by more than the rounds that the others can fill, for any number of
\* rows, any batch limit and any fitting base, zero included: ticks that are dropped,
\* batches that last, rows that fail again at once and manual retries cost it no more.
THEOREM RetriesPunctual == Spec => []Punctual
<1>1. ASSUME WorkInv, TurnInv, Sane, phase = "running", NEW r \in Rows, rows[r].status = "retrying"
      PROVE  Late(r) <= MaxLate
  <2> DEFINE x == rows[r].next
             f == FullBatches
             g == IF f = 0 THEN 0 ELSE Second
             br == (1 + f) * Round
             lt == (Limit - 1) * cfg.timeout
             k == Cardinality(Ahead(r)) \div Limit
             a == 1 + f - k
             ar == a * Round
  <2>1. /\ TypeOK /\ Clocked /\ Turns /\ now \in Nat /\ now \in Int /\ since \in Nat /\ x \in Int
        /\ queue \in Seq(Rows) /\ cfg.timeout \in Int /\ cfg.timeout > 0
    BY <1>1 DEF WorkInv, TurnInv, TypeOK, Row, Clocked
  <2>2. /\ Round \in Nat /\ Round >= Second /\ Second \in Nat \ {0} /\ Limit - 1 \in Nat
        /\ f \in Nat /\ k \in Nat /\ k <= f
    BY <2>1, RoundFacts, AheadCount
  <2>3. lt \in Nat /\ ar \in Int /\ br \in Int /\ ar <= br /\ Round <= br
    <3>1. lt \in Nat
      <4> DEFINE l == Limit - 1
      <4> HIDE DEF l
      <4>1. l * cfg.timeout \in Nat
        BY <2>1, <2>2, RoundFacts DEF l
      <4> QED BY <4>1 DEF l
    <3>2. a \in Int /\ 1 + f \in Int /\ a <= 1 + f /\ 1 <= 1 + f /\ 1 * Round = Round
      BY <2>2
    <3> HIDE DEF a, f, k
    <3> QED BY <2>2, <3>1, <3>2, MoreRounds
  <2>4. MaxLate = g + br + lt
    BY DEF MaxLate
  <2>5. CASE r \in Queued
    <3>1. PICK i \in DOMAIN queue : queue[i] = r
      BY <2>5 DEF Queued
    <3> DEFINE mt == (i - 1) * cfg.timeout
    <3>2. since + mt <= x + MaxLate
      BY <2>1, <3>1 DEF Turns
    <3>3. i - 1 \in Nat /\ queue # <<>> /\ (i = 1 => Head(queue) = r)
      BY <2>1, <3>1
    <3>4. mt \in Nat /\ (i # 1 => cfg.timeout <= mt)
      <4>1. mt \in Nat
        <5> DEFINE n == i - 1
        <5> HIDE DEF n
        <5>1. n \in Nat /\ n * cfg.timeout \in Nat
          BY <2>1, <3>3, RoundFacts DEF n
        <5> QED BY <5>1 DEF n
      <4>2. ASSUME i # 1 PROVE cfg.timeout <= mt
        <5> DEFINE n == i - 2
        <5>1. n \in Nat /\ i - 1 = n + 1
          <6>1. i \in Nat \ {0}
            BY <2>1, <3>1
          <6> QED BY <4>2, <6>1
        <5> HIDE DEF n
        <5>2. n * cfg.timeout \in Nat /\ (n + 1) * cfg.timeout = n * cfg.timeout + cfg.timeout
          BY <2>1, <5>1, RoundFacts
        <5> DEFINE nt == n * cfg.timeout
        <5>3. nt \in Nat /\ mt = nt + cfg.timeout
          BY <5>1, <5>2
        <5> HIDE DEF nt, mt
        <5> QED BY <2>1, <5>3
      <4> QED BY <4>1, <4>2
    <3>5. now <= since + cfg.timeout /\ since <= now
      BY <2>1, <3>3 DEF Clocked
    <3>6. MaxLate \in Int
      <4> HIDE DEF br, lt
      <4> QED BY <2>2, <2>3, <2>4
    <3> HIDE DEF mt, x
    <3>7. CASE i = 1
      <4>1. Late(r) = since - x
        BY <3>3, <3>7 DEF Late, x
      <4> QED BY <2>1, <3>2, <3>4, <3>6, <4>1
    <3>8. CASE i # 1
      <4>1. Late(r) \in {since - x, now - x}
        BY DEF Late, x
      <4> QED BY <2>1, <3>2, <3>4, <3>5, <3>6, <3>8, <4>1
    <3> QED BY <3>7, <3>8
  <2>6. CASE r \notin Queued
    <3>1. Late(r) = now - x
      <4>1. queue # <<>> => Head(queue) \in Queued
        <5>1. SUFFICES ASSUME queue # <<>> PROVE Head(queue) \in Queued
          OBVIOUS
        <5>2. 1 \in DOMAIN queue /\ Head(queue) = queue[1]
          BY <2>1, <5>1
        <5> QED BY <5>2 DEF Queued
      <4> QED BY <2>6, <4>1 DEF Late
    <3>2. InTurn(r) /\ NextQuery \in Int /\ now <= NextQuery
      BY <1>1, <2>1, <2>6, QueryAhead DEF Turns
    <3>3. now <= x + g + br
      <4>1. CASE f = 0
        <5>1. NextQuery <= x + Round
          BY <3>2, <4>1 DEF InTurn
        <5> HIDE DEF br, ar, x, f
        <5> QED BY <2>1, <2>2, <2>3, <3>2, <4>1, <5>1 DEF f
      <4>2. CASE f # 0 /\ SecondOf(r) < now \div Second
        <5>1. NextQuery <= x + Second + ar
          BY <3>2, <4>2 DEF InTurn
        <5>2. g = Second
          BY <4>2
        <5> HIDE DEF br, ar, x, g, f
        <5> QED BY <2>1, <2>2, <2>3, <3>2, <5>1, <5>2
      <4>3. CASE f # 0 /\ now \div Second <= SecondOf(r)
        <5>1. x > now - Second
          <6>1. now \div Second <= x \div Second
            BY <4>3 DEF SecondOf
          <6> HIDE DEF x
          <6> QED BY <2>1, <6>1, SameSecond
        <5>2. g = Second
          BY <4>3
        <5> HIDE DEF br, ar, x, g, f
        <5> QED BY <2>1, <2>2, <2>3, <5>1, <5>2
      <4>4. now \div Second \in Int /\ SecondOf(r) \in Int
        BY <2>1, Division DEF SecondOf
      <4> QED BY <4>1, <4>2, <4>3, <4>4
    <3>4. g \in Int
      BY <2>2
    <3> HIDE DEF br, lt, x, g, f
    <3> QED BY <2>1, <2>3, <2>4, <3>1, <3>3, <3>4
  <2> QED BY <2>5, <2>6
<1>2. WorkInv /\ TurnInv => Punctual
  BY <1>1 DEF Punctual
<1>3. Spec => []TurnInv
  BY TurnInit, TurnNext, WorkHolds, PTL DEF Spec
<1> QED BY <1>2, <1>3, WorkHolds, PTL
=============================================================================
