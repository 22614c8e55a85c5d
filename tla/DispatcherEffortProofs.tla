----------------------- MODULE DispatcherEffortProofs -----------------------
(***************************************************************************)
(* How the counts in the rows of Dispatcher and the trails of its posts    *)
(* bound one another, for every value of the constants: before any manual  *)
(* retry the counted attempts are on record, and the posts of a delivery   *)
(* are bounded through manual retries, overlapping ones too, and crashes.  *)
(***************************************************************************)
EXTENDS DispatcherProofs, FiniteSetTheorems

-----------------------------------------------------------------------------
\* What send adds to the count: one, or two for an answer that is no success.
LEMMA OutcomeCount ==
  ASSUME NEW v \in Row, NEW a \in Answers
  PROVE  /\ Outcome(v, a).attempts = v.attempts + (IF a = "non2xx" THEN 2 ELSE 1)
         /\ Outcome(v, a).status = "dead" => Outcome(v, a).attempts >= MaxRetries
         /\ Outcome(v, a).status \in {"delivered", "retrying", "dead"}
BY ConstantsAssumption DEF Outcome, MarkFailed, RowWith, Row, Status, Answers

\* A trail has one entry more after an append.
LEMMA AppendLength ==
  ASSUME NEW s \in Seq(Answers), NEW a \in Answers
  PROVE  Append(s, a) \in Seq(Answers) /\ Len(s) \in Nat /\ Len(Append(s, a)) = Len(s) + 1
OBVIOUS

-----------------------------------------------------------------------------
\* Before any manual retry: counts and trails.

\* Nothing has disturbed the delivery life cycle yet.
Quiet == requeues = 0 /\ crashes = 0 /\ phase = "running"

\* The count a and the trail s agree up to the double count of answered failures.
Agree(a, s) == Len(s) <= a /\ a <= 2 * Len(s)

\* How trail and count of d relate while its goroutines are at work: the post that
\* is recorded and not yet counted is that of a goroutine about to write.
Tracked(d) ==
  /\ rows[d].status \in {"absent", "pending"} => rows[d].attempts = 0
  /\ pc["handler"][d] \in {"idle", "check", "post", "record"} => Len(trail[d]) = 0
  /\ pc["handler"][d] = "write" => Len(trail[d]) = 1
  /\ pc["worker"][d] # "idle" => dv["worker"][d].attempts = rows[d].attempts
  /\ rows[d].status \notin {"absent", "pending"} =>
       IF pc["worker"][d] = "write"
       THEN Len(trail[d]) <= rows[d].attempts + 1 /\ rows[d].attempts + 2 <= 2 * Len(trail[d])
       ELSE Agree(rows[d].attempts, trail[d])

TrackInv ==
  Quiet => /\ \A r \in Requesters : req[r] = NoReq
           /\ \A d \in Deliveries \ canceled : Tracked(d)

\* The tables are empty at the start.
LEMMA TrackInit == Init => TrackInv
BY FixedRows DEF Init, TrackInv, Tracked, Kind, NoRow, RowWith

\* What was quiet before a step that leaves it quiet: a manual retry and an end of
\* the process count for good, and a process only starts again after an end.
LEMMA QuietBefore ==
  ASSUME IInv, DownCounted, [Next]_vars, Quiet'
  PROVE  /\ Quiet
         /\ \A r \in Requesters, d \in Deliveries : ~RequeueLoad(r, d)
         /\ ~Die /\ ~Stop /\ ~Restart
<1> USE DEF IInv, TypeOK, Quiet
<1>1. \A r \in Requesters, d \in Deliveries : ~RequeueLoad(r, d)
  BY DEF RequeueLoad
<1>2. ~Die /\ ~Stop
  BY DEF Die, Stop
<1>3. ~Restart
  BY DEF Restart, DownCounted
<1>4. ASSUME UNCHANGED <<phase, requeues, crashes>> PROVE Quiet
  BY <1>4
<1>5. ASSUME NEW k \in Kind, NEW d \in Deliveries, JitterPanic(k, d) PROVE Quiet
  BY <1>2, <1>4, <1>5 DEF JitterPanic
<1> QED
  BY <1>1, <1>2, <1>3, <1>4, <1>5
  DEF Next, SendStep, Crash, Create, CheckRefuse, CheckAllow, Cancel, Scan, Fetch, Skip,
      Post, Record, Write, RequeueWrite, RequeueDrop, Elapse, vars

\* Nothing that concerns c changes, but for its retry time.
Untouched(c) ==
  /\ rows'[c].status = rows[c].status
  /\ rows'[c].attempts = rows[c].attempts
  /\ trail'[c] = trail[c]
  /\ pc'["handler"][c] = pc["handler"][c]
  /\ pc'["worker"][c] = pc["worker"][c]
  /\ dv'["worker"][c] = dv["worker"][c]

\* Then c is tracked still.
LEMMA TrackedUntouched ==
  ASSUME NEW c \in Deliveries, Tracked(c), Untouched(c) PROVE Tracked(c)'
BY DEF Tracked, Untouched, Agree

\* Every step keeps deliveries tracked while nothing disturbs the life cycle.
LEMMA TrackStep == IInv /\ DownCounted /\ TrackInv /\ [Next]_vars => TrackInv'
<1> SUFFICES ASSUME IInv, DownCounted, TrackInv, [Next]_vars, Quiet' PROVE TrackInv'
  BY DEF TrackInv
<1>0. /\ Quiet
      /\ \A r \in Requesters, d \in Deliveries : ~RequeueLoad(r, d)
      /\ ~Die /\ ~Stop /\ ~Restart
  BY QuietBefore
<1>1. /\ \A r \in Requesters : req[r] = NoReq
      /\ \A d \in Deliveries \ canceled : Tracked(d)
  BY <1>0 DEF TrackInv
<1> USE DEF IInv, TypeOK
<1>2. canceled \subseteq canceled' /\ req' = req
  BY <1>0, <1>1 DEF Next, SendStep, Crash, Create, CheckRefuse, CheckAllow, Cancel, Scan,
     Fetch, Skip, Post, Record, Write, JitterPanic, RequeueWrite, RequeueDrop, Elapse, vars
<1> SUFFICES ASSUME NEW c \in Deliveries, c \notin canceled, c \notin canceled' PROVE Tracked(c)'
  BY <1>1, <1>2 DEF TrackInv
<1>3. Tracked(c)
  BY <1>1
<1>4. trail[c] \in Seq(Answers) /\ rows[c] \in Row /\ rows[c].attempts \in Nat /\ Len(trail[c]) \in Nat
  BY DEF Row
<1>5. Untouched(c) => Tracked(c)'
  BY <1>3, TrackedUntouched
<1>6. ASSUME NEW d \in Deliveries, Create(d) PROVE Tracked(c)'
  <2>1. CASE d # c
    BY <1>5, <1>6, <2>1 DEF Create, Untouched, Kind
  <2>2. CASE d = c
    <3>1. pc["handler"][c] = "idle" /\ pc["worker"][c] = "idle"
      BY <1>6, <2>2 DEF Create, HandlerOwns, WorkerOwns
    <3>2. rows'[c] = NewRow /\ trail'[c] = trail[c] /\ pc'["worker"][c] = "idle" /\ pc'["handler"][c] = "check"
      BY <1>6, <2>2, <3>1 DEF Create, Kind
    <3> QED BY <1>3, <3>1, <3>2, FixedRows DEF Tracked
  <2> QED BY <2>1, <2>2
<1>7. ASSUME NEW d \in Deliveries, CheckRefuse(d) PROVE Tracked(c)'
  <2>1. CASE d # c
    BY <1>5, <1>7, <2>1 DEF CheckRefuse, Finish, Untouched, Kind
  <2>2. CASE d = c
    <3>1. /\ pc["handler"][c] = "check" /\ rows[c] = NewRow /\ dv["handler"][c] = NewRow
          /\ pc["worker"][c] = "idle"
      BY <1>7, <2>2, FixedRows DEF CheckRefuse, HandlerOwns, WorkerOwns
    <3>2. /\ rows'[c] = Refused(NewRow) /\ trail'[c] = trail[c]
          /\ pc'["worker"][c] = "idle" /\ pc'["handler"][c] = "done"
      BY <1>7, <2>2, <3>1 DEF CheckRefuse, CtxDone, Finish, Left, Kind
    <3>3. Refused(NewRow).attempts = 0 /\ Refused(NewRow).status = "dead"
      BY DEF Refused, NewRow, RowWith
    <3> QED BY <1>3, <3>1, <3>2, <3>3 DEF Tracked, Agree
  <2> QED BY <2>1, <2>2
<1>8. ASSUME NEW d \in Deliveries, CheckAllow(d) PROVE Tracked(c)'
  <2>1. CASE d # c
    BY <1>5, <1>8, <2>1 DEF CheckAllow, Untouched, Kind
  <2>2. CASE d = c
    <3>1. /\ pc["handler"][c] = "check" /\ pc'["handler"][c] = "post"
          /\ pc'["worker"][c] = pc["worker"][c]
          /\ UNCHANGED <<rows, trail, dv>>
      BY <1>8, <2>2 DEF CheckAllow, Kind
    <3> QED BY <1>3, <3>1 DEF Tracked, Agree
  <2> QED BY <2>1, <2>2
<1>9. CASE Scan
  <2>1. PICK batch \in SUBSET {d \in Deliveries : IsDue(rows[d])} :
          /\ pc' = [pc EXCEPT !["worker"] =
                   [d \in Deliveries |-> IF d \in batch THEN "queued" ELSE "idle"]]
          /\ dv' = [dv EXCEPT !["worker"] =
                   [d \in Deliveries |-> IF d \in batch THEN rows[d] ELSE NoRow]]
    BY <1>9 DEF Scan
  <2>2. /\ pc'["worker"][c] \in {"queued", "idle"}
        /\ pc'["worker"][c] # "idle" => dv'["worker"][c] = rows[c]
        /\ pc'["handler"][c] = pc["handler"][c]
    BY <2>1 DEF Kind
  <2>3. pc["worker"][c] = "idle" /\ UNCHANGED <<rows, trail>>
    BY <1>9 DEF Scan
  <2> QED BY <1>3, <2>2, <2>3 DEF Tracked, Agree
<1>10. ASSUME NEW d \in Deliveries, Fetch(d) \/ Skip(d) PROVE Tracked(c)'
  <2>1. ~Skip(d)
    BY <1>0 DEF Skip, Quiet
  <2>2. CASE d # c
    BY <1>5, <1>10, <2>1, <2>2 DEF Fetch, Untouched, Kind
  <2>3. CASE d = c
    <3>1. /\ pc["worker"][c] = "queued" /\ pc'["worker"][c] = "post"
          /\ pc'["handler"][c] = pc["handler"][c]
          /\ UNCHANGED <<rows, trail, dv>>
      BY <1>10, <2>1, <2>3 DEF Fetch, Kind
    <3> QED BY <1>3, <3>1 DEF Tracked, Agree
  <2> QED BY <2>2, <2>3
<1>11. ASSUME NEW k \in Kind, NEW d \in Deliveries, Post(k, d) PROVE Tracked(c)'
  <2>1. CASE d # c
    BY <1>5, <1>11, <2>1 DEF Post, Untouched, Kind
  <2>2. CASE d = c
    <3>1. /\ pc[k][c] = "post" /\ pc'[k][c] = "record"
          /\ \A j \in Kind \ {k} : pc'[j][c] = pc[j][c]
          /\ UNCHANGED <<rows, trail, dv>>
      BY <1>11, <2>2 DEF Post
    <3> QED BY <1>3, <3>1 DEF Tracked, Agree, Kind
  <2> QED BY <2>1, <2>2
<1>12. ASSUME NEW k \in Kind, NEW d \in Deliveries, Record(k, d) PROVE Tracked(c)'
  <2>1. CASE d # c
    BY <1>5, <1>12, <2>1 DEF Record, Untouched, Kind
  <2>2. CASE d = c
    <3>1. /\ pc[k][c] = "record" /\ pc'[k][c] = "write"
          /\ \A j \in Kind \ {k} : pc'[j][c] = pc[j][c]
          /\ trail'[c] = Append(trail[c], answer[k][c])
          /\ UNCHANGED <<rows, dv>>
      BY <1>0, <1>12, <2>2 DEF Record, RecordTakes, CtxDone, Quiet, Kind
    <3>2. Len(trail'[c]) = Len(trail[c]) + 1
      BY <1>4, <3>1, AppendLength
    <3>3. CASE k = "handler"
      <4>1. rows[c].status = "pending" /\ pc["worker"][c] = "idle"
        BY <3>1, <3>3, FixedRows DEF HandlerOwns, WorkerOwns, Sending, Kind
      <4> QED BY <1>3, <1>4, <3>1, <3>2, <3>3, <4>1 DEF Tracked, Agree, Kind
    <3>4. CASE k = "worker"
      <4>1. rows[c].status = "retrying" /\ pc["handler"][c] = "done"
        BY <3>1, <3>4, FixedRows DEF HandlerOwns, WorkerOwns, Sending, Kind
      <4> QED BY <1>3, <1>4, <3>1, <3>2, <3>4, <4>1 DEF Tracked, Agree, Kind
    <3> QED BY <3>3, <3>4 DEF Kind
  <2> QED BY <2>1, <2>2
<1>13. ASSUME NEW k \in Kind, NEW d \in Deliveries, Write(k, d) PROVE Tracked(c)'
  <2>1. CASE d # c
    BY <1>5, <1>13, <2>1 DEF Write, Finish, Untouched, Kind
  <2>2. CASE d = c
    <3>1. /\ pc[k][c] = "write" /\ pc'[k][c] = Left(k)
          /\ \A j \in Kind \ {k} : pc'[j][c] = pc[j][c]
          /\ rows'[c] = Outcome(dv[k][c], answer[k][c])
          /\ trail' = trail
      BY <1>0, <1>13, <2>2 DEF Write, Finish, UpdateTakes, CtxDone, Quiet, Kind
    <3>2. dv[k][c] \in Row /\ answer[k][c] \in Answers
      OBVIOUS
    <3>3. /\ rows'[c].attempts \in {dv[k][c].attempts + 1, dv[k][c].attempts + 2}
          /\ rows'[c].status \in {"delivered", "retrying", "dead"}
      <4>1. /\ Outcome(dv[k][c], answer[k][c]).attempts
                 = dv[k][c].attempts + (IF answer[k][c] = "non2xx" THEN 2 ELSE 1)
            /\ Outcome(dv[k][c], answer[k][c]).status \in {"delivered", "retrying", "dead"}
        BY <3>2, OutcomeCount
      <4> HIDE DEF IInv, TypeOK
      <4> QED BY <3>1, <4>1
    <3>4. CASE k = "handler"
      <4>1. dv[k][c].attempts = 0 /\ pc["worker"][c] = "idle"
        BY <3>1, <3>4, FixedRows DEF HandlerOwns, WorkerOwns, Sending, Kind
      <4>2. /\ Len(trail[c]) = 1 /\ rows'[c].attempts \in {1, 2}
            /\ pc'["handler"][c] = "done" /\ pc'["worker"][c] = "idle"
        BY <1>3, <3>1, <3>3, <3>4, <4>1 DEF Tracked, Kind, Left
      <4> QED BY <3>1, <3>3, <4>2 DEF Tracked, Agree
    <3>5. CASE k = "worker"
      <4>1. rows[c].status = "retrying" /\ pc["handler"][c] = "done"
        BY <3>1, <3>5, FixedRows DEF HandlerOwns, WorkerOwns, Sending, Kind
      <4> QED BY <1>3, <1>4, <3>1, <3>3, <3>5, <4>1 DEF Tracked, Agree, Kind, Left
    <3> QED BY <3>4, <3>5 DEF Kind
  <2> QED BY <2>1, <2>2
<1>14. ASSUME NEW k \in Kind, NEW d \in Deliveries, JitterPanic(k, d) PROVE Tracked(c)'
  <2>1. k = "handler" /\ Finish(k, d) /\ pc[k][d] = "write" /\ UNCHANGED <<rows, trail>>
    BY <1>0, <1>14 DEF JitterPanic, Drawing, Kind
  <2>2. CASE d # c
    BY <1>5, <2>1, <2>2 DEF Finish, Untouched, Kind
  <2>3. CASE d = c
    <3>1. pc'["handler"][c] = "done" /\ pc'["worker"][c] = pc["worker"][c] /\ dv'["worker"][c] = dv["worker"][c]
      BY <2>1, <2>3 DEF Finish, Left, Kind
    <3> QED BY <1>3, <2>1, <2>3, <3>1 DEF Tracked, Agree
  <2> QED BY <2>2, <2>3
<1>15. ASSUME NEW d \in Deliveries, Elapse(d) PROVE Tracked(c)'
  <2>1. rows'[c].status = rows[c].status /\ rows'[c].attempts = rows[c].attempts
    BY <1>15, DueRow DEF Elapse
  <2> QED BY <1>5, <1>15, <2>1 DEF Elapse, Untouched
<1>16. ASSUME UNCHANGED <<rows, trail, pc, dv>> PROVE Tracked(c)'
  BY <1>5, <1>16 DEF Untouched
<1> QED
  BY <1>0, <1>1, <1>6, <1>7, <1>8, <1>9, <1>10, <1>11, <1>12, <1>13, <1>14, <1>15, <1>16
  DEF Next, SendStep, Crash, Cancel, RequeueWrite, RequeueDrop, vars

\* Before any manual retry or stop every counted attempt is on record, and every recorded
\* one counted at most twice.
THEOREM AttemptsCovered == Spec => []TrailCoversAttempts
<1>1. ASSUME IInv, TrackInv PROVE TrailCoversAttempts
  <2> SUFFICES ASSUME NEW d \in Deliveries \ canceled,
                      Quiet, rows[d].status # "pending", pc["worker"][d] \notin Sending
               PROVE  Len(trail[d]) <= rows[d].attempts /\ rows[d].attempts <= 2 * Len(trail[d])
    BY DEF TrailCoversAttempts, Quiet
  <2>1. Tracked(d)
    BY <1>1 DEF TrackInv
  <2>2. rows[d].status = "absent" => pc["handler"][d] = "idle"
    BY <1>1 DEF IInv, HandlerOwns
  <2> QED BY <1>1, <2>1, <2>2 DEF Tracked, Agree, Sending, IInv, TypeOK
<1>2. Init => DownCounted
  BY AckInit
<1> QED BY <1>1, <1>2, SafeInit, SafeStep, DownStep, TrackInit, TrackStep, PTL DEF Spec


-----------------------------------------------------------------------------
\* How often a target is posted.

\* The manual retries that have read d as dead and not written it yet: each may write,
\* even when others have written and the delivery has been sent since.
Holders(d) == {r \in Requesters : req[r] = d}

\* The manual retries that d has had, or that had other deliveries.
Spent(d) == requeues - Cardinality(Holders(d))

\* One post of d may be on record and not in its count: the worker is about to write, or
\* the context ended before it wrote a 2xx and the end of the process is near.
Slack(d) ==
  IF rows[d].status = "retrying" /\ (pc["worker"][d] = "write" \/ phase = "stopping")
  THEN 1 ELSE 0

Capped(n) == IF n <= MaxRetries THEN n ELSE MaxRetries

\* How long a trail may be, by a count, the slack, manual retries and crashes.
Allows(n, s, m, c) == Capped(n) + s + MaxRetries * m + c

Allowance(d) == Allows(rows[d].attempts, Slack(d), Spent(d), crashes)

Bounded(d) ==
  /\ IsFiniteSet(Holders(d)) /\ Spent(d) \in Nat
  /\ pc["worker"][d] # "idle" => rows[d].attempts <= dv["worker"][d].attempts
  /\ pc["handler"][d] \in {"idle", "check", "post", "record"} => Len(trail[d]) = 0
  /\ rows[d].status = "pending" => Len(trail[d]) <= 1
  /\ rows[d].status \notin {"absent", "pending"} => Len(trail[d]) <= Allowance(d)

EffortInv == \A d \in Deliveries : Bounded(d)

\* At the start nobody holds anything and nothing is posted.
LEMMA EffortInit == Init => EffortInv
<1> SUFFICES ASSUME Init, NEW d \in Deliveries PROVE Bounded(d)
  BY DEF EffortInv
<1>1. Holders(d) = {}
  BY ConstantsAssumption DEF Init, Holders
<1>2. IsFiniteSet(Holders(d)) /\ Cardinality(Holders(d)) = 0
  BY <1>1, FS_EmptySet
<1> QED BY <1>2, FixedRows DEF Init, Bounded, Spent, Kind

\* Multiples of MaxRetries.
LEMMA Multiples ==
  ASSUME NEW m \in Nat, NEW n \in Nat
  PROVE  /\ MaxRetries * m \in Nat
         /\ m <= n => MaxRetries * m <= MaxRetries * n
         /\ MaxRetries * (m + 1) = MaxRetries * m + MaxRetries
BY ConstantsAssumption, SMT

\* An allowance is never negative, and no less than the count up to MaxRetries.
LEMMA AllowsAtLeast ==
  ASSUME NEW n \in Nat, NEW s \in Nat, NEW m \in Nat, NEW c \in Nat
  PROVE  /\ Allows(n, s, m, c) \in Nat /\ Capped(n) \in Nat
         /\ Capped(n) <= Allows(n, s, m, c) /\ s <= Allows(n, s, m, c)
<1> DEFINE old == MaxRetries * m
           k == Capped(n)
<1>1. old \in Nat
  BY Multiples
<1>2. k \in Nat
  BY ConstantsAssumption DEF Capped
<1>3. Allows(n, s, m, c) = ((k + s) + old) + c
  BY DEF Allows
<1>4. k = Capped(n)
  OBVIOUS
<1> HIDE DEF old, k
<1>5. k <= ((k + s) + old) + c /\ s <= ((k + s) + old) + c /\ ((k + s) + old) + c \in Nat
  BY <1>1, <1>2
<1> QED BY <1>2, <1>3, <1>4, <1>5

\* It grows with manual retries, and with count, slack and crashes together.
LEMMA AllowsGrows ==
  ASSUME NEW n \in Nat, NEW s \in Nat, NEW m \in Nat, NEW c \in Nat,
         NEW k \in Nat, NEW t \in Nat, NEW q \in Nat, NEW e \in Nat,
         m <= q, (Capped(n) + s) + c <= (Capped(k) + t) + e
  PROVE  Allows(n, s, m, c) <= Allows(k, t, q, e)
<1> DEFINE old == MaxRetries * m
           new == MaxRetries * q
           x == Capped(n)
           y == Capped(k)
<1>1. old \in Nat /\ new \in Nat /\ old <= new
  BY Multiples
<1>2. x \in Nat /\ y \in Nat /\ (x + s) + c <= (y + t) + e
  BY ConstantsAssumption DEF Capped
<1>3. Allows(n, s, m, c) = ((x + s) + old) + c /\ Allows(k, t, q, e) = ((y + t) + new) + e
  BY DEF Allows
<1> HIDE DEF old, new, x, y
<1>4. ((x + s) + old) + c <= ((y + t) + new) + e
  BY <1>1, <1>2
<1> QED BY <1>3, <1>4

\* The numbers of an allowance.
LEMMA AllowanceParts ==
  ASSUME IInv, NEW d \in Deliveries, Bounded(d)
  PROVE  /\ rows[d].attempts \in Nat /\ Slack(d) \in {0, 1} /\ Spent(d) \in Nat
         /\ crashes \in Nat /\ Capped(rows[d].attempts) \in Nat
         /\ Len(trail[d]) \in Nat /\ Allowance(d) \in Nat
<1>1. rows[d].attempts \in Nat /\ crashes \in Nat /\ Len(trail[d]) \in Nat
  BY DEF IInv, TypeOK, Row
<1>2. Slack(d) \in {0, 1}
  BY DEF Slack
<1>3. Spent(d) \in Nat
  BY DEF Bounded
<1>4. Slack(d) \in Nat
  BY <1>2
<1>5. Allowance(d) \in Nat /\ Capped(rows[d].attempts) \in Nat
  BY <1>1, <1>3, <1>4, AllowsAtLeast DEF Allowance
<1> QED BY <1>1, <1>2, <1>3, <1>5

\* What Bounded gives when nobody has more of d, and d has no more posts.
LEMMA BoundedKept ==
  ASSUME IInv, NEW d \in Deliveries, Bounded(d),
         IsFiniteSet(Holders(d)'), Spent(d)' \in Nat, Spent(d) <= Spent(d)',
         crashes' \in Nat,
         rows'[d].status = rows[d].status, rows'[d].attempts = rows[d].attempts,
         trail'[d] = trail[d],
         \/ pc'["handler"][d] \in {pc["handler"][d], "done"}
         \/ pc["handler"][d] \in {"check", "post"},
         pc'["worker"][d] # "idle" => rows[d].attempts <= dv'["worker"][d].attempts,
         Slack(d) + crashes <= Slack(d)' + crashes'
  PROVE  Bounded(d)'
<1>1. /\ rows[d].attempts \in Nat /\ Slack(d) \in {0, 1} /\ Spent(d) \in Nat
      /\ crashes \in Nat /\ Capped(rows[d].attempts) \in Nat
      /\ Len(trail[d]) \in Nat /\ Allowance(d) \in Nat
  BY AllowanceParts
<1>2. Slack(d)' \in {0, 1}
  BY DEF Slack
<1>3. Allowance(d) <= Allowance(d)'
  <2>1. (Capped(rows[d].attempts) + Slack(d)) + crashes
           <= (Capped(rows[d].attempts) + Slack(d)') + crashes'
    BY <1>1, <1>2
  <2>2. Slack(d) \in Nat /\ Slack(d)' \in Nat
    BY <1>1, <1>2
  <2>3. Allows(rows[d].attempts, Slack(d), Spent(d), crashes)
           <= Allows(rows[d].attempts, Slack(d)', Spent(d)', crashes')
    BY <1>1, <2>1, <2>2, AllowsGrows
  <2> QED BY <2>3 DEF Allowance
<1>4. Allowance(d)' \in Nat
  <2>1. Slack(d)' \in Nat /\ rows'[d].attempts \in Nat
    BY <1>1, <1>2
  <2> QED BY <2>1, AllowsAtLeast DEF Allowance
<1>5. Len(trail[d]) <= Allowance(d) => Len(trail'[d]) <= Allowance(d)'
  BY <1>1, <1>3, <1>4
<1>6. pc'["handler"][d] \in {"idle", "check", "post", "record"} => Len(trail'[d]) = 0
  BY DEF Bounded
<1>7. rows'[d].status = "pending" => Len(trail'[d]) <= 1
  BY DEF Bounded
<1>8. rows'[d].status \notin {"absent", "pending"} => Len(trail'[d]) <= Allowance(d)'
  BY <1>5 DEF Bounded
<1>9. pc'["worker"][d] # "idle" => rows'[d].attempts <= dv'["worker"][d].attempts
  OBVIOUS
<1> QED BY <1>6, <1>7, <1>8, <1>9 DEF Bounded

\* Manual retries are as they were.
LEMMA SpentSame ==
  ASSUME NEW d \in Deliveries, Bounded(d), UNCHANGED <<req, requeues>>
  PROVE  IsFiniteSet(Holders(d)') /\ Spent(d)' \in Nat /\ Spent(d)' = Spent(d)
<1>1. Holders(d)' = Holders(d)
  BY DEF Holders
<1> QED BY <1>1 DEF Spent, Bounded

\* The steps that write the row of a delivery or add to its trail.

\* An attempt on record is in the allowance: the first one leaves the row pending, a
\* retry uses the slack until its count is written.
LEMMA EffortRecord ==
  ASSUME IInv, NEW k \in Kind, NEW c \in Deliveries, Record(k, c), Bounded(c)
  PROVE  Bounded(c)'
<1> USE DEF IInv, TypeOK
<1>1. /\ pc[k][c] = "record" /\ pc'[k][c] = "write"
      /\ \A j \in Kind \ {k} : pc'[j][c] = pc[j][c]
      /\ UNCHANGED <<rows, dv, req, requeues, crashes, phase>>
      /\ trail'[c] = IF RecordTakes(k, c) THEN Append(trail[c], answer[k][c]) ELSE trail[c]
  BY DEF Record, Kind
<1>2. IsFiniteSet(Holders(c)') /\ Spent(c)' \in Nat /\ Spent(c)' = Spent(c)
  BY <1>1, SpentSame
<1>3. trail[c] \in Seq(Answers) /\ answer[k][c] \in Answers
  OBVIOUS
<1>4. Len(Append(trail[c], answer[k][c])) = Len(trail[c]) + 1
  BY <1>3, AppendLength
<1>5. /\ rows[c].attempts \in Nat /\ Slack(c) \in {0, 1} /\ Spent(c) \in Nat
      /\ crashes \in Nat /\ Capped(rows[c].attempts) \in Nat
      /\ Len(trail[c]) \in Nat /\ Allowance(c) \in Nat
  BY AllowanceParts
<1>6. CASE k = "handler"
  <2>1. rows[c].status = "pending" /\ pc["worker"][c] = "idle" /\ Len(trail[c]) = 0
    BY <1>1, <1>6, FixedRows DEF HandlerOwns, WorkerOwns, Sending, Kind, Bounded
  <2>2. /\ pc'["worker"][c] = "idle" /\ pc'["handler"][c] = "write"
        /\ rows'[c].status = "pending"
    BY <1>1, <1>6, <2>1 DEF Kind
  <2>3. Len(trail'[c]) <= 1
    <3> HIDE DEF IInv, TypeOK
    <3>1. CASE RecordTakes(k, c)
      BY <1>1, <1>4, <2>1, <3>1
    <3>2. CASE ~RecordTakes(k, c)
      BY <1>1, <2>1, <3>2
    <3> QED BY <3>1, <3>2
  <2> HIDE DEF IInv, TypeOK
  <2> QED BY <1>2, <2>2, <2>3 DEF Bounded
<1>7. CASE k = "worker" /\ RecordTakes(k, c)
  <2>1. rows[c].status = "retrying" /\ pc["handler"][c] = "done" /\ phase # "stopping"
    BY <1>1, <1>7, FixedRows DEF HandlerOwns, WorkerOwns, Sending, Kind, RecordTakes, CtxDone
  <2>2. Slack(c) = 0 /\ Slack(c)' = 1
    BY <1>1, <1>7, <2>1 DEF Slack
  <2>3. Allowance(c) + 1 <= Allowance(c)'
    <3> DEFINE old == MaxRetries * Spent(c)
               n == Capped(rows[c].attempts)
    <3>1. n \in Nat /\ old \in Nat
      BY <1>5, Multiples
    <3>2. Allowance(c) = ((n + 0) + old) + crashes /\ Allowance(c)' = ((n + 1) + old) + crashes
      BY <1>1, <1>2, <2>2 DEF Allowance, Allows, Capped
    <3> HIDE DEF n, old
    <3>3. (((n + 0) + old) + crashes) + 1 <= ((n + 1) + old) + crashes
      BY <1>5, <3>1
    <3> QED BY <3>2, <3>3
  <2>4. Len(trail[c]) <= Allowance(c)
    BY <2>1 DEF Bounded
  <2>5. Len(trail'[c]) = Len(trail[c]) + 1 /\ Allowance(c)' \in Nat
    <3>1. Slack(c)' \in Nat /\ rows'[c].attempts \in Nat /\ crashes' \in Nat
      BY <1>1, <1>5, <2>2
    <3>2. Allowance(c)' \in Nat
      BY <1>2, <3>1, AllowsAtLeast DEF Allowance
    <3> QED BY <1>1, <1>4, <1>7, <3>2
  <2>6. Len(trail'[c]) <= Allowance(c)'
    BY <1>5, <2>3, <2>4, <2>5
  <2>7. /\ rows'[c].status = "retrying" /\ pc'["handler"][c] = "done"
        /\ rows'[c].attempts <= dv'["worker"][c].attempts
    BY <1>1, <1>7, <2>1 DEF Bounded, Kind
  <2> HIDE DEF IInv, TypeOK
  <2> QED BY <1>2, <2>6, <2>7 DEF Bounded
<1>8. CASE k = "worker" /\ ~RecordTakes(k, c)
  <2>1. phase = "stopping" /\ rows[c].status = "retrying"
    BY <1>1, <1>8 DEF RecordTakes, CtxDone, WorkerOwns
  <2>2. Slack(c)' = 1 /\ Slack(c) + crashes <= Slack(c)' + crashes' /\ crashes' \in Nat
    <3>1. Slack(c) = 1 /\ Slack(c)' = 1
      BY <1>1, <2>1 DEF Slack
    <3> QED BY <1>1, <1>5, <3>1
  <2>3. /\ pc'["handler"][c] = pc["handler"][c] /\ trail'[c] = trail[c]
        /\ rows[c].attempts <= dv'["worker"][c].attempts
        /\ rows'[c].status = rows[c].status /\ rows'[c].attempts = rows[c].attempts
    BY <1>1, <1>8 DEF Bounded, Kind
  <2>4. Spent(c) <= Spent(c)'
    BY <1>2
  <2> HIDE DEF IInv, TypeOK
  <2> QED BY <1>2, <2>2, <2>3, <2>4, BoundedKept
<1> QED BY <1>6, <1>7, <1>8 DEF Kind

\* A count written is one more than the row's at least: it takes up the slack.
LEMMA EffortWrite ==
  ASSUME IInv, NEW k \in Kind, NEW c \in Deliveries, Write(k, c), Bounded(c)
  PROVE  Bounded(c)'
<1> USE DEF IInv, TypeOK
<1>0. TypeOK'
  BY TypeStep DEF Next, SendStep
<1>1. /\ pc[k][c] = "write" /\ pc'[k][c] = Left(k)
      /\ \A j \in Kind \ {k} : pc'[j][c] = pc[j][c] /\ dv'[j] = dv[j]
      /\ UNCHANGED <<trail, req, requeues, crashes, phase>>
      /\ rows'[c] = IF UpdateTakes(k, c) THEN Outcome(dv[k][c], answer[k][c]) ELSE rows[c]
  BY DEF Write, Finish, Kind
<1>2. IsFiniteSet(Holders(c)') /\ Spent(c)' \in Nat /\ Spent(c)' = Spent(c)
  BY <1>1, SpentSame
<1>3. dv[k][c] \in Row /\ dv[k][c].attempts \in Nat /\ answer[k][c] \in Answers
  BY DEF Row
<1>4. /\ Outcome(dv[k][c], answer[k][c]).attempts
           = dv[k][c].attempts + (IF answer[k][c] = "non2xx" THEN 2 ELSE 1)
      /\ Outcome(dv[k][c], answer[k][c]).status \in {"delivered", "retrying", "dead"}
  BY <1>3, OutcomeCount
<1>5. /\ rows[c].attempts \in Nat /\ Slack(c) \in {0, 1} /\ Spent(c) \in Nat
      /\ crashes \in Nat /\ Capped(rows[c].attempts) \in Nat
      /\ Len(trail[c]) \in Nat /\ Allowance(c) \in Nat
  BY AllowanceParts
<1>6. rows'[c].attempts \in Nat /\ crashes' = crashes /\ Slack(c)' \in {0, 1}
  <2>1. Slack(c)' \in {0, 1}
    BY DEF Slack
  <2> QED BY <1>0, <1>1, <2>1 DEF Row
<1>7. Allowance(c)' \in Nat /\ Capped(rows'[c].attempts) <= Allowance(c)'
      /\ Capped(rows'[c].attempts) \in Nat
  <2>1. Slack(c)' \in Nat /\ crashes' \in Nat
    BY <1>5, <1>6
  <2> QED BY <1>2, <1>6, <2>1, AllowsAtLeast DEF Allowance
<1>8. CASE k = "handler"
  <2>1. rows[c].status = "pending" /\ pc["worker"][c] = "idle" /\ Len(trail[c]) <= 1
    BY <1>1, <1>8, FixedRows DEF HandlerOwns, WorkerOwns, Sending, Kind, Bounded
  <2>2. pc'["handler"][c] = "done" /\ pc'["worker"][c] = "idle" /\ Len(trail'[c]) <= 1
    BY <1>1, <1>8, <2>1 DEF Kind, Left
  <2>3. CASE UpdateTakes(k, c)
    <3>1. rows'[c].attempts >= 1 /\ rows'[c].status # "pending"
      BY <1>1, <1>3, <1>4, <2>3
    <3>2. Capped(rows'[c].attempts) >= 1
      BY <1>6, <3>1, ConstantsAssumption DEF Capped
    <3>3. Len(trail'[c]) <= Allowance(c)'
      BY <1>1, <1>5, <1>7, <2>2, <3>2
    <3> HIDE DEF IInv, TypeOK
    <3> QED BY <1>2, <2>2, <3>1, <3>3 DEF Bounded
  <2>4. CASE ~UpdateTakes(k, c)
    <3>1. rows'[c].status = "pending"
      BY <1>1, <2>1, <2>4
    <3> HIDE DEF IInv, TypeOK
    <3> QED BY <1>2, <2>2, <3>1 DEF Bounded
  <2> QED BY <2>3, <2>4
<1>9. CASE k = "worker"
  <2>1. /\ rows[c].status = "retrying" /\ pc["handler"][c] = "done"
        /\ rows[c].attempts <= dv[k][c].attempts /\ Len(trail[c]) <= Allowance(c)
        /\ rows[c].attempts < MaxRetries
    BY <1>1, <1>9, FixedRows DEF HandlerOwns, WorkerOwns, Sending, Kind, Bounded, RowConsistent
  <2>2. pc'["handler"][c] = "done" /\ pc'["worker"][c] = "idle"
    BY <1>1, <1>9, <2>1 DEF Kind, Left
  <2>3. Slack(c) = 1
    BY <1>1, <1>9, <2>1 DEF Slack
  <2>4. CASE UpdateTakes(k, c)
    <3>1. rows'[c].attempts >= rows[c].attempts + 1
      BY <1>1, <1>3, <1>4, <1>5, <2>1, <2>4
    <3>2. Capped(rows'[c].attempts) >= Capped(rows[c].attempts) + 1
      BY <1>5, <1>6, <2>1, <3>1, ConstantsAssumption DEF Capped
    <3>3. (Capped(rows[c].attempts) + Slack(c)) + crashes
             <= (Capped(rows'[c].attempts) + Slack(c)') + crashes'
      BY <1>5, <1>6, <1>7, <2>3, <3>2
    <3>4. Slack(c) \in Nat /\ Slack(c)' \in Nat /\ Spent(c) <= Spent(c)' /\ crashes' \in Nat
      BY <1>2, <1>5, <1>6
    <3>5. Allows(rows[c].attempts, Slack(c), Spent(c), crashes)
             <= Allows(rows'[c].attempts, Slack(c)', Spent(c)', crashes')
      BY <1>2, <1>5, <1>6, <3>3, <3>4, AllowsGrows
    <3>6. Allowance(c) <= Allowance(c)'
      BY <3>5 DEF Allowance
    <3>7. Len(trail'[c]) <= Allowance(c)'
      BY <1>1, <1>5, <1>7, <2>1, <3>6
    <3>8. rows'[c].status \in {"delivered", "retrying", "dead"}
      BY <1>1, <1>4, <2>4
    <3> HIDE DEF IInv, TypeOK
    <3> QED BY <1>2, <2>2, <3>7, <3>8 DEF Bounded
  <2>5. CASE ~UpdateTakes(k, c)
    <3>1. phase = "stopping" /\ rows'[c] = rows[c]
      BY <1>1, <1>9, <2>5 DEF UpdateTakes, CtxDone
    <3>2. Slack(c)' = 1
      BY <1>1, <2>1, <3>1 DEF Slack
    <3>3. Slack(c) + crashes <= Slack(c)' + crashes' /\ crashes' \in Nat /\ Spent(c) <= Spent(c)'
      BY <1>1, <1>2, <1>5, <2>3, <3>2
    <3> HIDE DEF IInv, TypeOK
    <3> QED BY <1>1, <1>2, <2>2, <3>1, <3>3, BoundedKept
  <2> QED BY <2>4, <2>5
<1> QED BY <1>8, <1>9 DEF Kind

\* A manual retry that begins is held by its requester, and spent by everybody else.
LEMMA SpentTaken ==
  ASSUME IInv, NEW r \in Requesters, NEW d \in Deliveries, RequeueLoad(r, d),
         NEW c \in Deliveries, Bounded(c)
  PROVE  IsFiniteSet(Holders(c)') /\ Spent(c)' \in Nat /\ Spent(c) <= Spent(c)'
<1>1. /\ req[r] = NoReq /\ req' = [req EXCEPT ![r] = d] /\ requeues' = requeues + 1
      /\ req \in [Requesters -> Deliveries \cup {NoReq}] /\ requeues \in Nat /\ NoReq # c
  BY ConstantsAssumption DEF RequeueLoad, IInv, TypeOK
<1>2. IsFiniteSet(Holders(c)) /\ Spent(c) \in Nat /\ Cardinality(Holders(c)) \in Nat
  BY FS_CardinalityType DEF Bounded
<1>3. CASE d = c
  <2>1. Holders(c)' = Holders(c) \cup {r} /\ r \notin Holders(c)
    BY <1>1, <1>3 DEF Holders
  <2>2. IsFiniteSet(Holders(c)') /\ Cardinality(Holders(c)') = Cardinality(Holders(c)) + 1
    BY <1>2, <2>1, FS_AddElement
  <2> QED BY <1>1, <1>2, <2>2 DEF Spent
<1>4. CASE d # c
  <2>1. Holders(c)' = Holders(c)
    BY <1>1, <1>4 DEF Holders
  <2> QED BY <1>1, <1>2, <2>1 DEF Spent
<1> QED BY <1>3, <1>4

\* One that ends is spent.
LEMMA SpentReturned ==
  ASSUME IInv, NEW r \in Requesters, req' = [req EXCEPT ![r] = NoReq], requeues' = requeues,
         NEW c \in Deliveries, Bounded(c)
  PROVE  /\ IsFiniteSet(Holders(c)') /\ Spent(c)' \in Nat
         /\ Spent(c)' = IF req[r] = c THEN Spent(c) + 1 ELSE Spent(c)
<1>1. req \in [Requesters -> Deliveries \cup {NoReq}] /\ requeues \in Nat /\ NoReq # c
  BY ConstantsAssumption DEF IInv, TypeOK
<1>2. IsFiniteSet(Holders(c)) /\ Spent(c) \in Nat /\ Cardinality(Holders(c)) \in Nat
  BY FS_CardinalityType DEF Bounded
<1>3. CASE req[r] = c
  <2>1. Holders(c)' = Holders(c) \ {r} /\ r \in Holders(c)
    BY <1>1, <1>3 DEF Holders
  <2>2. IsFiniteSet(Holders(c)') /\ Cardinality(Holders(c)') = Cardinality(Holders(c)) - 1
    BY <1>2, <2>1, FS_RemoveElement
  <2> QED BY <1>1, <1>2, <1>3, <2>2 DEF Spent
<1>4. CASE req[r] # c
  <2>1. Holders(c)' = Holders(c)
    BY <1>1, <1>4 DEF Holders
  <2> QED BY <1>1, <1>2, <1>4, <2>1 DEF Spent
<1> QED BY <1>3, <1>4

\* A step that leaves a delivery, the manual retries and the process alone.
LEMMA BoundedUntouched ==
  ASSUME IInv, NEW c \in Deliveries, Bounded(c), Untouched(c),
         UNCHANGED <<req, requeues, crashes, phase>>
  PROVE  Bounded(c)'
<1>1. IsFiniteSet(Holders(c)') /\ Spent(c)' \in Nat /\ Spent(c)' = Spent(c)
  BY SpentSame
<1>2. Slack(c)' = Slack(c) /\ Slack(c) \in {0, 1} /\ crashes' = crashes /\ crashes \in Nat
  BY DEF Untouched, Slack, IInv, TypeOK
<1>3. Slack(c) + crashes <= Slack(c)' + crashes' /\ crashes' \in Nat /\ Spent(c) <= Spent(c)'
  BY <1>1, <1>2
<1>4. pc'["worker"][c] # "idle" => rows[c].attempts <= dv'["worker"][c].attempts
  BY DEF Bounded, Untouched
<1> QED BY <1>1, <1>3, <1>4, BoundedKept DEF Untouched

\* A manual retry written makes up for the count it resets.
LEMMA AllowsRetried ==
  ASSUME NEW n \in Nat, NEW s \in {0, 1}, NEW m \in Nat, NEW c \in Nat, NEW t \in {0, 1}, s <= t
  PROVE  Allows(n, s, m, c) <= Allows(0, t, m + 1, c) /\ 1 <= Allows(0, t, m + 1, c)
<1> DEFINE old == MaxRetries * m
           new == MaxRetries * (m + 1)
           x == Capped(n)
<1>1. old \in Nat /\ new = old + MaxRetries
  BY Multiples
<1>2. x \in Nat /\ x <= MaxRetries /\ Capped(0) = 0 /\ MaxRetries \in Nat /\ MaxRetries >= 1
  BY ConstantsAssumption DEF Capped
<1>3. Allows(n, s, m, c) = ((x + s) + old) + c /\ Allows(0, t, m + 1, c) = ((0 + t) + new) + c
  BY <1>2 DEF Allows
<1> HIDE DEF old, new, x
<1>4. ((x + s) + old) + c <= ((0 + t) + new) + c /\ 1 <= ((0 + t) + new) + c
  BY <1>1, <1>2
<1> QED BY <1>3, <1>4

\* A manual retry written resets the count of its delivery, which others may have
\* revived, sent and even seen delivered since it was read.
LEMMA EffortRetried ==
  ASSUME IInv, NEW r \in Requesters, RequeueWrite(r), NEW c \in Deliveries, Bounded(c)
  PROVE  Bounded(c)'
<1> USE DEF IInv, TypeOK
<1>1. /\ req[r] # NoReq /\ rows' = [rows EXCEPT ![req[r]] = Requeued]
      /\ req' = [req EXCEPT ![r] = NoReq]
      /\ UNCHANGED <<trail, pc, dv, answer, canceled, phase, requeues, crashes>>
  BY DEF RequeueWrite
<1>2. /\ IsFiniteSet(Holders(c)') /\ Spent(c)' \in Nat
      /\ Spent(c)' = IF req[r] = c THEN Spent(c) + 1 ELSE Spent(c)
  BY <1>1, SpentReturned
<1>3. /\ rows[c].attempts \in Nat /\ Slack(c) \in {0, 1} /\ Spent(c) \in Nat
      /\ crashes \in Nat /\ Capped(rows[c].attempts) \in Nat
      /\ Len(trail[c]) \in Nat /\ Allowance(c) \in Nat
  BY AllowanceParts
<1>4. CASE req[r] # c
  <2>1. rows'[c] = rows[c]
    BY <1>1, <1>4
  <2>2. Slack(c)' = Slack(c)
    BY <1>1, <2>1 DEF Slack
  <2>3. Slack(c) + crashes <= Slack(c)' + crashes' /\ crashes' \in Nat /\ Spent(c) <= Spent(c)'
    BY <1>1, <1>2, <1>3, <1>4, <2>2
  <2>4. pc'["worker"][c] # "idle" => rows[c].attempts <= dv'["worker"][c].attempts
    BY <1>1 DEF Bounded
  <2> HIDE DEF IInv, TypeOK
  <2> QED BY <1>1, <1>2, <2>1, <2>3, <2>4, BoundedKept
<1>5. CASE req[r] = c
  <2>1. pc["handler"][c] = "done" /\ rows[c].status # "absent"
    BY <1>1, <1>5 DEF RequesterAfterHandler, HandlerOwns
  <2>2. rows'[c] = Requeued
    BY <1>1, <1>5
  <2>3. Slack(c) <= Slack(c)' /\ Slack(c)' \in {0, 1}
    BY <1>1, <2>2, FixedRows DEF Slack
  <2>4. /\ Allows(rows[c].attempts, Slack(c), Spent(c), crashes)
             <= Allows(0, Slack(c)', Spent(c) + 1, crashes)
        /\ 1 <= Allows(0, Slack(c)', Spent(c) + 1, crashes)
    BY <1>3, <2>3, AllowsRetried
  <2>5. Allowance(c)' = Allows(0, Slack(c)', Spent(c) + 1, crashes)
    BY <1>1, <1>2, <1>5, <2>2, FixedRows DEF Allowance
  <2>6. Allowance(c) <= Allowance(c)' /\ 1 <= Allowance(c)'
    BY <2>4, <2>5 DEF Allowance
  <2>7. Allowance(c)' \in Nat
    <3>1. Slack(c)' \in Nat /\ Spent(c) + 1 \in Nat
      BY <1>3, <2>3
    <3>2. 0 \in Nat
      OBVIOUS
    <3> HIDE DEF IInv, TypeOK
    <3>3. Allows(0, Slack(c)', Spent(c) + 1, crashes) \in Nat
      BY <1>3, <3>1, <3>2, AllowsAtLeast
    <3> QED BY <2>5, <3>3
  <2>8. Len(trail[c]) <= 1 \/ Len(trail[c]) <= Allowance(c)
    BY <2>1 DEF Bounded
  <2>9. Len(trail'[c]) <= Allowance(c)'
    BY <1>1, <1>3, <2>6, <2>7, <2>8
  <2>10. /\ rows'[c].status = "retrying" /\ pc'["handler"][c] = "done"
         /\ pc'["worker"][c] # "idle" => rows'[c].attempts <= dv'["worker"][c].attempts
    BY <1>1, <2>1, <2>2, FixedRows DEF Row, Kind
  <2> HIDE DEF IInv, TypeOK
  <2> QED BY <1>2, <2>9, <2>10 DEF Bounded
<1> QED BY <1>4, <1>5

\* Every step keeps the trails within their allowances.
LEMMA EffortStep == IInv /\ EffortInv /\ [Next]_vars => EffortInv'
<1> SUFFICES ASSUME IInv, [Next]_vars, NEW c \in Deliveries, Bounded(c) PROVE Bounded(c)'
  BY DEF EffortInv
<1>1. /\ rows[c].attempts \in Nat /\ Slack(c) \in {0, 1} /\ Spent(c) \in Nat
      /\ crashes \in Nat /\ Capped(rows[c].attempts) \in Nat
      /\ Len(trail[c]) \in Nat /\ Allowance(c) \in Nat
  BY AllowanceParts
<1>2. UNCHANGED <<req, requeues>> =>
        IsFiniteSet(Holders(c)') /\ Spent(c)' \in Nat /\ Spent(c)' = Spent(c) /\ Spent(c) <= Spent(c)'
  BY <1>1, SpentSame
<1>3. Slack(c)' \in {0, 1}
  BY DEF Slack
<1> USE DEF IInv, TypeOK
<1>4. ASSUME NEW d \in Deliveries, Create(d) PROVE Bounded(c)'
  <2>1. CASE d # c
    <3>1. Untouched(c) /\ UNCHANGED <<req, requeues, crashes, phase>>
      BY <1>4, <2>1 DEF Create, Untouched, Kind
    <3> QED BY <3>1, BoundedUntouched
  <2>2. CASE d = c
    <3>1. /\ rows'[c].status = "pending" /\ trail' = trail /\ pc'["worker"][c] = "idle"
          /\ UNCHANGED <<req, requeues>> /\ Len(trail[c]) = 0
      BY <1>4, <2>2, FixedRows DEF Create, HandlerOwns, WorkerOwns, Kind, Bounded
    <3> QED BY <1>2, <3>1 DEF Bounded
  <2> QED BY <2>1, <2>2
<1>5. ASSUME NEW d \in Deliveries, CheckRefuse(d) PROVE Bounded(c)'
  <2>1. CASE d # c
    <3>1. Untouched(c) /\ UNCHANGED <<req, requeues, crashes, phase>>
      BY <1>5, <2>1 DEF CheckRefuse, Finish, Untouched, Kind
    <3> QED BY <3>1, BoundedUntouched
  <2>2. CASE d = c
    <3>1. /\ pc["handler"][c] = "check" /\ rows[c] = NewRow /\ dv["handler"][c] = NewRow
          /\ pc["worker"][c] = "idle" /\ Len(trail[c]) = 0
      BY <1>5, <2>2, FixedRows DEF CheckRefuse, HandlerOwns, WorkerOwns, Bounded
    <3>2. /\ rows'[c] \in {NewRow, Refused(NewRow)} /\ trail' = trail
          /\ pc'["worker"][c] = "idle" /\ UNCHANGED <<req, requeues, crashes>>
      BY <1>5, <2>2, <3>1 DEF CheckRefuse, Finish, Left, Kind
    <3>3. rows'[c].attempts \in Nat /\ Slack(c)' \in Nat /\ crashes' \in Nat
      BY <1>1, <1>3, <3>2, FixedRows, RefusedRow DEF Row
    <3>4. Allowance(c)' \in Nat
      BY <1>2, <3>2, <3>3, AllowsAtLeast DEF Allowance
    <3>5. Len(trail'[c]) = 0
      BY <3>1, <3>2
    <3> HIDE DEF IInv, TypeOK
    <3>6. Len(trail'[c]) <= 1 /\ Len(trail'[c]) <= Allowance(c)'
      BY <3>4, <3>5
    <3> QED BY <1>2, <3>2, <3>5, <3>6 DEF Bounded
  <2> QED BY <2>1, <2>2
<1>6. ASSUME NEW d \in Deliveries, CheckAllow(d) PROVE Bounded(c)'
  <2>1. /\ UNCHANGED <<rows, trail, dv, req, requeues, crashes, phase>>
        /\ pc'["worker"][c] = pc["worker"][c]
        /\ pc["handler"][c] = "check" \/ pc'["handler"][c] = pc["handler"][c]
    BY <1>6 DEF CheckAllow, Kind
  <2>2. Slack(c) + crashes <= Slack(c)' + crashes' /\ crashes' \in Nat
    BY <1>1, <2>1 DEF Slack
  <2>3. pc'["worker"][c] # "idle" => rows[c].attempts <= dv'["worker"][c].attempts
    BY <2>1 DEF Bounded
  <2> HIDE DEF IInv, TypeOK
  <2> QED BY <1>2, <2>1, <2>2, <2>3, BoundedKept
<1>7. CASE Scan
  <2>1. PICK batch \in SUBSET {d \in Deliveries : IsDue(rows[d])} :
          /\ pc' = [pc EXCEPT !["worker"] =
                   [d \in Deliveries |-> IF d \in batch THEN "queued" ELSE "idle"]]
          /\ dv' = [dv EXCEPT !["worker"] =
                   [d \in Deliveries |-> IF d \in batch THEN rows[d] ELSE NoRow]]
    BY <1>7 DEF Scan
  <2>2. /\ pc'["worker"][c] \in {"queued", "idle"} /\ pc'["handler"][c] = pc["handler"][c]
        /\ pc'["worker"][c] # "idle" => dv'["worker"][c] = rows[c]
    BY <2>1 DEF Kind
  <2>3. /\ pc["worker"][c] = "idle" /\ phase = "running"
        /\ UNCHANGED <<rows, trail, req, requeues, crashes, phase>>
    BY <1>7 DEF Scan
  <2>4. Slack(c) + crashes <= Slack(c)' + crashes' /\ crashes' \in Nat
    BY <1>1, <2>2, <2>3 DEF Slack
  <2>5. pc'["worker"][c] # "idle" => rows[c].attempts <= dv'["worker"][c].attempts
    BY <1>1, <2>2
  <2> HIDE DEF IInv, TypeOK
  <2> QED BY <1>2, <2>2, <2>3, <2>4, <2>5, BoundedKept
<1>8. ASSUME NEW d \in Deliveries, Fetch(d) \/ Skip(d) PROVE Bounded(c)'
  <2>1. /\ UNCHANGED <<rows, trail, req, requeues, crashes, phase>>
        /\ pc'["handler"][c] = pc["handler"][c]
        /\ \/ pc'["worker"][c] = pc["worker"][c] /\ dv'["worker"][c] = dv["worker"][c]
           \/ pc["worker"][c] = "queued" /\ pc'["worker"][c] = "idle"
           \/ /\ pc["worker"][c] = "queued" /\ pc'["worker"][c] = "post"
              /\ dv'["worker"][c] = dv["worker"][c]
    BY <1>8 DEF Fetch, Skip, Finish, Left, Kind
  <2>2. Slack(c) + crashes <= Slack(c)' + crashes' /\ crashes' \in Nat
    BY <1>1, <2>1 DEF Slack
  <2>3. pc'["worker"][c] # "idle" => rows[c].attempts <= dv'["worker"][c].attempts
    BY <2>1 DEF Bounded
  <2> HIDE DEF IInv, TypeOK
  <2> QED BY <1>2, <2>1, <2>2, <2>3, BoundedKept
<1>9. ASSUME NEW k \in Kind, NEW d \in Deliveries, Post(k, d) PROVE Bounded(c)'
  <2>1. /\ UNCHANGED <<rows, trail, dv, req, requeues, crashes, phase>>
        /\ pc["handler"][c] = "post" \/ pc'["handler"][c] = pc["handler"][c]
        /\ \/ pc'["worker"][c] = pc["worker"][c]
           \/ pc["worker"][c] = "post" /\ pc'["worker"][c] = "record"
    BY <1>9 DEF Post, Kind
  <2>2. Slack(c) + crashes <= Slack(c)' + crashes' /\ crashes' \in Nat
    BY <1>1, <2>1 DEF Slack
  <2>3. pc'["worker"][c] # "idle" => rows[c].attempts <= dv'["worker"][c].attempts
    BY <2>1 DEF Bounded
  <2> HIDE DEF IInv, TypeOK
  <2> QED BY <1>2, <2>1, <2>2, <2>3, BoundedKept
<1>10. ASSUME NEW k \in Kind, NEW d \in Deliveries, Record(k, d) PROVE Bounded(c)'
  <2>1. CASE d # c
    <3>1. Untouched(c) /\ UNCHANGED <<req, requeues, crashes, phase>>
      BY <1>10, <2>1 DEF Record, Untouched, Kind
    <3> QED BY <3>1, BoundedUntouched
  <2> QED BY <1>10, <2>1, EffortRecord
<1>11. ASSUME NEW k \in Kind, NEW d \in Deliveries, Write(k, d) PROVE Bounded(c)'
  <2>1. CASE d # c
    <3>1. Untouched(c) /\ UNCHANGED <<req, requeues, crashes, phase>>
      BY <1>11, <2>1 DEF Write, Finish, Untouched, Kind
    <3> QED BY <3>1, BoundedUntouched
  <2> QED BY <1>11, <2>1, EffortWrite
<1>12. CASE Die
  <2>1. /\ UNCHANGED <<rows, trail, requeues>> /\ crashes' = crashes + 1
        /\ pc'["worker"][c] = "idle" /\ pc'["handler"][c] \in {pc["handler"][c], "done"}
        /\ Holders(c)' = {}
    BY <1>12, ConstantsAssumption DEF Die, Kind, Holders
  <2>2. Slack(c) + crashes <= Slack(c)' + crashes' /\ crashes' \in Nat
    BY <1>1, <1>3, <2>1
  <2>3. IsFiniteSet(Holders(c)') /\ Spent(c)' \in Nat /\ Spent(c) <= Spent(c)'
    <3>1. IsFiniteSet(Holders(c)') /\ Cardinality(Holders(c)') = 0
      BY <2>1, FS_EmptySet
    <3>2. Cardinality(Holders(c)) \in Nat
      BY FS_CardinalityType DEF Bounded
    <3> QED BY <1>1, <2>1, <3>1, <3>2 DEF Spent
  <2> HIDE DEF IInv, TypeOK
  <2> QED BY <2>1, <2>2, <2>3, BoundedKept
<1>13. ASSUME NEW k \in Kind, NEW d \in Deliveries, JitterPanic(k, d) PROVE Bounded(c)'
  <2>1. CASE k = "handler"
    <3>1. /\ UNCHANGED <<rows, trail, req, requeues, crashes, phase>>
          /\ pc'["worker"][c] = pc["worker"][c] /\ dv'["worker"][c] = dv["worker"][c]
          /\ pc'["handler"][c] \in {pc["handler"][c], "done"}
      BY <1>13, <2>1 DEF JitterPanic, Finish, Left, Kind
    <3>2. Slack(c) + crashes <= Slack(c)' + crashes' /\ crashes' \in Nat
      BY <1>1, <3>1 DEF Slack
    <3>3. pc'["worker"][c] # "idle" => rows[c].attempts <= dv'["worker"][c].attempts
      BY <3>1 DEF Bounded
    <3> HIDE DEF IInv, TypeOK
    <3> QED BY <1>2, <3>1, <3>2, <3>3, BoundedKept
  <2>2. CASE k # "handler"
    BY <1>12, <1>13, <2>2 DEF JitterPanic
  <2> QED BY <2>1, <2>2
<1>14. ASSUME NEW r \in Requesters, NEW d \in Deliveries, RequeueLoad(r, d) PROVE Bounded(c)'
  <2>1. IsFiniteSet(Holders(c)') /\ Spent(c)' \in Nat /\ Spent(c) <= Spent(c)'
    BY <1>14, SpentTaken
  <2>2. UNCHANGED <<rows, trail, pc, dv, phase, crashes>>
    BY <1>14 DEF RequeueLoad
  <2>3. Slack(c) + crashes <= Slack(c)' + crashes' /\ crashes' \in Nat
    BY <1>1, <2>2 DEF Slack
  <2>4. pc'["worker"][c] # "idle" => rows[c].attempts <= dv'["worker"][c].attempts
    BY <2>2 DEF Bounded
  <2> HIDE DEF IInv, TypeOK
  <2> QED BY <2>1, <2>2, <2>3, <2>4, BoundedKept
<1>15. ASSUME NEW r \in Requesters, RequeueWrite(r) PROVE Bounded(c)'
  BY <1>15, EffortRetried
<1>16. ASSUME NEW r \in Requesters, RequeueDrop(r) PROVE Bounded(c)'
  <2>1. /\ req' = [req EXCEPT ![r] = NoReq]
        /\ UNCHANGED <<rows, trail, pc, dv, phase, requeues, crashes>>
    BY <1>16 DEF RequeueDrop
  <2>2. IsFiniteSet(Holders(c)') /\ Spent(c)' \in Nat /\ Spent(c) <= Spent(c)'
    <3>1. /\ IsFiniteSet(Holders(c)') /\ Spent(c)' \in Nat
          /\ Spent(c)' = IF req[r] = c THEN Spent(c) + 1 ELSE Spent(c)
      BY <2>1, SpentReturned
    <3> HIDE DEF IInv, TypeOK
    <3> QED BY <1>1, <3>1
  <2>3. Slack(c) + crashes <= Slack(c)' + crashes' /\ crashes' \in Nat
    BY <1>1, <2>1 DEF Slack
  <2>4. pc'["worker"][c] # "idle" => rows[c].attempts <= dv'["worker"][c].attempts
    BY <2>1 DEF Bounded
  <2> HIDE DEF IInv, TypeOK
  <2> QED BY <2>1, <2>2, <2>3, <2>4, BoundedKept
<1>17. ASSUME NEW d \in Deliveries, Elapse(d) PROVE Bounded(c)'
  <2>1. Untouched(c) /\ UNCHANGED <<req, requeues, crashes, phase>>
    BY <1>17, DueRow DEF Elapse, Untouched
  <2> QED BY <2>1, BoundedUntouched
<1>18. CASE Stop \/ Restart
  <2>1. /\ UNCHANGED <<rows, trail, pc, dv, req, requeues, crashes>>
        /\ phase = "down" => pc["worker"][c] = "idle"
        /\ \/ phase = "running" /\ phase' = "stopping"
           \/ phase = "down" /\ phase' = "running"
    BY <1>18 DEF Stop, Restart, DownIsQuiet
  <2>2. Slack(c) + crashes <= Slack(c)' + crashes' /\ crashes' \in Nat
    BY <1>1, <2>1 DEF Slack
  <2>3. pc'["worker"][c] # "idle" => rows[c].attempts <= dv'["worker"][c].attempts
    BY <2>1 DEF Bounded
  <2> HIDE DEF IInv, TypeOK
  <2> QED BY <1>2, <2>1, <2>2, <2>3, BoundedKept
<1>19. ASSUME UNCHANGED <<rows, trail, pc, dv, req, phase, requeues, crashes>> PROVE Bounded(c)'
  BY <1>19, BoundedUntouched DEF Untouched
<1> HIDE DEF IInv, TypeOK
<1> QED
  BY <1>4, <1>5, <1>6, <1>7, <1>8, <1>9, <1>10, <1>11, <1>12, <1>13, <1>14, <1>15, <1>16,
     <1>17, <1>18, <1>19
  DEF Next, SendStep, Crash, Cancel, vars

\* A target is posted MaxRetries times at most per life of a delivery, and once more per
\* end of the process, however manual retries overlap.
THEOREM EffortBounded == Spec => []BoundedEffort
<1>1. ASSUME IInv, EffortInv PROVE BoundedEffort
  <2> SUFFICES ASSUME NEW d \in Deliveries
               PROVE  Len(trail[d]) <= MaxRetries * (1 + requeues) + crashes
    BY DEF BoundedEffort
  <2>1. Bounded(d)
    BY <1>1 DEF EffortInv
  <2>2. /\ rows[d].attempts \in Nat /\ Slack(d) \in {0, 1} /\ Spent(d) \in Nat
        /\ crashes \in Nat /\ Capped(rows[d].attempts) \in Nat
        /\ Len(trail[d]) \in Nat /\ Allowance(d) \in Nat
    BY <1>1, <2>1, AllowanceParts
  <2>3. requeues \in Nat /\ Spent(d) <= requeues
    <3>1. Cardinality(Holders(d)) \in Nat /\ requeues \in Nat
      BY <1>1, <2>1, FS_CardinalityType DEF Bounded, IInv, TypeOK
    <3> QED BY <2>2, <3>1 DEF Spent
  <2> DEFINE old == MaxRetries * Spent(d)
             all == MaxRetries * (1 + requeues)
             x == Capped(rows[d].attempts)
  <2>4. old \in Nat /\ all \in Nat /\ old + MaxRetries <= all
    <3>1. /\ old \in Nat /\ MaxRetries * requeues \in Nat
          /\ old <= MaxRetries * requeues
          /\ MaxRetries * (requeues + 1) = MaxRetries * requeues + MaxRetries
      BY <2>2, <2>3, Multiples
    <3>2. all = MaxRetries * (requeues + 1)
      BY <2>3
    <3> DEFINE most == MaxRetries * requeues
               next == MaxRetries * (requeues + 1)
    <3>3. most \in Nat /\ old <= most /\ next = most + MaxRetries /\ all = next /\ old \in Nat
      BY <3>1, <3>2
    <3> HIDE DEF old, all, most, next
    <3> QED BY <3>3, ConstantsAssumption
  <2>5. x + Slack(d) <= MaxRetries /\ x \in Nat /\ MaxRetries \in Nat /\ MaxRetries >= 1
    <3>1. rows[d].status = "retrying" => rows[d].attempts < MaxRetries
      BY <1>1 DEF IInv, RowConsistent
    <3> QED BY <2>2, <3>1, ConstantsAssumption DEF Capped, Slack
  <2>6. Allowance(d) = ((x + Slack(d)) + old) + crashes
    BY DEF Allowance, Allows
  <2>7. Len(trail[d]) <= 1 \/ Len(trail[d]) <= Allowance(d)
    <3>1. rows[d].status = "absent" => pc["handler"][d] = "idle"
      BY <1>1 DEF IInv, HandlerOwns
    <3> QED BY <2>1, <2>2, <3>1 DEF Bounded
  <2> HIDE DEF old, all, x
  <2>8. Len(trail[d]) <= all + crashes
    BY <2>2, <2>4, <2>5, <2>6, <2>7
  <2> QED BY <2>8 DEF all
<1> QED BY <1>1, SafeInit, SafeStep, EffortInit, EffortStep, PTL DEF Spec
=============================================================================
