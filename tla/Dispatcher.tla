----------------------------- MODULE Dispatcher -----------------------------
(***************************************************************************)
(* The delivery life cycle: internal/dispatcher (Deliver, send,            *)
(* markFailed, Retry, Requeue), the deliveries and delivery_attempts       *)
(* tables, and the process around them (cmd/server/main.go).               *)
(*                                                                         *)
(* Three kinds of goroutine act on a delivery row: the request handler     *)
(* that creates it and makes the first attempt ("handler"), the one        *)
(* background goroutine that retries it ("worker"), and the handlers of    *)
(* POST /deliveries/{id}/retry (Requesters).  Every SQL statement and the  *)
(* POST to the target is a step of its own; nothing spans two statements.  *)
(*                                                                         *)
(* Abstractions.  next_retry_at is "null", "later" or "due": the passing   *)
(* of time is the action Elapse.  The Deliver calls of one request are     *)
(* sequential in the code and independent here, which only adds            *)
(* interleavings.  A target's answer is "2xx", "non2xx" or "error" (no     *)
(* answer, whether or not the request arrived).  Of SQL errors only those  *)
(* of an ended context are modelled.                                       *)
(***************************************************************************)
EXTENDS Naturals, Sequences, FiniteSets

CONSTANTS
  Deliveries,   \* ids of the delivery rows that requests may create
  Blocked,      \* those whose target fails Allowed: checked once per delivery
  Disconnects,  \* those whose request context may end before the handler does
  Requesters,   \* concurrent manual retry requests
  NoReq,        \* a requester that holds no delivery
  MaxRetries,   \* cfg.MaxRetries
  BatchLimit,   \* limit of DueDeliveries (100 in Retry)
  JitterRaces,  \* may concurrent draws from the unlocked rand.Rand panic?
  MaxRequeues,  \* bound: manual retries written in a behaviour
  MaxCrashes    \* bound: ends of the process in a behaviour

ASSUME ConstantsAssumption ==
  /\ Blocked \subseteq Deliveries
  /\ Disconnects \subseteq Deliveries
  /\ NoReq \notin Deliveries
  /\ MaxRetries \in Nat \ {0}         \* config.Load refuses other values
  /\ BatchLimit \in Nat \ {0}
  /\ JitterRaces \in BOOLEAN
  /\ MaxRequeues \in Nat
  /\ MaxCrashes \in Nat

VARIABLES
  rows,      \* table deliveries
  trail,     \* table delivery_attempts: per delivery, its rows in id order
  pc,        \* pc[k][d]: where goroutine kind k is with delivery d
  dv,        \* dv[k][d]: the *domain.Delivery that goroutine holds
  answer,    \* answer[k][d]: what its POST came back with
  canceled,  \* deliveries whose request context has ended
  req,       \* req[r]: the delivery requester r read as dead and will write
  phase,     \* of the process: "running", "stopping" (cancel called), "down"
  requeues,  \* counts against MaxRequeues
  crashes    \* counts against MaxCrashes

vars == <<rows, trail, pc, dv, answer, canceled, req, phase, requeues, crashes>>

-----------------------------------------------------------------------------
\* Rows and what the code makes of them.

Kind == {"handler", "worker"}
Status == {"absent", "pending", "sent", "delivered", "failed", "retrying", "dead"}
Answers == {"2xx", "non2xx", "error"}

\* "absent" stands for a row that is not in the table.
Row == [status    : Status,
        attempts  : Nat,
        next      : {"null", "later", "due"},    \* next_retry_at
        deadAt    : {"null", "set"},
        lastError : {"none", "failed", "refused"}]

RowWith(status, attempts, next, deadAt, lastError) ==
  [status |-> status, attempts |-> attempts, next |-> next,
   deadAt |-> deadAt, lastError |-> lastError]

NoRow == RowWith("absent", 0, "null", "null", "none")

-----------------------------------------------------------------------------
\* Slips: what a definition below would be with a plausible mistake in the code
\* it stands for.  No definition of the system uses them.

NewRowOfEvent == RowWith("accepted", 0, "null", "null", "none")  \* an event's status

MarkFailedKeepsNext(v, n) ==       \* without NextRetryAt = nil
  IF n >= MaxRetries THEN RowWith("dead", n, v.next, "set", "failed")
                     ELSE RowWith("retrying", n, "later", v.deadAt, "failed")

MarkFailedLate(v, n) ==            \* > for >=
  IF n > MaxRetries THEN RowWith("dead", n, "null", "set", "failed")
                    ELSE RowWith("retrying", n, "later", v.deadAt, "failed")

MarkFailedUnscheduled(v, n) ==     \* NextRetryAt = nil on both branches
  IF n >= MaxRetries THEN RowWith("dead", n, "null", "set", "failed")
                     ELSE RowWith("retrying", n, "null", v.deadAt, "failed")

IsDueSweeping(row) ==              \* takes up pending rows and null times
  row.status \in {"pending", "failed", "retrying"} /\ row.next # "later"

IsDueAnyStatus(row) == row.next = "due"

RequeueableSettled(row) == row.status \in {"dead", "delivered"}

RefusedAsFailure(v) ==             \* the refusal handled as a failed attempt
  RowWith("retrying", v.attempts + 1, "later", v.deadAt, "refused")

RecordOnAnswer(k, d) == answer[k][d] # "error"   \* no attempt row for an error

UpdateAlways(k, d) == TRUE         \* the background context after a 2xx too

-----------------------------------------------------------------------------
NewRow == RowWith("pending", 0, "null", "null", "none")

\* Deliver, when Allowed says no.
Refused(v) == RowWith("dead", v.attempts, v.next, "set", "refused")

\* markFailed, with n the count it arrives at.
MarkFailed(v, n) ==
  IF n >= MaxRetries THEN RowWith("dead", n, "null", "set", "failed")
                     ELSE RowWith("retrying", n, "later", v.deadAt, "failed")

\* The tail of send: an answered POST is counted before its status is looked
\* at, and a non-2xx answer is counted again by markFailed.
Outcome(v, a) ==
  IF a = "2xx" THEN RowWith("delivered", v.attempts + 1, v.next, v.deadAt, "none")
  ELSE IF a = "non2xx" THEN MarkFailed(v, v.attempts + 2)
  ELSE MarkFailed(v, v.attempts + 1)

\* What Requeue writes: every column is overwritten, so the row it read
\* survives only in its id.
Requeued == RowWith("retrying", 0, "later", "null", "none")

\* The WHERE clause of DueDeliveries.
IsDue(row) == row.status \in {"failed", "retrying"} /\ row.next = "due"

-----------------------------------------------------------------------------
Init ==
  /\ rows = [d \in Deliveries |-> NoRow]
  /\ trail = [d \in Deliveries |-> <<>>]
  /\ pc = [k \in Kind |-> [d \in Deliveries |-> "idle"]]
  /\ dv = [k \in Kind |-> [d \in Deliveries |-> NoRow]]
  /\ answer = [k \in Kind |-> [d \in Deliveries |-> "error"]]
  /\ canceled = {}
  /\ req = [r \in Requesters |-> NoReq]
  /\ phase = "running"
  /\ requeues = 0
  /\ crashes = 0

Alive == phase \in {"running", "stopping"}

\* The context the SQL calls of a goroutine get: the request's for a handler,
\* the one main cancels for the worker.
CtxDone(k, d) == IF k = "handler" THEN d \in canceled ELSE phase = "stopping"

\* Where a goroutine goes when it is through with a delivery.
Left(k) == IF k = "handler" THEN "done" ELSE "idle"

Finish(k, d) ==
  /\ pc' = [pc EXCEPT ![k][d] = Left(k)]
  /\ dv' = [dv EXCEPT ![k][d] = NoRow]
  /\ answer' = [answer EXCEPT ![k][d] = "error"]

-----------------------------------------------------------------------------
\* Deliver: the handler's part before send.

\* CreateDelivery.  It fails when the context has ended; then there is no row.
Create(d) ==
  /\ phase = "running"
  /\ pc["handler"][d] = "idle"
  /\ rows' = [rows EXCEPT ![d] = NewRow]
  /\ dv' = [dv EXCEPT !["handler"][d] = NewRow]
  /\ pc' = [pc EXCEPT !["handler"][d] = "check"]
  /\ UNCHANGED <<trail, answer, canceled, req, phase, requeues, crashes>>

\* Allowed: a refused target ends the delivery without an attempt.
CheckRefuse(d) ==
  /\ Alive
  /\ pc["handler"][d] = "check"
  /\ d \in Blocked
  /\ rows' = IF CtxDone("handler", d) THEN rows
             ELSE [rows EXCEPT ![d] = Refused(dv["handler"][d])]
  /\ Finish("handler", d)
  /\ UNCHANGED <<trail, canceled, req, phase, requeues, crashes>>

CheckAllow(d) ==
  /\ Alive
  /\ pc["handler"][d] = "check"
  /\ d \notin Blocked
  /\ pc' = [pc EXCEPT !["handler"][d] = "post"]
  /\ UNCHANGED <<rows, trail, dv, answer, canceled, req, phase, requeues, crashes>>

\* The client goes away or the 30 s of the middleware are over.
Cancel(d) ==
  /\ Alive
  /\ d \in Disconnects \ canceled
  /\ pc["handler"][d] \in {"check", "post", "record", "write"}
  /\ canceled' = canceled \cup {d}
  /\ UNCHANGED <<rows, trail, pc, dv, answer, req, phase, requeues, crashes>>

-----------------------------------------------------------------------------
\* Retry: the background goroutine, woken by the ticker.

\* DueDeliveries: a snapshot of the due rows, at most BatchLimit of them.
Scan ==
  /\ phase = "running"
  /\ \A d \in Deliveries : pc["worker"][d] = "idle"
  /\ \E batch \in SUBSET {d \in Deliveries : IsDue(rows[d])} :
       /\ batch # {}
       /\ Cardinality(batch) <= BatchLimit
       /\ \/ Cardinality(batch) = BatchLimit
          \/ batch = {d \in Deliveries : IsDue(rows[d])}
       /\ pc' = [pc EXCEPT !["worker"] =
                   [d \in Deliveries |-> IF d \in batch THEN "queued" ELSE "idle"]]
       /\ dv' = [dv EXCEPT !["worker"] =
                   [d \in Deliveries |-> IF d \in batch THEN rows[d] ELSE NoRow]]
  /\ UNCHANGED <<rows, trail, answer, canceled, req, phase, requeues, crashes>>

WorkerFree == \A d \in Deliveries : pc["worker"][d] \in {"idle", "queued"}

\* GetEvent and GetTarget, then send.
Fetch(d) ==
  /\ phase = "running"
  /\ WorkerFree
  /\ pc["worker"][d] = "queued"
  /\ pc' = [pc EXCEPT !["worker"][d] = "post"]
  /\ UNCHANGED <<rows, trail, dv, answer, canceled, req, phase, requeues, crashes>>

\* With the context cancelled both queries fail and the entry is passed over.
Skip(d) ==
  /\ phase = "stopping"
  /\ WorkerFree
  /\ pc["worker"][d] = "queued"
  /\ Finish("worker", d)
  /\ UNCHANGED <<rows, trail, canceled, req, phase, requeues, crashes>>

-----------------------------------------------------------------------------
\* send, for either kind of goroutine.

\* client.Do.  A request whose context has ended comes back with an error.
Post(k, d) ==
  /\ Alive
  /\ pc[k][d] = "post"
  /\ \E a \in Answers :
       /\ CtxDone(k, d) => a = "error"
       /\ answer' = [answer EXCEPT ![k][d] = a]
  /\ pc' = [pc EXCEPT ![k][d] = "record"]
  /\ UNCHANGED <<rows, trail, dv, canceled, req, phase, requeues, crashes>>

\* An insert or update fails when its context has ended.
RecordTakes(k, d) == ~CtxDone(k, d)

\* CreateDeliveryAttempt; its error is ignored.
Record(k, d) ==
  /\ Alive
  /\ pc[k][d] = "record"
  /\ trail' = IF RecordTakes(k, d)
              THEN [trail EXCEPT ![d] = Append(@, answer[k][d])]
              ELSE trail
  /\ pc' = [pc EXCEPT ![k][d] = "write"]
  /\ UNCHANGED <<rows, dv, answer, canceled, req, phase, requeues, crashes>>

\* UpdateDelivery: with the caller's context after a 2xx, with the background
\* context in markFailed.  Errors are ignored.
UpdateTakes(k, d) == answer[k][d] = "2xx" => ~CtxDone(k, d)

Write(k, d) ==
  /\ Alive
  /\ pc[k][d] = "write"
  /\ rows' = IF UpdateTakes(k, d)
             THEN [rows EXCEPT ![d] = Outcome(dv[k][d], answer[k][d])]
             ELSE rows
  /\ Finish(k, d)
  /\ UNCHANGED <<trail, canceled, req, phase, requeues, crashes>>

-----------------------------------------------------------------------------
\* Requeue: POST /api/v1/deliveries/{id}/retry.

Requeueable(row) == row.status = "dead"

\* GetDelivery and the test of the status; any other status is refused and
\* nothing changes.
RequeueLoad(r, d) ==
  /\ phase = "running"
  /\ req[r] = NoReq
  /\ Requeueable(rows[d])
  /\ requeues < MaxRequeues
  /\ requeues' = requeues + 1
  /\ req' = [req EXCEPT ![r] = d]
  /\ UNCHANGED <<rows, trail, pc, dv, answer, canceled, phase, crashes>>

\* UpdateDelivery: unconditional, whatever the row has become meanwhile.
RequeueWrite(r) ==
  /\ Alive
  /\ req[r] # NoReq
  /\ rows' = [rows EXCEPT ![req[r]] = Requeued]
  /\ req' = [req EXCEPT ![r] = NoReq]
  /\ UNCHANGED <<trail, pc, dv, answer, canceled, phase, requeues, crashes>>

\* The request's context ends, or it panics, before the write.
RequeueDrop(r) ==
  /\ Alive
  /\ req[r] # NoReq
  /\ req' = [req EXCEPT ![r] = NoReq]
  /\ UNCHANGED <<rows, trail, pc, dv, answer, canceled, phase, requeues, crashes>>

-----------------------------------------------------------------------------
\* The jitter source.  backoff.rng is a rand.Rand without a lock, and every
\* failure that will be retried and every requeue draws from it.

Drawing(k, d) ==
  /\ pc[k][d] = "write"
  /\ answer[k][d] # "2xx"
  /\ Outcome(dv[k][d], answer[k][d]).status = "retrying"

Drawers == {kd \in Kind \X Deliveries : Drawing(kd[1], kd[2])}

RequestersDrawing == {r \in Requesters : req[r] # NoReq}

\* All memory is lost; the tables stay.
Die ==
  /\ crashes < MaxCrashes
  /\ crashes' = crashes + 1
  /\ phase' = "down"
  /\ pc' = [k \in Kind |-> [d \in Deliveries |->
              IF k = "handler" /\ pc[k][d] # "idle" THEN "done" ELSE "idle"]]
  /\ dv' = [k \in Kind |-> [d \in Deliveries |-> NoRow]]
  /\ answer' = [k \in Kind |-> [d \in Deliveries |-> "error"]]
  /\ req' = [r \in Requesters |-> NoReq]
  /\ UNCHANGED <<rows, trail, canceled, requeues>>

\* Two draws at once: an index of the generator may be out of range.  net/http
\* recovers the panic of a handler, which leaves the row as it is; nothing
\* recovers the panic of the background goroutine.
JitterPanic(k, d) ==
  /\ JitterRaces
  /\ Alive
  /\ Drawing(k, d)
  /\ Drawers # {<<k, d>>} \/ RequestersDrawing # {}
  /\ IF k = "handler"
     THEN Finish(k, d) /\ UNCHANGED <<rows, trail, canceled, req, phase, requeues, crashes>>
     ELSE Die

-----------------------------------------------------------------------------
\* Time and the process.

Due(row) == RowWith(row.status, row.attempts, "due", row.deadAt, row.lastError)

\* The clock passes next_retry_at.
Elapse(d) ==
  /\ rows[d].next = "later"
  /\ rows' = [rows EXCEPT ![d] = Due(rows[d])]
  /\ UNCHANGED <<trail, pc, dv, answer, canceled, req, phase, requeues, crashes>>

\* A signal: Shutdown, then cancel(); main returns soon after (Crash).
Stop ==
  /\ phase = "running"
  /\ crashes < MaxCrashes
  /\ phase' = "stopping"
  /\ UNCHANGED <<rows, trail, pc, dv, answer, canceled, req, requeues, crashes>>

\* The process ends: after Stop, or at any moment.
Crash == Alive /\ Die

Restart ==
  /\ phase = "down"
  /\ phase' = "running"
  /\ UNCHANGED <<rows, trail, pc, dv, answer, canceled, req, requeues, crashes>>

-----------------------------------------------------------------------------
SendStep(k, d) == Post(k, d) \/ Record(k, d) \/ Write(k, d)

Next ==
  \/ \E d \in Deliveries : Create(d) \/ CheckRefuse(d) \/ CheckAllow(d) \/ Cancel(d)
  \/ Scan
  \/ \E d \in Deliveries : Fetch(d) \/ Skip(d)
  \/ \E k \in Kind, d \in Deliveries : SendStep(k, d) \/ JitterPanic(k, d)
  \/ \E r \in Requesters, d \in Deliveries : RequeueLoad(r, d)
  \/ \E r \in Requesters : RequeueWrite(r) \/ RequeueDrop(r)
  \/ \E d \in Deliveries : Elapse(d)
  \/ Stop \/ Crash \/ Restart

Spec == Init /\ [][Next]_vars

\* Goroutines are scheduled, POSTs end (ForwardTimeout), the ticker fires,
\* the clock runs, a stopping process exits and a dead one is started again.
\* Nothing obliges a client to send a request or the process to die.
Fairness ==
  /\ \A d \in Deliveries :
       /\ WF_vars(CheckRefuse(d) \/ CheckAllow(d))
       /\ WF_vars(Fetch(d) \/ Skip(d))
       /\ WF_vars(Elapse(d))
       /\ \A k \in Kind : WF_vars(SendStep(k, d))
  /\ \A r \in Requesters : WF_vars(RequeueWrite(r) \/ RequeueDrop(r))
  /\ WF_vars(Scan)
  /\ WF_vars(phase = "stopping" /\ Crash)
  /\ WF_vars(Restart)

FairSpec == Spec /\ Fairness

-----------------------------------------------------------------------------
\* Properties.

Sending == {"post", "record", "write"}

\* The recorded answers hold a 2xx.
Acked(d) == \E i \in DOMAIN trail[d] : trail[d][i] = "2xx"

\* Every variable has its type; a requester holds a delivery of the table.
TypeOK ==
  /\ rows \in [Deliveries -> Row]
  /\ trail \in [Deliveries -> Seq(Answers)]
  /\ pc \in [Kind -> [Deliveries ->
               {"idle", "check", "queued", "post", "record", "write", "done"}]]
  /\ dv \in [Kind -> [Deliveries -> Row]]
  /\ answer \in [Kind -> [Deliveries -> Answers]]
  /\ canceled \subseteq Deliveries
  /\ req \in [Requesters -> Deliveries \cup {NoReq}]
  /\ phase \in {"running", "stopping", "down"}
  /\ requeues \in Nat
  /\ crashes \in Nat

\* The columns of a row agree however markFailed, the refusal in Deliver and
\* Requeue interleave: dead_at is set exactly on dead rows, a dead row has no
\* retry time, a retrying row has one and has attempts left, so DueDeliveries
\* will find it; the statuses "sent" and "failed" are never stored.
RowConsistent ==
  \A d \in Deliveries :
    LET r == rows[d] IN
    /\ r.status \in {"absent", "pending", "delivered", "retrying", "dead"}
    /\ (r.deadAt = "set") <=> (r.status = "dead")
    /\ r.status = "dead" => r.next = "null"
    /\ r.status = "retrying" => r.next # "null" /\ r.attempts < MaxRetries

\* The first attempt (handler) and a retry (worker) of one delivery are never
\* in flight together, and the worker sends one delivery at a time: no lock in
\* the dispatcher says so, only the statuses DueDeliveries selects.
NoConcurrentSend ==
  /\ \A d \in Deliveries :
       pc["handler"][d] \in Sending => pc["worker"][d] = "idle"
  /\ \A c, d \in Deliveries :
       pc["worker"][c] \in Sending /\ pc["worker"][d] \in Sending => c = d

\* A row says delivered only if the trail holds the 2xx that made it so, though
\* the attempt's insert and the row's update are two statements either of which
\* may fail when the context ends.
DeliveredHasEvidence ==
  \A d \in Deliveries : rows[d].status = "delivered" => Acked(d)

\* Retries are bounded through restarts and manual retries: a target is posted
\* MaxRetries times at most per life of a delivery, plus one unaccounted post
\* per end of the process (the post was made, its count was not written).
BoundedEffort ==
  \A d \in Deliveries :
    Len(trail[d]) <= MaxRetries * (1 + requeues) + crashes

\* A 2xx that is on record reaches the row: only the end of the request's context,
\* or of the process, between the two statements can part them; the worker's
\* snapshot does not, nor do manual retries made one at a time (two that overlap do:
\* DeliveredIsFinal).
AcknowledgementCounts ==
  \A d \in Deliveries \ canceled :
    Acked(d) /\ phase = "running" /\ crashes = 0 =>
      \/ rows[d].status = "delivered"
      \/ \E k \in Kind : pc[k][d] = "write" /\ answer[k][d] = "2xx"

\* A target the whitelist refuses is posted after a manual retry only (Retry does
\* not ask Allowed again).
RefusedPostedByHand ==
  \A d \in Blocked : trail[d] # <<>> => requeues > 0

\* Once delivered, always delivered, and the other columns too but for the
\* clock: neither the worker's snapshot nor a manual retry overwrites it.
DeliveredIsFinal ==
  [][\A d \in Deliveries :
       rows[d].status = "delivered" =>
         rows'[d] \in {rows[d], Due(rows[d])}]_vars

\* The rows behave as the contract says.
Contract == INSTANCE DeliveryContract WITH
  status <- [d \in Deliveries |-> rows[d].status],
  acknowledged <- {d \in Deliveries : Acked(d)}

ContractKept == Contract!CSpec

\* A delivery that was accepted is settled: no interleaving of the worker, the
\* batch limit and manual retries leaves one behind, but for a row whose
\* request ended during the first attempt.
EveryDeliverySettles ==
  \A d \in Deliveries :
    rows[d].status \in {"pending", "retrying"} ~>
      \/ rows[d].status \in {"delivered", "dead"}
      \/ rows[d].status = "pending" /\ d \in canceled

\* Before any manual retry or stop the count in the row and the trail agree up to the
\* double count of answered failures: every counted attempt is on record, unless the
\* request ended (the attempt is then lost, the count is not), or its handler panicked
\* between the two (the row is then left pending).
TrailCoversAttempts ==
  \A d \in Deliveries \ canceled :
    /\ requeues = 0 /\ crashes = 0 /\ phase = "running"
    /\ rows[d].status # "pending"
    /\ pc["worker"][d] \notin Sending
    => Len(trail[d]) <= rows[d].attempts /\ rows[d].attempts <= 2 * Len(trail[d])

-----------------------------------------------------------------------------
\* What the documents say and the code does not do (the violation runs).

\* README.md:41, MAX_RETRIES is the number of retries: a delivery that failed
\* for good was posted that often.
DeadMeansExhausted ==
  \A d \in Deliveries :
    rows[d].status = "dead" /\ rows[d].lastError = "failed" /\ requeues = 0 =>
      Len(trail[d]) >= MaxRetries

-----------------------------------------------------------------------------
\* Why the safety properties hold: the conjuncts of an inductive invariant.

\* The handler owns a row from its creation until it lets go of it, and holds
\* the row as it is in the table.
HandlerOwns ==
  \A d \in Deliveries :
    /\ pc["handler"][d] \in {"idle", "check", "done"} \cup Sending
    /\ pc["handler"][d] = "idle" <=> rows[d].status = "absent"
    /\ pc["handler"][d] \in {"check"} \cup Sending =>
         rows[d] = NewRow /\ dv["handler"][d] = NewRow

\* The worker holds only rows that are retrying and stay so meanwhile.
WorkerOwns ==
  \A d \in Deliveries :
    /\ pc["worker"][d] \in {"idle", "queued"} \cup Sending
    /\ pc["worker"][d] # "idle" =>
         rows[d].status = "retrying" /\ dv["worker"][d].deadAt = "null"

WorkerSerial ==
  \A c, d \in Deliveries :
    pc["worker"][c] \in Sending /\ pc["worker"][d] \in Sending => c = d

\* A 2xx about to be written is on record, or its write will not take.
EvidenceFirst ==
  \A k \in Kind, d \in Deliveries :
    pc[k][d] = "write" /\ answer[k][d] = "2xx" => Acked(d) \/ CtxDone(k, d)

DownIsQuiet ==
  phase = "down" =>
    \A d \in Deliveries :
      pc["handler"][d] \in {"idle", "done"} /\ pc["worker"][d] = "idle"

\* Requeue works on a delivery whose handler is through with it.
RequesterAfterHandler ==
  \A r \in Requesters : req[r] # NoReq => pc["handler"][req[r]] = "done"

IInv ==
  /\ TypeOK
  /\ RowConsistent
  /\ HandlerOwns
  /\ WorkerOwns
  /\ WorkerSerial
  /\ EvidenceFirst
  /\ DeliveredHasEvidence
  /\ DownIsQuiet
  /\ RequesterAfterHandler

\* With one manual retry at a time, what it will overwrite is still dead.
OneRequester == \A r, s \in Requesters : r = s

RequesterOwns == \A r \in Requesters : req[r] # NoReq => rows[req[r]].status = "dead"
=============================================================================
